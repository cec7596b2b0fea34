----------------------------- MODULE TclBlock -----------------------------
(***************************************************************************)
(* The half-duplex block protocol T=CL of mod/src/iso14444.c: one APDU     *)
(* goes to an ISO/IEC 14443-4 card in a chain of blocks                    *)
(* (typeA_standard_apdu_handler), each of which is sent, waited for,       *)
(* acknowledged, asked for again or retransmitted                          *)
(* (typeA_data_send_error_check, typeA_rblock_command).  A command may     *)
(* come in several messages, and a response leave in several: *level says  *)
(* how they go on.                                                         *)
(*                                                                         *)
(* The card is not part of the sources: it follows the rules of ISO/IEC    *)
(* 14443-4 the comments of the code refer to.  A chunk <<a, i>> is the     *)
(* i-th block's worth of data of the APDU number a, or of the answer to    *)
(* it; the data <<_, 0>> belongs to none.                                  *)
(***************************************************************************)
EXTENDS Integers, Sequences, WaitingTime

CONSTANTS
  MaxCmd,      \* the blocks of the longest command APDU, in all its messages
  MaxRsp,      \* the blocks of the longest response APDU
  Threshold,   \* the blocks that APDURECLENTHREHOLD bytes hold
  MaxFaults,   \* frames that get lost or damaged, per APDU
  MaxWtx,      \* waiting time extensions a card asks for, per APDU
  MaxTrouble,  \* both together
  Fwi, Wtxm,   \* the card's waiting time, and the multiple it asks for
  Slack        \* what type B adds to the waiting time

ASSUME SizesAssumption  == MaxCmd \in Nat \ {0} /\ MaxRsp \in Nat \ {0} /\ Threshold \in Nat \ {0}
ASSUME FaultsAssumption == MaxFaults \in Nat /\ MaxWtx \in Nat /\ MaxTrouble \in Nat
ASSUME TimesAssumption  == /\ Fwi \in FWIs /\ Wtxm \in WTXMs /\ Slack \in Slacks
                           /\ ~Wraps(Fwi, Wtxm, Slack)

Bit    == {0, 1}
Chunks == Bit \X Nat

NoData == <<0, 0>>
Stale  == <<1, 0>>

\* Blocks.  "bad" stands for all that the code answers with
\* SLOTERROR_TCL_BLOCK_INVALID at once.
Block(k, m, n, d) == [kind |-> k, more |-> m, bn |-> n, data |-> d]

IBlock(m, n, d) == Block("I", m, n, d)
RBlock(k, n)    == Block(k, FALSE, n, NoData)
WTX             == Block("WTX", FALSE, 0, NoData)
Bad             == Block("bad", FALSE, 0, NoData)
Unknown         == Block("unknown", FALSE, 0, NoData)
Blocks          == [kind : {"I", "ACK", "NAK", "WTX", "bad", "unknown"}, more : BOOLEAN, bn : Bit,
                    data : Chunks]

\* What a buffer can hold that no card has sent: kmalloc'd memory, or what a
\* damaged frame has left there.
Junk == {Bad, WTX} \cup {RBlock("ACK", n) : n \in Bit}
          \cup {IBlock(m, n, Stale) : m \in BOOLEAN, n \in Bit}

VARIABLES
  pc,         \* "off": not activated, "idle", "wait" for the chip, "oops"
  asked,      \* the message: the number of its APDU, *level, the block that is
              \* sent and the last one; the part of the response that is had
  pcb,        \* picc->PCB: what is being sent, and retransmitted
  bn,         \* PCD_BLOCK_NUMBER
  pcdChain,   \* PCD_CHAINING
  piccChain,  \* PICC_CHAINING
  wtx,        \* WTX_REQUEST and WTX_REQ_BEFORE
  long,       \* the timer of the reader runs for WTXM times the FWT
  from,       \* where typeA_data_send_error_check waits
  tries,      \* timeoutRetry, frameRetry, ackRetry, resendCount
  rec,        \* the block at pRecAddr, received or left over
  got,        \* the data collected behind it
  result,     \* what the handler has returned, and *level
  air,        \* the frame under way
  card,       \* the card: see Fresh
  executed,   \* the commands the card has executed for this APDU
  faults,     \* frames lost or damaged, extensions asked for
  seen        \* history: an answer heard, a block misread, a block sent
              \* again; a command put together from what is not all of it

pcdVars  == <<asked, pcb, bn, pcdChain, piccChain, wtx, long, from, tries, rec, got, result>>
cardVars == <<card, executed>>
vars     == <<pc, pcdVars, air, cardVars, faults, seen>>

-----------------------------------------------------------------------------
(* The card.                                                               *)

\* A card just activated.  It is in the field (here), has its block number,
\* the chunks of a command received so far, the length of its response and
\* how much of it is sent, its last block and one held back by S(WTX).
Fresh == [here |-> TRUE, bn |-> 1, rx |-> <<>>, len |-> 0, tx |-> 0, last |-> Bad, held |-> Bad,
          busy |-> FALSE]

NothingSeen  == [answers |-> FALSE, misread |-> FALSE, resent |-> FALSE, torn |-> FALSE]
Absent       == [Fresh EXCEPT !.here = FALSE]
NoFaults     == [lost |-> 0, wtx |-> 0]
Silence      == [to |-> "nobody", block |-> Bad]
ToCard(b)    == [to |-> "card", block |-> b]
FromCard(b)  == [to |-> "pcd", block |-> b]

Chunk(i) == <<asked.id, i>>

\* What the bounds leave to be lost, and to be asked for.
MayLose == faults.lost < MaxFaults /\ faults.lost + faults.wtx < MaxTrouble
MayAsk  == faults.wtx < MaxWtx /\ faults.lost + faults.wtx < MaxTrouble

\* The card answers b; or it asks for more time first.
Answers(c, b) ==
  \/ /\ card' = [c EXCEPT !.last = b]
     /\ air' = FromCard(b)
     /\ UNCHANGED faults
  \/ /\ MayAsk
     /\ faults' = [faults EXCEPT !.wtx = @ + 1]
     /\ card' = [c EXCEPT !.last = WTX, !.held = b]
     /\ air' = FromCard(WTX)

Hears == air.to = "card" /\ card.here /\ ~card.busy

CardCommand ==
  /\ Hears /\ air.block.kind = "I"
  /\ LET n  == 1 - card.bn
         rx == IF air.block.data = NoData THEN card.rx ELSE Append(card.rx, air.block.data)
     IN \/ /\ air.block.more
           /\ Answers([card EXCEPT !.bn = n, !.rx = rx], RBlock("ACK", n))
           /\ UNCHANGED executed
        \/ /\ ~air.block.more
           /\ executed' = Append(executed, rx)
           /\ \E l \in 1..MaxRsp :
                Answers([card EXCEPT !.bn = n, !.rx = <<>>, !.len = l, !.tx = 1],
                        IBlock(l > 1, n, Chunk(1)))
  /\ UNCHANGED <<pc, pcdVars, seen>>

\* R(ACK) with the number the card has not: the next block of its chain.
CardContinues ==
  /\ Hears /\ air.block.kind = "ACK" /\ air.block.bn # card.bn
  /\ \/ /\ card.tx < card.len
        /\ Answers([card EXCEPT !.bn = 1 - @, !.tx = @ + 1],
                   IBlock(card.tx + 1 < card.len, 1 - card.bn, Chunk(card.tx + 1)))
     \/ /\ card.tx >= card.len
        /\ air' = Silence
        /\ UNCHANGED <<card, faults>>
  /\ UNCHANGED <<pc, pcdVars, executed, seen>>

\* R(ACK) or R(NAK) with the number it has: its last block again.
CardRepeats ==
  /\ Hears /\ air.block.kind \in {"ACK", "NAK"} /\ air.block.bn = card.bn
  /\ air' = IF card.last = Bad THEN Silence ELSE FromCard(card.last)
  /\ UNCHANGED <<pc, pcdVars, cardVars, faults, seen>>

\* R(NAK) with the number it has not: R(ACK).
CardAcknowledges ==
  /\ Hears /\ air.block.kind = "NAK" /\ air.block.bn # card.bn
  /\ air' = FromCard(RBlock("ACK", card.bn))
  /\ UNCHANGED <<pc, pcdVars, cardVars, faults, seen>>

\* S(WTX) is accepted: the card works on, up to WTXM times the FWT.
CardExtended ==
  /\ Hears /\ air.block.kind = "WTX"
  /\ card' = [card EXCEPT !.busy = (card.held # Bad)]
  /\ air' = Silence
  /\ UNCHANGED <<pc, pcdVars, executed, faults, seen>>

CardReady ==
  /\ card.here /\ card.busy /\ air.to = "nobody"
  /\ card' = [card EXCEPT !.busy = FALSE, !.last = card.held, !.held = Bad]
  /\ air' = FromCard(card.held)
  /\ UNCHANGED <<pc, pcdVars, executed, faults, seen>>

\* Its time is up, and it asks for more.
CardAsksAgain ==
  /\ card.here /\ card.busy /\ air.to = "nobody"
  /\ MayAsk
  /\ faults' = [faults EXCEPT !.wtx = @ + 1]
  /\ card' = [card EXCEPT !.busy = FALSE]
  /\ air' = FromCard(WTX)
  /\ UNCHANGED <<pc, pcdVars, executed, seen>>

\* Frames the card does not get: it is gone, or busy, or the frame is lost.
Missed ==
  /\ air.to = "card"
  /\ \/ (~card.here \/ card.busy) /\ UNCHANGED faults
     \/ MayLose /\ faults' = [faults EXCEPT !.lost = @ + 1]
  /\ air' = Silence
  /\ UNCHANGED <<pc, pcdVars, cardVars, seen>>

CardLeaves ==
  /\ pc # "off" /\ card.here
  /\ card' = [card EXCEPT !.here = FALSE]
  /\ air' = Silence
  /\ UNCHANGED <<pc, pcdVars, executed, faults, seen>>

-----------------------------------------------------------------------------
(* What the chip reports when the wait is over.                            *)

\* The timer runs for as long as the card may take.
Covers == ~TooShort(Fwi, IF long THEN Wtxm ELSE 1, Slack)

\* The answer, or nothing before the timer expires, or a damaged frame.  A
\* card that has been given more time may take it.  Without an answer the
\* code may look at what was in the buffer before.
Old == IF from = "rblock" /\ rec = Unknown THEN Junk ELSE {rec}

Reports ==
  CASE air.to = "pcd" ->
         {[ret |-> "ok", rec |-> air.block, heard |-> TRUE]} \cup
         IF ~MayLose THEN {} ELSE
           [ret : {"notag"}, rec : Old, heard : {FALSE}] \cup
           [ret : {"protocol", "other"}, rec : IF from = "rblock" THEN Junk ELSE {Unknown},
            heard : {FALSE}]
    [] \/ air.to = "nobody" /\ ~(card.here /\ card.busy /\ long /\ Covers)
       \/ air.to = "card" /\ card.here /\ ~Covers ->
         [ret : {"notag"}, rec : Old, heard : {FALSE}]
    [] OTHER -> {}

\* typeA_rblock_command returns 0, whatever the chip has reported.
Ret(o) == IF from = "rblock" THEN "ok" ELSE o.ret

\* An R-block that asks for the last block again.
OtherNumber(b) == b.kind = "ACK" /\ b.bn # bn

\* The wait is over with the report o.
Waited(o) ==
  /\ pc = "wait" /\ o \in Reports
  /\ seen' = [seen EXCEPT !.answers = @ \/ o.heard,
                          !.misread = @ \/ (Ret(o) = "ok" /\ ~o.heard),
                          !.resent  = @ \/ (Ret(o) = "ok" /\ OtherNumber(o.rec))]

\* What follows is another wait.
GoesOn(o) ==
  /\ Waited(o)
  /\ faults' = IF air.to = "pcd" /\ ~o.heard THEN [faults EXCEPT !.lost = @ + 1] ELSE faults
  /\ UNCHANGED cardVars

\* The flags as the wait leaves them: those of an S(WTX) response are set
\* when the wait for what follows it is over.
WtxNow == IF from = "wtx" THEN [request |-> TRUE, before |-> TRUE] ELSE wtx

NoResult == [status |-> "none", level |-> 0]
NoTries  == [timeout |-> 0, frame |-> 0, ack |-> 0, resend |-> 0]

-----------------------------------------------------------------------------
(* Sending.                                                                *)

\* typeA_set_timeout uses and clears WTX_REQUEST; then the frame goes out.
SendWith(b, w, wait) ==
  /\ long' = w.request
  /\ wtx' = [w EXCEPT !.request = FALSE]
  /\ air' = ToCard(b)
  /\ from' = wait
  /\ pc' = "wait"

\* typeA_data_send_error_check begins with the block p and the data d.
SendBlock(p, n, d, w) ==
  /\ pcb' = p
  /\ SendWith(IF p.kind = "I" THEN IBlock(p.more, n, d) ELSE RBlock("ACK", n), w, "block")

\* The next block of the command: PCD_CHAINING is set for all but the last
\* block of a message that ends the command.
Chained(a) == a.level = 1 \/ a.at < a.blocks

SendCommand(a, n, w) ==
  /\ asked' = a
  /\ pcdChain' = Chained(a) /\ piccChain' = FALSE
  /\ tries' = NoTries
  /\ SendBlock([kind |-> "I", more |-> Chained(a)], n, <<a.id, a.at>>, w)

\* The handler returns, and its local variables and buffers are gone.
Done(status, level) ==
  /\ result' = [status |-> status, level |-> level]
  /\ from' = "block" /\ tries' = NoTries /\ rec' = Unknown /\ long' = FALSE
  /\ air' = Silence /\ faults' = NoFaults

\* What becomes of *level: 1 (begins) or 3 (continues) for a response that is
\* cut, 0 or 2 at its end.
LevelAfter(cut) ==
  IF asked.level = 16 THEN IF cut THEN 3 ELSE 2
                      ELSE IF cut THEN 1 ELSE 0

\* After an error picc_command_exchange deselects the card, whose state is no
\* longer PICC_ACTIVATED.
Fail(status, w) ==
  /\ Done(status, LevelAfter(FALSE))
  /\ pc' = "off" /\ card' = Absent /\ executed' = <<>>
  /\ pcdChain' = FALSE /\ piccChain' = FALSE /\ got' = <<>>
  /\ wtx' = w
  /\ UNCHANGED <<asked, pcb, bn>>

-----------------------------------------------------------------------------
(* The handler.                                                            *)

\* A message with n blocks, the last of which may be less than whole (part).
\* ioctl passes the level 0, ccid_picc_xfr_block the one the host has given:
\* 0 and 2 end a command, 1 and 3 leave it open.  Of a message that leaves it
\* open what is less than a block is kept for the next one in a local
\* variable, that is, dropped.  recBuf is kmalloc'd.
SendsMessage(level, n, part) ==
  LET goesOn == level \in {2, 3} /\ card.rx # <<>>
      open   == level \in {1, 3}
      before == IF goesOn THEN asked.blocks ELSE 0
  IN
  /\ before + n <= MaxCmd /\ Len(card.rx) + n <= MaxCmd
  /\ SendCommand([id     |-> IF goesOn THEN asked.id ELSE 1 - asked.id,
                  level  |-> IF open THEN 1 ELSE 0,
                  at     |-> before + 1,
                  blocks |-> before + (IF open /\ part THEN n - 1 ELSE n),
                  from   |-> 0], bn, wtx)
  /\ executed' = <<>>
  /\ seen' = [seen EXCEPT !.answers = FALSE,
                          !.resent  = goesOn /\ @,
                          !.torn    = \/ open /\ part
                                      \/ IF goesOn THEN @ ELSE card.rx # <<>>]
  /\ result' = NoResult
  /\ UNCHANGED faults

\* The level 16: no command, but more of a response that was cut, from the
\* block behind the one at which it was; none if PICC_CHAINING is not set.
\* (After a block was misread nothing is said of what the card executes, and
\* the history starts anew.)
FetchesMore ==
  /\ asked' = [asked EXCEPT !.level = 16, !.from = card.tx]
  /\ seen' = [seen EXCEPT !.answers = FALSE]
  /\ \/ /\ piccChain
        /\ SendBlock([kind |-> "ACK", more |-> FALSE], bn, NoData, wtx)
        /\ tries' = NoTries /\ result' = NoResult
        /\ UNCHANGED faults
     \/ /\ ~piccChain
        /\ Done("ok", 2)
        /\ UNCHANGED <<pc, pcb, wtx>>
  /\ executed' = IF seen.misread THEN <<>> ELSE executed
  /\ UNCHANGED <<pcdChain, piccChain>>

typeA_standard_apdu_handler ==
  /\ pc = "idle"
  /\ \/ \E level \in 0..3, n \in 1..MaxCmd, part \in BOOLEAN : SendsMessage(level, n, part)
     \/ FetchesMore
  /\ rec' = Unknown /\ got' = <<>>
  /\ UNCHANGED <<bn, card>>

\* No answer, or a framing error: R(ACK) if the card is chaining, R(NAK) if
\* not, twice at most for each kind of trouble.
Trouble(r) == IF piccChain THEN "ack" ELSE IF r = "notag" THEN "timeout" ELSE "frame"

AfterTrouble(r) ==
  IF r = "notag" THEN [WtxNow EXCEPT !.before = FALSE]
                 ELSE [request |-> WtxNow.request \/ WtxNow.before, before |-> FALSE]

\* Two mutants: one retry too many; the block again instead of an R-block.
AskAgainThrice(o) ==
  /\ GoesOn(o) /\ rec' = o.rec /\ Ret(o) \in {"notag", "protocol"}
  /\ tries[Trouble(Ret(o))] < 3
  /\ tries' = [tries EXCEPT ![Trouble(Ret(o))] = @ + 1]
  /\ SendWith(RBlock(IF piccChain THEN "ACK" ELSE "NAK", bn), AfterTrouble(Ret(o)), "rblock")
  /\ UNCHANGED <<asked, pcb, bn, pcdChain, piccChain, got, result>>

AskAgainResends(o) ==
  /\ GoesOn(o) /\ rec' = o.rec /\ Ret(o) \in {"notag", "protocol"}
  /\ tries[Trouble(Ret(o))] < 2
  /\ tries' = [tries EXCEPT ![Trouble(Ret(o))] = @ + 1]
  /\ SendBlock(pcb, bn, <<asked.id, asked.at>>, AfterTrouble(Ret(o)))
  /\ UNCHANGED <<asked, bn, pcdChain, piccChain, got, result>>

AskAgain(o) ==
  /\ GoesOn(o) /\ rec' = o.rec /\ Ret(o) \in {"notag", "protocol"}
  /\ tries[Trouble(Ret(o))] < 2
  /\ tries' = [tries EXCEPT ![Trouble(Ret(o))] = @ + 1]
  /\ SendWith(RBlock(IF piccChain THEN "ACK" ELSE "NAK", bn), AfterTrouble(Ret(o)), "rblock")
  /\ UNCHANGED <<asked, pcb, bn, pcdChain, piccChain, got, result>>

GiveUp(o) ==
  /\ Waited(o)
  /\ \/ /\ Ret(o) \in {"notag", "protocol"} /\ tries[Trouble(Ret(o))] = 2
        /\ Fail(IF Ret(o) = "notag" THEN "mute" ELSE "retry_fail", AfterTrouble(Ret(o)))
     \/ /\ Ret(o) = "other"
        /\ Fail("mute", [WtxNow EXCEPT !.before = FALSE])

\* A block has been received, or is taken for one.
Received(o, k) == GoesOn(o) /\ Ret(o) = "ok" /\ o.rec.kind = k

WtxHeard == [WtxNow EXCEPT !.before = FALSE]

\* S(WTX) request: respond.  typeA_set_timeout comes before WTX_REQUEST.
GrantWtx(o) ==
  /\ Received(o, "WTX") /\ rec' = o.rec
  /\ SendWith(WTX, WtxHeard, "wtx")
  /\ UNCHANGED <<asked, pcb, bn, pcdChain, piccChain, tries, got, result>>

\* R-block with the other number: "re-transmit last I-block", whose data is
\* replaced by that of tempIBlockBuf.
RetransmitUncounted(o) ==
  /\ Received(o, "ACK") /\ rec' = o.rec /\ OtherNumber(o.rec) /\ tries.resend < 2
  /\ tries' = [tries EXCEPT !.timeout = 0]
  /\ SendBlock([kind |-> "I", more |-> pcb.more], bn, IF piccChain THEN NoData ELSE Stale, WtxHeard)
  /\ UNCHANGED <<asked, bn, pcdChain, piccChain, got, result>>

Retransmit(o) ==
  /\ Received(o, "ACK") /\ rec' = o.rec /\ OtherNumber(o.rec) /\ tries.resend < 2
  /\ tries' = [tries EXCEPT !.timeout = 0, !.resend = @ + 1]
  /\ SendBlock([kind |-> "I", more |-> pcb.more], bn, IF piccChain THEN NoData ELSE Stale, WtxHeard)
  /\ UNCHANGED <<asked, bn, pcdChain, piccChain, got, result>>

\* R(ACK) to a chained block.
Acknowledged(o) == Ret(o) = "ok" /\ o.rec.kind = "ACK" /\ o.rec.bn = bn /\ pcdChain

\* The next one.
ChainOn(o) ==
  /\ GoesOn(o) /\ Acknowledged(o) /\ asked.at < asked.blocks
  /\ rec' = o.rec
  /\ bn' = 1 - bn
  /\ SendCommand([asked EXCEPT !.at = @ + 1], 1 - bn, WtxHeard)
  /\ UNCHANGED <<got, result>>

\* The message is at its end, the command is not: *level is 16.
ChainStops(o) ==
  /\ Waited(o) /\ Acknowledged(o) /\ asked.at = asked.blocks
  /\ Done("ok", 16)
  /\ pc' = "idle" /\ wtx' = WtxHeard
  /\ bn' = 1 - bn
  /\ pcdChain' = FALSE /\ piccChain' = FALSE
  /\ UNCHANGED <<asked, pcb, got, cardVars>>

\* The message was less than a block: what is left of it wraps around, and
\* the loop sends what lies behind the message.
RunsOn(o) ==
  /\ Waited(o) /\ Acknowledged(o) /\ asked.at > asked.blocks
  /\ pc' = "oops"
  /\ UNCHANGED <<pcdVars, air, cardVars, faults>>

\* An I-block is expected with the number of the block it answers.
Expected(o) == o.rec.kind = "I" /\ o.rec.bn = bn /\ ~pcdChain

\* A wait that has brought nothing leaves a length of 0.
Empty(o) == ~o.heard /\ o.ret = "notag"

TooBigOrFull(data) == Len(data) >= Threshold
TooBig(data)       == Len(data) > Threshold

\* I-block: collect the data, and acknowledge it while the card is chaining,
\* with pRecAddr moved behind it.  A chain beyond APDURECLENTHREHOLD ends the
\* APDU with *level set.
Collect(o) ==
  LET data   == Append(got, o.rec.data)
      tooBig == TooBig(data)
  IN
  /\ Waited(o) /\ Ret(o) = "ok" /\ Expected(o) /\ ~Empty(o)
  /\ bn' = 1 - bn
  /\ piccChain' = o.rec.more
  /\ got' = IF tooBig THEN SubSeq(data, 1, Threshold) ELSE data
  /\ \/ /\ GoesOn(o) /\ o.rec.more /\ ~tooBig
        /\ SendBlock([kind |-> "ACK", more |-> FALSE], 1 - bn, NoData, WtxHeard)
        /\ tries' = NoTries /\ rec' = Unknown
        /\ UNCHANGED result
     \/ /\ ~o.rec.more \/ tooBig
        /\ Done("ok", LevelAfter(tooBig))
        /\ pc' = "idle" /\ wtx' = WtxHeard
        /\ UNCHANGED <<pcb, cardVars>>
  /\ UNCHANGED <<asked, pcdChain>>

\* The length of a left-over block less its prologue wraps around, and the
\* loop that shifts the data runs off the buffer.
Overrun(o) ==
  /\ Waited(o) /\ Ret(o) = "ok" /\ Expected(o) /\ Empty(o)
  /\ pc' = "oops"
  /\ UNCHANGED <<pcdVars, air, cardVars, faults>>

Refuse(o) ==
  /\ Waited(o) /\ Ret(o) = "ok"
  /\ \/ /\ \/ o.rec.kind = "bad"
           \/ o.rec.kind = "ACK" /\ o.rec.bn = bn /\ ~pcdChain
           \/ o.rec.kind = "I" /\ ~Expected(o)
        /\ Fail("invalid", WtxHeard)
     \/ /\ OtherNumber(o.rec) /\ tries.resend = 2
        /\ Fail("resend_fail", WtxHeard)

-----------------------------------------------------------------------------
(* Between the APDUs.                                                      *)

\* typeA_select_: R(NAK) asks whether the card is still there; it clears
\* WTX_REQUEST, and a card that has gone is no longer active.
typeA_select_ ==
  /\ pc = "idle"
  /\ wtx' = [wtx EXCEPT !.request = FALSE]
  /\ pc' = IF card.here /\ ~card.busy THEN "idle" ELSE "off"
  /\ UNCHANGED <<asked, pcb, bn, pcdChain, piccChain, long, from, tries, rec, got, result, air,
                 cardVars, faults, seen>>

\* A mutant that keeps the block number.
ActivateKeepsNumber ==
  /\ pc = "off"
  /\ pc' = "idle"
  /\ card' = Fresh /\ air' = Silence
  /\ result' = NoResult /\ executed' = <<>> /\ seen' = NothingSeen
  /\ UNCHANGED <<asked, pcb, bn, pcdChain, piccChain, wtx, long, from, tries, rec, got, faults>>

\* typeA_request_ats activates a card: "reset block number".
typeA_request_ats ==
  /\ pc = "off"
  /\ pc' = "idle"
  /\ bn' = 0
  /\ card' = Fresh /\ air' = Silence
  /\ result' = NoResult /\ executed' = <<>> /\ seen' = NothingSeen
  /\ UNCHANGED <<asked, pcb, pcdChain, piccChain, wtx, long, from, tries, rec, got, faults>>

-----------------------------------------------------------------------------
Init ==
  /\ pc = "off"
  /\ asked = [id |-> 0, level |-> 0, at |-> 1, blocks |-> 1, from |-> 0]
  /\ pcb = [kind |-> "I", more |-> FALSE]
  /\ bn = 0 /\ pcdChain = FALSE /\ piccChain = FALSE
  /\ wtx = [request |-> FALSE, before |-> FALSE] /\ long = FALSE
  /\ from = "block" /\ tries = NoTries
  /\ rec = Unknown /\ got = <<>> /\ result = NoResult
  /\ air = Silence /\ card = Absent /\ executed = <<>>
  /\ faults = NoFaults
  /\ seen = NothingSeen

Card == CardCommand \/ CardContinues \/ CardRepeats \/ CardAcknowledges \/ CardExtended
          \/ CardReady \/ CardAsksAgain \/ Missed

Process ==
  \E o \in Reports :
    \/ AskAgain(o) \/ GiveUp(o) \/ GrantWtx(o)
    \/ Retransmit(o) \/ ChainOn(o) \/ ChainStops(o) \/ RunsOn(o)
    \/ Collect(o) \/ Overrun(o) \/ Refuse(o)

Next ==
  \/ typeA_standard_apdu_handler \/ Process
  \/ typeA_select_ \/ typeA_request_ats
  \/ Card \/ CardLeaves

Spec == Init /\ [][Next]_vars

\* The timer of the chip ends every wait, and a card that is heard answers or
\* asks for time, which it uses up at most.
Fairness == WF_vars(Process) /\ WF_vars(Card)
FairSpec == Spec /\ Fairness

-----------------------------------------------------------------------------
Statuses == {"ok", "mute", "retry_fail", "resend_fail", "invalid"}

\* The type invariant; the counters of the handler stay within their limits.
TypeOK ==
  /\ pc \in {"off", "idle", "wait", "oops"}
  /\ asked \in [id : Bit, level : {0, 1, 16}, at : 1..MaxCmd, blocks : 0..MaxCmd,
                from : 0..MaxRsp]
  /\ pcb \in [kind : {"I", "ACK"}, more : BOOLEAN]
  /\ bn \in Bit /\ pcdChain \in BOOLEAN /\ piccChain \in BOOLEAN
  /\ wtx \in [request : BOOLEAN, before : BOOLEAN] /\ long \in BOOLEAN
  /\ from \in {"block", "rblock", "wtx"}
  /\ tries \in [timeout : 0..2, frame : 0..2, ack : 0..2, resend : 0..2]
  /\ rec \in Blocks /\ got \in Seq(Chunks) /\ Len(got) <= Threshold + 1
  /\ result \in [status : Statuses \cup {"none"}, level : 0..3 \cup {16}]
  /\ air \in [to : {"nobody", "card", "pcd"}, block : Blocks]
  /\ card \in [here : BOOLEAN, bn : Bit, rx : Seq(Chunks), len : 0..MaxRsp, tx : 0..MaxRsp,
               last : Blocks, held : Blocks, busy : BOOLEAN]
  /\ executed \in Seq(Seq(Chunks))
  /\ faults \in [lost : 0..MaxFaults, wtx : 0..MaxWtx]
  /\ seen \in [answers : BOOLEAN, misread : BOOLEAN, resent : BOOLEAN, torn : BOOLEAN]

\* Between two APDUs the block numbers of reader and card differ, as the rules
\* for the next I-block need, whatever got lost meanwhile: else the card would
\* take the next command for a repetition.
NumbersInStep ==
  pc = "idle" /\ card.here /\ ~seen.misread => bn # card.bn

\* However often blocks are asked for and sent again, the card executes the
\* command of one APDU at most once.
AtMostOnce == ~seen.misread => Len(executed) <= 1

Command  == [i \in 1..asked.blocks |-> Chunk(i)]

\* A message that has succeeded has done what it was to: the card has got the
\* blocks of a command left open, and has executed one that was ended as it
\* was asked; what the host has is the response of the card, or goes on in
\* it, every block once and in order, to its end or to the threshold as the
\* level says.  The block at which a response was cut is lost to the host; and
\* nothing is said of a command of which the handler has dropped the end of a
\* message, or which the host has begun before it has ended another.
OkMeansDone ==
  pc = "idle" /\ result.status = "ok" /\ ~seen.misread /\ ~seen.resent /\ ~seen.torn =>
    /\ executed \in CASE asked.level = 0  -> {<<Command>>}
                      [] asked.level = 1  -> {<<>>}
                      [] asked.level = 16 -> {<<>>, <<Command>>}
    /\ asked.level = 1 => card.rx = Command /\ got = <<>>
    /\ got = [i \in 1..Len(got) |-> Chunk(asked.from + i)]
    /\ executed # <<>> =>
         IF result.level \in {0, 2}
         THEN asked.from + Len(got) = card.len
         ELSE Len(got) = Threshold /\ asked.from + Len(got) < card.len

\* An APDU fails only if a frame of it was lost or damaged, something was
\* misread since the card was activated, or the card is gone or has asked for
\* more time three times: the retries make up for the first two extensions,
\* which come one wait too late (iso14444.c:736), and no other wait is shorter
\* than the card may take.
FailsForCause ==
  [][pc = "wait" /\ pc' = "off" =>
       \/ faults.lost > 0
       \/ air.to = "pcd" /\ result'.status \in {"mute", "retry_fail"}
       \/ seen'.misread
       \/ ~card.here
       \/ faults.wtx > 2]_vars

\* No APDU waits for ever: retries, retransmissions and extensions come to an
\* end.
ApduReturns == pc = "wait" ~> pc # "wait"

\* "re-transmit last I-block" (iso14444.c:788): what the card executes is what
\* it was asked to execute.
CommandIntact == ~seen.misread /\ ~seen.torn => \A i \in DOMAIN executed : executed[i] = Command

\* "CCID timed out while talking to the ICC" (ccid.h:11) is what an APDU ends
\* with to which the card has answered nothing.
SilentIsMute ==
  pc \in {"idle", "off"} /\ asked.level # 16 /\ ~seen.answers =>
    result.status \in {"none", "mute"}

\* "the time FWTtemp starts after the PCD has sent the S(WTX) response"
\* (iso14444.c:741): the wait for what follows is the extended one.
WtxGranted == pc = "wait" /\ from = "wtx" => long
=============================================================================
