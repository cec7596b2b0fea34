--------------------------- MODULE TclBlockProofs -------------------
(***************************************************************************)
(* Theorems about TclBlock, for commands and responses of any length, any  *)
(* threshold, any number of lost or damaged frames and of waiting time     *)
(* extensions.                                                             *)
(***************************************************************************)
EXTENDS TclBlock, WaitingTimeProofs, SequenceTheorems, TLAPS

-----------------------------------------------------------------------------
(* The inductive invariant.                                                *)

\* The n chunks behind the first ones of what goes with the number id.
Piece(id, from_, n) == [i \in 1..n |-> <<id, from_ + i>>]
First(id, n)        == Piece(id, 0, n)

\* PCD_CHAINING says whether there is more of the command to come.
ChainingOK == pcdChain <=> pc \in {"wait", "oops"} /\ ~piccChain /\ Chained(asked)

\* What the card holds is the command so far: nothing is missing, nothing was
\* replaced.
Clean == ~seen.resent /\ ~seen.torn

\* The reader is sending the command, or it is collecting the response.
ReaderOK ==
  /\ piccChain <=> pcb.kind = "ACK"
  /\ piccChain => ~pcdChain /\ asked.level # 1
  /\ ~piccChain => /\ pcb.more = pcdChain /\ got = <<>>
                   /\ asked.level # 16 /\ asked.from = 0
                   /\ asked.at <= asked.blocks \/ seen.torn

\* The card has the number of the block that the reader is waiting to have
\* answered: it has got that block.
Reached == card.bn = bn

\* The answer to that block, sent or held back until the card has more time.
Answer == IF card.held = Bad THEN card.last ELSE card.held

\* A frame is one of those the two sides can be sending to each other.
AirOK ==
  /\ air.to = "card" =>
       \/ /\ air.block = IBlock(pcdChain, bn, air.block.data)
          /\ ~piccChain /\ ~Reached
          /\ ~seen.resent => air.block.data = <<asked.id, asked.at>>
       \/ air.block = RBlock(IF piccChain THEN "ACK" ELSE "NAK", bn)
       \/ air.block = WTX /\ Reached
  /\ air.to = "pcd" =>
       \/ Reached /\ air.block = card.last
       \/ ~Reached /\ ~piccChain /\ air.block = RBlock("ACK", card.bn)

\* The card's side of the exchange, before and after it has got the block.
CardOK ==
  /\ card.tx <= card.len
  /\ card.held = Bad => ~card.busy /\ card.last # WTX
  /\ card.held # Bad => card.last = WTX
  /\ ~Reached =>
       /\ card.held = Bad
       /\ piccChain =>
            /\ card.tx \in asked.from..card.len
            /\ got = Piece(asked.id, asked.from, card.tx - asked.from)
  /\ Reached =>
       IF pcdChain THEN Answer = RBlock("ACK", bn)
       ELSE /\ Answer = IBlock(card.tx < card.len, bn, <<asked.id, card.tx>>)
            /\ card.tx \in asked.from + 1..card.len
            /\ got = Piece(asked.id, asked.from, card.tx - 1 - asked.from)

\* What the card has been told so far, and what it has executed.  (The reader
\* may wait for the rest of a response that this card has never begun.)
TextOK ==
  IF piccChain \/ (Reached /\ ~pcdChain)
  THEN /\ card.rx = <<>>
       /\ executed = <<>> => ~Reached /\ card.len = 0 /\ asked.level = 16
       /\ executed # <<>> /\ Clean => executed = <<First(asked.id, asked.blocks)>>
  ELSE /\ executed = <<>>
       /\ Clean => card.rx = First(asked.id, IF Reached THEN asked.at ELSE asked.at - 1)

\* Between the messages the card waits for a block with the reader's number.
IdleOK ==
  ~Reached /\ ~card.busy /\ card.held = Bad /\ card.last # WTX

\* What it holds then: the blocks of a command left open, or a response, of
\* which PICC_CHAINING tells whether there is more.
RestOK ==
  /\ card.tx <= card.len
  /\ card.rx # <<>> => /\ executed = <<>> /\ ~piccChain
                       /\ Clean => card.rx = First(asked.id, asked.blocks)
  /\ executed = <<>> /\ piccChain => card.len = 0
  /\ executed # <<>> => /\ piccChain <=> card.tx < card.len
                        /\ Clean => executed = <<First(asked.id, asked.blocks)>>

\* As long as nothing was taken for a block that the card has not sent.
ExchangeOK ==
  ~seen.misread =>
    /\ Len(executed) <= 1
    /\ pc \in {"off", "idle"} => air = Silence
    /\ pc = "oops" => seen.torn /\ air.to # "card" /\ (card.here => ~card.busy)
    /\ pc = "off" => ~card.here
    /\ pc = "idle" => RestOK
    /\ pc = "idle" /\ card.here => IdleOK
    /\ pc = "wait" => ReaderOK
    /\ pc = "wait" /\ card.here => AirOK /\ CardOK /\ TextOK
    /\ ~card.here => air.to # "pcd"

IInv == TypeOK /\ ChainingOK /\ ExchangeOK /\ OkMeansDone

-----------------------------------------------------------------------------
(* While no frame of the APDU has been lost.                               *)

\* An extension for which the reader has not asked again yet: a wait that is
\* too short will count for it.
Due == IF card.held # Bad /\ ~(from = "rblock" /\ card.busy) THEN 1 ELSE 0

\* The card has not got the block only while that is under way; or it is asked
\* for the rest of a response that it has not begun, and is silent.
Unreached ==
  \/ from = "block" /\ tries = NoTries /\ (piccChain \/ (air.to = "card" /\ air.block.kind = "I"))
  \/ from = "rblock" /\ piccChain /\ card.tx >= card.len

\* Nothing is counted but the waits that were too short for an extension.
QuietOK ==
  /\ tries.frame = 0 /\ tries.resend = 0
  /\ air.to = "pcd" => Reached /\ ~card.busy
  /\ air.to = "nobody" => \/ card.busy
                          \/ ~Reached /\ piccChain /\ card.tx >= card.len
  /\ air.to = "card" /\ air.block = WTX => card.held # Bad /\ from = "wtx"
  /\ ~Reached => Unreached
  /\ Reached => tries.timeout + Due <= faults.wtx /\ tries.ack + Due <= faults.wtx

Quiet == pc = "wait" /\ ~seen.misread /\ card.here /\ faults.lost = 0 => QuietOK

-----------------------------------------------------------------------------
(* Types.                                                                  *)

Cards     == [here : BOOLEAN, bn : Bit, rx : Seq(Chunks), len : 0..MaxRsp, tx : 0..MaxRsp,
              last : Blocks, held : Blocks, busy : BOOLEAN]
Times     == [request : BOOLEAN, before : BOOLEAN]
Frames    == [to : {"nobody", "card", "pcd"}, block : Blocks]
Counts    == [timeout : 0..2, frame : 0..2, ack : 0..2, resend : 0..2]
Faults    == [lost : 0..MaxFaults, wtx : 0..MaxWtx]
Levels    == 0..3 \cup {16}
Results   == [status : Statuses \cup {"none"}, level : Levels]
Histories == [answers : BOOLEAN, misread : BOOLEAN, resent : BOOLEAN, torn : BOOLEAN]
Messages  == [id : Bit, level : {0, 1, 16}, at : 1..MaxCmd, blocks : 0..MaxCmd, from : 0..MaxRsp]

\* The type invariant with these names.
TypesOK ==
  /\ pc \in {"off", "idle", "wait", "oops"}
  /\ asked \in Messages
  /\ pcb \in [kind : {"I", "ACK"}, more : BOOLEAN]
  /\ bn \in Bit /\ pcdChain \in BOOLEAN /\ piccChain \in BOOLEAN
  /\ wtx \in Times /\ long \in BOOLEAN
  /\ from \in {"block", "rblock", "wtx"} /\ tries \in Counts
  /\ rec \in Blocks /\ got \in Seq(Chunks) /\ Len(got) <= Threshold + 1
  /\ result \in Results /\ air \in Frames /\ card \in Cards
  /\ executed \in Seq(Seq(Chunks)) /\ faults \in Faults /\ seen \in Histories

\* The two forms of the type invariant are one.
LEMMA SameTypes == TypeOK <=> TypesOK
BY DEF TypeOK, TypesOK, Cards, Times, Frames, Counts, Faults, Levels, Results, Histories, Messages

\* Every block that the code or the card makes is a block.
LEMMA BlockTypes ==
  /\ \A m \in BOOLEAN, n \in Bit, d \in Chunks : IBlock(m, n, d) \in Blocks
  /\ \A k \in {"ACK", "NAK"}, n \in Bit : RBlock(k, n) \in Blocks
  /\ WTX \in Blocks /\ Bad \in Blocks /\ Unknown \in Blocks
  /\ NoData \in Chunks /\ Stale \in Chunks /\ Junk \subseteq Blocks
<1>1. NoData \in Chunks /\ Stale \in Chunks
  BY DEF NoData, Stale, Chunks, Bit
<1>2. \A m \in BOOLEAN, n \in Bit, d \in Chunks : IBlock(m, n, d) \in Blocks
  BY DEF IBlock, Block, Blocks
<1>3. \A k \in {"ACK", "NAK"}, n \in Bit : RBlock(k, n) \in Blocks
  BY <1>1 DEF RBlock, Block, Blocks
<1>4. WTX \in Blocks /\ Bad \in Blocks /\ Unknown \in Blocks
  BY <1>1 DEF WTX, Bad, Unknown, Block, Blocks, Bit
<1>5. Junk \subseteq Blocks
  BY <1>1, <1>2, <1>3, <1>4 DEF Junk
<1> QED  BY <1>1, <1>2, <1>3, <1>4, <1>5

\* The timer covers what a card may take, whether it was stretched or not.
LEMMA TimerCovers ==
  ASSUME TypesOK
  PROVE  Covers
<1>1. Fwi \in FWIs /\ Wtxm \in WTXMs /\ Slack \in Slacks /\ ~Wraps(Fwi, Wtxm, Slack)
  BY TimesAssumption
<1>2. ~TooShort(Fwi, 1, Slack)
  BY <1>1, OrdinaryWait DEF CoversFWT
<1>3. ~TooShort(Fwi, Wtxm, Slack)
  BY <1>1, ExtendedWait DEF CoversExtension
<1> QED  BY <1>2, <1>3 DEF Covers

\* What the chip may report: it has heard the frame for the reader, or it
\* reports trouble, of which there is still some left if there was a frame.
LEMMA ReportTypes ==
  ASSUME TypesOK, NEW o \in Reports
  PROVE  /\ o.ret \in {"ok", "notag", "protocol", "other"} /\ o.rec \in Blocks
         /\ o.heard \in BOOLEAN /\ (o.ret \in {"protocol", "other"} => air.to = "pcd")
         /\ o.heard => air.to = "pcd" /\ o.rec = air.block /\ o.ret = "ok"
         /\ ~o.heard => o.ret # "ok"
         /\ air.to = "pcd" /\ ~o.heard => faults.lost < MaxFaults
         /\ air.to # "card"
<1>1. Old \subseteq Blocks
  BY BlockTypes DEF Old, TypesOK
<1>0. MayLose => faults.lost < MaxFaults
  BY DEF MayLose
<1>2. CASE air.to = "pcd"
  <2> DEFINE R == IF from = "rblock" THEN Junk ELSE {Unknown}
             A == [ret : {"notag"}, rec : Old, heard : {FALSE}]
             B == [ret : {"protocol", "other"}, rec : R, heard : {FALSE}]
  <2>1. R \subseteq Blocks
    BY BlockTypes
  <2>2. /\ o \in A => o.ret = "notag" /\ o.rec \in Old /\ o.heard = FALSE
        /\ o \in B => o.ret \in {"protocol", "other"} /\ o.rec \in R /\ o.heard = FALSE
    OBVIOUS
  <2>3. o \in {[ret |-> "ok", rec |-> air.block, heard |-> TRUE]}
               \cup (IF ~MayLose THEN {} ELSE A \cup B)
    BY <1>2 DEF Reports
  <2> HIDE DEF A, B, R
  <2>4. CASE o = [ret |-> "ok", rec |-> air.block, heard |-> TRUE]
    BY <1>2, <2>4 DEF TypesOK, Frames
  <2>5. CASE MayLose /\ o \in A \cup B
    BY <1>0, <1>1, <1>2, <2>1, <2>2, <2>5
  <2> QED  BY <2>3, <2>4, <2>5
<1>3. CASE air.to # "pcd"
  <2>1. air.to = "nobody" /\ o \in [ret : {"notag"}, rec : Old, heard : {FALSE}]
    BY <1>3, TimerCovers DEF Reports
  <2> QED  BY <1>1, <1>3, <2>1
<1> QED  BY <1>2, <1>3

\* What the end of a wait adds to the history.
LEMMA WaitedTypes ==
  ASSUME TypesOK, NEW o \in Reports, Waited(o)
  PROVE  /\ seen' \in Histories
         /\ seen'.misread = (seen.misread \/ (Ret(o) = "ok" /\ ~o.heard))
         /\ seen'.resent = (seen.resent \/ (Ret(o) = "ok" /\ OtherNumber(o.rec)))
         /\ seen'.torn = seen.torn
BY ReportTypes DEF TypesOK, Histories, Waited, Ret, OtherNumber

\* A wait that goes on leaves the card alone, and the count of lost frames
\* within its bound.
LEMMA GoesOnTypes ==
  ASSUME TypesOK, NEW o \in Reports, GoesOn(o)
  PROVE  /\ faults' \in Faults
         /\ card' = card /\ executed' = executed
<1>1. CASE air.to = "pcd" /\ ~o.heard
  <2>1. faults \in Faults /\ faults.lost < MaxFaults
    BY <1>1, ReportTypes DEF TypesOK
  <2>2. faults' = [faults EXCEPT !.lost = @ + 1] /\ card' = card /\ executed' = executed
    BY <1>1 DEF GoesOn, cardVars
  <2>3. faults.lost + 1 \in 0..MaxFaults
    BY <2>1, FaultsAssumption DEF Faults
  <2> QED  BY <2>1, <2>2, <2>3 DEF Faults
<1>2. CASE ~(air.to = "pcd" /\ ~o.heard)
  BY <1>2 DEF TypesOK, GoesOn, cardVars
<1> QED  BY <1>1, <1>2

\* A card just activated, and the one that is not there, are cards.
LEMMA FreshTypes ==
  /\ Fresh \in Cards
  /\ Absent \in Cards
  /\ Absent.here = FALSE
<1>1. Bad \in Blocks /\ 0 \in 0..MaxRsp /\ <<>> \in Seq(Chunks) /\ 1 \in Bit
  BY BlockTypes, SizesAssumption, EmptySeq DEF Bit
<1>2. Fresh \in Cards
  BY <1>1 DEF Fresh, Cards
<1> QED  BY <1>2 DEF Absent, Cards

\* What SendWith leaves behind.
LEMMA SendTypes ==
  ASSUME NEW b \in Blocks, NEW w \in Times,
         NEW wait \in {"block", "rblock", "wtx"}, SendWith(b, w, wait)
  PROVE  /\ long' \in BOOLEAN /\ wtx' \in Times
         /\ air' = [to |-> "card", block |-> b] /\ air' \in Frames
         /\ from' = wait /\ pc' = "wait"
BY DEF SendWith, ToCard, Times, Frames

\* What typeA_data_send_error_check leaves behind when it begins.
LEMMA SendBlockTypes ==
  ASSUME NEW p \in [kind : {"I", "ACK"}, more : BOOLEAN], NEW n \in Bit, NEW d \in Chunks,
         NEW w \in Times, SendBlock(p, n, d, w)
  PROVE  /\ pcb' = p
         /\ long' \in BOOLEAN /\ wtx' \in Times
         /\ air' = [to |-> "card",
                   block |-> IF p.kind = "I" THEN IBlock(p.more, n, d) ELSE RBlock("ACK", n)]
         /\ air' \in Frames
         /\ from' = "block" /\ pc' = "wait"
<1>1. (IF p.kind = "I" THEN IBlock(p.more, n, d) ELSE RBlock("ACK", n)) \in Blocks
  BY BlockTypes
<1> QED  BY <1>1, SendTypes DEF SendBlock

\* The flags WTX_REQUEST and WTX_REQ_BEFORE as the handler computes them.
LEMMA WtxTypes ==
  ASSUME TypesOK
  PROVE  /\ WtxNow \in Times
         /\ WtxHeard \in Times
         /\ \A r : AfterTrouble(r) \in Times
BY DEF TypesOK, Times, WtxNow, WtxHeard, AfterTrouble

\* What the return of the handler leaves behind.
LEMMA DoneTypes ==
  ASSUME TypesOK, NEW status \in Statuses, NEW level \in Levels, Done(status, level)
  PROVE  /\ result' = [status |-> status, level |-> level]
         /\ result' \in Results
         /\ from' \in {"block", "rblock", "wtx"}
         /\ tries' \in Counts
         /\ rec' \in Blocks /\ long' \in BOOLEAN
         /\ air' = Silence /\ air' \in Frames
         /\ faults' \in Faults
<1>1. Unknown \in Blocks /\ Silence \in Frames
  BY BlockTypes DEF Silence, Frames
<1>2. NoFaults \in Faults
  BY FaultsAssumption DEF NoFaults, Faults
<1>3. NoTries \in Counts
  BY DEF NoTries, Counts
<1> QED  BY <1>1, <1>2, <1>3 DEF Done, Results

\* The return with an error keeps the types.
LEMMA FailTypes ==
  ASSUME TypesOK, NEW status \in Statuses, NEW w \in Times,
         Fail(status, w), seen' \in Histories
  PROVE  TypesOK' /\ ChainingOK'
<1>1. card' \in Cards
  BY FreshTypes DEF Fail
<1>2. /\ got' = <<>> /\ executed' = <<>> /\ Len(<<>>) = 0
      /\ <<>> \in Seq(Chunks) /\ <<>> \in Seq(Seq(Chunks))
  BY EmptySeq DEF Fail
<1>3. /\ pc' = "off" /\ pcdChain' = FALSE /\ piccChain' = FALSE /\ wtx' = w
      /\ UNCHANGED <<asked, pcb, bn>>
  BY DEF Fail
<1>4. Done(status, LevelAfter(FALSE)) /\ LevelAfter(FALSE) \in Levels
  BY DEF Fail, LevelAfter, Levels
<1>5. /\ result' \in Results
      /\ from' \in {"block", "rblock", "wtx"}
      /\ tries' \in Counts
      /\ rec' \in Blocks /\ long' \in BOOLEAN
      /\ air' \in Frames
      /\ faults' \in Faults
  BY <1>4, DoneTypes
<1>6. TypesOK'
  <2>1. got' \in Seq(Chunks) /\ Len(got') <= Threshold + 1 /\ executed' \in Seq(Seq(Chunks))
    BY <1>2, SizesAssumption
  <2>2. UNCHANGED <<asked, pcb, bn>>
    BY <1>3
  <2> QED  BY <1>1, <1>3, <1>5, <2>1, <2>2 DEF TypesOK
<1> QED  BY <1>3, <1>6 DEF ChainingOK

\* A card that answers, or asks for time, stays a card.
LEMMA AnswersTypes ==
  ASSUME TypesOK, NEW c \in Cards, NEW b \in Blocks, Answers(c, b)
  PROVE  card' \in Cards /\ air' \in Frames /\ faults' \in Faults
<1>1. CASE MayAsk /\ faults' = [faults EXCEPT !.wtx = @ + 1]
             /\ card' = [c EXCEPT !.last = WTX, !.held = b] /\ air' = FromCard(WTX)
  <2>0. faults.wtx < MaxWtx /\ faults \in Faults
    BY <1>1 DEF MayAsk, TypesOK
  <2>1. faults' \in Faults
    BY <1>1, <2>0, FaultsAssumption DEF Faults
  <2>2. card' \in Cards /\ air' \in Frames
    BY <1>1, BlockTypes DEF Cards, Frames, FromCard
  <2> QED  BY <2>1, <2>2
<1>2. CASE card' = [c EXCEPT !.last = b] /\ air' = FromCard(b) /\ UNCHANGED faults
  BY <1>2 DEF TypesOK, Cards, Frames, FromCard
<1> QED  BY <1>1, <1>2 DEF Answers

\* No frame is a frame.
LEMMA SilenceType == Silence \in Frames
BY BlockTypes DEF Silence, Frames

\* The card's steps keep the types, and leave the reader alone.
LEMMA CardTypes ==
  ASSUME TypesOK, Card \/ CardLeaves
  PROVE  card' \in Cards /\ air' \in Frames /\ faults' \in Faults /\ executed' \in Seq(Seq(Chunks))
           /\ UNCHANGED <<pc, pcdVars, seen>>
<1> USE SizesAssumption
<1>1. CASE CardCommand
  <2> DEFINE n == 1 - card.bn
             rx == IF air.block.data = NoData THEN card.rx ELSE Append(card.rx, air.block.data)
  <2>1. n \in Bit /\ rx \in Seq(Chunks)
    <3>1. card.bn \in Bit /\ card.rx \in Seq(Chunks) /\ air.block.data \in Chunks
      BY DEF TypesOK, Cards, Frames, Blocks
    <3>2. Append(card.rx, air.block.data) \in Seq(Chunks)
      BY <3>1, AppendProperties
    <3> QED  BY <3>1, <3>2 DEF Bit
  <2> HIDE DEF n, rx
  <2>2. CASE Answers([card EXCEPT !.bn = n, !.rx = rx], RBlock("ACK", n)) /\ UNCHANGED executed
    <3>1. [card EXCEPT !.bn = n, !.rx = rx] \in Cards
      BY <2>1 DEF TypesOK, Cards
    <3>2. RBlock("ACK", n) \in Blocks
      BY <2>1, BlockTypes
    <3> QED  BY <1>1, <2>2, <3>1, <3>2, AnswersTypes DEF TypesOK, CardCommand
  <2>3. ASSUME NEW l \in 1..MaxRsp, executed' = Append(executed, rx),
               Answers([card EXCEPT !.bn = n, !.rx = <<>>, !.len = l, !.tx = 1],
                       IBlock(l > 1, n, Chunk(1)))
        PROVE  /\ card' \in Cards /\ air' \in Frames /\ faults' \in Faults
               /\ executed' \in Seq(Seq(Chunks))
    <3>1. [card EXCEPT !.bn = n, !.rx = <<>>, !.len = l, !.tx = 1] \in Cards
      <4>1. l \in 0..MaxRsp /\ 1 \in 0..MaxRsp
        OBVIOUS
      <4> QED  BY <2>1, <4>1, EmptySeq DEF TypesOK, Cards
    <3>2. IBlock(l > 1, n, Chunk(1)) \in Blocks
      <4>1. Chunk(1) \in Chunks
        BY DEF Chunk, Chunks, TypesOK, Messages
      <4>2. (l > 1) \in BOOLEAN
        OBVIOUS
      <4> QED  BY <2>1, <4>1, <4>2, BlockTypes
    <3>3. executed' \in Seq(Seq(Chunks))
      BY <2>1, <2>3, AppendProperties DEF TypesOK
    <3> QED  BY <2>3, <3>1, <3>2, <3>3, AnswersTypes
  <2> QED  BY <1>1, <2>2, <2>3 DEF CardCommand, n, rx
<1>2. CASE CardContinues
  <2>1. CASE card.tx < card.len
    <3>1. [card EXCEPT !.bn = 1 - @, !.tx = @ + 1] \in Cards
      <4>1. card \in Cards /\ 1 - card.bn \in Bit /\ card.tx + 1 \in 0..MaxRsp
        BY <2>1 DEF TypesOK, Cards, Bit
      <4> QED  BY <4>1 DEF Cards
    <3>2. IBlock(card.tx + 1 < card.len, 1 - card.bn, Chunk(card.tx + 1)) \in Blocks
      <4>1. Chunk(card.tx + 1) \in Chunks /\ 1 - card.bn \in Bit
        BY DEF Chunk, Chunks, TypesOK, Messages, Cards, Bit
      <4>2. (card.tx + 1 < card.len) \in BOOLEAN
        OBVIOUS
      <4> QED  BY <4>1, <4>2, BlockTypes
    <3>3. Answers([card EXCEPT !.bn = 1 - @, !.tx = @ + 1],
                  IBlock(card.tx + 1 < card.len, 1 - card.bn, Chunk(card.tx + 1)))
      BY <1>2, <2>1 DEF CardContinues, TypesOK, Cards
    <3> QED  BY <1>2, <3>1, <3>2, <3>3, AnswersTypes DEF CardContinues, TypesOK
  <2>2. CASE ~(card.tx < card.len)
    BY <1>2, <2>2, SilenceType DEF CardContinues, TypesOK
  <2> QED  BY <2>1, <2>2
<1>3. CASE CardRepeats \/ CardAcknowledges
  <2>1. air' \in Frames
    BY <1>3, SilenceType, BlockTypes
       DEF CardRepeats, CardAcknowledges, FromCard, Frames, TypesOK, Cards
  <2> QED  BY <1>3, <2>1 DEF CardRepeats, CardAcknowledges, TypesOK, cardVars
<1>4. CASE CardExtended
  BY <1>4, SilenceType DEF CardExtended, TypesOK, Cards
<1>5. CASE CardReady
  BY <1>5, BlockTypes DEF CardReady, TypesOK, Cards, FromCard, Frames
<1>6. CASE Missed
  BY <1>6, SilenceType, FaultsAssumption DEF Missed, MayLose, TypesOK, cardVars, Faults
<1>8. CASE CardAsksAgain
  <2>1. faults' \in Faults
    BY <1>8, FaultsAssumption DEF CardAsksAgain, MayAsk, TypesOK, Faults
  <2>2. card' \in Cards /\ air' \in Frames /\ executed' = executed
    BY <1>8, BlockTypes DEF CardAsksAgain, TypesOK, Cards, FromCard, Frames
  <2> QED  BY <1>8, <2>1, <2>2 DEF CardAsksAgain, TypesOK
<1>7. CASE CardLeaves
  BY <1>7, SilenceType DEF CardLeaves, TypesOK, Cards
<1> QED  BY <1>1, <1>2, <1>3, <1>4, <1>5, <1>6, <1>7, <1>8 DEF Card

\* Hence they keep the type invariant.
LEMMA TypesCard ==
  ASSUME TypesOK, ChainingOK, Card \/ CardLeaves
  PROVE  TypesOK' /\ ChainingOK'
BY CardTypes DEF TypesOK, ChainingOK, pcdVars

\* Sending a block of the command keeps the types, and sets PCD_CHAINING.
LEMMA SendCommandTypes ==
  ASSUME TypesOK, NEW a \in Messages,
         NEW n \in Bit, NEW w \in Times, SendCommand(a, n, w), rec' \in Blocks,
         got' \in Seq(Chunks), Len(got') <= Threshold + 1, bn' \in Bit, result' \in Results,
         card' \in Cards, executed' \in Seq(Seq(Chunks)), faults' \in Faults, seen' \in Histories
  PROVE  TypesOK' /\ ChainingOK'
<1> USE SizesAssumption
<1>1. <<a.id, a.at>> \in Chunks
  BY DEF Chunks, Bit, Messages
<1>2. [kind |-> "I", more |-> Chained(a)] \in [kind : {"I", "ACK"}, more : BOOLEAN]
  BY DEF Chained
<1>3. /\ pcb' = [kind |-> "I", more |-> Chained(a)] /\ pc' = "wait" /\ from' = "block"
      /\ long' \in BOOLEAN /\ wtx' \in Times /\ air' \in Frames
  BY <1>1, <1>2, SendBlockTypes DEF SendCommand
<1>4. tries' \in Counts
  BY DEF SendCommand, NoTries, Counts
<1>5. asked' = a /\ pcdChain' = Chained(a) /\ piccChain' = FALSE /\ Chained(a) \in BOOLEAN
  BY DEF SendCommand, Chained
<1>6. TypesOK'
  BY <1>2, <1>3, <1>4, <1>5 DEF TypesOK
<1> QED  BY <1>3, <1>5, <1>6 DEF ChainingOK, Chained

\* The types hold at first.
LEMMA TypesInit == Init => TypesOK /\ ChainingOK
<1> SUFFICES ASSUME Init PROVE TypesOK /\ ChainingOK
  OBVIOUS
<1> USE SizesAssumption, FaultsAssumption
<1>1. asked \in Messages
  BY DEF Init, Bit, Messages
<1>2. /\ wtx \in Times /\ tries \in Counts /\ result \in Results
      /\ seen \in Histories /\ faults \in Faults
  BY DEF Init, Times, Counts, NoTries, Results, Levels, NoResult, Histories, NothingSeen, Faults, NoFaults
<1>3. rec \in Blocks /\ air \in Frames /\ card \in Cards
  BY BlockTypes, SilenceType, FreshTypes DEF Init
<1>4. /\ got = <<>> /\ executed = <<>> /\ Len(<<>>) = 0
      /\ <<>> \in Seq(Chunks) /\ <<>> \in Seq(Seq(Chunks))
  BY EmptySeq DEF Init
<1>5. pcb \in [kind : {"I", "ACK"}, more : BOOLEAN] /\ bn \in Bit
  BY DEF Init, Bit
<1>6. Len(got) <= Threshold + 1
  BY <1>4
<1> QED  BY <1>1, <1>2, <1>3, <1>4, <1>5, <1>6 DEF Init, TypesOK, ChainingOK

\* The message that SendsMessage makes of the host's.
Message(level, n, part) ==
  LET goesOn == level \in {2, 3} /\ card.rx # <<>>
      open   == level \in {1, 3}
      before == IF goesOn THEN asked.blocks ELSE 0
  IN  [id     |-> IF goesOn THEN asked.id ELSE 1 - asked.id,
       level  |-> IF open THEN 1 ELSE 0,
       at     |-> before + 1,
       blocks |-> before + (IF open /\ part THEN n - 1 ELSE n),
       from   |-> 0]

\* It is one, and is sent from its first block on.
LEMMA MessageTypes ==
  ASSUME TypesOK, NEW level \in 0..3, NEW n \in 1..MaxCmd, NEW part \in BOOLEAN,
         SendsMessage(level, n, part)
  PROVE  LET a == Message(level, n, part)
         IN  /\ a \in Messages /\ SendCommand(a, bn, wtx)
             /\ executed' = <<>> /\ seen' \in Histories /\ result' = NoResult /\ faults' = faults
<1> USE SizesAssumption
<1> DEFINE before == IF level \in {2, 3} /\ card.rx # <<>> THEN asked.blocks ELSE 0
<1>1. before \in 0..MaxCmd /\ before + n <= MaxCmd
  BY DEF SendsMessage, TypesOK, Messages
<1>2. before + 1 \in 1..MaxCmd /\ before + n \in 0..MaxCmd /\ before + (n - 1) \in 0..MaxCmd
  BY <1>1
<1>3. asked.id \in Bit /\ 1 - asked.id \in Bit /\ 0 \in 0..MaxRsp
  BY DEF TypesOK, Messages, Bit
<1>4. Message(level, n, part) \in Messages
  BY <1>2, <1>3 DEF Message, Messages
<1>5. SendCommand(Message(level, n, part), bn, wtx)
  BY DEF SendsMessage, Message
<1>6. seen' \in Histories
  BY DEF SendsMessage, TypesOK, Histories
<1> QED  BY <1>4, <1>5, <1>6 DEF SendsMessage

\* typeA_standard_apdu_handler keeps the types.
LEMMA TypesHandler ==
  ASSUME TypesOK, ChainingOK, typeA_standard_apdu_handler
  PROVE  TypesOK' /\ ChainingOK'
<1> USE SizesAssumption
<1>1. /\ pc = "idle" /\ rec' \in Blocks /\ got' \in Seq(Chunks) /\ Len(got') <= Threshold + 1
      /\ bn' = bn /\ card' = card /\ <<>> \in Seq(Seq(Chunks))
  <2>1. got' = <<>> /\ Len(<<>>) = 0 /\ <<>> \in Seq(Chunks) /\ <<>> \in Seq(Seq(Chunks))
    BY EmptySeq DEF typeA_standard_apdu_handler
  <2>2. Len(got') <= Threshold + 1
    BY <2>1
  <2> QED  BY <2>1, <2>2, BlockTypes DEF typeA_standard_apdu_handler
<1>2. NoResult \in Results /\ NoTries \in Counts
  BY DEF NoResult, Results, Levels, NoTries, Counts
<1>3. ASSUME NEW level \in 0..3, NEW n \in 1..MaxCmd, NEW part \in BOOLEAN,
             SendsMessage(level, n, part)
      PROVE  TypesOK' /\ ChainingOK'
  <2> DEFINE a == Message(level, n, part)
  <2>1. /\ a \in Messages /\ SendCommand(a, bn, wtx)
        /\ executed' = <<>> /\ seen' \in Histories /\ result' = NoResult /\ faults' = faults
    BY <1>3, MessageTypes
  <2> HIDE DEF a
  <2>2. /\ bn' \in Bit /\ result' \in Results /\ card' \in Cards /\ faults' \in Faults
        /\ bn \in Bit /\ wtx \in Times /\ executed' \in Seq(Seq(Chunks))
    BY <1>1, <1>2, <2>1 DEF TypesOK
  <2> QED  BY <1>1, <2>1, <2>2, SendCommandTypes
<1>4. CASE FetchesMore
  <2>1. asked' \in Messages /\ asked'.level = 16
    BY <1>4 DEF FetchesMore, TypesOK, Messages, Cards
  <2>2. /\ seen' \in Histories /\ UNCHANGED <<pcdChain, piccChain>> /\ ~pcdChain
        /\ executed' \in Seq(Seq(Chunks))
    BY <1>1, <1>4 DEF FetchesMore, TypesOK, Histories, ChainingOK
  <2>3. CASE piccChain
    <3>1. /\ SendBlock([kind |-> "ACK", more |-> FALSE], bn, NoData, wtx)
          /\ tries' = NoTries /\ result' = NoResult /\ faults' = faults
      BY <1>4, <2>3 DEF FetchesMore
    <3>2. [kind |-> "ACK", more |-> FALSE] \in [kind : {"I", "ACK"}, more : BOOLEAN]
      OBVIOUS
    <3>3. /\ pcb' = [kind |-> "ACK", more |-> FALSE] /\ pc' = "wait" /\ from' = "block"
          /\ long' \in BOOLEAN /\ wtx' \in Times /\ air' \in Frames
      BY <3>1, <3>2, BlockTypes, SendBlockTypes DEF TypesOK
    <3> QED  BY <1>1, <1>2, <2>1, <2>2, <2>3, <3>1, <3>2, <3>3 DEF TypesOK, ChainingOK
  <2>4. CASE ~piccChain
    <3>1. Done("ok", 2) /\ UNCHANGED <<pc, pcb, wtx>> /\ "ok" \in Statuses /\ 2 \in Levels
      BY <1>4, <2>4 DEF FetchesMore, Statuses, Levels
    <3>2. /\ result' \in Results /\ from' \in {"block", "rblock", "wtx"} /\ tries' \in Counts
          /\ rec' \in Blocks /\ long' \in BOOLEAN /\ air' \in Frames /\ faults' \in Faults
      BY <3>1, DoneTypes
    <3> QED  BY <1>1, <2>1, <2>2, <3>1, <3>2 DEF TypesOK, ChainingOK
  <2> QED  BY <2>3, <2>4
<1> QED  BY <1>3, <1>4 DEF typeA_standard_apdu_handler

\* typeA_select_ and typeA_request_ats keep the types.
LEMMA TypesBetween ==
  ASSUME TypesOK, ChainingOK, typeA_select_ \/ typeA_request_ats
  PROVE  TypesOK' /\ ChainingOK'
<1>1. CASE typeA_select_
  BY <1>1 DEF typeA_select_, TypesOK, ChainingOK, Chained, cardVars, Times
<1>2. CASE typeA_request_ats
  <2>1. card' \in Cards /\ air' \in Frames /\ result' \in Results /\ seen' \in Histories
          /\ executed' \in Seq(Seq(Chunks)) /\ bn' \in Bit
    BY <1>2, FreshTypes, SilenceType, EmptySeq
       DEF typeA_request_ats, Results, Levels, NoResult, Histories, NothingSeen, Bit
  <2> QED  BY <1>2, <2>1 DEF typeA_request_ats, TypesOK, ChainingOK, Chained
<1> QED  BY <1>1, <1>2

\* The steps of the handler keep the types: each retry is counted within its
\* limit, and the block sent next is one of the command's.
LEMMA TypesProcess ==
  ASSUME TypesOK, ChainingOK, NEW o \in Reports,
         \/ AskAgain(o) \/ GiveUp(o) \/ GrantWtx(o) \/ Retransmit(o)
         \/ ChainOn(o) \/ ChainStops(o) \/ RunsOn(o)
         \/ Collect(o) \/ Overrun(o) \/ Refuse(o)
  PROVE  TypesOK' /\ ChainingOK'
<1> USE SizesAssumption
<1>0. Waited(o) /\ seen' \in Histories /\ o.rec \in Blocks
  BY WaitedTypes, ReportTypes
     DEF AskAgain, GiveUp, GrantWtx, Retransmit, ChainOn, ChainStops, RunsOn, Collect, Overrun,
         Refuse, Received, GoesOn
<1>1. CASE AskAgain(o)
  <2> DEFINE b == RBlock(IF piccChain THEN "ACK" ELSE "NAK", bn)
             w == AfterTrouble(Ret(o))
  <2>1. GoesOn(o) /\ rec' = o.rec /\ SendWith(b, w, "rblock")
          /\ UNCHANGED <<asked, pcb, bn, pcdChain, piccChain, got, result>>
          /\ tries[Trouble(Ret(o))] < 2 /\ tries' = [tries EXCEPT ![Trouble(Ret(o))] = @ + 1]
          /\ Ret(o) \in {"notag", "protocol"}
    BY <1>1 DEF AskAgain
  <2>2. b \in Blocks /\ w \in Times
    BY BlockTypes, WtxTypes DEF TypesOK
  <2> HIDE DEF b, w
  <2>3. /\ long' \in BOOLEAN /\ wtx' \in Times /\ air' \in Frames
        /\ from' = "rblock" /\ pc' = "wait"
    BY <2>1, <2>2, SendTypes
  <2>4. tries' \in Counts
    <3>1. Trouble(Ret(o)) \in {"timeout", "frame", "ack"} /\ tries \in Counts
      BY DEF Trouble, TypesOK
    <3>2. CASE Trouble(Ret(o)) = "timeout"
      BY <2>1, <3>1, <3>2 DEF Counts
    <3>3. CASE Trouble(Ret(o)) = "frame"
      BY <2>1, <3>1, <3>3 DEF Counts
    <3>4. CASE Trouble(Ret(o)) = "ack"
      BY <2>1, <3>1, <3>4 DEF Counts
    <3> QED  BY <3>1, <3>2, <3>3, <3>4
  <2> QED  BY <1>0, <2>1, <2>3, <2>4, GoesOnTypes DEF TypesOK, ChainingOK, Chained, Waited
<1>2. CASE GiveUp(o) \/ Refuse(o)
  <2>1. \E st \in Statuses, w \in Times : Fail(st, w)
    BY <1>2, WtxTypes DEF GiveUp, Refuse, Statuses, Times, WtxNow, TypesOK
  <2> QED  BY <1>0, <2>1, FailTypes
<1>3. CASE GrantWtx(o)
  <2>1. GoesOn(o) /\ rec' = o.rec /\ SendWith(WTX, WtxHeard, "wtx")
          /\ UNCHANGED <<asked, pcb, bn, pcdChain, piccChain, tries, got, result>>
    BY <1>3 DEF GrantWtx, Received
  <2>2. /\ long' \in BOOLEAN /\ wtx' \in Times /\ air' \in Frames /\ from' = "wtx" /\ pc' = "wait"
    BY <2>1, WtxTypes, BlockTypes, SendTypes
  <2> QED  BY <1>0, <2>1, <2>2, GoesOnTypes DEF TypesOK, ChainingOK, Chained, Waited
<1>4. CASE Retransmit(o)
  <2> DEFINE p == [kind |-> "I", more |-> pcb.more]
             d == IF piccChain THEN NoData ELSE Stale
  <2>1. GoesOn(o) /\ rec' = o.rec /\ SendBlock(p, bn, d, WtxHeard)
          /\ UNCHANGED <<asked, bn, pcdChain, piccChain, got, result>>
          /\ tries.resend < 2 /\ tries' = [tries EXCEPT !.timeout = 0, !.resend = @ + 1]
    BY <1>4 DEF Retransmit, Received
  <2>2. p \in [kind : {"I", "ACK"}, more : BOOLEAN] /\ d \in Chunks /\ bn \in Bit
    BY BlockTypes DEF TypesOK
  <2> HIDE DEF p, d
  <2>3. /\ pcb' = p /\ long' \in BOOLEAN /\ wtx' \in Times /\ air' \in Frames
        /\ from' = "block" /\ pc' = "wait"
    BY <2>1, <2>2, WtxTypes, SendBlockTypes
  <2>4. tries' \in Counts
    <3>1. tries \in Counts /\ 0 \in 0..2
      BY DEF TypesOK
    <3>2. tries.resend + 1 \in 0..2
      BY <2>1, <3>1 DEF Counts
    <3> QED  BY <2>1, <3>1, <3>2 DEF Counts
  <2> QED  BY <1>0, <2>1, <2>2, <2>3, <2>4, GoesOnTypes DEF TypesOK, ChainingOK, Chained, Waited
<1>5. CASE ChainOn(o)
  <2> DEFINE a == [asked EXCEPT !.at = @ + 1]
  <2>1. GoesOn(o) /\ rec' = o.rec /\ bn' = 1 - bn /\ SendCommand(a, 1 - bn, WtxHeard)
          /\ UNCHANGED <<got, result>> /\ pcdChain /\ pc = "wait"
    BY <1>0, <1>5 DEF ChainOn, Acknowledged, Waited
  <2>2. a \in Messages
    <3>1. asked.at < asked.blocks /\ asked \in Messages
      BY <1>5 DEF ChainOn, TypesOK
    <3>2. asked.at + 1 \in 1..MaxCmd
      BY <3>1 DEF Messages
    <3> QED  BY <3>1, <3>2 DEF Messages
  <2>3. 1 - bn \in Bit /\ WtxHeard \in Times
    BY WtxTypes DEF TypesOK, Bit
  <2>4. /\ got' \in Seq(Chunks) /\ Len(got') <= Threshold + 1 /\ result' \in Results
        /\ card' \in Cards /\ executed' \in Seq(Seq(Chunks)) /\ faults' \in Faults
        /\ rec' \in Blocks /\ bn' \in Bit
    BY <1>0, <2>1, <2>3, GoesOnTypes DEF TypesOK
  <2> HIDE DEF a
  <2> QED  BY <1>0, <2>1, <2>2, <2>3, <2>4, SendCommandTypes
<1>6. CASE Collect(o)
  <2> DEFINE data   == Append(got, o.rec.data)
             tooBig == TooBig(data)
  <2>0. ~pcdChain /\ pc = "wait"
    BY <1>0, <1>6 DEF Collect, Expected, Waited
  <2>1. data \in Seq(Chunks) /\ Len(data) = Len(got) + 1 /\ Len(got) \in Nat
    <3>1. o.rec.data \in Chunks /\ got \in Seq(Chunks)
      BY <1>0 DEF Blocks, TypesOK
    <3> QED  BY <3>1, AppendProperties, LenProperties
  <2>2. got' \in Seq(Chunks) /\ Len(got') <= Threshold + 1
    <3>1. CASE tooBig
      <4>1. got' = SubSeq(data, 1, Threshold)
        BY <1>6, <3>1 DEF Collect
      <4>2. Len(data) > Threshold
        BY <3>1 DEF TooBig
      <4> HIDE DEF data
      <4>3. \A i \in 1..Threshold : data[i] \in Chunks
        BY <2>1, <4>2
      <4>4. /\ SubSeq(data, 1, Threshold) \in Seq(Chunks)
            /\ Len(SubSeq(data, 1, Threshold)) = Threshold
        BY <4>3, SubSeqProperties
      <4> QED  BY <4>1, <4>4
    <3>2. CASE ~tooBig
      <4>1. got' = data
        BY <1>6, <3>2 DEF Collect
      <4>2. Len(data) <= Threshold + 1
        BY <2>1, <3>2 DEF TooBig
      <4> QED  BY <2>1, <4>1, <4>2
    <3> QED  BY <3>1, <3>2
  <2>3. bn' \in Bit /\ piccChain' \in BOOLEAN /\ UNCHANGED <<asked, pcdChain>>
    BY <1>0, <1>6 DEF Collect, TypesOK, Blocks, Bit
  <2>4. CASE GoesOn(o) /\ SendBlock([kind |-> "ACK", more |-> FALSE], 1 - bn, NoData, WtxHeard)
               /\ tries' = NoTries /\ rec' = Unknown /\ UNCHANGED result /\ o.rec.more
    <3>1. 1 - bn \in Bit /\ WtxHeard \in Times /\ NoTries \in Counts
      BY WtxTypes DEF TypesOK, Bit, NoTries, Counts
    <3>2. [kind |-> "ACK", more |-> FALSE] \in [kind : {"I", "ACK"}, more : BOOLEAN]
      OBVIOUS
    <3>3. /\ pcb' = [kind |-> "ACK", more |-> FALSE] /\ pc' = "wait" /\ from' = "block"
          /\ long' \in BOOLEAN /\ wtx' \in Times /\ air' \in Frames
      BY <2>4, <3>1, <3>2, BlockTypes, SendBlockTypes
    <3>4. piccChain' = TRUE
      BY <1>0, <1>6, <2>4 DEF Collect, Blocks
    <3>5. TypesOK'
      BY <1>0, <2>2, <2>3, <2>4, <3>1, <3>2, <3>3, BlockTypes, GoesOnTypes DEF TypesOK
    <3> QED  BY <2>0, <2>3, <3>4, <3>5 DEF ChainingOK
  <2>5. CASE Done("ok", LevelAfter(tooBig)) /\ pc' = "idle" /\ wtx' = WtxHeard
               /\ UNCHANGED <<pcb, cardVars>>
    <3>1. "ok" \in Statuses /\ LevelAfter(tooBig) \in Levels
      BY DEF Statuses, LevelAfter, Levels
    <3>2. /\ result' \in Results /\ from' \in {"block", "rblock", "wtx"} /\ tries' \in Counts
          /\ rec' \in Blocks /\ long' \in BOOLEAN /\ air' \in Frames /\ faults' \in Faults
      BY <2>5, <3>1, DoneTypes
    <3> QED  BY <1>0, <2>0, <2>2, <2>3, <2>5, <3>2, WtxTypes DEF TypesOK, ChainingOK, cardVars
  <2> QED  BY <1>6, <2>4, <2>5 DEF Collect
<1>7. CASE Overrun(o) \/ RunsOn(o)
  BY <1>0, <1>7 DEF Overrun, RunsOn, Waited, TypesOK, ChainingOK, Chained, pcdVars, cardVars
<1>8. CASE ChainStops(o)
  <2>1. Done("ok", 16) /\ "ok" \in Statuses /\ 16 \in Levels
    BY <1>8 DEF ChainStops, Statuses, Levels
  <2>2. /\ result' \in Results /\ from' \in {"block", "rblock", "wtx"} /\ tries' \in Counts
        /\ rec' \in Blocks /\ long' \in BOOLEAN /\ air' \in Frames /\ faults' \in Faults
    BY <2>1, DoneTypes
  <2>3. 1 - bn \in Bit
    BY DEF TypesOK, Bit
  <2> QED  BY <1>0, <1>8, <2>2, <2>3, WtxTypes DEF ChainStops, TypesOK, ChainingOK, cardVars
<1> QED  BY <1>1, <1>2, <1>3, <1>4, <1>5, <1>6, <1>7, <1>8

\* Every step keeps the types and PCD_CHAINING.
LEMMA TypesNext == TypesOK /\ ChainingOK /\ [Next]_vars => TypesOK' /\ ChainingOK'
<1> SUFFICES ASSUME TypesOK, ChainingOK, [Next]_vars PROVE TypesOK' /\ ChainingOK'
  OBVIOUS
<1>1. CASE Process
  BY <1>1, TypesProcess DEF Process
<1>2. CASE UNCHANGED vars
  BY <1>2 DEF vars, pcdVars, cardVars, TypesOK, ChainingOK, Chained
<1> QED  BY <1>1, <1>2, TypesHandler, TypesBetween, TypesCard DEF Next

-----------------------------------------------------------------------------
(* Blocks, chunks and answers.                                             *)

\* What kind a block is of, and what it carries.
LEMMA BlockFields ==
  /\ \A m, n, d : /\ IBlock(m, n, d).kind = "I" /\ IBlock(m, n, d).more = m
                  /\ IBlock(m, n, d).bn = n /\ IBlock(m, n, d).data = d
  /\ \A k, n : RBlock(k, n).kind = k /\ RBlock(k, n).bn = n
  /\ WTX.kind = "WTX" /\ Bad.kind = "bad" /\ Silence.to = "nobody"
BY DEF IBlock, RBlock, WTX, Bad, Block, Silence

\* A piece of n chunks is n chunks.
LEMMA PieceLemma ==
  ASSUME NEW id \in Bit, NEW f \in Nat, NEW n \in Nat
  PROVE  /\ Piece(id, f, n) \in Seq(Chunks) /\ Len(Piece(id, f, n)) = n
         /\ \A i \in 1..n : Piece(id, f, n)[i] = <<id, f + i>>
<1>1. \A i \in 1..n : <<id, f + i>> \in Chunks
  BY DEF Chunks
<1> QED  BY <1>1 DEF Piece

\* A piece of no chunks.
LEMMA PieceEmpty ==
  ASSUME NEW id, NEW f
  PROVE  Piece(id, f, 0) = <<>>
BY DEF Piece

\* A piece and the next chunk.
LEMMA PieceNext ==
  ASSUME NEW id \in Bit, NEW from_ \in Nat, NEW n \in Nat
  PROVE  Append(Piece(id, from_, n), <<id, from_ + (n + 1)>>) = Piece(id, from_, n + 1)
<1> DEFINE f == Piece(id, from_, n)
           e == <<id, from_ + (n + 1)>>
           g == Piece(id, from_, n + 1)
<1>1. f \in Seq(Chunks) /\ Len(f) = n /\ \A i \in 1..n : f[i] = <<id, from_ + i>>
  BY PieceLemma
<1>2. g \in Seq(Chunks) /\ Len(g) = n + 1 /\ \A i \in 1..n + 1 : g[i] = <<id, from_ + i>>
  <2>1. n + 1 \in Nat
    OBVIOUS
  <2> QED  BY <2>1, PieceLemma
<1>3. e \in Chunks
  BY DEF Chunks
<1>4. e = <<id, from_ + (n + 1)>>
  OBVIOUS
<1> HIDE DEF f, g, e
<1>5. /\ Append(f, e) \in Seq(Chunks) /\ Len(Append(f, e)) = n + 1
      /\ \A i \in 1..n + 1 : Append(f, e)[i] = IF i <= n THEN f[i] ELSE e
  BY <1>1, <1>3, AppendProperties
<1>6. \A i \in 1..n + 1 : Append(f, e)[i] = g[i]
  <2> SUFFICES ASSUME NEW i \in 1..n + 1 PROVE Append(f, e)[i] = g[i]
    OBVIOUS
  <2>0. g[i] = <<id, from_ + i>> /\ Append(f, e)[i] = IF i <= n THEN f[i] ELSE e
    BY <1>2, <1>5
  <2>1. CASE i <= n
    <3>1. i \in 1..n
      BY <2>1
    <3>2. f[i] = <<id, from_ + i>>
      BY <1>1, <3>1
    <3> QED  BY <2>0, <2>1, <3>2
  <2>2. CASE i = n + 1
    <3>1. ~(i <= n)
      BY <2>2
    <3>2. e = <<id, from_ + i>>
      BY <1>4, <2>2
    <3>3. Append(f, e)[i] = e
      BY <2>0, <3>1
    <3> QED  BY <2>0, <3>2, <3>3
  <2>3. i <= n \/ i = n + 1
    OBVIOUS
  <2> QED  BY <2>1, <2>2, <2>3
<1>7. Append(f, e) = g
  BY <1>2, <1>5, <1>6, SeqEqual
<1> QED  BY <1>7 DEF f, g, e

\* A piece cut at its t-th chunk.
LEMMA PieceCut ==
  ASSUME NEW id \in Bit, NEW from_ \in Nat, NEW n \in Nat, NEW t \in 1..n
  PROVE  SubSeq(Piece(id, from_, n), 1, t) = Piece(id, from_, t)
<1> DEFINE f == Piece(id, from_, n)
           g == Piece(id, from_, t)
           h == SubSeq(f, 1, t)
<1>1. f \in Seq(Chunks) /\ Len(f) = n /\ \A i \in 1..n : f[i] = <<id, from_ + i>>
  BY PieceLemma
<1>2. g \in Seq(Chunks) /\ Len(g) = t /\ \A i \in 1..t : g[i] = <<id, from_ + i>>
  <2>1. t \in Nat
    OBVIOUS
  <2> QED  BY <2>1, PieceLemma
<1> HIDE DEF f, g
<1>3. \A i \in 1..t : f[i] \in Chunks
  BY <1>1, ElementOfSeq
<1>4. h \in Seq(Chunks) /\ Len(h) = t /\ \A i \in 1..t : h[i] = f[i]
  <2>1. /\ h \in Seq(Chunks) /\ Len(h) = IF 1 <= t THEN t - 1 + 1 ELSE 0
        /\ \A i \in 1..t - 1 + 1 : h[i] = f[1 + i - 1]
    BY <1>3, SubSeqProperties
  <2> QED  BY <2>1
<1> HIDE DEF h
<1>5. \A i \in 1..Len(h) : h[i] = g[i]
  <2> SUFFICES ASSUME NEW i \in 1..t PROVE h[i] = g[i]
    BY <1>4
  <2>1. i \in 1..n
    OBVIOUS
  <2>2. f[i] = <<id, from_ + i>> /\ g[i] = <<id, from_ + i>> /\ h[i] = f[i]
    BY <1>1, <1>2, <1>4, <2>1
  <2> QED  BY <2>2
<1>6. h = g
  BY <1>2, <1>4, <1>5, SeqEqual
<1> QED  BY <1>6 DEF f, g, h

\* The first chunks, the next one, and none.
LEMMA FirstNext ==
  ASSUME NEW id \in Bit, NEW n \in Nat
  PROVE  Append(First(id, n), <<id, n + 1>>) = First(id, n + 1)
<1>1. 0 + (n + 1) = n + 1 /\ 0 \in Nat
  OBVIOUS
<1>2. Append(Piece(id, 0, n), <<id, 0 + (n + 1)>>) = Piece(id, 0, n + 1)
  BY <1>1, PieceNext
<1> QED  BY <1>1, <1>2 DEF First

LEMMA FirstEmpty ==
  ASSUME NEW id
  PROVE  First(id, 0) = <<>>
BY PieceEmpty DEF First

\* The command, and the piece of the response that is had, in these terms.
LEMMA CommandPiece ==
  ASSUME asked \in Messages
  PROVE  /\ Command = First(asked.id, asked.blocks)
         /\ [i \in 1..Len(got) |-> Chunk(asked.from + i)] = Piece(asked.id, asked.from, Len(got))
<1>1. asked.blocks \in Nat
  BY SizesAssumption DEF Messages
<1>2. \A i \in 1..asked.blocks : Chunk(i) = <<asked.id, 0 + i>>
  BY <1>1 DEF Chunk
<1>3. Command = Piece(asked.id, 0, asked.blocks)
  BY <1>2 DEF Command, Piece
<1> QED  BY <1>3 DEF First, Piece, Chunk

\* A card that answers b has b as its answer, sent or held back, and a frame is
\* under way to the reader.
LEMMA AnswersGives ==
  ASSUME NEW c \in Cards, NEW b \in Blocks, b.kind \in {"I", "ACK"}, c.held = Bad, ~c.busy,
         Answers(c, b)
  PROVE  /\ card'.here = c.here /\ card'.bn = c.bn /\ card'.rx = c.rx /\ card'.len = c.len
         /\ card'.tx = c.tx /\ card'.busy = FALSE
         /\ Answer' = b
         /\ card'.held = Bad => card'.last # WTX
         /\ card'.held # Bad => card'.last = WTX
         /\ air'.to = "pcd" /\ air'.block = card'.last
<1>1. b # WTX /\ b # Bad
  BY BlockFields
<1>2. CASE card' = [c EXCEPT !.last = WTX, !.held = b] /\ air' = FromCard(WTX)
  BY <1>1, <1>2 DEF Cards, Answer, FromCard
<1>3. CASE card' = [c EXCEPT !.last = b] /\ air' = FromCard(b)
  BY <1>1, <1>3 DEF Cards, Answer, FromCard
<1> QED  BY <1>2, <1>3 DEF Answers

-----------------------------------------------------------------------------
(* The card's steps.                                                       *)

\* Only during an APDU is there a frame for the card, or a card at work.
LEMMA Waiting ==
  ASSUME TypesOK, ExchangeOK, ~seen.misread, card.here, air.to = "card" \/ card.busy
  PROVE  pc = "wait" /\ ReaderOK /\ AirOK /\ CardOK /\ TextOK
BY BlockFields DEF TypesOK, ExchangeOK, IdleOK

\* The card gets a block of the command: it has the number of the block, and
\* with the last one the whole command, which it executes.
LEMMA ExCardCommand ==
  ASSUME TypesOK, ChainingOK, ExchangeOK, ~seen.misread, CardCommand
  PROVE  ExchangeOK'
<1> DEFINE n == 1 - card.bn
           rx == IF air.block.data = NoData THEN card.rx ELSE Append(card.rx, air.block.data)
<1>1. /\ air.to = "card" /\ card.here /\ air.block.kind = "I"
      /\ UNCHANGED <<pc, asked, pcb, bn, pcdChain, piccChain, got, seen>>
  BY DEF CardCommand, Hears, pcdVars
<1>2. pc = "wait" /\ ReaderOK /\ AirOK /\ CardOK /\ TextOK
  BY <1>1, Waiting
<1>3. /\ air.block = IBlock(pcdChain, bn, air.block.data) /\ ~piccChain /\ ~Reached
      /\ ~seen.resent => air.block.data = <<asked.id, asked.at>>
  <2>1. \A k : k \in {"ACK", "NAK"} => RBlock(k, bn).kind # "I"
    BY BlockFields
  <2> QED  BY <1>1, <1>2, <2>1, BlockFields DEF AirOK
<1>4. air.block.more = pcdChain /\ n = bn /\ n \in Bit
  <2>1. air.block.more = pcdChain
    BY <1>3, BlockFields
  <2> QED  BY <1>3, <2>1 DEF Reached, TypesOK, Cards, Bit
<1>5. card \in Cards /\ card.held = Bad /\ ~card.busy /\ got = <<>> /\ executed = <<>>
  BY <1>2, <1>3 DEF TypesOK, ReaderOK, CardOK, TextOK
<1>6. /\ asked.id \in Bit /\ asked.at \in Nat \ {0} /\ asked.blocks \in Nat /\ asked.from = 0
      /\ asked.level # 16
      /\ ~pcdChain /\ Clean => asked.at = asked.blocks
  <2>1. /\ asked.id \in Bit /\ asked.at \in Nat \ {0} /\ asked.blocks \in Nat
        /\ asked.level \in {0, 1, 16}
    BY SizesAssumption DEF TypesOK, Messages
  <2>2. asked.from = 0 /\ asked.level # 16 /\ (asked.at <= asked.blocks \/ seen.torn)
    BY <1>2, <1>3 DEF ReaderOK
  <2>3. ~pcdChain => ~(asked.at < asked.blocks)
    BY <1>2, <1>3 DEF ChainingOK, Chained
  <2> QED  BY <2>1, <2>2, <2>3 DEF Clean
<1>7. rx \in Seq(Chunks) /\ (Clean => rx = First(asked.id, asked.at))
  <2>1. card.rx \in Seq(Chunks) /\ air.block.data \in Chunks
    BY DEF TypesOK, Cards, Frames, Blocks
  <2>2. ASSUME Clean PROVE rx = First(asked.id, asked.at)
    <3>1. air.block.data = <<asked.id, asked.at>> /\ card.rx = First(asked.id, asked.at - 1)
      BY <1>2, <1>3, <2>2 DEF TextOK, Clean
    <3>2. air.block.data # NoData
      BY <1>6, <3>1 DEF NoData
    <3>a. asked.at - 1 \in Nat /\ asked.id \in Bit
      BY <1>6
    <3>3. Append(First(asked.id, asked.at - 1), <<asked.id, (asked.at - 1) + 1>>)
            = First(asked.id, (asked.at - 1) + 1)
      BY <3>a, FirstNext
    <3>4. (asked.at - 1) + 1 = asked.at
      BY <1>6
    <3> QED  BY <3>1, <3>2, <3>3, <3>4
  <2> QED  BY <2>1, <2>2, AppendProperties
<1> HIDE DEF n, rx
<1>8. CASE pcdChain
  <2> DEFINE c == [card EXCEPT !.bn = n, !.rx = rx]
             b == RBlock("ACK", n)
  <2>1. Answers(c, b) /\ executed' = executed
    BY <1>4, <1>8 DEF CardCommand, n, rx
  <2>2. c \in Cards /\ c.held = Bad /\ ~c.busy /\ c.here /\ c.bn = bn /\ c.rx = rx
    BY <1>1, <1>4, <1>5, <1>7 DEF Cards
  <2>3. b \in Blocks /\ b.kind \in {"I", "ACK"} /\ b = RBlock("ACK", bn)
    BY <1>4, BlockTypes, BlockFields
  <2>a. c.tx = card.tx /\ c.len = card.len
    BY <1>5 DEF Cards
  <2> HIDE DEF c, b
  <2>4. /\ card'.here = c.here /\ card'.bn = c.bn /\ card'.rx = c.rx /\ card'.busy = FALSE
        /\ card'.tx = c.tx /\ card'.len = c.len
        /\ Answer' = b
        /\ card'.held = Bad => card'.last # WTX
        /\ card'.held # Bad => card'.last = WTX
        /\ air'.to = "pcd" /\ air'.block = card'.last
    BY <2>1, <2>2, <2>3, AnswersGives
  <2>5. Reached' /\ AirOK'
    BY <1>1, <2>2, <2>4 DEF Reached, AirOK
  <2>6. CardOK'
    <3>1. card'.tx <= card'.len
      BY <1>2, <1>5, <2>a, <2>4 DEF CardOK
    <3> QED  BY <1>1, <1>8, <2>3, <2>4, <2>5, <3>1 DEF CardOK
  <2>7. TextOK'
    BY <1>1, <1>3, <1>5, <1>7, <1>8, <2>1, <2>2, <2>4, <2>5 DEF TextOK, Clean
  <2> QED  BY <1>1, <1>2, <1>5, <2>1, <2>2, <2>4, <2>5, <2>6, <2>7 DEF ExchangeOK, ReaderOK
<1>9. CASE ~pcdChain
  <2>1. PICK l \in 1..MaxRsp :
          Answers([card EXCEPT !.bn = n, !.rx = <<>>, !.len = l, !.tx = 1],
                  IBlock(l > 1, n, Chunk(1)))
    BY <1>4, <1>9 DEF CardCommand, n
  <2>0. executed' = Append(executed, rx)
    BY <1>4, <1>9 DEF CardCommand, n, rx
  <2> DEFINE c == [card EXCEPT !.bn = n, !.rx = <<>>, !.len = l, !.tx = 1]
             b == IBlock(l > 1, n, Chunk(1))
  <2>2. c \in Cards /\ c.held = Bad /\ ~c.busy /\ c.here /\ c.bn = bn /\ c.rx = <<>> /\ c.tx = 1
          /\ c.len = l
    <3>1. l \in 0..MaxRsp /\ 1 \in 0..MaxRsp
      BY SizesAssumption
    <3> QED  BY <1>1, <1>4, <1>5, <3>1, EmptySeq DEF Cards
  <2>3. b \in Blocks /\ b.kind \in {"I", "ACK"} /\ b = IBlock(1 < l, bn, <<asked.id, 1>>)
    <3>1. <<asked.id, 1>> \in Chunks /\ (l > 1) \in BOOLEAN /\ ((l > 1) = (1 < l))
      BY <1>6 DEF Chunks
    <3>2. b = IBlock(1 < l, bn, <<asked.id, 1>>)
      BY <1>4, <3>1 DEF Chunk
    <3> HIDE DEF b
    <3>3. bn \in Bit /\ (1 < l) \in BOOLEAN
      BY <1>4
    <3>4. b \in Blocks
      BY <3>1, <3>2, <3>3, BlockTypes
    <3>5. b.kind = "I"
      BY <3>2, BlockFields
    <3> QED  BY <3>2, <3>4, <3>5
  <2>a. Answers(c, b)
    BY <2>1
  <2> HIDE DEF c, b
  <2>4. /\ card'.here = c.here /\ card'.bn = c.bn /\ card'.rx = c.rx /\ card'.busy = FALSE
        /\ card'.tx = c.tx /\ card'.len = c.len
        /\ Answer' = b
        /\ card'.held = Bad => card'.last # WTX
        /\ card'.held # Bad => card'.last = WTX
        /\ air'.to = "pcd" /\ air'.block = card'.last
    BY <2>a, <2>2, <2>3, AnswersGives
  <2>5. Reached' /\ AirOK'
    BY <1>1, <2>2, <2>4 DEF Reached, AirOK
  <2>6. CardOK'
    <3>1. got = Piece(asked.id, asked.from, 1 - 1 - asked.from)
      BY <1>5, <1>6, PieceEmpty
    <3>2. 1 \in asked.from + 1..l /\ 1 <= l
      BY <1>6, SizesAssumption
    <3> QED  BY <1>1, <1>9, <2>2, <2>3, <2>4, <2>5, <3>1, <3>2 DEF CardOK
  <2>7. executed' = <<rx>> /\ Len(executed') = 1
    BY <1>5, <2>0
  <2>8. TextOK'
    BY <1>1, <1>3, <1>6, <1>7, <1>9, <2>2, <2>4, <2>5, <2>7 DEF TextOK, Clean
  <2> QED  BY <1>1, <1>2, <2>2, <2>4, <2>5, <2>6, <2>7, <2>8 DEF ExchangeOK, ReaderOK
<1> QED  BY <1>8, <1>9

\* The card gets R(ACK) with the next number: it sends the next chunk, or
\* nothing if there is none.
LEMMA ExCardContinues ==
  ASSUME TypesOK, ChainingOK, ExchangeOK, ~seen.misread, CardContinues
  PROVE  ExchangeOK'
<1>1. /\ air.to = "card" /\ card.here /\ air.block.kind = "ACK" /\ air.block.bn # card.bn
      /\ UNCHANGED <<pc, asked, pcb, bn, pcdChain, piccChain, got, seen, executed>>
  BY DEF CardContinues, Hears, pcdVars
<1>2. pc = "wait" /\ ReaderOK /\ AirOK /\ CardOK /\ TextOK /\ Len(executed) <= 1
  BY <1>1, Waiting DEF ExchangeOK
<1>3. air.block = RBlock("ACK", bn) /\ piccChain /\ ~Reached
  BY <1>1, <1>2, BlockFields DEF AirOK, Reached
<1>4. /\ ~pcdChain /\ card.held = Bad /\ ~card.busy
      /\ card.tx \in asked.from..card.len
      /\ got = Piece(asked.id, asked.from, card.tx - asked.from)
      /\ card \in Cards /\ card.rx = <<>>
      /\ 1 - card.bn = bn /\ bn \in Bit /\ asked.from \in Nat /\ asked.id \in Bit
  <2>1. asked.from \in Nat /\ asked.id \in Bit /\ card \in Cards /\ bn \in Bit
    BY SizesAssumption DEF TypesOK, Messages
  <2>2. /\ ~pcdChain /\ card.held = Bad /\ ~card.busy
        /\ card.tx \in asked.from..card.len
        /\ got = Piece(asked.id, asked.from, card.tx - asked.from)
    BY <1>2, <1>3 DEF ReaderOK, CardOK
  <2>3. card.rx = <<>>
    BY <1>2, <1>3 DEF TextOK
  <2>4. 1 - card.bn = bn
    BY <1>3, <2>1 DEF Reached, Cards, Bit
  <2> QED  BY <2>1, <2>2, <2>3, <2>4
<1>5. CASE ~(card.tx < card.len)
  <2>1. air' = Silence /\ card' = card
    BY <1>4, <1>5 DEF CardContinues, Cards
  <2>2. ReaderOK' /\ AirOK' /\ CardOK' /\ TextOK'
    BY <1>1, <1>2, <2>1, BlockFields DEF ReaderOK, AirOK, CardOK, TextOK, Reached, Answer, Clean
  <2> QED  BY <1>1, <1>2, <2>1, <2>2, BlockFields DEF ExchangeOK
<1>6. CASE card.tx < card.len
  <2> DEFINE c == [card EXCEPT !.bn = 1 - @, !.tx = @ + 1]
             b == IBlock(card.tx + 1 < card.len, 1 - card.bn, Chunk(card.tx + 1))
  <2>1. Answers(c, b)
    BY <1>4, <1>6 DEF CardContinues, Cards
  <2>2. /\ c \in Cards /\ c.held = Bad /\ ~c.busy /\ c.here /\ c.bn = bn /\ c.rx = <<>>
        /\ c.tx = card.tx + 1 /\ c.len = card.len /\ card.tx \in Nat /\ card.len \in Nat
    <3>1. card.tx + 1 \in 0..MaxRsp /\ card.tx \in Nat /\ card.len \in Nat
      BY <1>4, <1>6, SizesAssumption DEF Cards
    <3> QED  BY <1>1, <1>4, <3>1 DEF Cards
  <2>3. b \in Blocks /\ b.kind \in {"I", "ACK"}
          /\ b = IBlock(card.tx + 1 < card.len, bn, <<asked.id, card.tx + 1>>)
    <3>1. <<asked.id, card.tx + 1>> \in Chunks /\ (card.tx + 1 < card.len) \in BOOLEAN
      BY <1>4, <2>2 DEF Chunks
    <3>2. b = IBlock(card.tx + 1 < card.len, bn, <<asked.id, card.tx + 1>>)
      BY <1>4 DEF Chunk
    <3> HIDE DEF b
    <3>3. b \in Blocks
      BY <1>4, <3>1, <3>2, BlockTypes
    <3>4. b.kind = "I"
      BY <3>2, BlockFields
    <3> QED  BY <3>2, <3>3, <3>4
  <2> HIDE DEF c, b
  <2>4. /\ card'.here = c.here /\ card'.bn = c.bn /\ card'.rx = c.rx /\ card'.busy = FALSE
        /\ card'.tx = c.tx /\ card'.len = c.len
        /\ Answer' = b
        /\ card'.held = Bad => card'.last # WTX
        /\ card'.held # Bad => card'.last = WTX
        /\ air'.to = "pcd" /\ air'.block = card'.last
    BY <2>1, <2>2, <2>3, AnswersGives
  <2>5. Reached' /\ AirOK'
    BY <1>1, <2>2, <2>4 DEF Reached, AirOK
  <2>6. CardOK'
    <3>1. /\ c.tx \in asked.from + 1..c.len /\ c.tx <= c.len
          /\ c.tx - 1 - asked.from = card.tx - asked.from
      BY <1>4, <1>6, <2>2
    <3> QED  BY <1>1, <1>4, <2>2, <2>3, <2>4, <2>5, <3>1 DEF CardOK
  <2>7. TextOK'
    <3>1. executed # <<>>
      BY <1>2, <1>3, <1>4, <1>6 DEF TextOK
    <3> QED  BY <1>1, <1>2, <1>3, <2>2, <2>4, <3>1 DEF TextOK, Clean
  <2> QED  BY <1>1, <1>2, <2>2, <2>4, <2>5, <2>6, <2>7 DEF ExchangeOK, ReaderOK
<1> QED  BY <1>5, <1>6

\* The card repeats a block, acknowledges, takes its time, asks for more, or
\* is ready: it keeps its number.
LEMMA ExCardOthers ==
  ASSUME TypesOK, ChainingOK, ExchangeOK, ~seen.misread,
         CardRepeats \/ CardAcknowledges \/ CardExtended \/ CardReady \/ CardAsksAgain
  PROVE  ExchangeOK'
<1>1. /\ card.here /\ UNCHANGED <<pc, asked, pcb, bn, pcdChain, piccChain, got, seen, executed>>
      /\ air.to = "card" \/ card.busy
  BY DEF CardRepeats, CardAcknowledges, CardExtended, CardReady, CardAsksAgain, Hears, pcdVars,
         cardVars
<1>2. pc = "wait" /\ ReaderOK /\ AirOK /\ CardOK /\ TextOK /\ Len(executed) <= 1
  BY <1>1, Waiting DEF ExchangeOK
<1>3. ReaderOK'
  BY <1>1, <1>2 DEF ReaderOK
<1>4. CASE CardRepeats
  <2>1. Reached /\ card' = card
    BY <1>2, <1>4, BlockFields DEF CardRepeats, Hears, AirOK, Reached, cardVars
  <2>2. air' = Silence \/ air' = FromCard(card.last)
    BY <1>4 DEF CardRepeats
  <2>3. AirOK'
    BY <1>1, <2>1, <2>2, BlockFields DEF AirOK, Reached, FromCard
  <2>4. CardOK' /\ TextOK'
    BY <1>1, <1>2, <2>1 DEF CardOK, TextOK, Reached, Answer, Clean
  <2> QED  BY <1>1, <1>2, <1>3, <2>1, <2>3, <2>4 DEF ExchangeOK
<1>5. CASE CardAcknowledges
  <2>1. ~Reached /\ card' = card /\ ~piccChain /\ air' = FromCard(RBlock("ACK", card.bn))
    BY <1>2, <1>5, BlockFields DEF CardAcknowledges, Hears, AirOK, Reached, cardVars
  <2>2. AirOK'
    BY <1>1, <2>1, BlockFields DEF AirOK, Reached, FromCard
  <2>3. CardOK' /\ TextOK'
    BY <1>1, <1>2, <2>1 DEF CardOK, TextOK, Reached, Answer, Clean
  <2> QED  BY <1>1, <1>2, <1>3, <2>1, <2>2, <2>3 DEF ExchangeOK
<1>6. CASE CardExtended
  <2>1. Reached /\ air' = Silence /\ card' = [card EXCEPT !.busy = (card.held # Bad)]
    BY <1>2, <1>6, BlockFields DEF CardExtended, Hears, AirOK
  <2>2. /\ card'.here = card.here /\ card'.bn = card.bn /\ card'.rx = card.rx
        /\ card'.len = card.len
        /\ card'.tx = card.tx /\ card'.last = card.last /\ card'.held = card.held
        /\ card'.busy = (card.held # Bad)
    BY <2>1 DEF TypesOK, Cards
  <2>3. AirOK'
    BY <2>1, BlockFields DEF AirOK
  <2>4. CardOK' /\ TextOK'
    BY <1>1, <1>2, <2>1, <2>2 DEF CardOK, TextOK, Reached, Answer, Clean
  <2> QED  BY <1>1, <1>2, <1>3, <2>2, <2>3, <2>4 DEF ExchangeOK
<1>7. CASE CardReady
  <2>1. /\ card.busy /\ air' = FromCard(card.held)
        /\ card' = [card EXCEPT !.busy = FALSE, !.last = card.held, !.held = Bad]
    BY <1>7 DEF CardReady
  <2>2. /\ card'.here = card.here /\ card'.bn = card.bn /\ card'.rx = card.rx
        /\ card'.len = card.len
        /\ card'.tx = card.tx /\ card'.last = card.held /\ card'.held = Bad /\ card'.busy = FALSE
    BY <2>1 DEF TypesOK, Cards
  <2>3. card.held # Bad /\ Reached /\ Answer = card.held /\ Answer' = card.held
    BY <1>2, <2>1, <2>2 DEF CardOK, Answer
  <2>4. AirOK' /\ Reached'
    BY <1>1, <2>1, <2>2, <2>3 DEF AirOK, FromCard, Reached
  <2>5. card.held # WTX
    BY <1>2, <2>3, BlockFields DEF CardOK
  <2>6. CardOK' /\ TextOK'
    BY <1>1, <1>2, <2>2, <2>3, <2>4, <2>5 DEF CardOK, TextOK, Clean
  <2> QED  BY <1>1, <1>2, <1>3, <2>2, <2>4, <2>6 DEF ExchangeOK
<1>8. CASE CardAsksAgain
  <2>1. card.busy /\ air' = FromCard(WTX) /\ card' = [card EXCEPT !.busy = FALSE]
    BY <1>8 DEF CardAsksAgain
  <2>2. /\ card'.here = card.here /\ card'.bn = card.bn /\ card'.rx = card.rx
        /\ card'.len = card.len
        /\ card'.tx = card.tx /\ card'.last = card.last /\ card'.held = card.held
        /\ card'.busy = FALSE
    BY <2>1 DEF TypesOK, Cards
  <2>3. card.held # Bad /\ card.last = WTX /\ Reached
    BY <1>2, <2>1 DEF CardOK
  <2>4. AirOK'
    BY <1>1, <2>1, <2>2, <2>3 DEF AirOK, FromCard, Reached
  <2>5. CardOK' /\ TextOK'
    BY <1>1, <1>2, <2>2, <2>3 DEF CardOK, TextOK, Reached, Answer, Clean
  <2> QED  BY <1>1, <1>2, <1>3, <2>2, <2>4, <2>5 DEF ExchangeOK
<1> QED  BY <1>4, <1>5, <1>6, <1>7, <1>8

\* A frame is lost, or the card leaves.
LEMMA ExLost ==
  ASSUME TypesOK, ChainingOK, ExchangeOK, ~seen.misread, Missed \/ CardLeaves
  PROVE  ExchangeOK'
<1>1. /\ UNCHANGED <<pc, asked, pcb, bn, pcdChain, piccChain, got, seen, executed>>
      /\ air' = Silence
  BY DEF Missed, CardLeaves, pcdVars, cardVars
<1>2. ReaderOK => ReaderOK'
  BY <1>1 DEF ReaderOK
<1>3. AirOK'
  BY <1>1, BlockFields DEF AirOK
<1>4. CASE Missed
  <2>1. card' = card
    BY <1>4 DEF Missed, cardVars
  <2>2. /\ (CardOK => CardOK') /\ (TextOK => TextOK') /\ (IdleOK => IdleOK')
        /\ (RestOK => RestOK')
    BY <1>1, <2>1 DEF CardOK, TextOK, IdleOK, RestOK, Reached, Answer, Clean
  <2> QED  BY <1>1, <1>2, <1>3, <2>1, <2>2, BlockFields DEF ExchangeOK
<1>5. CASE CardLeaves
  <2>1. card'.here = FALSE /\ card'.tx = card.tx /\ card'.len = card.len /\ card'.rx = card.rx
    BY <1>5 DEF CardLeaves, TypesOK, Cards
  <2>2. RestOK => RestOK'
    BY <1>1, <2>1 DEF RestOK, Clean
  <2> QED  BY <1>1, <1>2, <2>1, <2>2, BlockFields DEF ExchangeOK
<1> QED  BY <1>4, <1>5

\* The card is silent between the APDUs, or it leaves.
LEMMA DoneCard ==
  ASSUME TypesOK, ExchangeOK, OkMeansDone, ~seen.misread, Card \/ CardLeaves
  PROVE  OkMeansDone'
<1> SUFFICES ASSUME pc' = "idle" PROVE OkMeansDone'
  BY DEF OkMeansDone
<1>1. UNCHANGED <<pc, asked, got, result, seen>>
  BY CardTypes DEF pcdVars
<1>2. pc = "idle" /\ air.to = "nobody" /\ (card.here => ~card.busy)
  BY <1>1, BlockFields DEF ExchangeOK, IdleOK
<1>3. CardLeaves
  BY <1>2 DEF Card, CardCommand, CardContinues, CardRepeats, CardAcknowledges, CardExtended,
              CardReady, CardAsksAgain, Missed, Hears
<1>4. card'.len = card.len /\ card'.rx = card.rx /\ executed' = executed
  BY <1>3 DEF CardLeaves, TypesOK, Cards
<1> QED  BY <1>1, <1>2, <1>4 DEF OkMeansDone, Command, Chunk

-----------------------------------------------------------------------------
(* The reader's steps.                                                     *)

\* Nothing is claimed once a block has been misread.
LEMMA Misread ==
  ASSUME seen'.misread
  PROVE  ExchangeOK' /\ OkMeansDone'
BY DEF ExchangeOK, OkMeansDone

\* What there is to be shown of a step that sends a block.
LEMMA SentOK ==
  ASSUME ExchangeOK, ~seen.misread, pc' = "wait", air'.to = "card", Len(executed') <= 1,
         ReaderOK', card'.here => AirOK' /\ CardOK' /\ TextOK'
  PROVE  ExchangeOK' /\ OkMeansDone'
BY DEF ExchangeOK, OkMeansDone

\* What the reader takes for a block it has received, unless it misreads.
LEMMA Heard ==
  ASSUME TypesOK, ExchangeOK, NEW o \in Reports, Waited(o), ~seen'.misread
  PROVE  /\ pc = "wait" /\ ~seen.misread /\ ReaderOK /\ Len(executed) <= 1
         /\ card.here => AirOK /\ CardOK /\ TextOK
         /\ Ret(o) = "ok" => o.heard /\ card.here /\ air.to = "pcd" /\ o.rec = air.block
         /\ seen'.resent = (seen.resent \/ (Ret(o) = "ok" /\ OtherNumber(o.rec)))
         /\ seen'.torn = seen.torn
<1>1. pc = "wait" /\ ~seen.misread /\ (Ret(o) = "ok" => o.heard) /\ seen'.torn = seen.torn
        /\ seen'.resent = (seen.resent \/ (Ret(o) = "ok" /\ OtherNumber(o.rec)))
  BY WaitedTypes DEF Waited
<1>2. o.heard => air.to = "pcd" /\ o.rec = air.block
  BY ReportTypes
<1> QED  BY <1>1, <1>2 DEF ExchangeOK

\* What the reader has heard is the card's last block, or its R(ACK) that
\* asks for the block again.
LEMMA HeardBlock ==
  ASSUME TypesOK, AirOK, CardOK, air.to = "pcd"
  PROVE  /\ air.block.kind = "WTX" => Reached
         /\ air.block.kind \in {"I", "ACK"} /\ Reached => card.held = Bad /\ Answer = air.block
         /\ air.block.kind = "I" => Reached /\ ~pcdChain
         /\ air.block.kind = "ACK" /\ air.block.bn # bn => ~Reached /\ ~piccChain
         /\ air.block.kind = "ACK" /\ air.block.bn = bn => Reached
<1>1. CASE Reached
  <2>1. air.block = card.last /\ (card.held # Bad => air.block.kind = "WTX")
    BY <1>1, BlockFields DEF AirOK, CardOK
  <2>2. air.block.kind \in {"I", "ACK"} => card.held = Bad /\ Answer = air.block
    BY <2>1 DEF Answer
  <2>3. IF pcdChain THEN Answer = RBlock("ACK", bn)
                    ELSE Answer = IBlock(card.tx < card.len, bn, <<asked.id, card.tx>>)
    BY <1>1 DEF CardOK
  <2>4. IF pcdChain THEN Answer.kind = "ACK" /\ Answer.bn = bn
                    ELSE Answer.kind = "I"
    BY <2>3, BlockFields
  <2> QED  BY <1>1, <2>2, <2>4
<1>2. CASE ~Reached
  <2>1. ~piccChain /\ air.block = RBlock("ACK", card.bn) /\ air.block.kind = "ACK"
          /\ air.block.bn = card.bn
    BY <1>2, BlockFields DEF AirOK
  <2> QED  BY <1>2, <2>1 DEF Reached
<1> QED  BY <1>1, <1>2

\* An error leaves no card behind.
LEMMA ExFail ==
  ASSUME NEW status, NEW w, Fail(status, w)
  PROVE  ExchangeOK' /\ OkMeansDone'
<1>1. pc' = "off" /\ air' = Silence /\ executed' = <<>> /\ card'.here = FALSE
  BY FreshTypes DEF Fail, Done
<1>2. Len(executed') <= 1
  BY <1>1
<1> QED  BY <1>1, <1>2, BlockFields DEF ExchangeOK, OkMeansDone

\* typeA_data_send_error_check asks again with an R-block of its number.
LEMMA ExAskAgain ==
  ASSUME TypesOK, ExchangeOK, NEW o \in Reports, AskAgain(o), ~seen'.misread
  PROVE  ExchangeOK' /\ OkMeansDone'
<1> DEFINE b == RBlock(IF piccChain THEN "ACK" ELSE "NAK", bn)
<1>1. /\ Waited(o) /\ Ret(o) # "ok" /\ SendWith(b, AfterTrouble(Ret(o)), "rblock")
      /\ UNCHANGED <<asked, pcb, bn, pcdChain, piccChain, got, card, executed>>
  BY DEF AskAgain, GoesOn, cardVars
<1>2. pc' = "wait" /\ air' = ToCard(b)
  BY <1>1 DEF SendWith
<1>3. seen'.resent = seen.resent /\ seen'.torn = seen.torn /\ ~seen.misread
  BY <1>1, Heard, WaitedTypes DEF TypesOK, Histories
<1>4. ReaderOK'
  BY <1>1, <1>3, Heard DEF ReaderOK
<1>5. air'.to = "card" /\ air'.block = b
  BY <1>2 DEF ToCard
<1>6. AirOK'
  BY <1>1, <1>5 DEF AirOK
<1>7. card.here => CardOK' /\ TextOK'
  BY <1>1, <1>3, Heard DEF CardOK, TextOK, Reached, Answer, Clean
<1>8. Len(executed') <= 1
  BY <1>1, Heard
<1> QED  BY <1>1, <1>2, <1>3, <1>4, <1>5, <1>6, <1>7, <1>8, SentOK

\* S(WTX) is granted to a card that has got the block.
LEMMA ExGrantWtx ==
  ASSUME TypesOK, ExchangeOK, NEW o \in Reports, GrantWtx(o), ~seen'.misread
  PROVE  ExchangeOK' /\ OkMeansDone'
<1>1. /\ Waited(o) /\ Ret(o) = "ok" /\ o.rec.kind = "WTX" /\ SendWith(WTX, WtxHeard, "wtx")
      /\ UNCHANGED <<asked, pcb, bn, pcdChain, piccChain, got, card, executed>>
  BY DEF GrantWtx, Received, GoesOn, cardVars
<1>2. pc' = "wait" /\ air'.to = "card" /\ air'.block = WTX
  BY <1>1 DEF SendWith, ToCard
<1>3. seen'.resent = seen.resent /\ seen'.torn = seen.torn /\ ~seen.misread
  BY <1>1, Heard, WaitedTypes DEF TypesOK, Histories, OtherNumber
<1>4. card.here /\ AirOK /\ CardOK /\ TextOK /\ ReaderOK /\ air.to = "pcd" /\ air.block.kind = "WTX"
  BY <1>1, Heard
<1>5. Reached
  BY <1>4, HeardBlock
<1>6. AirOK'
  BY <1>1, <1>2, <1>5 DEF AirOK, Reached
<1>7. ReaderOK' /\ CardOK' /\ TextOK'
  BY <1>1, <1>3, <1>4 DEF ReaderOK, CardOK, TextOK, Reached, Answer, Clean
<1>8. Len(executed') <= 1
  BY <1>1, Heard
<1> QED  BY <1>2, <1>3, <1>6, <1>7, <1>8, SentOK

\* The block is sent again to a card that has not got it.
LEMMA ExRetransmit ==
  ASSUME TypesOK, ExchangeOK, NEW o \in Reports, Retransmit(o), ~seen'.misread
  PROVE  ExchangeOK' /\ OkMeansDone'
<1> DEFINE p == [kind |-> "I", more |-> pcb.more]
           d == IF piccChain THEN NoData ELSE Stale
<1>1. /\ Waited(o) /\ Ret(o) = "ok" /\ OtherNumber(o.rec) /\ SendBlock(p, bn, d, WtxHeard)
      /\ UNCHANGED <<asked, bn, pcdChain, piccChain, got, card, executed>>
  BY DEF Retransmit, Received, GoesOn, cardVars
<1>2. card.here /\ AirOK /\ CardOK /\ TextOK /\ ReaderOK /\ air.to = "pcd" /\ o.rec = air.block
        /\ ~seen.misread /\ Len(executed) <= 1 /\ seen'.resent /\ seen'.torn = seen.torn
  BY <1>1, Heard
<1>3. ~Reached /\ ~piccChain
  BY <1>1, <1>2, HeardBlock DEF OtherNumber
<1>4. pcb.more = pcdChain /\ got = <<>>
  BY <1>2, <1>3 DEF ReaderOK
<1>5. /\ pcb' = p /\ pc' = "wait" /\ air'.to = "card" /\ air'.block = IBlock(pcb.more, bn, d)
  BY <1>1 DEF SendBlock, SendWith, ToCard
<1>6. air'.block.data = d
  BY <1>5, BlockFields
<1> HIDE DEF d
<1>7. AirOK'
  BY <1>1, <1>2, <1>3, <1>4, <1>5, <1>6 DEF AirOK, Reached
<1>8. ReaderOK'
  BY <1>1, <1>2, <1>3, <1>4, <1>5 DEF ReaderOK
<1>9. CardOK' /\ TextOK'
  BY <1>1, <1>2, <1>3 DEF CardOK, TextOK, Reached, Answer, Clean
<1> QED  BY <1>1, <1>2, <1>5, <1>7, <1>8, <1>9, SentOK

\* What SendCommand sends.
LEMMA SentCommand ==
  ASSUME TypesOK, NEW a, NEW n, NEW w, SendCommand(a, n, w)
  PROVE  /\ asked' = a /\ pcdChain' = Chained(a) /\ piccChain' = FALSE
         /\ pcb'.kind = "I" /\ pcb'.more = pcdChain'
         /\ pc' = "wait" /\ air'.to = "card" /\ air'.block = IBlock(pcdChain', n, <<a.id, a.at>>)
BY DEF SendCommand, SendBlock, SendWith, ToCard

\* The next block of the command goes to a card that has got the last one.
LEMMA ExChainOn ==
  ASSUME TypesOK, ChainingOK, ExchangeOK, NEW o \in Reports, ChainOn(o), ~seen'.misread
  PROVE  ExchangeOK' /\ OkMeansDone'
<1> DEFINE a == [asked EXCEPT !.at = @ + 1]
<1>1. /\ Waited(o) /\ Ret(o) = "ok" /\ o.rec.kind = "ACK" /\ o.rec.bn = bn /\ pcdChain
      /\ asked.at < asked.blocks
      /\ SendCommand(a, 1 - bn, WtxHeard) /\ bn' = 1 - bn
      /\ UNCHANGED <<got, card, executed>>
  BY DEF ChainOn, Acknowledged, GoesOn, cardVars
<1>2. card.here /\ AirOK /\ CardOK /\ TextOK /\ ReaderOK /\ air.to = "pcd" /\ o.rec = air.block
        /\ ~seen.misread /\ Len(executed) <= 1
  BY <1>1, Heard
<1>3. /\ Reached /\ card.held = Bad /\ ~piccChain /\ got = <<>>
      /\ asked.level # 16 /\ asked.from = 0
  BY <1>1, <1>2, HeardBlock DEF ReaderOK
<1>4. seen'.resent = seen.resent /\ seen'.torn = seen.torn
  BY <1>1, Heard, WaitedTypes DEF TypesOK, Histories, OtherNumber
<1>5. /\ a.id = asked.id /\ a.at = asked.at + 1 /\ a.at - 1 = asked.at /\ a.at <= a.blocks
      /\ a.blocks = asked.blocks /\ a.level = asked.level /\ a.from = asked.from
  <2>1. asked \in Messages /\ asked.at \in Nat /\ asked.blocks \in Nat
    BY SizesAssumption DEF TypesOK, Messages
  <2>2. /\ a.id = asked.id /\ a.at = asked.at + 1 /\ a.blocks = asked.blocks
        /\ a.level = asked.level /\ a.from = asked.from
    BY <2>1 DEF Messages
  <2> HIDE DEF a
  <2> QED  BY <1>1, <2>1, <2>2
<1> HIDE DEF a
<1>6. /\ asked' = a /\ piccChain' = FALSE /\ pcb'.kind = "I" /\ pcb'.more = pcdChain'
      /\ pc' = "wait" /\ air'.to = "card" /\ air'.block = IBlock(pcdChain', bn', <<a.id, a.at>>)
  BY <1>1, SentCommand
<1>7. air'.block.data = <<a.id, a.at>>
  BY <1>6, BlockFields
<1>8. ~Reached'
  BY <1>1, <1>3 DEF Reached, TypesOK, Bit
<1>9. ReaderOK' /\ AirOK'
  BY <1>1, <1>3, <1>5, <1>6, <1>7, <1>8 DEF ReaderOK, AirOK
<1>10. CardOK'
  BY <1>1, <1>2, <1>3, <1>6, <1>8 DEF CardOK
<1>11. executed = <<>> /\ (Clean => card.rx = First(asked.id, asked.at))
  BY <1>1, <1>2, <1>3 DEF TextOK
<1>12. TextOK'
  BY <1>1, <1>4, <1>5, <1>6, <1>8, <1>11 DEF TextOK, Clean
<1> QED  BY <1>1, <1>2, <1>6, <1>9, <1>10, <1>12, SentOK

\* A message that leaves the command open ends: the card has got its blocks.
LEMMA ExChainStops ==
  ASSUME TypesOK, ChainingOK, ExchangeOK, NEW o \in Reports, ChainStops(o), ~seen'.misread
  PROVE  ExchangeOK' /\ OkMeansDone'
<1>1. /\ Waited(o) /\ Ret(o) = "ok" /\ o.rec.kind = "ACK" /\ o.rec.bn = bn /\ pcdChain
      /\ asked.at = asked.blocks
      /\ pc' = "idle" /\ bn' = 1 - bn /\ piccChain' = FALSE /\ air' = Silence
      /\ UNCHANGED <<asked, got, card, executed>>
  BY DEF ChainStops, Acknowledged, Done, cardVars
<1>2. card.here /\ AirOK /\ CardOK /\ TextOK /\ ReaderOK /\ air.to = "pcd" /\ o.rec = air.block
        /\ ~seen.misread
  BY <1>1, Heard
<1>3. Reached /\ card.held = Bad /\ ~piccChain /\ got = <<>>
  BY <1>1, <1>2, HeardBlock DEF ReaderOK
<1>4. seen'.resent = seen.resent /\ seen'.torn = seen.torn
  BY <1>1, Heard, WaitedTypes DEF TypesOK, Histories, OtherNumber
<1>5. asked.level = 1
  BY <1>1, SizesAssumption DEF ChainingOK, Chained, TypesOK, Messages
<1>6. executed = <<>> /\ (Clean => card.rx = First(asked.id, asked.blocks))
  BY <1>1, <1>2, <1>3 DEF TextOK
<1>7. IdleOK'
  <2>1. ~Reached'
    BY <1>1, <1>3 DEF Reached, TypesOK, Bit
  <2> QED  BY <1>1, <1>2, <1>3, <2>1 DEF IdleOK, CardOK
<1>8. RestOK'
  BY <1>1, <1>2, <1>4, <1>6 DEF RestOK, CardOK, Clean
<1>9. ExchangeOK'
  <2>1. Len(executed') <= 1
    BY <1>1, <1>6
  <2> QED  BY <1>1, <1>2, <1>7, <1>8, <2>1, BlockFields DEF ExchangeOK
<1>10. OkMeansDone'
  <2>1. Command = First(asked.id, asked.blocks) /\ Command' = Command
    BY <1>1, CommandPiece DEF TypesOK, Command, Chunk
  <2>2. got' = [i \in 1..Len(got') |-> Chunk(asked'.from + i)]
    <3>1. got' = <<>> /\ Len(got') = 0
      BY <1>1, <1>3
    <3> QED  BY <3>1
  <2>3. ASSUME ~seen'.resent, ~seen'.torn PROVE card.rx = Command
    BY <1>4, <1>6, <2>1, <2>3 DEF Clean
  <2> QED  BY <1>1, <1>3, <1>5, <1>6, <2>1, <2>2, <2>3 DEF OkMeansDone
<1> QED  BY <1>9, <1>10

\* Where the block count of a message has run below 0, its end was dropped.
LEMMA ExRunsOn ==
  ASSUME TypesOK, ChainingOK, ExchangeOK, NEW o \in Reports, RunsOn(o), ~seen'.misread
  PROVE  ExchangeOK' /\ OkMeansDone'
<1>1. /\ Waited(o) /\ Ret(o) = "ok" /\ o.rec.kind = "ACK" /\ o.rec.bn = bn /\ pcdChain
      /\ asked.at > asked.blocks /\ pc' = "oops"
      /\ UNCHANGED <<air, card, executed>>
  BY DEF RunsOn, Acknowledged, cardVars
<1>2. card.here /\ AirOK /\ CardOK /\ ReaderOK /\ air.to = "pcd" /\ o.rec = air.block
        /\ Len(executed) <= 1 /\ seen'.torn = seen.torn
  BY <1>1, Heard
<1>3. ~card.busy /\ ~piccChain
  BY <1>1, <1>2, HeardBlock DEF ReaderOK, CardOK
<1>4. seen.torn
  BY <1>1, <1>2, <1>3, SizesAssumption DEF ReaderOK, TypesOK, Messages
<1> QED  BY <1>1, <1>2, <1>3, <1>4 DEF ExchangeOK, OkMeansDone

\* A message begins with a number the card does not have.
LEMMA ExSends ==
  ASSUME TypesOK, ChainingOK, ExchangeOK, ~seen'.misread, pc = "idle",
         NEW level \in 0..3, NEW n \in 1..MaxCmd, NEW part \in BOOLEAN,
         SendsMessage(level, n, part), got' = <<>>, UNCHANGED <<bn, card>>
  PROVE  ExchangeOK' /\ OkMeansDone'
<1> DEFINE goesOn == level \in {2, 3} /\ card.rx # <<>>
           open   == level \in {1, 3}
           before == IF goesOn THEN asked.blocks ELSE 0
           a      == [id     |-> IF goesOn THEN asked.id ELSE 1 - asked.id,
                      level  |-> IF open THEN 1 ELSE 0,
                      at     |-> before + 1,
                      blocks |-> before + (IF open /\ part THEN n - 1 ELSE n),
                      from   |-> 0]
<1>1. SendCommand(a, bn, wtx) /\ executed' = <<>>
  BY DEF SendsMessage
<1>2. /\ seen'.misread = seen.misread
      /\ seen'.resent = (goesOn /\ seen.resent)
      /\ seen'.torn = ((open /\ part) \/ (IF goesOn THEN seen.torn ELSE card.rx # <<>>))
  BY DEF SendsMessage, TypesOK, Histories
<1>3. /\ a.at - 1 = before /\ a.level # 16 /\ a.from = 0
      /\ a.at <= a.blocks \/ seen'.torn
  <2>1. before \in Nat /\ n \in Nat /\ n >= 1
    BY SizesAssumption DEF TypesOK, Messages
  <2>2. CASE open /\ part
    <3>1. seen'.torn
      BY <1>2, <2>2
    <3>2. a.at - 1 = before
      BY <2>1
    <3> QED  BY <3>1, <3>2
  <2>3. CASE ~(open /\ part)
    <3>1. a.blocks = before + n
      BY <2>3
    <3> HIDE DEF before
    <3> QED  BY <2>1, <3>1
  <2> QED  BY <2>1, <2>2, <2>3
<1>4. RestOK /\ ~seen.misread
  BY <1>2 DEF ExchangeOK
<1>5. Clean' => card.rx = First(a.id, before)
  <2>1. CASE goesOn
    <3>1. a.id = asked.id /\ before = asked.blocks /\ card.rx # <<>>
      BY <2>1
    <3>2. Clean' => Clean
      BY <1>2, <2>1 DEF Clean
    <3> HIDE DEF a, before, goesOn
    <3> QED  BY <1>4, <3>1, <3>2 DEF RestOK
  <2>2. CASE ~goesOn
    <3>1. before = 0 /\ (Clean' => card.rx = <<>>)
      BY <1>2, <2>2 DEF Clean
    <3> HIDE DEF a, before, goesOn
    <3> QED  BY <3>1, FirstEmpty
  <2> QED  BY <2>1, <2>2
<1> HIDE DEF a, before, goesOn, open
<1>6. /\ asked' = a /\ piccChain' = FALSE /\ pcb'.kind = "I" /\ pcb'.more = pcdChain'
      /\ pc' = "wait" /\ air'.to = "card" /\ air'.block = IBlock(pcdChain', bn, <<a.id, a.at>>)
  BY <1>1, SentCommand
<1>7. air'.block.data = <<a.id, a.at>>
  BY <1>6, BlockFields
<1>8. card.here => ~Reached /\ ~card.busy /\ card.held = Bad /\ card.last # WTX
  BY <1>4 DEF ExchangeOK, IdleOK
<1>9. ReaderOK'
  BY <1>3, <1>6 DEF ReaderOK
<1>10. card'.here => AirOK'
  BY <1>6, <1>7, <1>8 DEF AirOK, Reached
<1>11. card'.here => CardOK'
  BY <1>4, <1>6, <1>8 DEF CardOK, RestOK, Reached
<1>12. card'.here => TextOK'
  BY <1>1, <1>3, <1>5, <1>6, <1>8 DEF TextOK, Reached
<1>13. Len(executed') <= 1
  BY <1>1
<1> QED  BY <1>4, <1>6, <1>9, <1>10, <1>11, <1>12, <1>13, SentOK

\* More of a response is asked for with the number the card does not have; or
\* there is no more.
LEMMA ExFetches ==
  ASSUME TypesOK, ChainingOK, ExchangeOK, ~seen'.misread, pc = "idle",
         FetchesMore, got' = <<>>, UNCHANGED <<bn, card>>
  PROVE  ExchangeOK' /\ OkMeansDone'
<1>1. /\ asked' = [asked EXCEPT !.level = 16, !.from = card.tx]
      /\ seen'.misread = seen.misread /\ seen'.resent = seen.resent /\ seen'.torn = seen.torn
      /\ UNCHANGED <<pcdChain, piccChain>>
  BY DEF FetchesMore, TypesOK, Histories
<1>2. ~seen.misread /\ executed' = executed /\ RestOK /\ ~pcdChain /\ Len(executed) <= 1
  BY <1>1 DEF FetchesMore, ExchangeOK, ChainingOK
<1>3. /\ asked'.id = asked.id /\ asked'.blocks = asked.blocks /\ asked'.level = 16
      /\ asked'.from = card.tx /\ card.tx \in Nat /\ card.len \in Nat
  BY <1>1, SizesAssumption DEF TypesOK, Messages, Cards
<1>4. card.here => ~Reached /\ ~card.busy /\ card.held = Bad /\ card.last # WTX
  BY <1>2 DEF ExchangeOK, IdleOK
<1>5. CASE piccChain /\ SendBlock([kind |-> "ACK", more |-> FALSE], bn, NoData, wtx)
  <2>1. /\ pcb' = [kind |-> "ACK", more |-> FALSE] /\ pc' = "wait" /\ air'.to = "card"
        /\ air'.block = RBlock("ACK", bn)
    BY <1>5 DEF SendBlock, SendWith, ToCard
  <2>2. ReaderOK'
    BY <1>1, <1>2, <1>3, <1>5, <2>1 DEF ReaderOK
  <2>3. AirOK'
    BY <1>1, <1>5, <2>1 DEF AirOK
  <2>4. card'.here => CardOK'
    <3>1. card.tx \in card.tx..card.len /\ card.tx <= card.len /\ card.tx - card.tx = 0
      BY <1>2, <1>3 DEF RestOK
    <3>2. got' = Piece(asked'.id, card.tx, card.tx - card.tx)
      BY <3>1, PieceEmpty
    <3> QED  BY <1>1, <1>2, <1>3, <1>4, <1>5, <3>1, <3>2 DEF CardOK, Reached
  <2>5. card'.here => TextOK'
    BY <1>1, <1>2, <1>3, <1>4, <1>5 DEF TextOK, RestOK, Reached, Clean
  <2> QED  BY <1>2, <2>1, <2>2, <2>3, <2>4, <2>5, SentOK
<1>6. CASE ~piccChain /\ Done("ok", 2) /\ pc' = pc
  <2>1. result' = [status |-> "ok", level |-> 2] /\ air' = Silence
    BY <1>6 DEF Done
  <2>2. RestOK' /\ (card.here => IdleOK')
    BY <1>1, <1>2, <1>3, <1>4 DEF RestOK, IdleOK, Reached, Clean
  <2>3. ExchangeOK'
    BY <1>2, <1>6, <2>1, <2>2, BlockFields DEF ExchangeOK
  <2>4. Command' = First(asked.id, asked.blocks)
    <3>1. Command' = Command
      BY <1>3 DEF Command, Chunk
    <3> QED  BY <3>1, CommandPiece DEF TypesOK
  <2>5. ASSUME ~seen'.resent, ~seen'.torn PROVE executed' \in {<<>>, <<Command'>>}
    BY <1>1, <1>2, <2>4, <2>5 DEF RestOK, Clean
  <2>6. got' = [i \in 1..Len(got') |-> Chunk(asked'.from + i)] /\ Len(got') = 0
    OBVIOUS
  <2>7. executed' # <<>> => asked'.from + Len(got') = card'.len
    BY <1>2, <1>3, <1>6, <2>6 DEF RestOK
  <2>8. OkMeansDone'
    <3>1. /\ asked'.level = 16 /\ result'.level = 2
          /\ got' = [i \in 1..Len(got') |-> Chunk(asked'.from + i)]
      BY <1>3, <2>1, <2>6
    <3> QED  BY <2>5, <2>7, <3>1 DEF OkMeansDone
  <2> QED  BY <2>3, <2>8
<1> QED  BY <1>5, <1>6 DEF FetchesMore

\* An APDU begins, goes on, or is asked for more.
LEMMA ExHandler ==
  ASSUME TypesOK, ChainingOK, ExchangeOK, typeA_standard_apdu_handler, ~seen'.misread
  PROVE  ExchangeOK' /\ OkMeansDone'
<1>1. pc = "idle" /\ got' = <<>> /\ UNCHANGED <<bn, card>>
  BY DEF typeA_standard_apdu_handler
<1>2. CASE FetchesMore
  BY <1>1, <1>2, ExFetches
<1>3. CASE \E level \in 0..3, n \in 1..MaxCmd, part \in BOOLEAN : SendsMessage(level, n, part)
  BY <1>1, <1>3, ExSends
<1> QED  BY <1>2, <1>3 DEF typeA_standard_apdu_handler

\* The chunk collected is the next one of the response; the last one makes it
\* whole, and the threshold cuts it.
LEMMA ExCollect ==
  ASSUME TypesOK, ChainingOK, ExchangeOK, NEW o \in Reports, Collect(o), ~seen'.misread
  PROVE  ExchangeOK' /\ OkMeansDone'
<1> DEFINE data   == Append(got, o.rec.data)
           tooBig == TooBig(data)
           had    == card.tx - asked.from
<1>1. /\ Waited(o) /\ Ret(o) = "ok" /\ o.rec.kind = "I" /\ o.rec.bn = bn /\ ~pcdChain
      /\ bn' = 1 - bn /\ piccChain' = o.rec.more
      /\ got' = (IF tooBig THEN SubSeq(data, 1, Threshold) ELSE data)
      /\ UNCHANGED <<asked, pcdChain, card, executed>>
  BY DEF Collect, Expected, GoesOn, cardVars
<1>2. card.here /\ AirOK /\ CardOK /\ TextOK /\ ReaderOK /\ air.to = "pcd" /\ o.rec = air.block
        /\ ~seen.misread /\ Len(executed) <= 1 /\ pc = "wait"
  BY <1>1, Heard
<1>3. Reached /\ card.held = Bad /\ Answer = air.block
  BY <1>1, <1>2, HeardBlock
<1>4. /\ air.block = IBlock(card.tx < card.len, bn, <<asked.id, card.tx>>)
      /\ card.tx \in asked.from + 1..card.len
      /\ got = Piece(asked.id, asked.from, card.tx - 1 - asked.from)
      /\ card.last # WTX /\ ~card.busy
  BY <1>1, <1>2, <1>3 DEF CardOK
<1>5. o.rec.more = (card.tx < card.len) /\ o.rec.data = <<asked.id, card.tx>>
  BY <1>2, <1>4, BlockFields
<1>6. /\ card.tx \in Nat \ {0} /\ card.len \in Nat /\ card.tx <= card.len
      /\ asked.id \in Bit /\ asked.from \in Nat /\ asked.level \in {0, 16}
      /\ had \in Nat \ {0} /\ asked.from + had = card.tx /\ card.tx - 1 - asked.from = had - 1
  <2>1. asked.level # 1
    BY <1>1, <1>2 DEF ReaderOK, ChainingOK, Chained
  <2>2. /\ asked.id \in Bit /\ asked.from \in Nat /\ asked.level \in {0, 1, 16}
        /\ card.tx \in Nat /\ card.len \in Nat
    BY SizesAssumption DEF TypesOK, Messages, Cards
  <2> QED  BY <1>4, <2>1, <2>2
<1>7. data = Piece(asked.id, asked.from, had)
  <2> HIDE DEF had
  <2>1. had - 1 \in Nat /\ (had - 1) + 1 = had
    BY <1>6
  <2>2. Append(Piece(asked.id, asked.from, had - 1), <<asked.id, asked.from + ((had - 1) + 1)>>)
          = Piece(asked.id, asked.from, (had - 1) + 1)
    BY <1>6, <2>1, PieceNext
  <2>3. got = Piece(asked.id, asked.from, had - 1) /\ o.rec.data = <<asked.id, asked.from + had>>
    BY <1>4, <1>5, <1>6
  <2> QED  BY <2>1, <2>2, <2>3
<1>8. card.rx = <<>> /\ executed # <<>> /\ (Clean => executed = <<First(asked.id, asked.blocks)>>)
  BY <1>1, <1>2, <1>3 DEF TextOK
<1>9. seen'.resent = seen.resent /\ seen'.torn = seen.torn
  BY <1>1, Heard, WaitedTypes DEF TypesOK, Histories, OtherNumber
<1>10. ~Reached'
  BY <1>1, <1>3 DEF Reached, TypesOK, Bit
<1>11. CASE /\ o.rec.more /\ ~tooBig /\ pcb' = [kind |-> "ACK", more |-> FALSE]
            /\ SendBlock([kind |-> "ACK", more |-> FALSE], 1 - bn, NoData, WtxHeard)
  <2>1. /\ pc' = "wait" /\ air'.to = "card" /\ air'.block = RBlock("ACK", bn')
    BY <1>1, <1>11 DEF SendBlock, SendWith, ToCard
  <2>2. piccChain' /\ got' = Piece(asked.id, asked.from, had) /\ pcb'.kind = "ACK"
    BY <1>1, <1>7, <1>11
  <2>3. ReaderOK' /\ AirOK'
    BY <1>1, <1>6, <2>1, <2>2 DEF ReaderOK, AirOK
  <2>4. CardOK'
    <3>1. card.tx \in asked.from..card.len
      BY <1>6
    <3> QED  BY <1>1, <1>3, <1>4, <1>6, <1>10, <2>2, <3>1 DEF CardOK
  <2>5. TextOK'
    BY <1>1, <1>8, <1>9, <2>2 DEF TextOK, Clean
  <2> QED  BY <1>1, <1>2, <2>1, <2>3, <2>4, <2>5, SentOK
<1>12. CASE /\ ~o.rec.more \/ tooBig
            /\ pc' = "idle" /\ air' = Silence
            /\ result' = [status |-> "ok", level |-> LevelAfter(tooBig)]
  <2>1. IdleOK' /\ RestOK'
    <3>1. IdleOK'
      BY <1>1, <1>3, <1>4, <1>10 DEF IdleOK
    <3>2. RestOK'
      BY <1>1, <1>5, <1>6, <1>8, <1>9 DEF RestOK, Clean
    <3> QED  BY <3>1, <3>2
  <2>2. ExchangeOK'
    BY <1>1, <1>2, <1>12, <2>1, BlockFields DEF ExchangeOK
  <2>3. Command' = First(asked.id, asked.blocks)
    <3>1. Command' = Command
      BY <1>1 DEF Command, Chunk
    <3> QED  BY <3>1, CommandPiece DEF TypesOK
  <2>4. ASSUME ~seen'.resent, ~seen'.torn PROVE executed' = <<Command'>>
    BY <1>1, <1>8, <1>9, <2>3, <2>4 DEF Clean
  <2>5. /\ got' = Piece(asked.id, asked.from, Len(got'))
        /\ IF tooBig THEN Len(got') = Threshold /\ asked.from + Threshold < card.len
                     ELSE asked.from + Len(got') = card.len
    <3>1. Len(Piece(asked.id, asked.from, had)) = had
      BY <1>6, PieceLemma
    <3>2. CASE tooBig
      <4>1. Len(data) > Threshold /\ got' = SubSeq(data, 1, Threshold)
        BY <1>1, <3>2 DEF TooBig
      <4>2. Threshold \in 1..had /\ Threshold < had
        <5> HIDE DEF data, had
        <5> QED  BY <1>6, <1>7, <3>1, <4>1, SizesAssumption
      <4>3. got' = Piece(asked.id, asked.from, Threshold)
        <5>1. got' = SubSeq(Piece(asked.id, asked.from, had), 1, Threshold)
          BY <1>7, <4>1
        <5> HIDE DEF data, had
        <5>2. had \in Nat
          BY <1>6
        <5> QED  BY <1>6, <4>2, <5>1, <5>2, PieceCut
      <4>4. Len(got') = Threshold
        BY <1>6, <4>3, PieceLemma, SizesAssumption
      <4>5. asked.from + Threshold < card.len
        <5> HIDE DEF had
        <5> QED  BY <1>6, <4>2, SizesAssumption
      <4> QED  BY <3>2, <4>3, <4>4, <4>5
    <3>3. CASE ~tooBig
      <4>1. got' = Piece(asked.id, asked.from, had)
        BY <1>1, <1>7, <3>3
      <4>2. card.tx = card.len
        <5> HIDE DEF data, tooBig, had
        <5>1. ~(card.tx < card.len)
          BY <1>5, <1>12, <3>3
        <5> QED  BY <1>6, <5>1
      <4> HIDE DEF data, had
      <4> QED  BY <1>6, <3>1, <3>3, <4>1, <4>2
    <3> QED  BY <3>2, <3>3
  <2>6. got' = [i \in 1..Len(got) |-> Chunk(asked.from + i)]'
    <3>1. [i \in 1..Len(got) |-> Chunk(asked.from + i)]'
            = Piece(asked.id, asked.from, Len(got'))
      BY <1>1 DEF Chunk, Piece
    <3> QED  BY <2>5, <3>1
  <2>7. IF result'.level \in {0, 2}
        THEN asked.from + Len(got') = card.len
        ELSE Len(got') = Threshold /\ asked.from + Len(got') < card.len
    <3> HIDE DEF data, tooBig, had
    <3>1. CASE tooBig
      <4>1. result'.level \in {1, 3}
        BY <1>12, <3>1 DEF LevelAfter
      <4> QED  BY <2>5, <3>1, <4>1
    <3>2. CASE ~tooBig
      <4>1. result'.level \in {0, 2}
        BY <1>12, <3>2 DEF LevelAfter
      <4> QED  BY <2>5, <3>2, <4>1
    <3> QED  BY <3>1, <3>2
  <2>8. /\ asked'.level \in {0, 16} /\ asked'.from = asked.from /\ card'.len = card.len
        /\ executed' = executed
    BY <1>1, <1>6
  <2> HIDE DEF data, tooBig, had
  <2>9. OkMeansDone'
    <3> SUFFICES ASSUME ~seen'.resent, ~seen'.torn PROVE OkMeansDone'
      BY DEF OkMeansDone
    <3>1. executed' = <<Command'>>
      BY <2>4
    <3> QED  BY <2>6, <2>7, <2>8, <3>1 DEF OkMeansDone
  <2> QED  BY <2>2, <2>9
<1> QED  BY <1>11, <1>12 DEF Collect, Done, SendBlock

\* typeA_select_ finds the card or does not; typeA_request_ats starts both
\* sides with different numbers.
LEMMA ExBetween ==
  ASSUME TypesOK, ExchangeOK, OkMeansDone, ~seen'.misread, typeA_select_ \/ typeA_request_ats
  PROVE  ExchangeOK' /\ OkMeansDone'
<1>1. CASE typeA_select_
  <2>1. /\ pc = "idle" /\ pc' = (IF card.here /\ ~card.busy THEN "idle" ELSE "off")
        /\ UNCHANGED <<asked, bn, got, result, air, card, executed, seen>>
    BY <1>1 DEF typeA_select_, cardVars
  <2>2. (card.here => ~card.busy /\ IdleOK /\ IdleOK') /\ RestOK'
    BY <1>1, <2>1 DEF typeA_select_, ExchangeOK, IdleOK, RestOK, Reached, Clean
  <2>3. ExchangeOK'
    BY <2>1, <2>2 DEF ExchangeOK
  <2>4. OkMeansDone'
    BY <2>1 DEF OkMeansDone, Command, Chunk
  <2> QED  BY <2>3, <2>4
<1>2. CASE typeA_request_ats
  <2>1. /\ pc' = "idle" /\ bn' = 0 /\ card' = Fresh /\ air' = Silence /\ result' = NoResult
        /\ executed' = <<>>
    BY <1>2 DEF typeA_request_ats
  <2>2. IdleOK' /\ RestOK'
    <3>1. IdleOK'
      BY <2>1, BlockFields DEF IdleOK, Reached, Fresh
    <3>2. card'.rx = <<>> /\ card'.tx = 0 /\ card'.len = 0
      BY <2>1 DEF Fresh
    <3>3. RestOK'
      BY <2>1, <3>2 DEF RestOK
    <3> QED  BY <3>1, <3>3
  <2>3. Len(executed') <= 1 /\ card'.here
    BY <2>1 DEF Fresh
  <2>4. result'.status # "ok"
    BY <2>1 DEF NoResult
  <2> QED  BY <2>1, <2>2, <2>3, <2>4, BlockFields DEF ExchangeOK, OkMeansDone
<1> QED  BY <1>1, <1>2

\* The steps of the handler; none of them runs off its buffer.
LEMMA ExProcess ==
  ASSUME TypesOK, ChainingOK, ExchangeOK, NEW o \in Reports, ~seen'.misread,
         \/ AskAgain(o) \/ GiveUp(o) \/ GrantWtx(o) \/ Retransmit(o)
         \/ ChainOn(o) \/ ChainStops(o) \/ RunsOn(o)
         \/ Collect(o) \/ Overrun(o) \/ Refuse(o)
  PROVE  ExchangeOK' /\ OkMeansDone'
<1>1. CASE GiveUp(o) \/ Refuse(o)
  <2>1. \E status, w : Fail(status, w)
    BY <1>1 DEF GiveUp, Refuse
  <2> QED  BY <2>1, ExFail
<1>2. ~Overrun(o)
  <2> SUFFICES ASSUME Overrun(o) PROVE FALSE
    OBVIOUS
  <2> QED  BY Heard DEF Overrun, Empty
<1> QED  BY <1>1, <1>2, ExAskAgain, ExGrantWtx, ExRetransmit, ExChainOn, ExChainStops, ExRunsOn,
            ExCollect

-----------------------------------------------------------------------------
(* The theorems.                                                           *)

\* The invariant holds at first.
LEMMA InitInv == Init => IInv
<1> SUFFICES ASSUME Init PROVE IInv
  OBVIOUS
<1>1. TypeOK /\ ChainingOK
  BY TypesInit, SameTypes
<1>2. pc = "off" /\ executed = <<>> /\ air = Silence /\ ~card.here
  BY FreshTypes DEF Init
<1>3. Len(executed) <= 1
  BY <1>2
<1> QED  BY <1>1, <1>2, <1>3, BlockFields DEF IInv, ExchangeOK, OkMeansDone

\* Every step keeps the invariant.
LEMMA NextInv == IInv /\ [Next]_vars => IInv'
<1> SUFFICES ASSUME IInv, [Next]_vars PROVE IInv'
  OBVIOUS
<1>1. TypesOK /\ ChainingOK /\ ExchangeOK /\ OkMeansDone
  BY SameTypes DEF IInv
<1>2. TypeOK' /\ ChainingOK'
  <2>1. TypesOK' /\ ChainingOK'
    BY <1>1, TypesNext
  <2> QED  BY <2>1, SameTypes, PTL
<1>3. ExchangeOK' /\ OkMeansDone'
  <2> SUFFICES ASSUME ~seen'.misread PROVE ExchangeOK' /\ OkMeansDone'
    BY Misread
  <2>1. CASE typeA_standard_apdu_handler
    BY <1>1, <2>1, ExHandler
  <2>2. CASE Process
    BY <1>1, <2>2, ExProcess DEF Process
  <2>3. CASE typeA_select_ \/ typeA_request_ats
    BY <1>1, <2>3, ExBetween
  <2>4. CASE Card \/ CardLeaves
    <3>1. ~seen.misread
      BY <1>1, <2>4, CardTypes
    <3> QED  BY <1>1, <2>4, <3>1, DoneCard, ExCardCommand, ExCardContinues, ExCardOthers, ExLost
             DEF Card
  <2>5. CASE UNCHANGED vars
    BY <1>1, <2>5
       DEF vars, pcdVars, cardVars, ExchangeOK, OkMeansDone, IdleOK, RestOK, ReaderOK, AirOK,
           CardOK, TextOK, Clean, Reached, Answer, Command, Chunk
  <2> QED  BY <2>1, <2>2, <2>3, <2>4, <2>5 DEF Next
<1> QED  BY <1>2, <1>3 DEF IInv

\* Whatever the frames that get lost, the invariant holds.
THEOREM Invariance == Spec => []IInv
BY InitInv, NextInv, PTL DEF Spec

\* The counters of the handler stay within their limits, and what it keeps has
\* its type.
THEOREM TypeCorrect == Spec => []TypeOK
<1>1. IInv => TypeOK
  BY DEF IInv
<1> QED  BY <1>1, Invariance, PTL

\* The block numbers of reader and card differ between two APDUs, whatever got
\* lost meanwhile (iso14444.c: PCD_BLOCK_NUMBER is toggled for every block that
\* is acknowledged, and for no other).
THEOREM InStep == Spec => []NumbersInStep
<1>1. IInv => NumbersInStep
  BY DEF IInv, ExchangeOK, IdleOK, Reached, NumbersInStep
<1> QED  BY <1>1, Invariance, PTL

\* The card executes the command of an APDU at most once, however often the
\* handler asks for a block or sends one again.
THEOREM ExecutedOnce == Spec => []AtMostOnce
<1>1. IInv => AtMostOnce
  BY DEF IInv, ExchangeOK, AtMostOnce
<1> QED  BY <1>1, Invariance, PTL

\* A message that has succeeded has done what it was to: the card holds the
\* blocks of a command left open, and has executed the whole of one that was
\* ended; what the host has is the response, or goes on in it, to its end or to
\* the threshold as *level says (iso14444.c: typeA_standard_apdu_handler).
\* Commands the handler has torn, or has put together with a resent block, and
\* misread blocks are excepted.
THEOREM SuccessIsTrue == Spec => []OkMeansDone
<1>1. IInv => OkMeansDone
  BY DEF IInv
<1> QED  BY <1>1, Invariance, PTL

-----------------------------------------------------------------------------
(* What an APDU fails for.                                                 *)

\* The card asks for time exactly when it holds its answer back.
LEMMA AnswersCounts ==
  ASSUME faults \in Faults, NEW c \in Cards, NEW b \in Blocks, b # Bad, c.held = Bad, Answers(c, b)
  PROVE  /\ faults'.lost = faults.lost
         /\ card'.held = Bad => faults'.wtx = faults.wtx
         /\ card'.held # Bad => faults'.wtx = faults.wtx + 1
<1>1. CASE card' = [c EXCEPT !.last = WTX, !.held = b] /\ faults' = [faults EXCEPT !.wtx = @ + 1]
  BY <1>1 DEF Cards, Faults
<1>2. CASE card' = [c EXCEPT !.last = b] /\ faults' = faults
  BY <1>2 DEF Cards
<1> QED  BY <1>1, <1>2 DEF Answers

\* A block sent for the first time is on its way to a card that has not got it.
LEMMA QuietSends ==
  ASSUME tries' = NoTries, from' = "block", air'.to = "card", air'.block # WTX, ~Reached',
         piccChain' \/ air'.block.kind = "I"
  PROVE  QuietOK'
BY DEF QuietOK, Unreached, NoTries

\* The card's steps keep the account: an answer that is held back is due.
LEMMA QuietCard ==
  ASSUME TypesOK, ChainingOK, ExchangeOK, Quiet, Card \/ CardLeaves
  PROVE  Quiet'
<1> SUFFICES ASSUME pc' = "wait", ~seen'.misread, card'.here, faults'.lost = 0
             PROVE  QuietOK'
  BY DEF Quiet
<1>1. UNCHANGED <<pc, asked, bn, pcdChain, piccChain, from, tries, seen>>
  BY CardTypes DEF pcdVars
<1>2. pc = "wait" /\ ~seen.misread
  BY <1>1
<1>3. /\ card \in Cards /\ faults \in Faults /\ faults.lost \in Nat /\ faults.wtx \in Nat
      /\ bn \in Bit /\ asked.id \in Bit /\ tries \in Counts
  BY FaultsAssumption DEF TypesOK, Faults, Messages
<1>4. card.here /\ ~CardLeaves
  BY DEF Card, CardCommand, CardContinues, CardRepeats, CardAcknowledges, CardExtended, CardReady,
         CardAsksAgain, Missed, CardLeaves, Hears, TypesOK, Cards, cardVars
<1>5. ReaderOK /\ AirOK /\ CardOK
  BY <1>2, <1>4 DEF ExchangeOK
<1> DEFINE Still == faults.lost = 0 => QuietOK
<1>6. Still
  BY <1>2, <1>4 DEF Quiet
<1> HIDE DEF Still
<1>7. CASE CardCommand \/ CardContinues
  <2>1. /\ air.to = "card" /\ ~card.busy
        /\ air.block.kind = "I" \/ (air.block.kind = "ACK" /\ air.block.bn # card.bn)
    BY <1>7 DEF CardCommand, CardContinues, Hears
  <2>2. ~Reached /\ card.held = Bad
    <3>1. ~Reached
      BY <1>5, <2>1, BlockFields DEF AirOK, Reached
    <3> QED  BY <1>5, <3>1 DEF CardOK
  <2>3. CASE card' = card /\ air' = Silence /\ faults' = faults /\ card.tx >= card.len /\ CardContinues
    <3>1. piccChain
      BY <1>5, <2>1, <2>2, <2>3, BlockFields DEF AirOK, CardContinues, Reached
    <3>2. QuietOK
      BY <1>6, <2>3 DEF Still
    <3>3. ~Reached'
      BY <1>1, <2>2, <2>3 DEF Reached
    <3> QED  BY <1>1, <2>2, <2>3, <3>1, <3>2, <3>3, BlockFields DEF QuietOK, Unreached
  <2>4. ASSUME NEW c \in Cards, NEW b \in Blocks, b.kind \in {"I", "ACK"}, c.held = Bad, ~c.busy,
               c.bn = bn, Answers(c, b), faults.lost = 0 => tries = NoTries
        PROVE  QuietOK'
    <3>1. b # Bad
      BY <2>4, BlockFields
    <3>2. /\ faults'.lost = faults.lost
          /\ card'.held = Bad => faults'.wtx = faults.wtx
          /\ card'.held # Bad => faults'.wtx = faults.wtx + 1
      BY <1>3, <2>4, <3>1, AnswersCounts
    <3>3. card'.bn = c.bn /\ card'.busy = FALSE /\ air'.to = "pcd"
      BY <2>4, AnswersGives
    <3>4. Reached'
      BY <1>1, <2>4, <3>3 DEF Reached
    <3>5. tries' = NoTries
      BY <1>1, <2>4, <3>2
    <3>6. tries'.timeout + Due' <= faults'.wtx /\ tries'.ack + Due' <= faults'.wtx
      BY <1>3, <3>2, <3>5 DEF Due, NoTries
    <3> QED  BY <3>3, <3>4, <3>5, <3>6 DEF QuietOK, NoTries
  <2>5. CASE CardCommand
    <3>1. faults.lost = 0 => tries = NoTries
      <4>0. \A k : k \in {"ACK", "NAK"} => RBlock(k, bn).kind # "I"
        BY BlockFields
      <4>1. ~piccChain
        BY <1>5, <2>1, <2>5, <4>0, BlockFields DEF CardCommand, AirOK
      <4> QED  BY <1>6, <2>2, <4>1 DEF Still, QuietOK, Unreached
    <3> DEFINE n  == 1 - card.bn
               rx == IF air.block.data = NoData THEN card.rx ELSE Append(card.rx, air.block.data)
    <3>2. n = bn /\ rx \in Seq(Chunks)
      <4>1. card.rx \in Seq(Chunks) /\ air.block.data \in Chunks /\ card.bn \in Bit
        BY DEF TypesOK, Cards, Frames, Blocks
      <4>2. n = bn
        BY <1>3, <2>2, <4>1 DEF Reached, Bit
      <4> QED  BY <4>1, <4>2, AppendProperties
    <3> HIDE DEF n, rx
    <3>3. CASE Answers([card EXCEPT !.bn = n, !.rx = rx], RBlock("ACK", n))
      <4>1. /\ [card EXCEPT !.bn = n, !.rx = rx] \in Cards
            /\ [card EXCEPT !.bn = n, !.rx = rx].held = Bad
            /\ ~[card EXCEPT !.bn = n, !.rx = rx].busy
            /\ [card EXCEPT !.bn = n, !.rx = rx].bn = bn
        BY <1>3, <2>1, <2>2, <3>2 DEF Cards
      <4>2. RBlock("ACK", n) \in Blocks /\ RBlock("ACK", n).kind = "ACK"
        BY <1>3, <3>2, BlockTypes, BlockFields
      <4> QED  BY <2>4, <3>1, <3>3, <4>1, <4>2
    <3>4. ASSUME NEW l \in 1..MaxRsp,
                 Answers([card EXCEPT !.bn = n, !.rx = <<>>, !.len = l, !.tx = 1],
                         IBlock(l > 1, n, Chunk(1)))
          PROVE  QuietOK'
      <4> DEFINE c == [card EXCEPT !.bn = n, !.rx = <<>>, !.len = l, !.tx = 1]
      <4>1. c \in Cards /\ c.held = Bad /\ ~c.busy /\ c.bn = bn
        <5>1. l \in 0..MaxRsp /\ 1 \in 0..MaxRsp
          BY SizesAssumption
        <5> QED  BY <1>3, <2>1, <2>2, <3>2, <5>1, EmptySeq DEF Cards
      <4>2. IBlock(l > 1, n, Chunk(1)) \in Blocks /\ IBlock(l > 1, n, Chunk(1)).kind = "I"
        <5> DEFINE m == l > 1
        <5>1. Chunk(1) \in Chunks /\ m \in BOOLEAN
          BY <1>3 DEF Chunk, Chunks
        <5> HIDE DEF m
        <5>2. IBlock(m, n, Chunk(1)) \in Blocks /\ IBlock(m, n, Chunk(1)).kind = "I"
          BY <1>3, <3>2, <5>1, BlockTypes, BlockFields
        <5> QED  BY <5>2 DEF m
      <4> HIDE DEF c
      <4>3. Answers(c, IBlock(l > 1, n, Chunk(1)))
        BY <3>4 DEF c
      <4> QED  BY <2>4, <3>1, <4>1, <4>2, <4>3
    <3> QED  BY <2>5, <3>3, <3>4 DEF CardCommand, n, rx
  <2>6. CASE CardContinues /\ card.tx < card.len
    <3> DEFINE c == [card EXCEPT !.bn = 1 - @, !.tx = @ + 1]
               b == IBlock(card.tx + 1 < card.len, 1 - card.bn, Chunk(card.tx + 1))
    <3>1. Answers(c, b)
      BY <1>3, <2>6 DEF CardContinues, Cards
    <3>2. faults.lost = 0 => tries = NoTries
      BY <1>3, <1>6, <2>2, <2>6 DEF Still, QuietOK, Unreached, Cards
    <3>3. c \in Cards /\ c.held = Bad /\ ~c.busy /\ c.bn = bn
      <4>1. card.tx + 1 \in 0..MaxRsp /\ 1 - card.bn = bn
        BY <1>3, <2>2, <2>6, SizesAssumption DEF Reached, Cards, Bit
      <4> QED  BY <1>3, <2>1, <2>2, <4>1 DEF Cards
    <3>4. b \in Blocks /\ b.kind = "I"
      <4>1. Chunk(card.tx + 1) \in Chunks /\ 1 - card.bn \in Bit
        BY <1>3, SizesAssumption DEF Chunk, Chunks, Cards, Bit
      <4> DEFINE m == card.tx + 1 < card.len
                 n == 1 - card.bn
      <4>2. m \in BOOLEAN /\ n \in Bit /\ b = IBlock(m, n, Chunk(card.tx + 1))
        BY <4>1
      <4> HIDE DEF m, n, b
      <4> QED  BY <4>1, <4>2, BlockTypes, BlockFields
    <3> HIDE DEF c, b
    <3> QED  BY <2>4, <3>1, <3>2, <3>3, <3>4
  <2>7. CASE CardContinues /\ ~(card.tx < card.len)
    BY <1>3, <2>3, <2>7 DEF CardContinues, Cards
  <2> QED  BY <1>7, <2>5, <2>6, <2>7
<1>8. CASE CardRepeats
  <2>1. /\ air.to = "card" /\ ~card.busy /\ card' = card /\ faults' = faults
        /\ air' = (IF card.last = Bad THEN Silence ELSE FromCard(card.last))
    BY <1>8 DEF CardRepeats, Hears, cardVars
  <2>2. Reached
    BY <1>5, <1>8, <2>1, BlockFields DEF CardRepeats, AirOK, Reached
  <2>3. card.last # Bad
    BY <1>5, <2>2, BlockFields DEF CardOK, Answer
  <2>4. QuietOK
    BY <1>6, <2>1 DEF Still
  <2> QED  BY <1>1, <2>1, <2>2, <2>3, <2>4 DEF QuietOK, Unreached, FromCard, Reached, Due
<1>9. ~CardAcknowledges
  <2> SUFFICES ASSUME CardAcknowledges PROVE FALSE
    OBVIOUS
  <2>1. ~Reached /\ ~piccChain /\ air.block.kind = "NAK" /\ faults' = faults
    BY <1>5, BlockFields DEF CardAcknowledges, Hears, AirOK, Reached, cardVars
  <2> QED  BY <1>6, <2>1 DEF Still, QuietOK, Unreached
<1>10. CASE CardExtended
  <2>1. /\ air.to = "card" /\ ~card.busy /\ air.block.kind = "WTX" /\ air' = Silence
        /\ card' = [card EXCEPT !.busy = (card.held # Bad)] /\ faults' = faults
    BY <1>10 DEF CardExtended, Hears
  <2>2. QuietOK
    BY <1>6, <2>1 DEF Still
  <2>3. air.block = WTX /\ Reached
    BY <1>5, <2>1, BlockFields DEF AirOK
  <2>4. card.held # Bad /\ from = "wtx"
    BY <2>1, <2>2, <2>3 DEF QuietOK
  <2>5. card'.busy = TRUE /\ card'.held = card.held /\ card'.bn = card.bn
    BY <1>3, <2>1, <2>4 DEF Cards
  <2> QED  BY <1>1, <2>1, <2>2, <2>3, <2>4, <2>5, BlockFields DEF QuietOK, Reached, Due
<1>11. CASE CardReady \/ CardAsksAgain
  <2>1. card.busy /\ air.to = "nobody" /\ faults'.lost = faults.lost
    BY <1>3, <1>11 DEF CardReady, CardAsksAgain, Faults
  <2>2. QuietOK
    BY <1>6, <2>1 DEF Still
  <2>3. card.held # Bad /\ Reached
    BY <1>5, <2>1 DEF CardOK
  <2>4. card'.busy = FALSE /\ card'.bn = card.bn /\ air'.to = "pcd"
    <3>1. CASE CardReady
      BY <1>3, <3>1 DEF CardReady, Cards, FromCard
    <3>2. CASE CardAsksAgain
      BY <1>3, <3>2 DEF CardAsksAgain, Cards, FromCard
    <3> QED  BY <1>11, <3>1, <3>2
  <2>5. tries.timeout \in Nat /\ tries.ack \in Nat /\ Due \in {0, 1}
    BY <1>3 DEF Counts, Due
  <2>6. tries'.timeout + Due' <= faults'.wtx /\ tries'.ack + Due' <= faults'.wtx
    <3>1. tries.timeout + Due <= faults.wtx /\ tries.ack + Due <= faults.wtx
      BY <2>2, <2>3 DEF QuietOK
    <3>2. CASE CardReady
      <4>1. card'.held = Bad /\ faults' = faults
        BY <1>3, <3>2 DEF CardReady, Cards
      <4>2. Due' = 0
        BY <4>1 DEF Due
      <4> QED  BY <1>1, <1>3, <2>5, <3>1, <4>1, <4>2
    <3>3. CASE CardAsksAgain
      <4>1. faults'.wtx = faults.wtx + 1
        BY <1>3, <3>3 DEF CardAsksAgain, Faults
      <4>2. Due' \in {0, 1}
        BY DEF Due
      <4> QED  BY <1>1, <1>3, <2>5, <3>1, <4>1, <4>2
    <3> QED  BY <1>11, <3>2, <3>3
  <2> QED  BY <1>1, <2>2, <2>3, <2>4, <2>6 DEF QuietOK, Reached
<1>12. CASE Missed
  <2>1. air.to = "card" /\ card.busy /\ faults' = faults /\ card' = card /\ air' = Silence
    BY <1>3, <1>4, <1>12 DEF Missed, cardVars, Faults
  <2>2. QuietOK
    BY <1>6, <2>1 DEF Still
  <2>3. Reached
    BY <1>5, <2>1 DEF CardOK
  <2> QED  BY <1>1, <2>1, <2>2, <2>3, BlockFields DEF QuietOK, Reached, Due
<1> QED  BY <1>4, <1>7, <1>8, <1>9, <1>10, <1>11, <1>12 DEF Card

\* A wait that goes on without a loss: the reader has heard the frame, or there
\* was none.
LEMMA QuietGoesOn ==
  ASSUME TypesOK, ExchangeOK, Quiet, NEW o \in Reports, GoesOn(o),
         ~seen'.misread, card'.here, faults'.lost = 0
  PROVE  /\ pc = "wait" /\ faults' = faults /\ card' = card
         /\ QuietOK /\ ReaderOK /\ AirOK /\ CardOK
         /\ o.heard <=> air.to = "pcd"
         /\ Ret(o) = "ok" <=> o.heard
         /\ o.heard => o.rec = air.block
         /\ ~o.heard => Ret(o) = "notag" /\ from # "rblock"
<1>1. /\ pc = "wait" /\ ~seen.misread /\ (Ret(o) = "ok" => o.heard)
      /\ card' = card /\ executed' = executed /\ Waited(o)
  <2>1. Waited(o)
    BY DEF GoesOn
  <2> QED  BY <2>1, Heard, GoesOnTypes
<1>2. card.here /\ ReaderOK /\ AirOK /\ CardOK
  BY <1>1 DEF ExchangeOK
<1>3. faults' = faults /\ (o.heard <=> air.to = "pcd")
  <2>1. faults \in Faults /\ faults.lost \in Nat
    BY FaultsAssumption DEF TypesOK, Faults
  <2>2. ~(air.to = "pcd" /\ ~o.heard)
    <3> SUFFICES ASSUME air.to = "pcd", ~o.heard PROVE FALSE
      OBVIOUS
    <3>1. faults' = [faults EXCEPT !.lost = @ + 1]
      BY DEF GoesOn
    <3> QED  BY <2>1, <3>1 DEF Faults
  <2> QED  BY <2>2, ReportTypes DEF GoesOn
<1>4. QuietOK
  BY <1>1, <1>2, <1>3 DEF Quiet
<1>5. /\ o.heard => o.rec = air.block /\ Ret(o) = "ok"
      /\ ~o.heard => Ret(o) = "notag" /\ from # "rblock"
  BY <1>1, <1>3, ReportTypes DEF Ret
<1> QED  BY <1>1, <1>2, <1>3, <1>4, <1>5

\* The reader's steps keep the account: it asks again for an extension that is
\* due, and then only.
LEMMA QuietProcess ==
  ASSUME TypesOK, ChainingOK, ExchangeOK, Quiet, NEW o \in Reports,
         \/ AskAgain(o) \/ GiveUp(o) \/ GrantWtx(o) \/ Retransmit(o)
         \/ ChainOn(o) \/ ChainStops(o) \/ RunsOn(o)
         \/ Collect(o) \/ Overrun(o) \/ Refuse(o)
  PROVE  Quiet'
<1> SUFFICES ASSUME pc' = "wait", ~seen'.misread, card'.here, faults'.lost = 0
             PROVE  QuietOK'
  BY DEF Quiet
<1>0. /\ faults.wtx \in Nat /\ tries \in Counts /\ bn \in Bit
      /\ tries.timeout \in Nat /\ tries.ack \in Nat
  BY FaultsAssumption DEF TypesOK, Faults, Counts
<1>1. CASE AskAgain(o)
  <2> DEFINE b == RBlock(IF piccChain THEN "ACK" ELSE "NAK", bn)
             t == Trouble(Ret(o))
  <2>1. /\ GoesOn(o) /\ Ret(o) # "ok" /\ tries[t] < 2 /\ tries' = [tries EXCEPT ![t] = @ + 1]
        /\ SendWith(b, AfterTrouble(Ret(o)), "rblock") /\ UNCHANGED <<bn, piccChain>>
    BY <1>1 DEF AskAgain
  <2>2. /\ faults' = faults /\ card' = card /\ QuietOK /\ CardOK
        /\ air.to # "pcd" /\ Ret(o) = "notag" /\ from # "rblock"
    BY <2>1, QuietGoesOn
  <2>3. t = IF piccChain THEN "ack" ELSE "timeout"
    BY <2>2 DEF Trouble
  <2> HIDE DEF t
  <2>4. /\ from' = "rblock" /\ air'.to = "card" /\ air'.block = b /\ b # WTX
    BY <2>1, BlockFields DEF SendWith, ToCard
  <2>5. /\ tries'.frame = tries.frame /\ tries'.resend = tries.resend
        /\ tries'.timeout <= tries.timeout + 1 /\ tries'.ack <= tries.ack + 1
        /\ tries'.timeout \in Nat /\ tries'.ack \in Nat
    <3>1. CASE piccChain
      BY <1>0, <2>1, <2>3, <3>1 DEF Counts
    <3>2. CASE ~piccChain
      BY <1>0, <2>1, <2>3, <3>2 DEF Counts
    <3> QED  BY <3>1, <3>2
  <2>6. air.to = "nobody"
    BY <2>2, ReportTypes DEF TypesOK, Frames
  <2>7. CASE card.busy
    <3>1. card.held # Bad /\ Reached
      BY <2>2, <2>7 DEF CardOK
    <3>2. Due = 1 /\ Due' = 0
      BY <2>2, <2>4, <2>7, <3>1 DEF Due
    <3>3. tries.timeout + 1 <= faults.wtx /\ tries.ack + 1 <= faults.wtx
      BY <2>2, <3>1, <3>2 DEF QuietOK
    <3>4. Reached'
      BY <2>1, <2>2, <3>1 DEF Reached
    <3>5. tries'.timeout + Due' <= faults'.wtx /\ tries'.ack + Due' <= faults'.wtx
      BY <1>0, <2>2, <2>5, <3>2, <3>3
    <3> QED  BY <2>2, <2>4, <2>5, <3>4, <3>5 DEF QuietOK
  <2>8. CASE ~card.busy
    <3>1. ~Reached /\ piccChain /\ card.tx >= card.len
      BY <2>2, <2>6, <2>8 DEF QuietOK
    <3>2. ~Reached' /\ Unreached'
      BY <2>1, <2>2, <2>4, <3>1 DEF Reached, Unreached
    <3> QED  BY <2>2, <2>4, <2>5, <3>2 DEF QuietOK
  <2> QED  BY <2>7, <2>8
<1>2. CASE GrantWtx(o)
  <2>1. /\ GoesOn(o) /\ Ret(o) = "ok" /\ o.rec.kind = "WTX" /\ SendWith(WTX, WtxHeard, "wtx")
        /\ UNCHANGED <<bn, piccChain, tries>>
    BY <1>2 DEF GrantWtx, Received
  <2>2. /\ faults' = faults /\ card' = card /\ QuietOK /\ CardOK /\ AirOK
        /\ air.to = "pcd" /\ air.block.kind = "WTX"
    BY <2>1, QuietGoesOn
  <2>3. Reached /\ ~card.busy
    BY <2>2 DEF QuietOK
  <2>4. card.held # Bad
    BY <2>2, <2>3, BlockFields DEF AirOK, CardOK, Answer
  <2>5. from' = "wtx" /\ air'.to = "card"
    BY <2>1 DEF SendWith, ToCard
  <2>6. Due = 1 /\ Due' = 1 /\ Reached'
    BY <2>1, <2>2, <2>3, <2>4, <2>5 DEF Due, Reached
  <2> QED  BY <2>1, <2>2, <2>3, <2>4, <2>5, <2>6 DEF QuietOK
<1>3. ~Retransmit(o)
  <2> SUFFICES ASSUME Retransmit(o) PROVE FALSE
    OBVIOUS
  <2>1. GoesOn(o) /\ Ret(o) = "ok" /\ OtherNumber(o.rec)
    BY DEF Retransmit, Received
  <2>2. QuietOK /\ AirOK /\ CardOK /\ air.to = "pcd" /\ o.rec = air.block
    BY <2>1, QuietGoesOn
  <2>3. ~Reached
    BY <2>1, <2>2, HeardBlock DEF OtherNumber
  <2> QED  BY <2>2, <2>3 DEF QuietOK
<1>4. CASE ChainOn(o)
  <2> DEFINE a == [asked EXCEPT !.at = @ + 1]
  <2>1. /\ GoesOn(o) /\ Ret(o) = "ok" /\ bn' = 1 - bn /\ SendCommand(a, 1 - bn, WtxHeard)
    BY <1>4 DEF ChainOn, Acknowledged
  <2>2. QuietOK /\ air.to = "pcd" /\ card' = card
    BY <2>1, QuietGoesOn
  <2>3. ~Reached'
    BY <1>0, <2>1, <2>2 DEF QuietOK, Reached, Bit
  <2>4. tries' = NoTries /\ from' = "block"
    BY <2>1 DEF SendCommand, SendBlock, SendWith
  <2> HIDE DEF a
  <2>5. air'.to = "card" /\ air'.block.kind = "I" /\ air'.block # WTX
    <3>1. air'.to = "card" /\ \E n : air'.block = IBlock(pcdChain', n, <<a.id, a.at>>)
      BY <2>1, SentCommand
    <3> QED  BY <3>1, BlockFields
  <2> QED  BY <2>3, <2>4, <2>5, QuietSends
<1>5. CASE Collect(o)
  <2>1. /\ GoesOn(o) /\ Ret(o) = "ok" /\ bn' = 1 - bn /\ o.rec.more /\ piccChain' = o.rec.more
        /\ SendBlock([kind |-> "ACK", more |-> FALSE], 1 - bn, NoData, WtxHeard)
        /\ tries' = NoTries
    BY <1>5 DEF Collect
  <2>2. QuietOK /\ air.to = "pcd" /\ card' = card
    BY <2>1, QuietGoesOn
  <2>3. ~Reached'
    BY <1>0, <2>1, <2>2 DEF QuietOK, Reached, Bit
  <2>4. from' = "block" /\ air'.to = "card" /\ air'.block = RBlock("ACK", 1 - bn)
    BY <2>1 DEF SendBlock, SendWith, ToCard
  <2>5. air'.block # WTX /\ piccChain'
    BY <2>1, <2>4, BlockFields
  <2> QED  BY <2>1, <2>3, <2>4, <2>5, QuietSends
<1> QED  BY <1>1, <1>2, <1>3, <1>4, <1>5
         DEF GiveUp, Refuse, Fail, ChainStops, RunsOn, Overrun

\* A message begins with nothing counted.
LEMMA QuietBegins ==
  ASSUME TypesOK, ChainingOK, ExchangeOK,
         typeA_standard_apdu_handler \/ typeA_select_ \/ typeA_request_ats
  PROVE  Quiet'
<1> SUFFICES ASSUME pc' = "wait", ~seen'.misread, card'.here PROVE QuietOK'
  BY DEF Quiet
<1>1. pc = "idle" /\ UNCHANGED <<bn, card>> /\ typeA_standard_apdu_handler
  BY DEF typeA_standard_apdu_handler, typeA_select_, typeA_request_ats
<1>2. CASE \E level \in 0..3, n \in 1..MaxCmd, part \in BOOLEAN : SendsMessage(level, n, part)
  <2>1. PICK a : SendCommand(a, bn, wtx)
    BY <1>2 DEF SendsMessage
  <2>2. ~seen.misread
    BY <1>2 DEF SendsMessage, TypesOK, Histories
  <2>3. ~Reached'
    BY <1>1, <2>2 DEF ExchangeOK, IdleOK, Reached
  <2>4. tries' = NoTries /\ from' = "block"
    BY <2>1 DEF SendCommand, SendBlock, SendWith
  <2>5. air'.to = "card" /\ air'.block.kind = "I" /\ air'.block # WTX
    <3>1. air'.to = "card" /\ \E n : air'.block = IBlock(pcdChain', n, <<a.id, a.at>>)
      BY <2>1, SentCommand
    <3> QED  BY <3>1, BlockFields
  <2> QED  BY <2>3, <2>4, <2>5, QuietSends
<1>3. CASE FetchesMore
  <2>1. /\ piccChain' /\ tries' = NoTries
        /\ SendBlock([kind |-> "ACK", more |-> FALSE], bn, NoData, wtx)
    BY <1>1, <1>3 DEF FetchesMore
  <2>2. ~seen.misread
    BY <1>3 DEF FetchesMore, TypesOK, Histories
  <2>3. ~Reached'
    BY <1>1, <2>2 DEF ExchangeOK, IdleOK, Reached
  <2>4. from' = "block" /\ air'.to = "card" /\ air'.block = RBlock("ACK", bn)
    BY <2>1 DEF SendBlock, SendWith, ToCard
  <2>5. air'.block # WTX
    BY <2>4, BlockFields
  <2> QED  BY <2>1, <2>3, <2>4, <2>5, QuietSends
<1> QED  BY <1>1, <1>2, <1>3 DEF typeA_standard_apdu_handler

\* While no frame is lost, waits are counted only for extensions.
LEMMA QuietNext == IInv /\ Quiet /\ [Next]_vars => Quiet'
<1> SUFFICES ASSUME IInv, Quiet, [Next]_vars PROVE Quiet'
  OBVIOUS
<1>1. TypesOK /\ ChainingOK /\ ExchangeOK
  BY SameTypes DEF IInv
<1>2. CASE Process
  BY <1>1, <1>2, QuietProcess DEF Process
<1>3. CASE typeA_standard_apdu_handler \/ typeA_select_ \/ typeA_request_ats
  BY <1>1, <1>3, QuietBegins
<1>4. CASE Card \/ CardLeaves
  BY <1>1, <1>4, QuietCard
<1>5. CASE UNCHANGED vars
  BY <1>5 DEF vars, pcdVars, cardVars, Quiet, QuietOK, Unreached, Due, Reached
<1> QED  BY <1>2, <1>3, <1>4, <1>5 DEF Next

\* What an APDU that ends with an error has met.
LEMMA FailsStep ==
  ASSUME TypesOK, ChainingOK, ExchangeOK, Quiet, [Next]_vars,
         pc = "wait", pc' = "off", ~seen'.misread, card.here, faults.lost = 0
  PROVE  \/ air.to = "pcd" /\ result'.status \in {"mute", "retry_fail"}
         \/ faults.wtx > 2
<1>0. ~seen.misread
  BY CardTypes, WaitedTypes
     DEF Next, vars, pcdVars, typeA_standard_apdu_handler, typeA_select_, typeA_request_ats, Process,
         AskAgain, GiveUp, GrantWtx, Retransmit, ChainOn, ChainStops, RunsOn, Collect, Overrun,
         Refuse, Received, GoesOn
<1>1. ReaderOK /\ AirOK /\ CardOK /\ QuietOK
  BY <1>0 DEF ExchangeOK, Quiet
<1>2. PICK o \in Reports : GiveUp(o) \/ Refuse(o)
  <2>1. ~(Card \/ CardLeaves)
    BY CardTypes
  <2>2. ~(typeA_standard_apdu_handler \/ typeA_select_ \/ typeA_request_ats) /\ vars' # vars
    BY DEF typeA_standard_apdu_handler, typeA_select_, typeA_request_ats, vars
  <2>3. \A r \in Reports : ~(\/ AskAgain(r) \/ GrantWtx(r) \/ Retransmit(r) \/ ChainOn(r)
                             \/ ChainStops(r) \/ RunsOn(r) \/ Collect(r) \/ Overrun(r))
    BY DEF AskAgain, GrantWtx, Retransmit, ChainOn, ChainStops, RunsOn, Collect, Overrun,
           SendWith, SendBlock, SendCommand
  <2> QED  BY <2>1, <2>2, <2>3 DEF Next, Process
<1>3. /\ faults.wtx \in Nat /\ tries \in Counts
      /\ tries.timeout \in Nat /\ tries.ack \in Nat
  BY FaultsAssumption DEF TypesOK, Faults, Counts
<1>4. Waited(o) /\ (Ret(o) = "ok" => o.heard)
  <2>1. Waited(o)
    BY <1>2 DEF GiveUp, Refuse
  <2> QED  BY <2>1, Heard
<1>5. CASE GiveUp(o)
  <2>1. result'.status \in {"mute", "retry_fail"}
    <3>1. ASSUME NEW status, NEW w, Fail(status, w) PROVE result'.status = status
      BY <3>1 DEF Fail, Done
    <3> QED  BY <1>5, <3>1 DEF GiveUp
  <2>2. CASE air.to = "pcd"
    BY <2>1, <2>2
  <2>3. CASE air.to # "pcd"
    <3>1. o.ret = "notag" /\ ~o.heard /\ air.to = "nobody"
      BY <2>3, ReportTypes DEF TypesOK, Frames
    <3>2. Ret(o) = "notag" /\ from # "rblock"
      BY <1>4, <3>1 DEF Ret
    <3>3. tries[Trouble("notag")] = 2 /\ Trouble("notag") \in {"ack", "timeout"}
      BY <1>5, <3>2 DEF GiveUp, Trouble
    <3>4. tries # NoTries
      BY <3>3 DEF NoTries
    <3>5. Reached /\ card.busy
      BY <1>1, <3>1, <3>2, <3>4 DEF QuietOK, Unreached
    <3>6. Due = 1
      BY <1>1, <3>2, <3>5 DEF Due, CardOK
    <3>7. tries.timeout + 1 <= faults.wtx /\ tries.ack + 1 <= faults.wtx
      BY <1>1, <3>5, <3>6 DEF QuietOK
    <3> QED  BY <1>3, <3>3, <3>7
  <2> QED  BY <2>2, <2>3
<1>6. ~Refuse(o)
  <2> SUFFICES ASSUME Refuse(o) PROVE FALSE
    OBVIOUS
  <2>1. Ret(o) = "ok" /\ air.to = "pcd" /\ o.rec = air.block
    BY <1>4, ReportTypes DEF Refuse
  <2>2. Reached
    BY <1>1, <2>1 DEF QuietOK
  <2>3. air.block = card.last /\ (air.block = WTX \/ (air.block = Answer /\ card.held = Bad))
    BY <1>1, <2>1, <2>2 DEF AirOK, CardOK, Answer
  <2>4. IF pcdChain THEN Answer = RBlock("ACK", bn)
                    ELSE Answer = IBlock(card.tx < card.len, bn, <<asked.id, card.tx>>)
    BY <1>1, <2>2 DEF CardOK
  <2>5. \/ air.block.kind = "WTX"
        \/ pcdChain /\ air.block.kind = "ACK" /\ air.block.bn = bn
        \/ ~pcdChain /\ air.block.kind = "I" /\ air.block.bn = bn
    BY <2>3, <2>4, BlockFields
  <2> QED  BY <2>1, <2>5 DEF Refuse, Expected, OtherNumber
<1> QED  BY <1>2, <1>5, <1>6

\* An APDU fails only if a frame of it was lost or damaged, something was
\* misread, or the card is gone or has asked for more time three times, however
\* many retries the losses of other APDUs have used, for any chain of blocks
\* and any waiting time (iso14444.c: typeA_data_send_error_check counts a
\* timeout for every extension, as typeA_set_timeout comes before WTX_REQUEST).
THEOREM NoFailureWithoutCause == Spec => FailsForCause
<1>1. Init => Quiet
  BY DEF Init, Quiet
<1>2. Spec => [](IInv /\ Quiet)
  <2>1. Init => IInv /\ Quiet
    BY InitInv, <1>1
  <2>2. IInv /\ Quiet /\ [Next]_vars => (IInv /\ Quiet)'
    BY NextInv, QuietNext
  <2> QED  BY <2>1, <2>2, PTL DEF Spec
<1>3. IInv /\ Quiet /\ [Next]_vars =>
        [pc = "wait" /\ pc' = "off" =>
           \/ faults.lost > 0
           \/ air.to = "pcd" /\ result'.status \in {"mute", "retry_fail"}
           \/ seen'.misread
           \/ ~card.here
           \/ faults.wtx > 2]_vars
  <2> SUFFICES ASSUME IInv, Quiet, [Next]_vars, pc = "wait", pc' = "off",
                      ~(faults.lost > 0), ~seen'.misread, card.here
               PROVE  \/ air.to = "pcd" /\ result'.status \in {"mute", "retry_fail"}
                      \/ faults.wtx > 2
    OBVIOUS
  <2>1. TypesOK /\ ChainingOK /\ ExchangeOK
    BY SameTypes DEF IInv
  <2>2. faults.lost = 0
    BY <2>1, FaultsAssumption DEF TypesOK, Faults
  <2> QED  BY <2>1, <2>2, FailsStep
<1> QED  BY <1>2, <1>3, PTL DEF Spec, FailsForCause
============================================================================
