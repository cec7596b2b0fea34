---------------------------- MODULE PcscSession ----------------------------
(***************************************************************************)
(* The PC/SC part 3 commands of mod/src/pcsc.c on top of the card session: *)
(* a command is a list of data objects that are carried out one after the  *)
(* other, here one step each.  They switch the field, send frames that the *)
(* driver does not look into and switch the card's protocol, behind the    *)
(* back of what PiccSession knows about the card.  Polls and power on wait *)
(* for the command, the card and the gadget do not.                        *)
(*                                                                         *)
(* Which object comes next is chosen when it is parsed: the host may have  *)
(* put any there.                                                          *)
(***************************************************************************)
EXTENDS PiccSession

CONSTANT MaxObjects   \* the data objects of the longest command

ASSUME ObjectsAssumption == MaxObjects \in Nat \ {0}

VARIABLES
  transfer_status,   \* a transparent session has been started
  cmd,               \* the command under way
  bypassed           \* history: the card is not as the driver has left it

pcscVars == <<vars, transfer_status, cmd, bypassed>>

Idle == [r |-> "none"]

\* The objects still to come; the error that is left in ret; whether a
\* parameter has ended the command or failed; whether the parser has lost its
\* place; what sort of objects have been passed over without effect.
Command(n, r) ==
  [r |-> r, left |-> n, ret |-> "ok", param |-> FALSE, lost |-> FALSE, vain |-> {}]

Sorts == {"exchange", "other"}

Busy == cmd.r = "busy"

----------------------------------------------------------------------------
(* The loop over the objects.                                              *)

\* One more object has been parsed; vain: its sort if it did not do what it
\* asks for, {} if it did.
Parsed(c, vain) ==
  IF c.lost THEN c ELSE [c EXCEPT !.left = @ - 1, !.vain = @ \cup vain]

Unless(effect) == IF effect THEN {} ELSE {"other"}

\* Mutant: that the command is over is only noticed in front of it.
LoopPastTheEnd(c, vain) == cmd' = Parsed(c, vain)

\* Where the parser has lost its place it finds anything, and the count of
\* the remaining bytes does not tell when the command is over.
GoOn(c, vain) ==
  LET next == Parsed(c, vain)
      end  == IF c.ret = "ok" THEN [next EXCEPT !.r = "ok"] ELSE Command(0, "error")
  IN cmd' \in IF c.lost THEN {next, end} ELSE IF next.left = 0 THEN {end} ELSE {next}

Break(c) == cmd' = [Parsed(c, {}) EXCEPT !.r = "ok"]
Refuse   == cmd' = Command(0, "error")

\* What sets ret anew forgets the error of a parameter.
Anew   == [cmd EXCEPT !.ret = "ok"]
Astray == [Anew EXCEPT !.lost = TRUE, !.left = 0]

\* Nothing but the command changes.
CardAlone == UNCHANGED <<vars, bypassed>>

VersionData ==
  /\ Busy /\ GoOn(cmd, {})
  /\ CardAlone /\ UNCHANGED transfer_status

StartTransparentSession ==
  /\ Busy /\ GoOn(cmd, {})
  /\ transfer_status' = TRUE
  /\ CardAlone

EndTransparentSession ==
  /\ Busy /\ GoOn(cmd, {})
  /\ transfer_status' = FALSE
  /\ CardAlone

TurnOffRF ==
  /\ Busy /\ transfer_status
  /\ Leave(TurnOff(Here))
  /\ GoOn(cmd, Unless(~antenna'))
  /\ bypassed' = TRUE
  /\ UNCHANGED <<status, transfer_status>>

TurnOnRF ==
  /\ Busy /\ transfer_status
  /\ Leave(TurnOn(Here))
  /\ GoOn(cmd, Unless(antenna'))
  /\ UNCHANGED <<status, transfer_status, bypassed>>

\* The timer waits, or keeps its value for a TRANSCEIVE (where it has no
\* effect), unless the object behind it is not complete.
Timer ==
  /\ Busy
  /\ \/ GoOn(cmd, {})
     \/ (cmd.lost \/ cmd.left > 1) /\ Refuse
  /\ CardAlone /\ UNCHANGED transfer_status

\* The first parameter that can be read or set ends the whole command; the
\* ones that fail before it leave their error in ret.
Parameters ==
  /\ Busy
  /\ \/ Break([cmd EXCEPT !.param = TRUE])
     \/ GoOn([cmd EXCEPT !.param = TRUE, !.ret = "error"], {"other"})
  /\ CardAlone /\ UNCHANGED transfer_status

----------------------------------------------------------------------------
(* Transparent exchange.                                                   *)

\* In a command of another type (cmdtype) these are NotCarriedOut.
Transparent == Busy /\ transfer_status

\* Those that change the state of some card.
Frames == {"WUPA", "SELECT", "HLTA", "RATS", "WUPB", "ATTRIB", "DESELECT"}

\* FLAG and the numbers of valid bits
FrameOptions ==
  /\ Transparent /\ GoOn(cmd, {})
  /\ CardAlone /\ UNCHANGED transfer_status

\* pcsc_xfr_handler: the frame goes to the card, the driver does not note
\* what comes of it.  The handler returns 0 whatever the exchange gave.
pcsc_xfr_handler(x) ==
  /\ Leave(x) /\ UNCHANGED <<status, transfer_status>>
  /\ bypassed' = TRUE

\* A frame that is not answered was sent in vain.
UnlessAnswered(x) == IF Silent(x) THEN {"exchange"} ELSE {}

\* TRANSMIT is refused as the last object.
Transmit ==
  /\ Transparent
  /\ cmd.lost \/ cmd.left > 1
  /\ \E f \in Frames : \E x \in Send(f, Here) :
        pcsc_xfr_handler(x) /\ GoOn(Anew, UnlessAnswered(x))

\* RECEIVE sends what the prologue flag asks for, then waits.
Receive ==
  /\ Transparent
  /\ \E x \in Send("PROLOGUE", Here) :
        pcsc_xfr_handler(x) /\ GoOn(Anew, UnlessAnswered(x))

\* The length of the answer takes the place of the length of the object: the
\* parser moves on by the wrong number of bytes, which may happen to be the
\* right one, unless there was no answer.
Transceive ==
  /\ Transparent
  /\ \E f \in Frames : \E x \in Send(f, Here) :
       /\ pcsc_xfr_handler(x)
       /\ \/ GoOn(Anew, UnlessAnswered(x))
          \/ ~Silent(x) /\ GoOn(Astray, {})

\* The tags 0x96 to 0x9F belong to no branch and are not passed over either.
Unassigned ==
  /\ Transparent
  /\ cmd' = Command(0, "endless")
  /\ CardAlone /\ UNCHANGED transfer_status

----------------------------------------------------------------------------
(* Switch protocol.                                                        *)

Standards == {"TYPEA", "TYPEB"}

\* Not answered, it leaves states alone.
typeB_halt(w) ==
  IF w.states = "POWEROFF" THEN {w} ELSE {Noted(x, "IDLE") : x \in Send("HLTB", w)}

\* What precedes a switch to layer 3 and above.
Rest(std) ==
  IF states = "ACTIVATED" THEN typeA_deselect_request(Here)
  ELSE IF states = "POWEROFF" THEN {TurnOn(Here)}
  ELSE IF std = "TYPEA" THEN typeA_halt(Here) ELSE typeB_halt(Here)

Wake(std, w)     == IF std = "TYPEA" THEN typeA_select(w) ELSE Twice(typeB_request, w)
Identify(std, w) == IF std = "TYPEA" THEN typeA_polling_tags(w) ELSE typeB_polling_tags(w)

\* Mutant: states is left alone.
Layer2KeepsState ==
  /\ Busy /\ transfer_status
  /\ Leave([picc_reset(Here) EXCEPT !.states = states])
  /\ GoOn(Anew, Unless(antenna'))
  /\ UNCHANGED <<status, transfer_status, bypassed>>

\* Mutant: the field is switched on, then off.
Layer2LeavesOff ==
  /\ Busy /\ transfer_status
  /\ Leave([TurnOff(TurnOn(Here)) EXCEPT !.states = "IDLE"])
  /\ GoOn(Anew, {})
  /\ UNCHANGED <<status, transfer_status, bypassed>>

SwitchToLayer2 ==
  /\ Busy /\ transfer_status
  /\ Leave(picc_reset(Here))
  /\ GoOn(Anew, Unless(antenna'))
  /\ UNCHANGED <<status, transfer_status, bypassed>>

\* Mutant: the result of the selection is not asked for.
Layer3Ignored(std) ==
  /\ Busy /\ transfer_status
  /\ \E x \in Then(Rest(std), LAMBDA w : Wake(std, w)) :
       /\ Leave(x)
       /\ GoOn(Anew, Unless(mode' = IF std = "TYPEA" THEN "active" ELSE "ready"))
  /\ UNCHANGED <<status, transfer_status, bypassed>>

\* The card is woken and, of type A, selected; sn becomes its number, also
\* if type is that of another one, and part of it if the selection fails.
SwitchToLayer3(std) ==
  /\ Busy /\ transfer_status
  /\ \E x \in Then(Rest(std), LAMBDA w : Wake(std, w)) :
       /\ \E s \in IF std = "TYPEB" THEN {same} ELSE IF Failed(x) THEN {same, FALSE} ELSE {TRUE} :
            Leave([x EXCEPT !.same = s])
       /\ bypassed' = (bypassed \/ (same' /\ ~same))
       /\ IF Failed(x) THEN Refuse
          ELSE GoOn(Anew, Unless(mode' = IF std = "TYPEA" THEN "active" ELSE "ready"))
  /\ UNCHANGED <<status, transfer_status>>

\* The card is identified anew; status is left for the poll to correct.
SwitchToLayer4(std) ==
  /\ Busy /\ transfer_status
  /\ \E x \in Then(Rest(std), LAMBDA w : Identify(std, w)) :
       /\ Leave(x)
       /\ IF x.type = "ABSENT" THEN Refuse /\ UNCHANGED bypassed
          ELSE GoOn(Anew, Unless(same' /\ type' = card /\ (type' \in TCL => mode' = "protocol")))
               /\ bypassed' = FALSE
  /\ UNCHANGED <<status, transfer_status>>

\* All other objects, standards and layers, the ones that are cut short, and
\* outside a session RF, protocol and frames.
NotCarriedOut ==
  /\ Busy
  /\ Refuse
  /\ CardAlone /\ UNCHANGED transfer_status

\* A lone last byte is taken for the Le.
LoneByte ==
  /\ Busy /\ (cmd.lost \/ cmd.left = 1)
  /\ Break(cmd)
  /\ CardAlone /\ UNCHANGED transfer_status

----------------------------------------------------------------------------
(* Commands and the operations of the card session.                        *)

Begin(n) ==
  /\ cmd = Idle
  /\ cmd' = Command(n, "busy")
  /\ CardAlone /\ UNCHANGED transfer_status

Reply ==
  /\ cmd.r \in {"ok", "error"}
  /\ cmd' = Idle
  /\ CardAlone /\ UNCHANGED transfer_status

\* Without data objects: one frame for the card, its answer for the host.
RawFrame ==
  /\ cmd = Idle /\ type \notin {"FELICA", "TOPAZ"}
  /\ \E f \in Frames : \E x \in Send(f, Here) : pcsc_xfr_handler(x)
  /\ UNCHANGED cmd

\* What is identified anew is as the driver has left it.
PollPcsc ==
  /\ cmd = Idle /\ Poll
  /\ bypassed' = (bypassed /\ Present /\ "PRESENT" \in status')
  /\ UNCHANGED <<transfer_status, cmd>>

PowerOn ==
  /\ cmd = Idle /\ picc_power_on
  /\ bypassed' = (bypassed /\ states # "POWEROFF")
  /\ UNCHANGED <<transfer_status, cmd>>

PowerOff == cmd = Idle /\ picc_power_off /\ UNCHANGED <<transfer_status, cmd, bypassed>>
Apdu     == cmd = Idle /\ ExchangeApdu /\ UNCHANGED <<transfer_status, cmd, bypassed>>
Mifare   == cmd = Idle /\ ExchangeMifare /\ UNCHANGED <<transfer_status, cmd, bypassed>>

\* The gadget does not wait for the command under way, and the transparent
\* session outlives both that and the card.
ResetParameters == picc_param_init /\ UNCHANGED <<transfer_status, cmd, bypassed>>
BringAny(k)     == Bring(k) /\ UNCHANGED <<transfer_status, cmd, bypassed>>
TakeAny         == Take /\ UNCHANGED <<transfer_status, cmd, bypassed>>
DisturbAny(n)   == Disturb(n) /\ UNCHANGED <<transfer_status, cmd, bypassed>>

----------------------------------------------------------------------------

PcscInit == Init /\ transfer_status = FALSE /\ cmd = Idle /\ bypassed = FALSE

Object ==
  \/ VersionData \/ StartTransparentSession \/ EndTransparentSession
  \/ TurnOffRF \/ TurnOnRF
  \/ Timer \/ Parameters
  \/ FrameOptions \/ Transmit \/ Receive \/ Transceive \/ Unassigned
  \/ SwitchToLayer2
  \/ \E std \in Standards : SwitchToLayer3(std) \/ SwitchToLayer4(std)
  \/ NotCarriedOut \/ LoneByte

PcscNext ==
  \/ Object \/ Reply
  \/ \E n \in 1 .. MaxObjects : Begin(n)
  \/ RawFrame
  \/ PollPcsc \/ PowerOn \/ PowerOff \/ Apdu \/ Mifare \/ ResetParameters
  \/ \E k \in Kinds : BringAny(k)
  \/ TakeAny
  \/ \E n \in 0 .. MaxNoise : DisturbAny(n)

PcscSpec == PcscInit /\ [][PcscNext]_pcscVars

\* The poll gets the semaphore in the end (see PiccSession), unless a command
\* goes on for ever.
PcscFairSpec == PcscSpec /\ WF_pcscVars(PollPcsc)

----------------------------------------------------------------------------
(* Properties.                                                             *)

\* Every variable has the values its type in the code allows.
PcscTypeOK ==
  /\ TypeOK
  /\ transfer_status \in BOOLEAN /\ bypassed \in BOOLEAN
  /\ \/ cmd = Idle
     \/ /\ cmd.left \in 0 .. MaxObjects /\ cmd.vain \subseteq Sorts
        /\ cmd.r \in {"busy", "ok", "error", "endless"}

\* What a protocol switch does to the card and what the driver notes of it go
\* together, in whatever states it finds the card and wherever it fails: as
\* long as the host has neither sent frames of its own nor switched the
\* field off, a card of a known type is in the field, and PICC_ACTIVATED
\* means that it expects blocks.
SwitchKeepsSession == ~bypassed => InSession /\ (Known => antenna)

\* A reply that all is well is only given if each object of the command took
\* effect, the frames of exchanges excepted: that nobody answers them is kept
\* from the host (pcsc.c:427).  A parameter ends the command early, or does
\* not count, and after a TRANSCEIVE that was answered the parser has lost
\* its place.
SuccessMeansAll ==
  cmd.r = "ok" /\ ~cmd.param /\ ~cmd.lost => cmd.left = 0 /\ cmd.vain \subseteq {"exchange"}

\* A poll is right about which card it finds, as far as PollTellsCardsApart
\* says, which excepts a damaged first answer of a FeliCa card, and does not
\* give up the one it knows, also between the commands of a transparent
\* session, unless the card was dealt with in a way the driver did not see.
PollStaysRight ==
  [][PollPcsc /\ ~bypassed =>
       /\ Certain(type', states') => same'
       /\ Present /\ Known /\ same /\ Findable => "PRESENT" \in status']_pcscVars

\* Whatever a host has done to the card and the field, once it stops the poll
\* gets right whether there is a card.
AtRest(present) == (card # "none" <=> present) /\ noise = 0 /\ cmd = Idle

PollHeals ==
  /\ <>[]AtRest(TRUE) => []<>Present
  /\ <>[]AtRest(FALSE) => <>[](~Present /\ ~antenna)

============================================================================
