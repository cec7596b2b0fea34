------------------------- MODULE PcscSessionProofs -------------------------
(***************************************************************************)
(* Theorems about PcscSession, for any kinds of card, any number of frames *)
(* that get lost and commands of any length.                               *)
(*                                                                         *)
(* A host may do anything to the card behind the back of the driver, so    *)
(* that what PiccSession keeps is lost.  What is left, and what comes back *)
(* when the card is identified anew, is the invariant here; the lemmas     *)
(* about links are those of PiccSessionProofs.                             *)
(***************************************************************************)
EXTENDS PcscSession, PiccSessionProofs

-----------------------------------------------------------------------------
(* The inductive invariant.                                                *)

Commands == [r : {"busy", "ok", "error", "endless"}, left : 0 .. MaxObjects,
             ret : {"ok", "error"}, param : BOOLEAN, lost : BOOLEAN, vain : SUBSET Sorts]

\* A command that goes on has an object left, and as long as no parameter has
\* been met and the parser knows its place, all has gone well so far, but for
\* frames that nobody answered.
CommandOK(c) ==
  /\ c \in Commands
  /\ c.r = "busy" => c.lost \/ c.left # 0
  /\ c.r \in {"busy", "ok"} /\ ~c.param /\ ~c.lost => c.ret = "ok" /\ c.vain \subseteq {"exchange"}
  /\ c.r = "ok" /\ ~c.param /\ ~c.lost => c.left = 0

\* Whatever the host has done: sn is wrong about the type of the card only
\* after a host has selected a card of type A that is not activated.
Guessed(w) ==
  w.same /\ w.type \in AllKinds => w.type = card \/ (card \in TypeA /\ w.states # "ACTIVATED")

\* What the driver knows of a card that is as the driver has left it.  A
\* Topaz card is not told from one of type A by the search for it.
Believed(w) ==
  /\ SessionOK(w)
  /\ w.same /\ w.type \in AllKinds /\ w.type # "TOPAZ" => w.type = card
  /\ w.type \in AllKinds => w.antenna

SlotOK ==
  /\ status \subseteq Bits /\ card \in Kinds \cup {"none"} /\ noise \in 0 .. MaxNoise
  /\ bypassed \in BOOLEAN
  /\ LinkOK(Here) /\ Guessed(Here)
  /\ ~bypassed => Believed(Here)

CmdOK == cmd = Idle \/ CommandOK(cmd)

PcscInv == SlotOK /\ CmdOK /\ transfer_status \in BOOLEAN

-----------------------------------------------------------------------------
(* The loop over the objects.                                              *)

LEMMA CommandLemma ==
  ASSUME NEW n \in 0 .. MaxObjects, NEW r \in {"busy", "error", "endless"}, r = "busy" => n # 0
  PROVE  CommandOK(Command(n, r))
BY DEF CommandOK, Commands, Command

LEMMA RefuseOK ==
  ASSUME Refuse
  PROVE  CmdOK'
<1>1. 0 \in 0 .. MaxObjects
  BY ObjectsAssumption
<1>2. CommandOK(Command(0, "error"))
  BY <1>1, CommandLemma
<1> QED  BY <1>2 DEF CmdOK, Refuse

LEMMA ParsedLemma ==
  ASSUME NEW c \in Commands, c.lost \/ c.left # 0, NEW e \in SUBSET Sorts
  PROVE  /\ Parsed(c, e) \in Commands /\ Parsed(c, e).r = c.r /\ Parsed(c, e).ret = c.ret
         /\ Parsed(c, e).param = c.param /\ Parsed(c, e).lost = c.lost
         /\ c.lost => Parsed(c, e) = c
         /\ ~c.lost => Parsed(c, e).left = c.left - 1 /\ Parsed(c, e).vain = c.vain \cup e
<1>1. CASE c.lost
  BY <1>1 DEF Parsed
<1>2. CASE ~c.lost
  <2> DEFINE n == c.left - 1
             a == c.vain \cup e
             p == [c EXCEPT !.left = n, !.vain = a]
  <2>1. n \in 0 .. MaxObjects
    BY <1>2, ObjectsAssumption DEF Commands
  <2>2. a \in SUBSET Sorts
    BY DEF Commands
  <2>3. Parsed(c, e) = p
    BY <1>2 DEF Parsed
  <2> HIDE DEF n, a
  <2>4. /\ p \in Commands /\ p.r = c.r /\ p.ret = c.ret /\ p.param = c.param
        /\ p.lost = c.lost /\ p.left = n /\ p.vain = a
    BY <2>1, <2>2 DEF Commands
  <2> QED  BY <1>2, <2>3, <2>4 DEF n, a
<1> QED  BY <1>1, <1>2

LEMMA OkLemma ==
  ASSUME NEW c \in Commands
  PROVE  LET o == [c EXCEPT !.r = "ok"]
         IN o \in Commands /\ o.r = "ok" /\ o.ret = c.ret /\ o.param = c.param
              /\ o.lost = c.lost /\ o.left = c.left /\ o.vain = c.vain
BY DEF Commands

\* An object that has taken effect, or a frame that was not answered.
LEMMA GoOnOK ==
  ASSUME NEW c, CommandOK(c), c.r = "busy", NEW e \in SUBSET Sorts,
         e \subseteq {"exchange"} \/ c.param \/ c.lost,
         GoOn(c, e)
  PROVE  CmdOK'
<1> DEFINE next == Parsed(c, e)
           ok   == [next EXCEPT !.r = "ok"]
           end  == IF c.ret = "ok" THEN ok ELSE Command(0, "error")
<1>1. /\ next \in Commands /\ next.r = "busy" /\ next.ret = c.ret
      /\ next.param = c.param /\ next.lost = c.lost
      /\ c.lost => next = c
      /\ ~c.lost => next.left = c.left - 1 /\ next.vain = c.vain \cup e
  BY ParsedLemma DEF CommandOK
<1>2. cmd' \in IF c.lost THEN {next, end} ELSE IF next.left = 0 THEN {end} ELSE {next}
  BY DEF GoOn
<1> HIDE DEF next
<1>3. /\ ok \in Commands /\ ok.r = "ok" /\ ok.ret = next.ret /\ ok.param = next.param
      /\ ok.lost = next.lost /\ ok.left = next.left /\ ok.vain = next.vain
  BY <1>1, OkLemma
<1> HIDE DEF ok
<1>4. CommandOK(Command(0, "error"))
  BY ObjectsAssumption, CommandLemma
<1>5. next.lost \/ next.left # 0 => CommandOK(next)
  BY <1>1 DEF CommandOK
<1>6. next.lost \/ next.left = 0 => CommandOK(ok)
  BY <1>1, <1>3 DEF CommandOK
<1>7. CommandOK(cmd')
  BY <1>1, <1>2, <1>4, <1>5, <1>6
<1> QED  BY <1>7 DEF CmdOK, CommandOK

LEMMA BreakOK ==
  ASSUME NEW c, c \in Commands, c.lost \/ c.left # 0,
         c.param \/ c.lost \/ (c.left = 1 /\ c.ret = "ok" /\ c.vain \subseteq {"exchange"}),
         Break(c)
  PROVE  CmdOK'
<1> DEFINE p == Parsed(c, {})
<1>1. /\ p \in Commands /\ p.param = c.param /\ p.lost = c.lost /\ p.ret = c.ret
      /\ ~c.lost => p.left = c.left - 1 /\ p.vain = c.vain
  <2>1. {} \in SUBSET Sorts /\ c.vain \cup {} = c.vain
    OBVIOUS
  <2> QED  BY <2>1, ParsedLemma
<1>2. cmd' = [p EXCEPT !.r = "ok"]
  BY DEF Break
<1> HIDE DEF p
<1>3. /\ cmd' \in Commands /\ cmd'.r = "ok" /\ cmd'.ret = p.ret
      /\ cmd'.param = c.param /\ cmd'.lost = c.lost
      /\ cmd'.left = p.left /\ cmd'.vain = p.vain
  BY <1>1, <1>2, OkLemma
<1>4. ASSUME ~c.param, ~c.lost
      PROVE  cmd'.ret = "ok" /\ cmd'.vain \subseteq {"exchange"} /\ cmd'.left = 0
  <2>1. c.left = 1 /\ c.ret = "ok" /\ c.vain \subseteq {"exchange"}
    BY <1>4
  <2>2. cmd'.left = c.left - 1
    BY <1>1, <1>3, <1>4
  <2>3. cmd'.left = 0
    BY <2>1, <2>2
  <2>4. cmd'.vain = c.vain
    BY <1>1, <1>3, <1>4
  <2>5. cmd'.ret = "ok"
    BY <1>1, <1>3, <2>1
  <2> QED  BY <2>1, <2>3, <2>4, <2>5
<1>5. CommandOK(cmd')
  BY <1>3, <1>4 DEF CommandOK
<1> QED  BY <1>5 DEF CmdOK, CommandOK

LEMMA BusyOK ==
  ASSUME CmdOK, Busy
  PROVE  CommandOK(cmd) /\ cmd.r = "busy"
BY DEF CmdOK, Busy, Idle

LEMMA AnewOK ==
  ASSUME CommandOK(cmd), cmd.r = "busy"
  PROVE  CommandOK(Anew) /\ Anew.r = "busy" /\ CommandOK(Astray) /\ Astray.r = "busy" /\ Astray.lost
<1>1. /\ Anew \in Commands /\ Anew.r = "busy" /\ Anew.ret = "ok" /\ Anew.param = cmd.param
      /\ Anew.lost = cmd.lost /\ Anew.left = cmd.left /\ Anew.vain = cmd.vain
  BY DEF Anew, CommandOK, Commands
<1>2. 0 \in 0 .. MaxObjects
  BY ObjectsAssumption
<1>3. Astray \in Commands /\ Astray.r = "busy" /\ Astray.lost = TRUE
  BY <1>1, <1>2 DEF Astray, Commands
<1> QED  BY <1>1, <1>3 DEF CommandOK

-----------------------------------------------------------------------------
(* What is known of the card.                                              *)

\* What is left of the slot if all is left as in x.
LEMMA LeaveSlot ==
  ASSUME SlotOK, NEW x, LinkOK(x), Guessed(x), Leave(x), status' \subseteq Bits,
         bypassed' \in BOOLEAN, ~bypassed' => Believed(x)
  PROVE  SlotOK'
<1>1. /\ LinkOK(Here)' /\ (SessionOK(x) => SessionOK(Here)')
      /\ antenna' = x.antenna /\ mode' = x.mode /\ same' = x.same
      /\ states' = x.states /\ type' = x.type /\ card' = card /\ noise' = noise
  BY LeaveLemma
<1>2. /\ Here'.same = x.same /\ Here'.type = x.type /\ Here'.states = x.states
      /\ Here'.antenna = x.antenna
  BY <1>1 DEF Here
<1>3. Guessed(Here)'
  BY <1>1, <1>2 DEF Guessed
<1>4. ~bypassed' => Believed(Here)'
  BY <1>1, <1>2 DEF Believed
<1> QED  BY <1>1, <1>3, <1>4 DEF SlotOK

LEMMA StutterSlot ==
  ASSUME SlotOK, CardAlone
  PROVE  SlotOK'
<1>1. Here' = Here
  BY DEF CardAlone, vars, Here
<1> QED
  BY <1>1 DEF CardAlone, vars, SlotOK, LinkOK, Guessed, Believed, SessionOK, Possible

\* Exchanges that activate nothing.
LEMMA KeepsGuess ==
  ASSUME NEW w, Guessed(w), NEW x, x.same = w.same, x.type = w.type,
         x.states = "ACTIVATED" => w.states = "ACTIVATED"
  PROVE  Guessed(x)
BY DEF Guessed

LEMMA GiveUpSlot ==
  ASSUME NEW x, x.type = "ABSENT"
  PROVE  Guessed(x) /\ Believed(x)
BY DEF Guessed, Believed, SessionOK, AllKinds, TCL

LEMMA FoundSlot ==
  ASSUME NEW x, Identified(x)
  PROVE  Guessed(x) /\ Believed(x)
BY DEF Identified, Guessed, Believed, SessionOK

LEMMA MisnamedSlot ==
  ASSUME NEW x, Misnamed(x)
  PROVE  Guessed(x) /\ Believed(x)
BY DEF Misnamed, Guessed, Believed, SessionOK, TCL

LEMMA SlotHere ==
  ASSUME SlotOK
  PROVE  /\ LinkOK(Here) /\ Guessed(Here) /\ (~bypassed => Believed(Here))
         /\ status \subseteq Bits /\ bypassed \in BOOLEAN
         /\ Here.antenna \in BOOLEAN
BY DEF SlotOK, LinkOK, Links

-----------------------------------------------------------------------------
(* The objects.                                                            *)

LEMMA PlainObjects ==
  ASSUME PcscInv,
         \/ VersionData \/ StartTransparentSession \/ EndTransparentSession
         \/ Timer \/ Parameters \/ FrameOptions \/ Unassigned \/ NotCarriedOut \/ LoneByte
  PROVE  PcscInv'
<1>1. CardAlone /\ transfer_status' \in BOOLEAN /\ Busy
  BY DEF PcscInv, VersionData, StartTransparentSession, EndTransparentSession, Timer, Parameters,
         FrameOptions, Unassigned, NotCarriedOut, LoneByte, Transparent
<1>2. SlotOK'
  BY <1>1, StutterSlot DEF PcscInv
<1>3. CommandOK(cmd) /\ cmd.r = "busy"
  BY <1>1, BusyOK DEF PcscInv
<1>4. CASE GoOn(cmd, {})
  <2>1. CmdOK'
    BY <1>3, <1>4, GoOnOK
  <2> QED  BY <1>1, <1>2, <2>1 DEF PcscInv
<1>5. CASE Refuse
  BY <1>1, <1>2, <1>5, RefuseOK DEF PcscInv
<1>6. CASE Parameters
  <2> DEFINE p == [cmd EXCEPT !.param = TRUE]
             q == [cmd EXCEPT !.param = TRUE, !.ret = "error"]
  <2>1. /\ p \in Commands /\ p.param = TRUE /\ p.r = "busy" /\ p.left = cmd.left
        /\ p.lost = cmd.lost
        /\ q \in Commands /\ q.param = TRUE /\ q.r = "busy" /\ q.left = cmd.left
        /\ q.lost = cmd.lost
    BY <1>3 DEF CommandOK, Commands
  <2>2. Break(p) \/ GoOn(q, {"other"})
    BY <1>6 DEF Parameters
  <2> HIDE DEF p, q
  <2>3. p.lost \/ p.left # 0
    BY <1>3, <2>1 DEF CommandOK
  <2>4. CommandOK(q)
    BY <1>3, <2>1 DEF CommandOK
  <2>5. CASE Break(p)
    <3>1. CmdOK'
      BY <2>1, <2>3, <2>5, BreakOK
    <3> QED  BY <1>1, <1>2, <3>1 DEF PcscInv
  <2>6. CASE GoOn(q, {"other"})
    <3>1. CmdOK'
      BY <2>1, <2>4, <2>6, GoOnOK DEF Sorts
    <3> QED  BY <1>1, <1>2, <3>1 DEF PcscInv
  <2> QED  BY <2>2, <2>5, <2>6
<1>7. CASE Unassigned
  <2>1. 0 \in 0 .. MaxObjects
    BY ObjectsAssumption
  <2>2. CommandOK(Command(0, "endless"))
    BY <2>1, CommandLemma
  <2>3. cmd' = Command(0, "endless")
    BY <1>7 DEF Unassigned
  <2>4. CmdOK'
    BY <2>2, <2>3 DEF CmdOK
  <2> QED  BY <1>1, <1>2, <2>4 DEF PcscInv
<1>8. CASE LoneByte
  <2>1. Break(cmd) /\ (cmd.lost \/ cmd.left = 1)
    BY <1>8 DEF LoneByte
  <2>2. cmd \in Commands /\ (cmd.lost \/ cmd.left # 0)
    BY <1>3 DEF CommandOK
  <2>3. cmd.param \/ cmd.lost \/ (cmd.left = 1 /\ cmd.ret = "ok" /\ cmd.vain \subseteq {"exchange"})
    BY <1>3, <2>1 DEF CommandOK
  <2>4. CmdOK'
    BY <2>1, <2>2, <2>3, BreakOK
  <2> QED  BY <1>1, <1>2, <2>4 DEF PcscInv
<1>9. GoOn(cmd, {}) \/ Refuse \/ Parameters \/ Unassigned \/ LoneByte
  BY DEF VersionData, StartTransparentSession, EndTransparentSession, Timer, FrameOptions,
         NotCarriedOut
<1> QED  BY <1>4, <1>5, <1>6, <1>7, <1>8, <1>9

\* An object that changes the card or the field, and goes on if it did what it
\* asks for or is a frame.
LEMMA CardObject ==
  ASSUME PcscInv, Busy, UNCHANGED <<status, transfer_status>>, SlotOK',
         \/ Refuse
         \/ \E e \in SUBSET {"exchange"} : GoOn(cmd, e) \/ GoOn(Anew, e)
         \/ GoOn(Astray, {})
  PROVE  PcscInv'
<1>1. CommandOK(cmd) /\ cmd.r = "busy"
  BY BusyOK DEF PcscInv
<1>2. CommandOK(Anew) /\ Anew.r = "busy" /\ CommandOK(Astray) /\ Astray.r = "busy" /\ Astray.lost
  BY <1>1, AnewOK
<1>3. CmdOK'
  <2>1. CASE Refuse
    BY <2>1, RefuseOK
  <2>2. ASSUME NEW e \in SUBSET {"exchange"}, GoOn(cmd, e) \/ GoOn(Anew, e)
        PROVE  CmdOK'
    <3>1. e \in SUBSET Sorts
      BY DEF Sorts
    <3> QED  BY <1>1, <1>2, <2>2, <3>1, GoOnOK
  <2>3. CASE GoOn(Astray, {})
    BY <1>2, <2>3, GoOnOK
  <2> QED  BY <2>1, <2>2, <2>3
<1> QED  BY <1>3 DEF PcscInv

LEMMA FieldObjects ==
  ASSUME PcscInv, TurnOffRF \/ TurnOnRF \/ SwitchToLayer2
  PROVE  PcscInv'
<1>0. Busy /\ UNCHANGED <<status, transfer_status>>
  BY DEF TurnOffRF, TurnOnRF, SwitchToLayer2
<1>1. /\ LinkOK(Here) /\ Guessed(Here) /\ (~bypassed => Believed(Here))
      /\ status' \subseteq Bits /\ bypassed \in BOOLEAN /\ SlotOK
  BY <1>0, SlotHere DEF PcscInv
<1>2. CASE TurnOffRF
  <2> DEFINE x == TurnOff(Here)
  <2>1. Leave(x) /\ GoOn(cmd, Unless(~antenna')) /\ bypassed' = TRUE
    BY <1>2 DEF TurnOffRF
  <2>2. /\ LinkOK(x) /\ x.antenna = FALSE
        /\ x.same = Here.same /\ x.type = Here.type /\ x.states = Here.states
    BY <1>1, TurnOffLemma
  <2> HIDE DEF x
  <2>3. Guessed(x)
    BY <1>1, <2>2, KeepsGuess
  <2>4. SlotOK'
    BY <1>1, <2>1, <2>2, <2>3, LeaveSlot
  <2>5. antenna' = FALSE
    BY <2>1, <2>2 DEF Leave
  <2>6. GoOn(cmd, {})
    BY <2>1, <2>5 DEF Unless
  <2> QED  BY <1>0, <2>4, <2>6, CardObject
<1>3. CASE TurnOnRF
  <2> DEFINE x == TurnOn(Here)
  <2>1. Leave(x) /\ GoOn(cmd, Unless(antenna')) /\ bypassed' = bypassed
    BY <1>3 DEF TurnOnRF
  <2>2. /\ LinkOK(x) /\ x.antenna = TRUE
        /\ x.same = Here.same /\ x.type = Here.type /\ x.states = Here.states
        /\ Here.mode # "off" => x.mode = Here.mode
    BY <1>1, TurnOnLemma
  <2> HIDE DEF x
  <2>3. Guessed(x)
    BY <1>1, <2>2, KeepsGuess
  <2>4. ~bypassed => Believed(x)
    <3> SUFFICES ASSUME ~bypassed PROVE Believed(x)
      OBVIOUS
    <3>1. Believed(Here)
      BY <1>1
    <3>2. Here.type \in TCL => x.mode = Here.mode
      <4>1. Here.type \in TCL => Here.antenna
        BY <3>1 DEF Believed, AllKinds
      <4> QED  BY <1>1, <2>2, <4>1 DEF LinkOK
    <3> QED  BY <2>2, <3>1, <3>2 DEF Believed, SessionOK
  <2>5. SlotOK'
    BY <1>1, <2>1, <2>2, <2>3, <2>4, LeaveSlot
  <2>6. antenna' = TRUE
    BY <2>1, <2>2 DEF Leave
  <2>7. GoOn(cmd, {})
    BY <2>1, <2>6 DEF Unless
  <2> QED  BY <1>0, <2>5, <2>7, CardObject
<1>4. CASE SwitchToLayer2
  <2> DEFINE x == picc_reset(Here)
  <2>1. Leave(x) /\ GoOn(Anew, Unless(antenna')) /\ bypassed' = bypassed
    BY <1>4 DEF SwitchToLayer2
  <2>2. /\ LinkOK(x) /\ x.antenna = TRUE
        /\ x.same = Here.same /\ x.type = Here.type /\ x.states = "IDLE"
    BY <1>1, ResetLemma
  <2> HIDE DEF x
  <2>3. Guessed(x)
    BY <1>1, <2>2, KeepsGuess
  <2>4. ~bypassed => Believed(x)
    BY <1>1, <2>2 DEF Believed, SessionOK
  <2>5. SlotOK'
    BY <1>1, <2>1, <2>2, <2>3, <2>4, LeaveSlot
  <2>6. antenna' = TRUE
    BY <2>1, <2>2 DEF Leave
  <2>7. GoOn(Anew, {})
    BY <2>1, <2>6 DEF Unless
  <2> QED  BY <1>0, <2>5, <2>7, CardObject
<1> QED  BY <1>2, <1>3, <1>4

\* A frame of the host: from then on the card is not as the driver has left
\* it.
LEMMA HostFrame ==
  ASSUME SlotOK, NEW f, NEW x \in Send(f, Here), pcsc_xfr_handler(x)
  PROVE  SlotOK'
<1>1. /\ LinkOK(Here) /\ Guessed(Here) /\ status' \subseteq Bits
      /\ Leave(x) /\ bypassed' = TRUE
  BY SlotHere DEF pcsc_xfr_handler
<1>2. LinkOK(x) /\ x.same = Here.same /\ x.type = Here.type /\ x.states = Here.states
  BY <1>1, SendLemma DEF Step, Keeps
<1>3. Guessed(x)
  BY <1>1, <1>2, KeepsGuess
<1> QED  BY <1>1, <1>2, <1>3, LeaveSlot

LEMMA FrameObjects ==
  ASSUME PcscInv, Transmit \/ Receive \/ Transceive
  PROVE  PcscInv'
<1>1. PICK f : \E x \in Send(f, Here) :
        /\ pcsc_xfr_handler(x)
        /\ GoOn(Anew, UnlessAnswered(x)) \/ GoOn(Astray, {})
  BY DEF Transmit, Receive, Transceive
<1>2. PICK x \in Send(f, Here) :
        /\ pcsc_xfr_handler(x)
        /\ GoOn(Anew, UnlessAnswered(x)) \/ GoOn(Astray, {})
  BY <1>1
<1>3. SlotOK' /\ UNCHANGED <<status, transfer_status>>
  BY <1>2, HostFrame DEF PcscInv, pcsc_xfr_handler
<1>4. Busy
  BY DEF Transmit, Receive, Transceive, Transparent
<1>5. UnlessAnswered(x) \in SUBSET {"exchange"}
  BY DEF UnlessAnswered
<1> QED  BY <1>2, <1>3, <1>4, <1>5, CardObject

LEMMA HaltBLemma ==
  ASSUME NEW w, LinkOK(w), NEW x \in typeB_halt(w)
  PROVE  Step(w, x) /\ x.states \in {w.states, "IDLE"}
<1>1. CASE w.states = "POWEROFF"
  BY <1>1, StepNone DEF typeB_halt
<1>2. CASE w.states # "POWEROFF"
  <2>1. PICK y \in Send("HLTB", w) : x = Noted(y, "IDLE")
    BY <1>2 DEF typeB_halt
  <2>2. Step(w, y) /\ y.states = w.states
    BY SendLemma
  <2>3. Step(y, x) /\ x.states \in {y.states, "IDLE"}
    BY <2>1, <2>2, NotedLemma DEF Step, States
  <2> QED  BY <2>2, <2>3, StepAgain
<1> QED  BY <1>1, <1>2

\* Nothing is active when a card is looked for.
LEMMA RestLemma ==
  ASSUME LinkOK(Here), NEW std, NEW x \in Rest(std)
  PROVE  /\ LinkOK(x) /\ x.same = same /\ x.type = type /\ (antenna => x.antenna)
         /\ x.states # "ACTIVATED"
<1>1. CASE states = "ACTIVATED"
  <2>1. x \in typeA_deselect_request(Here)
    BY <1>1 DEF Rest
  <2> QED  BY <2>1, DeselectLemma, HereFields DEF Step, Keeps
<1>2. CASE states = "POWEROFF"
  <2>1. x = TurnOn(Here)
    BY <1>2 DEF Rest
  <2> QED  BY <1>2, <2>1, TurnOnLemma, HereFields
<1>3. CASE states \notin {"ACTIVATED", "POWEROFF"}
  <2>1. x \in typeA_halt(Here) \/ x \in typeB_halt(Here)
    BY <1>3 DEF Rest
  <2>2. Step(Here, x) /\ x.states \in {Here.states, "IDLE"}
    BY <2>1, HaltLemma, HaltBLemma
  <2> QED  BY <1>3, <2>2, HereFields DEF Step, Keeps
<1> QED  BY <1>1, <1>2, <1>3

LEMMA WakeLemma ==
  ASSUME NEW std, NEW w, LinkOK(w), NEW x \in Wake(std, w)
  PROVE  /\ Step(w, x) /\ x.states \in {w.states, "READY", "IDLE"}
         /\ x.r = "ok" => IF std = "TYPEA" THEN card \in TypeA /\ x.mode = "active"
                          ELSE x.mode = "ready"
<1>1. CASE std = "TYPEA"
  BY <1>1, SelectLemma DEF Wake
<1>2. CASE std # "TYPEA"
  BY <1>2, TwiceRequestBLemma DEF Wake
<1> QED  BY <1>1, <1>2

LEMMA Layer3 ==
  ASSUME PcscInv, NEW std \in Standards, SwitchToLayer3(std)
  PROVE  PcscInv'
<1> DEFINE m == IF std = "TYPEA" THEN "active" ELSE "ready"
<1>0. Busy /\ UNCHANGED <<status, transfer_status>>
  BY DEF SwitchToLayer3
<1>1. /\ LinkOK(Here) /\ Guessed(Here) /\ (~bypassed => Believed(Here))
      /\ status' \subseteq Bits /\ bypassed \in BOOLEAN /\ SlotOK
  BY <1>0, SlotHere DEF PcscInv
<1>2. PICK x \in Then(Rest(std), LAMBDA w : Wake(std, w)) :
        /\ \E s \in IF std = "TYPEB" THEN {same} ELSE IF Failed(x) THEN {same, FALSE} ELSE {TRUE} :
             Leave([x EXCEPT !.same = s])
        /\ bypassed' = (bypassed \/ (same' /\ ~same))
        /\ IF Failed(x) THEN Refuse ELSE GoOn(Anew, Unless(mode' = m))
  BY DEF SwitchToLayer3
<1>3. PICK w \in Rest(std) : x \in Wake(std, w)
  BY <1>2 DEF Then
<1>4. /\ LinkOK(w) /\ w.same = same /\ w.type = type /\ (antenna => w.antenna)
      /\ w.states # "ACTIVATED"
  BY <1>1, <1>3, RestLemma
<1>5. /\ Step(w, x) /\ x.states \in {w.states, "READY", "IDLE"}
      /\ x.r = "ok" => IF std = "TYPEA" THEN card \in TypeA /\ x.mode = "active"
                       ELSE x.mode = "ready"
  BY <1>3, <1>4, WakeLemma
<1>6. PICK s \in IF std = "TYPEB" THEN {same} ELSE IF Failed(x) THEN {same, FALSE} ELSE {TRUE} :
        Leave([x EXCEPT !.same = s])
  BY <1>2
<1> DEFINE y == [x EXCEPT !.same = s]
<1>7. /\ x \in Links /\ LinkOK(x) /\ x.same = same /\ x.type = type /\ (antenna => x.antenna)
      /\ x.states # "ACTIVATED" /\ same \in BOOLEAN
  BY <1>4, <1>5 DEF Step, Keeps, LinkOK, Links
<1>8. s \in {same, FALSE} \/ (s = TRUE /\ card \in TypeA)
  BY <1>5, <1>6 DEF Failed, Standards
<1>9. /\ y \in Links /\ y.same = s /\ y.type = type /\ y.antenna = x.antenna
      /\ y.states = x.states /\ y.mode = x.mode /\ s \in BOOLEAN
  BY <1>7, <1>8 DEF Links
<1> HIDE DEF y
<1>10. LinkOK(y)
  <2>1. card \in TypeA => card # "none"
    BY DEF TypeA
  <2> QED  BY <1>7, <1>8, <1>9, <2>1 DEF LinkOK
<1>11. Guessed(y)
  BY <1>1, <1>7, <1>8, <1>9, HereFields DEF Guessed
<1>12. Leave(y) /\ same' = s /\ mode' = x.mode
  BY <1>6, <1>9 DEF y, Leave
<1>13. bypassed' \in BOOLEAN /\ (~bypassed' => ~bypassed /\ (s => same))
  BY <1>1, <1>2, <1>7, <1>9, <1>12
<1>14. ~bypassed' => Believed(y)
  <2> SUFFICES ASSUME ~bypassed', Believed(Here)
               PROVE  Believed(y)
    BY <1>1, <1>13
  <2> QED  BY <1>7, <1>9, <1>13, HereFields DEF Believed, SessionOK
<1>15. SlotOK'
  BY <1>1, <1>10, <1>11, <1>12, <1>13, <1>14, LeaveSlot
<1>16. Refuse \/ GoOn(Anew, {})
  <2>1. CASE Failed(x)
    BY <1>2, <2>1
  <2>2. CASE ~Failed(x)
    <3>1. mode' = m
      BY <1>5, <1>12, <2>2 DEF Failed
    <3> QED  BY <1>2, <2>2, <3>1 DEF Unless
  <2> QED  BY <2>1, <2>2
<1> QED  BY <1>0, <1>15, <1>16, CardObject

LEMMA Layer4 ==
  ASSUME PcscInv, NEW std \in Standards, SwitchToLayer4(std)
  PROVE  PcscInv'
<1>0. Busy /\ UNCHANGED <<status, transfer_status>>
  BY DEF SwitchToLayer4
<1>1. /\ LinkOK(Here) /\ Guessed(Here) /\ (~bypassed => Believed(Here))
      /\ status' \subseteq Bits /\ bypassed \in BOOLEAN /\ SlotOK
  BY <1>0, SlotHere DEF PcscInv
<1>2. PICK x \in Then(Rest(std), LAMBDA w : Identify(std, w)) :
        /\ Leave(x)
        /\ IF x.type = "ABSENT" THEN Refuse /\ UNCHANGED bypassed
           ELSE GoOn(Anew, Unless(same' /\ type' = card /\ (type' \in TCL => mode' = "protocol")))
                /\ bypassed' = FALSE
  BY DEF SwitchToLayer4
<1>3. PICK w \in Rest(std) : x \in Identify(std, w)
  BY <1>2 DEF Then
<1>4. LinkOK(w)
  BY <1>1, <1>3, RestLemma
<1>5. Searched(w, x)
  BY <1>3, <1>4, PollingA, PollingB DEF Identify
<1>6. CASE x.type = "ABSENT"
  <2>1. Refuse /\ bypassed' = bypassed /\ Guessed(x) /\ Believed(x)
    BY <1>2, <1>6, GiveUpSlot
  <2>2. SlotOK'
    BY <1>1, <1>2, <1>5, <2>1, LeaveSlot DEF Searched
  <2> QED  BY <1>0, <2>1, <2>2, CardObject
<1>7. CASE x.type # "ABSENT"
  <2>1. /\ Identified(x) /\ LinkOK(x) /\ bypassed' = FALSE
        /\ GoOn(Anew, Unless(same' /\ type' = card /\ (type' \in TCL => mode' = "protocol")))
    BY <1>2, <1>5, <1>7 DEF Searched
  <2>2. SlotOK'
    BY <1>1, <1>2, <2>1, FoundSlot, LeaveSlot
  <2>3. same' /\ type' = card /\ (type' \in TCL => mode' = "protocol")
    BY <1>2, <2>1 DEF Leave, Identified
  <2>4. GoOn(Anew, {})
    <3>1. Unless(same' /\ type' = card /\ (type' \in TCL => mode' = "protocol")) = {}
      BY <2>3 DEF Unless
    <3> QED  BY <2>1, <3>1
  <2> QED  BY <1>0, <2>2, <2>4, CardObject
<1> QED  BY <1>6, <1>7

-----------------------------------------------------------------------------
(* Commands and the operations of the card session.                        *)

LEMMA Boundaries ==
  ASSUME PcscInv, Reply \/ \E n \in 1 .. MaxObjects : Begin(n)
  PROVE  PcscInv'
<1>1. CardAlone /\ transfer_status' = transfer_status
  BY DEF Reply, Begin
<1>2. SlotOK'
  BY <1>1, StutterSlot DEF PcscInv
<1>3. CASE Reply
  BY <1>1, <1>2, <1>3 DEF PcscInv, CmdOK, Reply
<1>4. CASE \E n \in 1 .. MaxObjects : Begin(n)
  <2>1. PICK n \in 1 .. MaxObjects : Begin(n)
    BY <1>4
  <2>2. n \in 0 .. MaxObjects /\ n # 0
    BY ObjectsAssumption
  <2>3. CommandOK(Command(n, "busy"))
    BY <2>2, CommandLemma
  <2>4. cmd' = Command(n, "busy")
    BY <2>1 DEF Begin
  <2>5. CmdOK'
    BY <2>3, <2>4 DEF CmdOK
  <2> QED  BY <1>1, <1>2, <2>5 DEF PcscInv
<1> QED  BY <1>3, <1>4

LEMMA SessionSteps ==
  ASSUME PcscInv, SlotOK', UNCHANGED cmd, UNCHANGED transfer_status
  PROVE  PcscInv'
BY DEF PcscInv, CmdOK

LEMMA PollSlot ==
  ASSUME SlotOK, PollPcsc
  PROVE  SlotOK'
<1>1. /\ LinkOK(Here) /\ Guessed(Here) /\ (~bypassed => Believed(Here))
      /\ status \subseteq Bits /\ bypassed \in BOOLEAN
  BY SlotHere
<1>2. Poll /\ bypassed' = (bypassed /\ Present /\ "PRESENT" \in status')
  BY DEF PollPcsc
<1>3. CASE PollFirst
  <2>1. PICK x \in LookForCard(Here) :
          IF x.type = "ABSENT"
          THEN Leave(TurnOff(x)) /\ Notify(status \ Shown)
          ELSE Leave(x) /\ Notify(status \cup Shown \cup {"SLOT_CHANGE"})
    BY <1>3 DEF PollFirst
  <2>2. LinkOK(x) /\ (x.type = "ABSENT" \/ Identified(x) \/ Misnamed(x))
    BY <1>1, LookLemma
  <2>3. status' \subseteq Bits
    BY <1>1, <2>1 DEF Notify, Shown, Bits
  <2>4. bypassed' \in BOOLEAN
    BY <1>1, <1>2
  <2>5. CASE x.type = "ABSENT"
    <3>1. LinkOK(TurnOff(x)) /\ TurnOff(x).type = "ABSENT"
      BY <2>2, <2>5, TurnOffLemma
    <3>2. Leave(TurnOff(x))
      BY <2>1, <2>5
    <3> QED  BY <2>3, <2>4, <3>1, <3>2, GiveUpSlot, LeaveSlot
  <2>6. CASE x.type # "ABSENT"
    BY <2>1, <2>2, <2>3, <2>4, <2>6, FoundSlot, MisnamedSlot, LeaveSlot
  <2> QED  BY <2>5, <2>6
<1>4. CASE PollAgain
  <2>1. PICK c \in CheckCard(Here) :
          IF c.still
          THEN Leave(c.link) /\ Notify(status)
          ELSE Leave(Absent(TurnOff(c.link))) /\ Notify((status \ Shown) \cup {"SLOT_CHANGE"})
    BY <1>4 DEF PollAgain
  <2>2. Right(Here, c)
    BY <1>1, CheckLemma
  <2>3. status' \subseteq Bits
    BY <1>1, <2>1 DEF Notify, Shown, Bits
  <2>4. CASE c.still
    <3>1. LinkOK(c.link) /\ Guessed(c.link)
      BY <1>1, <2>2, KeepsGuess DEF Right
    <3>2. "PRESENT" \in status' /\ Leave(c.link)
      BY <1>4, <2>1, <2>4 DEF PollAgain, Present, Notify
    <3>3. bypassed' = bypassed
      BY <1>1, <1>2, <1>4, <3>2 DEF PollAgain
    <3>4. ~bypassed => Believed(c.link)
      BY <1>1, <2>2, <2>4 DEF Right, Believed
    <3> QED  BY <1>1, <2>3, <3>1, <3>2, <3>3, <3>4, LeaveSlot
  <2>5. CASE ~c.still
    <3> DEFINE y == Absent(TurnOff(c.link))
    <3>1. LinkOK(y) /\ y.type = "ABSENT"
      <4>1. LinkOK(TurnOff(c.link))
        BY <2>2, TurnOffLemma DEF Right
      <4> QED  BY <4>1, AbsentLemma
    <3>2. Leave(y)
      BY <2>1, <2>5
    <3> HIDE DEF y
    <3>3. bypassed' \in BOOLEAN
      BY <1>1, <1>2
    <3> QED  BY <2>3, <3>1, <3>2, <3>3, GiveUpSlot, LeaveSlot
  <2> QED  BY <2>2, <2>4, <2>5 DEF Right
<1> QED  BY <1>2, <1>3, <1>4 DEF Poll

LEMMA PowerOnSlot ==
  ASSUME SlotOK, PowerOn
  PROVE  SlotOK'
<1>1. /\ LinkOK(Here) /\ Guessed(Here) /\ (~bypassed => Believed(Here))
      /\ status \subseteq Bits /\ bypassed \in BOOLEAN
  BY SlotHere
<1>2. picc_power_on /\ bypassed' = (bypassed /\ states # "POWEROFF")
  BY DEF PowerOn
<1>3. PICK x \in IF states = "POWEROFF" THEN Reactivate(Here) ELSE {Here} :
        IF x.type = "ABSENT"
        THEN Leave(TurnOff(x)) /\ status' = status \ {"ACTIVATED"}
        ELSE Leave(x) /\ status' = status \cup {"ACTIVATED"}
  BY <1>2 DEF picc_power_on
<1>4. status' \subseteq Bits /\ bypassed' \in BOOLEAN
  BY <1>1, <1>2, <1>3 DEF Bits
<1>5. LinkOK(x) /\ Guessed(x) /\ (~bypassed' => Believed(x))
  <2>1. CASE states # "POWEROFF"
    BY <1>1, <1>2, <1>3, <2>1
  <2>2. CASE states = "POWEROFF"
    <3>1. x \in Reactivate(Here) /\ Here.states = "POWEROFF"
      BY <1>3, <2>2, HereFields
    <3>2. /\ LinkOK(x) /\ x.antenna = TRUE /\ SessionOK(x)
          /\ Truthful(x) \/ ( /\ x.type = "TOPAZ" /\ Here.type = "TOPAZ"
                            /\ x.same = Here.same /\ x.states # "ACTIVATED")
      BY <1>1, <3>1, ReactivateLemma
    <3>3. Guessed(x)
      BY <1>1, <3>2 DEF Guessed, Truthful, AllKinds
    <3>4. Believed(x)
      BY <3>2 DEF Believed, Truthful
    <3> QED  BY <3>2, <3>3, <3>4
  <2> QED  BY <2>1, <2>2
<1>6. CASE x.type = "ABSENT"
  <2>1. LinkOK(TurnOff(x)) /\ TurnOff(x).type = "ABSENT" /\ Leave(TurnOff(x))
    BY <1>3, <1>5, <1>6, TurnOffLemma
  <2>2. Guessed(TurnOff(x)) /\ Believed(TurnOff(x))
    BY <2>1, GiveUpSlot
  <2> QED  BY <1>4, <2>1, <2>2, LeaveSlot
<1>7. CASE x.type # "ABSENT"
  BY <1>3, <1>4, <1>5, <1>7, LeaveSlot
<1> QED  BY <1>6, <1>7

\* A card that a protocol switch has found is deselected or halted.
LEMMA PowerOffSlot ==
  ASSUME SlotOK, PowerOff
  PROVE  SlotOK'
<1>1. /\ LinkOK(Here) /\ Guessed(Here) /\ (~bypassed => Believed(Here))
      /\ status \subseteq Bits /\ bypassed \in BOOLEAN
  BY SlotHere
<1>2. picc_power_off /\ bypassed' = bypassed
  BY DEF PowerOff
<1>3. PICK x \in IF type \in TCL THEN typeA_deselect_request(Here)
                ELSE IF type = "MIFARE" THEN typeA_halt(Here) ELSE {Here} : Leave(x)
  BY <1>2 DEF picc_power_off
<1>4. status' \subseteq Bits
  BY <1>1, <1>2 DEF picc_power_off
<1>5. CASE type \in TCL
  <2>1. Step(Here, x) /\ x.states # "ACTIVATED"
    BY <1>1, <1>3, <1>5, DeselectLemma
  <2>2. LinkOK(x) /\ x.same = Here.same /\ x.type = Here.type /\ x.antenna = Here.antenna
    BY <2>1 DEF Step, Keeps
  <2>3. Guessed(x)
    BY <1>1, <2>1, <2>2, KeepsGuess
  <2>4. ~bypassed => Believed(x)
    BY <1>1, <2>1, <2>2 DEF Believed, SessionOK
  <2> QED  BY <1>1, <1>2, <1>3, <1>4, <2>2, <2>3, <2>4, LeaveSlot
<1>6. CASE type = "MIFARE"
  <2>1. Step(Here, x) /\ x.states \in {Here.states, "IDLE"}
    BY <1>1, <1>3, <1>6, HaltLemma DEF TCL
  <2>2. LinkOK(x) /\ x.same = Here.same /\ x.type = Here.type /\ x.antenna = Here.antenna
    BY <2>1 DEF Step, Keeps
  <2>3. Guessed(x)
    BY <1>1, <2>1, <2>2, KeepsGuess
  <2>4. ~bypassed => Believed(x)
    BY <1>1, <1>6, <2>2, HereFields DEF Believed, SessionOK, TCL
  <2> QED  BY <1>1, <1>2, <1>3, <1>4, <2>2, <2>3, <2>4, LeaveSlot
<1>7. CASE type \notin TCL /\ type # "MIFARE"
  BY <1>1, <1>2, <1>3, <1>4, <1>7, LeaveSlot
<1> QED  BY <1>5, <1>6, <1>7

LEMMA ApduSlot ==
  ASSUME SlotOK, Apdu
  PROVE  SlotOK'
<1>1. /\ LinkOK(Here) /\ Guessed(Here) /\ (~bypassed => Believed(Here))
      /\ status \subseteq Bits /\ bypassed \in BOOLEAN
  BY SlotHere
<1>2. ExchangeApdu /\ bypassed' = bypassed
  BY DEF Apdu
<1>3. CASE UNCHANGED vars
  BY <1>2, <1>3, StutterSlot DEF CardAlone
<1>4. CASE status' = status \ {"ACTIVATED"} /\ \E x \in typeA_deselect_request(Here) : Leave(x)
  <2>1. PICK x \in typeA_deselect_request(Here) : Leave(x)
    BY <1>4
  <2>2. Step(Here, x) /\ x.states # "ACTIVATED"
    BY <1>1, <2>1, DeselectLemma
  <2>3. LinkOK(x) /\ x.same = Here.same /\ x.type = Here.type /\ x.antenna = Here.antenna
    BY <2>2 DEF Step, Keeps
  <2>4. Guessed(x)
    BY <1>1, <2>2, <2>3, KeepsGuess
  <2>5. ~bypassed => Believed(x)
    BY <1>1, <2>2, <2>3 DEF Believed, SessionOK
  <2>6. status' \subseteq Bits
    BY <1>1, <1>4
  <2> QED  BY <1>1, <1>2, <2>1, <2>3, <2>4, <2>5, <2>6, LeaveSlot
<1> QED  BY <1>2, <1>3, <1>4 DEF ExchangeApdu

LEMMA MifareSlot ==
  ASSUME SlotOK, Mifare
  PROVE  SlotOK'
<1>1. /\ LinkOK(Here) /\ Guessed(Here) /\ (~bypassed => Believed(Here))
      /\ status \subseteq Bits /\ bypassed \in BOOLEAN
  BY SlotHere
<1>2. ExchangeMifare /\ bypassed' = bypassed /\ status' = status /\ Here.type = "MIFARE"
  BY HereFields DEF Mifare, ExchangeMifare
<1>3. PICK x \in {Here} \cup (IF states # "SELECTED" THEN mifare_select(Here) ELSE {}) :
        \/ Leave(x)
        \/ x.mode = "active" /\ Leave([x EXCEPT !.mode = "halt"])
  BY <1>2 DEF ExchangeMifare
<1>4. /\ LinkOK(x) /\ x.same = Here.same /\ x.type = Here.type /\ x.antenna = Here.antenna
      /\ x.states = "ACTIVATED" => Here.states = "ACTIVATED"
  <2>1. x = Here \/ x \in mifare_select(Here)
    OBVIOUS
  <2> QED  BY <1>1, <2>1, MifareLemma DEF Step, Keeps
<1>5. ASSUME NEW y, LinkOK(y), y.same = Here.same, y.type = Here.type,
             y.antenna = Here.antenna, y.states = x.states, Leave(y)
      PROVE  SlotOK'
  <2>1. Guessed(y)
    BY <1>1, <1>4, <1>5, KeepsGuess
  <2>2. ~bypassed => Believed(y)
    BY <1>1, <1>2, <1>5 DEF Believed, SessionOK, TCL
  <2> QED  BY <1>1, <1>2, <1>5, <2>1, <2>2, LeaveSlot
<1>6. CASE Leave(x)
  BY <1>4, <1>5, <1>6
<1>7. CASE x.mode = "active" /\ Leave([x EXCEPT !.mode = "halt"])
  <2> DEFINE y == [x EXCEPT !.mode = "halt"]
  <2>1. x \in Links /\ "halt" \in Modes
    BY <1>4 DEF LinkOK, Modes
  <2>2. /\ y \in Links /\ y.mode = "halt" /\ y.antenna = x.antenna /\ y.same = x.same
        /\ y.type = x.type /\ y.states = x.states
    BY <2>1 DEF Links
  <2>3. Leave(y)
    BY <1>7
  <2> HIDE DEF y
  <2>4. Possible("halt") /\ card # "none" /\ x.antenna
    BY <1>4, <1>7 DEF LinkOK, Possible, TypeA
  <2>5. LinkOK(y)
    BY <1>4, <2>2, <2>4 DEF LinkOK
  <2> QED  BY <1>4, <1>5, <2>2, <2>3, <2>5
<1> QED  BY <1>3, <1>6, <1>7

LEMMA OutsideSlot ==
  ASSUME SlotOK,
         \/ ResetParameters
         \/ \E k \in Kinds : BringAny(k)
         \/ TakeAny
         \/ \E n \in 0 .. MaxNoise : DisturbAny(n)
  PROVE  SlotOK'
<1>1. /\ LinkOK(Here) /\ Guessed(Here) /\ (~bypassed => Believed(Here))
      /\ status \subseteq Bits /\ bypassed \in BOOLEAN /\ Here.antenna \in BOOLEAN
  BY SlotHere
<1>2. bypassed' = bypassed /\ card \in Kinds \cup {"none"} /\ noise \in 0 .. MaxNoise
  BY DEF ResetParameters, BringAny, TakeAny, DisturbAny, SlotOK
<1>3. ASSUME LinkOK(Here)', SessionOK(Here)', UNCHANGED <<status, type, antenna>>,
             same' => same /\ card' = card /\ states' # "ACTIVATED",
             card' \in Kinds \cup {"none"}, noise' \in 0 .. MaxNoise
      PROVE  SlotOK'
  <2>1. /\ Here'.same = same' /\ Here'.type = type /\ Here'.states = states'
        /\ Here'.antenna = antenna
    BY <1>3 DEF Here
  <2>2. Guessed(Here)'
    BY <1>1, <1>3, <2>1, HereFields DEF Guessed
  <2>3. ~bypassed' => Believed(Here)'
    BY <1>1, <1>2, <1>3, <2>1, HereFields DEF Believed
  <2> QED  BY <1>1, <1>2, <1>3, <2>2, <2>3 DEF SlotOK
<1>4. CASE ResetParameters
  <2>1. /\ LinkOK(Here)' /\ SessionOK(Here)'
        /\ UNCHANGED <<status, type, antenna, same, card, noise>> /\ states' = "POWEROFF"
    BY <1>1, <1>4, ParamLink DEF ResetParameters, picc_param_init
  <2> QED  BY <1>2, <1>3, <2>1
<1>5. CASE \E k \in Kinds : BringAny(k)
  <2>1. PICK k \in Kinds : Bring(k)
    BY <1>5 DEF BringAny
  <2>2. /\ LinkOK(Here)' /\ SessionOK(Here)' /\ ~same'
        /\ UNCHANGED <<status, type, antenna, noise>> /\ card' = k
    BY <1>1, <2>1, BringLink, HereFields DEF Bring
  <2> QED  BY <1>2, <1>3, <2>2
<1>6. CASE TakeAny
  <2>1. /\ LinkOK(Here)' /\ SessionOK(Here)' /\ ~same'
        /\ UNCHANGED <<status, type, antenna, noise>> /\ card' = "none"
    BY <1>1, <1>6, TakeLink DEF TakeAny, Take
  <2> QED  BY <1>2, <1>3, <2>1
<1>7. CASE \E n \in 0 .. MaxNoise : DisturbAny(n)
  <2>1. noise' \in 0 .. MaxNoise
    BY <1>7 DEF DisturbAny, Disturb
  <2>2. UNCHANGED <<status, states, type, antenna, card, mode, same, bypassed>>
    BY <1>7 DEF DisturbAny, Disturb
  <2>3. Here' = Here
    BY <2>2 DEF Here
  <2> QED
    BY <2>1, <2>2, <2>3 DEF SlotOK, LinkOK, Guessed, Believed, SessionOK, Possible
<1> QED  BY <1>4, <1>5, <1>6, <1>7

LEMMA RawFrameSlot ==
  ASSUME SlotOK, RawFrame
  PROVE  SlotOK'
<1>1. PICK f \in Frames : \E x \in Send(f, Here) : pcsc_xfr_handler(x)
  BY DEF RawFrame
<1> QED  BY <1>1, HostFrame

LEMMA PcscInitInv ==
  ASSUME PcscInit
  PROVE  PcscInv
<1>1. IInv
  BY InitInv DEF PcscInit
<1>2. LinkOK(Here) /\ SessionOK(Here) /\ TypeOK
  BY <1>1 DEF IInv
<1>3. Here.type = "UNSET" /\ Here.same = FALSE
  BY HereFields DEF PcscInit, Init
<1>4. Guessed(Here) /\ Believed(Here)
  BY <1>2, <1>3 DEF Guessed, Believed, AllKinds, TCL
<1> QED  BY <1>2, <1>4 DEF PcscInit, PcscInv, SlotOK, CmdOK, TypeOK

LEMMA ObjectInv ==
  ASSUME PcscInv, Object
  PROVE  PcscInv'
<1>1. CASE \/ VersionData \/ StartTransparentSession \/ EndTransparentSession
           \/ Timer \/ Parameters \/ FrameOptions \/ Unassigned \/ NotCarriedOut \/ LoneByte
  BY <1>1, PlainObjects
<1>2. CASE TurnOffRF \/ TurnOnRF \/ SwitchToLayer2
  BY <1>2, FieldObjects
<1>3. CASE Transmit \/ Receive \/ Transceive
  BY <1>3, FrameObjects
<1>4. CASE \E std \in Standards : SwitchToLayer3(std) \/ SwitchToLayer4(std)
  BY <1>4, Layer3, Layer4
<1> QED  BY <1>1, <1>2, <1>3, <1>4 DEF Object

LEMMA PcscNextInv ==
  ASSUME PcscInv, [PcscNext]_pcscVars
  PROVE  PcscInv'
<1>0. SlotOK
  BY DEF PcscInv
<1>1. CASE Object
  BY <1>1, ObjectInv
<1>2. CASE Reply \/ \E n \in 1 .. MaxObjects : Begin(n)
  BY <1>2, Boundaries
<1>3. CASE PollPcsc
  <2>1. UNCHANGED cmd /\ UNCHANGED transfer_status
    BY <1>3 DEF PollPcsc
  <2> QED  BY <1>0, <1>3, <2>1, PollSlot, SessionSteps
<1>4. CASE PowerOn
  <2>1. UNCHANGED cmd /\ UNCHANGED transfer_status
    BY <1>4 DEF PowerOn
  <2> QED  BY <1>0, <1>4, <2>1, PowerOnSlot, SessionSteps
<1>5. CASE PowerOff
  <2>1. UNCHANGED cmd /\ UNCHANGED transfer_status
    BY <1>5 DEF PowerOff
  <2> QED  BY <1>0, <1>5, <2>1, PowerOffSlot, SessionSteps
<1>6. CASE Apdu
  <2>1. UNCHANGED cmd /\ UNCHANGED transfer_status
    BY <1>6 DEF Apdu
  <2> QED  BY <1>0, <1>6, <2>1, ApduSlot, SessionSteps
<1>7. CASE Mifare
  <2>1. UNCHANGED cmd /\ UNCHANGED transfer_status
    BY <1>7 DEF Mifare
  <2> QED  BY <1>0, <1>7, <2>1, MifareSlot, SessionSteps
<1>8. CASE RawFrame
  <2>1. UNCHANGED cmd /\ UNCHANGED transfer_status
    BY <1>8 DEF RawFrame, pcsc_xfr_handler
  <2> QED  BY <1>0, <1>8, <2>1, RawFrameSlot, SessionSteps
<1>9. CASE \/ ResetParameters
           \/ \E k \in Kinds : BringAny(k)
           \/ TakeAny
           \/ \E n \in 0 .. MaxNoise : DisturbAny(n)
  <2>1. UNCHANGED cmd /\ UNCHANGED transfer_status
    BY <1>9 DEF ResetParameters, BringAny, TakeAny, DisturbAny
  <2> QED  BY <1>0, <1>9, <2>1, OutsideSlot, SessionSteps
<1>10. CASE UNCHANGED pcscVars
  <2>1. CardAlone /\ UNCHANGED cmd /\ UNCHANGED transfer_status
    BY <1>10 DEF pcscVars, CardAlone
  <2> QED  BY <1>0, <2>1, StutterSlot, SessionSteps
<1> QED
  BY <1>1, <1>2, <1>3, <1>4, <1>5, <1>6, <1>7, <1>8, <1>9, <1>10 DEF PcscNext

-----------------------------------------------------------------------------
(* The theorems.                                                           *)

\* Whatever a host sends to the card behind the back of the driver, PcscInv
\* holds.
THEOREM PcscInvariance == PcscSpec => []PcscInv
<1>1. PcscInit => PcscInv
  BY PcscInitInv
<1>2. PcscInv /\ [PcscNext]_pcscVars => PcscInv'
  BY PcscNextInv
<1> QED  BY <1>1, <1>2, PTL DEF PcscSpec

\* Every variable keeps to its type, through all commands.
THEOREM PcscTypeCorrect == PcscSpec => []PcscTypeOK
<1>1. PcscInv => PcscTypeOK
  <2> SUFFICES ASSUME PcscInv PROVE PcscTypeOK
    OBVIOUS
  <2>1. Here \in Links
    BY DEF PcscInv, SlotOK, LinkOK
  <2>2. /\ antenna \in BOOLEAN /\ mode \in Modes /\ same \in BOOLEAN /\ states \in States
        /\ type \in AllKinds \cup {"UNSET", "ABSENT"}
    BY <2>1, HereFields DEF Links, Types
  <2>3. TypeOK
    BY <2>2 DEF PcscInv, SlotOK, TypeOK
  <2>4. cmd = Idle \/ (cmd.left \in 0 .. MaxObjects /\ cmd.vain \subseteq Sorts
                             /\ cmd.r \in {"busy", "ok", "error", "endless"})
    BY DEF PcscInv, CmdOK, CommandOK, Commands
  <2> QED  BY <2>3, <2>4 DEF PcscTypeOK, PcscInv, SlotOK
<1> QED  BY <1>1, PcscInvariance, PTL

\* Protocol switches, however they fail, leave PICC_ACTIVATED and the card in
\* step and a known card in the field, until the host goes round the driver.
THEOREM KeepsSession == PcscSpec => []SwitchKeepsSession
<1>1. PcscInv => SwitchKeepsSession
  <2> SUFFICES ASSUME PcscInv, ~bypassed PROVE InSession /\ (Known => antenna)
    BY DEF SwitchKeepsSession
  <2>1. Believed(Here)
    BY DEF PcscInv, SlotOK
  <2> QED  BY <2>1, HereFields DEF Believed, SessionOK, InSession, Known
<1> QED  BY <1>1, PcscInvariance, PTL

\* A command is only answered with success if it was carried out to its end and
\* nothing in it was in vain but frames that were not answered; parameters and
\* what follows a TRANSCEIVE excepted.
THEOREM MeansAll == PcscSpec => []SuccessMeansAll
<1>1. PcscInv => SuccessMeansAll
  <2> SUFFICES ASSUME PcscInv, cmd.r = "ok", ~cmd.param, ~cmd.lost
               PROVE  cmd.left = 0 /\ cmd.vain \subseteq {"exchange"}
    BY DEF SuccessMeansAll
  <2>1. CommandOK(cmd)
    BY DEF PcscInv, CmdOK, Idle
  <2> QED  BY <2>1 DEF CommandOK
<1> QED  BY <1>1, PcscInvariance, PTL

\* Between the commands of a transparent session a poll is right about the card
\* it finds, and does not give up the one it knows.
THEOREM StaysRight == PcscSpec => PollStaysRight
<1>1. PcscInv /\ [PcscNext]_pcscVars =>
        [PollPcsc /\ ~bypassed =>
           /\ Certain(type', states') => same'
           /\ Present /\ Known /\ same /\ Findable => "PRESENT" \in status']_pcscVars
  <2> SUFFICES ASSUME PcscInv, PollPcsc, ~bypassed
               PROVE
           /\ Certain(type', states') => same'
           /\ Present /\ Known /\ same /\ Findable => "PRESENT" \in status'
    OBVIOUS
  <2>1. LinkOK(Here) /\ Guessed(Here) /\ Believed(Here) /\ Poll
    BY DEF PcscInv, SlotOK, PollPcsc
  <2>2. SessionOK(Here) /\ noise \in Nat
    BY <2>1, NoiseAssumption DEF Believed, PcscInv, SlotOK
  <2>3. Certain(type', states') => same'
    BY <2>1, <2>2, TellsApart
  <2>4. ASSUME Present, Known, same, Findable PROVE "PRESENT" \in status'
    <3>1. PollAgain
      BY <2>1, <2>4 DEF Poll, PollFirst
    <3>2. antenna /\ (type = card \/ (type = "TOPAZ" /\ card \in TypeA /\ states # "ACTIVATED"))
      BY <2>1, <2>4, HereFields DEF Believed, Guessed, Known
    <3> QED  BY <2>1, <2>2, <2>4, <3>1, <3>2, KeepsCard
  <2> QED  BY <2>3, <2>4
<1> QED  BY <1>1, PcscInvariance, PTL DEF PcscSpec, PollStaysRight

=============================================================================
