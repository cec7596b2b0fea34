---------------------------- MODULE PiccSession ----------------------------
(***************************************************************************)
(* The card session of mod/src/picc.c: what the driver holds about the     *)
(* card (status, states, type) as cards come and go, as the poll, power    *)
(* on, power off and exchanges talk to them, and as the gadget resets the  *)
(* parameters.  Each of these is one step here: they exclude each other    *)
(* by the semaphore of PcdDevice.                                          *)
(*                                                                         *)
(* A step is composed of exchanges of one frame each, any of which may get *)
(* lost or damaged.  A link is what such an exchange can change; each      *)
(* function of the driver is the set of the links it may leave.  The cards *)
(* are not part of the sources: they follow ISO/IEC 14443-3 and -4, which  *)
(* the comments of the code refer to.                                      *)
(***************************************************************************)
EXTENDS Naturals

CONSTANTS
  Kinds,      \* the kinds of card that are ever brought
  MaxNoise    \* frames that get lost or damaged within one step

TCL      == {"TYPEA_TCL", "TYPEB_TCL"}
AllKinds == TCL \cup {"MIFARE", "FELICA", "TOPAZ"}

ASSUME KindsAssumption == Kinds \subseteq AllKinds /\ Kinds # {}
ASSUME NoiseAssumption == MaxNoise \in Nat

VARIABLES
  status,    \* the bits that are set
  states,    \* enum picc_state
  type,      \* 0 until the first poll: "UNSET"
  antenna,   \* the field is on
  card,      \* the kind of the card at the reader, or "none"
  mode,      \* the state that card is in, "off" without a field
  same,      \* type and sn are those of the card at the reader
  noise      \* how many frames get lost per step, for the time being

vars == <<status, states, type, antenna, card, mode, same, noise>>

Bits   == {"PRESENT", "ACTIVATED", "FIRST_INSERT", "SLOT_CHANGE"}
Modes  == {"off", "idle", "ready", "active", "protocol", "halt"}
States == {"POWEROFF", "IDLE", "READY", "SELECTED", "ACTIVATED"}

Present == "PRESENT" \in status
Known   == type \in AllKinds

----------------------------------------------------------------------------
(* The cards and the air.                                                  *)

TypeA == {"TYPEA_TCL", "MIFARE"}

\* <<kind, state, frame, next state>>: what the cards answer to.  FeliCa and
\* Topaz cards are always ready.
Dialogue ==
  (TypeA \X {"idle", "halt"} \X {"WUPA"} \X {"ready"})
    \cup (TypeA \X {"ready"} \X {"ANTICOLL"} \X {"ready"})
    \cup (TypeA \X {"ready"} \X {"SELECT", "SELECT_SN"} \X {"active"})
    \cup {<<"TYPEA_TCL", "active", "RATS", "protocol">>}
    \cup ({"TYPEB_TCL"} \X {"idle", "halt", "ready"} \X {"WUPB"} \X {"ready"})
    \cup {<<"TYPEB_TCL", "ready", "ATTRIB", "protocol">>}
    \cup {<<"TYPEB_TCL", "ready", "HLTB", "halt">>}
    \cup (TCL \X {"protocol"} \X {"RACK"} \X {"protocol"})
    \cup (TCL \X {"protocol"} \X {"DESELECT"} \X {"halt"})
    \cup ({"FELICA"} \X {"idle"} \X {"REQC", "REQRESPONSE_SN"} \X {"idle"})
    \cup ({"TOPAZ"} \X {"idle"} \X {"WUPA", "RID"} \X {"idle"})

\* A frame that names a UID concerns the card of that UID only.
Answers(cmd, w) ==
  /\ \E m \in Modes : <<card, w.mode, cmd, m>> \in Dialogue
  /\ cmd \in {"SELECT_SN", "REQRESPONSE_SN", "HLTB"} => w.same

\* The state a card goes to.  What it does not expect sends a card of type A
\* that has been woken back to sleep; HLTA is never answered.
After(cmd, w) ==
  IF Answers(cmd, w) THEN CHOOSE m \in Modes : <<card, w.mode, cmd, m>> \in Dialogue
  ELSE IF w.mode \in {"ready", "active"} /\ card \in TypeA
       THEN IF cmd = "HLTA" THEN "halt" ELSE "idle"
       ELSE w.mode

\* A link: the field, the card's state, what the driver has noted, the
\* result of the last exchange and the frames lost so far.
Here == [antenna |-> antenna, mode |-> mode, same |-> same, states |-> states,
         type |-> type, r |-> "ok", lost |-> 0]

\* picc_wait_for_req: the answer, or NOTAG when one of the two frames got
\* lost, or another error when the answer was damaged.
Send(cmd, w) ==
  LET heard == [w EXCEPT !.mode = After(cmd, w),
                         !.r = IF Answers(cmd, w) THEN "ok" ELSE "notag"]
  IN {heard} \cup
     IF w.lost >= noise THEN {}
     ELSE {[w EXCEPT !.r = "notag", !.lost = @ + 1]}
            \cup {[heard EXCEPT !.r = e, !.lost = @ + 1] : e \in {"notag", "bad"}}

TurnOn(w)  == [w EXCEPT !.antenna = TRUE,
                        !.mode = IF @ = "off" /\ card # "none" THEN "idle" ELSE @]
TurnOff(w) == [w EXCEPT !.antenna = FALSE, !.mode = "off"]

Failed(w)   == w.r # "ok"
Silent(w)   == w.r = "notag"
\* Mutant: the name is stored as the type.
AbsentByName(w) == [w EXCEPT !.type = "none"]

Absent(w)   == [w EXCEPT !.type = "ABSENT"]
Found(w, t) == [w EXCEPT !.type = t, !.same = TRUE]

\* What a damaged answer may pass for: the card, or one of another number.
Mistaken(w, t) == {Found(w, t), [w EXCEPT !.type = t, !.same = FALSE]}
Noted(w, s) == IF Failed(w) THEN w ELSE [w EXCEPT !.states = s]

\* One after the other; once more if there was no answer; once more after
\* any error.
Then(S, F(_))    == UNION {F(x) : x \in S}
Twice(F(_), w)   == Then(F(w), LAMBDA x : IF Silent(x) THEN F(x) ELSE {x})
OrAgain(F(_), w) == Then(F(w), LAMBDA x : IF Failed(x) THEN F(x) ELSE {x})

----------------------------------------------------------------------------
(* Type A, type B and the others.                                          *)

typeA_request(w) ==
  {Noted(x, "READY") : x \in Send("WUPA", w)}

typeA_halt(w) ==
  IF w.states = "POWEROFF" THEN {w}
  ELSE {[x EXCEPT !.states = "IDLE"] : x \in Send("HLTA", w)}

\* Anticollision and selection; UIDs of several levels are one here.
typeA_cascade(w) ==
  Then(Send("ANTICOLL", w),
       LAMBDA x : IF Failed(x)
                  THEN {[y EXCEPT !.r = "notag"] : y \in typeA_halt(x)}
                  ELSE {IF Failed(y) THEN [y EXCEPT !.r = "notag"] ELSE y
                         : y \in Send("SELECT", x)})

typeA_select(w) ==
  Then(Twice(typeA_request, w), LAMBDA x : IF Silent(x) THEN {x} ELSE typeA_cascade(x))

\* Two attempts; an ATS of the wrong length ends them at the first.
typeA_request_ats(w) ==
  {Noted(x, "ACTIVATED") : x \in OrAgain(LAMBDA y : Send("RATS", y), w)
                                    \cup {y \in Send("RATS", w) : y.r = "bad"}}

\* Mutant: the state is left alone.
DeselectKeepsState(w) == IF w.states # "ACTIVATED" THEN {w} ELSE Send("DESELECT", w)

\* The deselection always returns 0, so that typeA_halt never follows it.
typeA_deselect_request(w) ==
  IF w.states # "ACTIVATED" THEN {w}
  ELSE {[x EXCEPT !.states = "IDLE"] : x \in Send("DESELECT", w)}

typeA_polling_tags(w) ==
  Then(typeA_select(w),
       LAMBDA x :
         IF Failed(x) THEN {Absent(x)}
         ELSE IF card = "MIFARE" THEN {Found(x, "MIFARE")}
         ELSE Then(typeA_request_ats(x),
                   LAMBDA y : IF Failed(y)
                              THEN {Absent(z) : z \in typeA_deselect_request(y)}
                              ELSE {Found(y, "TYPEA_TCL")}))

typeB_request(w) ==
  {Noted(x, "READY") : x \in Send("WUPB", w)}

typeB_standard_attrib(w) ==
  {Noted(x, "ACTIVATED") : x \in Send("ATTRIB", w)}

\* A damaged answer makes it ask again with four slots; the request and the
\* slot markers are one exchange here.
typeB_polling_tags(w) ==
  Then(Then(Twice(typeB_request, w),
            LAMBDA x : IF x.r = "bad" THEN typeB_request(x) ELSE {x}),
       LAMBDA x :
         IF Failed(x) THEN {Absent(x)}
         ELSE Then(typeB_standard_attrib(x),
                   LAMBDA y : IF Failed(y)
                              THEN {Absent(z) : z \in typeA_deselect_request(y)}
                              ELSE {Found(y, "TYPEB_TCL")}))

\* An answer whose checksum is wrong is an answer: the NFCID is taken from it.
felica_polling_tags(w) ==
  Then(Send("REQC", w),
       LAMBDA x : IF ~Failed(x) THEN {Found(x, "FELICA")}
                  ELSE {Absent(x)} \cup
                       IF card = "FELICA" /\ ~Silent(x) THEN Mistaken(x, "FELICA") ELSE {})

\* A Topaz card that wakes and does not tell its RID changes nothing.  The
\* error of the exchange is not looked at, the RID is good if one of the two
\* bytes of its checksum is.
topaz_polling_tags(w) ==
  Then(typeA_request(w),
       LAMBDA x : IF Silent(x) THEN {Absent(x)}
                  ELSE Then(Send("RID", x),
                            LAMBDA y : IF ~Failed(y) THEN {Found(y, "TOPAZ")}
                                       ELSE {y} \cup
                                            IF card = "TOPAZ" /\ ~Silent(y)
                                            THEN Mistaken(y, "TOPAZ") ELSE {}))

\* Mutant: whatever wakes is taken for the card.
SelectByWaking(w) == {Noted(x, "SELECTED") : x \in Twice(typeA_request, w)}

\* The card of which the driver knows the UID, at most one level of it.
mifare_select(w) ==
  Then(Twice(typeA_request, w),
       LAMBDA x : IF Silent(x) THEN {x}
                  ELSE {Noted(y, "SELECTED") : y \in Send("SELECT_SN", x)})

----------------------------------------------------------------------------
(* picc.c                                                                  *)

\* Mutant: the field is switched on, then off.
ResetLeavesOff(w) == [TurnOff(TurnOn(w)) EXCEPT !.states = "IDLE"]

picc_reset(w) == [TurnOn(TurnOff(w)) EXCEPT !.states = "IDLE"]

\* Case 1: nothing was present.  Each protocol is tried while nothing has
\* been found.
LookForCard(w) ==
  LET Try(S, F(_)) == Then(S, LAMBDA x : IF x.type = "ABSENT" THEN F(x) ELSE {x})
  IN Try(Try(Try(Try({Absent(TurnOn(w))}, typeA_polling_tags), typeB_polling_tags),
             felica_polling_tags),
         topaz_polling_tags)

AwaitField(w) == IF w.states = "POWEROFF" THEN TurnOn(w) ELSE w

Checked(S, Lost(_)) == {[link |-> x, still |-> ~Lost(x)] : x \in S}

\* Case 2: a card was present.  The links that may be left, and whether it
\* is taken to be still there.
CheckCard(w) ==
  CASE w.type = "MIFARE" -> Checked(OrAgain(mifare_select, picc_reset(w)), Failed)
    [] w.type \in TCL /\ w.states = "ACTIVATED" ->
         Checked(OrAgain(LAMBDA x : Send("RACK", x), w), Failed)
    [] w.type = "TOPAZ" \/ (w.type = "TYPEA_TCL" /\ w.states # "ACTIVATED") ->
         Checked(Twice(typeA_request, AwaitField(w)), Silent)
    [] w.type = "TYPEB_TCL" /\ w.states # "ACTIVATED" ->
         Checked(Twice(typeB_request, AwaitField(w)), Silent)
    [] w.type = "FELICA" -> Checked(Send("REQRESPONSE_SN", AwaitField(w)), Failed)
    [] OTHER -> {[link |-> w, still |-> FALSE]}

\* What is left of a step.
Leave(w) ==
  /\ antenna' = w.antenna /\ mode' = w.mode /\ same' = w.same
  /\ states' = w.states /\ type' = w.type
  /\ UNCHANGED <<card, noise>>

\* run_picc_poll: the gadget may accept the news of a change at once.
Notify(bits) == status' \in {bits, bits \ {"SLOT_CHANGE"}}

Shown == {"PRESENT", "FIRST_INSERT", "ACTIVATED"}

\* Mutant: the field stays on when nothing has been found.
PollFirstLeavesField ==
  /\ ~Present
  /\ \E x \in LookForCard(Here) :
       /\ Leave(x)
       /\ IF x.type = "ABSENT" THEN Notify(status \ Shown)
          ELSE Notify(status \cup Shown \cup {"SLOT_CHANGE"})

PollFirst ==
  /\ ~Present
  /\ \E x \in LookForCard(Here) :
       IF x.type = "ABSENT"
       THEN Leave(TurnOff(x)) /\ Notify(status \ Shown)
       ELSE Leave(x) /\ Notify(status \cup Shown \cup {"SLOT_CHANGE"})

\* Mutant: a card that has been given up by power on is not asked for.
PollAgainSkipsMute ==
  /\ Present
  /\ \E c \in CheckCard(Here) :
       IF c.still \/ type = "ABSENT"
       THEN Leave(c.link) /\ Notify(status)
       ELSE Leave(Absent(TurnOff(c.link))) /\ Notify((status \ Shown) \cup {"SLOT_CHANGE"})

PollAgain ==
  /\ Present
  /\ \E c \in CheckCard(Here) :
       IF c.still
       THEN Leave(c.link) /\ Notify(status)
       ELSE Leave(Absent(TurnOff(c.link))) /\ Notify((status \ Shown) \cup {"SLOT_CHANGE"})

Poll == PollFirst \/ PollAgain

\* AUTO_POLLING is always set: only after the parameters have been reset
\* does power on look for the card, and only for one of the same kind.
Reactivate(w) ==
  CASE w.type \in TypeA        -> typeA_polling_tags(TurnOn(w))
    [] w.type = "TYPEB_TCL"    -> typeB_polling_tags(TurnOn(w))
    [] w.type = "FELICA"       -> felica_polling_tags(TurnOn(w))
    [] w.type = "TOPAZ"        -> topaz_polling_tags(TurnOn(w))
    [] OTHER                   -> {Absent(TurnOn(w))}

\* Mutant: a mute card stays active.
PowerOnMuteKeepsActive ==
  \E x \in IF states = "POWEROFF" THEN Reactivate(Here) ELSE {Here} :
    IF x.type = "ABSENT"
    THEN Leave(TurnOff(x)) /\ UNCHANGED status
    ELSE Leave(x) /\ status' = status \cup {"ACTIVATED"}

picc_power_on ==
  \E x \in IF states = "POWEROFF" THEN Reactivate(Here) ELSE {Here} :
    IF x.type = "ABSENT"
    THEN Leave(TurnOff(x)) /\ status' = status \ {"ACTIVATED"}
    ELSE Leave(x) /\ status' = status \cup {"ACTIVATED"}

\* Only where FIRST_INSERT is clear; a card is known there if it is a
\* command of the host that has identified it (see PcscSession).
picc_power_off ==
  /\ "FIRST_INSERT" \notin status
  /\ \E x \in IF type \in TCL THEN typeA_deselect_request(Here)
             ELSE IF type = "MIFARE" THEN typeA_halt(Here)
             ELSE {Here} : Leave(x)
  /\ status' = status \ {"ACTIVATED"}

\* An APDU that a T=CL card executes leaves all as it is; one that fails,
\* for whatever reason, is followed by a deselection.  Without an
\* activation nothing is sent.
ExchangeApdu ==
  /\ type \in TCL /\ states = "ACTIVATED"
  /\ \/ mode = "protocol" /\ UNCHANGED vars
     \/ /\ status' = status \ {"ACTIVATED"}
        /\ \E x \in typeA_deselect_request(Here) : Leave(x)

\* A command to a MIFARE card: an authentication selects it unless that is
\* done; a card that refuses what follows is halted.
ExchangeMifare ==
  /\ type = "MIFARE"
  /\ \E x \in {Here} \cup IF states # "SELECTED" THEN mifare_select(Here) ELSE {} :
       \/ Leave(x)
       \/ x.mode = "active" /\ Leave([x EXCEPT !.mode = "halt"])
  /\ UNCHANGED status

\* ccid_picc_init and ccid_picc_uninit
picc_param_init ==
  /\ states' = "POWEROFF"
  /\ UNCHANGED <<status, type, antenna, card, mode, same, noise>>

----------------------------------------------------------------------------
(* What happens to the reader.                                             *)

Bring(k) ==
  /\ card = "none"
  /\ card' = k
  /\ mode' = IF antenna THEN "idle" ELSE "off"
  /\ UNCHANGED <<status, states, type, antenna, same, noise>>

Take ==
  /\ card # "none"
  /\ card' = "none" /\ mode' = "off" /\ same' = FALSE
  /\ UNCHANGED <<status, states, type, antenna, noise>>

Disturb(n) ==
  /\ noise' = n
  /\ UNCHANGED <<status, states, type, antenna, card, mode, same>>

----------------------------------------------------------------------------

Init ==
  /\ status = {} /\ states = "POWEROFF" /\ type = "UNSET"
  /\ antenna = FALSE /\ card = "none" /\ mode = "off" /\ same = FALSE
  /\ noise = 0

Next ==
  \/ Poll
  \/ picc_power_on \/ picc_power_off
  \/ ExchangeApdu \/ ExchangeMifare
  \/ picc_param_init
  \/ \E k \in Kinds : Bring(k)
  \/ Take
  \/ \E n \in 0 .. MaxNoise : Disturb(n)

Spec == Init /\ [][Next]_vars

\* The work item runs again and again, and gets the semaphore in the end.
FairSpec == Spec /\ WF_vars(Poll)

----------------------------------------------------------------------------
(* Properties.                                                             *)

\* Every variable has the values its type in the code allows.
TypeOK ==
  /\ status \subseteq Bits
  /\ states \in States
  /\ type \in AllKinds \cup {"UNSET", "ABSENT"}
  /\ antenna \in BOOLEAN
  /\ card \in Kinds \cup {"none"}
  /\ mode \in Modes
  /\ same \in BOOLEAN
  /\ noise \in 0 .. MaxNoise

\* What the slot is shown as is backed: a card whose type is known is shown
\* as present and is in the field, whatever has failed, and only a card of a
\* known type is shown as active.
ShownIsKnown ==
  /\ Known => Present /\ antenna
  /\ "ACTIVATED" \in status => Known
  /\ Present <=> "FIRST_INSERT" \in status
  /\ Known /\ same => type = card

\* The driver talks T=CL blocks only to a card that expects them: as long as
\* the card that was identified stays, PICC_ACTIVATED means that it is in the
\* PROTOCOL state, through polls, failed APDUs and resets of the parameters.
InSession == same /\ type \in TCL /\ states = "ACTIVATED" => mode = "protocol"

\* A poll after which a card is shown as a MIFARE card or as an activated
\* T=CL card is right about which card it is: a card that has taken the
\* place of another between two polls is told from it, even if frames get
\* lost.  Of a FeliCa card the first poll may get the number wrong if a frame
\* is damaged (felica.c:333), the polls that follow it may not.
Certain(t, s) == t = "MIFARE" \/ (t \in TCL /\ s = "ACTIVATED")
                   \/ (t = "FELICA" /\ (noise = 0 \/ Present))

PollTellsCardsApart == [][Poll /\ Certain(type', states') => same']_vars

\* A poll does not take a card for removed that has stayed: not without a
\* disturbance, unless it waits for blocks while the driver calls it, and not
\* for one lost frame if it is a MIFARE or an activated T=CL card, for which
\* the check is repeated.
Findable ==
  \/ noise = 0 /\ (mode = "protocol" => states = "ACTIVATED")
  \/ noise <= 1 /\ (type = "MIFARE" \/ (type \in TCL /\ states = "ACTIVATED"))

PollKeepsCard == [][PollAgain /\ Known /\ same /\ Findable => "PRESENT" \in status']_vars

\* Once the reader is left empty, the driver shows no card for good, whatever
\* the last operation left behind.
RemovalNoticed == <>[](card = "none" /\ noise = 0) => <>[](~Present /\ ~antenna)

\* A card that is left at the reader in quiet is shown again and again, even
\* if it was halted, half activated or out of step when it came to rest.
CardNoticed == <>[](card # "none" /\ noise = 0) => []<>Present

\* picc.c:397 says of the bit that power on sets "Card Activate", ccid.h:42
\* of what it stands for "Present and active": a T=CL card that power on has
\* shown as active has been activated, and its APDUs are not aborted.
PowerOnActivates ==
  [][picc_power_on /\ type' \in TCL /\ "ACTIVATED" \in status' => states' = "ACTIVATED"]_vars

============================================================================
