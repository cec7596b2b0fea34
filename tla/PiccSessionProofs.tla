------------------------- MODULE PiccSessionProofs -------------------------
(***************************************************************************)
(* Theorems about PiccSession, for any kinds of card and any number of     *)
(* frames that get lost or damaged within a step.                          *)
(*                                                                         *)
(* A step is a chain of exchanges; the lemmas follow a link of the chain   *)
(* through each function of the driver, from what it finds (LinkOK) to     *)
(* what it may leave.                                                      *)
(***************************************************************************)
EXTENDS PiccSession, TLAPS

-----------------------------------------------------------------------------
(* The inductive invariant.                                                *)

Types   == AllKinds \cup {"UNSET", "ABSENT"}
Results == {"ok", "notag", "bad"}
Links   == [antenna : BOOLEAN, mode : Modes, same : BOOLEAN, states : States, type : Types,
            r : Results, lost : Nat]

\* The states a card of this kind can be in.
Possible(m) ==
  /\ m = "active" => card \in TypeA
  /\ m = "protocol" => card \in TCL
  /\ m \in {"ready", "halt"} => card \in TypeA \cup TCL

\* The card has a state if there is a field.
LinkOK(w) ==
  /\ w \in Links
  /\ w.mode = "off" <=> card = "none" \/ ~w.antenna
  /\ Possible(w.mode)
  /\ w.same => card # "none"

\* What the driver holds about the card it has identified is true.
Truthful(w) == w.same /\ w.type \in AllKinds => w.type = card

\* PICC_ACTIVATED: the card identified is in the PROTOCOL state, and no other
\* card is.
SessionOK(w) ==
  w.type \in TCL /\ w.states = "ACTIVATED" => (w.same <=> w.mode = "protocol")

IInv ==
  /\ TypeOK /\ ShownIsKnown
  /\ LinkOK(Here) /\ SessionOK(Here)
  /\ type = "UNSET" => states = "POWEROFF"

-----------------------------------------------------------------------------
(* The cards.                                                              *)

\* Exchanges do not touch the field and what the driver has noted.
Keeps(w, x) == x.antenna = w.antenna /\ x.same = w.same /\ x.type = w.type

\* Dialogue, frame by frame.
Table(c, m, n) ==
  /\ <<c, m, "WUPA", n>> \in Dialogue <=>
       \/ c \in TypeA /\ m \in {"idle", "halt"} /\ n = "ready"
       \/ c = "TOPAZ" /\ m = "idle" /\ n = "idle"
  /\ <<c, m, "ANTICOLL", n>> \in Dialogue <=> c \in TypeA /\ m = "ready" /\ n = "ready"
  /\ <<c, m, "SELECT", n>> \in Dialogue <=> c \in TypeA /\ m = "ready" /\ n = "active"
  /\ <<c, m, "SELECT_SN", n>> \in Dialogue <=> c \in TypeA /\ m = "ready" /\ n = "active"
  /\ <<c, m, "RATS", n>> \in Dialogue <=> c = "TYPEA_TCL" /\ m = "active" /\ n = "protocol"
  /\ <<c, m, "WUPB", n>> \in Dialogue <=>
       c = "TYPEB_TCL" /\ m \in {"idle", "halt", "ready"} /\ n = "ready"
  /\ <<c, m, "ATTRIB", n>> \in Dialogue <=> c = "TYPEB_TCL" /\ m = "ready" /\ n = "protocol"
  /\ <<c, m, "RACK", n>> \in Dialogue <=> c \in TCL /\ m = "protocol" /\ n = "protocol"
  /\ <<c, m, "DESELECT", n>> \in Dialogue <=> c \in TCL /\ m = "protocol" /\ n = "halt"
  /\ <<c, m, "REQC", n>> \in Dialogue <=> c = "FELICA" /\ m = "idle" /\ n = "idle"
  /\ <<c, m, "REQRESPONSE_SN", n>> \in Dialogue <=> c = "FELICA" /\ m = "idle" /\ n = "idle"
  /\ <<c, m, "RID", n>> \in Dialogue <=> c = "TOPAZ" /\ m = "idle" /\ n = "idle"

LEMMA DialogueTable == \A c, m, n : Table(c, m, n)
BY DEF Table, Dialogue, TypeA, TCL

LEMMA DialogueModes ==
  \A c, m, f, n : <<c, m, f, n>> \in Dialogue =>
    /\ c \in AllKinds /\ m # "off" /\ n # "off"
    /\ n = "active" => c \in TypeA
    /\ n = "protocol" => c \in TCL
    /\ n \in {"ready", "halt"} => c \in TypeA \cup TCL
BY DEF Dialogue, TypeA, TCL, AllKinds

LEMMA AfterAnswer ==
  ASSUME NEW f, NEW w, Answers(f, w)
  PROVE  After(f, w) \in Modes /\ <<card, w.mode, f, After(f, w)>> \in Dialogue
<1>1. \E m \in Modes : <<card, w.mode, f, m>> \in Dialogue
  BY DEF Answers
<1>2. After(f, w) = CHOOSE m \in Modes : <<card, w.mode, f, m>> \in Dialogue
  BY DEF After
<1> QED BY <1>1, <1>2

LEMMA AfterLemma ==
  ASSUME NEW f, NEW w, w.mode \in Modes, Possible(w.mode)
  PROVE  /\ After(f, w) \in Modes /\ Possible(After(f, w))
         /\ After(f, w) = "off" <=> w.mode = "off"
<1>1. CASE Answers(f, w)
  BY <1>1, AfterAnswer, DialogueModes DEF Possible
<1>2. CASE ~Answers(f, w)
  BY <1>2 DEF After, Possible, Modes
<1> QED  BY <1>1, <1>2

\* What the cards answer to, and what becomes of them.
LEMMA AnswersTable ==
  ASSUME NEW w
  PROVE  /\ Answers("WUPA", w) <=>
              \/ card \in TypeA /\ w.mode \in {"idle", "halt"}
              \/ card = "TOPAZ" /\ w.mode = "idle"
         /\ Answers("SELECT", w) <=> card \in TypeA /\ w.mode = "ready"
         /\ Answers("SELECT_SN", w) <=> card \in TypeA /\ w.mode = "ready" /\ w.same
         /\ Answers("RATS", w) <=> card = "TYPEA_TCL" /\ w.mode = "active"
         /\ Answers("WUPB", w) <=> card = "TYPEB_TCL" /\ w.mode \in {"idle", "halt", "ready"}
         /\ Answers("ATTRIB", w) <=> card = "TYPEB_TCL" /\ w.mode = "ready"
         /\ Answers("RACK", w) <=> card \in TCL /\ w.mode = "protocol"
         /\ Answers("DESELECT", w) <=> card \in TCL /\ w.mode = "protocol"
         /\ Answers("REQC", w) <=> card = "FELICA" /\ w.mode = "idle"
         /\ Answers("REQRESPONSE_SN", w) <=> card = "FELICA" /\ w.mode = "idle" /\ w.same
         /\ Answers("RID", w) <=> card = "TOPAZ" /\ w.mode = "idle"
<1>0. \A n : Table(card, w.mode, n)
  BY DialogueTable
<1>1. {"ready", "protocol", "halt", "idle"} \subseteq Modes
  BY DEF Modes
<1>2. Answers("WUPA", w) <=>
        \/ card \in TypeA /\ w.mode \in {"idle", "halt"}
        \/ card = "TOPAZ" /\ w.mode = "idle"
  BY <1>0, <1>1 DEF Answers, Table
<1>3. Answers("SELECT_SN", w) <=> card \in TypeA /\ w.mode = "ready" /\ w.same
  <2>1. "active" \in Modes
    BY DEF Modes
  <2> QED  BY <1>0, <2>1 DEF Answers, Table
<1>s. Answers("SELECT", w) <=> card \in TypeA /\ w.mode = "ready"
  <2>1. "active" \in Modes
    BY DEF Modes
  <2> QED  BY <1>0, <2>1 DEF Answers, Table
<1>4. Answers("RATS", w) <=> card = "TYPEA_TCL" /\ w.mode = "active"
  BY <1>0, <1>1 DEF Answers, Table
<1>5. Answers("WUPB", w) <=> card = "TYPEB_TCL" /\ w.mode \in {"idle", "halt", "ready"}
  BY <1>0, <1>1 DEF Answers, Table
<1>6. Answers("ATTRIB", w) <=> card = "TYPEB_TCL" /\ w.mode = "ready"
  BY <1>0, <1>1 DEF Answers, Table
<1>7. Answers("RACK", w) <=> card \in TCL /\ w.mode = "protocol"
  BY <1>0, <1>1 DEF Answers, Table
<1>8. Answers("DESELECT", w) <=> card \in TCL /\ w.mode = "protocol"
  BY <1>0, <1>1 DEF Answers, Table
<1>9. Answers("REQC", w) <=> card = "FELICA" /\ w.mode = "idle"
  BY <1>0, <1>1 DEF Answers, Table
<1>10. Answers("REQRESPONSE_SN", w) <=> card = "FELICA" /\ w.mode = "idle" /\ w.same
  BY <1>0, <1>1 DEF Answers, Table
<1>11. Answers("RID", w) <=> card = "TOPAZ" /\ w.mode = "idle"
  BY <1>0, <1>1 DEF Answers, Table
<1> QED
  BY <1>2, <1>3, <1>s, <1>4, <1>5, <1>6, <1>7, <1>8, <1>9, <1>10, <1>11

LEMMA NextModes ==
  ASSUME NEW w, w.mode \in Modes, Possible(w.mode)
  PROVE  /\ card \in TypeA => After("WUPA", w) \in {w.mode, "ready", "idle"}
         /\ card \in TypeA /\ w.mode \in {"idle", "halt"} => After("WUPA", w) = "ready"
         /\ card \in TypeA /\ w.mode \in {"ready", "active"} => After("WUPA", w) = "idle"
         /\ Answers("SELECT", w) => After("SELECT", w) = "active"
         /\ Answers("RATS", w) => After("RATS", w) = "protocol"
         /\ Answers("WUPB", w) => After("WUPB", w) = "ready"
         /\ Answers("ATTRIB", w) => After("ATTRIB", w) = "protocol"
         /\ After("RACK", w) = "protocol" <=> w.mode = "protocol"
         /\ w.mode = "protocol" => After("DESELECT", w) = "halt"
         /\ After("DESELECT", w) # "protocol"
         /\ w.mode = "protocol" /\ card \in TypeA => After("WUPA", w) = "protocol"
<1>1. Answers("WUPA", w) => <<card, w.mode, "WUPA", After("WUPA", w)>> \in Dialogue
  BY AfterAnswer
<1>2. Answers("RATS", w) => <<card, w.mode, "RATS", After("RATS", w)>> \in Dialogue
  BY AfterAnswer
<1>s. Answers("SELECT", w) => <<card, w.mode, "SELECT", After("SELECT", w)>> \in Dialogue
  BY AfterAnswer
<1>b. Answers("WUPB", w) => <<card, w.mode, "WUPB", After("WUPB", w)>> \in Dialogue
  BY AfterAnswer
<1>3. Answers("ATTRIB", w) => <<card, w.mode, "ATTRIB", After("ATTRIB", w)>> \in Dialogue
  BY AfterAnswer
<1>4. Answers("RACK", w) => <<card, w.mode, "RACK", After("RACK", w)>> \in Dialogue
  BY AfterAnswer
<1>5. Answers("DESELECT", w)
        => <<card, w.mode, "DESELECT", After("DESELECT", w)>> \in Dialogue
  BY AfterAnswer
<1>6. \A f : ~Answers(f, w) =>
        After(f, w) = IF w.mode \in {"ready", "active"} /\ card \in TypeA
                      THEN IF f = "HLTA" THEN "halt" ELSE "idle"
                      ELSE w.mode
  BY DEF After
<1>7. /\ Answers("WUPA", w) => After("WUPA", w) \in {"ready", "idle"}
      /\ Answers("WUPA", w) /\ card \in TypeA => After("WUPA", w) = "ready"
  <2>1. \A n : Table(card, w.mode, n)
    BY DialogueTable
  <2>2. Answers("WUPA", w) =>
          \/ card \in TypeA /\ After("WUPA", w) = "ready"
          \/ card = "TOPAZ" /\ After("WUPA", w) = "idle"
    BY <1>1, <2>1 DEF Table
  <2> QED  BY <2>2 DEF TypeA
<1>8. /\ Answers("SELECT", w) => After("SELECT", w) = "active"
      /\ Answers("WUPB", w) => After("WUPB", w) = "ready"
      /\ Answers("RATS", w) => After("RATS", w) = "protocol"
      /\ Answers("ATTRIB", w) => After("ATTRIB", w) = "protocol"
      /\ Answers("RACK", w) => After("RACK", w) = "protocol"
      /\ Answers("DESELECT", w) => After("DESELECT", w) = "halt"
  <2>1. \A n : Table(card, w.mode, n)
    BY DialogueTable
  <2> QED  BY <1>s, <1>b, <1>2, <1>3, <1>4, <1>5, <2>1 DEF Table
<1>9. /\ Answers("WUPA", w) <=>
            \/ card \in TypeA /\ w.mode \in {"idle", "halt"}
            \/ card = "TOPAZ" /\ w.mode = "idle"
      /\ Answers("RACK", w) <=> card \in TCL /\ w.mode = "protocol"
      /\ Answers("DESELECT", w) <=> card \in TCL /\ w.mode = "protocol"
  BY AnswersTable
<1>10. w.mode = "protocol" => card \in TCL
  BY DEF Possible
<1>11. card \in TypeA => card # "TOPAZ"
  BY DEF TypeA
<1>12. /\ card \in TypeA => After("WUPA", w) \in {w.mode, "ready", "idle"}
       /\ card \in TypeA /\ w.mode \in {"idle", "halt"} => After("WUPA", w) = "ready"
       /\ card \in TypeA /\ w.mode \in {"ready", "active"} => After("WUPA", w) = "idle"
       /\ w.mode = "protocol" /\ card \in TypeA => After("WUPA", w) = "protocol"
  BY <1>6, <1>7, <1>9, <1>11
<1>13. /\ After("RACK", w) = "protocol" <=> w.mode = "protocol"
       /\ w.mode = "protocol" => After("DESELECT", w) = "halt"
       /\ After("DESELECT", w) # "protocol"
  BY <1>6, <1>8, <1>9, <1>10
<1> QED  BY <1>8, <1>12, <1>13

-----------------------------------------------------------------------------
(* One exchange.                                                           *)

\* An exchange, or several: what is not touched, and how many frames may have
\* got lost.
Step(w, x) ==
  /\ LinkOK(x) /\ Keeps(w, x)
  /\ x.lost = w.lost \/ (~(w.lost >= noise) /\ x.lost > w.lost)

LEMMA StepAgain ==
  ASSUME NEW w, NEW x, NEW y, LinkOK(w), Step(w, x), Step(x, y)
  PROVE  Step(w, y)
<1>1. w.lost \in Nat /\ x.lost \in Nat /\ y.lost \in Nat
  BY DEF LinkOK, Links, Step
<1>2. /\ x.lost = w.lost \/ (~(w.lost >= noise) /\ x.lost > w.lost)
      /\ y.lost = x.lost \/ (~(x.lost >= noise) /\ y.lost > x.lost)
  BY DEF Step
<1>3. y.lost = w.lost \/ (~(w.lost >= noise) /\ y.lost > w.lost)
  BY <1>1, <1>2
<1> QED  BY <1>3 DEF Step, Keeps

LEMMA StepNone ==
  ASSUME NEW w, LinkOK(w)
  PROVE  Step(w, w)
BY DEF Step, Keeps

LEMMA SendLemma ==
  ASSUME NEW f, NEW w, LinkOK(w), NEW x \in Send(f, w)
  PROVE  /\ Step(w, x) /\ x.states = w.states
         /\ x.mode \in {w.mode, After(f, w)}
         /\ x.r = "ok" => Answers(f, w) /\ x.mode = After(f, w)
         /\ x.lost = w.lost =>
              x.mode = After(f, w) /\ x.r = IF Answers(f, w) THEN "ok" ELSE "notag"
<1> DEFINE a == After(f, w)
           e == IF Answers(f, w) THEN "ok" ELSE "notag"
           heard == [w EXCEPT !.mode = a, !.r = e]
           mute  == [w EXCEPT !.r = "notag", !.lost = @ + 1]
           harmed(t) == [heard EXCEPT !.r = t, !.lost = @ + 1]
<1>1. /\ a \in Modes /\ Possible(a)
      /\ a = "off" <=> w.mode = "off"
  BY AfterLemma DEF LinkOK, Links
<1>2. e \in {"ok", "notag"} /\ (e = "ok" <=> Answers(f, w))
  OBVIOUS
<1>3. x \in {heard} \cup IF w.lost >= noise THEN {}
                         ELSE {mute} \cup {harmed(t) : t \in {"notag", "bad"}}
  BY DEF Send
<1> HIDE DEF a, e
<1>4. w \in Links /\ w.lost + 1 \in Nat
  BY DEF LinkOK, Links
<1>5. /\ heard \in Links /\ Keeps(w, heard) /\ heard.states = w.states /\ heard.mode = a
      /\ heard.r = e /\ heard.lost = w.lost
  BY <1>1, <1>2, <1>4 DEF Links, Results, Keeps
<1> HIDE DEF heard
<1>6. /\ mute \in Links /\ Keeps(w, mute) /\ mute.states = w.states /\ mute.mode = w.mode
      /\ mute.r = "notag" /\ mute.lost = w.lost + 1
  BY <1>4 DEF Links, Results, Keeps
<1>7. \A t \in {"notag", "bad"} :
        /\ harmed(t) \in Links /\ Keeps(w, harmed(t)) /\ harmed(t).states = w.states
        /\ harmed(t).mode = a /\ harmed(t).r = t /\ harmed(t).lost = w.lost + 1
  <2>1. heard.lost + 1 \in Nat
    BY <1>4, <1>5
  <2> QED  BY <1>5, <2>1 DEF Links, Results, Keeps
<1> HIDE DEF mute, harmed
<1>8. \/ x = heard
      \/ ~(w.lost >= noise) /\ (x = mute \/ \E t \in {"notag", "bad"} : x = harmed(t))
  BY <1>3
<1>9. /\ x \in Links /\ Keeps(w, x) /\ x.states = w.states
      /\ x.mode \in {w.mode, a}
      /\ x.r = "ok" => Answers(f, w) /\ x.mode = a
      /\ \/ x.lost = w.lost /\ x.mode = a /\ x.r = e
         \/ ~(w.lost >= noise) /\ x.lost = w.lost + 1
  <2>1. CASE x = heard
    BY <1>2, <1>5, <2>1
  <2>2. CASE ~(w.lost >= noise) /\ x = mute
    BY <1>6, <2>2
  <2>3. CASE ~(w.lost >= noise) /\ \E t \in {"notag", "bad"} : x = harmed(t)
    BY <1>7, <2>3
  <2> QED  BY <1>8, <2>1, <2>2, <2>3
<1>10. x.lost = w.lost \/ (~(w.lost >= noise) /\ x.lost > w.lost)
  BY <1>4, <1>9 DEF Links
<1>11. x.lost = w.lost => x.mode = a /\ x.r = e
  BY <1>4, <1>9 DEF Links
<1>12. Possible(x.mode) /\ (x.mode = "off" <=> w.mode = "off")
  BY <1>1, <1>9 DEF LinkOK
<1>13. LinkOK(x)
  BY <1>9, <1>12 DEF LinkOK, Keeps
<1> QED  BY <1>9, <1>10, <1>11, <1>13 DEF Step, a, e

-----------------------------------------------------------------------------
(* What the driver notes.                                                  *)

\* But for the states.
Alike(w, x) ==
  /\ x.antenna = w.antenna /\ x.mode = w.mode /\ x.same = w.same
  /\ x.type = w.type /\ x.r = w.r /\ x.lost = w.lost

LEMMA StatesLemma ==
  ASSUME NEW w, LinkOK(w), NEW s \in States
  PROVE  /\ Step(w, [w EXCEPT !.states = s]) /\ Alike(w, [w EXCEPT !.states = s])
         /\ [w EXCEPT !.states = s].states = s
<1> DEFINE x == [w EXCEPT !.states = s]
<1>1. w \in Links
  BY DEF LinkOK
<1>2. x \in Links /\ Alike(w, x) /\ x.states = s
  BY <1>1 DEF Links, Alike
<1> HIDE DEF x
<1>3. LinkOK(x)
  BY <1>2 DEF LinkOK, Alike
<1>4. Step(w, x)
  BY <1>2, <1>3 DEF Step, Keeps, Alike
<1> QED  BY <1>2, <1>4 DEF x

LEMMA NotedLemma ==
  ASSUME NEW w, LinkOK(w), NEW s \in States
  PROVE  /\ Step(w, Noted(w, s)) /\ Alike(w, Noted(w, s))
         /\ Noted(w, s).states = IF w.r = "ok" THEN s ELSE w.states
<1>1. CASE w.r = "ok"
  BY <1>1, StatesLemma DEF Noted, Failed
<1>2. CASE w.r # "ok"
  BY <1>2, StepNone DEF Noted, Failed, Alike
<1> QED  BY <1>1, <1>2

LEMMA MuteLemma ==
  ASSUME NEW w, LinkOK(w)
  PROVE  /\ Step(w, [w EXCEPT !.r = "notag"])
         /\ [w EXCEPT !.r = "notag"].r = "notag" /\ [w EXCEPT !.r = "notag"].states = w.states
<1> DEFINE x == [w EXCEPT !.r = "notag"]
<1>1. w \in Links
  BY DEF LinkOK
<1>2. /\ x \in Links /\ x.r = "notag"
      /\ x.antenna = w.antenna /\ x.mode = w.mode /\ x.same = w.same
      /\ x.type = w.type /\ x.states = w.states /\ x.lost = w.lost
  BY <1>1 DEF Links, Results
<1> HIDE DEF x
<1>3. LinkOK(x)
  BY <1>2 DEF LinkOK
<1>4. Step(w, x)
  BY <1>2, <1>3 DEF Step, Keeps
<1> QED  BY <1>2, <1>4 DEF x

\* The card found is the one at the reader, in the field, and in the PROTOCOL
\* state if it takes T=CL blocks.
Identified(x) ==
  /\ x.same /\ x.antenna /\ x.type = card /\ x.type \in AllKinds
  /\ x.type \in TCL => x.mode = "protocol"

\* The card found, by an answer that was damaged, may be known by another
\* number than its own.
Misnamed(x) ==
  /\ noise # 0
  /\ x.antenna /\ x.type = card /\ x.type \in {"FELICA", "TOPAZ"}

LEMMA AbsentLemma ==
  ASSUME NEW w, LinkOK(w)
  PROVE  /\ LinkOK(Absent(w)) /\ Absent(w).type = "ABSENT"
         /\ Absent(w).antenna = w.antenna /\ Absent(w).states = w.states
<1> DEFINE x == Absent(w)
<1>1. w \in Links /\ "ABSENT" \in Types
  BY DEF LinkOK, Types
<1>2. /\ x \in Links /\ x.type = "ABSENT"
      /\ x.antenna = w.antenna /\ x.mode = w.mode /\ x.same = w.same
      /\ x.states = w.states /\ x.lost = w.lost
  BY <1>1 DEF Links, Absent
<1> HIDE DEF x
<1>3. "ABSENT" \notin AllKinds
  BY DEF AllKinds, TCL
<1>4. LinkOK(x)
  BY <1>2, <1>3 DEF LinkOK
<1> QED  BY <1>2, <1>4 DEF x

LEMMA FoundLemma ==
  ASSUME NEW w, LinkOK(w), card \in AllKinds, w.mode # "off", card \in TCL => w.mode = "protocol"
  PROVE  LinkOK(Found(w, card)) /\ Identified(Found(w, card)) /\ Found(w, card).antenna = w.antenna
<1> DEFINE x == Found(w, card)
<1>1. w \in Links /\ card \in Types
  BY DEF LinkOK, Types
<1>2. /\ x \in Links /\ x.type = card /\ x.same = TRUE
      /\ x.antenna = w.antenna /\ x.mode = w.mode
      /\ x.states = w.states /\ x.lost = w.lost
  BY <1>1 DEF Links, Found
<1> HIDE DEF x
<1>3. card # "none"
  BY DEF AllKinds, TCL
<1>4. LinkOK(x)
  BY <1>2, <1>3 DEF LinkOK
<1>5. Identified(x)
  BY <1>2 DEF Identified, LinkOK
<1> QED  BY <1>2, <1>4, <1>5 DEF x

LEMMA MistakenLemma ==
  ASSUME NEW w, LinkOK(w), w.antenna, noise # 0, card \in {"FELICA", "TOPAZ"},
         NEW x \in Mistaken(w, card)
  PROVE  LinkOK(x) /\ Misnamed(x) /\ x.antenna = w.antenna
<1>1. /\ w \in Links /\ card \in Types /\ card # "none"
      /\ card \in AllKinds /\ card \notin TCL /\ w.mode # "off"
  BY DEF LinkOK, Types, AllKinds, TCL
<1>2. CASE x = Found(w, card)
  BY <1>1, <1>2, FoundLemma DEF Identified, Misnamed
<1>3. CASE x = [w EXCEPT !.type = card, !.same = FALSE]
  <2>1. /\ x \in Links /\ x.type = card /\ x.same = FALSE
        /\ x.antenna = w.antenna /\ x.mode = w.mode
    BY <1>1, <1>3 DEF Links
  <2>2. LinkOK(x)
    BY <2>1 DEF LinkOK
  <2> QED  BY <2>1, <2>2 DEF Misnamed
<1> QED  BY <1>2, <1>3 DEF Mistaken

LEMMA TurnOnLemma ==
  ASSUME NEW w, LinkOK(w)
  PROVE  /\ LinkOK(TurnOn(w)) /\ TurnOn(w).antenna = TRUE
         /\ TurnOn(w).same = w.same /\ TurnOn(w).type = w.type
         /\ TurnOn(w).states = w.states /\ TurnOn(w).lost = w.lost
         /\ w.mode # "off" => TurnOn(w).mode = w.mode
         /\ w.mode = "off" /\ card # "none" => TurnOn(w).mode = "idle"
<1> DEFINE x == TurnOn(w)
           m == IF w.mode = "off" /\ card # "none" THEN "idle" ELSE w.mode
<1>1. w \in Links /\ w.mode \in Modes
  BY DEF LinkOK, Links
<1>2. m \in Modes /\ (m = "off" <=> card = "none") /\ Possible(m)
  BY <1>1 DEF LinkOK, Possible, Modes
<1>3. x = [w EXCEPT !.antenna = TRUE, !.mode = m]
  BY DEF TurnOn
<1> HIDE DEF x, m
<1>4. /\ x \in Links /\ x.antenna = TRUE /\ x.mode = m
      /\ x.same = w.same /\ x.type = w.type
      /\ x.states = w.states /\ x.lost = w.lost
  BY <1>1, <1>2, <1>3 DEF Links
<1>5. LinkOK(x)
  BY <1>2, <1>4 DEF LinkOK
<1> QED  BY <1>4, <1>5 DEF x, m

LEMMA TurnOffLemma ==
  ASSUME NEW w, LinkOK(w)
  PROVE  /\ LinkOK(TurnOff(w)) /\ TurnOff(w).antenna = FALSE /\ TurnOff(w).mode = "off"
         /\ TurnOff(w).same = w.same /\ TurnOff(w).type = w.type
         /\ TurnOff(w).states = w.states /\ TurnOff(w).lost = w.lost
<1> DEFINE x == TurnOff(w)
<1>1. w \in Links /\ "off" \in Modes
  BY DEF LinkOK, Modes
<1>2. Possible("off")
  BY DEF Possible
<1>3. /\ x \in Links /\ x.antenna = FALSE /\ x.mode = "off"
      /\ x.same = w.same /\ x.type = w.type
      /\ x.states = w.states /\ x.lost = w.lost
  BY <1>1 DEF Links, TurnOff
<1> HIDE DEF x
<1>4. LinkOK(x)
  BY <1>2, <1>3 DEF LinkOK
<1> QED  BY <1>3, <1>4 DEF x

-----------------------------------------------------------------------------
(* Type A.                                                                 *)

LEMMA RequestLemma ==
  ASSUME NEW w, LinkOK(w), NEW x \in typeA_request(w)
  PROVE  /\ Step(w, x) /\ x.states \in {w.states, "READY"}
         /\ x.mode \in {w.mode, After("WUPA", w)}
         /\ x.lost = w.lost =>
              x.mode = After("WUPA", w) /\ x.r = IF Answers("WUPA", w) THEN "ok" ELSE "notag"
<1>1. PICK y \in Send("WUPA", w) : x = Noted(y, "READY")
  BY DEF typeA_request
<1>2. /\ Step(w, y) /\ y.states = w.states
      /\ y.mode \in {w.mode, After("WUPA", w)}
      /\ y.lost = w.lost =>
           y.mode = After("WUPA", w) /\ y.r = IF Answers("WUPA", w) THEN "ok" ELSE "notag"
  BY SendLemma
<1>3. Step(y, x) /\ Alike(y, x) /\ x.states \in {y.states, "READY"}
  BY <1>1, <1>2, NotedLemma DEF Step, States
<1>4. Step(w, x)
  BY <1>2, <1>3, StepAgain
<1> QED  BY <1>2, <1>3, <1>4 DEF Alike

LEMMA HaltLemma ==
  ASSUME NEW w, LinkOK(w), NEW x \in typeA_halt(w)
  PROVE  Step(w, x) /\ x.states \in {w.states, "IDLE"}
<1>1. CASE w.states = "POWEROFF"
  BY <1>1, StepNone DEF typeA_halt
<1>2. CASE w.states # "POWEROFF"
  <2>1. PICK y \in Send("HLTA", w) : x = [y EXCEPT !.states = "IDLE"]
    BY <1>2 DEF typeA_halt
  <2>2. Step(w, y)
    BY SendLemma
  <2>3. Step(y, x) /\ x.states = "IDLE"
    BY <2>1, <2>2, StatesLemma DEF Step, States
  <2> QED  BY <2>2, <2>3, StepAgain
<1> QED  BY <1>1, <1>2

LEMMA CascadeLemma ==
  ASSUME NEW w, LinkOK(w), NEW x \in typeA_cascade(w)
  PROVE  /\ Step(w, x) /\ x.states \in {w.states, "IDLE"}
         /\ x.r = "ok" => card \in TypeA /\ x.mode = "active"
<1>1. PICK y \in Send("ANTICOLL", w) :
        x \in IF Failed(y) THEN {[z EXCEPT !.r = "notag"] : z \in typeA_halt(y)}
              ELSE {IF Failed(z) THEN [z EXCEPT !.r = "notag"] ELSE z : z \in Send("SELECT", y)}
  BY DEF typeA_cascade, Then
<1>2. Step(w, y) /\ LinkOK(y) /\ y.states = w.states
  BY SendLemma DEF Step
<1>3. CASE Failed(y)
  <2>1. PICK z \in typeA_halt(y) : x = [z EXCEPT !.r = "notag"]
    BY <1>1, <1>3
  <2>2. Step(y, z) /\ LinkOK(z) /\ z.states \in {y.states, "IDLE"}
    BY <1>2, HaltLemma DEF Step
  <2>3. Step(z, x) /\ x.r = "notag" /\ x.states = z.states
    BY <2>1, <2>2, MuteLemma
  <2>4. Step(w, z)
    BY <1>2, <2>2, StepAgain
  <2>5. Step(w, x)
    BY <2>3, <2>4, StepAgain
  <2> QED  BY <1>2, <2>2, <2>3, <2>5
<1>4. CASE ~Failed(y)
  <2>1. PICK z \in Send("SELECT", y) : x = IF Failed(z) THEN [z EXCEPT !.r = "notag"] ELSE z
    BY <1>1, <1>4
  <2>2. /\ Step(y, z) /\ LinkOK(z) /\ z.states = y.states
        /\ z.r = "ok" => Answers("SELECT", y) /\ z.mode = After("SELECT", y)
    BY <1>2, SendLemma DEF Step
  <2>3. z.r = "ok" => card \in TypeA /\ z.mode = "active"
    BY <1>2, <2>2, AnswersTable, NextModes DEF LinkOK, Links
  <2>4. Step(z, x) /\ x.states = z.states /\ (x.r = "ok" => x = z)
    BY <2>1, <2>2, StepNone, MuteLemma
  <2>5. Step(w, z)
    BY <1>2, <2>2, StepAgain
  <2>6. Step(w, x)
    BY <2>4, <2>5, StepAgain
  <2> QED  BY <1>2, <2>2, <2>3, <2>4, <2>6
<1> QED  BY <1>3, <1>4

\* typeA_request, repeated if there was no answer.
LEMMA TwiceRequestLemma ==
  ASSUME NEW w, LinkOK(w), NEW x \in Twice(typeA_request, w)
  PROVE  /\ Step(w, x) /\ x.states \in {w.states, "READY"}
         /\ \E y \in typeA_request(w) :
              (x = y /\ ~Silent(y)) \/ (Silent(y) /\ x \in typeA_request(y))
<1>1. PICK y \in typeA_request(w) : x \in IF Silent(y) THEN typeA_request(y) ELSE {y}
  BY DEF Twice, Then
<1>2. Step(w, y) /\ LinkOK(y) /\ y.states \in {w.states, "READY"}
  BY RequestLemma DEF Step
<1>3. x = y \/ (Step(y, x) /\ x.states \in {y.states, "READY"})
  BY <1>1, <1>2, RequestLemma
<1>4. Step(w, x)
  BY <1>2, <1>3, StepAgain
<1>5. x.states \in {w.states, "READY"}
  BY <1>2, <1>3
<1>6. (x = y /\ ~Silent(y)) \/ (Silent(y) /\ x \in typeA_request(y))
  BY <1>1 DEF Silent
<1> QED  BY <1>4, <1>5, <1>6

LEMMA SelectLemma ==
  ASSUME NEW w, LinkOK(w), NEW x \in typeA_select(w)
  PROVE  /\ Step(w, x) /\ x.states \in {w.states, "READY", "IDLE"}
         /\ x.r = "ok" => card \in TypeA /\ x.mode = "active"
<1>1. PICK y \in Twice(typeA_request, w) : x \in IF Silent(y) THEN {y} ELSE typeA_cascade(y)
  BY DEF typeA_select, Then
<1>2. Step(w, y) /\ LinkOK(y) /\ y.states \in {w.states, "READY"}
  BY TwiceRequestLemma DEF Step
<1>3. CASE Silent(y)
  BY <1>1, <1>2, <1>3 DEF Silent
<1>4. CASE ~Silent(y)
  <2>1. /\ Step(y, x) /\ x.states \in {y.states, "IDLE"}
        /\ x.r = "ok" => card \in TypeA /\ x.mode = "active"
    BY <1>1, <1>2, <1>4, CascadeLemma
  <2>2. Step(w, x)
    BY <1>2, <2>1, StepAgain
  <2> QED  BY <1>2, <2>1, <2>2
<1> QED  BY <1>3, <1>4

\* An activation that succeeds leaves the card in the PROTOCOL state.
LEMMA AtsLemma ==
  ASSUME NEW w, LinkOK(w), NEW x \in typeA_request_ats(w)
  PROVE  Step(w, x) /\ (x.r = "ok" => card = "TYPEA_TCL" /\ x.mode = "protocol")
<1>1. PICK y : /\ x = Noted(y, "ACTIVATED")
               /\ y \in OrAgain(LAMBDA z : Send("RATS", z), w)
                     \cup {z \in Send("RATS", w) : z.r = "bad"}
  BY DEF typeA_request_ats
<1>2. PICK v : Step(w, v) /\ y \in Send("RATS", v)
  <2>1. CASE y \in Send("RATS", w)
    BY <2>1, StepNone
  <2>2. CASE y \in OrAgain(LAMBDA z : Send("RATS", z), w)
    <3>1. PICK z \in Send("RATS", w) : y \in IF Failed(z) THEN Send("RATS", z) ELSE {z}
      BY <2>2 DEF OrAgain, Then
    <3> QED  BY <2>1, <3>1, SendLemma
  <2> QED  BY <1>1, <2>1, <2>2
<1>3. Step(v, y) /\ (y.r = "ok" => Answers("RATS", v) /\ y.mode = After("RATS", v))
  BY <1>2, SendLemma DEF Step
<1>4. y.r = "ok" => card = "TYPEA_TCL" /\ y.mode = "protocol"
  BY <1>2, <1>3, AnswersTable, NextModes DEF Step, LinkOK, Links
<1>5. Step(y, x) /\ Alike(y, x)
  BY <1>1, <1>3, NotedLemma DEF Step, States
<1>6. Step(w, x)
  BY <1>2, <1>3, <1>5, StepAgain
<1> QED  BY <1>4, <1>5, <1>6 DEF Alike

LEMMA DeselectLemma ==
  ASSUME NEW w, LinkOK(w), NEW x \in typeA_deselect_request(w)
  PROVE  Step(w, x) /\ x.states # "ACTIVATED"
<1>1. CASE w.states # "ACTIVATED"
  BY <1>1, StepNone DEF typeA_deselect_request
<1>2. CASE w.states = "ACTIVATED"
  <2>1. PICK y \in Send("DESELECT", w) : x = [y EXCEPT !.states = "IDLE"]
    BY <1>2 DEF typeA_deselect_request
  <2>2. Step(w, y)
    BY SendLemma
  <2>3. Step(y, x) /\ x.states = "IDLE"
    BY <2>1, <2>2, StatesLemma DEF Step, States
  <2> QED  BY <2>2, <2>3, StepAgain
<1> QED  BY <1>1, <1>2

-----------------------------------------------------------------------------
(* A search for a card.                                                    *)

\* What a search leaves: no card, or one that has been identified.
Searched(w, x) ==
  LinkOK(x) /\ x.antenna = w.antenna /\ (x.type = "ABSENT" \/ Identified(x))

\* The end of typeA_polling_tags and typeB_polling_tags.
LEMMA GiveUp ==
  ASSUME NEW w, NEW y, Step(w, y), NEW x, x \in {Absent(z) : z \in typeA_deselect_request(y)}
  PROVE  Searched(w, x)
<1>1. PICK z \in typeA_deselect_request(y) : x = Absent(z)
  OBVIOUS
<1>2. Step(y, z)
  BY DeselectLemma DEF Step
<1> QED  BY <1>1, <1>2, AbsentLemma DEF Searched, Step, Keeps

LEMMA PollingA ==
  ASSUME NEW w, LinkOK(w), NEW x \in typeA_polling_tags(w)
  PROVE  Searched(w, x)
<1>1. PICK y \in typeA_select(w) :
        x \in IF Failed(y) THEN {Absent(y)}
              ELSE IF card = "MIFARE" THEN {Found(y, "MIFARE")}
              ELSE Then(typeA_request_ats(y),
                        LAMBDA z : IF Failed(z)
                                   THEN {Absent(u) : u \in typeA_deselect_request(z)}
                                   ELSE {Found(z, "TYPEA_TCL")})
  BY DEF typeA_polling_tags, Then
<1>2. Step(w, y) /\ LinkOK(y) /\ (y.r = "ok" => y.mode = "active")
  BY SelectLemma DEF Step
<1>3. CASE x = Absent(y)
  BY <1>2, <1>3, AbsentLemma DEF Searched, Step, Keeps
<1>4. CASE ~Failed(y) /\ card = "MIFARE" /\ x = Found(y, "MIFARE")
  <2>1. card \in AllKinds /\ card \notin TCL /\ y.mode # "off"
    BY <1>2, <1>4 DEF Failed, AllKinds, TCL
  <2> QED  BY <1>2, <1>4, <2>1, FoundLemma DEF Searched, Step, Keeps
<1>5. CASE x \in Then(typeA_request_ats(y),
                      LAMBDA z : IF Failed(z)
                                 THEN {Absent(u) : u \in typeA_deselect_request(z)}
                                 ELSE {Found(z, "TYPEA_TCL")})
  <2>1. PICK z \in typeA_request_ats(y) :
          x \in IF Failed(z) THEN {Absent(u) : u \in typeA_deselect_request(z)}
                ELSE {Found(z, "TYPEA_TCL")}
    BY <1>5 DEF Then
  <2>2. Step(y, z) /\ (z.r = "ok" => card = "TYPEA_TCL" /\ z.mode = "protocol")
    BY <1>2, AtsLemma
  <2>3. Step(w, z) /\ LinkOK(z)
    BY <1>2, <2>2, StepAgain DEF Step
  <2>4. CASE Failed(z)
    BY <2>1, <2>3, <2>4, GiveUp
  <2>5. CASE ~Failed(z)
    <3>1. x = Found(z, card) /\ z.mode = "protocol" /\ card \in AllKinds
      BY <2>1, <2>2, <2>5 DEF Failed, AllKinds, TCL
    <3>2. LinkOK(x) /\ Identified(x) /\ x.antenna = z.antenna
      BY <2>3, <3>1, FoundLemma
    <3> QED  BY <2>3, <3>2 DEF Searched, Step, Keeps
  <2> QED  BY <2>4, <2>5
<1> QED  BY <1>1, <1>3, <1>4, <1>5

LEMMA RequestBLemma ==
  ASSUME NEW w, LinkOK(w), NEW x \in typeB_request(w)
  PROVE  /\ Step(w, x) /\ x.states \in {w.states, "READY"}
         /\ x.r = "ok" => card = "TYPEB_TCL" /\ x.mode = "ready"
         /\ x.lost = w.lost => x.r = IF Answers("WUPB", w) THEN "ok" ELSE "notag"
<1>1. PICK y \in Send("WUPB", w) : x = Noted(y, "READY")
  BY DEF typeB_request
<1>2. /\ Step(w, y) /\ y.states = w.states
      /\ y.r = "ok" => Answers("WUPB", w) /\ y.mode = After("WUPB", w)
      /\ y.lost = w.lost => y.r = IF Answers("WUPB", w) THEN "ok" ELSE "notag"
  BY SendLemma
<1>3. Step(y, x) /\ Alike(y, x) /\ x.states \in {y.states, "READY"}
  BY <1>1, <1>2, NotedLemma DEF Step, States
<1>4. Step(w, x)
  BY <1>2, <1>3, StepAgain
<1>5. y.r = "ok" => card = "TYPEB_TCL" /\ y.mode = "ready"
  BY <1>2, AnswersTable, NextModes DEF LinkOK, Links
<1> QED  BY <1>2, <1>3, <1>4, <1>5 DEF Alike

LEMMA TwiceRequestBLemma ==
  ASSUME NEW w, LinkOK(w), NEW x \in Twice(typeB_request, w)
  PROVE  /\ Step(w, x) /\ x.states \in {w.states, "READY"}
         /\ x.r = "ok" => card = "TYPEB_TCL" /\ x.mode = "ready"
         /\ \E y \in typeB_request(w) :
              (x = y /\ ~Silent(y)) \/ (Silent(y) /\ x \in typeB_request(y))
<1>1. PICK y \in typeB_request(w) : x \in IF Silent(y) THEN typeB_request(y) ELSE {y}
  BY DEF Twice, Then
<1>2. Step(w, y) /\ LinkOK(y) /\ y.states \in {w.states, "READY"}
  BY RequestBLemma DEF Step
<1>3. x = y \/ (Step(y, x) /\ x.states \in {y.states, "READY"})
  BY <1>1, <1>2, RequestBLemma
<1>4. Step(w, x)
  BY <1>2, <1>3, StepAgain
<1>5. x.states \in {w.states, "READY"}
  BY <1>2, <1>3
<1>7. x.r = "ok" => card = "TYPEB_TCL" /\ x.mode = "ready"
  BY <1>1, <1>2, RequestBLemma
<1>6. (x = y /\ ~Silent(y)) \/ (Silent(y) /\ x \in typeB_request(y))
  BY <1>1 DEF Silent
<1> QED  BY <1>4, <1>5, <1>6, <1>7

LEMMA AttribLemma ==
  ASSUME NEW w, LinkOK(w), NEW x \in typeB_standard_attrib(w)
  PROVE  Step(w, x) /\ (x.r = "ok" => card = "TYPEB_TCL" /\ x.mode = "protocol")
<1>1. PICK y \in Send("ATTRIB", w) : x = Noted(y, "ACTIVATED")
  BY DEF typeB_standard_attrib
<1>2. Step(w, y) /\ (y.r = "ok" => Answers("ATTRIB", w) /\ y.mode = After("ATTRIB", w))
  BY SendLemma
<1>3. y.r = "ok" => card = "TYPEB_TCL" /\ y.mode = "protocol"
  BY <1>2, AnswersTable, NextModes DEF LinkOK, Links
<1>4. Step(y, x) /\ Alike(y, x)
  BY <1>1, <1>2, NotedLemma DEF Step, States
<1>5. Step(w, x)
  BY <1>2, <1>4, StepAgain
<1> QED  BY <1>3, <1>4, <1>5 DEF Alike

LEMMA PollingB ==
  ASSUME NEW w, LinkOK(w), NEW x \in typeB_polling_tags(w)
  PROVE  Searched(w, x)
<1>1. PICK y \in Then(Twice(typeB_request, w),
                      LAMBDA u : IF u.r = "bad" THEN typeB_request(u) ELSE {u}) :
        x \in IF Failed(y) THEN {Absent(y)}
              ELSE Then(typeB_standard_attrib(y),
                        LAMBDA z : IF Failed(z)
                                   THEN {Absent(u) : u \in typeA_deselect_request(z)}
                                   ELSE {Found(z, "TYPEB_TCL")})
  BY DEF typeB_polling_tags, Then
<1>2. Step(w, y) /\ LinkOK(y)
  <2>1. PICK u \in Twice(typeB_request, w) : y \in IF u.r = "bad" THEN typeB_request(u) ELSE {u}
    BY DEF Then
  <2>2. Step(w, u) /\ LinkOK(u)
    BY TwiceRequestBLemma DEF Step
  <2>3. y = u \/ Step(u, y)
    BY <2>1, <2>2, RequestBLemma
  <2>4. Step(w, y)
    BY <2>2, <2>3, StepAgain
  <2> QED  BY <2>4 DEF Step
<1>3. CASE x = Absent(y)
  BY <1>2, <1>3, AbsentLemma DEF Searched, Step, Keeps
<1>4. CASE x \in Then(typeB_standard_attrib(y),
                      LAMBDA z : IF Failed(z)
                                 THEN {Absent(u) : u \in typeA_deselect_request(z)}
                                 ELSE {Found(z, "TYPEB_TCL")})
  <2>1. PICK z \in typeB_standard_attrib(y) :
          x \in IF Failed(z) THEN {Absent(u) : u \in typeA_deselect_request(z)}
                ELSE {Found(z, "TYPEB_TCL")}
    BY <1>4 DEF Then
  <2>2. Step(y, z) /\ (z.r = "ok" => card = "TYPEB_TCL" /\ z.mode = "protocol")
    BY <1>2, AttribLemma
  <2>3. Step(w, z) /\ LinkOK(z)
    BY <1>2, <2>2, StepAgain DEF Step
  <2>4. CASE Failed(z)
    BY <2>1, <2>3, <2>4, GiveUp
  <2>5. CASE ~Failed(z)
    <3>1. x = Found(z, card) /\ z.mode = "protocol" /\ card \in AllKinds
      BY <2>1, <2>2, <2>5 DEF Failed, AllKinds, TCL
    <3>2. LinkOK(x) /\ Identified(x) /\ x.antenna = z.antenna
      BY <2>3, <3>1, FoundLemma
    <3> QED  BY <2>3, <3>2 DEF Searched, Step, Keeps
  <2> QED  BY <2>4, <2>5
<1> QED  BY <1>1, <1>3, <1>4

\* The same of a FeliCa or a Topaz card, whose number may be wrong.
Looked(w, x) ==
  /\ LinkOK(x) /\ x.antenna = w.antenna
  /\ x.type = "ABSENT" \/ Identified(x) \/ Misnamed(x)

\* A frame gets damaged only where that may happen.
LEMMA NoiseLemma ==
  ASSUME NEW f, NEW w, LinkOK(w), NEW x \in Send(f, w), x.r = "bad"
  PROVE  noise # 0
<1>1. ~(w.lost >= noise) /\ w.lost \in Nat
  BY SendLemma DEF Step, LinkOK, Links
<1> QED  BY <1>1

LEMMA PollingFelica ==
  ASSUME NEW w, LinkOK(w), w.antenna, NEW x \in felica_polling_tags(w)
  PROVE  Looked(w, x)
<1>1. PICK y \in Send("REQC", w) :
        x \in IF ~Failed(y) THEN {Found(y, "FELICA")}
              ELSE {Absent(y)} \cup
                   IF card = "FELICA" /\ ~Silent(y) THEN Mistaken(y, "FELICA") ELSE {}
  BY DEF felica_polling_tags, Then
<1>2. /\ Step(w, y) /\ LinkOK(y) /\ (y.r = "ok" => Answers("REQC", w))
      /\ y.antenna = w.antenna
  BY SendLemma DEF Step, Keeps
<1>6. y.r \in Results
  BY <1>2 DEF LinkOK, Links
<1>3. CASE x = Absent(y)
  BY <1>2, <1>3, AbsentLemma DEF Looked
<1>4. CASE ~Failed(y) /\ x = Found(y, "FELICA")
  <2>1. card = "FELICA" /\ w.mode # "off"
    BY <1>2, <1>4, AnswersTable DEF Failed
  <2>2. card = "FELICA" /\ y.mode # "off" /\ card \in AllKinds /\ card \notin TCL
    BY <1>2, <2>1 DEF Step, Keeps, LinkOK, AllKinds, TCL
  <2>3. LinkOK(x) /\ Identified(x) /\ x.antenna = y.antenna
    BY <1>2, <1>4, <2>2, FoundLemma
  <2> QED  BY <1>2, <2>3 DEF Looked
<1>5. CASE Failed(y) /\ ~Silent(y) /\ card = "FELICA" /\ x \in Mistaken(y, "FELICA")
  <2>1. noise # 0
    BY <1>5, <1>6, NoiseLemma DEF Failed, Silent, Results
  <2> QED  BY <1>2, <1>5, <2>1, MistakenLemma DEF Looked
<1> QED  BY <1>1, <1>3, <1>4, <1>5

\* A Topaz card that only wakes leaves what is known as it is.
LEMMA PollingTopaz ==
  ASSUME NEW w, LinkOK(w), w.antenna, NEW x \in topaz_polling_tags(w)
  PROVE  Looked(w, x) \/ (Step(w, x) /\ x.states \in {w.states, "READY"})
<1>1. PICK u \in typeA_request(w) :
        x \in IF Silent(u) THEN {Absent(u)}
              ELSE Then(Send("RID", u),
                        LAMBDA y : IF ~Failed(y) THEN {Found(y, "TOPAZ")}
                                   ELSE {y} \cup IF card = "TOPAZ" /\ ~Silent(y)
                                                 THEN Mistaken(y, "TOPAZ") ELSE {})
  BY DEF topaz_polling_tags, Then
<1>2. /\ Step(w, u) /\ LinkOK(u) /\ u.states \in {w.states, "READY"}
      /\ u.antenna = w.antenna
  BY RequestLemma DEF Step, Keeps
<1>3. CASE x = Absent(u)
  BY <1>2, <1>3, AbsentLemma DEF Looked
<1>4. ASSUME NEW y \in Send("RID", u),
             x \in IF ~Failed(y) THEN {Found(y, "TOPAZ")}
                   ELSE {y} \cup IF card = "TOPAZ" /\ ~Silent(y)
                                 THEN Mistaken(y, "TOPAZ") ELSE {}
      PROVE  Looked(w, x) \/ (Step(w, x) /\ x.states \in {w.states, "READY"})
  <2>1. /\ Step(u, y) /\ LinkOK(y) /\ y.states = u.states /\ (y.r = "ok" => Answers("RID", u))
        /\ y.antenna = w.antenna
    BY <1>2, SendLemma DEF Step, Keeps
  <2>6. y.r \in Results
    BY <2>1 DEF LinkOK, Links
  <2>2. Step(w, y)
    BY <1>2, <2>1, StepAgain
  <2>3. CASE x = y
    BY <1>2, <2>1, <2>2, <2>3
  <2>4. CASE ~Failed(y) /\ x = Found(y, "TOPAZ")
    <3>1. card = "TOPAZ" /\ u.mode # "off" /\ card \in AllKinds /\ card \notin TCL
      BY <2>1, <2>4, AnswersTable DEF Failed, AllKinds, TCL
    <3>2. y.mode # "off"
      BY <1>2, <2>1, <3>1 DEF Step, Keeps, LinkOK
    <3>3. LinkOK(x) /\ Identified(x) /\ x.antenna = y.antenna
      BY <2>1, <2>4, <3>1, <3>2, FoundLemma
    <3> QED  BY <2>1, <3>3 DEF Looked
  <2>5. CASE Failed(y) /\ ~Silent(y) /\ card = "TOPAZ" /\ x \in Mistaken(y, "TOPAZ")
    <3>1. noise # 0
      BY <1>2, <2>5, <2>6, NoiseLemma DEF Failed, Silent, Results
    <3> QED  BY <2>1, <2>5, <3>1, MistakenLemma DEF Looked
  <2> QED  BY <1>4, <2>3, <2>4, <2>5
<1> QED  BY <1>1, <1>3, <1>4 DEF Then

-----------------------------------------------------------------------------
(* picc.c: the search for a card, and the check of one.                    *)

\* The first poll finds no card, or one that it has identified, but for what
\* damage does to a number.
LEMMA LookLemma ==
  ASSUME NEW w, LinkOK(w), NEW x \in LookForCard(w)
  PROVE  /\ LinkOK(x) /\ x.antenna = TRUE
         /\ x.type = "ABSENT" \/ Identified(x) \/ Misnamed(x)
<1> DEFINE t  == Absent(TurnOn(w))
           S1 == Then({t}, LAMBDA y : IF y.type = "ABSENT" THEN typeA_polling_tags(y) ELSE {y})
           S2 == Then(S1, LAMBDA y : IF y.type = "ABSENT" THEN typeB_polling_tags(y) ELSE {y})
           S3 == Then(S2, LAMBDA y : IF y.type = "ABSENT" THEN felica_polling_tags(y) ELSE {y})
           S4 == Then(S3, LAMBDA y : IF y.type = "ABSENT" THEN topaz_polling_tags(y) ELSE {y})
<1>1. x \in S4
  BY DEF LookForCard
<1>2. PICK y3 \in S3 : x \in IF y3.type = "ABSENT" THEN topaz_polling_tags(y3) ELSE {y3}
  <2> HIDE DEF S3
  <2> QED  BY <1>1 DEF Then
<1>3. PICK y2 \in S2 : y3 \in IF y2.type = "ABSENT" THEN felica_polling_tags(y2) ELSE {y2}
  <2> HIDE DEF S2
  <2> QED  BY <1>2 DEF Then
<1>4. PICK y1 \in S1 : y2 \in IF y1.type = "ABSENT" THEN typeB_polling_tags(y1) ELSE {y1}
  <2> HIDE DEF S1
  <2> QED  BY <1>3 DEF Then
<1>5. y1 \in IF t.type = "ABSENT" THEN typeA_polling_tags(t) ELSE {t}
  <2> HIDE DEF t
  <2> QED  BY <1>4 DEF Then
<1>6. LinkOK(t) /\ t.antenna = TRUE /\ t.type = "ABSENT"
  <2>1. LinkOK(TurnOn(w)) /\ TurnOn(w).antenna = TRUE
    BY TurnOnLemma
  <2> QED  BY <2>1, AbsentLemma
<1> HIDE DEF t, S1, S2, S3, S4
<1>7. LinkOK(y1) /\ y1.antenna = TRUE /\ (y1.type = "ABSENT" \/ Identified(y1))
  BY <1>5, <1>6, PollingA DEF Searched
<1>8. LinkOK(y2) /\ y2.antenna = TRUE /\ (y2.type = "ABSENT" \/ Identified(y2))
  BY <1>4, <1>7, PollingB DEF Searched
<1>9. /\ LinkOK(y3) /\ y3.antenna = TRUE
      /\ y3.type = "ABSENT" \/ Identified(y3) \/ Misnamed(y3)
  BY <1>3, <1>8, PollingFelica DEF Looked
<1>10. CASE y3.type = "ABSENT"
  <2>1. Looked(y3, x) \/ Step(y3, x)
    BY <1>2, <1>9, <1>10, PollingTopaz
  <2> QED  BY <1>9, <1>10, <2>1 DEF Looked, Step, Keeps
<1>11. CASE y3.type # "ABSENT"
  BY <1>2, <1>9, <1>11
<1> QED  BY <1>10, <1>11

\* Power on, after the parameters have been reset.
LEMMA ReactivateLemma ==
  ASSUME NEW w, LinkOK(w), w.states = "POWEROFF", NEW x \in Reactivate(w)
  PROVE  /\ LinkOK(x) /\ x.antenna = TRUE /\ SessionOK(x)
         /\ Truthful(x) \/ ( /\ x.type = "TOPAZ" /\ w.type = "TOPAZ" /\ x.same = w.same
                           /\ x.states # "ACTIVATED")
         /\ x.type = "ABSENT" \/ (w.type \in AllKinds /\ x.type \in AllKinds)
<1> DEFINE t == TurnOn(w)
<1>1. LinkOK(t) /\ t.antenna = TRUE /\ t.type = w.type /\ t.states = w.states /\ t.same = w.same
  BY TurnOnLemma
<1>2. \/ w.type \in TypeA /\ x \in typeA_polling_tags(t)
      \/ w.type = "TYPEB_TCL" /\ x \in typeB_polling_tags(t)
      \/ w.type = "FELICA" /\ x \in felica_polling_tags(t)
      \/ w.type = "TOPAZ" /\ x \in topaz_polling_tags(t)
      \/ x = Absent(t)
  BY DEF Reactivate
<1> HIDE DEF t
<1>3. TypeA \cup {"TYPEB_TCL", "FELICA", "TOPAZ"} \subseteq AllKinds
  BY DEF TypeA, TCL, AllKinds
<1>4. Searched(t, x) \/ Looked(t, x)
        => LinkOK(x) /\ x.antenna = TRUE /\ SessionOK(x) /\ Truthful(x)
             /\ (x.type = "ABSENT" \/ x.type \in AllKinds)
  BY <1>1 DEF Searched, Looked, Identified, Misnamed, SessionOK, Truthful, TCL, AllKinds
<1>5. CASE w.type \in TypeA /\ x \in typeA_polling_tags(t)
  BY <1>1, <1>3, <1>4, <1>5, PollingA
<1>6. CASE w.type = "TYPEB_TCL" /\ x \in typeB_polling_tags(t)
  BY <1>1, <1>3, <1>4, <1>6, PollingB
<1>7. CASE w.type = "FELICA" /\ x \in felica_polling_tags(t)
  BY <1>1, <1>3, <1>4, <1>7, PollingFelica
<1>8. CASE w.type = "TOPAZ" /\ x \in topaz_polling_tags(t)
  <2>1. CASE Looked(t, x)
    BY <1>3, <1>4, <1>8, <2>1
  <2>2. CASE Step(t, x) /\ x.states \in {t.states, "READY"}
    BY <1>1, <1>3, <1>8, <2>2 DEF Step, Keeps, SessionOK, TCL
  <2> QED  BY <1>1, <1>8, <2>1, <2>2, PollingTopaz
<1>9. CASE x = Absent(t)
  BY <1>1, <1>9, AbsentLemma DEF SessionOK, Truthful, TCL, AllKinds
<1> QED  BY <1>2, <1>5, <1>6, <1>7, <1>8, <1>9

\* Waking does not select.
LEMMA TwiceRequestWakes ==
  ASSUME NEW w, LinkOK(w), NEW x \in Twice(typeA_request, w)
  PROVE  x.mode = "active" => w.mode = "active"
<1>1. ASSUME NEW u, LinkOK(u), NEW y \in typeA_request(u)
      PROVE  Step(u, y) /\ (y.mode = "active" => u.mode = "active")
  <2>1. Step(u, y) /\ y.mode \in {u.mode, After("WUPA", u)}
    BY <1>1, RequestLemma
  <2>2. After("WUPA", u) = "active" => u.mode = "active"
    <3> DEFINE m == After("WUPA", u)
    <3>1. ASSUME Answers("WUPA", u) PROVE m # "active"
      <4>1. <<card, u.mode, "WUPA", m>> \in Dialogue
        BY <3>1, AfterAnswer
      <4>2. Table(card, u.mode, m)
        BY DialogueTable
      <4> HIDE DEF m
      <4> QED  BY <4>1, <4>2 DEF Table
    <3> QED  BY <3>1 DEF After
  <2> QED  BY <2>1, <2>2
<1>2. PICK y \in typeA_request(w) : (x = y /\ ~Silent(y)) \/ (Silent(y) /\ x \in typeA_request(y))
  BY TwiceRequestLemma
<1> QED  BY <1>1, <1>2 DEF Step

\* Only the card of that UID is selected.
LEMMA MifareLemma ==
  ASSUME NEW w, LinkOK(w), NEW x \in mifare_select(w)
  PROVE  /\ Step(w, x) /\ x.states \in {w.states, "READY", "SELECTED"}
         /\ x.r = "ok" => x.same /\ x.mode = "active" /\ x.states = "SELECTED"
         /\ x.mode = "active" => w.mode = "active" \/ w.same
<1>1. PICK y \in Twice(typeA_request, w) :
        x \in IF Silent(y) THEN {y} ELSE {Noted(z, "SELECTED") : z \in Send("SELECT_SN", y)}
  BY DEF mifare_select, Then
<1>2. Step(w, y) /\ LinkOK(y) /\ y.states \in {w.states, "READY"}
  BY TwiceRequestLemma DEF Step
<1>3. y.mode = "active" => w.mode = "active"
  BY TwiceRequestWakes
<1>4. CASE Silent(y)
  BY <1>1, <1>2, <1>4, <1>3 DEF Silent
<1>5. CASE ~Silent(y)
  <2>1. PICK z \in Send("SELECT_SN", y) : x = Noted(z, "SELECTED")
    BY <1>1, <1>5
  <2>2. Step(y, z) /\ LinkOK(z) /\ z.states = y.states /\ (z.r = "ok" => Answers("SELECT_SN", y))
    BY <1>2, SendLemma DEF Step
  <2>3. /\ z.r = "ok" => z.same /\ z.mode = "active"
        /\ z.mode = "active" => y.mode = "active" \/ y.same
    <3> DEFINE m == After("SELECT_SN", y)
    <3>1. ASSUME Answers("SELECT_SN", y) PROVE m = "active" /\ y.same
      <4>1. <<card, y.mode, "SELECT_SN", m>> \in Dialogue
        BY <3>1, AfterAnswer
      <4>2. Table(card, y.mode, m)
        BY DialogueTable
      <4>3. y.same
        BY <3>1, AnswersTable
      <4> HIDE DEF m
      <4> QED  BY <4>1, <4>2, <4>3 DEF Table
    <3>2. ~Answers("SELECT_SN", y) /\ After("SELECT_SN", y) = "active" => y.mode = "active"
      BY DEF After
    <3>3. /\ z.mode \in {y.mode, After("SELECT_SN", y)}
          /\ z.r = "ok" => z.mode = After("SELECT_SN", y)
      BY <1>2, <2>1, SendLemma
    <3>4. z.same = y.same
      BY <2>2 DEF Step, Keeps
    <3> QED  BY <2>2, <3>1, <3>2, <3>3, <3>4
  <2>4. /\ Step(z, x) /\ Alike(z, x)
        /\ x.states = IF z.r = "ok" THEN "SELECTED" ELSE z.states
    BY <2>1, <2>2, NotedLemma DEF States
  <2>5. Step(w, x)
    BY <1>2, <2>2, <2>4, StepAgain
  <2>6. y.same = w.same
    BY <1>2 DEF Step, Keeps
  <2>7. /\ x.r = "ok" => x.same /\ x.mode = "active" /\ x.states = "SELECTED"
        /\ x.mode = "active" => w.mode = "active" \/ w.same
    BY <1>3, <2>3, <2>4, <2>6 DEF Alike
  <2> QED  BY <1>2, <2>2, <2>4, <2>5, <2>7
<1> QED  BY <1>4, <1>5

LEMMA ResetLemma ==
  ASSUME NEW w, LinkOK(w)
  PROVE  /\ LinkOK(picc_reset(w)) /\ picc_reset(w).antenna = TRUE
         /\ picc_reset(w).type = w.type /\ picc_reset(w).same = w.same
         /\ picc_reset(w).lost = w.lost /\ picc_reset(w).states = "IDLE"
         /\ card # "none" => picc_reset(w).mode = "idle"
<1> DEFINE t == TurnOff(w)
           u == TurnOn(t)
<1>1. LinkOK(t) /\ t.mode = "off" /\ t.same = w.same /\ t.type = w.type /\ t.lost = w.lost
  BY TurnOffLemma
<1>2. picc_reset(w) = [u EXCEPT !.states = "IDLE"]
  BY DEF picc_reset
<1> HIDE DEF t
<1>3. /\ LinkOK(u) /\ u.antenna = TRUE /\ u.same = w.same /\ u.type = w.type /\ u.lost = w.lost
      /\ card # "none" => u.mode = "idle"
  BY <1>1, TurnOnLemma
<1> HIDE DEF u
<1>4. Step(u, picc_reset(w)) /\ Alike(u, picc_reset(w)) /\ picc_reset(w).states = "IDLE"
  BY <1>2, <1>3, StatesLemma DEF States
<1> QED  BY <1>3, <1>4 DEF Step, Alike

LEMMA AwaitLemma ==
  ASSUME NEW w, LinkOK(w)
  PROVE  /\ LinkOK(AwaitField(w)) /\ (w.antenna => AwaitField(w).antenna)
         /\ AwaitField(w).type = w.type /\ AwaitField(w).same = w.same
         /\ AwaitField(w).states = w.states /\ AwaitField(w).lost = w.lost
         /\ w.mode # "off" => AwaitField(w).mode = w.mode
BY TurnOnLemma DEF AwaitField

\* What the check of a card that was present finds.
Right(w, c) ==
  /\ LinkOK(c.link) /\ c.link.type = w.type /\ c.link.same = w.same
  /\ w.antenna => c.link.antenna
  /\ c.link.states = "ACTIVATED" => w.states = "ACTIVATED"
  /\ c.still \in BOOLEAN
  /\ c.still => w.type \in AllKinds
  /\ c.still /\ SessionOK(w) => SessionOK(c.link)
  /\ c.still /\ SessionOK(w) /\ ( \/ w.type \in {"MIFARE", "FELICA"}
                                  \/ w.type \in TCL /\ c.link.states = "ACTIVATED")
       => c.link.same

LEMMA CheckLemma ==
  ASSUME NEW w, LinkOK(w), NEW c \in CheckCard(w)
  PROVE  Right(w, c)
<1> DEFINE t == AwaitField(w)
<1>0. /\ LinkOK(t) /\ t.type = w.type /\ (w.antenna => t.antenna) /\ t.states = w.states
      /\ t.same = w.same
      /\ "MIFARE" \in AllKinds /\ "FELICA" \in AllKinds /\ "TOPAZ" \in AllKinds
      /\ TCL \subseteq AllKinds
  BY AwaitLemma DEF AllKinds, TCL
<1>1. CASE w.type = "MIFARE"
  <2>1. PICK x \in OrAgain(mifare_select, picc_reset(w)) : c = [link |-> x, still |-> ~Failed(x)]
    BY <1>1 DEF CheckCard, Checked, TCL
  <2>2. /\ LinkOK(picc_reset(w)) /\ picc_reset(w).antenna = TRUE /\ picc_reset(w).type = w.type
        /\ picc_reset(w).same = w.same /\ picc_reset(w).states = "IDLE"
    BY ResetLemma
  <2>3. PICK y \in mifare_select(picc_reset(w)) : x \in IF Failed(y) THEN mifare_select(y) ELSE {y}
    BY <2>1 DEF OrAgain, Then
  <2>4. Step(picc_reset(w), y) /\ LinkOK(y) /\ y.states # "ACTIVATED" /\ (y.r = "ok" => y.same)
    BY <2>2, <2>3, MifareLemma DEF Step
  <2>5. Step(picc_reset(w), x) /\ x.states # "ACTIVATED" /\ (x.r = "ok" => x.same)
    <3>1. x = y \/ (Step(y, x) /\ x.states # "ACTIVATED" /\ (x.r = "ok" => x.same))
      BY <2>3, <2>4, MifareLemma
    <3> QED  BY <2>2, <2>4, <3>1, StepAgain
  <2>6. LinkOK(x) /\ x.type = "MIFARE" /\ x.antenna = TRUE /\ x.same = w.same
    BY <1>1, <2>2, <2>5 DEF Step, Keeps
  <2>7. c.link = x /\ c.still = ~Failed(x) /\ (c.still => x.same)
    BY <2>1, <2>5 DEF Failed
  <2> QED  BY <1>0, <1>1, <2>5, <2>6, <2>7 DEF Right, SessionOK, TCL
<1>2. CASE w.type \in TCL /\ w.states = "ACTIVATED"
  <2>1. PICK x \in OrAgain(LAMBDA z : Send("RACK", z), w) :
          c = [link |-> x, still |-> ~Failed(x)]
    BY <1>2 DEF CheckCard, Checked, TCL
  <2>2. PICK y \in Send("RACK", w) : x \in IF Failed(y) THEN Send("RACK", y) ELSE {y}
    BY <2>1 DEF OrAgain, Then
  <2>3. \A u : LinkOK(u) => After("RACK", u) = "protocol" <=> u.mode = "protocol"
    BY NextModes DEF LinkOK, Links
  <2>4. \A u : Answers("RACK", u) => u.mode = "protocol"
    BY AnswersTable
  <2>5. /\ Step(w, y) /\ LinkOK(y) /\ y.states = w.states
        /\ y.mode = "protocol" <=> w.mode = "protocol"
        /\ y.r = "ok" => y.mode = "protocol"
    BY <2>2, <2>3, <2>4, SendLemma DEF Step
  <2>6. /\ Step(w, x) /\ x.states = w.states
        /\ x.mode = "protocol" <=> w.mode = "protocol"
        /\ x.r = "ok" => x.mode = "protocol"
    <3>1. CASE x = y
      BY <2>5, <3>1
    <3>2. CASE x \in Send("RACK", y)
      <4>1. /\ Step(y, x) /\ x.states = y.states
            /\ x.mode \in {y.mode, After("RACK", y)}
            /\ x.r = "ok" => Answers("RACK", y) /\ x.mode = After("RACK", y)
        BY <2>5, <3>2, SendLemma
      <4>2. Step(w, x)
        BY <2>5, <4>1, StepAgain
      <4> QED  BY <2>3, <2>4, <2>5, <4>1, <4>2
    <3> QED  BY <2>2, <3>1, <3>2
  <2>7. c.link = x /\ c.still = ~Failed(x) /\ (c.still => x.mode = "protocol")
    BY <2>1, <2>6 DEF Failed
  <2>8. /\ LinkOK(x) /\ x.type = w.type /\ x.antenna = w.antenna /\ x.same = w.same
        /\ SessionOK(w) => SessionOK(x)
        /\ SessionOK(w) /\ x.mode = "protocol" => x.same
    BY <1>2, <2>6 DEF Step, Keeps, SessionOK
  <2> QED  BY <1>0, <1>2, <2>7, <2>8 DEF Right
<1>3. CASE w.type = "TOPAZ" \/ (w.type = "TYPEA_TCL" /\ w.states # "ACTIVATED")
  <2>1. PICK x \in Twice(typeA_request, t) : c = [link |-> x, still |-> ~Silent(x)]
    BY <1>3 DEF CheckCard, Checked, TCL
  <2>2. Step(t, x) /\ x.states \in {t.states, "READY"}
    BY <1>0, <2>1, TwiceRequestLemma
  <2>3. /\ LinkOK(x) /\ x.type = w.type /\ x.same = w.same /\ (w.antenna => x.antenna)
        /\ x.states \in {w.states, "READY"}
    BY <1>0, <1>3, <2>2 DEF Step, Keeps
  <2>4. c.link = x /\ c.still \in BOOLEAN /\ w.type \in AllKinds /\ SessionOK(x)
    BY <1>0, <1>3, <2>1, <2>3 DEF Silent, SessionOK, TCL
  <2> QED  BY <1>3, <2>3, <2>4 DEF Right, TCL
<1>4. CASE w.type = "TYPEB_TCL" /\ w.states # "ACTIVATED"
  <2>1. PICK x \in Twice(typeB_request, t) : c = [link |-> x, still |-> ~Silent(x)]
    BY <1>4 DEF CheckCard, Checked, TCL
  <2>2. Step(t, x) /\ x.states \in {t.states, "READY"}
    BY <1>0, <2>1, TwiceRequestBLemma
  <2>3. /\ LinkOK(x) /\ x.type = w.type /\ x.same = w.same /\ (w.antenna => x.antenna)
        /\ x.states # "ACTIVATED"
    BY <1>0, <1>4, <2>2 DEF Step, Keeps
  <2>4. c.link = x /\ c.still \in BOOLEAN /\ w.type \in AllKinds /\ SessionOK(x)
    BY <1>0, <1>4, <2>1, <2>3 DEF Silent, SessionOK, TCL
  <2> QED  BY <1>4, <2>3, <2>4 DEF Right, TCL
<1>5. CASE w.type = "FELICA"
  <2>1. PICK x \in Send("REQRESPONSE_SN", t) : c = [link |-> x, still |-> ~Failed(x)]
    BY <1>5 DEF CheckCard, Checked, TCL
  <2>2. Step(t, x) /\ x.states = t.states /\ (x.r = "ok" => Answers("REQRESPONSE_SN", t))
    BY <1>0, <2>1, SendLemma
  <2>3. x.r = "ok" => x.same
    BY <2>2, AnswersTable DEF Step, Keeps
  <2>4. /\ LinkOK(x) /\ x.type = w.type /\ x.same = w.same /\ (w.antenna => x.antenna)
        /\ x.states = w.states
    BY <1>0, <2>2 DEF Step, Keeps
  <2>5. c.link = x /\ c.still \in BOOLEAN /\ (c.still => x.same) /\ SessionOK(x)
    BY <1>5, <2>1, <2>3, <2>4 DEF Failed, SessionOK, TCL
  <2> QED  BY <1>0, <1>5, <2>4, <2>5 DEF Right
<1>6. CASE /\ w.type # "MIFARE" /\ w.type \notin TCL
           /\ w.type # "TOPAZ" /\ w.type # "FELICA"
  <2>1. c = [link |-> w, still |-> FALSE]
    BY <1>6 DEF CheckCard, TCL
  <2> QED  BY <2>1 DEF Right
<1>7. w.type \in TCL => w.type \in {"TYPEA_TCL", "TYPEB_TCL"}
  BY DEF TCL
<1> QED  BY <1>1, <1>2, <1>3, <1>4, <1>5, <1>6, <1>7

-----------------------------------------------------------------------------
(* The steps.                                                              *)

LEMMA HereFields ==
  /\ Here.antenna = antenna /\ Here.mode = mode /\ Here.same = same
  /\ Here.states = states /\ Here.type = type /\ Here.lost = 0
BY DEF Here

LEMMA HereLemma ==
  ASSUME IInv
  PROVE  /\ LinkOK(Here) /\ SessionOK(Here) /\ Truthful(Here)
         /\ Here.antenna = antenna /\ Here.mode = mode /\ Here.same = same
         /\ Here.states = states /\ Here.type = type /\ Here.lost = 0
BY DEF IInv, Here, ShownIsKnown, Known, Truthful

\* What the next link is, if all is left as in x.
LEMMA LeaveLemma ==
  ASSUME NEW x, LinkOK(x), Leave(x)
  PROVE  /\ LinkOK(Here)'
         /\ SessionOK(x) => SessionOK(Here)'
         /\ antenna' = x.antenna /\ mode' = x.mode /\ same' = x.same
         /\ states' = x.states /\ type' = x.type /\ card' = card /\ noise' = noise
<1> DEFINE h == [antenna |-> x.antenna, mode |-> x.mode, same |-> x.same,
                 states |-> x.states, type |-> x.type, r |-> "ok", lost |-> 0]
<1>1. /\ antenna' = x.antenna /\ mode' = x.mode /\ same' = x.same
      /\ states' = x.states /\ type' = x.type /\ card' = card /\ noise' = noise
  BY DEF Leave
<1>2. Here' = h
  BY <1>1 DEF Here
<1>3. /\ h \in Links /\ h.antenna = x.antenna /\ h.mode = x.mode /\ h.same = x.same
      /\ h.states = x.states /\ h.type = x.type
  BY DEF LinkOK, Links, Results
<1> HIDE DEF h
<1>4. LinkOK(Here)'
  BY <1>1, <1>2, <1>3 DEF LinkOK, Possible
<1>5. SessionOK(x) => SessionOK(Here)'
  BY <1>2, <1>3 DEF SessionOK
<1> QED  BY <1>1, <1>4, <1>5

\* The invariant after a step that leaves x behind.
LEMMA LeaveInv ==
  ASSUME IInv, NEW x, LinkOK(x), SessionOK(x), Truthful(x), Leave(x), status' \subseteq Bits,
         x.type \in AllKinds => "PRESENT" \in status' /\ x.antenna,
         "ACTIVATED" \in status' => x.type \in AllKinds,
         "PRESENT" \in status' <=> "FIRST_INSERT" \in status',
         x.type # "UNSET"
  PROVE  IInv'
<1>1. /\ LinkOK(Here)' /\ SessionOK(Here)'
      /\ antenna' = x.antenna /\ mode' = x.mode /\ same' = x.same
      /\ states' = x.states /\ type' = x.type /\ card' = card /\ noise' = noise
  BY LeaveLemma
<1>2. TypeOK'
  BY <1>1 DEF IInv, TypeOK, LinkOK, Links, Types
<1>3. type' \in AllKinds /\ same' => type' = card'
  BY <1>1 DEF Truthful
<1>4. ShownIsKnown'
  BY <1>1, <1>3 DEF ShownIsKnown, Known, Present
<1> QED  BY <1>1, <1>2, <1>4 DEF IInv


LEMMA PollFirstInv ==
  ASSUME IInv, PollFirst
  PROVE  IInv'
<1>1. PICK x \in LookForCard(Here) :
        IF x.type = "ABSENT"
        THEN Leave(TurnOff(x)) /\ Notify(status \ Shown)
        ELSE Leave(x) /\ Notify(status \cup Shown \cup {"SLOT_CHANGE"})
  BY DEF PollFirst
<1>2. LinkOK(x) /\ x.antenna = TRUE /\ (x.type = "ABSENT" \/ Identified(x) \/ Misnamed(x))
  BY HereLemma, LookLemma
<1>3. status \subseteq Bits
  BY DEF IInv, TypeOK
<1>4. CASE x.type = "ABSENT"
  <2> DEFINE y == TurnOff(x)
  <2>1. LinkOK(y) /\ y.type = "ABSENT"
    BY <1>2, <1>4, TurnOffLemma
  <2>2. Leave(y) /\ Notify(status \ Shown)
    BY <1>1, <1>4
  <2> HIDE DEF y
  <2>3. y.type \notin AllKinds /\ SessionOK(y) /\ Truthful(y)
    BY <2>1 DEF AllKinds, TCL, SessionOK, Truthful
  <2>4. /\ status' \subseteq Bits /\ "PRESENT" \notin status'
        /\ "FIRST_INSERT" \notin status' /\ "ACTIVATED" \notin status'
    BY <1>3, <2>2 DEF Notify, Shown, Bits
  <2> QED  BY <2>1, <2>2, <2>3, <2>4, LeaveInv
<1>5. CASE x.type # "ABSENT"
  <2>1. Leave(x) /\ Notify(status \cup Shown \cup {"SLOT_CHANGE"})
    BY <1>1, <1>5
  <2>2. x.type \in AllKinds /\ SessionOK(x) /\ Truthful(x)
    BY <1>2, <1>5 DEF Identified, Misnamed, SessionOK, Truthful, AllKinds, TCL
  <2>3. /\ status' \subseteq Bits /\ "PRESENT" \in status'
        /\ "FIRST_INSERT" \in status' /\ "ACTIVATED" \in status'
    BY <1>3, <2>1 DEF Notify, Shown, Bits
  <2>4. x.type # "UNSET"
    BY <2>2 DEF AllKinds, TCL
  <2> QED  BY <1>2, <2>1, <2>2, <2>3, <2>4, LeaveInv
<1> QED  BY <1>4, <1>5

LEMMA PollAgainInv ==
  ASSUME IInv, PollAgain
  PROVE  IInv'
<1>1. PICK c \in CheckCard(Here) :
        IF c.still
        THEN Leave(c.link) /\ Notify(status)
        ELSE Leave(Absent(TurnOff(c.link))) /\ Notify((status \ Shown) \cup {"SLOT_CHANGE"})
  BY DEF PollAgain
<1>2. Right(Here, c)
  BY HereLemma, CheckLemma
<1>3. status \subseteq Bits /\ Present /\ ShownIsKnown
  BY DEF IInv, TypeOK, PollAgain
<1>4. CASE c.still
  <2>1. Leave(c.link) /\ Notify(status)
    BY <1>1, <1>4
  <2>2. /\ LinkOK(c.link) /\ SessionOK(c.link) /\ Truthful(c.link)
        /\ c.link.type = type /\ type \in AllKinds
    BY <1>2, <1>4, HereLemma DEF Right, Truthful
  <2>3. c.link.antenna
    BY <1>2, <1>3, <2>2, HereLemma DEF Right, ShownIsKnown, Known
  <2>4. /\ status' \subseteq Bits /\ "PRESENT" \in status' /\ "FIRST_INSERT" \in status'
    BY <1>3, <2>1 DEF Notify, Bits, ShownIsKnown, Present
  <2>5. c.link.type # "UNSET"
    BY <2>2 DEF AllKinds, TCL
  <2> QED  BY <2>1, <2>2, <2>3, <2>4, <2>5, LeaveInv
<1>5. CASE ~c.still
  <2> DEFINE y == Absent(TurnOff(c.link))
  <2>1. LinkOK(y) /\ y.type = "ABSENT"
    <3>1. LinkOK(TurnOff(c.link))
      BY <1>2, TurnOffLemma DEF Right
    <3> QED  BY <3>1, AbsentLemma
  <2>2. Leave(y) /\ Notify((status \ Shown) \cup {"SLOT_CHANGE"})
    BY <1>1, <1>5
  <2> HIDE DEF y
  <2>3. y.type \notin AllKinds /\ SessionOK(y) /\ Truthful(y)
    BY <2>1 DEF AllKinds, TCL, SessionOK, Truthful
  <2>4. /\ status' \subseteq Bits /\ "PRESENT" \notin status'
        /\ "FIRST_INSERT" \notin status' /\ "ACTIVATED" \notin status'
    BY <1>3, <2>2 DEF Notify, Shown, Bits
  <2> QED  BY <2>1, <2>2, <2>3, <2>4, LeaveInv
<1> QED  BY <1>4, <1>5

LEMMA PowerOnInv ==
  ASSUME IInv, picc_power_on
  PROVE  IInv'
<1>1. PICK x \in IF states = "POWEROFF" THEN Reactivate(Here) ELSE {Here} :
        IF x.type = "ABSENT"
        THEN Leave(TurnOff(x)) /\ status' = status \ {"ACTIVATED"}
        ELSE Leave(x) /\ status' = status \cup {"ACTIVATED"}
  BY DEF picc_power_on
<1>2. status \subseteq Bits /\ type \in Types /\ (type = "UNSET" => states = "POWEROFF")
  BY DEF IInv, TypeOK, Types
<1>3. /\ type \in AllKinds => "PRESENT" \in status /\ antenna
      /\ "ACTIVATED" \in status => type \in AllKinds
      /\ "PRESENT" \in status <=> "FIRST_INSERT" \in status
  BY DEF IInv, ShownIsKnown, Known, Present
<1>4. /\ LinkOK(x) /\ SessionOK(x) /\ Truthful(x)
      /\ x.type = "ABSENT" \/ (x.antenna /\ type \in AllKinds /\ x.type \in AllKinds)
  <2>1. CASE states = "POWEROFF"
    BY <1>1, <2>1, HereLemma, ReactivateLemma DEF Truthful
  <2>2. CASE states # "POWEROFF"
    BY <1>1, <1>2, <1>3, <2>2, HereLemma DEF Types
  <2> QED  BY <2>1, <2>2
<1>5. CASE x.type = "ABSENT"
  <2> DEFINE y == TurnOff(x)
  <2>1. LinkOK(y) /\ y.type = "ABSENT"
    BY <1>4, <1>5, TurnOffLemma
  <2>2. Leave(y) /\ status' = status \ {"ACTIVATED"}
    BY <1>1, <1>5
  <2> HIDE DEF y
  <2>3. y.type \notin AllKinds /\ SessionOK(y) /\ Truthful(y) /\ y.type # "UNSET"
    BY <2>1 DEF AllKinds, TCL, SessionOK, Truthful
  <2>4. /\ status' \subseteq Bits /\ "ACTIVATED" \notin status'
        /\ "PRESENT" \in status' <=> "FIRST_INSERT" \in status'
    BY <1>2, <1>3, <2>2
  <2> QED  BY <2>1, <2>2, <2>3, <2>4, LeaveInv
<1>6. CASE x.type # "ABSENT"
  <2>1. Leave(x) /\ status' = status \cup {"ACTIVATED"}
    BY <1>1, <1>6
  <2>2. /\ status' \subseteq Bits /\ "PRESENT" \in status' /\ "FIRST_INSERT" \in status'
    BY <1>2, <1>3, <1>4, <1>6, <2>1 DEF Bits
  <2>3. x.type # "UNSET"
    BY <1>4, <1>6 DEF AllKinds, TCL
  <2> QED  BY <1>4, <1>6, <2>1, <2>2, <2>3, LeaveInv
<1> QED  BY <1>5, <1>6

LEMMA PowerOffLeaves ==
  ASSUME IInv, picc_power_off
  PROVE  UNCHANGED <<states, type, antenna, card, mode, same, noise>>
<1>1. PICK x \in IF type \in TCL THEN typeA_deselect_request(Here)
                ELSE IF type = "MIFARE" THEN typeA_halt(Here) ELSE {Here} : Leave(x)
  BY DEF picc_power_off
<1>2. "FIRST_INSERT" \notin status /\ ShownIsKnown
  BY DEF picc_power_off, IInv
<1>3. type \notin AllKinds
  BY <1>2 DEF ShownIsKnown, Known, Present
<1>4. x = Here
  BY <1>1, <1>3 DEF AllKinds, TCL
<1> QED  BY <1>1, <1>4, LeaveLemma, HereLemma

LEMMA PowerOffInv ==
  ASSUME IInv, picc_power_off
  PROVE  IInv'
<1>1. /\ "FIRST_INSERT" \notin status /\ status' = status \ {"ACTIVATED"}
      /\ status \subseteq Bits /\ ShownIsKnown
  BY DEF picc_power_off, IInv, TypeOK
<1>2. UNCHANGED <<states, type, antenna, card, mode, same, noise>>
  BY PowerOffLeaves
<1>3. Here' = Here /\ card' = card
  BY <1>2 DEF Here
<1>4. LinkOK(Here)' /\ SessionOK(Here)'
  BY <1>2, <1>3 DEF IInv, LinkOK, Possible, SessionOK
<1> QED  BY <1>1, <1>2, <1>4 DEF IInv, TypeOK, ShownIsKnown, Known, Present

LEMMA StutterInv ==
  ASSUME IInv, UNCHANGED vars
  PROVE  IInv'
<1>1. Here' = Here
  BY DEF vars, Here
<1> QED  BY <1>1 DEF vars, IInv, TypeOK, ShownIsKnown, Known, Present, LinkOK, SessionOK, Possible

LEMMA ApduInv ==
  ASSUME IInv, ExchangeApdu
  PROVE  IInv'
<1>1. CASE UNCHANGED vars
  BY <1>1, StutterInv
<1>2. CASE status' = status \ {"ACTIVATED"} /\ \E x \in typeA_deselect_request(Here) : Leave(x)
  <2>1. PICK x \in typeA_deselect_request(Here) : Leave(x)
    BY <1>2
  <2>2. Step(Here, x) /\ x.states # "ACTIVATED"
    BY HereLemma, DeselectLemma
  <2>3. LinkOK(x) /\ SessionOK(x) /\ Truthful(x) /\ x.type = type /\ x.antenna = antenna
    BY <2>2, HereLemma DEF Step, Keeps, SessionOK, Truthful
  <2>4. /\ status \subseteq Bits /\ type \in AllKinds /\ antenna /\ type # "UNSET"
        /\ "PRESENT" \in status /\ "FIRST_INSERT" \in status
    BY DEF IInv, TypeOK, ShownIsKnown, Known, Present, ExchangeApdu, AllKinds, TCL
  <2>5. /\ status' \subseteq Bits /\ "ACTIVATED" \notin status'
        /\ "PRESENT" \in status' /\ "FIRST_INSERT" \in status'
    BY <1>2, <2>4
  <2> QED  BY <2>1, <2>3, <2>4, <2>5, LeaveInv
<1> QED  BY <1>1, <1>2 DEF ExchangeApdu

LEMMA MifareInv ==
  ASSUME IInv, ExchangeMifare
  PROVE  IInv'
<1>1. PICK x \in {Here} \cup (IF states # "SELECTED" THEN mifare_select(Here) ELSE {}) :
        \/ Leave(x)
        \/ x.mode = "active" /\ Leave([x EXCEPT !.mode = "halt"])
  BY DEF ExchangeMifare
<1>2. status' = status /\ type = "MIFARE"
  BY DEF ExchangeMifare
<1>3. LinkOK(x) /\ x.type = type /\ x.antenna = antenna /\ x.same = same
  <2>1. x = Here \/ x \in mifare_select(Here)
    OBVIOUS
  <2> QED  BY <2>1, HereLemma, MifareLemma DEF Step, Keeps
<1>4. /\ status' \subseteq Bits /\ antenna /\ type # "UNSET" /\ type \in AllKinds
      /\ "PRESENT" \in status' /\ "FIRST_INSERT" \in status'
  BY <1>2 DEF IInv, TypeOK, ShownIsKnown, Known, Present, AllKinds, TCL
<1>5. \A y : LinkOK(y) /\ y.type = type /\ y.antenna = antenna /\ y.same = same /\ Leave(y)
               => IInv'
  <2> SUFFICES ASSUME NEW y, LinkOK(y), y.type = type, y.antenna = antenna, y.same = same,
                      Leave(y)
               PROVE  IInv'
    OBVIOUS
  <2>1. SessionOK(y) /\ Truthful(y)
    BY <1>2, HereLemma DEF SessionOK, Truthful, TCL
  <2> QED  BY <1>4, <2>1, LeaveInv
<1>6. CASE Leave(x)
  BY <1>3, <1>5, <1>6
<1>7. CASE x.mode = "active" /\ Leave([x EXCEPT !.mode = "halt"])
  <2> DEFINE y == [x EXCEPT !.mode = "halt"]
  <2>1. x \in Links /\ "halt" \in Modes
    BY <1>3 DEF LinkOK, Modes
  <2>2. /\ y \in Links /\ y.mode = "halt" /\ y.antenna = x.antenna /\ y.same = x.same
        /\ y.type = x.type
    BY <2>1 DEF Links
  <2> HIDE DEF y
  <2>3. Possible("halt") /\ card # "none" /\ x.antenna
    BY <1>3, <1>7 DEF LinkOK, Possible, TypeA
  <2>4. LinkOK(y)
    BY <1>3, <2>2, <2>3 DEF LinkOK
  <2>5. Leave(y)
    BY <1>7 DEF y
  <2> QED  BY <1>3, <1>5, <2>2, <2>4, <2>5
<1> QED  BY <1>1, <1>6, <1>7

LEMMA ParamLink ==
  ASSUME LinkOK(Here), picc_param_init
  PROVE  LinkOK(Here)' /\ SessionOK(Here)'
<1> DEFINE s == "POWEROFF"
<1>1. /\ UNCHANGED <<status, type, antenna, card, mode, same, noise>>
      /\ states' = s
  BY DEF picc_param_init
<1>2. Here' = [Here EXCEPT !.states = s]
  BY <1>1 DEF Here
<1>3. s \in States /\ s # "ACTIVATED"
  BY DEF States
<1>4. /\ LinkOK([Here EXCEPT !.states = s]) /\ [Here EXCEPT !.states = s].states = s
      /\ SessionOK([Here EXCEPT !.states = s])
  BY <1>3, StatesLemma DEF Step, SessionOK
<1> QED  BY <1>1, <1>2, <1>4 DEF LinkOK, Possible, SessionOK

LEMMA ParamInv ==
  ASSUME IInv, picc_param_init
  PROVE  IInv'
<1>1. UNCHANGED <<status, type, antenna, card, mode, same, noise>> /\ states' = "POWEROFF"
  BY DEF picc_param_init
<1>2. LinkOK(Here)' /\ SessionOK(Here)'
  BY HereLemma, ParamLink
<1> QED  BY <1>1, <1>2 DEF IInv, TypeOK, ShownIsKnown, Known, Present, States

LEMMA BringLink ==
  ASSUME LinkOK(Here), antenna \in BOOLEAN, NEW k \in Kinds, Bring(k)
  PROVE  LinkOK(Here)' /\ SessionOK(Here)' /\ ~same' /\ mode' \in Modes
<1> DEFINE m == IF antenna THEN "idle" ELSE "off"
<1>1. /\ card = "none" /\ card' = k /\ mode' = m
      /\ UNCHANGED <<status, states, type, antenna, same, noise>>
  BY DEF Bring
<1>2. Here \in Links /\ m \in Modes
  BY DEF LinkOK, Modes
<1>3. Here' = [antenna |-> antenna, mode |-> m, same |-> same, states |-> states,
               type |-> type, r |-> "ok", lost |-> 0]
  BY <1>1 DEF Here
<1>4. /\ Here' \in Links /\ Here'.antenna = antenna /\ Here'.mode = m
      /\ Here'.same = same /\ Here'.states = states /\ Here'.type = type
  BY <1>2, <1>3 DEF Links, Here
<1>5. ~same
  BY <1>1, HereFields DEF LinkOK
<1>6. k # "none" /\ (m = "off" <=> ~antenna) /\ m \notin {"active", "protocol", "ready", "halt"}
  BY KindsAssumption DEF AllKinds, TCL
<1> HIDE DEF m
<1>7. LinkOK(Here)'
  BY <1>1, <1>4, <1>5, <1>6 DEF LinkOK, Possible
<1>8. SessionOK(Here)'
  BY <1>4, <1>5, <1>6 DEF SessionOK
<1> QED  BY <1>1, <1>2, <1>5, <1>7, <1>8

LEMMA BringInv ==
  ASSUME IInv, NEW k \in Kinds, Bring(k)
  PROVE  IInv'
<1>1. card' = k /\ UNCHANGED <<status, states, type, antenna, same, noise>>
  BY DEF Bring
<1>2. antenna \in BOOLEAN
  BY DEF IInv, TypeOK
<1>3. LinkOK(Here)' /\ SessionOK(Here)' /\ ~same' /\ mode' \in Modes
  BY <1>2, HereLemma, BringLink
<1> QED  BY <1>1, <1>3 DEF IInv, TypeOK, ShownIsKnown, Known, Present

LEMMA TakeLink ==
  ASSUME LinkOK(Here), Take
  PROVE  LinkOK(Here)' /\ SessionOK(Here)'
<1>1. /\ card' = "none" /\ mode' = "off" /\ same' = FALSE
      /\ UNCHANGED <<status, states, type, antenna, noise>>
  BY DEF Take
<1>2. Here \in Links /\ "off" \in Modes
  BY DEF LinkOK, Modes
<1>3. Here' = [antenna |-> antenna, mode |-> "off", same |-> FALSE, states |-> states,
               type |-> type, r |-> "ok", lost |-> 0]
  BY <1>1 DEF Here
<1>4. /\ Here' \in Links /\ Here'.antenna = antenna /\ Here'.mode = "off"
      /\ Here'.same = FALSE /\ Here'.states = states /\ Here'.type = type
  BY <1>2, <1>3 DEF Links, Here
<1> QED  BY <1>1, <1>4 DEF LinkOK, Possible, SessionOK

LEMMA TakeInv ==
  ASSUME IInv, Take
  PROVE  IInv'
<1>1. /\ card' = "none" /\ mode' = "off" /\ same' = FALSE
      /\ UNCHANGED <<status, states, type, antenna, noise>>
  BY DEF Take
<1>2. LinkOK(Here)' /\ SessionOK(Here)'
  BY HereLemma, TakeLink
<1> QED  BY <1>1, <1>2 DEF IInv, TypeOK, ShownIsKnown, Known, Present, Modes

LEMMA DisturbInv ==
  ASSUME IInv, NEW n \in 0 .. MaxNoise, Disturb(n)
  PROVE  IInv'
<1>1. noise' = n /\ UNCHANGED <<status, states, type, antenna, card, mode, same>>
  BY DEF Disturb
<1>2. Here' = Here
  BY <1>1 DEF Here
<1>3. LinkOK(Here)' /\ SessionOK(Here)'
  BY <1>1, <1>2 DEF IInv, LinkOK, Possible, SessionOK
<1> QED  BY <1>1, <1>3 DEF IInv, TypeOK, ShownIsKnown, Known, Present

LEMMA InitInv ==
  ASSUME Init
  PROVE  IInv
<1>1. TypeOK
  <2>1. 0 \in 0 .. MaxNoise
    BY NoiseAssumption
  <2>2. "POWEROFF" \in States /\ "off" \in Modes
    BY DEF States, Modes
  <2> QED  BY <2>1, <2>2 DEF Init, TypeOK
<1>2. ShownIsKnown
  BY DEF Init, ShownIsKnown, Known, Present, AllKinds, TCL
<1>3. Here = [antenna |-> FALSE, mode |-> "off", same |-> FALSE, states |-> "POWEROFF",
              type |-> "UNSET", r |-> "ok", lost |-> 0]
  BY DEF Init, Here
<1>4. LinkOK(Here) /\ SessionOK(Here)
  <2>1. Here \in Links
    BY <1>3 DEF Links, Modes, States, Types, Results
  <2> QED  BY <1>3, <2>1 DEF Init, LinkOK, SessionOK, Possible, TCL, AllKinds
<1> QED  BY <1>1, <1>2, <1>4 DEF IInv, Init

LEMMA NextInv ==
  ASSUME IInv, [Next]_vars
  PROVE  IInv'
<1>1. CASE PollFirst
  BY <1>1, PollFirstInv
<1>2. CASE PollAgain
  BY <1>2, PollAgainInv
<1>3. CASE picc_power_on
  BY <1>3, PowerOnInv
<1>4. CASE picc_power_off
  BY <1>4, PowerOffInv
<1>5. CASE ExchangeApdu
  BY <1>5, ApduInv
<1>6. CASE ExchangeMifare
  BY <1>6, MifareInv
<1>7. CASE picc_param_init
  BY <1>7, ParamInv
<1>8. CASE \E k \in Kinds : Bring(k)
  BY <1>8, BringInv
<1>9. CASE Take
  BY <1>9, TakeInv
<1>10. CASE \E n \in 0 .. MaxNoise : Disturb(n)
  BY <1>10, DisturbInv
<1>11. CASE UNCHANGED vars
  BY <1>11, StutterInv
<1> QED
  BY <1>1, <1>2, <1>3, <1>4, <1>5, <1>6, <1>7, <1>8, <1>9, <1>10, <1>11 DEF Next, Poll

\* Whatever the cards do and whatever gets lost, IInv holds.
THEOREM Invariance == Spec => []IInv
<1>1. Init => IInv
  BY InitInv
<1>2. IInv /\ [Next]_vars => IInv'
  BY NextInv
<1> QED  BY <1>1, <1>2, PTL DEF Spec

\* Every variable keeps to its type.
THEOREM TypeCorrect == Spec => []TypeOK
<1>1. IInv => TypeOK
  BY DEF IInv
<1> QED  BY <1>1, Invariance, PTL

\* A card that is known is shown and has a field, and only a known one is shown
\* as active; what the driver holds about the card it has identified is true.
THEOREM ShownIsBacked == Spec => []ShownIsKnown
<1>1. IInv => ShownIsKnown
  BY DEF IInv
<1> QED  BY <1>1, Invariance, PTL

\* PICC_ACTIVATED means that the card identified expects T=CL blocks.
THEOREM StaysInSession == Spec => []InSession
<1>1. IInv => InSession
  <2> SUFFICES ASSUME IInv PROVE InSession
    OBVIOUS
  <2> QED  BY HereLemma DEF InSession, SessionOK
<1> QED  BY <1>1, Invariance, PTL

-----------------------------------------------------------------------------
(* What a poll can tell.                                                   *)

LEMMA TellsApart ==
  ASSUME LinkOK(Here), SessionOK(Here), Poll, Certain(type', states')
  PROVE  same'
<1>1. /\ type' \in AllKinds /\ type' # "ABSENT" /\ type' # "TOPAZ"
      /\ type' \in {"MIFARE", "FELICA"} \/ (type' \in TCL /\ states' = "ACTIVATED")
      /\ type' = "FELICA" => noise = 0 \/ Present
  BY DEF Certain, AllKinds, TCL
<1>2. CASE PollFirst
  <2>1. PICK x \in LookForCard(Here) :
          IF x.type = "ABSENT"
          THEN Leave(TurnOff(x)) /\ Notify(status \ Shown)
          ELSE Leave(x) /\ Notify(status \cup Shown \cup {"SLOT_CHANGE"})
    BY <1>2 DEF PollFirst
  <2>2. LinkOK(x) /\ (x.type = "ABSENT" \/ Identified(x) \/ Misnamed(x))
    BY LookLemma
  <2>3. CASE x.type = "ABSENT"
    <3>1. LinkOK(TurnOff(x)) /\ TurnOff(x).type = "ABSENT"
      BY <2>2, <2>3, TurnOffLemma
    <3> QED  BY <1>1, <2>1, <2>3, <3>1, LeaveLemma
  <2>4. CASE x.type # "ABSENT"
    <3>1. type' = x.type /\ same' = x.same
      BY <2>1, <2>2, <2>4, LeaveLemma
    <3>2. ~Misnamed(x)
      BY <1>1, <1>2, <3>1 DEF PollFirst, Misnamed
    <3> QED  BY <2>2, <2>4, <3>1, <3>2 DEF Identified
  <2> QED  BY <2>3, <2>4
<1>3. CASE PollAgain
  <2>1. PICK c \in CheckCard(Here) :
          IF c.still
          THEN Leave(c.link) /\ Notify(status)
          ELSE Leave(Absent(TurnOff(c.link))) /\ Notify((status \ Shown) \cup {"SLOT_CHANGE"})
    BY <1>3 DEF PollAgain
  <2>2. Right(Here, c)
    BY CheckLemma
  <2>3. CASE c.still
    <3>1. /\ type' = c.link.type /\ states' = c.link.states /\ same' = c.link.same
      BY <2>1, <2>3 DEF Leave
    <3> QED  BY <1>1, <2>2, <2>3, <3>1, HereFields DEF Right
  <2>4. CASE ~c.still
    <3>1. LinkOK(TurnOff(c.link))
      BY <2>2, TurnOffLemma DEF Right
    <3>2. LinkOK(Absent(TurnOff(c.link))) /\ Absent(TurnOff(c.link)).type = "ABSENT"
      BY <3>1, AbsentLemma
    <3> QED  BY <1>1, <2>1, <2>4, <3>2, LeaveLemma
  <2> QED  BY <2>2, <2>3, <2>4 DEF Right
<1> QED  BY <1>2, <1>3 DEF Poll

\* A poll after which a MIFARE or activated T=CL card is shown is right about
\* which card it is, even if frames get lost or damaged; so is one after which a
\* FeliCa card is shown, unless the poll has just found it and a frame was
\* damaged.
THEOREM TellsCardsApart == Spec => PollTellsCardsApart
<1>1. IInv /\ [Next]_vars => [Poll /\ Certain(type', states') => same']_vars
  <2> SUFFICES ASSUME IInv, Poll, Certain(type', states')
               PROVE  same'
    OBVIOUS
  <2> QED  BY HereLemma, TellsApart
<1> QED  BY <1>1, Invariance, PTL DEF Spec, PollTellsCardsApart

\* A card that has been woken is found, or a frame has got lost.
LEMMA RequestSure ==
  ASSUME NEW w, LinkOK(w), w.mode \notin {"off", "protocol"}, card \in TypeA \cup {"TOPAZ"},
         NEW x \in Twice(typeA_request, w), x.lost = w.lost
  PROVE  x.r = "ok" /\ (card \in TypeA => x.mode = "ready")
<1>1. PICK y \in typeA_request(w) :
        (x = y /\ ~Silent(y)) \/ (Silent(y) /\ x \in typeA_request(y))
  BY TwiceRequestLemma
<1>2. /\ Step(w, y) /\ LinkOK(y)
      /\ y.lost = w.lost =>
           y.mode = After("WUPA", w) /\ y.r = IF Answers("WUPA", w) THEN "ok" ELSE "notag"
  BY RequestLemma DEF Step
<1>3. Silent(y) => /\ Step(y, x)
                   /\ x.lost = y.lost =>
                        x.mode = After("WUPA", y)
                          /\ x.r = IF Answers("WUPA", y) THEN "ok" ELSE "notag"
  BY <1>1, <1>2, RequestLemma
<1>4. y.lost = w.lost
  BY <1>1, <1>2, <1>3 DEF Step, LinkOK, Links
<1>5. \A u : Answers("WUPA", u) <=>
               \/ card \in TypeA /\ u.mode \in {"idle", "halt"}
               \/ card = "TOPAZ" /\ u.mode = "idle"
  BY AnswersTable
<1>6. \A u : LinkOK(u) =>
        /\ card \in TypeA /\ u.mode \in {"idle", "halt"} => After("WUPA", u) = "ready"
        /\ card \in TypeA /\ u.mode \in {"ready", "active"} => After("WUPA", u) = "idle"
  BY NextModes DEF LinkOK, Links
<1>7. w.mode \in {"idle", "ready", "active", "halt"} /\ (card = "TOPAZ" => w.mode = "idle")
  BY DEF LinkOK, Links, Modes, Possible, TypeA, TCL
<1>8. CASE w.mode \in {"idle", "halt"}
  <2>1. y.r = "ok" /\ (card \in TypeA => y.mode = "ready")
    BY <1>2, <1>4, <1>5, <1>6, <1>7, <1>8
  <2> QED  BY <1>1, <2>1 DEF Silent
<1>9. CASE w.mode \in {"ready", "active"}
  <2>1. card \in TypeA /\ y.mode = "idle" /\ y.r = "notag"
    BY <1>2, <1>4, <1>5, <1>6, <1>7, <1>9
  <2>2. Silent(y) /\ x.lost = y.lost
    BY <1>4, <2>1 DEF Silent
  <2> QED  BY <1>2, <1>3, <1>5, <1>6, <2>1, <2>2
<1> QED  BY <1>7, <1>8, <1>9

LEMMA RequestBSure ==
  ASSUME NEW w, LinkOK(w), w.mode \notin {"off", "protocol"}, card = "TYPEB_TCL",
         NEW x \in Twice(typeB_request, w), x.lost = w.lost
  PROVE  x.r = "ok"
<1>1. PICK y \in typeB_request(w) :
        (x = y /\ ~Silent(y)) \/ (Silent(y) /\ x \in typeB_request(y))
  BY TwiceRequestBLemma
<1>2. /\ Step(w, y) /\ LinkOK(y)
      /\ y.lost = w.lost => y.r = IF Answers("WUPB", w) THEN "ok" ELSE "notag"
  BY RequestBLemma DEF Step
<1>3. Silent(y) => Step(y, x)
  BY <1>1, <1>2, RequestBLemma
<1>4. y.lost = w.lost
  BY <1>1, <1>2, <1>3 DEF Step, LinkOK, Links
<1>5. w.mode \in {"idle", "ready", "halt"}
  BY DEF LinkOK, Links, Modes, Possible, TypeA, TCL
<1>6. Answers("WUPB", w)
  BY <1>5, AnswersTable
<1> QED  BY <1>1, <1>2, <1>4, <1>6 DEF Silent

LEMMA MifareSure ==
  ASSUME NEW w, LinkOK(w), w.mode # "off", card = "MIFARE", w.same,
         NEW x \in mifare_select(w), x.lost = w.lost
  PROVE  x.r = "ok"
<1>1. PICK y \in Twice(typeA_request, w) :
        x \in IF Silent(y) THEN {y} ELSE {Noted(z, "SELECTED") : z \in Send("SELECT_SN", y)}
  BY DEF mifare_select, Then
<1>2. Step(w, y) /\ LinkOK(y) /\ y.same
  BY TwiceRequestLemma DEF Step, Keeps
<1>3. w.mode # "protocol" /\ card \in TypeA
  BY DEF LinkOK, Possible, TCL, TypeA
<1>4. y.lost = w.lost => y.r = "ok" /\ y.mode = "ready"
  BY <1>3, RequestSure
<1>5. CASE Silent(y)
  BY <1>1, <1>4, <1>5 DEF Silent
<1>6. CASE ~Silent(y)
  <2>1. PICK z \in Send("SELECT_SN", y) : x = Noted(z, "SELECTED")
    BY <1>1, <1>6
  <2>2. /\ Step(y, z) /\ LinkOK(z)
        /\ z.lost = y.lost => z.r = IF Answers("SELECT_SN", y) THEN "ok" ELSE "notag"
    BY <1>2, SendLemma DEF Step
  <2>3. Alike(z, x)
    BY <2>1, <2>2, NotedLemma DEF States
  <2>4. z.lost = y.lost /\ y.lost = w.lost
    BY <1>2, <2>2, <2>3 DEF Step, Alike, LinkOK, Links
  <2>5. Answers("SELECT_SN", y)
    BY <1>2, <1>3, <1>4, <2>4, AnswersTable
  <2> QED  BY <2>2, <2>3, <2>4, <2>5 DEF Alike
<1> QED  BY <1>5, <1>6

\* The card that was identified is found again by the check of it.
LEMMA CheckSure ==
  ASSUME noise \in Nat, NEW w, LinkOK(w), SessionOK(w), w.lost = 0, w.same, w.antenna,
         w.type \in AllKinds,
         w.type = card \/ (w.type = "TOPAZ" /\ card \in TypeA /\ w.states # "ACTIVATED"),
         \/ noise = 0 /\ (w.mode = "protocol" => w.states = "ACTIVATED")
         \/ noise <= 1 /\ (w.type = "MIFARE" \/ (w.type \in TCL /\ w.states = "ACTIVATED")),
         NEW c \in CheckCard(w)
  PROVE  c.still
<1> DEFINE t == AwaitField(w)
<1>0. /\ card # "none" /\ w.mode # "off" /\ noise <= 1
      /\ w.type # "TOPAZ" => card = w.type
  BY DEF LinkOK
<1>1. LinkOK(t) /\ t.mode = w.mode /\ t.same = w.same /\ t.lost = 0
  BY <1>0, AwaitLemma
<1>2. CASE w.type = "MIFARE"
  <2>1. PICK x \in OrAgain(mifare_select, picc_reset(w)) : c = [link |-> x, still |-> ~Failed(x)]
    BY <1>2 DEF CheckCard, Checked, TCL
  <2>2. PICK y \in mifare_select(picc_reset(w)) : x \in IF Failed(y) THEN mifare_select(y) ELSE {y}
    BY <2>1 DEF OrAgain, Then
  <2>3. /\ LinkOK(picc_reset(w)) /\ picc_reset(w).mode = "idle" /\ picc_reset(w).same
        /\ picc_reset(w).lost = 0
    BY <1>0, ResetLemma
  <2>4. Step(picc_reset(w), y) /\ LinkOK(y) /\ y.same /\ y.mode # "off"
    <3>1. Step(picc_reset(w), y) /\ LinkOK(y)
      BY <2>2, <2>3, MifareLemma DEF Step
    <3> QED  BY <2>3, <3>1 DEF Step, Keeps, LinkOK
  <2>5. CASE y.lost = 0
    <3>1. y.r = "ok"
      BY <1>0, <1>2, <2>2, <2>3, <2>5, MifareSure
    <3> QED  BY <2>1, <2>2, <3>1 DEF Failed
  <2>6. CASE y.lost # 0 /\ Failed(y)
    <3>1. y.lost >= noise
      BY <1>0, <2>4, <2>6 DEF LinkOK, Links
    <3>2. x \in mifare_select(y) /\ Step(y, x)
      BY <2>2, <2>4, <2>6, MifareLemma
    <3>3. x.lost = y.lost
      BY <3>1, <3>2 DEF Step
    <3>4. x.r = "ok"
      BY <1>0, <1>2, <2>4, <3>2, <3>3, MifareSure
    <3> QED  BY <2>1, <3>4 DEF Failed
  <2>7. CASE ~Failed(y)
    BY <2>1, <2>2, <2>7
  <2> QED  BY <2>5, <2>6, <2>7
<1>3. CASE w.type \in TCL /\ w.states = "ACTIVATED"
  <2>1. PICK x \in OrAgain(LAMBDA z : Send("RACK", z), w) :
          c = [link |-> x, still |-> ~Failed(x)]
    BY <1>3 DEF CheckCard, Checked, TCL
  <2>2. PICK y \in Send("RACK", w) : x \in IF Failed(y) THEN Send("RACK", y) ELSE {y}
    BY <2>1 DEF OrAgain, Then
  <2>3. w.mode = "protocol"
    BY <1>3 DEF SessionOK
  <2>4. \A u : u.mode = "protocol" => Answers("RACK", u)
    BY <1>0, <1>3, AnswersTable DEF TCL
  <2>5. /\ Step(w, y) /\ LinkOK(y) /\ y.mode = "protocol"
        /\ y.lost = w.lost => y.r = "ok"
    <3>1. After("RACK", w) = "protocol"
      BY <2>3, NextModes DEF LinkOK, Links
    <3> QED  BY <2>2, <2>3, <2>4, <3>1, SendLemma DEF Step
  <2>6. CASE y.lost = 0
    BY <2>1, <2>2, <2>5, <2>6 DEF Failed
  <2>7. CASE y.lost # 0 /\ Failed(y)
    <3>1. y.lost >= noise
      BY <1>0, <2>5, <2>7 DEF LinkOK, Links
    <3>2. Step(y, x) /\ (x.lost = y.lost => x.r = "ok")
      BY <2>2, <2>4, <2>5, <2>7, SendLemma
    <3>3. x.r = "ok"
      BY <3>1, <3>2 DEF Step
    <3> QED  BY <2>1, <3>3 DEF Failed
  <2>8. CASE ~Failed(y)
    BY <2>1, <2>2, <2>8
  <2> QED  BY <2>6, <2>7, <2>8
<1>4. CASE w.type # "MIFARE" /\ ~(w.type \in TCL /\ w.states = "ACTIVATED")
  <2>1. noise = 0 /\ w.mode # "protocol"
    BY <1>0, <1>4 DEF LinkOK, Possible, TypeA, TCL
  <2>2. \A x : Step(t, x) => x.lost = t.lost
    BY <1>1, <2>1 DEF Step
  <2>3. CASE w.type = "TOPAZ" \/ w.type = "TYPEA_TCL"
    <3>1. PICK x \in Twice(typeA_request, t) : c = [link |-> x, still |-> ~Silent(x)]
      BY <1>4, <2>3 DEF CheckCard, Checked, TCL
    <3>2. x.lost = t.lost
      BY <1>1, <2>2, <3>1, TwiceRequestLemma
    <3>3. card \in TypeA \cup {"TOPAZ"} /\ t.mode \notin {"off", "protocol"}
      BY <1>0, <1>1, <2>1, <2>3 DEF TypeA
    <3>4. x.r = "ok"
      BY <1>1, <3>1, <3>2, <3>3, RequestSure
    <3> QED  BY <3>1, <3>4 DEF Silent
  <2>4. CASE w.type = "TYPEB_TCL"
    <3>1. PICK x \in Twice(typeB_request, t) : c = [link |-> x, still |-> ~Silent(x)]
      BY <1>4, <2>4 DEF CheckCard, Checked, TCL
    <3>2. x.lost = t.lost
      BY <1>1, <2>2, <3>1, TwiceRequestBLemma
    <3>3. x.r = "ok"
      BY <1>0, <1>1, <2>1, <2>4, <3>1, <3>2, RequestBSure
    <3> QED  BY <3>1, <3>3 DEF Silent
  <2>5. CASE w.type = "FELICA"
    <3>1. PICK x \in Send("REQRESPONSE_SN", t) : c = [link |-> x, still |-> ~Failed(x)]
      BY <2>5 DEF CheckCard, Checked, TCL
    <3>2. /\ Step(t, x)
          /\ x.lost = t.lost => x.r = IF Answers("REQRESPONSE_SN", t) THEN "ok" ELSE "notag"
      BY <1>1, <3>1, SendLemma
    <3>3. t.mode = "idle"
      BY <1>0, <1>1, <2>1, <2>5 DEF LinkOK, Links, Modes, Possible, TypeA, TCL
    <3>4. Answers("REQRESPONSE_SN", t)
      BY <1>0, <1>1, <2>5, <3>3, AnswersTable
    <3> QED  BY <2>2, <3>1, <3>2, <3>4 DEF Failed
  <2> QED  BY <1>4, <2>3, <2>4, <2>5 DEF AllKinds, TCL
<1> QED  BY <1>2, <1>3, <1>4

LEMMA KeepsCard ==
  ASSUME LinkOK(Here), SessionOK(Here), antenna, noise \in Nat,
         type = card \/ (type = "TOPAZ" /\ card \in TypeA /\ states # "ACTIVATED"),
         PollAgain, Known, same, Findable
  PROVE  "PRESENT" \in status'
<1>1. PICK c \in CheckCard(Here) :
        IF c.still
        THEN Leave(c.link) /\ Notify(status)
        ELSE Leave(Absent(TurnOff(c.link))) /\ Notify((status \ Shown) \cup {"SLOT_CHANGE"})
  BY DEF PollAgain
<1>2. c.still
  BY HereFields, CheckSure DEF Findable, Known
<1> QED  BY <1>1, <1>2 DEF PollAgain, Present, Notify

\* A poll does not take a card for removed that has stayed: not without a
\* disturbance, unless the card waits for blocks while the driver calls it, and
\* not for one lost frame where the check is repeated.
THEOREM KeepsTheCard == Spec => PollKeepsCard
<1>1. IInv /\ [Next]_vars =>
        [PollAgain /\ Known /\ same /\ Findable => "PRESENT" \in status']_vars
  <2> SUFFICES ASSUME IInv, PollAgain, Known, same, Findable
               PROVE  "PRESENT" \in status'
    OBVIOUS
  <2>1. LinkOK(Here) /\ SessionOK(Here) /\ antenna /\ noise \in Nat /\ type = card
    BY NoiseAssumption DEF IInv, ShownIsKnown, TypeOK
  <2> QED  BY <2>1, KeepsCard
<1> QED  BY <1>1, Invariance, PTL DEF Spec, PollKeepsCard
=============================================================================
