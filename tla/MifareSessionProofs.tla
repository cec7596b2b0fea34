------------------------ MODULE MifareSessionProofs ------------------------
(***************************************************************************)
(* Theorems about MifareSession, for any keys, blocks, lengths and kinds   *)
(* of MIFARE card, and any number of frames that get lost.                 *)
(*                                                                         *)
(* The commands are followed frame by frame through links of the card      *)
(* session with what MIFARE adds to them.  Without that they are links of  *)
(* PiccSession, and the lemmas about those are used for the selection.     *)
(***************************************************************************)
EXTENDS MifareSession, PiccSessionProofs

-----------------------------------------------------------------------------
(* The inductive invariant.                                                *)

Bytes   == 0 .. 255
Sectors == Bytes \cup {None}
Replies == {"ok", "notag", "bad", "nak", "mute", "fail"}

Wide == [antenna : BOOLEAN, mode : Modes, same : BOOLEAN, states : States, type : Types,
         r : Replies, lost : Nat, sak : Chips \cup {"none", "UL"}, open : Sectors,
         crypto : BOOLEAN, pend : {"none", "data", "value", "buffer"}, wrote : SUBSET Bytes,
         misread : BOOLEAN]

\* Only the card that has been identified can be active, and only an active
\* one is open or waits for a second frame.  A selected card is taken for what
\* it is, one whose selection has failed perhaps for an Ultralight.
OpenOK(w) ==
  /\ w \in Wide
  /\ w.same /\ w.type = "MIFARE" =>
       w.sak \in {chip, "UL"} /\ (w.states = "SELECTED" => w.sak = chip)
  /\ w.open # None => w.mode = "active" /\ w.type = "MIFARE"
  /\ w.pend # "none" => w.mode = "active"
  /\ w.mode = "active" /\ w.type = "MIFARE" => w.same

ChipOK ==
  /\ card \in {"none", "MIFARE"} /\ (chip = "none" <=> card = "none")
  /\ OpenOK(Link)

KeysOK ==
  /\ mifare_key \in [{0, 1} -> Keys] /\ key_valid \subseteq {0, 1}
  /\ work_key \in Keys /\ key_No \in {0, 1} /\ block \in Bytes
  /\ authen_need \in BOOLEAN
  /\ SAK \in Chips \cup {"none", "UL"} /\ chip \in Chips \cup {"none"}
  /\ granted \in Sectors

Commands == [op : {"read", "write"}, at : Bytes, left : Bytes, len : Bytes,
             asked : SUBSET Int, wrote : SUBSET Bytes, misread : BOOLEAN,
             r : {"busy", "ok", "fail"}]

\* The bytes that one round of the loop writes, and those it is to write in all.
Pace == IF SAK = "UL" THEN 4 ELSE 16
Size == IF cmd.len = 0 THEN 256 ELSE cmd.len

\* A command that writes is k blocks into those it was asked for, ...
Rounds(k) ==
  /\ cmd.left = (Size - Pace * k) % 256 /\ Size % Pace = 0 /\ Pace * k < Size
  /\ \E b \in Bytes : /\ cmd.asked = b .. (b + (Size \div Pace) - 1)
                     /\ cmd.at = b + k /\ cmd.wrote = b .. (b + k - 1)

\* ... or its number of blocks has gone round, so that the next one is in
\* another sector than the last, ...
Wrapped == SAK # "UL" /\ cmd.at = 0 /\ 255 \in cmd.wrote

\* ... or its length is no multiple of a round and its rest never becomes zero.
InLoop == cmd.left % Pace # 0 \/ Wrapped \/ \E k \in Bytes : Rounds(k)

LoopOK ==
  cmd # Idle =>
    /\ cmd \in Commands /\ type = "MIFARE"
    /\ cmd.op = "read" => cmd.wrote = {}
    /\ SparesTrailers
    /\ cmd.r = "busy" /\ SAK # "UL" =>
         /\ cmd.len = 16 => cmd.asked = {cmd.at} /\ cmd.left = 16
         /\ \A b \in cmd.wrote : mifare_block_check(b, b, FALSE)
    /\ cmd.op = "write" /\ ~cmd.misread =>
         /\ cmd.r = "busy" => InLoop
         /\ cmd.r = "ok" => cmd.wrote = cmd.asked

\* A sector that a host has opened and that nothing has closed since: the card
\* gives access to it, or was reset by a poll and gives access again with the
\* key that the driver holds.
GrantedOK ==
  granted # None =>
    /\ noise = 0 /\ same /\ type = "MIFARE" /\ chip # "UL" /\ SAK # "UL"
    /\ KeyUsable /\ work_key = CardKey
    /\ block \in Memory(chip) /\ SectorOf(block) = granted
    /\ cmd = Idle \/ cmd.r # "fail" =>
         /\ mode = "active"
         /\ \/ crypto /\ open = granted
            \/ authen_need /\ cmd = Idle /\ ~crypto /\ open = None
    /\ SessionSurvivesPolls

MInv == IInv /\ KeysOK /\ ChipOK /\ LoopOK /\ GrantedOK

-----------------------------------------------------------------------------
(* Links.                                                                  *)

Narrow(w) == [antenna |-> w.antenna, mode |-> w.mode, same |-> w.same, states |-> w.states,
              type |-> w.type, r |-> w.r, lost |-> w.lost]

\* What PiccSession does not know of.
Beside(w, x) ==
  /\ x.open = w.open /\ x.crypto = w.crypto /\ x.pend = w.pend /\ x.wrote = w.wrote
  /\ x.sak = w.sak /\ x.misread = w.misread

\* A link that differs from w in the fields of PiccSession, which are those of n.
Widened(w, n, x) == x \in Wide /\ Beside(w, x) /\ Narrow(x) = n

LEMMA NarrowFields ==
  ASSUME NEW w
  PROVE  /\ Narrow(w).antenna = w.antenna /\ Narrow(w).mode = w.mode /\ Narrow(w).same = w.same
         /\ Narrow(w).states = w.states /\ Narrow(w).type = w.type /\ Narrow(w).r = w.r
         /\ Narrow(w).lost = w.lost
BY DEF Narrow

\* Setting fields of a wide link sets them in its narrow part.
LEMMA SetMode ==
  ASSUME NEW w \in Wide, NEW m \in Modes, NEW e \in Replies
  PROVE  /\ Widened(w, [Narrow(w) EXCEPT !.mode = m, !.r = e], [w EXCEPT !.mode = m, !.r = e])
         /\ [w EXCEPT !.mode = m, !.r = e].lost = w.lost
<1> DEFINE x == [w EXCEPT !.mode = m, !.r = e]
<1>1. /\ x \in Wide /\ Beside(w, x)
      /\ x.antenna = w.antenna /\ x.mode = m /\ x.same = w.same
      /\ x.states = w.states /\ x.type = w.type /\ x.r = e /\ x.lost = w.lost
  BY DEF Wide, Beside
<1> HIDE DEF x
<1>2. Narrow(x) = [antenna |-> w.antenna, mode |-> m, same |-> w.same, states |-> w.states,
                   type |-> w.type, r |-> e, lost |-> w.lost]
  BY <1>1 DEF Narrow
<1> DEFINE y == [antenna |-> w.antenna, mode |-> m, same |-> w.same, states |-> w.states,
                 type |-> w.type, r |-> w.r, lost |-> w.lost]
<1>3. [Narrow(w) EXCEPT !.mode = m] = y
  BY DEF Narrow
<1>4. Narrow(x) = [y EXCEPT !.r = e]
  BY <1>2
<1> HIDE DEF y
<1>5. [Narrow(w) EXCEPT !.mode = m, !.r = e] = [[Narrow(w) EXCEPT !.mode = m] EXCEPT !.r = e]
  BY DEF Narrow
<1>6. Narrow(x) = [Narrow(w) EXCEPT !.mode = m, !.r = e]
  BY <1>3, <1>4, <1>5
<1> QED  BY <1>1, <1>6 DEF Widened, x

LEMMA SetLost ==
  ASSUME NEW w \in Wide, NEW e \in Replies
  PROVE  Widened(w, [Narrow(w) EXCEPT !.r = e, !.lost = @ + 1], [w EXCEPT !.r = e, !.lost = @ + 1])
<1> DEFINE n == w.lost + 1
           x == [w EXCEPT !.r = e, !.lost = n]
<1>1. n \in Nat
  BY DEF Wide
<1> HIDE DEF n
<1>2. /\ x \in Wide /\ Beside(w, x)
      /\ x.antenna = w.antenna /\ x.mode = w.mode /\ x.same = w.same
      /\ x.states = w.states /\ x.type = w.type /\ x.r = e /\ x.lost = n
  BY <1>1 DEF Wide, Beside
<1>3. Narrow(w).lost + 1 = n
  BY DEF Narrow, n
<1> HIDE DEF x
<1>4. Narrow(x) = [antenna |-> w.antenna, mode |-> w.mode, same |-> w.same,
                   states |-> w.states, type |-> w.type, r |-> e, lost |-> n]
  BY <1>2 DEF Narrow
<1>5. [Narrow(w) EXCEPT !.r = e, !.lost = @ + 1] = Narrow(x)
  <2> DEFINE y == [antenna |-> w.antenna, mode |-> w.mode, same |-> w.same,
                   states |-> w.states, type |-> w.type, r |-> e, lost |-> w.lost]
  <2>1. [Narrow(w) EXCEPT !.r = e] = y
    BY DEF Narrow
  <2>2. [y EXCEPT !.lost = n] = Narrow(x)
    BY <1>4
  <2> HIDE DEF y
  <2>3. [Narrow(w) EXCEPT !.r = e, !.lost = n] = [[Narrow(w) EXCEPT !.r = e] EXCEPT !.lost = n]
    BY DEF Narrow
  <2> QED  BY <1>3, <2>1, <2>2, <2>3
<1>6. x = [w EXCEPT !.r = e, !.lost = @ + 1]
  BY DEF x, n
<1> QED  BY <1>2, <1>5, <1>6 DEF Widened

LEMMA SetStates ==
  ASSUME NEW w \in Wide, NEW s \in States
  PROVE  Widened(w, [Narrow(w) EXCEPT !.states = s], [w EXCEPT !.states = s])
<1> DEFINE x == [w EXCEPT !.states = s]
<1>1. /\ x \in Wide /\ Beside(w, x)
      /\ x.antenna = w.antenna /\ x.mode = w.mode /\ x.same = w.same
      /\ x.states = s /\ x.type = w.type /\ x.r = w.r /\ x.lost = w.lost
  BY DEF Wide, Beside
<1> HIDE DEF x
<1>2. Narrow(x) = [Narrow(w) EXCEPT !.states = s]
  BY <1>1 DEF Narrow
<1> QED  BY <1>1, <1>2 DEF Widened, x

\* A frame of PiccSession does the same to a wide link as to its narrow part.
LEMMA SendNarrow ==
  ASSUME NEW w \in Wide, LinkOK(Narrow(w)), NEW f, NEW x \in Send(f, w)
  PROVE  x \in Wide /\ Beside(w, x) /\ Narrow(x) \in Send(f, Narrow(w))
<1> DEFINE a == After(f, w)
           e == IF Answers(f, w) THEN "ok" ELSE "notag"
           heard == [w EXCEPT !.mode = a, !.r = e]
           nheard == [Narrow(w) EXCEPT !.mode = a, !.r = e]
<1>1. /\ Answers(f, Narrow(w)) <=> Answers(f, w)
      /\ After(f, Narrow(w)) = a
  BY NarrowFields DEF Answers, After
<1>2. a \in Modes /\ e \in {"ok", "notag", "bad"} /\ e \in Replies
  <2>1. Narrow(w).mode \in Modes /\ Possible(Narrow(w).mode)
    BY DEF LinkOK, Links
  <2> QED  BY <1>1, <2>1, AfterLemma DEF Replies
<1>3. x \in {heard} \cup IF w.lost >= noise THEN {}
                         ELSE {[w EXCEPT !.r = "notag", !.lost = @ + 1]}
                              \cup {[heard EXCEPT !.r = t, !.lost = @ + 1] : t \in {"notag", "bad"}}
  BY DEF Send
<1>4. Send(f, Narrow(w)) =
        {nheard} \cup IF w.lost >= noise THEN {}
                      ELSE {[Narrow(w) EXCEPT !.r = "notag", !.lost = @ + 1]}
                           \cup {[nheard EXCEPT !.r = t, !.lost = @ + 1] : t \in {"notag", "bad"}}
  <2> DEFINE n == Narrow(w)
             na == After(f, n)
             ne == IF Answers(f, n) THEN "ok" ELSE "notag"
             nn == [n EXCEPT !.mode = na, !.r = ne]
  <2>1. Send(f, n) =
          {nn} \cup IF n.lost >= noise THEN {}
                    ELSE {[n EXCEPT !.r = "notag", !.lost = @ + 1]}
                         \cup {[nn EXCEPT !.r = t, !.lost = @ + 1] : t \in {"notag", "bad"}}
    BY DEF Send
  <2>2. na = a /\ ne = e /\ n.lost = w.lost
    BY <1>1, NarrowFields
  <2> HIDE DEF na, ne, a, e
  <2>3. nn = nheard
    BY <2>2
  <2> HIDE DEF nn, nheard
  <2> QED  BY <2>1, <2>2, <2>3
<1> HIDE DEF a, e
<1>5. Widened(w, nheard, heard)
  BY <1>2, SetMode
<1> HIDE DEF heard, nheard
<1>6. Widened(w, [Narrow(w) EXCEPT !.r = "notag", !.lost = @ + 1],
                 [w EXCEPT !.r = "notag", !.lost = @ + 1])
  BY SetLost DEF Replies
<1>7. ASSUME NEW t \in {"notag", "bad"}
      PROVE  Widened(w, [nheard EXCEPT !.r = t, !.lost = @ + 1],
                        [heard EXCEPT !.r = t, !.lost = @ + 1])
  <2>1. t \in Replies /\ heard \in Wide /\ Narrow(heard) = nheard /\ Beside(w, heard)
    BY <1>5 DEF Widened, Replies
  <2> QED  BY <2>1, SetLost DEF Widened, Beside
<1>8. CASE x = heard
  BY <1>4, <1>5, <1>8 DEF Widened
<1>9. CASE ~(w.lost >= noise) /\ x = [w EXCEPT !.r = "notag", !.lost = @ + 1]
  BY <1>4, <1>6, <1>9 DEF Widened
<1>10. ASSUME ~(w.lost >= noise), NEW t \in {"notag", "bad"},
              x = [heard EXCEPT !.r = t, !.lost = @ + 1]
       PROVE  x \in Wide /\ Beside(w, x) /\ Narrow(x) \in Send(f, Narrow(w))
  BY <1>4, <1>7, <1>10 DEF Widened
<1> QED  BY <1>3, <1>8, <1>9, <1>10

LEMMA NotedNarrow ==
  ASSUME NEW w \in Wide, NEW s \in States
  PROVE  /\ Noted(w, s) \in Wide /\ Beside(w, Noted(w, s))
         /\ Narrow(Noted(w, s)) = Noted(Narrow(w), s)
<1>1. CASE Failed(w)
  BY <1>1, NarrowFields DEF Noted, Failed, Beside
<1>2. CASE ~Failed(w)
  <2>1. /\ Noted(w, s) = [w EXCEPT !.states = s]
        /\ Noted(Narrow(w), s) = [Narrow(w) EXCEPT !.states = s]
    BY <1>2, NarrowFields DEF Noted, Failed
  <2> QED  BY <2>1, SetStates DEF Widened
<1> QED  BY <1>1, <1>2

LEMMA BesideAgain ==
  ASSUME NEW w, NEW x, NEW y, Beside(w, x), Beside(x, y)
  PROVE  Beside(w, y)
BY DEF Beside

LEMMA RequestNarrow ==
  ASSUME NEW w \in Wide, LinkOK(Narrow(w)), NEW x \in typeA_request(w)
  PROVE  /\ x \in Wide /\ Beside(w, x) /\ Narrow(x) \in typeA_request(Narrow(w))
         /\ LinkOK(Narrow(x))
<1>1. PICK y \in Send("WUPA", w) : x = Noted(y, "READY")
  BY DEF typeA_request
<1>2. y \in Wide /\ Beside(w, y) /\ Narrow(y) \in Send("WUPA", Narrow(w))
  BY SendNarrow
<1>3. /\ x \in Wide /\ Beside(y, x) /\ Narrow(x) = Noted(Narrow(y), "READY")
  BY <1>1, <1>2, NotedNarrow DEF States
<1>4. Narrow(x) \in typeA_request(Narrow(w))
  BY <1>2, <1>3 DEF typeA_request
<1>5. LinkOK(Narrow(x))
  BY <1>4, RequestLemma DEF Step
<1> QED  BY <1>2, <1>3, <1>4, <1>5, BesideAgain

\* The request of a MIFARE card neither looks at nor touches what is beside.
LEMMA TwiceNarrow ==
  ASSUME NEW w \in Wide, LinkOK(Narrow(w)), NEW y \in Twice(typeA_request, w)
  PROVE  /\ y \in Wide /\ Beside(w, y) /\ LinkOK(Narrow(y)) /\ (Silent(Narrow(y)) <=> Silent(y))
         /\ Narrow(y) \in Twice(typeA_request, Narrow(w))
<1>2. PICK u \in typeA_request(w) : y \in IF Silent(u) THEN typeA_request(u) ELSE {u}
  BY DEF Twice, Then
<1>3. /\ u \in Wide /\ Beside(w, u) /\ Narrow(u) \in typeA_request(Narrow(w))
      /\ LinkOK(Narrow(u)) /\ (Silent(Narrow(u)) <=> Silent(u))
  BY <1>2, RequestNarrow, NarrowFields DEF Silent
<1>4. CASE Silent(u)
  <2>1. /\ y \in Wide /\ Beside(u, y) /\ Narrow(y) \in typeA_request(Narrow(u))
        /\ LinkOK(Narrow(y)) /\ (Silent(Narrow(y)) <=> Silent(y))
    BY <1>2, <1>3, <1>4, RequestNarrow, NarrowFields DEF Silent
  <2>2. Narrow(y) \in Twice(typeA_request, Narrow(w))
    BY <1>3, <1>4, <2>1 DEF Twice, Then
  <2> QED  BY <1>3, <2>1, <2>2, BesideAgain
<1>5. CASE ~Silent(u)
  <2>1. Narrow(u) \in Twice(typeA_request, Narrow(w))
    BY <1>3, <1>5 DEF Twice, Then
  <2> QED  BY <1>2, <1>3, <1>5, <2>1
<1> QED  BY <1>4, <1>5

\* Where no frame gets lost, a card is active only after a selection that
\* succeeded.
LEMMA QuietRequest ==
  ASSUME noise = 0, NEW w, LinkOK(w), NEW y \in Twice(typeA_request, w)
  PROVE  y.mode # "active"
<1>1. ASSUME NEW u, LinkOK(u), NEW x \in typeA_request(u)
      PROVE  LinkOK(x) /\ x.mode # "active"
  <2>1. u.lost \in Nat /\ u.mode \in Modes /\ Possible(u.mode)
    BY <1>1 DEF LinkOK, Links
  <2>2. Step(u, x) /\ (x.lost = u.lost => x.mode = After("WUPA", u))
    BY <1>1, RequestLemma
  <2>3. LinkOK(x) /\ x.mode = After("WUPA", u)
    BY <2>1, <2>2 DEF Step
  <2>4. After("WUPA", u) = "active" => card \in TypeA
    BY <2>3 DEF LinkOK, Possible
  <2>5. card \in TypeA => After("WUPA", u) # "active"
    BY <2>1, NextModes
  <2> QED  BY <2>3, <2>4, <2>5
<1>2. PICK x \in typeA_request(w) : (y = x /\ ~Silent(x)) \/ (Silent(x) /\ y \in typeA_request(x))
  BY TwiceRequestLemma
<1> QED  BY <1>1, <1>2

LEMMA QuietSelect ==
  ASSUME noise = 0, NEW w, LinkOK(w), w.mode # "active", NEW x \in Send("SELECT_SN", w), Failed(x)
  PROVE  x.mode # "active"
<1>1. w.lost \in Nat
  BY DEF LinkOK, Links
<1>2. x.mode = After("SELECT_SN", w) /\ x.r = IF Answers("SELECT_SN", w) THEN "ok" ELSE "notag"
  BY <1>1, SendLemma DEF Step
<1>3. ~Answers("SELECT_SN", w)
  BY <1>2 DEF Failed
<1> QED  BY <1>2, <1>3 DEF After

LEMMA LinkFields ==
  /\ Narrow(Link) = Here
  /\ Link.antenna = antenna /\ Link.mode = mode /\ Link.same = same /\ Link.states = states
  /\ Link.type = type /\ Link.r = "ok" /\ Link.lost = 0 /\ Link.open = open /\ Link.sak = SAK
  /\ Link.crypto = crypto /\ Link.pend = "none" /\ Link.wrote = {} /\ Link.misread = FALSE
BY DEF Link, Here, Narrow

\* What is left by a request or a selection that has ended in z.
LEMMA ClosedLemma ==
  ASSUME OpenOK(Link), NEW z \in Wide, z.open = open, z.pend = "none", z.wrote = {},
         z.misread = FALSE, z.same = same, z.type = "MIFARE", z.mode = "active" => same,
         same => z.sak \in {chip, "UL"} /\ (z.states = "SELECTED" => z.sak = chip),
         NEW x \in Closed(z, open)
  PROVE  /\ OpenOK(x) /\ Narrow(x) = Narrow(z) /\ x.sak = z.sak /\ x.mode = z.mode
         /\ x.crypto = FALSE /\ x.pend = "none" /\ x.wrote = {} /\ x.misread = FALSE
         /\ x.r = "ok" => x.open = None
<1>1. PICK o \in IF Failed(z) /\ z.mode = "active" THEN {None, open} ELSE {None} :
        x = [z EXCEPT !.crypto = FALSE, !.open = o]
  BY DEF Closed
<1>2. o \in Sectors
  BY <1>1, LinkFields DEF OpenOK, Wide, Sectors
<1>3. /\ x \in Wide /\ x.antenna = z.antenna /\ x.mode = z.mode /\ x.same = z.same
      /\ x.states = z.states /\ x.type = z.type /\ x.r = z.r /\ x.lost = z.lost
      /\ x.sak = z.sak /\ x.open = o /\ x.crypto = FALSE /\ x.pend = z.pend
      /\ x.wrote = z.wrote /\ x.misread = z.misread
  BY <1>1, <1>2 DEF Wide
<1>4. Narrow(x) = Narrow(z)
  BY <1>3 DEF Narrow
<1>5. OpenOK(x)
  BY <1>1, <1>3 DEF OpenOK
<1>6. x.r = "ok" => x.open = None
  BY <1>1, <1>3 DEF Failed
<1> QED  BY <1>3, <1>4, <1>5, <1>6

LEMMA SetSak ==
  ASSUME NEW w \in Wide, NEW k \in Chips \cup {"none", "UL"}
  PROVE  LET x == [w EXCEPT !.sak = k]
         IN /\ x \in Wide /\ Narrow(x) = Narrow(w) /\ x.sak = k /\ x.mode = w.mode
            /\ x.same = w.same /\ x.states = w.states /\ x.type = w.type /\ x.r = w.r
            /\ x.open = w.open /\ x.pend = w.pend /\ x.wrote = w.wrote
            /\ x.misread = w.misread
BY DEF Wide, Narrow

\* A selection closes the card, or has not been heard.
LEMMA ReselectLemma ==
  ASSUME LinkOK(Here), OpenOK(Link), type = "MIFARE", states # "SELECTED",
         chip \in Chips \cup {"none"}, NEW x \in Reselect(Link)
  PROVE  /\ Narrow(x) \in mifare_select(Here) /\ OpenOK(x)
         /\ x.crypto = FALSE /\ x.pend = "none" /\ x.wrote = {} /\ x.misread = FALSE
         /\ x.r = "ok" => x.open = None
         /\ noise = 0 /\ x.mode = "active" => x.sak = chip
<1>1. PICK y \in Twice(typeA_request, Link) :
        x \in IF Silent(y) THEN Closed(y, open)
              ELSE Then({Noted(u, "SELECTED") : u \in Send("SELECT_SN", y)},
                        LAMBDA z : Closed([z EXCEPT !.sak = IF Failed(z) THEN "UL" ELSE chip], open))
  BY LinkFields DEF Reselect, Then
<1>2. /\ Link \in Wide /\ Narrow(Link) = Here
      /\ same => SAK \in {chip, "UL"}
      /\ mode = "active" => same
  BY LinkFields DEF OpenOK
<1>3. /\ y \in Wide /\ Beside(Link, y) /\ LinkOK(Narrow(y)) /\ (Silent(Narrow(y)) <=> Silent(y))
      /\ Narrow(y) \in Twice(typeA_request, Here)
  BY <1>2, TwiceNarrow
<1>4. /\ Step(Here, Narrow(y)) /\ Narrow(y).states \in {states, "READY"}
      /\ Narrow(y).mode = "active" => mode = "active"
      /\ noise = 0 => Narrow(y).mode # "active"
  BY <1>3, HereFields, TwiceRequestLemma, TwiceRequestWakes, QuietRequest
<1>5. /\ y.same = same /\ y.type = "MIFARE" /\ y.states # "SELECTED"
      /\ y.mode = "active" => same
      /\ noise = 0 => y.mode # "active"
  BY <1>2, <1>4, NarrowFields, HereFields DEF Step, Keeps
<1>6. CASE Silent(y)
  <2>1. y.sak = SAK /\ y.open = open /\ y.pend = "none" /\ y.wrote = {} /\ y.misread = FALSE
    BY <1>3, LinkFields DEF Beside
  <2>2. x \in Closed(y, open)
    BY <1>1, <1>6
  <2>3. /\ OpenOK(x) /\ Narrow(x) = Narrow(y) /\ x.mode = y.mode
        /\ x.crypto = FALSE /\ x.pend = "none" /\ x.wrote = {} /\ x.misread = FALSE
        /\ x.r = "ok" => x.open = None
    BY <1>2, <1>3, <1>5, <2>1, <2>2, ClosedLemma
  <2>4. Narrow(y) \in mifare_select(Here)
    BY <1>3, <1>6 DEF mifare_select, Then
  <2> QED  BY <1>5, <2>3, <2>4
<1>7. CASE ~Silent(y)
  <2>1. PICK u \in Send("SELECT_SN", y) :
          x \in Closed([Noted(u, "SELECTED") EXCEPT
                          !.sak = IF Failed(Noted(u, "SELECTED")) THEN "UL" ELSE chip], open)
    BY <1>1, <1>7 DEF Then
  <2> DEFINE z == Noted(u, "SELECTED")
             k == IF Failed(z) THEN "UL" ELSE chip
  <2>2. u \in Wide /\ Beside(y, u) /\ Narrow(u) \in Send("SELECT_SN", Narrow(y))
    BY <1>3, SendNarrow
  <2>3. z \in Wide /\ Beside(u, z) /\ Narrow(z) = Noted(Narrow(u), "SELECTED")
    BY <2>2, NotedNarrow DEF States
  <2>4. Narrow(z) \in mifare_select(Here)
    BY <1>3, <1>7, <2>2, <2>3 DEF mifare_select, Then
  <2>5. Beside(Link, z)
    BY <1>3, <2>2, <2>3, BesideAgain
  <2>6. /\ z.same = same /\ z.type = "MIFARE" /\ (z.mode = "active" => same)
    <3>1. /\ Step(Here, Narrow(z)) /\ (Narrow(z).mode = "active" => mode = "active" \/ same)
      BY <2>4, HereFields, MifareLemma
    <3> QED  BY <1>2, <3>1, HereFields, NarrowFields DEF Step, Keeps
  <2>7. Step(Narrow(y), Narrow(u)) /\ Narrow(u).states = Narrow(y).states
    BY <1>3, <2>2, SendLemma
  <2>8. /\ Failed(z) <=> Failed(u)
        /\ Failed(z) => z = u
    BY <2>3, NarrowFields, <2>2 DEF Noted, Failed, Wide
  <2>9. Failed(z) => z.states # "SELECTED"
    BY <1>5, <2>7, <2>8, NarrowFields
  <2>10. /\ k \in Chips \cup {"none", "UL"}
         /\ same => k \in {chip, "UL"} /\ (z.states = "SELECTED" => k = chip)
    BY <2>9
  <2>11. noise = 0 /\ z.mode = "active" => ~Failed(z)
    <3>1. ASSUME noise = 0, Failed(z)
          PROVE  Narrow(u).mode # "active"
      BY <1>3, <1>5, <2>2, <2>8, <3>1, NarrowFields, QuietSelect DEF Failed
    <3> QED  BY <2>8, <3>1, NarrowFields
  <2>12. x \in Closed([z EXCEPT !.sak = k], open)
    BY <2>1
  <2>13. k = IF Failed(z) THEN "UL" ELSE chip
    OBVIOUS
  <2>14. z.open = open /\ z.pend = "none" /\ z.wrote = {} /\ z.misread = FALSE
    BY <2>5, LinkFields DEF Beside
  <2> HIDE DEF z, k
  <2> DEFINE q == [z EXCEPT !.sak = k]
  <2>15. /\ q \in Wide /\ Narrow(q) = Narrow(z) /\ q.sak = k /\ q.mode = z.mode
         /\ q.same = z.same /\ q.states = z.states /\ q.type = z.type
         /\ q.open = z.open /\ q.pend = z.pend /\ q.wrote = z.wrote /\ q.misread = z.misread
    BY <2>3, <2>10, SetSak
  <2> HIDE DEF q
  <2>16. x \in Closed(q, open)
    BY <2>12 DEF q
  <2>17. /\ OpenOK(x) /\ Narrow(x) = Narrow(q) /\ x.sak = q.sak /\ x.mode = q.mode
         /\ x.crypto = FALSE /\ x.pend = "none" /\ x.wrote = {} /\ x.misread = FALSE
         /\ x.r = "ok" => x.open = None
    BY <2>6, <2>10, <2>14, <2>15, <2>16, ClosedLemma
  <2> QED  BY <2>4, <2>11, <2>13, <2>15, <2>17
<1> QED  BY <1>6, <1>7

Selected == {Here} \cup (IF states # "SELECTED" THEN mifare_select(Here) ELSE {})

LEMMA SelectFirstLemma ==
  ASSUME LinkOK(Here), OpenOK(Link), type = "MIFARE", chip \in Chips \cup {"none"},
         NEW x \in SelectFirst
  PROVE  /\ Narrow(x) \in Selected /\ OpenOK(x)
         /\ x.pend = "none" /\ x.wrote = {} /\ x.misread = FALSE
         /\ states = "SELECTED" => x = Link
         /\ states # "SELECTED" => x.crypto = FALSE /\ (x.r = "ok" => x.open = None)
         /\ noise = 0 /\ x.mode = "active" => x.sak = chip
<1>1. CASE states = "SELECTED"
  <2>1. x = Link
    BY <1>1 DEF SelectFirst
  <2> QED  BY <1>1, <2>1, LinkFields DEF Selected, OpenOK
<1>2. CASE states # "SELECTED"
  BY <1>2, ReselectLemma DEF SelectFirst, Selected
<1> QED  BY <1>1, <1>2

-----------------------------------------------------------------------------
(* Frames to a MIFARE card.                                                *)

\* What the frames of a command may do: a card that is talked to falls asleep
\* in the end or stays active.
Worked(w, x) ==
  /\ OpenOK(x)
  /\ x.antenna = w.antenna /\ x.same = w.same /\ x.states = w.states /\ x.type = w.type
  /\ x.sak = w.sak
  /\ x.mode = w.mode \/ (w.mode = "active" /\ x.mode = "halt")

LEMMA WorkedAgain ==
  ASSUME NEW w, NEW x, NEW y, Worked(w, x), Worked(x, y)
  PROVE  Worked(w, y)
BY DEF Worked

LEMMA WorkedNone ==
  ASSUME NEW w, OpenOK(w)
  PROVE  Worked(w, w)
BY DEF Worked

\* The result alone.
LEMMA ResultLemma ==
  ASSUME NEW w, OpenOK(w), NEW e \in Replies
  PROVE  /\ Worked(w, [w EXCEPT !.r = e]) /\ Beside(w, [w EXCEPT !.r = e])
         /\ [w EXCEPT !.r = e].mode = w.mode /\ [w EXCEPT !.r = e].r = e
         /\ [w EXCEPT !.r = e].lost = w.lost
<1> DEFINE x == [w EXCEPT !.r = e]
<1>1. /\ x \in Wide /\ x.antenna = w.antenna /\ x.mode = w.mode /\ x.same = w.same
      /\ x.states = w.states /\ x.type = w.type /\ x.r = e /\ x.lost = w.lost
      /\ x.open = w.open /\ x.crypto = w.crypto /\ x.pend = w.pend /\ x.wrote = w.wrote
      /\ x.sak = w.sak /\ x.misread = w.misread
  BY DEF OpenOK, Wide
<1> HIDE DEF x
<1>2. Worked(w, x) /\ Beside(w, x)
  BY <1>1 DEF Worked, Beside, OpenOK
<1> QED  BY <1>1, <1>2 DEF x

LEMMA LossLemma ==
  ASSUME NEW w, OpenOK(w), NEW e \in Replies
  PROVE  /\ Worked(w, [w EXCEPT !.r = e, !.lost = @ + 1])
         /\ Beside(w, [w EXCEPT !.r = e, !.lost = @ + 1])
         /\ [w EXCEPT !.r = e, !.lost = @ + 1].mode = w.mode
         /\ [w EXCEPT !.r = e, !.lost = @ + 1].r = e
<1> DEFINE n == w.lost + 1
           x == [w EXCEPT !.r = e, !.lost = n]
<1>0. n \in Nat
  BY DEF OpenOK, Wide
<1> HIDE DEF n
<1>1. /\ x \in Wide /\ x.antenna = w.antenna /\ x.mode = w.mode /\ x.same = w.same
      /\ x.states = w.states /\ x.type = w.type /\ x.r = e
      /\ x.open = w.open /\ x.crypto = w.crypto /\ x.pend = w.pend /\ x.wrote = w.wrote
      /\ x.sak = w.sak /\ x.misread = w.misread
  BY <1>0 DEF OpenOK, Wide
<1>2. x = [w EXCEPT !.r = e, !.lost = @ + 1]
  BY DEF n
<1> HIDE DEF x
<1>3. Worked(w, x) /\ Beside(w, x)
  BY <1>1 DEF Worked, Beside, OpenOK
<1> QED  BY <1>1, <1>2, <1>3

\* The air: the exchange took place, or a frame was lost or damaged.
Aired(w, h, x) ==
  /\ Worked(w, x)
  /\ \/ x = h
     \/ /\ noise # 0 /\ x.r \in {"notag", "bad"}
        /\ \/ Beside(w, x) /\ x.mode = w.mode /\ x.r = "notag"
           \/ Beside(h, x) /\ x.mode = h.mode

LEMMA AirLemma ==
  ASSUME noise \in Nat, NEW w, OpenOK(w), NEW h, Worked(w, h), NEW x \in Air(w, h)
  PROVE  Aired(w, h, x)
<1>1. CASE x = h
  BY <1>1 DEF Aired
<1>2. CASE ~(w.lost >= noise) /\ x = [w EXCEPT !.r = "notag", !.lost = @ + 1]
  <2>1. noise # 0
    BY <1>2 DEF OpenOK, Wide
  <2> QED  BY <1>2, <2>1, LossLemma DEF Aired, Replies
<1>3. ASSUME ~(w.lost >= noise), NEW e \in {"notag", "bad"}, x = [h EXCEPT !.r = e, !.lost = @ + 1]
      PROVE  Aired(w, h, x)
  <2>1. noise # 0
    BY <1>3 DEF OpenOK, Wide
  <2>2. OpenOK(h) /\ e \in Replies
    BY DEF Worked, Replies
  <2>3. Worked(h, x) /\ Beside(h, x) /\ x.mode = h.mode /\ x.r = e
    BY <1>3, <2>2, LossLemma
  <2>4. Worked(w, x)
    BY <2>3, WorkedAgain
  <2> QED  BY <2>1, <2>3, <2>4 DEF Aired
<1> QED  BY <1>1, <1>2, <1>3 DEF Air

\* A card that hears what it does not expect.
LEMMA HaltedLemma ==
  ASSUME NEW w, OpenOK(w)
  PROVE  /\ Worked(w, Halted(w)) /\ Halted(w).r \in {"nak", "notag"}
         /\ Halted(w).crypto = w.crypto /\ Halted(w).wrote = w.wrote
         /\ Halted(w).open = None /\ Halted(w).pend = "none" /\ Halted(w).misread = w.misread
<1>1. CASE w.mode = "active"
  <2> DEFINE x == [w EXCEPT !.mode = "halt", !.open = None, !.pend = "none", !.r = "nak"]
  <2>1. /\ x \in Wide /\ x.antenna = w.antenna /\ x.mode = "halt" /\ x.same = w.same
        /\ x.states = w.states /\ x.type = w.type /\ x.r = "nak"
        /\ x.open = None /\ x.crypto = w.crypto /\ x.pend = "none" /\ x.wrote = w.wrote
        /\ x.sak = w.sak /\ x.misread = w.misread
    BY DEF OpenOK, Wide, Modes, Replies, Sectors
  <2>2. Halted(w) = x
    BY <1>1 DEF Halted
  <2> HIDE DEF x
  <2>3. Worked(w, x)
    BY <1>1, <2>1 DEF Worked, OpenOK
  <2> QED  BY <2>1, <2>2, <2>3
<1>2. CASE w.mode # "active"
  <2>1. Halted(w) = [w EXCEPT !.r = "notag"]
    BY <1>2 DEF Halted
  <2>2. w.open = None /\ w.pend = "none"
    BY <1>2 DEF OpenOK
  <2> DEFINE x == [w EXCEPT !.r = "notag"]
  <2>3. Worked(w, x) /\ Beside(w, x) /\ x.r = "notag"
    BY ResultLemma DEF Replies
  <2> HIDE DEF x
  <2> QED  BY <2>1, <2>2, <2>3 DEF Beside, x
<1> QED  BY <1>1, <1>2

Frames  == {"READ", "WRITE", "WRITE4", "COUNT", "DATA", "VALUE", "TRANSFER"}
Storing == {"DATA", "WRITE4", "TRANSFER"}

LEMMA FollowsLeads ==
  /\ Follows["READ"] = "none" /\ Follows["WRITE"] = "none" /\ Follows["WRITE4"] = "none"
  /\ Follows["COUNT"] = "none" /\ Follows["DATA"] = "data" /\ Follows["VALUE"] = "value"
  /\ Follows["TRANSFER"] = "buffer"
  /\ Leads["READ"] = "none" /\ Leads["WRITE"] = "data" /\ Leads["WRITE4"] = "none"
  /\ Leads["COUNT"] = "value" /\ Leads["DATA"] = "none" /\ Leads["VALUE"] = "buffer"
  /\ Leads["TRANSFER"] = "none"
BY DEF Follows, Leads

\* What a frame does that the card takes.
Taken(f, b, w, x) ==
  /\ x.mode = w.mode /\ x.open = w.open /\ x.crypto = w.crypto /\ x.pend = Leads[f]
  /\ x.wrote = IF f \in Storing THEN w.wrote \cup {b} ELSE w.wrote
  /\ x.misread = w.misread

LEMMA MemoryBytes ==
  ASSUME NEW b \in Memory(chip)
  PROVE  b \in Bytes
BY DEF Memory, Bytes

LEMMA HeardLemma ==
  ASSUME NEW f \in Frames, NEW b, NEW w, OpenOK(w)
  PROVE  /\ Worked(w, Heard(f, b, w))
         /\ Obeys(f, b, w) =>
              /\ Taken(f, b, w, Heard(f, b, w))
              /\ Heard(f, b, w).r = IF f = "VALUE" THEN "notag" ELSE "ok"
         /\ ~Obeys(f, b, w) =>
              /\ Heard(f, b, w).r \in {"nak", "notag"}
              /\ Heard(f, b, w).crypto = w.crypto /\ Heard(f, b, w).wrote = w.wrote
              /\ Heard(f, b, w).misread = w.misread
<1>1. CASE Obeys(f, b, w)
  <2> DEFINE p == Leads[f]
             e == IF f = "VALUE" THEN "notag" ELSE "ok"
             s == IF f \in Storing THEN w.wrote \cup {b} ELSE w.wrote
             x == [w EXCEPT !.pend = p, !.r = e, !.wrote = s]
  <2>1. p \in {"none", "data", "value", "buffer"} /\ e \in Replies
    BY FollowsLeads DEF Frames, Replies
  <2>2. b \in Bytes /\ w.mode = "active"
    BY <1>1, MemoryBytes DEF Obeys
  <2>3. s \in SUBSET Bytes
    BY <2>2 DEF OpenOK, Wide
  <2>4. Heard(f, b, w) = x
    BY <1>1 DEF Heard, Storing
  <2> HIDE DEF p, e, s
  <2>5. /\ x \in Wide /\ x.antenna = w.antenna /\ x.mode = w.mode /\ x.same = w.same
        /\ x.states = w.states /\ x.type = w.type /\ x.r = e
        /\ x.open = w.open /\ x.crypto = w.crypto /\ x.pend = p /\ x.wrote = s
        /\ x.sak = w.sak /\ x.misread = w.misread
    BY <2>1, <2>3 DEF OpenOK, Wide
  <2> HIDE DEF x
  <2>6. Worked(w, x)
    BY <2>2, <2>5 DEF Worked, OpenOK
  <2>7. Taken(f, b, w, x) /\ x.r = IF f = "VALUE" THEN "notag" ELSE "ok"
    BY <2>5 DEF Taken, p, e, s
  <2> QED  BY <1>1, <2>4, <2>6, <2>7
<1>2. CASE ~Obeys(f, b, w)
  BY <1>2, HaltedLemma DEF Heard
<1> QED  BY <1>1, <1>2

\* A frame through the air.
LEMMA FrameLemma ==
  ASSUME noise \in Nat, NEW f \in Frames, NEW b, NEW w, OpenOK(w),
         NEW x \in Air(w, Heard(f, b, w))
  PROVE  /\ Worked(w, x) /\ x.crypto = w.crypto /\ x.misread = w.misread
         /\ x.wrote = w.wrote \/ (f \in Storing /\ Obeys(f, b, w) /\ x.wrote = w.wrote \cup {b})
         /\ x.r = "ok" => Obeys(f, b, w) /\ Taken(f, b, w, x)
         /\ x.r = "bad" => noise # 0 /\ (Obeys(f, b, w) => Taken(f, b, w, x))
         /\ Obeys(f, b, w) =>
              x.mode = w.mode /\ x.open = w.open /\ x.pend \in {w.pend, Leads[f]}
         /\ noise = 0 /\ Obeys(f, b, w) =>
              Taken(f, b, w, x) /\ x.r = IF f = "VALUE" THEN "notag" ELSE "ok"
<1> DEFINE h == Heard(f, b, w)
<1>1. /\ Worked(w, h)
      /\ Obeys(f, b, w) => Taken(f, b, w, h) /\ h.r = IF f = "VALUE" THEN "notag" ELSE "ok"
      /\ ~Obeys(f, b, w) => /\ h.r \in {"nak", "notag"} /\ h.crypto = w.crypto
                            /\ h.wrote = w.wrote /\ h.misread = w.misread
  BY HeardLemma
<1> HIDE DEF h
<1>2. Aired(w, h, x)
  BY <1>1, AirLemma DEF h
<1>3. /\ h.crypto = w.crypto /\ h.misread = w.misread
      /\ h.wrote = w.wrote \/ (f \in Storing /\ Obeys(f, b, w) /\ h.wrote = w.wrote \cup {b})
  BY <1>1 DEF Taken
<1>4. Obeys(f, b, w) => h.mode = w.mode /\ h.open = w.open /\ h.pend = Leads[f]
  BY <1>1 DEF Taken
<1>5. CASE x = h
  BY <1>1, <1>3, <1>4, <1>5
<1>6. CASE noise # 0 /\ x.r = "notag" /\ Beside(w, x) /\ x.mode = w.mode
  BY <1>2, <1>6 DEF Beside, Aired
<1>7. CASE noise # 0 /\ x.r \in {"notag", "bad"} /\ Beside(h, x) /\ x.mode = h.mode
  BY <1>1, <1>2, <1>3, <1>4, <1>7 DEF Beside, Aired, Taken
<1> QED  BY <1>2, <1>5, <1>6, <1>7 DEF Aired

\* A frame that asks for an acknowledgement: without noise it is told apart
\* from a refusal, and so it is with it unless the history says otherwise.
LEMMA AckLemma ==
  ASSUME noise \in Nat, NEW f \in Frames \ {"VALUE"}, NEW b, NEW w, OpenOK(w),
         NEW x \in Acknowledged(f, b, w)
  PROVE  /\ Worked(w, x) /\ x.crypto = w.crypto
         /\ x.wrote = w.wrote \/ (f \in Storing /\ Obeys(f, b, w) /\ x.wrote = w.wrote \cup {b})
         /\ w.misread => x.misread
         /\ x.r = "ok" /\ ~x.misread => Obeys(f, b, w) /\ Taken(f, b, w, x)
         /\ noise = 0 => x.misread = w.misread
         /\ noise = 0 /\ x.r = "ok" => Obeys(f, b, w) /\ Taken(f, b, w, x)
         /\ noise = 0 /\ Obeys(f, b, w) => x.r = "ok"
<1> DEFINE h == Heard(f, b, w)
<1>1. PICK y \in Air(w, h) :
        x \in IF y.r # "bad" THEN {y}
              ELSE {y, [y EXCEPT !.r = "ok", !.misread = @ \/ h.r # "ok"]}
  BY DEF Acknowledged, Then
<1>2. /\ Worked(w, y) /\ y.crypto = w.crypto /\ y.misread = w.misread
      /\ y.wrote = w.wrote \/ (f \in Storing /\ Obeys(f, b, w) /\ y.wrote = w.wrote \cup {b})
      /\ y.r = "ok" => Obeys(f, b, w) /\ Taken(f, b, w, y)
      /\ y.r = "bad" => noise # 0 /\ (Obeys(f, b, w) => Taken(f, b, w, y))
      /\ noise = 0 /\ Obeys(f, b, w) => Taken(f, b, w, y) /\ y.r = "ok"
  BY FrameLemma
<1>3. ~Obeys(f, b, w) => h.r # "ok"
  BY HeardLemma
<1>4. CASE x = y
  BY <1>2, <1>4
<1>5. CASE y.r = "bad" /\ x = [y EXCEPT !.r = "ok", !.misread = @ \/ h.r # "ok"]
  <2> DEFINE g == y.misread \/ h.r # "ok"
  <2>1. g \in BOOLEAN /\ (w.misread => g) /\ (~g => Obeys(f, b, w))
    BY <1>2, <1>3
  <2> HIDE DEF h, g
  <2>2. x = [y EXCEPT !.r = "ok", !.misread = g]
    BY <1>5 DEF g
  <2>3. OpenOK(y) /\ y \in Wide
    BY <1>2 DEF Worked, OpenOK
  <2>4. /\ x \in Wide /\ x.antenna = y.antenna /\ x.mode = y.mode /\ x.same = y.same
        /\ x.states = y.states /\ x.type = y.type /\ x.r = "ok" /\ x.sak = y.sak
        /\ x.open = y.open /\ x.crypto = y.crypto /\ x.pend = y.pend /\ x.wrote = y.wrote
        /\ x.misread = g
    BY <2>1, <2>2, <2>3 DEF Wide, Replies
  <2>5. Worked(y, x)
    BY <2>3, <2>4 DEF Worked, OpenOK
  <2>6. Worked(w, x)
    BY <1>2, <2>5, WorkedAgain
  <2>7. ~g => y.misread = FALSE
    BY <2>3 DEF g, Wide
  <2>8. ~g => Taken(f, b, w, x)
    BY <1>2, <1>5, <2>1, <2>4, <2>7 DEF Taken
  <2> QED  BY <1>2, <1>5, <2>1, <2>4, <2>6, <2>8
<1> QED  BY <1>1, <1>4, <1>5

-----------------------------------------------------------------------------
(* The work of the commands.                                               *)

\* Work that writes the blocks W, and success only after it has done so,
\* unless something was taken for an acknowledgement that was none.
Done(w, W, x) ==
  /\ Worked(w, x) /\ x.crypto = w.crypto /\ x.wrote \subseteq w.wrote \cup W
  /\ w.misread => x.misread
  /\ noise = 0 => x.misread = w.misread
  /\ x.r = "ok" /\ ~x.misread =>
       /\ w.mode = "active" /\ x.mode = "active" /\ x.open = w.open
       /\ x.pend = "none" /\ x.wrote = w.wrote \cup W /\ W \subseteq Memory(chip)

\* Block b of the card is accessible.
Opened(b, w) ==
  /\ w.mode = "active" /\ chip # "UL" /\ b \in Memory(chip)
  /\ w.crypto /\ w.open = SectorOf(b)

LEMMA ReadLemma ==
  ASSUME noise \in Nat, NEW b, NEW w, OpenOK(w), w.pend = "none", NEW x \in mifare_block_read(b, w)
  PROVE  /\ Done(w, {}, x) /\ x.misread = w.misread
         /\ noise = 0 /\ Opened(b, w) => x.r = "ok"
<1>1. "READ" \in Frames /\ ~("READ" \in Storing) /\ x \in Air(w, Heard("READ", b, w))
  BY DEF Frames, Storing, mifare_block_read
<1>2. /\ Worked(w, x) /\ x.crypto = w.crypto /\ x.wrote = w.wrote /\ x.misread = w.misread
      /\ x.r = "ok" => Obeys("READ", b, w) /\ Taken("READ", b, w, x)
      /\ noise = 0 /\ Obeys("READ", b, w) => x.r = "ok"
  BY <1>1, FrameLemma
<1>3. Done(w, {}, x)
  BY <1>1, <1>2, FollowsLeads DEF Done, Taken, Obeys
<1>4. Opened(b, w) => Obeys("READ", b, w)
  BY FollowsLeads DEF Opened, Obeys
<1> QED  BY <1>2, <1>3, <1>4

\* One frame for a page of an Ultralight, two for a block of the others.
LEMMA WriteLemma ==
  ASSUME noise \in Nat, NEW b, NEW w, OpenOK(w), w.pend = "none",
         NEW x \in mifare_block_write(b, w)
  PROVE  /\ Done(w, {b}, x)
         /\ SAK = "UL" /\ x.r = "ok" /\ ~x.misread => chip = "UL"
         /\ noise = 0 /\ SAK # "UL" /\ Opened(b, w) => x.r = "ok"
<1>1. /\ "WRITE4" \in Frames \ {"VALUE"} /\ "WRITE" \in Frames \ {"VALUE"}
      /\ "DATA" \in Frames \ {"VALUE"}
      /\ "WRITE4" \in Storing /\ "DATA" \in Storing /\ ~("WRITE" \in Storing)
  BY DEF Frames, Storing
<1>2. Opened(b, w) => Obeys("WRITE", b, w)
  BY FollowsLeads DEF Opened, Obeys
<1>3. CASE SAK = "UL"
  <2>1. x \in Acknowledged("WRITE4", b, w)
    BY <1>3 DEF mifare_block_write
  <2>2. /\ Worked(w, x) /\ x.crypto = w.crypto
        /\ x.wrote = w.wrote \/ x.wrote = w.wrote \cup {b}
        /\ (w.misread => x.misread) /\ (noise = 0 => x.misread = w.misread)
        /\ x.r = "ok" /\ ~x.misread => Obeys("WRITE4", b, w) /\ Taken("WRITE4", b, w, x)
    BY <1>1, <2>1, AckLemma
  <2>3. Done(w, {b}, x)
    BY <1>1, <2>2, FollowsLeads DEF Done, Taken, Obeys
  <2> QED  BY <1>3, <2>2, <2>3 DEF Obeys
<1>4. CASE SAK # "UL"
  <2>1. PICK y \in Acknowledged("WRITE", b, w) :
          x \in IF Failed(y) THEN {y} ELSE Acknowledged("DATA", b, y)
    BY <1>4 DEF mifare_block_write, Then
  <2>2. /\ Worked(w, y) /\ y.crypto = w.crypto /\ y.wrote = w.wrote
        /\ (w.misread => y.misread) /\ (noise = 0 => y.misread = w.misread)
        /\ y.r = "ok" /\ ~y.misread => Obeys("WRITE", b, w) /\ Taken("WRITE", b, w, y)
        /\ noise = 0 /\ y.r = "ok" => Obeys("WRITE", b, w) /\ Taken("WRITE", b, w, y)
        /\ noise = 0 /\ Obeys("WRITE", b, w) => y.r = "ok"
    BY <1>1, AckLemma
  <2>3. CASE Failed(y)
    BY <1>2, <2>1, <2>2, <2>3 DEF Failed, Done
  <2>4. CASE ~Failed(y)
    <3>1. x \in Acknowledged("DATA", b, y) /\ OpenOK(y) /\ y.r = "ok"
      BY <2>1, <2>2, <2>4 DEF Worked, Failed
    <3>2. /\ Worked(y, x) /\ x.crypto = y.crypto
          /\ x.wrote = y.wrote \/ x.wrote = y.wrote \cup {b}
          /\ (y.misread => x.misread) /\ (noise = 0 => x.misread = y.misread)
          /\ x.r = "ok" /\ ~x.misread => Obeys("DATA", b, y) /\ Taken("DATA", b, y, x)
          /\ noise = 0 /\ Obeys("DATA", b, y) => x.r = "ok"
      BY <1>1, <3>1, AckLemma
    <3>3. Obeys("WRITE", b, w) /\ Taken("WRITE", b, w, y) =>
            /\ Obeys("DATA", b, y) /\ y.mode = "active" /\ w.mode = "active" /\ y.open = w.open
            /\ b \in Memory(chip)
      BY FollowsLeads DEF Obeys, Taken
    <3>4. Worked(w, x)
      BY <2>2, <3>2, WorkedAgain
    <3>5. x.r = "ok" /\ ~x.misread =>
            /\ w.mode = "active" /\ x.mode = "active" /\ x.open = w.open /\ x.pend = "none"
            /\ x.wrote = w.wrote \cup {b} /\ b \in Memory(chip)
      BY <1>1, <2>2, <3>1, <3>2, <3>3, FollowsLeads DEF Taken
    <3>6. noise = 0 => x.r = "ok"
      BY <2>2, <3>1, <3>2, <3>3
    <3>7. Done(w, {b}, x)
      BY <2>2, <3>2, <3>4, <3>5 DEF Done
    <3> QED  BY <1>4, <3>6, <3>7
  <2> QED  BY <1>4, <2>3, <2>4
<1> QED  BY <1>3, <1>4

\* The first two frames of a value operation: nothing is written yet.
LEMMA CountLemma ==
  ASSUME noise \in Nat, NEW b, NEW w, OpenOK(w), w.pend = "none",
         NEW x \in mifare_inc_dec("COUNT", b, w)
  PROVE  /\ Worked(w, x) /\ x.crypto = w.crypto /\ x.wrote = w.wrote
         /\ (w.misread => x.misread) /\ (noise = 0 => x.misread = w.misread)
         /\ x.r = "ok" /\ ~x.misread => w.mode = "active" /\ x.mode = "active" /\ x.open = w.open
         /\ noise = 0 /\ Opened(b, w) =>
              x.r = "ok" /\ x.pend = "buffer" /\ x.mode = "active" /\ x.open = w.open
<1>1. /\ "COUNT" \in Frames \ {"VALUE"} /\ "VALUE" \in Frames
      /\ ~("COUNT" \in Storing) /\ ~("VALUE" \in Storing)
  BY DEF Frames, Storing
<1>2. PICK y \in Acknowledged("COUNT", b, w) :
        x \in IF Failed(y) THEN {y}
              ELSE {[z EXCEPT !.r = IF Silent(z) THEN "ok" ELSE "mute"]
                     : z \in Air(y, Heard("VALUE", b, y))}
  BY DEF mifare_inc_dec, Then
<1>3. /\ Worked(w, y) /\ y.crypto = w.crypto /\ y.wrote = w.wrote
      /\ (w.misread => y.misread) /\ (noise = 0 => y.misread = w.misread)
      /\ y.r = "ok" /\ ~y.misread => Obeys("COUNT", b, w) /\ Taken("COUNT", b, w, y)
      /\ noise = 0 /\ y.r = "ok" => Obeys("COUNT", b, w) /\ Taken("COUNT", b, w, y)
      /\ noise = 0 /\ Obeys("COUNT", b, w) => y.r = "ok"
  BY <1>1, AckLemma
<1>4. Opened(b, w) => Obeys("COUNT", b, w)
  BY FollowsLeads DEF Opened, Obeys
<1>5. CASE Failed(y)
  BY <1>2, <1>3, <1>4, <1>5 DEF Failed
<1>6. CASE ~Failed(y)
  <2>1. PICK z \in Air(y, Heard("VALUE", b, y)) :
          x = [z EXCEPT !.r = IF Silent(z) THEN "ok" ELSE "mute"]
    BY <1>2, <1>6
  <2>2. OpenOK(y) /\ y.r = "ok"
    BY <1>3, <1>6 DEF Failed, Worked
  <2>3. Obeys("COUNT", b, w) /\ Taken("COUNT", b, w, y) =>
          Obeys("VALUE", b, y) /\ w.mode = "active" /\ y.mode = "active" /\ y.open = w.open
    BY FollowsLeads DEF Obeys, Taken
  <2>4. /\ Worked(y, z) /\ z.crypto = y.crypto /\ z.wrote = y.wrote /\ z.misread = y.misread
        /\ Obeys("VALUE", b, y) =>
             /\ z.mode = y.mode /\ z.open = y.open
             /\ noise = 0 => Taken("VALUE", b, y, z) /\ z.r = "notag"
    BY <1>1, <2>2, FrameLemma
  <2> DEFINE e == IF Silent(z) THEN "ok" ELSE "mute"
  <2>5. e \in Replies /\ (z.r = "notag" => e = "ok") /\ OpenOK(z)
    BY <2>4 DEF Silent, Replies, Worked
  <2> HIDE DEF e
  <2>6. x = [z EXCEPT !.r = e]
    BY <2>1 DEF e
  <2>7. Worked(z, x) /\ Beside(z, x) /\ x.mode = z.mode /\ x.r = e
    BY <2>5, <2>6, ResultLemma
  <2>8. Worked(w, x)
    BY <1>3, <2>4, <2>7, WorkedAgain
  <2>9. x.r = "ok" /\ ~x.misread => w.mode = "active" /\ x.mode = "active" /\ x.open = w.open
    BY <1>3, <2>2, <2>3, <2>4, <2>7 DEF Beside
  <2>10. noise = 0 => x.r = "ok" /\ x.pend = "buffer" /\ x.mode = "active" /\ x.open = w.open
    BY <1>3, <2>2, <2>3, <2>4, <2>5, <2>7, FollowsLeads DEF Beside, Taken
  <2> QED  BY <1>3, <2>4, <2>7, <2>8, <2>9, <2>10 DEF Beside
<1> QED  BY <1>5, <1>6

\* A value operation on one block, or from one to another.
LEMMA TransferLemma ==
  ASSUME noise \in Nat, NEW b, NEW c, NEW w, OpenOK(w), w.pend = "none",
         NEW x \in ThenTransfer(mifare_inc_dec("COUNT", b, w), c)
  PROVE  /\ Done(w, {c}, x)
         /\ noise = 0 /\ Opened(b, w) /\ Opened(c, w) => x.r = "ok"
<1>1. "TRANSFER" \in Frames \ {"VALUE"} /\ "TRANSFER" \in Storing
  BY DEF Frames, Storing
<1>2. PICK y \in mifare_inc_dec("COUNT", b, w) :
        x \in IF Failed(y) THEN {y} ELSE mifare_inc_dec("TRANSFER", c, y)
  BY DEF ThenTransfer, Then
<1>3. /\ Worked(w, y) /\ y.crypto = w.crypto /\ y.wrote = w.wrote
      /\ (w.misread => y.misread) /\ (noise = 0 => y.misread = w.misread)
      /\ y.r = "ok" /\ ~y.misread => w.mode = "active" /\ y.mode = "active" /\ y.open = w.open
      /\ noise = 0 /\ Opened(b, w) =>
           y.r = "ok" /\ y.pend = "buffer" /\ y.mode = "active" /\ y.open = w.open
  BY CountLemma
<1>4. CASE Failed(y)
  BY <1>2, <1>3, <1>4 DEF Failed, Done
<1>5. CASE ~Failed(y)
  <2>1. PICK z \in Acknowledged("TRANSFER", c, y) : x = z
    BY <1>2, <1>5 DEF mifare_inc_dec, Then
  <2>2. OpenOK(y) /\ y.r = "ok"
    BY <1>3, <1>5 DEF Failed, Worked
  <2>3. /\ Worked(y, x) /\ x.crypto = y.crypto
        /\ x.wrote = y.wrote \/ x.wrote = y.wrote \cup {c}
        /\ (y.misread => x.misread) /\ (noise = 0 => x.misread = y.misread)
        /\ x.r = "ok" /\ ~x.misread => Obeys("TRANSFER", c, y) /\ Taken("TRANSFER", c, y, x)
        /\ noise = 0 /\ Obeys("TRANSFER", c, y) => x.r = "ok"
    BY <1>1, <2>1, <2>2, AckLemma
  <2>4. noise = 0 /\ Opened(b, w) /\ Opened(c, w) => Obeys("TRANSFER", c, y)
    BY <1>3, FollowsLeads DEF Opened, Obeys
  <2>5. Worked(w, x)
    BY <1>3, <2>3, WorkedAgain
  <2>6. x.r = "ok" /\ ~x.misread =>
          /\ w.mode = "active" /\ x.mode = "active" /\ x.open = w.open /\ x.pend = "none"
          /\ x.wrote = w.wrote \cup {c} /\ {c} \subseteq Memory(chip)
    BY <1>1, <1>3, <2>2, <2>3, FollowsLeads DEF Taken, Obeys
  <2> QED  BY <1>3, <2>3, <2>4, <2>5, <2>6 DEF Done
<1> QED  BY <1>4, <1>5

-----------------------------------------------------------------------------
(* Authentication.                                                         *)

LEMMA SectorLemma ==
  ASSUME NEW b \in Bytes
  PROVE  SectorOf(b) \in Bytes /\ SectorOf(b) # None /\ SectorOf(b) \in Sectors
BY DEF SectorOf, Bytes, None, Sectors

\* The card opens the sector of the block, or none.
LEMMA UnlockedLemma ==
  ASSUME NEW b \in Bytes, NEW k, NEW w, OpenOK(w), w.type = "MIFARE", w.pend = "none"
  PROVE  LET u == Unlocked(b, k, w)
         IN /\ Worked(w, u) /\ u.crypto = w.crypto /\ u.wrote = w.wrote /\ u.pend = "none"
            /\ u.misread = w.misread
            /\ u.open = SectorOf(b) =>
                 u.mode = "active" /\ chip # "UL" /\ b \in Memory(chip) /\ k = CardKey
            /\ u.r = "ok" => u.open = SectorOf(b) /\ u.mode = "active"
            /\ w.mode = "active" /\ chip # "UL" /\ b \in Memory(chip) /\ k = CardKey
                 /\ (w.crypto <=> w.open # None) => u.r = "ok"
<1> DEFINE Fits == /\ w.mode = "active" /\ chip # "UL" /\ b \in Memory(chip) /\ k = CardKey
                   /\ w.crypto <=> w.open # None
           o == SectorOf(b)
<1>1. o \in Sectors /\ o # None
  BY SectorLemma
<1>2. CASE Fits
  <2> HIDE DEF o
  <2> DEFINE x == [w EXCEPT !.open = o, !.r = "ok"]
  <2>1. /\ x \in Wide /\ x.antenna = w.antenna /\ x.mode = w.mode /\ x.same = w.same
        /\ x.states = w.states /\ x.type = w.type /\ x.r = "ok"
        /\ x.open = o /\ x.crypto = w.crypto /\ x.pend = w.pend /\ x.wrote = w.wrote
        /\ x.sak = w.sak /\ x.misread = w.misread
    BY <1>1 DEF OpenOK, Wide, Replies
  <2>2. Unlocked(b, k, w) = x
    BY <1>2 DEF Unlocked, o
  <2> HIDE DEF x
  <2>3. Worked(w, x)
    BY <1>2, <2>1 DEF Worked, OpenOK
  <2> QED  BY <1>2, <2>1, <2>2, <2>3 DEF o
<1>3. CASE ~Fits
  <2>1. Unlocked(b, k, w) = Halted(w)
    BY <1>3 DEF Unlocked
  <2> DEFINE h == Halted(w)
  <2>2. /\ Worked(w, h) /\ h.r \in {"nak", "notag"} /\ h.crypto = w.crypto
        /\ h.wrote = w.wrote /\ h.open = None /\ h.pend = "none" /\ h.misread = w.misread
    BY HaltedLemma
  <2> HIDE DEF h
  <2> QED  BY <1>1, <1>3, <2>1, <2>2 DEF h
<1> QED  BY <1>2, <1>3

\* What an authentication of block b with key k leaves.
Authenticated(b, k, w, y) ==
  /\ Worked(w, y) /\ y.pend = "none" /\ y.wrote = w.wrote /\ y.misread = w.misread
  /\ y.r = "ok" => y.crypto /\ (y.open = SectorOf(b) \/ w.crypto)
  /\ noise = 0 /\ y.open = SectorOf(b) =>
       y.mode = "active" /\ chip # "UL" /\ b \in Memory(chip) /\ k = CardKey
  /\ noise = 0 /\ w.mode = "active" /\ chip # "UL" /\ b \in Memory(chip) /\ k = CardKey
       /\ (w.crypto <=> w.open # None) =>
       y.r = "ok" /\ y.open = SectorOf(b) /\ y.mode = "active"

LEMMA AuthenLemma ==
  ASSUME noise \in Nat, NEW b \in Bytes, NEW k, NEW w, OpenOK(w), w.type = "MIFARE",
         w.pend = "none", NEW y \in mifare_authen_analyze(b, k, w)
  PROVE  Authenticated(b, k, w, y)
<1> DEFINE u == Unlocked(b, k, w)
<1>1. /\ Worked(w, u) /\ u.crypto = w.crypto /\ u.wrote = w.wrote /\ u.pend = "none"
      /\ u.misread = w.misread
      /\ u.open = SectorOf(b) =>
           u.mode = "active" /\ chip # "UL" /\ b \in Memory(chip) /\ k = CardKey
      /\ u.r = "ok" => u.open = SectorOf(b) /\ u.mode = "active"
      /\ w.mode = "active" /\ chip # "UL" /\ b \in Memory(chip) /\ k = CardKey
           /\ (w.crypto <=> w.open # None) => u.r = "ok"
  BY UnlockedLemma
<1>2. PICK x \in Air(w, u) :
        y \in {[z EXCEPT !.r = IF x.r \in {"ok", "nak", "notag"} /\ z.crypto THEN "ok" ELSE "mute"]
                 : z \in Ciphered(x, w)}
  BY DEF mifare_authen_analyze, Then
<1> HIDE DEF u
<1>3. Aired(w, u, x)
  BY <1>1, AirLemma
<1>4. /\ Worked(w, x) /\ x.wrote = w.wrote /\ x.pend = "none" /\ x.crypto = w.crypto
      /\ x.misread = w.misread
      /\ x.r = "ok" => x = u
      /\ noise = 0 => x = u
  BY <1>1, <1>3 DEF Aired, Beside
<1>5. PICK z \in Ciphered(x, w) :
        y = [z EXCEPT !.r = IF x.r \in {"ok", "nak", "notag"} /\ z.crypto THEN "ok" ELSE "mute"]
  BY <1>2
<1>6. PICK c \in IF x.r = "ok" THEN {TRUE} ELSE {FALSE, w.crypto} : z = [x EXCEPT !.crypto = c]
  BY <1>5 DEF Ciphered
<1>7. c \in BOOLEAN /\ (x.r = "ok" => c = TRUE) /\ (x.r # "ok" /\ c => w.crypto)
  BY <1>4, <1>6 DEF Worked, OpenOK, Wide
<1> DEFINE e == IF x.r \in {"ok", "nak", "notag"} /\ c THEN "ok" ELSE "mute"
<1>8. e \in Replies /\ (e = "ok" => c) /\ (x.r = "ok" => e = "ok")
  BY <1>7 DEF Replies
<1>9. z.crypto = c /\ z = [x EXCEPT !.crypto = c]
  BY <1>4, <1>6 DEF Worked, OpenOK, Wide
<1>10. y = [z EXCEPT !.r = e]
  BY <1>5, <1>9
<1> HIDE DEF e
<1>11. /\ y \in Wide /\ y.antenna = x.antenna /\ y.mode = x.mode /\ y.same = x.same
       /\ y.states = x.states /\ y.type = x.type /\ y.r = e
       /\ y.open = x.open /\ y.crypto = c /\ y.pend = x.pend /\ y.wrote = x.wrote
       /\ y.sak = x.sak /\ y.misread = x.misread
  BY <1>4, <1>7, <1>8, <1>9, <1>10 DEF Worked, OpenOK, Wide
<1>12. Worked(w, y)
  BY <1>4, <1>11 DEF Worked, OpenOK
<1> QED  BY <1>1, <1>4, <1>7, <1>8, <1>11, <1>12 DEF Authenticated

\* What precedes a command.
LEMMA PreparedLemma ==
  ASSUME noise \in Nat, OpenOK(Link), type = "MIFARE", block \in Bytes, NEW x \in Prepared(Link)
  PROVE  /\ Worked(Link, x) /\ x.pend = "none" /\ x.wrote = {} /\ x.misread = FALSE
         /\ ~(authen_need /\ SAK # "UL") => x = Link
         /\ authen_need /\ SAK # "UL" /\ KeyUsable => Authenticated(block, work_key, Link, x)
<1>1. CASE ~(authen_need /\ SAK # "UL")
  BY <1>1, LinkFields, WorkedNone DEF Prepared
<1>2. CASE authen_need /\ SAK # "UL" /\ KeyUsable
  <2>1. x \in mifare_authen_analyze(block, work_key, Link)
    BY <1>2 DEF Prepared, mifare_authen
  <2>2. Authenticated(block, work_key, Link, x)
    BY <2>1, AuthenLemma, LinkFields
  <2> QED  BY <1>2, <2>2, LinkFields DEF Authenticated
<1>3. CASE authen_need /\ SAK # "UL" /\ ~KeyUsable
  <2>1. x = [Link EXCEPT !.r = "mute"]
    BY <1>3 DEF Prepared, mifare_authen
  <2>2. Worked(Link, x) /\ Beside(Link, x)
    BY <2>1, ResultLemma DEF Replies
  <2> QED  BY <1>3, <2>2, LinkFields DEF Beside
<1> QED  BY <1>1, <1>2, <1>3

-----------------------------------------------------------------------------
(* Seen from the session.                                                  *)

LEMMA SelectedLemma ==
  ASSUME LinkOK(Here), type = "MIFARE", NEW n \in Selected
  PROVE  LinkOK(n) /\ n.antenna = antenna /\ n.same = same /\ n.type = type
<1>1. CASE n = Here
  BY <1>1, HereFields
<1>2. CASE n \in mifare_select(Here)
  BY <1>2, MifareLemma, HereFields DEF Step, Keeps
<1> QED  BY <1>1, <1>2 DEF Selected

\* What is left of a command.
LEMMA LeaveCardLemma ==
  ASSUME NEW x, OpenOK(x), LeaveCard(x)
  PROVE  /\ antenna' = x.antenna /\ same' = x.same /\ states' = x.states /\ type' = x.type
         /\ crypto' = x.crypto /\ SAK' = x.sak
         /\ UNCHANGED <<card, noise, status, chip>>
         /\ \/ x.pend \notin {"data", "value"} /\ mode' = x.mode /\ open' = x.open
            \/ /\ x.pend \in {"data", "value"} /\ x.mode = "active"
               /\ mode' = "halt" /\ open' = None
         /\ OpenOK(Link)'
<1> DEFINE z == [x EXCEPT !.mode = "halt"]
<1>1. /\ z.antenna = x.antenna /\ z.mode = "halt" /\ z.same = x.same
      /\ z.states = x.states /\ z.type = x.type
  BY DEF OpenOK, Wide
<1>2. /\ crypto' = x.crypto /\ SAK' = x.sak /\ UNCHANGED <<status, chip>>
      /\ \/ x.pend \notin {"data", "value"} /\ Leave(x) /\ open' = x.open
         \/ x.pend \in {"data", "value"} /\ Leave(z) /\ open' = None
  BY DEF LeaveCard
<1> HIDE DEF z
<1>3. /\ antenna' = x.antenna /\ same' = x.same /\ states' = x.states /\ type' = x.type
      /\ UNCHANGED <<card, noise>>
      /\ \/ x.pend \notin {"data", "value"} /\ mode' = x.mode /\ open' = x.open
         \/ x.pend \in {"data", "value"} /\ mode' = "halt" /\ open' = None
  BY <1>1, <1>2 DEF Leave
<1>4. x.pend # "none" => x.mode = "active"
  BY DEF OpenOK
<1>5. /\ x.antenna \in BOOLEAN /\ x.mode \in Modes /\ x.same \in BOOLEAN /\ x.states \in States
      /\ x.type \in Types /\ x.open \in Sectors /\ x.crypto \in BOOLEAN
      /\ x.open # None => x.mode = "active" /\ x.type = "MIFARE"
      /\ x.mode = "active" /\ x.type = "MIFARE" => x.same
      /\ x.sak \in Chips \cup {"none", "UL"}
      /\ x.same /\ x.type = "MIFARE" =>
           x.sak \in {chip, "UL"} /\ (x.states = "SELECTED" => x.sak = chip)
  BY DEF OpenOK, Wide
<1> DEFINE m == mode'
           o == open'
<1>6. m \in Modes /\ o \in Sectors /\ (m = x.mode \/ m = "halt") /\ (o = x.open \/ o = None)
      /\ (o # None => m = x.mode)
  BY <1>3, <1>5 DEF Modes, Sectors
<1> HIDE DEF m, o
<1> DEFINE l == [antenna |-> x.antenna, mode |-> m, same |-> x.same, states |-> x.states,
                 type |-> x.type, r |-> "ok", lost |-> 0, sak |-> x.sak, open |-> o,
                 crypto |-> x.crypto, pend |-> "none", wrote |-> {}, misread |-> FALSE]
<1>7. Link' = l
  BY <1>2, <1>3 DEF Link, m, o
<1>8. /\ l \in Wide /\ l.mode = m /\ l.same = x.same /\ l.type = x.type
      /\ l.open = o /\ l.pend = "none" /\ l.sak = x.sak /\ l.states = x.states
  BY <1>5, <1>6 DEF Wide, Replies
<1> HIDE DEF l
<1>9. OpenOK(l)
  BY <1>5, <1>6, <1>8 DEF OpenOK
<1>10. OpenOK(Link)'
  BY <1>2, <1>7, <1>9 DEF OpenOK
<1> QED  BY <1>2, <1>3, <1>4, <1>10

\* A command is an exchange with a MIFARE card.
LEMMA ExchangeLemma ==
  ASSUME LinkOK(Here), type = "MIFARE", NEW w, Narrow(w) \in Selected,
         NEW x, Worked(w, x), LeaveCard(x)
  PROVE  ExchangeMifare
<1> DEFINE n == Narrow(w)
           h == [n EXCEPT !.mode = "halt"]
<1>1. n.antenna = w.antenna /\ n.mode = w.mode /\ n.same = w.same /\ n.states = w.states
      /\ n.type = w.type
  BY NarrowFields
<1>2. h.antenna = w.antenna /\ h.mode = "halt" /\ h.same = w.same /\ h.states = w.states
      /\ h.type = w.type
  BY DEF Narrow
<1> HIDE DEF n, h
<1>3. /\ OpenOK(x) /\ x.antenna = w.antenna /\ x.same = w.same /\ x.states = w.states
      /\ x.type = w.type /\ (x.mode = w.mode \/ (w.mode = "active" /\ x.mode = "halt"))
  BY DEF Worked
<1>4. /\ antenna' = x.antenna /\ same' = x.same /\ states' = x.states /\ type' = x.type
      /\ UNCHANGED <<card, noise, status>>
      /\ mode' = x.mode \/ (x.mode = "active" /\ mode' = "halt")
  BY <1>3, LeaveCardLemma
<1>5. CASE mode' = w.mode
  BY <1>1, <1>3, <1>4, <1>5 DEF Leave, ExchangeMifare, Selected, n
<1>6. CASE w.mode = "active" /\ mode' = "halt"
  <2>1. Leave(h)
    BY <1>2, <1>3, <1>4, <1>6 DEF Leave
  <2> QED  BY <1>1, <1>4, <1>6, <2>1 DEF ExchangeMifare, Selected, n, h
<1> QED  BY <1>3, <1>4, <1>5, <1>6

\* What every command does to the session and to the card.
LEMMA CommandLemma ==
  ASSUME IInv, ChipOK, type = "MIFARE", NEW w, Narrow(w) \in Selected,
         NEW x, Worked(w, x), LeaveCard(x)
  PROVE  /\ ExchangeMifare /\ IInv' /\ ChipOK'
         /\ type' = type /\ same' = same /\ states' = x.states /\ crypto' = x.crypto
         /\ SAK' = x.sak /\ UNCHANGED <<card, noise, status, chip>>
         /\ x.pend \notin {"data", "value"} => mode' = x.mode /\ open' = x.open
         /\ open' \in {x.open, None}
<1>1. LinkOK(Here)
  BY HereLemma
<1>2. ExchangeMifare
  BY <1>1, ExchangeLemma
<1>3. IInv'
  BY <1>2, MifareInv
<1>4. OpenOK(x) /\ x.type = w.type /\ x.same = w.same
  BY DEF Worked
<1>5. w.type = type /\ w.same = same
  BY <1>1, SelectedLemma, NarrowFields
<1>6. /\ same' = x.same /\ states' = x.states /\ type' = x.type /\ crypto' = x.crypto
      /\ SAK' = x.sak /\ UNCHANGED <<card, noise, status, chip>>
      /\ \/ x.pend \notin {"data", "value"} /\ mode' = x.mode /\ open' = x.open
         \/ x.pend \in {"data", "value"} /\ mode' = "halt" /\ open' = None
      /\ OpenOK(Link)'
  BY <1>4, LeaveCardLemma
<1>7. ChipOK'
  BY <1>4, <1>5, <1>6 DEF ChipOK
<1> QED  BY <1>2, <1>3, <1>4, <1>5, <1>6, <1>7

-----------------------------------------------------------------------------
(* The invariant, step by step.                                            *)

LEMMA IdleLemma ==
  ASSUME NEW c, c \in Commands
  PROVE  c # Idle
<1>1. c.op # "none"
  BY DEF Commands
<1> QED  BY <1>1 DEF Idle

\* What the invariant says of the next command.
LEMMA Facts ==
  ASSUME MInv
  PROVE  /\ LinkOK(Here) /\ OpenOK(Link) /\ noise \in Nat /\ block \in Bytes
         /\ Narrow(Link) = Here /\ Here \in Selected /\ work_key \in Keys
         /\ (same => card # "none") /\ SAK \in Chips \cup {"none", "UL"}
         /\ chip \in Chips \cup {"none"}
         /\ cmd = Idle \/ (cmd \in Commands /\ type = "MIFARE")
<1>1. LinkOK(Here) /\ Here.same = same /\ noise \in 0 .. MaxNoise
  BY HereLemma DEF MInv, IInv, TypeOK
<1>2. noise \in Nat
  BY <1>1, NoiseAssumption
<1> QED  BY <1>1, <1>2, LinkFields DEF MInv, ChipOK, KeysOK, LoopOK, LinkOK, Selected

LEMMA LoopKept ==
  ASSUME LoopOK, UNCHANGED <<cmd, type, SAK, block>>
  PROVE  LoopOK'
BY DEF LoopOK, SparesTrailers, mifare_block_check, Trailer, InLoop, Rounds, Wrapped, Pace, Size

LEMMA GrantedKept ==
  ASSUME GrantedOK,
         UNCHANGED <<noise, same, type, chip, SAK, key_No, key_valid, work_key, block, mode,
                     crypto, open, authen_need, cmd, granted>>
  PROVE  GrantedOK'
BY DEF GrantedOK, KeyUsable, SessionSurvivesPolls, Multi, Memory

LEMMA NotGranted ==
  ASSUME granted' = None
  PROVE  GrantedOK'
BY DEF GrantedOK

LEMMA ChipKept ==
  ASSUME ChipOK, UNCHANGED vars, UNCHANGED <<chip, SAK, open, crypto>>
  PROVE  ChipOK'
<1>1. Link' = Link
  BY DEF Link, vars
<1> QED  BY <1>1 DEF ChipOK, OpenOK, vars

\* Blocks of one sector.
LEMMA SectorMates ==
  ASSUME NEW b \in Bytes, NEW c \in Bytes, SectorOf(b) = SectorOf(c)
  PROVE  /\ c \in Memory(chip) => b \in Memory(chip)
         /\ b >= 128 <=> c >= 128
         /\ IF c >= 128 THEN b \div 16 = c \div 16 ELSE b \div 4 = c \div 4
<1>1. b \in 0 .. 255 /\ c \in 0 .. 255
  BY DEF Bytes
<1>2. CASE b >= 128 /\ c >= 128
  <2>1. 128 + (b \div 16) = 128 + (c \div 16)
    BY <1>2 DEF SectorOf
  <2>2. b \div 16 = c \div 16
    BY <1>1, <2>1
  <2> QED  BY <1>1, <1>2, <2>2 DEF Memory
<1>3. CASE b < 128 /\ c < 128
  <2>1. b \div 4 = c \div 4
    BY <1>1, <1>3 DEF SectorOf
  <2>2. (c <= 63 => b <= 63) /\ (c <= 15 => b <= 15)
    BY <1>1, <2>1
  <2> QED  BY <1>1, <1>3, <2>1, <2>2 DEF Memory
<1>4. CASE b >= 128 /\ c < 128
  BY <1>1, <1>4 DEF SectorOf
<1>5. CASE b < 128 /\ c >= 128
  BY <1>1, <1>5 DEF SectorOf
<1> QED  BY <1>1, <1>2, <1>3, <1>4, <1>5

\* Only the last block of a sector is refused in it.
LEMMA BlockCheckLemma ==
  ASSUME block \in Bytes, NEW b \in Bytes, NEW c \in Bytes, NEW multi \in BOOLEAN,
         SectorOf(b) = SectorOf(block), SectorOf(c) = SectorOf(block), multi => ~Trailer(b)
  PROVE  mifare_block_check(b, c, multi)
BY SectorMates DEF mifare_block_check

\* A sector that a host has opened is open again before a command begins.
LEMMA PreparedOpens ==
  ASSUME MInv, granted # None, cmd = Idle, NEW x \in Prepared(Link)
  PROVE  Opened(block, x)
<1>1. /\ noise = 0 /\ same /\ type = "MIFARE" /\ chip # "UL" /\ SAK # "UL"
      /\ KeyUsable /\ work_key = CardKey
      /\ block \in Memory(chip) /\ SectorOf(block) = granted /\ mode = "active"
      /\ \/ crypto /\ open = granted
         \/ authen_need /\ ~crypto /\ open = None
  BY DEF MInv, GrantedOK
<1>2. OpenOK(Link) /\ noise \in Nat /\ block \in Bytes
  BY Facts
<1>3. /\ Worked(Link, x) /\ (~authen_need => x = Link)
      /\ authen_need => Authenticated(block, work_key, Link, x)
  BY <1>1, <1>2, PreparedLemma
<1>4. CASE authen_need
  <2>1. crypto <=> open # None
    BY <1>1
  <2>2. x.r = "ok" /\ x.open = SectorOf(block) /\ x.mode = "active"
    BY <1>1, <1>3, <1>4, <2>1, LinkFields DEF Authenticated
  <2>3. x.crypto
    BY <1>3, <1>4, <2>2 DEF Authenticated
  <2> QED  BY <1>1, <2>2, <2>3 DEF Opened
<1>5. CASE ~authen_need
  BY <1>1, <1>3, <1>5, LinkFields DEF Opened
<1> QED  BY <1>4, <1>5

-----------------------------------------------------------------------------
(* Keys and commands that begin.                                           *)

LEMMA LoadKeyInv ==
  ASSUME MInv, NEW n \in Numbers, NEW k \in Keys, LoadKey(n, k)
  PROVE  MInv' /\ UNCHANGED vars
<1>1. /\ UNCHANGED vars
      /\ UNCHANGED <<key_valid, work_key, key_No, block, authen_need, SAK, crypto, chip, open,
                     cmd, granted>>
      /\ mifare_key' = [mifare_key EXCEPT ![n] = k]
  BY DEF LoadKey
<1>2. IInv'
  BY <1>1, StutterInv DEF MInv
<1>3. KeysOK'
  BY <1>1, KeysAssumption DEF MInv, KeysOK
<1>4. ChipOK'
  BY <1>1, ChipKept DEF MInv
<1>5. LoopOK' /\ GrantedOK'
  BY <1>1, LoopKept, GrantedKept DEF MInv, vars
<1> QED  BY <1>1, <1>2, <1>3, <1>4, <1>5 DEF MInv

LEMMA AuthenticateInv ==
  ASSUME MInv, NEW b \in Blocks, NEW n \in Numbers, Authenticate(b, n)
  PROVE  MInv' /\ ExchangeMifare
<1>1. PICK x \in SelectFirst : \E y \in mifare_authen_analyze(b, mifare_key[n], x) :
        /\ LeaveCard(y)
        /\ authen_need' = (authen_need \/ (states # "SELECTED" /\ ~Failed(x)))
        /\ IF Failed(y) THEN key_valid' = key_valid \ {n} /\ UNCHANGED work_key
           ELSE key_valid' = key_valid \cup {n} /\ work_key' = mifare_key[n]
        /\ granted' = IF ~Failed(y) /\ y.open = SectorOf(b) /\ noise = 0 THEN y.open ELSE None
  BY DEF Authenticate
<1>2. PICK y \in mifare_authen_analyze(b, mifare_key[n], x) :
        /\ LeaveCard(y)
        /\ authen_need' = (authen_need \/ (states # "SELECTED" /\ ~Failed(x)))
        /\ IF Failed(y) THEN key_valid' = key_valid \ {n} /\ UNCHANGED work_key
           ELSE key_valid' = key_valid \cup {n} /\ work_key' = mifare_key[n]
        /\ granted' = IF ~Failed(y) /\ y.open = SectorOf(b) /\ noise = 0 THEN y.open ELSE None
  BY <1>1
<1>3. /\ cmd = Idle /\ type = "MIFARE" /\ key_No' = n /\ block' = b
      /\ UNCHANGED <<mifare_key, cmd>>
  BY DEF Authenticate, Ready
<1>4. b \in Bytes /\ n \in {0, 1} /\ mifare_key[n] \in Keys
  BY BlocksAssumption, KeysAssumption DEF Bytes, MInv, KeysOK
<1>5. /\ Narrow(x) \in Selected /\ OpenOK(x) /\ x.pend = "none" /\ noise \in Nat
      /\ noise = 0 /\ x.mode = "active" => x.sak = chip
  BY <1>3, Facts, SelectFirstLemma
<1>6. x.type = "MIFARE"
  BY <1>3, <1>5, Facts, SelectedLemma, NarrowFields
<1>7. Authenticated(b, mifare_key[n], x, y)
  BY <1>4, <1>5, <1>6, AuthenLemma
<1>8. Worked(x, y) /\ y.pend = "none" /\ y.sak = x.sak /\ y.sak \in Chips \cup {"none", "UL"}
  BY <1>7 DEF Authenticated, Worked, OpenOK, Wide
<1>9. /\ ExchangeMifare /\ IInv' /\ ChipOK'
      /\ type' = type /\ same' = same /\ crypto' = y.crypto
      /\ SAK' = y.sak /\ UNCHANGED <<card, noise, status, chip>>
      /\ mode' = y.mode /\ open' = y.open
  BY <1>2, <1>3, <1>5, <1>8, CommandLemma DEF MInv
<1>10. SectorOf(b) \in Sectors
  BY <1>4, SectorLemma
<1>11. KeysOK'
  BY <1>2, <1>3, <1>4, <1>8, <1>9, <1>10 DEF KeysOK, MInv, Sectors
<1>12. LoopOK'
  BY <1>3 DEF LoopOK
<1>13. GrantedOK'
  <2>1. CASE granted' = None
    BY <2>1, NotGranted
  <2>2. CASE granted' # None
    <3>1. ~Failed(y) /\ y.open = SectorOf(b) /\ noise = 0 /\ granted' = SectorOf(b)
      BY <1>2, <2>2
    <3>2. /\ y.mode = "active" /\ chip # "UL" /\ b \in Memory(chip) /\ mifare_key[n] = CardKey
          /\ y.crypto
      BY <1>7, <3>1 DEF Authenticated, Failed
    <3>6. SAK' # "UL"
      BY <1>5, <1>8, <1>9, <3>1, <3>2 DEF Worked
    <3>3. y.same /\ y.same = same
      BY <1>5, <1>6, <1>8, <1>9, <3>2, LeaveCardLemma, <1>2 DEF Worked, OpenOK
    <3>4. KeyUsable' /\ work_key' = CardKey /\ b \in Memory(chip)'
      BY <1>2, <1>3, <1>9, <3>1, <3>2 DEF KeyUsable, Memory
    <3>5. SessionSurvivesPolls'
      BY <1>3 DEF SessionSurvivesPolls
    <3> QED  BY <1>3, <1>9, <3>1, <3>2, <3>3, <3>4, <3>5, <3>6 DEF GrantedOK
  <2> QED  BY <2>1, <2>2
<1> QED  BY <1>9, <1>11, <1>12, <1>13 DEF MInv

LEMMA AuthenticateRefusedInv ==
  ASSUME MInv, AuthenticateRefused
  PROVE  MInv' /\ ExchangeMifare
<1>1. PICK x \in SelectFirst :
        /\ LeaveCard(x)
        /\ authen_need' = (authen_need \/ (states # "SELECTED" /\ ~Failed(x)))
  BY DEF AuthenticateRefused
<1>2. cmd = Idle /\ type = "MIFARE" /\ granted' = None /\ UNCHANGED <<keyVars, cmd>>
  BY DEF AuthenticateRefused, Ready
<1>3. Narrow(x) \in Selected /\ OpenOK(x)
  BY <1>2, Facts, SelectFirstLemma
<1>4. /\ ExchangeMifare /\ IInv' /\ ChipOK' /\ type' = type /\ SAK' = x.sak /\ UNCHANGED chip
  BY <1>1, <1>2, <1>3, WorkedNone, CommandLemma DEF MInv
<1>5. KeysOK'
  BY <1>1, <1>2, <1>3, <1>4 DEF KeysOK, MInv, keyVars, Sectors, OpenOK, Wide
<1>6. LoopOK' /\ GrantedOK'
  BY <1>2, NotGranted DEF LoopOK
<1> QED  BY <1>4, <1>5, <1>6 DEF MInv

\* The first round is ahead.
LEMMA BeginLoop ==
  ASSUME NEW b \in Bytes, NEW len \in Bytes, NEW op \in {"read", "write"},
         mifare_check_read_write_len(b, len), UNCHANGED SAK,
         cmd' = [op |-> op, at |-> b, left |-> len, len |-> len, asked |-> Asked(b, len),
                 wrote |-> {}, misread |-> FALSE, r |-> "busy"]
  PROVE  /\ cmd' \in Commands /\ cmd'.op = op /\ cmd'.r = "busy" /\ cmd'.wrote = {}
         /\ cmd'.misread = FALSE
         /\ SAK # "UL" /\ cmd'.len = 16 => cmd'.asked = {cmd'.at} /\ cmd'.left = 16
         /\ InLoop'
<1> DEFINE a == Asked(b, len)
           z == IF len = 0 THEN 256 ELSE len
<1>1. b \in 0 .. 255 /\ len \in 0 .. 255
  BY DEF Bytes
<1>2. a = b .. (b + (z \div Pace) - 1) /\ Pace \in {4, 16} /\ z \in 1 .. 256
  BY <1>1 DEF Asked, Pace
<1>3. a \in SUBSET Int
  <2> HIDE DEF z
  <2>1. z \div 4 \in Int /\ z \div 16 \in Int
    BY <1>2
  <2> QED  BY <1>1, <1>2, <2>1
<1>4. SAK # "UL" /\ len = 16 => a = {b}
  <2>1. SAK # "UL" /\ len = 16 => z \div Pace = 1
    BY DEF Pace
  <2> QED  BY <1>1, <1>2, <2>1
<1>5. z = IF len = 0 THEN 256 ELSE len
  OBVIOUS
<1> HIDE DEF a, z
<1> DEFINE c == [op |-> op, at |-> b, left |-> len, len |-> len, asked |-> a,
                 wrote |-> {}, misread |-> FALSE, r |-> "busy"]
<1>6. c \in Commands
  BY <1>3 DEF Commands
<1>7. /\ cmd' \in Commands /\ cmd'.op = op /\ cmd'.r = "busy" /\ cmd'.wrote = {}
      /\ cmd'.len = len /\ cmd'.left = len /\ cmd'.at = b /\ cmd'.asked = a
      /\ cmd'.misread = FALSE
  <2>1. /\ c.op = op /\ c.r = "busy" /\ c.wrote = {}
        /\ c.len = len /\ c.left = len /\ c.at = b /\ c.asked = a /\ c.misread = FALSE
    OBVIOUS
  <2>2. cmd' = c
    BY DEF a
  <2> HIDE DEF c
  <2> QED  BY <1>6, <2>1, <2>2
<1> HIDE DEF c
<1>8. InLoop'
  <2>1. Pace' = Pace /\ Size' = z
    BY <1>5, <1>7 DEF Pace, Size
  <2>2. CASE len % Pace # 0
    BY <1>7, <2>1, <2>2 DEF InLoop
  <2>3. CASE len % Pace = 0
    <3>1. /\ 0 \in Bytes /\ Pace * 0 = 0 /\ b + 0 = b /\ b .. (b + 0 - 1) = {}
          /\ len = (z - Pace * 0) % 256 /\ z % Pace = 0 /\ 0 < z
      BY <1>1, <1>2, <1>5, <2>3 DEF Bytes
    <3>2. Rounds(0)'
      BY <1>2, <1>7, <2>1, <3>1 DEF Rounds
    <3> QED  BY <3>1, <3>2 DEF InLoop
  <2> QED  BY <2>2, <2>3
<1> QED  BY <1>4, <1>7, <1>8

LEMMA BeginInv ==
  ASSUME MInv, NEW b \in Blocks, NEW len \in Lengths, NEW op \in {"read", "write"},
         Begin(op, b, len)
  PROVE  MInv' /\ ExchangeMifare
<1>1. PICK x \in Prepared(Link) : LeaveCard(x) /\ authen_need' = NeedAfter(x)
  BY DEF Begin
<1>2. /\ cmd = Idle /\ type = "MIFARE" /\ mifare_check_read_write_len(b, len)
      /\ cmd' = [op |-> op, at |-> b, left |-> len, len |-> len, asked |-> Asked(b, len),
                 wrote |-> {}, misread |-> FALSE, r |-> "busy"]
      /\ UNCHANGED <<keyVars, granted>>
  BY DEF Begin, Ready
<1>3. b \in Bytes /\ len \in Bytes
  BY BlocksAssumption DEF Bytes
<1>4. Worked(Link, x) /\ x.pend = "none"
  BY <1>2, Facts, PreparedLemma
<1>5. /\ ExchangeMifare /\ IInv' /\ ChipOK'
      /\ type' = type /\ same' = same /\ crypto' = x.crypto
      /\ UNCHANGED <<card, noise, status, chip, SAK>>
      /\ mode' = x.mode /\ open' = x.open
  BY <1>1, <1>2, <1>4, Facts, LinkFields, CommandLemma DEF MInv, Worked
<1>6. KeysOK'
  BY <1>1, <1>2, <1>5 DEF KeysOK, MInv, keyVars, NeedAfter
<1>7. /\ cmd' \in Commands /\ cmd'.op = op /\ cmd'.r = "busy" /\ cmd'.wrote = {}
      /\ cmd'.misread = FALSE
      /\ SAK # "UL" /\ cmd'.len = 16 => cmd'.asked = {cmd'.at} /\ cmd'.left = 16
      /\ InLoop'
  BY <1>2, <1>3, <1>5, BeginLoop
<1>8. LoopOK'
  BY <1>2, <1>5, <1>7 DEF LoopOK, SparesTrailers
<1>9. GrantedOK'
  <2>1. CASE granted = None
    BY <1>2, <2>1, NotGranted
  <2>2. CASE granted # None
    <3>1. Opened(block, x)
      BY <1>2, <2>2, PreparedOpens
    <3>2. /\ noise = 0 /\ same /\ chip # "UL" /\ SAK # "UL" /\ KeyUsable /\ work_key = CardKey
          /\ block \in Memory(chip) /\ SectorOf(block) = granted
      BY <2>2 DEF MInv, GrantedOK
    <3>3. KeyUsable' /\ block' = block /\ block \in Memory(chip)'
      BY <1>2, <1>5, <3>2 DEF KeyUsable, keyVars, Memory
    <3>4. SessionSurvivesPolls'
      BY <1>7 DEF SessionSurvivesPolls
    <3> QED  BY <1>2, <1>5, <1>7, <3>1, <3>2, <3>3, <3>4 DEF GrantedOK, Opened, keyVars
  <2> QED  BY <2>1, <2>2
<1> QED  BY <1>5, <1>6, <1>8, <1>9 DEF MInv

-----------------------------------------------------------------------------
(* The rounds of a command and its reply.                                  *)

LEMMA FailFields ==
  ASSUME cmd \in Commands, NEW s \in SUBSET Bytes,
         cmd' = [cmd EXCEPT !.r = "fail", !.left = 0, !.wrote = s]
  PROVE  /\ cmd' \in Commands /\ cmd'.op = cmd.op /\ cmd'.len = cmd.len /\ cmd'.at = cmd.at
         /\ cmd'.asked = cmd.asked /\ cmd'.wrote = s /\ cmd'.r = "fail"
         /\ cmd'.misread = cmd.misread
<1> DEFINE c == [cmd EXCEPT !.r = "fail", !.left = 0, !.wrote = s]
<1>1. 0 \in Bytes
  BY DEF Bytes
<1>2. /\ c \in Commands /\ c.op = cmd.op /\ c.len = cmd.len /\ c.at = cmd.at
      /\ c.asked = cmd.asked /\ c.wrote = s /\ c.r = "fail" /\ c.misread = cmd.misread
  BY <1>1 DEF Commands
<1> HIDE DEF c
<1> QED  BY <1>2 DEF c

LEMMA AdvanceFields ==
  ASSUME cmd \in Commands, NEW x, x.wrote \subseteq Bytes, x.misread \in BOOLEAN,
         NEW step \in Bytes, Advance(x, step)
  PROVE  /\ cmd' \in Commands /\ cmd'.op = cmd.op /\ cmd'.len = cmd.len
         /\ cmd'.asked = cmd.asked /\ cmd'.at = (cmd.at + 1) % 256
         /\ cmd'.left = (cmd.left - step) % 256 /\ cmd'.wrote = cmd.wrote \cup x.wrote
         /\ cmd'.misread = (cmd.misread \/ x.misread)
         /\ cmd'.r = IF cmd'.left = 0 THEN "ok" ELSE "busy"
<1> DEFINE rest == (cmd.left - step) % 256
           at == (cmd.at + 1) % 256
           s == cmd.wrote \cup x.wrote
           g == cmd.misread \/ x.misread
           r == IF rest = 0 THEN "ok" ELSE "busy"
           c == [cmd EXCEPT !.at = at, !.left = rest, !.wrote = s, !.misread = g, !.r = r]
<1>1. /\ rest \in Bytes /\ at \in Bytes /\ s \in SUBSET Bytes /\ r \in {"busy", "ok", "fail"}
      /\ g \in BOOLEAN
  <2>1. cmd.left \in Int /\ cmd.at \in Int /\ step \in Int /\ cmd.wrote \in SUBSET Bytes
    BY DEF Bytes, Commands
  <2>2. rest \in 0 .. 255 /\ at \in 0 .. 255
    BY <2>1
  <2> QED  BY <2>1, <2>2 DEF Bytes
<1>2. cmd' = c
  BY DEF Advance
<1>3. r = IF rest = 0 THEN "ok" ELSE "busy"
  OBVIOUS
<1> HIDE DEF rest, at, s, g, r
<1>4. /\ c \in Commands /\ c.op = cmd.op /\ c.len = cmd.len /\ c.asked = cmd.asked
      /\ c.at = at /\ c.left = rest /\ c.wrote = s /\ c.r = r /\ c.misread = g
  BY <1>1 DEF Commands
<1> HIDE DEF c
<1> QED  BY <1>2, <1>3, <1>4 DEF rest, at, s, g

\* What a step of a command owes to the host that has opened a sector.
LEMMA GrantedAfter ==
  ASSUME MInv, UNCHANGED <<keyVars, granted, noise, same, type, chip, SAK>>, cmd' \in Commands,
         granted # None =>
           /\ cmd'.r # "fail" => mode' = "active" /\ crypto' /\ open' = granted
           /\ cmd'.r = "fail" => SessionSurvivesPolls'
  PROVE  GrantedOK'
<1>1. CASE granted = None
  BY <1>1, NotGranted
<1>2. CASE granted # None
  <2>1. /\ noise = 0 /\ same /\ type = "MIFARE" /\ chip # "UL" /\ SAK # "UL"
        /\ KeyUsable /\ work_key = CardKey /\ block \in Memory(chip) /\ SectorOf(block) = granted
    BY <1>2 DEF MInv, GrantedOK
  <2>2. KeyUsable' /\ block \in Memory(chip)' /\ block' = block
    BY <2>1 DEF KeyUsable, keyVars, Memory
  <2>3. SessionSurvivesPolls'
    BY <1>2 DEF SessionSurvivesPolls
  <2> QED  BY <1>2, <2>1, <2>2, <2>3, IdleLemma DEF GrantedOK, keyVars
<1> QED  BY <1>1, <1>2

\* While a command is under way the sector that it has been granted is open.
LEMMA GrantedBusy ==
  ASSUME MInv, cmd # Idle, cmd.r # "fail", granted # None
  PROVE  /\ noise = 0 /\ block \in Memory(chip) /\ SectorOf(block) = granted
         /\ Link.mode = "active" /\ Link.crypto /\ Link.open = granted
         /\ chip # "UL" /\ SAK # "UL"
BY LinkFields DEF MInv, GrantedOK

LEMMA LeaveSectorInv ==
  ASSUME MInv, LeaveSector
  PROVE  MInv' /\ UNCHANGED vars
<1>1. /\ cmd.op \in {"read", "write"} /\ cmd.r = "busy" /\ ~InSector
      /\ cmd' = [cmd EXCEPT !.r = "fail", !.left = 0]
      /\ UNCHANGED vars
      /\ UNCHANGED <<keyVars, authen_need, SAK, crypto, chip, open, granted>>
  BY DEF LeaveSector
<1>2. cmd # Idle /\ cmd \in Commands /\ type = "MIFARE" /\ block \in Bytes
  BY <1>1, Facts DEF Idle
<1>3. cmd' = [cmd EXCEPT !.r = "fail", !.left = 0, !.wrote = cmd.wrote]
  BY <1>1, <1>2 DEF Commands
<1>4. /\ cmd' \in Commands /\ cmd'.op = cmd.op /\ cmd'.len = cmd.len /\ cmd'.at = cmd.at
      /\ cmd'.asked = cmd.asked /\ cmd'.wrote = cmd.wrote /\ cmd'.r = "fail"
      /\ cmd'.misread = cmd.misread
  <2>1. cmd.wrote \in SUBSET Bytes
    BY <1>2 DEF Commands
  <2> QED  BY <1>2, <1>3, <2>1, FailFields
<1>5. IInv' /\ KeysOK' /\ ChipOK'
  BY <1>1, StutterInv, ChipKept DEF MInv, KeysOK, keyVars
<1>6. LoopOK'
  BY <1>1, <1>2, <1>4 DEF MInv, LoopOK, SparesTrailers, Trailer, vars
<1>7. ASSUME granted # None
      PROVE  SessionSurvivesPolls'
  <2>1. SectorOf(block) = granted
    BY <1>7 DEF MInv, GrantedOK
  <2>2. cmd.at \in Bytes /\ Multi \in BOOLEAN
    BY <1>2 DEF Commands, Multi
  <2>3. SectorOf(cmd.at) = SectorOf(block) => Multi /\ Trailer(cmd.at)
    BY <1>1, <1>2, <2>2, BlockCheckLemma DEF InSector
  <2> QED  BY <1>1, <1>4, <2>1, <2>3 DEF SessionSurvivesPolls, Multi
<1>8. GrantedOK'
  BY <1>1, <1>4, <1>7, GrantedAfter DEF vars
<1> QED  BY <1>1, <1>5, <1>6, <1>8 DEF MInv

\* A round that reads or writes a block.
LEMMA RoundGranted ==
  ASSUME MInv, cmd # Idle, cmd.r = "busy", NEW W, NEW x, Done(Link, W, x), LeaveCard(x),
         noise = 0 /\ SAK # "UL" /\ Opened(cmd.at, Link) => x.r = "ok",
         UNCHANGED <<keyVars, granted>>, cmd' \in Commands,
         cmd'.r = "fail" <=> Failed(x), Failed(x) => cmd'.at = cmd.at
  PROVE  /\ GrantedOK' /\ ExchangeMifare /\ IInv' /\ ChipOK'
         /\ UNCHANGED <<type, SAK, chip>>
<1>1. cmd \in Commands /\ type = "MIFARE" /\ block \in Bytes
  BY Facts
<1>2. Worked(Link, x) /\ x.crypto = Link.crypto /\ x.sak = SAK
  BY LinkFields DEF Done, Worked
<1>3. /\ ExchangeMifare /\ IInv' /\ ChipOK'
      /\ type' = type /\ same' = same /\ crypto' = x.crypto
      /\ UNCHANGED <<card, noise, status, chip, SAK>>
      /\ x.pend \notin {"data", "value"} => mode' = x.mode /\ open' = x.open
  BY <1>1, <1>2, Facts, CommandLemma DEF MInv
<1>4. ASSUME granted # None
      PROVE  /\ cmd'.r # "fail" => mode' = "active" /\ crypto' /\ open' = granted
             /\ cmd'.r = "fail" => SessionSurvivesPolls'
  <2>1. /\ noise = 0 /\ block \in Memory(chip) /\ SectorOf(block) = granted
        /\ Link.mode = "active" /\ Link.crypto /\ Link.open = granted
        /\ chip # "UL" /\ SAK # "UL"
    BY <1>4, GrantedBusy
  <2>2. CASE ~Failed(x)
    <3>1. x.mode = "active" /\ x.open = granted /\ x.pend = "none"
      BY <2>1, <2>2, LinkFields DEF Done, Failed
    <3> QED  BY <1>2, <1>3, <2>1, <2>2, <3>1
  <2>3. CASE Failed(x)
    <3>1. cmd.at \in Bytes
      BY <1>1 DEF Commands
    <3>2. SectorOf(cmd.at) # SectorOf(block)
      BY <1>1, <2>1, <2>3, <3>1, SectorMates DEF Opened, Failed
    <3> QED  BY <2>1, <2>3, <3>2 DEF SessionSurvivesPolls
  <2> QED  BY <2>2, <2>3
<1>5. GrantedOK'
  BY <1>3, <1>4, GrantedAfter
<1> QED  BY <1>3, <1>5

LEMMA ReadBlockInv ==
  ASSUME MInv, ReadBlock
  PROVE  MInv' /\ ExchangeMifare
<1>1. PICK x \in mifare_block_read(cmd.at, Link) :
        /\ LeaveCard(x)
        /\ IF Failed(x) THEN cmd' = [cmd EXCEPT !.r = "fail", !.left = 0]
           ELSE Advance(x, IF SAK = "UL" THEN cmd.left ELSE 16)
  BY DEF ReadBlock
<1>2. cmd.op = "read" /\ cmd.r = "busy" /\ UNCHANGED <<keyVars, authen_need, granted>>
  BY DEF ReadBlock
<1>3. cmd # Idle /\ cmd \in Commands /\ type = "MIFARE"
  BY <1>2, Facts DEF Idle
<1>4. /\ Done(Link, {}, x) /\ x.misread = FALSE
      /\ noise = 0 /\ Opened(cmd.at, Link) => x.r = "ok"
  BY Facts, LinkFields, ReadLemma
<1>5. x.wrote = {}
  BY <1>4, LinkFields DEF Done
<1>10. SAK # "UL" /\ cmd.len = 16 => cmd.left = 16
  BY <1>2, <1>3 DEF MInv, LoopOK
<1>6. /\ cmd' \in Commands /\ cmd'.op = cmd.op /\ cmd'.len = cmd.len /\ cmd'.wrote = cmd.wrote
      /\ cmd'.r = "fail" <=> Failed(x)
      /\ SAK # "UL" /\ cmd'.r = "busy" => cmd'.len # 16
      /\ Failed(x) => cmd'.at = cmd.at
  <2>1. CASE Failed(x)
    <3>1. cmd.wrote \in SUBSET Bytes
      BY <1>3 DEF Commands
    <3>2. cmd' = [cmd EXCEPT !.r = "fail", !.left = 0, !.wrote = cmd.wrote]
      BY <1>1, <1>3, <2>1 DEF Commands
    <3> QED  BY <1>3, <2>1, <3>1, <3>2, FailFields
  <2>2. CASE ~Failed(x)
    <3> DEFINE step == IF SAK = "UL" THEN cmd.left ELSE 16
    <3>1. step \in Bytes /\ Advance(x, step) /\ x.wrote \subseteq Bytes
      BY <1>1, <1>3, <1>5, <2>2 DEF Commands, Bytes
    <3> HIDE DEF step
    <3>2. /\ cmd' \in Commands /\ cmd'.op = cmd.op /\ cmd'.len = cmd.len
          /\ cmd'.wrote = cmd.wrote \cup x.wrote
          /\ cmd'.left = (cmd.left - step) % 256
          /\ cmd'.r = IF cmd'.left = 0 THEN "ok" ELSE "busy"
      BY <1>3, <1>4, <3>1, AdvanceFields
    <3>4. SAK # "UL" => step = 16
      BY DEF step
    <3>5. SAK # "UL" /\ cmd'.len = 16 => cmd'.left = 0
      BY <1>10, <3>2, <3>4
    <3>3. SAK # "UL" /\ cmd'.r = "busy" => cmd'.len # 16
      BY <3>2, <3>5
    <3> QED  BY <1>5, <2>2, <3>2, <3>3
  <2> QED  BY <2>1, <2>2
<1>7. /\ GrantedOK' /\ ExchangeMifare /\ IInv' /\ ChipOK' /\ UNCHANGED <<type, SAK, chip>>
  BY <1>1, <1>2, <1>3, <1>4, <1>6, RoundGranted
<1>8. KeysOK'
  BY <1>2, <1>7 DEF MInv, KeysOK, keyVars
<1>11. cmd.wrote = {}
  BY <1>2, <1>3 DEF MInv, LoopOK
<1>9. LoopOK'
  BY <1>2, <1>3, <1>6, <1>7, <1>11 DEF LoopOK, SparesTrailers
<1> QED  BY <1>7, <1>8, <1>9 DEF MInv

LEMMA NextPlace ==
  ASSUME NEW a \in 0 .. 255, a # 255, NEW b \in 0 .. 255, NEW k \in 0 .. 255, a = b + k
  PROVE  (a + 1) % 256 = b + (k + 1) /\ b + (k + 1) - 1 = b + k /\ k + 1 \in 0 .. 255
OBVIOUS

LEMMA NextRest ==
  ASSUME NEW l \in 1 .. 255, NEW n \in 1 .. 256, NEW m \in Int, l = n - m
  PROVE  l = (n - m) % 256 /\ m < n
OBVIOUS

\* One block more has been written, or the command never ends well.
LEMMA RoundLemma ==
  ASSUME cmd \in Commands, InLoop, UNCHANGED SAK,
         IF SAK = "UL" THEN cmd.at <= 15 ELSE ~Wrapped,
         cmd'.len = cmd.len, cmd'.asked = cmd.asked, cmd'.at = (cmd.at + 1) % 256,
         cmd'.left = (cmd.left - Pace) % 256, cmd'.wrote = cmd.wrote \cup {cmd.at}
  PROVE  IF cmd'.left = 0 THEN cmd'.wrote = cmd'.asked ELSE InLoop'
<1>1. /\ cmd.at \in 0 .. 255 /\ cmd.left \in 0 .. 255 /\ cmd.len \in 0 .. 255
      /\ Size \in 1 .. 256 /\ Size' = Size
  BY DEF Commands, Bytes, Size
<1>2. Pace \in {4, 16} /\ Pace' = Pace /\ (SAK = "UL" <=> Pace = 4)
  BY DEF Pace
<1>3. CASE cmd.left % Pace # 0
  <2>1. CASE Pace = 4
    <3>1. cmd'.left % 4 # 0
      BY <1>1, <1>3, <2>1
    <3>2. cmd'.left # 0
      BY <3>1
    <3> QED  BY <1>2, <2>1, <3>1, <3>2 DEF InLoop
  <2>2. CASE Pace = 16
    <3>1. cmd'.left % 16 # 0
      BY <1>1, <1>3, <2>2
    <3>2. cmd'.left # 0
      BY <3>1
    <3> QED  BY <1>2, <2>2, <3>1, <3>2 DEF InLoop
  <2> QED  BY <1>2, <2>1, <2>2
<1>4. ASSUME NEW k \in Bytes, Rounds(k)
      PROVE  IF cmd'.left = 0 THEN cmd'.wrote = cmd'.asked ELSE InLoop'
  <2> DEFINE L == Size - Pace * k
  <2>1. k \in 0 .. 255 /\ cmd.left = L % 256 /\ Size % Pace = 0 /\ Pace * k < Size
    BY <1>4 DEF Rounds, Bytes
  <2>2. PICK b \in Bytes : /\ cmd.asked = b .. (b + (Size \div Pace) - 1)
                           /\ cmd.at = b + k /\ cmd.wrote = b .. (b + k - 1)
    BY <1>4 DEF Rounds
  <2>3. b \in 0 .. 255
    BY DEF Bytes
  <2>4. /\ L \in Pace .. 256 /\ L - Pace = Size - Pace * (k + 1)
        /\ L = Pace => Size \div Pace = k + 1
    <3>1. CASE Pace = 4
      <4>1. Size = 4 * (Size \div 4) /\ Size \div 4 \in Int
        BY <1>1, <2>1, <3>1
      <4>2. L = 4 * ((Size \div 4) - k) /\ L > 0
        BY <1>1, <2>1, <3>1, <4>1
      <4> QED  BY <1>1, <2>1, <3>1, <4>1, <4>2
    <3>2. CASE Pace = 16
      <4>1. Size = 16 * (Size \div 16) /\ Size \div 16 \in Int
        BY <1>1, <2>1, <3>2
      <4>2. L = 16 * ((Size \div 16) - k) /\ L > 0
        BY <1>1, <2>1, <3>2, <4>1
      <4> QED  BY <1>1, <2>1, <3>2, <4>1, <4>2
    <3> QED  BY <1>2, <3>1, <3>2
  <2> HIDE DEF L
  <2>5. cmd'.left = L - Pace
    <3>1. CASE L = 256
      BY <1>2, <2>1, <3>1
    <3>2. CASE L # 256
      <4>1. cmd.left = L
        BY <1>2, <2>1, <2>4, <3>2
      <4> QED  BY <1>2, <2>4, <3>2, <4>1
    <3> QED  BY <3>1, <3>2
  <2>6. cmd'.wrote = b .. (b + k)
    <3> DEFINE e == b + k
    <3>1. e \in Int /\ e >= b /\ b + k - 1 = e - 1 /\ b \in Int
      BY <2>1, <2>3
    <3>2. cmd'.wrote = (b .. (e - 1)) \cup {e}
      BY <2>2, <3>1
    <3> HIDE DEF e
    <3>3. (b .. (e - 1)) \cup {e} = b .. e
      BY <3>1
    <3> QED  BY <3>2, <3>3 DEF e
  <2>7. CASE cmd'.left = 0
    <3>1. L = Pace
      BY <1>2, <2>4, <2>5, <2>7
    <3>2. b + (k + 1) - 1 = b + k
      BY <2>1, <2>3
    <3>3. cmd'.asked = b .. (b + k)
      BY <2>2, <2>4, <3>1, <3>2
    <3> QED  BY <2>6, <2>7, <3>3
  <2>8. CASE cmd'.left # 0 /\ cmd.at = 255
    <3>1. SAK # "UL" /\ cmd'.at = 0
      BY <1>1, <2>8
    <3>2. Wrapped'
      BY <2>8, <3>1 DEF Wrapped
    <3> QED  BY <2>8, <3>2 DEF InLoop
  <2>9. CASE cmd'.left # 0 /\ cmd.at # 255
    <3>1. cmd'.at = b + (k + 1) /\ b + (k + 1) - 1 = b + k /\ k + 1 \in Bytes
      <4> DEFINE a == cmd.at
      <4>1. a \in 0 .. 255 /\ a # 255 /\ a = b + k /\ k \in 0 .. 255 /\ cmd'.at = (a + 1) % 256
        BY <1>1, <2>1, <2>2, <2>9
      <4> HIDE DEF a
      <4>2. (a + 1) % 256 = b + (k + 1) /\ b + (k + 1) - 1 = b + k /\ k + 1 \in 0 .. 255
        BY <2>3, <4>1, NextPlace
      <4> QED  BY <4>1, <4>2 DEF Bytes
    <3> DEFINE n == k + 1
               m == Pace * n
    <3>7. cmd'.left \in 1 .. 255
      BY <1>2, <2>4, <2>5, <2>9
    <3>2. /\ cmd'.left = Size - m
          /\ cmd'.at = b + n /\ cmd'.wrote = b .. (b + n - 1) /\ n \in Bytes
      BY <2>4, <2>5, <2>6, <3>1
    <3>4. m \in Int
      BY <1>2, <2>1
    <3> HIDE DEF m
    <3>8. cmd'.left = (Size - m) % 256 /\ m < Size
      BY <1>1, <3>2, <3>4, <3>7, NextRest
    <3> HIDE DEF n
    <3>5. cmd'.left = (Size - Pace * n) % 256 /\ Pace * n < Size
      BY <3>8 DEF m
    <3>6. Rounds(n)'
      BY <1>1, <1>2, <2>1, <2>2, <3>2, <3>5 DEF Rounds
    <3> QED  BY <2>9, <3>2, <3>6 DEF InLoop
  <2> QED  BY <2>7, <2>8, <2>9
<1> QED  BY <1>3, <1>4 DEF InLoop, Wrapped

\* The block after the last of all is in another sector than that one.
LEMMA WrapLemma ==
  ASSUME block \in Bytes, mifare_block_check(0, 0, FALSE)
  PROVE  ~mifare_block_check(255, 255, FALSE)
<1>1. /\ 0 \div 16 = 0 /\ 0 \div 4 = 0 /\ 255 \div 16 = 15 /\ 255 \div 4 = 63
  OBVIOUS
<1> QED  BY <1>1 DEF mifare_block_check

LEMMA WriteBlockInv ==
  ASSUME MInv, WriteBlock
  PROVE  MInv' /\ ExchangeMifare
<1>1. PICK x \in mifare_block_write(cmd.at, Link) :
        /\ LeaveCard(x)
        /\ IF Failed(x) THEN cmd' = [cmd EXCEPT !.r = "fail", !.left = 0, !.wrote = @ \cup x.wrote]
           ELSE Advance(x, IF SAK = "UL" THEN 4 ELSE 16)
  BY DEF WriteBlock
<1>2. /\ cmd.op = "write" /\ cmd.r = "busy" /\ InSector
      /\ UNCHANGED <<keyVars, authen_need, granted>>
  BY DEF WriteBlock
<1>3. /\ cmd # Idle /\ cmd \in Commands /\ type = "MIFARE" /\ cmd.at \in Bytes
      /\ block \in Bytes
  BY <1>2, Facts DEF Idle, Commands
<1>4. /\ Done(Link, {cmd.at}, x)
      /\ SAK = "UL" /\ x.r = "ok" /\ ~x.misread => chip = "UL"
      /\ noise = 0 /\ SAK # "UL" /\ Opened(cmd.at, Link) => x.r = "ok"
  BY Facts, LinkFields, WriteLemma
<1>5. /\ x.wrote \subseteq {cmd.at} /\ x.wrote \subseteq Bytes /\ cmd.wrote \in SUBSET Bytes
      /\ x.misread \in BOOLEAN /\ (noise = 0 => x.misread = FALSE)
  BY <1>3, <1>4, LinkFields DEF Done, Worked, OpenOK, Wide, Commands
<1>6. /\ cmd' \in Commands /\ cmd'.op = cmd.op /\ cmd'.len = cmd.len /\ cmd'.asked = cmd.asked
      /\ cmd'.wrote = cmd.wrote \cup x.wrote
      /\ Failed(x) => cmd'.at = cmd.at /\ cmd'.r = "fail"
      /\ ~Failed(x) => /\ cmd'.at = (cmd.at + 1) % 256 /\ cmd'.left = (cmd.left - Pace) % 256
                       /\ cmd'.r = IF cmd'.left = 0 THEN "ok" ELSE "busy"
                       /\ cmd'.misread = (cmd.misread \/ x.misread)
  <2>1. CASE Failed(x)
    <3> DEFINE s == cmd.wrote \cup x.wrote
    <3>1. s \in SUBSET Bytes /\ cmd' = [cmd EXCEPT !.r = "fail", !.left = 0, !.wrote = s]
      BY <1>1, <1>5, <2>1
    <3> HIDE DEF s
    <3>2. /\ cmd' \in Commands /\ cmd'.op = cmd.op /\ cmd'.len = cmd.len /\ cmd'.at = cmd.at
          /\ cmd'.asked = cmd.asked /\ cmd'.wrote = s /\ cmd'.r = "fail"
      BY <1>3, <3>1, FailFields
    <3> QED  BY <2>1, <3>2 DEF s
  <2>2. CASE ~Failed(x)
    <3>1. Pace \in Bytes /\ Advance(x, Pace)
      BY <1>1, <2>2 DEF Pace, Bytes
    <3> QED  BY <1>3, <1>5, <2>2, <3>1, AdvanceFields
  <2> QED  BY <2>1, <2>2
<1>7. GrantedOK' /\ ExchangeMifare /\ IInv' /\ ChipOK' /\ UNCHANGED <<type, SAK, chip>>
  BY <1>1, <1>2, <1>3, <1>4, <1>5, <1>6, RoundGranted
<1>8. KeysOK' /\ block' = block
  BY <1>2, <1>7 DEF MInv, KeysOK, keyVars
<1>9. SAK # "UL" => /\ Multi => ~Trailer(cmd.at)
                    /\ mifare_block_check(cmd.at, cmd.at, FALSE)
  BY <1>2 DEF InSector, mifare_block_check
<1>10. /\ SparesTrailers
       /\ SAK # "UL" =>
            /\ cmd.len = 16 => cmd.asked = {cmd.at} /\ cmd.left = 16
            /\ \A b \in cmd.wrote : mifare_block_check(b, b, FALSE)
       /\ ~cmd.misread => InLoop
  BY <1>2, <1>3 DEF MInv, LoopOK
<1>11. SparesTrailers'
  <2>1. SUFFICES ASSUME SAK # "UL", NEW b \in cmd'.wrote, Trailer(b)
                 PROVE  cmd'.asked = {b} \/ cmd'.len < 16
    BY <1>7 DEF SparesTrailers, Trailer
  <2>2. CASE b \in cmd.wrote
    BY <1>3, <1>6, <1>10, <2>1, <2>2 DEF SparesTrailers
  <2>3. CASE b = cmd.at
    <3>1. cmd.len \in 0 .. 255 /\ ~(cmd.len > 16)
      BY <1>3, <1>9, <2>1, <2>3 DEF Multi, Commands, Bytes
    <3> QED  BY <1>6, <1>10, <2>1, <2>3, <3>1
  <2> QED  BY <1>5, <1>6, <2>2, <2>3
<1>12. cmd'.r = "busy" /\ SAK # "UL" =>
         /\ cmd'.len # 16
         /\ \A b \in cmd'.wrote : mifare_block_check(b, b, FALSE)'
  <2>1. SUFFICES ASSUME cmd'.r = "busy", SAK # "UL"
                 PROVE  /\ cmd'.len # 16
                        /\ \A b \in cmd'.wrote : mifare_block_check(b, b, FALSE)'
    OBVIOUS
  <2>2. ~Failed(x) /\ cmd'.left # 0 /\ cmd'.left = (cmd.left - 16) % 256
    BY <1>6, <2>1 DEF Pace
  <2>3. cmd'.len # 16
    BY <1>6, <1>10, <2>1, <2>2
  <2>4. ASSUME NEW b \in cmd'.wrote
        PROVE  mifare_block_check(b, b, FALSE)'
    <3>1. mifare_block_check(b, b, FALSE)
      BY <1>5, <1>6, <1>9, <1>10, <2>1
    <3> QED  BY <1>8, <3>1 DEF mifare_block_check
  <2> QED  BY <2>3, <2>4
<1>13. ~cmd'.misread =>
         /\ cmd'.r = "busy" => InLoop'
         /\ cmd'.r = "ok" => cmd'.wrote = cmd'.asked
  <2>1. CASE Failed(x)
    BY <1>6, <2>1
  <2>2. CASE ~Failed(x)
    <3>1. SUFFICES ASSUME ~cmd.misread, ~x.misread
                   PROVE  IF cmd'.left = 0 THEN cmd'.wrote = cmd'.asked ELSE InLoop'
      BY <1>6, <2>2
    <3>2. x.wrote = {cmd.at} /\ cmd.at \in Memory(chip)
      BY <1>4, <2>2, <3>1, LinkFields DEF Done, Failed
    <3>3. SAK = "UL" => cmd.at <= 15
      BY <1>4, <2>2, <3>1, <3>2 DEF Memory, Failed
    <3>4. SAK # "UL" => ~Wrapped
      BY <1>3, <1>9, <1>10, WrapLemma DEF Wrapped
    <3>5. cmd'.wrote = cmd.wrote \cup {cmd.at}
      BY <1>6, <3>2
    <3> QED  BY <1>3, <1>6, <1>7, <1>10, <2>2, <3>1, <3>3, <3>4, <3>5, RoundLemma
  <2> QED  BY <2>1, <2>2
<1>14. LoopOK'
  BY <1>2, <1>3, <1>6, <1>7, <1>11, <1>12, <1>13 DEF LoopOK
<1> QED  BY <1>7, <1>8, <1>14 DEF MInv

\* A command of one block: W is what its work writes.
LEMMA SingleInv ==
  ASSUME MInv, cmd = Idle, type = "MIFARE", SAK # "UL",
         NEW op \in {"read", "write"}, NEW src \in Bytes, NEW des \in Bytes,
         NEW W, W = IF op = "read" THEN {} ELSE {des},
         NEW x \in Prepared(Link), authen_need' = NeedAfter(x),
         NEW y, LeaveCard(y),
         IF mifare_block_check(src, des, FALSE)
         THEN /\ Done(x, W, y)
              /\ noise = 0 /\ Opened(src, x) /\ Opened(des, x) => y.r = "ok"
         ELSE y = [x EXCEPT !.r = "fail"],
         cmd' = [op |-> op, at |-> src, left |-> 0, len |-> 16, asked |-> {des},
                 wrote |-> y.wrote,
                        misread |-> y.misread, r |-> IF Failed(y) THEN "fail" ELSE "ok"],
         UNCHANGED <<keyVars, granted>>
  PROVE  MInv' /\ ExchangeMifare
<1>1. Worked(Link, x) /\ OpenOK(x) /\ x.pend = "none" /\ x.wrote = {}
      /\ x.misread = FALSE /\ x.sak = SAK
  BY LinkFields, Facts, PreparedLemma DEF Worked
<1>2. /\ Worked(x, y) /\ y.crypto = x.crypto /\ y.wrote \subseteq W
      /\ noise = 0 => y.misread = FALSE
      /\ y.r = "ok" /\ ~y.misread =>
           y.mode = "active" /\ y.open = x.open /\ y.pend = "none" /\ y.wrote = W
      /\ y.sak = SAK /\ y.misread \in BOOLEAN
  <2>1. CASE mifare_block_check(src, des, FALSE)
    BY <1>1, <2>1 DEF Done, Worked, OpenOK, Wide
  <2>2. CASE ~mifare_block_check(src, des, FALSE)
    <3> DEFINE z == [x EXCEPT !.r = "fail"]
    <3>1. y = z
      BY <2>2
    <3>2. Worked(x, z) /\ Beside(x, z) /\ z.r = "fail"
      BY <1>1, ResultLemma DEF Replies
    <3> HIDE DEF z
    <3> QED  BY <1>1, <3>1, <3>2 DEF Beside
  <2> QED  BY <2>1, <2>2
<1>3. Worked(Link, y)
  BY <1>1, <1>2, WorkedAgain
<1>4. /\ ExchangeMifare /\ IInv' /\ ChipOK'
      /\ type' = type /\ same' = same /\ crypto' = y.crypto
      /\ UNCHANGED <<card, noise, status, chip, SAK>>
      /\ y.pend \notin {"data", "value"} => mode' = y.mode /\ open' = y.open
  BY <1>2, <1>3, Facts, CommandLemma DEF MInv
<1>5. KeysOK'
  BY <1>4 DEF KeysOK, MInv, keyVars, NeedAfter
<1> DEFINE r == IF Failed(y) THEN "fail" ELSE "ok"
           s == y.wrote
           g == y.misread
           c == [op |-> op, at |-> src, left |-> 0, len |-> 16, asked |-> {des},
                 wrote |-> s, misread |-> g, r |-> r]
<1>6. /\ r \in {"busy", "ok", "fail"} /\ s \in SUBSET Bytes /\ {des} \in SUBSET Int
      /\ g \in BOOLEAN
  BY <1>2 DEF Bytes
<1>7. cmd' = c
  OBVIOUS
<1>8. r = IF Failed(y) THEN "fail" ELSE "ok"
  OBVIOUS
<1> HIDE DEF r, s, g
<1>9. 0 \in Bytes /\ 16 \in Bytes
  BY DEF Bytes
<1>10. /\ c \in Commands /\ c.op = op /\ c.at = src /\ c.len = 16 /\ c.asked = {des}
       /\ c.wrote = s /\ c.r = r /\ c.misread = g
  BY <1>6, <1>9 DEF Commands
<1> HIDE DEF c
<1>11. LoopOK'
  <2>1. op = "read" => s = {}
    BY <1>2 DEF s
  <2>2. op = "write" /\ r = "ok" /\ ~g => s = {des}
    BY <1>2, <1>8 DEF Failed, s, g
  <2>3. r # "busy"
    BY <1>8
  <2>4. s \subseteq {des}
    BY <1>2 DEF s
  <2>5. SparesTrailers'
    BY <1>7, <1>10, <2>4 DEF SparesTrailers
  <2> QED  BY <1>4, <1>7, <1>10, <2>1, <2>2, <2>3, <2>5 DEF LoopOK
<1>12. ASSUME granted # None
       PROVE  /\ cmd'.r # "fail" => mode' = "active" /\ crypto' /\ open' = granted
              /\ cmd'.r = "fail" => SessionSurvivesPolls'
  <2>1. Opened(block, x)
    BY <1>12, PreparedOpens
  <2>2. noise = 0 /\ SectorOf(block) = granted /\ block \in Bytes
    BY <1>12, Facts DEF MInv, GrantedOK
  <2>3. CASE ~Failed(y)
    BY <1>2, <1>4, <1>7, <1>8, <1>10, <2>1, <2>2, <2>3 DEF Failed, Opened
  <2>4. CASE Failed(y)
    <3>1. ~(SectorOf(src) = SectorOf(block) /\ SectorOf(des) = SectorOf(block))
      <4>1. SUFFICES ASSUME SectorOf(src) = SectorOf(block), SectorOf(des) = SectorOf(block)
                     PROVE  FALSE
        OBVIOUS
      <4>2. mifare_block_check(src, des, FALSE)
        BY <2>2, <4>1, BlockCheckLemma
      <4>3. Opened(src, x) /\ Opened(des, x)
        BY <2>1, <2>2, <4>1, SectorMates DEF Opened
      <4> QED  BY <2>2, <2>4, <4>2, <4>3 DEF Failed
    <3>2. ~(\A b \in cmd'.asked \cup {cmd'.at} : SectorOf(b) = granted')
      BY <1>7, <1>10, <2>2, <3>1
    <3>3. ~SessionSurvivesPolls' => \A b \in cmd'.asked \cup {cmd'.at} : SectorOf(b) = granted'
      BY DEF SessionSurvivesPolls, SectorOf
    <3> QED  BY <1>7, <1>8, <1>10, <2>4, <3>2, <3>3
  <2> QED  BY <2>3, <2>4
<1>13. GrantedOK'
  BY <1>4, <1>7, <1>10, <1>12, GrantedAfter
<1> QED  BY <1>4, <1>5, <1>11, <1>13 DEF MInv

LEMMA ReadValueInv ==
  ASSUME MInv, NEW b \in Blocks, ReadValue(b)
  PROVE  MInv' /\ ExchangeMifare
<1>1. PICK x \in Prepared(Link) :
        /\ authen_need' = NeedAfter(x)
        /\ \E y \in IF mifare_block_check(b, b, FALSE) THEN mifare_block_read(b, x)
                     ELSE {[x EXCEPT !.r = "fail"]} :
             /\ LeaveCard(y)
             /\ cmd' = [op |-> "read", at |-> b, left |-> 0, len |-> 16, asked |-> {b},
                        wrote |-> y.wrote,
                        misread |-> y.misread, r |-> IF Failed(y) THEN "fail" ELSE "ok"]
  BY DEF ReadValue, Single
<1>2. PICK y \in IF mifare_block_check(b, b, FALSE) THEN mifare_block_read(b, x)
                  ELSE {[x EXCEPT !.r = "fail"]} :
        /\ LeaveCard(y)
        /\ cmd' = [op |-> "read", at |-> b, left |-> 0, len |-> 16, asked |-> {b},
                   wrote |-> y.wrote,
                        misread |-> y.misread, r |-> IF Failed(y) THEN "fail" ELSE "ok"]
  BY <1>1
<1>3. cmd = Idle /\ type = "MIFARE" /\ SAK # "UL" /\ UNCHANGED <<keyVars, granted>>
  BY DEF ReadValue, Single, Ready
<1>4. OpenOK(x) /\ x.pend = "none" /\ noise \in Nat /\ b \in Bytes
  BY <1>3, Facts, PreparedLemma, BlocksAssumption DEF Worked, Bytes
<1>5. IF mifare_block_check(b, b, FALSE)
      THEN Done(x, {}, y) /\ (noise = 0 /\ Opened(b, x) /\ Opened(b, x) => y.r = "ok")
      ELSE y = [x EXCEPT !.r = "fail"]
  BY <1>2, <1>4, ReadLemma
<1> DEFINE W == {}
<1>6. W = IF "read" = "read" THEN {} ELSE {b}
  OBVIOUS
<1> QED  BY <1>1, <1>2, <1>3, <1>4, <1>5, <1>6, SingleInv

LEMMA StoreValueInv ==
  ASSUME MInv, NEW b \in Blocks, StoreValue(b)
  PROVE  MInv' /\ ExchangeMifare
<1>1. PICK x \in Prepared(Link) :
        /\ authen_need' = NeedAfter(x)
        /\ \E y \in IF mifare_block_check(b, b, FALSE)
                   THEN mifare_block_write(b, x)
                   ELSE {[x EXCEPT !.r = "fail"]} :
             /\ LeaveCard(y)
             /\ cmd' = [op |-> "write", at |-> b, left |-> 0, len |-> 16, asked |-> {b},
                        wrote |-> y.wrote,
                        misread |-> y.misread, r |-> IF Failed(y) THEN "fail" ELSE "ok"]
  BY DEF StoreValue, Single
<1>2. PICK y \in IF mifare_block_check(b, b, FALSE)
                THEN mifare_block_write(b, x)
                ELSE {[x EXCEPT !.r = "fail"]} :
        /\ LeaveCard(y)
        /\ cmd' = [op |-> "write", at |-> b, left |-> 0, len |-> 16, asked |-> {b},
                   wrote |-> y.wrote,
                        misread |-> y.misread, r |-> IF Failed(y) THEN "fail" ELSE "ok"]
  BY <1>1
<1>3. cmd = Idle /\ type = "MIFARE" /\ SAK # "UL" /\ UNCHANGED <<keyVars, granted>>
  BY DEF StoreValue, Single, Ready
<1>4. OpenOK(x) /\ x.pend = "none" /\ noise \in Nat /\ b \in Bytes
  BY <1>3, Facts, PreparedLemma, BlocksAssumption DEF Worked, Bytes
<1>5. IF mifare_block_check(b, b, FALSE)
      THEN Done(x, {b}, y) /\ (noise = 0 /\ Opened(b, x) /\ Opened(b, x) => y.r = "ok")
      ELSE y = [x EXCEPT !.r = "fail"]
  BY <1>2, <1>3, <1>4, WriteLemma
<1> DEFINE W == {b}
<1>6. W = IF "write" = "read" THEN {} ELSE {b}
  OBVIOUS
<1> QED  BY <1>1, <1>2, <1>3, <1>4, <1>5, <1>6, SingleInv

LEMMA CountValueInv ==
  ASSUME MInv, NEW b \in Blocks, CountValue(b)
  PROVE  MInv' /\ ExchangeMifare
<1>1. PICK x \in Prepared(Link) :
        /\ authen_need' = NeedAfter(x)
        /\ \E y \in IF mifare_block_check(b, b, FALSE)
                   THEN ThenTransfer(mifare_inc_dec("COUNT", b, x), b)
                   ELSE {[x EXCEPT !.r = "fail"]} :
             /\ LeaveCard(y)
             /\ cmd' = [op |-> "write", at |-> b, left |-> 0, len |-> 16, asked |-> {b},
                        wrote |-> y.wrote,
                        misread |-> y.misread, r |-> IF Failed(y) THEN "fail" ELSE "ok"]
  BY DEF CountValue, Single
<1>2. PICK y \in IF mifare_block_check(b, b, FALSE)
                THEN ThenTransfer(mifare_inc_dec("COUNT", b, x), b)
                ELSE {[x EXCEPT !.r = "fail"]} :
        /\ LeaveCard(y)
        /\ cmd' = [op |-> "write", at |-> b, left |-> 0, len |-> 16, asked |-> {b},
                   wrote |-> y.wrote,
                        misread |-> y.misread, r |-> IF Failed(y) THEN "fail" ELSE "ok"]
  BY <1>1
<1>3. cmd = Idle /\ type = "MIFARE" /\ SAK # "UL" /\ UNCHANGED <<keyVars, granted>>
  BY DEF CountValue, Single, Ready
<1>4. OpenOK(x) /\ x.pend = "none" /\ noise \in Nat /\ b \in Bytes
  BY <1>3, Facts, PreparedLemma, BlocksAssumption DEF Worked, Bytes
<1>5. IF mifare_block_check(b, b, FALSE)
      THEN Done(x, {b}, y) /\ (noise = 0 /\ Opened(b, x) /\ Opened(b, x) => y.r = "ok")
      ELSE y = [x EXCEPT !.r = "fail"]
  BY <1>2, <1>4, TransferLemma
<1> DEFINE W == {b}
<1>6. W = IF "write" = "read" THEN {} ELSE {b}
  OBVIOUS
<1> QED  BY <1>1, <1>2, <1>3, <1>4, <1>5, <1>6, SingleInv

LEMMA RestoreValueInv ==
  ASSUME MInv, NEW b \in Blocks, NEW c \in Blocks, RestoreValue(b, c)
  PROVE  MInv' /\ ExchangeMifare
<1>1. PICK x \in Prepared(Link) :
        /\ authen_need' = NeedAfter(x)
        /\ \E y \in IF mifare_block_check(b, c, FALSE)
                   THEN ThenTransfer(mifare_inc_dec("COUNT", b, x), c)
                   ELSE {[x EXCEPT !.r = "fail"]} :
             /\ LeaveCard(y)
             /\ cmd' = [op |-> "write", at |-> b, left |-> 0, len |-> 16, asked |-> {c},
                        wrote |-> y.wrote,
                        misread |-> y.misread, r |-> IF Failed(y) THEN "fail" ELSE "ok"]
  BY DEF RestoreValue, Single
<1>2. PICK y \in IF mifare_block_check(b, c, FALSE)
                THEN ThenTransfer(mifare_inc_dec("COUNT", b, x), c)
                ELSE {[x EXCEPT !.r = "fail"]} :
        /\ LeaveCard(y)
        /\ cmd' = [op |-> "write", at |-> b, left |-> 0, len |-> 16, asked |-> {c},
                   wrote |-> y.wrote,
                        misread |-> y.misread, r |-> IF Failed(y) THEN "fail" ELSE "ok"]
  BY <1>1
<1>3. cmd = Idle /\ type = "MIFARE" /\ SAK # "UL" /\ UNCHANGED <<keyVars, granted>>
  BY DEF RestoreValue, Single, Ready
<1>4. OpenOK(x) /\ x.pend = "none" /\ noise \in Nat /\ b \in Bytes /\ c \in Bytes
  BY <1>3, Facts, PreparedLemma, BlocksAssumption DEF Worked, Bytes
<1>5. IF mifare_block_check(b, c, FALSE)
      THEN Done(x, {c}, y) /\ (noise = 0 /\ Opened(b, x) /\ Opened(c, x) => y.r = "ok")
      ELSE y = [x EXCEPT !.r = "fail"]
  BY <1>2, <1>4, TransferLemma
<1> DEFINE W == {c}
<1>6. W = IF "write" = "read" THEN {} ELSE {c}
  OBVIOUS
<1> QED  BY <1>1, <1>2, <1>3, <1>4, <1>5, <1>6, SingleInv

LEMMA ReplyInv ==
  ASSUME MInv, Reply
  PROVE  MInv' /\ UNCHANGED vars
<1>1. /\ cmd.op # "none" /\ cmd.r \in {"ok", "fail"} /\ cmd' = Idle
      /\ granted' = IF cmd.r = "ok" THEN granted ELSE None
      /\ UNCHANGED vars
      /\ UNCHANGED <<keyVars, authen_need, SAK, crypto, chip, open>>
  BY DEF Reply
<1>2. cmd # Idle
  BY <1>1 DEF Idle
<1>3. IInv' /\ KeysOK' /\ ChipOK'
  BY <1>1, StutterInv, ChipKept DEF MInv, KeysOK, keyVars, Sectors
<1>4. LoopOK'
  BY <1>1 DEF LoopOK
<1>5. GrantedOK'
  <2>1. CASE granted' = None
    BY <2>1, NotGranted
  <2>2. CASE granted' # None
    <3>1. cmd.r = "ok" /\ granted' = granted /\ granted # None
      BY <1>1, <2>2
    <3>2. /\ noise = 0 /\ same /\ type = "MIFARE" /\ chip # "UL" /\ SAK # "UL" /\ KeyUsable
          /\ work_key = CardKey /\ block \in Memory(chip) /\ SectorOf(block) = granted
          /\ mode = "active" /\ crypto /\ open = granted
      BY <1>2, <3>1 DEF MInv, GrantedOK
    <3>3. KeyUsable' /\ block \in Memory(chip)' /\ SessionSurvivesPolls'
      BY <1>1, <3>2 DEF KeyUsable, keyVars, Memory, SessionSurvivesPolls
    <3> QED  BY <1>1, <3>1, <3>2, <3>3 DEF GrantedOK, keyVars, vars
  <2> QED  BY <2>1, <2>2
<1> QED  BY <1>1, <1>3, <1>4, <1>5 DEF MInv

-----------------------------------------------------------------------------
(* Polls, power and what happens to the reader.                            *)

\* The link of the next state.
LEMMA NextLink ==
  ASSUME TypeOK', crypto' \in BOOLEAN, open' \in Sectors, SAK' \in Chips \cup {"none", "UL"},
         open' # None => mode' = "active" /\ type' = "MIFARE",
         mode' = "active" /\ type' = "MIFARE" => same',
         same' /\ type' = "MIFARE" =>
           SAK' \in {chip', "UL"} /\ (states' = "SELECTED" => SAK' = chip')
  PROVE  OpenOK(Link)'
<1> DEFINE l == [antenna |-> antenna', mode |-> mode', same |-> same', states |-> states',
                 type |-> type', r |-> "ok", lost |-> 0, sak |-> SAK', open |-> open',
                 crypto |-> crypto', pend |-> "none", wrote |-> {}, misread |-> FALSE]
<1>1. Link' = l
  BY DEF Link
<1>2. /\ l \in Wide /\ l.mode = mode' /\ l.same = same' /\ l.type = type' /\ l.open = open'
      /\ l.pend = "none" /\ l.sak = SAK' /\ l.states = states'
  BY DEF Wide, TypeOK, Types, Replies
<1> HIDE DEF l
<1>3. Wide' = Wide
  BY DEF Wide
<1> QED  BY <1>1, <1>2, <1>3 DEF OpenOK

LEMMA PollCard ==
  ASSUME Poll
  PROVE  UNCHANGED <<card, noise>>
BY DEF Poll, PollFirst, PollAgain, Leave

LEMMA PollInv ==
  ASSUME IInv, Poll
  PROVE  IInv'
BY PollFirstInv, PollAgainInv DEF Poll

\* A MIFARE card that is still there after the check has been selected.
LEMMA CheckedActive ==
  ASSUME NEW w, LinkOK(w), w.type = "MIFARE", NEW c \in CheckCard(w), c.still
  PROVE  c.link.mode = "active" /\ c.link.same /\ c.link.type = "MIFARE"
<1> DEFINE r == picc_reset(w)
<1>1. PICK x \in OrAgain(mifare_select, picc_reset(w)) : c = [link |-> x, still |-> ~Failed(x)]
  BY DEF CheckCard, Checked, TCL
<1>2. LinkOK(r) /\ r.type = "MIFARE"
  BY ResetLemma
<1>3. x \in OrAgain(mifare_select, r)
  BY <1>1
<1> HIDE DEF r
<1>4. x.r = "ok" /\ c.link = x
  BY <1>1 DEF Failed
<1>5. PICK y \in mifare_select(r) : x \in IF Failed(y) THEN mifare_select(y) ELSE {y}
  BY <1>3 DEF OrAgain, Then
<1>6. LinkOK(y) /\ y.type = "MIFARE" /\ (y.r = "ok" => y.same /\ y.mode = "active")
  BY <1>2, <1>5, MifareLemma DEF Step, Keeps
<1>7. CASE Failed(y)
  <2>1. x \in mifare_select(y)
    BY <1>5, <1>7
  <2> QED  BY <1>4, <1>6, <2>1, MifareLemma DEF Step, Keeps
<1>8. CASE ~Failed(y)
  BY <1>4, <1>5, <1>6, <1>8
<1> QED  BY <1>7, <1>8

\* A sector that a host has opened is not lost to a poll.
LEMMA PollGranted ==
  ASSUME MInv, PollMifare
  PROVE  GrantedOK'
<1>1. /\ cmd = Idle /\ Poll
      /\ UNCHANGED <<mifare_key, work_key, key_No, block, chip, cmd, granted>>
      /\ authen_need' = (authen_need \/ (Present /\ type = "MIFARE" /\ "PRESENT" \in status'))
      /\ key_valid' = IF ~Present /\ type' = "ABSENT" THEN {} ELSE key_valid
      /\ crypto' = (crypto /\ Present /\ type # "MIFARE") /\ open' = None
      /\ SAK' = IF same' THEN chip ELSE SAK
  BY DEF PollMifare, Polled
<1>2. CASE granted = None
  BY <1>1, <1>2, NotGranted
<1>3. CASE granted # None
  <2>1. /\ noise = 0 /\ same /\ type = "MIFARE" /\ chip # "UL" /\ KeyUsable /\ work_key = CardKey
        /\ block \in Memory(chip) /\ SectorOf(block) = granted /\ mode = "active"
    BY <1>1, <1>3 DEF MInv, GrantedOK
  <2>2. /\ IInv /\ LinkOK(Here) /\ SessionOK(Here) /\ Here.type = type
    BY HereLemma DEF MInv
  <2>3. Known /\ Present /\ antenna /\ type = card
    BY <2>1, <2>2 DEF IInv, ShownIsKnown, Known, AllKinds
  <2>4. PollAgain
    BY <1>1, <2>3 DEF Poll, PollFirst
  <2>5. Findable
    BY <2>1 DEF Findable
  <2>6. "PRESENT" \in status'
    BY <2>1, <2>2, <2>3, <2>4, <2>5, KeepsCard
  <2>7. PICK c \in CheckCard(Here) :
          IF c.still
          THEN Leave(c.link) /\ Notify(status)
          ELSE Leave(Absent(TurnOff(c.link))) /\ Notify((status \ Shown) \cup {"SLOT_CHANGE"})
    BY <2>4 DEF PollAgain
  <2>8. c.still
    BY <2>6, <2>7 DEF Notify, Shown
  <2>9. c.link.mode = "active" /\ c.link.same /\ c.link.type = "MIFARE"
    BY <2>1, <2>2, <2>8, CheckedActive
  <2>10. mode' = "active" /\ same' /\ type' = "MIFARE" /\ noise' = noise
    BY <2>7, <2>8, <2>9 DEF Leave
  <2>11. /\ authen_need' /\ ~crypto' /\ key_valid' = key_valid /\ block \in Memory(chip)'
    BY <1>1, <2>1, <2>3, <2>6 DEF Memory
  <2>12. SessionSurvivesPolls' /\ KeyUsable'
    BY <1>1, <2>1, <2>11 DEF SessionSurvivesPolls, KeyUsable
  <2> QED  BY <1>1, <2>1, <2>10, <2>11, <2>12 DEF GrantedOK
<1> QED  BY <1>2, <1>3

LEMMA PollMifareInv ==
  ASSUME MInv, PollMifare
  PROVE  MInv' /\ Poll
<1>1. /\ cmd = Idle /\ Poll
      /\ UNCHANGED <<mifare_key, work_key, key_No, block, chip, cmd, granted>>
      /\ authen_need' = (authen_need \/ (Present /\ type = "MIFARE" /\ "PRESENT" \in status'))
      /\ key_valid' = IF ~Present /\ type' = "ABSENT" THEN {} ELSE key_valid
      /\ crypto' = (crypto /\ Present /\ type # "MIFARE") /\ open' = None
      /\ SAK' = IF same' THEN chip ELSE SAK
  BY DEF PollMifare, Polled
<1>2. IInv' /\ TypeOK'
  BY <1>1, PollInv DEF MInv, IInv
<1>3. KeysOK' /\ SAK' \in Chips \cup {"none", "UL"}
  BY <1>1 DEF MInv, KeysOK
<1>4. type' = "MIFARE" => same'
  BY <1>1, HereLemma, TellsApart DEF MInv, Certain
<1>5. crypto' \in BOOLEAN /\ open' \in Sectors
  BY <1>1 DEF MInv, ChipOK, OpenOK, Wide, Sectors
<1>6. OpenOK(Link)'
  BY <1>1, <1>2, <1>3, <1>4, <1>5, NextLink
<1>7. ChipOK'
  BY <1>1, <1>6, PollCard DEF MInv, ChipOK
<1>8. LoopOK'
  BY <1>1 DEF LoopOK
<1> QED  BY <1>1, <1>2, <1>3, <1>7, <1>8, PollGranted DEF MInv

LEMMA ReactivatedSame ==
  ASSUME NEW w, LinkOK(w), NEW x \in Reactivate(w), x.type = "MIFARE"
  PROVE  x.same
<1> DEFINE t == TurnOn(w)
<1>1. LinkOK(t) /\ t.type = w.type /\ t.antenna
  BY TurnOnLemma
<1>2. \/ x \in typeA_polling_tags(t)
      \/ x \in typeB_polling_tags(t)
      \/ x \in felica_polling_tags(t)
      \/ w.type = "TOPAZ" /\ x \in topaz_polling_tags(t)
      \/ x = Absent(t)
  BY DEF Reactivate
<1> HIDE DEF t
<1>3. CASE x \in typeA_polling_tags(t)
  BY <1>1, <1>3, PollingA DEF Searched, Identified
<1>4. CASE x \in typeB_polling_tags(t)
  BY <1>1, <1>4, PollingB DEF Searched, Identified
<1>5. CASE x \in felica_polling_tags(t)
  BY <1>1, <1>5, PollingFelica DEF Looked, Misnamed, Identified
<1>6. CASE w.type = "TOPAZ" /\ x \in topaz_polling_tags(t)
  <2>1. Looked(t, x) \/ Step(t, x)
    BY <1>1, <1>6, PollingTopaz
  <2> QED  BY <1>1, <1>6, <2>1 DEF Looked, Misnamed, Identified, Step, Keeps
<1>7. CASE x = Absent(t)
  BY <1>1, <1>7, AbsentLemma
<1> QED  BY <1>2, <1>3, <1>4, <1>5, <1>6, <1>7

LEMMA PowerOnMifareInv ==
  ASSUME MInv, PowerOn
  PROVE  MInv' /\ picc_power_on
<1>1. /\ cmd = Idle /\ picc_power_on
      /\ UNCHANGED <<mifare_key, work_key, key_No, block, authen_need, chip, cmd>>
      /\ IF states = "POWEROFF"
         THEN /\ key_valid' = IF type = "MIFARE" THEN {} ELSE key_valid
              /\ crypto' = (crypto /\ type # "MIFARE")
              /\ open' = None /\ granted' = None
              /\ SAK' = IF same' THEN chip ELSE SAK
         ELSE UNCHANGED <<key_valid, crypto, open, granted, SAK>>
  BY DEF PowerOn
<1>2. PICK x \in IF states = "POWEROFF" THEN Reactivate(Here) ELSE {Here} :
        IF x.type = "ABSENT"
        THEN Leave(TurnOff(x)) /\ status' = status \ {"ACTIVATED"}
        ELSE Leave(x) /\ status' = status \cup {"ACTIVATED"}
  BY <1>1 DEF picc_power_on
<1>3. IInv' /\ TypeOK'
  BY <1>1, PowerOnInv DEF MInv, IInv
<1>4. UNCHANGED <<card, noise>>
  BY <1>2 DEF Leave
<1>5. /\ LinkOK(Here) /\ Here.type = type /\ Here.mode = mode /\ Here.same = same
      /\ crypto \in BOOLEAN /\ open \in Sectors
      /\ open # None => mode = "active" /\ type = "MIFARE"
      /\ mode = "active" /\ type = "MIFARE" => same
      /\ same /\ type = "MIFARE" => SAK \in {chip, "UL"} /\ (states = "SELECTED" => SAK = chip)
      /\ Here.states = states
  BY HereLemma, LinkFields DEF MInv, ChipOK, OpenOK, Wide
<1>6. KeysOK' /\ SAK' \in Chips \cup {"none", "UL"}
  BY <1>1 DEF MInv, KeysOK, Sectors
<1>7. LoopOK'
  BY <1>1 DEF LoopOK
<1>8. CASE states = "POWEROFF"
  <2>1. type' = "MIFARE" => same'
    <3>1. CASE x.type = "ABSENT"
      <4>1. LinkOK(x)
        BY <1>2, <1>5, <1>8, ReactivateLemma, HereLemma DEF MInv
      <4>2. type' = "ABSENT"
        BY <1>2, <3>1, <4>1, TurnOffLemma DEF Leave
      <4> QED  BY <4>2
    <3>2. CASE x.type # "ABSENT"
      BY <1>2, <1>5, <1>8, <3>2, ReactivatedSame DEF Leave
    <3> QED  BY <3>1, <3>2
  <2>2. OpenOK(Link)'
    BY <1>1, <1>3, <1>5, <1>6, <1>8, <2>1, NextLink DEF Sectors
  <2>3. ChipOK'
    BY <1>1, <1>4, <1>8, <2>2 DEF MInv, ChipOK
  <2>4. GrantedOK'
    BY <1>1, <1>8, NotGranted
  <2> QED  BY <1>1, <1>3, <1>6, <1>7, <2>3, <2>4 DEF MInv
<1>9. CASE states # "POWEROFF"
  <2>1. x = Here
    BY <1>2, <1>9
  <2>2. IF type = "ABSENT" THEN same' = same /\ type' = type /\ mode' = "off"
        ELSE same' = same /\ type' = type /\ mode' = mode /\ states' = states
    BY <1>2, <1>5, <2>1, TurnOffLemma DEF Leave
  <2>3. open # None \/ mode' = "active" => mode' = mode
    BY <1>5, <2>2
  <2>4. OpenOK(Link)'
    BY <1>1, <1>3, <1>5, <1>6, <1>9, <2>2, <2>3, NextLink
  <2>5. ChipOK'
    BY <1>1, <1>4, <1>9, <2>2, <2>4 DEF MInv, ChipOK
  <2>6. GrantedOK'
    <3>1. CASE granted = None
      BY <1>1, <1>9, <3>1, NotGranted
    <3>2. CASE granted # None
      <4>1. type = "MIFARE"
        BY <3>2 DEF MInv, GrantedOK
      <4> QED  BY <1>1, <1>4, <1>9, <2>2, <4>1, GrantedKept DEF MInv
    <3> QED  BY <3>1, <3>2
  <2> QED  BY <1>1, <1>3, <1>6, <1>7, <2>5, <2>6 DEF MInv
<1> QED  BY <1>8, <1>9

\* What a step leaves alone that touches neither keys nor the access to the card.
LEMMA LinkKept ==
  ASSUME MInv, TypeOK', UNCHANGED <<type, mode, same, open, crypto, SAK, chip>>,
         states' \in {states, "POWEROFF"}
  PROVE  OpenOK(Link)'
<1>1. /\ crypto \in BOOLEAN /\ open \in Sectors /\ SAK \in Chips \cup {"none", "UL"}
      /\ open # None => mode = "active" /\ type = "MIFARE"
      /\ mode = "active" /\ type = "MIFARE" => same
      /\ same /\ type = "MIFARE" => SAK \in {chip, "UL"} /\ (states = "SELECTED" => SAK = chip)
  BY LinkFields DEF MInv, ChipOK, OpenOK, Wide
<1> QED  BY <1>1, NextLink

LEMMA PowerOffMifareInv ==
  ASSUME MInv, PowerOff
  PROVE  MInv' /\ picc_power_off
<1>1. /\ picc_power_off
      /\ UNCHANGED <<keyVars, authen_need, SAK, crypto, chip, open, cmd, granted>>
  BY DEF PowerOff
<1>2. UNCHANGED <<states, type, antenna, card, mode, same, noise>>
  BY <1>1, PowerOffLeaves DEF MInv
<1>3. IInv' /\ TypeOK'
  BY <1>1, PowerOffInv DEF MInv, IInv
<1>4. KeysOK' /\ ChipOK'
  BY <1>1, <1>2, <1>3, LinkKept DEF MInv, KeysOK, ChipOK, keyVars
<1>5. LoopOK' /\ GrantedOK'
  BY <1>1, <1>2, LoopKept, GrantedKept DEF MInv, keyVars
<1> QED  BY <1>1, <1>3, <1>4, <1>5 DEF MInv

LEMMA ResetParametersInv ==
  ASSUME MInv, ResetParameters
  PROVE  MInv' /\ picc_param_init
<1>1. /\ picc_param_init /\ UNCHANGED <<status, type, antenna, card, mode, same, noise>>
      /\ states' = "POWEROFF"
      /\ key_valid' = {} /\ mifare_key' = [n \in {0, 1} |-> FactoryKey] /\ granted' = None
      /\ UNCHANGED <<work_key, key_No, block, authen_need, SAK, crypto, chip, open, cmd>>
  BY DEF ResetParameters, picc_param_init
<1>2. IInv' /\ TypeOK'
  BY <1>1, ParamInv DEF MInv, IInv
<1>3. KeysOK'
  BY <1>1, KeysAssumption DEF MInv, KeysOK, Sectors
<1>4. ChipOK'
  BY <1>1, <1>2, LinkKept DEF MInv, ChipOK
<1>5. LoopOK' /\ GrantedOK'
  BY <1>1, LoopKept, NotGranted DEF MInv
<1> QED  BY <1>1, <1>2, <1>3, <1>4, <1>5 DEF MInv

LEMMA BringChipInv ==
  ASSUME MInv, NEW c \in Chips, BringChip(c)
  PROVE  MInv' /\ Bring("MIFARE")
<1>1. /\ Bring("MIFARE") /\ chip' = c /\ open' = None
      /\ UNCHANGED <<keyVars, authen_need, SAK, crypto, cmd, granted>>
  BY DEF BringChip
<1>2. /\ card = "none" /\ card' = "MIFARE" /\ mode' = IF antenna THEN "idle" ELSE "off"
      /\ UNCHANGED <<status, states, type, antenna, same, noise>>
  BY <1>1 DEF Bring
<1>3. IInv' /\ TypeOK'
  BY <1>1, MifareAssumption, BringInv DEF MInv, IInv
<1>4. ~same /\ crypto \in BOOLEAN /\ SAK \in Chips \cup {"none", "UL"}
  BY <1>2, Facts DEF LinkOK, MInv, ChipOK, OpenOK, Wide, Link
<1>5. KeysOK'
  BY <1>1 DEF MInv, KeysOK, keyVars
<1>6. OpenOK(Link)'
  BY <1>1, <1>2, <1>3, <1>4, NextLink DEF Sectors
<1>7. c # "none"
  BY ChipsAssumption
<1>8. ChipOK'
  BY <1>1, <1>2, <1>4, <1>6, <1>7 DEF ChipOK
<1>9. LoopOK'
  BY <1>1, <1>2, LoopKept DEF MInv, keyVars
<1>10. GrantedOK'
  BY <1>1, <1>4, NotGranted DEF MInv, GrantedOK
<1> QED  BY <1>1, <1>3, <1>5, <1>8, <1>9, <1>10 DEF MInv

LEMMA TakeChipInv ==
  ASSUME MInv, TakeChip
  PROVE  MInv' /\ Take
<1>1. /\ Take /\ chip' = "none" /\ open' = None /\ granted' = None
      /\ UNCHANGED <<keyVars, authen_need, SAK, crypto, cmd>>
  BY DEF TakeChip
<1>2. /\ card' = "none" /\ mode' = "off" /\ same' = FALSE
      /\ UNCHANGED <<status, states, type, antenna, noise>>
  BY <1>1 DEF Take
<1>3. IInv' /\ TypeOK'
  BY <1>1, TakeInv DEF MInv, IInv
<1>4. KeysOK'
  BY <1>1 DEF MInv, KeysOK, keyVars, Sectors
<1>5. crypto \in BOOLEAN /\ SAK \in Chips \cup {"none", "UL"}
  BY LinkFields DEF MInv, ChipOK, OpenOK, Wide
<1>6. OpenOK(Link)'
  BY <1>1, <1>2, <1>3, <1>5, NextLink DEF Sectors
<1>7. ChipOK' /\ LoopOK' /\ GrantedOK'
  BY <1>1, <1>2, <1>6, LoopKept, NotGranted DEF MInv, ChipOK, keyVars
<1> QED  BY <1>1, <1>3, <1>4, <1>7 DEF MInv

LEMMA DisturbChipInv ==
  ASSUME MInv, NEW n \in 0 .. MaxNoise, DisturbChip(n)
  PROVE  MInv' /\ Disturb(n)
<1>1. /\ Disturb(n) /\ noise' = n /\ granted' = IF n = 0 THEN granted ELSE None
      /\ UNCHANGED <<status, states, type, antenna, card, mode, same>>
      /\ UNCHANGED <<keyVars, authen_need, SAK, crypto, chip, open, cmd>>
  BY DEF DisturbChip, Disturb
<1>2. IInv' /\ TypeOK'
  BY <1>1, DisturbInv DEF MInv, IInv
<1>3. KeysOK' /\ ChipOK'
  BY <1>1, <1>2, LinkKept DEF MInv, KeysOK, ChipOK, keyVars, Sectors
<1>4. LoopOK'
  BY <1>1, LoopKept DEF MInv, keyVars
<1>5. GrantedOK'
  <2>1. CASE granted' = None
    BY <2>1, NotGranted
  <2>2. CASE granted' # None
    <3>1. n = 0 /\ granted' = granted /\ noise = 0
      BY <1>1, <2>2 DEF MInv, GrantedOK
    <3> QED  BY <1>1, <3>1, GrantedKept DEF MInv, keyVars
  <2> QED  BY <2>1, <2>2
<1> QED  BY <1>1, <1>2, <1>3, <1>4, <1>5 DEF MInv

-----------------------------------------------------------------------------
(* The theorems.                                                           *)

LEMMA MifareInitInv ==
  ASSUME MifareInit
  PROVE  MInv
<1>1. IInv
  BY InitInv DEF MifareInit
<1>2. KeysOK
  <2>1. mifare_key \in [{0, 1} -> Keys] /\ work_key \in Keys
    BY KeysAssumption DEF MifareInit
  <2>2. key_valid = {} /\ key_No = 0 /\ block = 0 /\ 0 \in Bytes
    BY DEF MifareInit, Bytes
  <2>3. authen_need = FALSE /\ SAK = "none" /\ chip = "none" /\ granted = None
    BY DEF MifareInit
  <2> QED  BY <2>1, <2>2, <2>3 DEF KeysOK, Sectors
<1>3. OpenOK(Link)
  <2> DEFINE l == [antenna |-> antenna, mode |-> mode, same |-> same, states |-> states,
                   type |-> type, r |-> "ok", lost |-> 0, sak |-> SAK, open |-> open,
                   crypto |-> crypto, pend |-> "none", wrote |-> {}, misread |-> FALSE]
  <2>1. mode = "off" /\ open = None /\ crypto = FALSE /\ SAK = "none" /\ same = FALSE
    BY DEF MifareInit, Init
  <2>2. /\ l \in Wide /\ l.mode = mode /\ l.open = None /\ l.pend = "none" /\ l.same = same
    BY <1>1, <2>1 DEF IInv, TypeOK, Wide, Types, Replies, Sectors
  <2>3. Link = l
    BY DEF Link
  <2> HIDE DEF l
  <2> QED  BY <2>1, <2>2, <2>3 DEF OpenOK
<1>4. ChipOK
  BY <1>3 DEF ChipOK, MifareInit, Init
<1>5. LoopOK /\ GrantedOK
  BY DEF MifareInit, LoopOK, GrantedOK
<1> QED  BY <1>1, <1>2, <1>4, <1>5 DEF MInv

LEMMA MifareNextInv ==
  ASSUME MInv, [MifareNext]_mifareVars
  PROVE  MInv' /\ (UNCHANGED vars \/ ExchangeMifare \/ Next)
<1>1. CASE UNCHANGED mifareVars
  <2>1. /\ UNCHANGED vars /\ UNCHANGED keyVars
        /\ UNCHANGED <<authen_need, SAK, crypto, chip, open, cmd, granted>>
    BY <1>1 DEF mifareVars
  <2>2. IInv' /\ KeysOK' /\ ChipOK'
    BY <2>1, StutterInv, ChipKept DEF MInv, KeysOK, keyVars
  <2>3. LoopOK' /\ GrantedOK'
    BY <2>1, LoopKept, GrantedKept DEF MInv, vars, keyVars
  <2> QED  BY <2>1, <2>2, <2>3 DEF MInv
<1>2. ASSUME NEW n \in Numbers, NEW k \in Keys, LoadKey(n, k)
      PROVE  MInv' /\ UNCHANGED vars
  BY <1>2, LoadKeyInv
<1>3. ASSUME NEW b \in Blocks, NEW n \in Numbers, Authenticate(b, n)
      PROVE  MInv' /\ ExchangeMifare
  BY <1>3, AuthenticateInv
<1>4. CASE AuthenticateRefused
  BY <1>4, AuthenticateRefusedInv
<1>5. ASSUME NEW b \in Blocks, NEW len \in Lengths, NEW op \in {"read", "write"},
             Begin(op, b, len)
      PROVE  MInv' /\ ExchangeMifare
  BY <1>5, BeginInv
<1>6. CASE LeaveSector
  BY <1>6, LeaveSectorInv
<1>7. CASE ReadBlock
  BY <1>7, ReadBlockInv
<1>8. CASE WriteBlock
  BY <1>8, WriteBlockInv
<1>9. ASSUME NEW b \in Blocks, ReadValue(b) \/ StoreValue(b) \/ CountValue(b)
      PROVE  MInv' /\ ExchangeMifare
  BY <1>9, ReadValueInv, StoreValueInv, CountValueInv
<1>10. ASSUME NEW b \in Blocks, NEW c \in Blocks, RestoreValue(b, c)
       PROVE  MInv' /\ ExchangeMifare
  BY <1>10, RestoreValueInv
<1>11. CASE Reply
  BY <1>11, ReplyInv
<1>12. CASE PollMifare
  BY <1>12, PollMifareInv DEF Next
<1>13. CASE PowerOn
  BY <1>13, PowerOnMifareInv DEF Next
<1>14. CASE PowerOff
  BY <1>14, PowerOffMifareInv DEF Next
<1>15. CASE ResetParameters
  BY <1>15, ResetParametersInv DEF Next
<1>16. ASSUME NEW c \in Chips, BringChip(c)
       PROVE  MInv' /\ Next
  BY <1>16, BringChipInv, MifareAssumption DEF Next
<1>17. CASE TakeChip
  BY <1>17, TakeChipInv DEF Next
<1>18. ASSUME NEW n \in 0 .. MaxNoise, DisturbChip(n)
       PROVE  MInv' /\ Next
  BY <1>18, DisturbChipInv DEF Next
<1> QED  BY <1>1, <1>2, <1>3, <1>4, <1>5, <1>6, <1>7, <1>8, <1>9, <1>10, <1>11, <1>12, <1>13,
            <1>14, <1>15, <1>16, <1>17, <1>18 DEF MifareNext

\* The invariant of the MIFARE commands, whatever hosts ask for, cards are
\* brought and frames get lost.
THEOREM MifareInvariance == MifareSpec => []MInv
<1>1. MifareInit => MInv
  BY MifareInitInv
<1>2. MInv /\ [MifareNext]_mifareVars => MInv'
  BY MifareNextInv
<1> QED  BY <1>1, <1>2, PTL DEF MifareSpec

\* Every variable keeps to its type.
THEOREM MifareTypeCorrect == MifareSpec => []MifareTypeOK
<1>1. MInv => MifareTypeOK
  <2> SUFFICES ASSUME MInv
               PROVE  MifareTypeOK
    OBVIOUS
  <2>1. TypeOK /\ KeysOK /\ crypto \in BOOLEAN /\ open \in Sectors
    BY LinkFields DEF MInv, IInv, ChipOK, OpenOK, Wide
  <2>2. cmd = Idle \/ (cmd.at \in Bytes /\ cmd.left \in Bytes)
    BY DEF MInv, LoopOK, Commands
  <2> QED  BY <2>1, <2>2 DEF MifareTypeOK, KeysOK, Sectors, Bytes
<1> QED  BY <1>1, MifareInvariance, PTL

\* The polls that reset the card between two commands do not show to a host
\* that has opened a sector: for any number of polls, commands and blocks.
THEOREM SurvivesPolls == MifareSpec => []SessionSurvivesPolls
<1>1. MInv => SessionSurvivesPolls
  <2>1. CASE granted = None
    BY <2>1 DEF SessionSurvivesPolls
  <2>2. CASE granted # None
    BY <2>2 DEF MInv, GrantedOK
  <2> QED  BY <2>1, <2>2
<1> QED  BY <1>1, MifareInvariance, PTL

\* Success means that the card has written the blocks that were asked for, all
\* of them and no other, whatever got lost; unless a damaged answer was taken
\* for an acknowledgement that was none.
THEOREM WrittenIfOk == MifareSpec => []OkMeansWritten
<1>1. MInv => OkMeansWritten
  <2> SUFFICES ASSUME MInv, cmd # Idle, cmd.r = "ok", ~cmd.misread
               PROVE  cmd.wrote = IF cmd.op = "read" THEN {} ELSE cmd.asked
    BY DEF OkMeansWritten
  <2>1. cmd.op \in {"read", "write"}
    BY DEF MInv, LoopOK, Commands
  <2> QED  BY <2>1 DEF MInv, LoopOK
<1> QED  BY <1>1, MifareInvariance, PTL

\* A sector trailer is written only by a command about it alone, or by one
\* whose length is under a block.
THEOREM TrailersSpared == MifareSpec => []SparesTrailers
<1>1. MInv => SparesTrailers
  BY DEF MInv, LoopOK, SparesTrailers
<1> QED  BY <1>1, MifareInvariance, PTL

\* To the card session the commands are what PiccSession takes them for: each
\* step is one of its steps or leaves it alone.
THEOREM ImplementsTheSession == MifareSpec => ImplementsSession
<1>1. MifareInit => Init
  BY DEF MifareInit
<1>2. MInv /\ [MifareNext]_mifareVars => [UNCHANGED vars \/ ExchangeMifare \/ Next]_vars
  BY MifareNextInv
<1> QED  BY <1>1, <1>2, MifareInvariance, PTL DEF MifareSpec, ImplementsSession

-----------------------------------------------------------------------------
(* What the driver takes a key to be good for.                             *)

LEMMA TrustedLemma ==
  ASSUME MInv, [MifareNext]_mifareVars, KeyUsable',
         ~KeyUsable \/ <<block, key_No, work_key>>' # <<block, key_No, work_key>>
  PROVE  open' = SectorOf(block') \/ (crypto /\ states = "SELECTED")
<1>1. ASSUME key_valid' \subseteq key_valid, UNCHANGED <<key_No, block, work_key>>
      PROVE  FALSE
  BY <1>1 DEF KeyUsable
<1>2. ASSUME NEW b \in Blocks, NEW n \in Numbers, Authenticate(b, n)
      PROVE  open' = SectorOf(block') \/ (crypto /\ states = "SELECTED")
  <2>1. PICK x \in SelectFirst : \E y \in mifare_authen_analyze(b, mifare_key[n], x) :
          LeaveCard(y) /\ (Failed(y) => key_valid' = key_valid \ {n})
    BY <1>2 DEF Authenticate
  <2>2. PICK y \in mifare_authen_analyze(b, mifare_key[n], x) :
          LeaveCard(y) /\ (Failed(y) => key_valid' = key_valid \ {n})
    BY <2>1
  <2>3. type = "MIFARE" /\ key_No' = n /\ block' = b
    BY <1>2 DEF Authenticate, Ready
  <2>4. y.r = "ok"
    BY <2>2, <2>3 DEF KeyUsable, Failed
  <2>5. /\ Narrow(x) \in Selected /\ OpenOK(x) /\ x.pend = "none" /\ noise \in Nat
        /\ states = "SELECTED" => x = Link
        /\ states # "SELECTED" => x.crypto = FALSE
    BY <2>3, Facts, SelectFirstLemma
  <2>6. x.type = "MIFARE" /\ b \in Bytes
    BY <2>3, <2>5, Facts, SelectedLemma, NarrowFields, BlocksAssumption DEF Bytes
  <2>7. OpenOK(y) /\ y.pend = "none" /\ (y.open = SectorOf(b) \/ x.crypto)
    BY <2>4, <2>5, <2>6, AuthenLemma DEF Authenticated, Worked
  <2>8. open' = y.open
    BY <2>2, <2>7, LeaveCardLemma
  <2> QED  BY <2>3, <2>5, <2>7, <2>8, LinkFields
<1>3. CASE PollMifare \/ PowerOn \/ PowerOff \/ ResetParameters
  <2>1. key_valid' \subseteq key_valid /\ UNCHANGED <<key_No, block, work_key>>
    BY <1>3 DEF PollMifare, Polled, PowerOn, PowerOff, ResetParameters, keyVars
  <2> QED  BY <1>1, <2>1
<1>4. CASE \/ \E n \in Numbers, k \in Keys : LoadKey(n, k)
           \/ AuthenticateRefused \/ LeaveSector \/ ReadBlock \/ WriteBlock \/ Reply
           \/ UNCHANGED mifareVars
  <2>1. UNCHANGED <<key_valid, key_No, block, work_key>>
    BY <1>4 DEF LoadKey, AuthenticateRefused, LeaveSector, ReadBlock, WriteBlock, Reply,
                mifareVars, keyVars
  <2> QED  BY <1>1, <2>1
<1>5. CASE \/ \E b \in Blocks, len \in Lengths, op \in {"read", "write"} : Begin(op, b, len)
           \/ \E b \in Blocks : ReadValue(b) \/ StoreValue(b) \/ CountValue(b)
           \/ \E b, c \in Blocks : RestoreValue(b, c)
  <2>1. UNCHANGED keyVars
    BY <1>5 DEF Begin, ReadValue, StoreValue, CountValue, RestoreValue, Single
  <2> QED  BY <1>1, <2>1 DEF keyVars
<1>6. CASE \/ \E c \in Chips : BringChip(c)
           \/ TakeChip
           \/ \E n \in 0 .. MaxNoise : DisturbChip(n)
  <2>1. UNCHANGED keyVars
    BY <1>6 DEF BringChip, TakeChip, DisturbChip
  <2> QED  BY <1>1, <2>1 DEF keyVars
<1> QED  BY <1>2, <1>3, <1>4, <1>5, <1>6 DEF MifareNext

\* A key that is used to repeat an authentication has opened the block, or the
\* crypto unit was still on when the last authentication timed out.
THEOREM TrustsAuthentication == MifareSpec => AuthenticationTrusted
<1>1. MInv /\ [MifareNext]_mifareVars =>
        [KeyUsable' /\ (~KeyUsable \/ <<block, key_No, work_key>>' # <<block, key_No, work_key>>)
           => open' = SectorOf(block') \/ (crypto /\ states = "SELECTED")]_mifareVars
  <2> SUFFICES ASSUME MInv, [MifareNext]_mifareVars, KeyUsable',
                      ~KeyUsable \/ <<block, key_No, work_key>>' # <<block, key_No, work_key>>
               PROVE  open' = SectorOf(block') \/ (crypto /\ states = "SELECTED")
    OBVIOUS
  <2> QED  BY TrustedLemma
<1> QED  BY <1>1, MifareInvariance, PTL DEF MifareSpec, AuthenticationTrusted
=============================================================================
