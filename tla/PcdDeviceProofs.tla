-------------------------- MODULE PcdDeviceProofs --------------------------
(***************************************************************************)
(* Theorems about PcdDevice, for any finite set of threads, any number of  *)
(* signals, and with or without a gadget.                                  *)
(*                                                                         *)
(* The argument for mutual exclusion is a count of units.  Every place a   *)
(* task can be in has a weight, the number of up's it owes; the weights of *)
(* all tasks, together with the free units, are conserved by every step    *)
(* except the interruption of a wait, which conjures one up.               *)
(***************************************************************************)
EXTENDS PcdDevice, FiniteSetTheorems, SequenceTheorems, TLAPS

-----------------------------------------------------------------------------
(* The inductive invariant.                                                *)

ThreadLabels == {"out", "waiting", "interrupted", "locked", "power_on", "power_off", "exchange",
                 "endless"}

\* Where each task can be, and how that goes with the module's life.
ControlOK ==
  /\ \A t \in Threads : pc[t] \in ThreadLabels
  /\ pc["worker"] \in {"out", "try", "polling", "polled", "rearm"}
  /\ pc["gadget"] \in {"out", "power_on", "power_off", "exchange"}
  /\ pc["init"] \in {"start", "registered", "try", "polling", "polled", "rearm", "ready", "out"}
  /\ pc["exit"] \in {"out", "waiting", "locked", "destroy"}
  /\ pc["init"] # "out" => teardown = "none"
  /\ pc["exit"] \in {"waiting", "locked"} => teardown = "going"
  /\ pc["exit"] = "destroy" => teardown \in {"cancelled", "flushed"}

\* The wait list holds tasks that wait, each of them once.
QueueOK ==
  /\ \A i \in 1..Len(waiters) : pc[waiters[i]] = "waiting"
  /\ \A i, j \in 1..Len(waiters) : waiters[i] = waiters[j] => i = j

IInv == TypeOK /\ ControlOK /\ QueueOK

-----------------------------------------------------------------------------
(* Removing an element leaves a sequence whose elements stood in the       *)
(* original, in the same order.                                            *)
LEMMA RemoveAtLemma ==
  ASSUME NEW S, NEW s \in Seq(S), NEW i \in 1..Len(s)
  PROVE  /\ RemoveAt(s, i) \in Seq(S)
         /\ Len(RemoveAt(s, i)) = Len(s) - 1
         /\ \A j \in 1..Len(s) - 1 : RemoveAt(s, i)[j] = IF j < i THEN s[j] ELSE s[j + 1]
<1> DEFINE l == SubSeq(s, 1, i - 1)
           r == SubSeq(s, i + 1, Len(s))
<1>1. Len(s) \in Nat /\ \A j \in 1..Len(s) : s[j] \in S
  BY LenProperties, ElementOfSeq
<1>2. l \in Seq(S) /\ Len(l) = i - 1 /\ \A j \in 1..i - 1 : l[j] = s[j]
  <2>1. \A j \in 1..i - 1 : s[j] \in S
    BY <1>1
  <2>2. /\ l \in Seq(S)
        /\ Len(l) = IF 1 <= i - 1 THEN i - 1 - 1 + 1 ELSE 0
        /\ \A j \in 1..(i - 1) - 1 + 1 : l[j] = s[1 + j - 1]
    BY <1>1, <2>1, SubSeqProperties
  <2> QED  BY <1>1, <2>2
<1>3. r \in Seq(S) /\ Len(r) = Len(s) - i /\ \A j \in 1..Len(s) - i : r[j] = s[i + j]
  <2>1. \A j \in i + 1..Len(s) : s[j] \in S
    BY <1>1
  <2>2. /\ r \in Seq(S)
        /\ Len(r) = IF i + 1 <= Len(s) THEN Len(s) - (i + 1) + 1 ELSE 0
        /\ \A j \in 1..Len(s) - (i + 1) + 1 : r[j] = s[(i + 1) + j - 1]
    BY <1>1, <2>1, SubSeqProperties
  <2> QED  BY <1>1, <2>2
<1>4. RemoveAt(s, i) = l \o r
  BY DEF RemoveAt
<1>5. /\ l \o r \in Seq(S) /\ Len(l \o r) = Len(l) + Len(r)
      /\ \A j \in 1..Len(l) + Len(r) :
           (l \o r)[j] = IF j <= Len(l) THEN l[j] ELSE r[j - Len(l)]
  BY <1>2, <1>3, ConcatProperties
<1> HIDE DEF l, r
<1> QED  BY <1>1, <1>2, <1>3, <1>4, <1>5

-----------------------------------------------------------------------------
(* The counting argument.                                                  *)

B(b) == IF b THEN 1 ELSE 0

\* The units of the semaphore that a task at label l holds or will give back
\* though it does not hold them.
HoldsAt(a, l) ==
  \/ l \in {"locked", "power_on", "power_off", "exchange", "endless", "polling", "polled",
             "destroy"}
     /\ a # "gadget"
  \/ a = "init" /\ l # "out"

Weight(a, l) ==
  B(HoldsAt(a, l)) + B(a = "init" /\ l \in {"polling", "polled"})
    + B(a \in Threads /\ l = "interrupted")

Holders(p)     == {a \in Actors : HoldsAt(a, p[a])}
Interrupted(p) == {t \in Threads : p[t] = "interrupted"}

Debt(p) ==
  Cardinality(Holders(p)) + B(p["init"] \in {"polling", "polled"})
    + Cardinality(Interrupted(p))

LEMMA ActorsFinite == IsFiniteSet(Actors)
<1>1. IsFiniteSet({"init"}) /\ IsFiniteSet({"exit"}) /\ IsFiniteSet({"worker"})
        /\ IsFiniteSet({"gadget"})
  BY FS_Singleton
<1>2. IsFiniteSet({"init"} \cup {"exit"}) /\ IsFiniteSet({"worker"} \cup {"gadget"})
  BY <1>1, FS_Union
<1>3. IsFiniteSet(({"init"} \cup {"exit"}) \cup ({"worker"} \cup {"gadget"}))
  BY <1>2, FS_Union
<1>4. Kernel = ({"init"} \cup {"exit"}) \cup ({"worker"} \cup {"gadget"})
  BY DEF Kernel
<1> QED  BY <1>3, <1>4, ThreadsAssumption, FS_Union DEF Actors

\* Two finite sets that differ at most in x.
LEMMA DifferInOne ==
  ASSUME NEW S, NEW T, NEW x, IsFiniteSet(S), IsFiniteSet(T), S \ {x} = T \ {x}
  PROVE  /\ Cardinality(S) \in Nat /\ Cardinality(T) \in Nat
         /\ Cardinality(T) = Cardinality(S) + B(x \in T) - B(x \in S)
<1> DEFINE R == S \ {x}
<1>1. IsFiniteSet(R) /\ Cardinality(R) \in Nat
  BY FS_Subset, FS_CardinalityType
<1>2. Cardinality(R \cup {x}) = Cardinality(R) + 1
  BY <1>1, FS_AddElement
<1>r. /\ x \in S => S = R \cup {x}
      /\ x \notin S => S = R
      /\ x \in T => T = R \cup {x}
      /\ x \notin T => T = R
  OBVIOUS
<1> HIDE DEF R
<1>3. Cardinality(S) = Cardinality(R) + B(x \in S)
  <2>1. CASE x \in S
    <3>1. Cardinality(S) = Cardinality(R) + 1
      BY <1>2, <1>r, <2>1
    <3> QED  BY <2>1, <3>1 DEF B
  <2>2. CASE x \notin S
    <3>1. Cardinality(S) = Cardinality(R)
      BY <1>r, <2>2
    <3> QED  BY <1>1, <2>2, <3>1 DEF B
  <2> QED  BY <2>1, <2>2
<1>4. Cardinality(T) = Cardinality(R) + B(x \in T)
  <2>1. CASE x \in T
    <3>1. Cardinality(T) = Cardinality(R) + 1
      BY <1>2, <1>r, <2>1
    <3> QED  BY <2>1, <3>1 DEF B
  <2>2. CASE x \notin T
    <3>1. Cardinality(T) = Cardinality(R)
      BY <1>r, <2>2
    <3> QED  BY <1>1, <2>2, <3>1 DEF B
  <2> QED  BY <2>1, <2>2
<1> QED  BY <1>1, <1>3, <1>4 DEF B

\* One task moves: the debt changes by the difference of the weights.
LEMMA DebtStep ==
  ASSUME NEW p \in [Actors -> Labels], NEW q \in [Actors -> Labels], NEW a \in Actors,
         \A b \in Actors : b # a => q[b] = p[b]
  PROVE  /\ Debt(p) \in Nat /\ Debt(q) \in Nat
         /\ Debt(q) = Debt(p) + Weight(a, q[a]) - Weight(a, p[a])
<1> DEFINE l == q[a]
<1>1. /\ \A b \in Actors : b # a => q[b] = p[b]
      /\ q[a] = l
  OBVIOUS
<1>2. "init" \in Actors /\ Threads \subseteq Actors
  BY DEF Actors, Kernel
<1> HIDE DEF l
<1>3. /\ IsFiniteSet(Holders(p)) /\ IsFiniteSet(Holders(q))
      /\ IsFiniteSet(Interrupted(p)) /\ IsFiniteSet(Interrupted(q))
  <2>1. Holders(p) \subseteq Actors /\ Holders(q) \subseteq Actors
    BY DEF Holders
  <2>2. Interrupted(p) \subseteq Actors /\ Interrupted(q) \subseteq Actors
    BY <1>2 DEF Interrupted
  <2> QED  BY <2>1, <2>2, ActorsFinite, FS_Subset
<1>4. Holders(p) \ {a} = Holders(q) \ {a}
  BY <1>1 DEF Holders
<1>5. Interrupted(p) \ {a} = Interrupted(q) \ {a}
  BY <1>1, <1>2 DEF Interrupted
<1>6. /\ a \in Holders(q) <=> HoldsAt(a, l)
      /\ a \in Holders(p) <=> HoldsAt(a, p[a])
  BY <1>1 DEF Holders
<1>7. /\ a \in Interrupted(q) <=> a \in Threads /\ l = "interrupted"
      /\ a \in Interrupted(p) <=> a \in Threads /\ p[a] = "interrupted"
  BY <1>1 DEF Interrupted
<1>8. /\ Cardinality(Holders(p)) \in Nat /\ Cardinality(Holders(q)) \in Nat
      /\ Cardinality(Holders(q))
           = Cardinality(Holders(p)) + B(HoldsAt(a, l)) - B(HoldsAt(a, p[a]))
  BY <1>3, <1>4, <1>6, DifferInOne DEF B
<1>9. /\ Cardinality(Interrupted(p)) \in Nat /\ Cardinality(Interrupted(q)) \in Nat
      /\ Cardinality(Interrupted(q))
           = Cardinality(Interrupted(p)) + B(a \in Threads /\ l = "interrupted")
               - B(a \in Threads /\ p[a] = "interrupted")
  BY <1>3, <1>5, <1>7, DifferInOne DEF B
<1>10. B(q["init"] \in {"polling", "polled"})
         = B(p["init"] \in {"polling", "polled"}) + B(a = "init" /\ l \in {"polling", "polled"})
             - B(a = "init" /\ p[a] \in {"polling", "polled"})
  <2>1. CASE a = "init"
    BY <1>1, <2>1 DEF B
  <2>2. CASE a # "init"
    BY <1>1, <1>2, <2>2 DEF B
  <2> QED  BY <2>1, <2>2
<1>11. \A b \in BOOLEAN : B(b) \in Nat
  BY DEF B
<1>12. /\ B(HoldsAt(a, l)) \in Nat /\ B(HoldsAt(a, p[a])) \in Nat
       /\ B(a \in Threads /\ l = "interrupted") \in Nat
       /\ B(a \in Threads /\ p[a] = "interrupted") \in Nat
       /\ B(a = "init" /\ l \in {"polling", "polled"}) \in Nat
       /\ B(a = "init" /\ p[a] \in {"polling", "polled"}) \in Nat
       /\ B(p["init"] \in {"polling", "polled"}) \in Nat
       /\ B(q["init"] \in {"polling", "polled"}) \in Nat
  BY <1>11 DEF B
<1> DEFINE h == B(HoldsAt(a, l))      k == B(HoldsAt(a, p[a]))
           i == B(a \in Threads /\ l = "interrupted")
           j == B(a \in Threads /\ p[a] = "interrupted")
           m == B(a = "init" /\ l \in {"polling", "polled"})
           n == B(a = "init" /\ p[a] \in {"polling", "polled"})
           pp == B(p["init"] \in {"polling", "polled"})
           qq == B(q["init"] \in {"polling", "polled"})
           hp == Cardinality(Holders(p))      hq == Cardinality(Holders(q))
           ip == Cardinality(Interrupted(p))  iq == Cardinality(Interrupted(q))
<1>13. /\ Debt(p) = hp + pp + ip /\ Debt(q) = hq + qq + iq
       /\ Weight(a, l) = h + m + i /\ Weight(a, p[a]) = k + n + j
  BY DEF Debt, Weight
<1> HIDE DEF h, k, i, j, m, n, pp, qq, hp, hq, ip, iq
<1>14. Debt(q) = Debt(p) + Weight(a, l) - Weight(a, p[a]) /\ Debt(p) \in Nat /\ Debt(q) \in Nat
  <2>1. /\ h \in Nat /\ k \in Nat /\ i \in Nat /\ j \in Nat /\ m \in Nat /\ n \in Nat
        /\ pp \in Nat /\ qq \in Nat /\ hp \in Nat /\ hq \in Nat /\ ip \in Nat /\ iq \in Nat
    BY <1>8, <1>9, <1>12 DEF h, k, i, j, m, n, pp, qq, hp, hq, ip, iq
  <2>2. hq = hp + h - k /\ iq = ip + i - j /\ qq = pp + m - n
    BY <1>8, <1>9, <1>10 DEF h, k, i, j, m, n, pp, qq, hp, hq, ip, iq
  <2> QED  BY <1>13, <2>1, <2>2
<1> QED  BY <1>14 DEF l

-----------------------------------------------------------------------------
(* What the operations of the semaphore do to the wait list and the units. *)

LEMMA ActorFacts ==
  /\ Threads \subseteq Actors /\ Waiters \subseteq Actors /\ Pollers \subseteq Actors
  /\ "init" \in Actors /\ "exit" \in Actors /\ "worker" \in Actors /\ "gadget" \in Actors
  /\ "init" \notin Threads /\ "exit" \notin Threads /\ "worker" \notin Threads
  /\ "gadget" \notin Threads /\ "init" \notin Waiters /\ "worker" \notin Waiters
  /\ "gadget" \notin Waiters
BY ThreadsAssumption DEF Actors, Kernel, Waiters, Pollers

LEMMA DownLemma ==
  ASSUME TypeOK, QueueOK, NEW a \in Waiters, pc[a] = "out", Down(a)
  PROVE  /\ count' \in Nat /\ waiters' \in Seq(Waiters) /\ pc' \in [Actors -> Labels]
         /\ QueueOK'
         /\ \A b \in Actors : b # a => pc'[b] = pc[b]
         /\ pc'[a] \in {"locked", "waiting"}
         /\ Debt(pc') \in Nat /\ count' + Debt(pc') = count + Debt(pc)
<1>1. a \in Actors /\ a # "init" /\ a # "gadget"
  BY ActorFacts
<1>2. pc \in [Actors -> Labels] /\ count \in Nat /\ waiters \in Seq(Waiters)
  BY DEF TypeOK
<1>3. "locked" \in Labels /\ "waiting" \in Labels
  BY DEF Labels
<1>4. Weight(a, "out") = 0 /\ Weight(a, "waiting") = 0 /\ Weight(a, "locked") = 1
  BY <1>1 DEF Weight, HoldsAt, B
<1>5. CASE count > 0 /\ count' = count - 1 /\ Goto(a, "locked") /\ UNCHANGED waiters
  <2>1. pc' = [pc EXCEPT ![a] = "locked"]
    BY <1>5 DEF Goto
  <2>3. pc' \in [Actors -> Labels] /\ pc'[a] = "locked"
          /\ \A b \in Actors : b # a => pc'[b] = pc[b]
    BY <1>1, <1>2, <1>3, <2>1
  <2>2. Debt(pc') = Debt(pc) + 1 /\ Debt(pc) \in Nat
    BY <1>1, <1>2, <1>4, <2>3, DebtStep
  <2>4. QueueOK'
    <3>1. \A i \in 1..Len(waiters) : waiters[i] # a /\ waiters[i] \in Actors
      BY <1>2, ElementOfSeq, ActorFacts DEF QueueOK
    <3> QED  BY <1>5, <2>3, <3>1 DEF QueueOK
  <2> QED  BY <1>2, <1>5, <2>2, <2>3, <2>4
<1>6. CASE count = 0 /\ waiters' = Append(waiters, a) /\ Goto(a, "waiting") /\ UNCHANGED count
  <2>1. pc' = [pc EXCEPT ![a] = "waiting"]
    BY <1>6 DEF Goto
  <2>3. pc' \in [Actors -> Labels] /\ pc'[a] = "waiting"
          /\ \A b \in Actors : b # a => pc'[b] = pc[b]
    BY <1>1, <1>2, <1>3, <2>1
  <2>2. Debt(pc') = Debt(pc) /\ Debt(pc) \in Nat
    BY <1>1, <1>2, <1>4, <2>3, DebtStep
  <2>4. /\ waiters' \in Seq(Waiters) /\ Len(waiters') = Len(waiters) + 1
        /\ \A i \in 1..Len(waiters) : waiters'[i] = waiters[i]
        /\ waiters'[Len(waiters) + 1] = a
    BY <1>2, <1>6, AppendProperties
  <2>5. Len(waiters) \in Nat
    BY <1>2, LenProperties
  <2>6. \A i \in 1..Len(waiters) : waiters[i] # a /\ waiters[i] \in Actors
    BY <1>2, ElementOfSeq, ActorFacts DEF QueueOK
  <2>7. QueueOK'
    BY <2>3, <2>4, <2>5, <2>6 DEF QueueOK
  <2> QED  BY <1>2, <1>6, <2>2, <2>3, <2>4, <2>7
<1> QED  BY <1>5, <1>6 DEF Down

LEMMA UpLemma ==
  ASSUME TypeOK, QueueOK, NEW a \in Actors, NEW l \in Labels, pc[a] # "waiting", l # "waiting",
         Weight(a, l) = Weight(a, pc[a]) - 1, Weight(a, l) \in Nat, Up(a, l)
  PROVE  /\ count' \in Nat /\ waiters' \in Seq(Waiters) /\ pc' \in [Actors -> Labels]
         /\ QueueOK'
         /\ pc'[a] = l
         /\ \A b \in Actors : b # a =>
              pc'[b] = pc[b] \/ (b \in Waiters /\ pc[b] = "waiting" /\ pc'[b] = "locked")
         /\ Debt(pc') \in Nat /\ count' + Debt(pc') = count + Debt(pc)
<1>2. pc \in [Actors -> Labels] /\ count \in Nat /\ waiters \in Seq(Waiters)
  BY DEF TypeOK
<1>3. "locked" \in Labels
  BY DEF Labels
<1>4. Len(waiters) \in Nat /\ \A i \in 1..Len(waiters) :
                                waiters[i] \in Waiters /\ waiters[i] \in Actors
  BY <1>2, LenProperties, ElementOfSeq, ActorFacts
<1> DEFINE p == [pc EXCEPT ![a] = l]
<1>p. p \in [Actors -> Labels] /\ p[a] = l /\ \A b \in Actors : b # a => p[b] = pc[b]
  BY <1>2
<1>5. Debt(p) = Debt(pc) - 1 /\ Debt(pc) \in Nat /\ Debt(p) \in Nat
  <2>1. Weight(a, pc[a]) = Weight(a, l) + 1
    <3>1. \A b : B(b) \in Int
      BY DEF B
    <3>2. Weight(a, pc[a]) \in Int
      BY <3>1 DEF Weight
    <3> QED  BY <3>2
  <2> HIDE DEF p
  <2>2. Debt(pc) \in Nat /\ Debt(p) \in Nat /\ Debt(p) = Debt(pc) + Weight(a, p[a]) - Weight(a, pc[a])
    BY <1>2, <1>p, DebtStep
  <2>3. p[a] = l
    BY <1>p
  <2> QED  BY <2>1, <2>2, <2>3
<1> HIDE DEF p
<1>6. CASE waiters = <<>> /\ count' = count + 1 /\ Goto(a, l) /\ UNCHANGED waiters
  <2>1. pc' = p
    BY <1>6 DEF Goto, p
  <2>2. QueueOK'
    BY <1>6 DEF QueueOK
  <2> QED  BY <1>2, <1>5, <1>6, <1>p, <2>1, <2>2
<1>7. CASE /\ waiters # <<>> /\ waiters' = Tail(waiters)
           /\ pc' = [pc EXCEPT ![a] = l, ![Head(waiters)] = "locked"]
           /\ UNCHANGED count
  <2> DEFINE h == Head(waiters)
  <2>1. /\ waiters' \in Seq(Waiters) /\ Len(waiters') = Len(waiters) - 1
        /\ \A i \in 1..Len(waiters') : waiters'[i] = waiters[i + 1]
    BY <1>2, <1>7, HeadTailProperties
  <2>2. Len(waiters) >= 1 /\ h = waiters[1]
    BY <1>2, <1>4, <1>7, EmptySeq
  <2>3. h \in Waiters /\ h \in Actors /\ pc[h] = "waiting" /\ h # a
    BY <1>4, <2>2 DEF QueueOK
  <2> HIDE DEF h
  <2>4. pc' = [p EXCEPT ![h] = "locked"]
    BY <1>7 DEF p, h
  <2>5. p[h] = "waiting"
    BY <1>p, <2>3
  <2>6. Weight(h, "waiting") = 0 /\ Weight(h, "locked") = 1
    BY <2>3, ActorFacts DEF Weight, HoldsAt, B
  <2>8. pc' \in [Actors -> Labels] /\ pc'[a] = l /\ pc'[h] = "locked"
          /\ \A b \in Actors : b # a /\ b # h => pc'[b] = pc[b]
    BY <1>3, <1>p, <2>3, <2>4
  <2>7. Debt(pc') = Debt(p) + 1
    <3>1. \A b \in Actors : b # h => pc'[b] = p[b]
      BY <1>3, <1>p, <2>3, <2>4
    <3> QED  BY <1>5, <1>p, <2>3, <2>5, <2>6, <2>8, <3>1, DebtStep
  <2>9. \A i \in 1..Len(waiters') : waiters'[i] # a /\ waiters'[i] # h /\ waiters'[i] \in Actors
                                      /\ pc[waiters'[i]] = "waiting"
    <3> TAKE i \in 1..Len(waiters')
    <3>1. i + 1 \in 1..Len(waiters) /\ 1 \in 1..Len(waiters) /\ i + 1 # 1
      BY <1>4, <2>1, <2>2
    <3>2. waiters'[i] = waiters[i + 1]
      BY <2>1
    <3> QED  BY <1>4, <2>2, <3>1, <3>2 DEF QueueOK
  <2>10. QueueOK'
    <3>1. \A i \in 1..Len(waiters') : pc'[waiters'[i]] = "waiting"
      BY <2>8, <2>9
    <3>2. ASSUME NEW i \in 1..Len(waiters'), NEW j \in 1..Len(waiters'), waiters'[i] = waiters'[j]
          PROVE  i = j
      <4>1. i + 1 \in 1..Len(waiters) /\ j + 1 \in 1..Len(waiters)
        BY <1>4, <2>1
      <4>2. waiters[i + 1] = waiters[j + 1]
        BY <2>1, <3>2
      <4> QED  BY <4>1, <4>2 DEF QueueOK
    <3> QED  BY <3>1, <3>2 DEF QueueOK
  <2> QED  BY <1>2, <1>5, <1>7, <2>1, <2>3, <2>7, <2>8, <2>10
<1> QED  BY <1>6, <1>7 DEF Up

LEMMA LeaveLemma ==
  ASSUME TypeOK, QueueOK, NEW a \in Waiters, NEW l \in Labels, l # "waiting",
         LeaveQueue(a), Goto(a, l)
  PROVE  /\ waiters' \in Seq(Waiters) /\ count' \in Nat /\ signals' \in Nat
         /\ pc' \in [Actors -> Labels]
         /\ QueueOK' /\ pc'[a] = l /\ pc[a] = "waiting"
         /\ \A b \in Actors : b # a => pc'[b] = pc[b]
<1>1. a \in Actors
  BY ActorFacts
<1>2. pc \in [Actors -> Labels] /\ count \in Nat /\ waiters \in Seq(Waiters) /\ signals \in Nat
  BY DEF TypeOK
<1>3. pc' \in [Actors -> Labels] /\ pc'[a] = l /\ \A b \in Actors : b # a => pc'[b] = pc[b]
  BY <1>1, <1>2 DEF Goto
<1>4. PICK k \in 1..Len(waiters) : waiters[k] = a /\ waiters' = RemoveAt(waiters, k)
  BY <1>2, LenProperties DEF LeaveQueue
<1>5. /\ waiters' \in Seq(Waiters) /\ Len(waiters') = Len(waiters) - 1
      /\ \A j \in 1..Len(waiters) - 1 :
           waiters'[j] = IF j < k THEN waiters[j] ELSE waiters[j + 1]
  BY <1>2, <1>4, RemoveAtLemma
<1>6. Len(waiters) \in Nat /\ \A i \in 1..Len(waiters) : waiters[i] \in Actors
  BY <1>2, LenProperties, ElementOfSeq, ActorFacts
<1>7. QueueOK'
  <2> DEFINE m(j) == IF j < k THEN j ELSE j + 1
  <2>1. \A j \in 1..Len(waiters') :
           m(j) \in 1..Len(waiters) /\ m(j) # k /\ waiters'[j] = waiters[m(j)]
    BY <1>5, <1>6
  <2>2. \A i, j \in 1..Len(waiters') : m(i) = m(j) => i = j
    BY <1>5, <1>6
  <2> HIDE DEF m
  <2>3. \A j \in 1..Len(waiters') : waiters'[j] # a /\ waiters'[j] \in Actors
                                      /\ pc[waiters'[j]] = "waiting"
    BY <1>4, <1>6, <2>1 DEF QueueOK
  <2>4. \A i, j \in 1..Len(waiters') : waiters'[i] = waiters'[j] => i = j
    BY <2>1, <2>2 DEF QueueOK
  <2> QED  BY <1>3, <2>3, <2>4 DEF QueueOK
<1>8. pc[a] = "waiting"
  BY <1>4 DEF QueueOK
<1> QED  BY <1>2, <1>3, <1>5, <1>7, <1>8 DEF LeaveQueue

\* A task that neither waited nor waits now goes on.
LEMMA MoveLemma ==
  ASSUME TypeOK, QueueOK, NEW a \in Actors, NEW l \in Labels, pc[a] # "waiting",
         Goto(a, l), UNCHANGED waiters
  PROVE  /\ waiters' \in Seq(Waiters) /\ pc' \in [Actors -> Labels] /\ pc'[a] = l
         /\ QueueOK'
         /\ \A b \in Actors : b # a => pc'[b] = pc[b]
         /\ Debt(pc) \in Nat /\ Debt(pc') = Debt(pc) + Weight(a, l) - Weight(a, pc[a])
<1>1. pc \in [Actors -> Labels] /\ waiters \in Seq(Waiters)
  BY DEF TypeOK
<1>2. pc' = [pc EXCEPT ![a] = l]
  BY DEF Goto
<1>3. pc' \in [Actors -> Labels] /\ pc'[a] = l /\ \A b \in Actors : b # a => pc'[b] = pc[b]
  BY <1>1, <1>2
<1>4. \A i \in 1..Len(waiters) : waiters[i] # a /\ waiters[i] \in Actors
  BY <1>1, ElementOfSeq, ActorFacts DEF QueueOK
<1>5. QueueOK'
  BY <1>3, <1>4 DEF QueueOK
<1> QED  BY <1>1, <1>3, <1>5, DebtStep

LEMMA WeightTable ==
  /\ \A t \in Threads :
       /\ \A l \in {"interrupted", "locked", "power_on", "power_off", "exchange", "endless"} :
            Weight(t, l) = 1
       /\ \A l \in {"out", "waiting"} : Weight(t, l) = 0
  /\ \A l \in {"start", "registered", "try", "rearm", "ready"} : Weight("init", l) = 1
  /\ \A l \in {"polling", "polled"} : Weight("init", l) = 2
  /\ Weight("init", "out") = 0
  /\ \A l \in {"out", "try", "rearm"} : Weight("worker", l) = 0
  /\ \A l \in {"polling", "polled"} : Weight("worker", l) = 1
  /\ \A l \in {"out", "waiting"} : Weight("exit", l) = 0
  /\ \A l \in {"locked", "destroy"} : Weight("exit", l) = 1
  /\ \A l \in {"out", "power_on", "power_off", "exchange"} : Weight("gadget", l) = 0
BY ActorFacts DEF Weight, HoldsAt, B

\* What a step may not change: the units, in use and free, less those that
\* interrupted waits have conjured up.
Balance == count + Debt(pc) - signals + B(teardown = "interrupted")

LEMMA BalanceLemma ==
  ASSUME count \in Nat, Debt(pc) \in Nat, signals \in Nat, count' \in Nat, Debt(pc') \in Nat,
         count' + Debt(pc') = count + Debt(pc), signals' = signals,
         teardown' = "interrupted" <=> teardown = "interrupted"
  PROVE  Balance' = Balance
<1>1. B(teardown' = "interrupted") = B(teardown = "interrupted")
  BY DEF B
<1>2. B(teardown = "interrupted") \in Nat
  BY DEF B
<1> QED  BY <1>1, <1>2 DEF Balance

LEMMA Conservation == IInv /\ [Next]_vars => IInv' /\ Balance' = Balance
<1> SUFFICES ASSUME IInv, [Next]_vars
             PROVE  IInv' /\ Balance' = Balance
  OBVIOUS
<1>1. TypeOK /\ ControlOK /\ QueueOK
  BY DEF IInv
<1>2. Debt(pc) \in Nat /\ count \in Nat /\ signals \in Nat
  <2>1. pc \in [Actors -> Labels] /\ "init" \in Actors
    BY <1>1, ActorFacts DEF TypeOK
  <2> QED  BY <1>1, <2>1, DebtStep DEF TypeOK
<1>3. \A b \in BOOLEAN : B(b) \in Nat
  BY DEF B
<1>10. CASE pcd_open
  BY <1>1, <1>10 DEF pcd_open, IInv, TypeOK, ControlOK, QueueOK, Balance, lockVars, slotVars
<1>11. CASE pcd_release
  BY <1>1, <1>11 DEF pcd_release, IInv, TypeOK, ControlOK, QueueOK, Balance, lockVars, slotVars
<1>12. ASSUME NEW t \in Threads, IoctlEnter(t)
       PROVE  IInv' /\ Balance' = Balance
  <2>1. t \in Waiters /\ pc[t] = "out" /\ Down(t) /\ UNCHANGED <<signals, lifeVars, timer, slotVars>>
    BY <1>12 DEF IoctlEnter, Waiters
  <2>2. /\ count' \in Nat /\ waiters' \in Seq(Waiters) /\ pc' \in [Actors -> Labels]
        /\ QueueOK'
        /\ \A b \in Actors : b # t => pc'[b] = pc[b]
        /\ pc'[t] \in {"locked", "waiting"}
        /\ Debt(pc') \in Nat /\ count' + Debt(pc') = count + Debt(pc)
    BY <1>1, <2>1, DownLemma
  <2>3. TypeOK'
    BY <1>1, <2>1, <2>2 DEF TypeOK, lifeVars, slotVars
  <2>4. ControlOK'
    BY <1>1, <2>1, <2>2, ActorFacts DEF ControlOK, ThreadLabels, lifeVars
  <2>5. Balance' = Balance
    BY <1>2, <2>1, <2>2, BalanceLemma DEF lifeVars
  <2> QED  BY <2>2, <2>3, <2>4, <2>5 DEF IInv
<1>13. ASSUME NEW t \in Threads, IoctlInterrupted(t)
       PROVE  IInv' /\ Balance' = Balance
  <2>1. /\ t \in Waiters /\ LeaveQueue(t) /\ Goto(t, "interrupted")
        /\ UNCHANGED <<lifeVars, timer, slotVars>>
        /\ "interrupted" \in Labels /\ "interrupted" # "waiting"
    BY <1>13 DEF IoctlInterrupted, Waiters, Labels
  <2>2. /\ waiters' \in Seq(Waiters) /\ count' \in Nat /\ signals' \in Nat
        /\ pc' \in [Actors -> Labels]
        /\ QueueOK' /\ pc'[t] = "interrupted" /\ pc[t] = "waiting"
        /\ \A b \in Actors : b # t => pc'[b] = pc[b]
    BY <1>1, <2>1, LeaveLemma
  <2>3. TypeOK'
    BY <1>1, <2>1, <2>2 DEF TypeOK, lifeVars, slotVars
  <2>4. ControlOK'
    BY <1>1, <2>1, <2>2, ActorFacts DEF ControlOK, ThreadLabels, lifeVars
  <2>5. Debt(pc') = Debt(pc) + 1
    <3>1. pc \in [Actors -> Labels] /\ t \in Actors
      BY <1>1, ActorFacts DEF TypeOK
    <3>2. Weight(t, "interrupted") = 1 /\ Weight(t, "waiting") = 0
      BY WeightTable
    <3>3. Debt(pc') = Debt(pc) + Weight(t, pc'[t]) - Weight(t, pc[t])
      BY <2>2, <3>1, DebtStep
    <3> QED  BY <1>2, <2>2, <3>2, <3>3
  <2>6. Balance' = Balance
    BY <1>2, <1>3, <2>1, <2>5 DEF Balance, LeaveQueue, lifeVars, B
  <2> QED  BY <2>2, <2>3, <2>4, <2>6 DEF IInv
<1>14. ASSUME NEW t \in Threads, IoctlReturn(t)
       PROVE  IInv' /\ Balance' = Balance
  <2>1. /\ t \in Actors /\ "out" \in Labels /\ pc[t] # "waiting"
        /\ Up(t, "out") /\ UNCHANGED <<signals, lifeVars, timer, slotVars>>
    BY <1>14, ActorFacts DEF IoctlReturn, Labels
  <2>2. Weight(t, "out") = Weight(t, pc[t]) - 1 /\ Weight(t, "out") \in Nat
    BY <1>14, WeightTable DEF IoctlReturn
  <2>3. /\ count' \in Nat /\ waiters' \in Seq(Waiters) /\ pc' \in [Actors -> Labels]
        /\ QueueOK'
        /\ pc'[t] = "out"
        /\ \A b \in Actors : b # t =>
             pc'[b] = pc[b] \/ (b \in Waiters /\ pc[b] = "waiting" /\ pc'[b] = "locked")
        /\ Debt(pc') \in Nat /\ count' + Debt(pc') = count + Debt(pc)
    BY <1>1, <2>1, <2>2, UpLemma
  <2>4. TypeOK'
    BY <1>1, <2>1, <2>3 DEF TypeOK, lifeVars, slotVars
  <2>5. ControlOK'
    BY <1>1, <2>1, <2>3, ActorFacts DEF ControlOK, ThreadLabels, lifeVars
  <2>6. Balance' = Balance
    BY <1>2, <2>1, <2>3, BalanceLemma DEF lifeVars
  <2> QED  BY <2>3, <2>4, <2>5, <2>6 DEF IInv
<1>15. ASSUME NEW t \in Threads, IoctlCommand(t) \/ ExchangeHangs(t)
       PROVE  IInv' /\ Balance' = Balance
  <2>1. PICK c \in {"power_on", "power_off", "exchange", "endless"} : Goto(t, c)
    BY <1>15 DEF IoctlCommand, ExchangeHangs
  <2>2. /\ t \in Actors /\ c \in Labels /\ pc[t] \in {"locked", "exchange"}
        /\ UNCHANGED <<count, waiters, signals, lifeVars, timer, slotVars>>
    BY <1>15, <2>1, ActorFacts DEF IoctlCommand, ExchangeHangs, Labels, lockVars
  <2>3. /\ waiters' \in Seq(Waiters) /\ pc' \in [Actors -> Labels] /\ pc'[t] = c
        /\ QueueOK'
        /\ \A b \in Actors : b # t => pc'[b] = pc[b]
        /\ Debt(pc') = Debt(pc) + Weight(t, c) - Weight(t, pc[t])
    BY <1>1, <2>1, <2>2, MoveLemma
  <2>4. Weight(t, c) = 1 /\ Weight(t, pc[t]) = 1
    BY <2>1, <2>2, WeightTable
  <2>5. TypeOK'
    BY <1>1, <2>2, <2>3 DEF TypeOK, lifeVars, slotVars
  <2>6. ControlOK'
    BY <1>1, <2>1, <2>2, <2>3, ActorFacts DEF ControlOK, ThreadLabels, lifeVars
  <2>7. Balance' = Balance
    BY <1>2, <2>2, <2>3, <2>4, BalanceLemma DEF lifeVars
  <2> QED  BY <2>3, <2>5, <2>6, <2>7 DEF IInv
<1>16. CASE PollTimer
  BY <1>1, <1>16 DEF PollTimer, IInv, TypeOK, ControlOK, QueueOK, Balance, lockVars, lifeVars, slotVars
<1>17. CASE PollStart
  <2>1. /\ "worker" \in Actors /\ "try" \in Labels /\ pc["worker"] = "out"
        /\ Goto("worker", "try") /\ UNCHANGED <<count, waiters, signals>>
    BY <1>17, ActorFacts DEF PollStart, Labels, lockVars
  <2>2. /\ waiters' \in Seq(Waiters) /\ pc' \in [Actors -> Labels] /\ pc'["worker"] = "try"
        /\ QueueOK'
        /\ \A b \in Actors : b # "worker" => pc'[b] = pc[b]
        /\ Debt(pc') = Debt(pc) + Weight("worker", "try") - Weight("worker", pc["worker"])
    BY <1>1, <2>1, MoveLemma
  <2>3. Weight("worker", "try") = 0 /\ Weight("worker", "out") = 0
    BY WeightTable
  <2>4. TypeOK'
    BY <1>1, <1>17, <2>1, <2>2 DEF TypeOK, PollStart, lifeVars, slotVars
  <2>5. ControlOK'
    BY <1>1, <1>17, <2>1, <2>2, ActorFacts DEF ControlOK, ThreadLabels, PollStart, lifeVars
  <2>6. Balance' = Balance
    BY <1>1, <1>2, <1>17, <2>1, <2>2, <2>3, BalanceLemma DEF ControlOK, PollStart, lifeVars
  <2> QED  BY <2>2, <2>4, <2>5, <2>6 DEF IInv
<1>18. ASSUME NEW a \in Pollers, PollTryLock(a)
       PROVE  IInv' /\ Balance' = Balance
  <2>1. a \in {"init", "worker"} /\ a \in Actors /\ pc[a] = "try"
          /\ UNCHANGED <<waiters, signals, lifeVars, timer, slotVars>>
    BY <1>18, ActorFacts DEF PollTryLock, Pollers
  <2>2. PICK l \in {"polling", "rearm"} :
          /\ Goto(a, l)
          /\ l = "polling" => count > 0 /\ count' = count - 1
          /\ l = "rearm" => count' = count
    BY <1>18 DEF PollTryLock
  <2>3. l \in Labels
    BY DEF Labels
  <2>4. /\ waiters' \in Seq(Waiters) /\ pc' \in [Actors -> Labels] /\ pc'[a] = l
        /\ QueueOK'
        /\ \A b \in Actors : b # a => pc'[b] = pc[b]
        /\ Debt(pc') = Debt(pc) + Weight(a, l) - Weight(a, pc[a])
    BY <1>1, <2>1, <2>2, <2>3, MoveLemma
  <2>5. Weight(a, "try") \in Nat /\ Weight(a, "rearm") = Weight(a, "try")
          /\ Weight(a, "polling") = Weight(a, "try") + 1
    BY <2>1, WeightTable
  <2>6. count' \in Nat /\ Debt(pc') \in Nat /\ count' + Debt(pc') = count + Debt(pc)
    BY <1>2, <2>1, <2>2, <2>4, <2>5
  <2>7. TypeOK'
    BY <1>1, <2>1, <2>4, <2>6 DEF TypeOK, lifeVars, slotVars
  <2>8. ControlOK'
    BY <1>1, <2>1, <2>2, <2>4, ActorFacts DEF ControlOK, ThreadLabels, lifeVars
  <2>9. Balance' = Balance
    BY <1>2, <2>1, <2>6, BalanceLemma DEF lifeVars
  <2> QED  BY <2>4, <2>7, <2>8, <2>9 DEF IInv
<1>19. ASSUME NEW a \in Pollers, PollTags(a)
       PROVE  IInv' /\ Balance' = Balance
  <2> DEFINE l == "polled"
  <2>1. /\ a \in {"init", "worker"} /\ a \in Actors /\ pc[a] = "polling" /\ l \in Labels
        /\ Goto(a, l) /\ UNCHANGED <<count, waiters, signals, lifeVars>>
    BY <1>19, ActorFacts DEF PollTags, Pollers, Labels, lockVars
  <2> HIDE DEF l
  <2>2. /\ waiters' \in Seq(Waiters) /\ pc' \in [Actors -> Labels] /\ pc'[a] = l
        /\ QueueOK'
        /\ \A b \in Actors : b # a => pc'[b] = pc[b]
        /\ Debt(pc') = Debt(pc) + Weight(a, l) - Weight(a, pc[a])
    BY <1>1, <2>1, MoveLemma
  <2>3. Weight(a, "polling") \in Nat /\ Weight(a, l) = Weight(a, "polling")
    BY <2>1, WeightTable DEF l
  <2>4. TypeOK'
    BY <1>1, <1>19, <2>1, <2>2 DEF TypeOK, PollTags, lifeVars, slotVars
  <2>5. ControlOK'
    BY <1>1, <2>1, <2>2, ActorFacts DEF ControlOK, ThreadLabels, lifeVars, l
  <2>6. Balance' = Balance
    BY <1>2, <2>1, <2>2, <2>3, BalanceLemma DEF lifeVars
  <2> QED  BY <2>2, <2>4, <2>5, <2>6 DEF IInv
<1>20. ASSUME NEW a \in Pollers, PollRearm(a)
       PROVE  IInv' /\ Balance' = Balance
  <2> DEFINE l == IF a = "init" THEN "ready" ELSE "out"
  <2>1. /\ a \in {"init", "worker"} /\ a \in Actors /\ pc[a] = "rearm" /\ l \in Labels
        /\ Goto(a, l) /\ UNCHANGED <<count, waiters, signals, lifeVars>>
    BY <1>20, ActorFacts DEF PollRearm, Pollers, Labels, lockVars
  <2> HIDE DEF l
  <2>2. /\ waiters' \in Seq(Waiters) /\ pc' \in [Actors -> Labels] /\ pc'[a] = l
        /\ QueueOK'
        /\ \A b \in Actors : b # a => pc'[b] = pc[b]
        /\ Debt(pc') = Debt(pc) + Weight(a, l) - Weight(a, pc[a])
    BY <1>1, <2>1, MoveLemma
  <2>3. Weight(a, "rearm") \in Nat /\ Weight(a, l) = Weight(a, "rearm")
    BY <2>1, WeightTable DEF l
  <2>4. TypeOK'
    BY <1>1, <1>20, <2>1, <2>2 DEF TypeOK, PollRearm, lifeVars, slotVars
  <2>5. ControlOK'
    BY <1>1, <2>1, <2>2, ActorFacts DEF ControlOK, ThreadLabels, lifeVars, l
  <2>6. Balance' = Balance
    BY <1>2, <2>1, <2>2, <2>3, BalanceLemma DEF lifeVars
  <2> QED  BY <2>2, <2>4, <2>5, <2>6 DEF IInv
<1>21. ASSUME NEW a \in Pollers, PollTold(a)
       PROVE  IInv' /\ Balance' = Balance
  <2>1. /\ a \in {"init", "worker"} /\ a \in Actors /\ pc[a] = "polled" /\ "rearm" \in Labels
        /\ Up(a, "rearm") /\ UNCHANGED <<signals, lifeVars, timer>>
    BY <1>21, ActorFacts DEF PollTold, Pollers, Labels, slotVars
  <2>2. Weight(a, "rearm") = Weight(a, pc[a]) - 1 /\ Weight(a, "rearm") \in Nat
    BY <2>1, WeightTable
  <2>3. /\ count' \in Nat /\ waiters' \in Seq(Waiters) /\ pc' \in [Actors -> Labels]
        /\ QueueOK'
        /\ pc'[a] = "rearm"
        /\ \A b \in Actors : b # a =>
             pc'[b] = pc[b] \/ (b \in Waiters /\ pc[b] = "waiting" /\ pc'[b] = "locked")
        /\ Debt(pc') \in Nat /\ count' + Debt(pc') = count + Debt(pc)
    BY <1>1, <2>1, <2>2, UpLemma
  <2>4. TypeOK'
    BY <1>1, <1>21, <2>1, <2>3 DEF TypeOK, PollTold, lifeVars, slotVars
  <2>5. ControlOK'
    BY <1>1, <2>1, <2>3, ActorFacts DEF ControlOK, ThreadLabels, lifeVars
  <2>6. Balance' = Balance
    BY <1>2, <2>1, <2>3, BalanceLemma DEF lifeVars
  <2> QED  BY <2>3, <2>4, <2>5, <2>6 DEF IInv
<1>22. ASSUME NEW a \in Pollers, PollUntold(a)
       PROVE  IInv' /\ Balance' = Balance
  <2>1. /\ a \in {"init", "worker"} /\ a \in Actors /\ pc[a] = "polled" /\ "rearm" \in Labels
        /\ Up(a, "rearm") /\ UNCHANGED <<signals, lifeVars, timer>>
    BY <1>22, ActorFacts DEF PollUntold, Pollers, Labels, slotVars
  <2>2. Weight(a, "rearm") = Weight(a, pc[a]) - 1 /\ Weight(a, "rearm") \in Nat
    BY <2>1, WeightTable
  <2>3. /\ count' \in Nat /\ waiters' \in Seq(Waiters) /\ pc' \in [Actors -> Labels]
        /\ QueueOK'
        /\ pc'[a] = "rearm"
        /\ \A b \in Actors : b # a =>
             pc'[b] = pc[b] \/ (b \in Waiters /\ pc[b] = "waiting" /\ pc'[b] = "locked")
        /\ Debt(pc') \in Nat /\ count' + Debt(pc') = count + Debt(pc)
    BY <1>1, <2>1, <2>2, UpLemma
  <2>4. TypeOK'
    BY <1>1, <1>22, <2>1, <2>3 DEF TypeOK, PollUntold, lifeVars, slotVars
  <2>5. ControlOK'
    BY <1>1, <2>1, <2>3, ActorFacts DEF ControlOK, ThreadLabels, lifeVars
  <2>6. Balance' = Balance
    BY <1>2, <2>1, <2>3, BalanceLemma DEF lifeVars
  <2> QED  BY <2>3, <2>4, <2>5, <2>6 DEF IInv
<1>23. CASE InitRegister
  <2>1. /\ "init" \in Actors /\ "registered" \in Labels /\ pc["init"] = "start"
        /\ Goto("init", "registered") /\ UNCHANGED <<count, waiters, signals>>
    BY <1>23, ActorFacts DEF InitRegister, Labels, lockVars
  <2>2. /\ waiters' \in Seq(Waiters) /\ pc' \in [Actors -> Labels] /\ pc'["init"] = "registered"
        /\ QueueOK'
        /\ \A b \in Actors : b # "init" => pc'[b] = pc[b]
        /\ Debt(pc') = Debt(pc) + Weight("init", "registered") - Weight("init", pc["init"])
    BY <1>1, <2>1, MoveLemma
  <2>3. Weight("init", "registered") = 1 /\ Weight("init", "start") = 1
    BY WeightTable
  <2>4. TypeOK'
    BY <1>1, <1>23, <2>1, <2>2 DEF TypeOK, InitRegister, lifeVars, slotVars
  <2>5. ControlOK'
    BY <1>1, <1>23, <2>1, <2>2, ActorFacts DEF ControlOK, ThreadLabels, InitRegister, lifeVars
  <2>6. Balance' = Balance
    BY <1>1, <1>2, <1>23, <2>1, <2>2, <2>3, BalanceLemma DEF ControlOK, InitRegister, lifeVars
  <2> QED  BY <2>2, <2>4, <2>5, <2>6 DEF IInv
<1>24. CASE InitPoll
  <2>1. /\ "init" \in Actors /\ "try" \in Labels /\ pc["init"] = "registered"
        /\ Goto("init", "try") /\ UNCHANGED <<count, waiters, signals>>
    BY <1>24, ActorFacts DEF InitPoll, Labels, lockVars
  <2>2. /\ waiters' \in Seq(Waiters) /\ pc' \in [Actors -> Labels] /\ pc'["init"] = "try"
        /\ QueueOK'
        /\ \A b \in Actors : b # "init" => pc'[b] = pc[b]
        /\ Debt(pc') = Debt(pc) + Weight("init", "try") - Weight("init", pc["init"])
    BY <1>1, <2>1, MoveLemma
  <2>3. Weight("init", "try") = 1 /\ Weight("init", "registered") = 1
    BY WeightTable
  <2>4. TypeOK'
    BY <1>1, <1>24, <2>1, <2>2 DEF TypeOK, InitPoll, lifeVars, slotVars
  <2>5. ControlOK'
    BY <1>1, <1>24, <2>1, <2>2, ActorFacts DEF ControlOK, ThreadLabels, InitPoll, lifeVars
  <2>6. Balance' = Balance
    BY <1>1, <1>2, <1>24, <2>1, <2>2, <2>3, BalanceLemma DEF ControlOK, InitPoll, lifeVars
  <2> QED  BY <2>2, <2>4, <2>5, <2>6 DEF IInv
<1>25. CASE InitReady
  <2>1. /\ "init" \in Actors /\ pc["init"] = "ready" /\ "out" \in Labels
        /\ Up("init", "out") /\ signals' = signals
    BY <1>25, ActorFacts DEF InitReady, Labels
  <2>2. Weight("init", "out") = Weight("init", pc["init"]) - 1 /\ Weight("init", "out") \in Nat
    BY <2>1, WeightTable
  <2>3. /\ count' \in Nat /\ waiters' \in Seq(Waiters) /\ pc' \in [Actors -> Labels]
        /\ QueueOK'
        /\ pc'["init"] = "out"
        /\ \A b \in Actors : b # "init" =>
             pc'[b] = pc[b] \/ (b \in Waiters /\ pc[b] = "waiting" /\ pc'[b] = "locked")
        /\ Debt(pc') \in Nat /\ count' + Debt(pc') = count + Debt(pc)
    BY <1>1, <2>1, <2>2, UpLemma
  <2>4. TypeOK'
    BY <1>1, <1>25, <2>1, <2>3 DEF TypeOK, InitReady, lifeVars, slotVars
  <2>5. ControlOK'
    BY <1>1, <1>25, <2>1, <2>3, ActorFacts DEF ControlOK, ThreadLabels, InitReady, lifeVars
  <2>6. Balance' = Balance
    BY <1>1, <1>2, <1>25, <2>1, <2>3, BalanceLemma DEF ControlOK, InitReady, lifeVars
  <2> QED  BY <2>3, <2>4, <2>5, <2>6 DEF IInv
<1>26. CASE InitFail
  <2>1. /\ "init" \in Actors /\ pc["init"] \in {"start", "registered"} /\ "out" \in Labels
        /\ Up("init", "out") /\ signals' = signals
    BY <1>26, ActorFacts DEF InitFail, Labels
  <2>2. Weight("init", "out") = Weight("init", pc["init"]) - 1 /\ Weight("init", "out") \in Nat
    BY <2>1, WeightTable
  <2>3. /\ count' \in Nat /\ waiters' \in Seq(Waiters) /\ pc' \in [Actors -> Labels]
        /\ QueueOK'
        /\ pc'["init"] = "out"
        /\ \A b \in Actors : b # "init" =>
             pc'[b] = pc[b] \/ (b \in Waiters /\ pc[b] = "waiting" /\ pc'[b] = "locked")
        /\ Debt(pc') \in Nat /\ count' + Debt(pc') = count + Debt(pc)
    BY <1>1, <2>1, <2>2, UpLemma
  <2>4. TypeOK'
    BY <1>1, <1>26, <2>1, <2>3 DEF TypeOK, InitFail, lifeVars, slotVars
  <2>5. ControlOK'
    BY <1>1, <1>26, <2>1, <2>3, ActorFacts DEF ControlOK, ThreadLabels, InitFail, lifeVars
  <2>6. Balance' = Balance
    BY <1>1, <1>2, <1>26, <2>1, <2>3, BalanceLemma DEF ControlOK, InitFail, lifeVars
  <2> QED  BY <2>3, <2>4, <2>5, <2>6 DEF IInv
<1>27. CASE ExitEnter
  <2>1. /\ "exit" \in Waiters /\ pc["exit"] = "out" /\ Down("exit")
        /\ UNCHANGED <<signals, registered, semInc, freed, timer, slotVars>>
        /\ teardown = "none" /\ teardown' = "going" /\ pc["init"] = "out"
    BY <1>1, <1>27 DEF ExitEnter, Waiters, ControlOK
  <2>2. /\ count' \in Nat /\ waiters' \in Seq(Waiters) /\ pc' \in [Actors -> Labels]
        /\ QueueOK'
        /\ \A b \in Actors : b # "exit" => pc'[b] = pc[b]
        /\ pc'["exit"] \in {"locked", "waiting"}
        /\ Debt(pc') \in Nat /\ count' + Debt(pc') = count + Debt(pc)
    BY <1>1, <2>1, DownLemma
  <2>3. TypeOK'
    BY <1>1, <2>1, <2>2 DEF TypeOK, slotVars
  <2>4. ControlOK'
    BY <1>1, <2>1, <2>2, ActorFacts DEF ControlOK, ThreadLabels
  <2>5. Balance' = Balance
    BY <1>2, <2>1, <2>2, BalanceLemma
  <2> QED  BY <2>2, <2>3, <2>4, <2>5 DEF IInv
<1>28. CASE ExitInterrupted
  <2>1. /\ "exit" \in Waiters /\ LeaveQueue("exit") /\ Goto("exit", "out")
        /\ UNCHANGED <<registered, semInc, freed, timer, slotVars>>
        /\ teardown = "going" /\ teardown' = "interrupted"
        /\ "out" \in Labels /\ "out" # "waiting"
    BY <1>1, <1>28 DEF ExitInterrupted, Waiters, Labels, ControlOK
  <2>2. /\ waiters' \in Seq(Waiters) /\ count' \in Nat /\ signals' \in Nat
        /\ pc' \in [Actors -> Labels]
        /\ QueueOK' /\ pc'["exit"] = "out" /\ pc["exit"] = "waiting"
        /\ \A b \in Actors : b # "exit" => pc'[b] = pc[b]
    BY <1>1, <2>1, LeaveLemma
  <2>3. TypeOK'
    BY <1>1, <2>1, <2>2 DEF TypeOK, slotVars
  <2>4. ControlOK'
    BY <1>1, <2>1, <2>2, ActorFacts DEF ControlOK, ThreadLabels
  <2>5. Debt(pc') = Debt(pc)
    <3>1. pc \in [Actors -> Labels] /\ "exit" \in Actors
      BY <1>1, ActorFacts DEF TypeOK
    <3>2. Weight("exit", "out") = 0 /\ Weight("exit", "waiting") = 0
      BY WeightTable
    <3>3. Debt(pc') = Debt(pc) + Weight("exit", pc'["exit"]) - Weight("exit", pc["exit"])
      BY <2>2, <3>1, DebtStep
    <3> QED  BY <1>2, <2>2, <3>2, <3>3
  <2>6. Balance' = Balance
    BY <1>2, <2>1, <2>5 DEF Balance, LeaveQueue, B
  <2> QED  BY <2>2, <2>3, <2>4, <2>6 DEF IInv
<1>29. CASE ExitCancel
  <2>1. /\ "exit" \in Actors /\ "destroy" \in Labels /\ pc["exit"] = "locked"
        /\ Goto("exit", "destroy") /\ UNCHANGED <<count, waiters, signals>>
    BY <1>29, ActorFacts DEF ExitCancel, Labels, lockVars
  <2>2. /\ waiters' \in Seq(Waiters) /\ pc' \in [Actors -> Labels] /\ pc'["exit"] = "destroy"
        /\ QueueOK'
        /\ \A b \in Actors : b # "exit" => pc'[b] = pc[b]
        /\ Debt(pc') = Debt(pc) + Weight("exit", "destroy") - Weight("exit", pc["exit"])
    BY <1>1, <2>1, MoveLemma
  <2>3. Weight("exit", "destroy") = 1 /\ Weight("exit", "locked") = 1
    BY WeightTable
  <2>4. TypeOK'
    BY <1>1, <1>29, <2>1, <2>2 DEF TypeOK, ExitCancel, lifeVars, slotVars
  <2>5. ControlOK'
    BY <1>1, <1>29, <2>1, <2>2, ActorFacts DEF ControlOK, ThreadLabels, ExitCancel, lifeVars
  <2>6. Balance' = Balance
    BY <1>1, <1>2, <1>29, <2>1, <2>2, <2>3, BalanceLemma DEF ControlOK, ExitCancel, lifeVars
  <2> QED  BY <2>2, <2>4, <2>5, <2>6 DEF IInv
<1>30. CASE ExitDestroy
  <2>1. /\ "exit" \in Actors /\ pc["exit"] = "destroy" /\ "out" \in Labels
        /\ Up("exit", "out") /\ signals' = signals
    BY <1>30, ActorFacts DEF ExitDestroy, Labels
  <2>2. Weight("exit", "out") = Weight("exit", pc["exit"]) - 1 /\ Weight("exit", "out") \in Nat
    BY <2>1, WeightTable
  <2>3. /\ count' \in Nat /\ waiters' \in Seq(Waiters) /\ pc' \in [Actors -> Labels]
        /\ QueueOK'
        /\ pc'["exit"] = "out"
        /\ \A b \in Actors : b # "exit" =>
             pc'[b] = pc[b] \/ (b \in Waiters /\ pc[b] = "waiting" /\ pc'[b] = "locked")
        /\ Debt(pc') \in Nat /\ count' + Debt(pc') = count + Debt(pc)
    BY <1>1, <2>1, <2>2, UpLemma
  <2>4. TypeOK'
    BY <1>1, <1>30, <2>1, <2>3 DEF TypeOK, ExitDestroy, lifeVars, slotVars
  <2>5. ControlOK'
    BY <1>1, <1>30, <2>1, <2>3, ActorFacts DEF ControlOK, ThreadLabels, ExitDestroy, lifeVars
  <2>6. Balance' = Balance
    BY <1>1, <1>2, <1>30, <2>1, <2>3, BalanceLemma DEF ControlOK, ExitDestroy, lifeVars
  <2> QED  BY <2>3, <2>4, <2>5, <2>6 DEF IInv
<1>31. CASE GadgetLoad
  <2>1. UNCHANGED <<pc, lockVars, lifeVars, timer, card, present, slotChange, host>>
          /\ notifier' \in BOOLEAN
    BY <1>31 DEF GadgetLoad
  <2>2. TypeOK'
    BY <1>1, <2>1 DEF TypeOK, lockVars, lifeVars
  <2>3. ControlOK' /\ QueueOK' /\ Balance' = Balance
    BY <1>1, <2>1 DEF ControlOK, QueueOK, Balance, lockVars, lifeVars
  <2> QED  BY <2>2, <2>3 DEF IInv
<1>32. CASE GadgetUnload
  <2>1. UNCHANGED <<pc, lockVars, lifeVars, timer, card, present, slotChange, host>>
          /\ notifier' \in BOOLEAN
    BY <1>32 DEF GadgetUnload
  <2>2. TypeOK'
    BY <1>1, <2>1 DEF TypeOK, lockVars, lifeVars
  <2>3. ControlOK' /\ QueueOK' /\ Balance' = Balance
    BY <1>1, <2>1 DEF ControlOK, QueueOK, Balance, lockVars, lifeVars
  <2> QED  BY <2>2, <2>3 DEF IInv
<1>33. CASE GadgetCall
  <2>1. PICK l \in {"out", "power_on", "power_off", "exchange"} : Goto("gadget", l)
    BY <1>33 DEF GadgetCall
  <2>2. /\ "gadget" \in Actors /\ l \in Labels
        /\ pc["gadget"] \in {"out", "power_on", "power_off", "exchange"}
        /\ UNCHANGED <<count, waiters, signals, lifeVars, timer, slotVars>>
    BY <1>1, <1>33, ActorFacts DEF GadgetCall, Labels, ControlOK, lockVars
  <2>3. /\ waiters' \in Seq(Waiters) /\ pc' \in [Actors -> Labels] /\ pc'["gadget"] = l
        /\ QueueOK'
        /\ \A b \in Actors : b # "gadget" => pc'[b] = pc[b]
        /\ Debt(pc') = Debt(pc) + Weight("gadget", l) - Weight("gadget", pc["gadget"])
    BY <1>1, <2>1, <2>2, MoveLemma
  <2>4. Weight("gadget", l) = 0 /\ Weight("gadget", pc["gadget"]) = 0
    BY <2>1, <2>2, WeightTable
  <2>5. TypeOK'
    BY <1>1, <2>2, <2>3 DEF TypeOK, lifeVars, slotVars
  <2>6. ControlOK'
    BY <1>1, <2>1, <2>2, <2>3, ActorFacts DEF ControlOK, ThreadLabels, lifeVars
  <2>7. Balance' = Balance
    BY <1>2, <2>2, <2>3, <2>4, BalanceLemma DEF lifeVars
  <2> QED  BY <2>3, <2>5, <2>6, <2>7 DEF IInv
<1>34. CASE GadgetReturn
  <2>1. PICK l \in {"out", "power_on", "power_off", "exchange"} : Goto("gadget", l)
    BY <1>34 DEF GadgetReturn
  <2>2. /\ "gadget" \in Actors /\ l \in Labels
        /\ pc["gadget"] \in {"out", "power_on", "power_off", "exchange"}
        /\ UNCHANGED <<count, waiters, signals, lifeVars, timer, slotVars>>
    BY <1>1, <1>34, ActorFacts DEF GadgetReturn, Labels, ControlOK, lockVars
  <2>3. /\ waiters' \in Seq(Waiters) /\ pc' \in [Actors -> Labels] /\ pc'["gadget"] = l
        /\ QueueOK'
        /\ \A b \in Actors : b # "gadget" => pc'[b] = pc[b]
        /\ Debt(pc') = Debt(pc) + Weight("gadget", l) - Weight("gadget", pc["gadget"])
    BY <1>1, <2>1, <2>2, MoveLemma
  <2>4. Weight("gadget", l) = 0 /\ Weight("gadget", pc["gadget"]) = 0
    BY <2>1, <2>2, WeightTable
  <2>5. TypeOK'
    BY <1>1, <2>2, <2>3 DEF TypeOK, lifeVars, slotVars
  <2>6. ControlOK'
    BY <1>1, <2>1, <2>2, <2>3, ActorFacts DEF ControlOK, ThreadLabels, lifeVars
  <2>7. Balance' = Balance
    BY <1>2, <2>2, <2>3, <2>4, BalanceLemma DEF lifeVars
  <2> QED  BY <2>3, <2>5, <2>6, <2>7 DEF IInv
<1>35. CASE CardMoves
  BY <1>1, <1>35 DEF CardMoves, IInv, TypeOK, ControlOK, QueueOK, Balance, lockVars, lifeVars
<1>36. CASE UNCHANGED vars
  BY <1>1, <1>36
  DEF vars, IInv, TypeOK, ControlOK, QueueOK, Balance, lockVars, lifeVars, slotVars
<1> QED
  BY <1>10, <1>11, <1>12, <1>13, <1>14, <1>15, <1>16, <1>17, <1>18, <1>19, <1>20, <1>21, <1>22,
     <1>23, <1>24, <1>25, <1>26, <1>27, <1>28, <1>29, <1>30, <1>31, <1>32, <1>33, <1>34, <1>35,
     <1>36
  DEF Next, Ioctl, Poll, Load, Unload, Gadget

-----------------------------------------------------------------------------
(* The theorems.                                                           *)

LEMMA InitLemma == Init => IInv /\ Balance = 1
<1> SUFFICES ASSUME Init PROVE IInv /\ Balance = 1
  OBVIOUS
<1>1. /\ pc = [a \in Actors |-> IF a = "init" THEN "start" ELSE "out"]
      /\ count = 0 /\ waiters = <<>> /\ signals = 0 /\ teardown = "none"
  BY DEF Init, InitWith
<1>2. waiters \in Seq(Waiters) /\ Len(waiters) = 0
  BY <1>1, EmptySeq
<1>3. TypeOK
  <2>1. pc \in [Actors -> Labels]
    BY <1>1 DEF Labels
  <2>2. /\ registered \in BOOLEAN /\ freed \in BOOLEAN /\ card \in BOOLEAN
        /\ present \in BOOLEAN /\ slotChange \in BOOLEAN /\ notifier \in BOOLEAN
        /\ host \in BOOLEAN
    BY Zenon DEF Init, InitWith
  <2>3. timer = "idle" /\ semInc = 0
    BY DEF Init, InitWith
  <2> QED  BY <1>1, <1>2, <2>1, <2>2, <2>3 DEF TypeOK
<1>4. ControlOK
  BY <1>1, ActorFacts DEF ControlOK, ThreadLabels
<1>5. QueueOK
  BY <1>2 DEF QueueOK
<1>6. Debt(pc) = 1
  <2>1. Holders(pc) = {"init"}
    BY <1>1, ActorFacts DEF Holders, HoldsAt
  <2>2. Interrupted(pc) = {}
    BY <1>1, ActorFacts DEF Interrupted
  <2>3. Cardinality({"init"}) = 1 /\ Cardinality({}) = 0
    BY FS_Singleton, FS_EmptySet
  <2>4. B(pc["init"] \in {"polling", "polled"}) = 0
    BY <1>1, ActorFacts DEF B
  <2> QED  BY <2>1, <2>2, <2>3, <2>4 DEF Debt
<1> QED  BY <1>1, <1>3, <1>4, <1>5, <1>6 DEF IInv, Balance, B

\* The bookkeeping of the proofs is that of the property.
LEMMA BalanceIsUnits == TypeOK => (Balance = 1 <=> UnitsAccounted)
<1> SUFFICES ASSUME TypeOK PROVE Balance = 1 <=> UnitsAccounted
  OBVIOUS
<1>1. Holders(pc) = {a \in Actors : Holds(a)}
  BY DEF Holders, HoldsAt, Holds
<1>2. /\ Cardinality(Holders(pc)) \in Nat /\ Cardinality(Interrupted(pc)) \in Nat
  <2>1. Holders(pc) \subseteq Actors /\ Interrupted(pc) \subseteq Actors
    BY ActorFacts DEF Holders, Interrupted
  <2> QED  BY <2>1, ActorsFinite, FS_Subset, FS_CardinalityType
<1>3. UnitsHeld = Cardinality(Holders(pc)) + B(pc["init"] \in {"polling", "polled"})
  BY <1>1 DEF UnitsHeld, B
<1>4. Interrupted(pc) = {t \in Threads : pc[t] = "interrupted"}
  BY DEF Interrupted
<1>5. count \in Nat /\ signals \in Nat /\ \A b \in BOOLEAN : B(b) \in Nat
  BY DEF TypeOK, B
<1> DEFINE h == Cardinality(Holders(pc))   i == Cardinality(Interrupted(pc))
           p == B(pc["init"] \in {"polling", "polled"})   e == B(teardown = "interrupted")
<1>6. Balance = count + (h + p + i) - signals + e
  BY DEF Balance, Debt
<1>7. UnitsAccounted <=> count + (h + p) + i = 1 + signals - e
  BY <1>3, <1>4 DEF UnitsAccounted, B
<1>8. h \in Nat /\ i \in Nat /\ p \in Nat /\ e \in Nat
  BY <1>2, <1>5 DEF B
<1> HIDE DEF h, i, p, e
<1> QED  BY <1>5, <1>6, <1>7, <1>8

\* The inductive invariant holds.
THEOREM Invariance == Spec => [](IInv /\ Balance = 1)
<1>1. Init => IInv /\ Balance = 1
  BY InitLemma
<1>2. (IInv /\ Balance = 1) /\ [Next]_vars => (IInv /\ Balance = 1)'
  BY Conservation
<1> QED  BY <1>1, <1>2, PTL DEF Spec

(* Every variable has its type (pcd.c: the fields of struct pcd_common),   *)
(* whatever the threads, signals, gadgets and cards do.                    *)
THEOREM TypeCorrect == Spec => []TypeOK
<1>1. IInv => TypeOK
  BY DEF IInv
<1> QED  BY <1>1, Invariance, PTL

(* Every ioctl, poll, load and unload gives back the unit it took; only an *)
(* interrupted wait adds one (pcd.c:79-83, 187).                           *)
THEOREM UnitsCorrect == Spec => []UnitsAccounted
<1>1. IInv /\ Balance = 1 => UnitsAccounted
  BY BalanceIsUnits DEF IInv
<1> QED  BY <1>1, Invariance, PTL

(* Between down and up there is at most one ioctl, poll, load or unload    *)
(* (pcd.c:79, 187, 218, 236) as long as no signal has broken a wait.       *)
THEOREM MutexCorrect == Spec => []MutexUnlessInterrupted
<1>1. TypeOK /\ UnitsAccounted => MutexUnlessInterrupted
  <2> SUFFICES ASSUME TypeOK, UnitsAccounted, signals = 0,
                      NEW a \in Actors, NEW b \in Actors, Holds(a), Holds(b), a # b
               PROVE  FALSE
    BY DEF MutexUnlessInterrupted, MutualExclusion
  <2> DEFINE H == {c \in Actors : Holds(c)}
             I == {t \in Threads : pc[t] = "interrupted"}
  <2>1. IsFiniteSet(H) /\ Cardinality(H) \in Nat /\ Cardinality(I) \in Nat
    <3>1. H \subseteq Actors /\ I \subseteq Actors
      BY ActorFacts
    <3> QED  BY <3>1, ActorsFinite, FS_Subset, FS_CardinalityType
  <2>2. Cardinality(H) >= 2
    <3>1. {a, b} \subseteq H
      OBVIOUS
    <3>2. IsFiniteSet({a}) /\ Cardinality({a}) = 1
      BY FS_Singleton
    <3>3. Cardinality({a} \cup {b}) = 2
      BY <3>2, FS_AddElement
    <3>4. {a, b} = {a} \cup {b}
      OBVIOUS
    <3>5. Cardinality({a, b}) <= Cardinality(H)
      BY <2>1, <3>1, FS_Subset
    <3> QED  BY <2>1, <3>3, <3>4, <3>5
  <2>3. count + (Cardinality(H) + IF pc["init"] \in {"polling", "polled"} THEN 1 ELSE 0)
          + Cardinality(I) = 1 + signals - IF teardown = "interrupted" THEN 1 ELSE 0
    BY DEF UnitsAccounted, UnitsHeld
  <2>4. count \in Nat
    BY DEF TypeOK
  <2> HIDE DEF H, I
  <2> QED  BY <2>1, <2>2, <2>3, <2>4
<1> QED  BY <1>1, TypeCorrect, UnitsCorrect, PTL

(* A change of presence the host has not been told of stays marked until   *)
(* it has been told (pcd.c:227-231).                                       *)
THEOREM SlotChangeCorrect == Spec => []SlotChangeNotLost
<1>1. Init => SlotChangeNotLost
  BY DEF Init, InitWith, SlotChangeNotLost
<1>2. TypeOK /\ SlotChangeNotLost /\ [Next]_vars => SlotChangeNotLost'
  <2> SUFFICES ASSUME TypeOK, SlotChangeNotLost, [Next]_vars
               PROVE  SlotChangeNotLost'
    OBVIOUS
  <2>1. CASE UNCHANGED <<present, slotChange, host>>
    BY <2>1 DEF SlotChangeNotLost
  <2>2. ASSUME NEW a \in Pollers, PollTags(a)
        PROVE  SlotChangeNotLost'
    BY <2>2 DEF PollTags, SlotChangeNotLost, TypeOK
  <2>3. ASSUME NEW a \in Pollers, PollTold(a)
        PROVE  SlotChangeNotLost'
    BY <2>3 DEF PollTold, SlotChangeNotLost
  <2>4. ASSUME ~UNCHANGED <<present, slotChange, host>>
        PROVE  \E a \in Pollers : PollTags(a) \/ PollTold(a)
    <3>1. CASE UNCHANGED vars
      BY <2>4, <3>1 DEF vars, slotVars
    <3>2. CASE \E t \in Threads : Ioctl(t)
      BY <2>4, <3>2 DEF Ioctl, IoctlEnter, IoctlInterrupted, IoctlReturn, IoctlCommand, ExchangeHangs, slotVars
    <3>3. CASE \E a \in Pollers : Poll(a)
      BY <2>4, <3>3 DEF Poll, PollTryLock, PollUntold, PollRearm, slotVars
    <3>4. CASE pcd_open \/ pcd_release \/ PollTimer \/ PollStart \/ CardMoves
      BY <2>4, <3>4 DEF pcd_open, pcd_release, PollTimer, PollStart, CardMoves, slotVars
    <3>5. CASE Load
      BY <2>4, <3>5 DEF Load, InitRegister, InitPoll, InitReady, InitFail, slotVars
    <3>6. CASE Unload
      BY <2>4, <3>6 DEF Unload, ExitEnter, ExitInterrupted, ExitCancel, ExitDestroy, slotVars
    <3>7. CASE Gadget
      BY <2>4, <3>7 DEF Gadget, GadgetLoad, GadgetUnload, GadgetCall, GadgetReturn, slotVars
    <3> QED  BY <3>1, <3>2, <3>3, <3>4, <3>5, <3>6, <3>7 DEF Next
  <2> QED  BY <2>1, <2>2, <2>3, <2>4
<1> QED  BY <1>1, <1>2, TypeCorrect, PTL DEF Spec

-----------------------------------------------------------------------------
(* How the module goes away.                                               *)

\* No descriptor, no thread in the driver; no gadget, no call of its; and
\* once pcd_exit has begun there is neither.
UsersOK ==
  /\ semInc = 0 => \A t \in Threads : pc[t] = "out"
  /\ ~notifier => pc["gadget"] = "out"
  /\ teardown \in {"going", "interrupted", "cancelled", "flushed"} => semInc = 0 /\ ~notifier
  /\ freed => pc["exit"] = "out" /\ teardown # "none"

\* The poll is pending or running, one of the two and for ever, from the time
\* pcd_init has queued it until pcd_exit catches its timer.
PollOK ==
  /\ pc["init"] \notin {"ready", "out"} \/ teardown \in {"failed", "cancelled"} =>
       timer = "idle" /\ pc["worker"] = "out"
  /\ pc["init"] \in {"ready", "out"} /\ teardown \notin {"failed", "cancelled"} =>
       (timer = "idle" <=> pc["worker"] # "out")

LifeOK == UsersOK /\ PollOK

\* What up does to the places of the tasks.
LEMMA UpMoves ==
  ASSUME TypeOK, QueueOK, NEW a \in Actors, NEW l, pc[a] # "waiting", Up(a, l)
  PROVE  /\ pc'[a] = l
         /\ \A b \in Actors : b # a => pc'[b] = pc[b] \/ (pc[b] = "waiting" /\ pc'[b] = "locked")
<1>1. pc \in [Actors -> Labels] /\ waiters \in Seq(Waiters)
  BY DEF TypeOK
<1>2. CASE waiters = <<>> /\ Goto(a, l)
  BY <1>1, <1>2 DEF Goto
<1>3. CASE waiters # <<>> /\ pc' = [pc EXCEPT ![a] = l, ![Head(waiters)] = "locked"]
  <2>1. Len(waiters) \in Nat /\ 1 \in 1..Len(waiters) /\ Head(waiters) = waiters[1]
    BY <1>1, <1>3, EmptySeq, LenProperties
  <2>2. pc[Head(waiters)] = "waiting" /\ Head(waiters) # a
    BY <2>1 DEF QueueOK
  <2> QED  BY <1>1, <1>3, <2>2
<1> QED  BY <1>2, <1>3 DEF Up

\* Of down and of the moves of a single task.
LEMMA OneMoves ==
  ASSUME TypeOK, NEW a \in Actors
  PROVE  /\ Down(a) => /\ pc'[a] \in {"locked", "waiting"}
                       /\ \A b \in Actors : b # a => pc'[b] = pc[b]
         /\ \A l : Goto(a, l) => pc'[a] = l /\ \A b \in Actors : b # a => pc'[b] = pc[b]
BY DEF TypeOK, Down, Goto

\* The calls of a thread: a descriptor is open as long as one is running.
LEMMA LifeUser ==
  ASSUME IInv, LifeOK, NEW t \in Threads, Ioctl(t)
  PROVE  LifeOK'
<1>1. TypeOK /\ ControlOK /\ QueueOK /\ t \in Actors
  BY ActorFacts DEF IInv
<1>2. semInc # 0 /\ UNCHANGED <<semInc, teardown, freed, timer, notifier>>
  <2>1. semInc > 0 \/ pc[t] # "out"
    BY DEF Ioctl, IoctlEnter, IoctlInterrupted, IoctlReturn, IoctlCommand, ExchangeHangs
  <2>2. UNCHANGED <<semInc, teardown, freed, timer, notifier>>
    BY DEF Ioctl, IoctlEnter, IoctlInterrupted, IoctlReturn, IoctlCommand, ExchangeHangs, lifeVars, slotVars
  <2> QED  BY <2>1, <2>2 DEF LifeOK, UsersOK
<1>3. \A b \in Actors : b # t => pc'[b] = pc[b] \/ (pc[b] = "waiting" /\ pc'[b] = "locked")
  <2>1. pc[t] # "waiting" \/ IoctlInterrupted(t)
    BY DEF Ioctl, IoctlEnter, IoctlReturn, IoctlCommand, ExchangeHangs
  <2> QED  BY <1>1, <2>1, UpMoves, OneMoves
           DEF Ioctl, IoctlEnter, IoctlInterrupted, IoctlReturn, IoctlCommand, ExchangeHangs
<1>4. \A k \in {"init", "worker", "gadget"} : pc'[k] = pc[k]
  BY <1>1, <1>3, ActorFacts DEF ControlOK
<1>5. pc["exit"] = "out" => pc'["exit"] = "out"
  BY <1>3, ActorFacts
<1> QED  BY <1>2, <1>4, <1>5 DEF LifeOK, UsersOK, PollOK

\* The poll runs, and re-arms itself.
LEMMA LifePoll ==
  ASSUME IInv, LifeOK, NEW a \in Pollers, Poll(a)
  PROVE  LifeOK'
<1>1. TypeOK /\ ControlOK /\ QueueOK /\ a \in Actors /\ a \notin Threads /\ a \in {"init", "worker"}
  BY ActorFacts DEF IInv, Pollers
<1>2. UNCHANGED <<semInc, teardown, freed, notifier>>
  BY DEF Poll, PollTryLock, PollTags, PollTold, PollUntold, PollRearm, lifeVars, slotVars
<1>3. /\ pc[a] \in {"try", "polling", "polled", "rearm"}
      /\ \A b \in Actors : b # a => pc'[b] = pc[b] \/ (pc[b] = "waiting" /\ pc'[b] = "locked")
  BY <1>1, UpMoves, OneMoves DEF Poll, PollTryLock, PollTags, PollTold, PollUntold, PollRearm
<1>4. \/ pc'[a] \in {"try", "polling", "polled", "rearm"} /\ timer' = timer
      \/ /\ pc'[a] = (IF a = "init" THEN "ready" ELSE "out")
         /\ timer' = IF timer = "idle" THEN "armed" ELSE timer
  BY <1>1, UpMoves, OneMoves
     DEF Poll, PollTryLock, PollTags, PollTold, PollUntold, PollRearm
<1>5. UsersOK'
  <2>1. \A t \in Threads : pc[t] = "out" => pc'[t] = "out"
    BY <1>1, <1>3, ActorFacts
  <2>2. /\ pc["gadget"] = "out" => pc'["gadget"] = "out"
        /\ pc["exit"] = "out" => pc'["exit"] = "out"
    BY <1>1, <1>3, ActorFacts
  <2> QED  BY <1>2, <2>1, <2>2 DEF LifeOK, UsersOK
<1>6. PollOK'
  <2>1. CASE a = "init"
    <3>1. pc'["worker"] = pc["worker"] /\ teardown = "none" /\ pc["init"] \notin {"ready", "out"}
      BY <1>1, <1>3, <2>1, ActorFacts DEF ControlOK
    <3> QED  BY <1>2, <1>4, <2>1, <3>1 DEF LifeOK, PollOK
  <2>2. CASE a = "worker"
    <3>1. pc'["init"] = pc["init"] /\ pc["worker"] # "out"
      BY <1>1, <1>3, <2>2, ActorFacts DEF ControlOK
    <3> QED  BY <1>2, <1>4, <2>2, <3>1 DEF LifeOK, PollOK
  <2> QED  BY <1>1, <2>1, <2>2
<1> QED  BY <1>5, <1>6 DEF LifeOK

\* pcd_init: when it returns, the poll is queued, or the module is not there.
LEMMA LifeLoad ==
  ASSUME IInv, LifeOK, Load
  PROVE  LifeOK'
<1>1. TypeOK /\ ControlOK /\ QueueOK /\ pc["init"] \in {"start", "registered", "ready"}
        /\ teardown = "none"
  BY DEF IInv, Load, InitRegister, InitPoll, InitReady, InitFail, ControlOK
<1>2. \A b \in Actors : b # "init" => pc'[b] = pc[b] \/ (pc[b] = "waiting" /\ pc'[b] = "locked")
  BY <1>1, UpMoves, OneMoves, ActorFacts DEF Load, InitRegister, InitPoll, InitReady, InitFail
<1>3. UNCHANGED <<semInc, timer, notifier>>
  BY DEF Load, InitRegister, InitPoll, InitReady, InitFail, lifeVars, slotVars
<1>4. UsersOK'
  <2>1. \A t \in Threads : pc[t] = "out" => pc'[t] = "out"
    BY <1>2, ActorFacts
  <2>2. /\ pc["gadget"] = "out" => pc'["gadget"] = "out"
        /\ pc["exit"] = "out" => pc'["exit"] = "out"
    BY <1>2, ActorFacts
  <2>3. pc["exit"] = "out"
    BY <1>1 DEF ControlOK
  <2>4. teardown' \in {"none", "failed"} /\ (freed' => teardown' = "failed")
    BY <1>1 DEF Load, InitRegister, InitPoll, InitReady, InitFail, lifeVars, LifeOK, UsersOK
  <2> QED  BY <1>3, <2>1, <2>2, <2>3, <2>4 DEF LifeOK, UsersOK
<1>5. PollOK'
  <2>1. pc'["worker"] = pc["worker"]
    BY <1>1, <1>2, ActorFacts DEF ControlOK
  <2>2. \/ pc["init"] # "ready" /\ pc'["init"] \in {"registered", "try"} /\ teardown' = "none"
        \/ pc["init"] = "ready" /\ pc'["init"] = "out" /\ teardown' = "none"
        \/ pc["init"] # "ready" /\ pc'["init"] = "out" /\ teardown' = "failed"
    BY <1>1, UpMoves, OneMoves, ActorFacts
       DEF Load, InitRegister, InitPoll, InitReady, InitFail, lifeVars
  <2> QED  BY <1>1, <1>3, <2>1, <2>2 DEF LifeOK, PollOK
<1> QED  BY <1>4, <1>5 DEF LifeOK

\* pcd_exit: no user is left when it begins.
LEMMA LifeUnload ==
  ASSUME IInv, LifeOK, Unload
  PROVE  LifeOK'
<1>1. TypeOK /\ ControlOK /\ QueueOK
  BY DEF IInv
<1>2. UNCHANGED <<semInc, notifier>>
  BY DEF Unload, ExitEnter, ExitInterrupted, ExitCancel, ExitDestroy, slotVars
<1>3. pc["init"] = "out" /\ semInc = 0 /\ ~notifier
  <2>1. CASE ExitEnter
    BY <2>1 DEF ExitEnter
  <2>2. CASE ExitInterrupted \/ ExitCancel \/ ExitDestroy
    <3>1. pc["exit"] \in {"waiting", "locked", "destroy"}
      BY <2>2 DEF ExitInterrupted, ExitCancel, ExitDestroy
    <3> QED  BY <1>1, <3>1 DEF ControlOK, LifeOK, UsersOK
  <2> QED  BY <2>1, <2>2 DEF Unload
<1>4. \A b \in Actors : b # "exit" => pc'[b] = pc[b] \/ (pc[b] = "waiting" /\ pc'[b] = "locked")
  BY <1>1, UpMoves, OneMoves, ActorFacts
     DEF Unload, ExitEnter, ExitInterrupted, ExitCancel, ExitDestroy
<1>5. \A b \in Actors : b # "exit" /\ pc[b] # "waiting" => pc'[b] = pc[b]
  BY <1>4
<1>6. /\ \A t \in Threads : pc'[t] = "out"
      /\ pc'["gadget"] = "out" /\ pc'["init"] = "out" /\ pc'["worker"] = pc["worker"]
  <2>1. /\ \A t \in Threads : pc[t] = "out" /\ t \in Actors /\ t # "exit"
        /\ pc["gadget"] = "out" /\ pc["worker"] # "waiting"
    BY <1>1, <1>3, ActorFacts DEF LifeOK, UsersOK, ControlOK
  <2> QED  BY <1>3, <1>5, <2>1, ActorFacts
<1>7. freed' => pc'["exit"] = "out"
  <2>1. ~freed \/ pc["exit"] = "out"
    BY DEF LifeOK, UsersOK
  <2>2. CASE ExitDestroy
    BY <1>1, <2>2, UpMoves, ActorFacts DEF ExitDestroy
  <2>3. CASE ExitInterrupted
    BY <1>1, <2>3, OneMoves, ActorFacts DEF ExitInterrupted
  <2>4. CASE ExitCancel
    BY <2>1, <2>4 DEF ExitCancel, lifeVars
  <2>5. CASE ExitEnter
    BY <2>5 DEF ExitEnter, LifeOK, UsersOK
  <2> QED  BY <2>2, <2>3, <2>4, <2>5 DEF Unload
<1>8. PollOK'
  <2>1. CASE ExitCancel
    <3>1. teardown = "going"
      BY <1>1, <2>1 DEF ExitCancel, ControlOK
    <3> QED  BY <1>3, <1>6, <2>1, <3>1 DEF ExitCancel, LifeOK, PollOK
  <2>2. CASE ExitEnter
    BY <1>3, <1>6, <2>2 DEF ExitEnter, LifeOK, PollOK
  <2>3. CASE ExitInterrupted
    BY <1>1, <1>3, <1>6, <2>3 DEF ExitInterrupted, LifeOK, PollOK, ControlOK
  <2>4. CASE ExitDestroy
    BY <1>3, <1>6, <2>4 DEF ExitDestroy, LifeOK, PollOK
  <2> QED  BY <2>1, <2>2, <2>3, <2>4 DEF Unload
<1>9. teardown' # "none"
  BY <1>1 DEF Unload, ExitEnter, ExitInterrupted, ExitCancel, ExitDestroy, ControlOK
<1> QED  BY <1>2, <1>3, <1>6, <1>7, <1>8, <1>9 DEF LifeOK, UsersOK

\* Every step keeps LifeOK.
LEMMA LifeNext == IInv /\ LifeOK /\ [Next]_vars => LifeOK'
<1> SUFFICES ASSUME IInv, LifeOK, [Next]_vars PROVE LifeOK'
  OBVIOUS
<1>1. TypeOK /\ ControlOK
  BY DEF IInv
<1>2. CASE pcd_open \/ pcd_release
  <2>1. /\ UNCHANGED <<pc, teardown, freed, timer, notifier>>
        /\ \/ teardown = "none" /\ semInc' # 0
           \/ semInc > 0 /\ \A t \in Threads : pc[t] = "out"
    BY <1>2 DEF pcd_open, pcd_release, slotVars
  <2>2. semInc > 0 => semInc # 0
    BY <1>1 DEF TypeOK
  <2> QED  BY <2>1, <2>2 DEF LifeOK, UsersOK, PollOK
<1>3. CASE PollTimer \/ PollStart
  <2>1. UNCHANGED <<semInc, teardown, freed, notifier>> /\ timer # "idle"
    BY <1>3 DEF PollTimer, PollStart, lifeVars, slotVars
  <2>2. /\ \A b \in Actors : b # "worker" => pc'[b] = pc[b]
        /\ \/ timer' # "idle" /\ pc'["worker"] = pc["worker"]
           \/ timer' = "idle" /\ pc["worker"] = "out" /\ pc'["worker"] = "try"
    BY <1>1, <1>3, OneMoves, ActorFacts DEF PollTimer, PollStart
  <2>3. \A t \in Threads : pc'[t] = pc[t]
    BY <2>2, ActorFacts
  <2>4. \A k \in {"init", "exit", "gadget"} : pc'[k] = pc[k]
    BY <2>2, ActorFacts
  <2> QED  BY <2>1, <2>2, <2>3, <2>4 DEF LifeOK, UsersOK, PollOK
<1>4. CASE Gadget
  <2>1. UNCHANGED <<semInc, teardown, freed, timer>>
    BY <1>4 DEF Gadget, GadgetLoad, GadgetUnload, GadgetCall, GadgetReturn, lifeVars
  <2>2. \A b \in Actors : b # "gadget" => pc'[b] = pc[b]
    BY <1>1, <1>4, OneMoves, ActorFacts
       DEF Gadget, GadgetLoad, GadgetUnload, GadgetCall, GadgetReturn
  <2>3. \/ pc'["gadget"] = "out" /\ (notifier' = notifier \/ ~notifier' \/ teardown = "none")
        \/ notifier /\ notifier' = notifier
        \/ teardown = "none" /\ notifier' = TRUE
    BY <1>1, <1>4, OneMoves, ActorFacts
       DEF Gadget, GadgetLoad, GadgetUnload, GadgetCall, GadgetReturn, slotVars
  <2>4. \A t \in Threads : pc'[t] = pc[t]
    BY <2>2, ActorFacts
  <2>5. \A k \in {"init", "exit", "worker"} : pc'[k] = pc[k]
    BY <2>2, ActorFacts
  <2>6. notifier' \in BOOLEAN /\ (teardown # "none" /\ notifier' => notifier)
    <3>1. notifier \in BOOLEAN
      BY <1>1 DEF TypeOK
    <3>2. CASE GadgetLoad
      BY <3>2 DEF GadgetLoad
    <3>3. CASE GadgetUnload
      BY <3>3 DEF GadgetUnload
    <3>4. CASE GadgetCall \/ GadgetReturn
      BY <3>1, <3>4 DEF GadgetCall, GadgetReturn, slotVars
    <3> QED  BY <1>4, <3>2, <3>3, <3>4 DEF Gadget
  <2> QED  BY <1>1, <2>1, <2>3, <2>4, <2>5, <2>6 DEF LifeOK, UsersOK, PollOK, TypeOK
<1>5. CASE CardMoves \/ UNCHANGED vars
  BY <1>5 DEF CardMoves, vars, lifeVars, slotVars, LifeOK, UsersOK, PollOK
<1> QED  BY <1>2, <1>3, <1>4, <1>5, LifeUser, LifePoll, LifeLoad, LifeUnload DEF Next

(* pcd_exit leaves nobody behind that could touch the freed common when,   *)
(* and only when, it caught the poll in its timer (pcd.c:320-333).         *)
THEOREM UnloadCorrect == Spec => []CleanUnload
<1>1. Init => LifeOK
  BY ActorFacts DEF Init, InitWith, LifeOK, UsersOK, PollOK
<1>2. IInv /\ LifeOK => CleanUnload
  <2> SUFFICES ASSUME IInv, LifeOK, freed, teardown \in {"cancelled", "flushed"}
               PROVE  Quiescent <=> teardown = "cancelled"
    BY DEF CleanUnload
  <2>1. pc["init"] = "out" /\ pc["exit"] = "out" /\ pc["gadget"] = "out"
          /\ \A t \in Threads : pc[t] = "out"
    BY DEF IInv, ControlOK, LifeOK, UsersOK
  <2>2. Quiescent <=> timer = "idle" /\ pc["worker"] = "out"
    BY <2>1 DEF Quiescent, Actors, Kernel
  <2> QED  BY <2>1, <2>2 DEF LifeOK, PollOK
<1> QED  BY <1>1, <1>2, LifeNext, Invariance, PTL DEF Spec
=============================================================================
