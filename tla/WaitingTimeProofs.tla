------------------------ MODULE WaitingTimeProofs ------------------------
(***************************************************************************)
(* The timer values of WaitingTime cover the frame waiting time, for every *)
(* FWI, WTXM and guard of type B.  The proof goes through the table entry  *)
(* by entry; within an entry the wait is linear in WTXM.                   *)
(***************************************************************************)
EXTENDS WaitingTime, TLAPS

\* A wait that covers w times a time covers that time w times.
LEMMA Shares ==
  ASSUME NEW x \in Nat, NEW w \in WTXMs, NEW K \in Nat, x >= K * w
  PROVE  x \div w >= K
  BY DEF WTXMs

\* What a wait without or with an extension must not fall below.
Enough(fwi) == FWT(fwi) - FWT(fwi) \div 1000

\* Each entry of the table covers its waiting time, even without the odd clock
\* of every slot, or without the last slot, which an extension does not stretch.
LEMMA Entries ==
  ASSUME NEW fwi \in FWIs
  PROVE  LET t == fwi_table(fwi)
         IN  /\ t.prescaler \in Nat /\ t.reload \in Nat
             /\ fwi < 9 => t.prescaler <= 68
             /\ FWT(fwi) \in Nat /\ Enough(fwi) \in Nat
             /\ (2 * t.prescaler) * (t.reload + 1) >= Enough(fwi)
             /\ (2 * t.prescaler + 1) * t.reload >= Enough(fwi)
<1>0. CASE fwi = 0
  <2>1. fwi_table(0) = Slots(17, 128)
    BY DEF fwi_table, Slots
  <2>2. FWT(0) = 4096 /\ Enough(0) = 4092
    BY DEF FWT, Enough
  <2> QED  BY <1>0, <2>1, <2>2 DEF Slots
<1>1. CASE fwi = 1
  <2>1. fwi_table(1) = Slots(17, 256)
    BY DEF fwi_table, Slots
  <2>2. FWT(1) = 8192 /\ Enough(1) = 8184
    BY DEF FWT, Enough
  <2> QED  BY <1>1, <2>1, <2>2 DEF Slots
<1>2. CASE fwi = 2
  <2>1. fwi_table(2) = Slots(17, 512)
    BY DEF fwi_table, Slots
  <2>2. FWT(2) = 16384 /\ Enough(2) = 16368
    BY DEF FWT, Enough
  <2> QED  BY <1>2, <2>1, <2>2 DEF Slots
<1>3. CASE fwi = 3
  <2>1. fwi_table(3) = Slots(17, 1024)
    BY DEF fwi_table, Slots
  <2>2. FWT(3) = 32768 /\ Enough(3) = 32736
    BY DEF FWT, Enough
  <2> QED  BY <1>3, <2>1, <2>2 DEF Slots
<1>4. CASE fwi = 4
  <2>1. fwi_table(4) = Slots(17, 2048)
    BY DEF fwi_table, Slots
  <2>2. FWT(4) = 65536 /\ Enough(4) = 65471
    BY DEF FWT, Enough
  <2> QED  BY <1>4, <2>1, <2>2 DEF Slots
<1>5. CASE fwi = 5
  <2>1. fwi_table(5) = Slots(68, 1046)
    BY DEF fwi_table, Slots
  <2>2. FWT(5) = 131072 /\ Enough(5) = 130941
    BY DEF FWT, Enough
  <2> QED  BY <1>5, <2>1, <2>2 DEF Slots
<1>6. CASE fwi = 6
  <2>1. fwi_table(6) = Slots(68, 2092)
    BY DEF fwi_table, Slots
  <2>2. FWT(6) = 262144 /\ Enough(6) = 261882
    BY DEF FWT, Enough
  <2> QED  BY <1>6, <2>1, <2>2 DEF Slots
<1>7. CASE fwi = 7
  <2>1. fwi_table(7) = Slots(68, 4185)
    BY DEF fwi_table, Slots
  <2>2. FWT(7) = 524288 /\ Enough(7) = 523764
    BY DEF FWT, Enough
  <2> QED  BY <1>7, <2>1, <2>2 DEF Slots
<1>8. CASE fwi = 8
  <2>1. fwi_table(8) = Slots(68, 8371)
    BY DEF fwi_table, Slots
  <2>2. FWT(8) = 1048576 /\ Enough(8) = 1047528
    BY DEF FWT, Enough
  <2> QED  BY <1>8, <2>1, <2>2 DEF Slots
<1>9. CASE fwi = 9
  <2>1. fwi_table(9) = Slots(677, 1692)
    BY DEF fwi_table, Slots
  <2>2. FWT(9) = 2097152 /\ Enough(9) = 2095055
    BY DEF FWT, Enough
  <2> QED  BY <1>9, <2>1, <2>2 DEF Slots
<1>10. CASE fwi = 10
  <2>1. fwi_table(10) = Slots(677, 3095)
    BY DEF fwi_table, Slots
  <2>2. FWT(10) = 4194304 /\ Enough(10) = 4190110
    BY DEF FWT, Enough
  <2> QED  BY <1>10, <2>1, <2>2 DEF Slots
<1>11. CASE fwi = 11
  <2>1. fwi_table(11) = Slots(677, 6766)
    BY DEF fwi_table, Slots
  <2>2. FWT(11) = 8388608 /\ Enough(11) = 8380220
    BY DEF FWT, Enough
  <2> QED  BY <1>11, <2>1, <2>2 DEF Slots
<1>12. CASE fwi = 12
  <2>1. fwi_table(12) = Slots(677, 13533)
    BY DEF fwi_table, Slots
  <2>2. FWT(12) = 16777216 /\ Enough(12) = 16760439
    BY DEF FWT, Enough
  <2> QED  BY <1>12, <2>1, <2>2 DEF Slots
<1>13. CASE fwi = 13
  <2>1. fwi_table(13) = Slots(677, 27065)
    BY DEF fwi_table, Slots
  <2>2. FWT(13) = 33554432 /\ Enough(13) = 33520878
    BY DEF FWT, Enough
  <2> QED  BY <1>13, <2>1, <2>2 DEF Slots
<1>14. CASE fwi = 14
  <2>1. fwi_table(14) = Slots(677, 54130)
    BY DEF fwi_table, Slots
  <2>2. FWT(14) = 67108864 /\ Enough(14) = 67041756
    BY DEF FWT, Enough
  <2> QED  BY <1>14, <2>1, <2>2 DEF Slots
<1> QED  BY <1>0, <1>1, <1>2, <1>3, <1>4, <1>5, <1>6, <1>7, <1>8, <1>9, <1>10, <1>11, <1>12, <1>13, <1>14 DEF FWIs

\* The sixteen and twelve bits suffice, but for the waits that wrap around.
LEMMA Covered ==
  ASSUME NEW fwi \in FWIs, NEW slack \in Slacks, NEW w \in WTXMs, ~Wraps(fwi, w, slack)
  PROVE  ~TooShort(fwi, w, slack)
<1> DEFINE p == fwi_table(fwi).prescaler
           r == fwi_table(fwi).reload
           E == Enough(fwi)
           set == typeA_set_timeout(fwi, w, slack)
<1>1. /\ p \in Nat /\ r \in Nat /\ E \in Nat
      /\ fwi < 9 => p <= 68
      /\ (2 * p) * (r + 1) >= E
      /\ (2 * p + 1) * r >= E
  BY Entries
<1>2. w \in Nat /\ slack \in Nat /\ fwi \in Nat /\ w <= 59 /\ w >= 1
  BY DEF WTXMs, Slacks, FWIs
<1> HIDE DEF p, r, E
<1>3. Clocks(set) \in Nat /\ Clocks(set) >= E * w
  <2>1. CASE fwi < 9
    <3>1. p * w \in Nat /\ p * w <= 4095
      <4>1. p * w <= 68 * w
        BY <1>1, <1>2, <2>1
      <4> QED  BY <1>1, <1>2, <4>1
    <3>2. set = Slots(p * w, r + slack)
      BY <1>1, <1>2, <2>1, <3>1 DEF typeA_set_timeout, Stretch, Slots, p, r
    <3>3. Clocks(set) = (2 * (p * w) + 1) * (r + slack + 1)
      BY <1>1, <1>2, <3>1, <3>2 DEF Clocks, Slots
    <3>4. (2 * (p * w) + 1) * (r + slack + 1) >= (2 * (p * w)) * (r + 1)
      BY <1>1, <1>2, <3>1
    <3>5. (2 * (p * w)) * (r + 1) = ((2 * p) * (r + 1)) * w
      BY <1>1, <1>2
    <3>6. ((2 * p) * (r + 1)) * w >= E * w
      BY <1>1, <1>2
    <3> QED  BY <1>1, <1>2, <3>1, <3>3, <3>4, <3>5, <3>6
  <2>2. CASE fwi >= 9
    <3>1. (r + slack) * w \in Nat /\ (r + slack) * w < 65536
      BY <1>1, <1>2, <2>2 DEF Wraps, r
    <3>2. set = Slots(p, (r + slack) * w)
      BY <1>1, <1>2, <2>2, <3>1 DEF typeA_set_timeout, Stretch, Slots, p, r
    <3>3. Clocks(set) = (2 * p + 1) * ((r + slack) * w + 1)
      BY <1>1, <1>2, <3>1, <3>2 DEF Clocks, Slots
    <3>4. (r + slack) * w + 1 >= r * w
      BY <1>1, <1>2
    <3>5. (2 * p + 1) * ((r + slack) * w + 1) >= (2 * p + 1) * (r * w)
      BY <1>1, <1>2, <3>1, <3>4
    <3>6. (2 * p + 1) * (r * w) = ((2 * p + 1) * r) * w
      BY <1>1, <1>2
    <3>7. ((2 * p + 1) * r) * w >= E * w
      BY <1>1, <1>2
    <3> QED  BY <1>1, <1>2, <3>1, <3>3, <3>5, <3>6, <3>7
  <2> QED  BY <1>2, <2>1, <2>2
<1> DEFINE c == Clocks(set)
<1>4. c \in Nat /\ c >= E * w
  BY <1>3
<1>5. TooShort(fwi, w, slack) <=> c \div w < E
  BY DEF TooShort, Enough, E
<1> HIDE DEF c
<1>6. c \div w >= E
  BY <1>1, <1>4, Shares
<1>7. c \div w \in Nat
  BY <1>2, <1>4
<1>8. ~(c \div w < E)
  BY <1>1, <1>2, <1>6, <1>7
<1> QED  BY <1>5, <1>8

\* The timer of an ordinary wait covers the frame waiting time, for every FWI
\* and both types.
THEOREM OrdinaryWait == CoversFWT
<1> SUFFICES ASSUME NEW fwi \in FWIs, NEW slack \in Slacks
             PROVE  ~TooShort(fwi, 1, slack)
  BY DEF CoversFWT
<1>1. ~Wraps(fwi, 1, slack)
  <2>1. CASE fwi < 9
    BY <2>1 DEF Wraps, FWIs
  <2>2. CASE fwi >= 9
    <3>1. fwi_table(fwi).reload \in Nat /\ fwi_table(fwi).reload <= 54130
      BY <2>2 DEF fwi_table, Slots, FWIs
    <3> QED  BY <3>1 DEF Wraps, Slacks
  <2> QED  BY <2>1, <2>2 DEF FWIs
<1> QED  BY <1>1, Covered DEF WTXMs

\* The timer of an extended wait covers the multiple that the card was granted,
\* unless the number of slots wraps around.
THEOREM ExtendedWait == CoversExtension
  BY Covered DEF CoversExtension

==========================================================================
