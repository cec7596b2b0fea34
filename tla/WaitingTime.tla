---------------------------- MODULE WaitingTime ----------------------------
(***************************************************************************)
(* How long the chip waits for the answer to a block: what                 *)
(* typeA_set_timeout of mod/src/iso14444.c writes into the 12-bit          *)
(* prescaler and the 16-bit reload value of its timer, against the frame   *)
(* waiting time of ISO/IEC 14443-4.                                        *)
(***************************************************************************)
EXTENDS Naturals

FWIs  == 0 .. 14
WTXMs == 1 .. 59    \* typeA_data_send_error_check refuses the others

Slots(p, r) == [prescaler |-> p, reload |-> r]

----------------------------------------------------------------------------
(* iso14444.c                                                              *)

\* A mutant: the last rows with the prescaler of those before.
fwi_tableRow(fwi) ==
  CASE fwi \in 0 .. 4 -> Slots(17, 128 * 2^fwi)
    [] fwi \in 5 .. 8 -> Slots(68, <<1046, 2092, 4185, 8371>>[fwi - 4])
    [] OTHER          -> Slots(68, <<1692, 3095, 6766, 13533, 27065, 54130>>[fwi - 8])

fwi_table(fwi) ==
  CASE fwi \in 0 .. 4 -> Slots(17, 128 * 2^fwi)
    [] fwi \in 5 .. 8 -> Slots(68, <<1046, 2092, 4185, 8371>>[fwi - 4])
    [] OTHER          -> Slots(677, <<1692, 3095, 6766, 13533, 27065, 54130>>[fwi - 8])

\* WTX_REQUEST stretches the slots where the prescaler has room for it, and
\* their number where it has not; that number has sixteen bits.
Stretch(fwi, t, wtxm) ==
  IF fwi < 9
  THEN LET p == t.prescaler * wtxm IN Slots(IF p > 4095 THEN 4095 ELSE p, t.reload)
  ELSE Slots(t.prescaler, (t.reload * wtxm) % 65536)

\* wtxm is 1 without WTX_REQUEST; slack is what type B adds.
typeA_set_timeout(fwi, wtxm, slack) ==
  LET t == fwi_table(fwi) IN Stretch(fwi, Slots(t.prescaler, t.reload + slack), wtxm)

----------------------------------------------------------------------------
(* The timer of the chip counts from reload down to and past 0 in slots of *)
(* 2 * prescaler + 1 clocks; the clock has 13.56 MHz.                      *)

Clocks(t) == (2 * t.prescaler + 1) * (t.reload + 1)

FWT(fwi) == 4096 * 2^fwi

Slacks == {0, 8, 16, 28, 36}

\* What a timer set for the frame waiting time, times wtxm, falls short of by
\* more than a thousandth (the entry for FWI 10 leaves no margin).
TooShort(fwi, wtxm, slack) ==
  Clocks(typeA_set_timeout(fwi, wtxm, slack)) \div wtxm < FWT(fwi) - FWT(fwi) \div 1000

\* From FWI 9 on the number of slots wraps around for the larger extensions.
Wraps(fwi, wtxm, slack) == fwi >= 9 /\ (fwi_table(fwi).reload + slack) * wtxm >= 65536

CoversFWT == \A fwi \in FWIs, slack \in Slacks : ~TooShort(fwi, 1, slack)

CoversExtension ==
  \A fwi \in FWIs, slack \in Slacks, wtxm \in WTXMs :
    ~Wraps(fwi, wtxm, slack) => ~TooShort(fwi, wtxm, slack)

============================================================================
