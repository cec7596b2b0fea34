---------------------------- MODULE Pn512Engine ----------------------------
(***************************************************************************)
(* The request engine of mod/src/pn512.c: pn512_process_request starts a   *)
(* command of the reader chip and sleeps; the chip raises its interrupt,   *)
(* whose handler only queues pn512_irq_work_queue; the work item reads the *)
(* interrupt flags, collects the answer and completes the request.  There  *)
(* is one request structure, one completion, one interrupt mask.           *)
(*                                                                         *)
(* The steps are the accesses to the chip that other parties can tell      *)
(* apart: the chip itself runs all the time, in between any two of them.   *)
(* On the uniprocessor the driver is made for the work item runs only      *)
(* while the requester sleeps or is outside of the spinlock; the requester *)
(* can overtake a work item only if the kernel is preemptible.             *)
(*                                                                         *)
(* The chip (PN512) is not part of the sources: it is modelled as the      *)
(* driver uses it.  A frame is its bytes' owner and number, an answer has  *)
(* 1 to MaxAnswer bytes, the FIFO holds FifoSize.                          *)
(***************************************************************************)
EXTENDS Integers, Sequences

CONSTANTS
  FifoSize,   \* the bytes the FIFO of the chip holds
  HiLevel,    \* the level from which on it signals HiAlert
  MaxAnswer,  \* the bytes of the longest answer of a card
  NumIds,     \* requests are numbered modulo NumIds
  Builds      \* the values of CONFIG_PREEMPT considered

ASSUME FifoAssumption   == FifoSize \in Nat /\ HiLevel \in 1..FifoSize
ASSUME AnswerAssumption == MaxAnswer \in Nat \ {0}
ASSUME IdsAssumption    == NumIds \in Nat \ {0}
ASSUME BuildsAssumption == Builds \subseteq BOOLEAN

Flags == {"Tx", "Rx", "Idle", "HiAlert", "Err", "Timer"}
Ids   == 0..NumIds - 1

\* CMD_TRANSCEIVE, CMD_TRANSMIT (topaz) and CMD_MFAUTHENT.
Kinds == {"transceive", "transmit", "auth"}

VARIABLES
  preempt,    \* CONFIG_PREEMPT
  rpc,        \* where the requester is
  req,        \* pn512->request: id, kind, error, tx_done, buf
  startNow,   \* req->timer_start_now, which is set once and for all
  mask,       \* pn512->intr_enable_mask
  completion, \* pn512->pn512_complete
  reply,      \* what the last request has returned
  wpc,        \* where the work item is
  queued,     \* it is on the work queue (again)
  comm,       \* its local comm_irq
  irq,        \* CommIRqReg
  ien,        \* CommIEnReg
  rf,         \* what the chip is doing
  fifo,       \* the received bytes in the FIFO
  sent,       \* the bytes of its answer the card has sent so far
  tauto,      \* bit TAuto of TModeReg
  timer       \* the timer is running

reqVars  == <<rpc, req, startNow, mask, completion, reply>>
workVars == <<wpc, queued, comm>>
cardVars == <<rf, fifo, sent>>
timeVars == <<tauto, timer>>
vars     == <<preempt, reqVars, workVars, irq, ien, cardVars, timeVars>>

-----------------------------------------------------------------------------
(* A falling edge of the interrupt pin runs pn512_interrupt, which puts    *)
(* the work item on the queue, at most once.                               *)
Edge == irq' \cap ien' # {} /\ irq \cap ien = {}

pn512_interrupt(q) == queued' = (q \/ Edge)

\* The spinlock keeps the work item away from the requester's critical part;
\* without CONFIG_PREEMPT a running work item keeps the requester away.
RequesterRuns == preempt \/ wpc = "idle"
WorkRuns      == rpc \in {"idle", "prepared", "waiting"}

-----------------------------------------------------------------------------
(* The requester: picc_wait_for_req and pn512_process_request.             *)

picc_wait_for_req ==
  /\ rpc = "idle" /\ RequesterRuns
  /\ rpc' = "prepared"
  /\ \E k \in Kinds :
       /\ req' = [id |-> (req.id + 1) % NumIds, kind |-> k, error |-> "none",
                  tx_done |-> FALSE, buf |-> <<>>]
       /\ startNow' = (startNow \/ k = "auth")
  /\ mask' = {"Err", "Timer"}
  /\ UNCHANGED <<preempt, completion, reply, workVars, irq, ien, cardVars, timeVars>>

\* Mutant: does not flush the FIFO.
SetUpUnflushed ==
  /\ rpc = "prepared" /\ RequesterRuns
  /\ rpc' = "set_up"
  /\ \/ /\ req.kind # "transmit"
        /\ tauto' = TRUE
        /\ irq' = irq \ {"Timer"}
        /\ timer' = (timer \/ startNow)
     \/ /\ req.kind = "transmit"
        /\ UNCHANGED <<tauto, irq, timer>>
  /\ mask' = mask \cup CASE req.kind = "auth"       -> {"Idle", "Tx"}
                         [] req.kind = "transmit"   -> {"Tx"}
                         [] req.kind = "transceive" -> {"Tx", "Rx"}
  /\ ien' = ien
  /\ pn512_interrupt(queued)
  /\ UNCHANGED <<preempt, req, startNow, completion, reply, wpc, comm, rf, fifo, sent>>

\* Flush the FIFO, set the timer if the request is timed (CMD_TRANSMIT is
\* not), choose the interrupts.
SetUp ==
  /\ rpc = "prepared" /\ RequesterRuns
  /\ rpc' = "set_up"
  /\ fifo' = <<>>
  /\ \/ /\ req.kind # "transmit"
        /\ tauto' = TRUE
        /\ irq' = irq \ {"Timer"}
        /\ timer' = (timer \/ startNow)
     \/ /\ req.kind = "transmit"
        /\ UNCHANGED <<tauto, irq, timer>>
  /\ mask' = mask \cup CASE req.kind = "auth"       -> {"Idle", "Tx"}
                         [] req.kind = "transmit"   -> {"Tx"}
                         [] req.kind = "transceive" -> {"Tx", "Rx"}
  /\ ien' = ien
  /\ pn512_interrupt(queued)
  /\ UNCHANGED <<preempt, req, startNow, completion, reply, wpc, comm, rf, sent>>

\* The frame goes to the FIFO, which may fill it to the level of HiAlert, the
\* command to CommandReg, StartSend to BitFramingReg.  A frame longer than
\* the FIFO is refilled here, too.
StartSend ==
  /\ rpc = "set_up"
  /\ rpc' = "started"
  /\ rf' = "sending" /\ sent' = 0
  /\ irq' \in {irq, irq \cup {"HiAlert"}}
  /\ ien' = ien
  /\ pn512_interrupt(queued)
  /\ UNCHANGED <<preempt, req, startNow, mask, completion, reply, wpc, comm, fifo,
                 timeVars>>

\* "enable pn512 irq": reg_set keeps the bits that are set.
EnableIrq ==
  /\ rpc = "started"
  /\ rpc' = "waiting"
  /\ ien' = ien \cup mask
  /\ irq' = irq
  /\ pn512_interrupt(queued)
  /\ UNCHANGED <<preempt, req, startNow, mask, completion, reply, wpc, comm, cardVars,
                 timeVars>>

\* Mutant: does not disable the interrupts on its way out.
ReturnLeavesIrq ==
  /\ rpc = "waiting" /\ completion > 0 /\ RequesterRuns
  /\ completion' = completion - 1
  /\ rpc' = "idle"
  /\ reply' = [ok |-> req.error = "none", data |-> req.buf]
  /\ UNCHANGED <<preempt, req, startNow, mask, workVars, irq, ien, cardVars, timeVars>>

\* wait_for_completion returns; "disable pn512 irq".
Return ==
  /\ rpc = "waiting" /\ completion > 0 /\ RequesterRuns
  /\ completion' = completion - 1
  /\ ien' = {}
  /\ rpc' = "idle"
  /\ reply' = [ok |-> req.error = "none", data |-> req.buf]
  /\ UNCHANGED <<preempt, req, startNow, mask, workVars, irq, cardVars, timeVars>>

-----------------------------------------------------------------------------
(* The work item pn512_irq_work_queue.                                     *)

WorkStart ==
  /\ wpc = "idle" /\ queued /\ WorkRuns
  /\ wpc' = "read"
  /\ irq' = irq /\ ien' = {}
  /\ pn512_interrupt(FALSE)
  /\ UNCHANGED <<preempt, reqVars, comm, cardVars, timeVars>>

ReadIrq ==
  /\ wpc = "read"
  /\ comm' = irq
  /\ wpc' = "ack"
  /\ UNCHANGED <<preempt, reqVars, queued, irq, ien, cardVars, timeVars>>

\* Mutant: acknowledges every flag, not only those it has read.
AckAll ==
  /\ wpc = "ack"
  /\ irq' = {} /\ ien' = ien
  /\ pn512_interrupt(queued)
  /\ comm' = comm \cap mask
  /\ wpc' = "handle"
  /\ UNCHANGED <<preempt, reqVars, cardVars, timeVars>>

\* Exactly the flags that were read are cleared, those not enabled included.
AckIrq ==
  /\ wpc = "ack"
  /\ irq' = irq \ comm /\ ien' = ien
  /\ pn512_interrupt(queued)
  /\ comm' = comm \cap mask
  /\ wpc' = "handle"
  /\ UNCHANGED <<preempt, reqVars, cardVars, timeVars>>

\* A timeout ends the request, whatever else has been flagged with it.
HandleTimer ==
  /\ wpc = "handle" /\ "Timer" \in comm
  /\ req' = [req EXCEPT !.error = "notag"]
  /\ wpc' = "done"
  /\ UNCHANGED <<preempt, rpc, startNow, mask, completion, reply, queued, comm, irq, ien,
                 cardVars, timeVars>>

\* An error is noted, and an overflow flushes the FIFO; the end of the
\* transmission turns to the receiver, or ends a request that only transmits.
HandleErrTx ==
  LET failed == IF "Err" \in comm THEN "err" ELSE req.error
      turns  == "Tx" \in comm /\ req.kind = "transceive"
  IN
  /\ wpc = "handle" /\ "Timer" \notin comm
  /\ req' = [req EXCEPT !.error = failed, !.tx_done = @ \/ "Tx" \in comm]
  /\ fifo' \in {fifo} \cup IF "Err" \in comm THEN {<<>>} ELSE {}
  /\ mask' = IF turns THEN (mask \ {"Tx"}) \cup {"Rx", "HiAlert"} ELSE mask
  /\ ien'  = IF turns THEN mask' ELSE ien
  /\ irq'  = irq
  /\ pn512_interrupt(queued)
  /\ wpc'  = IF "Tx" \in comm /\ ~turns THEN "done" ELSE "receive"
  /\ UNCHANGED <<preempt, rpc, startNow, completion, reply, comm, rf, sent, timeVars>>

\* Mutant: reads the level once and the FIFO twice when both flags are up.
ReceiveTwice ==
  /\ wpc = "receive"
  /\ req' = [req EXCEPT !.buf = IF {"HiAlert", "Rx"} \subseteq comm THEN @ \o fifo \o fifo
                                ELSE IF comm \cap {"HiAlert", "Rx"} # {} THEN @ \o fifo ELSE @]
  /\ fifo' = IF comm \cap {"HiAlert", "Rx"} # {} THEN <<>> ELSE fifo
  /\ mask' = IF "Rx" \in comm THEN mask \ {"HiAlert"} ELSE mask
  /\ ien'  = IF "Rx" \in comm THEN mask' ELSE ien
  /\ wpc'  = IF comm \cap {"Rx", "Idle"} # {} THEN "done" ELSE "end"
  /\ irq' = irq
  /\ pn512_interrupt(queued)
  /\ UNCHANGED <<preempt, rpc, startNow, completion, reply, comm, rf, sent, timeVars>>

\* HiAlert takes what the FIFO holds, and so does Rx, which ends the request.
HandleReceive ==
  /\ wpc = "receive"
  /\ \/ /\ "HiAlert" \in comm /\ ~req.tx_done   \* return, interrupts disabled
        /\ wpc' = "idle" /\ ien' = ien
        /\ UNCHANGED <<req, mask, fifo>>
     \/ /\ "HiAlert" \in comm => req.tx_done
        /\ IF comm \cap {"HiAlert", "Rx"} # {}
             THEN req' = [req EXCEPT !.buf = @ \o fifo] /\ fifo' = <<>>
             ELSE UNCHANGED <<req, fifo>>
        /\ mask' = IF "Rx" \in comm THEN mask \ {"HiAlert"} ELSE mask
        /\ ien'  = IF "Rx" \in comm THEN mask' ELSE ien
        /\ wpc'  = IF comm \cap {"Rx", "Idle"} # {} THEN "done" ELSE "end"
  /\ irq' = irq
  /\ pn512_interrupt(queued)
  /\ UNCHANGED <<preempt, rpc, startNow, completion, reply, comm, rf, sent, timeVars>>

\* Mutant: completes the request before the chip is stopped.
DoneLeavesFlags ==
  /\ wpc = "done"
  /\ wpc' = "end"
  /\ completion' = completion + 1
  /\ UNCHANGED <<preempt, rpc, req, startNow, mask, reply, queued, comm, irq, ien, cardVars,
                 timeVars>>

\* Command IDLE, timer stopped, TAuto off, all flags cleared, complete().
pn512_process_done ==
  /\ wpc = "done"
  /\ wpc' = "end"
  /\ rf' = "none" /\ timer' = FALSE /\ tauto' = FALSE
  /\ irq' = {} /\ ien' = ien
  /\ pn512_interrupt(queued)
  /\ completion' = completion + 1
  /\ UNCHANGED <<preempt, rpc, req, startNow, mask, reply, comm, fifo, sent>>

\* Mutant: the work item ends without enabling the interrupts again.
WorkEndDisabled ==
  /\ wpc = "end"
  /\ wpc' = "idle"
  /\ comm' = {}
  /\ UNCHANGED <<preempt, reqVars, queued, irq, ien, cardVars, timeVars>>

\* Label done: the interrupts are enabled again, as the mask has it now.
WorkEnd ==
  /\ wpc = "end"
  /\ wpc' = "idle"
  /\ comm' = {}
  /\ irq' = irq /\ ien' = mask
  /\ pn512_interrupt(queued)
  /\ UNCHANGED <<preempt, reqVars, cardVars, timeVars>>

-----------------------------------------------------------------------------
(* The chip and the card, which are outside of the sources.                *)

Flag(fs) ==
  /\ irq' = irq \cup fs /\ ien' = ien
  /\ pn512_interrupt(queued)

\* The last bit has been sent.  With TAuto the timer starts (anew).
TxEnd ==
  /\ rf = "sending"
  /\ rf' = CASE req.kind = "transceive" -> "listening"
             [] req.kind = "transmit"   -> "none"
             [] req.kind = "auth"       -> "authenticating"
  /\ timer' = (timer \/ tauto)
  /\ Flag(IF req.kind = "auth" THEN {} ELSE {"Tx"})
  /\ UNCHANGED <<preempt, reqVars, wpc, comm, fifo, sent, tauto>>

\* The card sends the next byte of its answer; the first one stops the timer.
RxByte ==
  /\ rf \in {"listening", "receiving"} /\ sent < MaxAnswer
  /\ rf' = "receiving" /\ timer' = FALSE
  /\ sent' = sent + 1
  /\ \/ /\ Len(fifo) < FifoSize
        /\ fifo' = Append(fifo, <<req.id, sent>>)
        /\ Flag(IF Len(fifo) + 1 = HiLevel THEN {"HiAlert"} ELSE {})
     \/ /\ Len(fifo) = FifoSize
        /\ fifo' = fifo
        /\ Flag({"Err"})
  /\ UNCHANGED <<preempt, reqVars, wpc, comm, tauto>>

\* The answer ends, intact or with a parity, framing or CRC error.
RxEnd ==
  /\ rf = "receiving"
  /\ rf' = "none"
  /\ \E fs \in {{"Rx"}, {"Rx", "Err"}} : Flag(fs)
  /\ UNCHANGED <<preempt, reqVars, wpc, comm, fifo, sent, timeVars>>

\* Something that is not a frame is received.
Noise ==
  /\ rf = "listening" /\ "Err" \notin irq /\ req.error = "none"
  /\ Flag({"Err"})
  /\ UNCHANGED <<preempt, reqVars, wpc, comm, cardVars, timeVars>>

\* CMD_MFAUTHENT ends by itself.
AuthEnd ==
  /\ rf = "authenticating"
  /\ rf' = "none"
  /\ Flag({"Idle"})
  /\ UNCHANGED <<preempt, reqVars, wpc, comm, fifo, sent, timeVars>>

TimerExpires ==
  /\ timer
  /\ timer' = FALSE
  /\ Flag({"Timer"})
  /\ UNCHANGED <<preempt, reqVars, wpc, comm, cardVars, tauto>>

-----------------------------------------------------------------------------
Init ==
  /\ preempt \in Builds
  /\ rpc = "idle" /\ startNow = FALSE /\ mask = {} /\ completion = 0
  /\ req = [id |-> 0, kind |-> "transceive", error |-> "none", tx_done |-> FALSE, buf |-> <<>>]
  /\ reply = [ok |-> FALSE, data |-> <<>>]
  /\ wpc = "idle" /\ queued = FALSE /\ comm = {}
  /\ irq = {} /\ ien = {}
  /\ rf = "none" /\ fifo = <<>> /\ sent = 0
  /\ tauto = FALSE /\ timer = FALSE

Requester == picc_wait_for_req \/ SetUp \/ StartSend \/ EnableIrq \/ Return

Work ==
  \/ WorkStart \/ ReadIrq \/ AckIrq
  \/ HandleTimer \/ HandleErrTx \/ HandleReceive
  \/ pn512_process_done \/ WorkEnd

Chip == TxEnd \/ RxByte \/ RxEnd \/ Noise \/ AuthEnd \/ TimerExpires

Next == Requester \/ Work \/ Chip

Spec == Init /\ [][Next]_vars

\* A request that has begun goes on, the work item runs when it is queued, a
\* frame and an answer come to an end and the timer expires.  The card may
\* stay silent.
Fairness ==
  /\ WF_vars(SetUp \/ StartSend \/ EnableIrq \/ Return)
  /\ WF_vars(Work)
  /\ WF_vars(TxEnd) /\ WF_vars(RxEnd) /\ WF_vars(TimerExpires)

FairSpec == Spec /\ Fairness

-----------------------------------------------------------------------------
(* Every variable has its type; an answer fits the buffer of its request.  *)
TypeOK ==
  /\ preempt \in Builds
  /\ rpc \in {"idle", "prepared", "set_up", "started", "waiting"}
  /\ req \in [id : Ids, kind : Kinds, error : {"none", "notag", "err"}, tx_done : BOOLEAN,
              buf : Seq(Ids \X Nat)]
  /\ Len(req.buf) <= MaxAnswer
  /\ startNow \in BOOLEAN /\ mask \subseteq Flags /\ completion \in Nat
  /\ reply \in [ok : BOOLEAN, data : Seq(Ids \X Nat)]
  /\ wpc \in {"idle", "read", "ack", "handle", "receive", "done", "end"}
  /\ queued \in BOOLEAN /\ comm \subseteq Flags
  /\ irq \subseteq Flags /\ ien \subseteq Flags
  /\ rf \in {"none", "sending", "listening", "receiving", "authenticating"}
  /\ fifo \in Seq(Ids \X Nat) /\ Len(fifo) <= FifoSize
  /\ sent \in Nat /\ tauto \in BOOLEAN /\ timer \in BOOLEAN

(* A completion is for the request that waits for it and there is never a  *)
(* second one: no run of the work item that was queued by an interrupt of  *)
(* an earlier request ends the present one before its time.                *)
OneCompletion ==
  completion > 0 => completion = 1 /\ rpc = "waiting" /\ rf = "none" /\ irq = {} /\ ~timer

(* While the requester sleeps and no work is queued or running, something  *)
(* will wake it: the interrupts of the mask are enabled, none is pending   *)
(* unseen behind the edge-triggered pin, and the chip or the timer will    *)
(* raise one.                                                              *)
NoLostWakeup ==
  rpc = "waiting" /\ completion = 0 /\ wpc = "idle" /\ ~queued =>
    /\ mask \subseteq ien /\ irq \cap ien = {}
    /\ timer \/ rf \in {"sending", "receiving"}

(* "disable pn512 irq" (pn512.c:352): no interrupt of the chip is enabled  *)
(* while no request is being processed.                                    *)
IrqOffBetweenRequests == rpc = "idle" /\ wpc = "idle" => ien = {}

(* On a kernel without CONFIG_PREEMPT it is so.                            *)
IrqOffUnlessPreempted == ~preempt => IrqOffBetweenRequests

(* A transceive request that ends without an error has every byte of the   *)
(* answer, in order and nothing else: no late answer to an earlier         *)
(* request, no byte lost between HiAlert and Rx, no silent overflow.       *)
AnswerComplete ==
  rpc = "waiting" /\ completion > 0 /\ req.error = "none" /\ req.kind = "transceive" =>
    sent > 0 /\ req.buf = [i \in 1..sent |-> <<req.id, i - 1>>]

\* What has been asked last, and the prefixes of the card's answer to it.
Asked      == [id |-> req.id, kind |-> req.kind]
Answers(r) == {[i \in 1..n |-> <<r.id, i - 1>>] : n \in 0..MaxAnswer}

(* The engine implements RequestReply: whatever the chip, the timer and    *)
(* the work item do, every request returns once, with its own answer or    *)
(* with an error.                                                          *)
RR == INSTANCE RequestReply
        WITH Requests <- [id : Ids, kind : Kinds],
             NoRequest <- [id |-> 0, kind |-> "transceive"],
             Answers <- Answers,
             asked <- Asked, pending <- (rpc # "idle"), reply <- reply

ImplementsRequestReply == RR!Spec

\* Every request returns.
RequestReturns == rpc = "prepared" ~> rpc = "idle"
=============================================================================
