----------------------------- MODULE PcdDevice -----------------------------
(***************************************************************************)
(* The device node of the driver, mod/src/pcd.c, and the door the CCID     *)
(* gadget enters by, mod/src/ccid_picc.c: who may use the one card reader  *)
(* when.  Processes share the descriptor of /dev/pcd and call pcd_ioctl;   *)
(* run_picc_poll is re-armed for ever by the single-threaded work queue;   *)
(* pcd_init and pcd_exit bring the device up and take it down.  All of     *)
(* them but the gadget go through the counting semaphore `mutex`.          *)
(*                                                                         *)
(* What an operation does to the card is left to other modules: here it    *)
(* only occupies the reader for a while.  The card itself is a presence    *)
(* bit, which is what the slot-change notification is about.               *)
(***************************************************************************)
EXTENDS Naturals, Sequences, FiniteSets, SequencesExt

CONSTANTS
  Threads,     \* the threads that call ioctl on the shared descriptor
  MaxSignals,  \* how many waits in down_interruptible a signal may break
  UseGadget    \* whether a CCID gadget driver is loaded on top of the module

\* The actors that are not ioctl threads are named by strings.
Kernel == {"init", "exit", "worker", "gadget"}

ASSUME ThreadsAssumption == IsFiniteSet(Threads) /\ Threads \cap Kernel = {}
ASSUME SignalsAssumption == MaxSignals \in Nat
ASSUME GadgetAssumption  == UseGadget \in BOOLEAN

Actors   == Threads \cup Kernel
Waiters  == Threads \cup {"exit"}    \* those that block in down_interruptible
Pollers  == {"init", "worker"}       \* those that run run_picc_poll

Labels == {"out", "waiting", "interrupted", "locked", "power_on", "power_off", "exchange",
           "endless", "try", "polling", "polled", "rearm", "start", "registered", "ready", "destroy"}

VARIABLES
  pc,         \* where each actor is
  count,      \* the count of common->mutex
  waiters,    \* its wait list
  signals,    \* how many waits a signal has broken
  registered, \* the misc device is visible
  semInc,     \* common->sem_inc, the descriptors that are open
  timer,      \* card_Poll: not pending, its timer armed, or on the work queue
  teardown,   \* how the module goes away
  freed,      \* common has been freed
  card,       \* a card lies in the field
  present,    \* bit PRESENT of picc->status
  slotChange, \* bit SLOT_CHANGE of picc->status
  notifier,   \* a gadget has left its slot_changed_notify callback
  host        \* the presence the callback has last reported to the host

lockVars == <<count, waiters, signals>>
lifeVars == <<registered, semInc, teardown, freed>>
slotVars == <<card, present, slotChange, notifier, host>>
vars     == <<pc, lockVars, lifeVars, timer, slotVars>>

-----------------------------------------------------------------------------
(* The semaphore of the kernel: up hands the unit to the first waiter.     *)

Goto(a, l) == pc' = [pc EXCEPT ![a] = l]

\* down_interruptible: take a unit or queue up.
Down(a) ==
  \/ /\ count > 0
     /\ count' = count - 1
     /\ Goto(a, "locked")
     /\ UNCHANGED waiters
  \/ /\ count = 0
     /\ waiters' = Append(waiters, a)
     /\ Goto(a, "waiting")
     /\ UNCHANGED count

\* up, after which the caller goes on at l.
Up(a, l) ==
  \/ /\ waiters = <<>>
     /\ count' = count + 1
     /\ Goto(a, l)
     /\ UNCHANGED waiters
  \/ /\ waiters # <<>>
     /\ waiters' = Tail(waiters)
     /\ pc' = [pc EXCEPT ![a] = l, ![Head(waiters)] = "locked"]
     /\ UNCHANGED count

\* A signal takes a from the wait list: down_interruptible returns -EINTR.
LeaveQueue(a) ==
  /\ signals < MaxSignals
  /\ signals' = signals + 1
  /\ \E i \in DOMAIN waiters :
        waiters[i] = a /\ waiters' = RemoveAt(waiters, i)
  /\ UNCHANGED count

-----------------------------------------------------------------------------
(* pcd_open, pcd_release and pcd_ioctl.                                    *)

\* Mutant: opens without looking at sem_inc.
OpenUnchecked ==
  /\ registered /\ teardown = "none" /\ semInc < 2
  /\ semInc' = semInc + 1
  /\ UNCHANGED <<pc, lockVars, registered, teardown, freed, timer, slotVars>>

pcd_open ==
  /\ registered /\ teardown = "none"
  /\ semInc = 0
  /\ semInc' = semInc + 1
  /\ UNCHANGED <<pc, lockVars, registered, teardown, freed, timer, slotVars>>

\* The kernel calls release when no call on the descriptor is running.
pcd_release ==
  /\ semInc > 0 /\ \A t \in Threads : pc[t] = "out"
  /\ semInc' = semInc - 1
  /\ UNCHANGED <<pc, lockVars, registered, teardown, freed, timer, slotVars>>

IoctlEnter(t) ==
  /\ semInc > 0 /\ pc[t] = "out"
  /\ Down(t)
  /\ UNCHANGED <<signals, lifeVars, timer, slotVars>>

IoctlInterrupted(t) ==
  /\ pc[t] = "waiting"
  /\ LeaveQueue(t)
  /\ Goto(t, "interrupted")
  /\ UNCHANGED <<lifeVars, timer, slotVars>>

\* Mutant: a failing exchange returns without the up.
ReturnForgetsUp(t) ==
  /\ pc[t] \in {"interrupted", "locked", "power_on", "power_off", "exchange"}
  /\ Up(t, "out") \/ (pc[t] = "exchange" /\ Goto(t, "out") /\ UNCHANGED <<count, waiters>>)
  /\ UNCHANGED <<signals, lifeVars, timer, slotVars>>

\* Label err, or the end of the call: both release the semaphore, also when
\* down_interruptible has failed.
IoctlReturn(t) ==
  /\ pc[t] \in {"interrupted", "locked", "power_on", "power_off", "exchange"}
  /\ Up(t, "out")
  /\ UNCHANGED <<signals, lifeVars, timer, slotVars>>

\* The three commands enter the reader; a bad argument or an unknown command
\* takes IoctlReturn from "locked".
IoctlCommand(t) ==
  /\ pc[t] = "locked"
  /\ \E cmd \in {"power_on", "power_off", "exchange"} : Goto(t, cmd)
  /\ UNCHANGED <<lockVars, lifeVars, timer, slotVars>>

\* An exchange that never ends: pcsc_xfr_handler walks its objects, and one of
\* tags 0x96 to 0x9F is passed over without being consumed; or the card asks
\* for more time (S(WTX)) in answer to every block.
ExchangeHangs(t) ==
  /\ pc[t] = "exchange"
  /\ Goto(t, "endless")
  /\ UNCHANGED <<lockVars, lifeVars, timer, slotVars>>

-----------------------------------------------------------------------------
(* run_picc_poll, on the work queue and once from pcd_init.                *)

PollTimer ==
  /\ timer = "armed"
  /\ timer' = "queued"
  /\ UNCHANGED <<pc, lockVars, lifeVars, slotVars>>

\* Mutant: re-arms the poll before it runs, to keep the period.
StartRearms ==
  /\ timer = "queued" /\ pc["worker"] = "out"
  /\ timer' = "armed"
  /\ Goto("worker", "try")
  /\ UNCHANGED <<lockVars, lifeVars, slotVars>>

PollStart ==
  /\ timer = "queued" /\ pc["worker"] = "out"
  /\ timer' = "idle"
  /\ Goto("worker", "try")
  /\ UNCHANGED <<lockVars, lifeVars, slotVars>>

\* Mutant: label done stands before the up.
TryLockFailUps(a) ==
  /\ pc[a] = "try"
  /\ \/ count > 0 /\ count' = count - 1 /\ Goto(a, "polling") /\ UNCHANGED waiters
     \/ count = 0 /\ Up(a, "rearm")
  /\ UNCHANGED <<signals, lifeVars, timer, slotVars>>

\* Mutant: label done stands after queue_delayed_work.
TryLockFailStops(a) ==
  /\ pc[a] = "try"
  /\ \/ count > 0 /\ count' = count - 1 /\ Goto(a, "polling")
     \/ count = 0 /\ Goto(a, IF a = "init" THEN "ready" ELSE "out") /\ UNCHANGED count
  /\ UNCHANGED <<waiters, signals, lifeVars, timer, slotVars>>

PollTryLock(a) ==
  /\ pc[a] = "try"
  /\ \/ count > 0 /\ count' = count - 1 /\ Goto(a, "polling")
     \/ count = 0 /\ Goto(a, "rearm") /\ UNCHANGED count
  /\ UNCHANGED <<waiters, signals, lifeVars, timer, slotVars>>

\* picc_polling_tags: a change of presence sets SLOT_CHANGE.
PollTags(a) ==
  /\ pc[a] = "polling"
  /\ present' = card
  /\ slotChange' = (slotChange \/ card # present)
  /\ Goto(a, "polled")
  /\ UNCHANGED <<lockVars, lifeVars, timer, card, notifier, host>>

\* SLOT_CHANGE is cleared once the callback has accepted the news.
PollTold(a) ==
  /\ pc[a] = "polled" /\ slotChange /\ notifier
  /\ host' = present
  /\ slotChange' = FALSE
  /\ Up(a, "rearm")
  /\ UNCHANGED <<signals, lifeVars, timer, card, present, notifier>>

\* Mutant: clears SLOT_CHANGE whatever the callback returns.
UntoldClears(a) ==
  /\ pc[a] = "polled"
  /\ slotChange' = FALSE
  /\ Up(a, "rearm")
  /\ UNCHANGED <<signals, lifeVars, timer, card, present, notifier, host>>

\* There is no news, nobody listens, or the callback returns an error.
PollUntold(a) ==
  /\ pc[a] = "polled"
  /\ Up(a, "rearm")
  /\ UNCHANGED <<signals, lifeVars, timer, slotVars>>

\* queue_delayed_work does nothing when the work is pending already.
PollRearm(a) ==
  /\ pc[a] = "rearm"
  /\ timer' = IF timer = "idle" THEN "armed" ELSE timer
  /\ Goto(a, IF a = "init" THEN "ready" ELSE "out")
  /\ UNCHANGED <<lockVars, lifeVars, slotVars>>

-----------------------------------------------------------------------------
(* pcd_init and pcd_exit.                                                  *)

\* misc_register: the node can be opened while pcd_init still holds the
\* semaphore.
InitRegister ==
  /\ pc["init"] = "start"
  /\ registered' = TRUE
  /\ Goto("init", "registered")
  /\ UNCHANGED <<lockVars, semInc, teardown, freed, timer, slotVars>>

InitPoll ==
  /\ pc["init"] = "registered"
  /\ Goto("init", "try")
  /\ UNCHANGED <<lockVars, lifeVars, timer, slotVars>>

InitReady ==
  /\ pc["init"] = "ready"
  /\ Up("init", "out")
  /\ UNCHANGED <<signals, lifeVars, timer, slotVars>>

\* picc_init, misc_register or the work queue fails: labels err2 to err4.
InitFail ==
  /\ pc["init"] \in {"start", "registered"}
  /\ Up("init", "out")
  /\ registered' = FALSE /\ teardown' = "failed" /\ freed' = TRUE
  /\ UNCHANGED <<signals, semInc, timer, slotVars>>

\* The module is not in use: no descriptor is open, no gadget is loaded.
ExitEnter ==
  /\ pc["init"] = "out" /\ teardown = "none"
  /\ semInc = 0 /\ ~notifier
  /\ teardown' = "going"
  /\ Down("exit")
  /\ UNCHANGED <<signals, registered, semInc, freed, timer, slotVars>>

\* pcd_exit returns at once and leaves everything as it is.
ExitInterrupted ==
  /\ pc["exit"] = "waiting"
  /\ LeaveQueue("exit")
  /\ Goto("exit", "out")
  /\ teardown' = "interrupted"
  /\ UNCHANGED <<registered, semInc, freed, timer, slotVars>>

\* cancel_delayed_work only catches a timer that has not expired.
ExitCancel ==
  /\ pc["exit"] = "locked"
  /\ \/ timer = "armed" /\ timer' = "idle" /\ teardown' = "cancelled"
     \/ timer # "armed" /\ teardown' = "flushed" /\ UNCHANGED timer
  /\ Goto("exit", "destroy")
  /\ UNCHANGED <<lockVars, registered, semInc, freed, slotVars>>

\* flush_workqueue and destroy_workqueue wait for the work that is queued or
\* running; then everything is released and common freed.
ExitDestroy ==
  /\ pc["exit"] = "destroy"
  /\ timer # "queued" /\ pc["worker"] = "out"
  /\ registered' = FALSE /\ freed' = TRUE
  /\ Up("exit", "out")
  /\ UNCHANGED <<signals, semInc, teardown, timer, slotVars>>

-----------------------------------------------------------------------------
(* The gadget: its operations take no semaphore.                           *)

GadgetLoad ==
  /\ UseGadget /\ pc["init"] = "out" /\ teardown = "none"
  /\ ~notifier /\ notifier' = TRUE
  /\ UNCHANGED <<pc, lockVars, lifeVars, timer, card, present, slotChange, host>>

GadgetUnload ==
  /\ notifier /\ pc["gadget"] = "out"
  /\ notifier' = FALSE
  /\ UNCHANGED <<pc, lockVars, lifeVars, timer, card, present, slotChange, host>>

GadgetCall ==
  /\ notifier /\ pc["gadget"] = "out"
  /\ \E op \in {"power_on", "power_off", "exchange"} : Goto("gadget", op)
  /\ UNCHANGED <<lockVars, lifeVars, timer, slotVars>>

GadgetReturn ==
  /\ pc["gadget"] # "out"
  /\ Goto("gadget", "out")
  /\ UNCHANGED <<lockVars, lifeVars, timer, slotVars>>

\* Somebody lays a card on the reader or takes it away.
CardMoves ==
  /\ card' = ~card
  /\ UNCHANGED <<pc, lockVars, lifeVars, timer, present, slotChange, notifier, host>>

-----------------------------------------------------------------------------
\* pcd_init has called sema_init(&common->mutex, n) and holds the semaphore.
InitWith(n) ==
  /\ pc = [a \in Actors |-> IF a = "init" THEN "start" ELSE "out"]
  /\ count = n /\ waiters = <<>> /\ signals = 0
  /\ registered = FALSE /\ semInc = 0
  /\ timer = "idle" /\ teardown = "none" /\ freed = FALSE
  /\ card \in BOOLEAN
  /\ present = FALSE /\ slotChange = FALSE /\ notifier = FALSE /\ host = FALSE

\* Mutant: the semaphore is born free.
InitUnlocked == InitWith(1)

Init == InitWith(0)

Ioctl(t) ==
  \/ IoctlEnter(t) \/ IoctlInterrupted(t) \/ IoctlReturn(t)
  \/ IoctlCommand(t) \/ ExchangeHangs(t)

Poll(a) == PollTryLock(a) \/ PollTags(a) \/ PollTold(a) \/ PollUntold(a) \/ PollRearm(a)

Load == InitRegister \/ InitPoll \/ InitReady \/ InitFail

Unload == ExitEnter \/ ExitInterrupted \/ ExitCancel \/ ExitDestroy

Gadget == GadgetLoad \/ GadgetUnload \/ GadgetCall \/ GadgetReturn

Next ==
  \/ pcd_open \/ pcd_release
  \/ \E t \in Threads : Ioctl(t)
  \/ PollTimer \/ PollStart
  \/ \E a \in Pollers : Poll(a)
  \/ Load \/ Unload \/ Gadget
  \/ CardMoves

Spec == Init /\ [][Next]_vars

\* What is in the driver goes on: an operation on the card that is not endless
\* comes to an end (every request is timed), timers fire and runnable tasks
\* run.  Users, signals, the loading and unloading of modules and the card
\* itself owe nothing; a gadget that is told again and again accepts in the
\* end.
Fairness ==
  /\ \A t \in Threads : WF_vars(IoctlReturn(t))
  /\ \A a \in Pollers : WF_vars(Poll(a))
  /\ WF_vars(PollTimer) /\ WF_vars(PollStart) /\ SF_vars(PollTold("worker"))
  /\ WF_vars(InitPoll \/ InitReady)
  /\ WF_vars(ExitCancel \/ ExitDestroy)

FairSpec == Spec /\ Fairness

-----------------------------------------------------------------------------
(* Who holds the semaphore, and who uses the reader.                       *)

\* pcd_init owns the semaphore from sema_init to its up.
Holds(a) ==
  \/ pc[a] \in {"locked", "power_on", "power_off", "exchange", "endless", "polling", "polled",
                "destroy"}
     /\ a # "gadget"
  \/ a = "init" /\ pc[a] # "out"

UsesReader(a) == pc[a] \in {"power_on", "power_off", "exchange", "endless", "polling"}

\* The units in use: pcd_init holds a second one while it polls.
UnitsHeld ==
  Cardinality({a \in Actors : Holds(a)})
    + IF pc["init"] \in {"polling", "polled"} THEN 1 ELSE 0

\* Nothing is left that will look at common again.
Quiescent ==
  timer = "idle" /\ \A a \in Actors : pc[a] = "out"

-----------------------------------------------------------------------------
(* Every variable has its type; the wait list holds only those that wait.  *)
TypeOK ==
  /\ pc \in [Actors -> Labels]
  /\ count \in Nat /\ waiters \in Seq(Waiters) /\ signals \in Nat
  /\ registered \in BOOLEAN /\ semInc \in 0..1
  /\ timer \in {"idle", "armed", "queued"}
  /\ teardown \in {"none", "failed", "going", "interrupted", "cancelled", "flushed"}
  /\ freed \in BOOLEAN
  /\ card \in BOOLEAN /\ present \in BOOLEAN /\ slotChange \in BOOLEAN
  /\ notifier \in BOOLEAN /\ host \in BOOLEAN

(* What the comments of pcd.c promise of the semaphore ("acquire the       *)
(* semaphore", "release the semaphore", lines 79 and 187): at most one     *)
(* ioctl, poll, load or unload is between the two.                         *)
MutualExclusion ==
  \A a, b \in Actors : Holds(a) /\ Holds(b) => a = b

(* The same, as long as no signal has broken a wait.                       *)
MutexUnlessInterrupted == signals = 0 => MutualExclusion

(* The accounts of the semaphore: the free units and those in use are one  *)
(* and one more for every interrupted wait, those whose up is to come      *)
(* included.  Every interruption widens the semaphore for good, and        *)
(* nothing else does, on any path of ioctl, poll, load and unload.  (An    *)
(* interrupted pcd_exit gives nothing back.)                               *)
UnitsAccounted ==
  count + UnitsHeld + Cardinality({t \in Threads : pc[t] = "interrupted"})
    = 1 + signals - IF teardown = "interrupted" THEN 1 ELSE 0

(* What ccid.h:24 keeps a slot error for ("A second command was sent to a  *)
(* slot which was already processing a command"): no two commands drive    *)
(* the reader, and with it the one pn512->request, at the same time.       *)
OneCommandAtATime ==
  \A a, b \in Actors : UsesReader(a) /\ UsesReader(b) => a = b

(* pcd_exit leaves nobody behind that could touch the freed common or the  *)
(* unloaded code (no timer, no queued or running poll, no ioctl) when, and *)
(* only when, it caught the poll in its timer: a poll it had to flush      *)
(* instead has re-armed its timer behind the destroyed work queue          *)
(* (pcd.c:240).                                                            *)
CleanUnload ==
  freed /\ teardown \in {"cancelled", "flushed"} => (Quiescent <=> teardown = "cancelled")

(* A change of presence the host has not been told of is still marked in   *)
(* SLOT_CHANGE, whatever polls, gadgets and cards come and go in between:  *)
(* the news is delayed, never lost.                                        *)
SlotChangeNotLost == host # present => slotChange

(* Every ioctl that waits for the semaphore gets it and returns, however   *)
(* many others call and however often the reader is polled, unless one of  *)
(* them is in an exchange that never ends (pcsc.c:710): nothing takes the  *)
(* semaphore from that one.                                                *)
IoctlReturns ==
  \A t \in Threads :
    pc[t] # "out" ~> (pc[t] = "out" \/ \E s \in Threads : pc[s] = "endless")

(* Once processes leave the device alone, the card stays where it is and a *)
(* gadget listens, the host is told the truth.  (While they do not, every  *)
(* poll may find the semaphore taken, and skip its turn.)                  *)
HostLearns ==
  \A c \in BOOLEAN :
    <>[](card = c /\ notifier /\ \A t \in Threads : pc[t] = "out") => <>[](host = c)
=============================================================================
