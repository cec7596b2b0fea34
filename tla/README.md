# Formal models of the contactless reader driver

The repository is a Linux 2.6.37 kernel module (`mod/src`) that drives an NXP
PN512 contactless front-end over SPI on a uniprocessor OMAP board, and a small
menu program for it (`app/pcda.c`).  User processes reach it through the
ioctls of `/dev/pcd`, a USB CCID gadget through a table of functions.  This
directory holds TLA+ modules that model its control, the TLC runs that check
them, and TLAPS proofs, for every value of the constants, of all the safety
properties they check.

## The system

| Component | Source | State it keeps | Operations | Interacts by |
| --- | --- | --- | --- | --- |
| Device node | `pcd.c` | semaphore `mutex`, `sem_inc`, delayed work `card_Poll`, `slot_changed_notify` | open, release, ioctl (power on, power off, exchange), poll, load, unload | calls into the card session under the semaphore; callback to the gadget |
| Gadget door | `ccid_picc.c`, `ccid.h` | none | power on/off, exchange, slot status, parameters | calls into the card session without the semaphore; resets its parameters |
| Card session | `picc.c` | `status` bits, `states`, `type`, parameters of the card | poll, power on, power off, exchange | calls the protocol of the card's type |
| T=CL | `iso14444.c` | `flags_TCL` (block number, chaining, WTX), `PCB`, `WTXM`, what is left of a message | activation, PPS, block exchange with a level, deselect, presence check | one request at a time to the engine |
| Type A, Type B | `iso14443_type*.c` | UID, ATQ, SAK, `states` | request, anticollision, select, attrib, halt | requests |
| MIFARE, FeliCa, Topaz | `mifare.c`, `felica.c`, `topaz.c` | keys, `authen_need`, `key_valid` | authentication, reads, writes, value operations | requests |
| PC/SC | `pcsc.c` | transparent-session flags | ATR, transceive, switch protocol | requests |
| Request engine | `pn512.c` | the one `request`, completion, interrupt mask | process request, interrupt, work item | registers of the chip; interrupt; completion |
| Transport, tables | `spi.c`, `delay.c`, `crc.c`, `pcd_config.c` | none | register I/O, delays, CRC | |

### What is hard here, and what correct means

- *Device node.*  Threads, a self-re-arming poll, load, unload and a gadget
  meet at one counting semaphore that signals can break.  Correct: one command
  at a time, each unit given back exactly once, every ioctl returns, nothing is
  left behind an unload, no change of presence is lost to the host.
- *Request engine.*  The chip raises flags between any two register accesses,
  the interrupt is an edge, the work item is shared by all requests, timer and
  answer race.  Correct: each request returns exactly once, with its own whole
  answer or an error.
- *T=CL.*  Frames get lost or damaged, cards ask for time, leave, chain.
  A command may come in several messages and a response leave in several.
  Correct: a command is executed at most once, a success means it was executed
  as asked and its response is complete or goes on, numbers stay in step, no
  APDU loops, none fails without a cause.
- *Card session, MIFARE.*  State of one card outlives it, polls reset the card
  in the middle of a session, failures leave two notions of "active".
  Correct: what the host is told agrees with what the card can do; a key that
  is used again has opened the card; a success means that exactly the blocks
  that were asked for have been written.
- *PC/SC.*  The host switches the field and the protocol and sends frames of its
  own behind the back of the session.  Correct: what the driver does itself it
  also notes, an error in one object is not lost, and the poll heals the rest.

The hazards are listed one by one, each at its line, in `PROJECT.json`.

## The modules

| Module | Models | Checked by | Proved in |
| --- | --- | --- | --- |
| `PcdDevice` | `pcd.c`, the entry points of `ccid_picc.c` | `pcd`, `pcd_signal`, `pcd_gadget` | `PcdDeviceProofs` |
| `RequestReply` | abstract: what a request promises | as a property of `pn512` | `Pn512EngineProofs` |
| `Pn512Engine` | `pn512_process_request` and its work item | `pn512` | `Pn512EngineProofs` |
| `TclBlock` | `iso14444.c`: the APDU handler | `tcl`, `tcl_resend`, `tcl_mute`, `tcl_wtx` | `TclBlockProofs` |
| `WaitingTime` | `iso14444.c`: the timer values of `typeA_set_timeout` (pure) | `tcl` | `WaitingTimeProofs` |
| `PiccSession` | `picc.c`, `iso14443_type*.c`, polling of FeliCa, Topaz, MIFARE | `session`, `session_status` | `PiccSessionProofs` |
| `MifareSession` | `mifare.c`; extends `PiccSession` and refines it | `mifare` | `MifareSessionProofs` |
| `PcscSession` | `pcsc.c`, raw frames of `picc.c`; extends `PiccSession` | `pcsc` | `PcscSessionProofs` |

### PcdDevice

`pc` says where each actor is: the ioctl threads, `init`, `exit`, `worker` (the
single-threaded work queue) and `gadget`.  `count` and `waiters` are the
semaphore of the kernel, whose `up` hands the unit to the first waiter;
`timer` is the delayed work.  `IoctlEnter`, `IoctlInterrupted`, `IoctlCommand`
and `IoctlReturn` are the parts of `pcd_ioctl`; every early return and label
of it leads to the same `up`, which is `IoctlReturn`, also from "interrupted".
`PollTryLock` to `PollRearm` are `run_picc_poll`, which `pcd_init` also calls
once while it holds the semaphore.  `ExchangeHangs` is an exchange that never
ends (`pcsc.c:710`, or a card that asks for more time for ever): it keeps the
semaphore for good.  `ExitCancel` and `ExitDestroy` separate
the moments between which the timer may expire.  What a command does to a card
is left out: it occupies the reader.  `card`, `present`, `slotChange` and
`host` are what the slot-change notice is about.

### Pn512Engine and RequestReply

One action per access to the chip that the chip, the timer or another context
can come between.  `Edge` is the falling edge of the interrupt pin: the handler
only queues the work item, at most once.  The build option `CONFIG_PREEMPT` is
a variable that never changes, `preempt`: the driver compiles on a uniprocessor
only (`spin_unlock` is given no pointer), where its spinlock at most disables
preemption.  The chip is external and modelled as the driver uses it: FIFO,
flags, timer with `TAuto`, answers that arrive byte by byte, noise.
`RequestReply` is the promise to the callers; `RR` instantiates it with the
request number and kind, `rpc # "idle"` and the last reply.

### TclBlock

The handler's loops become one action for each thing that can follow a wait:
`AskAgain`, `GiveUp`, `GrantWtx`, `Retransmit`, `ChainOn`, `ChainStops`,
`Collect`, `Refuse`, and the two after which the program is lost: `Overrun`,
where the left-over buffer is taken for an I-block of length 0, and `RunsOn`,
where a message shorter than a block wraps the length that is left.
`SendsMessage` begins with the level the caller passes (0 from an ioctl, that
of the host from the gadget): 0 and 2 end a command, 1 and 3 leave it open;
`FetchesMore` is the level 16, which fetches what follows a cut.  What the code
keeps for the next message it keeps in a static buffer whose length is a local
variable, so that it is dropped: the model drops it (`part`, and the block at
which `Collect` cuts), and notes a command with a hole as `torn`.  `Reports` is what the engine may return (see
`RequestReply`) combined with `typeA_rblock_command`, which hides the error:
the buffer then still holds `rec`, or what kmalloc left there (`Junk`).  The
history variable `seen` notes when that has happened; the properties of the
protocol proper are about the runs in which it has not, and `SilentIsMute`
is about those in which it has.  A wait ends by its timer, which `Covers`
compares with the card's time, by the values of `WaitingTime`.  The card follows ISO/IEC 14443-4, which the
comments of the code cite; it is external.  Data is a number: `<<a, i>>` is
block `i` of APDU `a`.

### PiccSession

Here the operations exclude each other, as they do under the semaphore of
`PcdDevice`, and each is one step: `Poll` (`run_picc_poll` with
`picc_polling_tags`: `PollFirst` is its case 1, `PollAgain` its case 2),
`picc_power_on`, `picc_power_off`, `ExchangeApdu`, `ExchangeMifare`,
`picc_param_init` (the gadget is loaded or unloaded).  Within a step frames are
exchanged one by one.  A link is the part of the state that they change; each
function of `iso14443_typeA.c` and the like is an operator from a link to the
set of links it may leave, and `Then`, `Twice` and `OrAgain` are the sequence
and the two kinds of retry the code has (after no answer, after any error).
`Send` is the only place where something is lost or damaged; `Mistaken` is what
`felica.c:333` and `topaz.c:163` make of a damaged answer they accept, the card
or one of a number that does not exist.  The cards, in `Dialogue`
and `After`, answer what ISO/IEC 14443-3 and -4 let them answer in their state,
and go back to sleep at an unexpected command.  `same` remembers whether the
card at the reader is the one the driver has identified, which stands for
comparing UIDs.  Cards come and go between steps; one that leaves in the middle
of a step is like frames that are lost.  `TclBlock` is the inside of
`ExchangeApdu`; for the other modules its failure is an arbitrary choice.

### WaitingTime

The table of register values, the extra slots of type B and the two ways in
which S(WTX) stretches a wait, in the widths of the code and the registers,
compared with the frame waiting time of ISO/IEC 14443-4 for every FWI and WTXM.
`TclBlock` extends it: a wait whose timer is too short (`TooShort`) may end
before the card's answer, so that one wrong entry makes APDUs fail without a
cause.  An assumption there leaves out the combinations for which the 16-bit
product wraps around (`Wraps`, a hazard in `PROJECT.json`); a shortfall of a
thousandth is allowed, because the entry of FWI 10 has no margin.

### MifareSession

The state of `mifare.c` (`mifare_key`, `key_valid`, `work_key`, `key_No`,
`block`, `authen_need`, the kind of card as `SAK`), the crypto unit of the chip
and the sector the card has opened are added to `PiccSession`, and to its links.  A command that
loops over blocks is `Begin`, one `ReadBlock` or `WriteBlock` per block and
`Reply`, so that cards come and go and the gadget resets parameters in the
middle of it; the others are one step.  `Poll`, `picc_power_on` and
`picc_power_off` are those of `PiccSession` with what they do to the keys.
`Prepared` is the authentication that is repeated after a poll, `Advance` the
eight-bit count of what is left.  `Acknowledged` takes four bits for an
acknowledgement as the code does, whatever error came with them, and `misread`
notes when that was wrong.  `Reselect` sets `SAK` to 0, an Ultralight's, until
the card has told it.  `pend` in the card is the second frame it waits
for (the data of a WRITE, the operand of a value operation).  A block number
stands for a block and a key type, which the code always sets together.
`granted` is a history variable: the sector a host has opened and in which
nothing has gone wrong since.  `ImplementsSession` shows that what the commands
do to the session is `ExchangeMifare` of `PiccSession`, which is deliberately
vague, and that all other steps are steps of `PiccSession`: its properties hold
here too.  Contents of blocks are left out; a block on which a value operation is
asked for is taken to hold a value.  What a failed authentication leaves of the
crypto bit of the chip is open.

### PcscSession

A command is a list of data objects, and the loop of `pcsc_cmd_dispatch` is one
action per kind of object; which one comes next is chosen when it is parsed.
`cmd` holds how many are left and the error in `ret`, together with what the
properties ask: `param`, whether the loop over parameters has cut the command
short or has had its error forgotten; `lost`, whether the parser has moved on by
the length of an answer, after which it may find any object; `vain`, which
sorts of object were carried out without effect: an exchange that nobody
answered, whose error the code drops, or another one.  `endless` is the loop for tags 0x96 to 0x9F, which
consumes nothing.  The history variable `bypassed` is set when the host has sent
frames itself or has switched the field off: `SwitchKeepsSession` and
`PollStaysRight` are about the time before, `PollHeals` about the time after.
`NotCarriedOut` stands for every object that is cut short, unknown, of another
`cmdtype` or outside of a session.

## The runs

| Run | Shows | Bounds |
| --- | --- | --- |
| `pcd` | Mutual exclusion while no wait has been broken, the accounts of the semaphore, clean unload exactly if the timer was caught, no lost slot change; ioctls return unless an exchange never ends, the host learns | 2 threads, 1 signal, gadget loaded and unloaded at will |
| `pcd_signal` | *violation*: an interrupted wait releases the semaphore | the same, no gadget |
| `pcd_gadget` | *violation*: gadget and ioctl use the reader together | the same |
| `pn512` | One completion per request, no lost wake-up, answers whole and own; refinement of `RequestReply`; every request returns | FIFO of 2 bytes, HiAlert from 1, answers up to 3 bytes, request numbers modulo 2, both builds |
| `tcl` | Block numbers in step, at most one execution, success means done at every level, no failure without a cause, APDUs return | commands of 2 blocks in one or several messages, responses of 4 cut after each, one frame lost or damaged and two S(WTX) per APDU, two of these in all; FWI 9, WTXM 2 |
| `tcl_resend` | *violation*: a retransmitted block has other data | one block, one loss |
| `tcl_mute` | *violation*: a silent card is not reported mute | one block |
| `tcl_wtx` | *violation*: the extended wait is not extended | one block, one S(WTX) |
| `session` | What is shown is backed by a known card, T=CL blocks only go to a card in the protocol, swapped cards are told apart, a card that stays is kept, comings and goings are noticed in the end | all kinds of card, two frames lost or damaged per step, any number of cards |
| `session_status` | *violation*: power on shows a card as active that it has not activated | the same |
| `mifare` | Polls do not end an authentication, success means exactly those blocks, trailers spared, keys that are kept have opened the card, access comes back after failures; refinement of `PiccSession` | one S70, SLE66R35 (a SAK the code does not know) or Ultralight at a time, two keys under one number, blocks 14 and 128, lengths 0, 8 and 32, one frame lost or damaged per step |
| `pcsc` | Protocol switches leave the session right, success means that every object took effect but for unanswered frames, polls stay right, and heal what the host has done | T=CL cards of types A and B, MIFARE, FeliCa, commands of two objects, one frame lost or damaged per step |

Why the bounds are enough.  `pcd`: two threads, the poll, the exit and the
gadget already give queues of three at the semaphore; every effect of a signal
happens with the first one.  The theorems below remove the bounds for safety.
`pn512`: an answer of three bytes overflows a FIFO of two, passes HiAlert and
ends with Rx in every order; two numbers tell an answer to the present request
from one to the request before.  `tcl`: two command blocks exercise chaining
and commands in two messages; four response blocks with a threshold of one are
cut, fetched with the level 16, cut again and ended; counters that allow two
retries are exhausted because a timeout may come from a card that has left,
which needs no lost frame.  Two extensions are the most the retries make up
for.  Two lost frames in one APDU are beyond the run.  `session`: the
longest retry is two, so that two losses make every part of it fail, and one
kind per protocol runs through all the branches; identities need no bound.
`mifare`: block 14 is the last data block but nothing else of a sector, and close
to the end of an Ultralight, so that two blocks from there meet the trailer, or
the end of the card; 128 lies in the first large sector, where sectors are
counted differently.  Length 8 is two pages and, on the card
whose SAK the code has no branch for, no multiple of a block, so that the rest
goes round; 32 is two blocks; 0, which the code does not refuse, is 256.  A
second key number would repeat the first.  `pcsc`: two objects suffice for one that
follows an error, a switch of the field or a lost parser, and a session and the
state it leaves go on over any number of commands; the lost parser makes
commands longer than two.

Deadlock is checked in `pn512`, `session`, `mifare` and `pcsc`.  It is not in
`pcd`, where an unloaded module stops for good, and not in `tcl`, where the
program stops after `Overrun` or `RunsOn`.

Fairness.  `pcd`: operations on the card end because every request is timed
(`RequestReturns`), except an exchange that hangs, which needs no fairness to
stay and which `IoctlReturns` names; timers fire and runnable tasks run; nothing
is assumed of users, signals, loads, unloads or cards.  The one strong fairness is that of
the gadget's callback: told again and again, it accepts in the end.  Even so
the host only learns the truth once processes leave the device alone, because
the poll merely tries the lock.  `pn512`: the requester, the work item, the end
of a frame and the timer go on; a card may stay silent.  `tcl`: a wait ends,
and a card that is heard answers or asks for time, MaxWtx times at most: the
code itself does not limit it.
`session`: the poll runs again and again, and gets the semaphore in the end.
It only tries the lock, so that this stands for hosts that let it in; callers
who keep the semaphore busy can starve it, which `PcdDevice` and `HostLearns`
are about.  Nothing is assumed of cards or of the air, except in the premise of
the two properties, that a card is left in peace.  `mifare` and `pcsc`: polls
have weak fairness only, so that a host that keeps the semaphore busy owes them
nothing: the premises of `AccessComesBack` and `PollHeals` say that from some
time on no new command begins, or none is under way.  The loop of a MIFARE
command goes on, because each request returns; nothing is assumed of PC/SC
commands, which may be endless.

## What is proved

Every invariant and every safety property of a step that a passing run checks
is also a theorem about the specification, as are the two refinements, without
the bounds of the runs: for any set of threads, size of the FIFO, length of
answers, commands and responses, number of lost frames, set of kinds of card,
keys and blocks.  The assumptions are those the modules state for their
constants, nothing else.  They are: threads are finitely many and not named like
the kernel's actors; sizes are positive and counts are natural numbers; the
kinds of card are among those the driver knows, and in `MifareSession` MIFARE is
one of them; keys, blocks and lengths have the widths of the code; in `TclBlock` the FWI and
WTXM of the card do not make the timer value wrap around.  TLC evaluates them in
every run.

None of the properties is inductive.  Each proof module begins with an
invariant that is, in named parts; TLC has checked these on the runs'
configurations (for `MifareSession` also with other blocks and lengths) before
they were proved.  Then come lemmas about the operators, one lemma or step for
each action, `Invariance`, and the theorems.

| Property | Theorem | In |
| --- | --- | --- |
| `TypeOK`, `UnitsAccounted`, `MutexUnlessInterrupted`, `SlotChangeNotLost`, `CleanUnload` | `TypeCorrect`, `UnitsCorrect`, `MutexCorrect`, `SlotChangeCorrect`, `UnloadCorrect` | `PcdDeviceProofs` |
| `TypeOK`, `OneCompletion`, `NoLostWakeup`, `IrqOffUnlessPreempted`, `AnswerComplete`, `ImplementsRequestReply` | `TypeCorrect`, `CompletesOnce`, `WakesUp`, `IrqOff`, `WholeAnswer`, `Implements` | `Pn512EngineProofs` |
| `TypeOK`, `NumbersInStep`, `AtMostOnce`, `OkMeansDone`, `FailsForCause` | `TypeCorrect`, `InStep`, `ExecutedOnce`, `SuccessIsTrue`, `NoFailureWithoutCause` | `TclBlockProofs`, `WaitingTimeProofs` |
| `TypeOK`, `ShownIsKnown`, `InSession`, `PollTellsCardsApart`, `PollKeepsCard` | `TypeCorrect`, `ShownIsBacked`, `StaysInSession`, `TellsCardsApart`, `KeepsTheCard` | `PiccSessionProofs` |
| `MifareTypeOK`, `SessionSurvivesPolls`, `OkMeansWritten`, `SparesTrailers`, `AuthenticationTrusted`, `ImplementsSession` | `MifareTypeCorrect`, `SurvivesPolls`, `WrittenIfOk`, `TrailersSpared`, `TrustsAuthentication`, `ImplementsTheSession` | `MifareSessionProofs` |
| `PcscTypeOK`, `SwitchKeepsSession`, `SuccessMeansAll`, `PollStaysRight` | `PcscTypeCorrect`, `KeepsSession`, `MeansAll`, `StaysRight` | `PcscSessionProofs` |

*`PcdDeviceProofs`*: an argument of conservation.  `TypeOK` says nothing of who
owes what, so it is strengthened twice: `ControlOK` ties each actor to the
places it can be at and to the phase of the module's life, `QueueOK` says that
the wait list has no repetition and holds exactly the actors that wait.  Every
place in the code has a weight, the units whose `up` is still to come from
there; the `Balance` of free units, weights, broken waits and an interrupted
exit is 1 initially, and every action leaves it alone (`Conservation`; the sum
over the actors moves by the difference at the one or two that move,
`DebtStep`).  `UnitsAccounted` is the balance read off with the weights counted
(`BalanceIsUnits`), and mutual exclusion follows because two holders are two
units.

*`Pn512EngineProofs`*: the interrupt is an edge, so that what matters is who
will see a flag that is up.  `PinOK` says that an enabled flag has queued the
work item, and when the item has masked the chip; `FlagsOK` what a flag says of
the chip, whether it is still up or the item has read it and not yet dealt with
it (`Up`); `ProgressOK` that a request without an answer has the chip or the
timer still working for it; `DataOK` that buffer and FIFO together are what the
card has sent, unless an error is on its way.  `Implements` maps
`picc_wait_for_req` to `RequestReply`'s `Ask`, `Return` to its `Reply` and every
other step to a stutter.

*`TclBlockProofs`*: `ExchangeOK` holds until something is taken for a block that
the card has not sent (`seen.misread`).  It follows one block number: `Reached`
says whether the card has got the block the reader waits for; depending on that,
`AirOK` says which frames there can be, `CardOK` where the card is in its
response, `TextOK` what it has been told and has executed.  A retransmission
changes none of this, because it is asked for with the number.  `RestOK` is what
is left between two messages of a command, or two parts of a response.
`FailsForCause` needs a second invariant, `Quiet`, about an APDU of which no
frame was lost: its retry counters count nothing but waits that were too short
for an extension, at most one for each (`Due` is the one still to come), so that
two extensions do not exhaust them; no other wait is too short, by the two
theorems of `WaitingTimeProofs`.
`WaitingTimeProofs` goes through the table entry by entry; under an extension a
wait is linear in WTXM as long as the registers hold it, which the lemma
`Covered` shows for all but the waits that wrap around.

*`PiccSessionProofs`*: a step is a chain of exchanges, so the lemmas follow a
link through each function of the driver: what it finds (`LinkOK`, the card has
a state if and only if there is a field; `Truthful`, what is noted of the card
is true; `SessionOK`, `PICC_ACTIVATED` means PROTOCOL) and what it leaves,
whatever gets lost; a second set of lemmas says what happens if few enough
frames get lost (`TwiceRequestWakes` and the like), for `PollKeepsCard`.
`ShownIsKnown` and `InSession` follow from the invariant, the two properties of
polls from `Right` and `Searched`, what a check and a search find.

*`MifareSessionProofs`*: without what MIFARE adds, a link is one of
`PiccSession` (`Narrow`), and its lemmas are used for selection and polls; that
also gives the refinement `ImplementsTheSession`.  `KeysOK`, `ChipOK` and
`OpenOK` tie the keys, the crypto unit and the opened sector to the card.
`LoopOK` is the arithmetic of the loop: a command that writes is k blocks into
what was asked (`Rounds`), or its length is no multiple of a round and its rest,
counted in eight bits, never becomes zero, or its blocks have gone round from
255 to 0, which is another sector: in both cases it cannot succeed.
`GrantedOK` says that a granted sector is open, or was closed by a poll and is
opened again with a key that is known to be right.

*`PcscSessionProofs`*: the host can undo everything that `PiccSession` keeps, so
the invariant has a part for always (`Guessed`: a wrong type is one of type A
that is not activated) and one for the time before the host has gone round the
driver (`Believed`); `CommandOK` is the error and the rest of a command under
way.  The theorems also cover Topaz cards, which the run leaves out: a card of
type A that has taken the place of one, and whose number a switch to layer 3 has
noted, wakes at a power on without telling a RID and keeps the type Topaz.
`Believed` names this exception.

Only model-checked is liveness, which is out of the prover's reach:
`IoctlReturns`, `HostLearns`, `RequestReturns`, `ApduReturns`,
`RemovalNoticed`, `CardNoticed`, `AccessComesBack` and `PollHeals`.  So are the
violations, which are counterexamples.

## What is not modelled

- Speed negotiation, guard times, levels beyond 0 to 3 and 16 and empty messages
  in `iso14444.c`; the refill of the FIFO
  while sending and the start-up of the chip in `pn512.c`; memory management.
- In `pcsc.c`: the values of the parameters, the ATR, the timer of an exchange
  (overwritten by the engine, see the hazards) and the options of raw frames; in
  `picc.c` the constant answers (Get UID, Get ATS, BSI).
- Contents of MIFARE blocks and the format of values.
- The computation of parity and CRC in `topaz.c` and `crc.c`: they keep no state,
  and a damaged frame is an outcome of `Send`; where the code takes it for a good
  one is modelled.
- The gadget's operations in the middle of a poll: `PcdDevice` shows that this
  happens; the sessions let the gadget reset the parameters in the middle of a
  command, but not of a poll.
- In `PiccSession`: bits and levels of the anticollision, the slots of type B,
  several cards in the field at once.
- SPI, delays, configuration tables, debugging, the test menu: I/O and tables.

## Plan

All planned modules are written, and their safety properties are proved.  What
would add to them: `PcdDevice` composed with `PiccSession`, so that the gadget's
operations fall into the middle of a poll, and a theorem on which parts of
`SessionOK` survive that.
