------------------------- MODULE Pn512EngineProofs -------------------------
(***************************************************************************)
(* Theorems about Pn512Engine, for every size of the FIFO, every length of *)
(* answers, any numbering of the requests, with and without preemption.    *)
(***************************************************************************)
EXTENDS Pn512Engine, SequenceTheorems, TLAPS

-----------------------------------------------------------------------------
(* The inductive invariant.                                                *)

\* A flag is up in the chip, or the work item has read it and not dealt with it.
Seen(f) == wpc \in {"ack", "handle", "receive"} /\ f \in comm
Up(f)   == f \in irq \/ Seen(f)

\* A command has been started and has not been completed.
Running == rpc \in {"started", "waiting"} /\ completion = 0

\* Between requests the chip is silent; the work item is busy only with the
\* request in progress, or at the end of the one before.
TurnsOK ==
  /\ completion > 0 => completion = 1 /\ rpc = "waiting"
  /\ rpc \in {"idle", "prepared"} \/ completion > 0 =>
       rf = "none" /\ irq = {} /\ ~timer /\ ~tauto /\ ~queued
  /\ rpc = "set_up" => rf = "none" /\ irq \subseteq {"Timer"}
  /\ wpc \notin {"idle", "end"} => rpc = "waiting" /\ completion = 0

\* The interrupt pin: an enabled flag that is up has queued the work item,
\* and nothing queues it any more when it is about to complete the request.
PinOK ==
  /\ irq \cap ien # {} => queued
  /\ wpc \in {"read", "ack", "handle"} => ien = {} /\ ~queued
  /\ wpc = "receive" /\ "Idle" \in comm => ien = {} /\ ~queued
  /\ wpc = "receive" /\ "Rx" \in comm => ~queued
  /\ wpc = "done" => ~queued /\ (ien = {} \/ (rf = "none" /\ irq = {} /\ ~timer))
  /\ ~preempt /\ rpc = "idle" => wpc = "idle" /\ ien = {}
  /\ rpc = "waiting" /\ completion = 0 /\ wpc = "idle" => mask \subseteq ien

\* What the flags that are up say of the chip.
FlagsOK ==
  /\ Running =>
       /\ Up("Rx") => req.kind = "transceive" /\ rf = "none" /\ ~timer /\ sent > 0
       /\ Up("Idle") => req.kind = "auth" /\ rf = "none"
       /\ Up("Tx") => req.kind # "auth" /\ rf # "sending"
       /\ Up("Err") => req.kind = "transceive"
       /\ rf \in {"listening", "receiving"} => req.kind = "transceive"
       /\ rf = "authenticating" => req.kind = "auth"
       /\ rf = "receiving" => sent > 0 /\ ~timer
       /\ Seen("Rx") => irq \subseteq comm
       /\ Seen("Rx") /\ wpc # "ack" => irq = {}
  /\ wpc = "receive" =>
       /\ "Timer" \notin comm
       /\ "Tx" \in comm => req.kind = "transceive"
       /\ "Err" \in comm => req.error # "none"
  /\ wpc = "done" /\ req.error = "none" => rf = "none"

\* The mask enables what the request waits for.
MaskOK ==
  /\ rpc # "idle" => {"Err", "Timer"} \subseteq mask
  /\ rpc \in {"set_up", "started", "waiting"} =>
       /\ req.kind = "transceive" => "Rx" \in mask
       /\ req.kind = "transmit" => "Tx" \in mask
       /\ req.kind = "auth" => "Idle" \in mask
  /\ rpc # "idle" /\ "HiAlert" \in mask => req.tx_done
  /\ wpc \in {"handle", "receive"} /\ "HiAlert" \in comm => req.tx_done

\* The chip is working towards the end of the request, or has flagged it, or
\* the timer runs or has expired.
ProgressOK ==
  /\ rpc # "idle" /\ req.kind = "auth" => startNow
  /\ rpc \in {"set_up", "started", "waiting"} /\ completion = 0 =>
       /\ req.kind # "transmit" => tauto
       /\ req.kind = "transmit" => ~tauto /\ ~timer
       /\ req.kind = "auth" => timer \/ Up("Timer") \/ wpc = "done"
  /\ Running /\ rf = "listening" => timer \/ Up("Timer") \/ wpc = "done"
  /\ Running /\ rf = "none" /\ wpc # "done" =>
       /\ req.kind = "transceive" => Up("Rx")
       /\ req.kind = "transmit" => Up("Tx")
       /\ req.kind = "auth" => Up("Idle")

\* The first n bytes of the answer to a request.
Answer(id, n) == [i \in 1..n |-> <<id, i - 1>>]

\* Unless an error is noted or about to be, the buffer and the FIFO hold the
\* bytes that the card has sent.
DataOK ==
  /\ rpc \in {"prepared", "set_up"} => req.buf = <<>> /\ req.error = "none"
  /\ rpc = "set_up" => fifo = <<>>
  /\ rpc \in {"started", "waiting"} =>
       /\ sent <= MaxAnswer
       /\ Len(req.buf) + Len(fifo) <= sent
       /\ req.kind # "transceive" => sent = 0
       /\ req.error = "none" /\ ~Up("Err") /\ wpc # "done" /\ completion = 0 =>
            req.buf \o fifo = Answer(req.id, sent)
  /\ (wpc = "done" \/ completion > 0) /\ req.error = "none" =>
       /\ req.buf = Answer(req.id, sent)
       /\ req.kind = "transceive" => sent > 0

IInv == TypeOK /\ TurnsOK /\ PinOK /\ FlagsOK /\ MaskOK /\ ProgressOK /\ DataOK

-----------------------------------------------------------------------------
(* Sequences of received bytes, and the interrupt line.                    *)

\* Appending to the second of two sequences appends to their concatenation.
LEMMA ConcatAppend ==
  ASSUME NEW S, NEW b \in Seq(S), NEW f \in Seq(S), NEW e \in S
  PROVE  /\ b \o Append(f, e) = Append(b \o f, e)
         /\ Len(Append(f, e)) = Len(f) + 1
<1>1. Append(f, e) \in Seq(S) /\ Len(Append(f, e)) = Len(f) + 1
        /\ \A i \in 1..Len(f) + 1 : Append(f, e)[i] = IF i <= Len(f) THEN f[i] ELSE e
  BY AppendProperties
<1>2. b \o f \in Seq(S) /\ Len(b \o f) = Len(b) + Len(f)
        /\ \A i \in 1..Len(b) + Len(f) : (b \o f)[i] = IF i <= Len(b) THEN b[i] ELSE f[i - Len(b)]
  BY ConcatProperties
<1> DEFINE c == b \o f
           l == b \o Append(f, e)
           r == Append(c, e)
<1>3. l \in Seq(S) /\ Len(l) = Len(b) + Len(f) + 1
        /\ \A i \in 1..Len(b) + Len(f) + 1 :
             l[i] = IF i <= Len(b) THEN b[i] ELSE Append(f, e)[i - Len(b)]
  BY <1>1, ConcatProperties
<1>4. r \in Seq(S) /\ Len(r) = Len(b) + Len(f) + 1
        /\ \A i \in 1..Len(b) + Len(f) + 1 :
             r[i] = IF i <= Len(b) + Len(f) THEN c[i] ELSE e
  <2>1. c \in Seq(S) /\ Len(c) = Len(b) + Len(f)
    BY <1>2
  <2> HIDE DEF c
  <2> QED  BY <2>1, AppendProperties
<1>5. Len(b) \in Nat /\ Len(f) \in Nat
  BY LenProperties
<1> HIDE DEF l, r
<1>6. \A i \in 1..Len(l) : l[i] = r[i]
  <2> SUFFICES ASSUME NEW i \in 1..Len(l) PROVE l[i] = r[i]
    OBVIOUS
  <2>1. CASE i <= Len(b)
    <3>1. i \in 1..Len(b) + Len(f)
      BY <1>3, <1>5, <2>1
    <3>2. l[i] = b[i] /\ r[i] = c[i] /\ c[i] = b[i]
      BY <1>2, <1>3, <1>4, <1>5, <2>1, <3>1 DEF c
    <3> QED  BY <3>2
  <2>2. CASE i > Len(b) /\ i <= Len(b) + Len(f)
    <3>1. i - Len(b) \in 1..Len(f)
      BY <1>3, <1>5, <2>2
    <3> QED  BY <1>1, <1>2, <1>3, <1>4, <1>5, <2>2, <3>1
  <2>3. CASE i = Len(b) + Len(f) + 1
    BY <1>1, <1>3, <1>4, <1>5, <2>3
  <2> QED  BY <1>3, <1>5, <2>1, <2>2, <2>3
<1>7. l = r
  BY <1>3, <1>4, <1>6, SeqEqual
<1> QED  BY <1>1, <1>7 DEF l, r

\* The next byte continues an answer.
LEMMA NextByte ==
  ASSUME NEW S, NEW id, NEW n \in Nat, NEW c \in Seq(S), <<id, n>> \in S,
         c = Answer(id, n)
  PROVE  Append(c, <<id, n>>) = Answer(id, n + 1)
<1> DEFINE e == <<id, n>>
           s == Append(c, e)
<1>1. Len(c) = n /\ \A i \in 1..n : c[i] = <<id, i - 1>>
  BY LenProperties DEF Answer
<1>2. e \in S /\ e = <<id, (n + 1) - 1>>
  OBVIOUS
<1> HIDE DEF e
<1>3. s \in Seq(S) /\ Len(s) = n + 1
        /\ \A i \in 1..n + 1 : s[i] = IF i <= n THEN c[i] ELSE e
  BY <1>1, <1>2, AppendProperties
<1> HIDE DEF s
<1>4. \A i \in 1..n + 1 : s[i] = <<id, i - 1>>
  <2> SUFFICES ASSUME NEW i \in 1..n + 1 PROVE s[i] = <<id, i - 1>>
    OBVIOUS
  <2>1. CASE i <= n
    BY <1>1, <1>3, <2>1
  <2>2. CASE i = n + 1
    BY <1>2, <1>3, <2>2
  <2> QED  BY <2>1, <2>2
<1>5. s = [i \in 1..n + 1 |-> s[i]]
  BY <1>3, LenProperties
<1>6. s = [i \in 1..n + 1 |-> <<id, i - 1>>]
  BY <1>4, <1>5
<1> QED  BY <1>6 DEF s, e, Answer

\* Nothing received is the answer of no bytes.
LEMMA EmptyAnswer ==
  ASSUME NEW id
  PROVE  <<>> \o <<>> = Answer(id, 0) /\ Answer(id, 0) = <<>>
<1>1. Answer(id, 0) = <<>>
  BY DEF Answer
<1>2. <<>> \o <<>> = <<>>
  OBVIOUS
<1> QED  BY <1>1, <1>2

\* The interrupt handler queues the work item and never takes it off the
\* queue; it needs an enabled flag; it keeps an enabled flag from going unseen.
LEMMA Interrupt ==
  ASSUME NEW q \in BOOLEAN, pn512_interrupt(q)
  PROVE  /\ queued' \in BOOLEAN
         /\ q => queued'
         /\ queued' => q \/ (irq' # {} /\ ien' # {})
         /\ (irq \cap ien # {} => q) => (irq' \cap ien' # {} => queued')
BY DEF pn512_interrupt, Edge

-----------------------------------------------------------------------------
(* Every action keeps the invariant.                                       *)

\* A new request: the chip has been silent since the last one returned.
LEMMA picc_wait_for_reqStep ==
  ASSUME IInv, picc_wait_for_req
  PROVE  IInv'
<1> USE FifoAssumption, AnswerAssumption, IdsAssumption, BuildsAssumption
<1> USE DEF IInv, TypeOK, Flags, Kinds, Ids, Up, Seen, Running, picc_wait_for_req,
            RequesterRuns, workVars, cardVars, timeVars
<1>1. TypeOK'
  OBVIOUS
<1>2. TurnsOK'
  BY DEF TurnsOK
<1>3. PinOK'
  BY DEF PinOK
<1>4. FlagsOK'
  BY DEF FlagsOK, TurnsOK
<1>5. MaskOK'
  BY DEF MaskOK, TurnsOK
<1>6. ProgressOK'
  <2>1. PICK k \in Kinds : req'.kind = k /\ startNow' = (startNow \/ k = "auth")
    OBVIOUS
  <2> QED  BY <2>1 DEF ProgressOK, TurnsOK
<1>7. DataOK'
  BY DEF DataOK, TurnsOK
<1> QED  BY <1>1, <1>2, <1>3, <1>4, <1>5, <1>6, <1>7

\* The FIFO is empty before the frame is written, the mask has what ends the request.
LEMMA SetUpStep ==
  ASSUME IInv, SetUp
  PROVE  IInv'
<1> USE FifoAssumption, AnswerAssumption, IdsAssumption, BuildsAssumption
<1> USE DEF IInv, TypeOK, Flags, Kinds, Ids, Up, Seen, Running, SetUp, RequesterRuns
<1>q. /\ queued' \in BOOLEAN
      /\ queued => queued'
      /\ queued' => queued \/ (irq' # {} /\ ien' # {})
      /\ (irq \cap ien # {} => queued) => (irq' \cap ien' # {} => queued')
  BY Interrupt
<1>1. TypeOK'
  <2>1. mask' \subseteq Flags
    <3>1. CASE req.kind = "auth"
      BY <3>1
    <3>2. CASE req.kind = "transmit"
      BY <3>2
    <3>3. CASE req.kind = "transceive"
      BY <3>3
    <3> QED  BY <3>1, <3>2, <3>3
  <2>2. irq' \subseteq Flags /\ fifo' \in Seq(Ids \X Nat) /\ Len(fifo') <= FifoSize
    OBVIOUS
  <2>3. timer' \in BOOLEAN /\ tauto' \in BOOLEAN
    OBVIOUS
  <2> QED  BY <1>q, <2>1, <2>2, <2>3
<1>2. TurnsOK'
  BY <1>q DEF TurnsOK
<1>3. PinOK'
  BY <1>q DEF PinOK, TurnsOK
<1>4. FlagsOK'
  BY <1>q DEF FlagsOK
<1>5. MaskOK'
  BY <1>q DEF MaskOK
<1>6. ProgressOK'
  BY <1>q DEF TurnsOK, ProgressOK, FlagsOK, PinOK
<1>7. DataOK'
  BY <1>q DEF DataOK
<1> QED  BY <1>1, <1>2, <1>3, <1>4, <1>5, <1>6, <1>7

\* The command starts with nothing received and nothing sent.
LEMMA StartSendStep ==
  ASSUME IInv, StartSend
  PROVE  IInv'
<1> USE FifoAssumption, AnswerAssumption, IdsAssumption, BuildsAssumption
<1> USE DEF IInv, TypeOK, Flags, Kinds, Ids, Up, Seen, Running, StartSend, timeVars
<1>q. /\ queued' \in BOOLEAN
      /\ queued => queued'
      /\ queued' => queued \/ (irq' # {} /\ ien' # {})
      /\ (irq \cap ien # {} => queued) => (irq' \cap ien' # {} => queued')
  BY Interrupt
<1>1. TypeOK'
  BY <1>q
<1>2. TurnsOK'
  BY <1>q DEF TurnsOK
<1>3. PinOK'
  BY <1>q DEF TurnsOK, PinOK, FlagsOK
<1>4. FlagsOK'
  BY <1>q DEF FlagsOK, TurnsOK
<1>5. MaskOK'
  BY <1>q DEF MaskOK
<1>6. ProgressOK'
  BY <1>q DEF ProgressOK
<1>7. DataOK'
  <2>1. req.buf = <<>> /\ fifo = <<>> /\ Len(<<>>) = 0
    BY DEF DataOK
  <2>2. Answer(req.id, 0) = <<>> /\ <<>> \o <<>> = Answer(req.id, 0)
    BY EmptyAnswer
  <2> QED  BY <2>1, <2>2 DEF DataOK, TurnsOK
<1> QED  BY <1>1, <1>2, <1>3, <1>4, <1>5, <1>6, <1>7

\* A flag raised before the interrupts are enabled queues the work item now.
LEMMA EnableIrqStep ==
  ASSUME IInv, EnableIrq
  PROVE  IInv'
<1> USE FifoAssumption, AnswerAssumption, IdsAssumption, BuildsAssumption
<1> USE DEF IInv, TypeOK, Flags, Kinds, Ids, Up, Seen, Running, EnableIrq, cardVars,
            timeVars
<1>q. /\ queued' \in BOOLEAN
      /\ queued => queued'
      /\ queued' => queued \/ (irq' # {} /\ ien' # {})
      /\ (irq \cap ien # {} => queued) => (irq' \cap ien' # {} => queued')
  BY Interrupt
<1>1. TypeOK'
  BY <1>q
<1>2. TurnsOK'
  BY <1>q DEF TurnsOK
<1>3. PinOK'
  BY <1>q DEF TurnsOK, PinOK, FlagsOK
<1>4. FlagsOK'
  BY <1>q DEF FlagsOK
<1>5. MaskOK'
  BY <1>q DEF MaskOK
<1>6. ProgressOK'
  BY <1>q DEF ProgressOK
<1>7. DataOK'
  BY <1>q DEF TurnsOK, FlagsOK, DataOK, PinOK
<1> QED  BY <1>1, <1>2, <1>3, <1>4, <1>5, <1>6, <1>7

\* The request that waited returns; nothing of it is left in the chip.
LEMMA ReturnStep ==
  ASSUME IInv, Return
  PROVE  IInv'
<1> USE FifoAssumption, AnswerAssumption, IdsAssumption, BuildsAssumption
<1> USE DEF IInv, TypeOK, Flags, Kinds, Ids, Up, Seen, Running, Return, RequesterRuns,
            workVars, cardVars, timeVars
<1>1. TypeOK'
  OBVIOUS
<1>2. TurnsOK'
  BY DEF TurnsOK
<1>3. PinOK'
  BY DEF PinOK
<1>4. FlagsOK'
  BY DEF FlagsOK
<1>5. MaskOK'
  BY DEF MaskOK
<1>6. ProgressOK'
  BY DEF ProgressOK
<1>7. DataOK'
  BY DEF DataOK
<1> QED  BY <1>1, <1>2, <1>3, <1>4, <1>5, <1>6, <1>7

\* The work item starts only for a request that is waiting.
LEMMA WorkStartStep ==
  ASSUME IInv, WorkStart
  PROVE  IInv'
<1> USE FifoAssumption, AnswerAssumption, IdsAssumption, BuildsAssumption
<1> USE DEF IInv, TypeOK, Flags, Kinds, Ids, Up, Seen, Running, WorkStart, WorkRuns,
            reqVars, cardVars, timeVars
<1>q. /\ queued' \in BOOLEAN
      /\ FALSE => queued'
      /\ queued' => FALSE \/ (irq' # {} /\ ien' # {})
      /\ (irq \cap ien # {} => FALSE) => (irq' \cap ien' # {} => queued')
  BY Interrupt
<1>1. TypeOK'
  BY <1>q
<1>2. TurnsOK'
  BY <1>q DEF TurnsOK
<1>3. PinOK'
  BY <1>q DEF TurnsOK, PinOK, FlagsOK
<1>4. FlagsOK'
  BY <1>q DEF FlagsOK
<1>5. MaskOK'
  BY <1>q DEF MaskOK
<1>6. ProgressOK'
  BY <1>q DEF ProgressOK
<1>7. DataOK'
  BY <1>q DEF TurnsOK, FlagsOK, DataOK, PinOK
<1> QED  BY <1>1, <1>2, <1>3, <1>4, <1>5, <1>6, <1>7

\* What it reads stays up until it has dealt with it.
LEMMA ReadIrqStep ==
  ASSUME IInv, ReadIrq
  PROVE  IInv'
<1> USE FifoAssumption, AnswerAssumption, IdsAssumption, BuildsAssumption
<1> USE DEF IInv, TypeOK, Flags, Kinds, Ids, Up, Seen, Running, ReadIrq, reqVars, cardVars,
            timeVars
<1>1. TypeOK'
  OBVIOUS
<1>2. TurnsOK'
  BY DEF TurnsOK
<1>3. PinOK'
  BY DEF PinOK
<1>4. FlagsOK'
  BY DEF FlagsOK
<1>5. MaskOK'
  BY DEF MaskOK
<1>6. ProgressOK'
  BY DEF ProgressOK
<1>7. DataOK'
  BY DEF TurnsOK, FlagsOK, DataOK, PinOK
<1> QED  BY <1>1, <1>2, <1>3, <1>4, <1>5, <1>6, <1>7

\* It clears what it has read; the mask keeps what the request waits for.
LEMMA AckIrqStep ==
  ASSUME IInv, AckIrq
  PROVE  IInv'
<1> USE FifoAssumption, AnswerAssumption, IdsAssumption, BuildsAssumption
<1> USE DEF IInv, TypeOK, Flags, Kinds, Ids, Up, Seen, Running, AckIrq, reqVars, cardVars,
            timeVars
<1>q. /\ queued' \in BOOLEAN
      /\ queued => queued'
      /\ queued' => queued \/ (irq' # {} /\ ien' # {})
      /\ (irq \cap ien # {} => queued) => (irq' \cap ien' # {} => queued')
  BY Interrupt
<1>1. TypeOK'
  BY <1>q
<1>2. TurnsOK'
  BY <1>q DEF TurnsOK
<1>3. PinOK'
  BY <1>q DEF PinOK
<1>4. FlagsOK'
  BY <1>q DEF FlagsOK
<1>5. MaskOK'
  BY <1>q DEF MaskOK, TurnsOK
<1>6. ProgressOK'
  BY <1>q DEF ProgressOK, MaskOK
<1>7. DataOK'
  BY <1>q DEF TurnsOK, MaskOK, DataOK
<1> QED  BY <1>1, <1>2, <1>3, <1>4, <1>5, <1>6, <1>7

\* A timeout turns to the end of the request with an error.
LEMMA HandleTimerStep ==
  ASSUME IInv, HandleTimer
  PROVE  IInv'
<1> USE FifoAssumption, AnswerAssumption, IdsAssumption, BuildsAssumption
<1> USE DEF IInv, TypeOK, Flags, Kinds, Ids, Up, Seen, Running, HandleTimer, cardVars,
            timeVars
<1>1. TypeOK'
  BY DEF TurnsOK, MaskOK
<1>2. TurnsOK'
  BY DEF TurnsOK
<1>3. PinOK'
  BY DEF PinOK
<1>4. FlagsOK'
  BY DEF FlagsOK
<1>5. MaskOK'
  BY DEF MaskOK
<1>6. ProgressOK'
  BY DEF ProgressOK
<1>7. DataOK'
  BY DEF DataOK, TurnsOK
<1> QED  BY <1>1, <1>2, <1>3, <1>4, <1>5, <1>6, <1>7

\* An error is noted before bytes are dropped; the turn to the receiver enables Rx.
LEMMA HandleErrTxStep ==
  ASSUME IInv, HandleErrTx
  PROVE  IInv'
<1> USE FifoAssumption, AnswerAssumption, IdsAssumption, BuildsAssumption
<1>q. /\ queued' \in BOOLEAN
      /\ queued => queued'
      /\ queued' => queued \/ (irq' # {} /\ ien' # {})
      /\ (irq \cap ien # {} => queued) => (irq' \cap ien' # {} => queued')
  BY Interrupt DEF IInv, TypeOK, HandleErrTx
<1> DEFINE turns == "Tx" \in comm /\ req.kind = "transceive"
<1>a. /\ wpc = "handle" /\ rpc = "waiting" /\ completion = 0 /\ "Timer" \notin comm
      /\ wpc' = IF "Tx" \in comm /\ ~turns THEN "done" ELSE "receive"
      /\ mask' = IF turns THEN (mask \ {"Tx"}) \cup {"Rx", "HiAlert"} ELSE mask
      /\ ien' = IF turns THEN mask' ELSE ien
      /\ irq' = irq
      /\ fifo' = fifo \/ (fifo' = <<>> /\ "Err" \in comm)
      /\ UNCHANGED <<preempt, rpc, startNow, completion, reply, comm, rf, sent, tauto, timer>>
  BY DEF IInv, TurnsOK, HandleErrTx, timeVars
<1>b. /\ req' \in [id : Ids, kind : Kinds, error : {"none", "notag", "err"}, tx_done : BOOLEAN,
                   buf : Seq(Ids \X Nat)]
      /\ req'.buf = req.buf /\ req'.id = req.id /\ req'.kind = req.kind
      /\ req'.error = IF "Err" \in comm THEN "err" ELSE req.error
      /\ req.tx_done \/ "Tx" \in comm => req'.tx_done
  BY DEF IInv, TypeOK, HandleErrTx
<1>c. fifo' \in Seq(Ids \X Nat) /\ Len(fifo') \in Nat /\ Len(fifo') <= Len(fifo)
  <2>1. fifo \in Seq(Ids \X Nat) /\ Len(fifo) \in Nat
    BY LenProperties DEF IInv, TypeOK
  <2>2. <<>> \in Seq(Ids \X Nat) /\ Len(<<>>) = 0
    BY EmptySeq
  <2>3. CASE fifo' = fifo
    BY <2>1, <2>3
  <2>4. CASE fifo' = <<>>
    BY <2>1, <2>2, <2>4
  <2> QED  BY <1>a, <2>3, <2>4
<1>1. TypeOK'
  <2>1. mask' \subseteq Flags /\ ien' \subseteq Flags /\ wpc' \in {"done", "receive"}
    BY <1>a DEF IInv, TypeOK, Flags
  <2> QED  BY <1>q, <1>a, <1>b, <1>c, <2>1 DEF IInv, TypeOK
<1>2. TurnsOK'
  BY <1>q, <1>a, <1>b DEF IInv, TypeOK, TurnsOK
<1>3. PinOK'
  BY <1>q, <1>a, <1>b DEF IInv, TypeOK, PinOK, TurnsOK, FlagsOK, Running, Up, Seen
<1>4. FlagsOK'
  BY <1>a, <1>b DEF IInv, TypeOK, FlagsOK, Running, Up, Seen, Kinds
<1>5. MaskOK'
  BY <1>a, <1>b DEF IInv, TypeOK, MaskOK, TurnsOK
<1>6. ProgressOK'
  BY <1>a, <1>b DEF IInv, TypeOK, ProgressOK, Running, Up, Seen
<1>7. DataOK'
  <2>1. Len(req'.buf) + Len(fifo') <= sent' /\ sent' = sent /\ Len(req.buf) \in Nat
    BY <1>a, <1>b, <1>c, LenProperties DEF IInv, TypeOK, DataOK
  <2>2. CASE wpc' = "receive"
    BY <1>a, <1>b, <2>1, <2>2 DEF IInv, DataOK, Up, Seen
  <2>3. CASE wpc' = "done"
    <3>1. req.kind # "transceive" /\ sent = 0
      BY <1>a, <2>3 DEF IInv, DataOK
    <3>2. req.buf \in Seq(Ids \X Nat) /\ Len(req.buf) = 0
      BY <1>c, <2>1, <1>b, <3>1 DEF IInv, TypeOK
    <3>3. req.buf = Answer(req.id, 0)
      BY <3>2, EmptyAnswer
    <3> QED  BY <1>a, <1>b, <2>1, <2>3, <3>1, <3>3 DEF IInv, DataOK
  <2> QED  BY <1>a, <2>2, <2>3
<1> QED  BY <1>1, <1>2, <1>3, <1>4, <1>5, <1>6, <1>7 DEF IInv

\* Bytes move from the FIFO to the buffer in order; the last ones end the request.
LEMMA HandleReceiveStep ==
  ASSUME IInv, HandleReceive
  PROVE  IInv'
<1> USE FifoAssumption, AnswerAssumption, IdsAssumption, BuildsAssumption
<1>q. /\ queued' \in BOOLEAN
      /\ queued => queued'
      /\ queued' => queued \/ (irq' # {} /\ ien' # {})
      /\ (irq \cap ien # {} => queued) => (irq' \cap ien' # {} => queued')
  BY Interrupt DEF IInv, TypeOK, HandleReceive
<1>0. /\ wpc = "receive" /\ rpc = "waiting" /\ completion = 0
      /\ "HiAlert" \in comm => req.tx_done
      /\ Len(req.buf) + Len(fifo) <= sent /\ sent <= MaxAnswer
  BY DEF IInv, TurnsOK, MaskOK, DataOK, HandleReceive
<1>a. /\ \/ comm \cap {"HiAlert", "Rx"} = {} /\ req' = req /\ fifo' = fifo /\ "Rx" \notin comm
         \/ req' = [req EXCEPT !.buf = req.buf \o fifo] /\ fifo' = <<>>
      /\ mask' = IF "Rx" \in comm THEN mask \ {"HiAlert"} ELSE mask
      /\ ien'  = IF "Rx" \in comm THEN mask' ELSE ien
      /\ wpc'  = IF comm \cap {"Rx", "Idle"} # {} THEN "done" ELSE "end"
      /\ irq' = irq
      /\ UNCHANGED <<preempt, rpc, startNow, completion, reply, comm, rf, sent, tauto, timer>>
  BY <1>0 DEF HandleReceive, timeVars
<1>b. /\ req' = [req EXCEPT !.buf = req'.buf]
      /\ req'.buf \in Seq(Ids \X Nat) /\ fifo' \in Seq(Ids \X Nat)
      /\ Len(fifo') <= Len(fifo) /\ Len(req'.buf) + Len(fifo') = Len(req.buf) + Len(fifo)
      /\ req'.buf \o fifo' = req.buf \o fifo
      /\ "Rx" \in comm => req'.buf = req.buf \o fifo /\ fifo' = <<>>
  <2> DEFINE all == req.buf \o fifo
             S == Ids \X Nat
  <2>0. /\ req.buf \in Seq(S) /\ fifo \in Seq(S)
        /\ req \in [id : Ids, kind : Kinds, error : {"none", "notag", "err"}, tx_done : BOOLEAN,
                    buf : Seq(S)]
    BY DEF IInv, TypeOK
  <2> HIDE DEF S
  <2>1. all \in Seq(S) /\ Len(all) = Len(req.buf) + Len(fifo) /\ all \o <<>> = all
    BY <2>0, ConcatProperties, ConcatEmptySeq
  <2>2. Len(req.buf) \in Nat /\ Len(fifo) \in Nat
    BY <2>0, LenProperties
  <2>3. CASE req' = req /\ fifo' = fifo /\ "Rx" \notin comm
    BY <2>0, <2>2, <2>3 DEF S
  <2>4. CASE req' = [req EXCEPT !.buf = all] /\ fifo' = <<>>
    <3>1. req'.buf = all
      BY <2>0, <2>4
    <3> HIDE DEF all
    <3>2. Len(<<>>) = 0 /\ <<>> \in Seq(S)
      OBVIOUS
    <3>3. /\ req' = [req EXCEPT !.buf = req'.buf] /\ req'.buf \in Seq(S)
          /\ Len(fifo') = 0 /\ fifo' \in Seq(S)
          /\ Len(req'.buf) = Len(req.buf) + Len(fifo) /\ req'.buf \o fifo' = all
      BY <2>1, <2>4, <3>1, <3>2
    <3> QED  BY SMTT(30), <2>2, <2>4, <3>1, <3>3 DEF all, S
  <2> QED  BY <1>a, <2>3, <2>4
<1>c. req'.id = req.id /\ req'.kind = req.kind /\ req'.error = req.error
        /\ req'.tx_done = req.tx_done
  BY <1>b DEF IInv, TypeOK
<1>1. TypeOK'
  <2>1. req' \in [id : Ids, kind : Kinds, error : {"none", "notag", "err"}, tx_done : BOOLEAN,
                  buf : Seq(Ids \X Nat)]
    BY <1>b DEF IInv, TypeOK
  <2>2. Len(req'.buf) <= MaxAnswer /\ Len(fifo') <= FifoSize
    BY SMTT(30), <1>0, <1>b, LenProperties DEF IInv, TypeOK
  <2>3. mask' \subseteq Flags /\ ien' \subseteq Flags /\ wpc' \in {"done", "end"}
    BY <1>a DEF IInv, TypeOK
  <2> QED  BY <1>q, <1>a, <1>b, <2>1, <2>2, <2>3 DEF IInv, TypeOK
<1>2. TurnsOK'
  BY <1>q, <1>0, <1>a DEF IInv, TypeOK, TurnsOK, PinOK
<1>3. PinOK'
  BY <1>q, <1>0, <1>a DEF IInv, TypeOK, PinOK, TurnsOK, FlagsOK, Running, Up, Seen, Flags
<1>4. FlagsOK'
  BY <1>0, <1>a, <1>c DEF IInv, FlagsOK, Running, Up, Seen
<1>5. MaskOK'
  BY <1>0, <1>a, <1>c DEF IInv, TypeOK, MaskOK, TurnsOK
<1>6. ProgressOK'
  BY <1>0, <1>a, <1>c DEF IInv, TypeOK, ProgressOK, FlagsOK, Running, Up, Seen, Kinds
<1>7. DataOK'
  <2>1. Len(req'.buf) + Len(fifo') <= sent' /\ sent' = sent
    BY <1>0, <1>a, <1>b
  <2>2. CASE wpc' = "end"
    BY <1>0, <1>a, <1>b, <1>c, <2>1, <2>2 DEF IInv, DataOK, FlagsOK, Up, Seen
  <2>3. CASE wpc' = "done" /\ req.error = "none"
    <3>1. "Rx" \in comm \/ "Idle" \in comm
      BY <1>a, <2>3
    <3>2. ~Up("Err") /\ (req.kind = "transceive" => sent > 0 /\ "Rx" \in comm)
      BY <1>0, <2>3, <3>1 DEF IInv, FlagsOK, Running, Up, Seen
    <3>3. req.buf \o fifo = Answer(req.id, sent)
      BY <1>0, <2>3, <3>2 DEF IInv, DataOK
    <3>4. req'.buf = Answer(req.id, sent)
      <4>1. CASE "Rx" \in comm
        BY <1>b, <3>3, <4>1
      <4>2. CASE req.kind # "transceive"
        <5>1. sent = 0
          BY <1>0, <4>2 DEF IInv, DataOK
        <5>2. req'.buf \in Seq(Ids \X Nat) /\ Len(req'.buf) = 0
          BY <1>b, <2>1, <5>1, LenProperties
        <5> QED  BY <5>1, <5>2, EmptyAnswer
      <4> QED  BY <3>2, <4>1, <4>2
    <3> QED  BY <1>0, <1>a, <1>c, <2>1, <2>3, <3>2, <3>4 DEF IInv, DataOK
  <2>4. CASE wpc' = "done" /\ req.error # "none"
    BY <1>0, <1>a, <1>c, <2>1, <2>4 DEF IInv, DataOK
  <2> QED  BY <1>a, <2>2, <2>3, <2>4
<1> QED  BY <1>1, <1>2, <1>3, <1>4, <1>5, <1>6, <1>7 DEF IInv

\* The completion is the only one, and the chip is silent afterwards.
LEMMA pn512_process_doneStep ==
  ASSUME IInv, pn512_process_done
  PROVE  IInv'
<1> USE FifoAssumption, AnswerAssumption, IdsAssumption, BuildsAssumption
<1> USE DEF IInv, TypeOK, Flags, Kinds, Ids, Up, Seen, Running, pn512_process_done
<1>q. /\ queued' \in BOOLEAN
      /\ queued => queued'
      /\ queued' => queued \/ (irq' # {} /\ ien' # {})
      /\ (irq \cap ien # {} => queued) => (irq' \cap ien' # {} => queued')
  BY Interrupt
<1>1. TypeOK'
  <2>1. completion' \in Nat /\ irq' \subseteq Flags
    OBVIOUS
  <2> QED  BY <1>q, <2>1
<1>2. TurnsOK'
  BY <1>q DEF TurnsOK, PinOK
<1>3. PinOK'
  BY <1>q DEF PinOK
<1>4. FlagsOK'
  BY <1>q DEF FlagsOK
<1>5. MaskOK'
  BY <1>q DEF MaskOK
<1>6. ProgressOK'
  BY <1>q DEF ProgressOK
<1>7. DataOK'
  BY <1>q DEF DataOK
<1> QED  BY <1>1, <1>2, <1>3, <1>4, <1>5, <1>6, <1>7

\* The interrupts are enabled again, what is up queues the work item.
LEMMA WorkEndStep ==
  ASSUME IInv, WorkEnd
  PROVE  IInv'
<1> USE FifoAssumption, AnswerAssumption, IdsAssumption, BuildsAssumption
<1> USE DEF IInv, TypeOK, Flags, Kinds, Ids, Up, Seen, Running, WorkEnd, reqVars, cardVars,
            timeVars
<1>q. /\ queued' \in BOOLEAN
      /\ queued => queued'
      /\ queued' => queued \/ (irq' # {} /\ ien' # {})
      /\ (irq \cap ien # {} => queued) => (irq' \cap ien' # {} => queued')
  BY Interrupt
<1>1. TypeOK'
  BY <1>q
<1>2. TurnsOK'
  BY <1>q DEF TurnsOK, PinOK
<1>3. PinOK'
  BY <1>q DEF TurnsOK, PinOK, FlagsOK
<1>4. FlagsOK'
  BY <1>q DEF FlagsOK
<1>5. MaskOK'
  BY <1>q DEF MaskOK
<1>6. ProgressOK'
  BY <1>q DEF ProgressOK
<1>7. DataOK'
  BY <1>q DEF TurnsOK, FlagsOK, DataOK, PinOK
<1> QED  BY <1>1, <1>2, <1>3, <1>4, <1>5, <1>6, <1>7

\* The frame is out: the chip listens and the timer runs, or the chip is done.
LEMMA TxEndStep ==
  ASSUME IInv, TxEnd
  PROVE  IInv'
<1> USE FifoAssumption, AnswerAssumption, IdsAssumption, BuildsAssumption
<1> USE DEF IInv, TypeOK, Flags, Kinds, Ids, Up, Seen, Running, TxEnd, Flag, reqVars
<1>q. /\ queued' \in BOOLEAN
      /\ queued => queued'
      /\ queued' => queued \/ (irq' # {} /\ ien' # {})
      /\ (irq \cap ien # {} => queued) => (irq' \cap ien' # {} => queued')
  BY Interrupt
<1>1. TypeOK'
  BY SMTT(30), <1>q
<1>2. TurnsOK'
  BY <1>q DEF TurnsOK
<1>3. PinOK'
  BY <1>q DEF TurnsOK, PinOK, FlagsOK
<1>4. FlagsOK'
  BY <1>q DEF FlagsOK
<1>5. MaskOK'
  BY <1>q DEF MaskOK
<1>6. ProgressOK'
  BY <1>q DEF ProgressOK
<1>7. DataOK'
  BY <1>q DEF TurnsOK, FlagsOK, DataOK, PinOK
<1> QED  BY <1>1, <1>2, <1>3, <1>4, <1>5, <1>6, <1>7

\* A byte follows those before it, or an overflow is flagged.
LEMMA RxByteStep ==
  ASSUME IInv, RxByte
  PROVE  IInv'
<1> USE FifoAssumption, AnswerAssumption, IdsAssumption, BuildsAssumption
<1> DEFINE e == <<req.id, sent>>
           S == Ids \X Nat
<1>q. /\ queued' \in BOOLEAN
      /\ queued => queued'
      /\ queued' => queued \/ (irq' # {} /\ ien' # {})
      /\ (irq \cap ien # {} => queued) => (irq' \cap ien' # {} => queued')
  BY Interrupt DEF IInv, TypeOK, RxByte, Flag
<1>a. /\ rf \in {"listening", "receiving"} /\ sent < MaxAnswer
      /\ rf' = "receiving" /\ timer' = FALSE /\ sent' = sent + 1
      /\ \/ Len(fifo) < FifoSize /\ fifo' = Append(fifo, e) /\ irq' \in {irq, irq \cup {"HiAlert"}}
         \/ fifo' = fifo /\ irq' = irq \cup {"Err"}
      /\ UNCHANGED <<preempt, rpc, req, startNow, mask, completion, reply, wpc, comm, ien, tauto>>
  BY DEF RxByte, Flag, reqVars
<1>b. /\ Running /\ req.kind = "transceive" /\ ~Up("Rx")
      /\ wpc = "done" => req.error # "none"
  <2>1. Running
    BY <1>a DEF IInv, TypeOK, TurnsOK, Running
  <2> QED  BY <1>a, <2>1 DEF IInv, FlagsOK
<1>c. e \in S /\ fifo \in Seq(S) /\ req.buf \in Seq(S) /\ Len(fifo) \in Nat /\ Len(req.buf) \in Nat
        /\ sent \in Nat
  BY LenProperties DEF IInv, TypeOK
<1>d. Append(fifo, e) \in Seq(S) /\ Len(Append(fifo, e)) = Len(fifo) + 1
  <2> HIDE DEF e, S
  <2> QED  BY <1>c, AppendProperties
<1>e. fifo' \in Seq(S) /\ Len(fifo') <= FifoSize /\ Len(fifo') <= Len(fifo) + 1
  <2>1. Len(fifo) <= FifoSize
    BY DEF IInv, TypeOK
  <2> HIDE DEF e, S
  <2> QED  BY <1>a, <1>c, <1>d, <2>1
<1> HIDE DEF e, S
<1>1. TypeOK'
  <2>1. irq' \subseteq Flags
    BY <1>a DEF IInv, TypeOK, Flags
  <2>2. sent' \in Nat
    BY <1>a, <1>c
  <2> QED  BY <1>q, <1>a, <1>e, <2>1, <2>2 DEF IInv, TypeOK, S
<1>2. TurnsOK'
  BY <1>a, <1>b DEF IInv, TurnsOK
<1>3. PinOK'
  BY <1>q, <1>a, <1>b DEF IInv, TypeOK, PinOK, FlagsOK, Running, Up, Seen
<1>4. FlagsOK'
  BY <1>a, <1>b, <1>c DEF IInv, FlagsOK, Running, Up, Seen
<1>5. MaskOK'
  BY <1>a DEF IInv, MaskOK
<1>6. ProgressOK'
  BY <1>a, <1>b DEF IInv, TypeOK, ProgressOK, Running, Up, Seen
<1>7. DataOK'
  <2>1. Len(req.buf) + Len(fifo') <= sent'
    BY <1>a, <1>b, <1>c, <1>e DEF IInv, DataOK, Running
  <2>2. ASSUME fifo' = Append(fifo, e), req.buf \o fifo = Answer(req.id, sent)
        PROVE  req.buf \o fifo' = Answer(req.id, sent + 1)
    <3>1. req.buf \o fifo' = Append(req.buf \o fifo, e)
      <4>1. \A a, b \in Seq(S) : \A x \in S : a \o Append(b, x) = Append(a \o b, x)
        BY ConcatAppend
      <4> QED  BY <1>c, <2>2, <4>1
    <3>2. req.buf \o fifo \in Seq(S)
      BY <1>c, ConcatProperties
    <3>3. Append(req.buf \o fifo, <<req.id, sent>>) = Answer(req.id, sent + 1)
      <4> DEFINE c == req.buf \o fifo
      <4>1. c \in Seq(S) /\ c = Answer(req.id, sent) /\ <<req.id, sent>> \in S
        BY <1>c, <2>2, <3>2 DEF e
      <4> HIDE DEF c
      <4>2. Append(c, <<req.id, sent>>) = Answer(req.id, sent + 1)
        BY <1>c, <4>1, NextByte
      <4> QED  BY <4>2 DEF c
    <3> QED  BY <3>1, <3>3 DEF e
  <2>3. req.error = "none" /\ ~Up("Err") =>
          req.buf \o fifo = Answer(req.id, sent) /\ wpc # "done"
    BY <1>b DEF IInv, DataOK, Running
  <2>4. /\ UNCHANGED <<req, rpc, completion, wpc, comm>> /\ sent' = sent + 1 /\ sent' <= MaxAnswer
    BY <1>a, <1>c, AnswerAssumption
  <2>5. req.error = "none" /\ ~Up("Err")' => req.buf \o fifo' = Answer(req.id, sent')
    <3>1. ~Up("Err")' => ~Up("Err") /\ fifo' = Append(fifo, e)
      BY <1>a DEF Up, Seen
    <3> QED  BY <2>2, <2>3, <2>4, <3>1
  <2> QED  BY <1>b, <2>1, <2>4, <2>5 DEF IInv, DataOK, Running
<1> QED  BY <1>1, <1>2, <1>3, <1>4, <1>5, <1>6, <1>7 DEF IInv

\* The answer is complete and flagged.
LEMMA RxEndStep ==
  ASSUME IInv, RxEnd
  PROVE  IInv'
<1> USE FifoAssumption, AnswerAssumption, IdsAssumption, BuildsAssumption
<1> USE DEF IInv, TypeOK, Flags, Kinds, Ids, Up, Seen, Running, RxEnd, Flag, reqVars,
            timeVars
<1>q. /\ queued' \in BOOLEAN
      /\ queued => queued'
      /\ queued' => queued \/ (irq' # {} /\ ien' # {})
      /\ (irq \cap ien # {} => queued) => (irq' \cap ien' # {} => queued')
  BY Interrupt
<1>1. TypeOK'
  BY <1>q DEF PinOK
<1>2. TurnsOK'
  BY <1>q DEF TurnsOK
<1>3. PinOK'
  BY <1>q DEF PinOK, FlagsOK, ProgressOK, TurnsOK
<1>4. FlagsOK'
  BY <1>q DEF FlagsOK
<1>5. MaskOK'
  BY <1>q DEF MaskOK
<1>6. ProgressOK'
  BY <1>q DEF ProgressOK, FlagsOK
<1>7. DataOK'
  BY <1>q DEF TurnsOK, FlagsOK, DataOK, PinOK
<1> QED  BY <1>1, <1>2, <1>3, <1>4, <1>5, <1>6, <1>7

\* An error is flagged and the chip goes on listening.
LEMMA NoiseStep ==
  ASSUME IInv, Noise
  PROVE  IInv'
<1> USE FifoAssumption, AnswerAssumption, IdsAssumption, BuildsAssumption
<1> USE DEF IInv, TypeOK, Flags, Kinds, Ids, Up, Seen, Running, Noise, Flag, reqVars,
            cardVars, timeVars
<1>q. /\ queued' \in BOOLEAN
      /\ queued => queued'
      /\ queued' => queued \/ (irq' # {} /\ ien' # {})
      /\ (irq \cap ien # {} => queued) => (irq' \cap ien' # {} => queued')
  BY Interrupt
<1>1. TypeOK'
  BY <1>q
<1>2. TurnsOK'
  BY <1>q DEF TurnsOK
<1>3. PinOK'
  BY <1>q DEF PinOK, FlagsOK, ProgressOK, TurnsOK
<1>4. FlagsOK'
  BY <1>q DEF FlagsOK
<1>5. MaskOK'
  BY <1>q DEF MaskOK
<1>6. ProgressOK'
  BY <1>q DEF ProgressOK
<1>7. DataOK'
  BY <1>q DEF DataOK
<1> QED  BY <1>1, <1>2, <1>3, <1>4, <1>5, <1>6, <1>7

\* The authentication has ended and is flagged.
LEMMA AuthEndStep ==
  ASSUME IInv, AuthEnd
  PROVE  IInv'
<1> USE FifoAssumption, AnswerAssumption, IdsAssumption, BuildsAssumption
<1> USE DEF IInv, TypeOK, Flags, Kinds, Ids, Up, Seen, Running, AuthEnd, Flag, reqVars,
            timeVars
<1>q. /\ queued' \in BOOLEAN
      /\ queued => queued'
      /\ queued' => queued \/ (irq' # {} /\ ien' # {})
      /\ (irq \cap ien # {} => queued) => (irq' \cap ien' # {} => queued')
  BY Interrupt
<1>1. TypeOK'
  BY <1>q
<1>2. TurnsOK'
  BY <1>q DEF TurnsOK
<1>3. PinOK'
  BY <1>q DEF PinOK, FlagsOK, ProgressOK, TurnsOK
<1>4. FlagsOK'
  BY <1>q DEF FlagsOK
<1>5. MaskOK'
  BY <1>q DEF MaskOK
<1>6. ProgressOK'
  BY <1>q DEF ProgressOK, FlagsOK
<1>7. DataOK'
  BY <1>q DEF DataOK, FlagsOK
<1> QED  BY <1>1, <1>2, <1>3, <1>4, <1>5, <1>6, <1>7

\* The timer has stopped and is flagged.
LEMMA TimerExpiresStep ==
  ASSUME IInv, TimerExpires
  PROVE  IInv'
<1> USE FifoAssumption, AnswerAssumption, IdsAssumption, BuildsAssumption
<1> USE DEF IInv, TypeOK, Flags, Kinds, Ids, Up, Seen, Running, TimerExpires, Flag,
            reqVars, cardVars
<1>q. /\ queued' \in BOOLEAN
      /\ queued => queued'
      /\ queued' => queued \/ (irq' # {} /\ ien' # {})
      /\ (irq \cap ien # {} => queued) => (irq' \cap ien' # {} => queued')
  BY Interrupt
<1>1. TypeOK'
  <2>1. irq' \subseteq Flags /\ ien' \subseteq Flags
    OBVIOUS
  <2>2. timer' \in BOOLEAN /\ UNCHANGED <<preempt, rpc, req, startNow, mask, completion, reply, wpc,
                                           comm, rf, fifo, sent, tauto>>
    OBVIOUS
  <2> QED  BY <1>q, <2>1, <2>2
<1>2. TurnsOK'
  BY <1>q DEF TurnsOK
<1>3. PinOK'
  BY <1>q DEF PinOK, FlagsOK, ProgressOK, TurnsOK
<1>4. FlagsOK'
  BY <1>q DEF FlagsOK
<1>5. MaskOK'
  BY <1>q DEF MaskOK
<1>6. ProgressOK'
  BY <1>q DEF ProgressOK
<1>7. DataOK'
  BY <1>q DEF TurnsOK, FlagsOK, DataOK, PinOK
<1> QED  BY <1>1, <1>2, <1>3, <1>4, <1>5, <1>6, <1>7

-----------------------------------------------------------------------------
(* The invariant holds in the initial states, and every step keeps it.     *)

\* Nothing has been asked of the chip.
LEMMA InitInv == Init => IInv
<1> SUFFICES ASSUME Init PROVE IInv
  OBVIOUS
<1> USE IdsAssumption, FifoAssumption, AnswerAssumption
<1>0. <<>> \in Seq(Ids \X Nat) /\ Len(<<>>) = 0
  BY EmptySeq
<1>1. TypeOK
  <2>1. 0 \in Ids /\ 0 <= FifoSize /\ 0 <= MaxAnswer
    BY DEF Ids
  <2>2. req \in [id : Ids, kind : Kinds, error : {"none", "notag", "err"}, tx_done : BOOLEAN,
                buf : Seq(Ids \X Nat)] /\ Len(req.buf) = 0
    BY <1>0, <2>1 DEF Init, Kinds
  <2>3. reply \in [ok : BOOLEAN, data : Seq(Ids \X Nat)]
    BY <1>0 DEF Init
  <2> QED  BY <1>0, <2>1, <2>2, <2>3 DEF Init, TypeOK
<1>2. TurnsOK /\ PinOK /\ MaskOK
  BY DEF Init, TurnsOK, PinOK, MaskOK
<1>3. FlagsOK /\ ProgressOK /\ DataOK
  BY DEF Init, FlagsOK, ProgressOK, DataOK, Running
<1> QED  BY <1>1, <1>2, <1>3 DEF IInv

\* By cases over the actions of the requester, the work item and the chip.
LEMMA NextInv == IInv /\ [Next]_vars => IInv'
<1> SUFFICES ASSUME IInv, [Next]_vars PROVE IInv'
  OBVIOUS
<1>1. CASE Requester
  BY <1>1, picc_wait_for_reqStep, SetUpStep, StartSendStep, EnableIrqStep, ReturnStep
     DEF Requester
<1>2. CASE Work
  BY <1>2, WorkStartStep, ReadIrqStep, AckIrqStep, HandleTimerStep, HandleErrTxStep,
     HandleReceiveStep, pn512_process_doneStep, WorkEndStep DEF Work
<1>3. CASE Chip
  BY <1>3, TxEndStep, RxByteStep, RxEndStep, NoiseStep, AuthEndStep, TimerExpiresStep DEF Chip
<1>4. CASE UNCHANGED vars
  <2> USE <1>4 DEF IInv, vars, reqVars, workVars, cardVars, timeVars
  <2>1. TypeOK' /\ TurnsOK' /\ MaskOK'
    BY DEF TypeOK, TurnsOK, MaskOK
  <2>2. PinOK'
    BY DEF PinOK
  <2>3. FlagsOK' /\ ProgressOK'
    BY DEF FlagsOK, ProgressOK, Running, Up, Seen
  <2>4. DataOK'
    BY DEF DataOK, Up, Seen
  <2> QED  BY <2>1, <2>2, <2>3, <2>4
<1> QED  BY <1>1, <1>2, <1>3, <1>4 DEF Next

(* The engine keeps its invariant, whatever the chip, the card, the timer  *)
(* and the scheduler do.                                                   *)
THEOREM Invariance == Spec => []IInv
<1> QED  BY InitInv, NextInv, PTL DEF Spec

(* Every variable has its type, and no answer outgrows its buffer.         *)
THEOREM TypeCorrect == Spec => []TypeOK
<1>1. IInv => TypeOK
  BY DEF IInv
<1> QED  BY <1>1, Invariance, PTL

(* A completion is for the request that waits, and there is only one.      *)
THEOREM CompletesOnce == Spec => []OneCompletion
<1>1. IInv => OneCompletion
  BY DEF IInv, TurnsOK, OneCompletion
<1> QED  BY <1>1, Invariance, PTL

(* A sleeping requester is always going to be woken: no edge of the        *)
(* interrupt pin is lost between the work item and the chip.               *)
THEOREM WakesUp == Spec => []NoLostWakeup
<1>1. IInv => NoLostWakeup
  <2> SUFFICES ASSUME IInv, rpc = "waiting", completion = 0, wpc = "idle", ~queued
               PROVE  /\ mask \subseteq ien /\ irq \cap ien = {}
                      /\ timer \/ rf \in {"sending", "receiving"}
    BY DEF NoLostWakeup
  <2>1. mask \subseteq ien /\ irq \cap ien = {}
    BY DEF IInv, PinOK
  <2>2. irq \cap mask = {} /\ \A f \in Flags : Up(f) => f \notin mask
    BY <2>1 DEF Up, Seen
  <2>3. ~Up("Timer") /\ ~(req.kind = "transceive" /\ Up("Rx"))
          /\ ~(req.kind = "transmit" /\ Up("Tx")) /\ ~(req.kind = "auth" /\ Up("Idle"))
    BY <2>2 DEF IInv, MaskOK, Flags
  <2>4. CASE rf = "none"
    BY <2>3, <2>4 DEF IInv, TypeOK, Kinds, ProgressOK, Running
  <2>5. CASE rf = "listening"
    BY <2>1, <2>3, <2>5 DEF IInv, ProgressOK, Running
  <2>6. CASE rf = "authenticating"
    BY <2>1, <2>3, <2>6 DEF IInv, FlagsOK, ProgressOK, Running
  <2> QED  BY <2>1, <2>4, <2>5, <2>6 DEF IInv, TypeOK
<1> QED  BY <1>1, Invariance, PTL

(* Without CONFIG_PREEMPT the interrupts of the chip are off between       *)
(* requests.                                                               *)
THEOREM IrqOff == Spec => []IrqOffUnlessPreempted
<1>1. IInv => IrqOffUnlessPreempted
  BY DEF IInv, PinOK, IrqOffUnlessPreempted, IrqOffBetweenRequests
<1> QED  BY <1>1, Invariance, PTL

(* A transceive request without an error has the card's whole answer.      *)
THEOREM WholeAnswer == Spec => []AnswerComplete
<1>1. IInv => AnswerComplete
  BY DEF IInv, DataOK, AnswerComplete, Answer
<1> QED  BY <1>1, Invariance, PTL

-----------------------------------------------------------------------------
(* The engine implements RequestReply: a new request is asked, the return  *)
(* of pn512_process_request replies to it, all else is hidden.             *)

\* A step that leaves the request, the reply and the requester's place alone
\* is not seen by the caller.
LEMMA Hidden ==
  ASSUME req'.id = req.id, req'.kind = req.kind, reply' = reply,
         (rpc' # "idle") = (rpc # "idle")
  PROVE  UNCHANGED RR!vars
BY DEF RR!vars, Asked

(* Every request gets one reply, and a reply without error is a prefix of  *)
(* what the card has answered to that request.                             *)
THEOREM Implements == Spec => ImplementsRequestReply
<1>1. Init => RR!Init
  BY DEF Init, RR!Init, Asked
<1>2. IInv /\ [Next]_vars => [RR!Next]_(RR!vars)
  <2> SUFFICES ASSUME IInv, [Next]_vars PROVE [RR!Next]_(RR!vars)
    OBVIOUS
  <2>1. CASE picc_wait_for_req
    <3>1. PICK k \in Kinds :
            req' = [id |-> (req.id + 1) % NumIds, kind |-> k, error |-> "none",
                    tx_done |-> FALSE, buf |-> <<>>]
      BY <2>1 DEF picc_wait_for_req
    <3>2. (req.id + 1) % NumIds \in Ids
      BY IdsAssumption DEF IInv, TypeOK, Ids
    <3>3. Asked' \in [id : Ids, kind : Kinds]
      BY <3>1, <3>2 DEF Asked
    <3>4. RR!Ask(Asked')
      BY <2>1 DEF picc_wait_for_req, RR!Ask
    <3> QED  BY <3>3, <3>4 DEF RR!Next
  <2>2. CASE Return
    <3>1. reply' = [ok |-> req.error = "none", data |-> req.buf] /\ req' = req
      BY <2>2 DEF Return
    <3>2. ASSUME reply'.ok PROVE reply'.data \in Answers(Asked)
      <4>1. req.error = "none"
        BY <3>1, <3>2
      <4>2. rpc = "waiting" /\ completion > 0
        BY <2>2 DEF Return
      <4>3. req.buf = Answer(req.id, sent)
        BY <4>1, <4>2 DEF IInv, DataOK
      <4>4. sent \in 0..MaxAnswer
        BY <4>2 DEF IInv, TypeOK, DataOK
      <4> QED  BY <3>1, <4>3, <4>4 DEF Answers, Answer, Asked
    <3>3. RR!Reply(reply')
      BY <2>2, <3>1, <3>2 DEF Return, RR!Reply, Asked
    <3> QED  BY <3>3 DEF RR!Next
  <2>3. CASE SetUp \/ StartSend \/ EnableIrq
    BY <2>3, Hidden DEF SetUp, StartSend, EnableIrq
  <2>4. CASE Work
    <3> USE DEF reqVars
    <3>1. CASE WorkStart \/ ReadIrq \/ AckIrq \/ pn512_process_done \/ WorkEnd
      BY <3>1, Hidden DEF WorkStart, ReadIrq, AckIrq, pn512_process_done, WorkEnd
    <3>2. CASE HandleTimer
      BY <3>2, Hidden DEF HandleTimer, IInv, TypeOK
    <3>3. CASE HandleErrTx
      BY <3>3, Hidden DEF HandleErrTx, IInv, TypeOK
    <3>4. CASE HandleReceive
      BY <3>4, Hidden DEF HandleReceive, IInv, TypeOK
    <3> QED  BY <2>4, <3>1, <3>2, <3>3, <3>4 DEF Work
  <2>5. CASE Chip
    BY <2>5, Hidden DEF Chip, TxEnd, RxByte, RxEnd, Noise, AuthEnd, TimerExpires, reqVars
  <2>6. CASE UNCHANGED vars
    BY <2>6, Hidden DEF vars, reqVars
  <2> QED  BY <2>1, <2>2, <2>3, <2>4, <2>5, <2>6 DEF Next, Requester
<1> QED  BY <1>1, <1>2, Invariance, PTL DEF Spec, ImplementsRequestReply, RR!Spec
=============================================================================
