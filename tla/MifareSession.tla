--------------------------- MODULE MifareSession ---------------------------
(***************************************************************************)
(* The MIFARE commands of mod/src/mifare.c on top of the card session: the *)
(* keys the driver holds, the authentication it repeats on its own after   *)
(* each poll, the loops over blocks and the value operations.              *)
(*                                                                         *)
(* A command is a step for each block it reads or writes and one for its   *)
(* reply; polls, power on and power off wait for it, the card and the      *)
(* gadget do not.  Blocks and lengths are those of the code, in bytes; a   *)
(* block number stands for a block and a key type, since the code always   *)
(* sets the two together.  MIFARE cards and the crypto unit of the chip    *)
(* are external.                                                           *)
(***************************************************************************)
EXTENDS PiccSession, Integers

CONSTANTS
  Chips,       \* the kinds of MIFARE card that are ever brought
  Keys,        \* the keys a host may load ...
  Numbers,     \* ... and the numbers under which it loads and uses them
  FactoryKey,  \* the key that picc_param_init sets
  CardKey,     \* the key of all sectors of all cards
  Blocks,      \* the blocks that hosts name
  Lengths      \* the lengths they name

ASSUME MifareAssumption == "MIFARE" \in Kinds
\* The cards of 1 and of 4 Kbytes, one whose SAK the code has no branch for (an
\* SLE66R35, 0x88), and the Ultralight.
ASSUME ChipsAssumption == Chips \subseteq {"S50", "S70", "SLE", "UL"} /\ Chips # {}
ASSUME KeysAssumption == FactoryKey \in Keys /\ CardKey \in Keys /\ Numbers \subseteq {0, 1}
ASSUME BlocksAssumption == Blocks \subseteq 0 .. 255 /\ Lengths \subseteq 0 .. 255

VARIABLES
  mifare_key,   \* the keys the host has loaded, by number
  key_valid,    \* the numbers whose last authentication succeeded
  work_key,     \* the key of the last authentication that succeeded
  key_No,       \* the number and ...
  block,        \* ... the block of the last authentication
  authen_need,  \* the card has been selected since it was authenticated
  SAK,          \* the kind of the card, as the last selection told it; 0 is "UL"
  crypto,       \* MFCrypto1On: the chip encrypts
  chip,         \* the kind of the card at the reader, or "none"
  open,         \* the sector that card gives access to
  cmd,          \* the command under way
  granted       \* the sector a host has opened, while all has gone well since

keyVars    == <<mifare_key, key_valid, work_key, key_No, block>>
mifareVars == <<vars, keyVars, authen_need, SAK, crypto, chip, open, cmd, granted>>

None == -1
Idle == [op |-> "none"]

\* The parts of a sector, in the larger cards and in the large sectors.
SectorOf(b) == IF b >= 128 THEN 128 + (b \div 16) ELSE b \div 4
Trailer(b)  == IF b >= 128 THEN b % 16 = 15 ELSE b % 4 = 3

----------------------------------------------------------------------------
(* The cards and the air.                                                  *)

Memory(k) == CASE k = "S70" -> 0 .. 255 [] k = "UL" -> 0 .. 15 [] OTHER -> 0 .. 63

\* A link of the card session with what a MIFARE card adds to it: the frame
\* the card waits for and the blocks it has written.  History: what was no
\* acknowledgement has been taken for one.
Link == [antenna |-> antenna, mode |-> mode, same |-> same, states |-> states, type |-> type,
         r |-> "ok", lost |-> 0, sak |-> SAK,
         open |-> open, crypto |-> crypto, pend |-> "none", wrote |-> {}, misread |-> FALSE]

\* What a frame must follow, and what the card waits for after it.
Follows == [READ |-> "none", WRITE |-> "none", WRITE4 |-> "none", COUNT |-> "none",
            DATA |-> "data", VALUE |-> "value", TRANSFER |-> "buffer"]
Leads   == [READ |-> "none", WRITE |-> "data", WRITE4 |-> "none", COUNT |-> "value",
            DATA |-> "none", VALUE |-> "buffer", TRANSFER |-> "none"]

Obeys(f, b, w) ==
  /\ w.mode = "active" /\ b \in Memory(chip) /\ w.pend = Follows[f]
  /\ IF chip = "UL" THEN f # "COUNT" /\ ~w.crypto
     ELSE f # "WRITE4" /\ w.crypto /\ w.open = SectorOf(b)

Halted(w) == IF w.mode = "active"
             THEN [w EXCEPT !.mode = "halt", !.open = None, !.pend = "none", !.r = "nak"]
             ELSE [w EXCEPT !.r = "notag"]

\* The operand of a value operation is the one frame that is not answered.
Heard(f, b, w) ==
  IF Obeys(f, b, w)
  THEN [w EXCEPT !.pend = Leads[f], !.r = IF f = "VALUE" THEN "notag" ELSE "ok",
                 !.wrote = IF f \in {"DATA", "WRITE4", "TRANSFER"} THEN @ \cup {b} ELSE @]
  ELSE Halted(w)

Unlocked(b, k, w) ==
  IF /\ w.mode = "active" /\ chip # "UL" /\ b \in Memory(chip) /\ k = CardKey
     /\ w.crypto <=> w.open # None
  THEN [w EXCEPT !.open = SectorOf(b), !.r = "ok"]
  ELSE Halted(w)

Air(w, heard) ==
  {heard} \cup
  IF w.lost >= noise THEN {}
  ELSE {[w EXCEPT !.r = "notag", !.lost = @ + 1]}
         \cup {[heard EXCEPT !.r = e, !.lost = @ + 1] : e \in {"notag", "bad"}}

\* The crypto unit of the chip is switched on by an authentication that
\* succeeds, and off by the driver; one that fails may leave it on.
Ciphered(x, w) == {[x EXCEPT !.crypto = c] : c \in IF x.r = "ok" THEN {TRUE} ELSE {FALSE, w.crypto}}

----------------------------------------------------------------------------
(* mifare.c: frames.                                                       *)

\* Mutant: that the card fell silent is not taken for a refusal.
AuthenBySilence(b, k, w) ==
  Then(Air(w, Unlocked(b, k, w)),
       LAMBDA x : {[y EXCEPT !.r = IF x.r # "bad" THEN "ok" ELSE "mute"] : y \in Ciphered(x, w)})

\* A timeout is no error if the crypto unit is on.
mifare_authen_analyze(b, k, w) ==
  Then(Air(w, Unlocked(b, k, w)),
       LAMBDA x : {[y EXCEPT !.r = IF x.r \in {"ok", "nak", "notag"} /\ y.crypto THEN "ok" ELSE "mute"]
                    : y \in Ciphered(x, w)})

\* Selection talks plainly, and a card that has heard it is closed.
Closed(x, o) == {[x EXCEPT !.crypto = FALSE, !.open = u]
                  : u \in IF Failed(x) /\ x.mode = "active" THEN {None, o} ELSE {None}}

\* mifare_select: SAK is set to 0 in front of the answer that tells it.
Reselect(w) ==
  Then(Twice(typeA_request, w),
       LAMBDA x :
         IF Silent(x) THEN Closed(x, w.open)
         ELSE Then({Noted(y, "SELECTED") : y \in Send("SELECT_SN", x)},
                   LAMBDA z : Closed([z EXCEPT !.sak = IF Failed(z) THEN "UL" ELSE chip], w.open)))

mifare_block_read(b, w) == Air(w, Heard("READ", b, w))

\* Only that there was an answer and its four bits count, not whether it was
\* received well: damaged, it may pass for an acknowledgement or not.
Acknowledged(f, b, w) ==
  LET heard == Heard(f, b, w)
  IN Then(Air(w, heard),
          LAMBDA x : IF x.r # "bad" THEN {x}
                     ELSE {x, [x EXCEPT !.r = "ok", !.misread = @ \/ heard.r # "ok"]})

\* Mutant: the first acknowledgement is enough.
WriteHalf(b, w) == Acknowledged(IF SAK = "UL" THEN "WRITE4" ELSE "WRITE", b, w)

mifare_block_write(b, w) ==
  IF SAK = "UL" THEN Acknowledged("WRITE4", b, w)
  ELSE Then(Acknowledged("WRITE", b, w),
            LAMBDA x : IF Failed(x) THEN {x} ELSE Acknowledged("DATA", b, x))

\* No answer to the operand means that it was accepted.
mifare_inc_dec(f, b, w) ==
  Then(Acknowledged(f, b, w),
       LAMBDA x : IF Failed(x) \/ f = "TRANSFER" THEN {x}
                  ELSE {[y EXCEPT !.r = IF Silent(y) THEN "ok" ELSE "mute"]
                         : y \in Air(x, Heard("VALUE", b, x))})

----------------------------------------------------------------------------
(* mifare.c: checks.                                                       *)

mifare_check_read_write_len(b, len) ==
  IF SAK \in {"S50", "S70"}
  THEN len % 16 = 0 /\ len <= (IF SAK = "S70" /\ b >= 128 THEN 240 ELSE 48)
  ELSE len \in 4 .. 16

\* Mutant: only the first block is looked at for being a trailer.
BlockCheckTrailerless(src, des, multi) ==
  LET Part(b) == IF block >= 128 THEN b \div 16 ELSE b \div 4
  IN Part(src) = Part(block) /\ Part(des) = Part(block)

mifare_block_check(src, des, multi) ==
  LET Part(b) == IF block >= 128 THEN b \div 16 ELSE b \div 4
  IN /\ multi => ~Trailer(src)
     /\ Part(src) = Part(block) /\ Part(des) = Part(block)

KeyUsable == key_No \in key_valid

\* Its result is what becomes of authen_need.
mifare_authen(w) ==
  IF KeyUsable THEN mifare_authen_analyze(block, work_key, w)
  ELSE {[w EXCEPT !.r = "mute"]}

\* What precedes the work of a command: the authentication is repeated, its
\* result is not asked for.
Prepared(w) == IF authen_need /\ SAK # "UL" THEN mifare_authen(w) ELSE {w}
NeedAfter(x) == authen_need /\ (SAK = "UL" \/ Failed(x))

\* What is left of a step.  A card that waits for more than it gets goes to
\* sleep at whatever comes next.
LeaveCard(x) ==
  LET cut == x.pend \in {"data", "value"}
  IN /\ Leave(IF cut THEN [x EXCEPT !.mode = "halt"] ELSE x)
     /\ open' = IF cut THEN None ELSE x.open
     /\ crypto' = x.crypto /\ SAK' = x.sak
     /\ UNCHANGED <<status, chip>>

----------------------------------------------------------------------------
(* mifare.c: mifare_pcsc_command.                                          *)

Ready == cmd = Idle /\ type = "MIFARE"

LoadKey(n, k) ==
  /\ Ready
  /\ mifare_key' = [mifare_key EXCEPT ![n] = k]
  /\ UNCHANGED <<vars, key_valid, work_key, key_No, block, authen_need, SAK, crypto, chip,
                 open, cmd, granted>>

SelectFirst ==
  IF states # "SELECTED" THEN Reselect(Link) ELSE {Link}

\* Mutant: the card is taken to be halted after a failure.
AuthenticateDropsState(b, n) ==
  /\ Ready
  /\ \E x \in SelectFirst : \E y \in mifare_authen_analyze(b, mifare_key[n], x) :
       /\ LeaveCard(IF Failed(y) THEN [y EXCEPT !.states = "IDLE"] ELSE y)
       /\ authen_need' = (authen_need \/ (states # "SELECTED" /\ ~Failed(x)))
       /\ IF Failed(y) THEN key_valid' = key_valid \ {n} /\ UNCHANGED work_key
          ELSE key_valid' = key_valid \cup {n} /\ work_key' = mifare_key[n]
  /\ key_No' = n /\ block' = b /\ granted' = None
  /\ UNCHANGED <<mifare_key, cmd>>

\* Both forms of the command.  The selection is repeated only after states
\* has been changed, and authen_need is left as it is by a success.
Authenticate(b, n) ==
  /\ Ready
  /\ \E x \in SelectFirst : \E y \in mifare_authen_analyze(b, mifare_key[n], x) :
       /\ LeaveCard(y)
       /\ authen_need' = (authen_need \/ (states # "SELECTED" /\ ~Failed(x)))
       /\ IF Failed(y) THEN key_valid' = key_valid \ {n} /\ UNCHANGED work_key
          ELSE key_valid' = key_valid \cup {n} /\ work_key' = mifare_key[n]
       /\ granted' = IF ~Failed(y) /\ y.open = SectorOf(b) /\ noise = 0 THEN y.open ELSE None
  /\ key_No' = n /\ block' = b
  /\ UNCHANGED <<mifare_key, cmd>>

\* A key type or number that does not exist is refused after the selection.
AuthenticateRefused ==
  /\ Ready
  /\ \E x \in SelectFirst :
       /\ LeaveCard(x)
       /\ authen_need' = (authen_need \/ (states # "SELECTED" /\ ~Failed(x)))
  /\ granted' = None
  /\ UNCHANGED <<keyVars, cmd>>

\* The length is not refused if it is 0, which the loop takes for 256.
Asked(b, len) ==
  b .. (b + ((IF len = 0 THEN 256 ELSE len) \div (IF SAK = "UL" THEN 4 ELSE 16)) - 1)

Begin(op, b, len) ==
  /\ Ready
  /\ mifare_check_read_write_len(b, len)
  /\ \E x \in Prepared(Link) :
       /\ LeaveCard(x)
       /\ authen_need' = NeedAfter(x)
  /\ cmd' = [op |-> op, at |-> b, left |-> len, len |-> len, asked |-> Asked(b, len),
             wrote |-> {}, misread |-> FALSE, r |-> "busy"]
  /\ UNCHANGED <<keyVars, granted>>

\* Mutant: the rest has more than eight bits.
AdvanceWide(x, step) ==
  cmd' = [cmd EXCEPT !.at = (@ + 1) % 256, !.left = @ - step, !.wrote = @ \cup x.wrote,
                     !.misread = @ \/ x.misread, !.r = IF cmd.left = step THEN "ok" ELSE "busy"]

\* The work is over when the eight-bit rest is zero.
Advance(x, step) ==
  LET rest == (cmd.left - step) % 256
  IN cmd' = [cmd EXCEPT !.at = (@ + 1) % 256, !.left = rest, !.wrote = @ \cup x.wrote,
                        !.misread = @ \/ x.misread, !.r = IF rest = 0 THEN "ok" ELSE "busy"]

\* multBlockMode
Multi    == cmd.len > 16
InSector == SAK = "UL" \/ mifare_block_check(cmd.at, cmd.at, Multi)

LeaveSector ==
  /\ cmd.op \in {"read", "write"} /\ cmd.r = "busy" /\ ~InSector
  /\ cmd' = [cmd EXCEPT !.r = "fail", !.left = 0]
  /\ UNCHANGED <<vars, keyVars, authen_need, SAK, crypto, chip, open, granted>>

\* From an Ultralight four pages come with one frame.
ReadBlock ==
  /\ cmd.op = "read" /\ cmd.r = "busy" /\ InSector
  /\ \E x \in mifare_block_read(cmd.at, Link) :
       /\ LeaveCard(x)
       /\ IF Failed(x) THEN cmd' = [cmd EXCEPT !.r = "fail", !.left = 0]
          ELSE Advance(x, IF SAK = "UL" THEN cmd.left ELSE 16)
  /\ UNCHANGED <<keyVars, authen_need, granted>>

WriteBlock ==
  /\ cmd.op = "write" /\ cmd.r = "busy" /\ InSector
  /\ \E x \in mifare_block_write(cmd.at, Link) :
       /\ LeaveCard(x)
       /\ IF Failed(x) THEN cmd' = [cmd EXCEPT !.r = "fail", !.left = 0, !.wrote = @ \cup x.wrote]
          ELSE Advance(x, IF SAK = "UL" THEN 4 ELSE 16)
  /\ UNCHANGED <<keyVars, authen_need, granted>>

\* Reading, storing, counting and restoring values: no loop, one block, which
\* is taken to hold a value where one is asked for.
Single(op, src, des, Work(_)) ==
  /\ Ready /\ SAK # "UL"
  /\ \E x \in Prepared(Link) :
       /\ authen_need' = NeedAfter(x)
       /\ \E y \in IF mifare_block_check(src, des, FALSE) THEN Work(x)
                   ELSE {[x EXCEPT !.r = "fail"]} :
            /\ LeaveCard(y)
            /\ cmd' = [op |-> op, at |-> src, left |-> 0, len |-> 16, asked |-> {des},
                       wrote |-> y.wrote, misread |-> y.misread, r |-> IF Failed(y) THEN "fail" ELSE "ok"]
  /\ UNCHANGED <<keyVars, granted>>

ThenTransfer(S, b) ==
  Then(S, LAMBDA y : IF Failed(y) THEN {y} ELSE mifare_inc_dec("TRANSFER", b, y))

ReadValue(b)    == Single("read", b, b, LAMBDA x : mifare_block_read(b, x))
StoreValue(b)   == Single("write", b, b, LAMBDA x : mifare_block_write(b, x))
CountValue(b)   == Single("write", b, b, LAMBDA x : ThenTransfer(mifare_inc_dec("COUNT", b, x), b))
RestoreValue(src, des) ==
  Single("write", src, des, LAMBDA x : ThenTransfer(mifare_inc_dec("COUNT", src, x), des))

Reply ==
  /\ cmd.op # "none" /\ cmd.r \in {"ok", "fail"}
  /\ cmd' = Idle
  /\ granted' = IF cmd.r = "ok" THEN granted ELSE None
  /\ UNCHANGED <<vars, keyVars, authen_need, SAK, crypto, chip, open>>

----------------------------------------------------------------------------
(* The operations of the card session, with what they do to the keys.      *)

Polled(need) ==
  /\ cmd = Idle
  /\ UNCHANGED <<mifare_key, work_key, key_No, block, chip, cmd, granted>>
  /\ Poll
  /\ authen_need' = (authen_need \/ (need /\ "PRESENT" \in status'))
  /\ key_valid' = IF ~Present /\ type' = "ABSENT" THEN {} ELSE key_valid
  /\ crypto' = (crypto /\ Present /\ type # "MIFARE")
  /\ open' = None
  /\ SAK' = IF same' THEN chip ELSE SAK

\* Mutant: the selection of the poll is not noticed.
PollKeepsNeed == Polled(FALSE)

\* Mutant: a card that is taken to be authenticated is left alone.
PollSpares == (authen_need \/ type # "MIFARE") /\ Polled(Present)

\* The check of a present card selects it, the search for one does not.  SAK
\* is looked at only of a MIFARE card.
PollMifare == Polled(Present /\ type = "MIFARE")

PowerOn ==
  /\ cmd = Idle /\ picc_power_on
  /\ IF states = "POWEROFF"
     THEN /\ key_valid' = IF type = "MIFARE" THEN {} ELSE key_valid
          /\ crypto' = (crypto /\ type # "MIFARE")
          /\ open' = None /\ granted' = None
          /\ SAK' = IF same' THEN chip ELSE SAK
     ELSE UNCHANGED <<key_valid, crypto, open, granted, SAK>>
  /\ UNCHANGED <<mifare_key, work_key, key_No, block, authen_need, chip, cmd>>

\* A MIFARE card is shown as inserted, so that it is not halted here.
PowerOff ==
  /\ cmd = Idle /\ picc_power_off
  /\ UNCHANGED <<keyVars, authen_need, SAK, crypto, chip, open, cmd, granted>>

\* The gadget does not wait for the command under way.
ResetParameters ==
  /\ picc_param_init
  /\ key_valid' = {} /\ mifare_key' = [n \in {0, 1} |-> FactoryKey]
  /\ granted' = None
  /\ UNCHANGED <<work_key, key_No, block, authen_need, SAK, crypto, chip, open, cmd>>

BringChip(c) ==
  /\ Bring("MIFARE")
  /\ chip' = c /\ open' = None
  /\ UNCHANGED <<keyVars, authen_need, SAK, crypto, cmd, granted>>

TakeChip ==
  /\ Take
  /\ chip' = "none" /\ open' = None /\ granted' = None
  /\ UNCHANGED <<keyVars, authen_need, SAK, crypto, cmd>>

DisturbChip(n) ==
  /\ Disturb(n)
  /\ granted' = IF n = 0 THEN granted ELSE None
  /\ UNCHANGED <<keyVars, authen_need, SAK, crypto, chip, open, cmd>>

----------------------------------------------------------------------------

MifareInit ==
  /\ Init
  /\ mifare_key = [n \in {0, 1} |-> FactoryKey] /\ key_valid = {}
  /\ work_key = FactoryKey /\ key_No = 0 /\ block = 0
  /\ authen_need = FALSE /\ SAK = "none" /\ crypto = FALSE
  /\ chip = "none" /\ open = None /\ cmd = Idle /\ granted = None

MifareNext ==
  \/ \E n \in Numbers, k \in Keys : LoadKey(n, k)
  \/ \E b \in Blocks, n \in Numbers : Authenticate(b, n)
  \/ AuthenticateRefused
  \/ \E b \in Blocks, len \in Lengths, op \in {"read", "write"} : Begin(op, b, len)
  \/ LeaveSector \/ ReadBlock \/ WriteBlock
  \/ \E b \in Blocks : ReadValue(b) \/ StoreValue(b) \/ CountValue(b)
  \/ \E b, c \in Blocks : RestoreValue(b, c)
  \/ Reply
  \/ PollMifare \/ PowerOn \/ PowerOff \/ ResetParameters
  \/ \E c \in Chips : BringChip(c)
  \/ TakeChip
  \/ \E n \in 0 .. MaxNoise : DisturbChip(n)

MifareSpec == MifareInit /\ [][MifareNext]_mifareVars

\* A command goes on as long as its requests return, and the poll gets the
\* semaphore if no command keeps it from then on (see PiccSession).
MifareFairSpec ==
  /\ MifareSpec
  /\ WF_mifareVars(LeaveSector \/ ReadBlock \/ WriteBlock \/ Reply)
  /\ WF_mifareVars(PollMifare)

----------------------------------------------------------------------------
(* Properties.                                                             *)

\* Every variable has the values its type in the code allows, for any card.
MifareTypeOK ==
  /\ TypeOK
  /\ mifare_key \in [{0, 1} -> Keys] /\ key_valid \subseteq {0, 1}
  /\ work_key \in Keys /\ key_No \in {0, 1} /\ block \in 0 .. 255
  /\ authen_need \in BOOLEAN /\ crypto \in BOOLEAN
  /\ SAK \in Chips \cup {"none", "UL"} /\ chip \in Chips \cup {"none"}
  /\ open \in 0 .. 255 \cup {None} /\ granted \in 0 .. 255 \cup {None}
  /\ cmd = Idle \/ (cmd.at \in 0 .. 255 /\ cmd.left \in 0 .. 255)

\* The polls that reset the card between two commands do not show: once a
\* host has opened a sector of a card that is then left in peace, none of its
\* commands about blocks of that sector fails, for any number of polls and
\* commands, until one has failed for another reason.  Only the last block of
\* a sector is refused to commands that go through several.
SessionSurvivesPolls ==
  /\ cmd # Idle /\ cmd.r = "fail"
  /\ granted # None /\ \A b \in cmd.asked \cup {cmd.at} : SectorOf(b) = granted
  => Multi /\ Trailer(cmd.at)

\* A success means that the card has written the blocks that were asked for,
\* and no other, also if frames got lost, and also to a card that has taken the
\* place of another while the command was under way; unless a damaged answer,
\* or noise, was taken for an acknowledgement that was none (mifare.c:297).
OkMeansWritten ==
  cmd # Idle /\ cmd.r = "ok" /\ ~cmd.misread
    => cmd.wrote = IF cmd.op = "read" THEN {} ELSE cmd.asked

\* mifare.c:187 wants the last block of a sector, its keys, kept out of the
\* commands that go through several blocks.  It is written only by a command
\* about that block alone, or by one whose length is under 16, 0 included:
\* the check takes it for one block, the loop does not end at it.
SparesTrailers ==
  cmd # Idle /\ SAK # "UL" =>
    \A b \in cmd.wrote : Trailer(b) => cmd.asked = {b} \/ cmd.len < 16

\* The key that is used to repeat an authentication is one that has opened
\* the block, though timeouts are taken for success; unless the crypto unit
\* was still on from an authentication before.
AuthenticationTrusted ==
  [][KeyUsable' /\ (~KeyUsable \/ <<block, key_No, work_key>>' # <<block, key_No, work_key>>)
       => open' = SectorOf(block') \/ (crypto /\ states = "SELECTED")]_mifareVars

\* Seen from the session these commands are ExchangeMifare, and nothing that
\* they do to the card or to states is missing there.
ImplementsSession == Init /\ [][UNCHANGED vars \/ ExchangeMifare \/ Next]_vars

\* Whatever has failed, a card that is left at the reader in quiet, where no
\* new command is begun, is again and again selected and in step with the
\* crypto unit, so that the right key opens it.  A failed authentication halts
\* the card without a trace in states, so that only the poll wakes it, and the
\* poll has to wait for the loop over the blocks, the length of which may be
\* no multiple of its steps.
Accessible == type = "MIFARE" /\ mode = "active" /\ (crypto <=> open # None)

AccessComesBack ==
  <>[](card # "none" /\ noise = 0) /\ <>[][cmd = Idle => cmd' = Idle]_mifareVars
    => []<>Accessible

============================================================================
