---------------------------- MODULE RequestReply ----------------------------
(***************************************************************************)
(* What pn512_process_request promises its callers: one request at a time, *)
(* for each of them exactly one reply, and a reply without an error is the *)
(* whole answer the card gave to that request.                             *)
(***************************************************************************)
CONSTANTS
  Requests,  \* what a request is
  NoRequest, \* nothing has been asked yet
  Answers(_) \* the complete answers to a request

VARIABLES
  asked,     \* the request being served, or served last
  pending,   \* it is being served
  reply      \* the reply: [ok: BOOLEAN, data: what was received]

vars == <<asked, pending, reply>>

Ask(r) ==
  /\ ~pending
  /\ asked' = r
  /\ pending' = TRUE
  /\ UNCHANGED reply

Reply(rep) ==
  /\ pending
  /\ rep.ok => rep.data \in Answers(asked)
  /\ reply' = rep
  /\ pending' = FALSE
  /\ UNCHANGED asked

Init == asked = NoRequest /\ pending = FALSE /\ reply = [ok |-> FALSE, data |-> <<>>]

Next == (\E r \in Requests : Ask(r)) \/ Reply(reply')

Spec == Init /\ [][Next]_vars
=============================================================================
