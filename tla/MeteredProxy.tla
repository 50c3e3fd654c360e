----------------------------- MODULE MeteredProxy ----------------------------
(***************************************************************************)
(* What the inference proxy promises about one chat request: a customer    *)
(* pays once at most, and only for a response that was read to its end and *)
(* passed on as it came, but for a last line of a stream without newline,  *)
(* which is paid for and signed and never sent (chatbot.go:161); a         *)
(* signature vouches only for such a response.  Module InferenceProxy      *)
(* implements it.                                                          *)
(***************************************************************************)
CONSTANT Requests

VARIABLES
  delivered,  \* what the customer was sent: nothing, a part of the response,
              \* the lines of it that end in a newline, or all of it
  billed,     \* requests whose fee was written
  signed      \* requests whose signature the broker answers with

vars == << delivered, billed, signed >>

Init ==
  /\ delivered = [r \in Requests |-> "no"]
  /\ billed = {}
  /\ signed = {}

Deliver(r) ==
  /\ delivered[r] = "no"
  /\ \E d \in {"part", "lines", "full"} : delivered' = [delivered EXCEPT ![r] = d]
  /\ UNCHANGED << billed, signed >>

Ended(r) == delivered[r] \in {"lines", "full"}

Bill(r) ==
  /\ Ended(r) /\ r \notin billed
  /\ billed' = billed \cup {r}
  /\ UNCHANGED << delivered, signed >>

Sign(r) ==
  /\ Ended(r)
  /\ signed' = signed \cup {r}
  /\ UNCHANGED << delivered, billed >>

SignatureExpires(r) ==
  /\ signed' = signed \ {r}
  /\ UNCHANGED << delivered, billed >>

Next == \E r \in Requests : Deliver(r) \/ Bill(r) \/ Sign(r) \/ SignatureExpires(r)

Spec == Init /\ [][Next]_vars
==============================================================================
