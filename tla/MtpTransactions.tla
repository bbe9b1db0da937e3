--------------------------- MODULE MtpTransactions --------------------------
(***************************************************************************)
(* What run() promises the host: requests are taken one at a time and each *)
(* gets one response, or none when its transaction is cancelled, before    *)
(* the next one is taken.  The service may end at any time; until then a   *)
(* request is not left without an outcome.                                 *)
(***************************************************************************)
EXTENDS Naturals, Sequences

VARIABLES
  state,    \* "idle", "waiting" for the outcome of a request, or "ended"
  answers   \* the number of responses each request got

tvars == <<state, answers>>

Init == state = "idle" /\ answers = <<>>

Request ==
  /\ state = "idle"
  /\ state' = "waiting"
  /\ answers' = Append(answers, 0)

Answer ==
  /\ state = "waiting"
  /\ state' = "idle"
  /\ answers' = [answers EXCEPT ![Len(answers)] = 1]

Cancel ==
  /\ state = "waiting"
  /\ state' = "idle"
  /\ UNCHANGED answers

End ==
  /\ state # "ended"
  /\ state' = "ended"
  /\ UNCHANGED answers

Next == Request \/ Answer \/ Cancel \/ End

\* A request does not wait for ever.
Served == state = "waiting" ~> state # "waiting"

Spec == Init /\ [][Next]_tvars /\ Served
=============================================================================
