---------------------------- MODULE AllOrNothing ----------------------------
(***************************************************************************)
(* What FileTransaction promises.  While the transaction is open the files *)
(* may hold anything, but the previous contents stay recoverable; the      *)
(* recoverable contents change in one step, when the caller is told "ok".  *)
(* A caller told "failed" finds the previous contents in place; only       *)
(* "rollback_failed" admits anything else, and even then they are saved.   *)
(***************************************************************************)
CONSTANTS Path, Entry

VARIABLES
  actual,   \* what the files hold
  saved,    \* what an operator can get back
  verdict   \* what the caller was told

absVars == <<actual, saved, verdict>>

Init ==
  /\ actual \in [Path -> Entry]
  /\ saved = actual
  /\ verdict = "none"

Work ==
  /\ verdict = "none"
  /\ actual' \in [Path -> Entry]
  /\ UNCHANGED <<saved, verdict>>

Succeed ==
  /\ verdict = "none"
  /\ verdict' = "ok"
  /\ saved' = actual
  /\ UNCHANGED actual

Fail ==
  /\ verdict = "none"
  /\ verdict' = "failed"
  /\ actual = saved
  /\ UNCHANGED <<actual, saved>>

FailToRestore ==
  /\ verdict = "none"
  /\ verdict' = "rollback_failed"
  /\ UNCHANGED <<actual, saved>>

Next == Work \/ Succeed \/ Fail \/ FailToRestore

Spec == Init /\ [][Next]_absVars
=============================================================================
