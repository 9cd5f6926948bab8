------------------------------- MODULE ForkJoin -------------------------------
(***************************************************************************)
(* What a group of concurrent fetches promises to the code that started    *)
(* them, whichever goroutines, requests and retries it is built from:      *)
(*                                                                         *)
(*   - every task settles once, as loaded or as failed, and never changes  *)
(*     its mind;                                                           *)
(*   - nothing is delivered before every task has settled;                 *)
(*   - the delivery is an error exactly when a task the group cannot do    *)
(*     without has failed, and then it is the error of such a task.        *)
(*                                                                         *)
(* RestSetup implements it with no fatal task, ScanLoad with three.        *)
(***************************************************************************)

CONSTANTS Tasks,   \* the fetches of the group
          Fatal    \* those whose failure is the group's failure, a subset of Tasks

VARIABLES result,  \* result[t]: "pending", "loaded" or "failed"
          verdict  \* "none" before the delivery, then "payload" or a fatal task

TypeOK ==
  /\ result \in [Tasks -> {"pending", "loaded", "failed"}]
  /\ verdict \in {"none", "payload"} \union Fatal

Init ==
  /\ result = [t \in Tasks |-> "pending"]
  /\ verdict = "none"

Settle(t) ==
  /\ verdict = "none"
  /\ result[t] = "pending"
  /\ \E r \in {"loaded", "failed"} : result' = [result EXCEPT ![t] = r]
  /\ UNCHANGED verdict

FatalFailures == {t \in Fatal : result[t] = "failed"}

Deliver ==
  /\ verdict = "none"
  /\ \A t \in Tasks : result[t] # "pending"
  /\ verdict' \in IF FatalFailures = {} THEN {"payload"} ELSE FatalFailures
  /\ UNCHANGED result

Next == (\E t \in Tasks : Settle(t)) \/ Deliver

Spec == Init /\ [][Next]_<<result, verdict>>
===============================================================================
