---------------------------- MODULE JobLifecycle ----------------------------
(***************************************************************************)
(* What a user of the cloud render API is promised about a job, with no    *)
(* stream, lease, outbox or worker in sight.  One transaction may move     *)
(* several jobs at once (a batch request, a watchdog pass), so a step lets *)
(* every job take one move of its own or stand still.                      *)
(***************************************************************************)
EXTENDS Naturals

CONSTANT Jobs

VARIABLES
  status,  \* the job as the user sees it
  tries,   \* attempts started so far
  result   \* the attempt whose artifact can be downloaded, 0 for none

Statuses == {"absent", "waiting", "active", "stopping", "succeeded", "failed", "cancelled"}

Init ==
  /\ status = [j \in Jobs |-> "absent"]
  /\ tries = [j \in Jobs |-> 0]
  /\ result = [j \in Jobs |-> 0]

Moves(j, from, to) == status[j] = from /\ status'[j] = to
SameTry(j) == tries'[j] = tries[j] /\ result'[j] = result[j]
NewTry(j) == tries'[j] = tries[j] + 1 /\ result'[j] = result[j]

Submit(j) == Moves(j, "absent", "waiting") /\ NewTry(j)
Start(j) == Moves(j, "waiting", "active") /\ SameTry(j)
Lose(j) == Moves(j, "active", "waiting") /\ NewTry(j)
Fail(j) == Moves(j, "active", "failed") /\ SameTry(j)
Retry(j) == Moves(j, "failed", "waiting") /\ NewTry(j)
Withdraw(j) == Moves(j, "waiting", "cancelled") /\ SameTry(j)
Stop(j) == Moves(j, "active", "stopping") /\ SameTry(j)
Stopped(j) == Moves(j, "stopping", "cancelled") /\ SameTry(j)
Succeed(j) == /\ Moves(j, "active", "succeeded")
              /\ tries'[j] = tries[j]
              /\ result'[j] = tries[j]
Same(j) == status'[j] = status[j] /\ SameTry(j)

JobStep(j) == \/ Submit(j) \/ Start(j) \/ Lose(j) \/ Fail(j) \/ Retry(j)
              \/ Withdraw(j) \/ Stop(j) \/ Stopped(j) \/ Succeed(j)

Next ==
  /\ status' \in [Jobs -> Statuses]
  /\ tries' \in [Jobs -> Nat]
  /\ result' \in [Jobs -> Nat]
  /\ \A j \in Jobs : JobStep(j) \/ Same(j)

Spec == Init /\ [][Next]_<<status, tries, result>>
=============================================================================
