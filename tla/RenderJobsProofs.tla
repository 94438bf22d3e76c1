-------------------------- MODULE RenderJobsProofs --------------------------
(***************************************************************************)
(* Theorems about RenderJobs for every set of jobs and processes, every    *)
(* assignment of ids and every bound.                                      *)
(***************************************************************************)
EXTENDS RenderJobs, TLAPS

\* One job_attempts row and one outbox row per attempt.
RowsPerAttempt ==
  \A j \in Jobs :
    /\ Len(ledger[j]) = attempt[j]
    /\ Len(outbox[j]) = attempt[j]
    /\ attempt[j] = 0 <=> state[j] = "absent"

\* What a dispatcher handles are rows that exist, and only while it publishes.
DispatchRows ==
  \A d \in Dispatchers :
    /\ sent[d] \subseteq todo[d]
    /\ loop[d] # "publish" => todo[d] = {}
    /\ \A e \in todo[d] : e[2] \in 1..Len(outbox[e[1]])

\* A worker executes an attempt that was started: it is not the attempt a
\* queued job waits to start, and past the upload its output is stored.
Claims ==
  \A w \in Workers : task[w].pc # "idle" =>
    /\ task[w].job \in Jobs
    /\ task[w].attempt \in 1..attempt[task[w].job]
    /\ task[w].attempt = attempt[task[w].job] => state[task[w].job] # "queued"
    /\ task[w].pc \in {"persisting", "committing"} =>
         <<task[w].job, task[w].attempt>> \in objects

\* The job_attempts row of the current attempt.
CurrentRow ==
  \A j \in Jobs :
    LET row == ledger[j][attempt[j]] IN
    /\ state[j] \in Leasable \cup {"queued", "succeeded"} => row.failure = "none"
    /\ state[j] \in Leasable \cup {"succeeded"} => row.worker # NoId
    /\ state[j] = "succeeded" => row.finished

Artifacts ==
  \A j \in Jobs :
    /\ artifact[j] # 0 <=> state[j] = "succeeded"
    /\ artifact[j] # 0 => artifact[j] = attempt[j] /\ <<j, artifact[j]>> \in objects

Inv == /\ Types
       /\ RowsPerAttempt
       /\ DispatchRows
       /\ Claims
       /\ OneExecutionPerAttempt
       /\ CurrentRow
       /\ Artifacts

-----------------------------------------------------------------------------
\* Replacing an element of a sequence keeps its length and its type.
LEMMA SeqReplace ==
  ASSUME NEW S, NEW s \in Seq(S), NEW k \in 1..Len(s), NEW r \in S
  PROVE  /\ [s EXCEPT ![k] = r] \in Seq(S)
         /\ Len([s EXCEPT ![k] = r]) = Len(s)
         /\ [s EXCEPT ![k] = r][k] = r
         /\ \A i \in 1..Len(s) : i # k => [s EXCEPT ![k] = r][i] = s[i]
  OBVIOUS

\* Appending adds one element and keeps the others.
LEMMA SeqAppend ==
  ASSUME NEW S, NEW s \in Seq(S), NEW r \in S
  PROVE  /\ Append(s, r) \in Seq(S)
         /\ Len(Append(s, r)) = Len(s) + 1
         /\ Append(s, r)[Len(s) + 1] = r
         /\ \A i \in 1..Len(s) : Append(s, r)[i] = s[i]
  OBVIOUS

\* A function on 1..n is a sequence of length n.
LEMMA SeqFunction ==
  ASSUME NEW S, NEW n \in Nat, NEW f \in [1..n -> S]
  PROVE  f \in Seq(S) /\ Len(f) = n
  OBVIOUS

\* New rows, and a worker without a claim, have their types.
LEMMA RowTypes == NewLedgerRow \in LedgerRow /\ NewOutboxRow \in OutboxRow /\ Idle \in Task
  BY DEF NewLedgerRow, NewOutboxRow, Idle, LedgerRow, OutboxRow, Task, Failures, Phases

\* The invariant holds initially.
LEMMA InitInv == Init => Inv
  BY IdsAssumption, BoundsAssumption DEF Init, Inv, Types, RowsPerAttempt, DispatchRows,
     Claims, OneExecutionPerAttempt, CurrentRow, Artifacts, Idle, Task, Phases, Executing,
     NoEntries, Leasable, States, Failures
-----------------------------------------------------------------------------
\* Moving to a phase keeps the claim of every worker.
LEMMA GotoTask ==
  ASSUME task \in [Workers -> Task], NEW w \in Workers, NEW pc \in Phases, Goto(w, pc)
  PROVE  /\ task' \in [Workers -> Task]
         /\ task'[w].pc = pc
         /\ \A v \in Workers : /\ task'[v].job = task[v].job
                               /\ task'[v].attempt = task[v].attempt
                               /\ v # w => task'[v].pc = task[v].pc
  BY DEF Goto, Task

\* A step of a worker that only moves it to another phase.
LEMMA GotoInv ==
  ASSUME Inv, NEW w \in Workers, NEW pc \in Phases \ {"idle"}, Goto(w, pc),
         task[w].pc # "idle",
         pc \in {"persisting", "committing"} => <<task[w].job, task[w].attempt>> \in objects,
         UNCHANGED <<dbVars, objects, streamVars, dispatchVars, faults>>
  PROVE  Inv'
<1> USE DEF Inv, dbVars, jobVars, streamVars, dispatchVars
<1>1. /\ task' \in [Workers -> Task]
      /\ task'[w].pc = pc
      /\ \A v \in Workers : /\ task'[v].job = task[v].job
                            /\ task'[v].attempt = task[v].attempt
                            /\ v # w => task'[v].pc = task[v].pc
  BY GotoTask DEF Types
<1>2. Types'
  BY <1>1 DEF Types
<1>3. RowsPerAttempt' /\ DispatchRows' /\ CurrentRow' /\ Artifacts'
  BY DEF RowsPerAttempt, DispatchRows, CurrentRow, Artifacts
<1>4. Claims'
  BY <1>1 DEF Claims
<1>5. OneExecutionPerAttempt'
  BY <1>1 DEF OneExecutionPerAttempt
<1>6. QED
  BY <1>2, <1>3, <1>4, <1>5

\* Reading whether the job is cancelling only moves the worker on.
LEMMA CheckCancellingInv ==
  ASSUME Inv, NEW w \in Workers, CheckCancelling(w)
  PROVE  Inv'
<1>1. PICK pc \in {"cancelJob", "rendering", "failing", "heartbeat", "putting"} :
        Goto(w, pc) /\ task[w].pc # "idle"
  BY DEF CheckCancelling, At
<1>2. QED
  BY <1>1, GotoInv DEF CheckCancelling, Phases, Executing

\* The end of a render only moves the worker on.
LEMMA RenderDoneInv ==
  ASSUME Inv, NEW w \in Workers, RenderDone(w)
  PROVE  Inv'
  BY GotoInv DEF RenderDone, At, Phases, Executing

\* An error only moves the worker to reporting it.
LEMMA StepErrorInv ==
  ASSUME Inv, NEW w \in Workers, StepError(w)
  PROVE  Inv'
  BY GotoInv DEF StepError, Phases, Executing

\* An upload adds the object of the attempt that made it.
LEMMA PutObjectInv ==
  ASSUME Inv, NEW w \in Workers, PutObject(w)
  PROVE  Inv'
<1> USE DEF Inv, dbVars, jobVars, streamVars, dispatchVars
<1>1. PICK pc \in {"persisting", "failing"} : Goto(w, pc)
  BY DEF PutObject
<1>2. /\ task' \in [Workers -> Task]
      /\ task'[w].pc = pc
      /\ \A v \in Workers : /\ task'[v].job = task[v].job
                            /\ task'[v].attempt = task[v].attempt
                            /\ v # w => task'[v].pc = task[v].pc
  BY <1>1, GotoTask DEF Types, Phases, Executing
<1>3. /\ task[w].pc # "idle" /\ task[w].job \in Jobs /\ task[w].attempt \in Nat
      /\ objects' = objects \cup {<<task[w].job, task[w].attempt>>}
  BY DEF PutObject, At, Claims, Types, Task
<1>4. Types'
  <2>1. objects' \subseteq Jobs \X Nat
    BY <1>3 DEF Types
  <2>2. QED
    BY <1>2, <2>1 DEF Types, PutObject
<1>5. RowsPerAttempt' /\ DispatchRows' /\ CurrentRow' /\ Artifacts'
  BY <1>3 DEF PutObject, RowsPerAttempt, DispatchRows, CurrentRow, Artifacts
<1>6. Claims'
  BY <1>2, <1>3 DEF PutObject, Claims
<1>7. OneExecutionPerAttempt'
  BY <1>2, <1>3 DEF OneExecutionPerAttempt
<1>8. QED
  BY <1>4, <1>5, <1>6, <1>7

\* A heartbeat or phase change.
LEMMA UpdateProgressInv ==
  ASSUME Inv, NEW w \in Workers, NEW next \in Executing, UpdateProgress(w, next),
         task[w].pc # "idle", next # "persisting",
         next = "committing" => task[w].pc = "persisting"
  PROVE  Inv'
<1> USE DEF Inv, dbVars, jobVars, streamVars, dispatchVars
<1>1. PICK pc \in {next, "failing"} : Goto(w, pc)
  BY DEF UpdateProgress
<1>2. /\ task' \in [Workers -> Task]
      /\ task'[w].pc = pc
      /\ \A v \in Workers : /\ task'[v].job = task[v].job
                            /\ task'[v].attempt = task[v].attempt
                            /\ v # w => task'[v].pc = task[v].pc
  BY <1>1, GotoTask DEF Types, Phases
<1>3. \A j \in Jobs : \/ state'[j] = state[j]
                      \/ /\ state[j] \in {"preparing", "running"}
                         /\ state'[j] = "running"
  <2>1. state \in [Jobs -> States] /\ task[w].job \in Jobs
    BY DEF Types, Claims
  <2>2. CASE state' = state
    BY <2>2
  <2>3. CASE /\ state[task[w].job] \in {"preparing", "running"}
             /\ state' = [state EXCEPT ![task[w].job] = "running"]
    BY <2>1, <2>3
  <2>4. QED
    BY <2>2, <2>3 DEF UpdateProgress
<1>4. Types'
  BY <1>2 DEF Types, UpdateProgress, States
<1>5. RowsPerAttempt' /\ DispatchRows'
  BY <1>3 DEF RowsPerAttempt, DispatchRows, UpdateProgress
<1>6. CurrentRow' /\ Artifacts'
  BY <1>3 DEF CurrentRow, Artifacts, UpdateProgress, Leasable
<1>7. Claims'
  BY <1>2, <1>3 DEF Claims, UpdateProgress
<1>8. OneExecutionPerAttempt'
  BY <1>2 DEF OneExecutionPerAttempt
<1>9. QED
  BY <1>4, <1>5, <1>6, <1>7, <1>8

\* The steps of a worker that report progress.
LEMMA ProgressStepsInv ==
  ASSUME Inv, NEW w \in Workers,
         \/ Prepare(w) \/ StartRender(w) \/ Heartbeat(w) \/ StartVerify(w) \/ StartPersist(w)
  PROVE  Inv'
  BY UpdateProgressInv
     DEF Prepare, StartRender, Heartbeat, StartVerify, StartPersist, At, Executing
\* Leaving a claim keeps the claims of the other workers.
LEMMA FinishTask ==
  ASSUME task \in [Workers -> Task], NEW w \in Workers, Finish(w)
  PROVE  /\ task' \in [Workers -> Task]
         /\ task'[w].pc = "idle"
         /\ \A v \in Workers : v # w => task'[v] = task[v]
  BY RowTypes DEF Finish, Idle

\* Replacing one row of job_attempts.
LEMMA LedgerReplace ==
  ASSUME ledger \in [Jobs -> Seq(LedgerRow)], NEW j \in Jobs,
         NEW k \in 1..Len(ledger[j]), NEW r \in LedgerRow,
         ledger' = [ledger EXCEPT ![j][k] = r]
  PROVE  /\ ledger' \in [Jobs -> Seq(LedgerRow)]
         /\ \A i \in Jobs : Len(ledger'[i]) = Len(ledger[i])
         /\ ledger'[j][k] = r
         /\ \A i \in Jobs : i # j => ledger'[i] = ledger[i]
         /\ \A i \in 1..Len(ledger[j]) : i # k => ledger'[j][i] = ledger[j][i]
<1>1. /\ [ledger[j] EXCEPT ![k] = r] \in Seq(LedgerRow)
      /\ Len([ledger[j] EXCEPT ![k] = r]) = Len(ledger[j])
      /\ [ledger[j] EXCEPT ![k] = r][k] = r
      /\ \A i \in 1..Len(ledger[j]) : i # k => [ledger[j] EXCEPT ![k] = r][i] = ledger[j][i]
  BY SeqReplace
<1>2. ledger'[j] = [ledger[j] EXCEPT ![k] = r] /\ \A i \in Jobs : i # j => ledger'[i] = ledger[i]
  OBVIOUS
<1>3. ledger' \in [Jobs -> Seq(LedgerRow)]
  BY <1>1
<1>4. QED
  BY <1>1, <1>2, <1>3

\* A worker closes the row of the attempt it executes.
LEMMA CloseAttemptRow ==
  ASSUME Inv, NEW w \in Workers, task[w].pc # "idle", NEW why \in Failures,
         CloseAttempt(w, why)
  PROVE  LET j == task[w].job
             a == task[w].attempt
         IN /\ ledger' \in [Jobs -> Seq(LedgerRow)]
            /\ \A i \in Jobs : Len(ledger'[i]) = Len(ledger[i])
            /\ ledger'[j][a] = Closed(ledger[j][a], why)
            /\ \A i \in Jobs : i # j => ledger'[i] = ledger[i]
            /\ \A i \in 1..Len(ledger[j]) : i # a => ledger'[j][i] = ledger[j][i]
<1> DEFINE j == task[w].job
           a == task[w].attempt
<1>1. j \in Jobs /\ a \in 1..Len(ledger[j]) /\ ledger[j] \in Seq(LedgerRow)
  BY DEF Inv, Types, Claims, RowsPerAttempt
<1>2. ledger[j][a] \in LedgerRow
  BY <1>1
<1>3. Closed(ledger[j][a], why) \in LedgerRow
  BY <1>2 DEF Closed, LedgerRow
<1>4. ledger' = [ledger EXCEPT ![j][a] = Closed(ledger[j][a], why)]
  BY DEF CloseAttempt, OwnRow
<1>5. QED
  BY SMTT(40), <1>1, <1>3, <1>4, LedgerReplace DEF Inv, Types

\* Success needs the current attempt and publishes the object it uploaded.
LEMMA CommitInv ==
  ASSUME Inv, NEW w \in Workers, Commit(w)
  PROVE  Inv'
<1> DEFINE j == task[w].job
           a == task[w].attempt
<1> USE DEF Inv, dbVars, jobVars, streamVars, dispatchVars
<1>1. /\ task[w].pc = "committing" /\ j \in Jobs /\ a \in 1..attempt[j]
      /\ <<j, a>> \in objects
  BY DEF Commit, At, Claims
<1>2. CASE Holds(w) /\ state[j] = "running" /\ leased[j]
  <2>1. /\ artifact' = [artifact EXCEPT ![j] = IF @ = 0 THEN a ELSE @]
        /\ state' = [state EXCEPT ![j] = "succeeded"]
        /\ owner' = [owner EXCEPT ![j] = NoId]
        /\ leased' = [leased EXCEPT ![j] = FALSE]
        /\ CloseAttempt(w, ledger[j][a].failure)
        /\ Finish(w) \/ Goto(w, "failing")
        /\ UNCHANGED <<attempt, failure, batchOf, outbox, objects, streamVars,
                       dispatchVars, faults>>
    BY <1>2 DEF Commit, Released, OwnRow
  <2>2. a = attempt[j] /\ a # 0 /\ Len(ledger[j]) = a /\ ledger[j][a] \in LedgerRow
    BY <1>1, <1>2 DEF Holds, Types, RowsPerAttempt
  <2>3. artifact[j] = 0
    BY <1>1, <1>2 DEF Artifacts
  <2>4. /\ ledger' \in [Jobs -> Seq(LedgerRow)]
        /\ \A i \in Jobs : Len(ledger'[i]) = Len(ledger[i])
        /\ ledger'[j][a] = Closed(ledger[j][a], ledger[j][a].failure)
        /\ \A i \in Jobs : i # j => ledger'[i] = ledger[i]
    <3>1. ledger[j][a].failure \in Failures
      BY <2>2 DEF LedgerRow
    <3>2. QED
      BY <1>1, <2>1, <3>1, CloseAttemptRow
  <2>5. /\ task' \in [Workers -> Task]
        /\ task'[w].pc \in {"idle", "failing"}
        /\ \A v \in Workers : v # w => task'[v] = task[v]
        /\ task'[w].pc = "failing" => task'[w].job = j /\ task'[w].attempt = a
    <3>1. CASE Finish(w)
      BY <3>1, FinishTask DEF Types
    <3>2. CASE Goto(w, "failing")
      BY <3>2, GotoTask DEF Types, Phases, Goto
    <3>3. QED
      BY <2>1, <3>1, <3>2
  <2>6. Types'
    BY <1>1, <2>1, <2>2, <2>4, <2>5 DEF Types, States
  <2>7. RowsPerAttempt'
    BY SMTT(40), <1>1, <1>2, <2>1, <2>4 DEF RowsPerAttempt, Types
  <2>8. DispatchRows'
    BY <2>1 DEF DispatchRows
  <2>9. CurrentRow'
    <3>1. ledger'[j][attempt'[j]] = Closed(ledger[j][a], ledger[j][a].failure)
      BY <2>1, <2>2, <2>4
    <3>2. ledger[j][a].failure = "none" /\ ledger[j][a].worker # NoId
      BY <1>1, <1>2, <2>2 DEF CurrentRow, Leasable
    <3>3. \A i \in Jobs : i # j =>
            state'[i] = state[i] /\ ledger'[i] = ledger[i] /\ attempt'[i] = attempt[i]
      BY <2>1, <2>4 DEF Types
    <3>4. QED
      BY <1>1, <3>1, <3>2, <3>3 DEF CurrentRow, Closed
  <2>10. Artifacts'
    BY <1>1, <2>1, <2>2, <2>3 DEF Artifacts, Types
  <2>11. Claims'
    BY ZenonT(40), <1>1, <2>1, <2>5 DEF Claims, Types
  <2>12. OneExecutionPerAttempt'
    BY <1>1, <2>5 DEF OneExecutionPerAttempt
  <2>13. QED
    BY <2>6, <2>7, <2>8, <2>9, <2>10, <2>11, <2>12
<1>3. CASE ~(Holds(w) /\ state[j] = "running" /\ leased[j])
  BY <1>1, <1>3, GotoInv DEF Commit, Phases
<1>4. QED
  BY <1>2, <1>3

\* A reported failure ends the current attempt or changes nothing.
LEMMA FailJobInv ==
  ASSUME Inv, NEW w \in Workers, FailJob(w)
  PROVE  Inv'
<1> DEFINE j == task[w].job
           a == task[w].attempt
<1> USE DEF Inv, dbVars, jobVars, streamVars, dispatchVars
<1>1. task[w].pc = "failing" /\ j \in Jobs /\ a \in 1..attempt[j]
  BY DEF FailJob, At, Claims
<1>2. /\ task' \in [Workers -> Task]
      /\ task'[w].pc = "idle"
      /\ \A v \in Workers : v # w => task'[v] = task[v]
  BY FinishTask DEF FailJob, Types
<1>3. CASE Holds(w) /\ state[j] \in Leasable
  <2>1. /\ \E s \in {"cancelled", "failed"} : state' = [state EXCEPT ![j] = s]
        /\ \E f \in {"none", "worker_failure"} : failure' = [failure EXCEPT ![j] = f]
        /\ owner' = [owner EXCEPT ![j] = NoId]
        /\ leased' = [leased EXCEPT ![j] = FALSE]
        /\ CloseAttempt(w, "worker_failure")
    BY <1>3 DEF FailJob, Released
  <2>2. /\ ledger' \in [Jobs -> Seq(LedgerRow)]
        /\ \A i \in Jobs : Len(ledger'[i]) = Len(ledger[i])
        /\ \A i \in Jobs : i # j => ledger'[i] = ledger[i]
    BY <1>1, <2>1, CloseAttemptRow DEF Failures
  <2>3. \A i \in Jobs : /\ i # j => state'[i] = state[i]
                        /\ i = j => state'[i] \in {"cancelled", "failed"}
    BY <2>1 DEF Types
  <2>4. Types'
    <3>1. /\ state' \in [Jobs -> States]
          /\ failure' \in [Jobs -> Failures]
          /\ owner' \in [Jobs -> Ids \cup {NoId}]
          /\ leased' \in [Jobs -> BOOLEAN]
      <4>1. PICK s \in {"cancelled", "failed"} : state' = [state EXCEPT ![j] = s]
        BY <2>1
      <4>2. PICK f \in {"none", "worker_failure"} : failure' = [failure EXCEPT ![j] = f]
        BY <2>1
      <4>3. s \in States /\ f \in Failures
        BY DEF States, Failures
      <4>4. QED
        BY <2>1, <4>1, <4>2, <4>3 DEF Types
    <3>2. QED
      BY <1>2, <2>2, <3>1 DEF FailJob, Types
  <2>5. RowsPerAttempt' /\ DispatchRows'
    BY <1>3, <2>2, <2>3 DEF FailJob, RowsPerAttempt, DispatchRows, Leasable
  <2>6. CurrentRow'
    BY <2>2, <2>3 DEF FailJob, CurrentRow, Leasable
  <2>7. Artifacts'
    BY <1>3, <2>3 DEF FailJob, Artifacts, Leasable
  <2>8. Claims'
    BY <1>2, <2>3 DEF FailJob, Claims
  <2>9. OneExecutionPerAttempt'
    BY <1>2 DEF OneExecutionPerAttempt
  <2>10. QED
    BY <2>4, <2>5, <2>6, <2>7, <2>8, <2>9
<1>4. CASE ~(Holds(w) /\ state[j] \in Leasable)
  <2>1. UNCHANGED <<dbVars, objects, streamVars, dispatchVars, faults>>
    BY <1>4 DEF FailJob
  <2>2. Types' /\ RowsPerAttempt' /\ DispatchRows' /\ CurrentRow' /\ Artifacts'
    BY <1>2, <2>1 DEF Types, RowsPerAttempt, DispatchRows, CurrentRow, Artifacts
  <2>3. Claims' /\ OneExecutionPerAttempt'
    BY <1>2, <2>1 DEF Claims, OneExecutionPerAttempt
  <2>4. QED
    BY <2>2, <2>3
<1>5. QED
  BY <1>3, <1>4

\* A worker that finds its job cancelling ends it, and its attempt.
LEMMA CancelJobInv ==
  ASSUME Inv, NEW w \in Workers, CancelJob(w)
  PROVE  Inv'
<1> DEFINE j == task[w].job
           a == task[w].attempt
           why == OwnRow(w).failure
<1> USE DEF Inv, dbVars, jobVars, streamVars, dispatchVars
<1>1. task[w].pc = "cancelJob" /\ j \in Jobs /\ a \in 1..attempt[j]
  BY DEF CancelJob, At, Claims
<1>2. /\ task' \in [Workers -> Task]
      /\ task'[w].pc = "idle"
      /\ \A v \in Workers : v # w => task'[v] = task[v]
  BY FinishTask DEF CancelJob, Types
<1>3. why = ledger[j][a].failure /\ why \in Failures
  <2>1. ledger[j][a] \in LedgerRow
    BY <1>1 DEF Types, RowsPerAttempt
  <2>2. QED
    BY <2>1 DEF OwnRow, LedgerRow
<1>4. CloseAttempt(w, why)
  BY DEF CancelJob
<1>5. /\ ledger' \in [Jobs -> Seq(LedgerRow)]
      /\ \A i \in Jobs : Len(ledger'[i]) = Len(ledger[i])
      /\ ledger'[j][a] = Closed(ledger[j][a], ledger[j][a].failure)
      /\ \A i \in Jobs : i # j => ledger'[i] = ledger[i]
      /\ \A i \in 1..Len(ledger[j]) : i # a => ledger'[j][i] = ledger[j][i]
  <2> HIDE DEF why
  <2>1. QED
    BY <1>1, <1>3, <1>4, CloseAttemptRow
<1>6. \A i \in Jobs : \A k \in 1..Len(ledger[i]) :
        /\ ledger'[i][k].failure = ledger[i][k].failure
        /\ ledger'[i][k].worker = ledger[i][k].worker
        /\ ledger[i][k].finished => ledger'[i][k].finished
  BY <1>1, <1>5 DEF Closed
<1>7. \A i \in Jobs : \/ state'[i] = state[i]
                      \/ state[i] = "cancelling" /\ state'[i] = "cancelled"
  <2>1. CASE Holds(w) /\ state[j] = "cancelling"
    BY <1>1, <2>1 DEF CancelJob, Types
  <2>2. CASE ~(Holds(w) /\ state[j] = "cancelling")
    BY <2>2 DEF CancelJob
  <2>3. QED
    BY <2>1, <2>2
<1>8. Types'
  <2>1. /\ state' \in [Jobs -> States]
        /\ owner' \in [Jobs -> Ids \cup {NoId}]
        /\ leased' \in [Jobs -> BOOLEAN]
    BY DEF CancelJob, Released, Types, States
  <2>2. QED
    BY <1>2, <1>5, <2>1 DEF CancelJob, Types
<1>9. RowsPerAttempt' /\ DispatchRows'
  BY SMTT(40), <1>5, <1>7 DEF CancelJob, RowsPerAttempt, DispatchRows
<1>10. CurrentRow'
  <2>1. attempt' = attempt
    BY DEF CancelJob
  <2>2. \A i \in Jobs : state[i] # "absent" => attempt[i] \in 1..Len(ledger[i])
    BY DEF RowsPerAttempt, Types
  <2>3. QED
    BY <1>6, <1>7, <2>1, <2>2 DEF CurrentRow, Leasable
<1>11. Artifacts' 
  BY <1>7 DEF CancelJob, Artifacts
<1>12. Claims' /\ OneExecutionPerAttempt'
  BY <1>2, <1>7 DEF CancelJob, Claims, OneExecutionPerAttempt
<1>13. QED
  BY <1>8, <1>9, <1>10, <1>11, <1>12

\* A crash drops the claims of one worker only.
LEMMA WorkerCrashInv ==
  ASSUME Inv, NEW w \in Workers, WorkerCrash(w)
  PROVE  Inv'
<1> USE DEF Inv, dbVars, jobVars, streamVars, dispatchVars
<1>1. /\ task' \in [Workers -> Task]
      /\ task'[w].pc = "idle"
      /\ \A v \in Workers : v # w => task'[v] = task[v]
  BY FinishTask DEF WorkerCrash, Types
<1>2. Types'
  <2>1. unread' \in [Workers -> [Jobs -> 0..MaxUnread]] /\ faults' \in 0..MaxFaults
    BY BoundsAssumption DEF WorkerCrash, Fault, Types
  <2>2. QED
    BY <1>1, <2>1 DEF WorkerCrash, Types
<1>3. RowsPerAttempt' /\ DispatchRows' /\ CurrentRow' /\ Artifacts'
  BY DEF WorkerCrash, RowsPerAttempt, DispatchRows, CurrentRow, Artifacts
<1>4. Claims' /\ OneExecutionPerAttempt'
  BY <1>1 DEF WorkerCrash, Claims, OneExecutionPerAttempt
<1>5. QED
  BY <1>2, <1>3, <1>4

\* Claiming: the row leaves "queued", so no other worker executes its attempt.
LEMMA ReadEntryInv ==
  ASSUME Inv, NEW w \in Workers, NEW j \in Jobs, ReadEntry(w, j)
  PROVE  Inv'
<1> USE DEF Inv, dbVars, jobVars, streamVars, dispatchVars
<1>1. unread' \in [Workers -> [Jobs -> 0..MaxUnread]]
  <2>1. unread[w] \in [Jobs -> 0..MaxUnread] /\ unread[w][j] - 1 \in 0..MaxUnread
    BY BoundsAssumption DEF ReadEntry, Queued, Types
  <2>2. QED
    BY <2>1 DEF ReadEntry, Queued, Types
<1>2. CASE state[j] = "queued"
  <2> DEFINE a == attempt[j]
             r == [worker |-> IdOf[w], finished |-> ledger[j][a].finished,
                   failure |-> ledger[j][a].failure]
  <2>1. a \in 1..Len(ledger[j]) /\ a \in Nat \ {0} /\ ledger[j] \in Seq(LedgerRow)
    BY <1>2 DEF RowsPerAttempt, Types
  <2>2. ledger[j][a] \in LedgerRow
    BY <2>1
  <2>3. r \in LedgerRow
    BY <2>2, IdsAssumption DEF LedgerRow
  <2>4. ledger' = [ledger EXCEPT ![j][a] = r]
    BY <1>2 DEF ReadEntry, Queued
  <2>5. /\ ledger' \in [Jobs -> Seq(LedgerRow)]
        /\ \A i \in Jobs : Len(ledger'[i]) = Len(ledger[i])
        /\ ledger'[j][a] = r
        /\ \A i \in Jobs : i # j => ledger'[i] = ledger[i]
    <3> HIDE DEF r
    <3>1. QED
      BY <2>1, <2>3, <2>4, LedgerReplace DEF Types
  <2>6. \A i \in Jobs : /\ i # j => state'[i] = state[i]
                        /\ i = j => state'[i] = "preparing"
    BY <1>2 DEF ReadEntry, Queued, Types
  <2>7. /\ task' \in [Workers -> Task]
        /\ task'[w] = [pc |-> "preparing", job |-> j, attempt |-> a]
        /\ \A v \in Workers : v # w => task'[v] = task[v]
    <3>1. task' = [task EXCEPT ![w] = [pc |-> "preparing", job |-> j, attempt |-> a]]
      BY <1>2 DEF ReadEntry, Queued
    <3>2. [pc |-> "preparing", job |-> j, attempt |-> a] \in Task
      BY <2>1 DEF Task, Phases, Executing
    <3>3. QED
      BY <3>1, <3>2 DEF Types
  <2>8. Types'
    <3>1. /\ state' \in [Jobs -> States]
          /\ owner' \in [Jobs -> Ids \cup {NoId}]
          /\ leased' \in [Jobs -> BOOLEAN]
      BY ZenonT(40), <1>2, IdsAssumption DEF ReadEntry, Queued, Types, States
    <3>2. QED
      BY <1>1, <2>5, <2>7, <3>1 DEF ReadEntry, Queued, Types
  <2>9. RowsPerAttempt' /\ DispatchRows'
    BY <1>2, <2>5, <2>6 DEF ReadEntry, Queued, RowsPerAttempt, DispatchRows
  <2>10. CurrentRow'
    <3>1. r.worker # NoId /\ r.failure = "none"
      BY <1>2, IdsAssumption DEF CurrentRow
    <3>2. attempt' = attempt
      BY DEF ReadEntry, Queued
    <3> HIDE DEF r
    <3>3. QED
      BY <2>5, <2>6, <3>1, <3>2 DEF CurrentRow
  <2>11. Artifacts'
    BY <1>2, <2>6 DEF ReadEntry, Queued, Artifacts
  <2>12. Claims'
    BY SMTT(40), <2>1, <2>6, <2>7 DEF ReadEntry, Queued, Claims
  <2>13. OneExecutionPerAttempt'
    <3>1. \A v \in Workers : task[v].pc # "idle" /\ task[v].job = j => task[v].attempt # a
      BY <1>2 DEF Claims
    <3>2. QED
      BY <2>7, <3>1 DEF OneExecutionPerAttempt
  <2>14. QED
    BY <2>8, <2>9, <2>10, <2>11, <2>12, <2>13
<1>3. CASE state[j] # "queued"
  <2>1. UNCHANGED <<dbVars, objects, stream, task, dispatchVars, faults>>
    BY <1>3 DEF ReadEntry, Queued
  <2>2. Types'
    BY <1>1, <2>1 DEF Types
  <2>3. RowsPerAttempt' /\ DispatchRows' /\ CurrentRow' /\ Artifacts'
    BY <2>1 DEF RowsPerAttempt, DispatchRows, CurrentRow, Artifacts
  <2>4. Claims' /\ OneExecutionPerAttempt'
    BY <2>1 DEF Claims, OneExecutionPerAttempt
  <2>5. QED
    BY <2>2, <2>3, <2>4
<1>4. QED
  BY <1>2, <1>3
-----------------------------------------------------------------------------
\* Queueing a new attempt of jobs that have no live one.
LEMMA EnqueueInv ==
  ASSUME Inv, NEW S \in SUBSET Jobs, Enqueue(S, "none"),
         \A j \in S : state[j] \in {"absent", "failed"},
         batchOf' \in [Jobs -> SUBSET Jobs], faults' \in 0..MaxFaults,
         UNCHANGED <<artifact, objects, streamVars, task, dispatchVars>>
  PROVE  Inv'
<1> USE DEF Inv, streamVars, dispatchVars
<1>1. \A j \in Jobs :
        /\ j \notin S => /\ state'[j] = state[j]
                        /\ attempt'[j] = attempt[j]
                        /\ ledger'[j] = ledger[j]
                        /\ outbox'[j] = outbox[j]
        /\ j \in S => /\ state'[j] = "queued"
                     /\ attempt'[j] = attempt[j] + 1
                     /\ ledger'[j] = Append(ledger[j], NewLedgerRow)
                     /\ outbox'[j] = Append(outbox[j], NewOutboxRow)
  BY DEF Enqueue
<1>2. \A j \in Jobs : /\ attempt[j] \in Nat
                      /\ Len(ledger[j]) = attempt[j]
                      /\ Len(outbox[j]) = attempt[j]
                      /\ ledger[j] \in Seq(LedgerRow)
                      /\ outbox[j] \in Seq(OutboxRow)
  BY DEF Types, RowsPerAttempt
<1>3. \A j \in S :
        /\ ledger'[j] \in Seq(LedgerRow)
        /\ outbox'[j] \in Seq(OutboxRow)
        /\ Len(ledger'[j]) = attempt'[j]
        /\ Len(outbox'[j]) = attempt'[j]
        /\ ledger'[j][attempt'[j]] = NewLedgerRow
  <2> SUFFICES ASSUME NEW j \in S
               PROVE  /\ ledger'[j] \in Seq(LedgerRow)
                      /\ outbox'[j] \in Seq(OutboxRow)
                      /\ Len(ledger'[j]) = attempt'[j]
                      /\ Len(outbox'[j]) = attempt'[j]
                      /\ ledger'[j][attempt'[j]] = NewLedgerRow
    OBVIOUS
  <2>1. /\ Append(ledger[j], NewLedgerRow) \in Seq(LedgerRow)
        /\ Len(Append(ledger[j], NewLedgerRow)) = attempt[j] + 1
        /\ Append(ledger[j], NewLedgerRow)[attempt[j] + 1] = NewLedgerRow
    BY <1>2, RowTypes, SeqAppend
  <2>2. /\ Append(outbox[j], NewOutboxRow) \in Seq(OutboxRow)
        /\ Len(Append(outbox[j], NewOutboxRow)) = attempt[j] + 1
    BY <1>2, RowTypes, SeqAppend
  <2>3. QED
    BY <1>1, <2>1, <2>2
<1>4. Types'
  <2>1. state' \in [Jobs -> States] /\ attempt' \in [Jobs -> Nat]
    BY DEF Enqueue, Types, States
  <2>2. /\ owner' \in [Jobs -> Ids \cup {NoId}]
        /\ failure' \in [Jobs -> Failures]
    BY DEF Enqueue, Types, Failures
  <2>3. leased' \in [Jobs -> BOOLEAN]
    BY DEF Enqueue, Types
  <2>4. ledger' \in [Jobs -> Seq(LedgerRow)]
    BY <1>1, <1>2, <1>3 DEF Enqueue
  <2>5. outbox' \in [Jobs -> Seq(OutboxRow)]
    BY <1>1, <1>2, <1>3 DEF Enqueue
  <2>6. QED
    BY <2>1, <2>2, <2>3, <2>4, <2>5 DEF Types
<1>5. RowsPerAttempt'
  BY <1>1, <1>2, <1>3 DEF RowsPerAttempt
<1>6. DispatchRows'
  <2>1. \A j \in Jobs : Len(outbox'[j]) \in Nat /\ Len(outbox'[j]) >= Len(outbox[j])
    BY <1>1, <1>2, <1>3
  <2>2. \A d \in Dispatchers : \A e \in todo[d] : e[1] \in Jobs
    BY DEF Types
  <2>3. QED
    BY <1>2, <2>1, <2>2 DEF DispatchRows
<1>7. CurrentRow'
  BY <1>1, <1>3 DEF CurrentRow, NewLedgerRow, Leasable
<1>8. Artifacts'
  BY <1>1 DEF Artifacts
<1>9. Claims'
  <2>1. \A j \in Jobs : /\ attempt'[j] \in Nat
                        /\ attempt'[j] >= attempt[j]
                        /\ state'[j] = "queued" => \/ state[j] = "queued" /\ attempt'[j] = attempt[j]
                                                 \/ attempt'[j] = attempt[j] + 1
                        /\ attempt'[j] = attempt[j] => state'[j] = state[j]
    BY <1>1, <1>2
  <2>2. QED
    BY <1>2, <2>1 DEF Claims
<1>10. OneExecutionPerAttempt'
  BY DEF OneExecutionPerAttempt
<1>11. QED
  BY <1>4, <1>5, <1>6, <1>7, <1>8, <1>9, <1>10

\* Creating a batch queues the first attempt of jobs that have none.
LEMMA CreateBatchInv ==
  ASSUME Inv, NEW R \in SUBSET Jobs, CreateBatch(R)
  PROVE  Inv'
<1> DEFINE new == {j \in R : state[j] # "succeeded"}
<1>1. /\ Enqueue(new, "none")
      /\ \A j \in new : state[j] = "absent"
      /\ new \in SUBSET Jobs
      /\ batchOf' = [j \in Jobs |-> IF j \in new THEN new ELSE batchOf[j]]
      /\ UNCHANGED <<artifact, objects, streamVars, task, dispatchVars, faults>>
  BY DEF CreateBatch, UniqueKeys
<1>2. batchOf' \in [Jobs -> SUBSET Jobs] /\ faults' \in 0..MaxFaults
  BY <1>1 DEF Inv, Types
<1> HIDE DEF new
<1>3. QED
  BY <1>1, <1>2, EnqueueInv DEF Failures

\* A retry queues a new attempt of a failed job.
LEMMA RetryInv ==
  ASSUME Inv, NEW S \in SUBSET RetryableFailed, Retry(S)
  PROVE  Inv'
<1>1. /\ S \in SUBSET Jobs
      /\ \A j \in S : state[j] = "failed"
      /\ Enqueue(S, "none")
      /\ UNCHANGED <<batchOf, artifact, objects, streamVars, task, dispatchVars>>
  BY DEF Retry, RetryableFailed
<1>2. batchOf' \in [Jobs -> SUBSET Jobs] /\ faults' \in 0..MaxFaults
  BY <1>1, BoundsAssumption DEF Inv, Types, Retry, Fault
<1>3. QED
  BY <1>1, <1>2, EnqueueInv DEF Failures

\* Asking for a cancel ends a waiting job and marks a running one.
LEMMA RequestCancelInv ==
  ASSUME Inv, NEW j \in Jobs, RequestCancel(j)
  PROVE  Inv'
<1> USE DEF Inv, dbVars, jobVars, streamVars, dispatchVars
<1>1. \A i \in Jobs :
        \/ state'[i] = state[i]
        \/ state[i] = "queued" /\ state'[i] = "cancelled"
        \/ state[i] \in {"preparing", "running"} /\ state'[i] = "cancelling"
  BY DEF RequestCancel, Types
<1>2. Types'
  <2>1. state' \in [Jobs -> States]
    BY DEF RequestCancel, Types, States
  <2>2. QED
    BY <2>1 DEF RequestCancel, Types
<1>3. RowsPerAttempt' /\ DispatchRows'
  BY <1>1 DEF RequestCancel, RowsPerAttempt, DispatchRows
<1>4. CurrentRow' /\ Artifacts'
  BY <1>1 DEF RequestCancel, CurrentRow, Artifacts, Leasable
<1>5. Claims' /\ OneExecutionPerAttempt'
  BY <1>1 DEF RequestCancel, Claims, OneExecutionPerAttempt
<1>6. QED
  BY <1>2, <1>3, <1>4, <1>5

-----------------------------------------------------------------------------
\* Steps that leave the job rows, the attempts, the artifacts and the workers'
\* claims alone.
LEMMA DispatchOnly ==
  ASSUME Inv, UNCHANGED <<jobVars, ledger, artifact, objects, task>>,
         outbox' \in [Jobs -> Seq(OutboxRow)],
         \A j \in Jobs : Len(outbox'[j]) = Len(outbox[j]),
         stream' \in [Jobs -> 0..MaxUnread],
         unread' \in [Workers -> [Jobs -> 0..MaxUnread]],
         loop' \in [Dispatchers -> {"recover", "claim", "publish"}],
         todo' \in [Dispatchers -> SUBSET (Jobs \X Nat)],
         sent' \in [Dispatchers -> SUBSET (Jobs \X Nat)],
         faults' \in 0..MaxFaults,
         DispatchRows'
  PROVE  Inv'
<1> USE DEF Inv, jobVars
<1>1. Types'
  BY DEF Types
<1>2. RowsPerAttempt' /\ CurrentRow' /\ Artifacts'
  BY DEF RowsPerAttempt, CurrentRow, Artifacts
<1>3. Claims' /\ OneExecutionPerAttempt'
  BY DEF Claims, OneExecutionPerAttempt
<1>4. QED
  BY <1>1, <1>2, <1>3

\* Replacing one outbox row.
LEMMA OutboxReplace ==
  ASSUME outbox \in [Jobs -> Seq(OutboxRow)], NEW j \in Jobs,
         NEW k \in 1..Len(outbox[j]), NEW r \in OutboxRow,
         outbox' = [outbox EXCEPT ![j][k] = r]
  PROVE  /\ outbox' \in [Jobs -> Seq(OutboxRow)]
         /\ \A i \in Jobs : Len(outbox'[i]) = Len(outbox[i])
<1>1. /\ [outbox[j] EXCEPT ![k] = r] \in Seq(OutboxRow)
      /\ Len([outbox[j] EXCEPT ![k] = r]) = Len(outbox[j])
  BY SeqReplace
<1>2. QED
  BY <1>1

\* XADD: only the stream and the dispatcher move.
LEMMA PublishInv ==
  ASSUME Inv, NEW d \in Dispatchers, NEW e \in todo[d], Publish(d, e)
  PROVE  Inv'
<1> USE DEF Inv, dbVars, streamVars
<1>1. \A n \in 0..MaxUnread : Saturated(n) \in 0..MaxUnread
  BY BoundsAssumption DEF Saturated
<1>2. e \in Jobs \X Nat
  BY DEF Types
<1>3. stream' \in [Jobs -> 0..MaxUnread]
  BY <1>1, <1>2 DEF Publish, Types
<1>4. unread' \in [Workers -> [Jobs -> 0..MaxUnread]]
  BY <1>1, <1>2 DEF Publish, Types
<1>5. sent' \in [Dispatchers -> SUBSET (Jobs \X Nat)]
  BY <1>2 DEF Publish, Types
<1>6. DispatchRows'
  BY DEF Publish, DispatchRows, Types
<1>7. QED
  BY <1>3, <1>4, <1>5, <1>6, DispatchOnly DEF Publish, Types

\* Counting a restart keeps outbox rows well typed.
LEMMA RestartsRows ==
  ASSUME Inv, NEW d \in Dispatchers, DispatcherRestarts(d), UNCHANGED outbox
  PROVE  /\ loop' \in [Dispatchers -> {"recover", "claim", "publish"}]
         /\ todo' \in [Dispatchers -> SUBSET (Jobs \X Nat)]
         /\ sent' \in [Dispatchers -> SUBSET (Jobs \X Nat)]
         /\ DispatchRows'
<1> USE DEF Inv, DispatcherRestarts
<1>1. loop' \in [Dispatchers -> {"recover", "claim", "publish"}]
  BY DEF Types
<1>2. /\ todo' \in [Dispatchers -> SUBSET (Jobs \X Nat)]
      /\ sent' \in [Dispatchers -> SUBSET (Jobs \X Nat)]
  BY DEF Types
<1>3. DispatchRows'
  BY DEF DispatchRows, Types
<1>4. QED
  BY <1>1, <1>2, <1>3

\* A dispatcher that dies leaves its claims behind.
LEMMA DispatcherCrashInv ==
  ASSUME Inv, NEW d \in Dispatchers, DispatcherCrash(d)
  PROVE  Inv'
<1> USE DEF DispatcherCrash, dbVars, streamVars
<1>1. faults' \in 0..MaxFaults
  BY BoundsAssumption DEF Fault, Inv, Types
<1>2. QED
  BY <1>1, RestartsRows, DispatchOnly DEF Inv, Types

\* Marking a row published, and the error path that releases it.
LEMMA MarkPublishedInv ==
  ASSUME Inv, NEW d \in Dispatchers, NEW e \in todo[d], MarkPublished(d, e)
  PROVE  Inv'
<1> DEFINE mine == outbox[e[1]][e[2]].by = IdOf[d] /\ outbox[e[1]][e[2]].published = "no"
<1> USE DEF streamVars
<1>1. e[1] \in Jobs /\ e[2] \in 1..Len(outbox[e[1]])
  BY DEF Inv, Types, DispatchRows
<1>2. CASE mine
  <2>1. /\ outbox' = [outbox EXCEPT ![e[1]][e[2]] = Published("recent")]
        /\ todo' = [todo EXCEPT ![d] = @ \ {e}]
        /\ sent' = [sent EXCEPT ![d] = {}]
        /\ loop' = [loop EXCEPT ![d] = IF todo[d] = {e} THEN "recover" ELSE "publish"]
    BY <1>2 DEF MarkPublished
  <2>2. Published("recent") \in OutboxRow
    BY DEF Published, OutboxRow
  <2>3. /\ outbox' \in [Jobs -> Seq(OutboxRow)]
        /\ \A i \in Jobs : Len(outbox'[i]) = Len(outbox[i])
    BY <1>1, <2>1, <2>2, OutboxReplace DEF Inv, Types
  <2>4. /\ loop' \in [Dispatchers -> {"recover", "claim", "publish"}]
        /\ todo' \in [Dispatchers -> SUBSET (Jobs \X Nat)]
        /\ sent' \in [Dispatchers -> SUBSET (Jobs \X Nat)]
    BY <2>1 DEF Inv, Types
  <2>5. DispatchRows'
    <3>1. \A c \in Dispatchers : /\ sent'[c] \subseteq todo'[c]
                                 /\ todo'[c] \subseteq todo[c]
                                 /\ loop'[c] # "publish" => todo'[c] = {}
      BY <2>1 DEF Inv, Types, DispatchRows, MarkPublished
    <3>2. \A c \in Dispatchers : \A f \in todo[c] :
            Len(outbox'[f[1]]) = Len(outbox[f[1]])
      BY <2>3 DEF Inv, Types
    <3>3. QED
      BY <3>1, <3>2 DEF Inv, DispatchRows
  <2>6. QED
    BY <2>3, <2>4, <2>5, DispatchOnly DEF MarkPublished, Inv, Types
<1>3. CASE ~mine
  <2>1. DispatcherRestarts(d) /\ UNCHANGED outbox
    BY <1>3 DEF MarkPublished
  <2>2. QED
    BY <2>1, RestartsRows, DispatchOnly DEF MarkPublished, Inv, Types
<1>4. QED
  BY <1>2, <1>3

\* Claiming outbox rows moves no job.
LEMMA ClaimOutboxInv ==
  ASSUME Inv, NEW d \in Dispatchers, ClaimOutbox(d)
  PROVE  Inv'
<1> USE DEF jobVars, streamVars
<1> DEFINE claimed == [published |-> "no", by |-> IdOf[d], held |-> TRUE]
           rows(j) == [k \in 1..Len(outbox[j]) |->
                         IF <<j, k>> \in Claimable THEN claimed ELSE outbox[j][k]]
<1>1. claimed \in OutboxRow
  BY IdsAssumption DEF OutboxRow
<1>2. \A j \in Jobs : rows(j) \in Seq(OutboxRow) /\ Len(rows(j)) = Len(outbox[j])
  <2> SUFFICES ASSUME NEW j \in Jobs
               PROVE  rows(j) \in Seq(OutboxRow) /\ Len(rows(j)) = Len(outbox[j])
    OBVIOUS
  <2>1. Len(outbox[j]) \in Nat /\ \A k \in 1..Len(outbox[j]) : outbox[j][k] \in OutboxRow
    BY DEF Inv, Types
  <2> HIDE DEF claimed
  <2>2. rows(j) \in [1..Len(outbox[j]) -> OutboxRow]
    BY <1>1, <2>1
  <2>3. QED
    BY <2>1, <2>2, SeqFunction
<1>3. /\ outbox' \in [Jobs -> Seq(OutboxRow)]
      /\ \A j \in Jobs : Len(outbox'[j]) = Len(outbox[j])
  <2>1. outbox' = [j \in Jobs |-> rows(j)]
    BY DEF ClaimOutbox
  <2> HIDE DEF rows
  <2>2. QED
    BY <1>2, <2>1
<1>4. Claimable \subseteq Jobs \X Nat
  <2>1. \A j \in Jobs : Len(outbox[j]) \in Nat
    BY DEF Inv, Types
  <2>2. QED
    BY <2>1 DEF Claimable, Rows
<1>5. \A e \in Claimable : e[1] \in Jobs /\ e[2] \in 1..Len(outbox[e[1]])
  BY DEF Claimable, Rows
<1>6. /\ loop' \in [Dispatchers -> {"recover", "claim", "publish"}]
      /\ todo' \in [Dispatchers -> SUBSET (Jobs \X Nat)]
  BY <1>4 DEF ClaimOutbox, Inv, Types
<1>7. DispatchRows'
  <2>1. \A c \in Dispatchers : c # d => todo'[c] = todo[c] /\ sent'[c] = sent[c]
    BY DEF ClaimOutbox, Inv, Types
  <2>2. todo'[d] = Claimable /\ sent'[d] = {}
    BY DEF ClaimOutbox, Inv, Types, DispatchRows
  <2>3. \A c \in Dispatchers : \A e \in todo[c] : e[1] \in Jobs
    BY DEF Inv, Types
  <2>4. \A c \in Dispatchers : c # d => loop'[c] = loop[c]
    BY DEF ClaimOutbox, Inv, Types
  <2>5. loop'[d] # "publish" => Claimable = {}
    BY DEF ClaimOutbox, Inv, Types
  <2>6. QED
    BY <1>3, <1>5, <2>1, <2>2, <2>3, <2>4, <2>5 DEF Inv, DispatchRows
<1>8. QED
  BY <1>3, <1>6, <1>7, DispatchOnly DEF ClaimOutbox, Inv, Types

\* Passing time and a lost stream.
LEMMA StreamLossInv ==
  ASSUME Inv, NEW kept \in SUBSET Workers, StreamLoss(kept)
  PROVE  Inv'
<1> USE DEF dbVars, streamVars, dispatchVars
<1>1. NoEntries \in [Jobs -> 0..MaxUnread]
  BY BoundsAssumption DEF NoEntries
<1>2. stream' \in [Jobs -> 0..MaxUnread] /\ unread' \in [Workers -> [Jobs -> 0..MaxUnread]]
  BY <1>1 DEF StreamLoss, Inv, Types
<1>3. faults' \in 0..MaxFaults
  BY BoundsAssumption DEF StreamLoss, Fault, Inv, Types
<1>4. DispatchRows'
  BY DEF StreamLoss, Inv, DispatchRows
<1>5. QED
  BY <1>2, <1>3, <1>4, DispatchOnly DEF StreamLoss, Inv, Types

\* A change of one outbox row moves no job.
LEMMA OutboxRowChangesInv ==
  ASSUME Inv, NEW j \in Jobs, NEW k \in 1..Len(outbox[j]), NEW r \in OutboxRow,
         outbox' = [outbox EXCEPT ![j][k] = r],
         faults' \in 0..MaxFaults,
         UNCHANGED <<jobVars, ledger, artifact, objects, streamVars, task, dispatchVars>>
  PROVE  Inv'
<1> USE DEF streamVars, dispatchVars
<1>1. /\ outbox' \in [Jobs -> Seq(OutboxRow)]
      /\ \A i \in Jobs : Len(outbox'[i]) = Len(outbox[i])
  BY OutboxReplace DEF Inv, Types
<1>2. DispatchRows'
  <2>1. \A c \in Dispatchers : \A e \in todo[c] : e[1] \in Jobs
    BY DEF Inv, Types
  <2>2. QED
    BY <1>1, <2>1 DEF Inv, DispatchRows
<1>3. QED
  BY <1>1, <1>2, DispatchOnly DEF Inv, Types

\* Time that passes for outbox rows moves no job.
LEMMA OutboxTimeInv ==
  ASSUME Inv, NEW j \in Jobs, NEW k \in 1..Len(outbox[j]),
         DispatchLeaseExpires(j, k) \/ PublicationAges(j, k)
  PROVE  Inv'
<1>1. faults' \in 0..MaxFaults
  BY BoundsAssumption DEF DispatchLeaseExpires, PublicationAges, Fault, Inv, Types
<1>2. outbox[j][k] \in OutboxRow
  BY DEF Inv, Types
<1>3. CASE DispatchLeaseExpires(j, k)
  <2> DEFINE r == [published |-> "no", by |-> outbox[j][k].by, held |-> FALSE]
  <2>1. r \in OutboxRow
    BY <1>2 DEF OutboxRow
  <2>2. /\ outbox' = [outbox EXCEPT ![j][k] = r]
        /\ UNCHANGED <<jobVars, ledger, artifact, objects, streamVars, task, dispatchVars>>
    BY <1>3 DEF DispatchLeaseExpires
  <2> HIDE DEF r
  <2>3. QED
    BY <1>1, <2>1, <2>2, OutboxRowChangesInv
<1>4. CASE PublicationAges(j, k)
  <2>1. Published("old") \in OutboxRow
    BY DEF Published, OutboxRow
  <2>2. QED
    BY <1>1, <1>4, <2>1, OutboxRowChangesInv DEF PublicationAges
<1>5. QED
  BY <1>3, <1>4

\* A lease that runs out changes neither the attempt nor its owner.
LEMMA LeaseExpiresInv ==
  ASSUME Inv, NEW j \in Jobs, LeaseExpires(j)
  PROVE  Inv'
<1> USE DEF Inv, LeaseExpires, streamVars, dispatchVars
<1>1. Types'
  <2>1. leased' \in [Jobs -> BOOLEAN]
    BY DEF Types
  <2>2. faults' \in 0..MaxFaults
    BY BoundsAssumption DEF Types, Fault
  <2>3. QED
    BY <2>1, <2>2 DEF Types
<1>2. RowsPerAttempt' /\ DispatchRows' /\ CurrentRow' /\ Artifacts'
  BY DEF RowsPerAttempt, DispatchRows, CurrentRow, Artifacts
<1>3. Claims' /\ OneExecutionPerAttempt'
  BY DEF Claims, OneExecutionPerAttempt
<1>4. QED
  BY <1>1, <1>2, <1>3

\* The watchdog: a requeued job gets a new attempt, so the worker that lost
\* the old one no longer holds the current attempt.
LEMMA RecoverExpiredInv ==
  ASSUME Inv, NEW d \in Dispatchers, RecoverExpired(d)
  PROVE  Inv'
<1> USE DEF Inv, streamVars, dispatchVars
<1> DEFINE lost == {j \in Expired : state[j] # "cancelling"}
           why(j) == IF j \in lost THEN "worker_lease_expired" ELSE "none"
           closed(j) == [ledger[j] EXCEPT ![attempt[j]] =
                           Closed(ledger[j][attempt[j]], why(j))]
<1>1. \A j \in Jobs : /\ attempt[j] \in Nat
                      /\ Len(ledger[j]) = attempt[j]
                      /\ Len(outbox[j]) = attempt[j]
                      /\ ledger[j] \in Seq(LedgerRow)
                      /\ outbox[j] \in Seq(OutboxRow)
  BY DEF Types, RowsPerAttempt
<1>2. \A j \in Expired : state[j] \in Leasable /\ j \in Jobs
  BY DEF Expired
<1>3. \A j \in Expired : closed(j) \in Seq(LedgerRow) /\ Len(closed(j)) = attempt[j]
  <2> SUFFICES ASSUME NEW j \in Expired
               PROVE  closed(j) \in Seq(LedgerRow) /\ Len(closed(j)) = attempt[j]
    OBVIOUS
  <2>1. attempt[j] \in 1..Len(ledger[j])
    BY <1>1, <1>2 DEF RowsPerAttempt, Leasable
  <2>2. ledger[j][attempt[j]] \in LedgerRow
    BY <1>1, <1>2, <2>1
  <2>3. why(j) \in Failures
    BY DEF Failures
  <2> HIDE DEF why
  <2>4. Closed(ledger[j][attempt[j]], why(j)) \in LedgerRow
    BY <2>2, <2>3 DEF Closed, LedgerRow
  <2>5. QED
    BY <1>1, <1>2, <2>1, <2>4, SeqReplace
<1>4. \A j \in Jobs :
        /\ j \in lost =>
             /\ state'[j] = "queued"
             /\ attempt'[j] = attempt[j] + 1
             /\ ledger'[j] = Append(closed(j), NewLedgerRow)
             /\ outbox'[j] = Append(outbox[j], NewOutboxRow)
        /\ j \in Expired \ lost =>
             /\ state[j] = "cancelling" /\ state'[j] = "cancelled"
             /\ attempt'[j] = attempt[j]
             /\ ledger'[j] = closed(j)
        /\ j \notin Expired =>
             /\ state'[j] = state[j]
             /\ attempt'[j] = attempt[j]
             /\ ledger'[j] = ledger[j]
        /\ j \notin lost => outbox'[j] =
             IF j \in Stranded THEN [outbox[j] EXCEPT ![Len(outbox[j])] = NewOutboxRow]
             ELSE outbox[j]
  <2> HIDE DEF closed
  <2>1. /\ state' = [j \in Jobs |-> IF j \in lost THEN "queued"
                                    ELSE IF j \in Expired THEN "cancelled" ELSE state[j]]
        /\ attempt' = [j \in Jobs |-> IF j \in lost THEN attempt[j] + 1 ELSE attempt[j]]
    BY DEF RecoverExpired, LostJobs
  <2>2. ledger' = [j \in Jobs |->
          IF j \in lost THEN Append(closed(j), NewLedgerRow)
          ELSE IF j \in Expired THEN closed(j) ELSE ledger[j]]
    BY DEF RecoverExpired, LostJobs, closed
  <2>3. outbox' = [j \in Jobs |->
          IF j \in lost THEN Append(outbox[j], NewOutboxRow)
          ELSE IF j \in Stranded THEN [outbox[j] EXCEPT ![Len(outbox[j])] = NewOutboxRow]
          ELSE outbox[j]]
    BY DEF RecoverExpired, LostJobs
  <2>4. lost \subseteq Expired /\ \A j \in Expired \ lost : state[j] = "cancelling"
    OBVIOUS
  <2> HIDE DEF lost
  <2>5. QED
    BY <2>1, <2>2, <2>3, <2>4
<1>lost. lost \subseteq Expired
  OBVIOUS
<1>moves. \A j \in Jobs :
         \/ /\ state[j] \in Leasable /\ state'[j] = "queued"
            /\ attempt'[j] = attempt[j] + 1 /\ j \in lost
         \/ /\ state[j] = "cancelling" /\ state'[j] = "cancelled"
            /\ attempt'[j] = attempt[j]
         \/ /\ state'[j] = state[j] /\ attempt'[j] = attempt[j]
            /\ ledger'[j] = ledger[j]
  <2> HIDE DEF lost, closed
  <2>1. QED
    BY <1>lost, <1>2, <1>4
<1>5. \A j \in Jobs :
        /\ ledger'[j] \in Seq(LedgerRow)
        /\ Len(ledger'[j]) = attempt'[j]
        /\ j \in lost => ledger'[j][attempt'[j]] = NewLedgerRow
  <2> SUFFICES ASSUME NEW j \in Jobs
               PROVE  /\ ledger'[j] \in Seq(LedgerRow)
                      /\ Len(ledger'[j]) = attempt'[j]
                      /\ j \in lost => ledger'[j][attempt'[j]] = NewLedgerRow
    OBVIOUS
  <2> HIDE DEF closed
  <2>1. CASE j \in lost
    <3>1. closed(j) \in Seq(LedgerRow) /\ Len(closed(j)) = attempt[j]
      BY <1>3, <2>1
    <3>2. /\ Append(closed(j), NewLedgerRow) \in Seq(LedgerRow)
          /\ Len(Append(closed(j), NewLedgerRow)) = attempt[j] + 1
          /\ Append(closed(j), NewLedgerRow)[attempt[j] + 1] = NewLedgerRow
      BY <3>1, RowTypes, SeqAppend
    <3>3. ledger'[j] = Append(closed(j), NewLedgerRow) /\ attempt'[j] = attempt[j] + 1
      BY <1>4, <2>1
    <3>4. QED
      BY <3>2, <3>3
  <2>2. CASE j \in Expired \ lost
    BY <1>3, <1>4, <2>2
  <2>3. CASE j \notin Expired
    BY <1>1, <1>4, <2>3
  <2>4. QED
    BY <2>1, <2>2, <2>3
<1>6. \A j \in Jobs : outbox'[j] \in Seq(OutboxRow) /\ Len(outbox'[j]) = attempt'[j]
  <2> SUFFICES ASSUME NEW j \in Jobs
               PROVE  outbox'[j] \in Seq(OutboxRow) /\ Len(outbox'[j]) = attempt'[j]
    OBVIOUS
  <2> HIDE DEF closed
  <2>1. CASE j \in lost
    <3>1. /\ Append(outbox[j], NewOutboxRow) \in Seq(OutboxRow)
          /\ Len(Append(outbox[j], NewOutboxRow)) = attempt[j] + 1
      BY <1>1, RowTypes, SeqAppend
    <3>2. outbox'[j] = Append(outbox[j], NewOutboxRow) /\ attempt'[j] = attempt[j] + 1
      BY <1>4, <2>1
    <3>3. QED
      BY <3>1, <3>2
  <2>2. CASE j \notin lost /\ j \in Stranded
    <3>1. attempt[j] \in 1..Len(outbox[j])
      BY <1>1, <2>2 DEF Stranded, RowsPerAttempt
    <3>2. /\ [outbox[j] EXCEPT ![Len(outbox[j])] = NewOutboxRow] \in Seq(OutboxRow)
          /\ Len([outbox[j] EXCEPT ![Len(outbox[j])] = NewOutboxRow]) = Len(outbox[j])
      BY <1>1, <3>1, RowTypes, SeqReplace
    <3>3. QED
      BY <1>1, <1>4, <2>2, <3>2
  <2>3. CASE j \notin lost /\ j \notin Stranded
    BY <1>1, <1>4, <2>3
  <2>4. QED
    BY <2>1, <2>2, <2>3
<1>7. Types'
  <2>1. state' \in [Jobs -> States]
    BY DEF RecoverExpired, LostJobs, Types, States
  <2>2. attempt' \in [Jobs -> Nat]
    BY DEF RecoverExpired, LostJobs, Types
  <2>3. owner' \in [Jobs -> Ids \cup {NoId}] /\ failure' \in [Jobs -> Failures]
    BY DEF RecoverExpired, LostJobs, Types, Failures
  <2>4. ledger' \in [Jobs -> Seq(LedgerRow)]
    <3>1. ledger' = [j \in Jobs |-> ledger'[j]]
      BY DEF RecoverExpired, LostJobs
    <3>2. QED
      BY <1>5, <3>1
  <2>5. outbox' \in [Jobs -> Seq(OutboxRow)]
    <3>1. outbox' = [j \in Jobs |-> outbox'[j]]
      BY DEF RecoverExpired, LostJobs
    <3>2. QED
      BY <1>6, <3>1
  <2>6. loop' \in [Dispatchers -> {"recover", "claim", "publish"}]
    BY DEF RecoverExpired, LostJobs, Types
  <2>7. QED
    BY <2>1, <2>2, <2>3, <2>4, <2>5, <2>6 DEF RecoverExpired, LostJobs, Types
<1>8. RowsPerAttempt'
  <2> HIDE DEF lost
  <2>1. QED
    BY <1>1, <1>moves, <1>5, <1>6 DEF RowsPerAttempt, Leasable
<1>9. \A j \in Jobs : attempt'[j] \in Nat /\ attempt'[j] >= attempt[j]
  <2> HIDE DEF lost
  <2>1. QED
    BY <1>1, <1>moves
<1>10. DispatchRows'
  <2>1. \A c \in Dispatchers : \A e \in todo[c] : e[1] \in Jobs
    BY DEF Types
  <2>2. QED
    BY <1>1, <1>6, <1>9, <2>1 DEF RecoverExpired, LostJobs, DispatchRows
<1>11. CurrentRow'
  <2> HIDE DEF lost
  <2>1. QED
    BY <1>moves, <1>5 DEF CurrentRow, NewLedgerRow, Leasable
<1>12. Artifacts'
  <2> HIDE DEF lost
  <2>1. artifact' = artifact /\ objects' = objects
    BY DEF RecoverExpired, LostJobs
  <2>2. QED
    BY <1>moves, <2>1 DEF Artifacts, Leasable
<1>13. Claims'
  <2> HIDE DEF lost
  <2>1. task' = task /\ objects' = objects
    BY DEF RecoverExpired, LostJobs
  <2>2. QED
    BY SMTT(40), <1>1, <1>9, <1>moves, <2>1 DEF Claims
<1>14. OneExecutionPerAttempt'
  BY DEF RecoverExpired, LostJobs, OneExecutionPerAttempt
<1>15. QED
  BY <1>7, <1>8, <1>10, <1>11, <1>12, <1>13, <1>14
-----------------------------------------------------------------------------
\* Every step of the system preserves the invariant.
LEMMA NextInv == Inv /\ [Next]_vars => Inv'
<1> SUFFICES ASSUME Inv, [Next]_vars PROVE Inv'
  OBVIOUS
<1>1. CASE User
  <2>1. ASSUME NEW R \in SUBSET Jobs, CreateBatch(R) PROVE Inv'
    BY <2>1, CreateBatchInv
  <2>2. ASSUME NEW B \in SUBSET Jobs, RetryFailedBatch(B) PROVE Inv'
    BY <2>2, RetryInv DEF RetryFailedBatch
  <2>3. ASSUME NEW j \in Jobs, RequestCancel(j) PROVE Inv'
    BY <2>3, RequestCancelInv
  <2>4. ASSUME NEW j \in Jobs, RetryJob(j) PROVE Inv'
    BY <2>4, RetryInv DEF RetryJob
  <2>5. QED
    BY <1>1, <2>1, <2>2, <2>3, <2>4 DEF User
<1>2. ASSUME NEW d \in Dispatchers, Dispatch(d) PROVE Inv'
  BY <1>2, RecoverExpiredInv, ClaimOutboxInv, PublishInv, MarkPublishedInv DEF Dispatch
<1>3. ASSUME NEW w \in Workers, Execute(w) PROVE Inv'
  BY <1>3, ProgressStepsInv, CheckCancellingInv, PutObjectInv, CommitInv, FailJobInv,
     CancelJobInv DEF Execute
<1>4. ASSUME NEW w \in Workers, RenderDone(w) \/ \E j \in Jobs : ReadEntry(w, j) PROVE Inv'
  BY <1>4, RenderDoneInv, ReadEntryInv
<1>5. CASE TimePasses
  BY <1>5, LeaseExpiresInv, OutboxTimeInv DEF TimePasses
<1>6. CASE Faulty
  BY <1>6, DispatcherCrashInv, StepErrorInv, WorkerCrashInv, StreamLossInv DEF Faulty
<1>7. CASE UNCHANGED vars
  <2>1. Types' /\ RowsPerAttempt' /\ DispatchRows' /\ CurrentRow' /\ Artifacts'
    BY <1>7 DEF Inv, Types, RowsPerAttempt, DispatchRows, CurrentRow, Artifacts, vars, dbVars,
       jobVars, streamVars, dispatchVars
  <2>2. Claims' /\ OneExecutionPerAttempt'
    BY <1>7 DEF Inv, Claims, OneExecutionPerAttempt, vars, dbVars, jobVars
  <2>3. QED
    BY <2>1, <2>2 DEF Inv
<1>8. QED
  BY <1>1, <1>2, <1>3, <1>4, <1>5, <1>6, <1>7 DEF Next

\* The inductive invariant Inv holds in every state: types, one attempt row
\* and one outbox row per attempt, artifacts of ended attempts, and claims that
\* two workers never share.
THEOREM Invariance == Spec => []Inv
  BY InitInv, NextInv, PTL DEF Spec

\* The steps that write neither the state of a job nor its lease.
LEMMA LeaseUntouched ==
  LeaseColumns /\ UNCHANGED <<state, owner, leased>> => LeaseColumns'
  BY DEF LeaseColumns

\* A job is put in the queue with its lease cleared, whatever it was before.
LEMMA LeaseEnqueue ==
  ASSUME Inv, LeaseColumns, NEW S \in SUBSET Jobs, NEW why, Enqueue(S, why)
  PROVE  LeaseColumns'
  BY DEF Inv, Types, LeaseColumns, Enqueue, Leasable

\* The API leaves no lease on a job that waits or is over.
LEMMA LeaseUser == Inv /\ LeaseColumns /\ User => LeaseColumns'
<1> SUFFICES ASSUME Inv, LeaseColumns, User PROVE LeaseColumns'
  OBVIOUS
<1>1. ASSUME NEW R \in SUBSET Jobs, CreateBatch(R) PROVE LeaseColumns'
  BY <1>1, LeaseEnqueue DEF CreateBatch
<1>2. ASSUME NEW S \in SUBSET Jobs, Retry(S) PROVE LeaseColumns'
  BY <1>2, LeaseEnqueue DEF Retry
<1>3. ASSUME NEW B \in SUBSET Jobs, RetryFailedBatch(B) PROVE LeaseColumns'
  BY <1>2, <1>3 DEF RetryFailedBatch, RetryableFailed
<1>4. ASSUME NEW j \in Jobs, RetryJob(j) PROVE LeaseColumns'
  BY <1>2, <1>4 DEF RetryJob
<1>5. ASSUME NEW j \in Jobs, RequestCancel(j) PROVE LeaseColumns'
  BY <1>5 DEF Inv, Types, LeaseColumns, RequestCancel, Leasable
<1>6. QED
  BY <1>1, <1>3, <1>4, <1>5 DEF User

\* The watchdog clears the owner of every lease that ran out.
LEMMA LeaseDispatch ==
  ASSUME Inv, LeaseColumns, NEW d \in Dispatchers, Dispatch(d)
  PROVE  LeaseColumns'
<1>1. CASE RecoverExpired(d)
  BY <1>1 DEF Inv, Types, LeaseColumns, RecoverExpired, LostJobs, Expired, Leasable
<1>2. CASE ClaimOutbox(d) \/ \E e \in todo[d] : Publish(d, e) \/ MarkPublished(d, e)
  BY <1>2, LeaseUntouched DEF ClaimOutbox, Publish, MarkPublished, dbVars, jobVars
<1>3. QED
  BY <1>1, <1>2 DEF Dispatch

\* A claim sets both columns, a heartbeat only goes on with them, and every end of an
\* execution clears them.
LEMMA LeaseWorker ==
  ASSUME Inv, LeaseColumns, NEW w \in Workers,
         Execute(w) \/ RenderDone(w) \/ \E j \in Jobs : ReadEntry(w, j)
  PROVE  LeaseColumns'
<1> DEFINE j == task[w].job
<1>1. ASSUME NEW next, UpdateProgress(w, next) PROVE LeaseColumns'
  BY <1>1 DEF Inv, Types, LeaseColumns, UpdateProgress, Leasable
<1>2. CASE CheckCancelling(w) \/ PutObject(w) \/ RenderDone(w)
  BY <1>2, LeaseUntouched DEF CheckCancelling, PutObject, RenderDone, dbVars, jobVars
<1>3. CASE Commit(w) \/ FailJob(w) \/ CancelJob(w)
  <2>1. \/ UNCHANGED <<state, owner, leased>>
        \/ /\ Released(j)
           /\ \E s \in {"succeeded", "cancelled", "failed"} : state' = [state EXCEPT ![j] = s]
    BY <1>3 DEF Commit, FailJob, CancelJob
  <2>2. CASE /\ Released(j)
             /\ \E s \in {"succeeded", "cancelled", "failed"} : state' = [state EXCEPT ![j] = s]
    BY <2>2 DEF Inv, Types, LeaseColumns, Released, Leasable
  <2>3. QED
    BY <2>1, <2>2, LeaseUntouched
<1>4. ASSUME NEW i \in Jobs, ReadEntry(w, i) PROVE LeaseColumns'
  <2>1. IdOf[w] # NoId
    BY IdsAssumption
  <2>2. CASE Queued(i)
    <3>1. /\ state' = [state EXCEPT ![i] = "preparing"] /\ owner' = [owner EXCEPT ![i] = IdOf[w]]
          /\ leased' = [leased EXCEPT ![i] = TRUE]
      BY <1>4, <2>2 DEF ReadEntry
    <3>2. QED
      BY <2>1, <3>1 DEF Inv, Types, LeaseColumns, Leasable
  <2>3. CASE ~Queued(i)
    BY <1>4, <2>3, LeaseUntouched DEF ReadEntry
  <2>4. QED
    BY <2>2, <2>3
<1>5. QED
  BY <1>1, <1>2, <1>3, <1>4
     DEF Execute, Prepare, StartRender, Heartbeat, StartVerify, StartPersist

\* Every step keeps the columns of the leases together with the state.
LEMMA LeaseNext == Inv /\ LeaseColumns /\ [Next]_vars => LeaseColumns'
<1> SUFFICES ASSUME Inv, LeaseColumns, [Next]_vars PROVE LeaseColumns'
  OBVIOUS
<1>1. CASE TimePasses
  <2>1. ASSUME NEW j \in Jobs, LeaseExpires(j) PROVE LeaseColumns'
    BY <2>1 DEF Inv, Types, LeaseColumns, LeaseExpires
  <2>2. ASSUME NEW j \in Jobs, NEW k \in 1..Len(outbox[j]),
               DispatchLeaseExpires(j, k) \/ PublicationAges(j, k)
        PROVE  LeaseColumns'
    BY <2>2, LeaseUntouched DEF DispatchLeaseExpires, PublicationAges, jobVars
  <2>3. QED
    BY <1>1, <2>1, <2>2 DEF TimePasses
<1>2. CASE Faulty
  BY <1>2, LeaseUntouched DEF Faulty, DispatcherCrash, StepError, WorkerCrash, StreamLoss,
     dbVars, jobVars
<1>3. CASE UNCHANGED vars
  BY <1>3, LeaseUntouched DEF vars, dbVars, jobVars
<1>4. QED
  BY <1>1, <1>2, <1>3, LeaseUser, LeaseDispatch, LeaseWorker DEF Next

\* Every variable keeps its type, and a job's lease is set exactly while a worker has it:
\* none of the statements that end or queue a job leaves an owner behind.
THEOREM TypeCorrect == Spec => []TypeOK
<1>1. Init => Inv /\ LeaseColumns
  BY InitInv DEF Init, LeaseColumns, Leasable
<1>2. Inv /\ LeaseColumns /\ [Next]_vars => (Inv /\ LeaseColumns)'
  BY NextInv, LeaseNext
<1>3. Inv /\ LeaseColumns => TypeOK
  BY DEF Inv, TypeOK
<1>4. QED
  BY <1>1, <1>2, <1>3, PTL DEF Spec

\* No two worker processes execute the same attempt of a job, whatever ids
\* they were configured with and however often an entry is delivered.
THEOREM ExecutionIsExclusive == Spec => []OneExecutionPerAttempt
<1>1. Inv => OneExecutionPerAttempt
  BY DEF Inv
<1>2. QED
  BY <1>1, Invariance, PTL

\* The artifact of a job is the stored output of its last attempt, and a job
\* has one exactly when it succeeded.
THEOREM ArtifactIsFenced == Spec => []ArtifactIsOfLastAttempt
<1>1. Inv => ArtifactIsOfLastAttempt
  BY DEF Inv, Artifacts, CurrentRow, ArtifactIsOfLastAttempt
<1>2. QED
  BY <1>1, Invariance, PTL
-----------------------------------------------------------------------------
\* What one step may do to one job.
From(j, S, t) == state[j] \in S /\ state'[j] = t
SameAttempt(j) == attempt'[j] = attempt[j] /\ artifact'[j] = artifact[j]
NextAttempt(j) == attempt'[j] = attempt[j] + 1 /\ artifact'[j] = artifact[j]

Move(j) ==
  \/ state'[j] = state[j] /\ SameAttempt(j)
  \/ From(j, {"absent", "preparing", "running", "failed"}, "queued") /\ NextAttempt(j)
  \/ From(j, {"queued"}, "preparing") /\ SameAttempt(j)
  \/ From(j, {"preparing"}, "running") /\ SameAttempt(j)
  \/ From(j, {"queued", "cancelling"}, "cancelled") /\ SameAttempt(j)
  \/ From(j, {"preparing", "running"}, "cancelling") /\ SameAttempt(j)
  \/ From(j, {"preparing", "running"}, "failed") /\ SameAttempt(j)
  \/ /\ From(j, {"running"}, "succeeded")
     /\ attempt'[j] = attempt[j]
     /\ artifact'[j] = attempt[j]

\* Every step moves a job along the lifecycle or leaves it alone.
LEMMA StepMoves == Inv /\ [Next]_vars => \A j \in Jobs : Move(j)
<1> SUFFICES ASSUME Inv, [Next]_vars PROVE \A j \in Jobs : Move(j)
  OBVIOUS
<1> USE DEF Move, From, SameAttempt, NextAttempt
<1>1. ASSUME UNCHANGED <<state, attempt, artifact>> PROVE \A j \in Jobs : Move(j)
  BY <1>1
<1>2. ASSUME NEW S \in SUBSET Jobs, Enqueue(S, "none"), UNCHANGED artifact,
             \A j \in S : state[j] \in {"absent", "failed"}
      PROVE  \A j \in Jobs : Move(j)
  BY <1>2 DEF Enqueue
<1>3. CASE User
  <2>1. ASSUME NEW R \in SUBSET Jobs, CreateBatch(R) PROVE \A j \in Jobs : Move(j)
    <3> DEFINE new == {j \in R : state[j] # "succeeded"}
    <3>1. /\ Enqueue(new, "none") /\ UNCHANGED artifact /\ new \in SUBSET Jobs
          /\ \A j \in new : state[j] = "absent"
      BY <2>1 DEF CreateBatch, UniqueKeys
    <3> HIDE DEF new
    <3>2. QED
      BY <1>2, <3>1
  <2>2. ASSUME NEW S \in SUBSET RetryableFailed, Retry(S) PROVE \A j \in Jobs : Move(j)
    <3>1. /\ Enqueue(S, "none") /\ UNCHANGED artifact /\ S \in SUBSET Jobs
          /\ \A j \in S : state[j] = "failed"
      BY <2>2 DEF Retry, RetryableFailed
    <3>2. QED
      BY <1>2, <3>1
  <2>3. ASSUME NEW i \in Jobs, RequestCancel(i) PROVE \A j \in Jobs : Move(j)
    BY <2>3 DEF RequestCancel, Inv, Types
  <2>4. QED
    BY <1>3, <2>1, <2>2, <2>3 DEF User, RetryJob, RetryFailedBatch
<1>4. ASSUME NEW d \in Dispatchers, Dispatch(d) PROVE \A j \in Jobs : Move(j)
  <2>1. CASE RecoverExpired(d)
    <3>1. UNCHANGED artifact
      BY <2>1 DEF RecoverExpired, LostJobs
    <3>2. /\ state' = [j \in Jobs |->
              IF j \in Expired /\ state[j] # "cancelling" THEN "queued"
              ELSE IF j \in Expired THEN "cancelled" ELSE state[j]]
          /\ attempt' = [j \in Jobs |->
              IF j \in Expired /\ state[j] # "cancelling" THEN attempt[j] + 1 ELSE attempt[j]]
      BY <2>1 DEF RecoverExpired, LostJobs, Expired
    <3>3. \A j \in Expired : state[j] \in {"preparing", "running", "cancelling"}
      BY DEF Expired, Leasable
    <3>4. QED
      BY <3>1, <3>2, <3>3
  <2>2. CASE ClaimOutbox(d)
    BY <1>1, <2>2 DEF ClaimOutbox, jobVars
  <2>3. ASSUME NEW e \in todo[d], Publish(d, e) \/ MarkPublished(d, e)
        PROVE  \A j \in Jobs : Move(j)
    BY <1>1, <2>3 DEF Publish, MarkPublished, jobVars, dbVars
  <2>4. QED
    BY <1>4, <2>1, <2>2, <2>3 DEF Dispatch
<1>5. ASSUME NEW w \in Workers, Execute(w) PROVE \A j \in Jobs : Move(j)
  <2> DEFINE j == task[w].job
  <2>1. ASSUME NEW next \in Phases, UpdateProgress(w, next) PROVE \A i \in Jobs : Move(i)
    <3>1. /\ UNCHANGED <<attempt, artifact>>
          /\ \/ UNCHANGED state
             \/ /\ state[j] \in {"preparing", "running"}
                /\ state' = [state EXCEPT ![j] = "running"]
      BY <2>1 DEF UpdateProgress
    <3>2. QED
      BY <3>1 DEF Inv, Types
  <2>2. CASE CheckCancelling(w) \/ PutObject(w)
    BY <1>1, <2>2 DEF CheckCancelling, PutObject, dbVars, jobVars
  <2>3. CASE Commit(w)
    <3>1. j \in Jobs
      BY <2>3 DEF Commit, At, Inv, Claims
    <3>2. CASE Holds(w) /\ state[j] = "running" /\ leased[j]
      <4>1. /\ artifact' = [artifact EXCEPT ![j] = IF @ = 0 THEN task[w].attempt ELSE @]
            /\ state' = [state EXCEPT ![j] = "succeeded"]
            /\ attempt' = attempt
        BY <2>3, <3>2 DEF Commit
      <4>2. artifact[j] = 0 /\ task[w].attempt = attempt[j]
        BY <3>1, <3>2 DEF Holds, Inv, Artifacts
      <4>3. QED
        BY <3>1, <3>2, <4>1, <4>2 DEF Inv, Types
    <3>3. CASE ~(Holds(w) /\ state[j] = "running" /\ leased[j])
      BY <1>1, <2>3, <3>3 DEF Commit
    <3>4. QED
      BY <3>2, <3>3
  <2>4. CASE FailJob(w)
    <3>1. /\ UNCHANGED <<attempt, artifact>>
          /\ \/ UNCHANGED state
             \/ /\ state[j] \in Leasable
                /\ state' = [state EXCEPT ![j] =
                               IF state[j] = "cancelling" THEN "cancelled" ELSE "failed"]
      BY <2>4 DEF FailJob
    <3>2. QED
      BY <3>1 DEF Inv, Types, Leasable
  <2>5. CASE CancelJob(w)
    <3>1. /\ UNCHANGED <<attempt, artifact>>
          /\ \/ UNCHANGED state
             \/ state[j] = "cancelling" /\ state' = [state EXCEPT ![j] = "cancelled"]
      BY <2>5 DEF CancelJob
    <3>2. QED
      BY <3>1 DEF Inv, Types
  <2>6. QED
    BY <1>5, <2>1, <2>2, <2>3, <2>4, <2>5
       DEF Execute, Prepare, StartRender, Heartbeat, StartVerify, StartPersist, Phases, Executing
<1>6. ASSUME NEW w \in Workers, NEW i \in Jobs, ReadEntry(w, i) PROVE \A j \in Jobs : Move(j)
  <2>1. /\ UNCHANGED <<attempt, artifact>>
        /\ \/ UNCHANGED state
           \/ state[i] = "queued" /\ state' = [state EXCEPT ![i] = "preparing"]
    BY <1>6 DEF ReadEntry, Queued
  <2>2. QED
    BY <2>1 DEF Inv, Types
<1>7. ASSUME NEW w \in Workers, RenderDone(w) PROVE \A j \in Jobs : Move(j)
  BY <1>1, <1>7 DEF RenderDone, dbVars, jobVars
<1>8. CASE TimePasses \/ Faulty
  BY <1>1, <1>8 DEF TimePasses, LeaseExpires, DispatchLeaseExpires, PublicationAges, Faulty,
     DispatcherCrash, StepError, WorkerCrash, StreamLoss, dbVars, jobVars
<1>9. CASE UNCHANGED vars
  BY <1>1, <1>9 DEF vars, dbVars, jobVars
<1>10. QED
  BY <1>3, <1>4, <1>5, <1>6, <1>7, <1>8, <1>9 DEF Next

\* Succeeded and cancelled are final.
THEOREM TerminalStays == Spec => TerminalIsFinal
<1>1. Inv /\ [Next]_vars => [\A j \in Jobs : state[j] \in {"succeeded", "cancelled"} =>
                               /\ state'[j] = state[j]
                               /\ attempt'[j] = attempt[j]
                               /\ artifact'[j] = artifact[j]]_vars
  BY StepMoves DEF Move, From, SameAttempt
<1>2. QED
  BY <1>1, Invariance, PTL DEF Spec, TerminalIsFinal

\* A cancelling job can only become cancelled, under the same attempt.
THEOREM CancelStays == Spec => CancelIsHonoured
<1>1. Inv /\ [Next]_vars => [\A j \in Jobs : state[j] = "cancelling" =>
         state'[j] \in {"cancelling", "cancelled"} /\ attempt'[j] = attempt[j]]_vars
  BY StepMoves DEF Move, From, SameAttempt
<1>2. QED
  BY <1>1, Invariance, PTL DEF Spec, CancelIsHonoured

\* The job table implements the lifecycle of JobLifecycle.
THEOREM Refinement == Spec => ImplementsLifecycle
<1> USE DEF StatusOf
<1>1. Init => Lifecycle!Init
  BY DEF Init, Lifecycle!Init
<1>2. Inv /\ Inv' /\ [Next]_vars =>
        [Lifecycle!Next]_<<[j \in Jobs |-> StatusOf(state[j])], attempt, artifact>>
  <2> SUFFICES ASSUME Inv, Inv', [Next]_vars PROVE Lifecycle!Next
    OBVIOUS
  <2>1. \A j \in Jobs : state[j] \in States /\ state'[j] \in States
    BY DEF Inv, Types
  <2>2. \A s \in States : StatusOf(s) \in Lifecycle!Statuses
    BY DEF States, Lifecycle!Statuses
  <2>3. attempt' \in [Jobs -> Nat] /\ artifact' \in [Jobs -> Nat]
    BY DEF Inv, Types
  <2>4. ASSUME NEW j \in Jobs PROVE Lifecycle!JobStep(j) \/ Lifecycle!Same(j)
    BY StepMoves, <2>1 DEF Move, From, SameAttempt, NextAttempt, States, Lifecycle!JobStep,
       Lifecycle!Same, Lifecycle!Submit, Lifecycle!Start, Lifecycle!Lose, Lifecycle!Fail,
       Lifecycle!Retry, Lifecycle!Withdraw, Lifecycle!Stop, Lifecycle!Stopped,
       Lifecycle!Succeed, Lifecycle!Moves, Lifecycle!SameTry, Lifecycle!NewTry
  <2>5. QED
    BY <2>1, <2>2, <2>3, <2>4 DEF Lifecycle!Next
<1>3. QED
  BY <1>1, <1>2, Invariance, PTL DEF Spec, ImplementsLifecycle, Lifecycle!Spec
-----------------------------------------------------------------------------
\* The rows of superseded attempts are closed with the failure that ended them.
Superseded ==
  \A j \in Jobs : \A k \in 1..Len(ledger[j]) :
    k < attempt[j] => ledger[j][k].finished /\ ledger[j][k].failure # "none"

\* The row of the current attempt is open while it can still be executed, and
\* a failed job, the only one that can be retried, has closed it.
CurrentAttempt ==
  \A j \in Jobs :
    LET row == ledger[j][attempt[j]] IN
    /\ state[j] \in Leasable \cup {"queued"} => ~row.finished
    /\ state[j] = "failed" => row.finished /\ row.failure # "none"

\* The current attempt of a leased job belongs to the worker that executes it,
\* and that worker only ends it as cancelled when the cancellation stands.
\* cancel_job closes the row of its attempt without a fence: these two facts
\* are why the row it closes is never that of a job that goes on.
Ownership ==
  \A w \in Workers :
    task[w].pc # "idle" /\ task[w].attempt = attempt[task[w].job] =>
      /\ state[task[w].job] \in Leasable => owner[task[w].job] = IdOf[w]
      /\ task[w].pc = "cancelJob" => state[task[w].job] \in {"cancelling", "cancelled"}

History == Superseded /\ CurrentAttempt /\ Ownership


\* There is no history before the first job.
LEMMA InitHistory == Init => History
  BY DEF Init, History, Superseded, CurrentAttempt, Ownership, Idle, Leasable

\* Steps that write no attempt: a job may move on under the same attempt, owner
\* and rows, and a worker may drop its claim or go on with it.
LEMMA SameRows ==
  ASSUME Inv, History, UNCHANGED <<attempt, owner, ledger>>,
         \A j \in Jobs :
           \/ state'[j] = state[j]
           \/ state[j] = "queued" /\ state'[j] = "cancelled"
           \/ state[j] \in {"preparing", "running"} /\ state'[j] \in {"running", "cancelling"},
         \A w \in Workers : task'[w].pc # "idle" =>
           /\ task[w].pc # "idle"
           /\ task'[w].job = task[w].job
           /\ task'[w].attempt = task[w].attempt
           /\ \/ task'[w].pc # "cancelJob"
              \/ task[w].pc = "cancelJob"
              \/ state[task[w].job] = "cancelling"
  PROVE  History'
<1>1. Superseded'
  BY DEF History, Superseded
<1>2. CurrentAttempt'
  BY DEF History, CurrentAttempt, Leasable
<1>3. Ownership'
  <2> SUFFICES ASSUME NEW w \in Workers, task'[w].pc # "idle",
                      task'[w].attempt = attempt'[task'[w].job]
               PROVE  /\ state'[task'[w].job] \in Leasable => owner'[task'[w].job] = IdOf[w]
                      /\ task'[w].pc = "cancelJob" =>
                           state'[task'[w].job] \in {"cancelling", "cancelled"}
    BY DEF Ownership
  <2> DEFINE j == task[w].job
  <2>1. /\ task[w].pc # "idle" /\ task[w].attempt = attempt[j] /\ task'[w].job = j
        /\ \/ task'[w].pc # "cancelJob"
           \/ task[w].pc = "cancelJob"
           \/ state[j] = "cancelling"
    OBVIOUS
  <2>2. j \in Jobs
    BY <2>1 DEF Inv, Claims
  <2>3. /\ state[j] \in Leasable => owner[j] = IdOf[w]
        /\ task[w].pc = "cancelJob" => state[j] \in {"cancelling", "cancelled"}
    BY <2>1 DEF History, Ownership
  <2>4. \/ state'[j] = state[j]
        \/ state[j] = "queued" /\ state'[j] = "cancelled"
        \/ state[j] \in {"preparing", "running"} /\ state'[j] \in {"running", "cancelling"}
    BY <2>2
  <2>5. QED
    BY <2>1, <2>3, <2>4 DEF Leasable
<1>4. QED
  BY <1>1, <1>2, <1>3 DEF History

\* Steps that start a new attempt of some jobs and may end a cancelling one.
LEMMA NewRows ==
  ASSUME Inv, History, UNCHANGED task,
         \A j \in Jobs :
           \/ /\ state'[j] = state[j] /\ attempt'[j] = attempt[j]
              /\ owner'[j] = owner[j] /\ ledger'[j] = ledger[j]
           \/ /\ state[j] = "cancelling" /\ state'[j] = "cancelled"
              /\ attempt'[j] = attempt[j]
              /\ Len(ledger'[j]) = Len(ledger[j])
              /\ \A k \in 1..Len(ledger[j]) : k < attempt[j] => ledger'[j][k] = ledger[j][k]
           \/ /\ state'[j] = "queued" /\ attempt'[j] = attempt[j] + 1
              /\ Len(ledger'[j]) = Len(ledger[j]) + 1
              /\ ledger'[j][attempt[j] + 1] = NewLedgerRow
              /\ \A k \in 1..Len(ledger[j]) : k < attempt[j] => ledger'[j][k] = ledger[j][k]
              /\ attempt[j] # 0 => /\ ledger'[j][attempt[j]].finished
                                   /\ ledger'[j][attempt[j]].failure # "none"
  PROVE  History'
<1>1. \A j \in Jobs : attempt[j] \in Nat /\ Len(ledger[j]) = attempt[j]
  BY DEF Inv, Types, RowsPerAttempt
<1>2. Superseded'
  <2> SUFFICES ASSUME NEW j \in Jobs, NEW k \in 1..Len(ledger'[j]), k < attempt'[j]
               PROVE  ledger'[j][k].finished /\ ledger'[j][k].failure # "none"
    BY DEF Superseded
  <2>1. k \in 1..Len(ledger[j]) /\ k < attempt[j] =>
          ledger[j][k].finished /\ ledger[j][k].failure # "none"
    BY DEF History, Superseded
  <2>2. QED
    BY SMTT(40), <1>1, <2>1
<1>3. CurrentAttempt'
  BY DEF History, CurrentAttempt, NewLedgerRow, Leasable
<1>4. Ownership'
  <2> SUFFICES ASSUME NEW w \in Workers, task[w].pc # "idle",
                      task[w].attempt = attempt'[task[w].job]
               PROVE  /\ state'[task[w].job] \in Leasable => owner'[task[w].job] = IdOf[w]
                      /\ task[w].pc = "cancelJob" =>
                           state'[task[w].job] \in {"cancelling", "cancelled"}
    BY DEF Ownership
  <2> DEFINE j == task[w].job
  <2>1. j \in Jobs /\ task[w].attempt \in 1..attempt[j]
    BY DEF Inv, Claims
  <2>2. attempt'[j] = attempt[j]
    BY <1>1, <2>1
  <2>3. /\ state[j] \in Leasable => owner[j] = IdOf[w]
        /\ task[w].pc = "cancelJob" => state[j] \in {"cancelling", "cancelled"}
    BY <2>2 DEF History, Ownership
  <2>4. QED
    BY <1>1, <2>1, <2>2, <2>3 DEF Leasable
<1>5. QED
  BY <1>2, <1>3, <1>4 DEF History

\* Phase changes keep what a worker claims.
LEMMA GotoHistory ==
  ASSUME Inv, History, NEW w \in Workers, NEW pc \in Phases \ {"idle"}, Goto(w, pc),
         task[w].pc # "idle",
         pc = "cancelJob" => state[task[w].job] = "cancelling",
         UNCHANGED <<attempt, owner, ledger>>,
         \A j \in Jobs :
           \/ state'[j] = state[j]
           \/ state[j] \in {"preparing", "running"} /\ state'[j] = "running"
  PROVE  History'
<1>1. /\ task'[w].pc = pc
      /\ \A v \in Workers : /\ task'[v].job = task[v].job
                            /\ task'[v].attempt = task[v].attempt
                            /\ v # w => task'[v].pc = task[v].pc
  BY GotoTask DEF Inv, Types
<1>2. \A v \in Workers : task'[v].pc # "idle" =>
        /\ task[v].pc # "idle"
        /\ task'[v].job = task[v].job
        /\ task'[v].attempt = task[v].attempt
        /\ \/ task'[v].pc # "cancelJob"
           \/ task[v].pc = "cancelJob"
           \/ state[task[v].job] = "cancelling"
  BY <1>1
<1>3. \A j \in Jobs :
        \/ state'[j] = state[j]
        \/ state[j] = "queued" /\ state'[j] = "cancelled"
        \/ state[j] \in {"preparing", "running"} /\ state'[j] \in {"running", "cancelling"}
  OBVIOUS
<1>4. QED
  BY <1>2, <1>3, SameRows

\* The steps of a worker that write no attempt row.
LEMMA WorkerMovesHistory ==
  ASSUME Inv, History, NEW w \in Workers,
         \/ Prepare(w) \/ StartRender(w) \/ Heartbeat(w) \/ StartVerify(w) \/ StartPersist(w)
         \/ CheckCancelling(w) \/ PutObject(w) \/ RenderDone(w) \/ StepError(w)
  PROVE  History'
<1> DEFINE j == task[w].job
<1> USE DEF dbVars, jobVars
<1>1. ASSUME NEW next \in Executing \ {"cancelJob"}, UpdateProgress(w, next),
             task[w].pc # "idle"
      PROVE  History'
  <2>1. PICK pc \in {next, "failing"} : Goto(w, pc)
    BY <1>1 DEF UpdateProgress
  <2>2. \A i \in Jobs : \/ state'[i] = state[i]
                        \/ state[i] \in {"preparing", "running"} /\ state'[i] = "running"
    BY <1>1 DEF UpdateProgress, Inv, Types
  <2>3. pc \in Phases \ {"idle"} /\ pc # "cancelJob"
    BY <1>1 DEF Phases, Executing
  <2>4. UNCHANGED <<attempt, owner, ledger>>
    BY <1>1 DEF UpdateProgress
  <2>5. QED
    BY <1>1, <2>1, <2>2, <2>3, <2>4, GotoHistory
<1>2. CASE CheckCancelling(w)
  <2>1. PICK pc \in {"cancelJob", "rendering", "failing", "heartbeat", "putting"} :
          /\ Goto(w, pc)
          /\ task[w].pc # "idle"
          /\ pc = "cancelJob" => state[j] = "cancelling"
    BY <1>2 DEF CheckCancelling, At
  <2>2. pc \in Phases \ {"idle"} /\ UNCHANGED <<state, attempt, owner, ledger>>
    BY <1>2 DEF CheckCancelling, Phases, Executing
  <2>3. QED
    BY <2>1, <2>2, GotoHistory
<1>3. CASE PutObject(w) \/ RenderDone(w) \/ StepError(w)
  <2>1. PICK pc \in {"persisting", "failing", "verifying"} :
          Goto(w, pc) /\ task[w].pc # "idle"
    BY <1>3 DEF PutObject, RenderDone, StepError, At, Executing
  <2>2. /\ pc \in Phases \ {"idle"} /\ pc # "cancelJob"
        /\ UNCHANGED <<state, attempt, owner, ledger>>
    BY <1>3 DEF PutObject, RenderDone, StepError, Phases, Executing
  <2>3. QED
    BY <2>1, <2>2, GotoHistory
<1>4. QED
  BY <1>1, <1>2, <1>3
     DEF Prepare, StartRender, Heartbeat, StartVerify, StartPersist, At, Executing

\* The steps that touch neither attempts nor claims, and a crash.
LEMMA QuietHistory ==
  ASSUME Inv, History, UNCHANGED <<state, attempt, owner, ledger>>,
         \/ UNCHANGED task
         \/ \E w \in Workers : Finish(w)
  PROVE  History'
<1>1. \A v \in Workers : task'[v].pc # "idle" => task'[v] = task[v]
  BY FinishTask DEF Inv, Types
<1>2. \A v \in Workers : task'[v].pc # "idle" =>
        /\ task[v].pc # "idle"
        /\ task'[v].job = task[v].job
        /\ task'[v].attempt = task[v].attempt
        /\ \/ task'[v].pc # "cancelJob"
           \/ task[v].pc = "cancelJob"
           \/ state[task[v].job] = "cancelling"
  BY <1>1
<1>3. \A j \in Jobs :
        \/ state'[j] = state[j]
        \/ state[j] = "queued" /\ state'[j] = "cancelled"
        \/ state[j] \in {"preparing", "running"} /\ state'[j] \in {"running", "cancelling"}
  OBVIOUS
<1>4. QED
  BY <1>2, <1>3, SameRows

\* A cancellation writes no attempt row.
LEMMA RequestCancelHistory ==
  ASSUME Inv, History, NEW j \in Jobs, RequestCancel(j)
  PROVE  History'
<1>1. \A i \in Jobs :
        \/ state'[i] = state[i]
        \/ state[i] = "queued" /\ state'[i] = "cancelled"
        \/ state[i] \in {"preparing", "running"} /\ state'[i] \in {"running", "cancelling"}
  BY DEF RequestCancel, Inv, Types
<1>2. UNCHANGED <<attempt, owner, ledger, task>>
  BY DEF RequestCancel
<1>3. QED
  BY <1>1, <1>2, SameRows

\* A retry starts an attempt of a job whose last one failed, a batch the first.
LEMMA EnqueueHistory ==
  ASSUME Inv, History, NEW S \in SUBSET Jobs, Enqueue(S, "none"), UNCHANGED task,
         \A j \in S : state[j] \in {"absent", "failed"}
  PROVE  History'
<1>1. \A j \in Jobs :
        /\ j \notin S => /\ state'[j] = state[j] /\ attempt'[j] = attempt[j]
                         /\ owner'[j] = owner[j] /\ ledger'[j] = ledger[j]
        /\ j \in S => /\ state'[j] = "queued" /\ attempt'[j] = attempt[j] + 1
                      /\ ledger'[j] = Append(ledger[j], NewLedgerRow)
  BY DEF Enqueue
<1>2. ASSUME NEW j \in S
      PROVE  /\ Len(ledger'[j]) = Len(ledger[j]) + 1
             /\ ledger'[j][attempt[j] + 1] = NewLedgerRow
             /\ \A k \in 1..Len(ledger[j]) : k < attempt[j] => ledger'[j][k] = ledger[j][k]
             /\ attempt[j] # 0 => /\ ledger'[j][attempt[j]].finished
                                  /\ ledger'[j][attempt[j]].failure # "none"
  <2>1. /\ attempt[j] \in Nat /\ Len(ledger[j]) = attempt[j] /\ ledger[j] \in Seq(LedgerRow)
        /\ attempt[j] = 0 <=> state[j] = "absent"
    BY DEF Inv, Types, RowsPerAttempt
  <2>2. /\ Len(Append(ledger[j], NewLedgerRow)) = Len(ledger[j]) + 1
        /\ Append(ledger[j], NewLedgerRow)[Len(ledger[j]) + 1] = NewLedgerRow
        /\ \A k \in 1..Len(ledger[j]) : Append(ledger[j], NewLedgerRow)[k] = ledger[j][k]
    BY <2>1, RowTypes, SeqAppend
  <2>3. state[j] = "failed" =>
          ledger[j][attempt[j]].finished /\ ledger[j][attempt[j]].failure # "none"
    BY DEF History, CurrentAttempt
  <2>4. ledger'[j] = Append(ledger[j], NewLedgerRow) /\ state[j] \in {"absent", "failed"}
    BY <1>1
  <2>5. /\ Len(ledger'[j]) = Len(ledger[j]) + 1
        /\ ledger'[j][attempt[j] + 1] = NewLedgerRow
        /\ \A k \in 1..Len(ledger[j]) : ledger'[j][k] = ledger[j][k]
    BY <2>1, <2>2, <2>4
  <2>6. attempt[j] # 0 => attempt[j] \in 1..Len(ledger[j]) /\ state[j] = "failed"
    BY <2>1, <2>4
  <2>7. QED
    BY <2>3, <2>5, <2>6
<1>3. QED
  BY <1>1, <1>2, NewRows

\* The watchdog closes the attempt it requeues with the reason.
LEMMA RecoverExpiredHistory ==
  ASSUME Inv, History, NEW d \in Dispatchers, RecoverExpired(d)
  PROVE  History'
<1> DEFINE lost == {j \in Expired : state[j] # "cancelling"}
           why(j) == IF j \in lost THEN "worker_lease_expired" ELSE "none"
           row(j) == Closed(ledger[j][attempt[j]], why(j))
           closed(j) == [ledger[j] EXCEPT ![attempt[j]] = row(j)]
<1>1. \A j \in Jobs : /\ attempt[j] \in Nat
                      /\ Len(ledger[j]) = attempt[j]
                      /\ ledger[j] \in Seq(LedgerRow)
  BY DEF Inv, Types, RowsPerAttempt
<1>2. \A j \in Expired : state[j] \in Leasable /\ j \in Jobs
  BY DEF Expired
<1>3. ASSUME NEW j \in Expired
      PROVE  /\ closed(j) \in Seq(LedgerRow)
             /\ Len(closed(j)) = Len(ledger[j])
             /\ attempt[j] \in 1..Len(ledger[j])
             /\ closed(j)[attempt[j]] = row(j)
             /\ \A k \in 1..Len(ledger[j]) : k < attempt[j] => closed(j)[k] = ledger[j][k]
  <2>1. j \in Jobs /\ state[j] \in Leasable
    BY <1>2
  <2>2. attempt[j] \in 1..Len(ledger[j])
    BY <1>1, <2>1 DEF Inv, RowsPerAttempt, Leasable
  <2>3. ledger[j][attempt[j]] \in LedgerRow
    BY <1>1, <2>1, <2>2
  <2>4. why(j) \in Failures
    BY DEF Failures
  <2>5. row(j) \in LedgerRow
    <3> HIDE DEF why
    <3>1. QED
      BY <2>3, <2>4 DEF Closed, LedgerRow
  <2> HIDE DEF row
  <2>6. QED
    BY <1>1, <2>1, <2>2, <2>5, SeqReplace
<1>4. /\ state' = [j \in Jobs |-> IF j \in lost THEN "queued"
                                  ELSE IF j \in Expired THEN "cancelled" ELSE state[j]]
      /\ attempt' = [j \in Jobs |-> IF j \in lost THEN attempt[j] + 1 ELSE attempt[j]]
      /\ owner' = [j \in Jobs |-> IF j \in Expired THEN NoId ELSE owner[j]]
      /\ ledger' = [j \in Jobs |->
           IF j \in lost THEN Append(closed(j), NewLedgerRow)
           ELSE IF j \in Expired THEN closed(j) ELSE ledger[j]]
      /\ UNCHANGED task
  BY DEF RecoverExpired, LostJobs
<1>5. ASSUME NEW j \in Jobs, j \notin Expired
      PROVE  /\ state'[j] = state[j] /\ attempt'[j] = attempt[j]
             /\ owner'[j] = owner[j] /\ ledger'[j] = ledger[j]
  <2> HIDE DEF closed
  <2>1. j \notin lost
    BY <1>5
  <2> HIDE DEF lost
  <2>2. QED
    BY <1>4, <1>5, <2>1
<1>6. ASSUME NEW j \in Jobs, j \in Expired, j \notin lost
      PROVE  /\ state[j] = "cancelling" /\ state'[j] = "cancelled"
             /\ attempt'[j] = attempt[j]
             /\ Len(ledger'[j]) = Len(ledger[j])
             /\ \A k \in 1..Len(ledger[j]) : k < attempt[j] => ledger'[j][k] = ledger[j][k]
  <2>1. state[j] = "cancelling"
    BY <1>6
  <2> HIDE DEF closed, lost
  <2>2. state'[j] = "cancelled" /\ attempt'[j] = attempt[j] /\ ledger'[j] = closed(j)
    BY <1>4, <1>6
  <2>3. QED
    BY <1>3, <1>6, <2>1, <2>2
<1>7. ASSUME NEW j \in Jobs, j \in lost
      PROVE  /\ state'[j] = "queued" /\ attempt'[j] = attempt[j] + 1
             /\ Len(ledger'[j]) = Len(ledger[j]) + 1
             /\ ledger'[j][attempt[j] + 1] = NewLedgerRow
             /\ \A k \in 1..Len(ledger[j]) : k < attempt[j] => ledger'[j][k] = ledger[j][k]
             /\ attempt[j] # 0 => /\ ledger'[j][attempt[j]].finished
                                  /\ ledger'[j][attempt[j]].failure # "none"
  <2>1. j \in Expired
    BY <1>7
  <2>2. row(j).finished /\ row(j).failure # "none"
    BY <1>7 DEF Closed
  <2> HIDE DEF closed, lost, row
  <2>3. state'[j] = "queued" /\ attempt'[j] = attempt[j] + 1
        /\ ledger'[j] = Append(closed(j), NewLedgerRow)
    BY <1>4, <1>7
  <2>4. /\ closed(j) \in Seq(LedgerRow)
        /\ Len(closed(j)) = Len(ledger[j])
        /\ attempt[j] \in 1..Len(ledger[j])
        /\ closed(j)[attempt[j]] = row(j)
        /\ \A k \in 1..Len(ledger[j]) : k < attempt[j] => closed(j)[k] = ledger[j][k]
    BY <1>3, <2>1
  <2>5. /\ Len(Append(closed(j), NewLedgerRow)) = Len(closed(j)) + 1
        /\ Append(closed(j), NewLedgerRow)[Len(closed(j)) + 1] = NewLedgerRow
        /\ \A k \in 1..Len(closed(j)) : Append(closed(j), NewLedgerRow)[k] = closed(j)[k]
    BY <2>4, RowTypes, SeqAppend
  <2>6. QED
    BY <1>1, <2>2, <2>3, <2>4, <2>5
<1> HIDE DEF lost
<1>8. QED
  BY <1>4, <1>5, <1>6, <1>7, NewRows

\* Claiming makes the worker the owner of an attempt nobody executes.
LEMMA ReadEntryHistory ==
  ASSUME Inv, History, NEW w \in Workers, NEW j \in Jobs, ReadEntry(w, j)
  PROVE  History'
<1>1. CASE state[j] = "queued"
  <2> DEFINE a == attempt[j]
             r == [worker |-> IdOf[w], finished |-> ledger[j][a].finished,
                   failure |-> ledger[j][a].failure]
  <2>1. a \in 1..Len(ledger[j]) /\ a \in Nat \ {0} /\ ledger[j] \in Seq(LedgerRow)
    BY <1>1 DEF Inv, RowsPerAttempt, Types
  <2>2. r \in LedgerRow
    <3>1. ledger[j][a] \in LedgerRow
      BY <2>1
    <3>2. QED
      BY <3>1, IdsAssumption DEF LedgerRow
  <2>3. ~r.finished
    BY <1>1 DEF History, CurrentAttempt
  <2>4. ledger' = [ledger EXCEPT ![j][a] = r] /\ attempt' = attempt
    BY <1>1 DEF ReadEntry, Queued
  <2>5. /\ \A i \in Jobs : Len(ledger'[i]) = Len(ledger[i])
        /\ ledger'[j][a] = r
        /\ \A i \in Jobs : i # j => ledger'[i] = ledger[i]
        /\ \A k \in 1..Len(ledger[j]) : k # a => ledger'[j][k] = ledger[j][k]
    <3> HIDE DEF r
    <3>1. QED
      BY <2>1, <2>2, <2>4, LedgerReplace DEF Inv, Types
  <2> HIDE DEF r
  <2>6. /\ \A i \in Jobs : i # j => state'[i] = state[i] /\ owner'[i] = owner[i]
        /\ state'[j] = "preparing" /\ owner'[j] = IdOf[w]
    BY <1>1 DEF ReadEntry, Queued, Inv, Types
  <2>7. /\ task'[w] = [pc |-> "preparing", job |-> j, attempt |-> a]
        /\ \A v \in Workers : v # w => task'[v] = task[v]
    BY <1>1 DEF ReadEntry, Queued, Inv, Types
  <2>8. Superseded'
    BY <2>1, <2>4, <2>5 DEF History, Superseded
  <2>9. CurrentAttempt'
    BY <2>3, <2>4, <2>5, <2>6 DEF History, CurrentAttempt
  <2>10. Ownership'
    <3>1. \A v \in Workers : task[v].pc # "idle" /\ task[v].job = j => task[v].attempt # a
      BY <1>1 DEF Inv, Claims
    <3>2. \A v \in Workers : task[v].pc # "idle" => task[v].job \in Jobs
      BY DEF Inv, Claims
    <3>3. QED
      BY <2>4, <2>6, <2>7, <3>1, <3>2 DEF History, Ownership
  <2>11. QED
    BY <2>8, <2>9, <2>10 DEF History
<1>2. CASE state[j] # "queued"
  BY <1>2, QuietHistory DEF ReadEntry, Queued
<1>3. QED
  BY <1>1, <1>2

\* Ending the current attempt closes its row and leaves the job where nobody
\* executes it.
LEMMA EndHistory ==
  ASSUME Inv, History, NEW w \in Workers, task[w].pc # "idle", Holds(w),
         NEW why \in Failures, CloseAttempt(w, why),
         state[task[w].job] \in Leasable,
         \A i \in Jobs : i # task[w].job => state'[i] = state[i] /\ owner'[i] = owner[i],
         \/ state'[task[w].job] = "succeeded" /\ state[task[w].job] = "running"
         \/ state'[task[w].job] = "failed" /\ state[task[w].job] # "cancelling" /\ why # "none"
         \/ state'[task[w].job] = "cancelled" /\ state[task[w].job] = "cancelling",
         UNCHANGED attempt,
         task'[w].pc # "cancelJob",
         task'[w].pc # "idle" =>
           task'[w].job = task[w].job /\ task'[w].attempt = task[w].attempt,
         \A v \in Workers : v # w => task'[v] = task[v]
  PROVE  History'
<1> DEFINE j == task[w].job
           a == task[w].attempt
<1>1. j \in Jobs /\ a \in 1..Len(ledger[j]) /\ a = attempt[j]
  BY DEF Inv, Claims, Holds, RowsPerAttempt
<1>2. /\ \A i \in Jobs : Len(ledger'[i]) = Len(ledger[i])
      /\ ledger'[j][a] = Closed(ledger[j][a], why)
      /\ \A i \in Jobs : i # j => ledger'[i] = ledger[i]
      /\ \A i \in 1..Len(ledger[j]) : i # a => ledger'[j][i] = ledger[j][i]
  BY CloseAttemptRow
<1>3. Superseded'
  BY SMTT(40), <1>1, <1>2 DEF History, Superseded
<1>4. CurrentAttempt'
  BY <1>1, <1>2 DEF History, CurrentAttempt, Closed, Leasable
<1>5. Ownership'
  <2> SUFFICES ASSUME NEW v \in Workers, task'[v].pc # "idle",
                      task'[v].attempt = attempt[task'[v].job]
               PROVE  /\ state'[task'[v].job] \in Leasable => owner'[task'[v].job] = IdOf[v]
                      /\ task'[v].pc = "cancelJob" =>
                           state'[task'[v].job] \in {"cancelling", "cancelled"}
    BY DEF Ownership
  <2>1. CASE v = w
    BY <2>1 DEF Leasable
  <2>2. CASE v # w
    <3>1. task'[v] = task[v] /\ task[v].job \in Jobs
      BY <2>2 DEF Inv, Claims
    <3>2. task[v].job # j
      BY <1>1, <2>2, <3>1 DEF Inv, OneExecutionPerAttempt
    <3>3. QED
      BY <3>1, <3>2 DEF History, Ownership
  <2>3. QED
    BY <2>1, <2>2
<1>6. QED
  BY <1>3, <1>4, <1>5 DEF History

\* Success and failure end the current attempt or write nothing.
LEMMA CommitHistory ==
  ASSUME Inv, History, NEW w \in Workers, Commit(w)
  PROVE  History'
<1> DEFINE j == task[w].job
           a == task[w].attempt
<1>1. task[w].pc = "committing" /\ j \in Jobs /\ a \in 1..Len(ledger[j])
  BY DEF Commit, At, Inv, Claims, RowsPerAttempt
<1>2. CASE Holds(w) /\ state[j] = "running" /\ leased[j]
  <2>1. /\ state' = [state EXCEPT ![j] = "succeeded"]
        /\ owner' = [owner EXCEPT ![j] = NoId]
        /\ CloseAttempt(w, OwnRow(w).failure)
        /\ Finish(w) \/ Goto(w, "failing")
        /\ UNCHANGED attempt
    BY <1>2 DEF Commit, Released
  <2>2. ledger[j][a] \in LedgerRow
    BY <1>1 DEF Inv, Types
  <2>3. OwnRow(w).failure \in Failures
    BY <2>2 DEF OwnRow, LedgerRow
  <2>4. /\ task'[w].pc # "cancelJob"
        /\ task'[w].pc # "idle" => task'[w].job = j /\ task'[w].attempt = a
        /\ \A v \in Workers : v # w => task'[v] = task[v]
    <3>1. CASE Finish(w)
      BY <3>1, FinishTask DEF Inv, Types
    <3>2. CASE Goto(w, "failing")
      BY <3>2, GotoTask DEF Inv, Types, Phases, Goto
    <3>3. QED
      BY <2>1, <3>1, <3>2
  <2>5. /\ \A i \in Jobs : i # j => state'[i] = state[i] /\ owner'[i] = owner[i]
        /\ state'[j] = "succeeded"
    BY <1>1, <2>1 DEF Inv, Types
  <2>6. state[j] \in Leasable
    BY <1>2 DEF Leasable
  <2>7. QED
    BY <1>1, <1>2, <2>1, <2>3, <2>4, <2>5, <2>6, EndHistory
<1>3. CASE ~(Holds(w) /\ state[j] = "running" /\ leased[j])
  <2>1. Goto(w, "failing") /\ UNCHANGED <<state, attempt, owner, ledger>>
    BY <1>3 DEF Commit
  <2>2. "failing" \in Phases \ {"idle"}
    BY DEF Phases
  <2>3. QED
    BY <1>1, <2>1, <2>2, GotoHistory
<1>4. QED
  BY <1>2, <1>3

\* A failure that is reported ends the current attempt or writes nothing.
LEMMA FailJobHistory ==
  ASSUME Inv, History, NEW w \in Workers, FailJob(w)
  PROVE  History'
<1> DEFINE j == task[w].job
<1>1. task[w].pc = "failing" /\ j \in Jobs /\ Finish(w) /\ UNCHANGED attempt
  BY DEF FailJob, At, Inv, Claims
<1>2. CASE Holds(w) /\ state[j] \in Leasable
  <2>1. /\ state' = [state EXCEPT ![j] =
             IF state[j] = "cancelling" THEN "cancelled" ELSE "failed"]
        /\ owner' = [owner EXCEPT ![j] = NoId]
        /\ CloseAttempt(w, "worker_failure")
    BY <1>2 DEF FailJob, Released
  <2>2. /\ \A i \in Jobs : i # j => state'[i] = state[i] /\ owner'[i] = owner[i]
        /\ state'[j] = IF state[j] = "cancelling" THEN "cancelled" ELSE "failed"
    BY <1>1, <2>1 DEF Inv, Types
  <2>3. task'[w].pc = "idle" /\ \A v \in Workers : v # w => task'[v] = task[v]
    BY <1>1, FinishTask DEF Inv, Types
  <2>4. "worker_failure" \in Failures
    BY DEF Failures
  <2>5. QED
    BY <1>1, <1>2, <2>1, <2>2, <2>3, <2>4, EndHistory
<1>3. CASE ~(Holds(w) /\ state[j] \in Leasable)
  <2>1. UNCHANGED <<state, attempt, owner, ledger>>
    BY <1>3 DEF FailJob
  <2>2. QED
    BY <1>1, <2>1, QuietHistory
<1>4. QED
  BY <1>2, <1>3

\* What cancel_job writes when the attempt is no longer the current one is the
\* row as it was.
LEMMA LateCancelIsIdle ==
  ASSUME Inv, History, NEW w \in Workers, CancelJob(w),
         attempt[task[w].job] # task[w].attempt
  PROVE  UNCHANGED dbVars
<1> DEFINE j == task[w].job
           a == task[w].attempt
<1>1. j \in Jobs /\ a \in 1..Len(ledger[j]) /\ a < attempt[j] /\ ledger[j] \in Seq(LedgerRow)
  <2>1. j \in Jobs /\ a \in 1..attempt[j]
    BY DEF CancelJob, At, Inv, Claims
  <2>2. /\ ledger \in [Jobs -> Seq(LedgerRow)]
        /\ attempt[j] \in Nat /\ Len(ledger[j]) = attempt[j] /\ attempt[j] # a
    BY <2>1 DEF Inv, Types, RowsPerAttempt
  <2>3. QED
    BY <2>1, <2>2
<1>2. ledger[j][a] \in LedgerRow
  BY <1>1
<1>3. ledger[j][a].finished
  BY <1>1 DEF History, Superseded
<1>4. Closed(ledger[j][a], ledger[j][a].failure) = ledger[j][a]
  BY <1>2, <1>3 DEF Closed, LedgerRow
<1>5. ledger' = [ledger EXCEPT ![j][a] = Closed(ledger[j][a], ledger[j][a].failure)]
  BY DEF CancelJob, CloseAttempt, OwnRow
<1>6. ledger' = ledger
  <2> DEFINE s == ledger[j]
  <2>1. ledger' = [ledger EXCEPT ![j] = [s EXCEPT ![a] = s[a]]]
    BY <1>4, <1>5
  <2>2. [s EXCEPT ![a] = s[a]] = s
    BY <1>1
  <2>3. ledger' = [ledger EXCEPT ![j] = s]
    BY <2>1, <2>2
  <2>4. QED
    BY <1>1, <2>3 DEF Inv, Types
<1>7. ~Holds(w)
  BY DEF Holds
<1>8. UNCHANGED <<state, owner, leased, attempt, failure, batchOf, outbox, artifact>>
  BY <1>7 DEF CancelJob
<1>9. QED
  BY <1>6, <1>8 DEF dbVars, jobVars

\* cancel_job ends a job that is cancelling, or closes the row of one that no
\* longer runs.
LEMMA CancelJobHistory ==
  ASSUME Inv, History, NEW w \in Workers, CancelJob(w)
  PROVE  History'
<1> DEFINE j == task[w].job
           a == task[w].attempt
           why == OwnRow(w).failure
<1>1. /\ task[w].pc = "cancelJob" /\ j \in Jobs /\ a \in 1..Len(ledger[j])
      /\ Finish(w) /\ UNCHANGED attempt /\ CloseAttempt(w, why)
  BY DEF CancelJob, At, Inv, Claims, RowsPerAttempt
<1>2. why \in Failures
  <2>1. ledger[j][a] \in LedgerRow
    BY <1>1 DEF Inv, Types
  <2>2. QED
    BY <2>1 DEF OwnRow, LedgerRow
<1>3. task'[w].pc = "idle" /\ \A v \in Workers : v # w => task'[v] = task[v]
  BY <1>1, FinishTask DEF Inv, Types
<1>4. CASE attempt[j] # a
  <2>1. UNCHANGED <<state, attempt, owner, ledger>>
    BY <1>4, LateCancelIsIdle DEF dbVars, jobVars
  <2>2. QED
    BY <1>1, <2>1, QuietHistory
<1>5. CASE attempt[j] = a /\ state[j] = "cancelling"
  <2>1. Holds(w) /\ state[j] \in Leasable
    BY <1>1, <1>5 DEF Holds, History, Ownership, Leasable
  <2>2. /\ state' = [state EXCEPT ![j] = "cancelled"]
        /\ owner' = [owner EXCEPT ![j] = NoId]
    BY <1>5, <2>1 DEF CancelJob, Released
  <2>3. /\ \A i \in Jobs : i # j => state'[i] = state[i] /\ owner'[i] = owner[i]
        /\ state'[j] = "cancelled"
    BY <1>1, <2>2 DEF Inv, Types
  <2> HIDE DEF why
  <2>4. QED
    BY <1>1, <1>2, <1>3, <1>5, <2>1, <2>3, EndHistory
<1>6. CASE attempt[j] = a /\ state[j] # "cancelling"
  <2>1. state[j] = "cancelled"
    BY <1>1, <1>6 DEF History, Ownership
  <2>2. UNCHANGED <<state, owner>>
    BY <1>6 DEF CancelJob
  <2> HIDE DEF why
  <2>3. /\ \A i \in Jobs : Len(ledger'[i]) = Len(ledger[i])
        /\ \A i \in Jobs : i # j => ledger'[i] = ledger[i]
        /\ \A i \in 1..Len(ledger[j]) : i # a => ledger'[j][i] = ledger[j][i]
    BY <1>1, <1>2, CloseAttemptRow
  <2>4. Superseded'
    BY <1>1, <1>6, <2>3 DEF History, Superseded
  <2>5. CurrentAttempt'
    BY <1>1, <2>1, <2>2, <2>3 DEF History, CurrentAttempt, Leasable
  <2>6. Ownership'
    BY <1>1, <1>3, <2>2 DEF History, Ownership
  <2>7. QED
    BY <2>4, <2>5, <2>6 DEF History
<1>7. QED
  BY <1>4, <1>5, <1>6

\* Every step keeps the history.
LEMMA NextHistory == Inv /\ History /\ [Next]_vars => History'
<1> SUFFICES ASSUME Inv, History, [Next]_vars PROVE History'
  OBVIOUS
<1> USE DEF dbVars, jobVars
<1>1. CASE User
  <2>1. ASSUME NEW R \in SUBSET Jobs, CreateBatch(R) PROVE History'
    <3> DEFINE new == {j \in R : state[j] # "succeeded"}
    <3>1. /\ Enqueue(new, "none") /\ UNCHANGED task /\ new \in SUBSET Jobs
          /\ \A j \in new : state[j] = "absent"
      BY <2>1 DEF CreateBatch, UniqueKeys
    <3> HIDE DEF new
    <3>2. QED
      BY <3>1, EnqueueHistory
  <2>2. ASSUME NEW S \in SUBSET RetryableFailed, Retry(S) PROVE History'
    <3>1. /\ Enqueue(S, "none") /\ UNCHANGED task /\ S \in SUBSET Jobs
          /\ \A j \in S : state[j] = "failed"
      BY <2>2 DEF Retry, RetryableFailed
    <3>2. QED
      BY <3>1, EnqueueHistory
  <2>3. QED
    BY <1>1, <2>1, <2>2, RequestCancelHistory DEF User, RetryJob, RetryFailedBatch
<1>2. ASSUME NEW d \in Dispatchers, Dispatch(d) PROVE History'
  <2>1. ASSUME ClaimOutbox(d) \/ \E e \in todo[d] : Publish(d, e) \/ MarkPublished(d, e)
        PROVE  UNCHANGED <<state, attempt, owner, ledger, task>>
    BY <2>1 DEF ClaimOutbox, Publish, MarkPublished
  <2>2. QED
    BY <1>2, <2>1, QuietHistory, RecoverExpiredHistory DEF Dispatch
<1>3. ASSUME NEW w \in Workers, Execute(w) \/ RenderDone(w) PROVE History'
  BY <1>3, WorkerMovesHistory, CommitHistory, FailJobHistory, CancelJobHistory DEF Execute
<1>4. ASSUME NEW w \in Workers, NEW j \in Jobs, ReadEntry(w, j) PROVE History'
  BY <1>4, ReadEntryHistory
<1>5. CASE TimePasses
  BY <1>5, QuietHistory DEF TimePasses, LeaseExpires, DispatchLeaseExpires, PublicationAges
<1>6. CASE Faulty
  <2>1. ASSUME NEW w \in Workers, StepError(w) PROVE History'
    BY <2>1, WorkerMovesHistory
  <2>2. ASSUME NEW w \in Workers, WorkerCrash(w) PROVE History'
    BY <2>2, QuietHistory DEF WorkerCrash
  <2>3. ASSUME (\E d \in Dispatchers : DispatcherCrash(d))
                 \/ \E kept \in SUBSET Workers : StreamLoss(kept)
        PROVE  History'
    BY <2>3, QuietHistory DEF DispatcherCrash, StreamLoss
  <2>4. QED
    BY <1>6, <2>1, <2>2, <2>3 DEF Faulty
<1>7. CASE UNCHANGED vars
  BY <1>7, QuietHistory DEF vars
<1>8. QED
  BY <1>1, <1>2, <1>3, <1>4, <1>5, <1>6, <1>7 DEF Next

\* The attempt history holds in every state.
LEMMA HistoryInvariance == Spec => [](Inv /\ History)
<1>1. Init => Inv /\ History
  BY InitInv, InitHistory
<1>2. Inv /\ History /\ [Next]_vars => (Inv /\ History)'
  BY NextInv, NextHistory
<1>3. QED
  BY <1>1, <1>2, PTL DEF Spec

\* A job has one job_attempts row and one outbox row per attempt, every
\* superseded attempt is closed with the failure that ended it, and the current
\* one is open exactly while the job is queued or leased.
THEOREM HistoryIsKept == Spec => []AttemptHistory
<1>1. Inv /\ History => AttemptHistory
  <2> SUFFICES ASSUME Inv, History, NEW j \in Jobs
               PROVE  /\ Len(ledger[j]) = attempt[j]
                      /\ Len(outbox[j]) = attempt[j]
                      /\ \A k \in 1..attempt[j] :
                           /\ k < attempt[j] =>
                                ledger[j][k].finished /\ ledger[j][k].failure # "none"
                           /\ k = attempt[j] =>
                                /\ state[j] \in Leasable \cup {"queued"} => ~ledger[j][k].finished
                                /\ state[j] \in {"succeeded", "failed"} => ledger[j][k].finished
    BY DEF AttemptHistory
  <2>1. Len(ledger[j]) = attempt[j] /\ Len(outbox[j]) = attempt[j]
    BY DEF Inv, RowsPerAttempt
  <2>2. QED
    BY <2>1 DEF Inv, CurrentRow, History, Superseded, CurrentAttempt
<1>2. QED
  BY <1>1, HistoryInvariance, PTL

\* Whatever a worker does after its attempt was superseded, it changes no row
\* of the database.
THEOREM StaleStepsAreIdle == Spec => StaleWorkerIsFenced
<1>1. Inv /\ History /\ [Next]_vars =>
        [\A w \in Workers :
           task[w].pc # "idle" /\ task'[w] # task[w] /\ attempt[task[w].job] # task[w].attempt
             => UNCHANGED dbVars]_vars
  <2> SUFFICES ASSUME Inv, History, Next, NEW w \in Workers, task[w].pc # "idle",
                      task'[w] # task[w], attempt[task[w].job] # task[w].attempt
               PROVE  UNCHANGED dbVars
    BY DEF vars
  <2>1. ~Holds(w)
    BY DEF Holds
  <2>2. ASSUME NEW v \in Workers, v # w PROVE \A r : task' # [task EXCEPT ![v] = r]
    BY <2>2 DEF Inv, Types
  <2>3. task' # task
    OBVIOUS
  <2>4. CASE User \/ TimePasses \/ \E d \in Dispatchers : Dispatch(d)
    BY <2>3, <2>4 DEF User, CreateBatch, RetryFailedBatch, RetryJob, Retry, RequestCancel,
       Dispatch, RecoverExpired, ClaimOutbox, Publish, MarkPublished, TimePasses,
       LeaseExpires, DispatchLeaseExpires, PublicationAges
  <2>5. CASE \E v \in Workers : Execute(v) \/ RenderDone(v) \/ \E j \in Jobs : ReadEntry(v, j)
    <3>1. PICK v \in Workers : Execute(v) \/ RenderDone(v) \/ \E j \in Jobs : ReadEntry(v, j)
      BY <2>5
    <3>2. \E r : task' = [task EXCEPT ![v] = r] \/ task' = task
      BY <3>1 DEF Execute, Prepare, StartRender, Heartbeat, StartVerify, StartPersist,
         UpdateProgress, CheckCancelling, PutObject, Commit, FailJob, CancelJob, RenderDone,
         ReadEntry, Goto, Finish
    <3>3. v = w
      BY <2>2, <2>3, <3>2
    <3>4. CASE CancelJob(w)
      BY <3>4, LateCancelIsIdle
    <3>5. CASE FailJob(w) \/ Commit(w)
      BY <2>1, <3>5 DEF FailJob, Commit, dbVars, jobVars
    <3>6. ASSUME NEW next, UpdateProgress(w, next) PROVE UNCHANGED dbVars
      BY <2>1, <3>6 DEF UpdateProgress, dbVars, jobVars
    <3>7. CASE CheckCancelling(w) \/ PutObject(w) \/ RenderDone(w)
      BY <3>7 DEF CheckCancelling, PutObject, RenderDone
    <3>8. ~ \E j \in Jobs : ReadEntry(w, j)
      BY DEF ReadEntry, At
    <3>9. QED
      BY <3>1, <3>3, <3>4, <3>5, <3>6, <3>7, <3>8
         DEF Execute, Prepare, StartRender, Heartbeat, StartVerify, StartPersist
  <2>6. CASE Faulty
    BY <2>6 DEF Faulty, DispatcherCrash, StepError, WorkerCrash, StreamLoss, dbVars
  <2>7. QED
    BY <2>4, <2>5, <2>6 DEF Next
<1>2. QED
  BY <1>1, HistoryInvariance, PTL DEF Spec, StaleWorkerIsFenced
=============================================================================
