----------------------------- MODULE RenderJobs -----------------------------
(***************************************************************************)
(* Connected cloud rendering: the API handlers that create, cancel and     *)
(* retry jobs, the dispatcher that moves outbox rows to a Redis stream and *)
(* runs the watchdog, and the workers that claim a job, render it and      *)
(* commit its artifact.  Postgres rows are the durable truth; a step is    *)
(* one Postgres transaction, one Redis command or one object-store call.   *)
(*                                                                         *)
(* Time is abstract: a lease or a "within the last 10 seconds" window is a *)
(* Boolean that a step of its own turns off.  Every exceptional event      *)
(* (crash, lost stream, a step slower than its lease, a user's retry)      *)
(* spends one of MaxFaults, the only bound on the length of a behaviour.   *)
(***************************************************************************)
EXTENDS Naturals, Sequences, FiniteSets

CONSTANTS
  Jobs,         \* jobs of one tenant; a job stands for its idempotency key
  Workers,      \* worker processes
  Dispatchers,  \* dispatcher processes
  Ids,          \* values of VARIANTLAB_WORKER_ID
  IdOf,         \* the id each process was configured with: they may share one
  NoId,         \* NULL in a column that holds an id
  NoJob,        \* the job of an idle worker
  MaxUnread,    \* stream entries of one job counted before they saturate
  MaxFaults     \* exceptional events in one behaviour

ASSUME IdsAssumption ==
  /\ IdOf \in [Workers \cup Dispatchers -> Ids]
  /\ NoId \notin Ids
  /\ NoJob \notin Jobs
ASSUME BoundsAssumption == MaxUnread \in Nat \ {0} /\ MaxFaults \in Nat

VARIABLES
  state, attempt, owner, leased, failure,  \* jobs
  batchOf,    \* render_batches: the jobs created by the same request
  ledger,     \* job_attempts: the rows of a job, by attempt number
  outbox,     \* outbox_events: the rows of a job, by id
  artifact,   \* export_artifacts: at most one row per idempotency key
  objects,    \* object store: keys <<job, attempt>> of uploaded outputs
  stream,     \* Redis: entries in the stream, counted per job
  unread,     \* per worker, the entries after its last_id
  task,       \* per worker, the claimed job and where its execution stands
  loop,       \* per dispatcher, the next statement of its loop
  todo,       \* per dispatcher, the claimed outbox rows not yet marked
  sent,       \* per dispatcher, the row already added to the stream
  faults

jobVars == <<state, attempt, owner, leased, failure, batchOf>>
dbVars == <<jobVars, ledger, outbox, artifact>>
streamVars == <<stream, unread>>
dispatchVars == <<loop, todo, sent>>
vars == <<dbVars, objects, streamVars, task, dispatchVars, faults>>

States == {"absent", "queued", "preparing", "running", "cancelling",
           "succeeded", "failed", "cancelled"}
Leasable == {"preparing", "running", "cancelling"}
Failures == {"none", "worker_failure", "worker_lease_expired"}
Executing == {"preparing", "downloading", "beforeRender", "rendering",
              "heartbeat", "verifying", "beforePut", "putting", "persisting",
              "committing", "cancelJob"}
Phases == Executing \cup {"idle", "failing"}

LedgerRow == [worker: Ids \cup {NoId}, finished: BOOLEAN, failure: Failures]
OutboxRow == [published: {"no", "recent", "old"}, by: Ids \cup {NoId}, held: BOOLEAN]
Task == [pc: Phases, job: Jobs \cup {NoJob}, attempt: Nat]

NewLedgerRow == [worker |-> NoId, finished |-> FALSE, failure |-> "none"]
Closed(row, why) == [worker |-> row.worker, finished |-> TRUE, failure |-> why]
NewOutboxRow == [published |-> "no", by |-> NoId, held |-> FALSE]
Published(when) == [published |-> when, by |-> NoId, held |-> FALSE]
Idle == [pc |-> "idle", job |-> NoJob, attempt |-> 0]
NoEntries == [j \in Jobs |-> 0]

\* Types of the tables, the stream and the claims that processes hold in memory.
Types ==
  /\ state \in [Jobs -> States]
  /\ attempt \in [Jobs -> Nat]
  /\ owner \in [Jobs -> Ids \cup {NoId}]
  /\ leased \in [Jobs -> BOOLEAN]
  /\ failure \in [Jobs -> Failures]
  /\ batchOf \in [Jobs -> SUBSET Jobs]
  /\ ledger \in [Jobs -> Seq(LedgerRow)]
  /\ outbox \in [Jobs -> Seq(OutboxRow)]
  /\ artifact \in [Jobs -> Nat]
  /\ objects \subseteq Jobs \X Nat
  /\ stream \in [Jobs -> 0..MaxUnread]
  /\ unread \in [Workers -> [Jobs -> 0..MaxUnread]]
  /\ task \in [Workers -> Task]
  /\ loop \in [Dispatchers -> {"recover", "claim", "publish"}]
  /\ todo \in [Dispatchers -> SUBSET (Jobs \X Nat)]
  /\ sent \in [Dispatchers -> SUBSET (Jobs \X Nat)]
  /\ faults \in 0..MaxFaults

\* lease_owner and lease_expires_at are set while a worker has the job and at no other
\* time: the job is handed out and taken back by eight statements in three programs.
LeaseColumns ==
  \A j \in Jobs : /\ owner[j] # NoId <=> state[j] \in Leasable
                  /\ leased[j] => state[j] \in Leasable

\* Every column and every process keeps its type, and the two columns of a lease are
\* set and cleared together with the state they belong to.
TypeOK == Types /\ LeaseColumns

Init ==
  /\ state = [j \in Jobs |-> "absent"]
  /\ attempt = [j \in Jobs |-> 0]
  /\ owner = [j \in Jobs |-> NoId]
  /\ leased = [j \in Jobs |-> FALSE]
  /\ failure = [j \in Jobs |-> "none"]
  /\ batchOf = [j \in Jobs |-> {}]
  /\ ledger = [j \in Jobs |-> <<>>]
  /\ outbox = [j \in Jobs |-> <<>>]
  /\ artifact = [j \in Jobs |-> 0]
  /\ objects = {}
  /\ stream = NoEntries
  /\ unread = [w \in Workers |-> NoEntries]
  /\ task = [w \in Workers |-> Idle]
  /\ loop = [d \in Dispatchers |-> "recover"]
  /\ todo = [d \in Dispatchers |-> {}]
  /\ sent = [d \in Dispatchers |-> {}]
  /\ faults = 0

Fault == faults < MaxFaults /\ faults' = faults + 1

-----------------------------------------------------------------------------
\* The API

\* The update that puts a set of jobs back in the queue under a new attempt:
\* the jobs row, its next job_attempts row and one outbox event.
Enqueue(S, why) ==
  /\ state' = [j \in Jobs |-> IF j \in S THEN "queued" ELSE state[j]]
  /\ attempt' = [j \in Jobs |-> IF j \in S THEN attempt[j] + 1 ELSE attempt[j]]
  /\ owner' = [j \in Jobs |-> IF j \in S THEN NoId ELSE owner[j]]
  /\ leased' = [j \in Jobs |-> leased[j] /\ j \notin S]
  /\ failure' = [j \in Jobs |-> IF j \in S THEN why ELSE failure[j]]
  /\ ledger' = [j \in Jobs |->
       IF j \in S THEN Append(ledger[j], NewLedgerRow) ELSE ledger[j]]
  /\ outbox' = [j \in Jobs |->
       IF j \in S THEN Append(outbox[j], NewOutboxRow) ELSE outbox[j]]

\* Mutant of UniqueKeys: no constraint on idempotency keys.
AnyKeys(S) == \A j \in S : state[j] # "succeeded"

\* UNIQUE(tenant_id, idempotency_key)
UniqueKeys(S) == \A j \in S : state[j] = "absent"

\* A batch skips keys that succeeded; any other existing key breaks the
\* constraint and rolls everything back.
CreateBatch(R) ==
  LET new == {j \in R : state[j] # "succeeded"} IN
  /\ new # {}
  /\ UniqueKeys(new)
  /\ Enqueue(new, "none")
  /\ batchOf' = [j \in Jobs |-> IF j \in new THEN new ELSE batchOf[j]]
  /\ UNCHANGED <<artifact, objects, streamVars, task, dispatchVars, faults>>

RequestCancel(j) ==
  /\ state[j] \in {"queued", "preparing", "running"}
  /\ state' = [state EXCEPT ![j] = IF @ = "queued" THEN "cancelled" ELSE "cancelling"]
  /\ UNCHANGED <<attempt, owner, leased, failure, batchOf, ledger, outbox, artifact,
                 objects, streamVars, task, dispatchVars, faults>>

\* Mutant of RetryableFailed: cancelled jobs can be retried too.
RetryableEnded == {j \in Jobs : state[j] \in {"failed", "cancelled"}}

\* Every failure written with state 'failed' is retryable.
RetryableFailed == {j \in Jobs : state[j] = "failed" /\ failure[j] # "none"}

Retry(S) ==
  /\ S # {}
  /\ Enqueue(S, "none")
  /\ Fault
  /\ UNCHANGED <<batchOf, artifact, objects, streamVars, task, dispatchVars>>

RetryJob(j) == j \in RetryableFailed /\ Retry({j})

RetryFailedBatch(B) == Retry({j \in RetryableFailed : batchOf[j] = B})

-----------------------------------------------------------------------------
\* The dispatcher

Expired == {j \in Jobs : state[j] \in Leasable /\ ~leased[j]}

\* Mutant of LostJobs: the watchdog before migration 0005, which put an expired
\* job back in the queue even when its cancellation had been accepted.
AllExpired == Expired

LostJobs == {j \in Expired : state[j] # "cancelling"}

\* Mutant of Stranded: what is lost with the stream is not published again.
NeverStranded == {}

\* A queued job is stranded when every event of it was published more than 10
\* seconds ago.  (Its updated_at is older still: the transaction that queued
\* it also wrote an unpublished event.)
Stranded == {j \in Jobs : state[j] = "queued" /\
                \A k \in 1..Len(outbox[j]) : outbox[j][k].published = "old"}

\* variantlab_requeue_expired_jobs: one transaction, two loops.  The first
\* cancels or requeues every expired job, the second puts the newest event of
\* every stranded job back in the outbox.
RecoverExpired(d) ==
  LET lost == LostJobs
      closed(j) == [ledger[j] EXCEPT ![attempt[j]] =
        Closed(ledger[j][attempt[j]], IF j \in lost THEN "worker_lease_expired" ELSE "none")]
  IN
  /\ loop[d] = "recover"
  /\ state' = [j \in Jobs |-> IF j \in lost THEN "queued"
                              ELSE IF j \in Expired THEN "cancelled" ELSE state[j]]
  /\ attempt' = [j \in Jobs |-> IF j \in lost THEN attempt[j] + 1 ELSE attempt[j]]
  /\ owner' = [j \in Jobs |-> IF j \in Expired THEN NoId ELSE owner[j]]
  /\ failure' = [j \in Jobs |-> IF j \in lost THEN "worker_lease_expired"
                                ELSE IF j \in Expired THEN "none" ELSE failure[j]]
  /\ ledger' = [j \in Jobs |->
       IF j \in lost THEN Append(closed(j), NewLedgerRow)
       ELSE IF j \in Expired THEN closed(j) ELSE ledger[j]]
  /\ outbox' = [j \in Jobs |->
       IF j \in lost THEN Append(outbox[j], NewOutboxRow)
       ELSE IF j \in Stranded THEN [outbox[j] EXCEPT ![Len(outbox[j])] = NewOutboxRow]
       ELSE outbox[j]]
  /\ loop' = [loop EXCEPT ![d] = "claim"]
  /\ UNCHANGED <<leased, batchOf, artifact, objects, streamVars, task, todo, sent, faults>>

\* variantlab_claim_outbox: unpublished rows whose dispatch lease is not held.
Rows == UNION {{j} \X (1..Len(outbox[j])) : j \in Jobs}

Claimable == {e \in Rows : LET row == outbox[e[1]][e[2]]
                           IN row.published = "no" /\ ~row.held}

ClaimOutbox(d) ==
  /\ loop[d] = "claim"
  /\ todo' = [todo EXCEPT ![d] = Claimable]
  /\ outbox' = [j \in Jobs |-> [k \in 1..Len(outbox[j]) |->
       IF <<j, k>> \in Claimable
         THEN [published |-> "no", by |-> IdOf[d], held |-> TRUE]
         ELSE outbox[j][k]]]
  /\ loop' = [loop EXCEPT ![d] = IF Claimable = {} THEN "recover" ELSE "publish"]
  /\ UNCHANGED <<jobVars, ledger, artifact, objects, streamVars, task, sent, faults>>

Saturated(n) == IF n < MaxUnread THEN n + 1 ELSE n

\* XADD: every worker reads the whole stream, there is no consumer group.
Publish(d, e) ==
  /\ loop[d] = "publish"
  /\ e \in todo[d]
  /\ sent[d] = {}
  /\ sent' = [sent EXCEPT ![d] = {e}]
  /\ stream' = [stream EXCEPT ![e[1]] = Saturated(@)]
  /\ unread' = [w \in Workers |-> [unread[w] EXCEPT ![e[1]] = Saturated(@)]]
  /\ UNCHANGED <<dbVars, objects, task, loop, todo, faults>>

DispatcherRestarts(d) ==
  /\ loop' = [loop EXCEPT ![d] = "recover"]
  /\ todo' = [todo EXCEPT ![d] = {}]
  /\ sent' = [sent EXCEPT ![d] = {}]

\* variantlab_mark_outbox_published, guarded by the claimant and by
\* published_at IS NULL.  When it matches no row its NULL result fails to
\* decode, run returns the error and main starts it again.
MarkPublished(d, e) ==
  LET row == outbox[e[1]][e[2]]
      mine == row.by = IdOf[d] /\ row.published = "no"
  IN
  /\ sent[d] = {e}
  /\ \/ /\ mine
        /\ outbox' = [outbox EXCEPT ![e[1]][e[2]] = Published("recent")]
        /\ todo' = [todo EXCEPT ![d] = @ \ {e}]
        /\ sent' = [sent EXCEPT ![d] = {}]
        /\ loop' = [loop EXCEPT ![d] = IF todo[d] = {e} THEN "recover" ELSE "publish"]
     \/ ~mine /\ DispatcherRestarts(d) /\ UNCHANGED outbox
  /\ UNCHANGED <<jobVars, ledger, artifact, objects, streamVars, task, faults>>

\* A crash, or any Postgres or Redis error: claimed rows stay leased.
DispatcherCrash(d) ==
  /\ loop[d] # "recover"
  /\ DispatcherRestarts(d)
  /\ Fault
  /\ UNCHANGED <<dbVars, objects, streamVars, task>>

-----------------------------------------------------------------------------
\* The worker

At(w, pc) == task[w].pc = pc
Goto(w, pc) == task' = [task EXCEPT ![w].pc = pc]
Finish(w) == task' = [task EXCEPT ![w] = Idle]

\* Mutant of Holds: the fence without the attempt, which the worker id alone
\* cannot replace when two processes share it.
OwnerMatches(w) == owner[task[w].job] = IdOf[w]

\* The fence of every statement of an execution: lease_owner and attempt.
Holds(w) ==
  /\ owner[task[w].job] = IdOf[w]
  /\ attempt[task[w].job] = task[w].attempt

\* job_attempts is addressed by the attempt the worker executes.
OwnRow(w) == ledger[task[w].job][task[w].attempt]

\* Mutant of Released: an end that leaves the lease in the row.
Unreleased(j) == UNCHANGED <<owner, leased>>

\* lease_owner=NULL, lease_expires_at=NULL
Released(j) == owner' = [owner EXCEPT ![j] = NoId] /\ leased' = [leased EXCEPT ![j] = FALSE]

\* Mutant of CloseAttempt: the row stays open.
LeaveAttempt(w, why) == UNCHANGED ledger

CloseAttempt(w, why) ==
  ledger' = [ledger EXCEPT ![task[w].job][task[w].attempt] = Closed(OwnRow(w), why)]

\* Mutant of Queued: the claim also takes a job another worker is preparing.
Unfinished(j) == state[j] \in {"queued", "preparing"}

Queued(j) == state[j] = "queued"

\* The next stream entry.  Only a queued job is claimed; an entry of any
\* other job is a duplicate or late delivery and is skipped.
ReadEntry(w, j) ==
  /\ At(w, "idle")
  /\ unread[w][j] > 0
  /\ unread' = [unread EXCEPT ![w][j] = @ - 1]
  /\ IF Queued(j)
       THEN /\ state' = [state EXCEPT ![j] = "preparing"]
            /\ owner' = [owner EXCEPT ![j] = IdOf[w]]
            /\ leased' = [leased EXCEPT ![j] = TRUE]
            /\ LET row == ledger[j][attempt[j]] IN
               ledger' = [ledger EXCEPT ![j][attempt[j]] =
                 [worker |-> IdOf[w], finished |-> row.finished, failure |-> row.failure]]
            /\ task' = [task EXCEPT ![w] =
                 [pc |-> "preparing", job |-> j, attempt |-> attempt[j]]]
       ELSE UNCHANGED <<state, owner, leased, ledger, task>>
  /\ UNCHANGED <<attempt, failure, batchOf, outbox, artifact, objects, stream,
                 dispatchVars, faults>>

\* update_progress: renews the lease and sets state 'running', or fails.
UpdateProgress(w, next) ==
  LET j == task[w].job
      live == Holds(w) /\ state[j] \in {"preparing", "running"} /\ leased[j]
  IN
  /\ state' = IF live THEN [state EXCEPT ![j] = "running"] ELSE state
  /\ Goto(w, IF live THEN next ELSE "failing")
  /\ UNCHANGED <<attempt, owner, leased, failure, batchOf, ledger, outbox, artifact,
                 objects, streamVars, dispatchVars, faults>>

Prepare(w) == At(w, "preparing") /\ UpdateProgress(w, "downloading")
StartRender(w) == At(w, "downloading") /\ UpdateProgress(w, "beforeRender")
Heartbeat(w) == At(w, "heartbeat") /\ UpdateProgress(w, "rendering")
StartVerify(w) == At(w, "verifying") /\ UpdateProgress(w, "beforePut")
StartPersist(w) == At(w, "persisting") /\ UpdateProgress(w, "committing")

\* is_cancelling reads the row in a transaction of its own: the answer may be
\* stale by the time the worker acts on it.
CheckCancelling(w) ==
  LET cancelling == state[task[w].job] = "cancelling" IN
  /\ \/ At(w, "beforeRender") /\ Goto(w, IF cancelling THEN "cancelJob" ELSE "rendering")
     \/ At(w, "rendering") /\ Goto(w, IF cancelling THEN "failing" ELSE "heartbeat")
     \/ At(w, "beforePut") /\ Goto(w, IF cancelling THEN "cancelJob" ELSE "putting")
  /\ UNCHANGED <<dbVars, objects, streamVars, dispatchVars, faults>>

\* The native process exits with its output.
RenderDone(w) ==
  /\ At(w, "rendering")
  /\ Goto(w, "verifying")
  /\ UNCHANGED <<dbVars, objects, streamVars, dispatchVars, faults>>

\* The upload, under a key of this attempt only; its response may be lost.
PutObject(w) ==
  /\ At(w, "putting")
  /\ objects' = objects \cup {<<task[w].job, task[w].attempt>>}
  /\ \E pc \in {"persisting", "failing"} : Goto(w, pc)
  /\ UNCHANGED <<dbVars, streamVars, dispatchVars, faults>>

\* Download, checksum, native, timeout, provider or Postgres error.
StepError(w) ==
  /\ task[w].pc \in Executing
  /\ Goto(w, "failing")
  /\ UNCHANGED <<dbVars, objects, streamVars, dispatchVars, faults>>

\* The final transaction.  The acknowledgement of a commit may be lost, and
\* the worker then takes the error path with the job already succeeded.
Commit(w) ==
  LET j == task[w].job IN
  /\ At(w, "committing")
  /\ IF Holds(w) /\ state[j] = "running" /\ leased[j]
       THEN /\ artifact' = [artifact EXCEPT ![j] = IF @ = 0 THEN task[w].attempt ELSE @]
            /\ state' = [state EXCEPT ![j] = "succeeded"]
            /\ Released(j)
            /\ CloseAttempt(w, OwnRow(w).failure)
            /\ Finish(w) \/ Goto(w, "failing")
       ELSE Goto(w, "failing") /\ UNCHANGED <<artifact, state, owner, leased, ledger>>
  /\ UNCHANGED <<attempt, failure, batchOf, outbox, objects, streamVars, dispatchVars, faults>>

\* fail_job: a cancelling job ends cancelled, any other failed; a job this
\* attempt no longer holds is left alone.
FailJob(w) ==
  LET j == task[w].job
      cancelled == state[j] = "cancelling"
  IN
  /\ At(w, "failing")
  /\ IF Holds(w) /\ state[j] \in Leasable
       THEN /\ state' = [state EXCEPT ![j] = IF cancelled THEN "cancelled" ELSE "failed"]
            /\ failure' = [failure EXCEPT ![j] = IF cancelled THEN "none" ELSE "worker_failure"]
            /\ Released(j)
            /\ CloseAttempt(w, "worker_failure")
       ELSE UNCHANGED <<state, failure, owner, leased, ledger>>
  /\ Finish(w)
  /\ UNCHANGED <<attempt, batchOf, outbox, artifact, objects, streamVars, dispatchVars, faults>>

\* cancel_job: the job row is fenced, the job_attempts row is closed anyway.
CancelJob(w) ==
  LET j == task[w].job IN
  /\ At(w, "cancelJob")
  /\ IF Holds(w) /\ state[j] = "cancelling"
       THEN /\ state' = [state EXCEPT ![j] = "cancelled"]
            /\ Released(j)
       ELSE UNCHANGED <<state, owner, leased>>
  /\ CloseAttempt(w, OwnRow(w).failure)
  /\ Finish(w)
  /\ UNCHANGED <<attempt, failure, batchOf, outbox, artifact, objects, streamVars,
                 dispatchVars, faults>>

\* A crash, or an error run returns to main: the worker forgets its claim and
\* reads the stream from "0-0" again.
WorkerCrash(w) ==
  /\ Finish(w)
  /\ unread' = [unread EXCEPT ![w] = stream]
  /\ Fault
  /\ UNCHANGED <<dbVars, objects, stream, dispatchVars>>

-----------------------------------------------------------------------------
\* The environment

\* Redis loses the stream; entries a worker already fetched may survive.
StreamLoss(kept) ==
  /\ stream # NoEntries
  /\ stream' = NoEntries
  /\ unread' = [w \in Workers |-> IF w \in kept THEN unread[w] ELSE NoEntries]
  /\ Fault
  /\ UNCHANGED <<dbVars, objects, task, dispatchVars>>

Attended(j) == \E w \in Workers : task[w].job = j /\ Holds(w)

\* 45 seconds without a heartbeat.  Nothing renews the lease of a dead worker
\* or of a cancelling job; for a live worker it takes a slow step, such as a
\* long download or upload.
LeaseExpires(j) ==
  /\ state[j] \in Leasable
  /\ leased[j]
  /\ leased' = [leased EXCEPT ![j] = FALSE]
  /\ IF Attended(j) /\ state[j] # "cancelling" THEN Fault ELSE UNCHANGED faults
  /\ UNCHANGED <<state, attempt, owner, failure, batchOf, ledger, outbox, artifact,
                 objects, streamVars, task, dispatchVars>>

\* 30 seconds after variantlab_claim_outbox; a fault while the row is handled.
DispatchLeaseExpires(j, k) ==
  /\ outbox[j][k].held
  /\ outbox[j][k].published = "no"
  /\ outbox' = [outbox EXCEPT ![j][k] =
       [published |-> "no", by |-> outbox[j][k].by, held |-> FALSE]]
  /\ IF \E d \in Dispatchers : <<j, k>> \in todo[d] THEN Fault ELSE UNCHANGED faults
  /\ UNCHANGED <<jobVars, ledger, artifact, objects, streamVars, task, dispatchVars>>

\* 10 seconds after published_at.
PublicationAges(j, k) ==
  /\ outbox[j][k].published = "recent"
  /\ outbox' = [outbox EXCEPT ![j][k] = Published("old")]
  /\ UNCHANGED <<jobVars, ledger, artifact, objects, streamVars, task, dispatchVars, faults>>

-----------------------------------------------------------------------------
User == \/ \E R \in SUBSET Jobs : CreateBatch(R) \/ RetryFailedBatch(R)
        \/ \E j \in Jobs : RequestCancel(j) \/ RetryJob(j)

Dispatch(d) == \/ RecoverExpired(d)
               \/ ClaimOutbox(d)
               \/ \E e \in todo[d] : Publish(d, e) \/ MarkPublished(d, e)

Execute(w) == \/ Prepare(w) \/ StartRender(w) \/ Heartbeat(w) \/ StartVerify(w)
              \/ StartPersist(w) \/ CheckCancelling(w) \/ PutObject(w)
              \/ Commit(w) \/ FailJob(w) \/ CancelJob(w)

TimePasses == \E j \in Jobs :
  \/ LeaseExpires(j)
  \/ \E k \in 1..Len(outbox[j]) : DispatchLeaseExpires(j, k) \/ PublicationAges(j, k)

Faulty == \/ \E d \in Dispatchers : DispatcherCrash(d)
          \/ \E w \in Workers : StepError(w) \/ WorkerCrash(w)
          \/ \E kept \in SUBSET Workers : StreamLoss(kept)

Next == \/ User
        \/ \E d \in Dispatchers : Dispatch(d)
        \/ \E w \in Workers :
             Execute(w) \/ RenderDone(w) \/ \E j \in Jobs : ReadEntry(w, j)
        \/ TimePasses
        \/ Faulty

Spec == Init /\ [][Next]_vars

\* Every process keeps taking steps and time keeps passing.  A worker reads
\* the stream in order, so an entry is reached however often the worker is
\* busy; the native executor stops a render after 1800 seconds, so heartbeats
\* do not go on forever.  Nothing is assumed of the user or of faults.
Fairness ==
  /\ \A d \in Dispatchers : WF_vars(Dispatch(d))
  /\ \A w \in Workers : WF_vars(Execute(w)) /\ SF_vars(RenderDone(w))
  /\ \A w \in Workers, j \in Jobs : SF_vars(ReadEntry(w, j))
  /\ \A j \in Jobs :
       /\ WF_vars(LeaseExpires(j) /\ UNCHANGED faults)
       /\ WF_vars(\E k \in 1..Len(outbox[j]) :
                    DispatchLeaseExpires(j, k) /\ UNCHANGED faults)
       /\ WF_vars(\E k \in 1..Len(outbox[j]) : PublicationAges(j, k))

FairSpec == Spec /\ Fairness

-----------------------------------------------------------------------------
\* Properties

\* However often an entry is delivered and whichever worker ids coincide, no
\* two worker processes execute the same attempt of a job.
OneExecutionPerAttempt ==
  \A v, w \in Workers :
    v # w /\ task[v].pc # "idle" /\ task[w].pc # "idle" /\ task[v].job = task[w].job
      => task[v].attempt # task[w].attempt

\* A job has an artifact exactly when it succeeded, and it is the output that
\* the job's last attempt uploaded; that attempt is closed without a failure.
ArtifactIsOfLastAttempt ==
  \A j \in Jobs :
    /\ artifact[j] # 0 <=> state[j] = "succeeded"
    /\ artifact[j] # 0 =>
         /\ artifact[j] = attempt[j]
         /\ <<j, artifact[j]>> \in objects
         /\ LET row == ledger[j][artifact[j]]
            IN row.finished /\ row.failure = "none" /\ row.worker # NoId

\* job_attempts and outbox_events hold one row per attempt; a superseded
\* attempt is closed with the failure that ended it, the current one is open
\* while the job is queued or leased and closed once the job has an outcome
\* of its own.  (A job cancelled in the queue keeps its attempt open.)
AttemptHistory ==
  \A j \in Jobs :
    /\ Len(ledger[j]) = attempt[j]
    /\ Len(outbox[j]) = attempt[j]
    /\ \A k \in 1..attempt[j] :
         LET row == ledger[j][k] IN
         /\ k < attempt[j] => row.finished /\ row.failure # "none"
         /\ k = attempt[j] =>
              /\ state[j] \in Leasable \cup {"queued"} => ~row.finished
              /\ state[j] \in {"succeeded", "failed"} => row.finished

\* A succeeded or cancelled job never changes again: no late worker, duplicate
\* entry, watchdog pass or retry brings it back.
TerminalIsFinal ==
  [][\A j \in Jobs : state[j] \in {"succeeded", "cancelled"} =>
       /\ state'[j] = state[j]
       /\ attempt'[j] = attempt[j]
       /\ artifact'[j] = artifact[j]]_vars

\* Once a cancellation is accepted the job can only become cancelled, even if
\* its worker dies, finishes or fails first; it is never requeued.
CancelIsHonoured ==
  [][\A j \in Jobs : state[j] = "cancelling" =>
       state'[j] \in {"cancelling", "cancelled"} /\ attempt'[j] = attempt[j]]_vars

\* A worker whose attempt was superseded takes its remaining steps without
\* changing the job, the artifact, or what the attempt history says.
StaleWorkerIsFenced ==
  [][\A w \in Workers :
       task[w].pc # "idle" /\ task'[w] # task[w] /\ attempt[task[w].job] # task[w].attempt
         => UNCHANGED dbVars]_vars

\* A submitted job does not hang: with finitely many faults it ends succeeded,
\* failed or cancelled, through crashes, lost leases and a lost stream.
JobsSettle ==
  \A j \in Jobs : state[j] \in Leasable \cup {"queued"}
                    ~> state[j] \in {"succeeded", "failed", "cancelled"}

\* The jobs table implements the lifecycle the API promises: preparing and
\* running are one status, and the artifacts table names the winning attempt.
StatusOf(s) == CASE s = "queued" -> "waiting"
                 [] s \in {"preparing", "running"} -> "active"
                 [] s = "cancelling" -> "stopping"
                 [] OTHER -> s

Lifecycle == INSTANCE JobLifecycle WITH
  status <- [j \in Jobs |-> StatusOf(state[j])],
  tries <- attempt,
  result <- artifact

\* Every step of the service is a lifecycle step of each job or leaves the
\* job where it was.
ImplementsLifecycle == Lifecycle!Spec
=============================================================================
