---------------------------- MODULE LocalRender ----------------------------
(***************************************************************************)
(* The local render package: render-package-board.tsx queues jobs, runs    *)
(* one export worker at a time (export-worker.ts) and keeps rows and       *)
(* artifacts in IndexedDB (render-store.ts), files in OPFS.                *)
(*                                                                         *)
(* Each save opens the database anew and writes in the order of the calls; *)
(* what its caller does after the await is one step with the write.  The   *)
(* execution of a job works on a copy of its record, which the buttons do  *)
(* not see.  The rows of a batch, and those of a recovery, are written     *)
(* together; the user acts once the stored jobs are shown; storage does    *)
(* not fail; a failure is one that may be retried.                         *)
(***************************************************************************)
EXTENDS Naturals, Sequences, FiniteSets, SequencesExt

CONSTANTS
  Jobs, NoJob,
  MaxCommands,  \* bound: clicks on enqueue, cancel and retry
  MaxFaults     \* bound: reloads, worker errors and crashes

ASSUME RenderAssumption ==
  IsFiniteSet(Jobs) /\ NoJob \notin Jobs /\ MaxCommands \in Nat /\ MaxFaults \in Nat

VARIABLES
  disk,       \* render-jobs: a row per job
  stored,     \* render-artifacts: the jobs that have one
  file,       \* OPFS: the job's output
  mem,        \* recordsRef
  writes,     \* transactions that were requested, in order
  queue,      \* what executeQueue has still to look at
  exec,       \* executeRecord and its export worker
  msgs,       \* messages of the worker that the chain has not handled
  loaded,     \* recovery has installed the stored records
  edited,     \* the campaign has moved on from the jobs' revision
  overlapped, \* history: the user acted while a row was being saved
  commands, faults

vars == <<disk, stored, file, mem, writes, queue, exec, msgs, loaded, edited,
          overlapped, commands, faults>>

Active == {"preparing", "running"}
Terminal == {"succeeded", "failed", "cancelled"}
States == {"absent", "queued", "cancelling"} \cup Active \cup Terminal
MaxAttempt == 1 + MaxFaults   \* a retry needs a failure
Rows == [state : States, attempt : 0..MaxAttempt, stale : BOOLEAN]

NoRow == [state |-> "absent", attempt |-> 0, stale |-> FALSE]
Fresh == [state |-> "queued", attempt |-> 1, stale |-> FALSE]

NoExec == [job |-> NoJob, cur |-> NoRow, saves |-> {}, worker |-> "none", asked |-> FALSE]
Workers == {"none", "fresh", "writing", "written", "ended"}

-----------------------------------------------------------------------------
(* apply_render_event *)

To(r, s) == [r EXCEPT !.state = s]
Requeued(r) == [r EXCEPT !.state = "queued", !.attempt = @ + 1]

\* A recovery that forgets the job a cancel was asked for.
RecoveredActive(r) == IF r.state \in Active THEN Requeued(r) ELSE r
Recovered(r) == IF r.state \in Active \cup {"cancelling"} THEN Requeued(r) ELSE r

Marked(r) == IF edited /\ r.state # "absent" THEN [r EXCEPT !.stale = TRUE] ELSE r

-----------------------------------------------------------------------------
(* Saves and the queue. *)

Saved(ws, by, rows) == Append(ws, [by |-> by, rows |-> rows])
One(j, r) == [k \in {j} |-> r]
Put(table, rows) == [j \in Jobs |-> IF j \in DOMAIN rows THEN rows[j] ELSE table[j]]

InOrder(js) == SetToSeq(js)

\* executeQueue's loop: the next job of q whose record is queued is started, on a
\* copy of the record; without one the queue is idle.
StartNext(m, q, ws) ==
  LET due == {i \in DOMAIN q : m[q[i]].state = "queued"} IN
  \/ due = {} /\ exec' = NoExec /\ queue' = <<>> /\ writes' = ws
  \/ \E i \in due :
       LET j == q[i]
           r == To(m[j], "preparing")
       IN /\ \A k \in due : i <= k
          /\ exec' = [NoExec EXCEPT !.job = j, !.cur = r, !.saves = {"job"}]
          /\ queue' = SubSeq(q, i + 1, Len(q))
          /\ writes' = Saved(ws, "exec", One(j, r))

Running == exec.job # NoJob

\* executeQueue returns at once while it is running.
Execute(m, js, ws) ==
  IF Running THEN UNCHANGED <<exec, queue>> /\ writes' = ws
             ELSE StartNext(m, InOrder(js), ws)

-----------------------------------------------------------------------------
Init ==
  /\ disk = [j \in Jobs |-> NoRow] /\ stored = {} /\ file = [j \in Jobs |-> "none"]
  /\ mem = [j \in Jobs |-> NoRow] /\ writes = <<>> /\ queue = <<>> /\ exec = NoExec /\ msgs = <<>>
  /\ loaded = TRUE /\ edited = FALSE /\ overlapped = FALSE /\ commands = 0 /\ faults = 0

Idle == writes = <<>> /\ exec.saves = {}

\* A click: counted, and noted when it comes while a row is being saved, or asks
\* for an execution while the queue is running.
Click(overlap) ==
  /\ loaded /\ commands < MaxCommands /\ commands' = commands + 1
  /\ overlapped' = (overlapped \/ overlap \/ ~Idle)

\* enqueueSelected asks for the keys that succeeded before it writes.
Enqueue(js) ==
  /\ ~edited /\ Click(Running)
  /\ writes' = Saved(writes, "lookup", [j \in js |-> Fresh])
  /\ UNCHANGED <<disk, stored, file, mem, queue, exec, msgs, loaded, edited, faults>>

\* cancelJob: the worker is told; a job that has none is cancelled at once.
Cancel(j) ==
  /\ mem[j].state \in {"queued"} \cup Active /\ Click(FALSE)
  /\ LET told == exec.job = j /\ exec.worker # "none" IN
     /\ exec' = IF told THEN [exec EXCEPT !.asked = TRUE] ELSE exec
     /\ writes' = Saved(writes, "cancel",
                        One(j, To(mem[j], IF told THEN "cancelling" ELSE "cancelled")))
  /\ UNCHANGED <<disk, stored, file, mem, queue, msgs, loaded, edited, faults>>

RetriesEnded(r) == r.state \in Terminal   \* a retry of whatever has ended
Retryable(r) == r.state = "failed"
Retry(j) ==
  /\ Retryable(mem[j]) /\ Click(Running)
  /\ writes' = Saved(writes, "retry", One(j, Requeued(mem[j])))
  /\ UNCHANGED <<disk, stored, file, mem, queue, exec, msgs, loaded, edited, faults>>

\* An edit of the campaign: every record is marked stale, in memory and on disk.
Edit ==
  /\ loaded /\ ~edited /\ edited' = TRUE
  /\ overlapped' = (overlapped \/ ~Idle)
  /\ LET held == {j \in Jobs : mem[j].state # "absent"}
         rows == [j \in held |-> [mem[j] EXCEPT !.stale = TRUE]]
     IN /\ mem' = Put(mem, rows)
        /\ writes' = IF held = {} THEN writes ELSE Saved(writes, "stale", rows)
  /\ UNCHANGED <<disk, stored, file, queue, exec, msgs, loaded, commands, faults>>

-----------------------------------------------------------------------------
(* The transactions, in order, with what follows the await. *)

\* replaceRecord
Shown(e) == Put(mem, One(e.job, e.cur))

\* The execution has saved what it waits for: a start makes the worker, an end
\* lets the queue go on; a success first refreshes the artifacts.
Continue(e, ws) ==
  LET m == Shown(e) IN
  CASE e.saves # {} -> exec' = e /\ UNCHANGED <<mem, queue>> /\ writes' = ws
    [] e.saves = {} /\ e.worker = "none" ->
         exec' = [e EXCEPT !.worker = "fresh"] /\ mem' = m /\ UNCHANGED queue /\ writes' = ws
    [] e.saves = {} /\ e.worker # "none" /\ e.cur.state \in {"failed", "cancelled"} ->
         mem' = m /\ StartNext(m, queue, ws)
    [] OTHER -> exec' = e /\ mem' = m /\ UNCHANGED queue /\ writes' = ws

\* Keys that succeeded are skipped.
Skipped == {j \in Jobs : disk[j].state = "succeeded"}

Store ==
  LET w == Head(writes)  rest == Tail(writes)  m == Put(mem, w.rows) IN
  /\ writes # <<>>
  /\ disk' = IF w.by = "lookup" THEN disk ELSE Put(disk, w.rows)
  /\ loaded' = (loaded \/ w.by = "recover")
  /\ CASE w.by = "lookup" ->
            LET js == DOMAIN w.rows \ Skipped IN
            /\ writes' = IF js = {} THEN rest ELSE Saved(rest, "batch", [j \in js |-> Fresh])
            /\ UNCHANGED <<mem, queue, exec>>
       [] w.by = "cancel" -> mem' = m /\ writes' = rest /\ UNCHANGED <<queue, exec>>
       [] w.by \in {"batch", "retry"} -> mem' = m /\ Execute(m, DOMAIN w.rows, rest)
       [] w.by = "recover" -> mem' = w.rows /\ Execute(w.rows, Jobs, rest)
       [] w.by = "stale" -> writes' = rest /\ UNCHANGED <<mem, queue, exec>>
       [] w.by = "exec" -> Continue([exec EXCEPT !.saves = @ \ {"job"}], rest)
  /\ UNCHANGED <<stored, file, msgs, edited, overlapped, commands, faults>>

\* The artifact's row is another transaction, on another store.
StoreArtifact ==
  /\ "artifact" \in exec.saves
  /\ stored' = stored \cup {exec.job}
  /\ Continue([exec EXCEPT !.saves = @ \ {"artifact"}], writes)
  /\ UNCHANGED <<disk, file, msgs, loaded, edited, overlapped, commands, faults>>

\* A success is done when the artifacts were listed and copied.
Finish ==
  /\ Running /\ exec.cur.state = "succeeded" /\ exec.saves = {}
  /\ StartNext(mem, queue, writes)
  /\ UNCHANGED <<disk, stored, file, mem, msgs, loaded, edited, overlapped, commands, faults>>

\* One message of the worker, after the one before it was saved.
Handle ==
  /\ msgs # <<>> /\ exec.saves = {} /\ exec.cur.state \in Active
  /\ LET said == Head(msgs)
         r == To(exec.cur, CASE said = "progress" -> "running" [] OTHER -> said)
     IN /\ exec' = [exec EXCEPT !.cur = r,
                       !.saves = IF said = "succeeded" THEN {"job", "artifact"} ELSE {"job"}]
        /\ writes' = Saved(writes, "exec", One(exec.job, r))
  /\ msgs' = IF Head(msgs) = "progress" THEN Tail(msgs) ELSE <<>>
  /\ UNCHANGED <<disk, stored, file, mem, queue, loaded, edited, overlapped, commands, faults>>

-----------------------------------------------------------------------------
(* The export worker. *)

Says(said) == msgs' = Append(msgs, said)
At(w) == Running /\ exec.worker = w
Step(w, content) ==
  exec' = [exec EXCEPT !.worker = w] /\ file' = [file EXCEPT ![exec.job] = content]

WorkerKeeps == UNCHANGED <<disk, stored, mem, writes, queue, loaded, edited, overlapped, commands>>

\* The old output is removed and a new file opened.
Open == At("fresh") /\ Step("writing", "partial") /\ UNCHANGED <<msgs, faults>> /\ WorkerKeeps

Progress ==
  /\ At("writing") /\ msgs = <<>> /\ exec.cur.state \in Active
  /\ Says("progress") /\ UNCHANGED <<exec, file, faults>> /\ WorkerKeeps

\* The muxer closes the file and it is hashed; only then is success reported.
Finalize == At("writing") /\ Step("written", "whole") /\ UNCHANGED <<msgs, faults>> /\ WorkerKeeps

Muxing == At("writing") \/ At("written")   \* success is reported before the file is closed
Verified == At("written")
Report ==
  /\ Verified /\ Step("ended", file[exec.job]) /\ Says("succeeded")
  /\ UNCHANGED faults /\ WorkerKeeps

\* The flag is looked at between frames; the output is removed first.
Stop ==
  /\ At("writing") /\ exec.asked /\ Step("ended", "none") /\ Says("cancelled")
  /\ UNCHANGED faults /\ WorkerKeeps

Fault == faults < MaxFaults /\ faults' = faults + 1

\* A render that fails removes its output; a worker that dies leaves it.
Fail ==
  /\ \E w \in {"fresh", "writing", "written"} : At(w)
  /\ \E left \in {"none", file[exec.job]} : Step("ended", left)
  /\ Says("failed") /\ Fault /\ WorkerKeeps

\* The page is reloaded: what was not committed is gone, the worker with it.
Reload ==
  /\ Fault /\ loaded' = FALSE
  /\ mem' = [j \in Jobs |-> NoRow] /\ exec' = NoExec /\ queue' = <<>> /\ msgs' = <<>>
  /\ writes' = <<>>
  /\ UNCHANGED <<disk, stored, file, edited, overlapped, commands>>

\* The board opens: it lists the rows, requeues what was under way, and marks what
\* is stale.
Recover ==
  /\ ~loaded /\ \A i \in DOMAIN writes : writes[i].by # "recover"
  /\ writes' = Saved(writes, "recover", [j \in Jobs |-> Marked(Recovered(disk[j]))])
  /\ UNCHANGED <<disk, stored, file, mem, queue, exec, msgs, loaded, edited,
                 overlapped, commands, faults>>

Works == Open \/ Finalize \/ Report
Next ==
  \/ \E js \in SUBSET Jobs \ {{}} : Enqueue(js)
  \/ \E j \in Jobs : Cancel(j) \/ Retry(j)
  \/ Edit \/ Store \/ StoreArtifact \/ Finish \/ Handle
  \/ Open \/ Progress \/ Finalize \/ Report \/ Stop \/ Fail
  \/ Reload \/ Recover

Spec == Init /\ [][Next]_vars

\* IndexedDB commits, the chain goes on, a worker renders to its end, and a page
\* that was reloaded reads its rows.
FairSpec ==
  /\ Spec
  /\ WF_vars(Store) /\ WF_vars(StoreArtifact) /\ WF_vars(Handle) /\ WF_vars(Finish)
  /\ WF_vars(Works) /\ WF_vars(Recover)

-----------------------------------------------------------------------------
\* Rows, records and the execution keep their types, the worker belongs to a job, and
\* there is a new attempt only after a failure or a reload.
TypeOK ==
  /\ disk \in [Jobs -> Rows] /\ mem \in [Jobs -> Rows] /\ stored \subseteq Jobs
  /\ file \in [Jobs -> {"none", "partial", "whole"}]
  /\ exec.worker \in Workers /\ (exec.job = NoJob => exec = NoExec)
  /\ exec.saves \subseteq {"job", "artifact"}

\* A row says succeeded only when the job's file is complete, whatever the user does
\* meanwhile: a second execution of the job first takes the row back, then the file.
StoredSuccessIsWhole ==
  \A j \in Jobs : disk[j].state = "succeeded" => file[j] = "whole"

\* Every job ends, also one that a reload interrupted while it ran or was being
\* cancelled, as long as no action of the user overlaps a save or asks for an
\* execution while another one runs.
JobsSettle ==
  \A j \in Jobs : disk[j].state \notin Terminal \cup {"absent"} /\ ~overlapped
                    ~> disk[j].state \in Terminal \/ overlapped

=============================================================================
