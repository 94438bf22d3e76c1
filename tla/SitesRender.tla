---------------------------- MODULE SitesRender ----------------------------
(***************************************************************************)
(* The render jobs of the Sites backend (apps/sites/render.mjs): rows in   *)
(* D1, outputs in an R2 bucket, and native workers                         *)
(* (script/sites-native-worker.py) that pull jobs over HTTP.               *)
(*                                                                         *)
(* A request reads the row it is about, may touch the bucket, and writes   *)
(* the row with a compare-and-swap on its generation, which every write    *)
(* raises: here a request in flight remembers the row it read and is no    *)
(* longer fresh once somebody else wrote it.  Requests of which nothing    *)
(* but the swap can be observed (claim, cancel, submit) are one step.      *)
(* 'running' stands for preparing and running; the parts of an upload are  *)
(* one; a file is verified whole or not at all.                            *)
(***************************************************************************)
EXTENDS Naturals, FiniteSets

CONSTANTS
  Jobs, Workers,
  Requests,    \* slots for requests the server is handling
  NoJob, NoRequest, Nobody,
  MaxStalls,   \* bound: leases that run out under a worker at work, requests lost
  MaxRetries   \* bound: retries of a job by its user

ASSUME SitesAssumption ==
  /\ NoJob \notin Jobs /\ NoRequest \notin Requests /\ Nobody \notin Workers
  /\ MaxStalls \in Nat /\ MaxRetries \in Nat

VARIABLES
  row,      \* vl_render_jobs
  bucket,   \* per job and attempt, the multipart upload and the object it becomes
  req,      \* the requests being handled
  worker,   \* what each worker process is doing
  stalls, retries

vars == <<row, bucket, req, worker, stalls, retries>>

Attempts == 0..(1 + MaxStalls + MaxRetries)
States == {"absent", "queued", "running", "cancelling", "succeeded", "failed", "cancelled"}
Rows == [state : States, attempt : Attempts, lease : {"none", "live", "expired"},
         held : BOOLEAN,    \* token: a worker's claim
         upload : BOOLEAN, parts : BOOLEAN, artifact : Attempts]

WorkerKinds == {"heartbeat", "artifact", "parts", "complete", "fail"}
Kinds == WorkerKinds \cup {"reap", "retry"}
Request == [kind : Kinds, job : Jobs, worker : Workers \cup {Nobody}, token : Attempts,
            was : Rows, fresh : BOOLEAN, step : {"read", "touched"}]
ASSUME NoRequestAssumption == NoRequest \notin Request

Idle == [job |-> NoJob, attempt |-> 0, stage |-> "idle", waits |-> NoRequest]
Task == [job : Jobs \cup {NoJob}, attempt : Attempts, stage : {"idle", "rendering", "opened", "stored", "failing"},
         waits : Requests \cup {NoRequest}]

-----------------------------------------------------------------------------
(* What a request does to the row it read. *)

Queued(r) == [r EXCEPT !.state = "queued", !.attempt = @ + 1, !.lease = "none",
                       !.held = FALSE, !.upload = FALSE, !.parts = FALSE]
Cancelled(r) == [r EXCEPT !.state = "cancelled"]
Released(r) == [r EXCEPT !.lease = "none", !.held = FALSE]

\* A reaper that forgets a cancellation was asked for.
AlwaysRequeued(r) == Queued(r)
Reaped(r) == IF r.state = "cancelling" THEN Released(Cancelled(r)) ELSE Queued(r)

Beaten(r) == IF r.state = "cancelling" THEN Cancelled(r) ELSE [r EXCEPT !.lease = "live"]

CommittedUnnamed(r) == [r EXCEPT !.state = "succeeded", !.lease = "none"]  \* no artifact
Committed(r) == [r EXCEPT !.state = "succeeded", !.artifact = r.attempt, !.lease = "none"]

After(kind, r) ==
  CASE kind = "heartbeat" -> Beaten(r)
    [] kind = "artifact" -> [r EXCEPT !.upload = TRUE]
    [] kind = "parts" -> [r EXCEPT !.parts = TRUE]
    [] kind = "complete" -> Committed(r)
    [] kind = "fail" -> Released([r EXCEPT !.state = "failed"])
    [] kind = "reap" -> Reaped(r)
    [] kind = "retry" -> Queued(r)

\* Whether the server takes the request on, given the row and the attempt whose
\* token the worker sends.
Holds(r, n) == r.held /\ r.attempt = n /\ r.lease = "live"

\* The rows a claim reaps; a query that forgets the cancelling ones.
LostRunning(r) == r.state = "running" /\ r.lease = "expired"
Lost(r) == r.state \in {"running", "cancelling"} /\ r.lease = "expired"

Admitted(kind, r, n) ==
  CASE kind = "heartbeat" -> Holds(r, n) /\ r.state \in {"running", "cancelling"}
    [] kind = "artifact" -> Holds(r, n) /\ r.state = "running" /\ ~r.upload
    [] kind = "parts" -> Holds(r, n) /\ r.state = "running" /\ r.upload
    [] kind = "complete" -> Holds(r, n) /\ r.state = "running" /\ r.upload /\ r.parts
    [] kind = "fail" -> Holds(r, n) /\ r.state = "running"
    [] kind = "reap" -> Lost(r)
    [] kind = "retry" -> r.state = "failed"

-----------------------------------------------------------------------------
Init ==
  /\ row = [j \in Jobs |-> [state |-> "absent", attempt |-> 0, lease |-> "none", held |-> FALSE,
                            upload |-> FALSE, parts |-> FALSE, artifact |-> 0]]
  /\ bucket = [j \in Jobs |-> [n \in Attempts |-> "none"]]
  /\ req = [q \in Requests |-> NoRequest]
  /\ worker = [w \in Workers |-> Idle]
  /\ stalls = 0 /\ retries = 0

\* Every write of the row makes the requests that read it before out of date.
Overtaken(j, rs) ==
  [q \in Requests |-> IF rs[q] # NoRequest /\ rs[q].job = j
                      THEN [rs[q] EXCEPT !.fresh = FALSE] ELSE rs[q]]

Wrote(j, r, rs) == row' = [row EXCEPT ![j] = r] /\ req' = Overtaken(j, rs)

Stall == stalls < MaxStalls /\ stalls' = stalls + 1 /\ UNCHANGED retries
NoStall == UNCHANGED <<stalls, retries>>

\* POST batches: the guard, the batch and its jobs are written in one transaction;
\* the idempotency key is unique, so a job is made once.
Submit(j) ==
  /\ row[j].state = "absent"
  /\ Wrote(j, [row[j] EXCEPT !.state = "queued", !.attempt = 1], req)
  /\ UNCHANGED <<bucket, worker>> /\ NoStall

\* A queued job is cancelled at once, a running one when its worker hears of it.
Cancel(j) ==
  /\ row[j].state \in {"queued", "running"}
  /\ Wrote(j, [row[j] EXCEPT !.state = IF @ = "queued" THEN "cancelled" ELSE "cancelling"], req)
  /\ UNCHANGED <<bucket, worker>> /\ NoStall

\* The second half of a claim: one queued job, if it is still queued.
Claim(w, j) ==
  /\ worker[w] = Idle /\ row[j].state = "queued"
  /\ Wrote(j, [row[j] EXCEPT !.state = "running", !.lease = "live", !.held = TRUE], req)
  /\ worker' = [worker EXCEPT ![w] = [job |-> j, attempt |-> row[j].attempt,
                                      stage |-> "rendering", waits |-> NoRequest]]
  /\ UNCHANGED bucket /\ NoStall

-----------------------------------------------------------------------------
(* Requests that take several steps. *)

Begin(q, kind, j, w, token) ==
  /\ req[q] = NoRequest
  /\ req' = [req EXCEPT ![q] = [kind |-> kind, job |-> j, worker |-> w, token |-> token,
                                was |-> row[j], fresh |-> TRUE, step |-> "read"]]

\* The first half of a claim reads the expired rows and ends their attempts.
Reap(q, j) ==
  /\ \E w \in Workers : worker[w] = Idle
  /\ Admitted("reap", row[j], 0) /\ Begin(q, "reap", j, Nobody, 0)
  /\ UNCHANGED <<row, bucket, worker>> /\ NoStall

Retry(q, j) ==
  /\ retries < MaxRetries /\ retries' = retries + 1 /\ UNCHANGED stalls
  /\ Admitted("retry", row[j], 0) /\ Begin(q, "retry", j, Nobody, 0)
  /\ UNCHANGED <<row, bucket, worker>>

\* What the worker asks for at each stage of its attempt.
Asks(stage) == CASE stage = "rendering" -> {"artifact", "heartbeat"}
                 [] stage = "opened" -> {"parts", "heartbeat"}
                 [] stage = "stored" -> {"complete", "heartbeat"}
                 [] stage = "failing" -> {"fail"}
                 [] OTHER -> {}

Send(w, q, kind) ==
  LET me == worker[w] IN
  /\ kind \in Asks(me.stage) /\ me.waits = NoRequest
  /\ Admitted(kind, row[me.job], me.attempt)
  /\ Begin(q, kind, me.job, w, me.attempt)
  /\ worker' = [worker EXCEPT ![w].waits = q]
  /\ UNCHANGED <<row, bucket>> /\ NoStall

\* The request is refused, or the render fails: the worker reports a failure,
\* and one that cannot be reported is left to the next claim.
Abandon(w) ==
  LET me == worker[w] IN
  /\ me.stage # "idle" /\ me.waits = NoRequest
  /\ \/ me.stage # "failing" /\ worker' = [worker EXCEPT ![w].stage = "failing"]
     \/ /\ me.stage = "failing" /\ ~Admitted("fail", row[me.job], me.attempt)
        /\ worker' = [worker EXCEPT ![w] = Idle]
  /\ UNCHANGED <<row, bucket, req>> /\ NoStall

\* What the worker makes of the answer to the request it waits for.
Answered(w, q, ok) ==
  IF w = Nobody \/ worker[w].waits # q THEN worker
  ELSE LET kind == req[q].kind
           heard == CASE kind = "heartbeat" /\ ok /\ req[q].was.state = "running" -> worker[w].stage
                      [] kind = "artifact" /\ ok -> "opened"
                      [] kind = "parts" /\ ok -> "stored"
                      [] kind = "complete" /\ ok -> "idle"
                      [] kind = "fail" -> "idle"
                      [] OTHER -> "failing"
       IN [worker EXCEPT ![w] = IF heard = "idle" THEN Idle
                                ELSE [@ EXCEPT !.stage = heard, !.waits = NoRequest]]

Ended(q) == [req EXCEPT ![q] = NoRequest]

\* An upload is aborted if it is open, its object deleted if it became one.
NotDiscarded(state) == state   \* a retry that leaves the earlier output
Discarded(state) == IF state = "none" THEN "none" ELSE "gone"

\* The bucket's part of a request, between its read and its write.
Touch(q) ==
  LET r == req[q]  n == r.was.attempt IN
  /\ r # NoRequest /\ r.step = "read" /\ r.kind \notin {"heartbeat", "fail"}
  /\ LET now == bucket[r.job][n]
         next == CASE r.kind \in {"reap", "retry"} -> IF r.was.upload THEN Discarded(now) ELSE now
                   [] r.kind = "artifact" -> "open"
                   [] r.kind = "parts" -> now
                   [] r.kind = "complete" -> IF now = "open" THEN "object" ELSE now
         works == CASE r.kind = "parts" -> now = "open"
                    [] r.kind = "complete" -> now \in {"open", "object"}
                    [] OTHER -> TRUE
     IN /\ bucket' = [bucket EXCEPT ![r.job][n] = next]
        /\ IF works THEN req' = [req EXCEPT ![q].step = "touched"] /\ UNCHANGED worker
                    ELSE req' = Ended(q) /\ worker' = Answered(r.worker, q, FALSE)
  /\ UNCHANGED row /\ NoStall

Ready(r) == r # NoRequest /\ (r.step = "touched" \/ r.kind \in {"heartbeat", "fail"})

\* The swap: only on the generation that was read; a completed job also needs the
\* lease to be alive at this moment.
Swaps(r) == r.fresh /\ (r.kind = "complete" => row[r.job].lease = "live")

Write(q) ==
  LET r == req[q] IN
  /\ Ready(r) /\ Swaps(r)
  /\ Wrote(r.job, After(r.kind, [r.was EXCEPT !.lease = row[r.job].lease]), Ended(q))
  /\ worker' = Answered(r.worker, q, TRUE)
  /\ UNCHANGED bucket /\ NoStall

\* The row has changed: the request fails, and an upload it opened is aborted.
Refuse(q) ==
  LET r == req[q] IN
  /\ Ready(r) /\ ~Swaps(r)
  /\ req' = Ended(q)
  /\ worker' = Answered(r.worker, q, FALSE)
  /\ bucket' = IF r.kind = "artifact" THEN [bucket EXCEPT ![r.job][r.was.attempt] = "gone"]
                                      ELSE bucket
  /\ UNCHANGED row /\ NoStall

-----------------------------------------------------------------------------
(* Time and faults. *)

AtWork(j) == \E w \in Workers : worker[w].job = j /\ worker[w].attempt = row[j].attempt

\* A lease runs out: of an attempt nobody works on, or under a slow worker.
Expire(j) ==
  /\ row[j].lease = "live" /\ row[j].state \in {"running", "cancelling"}
  /\ IF AtWork(j) THEN Stall ELSE NoStall
  /\ row' = [row EXCEPT ![j].lease = "expired"]
  /\ UNCHANGED <<bucket, req, worker>>

\* The worker waits no longer, though the server may still handle the request; or
\* its process dies and starts again.
TimeOut(w) ==
  /\ worker[w].waits # NoRequest /\ Stall
  /\ worker' = [worker EXCEPT ![w].waits = NoRequest,
                              ![w].stage = "failing"]
  /\ UNCHANGED <<row, bucket, req>>

Crash(w) ==
  /\ worker[w] # Idle /\ Stall /\ worker' = [worker EXCEPT ![w] = Idle]
  /\ UNCHANGED <<row, bucket, req>>

Handle(q) == Touch(q) \/ Write(q) \/ Refuse(q)
Reaping(j) == \E q \in Requests : Reap(q, j)
Works(w) == \/ \E q \in Requests, kind \in WorkerKinds \ {"heartbeat"} : Send(w, q, kind)
            \/ worker[w].stage = "failing" /\ Abandon(w)

Next ==
  \/ \E j \in Jobs : Submit(j) \/ Cancel(j) \/ Expire(j) \/ Reaping(j)
  \/ \E j \in Jobs, q \in Requests : Retry(q, j)
  \/ \E w \in Workers, j \in Jobs : Claim(w, j)
  \/ \E w \in Workers, q \in Requests, kind \in WorkerKinds : Send(w, q, kind)
  \/ \E w \in Workers : Abandon(w) \/ TimeOut(w) \/ Crash(w)
  \/ \E q \in Requests : Handle(q)

Spec == Init /\ [][Next]_vars

\* The server answers or fails every request; a worker's render ends, so it gets on
\* with its attempt in spite of heartbeats; idle workers go on claiming; and a lease
\* nobody renews runs out.
FairSpec ==
  /\ Spec
  /\ \A q \in Requests : WF_vars(Handle(q))
  /\ \A w \in Workers : SF_vars(Works(w)) /\ WF_vars(Abandon(w) /\ worker[w].stage # "failing")
  /\ \A j \in Jobs : /\ SF_vars(\E w \in Workers : Claim(w, j))
                     /\ SF_vars(Reaping(j))
                     /\ WF_vars(Expire(j) /\ ~AtWork(j))

-----------------------------------------------------------------------------
\* Rows, requests and workers keep their types, and a job has an artifact exactly
\* when it succeeded: that of its last attempt.
TypeOK ==
  /\ row \in [Jobs -> Rows]
  /\ bucket \in [Jobs -> [Attempts -> {"none", "open", "object", "gone"}]]
  /\ req \in [Requests -> Request \cup {NoRequest}]
  /\ worker \in [Workers -> Task]
  /\ \A j \in Jobs : row[j].artifact = IF row[j].state = "succeeded" THEN row[j].attempt ELSE 0

\* What an earlier attempt uploaded has been discarded when nothing is under way,
\* whether it was lost, failed and retried, or overtaken while it opened its upload.
EarlierOutputsAreGone ==
  (\A q \in Requests : req[q] = NoRequest) =>
    \A j \in Jobs, n \in Attempts : n < row[j].attempt => bucket[j][n] \in {"none", "gone"}

\* The lifecycle of JobLifecycle, the same promise the connected service keeps with
\* another store: a cancellation is never undone, an attempt succeeds once.
Lifecycle == INSTANCE JobLifecycle WITH
  status <- [j \in Jobs |-> CASE row[j].state = "queued" -> "waiting"
                              [] row[j].state = "running" -> "active"
                              [] row[j].state = "cancelling" -> "stopping"
                              [] OTHER -> row[j].state],
  tries <- [j \in Jobs |-> row[j].attempt],
  result <- [j \in Jobs |-> row[j].artifact]

ImplementsLifecycle == Lifecycle!Spec

\* Every job ends, through workers that die, stall, lose their claim or hear no
\* answer: an expired attempt is reaped by a later claim.
JobsSettle ==
  \A j \in Jobs : row[j].state \in {"queued", "running", "cancelling"}
                    ~> row[j].state \in {"succeeded", "failed", "cancelled"}

\* docs/adr/0016: a successful commit is fenced by the lease and verified.  The
\* object of a job that succeeded is in the bucket.
SucceededHasObject ==
  \A j \in Jobs : row[j].state = "succeeded" => bucket[j][row[j].artifact] = "object"
=============================================================================
