------------------------- MODULE SitesRenderProofs -------------------------
(***************************************************************************)
(* Theorems about SitesRender for every set of jobs, workers and request   *)
(* slots and for every bound: the types, the refinement of JobLifecycle,   *)
(* and that no output of an earlier attempt is left behind.                *)
(***************************************************************************)
EXTENDS SitesRender, TLAPS

InFlight(q) == req[q] # NoRequest
AtLease(r, l) == [r EXCEPT !.lease = l]

\* A job that runs is held under a lease; one that was not submitted has no attempt;
\* one that succeeded has its last attempt's artifact.
RowOK(x) ==
  /\ x \in Rows
  /\ x.state = "running" => x.held /\ x.lease \in {"live", "expired"}
  /\ x.state = "absent" => x.attempt = 0 /\ ~x.upload
  /\ x.artifact = IF x.state = "succeeded" THEN x.attempt ELSE 0

\* A request was admitted on the row it read.  While it is fresh nobody wrote that
\* row since; only its lease may have run out.
RequestOK(r, x) ==   \* x: the row of its job
  /\ Admitted(r.kind, r.was, r.token)
  /\ r.was.attempt <= x.attempt
  /\ r.kind \in WorkerKinds => r.worker \in Workers /\ r.was.state \in {"running", "cancelling"}
  /\ r.kind \in WorkerKinds /\ r.token = x.attempt => x.state \notin {"absent", "queued"}
  /\ r.fresh => AtLease(r.was, x.lease) = x
  /\ r.fresh /\ r.kind = "reap" => x.lease = "expired"

\* A worker waits for a request of its own about its attempt, or for none.
WaitsOK(w, t, rs) ==
  t.waits # NoRequest =>
    LET r == rs[t.waits] IN
    r # NoRequest /\ r.kind \in WorkerKinds /\ r.worker = w /\ r.job = t.job /\ r.token = t.attempt

\* A worker at work is so on an attempt that was claimed.
TaskOK(t, rows) ==
  /\ t.stage = "idle" => t = Idle
  /\ t.stage # "idle" =>
       /\ t.job \in Jobs /\ t.attempt <= rows[t.job].attempt
       /\ t.attempt = rows[t.job].attempt => rows[t.job].state \notin {"absent", "queued"}

RowsOK == \A j \in Jobs : RowOK(row[j])
RequestsOK == \A q \in Requests : InFlight(q) => RequestOK(req[q], row[req[q].job])
TasksOK == \A w \in Workers : TaskOK(worker[w], row) /\ WaitsOK(w, worker[w], req)

\* No two workers are at work on one attempt.
Apart ==
  \A v, w \in Workers : v # w /\ worker[v].stage # "idle" /\ worker[w].stage # "idle"
    /\ worker[v].job = worker[w].job => worker[v].attempt # worker[w].attempt

\* A request of the present attempt that its worker no longer waits for, or by which
\* the worker gives the attempt up in vain.
Stray(q, j) ==
  /\ InFlight(q) /\ req[q].kind \in WorkerKinds
  /\ req[q].job = j /\ req[q].token = row[j].attempt
  /\ worker[req[q].worker].waits # q \/ (req[q].kind = "fail" /\ ~req[q].fresh)

Retrying(q, j) == InFlight(q) /\ req[q].kind = "retry" /\ req[q].job = j /\ req[q].fresh

\* The job may get one more attempt without a further stall or retry.
Owed(j) ==
  \/ /\ row[j].state = "running"
     /\ row[j].lease = "expired" \/ ~AtWork(j) \/ \E q \in Requests : Stray(q, j)
  \/ \E q \in Requests : Retrying(q, j)

\* Every attempt but the first is paid for by a stall or a retry.
Paid(j) ==
  /\ row[j].attempt <= 1 + stalls + retries
  /\ Owed(j) => row[j].attempt + 1 <= 1 + stalls + retries

\* An upload of an attempt that is gone, or is about to be: the request that opened it
\* will find the row changed.
Opening(q, j, n) ==
  /\ InFlight(q) /\ req[q].kind = "artifact" /\ req[q].step = "touched"
  /\ req[q].job = j /\ req[q].was.attempt = n
Covered(j, n) ==
  bucket[j][n] \in {"none", "gone"} \/ \E q \in Requests : Opening(q, j, n)

\* What is in the bucket is named by the row of the present attempt, or covered.
OutputsOK ==
  \A j \in Jobs, n \in Attempts :
    /\ n > row[j].attempt => bucket[j][n] = "none"
    /\ n < row[j].attempt => Covered(j, n)
    /\ n = row[j].attempt /\ ~row[j].upload => Covered(j, n)

\* A request that ends an attempt has discarded what the attempt had uploaded.
Discards ==
  \A q \in Requests :
    InFlight(q) /\ req[q].kind \in {"reap", "retry"} /\ req[q].step = "touched" /\ req[q].fresh
      => Covered(req[q].job, req[q].was.attempt)

Counted == stalls \in 0..MaxStalls /\ retries \in 0..MaxRetries

Inv ==
  /\ TypeOK /\ Counted /\ RowsOK /\ RequestsOK /\ TasksOK /\ Apart
  /\ \A j \in Jobs : Paid(j)
  /\ OutputsOK /\ Discards
-----------------------------------------------------------------------------
(* Rows *)

\* What one write may do to a row: its attempt only grows, and the attempt it has
\* stays claimed.
RowMoves(x, y) ==
  /\ x.attempt <= y.attempt
  /\ x.state \notin {"absent", "queued"} /\ y.attempt = x.attempt => y.state \notin {"absent", "queued"}

\* The fields of a row.
LEMMA RowTypes ==
  ASSUME NEW r \in Rows
  PROVE  /\ r.state \in States /\ r.attempt \in Attempts /\ r.lease \in {"none", "live", "expired"}
         /\ r.held \in BOOLEAN /\ r.upload \in BOOLEAN /\ r.parts \in BOOLEAN /\ r.artifact \in Attempts
BY DEF Rows

\* Attempts are natural numbers.
LEMMA AttemptsNat == Attempts \subseteq Nat /\ 0 \in Attempts
BY SitesAssumption DEF Attempts

\* The same row under another lease.
LEMMA AtLeaseRow ==
  ASSUME NEW r \in Rows, NEW l \in {"none", "live", "expired"}
  PROVE  /\ AtLease(r, l) \in Rows /\ AtLease(r, l).lease = l
         /\ AtLease(r, l).state = r.state /\ AtLease(r, l).attempt = r.attempt
         /\ AtLease(r, l).held = r.held /\ AtLease(r, l).upload = r.upload
         /\ AtLease(r, l).parts = r.parts /\ AtLease(r, l).artifact = r.artifact
BY DEF AtLease, Rows

\* Only the last lease counts.
LEMMA AtLeaseTwice ==
  ASSUME NEW r \in Rows, NEW l, NEW m
  PROVE  AtLease(AtLease(r, l), m) = AtLease(r, m) /\ AtLease(r, r.lease) = r
BY DEF AtLease, Rows

\* What a request may be admitted on.
LEMMA AdmittedOn ==
  ASSUME NEW kind \in Kinds, NEW r \in Rows, NEW n, Admitted(kind, r, n)
  PROVE  /\ kind \in WorkerKinds => /\ r.state \in {"running", "cancelling"} /\ r.held
                                    /\ r.attempt = n /\ r.lease = "live"
         /\ kind \in WorkerKinds \ {"heartbeat"} => r.state = "running"
         /\ kind = "reap" => r.state \in {"running", "cancelling"} /\ r.lease = "expired"
         /\ kind = "retry" => r.state = "failed"
         /\ kind = "artifact" => ~r.upload
BY DEF Admitted, Holds, Lost, Kinds, WorkerKinds

\* The move of the lifecycle that a request's write makes on the row it found.
Wins(kind, r) ==
  CASE kind = "heartbeat" -> IF r.state = "cancelling" THEN "cancelled" ELSE "running"
    [] kind \in {"artifact", "parts"} -> "running"
    [] kind = "complete" -> "succeeded"
    [] kind = "fail" -> "failed"
    [] kind = "reap" -> IF r.state = "cancelling" THEN "cancelled" ELSE "queued"
    [] kind = "retry" -> "queued"

\* What a request writes: r is the row it finds, s the row on which it was admitted.
LEMMA AfterRow ==
  ASSUME NEW kind \in Kinds, NEW s \in Rows, NEW n, Admitted(kind, s, n),
         NEW r \in Rows, RowOK(r), AtLease(s, r.lease) = r, NEW x, x = After(kind, r),
         Wins(kind, r) = "queued" => r.attempt + 1 \in Attempts
  PROVE  /\ x \in Rows /\ RowOK(x) /\ x.state = Wins(kind, r)
         /\ x.attempt = IF x.state = "queued" THEN r.attempt + 1 ELSE r.attempt
         /\ x.artifact = IF x.state = "succeeded" THEN r.attempt ELSE r.artifact
         /\ x.state # "queued" => x.upload = (r.upload \/ kind = "artifact")
         /\ kind \in {"artifact", "parts"} => x.lease = r.lease
<1>1. /\ r.state = s.state /\ r.attempt = s.attempt /\ r.held = s.held /\ r.upload = s.upload
  BY AtLeaseRow, RowTypes
<1>2. /\ r.state \in States /\ r.attempt \in Attempts /\ r.lease \in {"none", "live", "expired"}
      /\ r.held \in BOOLEAN /\ r.upload \in BOOLEAN /\ r.parts \in BOOLEAN /\ r.artifact \in Attempts
  BY RowTypes
<1>3. /\ kind \in WorkerKinds => /\ r.state \in {"running", "cancelling"} /\ r.held
      /\ kind \in WorkerKinds \ {"heartbeat"} => r.state = "running"
      /\ kind = "reap" => r.state \in {"running", "cancelling"}
      /\ kind = "retry" => r.state = "failed"
  BY <1>1, AdmittedOn
<1>4. CASE kind = "heartbeat"
  BY <1>2, <1>3, <1>4 DEF After, Beaten, Cancelled, Rows, RowOK, States, Wins, WorkerKinds
<1>5. CASE kind \in {"artifact", "parts"}
  BY <1>2, <1>3, <1>5 DEF After, Rows, RowOK, States, Wins, WorkerKinds
<1>6. CASE kind = "complete"
  BY <1>2, <1>3, <1>6 DEF After, Committed, Rows, RowOK, States, Wins, WorkerKinds
<1>7. CASE kind = "fail"
  BY <1>2, <1>3, <1>7 DEF After, Released, Rows, RowOK, States, Wins, WorkerKinds
<1>8. CASE kind = "reap"
  BY <1>2, <1>3, <1>8 DEF After, Reaped, Released, Cancelled, Queued, Rows, RowOK, States, Wins
<1>9. CASE kind = "retry"
  BY <1>2, <1>3, <1>9 DEF After, Queued, Rows, RowOK, States, Wins
<1>10. QED
  BY <1>4, <1>5, <1>6, <1>7, <1>8, <1>9 DEF Kinds, WorkerKinds

-----------------------------------------------------------------------------
(* Requests and workers *)

\* The same request, whatever became of it.
SameRequest(x, y) ==
  /\ x.kind = y.kind /\ x.job = y.job /\ x.worker = y.worker /\ x.token = y.token /\ x.was = y.was

\* A request in flight, the row it read and the row it finds.
LEMMA FlightTypes ==
  ASSUME TypeOK, NEW q \in Requests, InFlight(q)
  PROVE  /\ req[q] \in Request /\ req[q].kind \in Kinds /\ req[q].job \in Jobs
         /\ req[q].worker \in Workers \cup {Nobody} /\ req[q].token \in Attempts
         /\ req[q].was \in Rows /\ req[q].fresh \in BOOLEAN /\ req[q].step \in {"read", "touched"}
         /\ row[req[q].job] \in Rows
<1>1. req[q] \in Request
  BY DEF InFlight, TypeOK
<1>2. /\ req[q].kind \in Kinds /\ req[q].job \in Jobs
      /\ req[q].worker \in Workers \cup {Nobody} /\ req[q].token \in Attempts
      /\ req[q].was \in Rows /\ req[q].fresh \in BOOLEAN /\ req[q].step \in {"read", "touched"}
  BY <1>1 DEF Request
<1>3. QED
  BY <1>1, <1>2 DEF TypeOK

\* What a fresh request knows of its row.
LEMMA FreshRow ==
  ASSUME TypeOK, RequestsOK, NEW q \in Requests, InFlight(q), req[q].fresh
  PROVE  LET y == req[q].was  x == row[req[q].job] IN
         /\ x = AtLease(y, x.lease) /\ x.state = y.state /\ x.attempt = y.attempt
         /\ x.held = y.held /\ x.upload = y.upload /\ x.parts = y.parts
<1>1. req[q].was \in Rows /\ row[req[q].job] \in Rows
  BY FlightTypes
<1>2. AtLease(req[q].was, row[req[q].job].lease) = row[req[q].job]
  BY DEF RequestsOK, RequestOK
<1>3. QED
  BY <1>1, <1>2, AtLeaseRow, RowTypes

\* A request that stays in flight is still consistent with its row, if that was written
\* and the request is no longer fresh, or the row's lease alone has changed.
LEMMA RequestKept ==
  ASSUME TypeOK, RequestsOK, NEW q \in Requests, InFlight(q), NEW x, SameRequest(x, req[q]),
         NEW y \in Rows, RowMoves(row[req[q].job], y),
         x.fresh => /\ req[q].fresh /\ y = AtLease(row[req[q].job], y.lease)
                    /\ req[q].kind = "reap" => y.lease = row[req[q].job].lease
  PROVE  RequestOK(x, y)
<1> DEFINE r == req[q]
           z == row[r.job]
<1>1. RequestOK(r, z)
  BY DEF RequestsOK
<1>2. /\ r.was \in Rows /\ z \in Rows /\ r.kind \in Kinds /\ r.token \in Attempts
  BY FlightTypes
<1>3. z.attempt \in Nat /\ y.attempt \in Nat /\ r.was.attempt \in Nat /\ r.token \in Nat
  BY <1>2, RowTypes, AttemptsNat
<1>4. r.kind \in WorkerKinds => r.token = r.was.attempt
  BY <1>1, <1>2, AdmittedOn DEF RequestOK
<1>5. x.fresh => AtLease(r.was, y.lease) = y
  BY <1>1, <1>2, AtLeaseTwice DEF RequestOK
<1>6. x.kind \in WorkerKinds /\ x.token = y.attempt => y.state \notin {"absent", "queued"}
  BY <1>1, <1>3, <1>4 DEF RequestOK, SameRequest, RowMoves
<1>7. x.was.attempt <= y.attempt
  BY <1>1, <1>3 DEF RequestOK, SameRequest, RowMoves
<1>8. QED
  BY <1>1, <1>5, <1>6, <1>7 DEF RequestOK, SameRequest

\* A worker that stays at its attempt, or becomes idle, stays consistent.
LEMMA TaskKept ==
  ASSUME TypeOK, TasksOK, TypeOK', NEW w \in Workers, \A j \in Jobs : RowMoves(row[j], row'[j]),
         \/ worker'[w] = Idle
         \/ /\ worker'[w].stage # "idle" /\ worker[w].stage # "idle"
            /\ worker'[w].job = worker[w].job /\ worker'[w].attempt = worker[w].attempt
         \/ worker'[w] = worker[w]
  PROVE  TaskOK(worker'[w], row')
<1> DEFINE t == worker[w]
<1>1. TaskOK(t, row) /\ t \in Task
  BY DEF TasksOK, TypeOK
<1>2. CASE worker'[w] = Idle
  BY <1>2 DEF TaskOK, Idle
<1>3. CASE t.stage = "idle" /\ worker'[w] = t
  BY <1>1, <1>3 DEF TaskOK
<1>4. CASE /\ worker'[w].stage # "idle" /\ t.stage # "idle"
           /\ worker'[w].job = t.job /\ worker'[w].attempt = t.attempt
  <2>1. t.job \in Jobs /\ t.attempt \in Nat
    BY <1>1, <1>4, AttemptsNat DEF TaskOK, Task
  <2>2. row[t.job].attempt \in Nat /\ row'[t.job].attempt \in Nat /\ RowMoves(row[t.job], row'[t.job])
    BY <2>1, RowTypes, AttemptsNat DEF TypeOK
  <2>3. QED
    BY <1>1, <1>4, <2>1, <2>2 DEF TaskOK, RowMoves
<1>5. QED
  BY <1>2, <1>3, <1>4

\* No two workers get to work on one attempt by what they do at theirs.
LEMMA ApartKept ==
  ASSUME Apart, \A w \in Workers :
           \/ worker'[w] = Idle
           \/ /\ worker'[w].stage # "idle" /\ worker[w].stage # "idle"
              /\ worker'[w].job = worker[w].job /\ worker'[w].attempt = worker[w].attempt
           \/ worker'[w] = worker[w]
  PROVE  Apart'
<1>1. Idle.stage = "idle"
  BY DEF Idle
<1>2. QED
  BY <1>1 DEF Apart

\* What the answer to a request does to the workers: the one that waits for it goes
\* on, or is done when it had completed its job or given it up.
LEMMA AnsweredWorkers ==
  ASSUME TypeOK, TasksOK, NEW q \in Requests, InFlight(q), NEW ok \in BOOLEAN,
         worker' = Answered(req[q].worker, q, ok)
  PROVE  /\ worker' \in [Workers -> Task]
         /\ \A v \in Workers :
              \/ worker[v].waits # q /\ worker'[v] = worker[v]
              \/ /\ worker[v].waits = q /\ req[q].worker = v /\ worker[v].stage # "idle"
                 /\ \/ /\ worker'[v] = Idle
                       /\ req[q].kind \in {"fail", "complete"}
                    \/ /\ worker'[v].stage # "idle" /\ worker'[v].waits = NoRequest
                       /\ worker'[v].job = worker[v].job /\ worker'[v].attempt = worker[v].attempt
<1> DEFINE w == req[q].worker
<1>1. q # NoRequest /\ w \in Workers \cup {Nobody}
  BY FlightTypes, SitesAssumption
<1>2. \A v \in Workers : worker[v].waits = q => w = v /\ worker[v].stage # "idle"
  BY <1>1 DEF TasksOK, TaskOK, WaitsOK, Idle
<1>3. CASE w = Nobody \/ worker[w].waits # q
  <2>1. worker' = worker
    BY <1>3 DEF Answered
  <2>2. \A v \in Workers : worker[v].waits # q
    BY <1>2, <1>3, SitesAssumption
  <2>3. QED
    BY <2>1, <2>2 DEF TypeOK
<1>4. CASE ~(w = Nobody \/ worker[w].waits # q)
  <2> DEFINE kind == req[q].kind
             heard == CASE kind = "heartbeat" /\ ok /\ req[q].was.state = "running" -> worker[w].stage
                      [] kind = "artifact" /\ ok -> "opened"
                      [] kind = "parts" /\ ok -> "stored"
                      [] kind = "complete" /\ ok -> "idle"
                      [] kind = "fail" -> "idle"
                      [] OTHER -> "failing"
             t == IF heard = "idle" THEN Idle ELSE [worker[w] EXCEPT !.stage = heard, !.waits = NoRequest]
  <2>1. w \in Workers /\ worker[w].stage # "idle" /\ worker[w] \in Task
    BY <1>1, <1>2, <1>4 DEF TypeOK
  <2>2. worker' = [worker EXCEPT ![w] = t]
    BY <1>4 DEF Answered
  <2>3. worker[w].stage \in {"idle", "rendering", "opened", "stored", "failing"}
    BY <2>1 DEF Task
  <2>4. heard \in {"idle", "rendering", "opened", "stored", "failing"}
    BY <2>3
  <2>5. heard = "idle" => kind \in {"fail", "complete"}
    BY <2>1, <2>3
  <2> HIDE DEF heard
  <2>6. /\ t \in Task
        /\ \/ t = Idle /\ heard = "idle"
           \/ /\ t.stage # "idle" /\ t.waits = NoRequest
              /\ t.job = worker[w].job /\ t.attempt = worker[w].attempt
    BY <2>1, <2>4, AttemptsNat DEF Task, Idle
  <2> HIDE DEF t
  <2>7. worker' \in [Workers -> Task] /\ worker'[w] = t /\ \A v \in Workers : v # w => worker'[v] = worker[v]
    BY <2>1, <2>2, <2>6 DEF TypeOK
  <2>8. \A v \in Workers : v # w => worker[v].waits # q
    BY <1>2
  <2>9. QED
    BY <1>4, <2>1, <2>5, <2>6, <2>7, <2>8
<1>5. QED
  BY <1>3, <1>4

\* A worker that is refused becomes idle only when it had given its attempt up.
LEMMA RefusedWorker ==
  ASSUME TypeOK, NEW q \in Requests, InFlight(q), worker' = Answered(req[q].worker, q, FALSE),
         NEW v \in Workers, worker[v].stage # "idle", worker'[v] = Idle
  PROVE  req[q].kind = "fail"
<1> DEFINE w == req[q].worker
<1>1. w \in Workers \cup {Nobody}
  BY FlightTypes
<1>i. Idle.stage = "idle"
  BY DEF Idle
<1>2. worker' # worker
  BY <1>i
<1>3. w \in Workers
  BY <1>1, <1>2 DEF Answered
<1> DEFINE heard == IF req[q].kind = "fail" THEN "idle" ELSE "failing"
           t == IF heard = "idle" THEN Idle ELSE [worker[w] EXCEPT !.stage = heard, !.waits = NoRequest]
<1>4. worker' = [worker EXCEPT ![w] = t]
  BY <1>2 DEF Answered
<1> HIDE DEF t
<1>t. \A u \in Workers : u # w => worker'[u] = worker[u]
  BY <1>4 DEF TypeOK
<1>5. w = v
  BY <1>i, <1>t
<1>6. worker[w] \in Task /\ t = Idle
  BY <1>3, <1>4, <1>5 DEF TypeOK
<1>7. QED
  BY <1>6 DEF Task, Idle, t

\* A worker's claim to its request survives what happens to other requests.
LEMMA WaitsKept ==
  ASSUME TasksOK, NEW w \in Workers,
         worker[w].waits # NoRequest => req'[worker[w].waits] # NoRequest
                                        /\ SameRequest(req'[worker[w].waits], req[worker[w].waits])
  PROVE  WaitsOK(w, worker[w], req')
BY DEF TasksOK, WaitsOK, SameRequest

-----------------------------------------------------------------------------
(* Attempts and what pays for them *)

\* A job that is not written does not come to be owed an attempt, unless its worker or
\* a request that is about it goes astray.
LEMMA OwedKept ==
  ASSUME NEW j \in Jobs, row'[j] = row[j], AtWork(j) => AtWork(j)',
         \A q \in Requests : Stray(q, j)' => \E p \in Requests : Stray(p, j),
         \A q \in Requests : Retrying(q, j)' => Retrying(q, j)
  PROVE  Owed(j)' => Owed(j)
BY DEF Owed

\* What is owed stays paid for as long as the job's attempt stays the same.
LEMMA PaidKept ==
  ASSUME Counted, NEW j \in Jobs, row[j].attempt \in Nat, row'[j].attempt = row[j].attempt, Paid(j),
         \/ stalls' = stalls /\ retries' = retries /\ (Owed(j)' => Owed(j))
         \/ stalls' = stalls + 1 /\ retries' = retries
         \/ stalls' = stalls /\ retries' = retries + 1
  PROVE  Paid(j)'
<1>1. stalls \in Nat /\ retries \in Nat
  BY SitesAssumption DEF Counted
<1>2. QED
  BY <1>1 DEF Paid

-----------------------------------------------------------------------------
(* A row is written *)

\* What is left of the requests when job j's row is written: those of the job are not
\* fresh any more.  rs are the requests that go on.
LEMMA OvertakenRequests ==
  ASSUME NEW j \in Jobs, NEW rs \in [Requests -> Request \cup {NoRequest}]
  PROVE  /\ Overtaken(j, rs) \in [Requests -> Request \cup {NoRequest}]
         /\ \A p \in Requests :
              LET y == Overtaken(j, rs)[p] IN
              /\ rs[p] = NoRequest => y = NoRequest
              /\ rs[p] # NoRequest /\ rs[p].job # j => y = rs[p]
              /\ rs[p] # NoRequest /\ rs[p].job = j =>
                   y # NoRequest /\ SameRequest(y, rs[p]) /\ y.step = rs[p].step /\ y.fresh = FALSE
<1>1. ASSUME NEW p \in Requests
      PROVE  LET y == Overtaken(j, rs)[p] IN
              /\ y \in Request \cup {NoRequest}
              /\ rs[p] = NoRequest => y = NoRequest
              /\ rs[p] # NoRequest /\ rs[p].job # j => y = rs[p]
              /\ rs[p] # NoRequest /\ rs[p].job = j =>
                   y # NoRequest /\ SameRequest(y, rs[p]) /\ y.step = rs[p].step /\ y.fresh = FALSE
  <2>1. CASE rs[p] # NoRequest /\ rs[p].job = j
    <3> DEFINE x == rs[p]
               y == [x EXCEPT !.fresh = FALSE]
    <3>1. Overtaken(j, rs)[p] = y /\ x \in Request
      BY <2>1 DEF Overtaken
    <3>2. y \in Request /\ SameRequest(y, x) /\ y.step = x.step /\ y.fresh = FALSE
      BY <3>1 DEF Request, SameRequest
    <3>3. y # NoRequest
      BY <3>2, NoRequestAssumption
    <3>4. QED
      BY <2>1, <3>1, <3>2, <3>3
  <2>2. CASE ~(rs[p] # NoRequest /\ rs[p].job = j)
    <3>1. Overtaken(j, rs)[p] = rs[p]
      BY <2>2 DEF Overtaken
    <3>2. QED
      BY <2>2, <3>1
  <2>3. QED
    BY <2>1, <2>2
<1>2. Overtaken(j, rs) \in [Requests -> Request \cup {NoRequest}]
  BY <1>1 DEF Overtaken
<1>3. QED
  BY <1>1, <1>2

\* What a write leaves of a request: nothing of one that ends, all of one about
\* another job, and one about this job goes on without being fresh.
Overtakes(j) ==
  \A p \in Requests :
    \/ req'[p] = NoRequest
    \/ InFlight(p) /\ req[p].job # j /\ req'[p] = req[p]
    \/ /\ InFlight(p) /\ req[p].job = j /\ req'[p] # NoRequest /\ SameRequest(req'[p], req[p])
       /\ req'[p].step = req[p].step /\ req'[p].fresh = FALSE

\* A write of job j's row: rows and requests stay consistent.
LEMMA WroteRows ==
  ASSUME Inv, NEW j \in Jobs, NEW x, RowOK(x), RowMoves(row[j], x), NEW rs,
         Wrote(j, x, rs), rs \in [Requests -> Request \cup {NoRequest}],
         \A p \in Requests : rs[p] \in {NoRequest, req[p]}
  PROVE  /\ row' \in [Jobs -> Rows] /\ row'[j] = x /\ \A i \in Jobs : i # j => row'[i] = row[i]
         /\ \A i \in Jobs : RowMoves(row[i], row'[i])
         /\ req' \in [Requests -> Request \cup {NoRequest}]
         /\ RowsOK' /\ RequestsOK' /\ Overtakes(j)
         /\ \A p \in Requests : rs[p] = NoRequest <=> req'[p] = NoRequest
<1>1. /\ row' \in [Jobs -> Rows] /\ row'[j] = x /\ \A i \in Jobs : i # j => row'[i] = row[i]
  BY DEF Inv, TypeOK, Wrote, RowOK
<1>2. \A i \in Jobs : RowMoves(row[i], row'[i])
  <2>1. \A i \in Jobs : row[i].attempt \in Nat
    BY RowTypes, AttemptsNat DEF Inv, TypeOK
  <2>2. QED
    BY <1>1, <2>1 DEF RowMoves
<1>3. RowsOK'
  BY <1>1 DEF Inv, RowsOK
<1>4. req' = Overtaken(j, rs)
  BY DEF Wrote
<1>5. /\ req' \in [Requests -> Request \cup {NoRequest}]
      /\ \A p \in Requests : rs[p] = NoRequest <=> req'[p] = NoRequest
  BY <1>4, OvertakenRequests
<1>6. Overtakes(j)
  <2> SUFFICES ASSUME NEW p \in Requests, rs[p] # NoRequest
               PROVE  \/ InFlight(p) /\ req[p].job # j /\ req'[p] = req[p]
                      \/ /\ InFlight(p) /\ req[p].job = j /\ req'[p] # NoRequest
                         /\ SameRequest(req'[p], req[p])
                         /\ req'[p].step = req[p].step /\ req'[p].fresh = FALSE
    BY <1>5 DEF Overtakes
  <2>1. rs[p] = req[p] /\ InFlight(p)
    BY DEF InFlight
  <2>2. /\ rs[p].job # j => req'[p] = rs[p]
        /\ rs[p].job = j => /\ req'[p] # NoRequest /\ SameRequest(req'[p], rs[p])
                            /\ req'[p].step = rs[p].step /\ req'[p].fresh = FALSE
    BY <1>4, OvertakenRequests
  <2>3. QED
    BY <2>1, <2>2
<1>7. RequestsOK'
  <2> SUFFICES ASSUME NEW p \in Requests, req'[p] # NoRequest
               PROVE  RequestOK(req'[p], row'[req'[p].job])
    BY DEF RequestsOK, InFlight
  <2>1. InFlight(p) /\ SameRequest(req'[p], req[p]) /\ req[p].job \in Jobs
    BY <1>6, FlightTypes DEF Overtakes, SameRequest, Inv
  <2>2. req'[p].fresh => req[p].fresh /\ req[p].job # j
    BY <1>6 DEF Overtakes
  <2> DEFINE i == req[p].job
  <2>3. row'[i] \in Rows /\ row[i] \in Rows /\ RowMoves(row[i], row'[i])
    BY <1>1, <1>2, <2>1 DEF Inv, TypeOK
  <2>4. req'[p].fresh => row'[i] = row[i] /\ row'[i] = AtLease(row[i], row'[i].lease)
    BY <1>1, <2>1, <2>2, <2>3, AtLeaseTwice
  <2>5. RequestOK(req'[p], row'[i])
    BY <2>1, <2>2, <2>3, <2>4, RequestKept DEF Inv
  <2>6. QED
    BY <2>1, <2>5 DEF SameRequest
<1>8. QED
  BY <1>1, <1>2, <1>3, <1>5, <1>6, <1>7

\* A write of job j's row leaves no output behind: the row goes on naming it, or the
\* attempt has ended with its output discarded.
LEMMA WroteOutputs ==
  ASSUME Inv, req' \in [Requests -> Request \cup {NoRequest}],
         NEW j \in Jobs, NEW x \in Rows, bucket' = bucket, row'[j] = x,
         \A i \in Jobs : i # j => row'[i] = row[i],
         Overtakes(j),
         \A p \in Requests : InFlight(p) /\ req'[p] = NoRequest =>
           /\ req[p].job = j
           /\ req[p].kind = "artifact" => x.upload /\ req[p].was.attempt = row[j].attempt
         , \/ x.attempt = row[j].attempt /\ (row[j].upload => x.upload)
           \/ /\ x.attempt = row[j].attempt + 1 /\ Covered(j, row[j].attempt)
              /\ \A p \in Requests : InFlight(p) /\ req'[p] = NoRequest => req[p].kind # "artifact"
  PROVE  OutputsOK' /\ Discards'
<1>0. TypeOK /\ OutputsOK /\ Discards
  BY DEF Inv
<1>1. ASSUME NEW i \in Jobs, NEW n \in Attempts, Covered(i, n),
             i = j => n # row[j].attempt \/ ~x.upload \/ x.attempt # row[j].attempt
      PROVE  Covered(i, n)'
  <2>1. CASE bucket[i][n] \in {"none", "gone"}
    BY <2>1 DEF Covered
  <2>2. ASSUME NEW p \in Requests, Opening(p, i, n) PROVE Covered(i, n)'
    <3>1. InFlight(p) /\ req[p].kind = "artifact" /\ req[p].job = i /\ req[p].was.attempt = n
      BY <2>2 DEF Opening
    <3>2. req'[p] # NoRequest
      BY <1>1, <3>1
    <3>3. SameRequest(req'[p], req[p]) /\ req'[p].step = req[p].step
      BY <3>2 DEF Overtakes, SameRequest
    <3>4. QED
      BY <2>2, <3>2, <3>3 DEF Covered, Opening, SameRequest, InFlight
  <2>3. QED
    BY <1>1, <2>1, <2>2 DEF Covered
<1>2. \A i \in Jobs : row[i].attempt \in Nat
  BY <1>0, RowTypes, AttemptsNat DEF TypeOK
<1>3. \A n \in Attempts : n \in Nat
  BY AttemptsNat
<1>4. OutputsOK'
  <2> SUFFICES ASSUME NEW i \in Jobs, NEW n \in Attempts
               PROVE  /\ n > row'[i].attempt => bucket[i][n] = "none"
                      /\ n < row'[i].attempt => Covered(i, n)'
                      /\ n = row'[i].attempt /\ ~row'[i].upload => Covered(i, n)'
    BY DEF OutputsOK
  <2>1. CASE i # j
    BY <2>1, <1>0, <1>1 DEF OutputsOK
  <2>2. CASE i = j /\ x.attempt = row[j].attempt /\ (row[j].upload => x.upload)
    BY <2>2, <1>0, <1>1, <1>2, <1>3 DEF OutputsOK
  <2>3. CASE i = j /\ x.attempt = row[j].attempt + 1 /\ Covered(j, row[j].attempt)
    <3>1. n < x.attempt => Covered(j, n)
      BY <2>3, <1>0, <1>2, <1>3 DEF OutputsOK
    <3>2. n < x.attempt => Covered(j, n)'
      BY <3>1, <1>1, <1>2, <2>3
    <3>3. n >= x.attempt => bucket[j][n] = "none"
      BY <2>3, <1>0, <1>2, <1>3 DEF OutputsOK
    <3>4. QED
      BY <2>3, <3>2, <3>3, <1>2, <1>3 DEF Covered
  <2>4. QED
    BY <2>1, <2>2, <2>3
<1>5. Discards'
  <2>0. ASSUME NEW p \in Requests, req'[p] # NoRequest
        PROVE  req'[p].job \in Jobs /\ req'[p].was.attempt \in Attempts
    <3>1. req'[p] \in Request
      BY <2>0
    <3>2. req'[p].job \in Jobs /\ req'[p].was \in Rows
      BY <3>1 DEF Request
    <3>3. QED
      BY <3>2, RowTypes
  <2> SUFFICES ASSUME NEW p \in Requests, req'[p] # NoRequest, req'[p].kind \in {"reap", "retry"},
                      req'[p].step = "touched", req'[p].fresh
               PROVE  \A i \in Jobs, n \in Attempts :
                        i = req'[p].job /\ n = req'[p].was.attempt => Covered(i, n)'
    BY <2>0 DEF Discards, InFlight
  <2>1. InFlight(p) /\ req[p].job # j /\ req'[p] = req[p]
    BY DEF Overtakes
  <2>2. req[p].job \in Jobs /\ req[p].was.attempt \in Attempts
    BY <1>0, <2>1, FlightTypes, RowTypes
  <2>3. Covered(req[p].job, req[p].was.attempt)
    BY <1>0, <2>1 DEF Discards
  <2>4. QED
    BY <1>1, <2>1, <2>2, <2>3
<1>6. QED
  BY <1>4, <1>5

-----------------------------------------------------------------------------
(* Steps that write no row *)

\* Outputs stay covered while the bucket is left alone and no upload's request ends.
LEMMA OutputsKept ==
  ASSUME Inv, req' \in [Requests -> Request \cup {NoRequest}], bucket' = bucket,
         \A j \in Jobs : row'[j].attempt = row[j].attempt /\ row'[j].upload = row[j].upload,
         \A p \in Requests :
           \/ req'[p] = req[p]
           \/ req'[p] # NoRequest /\ ~InFlight(p) /\ req'[p].step = "read"
           \/ req'[p] = NoRequest /\ req[p].kind # "artifact"
  PROVE  OutputsOK' /\ Discards'
<1>1. ASSUME NEW i \in Jobs, NEW n \in Attempts, Covered(i, n) PROVE Covered(i, n)'
  <2>1. \A p \in Requests : Opening(p, i, n) => Opening(p, i, n)'
    BY DEF Opening, InFlight
  <2>2. QED
    BY <1>1, <2>1 DEF Covered
<1>2. OutputsOK'
  BY <1>1 DEF Inv, OutputsOK
<1>3. Discards'
  <2> SUFFICES ASSUME NEW p \in Requests, req'[p] # NoRequest, req'[p].kind \in {"reap", "retry"},
                      req'[p].step = "touched", req'[p].fresh
               PROVE  \A i, n : i = req'[p].job /\ n = req'[p].was.attempt => Covered(i, n)'
    BY DEF Discards, InFlight
  <2>1. InFlight(p) /\ req'[p] = req[p]
    BY DEF InFlight
  <2>2. req[p].job \in Jobs /\ req[p].was.attempt \in Attempts
    BY <2>1, FlightTypes, RowTypes DEF Inv
  <2>3. Covered(req[p].job, req[p].was.attempt)
    BY <2>1 DEF Inv, Discards
  <2>4. QED
    BY <1>1, <2>1, <2>2, <2>3
<1>4. QED
  BY <1>2, <1>3

\* A new request, on the row as it is.
LEMMA BeginRequest ==
  ASSUME Inv, NEW q \in Requests, NEW kind \in Kinds, NEW j \in Jobs, NEW w \in Workers \cup {Nobody},
         NEW token \in Attempts, Begin(q, kind, j, w, token), Admitted(kind, row[j], token), row' = row,
         kind \in WorkerKinds => w \in Workers
  PROVE  /\ req' \in [Requests -> Request \cup {NoRequest}] /\ RequestsOK'
         /\ ~InFlight(q) /\ \A p \in Requests : p # q => req'[p] = req[p]
         /\ req'[q] # NoRequest /\ req'[q].kind = kind /\ req'[q].job = j /\ req'[q].worker = w
         /\ req'[q].token = token /\ req'[q].fresh = TRUE /\ req'[q].step = "read"
<1> DEFINE r == [kind |-> kind, job |-> j, worker |-> w, token |-> token,
                 was |-> row[j], fresh |-> TRUE, step |-> "read"]
<1>1. row[j] \in Rows
  BY DEF Inv, TypeOK
<1>2. r \in Request
  BY <1>1 DEF Request
<1>3. r # NoRequest
  BY <1>2, NoRequestAssumption
<1>4. req' = [req EXCEPT ![q] = r] /\ ~InFlight(q)
  BY DEF Begin, InFlight
<1>5. RequestOK(r, row[j])
  <2>1. /\ kind \in WorkerKinds => row[j].state \in {"running", "cancelling"}
        /\ kind = "reap" => row[j].lease = "expired"
    BY <1>1, AdmittedOn
  <2>2. AtLease(row[j], row[j].lease) = row[j]
    BY <1>1, AtLeaseTwice
  <2>3. row[j].attempt <= row[j].attempt
    <3>1. row[j].attempt \in Nat
      BY <1>1, RowTypes, AttemptsNat
    <3>2. QED
      BY <3>1
  <2>4. QED
    BY <2>1, <2>2, <2>3 DEF RequestOK
<1>6. r.kind = kind /\ r.job = j /\ r.worker = w /\ r.token = token /\ r.fresh = TRUE /\ r.step = "read"
  OBVIOUS
<1> HIDE DEF r
<1>7. req' \in [Requests -> Request \cup {NoRequest}] /\ req'[q] = r /\ \A p \in Requests : p # q => req'[p] = req[p]
  BY <1>2, <1>4 DEF Inv, TypeOK
<1>8. RequestsOK'
  BY <1>5, <1>6, <1>7 DEF Inv, RequestsOK, InFlight
<1>9. QED
  BY <1>3, <1>4, <1>6, <1>7, <1>8

\* The workers at their requests, when a new request takes a free slot.
LEMMA BeginWaits ==
  ASSUME Inv, NEW q \in Requests, ~InFlight(q), \A p \in Requests : p # q => req'[p] = req[p],
         NEW v \in Workers
  PROVE  worker[v].waits # q /\ WaitsOK(v, worker[v], req')
<1>1. worker[v] \in Task
  BY DEF Inv, TypeOK
<1>2. worker[v].waits \in Requests \cup {NoRequest}
  BY <1>1 DEF Task
<1>3. worker[v].waits # NoRequest => InFlight(worker[v].waits)
  BY DEF Inv, TasksOK, WaitsOK, InFlight
<1>4. q # NoRequest
  BY SitesAssumption
<1>5. worker[v].waits # q
  BY <1>3, <1>4 DEF InFlight
<1>6. worker[v].waits # NoRequest => req'[worker[v].waits] = req[worker[v].waits]
  BY <1>2, <1>5
<1>7. WaitsOK(v, worker[v], req')
  BY <1>3, <1>6, WaitsKept DEF Inv, SameRequest, InFlight
<1>8. QED
  BY <1>5, <1>7

\* The rows as they were.
LEMMA RowsSame ==
  ASSUME Inv, row' = row
  PROVE  /\ row' \in [Jobs -> Rows] /\ RowsOK' /\ \A j \in Jobs : RowMoves(row[j], row'[j])
         /\ \A j \in Jobs : row[j].attempt \in Nat /\ row'[j].attempt = row[j].attempt
                            /\ row'[j].upload = row[j].upload
<1>1. \A j \in Jobs : row[j] \in Rows /\ row[j].attempt \in Nat
  BY RowTypes, AttemptsNat DEF Inv, TypeOK
<1>2. row' \in [Jobs -> Rows] /\ RowsOK'
  BY DEF Inv, TypeOK, RowsOK
<1>3. \A j \in Jobs : row'[j] = row[j] /\ RowMoves(row[j], row'[j])
  BY <1>1 DEF RowMoves
<1>4. QED
  BY <1>1, <1>2, <1>3

\* What the types ask of the rows is said of each of them.
LEMMA TypesNext ==
  ASSUME row' \in [Jobs -> Rows], RowsOK', req' \in [Requests -> Request \cup {NoRequest}],
         bucket' \in [Jobs -> [Attempts -> {"none", "open", "object", "gone"}]],
         worker' \in [Workers -> Task]
  PROVE  TypeOK'
BY DEF TypeOK, RowsOK, RowOK

\* A request begins that ends or renews an attempt.
LEMMA ReaperInv ==
  ASSUME Inv, NEW q \in Requests, NEW j \in Jobs, NEW kind \in {"reap", "retry"},
         Begin(q, kind, j, Nobody, 0), Admitted(kind, row[j], 0), UNCHANGED <<row, bucket, worker>>, Counted',
         \/ kind = "reap" /\ stalls' = stalls /\ retries' = retries
         \/ stalls' = stalls /\ retries' = retries + 1
  PROVE  Inv'
<1>1. kind \in Kinds /\ kind \notin WorkerKinds /\ 0 \in Attempts
  BY AttemptsNat DEF Kinds, WorkerKinds
<1>2. /\ req' \in [Requests -> Request \cup {NoRequest}] /\ RequestsOK'
      /\ ~InFlight(q) /\ \A p \in Requests : p # q => req'[p] = req[p]
      /\ req'[q] # NoRequest /\ req'[q].kind = kind /\ req'[q].job = j /\ req'[q].step = "read"
  BY <1>1, BeginRequest
<1>3. row' = row /\ bucket' = bucket /\ worker' = worker
  OBVIOUS
<1>4. TypeOK' /\ RowsOK'
  BY <1>2, <1>3, RowsSame, TypesNext DEF Inv, TypeOK
<1>5. OutputsOK' /\ Discards'
  BY <1>2, <1>3, RowsSame, OutputsKept
<1>6. TasksOK' /\ Apart'
  BY <1>2, <1>3, BeginWaits DEF Inv, TasksOK, Apart
<1>7. ASSUME NEW i \in Jobs PROVE Paid(i)'
  <2>1. AtWork(i) => AtWork(i)'
    BY <1>3 DEF AtWork
  <2>2. ASSUME NEW p \in Requests, Stray(p, i)' PROVE Stray(p, i)
    BY <1>1, <1>2, <1>3, <2>2 DEF Stray, InFlight
  <2>3. kind = "reap" => \A p \in Requests : Retrying(p, i)' => Retrying(p, i)
    BY <1>2 DEF Retrying, InFlight
  <2>4. kind = "reap" => (Owed(i)' => Owed(i))
    BY <1>3, <2>1, <2>2, <2>3, OwedKept
  <2>5. QED
    BY <1>3, <2>4, RowsSame, PaidKept DEF Inv
<1>8. QED
  BY <1>2, <1>4, <1>5, <1>6, <1>7 DEF Inv

\* The first half of a claim finds an expired attempt.
LEMMA ReapInv == ASSUME Inv, NEW q \in Requests, NEW j \in Jobs, Reap(q, j) PROVE Inv'
BY ReaperInv DEF Reap, NoStall, Inv, Counted

\* A user asks for a failed job again.
LEMMA RetryInv == ASSUME Inv, NEW q \in Requests, NEW j \in Jobs, Retry(q, j) PROVE Inv'
<1>1. Counted'
  BY SitesAssumption DEF Retry, Inv, Counted
<1>2. QED
  BY <1>1, ReaperInv DEF Retry

\* A worker sends what its stage asks for.
LEMMA SendInv ==
  ASSUME Inv, NEW w \in Workers, NEW q \in Requests, NEW kind \in WorkerKinds, Send(w, q, kind)
  PROVE  Inv'
<1> DEFINE me == worker[w]
<1>1. kind \in Kinds /\ me \in Task /\ me.stage # "idle" /\ me.waits = NoRequest
  BY DEF Send, Asks, Kinds, WorkerKinds, Inv, TypeOK
<1>2. me.job \in Jobs /\ me.attempt \in Attempts
  BY <1>1 DEF Inv, TasksOK, TaskOK, Task
<1>3. row' = row /\ bucket' = bucket /\ stalls' = stalls /\ retries' = retries
  BY DEF Send, NoStall
<1>4. /\ req' \in [Requests -> Request \cup {NoRequest}] /\ RequestsOK'
      /\ ~InFlight(q) /\ \A p \in Requests : p # q => req'[p] = req[p]
      /\ req'[q] # NoRequest /\ req'[q].kind = kind /\ req'[q].job = me.job /\ req'[q].worker = w
      /\ req'[q].token = me.attempt /\ req'[q].fresh = TRUE /\ req'[q].step = "read"
  BY <1>1, <1>2, <1>3, BeginRequest DEF Send
<1> DEFINE t == [me EXCEPT !.waits = q]
<1>5. t \in Task /\ t.stage = me.stage /\ t.job = me.job /\ t.attempt = me.attempt /\ t.waits = q
  BY <1>1 DEF Task
<1>6. worker' = [worker EXCEPT ![w] = t]
  BY <1>1 DEF Send
<1> HIDE DEF t
<1>7. worker' \in [Workers -> Task] /\ worker'[w] = t /\ \A v \in Workers : v # w => worker'[v] = worker[v]
  BY <1>5, <1>6 DEF Inv, TypeOK
<1>8. TypeOK' /\ RowsOK'
  BY <1>3, <1>4, <1>7, RowsSame, TypesNext DEF Inv, TypeOK
<1>9. OutputsOK' /\ Discards'
  BY <1>3, <1>4, RowsSame, OutputsKept
<1>10. \A v \in Workers : \/ /\ worker'[v].stage # "idle" /\ worker[v].stage # "idle"
                             /\ worker'[v].job = worker[v].job /\ worker'[v].attempt = worker[v].attempt
                          \/ worker'[v] = worker[v]
  BY <1>1, <1>5, <1>7
<1>11. Apart'
  BY <1>10, ApartKept DEF Inv
<1>12. TasksOK'
  <2>1. \A v \in Workers : TaskOK(worker'[v], row')
    BY <1>3, <1>8, <1>10, RowsSame, TaskKept DEF Inv
  <2>2. \A v \in Workers : v # w => WaitsOK(v, worker'[v], req')
    BY <1>4, <1>7, BeginWaits
  <2>3. WaitsOK(w, t, req')
    BY <1>4, <1>5 DEF WaitsOK
  <2>4. QED
    BY <1>7, <2>1, <2>2, <2>3 DEF TasksOK
<1>13. ASSUME NEW i \in Jobs PROVE Paid(i)'
  <2>1. AtWork(i) => AtWork(i)'
    BY <1>3, <1>5, <1>7 DEF AtWork
  <2>2. ASSUME NEW p \in Requests, Stray(p, i)' PROVE Stray(p, i)
    <3>1. p # q
      BY <2>2, <1>4, <1>5, <1>7 DEF Stray
    <3>2. req'[p] = req[p] /\ InFlight(p)
      BY <2>2, <3>1, <1>4 DEF Stray, InFlight
    <3>3. req[p].worker \in Workers
      BY <2>2, <3>2 DEF Stray, Inv, RequestsOK, RequestOK
    <3>4. p # NoRequest
      BY SitesAssumption
    <3>5. QED
      BY <2>2, <3>2, <3>3, <3>4, <1>1, <1>3, <1>7 DEF Stray
  <2>3. \A p \in Requests : Retrying(p, i)' => Retrying(p, i)
    BY <1>4 DEF Retrying, InFlight, WorkerKinds
  <2>4. Owed(i)' => Owed(i)
    BY <1>3, <2>1, <2>2, <2>3, OwedKept
  <2>5. QED
    BY <1>3, <2>4, RowsSame, PaidKept DEF Inv
<1>14. QED
  BY <1>3, <1>4, <1>8, <1>9, <1>11, <1>12, <1>13 DEF Inv, Counted

\* One worker goes on with its attempt or becomes idle, and nobody else notices.
LEMMA WorkerInv ==
  ASSUME Inv, NEW w \in Workers, NEW t, worker' = [worker EXCEPT ![w] = t], Counted',
         UNCHANGED <<row, bucket, req>>,
         \/ t = Idle
         \/ /\ t \in Task /\ t.stage # "idle" /\ worker[w].stage # "idle" /\ t.waits = NoRequest
            /\ t.job = worker[w].job /\ t.attempt = worker[w].attempt,
         \/ stalls' = stalls + 1 /\ retries' = retries
         \/ /\ stalls' = stalls /\ retries' = retries
            /\ worker[w].waits = NoRequest
            /\ t = Idle => \A j \in Jobs : worker[w].job = j /\ worker[w].attempt = row[j].attempt
                                            => row[j].state # "running" \/ row[j].lease = "expired"
  PROVE  Inv'
<1>1. row' = row /\ bucket' = bucket /\ req' = req
  OBVIOUS
<1>2. Idle \in Task
  BY AttemptsNat DEF Idle, Task
<1>3. worker' \in [Workers -> Task] /\ worker'[w] = t /\ \A v \in Workers : v # w => worker'[v] = worker[v]
  BY <1>2 DEF Inv, TypeOK
<1>4. TypeOK' /\ RowsOK'
  BY <1>1, <1>3, RowsSame, TypesNext DEF Inv, TypeOK
<1>5. OutputsOK' /\ Discards'
  BY <1>1, RowsSame, OutputsKept DEF Inv, TypeOK
<1>6. RequestsOK'
  BY <1>1 DEF Inv, RequestsOK, InFlight
<1>7. \A v \in Workers : \/ worker'[v] = Idle
                         \/ /\ worker'[v].stage # "idle" /\ worker[v].stage # "idle"
                            /\ worker'[v].job = worker[v].job /\ worker'[v].attempt = worker[v].attempt
                         \/ worker'[v] = worker[v]
  BY <1>3
<1>8. Apart'
  BY <1>7, ApartKept DEF Inv
<1>9. TasksOK'
  <2>1. \A v \in Workers : TaskOK(worker'[v], row')
    BY <1>4, <1>7, <1>1, RowsSame, TaskKept DEF Inv
  <2>2. \A v \in Workers : v # w => WaitsOK(v, worker'[v], req')
    BY <1>1, <1>3 DEF Inv, TasksOK
  <2>3. WaitsOK(w, t, req')
    BY DEF WaitsOK, Idle
  <2>4. QED
    BY <1>3, <2>1, <2>2, <2>3 DEF TasksOK
<1>10. ASSUME NEW i \in Jobs PROVE Paid(i)'
  <2>1. CASE stalls' = stalls + 1 /\ retries' = retries
    BY <1>1, <2>1, RowsSame, PaidKept DEF Inv
  <2>2. CASE /\ stalls' = stalls /\ retries' = retries /\ worker[w].waits = NoRequest
             /\ t = Idle => \A j \in Jobs : worker[w].job = j /\ worker[w].attempt = row[j].attempt
                                            => row[j].state # "running" \/ row[j].lease = "expired"
    <3>1. ASSUME NEW p \in Requests, Stray(p, i)' PROVE Stray(p, i)
      <4>1. InFlight(p) /\ req'[p] = req[p] /\ req[p].kind \in WorkerKinds
        BY <3>1, <1>1 DEF Stray, InFlight
      <4>2. req[p].worker \in Workers
        BY <4>1 DEF Inv, RequestsOK, RequestOK
      <4>3. p # NoRequest
        BY SitesAssumption
      <4>4. QED
        BY <3>1, <4>1, <4>2, <4>3, <2>2, <1>1, <1>3 DEF Stray, InFlight
    <3>2. \A p \in Requests : Retrying(p, i)' => Retrying(p, i)
      BY <1>1 DEF Retrying, InFlight
    <3>3. CASE t # Idle
      <4>1. AtWork(i) => AtWork(i)'
        BY <3>3, <1>1, <1>3 DEF AtWork
      <4>2. Owed(i)' => Owed(i)
        BY <1>1, <3>1, <3>2, <4>1, OwedKept
      <4>3. QED
        BY <1>1, <2>2, <4>2, RowsSame, PaidKept DEF Inv
    <3>4. CASE t = Idle
      <4>1. row[i].state = "running" /\ row[i].lease # "expired" /\ AtWork(i) => AtWork(i)'
        BY <3>4, <2>2, <1>1, <1>3 DEF AtWork
      <4>2. Owed(i)' => Owed(i)
        BY <1>1, <3>1, <3>2, <4>1 DEF Owed
      <4>3. QED
        BY <1>1, <2>2, <4>2, RowsSame, PaidKept DEF Inv
    <3>5. QED
      BY <3>3, <3>4
  <2>3. QED
    BY <2>1, <2>2
<1>11. QED
  BY <1>4, <1>5, <1>6, <1>8, <1>9, <1>10 DEF Inv

\* A worker gives up; if it cannot even say so, its attempt is not the job's any more,
\* has ended, or runs under a lease that has expired.
LEMMA AbandonInv == ASSUME Inv, NEW w \in Workers, Abandon(w) PROVE Inv'
<1> DEFINE me == worker[w]
<1>1. me \in Task /\ me.stage # "idle" /\ me.waits = NoRequest /\ UNCHANGED <<row, bucket, req>>
  BY DEF Abandon, Inv, TypeOK
<1>2. Counted' /\ stalls' = stalls /\ retries' = retries
  BY DEF Abandon, NoStall, Inv, Counted
<1>3. CASE worker' = [worker EXCEPT ![w].stage = "failing"]
  <2> DEFINE t == [me EXCEPT !.stage = "failing"]
  <2>1. /\ t \in Task /\ t.stage # "idle" /\ t.waits = NoRequest
        /\ t.job = me.job /\ t.attempt = me.attempt
    BY <1>1 DEF Task
  <2>2. worker' = [worker EXCEPT ![w] = t]
    BY <1>3
  <2>3. t # Idle
    BY <2>1 DEF Idle
  <2> HIDE DEF t
  <2>4. QED
    BY <1>1, <1>2, <2>1, <2>2, <2>3, WorkerInv
<1>4. CASE worker' = [worker EXCEPT ![w] = Idle] /\ ~Admitted("fail", row[me.job], me.attempt)
  <2>1. ASSUME NEW j \in Jobs, me.job = j, me.attempt = row[j].attempt
        PROVE  row[j].state # "running" \/ row[j].lease = "expired"
    BY <1>4, <2>1 DEF Admitted, Holds, Inv, RowsOK, RowOK
  <2>2. QED
    BY <1>1, <1>2, <1>4, <2>1, WorkerInv
<1>5. QED
  BY <1>3, <1>4 DEF Abandon

\* A worker's wait times out.
LEMMA TimeOutInv == ASSUME Inv, NEW w \in Workers, TimeOut(w) PROVE Inv'
<1> DEFINE me == worker[w]
           t == [me EXCEPT !.waits = NoRequest, !.stage = "failing"]
<1>1. me \in Task /\ me.waits # NoRequest /\ UNCHANGED <<row, bucket, req>>
  BY DEF TimeOut, Inv, TypeOK
<1>2. me.stage # "idle"
  BY <1>1 DEF Inv, TasksOK, TaskOK, Idle
<1>3. Counted' /\ stalls' = stalls + 1 /\ retries' = retries
  BY SitesAssumption DEF TimeOut, Stall, Inv, Counted
<1>4. /\ t \in Task /\ t.stage # "idle" /\ t.waits = NoRequest
      /\ t.job = me.job /\ t.attempt = me.attempt
  BY <1>1 DEF Task
<1>5. worker' = [worker EXCEPT ![w] = t]
  BY DEF TimeOut
<1> HIDE DEF t
<1>6. QED
  BY <1>1, <1>2, <1>3, <1>4, <1>5, WorkerInv

\* A worker dies.
LEMMA CrashInv == ASSUME Inv, NEW w \in Workers, Crash(w) PROVE Inv'
<1>1. Counted' /\ stalls' = stalls + 1 /\ retries' = retries
  BY SitesAssumption DEF Crash, Stall, Inv, Counted
<1>2. QED
  BY <1>1, WorkerInv DEF Crash

\* A lease runs out: under a worker at work that is a stall, and otherwise the job was
\* owed an attempt before.
LEMMA ExpireInv == ASSUME Inv, NEW j \in Jobs, Expire(j) PROVE Inv'
<1> DEFINE x == AtLease(row[j], "expired")
<1>1. /\ row[j].lease = "live" /\ row[j].state \in {"running", "cancelling"}
      /\ row' = [row EXCEPT ![j].lease = "expired"]
      /\ bucket' = bucket /\ req' = req /\ worker' = worker
  BY DEF Expire
<1>2. row[j] \in Rows /\ RowOK(row[j])
  BY DEF Inv, TypeOK, RowsOK
<1>3. /\ x \in Rows /\ x.lease = "expired" /\ x.state = row[j].state /\ x.attempt = row[j].attempt
      /\ x.held = row[j].held /\ x.upload = row[j].upload /\ x.artifact = row[j].artifact
  BY <1>2, AtLeaseRow
<1>4. row' = [row EXCEPT ![j] = x]
  BY <1>1 DEF AtLease
<1>5. RowOK(x)
  BY <1>1, <1>2, <1>3 DEF RowOK
<1>6. x = AtLease(row[j], x.lease)
  BY <1>3
<1> HIDE DEF x
<1>7. row' \in [Jobs -> Rows] /\ row'[j] = x /\ \A i \in Jobs : i # j => row'[i] = row[i]
  BY <1>3, <1>4 DEF Inv, TypeOK
<1>8. \A i \in Jobs : row[i].attempt \in Nat
  BY RowTypes, AttemptsNat DEF Inv, TypeOK
<1>9. \A i \in Jobs : /\ row'[i].attempt = row[i].attempt /\ row'[i].upload = row[i].upload
                      /\ row'[i].state = row[i].state
  BY <1>3, <1>7
<1>10. \A i \in Jobs : RowMoves(row[i], row'[i])
  BY <1>8, <1>9 DEF RowMoves
<1>11. RowsOK'
  BY <1>5, <1>7 DEF Inv, RowsOK
<1>12. TypeOK'
  BY <1>1, <1>7, <1>11, TypesNext DEF Inv, TypeOK
<1>13. RequestsOK'
  <2> SUFFICES ASSUME NEW q \in Requests, InFlight(q) PROVE RequestOK(req[q], row'[req[q].job])
    BY <1>1 DEF RequestsOK, InFlight
  <2>1. CASE req[q].job # j
    BY <2>1, <1>7, FlightTypes DEF Inv, RequestsOK
  <2>2. CASE req[q].job = j
    <3>1. req[q].fresh => req[q].kind # "reap"
      BY <1>1, <2>2 DEF Inv, RequestsOK, RequestOK
    <3>2. SameRequest(req[q], req[q])
      BY DEF SameRequest
    <3>3. QED
      BY <1>3, <1>6, <1>7, <1>10, <2>2, <3>1, <3>2, RequestKept DEF Inv
  <2>3. QED
    BY <2>1, <2>2
<1>14. TasksOK'
  <2>1. \A w \in Workers : TaskOK(worker'[w], row')
    BY <1>1, <1>10, <1>12, TaskKept DEF Inv
  <2>2. QED
    BY <1>1, <2>1 DEF Inv, TasksOK
<1>15. Apart'
  BY <1>1 DEF Inv, Apart
<1>16. OutputsOK' /\ Discards'
  BY <1>1, <1>9, OutputsKept DEF Inv, TypeOK
<1>17. ASSUME NEW i \in Jobs PROVE Paid(i)'
  <2>1. CASE AtWork(j)
    <3>1. stalls' = stalls + 1 /\ retries' = retries
      BY <2>1 DEF Expire, Stall
    <3>2. QED
      BY <3>1, <1>8, <1>9, PaidKept DEF Inv
  <2>2. CASE ~AtWork(j)
    <3>1. stalls' = stalls /\ retries' = retries
      BY <2>2 DEF Expire, NoStall
    <3>2. \A p \in Requests : (Stray(p, i)' <=> Stray(p, i)) /\ (Retrying(p, i)' <=> Retrying(p, i))
      BY <1>1, <1>9 DEF Stray, Retrying, InFlight
    <3>3. AtWork(i)' <=> AtWork(i)
      BY <1>1, <1>9 DEF AtWork
    <3>4. Owed(i)' => Owed(i)
      BY <2>2, <1>7, <1>9, <3>2, <3>3 DEF Owed
    <3>5. QED
      BY <3>1, <3>4, <1>8, <1>9, PaidKept DEF Inv
  <2>3. QED
    BY <2>1, <2>2
<1>18. Counted'
  BY SitesAssumption DEF Expire, Stall, NoStall, Inv, Counted
<1>19. QED
  BY <1>11, <1>12, <1>13, <1>14, <1>15, <1>16, <1>17, <1>18 DEF Inv

-----------------------------------------------------------------------------
(* Steps of a request in flight *)

\* The workers after an answer are consistent with the requests that are left.
LEMMA AnsweredTasks ==
  ASSUME Inv, TypeOK', NEW q \in Requests, InFlight(q), NEW ok \in BOOLEAN,
         worker' = Answered(req[q].worker, q, ok), \A j \in Jobs : RowMoves(row[j], row'[j]),
         \A p \in Requests : p # q /\ InFlight(p) => req'[p] # NoRequest /\ SameRequest(req'[p], req[p])
  PROVE  TasksOK' /\ Apart'
<1>1. \A v \in Workers :
        \/ worker[v].waits # q /\ worker'[v] = worker[v]
        \/ /\ worker[v].waits = q /\ worker[v].stage # "idle"
           /\ \/ worker'[v] = Idle
              \/ /\ worker'[v].stage # "idle" /\ worker'[v].waits = NoRequest
                 /\ worker'[v].job = worker[v].job /\ worker'[v].attempt = worker[v].attempt
  BY AnsweredWorkers DEF Inv
<1>2. \A v \in Workers :
        \/ worker'[v] = Idle
        \/ /\ worker'[v].stage # "idle" /\ worker[v].stage # "idle"
           /\ worker'[v].job = worker[v].job /\ worker'[v].attempt = worker[v].attempt
        \/ worker'[v] = worker[v]
  BY <1>1
<1>3. \A v \in Workers : TaskOK(worker'[v], row')
  BY <1>2, TaskKept DEF Inv
<1>4. ASSUME NEW v \in Workers PROVE WaitsOK(v, worker'[v], req')
  <2>1. CASE worker[v].waits # q /\ worker'[v] = worker[v]
    <3>1. worker[v] \in Task
      BY DEF Inv, TypeOK
    <3>2. worker[v].waits \in Requests \cup {NoRequest}
      BY <3>1 DEF Task
    <3>3. worker[v].waits # NoRequest => InFlight(worker[v].waits)
      BY DEF Inv, TasksOK, WaitsOK, InFlight
    <3>4. WaitsOK(v, worker[v], req')
      BY <2>1, <3>2, <3>3, WaitsKept DEF Inv
    <3>5. QED
      BY <2>1, <3>4
  <2>2. CASE worker'[v] = Idle \/ worker'[v].waits = NoRequest
    BY <2>2 DEF WaitsOK, Idle
  <2>3. QED
    BY <1>1, <2>1, <2>2
<1>5. QED
  BY <1>2, <1>3, <1>4, ApartKept DEF Inv, TasksOK

\* A request ends in vain.  A worker that was giving its attempt up by it leaves an
\* attempt that was owed before.
LEMMA EndInv ==
  ASSUME Inv, NEW q \in Requests, InFlight(q), req' = Ended(q), 
         worker' = Answered(req[q].worker, q, FALSE), UNCHANGED <<row, stalls, retries>>, req[q].kind = "fail" => ~req[q].fresh,
         bucket' \in [Jobs -> [Attempts -> {"none", "open", "object", "gone"}]], OutputsOK', Discards'
  PROVE  Inv'
<1>1. row' = row /\ stalls' = stalls /\ retries' = retries
  OBVIOUS
<1>2. /\ req' \in [Requests -> Request \cup {NoRequest}] /\ req'[q] = NoRequest
      /\ \A p \in Requests : p # q => req'[p] = req[p]
  BY DEF Ended, Inv, TypeOK
<1>0. worker' = Answered(req[q].worker, q, FALSE) /\ FALSE \in BOOLEAN
  OBVIOUS
<1>t. worker' \in [Workers -> Task]
  BY <1>0, AnsweredWorkers DEF Inv
<1>3. \A v \in Workers :
        \/ worker[v].waits # q /\ worker'[v] = worker[v]
        \/ /\ worker[v].waits = q /\ req[q].worker = v
           /\ \/ worker'[v] = Idle /\ req[q].kind = "fail"
              \/ worker'[v].job = worker[v].job /\ worker'[v].attempt = worker[v].attempt
  <2> SUFFICES ASSUME NEW v \in Workers
               PROVE  \/ worker[v].waits # q /\ worker'[v] = worker[v]
                      \/ /\ worker[v].waits = q /\ req[q].worker = v
                         /\ \/ worker'[v] = Idle /\ req[q].kind = "fail"
                            \/ worker'[v].job = worker[v].job /\ worker'[v].attempt = worker[v].attempt
    OBVIOUS
  <2>1. \/ worker[v].waits # q /\ worker'[v] = worker[v]
        \/ /\ worker[v].waits = q /\ req[q].worker = v /\ worker[v].stage # "idle"
           /\ \/ worker'[v] = Idle
              \/ worker'[v].job = worker[v].job /\ worker'[v].attempt = worker[v].attempt
    BY <1>0, AnsweredWorkers DEF Inv
  <2>2. worker[v].stage # "idle" /\ worker'[v] = Idle => req[q].kind = "fail"
    BY RefusedWorker DEF Inv
  <2>3. QED
    BY <2>1, <2>2
<1>4. TypeOK' /\ RowsOK'
  BY <1>1, <1>2, <1>t, RowsSame, TypesNext
<1>5. RequestsOK'
  BY <1>1, <1>2 DEF Inv, RequestsOK, InFlight
<1>6. TasksOK' /\ Apart'
  BY <1>0, <1>1, <1>2, <1>4, RowsSame, AnsweredTasks DEF InFlight, SameRequest
<1>7. ASSUME NEW i \in Jobs PROVE Paid(i)'
  <2>1. ASSUME NEW p \in Requests, Stray(p, i)' PROVE Stray(p, i)
    <3>1. p # q /\ InFlight(p) /\ req'[p] = req[p] /\ req[p].kind \in WorkerKinds
      BY <2>1, <1>2 DEF Stray, InFlight
    <3>2. req[p].worker \in Workers
      BY <3>1 DEF Inv, RequestsOK, RequestOK
    <3>3. worker'[req[p].worker].waits # p => worker[req[p].worker].waits # p
      BY <3>1, <3>2, <1>3
    <3>4. QED
      BY <2>1, <3>1, <3>3, <1>1 DEF Stray, InFlight
  <2>2. \A p \in Requests : Retrying(p, i)' => Retrying(p, i)
    BY <1>2 DEF Retrying, InFlight
  <2>3. ASSUME AtWork(i), ~AtWork(i)' PROVE Stray(q, i)
    <3>1. PICK v \in Workers : worker[v].job = i /\ worker[v].attempt = row[i].attempt
      BY <2>3 DEF AtWork
    <3>2. worker[v].waits = q /\ req[q].kind = "fail"
      <4>1. ~(worker'[v].job = i /\ worker'[v].attempt = row[i].attempt)
        BY <2>3, <1>1 DEF AtWork
      <4>2. QED
        BY <4>1, <3>1, <1>3
    <3>3. q # NoRequest
      BY SitesAssumption
    <3>4. req[q].kind \in WorkerKinds /\ req[q].job = i /\ req[q].token = row[i].attempt
      BY <3>1, <3>2, <3>3 DEF Inv, TasksOK, WaitsOK
    <3>5. QED
      BY <3>2, <3>4 DEF Stray
  <2>4. Owed(i)' => Owed(i)
    BY <1>1, <2>1, <2>2, <2>3 DEF Owed
  <2>5. QED
    BY <1>1, <2>4, RowsSame, PaidKept DEF Inv
<1>8. Counted'
  BY <1>1 DEF Inv, Counted
<1>9. QED
  BY <1>4, <1>5, <1>6, <1>7, <1>8 DEF Inv

\* The row has changed: an upload the request had opened is aborted.
LEMMA RefuseInv == ASSUME Inv, NEW q \in Requests, Refuse(q) PROVE Inv'
<1> DEFINE r == req[q]
<1>1. /\ InFlight(q) /\ req' = Ended(q) /\ worker' = Answered(r.worker, q, FALSE)
      /\ r.kind = "fail" => ~r.fresh
  BY DEF Refuse, Ready, Swaps, InFlight
<1>s. row' = row /\ stalls' = stalls /\ retries' = retries
  BY DEF Refuse, NoStall
<1>2. PICK j \in Jobs, n \in Attempts : j = r.job /\ n = r.was.attempt
  BY <1>1, FlightTypes, RowTypes DEF Inv
<1>3. /\ req' \in [Requests -> Request \cup {NoRequest}] /\ req'[q] = NoRequest
      /\ \A p \in Requests : p # q => req'[p] = req[p]
  BY <1>1 DEF Ended, Inv, TypeOK
<1>4. CASE r.kind # "artifact"
  <2>1. bucket' = bucket
    BY <1>4 DEF Refuse
  <2>2. OutputsOK' /\ Discards'
    BY <1>s, <1>3, <1>4, <2>1, RowsSame, OutputsKept DEF Inv
  <2>3. QED
    <3>1. bucket' \in [Jobs -> [Attempts -> {"none", "open", "object", "gone"}]]
      BY <2>1 DEF Inv, TypeOK
    <3>2. QED
      BY <1>1, <1>s, <2>2, <3>1, EndInv
<1>5. CASE r.kind = "artifact"
  <2>1. bucket' = [bucket EXCEPT ![j][n] = "gone"]
    BY <1>2, <1>5 DEF Refuse
  <2>2. /\ bucket' \in [Jobs -> [Attempts -> {"none", "open", "object", "gone"}]]
        /\ bucket'[j][n] = "gone"
        /\ \A i \in Jobs, m \in Attempts : i # j \/ m # n => bucket'[i][m] = bucket[i][m]
    BY <1>2, <2>1 DEF Inv, TypeOK
  <2>3. ASSUME NEW i \in Jobs, NEW m \in Attempts, Covered(i, m) PROVE Covered(i, m)'
    <3>1. CASE i = j /\ m = n
      BY <2>2, <3>1 DEF Covered
    <3>2. CASE ~(i = j /\ m = n)
      <4>1. \A p \in Requests : Opening(p, i, m) => Opening(p, i, m)'
        BY <3>2, <1>2, <1>3 DEF Opening, InFlight
      <4>2. QED
        BY <2>2, <2>3, <3>2, <4>1 DEF Covered
    <3>3. QED
      BY <3>1, <3>2
  <2>4. n <= row[j].attempt
    BY <1>1, <1>2 DEF Inv, RequestsOK, RequestOK
  <2>5. n \in Nat /\ row[j].attempt \in Nat
    BY <1>2, <1>s, AttemptsNat, RowsSame
  <2>6. OutputsOK'
    BY <1>s, <2>2, <2>3, <2>4, <2>5 DEF Inv, OutputsOK
  <2>7. Discards'
    <3> SUFFICES ASSUME NEW p \in Requests, req'[p] # NoRequest, req'[p].kind \in {"reap", "retry"},
                        req'[p].step = "touched", req'[p].fresh
                 PROVE  \A i, m : i = req'[p].job /\ m = req'[p].was.attempt => Covered(i, m)'
      BY DEF Discards, InFlight
    <3>1. InFlight(p) /\ req'[p] = req[p]
      BY <1>3 DEF InFlight
    <3>2. req[p].job \in Jobs /\ req[p].was.attempt \in Attempts
      BY <3>1, FlightTypes, RowTypes DEF Inv
    <3>3. Covered(req[p].job, req[p].was.attempt)
      BY <3>1 DEF Inv, Discards
    <3>4. QED
      BY <2>3, <3>1, <3>2, <3>3
  <2>8. QED
    BY <1>1, <1>s, <2>2, <2>6, <2>7, EndInv
<1>6. QED
  BY <1>4, <1>5

\* The bucket's part of a request: what it opens it will name or abort, and what it
\* discards stays discarded.
LEMMA TouchInv == ASSUME Inv, NEW q \in Requests, Touch(q) PROVE Inv'
<1>0. InFlight(q) /\ req[q].job \in Jobs /\ req[q].was.attempt \in Attempts
  BY FlightTypes, RowTypes DEF Touch, InFlight, Inv
<1>p. PICK j \in Jobs, n \in Attempts : j = req[q].job /\ n = req[q].was.attempt
  BY <1>0
<1> DEFINE r == req[q]
           now == bucket[j][n]
           next == CASE r.kind \in {"reap", "retry"} -> IF r.was.upload THEN Discarded(now) ELSE now
                     [] r.kind = "artifact" -> "open"
                     [] r.kind = "parts" -> now
                     [] r.kind = "complete" -> IF now = "open" THEN "object" ELSE now
           works == CASE r.kind = "parts" -> now = "open"
                      [] r.kind = "complete" -> now \in {"open", "object"}
                      [] OTHER -> TRUE
<1>1. InFlight(q) /\ r.step = "read" /\ r.kind \notin {"heartbeat", "fail"}
  BY DEF Touch, InFlight
<1>2. /\ r \in Request /\ r.was \in Rows /\ r.was.upload \in BOOLEAN
      /\ r.kind \in {"artifact", "parts", "complete", "reap", "retry"} /\ r.fresh \in BOOLEAN
  BY <1>1, FlightTypes, RowTypes DEF Inv, Kinds, WorkerKinds
<1>3. now \in {"none", "open", "object", "gone"}
  BY <1>2 DEF Inv, TypeOK
<1>4. /\ bucket' = [bucket EXCEPT ![j][n] = next] /\ row' = row
      /\ stalls' = stalls /\ retries' = retries
      /\ IF works THEN req' = [req EXCEPT ![q].step = "touched"] /\ worker' = worker
                  ELSE req' = Ended(q) /\ worker' = Answered(r.worker, q, FALSE)
  BY <1>p DEF Touch, NoStall
<1>5. CASE ~works
  <2>1. r.kind \in {"parts", "complete"} /\ next = now
    BY <1>2, <1>5
  <2> HIDE DEF now, next, works
  <2>2. bucket' = bucket
    BY <1>4, <2>1, <1>2 DEF Inv, TypeOK, now
  <2>3. /\ req' \in [Requests -> Request \cup {NoRequest}] /\ req'[q] = NoRequest
        /\ \A p \in Requests : p # q => req'[p] = req[p]
    BY <1>4, <1>5 DEF Ended, Inv, TypeOK
  <2>4. OutputsOK' /\ Discards'
    BY <1>1, <1>4, <2>1, <2>2, <2>3, RowsSame, OutputsKept
  <2>5. QED
    BY <1>1, <1>4, <1>5, <2>2, <2>4, EndInv DEF Inv, TypeOK
<1>6. CASE works
  <2>1. /\ next \in {"none", "open", "object", "gone"}
        /\ r.kind \in {"reap", "retry"} /\ r.was.upload => next \in {"none", "gone"}
        /\ next = now \/ r.kind = "artifact" \/ next \in {"none", "gone"} \/ now = "open"
        /\ r.kind \in {"reap", "retry"} /\ ~r.was.upload => next = now
    BY <1>2, <1>3 DEF Discarded
  <2> HIDE DEF now, next, works
  <2>2. /\ bucket' \in [Jobs -> [Attempts -> {"none", "open", "object", "gone"}]]
        /\ bucket'[j][n] = next
        /\ \A i \in Jobs, m \in Attempts : i # j \/ m # n => bucket'[i][m] = bucket[i][m]
    BY <1>2, <1>4, <2>1 DEF Inv, TypeOK
  <2> DEFINE x == [r EXCEPT !.step = "touched"]
  <2>3. x \in Request /\ SameRequest(x, r) /\ x.fresh = r.fresh /\ x.step = "touched"
    BY <1>2 DEF Request, SameRequest
  <2>4. x # NoRequest
    BY <2>3, NoRequestAssumption
  <2>5. req' = [req EXCEPT ![q] = x] /\ worker' = worker
    BY <1>4, <1>6
  <2> HIDE DEF x
  <2>6. /\ req' \in [Requests -> Request \cup {NoRequest}] /\ req'[q] = x
        /\ \A p \in Requests : p # q => req'[p] = req[p]
    BY <2>3, <2>5 DEF Inv, TypeOK
  <2>7. TypeOK' /\ RowsOK'
    BY <1>4, <2>2, <2>5, <2>6, RowsSame, TypesNext DEF Inv, TypeOK
  <2>8. row[j] \in Rows /\ RowMoves(row[j], row[j]) /\ row[j] = AtLease(row[j], row[j].lease)
    BY <1>2, <1>4, RowsSame, AtLeaseTwice DEF Inv, TypeOK
  <2>9. RequestOK(x, row[j])
    BY <1>p, <1>1, <2>3, <2>8, RequestKept DEF Inv
  <2>10. RequestsOK'
    <3>1. x.job = j
      BY <1>p, <2>3 DEF SameRequest
    <3>2. QED
      BY <1>4, <2>6, <2>9, <3>1 DEF Inv, RequestsOK, InFlight
  <2>11. TasksOK' /\ Apart'
    <3>1. ASSUME NEW v \in Workers PROVE WaitsOK(v, worker[v], req')
      <4>1. worker[v] \in Task
        BY DEF Inv, TypeOK
      <4>2. worker[v].waits \in Requests \cup {NoRequest}
        BY <4>1 DEF Task
      <4>3. worker[v].waits # NoRequest => InFlight(worker[v].waits)
        BY DEF Inv, TasksOK, WaitsOK, InFlight
      <4>4. QED
        BY <2>3, <2>4, <2>6, <4>2, <4>3, WaitsKept DEF Inv, SameRequest, InFlight
    <3>2. QED
      BY <1>4, <2>5, <3>1 DEF Inv, TasksOK, Apart
  <2>12. ASSUME NEW i \in Jobs PROVE Paid(i)'
    <3>1. \A p \in Requests : (Stray(p, i)' => Stray(p, i)) /\ (Retrying(p, i)' => Retrying(p, i))
      BY <1>1, <1>4, <2>3, <2>5, <2>6 DEF Stray, Retrying, InFlight, SameRequest
    <3>2. AtWork(i) => AtWork(i)'
      BY <1>4, <2>5 DEF AtWork
    <3>3. Owed(i)' => Owed(i)
      BY <1>4, <3>1, <3>2, OwedKept
    <3>4. QED
      BY <1>4, <3>3, RowsSame, PaidKept DEF Inv
  <2>13. ASSUME NEW i \in Jobs, NEW m \in Attempts, Covered(i, m) PROVE Covered(i, m)'
    <3>1. \A p \in Requests : Opening(p, i, m) => Opening(p, i, m)'
      BY <1>1, <2>6 DEF Opening, InFlight
    <3>2. CASE ~(i = j /\ m = n) \/ next = now
      BY <2>2, <2>13, <3>1, <3>2 DEF Covered, now
    <3>3. CASE i = j /\ m = n /\ r.kind = "artifact"
      <4>1. Opening(q, i, m)'
        BY <1>p, <2>3, <2>4, <2>6, <3>3 DEF Opening, InFlight, SameRequest
      <4>2. QED
        BY <4>1 DEF Covered
    <3>4. CASE i = j /\ m = n /\ (next \in {"none", "gone"} \/ now = "open")
      BY <2>2, <2>13, <3>1, <3>4 DEF Covered, now
    <3>5. QED
      BY <2>1, <3>2, <3>3, <3>4
  <2>14. n <= row[j].attempt /\ n \in Nat /\ row[j].attempt \in Nat
    BY <1>p, <1>1, <1>2, <1>4, AttemptsNat, RowsSame DEF Inv, RequestsOK, RequestOK
  <2>15. OutputsOK'
    BY <1>4, <2>2, <2>13, <2>14 DEF Inv, OutputsOK
  <2>16. Discards'
    <3> SUFFICES ASSUME NEW p \in Requests, req'[p] # NoRequest, req'[p].kind \in {"reap", "retry"},
                        req'[p].step = "touched", req'[p].fresh
                 PROVE  \A i, m : i = req'[p].job /\ m = req'[p].was.attempt => Covered(i, m)'
      BY DEF Discards, InFlight
    <3>1. CASE p # q
      <4>1. InFlight(p) /\ req'[p] = req[p]
        BY <2>6, <3>1 DEF InFlight
      <4>2. req[p].job \in Jobs /\ req[p].was.attempt \in Attempts
        BY <4>1, FlightTypes, RowTypes DEF Inv
      <4>3. Covered(req[p].job, req[p].was.attempt)
        BY <4>1 DEF Inv, Discards
      <4>4. QED
        BY <2>13, <4>1, <4>2, <4>3
    <3>2. CASE p = q
      <4>1. req'[p].job = j /\ req'[p].was.attempt = n /\ r.kind \in {"reap", "retry"} /\ r.fresh
        BY <1>p, <2>3, <2>6, <3>2 DEF SameRequest
      <4>2. CASE r.was.upload
        <5>1. Covered(j, n)'
          BY <2>1, <2>2, <4>1, <4>2 DEF Covered
        <5>2. QED
          BY <4>1, <5>1
      <4>3. CASE ~r.was.upload
        <5>1. row[j].attempt = n /\ ~row[j].upload
          BY <1>p, <1>1, <4>1, <4>3, FreshRow DEF Inv
        <5>2. Covered(j, n)
          BY <1>2, <5>1 DEF Inv, OutputsOK
        <5>3. QED
          BY <1>2, <2>13, <4>1, <5>2
      <4>4. QED
        BY <4>2, <4>3
    <3>3. QED
      BY <3>1, <3>2
  <2>17. QED
    BY <1>4, <2>7, <2>10, <2>11, <2>12, <2>15, <2>16 DEF Inv, Counted
<1>7. QED
  BY <1>5, <1>6

-----------------------------------------------------------------------------
(* Steps that write a row *)

\* Whoever writes the row of job j owes nothing new to the other jobs.
LEMMA WrotePaid ==
  ASSUME Inv, NEW j \in Jobs, Overtakes(j), NEW i \in Jobs, i # j, row'[i] = row[i],
         stalls' = stalls, retries' = retries,
         \A v \in Workers : worker[v].job = i => worker'[v] = worker[v],
         \A v \in Workers, p \in Requests : req'[p] # NoRequest /\ worker[v].waits = p
                                              => worker'[v].waits = p
  PROVE  Paid(i)'
<1>1. ASSUME NEW p \in Requests, Stray(p, i)' PROVE Stray(p, i)
  <2>1. InFlight(p) /\ req'[p] = req[p] /\ req[p].kind \in WorkerKinds /\ req'[p] # NoRequest
    BY <1>1 DEF Stray, Overtakes, SameRequest, InFlight
  <2>2. req[p].worker \in Workers
    BY <2>1 DEF Inv, RequestsOK, RequestOK
  <2>3. worker'[req[p].worker].waits # p => worker[req[p].worker].waits # p
    BY <2>1, <2>2
  <2>4. QED
    BY <1>1, <2>1, <2>3 DEF Stray, InFlight
<1>2. \A p \in Requests : Retrying(p, i)' => Retrying(p, i)
  BY DEF Retrying, Overtakes, SameRequest, InFlight
<1>3. AtWork(i) => AtWork(i)'
  BY DEF AtWork
<1>4. Owed(i)' => Owed(i)
  BY <1>1, <1>2, <1>3, OwedKept
<1>5. row[i].attempt \in Nat
  BY RowTypes, AttemptsNat DEF Inv, TypeOK
<1>6. QED
  BY <1>4, <1>5, PaidKept DEF Inv

\* A write in which no request is answered and no worker notices anything, but the one
\* that may have been idle and now has the job.
LEMMA PlainWriteInv ==
  ASSUME Inv, NEW j \in Jobs, NEW x, RowOK(x), RowMoves(row[j], x), Wrote(j, x, req),
         bucket' = bucket, stalls' = stalls, retries' = retries,
         \/ x.attempt = row[j].attempt /\ x.upload = row[j].upload
         \/ x.attempt = row[j].attempt + 1 /\ Covered(j, row[j].attempt),
         worker' \in [Workers -> Task], Apart', \A w \in Workers : TaskOK(worker'[w], row'),
         \A w \in Workers : worker'[w] = worker[w] \/ (worker[w] = Idle /\ worker'[w].waits = NoRequest),
         Paid(j)'
  PROVE  Inv'
<1>1. /\ row' \in [Jobs -> Rows] /\ row'[j] = x /\ \A i \in Jobs : i # j => row'[i] = row[i]
      /\ req' \in [Requests -> Request \cup {NoRequest}]
      /\ RowsOK' /\ RequestsOK' /\ Overtakes(j)
      /\ \A p \in Requests : req[p] = NoRequest <=> req'[p] = NoRequest
  BY WroteRows DEF Inv, TypeOK
<1>2. TypeOK'
  BY <1>1, TypesNext DEF Inv, TypeOK
<1>3. OutputsOK' /\ Discards'
  BY <1>1, WroteOutputs DEF InFlight, RowOK
<1>4. Idle.waits = NoRequest /\ Idle.job \notin Jobs /\ NoRequest \notin Requests
  BY SitesAssumption DEF Idle
<1>5. TasksOK'
  <2> SUFFICES ASSUME NEW w \in Workers PROVE WaitsOK(w, worker'[w], req')
    BY DEF TasksOK
  <2>1. worker[w] \in Task
    BY DEF Inv, TypeOK
  <2>2. worker[w].waits \in Requests \cup {NoRequest}
    BY <2>1 DEF Task
  <2>3. worker[w].waits # NoRequest => InFlight(worker[w].waits)
    BY DEF Inv, TasksOK, WaitsOK, InFlight
  <2>4. \A p \in Requests : InFlight(p) => req'[p] # NoRequest /\ SameRequest(req'[p], req[p])
    BY <1>1 DEF Overtakes, SameRequest, InFlight
  <2>5. WaitsOK(w, worker[w], req')
    BY <2>2, <2>3, <2>4, WaitsKept DEF Inv
  <2>6. QED
    BY <2>5 DEF WaitsOK
<1>6. ASSUME NEW i \in Jobs PROVE Paid(i)'
  <2>1. CASE i = j
    BY <2>1
  <2>2. CASE i # j
    <3>1. \A v \in Workers : worker[v].job = i => worker'[v] = worker[v]
      BY <1>4
    <3>2. \A v \in Workers, p \in Requests : worker[v].waits = p => worker'[v].waits = p
      BY <1>4
    <3>3. QED
      BY <1>1, <2>2, <3>1, <3>2, WrotePaid
  <2>3. QED
    BY <2>1, <2>2
<1>7. QED
  BY <1>1, <1>2, <1>3, <1>5, <1>6 DEF Inv, Counted

\* A row that is not running and about which no fresh retry is under way owes nothing.
LEMMA NothingOwed ==
  ASSUME Inv, NEW j \in Jobs, Overtakes(j), row'[j].state # "running"
  PROVE  ~Owed(j)'
BY DEF Owed, Retrying, Overtakes, InFlight, SameRequest

\* A batch is submitted: the first attempt costs nothing.
LEMMA SubmitInv == ASSUME Inv, NEW j \in Jobs, Submit(j) PROVE Inv'
<1> DEFINE x == [row[j] EXCEPT !.state = "queued", !.attempt = 1]
<1>1. /\ row[j] \in Rows /\ RowOK(row[j]) /\ row[j].state = "absent"
      /\ row[j].attempt = 0 /\ ~row[j].upload /\ row[j].artifact = 0
  BY DEF Submit, Inv, TypeOK, RowsOK, RowOK
<1>2. 1 \in Attempts /\ 0 \in Attempts
  BY SitesAssumption DEF Attempts
<1>3. x \in Rows /\ x.state = "queued" /\ x.attempt = 1 /\ x.artifact = 0
  BY <1>1, <1>2 DEF Rows, States
<1>4. /\ Wrote(j, x, req) /\ bucket' = bucket /\ worker' = worker
      /\ stalls' = stalls /\ retries' = retries
  BY DEF Submit, NoStall
<1> HIDE DEF x
<1>5. RowOK(x) /\ RowMoves(row[j], x)
  BY <1>1, <1>3 DEF RowOK, RowMoves
<1>6. /\ row'[j] = x /\ \A i \in Jobs : RowMoves(row[i], row'[i])
      /\ RowsOK' /\ Overtakes(j)
      /\ row' \in [Jobs -> Rows] /\ req' \in [Requests -> Request \cup {NoRequest}]
  BY <1>4, <1>5, WroteRows DEF Inv, TypeOK
<1>7. Covered(j, row[j].attempt)
  BY <1>1, <1>2 DEF Inv, OutputsOK
<1>8. TypeOK'
  BY <1>4, <1>6, TypesNext DEF Inv, TypeOK
<1>9. Apart' /\ \A w \in Workers : TaskOK(worker'[w], row')
  BY <1>4, <1>6, <1>8, TaskKept DEF Inv, Apart
<1>10. Paid(j)'
  <2>1. ~Owed(j)'
    BY <1>3, <1>6, NothingOwed
  <2>2. stalls' \in Nat /\ retries' \in Nat
    BY <1>4, SitesAssumption DEF Inv, Counted
  <2>3. QED
    BY <1>3, <1>6, <2>1, <2>2 DEF Paid
<1>11. QED
  BY <1>1, <1>3, <1>4, <1>5, <1>7, <1>8, <1>9, <1>10, PlainWriteInv DEF TypeOK

\* A user cancels a job: no attempt is owed to it any more.
LEMMA CancelInv == ASSUME Inv, NEW j \in Jobs, Cancel(j) PROVE Inv'
<1> DEFINE s == IF row[j].state = "queued" THEN "cancelled" ELSE "cancelling"
           x == [row[j] EXCEPT !.state = s]
<1>1. row[j] \in Rows /\ RowOK(row[j]) /\ row[j].state \in {"queued", "running"}
  BY DEF Cancel, Inv, TypeOK, RowsOK
<1>2. /\ x \in Rows /\ x.state \in {"cancelled", "cancelling"}
      /\ x.attempt = row[j].attempt /\ x.upload = row[j].upload /\ x.artifact = row[j].artifact
  BY <1>1 DEF Rows, States
<1>3. /\ Wrote(j, x, req) /\ bucket' = bucket /\ worker' = worker
      /\ stalls' = stalls /\ retries' = retries
  BY DEF Cancel, NoStall
<1> HIDE DEF x
<1>4. row[j].attempt \in Nat
  BY <1>1, RowTypes, AttemptsNat
<1>5. RowOK(x) /\ RowMoves(row[j], x)
  BY <1>1, <1>2, <1>4 DEF RowOK, RowMoves
<1>6. /\ row'[j] = x /\ \A i \in Jobs : RowMoves(row[i], row'[i])
      /\ RowsOK' /\ Overtakes(j)
      /\ row' \in [Jobs -> Rows] /\ req' \in [Requests -> Request \cup {NoRequest}]
  BY <1>3, <1>5, WroteRows DEF Inv, TypeOK
<1>7. TypeOK'
  BY <1>3, <1>6, TypesNext DEF Inv, TypeOK
<1>8. Apart' /\ \A w \in Workers : TaskOK(worker'[w], row')
  BY <1>3, <1>6, <1>7, TaskKept DEF Inv, Apart
<1>9. Paid(j)'
  <2>1. ~Owed(j)'
    BY <1>2, <1>6, NothingOwed
  <2>2. QED
    BY <1>2, <1>3, <1>4, <1>6, <2>1, PaidKept DEF Inv
<1>10. QED
  BY <1>2, <1>3, <1>5, <1>7, <1>8, <1>9, PlainWriteInv DEF TypeOK

\* A worker claims a queued job: nobody was at work on its attempt before.
LEMMA ClaimInv == ASSUME Inv, NEW w \in Workers, NEW j \in Jobs, Claim(w, j) PROVE Inv'
<1> DEFINE x == [row[j] EXCEPT !.state = "running", !.lease = "live", !.held = TRUE]
           t == [job |-> j, attempt |-> row[j].attempt, stage |-> "rendering", waits |-> NoRequest]
<1>1. row[j] \in Rows /\ RowOK(row[j]) /\ row[j].state = "queued" /\ worker[w] = Idle
  BY DEF Claim, Inv, TypeOK, RowsOK
<1>2. /\ x \in Rows /\ x.state = "running" /\ x.lease = "live" /\ x.held
      /\ x.attempt = row[j].attempt /\ x.upload = row[j].upload /\ x.artifact = row[j].artifact
  BY <1>1 DEF Rows, States
<1>3. /\ Wrote(j, x, req) /\ bucket' = bucket /\ worker' = [worker EXCEPT ![w] = t]
      /\ stalls' = stalls /\ retries' = retries
  BY DEF Claim, NoStall
<1>4. row[j].attempt \in Nat /\ row[j].attempt \in Attempts
  BY <1>1, RowTypes, AttemptsNat
<1>5. /\ t \in Task /\ t.stage # "idle" /\ t.waits = NoRequest
      /\ t.job = j /\ t.attempt = row[j].attempt
  BY <1>4 DEF Task
<1> HIDE DEF x, t
<1>6. RowOK(x) /\ RowMoves(row[j], x)
  BY <1>1, <1>2, <1>4 DEF RowOK, RowMoves
<1>7. /\ row'[j] = x /\ \A i \in Jobs : RowMoves(row[i], row'[i])
      /\ RowsOK' /\ Overtakes(j)
      /\ row' \in [Jobs -> Rows] /\ req' \in [Requests -> Request \cup {NoRequest}]
  BY <1>3, <1>6, WroteRows DEF Inv, TypeOK
<1>8. worker' \in [Workers -> Task] /\ worker'[w] = t /\ \A v \in Workers : v # w => worker'[v] = worker[v]
  BY <1>3, <1>5 DEF Inv, TypeOK
<1>9. TypeOK'
  BY <1>3, <1>7, <1>8, TypesNext DEF Inv, TypeOK
<1>10. \A v \in Workers : TaskOK(worker'[v], row')
  <2>1. \A v \in Workers : v # w => TaskOK(worker'[v], row')
    BY <1>7, <1>8, <1>9, TaskKept DEF Inv
  <2>2. TaskOK(t, row')
    BY <1>2, <1>4, <1>5, <1>7 DEF TaskOK
  <2>3. QED
    BY <1>8, <2>1, <2>2
<1>11. ASSUME NEW v \in Workers, worker[v].stage # "idle", worker[v].job = j
       PROVE  worker[v].attempt # row[j].attempt
  BY <1>1, <1>11 DEF Inv, TasksOK, TaskOK
<1>12. Apart'
  <2> SUFFICES ASSUME NEW u \in Workers, NEW v \in Workers, u # v,
                      worker'[u].stage # "idle", worker'[v].stage # "idle", worker'[u].job = worker'[v].job
               PROVE  worker'[u].attempt # worker'[v].attempt
    BY DEF Apart
  <2>1. CASE u = w
    BY <2>1, <1>5, <1>8, <1>11
  <2>2. CASE v = w
    BY <2>2, <1>5, <1>8, <1>11
  <2>3. CASE u # w /\ v # w
    BY <2>3, <1>8 DEF Inv, Apart
  <2>4. QED
    BY <2>1, <2>2, <2>3
<1>13. Paid(j)'
  <2>1. AtWork(j)'
    BY <1>2, <1>5, <1>7, <1>8 DEF AtWork
  <2>2. ASSUME NEW p \in Requests PROVE ~Stray(p, j)' /\ ~Retrying(p, j)'
    <3>1. req'[p] # NoRequest /\ req'[p].job = j => InFlight(p) /\ SameRequest(req'[p], req[p]) /\ req'[p].fresh = FALSE
      BY <1>7 DEF Overtakes, SameRequest
    <3>2. InFlight(p) /\ req[p].job = j /\ req[p].kind \in WorkerKinds => req[p].token # row[j].attempt
      BY <1>1 DEF Inv, RequestsOK, RequestOK
    <3>3. QED
      BY <1>2, <1>7, <3>1, <3>2 DEF Stray, Retrying, InFlight, SameRequest
  <2>3. ~Owed(j)'
    BY <1>2, <1>7, <2>1, <2>2 DEF Owed
  <2>4. QED
    BY <1>2, <1>3, <1>4, <1>7, <2>3, PaidKept DEF Inv
<1>14. QED
  BY <1>1, <1>2, <1>3, <1>5, <1>6, <1>8, <1>10, <1>12, <1>13, PlainWriteInv

\* What a request's write makes of the row it finds: the row of the request, moved on.
LEMMA WriteRow ==
  ASSUME Inv, NEW q \in Requests, Write(q)
  PROVE  LET j == req[q].job
             x == After(req[q].kind, row[j]) IN
         /\ InFlight(q) /\ req[q].fresh /\ j \in Jobs /\ req[q].kind \in Kinds /\ row[j] \in Rows
         /\ Wrote(j, x, Ended(q)) /\ RowOK(x)
         /\ x.state = Wins(req[q].kind, row[j])
         /\ x.attempt = IF x.state = "queued" THEN row[j].attempt + 1 ELSE row[j].attempt
         /\ x.artifact = IF x.state = "succeeded" THEN row[j].attempt ELSE row[j].artifact
         /\ x.state # "queued" => x.upload = (row[j].upload \/ req[q].kind = "artifact")
         /\ req[q].kind \in {"artifact", "parts"} => x.lease = row[j].lease
         /\ x.state = "queued" => Owed(j) /\ req[q].kind \in {"reap", "retry"} /\ req[q].step = "touched"
         /\ row[j].attempt \in Nat /\ row[j].state \notin {"absent", "queued", "succeeded", "cancelled"}
         /\ row[j].state = "failed" => req[q].kind = "retry"
<1> DEFINE r == req[q]
           j == r.job
           kind == r.kind
           x == After(kind, row[j])
<1>1. InFlight(q) /\ r.fresh /\ Ready(r)
  BY DEF Write, Ready, Swaps, InFlight
<1>2. /\ r \in Request /\ j \in Jobs /\ kind \in Kinds /\ r.was \in Rows /\ row[j] \in Rows
  BY <1>1, FlightTypes DEF Inv
<1>3. /\ Admitted(kind, r.was, r.token) /\ AtLease(r.was, row[j].lease) = row[j]
      /\ kind = "reap" => row[j].lease = "expired"
  BY <1>1 DEF Inv, RequestsOK, RequestOK
<1>4. Wrote(j, x, Ended(q))
  BY <1>3 DEF Write, AtLease
<1>5. RowOK(row[j]) /\ row[j].attempt \in Nat
  BY <1>2, RowTypes, AttemptsNat DEF Inv, RowsOK
<1>6. /\ row[j].state = r.was.state
      /\ kind \in WorkerKinds => row[j].state \in {"running", "cancelling"}
      /\ kind = "reap" => row[j].state \in {"running", "cancelling"}
      /\ kind = "retry" => row[j].state = "failed"
  <2>1. row[j].state = r.was.state
    BY <1>1, FreshRow DEF Inv
  <2>2. QED
    BY <1>2, <1>3, <2>1, AdmittedOn
<1>7. Wins(kind, row[j]) = "queued" =>
        Owed(j) /\ kind \in {"reap", "retry"} /\ r.step = "touched"
  <2>1. Wins(kind, row[j]) = "queued" => kind = "retry" \/ (kind = "reap" /\ row[j].state # "cancelling")
    BY <1>2 DEF Wins, Kinds, WorkerKinds
  <2>2. kind = "retry" => Owed(j)
    BY <1>1 DEF Owed, Retrying
  <2>3. kind = "reap" /\ row[j].state # "cancelling" => Owed(j)
    BY <1>3, <1>6 DEF Owed
  <2>4. kind \in {"reap", "retry"} => r.step = "touched"
    BY <1>1 DEF Ready
  <2>5. QED
    BY <2>1, <2>2, <2>3, <2>4
<1>8. Wins(kind, row[j]) = "queued" => row[j].attempt + 1 \in Attempts
  <2>1. Owed(j) => row[j].attempt + 1 <= 1 + stalls + retries
    BY <1>2 DEF Inv, Paid
  <2>2. stalls \in 0..MaxStalls /\ retries \in 0..MaxRetries
    BY DEF Inv, Counted
  <2>3. QED
    BY <1>5, <1>7, <2>1, <2>2, SitesAssumption DEF Attempts
<1> HIDE DEF x
<1>9. /\ x \in Rows /\ RowOK(x) /\ x.state = Wins(kind, row[j])
      /\ x.attempt = IF x.state = "queued" THEN row[j].attempt + 1 ELSE row[j].attempt
      /\ x.artifact = IF x.state = "succeeded" THEN row[j].attempt ELSE row[j].artifact
      /\ x.state # "queued" => x.upload = (row[j].upload \/ kind = "artifact")
      /\ kind \in {"artifact", "parts"} => x.lease = row[j].lease
  <2>1. x = After(kind, row[j])
    BY DEF x
  <2>2. QED
    BY <1>2, <1>3, <1>5, <1>8, <2>1, AfterRow
<1>10. row[j].state \notin {"absent", "queued", "succeeded", "cancelled"} /\ (row[j].state = "failed" => kind = "retry")
  BY <1>2, <1>6 DEF Kinds
<1>11. QED
  BY <1>1, <1>2, <1>4, <1>5, <1>7, <1>9, <1>10 DEF x

\* A request writes its row: the attempt goes on under the worker that asked, ends, or
\* gives way to the next, for which something has paid.
LEMMA WriteInv == ASSUME Inv, NEW q \in Requests, Write(q) PROVE Inv'
<1>0. req[q].job \in Jobs
  BY WriteRow
<1>p. PICK j \in Jobs : j = req[q].job
  BY <1>0
<1> DEFINE r == req[q]
           kind == r.kind
           x == After(kind, row[j])
<1>1. /\ InFlight(q) /\ r.fresh /\ kind \in Kinds /\ row[j] \in Rows
      /\ Wrote(j, x, Ended(q)) /\ RowOK(x)
      /\ x.state = Wins(kind, row[j])
      /\ x.attempt = IF x.state = "queued" THEN row[j].attempt + 1 ELSE row[j].attempt
      /\ x.state # "queued" => x.upload = (row[j].upload \/ kind = "artifact")
      /\ kind \in {"artifact", "parts"} => x.lease = row[j].lease
      /\ x.state = "queued" => Owed(j) /\ kind \in {"reap", "retry"} /\ r.step = "touched"
      /\ row[j].attempt \in Nat /\ row[j].state \notin {"absent", "queued"}
  BY <1>p, WriteRow
<1>2. /\ worker' = Answered(r.worker, q, TRUE) /\ bucket' = bucket /\ stalls' = stalls /\ retries' = retries
  BY DEF Write, NoStall
<1> HIDE DEF x
<1>3. x \in Rows /\ RowMoves(row[j], x)
  <2>1. x.state # "absent"
    BY <1>1 DEF Wins, Kinds, WorkerKinds
  <2>2. QED
    BY <1>1, <2>1 DEF RowMoves, RowOK
<1>4. /\ Ended(q) \in [Requests -> Request \cup {NoRequest}]
      /\ Ended(q)[q] = NoRequest /\ \A p \in Requests : p # q => Ended(q)[p] = req[p]
  BY DEF Ended, Inv, TypeOK
<1>5. /\ row' \in [Jobs -> Rows] /\ row'[j] = x /\ \A i \in Jobs : i # j => row'[i] = row[i]
      /\ \A i \in Jobs : RowMoves(row[i], row'[i])
      /\ req' \in [Requests -> Request \cup {NoRequest}]
      /\ RowsOK' /\ RequestsOK' /\ Overtakes(j)
      /\ \A p \in Requests : Ended(q)[p] = NoRequest <=> req'[p] = NoRequest
  BY <1>1, <1>3, <1>4, WroteRows
<1>6. req'[q] = NoRequest /\ \A p \in Requests : p # q /\ InFlight(p) => req'[p] # NoRequest
  BY <1>4, <1>5 DEF InFlight
<1>7. \A p \in Requests : p # q /\ InFlight(p) => req'[p] # NoRequest /\ SameRequest(req'[p], req[p])
  BY <1>5, <1>6 DEF Overtakes, SameRequest
<1>8. worker' \in [Workers -> Task] /\ TRUE \in BOOLEAN
  BY <1>1, <1>2, AnsweredWorkers DEF Inv
<1>9. TypeOK'
  BY <1>2, <1>5, <1>8, TypesNext DEF Inv, TypeOK
<1>10. TasksOK' /\ Apart'
  BY <1>1, <1>2, <1>5, <1>7, <1>8, <1>9, AnsweredTasks
<1>11. r.was.attempt = row[j].attempt
  BY <1>p, <1>1, FreshRow DEF Inv
<1>12. OutputsOK' /\ Discards'
  <2>1. kind = "artifact" => x.state # "queued" /\ x.upload
    BY <1>1 DEF Wins
  <2>2. CASE x.state # "queued"
    <3>1. x.attempt = row[j].attempt /\ (row[j].upload => x.upload)
      BY <2>2, <1>1
    <3>2. \A p \in Requests : InFlight(p) /\ req'[p] = NoRequest =>
            /\ req[p].job = j
            /\ req[p].kind = "artifact" => x.upload /\ req[p].was.attempt = row[j].attempt
      BY <1>p, <1>6, <1>11, <2>1
    <3>3. QED
      BY <1>2, <1>3, <1>5, <3>1, <3>2, WroteOutputs
  <2>3. CASE x.state = "queued"
    <3>1. x.attempt = row[j].attempt + 1 /\ kind # "artifact"
      BY <2>1, <2>3, <1>1
    <3>2. Covered(j, row[j].attempt)
      BY <2>3, <1>p, <1>1, <1>11 DEF Inv, Discards
    <3>3. \A p \in Requests : InFlight(p) /\ req'[p] = NoRequest => req[p].job = j /\ req[p].kind # "artifact"
      BY <1>p, <1>6, <3>1
    <3>4. QED
      BY <1>2, <1>3, <1>5, <3>1, <3>2, <3>3, WroteOutputs
  <2>4. QED
    BY <2>2, <2>3
<1>13. \A v \in Workers :
         \/ worker[v].waits # q /\ worker'[v] = worker[v]
         \/ /\ worker[v].waits = q /\ r.worker = v
            /\ \/ worker'[v] = Idle /\ kind \in {"fail", "complete"}
               \/ worker'[v].job = worker[v].job /\ worker'[v].attempt = worker[v].attempt
  <2>1. TypeOK /\ TasksOK /\ InFlight(q)
    BY <1>1 DEF Inv
  <2>2. worker' = Answered(req[q].worker, q, TRUE) /\ TRUE \in BOOLEAN
    BY <1>2
  <2>3. \A v \in Workers :
          \/ worker[v].waits # q /\ worker'[v] = worker[v]
          \/ /\ worker[v].waits = q /\ req[q].worker = v /\ worker[v].stage # "idle"
             /\ \/ worker'[v] = Idle /\ req[q].kind \in {"fail", "complete"}
                \/ /\ worker'[v].stage # "idle" /\ worker'[v].waits = NoRequest
                   /\ worker'[v].job = worker[v].job /\ worker'[v].attempt = worker[v].attempt
    BY <2>1, <2>2, AnsweredWorkers
  <2>4. QED
    BY <2>3
<1>14. \A v \in Workers, p \in Requests : p # q /\ worker[v].waits = p => worker'[v].waits = p
  BY <1>13
<1>15. \A v \in Workers : worker[v].waits # NoRequest =>
         LET y == req[worker[v].waits] IN y # NoRequest /\ y.job = worker[v].job /\ y.token = worker[v].attempt
                                          /\ y.worker = v
  BY DEF Inv, TasksOK, WaitsOK
<1>16. NoRequest \notin Requests
  BY SitesAssumption
<1>17. ASSUME NEW i \in Jobs, i # j PROVE Paid(i)'
  <2>1. \A v \in Workers : worker[v].job = i => worker'[v] = worker[v]
    BY <1>p, <1>13, <1>15, <1>16, <1>17
  <2>2. \A v \in Workers, p \in Requests : req'[p] # NoRequest /\ worker[v].waits = p => worker'[v].waits = p
    BY <1>6, <1>14
  <2>3. QED
    BY <1>2, <1>5, <1>17, <2>1, <2>2, WrotePaid
<1>18. Paid(j)'
  <2>0. stalls \in Nat /\ retries \in Nat /\ Paid(j)
    BY SitesAssumption DEF Inv, Counted
  <2>1. CASE x.state = "queued"
    <3>1. ~Owed(j)'
      BY <2>1, <1>5, NothingOwed
    <3>2. row'[j].attempt = row[j].attempt + 1 /\ row[j].attempt + 1 <= 1 + stalls + retries
      BY <2>0, <2>1, <1>1, <1>5 DEF Paid
    <3>3. QED
      BY <3>1, <3>2, <1>2 DEF Paid
  <2>2. CASE x.state \notin {"queued", "running"}
    <3>1. ~Owed(j)'
      BY <2>2, <1>5, NothingOwed
    <3>2. QED
      BY <3>1, <2>2, <1>1, <1>2, <1>5, PaidKept DEF Inv
  <2>3. CASE x.state = "running"
    <3>1. \/ kind \in {"heartbeat", "artifact", "parts"} /\ row[j].state # "cancelling"
          \/ kind \in {"artifact", "parts"}
      BY <2>3, <1>1 DEF Wins, Kinds, WorkerKinds
    <3>2. row[j].state = "running" /\ r.token = row[j].attempt /\ kind \in WorkerKinds /\ r.worker \in Workers
      <4>1. /\ r.was.state = row[j].state /\ Admitted(kind, r.was, r.token) /\ r.was \in Rows
        BY <1>p, <1>1, FreshRow, FlightTypes DEF Inv, RequestsOK, RequestOK
      <4>2. kind \in WorkerKinds
        BY <3>1 DEF WorkerKinds
      <4>3. r.worker \in Workers
        BY <1>1, <4>2 DEF Inv, RequestsOK, RequestOK
      <4>4. QED
        BY <1>1, <1>11, <3>1, <4>1, <4>2, <4>3, AdmittedOn
    <3>3. x.lease = "expired" => row[j].lease = "expired"
      BY <1>1, <3>1, <3>2 DEF x, After, Beaten, Rows
    <3>4. AtWork(j) => AtWork(j)'
      <4>1. row'[j].attempt = row[j].attempt
        BY <2>3, <1>1, <1>5
      <4>2. \A v \in Workers : worker[v].job = j => worker'[v].job = worker[v].job
                                                    /\ worker'[v].attempt = worker[v].attempt
        BY <1>13, <3>1
      <4>3. QED
        BY <4>1, <4>2 DEF AtWork
    <3>5. ASSUME NEW p \in Requests, Stray(p, j)' PROVE \E s \in Requests : Stray(s, j)
      <4>1. /\ p # q /\ InFlight(p) /\ req'[p] # NoRequest /\ SameRequest(req'[p], req[p])
            /\ req[p].job = j /\ req[p].kind \in WorkerKinds /\ req[p].token = row[j].attempt
        <5>1. p # q /\ req'[p] # NoRequest
          BY <3>5, <1>6 DEF Stray, InFlight
        <5>2. InFlight(p) /\ SameRequest(req'[p], req[p])
          BY <5>1, <1>5 DEF Overtakes, SameRequest
        <5>3. row'[j].attempt = row[j].attempt
          BY <2>3, <1>1, <1>5
        <5>4. QED
          BY <3>5, <5>1, <5>2, <5>3 DEF Stray, SameRequest
      <4>2. req[p].worker \in Workers
        BY <4>1 DEF Inv, RequestsOK, RequestOK
      <4>3. CASE worker[req[p].worker].waits # p
        BY <4>1, <4>3 DEF Stray
      <4>4. CASE worker[req[p].worker].waits = p
        <5> DEFINE u == r.worker
                   v == req[p].worker
        <5>1. worker[v].job = j /\ worker[v].attempt = row[j].attempt /\ p # NoRequest
          BY <4>1, <4>2, <4>4, <1>15, <1>16
        <5>2. worker[v].stage # "idle"
          BY <5>1, <4>2, <4>4 DEF Inv, TasksOK, TaskOK, Idle
        <5>3. ASSUME worker[u].waits = q PROVE FALSE
          <6>1. worker[u].job = j /\ worker[u].attempt = row[j].attempt
            BY <5>3, <3>2, <1>p, <1>15, <1>16
          <6>2. worker[u].stage # "idle"
            BY <5>3, <3>2, <1>16 DEF Inv, TasksOK, TaskOK, Idle
          <6>3. u # v
            BY <5>3, <4>4, <4>1
          <6>4. QED
            BY <6>1, <6>2, <6>3, <5>1, <5>2, <4>2, <3>2 DEF Inv, Apart
        <5>4. Stray(q, j)
          BY <5>3, <3>2, <1>p, <1>1 DEF Stray
        <5>5. QED
          BY <5>4
      <4>5. QED
        BY <4>3, <4>4
    <3>6. \A p \in Requests : ~Retrying(p, j)'
      BY <1>5 DEF Retrying, Overtakes, InFlight
    <3>7. Owed(j)' => Owed(j)
      BY <1>5, <3>2, <3>3, <3>4, <3>5, <3>6 DEF Owed
    <3>8. QED
      BY <3>7, <2>3, <1>1, <1>2, <1>5, PaidKept DEF Inv
  <2>4. QED
    BY <2>1, <2>2, <2>3
<1>19. QED
  BY <1>2, <1>5, <1>9, <1>10, <1>12, <1>17, <1>18 DEF Inv, Counted

-----------------------------------------------------------------------------
(* Theorems *)

\* The invariant holds before anything was submitted.
LEMMA InitInv == Init => Inv
<1> SUFFICES ASSUME Init PROVE Inv
  OBVIOUS
<1> DEFINE r0 == [state |-> "absent", attempt |-> 0, lease |-> "none", held |-> FALSE,
                  upload |-> FALSE, parts |-> FALSE, artifact |-> 0]
<1>1. r0 \in Rows /\ RowOK(r0) /\ r0.attempt = 0 /\ r0.state = "absent"
  BY AttemptsNat DEF Rows, States, RowOK
<1>2. \A j \in Jobs : row[j] = r0
  BY DEF Init
<1>3. row = [j \in Jobs |-> r0]
  BY DEF Init
<1> HIDE DEF r0
<1>4. Idle \in Task
  BY AttemptsNat DEF Idle, Task
<1>5. TypeOK /\ Counted
  <2>1. row \in [Jobs -> Rows] /\ \A j \in Jobs : row[j].artifact = IF row[j].state = "succeeded" THEN row[j].attempt ELSE 0
    BY <1>1, <1>2, <1>3 DEF RowOK
  <2>2. worker \in [Workers -> Task] /\ req \in [Requests -> Request \cup {NoRequest}]
    BY <1>4 DEF Init
  <2>3. bucket \in [Jobs -> [Attempts -> {"none", "open", "object", "gone"}]]
    BY DEF Init
  <2>4. Counted
    BY SitesAssumption DEF Init, Counted
  <2>5. QED
    BY <2>1, <2>2, <2>3, <2>4 DEF TypeOK
<1>6. RowsOK /\ RequestsOK /\ TasksOK /\ Apart
  BY <1>1, <1>2 DEF Init, RowsOK, RequestsOK, InFlight, TasksOK, TaskOK, WaitsOK, Apart, Idle
<1>7. \A j \in Jobs : Paid(j)
  <2>1. \A j \in Jobs : ~Owed(j)
    BY <1>1, <1>2 DEF Init, Owed, Retrying, InFlight
  <2>2. QED
    BY <2>1, <1>1, <1>2 DEF Init, Paid
<1>8. OutputsOK /\ Discards
  BY DEF Init, OutputsOK, Discards, Covered, InFlight
<1>9. QED
  BY <1>5, <1>6, <1>7, <1>8 DEF Inv

\* Every step preserves the invariant.
LEMMA NextInv == Inv /\ [Next]_vars => Inv'
<1> SUFFICES ASSUME Inv, [Next]_vars PROVE Inv'
  OBVIOUS
<1>1. ASSUME NEW j \in Jobs, Submit(j) \/ Cancel(j) \/ Expire(j) \/ Reaping(j) PROVE Inv'
  BY <1>1, SubmitInv, CancelInv, ExpireInv, ReapInv DEF Reaping
<1>2. ASSUME NEW j \in Jobs, NEW q \in Requests, Retry(q, j) PROVE Inv'
  BY <1>2, RetryInv
<1>3. ASSUME NEW w \in Workers, NEW j \in Jobs, Claim(w, j) PROVE Inv'
  BY <1>3, ClaimInv
<1>4. ASSUME NEW w \in Workers, NEW q \in Requests, NEW kind \in WorkerKinds, Send(w, q, kind) PROVE Inv'
  BY <1>4, SendInv
<1>5. ASSUME NEW w \in Workers, Abandon(w) \/ TimeOut(w) \/ Crash(w) PROVE Inv'
  BY <1>5, AbandonInv, TimeOutInv, CrashInv
<1>6. ASSUME NEW q \in Requests, Handle(q) PROVE Inv'
  BY <1>6, TouchInv, WriteInv, RefuseInv DEF Handle
<1>7. CASE UNCHANGED vars
  BY <1>7 DEF vars, Inv, TypeOK, Counted, RowsOK, RequestsOK, InFlight, TasksOK, Apart, Paid, Owed, AtWork,
     Stray, Retrying, OutputsOK, Discards, Covered, Opening
<1>8. QED
  BY <1>1, <1>2, <1>3, <1>4, <1>5, <1>6, <1>7 DEF Next

\* The inductive invariant holds in every reachable state.
THEOREM SitesInvariance == Spec => []Inv
BY InitInv, NextInv, PTL DEF Spec

\* Rows, bucket, requests and workers keep their types, however many stalls and retries
\* there may be: attempts do not outnumber what has paid for them.
THEOREM SitesTypes == Spec => []TypeOK
<1>1. Inv => TypeOK
  BY DEF Inv
<1>2. QED
  BY <1>1, SitesInvariance, PTL

\* No output of an earlier attempt stays in the bucket once the requests in flight are
\* answered, whoever was overtaken while opening or discarding it.
THEOREM NothingIsLeftBehind == Spec => []EarlierOutputsAreGone
<1>1. Inv => EarlierOutputsAreGone
  BY DEF Inv, OutputsOK, Covered, Opening, InFlight, EarlierOutputsAreGone
<1>2. QED
  BY <1>1, SitesInvariance, PTL

-----------------------------------------------------------------------------
(* The refinement of JobLifecycle *)

StatusOf(s) == CASE s = "queued" -> "waiting"
                 [] s = "running" -> "active"
                 [] s = "cancelling" -> "stopping"
                 [] OTHER -> s

\* What a step of the backend does to one job, in the terms of its row.
Moved(x, y) ==
  LET from == x.state  to == y.state IN
  \/ /\ to = from /\ y.attempt = x.attempt /\ y.artifact = x.artifact
  \/ /\ <<from, to>> \in {<<"absent", "queued">>, <<"running", "queued">>, <<"failed", "queued">>}
     /\ y.attempt = x.attempt + 1 /\ y.artifact = x.artifact
  \/ /\ <<from, to>> \in {<<"queued", "running">>, <<"running", "failed">>, <<"queued", "cancelled">>,
                         <<"running", "cancelling">>, <<"cancelling", "cancelled">>}
     /\ y.attempt = x.attempt /\ y.artifact = x.artifact
  \/ from = "running" /\ to = "succeeded" /\ y.attempt = x.attempt /\ y.artifact = x.attempt

\* A request writes one move of the lifecycle.
LEMMA WriteMoves ==
  ASSUME Inv, NEW q \in Requests, Write(q), NEW i \in Jobs
  PROVE  Moved(row[i], row'[i])
<1> DEFINE j == req[q].job
           kind == req[q].kind
           x == After(kind, row[j])
<1>1. /\ j \in Jobs /\ kind \in Kinds /\ Wrote(j, x, Ended(q)) /\ InFlight(q) /\ req[q].fresh
      /\ x.state = Wins(kind, row[j])
      /\ x.attempt = IF x.state = "queued" THEN row[j].attempt + 1 ELSE row[j].attempt
      /\ x.artifact = IF x.state = "succeeded" THEN row[j].attempt ELSE row[j].artifact
  BY WriteRow
<1>2. row' = [row EXCEPT ![j] = x]
  BY <1>1 DEF Wrote
<1> HIDE DEF x
<1>3. row'[j] = x /\ \A k \in Jobs : k # j => row'[k] = row[k]
  BY <1>1, <1>2 DEF Inv, TypeOK
<1>4. /\ kind \in WorkerKinds => row[j].state \in {"running", "cancelling"}
      /\ kind \in WorkerKinds \ {"heartbeat"} => row[j].state = "running"
      /\ kind = "reap" => row[j].state \in {"running", "cancelling"}
      /\ kind = "retry" => row[j].state = "failed"
  <2>1. row[j].state = req[q].was.state
    BY <1>1, FreshRow DEF Inv
  <2>2. Admitted(kind, req[q].was, req[q].token) /\ req[q].was \in Rows
    BY <1>1, FlightTypes DEF Inv, RequestsOK, RequestOK
  <2>3. QED
    BY <1>1, <2>1, <2>2, AdmittedOn
<1>5. Moved(row[j], x)
  BY <1>1, <1>4 DEF Moved, Wins, Kinds, WorkerKinds
<1>6. QED
  BY <1>3, <1>5 DEF Moved

\* Every step of the backend is a move of the lifecycle of each job, or none.
LEMMA StepMoves ==
  ASSUME Inv, [Next]_vars, NEW i \in Jobs
  PROVE  Moved(row[i], row'[i])
<1>1. ASSUME row' = row PROVE Moved(row[i], row'[i])
  BY <1>1 DEF Moved
<1>2. ASSUME NEW j \in Jobs, Submit(j) PROVE Moved(row[i], row'[i])
  <2>1. row[j].attempt = 0 /\ row[j] \in Rows
    BY <1>2 DEF Submit, Inv, TypeOK, RowsOK, RowOK
  <2>2. QED
    BY <1>2, <2>1 DEF Submit, Wrote, Moved, Inv, TypeOK, Rows
<1>3. ASSUME NEW j \in Jobs, Cancel(j) PROVE Moved(row[i], row'[i])
  BY <1>3 DEF Cancel, Wrote, Moved, Inv, TypeOK, Rows
<1>4. ASSUME NEW j \in Jobs, Expire(j) PROVE Moved(row[i], row'[i])
  BY <1>4 DEF Expire, Moved, Inv, TypeOK, Rows
<1>5. ASSUME NEW w \in Workers, NEW j \in Jobs, Claim(w, j) PROVE Moved(row[i], row'[i])
  BY <1>5 DEF Claim, Wrote, Moved, Inv, TypeOK, Rows
<1>6. ASSUME NEW q \in Requests, Handle(q) PROVE Moved(row[i], row'[i])
  BY <1>1, <1>6, WriteMoves DEF Handle, Touch, Refuse
<1>7. QED
  BY <1>1, <1>2, <1>3, <1>4, <1>5, <1>6
     DEF Next, vars, Reaping, Reap, Retry, Send, Abandon, TimeOut, Crash

\* The Sites backend keeps the promise of JobLifecycle: a cancelled or succeeded job
\* stays so, a cancellation is never undone, one attempt's artifact is the job's.
THEOREM SitesRefinement == Spec => ImplementsLifecycle
<1> DEFINE status == [j \in Jobs |-> CASE row[j].state = "queued" -> "waiting"
                                      [] row[j].state = "running" -> "active"
                                      [] row[j].state = "cancelling" -> "stopping"
                                      [] OTHER -> row[j].state]
           tries == [j \in Jobs |-> row[j].attempt]
           result == [j \in Jobs |-> row[j].artifact]
<1>1. Init => Lifecycle!Init
  BY DEF Init, Lifecycle!Init
<1>2. Inv /\ Inv' /\ [Next]_vars => [Lifecycle!Next]_<<status, tries, result>>
  <2> SUFFICES ASSUME Inv, Inv', [Next]_vars PROVE Lifecycle!Next
    OBVIOUS
  <2>1. \A j \in Jobs : /\ row[j].state \in States /\ row'[j].state \in States
                        /\ row'[j].attempt \in Nat /\ row'[j].artifact \in Nat
    <3>1. \A j \in Jobs : row[j] \in Rows /\ row'[j] \in Rows
      BY DEF Inv, TypeOK
    <3>2. QED
      BY <3>1, RowTypes, AttemptsNat
  <2>2. status' \in [Jobs -> Lifecycle!Statuses] /\ tries' \in [Jobs -> Nat] /\ result' \in [Jobs -> Nat]
    BY <2>1 DEF States, Lifecycle!Statuses
  <2>3. ASSUME NEW j \in Jobs PROVE Lifecycle!JobStep(j) \/ Lifecycle!Same(j)
    <3>1. Moved(row[j], row'[j]) /\ row[j].state \in States
      BY <2>1, StepMoves
    <3>2. QED
      BY <3>1 DEF Moved, States, Lifecycle!JobStep,
         Lifecycle!Same, Lifecycle!Submit, Lifecycle!Start, Lifecycle!Lose, Lifecycle!Fail,
         Lifecycle!Retry, Lifecycle!Withdraw, Lifecycle!Stop, Lifecycle!Stopped,
         Lifecycle!Succeed, Lifecycle!Moves, Lifecycle!SameTry, Lifecycle!NewTry
  <2>4. QED
    BY <2>2, <2>3 DEF Lifecycle!Next
<1>3. QED
  BY <1>1, <1>2, SitesInvariance, PTL DEF Spec, ImplementsLifecycle, Lifecycle!Spec
=============================================================================
