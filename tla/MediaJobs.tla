------------------------------ MODULE MediaJobs ------------------------------
(***************************************************************************)
(* The browser's media pipeline: one MediaJobPipeline on the page's main   *)
(* thread, one dedicated worker that probes originals and builds proxies   *)
(* and waveforms, and IndexedDB rows that outlive the page.                *)
(*                                                                         *)
(* The main thread is a set of async functions.  A step runs one of them   *)
(* from one await to the next.  A function that awaits saveJob keeps the   *)
(* job object it holds, so the state another function has set meanwhile is *)
(* overwritten when it goes on.  Read-write transactions on one store      *)
(* complete in the order they were created: the awaits form a queue.       *)
(*                                                                         *)
(* Bounds: MaxImports imports of each original, MaxAsks commands of the    *)
(* user or the player after the first import of an original, MaxFaults     *)
(* reloads and worker crashes.                                             *)
(***************************************************************************)
EXTENDS Naturals, Sequences, FiniteSets, SequencesExt

CONSTANTS
  Jobs,      \* jobs of one campaign; a job stands for its idempotency key
  Kind,      \* "probe", "proxy" or "waveform"
  Plan,      \* the derivatives Rust plans for a probed original
  NoJob,
  MaxImports,
  MaxAsks,
  MaxFaults

ASSUME JobsAssumption ==
  /\ Kind \in [Jobs -> {"probe", "proxy", "waveform"}]
  /\ Plan \in [Jobs -> SUBSET {j \in Jobs : Kind[j] # "probe"}]
  /\ NoJob \notin Jobs
  /\ IsFiniteSet(Jobs)
ASSUME BoundsAssumption == MaxImports \in Nat /\ MaxAsks \in Nat /\ MaxFaults \in Nat

VARIABLES
  memory,       \* this.jobs: the state of each job
  disk,         \* the jobs store
  records,      \* the assets and derivatives stores, by the job that saved them
  active,       \* activeJobId
  playing,      \* playbackActive
  pauseIntent,
  saves,        \* async functions awaiting the jobs store, in order
  handler,      \* handleWorkerMessage, which workerMessageChain serialises
  inbox,        \* messages from the worker
  requests,     \* messages to the worker
  runs,         \* worker: the requests it works on
  cancellation, \* worker: the cancellation set
  workerUp,
  behind,       \* history: jobs whose object a lookup replaced by another state
  imported, asked, faults

pageVars == <<memory, active, playing, pauseIntent, saves, handler>>
storeVars == <<disk, records>>
workerVars == <<runs, cancellation, workerUp>>
\* History and bounds, which no function of the page reads.
ghosts == <<behind, imported, asked, faults>>
vars == <<pageVars, storeVars, inbox, requests, workerVars, ghosts>>

Probes == {j \in Jobs : Kind[j] = "probe"}
Derivatives == Jobs \ Probes
Priority == [probe |-> 0, proxy |-> 20, waveform |-> 30]

\* apply_event: the states an event is accepted in and the state it leads to.
Accepts == [
  start_preparing |-> {"queued"},
  start_running |-> {"preparing"},
  request_pause |-> {"running"},
  confirm_paused |-> {"pausing"},
  resume |-> {"paused"},
  request_cancel |-> {"queued", "preparing", "running", "pausing", "paused"},
  confirm_cancelled |-> {"cancelling"},
  succeed |-> {"preparing", "running"},
  fail |-> {"preparing", "running", "pausing", "cancelling"},
  retry |-> {"failed"}]
LeadsTo == [
  start_preparing |-> "preparing", start_running |-> "running",
  request_pause |-> "pausing", confirm_paused |-> "paused", resume |-> "queued",
  request_cancel |-> "cancelling", confirm_cancelled |-> "cancelled",
  succeed |-> "succeeded", fail |-> "failed", retry |-> "queued"]

Busy == {"preparing", "running", "pausing", "cancelling"}
Terminal == {"succeeded", "failed", "cancelled"}
States == Busy \cup Terminal \cup {"absent", "queued", "paused"}

\* recover_after_reload, and forms of it a change could get wrong: taking the
\* phase for the state, recovering only running jobs.
RecoveringPhase(s) == IF s \in Busy THEN "recovering" ELSE s
RecoverRunning(s) == IF s = "running" THEN "queued" ELSE s
Recovered(s) == IF s \in Busy THEN "queued" ELSE s

\* The row transition saves: the job as the event left it, not as it was.
RowBefore(seen, event) == seen
RowAfter(seen, event) == LeadsTo[event]

\* An async function that awaits the jobs store: the row it puts ("none" for a
\* read) and where it goes on.
Await(j, row, then) == [job |-> j, row |-> row, then |-> then]
Afterwards == {"lookedUp", "created", "prepared", "started", "cancelRequested",
               "cancelConfirmed", "pauseRequested", "requeued", "handled",
               "probed", "enqueued", "crashed"}
Resting == [pc |-> "idle", job |-> NoJob, seen |-> "absent", todo |-> {}]

\* Types of the page's memory, its worker and the stored rows.
TypeOK ==
  /\ memory \in [Jobs -> States] /\ disk \in [Jobs -> States]
  /\ records \subseteq Jobs
  /\ active \in Jobs \cup {NoJob}
  /\ playing \in BOOLEAN
  /\ pauseIntent \subseteq Derivatives
  /\ saves \in Seq([job : Jobs, row : States \cup {"none"}, then : Afterwards])
  /\ handler \in [pc : {"idle", "storing", "saving", "enqueueing"},
                  job : Jobs \cup {NoJob}, seen : States, todo : SUBSET Derivatives]
  /\ inbox \in Seq([type : {"succeeded", "failed", "cancelled"}, job : Jobs])
  /\ requests \in Seq([type : {"run", "cancel"}, job : Jobs])
  /\ runs \in [Jobs -> {"none", "opening", "working", "stopped"}]
  /\ cancellation \subseteq Jobs
  /\ workerUp \in BOOLEAN
  /\ behind \subseteq Jobs
  /\ imported \in [Probes -> 0..MaxImports] /\ asked \in 0..MaxAsks /\ faults \in 0..MaxFaults

Init ==
  /\ memory = [j \in Jobs |-> "absent"] /\ disk = memory
  /\ records = {}
  /\ active = NoJob
  /\ playing = FALSE
  /\ pauseIntent = {}
  /\ saves = <<>>
  /\ handler = Resting
  /\ inbox = <<>> /\ requests = <<>>
  /\ runs = [j \in Jobs |-> "none"]
  /\ cancellation = {}
  /\ workerUp = TRUE
  /\ behind = {}
  /\ imported = [p \in Probes |-> 0] /\ asked = 0 /\ faults = 0

Ask == asked < MaxAsks /\ asked' = asked + 1 /\ UNCHANGED <<imported, faults, behind>>
Fault == faults < MaxFaults /\ faults' = faults + 1 /\ UNCHANGED <<imported, asked>>

-----------------------------------------------------------------------------
\* Building blocks of the main thread's functions

\* One job at a time; derivatives yield to playback.
MayStart(j, a, play) == a = NoJob /\ (play => j \in Probes)

\* startNext, run with the map m, the active job a and the queue q: the queued
\* job of the highest priority becomes active, if it may.
StartNextIf(play, m, a, q) ==
  LET waiting == {j \in Jobs : m[j] = "queued"}
      first == {j \in waiting : \A k \in waiting : Priority[Kind[j]] <= Priority[Kind[k]]}
      next == {j \in first : MayStart(j, a, play)}
  IN IF next = {}
       THEN memory' = m /\ active' = a /\ saves' = q
       ELSE \E j \in next :
              /\ memory' = [m EXCEPT ![j] = "preparing"]
              /\ active' = j
              /\ saves' = Append(q, Await(j, "preparing", "prepared"))

StartNext(m, a, q) == StartNextIf(playing, m, a, q)

\* transition, for a job object whose state is seen.
Transition(j, seen, event, then, q) ==
  /\ seen \in Accepts[event]
  /\ memory' = [memory EXCEPT ![j] = LeadsTo[event]]
  /\ saves' = Append(q, Await(j, RowAfter(seen, event), then))

\* A message to a worker that has died is lost.
Post(type, j) ==
  requests' = IF workerUp THEN Append(requests, [type |-> type, job |-> j]) ELSE requests

\* The oldest await is over: its row is on disk and its function goes on.
Resumes(then) ==
  /\ saves # <<>>
  /\ Head(saves).then = then
  /\ disk' = IF Head(saves).row = "none" THEN disk
             ELSE [disk EXCEPT ![Head(saves).job] = Head(saves).row]

\* A lookup that finds a row puts it in the place of the job in memory, whatever
\* is about to be saved.
Replaced(j) ==
  /\ behind' = IF disk[j] \in {"absent", memory[j]} THEN behind ELSE behind \cup {j}
  /\ UNCHANGED <<imported, asked, faults>>

-----------------------------------------------------------------------------
\* Commands of the user and of the player

\* importFile, once the original is staged: look the probe's key up first.  To
\* import a file again is one of the MaxAsks commands.
Import(p) ==
  /\ imported[p] < MaxImports /\ imported' = [imported EXCEPT ![p] = @ + 1]
  /\ imported[p] > 0 => asked < MaxAsks
  /\ asked' = IF imported[p] > 0 THEN asked + 1 ELSE asked
  /\ saves' = Append(saves, Await(p, "none", "lookedUp"))
  /\ UNCHANGED <<memory, active, playing, pauseIntent, handler, storeVars, inbox,
                 requests, workerVars, behind, faults>>

\* An existing row replaces the job in memory; a new one is saved first.
LookedUp ==
  LET p == Head(saves).job IN
  /\ Resumes("lookedUp")
  /\ IF disk[p] = "absent"
       THEN /\ saves' = Append(Tail(saves), Await(p, "none", "created"))
            /\ UNCHANGED <<memory, active>>
       ELSE LET m == [memory EXCEPT ![p] = disk[p]] IN
            IF disk[p] = "queued" THEN StartNext(m, active, Tail(saves))
            ELSE memory' = m /\ saves' = Tail(saves) /\ UNCHANGED active
  /\ Replaced(p)
  /\ UNCHANGED <<playing, pauseIntent, handler, records, inbox, requests, workerVars>>

\* The index on idempotency keys is unique: of two imports of one file that
\* both found nothing, the second fails.
Created ==
  LET p == Head(saves).job IN
  /\ saves # <<>> /\ Head(saves).then = "created"
  /\ IF disk[p] = "absent"
       THEN /\ disk' = [disk EXCEPT ![p] = "queued"]
            /\ StartNext([memory EXCEPT ![p] = "queued"], active, Tail(saves))
       ELSE saves' = Tail(saves) /\ UNCHANGED <<disk, memory, active>>
  /\ UNCHANGED <<playing, pauseIntent, handler, records, inbox, requests, workerVars,
                 ghosts>>

Cancel(j) ==
  /\ Ask
  /\ Transition(j, memory[j], "request_cancel", "cancelRequested", saves)
  /\ UNCHANGED <<active, playing, pauseIntent, handler, storeVars, inbox, requests,
                 workerVars>>

\* Only the active job is known to the worker.
CancelRequested ==
  LET j == Head(saves).job IN
  /\ Resumes("cancelRequested")
  /\ IF active = j
       THEN Post("cancel", j) /\ saves' = Tail(saves) /\ UNCHANGED memory
       ELSE /\ Transition(j, "cancelling", "confirm_cancelled", "cancelConfirmed", Tail(saves))
            /\ UNCHANGED requests
  /\ UNCHANGED <<active, playing, pauseIntent, handler, records, inbox, workerVars,
                 ghosts>>

CancelConfirmed ==
  /\ Resumes("cancelConfirmed")
  /\ StartNext(memory, IF active = Head(saves).job THEN NoJob ELSE active, Tail(saves))
  /\ UNCHANGED <<playing, pauseIntent, handler, records, inbox, requests, workerVars,
                 ghosts>>

Pause(j) ==
  /\ Ask
  /\ j \in Derivatives
  /\ Transition(j, memory[j], "request_pause", "pauseRequested", saves)
  /\ UNCHANGED <<active, playing, pauseIntent, handler, storeVars, inbox, requests,
                 workerVars>>

\* The worker knows one way to stop: a pause is a cancel request too.
PauseRequested ==
  /\ Resumes("pauseRequested")
  /\ pauseIntent' = pauseIntent \cup {Head(saves).job}
  /\ Post("cancel", Head(saves).job)
  /\ saves' = Tail(saves)
  /\ UNCHANGED <<memory, active, playing, handler, records, inbox, workerVars,
                 ghosts>>

\* resume and retry.  A failure that is not retryable is one nobody retries.
Requeue(j) ==
  /\ Ask
  /\ \E event \in {"resume", "retry"} : Transition(j, memory[j], event, "requeued", saves)
  /\ UNCHANGED <<active, playing, pauseIntent, handler, storeVars, inbox, requests,
                 workerVars>>

Requeued ==
  /\ Resumes("requeued")
  /\ StartNext(memory, active, Tail(saves))
  /\ UNCHANGED <<playing, pauseIntent, handler, records, inbox, requests, workerVars,
                 ghosts>>

\* setPlaybackActive(true): a running derivative is asked to pause.
PlaybackStarts ==
  /\ Ask
  /\ playing' = TRUE
  /\ IF active \in Derivatives /\ memory[active] = "running"
       THEN Transition(active, "running", "request_pause", "pauseRequested", saves)
       ELSE UNCHANGED <<memory, saves>>
  /\ UNCHANGED <<active, pauseIntent, handler, storeVars, inbox, requests, workerVars>>

\* setPlaybackActive(false): every job paused through pause() is queued again.
PlaybackStops ==
  LET waiting == {j \in pauseIntent : memory[j] = "paused"}
  IN
  /\ Ask
  /\ playing' = FALSE
  /\ pauseIntent' = pauseIntent \ waiting
  /\ StartNextIf(FALSE, [j \in Jobs |-> IF j \in waiting THEN "queued" ELSE memory[j]],
               active, saves \o SetToSeq({Await(j, "queued", "requeued") : j \in waiting}))
  /\ UNCHANGED <<handler, storeVars, inbox, requests, workerVars>>

-----------------------------------------------------------------------------
\* The start of a job: startNext goes on after each of its two saves.

\* start_running is applied to the object startNext holds: what happened to
\* the job since it was put in "preparing" is overwritten.
Prepared ==
  /\ Resumes("prepared")
  /\ Transition(Head(saves).job, "preparing", "start_running", "started", Tail(saves))
  /\ UNCHANGED <<active, playing, pauseIntent, handler, records, inbox, requests,
                 workerVars, ghosts>>

Started ==
  /\ Resumes("started")
  /\ Post("run", Head(saves).job)
  /\ saves' = Tail(saves)
  /\ UNCHANGED <<memory, active, playing, pauseIntent, handler, records, inbox,
                 workerVars, ghosts>>

-----------------------------------------------------------------------------
\* handleWorkerMessage.  An event the job's state does not accept throws; the
\* chain logs the error and goes on with the next message.

TakeMessage ==
  LET message == Head(inbox)
      j == message.job
      event == IF message.type = "failed" THEN "fail"
               ELSE IF j \in pauseIntent THEN "confirm_paused" ELSE "confirm_cancelled"
  IN
  /\ handler.pc = "idle"
  /\ inbox # <<>>
  /\ inbox' = Tail(inbox)
  /\ IF message.type = "succeeded"
       THEN /\ handler' = [pc |-> "storing", job |-> j, seen |-> memory[j], todo |-> {}]
            /\ UNCHANGED <<memory, saves>>
       ELSE IF memory[j] \in Accepts[event]
         THEN /\ handler' = [pc |-> "saving", job |-> j, seen |-> memory[j], todo |-> {}]
              /\ Transition(j, memory[j], event, "handled", saves)
         ELSE UNCHANGED <<handler, memory, saves>>
  /\ UNCHANGED <<active, playing, pauseIntent, storeVars, requests, workerVars, ghosts>>

\* saveMediaAsset, saveDerivative
NotStored(j) == records
Stored(j) == records \cup {j}

\* The asset or derivative row is saved, then "succeed" is applied to the job
\* as it was when the message was taken.  A probe that cannot succeed fails.
StoreRecord ==
  LET j == handler.job
      event == IF handler.seen \in Accepts.succeed THEN "succeed" ELSE "fail"
      accepted == IF j \in Probes THEN handler.seen \in Accepts[event]
                                  ELSE handler.seen \in Accepts.succeed
  IN
  /\ handler.pc = "storing"
  /\ records' = Stored(j)
  /\ IF accepted
       THEN /\ Transition(j, handler.seen, event,
                 IF j \in Probes /\ event = "succeed" THEN "probed" ELSE "handled", saves)
            /\ handler' = [handler EXCEPT !.pc = "saving"]
       ELSE handler' = Resting /\ UNCHANGED <<memory, saves>>
  /\ UNCHANGED <<active, playing, pauseIntent, disk, inbox, requests, workerVars,
                 ghosts>>

\* The end of every message that changed its job.
Handled ==
  /\ Resumes("handled")
  /\ handler' = Resting
  /\ StartNext(memory, NoJob, Tail(saves))
  /\ UNCHANGED <<playing, pauseIntent, records, inbox, requests, workerVars, ghosts>>

\* enqueueDerivatives, one derivative at a time; a derivative that is stored or
\* has a job already is not created again.
NextDerivative(todo) ==
  CHOOSE d \in todo : \A k \in todo : Priority[Kind[d]] <= Priority[Kind[k]]

EnqueueFrom(todo, m, q) ==
  IF todo = {}
    THEN handler' = Resting /\ StartNext(m, NoJob, q)
    ELSE /\ handler' = [handler EXCEPT !.pc = "enqueueing", !.todo = todo]
         /\ memory' = m
         /\ saves' = Append(q, Await(NextDerivative(todo), "none", "enqueued"))
         /\ UNCHANGED active

Probed ==
  /\ Resumes("probed")
  /\ EnqueueFrom(Plan[Head(saves).job] \ records, memory, Tail(saves))
  /\ UNCHANGED <<playing, pauseIntent, records, inbox, requests, workerVars, ghosts>>

Enqueued ==
  LET d == Head(saves).job
      row == IF disk[d] = "absent" THEN "queued" ELSE disk[d]
  IN
  /\ saves # <<>> /\ Head(saves).then = "enqueued"
  /\ disk' = [disk EXCEPT ![d] = row]
  /\ EnqueueFrom(handler.todo \ {d}, [memory EXCEPT ![d] = row], Tail(saves))
  /\ Replaced(d)
  /\ UNCHANGED <<playing, pauseIntent, records, inbox, requests, workerVars>>

-----------------------------------------------------------------------------
\* The worker.  Its listener is not serialised: a cancel request is seen while
\* other requests are being worked on, but only by those that look.

Working == {j \in Jobs : runs[j] # "none"}

\* A proxy opens its source and asks for codecs before it can be cancelled.
ReceiveRun ==
  LET j == Head(requests).job IN
  /\ requests # <<>>
  /\ Head(requests).type = "run"
  /\ requests' = Tail(requests)
  /\ runs' = [runs EXCEPT ![j] = IF Kind[j] = "proxy" THEN "opening" ELSE "working"]
  /\ UNCHANGED <<pageVars, storeVars, inbox, cancellation, workerUp, ghosts>>

ReceiveCancel ==
  LET j == Head(requests).job IN
  /\ requests # <<>>
  /\ Head(requests).type = "cancel"
  /\ requests' = Tail(requests)
  /\ cancellation' = cancellation \cup {j}
  /\ runs' = IF Kind[j] = "proxy" /\ runs[j] = "working"
               THEN [runs EXCEPT ![j] = "stopped"] ELSE runs
  /\ UNCHANGED <<pageVars, storeVars, inbox, workerUp, ghosts>>

Convert(j) ==
  /\ runs[j] = "opening"
  /\ runs' = [runs EXCEPT ![j] = "working"]
  /\ UNCHANGED <<pageVars, storeVars, inbox, requests, cancellation, workerUp, ghosts>>

\* What the request ends with.  An error of a job in the cancellation set counts
\* as its cancellation, but a missing encoder is a failure all the same; only a
\* probe looks at the set when it is done.
Outcomes(j) ==
  LET error == IF j \in cancellation THEN "cancelled" ELSE "failed" IN
  CASE runs[j] = "opening" -> {error, "failed"}
    [] runs[j] = "stopped" -> {"cancelled", "succeeded"}
    [] OTHER -> {error} \cup
         (IF Kind[j] = "probe" /\ j \in cancellation THEN {} ELSE {"succeeded"})

Finish(j) ==
  /\ j \in Working
  /\ \E type \in Outcomes(j) : inbox' = Append(inbox, [type |-> type, job |-> j])
  /\ runs' = [runs EXCEPT ![j] = "none"]
  /\ cancellation' = cancellation \ {j}
  /\ UNCHANGED <<pageVars, storeVars, requests, workerUp, ghosts>>

-----------------------------------------------------------------------------
\* Faults

\* The worker dies; handleWorkerCrash fails the active job, and only then
\* creates another worker.
WorkerCrash ==
  /\ workerUp /\ Working # {}
  /\ Fault
  /\ runs' = [j \in Jobs |-> "none"]
  /\ cancellation' = {}
  /\ requests' = <<>>
  /\ IF active # NoJob /\ memory[active] \in Accepts.fail
       THEN /\ Transition(active, memory[active], "fail", "crashed", saves)
            /\ workerUp' = FALSE
            /\ UNCHANGED <<active, playing>>
       ELSE /\ playing' = playing
            /\ StartNext(memory, NoJob, saves)
            /\ UNCHANGED workerUp
  /\ UNCHANGED <<pauseIntent, handler, storeVars, inbox, behind>>

Crashed ==
  /\ Resumes("crashed")
  /\ workerUp' = TRUE
  /\ StartNext(memory, NoJob, Tail(saves))
  /\ UNCHANGED <<playing, pauseIntent, handler, records, inbox, requests, runs,
                 cancellation, ghosts>>

\* The page is closed or reloaded: loadCampaign recovers the rows it left.
Reload ==
  /\ Fault
  /\ disk' = [j \in Jobs |-> Recovered(disk[j])]
  /\ playing' = FALSE
  /\ StartNextIf(FALSE, disk', NoJob, <<>>)
  /\ pauseIntent' = {}
  /\ handler' = Resting
  /\ inbox' = <<>> /\ requests' = <<>>
  /\ runs' = [j \in Jobs |-> "none"]
  /\ cancellation' = {}
  /\ workerUp' = TRUE
  /\ behind' = {}
  /\ UNCHANGED records

-----------------------------------------------------------------------------
Commands == \/ \E p \in Probes : Import(p)
            \/ \E j \in Jobs : Cancel(j) \/ Pause(j) \/ Requeue(j)
            \/ PlaybackStarts \/ PlaybackStops

\* One await of the jobs store is over.
GoOn == \/ LookedUp \/ Created \/ Prepared \/ Started
        \/ CancelRequested \/ CancelConfirmed \/ PauseRequested \/ Requeued
        \/ Handled \/ Probed \/ Enqueued \/ Crashed

Handle == TakeMessage \/ StoreRecord
Receive == ReceiveRun \/ ReceiveCancel
Work(j) == Convert(j) \/ Finish(j)

Next == \/ Commands \/ GoOn \/ Handle \/ Receive
        \/ \E j \in Jobs : Work(j)
        \/ WorkerCrash \/ Reload

Spec == Init /\ [][Next]_vars

\* IndexedDB completes transactions, event loops turn, and the worker's requests
\* end.  Nothing is assumed of the user, or of crashes.
Fairness ==
  /\ WF_vars(GoOn) /\ WF_vars(Handle) /\ WF_vars(Receive)
  /\ \A j \in Jobs : WF_vars(Work(j))

FairSpec == Spec /\ Fairness

-----------------------------------------------------------------------------
\* Properties

\* A row says "succeeded" only when the record of what the job made is stored:
\* whatever closes the page between the two saves, no job is done without its
\* asset or derivative.
SucceededIsStored == \A j \in Jobs : disk[j] = "succeeded" => j \in records

\* When no function awaits the store, the rows say what the page shows: the
\* overlapping transitions of startNext, the commands and the messages reach the
\* store in the order they reached memory.  Only a lookup can part them: a file
\* imported again while its job is being saved puts the page behind the row.
DiskIsCurrent ==
  saves = <<>> => \A j \in Jobs \ behind : disk[j] = memory[j]

\* Whatever reloads and worker crashes happen, a job waiting or at work settles,
\* unless the user or the player interferes first: a stop that meets the job's
\* success leaves it stopping for ever, and a second import that meets its end
\* leaves it running for ever.
JobsSettle ==
  \A j \in Jobs : memory[j] \in Busy \cup {"queued"} /\ asked = 0
                    ~> memory[j] \in Terminal \/ asked > 0
=============================================================================
