----------------------------- MODULE ConnectedSync -----------------------------
(***************************************************************************)
(* One campaign edited on several devices and kept in the cloud: each      *)
(* device's outbox of commands (local-store.ts), the page that flushes it  *)
(* (connected-client.ts, connected-sync-board.tsx), the engine's decision  *)
(* (sync.rs) and the server's tables (sync_api.rs).                        *)
(*                                                                         *)
(* As in LocalJournal a state is the sequence of the commands that made    *)
(* it; an edit here is one transaction, and the local journal recovers it. *)
(* A step is one IndexedDB or Postgres transaction with what follows it.   *)
(* A request that was sent may reach the server at any later time, again   *)
(* and again, or never; its answer may be lost.                            *)
(*                                                                         *)
(* Bounds: Commands, MaxRequests ids for requests, and MaxLate edits made  *)
(* on a state that the device no longer stores.                            *)
(***************************************************************************)
EXTENDS Naturals, Sequences, FiniteSets, SequencesExt

CONSTANTS
  Devices, Pages,
  DeviceOf,          \* the device of each page
  Origin,            \* the device the campaign was created on
  Commands,          \* command ids
  Nothing,           \* null
  MaxSyncCommands,   \* MAX_SYNC_COMMANDS
  MaxRequests, MaxLate

ASSUME DevicesAssumption == DeviceOf \in [Pages -> Devices] /\ Origin \in Devices
ASSUME LimitsAssumption ==
  /\ MaxSyncCommands \in Nat \ {0}
  /\ {MaxRequests, MaxLate} \subseteq Nat
  /\ IsFiniteSet(Commands)

VARIABLES
  stored,     \* what opening the campaign on a device recovers
  row,        \* campaigns.latest_revision of the device
  outbox,     \* the device's ConnectedSyncOutbox
  page,       \* the shown state, and the board's function under way
  network,    \* the requests that were sent
  head,       \* sync_heads
  revisions,  \* campaign_revisions: the state of each revision
  receipts,   \* sync_receipts
  branches,   \* recovered_branches
  issued, requested, late   \* history: commands, request ids, late edits

deviceVars == <<stored, row, outbox>>
serverVars == <<head, revisions, receipts, branches>>
bounds == <<issued, requested, late>>
vars == <<deviceVars, page, network, serverVars, bounds>>

States == SeqOf(Commands, Cardinality(Commands))
Revision(state) == Len(state)
RequestIds == 1 .. MaxRequests

\* An envelope: its id, and the revision it was made for.
Command == [id : Commands, base : 0 .. Cardinality(Commands)]
Batch == Seq(Command)
Outbox == [base : States,          \* base_revision and base_sha256
           initial : BOOLEAN,      \* initial_snapshot, which is the base
           commands : Batch,
           request : RequestIds \cup {Nothing}, count : Nat,
           branched : BOOLEAN, overflow : BOOLEAN]
Request == [id : RequestIds, device : Devices, base : States, initial : BOOLEAN,
            commands : Batch]
Receipt == [status : {"synced", "recovered_branch"}, state : States]
Branch == [base : States, state : States]
\* The writer is kept while its lease lasts: nothing reads it afterwards.
SyncHead == [state : States, writer : Devices \cup {Nothing}]

\* The board runs one function at a time; it keeps the state it was given, the
\* request it waits for and the receipt it got.
Page == [shown : States \cup {Nothing},
         at : {"idle", "enabling", "preparing", "waiting", "acknowledging",
               "installing", "opening"},
         state : States \cup {Nothing}, request : Request \cup {Nothing},
         receipt : Receipt \cup {Nothing}, again : BOOLEAN]
Resting(shown) == [shown |-> shown, at |-> "idle", state |-> Nothing,
                   request |-> Nothing, receipt |-> Nothing, again |-> FALSE]

NewOutbox(state, isInitial) ==
  [base |-> state, initial |-> isInitial, commands |-> <<>>, request |-> Nothing,
   count |-> 0, branched |-> FALSE, overflow |-> FALSE]

\* null is no state, no outbox, no request and none of the other things it is told from.
ASSUME NothingAssumption ==
  /\ Nothing \notin States /\ Nothing \notin RequestIds
  /\ Nothing \notin Outbox /\ Nothing \notin Request
  /\ Nothing \notin SyncHead /\ Nothing \notin Pages

\* Types of the devices' stores, the pages and the server's tables; the tables'
\* keys: one state per revision, one receipt per request id.
TypeOK ==
  /\ stored \in [Devices -> States \cup {Nothing}]
  /\ row \in [Devices -> 0 .. Cardinality(Commands)]
  /\ outbox \in [Devices -> Outbox \cup {Nothing}]
  /\ page \in [Pages -> Page]
  /\ network \subseteq Request
  /\ head \in SyncHead \cup {Nothing}
  /\ revisions \subseteq States
  /\ \A a, b \in revisions : Revision(a) = Revision(b) => a = b
  /\ receipts \subseteq [request : Request, receipt : Receipt]
  /\ \A a, b \in receipts : a.request.id = b.request.id => a = b
  /\ branches \subseteq Branch
  /\ issued \subseteq Commands /\ requested \in 0 .. MaxRequests /\ late \in 0 .. MaxLate

\* The campaign exists on one device, and nothing was sent yet.
Init ==
  /\ stored = [d \in Devices |-> IF d = Origin THEN <<>> ELSE Nothing]
  /\ row = [d \in Devices |-> 0]
  /\ outbox = [d \in Devices |-> Nothing]
  /\ page = [p \in Pages |-> Resting(stored[DeviceOf[p]])]
  /\ network = {}
  /\ head = Nothing
  /\ revisions = {} /\ receipts = {} /\ branches = {}
  /\ issued = {} /\ requested = 0 /\ late = 0

-----------------------------------------------------------------------------
(* The device. *)

\* append_sync_outbox, in the transaction that saves a commit.
Appended(box, command) ==
  IF Len(box.commands) >= MaxSyncCommands THEN [box EXCEPT !.overflow = TRUE]
  ELSE [box EXCEPT !.commands = Append(@, command)]

\* A commit of the state the page shows.  If that is not what the device has
\* stored, recovery will not find the entry (see LocalJournal), but the outbox
\* gets it all the same.
Edit(p) ==
  LET d == DeviceOf[p]
      shown == page[p].shown
  IN
  /\ shown # Nothing
  /\ \E c \in Commands \ issued :
       /\ issued' = issued \cup {c}
       /\ page' = [page EXCEPT ![p].shown = Append(shown, c)]
       /\ row' = [row EXCEPT ![d] = Revision(shown) + 1]
       /\ outbox' = IF outbox[d] = Nothing THEN outbox
                    ELSE [outbox EXCEPT ![d] = Appended(@, [id |-> c, base |-> Revision(shown)])]
       /\ IF shown = stored[d]
            THEN stored' = [stored EXCEPT ![d] = Append(shown, c)] /\ UNCHANGED late
            ELSE late < MaxLate /\ late' = late + 1 /\ UNCHANGED stored
  /\ UNCHANGED <<network, serverVars, requested>>

\* A reload, a crash, or the campaign opened again: the page shows what is
\* stored and has forgotten what it was doing.
Reopen(p) ==
  /\ page[p] # Resting(stored[DeviceOf[p]])
  /\ page' = [page EXCEPT ![p] = Resting(stored[DeviceOf[p]])]
  /\ UNCHANGED <<deviceVars, network, serverVars, bounds>>

\* The Sync button: sync goes on with the state the page showed.
Sync(p) ==
  /\ page[p].at = "idle" /\ page[p].shown # Nothing
  /\ page' = [page EXCEPT ![p].at = "enabling", ![p].state = page[p].shown]
  /\ UNCHANGED <<deviceVars, network, serverVars, bounds>>

\* enableConnectedSync aborts when something newer was saved meanwhile.
Enable(p) ==
  LET d == DeviceOf[p] IN
  /\ page[p].at = "enabling"
  /\ IF row[d] = Revision(page[p].state)
       THEN /\ page' = [page EXCEPT ![p].at = "preparing", ![p].state = Nothing]
            /\ outbox' = IF outbox[d] # Nothing THEN outbox
                         ELSE [outbox EXCEPT ![d] = NewOutbox(page[p].state, TRUE)]
       ELSE page' = [page EXCEPT ![p] = Resting(@.shown)] /\ UNCHANGED outbox
  /\ UNCHANGED <<stored, row, network, serverVars, bounds>>

\* A new request takes every command, or the initial snapshot alone.
Requested(box) ==
  IF box.request # Nothing THEN box
  ELSE [box EXCEPT !.request = requested + 1,
                   !.count = IF box.initial THEN 0 ELSE Len(box.commands)]

\* The persisted request as the outbox gives it now.
Prefix(box) == SubSeq(box.commands, 1, box.count)

\* prepareConnectedSync, and the request flushConnectedSync sends.
Prepare(p) ==
  LET d == DeviceOf[p]
      box == Requested(outbox[d])
      request == [id |-> box.request, device |-> d, base |-> box.base,
                  initial |-> box.initial, commands |-> Prefix(box)]
  IN
  /\ page[p].at = "preparing"
  /\ box.request <= MaxRequests
  /\ outbox' = [outbox EXCEPT ![d] = box]
  /\ requested' = IF box.request > requested THEN box.request ELSE requested
  /\ IF box.overflow
       THEN page' = [page EXCEPT ![p] = Resting(@.shown)] /\ UNCHANGED network
       ELSE /\ network' = network \cup {request}
            /\ page' = [page EXCEPT ![p].at = "waiting", ![p].request = request,
                                    ![p].again = box.initial /\ box.commands # <<>>]
  /\ UNCHANGED <<stored, row, serverVars, issued, late>>

\* No answer comes: fetch fails, and the function with it.
GiveUp(p) ==
  /\ page[p].at = "waiting"
  /\ page' = [page EXCEPT ![p] = Resting(@.shown)]
  /\ UNCHANGED <<deviceVars, network, serverVars, bounds>>

\* What an acknowledgement removes, and a wrong choice: everything, with the
\* edits made while the request was under way.
DropAll(box) == <<>>
DropPrefix(box) == SubSeq(box.commands, box.count + 1, Len(box.commands))

\* acknowledge_sync_outbox
Acknowledged(box, receipt) ==
  LET done == [box EXCEPT !.request = Nothing, !.count = 0] IN
  IF receipt.status = "synced"
    THEN [done EXCEPT !.commands = DropPrefix(box), !.base = receipt.state,
                      !.initial = FALSE]
    ELSE [done EXCEPT !.branched = TRUE]

\* A receipt for another request than the pending one throws.
Acknowledge(p) ==
  LET d == DeviceOf[p]
      valid == outbox[d].request = page[p].request.id
  IN
  /\ page[p].at = "acknowledging"
  /\ outbox' = IF valid THEN [outbox EXCEPT ![d] = Acknowledged(@, page[p].receipt)]
                        ELSE outbox
  /\ page' = [page EXCEPT ![p] = IF valid /\ page[p].again
                THEN [Resting(page[p].shown) EXCEPT !.at = "preparing"]
                ELSE Resting(page[p].shown)]
  /\ UNCHANGED <<stored, row, network, serverVars, bounds>>

\* Replacing the local campaign loses nothing the outbox still holds.  A wrong
\* choice: to trust the check that was made before the download.
Checked(d, state) == row[d] <= Revision(state)
Replaceable(d, state) ==
  LET box == outbox[d] IN
  stored[d] # Nothing =>
    /\ box # Nothing
    /\ box.commands = <<>> /\ ~box.initial /\ ~box.branched /\ ~box.overflow
    /\ row[d] <= Revision(state)
    /\ row[d] = Revision(state) => box.base = state

\* load: the head's snapshot, if the outbox is empty; then the originals are
\* downloaded.
Load(p) ==
  LET box == outbox[DeviceOf[p]] IN
  /\ page[p].at = "idle" /\ head # Nothing
  /\ box # Nothing =>
       box.commands = <<>> /\ ~box.initial /\ ~box.branched /\ ~box.overflow
  /\ page' = [page EXCEPT ![p].at = "installing", ![p].state = head.state]
  /\ UNCHANGED <<deviceVars, network, serverVars, bounds>>

\* installConnectedSnapshot
Install(p) ==
  LET d == DeviceOf[p]
      state == page[p].state
  IN
  /\ page[p].at = "installing"
  /\ IF Replaceable(d, state)
       THEN /\ stored' = [stored EXCEPT ![d] = state]
            /\ row' = [row EXCEPT ![d] = Revision(state)]
            /\ outbox' = [outbox EXCEPT ![d] = NewOutbox(state, FALSE)]
            /\ page' = [page EXCEPT ![p].at = "opening", ![p].state = Nothing]
       ELSE page' = [page EXCEPT ![p] = Resting(@.shown)] /\ UNCHANGED deviceVars
  /\ UNCHANGED <<network, serverVars, bounds>>

\* onOpen, after the installation.
Open(p) ==
  /\ page[p].at = "opening"
  /\ page' = [page EXCEPT ![p] = Resting(stored[DeviceOf[p]])]
  /\ UNCHANGED <<deviceVars, network, serverVars, bounds>>

-----------------------------------------------------------------------------
(* The server.  The campaign's row is locked for the whole transaction, so  *)
(* a request is one step.                                                   *)

\* replay_sync: each command must have been made for the revision it meets.
ReplaySync(base, commands) ==
  IF \A i \in 1 .. Len(commands) : commands[i].base = Revision(base) + i - 1
    THEN base \o [i \in 1 .. Len(commands) |-> commands[i].id]
    ELSE Nothing

\* The page that gets the answer, if one of those waiting does.
Answer(request, at, receipt) ==
  /\ \E p \in {q \in Pages : page[q].at = "waiting" /\ page[q].request = request}
                \cup {Nothing} :
       page' = [q \in Pages |->
         IF q # p THEN page[q]
         ELSE IF at = "idle" THEN Resting(page[q].shown)
         ELSE [page[q] EXCEPT !.at = at, !.receipt = receipt]]
  /\ UNCHANGED <<deviceVars, network, bounds>>

Known(request) == {x \in receipts : x.request.id = request.id}
\* What a lookup of the request id finds, and a wrong choice: nothing is kept.
Forgotten(request) == {}
Delivered(request) == Known(request)

\* A request that has a receipt changes nothing.
Redeliver(request) ==
  \E x \in Delivered(request) :
    /\ IF x.request = request THEN Answer(request, "acknowledging", x.receipt)
                              ELSE Answer(request, "idle", Nothing)
    /\ UNCHANGED serverVars

\* Whether the head has moved from the request's base.
Divergent(request) == head.state # request.base

\* The lease that keeps a second writer out.
ForeignLease(request) == head.writer \notin {request.device, Nothing}

\* plan_connected_sync, when it refuses nothing; the state it leads to.
Enables(request) == head = Nothing /\ request.initial
Continues(request) ==
  /\ head # Nothing /\ ~request.initial
  /\ request.base \in revisions
  /\ Divergent(request) \/ ~ForeignLease(request)
Planned(request) ==
  CASE Enables(request) -> request.base
    [] Continues(request) -> ReplaySync(request.base, request.commands)
    [] OTHER -> Nothing
Conflicting(request) == Continues(request) /\ Divergent(request)

\* A revision never gets another state, and a wrong choice.
AnyState(state) == TRUE
Immutable(state) ==
  \A s \in revisions : Revision(s) = Revision(state) => s = state

Acceptable(request) ==
  LET next == Planned(request) IN
  next # Nothing /\ (Conflicting(request) \/ Immutable(next))

Fresh(request) == Delivered(request) = {}
Record(request, receipt) ==
  receipts' = receipts \cup {[request |-> request, receipt |-> receipt]}

\* checkpoint, the head, the lease and the receipt.
Advance(request) ==
  LET next == Planned(request)
      receipt == [status |-> "synced", state |-> next]
  IN
  /\ Fresh(request) /\ Acceptable(request) /\ ~Conflicting(request)
  /\ revisions' = revisions \cup {next}
  /\ head' = [state |-> next, writer |-> request.device]
  /\ Record(request, receipt)
  /\ Answer(request, "acknowledging", receipt)
  /\ UNCHANGED branches

\* The head has moved: what the request makes of its base is kept beside it.
Diverge(request) ==
  LET next == Planned(request)
      receipt == [status |-> "recovered_branch", state |-> next]
  IN
  /\ Fresh(request) /\ Acceptable(request) /\ Conflicting(request)
  /\ branches' = branches \cup {[base |-> request.base, state |-> next]}
  /\ Record(request, receipt)
  /\ Answer(request, "acknowledging", receipt)
  /\ UNCHANGED <<head, revisions>>

Refuse(request) ==
  /\ Fresh(request) /\ ~Acceptable(request)
  /\ Answer(request, "idle", Nothing)
  /\ UNCHANGED serverVars

\* release_writer
Release(p) ==
  /\ page[p].at = "idle"
  /\ head # Nothing /\ head.writer = DeviceOf[p]
  /\ head' = [head EXCEPT !.writer = Nothing]
  /\ UNCHANGED <<deviceVars, page, network, revisions, receipts, branches, bounds>>

\* 30 seconds after the last sync.
LeaseExpires ==
  /\ head # Nothing /\ head.writer # Nothing
  /\ head' = [head EXCEPT !.writer = Nothing]
  /\ UNCHANGED <<deviceVars, page, network, revisions, receipts, branches, bounds>>

\* create_batch stores the revision it renders: any, before the campaign is
\* synced, and the head's only afterwards.
RenderBatch(p) ==
  LET state == page[p].shown IN
  /\ state # Nothing
  /\ head # Nothing => head.state = state
  /\ Immutable(state)
  /\ state \notin revisions
  /\ revisions' = revisions \cup {state}
  /\ UNCHANGED <<deviceVars, page, network, head, receipts, branches, bounds>>

-----------------------------------------------------------------------------
Next ==
  \/ \E p \in Pages :
       \/ Edit(p) \/ Reopen(p) \/ Sync(p) \/ Enable(p) \/ Prepare(p) \/ GiveUp(p)
       \/ Acknowledge(p) \/ Load(p) \/ Install(p) \/ Open(p)
       \/ Release(p) \/ RenderBatch(p)
  \/ \E request \in network :
       Redeliver(request) \/ Advance(request) \/ Diverge(request) \/ Refuse(request)
  \/ LeaseExpires

Spec == Init /\ [][Next]_vars

-----------------------------------------------------------------------------
\* No edit is lost: what was saved is on a device, in the cloud or in a branch,
\* through lost answers, repeated requests, downloads and divergence, as long as
\* every edit is made on what its device stores.
EditsSurvive ==
  late = 0 =>
    issued \subseteq UNION {Range(s) : s \in
      ({stored[d] : d \in Devices} \cup {IF head = Nothing THEN <<>> ELSE head.state}
         \cup {b.state : b \in branches}) \ {Nothing}}

\* An outbox that did not overflow is the way from a state the server has, or is
\* asked to begin with, to what the device stores: requests in flight, receipts
\* and edits meanwhile neither skip a command nor repeat one.
OutboxIsLocal ==
  late = 0 => \A d \in Devices :
    outbox[d] # Nothing /\ ~outbox[d].overflow =>
      /\ ReplaySync(outbox[d].base, outbox[d].commands) = stored[d]
      /\ outbox[d].base \in revisions \/ outbox[d].initial

\* A lost answer is no conflict: a branch with edits of its own holds something
\* the head does not.
ConflictsAreReal ==
  \A b \in branches : b.state # b.base => ~IsPrefix(b.state, head.state)

=============================================================================
