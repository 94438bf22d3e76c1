------------------------------ MODULE Uploads ------------------------------
(***************************************************************************)
(* Uploads of one original: the service's multipart sessions               *)
(* (upload_api.rs), the object store behind them, and the pages that send  *)
(* the parts (ensureUploaded in connected-cloud-board.tsx).                *)
(*                                                                         *)
(* A request is split where the service awaits the object store.  Its      *)
(* first lookup is one step with the call that follows: what happens in    *)
(* between, also happens before the one or after the other.  An object is  *)
(* verified in one step with the transaction that records the outcome:     *)
(* nothing writes to it after it was assembled.                            *)
(***************************************************************************)
EXTENDS Naturals, Sequences, FiniteSets, SequencesExt

CONSTANTS
  Devices, Campaigns,  \* of one tenant
  LastPart,            \* the original's number of parts
  NoSession,
  MaxSessions,  \* bound: sessions ever opened
  MaxFaults     \* bound: lost requests, uploads of a whole day, bad files

ASSUME UploadAssumption ==
  /\ LastPart \in Nat \ {0} /\ MaxSessions \in Nat /\ MaxFaults \in Nat
  /\ NoSession \notin 1..MaxSessions

VARIABLES
  sessions,  \* upload_sessions, oldest first
  store,     \* the object store: the multipart upload and the object of a session
  asset,     \* media_assets: the session whose object is the original's, if any
  device,    \* a page's upload, with the request it has in flight
  faults

vars == <<sessions, store, asset, device, faults>>

Parts == 1..LastPart

\* The file a page holds for the original: the original, one whose bytes changed,
\* or one that was cut off.
Files == {"whole", "changed", "short"}
PartOf(f, p) == IF (f = "changed" /\ p = 1) \/ (f = "short" /\ p = LastPart) THEN f ELSE "whole"
Bytes(content) == IF content = "short" THEN 1 ELSE 2
TotalBytes(f) == 2 * LastPart - (IF f = "short" THEN 1 ELSE 0)
Original == [p \in Parts |-> "whole"]

Receipts == [part : Parts, content : Files]
States == {"uploading", "aborted", "completed"}
NoDevice == [pc |-> "idle", campaign |-> NoSession, file |-> "whole", session |-> NoSession,
             opened |-> FALSE, sent |-> {}, part |-> 0, listed |-> <<>>]

-----------------------------------------------------------------------------
\* A lookup that does not look at the time.
Unended(s) == sessions[s].state = "uploading"
Live(s) == sessions[s].state = "uploading" /\ ~sessions[s].expired
Resumable(c) == {s \in DOMAIN sessions : Live(s) /\ sessions[s].campaign = c}
Newest(ss) == CHOOSE s \in ss : \A t \in ss : t <= s

\* upload_part_receipt.sql merges the receipt into the stored list.  An update
\* that goes by the order of arrival, and one that writes what its request had
\* read when it began.
Appended(list, r) == Append(SelectSeq(list, LAMBDA q : q.part # r.part), r)
UpToPart(list, r) == Append(SelectSeq(list, LAMBDA q : q.part < r.part), r)
Place(list, p) ==   \* where a receipt of part p belongs in a list in order
  CHOOSE i \in 1..(Len(list) + 1) :
    /\ \A k \in 1..(i - 1) : list[k].part < p
    /\ i <= Len(list) => p <= list[i].part
Merged(list, r) ==
  LET i == Place(list, r.part)
      more == IF i <= Len(list) /\ list[i].part = r.part THEN 0 ELSE 1
  IN [k \in 1..(Len(list) + more) |->
        IF k < i THEN list[k] ELSE IF k = i THEN r ELSE list[k - more]]

Size(list) == FoldSeq(LAMBDA r, n : n + Bytes(r.content), 0, list)

\* What complete_upload checks of the object; a check of its length only.
Measured(s) == Size([i \in DOMAIN store[s].object |->
                      [part |-> i, content |-> store[s].object[i]]]) = sessions[s].total
Verified(s) == Measured(s) /\ store[s].object = Original

Step(d, pc) == device' = [device EXCEPT ![d].pc = pc]
Done(d) == device' = [device EXCEPT ![d] = NoDevice]

-----------------------------------------------------------------------------
Init ==
  /\ sessions = <<>> /\ store = <<>> /\ asset = NoSession /\ faults = 0
  /\ device = [d \in Devices |-> NoDevice]

\* The user starts a batch: startBatch uploads its original from the local file.
\* It does so too when the tenant has the original; the model leaves that out.
Press(d, c, f) ==
  /\ device[d].pc = "idle" /\ asset = NoSession
  /\ IF f = "whole" THEN UNCHANGED faults ELSE faults < MaxFaults /\ faults' = faults + 1
  /\ device' = [device EXCEPT ![d].pc = "create", ![d].campaign = c, ![d].file = f]
  /\ UNCHANGED <<sessions, store, asset>>

\* create_upload answers with the campaign's newest session and its receipts, or
\* turns to the object store for a new one.
Create(d) ==
  /\ device[d].pc = "create"
  /\ LET ss == Resumable(device[d].campaign) IN
     IF ss = {} THEN Step(d, "open")
     ELSE device' = [device EXCEPT
            ![d].pc = "send", ![d].session = Newest(ss),
            ![d].sent = {r.part : r \in ToSet(sessions[Newest(ss)].receipts)}]
  /\ UNCHANGED <<sessions, store, asset, faults>>

\* The multipart upload exists; its session is inserted and answered.
Open(d) ==
  /\ device[d].pc = "open" /\ Len(sessions) < MaxSessions
  /\ sessions' = Append(sessions, [campaign |-> device[d].campaign, total |-> TotalBytes(device[d].file),
                                   receipts |-> <<>>, state |-> "uploading", expired |-> FALSE])
  /\ store' = Append(store, [open |-> TRUE, parts |-> [p \in Parts |-> NoSession], object |-> <<>>])
  /\ device' = [device EXCEPT ![d].pc = "send", ![d].session = Len(sessions) + 1, ![d].opened = TRUE]
  /\ UNCHANGED <<asset, faults>>

\* The page sends its next part, which replaces the part in the object store; a
\* session that has ended, or whose upload was assembled, answers with an error.
SendPart(d) ==
  /\ device[d].pc = "send" /\ device[d].sent # Parts
  /\ LET s == device[d].session
         p == CHOOSE p \in Parts \ device[d].sent : \A q \in Parts \ device[d].sent : p <= q IN
     IF Live(s) /\ store[s].open
     THEN /\ store' = [store EXCEPT ![s].parts[p] = PartOf(device[d].file, p)]
          /\ device' = [device EXCEPT ![d].pc = "receipt", ![d].part = p]
     ELSE Done(d) /\ UNCHANGED store
  /\ UNCHANGED <<sessions, asset, faults>>

\* The part's receipt is merged into the session, unless that ended meanwhile.
SaveReceipt(d) ==
  /\ device[d].pc = "receipt"
  /\ LET s == device[d].session
         r == [part |-> device[d].part, content |-> PartOf(device[d].file, device[d].part)] IN
     IF Live(s)
     THEN /\ sessions' = [sessions EXCEPT ![s].receipts = Merged(@, r)]
          /\ device' = [device EXCEPT ![d].pc = "send", ![d].sent = @ \cup {r.part}, ![d].part = 0]
     ELSE Done(d) /\ UNCHANGED sessions
  /\ UNCHANGED <<store, asset, faults>>

\* complete_upload: the receipts must add up to the declared length.
Complete(d) ==
  /\ device[d].pc = "send" /\ device[d].sent = Parts
  /\ LET s == device[d].session IN
     IF Live(s) /\ Size(sessions[s].receipts) = sessions[s].total
     THEN device' = [device EXCEPT ![d].pc = "assemble", ![d].listed = sessions[s].receipts]
     ELSE Done(d)
  /\ UNCHANGED <<sessions, store, asset, faults>>

\* The object store assembles the listed parts once: an upload that was assembled
\* is gone, and a part that was replaced has another tag.
Assemble(d) ==
  /\ device[d].pc = "assemble"
  /\ LET s == device[d].session
         listed == device[d].listed IN
     IF store[s].open /\ \A i \in DOMAIN listed : store[s].parts[listed[i].part] = listed[i].content
     THEN /\ store' = [store EXCEPT ![s].open = FALSE,
                                    ![s].object = [i \in DOMAIN listed |-> listed[i].content]]
          /\ device' = [device EXCEPT ![d].pc = "verify", ![d].listed = <<>>]
     ELSE Done(d) /\ UNCHANGED store
  /\ UNCHANGED <<sessions, asset, faults>>

\* The object is read back: it becomes the tenant's copy of the original, unless
\* there is one, or the session is aborted.  Neither update asks for the state.
Verify(d) ==
  /\ device[d].pc = "verify"
  /\ LET s == device[d].session IN
     IF Verified(s)
     THEN /\ asset' = IF asset = NoSession THEN s ELSE asset
          /\ sessions' = [sessions EXCEPT ![s].state = "completed"]
     ELSE sessions' = [sessions EXCEPT ![s].state = "aborted"] /\ UNCHANGED asset
  /\ Done(d)
  /\ UNCHANGED <<store, faults>>

\* The request is lost with its connection or its server, or its answer is: the
\* page shows an error.
Lose(d) ==
  /\ device[d].pc # "idle" /\ faults < MaxFaults /\ faults' = faults + 1
  /\ Done(d)
  /\ UNCHANGED <<sessions, store, asset>>

Fresh(s) == \E d \in Devices : device[d].session = s /\ device[d].opened

\* A day has passed.  That the page which opened the session is still at it, is
\* counted as a fault.
Expire(s) ==
  /\ s \in DOMAIN sessions /\ Live(s)
  /\ IF Fresh(s) THEN faults < MaxFaults /\ faults' = faults + 1 ELSE UNCHANGED faults
  /\ sessions' = [sessions EXCEPT ![s].expired = TRUE]
  /\ UNCHANGED <<store, asset, device>>

Serve(d) == Create(d) \/ Open(d) \/ SendPart(d) \/ SaveReceipt(d) \/ Complete(d) \/ Assemble(d) \/ Verify(d)

Next ==
  \/ \E d \in Devices, c \in Campaigns, f \in Files : Press(d, c, f)
  \/ \E d \in Devices : Serve(d) \/ Lose(d)
  \/ \E s \in 1..MaxSessions : Expire(s)

Spec == Init /\ [][Next]_vars

\* Requests are served and time passes.
FairSpec ==
  /\ Spec
  /\ \A d \in Devices : WF_vars(Serve(d))
  /\ \A s \in 1..MaxSessions : WF_vars(Expire(s))

-----------------------------------------------------------------------------
(* Properties *)

Ascending(list) == \A i, j \in DOMAIN list : i < j => list[i].part < list[j].part

Session == [campaign : Campaigns, total : {TotalBytes(f) : f \in Files}, receipts : Seq(Receipts),
            state : States, expired : BOOLEAN]
Upload == [open : BOOLEAN, parts : [Parts -> Files \cup {NoSession}], object : Seq(Files)]
Device == [pc : {"idle", "create", "open", "send", "receipt", "assemble", "verify"},
           campaign : Campaigns \cup {NoSession}, file : Files,
           session : 1..MaxSessions \cup {NoSession}, opened : BOOLEAN,
           sent : SUBSET Parts, part : Parts \cup {0}, listed : Seq(Receipts)]

\* Every variable keeps its type; a session's receipts stay unique and sorted, as
\* validate_upload_session asks of every stored session before it is used.
TypeOK ==
  /\ sessions \in Seq(Session) /\ store \in Seq(Upload) /\ device \in [Devices -> Device]
  /\ Len(store) = Len(sessions) /\ Len(sessions) <= MaxSessions
  /\ \A s \in DOMAIN sessions : Ascending(sessions[s].receipts)
  /\ \A d \in Devices : device[d].session \in DOMAIN sessions \cup {NoSession}
  /\ asset \in DOMAIN sessions \cup {NoSession} /\ faults \in 0..MaxFaults

\* Whatever files were sent, in whatever order, by whomever: the object a renderer
\* gets for the original is the whole original (worker.rs:132 does not check it
\* against the hash before it renders).
AssetIsWhole == asset # NoSession => store[asset].object = Original

\* Two pages that send parts of one session do not lose each other's receipts: a
\* page that was told its part is stored finds it in the session when it completes.
PartsAreKept ==
  \A d \in Devices : LET s == device[d].session IN
    s # NoSession => device[d].sent \subseteq {r.part : r \in ToSet(sessions[s].receipts)}

\* A page that holds the original and whose user keeps asking gets it uploaded,
\* whatever was interrupted, sent wrong by another page or left half done before.
\* A session whose object was assembled by a request that then died refuses every
\* request until its day is over.
UploadsFinish ==
  \A d \in Devices, c \in Campaigns :
    []<><<Press(d, c, "whole")>>_vars => <>(asset # NoSession)
=============================================================================
