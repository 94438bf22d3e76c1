---------------------------- MODULE LocalJournal ----------------------------
(***************************************************************************)
(* The local copy of one campaign: the tabs that edit it (studio.tsx), and *)
(* the IndexedDB journal and snapshots they share (local-store.ts).        *)
(*                                                                         *)
(* A state of the campaign is the sequence of the commands that made it:   *)
(* its revision is its length, and two states have one hash exactly when   *)
(* they are equal.  A commit is the state its command leads to.            *)
(*                                                                         *)
(* A save is one transaction, with its continuation in the page, and then  *)
(* a compaction: a transaction that reads the journal and, when it is long *)
(* enough and a worker has hashed the state, one that writes a snapshot.   *)
(* Opening the campaign reads the snapshots and the journal in two         *)
(* transactions.  A page's transactions on the journal complete in the     *)
(* order it made them.                                                     *)
(***************************************************************************)
EXTENDS Naturals, Sequences, FiniteSets, SequencesExt, FiniteSetsExt

CONSTANTS
  Tabs,
  Commands,          \* identities of commands, ordered like their ids
  Nothing,           \* null, or a state not loaded yet
  Large,             \* commands that fill the journal's byte limit alone
  SnapshotInterval,
  Faults,            \* the kinds of fault that may happen
  MaxFaults          \* how many, over the behaviour

\* A write that fails; a page that crashes or is reloaded; the campaign opened
\* again in its page; a command taken before the page rendered the last state;
\* a snapshot that is damaged.
Kinds == {"fail", "reload", "reopen", "stale", "corrupt"}

ASSUME CommandsAssumption == Commands \subseteq Nat /\ Large \subseteq Commands
ASSUME IntervalAssumption == SnapshotInterval \in Nat \ {0}
ASSUME FaultsAssumption == Faults \subseteq Kinds /\ MaxFaults \in Nat

VARIABLES
  snapshots,    \* [state, valid]: one for each revision
  journal,      \* commits: the entry's hash and, as its last command, the key
  tab,          \* the page's refs and state
  queue,        \* a page's transactions on the journal, in order
  opening,      \* openCampaign
  compactions,  \* compactIfNeeded, when a snapshot is to be written
  issued, written, acknowledged,   \* history: commands, commits and receipts
  faults        \* how often each kind has happened

storeVars == <<snapshots, journal>>
pageVars == <<tab, queue, opening>>
historyVars == <<issued, written, acknowledged>>
vars == <<storeVars, pageVars, compactions, historyVars, faults>>

States == Seq(Commands)
Commits == States \ {<<>>}
Revision(state) == Len(state)

\* prepareCommand: a command envelope made for this state.
Prepare(state, c) == Append(state, c)

Page == [shown : {Nothing} \cup States,     \* the last setState
         closure : {Nothing} \cup States,   \* the state runCommand closes over
         pending : {Nothing} \cup Commits,  \* pendingCommitRef
         isDirty : BOOLEAN, failed : BOOLEAN, hiding : BOOLEAN]
Blank == [shown |-> Nothing, closure |-> Nothing, pending |-> Nothing,
          isDirty |-> FALSE, failed |-> FALSE, hiding |-> FALSE]
Snapshot == [state : States, valid : BOOLEAN]
Opening == [at : {"idle", "snapshots", "journal"}, snapshots : SUBSET Snapshot]
Compaction == [tab : Tabs, commit : Commits, entries : SUBSET Commits]
Saving(c) == [do |-> "save", commit |-> c]
Surveying(c) == [do |-> "survey", commit |-> c]
Recovering == [do |-> "recover", commit |-> Nothing]
Transaction == [do : {"save", "survey"}, commit : Commits] \cup {Recovering}
\* recoverCampaign: the newest snapshot whose checksum holds, and the longest
\* run of later entries that fit it one after the other; an entry fits a state
\* when its base is that revision and the replay has the entry's hash.  Entries
\* of one revision come in the order of their ids: the state the first one leads
\* to is the last one that is reached when there is a second.
FitsRevision(state, entry) == Revision(entry) = Revision(state) + 1
Fits(state, entry) == entry = Prepare(state, Last(entry))
EntriesAt(entries, n) == {e \in entries : Revision(e) = n}
First(entries, n) ==
  CHOOSE e \in EntriesAt(entries, n) : \A other \in EntriesAt(entries, n) : Last(e) <= Last(other)
Replayed(state, entries, n) ==
  [i \in 1..n |-> IF i <= Revision(state) THEN state[i] ELSE Last(First(entries, i))]
Reaches(state, entries, n) ==
  \A i \in (Revision(state) + 1)..n :
    /\ EntriesAt(entries, i) # {}
    /\ Fits(Replayed(state, entries, i - 1), First(entries, i))
    /\ i < n => EntriesAt(entries, i) = {First(entries, i)}
Reached(state, entries) ==
  {n \in {Revision(state)} \cup {Revision(e) : e \in entries} :
     n >= Revision(state) /\ Reaches(state, entries, n)}
Replay(state, entries) == Replayed(state, entries, Max(Reached(state, entries)))
Valid(snaps) == {s \in snaps : s.valid}
Newest(snaps) ==
  CHOOSE s \in Valid(snaps) : \A other \in Valid(snaps) : Revision(other.state) <= Revision(s.state)
Recover(snaps, entries) ==
  IF Valid(snaps) = {} THEN Nothing ELSE Replay(Newest(snaps).state, entries)

\* Types, and the store's keys: one snapshot per revision (local-store.ts:595),
\* and a receipt only for a commit that was written.
TypeOK ==
  /\ snapshots \subseteq Snapshot /\ journal \subseteq Commits
  /\ \A a, b \in snapshots : Revision(a.state) = Revision(b.state) => a = b
  /\ tab \in [Tabs -> Page]
  /\ queue \in [Tabs -> Seq(Transaction)]
  /\ opening \in [Tabs -> Opening]
  /\ compactions \subseteq Compaction
  /\ issued \subseteq Commands
  /\ acknowledged \subseteq written /\ written \subseteq Commits
  /\ faults \in [Kinds -> Nat]

Idle == [at |-> "idle", snapshots |-> {}]
ReadsSnapshots == [at |-> "snapshots", snapshots |-> {}]

\* createStoredCampaign has put the first snapshot, and every page shows it.
Init ==
  /\ snapshots = {[state |-> <<>>, valid |-> TRUE]}
  /\ journal = {}
  /\ tab = [t \in Tabs |-> [Blank EXCEPT !.shown = <<>>, !.closure = <<>>]]
  /\ queue = [t \in Tabs |-> <<>>]
  /\ opening = [t \in Tabs |-> Idle]
  /\ compactions = {}
  /\ issued = {} /\ written = {} /\ acknowledged = {}
  /\ faults = [k \in Kinds |-> 0]

MayHappen(kind) == kind \in Faults /\ MapThenSumSet(LAMBDA k : faults[k], Kinds) < MaxFaults
Fault(kind) == MayHappen(kind) /\ faults' = [faults EXCEPT ![kind] = @ + 1]

\* A transaction of that sort is the page's next to complete.
Turn(t, sort) ==
  /\ queue[t] # <<>> /\ Head(queue[t]).do = sort
  /\ queue' = [queue EXCEPT ![t] = Tail(@)]

-----------------------------------------------------------------------------
(* The page.  setState takes effect when React has rendered: until then     *)
(* runCommand is the function made for the state before.                    *)

\* persistCommit, up to the transaction.
Persist(t, commit) ==
  /\ tab' = [tab EXCEPT ![t].pending = commit, ![t].isDirty = TRUE, ![t].failed = FALSE]
  /\ queue' = [queue EXCEPT ![t] = Append(@, Saving(commit))]

RunCommand(t) ==
  LET page == tab[t] IN
  /\ ~page.hiding
  /\ page.closure # Nothing /\ page.pending = Nothing
  /\ IF page.closure = page.shown THEN UNCHANGED faults ELSE Fault("stale")
  /\ \E c \in Commands \ issued :
       /\ issued' = issued \cup {c}
       /\ Persist(t, Prepare(page.closure, c))
  /\ UNCHANGED <<storeVars, opening, compactions, written, acknowledged>>

RetrySave(t) ==
  /\ ~tab[t].hiding /\ tab[t].failed /\ tab[t].pending # Nothing
  /\ Persist(t, tab[t].pending)
  /\ UNCHANGED <<storeVars, opening, compactions, historyVars, faults>>

\* The page goes away: it takes no more input, and a reload follows.
PageHide(t) ==
  /\ MayHappen("reload")
  /\ ~tab[t].hiding /\ tab[t].pending # Nothing
  /\ LET commit == tab[t].pending IN
       /\ tab' = [tab EXCEPT ![t].isDirty = TRUE, ![t].failed = FALSE, ![t].hiding = TRUE]
       /\ queue' = [queue EXCEPT ![t] = Append(@, Saving(commit))]
  /\ UNCHANGED <<storeVars, opening, compactions, historyVars, faults>>

Render(t) ==
  /\ tab[t].closure # tab[t].shown
  /\ tab' = [tab EXCEPT ![t].closure = tab[t].shown]
  /\ UNCHANGED <<storeVars, queue, opening, compactions, historyVars, faults>>

\* The campaign's button, disabled while an edit is not saved.
OpenCampaign(t) ==
  /\ ~tab[t].hiding /\ tab[t].shown # Nothing /\ ~tab[t].isDirty
  /\ opening[t].at = "idle"
  /\ Fault("reopen")
  /\ opening' = [opening EXCEPT ![t] = ReadsSnapshots]
  /\ UNCHANGED <<storeVars, tab, queue, compactions, historyVars>>

ReadSnapshots(t) ==
  /\ opening[t].at = "snapshots"
  /\ opening' = [opening EXCEPT ![t] = [at |-> "journal", snapshots |-> snapshots]]
  /\ queue' = [queue EXCEPT ![t] = Append(@, Recovering)]
  /\ UNCHANGED <<storeVars, tab, compactions, historyVars, faults>>

\* The rest of openCampaign, once the journal is read.
Opened(t) ==
  /\ Turn(t, "recover")
  /\ opening' = [opening EXCEPT ![t] = Idle]
  /\ LET recovered == Recover(opening[t].snapshots, journal) IN
       tab' = IF recovered = Nothing THEN tab
              ELSE [tab EXCEPT ![t].shown = recovered, ![t].pending = Nothing,
                               ![t].failed = FALSE]
  /\ UNCHANGED <<storeVars, compactions, historyVars, faults>>

\* A crash, or a reload: what the page had in flight is lost, but for the
\* transactions that completed before the page could see it.
Reload(t) ==
  /\ Fault("reload")
  /\ tab' = [tab EXCEPT ![t] = Blank]
  /\ queue' = [queue EXCEPT ![t] = <<>>]
  /\ opening' = [opening EXCEPT ![t] = ReadsSnapshots]
  /\ compactions' = {p \in compactions : p.tab # t}
  /\ \E n \in 0 .. Len(queue[t]) :
       LET done == {queue[t][i].commit : i \in {k \in 1 .. n : queue[t][k].do = "save"}}
       IN /\ journal' = journal \cup done
          /\ written' = written \cup done
  /\ UNCHANGED <<snapshots, issued, acknowledged>>

-----------------------------------------------------------------------------
(* savePreparedCommit and compactIfNeeded.                                  *)

\* The transaction puts the entry, under the key of its revision and command,
\* and the campaign's row; the rest of persistCommit runs when it is complete.
Saved(t) ==
  /\ queue[t] # <<>> /\ Head(queue[t]).do = "save"
  /\ LET commit == Head(queue[t]).commit IN
       /\ journal' = journal \cup {commit}
       /\ written' = written \cup {commit}
       /\ acknowledged' = acknowledged \cup {commit}
       /\ queue' = [queue EXCEPT ![t] = Append(Tail(@), Surveying(commit))]
       /\ tab' = [tab EXCEPT ![t].pending = Nothing, ![t].isDirty = FALSE,
                             ![t].failed = FALSE, ![t].shown = commit]
  /\ UNCHANGED <<snapshots, opening, compactions, issued, faults>>

SaveFails(t) ==
  /\ Turn(t, "save")
  /\ Fault("fail")
  /\ tab' = [tab EXCEPT ![t].failed = TRUE]
  /\ UNCHANGED <<storeVars, opening, compactions, historyVars>>

\* Fifty entries or two megabytes.
DueLate(entries) ==
  Cardinality(entries) > SnapshotInterval \/ \E e \in entries : Last(e) \in Large
Due(entries) ==
  Cardinality(entries) >= SnapshotInterval \/ \E e \in entries : Last(e) \in Large

\* compactIfNeeded reads the journal.
Survey(t) ==
  /\ Turn(t, "survey")
  /\ compactions' = compactions \cup
       IF Due(journal)
       THEN {[tab |-> t, commit |-> Head(queue[t]).commit, entries |-> journal]}
       ELSE {}
  /\ UNCHANGED <<storeVars, tab, opening, historyVars, faults>>

\* The entries a snapshot makes superfluous, and a wrong choice.
AllRead(p) == p.entries
Covered(p) == {e \in p.entries : Revision(e) <= Revision(p.commit)}

SameState(s, commit) == s.state = commit
SameKey(s, commit) == Revision(s.state) = Revision(commit)
WriteSnapshot(p) ==
  /\ snapshots' = {s \in snapshots : ~SameKey(s, p.commit)}
                    \cup {[state |-> p.commit, valid |-> TRUE]}
  /\ journal' = journal \ Covered(p)
  /\ compactions' = compactions \ {p}
  /\ UNCHANGED <<pageVars, historyVars, faults>>

\* The snapshot's transaction or its worker fails; nobody tries again.
CompactionFails(p) ==
  /\ Fault("fail")
  /\ compactions' = compactions \ {p}
  /\ UNCHANGED <<storeVars, pageVars, historyVars>>

Corrupt ==
  /\ Fault("corrupt")
  /\ \E s \in {x \in snapshots : x.valid} :
       snapshots' = (snapshots \ {s}) \cup {[s EXCEPT !.valid = FALSE]}
  /\ UNCHANGED <<journal, pageVars, compactions, historyVars>>

-----------------------------------------------------------------------------
Next ==
  \/ \E t \in Tabs :
       \/ RunCommand(t) \/ RetrySave(t) \/ PageHide(t) \/ Render(t)
       \/ OpenCampaign(t) \/ ReadSnapshots(t) \/ Opened(t) \/ Reload(t)
       \/ Saved(t) \/ SaveFails(t) \/ Survey(t)
  \/ \E p \in compactions : WriteSnapshot(p) \/ CompactionFails(p)
  \/ Corrupt

Spec == Init /\ [][Next]_vars

-----------------------------------------------------------------------------
\* What opening the campaign would show now.
Recoverable == Recover(snapshots, journal)

\* No two commits were made on one revision.
Linear == \A a, b \in written : IsPrefix(a, b) \/ IsPrefix(b, a)

\* "Saved locally" means nothing is lost in a crash: every edit that got its
\* receipt is in the state opening the campaign recovers.
AcknowledgedSurvives ==
  \A a \in acknowledged : Recoverable # Nothing /\ Last(a) \in Range(Recoverable)

\* As long as commits follow each other and no snapshot is damaged, recovery
\* yields the last commit written, whatever saves, compactions, failures and
\* reloads overlapped: snapshots and deletions never show.
LinearCommitsSurvive ==
  Linear /\ faults["corrupt"] = 0 =>
    \A w \in written : IsPrefix(w, Recoverable)

\* Recovery never mixes: what it yields is the campaign as it was created or as
\* one commit left it, in every order of tabs, races, failures and damage.
RecoveredWasCommitted == Recoverable \in written \cup {<<>>, Nothing}

\* The journal stays short: once the compactions are over, and none was cut off
\* or failed, fewer entries than the interval are left.
QuietJournalIsShort ==
  /\ compactions = {} /\ faults["reload"] = 0 /\ faults["fail"] = 0
  /\ \A t \in Tabs : queue[t] = <<>>
  => Cardinality(journal) < SnapshotInterval
=============================================================================
