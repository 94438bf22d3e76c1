------------------------- MODULE LocalJournalProofs -------------------------
(***************************************************************************)
(* Theorems about LocalJournal for every set of tabs and commands, every   *)
(* interval between snapshots and every number of faults.                  *)
(***************************************************************************)
EXTENDS LocalJournal, FiniteSetTheorems, WellFoundedInduction, TLAPS

\* What a command can be made for: the new campaign, or a commit that was written.
Base == written \cup {<<>>}

\* Every state on the way to a commit is one of these.
Rooted(commit, base) == \A n \in 0..(Len(commit) - 1) : SubSeq(commit, 1, n) \in base

PageOK(page, base) ==
  /\ page.shown \in {Nothing} \cup base /\ page.closure \in {Nothing} \cup base
  /\ page.pending # Nothing => Rooted(page.pending, base)
QueueOK(q, base) ==
  \A i \in 1..Len(q) : /\ q[i].do = "save" => Rooted(q[i].commit, base)
                       /\ q[i].do = "survey" => q[i].commit \in base
OpeningOK(o, base) == \A s \in o.snapshots : s.state \in base
CompactionOK(p, base) == p.commit \in base /\ p.entries \subseteq base

\* Pages, transactions and the store hold commits that were written, or commits
\* made from them.
Descent ==
  /\ \A w \in written : Rooted(w, Base)
  /\ journal \subseteq written
  /\ \A s \in snapshots : s.state \in Base
  /\ \A t \in Tabs : PageOK(tab[t], Base) /\ QueueOK(queue[t], Base) /\ OpeningOK(opening[t], Base)
  /\ \A p \in compactions : CompactionOK(p, Base)

Bounded == \E n \in Nat : \A w \in written : Len(w) <= n

\* A commit leaves the journal only when a snapshot at its revision or above is
\* there; a snapshot that is replaced is replaced by one of the same revision.
Kept ==
  /\ snapshots # {}
  /\ \A w \in written : w \in journal \/ \E s \in snapshots : Len(s.state) >= Len(w)
  /\ faults["corrupt"] = 0 => \A s \in snapshots : s.valid

\* The entries that no survey and no compaction of their own is going to remove.
HasSurvey(q, e) == \E i \in 1..Len(q) : q[i] = Surveying(e)
Settled == {e \in journal : /\ \A t \in Tabs : ~HasSurvey(queue[t], e)
                            /\ \A p \in compactions : p.commit = e => e \notin p.entries}
Short ==
  faults["reload"] = 0 /\ faults["fail"] = 0 =>
    IsFiniteSet(journal) /\ Cardinality(Settled) < SnapshotInterval

Inv == TypeOK /\ Descent /\ Bounded /\ Kept /\ Short

-----------------------------------------------------------------------------
\* What states are: sequences, and a commit is one that is not empty.
LEMMA StateFacts ==
  ASSUME NEW s \in States
  PROVE  /\ s \in Seq(Commands) /\ Revision(s) = Len(s) /\ Len(s) \in Nat
         /\ s \in Commits <=> Len(s) > 0
         /\ s \in Commits => Last(s) \in Commands /\ Last(s) \in Nat /\ Last(s) = s[Len(s)]
<1>1. s \in Seq(Commands) /\ Len(s) \in Nat
  BY DEF States
<1>2. s = <<>> <=> Len(s) = 0
  BY <1>1
<1>3. s \in Commits <=> Len(s) > 0
  BY <1>1, <1>2 DEF Commits
<1>4. Len(s) > 0 => s[Len(s)] \in Commands
  BY <1>1
<1>5. QED
  BY <1>1, <1>3, <1>4, CommandsAssumption DEF Revision, Last

\* A command made for a state that was written is a commit whose way was written.
LEMMA PreparedCommit ==
  ASSUME NEW base \in SUBSET States, NEW s \in base, Rooted(s, base), NEW c \in Commands,
         NEW r, r = Prepare(s, c)
  PROVE  r \in Commits /\ Rooted(r, base) /\ Last(r) = c
<1>1. s \in Seq(Commands) /\ Len(s) \in Nat /\ r = Append(s, c)
  BY DEF States, Prepare
<1>2. r \in Seq(Commands) /\ Len(r) = Len(s) + 1 /\ r[Len(s) + 1] = c
  BY <1>1
<1>3. ASSUME NEW n \in 0..(Len(r) - 1) PROVE SubSeq(r, 1, n) \in base
  <2>1. SubSeq(r, 1, n) = SubSeq(s, 1, n)
    BY <1>1, <1>2, <1>3
  <2>2. CASE n \in 0..(Len(s) - 1)
    BY <2>1, <2>2 DEF Rooted
  <2>3. CASE n = Len(s)
    <3>1. SubSeq(s, 1, n) = s
      BY <1>1, <2>3
    <3>2. QED
      BY <2>1, <3>1
  <2>4. QED
    BY <1>1, <1>2, <2>2, <2>3
<1>4. QED
  BY <1>1, <1>2, <1>3 DEF Rooted, Commits, States, Last

\* A set of natural numbers that is not empty has a least one.
LEMMA LeastNatural ==
  ASSUME NEW T \in SUBSET Nat, T # {}
  PROVE  \E n \in T : \A m \in T : n <= m
<1> DEFINE Less == {p \in Nat \X Nat : p[1] < p[2]}
<1>1. IsWellFoundedOn(Less, Nat)
  BY NatLessThanWellFounded DEF OpToRel
<1>2. \E n \in T : \A m \in T : <<m, n>> \notin Less
  <2> HIDE DEF Less
  <2>1. QED
    BY <1>1, WFMin
<1>3. PICK n \in T : \A m \in T : <<m, n>> \notin Less
  BY <1>2
<1>4. ASSUME NEW m \in T, m < n PROVE FALSE
  <2>1. <<m, n>> \in Less
    BY <1>4
  <2>2. QED
    BY <1>3, <2>1
<1>5. QED
  BY <1>4

\* One that has a bound has a greatest one: its least bound.
LEMMA GreatestNatural ==
  ASSUME NEW T \in SUBSET Nat, T # {}, NEW b \in Nat, \A n \in T : n <= b
  PROVE  \E n \in T : \A m \in T : m <= n
<1> DEFINE Bounds == {k \in Nat : \A n \in T : n <= k}
<1>1. PICK k \in Bounds : \A j \in Bounds : k <= j
  <2>1. Bounds \in SUBSET Nat /\ b \in Bounds
    OBVIOUS
  <2>2. QED
    BY <2>1, LeastNatural
<1>2. ASSUME k \notin T PROVE FALSE
  <2>1. \A n \in T : n \in Nat /\ n < k
    BY <1>1, <1>2
  <2>2. k - 1 \in Nat
    <3>1. PICK n \in T : TRUE
      OBVIOUS
    <3>2. QED
      BY <2>1, <3>1
  <2>3. k - 1 \in Bounds
    BY <2>1, <2>2
  <2>4. QED
    BY <1>1, <2>3
<1>3. QED
  BY <1>1, <1>2
\* The first entry of a revision is one of its entries.
LEMMA FirstEntry ==
  ASSUME NEW entries \in SUBSET Commits, NEW n, EntriesAt(entries, n) # {}
  PROVE  First(entries, n) \in EntriesAt(entries, n)
<1> DEFINE S == EntriesAt(entries, n)
           T == {Last(e) : e \in S}
<1>1. S \subseteq Commits /\ S # {}
  BY DEF EntriesAt
<1>2. \A e \in S : Last(e) \in Nat
  BY <1>1, StateFacts DEF Commits
<1>3. T \in SUBSET Nat /\ T # {}
  BY <1>1, <1>2
<1>4. PICK m \in T : \A k \in T : m <= k
  BY <1>3, LeastNatural
<1>5. PICK e \in S : Last(e) = m
  BY <1>4
<1>6. \A other \in S : Last(e) <= Last(other)
  BY <1>4, <1>5
<1>7. QED
  BY <1>5, <1>6 DEF First

\* What a run of entries leads to: nowhere, or to its last entry, and there is no
\* longer run.
LEMMA ReplayResult ==
  ASSUME NEW state \in States, NEW entries \in SUBSET Commits,
         NEW b \in Nat, \A e \in entries : Len(e) <= b,
         NEW r, r = Replay(state, entries)
  PROVE  /\ r \in {state} \cup entries
         /\ \A n \in Reached(state, entries) : n <= Len(r)
<1> DEFINE T == Reached(state, entries)
           n == Max(T)
           base == Len(state)
<1>1. base \in Nat /\ state \in Seq(Commands) /\ Revision(state) = base
  BY StateFacts
<1>2. \A e \in entries : Revision(e) = Len(e) /\ Len(e) \in Nat /\ e \in Seq(Commands)
  BY StateFacts DEF Commits
<1>3. T \in SUBSET Nat /\ base \in T /\ \A m \in T : m <= b + base
  <2>1. ASSUME NEW m \in T PROVE m \in Nat /\ m <= b + base
    <3>1. m = base \/ \E e \in entries : m = Len(e)
      BY <1>1, <1>2 DEF Reached
    <3>2. QED
      BY <1>1, <1>2, <3>1
  <2>2. Reaches(state, entries, base)
    BY <1>1 DEF Reaches
  <2>3. base \in T
    BY <1>1, <2>2 DEF Reached
  <2>4. QED
    BY <2>1, <2>3
<1>4. n \in T /\ \A m \in T : m <= n
  <2> HIDE DEF T
  <2>1. b + base \in Nat
    BY <1>1
  <2>2. PICK x \in T : \A m \in T : m <= x
    BY <1>3, <2>1, GreatestNatural
  <2>3. \A m \in T : x >= m
    BY <1>3, <2>2
  <2>4. n \in T /\ \A m \in T : n >= m
    BY <2>2, <2>3 DEF Max
  <2>5. QED
    BY <1>3, <2>4
<1>5. r = Replayed(state, entries, n) /\ n \in Nat
  BY <1>3, <1>4 DEF Replay
<1>6. n >= base /\ Reaches(state, entries, n)
  BY <1>1, <1>4 DEF Reached
<1> HIDE DEF n
<1>7. CASE n = base
  <2>1. r = [i \in 1..base |-> state[i]]
    BY <1>1, <1>5, <1>7 DEF Replayed
  <2>2. r = state
    BY <1>1, <2>1
  <2>3. QED
    BY <1>4, <1>7, <2>2
<1>8. CASE n > base
  <2> DEFINE e == First(entries, n)
  <2>1. n \in (base + 1)..n /\ n - 1 \in Nat
    BY <1>1, <1>5, <1>8
  <2>2. EntriesAt(entries, n) # {} /\ Fits(Replayed(state, entries, n - 1), e)
    BY <1>1, <1>6, <2>1 DEF Reaches
  <2>3. e \in entries /\ Len(e) = n
    BY <1>2, <2>2, FirstEntry DEF EntriesAt
  <2>4. e = Append(Replayed(state, entries, n - 1), Last(e)) /\ Last(e) = e[n]
    BY <2>2, <2>3 DEF Fits, Prepare, Last
  <2>5. ASSUME NEW i \in 1..n PROVE r[i] = e[i]
    <3>1. r[i] = IF i <= base THEN state[i] ELSE Last(First(entries, i))
      BY <1>1, <1>5 DEF Replayed
    <3>2. CASE i = n
      BY <1>1, <1>8, <2>1, <2>4, <3>1, <3>2
    <3>3. CASE i # n
      <4> DEFINE q == Replayed(state, entries, n - 1)
      <4>1. i \in 1..(n - 1)
        BY <1>5, <3>3
      <4>2. q[i] = IF i <= base THEN state[i] ELSE Last(First(entries, i))
        BY <1>1, <4>1 DEF Replayed
      <4>3. e[i] = q[i]
        <5>1. q = [k \in 1..(n - 1) |-> q[k]]
          BY DEF Replayed
        <5> HIDE DEF q
        <5>2. Len(q) = n - 1
          BY <2>1, <5>1
        <5>3. Append(q, Last(e))[i] = q[i]
          BY <2>1, <4>1, <5>1, <5>2
        <5>4. QED
          BY <2>4, <5>3 DEF q
      <4>4. QED
        BY <3>1, <4>2, <4>3
    <3>4. QED
      BY <3>2, <3>3
  <2>6. r = e
    <3>1. r = [i \in 1..n |-> r[i]]
      BY <1>5 DEF Replayed
    <3>2. e = [i \in 1..n |-> e[i]]
      BY <1>2, <2>3
    <3> HIDE DEF e
    <3>3. QED
      BY <2>5, <3>1, <3>2
  <2>7. QED
    BY <1>4, <2>3, <2>6
<1>9. QED
  BY <1>1, <1>5, <1>6, <1>7, <1>8

\* Among valid snapshots there is a newest one.
LEMMA NewestSnapshot ==
  ASSUME NEW snaps \in SUBSET Snapshot, Valid(snaps) # {},
         NEW b \in Nat, \A s \in snaps : Len(s.state) <= b
  PROVE  /\ Newest(snaps) \in Valid(snaps)
         /\ \A other \in Valid(snaps) : Len(other.state) <= Len(Newest(snaps).state)
<1> DEFINE T == {Len(s.state) : s \in Valid(snaps)}
<1>1. \A s \in Valid(snaps) : s \in snaps /\ s.state \in States /\ Len(s.state) \in Nat
  BY StateFacts DEF Snapshot, Valid
<1>2. T \in SUBSET Nat /\ T # {} /\ \A n \in T : n <= b
  BY <1>1
<1>3. PICK m \in T : \A n \in T : n <= m
  BY <1>2, GreatestNatural
<1>4. PICK s \in Valid(snaps) : Len(s.state) = m
  BY <1>3
<1>5. \A other \in Valid(snaps) : Revision(other.state) <= Revision(s.state)
  BY <1>3, <1>4 DEF Revision
<1>6. /\ Newest(snaps) \in Valid(snaps)
      /\ \A other \in Valid(snaps) : Revision(other.state) <= Revision(Newest(snaps).state)
  BY <1>4, <1>5 DEF Newest
<1>7. QED
  BY <1>6 DEF Revision

\* Recovery yields nothing, the new campaign, or a commit that was written.
LEMMA RecoverResult ==
  ASSUME TypeOK, journal \subseteq written, Bounded,
         NEW snaps \in SUBSET Snapshot, \A s \in snaps : s.state \in Base
  PROVE  Recover(snaps, journal) \in {Nothing} \cup Base
<1>1. PICK b \in Nat : \A w \in written : Len(w) <= b
  BY DEF Bounded
<1>2. \A s \in Base : Len(s) <= b
  BY <1>1 DEF Base
<1>3. journal \in SUBSET Commits /\ \A e \in journal : Len(e) <= b
  BY <1>1 DEF TypeOK
<1>4. CASE Valid(snaps) = {}
  BY <1>4 DEF Recover
<1>5. CASE Valid(snaps) # {}
  <2>1. Newest(snaps) \in Valid(snaps)
    BY <1>2, <1>5, NewestSnapshot
  <2>2. Newest(snaps).state \in States /\ Newest(snaps).state \in Base
    BY <2>1 DEF Snapshot, Valid
  <2>3. Replay(Newest(snaps).state, journal) \in {Newest(snaps).state} \cup journal
    BY <1>1, <1>3, <2>2, ReplayResult
  <2>4. QED
    BY <1>5, <2>2, <2>3 DEF Base, Recover
<1>6. QED
  BY <1>4, <1>5

\* What recovery would show, under the invariant.
LEMMA RecoveredCommitted ==
  ASSUME Inv
  PROVE  RecoveredWasCommitted
<1>1. snapshots \in SUBSET Snapshot /\ journal \subseteq written
      /\ \A s \in snapshots : s.state \in Base
  BY DEF Inv, TypeOK, Descent
<1>2. QED
  BY <1>1, RecoverResult DEF Inv, RecoveredWasCommitted, Recoverable, Base

\* A commit of a linear history is on the way to every longer one.
LEMMA OneWay ==
  ASSUME Linear, NEW a \in Base, NEW b \in Base, written \subseteq Commits, Len(a) <= Len(b)
  PROVE  IsPrefix(a, b) /\ SubSeq(b, 1, Len(a)) = a
<1>1. a \in Seq(Commands) /\ b \in Seq(Commands) /\ Len(a) \in Nat /\ Len(b) \in Nat
  <2>1. <<>> \in Seq(Commands)
    OBVIOUS
  <2>2. a \in Seq(Commands) /\ b \in Seq(Commands)
    BY <2>1 DEF Base, Commits, States
  <2>3. QED
    BY <2>2
<1>2. SubSeq(a, 1, Len(a)) = a
  BY <1>1
<1>3. CASE a = <<>>
  <2>1. Len(a) = 0 /\ SubSeq(b, 1, 0) = <<>>
    BY <1>1, <1>3
  <2>2. QED
    BY <1>1, <1>2, <1>3, <2>1 DEF IsPrefix
<1>4. CASE b = <<>>
  <2>1. Len(a) = 0 /\ a = <<>>
    BY <1>1, <1>4
  <2>2. QED
    BY <1>3, <2>1
<1>5. CASE a \in written /\ b \in written
  <2>1. IsPrefix(a, b) \/ IsPrefix(b, a)
    BY <1>5 DEF Linear
  <2>2. CASE IsPrefix(a, b)
    BY <1>2, <2>2 DEF IsPrefix
  <2>3. CASE IsPrefix(b, a)
    <3>1. Len(a) = Len(b) /\ SubSeq(b, 1, Len(b)) = SubSeq(a, 1, Len(b))
      BY <1>1, <2>3 DEF IsPrefix
    <3>2. QED
      BY <1>1, <1>2, <3>1 DEF IsPrefix
  <2>4. QED
    BY <2>1, <2>2, <2>3
<1>6. QED
  BY <1>3, <1>4, <1>5 DEF Base

\* The entries of a linear journal on the way to a commit: at every revision above
\* the newest snapshot's there is one, and it is the commit's beginning.
LEMMA TheEntry ==
  ASSUME Inv, Linear, NEW b \in Nat, \A s \in snapshots : Len(s.state) <= b,
         NEW top \in written, NEW i \in (b + 1)..Len(top)
  PROVE  /\ EntriesAt(journal, i) = {SubSeq(top, 1, i)}
         /\ First(journal, i) = SubSeq(top, 1, i)
         /\ Last(First(journal, i)) = top[i]
<1> DEFINE e == SubSeq(top, 1, i)
<1>1. /\ written \subseteq Commits /\ journal \subseteq written
      /\ top \in Seq(Commands) /\ Len(top) \in Nat /\ i \in Nat /\ i > 0 /\ i <= Len(top)
  BY DEF Inv, TypeOK, Descent, Commits, States
<1>2. Len(e) = i /\ e[i] = top[i]
  BY <1>1
<1>3. e \in written
  <2>1. CASE i = Len(top)
    <3>1. SubSeq(top, 1, Len(top)) = top
      BY <1>1
    <3>2. QED
      BY <2>1, <3>1
  <2>2. CASE i < Len(top)
    <3>1. i \in 0..(Len(top) - 1)
      BY <1>1, <2>2
    <3>2. e \in Base
      BY <3>1 DEF Inv, Descent, Rooted
    <3>3. e # <<>>
      BY <1>1, <1>2
    <3>4. QED
      BY <3>2, <3>3 DEF Base
  <2>3. QED
    BY <1>1, <2>1, <2>2
<1> HIDE DEF e
<1>4. e \in journal
  <2>1. \A s \in snapshots : ~(Len(s.state) >= Len(e))
    <3>1. ASSUME NEW s \in snapshots PROVE ~(Len(s.state) >= Len(e))
      <4>1. Len(s.state) \in Nat /\ Len(s.state) <= b
        BY StateFacts DEF Inv, TypeOK, Snapshot
      <4>2. QED
        BY <1>2, <4>1
    <3>2. QED
      BY <3>1
  <2>2. QED
    BY <1>3, <2>1 DEF Inv, Kept
<1>5. ASSUME NEW f \in journal, Revision(f) = i PROVE f = e
  <2>1. f \in Base /\ top \in Base /\ Len(f) = i
    BY <1>1, <1>5 DEF Base, Revision
  <2>2. SubSeq(top, 1, Len(f)) = f
    BY <1>1, <2>1, OneWay
  <2>3. QED
    BY <2>1, <2>2 DEF e
<1>6. EntriesAt(journal, i) = {e}
  BY <1>2, <1>4, <1>5 DEF EntriesAt, Revision
<1>7. First(journal, i) = e
  <2>1. journal \in SUBSET Commits /\ EntriesAt(journal, i) # {}
    BY <1>1, <1>6
  <2>2. First(journal, i) \in EntriesAt(journal, i)
    BY <2>1, FirstEntry
  <2>3. QED
    BY <1>6, <2>2
<1>8. QED
  BY <1>2, <1>6, <1>7 DEF Last, e

\* A linear journal is replayed up to every commit.
LEMMA ReplayReaches ==
  ASSUME Inv, Linear, NEW newest \in snapshots,
         \A s \in snapshots : Len(s.state) <= Len(newest.state),
         NEW top \in written, Len(top) > Len(newest.state)
  PROVE  Len(top) \in Reached(newest.state, journal)
<1> DEFINE state == newest.state
           b == Len(state)
<1>1. /\ state \in Seq(Commands) /\ state \in Base /\ b \in Nat /\ Revision(state) = b
      /\ top \in Seq(Commands) /\ Len(top) \in Nat /\ top \in Base /\ written \subseteq Commits
  BY StateFacts DEF Inv, TypeOK, Descent, Snapshot, Commits, States, Base
<1>2. \A i \in (b + 1)..Len(top) :
        /\ EntriesAt(journal, i) = {SubSeq(top, 1, i)}
        /\ First(journal, i) = SubSeq(top, 1, i)
        /\ Last(First(journal, i)) = top[i]
  BY <1>1, TheEntry
<1>3. \A i \in 1..b : state[i] = top[i]
  <2>1. SubSeq(top, 1, b) = state
    BY <1>1, OneWay
  <2> HIDE DEF state
  <2>2. \A s : s = SubSeq(top, 1, b) => \A i \in 1..b : s[i] = top[i]
    BY <1>1
  <2>3. QED
    BY <2>1, <2>2
<1> HIDE DEF state
<1>4. ASSUME NEW i \in (b + 1)..Len(top)
      PROVE  Fits(Replayed(state, journal, i - 1), First(journal, i))
  <2> DEFINE q == Replayed(state, journal, i - 1)
             e == SubSeq(top, 1, i)
  <2>1. i - 1 \in Nat /\ i \in Nat /\ i - 1 < Len(top)
    BY <1>1
  <2>2. ASSUME NEW k \in 1..(i - 1) PROVE q[k] = top[k]
    <3>1. q[k] = IF k <= b THEN state[k] ELSE Last(First(journal, k))
      BY <1>1, <2>1 DEF Replayed
    <3>2. CASE k <= b
      BY <1>1, <1>3, <2>1, <3>1, <3>2
    <3>3. CASE ~(k <= b)
      <4>1. k \in (b + 1)..Len(top)
        BY <1>1, <2>1, <3>3
      <4>2. QED
        BY <1>2, <3>1, <3>3, <4>1
    <3>4. QED
      BY <3>2, <3>3
  <2>3. q = [k \in 1..(i - 1) |-> top[k]]
    <3>1. q = [k \in 1..(i - 1) |-> q[k]]
      BY DEF Replayed
    <3> HIDE DEF q
    <3>2. QED
      BY <2>2, <3>1
  <2> HIDE DEF q
  <2>4. e = Append(q, top[i])
    BY <1>1, <2>1, <2>3
  <2>5. QED
    BY <1>2, <2>4 DEF Fits, Prepare, q
<1>5. Reaches(state, journal, Len(top))
  <2>1. ASSUME NEW i \in (b + 1)..Len(top)
        PROVE  /\ EntriesAt(journal, i) # {}
               /\ Fits(Replayed(state, journal, i - 1), First(journal, i))
               /\ i < Len(top) => EntriesAt(journal, i) = {First(journal, i)}
    BY <1>2, <1>4
  <2>2. QED
    BY <1>1, <2>1 DEF Reaches
<1>6. top \in journal
  <2>1. \A s \in snapshots : ~(Len(s.state) >= Len(top))
    <3>1. ASSUME NEW s \in snapshots PROVE ~(Len(s.state) >= Len(top))
      <4>1. Len(s.state) \in Nat /\ Len(s.state) <= b
        BY StateFacts DEF Inv, TypeOK, Snapshot, state
      <4>2. QED
        BY <1>1, <4>1 DEF state
    <3>2. QED
      BY <3>1
  <2>2. QED
    BY <2>1 DEF Inv, Kept
<1>7. QED
  BY <1>1, <1>5, <1>6 DEF Reached, Revision, state

\* What is recovered from a linear history without damage holds every commit.
LEMMA LinearRecovered ==
  ASSUME Inv
  PROVE  LinearCommitsSurvive
<1> SUFFICES ASSUME Linear, faults["corrupt"] = 0, NEW w \in written
             PROVE  IsPrefix(w, Recoverable)
  BY DEF LinearCommitsSurvive
<1> DEFINE newest == Newest(snapshots)
           r == Replay(newest.state, journal)
<1>1. PICK b \in Nat : \A x \in written : Len(x) <= b
  BY DEF Inv, Bounded
<1>2. \A s \in snapshots : s.state \in Base /\ Len(s.state) <= b
  BY <1>1 DEF Inv, Descent, Base
<1>3. /\ newest \in snapshots /\ \A s \in snapshots : Len(s.state) <= Len(newest.state)
      /\ Recoverable = r
  <2>1. Valid(snapshots) = snapshots /\ snapshots # {}
    BY DEF Inv, Kept, Valid
  <2>2. snapshots \in SUBSET Snapshot
    BY DEF Inv, TypeOK
  <2>3. QED
    BY <1>2, <2>1, <2>2, NewestSnapshot DEF Recover, Recoverable
<1>4. newest.state \in States /\ newest.state \in Base
  BY <1>2, <1>3 DEF Inv, TypeOK, Snapshot
<1> HIDE DEF newest
<1>5. /\ r \in {newest.state} \cup journal
      /\ \A n \in Reached(newest.state, journal) : n <= Len(r)
  <2>1. journal \in SUBSET Commits /\ \A e \in journal : Len(e) <= b
    BY <1>1 DEF Inv, TypeOK, Descent
  <2>2. QED
    BY <1>4, <2>1, ReplayResult
<1>6. r \in Base
  BY <1>4, <1>5 DEF Inv, Descent, Base
<1> HIDE DEF r
<1>7. Len(w) <= Len(r)
  <2>1. CASE Len(w) > Len(newest.state)
    BY <1>3, <1>5, <2>1, ReplayReaches
  <2>2. CASE ~(Len(w) > Len(newest.state))
    <3>1. Len(newest.state) \in Reached(newest.state, journal)
      <4>1. Revision(newest.state) = Len(newest.state) /\ Len(newest.state) \in Nat
        BY <1>4, StateFacts
      <4>2. QED
        BY <4>1 DEF Reached, Reaches
    <3>2. /\ Len(newest.state) <= Len(r) /\ Len(newest.state) \in Nat /\ Len(r) \in Nat
          /\ Len(w) \in Nat
      BY <1>4, <1>5, <1>6, <3>1, StateFacts DEF Inv, TypeOK, Base, Commits, States
    <3>3. QED
      BY <2>2, <3>2
  <2>3. QED
    BY <2>1, <2>2
<1>8. w \in Base /\ written \subseteq Commits
  BY DEF Base, Inv, TypeOK
<1>9. QED
  BY <1>3, <1>6, <1>7, <1>8, OneWay

\* The journal is short once there is nothing left to do.
LEMMA QuietShort ==
  ASSUME Inv
  PROVE  QuietJournalIsShort
<1> SUFFICES ASSUME compactions = {}, faults["reload"] = 0, faults["fail"] = 0,
                    \A t \in Tabs : queue[t] = <<>>
             PROVE  Cardinality(journal) < SnapshotInterval
  BY DEF QuietJournalIsShort
<1>1. Settled = journal
  BY DEF Settled, HasSurvey
<1>2. QED
  BY <1>1 DEF Inv, Short

-----------------------------------------------------------------------------
\* What is written only grows, and what was right about pages and compactions
\* stays right.
LEMMA MoreWritten ==
  ASSUME NEW old, NEW new, old \subseteq new
  PROVE  /\ \A c : Rooted(c, old) => Rooted(c, new)
         /\ \A p : PageOK(p, old) => PageOK(p, new)
         /\ \A q : QueueOK(q, old) => QueueOK(q, new)
         /\ \A o : OpeningOK(o, old) => OpeningOK(o, new)
         /\ \A p : CompactionOK(p, old) => CompactionOK(p, new)
<1>1. \A c : Rooted(c, old) => Rooted(c, new)
  BY DEF Rooted
<1>2. QED
  BY <1>1 DEF PageOK, QueueOK, OpeningOK, CompactionOK

\* A transaction that is added.
LEMMA QueueAppend ==
  ASSUME NEW q \in Seq(Transaction), NEW x \in Transaction, NEW r, r = Append(q, x), NEW base
  PROVE  /\ r \in Seq(Transaction)
         /\ QueueOK(q, base) /\ (x.do = "save" => Rooted(x.commit, base))
            /\ (x.do = "survey" => x.commit \in base) => QueueOK(r, base)
         /\ \A e : HasSurvey(q, e) => HasSurvey(r, e)
         /\ \A e : x = Surveying(e) => HasSurvey(r, e)
<1>1. /\ r \in Seq(Transaction) /\ Len(q) \in Nat /\ Len(r) = Len(q) + 1 /\ r[Len(q) + 1] = x
      /\ \A i \in 1..Len(q) : r[i] = q[i]
  OBVIOUS
<1> HIDE DEF Transaction
<1>2. \A i \in 1..Len(r) : (i \in 1..Len(q) /\ r[i] = q[i]) \/ r[i] = x
  BY <1>1
<1>3. \A i \in 1..Len(q) : i \in 1..Len(r)
  BY <1>1
<1>4. Len(q) + 1 \in 1..Len(r)
  BY <1>1
<1>5. QED
  BY <1>1, <1>2, <1>3, <1>4 DEF QueueOK, HasSurvey

\* The next transaction, and the others.
LEMMA QueueTail ==
  ASSUME NEW q \in Seq(Transaction), q # <<>>, NEW r, r = Tail(q), NEW base
  PROVE  /\ r \in Seq(Transaction) /\ Head(q) \in Transaction
         /\ QueueOK(q, base) => QueueOK(r, base)
         /\ QueueOK(q, base) => /\ Head(q).do = "save" => Rooted(Head(q).commit, base)
                                /\ Head(q).do = "survey" => Head(q).commit \in base
         /\ \A e : HasSurvey(q, e) => HasSurvey(r, e) \/ Head(q) = Surveying(e)
<1>1. /\ r \in Seq(Transaction) /\ Len(q) \in Nat /\ Len(q) > 0 /\ Len(r) = Len(q) - 1
      /\ Head(q) = q[1] /\ q[1] \in Transaction
      /\ \A i \in 1..Len(r) : r[i] = q[i + 1]
  OBVIOUS
<1>2. \A i \in 1..Len(r) : i + 1 \in 1..Len(q)
  BY <1>1
<1>3. 1 \in 1..Len(q)
  BY <1>1
<1>4. \A i \in 1..Len(q) : i = 1 \/ (i - 1 \in 1..Len(r) /\ r[i - 1] = q[i])
  <2>1. ASSUME NEW i \in 1..Len(q), i # 1 PROVE i - 1 \in 1..Len(r) /\ (i - 1) + 1 = i
    BY <1>1, <2>1
  <2>2. QED
    BY <1>1, <2>1
<1>5. QueueOK(q, base) => QueueOK(r, base)
  BY <1>1, <1>2 DEF QueueOK
<1>6. QueueOK(q, base) => /\ Head(q).do = "save" => Rooted(Head(q).commit, base)
                          /\ Head(q).do = "survey" => Head(q).commit \in base
  BY <1>1, <1>3 DEF QueueOK
<1>7. ASSUME NEW e, HasSurvey(q, e) PROVE HasSurvey(r, e) \/ Head(q) = Surveying(e)
  BY <1>1, <1>4, <1>7 DEF HasSurvey
<1>8. QED
  BY <1>1, <1>5, <1>6, <1>7

\* A fault is counted, and the count never falls.
LEMMA FaultCounted ==
  ASSUME TypeOK, NEW k \in Kinds, Fault(k)
  PROVE  /\ faults' \in [Kinds -> Nat] /\ faults'[k] # 0
         /\ \A j \in Kinds : faults'[j] = 0 => faults[j] = 0
<1>1. faults' = [faults EXCEPT ![k] = faults[k] + 1] /\ faults \in [Kinds -> Nat]
  BY DEF Fault, TypeOK
<1>2. faults[k] \in Nat /\ faults[k] + 1 \in Nat /\ faults[k] + 1 # 0
  BY <1>1
<1>3. QED
  BY <1>1, <1>2

\* The journal stays short as long as no entry becomes settled.
LEMMA ShortStays ==
  ASSUME Short, SnapshotInterval \in Nat,
         faults'["reload"] = 0 => faults["reload"] = 0,
         faults'["fail"] = 0 => faults["fail"] = 0,
         faults'["reload"] = 0 /\ faults'["fail"] = 0 /\ IsFiniteSet(journal) =>
           IsFiniteSet(journal') /\ Settled' \subseteq Settled
  PROVE  Short'
<1> SUFFICES ASSUME faults'["reload"] = 0, faults'["fail"] = 0
             PROVE  IsFiniteSet(journal') /\ Cardinality(Settled') < SnapshotInterval
  BY DEF Short
<1>1. /\ IsFiniteSet(journal) /\ Cardinality(Settled) < SnapshotInterval
      /\ IsFiniteSet(journal') /\ Settled' \subseteq Settled
  BY DEF Short
<1>2. IsFiniteSet(Settled)
  <2>1. Settled \subseteq journal
    BY DEF Settled
  <2>2. QED
    BY <1>1, <2>1, FS_Subset
<1>3. /\ Cardinality(Settled') <= Cardinality(Settled)
      /\ Cardinality(Settled') \in Nat /\ Cardinality(Settled) \in Nat
  BY <1>1, <1>2, FS_Subset, FS_CardinalityType
<1>4. QED
  BY <1>1, <1>3

\* A step keeps the invariant when what it writes and holds descends from what
\* was written, and the journal loses nothing and stays short.
LEMMA Step ==
  ASSUME Inv, TypeOK', written \subseteq written', journal' \subseteq written',
         \A w \in written' : w \notin written => Rooted(w, Base),
         \A s \in snapshots' : s.state \in Base',
         \A t \in Tabs : /\ PageOK(tab'[t], Base') /\ QueueOK(queue'[t], Base')
                         /\ OpeningOK(opening'[t], Base'),
         \A p \in compactions' : CompactionOK(p, Base'),
         Kept', Short'
  PROVE  Inv'
<1>1. Base \subseteq Base'
  BY DEF Base
<1>2. \A w \in written' : Rooted(w, Base')
  BY <1>1, MoreWritten DEF Inv, Descent
<1>3. Descent'
  BY <1>2 DEF Descent
<1>4. Bounded'
  <2>1. PICK b \in Nat : \A w \in written : Len(w) <= b
    BY DEF Inv, Bounded
  <2>2. \A s \in Base : Len(s) <= b
    BY <2>1 DEF Base
  <2>3. ASSUME NEW w \in written' PROVE Len(w) <= b + 1
    <3>1. w \in Seq(Commands) /\ Len(w) \in Nat /\ Len(w) > 0
      BY StateFacts DEF TypeOK, Commits
    <3>2. CASE w \in written
      BY <2>1, <3>1, <3>2
    <3>3. CASE w \notin written
      <4> DEFINE n == Len(w) - 1
      <4>1. n \in 0..(Len(w) - 1) /\ n \in Nat
        BY <3>1
      <4>2. SubSeq(w, 1, n) \in Base
        BY <3>3, <4>1 DEF Rooted
      <4>3. Len(SubSeq(w, 1, n)) = n
        <5>1. \A k \in 0..Len(w) : Len(SubSeq(w, 1, k)) = k
          BY <3>1
        <5>2. n \in 0..Len(w)
          BY <3>1
        <5>3. QED
          BY <5>1, <5>2
      <4>4. n <= b
        BY <2>2, <4>2, <4>3
      <4>5. QED
        BY <3>1, <4>4
    <3>4. QED
      BY <3>2, <3>3
  <2>4. b + 1 \in Nat
    OBVIOUS
  <2>5. QED
    BY <2>3, <2>4 DEF Bounded
<1>5. QED
  BY <1>3, <1>4 DEF Inv

\* A step of one page that does not touch the store.
LEMMA PageStep ==
  ASSUME Inv, NEW t \in Tabs, UNCHANGED <<storeVars, written, acknowledged, compactions>>,
         NEW p \in Page, PageOK(p, Base), tab' = [tab EXCEPT ![t] = p],
         NEW q \in Seq(Transaction), QueueOK(q, Base), queue' = [queue EXCEPT ![t] = q],
         \A e : HasSurvey(queue[t], e) => HasSurvey(q, e),
         NEW o \in Opening, OpeningOK(o, Base), opening' = [opening EXCEPT ![t] = o],
         issued' \subseteq Commands, faults' \in [Kinds -> Nat],
         \A k \in Kinds : faults'[k] = 0 => faults[k] = 0
  PROVE  Inv'
<1>1. /\ snapshots' = snapshots /\ journal' = journal /\ written' = written
      /\ compactions' = compactions /\ acknowledged' = acknowledged /\ Base' = Base
  BY DEF storeVars, Base
<1>2. /\ tab \in [Tabs -> Page] /\ queue \in [Tabs -> Seq(Transaction)] /\ opening \in [Tabs -> Opening]
  BY DEF Inv, TypeOK
<1>3. \A u \in Tabs : /\ tab'[u] = IF u = t THEN p ELSE tab[u]
                      /\ queue'[u] = IF u = t THEN q ELSE queue[u]
                      /\ opening'[u] = IF u = t THEN o ELSE opening[u]
  BY <1>2
<1>4. /\ tab' \in [Tabs -> Page] /\ queue' \in [Tabs -> Seq(Transaction)]
      /\ opening' \in [Tabs -> Opening]
  <2> HIDE DEF Page, Transaction, Opening
  <2>1. QED
    BY <1>2
<1>5. TypeOK'
  BY <1>1, <1>4 DEF Inv, TypeOK
<1>6. \A u \in Tabs : /\ PageOK(tab'[u], Base') /\ QueueOK(queue'[u], Base')
                      /\ OpeningOK(opening'[u], Base')
  BY <1>1, <1>3 DEF Inv, Descent
<1>7. "corrupt" \in Kinds /\ "reload" \in Kinds /\ "fail" \in Kinds
  BY DEF Kinds
<1>8. Kept'
  BY <1>1, <1>7 DEF Inv, Kept
<1>9. Settled' \subseteq Settled
  <2>1. \A u \in Tabs : \A e : HasSurvey(queue[u], e) => HasSurvey(queue'[u], e)
    BY <1>3
  <2>2. QED
    BY <1>1, <2>1 DEF Settled
<1>10. Short'
  BY <1>1, <1>7, <1>9, IntervalAssumption, ShortStays DEF Inv
<1>11. QED
  BY <1>1, <1>5, <1>6, <1>8, <1>10, Step DEF Inv, Descent

-----------------------------------------------------------------------------
\* The page's steps.

\* What the invariant says of one page.
LEMMA OnePage ==
  ASSUME Inv, NEW t \in Tabs
  PROVE  /\ tab[t] \in Page /\ PageOK(tab[t], Base) /\ tab = [tab EXCEPT ![t] = tab[t]]
         /\ queue[t] \in Seq(Transaction) /\ QueueOK(queue[t], Base)
         /\ queue = [queue EXCEPT ![t] = queue[t]]
         /\ opening[t] \in Opening /\ OpeningOK(opening[t], Base)
         /\ opening = [opening EXCEPT ![t] = opening[t]]
         /\ issued \subseteq Commands /\ faults \in [Kinds -> Nat]
<1>1. /\ tab \in [Tabs -> Page] /\ queue \in [Tabs -> Seq(Transaction)]
      /\ opening \in [Tabs -> Opening] /\ issued \subseteq Commands /\ faults \in [Kinds -> Nat]
  BY DEF Inv, TypeOK
<1> HIDE DEF Page, Transaction, Opening
<1>2. QED
  BY <1>1 DEF Inv, Descent

\* A page with another pending commit, or none, and other marks.
LEMMA PageFields ==
  ASSUME NEW p \in Page, NEW shown \in {Nothing} \cup States, NEW pending \in {Nothing} \cup Commits,
         NEW isDirty \in BOOLEAN, NEW failed \in BOOLEAN, NEW hiding \in BOOLEAN
  PROVE  [p EXCEPT !.shown = shown, !.pending = pending, !.isDirty = isDirty, !.failed = failed,
                   !.hiding = hiding] \in Page
BY DEF Page

\* A save is requested.
LEMMA SaveRequested ==
  ASSUME Inv, NEW t \in Tabs, NEW commit \in Commits, Rooted(commit, Base),
         NEW hiding \in BOOLEAN, NEW p,
         p = [tab[t] EXCEPT !.pending = commit, !.isDirty = TRUE, !.failed = FALSE, !.hiding = hiding],
         tab' = [tab EXCEPT ![t] = p],
         queue' = [queue EXCEPT ![t] = Append(queue[t], Saving(commit))],
         UNCHANGED <<storeVars, opening, compactions, written, acknowledged>>,
         issued' \subseteq Commands, faults' \in [Kinds -> Nat],
         \A k \in Kinds : faults'[k] = 0 => faults[k] = 0
  PROVE  Inv'
<1>1. p \in Page /\ PageOK(p, Base)
  <2>1. /\ p.shown = tab[t].shown /\ p.closure = tab[t].closure /\ p.pending = commit
        /\ p \in Page
    BY OnePage DEF Page
  <2>2. QED
    BY <2>1, OnePage DEF PageOK
<1> DEFINE x == Saving(commit)
           q == Append(queue[t], x)
<1>2. x \in Transaction /\ x.do = "save" /\ x.commit = commit
  BY DEF Saving, Transaction
<1>3. \A r : r = q => /\ r \in Seq(Transaction) /\ QueueOK(r, Base)
                      /\ \A e : HasSurvey(queue[t], e) => HasSurvey(r, e)
  <2> HIDE DEF x
  <2>1. QED
    BY <1>2, OnePage, QueueAppend
<1> HIDE DEF q
<1>4. q \in Seq(Transaction) /\ QueueOK(q, Base) /\ \A e : HasSurvey(queue[t], e) => HasSurvey(q, e)
  BY <1>3
<1>5. queue' = [queue EXCEPT ![t] = q]
  BY DEF q
<1>6. opening' = [opening EXCEPT ![t] = opening[t]]
  BY OnePage
<1>7. QED
  BY <1>1, <1>4, <1>5, <1>6, OnePage, PageStep

\* A command is made for the state the page's function closes over.
LEMMA RunCommandStep ==
  ASSUME Inv, NEW t \in Tabs, RunCommand(t)
  PROVE  Inv'
<1>1. PICK c \in Commands : issued' = issued \cup {c} /\ Persist(t, Prepare(tab[t].closure, c))
  BY DEF RunCommand
<1> DEFINE commit == Prepare(tab[t].closure, c)
           p == [tab[t] EXCEPT !.pending = commit, !.isDirty = TRUE, !.failed = FALSE,
                               !.hiding = FALSE]
<1>2. tab[t].closure # Nothing /\ ~tab[t].hiding
      /\ UNCHANGED <<storeVars, opening, compactions, written, acknowledged>>
  BY DEF RunCommand
<1>3. tab[t].closure \in Base /\ Base \in SUBSET States
  <2>1. <<>> \in States
    BY DEF States
  <2>2. QED
    BY <1>2, <2>1, OnePage DEF PageOK, Base, Inv, TypeOK, Commits
<1>4. Rooted(tab[t].closure, Base)
  <2>1. Rooted(<<>>, Base)
    BY DEF Rooted
  <2>2. QED
    BY <1>3, <2>1 DEF Inv, Descent, Base
<1>5. commit \in Commits /\ Rooted(commit, Base)
  BY <1>3, <1>4, PreparedCommit
<1> HIDE DEF commit
<1>6. /\ tab' = [tab EXCEPT ![t] = p]
      /\ queue' = [queue EXCEPT ![t] = Append(queue[t], Saving(commit))]
  <2>1. tab \in [Tabs -> Page] /\ tab[t].hiding = FALSE
    BY <1>2, OnePage DEF Inv, TypeOK, Page
  <2>2. tab' = [tab EXCEPT ![t].pending = commit, ![t].isDirty = TRUE, ![t].failed = FALSE]
    BY <1>1 DEF Persist, commit
  <2>3. p = [tab[t] EXCEPT !.pending = commit, !.isDirty = TRUE, !.failed = FALSE]
    BY <2>1 DEF Page
  <2>4. QED
    BY <1>1, <2>1, <2>2, <2>3 DEF Persist, commit
<1>7. issued' \subseteq Commands
  BY <1>1, OnePage
<1>8. faults' \in [Kinds -> Nat] /\ \A k \in Kinds : faults'[k] = 0 => faults[k] = 0
  <2>1. CASE UNCHANGED faults
    BY <2>1, OnePage
  <2>2. CASE Fault("stale")
    <3>1. "stale" \in Kinds
      BY DEF Kinds
    <3>2. QED
      BY <2>2, <3>1, FaultCounted DEF Inv
  <2>3. QED
    BY <2>1, <2>2 DEF RunCommand
<1> HIDE DEF p
<1>9. \A x : x = p => (x = [tab[t] EXCEPT !.pending = commit, !.isDirty = TRUE, !.failed = FALSE,
                               !.hiding = FALSE])
  BY DEF p
<1>10. QED
  BY <1>2, <1>5, <1>6, <1>7, <1>8, <1>9, SaveRequested

\* The pending commit is saved again.
LEMMA RetrySaveStep ==
  ASSUME Inv, NEW t \in Tabs, RetrySave(t)
  PROVE  Inv'
<1> DEFINE commit == tab[t].pending
           p == [tab[t] EXCEPT !.pending = commit, !.isDirty = TRUE, !.failed = FALSE,
                               !.hiding = FALSE]
<1>1. commit # Nothing /\ ~tab[t].hiding /\ Persist(t, commit)
      /\ UNCHANGED <<storeVars, opening, compactions, historyVars, faults>>
  BY DEF RetrySave
<1>2. commit \in Commits /\ Rooted(commit, Base)
  BY <1>1, OnePage DEF Page, PageOK
<1>3. /\ tab' = [tab EXCEPT ![t] = p]
      /\ queue' = [queue EXCEPT ![t] = Append(queue[t], Saving(commit))]
  <2>1. tab \in [Tabs -> Page] /\ tab[t].hiding = FALSE
    BY <1>1, OnePage DEF Inv, TypeOK, Page
  <2> HIDE DEF commit
  <2>2. tab' = [tab EXCEPT ![t].pending = commit, ![t].isDirty = TRUE, ![t].failed = FALSE]
    BY <1>1 DEF Persist
  <2>3. p = [tab[t] EXCEPT !.pending = commit, !.isDirty = TRUE, !.failed = FALSE]
    BY <2>1 DEF Page
  <2>4. QED
    BY <1>1, <2>1, <2>2, <2>3 DEF Persist
<1> HIDE DEF commit, p
<1>4. p = [tab[t] EXCEPT !.pending = commit, !.isDirty = TRUE, !.failed = FALSE, !.hiding = FALSE]
  BY DEF p
<1>5. QED
  BY <1>1, <1>2, <1>3, <1>4, OnePage, SaveRequested DEF historyVars

\* The page goes away and saves what is pending.
LEMMA PageHideStep ==
  ASSUME Inv, NEW t \in Tabs, PageHide(t)
  PROVE  Inv'
<1> DEFINE commit == tab[t].pending
           p == [tab[t] EXCEPT !.pending = commit, !.isDirty = TRUE, !.failed = FALSE,
                               !.hiding = TRUE]
<1>1. /\ commit # Nothing
      /\ tab' = [tab EXCEPT ![t].isDirty = TRUE, ![t].failed = FALSE, ![t].hiding = TRUE]
      /\ queue' = [queue EXCEPT ![t] = Append(queue[t], Saving(commit))]
      /\ UNCHANGED <<storeVars, opening, compactions, historyVars, faults>>
  BY DEF PageHide
<1>2. commit \in Commits /\ Rooted(commit, Base)
  BY <1>1, OnePage DEF Page, PageOK
<1>3. tab' = [tab EXCEPT ![t] = p]
  <2>1. tab \in [Tabs -> Page]
    BY DEF Inv, TypeOK
  <2>2. p = [tab[t] EXCEPT !.isDirty = TRUE, !.failed = FALSE, !.hiding = TRUE]
    BY <2>1 DEF Page
  <2>3. QED
    BY <1>1, <2>1, <2>2
<1> HIDE DEF commit, p
<1>4. p = [tab[t] EXCEPT !.pending = commit, !.isDirty = TRUE, !.failed = FALSE, !.hiding = TRUE]
  BY DEF p
<1>5. QED
  BY <1>1, <1>2, <1>3, <1>4, OnePage, SaveRequested DEF historyVars

\* The page's function is the one made for the state that is shown.
LEMMA RenderStep ==
  ASSUME Inv, NEW t \in Tabs, Render(t)
  PROVE  Inv'
<1> DEFINE p == [tab[t] EXCEPT !.closure = tab[t].shown]
<1>1. tab' = [tab EXCEPT ![t] = p]
      /\ UNCHANGED <<storeVars, queue, opening, compactions, historyVars, faults>>
  BY OnePage DEF Render
<1>2. p \in Page /\ PageOK(p, Base)
  BY OnePage DEF Page, PageOK
<1> HIDE DEF p
<1>3. QED
  BY <1>1, <1>2, OnePage, PageStep DEF historyVars

\* The campaign is opened again.
LEMMA OpenCampaignStep ==
  ASSUME Inv, NEW t \in Tabs, OpenCampaign(t)
  PROVE  Inv'
<1>1. opening' = [opening EXCEPT ![t] = ReadsSnapshots]
      /\ UNCHANGED <<storeVars, tab, queue, compactions, historyVars>> /\ Fault("reopen")
  BY DEF OpenCampaign
<1>2. ReadsSnapshots \in Opening /\ OpeningOK(ReadsSnapshots, Base)
  BY DEF ReadsSnapshots, Opening, OpeningOK
<1>3. "reopen" \in Kinds
  BY DEF Kinds
<1>4. faults' \in [Kinds -> Nat] /\ \A k \in Kinds : faults'[k] = 0 => faults[k] = 0
  BY <1>1, <1>3, FaultCounted DEF Inv
<1>5. QED
  BY <1>1, <1>2, <1>4, OnePage, PageStep DEF historyVars

\* The snapshots are read, and the journal's turn is requested.
LEMMA ReadSnapshotsStep ==
  ASSUME Inv, NEW t \in Tabs, ReadSnapshots(t)
  PROVE  Inv'
<1> DEFINE o == [at |-> "journal", snapshots |-> snapshots]
           q == Append(queue[t], Recovering)
<1>1. /\ opening' = [opening EXCEPT ![t] = o] /\ queue' = [queue EXCEPT ![t] = q]
      /\ UNCHANGED <<storeVars, tab, compactions, historyVars, faults>>
  BY OnePage DEF ReadSnapshots
<1>2. o \in Opening /\ OpeningOK(o, Base)
  BY DEF Opening, OpeningOK, Inv, TypeOK, Descent
<1>3. Recovering \in Transaction /\ Recovering.do = "recover"
  BY DEF Recovering, Transaction
<1>4. \A r : r = q => /\ r \in Seq(Transaction) /\ QueueOK(r, Base)
                      /\ \A e : HasSurvey(queue[t], e) => HasSurvey(r, e)
  BY <1>3, OnePage, QueueAppend
<1> HIDE DEF o, q
<1>5. QED
  BY <1>1, <1>2, <1>4, OnePage, PageStep DEF historyVars

\* The queue without its first transaction, when that is not a survey.
LEMMA TurnTaken ==
  ASSUME Inv, NEW t \in Tabs, NEW sort, sort # "survey", Turn(t, sort)
  PROVE  /\ queue' = [queue EXCEPT ![t] = Tail(queue[t])]
         /\ Tail(queue[t]) \in Seq(Transaction) /\ QueueOK(Tail(queue[t]), Base)
         /\ \A e : HasSurvey(queue[t], e) => HasSurvey(Tail(queue[t]), e)
<1>1. queue[t] # <<>> /\ Head(queue[t]).do = sort /\ queue' = [queue EXCEPT ![t] = Tail(queue[t])]
  BY OnePage DEF Turn
<1>2. \A e : Head(queue[t]) # Surveying(e)
  BY <1>1 DEF Surveying
<1>3. QED
  BY <1>1, <1>2, OnePage, QueueTail

\* What was recovered is shown.
LEMMA OpenedStep ==
  ASSUME Inv, NEW t \in Tabs, Opened(t)
  PROVE  Inv'
<1> DEFINE recovered == Recover(opening[t].snapshots, journal)
           shown == [tab[t] EXCEPT !.shown = recovered, !.pending = Nothing, !.failed = FALSE]
<1>1. /\ Turn(t, "recover") /\ opening' = [opening EXCEPT ![t] = Idle]
      /\ UNCHANGED <<storeVars, compactions, historyVars, faults>>
  BY DEF Opened
<1>2. recovered \in {Nothing} \cup Base
  <2>1. opening[t].snapshots \in SUBSET Snapshot /\ \A s \in opening[t].snapshots : s.state \in Base
    BY OnePage DEF Opening, OpeningOK
  <2>2. QED
    BY <2>1, RecoverResult DEF Inv, Descent
<1>3. Idle \in Opening /\ OpeningOK(Idle, Base)
  BY DEF Idle, Opening, OpeningOK
<1>4. PICK p \in Page : PageOK(p, Base) /\ tab' = [tab EXCEPT ![t] = p]
  <2>1. CASE recovered = Nothing
    BY <2>1, OnePage DEF Opened
  <2>2. CASE recovered # Nothing
    <3>1. recovered \in States
      <4>1. <<>> \in States
        BY DEF States
      <4>2. QED
        BY <1>2, <2>2, <4>1 DEF Base, Inv, TypeOK, Commits
    <3>2. tab' = [tab EXCEPT ![t].shown = recovered, ![t].pending = Nothing, ![t].failed = FALSE]
      BY <2>2 DEF Opened
    <3> HIDE DEF recovered
    <3>3. tab' = [tab EXCEPT ![t] = shown]
      BY <3>2 DEF Inv, TypeOK
    <3>4. shown \in Page /\ PageOK(shown, Base)
      BY <1>2, <3>1, OnePage DEF Page, PageOK
    <3>5. QED
      BY <3>3, <3>4
  <2>3. QED
    BY <2>1, <2>2
<1>5. QED
  BY <1>1, <1>3, <1>4, TurnTaken, OnePage, PageStep DEF historyVars

\* A save fails, and the page says so.
LEMMA SaveFailsStep ==
  ASSUME Inv, NEW t \in Tabs, SaveFails(t)
  PROVE  Inv'
<1> DEFINE p == [tab[t] EXCEPT !.failed = TRUE]
<1>1. /\ Turn(t, "save") /\ Fault("fail") /\ tab' = [tab EXCEPT ![t] = p]
      /\ UNCHANGED <<storeVars, opening, compactions, historyVars>>
  BY OnePage DEF SaveFails
<1>2. p \in Page /\ PageOK(p, Base)
  BY OnePage DEF Page, PageOK
<1>3. "fail" \in Kinds
  BY DEF Kinds
<1>4. faults' \in [Kinds -> Nat] /\ \A k \in Kinds : faults'[k] = 0 => faults[k] = 0
  BY <1>1, <1>3, FaultCounted DEF Inv
<1> HIDE DEF p
<1>5. QED
  BY <1>1, <1>2, <1>4, TurnTaken, OnePage, PageStep DEF historyVars

-----------------------------------------------------------------------------
\* The store's steps.

\* What a page's transactions are about.
LEMMA TransactionFacts ==
  ASSUME NEW x \in Transaction
  PROVE  /\ x.do \in {"save", "survey"} => x.commit \in Commits
         /\ x.do = "survey" => x = Surveying(x.commit)
BY DEF Transaction, Recovering, Surveying

\* A page is gone; of the saves it had requested some are complete.
LEMMA ReloadStep ==
  ASSUME Inv, NEW t \in Tabs, Reload(t)
  PROVE  Inv'
<1>1. /\ Fault("reload") /\ tab' = [tab EXCEPT ![t] = Blank]
      /\ queue' = [queue EXCEPT ![t] = <<>>] /\ opening' = [opening EXCEPT ![t] = ReadsSnapshots]
      /\ compactions' \subseteq compactions
      /\ UNCHANGED <<snapshots, issued, acknowledged>>
  BY DEF Reload
<1>2. PICK n \in 0..Len(queue[t]) :
        /\ journal' = journal \cup {queue[t][i].commit : i \in {k \in 1..n : queue[t][k].do = "save"}}
        /\ written' = written \cup {queue[t][i].commit : i \in {k \in 1..n : queue[t][k].do = "save"}}
  BY DEF Reload
<1> DEFINE done == {queue[t][i].commit : i \in {k \in 1..n : queue[t][k].do = "save"}}
<1>3. \A c \in done : c \in Commits /\ Rooted(c, Base)
  <2>1. ASSUME NEW i \in 1..n, queue[t][i].do = "save"
        PROVE  queue[t][i].commit \in Commits /\ Rooted(queue[t][i].commit, Base)
    <3>1. queue[t] \in Seq(Transaction) /\ QueueOK(queue[t], Base)
      BY OnePage
    <3>2. i \in 1..Len(queue[t]) /\ queue[t][i] \in Transaction
      BY <3>1
    <3>3. QED
      BY <2>1, <3>1, <3>2, TransactionFacts DEF QueueOK
  <2>2. QED
    BY <2>1
<1>4. journal' = journal \cup done /\ written' = written \cup done
  BY <1>2
<1> HIDE DEF done
<1>5. "reload" \in Kinds /\ "corrupt" \in Kinds
  BY DEF Kinds
<1>6. /\ faults' \in [Kinds -> Nat] /\ faults'["reload"] # 0
      /\ faults'["corrupt"] = 0 => faults["corrupt"] = 0
  BY <1>1, <1>5, FaultCounted DEF Inv
<1>7. /\ tab \in [Tabs -> Page] /\ queue \in [Tabs -> Seq(Transaction)] /\ opening \in [Tabs -> Opening]
  BY DEF Inv, TypeOK
<1>8. /\ Blank \in Page /\ PageOK(Blank, Base') /\ <<>> \in Seq(Transaction) /\ QueueOK(<<>>, Base')
      /\ ReadsSnapshots \in Opening /\ OpeningOK(ReadsSnapshots, Base')
  BY DEF Blank, Page, PageOK, QueueOK, ReadsSnapshots, Opening, OpeningOK
<1>9. TypeOK'
  <2>1. /\ tab' \in [Tabs -> Page] /\ queue' \in [Tabs -> Seq(Transaction)]
        /\ opening' \in [Tabs -> Opening]
    <3> HIDE DEF Page, Transaction, Opening
    <3>1. QED
      BY <1>1, <1>7, <1>8
  <2>2. QED
    BY <1>1, <1>3, <1>4, <1>6, <2>1 DEF Inv, TypeOK
<1>10. written \subseteq written' /\ Base \subseteq Base' /\ journal' \subseteq written'
  BY <1>4 DEF Base, Inv, Descent
<1>11. \A u \in Tabs : /\ PageOK(tab'[u], Base') /\ QueueOK(queue'[u], Base')
                       /\ OpeningOK(opening'[u], Base')
  <2>1. ASSUME NEW u \in Tabs
        PROVE  PageOK(tab'[u], Base') /\ QueueOK(queue'[u], Base') /\ OpeningOK(opening'[u], Base')
    <3>1. CASE u = t
      BY <1>1, <1>7, <1>8, <3>1
    <3>2. CASE u # t
      <4>1. tab'[u] = tab[u] /\ queue'[u] = queue[u] /\ opening'[u] = opening[u]
        BY <1>1, <1>7, <3>2
      <4>2. QED
        BY <1>10, <4>1, OnePage, MoreWritten
    <3>3. QED
      BY <3>1, <3>2
  <2>2. QED
    BY <2>1
<1>12. \A p \in compactions' : CompactionOK(p, Base')
  BY <1>1, <1>10, MoreWritten DEF Inv, Descent
<1>13. Kept'
  BY <1>1, <1>4, <1>6 DEF Inv, Kept
<1>14. Short'
  BY <1>6 DEF Short
<1>15. QED
  BY <1>1, <1>3, <1>4, <1>9, <1>10, <1>11, <1>12, <1>13, <1>14, Step DEF Inv, Descent

\* A commit is in the journal, and its survey follows.
LEMMA SavedStep ==
  ASSUME Inv, NEW t \in Tabs, Saved(t)
  PROVE  Inv'
<1> DEFINE commit == Head(queue[t]).commit
           p == [tab[t] EXCEPT !.pending = Nothing, !.isDirty = FALSE, !.failed = FALSE,
                               !.shown = commit]
           rest == Tail(queue[t])
           q == Append(rest, Surveying(commit))
<1>1. /\ queue[t] # <<>> /\ Head(queue[t]).do = "save"
      /\ journal' = journal \cup {commit} /\ written' = written \cup {commit}
      /\ acknowledged' = acknowledged \cup {commit}
      /\ queue' = [queue EXCEPT ![t] = q]
      /\ UNCHANGED <<snapshots, opening, compactions, issued, faults>>
  BY OnePage DEF Saved
<1>2. Head(queue[t]) \in Transaction /\ rest \in Seq(Transaction) /\ QueueOK(rest, Base)
      /\ commit \in Commits /\ Rooted(commit, Base)
      /\ \A e : HasSurvey(queue[t], e) => HasSurvey(rest, e)
  <2>1. \A e : Head(queue[t]) # Surveying(e)
    BY <1>1 DEF Surveying
  <2>2. QED
    BY <1>1, <2>1, OnePage, QueueTail, TransactionFacts
<1>3. tab' = [tab EXCEPT ![t] = p]
  <2> HIDE DEF commit
  <2>1. tab' = [tab EXCEPT ![t].pending = Nothing, ![t].isDirty = FALSE,
                           ![t].failed = FALSE, ![t].shown = commit]
    BY DEF Saved, commit
  <2>2. QED
    BY <2>1 DEF Inv, TypeOK
<1> HIDE DEF commit
<1>4. /\ written \subseteq written' /\ Base \subseteq Base' /\ journal' \subseteq written'
      /\ commit \in written' /\ commit \in Base'
  BY <1>1 DEF Base, Inv, Descent
<1>5. p \in Page /\ PageOK(p, Base')
  <2>1. /\ p.shown = commit /\ p.closure = tab[t].closure /\ p.pending = Nothing /\ p \in Page
    BY <1>2, OnePage DEF Page, Commits
  <2>2. QED
    BY <1>4, <2>1, OnePage DEF PageOK
<1>6. q \in Seq(Transaction) /\ QueueOK(q, Base')
      /\ (\A e : HasSurvey(queue[t], e) => HasSurvey(q, e)) /\ HasSurvey(q, commit)
  <2> DEFINE x == Surveying(commit)
  <2>1. x \in Transaction /\ x.do = "survey" /\ x.commit = commit
    BY <1>2 DEF Surveying, Transaction
  <2>2. QueueOK(rest, Base')
    BY <1>2, <1>4, MoreWritten
  <2> HIDE DEF rest
  <2>3. \A r : r = Append(rest, x) =>
          /\ r \in Seq(Transaction) /\ QueueOK(r, Base')
          /\ (\A e : HasSurvey(rest, e) => HasSurvey(r, e)) /\ HasSurvey(r, commit)
    <3>1. \A y : y = x => \A r : r = Append(rest, y) =>
          /\ r \in Seq(Transaction) /\ QueueOK(r, Base')
          /\ (\A e : HasSurvey(rest, e) => HasSurvey(r, e)) /\ HasSurvey(r, commit)
      <4> HIDE DEF x
      <4>1. QED
        BY <1>2, <1>4, <2>1, <2>2, QueueAppend DEF x
    <3>2. QED
      BY <3>1
  <2>4. QED
    BY <1>2, <2>3
<1> HIDE DEF p, q
<1>7. /\ tab \in [Tabs -> Page] /\ queue \in [Tabs -> Seq(Transaction)]
  BY DEF Inv, TypeOK
<1>8. TypeOK'
  <2>1. tab' \in [Tabs -> Page] /\ queue' \in [Tabs -> Seq(Transaction)]
    <3> HIDE DEF Page, Transaction
    <3>1. QED
      BY <1>1, <1>3, <1>5, <1>6, <1>7
  <2>2. QED
    BY <1>1, <1>2, <2>1 DEF Inv, TypeOK
<1>9. \A u \in Tabs : /\ tab'[u] = IF u = t THEN p ELSE tab[u]
                      /\ queue'[u] = IF u = t THEN q ELSE queue[u]
                      /\ opening'[u] = opening[u]
  BY <1>1, <1>3, <1>7
<1>10. \A u \in Tabs : /\ PageOK(tab'[u], Base') /\ QueueOK(queue'[u], Base')
                       /\ OpeningOK(opening'[u], Base')
  <2>1. ASSUME NEW u \in Tabs
        PROVE  PageOK(tab'[u], Base') /\ QueueOK(queue'[u], Base') /\ OpeningOK(opening'[u], Base')
    <3>1. PageOK(tab[u], Base') /\ QueueOK(queue[u], Base') /\ OpeningOK(opening[u], Base')
      BY <1>4, OnePage, MoreWritten
    <3>2. QED
      BY <1>5, <1>6, <1>9, <3>1
  <2>2. QED
    BY <2>1
<1>11. \A c \in compactions' : CompactionOK(c, Base')
  BY <1>1, <1>4, MoreWritten DEF Inv, Descent
<1>12. Kept'
  BY <1>1 DEF Inv, Kept
<1>13. Settled' \subseteq Settled
  <2>1. ASSUME NEW e \in Settled' PROVE e \in Settled
    <3>1. e \in journal' /\ \A u \in Tabs : ~HasSurvey(queue'[u], e)
      BY DEF Settled
    <3>2. e # commit
      BY <1>6, <1>9, <3>1
    <3>3. \A u \in Tabs : ~HasSurvey(queue[u], e)
      BY <1>6, <1>9, <3>1
    <3>4. QED
      BY <1>1, <3>1, <3>2, <3>3 DEF Settled
  <2>2. QED
    BY <2>1
<1>14. Short'
  <2>1. IsFiniteSet(journal) => IsFiniteSet(journal')
    BY <1>1, FS_AddElement
  <2>2. QED
    BY <1>1, <1>13, <2>1, IntervalAssumption, ShortStays DEF Inv
<1>15. \A w \in written' : w \notin written => Rooted(w, Base)
  BY <1>1, <1>2
<1>16. QED
  BY <1>1, <1>4, <1>8, <1>10, <1>11, <1>12, <1>14, <1>15, Step DEF Inv, Descent

\* The journal is read: when it is due, a compaction that removes the survey's own
\* entry follows, and otherwise it is short.
LEMMA SurveyStep ==
  ASSUME Inv, NEW t \in Tabs, Survey(t)
  PROVE  Inv'
<1> DEFINE commit == Head(queue[t]).commit
           rest == Tail(queue[t])
           new == [tab |-> t, commit |-> commit, entries |-> journal]
<1>1. /\ queue[t] # <<>> /\ Head(queue[t]).do = "survey" /\ queue' = [queue EXCEPT ![t] = rest]
      /\ compactions' = compactions \cup (IF Due(journal) THEN {new} ELSE {})
      /\ UNCHANGED <<storeVars, tab, opening, historyVars, faults>>
  BY OnePage DEF Survey, Turn
<1>2. /\ rest \in Seq(Transaction) /\ QueueOK(rest, Base) /\ commit \in Base /\ commit \in Commits
      /\ \A e : HasSurvey(queue[t], e) => HasSurvey(rest, e) \/ e = commit
  <2>1. /\ rest \in Seq(Transaction) /\ Head(queue[t]) \in Transaction
        /\ QueueOK(rest, Base) /\ commit \in Base
        /\ \A e : HasSurvey(queue[t], e) => HasSurvey(rest, e) \/ Head(queue[t]) = Surveying(e)
    BY <1>1, OnePage, QueueTail
  <2>2. commit \in Commits
    BY <1>1, <2>1, TransactionFacts
  <2>3. \A e : Head(queue[t]) = Surveying(e) => e = commit
    BY DEF Surveying
  <2>4. QED
    BY <2>1, <2>2, <2>3
<1> HIDE DEF commit, rest
<1>3. /\ new \in Compaction /\ CompactionOK(new, Base) /\ new.commit = commit /\ new.entries = journal
  BY <1>2 DEF Compaction, CompactionOK, Inv, TypeOK, Descent, Base
<1> HIDE DEF new
<1>4. /\ snapshots' = snapshots /\ journal' = journal /\ written' = written /\ tab' = tab
      /\ opening' = opening /\ issued' = issued /\ acknowledged' = acknowledged
      /\ faults' = faults /\ Base' = Base
  BY <1>1 DEF storeVars, historyVars, Base
<1>5. \A u \in Tabs : queue'[u] = IF u = t THEN rest ELSE queue[u]
  BY <1>1 DEF Inv, TypeOK
<1>6. TypeOK'
  <2>1. queue' \in [Tabs -> Seq(Transaction)]
    <3> HIDE DEF Transaction
    <3>1. QED
      BY <1>1, <1>2 DEF Inv, TypeOK
  <2>2. compactions' \subseteq Compaction
    BY <1>1, <1>3 DEF Inv, TypeOK
  <2>3. QED
    BY <1>4, <2>1, <2>2 DEF Inv, TypeOK
<1>7. \A u \in Tabs : /\ PageOK(tab'[u], Base') /\ QueueOK(queue'[u], Base')
                      /\ OpeningOK(opening'[u], Base')
  BY <1>2, <1>4, <1>5 DEF Inv, Descent
<1>8. \A p \in compactions' : CompactionOK(p, Base')
  BY <1>1, <1>3, <1>4 DEF Inv, Descent
<1>9. Kept'
  BY <1>4 DEF Inv, Kept
<1>10. \A u \in Tabs : \A e : HasSurvey(queue[u], e) => HasSurvey(queue'[u], e) \/ e = commit
  BY <1>2, <1>5
<1>11. Short'
  <2>1. CASE Due(journal)
    <3>1. new \in compactions' /\ compactions \subseteq compactions'
      BY <1>1, <2>1
    <3>2. ASSUME NEW e \in Settled' PROVE e \in Settled
      <4>1. /\ e \in journal /\ \A u \in Tabs : ~HasSurvey(queue'[u], e)
            /\ \A p \in compactions' : p.commit = e => e \notin p.entries
        BY <1>4 DEF Settled
      <4>2. e # commit
        BY <1>3, <3>1, <4>1
      <4>3. QED
        BY <1>10, <3>1, <4>1, <4>2 DEF Settled
    <3>3. QED
      BY <1>4, <3>2, IntervalAssumption, ShortStays DEF Inv
  <2>2. CASE ~Due(journal)
    <3> SUFFICES ASSUME faults["reload"] = 0, faults["fail"] = 0
                 PROVE  IsFiniteSet(journal') /\ Cardinality(Settled') < SnapshotInterval
      BY <1>4 DEF Short
    <3>1. IsFiniteSet(journal) /\ Cardinality(journal) \in Nat
      BY FS_CardinalityType DEF Inv, Short
    <3>2. Cardinality(journal) < SnapshotInterval
      BY <2>2, <3>1, IntervalAssumption DEF Due
    <3>3. Settled' \subseteq journal
      BY <1>4 DEF Settled
    <3>4. /\ Cardinality(Settled') <= Cardinality(journal)
          /\ Cardinality(Settled') \in Nat
      BY <3>1, <3>3, FS_Subset, FS_CardinalityType
    <3>5. QED
      BY <1>4, <3>1, <3>2, <3>4, IntervalAssumption
  <2>3. QED
    BY <2>1, <2>2
<1>12. QED
  BY <1>4, <1>6, <1>7, <1>8, <1>9, <1>11, Step DEF Inv, Descent

\* A snapshot takes the place of the entries it covers.
LEMMA WriteSnapshotStep ==
  ASSUME Inv, NEW p \in compactions, WriteSnapshot(p)
  PROVE  Inv'
<1> DEFINE new == [state |-> p.commit, valid |-> TRUE]
<1>1. /\ snapshots' = {s \in snapshots : ~SameKey(s, p.commit)} \cup {new}
      /\ journal' = journal \ Covered(p) /\ compactions' = compactions \ {p}
      /\ UNCHANGED <<pageVars, historyVars, faults>>
  BY DEF WriteSnapshot
<1>2. /\ tab' = tab /\ queue' = queue /\ opening' = opening /\ issued' = issued
      /\ written' = written /\ acknowledged' = acknowledged /\ faults' = faults /\ Base' = Base
  BY <1>1 DEF pageVars, historyVars, Base
<1>3. p \in Compaction /\ CompactionOK(p, Base) /\ p.commit \in Commits
  BY DEF Inv, TypeOK, Descent, Compaction
<1>4. /\ new \in Snapshot /\ new.state = p.commit /\ new.valid = TRUE
  BY <1>3 DEF Snapshot, Commits
<1> HIDE DEF new
<1>5. TypeOK'
  <2>1. snapshots' \subseteq Snapshot /\ journal' \subseteq Commits /\ compactions' \subseteq Compaction
    BY <1>1, <1>4 DEF Inv, TypeOK
  <2>2. \A a, b \in snapshots' : Revision(a.state) = Revision(b.state) => a = b
    <3>1. ASSUME NEW a \in snapshots', NEW b \in snapshots', Revision(a.state) = Revision(b.state)
          PROVE  a = b
      <4>1. a = new \/ (a \in snapshots /\ Revision(a.state) # Revision(p.commit))
        BY <1>1 DEF SameKey
      <4>2. b = new \/ (b \in snapshots /\ Revision(b.state) # Revision(p.commit))
        BY <1>1 DEF SameKey
      <4>3. QED
        BY <1>4, <3>1, <4>1, <4>2 DEF Inv, TypeOK
    <3>2. QED
      BY <3>1
  <2>3. QED
    BY <1>2, <2>1, <2>2 DEF Inv, TypeOK
<1>6. /\ \A s \in snapshots' : s.state \in Base'
      /\ \A q \in compactions' : CompactionOK(q, Base')
      /\ journal' \subseteq written'
  BY <1>1, <1>2, <1>3, <1>4 DEF Inv, Descent, CompactionOK
<1>7. Kept'
  <2>1. new \in snapshots'
    BY <1>1
  <2>2. ASSUME NEW w \in written' PROVE w \in journal' \/ \E s \in snapshots' : Len(s.state) >= Len(w)
    <3>1. w \in written /\ Len(w) \in Nat /\ Len(p.commit) \in Nat /\ Revision(w) = Len(w)
          /\ Revision(p.commit) = Len(p.commit)
      BY <1>2, <1>3, StateFacts DEF Inv, TypeOK, Commits
    <3>2. CASE w \in journal /\ w \notin Covered(p)
      BY <1>1, <3>2
    <3>3. CASE w \in Covered(p)
      <4>1. Len(p.commit) >= Len(w)
        BY <3>1, <3>3 DEF Covered
      <4>2. QED
        BY <1>4, <2>1, <4>1
    <3>4. CASE w \notin journal
      <4>1. PICK s \in snapshots : Len(s.state) >= Len(w)
        BY <3>1, <3>4 DEF Inv, Kept
      <4>2. CASE SameKey(s, p.commit)
        <5>1. Len(s.state) = Len(p.commit)
          BY <4>2 DEF SameKey, Revision
        <5>2. QED
          BY <1>4, <2>1, <4>1, <5>1
      <4>3. CASE ~SameKey(s, p.commit)
        BY <1>1, <4>1, <4>3
      <4>4. QED
        BY <4>2, <4>3
    <3>5. QED
      BY <3>2, <3>3, <3>4
  <2>3. faults'["corrupt"] = 0 => \A s \in snapshots' : s.valid
    BY <1>1, <1>2, <1>4 DEF Inv, Kept
  <2>4. QED
    BY <2>1, <2>2, <2>3 DEF Kept
<1>8. Settled' \subseteq Settled
  <2>1. ASSUME NEW e \in Settled' PROVE e \in Settled
    <3>1. /\ e \in journal /\ e \notin Covered(p) /\ \A u \in Tabs : ~HasSurvey(queue[u], e)
          /\ \A q \in compactions : q # p => (q.commit = e => e \notin q.entries)
      BY <1>1, <1>2 DEF Settled
    <3>2. p.commit = e => e \notin p.entries
      <4>1. Revision(e) \in Nat
        BY <3>1, StateFacts DEF Inv, TypeOK, Commits
      <4>2. QED
        BY <3>1, <4>1 DEF Covered
    <3>3. QED
      BY <3>1, <3>2 DEF Settled
  <2>2. QED
    BY <2>1
<1>9. Short'
  <2>1. IsFiniteSet(journal) => IsFiniteSet(journal')
    BY <1>1, FS_Subset
  <2>2. QED
    BY <1>2, <1>8, <2>1, IntervalAssumption, ShortStays DEF Inv
<1>10. QED
  BY <1>2, <1>5, <1>6, <1>7, <1>9, Step DEF Inv, Descent

\* A compaction is given up.
LEMMA CompactionFailsStep ==
  ASSUME Inv, NEW p \in compactions, CompactionFails(p)
  PROVE  Inv'
<1>1. /\ Fault("fail") /\ compactions' = compactions \ {p}
      /\ UNCHANGED <<storeVars, pageVars, historyVars>>
  BY DEF CompactionFails
<1>2. /\ snapshots' = snapshots /\ journal' = journal /\ tab' = tab /\ queue' = queue
      /\ opening' = opening /\ issued' = issued
      /\ written' = written /\ acknowledged' = acknowledged /\ Base' = Base
  BY <1>1 DEF storeVars, pageVars, historyVars, Base
<1>3. "fail" \in Kinds /\ "corrupt" \in Kinds
  BY DEF Kinds
<1>4. /\ faults' \in [Kinds -> Nat] /\ faults'["fail"] # 0
      /\ faults'["corrupt"] = 0 => faults["corrupt"] = 0
  BY <1>1, <1>3, FaultCounted DEF Inv
<1>5. TypeOK'
  BY <1>1, <1>2, <1>4 DEF Inv, TypeOK
<1>6. Kept' /\ Short'
  BY <1>2, <1>4 DEF Inv, Kept, Short
<1>7. \A q \in compactions' : CompactionOK(q, Base')
  BY <1>1, <1>2 DEF Inv, Descent
<1>8. QED
  BY <1>2, <1>5, <1>6, <1>7, Step DEF Inv, Descent

\* A snapshot is damaged.
LEMMA CorruptStep ==
  ASSUME Inv, Corrupt
  PROVE  Inv'
<1>1. /\ Fault("corrupt") /\ UNCHANGED <<journal, pageVars, compactions, historyVars>>
  BY DEF Corrupt
<1>2. PICK s \in snapshots : snapshots' = (snapshots \ {s}) \cup {[s EXCEPT !.valid = FALSE]}
  BY DEF Corrupt
<1> DEFINE new == [s EXCEPT !.valid = FALSE]
<1>3. new \in Snapshot /\ new.state = s.state
  BY DEF Inv, TypeOK, Snapshot
<1>4. snapshots' = (snapshots \ {s}) \cup {new}
  BY <1>2
<1> HIDE DEF new
<1>5. /\ journal' = journal /\ tab' = tab /\ queue' = queue /\ opening' = opening
      /\ issued' = issued /\ compactions' = compactions
      /\ written' = written /\ acknowledged' = acknowledged /\ Base' = Base
  BY <1>1 DEF pageVars, historyVars, Base
<1>6. "corrupt" \in Kinds /\ "reload" \in Kinds /\ "fail" \in Kinds
  BY DEF Kinds
<1>7. /\ faults' \in [Kinds -> Nat] /\ faults'["corrupt"] # 0
      /\ faults'["reload"] = 0 => faults["reload"] = 0
      /\ faults'["fail"] = 0 => faults["fail"] = 0
  BY <1>1, <1>6, FaultCounted DEF Inv
<1>8. TypeOK'
  <2>1. snapshots' \subseteq Snapshot
    BY <1>3, <1>4 DEF Inv, TypeOK
  <2>2. \A a, b \in snapshots' : Revision(a.state) = Revision(b.state) => a = b
    BY <1>3, <1>4 DEF Inv, TypeOK
  <2>3. QED
    BY <1>5, <1>7, <2>1, <2>2 DEF Inv, TypeOK
<1>9. /\ \A x \in snapshots' : x.state \in Base'
      /\ \A q \in compactions' : CompactionOK(q, Base')
  BY <1>3, <1>4, <1>5 DEF Inv, Descent
<1>10. Kept'
  <2>1. \A x \in snapshots : \E y \in snapshots' : y.state = x.state
    BY <1>3, <1>4
  <2>2. \A w \in written' : w \in journal' \/ \E y \in snapshots' : Len(y.state) >= Len(w)
    <3>1. ASSUME NEW w \in written', w \notin journal'
          PROVE  \E y \in snapshots' : Len(y.state) >= Len(w)
      <4>1. PICK x \in snapshots : Len(x.state) >= Len(w)
        BY <1>5, <3>1 DEF Inv, Kept
      <4>2. PICK y \in snapshots' : y.state = x.state
        BY <2>1
      <4>3. Len(y.state) >= Len(w)
        BY <4>1, <4>2
      <4>4. QED
        BY <4>3
    <3>2. QED
      BY <3>1
  <2>3. QED
    BY <1>4, <1>7, <2>2 DEF Kept
<1>11. Short'
  <2>1. Settled' \subseteq Settled
    BY <1>5 DEF Settled
  <2>2. QED
    BY <1>5, <1>7, <2>1, IntervalAssumption, ShortStays DEF Inv
<1>12. QED
  BY <1>5, <1>8, <1>9, <1>10, <1>11, Step DEF Inv, Descent

-----------------------------------------------------------------------------
\* The campaign is created, and every page shows it.
LEMMA InitInv ==
  ASSUME Init
  PROVE  Inv
<1>1. TypeOK
  <2>1. <<>> \in States
    BY DEF States
  <2>2. snapshots \subseteq Snapshot /\ \A a, b \in snapshots : a = b
    BY <2>1 DEF Init, Snapshot
  <2>3. tab \in [Tabs -> Page]
    <3>1. [Blank EXCEPT !.shown = <<>>, !.closure = <<>>] \in Page
      BY <2>1 DEF Blank, Page
    <3>2. QED
      BY <3>1 DEF Init
  <2>4. queue \in [Tabs -> Seq(Transaction)] /\ opening \in [Tabs -> Opening]
    <3>1. Idle \in Opening /\ <<>> \in Seq(Transaction)
      BY DEF Idle, Opening
    <3> HIDE DEF Opening, Transaction
    <3>2. QED
      BY <3>1 DEF Init
  <2>5. faults \in [Kinds -> Nat]
    BY DEF Init
  <2>6. QED
    BY <2>2, <2>3, <2>4, <2>5 DEF Init, TypeOK
<1>2. Descent
  <2>1. \A t \in Tabs : PageOK(tab[t], Base) /\ QueueOK(queue[t], Base) /\ OpeningOK(opening[t], Base)
    <3>1. ASSUME NEW t \in Tabs
          PROVE  PageOK(tab[t], Base) /\ QueueOK(queue[t], Base) /\ OpeningOK(opening[t], Base)
      <4>1. /\ tab[t].shown = <<>> /\ tab[t].closure = <<>> /\ tab[t].pending = Nothing
            /\ queue[t] = <<>> /\ opening[t].snapshots = {}
        BY DEF Init, Blank, Idle
      <4>2. <<>> \in Base
        BY DEF Base
      <4>3. Len(queue[t]) = 0
        BY <4>1
      <4>4. QED
        BY <4>1, <4>2, <4>3 DEF PageOK, QueueOK, OpeningOK
    <3>2. QED
      BY <3>1
  <2>2. QED
    BY <2>1 DEF Init, Descent, Base
<1>3. Bounded
  BY DEF Init, Bounded
<1>4. Kept
  BY DEF Init, Kept
<1>5. Short
  <2>1. Settled = {} /\ IsFiniteSet({}) /\ Cardinality({}) = 0
    BY FS_EmptySet DEF Init, Settled
  <2>2. QED
    BY <2>1, IntervalAssumption DEF Init, Short
<1>6. QED
  BY <1>1, <1>2, <1>3, <1>4, <1>5 DEF Inv

\* Every step of the pages and of the store keeps the invariant: commits descend
\* from what was written, what a compaction deletes a snapshot holds, and what is
\* left in the journal is either few or about to be removed.
THEOREM JournalInvariance == Spec => []Inv
<1>1. Init => Inv
  BY InitInv
<1>2. Inv /\ [Next]_vars => Inv'
  <2> SUFFICES ASSUME Inv, [Next]_vars PROVE Inv'
    OBVIOUS
  <2>1. ASSUME NEW t \in Tabs,
               \/ RunCommand(t) \/ RetrySave(t) \/ PageHide(t) \/ Render(t)
               \/ OpenCampaign(t) \/ ReadSnapshots(t) \/ Opened(t) \/ SaveFails(t)
        PROVE  Inv'
    BY <2>1, RunCommandStep, RetrySaveStep, PageHideStep, RenderStep, OpenCampaignStep,
       ReadSnapshotsStep, OpenedStep, SaveFailsStep
  <2>2. ASSUME NEW t \in Tabs, Reload(t) \/ Saved(t) \/ Survey(t)
        PROVE  Inv'
    BY <2>2, ReloadStep, SavedStep, SurveyStep
  <2>3. ASSUME NEW p \in compactions, WriteSnapshot(p) \/ CompactionFails(p)
        PROVE  Inv'
    BY <2>3, WriteSnapshotStep, CompactionFailsStep
  <2>4. CASE Corrupt
    BY <2>4, CorruptStep
  <2>5. CASE UNCHANGED vars
    <3>1. UNCHANGED <<snapshots, journal, tab, queue, opening, compactions, issued, written,
                      acknowledged, faults>>
      BY <2>5 DEF vars, storeVars, pageVars, historyVars
    <3>2. TypeOK' /\ Bounded' /\ Kept'
      BY <3>1 DEF Inv, TypeOK, Bounded, Kept
    <3>3. Descent'
      BY <3>1 DEF Inv, Descent, Base
    <3>4. Short'
      BY <3>1 DEF Inv, Short, Settled
    <3>5. QED
      BY <3>2, <3>3, <3>4 DEF Inv
  <2>6. QED
    BY <2>1, <2>2, <2>3, <2>4, <2>5 DEF Next
<1>3. QED
  BY <1>1, <1>2, PTL DEF Spec

\* The store and the pages keep their types, no revision has two snapshots, and a
\* receipt is given only for a commit that was written.
THEOREM JournalTypes == Spec => []TypeOK
<1>1. Inv => TypeOK
  BY DEF Inv
<1>2. QED
  BY <1>1, JournalInvariance, PTL

\* As long as commits follow each other and no snapshot is damaged, opening the
\* campaign recovers every commit that was written (recoverCampaign,
\* compactIfNeeded).
THEOREM CommitsSurvive == Spec => []LinearCommitsSurvive
<1>1. Inv => LinearCommitsSurvive
  BY LinearRecovered
<1>2. QED
  BY <1>1, JournalInvariance, PTL

\* What recovery shows is a state that the campaign was in: the new one, or one
\* that a commit was made for.
THEOREM RecoveryNeverMixes == Spec => []RecoveredWasCommitted
<1>1. Inv => RecoveredWasCommitted
  BY RecoveredCommitted
<1>2. QED
  BY <1>1, JournalInvariance, PTL

\* Without failures and reloads, a journal that nobody works on is shorter than
\* the interval between snapshots (compactIfNeeded).
THEOREM JournalStaysShort == Spec => []QuietJournalIsShort
<1>1. Inv => QuietJournalIsShort
  BY QuietShort
<1>2. QED
  BY <1>1, JournalInvariance, PTL
=============================================================================
