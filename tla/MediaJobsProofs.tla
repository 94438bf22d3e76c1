-------------------------- MODULE MediaJobsProofs --------------------------
(***************************************************************************)
(* Theorems about MediaJobs for every finite set of jobs, every plan of    *)
(* derivatives and every bound.                                            *)
(***************************************************************************)
EXTENDS MediaJobs, FiniteSetTheorems, TLAPS

Entry == [job : Jobs, row : States \cup {"none"}, then : Afterwards]
Reads == {"lookedUp", "created", "enqueued"}

\* The row that job j will have when every function has stopped waiting is the
\* state m that the page shows: the last one queued, or the stored one d.
LastRowIs(m, j, d, q) ==
  \/ d = m /\ \A i \in 1..Len(q) : q[i].job = j => q[i].row = "none"
  \/ \E i \in 1..Len(q) :
       /\ q[i].job = j /\ q[i].row = m
       /\ \A k \in 1..Len(q) : k > i /\ q[k].job = j => q[k].row = "none"

\* An entry of the queue writes a state a job can be in, of a job that is stored,
\* unless its function reads; a success only of a job whose record is stored.
\* Only derivatives are paused.
EntryOK(e, d, r) ==
  /\ e.row # "absent"
  /\ e.row = "none" <=> e.then \in Reads
  /\ e.row # "none" => d[e.job] # "absent"
  /\ e.row = "succeeded" => e.job \in r
  /\ e.then = "pauseRequested" => e.job \in Derivatives

\* Memory m, the jobs store d, the queue q of saves, the records r and the jobs
\* b that a lookup put behind belong together.
Consistent(m, d, q, r, b) ==
  /\ m \in [Jobs -> States] /\ d \in [Jobs -> States] /\ q \in Seq(Entry)
  /\ \A j \in Jobs : m[j] # "absent" => d[j] # "absent"
  /\ \A j \in Jobs : m[j] = "succeeded" \/ d[j] = "succeeded" => j \in r
  /\ \A i \in 1..Len(q) : EntryOK(q[i], d, r)
  /\ \A j \in Jobs : j \notin b => LastRowIs(m[j], j, d[j], q)

Rows == Consistent(memory, disk, saves, records, behind)

\* The job a message is about, while its record is stored.
Storing ==
  handler.pc = "storing" =>
    /\ handler.job \in Jobs
    /\ handler.seen # "absent" => disk[handler.job] # "absent"

Inv == TypeOK /\ Rows /\ Storing

-----------------------------------------------------------------------------
\* Appending to a sequence.
LEMMA SeqAppend ==
  ASSUME NEW S, NEW s \in Seq(S), NEW r \in S
  PROVE  /\ Append(s, r) \in Seq(S)
         /\ Len(Append(s, r)) = Len(s) + 1
         /\ Append(s, r)[Len(s) + 1] = r
         /\ \A i \in 1..Len(s) : Append(s, r)[i] = s[i]
  OBVIOUS

\* What the tail of a queue holds.
LEMMA SeqTail ==
  ASSUME NEW S, NEW s \in Seq(S), s # <<>>
  PROVE  /\ Tail(s) \in Seq(S) /\ Head(s) \in S /\ Head(s) = s[1] /\ Len(s) \in Nat \ {0}
         /\ Len(Tail(s)) = Len(s) - 1
         /\ \A i \in 1..Len(Tail(s)) : i + 1 \in 1..Len(s) /\ Tail(s)[i] = s[i + 1]
  OBVIOUS

\* A job that saves a new state shows what its last row will be.
LEMMA SavedIsConsistent ==
  ASSUME NEW m, NEW d, NEW q, NEW r, NEW b, Consistent(m, d, q, r, b),
         NEW j \in Jobs, NEW s \in States \ {"absent"}, NEW then \in Afterwards \ Reads,
         d[j] # "absent", s = "succeeded" => j \in r,
         then = "pauseRequested" => j \in Derivatives
  PROVE  Consistent([m EXCEPT ![j] = s], d, Append(q, Await(j, s, then)), r, b)
<1> DEFINE e == Await(j, s, then)
           qq == Append(q, e)
           mm == [m EXCEPT ![j] = s]
<1>1. e \in Entry /\ EntryOK(e, d, r) /\ e.job = j /\ e.row = s /\ s # "none"
  BY DEF Await, Entry, EntryOK, States, Busy, Terminal
<1> HIDE DEF e
<1>2. /\ qq \in Seq(Entry) /\ Len(qq) = Len(q) + 1 /\ qq[Len(q) + 1] = e
      /\ \A i \in 1..Len(q) : qq[i] = q[i]
  BY <1>1, SeqAppend DEF Consistent
<1>3. /\ mm \in [Jobs -> States] /\ mm[j] = s
      /\ \A i \in Jobs : i # j => mm[i] = m[i]
  BY DEF Consistent
<1>4. Len(q) \in Nat
  BY DEF Consistent
<1> HIDE DEF qq, mm
<1>5. \A i \in 1..Len(qq) : EntryOK(qq[i], d, r)
  BY <1>1, <1>2, <1>4 DEF Consistent
<1>6. ASSUME NEW i \in Jobs, i \notin b PROVE LastRowIs(mm[i], i, d[i], qq)
  <2>1. CASE i = j
    BY <1>1, <1>2, <1>3, <1>4, <2>1 DEF LastRowIs
  <2>2. CASE i # j
    <3>1. LastRowIs(m[i], i, d[i], q)
      BY <1>6 DEF Consistent
    <3>2. qq[Len(q) + 1].job # i
      BY <1>1, <1>2, <2>2
    <3>3. mm[i] = m[i]
      BY <1>3, <2>2
    <3>4. QED
      BY SMTT(40), <1>2, <1>4, <3>1, <3>2, <3>3 DEF LastRowIs
  <2>3. QED
    BY <2>1, <2>2
<1>7. Consistent(mm, d, qq, r, b)
  BY <1>2, <1>3, <1>5, <1>6 DEF Consistent
<1>8. QED
  BY <1>7 DEF mm, qq, e

\* A function that waits for a lookup changes nothing.
LEMMA ReadIsConsistent ==
  ASSUME NEW m, NEW d, NEW q, NEW r, NEW b, Consistent(m, d, q, r, b),
         NEW j \in Jobs, NEW then \in Reads
  PROVE  Consistent(m, d, Append(q, Await(j, "none", then)), r, b)
<1> DEFINE e == Await(j, "none", then)
           qq == Append(q, e)
<1>1. e \in Entry /\ EntryOK(e, d, r) /\ e.job = j /\ e.row = "none"
  BY DEF Await, Entry, EntryOK, Reads, Afterwards
<1> HIDE DEF e
<1>2. /\ qq \in Seq(Entry) /\ Len(qq) = Len(q) + 1 /\ qq[Len(q) + 1] = e
      /\ \A i \in 1..Len(q) : qq[i] = q[i]
  BY <1>1, SeqAppend DEF Consistent
<1>4. Len(q) \in Nat
  BY DEF Consistent
<1> HIDE DEF qq
<1>5. \A i \in 1..Len(qq) : EntryOK(qq[i], d, r)
  BY <1>1, <1>2, <1>4 DEF Consistent
<1>6. ASSUME NEW i \in Jobs, i \notin b PROVE LastRowIs(m[i], i, d[i], qq)
  <2>1. LastRowIs(m[i], i, d[i], q)
    BY <1>6 DEF Consistent
  <2>2. qq[Len(q) + 1].row = "none"
    BY <1>1, <1>2
  <2>3. QED
    BY <1>2, <1>4, <2>1, <2>2 DEF LastRowIs
<1>7. Consistent(m, d, qq, r, b)
  BY <1>2, <1>5, <1>6 DEF Consistent
<1>8. QED
  BY <1>7 DEF qq, e

\* The store as the oldest await leaves it.
Written(d, e) == IF e.row = "none" THEN d ELSE [d EXCEPT ![e.job] = e.row]

\* A transaction that completes brings the store one row nearer to the page.
LEMMA WriteIsConsistent ==
  ASSUME NEW m, NEW d, NEW q, NEW r, NEW b, Consistent(m, d, q, r, b), q # <<>>
  PROVE  /\ Consistent(m, Written(d, Head(q)), Tail(q), r, b)
         /\ Head(q) \in Entry /\ EntryOK(Head(q), d, r)
         /\ Head(q).row # "none" => Written(d, Head(q))[Head(q).job] # "absent"
         /\ \A j \in Jobs : d[j] # "absent" => Written(d, Head(q))[j] # "absent"
<1> DEFINE e == Head(q)
           dd == Written(d, e)
           t == Tail(q)
<1>1. /\ t \in Seq(Entry) /\ e \in Entry /\ e = q[1] /\ Len(q) \in Nat \ {0}
      /\ Len(t) = Len(q) - 1
      /\ \A i \in 1..Len(t) : i + 1 \in 1..Len(q) /\ t[i] = q[i + 1]
  BY SeqTail DEF Consistent
<1>2. EntryOK(e, d, r)
  BY <1>1 DEF Consistent
<1> HIDE DEF e, t
<1>3. /\ e.job \in Jobs /\ e.row \in States \cup {"none"}
      /\ d \in [Jobs -> States] /\ m \in [Jobs -> States]
  BY <1>1 DEF Entry, Consistent
<1>4. /\ dd \in [Jobs -> States]
      /\ \A j \in Jobs : /\ j # e.job \/ e.row = "none" => dd[j] = d[j]
                         /\ j = e.job /\ e.row # "none" => dd[j] = e.row
  BY <1>3 DEF Written
<1> HIDE DEF dd
<1>5. \A j \in Jobs : /\ d[j] # "absent" => dd[j] # "absent"
                      /\ dd[j] = "succeeded" => d[j] = "succeeded" \/ j \in r
  BY <1>2, <1>4 DEF EntryOK
<1>6. \A i \in 1..Len(t) : EntryOK(t[i], dd, r)
  <2>1. \A i \in 1..Len(t) : EntryOK(t[i], d, r)
    BY <1>1 DEF Consistent
  <2>2. \A i \in 1..Len(t) : t[i] \in Entry
    BY <1>1
  <2>3. \A i \in 1..Len(t) : t[i].job \in Jobs
    BY <2>2 DEF Entry
  <2>4. QED
    BY <1>5, <2>1, <2>3 DEF EntryOK
<1>7. ASSUME NEW j \in Jobs, j \notin b PROVE LastRowIs(m[j], j, dd[j], t)
  <2>1. LastRowIs(m[j], j, d[j], q)
    BY <1>7 DEF Consistent
  <2>2. CASE d[j] = m[j] /\ \A i \in 1..Len(q) : q[i].job = j => q[i].row = "none"
    <3>1. e.job = j => e.row = "none"
      BY <1>1, <2>2
    <3>2. \A i \in 1..Len(t) : t[i].job = j => t[i].row = "none"
      BY <1>1, <2>2
    <3>3. QED
      BY <1>4, <2>2, <3>1, <3>2 DEF LastRowIs
  <2>3. ASSUME NEW i \in 1..Len(q), q[i].job = j, q[i].row = m[j],
               \A k \in 1..Len(q) : k > i /\ q[k].job = j => q[k].row = "none"
        PROVE  LastRowIs(m[j], j, dd[j], t)
    <3>1. CASE i = 1
      <4>1. e.job = j /\ e.row = m[j] /\ m[j] # "none"
        BY <1>1, <1>3, <2>3, <3>1 DEF States, Busy, Terminal
      <4>2. \A k \in 1..Len(t) : t[k].job = j => t[k].row = "none"
        BY <1>1, <2>3, <3>1
      <4>3. QED
        BY <1>4, <4>1, <4>2 DEF LastRowIs
    <3>2. CASE i # 1
      <4>1. PICK n \in 1..Len(t) : n + 1 = i
        BY <1>1, <3>2
      <4>2. t[n] = q[i]
        BY <1>1, <4>1
      <4>3. \A k \in 1..Len(t) : k > n /\ t[k].job = j => t[k].row = "none"
        BY SMTT(40), <1>1, <2>3, <4>1
      <4>4. QED
        BY <2>3, <4>1, <4>2, <4>3 DEF LastRowIs
    <3>3. QED
      BY <3>1, <3>2
  <2>4. QED
    BY <2>1, <2>2, <2>3 DEF LastRowIs
<1>8. Consistent(m, dd, t, r, b)
  BY <1>1, <1>3, <1>4, <1>5, <1>6, <1>7 DEF Consistent
<1>9. e.row # "none" => dd[e.job] # "absent"
  BY <1>2, <1>3, <1>4 DEF EntryOK
<1>10. QED
  BY <1>1, <1>2, <1>5, <1>8, <1>9 DEF dd, t, e

\* A job that nothing was saved of is created.
LEMMA CreatedIsConsistent ==
  ASSUME NEW m, NEW d, NEW q, NEW r, NEW b, Consistent(m, d, q, r, b),
         NEW j \in Jobs, d[j] = "absent"
  PROVE  Consistent([m EXCEPT ![j] = "queued"], [d EXCEPT ![j] = "queued"], q, r, b)
<1> DEFINE mm == [m EXCEPT ![j] = "queued"]
           dd == [d EXCEPT ![j] = "queued"]
<1>1. /\ mm \in [Jobs -> States] /\ dd \in [Jobs -> States]
      /\ mm[j] = "queued" /\ dd[j] = "queued"
      /\ \A i \in Jobs : i # j => mm[i] = m[i] /\ dd[i] = d[i]
  BY DEF Consistent, States
<1> HIDE DEF mm, dd
<1>2. \A i \in 1..Len(q) : q[i].job \in Jobs /\ (q[i].job = j => q[i].row = "none")
  <2>1. \A i \in 1..Len(q) : q[i] \in Entry
    BY DEF Consistent
  <2>2. \A i \in 1..Len(q) : q[i].job \in Jobs
    BY <2>1 DEF Entry
  <2>3. QED
    BY <2>2 DEF Consistent, EntryOK
<1>3. \A i \in 1..Len(q) : EntryOK(q[i], dd, r)
  BY <1>1, <1>2 DEF Consistent, EntryOK
<1>4. \A i \in Jobs : i \notin b => LastRowIs(mm[i], i, dd[i], q)
  BY <1>1, <1>2 DEF Consistent, LastRowIs
<1>5. Consistent(mm, dd, q, r, b)
  BY <1>1, <1>3, <1>4 DEF Consistent
<1>6. QED
  BY <1>5 DEF mm, dd

\* A job that is read from the store is behind it unless it was there before.
LEMMA ReplacedIsConsistent ==
  ASSUME NEW m, NEW d, NEW q, NEW r, NEW b, Consistent(m, d, q, r, b), NEW j \in Jobs
  PROVE  Consistent([m EXCEPT ![j] = d[j]], d, q, r,
                    IF d[j] \in {"absent", m[j]} THEN b ELSE b \cup {j})
<1> DEFINE mm == [m EXCEPT ![j] = d[j]]
           bb == IF d[j] \in {"absent", m[j]} THEN b ELSE b \cup {j}
<1>1. /\ mm \in [Jobs -> States] /\ mm[j] = d[j]
      /\ \A i \in Jobs : i # j => mm[i] = m[i]
  BY DEF Consistent
<1>2. j \notin bb => m[j] = d[j]
  BY DEF Consistent
<1>3. b \subseteq bb
  OBVIOUS
<1> HIDE DEF mm, bb
<1>4. Consistent(mm, d, q, r, bb)
  BY <1>1, <1>2, <1>3 DEF Consistent
<1>5. QED
  BY <1>4 DEF mm, bb

\* startNext keeps what is saved and what is shown together.
LEMMA StartNextIsConsistent ==
  ASSUME NEW m, NEW d, NEW a, NEW q, NEW r, NEW b, NEW play,
         Consistent(m, d, q, r, b), a \in Jobs \cup {NoJob}, StartNextIf(play, m, a, q)
  PROVE  Consistent(memory', d, saves', r, b) /\ active' \in Jobs \cup {NoJob}
<1>1. CASE memory' = m /\ active' = a /\ saves' = q
  BY <1>1
<1>2. ASSUME NEW j \in Jobs, m[j] = "queued",
             memory' = [m EXCEPT ![j] = "preparing"],
             active' = j,
             saves' = Append(q, Await(j, "preparing", "prepared"))
      PROVE  Consistent(memory', d, saves', r, b) /\ active' \in Jobs \cup {NoJob}
  <2>1. d[j] # "absent"
    BY <1>2 DEF Consistent
  <2>2. /\ "preparing" \in States \ {"absent"} /\ "prepared" \in Afterwards \ Reads
        /\ "preparing" # "succeeded"
    BY DEF States, Busy, Afterwards, Reads
  <2>3. Consistent([m EXCEPT ![j] = "preparing"], d,
                   Append(q, Await(j, "preparing", "prepared")), r, b)
    BY <2>1, <2>2, SavedIsConsistent
  <2>4. QED
    BY <1>2, <2>3
<1>3. QED
  BY <1>1, <1>2 DEF StartNextIf

-----------------------------------------------------------------------------
Events == {"start_preparing", "start_running", "request_pause", "confirm_paused", "resume",
           "request_cancel", "confirm_cancelled", "succeed", "fail", "retry"}

\* No event is accepted by a job that does not exist or leads to one; only
\* "succeed" leads to success.
LEMMA EventFacts ==
  \A event \in Events :
    /\ Accepts[event] \subseteq States \ {"absent"}
    /\ LeadsTo[event] \in States \ {"absent"}
    /\ LeadsTo[event] = "succeeded" => event = "succeed"
  BY DEF Events, Accepts, LeadsTo, States, Busy, Terminal

\* transition keeps what is saved and what is shown together.
LEMMA TransitionIsConsistent ==
  ASSUME NEW d, NEW q, NEW r, NEW b, Consistent(memory, d, q, r, b),
         NEW j \in Jobs, NEW seen, NEW event \in Events, NEW then \in Afterwards \ Reads,
         d[j] # "absent", event = "succeed" => j \in r,
         then = "pauseRequested" => j \in Derivatives,
         Transition(j, seen, event, then, q)
  PROVE  Consistent(memory', d, saves', r, b)
<1> DEFINE s == LeadsTo[event]
<1>1. s \in States \ {"absent"} /\ (s = "succeeded" => j \in r)
  BY EventFacts
<1>2. /\ memory' = [memory EXCEPT ![j] = s]
      /\ saves' = Append(q, Await(j, s, then))
  BY DEF Transition, RowAfter
<1> HIDE DEF s
<1>3. QED
  BY <1>1, <1>2, SavedIsConsistent

\* What is left of the types once memory, rows and the queue are consistent.
PageOK ==
  /\ active \in Jobs \cup {NoJob}
  /\ playing \in BOOLEAN
  /\ pauseIntent \subseteq Derivatives
HandlerOK ==
  handler \in [pc : {"idle", "storing", "saving", "enqueueing"},
               job : Jobs \cup {NoJob}, seen : States, todo : SUBSET Derivatives]
WorkerOK ==
  /\ inbox \in Seq([type : {"succeeded", "failed", "cancelled"}, job : Jobs])
  /\ requests \in Seq([type : {"run", "cancel"}, job : Jobs])
  /\ runs \in [Jobs -> {"none", "opening", "working", "stopped"}]
  /\ cancellation \subseteq Jobs
  /\ workerUp \in BOOLEAN
GhostsOK ==
  /\ behind \subseteq Jobs
  /\ imported \in [Probes -> 0..MaxImports] /\ asked \in 0..MaxAsks /\ faults \in 0..MaxFaults

\* The invariant by its parts.
LEMMA Parts ==
  Inv <=> Rows /\ records \subseteq Jobs /\ PageOK /\ HandlerOK /\ WorkerOK /\ GhostsOK /\ Storing
  BY DEF Inv, Rows, Consistent, Entry, PageOK, HandlerOK, WorkerOK, GhostsOK, TypeOK

\* A step that leaves the message in hand alone keeps its job stored.
LEMMA StillStoring ==
  ASSUME Storing, HandlerOK, handler' = handler,
         \A j \in Jobs : disk[j] # "absent" => disk'[j] # "absent"
  PROVE  Storing' /\ HandlerOK'
  BY DEF Storing, HandlerOK

\* Steps that neither save nor show anything.
LEMMA QuietKeeps ==
  ASSUME Inv, UNCHANGED <<memory, disk, saves, records, behind, handler>>,
         PageOK', WorkerOK', GhostsOK'
  PROVE  Inv'
<1>1. Rows' /\ (records \subseteq Jobs)'
  BY Parts DEF Rows
<1>2. Storing' /\ HandlerOK'
  BY Parts, StillStoring
<1>3. (Rows /\ records \subseteq Jobs /\ PageOK /\ HandlerOK /\ WorkerOK /\ GhostsOK /\ Storing)'
  BY <1>1, <1>2
<1>4. QED
  BY <1>3, Parts DEF Inv, Rows, Consistent, Entry, PageOK, HandlerOK, WorkerOK, GhostsOK, TypeOK

\* Steps that save or show something, without taking a message.
LEMMA StepKeeps ==
  ASSUME Inv, Consistent(memory', disk', saves', records', behind'), records' \subseteq Jobs,
         HandlerOK', Storing', PageOK', WorkerOK', GhostsOK'
  PROVE  Inv'
<1>1. TypeOK'
  BY DEF Consistent, Entry, PageOK, HandlerOK, WorkerOK, GhostsOK, TypeOK
<1>2. QED
  BY <1>1 DEF Inv, Rows

\* What a function finds when its await is over.
LEMMA Resumed ==
  ASSUME Inv, NEW then, Resumes(then)
  PROVE  /\ saves # <<>> /\ Head(saves) \in Entry /\ Head(saves).then = then
         /\ Head(saves).job \in Jobs
         /\ Consistent(memory, disk', Tail(saves), records, behind)
         /\ then \in Reads => disk' = disk
         /\ then \notin Reads => disk'[Head(saves).job] # "absent"
         /\ \A j \in Jobs : disk[j] # "absent" => disk'[j] # "absent"
<1>1. saves # <<>> /\ Head(saves).then = then /\ disk' = Written(disk, Head(saves))
  BY DEF Resumes, Written
<1>2. Consistent(memory, disk, saves, records, behind)
  BY DEF Inv, Rows
<1>3. /\ Consistent(memory, Written(disk, Head(saves)), Tail(saves), records, behind)
      /\ Head(saves) \in Entry /\ EntryOK(Head(saves), disk, records)
      /\ Head(saves).row # "none" => Written(disk, Head(saves))[Head(saves).job] # "absent"
      /\ \A j \in Jobs : disk[j] # "absent" => Written(disk, Head(saves))[j] # "absent"
  BY <1>1, <1>2, WriteIsConsistent
<1>4. Head(saves).job \in Jobs
  BY <1>3 DEF Entry
<1>5. Head(saves).row = "none" <=> then \in Reads
  BY <1>1, <1>3 DEF EntryOK
<1>6. then \in Reads => disk' = disk
  BY <1>1, <1>5 DEF Written
<1>7. QED
  BY <1>1, <1>3, <1>4, <1>5, <1>6

\* A request to the worker is well formed.
LEMMA PostTypes ==
  ASSUME WorkerOK, NEW type \in {"run", "cancel"}, NEW j \in Jobs, Post(type, j)
  PROVE  requests' \in Seq([type : {"run", "cancel"}, job : Jobs])
<1> DEFINE request == [type |-> type, job |-> j]
<1>1. request \in [type : {"run", "cancel"}, job : Jobs]
  OBVIOUS
<1>2. requests' = IF workerUp THEN Append(requests, request) ELSE requests
  BY DEF Post
<1> HIDE DEF request
<1>3. QED
  BY <1>1, <1>2, SeqAppend DEF WorkerOK

-----------------------------------------------------------------------------
\* Importing only queues a lookup.
LEMMA ImportKeeps ==
  ASSUME Inv, NEW p \in Probes, Import(p)
  PROVE  Inv'
<1> USE DEF Import, workerVars, storeVars
<1>1. p \in Jobs /\ "lookedUp" \in Reads
  BY DEF Probes, Reads
<1>2. Consistent(memory', disk', saves', records', behind')
  BY <1>1, ReadIsConsistent DEF Inv, Rows
<1>3. HandlerOK' /\ Storing'
  BY Parts, StillStoring
<1>4. PageOK' /\ WorkerOK'
  BY Parts DEF PageOK, WorkerOK
<1>5. GhostsOK'
  BY BoundsAssumption, Parts DEF GhostsOK
<1>6. records' \subseteq Jobs
  BY Parts
<1>7. QED
  BY <1>2, <1>3, <1>4, <1>5, <1>6, StepKeeps

\* What a lookup puts in memory is consistent; the jobs it leaves behind are
\* known.
LEMMA ReplacedKeeps ==
  ASSUME Inv, NEW j \in Jobs, Replaced(j), NEW q, Consistent(memory, disk, q, records, behind)
  PROVE  /\ Consistent([memory EXCEPT ![j] = disk[j]], disk, q, records, behind')
         /\ disk[j] = "absent" => behind' = behind
         /\ GhostsOK'
<1>1. behind' = IF disk[j] \in {"absent", memory[j]} THEN behind ELSE behind \cup {j}
  BY DEF Replaced
<1>2. GhostsOK'
  BY <1>1, Parts DEF Replaced, GhostsOK
<1>3. QED
  BY <1>1, <1>2, ReplacedIsConsistent

\* A lookup that finds nothing creates the job, one that finds a row shows it.
LEMMA LookedUpKeeps ==
  ASSUME Inv, LookedUp
  PROVE  Inv'
<1> DEFINE p == Head(saves).job
<1> USE DEF workerVars
<1>1. "lookedUp" \in Reads /\ "created" \in Reads
  BY DEF Reads
<1>2. /\ p \in Jobs /\ disk' = disk
      /\ Consistent(memory, disk, Tail(saves), records, behind)
      /\ Replaced(p)
  BY <1>1, Resumed DEF LookedUp
<1>3. /\ Consistent([memory EXCEPT ![p] = disk[p]], disk, Tail(saves), records, behind')
      /\ disk[p] = "absent" => behind' = behind
      /\ GhostsOK'
  BY <1>2, ReplacedKeeps
<1>4. Consistent(memory', disk', saves', records', behind') /\ active' \in Jobs \cup {NoJob}
  <2> HIDE DEF p
  <2>1. CASE disk[p] = "absent"
    <3>1. /\ saves' = Append(Tail(saves), Await(p, "none", "created"))
          /\ memory' = memory /\ active' = active /\ records' = records
      BY <2>1 DEF LookedUp, p
    <3>2. Consistent(memory, disk, Append(Tail(saves), Await(p, "none", "created")), records,
                     behind)
      BY <1>1, <1>2, ReadIsConsistent
    <3>3. active \in Jobs \cup {NoJob}
      BY Parts DEF PageOK
    <3>4. QED
      BY <1>2, <1>3, <2>1, <3>1, <3>2, <3>3
  <2>2. CASE disk[p] = "queued"
    <3>1. StartNextIf(playing, [memory EXCEPT ![p] = disk[p]], active, Tail(saves))
          /\ records' = records
      BY <2>2 DEF LookedUp, StartNext, p
    <3>2. active \in Jobs \cup {NoJob}
      BY Parts DEF PageOK
    <3>3. QED
      BY <1>2, <1>3, <3>1, <3>2, StartNextIsConsistent
  <2>3. CASE disk[p] \notin {"absent", "queued"}
    <3>1. /\ memory' = [memory EXCEPT ![p] = disk[p]]
          /\ saves' = Tail(saves) /\ active' = active /\ records' = records
      BY <2>3 DEF LookedUp, p
    <3>2. active \in Jobs \cup {NoJob}
      BY Parts DEF PageOK
    <3>3. QED
      BY <1>2, <1>3, <3>1, <3>2
  <2>4. QED
    BY <2>1, <2>2, <2>3
<1>5. HandlerOK' /\ Storing'
  BY <1>2, Parts, StillStoring DEF LookedUp
<1>6. PageOK' /\ WorkerOK' /\ records' \subseteq Jobs
  BY <1>4, Parts DEF LookedUp, PageOK, WorkerOK
<1>7. QED
  BY <1>3, <1>4, <1>5, <1>6, StepKeeps

\* The creation of a probe, or of a second one that the store refuses.
LEMMA CreatedKeeps ==
  ASSUME Inv, Created
  PROVE  Inv'
<1> DEFINE p == Head(saves).job
<1> USE DEF workerVars, ghosts
<1>1. /\ Consistent(memory, disk, Tail(saves), records, behind)
      /\ p \in Jobs
  <2>1. saves # <<>> /\ Head(saves).then = "created" /\ "created" \in Reads
    BY DEF Created, Reads
  <2>2. /\ Consistent(memory, Written(disk, Head(saves)), Tail(saves), records, behind)
        /\ Head(saves) \in Entry /\ EntryOK(Head(saves), disk, records)
    BY <2>1, WriteIsConsistent DEF Inv, Rows
  <2>3. QED
    BY <2>1, <2>2 DEF EntryOK, Written, Entry
<1>2. Consistent(memory', disk', saves', records', behind') /\ active' \in Jobs \cup {NoJob}
  <2> HIDE DEF p
  <2>1. active \in Jobs \cup {NoJob} /\ records' = records /\ behind' = behind
    BY Parts DEF PageOK, Created
  <2>2. CASE disk[p] = "absent"
    <3>1. /\ disk' = [disk EXCEPT ![p] = "queued"]
          /\ StartNextIf(playing, [memory EXCEPT ![p] = "queued"], active, Tail(saves))
      BY <2>2 DEF Created, StartNext, p
    <3>2. Consistent([memory EXCEPT ![p] = "queued"], [disk EXCEPT ![p] = "queued"],
                     Tail(saves), records, behind)
      BY <1>1, <2>2, CreatedIsConsistent
    <3>3. QED
      BY <2>1, <3>1, <3>2, StartNextIsConsistent
  <2>3. CASE disk[p] # "absent"
    BY <1>1, <2>1, <2>3 DEF Created, p
  <2>4. QED
    BY <2>2, <2>3
<1>3. \A j \in Jobs : disk[j] # "absent" => disk'[j] # "absent"
  BY DEF Created, Inv, TypeOK
<1>4. HandlerOK' /\ Storing'
  BY <1>3, Parts, StillStoring DEF Created
<1>5. PageOK' /\ WorkerOK' /\ GhostsOK' /\ records' \subseteq Jobs
  BY <1>2, Parts DEF Created, PageOK, WorkerOK, GhostsOK
<1>6. QED
  BY <1>2, <1>4, <1>5, StepKeeps

\* A command is accepted only from a job that is stored.
LEMMA CommandIsConsistent ==
  ASSUME Inv, NEW j \in Jobs, NEW event \in Events \ {"succeed"},
         NEW then \in Afterwards \ Reads, then = "pauseRequested" => j \in Derivatives,
         Transition(j, memory[j], event, then, saves)
  PROVE  Consistent(memory', disk, saves', records, behind)
<1>1. Consistent(memory, disk, saves, records, behind)
  BY DEF Inv, Rows
<1>2. memory[j] # "absent"
  BY EventFacts DEF Transition
<1>3. disk[j] # "absent"
  BY <1>1, <1>2 DEF Consistent
<1>4. QED
  BY <1>1, <1>3, TransitionIsConsistent

\* Cancel, pause, resume, retry and the start of playback.
LEMMA CommandKeeps ==
  ASSUME Inv, (\E j \in Jobs : Cancel(j) \/ Pause(j) \/ Requeue(j)) \/ PlaybackStarts
  PROVE  Inv'
<1> USE DEF workerVars, storeVars
<1>1. /\ {"cancelRequested", "pauseRequested", "requeued"} \subseteq Afterwards \ Reads
      /\ {"request_cancel", "request_pause", "resume", "retry"} \subseteq Events \ {"succeed"}
  BY DEF Afterwards, Reads, Events
<1>2. Consistent(memory', disk, saves', records, behind)
  <2>1. ASSUME NEW j \in Jobs, Cancel(j) \/ Pause(j)
        PROVE  Consistent(memory', disk, saves', records, behind)
    BY <1>1, <2>1, CommandIsConsistent DEF Cancel, Pause
  <2>2. ASSUME NEW j \in Jobs, Requeue(j)
        PROVE  Consistent(memory', disk, saves', records, behind)
    BY <1>1, <2>2, CommandIsConsistent DEF Requeue
  <2>3. CASE PlaybackStarts
    <3>1. CASE active \in Derivatives /\ memory[active] = "running"
      <4>1. active \in Jobs /\ active \in Derivatives
            /\ Transition(active, memory[active], "request_pause", "pauseRequested", saves)
        BY <2>3, <3>1 DEF PlaybackStarts, Derivatives
      <4>2. QED
        BY <1>1, <4>1, CommandIsConsistent
    <3>2. CASE ~(active \in Derivatives /\ memory[active] = "running")
      BY <2>3, <3>2 DEF PlaybackStarts, Inv, Rows
    <3>3. QED
      BY <3>1, <3>2
  <2>4. QED
    BY <2>1, <2>2, <2>3
<1>3. /\ UNCHANGED <<disk, records, behind, active, pauseIntent, handler, inbox, requests,
                     runs, cancellation, workerUp, imported, faults>>
      /\ asked' = asked + 1 /\ asked < MaxAsks
      /\ playing' = playing \/ playing' = TRUE
  BY DEF Cancel, Pause, Requeue, PlaybackStarts, Ask
<1>4. HandlerOK' /\ Storing'
  BY <1>3, Parts, StillStoring
<1>5. PageOK' /\ WorkerOK' /\ records' \subseteq Jobs
  BY <1>3, Parts DEF PageOK, WorkerOK
<1>6. GhostsOK'
  BY <1>3, BoundsAssumption, Parts DEF GhostsOK
<1>7. Consistent(memory', disk', saves', records', behind')
  BY <1>2, <1>3
<1>8. QED
  BY <1>4, <1>5, <1>6, <1>7, StepKeeps

\* A cancel goes on: to the worker, or to the end of a job that is not active.
LEMMA CancelRequestedKeeps ==
  ASSUME Inv, CancelRequested
  PROVE  Inv'
<1> DEFINE j == Head(saves).job
<1> USE DEF workerVars
<1>1. /\ j \in Jobs /\ Consistent(memory, disk', Tail(saves), records, behind)
      /\ disk'[j] # "absent"
      /\ \A i \in Jobs : disk[i] # "absent" => disk'[i] # "absent"
  BY Resumed DEF CancelRequested, Reads
<1>2. UNCHANGED <<records, active, playing, pauseIntent, handler, inbox, runs, cancellation,
                  workerUp, behind, imported, asked, faults>>
  BY DEF CancelRequested, ghosts
<1>3. /\ Consistent(memory', disk', saves', records, behind)
      /\ requests' \in Seq([type : {"run", "cancel"}, job : Jobs])
  <2> HIDE DEF j
  <2>1. CASE active = j
    <3>1. Post("cancel", j) /\ saves' = Tail(saves) /\ memory' = memory
      BY <2>1 DEF CancelRequested, j
    <3>2. QED
      BY <1>1, <3>1, PostTypes, Parts
  <2>2. CASE active # j
    <3>1. /\ Transition(j, "cancelling", "confirm_cancelled", "cancelConfirmed", Tail(saves))
          /\ requests' = requests
      BY <2>2 DEF CancelRequested, j
    <3>2. "confirm_cancelled" \in Events \ {"succeed"} /\ "cancelConfirmed" \in Afterwards \ Reads
      BY DEF Events, Afterwards, Reads
    <3>3. Consistent(memory', disk', saves', records, behind)
      BY <1>1, <3>1, <3>2, TransitionIsConsistent
    <3>4. QED
      BY <3>1, <3>3, Parts DEF WorkerOK
  <2>3. QED
    BY <2>1, <2>2
<1>4. HandlerOK' /\ Storing'
  BY <1>1, <1>2, Parts, StillStoring
<1>5. PageOK' /\ WorkerOK' /\ GhostsOK' /\ records' \subseteq Jobs
  BY <1>2, <1>3, Parts DEF PageOK, WorkerOK, GhostsOK
<1>6. Consistent(memory', disk', saves', records', behind')
  BY <1>2, <1>3
<1>7. QED
  BY <1>4, <1>5, <1>6, StepKeeps

\* What the functions do that only start the next job when they go on.
LEMMA GoOnKeeps ==
  ASSUME Inv, NEW then \in Afterwards \ Reads, Resumes(then),
         NEW a \in Jobs \cup {NoJob}, StartNext(memory, a, Tail(saves)),
         HandlerOK', handler'.pc = "storing" => handler' = handler,
         workerUp' \in BOOLEAN,
         UNCHANGED <<playing, pauseIntent, records, inbox, requests, runs, cancellation,
                     behind, imported, asked, faults>>
  PROVE  Inv'
<1>1. /\ Consistent(memory, disk', Tail(saves), records, behind)
      /\ \A i \in Jobs : disk[i] # "absent" => disk'[i] # "absent"
  BY Resumed
<1>2. Consistent(memory', disk', saves', records, behind) /\ active' \in Jobs \cup {NoJob}
  BY <1>1, StartNextIsConsistent DEF StartNext
<1>3. Storing'
  <2>1. CASE handler' = handler
    BY <1>1, <2>1, Parts, StillStoring
  <2>2. CASE handler'.pc # "storing"
    BY <2>2 DEF Storing
  <2>3. QED
    BY <2>1, <2>2
<1>4. PageOK' /\ WorkerOK' /\ GhostsOK' /\ records' \subseteq Jobs
  BY <1>2, Parts DEF PageOK, WorkerOK, GhostsOK
<1>5. Consistent(memory', disk', saves', records', behind')
  BY <1>2
<1>6. QED
  BY <1>3, <1>4, <1>5, StepKeeps

\* A worker's message that is handled leaves the chain at rest.
LEMMA RestingTypes == Resting \in [pc : {"idle", "storing", "saving", "enqueueing"},
  job : Jobs \cup {NoJob}, seen : States, todo : SUBSET Derivatives]
  BY DEF Resting, States

\* The functions that start the next job when they go on.
LEMMA StartersKeep ==
  ASSUME Inv, CancelConfirmed \/ Requeued \/ Handled \/ Crashed
  PROVE  Inv'
<1> USE DEF workerVars, ghosts
<1>1. {"cancelConfirmed", "requeued", "handled", "crashed"} \subseteq Afterwards \ Reads
  BY DEF Afterwards, Reads
<1>2. active \in Jobs \cup {NoJob} /\ HandlerOK /\ workerUp \in BOOLEAN
  BY Parts DEF PageOK, WorkerOK
<1>3. CASE CancelConfirmed
  <2> DEFINE a == IF active = Head(saves).job THEN NoJob ELSE active
  <2>1. /\ Resumes("cancelConfirmed") /\ StartNext(memory, a, Tail(saves))
        /\ handler' = handler /\ workerUp' = workerUp
        /\ UNCHANGED <<playing, pauseIntent, records, inbox, requests, runs, cancellation,
                       behind, imported, asked, faults>>
    BY <1>3 DEF CancelConfirmed
  <2>2. a \in Jobs \cup {NoJob} /\ HandlerOK' /\ workerUp' \in BOOLEAN
    BY <1>2, <2>1 DEF HandlerOK
  <2> HIDE DEF a
  <2>3. QED
    BY <1>1, <2>1, <2>2, GoOnKeeps
<1>4. CASE Requeued
  <2>1. /\ Resumes("requeued") /\ StartNext(memory, active, Tail(saves))
        /\ handler' = handler /\ workerUp' = workerUp
        /\ UNCHANGED <<playing, pauseIntent, records, inbox, requests, runs, cancellation,
                       behind, imported, asked, faults>>
    BY <1>4 DEF Requeued
  <2>2. HandlerOK' /\ workerUp' \in BOOLEAN
    BY <1>2, <2>1 DEF HandlerOK
  <2>3. QED
    BY <1>1, <1>2, <2>1, <2>2, GoOnKeeps
<1>5. CASE Handled
  <2>1. /\ Resumes("handled") /\ StartNext(memory, NoJob, Tail(saves))
        /\ handler' = Resting /\ workerUp' = workerUp
        /\ UNCHANGED <<playing, pauseIntent, records, inbox, requests, runs, cancellation,
                       behind, imported, asked, faults>>
    BY <1>5 DEF Handled
  <2>2. HandlerOK' /\ workerUp' \in BOOLEAN /\ handler'.pc # "storing"
    BY <1>2, <2>1, RestingTypes DEF HandlerOK, Resting
  <2>3. QED
    BY <1>1, <2>1, <2>2, GoOnKeeps
<1>6. CASE Crashed
  <2>1. /\ Resumes("crashed") /\ StartNext(memory, NoJob, Tail(saves))
        /\ handler' = handler /\ workerUp' = TRUE
        /\ UNCHANGED <<playing, pauseIntent, records, inbox, requests, runs, cancellation,
                       behind, imported, asked, faults>>
    BY <1>6 DEF Crashed
  <2>2. HandlerOK' /\ workerUp' \in BOOLEAN
    BY <1>2, <2>1 DEF HandlerOK
  <2>3. QED
    BY <1>1, <2>1, <2>2, GoOnKeeps
<1>7. QED
  BY <1>3, <1>4, <1>5, <1>6

\* A finite set as a sequence: every element, once.
LEMMA SequenceOfSet ==
  ASSUME NEW S, IsFiniteSet(S)
  PROVE  /\ SetToSeq(S) \in Seq(S)
         /\ \A x \in S : \E i \in 1..Len(SetToSeq(S)) : SetToSeq(S)[i] = x
         /\ \A i, k \in 1..Len(SetToSeq(S)) : SetToSeq(S)[i] = SetToSeq(S)[k] => i = k
<1> DEFINE n == Cardinality(S)
           s == SetToSeq(S)
<1>1. n \in Nat /\ ExistsBijection(1..n, S)
  BY FS_CardinalityType
<1>2. \E f \in [1..n -> S] : IsInjective(f)
  BY <1>1 DEF ExistsBijection, Bijection, Injection
<1>3. s \in [1..n -> S] /\ IsInjective(s)
  BY <1>2 DEF SetToSeq
<1>4. Cardinality(1..n) = n
  BY <1>1, FS_Interval
<1> HIDE DEF s
<1>5. s \in Surjection(1..n, S)
  <2>1. s \in Injection(1..n, S)
    BY <1>3 DEF Injection
  <2> HIDE DEF n
  <2>2. Cardinality(1..n) = Cardinality(S) <=> s \in Surjection(1..n, S)
    BY <2>1, FS_Injection
  <2>3. QED
    BY <2>2, <1>4 DEF n
<1> HIDE DEF n
<1>6. s \in Seq(S) /\ Len(s) = n
  BY <1>1, <1>3
<1>7. \A x \in S : \E i \in 1..n : s[i] = x
  BY <1>5 DEF Surjection
<1>8. \A i, k \in 1..n : s[i] = s[k] => i = k
  BY <1>3 DEF IsInjective
<1>9. QED
  BY <1>6, <1>7, <1>8 DEF s

\* Two sequences in a row.
LEMMA SeqConcat ==
  ASSUME NEW S, NEW q \in Seq(S), NEW s \in Seq(S)
  PROVE  /\ q \o s \in Seq(S) /\ Len(q) \in Nat /\ Len(s) \in Nat
         /\ Len(q \o s) = Len(q) + Len(s)
         /\ \A i \in 1..Len(q) : (q \o s)[i] = q[i]
         /\ \A i \in 1..Len(s) : (q \o s)[Len(q) + i] = s[i]
  OBVIOUS

\* All jobs of a set are queued again at once.
LEMMA RequeuedIsConsistent ==
  ASSUME NEW m, NEW d, NEW q, NEW r, NEW b, Consistent(m, d, q, r, b),
         NEW W \in SUBSET Jobs, \A j \in W : d[j] # "absent",
         NEW s, s \in Seq(Entry),
         \A i \in 1..Len(s) : \E j \in W : s[i] = Await(j, "queued", "requeued"),
         \A j \in W : \E i \in 1..Len(s) : s[i] = Await(j, "queued", "requeued"),
         \A i, k \in 1..Len(s) : s[i] = s[k] => i = k,
         NEW mm \in [Jobs -> States],
         \A j \in Jobs : IF j \in W THEN mm[j] = "queued" ELSE mm[j] = m[j]
  PROVE  Consistent(mm, d, q \o s, r, b)
<1> DEFINE qq == q \o s
<1>1. \A j \in W : /\ Await(j, "queued", "requeued") \in Entry
                   /\ EntryOK(Await(j, "queued", "requeued"), d, r)
                   /\ Await(j, "queued", "requeued").job = j
                   /\ Await(j, "queued", "requeued").row = "queued"
  BY DEF Await, Entry, EntryOK, States, Afterwards, Reads
<1>3. \A i \in 1..Len(s) : /\ s[i] \in Entry /\ EntryOK(s[i], d, r)
                           /\ s[i].job \in W /\ s[i].row = "queued"
                           /\ s[i] = Await(s[i].job, "queued", "requeued")
  <2> SUFFICES ASSUME NEW i \in 1..Len(s)
               PROVE  /\ s[i] \in Entry /\ EntryOK(s[i], d, r)
                      /\ s[i].job \in W /\ s[i].row = "queued"
                      /\ s[i] = Await(s[i].job, "queued", "requeued")
    OBVIOUS
  <2>1. PICK j \in W : s[i] = Await(j, "queued", "requeued")
    OBVIOUS
  <2>2. QED
    BY <1>1, <2>1
<1>4. s \in Seq(Entry) /\ q \in Seq(Entry)
  BY DEF Consistent
<1>5. /\ qq \in Seq(Entry) /\ Len(qq) = Len(q) + Len(s)
      /\ Len(q) \in Nat /\ Len(s) \in Nat
      /\ \A i \in 1..Len(q) : qq[i] = q[i]
      /\ \A i \in 1..Len(s) : qq[Len(q) + i] = s[i]
  BY <1>4, SeqConcat
<1>6. /\ mm \in [Jobs -> States]
      /\ \A j \in Jobs : /\ j \in W => mm[j] = "queued"
                         /\ j \notin W => mm[j] = m[j]
  BY DEF Consistent, States
<1> HIDE DEF qq
<1>7. \A i \in 1..Len(qq) : \/ i \in 1..Len(q)
                            \/ \E k \in 1..Len(s) : i = Len(q) + k
  <2> SUFFICES ASSUME NEW i \in 1..Len(qq), i \notin 1..Len(q)
               PROVE  \E k \in 1..Len(s) : i = Len(q) + k
    OBVIOUS
  <2>1. i - Len(q) \in 1..Len(s) /\ i = Len(q) + (i - Len(q))
    BY <1>5
  <2>2. QED
    BY <2>1
<1>8. ASSUME NEW i \in 1..Len(qq) PROVE EntryOK(qq[i], d, r)
  <2>1. CASE i \in 1..Len(q)
    BY <1>5, <2>1 DEF Consistent
  <2>2. CASE \E k \in 1..Len(s) : i = Len(q) + k
    <3>1. PICK k \in 1..Len(s) : i = Len(q) + k
      BY <2>2
    <3>2. qq[i] = s[k]
      BY <1>5, <3>1
    <3>3. QED
      BY <1>3, <3>2
  <2>3. QED
    BY <1>7, <2>1, <2>2
<1>9. ASSUME NEW j \in Jobs, j \notin b PROVE LastRowIs(mm[j], j, d[j], qq)
  <2>1. CASE j \in W
    <3>1. PICK i \in 1..Len(s) : s[i] = Await(j, "queued", "requeued")
      BY <2>1
    <3>2. ASSUME NEW k \in 1..Len(qq), k > Len(q) + i, qq[k].job = j
          PROVE  FALSE
      <4>1. PICK n \in 1..Len(s) : k = Len(q) + n
        <5>1. k \notin 1..Len(q)
          BY <1>5, <3>2
        <5>2. QED
          BY <1>7, <5>1
      <4>2. qq[k] = s[n]
        BY <1>5, <4>1
      <4>3. s[n] = Await(j, "queued", "requeued")
        BY <1>3, <3>2, <4>2
      <4>4. n = i
        BY <3>1, <4>3
      <4>5. QED
        BY <3>2, <4>1, <4>4, <1>5
    <3>3. qq[Len(q) + i].job = j /\ qq[Len(q) + i].row = mm[j] /\ Len(q) + i \in 1..Len(qq)
      <4>1. qq[Len(q) + i] = s[i]
        BY <1>5
      <4>2. Len(q) + i \in 1..Len(qq)
        BY <1>5
      <4>3. QED
        BY <1>1, <1>6, <2>1, <3>1, <4>1, <4>2
    <3>4. QED
      BY <3>2, <3>3 DEF LastRowIs
  <2>2. CASE j \notin W
    <3>1. LastRowIs(m[j], j, d[j], q) /\ mm[j] = m[j]
      BY <1>6, <1>9, <2>2 DEF Consistent
    <3>2. \A k \in 1..Len(s) : qq[Len(q) + k].job # j
      <4>1. \A k \in 1..Len(s) : s[k].job # j
        BY <1>3, <2>2
      <4>2. \A k \in 1..Len(s) : qq[Len(q) + k] = s[k]
        BY <1>5
      <4>3. QED
        BY <4>1, <4>2
    <3>3. ASSUME NEW k \in 1..Len(qq), qq[k].job = j PROVE k \in 1..Len(q)
      <4>1. ASSUME NEW n \in 1..Len(s), k = Len(q) + n PROVE FALSE
        BY <3>2, <3>3, <4>1
      <4>2. QED
        BY <1>7, <4>1
    <3>4. CASE d[j] = m[j] /\ \A i \in 1..Len(q) : q[i].job = j => q[i].row = "none"
      BY <1>5, <3>1, <3>3, <3>4 DEF LastRowIs
    <3>5. ASSUME NEW i \in 1..Len(q), q[i].job = j, q[i].row = m[j],
                 \A k \in 1..Len(q) : k > i /\ q[k].job = j => q[k].row = "none"
          PROVE  LastRowIs(mm[j], j, d[j], qq)
      <4>1. i \in 1..Len(qq) /\ qq[i] = q[i]
        BY <1>5
      <4>2. \A k \in 1..Len(qq) : k > i /\ qq[k].job = j => qq[k].row = "none"
        BY <1>5, <3>3, <3>5
      <4>3. QED
        BY <3>1, <3>5, <4>1, <4>2 DEF LastRowIs
    <3>6. QED
      BY <3>1, <3>4, <3>5 DEF LastRowIs
  <2>3. QED
    BY <2>1, <2>2
<1>10. \A j \in Jobs : mm[j] # "absent" => d[j] # "absent"
  BY <1>6 DEF Consistent
<1>11. \A j \in Jobs : mm[j] = "succeeded" \/ d[j] = "succeeded" => j \in r
  BY <1>6 DEF Consistent
<1>12. Consistent(mm, d, qq, r, b)
  BY <1>5, <1>6, <1>8, <1>9, <1>10, <1>11 DEF Consistent
<1>13. QED
  BY <1>12 DEF qq

\* The end of playback.
LEMMA PlaybackStopsKeeps ==
  ASSUME Inv, PlaybackStops
  PROVE  Inv'
<1> DEFINE W == {j \in pauseIntent : memory[j] = "paused"}
           rows == {Await(j, "queued", "requeued") : j \in W}
           m == [j \in Jobs |-> IF j \in W THEN "queued" ELSE memory[j]]
<1> USE DEF workerVars, storeVars
<1>1. /\ UNCHANGED <<disk, records, behind, handler, inbox, requests,
                     runs, cancellation, workerUp, imported, faults>>
      /\ asked' = asked + 1 /\ asked < MaxAsks
      /\ playing' = FALSE /\ pauseIntent' = pauseIntent \ W
      /\ StartNextIf(FALSE, m, active, saves \o SetToSeq(rows))
  BY DEF PlaybackStops, Ask
<1>2. /\ Consistent(memory, disk, saves, records, behind)
      /\ pauseIntent \subseteq Jobs /\ active \in Jobs \cup {NoJob}
  BY Parts DEF Rows, PageOK, Derivatives
<1>3. W \subseteq Jobs /\ \A j \in W : disk[j] # "absent"
  BY <1>2 DEF Consistent
<1>4. IsFiniteSet(rows)
  <2> DEFINE f == [e \in rows |-> e.job]
  <2>1. \A j \in W : Await(j, "queued", "requeued").job = j
    BY DEF Await
  <2>2. f \in Injection(rows, Jobs)
    BY <1>3, <2>1 DEF Injection, IsInjective
  <2> HIDE DEF f, rows
  <2>3. QED
    BY <2>2, FS_Injection, JobsAssumption
<1>5. /\ SetToSeq(rows) \in Seq(rows)
      /\ \A x \in rows : \E i \in 1..Len(SetToSeq(rows)) : SetToSeq(rows)[i] = x
      /\ \A i, k \in 1..Len(SetToSeq(rows)) : SetToSeq(rows)[i] = SetToSeq(rows)[k] => i = k
  <2> HIDE DEF rows
  <2>1. QED
    BY <1>4, SequenceOfSet
<1>6. \A j \in W : \E i \in 1..Len(SetToSeq(rows)) :
        SetToSeq(rows)[i] = Await(j, "queued", "requeued")
  BY ZenonT(40), <1>5
<1>7. Consistent(m, disk, saves \o SetToSeq(rows), records, behind)
  <2> DEFINE s == SetToSeq(rows)
  <2>1. \A j \in W : Await(j, "queued", "requeued") \in Entry
    BY <1>3 DEF Await, Entry, States, Afterwards
  <2>2. rows \subseteq Entry
    BY <2>1
  <2>3. s \in Seq(rows)
    BY <1>5
  <2> HIDE DEF s
  <2>4. /\ s \in Seq(Entry)
        /\ \A i \in 1..Len(s) : \E j \in W : s[i] = Await(j, "queued", "requeued")
    <3>1. \A x \in rows : \E j \in W : x = Await(j, "queued", "requeued")
      OBVIOUS
    <3> HIDE DEF rows
    <3>2. \A i \in 1..Len(s) : s[i] \in rows
      BY <2>3
    <3>3. s \in Seq(Entry)
      BY <2>2, <2>3
    <3>4. QED
      BY <3>1, <3>2, <3>3
  <2>5. /\ \A j \in W : \E i \in 1..Len(s) : s[i] = Await(j, "queued", "requeued")
        /\ \A i, k \in 1..Len(s) : s[i] = s[k] => i = k
    BY <1>5, <1>6 DEF s
  <2> HIDE DEF W, rows
  <2>6. /\ W \in SUBSET Jobs /\ m \in [Jobs -> States]
        /\ \A j \in Jobs : IF j \in W THEN m[j] = "queued" ELSE m[j] = memory[j]
    BY <1>2, <1>3 DEF Consistent, States
  <2> HIDE DEF m
  <2>7. Consistent(m, disk, saves \o s, records, behind)
    BY <1>2, <1>3, <2>4, <2>5, <2>6, RequeuedIsConsistent
  <2>8. QED
    BY <2>7 DEF s
<1> HIDE DEF m, rows
<1>8. Consistent(memory', disk', saves', records', behind') /\ active' \in Jobs \cup {NoJob}
  BY <1>1, <1>2, <1>7, StartNextIsConsistent
<1>9. HandlerOK' /\ Storing'
  BY <1>1, Parts, StillStoring
<1>10. PageOK' /\ WorkerOK' /\ records' \subseteq Jobs
  BY <1>1, <1>8, Parts DEF PageOK, WorkerOK
<1>11. GhostsOK'
  BY <1>1, BoundsAssumption, Parts DEF GhostsOK
<1>12. QED
  BY <1>8, <1>9, <1>10, <1>11, StepKeeps

\* A pause goes on to the worker, and a started job too.
LEMMA PostersKeep ==
  ASSUME Inv, PauseRequested \/ Started
  PROVE  Inv'
<1> DEFINE j == Head(saves).job
<1> USE DEF workerVars, ghosts
<1>1. PICK then \in {"pauseRequested", "started"}, type \in {"run", "cancel"} :
        /\ Resumes(then) /\ Post(type, j) /\ saves' = Tail(saves)
        /\ then = "started" => pauseIntent' = pauseIntent
        /\ then = "pauseRequested" => pauseIntent' = pauseIntent \cup {j} /\ type = "cancel"
  BY DEF PauseRequested, Started
<1>2. UNCHANGED <<memory, active, playing, handler, records, inbox, runs, cancellation,
                  workerUp, behind, imported, asked, faults>>
  BY DEF PauseRequested, Started
<1>3. /\ j \in Jobs /\ Consistent(memory, disk', Tail(saves), records, behind)
      /\ \A i \in Jobs : disk[i] # "absent" => disk'[i] # "absent"
  BY <1>1, Resumed
<1>4. then = "pauseRequested" => j \in Derivatives
  <2>1. /\ saves # <<>> /\ Head(saves).then = then
        /\ Consistent(memory, disk, saves, records, behind)
    BY <1>1, Resumed DEF Inv, Rows
  <2>2. EntryOK(Head(saves), disk, records)
    BY <2>1, WriteIsConsistent
  <2>3. QED
    BY <2>1, <2>2 DEF EntryOK
<1> HIDE DEF j
<1>5. requests' \in Seq([type : {"run", "cancel"}, job : Jobs])
  BY <1>1, <1>3, PostTypes, Parts
<1>6. HandlerOK' /\ Storing'
  BY <1>2, <1>3, Parts, StillStoring
<1>7. PageOK' /\ WorkerOK' /\ GhostsOK' /\ records' \subseteq Jobs
  BY <1>1, <1>2, <1>4, <1>5, Parts DEF PageOK, WorkerOK, GhostsOK
<1>8. Consistent(memory', disk', saves', records', behind')
  BY <1>1, <1>2, <1>3
<1>9. QED
  BY <1>6, <1>7, <1>8, StepKeeps

\* The second save of startNext, from the object it holds.
LEMMA PreparedKeeps ==
  ASSUME Inv, Prepared
  PROVE  Inv'
<1> DEFINE j == Head(saves).job
<1> USE DEF workerVars, ghosts
<1>1. /\ Resumes("prepared") /\ "prepared" \notin Reads
      /\ Transition(j, "preparing", "start_running", "started", Tail(saves))
      /\ UNCHANGED <<active, playing, pauseIntent, handler, records, inbox, requests,
                     runs, cancellation, workerUp, behind, imported, asked, faults>>
  BY DEF Prepared, Reads
<1>2. /\ j \in Jobs /\ Consistent(memory, disk', Tail(saves), records, behind)
      /\ disk'[j] # "absent"
      /\ \A i \in Jobs : disk[i] # "absent" => disk'[i] # "absent"
  BY <1>1, Resumed
<1> HIDE DEF j
<1>3. /\ "start_running" \in Events /\ "started" \in Afterwards \ Reads
      /\ "start_running" # "succeed" /\ "started" # "pauseRequested"
  BY DEF Events, Afterwards, Reads
<1>4. Consistent(memory', disk', saves', records, behind)
  BY <1>1, <1>2, <1>3, TransitionIsConsistent
<1>5. HandlerOK' /\ Storing'
  BY <1>1, <1>2, Parts, StillStoring
<1>6. PageOK' /\ WorkerOK' /\ GhostsOK' /\ records' \subseteq Jobs
  BY <1>1, Parts DEF PageOK, WorkerOK, GhostsOK
<1>7. Consistent(memory', disk', saves', records', behind')
  BY <1>1, <1>4
<1>8. QED
  BY <1>5, <1>6, <1>7, StepKeeps

\* A message is taken from the worker's inbox.
LEMMA TakeMessageKeeps ==
  ASSUME Inv, TakeMessage
  PROVE  Inv'
<1> DEFINE message == Head(inbox)
           j == message.job
           event == IF message.type = "failed" THEN "fail"
                    ELSE IF j \in pauseIntent THEN "confirm_paused" ELSE "confirm_cancelled"
           stored == [pc |-> "storing", job |-> j, seen |-> memory[j], todo |-> {}]
           saving == [pc |-> "saving", job |-> j, seen |-> memory[j], todo |-> {}]
<1> USE DEF workerVars, storeVars, ghosts
<1>1. /\ inbox # <<>> /\ inbox' = Tail(inbox)
      /\ UNCHANGED <<active, playing, pauseIntent, disk, records, requests, runs,
                     cancellation, workerUp, behind, imported, asked, faults>>
      /\ \/ handler' = stored /\ memory' = memory /\ saves' = saves
         \/ handler' = saving /\ Transition(j, memory[j], event, "handled", saves)
         \/ handler' = handler /\ memory' = memory /\ saves' = saves
  BY DEF TakeMessage
<1>2. /\ inbox' \in Seq([type : {"succeeded", "failed", "cancelled"}, job : Jobs])
      /\ message \in [type : {"succeeded", "failed", "cancelled"}, job : Jobs]
  BY <1>1, SeqTail, Parts DEF WorkerOK
<1>3. j \in Jobs
  BY <1>2
<1>4. /\ event \in Events \ {"succeed"} /\ "handled" \in Afterwards \ Reads
      /\ "handled" # "pauseRequested"
  BY DEF Events, Afterwards, Reads
<1>5. /\ Consistent(memory, disk, saves, records, behind)
      /\ memory[j] \in States
      /\ memory[j] # "absent" => disk[j] # "absent"
  BY <1>3 DEF Inv, Rows, Consistent
<1> HIDE DEF j, event
<1>6. Consistent(memory', disk', saves', records', behind')
  <2>1. CASE Transition(j, memory[j], event, "handled", saves)
    <3>1. Consistent(memory', disk, saves', records, behind)
      BY <1>3, <1>4, <2>1, CommandIsConsistent
    <3>2. QED
      BY <1>1, <3>1
  <2>2. CASE memory' = memory /\ saves' = saves
    BY <1>1, <1>5, <2>2
  <2>3. QED
    BY <1>1, <2>1, <2>2
<1>7. HandlerOK' /\ Storing'
  <2>1. stored \in [pc : {"idle", "storing", "saving", "enqueueing"},
                    job : Jobs \cup {NoJob}, seen : States, todo : SUBSET Derivatives]
    BY <1>3, <1>5
  <2>2. saving \in [pc : {"idle", "storing", "saving", "enqueueing"},
                    job : Jobs \cup {NoJob}, seen : States, todo : SUBSET Derivatives]
    BY <1>3, <1>5
  <2>3. stored.job = j /\ stored.seen = memory[j] /\ saving.pc = "saving"
    OBVIOUS
  <2> HIDE DEF stored, saving
  <2>4. CASE handler' = stored
    BY <1>1, <1>3, <1>5, <2>1, <2>3, <2>4 DEF HandlerOK, Storing
  <2>5. CASE handler' = saving
    BY <2>2, <2>3, <2>5 DEF HandlerOK, Storing
  <2>6. CASE handler' = handler
    BY <1>1, <2>6, Parts, StillStoring
  <2>7. QED
    BY <1>1, <2>4, <2>5, <2>6
<1>8. PageOK' /\ WorkerOK' /\ GhostsOK' /\ records' \subseteq Jobs
  BY <1>1, <1>2, Parts DEF PageOK, WorkerOK, GhostsOK
<1>9. QED
  BY <1>6, <1>7, <1>8, StepKeeps

\* One more record in the store disturbs nothing.
LEMMA RecordedIsConsistent ==
  ASSUME NEW m, NEW d, NEW q, NEW r, NEW b, Consistent(m, d, q, r, b), NEW s, r \subseteq s
  PROVE  Consistent(m, d, q, s, b)
<1>1. \A i \in 1..Len(q) : EntryOK(q[i], d, s)
  BY DEF Consistent, EntryOK
<1>2. QED
  BY <1>1 DEF Consistent

\* The record of a success is saved, and then the job that made it.
LEMMA StoreRecordKeeps ==
  ASSUME Inv, StoreRecord
  PROVE  Inv'
<1> DEFINE j == handler.job
           seen == handler.seen
           event == IF seen \in Accepts.succeed THEN "succeed" ELSE "fail"
           then == IF j \in Probes /\ event = "succeed" THEN "probed" ELSE "handled"
<1> USE DEF workerVars, ghosts
<1>1. /\ handler.pc = "storing" /\ records' = Stored(j)
      /\ UNCHANGED <<active, playing, pauseIntent, disk, inbox, requests, runs,
                     cancellation, workerUp, behind, imported, asked, faults>>
      /\ \/ /\ seen \in Accepts[event]
            /\ Transition(j, seen, event, then, saves)
            /\ handler' = [handler EXCEPT !.pc = "saving"]
         \/ handler' = Resting /\ memory' = memory /\ saves' = saves
  BY DEF StoreRecord, Transition
<1>2. /\ j \in Jobs /\ HandlerOK
      /\ seen # "absent" => disk[j] # "absent"
      /\ Consistent(memory, disk, saves, records, behind)
      /\ records \subseteq Jobs
  BY <1>1, Parts DEF Storing, Rows
<1>3. records' = records \cup {j}
  BY <1>1 DEF Stored
<1>4. /\ event \in Events /\ then \in Afterwards \ Reads
      /\ then # "pauseRequested"
  BY DEF Events, Afterwards, Reads
<1> HIDE DEF j, seen, event, then
<1>5. Consistent(memory, disk, saves, records', behind)
  BY <1>2, <1>3, RecordedIsConsistent
<1>6. Consistent(memory', disk', saves', records', behind')
  <2>1. CASE seen \in Accepts[event] /\ Transition(j, seen, event, then, saves)
    <3>1. disk[j] # "absent" /\ j \in records'
      BY <1>2, <1>3, <1>4, <2>1, EventFacts
    <3>2. Consistent(memory', disk, saves', records', behind)
      BY <1>2, <1>4, <1>5, <2>1, <3>1, TransitionIsConsistent
    <3>3. QED
      BY <1>1, <3>2
  <2>2. CASE memory' = memory /\ saves' = saves
    BY <1>1, <1>5, <2>2
  <2>3. QED
    BY <1>1, <2>1, <2>2
<1>7. HandlerOK' /\ Storing'
  <2>1. CASE handler' = [handler EXCEPT !.pc = "saving"]
    BY <1>2, <2>1 DEF HandlerOK, Storing
  <2>2. CASE handler' = Resting
    <3>1. HandlerOK'
      BY <2>2, RestingTypes DEF HandlerOK
    <3>2. QED
      BY <2>2, <3>1 DEF Storing, Resting
  <2>3. QED
    BY <1>1, <2>1, <2>2
<1>8. PageOK' /\ WorkerOK' /\ GhostsOK' /\ records' \subseteq Jobs
  BY <1>1, <1>2, <1>3, Parts DEF PageOK, WorkerOK, GhostsOK
<1>9. QED
  BY <1>6, <1>7, <1>8, StepKeeps

\* There is a derivative of the highest priority to enqueue next.
LEMMA NextDerivativeExists ==
  ASSUME NEW todo \in SUBSET Derivatives, todo # {}
  PROVE  NextDerivative(todo) \in todo
<1>1. \A d \in todo : Kind[d] \in {"probe", "proxy", "waveform"}
  BY JobsAssumption DEF Derivatives
<1>2. \E d \in todo : \A k \in todo : Priority[Kind[d]] <= Priority[Kind[k]]
  <2>1. CASE \E d \in todo : Kind[d] = "probe"
    BY <1>1, <2>1 DEF Priority
  <2>2. CASE ~(\E d \in todo : Kind[d] = "probe") /\ \E d \in todo : Kind[d] = "proxy"
    BY <1>1, <2>2 DEF Priority
  <2>3. CASE \A d \in todo : Kind[d] = "waveform"
    BY <2>3 DEF Priority
  <2>4. QED
    BY <1>1, <2>1, <2>2, <2>3
<1>3. QED
  BY <1>2 DEF NextDerivative

\* enqueueDerivatives goes on, or ends and starts the next job.
LEMMA EnqueueFromKeeps ==
  ASSUME Inv, NEW todo \in SUBSET Derivatives, NEW m, NEW q,
         Consistent(m, disk', q, records, behind'), EnqueueFrom(todo, m, q), GhostsOK',
         UNCHANGED <<playing, pauseIntent, records, inbox, requests, runs, cancellation,
                     workerUp>>
  PROVE  Inv'
<1>1. /\ Consistent(memory', disk', saves', records, behind')
      /\ active' \in Jobs \cup {NoJob}
  <2>1. CASE todo = {}
    <3>1. StartNextIf(playing, m, NoJob, q)
      BY <2>1 DEF EnqueueFrom, StartNext
    <3>2. QED
      BY <3>1, StartNextIsConsistent
  <2>2. CASE todo # {}
    <3>1. NextDerivative(todo) \in Jobs
      BY <2>2, NextDerivativeExists DEF Derivatives
    <3>2. /\ memory' = m /\ active' = active
          /\ saves' = Append(q, Await(NextDerivative(todo), "none", "enqueued"))
      BY <2>2 DEF EnqueueFrom
    <3>3. "enqueued" \in Reads
      BY DEF Reads
    <3>4. Consistent(m, disk', saves', records, behind')
      BY <3>1, <3>2, <3>3, ReadIsConsistent
    <3>5. QED
      BY <3>2, <3>4, Parts DEF PageOK
  <2>3. QED
    BY <2>1, <2>2
<1>2. HandlerOK' /\ Storing'
  <2>1. CASE handler' = Resting
    <3>1. HandlerOK'
      BY <2>1, RestingTypes DEF HandlerOK
    <3>2. QED
      BY <2>1, <3>1 DEF Storing, Resting
  <2>2. CASE handler' = [handler EXCEPT !.pc = "enqueueing", !.todo = todo]
    BY <2>2, Parts DEF HandlerOK, Storing
  <2>3. QED
    BY <2>1, <2>2 DEF EnqueueFrom
<1>3. PageOK' /\ WorkerOK' /\ records' \subseteq Jobs
  BY <1>1, Parts DEF PageOK, WorkerOK
<1>4. Consistent(memory', disk', saves', records', behind')
  BY <1>1
<1>5. QED
  BY <1>2, <1>3, <1>4, StepKeeps

\* The probe is saved: its derivatives are enqueued.
LEMMA ProbedKeeps ==
  ASSUME Inv, Probed
  PROVE  Inv'
<1> DEFINE j == Head(saves).job
<1> USE DEF workerVars, ghosts
<1>1. /\ Resumes("probed") /\ EnqueueFrom(Plan[j] \ records, memory, Tail(saves))
      /\ UNCHANGED <<playing, pauseIntent, records, inbox, requests, runs, cancellation,
                     workerUp>>
      /\ UNCHANGED <<behind, imported, asked, faults>>
  BY DEF Probed
<1>2. j \in Jobs /\ Consistent(memory, disk', Tail(saves), records, behind)
  BY <1>1, Resumed
<1> HIDE DEF j
<1>3. Plan[j] \ records \in SUBSET Derivatives
  <2>1. Plan[j] \in SUBSET {i \in Jobs : Kind[i] # "probe"}
    BY <1>2, JobsAssumption
  <2>2. QED
    BY <2>1 DEF Derivatives, Probes
<1>4. GhostsOK' /\ Consistent(memory, disk', Tail(saves), records, behind')
  BY <1>1, <1>2, Parts DEF GhostsOK
<1>5. QED
  BY <1>1, <1>3, <1>4, EnqueueFromKeeps

\* One derivative is created, or its row is shown.
LEMMA EnqueuedKeeps ==
  ASSUME Inv, Enqueued
  PROVE  Inv'
<1> DEFINE d == Head(saves).job
           row == IF disk[d] = "absent" THEN "queued" ELSE disk[d]
           todo == handler.todo \ {d}
<1> USE DEF workerVars
<1>1. /\ saves # <<>> /\ Head(saves).then = "enqueued" /\ Replaced(d)
      /\ disk' = [disk EXCEPT ![d] = row]
      /\ EnqueueFrom(todo, [memory EXCEPT ![d] = row], Tail(saves))
      /\ UNCHANGED <<playing, pauseIntent, records, inbox, requests, runs, cancellation,
                     workerUp>>
  BY DEF Enqueued
<1>2. d \in Jobs /\ Consistent(memory, disk, Tail(saves), records, behind)
  <2>1. Consistent(memory, disk, saves, records, behind) /\ "enqueued" \in Reads
    BY DEF Inv, Rows, Reads
  <2>2. /\ Consistent(memory, Written(disk, Head(saves)), Tail(saves), records, behind)
        /\ Head(saves) \in Entry /\ EntryOK(Head(saves), disk, records)
    BY <1>1, <2>1, WriteIsConsistent
  <2>3. QED
    BY <1>1, <2>1, <2>2 DEF EntryOK, Written, Entry
<1>3. todo \in SUBSET Derivatives
  BY Parts DEF HandlerOK
<1>4. /\ Consistent([memory EXCEPT ![d] = disk[d]], disk, Tail(saves), records, behind')
      /\ disk[d] = "absent" => behind' = behind
      /\ GhostsOK'
  BY <1>1, <1>2, ReplacedKeeps
<1> HIDE DEF d, todo
<1>5. Consistent([memory EXCEPT ![d] = row], disk', Tail(saves), records, behind')
  <2>1. CASE disk[d] = "absent"
    <3>1. Consistent([memory EXCEPT ![d] = "queued"], [disk EXCEPT ![d] = "queued"],
                     Tail(saves), records, behind)
      BY <1>2, <2>1, CreatedIsConsistent
    <3>2. QED
      BY <1>1, <1>4, <2>1, <3>1
  <2>2. CASE disk[d] # "absent"
    <3>1. disk' = disk
      BY <1>1, <1>2, <2>2 DEF Consistent
    <3>2. QED
      BY <1>4, <2>2, <3>1
  <2>3. QED
    BY <2>1, <2>2
<1> HIDE DEF row
<1>6. QED
  BY <1>1, <1>3, <1>4, <1>5, EnqueueFromKeeps

\* What the worker does shows only in its messages.
LEMMA WorkerKeeps ==
  ASSUME Inv, Receive \/ \E j \in Jobs : Work(j)
  PROVE  Inv'
<1> USE DEF pageVars, storeVars, workerVars, ghosts
<1>1. /\ UNCHANGED <<memory, disk, saves, records, behind, handler>>
      /\ UNCHANGED <<active, playing, pauseIntent, imported, asked, faults, workerUp>>
  BY DEF Receive, ReceiveRun, ReceiveCancel, Work, Convert, Finish
<1>2. PageOK' /\ GhostsOK'
  BY <1>1, Parts DEF PageOK, GhostsOK
<1>3. WorkerOK
  BY Parts
<1>4. WorkerOK'
  <2>1. CASE Receive
    <3>1. /\ requests # <<>> /\ requests' = Tail(requests) /\ inbox' = inbox
      BY <2>1 DEF Receive, ReceiveRun, ReceiveCancel
    <3>2. /\ requests' \in Seq([type : {"run", "cancel"}, job : Jobs])
          /\ Head(requests) \in [type : {"run", "cancel"}, job : Jobs]
      BY <1>3, <3>1, SeqTail DEF WorkerOK
    <3>3. Head(requests).job \in Jobs
      BY <3>2
    <3>4. /\ runs' \in [Jobs -> {"none", "opening", "working", "stopped"}]
          /\ cancellation' \subseteq Jobs
      BY <1>3, <2>1, <3>3 DEF Receive, ReceiveRun, ReceiveCancel, WorkerOK
    <3>5. QED
      BY <1>1, <1>3, <3>1, <3>2, <3>4 DEF WorkerOK
  <2>2. ASSUME NEW j \in Jobs, Convert(j) PROVE WorkerOK'
    BY <1>1, <1>3, <2>2 DEF Convert, WorkerOK
  <2>3. ASSUME NEW j \in Jobs, Finish(j) PROVE WorkerOK'
    <3>1. PICK type \in Outcomes(j) : inbox' = Append(inbox, [type |-> type, job |-> j])
      BY <2>3 DEF Finish
    <3>2. type \in {"succeeded", "failed", "cancelled"}
      BY DEF Outcomes
    <3>3. [type |-> type, job |-> j] \in [type : {"succeeded", "failed", "cancelled"}, job : Jobs]
      BY <3>2
    <3>4. inbox' \in Seq([type : {"succeeded", "failed", "cancelled"}, job : Jobs])
      BY <1>3, <3>1, <3>3, SeqAppend DEF WorkerOK
    <3>5. /\ requests' = requests /\ cancellation' = cancellation \ {j}
          /\ runs' = [runs EXCEPT ![j] = "none"]
      BY <2>3 DEF Finish
    <3>6. QED
      BY <1>1, <1>3, <3>4, <3>5 DEF WorkerOK
  <2>4. QED
    BY <2>1, <2>2, <2>3 DEF Work
<1>5. QED
  BY <1>1, <1>2, <1>4, QuietKeeps

\* The worker dies.
LEMMA WorkerCrashKeeps ==
  ASSUME Inv, WorkerCrash
  PROVE  Inv'
<1> USE DEF storeVars
<1>1. /\ UNCHANGED <<disk, records, behind, pauseIntent, handler, inbox, imported, asked, playing>>
      /\ faults' = faults + 1 /\ faults < MaxFaults
      /\ runs' = [j \in Jobs |-> "none"] /\ cancellation' = {} /\ requests' = <<>>
      /\ workerUp' \in BOOLEAN
  BY Parts DEF WorkerCrash, Fault, WorkerOK
<1>2. /\ Consistent(memory, disk, saves, records, behind)
      /\ active \in Jobs \cup {NoJob}
  BY Parts DEF Rows, PageOK
<1>3. Consistent(memory', disk, saves', records, behind) /\ active' \in Jobs \cup {NoJob}
  <2>1. CASE active # NoJob /\ memory[active] \in Accepts.fail
    <3>1. active \in Jobs /\ active' = active
          /\ Transition(active, memory[active], "fail", "crashed", saves)
      BY <1>2, <2>1 DEF WorkerCrash
    <3>2. /\ "fail" \in Events \ {"succeed"} /\ "crashed" \in Afterwards \ Reads
          /\ "crashed" # "pauseRequested"
      BY DEF Events, Afterwards, Reads
    <3>3. QED
      BY <3>1, <3>2, CommandIsConsistent
  <2>2. CASE ~(active # NoJob /\ memory[active] \in Accepts.fail)
    <3>1. StartNextIf(playing, memory, NoJob, saves)
      BY <2>2 DEF WorkerCrash, StartNext
    <3>2. QED
      BY <1>2, <3>1, StartNextIsConsistent
  <2>3. QED
    BY <2>1, <2>2
<1>4. HandlerOK' /\ Storing'
  BY <1>1, Parts, StillStoring
<1>5. WorkerOK'
  BY <1>1, Parts DEF WorkerOK
<1>6. PageOK' /\ GhostsOK' /\ records' \subseteq Jobs
  BY <1>1, <1>3, BoundsAssumption, Parts DEF PageOK, GhostsOK
<1>7. Consistent(memory', disk', saves', records', behind')
  BY <1>1, <1>3
<1>8. QED
  BY <1>4, <1>5, <1>6, <1>7, StepKeeps

\* Rows alone, with no function waiting, show what they say.
LEMMA RecoveredIsConsistent ==
  ASSUME NEW m, NEW d, NEW q, NEW r, NEW b, Consistent(m, d, q, r, b),
         NEW dd, dd = [j \in Jobs |-> Recovered(d[j])]
  PROVE  Consistent(dd, dd, <<>>, r, {})
<1>1. d \in [Jobs -> States] /\ \A j \in Jobs : d[j] = "succeeded" => j \in r
  BY DEF Consistent
<1>2. dd \in [Jobs -> States] /\ \A j \in Jobs : dd[j] = "succeeded" => d[j] = "succeeded"
  BY <1>1 DEF Recovered, States, Busy, Terminal
<1>3. <<>> \in Seq(Entry) /\ Len(<<>>) = 0
  OBVIOUS
<1>4. \A j \in Jobs : LastRowIs(dd[j], j, dd[j], <<>>)
  BY <1>3 DEF LastRowIs
<1>5. QED
  BY <1>1, <1>2, <1>3, <1>4 DEF Consistent

\* The page is closed and opened again.
LEMMA ReloadKeeps ==
  ASSUME Inv, Reload
  PROVE  Inv'
<1>1. /\ disk' = [j \in Jobs |-> Recovered(disk[j])]
      /\ StartNextIf(FALSE, disk', NoJob, <<>>)
      /\ playing' = FALSE /\ pauseIntent' = {} /\ handler' = Resting
      /\ inbox' = <<>> /\ requests' = <<>> /\ workerUp' = TRUE /\ cancellation' = {}
      /\ runs' = [j \in Jobs |-> "none"] /\ behind' = {} /\ records' = records
      /\ UNCHANGED <<imported, asked>> /\ faults' = faults + 1 /\ faults < MaxFaults
  BY DEF Reload, Fault
<1>2. Consistent(disk', disk', <<>>, records, {})
  BY <1>1, RecoveredIsConsistent DEF Inv, Rows
<1>3. Consistent(memory', disk', saves', records, {}) /\ active' \in Jobs \cup {NoJob}
  BY <1>1, <1>2, StartNextIsConsistent
<1>4. HandlerOK' /\ Storing'
  <2>1. HandlerOK'
    BY <1>1, RestingTypes DEF HandlerOK
  <2>2. QED
    BY <1>1, <2>1 DEF Storing, Resting
<1>5. WorkerOK'
  BY <1>1 DEF WorkerOK
<1>6. PageOK' /\ GhostsOK' /\ records' \subseteq Jobs
  <2>1. PageOK'
    BY <1>1, <1>3 DEF PageOK
  <2>2. GhostsOK'
    BY <1>1, BoundsAssumption, Parts DEF GhostsOK
  <2>3. QED
    BY <1>1, <2>1, <2>2, Parts
<1>7. Consistent(memory', disk', saves', records', behind')
  BY <1>1, <1>3
<1>8. QED
  BY <1>4, <1>5, <1>6, <1>7, StepKeeps

-----------------------------------------------------------------------------
\* The invariant holds at first.
LEMMA InitInv == Init => Inv
<1> SUFFICES ASSUME Init PROVE Inv
  OBVIOUS
<1>1. TypeOK
  <2>1. PageOK
    BY DEF Init, PageOK
  <2>2. HandlerOK
    BY RestingTypes DEF Init, HandlerOK
  <2>3. WorkerOK
    BY DEF Init, WorkerOK
  <2>4. GhostsOK
    BY BoundsAssumption DEF Init, GhostsOK
  <2>5. memory \in [Jobs -> States] /\ disk \in [Jobs -> States] /\ records \subseteq Jobs
    BY DEF Init, States
  <2>6. saves \in Seq(Entry)
    BY DEF Init
  <2>7. QED
    BY <2>1, <2>2, <2>3, <2>4, <2>5, <2>6
       DEF TypeOK, Entry, PageOK, HandlerOK, WorkerOK, GhostsOK
<1>2. Consistent(memory, disk, <<>>, records, {})
  <2>1. \A j \in Jobs : disk[j] = "absent" /\ memory[j] = "absent"
    BY DEF Init
  <2>2. disk = [j \in Jobs |-> disk[j]] /\ disk = memory /\ disk \in [Jobs -> States]
    BY <1>1 DEF Init, TypeOK
  <2>3. <<>> \in Seq(Entry) /\ Len(<<>>) = 0
    OBVIOUS
  <2>4. \A j \in Jobs : LastRowIs(memory[j], j, disk[j], <<>>)
    BY <2>1, <2>3 DEF LastRowIs
  <2>5. QED
    BY <2>1, <2>2, <2>3, <2>4 DEF Consistent
<1>3. Rows /\ Storing
  BY <1>2 DEF Init, Rows, Storing, Resting
<1>4. QED
  BY <1>1, <1>3 DEF Inv

\* Every step keeps the invariant.
LEMMA NextInv == Inv /\ [Next]_vars => Inv'
<1> SUFFICES ASSUME Inv, [Next]_vars PROVE Inv'
  OBVIOUS
<1>1. CASE Commands
  BY <1>1, ImportKeeps, CommandKeeps, PlaybackStopsKeeps DEF Commands, Probes
<1>2. CASE GoOn
  BY <1>2, LookedUpKeeps, CreatedKeeps, PreparedKeeps, PostersKeep, CancelRequestedKeeps,
     StartersKeep, ProbedKeeps, EnqueuedKeeps DEF GoOn
<1>3. CASE Handle
  BY <1>3, TakeMessageKeeps, StoreRecordKeeps DEF Handle
<1>4. CASE Receive \/ \E j \in Jobs : Work(j)
  BY <1>4, WorkerKeeps
<1>5. CASE WorkerCrash \/ Reload
  BY <1>5, WorkerCrashKeeps, ReloadKeeps
<1>6. CASE UNCHANGED vars
  <2>1. /\ UNCHANGED <<memory, disk, saves, records, behind, handler>>
        /\ PageOK' /\ WorkerOK' /\ GhostsOK'
    BY <1>6, Parts DEF vars, pageVars, storeVars, workerVars, ghosts, PageOK, WorkerOK, GhostsOK
  <2>2. QED
    BY <2>1, QuietKeeps
<1>7. QED
  BY <1>1, <1>2, <1>3, <1>4, <1>5, <1>6 DEF Next

\* Page, rows, queue, records and worker stay together whatever the user, the
\* player, the worker and reloads do, in any order: the inductive invariant.
THEOREM MediaInvariance == Spec => []Inv
  BY InitInv, NextInv, PTL DEF Spec

\* The types of the page, its worker and its stores.
THEOREM MediaTypes == Spec => []TypeOK
<1>1. Inv => TypeOK
  BY DEF Inv
<1>2. QED
  BY <1>1, MediaInvariance, PTL

\* completeProbe and completeDerivative save what a job made before they let it
\* succeed: no row ever says "succeeded" without its record.
THEOREM SuccessIsStored == Spec => []SucceededIsStored
<1>1. Inv => SucceededIsStored
  BY DEF Inv, Rows, Consistent, SucceededIsStored
<1>2. QED
  BY <1>1, MediaInvariance, PTL

\* Saves reach the store in the order of the changes they save: a page with no
\* save pending shows its rows, but for jobs a second import put behind them.
THEOREM RowsAreCurrent == Spec => []DiskIsCurrent
<1>1. ASSUME Inv PROVE DiskIsCurrent
  <2>1. ASSUME saves = <<>>, NEW j \in Jobs \ behind PROVE disk[j] = memory[j]
    <3>1. LastRowIs(memory[j], j, disk[j], saves) /\ Len(saves) = 0
      BY <1>1, <2>1 DEF Inv, Rows, Consistent
    <3>2. QED
      BY <3>1 DEF LastRowIs
  <2>2. QED
    BY <2>1 DEF DiskIsCurrent
<1>2. QED
  BY <1>1, MediaInvariance, PTL
=============================================================================
