--------------------------- MODULE UploadsProofs ---------------------------
(***************************************************************************)
(* Theorems about Uploads for every set of devices and campaigns, every    *)
(* number of parts and every bound.                                        *)
(***************************************************************************)
EXTENDS Uploads, WellFoundedInduction, TLAPS

\* What a page has in hand: a session once it has one, and a part while it waits
\* for that part's receipt.
Working ==
  \A d \in Devices :
    /\ device[d].pc \in {"create", "open"} => device[d].campaign \in Campaigns
    /\ device[d].pc \in {"idle", "create", "open"} =>
         device[d].session = NoSession /\ device[d].sent = {}
    /\ device[d].pc \in {"send", "receipt", "assemble", "verify"} => device[d].session # NoSession
    /\ device[d].pc = "receipt" => device[d].part \in Parts

\* An object that somebody reads back, or that was accepted, is the last word on
\* its upload: nothing is assembled there again.
Sealed ==
  /\ \A d \in Devices : device[d].pc = "verify" => ~store[device[d].session].open
  /\ asset # NoSession => ~store[asset].open

Inv == TypeOK /\ Working /\ Sealed /\ PartsAreKept /\ AssetIsWhole

-----------------------------------------------------------------------------
\* The elements of a list of receipts, and their parts.
LEMMA ReceiptParts ==
  ASSUME NEW list \in Seq(Receipts), NEW k \in 1..Len(list)
  PROVE  list[k] \in Receipts /\ list[k].part \in Nat
<1>1. list[k] \in Receipts
  OBVIOUS
<1>2. QED
  BY <1>1, UploadAssumption DEF Receipts, Parts

\* A set of natural numbers that is not empty has a least one.
LEMMA LeastNatural ==
  ASSUME NEW T \in SUBSET Nat, T # {}
  PROVE  \E n \in T : \A m \in T : n <= m
<1> DEFINE Less == {p \in Nat \X Nat : p[1] < p[2]}
<1>1. IsWellFoundedOn(Less, Nat)
  BY NatLessThanWellFounded DEF OpToRel
<1>2. \E n \in T : \A m \in T : <<m, n>> \notin Less
  <2> HIDE DEF Less
  <2>1. QED
    BY <1>1, WFMin
<1>3. PICK n \in T : \A m \in T : <<m, n>> \notin Less
  BY <1>2
<1>4. ASSUME NEW m \in T, m < n PROVE FALSE
  <2>1. <<m, n>> \in Less
    BY <1>4
  <2>2. QED
    BY <1>3, <2>1
<1>5. QED
  BY <1>4

\* One that has a bound has a greatest one: its least bound.
LEMMA GreatestNatural ==
  ASSUME NEW T \in SUBSET Nat, T # {}, NEW b \in Nat, \A n \in T : n <= b
  PROVE  \E n \in T : \A m \in T : m <= n
<1> DEFINE Bounds == {k \in Nat : \A n \in T : n <= k}
<1>1. PICK k \in Bounds : \A j \in Bounds : k <= j
  <2>1. Bounds \in SUBSET Nat /\ b \in Bounds
    OBVIOUS
  <2>2. QED
    BY <2>1, LeastNatural
<1>2. ASSUME k \notin T PROVE FALSE
  <2>1. \A n \in T : n \in Nat /\ n < k
    BY <1>1, <1>2
  <2>2. k - 1 \in Nat
    <3>1. PICK n \in T : TRUE
      OBVIOUS
    <3>2. QED
      BY <2>1, <3>1
  <2>3. k - 1 \in Bounds
    BY <2>1, <2>2
  <2>4. QED
    BY <1>1, <2>3
<1>3. QED
  BY <1>1, <1>2
\* Where a receipt belongs in a list in order: behind all earlier parts.
LEMMA PlaceExists ==
  ASSUME NEW list \in Seq(Receipts), Ascending(list), NEW p \in Parts
  PROVE  /\ Place(list, p) \in 1..(Len(list) + 1)
         /\ \A k \in 1..(Place(list, p) - 1) : list[k].part < p
         /\ Place(list, p) <= Len(list) => p <= list[Place(list, p)].part
<1> DEFINE NotBefore == {i \in 1..(Len(list) + 1) : i <= Len(list) => p <= list[i].part}
<1>1. NotBefore \in SUBSET Nat /\ Len(list) + 1 \in NotBefore
  OBVIOUS
<1>2. PICK i \in NotBefore : \A k \in NotBefore : i <= k
  BY <1>1, LeastNatural
<1>3. ASSUME NEW k \in 1..(i - 1), p <= list[k].part PROVE FALSE
  BY <1>2, <1>3
<1>4. \A k \in 1..(i - 1) : list[k].part \in Nat
  BY ReceiptParts
<1>5. \A k \in 1..(i - 1) : list[k].part < p
  BY <1>3, <1>4, UploadAssumption DEF Parts
<1>6. QED
  BY <1>2, <1>5 DEF Place

\* Merging a receipt keeps the list in order and every part in it.
LEMMA MergedList ==
  ASSUME NEW list \in Seq(Receipts), Ascending(list), NEW r \in Receipts
  PROVE  /\ Merged(list, r) \in Seq(Receipts) /\ Ascending(Merged(list, r))
         /\ {q.part : q \in ToSet(list)} \cup {r.part} \subseteq {q.part : q \in ToSet(Merged(list, r))}
<1> DEFINE i == Place(list, r.part)
           more == IF i <= Len(list) /\ list[i].part = r.part THEN 0 ELSE 1
           n == Len(list) + more
           m == [k \in 1..n |-> IF k < i THEN list[k] ELSE IF k = i THEN r ELSE list[k - more]]
<1>1. r.part \in Parts /\ r.part \in Nat
  BY UploadAssumption DEF Receipts, Parts
<1>2. /\ i \in 1..(Len(list) + 1)
      /\ \A k \in 1..(i - 1) : list[k].part < r.part
      /\ i <= Len(list) => r.part <= list[i].part
  BY <1>1, PlaceExists
<1>3. Merged(list, r) = m
  BY DEF Merged
<1> HIDE DEF i
<1>4. n \in Nat /\ i \in 1..n /\ more \in {0, 1}
  BY <1>2
<1>5. \A k \in 1..Len(list) : list[k] \in Receipts /\ list[k].part \in Nat
  BY ReceiptParts
<1>6. \A k \in 1..n : k > i => k - more \in 1..Len(list)
  BY <1>2
<1>7. \A k \in 1..n : k > i => r.part < list[k - more].part
  BY <1>1, <1>2, <1>5 DEF Ascending
<1>8. m \in Seq(Receipts) /\ Len(m) = n /\ DOMAIN m = 1..n
  <2>1. m \in [1..n -> Receipts]
    BY <1>2, <1>4, <1>5, <1>6
  <2>2. QED
    BY <2>1, <1>4
<1>9. Ascending(m)
  <2> SUFFICES ASSUME NEW a \in 1..n, NEW b \in 1..n, a < b
               PROVE  m[a].part < m[b].part
    BY <1>8 DEF Ascending
  <2>1. CASE b < i
    BY <2>1, <1>2 DEF Ascending
  <2>2. CASE b = i
    BY <2>2, <1>2
  <2>3. CASE i < b /\ a = i
    BY <2>3, <1>7
  <2>4. CASE i < b /\ a < i
    <3>1. list[a].part < r.part /\ r.part < list[b - more].part
      BY <2>4, <1>2, <1>7
    <3>2. list[a].part \in Nat /\ list[b - more].part \in Nat
      BY <2>4, <1>2, <1>5, <1>6
    <3>3. m[a] = list[a] /\ m[b] = list[b - more]
      BY <2>4, <1>2
    <3>4. QED
      BY SMTT(40), <3>1, <3>2, <3>3, <1>1
  <2>5. CASE i < a
    <3>1. m[a] = list[a - more] /\ m[b] = list[b - more]
      BY <2>5, <1>2
    <3>2. a - more \in DOMAIN list /\ b - more \in DOMAIN list /\ a - more < b - more
      BY <2>5, <1>2, <1>6
    <3>3. QED
      BY <3>1, <3>2 DEF Ascending
  <2>6. QED
    BY <2>1, <2>2, <2>3, <2>4, <2>5, <1>2
<1>10. ASSUME NEW k \in 1..Len(list)
       PROVE  \E a \in 1..n : m[a].part = list[k].part
  <2>1. CASE k < i
    BY <2>1, <1>2
  <2>2. CASE k = i /\ list[i].part = r.part
    BY <2>2, <1>2
  <2>3. CASE k + more > i
    <3>1. k + more \in 1..n /\ (k + more) - more = k
      BY <2>3, <1>4
    <3>2. PICK a \in 1..n : a = k + more
      BY <3>1
    <3>3. a > i /\ a - more = k
      BY <2>3, <3>1, <3>2
    <3>4. m[a] = list[a - more]
      BY <3>3, <1>4
    <3>5. QED
      BY <3>3, <3>4
  <2>4. QED
    BY <2>1, <2>2, <2>3, <1>2
<1> HIDE DEF m
<1>11. {q.part : q \in ToSet(list)} \cup {r.part} \subseteq {q.part : q \in ToSet(m)}
  <2>1. \A a \in 1..n : m[a].part \in {q.part : q \in ToSet(m)}
    BY <1>8 DEF ToSet
  <2>2. m[i].part = r.part
    BY <1>4 DEF m
  <2>3. ASSUME NEW q \in ToSet(list) PROVE q.part \in {x.part : x \in ToSet(m)}
    <3>1. PICK k \in 1..Len(list) : q = list[k]
      BY DEF ToSet
    <3>2. QED
      BY <2>1, <3>1, <1>10
  <2>4. QED
    BY <2>1, <2>2, <2>3, <1>4
<1>12. QED
  BY <1>3, <1>8, <1>9, <1>11

\* A session's receipts, and the parts they are of.
LEMMA ReceiptsOfSession ==
  ASSUME TypeOK, NEW s \in DOMAIN sessions
  PROVE  /\ sessions[s] \in Session /\ sessions[s].receipts \in Seq(Receipts)
         /\ {x.part : x \in ToSet(sessions[s].receipts)} \subseteq Parts
<1>1. sessions[s] \in Session
  BY DEF TypeOK
<1>2. sessions[s].receipts \in Seq(Receipts)
  BY <1>1 DEF Session
<1> DEFINE list == sessions[s].receipts
<1> HIDE DEF list
<1>3. ASSUME NEW x \in ToSet(list) PROVE x.part \in Parts
  <2>1. PICK k \in 1..Len(list) : x = list[k]
    BY <1>2 DEF ToSet, list
  <2>2. x \in Receipts
    BY <1>2, <2>1 DEF list
  <2>3. QED
    BY <2>2 DEF Receipts
<1>4. QED
  BY <1>1, <1>2, <1>3 DEF list

-----------------------------------------------------------------------------
\* What the parts of the invariant say of a page that is idle.
LEMMA IdleDevice ==
  NoDevice \in Device /\ NoDevice.pc = "idle" /\ NoDevice.session = NoSession /\ NoDevice.sent = {}
  BY DEF NoDevice, Device, Files

\* The invariant holds at the start: no session, and every page idle.
LEMMA InitInv == Init => Inv
<1> SUFFICES ASSUME Init PROVE Inv
  OBVIOUS
<1>1. TypeOK
  BY IdleDevice, UploadAssumption DEF Init, TypeOK
<1>2. QED
  BY <1>1, IdleDevice DEF Init, Inv, Working, Sealed, PartsAreKept, AssetIsWhole

\* What the invariant asks of a page's record, with the sessions and uploads given.
Consistent(r, ses, sto) ==
  /\ r \in Device
  /\ r.session \in DOMAIN ses \cup {NoSession}
  /\ r.pc \in {"create", "open"} => r.campaign \in Campaigns
  /\ r.pc \in {"idle", "create", "open"} => r.session = NoSession /\ r.sent = {}
  /\ r.pc \in {"send", "receipt", "assemble", "verify"} => r.session # NoSession
  /\ r.pc = "receipt" => r.part \in Parts
  /\ r.pc = "verify" => ~sto[r.session].open
  /\ r.session # NoSession => r.sent \subseteq {q.part : q \in ToSet(ses[r.session].receipts)}

\* Sessions and uploads that go on from the present ones: none is forgotten, no
\* receipt of a part is lost, and an upload that was assembled stays as it is.
GoesOn(ses, sto) ==
  /\ ses \in Seq(Session) /\ sto \in Seq(Upload) /\ Len(sto) = Len(ses)
  /\ Len(sessions) <= Len(ses) /\ Len(ses) <= MaxSessions
  /\ \A s \in DOMAIN ses : Ascending(ses[s].receipts)
  /\ \A s \in DOMAIN sessions :
       /\ {q.part : q \in ToSet(sessions[s].receipts)} \subseteq {q.part : q \in ToSet(ses[s].receipts)}
       /\ ~store[s].open => sto[s] = store[s]

\* The invariant holds of every page.
LEMMA AllConsistent ==
  ASSUME Inv, NEW d \in Devices
  PROVE  Consistent(device[d], sessions, store)
BY DEF Inv, TypeOK, Working, Sealed, PartsAreKept, Consistent

\* Sessions and object store go on from themselves.
LEMMA GoesOnAsIs == Inv => GoesOn(sessions, store)
BY DEF Inv, TypeOK, GoesOn

\* Every step preserves the invariant whose sessions and uploads go on, whose pages
\* are left alone or consistent with them, and which accepts no object but the original.
LEMMA StepInv ==
  ASSUME Inv, GoesOn(sessions', store'), device' \in [Devices -> Device], faults' \in 0..MaxFaults,
         \A e \in Devices : device'[e] = device[e] \/ Consistent(device'[e], sessions', store'),
         \/ asset' = asset
         \/ asset' \in DOMAIN sessions' /\ ~store'[asset'].open /\ store'[asset'].object = Original
  PROVE  Inv'
<1>1. DOMAIN sessions \subseteq DOMAIN sessions' /\ NoSession \notin DOMAIN sessions'
  BY UploadAssumption DEF Inv, TypeOK, GoesOn
<1>2. ASSUME NEW e \in Devices PROVE Consistent(device'[e], sessions', store')
  <2>1. Consistent(device[e], sessions, store)
    BY AllConsistent
  <2>2. CASE device'[e] = device[e]
    <3> DEFINE r == device[e]
    <3>1. Consistent(r, sessions, store) /\ device'[e] = r
      BY <2>1, <2>2
    <3> HIDE DEF r
    <3>2. r.session # NoSession => r.session \in DOMAIN sessions
      BY <3>1 DEF Consistent
    <3>3. r.pc = "verify" => ~store'[r.session].open
      BY <3>1, <3>2 DEF Consistent, GoesOn
    <3>4. r.session # NoSession => r.sent \subseteq {q.part : q \in ToSet(sessions'[r.session].receipts)}
      BY <3>1, <3>2 DEF Consistent, GoesOn
    <3>5. QED
      BY <1>1, <3>1, <3>2, <3>3, <3>4 DEF Consistent
  <2>3. QED
    BY <2>2
<1>3. asset' # NoSession => asset' \in DOMAIN sessions' /\ ~store'[asset'].open /\ store'[asset'].object = Original
  BY <1>1 DEF Inv, TypeOK, Sealed, AssetIsWhole, GoesOn
<1>4. TypeOK'
  BY <1>2, <1>3 DEF TypeOK, GoesOn, Consistent
<1>5. Working' /\ PartsAreKept'
  BY <1>2 DEF Working, PartsAreKept, Consistent
<1>6. Sealed' /\ AssetIsWhole'
  BY <1>2, <1>3 DEF Sealed, AssetIsWhole, Consistent
<1>7. QED
  BY <1>4, <1>5, <1>6 DEF Inv

\* One page takes a step.
LEMMA DeviceStep ==
  ASSUME Inv, NEW d \in Devices, NEW r, device' = [device EXCEPT ![d] = r],
         GoesOn(sessions', store'), Consistent(r, sessions', store'), faults' \in 0..MaxFaults,
         \/ asset' = asset
         \/ asset' \in DOMAIN sessions' /\ ~store'[asset'].open /\ store'[asset'].object = Original
  PROVE  Inv'
<1>1. /\ device' \in [Devices -> Device] /\ device'[d] = r
      /\ \A e \in Devices : e # d => device'[e] = device[e]
  BY DEF Inv, TypeOK, Consistent
<1>2. QED
  BY <1>1, StepInv

\* One page takes a step that nothing else notices.
LEMMA PageStep ==
  ASSUME Inv, NEW d \in Devices, NEW r, device' = [device EXCEPT ![d] = r],
         Consistent(r, sessions, store), UNCHANGED <<sessions, store, asset>>, faults' \in 0..MaxFaults
  PROVE  Inv'
<1>1. sessions' = sessions /\ store' = store /\ asset' = asset
  OBVIOUS
<1>2. GoesOn(sessions', store') /\ Consistent(r, sessions', store')
  BY <1>1, GoesOnAsIs
<1>3. QED
  BY <1>1, <1>2, DeviceStep

\* A page gives up what it was doing.
LEMMA DoneInv ==
  ASSUME Inv, NEW d \in Devices, Done(d), GoesOn(sessions', store'), faults' \in 0..MaxFaults,
         \/ asset' = asset
         \/ asset' \in DOMAIN sessions' /\ ~store'[asset'].open /\ store'[asset'].object = Original
  PROVE  Inv'
<1>1. Consistent(NoDevice, sessions', store')
  BY IdleDevice DEF Consistent
<1>2. QED
  BY <1>1, DeviceStep DEF Done

\* A user starts a batch.
LEMMA PressInv ==
  ASSUME Inv, NEW d \in Devices, NEW c \in Campaigns, NEW f \in Files, Press(d, c, f)
  PROVE  Inv'
<1>0. TypeOK /\ Working
  BY DEF Inv
<1>1. device[d] \in Device /\ device[d].session = NoSession /\ device[d].sent = {}
  BY <1>0 DEF Press, TypeOK, Working
<1> DEFINE r == [device[d] EXCEPT !.pc = "create", !.campaign = c, !.file = f]
<1>2. r \in Device /\ r.pc = "create" /\ r.campaign = c /\ r.session = NoSession /\ r.sent = {}
  BY <1>1 DEF Device
<1>3. device' = [device EXCEPT ![d] = r]
  BY <1>0, <1>1 DEF Press, TypeOK
<1>4. UNCHANGED <<sessions, store, asset>> /\ faults' \in 0..MaxFaults
  BY <1>0, UploadAssumption DEF Press, TypeOK
<1> HIDE DEF r
<1>5. QED
  <2>1. Consistent(r, sessions, store)
    BY <1>2 DEF Consistent
  <2>2. QED
    BY <1>3, <1>4, <2>1, PageStep

\* A page gets its campaign's newest session, with the receipts it has.
LEMMA CreateInv ==
  ASSUME Inv, NEW d \in Devices, Create(d)
  PROVE  Inv'
<1>0. TypeOK /\ Working
  BY DEF Inv
<1> DEFINE ss == Resumable(device[d].campaign)
           s == Newest(ss)
<1>1. device[d] \in Device /\ device[d].campaign \in Campaigns
      /\ device[d].session = NoSession /\ device[d].sent = {}
  BY <1>0 DEF Create, TypeOK, Working
<1>2. UNCHANGED <<sessions, store, asset, faults>>
  BY DEF Create
<1>3. CASE ss = {}
  <2> DEFINE r == [device[d] EXCEPT !.pc = "open"]
  <2>1. /\ r \in Device /\ r.pc = "open" /\ r.campaign \in Campaigns
        /\ r.session = NoSession /\ r.sent = {}
    BY <1>1 DEF Device
  <2>2. device' = [device EXCEPT ![d] = r]
    BY <1>0, <1>1, <1>3 DEF Create, Step, TypeOK
  <2> HIDE DEF r
  <2>3. QED
    <3>1. Consistent(r, sessions, store) /\ faults' \in 0..MaxFaults
      BY <1>0, <1>2, <2>1 DEF Consistent, TypeOK
    <3>2. QED
      BY <1>2, <2>2, <3>1, PageStep
<1>4. CASE ss # {}
  <2>1. s \in DOMAIN sessions /\ s \in 1..MaxSessions
    <3>1. ss \in SUBSET Nat /\ ss \subseteq DOMAIN sessions
      BY <1>0 DEF Resumable, TypeOK
    <3>2. \E t \in ss : \A u \in ss : u <= t
      <4>1. Len(sessions) \in Nat /\ \A u \in ss : u <= Len(sessions)
        BY <1>0, <3>1 DEF TypeOK
      <4> HIDE DEF ss
      <4>2. QED
        BY <1>4, <3>1, <4>1, GreatestNatural
    <3>3. s \in ss
      BY <3>2 DEF Newest
    <3>4. QED
      BY <1>0, <3>1, <3>3, UploadAssumption DEF TypeOK
  <2> DEFINE sent == {x.part : x \in ToSet(sessions[s].receipts)}
             r == [device[d] EXCEPT !.pc = "send", !.session = s, !.sent = sent]
  <2>2. sent \subseteq Parts
    BY <1>0, <2>1, ReceiptsOfSession
  <2>3. r \in Device /\ r.pc = "send" /\ r.session = s /\ r.sent = sent
    BY <1>1, <2>1, <2>2 DEF Device
  <2>4. device' = [device EXCEPT ![d] = r]
    BY <1>0, <1>1, <1>4 DEF Create, TypeOK
  <2> HIDE DEF r
  <2>5. QED
    <3>1. Consistent(r, sessions, store) /\ faults' \in 0..MaxFaults
      BY <1>0, <1>2, <2>1, <2>3, UploadAssumption DEF Consistent, TypeOK
    <3>2. QED
      BY <1>2, <2>4, <3>1, PageStep
<1>5. QED
  BY <1>3, <1>4
\* What is known of a page with a request about its session.
LEMMA AtWork ==
  ASSUME Inv, NEW d \in Devices, device[d].pc \in {"send", "receipt", "assemble", "verify"}
  PROVE  /\ device[d] \in Device /\ device[d].session \in DOMAIN sessions
         /\ device[d].session \in DOMAIN store /\ device[d].session # NoSession
         /\ sessions[device[d].session] \in Session /\ store[device[d].session] \in Upload
         /\ device[d].sent \subseteq {q.part : q \in ToSet(sessions[device[d].session].receipts)}
<1> DEFINE s == device[d].session
<1>1. Consistent(device[d], sessions, store)
  BY AllConsistent
<1>2. s # NoSession /\ s \in DOMAIN sessions /\ s \in DOMAIN store
  BY <1>1 DEF Consistent, Inv, TypeOK
<1>3. sessions[s] \in Session /\ store[s] \in Upload
  BY <1>2 DEF Inv, TypeOK
<1>4. QED
  BY <1>1, <1>2, <1>3 DEF Consistent

\* One session is updated and keeps its receipts' parts, in order.
LEMMA SessionGoesOn ==
  ASSUME Inv, NEW s \in DOMAIN sessions, NEW x \in Session, sessions' = [sessions EXCEPT ![s] = x],
         Ascending(x.receipts), store' = store,
         {q.part : q \in ToSet(sessions[s].receipts)} \subseteq {q.part : q \in ToSet(x.receipts)}
  PROVE  GoesOn(sessions', store')
<1>1. /\ sessions' \in Seq(Session) /\ Len(sessions') = Len(sessions) /\ sessions'[s] = x
      /\ DOMAIN sessions' = DOMAIN sessions
      /\ \A t \in DOMAIN sessions : t # s => sessions'[t] = sessions[t]
  BY DEF Inv, TypeOK
<1>2. GoesOn(sessions, store)
  BY GoesOnAsIs
<1>3. QED
  BY <1>1, <1>2 DEF GoesOn

\* One upload that was not assembled yet is updated.
LEMMA StoreGoesOn ==
  ASSUME Inv, NEW s \in DOMAIN store, NEW x \in Upload, store' = [store EXCEPT ![s] = x],
         store[s].open, sessions' = sessions
  PROVE  GoesOn(sessions', store')
<1>1. /\ store' \in Seq(Upload) /\ Len(store') = Len(store) /\ store'[s] = x
      /\ \A t \in DOMAIN store : t # s => store'[t] = store[t]
  BY DEF Inv, TypeOK
<1>2. GoesOn(sessions, store)
  BY GoesOnAsIs
<1>3. QED
  BY <1>1, <1>2 DEF GoesOn

\* A request is lost.
LEMMA LoseInv ==
  ASSUME Inv, NEW d \in Devices, Lose(d)
  PROVE  Inv'
<1>1. sessions' = sessions /\ store' = store /\ asset' = asset /\ faults' \in 0..MaxFaults /\ Done(d)
  BY UploadAssumption DEF Lose, Inv, TypeOK
<1>2. QED
  BY <1>1, GoesOnAsIs, DoneInv

\* A session's day is over.
LEMMA ExpireInv ==
  ASSUME Inv, NEW s, Expire(s)
  PROVE  Inv'
<1> DEFINE x == [sessions[s] EXCEPT !.expired = TRUE]
<1>1. /\ s \in DOMAIN sessions /\ sessions[s] \in Session /\ Ascending(sessions[s].receipts)
  BY DEF Expire, Inv, TypeOK
<1>2. x \in Session /\ x.receipts = sessions[s].receipts
  BY <1>1 DEF Session
<1>3. sessions' = [sessions EXCEPT ![s] = x] /\ store' = store /\ asset' = asset /\ device' = device
  BY <1>1 DEF Expire, Inv, TypeOK
<1>4. faults' \in 0..MaxFaults
  BY UploadAssumption DEF Expire, Inv, TypeOK
<1> HIDE DEF x
<1>5. GoesOn(sessions', store')
  BY <1>1, <1>2, <1>3, SessionGoesOn
<1>6. device' \in [Devices -> Device]
  BY <1>3 DEF Inv, TypeOK
<1>7. QED
  BY <1>3, <1>4, <1>5, <1>6, StepInv

\* A session is opened.
LEMMA OpenInv ==
  ASSUME Inv, NEW d \in Devices, Open(d)
  PROVE  Inv'
<1> DEFINE n == Len(sessions) + 1
           x == [campaign |-> device[d].campaign, total |-> TotalBytes(device[d].file),
                 receipts |-> <<>>, state |-> "uploading", expired |-> FALSE]
           u == [open |-> TRUE, parts |-> [p \in Parts |-> NoSession], object |-> <<>>]
           r == [device[d] EXCEPT !.pc = "send", !.session = n, !.opened = TRUE]
<1>1. /\ device[d] \in Device /\ device[d].campaign \in Campaigns /\ device[d].sent = {}
      /\ device[d].file \in Files
  BY DEF Open, Inv, TypeOK, Working, Device
<1>2. n \in 1..MaxSessions /\ n # NoSession /\ Len(sessions) \in Nat /\ Len(store) = Len(sessions)
  BY UploadAssumption DEF Open, Inv, TypeOK
<1>3. x \in Session /\ x.receipts = <<>>
  BY <1>1 DEF Session, States
<1>4. u \in Upload
  BY DEF Upload
<1>5. r \in Device /\ r.pc = "send" /\ r.session = n /\ r.sent = {}
  BY <1>1, <1>2 DEF Device
<1>6. /\ sessions' = Append(sessions, x) /\ store' = Append(store, u)
      /\ asset' = asset /\ faults' = faults
  BY DEF Open
<1>7. device' = [device EXCEPT ![d] = r]
  BY <1>1 DEF Open, Inv, TypeOK
<1> HIDE DEF x, u, r
<1>8. GoesOn(sessions', store')
  <2>1. /\ sessions' \in Seq(Session) /\ Len(sessions') = n /\ sessions'[n] = x
        /\ \A t \in DOMAIN sessions : sessions'[t] = sessions[t]
    BY <1>2, <1>3, <1>6 DEF Inv, TypeOK
  <2>2. /\ store' \in Seq(Upload) /\ Len(store') = n
        /\ \A t \in DOMAIN store : store'[t] = store[t]
    BY <1>2, <1>4, <1>6 DEF Inv, TypeOK
  <2>3. Ascending(x.receipts)
    BY <1>3 DEF Ascending
  <2>4. GoesOn(sessions, store)
    BY GoesOnAsIs
  <2>5. QED
    BY <1>2, <2>1, <2>2, <2>3, <2>4 DEF GoesOn
<1>9. Consistent(r, sessions', store')
  <2>1. n \in DOMAIN sessions'
    BY <1>2, <1>6
  <2>2. QED
    BY <1>2, <1>5, <2>1 DEF Consistent
<1>10. QED
  BY <1>6, <1>7, <1>8, <1>9, DeviceStep DEF Inv, TypeOK

\* A part is sent.
LEMMA SendPartInv ==
  ASSUME Inv, NEW d \in Devices, SendPart(d)
  PROVE  Inv'
<1> DEFINE s == device[d].session
           left == Parts \ device[d].sent
           p == CHOOSE q \in left : \A t \in left : q <= t
           u == [store[s] EXCEPT !.parts[p] = PartOf(device[d].file, p)]
           r == [device[d] EXCEPT !.pc = "receipt", !.part = p]
<1>1. /\ device[d] \in Device /\ s \in DOMAIN sessions /\ s \in DOMAIN store /\ s # NoSession
      /\ store[s] \in Upload /\ device[d].sent \subseteq {q.part : q \in ToSet(sessions[s].receipts)}
  BY AtWork DEF SendPart
<1>2. sessions' = sessions /\ asset' = asset /\ faults' = faults /\ faults' \in 0..MaxFaults
  BY DEF SendPart, Inv, TypeOK
<1>3. CASE Live(s) /\ store[s].open
  <2>1. p \in Parts
    <3>1. device[d].sent \subseteq Parts
      BY <1>1 DEF Device
    <3>2. left # {} /\ left \in SUBSET Nat
      <4>1. device[d].sent # Parts
        BY DEF SendPart
      <4>2. Parts \subseteq Nat
        BY UploadAssumption DEF Parts
      <4>3. QED
        BY <3>1, <4>1, <4>2
    <3> HIDE DEF left
    <3>3. p \in left
      BY <3>2, LeastNatural
    <3>4. QED
      BY <3>3 DEF left
  <2>2. /\ store' = [store EXCEPT ![s].parts[p] = PartOf(device[d].file, p)]
        /\ device' = [device EXCEPT ![d].pc = "receipt", ![d].part = p]
    BY <1>3 DEF SendPart
  <2> HIDE DEF p
  <2>3. PartOf(device[d].file, p) \in Files
    BY <1>1 DEF PartOf, Files, Device
  <2>4. u \in Upload
    BY <1>1, <2>1, <2>3 DEF Upload
  <2>5. store' = [store EXCEPT ![s] = u]
    BY <1>1, <2>2
  <2>6. r \in Device /\ r.pc = "receipt" /\ r.session = s /\ r.sent = device[d].sent /\ r.part = p
    BY <1>1, <2>1 DEF Device
  <2>7. device' = [device EXCEPT ![d] = r]
    BY <1>1, <2>2 DEF Inv, TypeOK
  <2> HIDE DEF u, r
  <2>8. GoesOn(sessions', store')
    BY <1>1, <1>2, <1>3, <2>4, <2>5, StoreGoesOn
  <2>9. Consistent(r, sessions', store')
    BY <1>1, <1>2, <2>1, <2>6 DEF Consistent
  <2>10. QED
    BY <1>2, <2>7, <2>8, <2>9, DeviceStep
<1>4. CASE ~(Live(s) /\ store[s].open)
  <2>1. Done(d) /\ store' = store
    BY <1>4 DEF SendPart
  <2>2. QED
    BY <1>2, <2>1, GoesOnAsIs, DoneInv
<1>5. QED
  BY <1>3, <1>4
\* A receipt is merged: the sender's parts and everybody else's are in the result.
LEMMA SaveReceiptInv ==
  ASSUME Inv, NEW d \in Devices, SaveReceipt(d)
  PROVE  Inv'
<1> DEFINE s == device[d].session
           p == [part |-> device[d].part, content |-> PartOf(device[d].file, device[d].part)]
           list == sessions[s].receipts
           x == [sessions[s] EXCEPT !.receipts = Merged(list, p)]
           r == [device[d] EXCEPT !.pc = "send", !.sent = device[d].sent \cup {p.part}, !.part = 0]
<1>1. /\ device[d] \in Device /\ s \in DOMAIN sessions /\ s # NoSession
      /\ sessions[s] \in Session
      /\ device[d].sent \subseteq {q.part : q \in ToSet(list)}
  BY AtWork DEF SaveReceipt
<1>2. store' = store /\ asset' = asset /\ faults' = faults /\ faults' \in 0..MaxFaults
  BY DEF SaveReceipt, Inv, TypeOK
<1>3. CASE Live(s)
  <2>1. p \in Receipts /\ p.part \in Parts
    <3>1. device[d].part \in Parts
      BY DEF SaveReceipt, Inv, Working
    <3>2. PartOf(device[d].file, device[d].part) \in Files
      BY <1>1 DEF PartOf, Files, Device
    <3>3. QED
      BY <3>1, <3>2 DEF Receipts
  <2>2. /\ sessions' = [sessions EXCEPT ![s].receipts = Merged(@, p)]
        /\ device' = [device EXCEPT ![d].pc = "send", ![d].sent = @ \cup {p.part}, ![d].part = 0]
    BY <1>3 DEF SaveReceipt
  <2> HIDE DEF p
  <2>3. list \in Seq(Receipts) /\ Ascending(list)
    BY <1>1, ReceiptsOfSession DEF Inv, TypeOK
  <2>4. /\ Merged(list, p) \in Seq(Receipts) /\ Ascending(Merged(list, p))
        /\ {q.part : q \in ToSet(list)} \cup {p.part} \subseteq {q.part : q \in ToSet(Merged(list, p))}
    <3> HIDE DEF list
    <3>1. QED
      BY <2>1, <2>3, MergedList
  <2>5. x \in Session /\ x.receipts = Merged(list, p)
    BY <1>1, <2>4 DEF Session
  <2>6. sessions' = [sessions EXCEPT ![s] = x]
    BY <1>1, <2>2
  <2>7. r \in Device /\ r.pc = "send" /\ r.session = s /\ r.sent = device[d].sent \cup {p.part}
    BY <1>1, <2>1 DEF Device
  <2>8. device' = [device EXCEPT ![d] = r]
    BY <1>1, <2>2 DEF Inv, TypeOK
  <2> HIDE DEF x, r
  <2>9. GoesOn(sessions', store')
    BY <1>1, <1>2, <2>4, <2>5, <2>6, SessionGoesOn
  <2>10. sessions'[s] = x /\ s \in DOMAIN sessions'
    BY <1>1, <2>6
  <2>11. r.sent \subseteq {q.part : q \in ToSet(sessions'[s].receipts)}
    BY <1>1, <2>4, <2>5, <2>7, <2>10
  <2>12. Consistent(r, sessions', store')
    BY <1>1, <2>7, <2>10, <2>11 DEF Consistent
  <2>13. QED
    BY <1>2, <2>8, <2>9, <2>12, DeviceStep
<1>4. CASE ~Live(s)
  <2>1. Done(d) /\ sessions' = sessions
    BY <1>4 DEF SaveReceipt
  <2>2. QED
    BY <1>2, <2>1, GoesOnAsIs, DoneInv
<1>5. QED
  BY <1>3, <1>4

\* A page asks for its session to be completed.
LEMMA CompleteInv ==
  ASSUME Inv, NEW d \in Devices, Complete(d)
  PROVE  Inv'
<1> DEFINE s == device[d].session
           fits == Live(s) /\ Size(sessions[s].receipts) = sessions[s].total
           r == [device[d] EXCEPT !.pc = "assemble", !.listed = sessions[s].receipts]
<1>1. /\ device[d] \in Device /\ s \in DOMAIN sessions /\ s # NoSession
      /\ device[d].sent \subseteq {q.part : q \in ToSet(sessions[s].receipts)}
  BY AtWork DEF Complete
<1>2. /\ sessions' = sessions /\ store' = store /\ asset' = asset
      /\ faults' = faults /\ faults' \in 0..MaxFaults
  BY DEF Complete, Inv, TypeOK
<1>3. CASE fits
  <2>1. sessions[s].receipts \in Seq(Receipts)
    BY <1>1, ReceiptsOfSession DEF Inv
  <2>2. r \in Device /\ r.pc = "assemble" /\ r.session = s /\ r.sent = device[d].sent
    BY <1>1, <2>1 DEF Device
  <2>3. device' = [device EXCEPT ![d] = r]
    BY <1>1, <1>3 DEF Complete, Inv, TypeOK
  <2> HIDE DEF r
  <2>4. Consistent(r, sessions, store)
    BY <1>1, <2>2 DEF Consistent
  <2>5. QED
    BY <1>2, <2>3, <2>4, PageStep
<1>4. CASE ~fits
  <2>1. Done(d)
    BY <1>4 DEF Complete
  <2>2. QED
    BY <1>2, <2>1, GoesOnAsIs, DoneInv
<1>5. QED
  BY <1>3, <1>4

\* The object store assembles an upload, for good.
LEMMA AssembleInv ==
  ASSUME Inv, NEW d \in Devices, Assemble(d)
  PROVE  Inv'
<1> DEFINE s == device[d].session
           listed == device[d].listed
           fits == store[s].open /\ \A i \in DOMAIN listed : store[s].parts[listed[i].part] = listed[i].content
           object == [i \in DOMAIN listed |-> listed[i].content]
           u == [store[s] EXCEPT !.open = FALSE, !.object = object]
           r == [device[d] EXCEPT !.pc = "verify", !.listed = <<>>]
<1>1. /\ device[d] \in Device /\ s \in DOMAIN sessions /\ s \in DOMAIN store /\ s # NoSession
      /\ store[s] \in Upload /\ device[d].sent \subseteq {q.part : q \in ToSet(sessions[s].receipts)}
  BY AtWork DEF Assemble
<1>2. sessions' = sessions /\ asset' = asset /\ faults' = faults /\ faults' \in 0..MaxFaults
  BY DEF Assemble, Inv, TypeOK
<1>3. CASE fits
  <2>1. object \in Seq(Files)
    <3>1. listed \in Seq(Receipts)
      BY <1>1 DEF Device
    <3> HIDE DEF listed
    <3>2. \A i \in 1..Len(listed) : listed[i] \in Receipts
      BY <3>1
    <3>3. \A i \in 1..Len(listed) : listed[i].content \in Files
      BY <3>2 DEF Receipts
    <3>4. DOMAIN listed = 1..Len(listed) /\ Len(listed) \in Nat
      BY <3>1
    <3>5. QED
      BY <3>3, <3>4
  <2>2. /\ store' = [store EXCEPT ![s].open = FALSE, ![s].object = object]
        /\ device' = [device EXCEPT ![d].pc = "verify", ![d].listed = <<>>]
    BY <1>3 DEF Assemble
  <2> HIDE DEF object
  <2>3. u \in Upload /\ u.open = FALSE
    BY <1>1, <2>1 DEF Upload
  <2>4. store' = [store EXCEPT ![s] = u]
    BY <1>1, <2>2
  <2>5. r \in Device /\ r.pc = "verify" /\ r.session = s /\ r.sent = device[d].sent
    <3>1. <<>> \in Seq(Receipts)
      OBVIOUS
    <3>2. QED
      BY <1>1, <3>1 DEF Device
  <2>6. device' = [device EXCEPT ![d] = r]
    BY <1>1, <2>2 DEF Inv, TypeOK
  <2> HIDE DEF u, r
  <2>7. GoesOn(sessions', store')
    BY <1>1, <1>2, <1>3, <2>3, <2>4, StoreGoesOn
  <2>8. store'[s] = u
    BY <1>1, <2>4
  <2>9. Consistent(r, sessions', store')
    BY <1>1, <1>2, <2>3, <2>5, <2>8 DEF Consistent
  <2>10. QED
    BY <1>2, <2>6, <2>7, <2>9, DeviceStep
<1>4. CASE ~fits
  <2>1. Done(d) /\ store' = store
    BY <1>4 DEF Assemble
  <2>2. QED
    BY <1>2, <2>1, GoesOnAsIs, DoneInv
<1>5. QED
  BY <1>3, <1>4

\* The object is read back: what is accepted is whole, and nobody can assemble it again.
LEMMA VerifyInv ==
  ASSUME Inv, NEW d \in Devices, Verify(d)
  PROVE  Inv'
<1> DEFINE s == device[d].session
<1>1. /\ s \in DOMAIN sessions /\ s # NoSession /\ sessions[s] \in Session /\ ~store[s].open
      /\ Ascending(sessions[s].receipts)
  BY AtWork DEF Verify, Inv, Sealed, TypeOK
<1>2. store' = store /\ faults' = faults /\ faults' \in 0..MaxFaults /\ Done(d)
  BY DEF Verify, Inv, TypeOK
<1>3. PICK end \in States : sessions' = [sessions EXCEPT ![s].state = end]
  BY DEF Verify, States
<1> DEFINE x == [sessions[s] EXCEPT !.state = end]
<1>4. x \in Session /\ x.receipts = sessions[s].receipts
  BY <1>1 DEF Session
<1>5. sessions' = [sessions EXCEPT ![s] = x]
  BY <1>1, <1>3
<1> HIDE DEF x
<1>6. GoesOn(sessions', store')
  BY <1>1, <1>2, <1>4, <1>5, SessionGoesOn
<1>7. \/ asset' = asset
      \/ asset' \in DOMAIN sessions' /\ ~store'[asset'].open /\ store'[asset'].object = Original
  BY <1>1, <1>2, <1>5 DEF Verify, Verified
<1>8. QED
  BY <1>2, <1>6, <1>7, DoneInv

-----------------------------------------------------------------------------
\* The invariant is inductive.
LEMMA NextInv == Inv /\ [Next]_vars => Inv'
<1> SUFFICES ASSUME Inv, [Next]_vars PROVE Inv'
  OBVIOUS
<1>1. ASSUME NEW d \in Devices, NEW c \in Campaigns, NEW f \in Files, Press(d, c, f) PROVE Inv'
  BY <1>1, PressInv
<1>2. ASSUME NEW d \in Devices, Serve(d) PROVE Inv'
  BY <1>2, CreateInv, OpenInv, SendPartInv, SaveReceiptInv, CompleteInv, AssembleInv, VerifyInv DEF Serve
<1>3. ASSUME NEW d \in Devices, Lose(d) PROVE Inv'
  BY <1>3, LoseInv
<1>4. ASSUME NEW s \in 1..MaxSessions, Expire(s) PROVE Inv'
  BY <1>4, ExpireInv
<1>5. CASE UNCHANGED vars
  BY <1>5 DEF vars, Inv, TypeOK, Working, Sealed, PartsAreKept, AssetIsWhole
<1>6. QED
  BY <1>1, <1>2, <1>3, <1>4, <1>5 DEF Next

\* The inductive invariant holds in every reachable state.
THEOREM UploadInvariance == Spec => []Inv
BY InitInv, NextInv, PTL DEF Spec

\* Every variable keeps its type, and the stored receipts stay unique and in order.
THEOREM UploadTypes == Spec => []TypeOK
<1>1. Inv => TypeOK
  BY DEF Inv
<1>2. QED
  BY <1>1, UploadInvariance, PTL

\* However many pages upload however many parts of whatever files: a part that was
\* acknowledged to a page stays in the session it sends to.
THEOREM ReceiptsSurvive == Spec => []PartsAreKept
<1>1. Inv => PartsAreKept
  BY DEF Inv
<1>2. QED
  BY <1>1, UploadInvariance, PTL

\* The object that was accepted for the original is and stays the whole original.
THEOREM AcceptedIsWhole == Spec => []AssetIsWhole
<1>1. Inv => AssetIsWhole
  BY DEF Inv
<1>2. QED
  BY <1>1, UploadInvariance, PTL
=============================================================================
