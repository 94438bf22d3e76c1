------------------------- MODULE ConnectedSyncProofs -------------------------
(***************************************************************************)
(* Theorems about ConnectedSync for any number of devices and pages, every *)
(* finite set of commands and every bound.                                 *)
(***************************************************************************)
EXTENDS ConnectedSync, FiniteSetTheorems, TLAPS

\* IsPrefix, element by element.
Begins(s, t) == Len(s) <= Len(t) /\ \A i \in 1..Len(s) : t[i] = s[i]

\* A state of the campaign: commands among those issued, none of them twice.
Good(s, ids) ==
  /\ s \in Seq(ids)
  /\ \A i, k \in 1..Len(s) : s[i] = s[k] => i = k

\* Commands that may follow the state base: issued, none of them twice or in base.
Follow(base, commands, ids) ==
  /\ commands \in Batch
  /\ \A i \in 1..Len(commands) : commands[i].id \in ids
  /\ \A i, k \in 1..Len(commands) : commands[i].id = commands[k].id => i = k
  /\ \A i \in 1..Len(commands) : \A k \in 1..Len(base) : base[k] # commands[i].id

\* State is what commands make of base.
Joined(state, base, commands) ==
  /\ Len(state) = Len(base) + Len(commands)
  /\ \A i \in 1..Len(base) : state[i] = base[i]
  /\ \A i \in 1..Len(commands) : state[Len(base) + i] = commands[i].id

\* Each command was made for the revision it meets after base.
InTurn(base, commands) ==
  \A i \in 1..Len(commands) : commands[i].base = Len(base) + i - 1

\* The cloud campaign with the head h was in this state once; it holds command c.
Past(s, h) == h # Nothing /\ Begins(s, h.state)
Holds(h, c) == h # Nothing /\ \E i \in 1..Len(h.state) : h.state[i] = c

Answered(id, answers) == \E x \in answers : x.request.id = id
Synced(id, answers) == \E x \in answers : x.request.id = id /\ x.receipt.status = "synced"

RequestOf(d, box) ==
  [id |-> box.request, device |-> d, base |-> box.base,
   initial |-> box.initial, commands |-> Prefix(box)]

-----------------------------------------------------------------------------
\* The head is a stored revision, and before it is set only the origin has the campaign.
HeadInv ==
  /\ head # Nothing => Good(head.state, issued) /\ head.state \in revisions
  /\ \A s \in revisions : Good(s, issued)
  /\ head = Nothing => \A d \in Devices : d # Origin => stored[d] = Nothing

\* A branch with commands of its own left the history of the head h.
BranchOK(b, h, ids) ==
  /\ Good(b.base, ids) /\ Good(b.state, ids)
  /\ b.state # b.base =>
       /\ h # Nothing
       /\ Len(b.base) < Len(b.state) /\ Len(b.base) < Len(h.state)
       /\ b.state[Len(b.base) + 1] # h.state[Len(b.base) + 1]

\* An answer says what became of a request that was sent.
ReceiptOK(x, h, ids, revs, net) ==
  /\ x.request \in net
  /\ Good(x.receipt.state, ids)
  /\ Joined(x.receipt.state, x.request.base, x.request.commands)
  /\ x.receipt.status = "synced" => Past(x.receipt.state, h) /\ x.receipt.state \in revs

\* A request that was sent; one that was not answered is its device's pending one, or
\* has nothing to say.
RequestOK(q, h, ids, n, net, answers, box) ==
  /\ q.id <= n
  /\ Good(q.base, ids) /\ Follow(q.base, q.commands, ids)
  /\ IF q.initial THEN q.commands = <<>> ELSE Past(q.base, h)
  /\ \A r \in net : r.id = q.id => r = q
  /\ \/ Answered(q.id, answers)
     \/ box # Nothing /\ box.request = q.id
     \/ q.commands = <<>> /\ ~q.initial

\* The state a device stores and its outbox, and what the head may have of it: the
\* commands of the pending request, when it was synced.
BoxOK(d, box, state, h, ids, n, net, answers) ==
  /\ state # Nothing => Good(state, ids)
  /\ box # Nothing =>
       /\ state # Nothing
       /\ Good(box.base, ids) /\ Follow(box.base, box.commands, ids)
       /\ box.count <= Len(box.commands)
       /\ IF box.initial THEN box.count = 0 ELSE Past(box.base, h)
       /\ box.request # Nothing => box.request <= n
       /\ \A q \in net : q.id = box.request => q = RequestOf(d, box)
       /\ \A i \in 1..Len(box.commands) :
            Holds(h, box.commands[i].id) => i <= box.count /\ Synced(box.request, answers)

\* The outboxes of two devices share neither requests nor commands.
Apart(one, two) ==
  one # Nothing /\ two # Nothing =>
    /\ one.request # Nothing => one.request # two.request
    /\ \A i \in 1..Len(one.commands), k \in 1..Len(two.commands) :
         one.commands[i].id # two.commands[k].id

\* While every edit is made on what its device stores, the outbox leads there.
LocalOK(box, state, revision, revs) ==
  state # Nothing =>
    /\ revision = Len(state)
    /\ box # Nothing /\ ~box.overflow =>
         /\ Joined(state, box.base, box.commands)
         /\ InTurn(box.base, box.commands)
         /\ box.base \in revs \/ box.initial

\* A page of a device that stores state, and has the outbox box.
ShowsOK(g, state, box, ids) ==
  /\ g.shown # Nothing => state # Nothing /\ Good(g.shown, ids)
  /\ g.state # Nothing => Good(g.state, ids)
  /\ g.at \in {"enabling", "opening"} => state # Nothing
  /\ g.at = "enabling" => g.state # Nothing
  /\ g.at \in {"preparing", "waiting", "acknowledging"} => box # Nothing
SendsOK(g, d, h, revs, net, answers) ==
  /\ g.at = "installing" => g.state # Nothing /\ Past(g.state, h) /\ g.state \in revs
  /\ g.at \in {"waiting", "acknowledging"} => g.request \in net /\ g.request.device = d
  /\ g.at = "acknowledging" => [request |-> g.request, receipt |-> g.receipt] \in answers
\* While every edit is made on what its device stores, a page shows an earlier state.
TrailsOK(g, state) ==
  /\ g.shown # Nothing => Begins(g.shown, state)
  /\ g.at = "enabling" => Begins(g.state, state)

Has(s, c) == s # Nothing /\ \E i \in 1..Len(s) : s[i] = c
Kept(c) ==
  \/ \E d \in Devices : Has(stored[d], c)
  \/ Holds(head, c)
  \/ \E b \in branches : Has(b.state, c)

BranchInv == \A b \in branches : BranchOK(b, head, issued)
ReceiptInv == \A x \in receipts : ReceiptOK(x, head, issued, revisions, network)
NetInv == \A q \in network :
            RequestOK(q, head, issued, requested, network, receipts, outbox[q.device])
BoxInv == \A d \in Devices :
            BoxOK(d, outbox[d], stored[d], head, issued, requested, network, receipts)
ApartInv == \A d, e \in Devices : d # e => Apart(outbox[d], outbox[e])
LocalInv == late = 0 => \A d \in Devices : LocalOK(outbox[d], stored[d], row[d], revisions)
\* The page g would be right on the device d.
Fit(g, d) ==
  /\ ShowsOK(g, stored[d], outbox[d], issued)
  /\ SendsOK(g, d, head, revisions, network, receipts)
  /\ late = 0 => TrailsOK(g, stored[d])
PageGood(p) == Fit(page[p], DeviceOf[p])
PageInv == \A p \in Pages : PageGood(p)
KeptInv == late = 0 => \A c \in issued : Kept(c)

Inv == /\ TypeOK /\ HeadInv /\ BranchInv /\ ReceiptInv /\ NetInv
       /\ BoxInv /\ ApartInv /\ LocalInv /\ PageInv /\ KeptInv

-----------------------------------------------------------------------------
\* Prefixes of prefixes.
LEMMA BeginsTransitive ==
  ASSUME NEW S, NEW s \in Seq(S), NEW t \in Seq(S), NEW u \in Seq(S), Begins(s, t), Begins(t, u)
  PROVE  Begins(s, u)
  BY DEF Begins

\* A prefix of the same length is the whole.
LEMMA BeginsWhole ==
  ASSUME NEW S, NEW s \in Seq(S), NEW t \in Seq(S), Begins(s, t), Len(t) <= Len(s)
  PROVE  s = t
<1>1. Len(s) = Len(t) /\ \A i \in 1..Len(s) : s[i] = t[i]
  BY DEF Begins
<1>2. QED
  BY <1>1

\* Of two prefixes of one state the shorter begins the longer.
LEMMA BeginsShorter ==
  ASSUME NEW S, NEW s \in Seq(S), NEW t \in Seq(S), NEW u \in Seq(S),
         Begins(s, u), Begins(t, u), Len(s) <= Len(t)
  PROVE  Begins(s, t)
  BY DEF Begins

\* Begins is IsPrefix.
LEMMA PrefixBegins ==
  ASSUME NEW S, NEW s \in Seq(S), NEW t \in Seq(S), IsPrefix(s, t)
  PROVE  Begins(s, t)
<1>1. /\ Len(s) \in Nat /\ Len(t) \in Nat /\ Len(s) <= Len(t)
      /\ SubSeq(s, 1, Len(s)) = SubSeq(t, 1, Len(s))
  BY DEF IsPrefix
<1>2. /\ \A i \in 1..Len(s) : SubSeq(s, 1, Len(s))[i] = s[i]
      /\ \A i \in 1..Len(s) : SubSeq(t, 1, Len(s))[i] = t[i]
  BY <1>1
<1>3. QED
  BY <1>1, <1>2 DEF Begins

\* A longer set of issued commands changes no state.
LEMMA GoodMore ==
  ASSUME NEW ids, NEW more, ids \subseteq more, NEW s, Good(s, ids)
  PROVE  Good(s, more)
<1>1. s \in Seq(more)
  BY DEF Good
<1>2. QED
  BY <1>1 DEF Good

\* A state has at most as many commands as there are.
LEMMA GoodIsState ==
  ASSUME NEW s, NEW ids, Good(s, ids), ids \subseteq Commands
  PROVE  s \in States /\ Len(s) \in 0..Cardinality(Commands) /\ s # Nothing
<1>1. Len(s) \in Nat /\ s \in [1..Len(s) -> Commands] /\ s \in Seq(Commands)
  BY DEF Good
<1>2. s \in Injection(1..Len(s), Commands)
  BY <1>1 DEF Injection, IsInjective, Good
<1>3. IsFiniteSet(Commands) /\ Cardinality(Commands) \in Nat
  BY LimitsAssumption, FS_CardinalityType
<1>4. Cardinality(1..Len(s)) <= Cardinality(Commands)
  BY <1>2, <1>3, FS_Injection
<1>5. Cardinality(1..Len(s)) = Len(s)
  BY <1>1, FS_Interval
<1>6. Len(s) \in 0..Cardinality(Commands)
  BY <1>1, <1>3, <1>4, <1>5
<1>7. s \in States
  BY <1>1, <1>6 DEF States, SeqOf
<1>8. QED
  BY <1>6, <1>7, NothingAssumption

\* States are sequences.
LEMMA StateIsSeq ==
  ASSUME NEW s \in States PROVE s \in Seq(Commands)
<1>1. PICK m \in 0..Cardinality(Commands) : s \in [1..m -> Commands]
  BY DEF States, SeqOf
<1>2. Cardinality(Commands) \in Nat
  BY LimitsAssumption, FS_CardinalityType
<1>3. QED
  BY <1>1, <1>2

\* One more command, issued now.
LEMMA GoodAppend ==
  ASSUME NEW s, NEW ids, Good(s, ids), NEW c, c \notin ids
  PROVE  /\ Good(Append(s, c), ids \cup {c})
         /\ Len(Append(s, c)) = Len(s) + 1 /\ Len(s) \in Nat
         /\ Append(s, c)[Len(s) + 1] = c
         /\ Begins(s, Append(s, c))
<1> DEFINE t == Append(s, c)
<1>1. s \in Seq(ids) /\ Len(s) \in Nat /\ s \in Seq(ids \cup {c})
  BY DEF Good
<1>2. /\ t \in Seq(ids \cup {c}) /\ Len(t) = Len(s) + 1 /\ t[Len(s) + 1] = c
      /\ \A i \in 1..Len(s) : t[i] = s[i]
  BY <1>1
<1>3. \A i \in 1..Len(s) : s[i] # c
  BY <1>1
<1> HIDE DEF t
<1>4. \A i, k \in 1..Len(t) : t[i] = t[k] => i = k
  BY <1>1, <1>2, <1>3 DEF Good
<1>5. QED
  BY <1>1, <1>2, <1>4 DEF Good, Begins, t

\* What replay_sync makes of a state and commands that may follow it.
LEMMA JoinFacts ==
  ASSUME NEW base, NEW commands, NEW ids, Good(base, ids), Follow(base, commands, ids),
         NEW s, s = base \o [i \in 1..Len(commands) |-> commands[i].id]
  PROVE  Good(s, ids) /\ Joined(s, base, commands) /\ Begins(base, s)
<1> DEFINE t == [i \in 1..Len(commands) |-> commands[i].id]
<1>1. /\ base \in Seq(ids) /\ Len(base) \in Nat /\ Len(commands) \in Nat
      /\ \A i \in 1..Len(commands) : commands[i].id \in ids
  BY DEF Good, Follow, Batch
<1>2. t \in Seq(ids) /\ Len(t) = Len(commands) /\ \A i \in 1..Len(commands) : t[i] = commands[i].id
  BY <1>1
<1> HIDE DEF t
<1>3. /\ s \in Seq(ids) /\ Len(s) = Len(base) + Len(commands)
      /\ \A i \in 1..Len(base) : s[i] = base[i]
      /\ \A i \in 1..Len(t) : s[Len(base) + i] = t[i]
  BY <1>1, <1>2 DEF t
<1>4. Joined(s, base, commands)
  BY <1>2, <1>3 DEF Joined
<1>5. ASSUME NEW i \in 1..Len(s), NEW k \in 1..Len(s), i < k, s[i] = s[k] PROVE FALSE
  <2>1. CASE k <= Len(base)
    BY <1>1, <1>3, <1>5, <2>1 DEF Good
  <2>2. CASE k > Len(base)
    <3>1. PICK m \in 1..Len(commands) : k = Len(base) + m
      <4>1. k - Len(base) \in 1..Len(commands) /\ k = Len(base) + (k - Len(base))
        BY <1>1, <1>3, <2>2
      <4>2. QED
        BY <4>1
    <3>2. s[k] = commands[m].id
      BY <1>4, <3>1 DEF Joined
    <3>3. CASE i <= Len(base)
      BY <1>1, <1>3, <1>5, <3>2, <3>3 DEF Follow
    <3>4. CASE i > Len(base)
      <4>1. PICK n \in 1..Len(commands) : i = Len(base) + n
        <5>1. i - Len(base) \in 1..Len(commands) /\ i = Len(base) + (i - Len(base))
          BY <1>1, <1>3, <3>4
        <5>2. QED
          BY <5>1
      <4>2. s[i] = commands[n].id
        BY <1>4, <4>1 DEF Joined
      <4>3. n = m
        BY <1>5, <3>2, <4>2 DEF Follow
      <4>4. QED
        BY <1>1, <1>5, <3>1, <4>1, <4>3
    <3>5. QED
      BY <1>1, <3>3, <3>4
  <2>3. QED
    BY <1>1, <2>1, <2>2
<1>6. \A i, k \in 1..Len(s) : s[i] = s[k] => i = k
  BY <1>3, <1>5
<1>7. Good(s, ids)
  BY <1>3, <1>6 DEF Good
<1>8. Len(base) <= Len(s)
  BY <1>1, <1>4 DEF Joined
<1>9. QED
  BY <1>3, <1>4, <1>7, <1>8 DEF Begins

\* replay_sync, when it accepts the commands.
LEMMA ReplayFacts ==
  ASSUME NEW base, NEW commands, NEW ids, Good(base, ids), Follow(base, commands, ids),
         NEW s, s = ReplaySync(base, commands), s # Nothing
  PROVE  Good(s, ids) /\ Joined(s, base, commands) /\ Begins(base, s)
<1>1. s = base \o [i \in 1..Len(commands) |-> commands[i].id]
  BY DEF ReplaySync
<1>2. QED
  BY <1>1, JoinFacts

\* A state that is joined from commands in turn is what replay_sync makes of them.
LEMMA ReplayIsJoined ==
  ASSUME NEW base, NEW commands, NEW ids, Good(base, ids), Follow(base, commands, ids),
         NEW s, Good(s, ids), Joined(s, base, commands), InTurn(base, commands)
  PROVE  ReplaySync(base, commands) = s
<1> DEFINE r == base \o [i \in 1..Len(commands) |-> commands[i].id]
<1>1. Good(r, ids) /\ Joined(r, base, commands)
  <2> HIDE DEF r
  <2>1. \A t : t = r => Good(t, ids) /\ Joined(t, base, commands)
    BY JoinFacts DEF r
  <2>2. QED
    BY <2>1
<1>2. ReplaySync(base, commands) = r
  BY DEF ReplaySync, InTurn, Revision
<1> HIDE DEF r
<1>3. /\ Len(base) \in Nat /\ Len(commands) \in Nat
      /\ r \in Seq(ids) /\ s \in Seq(ids) /\ Len(r) = Len(s)
  BY <1>1 DEF Good, Follow, Batch, Joined
<1>4. ASSUME NEW i \in 1..Len(s) PROVE s[i] = r[i]
  <2>1. CASE i <= Len(base)
    <3>1. i \in 1..Len(base)
      BY <1>3, <2>1
    <3>2. QED
      BY <1>1, <3>1 DEF Joined
  <2>2. CASE i > Len(base)
    <3>1. PICK m \in 1..Len(commands) : i = Len(base) + m
      <4>1. i - Len(base) \in 1..Len(commands) /\ i = Len(base) + (i - Len(base))
        BY <1>3, <2>2 DEF Joined
      <4>2. QED
        BY <4>1
    <3>2. s[i] = commands[m].id /\ r[i] = commands[m].id
      BY <1>1, <3>1 DEF Joined
    <3>3. QED
      BY <3>2
  <2>3. QED
    BY <1>3, <2>1, <2>2
<1>5. s = r
  BY <1>3, <1>4
<1>6. QED
  BY <1>2, <1>5

-----------------------------------------------------------------------------
\* What is left of the types.
StoreTypes ==
  /\ stored \in [Devices -> States \cup {Nothing}]
  /\ row \in [Devices -> 0 .. Cardinality(Commands)]
  /\ outbox \in [Devices -> Outbox \cup {Nothing}]
PageTypes == page \in [Pages -> Page]
ServerTypes ==
  /\ network \subseteq Request
  /\ head \in SyncHead \cup {Nothing}
  /\ revisions \subseteq States
  /\ \A a, b \in revisions : Revision(a) = Revision(b) => a = b
  /\ receipts \subseteq [request : Request, receipt : Receipt]
  /\ \A a, b \in receipts : a.request.id = b.request.id => a = b
  /\ branches \subseteq Branch
  /\ issued \subseteq Commands /\ requested \in 0 .. MaxRequests /\ late \in 0 .. MaxLate

\* The types by their parts.
LEMMA Types == TypeOK <=> StoreTypes /\ PageTypes /\ ServerTypes
  BY DEF TypeOK, StoreTypes, PageTypes, ServerTypes

\* A prefix of what the head was is one of what it is.
LEMMA PastGrows ==
  ASSUME NEW s \in Seq(Commands), NEW h, NEW k, Past(s, h), h.state \in Seq(Commands),
         k # Nothing, k.state \in Seq(Commands), Begins(h.state, k.state)
  PROVE  Past(s, k)
  BY BeginsTransitive DEF Past

\* Pages that a step leaves alone are as right after it, if what is stored, issued,
\* sent and answered only grew.
LEMMA ShowsGrows ==
  ASSUME NEW g, NEW s, NEW t, NEW one, NEW two, NEW ids, NEW more,
         ShowsOK(g, s, one, ids), ids \subseteq more,
         s # Nothing => t # Nothing, one # Nothing => two # Nothing
  PROVE  ShowsOK(g, t, two, more)
  BY GoodMore DEF ShowsOK

\* The same for what a page sends and loads.
LEMMA SendsGrows ==
  ASSUME NEW g, NEW d, NEW h, NEW k, NEW revs, NEW revs2, NEW net, NEW net2,
         NEW answers, NEW answers2,
         SendsOK(g, d, h, revs, net, answers),
         revs \subseteq revs2, net \subseteq net2, answers \subseteq answers2,
         g.at = "installing" /\ Past(g.state, h) => Past(g.state, k)
  PROVE  SendsOK(g, d, k, revs2, net2, answers2)
  BY DEF SendsOK

-----------------------------------------------------------------------------
\* Nothing is taken back: what was issued, sent, answered and stored stays, the head only
\* goes on, and so does a device whose edits are all made on what it stores.
Grown ==
  /\ issued \subseteq issued' /\ network \subseteq network'
  /\ revisions \subseteq revisions' /\ receipts \subseteq receipts' /\ branches \subseteq branches'
  /\ requested <= requested'
  /\ head # Nothing => head' # Nothing /\ Begins(head.state, head'.state)
  /\ \A d \in Devices :
       /\ stored[d] # Nothing => stored'[d] # Nothing
       /\ outbox[d] # Nothing => outbox'[d] # Nothing
       /\ late' = 0 /\ stored[d] # Nothing => Begins(stored[d], stored'[d])
  /\ late' = 0 => late = 0

\* Sequences that occur.
LEMMA Sequences ==
  ASSUME Inv
  PROVE  /\ head # Nothing => head.state \in Seq(Commands)
         /\ \A d \in Devices : stored[d] # Nothing => stored[d] \in Seq(Commands)
         /\ \A s, ids : Good(s, ids) /\ ids \subseteq Commands => s \in Seq(Commands)
         /\ issued \subseteq Commands
<1>1. ServerTypes /\ StoreTypes
  BY Types DEF Inv
<1>2. \A s, ids : Good(s, ids) /\ ids \subseteq Commands => s \in Seq(Commands)
  BY DEF Good
<1>3. head # Nothing => Good(head.state, issued)
  BY DEF Inv, HeadInv
<1>4. \A d \in Devices : stored[d] # Nothing => Good(stored[d], issued)
  BY DEF Inv, BoxInv, BoxOK
<1>5. issued \subseteq Commands
  BY <1>1 DEF ServerTypes
<1>6. QED
  BY <1>2, <1>3, <1>4, <1>5

\* A head that goes on has been in all the states it had been in.
LEMMA PastStays ==
  ASSUME Inv, Grown, head' # Nothing => head'.state \in Seq(Commands),
         NEW s \in Seq(Commands), Past(s, head)
  PROVE  Past(s, head')
<1>1. head # Nothing /\ head.state \in Seq(Commands)
  BY Sequences DEF Past
<1>2. head' # Nothing /\ head'.state \in Seq(Commands) /\ Begins(head.state, head'.state)
  BY <1>1 DEF Grown
<1>3. QED
  BY <1>1, <1>2, BeginsTransitive DEF Past

\* A page that was right before a step, and what a step makes of it, if that would have
\* been right before.
LEMMA PageStays ==
  ASSUME Inv, Grown, StoreTypes', head' # Nothing => head'.state \in Seq(Commands),
         NEW p \in Pages, page'[p] = page[p] \/ Fit(page'[p], DeviceOf[p])
  PROVE  PageGood(p)'
<1> DEFINE g == page'[p]
           d == DeviceOf[p]
<1>1. /\ d \in Devices
      /\ ShowsOK(g, stored[d], outbox[d], issued)
      /\ SendsOK(g, d, head, revisions, network, receipts)
      /\ late = 0 => TrailsOK(g, stored[d])
  BY DevicesAssumption DEF Inv, PageInv, PageGood, Fit
<1>2. ShowsOK(g, stored'[d], outbox'[d], issued')
  <2>1. issued \subseteq issued'
    BY DEF Grown
  <2>2. stored[d] # Nothing => stored'[d] # Nothing
    BY <1>1 DEF Grown
  <2>3. outbox[d] # Nothing => outbox'[d] # Nothing
    BY <1>1 DEF Grown
  <2> HIDE DEF g, d
  <2>4. QED
    BY <1>1, <2>1, <2>2, <2>3, ShowsGrows
<1>3. SendsOK(g, d, head', revisions', network', receipts')
  <2>1. ASSUME g.at = "installing", Past(g.state, head) PROVE Past(g.state, head')
    <3>1. Good(g.state, issued)
      BY <1>1, <2>1 DEF SendsOK, ShowsOK
    <3>2. g.state \in Seq(Commands)
      BY <3>1, Sequences
    <3>3. QED
      BY <2>1, <3>2, PastStays
  <2>2. /\ revisions \subseteq revisions' /\ network \subseteq network'
        /\ receipts \subseteq receipts'
    BY DEF Grown
  <2> HIDE DEF g, d
  <2>3. QED
    BY <1>1, <2>1, <2>2, SendsGrows
<1>4. ASSUME late' = 0 PROVE TrailsOK(g, stored'[d])
  <2>1. TrailsOK(g, stored[d])
    BY <1>1, <1>4 DEF Grown
  <2>2. stored[d] # Nothing => /\ stored'[d] # Nothing /\ Begins(stored[d], stored'[d])
                               /\ stored[d] \in Seq(Commands)
    BY <1>1, <1>4, Sequences DEF Grown
  <2>3. stored'[d] # Nothing => stored'[d] \in Seq(Commands)
    <3>1. stored'[d] \in States \cup {Nothing}
      BY <1>1 DEF StoreTypes
    <3>2. QED
      BY <3>1, StateIsSeq
  <2>4. ASSUME g.shown # Nothing PROVE Begins(g.shown, stored'[d])
    <3>1. stored[d] # Nothing /\ Good(g.shown, issued) /\ Begins(g.shown, stored[d])
      BY <1>1, <2>1, <2>4 DEF ShowsOK, TrailsOK
    <3>2. g.shown \in Seq(Commands)
      BY <3>1, Sequences
    <3>3. QED
      BY <2>2, <2>3, <3>1, <3>2, BeginsTransitive
  <2>5. ASSUME g.at = "enabling" PROVE Begins(g.state, stored'[d])
    <3>1. stored[d] # Nothing /\ Good(g.state, issued) /\ Begins(g.state, stored[d])
      BY <1>1, <2>1, <2>5 DEF ShowsOK, TrailsOK
    <3>2. g.state \in Seq(Commands)
      BY <3>1, Sequences
    <3>3. QED
      BY <2>2, <2>3, <3>1, <3>2, BeginsTransitive
  <2>6. QED
    BY <2>4, <2>5 DEF TrailsOK
<1>5. QED
  BY <1>2, <1>3, <1>4 DEF PageGood, Fit

\* A branch that is there already.
LEMMA BranchesStay ==
  ASSUME Inv, Grown, head' # Nothing => head'.state \in Seq(Commands), NEW b \in branches
  PROVE  BranchOK(b, head', issued')
<1>1. BranchOK(b, head, issued) /\ issued \subseteq issued'
  BY DEF Inv, BranchInv, Grown
<1>2. Good(b.base, issued') /\ Good(b.state, issued')
  BY <1>1, GoodMore DEF BranchOK
<1>3. ASSUME b.state # b.base
      PROVE  /\ head' # Nothing
             /\ Len(b.base) < Len(b.state) /\ Len(b.base) < Len(head'.state)
             /\ b.state[Len(b.base) + 1] # head'.state[Len(b.base) + 1]
  <2>1. /\ head # Nothing
        /\ Len(b.base) < Len(b.state) /\ Len(b.base) < Len(head.state)
        /\ b.state[Len(b.base) + 1] # head.state[Len(b.base) + 1]
    BY <1>1, <1>3 DEF BranchOK
  <2>2. /\ head' # Nothing /\ Begins(head.state, head'.state)
        /\ head.state \in Seq(Commands) /\ head'.state \in Seq(Commands)
    BY <2>1, Sequences DEF Grown
  <2>3. Len(b.base) \in Nat /\ Len(head.state) \in Nat /\ Len(head'.state) \in Nat
    BY <1>1, <2>2 DEF BranchOK, Good
  <2>4. Len(b.base) + 1 \in 1..Len(head.state)
    BY <2>1, <2>3
  <2>5. head'.state[Len(b.base) + 1] = head.state[Len(b.base) + 1]
    BY <2>2, <2>4 DEF Begins
  <2>6. QED
    BY <2>1, <2>2, <2>3, <2>5 DEF Begins
<1>4. QED
  BY <1>2, <1>3 DEF BranchOK

\* An answer that was given.
LEMMA ReceiptsStay ==
  ASSUME Inv, Grown, head' # Nothing => head'.state \in Seq(Commands), NEW x \in receipts
  PROVE  ReceiptOK(x, head', issued', revisions', network')
<1>1. ReceiptOK(x, head, issued, revisions, network) /\ issued \subseteq issued'
  BY DEF Inv, ReceiptInv, Grown
<1>2. x.receipt.state \in Seq(Commands) /\ Good(x.receipt.state, issued')
  BY <1>1, GoodMore, Sequences DEF ReceiptOK
<1>3. Past(x.receipt.state, head) => Past(x.receipt.state, head')
  BY <1>2, PastStays
<1>4. QED
  BY <1>1, <1>2, <1>3 DEF ReceiptOK, Grown

\* A device keeps every command it stores while edits are made on that.
LEMMA CommandsStay ==
  ASSUME Inv, Grown, late' = 0, NEW c \in issued,
         head' # Nothing => head'.state \in Seq(Commands)
  PROVE  Kept(c)'
<1>1. Kept(c)
  BY DEF Inv, KeptInv, Grown
<1>2. ASSUME NEW d \in Devices, Has(stored[d], c) PROVE Has(stored'[d], c)
  BY <1>2, Sequences DEF Has, Grown, Begins
<1>3. ASSUME Holds(head, c) PROVE Holds(head', c)
  BY <1>3, Sequences DEF Holds, Grown, Begins
<1>4. ASSUME NEW b \in branches, Has(b.state, c) PROVE b \in branches'
  BY DEF Grown
<1>5. QED
  BY <1>1, <1>2, <1>3, <1>4 DEF Kept

-----------------------------------------------------------------------------
\* A page at rest that shows what it showed, or what is stored.
LEMMA AtRest ==
  ASSUME Inv, NEW p \in Pages
  PROVE  /\ Fit(Resting(page[p].shown), DeviceOf[p])
         /\ Fit(Resting(stored[DeviceOf[p]]), DeviceOf[p])
         /\ Resting(page[p].shown) \in Page /\ Resting(stored[DeviceOf[p]]) \in Page
<1> DEFINE d == DeviceOf[p]
<1>1. /\ Fit(page[p], d) /\ d \in Devices /\ page[p] \in Page
      /\ stored[d] \in States \cup {Nothing}
  BY DevicesAssumption DEF Inv, PageInv, PageGood, TypeOK
<1>2. stored[d] # Nothing => Good(stored[d], issued) /\ stored[d] \in Seq(Commands)
  BY <1>1, Sequences DEF Inv, BoxInv, BoxOK
<1>3. stored[d] # Nothing => Begins(stored[d], stored[d])
  BY <1>2 DEF Begins
<1>4. page[p].shown \in States \cup {Nothing}
  BY <1>1 DEF Page
<1> HIDE DEF d
<1>5. Fit(Resting(page[p].shown), d)
  BY <1>1 DEF Fit, Resting, ShowsOK, SendsOK, TrailsOK
<1>6. Fit(Resting(stored[d]), d)
  BY <1>2, <1>3 DEF Fit, Resting, ShowsOK, SendsOK, TrailsOK
<1>7. \A x \in States \cup {Nothing} : Resting(x) \in Page
  BY DEF Resting, Page
<1>8. QED
  BY <1>1, <1>4, <1>5, <1>6, <1>7 DEF d

\* A step of pages alone.
LEMMA PageStep ==
  ASSUME Inv, UNCHANGED <<deviceVars, network, serverVars, bounds>>, page' \in [Pages -> Page],
         \A q \in Pages : page'[q] = page[q] \/ Fit(page'[q], DeviceOf[q])
  PROVE  Inv'
<1>1. /\ stored' = stored /\ row' = row /\ outbox' = outbox /\ network' = network
      /\ head' = head /\ revisions' = revisions /\ receipts' = receipts
      /\ branches' = branches /\ issued' = issued /\ requested' = requested /\ late' = late
  BY DEF deviceVars, serverVars, bounds
<1>2. TypeOK'
  BY <1>1 DEF Inv, TypeOK
<1>3. HeadInv' /\ BranchInv' /\ ReceiptInv' /\ ApartInv' /\ LocalInv'
  BY <1>1 DEF Inv, HeadInv, BranchInv, ReceiptInv, ApartInv, LocalInv
<1>4. NetInv' /\ BoxInv'
  BY <1>1 DEF Inv, NetInv, BoxInv
<1>5. KeptInv'
  BY <1>1 DEF Inv, KeptInv, Kept
<1>6. PageInv'
  BY <1>1 DEF Inv, PageInv, PageGood, Fit
<1>7. QED
  BY <1>2, <1>3, <1>4, <1>5, <1>6 DEF Inv

\* A reload: the page shows what is stored.
LEMMA ReopenStep == ASSUME Inv, NEW p \in Pages, Reopen(p) PROVE Inv'
<1>1. page' = [page EXCEPT ![p] = Resting(stored[DeviceOf[p]])] /\ page \in [Pages -> Page]
  BY DEF Reopen, Inv, TypeOK
<1>2. page' \in [Pages -> Page] /\ \A q \in Pages : page'[q] = page[q] \/ Fit(page'[q], DeviceOf[q])
  BY <1>1, AtRest
<1>3. QED
  BY <1>2, PageStep DEF Reopen

\* Sync starts with the state that is shown.
LEMMA SyncStep == ASSUME Inv, NEW p \in Pages, Sync(p) PROVE Inv'
<1> DEFINE g == [page[p] EXCEPT !.at = "enabling", !.state = page[p].shown]
<1>1. /\ page' = [page EXCEPT ![p] = g] /\ page \in [Pages -> Page]
      /\ page[p].at = "idle" /\ page[p].shown # Nothing
  BY DEF Sync, Inv, TypeOK
<1>2. page[p] \in Page /\ Fit(page[p], DeviceOf[p])
  BY <1>1 DEF Inv, PageInv, PageGood
<1>3. g \in Page
  BY <1>2 DEF Page
<1>4. /\ g.shown = page[p].shown /\ g.at = "enabling" /\ g.state = page[p].shown
      /\ g.request = page[p].request /\ g.receipt = page[p].receipt
  BY <1>2 DEF Page
<1> HIDE DEF g
<1>5. Fit(g, DeviceOf[p])
  BY <1>1, <1>2, <1>4 DEF Fit, ShowsOK, SendsOK, TrailsOK
<1>6. page' \in [Pages -> Page] /\ \A q \in Pages : page'[q] = page[q] \/ Fit(page'[q], DeviceOf[q])
  BY <1>1, <1>3, <1>5
<1>7. QED
  BY <1>6, PageStep DEF Sync

\* The answer is given up.
LEMMA GiveUpStep == ASSUME Inv, NEW p \in Pages, GiveUp(p) PROVE Inv'
<1>1. page' = [page EXCEPT ![p] = Resting(page[p].shown)] /\ page \in [Pages -> Page]
  BY DEF GiveUp, Inv, TypeOK
<1>2. page' \in [Pages -> Page] /\ \A q \in Pages : page'[q] = page[q] \/ Fit(page'[q], DeviceOf[q])
  BY <1>1, AtRest
<1>3. QED
  BY <1>2, PageStep DEF GiveUp

\* What is loaded is the head, a revision.
LEMMA LoadStep == ASSUME Inv, NEW p \in Pages, Load(p) PROVE Inv'
<1> DEFINE g == [page[p] EXCEPT !.at = "installing", !.state = head.state]
<1>1. /\ page' = [page EXCEPT ![p] = g] /\ page \in [Pages -> Page]
      /\ page[p].at = "idle" /\ head # Nothing
  BY DEF Load, Inv, TypeOK
<1>2. page[p] \in Page /\ Fit(page[p], DeviceOf[p])
  BY <1>1 DEF Inv, PageInv, PageGood
<1>3. /\ Good(head.state, issued) /\ head.state \in revisions /\ head.state \in Seq(Commands)
      /\ head.state \in States
  BY <1>1, Sequences DEF Inv, HeadInv, TypeOK
<1>4. Past(head.state, head)
  BY <1>1, <1>3 DEF Past, Begins
<1>5. g \in Page
  BY <1>2, <1>3 DEF Page
<1>6. g.shown = page[p].shown /\ g.at = "installing" /\ g.state = head.state
  BY <1>2 DEF Page
<1>7. head.state # Nothing
  BY <1>3, NothingAssumption
<1> HIDE DEF g
<1>8. Fit(g, DeviceOf[p])
  BY <1>1, <1>2, <1>3, <1>4, <1>6, <1>7 DEF Fit, ShowsOK, SendsOK, TrailsOK
<1>9. page' \in [Pages -> Page] /\ \A q \in Pages : page'[q] = page[q] \/ Fit(page'[q], DeviceOf[q])
  BY <1>1, <1>5, <1>8
<1>10. QED
  BY <1>9, PageStep DEF Load

\* The page opens what was installed.
LEMMA OpenStep == ASSUME Inv, NEW p \in Pages, Open(p) PROVE Inv'
<1>1. page' = [page EXCEPT ![p] = Resting(stored[DeviceOf[p]])] /\ page \in [Pages -> Page]
  BY DEF Open, Inv, TypeOK
<1>2. page' \in [Pages -> Page] /\ \A q \in Pages : page'[q] = page[q] \/ Fit(page'[q], DeviceOf[q])
  BY <1>1, AtRest
<1>3. QED
  BY <1>2, PageStep DEF Open

\* What an answer does to the pages.
LEMMA AnswerPages ==
  ASSUME Inv, NEW request \in network, NEW at, NEW receipt, Answer(request, at, receipt),
         at \in {"idle", "acknowledging"}, at = "acknowledging" => receipt \in Receipt
  PROVE  /\ page' \in [Pages -> Page]
         /\ \A q \in Pages :
              \/ page'[q] = page[q] \/ Fit(page'[q], DeviceOf[q])
              \/ /\ at = "acknowledging" /\ page'[q].at = "acknowledging"
                 /\ page'[q].request = request /\ page'[q].receipt = receipt
                 /\ request.device = DeviceOf[q]
                 /\ ShowsOK(page'[q], stored[DeviceOf[q]], outbox[DeviceOf[q]], issued)
                 /\ late = 0 => TrailsOK(page'[q], stored[DeviceOf[q]])
<1>1. PICK p \in {q \in Pages : page[q].at = "waiting" /\ page[q].request = request} \cup {Nothing} :
        page' = [q \in Pages |->
          IF q # p THEN page[q]
          ELSE IF at = "idle" THEN Resting(page[q].shown)
          ELSE [page[q] EXCEPT !.at = at, !.receipt = receipt]]
  BY DEF Answer
<1>2. page \in [Pages -> Page]
  BY DEF Inv, TypeOK
<1>3. CASE p = Nothing
  BY <1>1, <1>2, <1>3, NothingAssumption
<1>4. CASE p # Nothing /\ at = "idle"
  BY <1>1, <1>2, <1>4, AtRest
<1>5. CASE p # Nothing /\ at = "acknowledging"
  <2> DEFINE g == [page[p] EXCEPT !.at = at, !.receipt = receipt]
  <2>1. p \in Pages /\ page[p].at = "waiting" /\ page[p].request = request
    BY <1>1, <1>5
  <2>2. /\ page' \in [Pages -> Page] /\ page'[p] = g
        /\ \A q \in Pages : q # p => page'[q] = page[q]
    <3>1. g \in Page
      BY <1>2, <1>5, <2>1 DEF Page
    <3>2. page' = [q \in Pages |-> IF q # p THEN page[q] ELSE g]
      BY <1>1, <1>5
    <3>3. QED
      BY <1>2, <2>1, <3>1, <3>2
  <2>3. page[p] \in Page /\ Fit(page[p], DeviceOf[p])
    BY <1>2, <2>1 DEF Inv, PageInv, PageGood
  <2>4. /\ g.shown = page[p].shown /\ g.at = "acknowledging" /\ g.state = page[p].state
        /\ g.request = request /\ g.receipt = receipt
    BY <1>5, <2>1, <2>3 DEF Page
  <2> HIDE DEF g
  <2>5. request.device = DeviceOf[p]
    BY <2>1, <2>3 DEF Fit, SendsOK
  <2>6. ShowsOK(g, stored[DeviceOf[p]], outbox[DeviceOf[p]], issued)
    BY <2>1, <2>3, <2>4 DEF Fit, ShowsOK
  <2>7. late = 0 => TrailsOK(g, stored[DeviceOf[p]])
    BY <2>1, <2>3, <2>4 DEF Fit, TrailsOK
  <2>8. QED
    BY <1>5, <2>2, <2>4, <2>5, <2>6, <2>7
<1>6. QED
  BY <1>3, <1>4, <1>5

\* A request that has a receipt.
LEMMA RedeliverStep == ASSUME Inv, NEW request \in network, Redeliver(request) PROVE Inv'
<1>1. PICK x \in Delivered(request) :
        /\ IF x.request = request THEN Answer(request, "acknowledging", x.receipt)
                                  ELSE Answer(request, "idle", Nothing)
        /\ UNCHANGED serverVars
  BY DEF Redeliver
<1>2. x \in receipts /\ x \in [request : Request, receipt : Receipt]
  BY DEF Delivered, Known, Inv, TypeOK
<1>3. UNCHANGED <<deviceVars, network, serverVars, bounds>>
  BY <1>1 DEF Answer
<1>4. page' \in [Pages -> Page] /\ \A q \in Pages : page'[q] = page[q] \/ Fit(page'[q], DeviceOf[q])
  <2>1. CASE x.request = request
    <3>1. Answer(request, "acknowledging", x.receipt) /\ x.receipt \in Receipt
      BY <1>1, <1>2, <2>1
    <3>2. [request |-> request, receipt |-> x.receipt] = x
      BY <1>2, <2>1
    <3>3. /\ page' \in [Pages -> Page]
          /\ \A q \in Pages :
               \/ page'[q] = page[q] \/ Fit(page'[q], DeviceOf[q])
               \/ /\ page'[q].at = "acknowledging"
                  /\ page'[q].request = request /\ page'[q].receipt = x.receipt
                  /\ request.device = DeviceOf[q]
                  /\ ShowsOK(page'[q], stored[DeviceOf[q]], outbox[DeviceOf[q]], issued)
                  /\ late = 0 => TrailsOK(page'[q], stored[DeviceOf[q]])
      BY <3>1, AnswerPages
    <3>4. QED
      BY <1>2, <3>2, <3>3 DEF Fit, SendsOK
  <2>2. CASE x.request # request
    <3>1. Answer(request, "idle", Nothing)
      BY <1>1, <2>2
    <3>2. QED
      BY <3>1, AnswerPages
  <2>3. QED
    BY <2>1, <2>2
<1>5. QED
  BY <1>3, <1>4, PageStep

\* A request that is refused.
LEMMA RefuseStep == ASSUME Inv, NEW request \in network, Refuse(request) PROVE Inv'
<1>1. Answer(request, "idle", Nothing) /\ UNCHANGED serverVars
  BY DEF Refuse
<1>2. page' \in [Pages -> Page] /\ \A q \in Pages : page'[q] = page[q] \/ Fit(page'[q], DeviceOf[q])
  BY <1>1, AnswerPages
<1>3. UNCHANGED <<deviceVars, network, serverVars, bounds>>
  BY <1>1 DEF Answer
<1>4. QED
  BY <1>2, <1>3, PageStep
\* More commands are issued: those that may follow a state still may.
LEMMA FollowMore ==
  ASSUME NEW base, NEW commands, NEW ids, NEW more, ids \subseteq more, Follow(base, commands, ids)
  PROVE  Follow(base, commands, more)
  BY DEF Follow

\* An outbox that a step does not touch.
LEMMA BoxStays ==
  ASSUME Inv, Grown, ServerTypes', head' # Nothing => head'.state \in Seq(Commands),
         NEW d \in Devices, stored'[d] = stored[d], outbox'[d] = outbox[d],
         outbox[d] # Nothing => \A q \in network' : q.id = outbox[d].request => q \in network,
         outbox[d] # Nothing => \A i \in 1..Len(outbox[d].commands) :
            Holds(head', outbox[d].commands[i].id) =>
              \/ Holds(head, outbox[d].commands[i].id)
              \/ i <= outbox[d].count /\ Synced(outbox[d].request, receipts')
  PROVE  BoxOK(d, outbox'[d], stored'[d], head', issued', requested', network', receipts')
<1> DEFINE box == outbox[d]
<1>1. BoxOK(d, box, stored[d], head, issued, requested, network, receipts)
  BY DEF Inv, BoxInv
<1>2. issued \subseteq issued' /\ network \subseteq network' /\ receipts \subseteq receipts'
  BY DEF Grown
<1>3. stored[d] # Nothing => Good(stored[d], issued')
  BY <1>1, <1>2, GoodMore DEF BoxOK
<1>4. ASSUME box # Nothing
      PROVE  /\ stored[d] # Nothing
             /\ Good(box.base, issued') /\ Follow(box.base, box.commands, issued')
             /\ box.count <= Len(box.commands)
             /\ IF box.initial THEN box.count = 0 ELSE Past(box.base, head')
             /\ box.request # Nothing => box.request <= requested'
             /\ \A q \in network' : q.id = box.request => q = RequestOf(d, box)
             /\ \A i \in 1..Len(box.commands) :
                  Holds(head', box.commands[i].id) => i <= box.count /\ Synced(box.request, receipts')
  <2>1. /\ stored[d] # Nothing
        /\ Good(box.base, issued) /\ Follow(box.base, box.commands, issued)
        /\ box.count <= Len(box.commands)
        /\ IF box.initial THEN box.count = 0 ELSE Past(box.base, head)
        /\ box.request # Nothing => box.request <= requested
        /\ \A q \in network : q.id = box.request => q = RequestOf(d, box)
        /\ \A i \in 1..Len(box.commands) :
             Holds(head, box.commands[i].id) => i <= box.count /\ Synced(box.request, receipts)
    BY <1>1, <1>4 DEF BoxOK
  <2>2. Good(box.base, issued') /\ Follow(box.base, box.commands, issued')
    BY <1>2, <2>1, GoodMore, FollowMore
  <2>3. box.base \in Seq(Commands)
    BY <2>1, Sequences
  <2>4. Past(box.base, head) => Past(box.base, head')
    BY <2>3, PastStays
  <2>5. box.request # Nothing => box.request <= requested'
    <3>1. box \in Outbox
      BY <1>4 DEF Inv, TypeOK
    <3>2. box.request # Nothing => box.request \in Nat
      BY <3>1 DEF Outbox, RequestIds
    <3>3. requested \in Nat /\ requested' \in Nat /\ requested <= requested'
      BY LimitsAssumption DEF Inv, TypeOK, ServerTypes, Grown
    <3> HIDE DEF box
    <3>4. QED
      BY <2>1, <3>2, <3>3
  <2>6. Synced(box.request, receipts) => Synced(box.request, receipts')
    BY <1>2 DEF Synced
  <2>7. ASSUME NEW i \in 1..Len(box.commands), Holds(head', box.commands[i].id)
        PROVE  i <= box.count /\ Synced(box.request, receipts')
    BY <1>4, <2>1, <2>6, <2>7
  <2>8. \A q \in network' : q.id = box.request => q = RequestOf(d, box)
    BY <1>4, <2>1
  <2>9. QED
    BY <2>1, <2>2, <2>4, <2>5, <2>7, <2>8
<1>5. QED
  BY <1>3, <1>4 DEF BoxOK

\* A request that was sent.
LEMMA RequestStays ==
  ASSUME Inv, Grown, ServerTypes', head' # Nothing => head'.state \in Seq(Commands),
         NEW q \in network, \A r \in network' : r.id = q.id => r \in network,
         outbox[q.device] # Nothing /\ outbox[q.device].request = q.id =>
           \/ outbox'[q.device] # Nothing /\ outbox'[q.device].request = q.id
           \/ Answered(q.id, receipts')
           \/ q.commands = <<>> /\ ~q.initial
  PROVE  RequestOK(q, head', issued', requested', network', receipts', outbox'[q.device])
<1>1. RequestOK(q, head, issued, requested, network, receipts, outbox[q.device])
  BY DEF Inv, NetInv
<1>2. q.id <= requested'
  <2>1. q.id \in Nat /\ requested \in Nat /\ requested' \in Nat /\ requested <= requested'
    BY LimitsAssumption DEF Inv, TypeOK, ServerTypes, Grown, Request, RequestIds
  <2>2. q.id <= requested
    BY <1>1 DEF RequestOK
  <2>3. QED
    BY <2>1, <2>2
<1>3. Good(q.base, issued') /\ Follow(q.base, q.commands, issued')
  BY <1>1, GoodMore, FollowMore DEF RequestOK, Grown
<1>4. ~q.initial => Past(q.base, head')
  <2>1. q.base \in Seq(Commands)
    BY <1>1, Sequences DEF RequestOK
  <2>2. ~q.initial => Past(q.base, head)
    BY <1>1 DEF RequestOK
  <2>3. QED
    BY <2>1, <2>2, PastStays
<1>5. \A r \in network' : r.id = q.id => r = q
  BY <1>1 DEF RequestOK
<1>6. Answered(q.id, receipts) => Answered(q.id, receipts')
  BY DEF Answered, Grown
<1>7. QED
  BY <1>1, <1>2, <1>3, <1>4, <1>5, <1>6 DEF RequestOK
-----------------------------------------------------------------------------
\* A step of the server: the devices and the requests stay, the tables only grow, and what
\* is new in them is right.
LEMMA ServerStep ==
  ASSUME Inv, PageTypes', ServerTypes',
         stored' = stored, row' = row, outbox' = outbox, network' = network,
         issued' = issued, requested' = requested, late' = late,
         revisions \subseteq revisions', receipts \subseteq receipts', branches \subseteq branches',
         \A s \in revisions' \ revisions : Good(s, issued),
         \A x \in receipts' \ receipts : ReceiptOK(x, head', issued, revisions', network),
         \A b \in branches' \ branches : BranchOK(b, head', issued),
         head # Nothing => head' # Nothing /\ Begins(head.state, head'.state),
         head' # Nothing => Good(head'.state, issued) /\ head'.state \in revisions',
         \A d \in Devices : outbox[d] # Nothing =>
           \A i \in 1..Len(outbox[d].commands) :
             Holds(head', outbox[d].commands[i].id) =>
               \/ Holds(head, outbox[d].commands[i].id)
               \/ i <= outbox[d].count /\ Synced(outbox[d].request, receipts'),
         \A q \in Pages : page'[q] = page[q] \/ Fit(page'[q], DeviceOf[q]) \/ PageGood(q)'
  PROVE  Inv'
<1>1. StoreTypes /\ ServerTypes
  BY DEF Inv, TypeOK, StoreTypes, ServerTypes
<1>2. TypeOK' /\ StoreTypes'
  BY <1>1 DEF TypeOK, StoreTypes, PageTypes, ServerTypes
<1>3. Grown
  <2>1. \A d \in Devices : stored[d] # Nothing => Begins(stored[d], stored[d])
    BY Sequences DEF Begins
  <2>2. requested <= requested'
    BY <1>1, LimitsAssumption DEF ServerTypes
  <2>3. QED
    BY <2>1, <2>2 DEF Grown
<1>4. head' # Nothing => head'.state \in Seq(Commands)
  BY Sequences
<1>5. HeadInv'
  BY DEF Inv, HeadInv
<1>6. BranchInv'
  BY <1>3, <1>4, BranchesStay DEF BranchInv
<1>7. ReceiptInv'
  BY <1>3, <1>4, ReceiptsStay DEF ReceiptInv
<1>8. NetInv'
  <2>1. \A q \in network :
          RequestOK(q, head', issued', requested', network', receipts', outbox'[q.device])
    BY <1>2, <1>3, <1>4, RequestStays
  <2>2. QED
    BY <2>1 DEF NetInv
<1>9. BoxInv'
  <2>1. \A d \in Devices :
          BoxOK(d, outbox'[d], stored'[d], head', issued', requested', network', receipts')
    BY <1>2, <1>3, <1>4, BoxStays
  <2>2. QED
    BY <2>1 DEF BoxInv
<1>10. ApartInv' /\ LocalInv'
  BY DEF Inv, ApartInv, LocalInv, LocalOK
<1>11. PageInv'
  BY <1>2, <1>3, <1>4, PageStays DEF PageInv
<1>12. KeptInv'
  <2>1. ASSUME late' = 0 PROVE \A c \in issued : Kept(c)'
    BY <1>3, <1>4, <2>1, CommandsStay
  <2>2. QED
    BY <2>1 DEF KeptInv
<1>13. QED
  BY <1>2, <1>5, <1>6, <1>7, <1>8, <1>9, <1>10, <1>11, <1>12 DEF Inv

\* The writer's lease ends.
LEMMA LeaseStep ==
  ASSUME Inv, head # Nothing, head' = [head EXCEPT !.writer = Nothing],
         UNCHANGED <<deviceVars, page, network, revisions, receipts, branches, bounds>>
  PROVE  Inv'
<1>1. head \in SyncHead
  BY DEF Inv, TypeOK
<1>2. head' \in SyncHead /\ head'.state = head.state /\ head' # Nothing
  BY <1>1, NothingAssumption DEF SyncHead
<1>3. /\ stored' = stored /\ row' = row /\ outbox' = outbox /\ network' = network
      /\ page' = page /\ revisions' = revisions /\ receipts' = receipts
      /\ branches' = branches /\ issued' = issued /\ requested' = requested /\ late' = late
  BY DEF deviceVars, bounds
<1>4. PageTypes' /\ ServerTypes'
  BY <1>2, <1>3 DEF Inv, TypeOK, PageTypes, ServerTypes
<1>5. /\ Begins(head.state, head'.state)
      /\ Good(head'.state, issued) /\ head'.state \in revisions'
  BY <1>2, <1>3 DEF Inv, HeadInv, Good, Begins
<1>6. \A c : Holds(head', c) => Holds(head, c)
  BY <1>2 DEF Holds
<1>7. QED
  BY <1>2, <1>3, <1>4, <1>5, <1>6, ServerStep

\* A batch stores the revision it renders.
LEMMA RenderBatchStep == ASSUME Inv, NEW p \in Pages, RenderBatch(p) PROVE Inv'
<1> DEFINE state == page[p].shown
<1>1. /\ state # Nothing /\ Immutable(state) /\ revisions' = revisions \cup {state}
      /\ stored' = stored /\ row' = row /\ outbox' = outbox /\ network' = network
      /\ page' = page /\ head' = head /\ receipts' = receipts
      /\ branches' = branches /\ issued' = issued /\ requested' = requested /\ late' = late
  BY DEF RenderBatch, deviceVars, bounds
<1>2. Good(state, issued)
  BY <1>1 DEF Inv, PageInv, PageGood, Fit, ShowsOK
<1>3. ServerTypes
  BY DEF Inv, TypeOK, ServerTypes
<1>4. state \in States
  BY <1>2, <1>3, GoodIsState DEF ServerTypes
<1> HIDE DEF state
<1>5. PageTypes' /\ ServerTypes'
  <2>1. \A s \in revisions : Revision(s) = Revision(state) => s = state
    BY <1>1 DEF Immutable
  <2>2. \A a, b \in revisions' : Revision(a) = Revision(b) => a = b
    BY <1>1, <1>3, <2>1 DEF ServerTypes
  <2>3. QED
    BY <1>1, <1>3, <1>4, <2>2 DEF Inv, TypeOK, PageTypes, ServerTypes
<1>6. head # Nothing => /\ Begins(head.state, head.state)
                        /\ Good(head.state, issued) /\ head.state \in revisions
  BY DEF Inv, HeadInv, Good, Begins
<1>7. QED
  BY <1>1, <1>2, <1>5, <1>6, ServerStep
\* The commands of the persisted request.
LEMMA PrefixFacts ==
  ASSUME NEW box \in Outbox, box.count <= Len(box.commands)
  PROVE  /\ Prefix(box) \in Batch /\ Len(Prefix(box)) = box.count
         /\ \A i \in 1..Len(Prefix(box)) : i \in 1..Len(box.commands) /\ Prefix(box)[i] = box.commands[i]
<1>1. /\ box.commands \in Seq(Command) /\ box.count \in Nat /\ Len(box.commands) \in Nat
  BY DEF Outbox, Batch
<1>2. QED
  BY <1>1 DEF Prefix, Batch

\* A request without an answer that has something to say is its device's pending one.
LEMMA IsPending ==
  ASSUME Inv, NEW q \in network, ~Answered(q.id, receipts), q.commands # <<>> \/ q.initial,
         NEW box, box = outbox[q.device]
  PROVE  /\ box # Nothing /\ box \in Outbox /\ q = RequestOf(q.device, box)
         /\ box.request = q.id /\ box.count <= Len(box.commands) /\ q.device \in Devices
         /\ q.base = box.base /\ q.initial = box.initial /\ q.commands = Prefix(box)
<1>1. q \in Request /\ q.device \in Devices /\ outbox[q.device] \in Outbox \cup {Nothing}
  BY DEF Inv, TypeOK, Request
<1>2. box # Nothing /\ box.request = q.id
  BY DEF Inv, NetInv, RequestOK
<1>3. BoxOK(q.device, box, stored[q.device], head, issued, requested, network, receipts)
  BY <1>1 DEF Inv, BoxInv
<1>4. q = RequestOf(q.device, box) /\ box.count <= Len(box.commands)
  BY <1>2, <1>3 DEF BoxOK
<1>5. /\ RequestOf(q.device, box).base = box.base
      /\ RequestOf(q.device, box).initial = box.initial
      /\ RequestOf(q.device, box).commands = Prefix(box)
  BY DEF RequestOf
<1>6. QED
  BY <1>1, <1>2, <1>4, <1>5

\* The state that the server makes of a request it accepts.
LEMMA PlannedFacts ==
  ASSUME Inv, NEW request \in network, Fresh(request), Acceptable(request),
         NEW next, next = Planned(request)
  PROVE  /\ ~Answered(request.id, receipts)
         /\ Good(next, issued) /\ next \in States
         /\ Joined(next, request.base, request.commands) /\ Begins(request.base, next)
         /\ \/ /\ head = Nothing /\ request.initial /\ next = request.base
               /\ request.commands = <<>>
            \/ /\ head # Nothing /\ ~request.initial /\ Continues(request)
               /\ Past(request.base, head)
<1>1. ~Answered(request.id, receipts)
  BY DEF Fresh, Delivered, Known, Answered
<1>2. /\ Good(request.base, issued) /\ Follow(request.base, request.commands, issued)
      /\ IF request.initial THEN request.commands = <<>> ELSE Past(request.base, head)
  BY DEF Inv, NetInv, RequestOK
<1>3. next # Nothing
  BY DEF Acceptable
<1>4. \/ Enables(request) /\ next = request.base
      \/ /\ ~Enables(request) /\ Continues(request)
         /\ next = ReplaySync(request.base, request.commands)
  <2>1. Enables(request) => Planned(request) = request.base
    <3>1. ~(Enables(request) /\ Continues(request))
      BY DEF Enables, Continues
    <3>2. QED
      BY <3>1 DEF Planned
  <2>2. ~Enables(request) /\ Continues(request)
          => Planned(request) = ReplaySync(request.base, request.commands)
    BY DEF Planned
  <2>3. ~Enables(request) /\ ~Continues(request) => Planned(request) = Nothing
    BY DEF Planned
  <2>4. QED
    BY <1>3, <2>1, <2>2, <2>3
<1>5. CASE Enables(request) /\ next = request.base
  <2>1. request.commands = <<>> /\ Len(request.commands) = 0 /\ next = request.base
    BY <1>2, <1>5 DEF Enables
  <2>2. Good(next, issued) /\ Joined(next, request.base, request.commands) /\ Begins(request.base, next)
    BY <1>2, <2>1 DEF Good, Joined, Begins
  <2>3. next \in States
    BY <2>2, GoodIsState DEF Inv, TypeOK
  <2>4. QED
    BY <1>1, <1>5, <2>1, <2>2, <2>3 DEF Enables
<1>6. CASE Continues(request) /\ next = ReplaySync(request.base, request.commands)
  <2>1. Good(next, issued) /\ Joined(next, request.base, request.commands) /\ Begins(request.base, next)
    BY <1>2, <1>3, <1>6, ReplayFacts
  <2>2. next \in States
    BY <2>1, GoodIsState DEF Inv, TypeOK
  <2>3. QED
    BY <1>1, <1>2, <1>6, <2>1, <2>2 DEF Continues
<1>7. QED
  BY <1>4, <1>5, <1>6

\* The answer to a request, and the pages that get it.
LEMMA Recorded ==
  ASSUME Inv, NEW request \in network, Fresh(request), NEW receipt \in Receipt,
         Record(request, receipt), Answer(request, "acknowledging", receipt)
  PROVE  /\ stored' = stored /\ row' = row /\ outbox' = outbox /\ network' = network
         /\ issued' = issued /\ requested' = requested /\ late' = late
         /\ receipts' = receipts \cup {[request |-> request, receipt |-> receipt]}
         /\ receipts' \subseteq [request : Request, receipt : Receipt]
         /\ \A a, b \in receipts' : a.request.id = b.request.id => a = b
         /\ Answered(request.id, receipts')
         /\ receipt.status = "synced" => Synced(request.id, receipts')
         /\ PageTypes'
         /\ \A q \in Pages : page'[q] = page[q] \/ Fit(page'[q], DeviceOf[q]) \/ PageGood(q)'
<1> DEFINE new == [request |-> request, receipt |-> receipt]
<1>1. /\ stored' = stored /\ row' = row /\ outbox' = outbox /\ network' = network
      /\ issued' = issued /\ requested' = requested /\ late' = late
  BY DEF Answer, deviceVars, bounds
<1>2. receipts' = receipts \cup {new}
  BY DEF Record
<1>3. /\ new \in [request : Request, receipt : Receipt]
      /\ new.request = request /\ new.receipt = receipt
  BY DEF Inv, TypeOK
<1>4. new \in receipts'
  BY <1>2
<1> HIDE DEF new
<1>5. \A x \in receipts : x.request.id # request.id
  BY DEF Fresh, Delivered, Known
<1>6. \A a, b \in receipts' : a.request.id = b.request.id => a = b
  BY <1>2, <1>3, <1>5 DEF Inv, TypeOK
<1>7. receipts' \subseteq [request : Request, receipt : Receipt]
  BY <1>2, <1>3 DEF Inv, TypeOK
<1>8. /\ Answered(request.id, receipts')
      /\ receipt.status = "synced" => Synced(request.id, receipts')
  BY <1>3, <1>4 DEF Answered, Synced
<1>9. /\ page' \in [Pages -> Page]
      /\ \A q \in Pages :
           \/ page'[q] = page[q] \/ Fit(page'[q], DeviceOf[q])
           \/ /\ page'[q].at = "acknowledging"
              /\ page'[q].request = request /\ page'[q].receipt = receipt
              /\ request.device = DeviceOf[q]
              /\ ShowsOK(page'[q], stored[DeviceOf[q]], outbox[DeviceOf[q]], issued)
              /\ late = 0 => TrailsOK(page'[q], stored[DeviceOf[q]])
  BY AnswerPages
<1>10. ASSUME NEW q \in Pages,
              page'[q].at = "acknowledging",
              page'[q].request = request, page'[q].receipt = receipt,
              request.device = DeviceOf[q],
              ShowsOK(page'[q], stored[DeviceOf[q]], outbox[DeviceOf[q]], issued),
              late = 0 => TrailsOK(page'[q], stored[DeviceOf[q]])
       PROVE  PageGood(q)'
  <2>1. [request |-> page'[q].request, receipt |-> page'[q].receipt] \in receipts'
    BY <1>4, <1>10 DEF new
  <2>2. SendsOK(page'[q], DeviceOf[q], head', revisions', network', receipts')
    BY <1>1, <1>10, <2>1 DEF SendsOK
  <2>3. QED
    BY <1>1, <1>10, <2>2 DEF PageGood, Fit
<1>11. QED
  BY <1>1, <1>2, <1>6, <1>7, <1>8, <1>9, <1>10 DEF PageTypes, new
\* A request whose base is not the head any more becomes a branch.
LEMMA DivergeStep == ASSUME Inv, NEW request \in network, Diverge(request) PROVE Inv'
<1> DEFINE next == Planned(request)
           receipt == [status |-> "recovered_branch", state |-> next]
           branch == [base |-> request.base, state |-> next]
<1>1. /\ Fresh(request) /\ Acceptable(request) /\ Conflicting(request)
      /\ branches' = branches \cup {branch} /\ Record(request, receipt)
      /\ Answer(request, "acknowledging", receipt)
      /\ head' = head /\ revisions' = revisions
  BY DEF Diverge
<1>2. /\ ~Answered(request.id, receipts)
      /\ Good(next, issued) /\ next \in States
      /\ Joined(next, request.base, request.commands) /\ Begins(request.base, next)
      /\ head # Nothing /\ ~request.initial /\ Past(request.base, head)
      /\ head.state # request.base
  <2>1. head # Nothing /\ head.state # request.base
    BY <1>1 DEF Conflicting, Continues, Divergent
  <2>2. QED
    BY <1>1, <2>1, PlannedFacts
<1>3. /\ Good(request.base, issued) /\ request \in Request /\ request.base \in States
      /\ request.base \in Seq(Commands) /\ next \in Seq(Commands) /\ head.state \in Seq(Commands)
      /\ Len(request.commands) \in Nat /\ request.commands \in Seq(Command)
  BY <1>2, Sequences, StateIsSeq DEF Inv, NetInv, RequestOK, TypeOK, Request, Batch
<1>4. /\ receipt \in Receipt /\ receipt.status = "recovered_branch" /\ receipt.state = next
      /\ branch \in Branch /\ branch.base = request.base /\ branch.state = next
  BY <1>2, <1>3 DEF Receipt, Branch
<1> HIDE DEF next, receipt, branch
<1>5. /\ stored' = stored /\ row' = row /\ outbox' = outbox /\ network' = network
      /\ issued' = issued /\ requested' = requested /\ late' = late
      /\ receipts' = receipts \cup {[request |-> request, receipt |-> receipt]}
      /\ receipts' \subseteq [request : Request, receipt : Receipt]
      /\ \A a, b \in receipts' : a.request.id = b.request.id => a = b
      /\ PageTypes'
      /\ \A q \in Pages : page'[q] = page[q] \/ Fit(page'[q], DeviceOf[q]) \/ PageGood(q)'
  BY <1>1, <1>4, Recorded
<1>6. ServerTypes'
  BY <1>1, <1>4, <1>5 DEF Inv, TypeOK, ServerTypes
<1>7. ReceiptOK([request |-> request, receipt |-> receipt], head', issued, revisions', network)
  BY <1>2, <1>4 DEF ReceiptOK
<1>8. BranchOK(branch, head', issued)
  <2>1. ASSUME next # request.base
        PROVE  /\ Len(request.base) < Len(next) /\ Len(request.base) < Len(head.state)
               /\ next[Len(request.base) + 1] # head.state[Len(request.base) + 1]
    <3> DEFINE n == Len(request.base)
               m == Len(request.commands)
               k == Len(next)
               h == Len(head.state)
    <3>1. n \in Nat /\ m \in Nat /\ k \in Nat /\ h \in Nat
      BY <1>3
    <3>2. k = n + m
      BY <1>2 DEF Joined
    <3>3. ~(k <= n)
      BY <1>2, <1>3, <2>1, BeginsWhole
    <3>4. ~(h <= n)
      <4>1. Begins(request.base, head.state)
        BY <1>2 DEF Past
      <4>2. QED
        BY <1>2, <1>3, <4>1, BeginsWhole
    <3>5. 1 \in 1..m => next[n + 1] = request.commands[1].id
      BY <1>2 DEF Joined
    <3> HIDE DEF n, m, k, h
    <3>6. n < k /\ n < h /\ 1 \in 1..m /\ n + 1 \in 1..h /\ next[n + 1] = request.commands[1].id
      BY <3>1, <3>2, <3>3, <3>4, <3>5
    <3>7. ~Holds(head, request.commands[1].id)
      <4> DEFINE box == outbox[request.device]
      <4>1. request.commands # <<>>
        BY <1>3, <3>6 DEF m
      <4>2. /\ box # Nothing /\ box \in Outbox /\ box.request = request.id
            /\ box.count <= Len(box.commands) /\ request.device \in Devices
            /\ request.commands = Prefix(box)
        BY <1>2, <4>1, IsPending
      <4>3. 1 \in 1..Len(box.commands) /\ request.commands[1] = box.commands[1]
        BY <3>6, <4>2, PrefixFacts DEF m
      <4>4. Holds(head, box.commands[1].id) => Synced(box.request, receipts)
        BY <4>2, <4>3 DEF Inv, BoxInv, BoxOK
      <4>5. ~Synced(box.request, receipts)
        BY <1>2, <4>2 DEF Answered, Synced
      <4>6. QED
        BY <4>3, <4>4, <4>5
    <3>8. QED
      BY <1>2, <3>6, <3>7 DEF Holds, n, k, h
  <2>2. QED
    BY <1>1, <1>2, <1>3, <1>4, <2>1 DEF BranchOK
<1>9. head # Nothing => /\ Begins(head.state, head.state)
                        /\ Good(head.state, issued) /\ head.state \in revisions
  BY DEF Inv, HeadInv, Good, Begins
<1>10. /\ revisions \subseteq revisions' /\ receipts \subseteq receipts' /\ branches \subseteq branches'
       /\ \A s \in revisions' \ revisions : Good(s, issued)
       /\ \A x \in receipts' \ receipts : ReceiptOK(x, head', issued, revisions', network)
       /\ \A b \in branches' \ branches : BranchOK(b, head', issued)
  BY <1>1, <1>5, <1>7, <1>8
<1>11. QED
  BY <1>1, <1>5, <1>6, <1>9, <1>10, ServerStep
\* What a synced request brings to the head of a device's outbox are the commands it sent.
LEMMA OnlyWhatWasSent ==
  ASSUME Inv, NEW request \in network, ~Answered(request.id, receipts),
         NEW next, Joined(next, request.base, request.commands), NEW answers,
         Synced(request.id, answers),
         Good(request.base, issued), request \in Request,
         \/ head = Nothing /\ request.initial /\ next = request.base
         \/ head # Nothing /\ head.state = request.base,
         NEW d \in Devices, outbox[d] # Nothing, NEW i \in 1..Len(outbox[d].commands),
         NEW j \in 1..Len(next), next[j] = outbox[d].commands[i].id
  PROVE  \/ Holds(head, outbox[d].commands[i].id)
         \/ i <= outbox[d].count /\ Synced(outbox[d].request, answers)
<1> DEFINE box == outbox[request.device]
           c == outbox[d].commands[i].id
<1>1. CASE head = Nothing /\ request.initial /\ next = request.base
  <2>1. box # Nothing /\ request.device \in Devices /\ request.base = box.base
    BY <1>1, IsPending
  <2>2. stored[d] # Nothing /\ stored[request.device] # Nothing
    BY <2>1 DEF Inv, BoxInv, BoxOK
  <2>3. d = request.device
    BY <1>1, <2>1, <2>2 DEF Inv, HeadInv
  <2>4. Follow(request.base, outbox[d].commands, issued)
    BY <2>1, <2>3 DEF Inv, BoxInv, BoxOK
  <2>5. FALSE
    BY <1>1, <2>4 DEF Follow
  <2>6. QED
    BY <2>5
<1>2. CASE head # Nothing /\ head.state = request.base
  <2>1. /\ Len(request.base) \in Nat /\ Len(request.commands) \in Nat
        /\ Len(next) = Len(request.base) + Len(request.commands) /\ j \in Nat
    <3>1. Len(request.base) \in Nat
      BY DEF Good
    <3>2. Len(request.commands) \in Nat
      BY DEF Request, Batch
    <3>3. Len(next) = Len(request.base) + Len(request.commands)
      BY DEF Joined
    <3>4. QED
      BY <3>1, <3>2, <3>3
  <2>2. CASE j <= Len(request.base)
    <3>1. j \in 1..Len(request.base)
      BY <2>1, <2>2
    <3>2. request.base[j] = outbox[d].commands[i].id
      BY <3>1 DEF Joined
    <3>3. QED
      BY <1>2, <3>1, <3>2 DEF Holds
  <2>3. CASE j > Len(request.base)
    <3>1. PICK m \in 1..Len(request.commands) : j = Len(request.base) + m
      <4> DEFINE n == Len(request.base)
                 k == Len(request.commands)
      <4>1. n \in Nat /\ k \in Nat /\ j \in 1..(n + k) /\ j > n
        BY <2>1, <2>3
      <4> HIDE DEF n, k
      <4>2. j - n \in 1..k /\ j = n + (j - n)
        BY <4>1
      <4>3. QED
        BY <4>2 DEF n, k
    <3>2. request.commands[m].id = c
      BY <3>1 DEF Joined
    <3>3. request.commands # <<>>
      BY <2>1, <3>1
    <3>4. /\ box # Nothing /\ box \in Outbox /\ box.request = request.id
          /\ box.count <= Len(box.commands) /\ request.device \in Devices
          /\ request.commands = Prefix(box)
      BY <3>3, IsPending
    <3>5. m \in 1..Len(box.commands) /\ request.commands[m] = box.commands[m] /\ m <= box.count
      <4>1. box \in Outbox /\ m \in 1..Len(Prefix(box)) /\ request.commands[m] = Prefix(box)[m]
        BY <3>1, <3>4
      <4>2. QED
        BY <3>4, <4>1, PrefixFacts
    <3>6. d = request.device
      BY <3>2, <3>4, <3>5 DEF Inv, ApartInv, Apart
    <3>7. Follow(box.base, box.commands, issued)
      BY <3>4 DEF Inv, BoxInv, BoxOK
    <3>8. i = m
      BY <3>2, <3>5, <3>6, <3>7 DEF Follow
    <3>9. QED
      BY <3>4, <3>5, <3>6, <3>8
  <2>4. QED
    BY <2>1, <2>2, <2>3 DEF Joined
<1>3. QED
  BY <1>1, <1>2

\* A request that begins the cloud campaign or continues its head.
LEMMA AdvanceStep == ASSUME Inv, NEW request \in network, Advance(request) PROVE Inv'
<1> DEFINE next == Planned(request)
           receipt == [status |-> "synced", state |-> next]
<1>1. /\ Fresh(request) /\ Acceptable(request) /\ ~Conflicting(request)
      /\ revisions' = revisions \cup {next}
      /\ head' = [state |-> next, writer |-> request.device]
      /\ Record(request, receipt)
      /\ Answer(request, "acknowledging", receipt)
      /\ branches' = branches
  BY DEF Advance
<1>2. /\ ~Answered(request.id, receipts)
      /\ Good(next, issued) /\ next \in States
      /\ Joined(next, request.base, request.commands) /\ Begins(request.base, next)
      /\ \/ head = Nothing /\ request.initial /\ next = request.base
         \/ head # Nothing /\ head.state = request.base
      /\ Immutable(next)
  <2>1. Immutable(next)
    BY <1>1 DEF Acceptable
  <2>2. Continues(request) => head.state = request.base
    BY <1>1 DEF Conflicting, Divergent
  <2>3. QED
    BY <1>1, <2>1, <2>2, PlannedFacts
<1>3. /\ Good(request.base, issued) /\ request \in Request /\ request.device \in Devices
  BY DEF Inv, NetInv, RequestOK, TypeOK, Request
<1>4. /\ receipt \in Receipt /\ receipt.status = "synced" /\ receipt.state = next
      /\ head' \in SyncHead /\ head'.state = next /\ head' # Nothing
  BY <1>1, <1>2, <1>3, NothingAssumption DEF Receipt, SyncHead
<1> HIDE DEF next, receipt
<1>5. /\ stored' = stored /\ row' = row /\ outbox' = outbox /\ network' = network
      /\ issued' = issued /\ requested' = requested /\ late' = late
      /\ receipts' = receipts \cup {[request |-> request, receipt |-> receipt]}
      /\ receipts' \subseteq [request : Request, receipt : Receipt]
      /\ \A a, b \in receipts' : a.request.id = b.request.id => a = b
      /\ Synced(request.id, receipts')
      /\ PageTypes'
      /\ \A q \in Pages : page'[q] = page[q] \/ Fit(page'[q], DeviceOf[q]) \/ PageGood(q)'
  BY <1>1, <1>4, Recorded
<1>6. ServerTypes'
  <2>1. \A s \in revisions : Revision(s) = Revision(next) => s = next
    BY <1>2 DEF Immutable
  <2>2. \A a, b \in revisions' : Revision(a) = Revision(b) => a = b
    BY <1>1, <2>1 DEF Inv, TypeOK
  <2>3. QED
    BY <1>1, <1>2, <1>4, <1>5, <2>2 DEF Inv, TypeOK, ServerTypes
<1>7. ReceiptOK([request |-> request, receipt |-> receipt], head', issued, revisions', network)
  BY <1>1, <1>2, <1>4 DEF ReceiptOK, Past, Begins, Good
<1>8. head # Nothing => head' # Nothing /\ Begins(head.state, head'.state)
  BY <1>2, <1>4
<1>9. ASSUME NEW d \in Devices, outbox[d] # Nothing, NEW i \in 1..Len(outbox[d].commands),
             Holds(head', outbox[d].commands[i].id)
      PROVE  \/ Holds(head, outbox[d].commands[i].id)
             \/ i <= outbox[d].count /\ Synced(outbox[d].request, receipts')
  <2>1. PICK j \in 1..Len(next) : next[j] = outbox[d].commands[i].id
    BY <1>4, <1>9 DEF Holds
  <2>2. QED
    BY <1>2, <1>3, <1>5, <1>9, <2>1, OnlyWhatWasSent
<1>10. /\ revisions \subseteq revisions' /\ receipts \subseteq receipts' /\ branches \subseteq branches'
       /\ \A s \in revisions' \ revisions : Good(s, issued)
       /\ \A x \in receipts' \ receipts : ReceiptOK(x, head', issued, revisions', network)
       /\ \A b \in branches' \ branches : BranchOK(b, head', issued)
  BY <1>1, <1>2, <1>5, <1>7
<1>11. head' # Nothing => Good(head'.state, issued) /\ head'.state \in revisions'
  BY <1>1, <1>2, <1>4
<1>12. QED
  BY <1>1, <1>5, <1>6, <1>8, <1>9, <1>10, <1>11, ServerStep
-----------------------------------------------------------------------------
\* A step of one device: the server and the other devices stay, nothing is taken back, and
\* what is new is right.
LEMMA DeviceStep ==
  ASSUME Inv, NEW d \in Devices, StoreTypes', PageTypes', ServerTypes', UNCHANGED serverVars,
         \A e \in Devices \ {d} :
           stored'[e] = stored[e] /\ row'[e] = row[e] /\ outbox'[e] = outbox[e],
         issued \subseteq issued', network \subseteq network', requested <= requested',
         late' = 0 => late = 0,
         stored[d] # Nothing => stored'[d] # Nothing, outbox[d] # Nothing => outbox'[d] # Nothing,
         late' = 0 /\ stored[d] # Nothing => Begins(stored[d], stored'[d]),
         head = Nothing /\ d # Origin => stored'[d] = Nothing,
         \A q \in network' \ network :
           /\ RequestOK(q, head, issued', requested', network', receipts, outbox'[q.device])
           /\ \A r \in network : r.id # q.id
           /\ \A e \in Devices \ {d} : outbox[e] # Nothing => outbox[e].request # q.id,
         \A q \in network :
           q.device = d /\ outbox[d] # Nothing /\ outbox[d].request = q.id =>
             \/ outbox'[d] # Nothing /\ outbox'[d].request = q.id
             \/ Answered(q.id, receipts)
             \/ q.commands = <<>> /\ ~q.initial,
         BoxOK(d, outbox'[d], stored'[d], head, issued', requested', network', receipts),
         \A e \in Devices \ {d} : Apart(outbox'[d], outbox[e]),
         late' = 0 => LocalOK(outbox'[d], stored'[d], row'[d], revisions),
         late' = 0 => \A c \in issued' \ issued : Kept(c)',
         \A q \in Pages : page'[q] = page[q] \/ Fit(page'[q], DeviceOf[q]) \/ PageGood(q)'
  PROVE  Inv'
<1>1. /\ head' = head /\ revisions' = revisions /\ receipts' = receipts /\ branches' = branches
  BY DEF serverVars
<1>2. TypeOK'
  BY DEF TypeOK, StoreTypes, PageTypes, ServerTypes
<1>3. Grown
  <2>1. ASSUME NEW e \in Devices
        PROVE  /\ stored[e] # Nothing => stored'[e] # Nothing
               /\ outbox[e] # Nothing => outbox'[e] # Nothing
               /\ late' = 0 /\ stored[e] # Nothing => Begins(stored[e], stored'[e])
    <3>1. CASE e = d
      BY <3>1
    <3>2. CASE e # d
      <4>1. stored[e] # Nothing => Begins(stored[e], stored[e])
        BY Sequences DEF Begins
      <4>2. QED
        BY <3>2, <4>1
    <3>3. QED
      BY <3>1, <3>2
  <2>2. head # Nothing => Begins(head.state, head.state)
    BY Sequences DEF Begins
  <2>3. QED
    BY <1>1, <2>1, <2>2 DEF Grown
<1>4. head' # Nothing => head'.state \in Seq(Commands)
  BY <1>1, Sequences
<1>5. HeadInv'
  <2>1. head # Nothing => Good(head.state, issued') /\ head.state \in revisions
    BY GoodMore DEF Inv, HeadInv
  <2>2. \A s \in revisions : Good(s, issued')
    BY GoodMore DEF Inv, HeadInv
  <2>3. head = Nothing => \A e \in Devices : e # Origin => stored'[e] = Nothing
    BY DEF Inv, HeadInv
  <2>4. QED
    BY <1>1, <2>1, <2>2, <2>3 DEF HeadInv
<1>6. BranchInv'
  BY <1>1, <1>3, <1>4, BranchesStay DEF BranchInv
<1>7. ReceiptInv'
  BY <1>1, <1>3, <1>4, ReceiptsStay DEF ReceiptInv
<1>8. NetInv'
  <2>1. ASSUME NEW q \in network
        PROVE  RequestOK(q, head', issued', requested', network', receipts', outbox'[q.device])
    <3>1. \A r \in network' : r.id = q.id => r \in network
      OBVIOUS
    <3>2. q.device \in Devices
      BY DEF Inv, TypeOK, Request
    <3>3. outbox[q.device] # Nothing /\ outbox[q.device].request = q.id =>
            \/ outbox'[q.device] # Nothing /\ outbox'[q.device].request = q.id
            \/ Answered(q.id, receipts')
            \/ q.commands = <<>> /\ ~q.initial
      BY <1>1, <3>2
    <3>4. QED
      BY <1>3, <1>4, <3>1, <3>3, RequestStays
  <2>2. \A q \in network' \ network :
          RequestOK(q, head', issued', requested', network', receipts', outbox'[q.device])
    BY <1>1
  <2>3. QED
    BY <2>1, <2>2 DEF NetInv
<1>9. BoxInv'
  <2>1. ASSUME NEW e \in Devices \ {d}
        PROVE  BoxOK(e, outbox'[e], stored'[e], head', issued', requested', network', receipts')
    <3>1. outbox[e] # Nothing => \A q \in network' : q.id = outbox[e].request => q \in network
      OBVIOUS
    <3>2. \A c : Holds(head', c) => Holds(head, c)
      BY <1>1
    <3>3. QED
      BY <1>3, <1>4, <3>1, <3>2, BoxStays
  <2>2. BoxOK(d, outbox'[d], stored'[d], head', issued', requested', network', receipts')
    BY <1>1
  <2>3. QED
    BY <2>1, <2>2 DEF BoxInv
<1>10. ApartInv'
  <2>1. \A e \in Devices \ {d} : Apart(outbox'[d], outbox'[e]) /\ Apart(outbox'[e], outbox'[d])
    <3>1. \A one, two : Apart(one, two) => Apart(two, one)
      BY DEF Apart
    <3>2. QED
      BY <3>1
  <2>2. \A e, f \in Devices \ {d} : e # f => Apart(outbox'[e], outbox'[f])
    BY DEF Inv, ApartInv
  <2>3. \A e, f \in Devices : e # f => Apart(outbox'[e], outbox'[f])
    BY <2>1, <2>2
  <2>4. QED
    BY <2>3 DEF ApartInv
<1>11. LocalInv'
  <2>1. ASSUME late' = 0
        PROVE  \A e \in Devices : LocalOK(outbox'[e], stored'[e], row'[e], revisions)
    BY <2>1 DEF Inv, LocalInv
  <2>2. QED
    BY <1>1, <2>1 DEF LocalInv
<1>12. PageInv'
  BY <1>3, <1>4, PageStays DEF PageInv
<1>13. KeptInv'
  <2>1. ASSUME late' = 0 PROVE \A c \in issued : Kept(c)'
    BY <1>3, <1>4, <2>1, CommandsStay
  <2>2. QED
    BY <2>1 DEF KeptInv
<1>14. QED
  BY <1>2, <1>5, <1>6, <1>7, <1>8, <1>9, <1>10, <1>11, <1>12, <1>13 DEF Inv
\* Two sequences of the same length, when one begins the other.
LEMMA SameLength ==
  ASSUME NEW S, NEW s \in Seq(S), NEW t \in Seq(S), Begins(s, t), Len(t) = Len(s)
  PROVE  s = t
<1>1. Len(t) <= Len(s)
  BY DEF Begins
<1>2. QED
  BY <1>1, BeginsWhole

\* A new outbox.
LEMMA NewOutboxFacts ==
  ASSUME NEW s \in States, NEW isInitial \in BOOLEAN, NEW box, box = NewOutbox(s, isInitial)
  PROVE  /\ box \in Outbox /\ box # Nothing /\ box.base = s /\ box.initial = isInitial
         /\ box.commands = <<>> /\ Len(box.commands) = 0 /\ box.request = Nothing
         /\ box.count = 0 /\ ~box.branched /\ ~box.overflow
<1>1. <<>> \in Seq(Command) /\ Len(<<>>) = 0
  OBVIOUS
<1>2. box \in Outbox
  BY <1>1 DEF NewOutbox, Outbox, Batch
<1>3. QED
  BY <1>1, <1>2, NothingAssumption DEF NewOutbox

\* Nothing follows from an outbox without commands.
LEMMA EmptyBox ==
  ASSUME NEW box \in Outbox, Len(box.commands) = 0
  PROVE  /\ \A ids : Follow(box.base, box.commands, ids)
         /\ \A ids, s : Good(s, ids) /\ s = box.base => Joined(s, box.base, box.commands)
         /\ InTurn(box.base, box.commands)
         /\ \A two : box.request = Nothing => Apart(box, two)
<1>1. box.commands \in Batch
  BY DEF Outbox
<1>2. \A i : ~(i \in 1..Len(box.commands))
  OBVIOUS
<1>3. \A ids : Follow(box.base, box.commands, ids)
  BY <1>1, <1>2 DEF Follow
<1>4. \A ids, s : Good(s, ids) /\ s = box.base => Joined(s, box.base, box.commands)
  BY <1>2 DEF Joined, Good
<1>5. InTurn(box.base, box.commands)
  BY <1>2 DEF InTurn
<1>6. \A two : box.request = Nothing => Apart(box, two)
  BY <1>2 DEF Apart
<1>7. QED
  BY <1>3, <1>4, <1>5, <1>6

\* Request ids are no null.
LEMMA IdsAreNumbers ==
  ASSUME Inv
  PROVE  /\ \A q \in network : q.id # Nothing /\ q.id \in RequestIds /\ q.device \in Devices
         /\ requested \in Nat /\ RequestIds \subseteq Nat
<1>1. \A q \in network : q.id \in RequestIds /\ q.device \in Devices
  BY DEF Inv, TypeOK, Request
<1>2. requested \in Nat /\ RequestIds \subseteq Nat
  BY LimitsAssumption DEF Inv, TypeOK, RequestIds
<1>3. QED
  BY <1>1, <1>2, NothingAssumption

\* enableConnectedSync: the first outbox begins with the state that is stored.
LEMMA EnableStep == ASSUME Inv, NEW p \in Pages, Enable(p) PROVE Inv'
<1> DEFINE d == DeviceOf[p]
           s == page[p].state
           g == [page[p] EXCEPT !.at = "preparing", !.state = Nothing]
<1>1. /\ stored' = stored /\ row' = row /\ network' = network /\ issued' = issued
      /\ requested' = requested /\ late' = late /\ UNCHANGED serverVars
      /\ page[p].at = "enabling"
  BY DEF Enable, bounds
<1>2. /\ d \in Devices /\ page \in [Pages -> Page] /\ page[p] \in Page
      /\ Fit(page[p], d) /\ outbox \in [Devices -> Outbox \cup {Nothing}]
  BY DevicesAssumption DEF Inv, TypeOK, PageInv, PageGood
<1>3. \/ outbox' = outbox /\ page' = [page EXCEPT ![p] = Resting(page[p].shown)]
      \/ outbox' = outbox /\ page' = [page EXCEPT ![p] = g] /\ outbox[d] # Nothing
      \/ /\ row[d] = Len(s) /\ page' = [page EXCEPT ![p] = g] /\ outbox[d] = Nothing
         /\ outbox' = [outbox EXCEPT ![d] = NewOutbox(s, TRUE)]
  BY DEF Enable, Revision
<1>4. /\ s # Nothing /\ stored[d] # Nothing /\ Good(s, issued)
      /\ late = 0 => Begins(s, stored[d])
  BY <1>1, <1>2 DEF Fit, ShowsOK, TrailsOK
<1>5. /\ g \in Page /\ g.shown = page[p].shown /\ g.at = "preparing" /\ g.state = Nothing
      /\ g.request = page[p].request /\ g.receipt = page[p].receipt
  BY <1>2 DEF Page
<1> HIDE DEF s, g
<1>6. CASE outbox' = outbox /\ page' = [page EXCEPT ![p] = Resting(page[p].shown)]
  <2>1. page' \in [Pages -> Page] /\ \A q \in Pages : page'[q] = page[q] \/ Fit(page'[q], DeviceOf[q])
    BY <1>2, <1>6, AtRest
  <2>2. UNCHANGED <<deviceVars, network, serverVars, bounds>>
    BY <1>1, <1>6 DEF deviceVars, bounds
  <2>3. QED
    BY <2>1, <2>2, PageStep
<1>7. CASE outbox' = outbox /\ page' = [page EXCEPT ![p] = g] /\ outbox[d] # Nothing
  <2>1. Fit(g, d)
    BY <1>2, <1>5, <1>7 DEF Fit, ShowsOK, SendsOK, TrailsOK
  <2>2. page' \in [Pages -> Page] /\ \A q \in Pages : page'[q] = page[q] \/ Fit(page'[q], DeviceOf[q])
    BY <1>2, <1>5, <1>7, <2>1
  <2>3. UNCHANGED <<deviceVars, network, serverVars, bounds>>
    BY <1>1, <1>7 DEF deviceVars, bounds
  <2>4. QED
    BY <2>2, <2>3, PageStep
<1>8. CASE /\ row[d] = Len(s) /\ page' = [page EXCEPT ![p] = g] /\ outbox[d] = Nothing
           /\ outbox' = [outbox EXCEPT ![d] = NewOutbox(s, TRUE)]
  <2> DEFINE box == NewOutbox(s, TRUE)
  <2>1. s \in States /\ s \in Seq(Commands) /\ stored[d] \in Seq(Commands)
    BY <1>2, <1>4, GoodIsState, Sequences DEF Inv, TypeOK
  <2>2. /\ box \in Outbox /\ box # Nothing /\ box.base = s /\ box.initial
        /\ box.commands = <<>> /\ Len(box.commands) = 0 /\ box.request = Nothing
        /\ box.count = 0 /\ ~box.branched /\ ~box.overflow
    <3>1. \A b : b = box => /\ b \in Outbox /\ b # Nothing /\ b.base = s /\ b.initial = TRUE
                            /\ b.commands = <<>> /\ Len(b.commands) = 0 /\ b.request = Nothing
                            /\ b.count = 0 /\ ~b.branched /\ ~b.overflow
      BY <2>1, NewOutboxFacts
    <3> HIDE DEF box
    <3>2. QED
      BY <3>1
  <2>3. outbox'[d] = box /\ \A e \in Devices \ {d} : outbox'[e] = outbox[e]
    BY <1>2, <1>8
  <2> HIDE DEF box
  <2>4. StoreTypes' /\ PageTypes' /\ ServerTypes'
    <3>1. outbox' \in [Devices -> Outbox \cup {Nothing}]
      BY <1>2, <1>8, <2>2 DEF box
    <3>2. page' \in [Pages -> Page]
      BY <1>2, <1>5, <1>8
    <3>3. QED
      BY <1>1, <3>1, <3>2 DEF Inv, TypeOK, StoreTypes, PageTypes, ServerTypes, serverVars
  <2>5. BoxOK(d, box, stored[d], head, issued, requested, network, receipts)
    <3>1. Good(stored[d], issued)
      BY <1>2, <1>4 DEF Inv, BoxInv, BoxOK
    <3>2. Follow(box.base, box.commands, issued)
      BY <2>2, EmptyBox
    <3>3. \A q \in network : q.id # box.request
      BY <2>2, IdsAreNumbers
    <3>4. QED
      BY <1>4, <2>2, <3>1, <3>2, <3>3 DEF BoxOK
  <2>6. late = 0 => LocalOK(box, stored[d], row[d], revisions)
    <3>1. ASSUME late = 0 PROVE s = stored[d]
      <4>1. row[d] = Len(stored[d])
        BY <1>2, <1>4, <3>1 DEF Inv, LocalInv, LocalOK
      <4>2. QED
        BY <1>4, <1>8, <2>1, <3>1, <4>1, SameLength
    <3>2. ASSUME late = 0
          PROVE  Joined(stored[d], box.base, box.commands) /\ InTurn(box.base, box.commands)
      BY <1>4, <2>2, <3>1, <3>2, EmptyBox
    <3>3. QED
      BY <1>8, <2>2, <3>1, <3>2 DEF LocalOK
  <2>7. \A two : Apart(box, two)
    BY <2>2, EmptyBox
  <2>8. PageGood(p)'
    <3>1. page'[p] = g
      BY <1>2, <1>8
    <3>2. ShowsOK(g, stored[d], box, issued)
      BY <1>2, <1>5, <2>2 DEF Fit, ShowsOK
    <3>3. SendsOK(g, d, head, revisions, network, receipts)
      BY <1>2, <1>5 DEF Fit, SendsOK
    <3>4. late = 0 => TrailsOK(g, stored[d])
      BY <1>2, <1>5 DEF Fit, TrailsOK
    <3>5. QED
      BY <1>1, <2>3, <3>1, <3>2, <3>3, <3>4 DEF PageGood, Fit, serverVars
  <2>9. \A q \in Pages : page'[q] = page[q] \/ PageGood(q)'
    BY <1>2, <1>8, <2>8
  <2>10. Begins(stored[d], stored[d])
    BY <2>1 DEF Begins
  <2>11. requested <= requested'
    BY <1>1, IdsAreNumbers
  <2>12. head = Nothing /\ d # Origin => stored'[d] = Nothing
    BY <1>1, <1>2 DEF Inv, HeadInv
  <2>13. QED
    BY <1>1, <1>2, <1>4, <1>8, <2>3, <2>4, <2>5, <2>6, <2>7, <2>9, <2>10, <2>11, <2>12, DeviceStep
<1>9. QED
  BY <1>3, <1>6, <1>7, <1>8
\* The pending request of a device that has nothing to send has nothing to say.
LEMMA NothingSent ==
  ASSUME Inv, NEW q \in network, NEW box, box = outbox[q.device], box # Nothing,
         box.request = q.id, box.commands = <<>>, ~box.initial
  PROVE  q.commands = <<>> /\ ~q.initial
<1>1. q.device \in Devices /\ box \in Outbox
  BY DEF Inv, TypeOK, Request
<1>2. BoxOK(q.device, box, stored[q.device], head, issued, requested, network, receipts)
  BY <1>1 DEF Inv, BoxInv
<1>3. q = RequestOf(q.device, box) /\ box.count <= Len(box.commands)
  BY <1>2 DEF BoxOK
<1>4. q.commands = Prefix(box) /\ q.initial = box.initial
  <2>1. RequestOf(q.device, box).commands = Prefix(box) /\ RequestOf(q.device, box).initial = box.initial
    BY DEF RequestOf
  <2>2. QED
    BY <1>3, <2>1
<1>5. Prefix(box) \in Seq(Command) /\ Len(Prefix(box)) = 0
  <2>1. box.count \in Nat /\ Len(box.commands) = 0
    BY <1>1 DEF Outbox
  <2>2. Prefix(box) \in Batch /\ Len(Prefix(box)) = box.count
    BY <1>1, <1>3, PrefixFacts
  <2>3. QED
    BY <1>3, <2>1, <2>2 DEF Batch
<1>6. QED
  BY <1>4, <1>5

\* installConnectedSnapshot replaces what is on the device with a later state, if all of it
\* is in the cloud.
LEMMA InstallStep == ASSUME Inv, NEW p \in Pages, Install(p) PROVE Inv'
<1> DEFINE d == DeviceOf[p]
           s == page[p].state
           g == [page[p] EXCEPT !.at = "opening", !.state = Nothing]
           box == NewOutbox(s, FALSE)
<1>1. /\ network' = network /\ issued' = issued
      /\ requested' = requested /\ late' = late /\ UNCHANGED serverVars
      /\ page[p].at = "installing"
  BY DEF Install, bounds
<1>2. /\ d \in Devices /\ page \in [Pages -> Page] /\ page[p] \in Page
      /\ Fit(page[p], d) /\ outbox \in [Devices -> Outbox \cup {Nothing}]
      /\ stored \in [Devices -> States \cup {Nothing}]
      /\ row \in [Devices -> 0..Cardinality(Commands)]
  BY DevicesAssumption DEF Inv, TypeOK, PageInv, PageGood
<1>3. \/ /\ page' = [page EXCEPT ![p] = Resting(page[p].shown)]
         /\ stored' = stored /\ row' = row /\ outbox' = outbox
      \/ /\ Replaceable(d, s) /\ page' = [page EXCEPT ![p] = g]
         /\ stored' = [stored EXCEPT ![d] = s] /\ row' = [row EXCEPT ![d] = Len(s)]
         /\ outbox' = [outbox EXCEPT ![d] = box]
  BY DEF Install, Revision, deviceVars
<1>4. s # Nothing /\ Good(s, issued) /\ Past(s, head) /\ s \in revisions
  BY <1>1, <1>2 DEF Fit, ShowsOK, SendsOK
<1>5. /\ g \in Page /\ g.shown = page[p].shown /\ g.at = "opening" /\ g.state = Nothing
  BY <1>2 DEF Page
<1>6. CASE /\ page' = [page EXCEPT ![p] = Resting(page[p].shown)]
           /\ stored' = stored /\ row' = row /\ outbox' = outbox
  <2>1. page' \in [Pages -> Page] /\ \A q \in Pages : page'[q] = page[q] \/ Fit(page'[q], DeviceOf[q])
    BY <1>2, <1>6, AtRest
  <2>2. UNCHANGED <<deviceVars, network, serverVars, bounds>>
    BY <1>1, <1>6 DEF deviceVars, bounds
  <2>3. QED
    BY <2>1, <2>2, PageStep
<1>7. CASE /\ Replaceable(d, s) /\ page' = [page EXCEPT ![p] = g]
           /\ stored' = [stored EXCEPT ![d] = s] /\ row' = [row EXCEPT ![d] = Len(s)]
           /\ outbox' = [outbox EXCEPT ![d] = box]
  <2>1. s \in States /\ s \in Seq(Commands) /\ Len(s) \in 0..Cardinality(Commands)
    BY <1>4, GoodIsState, Sequences DEF Inv, TypeOK
  <2>2. /\ box \in Outbox /\ box # Nothing /\ box.base = s /\ ~box.initial
        /\ box.commands = <<>> /\ Len(box.commands) = 0 /\ box.request = Nothing
        /\ box.count = 0 /\ ~box.branched /\ ~box.overflow
    <3>1. \A b : b = box => /\ b \in Outbox /\ b # Nothing /\ b.base = s /\ b.initial = FALSE
                            /\ b.commands = <<>> /\ Len(b.commands) = 0 /\ b.request = Nothing
                            /\ b.count = 0 /\ ~b.branched /\ ~b.overflow
      BY <2>1, NewOutboxFacts
    <3> HIDE DEF box
    <3>2. QED
      BY <3>1
  <2>3. stored[d] # Nothing =>
          /\ outbox[d] # Nothing /\ outbox[d].commands = <<>> /\ ~outbox[d].initial
          /\ ~outbox[d].overflow /\ row[d] <= Len(s)
    BY <1>7 DEF Replaceable, Revision
  <2> HIDE DEF s, g, box, d
  <2>4. /\ outbox'[d] = box /\ stored'[d] = s /\ row'[d] = Len(s) /\ page'[p] = g
        /\ \A e \in Devices \ {d} : /\ stored'[e] = stored[e] /\ row'[e] = row[e]
                                    /\ outbox'[e] = outbox[e]
    BY <1>2, <1>7
  <2>5. StoreTypes' /\ PageTypes' /\ ServerTypes'
    <3>1. outbox' \in [Devices -> Outbox \cup {Nothing}]
      BY <1>2, <1>7, <2>2
    <3>2. stored' \in [Devices -> States \cup {Nothing}]
      BY <1>2, <1>7, <2>1
    <3>3. row' \in [Devices -> 0..Cardinality(Commands)]
      BY <1>2, <1>7, <2>1
    <3>4. page' \in [Pages -> Page]
      BY <1>2, <1>5, <1>7
    <3>5. QED
      BY <1>1, <3>1, <3>2, <3>3, <3>4 DEF Inv, TypeOK, StoreTypes, PageTypes, ServerTypes, serverVars
  <2>6. BoxOK(d, box, s, head, issued, requested, network, receipts)
    <3>1. Follow(box.base, box.commands, issued)
      BY <2>2, EmptyBox
    <3>2. \A q \in network : q.id # box.request
      BY <2>2, IdsAreNumbers
    <3>3. QED
      BY <1>4, <2>2, <3>1, <3>2 DEF BoxOK
  <2>7. LocalOK(box, s, Len(s), revisions)
    <3>1. Joined(s, box.base, box.commands) /\ InTurn(box.base, box.commands)
      BY <1>4, <2>2, EmptyBox
    <3>2. QED
      BY <1>4, <2>2, <3>1 DEF LocalOK
  <2>8. ASSUME late = 0, stored[d] # Nothing PROVE Begins(stored[d], s)
    <3> DEFINE old == outbox[d]
    <3>1. LocalOK(old, stored[d], row[d], revisions)
      BY <1>2, <2>8 DEF Inv, LocalInv
    <3>2. /\ old # Nothing /\ old.commands = <<>> /\ ~old.initial /\ ~old.overflow
          /\ Len(stored[d]) <= Len(s) /\ Joined(stored[d], old.base, old.commands)
      BY <2>3, <2>8, <3>1 DEF LocalOK
    <3>3. BoxOK(d, old, stored[d], head, issued, requested, network, receipts)
      BY <1>2 DEF Inv, BoxInv
    <3> HIDE DEF old
    <3>4. Good(old.base, issued) /\ Past(old.base, head) /\ Good(stored[d], issued)
      BY <2>8, <3>2, <3>3 DEF BoxOK
    <3>5. old.base \in Seq(Commands) /\ stored[d] \in Seq(Commands)
      BY <3>4, Sequences
    <3>6. stored[d] = old.base
      <4>1. Len(stored[d]) = Len(old.base) /\ \A i \in 1..Len(old.base) : stored[d][i] = old.base[i]
        <5>1. Len(old.commands) = 0
          BY <3>2
        <5>2. Len(old.base) \in Nat
          BY <3>5
        <5>3. QED
          BY <3>2, <5>1, <5>2 DEF Joined
      <4>2. QED
        BY <3>5, <4>1
    <3>7. head # Nothing /\ Begins(old.base, head.state) /\ Begins(s, head.state)
          /\ head.state \in Seq(Commands)
      BY <1>4, <3>4, Sequences DEF Past
    <3>8. Begins(old.base, s)
      BY <2>1, <3>2, <3>5, <3>6, <3>7, BeginsShorter
    <3>9. QED
      BY <3>6, <3>8
  <2>9. \A two : Apart(box, two)
    BY <2>2, EmptyBox
  <2>10. ASSUME NEW q \in network, q.device = d, outbox[d] # Nothing, outbox[d].request = q.id
         PROVE  q.commands = <<>> /\ ~q.initial
    <3>1. stored[d] # Nothing
      BY <1>2, <2>10 DEF Inv, BoxInv, BoxOK
    <3>2. QED
      BY <2>3, <2>10, <3>1, NothingSent
  <2>11. PageGood(p)'
    <3>1. Fit(page[p], d)
      BY <1>2
    <3>2. ShowsOK(g, s, box, issued)
      BY <1>4, <1>5, <3>1 DEF Fit, ShowsOK
    <3>3. SendsOK(g, d, head, revisions, network, receipts)
      BY <1>5 DEF SendsOK
    <3>4. ASSUME late = 0 PROVE TrailsOK(g, s)
      <4>1. ASSUME g.shown # Nothing PROVE Begins(g.shown, s)
        <5>1. stored[d] # Nothing /\ Good(g.shown, issued) /\ Begins(g.shown, stored[d])
          BY <1>5, <3>1, <3>4, <4>1 DEF Fit, ShowsOK, TrailsOK
        <5>2. g.shown \in Seq(Commands) /\ stored[d] \in Seq(Commands)
          BY <1>2, <5>1, Sequences
        <5>3. QED
          BY <2>1, <2>8, <3>4, <5>1, <5>2, BeginsTransitive
      <4>2. QED
        BY <1>5, <4>1 DEF TrailsOK
    <3>5. QED
      BY <1>1, <2>4, <3>2, <3>3, <3>4 DEF PageGood, Fit, serverVars, d
  <2>12. \A q \in Pages : page'[q] = page[q] \/ PageGood(q)'
    BY <1>2, <1>7, <2>11
  <2>13. requested <= requested'
    BY <1>1, IdsAreNumbers
  <2>14. head # Nothing
    BY <1>4 DEF Past
  <2>15. QED
    BY <1>1, <1>2, <1>4, <2>2, <2>4, <2>5, <2>6, <2>7, <2>8, <2>9, <2>10, <2>12, <2>13, <2>14, DeviceStep
<1>8. QED
  BY <1>3, <1>6, <1>7
\* The pending request of an outbox, or a new one with an id that nobody used.
LEMMA RequestedFacts ==
  ASSUME Inv, NEW d \in Devices, outbox[d] # Nothing, NEW old, old = outbox[d],
         NEW box, box = Requested(old), box.request <= MaxRequests,
         NEW m, m = IF box.request > requested THEN box.request ELSE requested
  PROVE  /\ old \in Outbox /\ box \in Outbox /\ box # Nothing
         /\ box.base = old.base /\ box.initial = old.initial
         /\ box.commands = old.commands /\ box.overflow = old.overflow
         /\ box.request \in RequestIds /\ box.count <= Len(box.commands)
         /\ box.initial => box.count = 0
         /\ box.request <= m /\ requested <= m /\ m \in 0..MaxRequests
         /\ \A r \in network : r.id = box.request => r = RequestOf(d, box)
         /\ \A e \in Devices \ {d} : outbox[e] # Nothing => outbox[e].request # box.request
         /\ old.request # Nothing => box.request = old.request
         /\ \A i \in 1..Len(box.commands) :
              Holds(head, box.commands[i].id) => i <= box.count /\ Synced(box.request, receipts)
<1>1. /\ old \in Outbox /\ requested \in 0..MaxRequests /\ MaxRequests \in Nat
      /\ old.count \in Nat /\ Len(old.commands) \in Nat
      /\ \A e \in Devices : outbox[e] # Nothing => outbox[e] \in Outbox
  BY LimitsAssumption DEF Inv, TypeOK, Outbox, Batch
<1>2. BoxOK(d, old, stored[d], head, issued, requested, network, receipts)
  BY DEF Inv, BoxInv
<1>3. /\ old.count <= Len(old.commands) /\ (old.initial => old.count = 0)
      /\ old.request # Nothing => old.request <= requested
      /\ \A q \in network : q.id = old.request => q = RequestOf(d, old)
      /\ \A i \in 1..Len(old.commands) :
           Holds(head, old.commands[i].id) => i <= old.count /\ Synced(old.request, receipts)
  BY <1>2 DEF BoxOK
<1>4. CASE old.request # Nothing
  <2>1. box = old /\ box.request \in RequestIds
    BY <1>1, <1>4 DEF Requested, Outbox
  <2>2. m = requested
    BY <1>1, <1>3, <1>4, <2>1 DEF RequestIds
  <2>3. \A e \in Devices \ {d} : outbox[e] # Nothing => outbox[e].request # box.request
    BY <1>4, <2>1 DEF Inv, ApartInv, Apart
  <2>4. QED
    BY <1>1, <1>3, <1>4, <2>1, <2>2, <2>3
<1>5. CASE old.request = Nothing
  <2> DEFINE n == IF old.initial THEN 0 ELSE Len(old.commands)
  <2>1. box = [old EXCEPT !.request = requested + 1, !.count = n]
    BY <1>5 DEF Requested
  <2>2. n \in Nat /\ n <= Len(old.commands) /\ (old.initial => n = 0)
    BY <1>1
  <2> HIDE DEF n
  <2>3. /\ box.request = requested + 1 /\ box.count = n
        /\ box.base = old.base /\ box.initial = old.initial
        /\ box.commands = old.commands /\ box.overflow = old.overflow
    BY <1>1, <2>1 DEF Outbox
  <2>4. box.request \in RequestIds /\ m = requested + 1
    BY <1>1, <2>3 DEF RequestIds
  <2>5. box \in Outbox /\ box # Nothing
    <3>1. box \in Outbox
      BY <1>1, <2>1, <2>2, <2>3, <2>4 DEF Outbox
    <3>2. QED
      BY <3>1, NothingAssumption
  <2>6. \A r \in network : r.id # box.request
    <3>1. \A r \in network : r.id <= requested /\ r.id \in Nat
      BY IdsAreNumbers DEF Inv, NetInv, RequestOK
    <3>2. QED
      BY <1>1, <2>3, <3>1
  <2>7. ASSUME NEW e \in Devices \ {d}, outbox[e] # Nothing PROVE outbox[e].request # box.request
    <3>1. outbox[e].request # Nothing => outbox[e].request <= requested
      BY <2>7 DEF Inv, BoxInv, BoxOK
    <3>2. outbox[e].request # Nothing => outbox[e].request \in Nat
      BY <1>1, <2>7 DEF Outbox, RequestIds
    <3>3. box.request # Nothing
      BY <2>4, NothingAssumption
    <3>4. QED
      BY <1>1, <2>3, <3>1, <3>2, <3>3
  <2>8. ~Synced(Nothing, receipts)
    <3>1. \A x \in receipts : x.request \in network
      BY DEF Inv, ReceiptInv, ReceiptOK
    <3>2. \A x \in receipts : x.request.id # Nothing
      BY <3>1, IdsAreNumbers
    <3>3. QED
      BY <3>2 DEF Synced
  <2>9. \A i \in 1..Len(old.commands) : ~Holds(head, old.commands[i].id)
    BY <1>3, <1>5, <2>8
  <2>10. box.request <= m /\ requested <= m /\ m \in 0..MaxRequests
    BY <1>1, <2>3, <2>4 DEF RequestIds
  <2>11. QED
    BY <1>1, <1>5, <2>2, <2>3, <2>4, <2>5, <2>6, <2>7, <2>9, <2>10
<1>6. QED
  BY <1>4, <1>5

\* A request that an outbox gives.
LEMMA RequestIsOK ==
  ASSUME Inv, NEW d \in Devices, NEW box \in Outbox, box.request \in RequestIds,
         box.count <= Len(box.commands), box.initial => box.count = 0,
         Good(box.base, issued), Follow(box.base, box.commands, issued),
         ~box.initial => Past(box.base, head),
         NEW m, box.request <= m, NEW net,
         \A r \in net : r.id = box.request => r = RequestOf(d, box),
         NEW q, q = RequestOf(d, box)
  PROVE  RequestOK(q, head, issued, m, net, receipts, box) /\ q \in Request
<1>1. /\ q.id = box.request /\ q.device = d /\ q.base = box.base /\ q.initial = box.initial
      /\ q.commands = Prefix(box)
  BY DEF RequestOf
<1>2. /\ Prefix(box) \in Batch /\ Len(Prefix(box)) = box.count
      /\ \A i \in 1..Len(Prefix(box)) : i \in 1..Len(box.commands) /\ Prefix(box)[i] = box.commands[i]
  BY PrefixFacts
<1>3. Follow(q.base, q.commands, issued)
  BY SMTT(40), <1>1, <1>2 DEF Follow
<1>4. q.initial => q.commands = <<>>
  <2>1. box.initial => Prefix(box) = <<>>
    BY <1>2 DEF Batch
  <2>2. QED
    BY <1>1, <2>1
<1>5. box # Nothing
  BY NothingAssumption
<1>6. q \in Request
  BY <1>2 DEF RequestOf, Request, Outbox
<1>7. QED
  BY <1>1, <1>3, <1>4, <1>5, <1>6 DEF RequestOK
\* prepareConnectedSync: the pending request again, or a new one, is sent.
LEMMA PrepareStep == ASSUME Inv, NEW p \in Pages, Prepare(p) PROVE Inv'
<1> DEFINE d == DeviceOf[p]
           old == outbox[d]
           box == Requested(old)
           request == RequestOf(d, box)
           m == IF box.request > requested THEN box.request ELSE requested
           g == [page[p] EXCEPT !.at = "waiting", !.request = request,
                                !.again = box.initial /\ box.commands # <<>>]
<1>1. /\ page[p].at = "preparing" /\ box.request <= MaxRequests
      /\ outbox' = [outbox EXCEPT ![d] = box] /\ requested' = m
      /\ \/ page' = [page EXCEPT ![p] = Resting(page[p].shown)] /\ network' = network
         \/ page' = [page EXCEPT ![p] = g] /\ network' = network \cup {request}
      /\ stored' = stored /\ row' = row /\ issued' = issued /\ late' = late /\ UNCHANGED serverVars
  BY DEF Prepare, RequestOf
<1>2. /\ d \in Devices /\ page \in [Pages -> Page] /\ page[p] \in Page
      /\ Fit(page[p], d) /\ outbox \in [Devices -> Outbox \cup {Nothing}]
  BY DevicesAssumption DEF Inv, TypeOK, PageInv, PageGood
<1>3. old # Nothing
  BY <1>1, <1>2 DEF Fit, ShowsOK
<1>4. /\ old \in Outbox /\ box \in Outbox /\ box # Nothing
      /\ box.base = old.base /\ box.initial = old.initial
      /\ box.commands = old.commands /\ box.overflow = old.overflow
      /\ box.request \in RequestIds /\ box.count <= Len(box.commands)
      /\ box.initial => box.count = 0
      /\ box.request <= m /\ requested <= m /\ m \in 0..MaxRequests
      /\ \A r \in network : r.id = box.request => r = RequestOf(d, box)
      /\ \A e \in Devices \ {d} : outbox[e] # Nothing => outbox[e].request # box.request
      /\ old.request # Nothing => box.request = old.request
      /\ \A i \in 1..Len(box.commands) :
           Holds(head, box.commands[i].id) => i <= box.count /\ Synced(box.request, receipts)
  <2>1. \A b, n : b = box /\ n = m =>
          /\ old \in Outbox /\ b \in Outbox /\ b # Nothing
          /\ b.base = old.base /\ b.initial = old.initial
          /\ b.commands = old.commands /\ b.overflow = old.overflow
          /\ b.request \in RequestIds /\ b.count <= Len(b.commands)
          /\ b.initial => b.count = 0
          /\ b.request <= n /\ requested <= n /\ n \in 0..MaxRequests
          /\ \A r \in network : r.id = b.request => r = RequestOf(d, b)
          /\ \A e \in Devices \ {d} : outbox[e] # Nothing => outbox[e].request # b.request
          /\ old.request # Nothing => b.request = old.request
          /\ \A i \in 1..Len(b.commands) :
               Holds(head, b.commands[i].id) => i <= b.count /\ Synced(b.request, receipts)
    BY <1>1, <1>2, <1>3, RequestedFacts
  <2> HIDE DEF box, m
  <2>2. QED
    BY <2>1
<1> HIDE DEF box, m
<1>5. BoxOK(d, old, stored[d], head, issued, requested, network, receipts)
  BY <1>2 DEF Inv, BoxInv
<1>6. /\ stored[d] # Nothing /\ Good(stored[d], issued)
      /\ Good(box.base, issued) /\ Follow(box.base, box.commands, issued)
      /\ ~box.initial => Past(box.base, head)
  BY <1>3, <1>4, <1>5 DEF BoxOK
<1>7. \A net : (\A r \in net : r.id = box.request => r = RequestOf(d, box)) =>
        RequestOK(request, head, issued, m, net, receipts, box) /\ request \in Request
  BY <1>2, <1>4, <1>6, RequestIsOK
<1>8. request.id = box.request /\ request.device = d
  BY DEF RequestOf
<1> HIDE DEF request, d
<1>9. network \subseteq network' /\ network' \subseteq network \cup {request}
  BY <1>1
<1>10. \A r \in network' : r.id = box.request => r = request
  BY <1>4, <1>9 DEF request
<1>11. RequestOK(request, head, issued, m, network', receipts, box) /\ request \in Request
  BY <1>7, <1>10 DEF request
<1>12. /\ outbox'[d] = box
       /\ \A e \in Devices \ {d} : outbox'[e] = outbox[e]
  BY <1>1, <1>2
<1>13. /\ g \in Page /\ g.shown = page[p].shown /\ g.at = "waiting"
       /\ g.state = page[p].state /\ g.request = request
  BY <1>2, <1>11 DEF Page
<1> HIDE DEF g
<1>14. StoreTypes' /\ PageTypes' /\ ServerTypes'
  <2>1. outbox' \in [Devices -> Outbox \cup {Nothing}]
    BY <1>1, <1>2, <1>4
  <2>2. page' \in [Pages -> Page]
    BY <1>1, <1>2, <1>13, AtRest
  <2>3. network' \subseteq Request
    BY <1>9, <1>11 DEF Inv, TypeOK
  <2>4. requested' \in 0..MaxRequests
    BY <1>1, <1>4
  <2>5. QED
    BY <1>1, <2>1, <2>2, <2>3, <2>4 DEF Inv, TypeOK, StoreTypes, PageTypes, ServerTypes, serverVars
<1>15. BoxOK(d, box, stored[d], head, issued, requested', network', receipts)
  <2>1. IF box.initial THEN box.count = 0 ELSE Past(box.base, head)
    BY <1>4, <1>6
  <2>2. QED
    BY <1>1, <1>4, <1>6, <1>10, <2>1 DEF BoxOK, request
<1>16. late = 0 => LocalOK(box, stored[d], row[d], revisions)
  <2>1. late = 0 => LocalOK(old, stored[d], row[d], revisions)
    BY <1>2 DEF Inv, LocalInv
  <2>2. QED
    BY <1>3, <1>4, <2>1 DEF LocalOK
<1>17. ASSUME NEW e \in Devices \ {d} PROVE Apart(box, outbox[e])
  <2>1. Apart(old, outbox[e])
    BY <1>2 DEF Inv, ApartInv
  <2>2. QED
    BY <1>3, <1>4, <2>1 DEF Apart
<1>18. ASSUME NEW q \in network' \ network
       PROVE  /\ RequestOK(q, head, issued, requested', network', receipts, outbox'[q.device])
              /\ \A r \in network : r.id # q.id
              /\ \A e \in Devices \ {d} : outbox[e] # Nothing => outbox[e].request # q.id
  <2>1. q = request
    BY <1>9
  <2>2. \A r \in network : r.id # request.id
    BY <1>8, <1>9, <1>10, <2>1
  <2>3. QED
    BY <1>1, <1>4, <1>8, <1>11, <1>12, <2>1, <2>2
<1>19. \A q \in network : outbox[d].request = q.id => box.request = q.id
  BY <1>4, IdsAreNumbers
<1>20. \A q \in Pages : page'[q] = page[q] \/ Fit(page'[q], DeviceOf[q]) \/ PageGood(q)'
  <2>1. CASE page' = [page EXCEPT ![p] = Resting(page[p].shown)]
    BY <1>2, <2>1, AtRest
  <2>2. CASE page' = [page EXCEPT ![p] = g] /\ network' = network \cup {request}
    <3>1. page'[p] = g
      BY <1>2, <2>2
    <3>2. ShowsOK(g, stored[d], box, issued)
      BY <1>2, <1>4, <1>13 DEF Fit, ShowsOK
    <3>3. SendsOK(g, d, head, revisions, network', receipts)
      BY <1>8, <1>13, <2>2 DEF SendsOK
    <3>4. late = 0 => TrailsOK(g, stored[d])
      BY <1>2, <1>13 DEF Fit, TrailsOK
    <3>5. PageGood(p)'
      BY <1>1, <1>12, <3>1, <3>2, <3>3, <3>4 DEF PageGood, Fit, serverVars, d
    <3>6. QED
      BY <1>2, <2>2, <3>5
  <2>3. QED
    BY <1>1, <2>1, <2>2 DEF g
<1>21. Begins(stored[d], stored[d])
  BY <1>6 DEF Begins, Good
<1>22. requested <= requested'
  BY <1>1, <1>4
<1>23. head = Nothing /\ d # Origin => stored[d] = Nothing
  BY <1>2 DEF Inv, HeadInv
<1>24. QED
  BY <1>1, <1>2, <1>4, <1>9, <1>12, <1>14, <1>15, <1>16, <1>17, <1>18, <1>19, <1>20, <1>21,
     <1>22, <1>23, DeviceStep
\* The commands that were not sent.
LEMMA DropFacts ==
  ASSUME NEW box \in Outbox, box.count <= Len(box.commands), NEW rest, rest = DropPrefix(box)
  PROVE  /\ rest \in Batch /\ Len(rest) = Len(box.commands) - box.count
         /\ \A i \in 1..Len(rest) : /\ box.count + i \in 1..Len(box.commands)
                                    /\ rest[i] = box.commands[box.count + i]
<1>1. /\ box.commands \in Seq(Command) /\ box.count \in Nat /\ Len(box.commands) \in Nat
  BY DEF Outbox, Batch
<1>2. rest = SubSeq(box.commands, box.count + 1, Len(box.commands))
  BY DEF DropPrefix
<1>3. Len(rest) = Len(box.commands) - box.count
  BY <1>1, <1>2
<1>4. rest \in Seq(Command)
  BY <1>1, <1>2
<1>5. \A i \in 1..Len(rest) : rest[i] = box.commands[box.count + i]
  BY SMTT(40), <1>1, <1>2, <1>3
<1>6. \A i \in 1..Len(rest) : box.count + i \in 1..Len(box.commands)
  BY <1>1, <1>3
<1>7. QED
  BY <1>3, <1>4, <1>5, <1>6 DEF Batch

\* What is left of an outbox goes on from where the commands that were sent led.
LEMMA AfterPrefix ==
  ASSUME NEW box \in Outbox, box.count <= Len(box.commands), NEW ids,
         Good(box.base, ids), Follow(box.base, box.commands, ids),
         NEW s, Good(s, ids), Joined(s, box.base, Prefix(box)),
         NEW rest, rest = DropPrefix(box)
  PROVE  /\ Follow(s, rest, ids)
         /\ \A t : Joined(t, box.base, box.commands) => Joined(t, s, rest)
         /\ InTurn(box.base, box.commands) => InTurn(s, rest)
<1> DEFINE n == Len(box.base)
           m == Len(box.commands)
           k == box.count
           sent == Prefix(box)
<1>1. n \in Nat /\ m \in Nat /\ k \in Nat /\ k <= m
  BY DEF Good, Outbox, Batch
<1>2. sent \in Batch /\ Len(sent) = k /\ \A i \in 1..k : i \in 1..m /\ sent[i] = box.commands[i]
  <2>1. \A t : t = sent => /\ t \in Batch /\ Len(t) = k
                           /\ \A i \in 1..Len(t) : i \in 1..m /\ t[i] = box.commands[i]
    BY PrefixFacts
  <2> HIDE DEF sent
  <2>2. QED
    BY <2>1
<1>3. /\ rest \in Batch /\ Len(rest) = m - k
      /\ \A i \in 1..Len(rest) : k + i \in 1..m /\ rest[i] = box.commands[k + i]
  BY DropFacts
<1>4. /\ Len(s) = n + k
      /\ \A i \in 1..n : s[i] = box.base[i]
      /\ \A i \in 1..k : s[n + i] = box.commands[i].id
  <2>1. Joined(s, box.base, sent)
    OBVIOUS
  <2> HIDE DEF sent
  <2>2. QED
    BY <1>2, <2>1 DEF Joined
<1>5. /\ \A i \in 1..m : box.commands[i].id \in ids
      /\ \A i, j \in 1..m : box.commands[i].id = box.commands[j].id => i = j
      /\ \A i \in 1..m : \A j \in 1..n : box.base[j] # box.commands[i].id
  BY DEF Follow
<1>6. Joined(s, box.base, sent)
  OBVIOUS
<1> HIDE DEF n, m, k, sent
<1>7. Follow(s, rest, ids)
  <2>1. \A i \in 1..Len(rest) : rest[i].id \in ids
    BY <1>3, <1>5
  <2>2. ASSUME NEW i \in 1..Len(rest), NEW j \in 1..Len(rest), rest[i].id = rest[j].id PROVE i = j
    <3>1. k + i = k + j
      BY <1>3, <1>5, <2>2
    <3>2. QED
      BY <1>1, <1>3, <3>1
  <2>3. ASSUME NEW i \in 1..Len(rest), NEW j \in 1..Len(s) PROVE s[j] # rest[i].id
    <3>1. k + i \in 1..m /\ rest[i] = box.commands[k + i]
      BY <1>3
    <3>2. CASE j <= n
      <4>1. j \in 1..n
        BY <1>1, <1>4, <3>2
      <4>2. QED
        BY <1>4, <1>5, <3>1, <4>1
    <3>3. CASE j > n
      <4>1. PICK l \in 1..k : j = n + l
        <5>1. j - n \in 1..k /\ j = n + (j - n)
          BY <1>1, <1>4, <3>3
        <5>2. QED
          BY <5>1
      <4>2. l \in 1..m /\ l # k + i
        BY <1>1, <1>3, <4>1
      <4>3. s[j] = box.commands[l].id
        BY <1>4, <4>1
      <4>4. QED
        BY <1>5, <3>1, <4>2, <4>3
    <3>4. QED
      BY <1>1, <1>4, <3>2, <3>3
  <2>4. QED
    BY <1>3, <2>1, <2>2, <2>3 DEF Follow
<1>8. ASSUME NEW t, Joined(t, box.base, box.commands) PROVE Joined(t, s, rest)
  <2>1. /\ Len(t) = n + m /\ \A i \in 1..n : t[i] = box.base[i]
        /\ \A i \in 1..m : t[n + i] = box.commands[i].id
    BY <1>8 DEF Joined, n, m
  <2>2. Len(t) = Len(s) + Len(rest)
    BY <1>1, <1>3, <1>4, <2>1
  <2>3. ASSUME NEW i \in 1..Len(s) PROVE t[i] = s[i]
    <3>1. CASE i <= n
      BY <1>1, <1>4, <2>1, <3>1
    <3>2. CASE i > n
      <4>1. PICK l \in 1..k : i = n + l
        <5>1. i - n \in 1..k /\ i = n + (i - n)
          BY <1>1, <1>4, <3>2
        <5>2. QED
          BY <5>1
      <4>2. l \in 1..m
        BY <1>1, <4>1
      <4>3. QED
        BY <1>4, <2>1, <4>1, <4>2
    <3>3. QED
      BY <1>1, <1>4, <3>1, <3>2
  <2>4. ASSUME NEW i \in 1..Len(rest) PROVE t[Len(s) + i] = rest[i].id
    <3>1. k + i \in 1..m /\ rest[i] = box.commands[k + i] /\ Len(s) + i = n + (k + i)
      BY <1>1, <1>3, <1>4
    <3>2. QED
      BY <2>1, <3>1
  <2>5. QED
    BY <2>2, <2>3, <2>4 DEF Joined
<1>9. ASSUME InTurn(box.base, box.commands) PROVE InTurn(s, rest)
  <2>1. \A i \in 1..m : box.commands[i].base = n + i - 1
    BY <1>9 DEF InTurn, n, m
  <2>2. ASSUME NEW i \in 1..Len(rest) PROVE rest[i].base = Len(s) + i - 1
    <3>1. k + i \in 1..m /\ rest[i] = box.commands[k + i]
      BY <1>3
    <3>2. box.commands[k + i].base = n + (k + i) - 1
      BY <2>1, <3>1
    <3>3. n + (k + i) - 1 = Len(s) + i - 1
      BY <1>1, <1>3, <1>4
    <3>4. QED
      BY <3>1, <3>2, <3>3
  <2>3. QED
    BY <2>2 DEF InTurn
<1>10. QED
  BY <1>7, <1>8, <1>9
\* acknowledge_sync_outbox: what was synced leaves the outbox, and nothing else.
LEMMA AcknowledgeStep == ASSUME Inv, NEW p \in Pages, Acknowledge(p) PROVE Inv'
<1> DEFINE d == DeviceOf[p]
           old == outbox[d]
           r == page[p].request
           x == page[p].receipt
           box == Acknowledged(old, x)
           valid == old.request = r.id
           g == IF valid /\ page[p].again THEN [Resting(page[p].shown) EXCEPT !.at = "preparing"]
                                          ELSE Resting(page[p].shown)
<1>1. /\ page[p].at = "acknowledging"
      /\ outbox' = IF valid THEN [outbox EXCEPT ![d] = box] ELSE outbox
      /\ page' = [page EXCEPT ![p] = g]
      /\ stored' = stored /\ row' = row /\ network' = network /\ issued' = issued
      /\ requested' = requested /\ late' = late /\ UNCHANGED serverVars
  BY DEF Acknowledge, bounds
<1>2. /\ d \in Devices /\ page \in [Pages -> Page] /\ page[p] \in Page
      /\ Fit(page[p], d) /\ outbox \in [Devices -> Outbox \cup {Nothing}]
  BY DevicesAssumption DEF Inv, TypeOK, PageInv, PageGood
<1>3. /\ old # Nothing /\ r \in network /\ r.device = d
      /\ [request |-> r, receipt |-> x] \in receipts
  BY <1>1, <1>2 DEF Fit, ShowsOK, SendsOK
<1>4. /\ old \in Outbox /\ r \in Request /\ x \in Receipt
      /\ BoxOK(d, old, stored[d], head, issued, requested, network, receipts)
  BY <1>2, <1>3 DEF Inv, TypeOK, BoxInv
<1>5. /\ g \in Page /\ Fit(g, d)
  <2>1. Fit(Resting(page[p].shown), d) /\ Resting(page[p].shown) \in Page
    BY AtRest
  <2> DEFINE rest == Resting(page[p].shown)
             again == [rest EXCEPT !.at = "preparing"]
  <2>2. rest \in Page /\ Fit(rest, d)
    BY <2>1
  <2>3. again \in Page /\ Fit(again, d)
    <3>1. /\ rest.shown = page[p].shown /\ rest.state = Nothing /\ rest.at = "idle"
      BY DEF Resting
    <3> HIDE DEF rest
    <3>2. /\ again \in Page /\ again.shown = rest.shown /\ again.at = "preparing"
          /\ again.state = rest.state
      BY <2>2 DEF Page
    <3> HIDE DEF again
    <3>3. QED
      BY <1>3, <2>2, <3>1, <3>2 DEF Fit, ShowsOK, SendsOK, TrailsOK
  <2>4. QED
    BY <2>2, <2>3
<1> HIDE DEF g
<1>6. /\ page' \in [Pages -> Page]
      /\ \A q \in Pages : page'[q] = page[q] \/ Fit(page'[q], DeviceOf[q])
  BY <1>1, <1>2, <1>5
<1>7. CASE ~valid
  <2>1. UNCHANGED <<deviceVars, network, serverVars, bounds>>
    BY <1>1, <1>7 DEF deviceVars, bounds
  <2>2. QED
    BY <1>6, <2>1, PageStep
<1>8. CASE valid
  <2>1. /\ Good(old.base, issued) /\ Follow(old.base, old.commands, issued)
        /\ old.count <= Len(old.commands) /\ r = RequestOf(d, old)
        /\ IF old.initial THEN old.count = 0 ELSE Past(old.base, head)
        /\ stored[d] # Nothing /\ Good(stored[d], issued)
        /\ \A i \in 1..Len(old.commands) :
             Holds(head, old.commands[i].id) => i <= old.count /\ Synced(old.request, receipts)
    BY <1>3, <1>4, <1>8 DEF BoxOK
  <2>2. r.base = old.base /\ r.commands = Prefix(old)
    <3>1. RequestOf(d, old).base = old.base /\ RequestOf(d, old).commands = Prefix(old)
      BY DEF RequestOf
    <3>2. QED
      BY <2>1, <3>1
  <2>3. /\ Good(x.state, issued) /\ Joined(x.state, old.base, Prefix(old))
        /\ x.status = "synced" => Past(x.state, head) /\ x.state \in revisions
    <3>1. ReceiptOK([request |-> r, receipt |-> x], head, issued, revisions, network)
      BY <1>3 DEF Inv, ReceiptInv
    <3>2. QED
      BY <2>2, <3>1 DEF ReceiptOK
  <2>4. \A q \in network : old.request = q.id => Answered(q.id, receipts)
    BY <1>3, <1>8 DEF Answered
  <2>5. /\ box \in Outbox /\ box # Nothing /\ box.request = Nothing /\ box.count = 0
        /\ box.overflow = old.overflow
        /\ x.status = "synced" => /\ box.commands = DropPrefix(old) /\ box.base = x.state
                                  /\ box.initial = FALSE
        /\ x.status # "synced" => /\ box.commands = old.commands /\ box.base = old.base
                                  /\ box.initial = old.initial
    <3> DEFINE done == [old EXCEPT !.request = Nothing, !.count = 0]
               synced == [done EXCEPT !.commands = DropPrefix(old), !.base = x.state,
                                      !.initial = FALSE]
               other == [done EXCEPT !.branched = TRUE]
    <3>1. /\ done \in Outbox /\ done.request = Nothing /\ done.count = 0
          /\ done.overflow = old.overflow /\ done.commands = old.commands
          /\ done.base = old.base /\ done.initial = old.initial
      BY <1>4 DEF Outbox
    <3>2. DropPrefix(old) \in Batch /\ x.state \in States
      BY <1>4, <2>1, DropFacts DEF Receipt
    <3> HIDE DEF done
    <3>3. /\ synced \in Outbox /\ synced.request = Nothing /\ synced.count = 0
          /\ synced.overflow = old.overflow /\ synced.commands = DropPrefix(old)
          /\ synced.base = x.state /\ synced.initial = FALSE
      BY <3>1, <3>2 DEF Outbox
    <3>4. /\ other \in Outbox /\ other.request = Nothing /\ other.count = 0
          /\ other.overflow = old.overflow /\ other.commands = old.commands
          /\ other.base = old.base /\ other.initial = old.initial
      BY <3>1 DEF Outbox
    <3>5. box = IF x.status = "synced" THEN synced ELSE other
      BY DEF Acknowledged, done
    <3> HIDE DEF synced, other, box
    <3>6. box \in Outbox
      BY <3>3, <3>4, <3>5
    <3>7. QED
      BY <3>3, <3>4, <3>5, <3>6, NothingAssumption
  <2> HIDE DEF box, d, old
  <2>6. /\ outbox'[d] = box /\ outbox[d] = old
        /\ \A e \in Devices \ {d} : outbox'[e] = outbox[e]
    BY <1>1, <1>2, <1>8 DEF old
  <2>7. StoreTypes' /\ PageTypes' /\ ServerTypes'
    <3>1. outbox' \in [Devices -> Outbox \cup {Nothing}]
      BY <1>1, <1>2, <1>8, <2>5
    <3>2. QED
      BY <1>1, <1>6, <3>1 DEF Inv, TypeOK, StoreTypes, PageTypes, ServerTypes, serverVars
  <2>8. \A q \in network : q.id # box.request
    BY <2>5, IdsAreNumbers
  <2>9. late = 0 => LocalOK(old, stored[d], row[d], revisions)
    BY <1>2, <2>6 DEF Inv, LocalInv
  <2>10. \A e \in Devices \ {d} : Apart(old, outbox[e])
    BY <1>2, <2>6 DEF Inv, ApartInv
  <2>11. /\ BoxOK(d, box, stored[d], head, issued, requested, network, receipts)
         /\ late = 0 => LocalOK(box, stored[d], row[d], revisions)
         /\ \A e \in Devices \ {d} : Apart(box, outbox[e])
    <3>1. CASE x.status = "synced"
      <4>1. /\ box.commands = DropPrefix(old) /\ box.base = x.state /\ ~box.initial
        BY <2>5, <3>1
      <4>2. /\ Follow(x.state, box.commands, issued)
            /\ \A t : Joined(t, old.base, old.commands) => Joined(t, x.state, box.commands)
            /\ InTurn(old.base, old.commands) => InTurn(x.state, box.commands)
        BY <1>4, <2>1, <2>3, <4>1, AfterPrefix
      <4>3. /\ box.commands \in Batch /\ Len(box.commands) \in Nat /\ old.count \in Nat
            /\ \A i \in 1..Len(box.commands) : /\ old.count + i \in 1..Len(old.commands)
                                               /\ box.commands[i] = old.commands[old.count + i]
        BY <1>4, <2>1, <2>5, <4>1, DropFacts DEF Outbox, Batch
      <4>4. ASSUME NEW i \in 1..Len(box.commands), Holds(head, box.commands[i].id) PROVE FALSE
        <5>1. old.count + i \in 1..Len(old.commands) /\ Holds(head, old.commands[old.count + i].id)
          BY <4>3, <4>4
        <5>2. old.count + i <= old.count
          BY <2>1, <5>1
        <5>3. QED
          BY <4>3, <5>2
      <4>5. BoxOK(d, box, stored[d], head, issued, requested, network, receipts)
        BY <2>1, <2>3, <2>5, <2>8, <3>1, <4>1, <4>2, <4>3, <4>4 DEF BoxOK
      <4>6. late = 0 => LocalOK(box, stored[d], row[d], revisions)
        BY <1>3, <2>3, <2>5, <2>6, <2>9, <3>1, <4>1, <4>2 DEF LocalOK
      <4>7. ASSUME NEW e \in Devices \ {d} PROVE Apart(box, outbox[e])
        <5>1. ASSUME outbox[e] # Nothing, NEW i \in 1..Len(box.commands),
                     NEW k \in 1..Len(outbox[e].commands)
              PROVE  box.commands[i].id # outbox[e].commands[k].id
          <6>1. Apart(old, outbox[e])
            BY <2>10
          <6>2. old.count + i \in 1..Len(old.commands) /\ box.commands[i] = old.commands[old.count + i]
            BY <4>3
          <6>3. QED
            BY <1>3, <5>1, <6>1, <6>2 DEF Apart
        <5>2. QED
          BY <2>5, <5>1 DEF Apart
      <4>8. QED
        BY <4>5, <4>6, <4>7
    <3>2. CASE x.status # "synced"
      <4>1. box.commands = old.commands /\ box.base = old.base /\ box.initial = old.initial
        BY <2>5, <3>2
      <4>2. ~Synced(old.request, receipts)
        <5>1. ASSUME NEW y \in receipts, y.request.id = old.request, y.receipt.status = "synced"
              PROVE  FALSE
          <6>1. [request |-> r, receipt |-> x].request.id = y.request.id
            BY <1>8, <5>1
          <6>2. y = [request |-> r, receipt |-> x]
            BY <1>3, <6>1 DEF Inv, TypeOK
          <6>3. QED
            BY <3>2, <5>1, <6>2
        <5>2. QED
          BY <5>1 DEF Synced
      <4>3. \A i \in 1..Len(box.commands) : ~Holds(head, box.commands[i].id)
        BY <2>1, <4>1, <4>2
      <4>4. 0 <= Len(box.commands)
        BY <2>5 DEF Outbox, Batch
      <4>5. BoxOK(d, box, stored[d], head, issued, requested, network, receipts)
        BY <2>1, <2>5, <2>8, <4>1, <4>3, <4>4 DEF BoxOK
      <4>6. late = 0 => LocalOK(box, stored[d], row[d], revisions)
        BY <1>3, <2>5, <2>6, <2>9, <4>1 DEF LocalOK
      <4>7. \A e \in Devices \ {d} : Apart(box, outbox[e])
        BY <1>3, <2>5, <2>6, <2>10, <4>1 DEF Apart
      <4>8. QED
        BY <4>5, <4>6, <4>7
    <3>3. QED
      BY <3>1, <3>2
  <2>12. Begins(stored[d], stored[d])
    BY <2>1 DEF Begins, Good
  <2>13. requested <= requested'
    BY <1>1, IdsAreNumbers
  <2>14. head = Nothing /\ d # Origin => stored[d] = Nothing
    BY <1>2 DEF Inv, HeadInv
  <2>15. QED
    BY <1>1, <1>2, <1>6, <2>4, <2>5, <2>6, <2>7, <2>11, <2>12, <2>13, <2>14, DeviceStep
<1>9. QED
  BY <1>7, <1>8
\* append_sync_outbox: one more command, or the mark that there is no room for it.
LEMMA AppendedFacts ==
  ASSUME NEW box \in Outbox, NEW command \in Command, NEW new, new = Appended(box, command)
  PROVE  /\ new \in Outbox /\ new # Nothing
         /\ new.base = box.base /\ new.initial = box.initial
         /\ new.request = box.request /\ new.count = box.count
         /\ \/ new.overflow /\ new.commands = box.commands
            \/ /\ new.overflow = box.overflow
               /\ Len(new.commands) = Len(box.commands) + 1
               /\ new.commands[Len(box.commands) + 1] = command
               /\ \A i \in 1..Len(box.commands) : new.commands[i] = box.commands[i]
<1>1. box.commands \in Seq(Command) /\ Len(box.commands) \in Nat
  BY DEF Outbox, Batch
<1>2. CASE Len(box.commands) >= MaxSyncCommands
  <2>1. new = [box EXCEPT !.overflow = TRUE]
    BY <1>2 DEF Appended
  <2>2. /\ new \in Outbox /\ new.base = box.base /\ new.initial = box.initial
        /\ new.request = box.request /\ new.count = box.count
        /\ new.overflow = TRUE /\ new.commands = box.commands
    BY <2>1 DEF Outbox
  <2>3. QED
    BY <2>2, NothingAssumption
<1>3. CASE ~(Len(box.commands) >= MaxSyncCommands)
  <2> DEFINE more == Append(box.commands, command)
  <2>1. /\ more \in Seq(Command) /\ Len(more) = Len(box.commands) + 1
        /\ more[Len(box.commands) + 1] = command
        /\ \A i \in 1..Len(box.commands) : more[i] = box.commands[i]
    BY <1>1
  <2> HIDE DEF more
  <2>2. new = [box EXCEPT !.commands = more]
    BY <1>3 DEF Appended, more
  <2>3. /\ new \in Outbox /\ new.base = box.base /\ new.initial = box.initial
        /\ new.request = box.request /\ new.count = box.count
        /\ new.overflow = box.overflow /\ new.commands = more
    BY <2>1, <2>2 DEF Outbox, Batch
  <2>4. QED
    BY <2>1, <2>3, NothingAssumption
<1>4. QED
  BY <1>2, <1>3

\* A command that was issued now may follow the others.
LEMMA FollowAppend ==
  ASSUME NEW base, NEW commands, NEW ids, Good(base, ids), Follow(base, commands, ids),
         NEW command \in Command, command.id \notin ids,
         NEW new \in Batch, Len(new) = Len(commands) + 1,
         new[Len(commands) + 1] = command, \A i \in 1..Len(commands) : new[i] = commands[i]
  PROVE  Follow(base, new, ids \cup {command.id})
<1> DEFINE m == Len(commands)
           c == command.id
<1>1. /\ m \in Nat /\ Len(base) \in Nat /\ \A k \in 1..Len(base) : base[k] \in ids
      /\ \A i \in 1..m : commands[i].id \in ids
      /\ \A i, k \in 1..m : commands[i].id = commands[k].id => i = k
      /\ \A i \in 1..m : \A k \in 1..Len(base) : base[k] # commands[i].id
  BY DEF Good, Follow, Batch
<1>2. \A i \in 1..Len(new) : \/ i \in 1..m /\ new[i] = commands[i]
                             \/ i = m + 1 /\ new[i] = command
  BY <1>1
<1> HIDE DEF m
<1>3. \A i \in 1..Len(new) : new[i].id \in ids \cup {c}
  BY <1>1, <1>2
<1>4. \A i, k \in 1..Len(new) : new[i].id = new[k].id => i = k
  BY <1>1, <1>2
<1>5. \A i \in 1..Len(new) : \A k \in 1..Len(base) : base[k] # new[i].id
  BY <1>1, <1>2
<1>6. QED
  BY <1>3, <1>4, <1>5 DEF Follow

\* A command that is appended is not part of the pending request.
LEMMA SamePrefix ==
  ASSUME NEW box \in Outbox, NEW new \in Outbox, box.count <= Len(box.commands),
         new.count = box.count, Len(box.commands) <= Len(new.commands),
         \A i \in 1..Len(box.commands) : new.commands[i] = box.commands[i],
         new.request = box.request, new.base = box.base, new.initial = box.initial, NEW d
  PROVE  RequestOf(d, new) = RequestOf(d, box)
<1> DEFINE s == Prefix(box)
           t == Prefix(new)
<1>1. box.count \in Nat /\ Len(box.commands) \in Nat /\ Len(new.commands) \in Nat
  BY DEF Outbox, Batch
<1>2. /\ s \in Batch /\ Len(s) = box.count
      /\ \A i \in 1..Len(s) : i \in 1..Len(box.commands) /\ s[i] = box.commands[i]
  BY PrefixFacts
<1>3. /\ t \in Batch /\ Len(t) = box.count
      /\ \A i \in 1..Len(t) : i \in 1..Len(new.commands) /\ t[i] = new.commands[i]
  BY <1>1, PrefixFacts
<1> HIDE DEF s, t
<1>4. s = t
  <2>1. s \in Seq(Command) /\ t \in Seq(Command) /\ Len(s) = Len(t)
    BY <1>2, <1>3 DEF Batch
  <2>2. \A i \in 1..Len(s) : s[i] = t[i]
    BY <1>2, <1>3, <2>1
  <2>3. QED
    BY <2>1, <2>2
<1>5. QED
  BY <1>4 DEF RequestOf, s, t
\* The outbox after an edit of the state shown, which makes the state next.
LEMMA EditedBox ==
  ASSUME Inv, NEW d \in Devices, NEW old, old = outbox[d], old # Nothing,
         NEW c \in Commands \ issued, NEW n \in 0..Cardinality(Commands),
         NEW box, box = Appended(old, [id |-> c, base |-> n])
  PROVE  /\ box \in Outbox /\ box # Nothing /\ box.request = old.request
         /\ \A t : Good(t, issued \cup {c}) =>
              BoxOK(d, box, t, head, issued \cup {c}, requested, network, receipts)
         /\ \A e \in Devices \ {d} : Apart(box, outbox[e])
         /\ \A revs, s, t :
              LocalOK(old, s, n, revs) /\ Good(s, issued) /\ Len(s) = n /\ s # Nothing
                /\ Len(t) = n + 1 /\ t[n + 1] = c /\ (\A i \in 1..n : t[i] = s[i])
                => LocalOK(box, t, n + 1, revs)
<1> DEFINE command == [id |-> c, base |-> n]
           m == Len(old.commands)
           ids == issued \cup {c}
<1>1. /\ old \in Outbox /\ m \in Nat /\ old.count \in Nat /\ n \in Nat
      /\ BoxOK(d, old, stored[d], head, issued, requested, network, receipts)
  <2>1. old \in Outbox
    BY DEF Inv, TypeOK
  <2>2. n \in Nat
    BY LimitsAssumption, FS_CardinalityType
  <2>3. QED
    BY <2>1, <2>2 DEF Inv, BoxInv, Outbox, Batch
<1>2. command \in Command /\ command.id = c /\ command.base = n
  BY DEF Command
<1>3. /\ Good(old.base, issued) /\ Follow(old.base, old.commands, issued)
      /\ old.count <= m
      /\ IF old.initial THEN old.count = 0 ELSE Past(old.base, head)
      /\ old.request # Nothing => old.request <= requested
      /\ \A q \in network : q.id = old.request => q = RequestOf(d, old)
      /\ \A i \in 1..m : Holds(head, old.commands[i].id) => i <= old.count /\ Synced(old.request, receipts)
  BY <1>1 DEF BoxOK
<1>4. /\ box \in Outbox /\ box # Nothing
      /\ box.base = old.base /\ box.initial = old.initial
      /\ box.request = old.request /\ box.count = old.count
      /\ \/ box.overflow /\ box.commands = old.commands
         \/ /\ box.overflow = old.overflow
            /\ Len(box.commands) = m + 1
            /\ box.commands[m + 1] = command
            /\ \A i \in 1..m : box.commands[i] = old.commands[i]
  <2>1. box = Appended(old, command)
    OBVIOUS
  <2> HIDE DEF command
  <2>2. QED
    BY SMTT(40), <1>1, <1>2, <2>1, AppendedFacts
<1> HIDE DEF command, m
<1>5. \A i \in 1..Len(box.commands) :
        \/ i \in 1..m /\ box.commands[i] = old.commands[i]
        \/ /\ i = m + 1 /\ box.commands[i] = command /\ ~(box.overflow /\ box.commands = old.commands)
           /\ Len(box.commands) = m + 1
  BY <1>1, <1>4 DEF m
<1>6. m <= Len(box.commands) /\ \A i \in 1..m : box.commands[i] = old.commands[i]
  BY <1>1, <1>4 DEF m
<1>7. Good(old.base, ids) /\ Follow(old.base, box.commands, ids)
  <2>1. Good(old.base, ids)
    BY <1>3, GoodMore
  <2>2. CASE box.commands = old.commands
    BY <1>3, <2>1, <2>2, FollowMore
  <2>3. CASE /\ Len(box.commands) = m + 1
             /\ box.commands[m + 1] = command
             /\ \A i \in 1..m : box.commands[i] = old.commands[i]
    <3>1. box.commands \in Batch
      BY <1>4 DEF Outbox
    <3>2. Follow(old.base, box.commands, issued \cup {command.id})
      BY SMTT(40), <1>2, <1>3, <2>3, <3>1, FollowAppend DEF m
    <3>3. QED
      BY <1>2, <2>1, <3>2
  <2>4. QED
    BY <1>4, <2>1, <2>2, <2>3
<1>8. ~Holds(head, c)
  <2>1. head # Nothing => \A i \in 1..Len(head.state) : head.state[i] \in issued
    BY DEF Inv, HeadInv, Good
  <2>2. QED
    BY <2>1 DEF Holds
<1>9. ASSUME NEW i \in 1..Len(box.commands), Holds(head, box.commands[i].id)
      PROVE  i <= box.count /\ Synced(box.request, receipts)
  BY <1>2, <1>3, <1>4, <1>5, <1>8, <1>9
<1>10. RequestOf(d, box) = RequestOf(d, old)
  <2>1. Len(old.commands) <= Len(box.commands)
    BY <1>6 DEF m
  <2>2. old.count <= Len(old.commands)
    BY <1>3 DEF m
  <2>3. \A i \in 1..Len(old.commands) : box.commands[i] = old.commands[i]
    BY <1>6 DEF m
  <2>4. QED
    BY <1>1, <1>4, <2>1, <2>2, <2>3, SamePrefix
<1>11. old.count <= Len(box.commands)
  <2>1. Len(box.commands) \in Nat
    BY <1>4 DEF Outbox, Batch
  <2>2. QED
    BY <1>1, <1>3, <1>6, <2>1
<1>12. ASSUME NEW t, Good(t, ids)
       PROVE  BoxOK(d, box, t, head, ids, requested, network, receipts)
  <2>1. t # Nothing
    BY <1>12, GoodIsState DEF Inv, TypeOK
  <2>2. QED
    BY <1>3, <1>4, <1>7, <1>9, <1>10, <1>11, <1>12, <2>1 DEF BoxOK
<1>13. ASSUME NEW e \in Devices \ {d} PROVE Apart(box, outbox[e])
  <2>1. Apart(old, outbox[e])
    BY DEF Inv, ApartInv
  <2>2. outbox[e] # Nothing => \A k \in 1..Len(outbox[e].commands) : outbox[e].commands[k].id # c
    <3>1. outbox[e] # Nothing => Follow(outbox[e].base, outbox[e].commands, issued)
      BY DEF Inv, BoxInv, BoxOK
    <3>2. QED
      BY <3>1 DEF Follow
  <2>3. ASSUME outbox[e] # Nothing, NEW i \in 1..Len(box.commands),
               NEW k \in 1..Len(outbox[e].commands)
        PROVE  box.commands[i].id # outbox[e].commands[k].id
    <3>1. CASE i \in 1..m /\ box.commands[i] = old.commands[i]
      BY <2>1, <2>3, <3>1 DEF Apart, m
    <3>2. CASE box.commands[i] = command
      BY <1>2, <2>2, <2>3, <3>2
    <3>3. QED
      BY <1>5, <3>1, <3>2
  <2>4. QED
    BY <1>4, <2>1, <2>3 DEF Apart
<1>14. ASSUME NEW revs, NEW s, NEW t, LocalOK(old, s, n, revs), Good(s, issued), Len(s) = n,
              s # Nothing, Len(t) = n + 1, t[n + 1] = c, \A i \in 1..n : t[i] = s[i]
       PROVE  LocalOK(box, t, n + 1, revs)
  <2>1. ASSUME ~box.overflow
        PROVE  /\ Joined(t, box.base, box.commands) /\ InTurn(box.base, box.commands)
               /\ box.base \in revs \/ box.initial
    <3> DEFINE k == Len(old.base)
    <3>1. /\ ~old.overflow /\ Len(box.commands) = m + 1 /\ box.commands[m + 1] = command
      BY <1>4, <2>1
    <3>2. /\ Joined(s, old.base, old.commands) /\ InTurn(old.base, old.commands)
          /\ old.base \in revs \/ old.initial
      BY <1>14, <3>1 DEF LocalOK
    <3>3. /\ n = k + m /\ k \in Nat
          /\ \A i \in 1..k : s[i] = old.base[i]
          /\ \A i \in 1..m : s[k + i] = old.commands[i].id
          /\ \A i \in 1..m : old.commands[i].base = k + i - 1
      BY <1>3, <1>14, <3>2 DEF Joined, InTurn, Good, m
    <3> HIDE DEF k
    <3>4. \A i \in 1..k : t[i] = old.base[i]
      BY <1>1, <1>14, <3>3
    <3>5. ASSUME NEW i \in 1..(m + 1)
          PROVE  t[k + i] = box.commands[i].id /\ box.commands[i].base = k + i - 1
      <4>1. CASE i \in 1..m
        <5>1. k + i \in 1..n
          BY <1>1, <3>3, <4>1
        <5>2. QED
          BY <1>6, <1>14, <3>3, <4>1, <5>1
      <4>2. CASE i = m + 1
        <5>1. k + i = n + 1 /\ k + i - 1 = n
          BY <1>1, <3>3, <4>2
        <5>2. QED
          BY <1>2, <1>14, <3>1, <4>2, <5>1
      <4>3. QED
        BY <1>1, <4>1, <4>2
    <3>6. Len(t) = k + (m + 1)
      BY <1>1, <1>14, <3>3
    <3>7. Joined(t, box.base, box.commands)
      <4>1. Len(box.base) = k /\ box.base = old.base
        BY <1>4 DEF k
      <4>2. \A i \in 1..Len(box.commands) : t[Len(box.base) + i] = box.commands[i].id
        BY <3>1, <3>5, <4>1
      <4>3. Len(t) = Len(box.base) + Len(box.commands)
        BY <3>1, <3>6, <4>1
      <4>4. \A i \in 1..Len(box.base) : t[i] = box.base[i]
        BY <3>4, <4>1
      <4>5. QED
        BY <4>2, <4>3, <4>4 DEF Joined
    <3>8. InTurn(box.base, box.commands)
      BY <1>4, <3>1, <3>5 DEF InTurn, k
    <3>9. QED
      BY <1>4, <3>2, <3>7, <3>8
  <2>2. QED
    BY <1>14, <2>1 DEF LocalOK
<1>15. QED
  BY <1>4, <1>12, <1>13, <1>14
\* A commit on a device: its state, its row and its outbox go on together, or the edit is late.
LEMMA EditStep == ASSUME Inv, NEW p \in Pages, Edit(p) PROVE Inv'
<1> DEFINE d == DeviceOf[p]
           shown == page[p].shown
           old == outbox[d]
           n == Len(shown)
<1>1. PICK c \in Commands \ issued :
        /\ issued' = issued \cup {c}
        /\ page' = [page EXCEPT ![p].shown = Append(shown, c)]
        /\ row' = [row EXCEPT ![d] = n + 1]
        /\ outbox' = IF old = Nothing THEN outbox
                     ELSE [outbox EXCEPT ![d] = Appended(old, [id |-> c, base |-> n])]
        /\ IF shown = stored[d]
             THEN stored' = [stored EXCEPT ![d] = Append(shown, c)] /\ late' = late
             ELSE late < MaxLate /\ late' = late + 1 /\ stored' = stored
  BY DEF Edit, Revision
<1> DEFINE next == Append(shown, c)
           g == [page[p] EXCEPT !.shown = next]
           box == Appended(old, [id |-> c, base |-> n])
           ids == issued \cup {c}
<1>2. /\ d \in Devices /\ page \in [Pages -> Page] /\ page[p] \in Page
      /\ Fit(page[p], d) /\ outbox \in [Devices -> Outbox \cup {Nothing}]
      /\ stored \in [Devices -> States \cup {Nothing}]
      /\ row \in [Devices -> 0..Cardinality(Commands)]
      /\ issued \subseteq Commands /\ late \in 0..MaxLate
  BY DevicesAssumption DEF Inv, TypeOK, PageInv, PageGood
<1>3. /\ network' = network /\ requested' = requested /\ UNCHANGED serverVars /\ shown # Nothing
  BY DEF Edit
<1>4. stored[d] # Nothing /\ Good(shown, issued)
  BY <1>2, <1>3 DEF Fit, ShowsOK
<1>5. /\ Good(next, ids) /\ Len(next) = n + 1 /\ n \in Nat /\ next[n + 1] = c
      /\ Begins(shown, next)
  BY <1>4, GoodAppend
<1>6. /\ next \in States /\ Len(next) \in 0..Cardinality(Commands) /\ next # Nothing
      /\ ids \subseteq Commands /\ issued \subseteq ids
      /\ next \in Seq(Commands)
  <2>1. ids \subseteq Commands
    BY <1>2
  <2> HIDE DEF next
  <2>2. next \in States /\ Len(next) \in 0..Cardinality(Commands) /\ next # Nothing
    BY <1>5, <2>1, GoodIsState
  <2>3. QED
    BY <2>1, <2>2, StateIsSeq
<1>7. n \in 0..Cardinality(Commands)
  BY <1>4, <1>2, GoodIsState
<1>8. /\ g \in Page /\ g.shown = next /\ g.at = page[p].at /\ g.state = page[p].state
      /\ g.request = page[p].request /\ g.receipt = page[p].receipt
  BY <1>2, <1>6 DEF Page
<1>9. old # Nothing =>
        /\ box \in Outbox /\ box # Nothing /\ box.request = old.request
        /\ \A t : Good(t, ids) => BoxOK(d, box, t, head, ids, requested, network, receipts)
        /\ \A e \in Devices \ {d} : Apart(box, outbox[e])
        /\ \A revs, s, t :
             LocalOK(old, s, n, revs) /\ Good(s, issued) /\ Len(s) = n /\ s # Nothing
               /\ Len(t) = n + 1 /\ t[n + 1] = c /\ (\A i \in 1..n : t[i] = s[i])
               => LocalOK(box, t, n + 1, revs)
  <2>1. \A b : b = box /\ old # Nothing =>
          /\ b \in Outbox /\ b # Nothing /\ b.request = old.request
          /\ \A t : Good(t, ids) => BoxOK(d, b, t, head, ids, requested, network, receipts)
          /\ \A e \in Devices \ {d} : Apart(b, outbox[e])
          /\ \A revs, s, t :
               LocalOK(old, s, n, revs) /\ Good(s, issued) /\ Len(s) = n /\ s # Nothing
                 /\ Len(t) = n + 1 /\ t[n + 1] = c /\ (\A i \in 1..n : t[i] = s[i])
                 => LocalOK(b, t, n + 1, revs)
    BY <1>2, <1>7, EditedBox
  <2> HIDE DEF box
  <2>2. QED
    BY <2>1
<1> HIDE DEF box, g, next
<1>10. /\ outbox'[d] = IF old = Nothing THEN Nothing ELSE box
       /\ stored'[d] = IF shown = stored[d] THEN next ELSE stored[d]
       /\ row'[d] = n + 1 /\ page'[p] = g
       /\ \A q \in Pages \ {p} : page'[q] = page[q]
       /\ \A e \in Devices \ {d} : stored'[e] = stored[e] /\ row'[e] = row[e] /\ outbox'[e] = outbox[e]
  <2>1. outbox'[d] = IF old = Nothing THEN Nothing ELSE box
    BY <1>1, <1>2 DEF box
  <2>2. stored'[d] = IF shown = stored[d] THEN next ELSE stored[d]
    BY <1>1, <1>2 DEF next
  <2>3. row'[d] = n + 1
    BY <1>1, <1>2
  <2>4. page'[p] = g /\ \A q \in Pages \ {p} : page'[q] = page[q]
    BY <1>1, <1>2 DEF g, next
  <2>5. \A e \in Devices \ {d} : stored'[e] = stored[e] /\ row'[e] = row[e] /\ outbox'[e] = outbox[e]
    BY <1>1, <1>2
  <2>6. QED
    BY <2>1, <2>2, <2>3, <2>4, <2>5
<1>11. late' \in 0..MaxLate /\ (late' = 0 => late = 0 /\ shown = stored[d])
  <2>1. MaxLate \in Nat
    BY LimitsAssumption
  <2>2. QED
    BY <1>1, <1>2, <2>1
<1>12. StoreTypes' /\ PageTypes' /\ ServerTypes'
  <2>1. outbox' \in [Devices -> Outbox \cup {Nothing}]
    BY <1>1, <1>2, <1>9 DEF box
  <2>2. stored' \in [Devices -> States \cup {Nothing}]
    BY <1>1, <1>2, <1>6 DEF next
  <2>3. row' \in [Devices -> 0..Cardinality(Commands)]
    BY <1>1, <1>2, <1>5, <1>6
  <2>4. page' \in [Pages -> Page]
    BY <1>1, <1>2, <1>8 DEF g, next
  <2>5. issued' \subseteq Commands
    BY <1>1, <1>6
  <2>6. QED
    BY <1>3, <1>11, <2>1, <2>2, <2>3, <2>4, <2>5
       DEF Inv, TypeOK, StoreTypes, PageTypes, ServerTypes, serverVars
<1> HIDE DEF shown, old, n, d
<1>13. BoxOK(d, outbox'[d], stored'[d], head, issued', requested', network', receipts)
  <2>1. BoxOK(d, old, stored[d], head, issued, requested, network, receipts)
    BY <1>2 DEF Inv, BoxInv, old
  <2>2. Good(stored'[d], ids)
    <3>1. Good(stored[d], ids)
      BY <1>4, <1>6, <2>1, GoodMore DEF BoxOK
    <3>2. QED
      BY <1>5, <1>10, <3>1
  <2>3. CASE old = Nothing
    BY <1>10, <2>2, <2>3, <1>1 DEF BoxOK
  <2>4. CASE old # Nothing
    BY <1>1, <1>3, <1>9, <1>10, <2>2, <2>4
  <2>5. QED
    BY <2>3, <2>4
<1>14. \A e \in Devices \ {d} : Apart(outbox'[d], outbox[e])
  BY <1>9, <1>10 DEF Apart
<1>15. ASSUME late' = 0 PROVE LocalOK(outbox'[d], stored'[d], row'[d], revisions)
  <2>1. late = 0 /\ shown = stored[d] /\ stored'[d] = next
    BY <1>10, <1>11, <1>15
  <2>2. LocalOK(old, shown, n, revisions)
    <3>1. LocalOK(old, stored[d], row[d], revisions)
      BY <1>2, <2>1 DEF Inv, LocalInv, old
    <3>2. row[d] = n
      BY <1>4, <2>1, <3>1 DEF LocalOK, n
    <3>3. QED
      BY <2>1, <3>1, <3>2
  <2>3. \A i \in 1..n : next[i] = shown[i]
    BY <1>5 DEF Begins, n
  <2>4. CASE old = Nothing
    BY <1>5, <1>10, <2>1, <2>4 DEF LocalOK
  <2>5. CASE old # Nothing
    <3>1. Len(shown) = n
      BY DEF n
    <3>2. LocalOK(box, next, n + 1, revisions)
      BY <1>3, <1>4, <1>5, <1>9, <2>2, <2>3, <2>5, <3>1
    <3>3. QED
      BY <1>10, <2>1, <2>5, <3>2
  <2>6. QED
    BY <2>4, <2>5
<1>16. ASSUME late' = 0, NEW e \in issued' \ issued PROVE Kept(e)'
  <2>1. e = c /\ stored'[d] = next
    BY <1>1, <1>10, <1>11, <1>16
  <2>2. n + 1 \in 1..Len(next)
    BY <1>5
  <2>3. Has(stored'[d], e)
    BY <1>5, <1>6, <2>1, <2>2 DEF Has
  <2>4. QED
    BY <1>2, <2>3 DEF Kept
<1>17. stored[d] \in Seq(Commands) /\ Begins(stored[d], stored[d])
  <2>1. stored[d] \in Seq(Commands)
    BY <1>2, <1>4, Sequences
  <2>2. QED
    BY <2>1 DEF Begins
<1>18. late' = 0 => Begins(stored[d], stored'[d])
  BY <1>5, <1>10, <1>11
<1>19. PageGood(p)'
  <2>1. stored'[d] # Nothing /\ (old # Nothing => outbox'[d] # Nothing)
    BY <1>4, <1>6, <1>9, <1>10
  <2>2. ShowsOK(page[p], stored[d], old, issued)
    BY <1>2 DEF Fit, old
  <2>3. ShowsOK(g, stored'[d], outbox'[d], ids)
    <3>1. g.state # Nothing => Good(g.state, ids)
      BY <1>6, <1>8, <2>2, GoodMore DEF ShowsOK
    <3>2. QED
      BY <1>5, <1>8, <2>1, <2>2, <3>1 DEF ShowsOK
  <2>4. SendsOK(g, d, head, revisions, network, receipts)
    BY <1>2, <1>8 DEF Fit, SendsOK
  <2>5. ASSUME late' = 0 PROVE TrailsOK(g, stored'[d])
    <3>1. stored'[d] = next /\ late = 0
      BY <1>10, <1>11, <2>5
    <3>2. Begins(next, next)
      BY <1>6 DEF Begins
    <3>3. ASSUME g.at = "enabling" PROVE Begins(g.state, next)
      <4>1. g.state # Nothing /\ Good(g.state, issued) /\ Begins(g.state, stored[d])
        BY <1>2, <1>8, <3>1, <3>3 DEF Fit, ShowsOK, TrailsOK
      <4>2. g.state \in Seq(Commands)
        BY <1>2, <4>1, Sequences
      <4>3. Begins(stored[d], next)
        BY <1>18, <2>5, <3>1
      <4>4. QED
        BY <1>6, <1>17, <4>1, <4>2, <4>3, BeginsTransitive
    <3>4. QED
      BY <1>8, <3>1, <3>2, <3>3 DEF TrailsOK
  <2>6. QED
    BY <1>1, <1>3, <1>10, <2>3, <2>4, <2>5 DEF PageGood, Fit, serverVars, d
<1>20. \A q \in Pages : page'[q] = page[q] \/ PageGood(q)'
  BY <1>10, <1>19
<1>21. requested <= requested'
  BY <1>3, IdsAreNumbers
<1>22. head = Nothing /\ d # Origin => FALSE
  BY <1>2, <1>4 DEF Inv, HeadInv
<1>23. \A q \in network : outbox[d] # Nothing /\ outbox[d].request = q.id =>
         outbox'[d] # Nothing /\ outbox'[d].request = q.id
  BY <1>9, <1>10 DEF old
<1>24. stored'[d] # Nothing /\ (outbox[d] # Nothing => outbox'[d] # Nothing)
  BY <1>4, <1>6, <1>9, <1>10 DEF old
<1>25. QED
  BY <1>1, <1>2, <1>3, <1>10, <1>11, <1>12, <1>13, <1>14, <1>15, <1>16, <1>18, <1>20, <1>21,
     <1>22, <1>23, <1>24, DeviceStep
-----------------------------------------------------------------------------
\* It holds at the beginning.
LEMMA InitInv == ASSUME Init PROVE Inv
<1>1. /\ stored = [d \in Devices |-> IF d = Origin THEN <<>> ELSE Nothing]
      /\ row = [d \in Devices |-> 0] /\ outbox = [d \in Devices |-> Nothing]
      /\ page = [p \in Pages |-> Resting(stored[DeviceOf[p]])]
      /\ network = {} /\ head = Nothing /\ revisions = {} /\ receipts = {} /\ branches = {}
      /\ issued = {} /\ requested = 0 /\ late = 0
  BY DEF Init
<1>2. <<>> \in Seq({}) /\ Len(<<>>) = 0
  OBVIOUS
<1>3. Good(<<>>, {})
  BY <1>2 DEF Good
<1>4. <<>> \in States /\ <<>> # Nothing /\ 0 \in 0..Cardinality(Commands)
  BY <1>2, <1>3, GoodIsState
<1>5. /\ \A d \in Devices : stored[d] = <<>> \/ stored[d] = Nothing
      /\ \A d \in Devices : d # Origin => stored[d] = Nothing
      /\ \A d \in Devices : outbox[d] = Nothing /\ row[d] = 0
  BY <1>1
<1>6. stored \in [Devices -> States \cup {Nothing}]
  BY <1>1, <1>4
<1>7. \A p \in Pages : DeviceOf[p] \in Devices /\ page[p] = Resting(stored[DeviceOf[p]])
  BY <1>1, DevicesAssumption
<1>8. TypeOK
  <2>1. \A x \in States \cup {Nothing} : Resting(x) \in Page
    BY DEF Resting, Page
  <2>2. page \in [Pages -> Page]
    BY <1>1, <1>6, <1>7, <2>1
  <2>3. requested \in 0..MaxRequests /\ late \in 0..MaxLate
    BY <1>1, LimitsAssumption
  <2>4. row \in [Devices -> 0..Cardinality(Commands)] /\ outbox \in [Devices -> Outbox \cup {Nothing}]
    BY <1>1, <1>4
  <2>5. QED
    BY <1>1, <1>6, <2>2, <2>3, <2>4 DEF TypeOK
<1>9. HeadInv /\ BranchInv /\ ReceiptInv /\ NetInv
  BY <1>1, <1>5 DEF HeadInv, BranchInv, ReceiptInv, NetInv
<1>10. BoxInv /\ ApartInv
  BY <1>1, <1>3, <1>5 DEF BoxInv, BoxOK, ApartInv, Apart
<1>11. LocalInv
  BY <1>2, <1>5 DEF LocalInv, LocalOK
<1>12. PageInv
  <2>1. Begins(<<>>, <<>>)
    BY <1>2 DEF Begins
  <2>2. ASSUME NEW p \in Pages PROVE PageGood(p)
    <3> DEFINE s == stored[DeviceOf[p]]
    <3>1. page[p] = Resting(s) /\ (s = <<>> \/ s = Nothing)
      BY <1>5, <1>7
    <3> HIDE DEF s
    <3>2. ShowsOK(Resting(s), s, outbox[DeviceOf[p]], issued)
      BY <1>1, <1>3, <3>1 DEF ShowsOK, Resting
    <3>3. SendsOK(Resting(s), DeviceOf[p], head, revisions, network, receipts) /\ TrailsOK(Resting(s), s)
      BY <2>1, <3>1 DEF SendsOK, TrailsOK, Resting
    <3>4. QED
      BY <3>1, <3>2, <3>3 DEF PageGood, Fit, s
  <2>3. QED
    BY <2>2 DEF PageInv
<1>13. KeptInv
  BY <1>1 DEF KeptInv
<1>14. QED
  BY <1>8, <1>9, <1>10, <1>11, <1>12, <1>13 DEF Inv

\* Each step preserves it.
LEMMA StepInv == ASSUME Inv, [Next]_vars PROVE Inv'
<1>1. ASSUME NEW p \in Pages,
             \/ Edit(p) \/ Reopen(p) \/ Sync(p) \/ Enable(p) \/ Prepare(p) \/ GiveUp(p)
             \/ Acknowledge(p) \/ Load(p) \/ Install(p) \/ Open(p)
      PROVE  Inv'
  BY <1>1, EditStep, ReopenStep, SyncStep, EnableStep, PrepareStep, GiveUpStep,
     AcknowledgeStep, LoadStep, InstallStep, OpenStep
<1>2. ASSUME NEW p \in Pages, Release(p) PROVE Inv'
  BY <1>2, LeaseStep DEF Release
<1>3. ASSUME NEW p \in Pages, RenderBatch(p) PROVE Inv'
  BY <1>3, RenderBatchStep
<1>4. ASSUME NEW request \in network,
             Redeliver(request) \/ Advance(request) \/ Diverge(request) \/ Refuse(request)
      PROVE  Inv'
  BY <1>4, RedeliverStep, AdvanceStep, DivergeStep, RefuseStep
<1>5. ASSUME LeaseExpires PROVE Inv'
  BY <1>5, LeaseStep DEF LeaseExpires
<1>6. ASSUME UNCHANGED vars PROVE Inv'
  <2>1. UNCHANGED <<deviceVars, network, serverVars, bounds>> /\ page' = page
    BY <1>6 DEF vars
  <2>2. page \in [Pages -> Page]
    BY DEF Inv, TypeOK
  <2>3. QED
    BY <2>1, <2>2, PageStep
<1>7. QED
  BY <1>1, <1>2, <1>3, <1>4, <1>5, <1>6 DEF Next

\* The inductive invariant: what devices, pages, requests, answers, branches and the head
\* may hold of each other.
THEOREM SyncInvariance == Spec => []Inv
<1>1. Init => Inv
  BY InitInv
<1>2. Inv /\ [Next]_vars => Inv'
  BY StepInv
<1>3. QED
  BY <1>1, <1>2, PTL DEF Spec

\* Types, with one state per revision (the key of campaign_revisions) and one answer per
\* request id (the key of sync_receipts).
THEOREM SyncTypes == Spec => []TypeOK
<1>1. Inv => TypeOK
  BY DEF Inv
<1>2. QED
  BY <1>1, SyncInvariance, PTL

\* No edit is lost, however many devices edit, through lost answers, repeated requests,
\* downloads and divergence (acknowledge_sync_outbox, installConnectedSnapshot, sync_rows).
THEOREM NoEditIsLost == Spec => []EditsSurvive
<1>1. ASSUME Inv PROVE EditsSurvive
  <2> DEFINE states == ({stored[d] : d \in Devices}
                          \cup {IF head = Nothing THEN <<>> ELSE head.state}
                          \cup {b.state : b \in branches}) \ {Nothing}
  <2>1. ASSUME late = 0, NEW c \in issued PROVE \E s \in states : c \in Range(s)
    <3>1. Kept(c)
      BY <1>1, <2>1 DEF Inv, KeptInv
    <3>2. \A s : s \in Seq(Commands) /\ (\E i \in 1..Len(s) : s[i] = c) => c \in Range(s)
      BY DEF Range
    <3>3. ASSUME NEW d \in Devices, Has(stored[d], c) PROVE \E s \in states : c \in Range(s)
      <4>1. stored[d] \in Seq(Commands) /\ stored[d] \in states
        BY <1>1, <3>3, Sequences DEF Has
      <4>2. QED
        BY <3>2, <3>3, <4>1 DEF Has
    <3>4. ASSUME Holds(head, c) PROVE \E s \in states : c \in Range(s)
      <4>1. head # Nothing /\ head.state \in Seq(Commands) /\ Good(head.state, issued)
        BY <1>1, <3>4, Sequences DEF Holds, Inv, HeadInv
      <4>2. head.state # Nothing
        BY <1>1, <4>1, GoodIsState DEF Inv, TypeOK
      <4>3. head.state \in states
        BY <4>1, <4>2
      <4>4. QED
        BY <3>2, <3>4, <4>1, <4>3 DEF Holds
    <3>5. ASSUME NEW b \in branches, Has(b.state, c) PROVE \E s \in states : c \in Range(s)
      <4>1. Good(b.state, issued)
        BY <1>1 DEF Inv, BranchInv, BranchOK
      <4>2. b.state \in Seq(Commands) /\ b.state \in states
        BY <1>1, <3>5, <4>1, Sequences DEF Has
      <4>3. QED
        BY <3>2, <3>5, <4>2 DEF Has
    <3>6. QED
      BY <3>1, <3>3, <3>4, <3>5 DEF Kept
  <2>2. QED
    BY <2>1 DEF EditsSurvive
<1>2. QED
  BY <1>1, SyncInvariance, PTL

\* An outbox leads from a state the server has to what the device stores: replay_sync would
\* accept it and arrive there.
THEOREM OutboxesLeadHome == Spec => []OutboxIsLocal
<1>1. ASSUME Inv PROVE OutboxIsLocal
  <2>1. ASSUME late = 0, NEW d \in Devices, outbox[d] # Nothing, ~outbox[d].overflow
        PROVE  /\ ReplaySync(outbox[d].base, outbox[d].commands) = stored[d]
               /\ outbox[d].base \in revisions \/ outbox[d].initial
    <3> DEFINE box == outbox[d]
    <3>1. BoxOK(d, box, stored[d], head, issued, requested, network, receipts)
      BY <1>1 DEF Inv, BoxInv
    <3>2. /\ stored[d] # Nothing /\ Good(stored[d], issued)
          /\ Good(box.base, issued) /\ Follow(box.base, box.commands, issued)
      BY <2>1, <3>1 DEF BoxOK
    <3>3. LocalOK(box, stored[d], row[d], revisions)
      BY <1>1, <2>1 DEF Inv, LocalInv
    <3>4. /\ Joined(stored[d], box.base, box.commands) /\ InTurn(box.base, box.commands)
          /\ box.base \in revisions \/ box.initial
      BY <2>1, <3>2, <3>3 DEF LocalOK
    <3>5. QED
      BY <3>2, <3>4, ReplayIsJoined
  <2>2. QED
    BY <2>1 DEF OutboxIsLocal
<1>2. QED
  BY <1>1, SyncInvariance, PTL

\* A lost answer or a repeated request makes no branch of edits that the head has.
THEOREM BranchesAreConflicts == Spec => []ConflictsAreReal
<1>1. ASSUME Inv PROVE ConflictsAreReal
  <2>1. ASSUME NEW b \in branches, b.state # b.base, IsPrefix(b.state, head.state) PROVE FALSE
    <3>1. BranchOK(b, head, issued)
      BY <1>1 DEF Inv, BranchInv
    <3>2. /\ head # Nothing /\ Good(b.base, issued) /\ Good(b.state, issued)
          /\ Len(b.base) < Len(b.state)
          /\ b.state[Len(b.base) + 1] # head.state[Len(b.base) + 1]
      BY <2>1, <3>1 DEF BranchOK
    <3>3. b.state \in Seq(Commands) /\ head.state \in Seq(Commands)
      BY <1>1, <3>2, Sequences
    <3>4. Begins(b.state, head.state)
      BY <2>1, <3>3, PrefixBegins
    <3>5. Len(b.base) + 1 \in 1..Len(b.state)
      <4>1. Len(b.base) \in Nat /\ Len(b.state) \in Nat
        BY <3>2 DEF Good
      <4>2. QED
        BY <3>2, <4>1
    <3>6. QED
      BY <3>2, <3>4, <3>5 DEF Begins
  <2>2. QED
    BY <2>1 DEF ConflictsAreReal
<1>2. QED
  BY <1>1, SyncInvariance, PTL
=============================================================================
