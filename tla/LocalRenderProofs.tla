------------------------- MODULE LocalRenderProofs -------------------------
(***************************************************************************)
(* Theorems about LocalRender for every finite set of jobs and every       *)
(* number of clicks and faults.                                            *)
(***************************************************************************)
EXTENDS LocalRender, FiniteSetTheorems, SequenceTheorems, TLAPS

-----------------------------------------------------------------------------
(* The inductive invariant *)

Reasons == {"lookup", "batch", "cancel", "retry", "stale", "recover", "exec"}
Tables == UNION {[js -> Rows] : js \in SUBSET Jobs}
Write == [by : Reasons, rows : Tables]
Exec == [job : Jobs \cup {NoJob}, cur : Rows, saves : SUBSET {"job", "artifact"},
         worker : Workers, asked : BOOLEAN]
Ends == {"succeeded", "failed", "cancelled"}

\* Wherever a row is held, in memory, on disk or in a write: the attempts before its
\* own, and its own if it failed, were ended by a fault, and a success has a file.
RowOK(j, r) ==
  /\ r \in Rows /\ r.attempt <= 1 + faults
  /\ r.state = "failed" => r.attempt <= faults
  /\ r.state = "succeeded" => file[j] = "whole"
TableOK(t) == t \in Tables /\ \A j \in DOMAIN t : RowOK(j, t[j])
UserShows(by, rows) ==   \* the user's buttons write no success
  by \in {"batch", "cancel", "retry"} => \A j \in DOMAIN rows : rows[j].state # "succeeded"
WritesOK(ws) ==
  /\ ws \in Seq(Write)
  /\ \A i \in 1..Len(ws) : TableOK(ws[i].rows) /\ UserShows(ws[i].by, ws[i].rows)

\* The page that is loaded has no recovery to store, one that is not has nothing else.
LoadOK(ws, e, l) ==
  /\ l \in BOOLEAN
  /\ l => \A i \in 1..Len(ws) : ws[i].by # "recover"
  /\ ~l => /\ e = NoExec /\ Len(ws) <= 1
           /\ \A i \in 1..Len(ws) : ws[i].by = "recover" /\ DOMAIN ws[i].rows = Jobs

\* What a worker has said it has done, and what is shown for it comes from there.
Said(ms, what) == \E i \in 1..Len(ms) : ms[i] = what
ExecOK(e, ms) ==
  /\ e \in Exec /\ ms \in Seq({"progress"} \cup Ends)
  /\ e.job = NoJob => e = NoExec
  /\ e.job # NoJob => RowOK(e.job, e.cur) /\ e.cur.state \in Active \cup Ends
  /\ e.worker = "none" => ms = <<>>
  /\ \A what \in Ends : Said(ms, what) => e.worker = "ended"
  /\ Said(ms, "failed") => e.cur.attempt <= faults
  /\ e.worker = "written" \/ Said(ms, "succeeded") => file[e.job] = "whole"
  /\ e.cur.state \in Ends => e.worker = "ended" /\ ms = <<>>
  /\ "artifact" \in e.saves => e.cur.state = "succeeded"

\* The execution has at most one write under way, and no success of an earlier
\* execution is behind it.
NoSuccess(t, j) == j \in DOMAIN t => t[j].state # "succeeded"
OwnWrites(ws, e) ==
  \A i \in 1..Len(ws) : ws[i].by = "exec" =>
    /\ e.job # NoJob /\ "job" \in e.saves /\ ws[i].rows = One(e.job, e.cur)
    /\ \A k \in (i + 1)..Len(ws) :
         ws[k].by # "exec" /\ (e.cur.state # "succeeded" => NoSuccess(ws[k].rows, e.job))

\* From the start of an execution to its success nothing shows an earlier success of
\* its job; from the start of the worker nothing holds one.
TakenBack(d, m, ws, e) ==
  e.job # NoJob /\ e.cur.state # "succeeded" =>
    /\ m[e.job].state # "succeeded"
    /\ e.worker # "none" =>
         /\ d[e.job].state # "succeeded"
         /\ \A i \in 1..Len(ws) : NoSuccess(ws[i].rows, e.job)

Known(t) == t \in [Jobs -> Rows] /\ \A j \in Jobs : RowOK(j, t[j])
Attempts == ~loaded => \A j \in Jobs : disk[j].attempt <= faults

\* All that does not concern what is held where.
Rest ==
  /\ stored \subseteq Jobs /\ file \in [Jobs -> {"none", "partial", "whole"}]
  /\ faults \in 0..MaxFaults /\ edited \in BOOLEAN

Inv ==
  /\ Rest /\ Known(disk) /\ Known(mem) /\ queue \in Seq(Jobs) /\ Attempts
  /\ WritesOK(writes) /\ LoadOK(writes, exec, loaded) /\ ExecOK(exec, msgs)
  /\ OwnWrites(writes, exec) /\ TakenBack(disk, mem, writes, exec)

-----------------------------------------------------------------------------
(* Rows and tables *)

\* What the functions of a row make of it.
LEMMA RowMade ==
  ASSUME NEW r \in Rows, NEW s \in States
  PROVE  /\ To(r, s) \in Rows /\ To(r, s).state = s /\ To(r, s).attempt = r.attempt
         /\ [r EXCEPT !.stale = TRUE] \in Rows
         /\ [r EXCEPT !.stale = TRUE].state = r.state
         /\ [r EXCEPT !.stale = TRUE].attempt = r.attempt
         /\ r.attempt \in Nat /\ r.state \in States
<1>1. MaxAttempt \in Nat
  BY RenderAssumption DEF MaxAttempt
<1>2. r.attempt \in 0..MaxAttempt /\ r.state \in States
  BY DEF Rows
<1>3. To(r, s) \in Rows /\ To(r, s).state = s /\ To(r, s).attempt = r.attempt
  BY DEF Rows, To
<1>4. /\ [r EXCEPT !.stale = TRUE] \in Rows /\ [r EXCEPT !.stale = TRUE].state = r.state
      /\ [r EXCEPT !.stale = TRUE].attempt = r.attempt
  BY DEF Rows
<1>5. QED
  BY <1>1, <1>2, <1>3, <1>4

\* A row that is cancelled, started or stopped is in order if it was.
LEMMA RowTo ==
  ASSUME NEW j, NEW r, RowOK(j, r), NEW s \in States \ Ends
  PROVE  RowOK(j, To(r, s)) /\ To(r, s).state = s
BY RowMade DEF RowOK, Ends

\* So is one that is marked stale.
LEMMA RowStale ==
  ASSUME NEW j, NEW r, RowOK(j, r)
  PROVE  /\ RowOK(j, [r EXCEPT !.stale = TRUE])
         /\ [r EXCEPT !.stale = TRUE].state = r.state
<1>1. r \in Rows /\ "absent" \in States
  BY DEF RowOK, States
<1>2. QED
  BY <1>1, RowMade DEF RowOK

\* One whose attempt has failed is in order after a retry.
LEMMA RowRequeued ==
  ASSUME faults \in 0..MaxFaults, NEW j, NEW r, RowOK(j, r), r.attempt <= faults
  PROVE  RowOK(j, Requeued(r)) /\ Requeued(r).state = "queued"
<1>1. r \in Rows /\ r.attempt \in Nat
  BY RenderAssumption DEF RowOK, Rows, MaxAttempt
<1>2. r.attempt + 1 \in 0..MaxAttempt
  BY <1>1, RenderAssumption DEF MaxAttempt
<1> DEFINE a == r.attempt + 1
           q == [r EXCEPT !.state = "queued", !.attempt = a]
<1>3. q \in Rows /\ q.state = "queued" /\ q.attempt = a
  <2>1. a \in 0..MaxAttempt /\ "queued" \in States
    BY <1>2 DEF States
  <2> HIDE DEF a
  <2>2. QED
    BY <1>1, <2>1 DEF Rows
<1>4. Requeued(r) = q
  BY DEF Requeued
<1> HIDE DEF q
<1>5. QED
  BY <1>1, <1>3, <1>4 DEF RowOK

\* So is a new row, and none.
LEMMA RowNew ==
  ASSUME faults \in 0..MaxFaults, NEW j
  PROVE  /\ RowOK(j, NoRow) /\ NoRow.state = "absent" /\ NoRow.attempt = 0
         /\ RowOK(j, Fresh) /\ Fresh.state = "queued"
BY RenderAssumption DEF RowOK, NoRow, Fresh, Rows, States, MaxAttempt

\* A table of rows in order.
LEMMA TableMade ==
  ASSUME NEW js \in SUBSET Jobs, NEW t \in [js -> Rows], \A j \in js : RowOK(j, t[j])
  PROVE  TableOK(t) /\ DOMAIN t = js
BY DEF TableOK, Tables

\* What is written over a table of all jobs.
LEMMA PutKnown ==
  ASSUME NEW t, Known(t), NEW rows, TableOK(rows)
  PROVE  /\ Known(Put(t, rows))
         /\ \A j \in Jobs : Put(t, rows)[j] = IF j \in DOMAIN rows THEN rows[j] ELSE t[j]
         /\ DOMAIN rows \in SUBSET Jobs
<1>1. DOMAIN rows \in SUBSET Jobs /\ \A j \in DOMAIN rows : rows[j] \in Rows
  BY DEF TableOK, RowOK, Tables
<1>2. QED
  BY <1>1 DEF Put, Known, TableOK

\* One row is a table.
LEMMA OneTable ==
  ASSUME NEW j \in Jobs, NEW r, RowOK(j, r)
  PROVE  TableOK(One(j, r)) /\ DOMAIN One(j, r) = {j} /\ One(j, r)[j] = r
<1>1. One(j, r) \in [{j} -> Rows] /\ One(j, r)[j] = r
  BY DEF One, RowOK
<1>2. QED
  BY <1>1, TableMade

-----------------------------------------------------------------------------
(* Writes *)

\* A write that is requested comes behind the others.
LEMMA SavedWrites ==
  ASSUME NEW ws, WritesOK(ws), NEW by \in Reasons, NEW rows, TableOK(rows),
         UserShows(by, rows)
  PROVE  /\ WritesOK(Saved(ws, by, rows))
         /\ Len(ws) \in Nat /\ Len(Saved(ws, by, rows)) = Len(ws) + 1
         /\ \A i \in 1..Len(ws) : Saved(ws, by, rows)[i] = ws[i]
         /\ Saved(ws, by, rows)[Len(ws) + 1].by = by
         /\ Saved(ws, by, rows)[Len(ws) + 1].rows = rows
<1> DEFINE w == [by |-> by, rows |-> rows]
           more == Append(ws, w)
<1>1. w \in Write /\ w.by = by /\ w.rows = rows
  BY DEF Write, TableOK
<1>2. Saved(ws, by, rows) = more
  BY DEF Saved
<1> HIDE DEF w
<1>3. /\ more \in Seq(Write) /\ Len(ws) \in Nat /\ Len(more) = Len(ws) + 1
      /\ \A i \in 1..Len(ws) : more[i] = ws[i]
      /\ more[Len(ws) + 1] = w
  BY <1>1, AppendProperties, LenProperties DEF WritesOK
<1> HIDE DEF more
<1>4. \A i \in 1..Len(more) : TableOK(more[i].rows) /\ UserShows(more[i].by, more[i].rows)
  <2>1. TAKE i \in 1..Len(more)
  <2>2. CASE i = Len(ws) + 1
    BY <1>1, <1>3, <2>2
  <2>3. CASE i \in 1..Len(ws)
    BY <1>3, <2>3 DEF WritesOK
  <2>4. QED
    BY <1>3, <2>2, <2>3
<1>5. QED
  BY <1>1, <1>2, <1>3, <1>4 DEF WritesOK

\* One of the user, or of an edit, that shows no success of what is being executed
\* disturbs nothing.
LEMMA SavedKeeps ==
  ASSUME NEW ws, WritesOK(ws), NEW e, LoadOK(ws, e, TRUE), OwnWrites(ws, e),
         NEW d, NEW m, TakenBack(d, m, ws, e),
         NEW by \in Reasons \ {"recover", "exec"}, NEW rows, TableOK(rows),
         UserShows(by, rows),
         e.job # NoJob /\ e.cur.state # "succeeded" => NoSuccess(rows, e.job)
  PROVE  /\ WritesOK(Saved(ws, by, rows)) /\ LoadOK(Saved(ws, by, rows), e, TRUE)
         /\ OwnWrites(Saved(ws, by, rows), e) /\ TakenBack(d, m, Saved(ws, by, rows), e)
<1> DEFINE more == Saved(ws, by, rows)
           n == Len(ws)
<1>1. /\ WritesOK(more) /\ n \in Nat /\ Len(more) = n + 1
      /\ \A i \in 1..n : more[i] = ws[i]
      /\ more[n + 1].by = by /\ more[n + 1].rows = rows
  BY SavedWrites
<1> HIDE DEF more, n
<1>2. LoadOK(more, e, TRUE)
  <2>1. \A i \in 1..n : more[i].by # "recover"
    BY <1>1 DEF LoadOK, n
  <2>2. \A i \in 1..Len(more) : i \in 1..n \/ i = n + 1
    BY <1>1
  <2>3. QED
    BY <1>1, <2>1, <2>2 DEF LoadOK
<1>3. OwnWrites(more, e)
  <2>1. SUFFICES ASSUME NEW i \in 1..Len(more), more[i].by = "exec"
                 PROVE  /\ e.job # NoJob /\ "job" \in e.saves
                        /\ more[i].rows = One(e.job, e.cur)
                        /\ \A k \in (i + 1)..Len(more) :
                             /\ more[k].by # "exec"
                             /\ e.cur.state # "succeeded" => NoSuccess(more[k].rows, e.job)
    BY DEF OwnWrites
  <2>2. i \in 1..n /\ ws[i].by = "exec"
    BY <1>1, <2>1
  <2>3. /\ e.job # NoJob /\ "job" \in e.saves /\ ws[i].rows = One(e.job, e.cur)
        /\ \A k \in (i + 1)..n :
             ws[k].by # "exec" /\ (e.cur.state # "succeeded" => NoSuccess(ws[k].rows, e.job))
    BY <2>2 DEF OwnWrites, n
  <2>4. \A k \in (i + 1)..Len(more) : (k \in (i + 1)..n /\ k \in 1..n) \/ k = n + 1
    BY <1>1, <2>2
  <2>5. QED
    BY <1>1, <2>2, <2>3, <2>4
<1>4. TakenBack(d, m, more, e)
  <2>1. SUFFICES ASSUME e.job # NoJob, e.cur.state # "succeeded", e.worker # "none",
                        NEW i \in 1..Len(more)
                 PROVE  NoSuccess(more[i].rows, e.job)
    BY DEF TakenBack
  <2>2. CASE i \in 1..n
    BY <1>1, <2>1, <2>2 DEF TakenBack, n
  <2>3. CASE i = n + 1
    BY <1>1, <2>1, <2>3
  <2>4. QED
    BY <1>1, <2>2, <2>3
<1>5. QED
  BY <1>1, <1>2, <1>3, <1>4 DEF more

\* The first of the writes, and the others.
LEMMA FirstWrite ==
  ASSUME NEW ws, WritesOK(ws), ws # <<>>
  PROVE  /\ Head(ws) = ws[1] /\ 1 \in 1..Len(ws) /\ Head(ws).by \in Reasons
         /\ TableOK(Head(ws).rows) /\ UserShows(Head(ws).by, Head(ws).rows)
         /\ WritesOK(Tail(ws))
         /\ Len(ws) \in Nat /\ Len(Tail(ws)) = Len(ws) - 1 /\ Len(Tail(ws)) \in Nat
         /\ \A i \in 1..Len(Tail(ws)) : Tail(ws)[i] = ws[i + 1] /\ i + 1 \in 1..Len(ws)
<1> DEFINE rest == Tail(ws)
<1>1. ws \in Seq(Write) /\ Len(ws) \in Nat /\ Len(ws) >= 1
  BY EmptySeq, LenProperties DEF WritesOK
<1>2. /\ Head(ws) \in Write /\ rest \in Seq(Write) /\ Len(rest) = Len(ws) - 1
      /\ \A i \in 1..Len(rest) : rest[i] = ws[i + 1]
  BY <1>1, HeadTailProperties
<1>3. Head(ws) = ws[1]
  BY <1>1
<1> HIDE DEF rest
<1>4. \A i \in 1..Len(rest) : /\ i + 1 \in 1..Len(ws) /\ TableOK(rest[i].rows)
                               /\ UserShows(rest[i].by, rest[i].rows)
  <2>1. TAKE i \in 1..Len(rest)
  <2>2. i + 1 \in 1..Len(ws) /\ rest[i] = ws[i + 1]
    BY <1>1, <1>2
  <2>3. QED
    BY <2>2 DEF WritesOK
<1>5. TableOK(ws[1].rows) /\ UserShows(ws[1].by, ws[1].rows)
  BY <1>1 DEF WritesOK
<1>6. Head(ws).by \in Reasons
  BY <1>2 DEF Write
<1>7. QED
  BY <1>1, <1>2, <1>3, <1>4, <1>5, <1>6 DEF WritesOK, rest

\* Nothing is disturbed when it is taken away.
LEMMA RestKeeps ==
  ASSUME NEW ws, WritesOK(ws), ws # <<>>, NEW e, LoadOK(ws, e, TRUE), OwnWrites(ws, e),
         NEW d, NEW m, TakenBack(d, m, ws, e)
  PROVE  /\ LoadOK(Tail(ws), e, TRUE) /\ OwnWrites(Tail(ws), e) /\ TakenBack(d, m, Tail(ws), e)
<1> DEFINE rest == Tail(ws)
<1>1. /\ Len(ws) \in Nat /\ Len(rest) = Len(ws) - 1
      /\ \A i \in 1..Len(rest) : rest[i] = ws[i + 1] /\ i + 1 \in 1..Len(ws)
  BY FirstWrite
<1> HIDE DEF rest
<1>2. LoadOK(rest, e, TRUE)
  BY <1>1 DEF LoadOK
<1>3. OwnWrites(rest, e)
  <2>1. SUFFICES ASSUME NEW i \in 1..Len(rest), rest[i].by = "exec"
                 PROVE  /\ e.job # NoJob /\ "job" \in e.saves
                        /\ rest[i].rows = One(e.job, e.cur)
                        /\ \A k \in (i + 1)..Len(rest) :
                             /\ rest[k].by # "exec"
                             /\ e.cur.state # "succeeded" => NoSuccess(rest[k].rows, e.job)
    BY DEF OwnWrites
  <2>2. ws[i + 1].by = "exec" /\ i + 1 \in 1..Len(ws) /\ rest[i] = ws[i + 1]
    BY <1>1, <2>1
  <2>3. \A k \in (i + 1)..Len(rest) : rest[k] = ws[k + 1] /\ k + 1 \in (i + 1 + 1)..Len(ws)
    BY <1>1
  <2>4. /\ e.job # NoJob /\ "job" \in e.saves /\ ws[i + 1].rows = One(e.job, e.cur)
        /\ \A k \in (i + 1 + 1)..Len(ws) :
             ws[k].by # "exec" /\ (e.cur.state # "succeeded" => NoSuccess(ws[k].rows, e.job))
    BY <2>2 DEF OwnWrites
  <2>5. QED
    BY <2>2, <2>3, <2>4
<1>4. TakenBack(d, m, rest, e)
  BY <1>1 DEF TakenBack
<1>5. QED
  BY <1>2, <1>3, <1>4 DEF rest

-----------------------------------------------------------------------------
(* The queue *)

\* Without an execution none of the writes is its own, and it is in order.
LEMMA NoExecOK ==
  ASSUME faults \in 0..MaxFaults
  PROVE  /\ ExecOK(NoExec, <<>>) /\ NoExec.job = NoJob /\ NoExec.saves = {}
         /\ NoExec.worker = "none" /\ NoExec.cur = NoRow
<1>1. NoExec \in Exec /\ NoExec.cur.state = "absent"
  BY RowNew DEF NoExec, Exec, Workers, RowOK
<1>2. \A what : ~Said(<<>>, what)
  BY DEF Said
<1>3. NoExec.job = NoJob /\ NoExec.saves = {} /\ NoExec.worker = "none" /\ NoExec.cur = NoRow
  BY DEF NoExec
<1>4. <<>> \in Seq({"progress"} \cup Ends)
  OBVIOUS
<1>5. QED
  BY <1>1, <1>2, <1>3, <1>4 DEF ExecOK, Ends

\* What executeQueue leaves: nothing to do, or the start of a job that was queued, in
\* memory and as the last of the writes.
LEMMA StartNextKeeps ==
  ASSUME faults \in 0..MaxFaults, NEW m, Known(m), NEW q \in Seq(Jobs),
         NEW ws, WritesOK(ws), LoadOK(ws, NoExec, TRUE), OwnWrites(ws, NoExec),
         StartNext(m, q, ws), NEW d
  PROVE  /\ queue' \in Seq(Jobs) /\ WritesOK(writes') /\ LoadOK(writes', exec', TRUE)
         /\ ExecOK(exec', <<>>) /\ OwnWrites(writes', exec') /\ TakenBack(d, m, writes', exec')
<1> DEFINE due == {i \in DOMAIN q : m[q[i]].state = "queued"}
<1>1. CASE due = {} /\ exec' = NoExec /\ queue' = <<>> /\ writes' = ws
  <2>1. ExecOK(NoExec, <<>>) /\ TakenBack(d, m, ws, NoExec)
    BY NoExecOK DEF TakenBack
  <2>2. queue' \in Seq(Jobs)
    BY <1>1
  <2>3. exec' = NoExec /\ writes' = ws
    BY <1>1
  <2> HIDE DEF due
  <2>4. QED
    BY <2>1, <2>2, <2>3
<1>2. CASE \E i \in due :
             /\ exec' = [NoExec EXCEPT !.job = q[i], !.cur = To(m[q[i]], "preparing"), !.saves = {"job"}]
             /\ queue' = SubSeq(q, i + 1, Len(q))
             /\ writes' = Saved(ws, "exec", One(q[i], To(m[q[i]], "preparing")))
  <2>1. PICK i \in due :
             /\ exec' = [NoExec EXCEPT !.job = q[i], !.cur = To(m[q[i]], "preparing"), !.saves = {"job"}]
             /\ queue' = SubSeq(q, i + 1, Len(q))
             /\ writes' = Saved(ws, "exec", One(q[i], To(m[q[i]], "preparing")))
    BY <1>2
  <2> DEFINE j == q[i]
             r == To(m[j], "preparing")
             e == exec'
             n == Len(ws)
  <2>2. i \in 1..Len(q) /\ j \in Jobs /\ m[j].state = "queued" /\ RowOK(j, m[j])
    BY DEF Known
  <2>3. RowOK(j, r) /\ r.state = "preparing"
    BY <2>2, RowTo DEF States, Active, Ends
  <2>4. queue' \in Seq(Jobs)
    <3>1. i + 1 \in 1..(Len(q) + 1)
      BY <2>2, LenProperties
    <3>2. QED
      BY <2>1, <3>1, SubSeqProperties
  <2> HIDE DEF r
  <2>5. /\ e = [NoExec EXCEPT !.job = j, !.cur = r, !.saves = {"job"}]
        /\ writes' = Saved(ws, "exec", One(j, r))
    BY <2>1 DEF r
  <2> HIDE DEF j
  <2>6. /\ e \in Exec /\ e.job = j /\ e.cur = r /\ e.saves = {"job"} /\ e.worker = "none"
    BY <2>2, <2>3, <2>5 DEF Exec, NoExec, RowOK, Workers
  <2>7. /\ WritesOK(writes') /\ n \in Nat /\ Len(writes') = n + 1
        /\ \A k \in 1..n : writes'[k] = ws[k]
        /\ writes'[n + 1].by = "exec" /\ writes'[n + 1].rows = One(j, r)
    <3>1. TableOK(One(j, r))
      BY <2>2, <2>3, OneTable
    <3>2. "exec" \in Reasons /\ UserShows("exec", One(j, r))
      BY DEF Reasons, UserShows
    <3> DEFINE more == Saved(ws, "exec", One(j, r))
    <3>3. /\ WritesOK(more) /\ Len(ws) \in Nat /\ Len(more) = Len(ws) + 1
          /\ \A k \in 1..Len(ws) : more[k] = ws[k]
          /\ more[Len(ws) + 1].by = "exec" /\ more[Len(ws) + 1].rows = One(j, r)
      BY <3>1, <3>2, SavedWrites
    <3>4. writes' = more
      BY <2>5
    <3> HIDE DEF more
    <3>5. QED
      BY <3>3, <3>4
  <2> HIDE DEF e, n
  <2>8. \A k \in 1..Len(writes') : k \in 1..n \/ k = n + 1
    BY <2>7
  <2>9. LoadOK(writes', e, TRUE)
    BY <2>7, <2>8 DEF LoadOK, n
  <2>10. OwnWrites(writes', e)
    <3>1. \A k \in 1..n : ws[k].by # "exec"
      BY NoExecOK DEF OwnWrites, n
    <3>2. SUFFICES ASSUME NEW k \in 1..Len(writes'), writes'[k].by = "exec"
                   PROVE  k = n + 1
      BY <2>2, <2>6, <2>7, RenderAssumption DEF OwnWrites
    <3>3. QED
      BY <2>7, <2>8, <3>1, <3>2
  <2>11. TakenBack(d, m, writes', e)
    BY <2>2, <2>6 DEF TakenBack
  <2>12. ExecOK(e, <<>>)
    <3>1. \A what : ~Said(<<>>, what)
      BY DEF Said
    <3>2. <<>> \in Seq({"progress"} \cup Ends)
      OBVIOUS
    <3>3. r.state \in Active /\ r.state \notin Ends /\ e.job # NoJob
      BY <2>2, <2>3, <2>6, RenderAssumption DEF Active, Ends
    <3>4. QED
      BY <2>3, <2>6, <3>1, <3>2, <3>3 DEF ExecOK
  <2>13. QED
    BY <2>4, <2>7, <2>9, <2>10, <2>11, <2>12 DEF e
<1>3. QED
  BY <1>1, <1>2 DEF StartNext

\* The jobs of a set in an order.
LEMMA InOrderIsQueue ==
  ASSUME NEW js \in SUBSET Jobs
  PROVE  InOrder(js) \in Seq(Jobs)
<1>1. IsFiniteSet(js)
  BY RenderAssumption, FS_Subset
<1>2. PICK n \in Nat : ExistsBijection(1..n, js)
  BY <1>1, FS_NatBijection
<1>3. Cardinality(js) = n
  BY <1>2, FS_CountingElements
<1>4. PICK f \in Bijection(1..n, js) : TRUE
  BY <1>2 DEF ExistsBijection
<1>5. f \in [1..Cardinality(js) -> js] /\ IsInjective(f)
  BY <1>3, <1>4 DEF Bijection, Injection, IsInjective
<1>6. InOrder(js) \in [1..Cardinality(js) -> js]
  BY <1>5 DEF InOrder, SetToSeq
<1>7. QED
  BY <1>2, <1>3, <1>6

-----------------------------------------------------------------------------
(* The steps *)

\* A step that leaves the files and the faults alone keeps the invariant if what it
\* leaves is in order.
LEMMA StepKeeps ==
  ASSUME Rest, UNCHANGED <<file, faults>>, stored' \subseteq Jobs, edited' \in BOOLEAN,
         Known(disk'), Known(mem'), queue' \in Seq(Jobs), WritesOK(writes'),
         LoadOK(writes', exec', loaded'), ExecOK(exec', msgs'), OwnWrites(writes', exec'),
         TakenBack(disk', mem', writes', exec'),
         ~loaded' => \A j \in Jobs : disk'[j].attempt <= faults
  PROVE  Inv'
<1>1. file' = file /\ faults' = faults
  OBVIOUS
<1>2. Rest'
  BY <1>1 DEF Rest
<1>3. \A j, r : RowOK(j, r)' <=> RowOK(j, r)
  BY <1>1 DEF RowOK
<1>4. Known(disk)' /\ Known(mem)'
  BY <1>1 DEF Known, RowOK
<1>5. WritesOK(writes)'
  BY <1>1 DEF WritesOK, TableOK, RowOK
<1>6. ExecOK(exec, msgs)'
  BY <1>1 DEF ExecOK, RowOK
<1>7. LoadOK(writes, exec, loaded)' /\ OwnWrites(writes, exec)' /\ TakenBack(disk, mem, writes, exec)'
  BY DEF LoadOK, OwnWrites, TakenBack
<1>8. Attempts'
  BY <1>1 DEF Attempts
<1>9. QED
  BY <1>2, <1>4, <1>5, <1>6, <1>7, <1>8 DEF Inv

\* A click, or an edit, asks for a write.
LEMMA ClickKeeps ==
  ASSUME Inv, loaded, UNCHANGED <<disk, stored, file, queue, msgs, loaded, faults>>,
         edited' \in BOOLEAN, Known(mem'),
         \A j \in Jobs : mem[j].state # "succeeded" => mem'[j].state # "succeeded",
         (exec' = exec \/ (exec' = [exec EXCEPT !.asked = TRUE] /\ exec.job # NoJob)),
         NEW by \in Reasons \ {"recover", "exec"}, NEW rows, TableOK(rows), UserShows(by, rows),
         exec.job # NoJob /\ exec.cur.state # "succeeded" => NoSuccess(rows, exec.job),
         writes' = writes \/ writes' = Saved(writes, by, rows)
  PROVE  Inv'
<1>1. /\ Rest /\ Known(disk) /\ queue \in Seq(Jobs) /\ WritesOK(writes)
      /\ LoadOK(writes, exec, TRUE) /\ ExecOK(exec, msgs)
      /\ OwnWrites(writes, exec) /\ TakenBack(disk, mem, writes, exec)
  BY DEF Inv, LoadOK
<1>2. exec \in Exec
  BY <1>1 DEF ExecOK
<1>3. /\ exec' \in Exec /\ exec'.job = exec.job /\ exec'.cur = exec.cur
      /\ exec'.saves = exec.saves /\ exec'.worker = exec.worker /\ (exec.job = NoJob => exec' = exec)
  BY <1>2 DEF Exec
<1>4. ExecOK(exec', msgs)
  BY <1>1, <1>3 DEF ExecOK
<1>5. /\ WritesOK(writes') /\ LoadOK(writes', exec, TRUE) /\ OwnWrites(writes', exec)
      /\ TakenBack(disk, mem, writes', exec)
  <2>1. CASE writes' = writes
    BY <1>1, <2>1
  <2>2. CASE writes' = Saved(writes, by, rows)
    BY <1>1, <2>2, SavedKeeps
  <2>3. QED
    BY <2>1, <2>2
<1>6. LoadOK(writes', exec', TRUE) /\ OwnWrites(writes', exec')
  BY <1>3, <1>5 DEF LoadOK, OwnWrites
<1>7. TakenBack(disk, mem', writes', exec')
  <2>1. exec.job \in Jobs \cup {NoJob}
    BY <1>2 DEF Exec
  <2>2. QED
    BY <1>3, <1>5, <2>1 DEF TakenBack
<1>8. stored' \subseteq Jobs
  BY <1>1 DEF Rest
<1>9. QED
  BY <1>1, <1>4, <1>5, <1>6, <1>7, <1>8, StepKeeps

\* enqueueSelected asks what has succeeded already.
LEMMA EnqueueKeeps ==
  ASSUME Inv, NEW js \in SUBSET Jobs \ {{}}, Enqueue(js)
  PROVE  Inv'
<1> DEFINE rows == [j \in js |-> Fresh]
<1>1. TableOK(rows) /\ DOMAIN rows = js /\ \A j \in js : rows[j].state = "queued"
  <2>1. faults \in 0..MaxFaults
    BY DEF Inv, Rest
  <2>2. \A j \in js : RowOK(j, Fresh) /\ Fresh.state = "queued" /\ Fresh \in Rows
    BY <2>1, RowNew DEF RowOK
  <2>3. QED
    BY <2>2, TableMade
<1>2. /\ loaded /\ UNCHANGED <<disk, stored, file, queue, msgs, loaded, faults, edited, mem, exec>>
      /\ writes' = Saved(writes, "lookup", rows)
  BY DEF Enqueue, Click
<1> HIDE DEF rows
<1>3. UserShows("lookup", rows) /\ \A j : NoSuccess(rows, j)
  BY <1>1 DEF UserShows, NoSuccess
<1>4. Known(mem') /\ edited' \in BOOLEAN /\ "lookup" \in Reasons \ {"recover", "exec"}
  BY <1>2 DEF Inv, Rest, Reasons
<1>5. QED
  BY <1>1, <1>2, <1>3, <1>4, ClickKeeps

\* cancelJob tells the worker, or cancels a job that has none.
LEMMA CancelKeeps ==
  ASSUME Inv, NEW j \in Jobs, Cancel(j)
  PROVE  Inv'
<1> DEFINE told == exec.job = j /\ exec.worker # "none"
           s == IF told THEN "cancelling" ELSE "cancelled"
           r == To(mem[j], s)
           rows == One(j, r)
<1>1. RowOK(j, mem[j]) /\ s \in States /\ s \notin {"succeeded", "failed"}
  BY DEF Inv, Known, States, Terminal
<1>2. RowOK(j, r) /\ r.state = s
  BY <1>1, RowMade DEF RowOK
<1>3. /\ loaded /\ UNCHANGED <<disk, stored, file, queue, msgs, loaded, faults, edited, mem>>
      /\ (exec' = exec \/ (exec' = [exec EXCEPT !.asked = TRUE] /\ exec.job # NoJob))
      /\ writes' = Saved(writes, "cancel", rows)
  BY RenderAssumption DEF Cancel, Click
<1> HIDE DEF r
<1>4. TableOK(rows) /\ DOMAIN rows = {j} /\ rows[j] = r
  BY <1>2, OneTable
<1> HIDE DEF rows, s
<1>5. UserShows("cancel", rows) /\ \A k : NoSuccess(rows, k)
  BY <1>1, <1>2, <1>4 DEF UserShows, NoSuccess
<1>6. Known(mem') /\ edited' \in BOOLEAN /\ "cancel" \in Reasons \ {"recover", "exec"}
  BY <1>3 DEF Inv, Rest, Reasons
<1>7. QED
  BY <1>3, <1>4, <1>5, <1>6, ClickKeeps

\* A retry requeues a job that failed, for which there was a fault.
LEMMA RetryKeeps ==
  ASSUME Inv, NEW j \in Jobs, Retry(j)
  PROVE  Inv'
<1> DEFINE r == Requeued(mem[j])
           rows == One(j, r)
<1>1. RowOK(j, mem[j]) /\ mem[j].attempt <= faults /\ faults \in 0..MaxFaults
  BY DEF Inv, Known, Rest, RowOK, Retry, Retryable
<1>2. RowOK(j, r) /\ r.state = "queued"
  BY <1>1, RowRequeued
<1>3. /\ loaded /\ UNCHANGED <<disk, stored, file, queue, msgs, loaded, faults, edited, mem, exec>>
      /\ writes' = Saved(writes, "retry", rows)
  BY DEF Retry, Click
<1> HIDE DEF r
<1>4. TableOK(rows) /\ DOMAIN rows = {j} /\ rows[j] = r
  BY <1>2, OneTable
<1> HIDE DEF rows
<1>5. UserShows("retry", rows) /\ \A k : NoSuccess(rows, k)
  BY <1>2, <1>4 DEF UserShows, NoSuccess
<1>6. Known(mem') /\ edited' \in BOOLEAN /\ "retry" \in Reasons \ {"recover", "exec"}
  BY <1>3 DEF Inv, Rest, Reasons
<1>7. QED
  BY <1>3, <1>4, <1>5, <1>6, ClickKeeps

\* An edit marks every record stale, in memory and in a write.
LEMMA EditKeeps ==
  ASSUME Inv, Edit
  PROVE  Inv'
<1> DEFINE held == {j \in Jobs : mem[j].state # "absent"}
           rows == [j \in held |-> [mem[j] EXCEPT !.stale = TRUE]]
<1>1. \A j \in Jobs : /\ RowOK(j, [mem[j] EXCEPT !.stale = TRUE])
                      /\ [mem[j] EXCEPT !.stale = TRUE].state = mem[j].state
                      /\ [mem[j] EXCEPT !.stale = TRUE] \in Rows
  BY RowStale DEF Inv, Known, RowOK
<1>2. TableOK(rows) /\ DOMAIN rows = held /\ \A j \in held : rows[j].state = mem[j].state
  BY <1>1, TableMade
<1>3. /\ loaded /\ UNCHANGED <<disk, stored, file, queue, msgs, loaded, faults, exec>>
      /\ edited' \in BOOLEAN /\ mem' = Put(mem, rows)
      /\ (writes' = writes \/ writes' = Saved(writes, "stale", rows))
  BY DEF Edit
<1> HIDE DEF rows
<1>4. /\ Known(mem') /\ \A j \in Jobs : mem'[j].state = mem[j].state
  BY <1>2, <1>3, PutKnown DEF Inv
<1>5. exec.job # NoJob /\ exec.cur.state # "succeeded" => NoSuccess(rows, exec.job)
  BY <1>2 DEF Inv, TakenBack, NoSuccess
<1>6. UserShows("stale", rows) /\ "stale" \in Reasons \ {"recover", "exec"}
  BY DEF UserShows, Reasons
<1>7. QED
  BY <1>2, <1>3, <1>4, <1>5, <1>6, ClickKeeps

\* How the execution goes on once something of it was saved.
LEMMA ContinueKeeps ==
  ASSUME faults \in 0..MaxFaults, Known(mem), queue \in Seq(Jobs),
         NEW ws, WritesOK(ws), NEW e, e.job # NoJob, LoadOK(ws, e, TRUE), ExecOK(e, msgs),
         OwnWrites(ws, e), NEW d, TakenBack(d, mem, ws, e),
         e.worker = "none" => /\ d[e.job].state # "succeeded"
                              /\ \A i \in 1..Len(ws) : NoSuccess(ws[i].rows, e.job),
         Continue(e, ws)
  PROVE  /\ Known(mem') /\ queue' \in Seq(Jobs) /\ WritesOK(writes')
         /\ LoadOK(writes', exec', TRUE) /\ ExecOK(exec', msgs)
         /\ OwnWrites(writes', exec') /\ TakenBack(d, mem', writes', exec')
<1> DEFINE m == Shown(e)
<1>1. e.job \in Jobs /\ RowOK(e.job, e.cur) /\ e \in Exec
  BY DEF ExecOK, Exec
<1>2. Known(m) /\ m[e.job] = e.cur
  <2>1. /\ TableOK(One(e.job, e.cur)) /\ DOMAIN One(e.job, e.cur) = {e.job}
        /\ One(e.job, e.cur)[e.job] = e.cur
    BY <1>1, OneTable
  <2>2. QED
    BY <1>1, <2>1, PutKnown DEF Shown
<1> HIDE DEF m
<1>3. CASE e.saves # {}
  <2>1. exec' = e /\ mem' = mem /\ queue' = queue /\ writes' = ws
    BY <1>3 DEF Continue
  <2>2. QED
    BY <2>1
<1>4. CASE e.saves = {} /\ e.worker = "none"
  <2>1. exec' = [e EXCEPT !.worker = "fresh"] /\ mem' = m /\ queue' = queue /\ writes' = ws
    BY <1>4 DEF Continue, m
  <2>2. /\ exec' \in Exec /\ exec'.job = e.job /\ exec'.cur = e.cur /\ exec'.saves = e.saves
        /\ exec'.worker = "fresh"
    BY <1>1, <2>1 DEF Exec, Workers
  <2>3. ExecOK(exec', msgs)
    <3>1. msgs = <<>> /\ e.cur.state \notin Ends
      BY <1>4 DEF ExecOK
    <3>2. \A what : ~Said(msgs, what)
      BY <3>1 DEF Said
    <3>3. QED
      BY <2>2, <3>1, <3>2 DEF ExecOK
  <2>4. LoadOK(ws, exec', TRUE) /\ OwnWrites(ws, exec')
    BY <2>2 DEF LoadOK, OwnWrites
  <2>5. TakenBack(d, m, ws, exec')
    BY <1>2, <1>4, <2>2 DEF TakenBack
  <2>6. QED
    BY <1>2, <2>1, <2>3, <2>4, <2>5
<1>5. CASE e.saves = {} /\ e.worker # "none" /\ e.cur.state \in {"failed", "cancelled"}
  <2>1. mem' = m /\ StartNext(m, queue, ws)
    BY <1>5 DEF Continue, m
  <2>2. msgs = <<>>
    BY <1>5 DEF ExecOK, Ends
  <2>3. LoadOK(ws, NoExec, TRUE) /\ OwnWrites(ws, NoExec)
    BY <1>5 DEF LoadOK, OwnWrites
  <2>4. QED
    BY <1>2, <2>1, <2>2, <2>3, StartNextKeeps
<1>6. CASE e.saves = {} /\ e.worker # "none" /\ e.cur.state \notin {"failed", "cancelled"}
  <2>1. exec' = e /\ mem' = m /\ queue' = queue /\ writes' = ws
    BY <1>6 DEF Continue, m
  <2>2. TakenBack(d, m, ws, e)
    BY <1>2 DEF TakenBack
  <2>3. QED
    BY <1>2, <2>1, <2>2
<1>7. QED
  BY <1>3, <1>4, <1>5, <1>6

\* What a stored write leaves on disk: nothing of the job that is being executed
\* shows a success that its execution has not reached.
LEMMA StoredKeeps ==
  ASSUME Inv, writes # <<>>, NEW rows, rows = Head(writes).rows
  PROVE  /\ Known(Put(disk, rows)) /\ TakenBack(Put(disk, rows), mem, Tail(writes), exec)
         /\ Known(Put(mem, rows)) /\ TableOK(rows) /\ WritesOK(Tail(writes))
<1>1. /\ WritesOK(writes) /\ Known(disk) /\ Known(mem) /\ ExecOK(exec, msgs)
      /\ TakenBack(disk, mem, writes, exec)
  BY DEF Inv
<1>2. /\ Head(writes) = writes[1] /\ 1 \in 1..Len(writes) /\ TableOK(rows)
      /\ WritesOK(Tail(writes))
      /\ \A i \in 1..Len(Tail(writes)) : Tail(writes)[i] = writes[i + 1] /\ i + 1 \in 1..Len(writes)
  BY <1>1, FirstWrite
<1>3. Known(Put(disk, rows)) /\ Known(Put(mem, rows))
      /\ \A j \in Jobs : Put(disk, rows)[j] = IF j \in DOMAIN rows THEN rows[j] ELSE disk[j]
  BY <1>1, <1>2, PutKnown
<1>4. exec.job \in Jobs \cup {NoJob}
  BY <1>1 DEF ExecOK, Exec
<1> HIDE DEF Put
<1>5. TakenBack(Put(disk, rows), mem, Tail(writes), exec)
  <2>1. SUFFICES ASSUME exec.job # NoJob, exec.cur.state # "succeeded"
                 PROVE  /\ mem[exec.job].state # "succeeded"
                        /\ exec.worker # "none" =>
                             /\ Put(disk, rows)[exec.job].state # "succeeded"
                             /\ \A i \in 1..Len(Tail(writes)) : NoSuccess(Tail(writes)[i].rows, exec.job)
    BY DEF TakenBack
  <2>2. mem[exec.job].state # "succeeded"
    BY <1>1, <2>1 DEF TakenBack
  <2>3. ASSUME exec.worker # "none"
        PROVE  /\ disk[exec.job].state # "succeeded"
               /\ \A i \in 1..Len(writes) : NoSuccess(writes[i].rows, exec.job)
    BY <1>1, <2>1, <2>3 DEF TakenBack
  <2>4. ASSUME exec.worker # "none" PROVE Put(disk, rows)[exec.job].state # "succeeded"
    BY <1>2, <1>3, <1>4, <2>1, <2>3, <2>4 DEF NoSuccess
  <2>5. QED
    BY <1>2, <2>2, <2>3, <2>4
<1>6. QED
  BY <1>2, <1>3, <1>5

\* The frame of a stored write, when the page is loaded before it or by it.
LEMMA StoreStep ==
  ASSUME Inv, writes # <<>>, UNCHANGED <<stored, file, msgs, edited, faults>>,
         Known(disk'), Known(mem'), queue' \in Seq(Jobs), loaded' = TRUE,
         WritesOK(writes'), LoadOK(writes', exec', TRUE), ExecOK(exec', msgs),
         OwnWrites(writes', exec'), TakenBack(disk', mem', writes', exec')
  PROVE  Inv'
<1>1. Rest /\ stored' \subseteq Jobs /\ edited' \in BOOLEAN
  BY DEF Inv, Rest
<1>2. ExecOK(exec', msgs') /\ LoadOK(writes', exec', loaded')
  OBVIOUS
<1>3. QED
  BY <1>1, <1>2, StepKeeps

\* The skipped keys are those stored before.
LEMMA StoreLookup ==
  ASSUME Inv, loaded, Store, Head(writes).by = "lookup"
  PROVE  Inv'
<1> DEFINE w == Head(writes)
           rest == Tail(writes)
           js == DOMAIN w.rows \ Skipped
           rows == [j \in js |-> Fresh]
<1>1. /\ writes # <<>> /\ UNCHANGED <<stored, file, msgs, edited, faults, disk, mem, queue, exec>>
      /\ loaded' = TRUE
      /\ writes' = (IF js = {} THEN rest ELSE Saved(rest, "batch", rows))
  BY DEF Store
<1>2. /\ Known(disk) /\ Known(mem) /\ queue \in Seq(Jobs) /\ WritesOK(writes)
      /\ LoadOK(writes, exec, TRUE) /\ ExecOK(exec, msgs) /\ OwnWrites(writes, exec)
      /\ TakenBack(disk, mem, writes, exec) /\ faults \in 0..MaxFaults
  BY DEF Inv, Rest
<1>3. /\ WritesOK(rest) /\ LoadOK(rest, exec, TRUE) /\ OwnWrites(rest, exec)
      /\ TakenBack(disk, mem, rest, exec) /\ TableOK(w.rows)
  BY <1>1, <1>2, FirstWrite, RestKeeps
<1>4. TableOK(rows) /\ \A j \in DOMAIN rows : rows[j].state = "queued"
  <2>1. \A j \in js : RowOK(j, Fresh) /\ Fresh.state = "queued" /\ Fresh \in Rows
    BY <1>2, RowNew DEF RowOK
  <2>2. js \in SUBSET Jobs
    BY <1>3 DEF TableOK, Tables
  <2> HIDE DEF js
  <2>3. QED
    BY <2>1, <2>2, TableMade
<1> HIDE DEF rows, js
<1>5. UserShows("batch", rows) /\ (\A j : NoSuccess(rows, j)) /\ "batch" \in Reasons \ {"recover", "exec"}
  BY <1>4 DEF UserShows, NoSuccess, Reasons
<1> HIDE DEF rest, w
<1>6. CASE js = {}
  BY <1>1, <1>2, <1>3, <1>6, StoreStep
<1>7. CASE js # {}
  <2> DEFINE more == Saved(rest, "batch", rows)
  <2>1. /\ WritesOK(more) /\ LoadOK(more, exec, TRUE) /\ OwnWrites(more, exec)
        /\ TakenBack(disk, mem, more, exec)
    BY <1>3, <1>4, <1>5, SavedKeeps
  <2>2. writes' = more
    BY <1>1, <1>7
  <2> HIDE DEF more
  <2>3. QED
    BY <1>1, <1>2, <2>1, <2>2, StoreStep
<1>8. QED
  BY <1>6, <1>7

\* An execution that was asked for, of a page without one or beside the running one.
LEMMA ExecuteKeeps ==
  ASSUME faults \in 0..MaxFaults, NEW m, Known(m), NEW js \in SUBSET Jobs,
         queue \in Seq(Jobs), ExecOK(exec, msgs), NEW d,
         NEW ws, WritesOK(ws), LoadOK(ws, exec, TRUE), OwnWrites(ws, exec), TakenBack(d, m, ws, exec),
         Execute(m, js, ws)
  PROVE  /\ queue' \in Seq(Jobs) /\ WritesOK(writes') /\ LoadOK(writes', exec', TRUE)
         /\ ExecOK(exec', msgs) /\ OwnWrites(writes', exec') /\ TakenBack(d, m, writes', exec')
<1>1. CASE Running
  BY <1>1 DEF Execute
<1>2. CASE ~Running
  <2>1. StartNext(m, InOrder(js), ws) /\ exec = NoExec
    BY <1>2 DEF Execute, Running, ExecOK
  <2>2. msgs = <<>> /\ InOrder(js) \in Seq(Jobs)
    BY <2>1, NoExecOK, InOrderIsQueue DEF ExecOK
  <2>3. LoadOK(ws, NoExec, TRUE) /\ OwnWrites(ws, NoExec)
    BY <2>1
  <2>4. QED
    BY <2>1, <2>2, <2>3, StartNextKeeps
<1>3. QED
  BY <1>1, <1>2

\* The user's writes, and the marks of an edit.
LEMMA StoreOfUser ==
  ASSUME Inv, loaded, Store, Head(writes).by \in {"cancel", "batch", "retry", "stale"}
  PROVE  Inv'
<1> DEFINE w == Head(writes)
           rest == Tail(writes)
           rows == w.rows
           m == Put(mem, rows)
           d == Put(disk, rows)
<1>1. /\ writes # <<>> /\ UNCHANGED <<stored, file, msgs, edited, faults>>
      /\ disk' = d /\ loaded' = TRUE
  BY DEF Store
<1>2. /\ Known(mem) /\ queue \in Seq(Jobs) /\ WritesOK(writes)
      /\ LoadOK(writes, exec, TRUE) /\ ExecOK(exec, msgs) /\ OwnWrites(writes, exec)
      /\ TakenBack(disk, mem, writes, exec) /\ faults \in 0..MaxFaults
  BY DEF Inv, Rest
<1>3. /\ LoadOK(rest, exec, TRUE) /\ OwnWrites(rest, exec)
  BY <1>1, <1>2, RestKeeps
<1>4. /\ Known(d) /\ TakenBack(d, mem, rest, exec) /\ Known(m) /\ TableOK(rows) /\ WritesOK(rest)
  BY <1>1, StoredKeeps
<1>5. w.by # "stale" => \A j \in DOMAIN rows : rows[j].state # "succeeded"
  BY <1>1, <1>2, FirstWrite DEF UserShows
<1>6. w.by # "stale" => TakenBack(d, m, rest, exec)
  <2>1. \A j \in Jobs : m[j] = IF j \in DOMAIN rows THEN rows[j] ELSE mem[j]
    BY <1>2, <1>4, PutKnown
  <2>2. exec.job \in Jobs \cup {NoJob}
    BY <1>2 DEF ExecOK, Exec
  <2> HIDE DEF m, d, rest, rows, w
  <2>3. QED
    BY <1>4, <1>5, <2>1, <2>2 DEF TakenBack
<1>7. CASE w.by = "cancel"
  <2>1. mem' = m /\ writes' = rest /\ queue' = queue /\ exec' = exec
    BY <1>7 DEF Store
  <2> HIDE DEF m, d, rest
  <2>2. QED
    BY <1>1, <1>2, <1>3, <1>4, <1>6, <1>7, <2>1, StoreStep
<1>8. CASE w.by = "stale"
  <2>1. mem' = mem /\ writes' = rest /\ queue' = queue /\ exec' = exec
    BY <1>8 DEF Store
  <2> HIDE DEF m, d, rest
  <2>2. QED
    BY <1>1, <1>2, <1>3, <1>4, <1>8, <2>1, StoreStep
<1>9. CASE w.by \in {"batch", "retry"}
  <2>1. mem' = m /\ Execute(m, DOMAIN rows, rest) /\ DOMAIN rows \in SUBSET Jobs
    BY <1>4, <1>9 DEF Store, TableOK, Tables
  <2>2. TakenBack(d, m, rest, exec)
    BY <1>6, <1>9
  <2> HIDE DEF m, d, rest, rows, w
  <2>3. /\ queue' \in Seq(Jobs) /\ WritesOK(writes') /\ LoadOK(writes', exec', TRUE)
        /\ ExecOK(exec', msgs) /\ OwnWrites(writes', exec') /\ TakenBack(d, m, writes', exec')
    BY <1>2, <1>3, <1>4, <2>1, <2>2, ExecuteKeeps
  <2>4. QED
    BY <1>1, <1>4, <2>1, <2>3, StoreStep
<1>10. QED
  BY <1>7, <1>8, <1>9

\* The rows of a recovery become the page's records, and the queue starts.
LEMMA StoreRecover ==
  ASSUME Inv, Store, ~loaded \/ Head(writes).by = "recover"
  PROVE  Inv'
<1> DEFINE w == Head(writes)
           rest == Tail(writes)
           rows == w.rows
           d == Put(disk, rows)
<1>1. writes # <<>> /\ UNCHANGED <<stored, file, msgs, edited, faults>>
  BY DEF Store
<1>2. /\ Known(mem) /\ queue \in Seq(Jobs) /\ WritesOK(writes)
      /\ LoadOK(writes, exec, loaded) /\ ExecOK(exec, msgs) /\ OwnWrites(writes, exec)
      /\ faults \in 0..MaxFaults
  BY DEF Inv, Rest
<1>3. /\ w = writes[1] /\ 1 \in 1..Len(writes) /\ Len(writes) \in Nat
      /\ Len(rest) = Len(writes) - 1 /\ WritesOK(rest) /\ TableOK(rows)
  BY <1>1, <1>2, FirstWrite
<1>4. ~loaded
  BY <1>2, <1>3 DEF LoadOK
<1>5. w.by = "recover" /\ DOMAIN rows = Jobs /\ exec = NoExec /\ Len(rest) = 0
  <2>1. writes[1].by = "recover" /\ DOMAIN writes[1].rows = Jobs /\ exec = NoExec /\ Len(writes) <= 1
    BY <1>2, <1>3, <1>4 DEF LoadOK
  <2> HIDE DEF rest
  <2>2. QED
    BY <1>3, <2>1
<1>6. disk' = d /\ loaded' = TRUE /\ mem' = rows /\ Execute(rows, Jobs, rest)
  BY <1>4, <1>5 DEF Store
<1>7. Known(rows) /\ Known(d)
  BY <1>1, <1>3, <1>5, StoredKeeps DEF Known, TableOK, Tables
<1>8. /\ LoadOK(rest, exec, TRUE) /\ OwnWrites(rest, exec) /\ TakenBack(d, rows, rest, exec)
  BY <1>2, <1>5, NoExecOK DEF LoadOK, OwnWrites, TakenBack
<1> HIDE DEF d, rest, rows, w
<1>9. /\ queue' \in Seq(Jobs) /\ WritesOK(writes') /\ LoadOK(writes', exec', TRUE)
      /\ ExecOK(exec', msgs) /\ OwnWrites(writes', exec') /\ TakenBack(d, rows, writes', exec')
  BY <1>2, <1>3, <1>6, <1>7, <1>8, ExecuteKeeps
<1>10. QED
  BY <1>1, <1>6, <1>7, <1>9, StoreStep

\* An execution with one save less under way is in order.
LEMMA SaveDone ==
  ASSUME NEW e, ExecOK(e, msgs), NEW f \in Exec, e.job # NoJob, f.job = e.job, f.cur = e.cur,
         f.worker = e.worker, f.saves \subseteq e.saves
  PROVE  ExecOK(f, msgs)
BY DEF ExecOK

\* The execution's own row is stored.
LEMMA StoreExec ==
  ASSUME Inv, loaded, Store, Head(writes).by = "exec"
  PROVE  Inv'
<1> DEFINE w == Head(writes)
           rest == Tail(writes)
           rows == w.rows
           d == Put(disk, rows)
           f == [exec EXCEPT !.saves = @ \ {"job"}]
<1>1. /\ writes # <<>> /\ UNCHANGED <<stored, file, msgs, edited, faults>>
      /\ disk' = d /\ loaded' = TRUE /\ Continue(f, rest)
  BY DEF Store
<1>2. /\ Known(mem) /\ queue \in Seq(Jobs) /\ WritesOK(writes)
      /\ LoadOK(writes, exec, TRUE) /\ ExecOK(exec, msgs) /\ OwnWrites(writes, exec)
      /\ TakenBack(disk, mem, writes, exec) /\ faults \in 0..MaxFaults
  BY DEF Inv, Rest
<1>3. /\ w = writes[1] /\ 1 \in 1..Len(writes) /\ Len(writes) \in Nat /\ Len(rest) = Len(writes) - 1
      /\ \A i \in 1..Len(rest) : rest[i] = writes[i + 1] /\ i + 1 \in 1..Len(writes)
  BY <1>1, <1>2, FirstWrite
<1>4. /\ exec.job # NoJob /\ rows = One(exec.job, exec.cur)
      /\ \A k \in 2..Len(writes) : writes[k].by # "exec"
      /\ exec.cur.state # "succeeded" =>
           \A k \in 2..Len(writes) : NoSuccess(writes[k].rows, exec.job)
  BY <1>2, <1>3 DEF OwnWrites
<1>5. /\ \A i \in 1..Len(rest) : rest[i].by # "exec"
      /\ exec.cur.state # "succeeded" =>
           \A i \in 1..Len(rest) : NoSuccess(rest[i].rows, exec.job)
  <2>1. \A i \in 1..Len(rest) : rest[i] = writes[i + 1] /\ i + 1 \in 2..Len(writes)
    BY <1>3
  <2> HIDE DEF rest, rows, w
  <2>2. \A i \in 1..Len(rest) : rest[i].by # "exec"
    BY <1>4, <2>1
  <2>3. ASSUME exec.cur.state # "succeeded", NEW i \in 1..Len(rest)
        PROVE  NoSuccess(rest[i].rows, exec.job)
    BY <1>4, <2>1, <2>3
  <2>4. QED
    BY <2>2, <2>3
<1>6. /\ Known(d) /\ TakenBack(d, mem, rest, exec) /\ TableOK(rows) /\ WritesOK(rest)
  BY <1>1, StoredKeeps
<1>7. LoadOK(rest, exec, TRUE)
  BY <1>1, <1>2, RestKeeps
<1>8. d[exec.job] = exec.cur
  <2>1. exec.job \in Jobs
    BY <1>2, <1>4 DEF ExecOK, Exec
  <2>2. QED
    BY <1>4, <2>1 DEF Put, One
<1>9. /\ ExecOK(f, msgs) /\ f.job = exec.job /\ f.cur = exec.cur /\ f.worker = exec.worker
  <2>1. /\ f \in Exec /\ f.job = exec.job /\ f.cur = exec.cur /\ f.worker = exec.worker
        /\ f.saves \subseteq exec.saves
    BY <1>2 DEF ExecOK, Exec
  <2> HIDE DEF f
  <2>2. QED
    BY <1>2, <1>4, <2>1, SaveDone
<1>10. exec.worker = "none" => exec.cur.state # "succeeded"
  BY <1>2 DEF ExecOK, Ends
<1> HIDE DEF d, rest, rows, w, f
<1>11. LoadOK(rest, f, TRUE) /\ OwnWrites(rest, f) /\ TakenBack(d, mem, rest, f)
  <2>1. LoadOK(rest, f, TRUE)
    BY <1>7 DEF LoadOK
  <2>2. OwnWrites(rest, f)
    BY <1>5 DEF OwnWrites
  <2>3. TakenBack(d, mem, rest, f)
    BY <1>6, <1>9 DEF TakenBack
  <2>4. QED
    BY <2>1, <2>2, <2>3
<1>12. f.worker = "none" => /\ d[f.job].state # "succeeded"
                            /\ \A i \in 1..Len(rest) : NoSuccess(rest[i].rows, f.job)
  <2>1. SUFFICES ASSUME f.worker = "none"
                 PROVE  /\ d[exec.job].state # "succeeded"
                        /\ \A i \in 1..Len(rest) : NoSuccess(rest[i].rows, exec.job)
    BY <1>9
  <2>2. exec.cur.state # "succeeded"
    BY <1>9, <1>10, <2>1
  <2>3. QED
    BY <1>5, <1>8, <2>2
<1>13. /\ Known(mem') /\ queue' \in Seq(Jobs) /\ WritesOK(writes')
       /\ LoadOK(writes', exec', TRUE) /\ ExecOK(exec', msgs)
       /\ OwnWrites(writes', exec') /\ TakenBack(d, mem', writes', exec')
  BY <1>1, <1>2, <1>4, <1>6, <1>9, <1>11, <1>12, ContinueKeeps
<1>14. QED
  BY <1>1, <1>6, <1>13, StoreStep

\* The first of the writes is stored.
LEMMA StoreKeeps ==
  ASSUME Inv, Store
  PROVE  Inv'
<1>1. writes # <<>> /\ WritesOK(writes) /\ loaded \in BOOLEAN
  BY DEF Inv, Store, LoadOK
<1>2. Head(writes).by \in Reasons
  BY <1>1, FirstWrite
<1>3. CASE ~loaded \/ Head(writes).by = "recover"
  BY <1>3, StoreRecover
<1>4. CASE loaded /\ Head(writes).by = "lookup"
  BY <1>4, StoreLookup
<1>5. CASE loaded /\ Head(writes).by = "exec"
  BY <1>5, StoreExec
<1>6. CASE loaded /\ Head(writes).by \in {"cancel", "batch", "retry", "stale"}
  BY <1>6, StoreOfUser
<1>7. QED
  BY <1>1, <1>2, <1>3, <1>4, <1>5, <1>6 DEF Reasons

\* The artifact of a success is stored.
LEMMA StoreArtifactKeeps ==
  ASSUME Inv, StoreArtifact
  PROVE  Inv'
<1> DEFINE f == [exec EXCEPT !.saves = @ \ {"artifact"}]
<1>1. /\ "artifact" \in exec.saves /\ Continue(f, writes) /\ stored' = stored \cup {exec.job}
      /\ UNCHANGED <<disk, file, msgs, loaded, edited, faults>>
  BY DEF StoreArtifact
<1>2. /\ Rest /\ Known(disk) /\ Known(mem) /\ queue \in Seq(Jobs) /\ WritesOK(writes)
      /\ LoadOK(writes, exec, loaded) /\ ExecOK(exec, msgs) /\ OwnWrites(writes, exec)
      /\ TakenBack(disk, mem, writes, exec) /\ faults \in 0..MaxFaults /\ stored \subseteq Jobs
      /\ edited \in BOOLEAN
  BY DEF Inv, Rest
<1>3. exec.job # NoJob /\ exec # NoExec
  BY <1>1, <1>2, NoExecOK DEF ExecOK
<1>4. loaded = TRUE /\ exec.job \in Jobs
  BY <1>2, <1>3 DEF LoadOK, ExecOK, Exec
<1>5. /\ ExecOK(f, msgs) /\ f.job = exec.job /\ f.cur = exec.cur /\ f.worker = exec.worker
      /\ f.saves = exec.saves \ {"artifact"}
  <2>1. /\ f \in Exec /\ f.job = exec.job /\ f.cur = exec.cur /\ f.worker = exec.worker
        /\ f.saves = exec.saves \ {"artifact"}
    BY <1>2 DEF ExecOK, Exec
  <2> HIDE DEF f
  <2>2. QED
    BY <1>2, <1>3, <2>1, SaveDone
<1>6. exec.worker # "none"
  BY <1>1, <1>2 DEF ExecOK, Ends
<1> HIDE DEF f
<1>7. LoadOK(writes, f, TRUE) /\ OwnWrites(writes, f) /\ TakenBack(disk, mem, writes, f)
  BY <1>2, <1>4, <1>5 DEF LoadOK, OwnWrites, TakenBack
<1>8. /\ Known(mem') /\ queue' \in Seq(Jobs) /\ WritesOK(writes')
      /\ LoadOK(writes', exec', TRUE) /\ ExecOK(exec', msgs)
      /\ OwnWrites(writes', exec') /\ TakenBack(disk, mem', writes', exec')
  BY <1>1, <1>2, <1>3, <1>5, <1>6, <1>7, ContinueKeeps
<1>9. /\ stored' \subseteq Jobs /\ edited' \in BOOLEAN /\ Known(disk') /\ loaded'
      /\ LoadOK(writes', exec', loaded') /\ ExecOK(exec', msgs')
      /\ TakenBack(disk', mem', writes', exec')
  BY <1>1, <1>2, <1>4, <1>8
<1>10. QED
  BY <1>1, <1>2, <1>8, <1>9, StepKeeps

\* A success is done.
LEMMA FinishKeeps ==
  ASSUME Inv, Finish
  PROVE  Inv'
<1>1. /\ exec.job # NoJob /\ exec.cur.state = "succeeded" /\ exec.saves = {}
      /\ StartNext(mem, queue, writes)
      /\ UNCHANGED <<disk, stored, file, mem, msgs, loaded, edited, faults>>
  BY DEF Finish, Running
<1>2. /\ Rest /\ Known(disk) /\ Known(mem) /\ queue \in Seq(Jobs) /\ WritesOK(writes)
      /\ LoadOK(writes, exec, loaded) /\ ExecOK(exec, msgs) /\ OwnWrites(writes, exec)
      /\ faults \in 0..MaxFaults /\ stored \subseteq Jobs /\ edited \in BOOLEAN
  BY DEF Inv, Rest
<1>3. loaded = TRUE
  BY <1>1, <1>2, NoExecOK DEF LoadOK
<1>4. msgs = <<>>
  BY <1>1, <1>2 DEF ExecOK, Ends
<1>5. LoadOK(writes, NoExec, TRUE) /\ OwnWrites(writes, NoExec)
  BY <1>1, <1>2, <1>3 DEF LoadOK, OwnWrites
<1>6. /\ queue' \in Seq(Jobs) /\ WritesOK(writes') /\ LoadOK(writes', exec', TRUE)
      /\ ExecOK(exec', <<>>) /\ OwnWrites(writes', exec') /\ TakenBack(disk, mem, writes', exec')
  BY <1>1, <1>2, <1>5, StartNextKeeps
<1>7. /\ stored' \subseteq Jobs /\ edited' \in BOOLEAN /\ Known(disk') /\ Known(mem') /\ loaded'
      /\ LoadOK(writes', exec', loaded') /\ ExecOK(exec', msgs')
      /\ TakenBack(disk', mem', writes', exec')
  BY <1>1, <1>2, <1>3, <1>4, <1>6
<1>8. QED
  BY <1>1, <1>2, <1>6, <1>7, StepKeeps

-----------------------------------------------------------------------------
(* The worker and its messages *)

\* What is said after one message more.
LEMMA SaidMore ==
  ASSUME NEW S, NEW ms \in Seq(S), NEW x \in S
  PROVE  /\ Append(ms, x) \in Seq(S)
         /\ \A what : Said(Append(ms, x), what) => Said(ms, what) \/ what = x
<1> DEFINE more == Append(ms, x)
           n == Len(ms)
<1>1. /\ more \in Seq(S) /\ n \in Nat /\ Len(more) = n + 1
      /\ (\A i \in 1..n : more[i] = ms[i]) /\ more[n + 1] = x
  BY AppendProperties, LenProperties
<1> HIDE DEF more
<1>2. ASSUME NEW what, Said(more, what) PROVE Said(ms, what) \/ what = x
  <2>1. PICK i \in 1..Len(more) : more[i] = what
    BY <1>2 DEF Said
  <2>2. i \in 1..n \/ i = n + 1
    BY <1>1, <2>1
  <2>3. QED
    BY <1>1, <2>1, <2>2 DEF Said
<1>3. QED
  BY <1>1, <1>2 DEF more

\* What is said after the first message was handled.
LEMMA SaidLess ==
  ASSUME NEW S, NEW ms \in Seq(S), ms # <<>>
  PROVE  /\ Tail(ms) \in Seq(S) /\ Head(ms) \in S /\ Said(ms, Head(ms))
         /\ \A what : Said(Tail(ms), what) => Said(ms, what)
<1> DEFINE rest == Tail(ms)
           n == Len(ms)
<1>1. /\ rest \in Seq(S) /\ Len(rest) = n - 1 /\ n \in Nat /\ n >= 1 /\ Head(ms) \in S
      /\ (\A i \in 1..Len(rest) : rest[i] = ms[i + 1]) /\ Head(ms) = ms[1]
  BY HeadTailProperties, EmptySeq, LenProperties
<1> HIDE DEF rest
<1>2. ASSUME NEW what, Said(rest, what) PROVE Said(ms, what)
  <2>1. PICK i \in 1..Len(rest) : rest[i] = what
    BY <1>2 DEF Said
  <2>2. i + 1 \in 1..n /\ ms[i + 1] = what
    BY <1>1, <2>1
  <2>3. QED
    BY <2>2 DEF Said
<1>3. Said(ms, Head(ms))
  BY <1>1 DEF Said
<1>4. QED
  BY <1>1, <1>2, <1>3 DEF rest

\* What is known of an execution whose worker is at work.
LEMMA AtWork ==
  ASSUME Inv, Running, exec.worker \in {"fresh", "writing", "written"}
  PROVE  /\ exec \in Exec /\ exec.job \in Jobs /\ RowOK(exec.job, exec.cur)
         /\ exec.cur.state \in Active /\ exec.cur.state \notin Ends /\ exec.cur.state # "succeeded"
         /\ msgs \in Seq({"progress"} \cup Ends) /\ \A what \in Ends : ~Said(msgs, what)
         /\ loaded = TRUE
<1>1. ExecOK(exec, msgs) /\ LoadOK(writes, exec, loaded) /\ exec.job # NoJob
  BY DEF Inv, Running
<1>2. \A what \in Ends : ~Said(msgs, what)
  BY <1>1 DEF ExecOK
<1>3. exec.cur.state \notin Ends /\ exec.cur.state \in Active \cup Ends
  BY <1>1 DEF ExecOK
<1>4. exec # NoExec
  BY DEF Running, NoExec
<1>5. QED
  BY <1>1, <1>2, <1>3, <1>4 DEF ExecOK, LoadOK, Exec, Ends

\* A step of the worker changes only the file of its job, of which nothing holds a
\* success.
LEMMA WorkerStep ==
  ASSUME Inv, Running, exec.worker \in {"fresh", "writing", "written"},
         NEW w \in Workers \ {"none"}, NEW content \in {"none", "partial", "whole"},
         Step(w, content), UNCHANGED <<disk, stored, mem, writes, queue, loaded, edited>>,
         faults' \in 0..MaxFaults, faults <= faults',
         msgs' \in Seq({"progress"} \cup Ends),
         \A what \in Ends : Said(msgs', what) => w = "ended",
         Said(msgs', "failed") => exec.cur.attempt <= faults',
         w = "written" \/ Said(msgs', "succeeded") => content = "whole"
  PROVE  Inv'
<1>1. /\ Rest /\ Known(disk) /\ Known(mem) /\ queue \in Seq(Jobs) /\ WritesOK(writes)
      /\ LoadOK(writes, exec, loaded) /\ ExecOK(exec, msgs)
      /\ OwnWrites(writes, exec) /\ TakenBack(disk, mem, writes, exec)
      /\ faults \in 0..MaxFaults
  BY DEF Inv, Rest
<1>2. /\ exec \in Exec /\ exec.job \in Jobs /\ RowOK(exec.job, exec.cur)
      /\ exec.cur.state \in Active /\ exec.cur.state \notin Ends /\ exec.cur.state # "succeeded"
      /\ loaded = TRUE
  BY AtWork
<1>3. /\ exec'.job = exec.job /\ exec'.cur = exec.cur /\ exec'.saves = exec.saves
      /\ exec'.worker = w /\ exec' \in Exec
  BY <1>2 DEF Step, Exec
<1>4. /\ file' \in [Jobs -> {"none", "partial", "whole"}] /\ file'[exec.job] = content
      /\ \A j \in Jobs : j # exec.job => file'[j] = file[j]
  BY <1>1, <1>2 DEF Step, Rest
<1>5. ASSUME NEW j \in Jobs, NEW r, RowOK(j, r), j = exec.job => r.state # "succeeded"
      PROVE  RowOK(j, r)'
  <2>1. r.attempt \in Int
    BY <1>5, RenderAssumption DEF RowOK, Rows, MaxAttempt
  <2>2. QED
    BY <1>1, <1>4, <1>5, <2>1 DEF RowOK
<1>6. /\ disk[exec.job].state # "succeeded" /\ mem[exec.job].state # "succeeded"
      /\ \A i \in 1..Len(writes) : NoSuccess(writes[i].rows, exec.job)
  BY <1>1, <1>2, RenderAssumption DEF TakenBack
<1>7. Rest'
  BY <1>1, <1>4 DEF Rest
<1>8. Known(disk)' /\ Known(mem)'
  BY <1>1, <1>5, <1>6 DEF Known
<1>9. WritesOK(writes)'
  <2>1. ASSUME NEW i \in 1..Len(writes) PROVE TableOK(writes[i].rows)'
    <3>1. TableOK(writes[i].rows)
      BY <1>1 DEF WritesOK
    <3>2. DOMAIN writes[i].rows \subseteq Jobs
      BY <3>1 DEF TableOK, Tables
    <3>3. \A j \in DOMAIN writes[i].rows : RowOK(j, writes[i].rows[j])'
      BY <1>5, <1>6, <3>1, <3>2 DEF TableOK, NoSuccess
    <3>4. writes' = writes
      OBVIOUS
    <3>5. QED
      BY <3>1, <3>3, <3>4 DEF TableOK
  <2>2. QED
    BY <1>1, <2>1 DEF WritesOK
<1>10. ExecOK(exec, msgs)'
  <2>1. RowOK(exec.job, exec.cur)'
    BY <1>2, <1>3, <1>5
  <2>2. "artifact" \notin exec.saves
    BY <1>1, <1>2 DEF ExecOK
  <2>3. QED
    BY <1>2, <1>3, <1>4, <2>1, <2>2, RenderAssumption DEF ExecOK
<1>11. LoadOK(writes, exec, loaded)'
  BY <1>1, <1>2 DEF LoadOK
<1>12. OwnWrites(writes, exec)'
  BY <1>1, <1>3 DEF OwnWrites
<1>13. TakenBack(disk, mem, writes, exec)'
  BY <1>3, <1>6 DEF TakenBack
<1>14. Attempts' /\ (queue \in Seq(Jobs))'
  BY <1>1, <1>2 DEF Attempts
<1>15. QED
  BY <1>7, <1>8, <1>9, <1>10, <1>11, <1>12, <1>13, <1>14 DEF Inv

\* The worker opens the file, writes it, and stops or fails.
LEMMA WorkerActionKeeps ==
  ASSUME Inv, Open \/ Finalize \/ Report \/ Stop \/ Fail
  PROVE  Inv'
<1> USE DEF At, WorkerKeeps, Says
<1>1. /\ Running /\ exec.worker \in {"fresh", "writing", "written"}
      /\ UNCHANGED <<disk, stored, mem, writes, queue, loaded, edited>>
  BY DEF Open, Finalize, Report, Verified, Stop, Fail
<1>2. /\ exec.job \in Jobs /\ RowOK(exec.job, exec.cur)
      /\ msgs \in Seq({"progress"} \cup Ends) /\ \A what \in Ends : ~Said(msgs, what)
  BY <1>1, AtWork
<1>3. /\ faults \in 0..MaxFaults /\ file[exec.job] \in {"none", "partial", "whole"}
      /\ faults \in Nat /\ exec.cur.attempt \in Nat /\ exec.cur.attempt <= 1 + faults
  BY <1>2, RenderAssumption DEF Inv, Rest, RowOK, Rows, MaxAttempt
<1>4. \A x \in Ends : /\ Append(msgs, x) \in Seq({"progress"} \cup Ends)
                      /\ \A what \in Ends : Said(Append(msgs, x), what) => what = x
  BY <1>2, SaidMore
<1>5. "succeeded" \in Ends /\ "failed" \in Ends /\ "cancelled" \in Ends
  BY DEF Ends
<1>6. CASE Open
  <2>1. Step("writing", "partial") /\ msgs' = msgs /\ faults' = faults
    BY <1>6 DEF Open
  <2>2. QED
    BY <1>1, <1>2, <1>3, <1>5, <2>1, WorkerStep DEF Workers
<1>7. CASE Finalize
  <2>1. Step("written", "whole") /\ msgs' = msgs /\ faults' = faults
    BY <1>7 DEF Finalize
  <2>2. QED
    BY <1>1, <1>2, <1>3, <1>5, <2>1, WorkerStep DEF Workers
<1>8. CASE Report
  <2>1. /\ Step("ended", file[exec.job]) /\ msgs' = Append(msgs, "succeeded") /\ faults' = faults
        /\ exec.worker = "written"
    BY <1>8 DEF Report, Verified
  <2>2. file[exec.job] = "whole"
    BY <2>1 DEF Inv, ExecOK
  <2>3. /\ msgs' \in Seq({"progress"} \cup Ends) /\ ~Said(msgs', "failed")
    BY <1>4, <1>5, <2>1
  <2>4. QED
    BY <1>1, <1>3, <2>1, <2>2, <2>3, WorkerStep DEF Workers
<1>9. CASE Stop
  <2>1. Step("ended", "none") /\ msgs' = Append(msgs, "cancelled") /\ faults' = faults
    BY <1>9 DEF Stop
  <2>2. /\ msgs' \in Seq({"progress"} \cup Ends) /\ ~Said(msgs', "failed") /\ ~Said(msgs', "succeeded")
    BY <1>4, <1>5, <2>1
  <2>3. QED
    BY <1>1, <1>3, <2>1, <2>2, WorkerStep DEF Workers
<1>10. CASE Fail
  <2>1. PICK left \in {"none", file[exec.job]} : Step("ended", left)
    BY <1>10 DEF Fail
  <2>2. msgs' = Append(msgs, "failed") /\ faults' = faults + 1 /\ faults < MaxFaults
    BY <1>10 DEF Fail, Fault
  <2>3. /\ msgs' \in Seq({"progress"} \cup Ends) /\ ~Said(msgs', "succeeded")
    BY <1>4, <1>5, <2>2
  <2>4. faults' \in 0..MaxFaults /\ faults <= faults' /\ exec.cur.attempt <= faults'
    BY <1>3, <2>2, RenderAssumption
  <2>5. left \in {"none", "partial", "whole"}
    BY <1>3, <2>1
  <2>6. QED
    BY <1>1, <2>1, <2>3, <2>4, <2>5, WorkerStep DEF Workers
<1>11. QED
  BY <1>6, <1>7, <1>8, <1>9, <1>10

\* The worker reports that it goes on.
LEMMA ProgressKeeps ==
  ASSUME Inv, Progress
  PROVE  Inv'
<1>1. /\ Running /\ exec.worker = "writing" /\ msgs' = Append(msgs, "progress")
      /\ UNCHANGED <<disk, stored, file, mem, writes, queue, exec, loaded, edited, faults>>
  BY DEF Progress, At, Says, WorkerKeeps
<1>2. /\ Rest /\ Known(disk) /\ Known(mem) /\ queue \in Seq(Jobs) /\ WritesOK(writes)
      /\ LoadOK(writes, exec, loaded) /\ ExecOK(exec, msgs) /\ OwnWrites(writes, exec)
      /\ TakenBack(disk, mem, writes, exec) /\ stored \subseteq Jobs /\ edited \in BOOLEAN
  BY DEF Inv, Rest
<1>3. /\ loaded = TRUE /\ exec.cur.state \notin Ends /\ msgs \in Seq({"progress"} \cup Ends)
      /\ \A what \in Ends : ~Said(msgs, what)
  BY <1>1, AtWork
<1>4. /\ msgs' \in Seq({"progress"} \cup Ends) /\ \A what \in Ends : ~Said(msgs', what)
  <2>1. "progress" \in {"progress"} \cup Ends /\ "progress" \notin Ends
    BY DEF Ends
  <2>2. QED
    BY <1>1, <1>3, <2>1, SaidMore
<1>5. ExecOK(exec, msgs')
  BY <1>1, <1>2, <1>3, <1>4 DEF ExecOK, Ends
<1>6. /\ stored' \subseteq Jobs /\ edited' \in BOOLEAN /\ Known(disk') /\ Known(mem') /\ loaded'
      /\ queue' \in Seq(Jobs) /\ WritesOK(writes') /\ LoadOK(writes', exec', loaded')
      /\ ExecOK(exec', msgs') /\ OwnWrites(writes', exec') /\ TakenBack(disk', mem', writes', exec')
  BY <1>1, <1>2, <1>3, <1>5
<1>7. QED
  BY <1>1, <1>2, <1>6, StepKeeps

\* The execution handles a message: its next row is the last of the writes.
LEMMA HandleKeeps ==
  ASSUME Inv, Handle
  PROVE  Inv'
<1> DEFINE said == Head(msgs)
           s == IF said = "progress" THEN "running" ELSE said
           r == To(exec.cur, s)
           j == exec.job
           n == Len(writes)
           saves == IF said = "succeeded" THEN {"job", "artifact"} ELSE {"job"}
           e == [exec EXCEPT !.cur = r, !.saves = saves]
           left == IF said = "progress" THEN Tail(msgs) ELSE <<>>
           rows == One(j, r)
<1>1. /\ msgs # <<>> /\ exec.saves = {} /\ exec.cur.state \in Active
      /\ exec' = e /\ writes' = Saved(writes, "exec", rows) /\ msgs' = left
      /\ UNCHANGED <<disk, stored, file, mem, queue, loaded, edited, faults>>
  BY DEF Handle
<1>2. /\ Rest /\ Known(disk) /\ Known(mem) /\ queue \in Seq(Jobs) /\ WritesOK(writes)
      /\ LoadOK(writes, exec, loaded) /\ ExecOK(exec, msgs) /\ OwnWrites(writes, exec)
      /\ TakenBack(disk, mem, writes, exec) /\ stored \subseteq Jobs /\ edited \in BOOLEAN
  BY DEF Inv, Rest
<1>3. /\ exec \in Exec /\ exec.worker # "none" /\ exec.cur.state \notin Ends
      /\ msgs \in Seq({"progress"} \cup Ends)
  BY <1>1, <1>2 DEF ExecOK, Active, Ends
<1>4. j # NoJob /\ j \in Jobs /\ RowOK(j, exec.cur) /\ loaded = TRUE
  <2>1. exec # NoExec /\ j # NoJob
    BY <1>2, <1>3 DEF NoExec, ExecOK
  <2>2. QED
    BY <1>2, <1>3, <2>1 DEF LoadOK, ExecOK, Exec
<1>5. /\ said \in {"progress"} \cup Ends /\ Said(msgs, said)
      /\ left \in Seq({"progress"} \cup Ends) /\ \A what : Said(left, what) => Said(msgs, what)
      /\ said \in Ends => left = <<>>
  <2>1. /\ Tail(msgs) \in Seq({"progress"} \cup Ends) /\ Head(msgs) \in {"progress"} \cup Ends
        /\ Said(msgs, Head(msgs)) /\ \A what : Said(Tail(msgs), what) => Said(msgs, what)
    BY <1>1, <1>3, SaidLess
  <2>2. \A what : ~Said(<<>>, what)
    BY DEF Said
  <2>3. <<>> \in Seq({"progress"} \cup Ends) /\ "progress" \notin Ends
    BY DEF Ends
  <2>4. QED
    BY <2>1, <2>2, <2>3
<1>6. /\ r \in Rows /\ r.state = s /\ r.attempt = exec.cur.attempt
      /\ s \in Active \cup Ends /\ (s \in Ends => s = said) /\ RowOK(j, r)
  <2>1. s \in Active \cup Ends /\ s \in States /\ (s \in Ends => s = said)
    BY <1>5 DEF Active, Ends, States, Terminal
  <2>2. r \in Rows /\ r.state = s /\ r.attempt = exec.cur.attempt
    <3> HIDE DEF s
    <3>1. QED
      BY <1>4, <2>1, RowMade DEF RowOK
  <2>3. s = "failed" => r.attempt <= faults
    BY <1>2, <1>5, <2>1, <2>2 DEF ExecOK, Ends
  <2>4. s = "succeeded" => file[j] = "whole"
    BY <1>2, <1>5, <2>1 DEF ExecOK, Ends
  <2> HIDE DEF r, s
  <2>5. QED
    BY <1>4, <2>1, <2>2, <2>3, <2>4 DEF RowOK
<1> HIDE DEF r
<1>7. /\ e \in Exec /\ e.job = j /\ e.cur = r /\ e.worker = exec.worker /\ e.saves = saves
  BY <1>3, <1>6 DEF Exec
<1> HIDE DEF e
<1>8. /\ WritesOK(writes') /\ n \in Nat /\ Len(writes') = n + 1
      /\ \A i \in 1..n : writes'[i] = writes[i]
      /\ writes'[n + 1].by = "exec" /\ writes'[n + 1].rows = rows
  <2>1. TableOK(rows) /\ UserShows("exec", rows) /\ "exec" \in Reasons
    BY <1>4, <1>6, OneTable DEF UserShows, Reasons
  <2> DEFINE more == Saved(writes, "exec", rows)
  <2> HIDE DEF rows
  <2>2. /\ WritesOK(more) /\ Len(writes) \in Nat /\ Len(more) = Len(writes) + 1
        /\ \A i \in 1..Len(writes) : more[i] = writes[i]
        /\ more[Len(writes) + 1].by = "exec" /\ more[Len(writes) + 1].rows = rows
    BY <1>2, <2>1, SavedWrites
  <2>3. writes' = more
    BY <1>1
  <2> HIDE DEF more
  <2>4. QED
    BY <2>2, <2>3
<1>9. \A i \in 1..n : writes[i].by # "exec" /\ writes[i].by # "recover"
  BY <1>1, <1>2, <1>4 DEF OwnWrites, LoadOK
<1> HIDE DEF n
<1>10. \A i \in 1..Len(writes') : i \in 1..n \/ i = n + 1
  BY <1>8
<1>11. LoadOK(writes', e, TRUE)
  BY <1>8, <1>9, <1>10 DEF LoadOK
<1>12. OwnWrites(writes', e)
  <2>1. \A i \in 1..Len(writes') : writes'[i].by = "exec" => i = n + 1
    BY <1>8, <1>9, <1>10
  <2>2. "job" \in e.saves
    BY <1>7
  <2>3. \A k \in ((n + 1) + 1)..Len(writes') : FALSE
    BY <1>8
  <2>4. QED
    BY <1>4, <1>7, <1>8, <2>1, <2>2, <2>3 DEF OwnWrites
<1>13. TakenBack(disk, mem, writes', e)
  <2>1. SUFFICES ASSUME r.state # "succeeded"
                 PROVE  /\ mem[j].state # "succeeded" /\ disk[j].state # "succeeded"
                        /\ \A i \in 1..Len(writes') : NoSuccess(writes'[i].rows, j)
    BY <1>7 DEF TakenBack
  <2>2. /\ mem[j].state # "succeeded" /\ disk[j].state # "succeeded"
        /\ \A i \in 1..n : NoSuccess(writes[i].rows, j)
    BY <1>2, <1>3, <1>4 DEF TakenBack, Ends, n
  <2>3. NoSuccess(rows, j)
    BY <2>1 DEF NoSuccess, One
  <2>4. QED
    BY <1>8, <1>10, <2>2, <2>3
<1>14. ExecOK(e, left)
  <2>1. e.job # NoJob /\ RowOK(e.job, e.cur) /\ e.cur.state \in Active \cup Ends
    BY <1>4, <1>6, <1>7
  <2>2. \A what \in Ends : Said(left, what) => e.worker = "ended"
    BY <1>2, <1>5, <1>7 DEF ExecOK
  <2>3. Said(left, "failed") => e.cur.attempt <= faults
    BY <1>2, <1>5, <1>6, <1>7 DEF ExecOK
  <2>4. e.worker = "written" \/ Said(left, "succeeded") => file[e.job] = "whole"
    BY <1>2, <1>5, <1>7 DEF ExecOK
  <2>5. e.cur.state \in Ends => e.worker = "ended" /\ left = <<>>
    BY <1>2, <1>5, <1>6, <1>7 DEF ExecOK
  <2>6. "artifact" \in e.saves => e.cur.state = "succeeded"
    BY <1>6, <1>7 DEF Ends
  <2> HIDE DEF left
  <2>7. QED
    BY <1>3, <1>5, <1>7, <2>1, <2>2, <2>3, <2>4, <2>5, <2>6 DEF ExecOK
<1> HIDE DEF left
<1>15. /\ stored' \subseteq Jobs /\ edited' \in BOOLEAN /\ Known(disk') /\ Known(mem') /\ loaded'
       /\ queue' \in Seq(Jobs) /\ LoadOK(writes', exec', loaded')
       /\ ExecOK(exec', msgs') /\ OwnWrites(writes', exec') /\ TakenBack(disk', mem', writes', exec')
  BY <1>1, <1>2, <1>4, <1>11, <1>12, <1>13, <1>14
<1>16. QED
  BY <1>1, <1>2, <1>8, <1>15, StepKeeps

-----------------------------------------------------------------------------
(* Reloads *)

\* A row that is in order is so after one more fault, and has an attempt to spare.
LEMMA RowAfterFault ==
  ASSUME NEW j, NEW r, RowOK(j, r), file' = file, faults \in Nat, faults' = faults + 1
  PROVE  RowOK(j, r)' /\ r.attempt <= faults'
<1>1. r.attempt \in Int /\ r.attempt <= 1 + faults
  BY RenderAssumption DEF RowOK, Rows, MaxAttempt
<1>2. QED
  BY <1>1 DEF RowOK

\* The page is reloaded: only what was stored is left.
LEMMA ReloadKeeps ==
  ASSUME Inv, Reload
  PROVE  Inv'
<1>1. /\ loaded' = FALSE /\ mem' = [j \in Jobs |-> NoRow] /\ exec' = NoExec /\ queue' = <<>>
      /\ msgs' = <<>> /\ writes' = <<>> /\ faults' = faults + 1 /\ faults < MaxFaults
      /\ UNCHANGED <<disk, stored, file, edited>>
  BY DEF Reload, Fault
<1>2. /\ Rest /\ Known(disk) /\ faults \in 0..MaxFaults /\ faults \in Nat
      /\ faults' \in 0..MaxFaults
  BY <1>1, RenderAssumption DEF Inv, Rest
<1>3. Rest'
  BY <1>1, <1>2 DEF Rest
<1>4. \A j, r : RowOK(j, r) => RowOK(j, r)' /\ r.attempt <= faults'
  BY <1>1, <1>2, RowAfterFault
<1>5. Known(disk)' /\ Attempts'
  BY <1>1, <1>2, <1>4 DEF Known, Attempts
<1>6. \A j : RowOK(j, NoRow)' /\ NoRow \in Rows
  BY <1>2, <1>4, RowNew DEF RowOK
<1>7. Known(mem)'
  BY <1>1, <1>6 DEF Known
<1>8. /\ ExecOK(NoExec, <<>>) /\ NoExec.job = NoJob /\ NoExec.cur = NoRow
      /\ NoExec.cur.state = "absent" /\ NoExec.worker = "none"
  BY <1>2, NoExecOK, RowNew
<1>9. ExecOK(exec, msgs)'
  <2>1. \A what : ~Said(msgs', what)
    BY <1>1 DEF Said
  <2>2. exec' \in Exec /\ msgs' \in Seq({"progress"} \cup Ends)
    BY <1>1, <1>8 DEF ExecOK
  <2>3. "artifact" \notin exec'.saves
    BY <1>1 DEF NoExec
  <2>4. QED
    BY <1>1, <1>8, <2>1, <2>2, <2>3 DEF ExecOK, Ends
<1>10. Len(<<>>) = 0 /\ <<>> \in Seq(Write) /\ <<>> \in Seq(Jobs)
  OBVIOUS
<1>11. WritesOK(writes)' /\ LoadOK(writes, exec, loaded)' /\ OwnWrites(writes, exec)'
  <2>1. Len(writes') = 0 /\ \A i \in 1..Len(writes') : FALSE
    BY <1>1, <1>10
  <2>2. WritesOK(writes)'
    BY <1>1, <1>10, <2>1 DEF WritesOK
  <2>3. LoadOK(writes, exec, loaded)'
    <3>1. loaded' = FALSE /\ exec' = NoExec /\ NoExec' = NoExec
      BY <1>1 DEF NoExec, NoRow
    <3>2. Len(writes') <= 1
      BY <2>1
    <3>3. QED
      BY <2>1, <3>1, <3>2 DEF LoadOK
  <2>4. OwnWrites(writes, exec)'
    BY <2>1 DEF OwnWrites
  <2>5. QED
    BY <2>2, <2>3, <2>4
<1>12. TakenBack(disk, mem, writes, exec)' /\ (queue \in Seq(Jobs))'
  BY <1>1, <1>8, <1>10 DEF TakenBack
<1>13. QED
  BY <1>3, <1>5, <1>7, <1>9, <1>11, <1>12 DEF Inv

\* What a recovery makes of a stored row.
LEMMA RowRecovered ==
  ASSUME faults \in 0..MaxFaults, NEW j, NEW r, RowOK(j, r), r.attempt <= faults
  PROVE  RowOK(j, Marked(Recovered(r)))
<1>1. RowOK(j, Recovered(r))
  BY RowRequeued DEF Recovered
<1>2. QED
  BY <1>1, RowStale DEF Marked

\* The page asks for the write of what it has recovered.
LEMMA RecoverKeeps ==
  ASSUME Inv, Recover
  PROVE  Inv'
<1> DEFINE rows == [j \in Jobs |-> Marked(Recovered(disk[j]))]
<1>1. /\ ~loaded /\ (\A i \in DOMAIN writes : writes[i].by # "recover")
      /\ writes' = Saved(writes, "recover", rows)
      /\ UNCHANGED <<disk, stored, file, mem, queue, exec, msgs, loaded, edited, faults>>
  BY DEF Recover
<1>2. /\ Rest /\ Known(disk) /\ Known(mem) /\ queue \in Seq(Jobs) /\ WritesOK(writes)
      /\ LoadOK(writes, exec, loaded) /\ ExecOK(exec, msgs) /\ Attempts
      /\ stored \subseteq Jobs /\ edited \in BOOLEAN /\ faults \in 0..MaxFaults
  BY DEF Inv, Rest
<1>3. exec = NoExec /\ Len(writes) = 0
  <2>1. Len(writes) \in Nat /\ DOMAIN writes = 1..Len(writes)
    BY <1>2, LenProperties DEF WritesOK
  <2>2. exec = NoExec /\ \A i \in 1..Len(writes) : writes[i].by = "recover"
    BY <1>1, <1>2 DEF LoadOK
  <2>3. Len(writes) >= 1 => 1 \in 1..Len(writes)
    BY <2>1
  <2>4. QED
    BY <1>1, <2>1, <2>2, <2>3
<1>4. TableOK(rows) /\ DOMAIN rows = Jobs
  <2>1. \A j \in Jobs : RowOK(j, Marked(Recovered(disk[j])))
    BY <1>1, <1>2, RowRecovered DEF Known, Attempts
  <2>2. \A j \in Jobs : Marked(Recovered(disk[j])) \in Rows
    BY <2>1 DEF RowOK
  <2>3. QED
    BY <2>1, <2>2, TableMade
<1> HIDE DEF rows
<1>5. UserShows("recover", rows) /\ "recover" \in Reasons
  BY DEF UserShows, Reasons
<1>6. /\ WritesOK(writes') /\ Len(writes') = 1
      /\ writes'[1].by = "recover" /\ writes'[1].rows = rows
  <2> DEFINE more == Saved(writes, "recover", rows)
  <2>1. /\ WritesOK(more) /\ Len(more) = Len(writes) + 1
        /\ more[Len(writes) + 1].by = "recover" /\ more[Len(writes) + 1].rows = rows
    BY <1>2, <1>4, <1>5, SavedWrites
  <2>2. writes' = more
    BY <1>1
  <2> HIDE DEF more
  <2>3. QED
    BY <1>3, <2>1, <2>2
<1>7. \A i \in 1..Len(writes') : i = 1
  BY <1>6
<1>8. LoadOK(writes', exec, loaded)
  BY <1>1, <1>2, <1>3, <1>4, <1>6, <1>7 DEF LoadOK
<1>9. OwnWrites(writes', exec)
  BY <1>6, <1>7 DEF OwnWrites
<1>10. TakenBack(disk, mem, writes', exec)
  BY <1>2, <1>3, NoExecOK DEF TakenBack
<1>11. /\ stored' \subseteq Jobs /\ edited' \in BOOLEAN /\ Known(disk') /\ Known(mem')
       /\ queue' \in Seq(Jobs) /\ LoadOK(writes', exec', loaded') /\ ExecOK(exec', msgs')
       /\ OwnWrites(writes', exec') /\ TakenBack(disk', mem', writes', exec')
       /\ (~loaded' => \A j \in Jobs : disk'[j].attempt <= faults)
  BY <1>1, <1>2, <1>8, <1>9, <1>10 DEF Attempts
<1>12. QED
  BY <1>1, <1>2, <1>6, <1>11, StepKeeps

-----------------------------------------------------------------------------
(* The theorems *)

\* An empty board is in order.
LEMMA InitInv ==
  ASSUME Init
  PROVE  Inv
<1>1. faults = 0 /\ faults \in 0..MaxFaults
  BY RenderAssumption DEF Init
<1>2. Rest
  BY <1>1 DEF Init, Rest
<1>3. Known(disk) /\ Known(mem)
  <2>1. \A j : RowOK(j, NoRow) /\ NoRow \in Rows
    BY <1>1, RowNew DEF RowOK
  <2>2. QED
    BY <2>1 DEF Init, Known
<1>4. /\ writes = <<>> /\ queue = <<>> /\ exec = NoExec /\ msgs = <<>> /\ loaded = TRUE
  BY DEF Init
<1>5. ExecOK(exec, msgs) /\ exec.job = NoJob
  BY <1>1, <1>4, NoExecOK
<1>6. Len(<<>>) = 0 /\ <<>> \in Seq(Write) /\ <<>> \in Seq(Jobs)
  OBVIOUS
<1>7. WritesOK(writes) /\ LoadOK(writes, exec, loaded) /\ OwnWrites(writes, exec)
  BY <1>4, <1>6 DEF WritesOK, LoadOK, OwnWrites
<1>8. QED
  BY <1>2, <1>3, <1>4, <1>5, <1>6, <1>7 DEF Inv, TakenBack, Attempts

\* Every step keeps the invariant.
LEMMA NextKeeps ==
  ASSUME Inv, [Next]_vars
  PROVE  Inv'
<1>1. ASSUME NEW js \in SUBSET Jobs \ {{}}, Enqueue(js) PROVE Inv'
  BY <1>1, EnqueueKeeps
<1>2. ASSUME NEW j \in Jobs, Cancel(j) \/ Retry(j) PROVE Inv'
  BY <1>2, CancelKeeps, RetryKeeps
<1>3. CASE Edit \/ Store \/ StoreArtifact \/ Finish \/ Handle
  BY <1>3, EditKeeps, StoreKeeps, StoreArtifactKeeps, FinishKeeps, HandleKeeps
<1>4. CASE Progress \/ Reload \/ Recover
  BY <1>4, ProgressKeeps, ReloadKeeps, RecoverKeeps
<1>5. CASE Open \/ Finalize \/ Report \/ Stop \/ Fail
  BY <1>5, WorkerActionKeeps
<1>6. CASE UNCHANGED vars
  <2>1. Inv
    OBVIOUS
  <2>2. QED
    BY <1>6, <2>1 DEF vars, Inv, Rest, Known, Attempts, WritesOK, TableOK, RowOK, LoadOK,
                      ExecOK, OwnWrites, TakenBack
<1>7. QED
  BY <1>1, <1>2, <1>3, <1>4, <1>5, <1>6 DEF Next

\* The invariant holds throughout.
THEOREM RenderInvariance == Spec => []Inv
<1>1. Init => Inv
  BY InitInv
<1>2. Inv /\ [Next]_vars => Inv'
  BY NextKeeps
<1>3. QED
  BY <1>1, <1>2, PTL DEF Spec

\* Rows, records and the execution keep their types, and no job has more attempts
\* than there were faults, and one.
THEOREM RenderTypes == Spec => []TypeOK
<1>1. Inv => TypeOK
  BY DEF Inv, Rest, Known, ExecOK, Exec, TypeOK
<1>2. QED
  BY <1>1, RenderInvariance, PTL

\* A row that says succeeded has its whole file, whatever the user, the worker and
\* the page do between the start of an execution and the storing of its rows.
THEOREM SuccessIsWhole == Spec => []StoredSuccessIsWhole
<1>1. Inv => StoredSuccessIsWhole
  BY DEF Inv, Known, RowOK, StoredSuccessIsWhole
<1>2. QED
  BY <1>1, RenderInvariance, PTL
=============================================================================
