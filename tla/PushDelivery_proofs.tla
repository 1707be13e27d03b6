------------------------ MODULE PushDelivery_proofs ------------------------
(***************************************************************************)
(* Theorems of PushDelivery, for any workers, jobs, limits of attempts and *)
(* registered tokens.                                                      *)
(***************************************************************************)
EXTENDS PushDelivery, TLAPS

USE JobKinds, Bounds DEF JobKinds, Bounds

-----------------------------------------------------------------------------
(* The rows. *)

Whys == {"none", "done", "retry", "rejected", "terminal"}
Pcs == {"idle", "claiming", "start", "resolve", "recheck", "prepare", "send", "record",
        "release", "blame", "clear", "finish"}
Entries == [job : Jobs, lease : Nat \ {0}]
WorkerRows == [pc : Pcs, batch : Seq(Entries), gen : 0..MaxToken, why : Whys]
JobRows == [status : {"absent", "pending", "leased", "completed", "dead"},
            attempts : Nat, lease : Nat, expired : BOOLEAN, superseded : BOOLEAN]
Receipts == [state : {"none", "prepared", "delivered"}, mark : Marks]
Instances == [state : {"absent", "pending", "leased", "failed", "sent", "cancelled"},
              mark : Marks, superseded : BOOLEAN]
Registrations == [active : BOOLEAN, gen : 1..MaxToken, success : BOOLEAN]
Calls == [job : Jobs, mark : Marks, result : {"accepted", "rejected"}]

RowTypes ==
    /\ job \in [Jobs -> JobRows] /\ receipt \in [Native -> Receipts]
    /\ instance \in [Reminders -> Instances] /\ registration \in Registrations
WorkerTypes == worker \in [Workers -> WorkerRows]

In(s) == {s[n] : n \in 1..Len(s)}

\* A job's token is that of one of its attempts, and no two workers hold the
\* same token of the same job.
Leases ==
    /\ \A j \in Jobs : job[j].lease <= job[j].attempts /\ job[j].attempts <= MaxAttempts[j]
    /\ \A w \in Workers : \A e \in In(worker[w].batch) : e.lease <= job[e.job].attempts
    /\ \A w, v \in Workers : w # v => In(worker[w].batch) \cap In(worker[v].batch) = {}

Busy(r) == r.pc \notin {"idle", "claiming"} => r.batch # <<>>

Delivered(j) == IF j \in Native THEN receipt[j].state = "delivered" ELSE instance[j].state = "sent"

\* What a worker at work knows of the provider and of the rows.
Phase(w) ==
    /\ worker[w].pc = "send" /\ Job(w) \in Native =>
           receipt[Job(w)] = [state |-> "prepared", mark |-> Mark(w)] /\ Accepted(Job(w)) = {}
    /\ worker[w].pc = "release" /\ Job(w) \in Native
         /\ receipt[Job(w)] = [state |-> "prepared", mark |-> Mark(w)] => Accepted(Job(w)) = {}
    /\ worker[w].pc = "record" => [job |-> Job(w), mark |-> Mark(w), result |-> "accepted"] \in calls
    /\ worker[w].pc \in {"release", "blame"} /\ worker[w].why = "rejected" =>
           [job |-> Job(w), mark |-> Mark(w), result |-> "rejected"] \in calls
    /\ worker[w].why = "done" => worker[w].pc = "finish" /\ Delivered(Job(w))

Phases == \A w \in Workers : Busy(worker[w]) /\ Phase(w)

\* An accepted native call is the one its receipt was prepared for.
OneCall == \A j \in Native : \A c \in Accepted(j) :
    receipt[j].state # "none" /\ c.mark = receipt[j].mark

\* A job with an alert is over, and its receipt stays what the alert says.
AlertInv == \A j \in Native :
    /\ alert[j] # "none" => job[j].status = "dead"
    /\ alert[j] = "failed" => receipt[j].state = "none"
    /\ alert[j] = "accepted" => receipt[j].state = "delivered"

IInv ==
    /\ RowTypes /\ WorkerTypes /\ calls \subseteq Calls /\ alert \in [Native -> {"none", "failed", "unconfirmed", "accepted"}]
    /\ Leases /\ Phases /\ OneCall /\ RecordsAreTrue /\ SuccessIsOwn /\ AlertInv
-----------------------------------------------------------------------------
(* Lemmas: rows after an update. *)

LEMMA JobUpdates ==
    ASSUME NEW r \in JobRows
    PROVE  /\ \A why \in BOOLEAN :
                 /\ Kill(r, why) \in JobRows /\ Kill(r, why).attempts = r.attempts
                 /\ Kill(r, why).lease = r.lease /\ Kill(r, why).status = "dead"
           /\ [r EXCEPT !.status = "pending", !.superseded = FALSE] \in JobRows
           /\ [r EXCEPT !.status = "pending", !.superseded = FALSE].attempts = r.attempts
           /\ [r EXCEPT !.status = "pending", !.superseded = FALSE].lease = r.lease
           /\ [r EXCEPT !.status = "pending", !.superseded = FALSE].status = "pending"
           /\ Take(r) \in JobRows /\ Take(r).attempts = r.attempts + 1
           /\ Take(r).lease = r.attempts + 1 /\ Take(r).status = "leased"
           /\ FreeLease(r) \in JobRows /\ FreeLease(r).attempts = r.attempts
           /\ FreeLease(r).lease = 0 /\ FreeLease(r).status = r.status
           /\ \A t \in {"completed", "dead", "pending"} :
                 /\ Settle(r, t) \in JobRows /\ Settle(r, t).attempts = r.attempts
                 /\ Settle(r, t).lease = 0 /\ Settle(r, t).status = t
<1>1. ASSUME NEW why \in BOOLEAN
      PROVE  /\ Kill(r, why) \in JobRows /\ Kill(r, why).attempts = r.attempts
             /\ Kill(r, why).lease = r.lease /\ Kill(r, why).status = "dead"
  BY DEF Kill, JobRows
<1>2. /\ Take(r) \in JobRows /\ Take(r).attempts = r.attempts + 1
      /\ Take(r).lease = r.attempts + 1 /\ Take(r).status = "leased"
  <2> DEFINE a == [r EXCEPT !.status = "leased"]
             b == [a EXCEPT !.attempts = r.attempts + 1]
             c == [b EXCEPT !.lease = r.attempts + 1]
  <2>1. a \in JobRows /\ a.attempts = r.attempts /\ a.status = "leased"
    BY DEF JobRows
  <2>2. Take(r) = [c EXCEPT !.expired = FALSE]
    BY DEF Take
  <2>3. r.attempts + 1 \in Nat
    BY DEF JobRows
  <2> HIDE DEF a
  <2>4. b \in JobRows /\ b.attempts = r.attempts + 1 /\ b.status = "leased"
    BY <2>1, <2>3 DEF JobRows
  <2> HIDE DEF b
  <2>5. c \in JobRows /\ c.attempts = r.attempts + 1 /\ c.lease = r.attempts + 1 /\ c.status = "leased"
    BY <2>3, <2>4 DEF JobRows
  <2> HIDE DEF c
  <2> QED
    BY <2>2, <2>5 DEF JobRows
<1>3. /\ FreeLease(r) \in JobRows /\ FreeLease(r).attempts = r.attempts
      /\ FreeLease(r).lease = 0 /\ FreeLease(r).status = r.status
  BY DEF FreeLease, JobRows
<1>4. ASSUME NEW t \in {"completed", "dead", "pending"}
      PROVE  /\ Settle(r, t) \in JobRows /\ Settle(r, t).attempts = r.attempts
             /\ Settle(r, t).lease = 0 /\ Settle(r, t).status = t
  <2> DEFINE f == FreeLease(r)
  <2>1. Settle(r, t) = [f EXCEPT !.superseded = FALSE, !.status = t]
    BY DEF Settle
  <2> HIDE DEF f
  <2>2. f \in JobRows /\ f.attempts = r.attempts /\ f.lease = 0
    BY <1>3 DEF f
  <2> QED
    BY <2>1, <2>2 DEF JobRows
<1>5. /\ [r EXCEPT !.status = "pending", !.superseded = FALSE] \in JobRows
      /\ [r EXCEPT !.status = "pending", !.superseded = FALSE].attempts = r.attempts
      /\ [r EXCEPT !.status = "pending", !.superseded = FALSE].lease = r.lease
      /\ [r EXCEPT !.status = "pending", !.superseded = FALSE].status = "pending"
  BY DEF JobRows
<1> QED
  BY <1>1, <1>2, <1>3, <1>4, <1>5

LEMMA InstanceUpdates ==
    ASSUME NEW i \in Instances
    PROVE  /\ \A why \in BOOLEAN :
                 /\ Cancel(i, why) \in Instances /\ Cancel(i, why).state = "cancelled"
                 /\ Cancel(i, why).mark = i.mark
           /\ \A m \in Marks :
                 /\ Dispatched(i, m) \in Instances /\ Dispatched(i, m).state = "leased"
                 /\ Dispatched(i, m).mark = m
           /\ Undone(i) \in Instances /\ Undone(i).state = "failed" /\ Undone(i).mark = NoMark
           /\ [Undone(i) EXCEPT !.superseded = FALSE] \in Instances
           /\ [Undone(i) EXCEPT !.superseded = FALSE].state = "failed"
           /\ [Undone(i) EXCEPT !.superseded = FALSE].mark = NoMark
           /\ [i EXCEPT !.state = "sent"] \in Instances /\ [i EXCEPT !.state = "sent"].state = "sent"
           /\ [i EXCEPT !.state = "sent"].mark = i.mark
           /\ [i EXCEPT !.state = "pending", !.superseded = FALSE] \in Instances
           /\ [i EXCEPT !.state = "pending", !.superseded = FALSE].state = "pending"
           /\ [i EXCEPT !.state = "pending", !.superseded = FALSE].mark = i.mark
<1>1. ASSUME NEW why \in BOOLEAN
      PROVE  Cancel(i, why) \in Instances /\ Cancel(i, why).state = "cancelled" /\ Cancel(i, why).mark = i.mark
  BY DEF Cancel, Instances
<1>2. ASSUME NEW m \in Marks
      PROVE  Dispatched(i, m) \in Instances /\ Dispatched(i, m).state = "leased" /\ Dispatched(i, m).mark = m
  BY DEF Dispatched, Instances
<1>3. Undone(i) \in Instances /\ Undone(i).state = "failed" /\ Undone(i).mark = NoMark
  <2>1. NoMark \in Marks
    BY DEF NoMark, Marks
  <2> QED
    BY <2>1 DEF Undone, Instances
<1>4. /\ [Undone(i) EXCEPT !.superseded = FALSE] \in Instances
      /\ [Undone(i) EXCEPT !.superseded = FALSE].state = "failed"
      /\ [Undone(i) EXCEPT !.superseded = FALSE].mark = NoMark
  BY <1>3 DEF Instances
<1>5. /\ [i EXCEPT !.state = "sent"] \in Instances /\ [i EXCEPT !.state = "sent"].state = "sent"
      /\ [i EXCEPT !.state = "sent"].mark = i.mark
  BY DEF Instances
<1>6. /\ [i EXCEPT !.state = "pending", !.superseded = FALSE] \in Instances
      /\ [i EXCEPT !.state = "pending", !.superseded = FALSE].state = "pending"
      /\ [i EXCEPT !.state = "pending", !.superseded = FALSE].mark = i.mark
  BY DEF Instances
<1> QED
  BY <1>1, <1>2, <1>3, <1>4, <1>5, <1>6

\* Batches.
LEMMA Batches ==
    ASSUME NEW s \in Seq(Entries)
    PROVE  /\ s # <<>> => /\ Head(s) \in In(s) /\ Head(s) \in Entries
                          /\ Tail(s) \in Seq(Entries) /\ In(Tail(s)) \subseteq In(s)
           /\ \A e \in Entries : Append(s, e) \in Seq(Entries) /\ In(Append(s, e)) \subseteq In(s) \cup {e}
           /\ In(s) \subseteq Entries
BY DEF In

\* A worker's row keeps its batch, or drops its head.
Keeps(r, b) == r \in WorkerRows /\ In(r.batch) \subseteq In(b) /\ Busy(r)
\* It is at a phase of which nothing need be known.
Plain(r) == r.pc \notin {"send", "release", "record"} /\ (r.pc = "blame" => r.why # "rejected") /\ r.why # "done"

\* A worker's row at another phase.
Turn(r, pc, why) == [r EXCEPT !.pc = pc, !.why = why]

LEMMA WorkerUpdates ==
    ASSUME NEW r \in WorkerRows, NEW pc \in Pcs, NEW why \in Whys
    PROVE  /\ Turn(r, pc, why) \in WorkerRows /\ Turn(r, pc, why).pc = pc
           /\ Turn(r, pc, why).batch = r.batch /\ Turn(r, pc, why).gen = r.gen
           /\ Turn(r, pc, why).why = why
BY DEF Turn, WorkerRows

LEMMA Turns ==
    ASSUME NEW r \in WorkerRows, NEW pc \in Pcs
    PROVE  [r EXCEPT !.pc = pc] = Turn(r, pc, r.why)
BY DEF Turn, WorkerRows

LEMMA IdleRow ==
    ASSUME NEW b PROVE Keeps(Idle, b) /\ Plain(Idle) /\ Idle.batch = <<>> /\ Idle.pc = "idle"
BY DEF Keeps, Plain, Idle, WorkerRows, Pcs, Whys, In, Busy

\* The ways a delivery ends, and a call that throws.
LEMMA Endings ==
    ASSUME NEW w \in Workers, worker[w] \in WorkerRows, worker[w].batch # <<>>
    PROVE  /\ \A why \in Whys :
                 /\ Keeps(Ends(w, why), worker[w].batch) /\ Ends(w, why).batch = worker[w].batch
                 /\ Ends(w, why).pc = "finish" /\ Ends(w, why).why = why /\ Ends(w, why).gen = worker[w].gen
           /\ \A why \in {"retry", "terminal"} :
                 Keeps(Caught(w, why), worker[w].batch) /\ Plain(Caught(w, why))
           /\ Keeps(Advance(w), worker[w].batch) /\ Plain(Advance(w))
<1> DEFINE b == worker[w].batch
<1>1. b \in Seq(Entries)
  BY DEF WorkerRows
<1>2. ASSUME NEW why \in Whys
      PROVE  /\ Keeps(Ends(w, why), b) /\ Ends(w, why).batch = b
             /\ Ends(w, why).pc = "finish" /\ Ends(w, why).why = why /\ Ends(w, why).gen = worker[w].gen
  <2>1. "finish" \in Pcs /\ Ends(w, why) = Turn(worker[w], "finish", why)
    BY DEF Pcs, Ends, Turn
  <2> QED
    BY <1>1, <2>1, WorkerUpdates DEF Keeps, Busy
<1>3. ASSUME NEW why \in {"retry", "terminal"}
      PROVE  Keeps(Caught(w, why), b) /\ Plain(Caught(w, why))
  <2> DEFINE pc == IF why # "terminal" /\ worker[w].gen # 0 THEN "blame" ELSE AfterBlame(w)
             r == Turn(worker[w], pc, why)
  <2>1. pc \in {"blame", "clear", "finish"} /\ pc \in Pcs /\ why \in Whys
    BY DEF AfterBlame, Pcs, Whys
  <2>2. Caught(w, why) = r
    <3> DEFINE q == worker[w]
    <3>1. Caught(w, why) = [q EXCEPT !.why = why, !.pc = pc]
      BY DEF Caught
    <3>2. q \in WorkerRows /\ r = [q EXCEPT !.pc = pc, !.why = why]
      BY DEF Turn
    <3> HIDE DEF q, pc, r
    <3> QED
      BY <2>1, <3>1, <3>2 DEF WorkerRows
  <2> HIDE DEF pc
  <2>3. /\ r \in WorkerRows /\ r.pc = pc /\ r.batch = b /\ r.why = why
    BY <2>1, WorkerUpdates
  <2> HIDE DEF r
  <2> QED
    BY <2>1, <2>2, <2>3 DEF Keeps, Plain, Busy
<1>4. Keeps(Advance(w), b) /\ Plain(Advance(w))
  <2>1. Tail(b) \in Seq(Entries) /\ In(Tail(b)) \subseteq In(b)
    BY <1>1, Batches
  <2>2. CASE Tail(b) = <<>>
    BY <2>2, IdleRow DEF Advance
  <2>3. CASE Tail(b) # <<>>
    <3>1. Advance(w) = [Idle EXCEPT !.pc = "start", !.batch = Tail(b)]
      BY <2>3 DEF Advance
    <3>2. Idle = [pc |-> "idle", batch |-> <<>>, gen |-> 0, why |-> "none"]
      BY DEF Idle
    <3> HIDE DEF b
    <3>3. Advance(w) = [pc |-> "start", batch |-> Tail(b), gen |-> 0, why |-> "none"]
      BY <3>1, <3>2
    <3> QED
      BY <2>1, <2>3, <3>3 DEF Keeps, Plain, Busy, WorkerRows, Pcs, Whys
  <2> QED
    BY <2>2, <2>3
<1> QED
  BY <1>2, <1>3, <1>4

LEMMA FailedRow ==
    ASSUME NEW w \in Workers, worker[w] \in WorkerRows, Busy(worker[w]), worker[w].pc # "send"
    PROVE  Keeps(Failed(w), worker[w].batch) /\ Plain(Failed(w))
<1>1. CASE worker[w].pc \in {"idle", "claiming", "finish"}
  BY <1>1, IdleRow DEF Failed
<1>2. CASE worker[w].pc \in {"start", "resolve", "recheck", "prepare"}
  <2>1. worker[w].batch # <<>> /\ Failed(w) = Caught(w, "retry")
    BY <1>2 DEF Busy, Failed
  <2> QED
    BY <2>1, Endings
<1>3. CASE worker[w].pc = "record"
  <2>1. worker[w].batch # <<>> /\ Failed(w) = Caught(w, "terminal")
    BY <1>3 DEF Busy, Failed
  <2> QED
    BY <2>1, Endings
<1>4. CASE worker[w].pc \in {"release", "blame", "clear"}
  <2>1. worker[w].batch # <<>> /\ Failed(w) = Ends(w, "retry") /\ "retry" \in Whys
    BY <1>4 DEF Busy, Failed, Whys
  <2> QED
    BY <2>1, Endings DEF Plain
<1> QED
  BY <1>1, <1>2, <1>3, <1>4 DEF WorkerRows, Pcs

\* A reply that may be lost.
LEMMA Replies ==
    ASSUME NEW w \in Workers, WorkerTypes, Busy(worker[w]), worker[w].pc # "send", NEW s,
           Keeps(s, worker[w].batch), Reply(w, s)
    PROVE  /\ worker'[w] = s \/ Plain(worker'[w])
           /\ Keeps(worker'[w], worker[w].batch)
           /\ worker' = [worker EXCEPT ![w] = worker'[w]]
<1>1. worker[w] \in WorkerRows
  BY DEF WorkerTypes
<1>2. Keeps(Failed(w), worker[w].batch) /\ Plain(Failed(w))
  BY <1>1, FailedRow
<1>3. PICK r \in {s, Failed(w)} : worker' = [worker EXCEPT ![w] = r]
  BY DEF Reply, Step
<1>4. worker'[w] = r
  BY <1>3 DEF WorkerTypes
<1> QED
  BY <1>2, <1>3, <1>4
-----------------------------------------------------------------------------
(* Lemmas: what one worker does leaves the others in their phases. *)

\* The steps of worker w that write a receipt write that of its own delivery.
OwnReceipt(w) == \A j \in Native :
    \/ receipt'[j] = receipt[j] /\ Accepted(j)' = Accepted(j)
    \/ \E e \in In(worker[w].batch) :
          /\ e.job = j
          /\ \/ receipt[j].state = "none" /\ receipt'[j].mark.lease = e.lease
             \/ /\ receipt[j].mark.lease = e.lease
                /\ receipt'[j].state # "prepared" \/ receipt'[j] = receipt[j]

LEMMA Others ==
    ASSUME NEW w \in Workers, NEW v \in Workers, v # w, RowTypes, WorkerTypes, Leases,
           Busy(worker[v]), Phase(v), worker'[v] = worker[v], calls \subseteq calls', OwnReceipt(w),
           \A j \in Jobs : Delivered(j) => Delivered(j)'
    PROVE  Busy(worker'[v]) /\ Phase(v)'
<1>1. Busy(worker'[v])
  OBVIOUS
<1>2. worker[v] \in WorkerRows /\ worker[v].batch \in Seq(Entries)
  BY DEF WorkerTypes, WorkerRows
<1>3. Job(v)' = Job(v) /\ Lease(v)' = Lease(v) /\ Mark(v)' = Mark(v) /\ Mark(v).lease = Lease(v)
  BY DEF Job, Lease, Mark
<1>4. ASSUME worker[v].batch # <<>>
      PROVE  /\ Head(worker[v].batch) \in In(worker[v].batch) /\ Job(v) \in Jobs
             /\ Job(v) = Head(worker[v].batch).job /\ Lease(v) = Head(worker[v].batch).lease
             /\ \A e \in In(worker[w].batch) : e.job = Job(v) => e.lease # Lease(v)
  <2>1. Head(worker[v].batch) \in In(worker[v].batch) /\ Head(worker[v].batch) \in Entries
    BY <1>2, <1>4, Batches
  <2>2. \A e \in In(worker[w].batch) : e \in Entries /\ e # Head(worker[v].batch)
    <3>1. In(worker[w].batch) \subseteq Entries
      BY Batches DEF WorkerTypes, WorkerRows
    <3>2. In(worker[w].batch) \cap In(worker[v].batch) = {}
      BY DEF Leases
    <3> QED
      BY <2>1, <3>1, <3>2
  <2> QED
    BY <2>1, <2>2 DEF Job, Lease, Entries
<1>5. ASSUME worker[v].pc = "send", NEW j \in Native, j = Job(v)
      PROVE  receipt'[j] = [state |-> "prepared", mark |-> Mark(v)] /\ Accepted(j)' = {}
  <2>1. worker[v].batch # <<>>
    BY <1>5 DEF Busy
  <2>2. receipt[j] = [state |-> "prepared", mark |-> Mark(v)] /\ Accepted(j) = {}
    BY <1>5 DEF Phase
  <2>3. receipt'[j] = receipt[j] /\ Accepted(j)' = Accepted(j)
    BY <1>3, <1>4, <1>5, <2>1, <2>2 DEF OwnReceipt
  <2> QED
    BY <2>2, <2>3
<1>6. ASSUME worker[v].pc = "release", NEW j \in Native, j = Job(v),
             receipt'[j] = [state |-> "prepared", mark |-> Mark(v)]
      PROVE  Accepted(j)' = {}
  <2>1. worker[v].batch # <<>>
    BY <1>6 DEF Busy
  <2>2. receipt'[j].state = "prepared" /\ receipt'[j].mark.lease = Lease(v)
    BY <1>3, <1>6
  <2>3. receipt'[j] = receipt[j] /\ Accepted(j)' = Accepted(j)
    BY <1>4, <1>6, <2>1, <2>2 DEF OwnReceipt
  <2> QED
    BY <1>6, <2>3 DEF Phase
<1>7. worker[v].why = "done" => worker[v].pc = "finish" /\ Delivered(Job(v))'
  <2> SUFFICES ASSUME worker[v].why = "done" PROVE worker[v].pc = "finish" /\ Delivered(Job(v))'
    OBVIOUS
  <2>1. worker[v].pc = "finish" /\ Delivered(Job(v))
    BY DEF Phase
  <2>2. Job(v) \in Jobs
    BY <1>4, <2>1 DEF Busy
  <2>3. Delivered(Job(v)) => IF Job(v) \in Native THEN receipt'[Job(v)].state = "delivered" ELSE instance'[Job(v)].state = "sent"
    BY <2>2 DEF Delivered
  <2> QED
    BY <1>3, <2>1, <2>3 DEF Delivered
<1>8. /\ worker[v].pc = "record" => [job |-> Job(v), mark |-> Mark(v), result |-> "accepted"] \in calls'
      /\ worker[v].pc \in {"release", "blame"} /\ worker[v].why = "rejected" =>
             [job |-> Job(v), mark |-> Mark(v), result |-> "rejected"] \in calls'
  BY DEF Phase
<1> QED
  BY <1>1, <1>3, <1>5, <1>6, <1>7, <1>8 DEF Phase, Accepted

LEMMA PlainPhase ==
    ASSUME NEW w \in Workers, Plain(worker'[w]) PROVE Phase(w)'
BY DEF Plain, Phase

\* A batch grows by the token of a new attempt.
Grows(r, b) ==
    /\ r \in WorkerRows /\ Busy(r)
    /\ \A e \in In(r.batch) : e \in In(b) \/ (job[e.job].attempts < e.lease /\ e.lease <= job'[e.job].attempts)

Counted == \A j \in Jobs :
    /\ job'[j].attempts \in Nat /\ job'[j].lease \in Nat
    /\ job[j].attempts <= job'[j].attempts /\ job'[j].lease <= job'[j].attempts
    /\ job'[j].attempts <= MaxAttempts[j]

LEMMA WorkerStep ==
    ASSUME RowTypes, WorkerTypes, Leases, Phases, NEW w \in Workers,
           worker' = [worker EXCEPT ![w] = worker'[w]], Grows(worker'[w], worker[w].batch),
           Phase(w)', calls \subseteq calls', OwnReceipt(w),
           \A j \in Jobs : Delivered(j) => Delivered(j)', Counted
    PROVE  WorkerTypes' /\ Leases' /\ Phases'
<1>1. \A v \in Workers : v # w => worker'[v] = worker[v]
  BY DEF WorkerTypes
<1>2. WorkerTypes'
  BY DEF WorkerTypes, Grows
<1>3. Phases'
  <2>1. ASSUME NEW v \in Workers, v # w PROVE Busy(worker'[v]) /\ Phase(v)'
    BY <1>1, <2>1, Others DEF Phases
  <2>2. Busy(worker'[w]) /\ Phase(w)'
    BY DEF Grows
  <2> QED
    BY <2>1, <2>2 DEF Phases
<1>4. \A v \in Workers : In(worker[v].batch) \subseteq Entries
  BY Batches DEF WorkerTypes, WorkerRows
<1>5. \A e \in In(worker'[w].batch) : e \in Entries
  BY Batches DEF Grows, WorkerRows
<1>6. \A e \in Entries : /\ e.job \in Jobs /\ e.lease \in Nat /\ job[e.job].attempts \in Nat
                         /\ job'[e.job].attempts \in Nat /\ job[e.job].attempts <= job'[e.job].attempts
  BY DEF Entries, Counted, RowTypes, JobRows
<1>7. Leases'
  <2>1. ASSUME NEW v \in Workers, NEW e \in In(worker'[v].batch) PROVE e.lease <= job'[e.job].attempts
    <3>1. ASSUME e \in In(worker[v].batch) PROVE e.lease <= job'[e.job].attempts
      <4>1. e \in Entries /\ e.lease <= job[e.job].attempts
        BY <1>4, <3>1 DEF Leases
      <4> QED
        BY <1>6, <4>1
    <3>2. CASE v = w
      BY <3>1, <3>2 DEF Grows
    <3> QED
      BY <1>1, <3>1, <3>2
  <2>2. ASSUME NEW v \in Workers, v # w, NEW e \in In(worker'[w].batch), e \in In(worker[v].batch)
        PROVE  FALSE
    <3>1. e \in Entries /\ e.lease <= job[e.job].attempts /\ e \notin In(worker[w].batch)
      BY <1>4, <2>2 DEF Leases
    <3>2. job[e.job].attempts < e.lease
      BY <2>2, <3>1 DEF Grows
    <3> QED
      BY <1>6, <3>1, <3>2
  <2>3. ASSUME NEW u \in Workers, NEW v \in Workers, u # v
        PROVE  In(worker'[u].batch) \cap In(worker'[v].batch) = {}
    <3>1. CASE u # w /\ v # w
      BY <1>1, <2>3, <3>1 DEF Leases
    <3>2. CASE u = w
      BY <1>1, <2>2, <2>3, <3>2
    <3>3. CASE v = w
      BY <1>1, <2>2, <2>3, <3>3
    <3> QED
      BY <3>1, <3>2, <3>3
  <2> QED
    BY <2>1, <2>3 DEF Leases, Counted
<1> QED
  BY <1>2, <1>3, <1>7

\* Steps that write no receipt and no alert, and deliver nothing.
JobsKeep ==
    /\ job' \in [Jobs -> JobRows]
    /\ \A j \in Jobs :
          /\ job[j].attempts <= job'[j].attempts /\ job'[j].lease <= job'[j].attempts
          /\ job'[j].attempts <= MaxAttempts[j]
          /\ job'[j].status = "completed" => job[j].status = "completed" \/ Delivered(j)
          /\ job[j].status = "dead" /\ j \in Native => job'[j].status = "dead"
InstancesKeep ==
    /\ instance' \in [Reminders -> Instances]
    /\ \A j \in Reminders :
          /\ instance'[j].state = "sent" <=> instance[j].state = "sent"
          /\ instance'[j].state = "sent" => instance'[j].mark = instance[j].mark
          /\ instance'[j].mark # NoMark => instance'[j].state # "pending"
RegistrationKeeps ==
    /\ registration' \in Registrations
    /\ registration'.success => registration.success /\ registration'.gen = registration.gen
Quiet == JobsKeep /\ InstancesKeep /\ RegistrationKeeps /\ UNCHANGED <<receipt, calls, alert>>

LEMMA KeptRows ==
    ASSUME IInv
    PROVE  /\ UNCHANGED job => JobsKeep
           /\ UNCHANGED instance => InstancesKeep
           /\ UNCHANGED registration => RegistrationKeeps
BY DEF IInv, RowTypes, Leases, RecordsAreTrue, JobsKeep, InstancesKeep, RegistrationKeeps, JobRows

Books ==
    /\ RowTypes /\ calls \subseteq Calls /\ alert \in [Native -> {"none", "failed", "unconfirmed", "accepted"}]
    /\ OneCall /\ RecordsAreTrue /\ SuccessIsOwn /\ AlertInv

LEMMA Parts ==
    /\ IInv <=> Books /\ WorkerTypes /\ Leases /\ Phases
    /\ IInv' <=> Books' /\ WorkerTypes' /\ Leases' /\ Phases'
BY DEF IInv, Books

LEMMA QuietBooks == ASSUME IInv, Quiet PROVE Books' /\ \A j \in Jobs : Delivered(j) => Delivered(j)'
<1>1. RowTypes' /\ calls' \subseteq Calls /\ alert' \in [Native -> {"none", "failed", "unconfirmed", "accepted"}]
  BY DEF IInv, Quiet, RowTypes, JobsKeep, InstancesKeep, RegistrationKeeps
<1>2. \A j \in Jobs : Delivered(j) => Delivered(j)'
  BY DEF Quiet, InstancesKeep, Delivered, Jobs
<1>3. OneCall' /\ SuccessIsOwn' /\ AlertInv'
  <2>1. OneCall'
    BY DEF IInv, Quiet, OneCall, Accepted
  <2>2. SuccessIsOwn'
    BY DEF IInv, Quiet, SuccessIsOwn, RegistrationKeeps
  <2>3. AlertInv'
    BY DEF IInv, Quiet, AlertInv, JobsKeep, Jobs
  <2> QED
    BY <2>1, <2>2, <2>3
<1>4. RecordsAreTrue'
  <2>1. \A j \in Native : receipt'[j].state = "delivered" => \E c \in Accepted(j)' : c.mark = receipt'[j].mark
    BY DEF IInv, Quiet, RecordsAreTrue, Accepted
  <2>2. \A j \in Reminders : instance'[j].state = "sent" => \E c \in Accepted(j)' : c.mark = instance'[j].mark
    BY DEF IInv, Quiet, RecordsAreTrue, InstancesKeep, Accepted
  <2>3. \A j \in Jobs : job'[j].status = "completed" =>
           IF j \in Native THEN receipt'[j].state = "delivered" ELSE instance'[j].state = "sent"
    BY DEF IInv, Quiet, RecordsAreTrue, JobsKeep, InstancesKeep, Delivered, Jobs
  <2>4. \A j \in Reminders : instance'[j].mark # NoMark => instance'[j].state # "pending"
    BY DEF Quiet, InstancesKeep
  <2> QED
    BY <2>1, <2>2, <2>3, <2>4 DEF RecordsAreTrue, Accepted
<1> QED
  BY <1>1, <1>2, <1>3, <1>4 DEF Books

LEMMA QuietStep ==
    ASSUME IInv, Quiet, NEW w \in Workers, worker' = [worker EXCEPT ![w] = worker'[w]],
           Grows(worker'[w], worker[w].batch), Phase(w)'
    PROVE  IInv'
<1>1. Books' /\ \A j \in Jobs : Delivered(j) => Delivered(j)'
  BY QuietBooks
<1>2. OwnReceipt(w) /\ calls \subseteq calls'
  BY DEF OwnReceipt, Quiet, Accepted
<1>3. Counted
  BY DEF Quiet, JobsKeep, JobRows, Counted
<1>4. WorkerTypes' /\ Leases' /\ Phases'
  BY <1>1, <1>2, <1>3, Parts, WorkerStep DEF Books
<1> QED
  BY <1>1, <1>4, Parts

\* The same for a worker that only goes on, or whose call throws.
LEMMA PlainStep ==
    ASSUME IInv, Quiet, NEW w \in Workers, worker[w].pc # "send", NEW s,
           Keeps(s, worker[w].batch), Reply(w, s), worker'[w] = s /\ ~Plain(s) => Phase(w)'
    PROVE  IInv'
<1>1. /\ worker'[w] = s \/ Plain(worker'[w])
      /\ Keeps(worker'[w], worker[w].batch)
      /\ worker' = [worker EXCEPT ![w] = worker'[w]]
  BY Replies DEF IInv, Phases
<1>2. Phase(w)'
  BY <1>1, PlainPhase
<1>3. Grows(worker'[w], worker[w].batch)
  BY <1>1 DEF Keeps, Grows
<1> QED
  BY <1>1, <1>2, <1>3, QuietStep

LEMMA QuietWorld == ASSUME IInv, Quiet, UNCHANGED worker PROVE IInv'
<1>1. Books' /\ \A j \in Jobs : Delivered(j) => Delivered(j)'
  BY QuietBooks
<1>2. Counted
  BY DEF Quiet, JobsKeep, JobRows, Counted
<1>3. WorkerTypes' /\ Leases'
  <2>1. ASSUME NEW v \in Workers, NEW e \in In(worker[v].batch) PROVE e.lease <= job'[e.job].attempts
    <3>1. e \in Entries /\ e.lease <= job[e.job].attempts
      BY Batches DEF IInv, WorkerTypes, WorkerRows, Leases
    <3> QED
      BY <1>2, <3>1 DEF IInv, RowTypes, JobRows, Entries, Counted
  <2> QED
    BY <1>2, <2>1 DEF IInv, WorkerTypes, Leases, Counted
<1>4. Phases'
  <2> SUFFICES ASSUME NEW v \in Workers PROVE Busy(worker[v])' /\ Phase(v)'
    BY DEF Phases
  <2>1. Busy(worker[v]) /\ Phase(v) /\ worker[v].batch \in Seq(Entries)
    BY DEF IInv, Phases, WorkerTypes, WorkerRows
  <2>2. worker[v].why = "done" => Job(v) \in Jobs
    BY <2>1, Batches DEF Phase, Busy, Job, Entries
  <2>3. worker[v].why = "done" => Delivered(Job(v))'
    <3> SUFFICES ASSUME worker[v].why = "done", NEW j \in Jobs, j = Job(v) PROVE Delivered(Job(v))'
      BY <2>2
    <3>1. Delivered(j)'
      BY <1>1, <2>1 DEF Phase
    <3> QED
      BY <3>1 DEF Delivered, Job
  <2> QED
    BY <2>1, <2>3 DEF Quiet, Phase, Accepted, Job, Mark, Lease
<1> QED
  BY <1>1, <1>3, <1>4, Parts
-----------------------------------------------------------------------------
(* Every step keeps the invariant. *)

LEMMA AllKept == ASSUME IInv, UNCHANGED <<rows, alert, calls>> PROVE Quiet
BY KeptRows DEF Quiet, rows

\* The loss of the recipient.
LEMMA Drop == ASSUME IInv, NEW leased \in BOOLEAN, DropRecipient(leased), UNCHANGED <<alert, calls>> PROVE Quiet
<1>1. JobsKeep
  <2>1. \A j \in Jobs : job'[j] = job[j] \/ job'[j] = Kill(job[j], FALSE)
    BY DEF DropRecipient, KillJobs
  <2>2. job' \in [Jobs -> JobRows]
    <3>1. \A j \in Jobs : job[j] \in JobRows /\ Kill(job[j], FALSE) \in JobRows
      BY JobUpdates DEF IInv, RowTypes
    <3>2. job' = [j \in Jobs |-> job'[j]]
      BY DEF DropRecipient, KillJobs
    <3> QED
      BY <2>1, <3>1, <3>2
  <2>3. ASSUME NEW j \in Jobs
        PROVE  /\ job[j].attempts <= job'[j].attempts /\ job'[j].lease <= job'[j].attempts
               /\ job'[j].attempts <= MaxAttempts[j]
               /\ job'[j].status = "completed" => job[j].status = "completed"
               /\ job[j].status = "dead" => job'[j].status = "dead"
    <3>1. job[j] \in JobRows /\ job[j].lease <= job[j].attempts /\ job[j].attempts <= MaxAttempts[j]
      BY DEF IInv, RowTypes, Leases
    <3>2. /\ Kill(job[j], FALSE).attempts = job[j].attempts /\ Kill(job[j], FALSE).lease = job[j].lease
          /\ Kill(job[j], FALSE).status = "dead" /\ job[j].attempts \in Nat
      BY <3>1, JobUpdates DEF JobRows
    <3>3. CASE job'[j] = job[j]
      BY <3>1, <3>2, <3>3
    <3>4. CASE job'[j] = Kill(job[j], FALSE)
      <4>1. /\ job'[j].attempts = job[j].attempts /\ job'[j].lease = job[j].lease
            /\ job'[j].status = "dead"
        BY <3>2, <3>4
      <4> QED
        BY <3>1, <3>2, <4>1
    <3> QED
      BY <2>1, <3>3, <3>4
  <2> QED
    BY <2>2, <2>3 DEF JobsKeep
<1>2. InstancesKeep
  <2>1. \A j \in Reminders :
          \/ instance'[j] = instance[j]
          \/ instance'[j] = Cancel(instance[j], FALSE) /\ instance[j].state # "sent"
    BY DEF DropRecipient
  <2>2. \A j \in Reminders : instance[j] \in Instances
    BY DEF IInv, RowTypes
  <2>3. \A j \in Reminders :
          /\ Cancel(instance[j], FALSE) \in Instances /\ Cancel(instance[j], FALSE).state = "cancelled"
    BY <2>2, InstanceUpdates
  <2>4. instance' \in [Reminders -> Instances]
    BY <2>1, <2>2, <2>3 DEF DropRecipient
  <2>5. \A j \in Reminders : instance[j].mark # NoMark => instance[j].state # "pending"
    BY DEF IInv, RecordsAreTrue
  <2> QED
    BY <2>1, <2>3, <2>4, <2>5 DEF InstancesKeep
<1>3. RegistrationKeeps
  BY DEF DropRecipient, RegistrationKeeps, IInv, RowTypes, Registrations
<1> QED
  BY <1>1, <1>2, <1>3 DEF Quiet, DropRecipient

\* A delivery of a worker that is at work.
LEMMA AtWork ==
    ASSUME IInv, NEW w \in Workers, worker[w].pc \notin {"idle", "claiming"}
    PROVE  /\ worker[w] \in WorkerRows /\ worker[w].batch # <<>> /\ worker[w].batch \in Seq(Entries)
           /\ Head(worker[w].batch) \in In(worker[w].batch)
           /\ Job(w) \in Jobs /\ Lease(w) \in Nat \ {0} /\ Mark(w) \in Marks
           /\ Job(w) = Head(worker[w].batch).job /\ Lease(w) = Head(worker[w].batch).lease
<1>1. worker[w] \in WorkerRows /\ worker[w].batch # <<>> /\ worker[w].batch \in Seq(Entries)
  BY DEF IInv, WorkerTypes, WorkerRows, Phases, Busy
<1>2. Head(worker[w].batch) \in In(worker[w].batch) /\ Head(worker[w].batch) \in Entries
  BY <1>1, Batches
<1> QED
  BY <1>1, <1>2 DEF Job, Lease, Mark, Marks, Entries, WorkerRows

LEMMA Gives ==
    ASSUME IInv, NEW w \in Workers, worker[w].pc \notin {"idle", "claiming", "send"},
           NEW why \in {"retry", "terminal"}, Quiet, Reply(w, Caught(w, why))
    PROVE  IInv'
<1>1. Keeps(Caught(w, why), worker[w].batch) /\ Plain(Caught(w, why))
  BY AtWork, Endings
<1> QED
  BY <1>1, PlainStep

LEMMA ResolvesInv ==
    ASSUME IInv, NEW w \in Workers, worker[w].pc \notin {"idle", "claiming", "send"},
           NEW next, ~Authorized, Resolves(w, next), UNCHANGED <<alert, calls>>
    PROVE  IInv'
<1>1. DropRecipient(FALSE) /\ Reply(w, Caught(w, "terminal"))
  BY DEF Resolves
<1>2. Quiet
  BY <1>1, Drop
<1> QED
  BY <1>1, <1>2, Gives

LEMMA CallFailsInv == ASSUME IInv, NEW w \in Workers, CallFails(w) PROVE IInv'
<1>1. Keeps(Failed(w), worker[w].batch) /\ Plain(Failed(w)) /\ worker[w].pc # "send"
  BY FailedRow DEF IInv, WorkerTypes, Phases, CallFails
<1>2. Reply(w, Failed(w))
  BY DEF CallFails, Reply
<1>3. Quiet
  BY AllKept DEF CallFails
<1> QED
  BY <1>1, <1>2, <1>3, PlainStep

LEMMA CrashInv == ASSUME IInv, NEW w \in Workers, Crash(w) PROVE IInv'
<1>1. worker' = [worker EXCEPT ![w] = Idle] /\ worker'[w] = Idle
  BY DEF Crash, Step, IInv, WorkerTypes
<1>2. Quiet
  BY AllKept DEF Crash
<1>3. Keeps(worker'[w], worker[w].batch) /\ Plain(worker'[w])
  BY <1>1, IdleRow
<1>4. Grows(worker'[w], worker[w].batch) /\ Phase(w)'
  BY <1>3, PlainPhase DEF Keeps, Grows
<1> QED
  BY <1>1, <1>2, <1>4, QuietStep

\* The claims of a sweep.
LEMMA StartSweepInv == ASSUME IInv, NEW w \in Workers, StartSweep(w) PROVE IInv'
<1> DEFINE s == To(w, "claiming")
<1>1. /\ worker[w] \in WorkerRows /\ worker[w].pc = "idle" /\ worker[w].why # "done"
      /\ Reply(w, s) /\ UNCHANGED <<receipt, registration, alert, calls>>
  BY DEF IInv, WorkerTypes, Phases, Phase, StartSweep
<1>2. Keeps(s, worker[w].batch) /\ Plain(s)
  <2>1. s = Turn(worker[w], "claiming", worker[w].why) /\ "claiming" \in Pcs /\ worker[w].why \in Whys
    BY <1>1, Turns DEF To, Pcs, WorkerRows
  <2> HIDE DEF s
  <2> QED
    BY <1>1, <2>1, WorkerUpdates DEF Keeps, Plain, Busy
<1>3. JobsKeep
  <2>1. CASE UNCHANGED job
    BY <2>1, KeptRows
  <2>2. ASSUME NEW past \in SUBSET Native,
                job' = [j \in Jobs |-> IF j \in Reminders THEN EnqueuedJob(j) ELSE SweptJob(j, j \in past)]
        PROVE  JobsKeep
    <3> DEFINE pended(r) == [r EXCEPT !.status = "pending", !.superseded = FALSE]
    <3>1. ASSUME NEW j \in Jobs
          PROVE  \/ job'[j] = job[j]
                 \/ j \notin Native /\ (job'[j] = pended(job[j]) \/ job'[j] = Kill(job[j], TRUE))
                 \/ job'[j] = Kill(job[j], FALSE)
      BY <2>2 DEF EnqueuedJob, SweptJob, Jobs
    <3>2. ASSUME NEW j \in Jobs
          PROVE  /\ job'[j] \in JobRows
                 /\ job[j].attempts <= job'[j].attempts /\ job'[j].lease <= job'[j].attempts
                 /\ job'[j].attempts <= MaxAttempts[j]
                 /\ job'[j].status = "completed" => job[j].status = "completed"
                 /\ job[j].status = "dead" /\ j \in Native => job'[j].status = "dead"
      <4>1. /\ job[j] \in JobRows /\ job[j].lease <= job[j].attempts /\ job[j].attempts <= MaxAttempts[j]
            /\ job[j].attempts \in Nat
        BY DEF IInv, RowTypes, Leases, JobRows
      <4>2. /\ pended(job[j]) \in JobRows /\ pended(job[j]).attempts = job[j].attempts
            /\ pended(job[j]).lease = job[j].lease /\ pended(job[j]).status = "pending"
            /\ Kill(job[j], TRUE) \in JobRows /\ Kill(job[j], TRUE).attempts = job[j].attempts
            /\ Kill(job[j], TRUE).lease = job[j].lease /\ Kill(job[j], TRUE).status = "dead"
            /\ Kill(job[j], FALSE) \in JobRows /\ Kill(job[j], FALSE).attempts = job[j].attempts
            /\ Kill(job[j], FALSE).lease = job[j].lease /\ Kill(job[j], FALSE).status = "dead"
        BY <4>1, JobUpdates
      <4> HIDE DEF pended
      <4>3. CASE job'[j] = job[j]
        BY <4>1, <4>3
      <4>4. CASE j \notin Native /\ job'[j] = pended(job[j])
        BY <4>1, <4>2, <4>4
      <4>5. CASE job'[j] = Kill(job[j], TRUE) \/ job'[j] = Kill(job[j], FALSE)
        <5>1. /\ job'[j].attempts = job[j].attempts /\ job'[j].lease = job[j].lease
              /\ job'[j].status = "dead" /\ job'[j] \in JobRows
          BY <4>2, <4>5
        <5> QED
          BY <4>1, <5>1
      <4> QED
        BY <3>1, <4>3, <4>4, <4>5
    <3> HIDE DEF pended
    <3> QED
      BY <2>2, <3>2 DEF JobsKeep
  <2> QED
    BY <2>1, <2>2 DEF StartSweep
<1>4. InstancesKeep
  <2>1. CASE UNCHANGED instance
    BY <2>1, KeptRows
  <2>2. CASE instance' = [j \in Reminders |-> EnqueuedInstance(j)]
    <3> DEFINE pended(i) == [i EXCEPT !.state = "pending", !.superseded = FALSE]
    <3>1. ASSUME NEW j \in Reminders
          PROVE  \/ instance'[j] = instance[j]
                 \/ instance'[j] = pended(instance[j]) /\ instance[j].mark = NoMark /\ instance[j].state # "sent"
                 \/ instance'[j] = Cancel(instance[j], TRUE) /\ instance[j].state # "sent"
      BY <2>2 DEF EnqueuedInstance, Enqueues
    <3>2. ASSUME NEW j \in Reminders
          PROVE  /\ instance'[j] \in Instances
                 /\ instance'[j].state = "sent" <=> instance[j].state = "sent"
                 /\ instance'[j].state = "sent" => instance'[j].mark = instance[j].mark
                 /\ instance'[j].mark # NoMark => instance'[j].state # "pending"
      <4>1. instance[j] \in Instances /\ (instance[j].mark # NoMark => instance[j].state # "pending")
        BY DEF IInv, RowTypes, RecordsAreTrue
      <4>2. /\ pended(instance[j]) \in Instances /\ pended(instance[j]).state = "pending"
            /\ pended(instance[j]).mark = instance[j].mark
            /\ Cancel(instance[j], TRUE) \in Instances /\ Cancel(instance[j], TRUE).state = "cancelled"
            /\ Cancel(instance[j], TRUE).mark = instance[j].mark
        BY <4>1, InstanceUpdates
      <4> HIDE DEF pended
      <4>3. CASE instance'[j] = instance[j]
        BY <4>1, <4>3
      <4>4. CASE instance'[j] = pended(instance[j]) /\ instance[j].mark = NoMark /\ instance[j].state # "sent"
        BY <4>2, <4>4
      <4>5. CASE instance'[j] = Cancel(instance[j], TRUE) /\ instance[j].state # "sent"
        BY <4>2, <4>5
      <4> QED
        BY <3>1, <4>3, <4>4, <4>5
    <3> HIDE DEF pended
    <3> QED
      BY <2>2, <3>2 DEF InstancesKeep
  <2> QED
    BY <2>1, <2>2 DEF StartSweep
<1>5. Quiet
  BY <1>1, <1>3, <1>4, KeptRows DEF Quiet
<1> HIDE DEF s
<1> QED
  BY <1>1, <1>2, <1>5, PlainStep

\* A worker that goes on to another phase.
LEMMA Goes ==
    ASSUME IInv, NEW w \in Workers, worker[w].pc # "finish", worker[w].batch # <<>>,
           NEW pc \in Pcs
    PROVE  /\ Keeps(To(w, pc), worker[w].batch) /\ To(w, pc).pc = pc /\ To(w, pc).batch = worker[w].batch
           /\ To(w, pc).gen = worker[w].gen /\ To(w, pc).why # "done"
<1>1. worker[w] \in WorkerRows /\ worker[w].why \in Whys /\ worker[w].why # "done"
  BY DEF IInv, WorkerTypes, WorkerRows, Phases, Phase
<1>2. To(w, pc) = Turn(worker[w], pc, worker[w].why)
  BY <1>1, Turns DEF To
<1>3. Turn(worker[w], pc, worker[w].why) \in WorkerRows
  BY <1>1, WorkerUpdates
<1> QED
  BY <1>1, <1>2, <1>3, WorkerUpdates DEF Keeps, Busy

LEMMA ClaimInv == ASSUME IInv, NEW w \in Workers, NEW j \in Jobs, Claim(w, j) PROVE IInv'
<1> DEFINE t == job[j].attempts + 1
           e == [job |-> j, lease |-> t]
           b == Append(worker[w].batch, e)
           s == [worker[w] EXCEPT !.batch = b]
<1>1. /\ worker[w] \in WorkerRows /\ worker[w].pc = "claiming" /\ worker[w].why # "done"
      /\ job[j] \in JobRows /\ job[j].attempts \in Nat /\ job[j].attempts < MaxAttempts[j]
      /\ job[j].status # "dead" /\ job[j].status # "completed" /\ job \in [Jobs -> JobRows]
      /\ MaxAttempts[j] \in Nat
  BY DEF IInv, RowTypes, WorkerTypes, Phases, Phase, Claim, Claimable, JobRows
<1>2. /\ job' = [job EXCEPT ![j] = Take(job[j])] /\ Reply(w, s)
      /\ UNCHANGED <<receipt, instance, registration, alert, calls>>
  BY DEF Claim
<1>3. /\ job' \in [Jobs -> JobRows] /\ job'[j].attempts = t /\ job'[j].lease = t
      /\ job'[j].status = "leased" /\ \A k \in Jobs : k # j => job'[k] = job[k]
  <2>1. /\ Take(job[j]) \in JobRows /\ Take(job[j]).attempts = t /\ Take(job[j]).lease = t
        /\ Take(job[j]).status = "leased"
    BY <1>1, JobUpdates
  <2> HIDE DEF t
  <2> QED
    BY <1>1, <1>2, <2>1
<1>4. JobsKeep
  <2>1. ASSUME NEW k \in Jobs, k # j
        PROVE  /\ job[k].attempts <= job'[k].attempts /\ job'[k].lease <= job'[k].attempts
               /\ job'[k].attempts <= MaxAttempts[k]
    <3>1. job'[k] = job[k] /\ job[k].attempts \in Nat
      BY <1>3, <2>1 DEF IInv, RowTypes, JobRows
    <3> QED
      BY <3>1 DEF IInv, Leases
  <2>2. /\ job[j].attempts <= job'[j].attempts /\ job'[j].lease <= job'[j].attempts
        /\ job'[j].attempts <= MaxAttempts[j]
    BY <1>1, <1>3
  <2>3. ASSUME NEW k \in Jobs
        PROVE  /\ job'[k].status = "completed" => job[k].status = "completed"
               /\ job[k].status = "dead" => job'[k].status = "dead"
    BY <1>1, <1>3
  <2> QED
    BY <1>3, <2>1, <2>2, <2>3 DEF JobsKeep
<1>5. Quiet
  BY <1>2, <1>4, KeptRows DEF Quiet
<1>6. worker' = [worker EXCEPT ![w] = worker'[w]] /\ worker'[w] \in {s, Idle}
  <2>1. PICK r \in {s, Failed(w)} : worker' = [worker EXCEPT ![w] = r]
    BY <1>2 DEF Reply, Step
  <2>2. Failed(w) = Idle
    BY <1>1 DEF Failed
  <2> HIDE DEF s
  <2> QED
    BY <2>1, <2>2 DEF IInv, WorkerTypes
<1>7. e \in Entries /\ worker[w].batch \in Seq(Entries)
  BY <1>1 DEF Entries, WorkerRows
<1>8. b \in Seq(Entries) /\ In(b) \subseteq In(worker[w].batch) \cup {e}
  <2> HIDE DEF e
  <2> QED
    BY <1>7, Batches
<1>9. /\ s \in WorkerRows /\ s.pc = "claiming" /\ s.batch = b /\ s.why # "done"
  <2> DEFINE q == worker[w]
  <2> HIDE DEF b, q
  <2>1. q \in WorkerRows /\ q.pc = "claiming" /\ q.why # "done"
    BY <1>1 DEF q
  <2>2. /\ [q EXCEPT !.batch = b] \in WorkerRows /\ [q EXCEPT !.batch = b].pc = "claiming"
        /\ [q EXCEPT !.batch = b].batch = b /\ [q EXCEPT !.batch = b].why # "done"
    BY <1>8, <2>1 DEF WorkerRows
  <2> QED
    BY <2>2 DEF q
<1>10. Grows(worker'[w], worker[w].batch) /\ Plain(worker'[w])
  <2>1. CASE worker'[w] = Idle
    BY <2>1, IdleRow DEF Keeps, Grows
  <2>2. CASE worker'[w] = s
    <3>1. job[e.job].attempts < e.lease /\ e.lease <= job'[e.job].attempts
      BY <1>1, <1>3
    <3> HIDE DEF b, e, s
    <3> QED
      BY <1>8, <1>9, <2>2, <3>1 DEF Grows, Busy, Plain
  <2> QED
    BY <1>6, <2>1, <2>2
<1> QED
  BY <1>5, <1>6, <1>10, PlainPhase, QuietStep

LEMMA DeliverInv == ASSUME IInv, NEW w \in Workers, Deliver(w) PROVE IInv'
<1>1. worker[w].pc = "claiming" /\ "start" \in Pcs /\ Quiet
  BY AllKept DEF Deliver, Pcs
<1>2. CASE worker[w].batch = <<>>
  <2>1. Reply(w, Idle)
    BY <1>2 DEF Deliver, Reply
  <2> QED
    BY <1>1, <2>1, IdleRow, PlainStep
<1>3. CASE worker[w].batch # <<>>
  <2>1. Reply(w, To(w, "start"))
    BY <1>3 DEF Deliver, Reply
  <2>2. Keeps(To(w, "start"), worker[w].batch) /\ Plain(To(w, "start"))
    BY <1>1, <1>3, Goes DEF Plain
  <2> QED
    BY <1>1, <2>1, <2>2, PlainStep
<1> QED
  BY <1>2, <1>3

\* A delivery that is found done.
LEMMA IsDone ==
    ASSUME IInv, Quiet, NEW w \in Workers, worker[w].pc \notin {"idle", "claiming", "send"},
           Reply(w, Ends(w, "done")), Delivered(Job(w))
    PROVE  IInv'
<1>1. /\ Keeps(Ends(w, "done"), worker[w].batch) /\ Ends(w, "done").batch = worker[w].batch
      /\ Ends(w, "done").pc = "finish" /\ Job(w) \in Jobs
  BY AtWork, Endings DEF Whys
<1>2. \A j \in Jobs : Delivered(j) => Delivered(j)'
  BY QuietBooks
<1>3. worker'[w] = Ends(w, "done") => Phase(w)'
  <2> SUFFICES ASSUME worker'[w] = Ends(w, "done") PROVE Phase(w)'
    OBVIOUS
  <2>1. worker'[w].pc = "finish" /\ Job(w)' = Job(w)
    BY <1>1 DEF Job
  <2>2. Delivered(Job(w))'
    <3> SUFFICES ASSUME NEW j \in Jobs, j = Job(w) PROVE Delivered(Job(w))'
      BY <1>1
    <3>1. Delivered(j)'
      BY <1>2
    <3> QED
      BY <2>1, <3>1 DEF Delivered
  <2> QED
    BY <2>1, <2>2 DEF Phase
<1> QED
  BY <1>1, <1>3, PlainStep

LEMMA StartInv == ASSUME IInv, NEW w \in Workers, Start(w) PROVE IInv'
<1>1. worker[w].pc = "start" /\ "resolve" \in Pcs /\ Quiet /\ Job(w) \in Jobs /\ worker[w].batch # <<>>
  BY AtWork, AllKept DEF Start, Pcs
<1>2. CASE Reply(w, To(w, "resolve"))
  <2>1. Keeps(To(w, "resolve"), worker[w].batch) /\ Plain(To(w, "resolve"))
    BY <1>1, Goes DEF Plain
  <2> QED
    BY <1>1, <1>2, <2>1, PlainStep
<1>3. CASE Reply(w, Caught(w, "terminal"))
  BY <1>1, <1>3, Gives
<1>4. CASE Job(w) \in Native /\ receipt[Job(w)].state = "delivered" /\ Reply(w, Ends(w, "done"))
  BY <1>1, <1>4, IsDone DEF Delivered
<1> QED
  BY <1>1, <1>2, <1>3, <1>4 DEF Start, Jobs

LEMMA ResolveInv == ASSUME IInv, NEW w \in Workers, Resolve(w) PROVE IInv'
<1> DEFINE pc == IF worker[w].pc = "resolve" THEN "recheck" ELSE "prepare"
           s == Resolved(w)
<1>1. /\ worker[w].pc \in {"resolve", "recheck"} /\ worker[w] \in WorkerRows /\ worker[w].batch # <<>>
      /\ worker[w].why # "done" /\ registration.gen \in 0..MaxToken
      /\ Resolves(w, s) /\ UNCHANGED <<alert, calls>>
  <2>1. worker[w].pc \in {"resolve", "recheck"} /\ Resolves(w, s) /\ UNCHANGED <<alert, calls>>
    BY DEF Resolve
  <2>2. worker[w] \in WorkerRows /\ worker[w].batch # <<>>
    BY <2>1, AtWork
  <2>3. worker[w].why # "done"
    BY <2>1 DEF IInv, Phases, Phase
  <2>4. registration \in Registrations
    BY DEF IInv, RowTypes
  <2>5. registration.gen \in 0..MaxToken
    BY <2>4 DEF Registrations
  <2> QED
    BY <2>1, <2>2, <2>3, <2>5
<1>2. CASE ~Authorized
  <2> QED
    BY <1>1, <1>2, ResolvesInv
<1>3. CASE Authorized
  <2>1. Reply(w, s) /\ Quiet
    BY <1>1, <1>3, AllKept DEF Resolves
  <2>2. Keeps(s, worker[w].batch) /\ Plain(s)
    <3> DEFINE q == worker[w]
               r == [q EXCEPT !.gen = registration.gen, !.pc = pc]
    <3>1. s = r /\ pc \in {"recheck", "prepare"}
      BY DEF Resolved
    <3>2. q \in WorkerRows /\ q.batch # <<>> /\ q.why # "done"
      BY <1>1
    <3> HIDE DEF q, pc
    <3>3. r \in WorkerRows /\ r.pc = pc /\ r.batch = q.batch /\ r.why = q.why
      BY <1>1, <3>1, <3>2 DEF WorkerRows, Pcs
    <3> HIDE DEF r
    <3> QED
      BY <3>1, <3>2, <3>3 DEF Keeps, Plain, Busy, q
  <2> QED
    BY <1>1, <2>1, <2>2, PlainStep
<1> QED
  BY <1>2, <1>3

LEMMA OutdatedInv == ASSUME IInv, NEW w \in Workers, Outdated(w) PROVE IInv'
<1>1. worker[w].pc = "prepare" /\ Step(w, Caught(w, "terminal")) /\ Quiet
  BY AllKept DEF Outdated
<1>2. Reply(w, Caught(w, "terminal"))
  BY <1>1 DEF Reply
<1> QED
  BY <1>1, <1>2, Gives

\* The provider's answer is on record only for what its marker names.
LEMMA CallBooks ==
    ASSUME IInv, UNCHANGED <<rows, alert>>, NEW c \in Calls, calls' = calls \cup {c},
           c.result = "accepted" /\ c.job \in Native =>
               receipt[c.job].state # "none" /\ c.mark = receipt[c.job].mark
    PROVE  Books' /\ Counted /\ \A j \in Jobs : Delivered(j) => Delivered(j)'
<1>1. UNCHANGED <<job, receipt, instance, registration, alert>>
  BY DEF rows
<1>2. RowTypes' /\ calls' \subseteq Calls /\ AlertInv' /\ alert' \in [Native -> {"none", "failed", "unconfirmed", "accepted"}]
  BY <1>1 DEF IInv, RowTypes, AlertInv
<1>3. OneCall'
  BY <1>1 DEF IInv, OneCall, Accepted
<1>4. RecordsAreTrue'
  <2>1. \A j \in Jobs : Accepted(j) \subseteq Accepted(j)'
    BY DEF Accepted
  <2> QED
    BY <1>1, <2>1 DEF IInv, RecordsAreTrue, Accepted, Jobs
<1>5. SuccessIsOwn'
  BY <1>1 DEF IInv, SuccessIsOwn
<1>6. Counted /\ \A j \in Jobs : Delivered(j) => Delivered(j)'
  BY <1>1 DEF Counted, IInv, RowTypes, JobRows, Leases, Delivered
<1> QED
  BY <1>2, <1>3, <1>4, <1>5, <1>6 DEF Books

LEMMA SendInv == ASSUME IInv, NEW w \in Workers, Send(w) PROVE IInv'
<1> DEFINE e == Head(worker[w].batch)
<1>1. /\ worker[w].pc = "send" /\ worker[w] \in WorkerRows /\ worker[w].batch # <<>>
      /\ Job(w) \in Jobs /\ Mark(w) \in Marks /\ e \in In(worker[w].batch)
      /\ e.job = Job(w) /\ e.lease = Lease(w) /\ Mark(w).lease = Lease(w)
      /\ UNCHANGED <<rows, alert>>
  BY AtWork DEF Send, Mark
<1>2. Job(w) \in Native => receipt[Job(w)] = [state |-> "prepared", mark |-> Mark(w)] /\ Accepted(Job(w)) = {}
  BY <1>1 DEF IInv, Phases, Phase
<1>3. UNCHANGED <<job, receipt, instance, registration>>
  BY <1>1 DEF rows
\* What is left to prove of each answer.
<1>4. ASSUME NEW r \in WorkerRows, r.batch = worker[w].batch, Step(w, r), r.pc # "idle",
             calls \subseteq calls', Books', Counted, \A j \in Jobs : Delivered(j) => Delivered(j)',
             \A j \in Native : Accepted(j)' = Accepted(j) \/ j = Job(w),
             worker'[w] = r => Phase(w)'
      PROVE  IInv'
  <2>1. worker' = [worker EXCEPT ![w] = r] /\ worker'[w] = r
    BY <1>4 DEF Step, IInv, WorkerTypes
  <2>2. Grows(worker'[w], worker[w].batch)
    BY <1>1, <1>4, <2>1 DEF Grows, Busy
  <2>3. OwnReceipt(w)
    <3>1. ASSUME NEW j \in Native, j = Job(w)
          PROVE  \E d \in In(worker[w].batch) :
                   d.job = j /\ receipt[j].mark.lease = d.lease /\ receipt'[j] = receipt[j]
      BY <1>1, <1>2, <1>3, <3>1
    <3> QED
      BY <1>3, <1>4, <3>1 DEF OwnReceipt
  <2>4. WorkerTypes' /\ Leases' /\ Phases'
    BY <1>4, <2>1, <2>2, <2>3, WorkerStep, Parts DEF Books
  <2> QED
    BY <1>4, <2>4, Parts
<1>5. ASSUME UNCHANGED calls
      PROVE  /\ calls \subseteq calls' /\ Books' /\ Counted
             /\ \A j \in Jobs : Delivered(j) => Delivered(j)'
             /\ \A j \in Native : Accepted(j)' = Accepted(j)
  <2>1. Quiet
    BY <1>1, <1>5, AllKept
  <2> QED
    BY <1>5, <2>1, QuietBooks DEF Quiet, JobsKeep, JobRows, Counted, Accepted
<1>6. ASSUME NEW result \in {"accepted", "rejected"},
             calls' = calls \cup {[job |-> Job(w), mark |-> Mark(w), result |-> result]}
      PROVE  /\ calls \subseteq calls' /\ Books' /\ Counted
             /\ \A j \in Jobs : Delivered(j) => Delivered(j)'
             /\ \A j \in Native : Accepted(j)' = Accepted(j) \/ j = Job(w)
             /\ result = "rejected" => \A j \in Native : Accepted(j)' = Accepted(j)
  <2> DEFINE c == [job |-> Job(w), mark |-> Mark(w), result |-> result]
  <2>1. c \in Calls /\ c.job = Job(w) /\ c.mark = Mark(w) /\ c.result = result
    BY <1>1 DEF Calls
  <2>2. /\ \A j \in Native : Accepted(j)' = Accepted(j) \/ j = Job(w)
        /\ result = "rejected" => \A j \in Native : Accepted(j)' = Accepted(j)
    BY <1>6, <2>1 DEF Accepted
  <2>3. calls' = calls \cup {c}
    BY <1>6
  <2> HIDE DEF c
  <2>4. c.job \in Native => receipt[c.job].state # "none" /\ c.mark = receipt[c.job].mark
    BY <1>2, <2>1
  <2>5. Books' /\ Counted /\ \A j \in Jobs : Delivered(j) => Delivered(j)'
    BY <1>1, <2>1, <2>3, <2>4, CallBooks
  <2> QED
    BY <2>2, <2>3, <2>5
<1>7. CASE Accepts(w) /\ Step(w, To(w, "record"))
  <2>1. /\ To(w, "record") \in WorkerRows /\ To(w, "record").pc = "record"
        /\ To(w, "record").batch = worker[w].batch /\ To(w, "record").gen = worker[w].gen
        /\ To(w, "record").why # "done"
    BY <1>1, Goes DEF Pcs, Keeps
  <2>2. calls' = calls \cup {[job |-> Job(w), mark |-> Mark(w), result |-> "accepted"]}
    BY <1>7 DEF Accepts
  <2>3. worker'[w] = To(w, "record") => Phase(w)'
    BY <2>1, <2>2 DEF Phase, Job, Mark, Lease
  <2> QED
    BY <1>4, <1>6, <1>7, <2>1, <2>2, <2>3
<1>8. CASE (Accepts(w) \/ UNCHANGED calls) /\ Step(w, Caught(w, "terminal"))
  <2>1. Caught(w, "terminal") \in WorkerRows /\ Plain(Caught(w, "terminal"))
    BY <1>1, Endings DEF Keeps
  <2>2. Caught(w, "terminal").batch = worker[w].batch /\ Caught(w, "terminal").pc # "idle"
    <3>1. worker[w].pc \in Pcs
      BY <1>1 DEF WorkerRows
    <3> DEFINE q == worker[w]
    <3>2. Caught(w, "terminal") = [q EXCEPT !.why = "terminal", !.pc = AfterBlame(w)]
      BY DEF Caught
    <3> HIDE DEF q
    <3> QED
      BY <1>1, <3>2 DEF AfterBlame, WorkerRows, q
  <2>3. worker'[w] = Caught(w, "terminal") => Phase(w)'
    BY <2>1, PlainPhase
  <2>4. Accepts(w) => calls' = calls \cup {[job |-> Job(w), mark |-> Mark(w), result |-> "accepted"]}
    BY DEF Accepts
  <2> QED
    BY <1>4, <1>5, <1>6, <1>8, <2>1, <2>2, <2>3, <2>4
\* A refusal leaves the receipt as it was when the call was made.
<1>9. ASSUME NEW why \in {"retry", "rejected"}, Step(w, [worker[w] EXCEPT !.pc = "release", !.why = why]),
             calls \subseteq calls', Books', Counted, \A j \in Jobs : Delivered(j) => Delivered(j)',
             \A j \in Native : Accepted(j)' = Accepted(j),
             why = "rejected" => [job |-> Job(w), mark |-> Mark(w), result |-> "rejected"] \in calls'
      PROVE  IInv'
  <2> DEFINE r == Turn(worker[w], "release", why)
  <2>1. Step(w, r)
    BY <1>9 DEF Turn
  <2>2. r \in WorkerRows /\ r.pc = "release" /\ r.batch = worker[w].batch /\ r.gen = worker[w].gen /\ r.why = why
    BY <1>1, WorkerUpdates DEF Pcs, Whys
  <2> HIDE DEF r
  <2>3. worker'[w] = r => Phase(w)'
    <3> SUFFICES ASSUME worker'[w] = r PROVE Phase(w)'
      OBVIOUS
    <3>1. Job(w)' = Job(w) /\ Mark(w)' = Mark(w) /\ Lease(w)' = Lease(w)
      BY <2>2 DEF Job, Mark, Lease
    <3>2. Job(w) \in Native => {c \in calls' : c.job = Job(w) /\ c.result = "accepted"} = {}
      <4> SUFFICES ASSUME NEW j \in Native, j = Job(w)
                   PROVE  {c \in calls' : c.job = j /\ c.result = "accepted"} = {}
        OBVIOUS
      <4>1. Accepted(j)' = {}
        BY <1>2, <1>9
      <4> QED
        BY <4>1 DEF Accepted
    <3> QED
      BY <1>9, <2>2, <3>1, <3>2 DEF Phase, Accepted
  <2> QED
    BY <1>4, <1>9, <2>1, <2>2, <2>3
<1>10. CASE UNCHANGED calls /\ Step(w, [worker[w] EXCEPT !.pc = "release", !.why = "retry"])
  BY <1>5, <1>9, <1>10
<1>11. CASE Rejects(w) /\ Step(w, [worker[w] EXCEPT !.pc = "release", !.why = "rejected"])
  <2>1. calls' = calls \cup {[job |-> Job(w), mark |-> Mark(w), result |-> "rejected"]}
    BY <1>11 DEF Rejects
  <2> QED
    BY <1>6, <1>9, <1>11, <2>1
<1> QED
  BY <1>7, <1>8, <1>10, <1>11 DEF Send

\* A worker that writes the row of its own delivery.
LEMMA OwnStep ==
    ASSUME IInv, NEW w \in Workers, worker[w].pc \notin {"idle", "claiming", "send"}, NEW s,
           Keeps(s, worker[w].batch), Reply(w, s), worker'[w] = s /\ ~Plain(s) => Phase(w)',
           UNCHANGED calls, OwnReceipt(w), Counted, Books',
           \A j \in Jobs : Delivered(j) => Delivered(j)'
    PROVE  IInv'
<1>1. /\ worker'[w] = s \/ Plain(worker'[w])
      /\ Keeps(worker'[w], worker[w].batch)
      /\ worker' = [worker EXCEPT ![w] = worker'[w]]
  BY Replies DEF IInv, Phases
<1>2. Phase(w)'
  BY <1>1, PlainPhase
<1>3. Grows(worker'[w], worker[w].batch)
  BY <1>1 DEF Keeps, Grows
<1>4. WorkerTypes' /\ Leases' /\ Phases'
  BY <1>1, <1>2, <1>3, Parts, WorkerStep DEF Books
<1> QED
  BY <1>4, Parts

LEMMA SameJobs == ASSUME IInv, UNCHANGED job PROVE Counted
BY DEF IInv, RowTypes, Leases, JobRows, Counted

\* The phase of a worker whose delivery is done.
LEMMA DonePhase ==
    ASSUME IInv, NEW w \in Workers, worker[w].pc \notin {"idle", "claiming"}, NEW j \in Jobs, j = Job(w),
           worker'[w] = Ends(w, "done"), Delivered(j)'
    PROVE  Phase(w)'
<1>1. Ends(w, "done").batch = worker[w].batch /\ Ends(w, "done").pc = "finish"
  BY AtWork, Endings DEF Whys
<1>2. worker'[w].pc = "finish" /\ Job(w)' = j
  BY <1>1 DEF Job
<1>3. Delivered(Job(w))'
  BY <1>2 DEF Delivered
<1> QED
  BY <1>2, <1>3 DEF Phase

LEMMA PrepareNativeInv == ASSUME IInv, NEW w \in Workers, PrepareNative(w) PROVE IInv'
<1> SUFFICES ASSUME NEW j \in Jobs, j = Job(w) PROVE IInv'
  BY AtWork DEF PrepareNative
<1>1. /\ worker[w].pc = "prepare" /\ j \in Native /\ worker[w].batch # <<>>
      /\ Mark(w) \in Marks /\ Mark(w).lease = Lease(w) /\ Lease(w) = Head(worker[w].batch).lease
      /\ Head(worker[w].batch) \in In(worker[w].batch) /\ Head(worker[w].batch).job = j
      /\ UNCHANGED <<alert, calls>> /\ "send" \in Pcs
  BY AtWork DEF PrepareNative, Mark, Pcs
<1>2. CASE ~Authorized
  BY <1>1, <1>2, ResolvesInv DEF PrepareNative
<1>3. CASE UNCHANGED rows /\ Reply(w, Caught(w, "terminal"))
  <2>1. Quiet
    BY <1>1, <1>3, AllKept
  <2> QED
    BY <1>1, <1>3, <2>1, Gives
<1>4. CASE /\ LeaseCurrent(j, Lease(w)) /\ receipt[j].state = "none"
           /\ receipt' = [receipt EXCEPT ![j] = [state |-> "prepared", mark |-> Mark(w)]]
           /\ Reply(w, To(w, "send"))
           /\ UNCHANGED <<job, instance, registration>>
  <2> DEFINE s == To(w, "send")
  <2>1. Keeps(s, worker[w].batch) /\ s.pc = "send" /\ s.batch = worker[w].batch /\ s.gen = worker[w].gen /\ s.why # "done"
    BY <1>1, Goes
  <2>2. receipt' \in [Native -> Receipts] /\ receipt'[j] = [state |-> "prepared", mark |-> Mark(w)]
        /\ \A k \in Native : k # j => receipt'[k] = receipt[k]
    BY <1>1, <1>4 DEF IInv, RowTypes, Receipts
  <2>3. Accepted(j) = {}
    BY <1>1, <1>4 DEF IInv, OneCall
  <2>4. job[j].status = "leased" /\ alert[j] = "none"
    BY <1>1, <1>4 DEF LeaseCurrent, IInv, AlertInv
  <2>5. \A k \in Native : Accepted(k)' = Accepted(k)
    BY <1>1 DEF Accepted
  <2>6. \A k \in Jobs : Delivered(k) => Delivered(k)'
    BY <1>4, <2>2 DEF Delivered
  <2>7. OwnReceipt(w)
    <3>1. \E e \in In(worker[w].batch) : e.job = j /\ receipt[j].state = "none" /\ receipt'[j].mark.lease = e.lease
      BY <1>1, <1>4, <2>2
    <3> QED
      BY <2>2, <2>5, <3>1 DEF OwnReceipt
  <2>8. Books'
    <3>1. RowTypes' /\ calls' \subseteq Calls /\ alert' \in [Native -> {"none", "failed", "unconfirmed", "accepted"}]
      BY <1>1, <1>4, <2>2 DEF IInv, RowTypes
    <3>2. OneCall'
      BY <2>2, <2>3, <2>5 DEF IInv, OneCall
    <3>3. RecordsAreTrue'
      <4>1. \A k \in Native : receipt'[k].state = "delivered" => \E c \in Accepted(k)' : c.mark = receipt'[k].mark
        BY <2>2, <2>5 DEF IInv, RecordsAreTrue
      <4>2. \A k \in Jobs : job'[k].status = "completed" =>
               IF k \in Native THEN receipt'[k].state = "delivered" ELSE instance'[k].state = "sent"
        BY <1>4, <2>2, <2>4 DEF IInv, RecordsAreTrue
      <4>3. \A k \in Reminders : instance'[k].state = "sent" => \E c \in Accepted(k)' : c.mark = instance'[k].mark
        BY <1>1, <1>4 DEF IInv, RecordsAreTrue, Accepted
      <4> QED
        BY <1>4, <4>1, <4>2, <4>3 DEF IInv, RecordsAreTrue, Accepted
    <3>4. SuccessIsOwn'
      BY <1>1, <1>4 DEF IInv, SuccessIsOwn
    <3>5. AlertInv'
      BY <1>1, <1>4, <2>2, <2>4 DEF IInv, AlertInv
    <3> QED
      BY <3>1, <3>2, <3>3, <3>4, <3>5 DEF Books
  <2>9. worker'[w] = s => Phase(w)'
    <3> SUFFICES ASSUME worker'[w] = s PROVE Phase(w)'
      OBVIOUS
    <3>1. Job(w)' = j /\ Mark(w)' = Mark(w)
      BY <2>1 DEF Job, Mark, Lease
    <3>2. {c \in calls' : c.job = j /\ c.result = "accepted"} = {}
      BY <1>1, <2>3 DEF Accepted
    <3> QED
      BY <2>1, <2>2, <3>1, <3>2 DEF Phase, Accepted
  <2> HIDE DEF s
  <2>10. Counted
    BY <1>4, SameJobs
  <2> QED
    BY <1>1, <1>4, <2>1, <2>6, <2>7, <2>8, <2>9, <2>10, OwnStep DEF s
<1> QED
  BY <1>2, <1>3, <1>4 DEF PrepareNative
LEMMA RecordNativeInv == ASSUME IInv, NEW w \in Workers, RecordNative(w) PROVE IInv'
<1> SUFFICES ASSUME NEW j \in Jobs, j = Job(w) PROVE IInv'
  BY AtWork DEF RecordNative
<1>1. /\ worker[w].pc = "record" /\ j \in Native /\ worker[w].batch # <<>>
      /\ Mark(w) \in Marks /\ Mark(w).lease = Lease(w) /\ Lease(w) = Head(worker[w].batch).lease
      /\ Mark(w).gen = worker[w].gen
      /\ Head(worker[w].batch) \in In(worker[w].batch) /\ Head(worker[w].batch).job = j
      /\ UNCHANGED <<alert, calls>>
  BY AtWork DEF RecordNative, Mark
<1>2. CASE ~Authorized
  BY <1>1, <1>2, ResolvesInv DEF RecordNative
<1>3. CASE UNCHANGED rows /\ Reply(w, Caught(w, "terminal"))
  <2>1. Quiet
    BY <1>1, <1>3, AllKept
  <2> QED
    BY <1>1, <1>3, <2>1, Gives
<1>4. CASE /\ registration.gen = worker[w].gen /\ LeaseCurrent(j, Lease(w))
           /\ receipt[j] = [state |-> "prepared", mark |-> Mark(w)]
           /\ receipt' = [receipt EXCEPT ![j] = [receipt[j] EXCEPT !.state = "delivered"]]
           /\ registration' = [registration EXCEPT !.success = TRUE]
           /\ Reply(w, Ends(w, "done"))
           /\ UNCHANGED <<job, instance>>
  <2> DEFINE s == Ends(w, "done")
             c == [job |-> j, mark |-> Mark(w), result |-> "accepted"]
  <2>1. Keeps(s, worker[w].batch)
    BY <1>1, AtWork, Endings DEF Whys
  <2>2. c \in calls /\ c.job = j /\ c.mark = Mark(w) /\ c.result = "accepted"
    BY <1>1 DEF IInv, Phases, Phase
  <2>3. /\ receipt' \in [Native -> Receipts] /\ receipt'[j].state = "delivered" /\ receipt'[j].mark = Mark(w)
        /\ \A k \in Native : k # j => receipt'[k] = receipt[k]
    <3>1. [receipt[j] EXCEPT !.state = "delivered"] = [state |-> "delivered", mark |-> Mark(w)]
      BY <1>4
    <3> QED
      BY <1>1, <1>4, <3>1 DEF IInv, RowTypes, Receipts
  <2>4. job[j].status = "leased" /\ alert[j] = "none"
    BY <1>1, <1>4 DEF LeaseCurrent, IInv, AlertInv
  <2>5. \A k \in Native : Accepted(k)' = Accepted(k)
    BY <1>1 DEF Accepted
  <2> HIDE DEF s, c
  <2>6. \A k \in Jobs : Delivered(k) => Delivered(k)'
    BY <1>4, <2>3 DEF Delivered
  <2>7. OwnReceipt(w)
    <3>1. \E e \in In(worker[w].batch) :
             e.job = j /\ receipt[j].mark.lease = e.lease /\ receipt'[j].state # "prepared"
      BY <1>1, <1>4, <2>3
    <3> QED
      BY <2>3, <2>5, <3>1 DEF OwnReceipt
  <2>8. Books'
    <3>1. RowTypes' /\ calls' \subseteq Calls /\ alert' \in [Native -> {"none", "failed", "unconfirmed", "accepted"}]
      BY <1>1, <1>4, <2>3 DEF IInv, RowTypes, Registrations
    <3>2. OneCall'
      BY <1>4, <2>3, <2>5 DEF IInv, OneCall
    <3>3. RecordsAreTrue'
      <4>1. ASSUME NEW k \in Native, receipt'[k].state = "delivered"
            PROVE  \E d \in Accepted(k)' : d.mark = receipt'[k].mark
        <5>1. CASE k = j
          BY <2>2, <2>3, <2>5, <5>1 DEF Accepted
        <5>2. CASE k # j
          BY <2>3, <2>5, <4>1, <5>2 DEF IInv, RecordsAreTrue
        <5> QED
          BY <5>1, <5>2
      <4>2. \A k \in Jobs : job'[k].status = "completed" =>
               IF k \in Native THEN receipt'[k].state = "delivered" ELSE instance'[k].state = "sent"
        BY <1>4, <2>3, <2>4 DEF IInv, RecordsAreTrue
      <4>3. \A k \in Reminders : instance'[k].state = "sent" => \E d \in Accepted(k)' : d.mark = instance'[k].mark
        BY <1>1, <1>4 DEF IInv, RecordsAreTrue, Accepted
      <4> QED
        BY <1>4, <4>1, <4>2, <4>3 DEF IInv, RecordsAreTrue, Accepted
    <3>4. SuccessIsOwn'
      BY <1>1, <1>4, <2>2 DEF IInv, RowTypes, Registrations, SuccessIsOwn
    <3>5. AlertInv'
      BY <1>1, <1>4, <2>3, <2>4 DEF IInv, AlertInv
    <3> QED
      BY <3>1, <3>2, <3>3, <3>4, <3>5 DEF Books
  <2>9. worker'[w] = s => Phase(w)'
    <3>1. Delivered(j)'
      BY <1>1, <2>3 DEF Delivered
    <3> QED
      BY <1>1, <3>1, DonePhase DEF s
  <2>10. Counted
    BY <1>4, SameJobs
  <2> QED
    BY <1>1, <1>4, <2>1, <2>6, <2>7, <2>8, <2>9, <2>10, OwnStep DEF s
<1> QED
  BY <1>2, <1>3, <1>4 DEF RecordNative

\* One reminder's row.
LEMMA OneInstance ==
    ASSUME IInv, NEW j \in Reminders, NEW i \in Instances, instance' = [instance EXCEPT ![j] = i],
           i.state = "sent" <=> instance[j].state = "sent", i.state = "sent" => i.mark = instance[j].mark,
           i.state # "pending"
    PROVE  InstancesKeep
<1>1. /\ instance' \in [Reminders -> Instances] /\ instance'[j] = i
      /\ \A k \in Reminders : k # j => instance'[k] = instance[k]
  BY DEF IInv, RowTypes
<1> QED
  BY <1>1 DEF IInv, RecordsAreTrue, InstancesKeep

LEMMA ClaimReminderInv == ASSUME IInv, NEW w \in Workers, ClaimReminder(w) PROVE IInv'
<1> SUFFICES ASSUME NEW j \in Jobs, j = Job(w) PROVE IInv'
  BY AtWork DEF ClaimReminder
<1>1. /\ worker[w].pc = "prepare" /\ j \in Reminders /\ j \notin Native /\ worker[w].batch # <<>>
      /\ Mark(w) \in Marks /\ UNCHANGED <<alert, calls>> /\ "send" \in Pcs
      /\ instance \in [Reminders -> Instances]
  BY AtWork DEF ClaimReminder, Pcs, IInv, RowTypes
<1> DEFINE i == instance[j]
<1>7. i \in Instances /\ Mark(w) \in Marks
  BY <1>1
<1>8. /\ Dispatched(i, Mark(w)) \in Instances /\ Dispatched(i, Mark(w)).state = "leased"
      /\ \A why \in BOOLEAN : Cancel(i, why) \in Instances /\ Cancel(i, why).state = "cancelled"
  <2> SUFFICES ASSUME NEW r \in Instances, NEW m \in Marks, NEW why \in BOOLEAN
               PROVE  /\ Dispatched(r, m) \in Instances /\ Dispatched(r, m).state = "leased"
                      /\ Cancel(r, why) \in Instances /\ Cancel(r, why).state = "cancelled"
    BY <1>7
  <2>1. Dispatched(r, m) \in Instances /\ Dispatched(r, m).state = "leased"
    BY InstanceUpdates, ZenonT(30)
  <2>2. Cancel(r, why) \in Instances /\ Cancel(r, why).state = "cancelled"
    BY InstanceUpdates, ZenonT(30)
  <2> QED
    BY <2>1, <2>2
<1>2. CASE ~Authorized
  BY <1>1, <1>2, ResolvesInv DEF ClaimReminder
<1>3. CASE UNCHANGED rows /\ Reply(w, Caught(w, "terminal"))
  <2>1. Quiet
    BY <1>1, <1>3, AllKept
  <2> QED
    BY <1>1, <1>3, <2>1, Gives
<1>4. CASE UNCHANGED rows /\ instance[j].state = "sent" /\ Reply(w, Ends(w, "done"))
  <2>1. Quiet
    BY <1>1, <1>4, AllKept
  <2>2. Delivered(Job(w))
    BY <1>1, <1>4 DEF Delivered
  <2> QED
    BY <1>1, <1>4, <2>1, <2>2, IsDone
<1>5. CASE /\ UNCHANGED <<job, receipt, registration>> /\ instance[j].state \in {"pending", "failed"}
           /\ instance' = [instance EXCEPT ![j] = Dispatched(instance[j], Mark(w))]
           /\ Reply(w, To(w, "send"))
  <2>1. Dispatched(instance[j], Mark(w)) \in Instances /\ Dispatched(instance[j], Mark(w)).state = "leased"
    BY <1>8
  <2>2. InstancesKeep
    BY <1>1, <1>5, <2>1, OneInstance
  <2>3. Quiet
    BY <1>1, <1>5, <2>2, KeptRows DEF Quiet
  <2> DEFINE s == To(w, "send")
  <2>4. Keeps(s, worker[w].batch) /\ s.pc = "send" /\ s.batch = worker[w].batch /\ s.why # "done"
    BY <1>1, Goes
  <2>5. worker'[w] = s => Phase(w)'
    BY <1>1, <2>4 DEF Phase, Job
  <2> HIDE DEF s
  <2> QED
    BY <1>1, <1>5, <2>3, <2>4, <2>5, PlainStep DEF s
<1>6. CASE /\ UNCHANGED <<job, receipt, registration>> /\ Reply(w, Caught(w, "terminal"))
           /\ \E why \in BOOLEAN : instance' = [instance EXCEPT ![j] =
                 IF Unsent(instance[j]) THEN Cancel(instance[j], why) ELSE instance[j]]
  <2>1. PICK why \in BOOLEAN : instance' = [instance EXCEPT ![j] =
                 IF Unsent(instance[j]) THEN Cancel(instance[j], why) ELSE instance[j]]
    BY <1>6
  <2>2. Quiet
    <3>1. CASE Unsent(instance[j])
      <4>1. Cancel(instance[j], why) \in Instances /\ Cancel(instance[j], why).state = "cancelled"
        BY <1>8
      <4>2. InstancesKeep
        BY <1>1, <2>1, <3>1, <4>1, OneInstance DEF Unsent
      <4> QED
        BY <1>1, <1>6, <4>2, KeptRows DEF Quiet
    <3>2. CASE ~Unsent(instance[j])
      <4>1. UNCHANGED instance
        BY <1>1, <2>1, <3>2
      <4> QED
        BY <1>1, <1>6, <4>1, AllKept DEF rows
    <3> QED
      BY <3>1, <3>2
  <2> QED
    BY <1>1, <1>6, <2>2, Gives
<1> QED
  BY <1>2, <1>3, <1>4, <1>5, <1>6 DEF ClaimReminder, MayDispatch, LeaseCurrent

LEMMA RecordReminderInv == ASSUME IInv, NEW w \in Workers, RecordReminder(w) PROVE IInv'
<1> SUFFICES ASSUME NEW j \in Jobs, j = Job(w) PROVE IInv'
  BY AtWork DEF RecordReminder
<1>1. /\ worker[w].pc = "record" /\ j \in Reminders /\ j \notin Native /\ worker[w].batch # <<>>
      /\ Mark(w) \in Marks /\ Mark(w).gen = worker[w].gen /\ UNCHANGED <<alert, calls>>
      /\ instance[j] \in Instances /\ instance \in [Reminders -> Instances]
  BY AtWork DEF RecordReminder, IInv, RowTypes, Mark
<1> DEFINE i == instance[j]
<1>2. CASE ~Authorized
  BY <1>1, <1>2, ResolvesInv DEF RecordReminder
<1>3. CASE /\ instance' = [instance EXCEPT ![j] = IF Unsent(i) THEN Cancel(i, FALSE) ELSE i]
           /\ UNCHANGED <<job, receipt, registration>> /\ Reply(w, Caught(w, "terminal"))
  <2>1. Quiet
    <3>1. CASE Unsent(i)
      <4>1. i \in Instances
        BY <1>1
      <4>2. Cancel(i, FALSE) \in Instances /\ Cancel(i, FALSE).state = "cancelled"
        <5> HIDE DEF i
        <5> QED
          BY <4>1, InstanceUpdates
      <4>3. InstancesKeep
        BY <1>1, <1>3, <3>1, <4>2, OneInstance DEF Unsent
      <4> QED
        BY <1>1, <1>3, <4>3, KeptRows DEF Quiet
    <3>2. CASE ~Unsent(i)
      <4>1. UNCHANGED instance
        BY <1>1, <1>3, <3>2
      <4> QED
        BY <1>1, <1>3, <4>1, AllKept DEF rows
    <3> QED
      BY <3>1, <3>2
  <2> QED
    BY <1>1, <1>3, <2>1, Gives
<1>4. CASE /\ registration.gen = worker[w].gen /\ LeaseCurrent(j, Lease(w))
           /\ i.state = "leased" /\ i.mark = Mark(w)
           /\ instance' = [instance EXCEPT ![j] = [i EXCEPT !.state = "sent"]]
           /\ registration' = [registration EXCEPT !.success = TRUE]
           /\ Reply(w, Ends(w, "done"))
           /\ UNCHANGED <<job, receipt>>
  <2> DEFINE s == Ends(w, "done")
             c == [job |-> j, mark |-> Mark(w), result |-> "accepted"]
  <2>1. Keeps(s, worker[w].batch)
    BY <1>1, AtWork, Endings DEF Whys
  <2>2. c \in calls /\ c.job = j /\ c.mark = Mark(w) /\ c.result = "accepted"
    BY <1>1 DEF IInv, Phases, Phase
  <2>3. /\ instance' \in [Reminders -> Instances] /\ instance'[j].state = "sent" /\ instance'[j].mark = Mark(w)
        /\ \A k \in Reminders : k # j => instance'[k] = instance[k]
    <3>1. /\ [i EXCEPT !.state = "sent"] \in Instances /\ [i EXCEPT !.state = "sent"].state = "sent"
          /\ [i EXCEPT !.state = "sent"].mark = i.mark
      <4>1. i \in Instances
        BY <1>1
      <4> HIDE DEF i
      <4> QED
        BY <4>1, InstanceUpdates
    <3> QED
      BY <1>1, <1>4, <3>1
  <2>4. \A k \in Jobs : Accepted(k)' = Accepted(k)
    BY <1>1 DEF Accepted
  <2> HIDE DEF s, c, i
  <2>5. \A k \in Jobs : Delivered(k) => Delivered(k)'
    BY <1>4, <2>3 DEF Delivered, Jobs
  <2>6. OwnReceipt(w)
    BY <1>4, <2>4 DEF OwnReceipt, Jobs
  <2>7. Books'
    <3>1. RowTypes' /\ calls' \subseteq Calls /\ alert' \in [Native -> {"none", "failed", "unconfirmed", "accepted"}]
      BY <1>1, <1>4, <2>3 DEF IInv, RowTypes, Registrations
    <3>2. OneCall' /\ AlertInv'
      BY <1>1, <1>4, <2>4 DEF IInv, OneCall, AlertInv, Jobs, Accepted
    <3>3. RecordsAreTrue'
      <4>1. ASSUME NEW k \in Reminders, instance'[k].state = "sent"
            PROVE  \E d \in Accepted(k)' : d.mark = instance'[k].mark
        <5>1. CASE k = j
          BY <1>1, <2>2, <2>3, <5>1 DEF Accepted
        <5>2. CASE k # j
          BY <2>3, <2>4, <4>1, <5>2 DEF IInv, RecordsAreTrue, Jobs
        <5> QED
          BY <5>1, <5>2
      <4>2. ASSUME NEW k \in Jobs, job'[k].status = "completed"
            PROVE  IF k \in Native THEN receipt'[k].state = "delivered" ELSE instance'[k].state = "sent"
        BY <1>4, <2>3, <4>2 DEF IInv, RecordsAreTrue, Jobs
      <4>3. \A k \in Native : receipt'[k].state = "delivered" => \E d \in Accepted(k)' : d.mark = receipt'[k].mark
        BY <1>4, <2>4 DEF IInv, RecordsAreTrue, Jobs
      <4>4. \A k \in Reminders : instance'[k].mark # NoMark => instance'[k].state # "pending"
        BY <2>3 DEF IInv, RecordsAreTrue
      <4> QED
        BY <4>1, <4>2, <4>3, <4>4 DEF RecordsAreTrue, Accepted
    <3>4. SuccessIsOwn'
      BY <1>1, <1>4, <2>2 DEF IInv, RowTypes, Registrations, SuccessIsOwn
    <3> QED
      BY <3>1, <3>2, <3>3, <3>4 DEF Books
  <2>8. worker'[w] = s => Phase(w)'
    <3>1. Delivered(j)'
      BY <1>1, <2>3 DEF Delivered
    <3> QED
      BY <1>1, <3>1, DonePhase DEF s
  <2>9. Counted
    BY <1>4, SameJobs
  <2> QED
    BY <1>1, <1>4, <2>1, <2>5, <2>6, <2>7, <2>8, <2>9, OwnStep DEF s
<1> QED
  BY <1>2, <1>3, <1>4 DEF RecordReminder

LEMMA ReleaseInv == ASSUME IInv, NEW w \in Workers, Release(w) PROVE IInv'
<1> SUFFICES ASSUME NEW j \in Jobs, j = Job(w) PROVE IInv'
  BY AtWork DEF Release
<1>1. /\ worker[w].pc = "release" /\ worker[w].batch # <<>> /\ "blame" \in Pcs /\ "terminal" \in Whys
      /\ Mark(w) \in Marks /\ Mark(w).lease = Lease(w) /\ Lease(w) = Head(worker[w].batch).lease
      /\ Head(worker[w].batch) \in In(worker[w].batch) /\ Head(worker[w].batch).job = j
      /\ UNCHANGED <<job, registration, alert, calls>>
  BY AtWork DEF Release, Pcs, Whys, Mark
<1> DEFINE s == Released(w)
<1>2. /\ s = To(w, "blame") /\ Keeps(s, worker[w].batch) /\ s.pc = "blame" /\ s.batch = worker[w].batch
      /\ s.gen = worker[w].gen /\ s.why # "done" /\ s.why = worker[w].why
  <2>1. s = To(w, "blame")
    BY DEF Released, To
  <2>2. s.why = worker[w].why
    BY AtWork, <1>1 DEF Released, WorkerRows
  <2> HIDE DEF s
  <2> QED
    BY <1>1, <2>1, <2>2, Goes
<1> HIDE DEF s
<1>3. worker'[w] = s => Phase(w)'
  <2> SUFFICES ASSUME worker'[w] = s PROVE Phase(w)'
    OBVIOUS
  <2>1. Job(w)' = Job(w) /\ Mark(w)' = Mark(w)
    BY <1>2 DEF Job, Mark, Lease
  <2>2. worker[w].why = "rejected" => [job |-> Job(w), mark |-> Mark(w), result |-> "rejected"] \in calls
    BY <1>1 DEF IInv, Phases, Phase
  <2> QED
    BY <1>1, <1>2, <2>1, <2>2 DEF Phase
<1>4. CASE UNCHANGED <<receipt, instance>> /\ Reply(w, Ends(w, "terminal"))
  <2>1. Quiet
    BY <1>1, <1>4, AllKept DEF rows
  <2>2. Keeps(Ends(w, "terminal"), worker[w].batch) /\ Plain(Ends(w, "terminal"))
    BY <1>1, AtWork, Endings DEF Plain
  <2> QED
    BY <1>1, <1>4, <2>1, <2>2, PlainStep
<1>5. CASE /\ j \in Reminders /\ instance[j].state = "leased" /\ UNCHANGED receipt
           /\ instance' = [instance EXCEPT ![j] = Undone(instance[j])] /\ Reply(w, Released(w))
  <2> DEFINE i == instance[j]
  <2>1. i \in Instances
    BY <1>5 DEF IInv, RowTypes
  <2>2. Undone(i) \in Instances /\ Undone(i).state = "failed"
    <3> HIDE DEF i
    <3> QED
      BY <2>1, InstanceUpdates
  <2>3. InstancesKeep
    BY <1>5, <2>2, OneInstance
  <2>4. Quiet
    BY <1>1, <1>5, <2>3, KeptRows DEF Quiet
  <2> QED
    BY <1>1, <1>2, <1>3, <1>5, <2>4, PlainStep DEF s
<1>6. CASE /\ j \in Native /\ LeaseCurrent(j, Lease(w)) /\ UNCHANGED instance
           /\ receipt[j] = [state |-> "prepared", mark |-> Mark(w)]
           /\ receipt' = [receipt EXCEPT ![j] = [state |-> "none", mark |-> NoMark]] /\ Reply(w, Released(w))
  <2>1. /\ receipt' \in [Native -> Receipts] /\ receipt'[j].state = "none"
        /\ \A k \in Native : k # j => receipt'[k] = receipt[k]
    <3>1. [state |-> "none", mark |-> NoMark] \in Receipts
      BY DEF Receipts, NoMark, Marks
    <3> QED
      BY <1>6, <3>1 DEF IInv, RowTypes
  <2>2. Accepted(j) = {}
    BY <1>1, <1>6 DEF IInv, Phases, Phase
  <2>3. job[j].status = "leased" /\ alert[j] = "none"
    BY <1>6 DEF LeaseCurrent, IInv, AlertInv
  <2>4. \A k \in Jobs : Accepted(k)' = Accepted(k)
    BY <1>1 DEF Accepted
  <2>5. \A k \in Jobs : Delivered(k) => Delivered(k)'
    BY <1>6, <2>1 DEF Delivered
  <2>6. OwnReceipt(w)
    <3>1. \E e \in In(worker[w].batch) :
             e.job = j /\ receipt[j].mark.lease = e.lease /\ receipt'[j].state # "prepared"
      BY <1>1, <1>6, <2>1
    <3> QED
      BY <2>1, <2>4, <3>1 DEF OwnReceipt, Jobs
  <2>7. Books'
    <3>1. RowTypes' /\ calls' \subseteq Calls /\ alert' \in [Native -> {"none", "failed", "unconfirmed", "accepted"}]
      BY <1>1, <1>6, <2>1 DEF IInv, RowTypes
    <3>2. OneCall'
      BY <2>1, <2>2, <2>4 DEF IInv, OneCall, Jobs
    <3>3. RecordsAreTrue'
      <4>1. \A k \in Native : receipt'[k].state = "delivered" => \E c \in Accepted(k)' : c.mark = receipt'[k].mark
        BY <2>1, <2>4 DEF IInv, RecordsAreTrue, Jobs
      <4>2. \A k \in Jobs : job'[k].status = "completed" =>
               IF k \in Native THEN receipt'[k].state = "delivered" ELSE instance'[k].state = "sent"
        BY <1>1, <1>6, <2>1, <2>3 DEF IInv, RecordsAreTrue
      <4>3. \A k \in Reminders : instance'[k].state = "sent" => \E c \in Accepted(k)' : c.mark = instance'[k].mark
        BY <1>6, <2>4 DEF IInv, RecordsAreTrue, Jobs
      <4> QED
        BY <1>6, <4>1, <4>2, <4>3 DEF IInv, RecordsAreTrue, Accepted
    <3>4. SuccessIsOwn'
      BY <1>1 DEF IInv, SuccessIsOwn
    <3>5. AlertInv'
      BY <1>1, <2>1, <2>3 DEF IInv, AlertInv
    <3> QED
      BY <3>1, <3>2, <3>3, <3>4, <3>5 DEF Books
  <2>8. Counted
    BY <1>1, SameJobs
  <2> QED
    BY <1>1, <1>2, <1>3, <1>6, <2>5, <2>6, <2>7, <2>8, OwnStep DEF s
<1> QED
  BY <1>4, <1>5, <1>6 DEF Release, Jobs

LEMMA BlameInv == ASSUME IInv, NEW w \in Workers, Blame(w) PROVE IInv'
<1> DEFINE q == worker[w]
           why == IF TokenCurrent(w) THEN q.why ELSE "retry"
           s == Turn(q, AfterBlame(w), why)
<1>1. q \in WorkerRows /\ q.pc = "blame" /\ q.batch # <<>> /\ UNCHANGED <<job, receipt, instance, alert, calls>>
  BY AtWork DEF Blame
<1>2. AfterBlame(w) \in {"clear", "finish"} /\ AfterBlame(w) \in Pcs /\ why \in Whys /\ why # "done"
  <2>1. q.why \in Whys /\ q.why # "done"
    BY <1>1 DEF WorkerRows, IInv, Phases, Phase
  <2> HIDE DEF q
  <2> QED
    BY <2>1 DEF AfterBlame, Pcs, Whys
<1>3. Reply(w, s)
  BY DEF Blame, Turn
<1>4. Keeps(s, worker[w].batch) /\ Plain(s)
  <2> DEFINE pc == AfterBlame(w)
  <2>1. pc \in {"clear", "finish"} /\ pc \in Pcs
    BY <1>2
  <2> HIDE DEF q, why, pc
  <2>2. Turn(q, pc, why) \in WorkerRows /\ Turn(q, pc, why).pc = pc /\ Turn(q, pc, why).batch = q.batch
        /\ Turn(q, pc, why).why = why
    BY <1>1, <1>2, <2>1, WorkerUpdates
  <2>3. Keeps(Turn(q, pc, why), q.batch) /\ Plain(Turn(q, pc, why))
    BY <1>1, <1>2, <2>1, <2>2 DEF Keeps, Plain, Busy
  <2> QED
    BY <2>3 DEF q, pc
<1>5. Quiet
  <2>1. RegistrationKeeps
    BY DEF Blame, RegistrationKeeps, IInv, RowTypes, Registrations
  <2> QED
    BY <1>1, <2>1, KeptRows DEF Quiet
<1> HIDE DEF s
<1> QED
  BY <1>1, <1>3, <1>4, <1>5, PlainStep

LEMMA ClearInv == ASSUME IInv, NEW w \in Workers, Clear(w) PROVE IInv'
<1> SUFFICES ASSUME NEW j \in Jobs, j = Job(w) PROVE IInv'
  BY AtWork DEF Clear
<1>1. /\ worker[w].pc = "clear" /\ worker[w].batch # <<>> /\ "finish" \in Pcs
      /\ UNCHANGED <<job, receipt, registration, alert, calls>> /\ Reply(w, To(w, "finish"))
  BY AtWork DEF Clear, Pcs
<1>2. InstancesKeep
  <2>1. CASE j \notin Reminders
    <3>1. UNCHANGED instance
      BY <2>1 DEF Clear, IInv, RowTypes
    <3> QED
      BY <3>1, KeptRows
  <2>2. CASE j \in Reminders
    <3> DEFINE i == instance[j]
               u == [Undone(i) EXCEPT !.superseded = FALSE]
    <3>1. i \in Instances
      BY <2>2 DEF IInv, RowTypes
    <3>2. /\ Cancel(i, FALSE) \in Instances /\ Cancel(i, FALSE).state = "cancelled"
          /\ u \in Instances /\ u.state = "failed"
      <4> HIDE DEF i
      <4> QED
        BY <3>1, InstanceUpdates
    <3>3. \/ ~Unsent(i) /\ UNCHANGED instance
          \/ Unsent(i) /\ instance' = [instance EXCEPT ![j] = Cancel(i, FALSE)]
          \/ Unsent(i) /\ instance' = [instance EXCEPT ![j] = u]
      BY <2>2 DEF Clear, IInv, RowTypes
    <3> HIDE DEF u
    <3>4. CASE UNCHANGED instance
      BY <3>4, KeptRows
    <3>5. CASE Unsent(i) /\ instance' = [instance EXCEPT ![j] = Cancel(i, FALSE)]
      BY <2>2, <3>2, <3>5, OneInstance DEF Unsent
    <3>6. CASE Unsent(i) /\ instance' = [instance EXCEPT ![j] = u]
      BY <2>2, <3>2, <3>6, OneInstance DEF Unsent
    <3> QED
      BY <3>3, <3>4, <3>5, <3>6
  <2> QED
    BY <2>1, <2>2
<1>3. Quiet
  BY <1>1, <1>2, KeptRows DEF Quiet
<1>4. Keeps(To(w, "finish"), worker[w].batch) /\ Plain(To(w, "finish"))
  BY <1>1, Goes DEF Plain
<1> QED
  BY <1>1, <1>3, <1>4, PlainStep

\* One job's row.
LEMMA OneJob ==
    ASSUME IInv, NEW j \in Jobs, NEW r \in JobRows, job' = [job EXCEPT ![j] = r],
           r.attempts = job[j].attempts, r.lease \in {0, job[j].lease},
           r.status = "completed" => job[j].status = "completed" \/ Delivered(j),
           job[j].status = "dead" /\ j \in Native => r.status = "dead"
    PROVE  JobsKeep /\ Counted /\ job'[j] = r /\ \A k \in Jobs : k # j => job'[k] = job[k]
<1>1. /\ job' \in [Jobs -> JobRows] /\ job'[j] = r
      /\ \A k \in Jobs : k # j => job'[k] = job[k]
  BY DEF IInv, RowTypes
<1>2. ASSUME NEW k \in Jobs
      PROVE  /\ job[k].attempts <= job'[k].attempts /\ job'[k].lease <= job'[k].attempts
             /\ job'[k].attempts <= MaxAttempts[k]
  <2>1. /\ job[k].attempts \in Nat /\ job[k].lease \in Nat /\ job[k].lease <= job[k].attempts
        /\ job[k].attempts <= MaxAttempts[k]
    BY DEF IInv, RowTypes, JobRows, Leases
  <2>2. job'[k].attempts = job[k].attempts /\ job'[k].lease \in {0, job[k].lease}
    BY <1>1
  <2> QED
    BY <2>1, <2>2
<1>3. JobsKeep
  BY <1>1, <1>2 DEF JobsKeep
<1>4. Counted
  BY <1>3 DEF JobsKeep, JobRows, Counted
<1> QED
  BY <1>1, <1>3, <1>4

LEMMA FinishInv == ASSUME IInv, NEW w \in Workers, Finish(w) PROVE IInv'
<1> SUFFICES ASSUME NEW j \in Jobs, j = Job(w) PROVE IInv'
  BY AtWork DEF Finish
<1>1. /\ worker[w].pc = "finish" /\ worker[w].batch # <<>> /\ worker[w] \in WorkerRows
      /\ UNCHANGED <<receipt, instance, registration, alert, calls>>
  BY AtWork DEF Finish
<1>2. CASE Step(w, Idle) /\ UNCHANGED job
  <2>1. Quiet
    BY <1>1, <1>2, AllKept DEF rows
  <2>2. Reply(w, Idle)
    BY <1>2 DEF Reply
  <2> QED
    BY <1>1, <2>1, <2>2, IdleRow, PlainStep
<1>3. ASSUME NEW t \in {"completed", "dead", "pending"}, t = "completed" => worker[w].why = "done",
             job[j].status = "leased", job' = [job EXCEPT ![j] = Settle(job[j], t)], Reply(w, Advance(w))
      PROVE  IInv'
  <2> DEFINE r == job[j]
  <2>1. r \in JobRows
    BY DEF IInv, RowTypes
  <2>2. /\ Settle(r, t) \in JobRows /\ Settle(r, t).attempts = r.attempts
        /\ Settle(r, t).lease = 0 /\ Settle(r, t).status = t
    <3> HIDE DEF r
    <3> QED
      BY <1>3, <2>1, JobUpdates, ZenonT(30)
  <2>3. t = "completed" => Delivered(j)
    BY <1>3 DEF IInv, Phases, Phase
  <2>4. JobsKeep
    BY <1>3, <2>2, <2>3, OneJob
  <2>5. Quiet
    BY <1>1, <2>4, KeptRows DEF Quiet
  <2>6. Keeps(Advance(w), worker[w].batch) /\ Plain(Advance(w))
    BY <1>1, Endings
  <2> QED
    BY <1>1, <1>3, <2>5, <2>6, PlainStep
<1>4. CASE /\ job[j].status = "leased" /\ Reply(w, Advance(w))
           /\ job' = [job EXCEPT ![j] = Settle(job[j],
                  IF worker[w].why = "done" THEN "completed"
                  ELSE IF job[j].attempts >= MaxAttempts[j] THEN "dead" ELSE "pending")]
  <2> DEFINE t == IF worker[w].why = "done" THEN "completed"
                  ELSE IF job[j].attempts >= MaxAttempts[j] THEN "dead" ELSE "pending"
  <2>1. t \in {"completed", "dead", "pending"} /\ (t = "completed" => worker[w].why = "done")
        /\ job' = [job EXCEPT ![j] = Settle(job[j], t)]
    BY <1>4
  <2> HIDE DEF t
  <2> QED
    BY <1>3, <1>4, <2>1
<1> QED
  BY <1>2, <1>4 DEF Finish

LEMMA FinishTerminalInv == ASSUME IInv, NEW w \in Workers, FinishTerminal(w) PROVE IInv'
<1> SUFFICES ASSUME NEW j \in Jobs, j = Job(w) PROVE IInv'
  BY AtWork DEF FinishTerminal
<1>1. /\ worker[w].pc = "finish" /\ worker[w].batch # <<>> /\ worker[w] \in WorkerRows
      /\ UNCHANGED <<receipt, instance, registration, calls>>
  BY AtWork DEF FinishTerminal
<1>2. CASE Step(w, Idle) /\ UNCHANGED <<job, alert>>
  <2>1. Quiet
    BY <1>1, <1>2, AllKept DEF rows
  <2>2. Reply(w, Idle)
    BY <1>2 DEF Reply
  <2> QED
    BY <1>1, <2>1, <2>2, IdleRow, PlainStep
<1>3. CASE /\ job' = [job EXCEPT ![j] = Kill(FreeLease(job[j]), FALSE)]
           /\ alert' = IF j \in Native THEN [alert EXCEPT ![j] = Evidence(j)] ELSE alert
           /\ Reply(w, Advance(w))
  <2> DEFINE r == job[j]
             d == Kill(FreeLease(r), FALSE)
  <2>1. r \in JobRows
    BY DEF IInv, RowTypes
  <2>2. d \in JobRows /\ d.attempts = r.attempts /\ d.lease = 0 /\ d.status = "dead"
    <3> DEFINE f == FreeLease(r)
    <3>1. f \in JobRows /\ f.attempts = r.attempts /\ f.lease = 0
      <4> HIDE DEF r
      <4> QED
        BY <2>1, JobUpdates
    <3> HIDE DEF f, r
    <3>2. Kill(f, FALSE) \in JobRows /\ Kill(f, FALSE).attempts = f.attempts
          /\ Kill(f, FALSE).lease = f.lease /\ Kill(f, FALSE).status = "dead"
      BY <3>1, JobUpdates
    <3> QED
      BY <3>1, <3>2 DEF f
  <2>3. job' = [job EXCEPT ![j] = d]
    BY <1>3
  <2> HIDE DEF d
  <2>4. JobsKeep /\ Counted /\ job'[j] = d /\ \A k \in Jobs : k # j => job'[k] = job[k]
    BY <2>2, <2>3, OneJob
  <2>5. Keeps(Advance(w), worker[w].batch) /\ Plain(Advance(w))
    BY <1>1, Endings
  <2>6. CASE j \notin Native
    <3>1. Quiet
      BY <1>1, <1>3, <2>4, <2>6, KeptRows DEF Quiet
    <3> QED
      BY <1>1, <1>3, <2>5, <3>1, PlainStep
  <2>7. CASE j \in Native
    <3>1. \A k \in Jobs : Accepted(k)' = Accepted(k)
      BY <1>1 DEF Accepted
    <3>2. receipt[j].state \in {"none", "prepared", "delivered"}
      BY <2>7 DEF IInv, RowTypes, Receipts
    <3>3. /\ Evidence(j) \in {"failed", "unconfirmed", "accepted"}
          /\ Evidence(j) = "failed" => receipt[j].state = "none"
          /\ Evidence(j) = "accepted" => receipt[j].state = "delivered"
      BY <3>2 DEF Evidence
    <3>4. /\ alert' \in [Native -> {"none", "failed", "unconfirmed", "accepted"}]
          /\ alert'[j] = Evidence(j) /\ \A k \in Native : k # j => alert'[k] = alert[k]
      BY <1>3, <2>7, <3>3 DEF IInv
    <3>5. AlertInv'
      <4> SUFFICES ASSUME NEW k \in Native
                   PROVE  /\ alert'[k] # "none" => job'[k].status = "dead"
                          /\ alert'[k] = "failed" => receipt[k].state = "none"
                          /\ alert'[k] = "accepted" => receipt[k].state = "delivered"
        BY <1>1 DEF AlertInv
      <4>1. CASE k = j
        BY <2>2, <2>4, <3>3, <3>4, <4>1
      <4>2. CASE k # j
        BY <2>4, <3>4, <4>2 DEF IInv, AlertInv, Jobs
      <4> QED
        BY <4>1, <4>2
    <3>6. RecordsAreTrue'
      <4>1. \A k \in Jobs : job'[k].status = "completed" =>
               IF k \in Native THEN receipt'[k].state = "delivered" ELSE instance'[k].state = "sent"
        BY <1>1, <2>2, <2>4 DEF IInv, RecordsAreTrue
      <4>2. /\ \A k \in Native : receipt'[k].state = "delivered" => \E c \in Accepted(k)' : c.mark = receipt'[k].mark
            /\ \A k \in Reminders : instance'[k].state = "sent" => \E c \in Accepted(k)' : c.mark = instance'[k].mark
            /\ \A k \in Reminders : instance'[k].mark # NoMark => instance'[k].state # "pending"
        BY <1>1, <3>1 DEF IInv, RecordsAreTrue, Jobs
      <4> QED
        BY <4>1, <4>2 DEF RecordsAreTrue, Accepted
    <3>7. RowTypes' /\ calls' \subseteq Calls
      BY <1>1, <2>4 DEF IInv, RowTypes, JobsKeep
    <3>8. OneCall' /\ SuccessIsOwn'
      BY <1>1, <3>1 DEF IInv, OneCall, SuccessIsOwn, Jobs
    <3>9. Books'
      BY <3>4, <3>5, <3>6, <3>7, <3>8 DEF Books
    <3>10. OwnReceipt(w) /\ \A k \in Jobs : Delivered(k) => Delivered(k)'
      BY <1>1, <3>1 DEF OwnReceipt, Delivered, Jobs
    <3> QED
      BY <1>1, <1>3, <2>4, <2>5, <3>9, <3>10, OwnStep
  <2> QED
    BY <2>6, <2>7
<1> QED
  BY <1>2, <1>3 DEF FinishTerminal
-----------------------------------------------------------------------------
(* What happens around the workers. *)

LEMMA WorldInv ==
    ASSUME IInv, Register \/ Unregister \/ Reassign \/ (\E j \in Reminders : MoveEvent(j))
    PROVE  IInv'
<1>1. registration \in Registrations
  BY DEF IInv, RowTypes
<1>2. CASE Register
  <2>1. \/ registration' = [registration EXCEPT !.active = TRUE]
        \/ /\ registration.gen < MaxToken
           /\ registration' = [active |-> TRUE, gen |-> registration.gen + 1, success |-> FALSE]
    BY <1>2 DEF Register
  <2>2. RegistrationKeeps
    <3>1. CASE registration' = [registration EXCEPT !.active = TRUE]
      BY <1>1, <3>1 DEF Registrations, RegistrationKeeps
    <3>2. CASE /\ registration.gen < MaxToken
               /\ registration' = [active |-> TRUE, gen |-> registration.gen + 1, success |-> FALSE]
      <4>1. registration.gen + 1 \in 1..MaxToken
        BY <1>1, <3>2 DEF Registrations
      <4> QED
        BY <3>2, <4>1 DEF Registrations, RegistrationKeeps
    <3> QED
      BY <2>1, <3>1, <3>2
  <2>3. Quiet /\ UNCHANGED worker
    BY <1>2, <2>2, KeptRows DEF Register, Quiet
  <2> QED
    BY <2>3, QuietWorld
<1>3. CASE Unregister
  <2>1. RegistrationKeeps
    BY <1>1, <1>3 DEF Registrations, RegistrationKeeps, Unregister
  <2>2. Quiet /\ UNCHANGED worker
    BY <1>3, <2>1, KeptRows DEF Unregister, Quiet
  <2> QED
    BY <2>2, QuietWorld
<1>4. CASE Reassign
  BY <1>4, Drop, QuietWorld DEF Reassign
<1>5. CASE \E j \in Reminders : MoveEvent(j)
  <2>1. Quiet /\ UNCHANGED worker
    BY <1>5, AllKept DEF MoveEvent
  <2> QED
    BY <2>1, QuietWorld
<1> QED
  BY <1>2, <1>3, <1>4, <1>5

LEMMA JobRowInv ==
    ASSUME IInv, NEW j \in Jobs, Expire(j) \/ (j \in Native /\ Notify(j)) PROVE IInv'
<1> DEFINE r == job[j]
<1>1. r \in JobRows /\ UNCHANGED <<receipt, instance, registration, worker, alert, calls>>
  BY DEF IInv, RowTypes, Expire, Notify
<1>2. CASE Expire(j)
  <2> DEFINE x == [r EXCEPT !.expired = TRUE]
  <2>1. x \in JobRows /\ x.attempts = r.attempts /\ x.lease = r.lease /\ x.status = r.status
    BY <1>1 DEF JobRows
  <2>2. job' = [job EXCEPT ![j] = x]
    BY <1>2 DEF Expire
  <2> HIDE DEF x
  <2>3. JobsKeep
    BY <2>1, <2>2, OneJob
  <2> QED
    BY <1>1, <2>3, KeptRows, QuietWorld DEF Quiet
<1>3. CASE j \in Native /\ Notify(j)
  <2> DEFINE x == [r EXCEPT !.status = "pending"]
  <2>1. x \in JobRows /\ x.attempts = r.attempts /\ x.lease = r.lease /\ x.status = "pending"
    BY <1>1 DEF JobRows
  <2>2. job' = [job EXCEPT ![j] = x] /\ r.status = "absent"
    BY <1>3 DEF Notify
  <2> HIDE DEF x
  <2>3. JobsKeep
    BY <2>1, <2>2, OneJob
  <2> QED
    BY <1>1, <2>3, KeptRows, QuietWorld DEF Quiet
<1> QED
  BY <1>2, <1>3

LEMMA StutterInv == ASSUME IInv, UNCHANGED vars PROVE IInv'
BY AllKept, QuietWorld DEF vars, rows

LEMMA NextInv == ASSUME IInv, [Next]_vars PROVE IInv'
<1>1. CASE UNCHANGED vars
  BY <1>1, StutterInv
<1>2. ASSUME NEW w \in Workers, StartSweep(w) \/ Deliver(w) \/ CallFails(w) \/ Crash(w) PROVE IInv'
  BY <1>2, StartSweepInv, DeliverInv, CallFailsInv, CrashInv
<1>3. ASSUME NEW w \in Workers, Delivery(w) PROVE IInv'
  BY <1>3, StartInv, ResolveInv, OutdatedInv, PrepareNativeInv, ClaimReminderInv, SendInv, RecordNativeInv,
     RecordReminderInv, ReleaseInv, BlameInv, ClearInv, FinishTerminalInv, FinishInv DEF Delivery
<1>4. ASSUME NEW w \in Workers, NEW j \in Jobs, Claim(w, j) PROVE IInv'
  BY <1>4, ClaimInv
<1>5. ASSUME NEW j \in Jobs, Expire(j) \/ (j \in Native /\ Notify(j)) PROVE IInv'
  BY <1>5, JobRowInv
<1>6. CASE Register \/ Unregister \/ Reassign \/ (\E j \in Reminders : MoveEvent(j))
  BY <1>6, WorldInv
<1> QED
  BY <1>1, <1>2, <1>3, <1>4, <1>5, <1>6 DEF Next, Jobs

LEMMA InitInv == Init => IInv
<1> SUFFICES ASSUME Init PROVE IInv
  OBVIOUS
<1>1. RowTypes /\ calls \subseteq Calls /\ alert \in [Native -> {"none", "failed", "unconfirmed", "accepted"}]
  <2>1. NoMark \in Marks
    BY DEF NoMark, Marks
  <2>2. job \in [Jobs -> JobRows]
    BY DEF Init, JobRows
  <2>3. receipt \in [Native -> Receipts]
    BY <2>1 DEF Init, Receipts
  <2>4. instance \in [Reminders -> Instances]
    BY <2>1 DEF Init, Instances
  <2>5. registration \in Registrations
    BY DEF Init, Registrations
  <2> QED
    BY <2>2, <2>3, <2>4, <2>5 DEF Init, RowTypes
<1>2. Keeps(Idle, <<>>) /\ Plain(Idle) /\ Idle.batch = <<>> /\ Idle.pc = "idle"
  BY IdleRow
<1>3. \A w \in Workers : worker[w] = Idle
  BY DEF Init
<1>4. WorkerTypes
  BY <1>2 DEF Init, WorkerTypes, Keeps
<1>5. Leases
  <2>1. \A w \in Workers : In(worker[w].batch) = {}
    BY <1>2, <1>3 DEF In
  <2>2. \A j \in Jobs : job[j].lease <= job[j].attempts /\ job[j].attempts <= MaxAttempts[j]
    BY DEF Init
  <2> QED
    BY <2>1, <2>2 DEF Leases
<1>6. Phases
  BY <1>2, <1>3 DEF Phases, Phase, Busy, Plain
<1>7. OneCall /\ RecordsAreTrue /\ SuccessIsOwn /\ AlertInv
  BY DEF Init, OneCall, RecordsAreTrue, SuccessIsOwn, AlertInv, Accepted
<1> QED
  BY <1>1, <1>4, <1>5, <1>6, <1>7 DEF IInv

LEMMA Invariance == Spec => []IInv
BY InitInv, NextInv, PTL DEF Spec
-----------------------------------------------------------------------------
(* Theorems. *)

\* Rows keep their columns' types, and claims stay within the limit of attempts.
THEOREM TypeCorrect == Spec => []TypeOK
<1>1. IInv => TypeOK
  BY DEF IInv, RowTypes, WorkerTypes, Leases, TypeOK, JobRows, Receipts, Instances, Registrations, WorkerRows
<1> QED
  BY <1>1, Invariance, PTL

\* The provider accepts a native notification at most once: an accepted call is
\* the one its receipt was prepared for, and a receipt is prepared anew only
\* after a refusal.
THEOREM AtMostOnce == Spec => []NativeOnce
<1>1. IInv => NativeOnce
  <2> SUFFICES ASSUME IInv, NEW j \in Native, NEW c \in Accepted(j), NEW d \in Accepted(j) PROVE c = d
    BY DEF NativeOnce
  <2>1. c.mark = d.mark /\ c.job = d.job /\ c.result = d.result /\ c \in Calls /\ d \in Calls
    BY DEF IInv, OneCall, Accepted
  <2> QED
    BY <2>1 DEF Calls
<1> QED
  BY <1>1, Invariance, PTL

\* What the tables record as delivered the provider accepted, under the lease and
\* the token they name, and a registration claims a success only of the token it
\* holds.
THEOREM TrueRecords == Spec => []RecordsHold
BY Invariance, PTL DEF IInv, RecordsHold

\* The manager's alert says no more than what happened at the provider.
THEOREM TrueAlert == Spec => []AlertIsTrue
<1>1. IInv => AlertIsTrue
  BY DEF IInv, OneCall, RecordsAreTrue, AlertInv, AlertIsTrue
<1> QED
  BY <1>1, Invariance, PTL

\* Deliveries deactivate a registration only for its own token's rejection.
THEOREM OwnRejection == Spec => RevokedByOwn
<1> DEFINE Revokes == assigned /\ registration.active /\ ~registration'.active /\ worker' # worker
           Rejected == \E c \in calls : c.mark.gen = registration.gen /\ c.result = "rejected"
<1>1. ASSUME IInv, [Next]_vars PROVE Revokes => Rejected
  <2> SUFFICES ASSUME Revokes PROVE Rejected
    OBVIOUS
  <2>1. registration \in Registrations
    BY <1>1 DEF IInv, RowTypes
  <2>2. ASSUME NEW w \in Workers, Blame(w) PROVE Rejected
    <3>1. TokenCurrent(w) /\ worker[w].why = "rejected" /\ worker[w].pc = "blame"
      BY <2>1, <2>2 DEF Blame, Registrations
    <3> DEFINE c == [job |-> Job(w), mark |-> Mark(w), result |-> "rejected"]
    <3>2. c \in calls
      BY <1>1, <3>1 DEF IInv, Phases, Phase
    <3>3. c.mark.gen = registration.gen /\ c.result = "rejected"
      BY <3>1 DEF TokenCurrent, Mark
    <3> HIDE DEF c
    <3> QED
      BY <3>2, <3>3
  <2>3. ASSUME NEW w \in Workers, NEW next, Resolves(w, next) PROVE UNCHANGED registration
    BY <2>3 DEF Resolves, Authorized, rows
  <2>4. ASSUME NEW w \in Workers, Delivery(w), ~Blame(w) PROVE FALSE
    <3>1. CASE RecordNative(w)
      BY <2>1, <2>3, <3>1 DEF RecordNative, Registrations, rows
    <3>2. CASE RecordReminder(w)
      BY <2>1, <2>3, <3>2 DEF RecordReminder, Registrations
    <3>3. CASE Resolve(w) \/ PrepareNative(w) \/ ClaimReminder(w)
      BY <2>3, <3>3 DEF Resolve, PrepareNative, ClaimReminder, rows
    <3>4. CASE Start(w) \/ Outdated(w) \/ Send(w) \/ Release(w) \/ Clear(w) \/ FinishTerminal(w) \/ Finish(w)
      BY <3>4 DEF Start, Outdated, Send, Release, Clear, FinishTerminal, Finish, rows
    <3> QED
      BY <2>4, <3>1, <3>2, <3>3, <3>4 DEF Delivery
  <2>5. ASSUME NEW w \in Workers, StartSweep(w) \/ Deliver(w) \/ CallFails(w) \/ Crash(w) PROVE FALSE
    BY <2>5 DEF StartSweep, Deliver, CallFails, Crash, rows
  <2>6. ASSUME NEW w \in Workers, NEW j \in Jobs, Claim(w, j) PROVE FALSE
    BY <2>6 DEF Claim
  <2>7. ASSUME NEW j \in Jobs, Expire(j) \/ Notify(j) PROVE FALSE
    BY <2>7 DEF Expire, Notify
  <2>8. CASE Register \/ Unregister \/ Reassign \/ (\E j \in Reminders : MoveEvent(j))
    BY <2>8 DEF Register, Unregister, Reassign, MoveEvent
  <2>9. CASE UNCHANGED vars
    BY <2>9 DEF vars
  <2> QED
    BY <1>1, <2>2, <2>4, <2>5, <2>6, <2>7, <2>8, <2>9 DEF Next, Jobs
<1> QED
  BY <1>1, Invariance, PTL DEF Spec, RevokedByOwn
-----------------------------------------------------------------------------
(* Every step is one of NoticeHandover's. *)

HandStep == [Handover!Next]_(Handover!vars)

Finished(j) == job[j].status \in {"dead", "completed"}
\* A native job that is over stays over, and no other job is looked at.
Lasting == \A j \in Native : Finished(j) => Finished(j)'

LEMMA Shows ==
    \A j \in Native : Recorded[j] = receipt[j].state /\ (j \in Taken <=> Accepted(j) # {}) /\ (j \in Over <=> Finished(j))
BY DEF Recorded, Taken, Over, Finished

\* A step that only ends notices, or does nothing that shows.
LEMMA OnlyEnds ==
    ASSUME Lasting, UNCHANGED alert,
           \A j \in Native : receipt'[j].state = receipt[j].state /\ (Accepted(j)' # {} <=> Accepted(j) # {})
    PROVE  HandStep
<1> DEFINE N == {j \in Native : Finished(j)'}
<1>1. Recorded' = Recorded /\ Taken' = Taken
  BY DEF Recorded, Taken
<1>2. Over' = Over \cup N
  BY DEF Over, Lasting, Finished
<1>3. N \in SUBSET Native
  OBVIOUS
<1>4. Handover!End(N)
  BY <1>1, <1>2 DEF Handover!End
<1> QED
  BY <1>3, <1>4 DEF HandStep, Handover!Next

LEMMA SameCalls == UNCHANGED calls => \A j : Accepted(j)' = Accepted(j)
BY DEF Accepted

\* The same for a step that leaves the receipts and the calls alone.
LEMMA RowsOnly == ASSUME Lasting, UNCHANGED <<receipt, alert, calls>> PROVE HandStep
BY OnlyEnds, SameCalls

LEMMA Untouched == UNCHANGED job => Lasting
BY DEF Lasting, Finished

\* Which rows a native job's end survives.
LEMMA DropLasts == ASSUME IInv, NEW leased, DropRecipient(leased) PROVE Lasting
<1> SUFFICES ASSUME NEW j \in Native, Finished(j) PROVE Finished(j)'
  BY DEF Lasting
<1>1. job'[j] = job[j]
  BY DEF DropRecipient, KillJobs, Finished, Jobs
<1> QED
  BY <1>1 DEF Finished

LEMMA ResolvesHands ==
    ASSUME IInv, NEW w \in Workers, NEW next, Resolves(w, next), UNCHANGED <<alert, calls>>
    PROVE  HandStep
<1>1. Lasting /\ UNCHANGED receipt
  BY DropLasts, Untouched DEF Resolves, rows, DropRecipient
<1> QED
  BY <1>1, RowsOnly

LEMMA PrepareHands == ASSUME IInv, NEW w \in Workers, PrepareNative(w) PROVE HandStep
<1> DEFINE j == Job(w)
<1>1. worker[w].pc = "prepare" /\ j \in Native /\ UNCHANGED <<alert, calls>>
  BY DEF PrepareNative
<1>2. CASE ~Authorized
  BY <1>1, <1>2, ResolvesHands DEF PrepareNative
<1>3. CASE UNCHANGED rows
  BY <1>1, <1>3, RowsOnly, Untouched DEF rows
<1>4. CASE /\ LeaseCurrent(j, Lease(w)) /\ receipt[j].state = "none"
           /\ receipt' = [receipt EXCEPT ![j] = [state |-> "prepared", mark |-> Mark(w)]]
           /\ UNCHANGED <<job, instance, registration>>
  <2>1. Recorded[j] = "none" /\ j \notin Over
    BY <1>1, <1>4 DEF Recorded, Over, LeaseCurrent
  <2>2. Recorded' = [Recorded EXCEPT ![j] = "prepared"]
    BY <1>1, <1>4 DEF Recorded, IInv, RowTypes
  <2>3. UNCHANGED <<Taken, Over, alert>>
    BY <1>1, <1>4, SameCalls DEF Taken, Over
  <2>4. Handover!Prepare(j)
    BY <2>1, <2>2, <2>3 DEF Handover!Prepare
  <2> QED
    BY <1>1, <2>4 DEF HandStep, Handover!Next
<1> QED
  BY <1>2, <1>3, <1>4 DEF PrepareNative

LEMMA SendHands == ASSUME IInv, NEW w \in Workers, Send(w) PROVE HandStep
<1> SUFFICES ASSUME NEW j, j = Job(w) PROVE HandStep
  OBVIOUS
<1>1. worker[w].pc = "send" /\ UNCHANGED <<job, receipt, alert>> /\ Phase(w)
  BY DEF Send, rows, IInv, Phases
<1>2. Accepts(w) \/ UNCHANGED calls \/ Rejects(w)
  BY DEF Send
<1>3. CASE Accepts(w) /\ j \in Native
  <2>1. receipt[j].state = "prepared" /\ Accepted(j) = {}
    BY <1>1, <1>3 DEF Phase
  <2>2. Accepted(j)' # {} /\ \A k \in Native : k # j => Accepted(k)' = Accepted(k)
    <3> DEFINE c == [job |-> j, mark |-> Mark(w), result |-> "accepted"]
    <3>1. calls' = calls \cup {c} /\ c.job = j /\ c.result = "accepted"
      BY <1>3 DEF Accepts
    <3> HIDE DEF c
    <3>2. c \in Accepted(j)'
      BY <3>1 DEF Accepted
    <3>3. ASSUME NEW k \in Native, k # j PROVE Accepted(k)' = Accepted(k)
      BY <3>1, <3>3 DEF Accepted
    <3> QED
      BY <3>2, <3>3
  <2>3. Recorded[j] = "prepared" /\ j \notin Taken
    BY <1>3, <2>1, Shows
  <2>4. Taken' = Taken \cup {j}
    BY <1>3, <2>2 DEF Taken
  <2>5. UNCHANGED <<Recorded, Over, alert>>
    BY <1>1 DEF Recorded, Over
  <2>6. Handover!Take(j)
    BY <2>3, <2>4, <2>5 DEF Handover!Take
  <2> QED
    BY <1>3, <2>6 DEF HandStep, Handover!Next
<1>4. CASE \/ UNCHANGED calls \/ Rejects(w) \/ (Accepts(w) /\ j \notin Native)
  <2>1. \A k \in Native : Accepted(k)' = Accepted(k)
    BY <1>4, SameCalls DEF Rejects, Accepts, Accepted
  <2> QED
    BY <1>1, <2>1, Untouched, OnlyEnds
<1> QED
  BY <1>2, <1>3, <1>4

LEMMA RecordHands == ASSUME IInv, NEW w \in Workers, RecordNative(w) PROVE HandStep
<1> DEFINE j == Job(w)
<1>1. worker[w].pc = "record" /\ j \in Native /\ UNCHANGED <<alert, calls>>
  BY DEF RecordNative
<1>2. CASE ~Authorized
  BY <1>1, <1>2, ResolvesHands DEF RecordNative
<1>3. CASE UNCHANGED rows
  BY <1>1, <1>3, RowsOnly, Untouched DEF rows
<1>4. CASE /\ LeaseCurrent(j, Lease(w)) /\ receipt[j] = [state |-> "prepared", mark |-> Mark(w)]
           /\ receipt' = [receipt EXCEPT ![j] = [receipt[j] EXCEPT !.state = "delivered"]]
           /\ UNCHANGED <<job, instance>>
  <2>1. [job |-> j, mark |-> Mark(w), result |-> "accepted"] \in calls
    BY <1>1 DEF IInv, Phases, Phase
  <2>2. Recorded[j] = "prepared" /\ j \in Taken /\ j \notin Over
    <3> DEFINE c == [job |-> j, mark |-> Mark(w), result |-> "accepted"]
    <3>1. c \in Accepted(j)
      BY <2>1 DEF Accepted
    <3>2. receipt[j].state = "prepared" /\ ~Finished(j)
      BY <1>4 DEF LeaseCurrent, Finished
    <3> QED
      BY <1>1, <3>1, <3>2, Shows
  <2>3. Recorded' = [Recorded EXCEPT ![j] = "delivered"]
    <3>1. \A k \in Native : receipt'[k].state = IF k = j THEN "delivered" ELSE receipt[k].state
      <4>1. [receipt[j] EXCEPT !.state = "delivered"] = [state |-> "delivered", mark |-> Mark(w)]
        BY <1>4
      <4> QED
        BY <1>1, <1>4, <4>1 DEF IInv, RowTypes
    <3> QED
      BY <3>1 DEF Recorded
  <2>4. UNCHANGED <<Taken, Over, alert>>
    BY <1>1, <1>4, SameCalls DEF Taken, Over
  <2>5. Handover!Confirm(j)
    BY <2>2, <2>3, <2>4 DEF Handover!Confirm
  <2> QED
    BY <1>1, <2>5 DEF HandStep, Handover!Next
<1> QED
  BY <1>2, <1>3, <1>4 DEF RecordNative

LEMMA ReleaseHands == ASSUME IInv, NEW w \in Workers, Release(w) PROVE HandStep
<1> DEFINE j == Job(w)
<1>1. worker[w].pc = "release" /\ UNCHANGED <<job, alert, calls>> /\ Phase(w) /\ j \in Jobs
  BY AtWork DEF Release, IInv, Phases
<1>2. CASE UNCHANGED receipt
  BY <1>1, <1>2, RowsOnly, Untouched
<1>3. CASE /\ j \in Native /\ LeaseCurrent(j, Lease(w))
           /\ receipt[j] = [state |-> "prepared", mark |-> Mark(w)]
           /\ receipt' = [receipt EXCEPT ![j] = [state |-> "none", mark |-> NoMark]]
  <2>1. Accepted(j) = {}
    BY <1>1, <1>3 DEF Phase
  <2>2. Recorded[j] = "prepared" /\ j \notin Taken /\ j \notin Over
    <3>1. receipt[j].state = "prepared" /\ ~Finished(j)
      BY <1>3 DEF LeaseCurrent, Finished
    <3> QED
      BY <1>3, <2>1, <3>1, Shows
  <2>3. Recorded' = [Recorded EXCEPT ![j] = "none"]
    BY <1>3 DEF Recorded, IInv, RowTypes
  <2>4. UNCHANGED <<Taken, Over, alert>>
    BY <1>1, SameCalls DEF Taken, Over
  <2>5. Handover!Withdraw(j)
    BY <2>2, <2>3, <2>4 DEF Handover!Withdraw
  <2> QED
    BY <1>3, <2>5 DEF HandStep, Handover!Next
<1> QED
  BY <1>1, <1>2, <1>3 DEF Release, Jobs

LEMMA TellHands == ASSUME IInv, NEW w \in Workers, FinishTerminal(w) PROVE HandStep
<1> DEFINE j == Job(w)
<1>1. worker[w].pc = "finish" /\ UNCHANGED <<receipt, calls>> /\ j \in Jobs /\ job[j] \in JobRows
  BY AtWork DEF FinishTerminal, IInv, RowTypes
<1>2. CASE UNCHANGED <<job, alert>>
  BY <1>1, <1>2, RowsOnly, Untouched
<1>3. CASE /\ job' = [job EXCEPT ![j] = Kill(FreeLease(job[j]), FALSE)]
           /\ alert' = IF j \in Native THEN [alert EXCEPT ![j] = Evidence(j)] ELSE alert
  <2>1. job'[j].status = "dead" /\ \A k \in Jobs : k # j => job'[k] = job[k]
    <3> DEFINE f == FreeLease(job[j])
    <3>1. f \in JobRows
      BY <1>1, JobUpdates
    <3> HIDE DEF f
    <3>2. Kill(f, FALSE).status = "dead"
      BY <3>1 DEF Kill, JobRows
    <3> QED
      BY <1>1, <1>3, <3>2 DEF f, IInv, RowTypes
  <2>2. CASE j \notin Native
    <3>1. Lasting
      BY <2>1, <2>2 DEF Lasting, Finished, Jobs
    <3> QED
      BY <1>1, <1>3, <2>2, <3>1, RowsOnly
  <2>3. CASE j \in Native
    <3>1. Over' = Over \cup {j}
      BY <2>1, <2>3 DEF Over, Jobs
    <3>2. receipt[j].state \in {"none", "prepared", "delivered"} /\ Recorded[j] = receipt[j].state
      BY <2>3 DEF IInv, RowTypes, Receipts, Recorded
    <3>3. Evidence(j) = CASE Recorded[j] = "none" -> "failed"
                          [] Recorded[j] = "prepared" -> "unconfirmed"
                          [] OTHER -> "accepted"
      BY <3>2 DEF Evidence
    <3>4. alert' = [alert EXCEPT ![j] = CASE Recorded[j] = "none" -> "failed"
                                          [] Recorded[j] = "prepared" -> "unconfirmed"
                                          [] OTHER -> "accepted"]
      BY <1>3, <2>3, <3>3
    <3>5. UNCHANGED <<Recorded, Taken>>
      BY <1>1, SameCalls DEF Recorded, Taken
    <3>6. Handover!Tell(j)
      BY <3>1, <3>4, <3>5 DEF Handover!Tell
    <3> QED
      BY <2>3, <3>6 DEF HandStep, Handover!Next
  <2> QED
    BY <2>2, <2>3
<1> QED
  BY <1>2, <1>3 DEF FinishTerminal

\* What the queue does to a native job that is over: nothing.
LEMMA QueueLasts ==
    ASSUME IInv, NEW w \in Workers,
           StartSweep(w) \/ Finish(w) \/ (\E j \in Jobs : Claim(w, j) \/ Expire(j)) \/ (\E j \in Native : Notify(j))
    PROVE  Lasting
<1> SUFFICES ASSUME NEW k \in Native, Finished(k) PROVE job'[k] = job[k] \/ Finished(k)'
  BY DEF Lasting, Finished
<1>1. k \in Jobs /\ k \notin Reminders /\ job[k] \in JobRows /\ job[k].status \in {"dead", "completed"}
  <2>1. k \in Jobs /\ k \notin Reminders
    BY DEF Jobs
  <2> QED
    BY <2>1 DEF IInv, RowTypes, Finished
<1>2. CASE StartSweep(w)
  <2>1. UNCHANGED job \/ \E past \in SUBSET Native : job'[k] = SweptJob(k, k \in past)
    BY <1>1, <1>2 DEF StartSweep
  <2> QED
    BY <1>1, <2>1 DEF SweptJob
<1>3. CASE Finish(w)
  <2>1. job[Job(w)].status = "leased" => k # Job(w)
    BY <1>1
  <2> QED
    BY <1>1, <1>3, <2>1 DEF Finish, IInv, RowTypes
<1>4. ASSUME NEW j \in Jobs, Claim(w, j) PROVE job'[k] = job[k]
  BY <1>1, <1>4 DEF Claim, Claimable, IInv, RowTypes
<1>5. ASSUME NEW j \in Jobs, Expire(j) \/ Notify(j) PROVE job'[k] = job[k]
  BY <1>1, <1>5 DEF Expire, Notify, IInv, RowTypes
<1> QED
  BY <1>2, <1>3, <1>4, <1>5 DEF Jobs

LEMMA StepHands == ASSUME IInv, [Next]_vars PROVE HandStep
<1>1. CASE UNCHANGED vars
  BY <1>1, RowsOnly, Untouched DEF vars
<1>2. ASSUME NEW w \in Workers, StartSweep(w) \/ Finish(w) PROVE HandStep
  BY <1>2, QueueLasts, RowsOnly DEF StartSweep, Finish
<1>3. ASSUME NEW w \in Workers, Deliver(w) \/ CallFails(w) \/ Crash(w) \/ Start(w) \/ Outdated(w) PROVE HandStep
  BY <1>3, RowsOnly, Untouched DEF Deliver, CallFails, Crash, Start, Outdated, rows
<1>4. ASSUME NEW w \in Workers, Resolve(w) \/ ClaimReminder(w) \/ RecordReminder(w) PROVE HandStep
  <2>1. UNCHANGED <<alert, calls>>
    BY <1>4 DEF Resolve, ClaimReminder, RecordReminder
  <2>2. (\E next : Resolves(w, next)) \/ UNCHANGED <<job, receipt>>
    BY <1>4 DEF Resolve, ClaimReminder, RecordReminder, rows
  <2> QED
    BY <2>1, <2>2, ResolvesHands, RowsOnly, Untouched
<1>5. ASSUME NEW w \in Workers, Blame(w) \/ Clear(w) PROVE HandStep
  BY <1>5, RowsOnly, Untouched DEF Blame, Clear
<1>6. ASSUME NEW w \in Workers, Delivery(w) PROVE HandStep
  BY <1>2, <1>3, <1>4, <1>5, <1>6, PrepareHands, SendHands, RecordHands, ReleaseHands, TellHands DEF Delivery
<1>7. ASSUME NEW w \in Workers, NEW j \in Jobs, Claim(w, j) PROVE HandStep
  BY <1>7, QueueLasts, RowsOnly DEF Claim
<1>8. ASSUME NEW j \in Jobs, Expire(j) \/ (j \in Native /\ Notify(j)) PROVE HandStep
  <2>1. Lasting
    <3> SUFFICES ASSUME NEW k \in Native, Finished(k) PROVE Finished(k)'
      BY DEF Lasting
    <3>1. job'[k] = job[k]
      BY <1>8 DEF Expire, Notify, IInv, RowTypes, Finished, Jobs
    <3> QED
      BY <3>1 DEF Finished
  <2> QED
    BY <1>8, <2>1, RowsOnly DEF Expire, Notify
<1>9. CASE Register \/ Unregister \/ (\E j \in Reminders : MoveEvent(j))
  BY <1>9, RowsOnly, Untouched DEF Register, Unregister, MoveEvent, rows
<1>10. CASE Reassign
  <2>1. PICK leased \in BOOLEAN : DropRecipient(leased)
    BY <1>10 DEF Reassign
  <2>2. Lasting /\ UNCHANGED <<receipt, alert, calls>>
    BY <1>10, <2>1, DropLasts DEF Reassign, DropRecipient
  <2> QED
    BY <2>2, RowsOnly
<1> QED
  BY <1>1, <1>2, <1>3, <1>6, <1>7, <1>8, <1>9, <1>10 DEF Next, Jobs

\* Over crashes, lost answers, expired leases, retries and the loss of the
\* recipient, what becomes of a native notice is what NoticeHandover promises:
\* the provider takes it once, its record is true, and so is what the manager is
\* told (deliverClaimedJob and its SQL).
THEOREM HandsOver == Spec => HandsOverOnce
<1>1. Init => Handover!Init
  <2> SUFFICES ASSUME Init PROVE Handover!Init
    OBVIOUS
  <2>1. \A j \in Native : receipt[j].state = "none" /\ Accepted(j) = {} /\ job[j].status = "absent"
    BY DEF Init, Accepted, Jobs
  <2> QED
    <3>1. Recorded = [j \in Native |-> "none"]
      BY <2>1 DEF Recorded
    <3>2. Taken = {} /\ Over = {}
      BY <2>1 DEF Taken, Over
    <3> QED
      BY <3>1, <3>2 DEF Init, Handover!Init
<1>2. IInv /\ [Next]_vars => [Handover!Next]_(Handover!vars)
  BY StepHands DEF HandStep
<1> QED
  BY <1>1, <1>2, Invariance, PTL DEF Spec, HandsOverOnce, Handover!Spec
=============================================================================
