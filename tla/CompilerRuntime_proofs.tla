----------------------- MODULE CompilerRuntime_proofs -----------------------
(***************************************************************************)
(* TypeOK, OneGroup, OwnProfile, NobodyForgotten, ReapedBeforeReported and *)
(* ShutdownIsFinal hold of Spec for every set of requests and checks,      *)
(* every profile and every bound of the queue.  IInv says, of each         *)
(* continuation, what holds when it may run (MayRun) and that it is in one *)
(* place only (Once); of the whole, who is outstanding (Line), what is     *)
(* left of the groups (Group), what shutdown leaves (Shut), and which of   *)
(* two continuations runs before the other (Order).  NobodyForgotten is    *)
(* inductive beside it: a step keeps every continuation but the one it     *)
(* runs, and leaves a new one for the caller it moves.                     *)
(***************************************************************************)
EXTENDS CompilerRuntime, TLAPS, SequenceTheorems

-----------------------------------------------------------------------------
\* The inductive invariant

Inner == Starting \cup {"queued", "thrown", "caught", "reaping", "closing"}

\* What holds of a caller whose continuation, told ok, is ready to run.
MayRun(c, ok) ==
    /\ pc[c] \in Inner
    /\ pc[c] = "queued" => queue # <<>> /\ c = Head(queue)
    /\ pc[c] = "closing" => shut # "tearing"
    /\ pc[c] \in {"start", "caught", "reaping", "closing"} /\ ok => teardown = "done"
    /\ pc[c] \in {"start", "switch", "caught", "reaping", "closing"} /\ ~ok => teardown = "unproven"
    /\ pc[c] = "switch" => ~ready
    /\ pc[c] = "forked" => init # 0 /\ profile = ProfileOf(c)
    /\ pc[c] \in {"init", "owner"} /\ ~ok => closed \/ teardown = "pending"
    /\ pc[c] = "started" \/ (pc[c] = "owner" /\ ok) =>
           \/ worker = 0 /\ teardown = "pending"
           \/ ready /\ profile = ProfileOf(c)

Runnable ==
    {t \in Job : /\ t.c \in Callers => MayRun(t.c, t.ok)
                 /\ t.c \notin Requests => t.ticks = 0
                 /\ t.c = "shutdown" =>
                        /\ shut = "tearing"
                        /\ teardown = IF t.ok THEN "done" ELSE "unproven"}

AwaitsTeardown ==
    {c \in Callers \cup {"shutdown"} :
        /\ c \in Callers => pc[c] \in {"start", "switch", "caught", "reaping"}
        /\ c = "shutdown" => shut = "tearing"}

AwaitsInit ==
    {c \in Callers : /\ pc[c] \in {"init", "owner"}
                     /\ pc[c] = "owner" /\ init # 0 => profile = ProfileOf(c)}

\* Every continuation is in one place, and there once.
Once(J, T, I) ==
    /\ \A i, j \in 1..Len(J) : J[i].c = J[j].c => i = j
    /\ \A i, j \in 1..Len(T) : T[i] = T[j] => i = j
    /\ \A i, j \in 1..Len(I) : I[i] = I[j] => i = j
    /\ \A i \in 1..Len(J), j \in 1..Len(T) : J[i].c # T[j]
    /\ \A i \in 1..Len(J), j \in 1..Len(I) : J[i].c # I[j]
    /\ \A i \in 1..Len(T), j \in 1..Len(I) : T[i] # I[j]

Placed ==
    /\ jobs \in Seq(Runnable) /\ waitT \in Seq(AwaitsTeardown) /\ waitI \in Seq(AwaitsInit)
    /\ Once(jobs, waitT, waitI)

Scalars ==
    /\ closed \in BOOLEAN
    /\ shut \in {"no", "tearing", "draining", "failing", "done", "failed"}
    /\ generation \in Nat
    /\ worker \in 0..generation /\ init \in {0, worker}
    /\ ready \in BOOLEAN
    /\ profile \in {"none", "compiler", "fixed-pending"}
    /\ pending \in Requests \cup {Nobody}
    /\ teardown \in {"done", "pending", "unproven"}
    /\ dying \in 0..generation /\ live \in SUBSET (1..generation)
    /\ pc \in [Callers -> Steps]
    /\ verdict \in [Requests -> Verdicts]
    /\ cancelled \in SUBSET Requests

Outstanding == {r \in Requests : pc[r] \notin {"idle", "done"}}

Line ==
    /\ queue \in Seq(Outstanding)
    /\ \A i, j \in 1..Len(queue) : queue[i] = queue[j] => i = j
    /\ \A r \in Requests : pc[r] \notin {"idle", "queued", "done"} => queue # <<>> /\ r = Head(queue)
    /\ pending # Nobody => pc[pending] = "working"

OneCheck ==
    /\ \A c \in Checks : pc[c] \in {"idle", "start", "init", "switch", "forked", "owner", "done"}
    /\ \A c, d \in Checks : pc[c] \notin {"idle", "done"} /\ pc[d] \notin {"idle", "done"} => c = d

Group ==
    /\ worker # 0 => teardown = "done" /\ live = {worker} /\ (init = 0 <=> ready)
    /\ worker = 0 => ~ready /\ init = 0 /\ pending = Nobody
    /\ teardown = "done" => live \subseteq {worker}
    /\ teardown = "pending" => live = {dying}
    /\ teardown = "unproven" => live # {}
    /\ init # 0 => \E c \in Callers : pc[c] \in {"owner", "forked"}
    /\ waitI # <<>> => init # 0 \/ closed
    /\ OneGroup
    /\ OwnProfile

Shut ==
    /\ shut = "no" <=> ~closed
    /\ closed => worker = 0
    /\ shut \in {"done", "failed"} => queue = <<>>

\* The request at j cannot send before the check at i has had its turns.
Behind(i, j) ==
    \/ pc[jobs[j].c] = "owner"
    \/ /\ pc[jobs[j].c] = "started"
       /\ IF pc[jobs[i].c] = "init" THEN i < j /\ jobs[j].ticks > 0
          ELSE i < j \/ jobs[j].ticks > 0

\* The continuation at i is of a check that may still replace a ready worker.
MayReplace(i) == ready /\ jobs[i].c \in Checks /\ pc[jobs[i].c] \in {"init", "start"}

Order ==
    \A i \in 1..Len(jobs) : MayReplace(i) =>
        /\ pending = Nobody
        /\ \A j \in 1..Len(jobs) : jobs[j].c \in Requests => Behind(i, j)

IInv == Scalars /\ Placed /\ Line /\ OneCheck /\ Group /\ Shut /\ Order

-----------------------------------------------------------------------------
\* Continuations in their places

\* c waits nowhere and is not ready to run.
Free(c, J, T, I) ==
    /\ \A i \in 1..Len(J) : J[i].c # c
    /\ \A i \in 1..Len(T) : T[i] # c
    /\ \A i \in 1..Len(I) : I[i] # c

LEMMA TailIndex ==
    ASSUME NEW S, NEW q \in Seq(S), q # <<>>
    PROVE  /\ Len(q) \in Nat /\ 1 \in 1..Len(q) /\ Head(q) = q[1] /\ Head(q) \in S
           /\ Tail(q) \in Seq(S) /\ Len(Tail(q)) = Len(q) - 1
           /\ \A i \in 1..Len(Tail(q)) : /\ i + 1 \in 1..Len(q) /\ i + 1 # 1
                                         /\ Tail(q)[i] = q[i + 1] /\ Tail(q)[i] \in S
<1>1. Len(q) \in Nat /\ 1 \in 1..Len(q) /\ Head(q) = q[1] /\ Head(q) \in S
  OBVIOUS
<1>2. /\ Tail(q) \in Seq(S) /\ Len(Tail(q)) = Len(q) - 1
      /\ \A i \in 1..Len(Tail(q)) : Tail(q)[i] = q[i + 1]
  BY HeadTailProperties
<1>3. QED  BY <1>1, <1>2

\* A sequence is one of its own elements.
LEMMA SeqOf ==
    ASSUME NEW S, NEW R, NEW q \in Seq(S), \A i \in 1..Len(q) : q[i] \in R
    PROVE  q \in Seq(R)
OBVIOUS

\* One more at the end.
LEMMA AddIndex ==
    ASSUME NEW S, NEW q \in Seq(S), NEW x \in S
    PROVE  /\ q \o <<x>> = Append(q, x)
           /\ Append(q, x) \in Seq(S) /\ Len(Append(q, x)) = Len(q) + 1
           /\ \A i \in 1..Len(q) : Append(q, x)[i] = q[i]
           /\ Append(q, x)[Len(q) + 1] = x
<1>1. q \o <<x>> = Append(q, x)
  BY AppendIsConcat
<1>2. QED  BY <1>1

\* The continuation at the head runs: it is nowhere else.
LEMMA OnceHead ==
    ASSUME NEW S, NEW X, NEW J \in Seq(S), NEW T \in Seq(X), NEW I \in Seq(X),
           J # <<>>, Once(J, T, I)
    PROVE  /\ Once(Tail(J), T, I)
           /\ Free(Head(J).c, Tail(J), T, I)
<1>1. /\ 1 \in 1..Len(J) /\ Head(J) = J[1]
      /\ \A i \in 1..Len(Tail(J)) : /\ i + 1 \in 1..Len(J) /\ i + 1 # 1
                                    /\ Tail(J)[i] = J[i + 1]
      /\ Len(Tail(J)) \in Nat
  BY TailIndex
<1>2. Free(Head(J).c, Tail(J), T, I)
  BY <1>1 DEF Once, Free
<1>3. \A i, j \in 1..Len(Tail(J)) : Tail(J)[i].c = Tail(J)[j].c => i = j
  <2>1. TAKE i, j \in 1..Len(Tail(J))
  <2>2. Tail(J)[i].c = Tail(J)[j].c => i + 1 = j + 1
    BY <1>1 DEF Once
  <2>3. QED  BY <1>1, <2>2
<1>4. QED  BY <1>1, <1>2, <1>3 DEF Once

LEMMA OnceAddJob ==
    ASSUME NEW S, NEW X, NEW J \in Seq(S), NEW T \in Seq(X), NEW I \in Seq(X),
           NEW t \in S, Once(J, T, I), Free(t.c, J, T, I)
    PROVE  Once(Append(J, t), T, I)
<1>1. /\ Len(Append(J, t)) = Len(J) + 1 /\ Len(J) \in Nat
      /\ \A i \in 1..Len(J) : Append(J, t)[i] = J[i]
      /\ Append(J, t)[Len(J) + 1] = t
  BY AddIndex
<1>2. \A i \in 1..Len(Append(J, t)) : i \in 1..Len(J) \/ i = Len(J) + 1
  BY <1>1
<1>3. QED  BY <1>1, <1>2 DEF Once, Free

LEMMA OnceAddT ==
    ASSUME NEW S, NEW X, NEW J \in Seq(S), NEW T \in Seq(X), NEW I \in Seq(X),
           NEW c \in X, Once(J, T, I), Free(c, J, T, I)
    PROVE  Once(J, Append(T, c), I)
<1>1. /\ Len(Append(T, c)) = Len(T) + 1 /\ Len(T) \in Nat
      /\ \A i \in 1..Len(T) : Append(T, c)[i] = T[i]
      /\ Append(T, c)[Len(T) + 1] = c
  BY AddIndex
<1>2. \A i \in 1..Len(Append(T, c)) : i \in 1..Len(T) \/ i = Len(T) + 1
  BY <1>1
<1>3. QED  BY <1>1, <1>2 DEF Once, Free

LEMMA OnceAddI ==
    ASSUME NEW S, NEW X, NEW J \in Seq(S), NEW T \in Seq(X), NEW I \in Seq(X),
           NEW c \in X, Once(J, T, I), Free(c, J, T, I)
    PROVE  Once(J, T, Append(I, c))
<1>1. /\ Len(Append(I, c)) = Len(I) + 1 /\ Len(I) \in Nat
      /\ \A i \in 1..Len(I) : Append(I, c)[i] = I[i]
      /\ Append(I, c)[Len(I) + 1] = c
  BY AddIndex
<1>2. \A i \in 1..Len(Append(I, c)) : i \in 1..Len(I) \/ i = Len(I) + 1
  BY <1>1
<1>3. QED  BY <1>1, <1>2 DEF Once, Free

\* All those who waited are ready to run.
LEMMA WakeIndex ==
    ASSUME NEW X, NEW W \in Seq(X), NEW ok
    PROVE  /\ Len(Wake(W, ok)) = Len(W) /\ Len(W) \in Nat
           /\ \A i \in 1..Len(Wake(W, ok)) :
                 Wake(W, ok)[i].c = W[i] /\ i \in 1..Len(W) /\ W[i] \in X
<1>1. Wake(W, ok) = [i \in 1..Len(W) |-> [c |-> W[i], ok |-> ok, ticks |-> 0]]
  BY DEF Wake, Continue
<1>2. Len(W) \in Nat /\ \A i \in 1..Len(W) : W[i] \in X
  OBVIOUS
<1>3. \A x : [c |-> x, ok |-> ok, ticks |-> 0].c = x
  OBVIOUS
<1>4. /\ Len(Wake(W, ok)) = Len(W)
      /\ \A i \in 1..Len(W) : Wake(W, ok)[i] = [c |-> W[i], ok |-> ok, ticks |-> 0]
  BY <1>1, <1>2
<1>5. \A i \in 1..Len(W) : Wake(W, ok)[i].c = W[i]
  BY <1>3, <1>4, Zenon
<1>6. QED  BY <1>2, <1>4, <1>5

LEMMA Woken ==
    ASSUME NEW X, NEW W \in Seq(X), NEW ok
    PROVE  \A i \in 1..Len(Wake(W, ok)) : Wake(W, ok)[i].c \in X
BY WakeIndex

LEMMA WakeSeq ==
    ASSUME NEW X, NEW W \in Seq(X), NEW ok, NEW S,
           \A x \in X : [c |-> x, ok |-> ok, ticks |-> 0] \in S
    PROVE  Wake(W, ok) \in Seq(S)
<1>1. Wake(W, ok) = [i \in 1..Len(W) |-> [c |-> W[i], ok |-> ok, ticks |-> 0]]
  BY DEF Wake, Continue
<1>2. Len(W) \in Nat /\ \A i \in 1..Len(W) : W[i] \in X
  OBVIOUS
<1>3. QED  BY <1>1, <1>2

LEMMA OnceWakeT ==
    ASSUME NEW X, NEW T \in Seq(X), NEW I \in Seq(X), NEW ok, Once(<<>>, T, I)
    PROVE  Once(Wake(T, ok), <<>>, I)
<1> DEFINE W == Wake(T, ok)
<1>1. \A i \in 1..Len(W) : W[i].c = T[i] /\ i \in 1..Len(T)
  BY WakeIndex
<1> HIDE DEF W
<1>2. \A i, j \in 1..Len(W) : W[i].c = W[j].c => i = j
  BY <1>1 DEF Once
<1>3. \A i \in 1..Len(W), j \in 1..Len(I) : W[i].c # I[j]
  BY <1>1 DEF Once
<1>4. 1..Len(<<>>) = {}
  OBVIOUS
<1>5. Once(W, <<>>, I)
  BY <1>2, <1>3, <1>4, Zenon DEF Once
<1>6. QED  BY <1>5 DEF W

LEMMA OnceWakeQuietly ==
    ASSUME NEW X, NEW T \in Seq(X), NEW I \in Seq(X), NEW ok, Once(<<>>, T, I)
    PROVE  Once(Wake(I, ok), T, <<>>)
<1> DEFINE W == Wake(I, ok)
<1>1. \A i \in 1..Len(W) : W[i].c = I[i] /\ i \in 1..Len(I)
  BY WakeIndex
<1> HIDE DEF W
<1>2. /\ \A i, j \in 1..Len(W) : W[i].c = W[j].c => i = j
      /\ \A i \in 1..Len(W), j \in 1..Len(T) : W[i].c # T[j]
      /\ \A i, j \in 1..Len(T) : T[i] = T[j] => i = j
  BY <1>1 DEF Once
<1>3. 1..Len(<<>>) = {}
  OBVIOUS
<1>4. Once(W, T, <<>>)
  BY <1>2, <1>3, Zenon DEF Once
<1>5. QED  BY <1>4 DEF W

\* The second of two sequences starts behind the first.
LEMMA JoinIndex ==
    ASSUME NEW S, NEW p \in Seq(S), NEW q \in Seq(S)
    PROVE  /\ p \o q \in Seq(S) /\ Len(p \o q) = Len(p) + Len(q)
           /\ Len(p) \in Nat /\ Len(q) \in Nat
           /\ \A i \in 1..Len(p \o q) :
                 \/ i \in 1..Len(p) /\ (p \o q)[i] = p[i]
                 \/ i - Len(p) \in 1..Len(q) /\ (p \o q)[i] = q[i - Len(p)]
<1>1. /\ p \o q \in Seq(S) /\ Len(p \o q) = Len(p) + Len(q)
      /\ \A i \in 1..(Len(p) + Len(q)) : (p \o q)[i] = IF i <= Len(p) THEN p[i] ELSE q[i - Len(p)]
  BY ConcatProperties, Zenon
<1>2. Len(p) \in Nat /\ Len(q) \in Nat
  OBVIOUS
<1>3. ASSUME NEW i \in 1..Len(p \o q)
      PROVE  \/ i \in 1..Len(p) /\ (p \o q)[i] = p[i]
             \/ i - Len(p) \in 1..Len(q) /\ (p \o q)[i] = q[i - Len(p)]
  BY <1>1, <1>2
<1>4. QED  BY <1>1, <1>2, <1>3

LEMMA OnceJoin ==
    ASSUME NEW S, NEW X, NEW J \in Seq(S), NEW W \in Seq(S), NEW T \in Seq(X),
           \A i, j \in 1..Len(J) : J[i].c = J[j].c => i = j,
           \A i, j \in 1..Len(W) : W[i].c = W[j].c => i = j,
           \A i, j \in 1..Len(T) : T[i] = T[j] => i = j,
           \A i \in 1..Len(J), j \in 1..Len(W) : J[i].c # W[j].c,
           \A i \in 1..Len(J), j \in 1..Len(T) : J[i].c # T[j],
           \A i \in 1..Len(W), j \in 1..Len(T) : W[i].c # T[j]
    PROVE  J \o W \in Seq(S) /\ Once(J \o W, T, <<>>)
<1> DEFINE M == J \o W
<1>1. /\ M \in Seq(S) /\ Len(J) \in Nat /\ Len(M) \in Nat
      /\ \A i \in 1..Len(M) :
            \/ i \in 1..Len(J) /\ M[i] = J[i]
            \/ i - Len(J) \in 1..Len(W) /\ M[i] = W[i - Len(J)]
  BY JoinIndex
<1> HIDE DEF M
<1>2. ASSUME NEW i \in 1..Len(M), NEW j \in 1..Len(M), M[i].c = M[j].c
      PROVE  i = j
  <2>1. CASE i \in 1..Len(J) /\ M[i] = J[i] /\ j \in 1..Len(J) /\ M[j] = J[j]
    BY <1>2, <2>1
  <2>2. CASE i \in 1..Len(J) /\ M[i] = J[i] /\ j - Len(J) \in 1..Len(W) /\ M[j] = W[j - Len(J)]
    BY <1>2, <2>2
  <2>3. CASE i - Len(J) \in 1..Len(W) /\ M[i] = W[i - Len(J)] /\ j \in 1..Len(J) /\ M[j] = J[j]
    BY <1>2, <2>3
  <2>4. CASE i - Len(J) \in 1..Len(W) /\ M[i] = W[i - Len(J)]
             /\ j - Len(J) \in 1..Len(W) /\ M[j] = W[j - Len(J)]
    <3>1. i - Len(J) = j - Len(J)
      BY <1>2, <2>4
    <3>2. QED  BY <1>1, <3>1
  <2>5. QED  BY <1>1, <2>1, <2>2, <2>3, <2>4
<1>3. ASSUME NEW i \in 1..Len(M), NEW j \in 1..Len(T)
      PROVE  M[i].c # T[j]
  <2>1. CASE i \in 1..Len(J) /\ M[i] = J[i]
    BY <2>1
  <2>2. CASE i - Len(J) \in 1..Len(W) /\ M[i] = W[i - Len(J)]
    BY <2>2
  <2>3. QED  BY <1>1, <2>1, <2>2
<1>4. 1..Len(<<>>) = {}
  OBVIOUS
<1>5. Once(M, T, <<>>)
  BY <1>2, <1>3, <1>4 DEF Once
<1>6. QED  BY <1>1, <1>5 DEF M

LEMMA OnceWakeI ==
    ASSUME NEW S, NEW X, NEW J \in Seq(S), NEW T \in Seq(X), NEW I \in Seq(X),
           NEW ok, Once(J, T, I), \A x \in X : [c |-> x, ok |-> ok, ticks |-> 0] \in S
    PROVE  J \o Wake(I, ok) \in Seq(S) /\ Once(J \o Wake(I, ok), T, <<>>)
<1> DEFINE W == Wake(I, ok)
<1>1. \A i \in 1..Len(W) : W[i].c = I[i] /\ i \in 1..Len(I)
  BY WakeIndex
<1>2. W \in Seq(S)
  BY WakeSeq
<1> HIDE DEF W
<1>3. /\ \A i, j \in 1..Len(W) : W[i].c = W[j].c => i = j
      /\ \A i \in 1..Len(J), j \in 1..Len(W) : J[i].c # W[j].c
      /\ \A i \in 1..Len(W), j \in 1..Len(T) : W[i].c # T[j]
  BY <1>1 DEF Once
<1>4. J \o W \in Seq(S) /\ Once(J \o W, T, <<>>)
  <2>1. /\ \A i, j \in 1..Len(J) : J[i].c = J[j].c => i = j
        /\ \A i, j \in 1..Len(T) : T[i] = T[j] => i = j
        /\ \A i \in 1..Len(J), j \in 1..Len(T) : J[i].c # T[j]
    BY DEF Once
  <2>2. QED  BY <1>2, <1>3, <2>1, OnceJoin
<1>5. QED  BY <1>4 DEF W

\* One who waits may give up; the others wait on.
LEMMA OthersIndex ==
    ASSUME NEW X, NEW q \in Seq(X), NEW c, \A i, j \in 1..Len(q) : q[i] = q[j] => i = j
    PROVE  /\ Others(q, c) \in Seq(X)
           /\ \A i \in 1..Len(Others(q, c)) :
                 \E k \in 1..Len(q) : Others(q, c)[i] = q[k] /\ q[k] # c
           /\ \A i, j \in 1..Len(Others(q, c)) : Others(q, c)[i] = Others(q, c)[j] => i = j
<1>1. CASE Waits(c, q) = {}
  <2>1. Others(q, c) = q
    BY <1>1 DEF Others
  <2>2. QED  BY <1>1, <2>1 DEF Waits
<1>2. CASE Waits(c, q) # {}
  <2> DEFINE k == CHOOSE j \in Waits(c, q) : TRUE
             before == SubSeq(q, 1, k - 1)
             after == SubSeq(q, k + 1, Len(q))
             r == before \o after
             At(i) == IF i < k THEN i ELSE i + 1
  <2>1. k \in 1..Len(q) /\ q[k] = c /\ Others(q, c) = r
    BY <1>2 DEF Others, Waits
  <2> HIDE DEF k
  <2>2. k \in Int /\ 1 <= k /\ k <= Len(q) /\ Len(q) \in Nat
    BY <2>1
  <2>3. before \in Seq(X) /\ Len(before) = k - 1 /\ \A i \in 1..(k - 1) : before[i] = q[i]
    BY <2>2
  <2>4. /\ after \in Seq(X) /\ Len(after) = Len(q) - k
        /\ \A i \in 1..(Len(q) - k) : after[i] = q[k + i]
    BY <2>2
  <2> HIDE DEF before, after
  <2>5. /\ r \in Seq(X)
        /\ \A i \in 1..Len(r) :
              \/ i \in 1..Len(before) /\ r[i] = before[i]
              \/ i - Len(before) \in 1..Len(after) /\ r[i] = after[i - Len(before)]
        /\ Len(r) = Len(before) + Len(after)
    <3>1. /\ r \in Seq(X) /\ Len(r) = Len(before) + Len(after)
          /\ \A i \in 1..Len(r) :
                \/ i \in 1..Len(before) /\ r[i] = before[i]
                \/ i - Len(before) \in 1..Len(after) /\ r[i] = after[i - Len(before)]
      <4>1. before \in Seq(X) /\ after \in Seq(X)
        BY <2>3, <2>4
      <4>2. QED  BY <4>1, JoinIndex
    <3>2. QED  BY <3>1
  <2> HIDE DEF r
  <2>6. ASSUME NEW i \in 1..Len(r)
         PROVE  At(i) \in 1..Len(q) /\ At(i) # k /\ r[i] = q[At(i)] /\ i \in Int
    <3>0. i \in Int /\ 1 <= i /\ i <= Len(r)
      BY <2>2, <2>3, <2>4, <2>5
    <3>1. CASE i \in 1..Len(before) /\ r[i] = before[i]
      BY <2>2, <2>3, <3>0, <3>1
    <3>2. CASE i - Len(before) \in 1..Len(after) /\ r[i] = after[i - Len(before)]
      <4>1. i - (k - 1) \in 1..(Len(q) - k) /\ k + (i - (k - 1)) = i + 1 /\ ~(i < k)
        BY <2>2, <2>3, <2>4, <3>0, <3>2
      <4>2. r[i] = q[i + 1]
        BY <2>3, <2>4, <3>2, <4>1
      <4>3. QED  BY <2>2, <3>0, <4>1, <4>2
    <3>3. QED  BY <2>5, <3>1, <3>2
  <2>7. ASSUME NEW i \in 1..Len(r), NEW j \in 1..Len(r), r[i] = r[j]
         PROVE  i = j
    <3>1. At(i) = At(j)
      <4> HIDE DEF At
      <4>1. QED  BY <2>6, <2>7
    <3>2. QED  BY <2>2, <2>6, <3>1
  <2>8. ASSUME NEW i \in 1..Len(r)
         PROVE  \E m \in 1..Len(q) : r[i] = q[m] /\ q[m] # c
    <3> HIDE DEF At
    <3>1. QED  BY <2>1, <2>6
  <2>9. QED  BY <2>1, <2>5, <2>7, <2>8
<1>3. QED  BY <1>1, <1>2

LEMMA OnceWithout ==
    ASSUME NEW X, NEW T \in Seq(X), NEW I \in Seq(X), NEW c, Once(<<>>, T, I)
    PROVE  /\ Others(T, c) \in Seq(X \ {c}) /\ Others(I, c) \in Seq(X \ {c})
           /\ Once(<<>>, Others(T, c), Others(I, c))
           /\ Free(c, <<>>, Others(T, c), Others(I, c))
<1>1. /\ Others(T, c) \in Seq(X)
      /\ \A i \in 1..Len(Others(T, c)) :
            \E k \in 1..Len(T) : Others(T, c)[i] = T[k] /\ T[k] # c
      /\ \A i, j \in 1..Len(Others(T, c)) : Others(T, c)[i] = Others(T, c)[j] => i = j
  BY OthersIndex DEF Once
<1>2. /\ Others(I, c) \in Seq(X)
      /\ \A i \in 1..Len(Others(I, c)) :
            \E k \in 1..Len(I) : Others(I, c)[i] = I[k] /\ I[k] # c
      /\ \A i, j \in 1..Len(Others(I, c)) : Others(I, c)[i] = Others(I, c)[j] => i = j
  BY OthersIndex DEF Once
<1>3. \A i \in 1..Len(Others(T, c)), j \in 1..Len(Others(I, c)) : Others(T, c)[i] # Others(I, c)[j]
  BY <1>1, <1>2 DEF Once
<1> DEFINE P == Others(T, c)
           Q == Others(I, c)
<1>4. 1..Len(<<>>) = {}
  OBVIOUS
<1>5. \A i \in 1..Len(P) : P[i] \in X \ {c}
  BY <1>1
<1>6. \A i \in 1..Len(Q) : Q[i] \in X \ {c}
  BY <1>2
<1>7. P \in Seq(X \ {c}) /\ Q \in Seq(X \ {c})
  BY <1>1, <1>2, <1>5, <1>6, SeqOf
<1>8. Once(<<>>, P, Q)
  BY <1>1, <1>2, <1>3, <1>4, Zenon DEF Once
<1>9. Free(c, <<>>, P, Q)
  BY <1>4, <1>5, <1>6, Zenon DEF Free
<1>10. QED  BY <1>7, <1>8, <1>9

-----------------------------------------------------------------------------
\* The continuation at the head of jobs has its turn

\* The conditions on the continuations of the others still hold.
Keeps(c) ==
    /\ \A i \in 1..Len(jobs) : jobs[i].c # c => jobs[i] \in Runnable'
    /\ \A i \in 1..Len(waitT) : waitT[i] # c => waitT[i] \in AwaitsTeardown'
    /\ \A i \in 1..Len(waitI) : waitI[i] # c => waitI[i] \in AwaitsInit'

LEMMA KeepsSets ==
    ASSUME Placed, NEW c,
           {t \in Runnable : t.c # c} \subseteq Runnable',
           {x \in AwaitsTeardown : x # c} \subseteq AwaitsTeardown',
           {x \in AwaitsInit : x # c} \subseteq AwaitsInit'
    PROVE  Keeps(c)
<1>1. /\ \A i \in 1..Len(jobs) : jobs[i] \in Runnable
      /\ \A i \in 1..Len(waitT) : waitT[i] \in AwaitsTeardown
      /\ \A i \in 1..Len(waitI) : waitI[i] \in AwaitsInit
  BY ElementOfSeq DEF Placed
<1>2. QED  BY <1>1, Zenon DEF Keeps

LEMMA KeepsSame ==
    ASSUME Placed, NEW c,
           UNCHANGED <<closed, shut, worker, ready, profile, init, teardown, queue>>,
           \A d \in Callers : d # c => pc'[d] = pc[d]
    PROVE  Keeps(c)
<1>1. /\ {t \in Runnable : t.c # c} \subseteq Runnable'
      /\ {x \in AwaitsTeardown : x # c} \subseteq AwaitsTeardown'
      /\ {x \in AwaitsInit : x # c} \subseteq AwaitsInit'
  BY DEF Runnable, AwaitsTeardown, AwaitsInit, MayRun
<1>2. QED  BY <1>1, KeepsSets

\* Without its continuation.
LEMMA Leaving ==
    ASSUME Placed, jobs # <<>>, NEW c, c = Head(jobs).c, Keeps(c)
    PROVE  /\ Head(jobs) \in Runnable
           /\ Tail(jobs) \in Seq(Runnable')
           /\ waitT \in Seq(AwaitsTeardown') /\ waitI \in Seq(AwaitsInit')
           /\ Once(Tail(jobs), waitT, waitI) /\ Free(c, Tail(jobs), waitT, waitI)
<1> DEFINE X == AwaitsTeardown \cup AwaitsInit
<1>1. jobs \in Seq(Runnable) /\ waitT \in Seq(AwaitsTeardown) /\ waitI \in Seq(AwaitsInit)
  BY DEF Placed
<1>2. waitT \in Seq(X) /\ waitI \in Seq(X)
  BY <1>1
<1> HIDE DEF X
<1>3. Once(Tail(jobs), waitT, waitI) /\ Free(c, Tail(jobs), waitT, waitI)
  BY <1>1, <1>2, OnceHead DEF Placed
<1>4. /\ Head(jobs) \in Runnable
      /\ Tail(jobs) \in Seq(Runnable)
      /\ \A i \in 1..Len(Tail(jobs)) : Tail(jobs)[i] \in Runnable
  BY <1>1, TailIndex
<1>5. \A i \in 1..Len(Tail(jobs)) : Tail(jobs)[i] \in Runnable'
  <2>1. \A i \in 1..Len(Tail(jobs)) : i + 1 \in 1..Len(jobs) /\ Tail(jobs)[i] = jobs[i + 1]
    BY <1>1, TailIndex
  <2>2. QED  BY <1>3, <2>1 DEF Free, Keeps
<1>6. \A i \in 1..Len(waitT) : waitT[i] \in AwaitsTeardown'
  BY <1>1, <1>3 DEF Free, Keeps
<1>7. \A i \in 1..Len(waitI) : waitI[i] \in AwaitsInit'
  BY <1>1, <1>3 DEF Free, Keeps
<1>8. Tail(jobs) \in Seq(Runnable')
  BY <1>4, <1>5, SeqOf
<1>9. waitT \in Seq(AwaitsTeardown') /\ waitI \in Seq(AwaitsInit')
  BY <1>1, <1>6, <1>7, SeqOf
<1>10. QED  BY <1>3, <1>4, <1>8, <1>9

LEMMA PlacedAs ==
    ASSUME jobs' \in Seq(Runnable'), waitT' \in Seq(AwaitsTeardown'), waitI' \in Seq(AwaitsInit'),
           Once(jobs', waitT', waitI')
    PROVE  Placed'
BY DEF Placed

LEMMA Ends ==
    ASSUME Placed, jobs # <<>>, Keeps(Head(jobs).c),
           jobs' = Tail(jobs), UNCHANGED <<waitT, waitI>>
    PROVE  Placed'
BY Leaving, PlacedAs

LEMMA RunsAgain ==
    ASSUME Placed, jobs # <<>>, Keeps(Head(jobs).c), NEW t, t \in Runnable', t.c = Head(jobs).c,
           jobs' = Tail(jobs) \o <<t>>, UNCHANGED <<waitT, waitI>>
    PROVE  Placed'
<1> DEFINE X == AwaitsTeardown' \cup AwaitsInit'
           R == Runnable'
           J == Tail(jobs)
<1>1. /\ J \in Seq(R) /\ waitT \in Seq(AwaitsTeardown') /\ waitI \in Seq(AwaitsInit')
      /\ Once(J, waitT, waitI) /\ Free(t.c, J, waitT, waitI)
  BY Leaving
<1>2. waitT \in Seq(X) /\ waitI \in Seq(X)
  BY <1>1
<1>3. t \in R
  OBVIOUS
<1>4. jobs' = J \o <<t>>
  OBVIOUS
<1> HIDE DEF X, R, J
<1>5. jobs' = Append(J, t) /\ Append(J, t) \in Seq(R)
  BY <1>1, <1>3, <1>4, AddIndex
<1>6. Once(Append(J, t), waitT, waitI)
  BY <1>1, <1>2, <1>3, OnceAddJob
<1>7. QED  BY <1>1, <1>5, <1>6, PlacedAs DEF R

LEMMA WaitsForTeardown ==
    ASSUME Placed, jobs # <<>>, Keeps(Head(jobs).c), Head(jobs).c \in AwaitsTeardown',
           jobs' = Tail(jobs), waitT' = Append(waitT, Head(jobs).c), UNCHANGED waitI
    PROVE  Placed'
<1> DEFINE X == AwaitsTeardown' \cup AwaitsInit'
           R == Runnable'
           A == AwaitsTeardown'
           c == Head(jobs).c
<1>1. /\ jobs' \in Seq(R) /\ waitT \in Seq(A) /\ waitI \in Seq(AwaitsInit')
      /\ Once(jobs', waitT, waitI) /\ Free(c, jobs', waitT, waitI)
  BY Leaving
<1>2. waitT \in Seq(X) /\ waitI \in Seq(X) /\ c \in X
  BY <1>1
<1>3. c \in A
  OBVIOUS
<1>4. waitT' = Append(waitT, c)
  OBVIOUS
<1> HIDE DEF X, R, A, c
<1>5. waitT' \in Seq(A)
  BY <1>1, <1>3, <1>4, AddIndex
<1>6. Once(jobs', waitT', waitI)
  BY <1>1, <1>2, <1>4, OnceAddT
<1>7. QED  BY <1>1, <1>5, <1>6, PlacedAs DEF R, A

LEMMA WaitsForInit ==
    ASSUME Placed, jobs # <<>>, Keeps(Head(jobs).c), Head(jobs).c \in AwaitsInit',
           jobs' = Tail(jobs), waitI' = Append(waitI, Head(jobs).c), UNCHANGED waitT
    PROVE  Placed'
<1> DEFINE X == AwaitsTeardown' \cup AwaitsInit'
           R == Runnable'
           A == AwaitsInit'
           c == Head(jobs).c
<1>1. /\ jobs' \in Seq(R) /\ waitT \in Seq(AwaitsTeardown') /\ waitI \in Seq(A)
      /\ Once(jobs', waitT, waitI) /\ Free(c, jobs', waitT, waitI)
  BY Leaving
<1>2. waitT \in Seq(X) /\ waitI \in Seq(X) /\ c \in X
  BY <1>1
<1>3. c \in A
  OBVIOUS
<1>4. waitI' = Append(waitI, c)
  OBVIOUS
<1> HIDE DEF X, R, A, c
<1>5. waitI' \in Seq(A)
  BY <1>1, <1>3, <1>4, AddIndex
<1>6. Once(jobs', waitT, waitI')
  BY <1>1, <1>2, <1>4, OnceAddI
<1>7. QED  BY <1>1, <1>5, <1>6, PlacedAs DEF R, A

\* `await teardown` puts the continuation where it belongs.
LEMMA Awaiting ==
    ASSUME Placed, Scalars, jobs # <<>>, NEW c \in Callers, c = Head(jobs).c, Keeps(c),
           NEW step \in {"start", "caught"}, AwaitTeardown(c, step, Tail(jobs)),
           UNCHANGED <<waitI, teardown>>
    PROVE  Placed'
<1>1. pc'[c] = step
  BY DEF AwaitTeardown, Scalars
<1>2. CASE teardown = "pending"
  <2>1. c \in AwaitsTeardown'
    BY <1>1, CallerAssumption DEF AwaitsTeardown, Callers
  <2>2. jobs' = Tail(jobs) /\ waitT' = Append(waitT, c)
    BY <1>2 DEF AwaitTeardown
  <2>3. QED  BY <2>1, <2>2, WaitsForTeardown
<1>3. CASE teardown # "pending"
  <2> DEFINE t == [c |-> c, ok |-> teardown = "done", ticks |-> 0]
  <2>1. jobs' = Tail(jobs) \o <<t>> /\ waitT' = waitT
    BY <1>3 DEF AwaitTeardown, Continue
  <2>2. MayRun(c, teardown = "done")'
    BY <1>1, <1>3 DEF MayRun, Inner, Starting, Scalars
  <2>3. t \in Runnable'
    BY <2>2, CallerAssumption DEF Runnable, Job, Callers
  <2>4. t.c = c
    OBVIOUS
  <2> HIDE DEF t
  <2>5. QED  BY <2>1, <2>3, <2>4, RunsAgain
<1>4. QED  BY <1>2, <1>3

\* The caller at the head is where MayRun allows it.
LEMMA Running ==
    ASSUME IInv, jobs # <<>>, NEW c \in Callers, c = Head(jobs).c
    PROVE  /\ MayRun(c, Head(jobs).ok) /\ Head(jobs) \in Job
           /\ c \in Checks => Head(jobs).ticks = 0
           /\ c \in Requests => queue # <<>> /\ c = Head(queue)
           /\ pending # Nobody => pending # c
<1>1. Head(jobs) \in Runnable
  BY TailIndex DEF IInv, Placed
<1>2. MayRun(c, Head(jobs).ok) /\ Head(jobs) \in Job /\ (c \in Checks => Head(jobs).ticks = 0)
  BY <1>1, CallerAssumption DEF Runnable
<1>3. c \in Requests => queue # <<>> /\ c = Head(queue)
  BY <1>2 DEF IInv, Line, MayRun, Inner, Starting
<1>4. pending # Nobody => pending # c
  BY <1>2 DEF IInv, Line, MayRun, Inner, Starting
<1>5. QED  BY <1>2, <1>3, <1>4

Rest == Scalars /\ Line /\ OneCheck /\ Group /\ Shut

\* Steps of one caller that leave the worker and the queue alone.
LEMMA Advances ==
    ASSUME IInv, jobs # <<>>, NEW c \in Callers, c = Head(jobs).c,
           UNCHANGED <<closed, shut, workerVars, queue>>,
           verdict' \in [Requests -> Verdicts], cancelled' \subseteq Requests,
           NEW s \in Steps, pc' = [pc EXCEPT ![c] = s],
           c \in Requests => s \notin {"idle", "queued", "done"},
           c \in Checks => s \in {"start", "init", "switch", "forked", "owner", "done"},
           pc[c] \in {"owner", "forked"} /\ init # 0 => s \in {"owner", "forked"},
           waitI' # <<>> => init # 0 \/ closed
    PROVE  Rest'
<1>1. /\ Scalars /\ Line /\ OneCheck /\ Group /\ Shut
      /\ pc[c] \in Inner /\ (pending # Nobody => pending # c)
      /\ c \in Requests => queue # <<>> /\ c = Head(queue)
  BY Running DEF IInv, MayRun
<1>2. pc'[c] = s /\ \A d \in Callers : d # c => pc'[d] = pc[d]
  BY <1>1 DEF Scalars
<1>3. Scalars'
  BY <1>1 DEF Scalars, workerVars
<1>4. Line'
  <2>1. queue \in Seq(Outstanding')
    <3>1. queue \in Seq(Outstanding)
      BY <1>1 DEF Line
    <3>2. Outstanding \subseteq Outstanding'
      BY <1>2 DEF Outstanding, Callers
    <3>3. QED  BY <3>1, <3>2, SeqMonotonic
  <2>2. \A r \in Requests : pc'[r] \notin {"idle", "queued", "done"} => queue # <<>> /\ r = Head(queue)
    BY <1>1, <1>2 DEF Line, Callers
  <2>3. pending # Nobody => pc'[pending] = "working"
    BY <1>1, <1>2 DEF Line, Scalars, Callers
  <2>4. QED  BY <1>1, <2>1, <2>2, <2>3 DEF Line, workerVars
<1>5. OneCheck'
  <2>1. \A d \in Checks : pc'[d] \notin {"idle", "done"} => pc[d] \notin {"idle", "done"}
    BY <1>1, <1>2 DEF Inner, Starting, Callers
  <2>2. QED  BY <1>1, <1>2, <2>1 DEF OneCheck, Callers
<1>6. Group'
  <2>1. init # 0 => \E d \in Callers : pc'[d] \in {"owner", "forked"}
    BY <1>1, <1>2 DEF Group
  <2>2. QED  BY <1>1, <2>1 DEF Group, OneGroup, OwnProfile, workerVars
<1>7. Shut'
  BY <1>1 DEF Shut, workerVars
<1>8. QED  BY <1>3, <1>4, <1>5, <1>6, <1>7 DEF Rest

LEMMA Whole ==
    ASSUME Rest', Placed', Order'
    PROVE  IInv'
BY DEF Rest, IInv

-----------------------------------------------------------------------------
\* The order of the continuations

\* No check may replace the worker when a request has any turn but these.
LEMMA NoneMayReplace ==
    ASSUME IInv, jobs # <<>>, Head(jobs).c \in Requests, pc[Head(jobs).c] # "owner",
           pc[Head(jobs).c] = "started" => Head(jobs).ticks = 0
    PROVE  \A i \in 1..Len(jobs) : ~MayReplace(i)
<1>1. /\ Len(jobs) \in Nat /\ 1 \in 1..Len(jobs) /\ Head(jobs) = jobs[1]
  BY TailIndex DEF IInv, Placed
<1>2. ASSUME NEW i \in 1..Len(jobs), MayReplace(i) PROVE FALSE
  <2>1. Behind(i, 1)
    BY <1>1, <1>2 DEF IInv, Order
  <2>2. QED  BY <1>1, <2>1 DEF Behind
<1>3. QED  BY <1>2

LEMMA NoneReady == ~ready' => Order'
BY DEF Order, MayReplace

\* The continuation t of the caller that runs may come last.
LEMMA OrderKept ==
    ASSUME IInv, jobs # <<>>, NEW c \in Callers, c = Head(jobs).c,
           NEW t \in Job, t.c = c, jobs' \in {Tail(jobs), Tail(jobs) \o <<t>>},
           UNCHANGED <<ready, pending>>, \A d \in Callers : d # c => pc'[d] = pc[d],
           c \in Requests => \A i \in 1..Len(jobs) : MayReplace(i) =>
               \/ jobs' = Tail(jobs)
               \/ pc'[c] = "owner"
               \/ pc'[c] = "started" /\ (t.ticks > 0 \/ pc[jobs[i].c] = "start"),
           c \in Checks /\ jobs' # Tail(jobs) /\ ready /\ pc'[c] \in {"init", "start"}
               => pc[c] = "init" /\ pc'[c] = "start"
    PROVE  Order'
<1>1. /\ jobs \in Seq(Runnable) /\ jobs \in Seq(Job)
      /\ Order /\ Free(c, Tail(jobs), waitT, waitI)
  <2>1. jobs \in Seq(Runnable) /\ Runnable \subseteq Job
    BY DEF IInv, Placed, Runnable
  <2>2. waitT \in Seq(AwaitsTeardown \cup AwaitsInit) /\ waitI \in Seq(AwaitsTeardown \cup AwaitsInit)
    BY DEF IInv, Placed
  <2>3. Free(c, Tail(jobs), waitT, waitI)
    BY <2>1, <2>2, OnceHead DEF IInv, Placed
  <2>4. QED  BY <2>1, <2>3, SeqMonotonic DEF IInv
<1>2. /\ 1 \in 1..Len(jobs) /\ Head(jobs) = jobs[1] /\ Len(jobs) \in Nat
      /\ Tail(jobs) \in Seq(Job) /\ Len(Tail(jobs)) = Len(jobs) - 1
      /\ \A i \in 1..Len(Tail(jobs)) : /\ i + 1 \in 1..Len(jobs)
                                       /\ Tail(jobs)[i] = jobs[i + 1] /\ Tail(jobs)[i] \in Job
                                       /\ Tail(jobs)[i].c # c
  <2>1. \A i \in 1..Len(Tail(jobs)) : Tail(jobs)[i].c # c
    BY <1>1 DEF Free
  <2>2. QED  BY <1>1, <2>1, TailIndex
<1>3. ASSUME NEW k \in 1..Len(jobs')
      PROVE  \/ k + 1 \in 1..Len(jobs) /\ jobs'[k] = jobs[k + 1] /\ jobs'[k].c # c /\ jobs'[k] \in Job
             \/ k = Len(jobs) /\ jobs'[k] = t /\ jobs' # Tail(jobs)
  <2>1. CASE jobs' = Tail(jobs)
    BY <1>2, <2>1
  <2>2. CASE jobs' = Tail(jobs) \o <<t>> /\ jobs' # Tail(jobs)
    <3> DEFINE J == Tail(jobs)
    <3>1. J \in Seq(Job) /\ jobs' = J \o <<t>> /\ Len(J) = Len(jobs) - 1
      BY <1>2, <2>2
    <3> HIDE DEF J
    <3>2. jobs' = Append(J, t)
      BY <3>1, AddIndex
    <3>3. /\ Len(jobs') = Len(J) + 1 /\ jobs'[Len(J) + 1] = t
          /\ \A i \in 1..Len(J) : jobs'[i] = J[i]
      BY <3>1, <3>2, AddIndex
    <3>4. Len(J) + 1 = Len(jobs) /\ Len(jobs') = Len(jobs) /\ jobs'[Len(jobs)] = t
      <4>1. Len(jobs) \in Nat /\ Len(J) = Len(jobs) - 1
        BY <1>2, <3>1
      <4>2. Len(J) + 1 = Len(jobs)
        BY <4>1
      <4>3. QED  BY <3>3, <4>2
    <3>5. k \in 1..Len(J) \/ k = Len(jobs)
      <4>1. Len(jobs) \in Nat /\ Len(J) = Len(jobs) - 1 /\ k \in 1..Len(jobs)
        BY <1>2, <3>1, <3>4
      <4>2. QED  BY <4>1
    <3>6. CASE k \in 1..Len(J)
      BY <1>2, <3>3, <3>6 DEF J
    <3>7. CASE k = Len(jobs)
      BY <2>2, <3>4, <3>7
    <3>8. QED  BY <3>5, <3>6, <3>7
  <2>3. QED  BY <2>1, <2>2
<1>4. ASSUME NEW k \in 1..Len(jobs'), k + 1 \in 1..Len(jobs), jobs'[k] = jobs[k + 1],
             jobs'[k].c # c, MayReplace(k)'
      PROVE  MayReplace(k + 1)
  BY <1>4 DEF MayReplace, Callers
<1>5. ASSUME NEW k \in 1..Len(jobs'), jobs'[k] = t, jobs' # Tail(jobs), MayReplace(k)'
      PROVE  MayReplace(1) /\ c \in Checks /\ pc[c] = "init" /\ pc'[c] = "start"
  BY <1>2, <1>5 DEF MayReplace
<1>6. ASSUME NEW i \in 1..Len(jobs'), MayReplace(i)'
      PROVE  pending' = Nobody
  BY <1>1, <1>2, <1>3, <1>4, <1>5, <1>6 DEF Order
<1>7. ASSUME NEW i \in 1..Len(jobs'), MayReplace(i)', NEW j \in 1..Len(jobs'),
             jobs'[j].c \in Requests
      PROVE  Behind(i, j)'
  <2>0. i \in Nat /\ j \in Nat
    OBVIOUS
  <2>1. CASE /\ i + 1 \in 1..Len(jobs) /\ jobs'[i] = jobs[i + 1] /\ jobs'[i].c # c
             /\ j + 1 \in 1..Len(jobs) /\ jobs'[j] = jobs[j + 1] /\ jobs'[j].c # c
    <3>1. Behind(i + 1, j + 1)
      BY <1>1, <1>4, <1>7, <2>1 DEF Order
    <3>2. jobs'[i].c \in Callers /\ jobs'[j].c \in Callers
      BY <1>7 DEF MayReplace, Callers
    <3>3. i + 1 < j + 1 <=> i < j
      BY <2>0
    <3>4. QED  BY <2>1, <3>1, <3>2, <3>3 DEF Behind
  <2>2. CASE /\ i + 1 \in 1..Len(jobs) /\ jobs'[i] = jobs[i + 1] /\ jobs'[i].c # c
             /\ j = Len(jobs) /\ jobs'[j] = t /\ jobs' # Tail(jobs)
    <3>1. MayReplace(i + 1) /\ c \in Requests
      BY <1>4, <1>7, <2>2
    <3>2. i < j
      <4>1. i + 1 \in 1..Len(jobs) /\ j = Len(jobs) /\ Len(jobs) \in Nat
        BY <1>2, <2>2
      <4>2. QED  BY <2>0, <4>1
    <3>3. pc'[jobs'[i].c] = pc[jobs[i + 1].c]
      BY <1>7, <2>2 DEF MayReplace, Callers
    <3>4. /\ pc'[c] = "owner" \/ (pc'[c] = "started" /\ (t.ticks > 0 \/ pc[jobs[i + 1].c] = "start"))
          /\ pc[jobs[i + 1].c] \in {"init", "start"}
      BY <2>2, <3>1 DEF MayReplace
    <3>5. QED  BY <2>2, <3>2, <3>3, <3>4 DEF Behind
  <2>3. CASE /\ jobs'[i] = t /\ jobs' # Tail(jobs)
             /\ j + 1 \in 1..Len(jobs) /\ jobs'[j] = jobs[j + 1] /\ jobs'[j].c # c
    <3>1. MayReplace(1) /\ pc[c] = "init" /\ pc'[c] = "start"
      BY <1>5, <1>7, <2>3
    <3>2. Behind(1, j + 1)
      BY <1>1, <1>2, <1>7, <2>3, <3>1 DEF Order
    <3>3. jobs'[j].c \in Callers
      BY <1>7 DEF Callers
    <3>4. QED  BY <1>2, <2>3, <3>1, <3>2, <3>3 DEF Behind
  <2>4. CASE /\ jobs'[i] = t /\ jobs'[j] = t /\ jobs' # Tail(jobs)
    <3>1. c \in Checks /\ c \in Requests
      BY <1>5, <1>7, <2>4
    <3>2. QED  BY <3>1, CallerAssumption
  <2>5. QED  BY <1>3, <2>1, <2>2, <2>3, <2>4
<1>8. QED  BY <1>6, <1>7 DEF Order

-----------------------------------------------------------------------------
\* start()

\* A worker that is gone, or is going, is not ready and initializes nothing.
LEMMA Gone ==
    ASSUME IInv, closed \/ teardown # "done"
    PROVE  worker = 0 /\ ~ready /\ init = 0 /\ pending = Nobody
BY DEF IInv, Group, Shut

LEMMA Headed ==
    ASSUME NEW c, NEW step, Turn(c, step)
    PROVE  /\ c \in Callers /\ jobs # <<>> /\ c = Head(jobs).c /\ pc[c] = step
           /\ Head(jobs).ticks = 0
BY DEF Turn, Quiet

\* An owner that runs has no initialization to wait for.
LEMMA OwnerRuns ==
    ASSUME IInv, Scalars, jobs # <<>>, NEW c \in Callers, c = Head(jobs).c, pc[c] = "owner"
    PROVE  init = 0 /\ (~Head(jobs).ok => ~ready)
<1>1. MayRun(c, Head(jobs).ok) /\ Head(jobs).ok \in BOOLEAN
  BY Running DEF Job
<1>2. CASE ~Head(jobs).ok
  BY <1>1, <1>2, Gone DEF MayRun
<1>3. CASE Head(jobs).ok
  BY <1>1, <1>3 DEF MayRun, IInv, Group
<1>4. QED  BY <1>1, <1>2, <1>3

LEMMA ThrowInv ==
    ASSUME IInv, jobs # <<>>, NEW c \in Callers, c = Head(jobs).c,
           pc[c] \in {"start", "init", "switch", "owner"},
           pc[c] = "owner" => ~ready,
           NEW v \in Verdicts, Throw(c, v, Tail(jobs)), cancelled' \subseteq Requests,
           UNCHANGED <<closed, shut, workerVars, queue, waitT, waitI>>
    PROVE  IInv'
<1>1. /\ Scalars /\ Placed /\ Group /\ OneCheck
      /\ pc[c] = "owner" => init = 0
  BY OwnerRuns DEF IInv
<1> DEFINE s == IF c \in Requests THEN "thrown" ELSE "done"
           t == [c |-> c, ok |-> TRUE, ticks |-> 1]
<1>2. /\ s \in Steps /\ pc' = [pc EXCEPT ![c] = s]
      /\ jobs' = IF c \in Requests THEN Tail(jobs) \o <<t>> ELSE Tail(jobs)
      /\ verdict' \in [Requests -> Verdicts]
  BY <1>1 DEF Throw, Continue, Steps, Scalars
<1>3. pc'[c] = s /\ \A d \in Callers : d # c => pc'[d] = pc[d]
  BY <1>1, <1>2 DEF Scalars
<1>4. t.c = c /\ t \in Job /\ (t.ok = TRUE)
  BY DEF Job, Callers
<1>5. Keeps(c)
  BY <1>1, <1>3, KeepsSame DEF workerVars
<1>6. Rest'
  <2>1. waitI' # <<>> => init # 0 \/ closed
    BY <1>1 DEF Group
  <2>2. c \in Requests => s \notin {"idle", "queued", "done"}
    OBVIOUS
  <2>3. c \in Checks => s \in {"start", "init", "switch", "forked", "owner", "done"}
    BY CallerAssumption
  <2>4. pc[c] \in {"owner", "forked"} /\ init # 0 => s \in {"owner", "forked"}
    BY <1>1
  <2> HIDE DEF s
  <2>5. QED  BY <1>2, <2>1, <2>2, <2>3, <2>4, Advances
<1>7. Placed'
  <2>1. CASE c \in Requests
    <3>1. MayRun(c, TRUE)'
      BY <1>3, <2>1 DEF MayRun, Inner, Starting
    <3>2. t \in Runnable'
      BY <1>4, <2>1, <3>1, CallerAssumption DEF Runnable, Callers
    <3> HIDE DEF t
    <3>3. QED  BY <1>1, <1>2, <1>4, <1>5, <2>1, <3>2, RunsAgain
  <2>2. CASE c \notin Requests
    BY <1>1, <1>2, <1>5, <2>2, Ends
  <2>3. QED  BY <2>1, <2>2
<1>8. Order'
  <2>1. c \in Requests => \A i \in 1..Len(jobs) : ~MayReplace(i)
    <3>1. CASE pc[c] = "owner"
      BY <3>1 DEF MayReplace
    <3>2. CASE pc[c] # "owner"
      BY <3>2, NoneMayReplace
    <3>3. QED  BY <3>1, <3>2
  <2>2. jobs' \in {Tail(jobs), Tail(jobs) \o <<t>>}
    BY <1>2
  <2>3. c \in Checks => jobs' = Tail(jobs)
    BY <1>2, CallerAssumption
  <2> HIDE DEF t
  <2>4. QED  BY <1>3, <1>4, <2>1, <2>2, <2>3, OrderKept DEF workerVars
<1>9. QED  BY <1>6, <1>7, <1>8, Whole

LEMMA StartRefusedInv == ASSUME IInv, NEW c \in Callers, StartRefused(c) PROVE IInv'
<1>1. /\ jobs # <<>> /\ c = Head(jobs).c /\ pc[c] = "start"
      /\ cancelled' = cancelled /\ cancelled \subseteq Requests
  BY Headed DEF StartRefused, IInv, Scalars
<1>2. (IF Head(jobs).ok THEN "closed" ELSE "unproven") \in Verdicts
  BY DEF Verdicts
<1>3. QED  BY <1>1, <1>2, ThrowInv DEF StartRefused

LEMMA StartExpiresInv == ASSUME IInv, NEW r \in Requests, StartExpires(r) PROVE IInv'
<1>1. /\ r \in Callers /\ jobs # <<>> /\ r = Head(jobs).c /\ pc[r] = "start"
      /\ cancelled' \subseteq Requests
  BY Headed DEF StartExpires, IInv, Scalars
<1>2. "cancelled" \in Verdicts
  BY DEF Verdicts
<1>3. QED  BY <1>1, <1>2, ThrowInv DEF StartExpires

\* start() returns to send(), or to the health check.
LEMMA ReturnInv ==
    ASSUME IInv, jobs # <<>>, NEW c \in Callers, c = Head(jobs).c,
           pc[c] \in {"start", "owner"},
           (worker = 0 /\ teardown = "pending") \/ (ready /\ profile = ProfileOf(c)),
           pc' = [pc EXCEPT ![c] = IF c \in Requests THEN "started" ELSE "done"],
           jobs' = Tail(jobs) \o (IF c \in Requests THEN Continue(c, TRUE, 1) ELSE <<>>),
           UNCHANGED <<closed, shut, workerVars, queue, verdict, cancelled, waitT, waitI>>
    PROVE  IInv'
<1>1. /\ Scalars /\ Placed /\ Group /\ OneCheck
      /\ pc[c] = "owner" => init = 0
  BY OwnerRuns DEF IInv
<1> DEFINE s == IF c \in Requests THEN "started" ELSE "done"
           t == [c |-> c, ok |-> TRUE, ticks |-> 1]
<1>2. /\ s \in Steps /\ pc' = [pc EXCEPT ![c] = s]
      /\ verdict' \in [Requests -> Verdicts] /\ cancelled' \subseteq Requests
  BY <1>1 DEF Steps, Starting, Scalars
<1>3. jobs' = IF c \in Requests THEN Tail(jobs) \o <<t>> ELSE Tail(jobs)
  <2>1. Tail(jobs) \in Seq(Runnable)
    BY <1>1, TailIndex DEF Placed
  <2>2. Tail(jobs) \o <<>> = Tail(jobs)
    BY <2>1, ConcatEmptySeq
  <2>3. QED  BY <2>2 DEF Continue
<1>4. pc'[c] = s /\ \A d \in Callers : d # c => pc'[d] = pc[d]
  BY <1>1, <1>2 DEF Scalars
<1>5. t.c = c /\ t \in Job /\ t.ok = TRUE /\ t.ticks > 0
  BY DEF Job, Callers
<1>6. Keeps(c)
  BY <1>1, <1>4, KeepsSame DEF workerVars
<1>7. Rest'
  <2>1. waitI' # <<>> => init # 0 \/ closed
    BY <1>1 DEF Group
  <2>2. c \in Requests => s \notin {"idle", "queued", "done"}
    OBVIOUS
  <2>3. c \in Checks => s \in {"start", "init", "switch", "forked", "owner", "done"}
    BY CallerAssumption
  <2>4. pc[c] \in {"owner", "forked"} /\ init # 0 => s \in {"owner", "forked"}
    BY <1>1
  <2> HIDE DEF s
  <2>5. QED  BY <1>2, <2>1, <2>2, <2>3, <2>4, Advances
<1>8. Placed'
  <2>1. CASE c \in Requests
    <3>1. MayRun(c, TRUE)'
      BY <1>4, <2>1 DEF MayRun, Inner, Starting, workerVars
    <3>2. t \in Runnable'
      BY <1>5, <2>1, <3>1, CallerAssumption DEF Runnable, Callers
    <3> HIDE DEF t
    <3>3. QED  BY <1>1, <1>3, <1>5, <1>6, <2>1, <3>2, RunsAgain
  <2>2. CASE c \notin Requests
    BY <1>1, <1>3, <1>6, <2>2, Ends
  <2>3. QED  BY <2>1, <2>2
<1>9. Order'
  <2>1. c \in Requests => pc'[c] = "started" /\ t.ticks > 0
    BY <1>4, <1>5
  <2>2. jobs' \in {Tail(jobs), Tail(jobs) \o <<t>>}
    BY <1>3
  <2>3. c \in Checks => jobs' = Tail(jobs)
    BY <1>3, CallerAssumption
  <2> HIDE DEF t
  <2>4. QED  BY <1>4, <1>5, <2>1, <2>2, <2>3, OrderKept DEF workerVars
<1>10. QED  BY <1>7, <1>8, <1>9, Whole

LEMMA StartFindsInv == ASSUME IInv, NEW c \in Callers, StartFinds(c) PROVE IInv'
<1>1. jobs # <<>> /\ c = Head(jobs).c /\ pc[c] = "start" /\ ready /\ profile = ProfileOf(c)
  BY Headed DEF StartFinds
<1>2. QED  BY <1>1, ReturnInv DEF StartFinds

LEMMA StartReturnsInv == ASSUME IInv, NEW c \in Callers, StartReturns(c) PROVE IInv'
<1>1. /\ jobs # <<>> /\ c = Head(jobs).c /\ pc[c] = "owner" /\ Scalars
      /\ cancelled' \subseteq Requests
  BY Headed DEF StartReturns, IInv, Scalars
<1>2. MayRun(c, Head(jobs).ok) /\ Head(jobs).ok \in BOOLEAN
  BY <1>1, Running DEF Job
<1>3. CASE Head(jobs).ok
  <2>1. (worker = 0 /\ teardown = "pending") \/ (ready /\ profile = ProfileOf(c))
    BY <1>1, <1>2, <1>3 DEF MayRun
  <2>2. QED  BY <1>1, <1>3, <2>1, ReturnInv DEF StartReturns
<1>4. CASE ~Head(jobs).ok
  <2>1. "failed" \in Verdicts
    BY DEF Verdicts
  <2>2. ~ready
    BY <1>1, <1>4, OwnerRuns
  <2>3. QED  BY <1>1, <1>4, <2>1, <2>2, ThrowInv DEF StartReturns
<1>5. QED  BY <1>3, <1>4

\* It waits for the initialization in progress, another's or its own.
LEMMA AwaitInitInv ==
    ASSUME IInv, jobs # <<>>, NEW c \in Callers, c = Head(jobs).c, init # 0,
           \/ pc[c] = "start" /\ pc' = [pc EXCEPT ![c] = "init"]
           \/ pc[c] = "forked" /\ profile = ProfileOf(c) /\ pc' = [pc EXCEPT ![c] = "owner"],
           jobs' = Tail(jobs), waitI' = Append(waitI, c),
           UNCHANGED <<closed, shut, workerVars, queue, verdict, cancelled, waitT>>
    PROVE  IInv'
<1>1. Scalars /\ Placed /\ Group /\ OneCheck /\ ~ready
  BY DEF IInv, Group, Scalars
<1> DEFINE s == IF pc[c] = "start" THEN "init" ELSE "owner"
<1>2. /\ s \in Steps /\ pc' = [pc EXCEPT ![c] = s]
      /\ verdict' \in [Requests -> Verdicts] /\ cancelled' \subseteq Requests
  BY <1>1 DEF Steps, Starting, Scalars
<1>3. pc'[c] = s /\ \A d \in Callers : d # c => pc'[d] = pc[d]
  BY <1>1, <1>2 DEF Scalars
<1>4. Keeps(c)
  BY <1>1, <1>3, KeepsSame DEF workerVars
<1>5. Rest'
  <2>1. /\ s \in {"init", "owner"}
        /\ pc[c] \in {"owner", "forked"} => s \in {"owner", "forked"}
    BY DEF s
  <2> HIDE DEF s
  <2>2. QED  BY <1>2, <2>1, Advances
<1>6. Placed'
  <2>1. c \in AwaitsInit'
    BY <1>3 DEF AwaitsInit, workerVars
  <2>2. QED  BY <1>1, <1>4, <2>1, WaitsForInit
<1>7. Order'
  BY <1>1, NoneReady DEF workerVars
<1>8. QED  BY <1>5, <1>6, <1>7, Whole

LEMMA StartJoinsInv == ASSUME IInv, NEW c \in Callers, StartJoins(c) PROVE IInv'
<1>1. jobs # <<>> /\ c = Head(jobs).c /\ pc[c] = "start" /\ init # 0
  BY Headed DEF StartJoins
<1>2. QED  BY <1>1, AwaitInitInv DEF StartJoins

LEMMA StartOwnsInv == ASSUME IInv, NEW c \in Callers, StartOwns(c) PROVE IInv'
<1>1. jobs # <<>> /\ c = Head(jobs).c /\ pc[c] = "forked"
  BY Headed DEF StartOwns
<1>2. init # 0 /\ profile = ProfileOf(c)
  BY <1>1, Running DEF MayRun
<1>3. QED  BY <1>1, <1>2, AwaitInitInv DEF StartOwns

\* The teardown is awaited at step, by a caller that is outstanding.
LEMMA AwaitInv ==
    ASSUME IInv, jobs # <<>>, NEW c \in Callers, c = Head(jobs).c,
           NEW step \in {"start", "caught"}, step = "caught" => c \in Requests,
           pc[c] \notin {"owner", "forked"},
           c \in Checks => pc[c] = "init" \/ ~ready,
           c \in Requests => pc[c] # "started",
           AwaitTeardown(c, step, Tail(jobs)),
           UNCHANGED <<closed, shut, workerVars, queue, verdict, cancelled, waitI>>
    PROVE  IInv'
<1>1. Scalars /\ Placed /\ Group /\ OneCheck
  BY DEF IInv
<1>2. /\ step \in Steps /\ pc' = [pc EXCEPT ![c] = step]
      /\ verdict' \in [Requests -> Verdicts] /\ cancelled' \subseteq Requests
      /\ waitI' = waitI
  BY <1>1 DEF Steps, Starting, Scalars, AwaitTeardown
<1>3. pc'[c] = step /\ \A d \in Callers : d # c => pc'[d] = pc[d]
  BY <1>1, <1>2 DEF Scalars
<1>4. Keeps(c)
  BY <1>1, <1>3, KeepsSame DEF workerVars
<1>5. Rest'
  <2>1. waitI' # <<>> => init # 0 \/ closed
    BY <1>1, <1>2 DEF Group
  <2>2. /\ step \notin {"idle", "queued", "done"}
        /\ c \in Checks => step \in {"start", "init", "switch", "forked", "owner", "done"}
    BY CallerAssumption
  <2>3. QED  BY <1>2, <2>1, <2>2, Advances
<1>6. Placed'
  BY <1>1, <1>4, Awaiting DEF workerVars
<1>7. Order'
  <2> DEFINE t == [c |-> c, ok |-> teardown = "done", ticks |-> 0]
  <2>1. t \in Job /\ t.c = c
    BY DEF Job, Callers
  <2>2. jobs' \in {Tail(jobs), Tail(jobs) \o <<t>>}
    BY DEF AwaitTeardown, Continue
  <2>3. c \in Requests => \A i \in 1..Len(jobs) : ~MayReplace(i)
    BY NoneMayReplace
  <2>4. c \in Checks /\ ready => pc[c] = "init" /\ pc'[c] = "start"
    BY <1>3, CallerAssumption
  <2> HIDE DEF t
  <2>5. QED  BY <1>3, <2>1, <2>2, <2>3, <2>4, OrderKept DEF workerVars
<1>8. QED  BY <1>5, <1>6, <1>7, Whole

LEMMA StartAgainInv == ASSUME IInv, NEW c \in Callers, StartAgain(c) PROVE IInv'
<1>1. PICK step \in {"init", "switch"} :
         /\ Turn(c, step)
         /\ IF Head(jobs).ok
            THEN AwaitTeardown(c, "start", Tail(jobs)) /\ UNCHANGED verdict
            ELSE /\ Throw(c, IF step = "init" THEN "failed" ELSE "unproven", Tail(jobs))
                 /\ UNCHANGED waitT
  BY DEF StartAgain
<1>2. /\ jobs # <<>> /\ c = Head(jobs).c /\ pc[c] \in {"init", "switch"}
      /\ cancelled' \subseteq Requests
      /\ UNCHANGED <<closed, shut, workerVars, queue, cancelled, waitI>>
  BY <1>1, Headed DEF StartAgain, IInv, Scalars
<1>3. pc[c] = "switch" => ~ready
  BY <1>2, Running DEF MayRun
<1>4. CASE Head(jobs).ok
  BY <1>1, <1>2, <1>3, <1>4, AwaitInv
<1>5. CASE ~Head(jobs).ok
  <2>1. (IF step = "init" THEN "failed" ELSE "unproven") \in Verdicts
    BY DEF Verdicts
  <2>2. QED  BY <1>1, <1>2, <1>5, <2>1, ThrowInv
<1>6. QED  BY <1>4, <1>5

LEMMA SendCatchInv == ASSUME IInv, NEW r \in Requests, SendCatch(r) PROVE IInv'
<1>1. /\ r \in Callers /\ jobs # <<>> /\ r = Head(jobs).c /\ pc[r] = "thrown"
      /\ UNCHANGED <<closed, shut, workerVars, queue, verdict, cancelled, waitI>>
      /\ AwaitTeardown(r, "caught", Tail(jobs))
  BY Headed DEF SendCatch
<1>2. r \notin Checks
  BY CallerAssumption
<1>3. QED  BY <1>1, <1>2, AwaitInv

LEMMA TickInv == ASSUME IInv, Tick PROVE IInv'
<1> DEFINE h == Head(jobs)
           c == h.c
           t == [h EXCEPT !.ticks = @ - 1]
<1>1. /\ jobs # <<>> /\ Scalars /\ Placed /\ h \in Runnable /\ h \in Job
      /\ h.ticks > 0 /\ jobs' = Append(Tail(jobs), t) /\ Tail(jobs) \in Seq(Runnable)
      /\ UNCHANGED <<closed, shut, workerVars, queue, pc, verdict, cancelled, waitT, waitI>>
  BY TailIndex DEF Tick, Quiet, IInv, Placed, Runnable
<1>2. c \in Requests /\ c \in Callers
  BY <1>1 DEF Runnable, Callers
<1>3. t \in Job /\ t.c = c /\ t.ok = h.ok
  BY <1>1 DEF Job
<1>4. jobs' = Tail(jobs) \o <<t>>
  <2> DEFINE J == Tail(jobs)
  <2>1. J \in Seq(Job) /\ jobs' = Append(J, t)
    BY <1>1, SeqMonotonic DEF Runnable
  <2> HIDE DEF J, t
  <2>2. jobs' = J \o <<t>>
    BY <1>3, <2>1, AppendIsConcat
  <2>3. QED  BY <2>2 DEF J
<1>5. t \in Runnable'
  BY <1>1, <1>2, <1>3, CallerAssumption DEF Runnable, MayRun, workerVars, Callers
<1> HIDE DEF t
<1>6. Rest'
  <2>1. pc' = [pc EXCEPT ![c] = pc[c]]
    BY <1>1, <1>2 DEF Scalars
  <2>2. Rest
    BY DEF IInv, Rest
  <2>3. Line'
    BY <1>1, <2>2 DEF Rest, Line, Outstanding, workerVars
  <2>4. QED
    BY <1>1, <2>2, <2>3 DEF Rest, Scalars, OneCheck, Group, OneGroup, OwnProfile, Shut, workerVars
<1>7. Placed'
  <2>1. Keeps(c)
    BY <1>1, KeepsSame DEF workerVars
  <2>2. QED  BY <1>1, <1>3, <1>4, <1>5, <2>1, RunsAgain
<1>8. Order'
  <2>1. ASSUME NEW i \in 1..Len(jobs), MayReplace(i)
        PROVE  pc'[c] = "owner" \/ (pc'[c] = "started" /\ pc[jobs[i].c] = "start")
    <3>1. 1 \in 1..Len(jobs) /\ h = jobs[1] /\ Len(jobs) \in Nat
      BY <1>1, TailIndex DEF Placed
    <3>2. Behind(i, 1)
      BY <1>2, <2>1, <3>1 DEF IInv, Order
    <3>3. QED  BY <1>1, <2>1, <3>1, <3>2 DEF Behind, MayReplace
  <2>2. c \notin Checks
    BY <1>2, CallerAssumption
  <2>3. QED  BY <1>1, <1>2, <1>3, <1>4, <2>1, <2>2, OrderKept DEF workerVars
<1>9. QED  BY <1>6, <1>7, <1>8, Whole

\* The caller that runs forks: no worker is left, nor a group of one.
LEMMA StartForksInv == ASSUME IInv, NEW c \in Callers, StartForks(c) PROVE IInv'
<1>1. /\ jobs # <<>> /\ c = Head(jobs).c /\ pc[c] = "start" /\ Head(jobs).ok /\ ~closed
      /\ init = 0 /\ worker = 0 /\ Scalars /\ Placed /\ Line /\ OneCheck /\ Group /\ Shut
  BY Headed DEF StartForks, Refused, IInv
<1>2. teardown = "done" /\ (c \in Requests => queue # <<>> /\ c = Head(queue))
  BY <1>1, Running DEF MayRun
<1>3. live = {} /\ ~ready /\ pending = Nobody /\ waitI = <<>>
  BY <1>1, <1>2 DEF Group, Scalars
<1>4. /\ generation' = generation + 1 /\ worker' = generation + 1 /\ init' = generation + 1
      /\ live' = {generation + 1} /\ profile' = ProfileOf(c) /\ ready' = FALSE
      /\ pc' = [pc EXCEPT ![c] = "forked"]
      /\ UNCHANGED <<closed, shut, pending, teardown, dying, queue, verdict,
                     cancelled, waitT, waitI>>
  BY <1>3 DEF StartForks
<1>5. pc'[c] = "forked" /\ \A d \in Callers : d # c => pc'[d] = pc[d]
  BY <1>1, <1>4 DEF Scalars
<1>6. Scalars'
  <2>1. ProfileOf(c) \in {"compiler", "fixed-pending"}
    BY ProfileAssumption DEF ProfileOf
  <2>2. pc' \in [Callers -> Steps]
    BY <1>1, <1>4 DEF Scalars, Steps, Starting
  <2>3. generation \in Nat /\ dying \in 0..generation
    BY <1>1 DEF Scalars
  <2>4. /\ generation' \in Nat /\ worker' \in 0..generation' /\ init' \in {0, worker'}
        /\ dying' \in 0..generation' /\ live' \in SUBSET (1..generation')
    BY <1>4, <2>3
  <2>5. QED  BY <1>1, <1>4, <2>1, <2>2, <2>4 DEF Scalars
<1>7. Line'
  <2>1. Outstanding \subseteq Outstanding'
    BY <1>5 DEF Outstanding, Callers
  <2>2. queue \in Seq(Outstanding')
    BY <1>1, <2>1, SeqMonotonic DEF Line
  <2>3. QED  BY <1>1, <1>2, <1>3, <1>4, <1>5, <2>2 DEF Line, Callers
<1>8. OneCheck'
  BY <1>1, <1>5 DEF OneCheck, Callers
<1>9. Group'
  BY <1>1, <1>2, <1>3, <1>4, <1>5 DEF Group, OneGroup, OwnProfile, Scalars
<1>10. Shut'
  BY <1>1, <1>4 DEF Shut
<1>11. Placed'
  <2> DEFINE t == [c |-> c, ok |-> TRUE, ticks |-> 0]
  <2>1. jobs' = Tail(jobs) \o <<t>>
    BY DEF StartForks, Continue
  <2>2. MayRun(c, TRUE)'
    BY <1>1, <1>4, <1>5 DEF MayRun, Inner, Starting, Scalars
  <2>3. t \in Runnable' /\ t.c = c
    <3>1. t \in Job /\ t.c = c /\ t.ok = TRUE /\ t.ticks = 0 /\ t.c # "shutdown"
      BY CallerAssumption DEF Job, Callers
    <3> HIDE DEF t
    <3>2. QED  BY <2>2, <3>1 DEF Runnable
  <2> HIDE DEF t
  <2>4. {s \in Runnable : s.c # c} \subseteq Runnable'
    BY <1>1, <1>2, <1>3, <1>4, <1>5 DEF Runnable, MayRun
  <2>5. {x \in AwaitsTeardown : x # c} \subseteq AwaitsTeardown'
    BY <1>4, <1>5 DEF AwaitsTeardown
  <2>6. Keeps(c)
    <3>1. \A i \in 1..Len(jobs) : jobs[i].c # c => jobs[i] \in Runnable'
      BY <1>1, <2>4, ElementOfSeq DEF Placed
    <3>2. \A i \in 1..Len(waitT) : waitT[i] # c => waitT[i] \in AwaitsTeardown'
      BY <1>1, <2>5, ElementOfSeq DEF Placed
    <3>3. 1..Len(waitI) = {}
      BY <1>3
    <3>4. QED  BY <3>1, <3>2, <3>3, Zenon DEF Keeps
  <2>7. QED  BY <1>1, <1>4, <2>1, <2>3, <2>6, RunsAgain
<1>12. Order'
  BY <1>4, NoneReady
<1>13. QED  BY <1>6, <1>7, <1>8, <1>9, <1>10, <1>11, <1>12, Whole DEF Rest

\* A ready worker is discarded by the one caller that has yet to start.
LEMMA StartSwitchesInv == ASSUME IInv, NEW c \in Callers, StartSwitches(c) PROVE IInv'
<1>1. /\ jobs # <<>> /\ c = Head(jobs).c /\ pc[c] = "start" /\ Head(jobs).ok /\ ~closed
      /\ init = 0 /\ worker # 0 /\ Scalars /\ Placed /\ Line /\ OneCheck /\ Group /\ Shut
  BY Headed DEF StartSwitches, Refused, IInv
<1>2. ready /\ teardown = "done" /\ live = {worker}
  BY <1>1 DEF Group
<1>3. /\ 1 \in 1..Len(jobs) /\ Head(jobs) = jobs[1]
      /\ \A i \in 1..Len(jobs) : jobs[i] \in Runnable
  BY <1>1, TailIndex, ElementOfSeq DEF Placed
<1>4. c \in Checks => MayReplace(1)
  BY <1>1, <1>2, <1>3 DEF MayReplace
<1>5. pending = Nobody
  <2>1. CASE c \in Checks
    BY <1>3, <1>4, <2>1 DEF IInv, Order
  <2>2. CASE c \in Requests
    <3>1. c = Head(queue) /\ (pending # Nobody => pending # c)
      BY <1>1, <2>2, Running
    <3>2. QED  BY <1>1, <3>1 DEF Line, Scalars
  <2>3. QED  BY <2>1, <2>2 DEF Callers
<1>6. /\ worker' = 0 /\ ready' = FALSE /\ profile' = "none" /\ teardown' = "pending"
      /\ dying' = worker /\ pc' = [pc EXCEPT ![c] = "switch"]
      /\ jobs' = Tail(jobs) /\ waitT' = waitT \o <<c>>
      /\ UNCHANGED <<closed, shut, generation, init, pending, live, queue, verdict,
                     cancelled, waitI>>
  BY DEF StartSwitches, Discard
<1>7. pc'[c] = "switch" /\ \A d \in Callers : d # c => pc'[d] = pc[d]
  BY <1>1, <1>6 DEF Scalars
<1>8. c \in Requests => queue # <<>> /\ c = Head(queue)
  BY <1>1, Running
<1>9. Scalars'
  <2>1. pc' \in [Callers -> Steps]
    BY <1>1, <1>6 DEF Scalars, Steps, Starting
  <2>2. generation \in Nat /\ worker \in 0..generation
    BY <1>1 DEF Scalars
  <2>3. /\ generation' \in Nat /\ worker' \in 0..generation' /\ init' \in {0, worker'}
        /\ dying' \in 0..generation' /\ live' \in SUBSET (1..generation')
    BY <1>1, <1>6, <2>2 DEF Scalars
  <2>4. QED  BY <1>1, <1>6, <2>1, <2>3 DEF Scalars
<1>10. Line'
  <2>1. Outstanding \subseteq Outstanding'
    BY <1>7 DEF Outstanding, Callers
  <2>2. queue \in Seq(Outstanding')
    BY <1>1, <2>1, SeqMonotonic DEF Line
  <2>3. QED  BY <1>1, <1>5, <1>6, <1>7, <1>8, <2>2 DEF Line, Callers
<1>11. OneCheck'
  BY <1>1, <1>7 DEF OneCheck, Callers
<1>12. Group'
  BY <1>1, <1>2, <1>5, <1>6 DEF Group, OneGroup, OwnProfile
<1>13. Shut'
  BY <1>1, <1>6 DEF Shut
<1>14. Placed'
  <2>1. ASSUME NEW i \in 1..Len(jobs), jobs[i].c # c
        PROVE  jobs[i] \in Runnable'
    <3>1. PICK t : t = jobs[i]
      OBVIOUS
    <3>2. PICK d : d = t.c
      OBVIOUS
    <3>3. /\ t \in Job /\ d \in Callers \cup {"shutdown"} /\ d # c
          /\ d \in Callers => MayRun(d, t.ok)
          /\ d \notin Requests => t.ticks = 0
          /\ d # "shutdown"
      BY <1>1, <1>3, <2>1, <3>1, <3>2 DEF Runnable, Shut, Job
    <3>4. d \in Callers /\ t.ok \in BOOLEAN /\ MayRun(d, t.ok) /\ pc'[d] = pc[d]
      BY <1>7, <3>3 DEF Job
    <3>5. pc[d] \in {"start", "caught", "reaping", "closing"} => t.ok = FALSE
      <4>1. CASE c \in Checks /\ d \in Checks
        BY <1>1, <3>3, <3>4, <4>1 DEF OneCheck, MayRun, Inner, Starting
      <4>2. CASE c \in Checks /\ d \in Requests
        <5>1. Behind(1, i)
          BY <1>3, <1>4, <3>1, <3>2, <4>2 DEF IInv, Order
        <5>2. QED  BY <3>1, <3>2, <5>1 DEF Behind
      <4>3. CASE c \in Requests /\ d \in Requests
        <5>1. d = Head(queue)
          <6>1. /\ pc[d] \in Inner
                /\ pc[d] = "queued" => d = Head(queue)
            BY <3>4 DEF MayRun
          <6>2. pc[d] \notin {"idle", "queued", "done"} => d = Head(queue)
            BY <1>1, <4>3 DEF Line
          <6>3. QED  BY <6>1, <6>2 DEF Inner, Starting
        <5>2. QED  BY <1>8, <3>3, <4>3, <5>1
      <4>4. CASE c \in Requests /\ d \in Checks
        <5>1. ~MayReplace(i)
          BY <1>1, <4>4, NoneMayReplace
        <5>2. pc[d] # "start"
          BY <1>2, <3>1, <3>2, <4>4, <5>1 DEF MayReplace
        <5>3. QED  BY <1>1, <4>4, <5>2 DEF OneCheck
      <4>5. QED  BY <3>4, <4>1, <4>2, <4>3, <4>4 DEF Callers
    <3>6. MayRun(d, t.ok)'
      <4>1. ~(pc[d] \in {"start", "switch", "caught", "reaping", "closing"} /\ ~t.ok)
        BY <1>2, <3>4 DEF MayRun
      <4>2. pc[d] \notin {"start", "caught", "reaping", "closing"}
        BY <3>4, <3>5, <4>1
      <4>3. pc[d] = "switch" => t.ok
        BY <4>1
      <4>4. QED  BY <1>1, <1>6, <3>4, <4>2, <4>3 DEF MayRun
    <3>7. t \in Runnable'
      BY <3>2, <3>3, <3>6 DEF Runnable
    <3>8. QED  BY <3>1, <3>7
  <2>2. {x \in AwaitsTeardown : x # c} \subseteq AwaitsTeardown'
    BY <1>6, <1>7 DEF AwaitsTeardown
  <2>3. {x \in AwaitsInit : x # c} \subseteq AwaitsInit'
    BY <1>1, <1>6, <1>7 DEF AwaitsInit
  <2>4. Keeps(c)
    <3>1. \A i \in 1..Len(waitT) : waitT[i] # c => waitT[i] \in AwaitsTeardown'
      BY <1>1, <2>2, ElementOfSeq DEF Placed
    <3>2. \A i \in 1..Len(waitI) : waitI[i] # c => waitI[i] \in AwaitsInit'
      BY <1>1, <2>3, ElementOfSeq DEF Placed
    <3>3. QED  BY <2>1, <3>1, <3>2 DEF Keeps
  <2>5. c \in AwaitsTeardown'
    BY <1>7, CallerAssumption DEF AwaitsTeardown, Callers
  <2>6. waitT' = Append(waitT, c)
    <3>1. waitT \in Seq(AwaitsTeardown)
      BY <1>1 DEF Placed
    <3>2. QED  BY <1>6, <3>1, AppendIsConcat
  <2>7. QED  BY <1>1, <1>6, <2>4, <2>5, <2>6, WaitsForTeardown
<1>15. Order'
  BY <1>6, NoneReady
<1>16. QED  BY <1>9, <1>10, <1>11, <1>12, <1>13, <1>14, <1>15, Whole DEF Rest

-----------------------------------------------------------------------------
\* The answer of a request

\* A continuation of its own begins.
LEMMA RunsNew ==
    ASSUME NEW J \in Seq(Runnable'), NEW t, t \in Runnable',
           waitT' \in Seq(AwaitsTeardown'), waitI' \in Seq(AwaitsInit'),
           Once(J, waitT', waitI'), Free(t.c, J, waitT', waitI'), jobs' = J \o <<t>>
    PROVE  Placed'
<1> DEFINE X == AwaitsTeardown' \cup AwaitsInit'
           R == Runnable'
           W == waitT'
           V == waitI'
<1>1. W \in Seq(X) /\ V \in Seq(X) /\ J \in Seq(R) /\ t \in R
      /\ Once(J, W, V) /\ Free(t.c, J, W, V) /\ jobs' = J \o <<t>>
  OBVIOUS
<1> HIDE DEF X, R, W, V
<1>2. jobs' = Append(J, t) /\ Append(J, t) \in Seq(R)
  BY <1>1, AddIndex
<1>3. Once(Append(J, t), W, V)
  BY <1>1, OnceAddJob
<1>4. QED  BY <1>2, <1>3, PlacedAs DEF R, W, V

\* The second of two in line is next.
LEMMA Second ==
    ASSUME NEW S, NEW q \in Seq(S), q # <<>>, \A i, j \in 1..Len(q) : q[i] = q[j] => i = j
    PROVE  /\ Head(q) \in S
           /\ Tail(q) \in Seq(S \ {Head(q)})
           /\ \A i, j \in 1..Len(Tail(q)) : Tail(q)[i] = Tail(q)[j] => i = j
           /\ Len(q) > 1 => Tail(q) # <<>> /\ q[2] = Head(Tail(q)) /\ q[2] \in S /\ q[2] # Head(q)
<1> DEFINE p == Tail(q)
<1>1. /\ Len(q) \in Nat /\ 1 \in 1..Len(q) /\ Head(q) = q[1] /\ Head(q) \in S
      /\ p \in Seq(S) /\ Len(p) = Len(q) - 1
      /\ \A i \in 1..Len(p) : /\ i + 1 \in 1..Len(q) /\ i + 1 # 1
                              /\ p[i] = q[i + 1] /\ p[i] \in S
  BY TailIndex
<1> HIDE DEF p
<1>2. \A i \in 1..Len(p) : p[i] \in S \ {Head(q)}
  BY <1>1
<1>3. p \in Seq(S \ {Head(q)})
  BY <1>1, <1>2, SeqOf
<1>4. \A i, j \in 1..Len(p) : p[i] = p[j] => i = j
  <2>1. TAKE i, j \in 1..Len(p)
  <2>2. p[i] = p[j] => i + 1 = j + 1
    BY <1>1
  <2>3. i \in Nat /\ j \in Nat
    BY <1>1
  <2>4. QED  BY <2>2, <2>3
<1>5. Len(q) > 1 => p # <<>> /\ q[2] = Head(p) /\ q[2] \in S /\ q[2] # Head(q)
  <2>1. HAVE Len(q) > 1
  <2>2. 1 \in 1..Len(p) /\ 2 \in 1..Len(q) /\ Len(p) # 0
    BY <1>1, <2>1
  <2>3. p[1] = q[2]
    BY <1>1, <2>2
  <2>4. p # <<>>
    BY <2>2
  <2>5. Head(p) = p[1]
    BY <1>1, <2>4, TailIndex
  <2>6. q[2] \in S /\ q[2] # q[1]
    BY <1>1, <2>2
  <2>7. QED  BY <1>1, <2>3, <2>4, <2>5, <2>6
<1>6. QED  BY <1>1, <1>3, <1>4, <1>5 DEF p

LEMMA AnswerInv ==
    ASSUME IInv, NEW r \in Requests, queue # <<>>, r = Head(queue),
           pc[r] \notin {"idle", "done", "forked", "owner"},
           NEW v \in Verdicts, NEW J \in Seq({t \in Runnable : t.c # r}),
           waitT \in Seq({x \in AwaitsTeardown : x # r}),
           waitI \in Seq({x \in AwaitsInit : x # r}),
           Once(J, waitT, waitI),
           \A i \in 1..Len(J) : ~(ready /\ J[i].c \in Checks /\ pc[J[i].c] \in {"init", "start"}),
           Answer(r, v, J), cancelled' \subseteq Requests,
           pending' = Nobody \/ (pending' = pending /\ pc[r] # "working"),
           UNCHANGED <<closed, shut, generation, worker, ready, profile, init, teardown,
                       dying, live, waitT, waitI>>
    PROVE  IInv'
<1>1. /\ Scalars /\ Placed /\ Line /\ OneCheck /\ Group /\ Shut
      /\ pc' = [pc EXCEPT ![r] = "done"] /\ verdict' = [verdict EXCEPT ![r] = v]
      /\ queue' = Tail(queue) /\ r \in Callers
      /\ jobs' = J \o (IF Len(queue) > 1 THEN Continue(queue[2], TRUE, 3) ELSE <<>>)
  BY DEF IInv, Answer, Callers
<1>2. pc'[r] = "done" /\ \A d \in Callers : d # r => pc'[d] = pc[d]
  BY <1>1 DEF Scalars
<1>3. pending' = Nobody
  BY <1>1 DEF Line, Scalars
<1>4. \A d \in Requests : pc'[d] \in {"idle", "queued", "done"}
  BY <1>1, <1>2 DEF Line, Callers
<1>5. /\ queue' \in Seq(Outstanding \ {r})
      /\ \A i, j \in 1..Len(queue') : queue'[i] = queue'[j] => i = j
      /\ Len(queue) > 1 => queue' # <<>> /\ queue[2] = Head(queue') /\ queue[2] \in Outstanding /\ queue[2] # r
  BY <1>1, Second DEF Line
<1>6. Rest'
  <2>1. Scalars'
    <3>1. "done" \in Steps
      BY DEF Steps
    <3>2. pc' \in [Callers -> Steps] /\ verdict' \in [Requests -> Verdicts]
      BY <1>1, <3>1 DEF Scalars
    <3>3. QED  BY <1>1, <1>3, <3>2 DEF Scalars
  <2>2. Line'
    <3>1. Outstanding \ {r} \subseteq Outstanding'
      BY <1>2 DEF Outstanding, Callers
    <3>2. queue' \in Seq(Outstanding')
      BY <1>5, <3>1, SeqMonotonic
    <3>3. QED  BY <1>3, <1>4, <1>5, <3>2 DEF Line
  <2>3. OneCheck'
    BY <1>1, <1>2, CallerAssumption DEF OneCheck, Callers
  <2>4. Group'
    <3>1. init # 0 => \E d \in Callers : pc'[d] \in {"owner", "forked"}
      BY <1>1, <1>2 DEF Group
    <3>2. QED  BY <1>1, <1>3, <3>1 DEF Group, OneGroup, OwnProfile
  <2>5. Shut'
    BY <1>1 DEF Shut
  <2>6. QED  BY <2>1, <2>2, <2>3, <2>4, <2>5 DEF Rest
<1>7. /\ {t \in Runnable : t.c # r} \subseteq Runnable'
      /\ {x \in AwaitsTeardown : x # r} \subseteq AwaitsTeardown'
      /\ {x \in AwaitsInit : x # r} \subseteq AwaitsInit'
  <2>1. ASSUME NEW d \in Callers, NEW ok, d # r, MayRun(d, ok)
        PROVE  MayRun(d, ok)'
    <3>1. pc'[d] = pc[d] /\ pc[d] # "queued"
      BY <1>2, <2>1 DEF MayRun
    <3>2. QED  BY <2>1, <3>1 DEF MayRun
  <2>2. {t \in Runnable : t.c # r} \subseteq Runnable'
    BY <2>1 DEF Runnable
  <2>3. QED  BY <1>2, <2>2 DEF AwaitsTeardown, AwaitsInit
<1>8. /\ J \in Seq(Runnable') /\ waitT' \in Seq(AwaitsTeardown') /\ waitI' \in Seq(AwaitsInit')
      /\ Once(J, waitT', waitI')
  BY <1>7, SeqMonotonic
<1>9. CASE Len(queue) > 1
  <2>0. PICK n : n = queue[2]
    OBVIOUS
  <2> DEFINE t == [c |-> n, ok |-> TRUE, ticks |-> 3]
  <2>1. n = Head(queue') /\ n \in Requests /\ n # r /\ n \in Callers /\ queue' # <<>>
    BY <1>5, <1>9, <2>0 DEF Outstanding, Callers
  <2>2. pc'[n] = "queued" /\ pc[n] = "queued"
    BY <1>2, <1>4, <1>5, <1>9, <2>0, <2>1 DEF Outstanding
  <2>3. t \in Job /\ t.c = n /\ t.ok = TRUE
    BY <2>1 DEF Job
  <2>4. jobs' = J \o <<t>>
    BY <1>1, <1>9, <2>0 DEF Continue
  <2> HIDE DEF t
  <2>5. MayRun(n, TRUE)'
    BY <2>1, <2>2 DEF MayRun, Inner
  <2>6. t \in Runnable'
    BY <2>1, <2>3, <2>5, CallerAssumption DEF Runnable, Callers
  <2>7. Free(n, J, waitT', waitI')
    <3>1. \A i \in 1..Len(J) : J[i].c # n
      <4>1. \A i \in 1..Len(J) : J[i] \in Runnable
        OBVIOUS
      <4>2. \A s \in Runnable : s.c # n
        BY <2>1, <2>2 DEF Runnable, MayRun
      <4>3. QED  BY <4>1, <4>2
    <3>2. \A i \in 1..Len(waitT) : waitT[i] \in AwaitsTeardown /\ waitT[i] # n
      BY <2>1, <2>2 DEF AwaitsTeardown
    <3>3. \A i \in 1..Len(waitI) : waitI[i] \in AwaitsInit /\ waitI[i] # n
      BY <2>1, <2>2 DEF AwaitsInit
    <3>4. QED  BY <3>1, <3>2, <3>3 DEF Free
  <2>8. Placed'
    BY <1>8, <2>3, <2>4, <2>6, <2>7, RunsNew
  <2>9. Order'
    <3>1. ASSUME NEW k \in 1..Len(jobs') PROVE ~MayReplace(k)'
      <4>1. /\ k \in 1..Len(J) => jobs'[k] = J[k]
            /\ k \in 1..Len(J) \/ jobs'[k] = t
        <5>1. jobs' = Append(J, t)
          BY <1>8, <2>4, <2>6, AddIndex
        <5>2. QED  BY <5>1
      <4>2. CASE k \in 1..Len(J) /\ jobs'[k] = J[k]
        BY <1>2, <4>2, CallerAssumption DEF MayReplace, Callers
      <4>3. CASE jobs'[k] = t
        BY <2>1, <2>3, <4>3, CallerAssumption DEF MayReplace
      <4>4. QED  BY <4>1, <4>2, <4>3
    <3>2. QED  BY <3>1 DEF Order
  <2>10. QED  BY <1>6, <2>8, <2>9, Whole
<1>10. CASE ~(Len(queue) > 1)
  <2>1. jobs' = J
    <3>1. jobs' = J \o <<>>
      BY <1>1, <1>10
    <3>2. QED  BY <3>1, ConcatEmptySeq
  <2>2. Placed'
    BY <1>8, <2>1, PlacedAs
  <2>3. Order'
    <3>1. ASSUME NEW k \in 1..Len(jobs') PROVE ~MayReplace(k)'
      BY <1>2, <2>1, CallerAssumption DEF MayReplace, Callers
    <3>2. QED  BY <3>1 DEF Order
  <2>4. QED  BY <1>6, <2>2, <2>3, Whole
<1>11. QED  BY <1>9, <1>10

\* It is answered in its own turn.
LEMMA AnswerTurnInv ==
    ASSUME IInv, NEW r \in Requests, jobs # <<>>, r = Head(jobs).c,
           pc[r] \notin {"forked", "owner"}, pc[r] = "started" => Head(jobs).ticks = 0,
           NEW v \in Verdicts, Answer(r, v, Tail(jobs)), cancelled' \subseteq Requests,
           UNCHANGED <<closed, shut, workerVars, waitT, waitI>>
    PROVE  IInv'
<1>1. r \in Callers /\ Placed /\ Scalars
  BY DEF Callers, IInv
<1>2. /\ queue # <<>> /\ r = Head(queue) /\ pc[r] \in Inner
  BY <1>1, Running DEF MayRun
<1>3. pc[r] \notin {"idle", "done", "forked", "owner", "working"}
  BY <1>2 DEF Inner, Starting
<1> DEFINE X == AwaitsTeardown \cup AwaitsInit
           J == Tail(jobs)
<1>4. waitT \in Seq(AwaitsTeardown) /\ waitI \in Seq(AwaitsInit) /\ jobs \in Seq(Runnable)
  BY <1>1 DEF Placed
<1>5. waitT \in Seq(X) /\ waitI \in Seq(X)
  BY <1>4
<1> HIDE DEF X
<1>6. Once(J, waitT, waitI) /\ Free(r, J, waitT, waitI)
  BY <1>1, <1>4, <1>5, OnceHead DEF Placed
<1>7. /\ J \in Seq(Runnable)
      /\ \A i \in 1..Len(J) : i + 1 \in 1..Len(jobs) /\ J[i] = jobs[i + 1] /\ J[i] \in Runnable
  BY <1>4, TailIndex
<1>8. \A i \in 1..Len(J) : ~(ready /\ J[i].c \in Checks /\ pc[J[i].c] \in {"init", "start"})
  <2>1. \A i \in 1..Len(jobs) : ~MayReplace(i)
    BY <1>3, NoneMayReplace
  <2>2. QED  BY <1>7, <2>1 DEF MayReplace
<1> HIDE DEF J
<1>9. J \in Seq({t \in Runnable : t.c # r})
  <2>1. \A i \in 1..Len(J) : J[i] \in {t \in Runnable : t.c # r}
    BY <1>6, <1>7 DEF Free
  <2>2. QED  BY <1>7, <2>1, SeqOf
<1>10. waitT \in Seq({x \in AwaitsTeardown : x # r}) /\ waitI \in Seq({x \in AwaitsInit : x # r})
  <2>1. \A i \in 1..Len(waitT) : waitT[i] \in {x \in AwaitsTeardown : x # r}
    BY <1>4, <1>6 DEF Free
  <2>2. \A i \in 1..Len(waitI) : waitI[i] \in {x \in AwaitsInit : x # r}
    BY <1>4, <1>6 DEF Free
  <2>3. QED  BY <1>4, <2>1, <2>2, SeqOf
<1>11. Answer(r, v, J)
  BY DEF J
<1>12. QED  BY <1>2, <1>3, <1>6, <1>8, <1>9, <1>10, <1>11, AnswerInv DEF workerVars

LEMMA SendBeginInv == ASSUME IInv, NEW r \in Requests, SendBegin(r) PROVE IInv'
<1>1. /\ r \in Callers /\ jobs # <<>> /\ r = Head(jobs).c /\ pc[r] = "queued"
      /\ cancelled' \subseteq Requests /\ r \notin Checks
      /\ UNCHANGED <<closed, shut, workerVars, cancelled, waitI>>
  BY Headed, CallerAssumption DEF SendBegin, IInv, Scalars
<1>2. CASE r \in cancelled
  <2>1. "cancelled" \in Verdicts
    BY DEF Verdicts
  <2>2. Answer(r, "cancelled", Tail(jobs)) /\ UNCHANGED waitT
    BY <1>2 DEF SendBegin
  <2>3. QED  BY <1>1, <2>1, <2>2, AnswerTurnInv
<1>3. CASE r \notin cancelled
  <2>1. AwaitTeardown(r, "start", Tail(jobs)) /\ UNCHANGED <<queue, verdict>>
    BY <1>3 DEF SendBegin
  <2>2. QED  BY <1>1, <2>1, AwaitInv
<1>4. QED  BY <1>2, <1>3

LEMMA SendExpiresInv == ASSUME IInv, NEW r \in Requests, SendExpires(r) PROVE IInv'
<1>1. /\ jobs # <<>> /\ r = Head(jobs).c /\ pc[r] = "started" /\ Head(jobs).ticks = 0
      /\ cancelled' \subseteq Requests
  BY Headed DEF SendExpires, IInv, Scalars
<1>2. "cancelled" \in Verdicts
  BY DEF Verdicts
<1>3. QED  BY <1>1, <1>2, AnswerTurnInv DEF SendExpires

LEMMA SendThrowsInv == ASSUME IInv, NEW r \in Requests, SendThrows(r) PROVE IInv'
<1>1. PICK step \in {"caught", "reaping", "closing"} : Turn(r, step)
  BY DEF SendThrows
<1>2. /\ jobs # <<>> /\ r = Head(jobs).c /\ pc[r] \in {"caught", "reaping", "closing"}
      /\ cancelled' \subseteq Requests
  BY <1>1, Headed DEF SendThrows, IInv, Scalars
<1>3. (IF Head(jobs).ok THEN verdict[r] ELSE "unproven") \in Verdicts
  BY DEF Verdicts, IInv, Scalars
<1>4. QED  BY <1>2, <1>3, AnswerTurnInv DEF SendThrows

\* The request that is sent has a ready worker of its profile.
LEMMA SendInv == ASSUME IInv, NEW r \in Requests, Send(r) PROVE IInv'
<1>1. /\ r \in Callers /\ jobs # <<>> /\ r = Head(jobs).c /\ pc[r] = "started"
      /\ Head(jobs).ticks = 0
      /\ Scalars /\ Placed /\ Line /\ OneCheck /\ Group /\ Shut
  BY Headed DEF Send, IInv
<1>2. CASE worker # 0 /\ ready /\ pending' = r
  <2>1. /\ pc' = [pc EXCEPT ![r] = "working"] /\ jobs' = Tail(jobs)
        /\ UNCHANGED <<closed, shut, generation, worker, ready, profile, init, teardown,
                       dying, live, verdict, queue, cancelled, waitT, waitI>>
    BY <1>1, <1>2 DEF Send
  <2>2. /\ queue # <<>> /\ r = Head(queue) /\ profile = Profile[r]
    BY <1>1, <1>2, Running DEF MayRun, ProfileOf
  <2>3. pc'[r] = "working" /\ \A d \in Callers : d # r => pc'[d] = pc[d]
    BY <1>1, <2>1 DEF Scalars
  <2>4. Scalars'
    <3>1. pc' \in [Callers -> Steps]
      BY <1>1, <2>1 DEF Scalars, Steps
    <3>2. QED  BY <1>1, <1>2, <2>1, <3>1 DEF Scalars
  <2>5. Line'
    <3>1. Outstanding \subseteq Outstanding'
      BY <2>3 DEF Outstanding, Callers
    <3>2. queue \in Seq(Outstanding')
      BY <1>1, <3>1, SeqMonotonic DEF Line
    <3>3. QED  BY <1>1, <1>2, <2>1, <2>2, <2>3, <3>2 DEF Line, Callers
  <2>6. OneCheck'
    BY <1>1, <2>3, CallerAssumption DEF OneCheck, Callers
  <2>7. Group'
    <3>1. live = {worker} /\ init = 0
      BY <1>1, <1>2 DEF Group
    <3>2. QED  BY <1>1, <1>2, <2>1, <2>2, <3>1 DEF Group, OneGroup, OwnProfile
  <2>8. Shut'
    BY <1>1, <2>1 DEF Shut
  <2>9. Placed'
    <3>1. Keeps(r)
      BY <1>1, <2>1, <2>3, KeepsSame
    <3>2. QED  BY <1>1, <2>1, <3>1, Ends
  <2>10. Order'
    <3>1. \A i \in 1..Len(jobs) : ~MayReplace(i)
      BY <1>1, NoneMayReplace
    <3>2. ASSUME NEW k \in 1..Len(jobs') PROVE ~MayReplace(k)'
      <4>1. k + 1 \in 1..Len(jobs) /\ jobs'[k] = jobs[k + 1]
        BY <1>1, <2>1, TailIndex DEF Placed
      <4>2. QED  BY <2>1, <2>3, <3>1, <4>1, CallerAssumption DEF MayReplace, Callers
    <3>3. QED  BY <3>2 DEF Order
  <2>11. QED  BY <2>4, <2>5, <2>6, <2>7, <2>8, <2>9, <2>10, Whole DEF Rest
<1>3. CASE Answer(r, "unavailable", Tail(jobs)) /\ UNCHANGED pending
  <2>1. "unavailable" \in Verdicts
    BY DEF Verdicts
  <2>2. /\ cancelled' \subseteq Requests
        /\ UNCHANGED <<closed, shut, workerVars, waitT, waitI>>
    BY <1>1, <1>3 DEF Send, Scalars, workerVars
  <2>3. QED  BY <1>1, <1>3, <2>1, <2>2, AnswerTurnInv
<1>4. QED  BY <1>2, <1>3 DEF Send

LEMMA ResultInv == ASSUME IInv, Result PROVE IInv'
<1>1. PICK r : r = pending
  OBVIOUS
<1>2. /\ Scalars /\ Placed /\ Line /\ Group /\ jobs = <<>> /\ r # Nobody /\ pending' = Nobody
      /\ Answer(r, "result", <<>>) /\ r \in Requests
      /\ UNCHANGED <<closed, shut, generation, worker, ready, profile, init, teardown,
                     dying, live, cancelled, waitT, waitI>>
  BY <1>1 DEF Result, Quiet, IInv, Scalars
<1>3. /\ pc[r] = "working" /\ queue # <<>> /\ r = Head(queue) /\ r \in Callers
  BY <1>1, <1>2 DEF Line, Callers
<1>4. /\ <<>> \in Seq({t \in Runnable : t.c # r})
      /\ waitT \in Seq({x \in AwaitsTeardown : x # r})
      /\ waitI \in Seq({x \in AwaitsInit : x # r})
  <2>1. AwaitsTeardown \subseteq {x \in AwaitsTeardown : x # r} /\ AwaitsInit \subseteq {x \in AwaitsInit : x # r}
    BY <1>3 DEF AwaitsTeardown, AwaitsInit
  <2>2. QED  BY <1>2, <2>1, SeqMonotonic DEF Placed
<1>5. Once(<<>>, waitT, waitI) /\ 1..Len(<<>>) = {}
  BY <1>2 DEF Placed
<1>6. "result" \in Verdicts /\ cancelled' \subseteq Requests
  BY <1>2 DEF Verdicts, Scalars
<1>7. QED  BY <1>2, <1>3, <1>4, <1>5, <1>6, AnswerInv

-----------------------------------------------------------------------------
\* Events

LEMMA NoneInOrder == ASSUME \A k \in 1..Len(jobs') : ~MayReplace(k)' PROVE Order'
BY DEF Order

\* Where the others wait when nothing is ready to run.
LEMMA Quietly ==
    ASSUME Placed, jobs = <<>>, AwaitsTeardown \subseteq AwaitsTeardown', AwaitsInit \subseteq AwaitsInit'
    PROVE  /\ waitT \in Seq(AwaitsTeardown') /\ waitI \in Seq(AwaitsInit')
           /\ Once(<<>>, waitT, waitI)
BY SeqMonotonic DEF Placed

\* One who is nowhere near waits for nothing.
LEMMA FreeQuietly ==
    ASSUME Placed, NEW c, c \notin AwaitsTeardown, c \notin AwaitsInit
    PROVE  Free(c, <<>>, waitT, waitI)
<1>1. \A i \in 1..Len(waitT) : waitT[i] # c
  BY ElementOfSeq DEF Placed
<1>2. \A i \in 1..Len(waitI) : waitI[i] # c
  BY ElementOfSeq DEF Placed
<1>3. 1..Len(<<>>) = {}
  OBVIOUS
<1>4. QED  BY <1>1, <1>2, <1>3, Zenon DEF Free

\* Only cancelled changes, or nothing.
LEMMA SameInv ==
    ASSUME IInv, cancelled' \subseteq Requests,
           UNCHANGED <<closed, shut, workerVars, queue, pc, verdict, jobVars>>
    PROVE  IInv'
<1>1. Rest
  BY DEF IInv, Rest
<1>2. Rest'
  <2>1. Line'
    BY <1>1 DEF Rest, Line, Outstanding, workerVars
  <2>2. Scalars'
    BY <1>1 DEF Rest, Scalars, workerVars
  <2>3. OneCheck' /\ Group' /\ Shut'
    BY <1>1 DEF Rest, OneCheck, Group, OneGroup, OwnProfile, Shut, workerVars, jobVars
  <2>4. QED  BY <2>1, <2>2, <2>3 DEF Rest
<1>3. Placed'
  <2>1. Runnable' = Runnable /\ AwaitsTeardown' = AwaitsTeardown /\ AwaitsInit' = AwaitsInit
    BY DEF Runnable, AwaitsTeardown, AwaitsInit, MayRun, workerVars
  <2>2. QED  BY <2>1 DEF IInv, Placed, jobVars
<1>4. Order'
  BY DEF IInv, Order, MayReplace, Behind, workerVars, jobVars
<1>5. QED  BY <1>2, <1>3, <1>4, Whole

LEMMA CancelQueuedInv == ASSUME IInv, NEW r \in Requests, CancelQueued(r) PROVE IInv'
<1>1. /\ cancelled' \subseteq Requests
      /\ UNCHANGED <<closed, shut, workerVars, queue, pc, verdict, jobVars>>
  BY DEF CancelQueued, IInv, Scalars
<1>2. QED  BY <1>1, SameInv

LEMMA EnqueueInv == ASSUME IInv, NEW r \in Requests, Enqueue(r) PROVE IInv'
<1>1. /\ jobs = <<>> /\ pc[r] = "idle" /\ r \in Callers /\ r \notin Checks
      /\ Scalars /\ Placed /\ Line /\ OneCheck /\ Group /\ Shut
      /\ UNCHANGED <<closed, shut, generation, worker, ready, profile, init, pending,
                     teardown, dying, live, cancelled, waitT, waitI>>
  BY CallerAssumption DEF Enqueue, Quiet, IInv, Callers, workerVars
<1>2. PICK s \in {"queued", "done"} :
         /\ pc' = [pc EXCEPT ![r] = s]
         /\ s = "done" => UNCHANGED <<queue, jobs>>
         /\ s = "queued" => /\ queue' = Append(queue, r) /\ ~closed
                            /\ jobs' = IF queue = <<>> THEN Continue(r, TRUE, 0) ELSE jobs
  BY DEF Enqueue
<1>3. pc'[r] = s /\ \A d \in Callers : d # r => pc'[d] = pc[d]
  BY <1>1, <1>2 DEF Scalars
<1>4. Scalars'
  <2>1. pc' \in [Callers -> Steps]
    BY <1>1, <1>2 DEF Scalars, Steps
  <2>2. verdict' \in [Requests -> Verdicts]
    BY <1>1 DEF Enqueue, Scalars, Verdicts
  <2>3. QED  BY <1>1, <2>1, <2>2 DEF Scalars
<1>5. queue \in Seq(Outstanding) /\ \A i \in 1..Len(queue) : queue[i] \in Outstanding /\ queue[i] # r
  BY <1>1, ElementOfSeq DEF Line, Outstanding
<1>6. Line'
  <2>1. pending' # Nobody => pc'[pending'] = "working"
    BY <1>1, <1>3 DEF Line, Scalars, Callers
  <2>2. CASE s = "done"
    <3>1. queue \in Seq(Outstanding')
      <4>1. \A i \in 1..Len(queue) : queue[i] \in Outstanding'
        BY <1>3, <1>5 DEF Outstanding, Callers
      <4>2. QED  BY <1>5, <4>1, SeqOf
    <3>2. QED  BY <1>1, <1>2, <1>3, <2>1, <2>2, <3>1 DEF Line, Callers
  <2>3. CASE s = "queued"
    <3>1. Outstanding \subseteq Outstanding' /\ r \in Outstanding'
      BY <1>3, <2>3 DEF Outstanding, Callers
    <3>2. queue \in Seq(Outstanding')
      BY <1>5, <3>1, SeqMonotonic
    <3>3. /\ queue' \in Seq(Outstanding') /\ Len(queue') = Len(queue) + 1 /\ Len(queue) \in Nat
          /\ \A i \in 1..Len(queue) : queue'[i] = queue[i]
          /\ queue'[Len(queue) + 1] = r
      <4>1. queue' = Append(queue, r)
        BY <1>2, <2>3
      <4> DEFINE O == Outstanding'
      <4>2. queue \in Seq(O) /\ r \in O
        BY <3>1, <3>2
      <4> HIDE DEF O
      <4>3. QED  BY <4>1, <4>2, AddIndex DEF O
    <3>4. \A i \in 1..Len(queue') : i \in 1..Len(queue) \/ i = Len(queue) + 1
      BY <3>3
    <3>5. \A i, j \in 1..Len(queue') : queue'[i] = queue'[j] => i = j
      BY <1>1, <1>5, <3>3, <3>4 DEF Line
    <3>6. \A d \in Requests : pc'[d] \notin {"idle", "queued", "done"} => queue' # <<>> /\ d = Head(queue')
      <4>1. SUFFICES ASSUME NEW d \in Requests, pc'[d] \notin {"idle", "queued", "done"}
                     PROVE  queue' # <<>> /\ d = Head(queue')
        OBVIOUS
      <4>2. queue # <<>> /\ d = Head(queue)
        BY <1>1, <1>3, <2>3, <4>1 DEF Line, Callers
      <4>3. 1 \in 1..Len(queue) /\ queue[1] = Head(queue)
        BY <1>5, <4>2, TailIndex
      <4>4. queue' # <<>>
        BY <3>3
      <4>5. Head(queue') = queue'[1]
        BY <3>3, <4>4, TailIndex
      <4>6. QED  BY <3>3, <4>2, <4>3, <4>4, <4>5
    <3>7. QED  BY <2>1, <3>3, <3>5, <3>6 DEF Line
  <2>4. QED  BY <2>2, <2>3
<1>7. OneCheck'
  BY <1>1, <1>3 DEF OneCheck, Callers
<1>8. Group'
  <2>1. init # 0 => \E d \in Callers : pc'[d] \in {"owner", "forked"}
    BY <1>1, <1>3 DEF Group
  <2>2. QED  BY <1>1, <2>1 DEF Group, OneGroup, OwnProfile
<1>9. Shut'
  BY <1>1, <1>2 DEF Shut
<1>10. /\ waitT' \in Seq(AwaitsTeardown') /\ waitI' \in Seq(AwaitsInit')
       /\ Once(<<>>, waitT', waitI') /\ Free(r, <<>>, waitT', waitI')
  <2>1. AwaitsTeardown \subseteq AwaitsTeardown' /\ AwaitsInit \subseteq AwaitsInit'
    BY <1>1, <1>3 DEF AwaitsTeardown, AwaitsInit
  <2>2. r \notin AwaitsTeardown /\ r \notin AwaitsInit
    BY <1>1 DEF AwaitsTeardown, AwaitsInit
  <2>3. QED  BY <1>1, <2>1, <2>2, Quietly, FreeQuietly
<1>11. CASE jobs' = <<>>
  <2>1. Placed'
    BY <1>10, <1>11, EmptySeq, PlacedAs
  <2>2. Order'
    BY <1>11 DEF Order
  <2>3. QED  BY <1>4, <1>6, <1>7, <1>8, <1>9, <2>1, <2>2, Whole DEF Rest
<1>12. CASE s = "queued" /\ queue = <<>>
  <2> DEFINE t == [c |-> r, ok |-> TRUE, ticks |-> 0]
  <2>1. jobs' = <<t>> /\ queue' = <<r>>
    BY <1>2, <1>12 DEF Continue
  <2>2. MayRun(r, TRUE)'
    BY <1>3, <1>12, <2>1 DEF MayRun, Inner
  <2>3. t \in Job /\ t.c = r /\ t.ok = TRUE
    BY <1>1 DEF Job
  <2> HIDE DEF t
  <2>4. t \in Runnable'
    BY <1>1, <2>2, <2>3, CallerAssumption DEF Runnable, Callers
  <2>5. Placed'
    <3>1. jobs' = <<>> \o <<t>> /\ <<>> \in Seq(Runnable')
      BY <2>1
    <3>2. QED  BY <1>10, <2>3, <2>4, <3>1, RunsNew
  <2>6. Order'
    BY <1>1, <2>1, <2>3, NoneInOrder DEF MayReplace
  <2>7. QED  BY <1>4, <1>6, <1>7, <1>8, <1>9, <2>5, <2>6, Whole DEF Rest
<1>13. QED  BY <1>1, <1>2, <1>11, <1>12

LEMMA InitializeInv == ASSUME IInv, NEW c \in Checks, Initialize(c) PROVE IInv'
<1>1. /\ jobs = <<>> /\ pc[c] = "idle" /\ c \in Callers /\ c \notin Requests /\ c # "shutdown"
      /\ \A d \in Checks : pc[d] \in {"idle", "done"}
      /\ Scalars /\ Placed /\ Line /\ OneCheck /\ Group /\ Shut
      /\ UNCHANGED <<closed, shut, generation, worker, ready, profile, init, pending,
                     teardown, dying, live, queue, verdict, cancelled, waitI>>
  BY CallerAssumption DEF Initialize, Quiet, IInv, Callers, workerVars
<1>2. PICK s \in {"start", "done"} :
         /\ pc' = [pc EXCEPT ![c] = s]
         /\ s = "done" => UNCHANGED <<jobs, waitT>>
         /\ s = "start" => queue = <<>> /\ AwaitTeardown(c, "start", <<>>)
  BY <1>1 DEF Initialize, AwaitTeardown
<1>3. pc'[c] = s /\ \A d \in Callers : d # c => pc'[d] = pc[d]
  BY <1>1, <1>2 DEF Scalars
<1>4. Rest'
  <2>1. Scalars'
    <3>1. pc' \in [Callers -> Steps]
      BY <1>1, <1>2 DEF Scalars, Steps, Starting
    <3>2. QED  BY <1>1, <3>1 DEF Scalars
  <2>2. Line'
    <3>1. Outstanding' = Outstanding
      BY <1>1, <1>3 DEF Outstanding, Callers
    <3>2. QED  BY <1>1, <1>3, <3>1 DEF Line, Callers, Scalars
  <2>3. OneCheck'
    BY <1>1, <1>3 DEF OneCheck, Callers
  <2>4. Group'
    <3>1. init # 0 => \E d \in Callers : pc'[d] \in {"owner", "forked"}
      BY <1>1, <1>3 DEF Group
    <3>2. QED  BY <1>1, <3>1 DEF Group, OneGroup, OwnProfile
  <2>5. Shut'
    BY <1>1 DEF Shut
  <2>6. QED  BY <2>1, <2>2, <2>3, <2>4, <2>5 DEF Rest
<1>5. /\ waitT \in Seq(AwaitsTeardown') /\ waitI \in Seq(AwaitsInit')
      /\ Once(<<>>, waitT, waitI) /\ Free(c, <<>>, waitT, waitI)
  <2>1. AwaitsTeardown \subseteq AwaitsTeardown' /\ AwaitsInit \subseteq AwaitsInit'
    BY <1>1, <1>3 DEF AwaitsTeardown, AwaitsInit
  <2>2. c \notin AwaitsTeardown /\ c \notin AwaitsInit
    BY <1>1 DEF AwaitsTeardown, AwaitsInit
  <2>3. QED  BY <1>1, <2>1, <2>2, Quietly, FreeQuietly
<1>6. CASE jobs' = <<>> /\ waitT' = waitT
  <2>1. Placed'
    BY <1>1, <1>5, <1>6, EmptySeq, PlacedAs
  <2>2. Order'
    BY <1>6 DEF Order
  <2>3. QED  BY <1>4, <2>1, <2>2, Whole
<1>7. CASE s = "start" /\ teardown = "pending"
  <2>1. jobs' = <<>> /\ waitT' = Append(waitT, c)
    BY <1>2, <1>7 DEF AwaitTeardown
  <2>2. c \in AwaitsTeardown'
    BY <1>1, <1>3, <1>7 DEF AwaitsTeardown
  <2> DEFINE A == AwaitsTeardown'
             X == A \cup AwaitsInit'
  <2>3. /\ waitT \in Seq(X) /\ waitI \in Seq(X) /\ c \in X /\ <<>> \in Seq({})
        /\ c \in A /\ waitT \in Seq(A)
    BY <1>5, <2>2
  <2> HIDE DEF A, X
  <2>4. waitT' \in Seq(A)
    BY <2>1, <2>3, AddIndex
  <2>5. Once(<<>>, waitT', waitI)
    BY <1>5, <2>1, <2>3, OnceAddT
  <2>6. Placed'
    BY <1>1, <1>5, <2>1, <2>4, <2>5, EmptySeq, PlacedAs DEF A
  <2>7. Order'
    BY <2>1 DEF Order
  <2>8. QED  BY <1>4, <2>6, <2>7, Whole
<1>8. CASE s = "start" /\ teardown # "pending"
  <2> DEFINE t == [c |-> c, ok |-> teardown = "done", ticks |-> 0]
  <2>1. jobs' = <<>> \o <<t>> /\ waitT' = waitT /\ pending = Nobody
    BY <1>1, <1>2, <1>8 DEF AwaitTeardown, Continue, Line, Scalars
  <2>2. MayRun(c, teardown = "done")'
    BY <1>1, <1>3, <1>8 DEF MayRun, Inner, Starting, Scalars
  <2>3. t \in Runnable' /\ t.c = c
    BY <1>1, <2>2 DEF Runnable, Job
  <2> HIDE DEF t
  <2>4. Placed'
    BY <1>1, <1>5, <2>1, <2>3, EmptySeq, RunsNew
  <2>5. jobs' = <<t>>
    BY <2>1
  <2>6. Order'
    BY <1>1, <2>1, <2>3, <2>5 DEF Order
  <2>7. QED  BY <1>4, <2>4, <2>6, Whole
<1>9. QED  BY <1>1, <1>2, <1>6, <1>7, <1>8

\* The worker is ready for the caller whose initialization it was.
LEMMA ReadyInv == ASSUME IInv, Ready PROVE IInv'
<1>1. /\ jobs = <<>> /\ init # 0 /\ ready' = TRUE /\ init' = 0
      /\ jobs' = Wake(waitI, TRUE) /\ waitI' = <<>>
      /\ Scalars /\ Placed /\ Line /\ OneCheck /\ Group /\ Shut
      /\ UNCHANGED <<closed, shut, generation, worker, profile, pending, teardown, dying,
                     live, queue, pc, verdict, cancelled, waitT>>
  BY DEF Ready, Quiet, IInv
<1>2. worker # 0 /\ ~ready /\ pending = Nobody
  BY <1>1 DEF Group, OwnProfile, Scalars
<1>3. Rest'
  <2>1. Scalars'
    BY <1>1 DEF Scalars
  <2>2. Line'
    BY <1>1 DEF Line, Outstanding
  <2>3. OneCheck' /\ Shut'
    BY <1>1 DEF OneCheck, Shut
  <2>4. Group'
    BY <1>1, <1>2 DEF Group, OneGroup, OwnProfile
  <2>5. QED  BY <2>1, <2>2, <2>3, <2>4 DEF Rest
<1>4. \A x \in AwaitsInit : [c |-> x, ok |-> TRUE, ticks |-> 0] \in Runnable'
  <2>1. TAKE x \in AwaitsInit
  <2>2. x \in Callers /\ x # "shutdown" /\ MayRun(x, TRUE)'
    BY <1>1, CallerAssumption DEF AwaitsInit, MayRun, Inner, Starting, Callers
  <2> DEFINE t == [c |-> x, ok |-> TRUE, ticks |-> 0]
  <2>3. t \in Job /\ t.c = x /\ t.ok = TRUE /\ t.ticks = 0
    BY <2>2 DEF Job
  <2> HIDE DEF t
  <2>4. t \in Runnable'
    BY <2>2, <2>3 DEF Runnable
  <2>5. QED  BY <2>4 DEF t
<1>5. Placed'
  <2> DEFINE X == AwaitsTeardown \cup AwaitsInit
             R == Runnable'
  <2>1. /\ waitT \in Seq(AwaitsTeardown) /\ waitI \in Seq(AwaitsInit)
        /\ waitT \in Seq(X) /\ waitI \in Seq(X) /\ Once(<<>>, waitT, waitI)
    BY <1>1 DEF Placed
  <2>2. jobs' \in Seq(R)
    BY <1>1, <1>4, <2>1, WakeSeq
  <2>3. AwaitsTeardown' = AwaitsTeardown
    BY <1>1 DEF AwaitsTeardown
  <2> HIDE DEF X
  <2>4. Once(jobs', waitT, <<>>)
    BY <1>1, <2>1, OnceWakeQuietly
  <2>5. QED  BY <1>1, <2>1, <2>2, <2>3, <2>4, EmptySeq, PlacedAs
<1>6. Order'
  <2>1. \A i \in 1..Len(jobs') : jobs'[i].c \in AwaitsInit
    <3>1. waitI \in Seq(AwaitsInit)
      BY <1>1 DEF Placed
    <3>2. \A i \in 1..Len(Wake(waitI, TRUE)) : Wake(waitI, TRUE)[i].c \in AwaitsInit
      BY <3>1, Woken, Zenon
    <3>3. QED  BY <1>1, <3>2
  <2>2. ASSUME NEW i \in 1..Len(jobs'), MayReplace(i)', NEW j \in 1..Len(jobs'),
               jobs'[j].c \in Requests
        PROVE  Behind(i, j)'
    <3>1. PICK x, y : x = jobs'[i].c /\ y = jobs'[j].c
      OBVIOUS
    <3>2. x \in Checks /\ pc[x] = "init" /\ y \in Requests /\ pc[y] \in {"init", "owner"}
      BY <1>1, <2>1, <2>2, <3>1 DEF MayReplace, AwaitsInit
    <3>3. PICK o \in Callers : pc[o] \in {"owner", "forked"}
      BY <1>1 DEF Group
    <3>4. o \in Requests
      BY <1>1, <3>2, <3>3 DEF OneCheck, Callers
    <3>5. o = y
      BY <1>1, <3>2, <3>3, <3>4 DEF Line
    <3>6. QED  BY <1>1, <3>1, <3>2, <3>3, <3>5 DEF Behind
  <2>3. QED  BY <1>1, <1>2, <2>2 DEF Order
<1>7. QED  BY <1>3, <1>5, <1>6, Whole

\* What is left when the current worker is discarded by an event.
LEMMA DiscardRest ==
    ASSUME IInv, worker # 0, NEW s \in {"reaping", "closing"},
           worker' = 0, ready' = FALSE, profile' = "none", teardown' = "pending", dying' = worker,
           init' = 0, pending' = Nobody, UNCHANGED <<generation, live, queue>>,
           pc' = IF pending = Nobody THEN pc ELSE [pc EXCEPT ![pending] = s],
           verdict' \in [Requests -> Verdicts], cancelled' \subseteq Requests,
           UNCHANGED <<closed, shut>> \/ (closed' = TRUE /\ shut' = "tearing"),
           waitI' = <<>> \/ closed' = TRUE
    PROVE  /\ Rest' /\ teardown = "done"
           /\ pending # Nobody => pending \in Requests /\ pc[pending] = "working" /\ pc'[pending] = s
           /\ \A d \in Callers : d # pending \/ pending = Nobody => pc'[d] = pc[d]
<1>1. Scalars /\ Line /\ OneCheck /\ Group /\ Shut
  BY DEF IInv
<1>2. teardown = "done" /\ live = {worker}
  BY <1>1 DEF Group
<1>3. /\ pending # Nobody => pending \in Requests /\ pc[pending] = "working" /\ pc'[pending] = s
      /\ \A d \in Callers : d # pending \/ pending = Nobody => pc'[d] = pc[d]
  BY <1>1 DEF Scalars, Line, Callers
<1>4. Scalars'
  <2>1. pc' \in [Callers -> Steps]
    BY <1>1 DEF Scalars, Steps
  <2>2. generation \in Nat /\ worker \in 0..generation
    BY <1>1 DEF Scalars
  <2>3. /\ generation' \in Nat /\ worker' \in 0..generation' /\ init' \in {0, worker'}
        /\ dying' \in 0..generation' /\ live' \in SUBSET (1..generation')
    BY <1>1, <2>2 DEF Scalars
  <2>4. closed' \in BOOLEAN /\ shut' \in {"no", "tearing", "draining", "failing", "done", "failed"}
    BY <1>1 DEF Scalars
  <2>5. QED  BY <2>1, <2>3, <2>4 DEF Scalars
<1>5. Line'
  <2>1. Outstanding \subseteq Outstanding'
    BY <1>3 DEF Outstanding, Callers
  <2>2. queue \in Seq(Outstanding')
    BY <1>1, <2>1, SeqMonotonic DEF Line
  <2>3. \A r \in Requests : pc'[r] \notin {"idle", "queued", "done"} => queue # <<>> /\ r = Head(queue)
    BY <1>1, <1>3 DEF Line, Callers
  <2>4. QED  BY <1>1, <2>2, <2>3 DEF Line
<1>6. OneCheck'
  <2>1. \A d \in Checks : pc'[d] = pc[d]
    BY <1>3, CallerAssumption DEF Callers
  <2>2. QED  BY <1>1, <2>1 DEF OneCheck
<1>7. Group'
  BY <1>1, <1>2 DEF Group, OneGroup, OwnProfile
<1>8. Shut'
  BY <1>1 DEF Shut
<1>9. QED  BY <1>2, <1>3, <1>4, <1>5, <1>6, <1>7, <1>8 DEF Rest

\* Who waits is not at work.
LEMMA DiscardWaits ==
    ASSUME IInv, jobs = <<>>, NEW s \in {"reaping", "closing"},
           pending # Nobody => pending \in Requests /\ pc[pending] = "working" /\ pc'[pending] = s,
           \A d \in Callers : d # pending \/ pending = Nobody => pc'[d] = pc[d],
           init' = 0, shut' = shut \/ shut = "no"
    PROVE  /\ waitT \in Seq(AwaitsTeardown') /\ waitI \in Seq(AwaitsInit')
           /\ Once(<<>>, waitT, waitI)
           /\ pending # Nobody => Free(pending, <<>>, waitT, waitI)
<1>1. Placed
  BY DEF IInv
<1>2. AwaitsTeardown \subseteq AwaitsTeardown' /\ AwaitsInit \subseteq AwaitsInit'
  BY DEF AwaitsTeardown, AwaitsInit
<1>3. pending # Nobody => pending \notin AwaitsTeardown /\ pending \notin AwaitsInit
  BY DEF AwaitsTeardown, AwaitsInit, Callers
<1>4. QED  BY <1>1, <1>2, <1>3, Quietly, FreeQuietly

\* failActive(), with those who wait for the initialization told or not.
LEMMA FailActiveInv ==
    ASSUME IInv, jobs = <<>>, worker # 0, NEW v \in Verdicts, FailActive(v),
           jobs' \in {<<>>, Wake(waitI, FALSE)}, cancelled' \subseteq Requests,
           UNCHANGED <<closed, shut, generation, live, queue>>
    PROVE  IInv'
<1>1. PICK p : p = pending
  OBVIOUS
<1>2. /\ worker' = 0 /\ ready' = FALSE /\ profile' = "none" /\ teardown' = "pending"
      /\ dying' = worker /\ init' = 0 /\ pending' = Nobody /\ waitI' = <<>>
      /\ pc' = IF p = Nobody THEN pc ELSE [pc EXCEPT ![p] = "reaping"]
      /\ verdict' = IF p = Nobody THEN verdict ELSE [verdict EXCEPT ![p] = v]
      /\ waitT' = waitT \o (IF p = Nobody THEN <<>> ELSE <<p>>)
  BY <1>1 DEF FailActive, Discard
<1>3. verdict' \in [Requests -> Verdicts]
  BY <1>2 DEF IInv, Scalars
<1>4. /\ Rest'
      /\ p # Nobody => p \in Requests /\ pc[p] = "working" /\ pc'[p] = "reaping"
      /\ \A d \in Callers : d # p \/ p = Nobody => pc'[d] = pc[d]
  BY <1>1, <1>2, <1>3, DiscardRest
<1>5. /\ waitT \in Seq(AwaitsTeardown') /\ waitI \in Seq(AwaitsInit')
      /\ Once(<<>>, waitT, waitI) /\ (p # Nobody => Free(p, <<>>, waitT, waitI))
  BY <1>1, <1>2, <1>4, DiscardWaits
<1> DEFINE A == AwaitsTeardown'
           B == AwaitsInit'
           X == A \cup B
<1>6. waitT \in Seq(X) /\ waitI \in Seq(X) /\ waitT \in Seq(A) /\ waitI \in Seq(B)
  BY <1>5
<1>7. p # Nobody => p \in A /\ p \in X
  BY <1>4, CallerAssumption DEF AwaitsTeardown, Callers
<1>8. \A x \in B : [c |-> x, ok |-> FALSE, ticks |-> 0] \in Runnable'
  <2>1. TAKE x \in B
  <2>2. x \in Callers /\ x # "shutdown" /\ MayRun(x, FALSE)'
    BY <1>2, CallerAssumption DEF AwaitsInit, MayRun, Inner, Starting, Callers
  <2> DEFINE t == [c |-> x, ok |-> FALSE, ticks |-> 0]
  <2>3. t \in Job /\ t.c = x /\ t.ok = FALSE /\ t.ticks = 0
    BY <2>2 DEF Job
  <2> HIDE DEF t
  <2>4. t \in Runnable'
    BY <2>2, <2>3 DEF Runnable
  <2>5. QED  BY <2>4 DEF t
<1> HIDE DEF A, B, X
<1>9. waitT' \in Seq(A) /\ waitT' \in Seq(X) /\ Once(<<>>, waitT', waitI)
  <2>1. CASE p = Nobody
    <3>1. waitT' = waitT
      BY <1>2, <1>6, <2>1, ConcatEmptySeq
    <3>2. QED  BY <1>5, <1>6, <3>1
  <2>2. CASE p # Nobody
    <3>1. waitT' = Append(waitT, p) /\ waitT' \in Seq(A) /\ waitT' \in Seq(X)
      BY <1>2, <1>6, <1>7, <2>2, AddIndex
    <3>2. Once(<<>>, waitT', waitI)
      BY <1>5, <1>6, <1>7, <2>2, <3>1, EmptySeq, OnceAddT
    <3>3. QED  BY <3>1, <3>2
  <2>3. QED  BY <2>1, <2>2
<1>10. jobs' \in Seq(Runnable') /\ Once(jobs', waitT', <<>>)
  <2>1. CASE jobs' = <<>>
    <3>1. 1..Len(<<>>) = {}
      OBVIOUS
    <3>2. Once(<<>>, waitT', <<>>)
      BY <1>9, <3>1, Zenon DEF Once
    <3>3. QED  BY <2>1, <3>2, EmptySeq
  <2>2. CASE jobs' = Wake(waitI, FALSE)
    BY <1>6, <1>8, <1>9, <2>2, WakeSeq, OnceWakeQuietly
  <2>3. QED  BY <2>1, <2>2
<1>11. Placed'
  BY <1>2, <1>9, <1>10, EmptySeq, PlacedAs DEF A
<1>12. Order'
  BY <1>2, NoneReady
<1>13. QED  BY <1>4, <1>11, <1>12, Whole

LEMMA WorkerFailsInv == ASSUME IInv, WorkerFails PROVE IInv'
<1>1. /\ jobs = <<>> /\ "failed" \in Verdicts /\ cancelled' \subseteq Requests
      /\ worker # 0 /\ FailActive("failed") /\ jobs' = Wake(waitI, FALSE)
      /\ UNCHANGED <<closed, shut, generation, live, queue>>
  BY DEF WorkerFails, Quiet, Verdicts, IInv, Scalars
<1>2. QED  BY <1>1, FailActiveInv

LEMMA CancelWorkingInv == ASSUME IInv, NEW r \in Requests, CancelWorking(r) PROVE IInv'
<1>1. /\ jobs = <<>> /\ "cancelled" \in Verdicts /\ cancelled' \subseteq Requests
      /\ FailActive("cancelled") /\ jobs' = <<>> /\ pending = r
      /\ UNCHANGED <<closed, shut, generation, live, queue>>
  BY DEF CancelWorking, Quiet, Verdicts, IInv, Scalars
<1>2. CASE worker # 0
  BY <1>1, <1>2, FailActiveInv
<1>3. CASE worker = 0
  BY <1>1, <1>3, CallerAssumption DEF IInv, Group, Nobody
<1>4. QED  BY <1>2, <1>3

\* The group is gone, or is given up: those who waited go on.
LEMMA ReapedInv == ASSUME IInv, NEW proven \in BOOLEAN, Reaped(proven) PROVE IInv'
<1>1. /\ jobs = <<>> /\ teardown = "pending"
      /\ teardown' = IF proven THEN "done" ELSE "unproven"
      /\ dying' = 0 /\ live' = IF proven THEN live \ {dying} ELSE live
      /\ jobs' = Wake(waitT, proven) /\ waitT' = <<>>
      /\ Scalars /\ Placed /\ Line /\ OneCheck /\ Group /\ Shut
      /\ UNCHANGED <<closed, shut, generation, worker, ready, profile, init, pending,
                     queue, pc, verdict, cancelled, waitI>>
  BY DEF Reaped, Quiet, IInv
<1>2. /\ worker = 0 /\ ~ready /\ init = 0 /\ pending = Nobody
      /\ live \subseteq {dying} /\ (proven => live' = {})
  BY <1>1, Gone DEF Group
<1>3. Rest'
  <2>1. Scalars'
    <3>1. live' \subseteq live /\ dying' \in 0..generation
      BY <1>1 DEF Scalars
    <3>2. QED  BY <1>1, <3>1 DEF Scalars
  <2>2. Line'
    BY <1>1 DEF Line, Outstanding
  <2>3. OneCheck' /\ Shut'
    BY <1>1 DEF OneCheck, Shut
  <2>4. Group'
    BY <1>1, <1>2 DEF Group, OneGroup, OwnProfile
  <2>5. QED  BY <2>1, <2>2, <2>3, <2>4 DEF Rest
<1>4. \A x \in AwaitsTeardown : [c |-> x, ok |-> proven, ticks |-> 0] \in Runnable'
  <2>1. TAKE x \in AwaitsTeardown
  <2> DEFINE t == [c |-> x, ok |-> proven, ticks |-> 0]
  <2>2. t \in Job /\ t.c = x /\ t.ok = proven /\ t.ticks = 0
    BY DEF AwaitsTeardown, Job
  <2> HIDE DEF t
  <2>3. x \in Callers => MayRun(x, proven)'
    BY <1>1, <1>2 DEF AwaitsTeardown, MayRun, Inner, Starting
  <2>4. x = "shutdown" => shut = "tearing" /\ (proven => teardown' = "done")
    BY <1>1 DEF AwaitsTeardown
  <2>5. t \in Runnable'
    BY <1>1, <2>2, <2>3, <2>4 DEF Runnable
  <2>6. QED  BY <2>5 DEF t
<1>5. Placed'
  <2> DEFINE X == AwaitsTeardown \cup AwaitsInit
             A == AwaitsTeardown
             R == Runnable'
  <2>1. /\ waitT \in Seq(A) /\ waitI \in Seq(AwaitsInit)
        /\ waitT \in Seq(X) /\ waitI \in Seq(X) /\ Once(<<>>, waitT, waitI)
    BY <1>1 DEF Placed
  <2>2. \A x \in A : [c |-> x, ok |-> proven, ticks |-> 0] \in R
    BY <1>4
  <2>3. AwaitsInit' = AwaitsInit
    BY <1>1 DEF AwaitsInit
  <2> HIDE DEF X, A, R
  <2>4. jobs' \in Seq(R)
    BY <1>1, <2>1, <2>2, WakeSeq
  <2>5. Once(jobs', <<>>, waitI)
    BY <1>1, <2>1, OnceWakeT
  <2>6. QED  BY <1>1, <2>1, <2>3, <2>4, <2>5, EmptySeq, PlacedAs DEF R
<1>6. Order'
  BY <1>1, <1>2, NoneReady
<1>7. QED  BY <1>3, <1>5, <1>6, Whole

\* The race in send() is lost before the request is sent.
LEMMA CancelStartingInv == ASSUME IInv, NEW r \in Requests, CancelStarting(r) PROVE IInv'
<1>1. /\ jobs = <<>> /\ pc[r] \in Starting /\ r \in Callers /\ r \notin Checks
      /\ Scalars /\ Placed /\ Line /\ OneCheck /\ Group /\ Shut
      /\ cancelled' \subseteq Requests /\ pc' = [pc EXCEPT ![r] = "thrown"]
      /\ verdict' = [verdict EXCEPT ![r] = "cancelled"]
      /\ waitT' = Others(waitT, r)
      /\ UNCHANGED <<closed, shut, generation, pending, live, queue>>
  BY CallerAssumption DEF CancelStarting, Quiet, IInv, Callers, Scalars
<1>2. pc'[r] = "thrown" /\ \A d \in Callers : d # r => pc'[d] = pc[d]
  BY <1>1 DEF Scalars
<1>3. queue # <<>> /\ r = Head(queue) /\ pending = Nobody
  <2>1. queue # <<>> /\ r = Head(queue)
    BY <1>1 DEF Line, Starting
  <2>2. pending # Nobody => pending = r
    BY <1>1, <2>1 DEF Line, Scalars
  <2>3. QED  BY <1>1, <2>1, <2>2 DEF Line, Starting
<1>4. Line' /\ OneCheck' /\ Shut' /\ pc' \in [Callers -> Steps] /\ verdict' \in [Requests -> Verdicts]
  <2>1. pc' \in [Callers -> Steps] /\ verdict' \in [Requests -> Verdicts]
    BY <1>1 DEF Scalars, Steps, Verdicts
  <2>2. queue \in Seq(Outstanding')
    <3>1. Outstanding \subseteq Outstanding'
      BY <1>2 DEF Outstanding, Callers
    <3>2. QED  BY <1>1, <3>1, SeqMonotonic DEF Line
  <2>3. Line'
    BY <1>1, <1>2, <1>3, <2>2 DEF Line, Callers
  <2>4. OneCheck'
    BY <1>1, <1>2 DEF OneCheck, Callers
  <2>5. worker' \in {0, worker}
    BY DEF CancelStarting
  <2>6. Shut'
    BY <1>1, <2>5 DEF Shut
  <2>7. QED  BY <2>1, <2>3, <2>4, <2>6
<1> DEFINE X == AwaitsTeardown \cup AwaitsInit
           W == Others(waitT, r)
           V == Others(waitI, r)
           t == [c |-> r, ok |-> TRUE, ticks |-> 1]
<1>5. /\ W \in Seq(AwaitsTeardown \ {r}) /\ V \in Seq(AwaitsInit \ {r})
      /\ Once(<<>>, W, V) /\ Free(r, <<>>, W, V)
  <2>1. waitT \in Seq(AwaitsTeardown) /\ waitI \in Seq(AwaitsInit) /\ Once(<<>>, waitT, waitI)
    BY <1>1 DEF Placed
  <2>2. waitT \in Seq(X) /\ waitI \in Seq(X)
    BY <2>1
  <2> HIDE DEF X
  <2>3. W \in Seq(X \ {r}) /\ V \in Seq(X \ {r}) /\ Once(<<>>, W, V) /\ Free(r, <<>>, W, V)
    BY <2>1, <2>2, OnceWithout
  <2>4. W \in Seq(AwaitsTeardown) /\ V \in Seq(AwaitsInit)
    BY <2>1, OthersIndex DEF Once
  <2> HIDE DEF W, V
  <2>5. \A i \in 1..Len(W) : W[i] \in AwaitsTeardown \ {r}
    BY <2>3, <2>4
  <2>6. \A i \in 1..Len(V) : V[i] \in AwaitsInit \ {r}
    BY <2>3, <2>4
  <2>7. QED  BY <2>3, <2>4, <2>5, <2>6, SeqOf
<1>6. t \in Job /\ t.c = r /\ t.ok = TRUE
  BY <1>1 DEF Job
<1>7. t \in Runnable'
  <2>1. MayRun(r, TRUE)'
    BY <1>2 DEF MayRun, Inner
  <2> HIDE DEF t
  <2>2. QED  BY <1>1, <1>6, <2>1, CallerAssumption DEF Runnable, Callers
<1> HIDE DEF t, X
<1>8. CASE init # 0
  <2>1. /\ worker' = 0 /\ ready' = FALSE /\ profile' = "none" /\ init' = 0
        /\ teardown' = "pending" /\ dying' = worker /\ waitI' = <<>> /\ waitT' = W
        /\ jobs' = Wake(V, FALSE) \o <<t>>
    BY <1>1, <1>8 DEF CancelStarting, Continue, t
  <2>2. worker # 0 /\ live = {worker} /\ ~ready
    BY <1>1, <1>8 DEF Scalars, Group
  <2>3. Rest'
    <3>1. generation \in Nat /\ worker \in 0..generation
      BY <1>1 DEF Scalars
    <3>2. /\ generation' \in Nat /\ worker' \in 0..generation' /\ init' \in {0, worker'}
          /\ dying' \in 0..generation' /\ live' \in SUBSET (1..generation')
      BY <1>1, <2>1, <3>1 DEF Scalars
    <3>3. Scalars'
      BY <1>1, <1>4, <2>1, <3>2 DEF Scalars
    <3>4. Group'
      BY <1>1, <1>3, <2>1, <2>2 DEF Group, OneGroup, OwnProfile
    <3>5. QED  BY <1>4, <3>3, <3>4 DEF Rest
  <2>4. \A x \in AwaitsInit \ {r} : [c |-> x, ok |-> FALSE, ticks |-> 0] \in Runnable'
    <3>1. TAKE x \in AwaitsInit \ {r}
    <3>2. x \in Callers /\ x # "shutdown" /\ MayRun(x, FALSE)'
      BY <1>2, <2>1, CallerAssumption DEF AwaitsInit, MayRun, Inner, Starting, Callers
    <3> DEFINE s == [c |-> x, ok |-> FALSE, ticks |-> 0]
    <3>3. s \in Job /\ s.c = x /\ s.ok = FALSE /\ s.ticks = 0
      BY <3>2 DEF Job
    <3> HIDE DEF s
    <3>4. s \in Runnable'
      BY <3>2, <3>3 DEF Runnable
    <3>5. QED  BY <3>4 DEF s
  <2>5. AwaitsTeardown \ {r} \subseteq AwaitsTeardown'
    BY <1>1, <1>2 DEF AwaitsTeardown
  <2> DEFINE R == Runnable'
             B == AwaitsInit \ {r}
             A == AwaitsTeardown'
             Y == A \cup B
             J == Wake(V, FALSE)
  <2>6. /\ \A x \in B : [c |-> x, ok |-> FALSE, ticks |-> 0] \in R
        /\ V \in Seq(B) /\ W \in Seq(A) /\ W \in Seq(Y) /\ V \in Seq(Y)
    BY <1>5, <2>4, <2>5, SeqMonotonic
  <2> HIDE DEF R, B, A, Y, W, V
  <2>7. J \in Seq(R)
    BY <2>6, WakeSeq
  <2>8. Once(J, W, <<>>)
    BY <1>5, <2>6, OnceWakeQuietly
  <2>9. Free(r, J, W, <<>>)
    <3>1. \A i \in 1..Len(J) : J[i].c \in B
      BY <2>6, Woken, Zenon
    <3> HIDE DEF J
    <3>2. 1..Len(<<>>) = {}
      OBVIOUS
    <3>3. \A i \in 1..Len(J) : J[i].c # r
      BY <3>1 DEF B
    <3>4. QED  BY <1>5, <3>2, <3>3, Zenon DEF Free
  <2> HIDE DEF J
  <2>10. Placed'
    <3>1. jobs' = J \o <<t>> /\ waitT' = W /\ waitI' = <<>> /\ <<>> \in Seq(AwaitsInit')
      BY <2>1, EmptySeq DEF J
    <3>2. QED  BY <1>6, <1>7, <2>6, <2>7, <2>8, <2>9, <3>1, RunsNew DEF R, A
  <2>11. Order'
    BY <2>1, NoneReady
  <2>12. QED  BY <2>3, <2>10, <2>11, Whole
<1>9. CASE init = 0
  <2>1. /\ UNCHANGED <<worker, ready, profile, init, teardown, dying>>
        /\ jobs' = <<t>> /\ waitI' = V /\ waitT' = W
    BY <1>1, <1>9 DEF CancelStarting, Continue, t
  <2>2. waitI' # <<>> => closed
    <3>1. waitI = <<>> => V = <<>>
      BY DEF Others, Waits
    <3>2. QED  BY <1>1, <1>9, <2>1, <3>1 DEF Group
  <2>3. Rest'
    <3>1. Scalars'
      BY <1>1, <1>4, <2>1 DEF Scalars
    <3>2. Group'
      BY <1>1, <1>3, <1>9, <2>1, <2>2 DEF Group, OneGroup, OwnProfile
    <3>3. QED  BY <1>4, <3>1, <3>2 DEF Rest
  <2>4. W \in Seq(AwaitsTeardown') /\ V \in Seq(AwaitsInit')
    <3>1. AwaitsTeardown \ {r} \subseteq AwaitsTeardown' /\ AwaitsInit \ {r} \subseteq AwaitsInit'
      BY <1>1, <1>2, <2>1 DEF AwaitsTeardown, AwaitsInit
    <3> HIDE DEF W, V
    <3>2. QED  BY <1>5, <3>1, SeqMonotonic
  <2> HIDE DEF W, V
  <2>5. Placed'
    <3>1. jobs' = <<>> \o <<t>> /\ <<>> \in Seq(Runnable')
      BY <2>1
    <3>2. QED  BY <1>5, <1>6, <1>7, <2>1, <2>4, <3>1, RunsNew
  <2>6. Order'
    BY <1>1, <1>6, <2>1, NoneInOrder DEF MayReplace
  <2>7. QED  BY <2>3, <2>5, <2>6, Whole
<1>10. QED  BY <1>8, <1>9

LEMMA ShutdownBeginInv == ASSUME IInv, ShutdownBegin PROVE IInv'
<1>1. /\ jobs = <<>> /\ jobs' = <<>> /\ ~closed /\ closed' = TRUE /\ shut = "no"
      /\ shut' = (IF worker = 0 THEN "draining" ELSE "tearing")
      /\ Scalars /\ Placed /\ Line /\ OneCheck /\ Group /\ Shut
      /\ UNCHANGED <<generation, live, queue, cancelled, jobs, waitI>>
  BY DEF ShutdownBegin, Quiet, IInv, Shut
<1>2. Order'
  <2>1. 1..Len(<<>>) = {}
    OBVIOUS
  <2>2. QED  BY <1>1, <2>1 DEF Order
<1>3. CASE worker = 0
  <2>1. /\ shut' = "draining"
        /\ UNCHANGED <<worker, ready, profile, init, pending, teardown, dying, waitT, pc, verdict>>
    BY <1>1, <1>3 DEF ShutdownBegin
  <2>2. Rest'
    <3>1. Scalars' /\ OneCheck'
      BY <1>1, <2>1 DEF Scalars, OneCheck
    <3>2. Line'
      BY <1>1, <2>1 DEF Line, Outstanding
    <3>3. Group'
      BY <1>1, <2>1 DEF Group, OneGroup, OwnProfile
    <3>4. Shut'
      BY <1>1, <1>3, <2>1 DEF Shut
    <3>5. QED  BY <3>1, <3>2, <3>3, <3>4 DEF Rest
  <2>3. /\ waitT \in Seq(AwaitsTeardown') /\ waitI \in Seq(AwaitsInit')
        /\ Once(<<>>, waitT, waitI)
    <3>1. AwaitsTeardown \subseteq AwaitsTeardown' /\ AwaitsInit \subseteq AwaitsInit'
      BY <1>1, <2>1 DEF AwaitsTeardown, AwaitsInit
    <3>2. QED  BY <1>1, <3>1, Quietly
  <2>4. Placed'
    BY <1>1, <2>1, <2>3, EmptySeq, PlacedAs
  <2>5. QED  BY <1>2, <2>2, <2>4, Whole
<1>4. CASE worker # 0
  <2>1. PICK p : p = pending
    OBVIOUS
  <2>2. /\ worker' = 0 /\ ready' = FALSE /\ profile' = "none" /\ teardown' = "pending"
        /\ dying' = worker /\ init' = 0 /\ pending' = Nobody /\ waitT' = waitT \o <<"shutdown">>
        /\ pc' = IF p = Nobody THEN pc ELSE [pc EXCEPT ![p] = "closing"]
        /\ verdict' = IF p = Nobody THEN verdict ELSE [verdict EXCEPT ![p] = "closed"]
        /\ shut' = "tearing"
    BY <1>1, <1>4, <2>1 DEF ShutdownBegin, Discard
  <2>3. verdict' \in [Requests -> Verdicts] /\ cancelled' \subseteq Requests
    BY <1>1, <2>2 DEF Scalars, Verdicts
  <2>4. /\ Rest'
        /\ p # Nobody => p \in Requests /\ pc[p] = "working" /\ pc'[p] = "closing"
        /\ \A d \in Callers : d # p \/ p = Nobody => pc'[d] = pc[d]
    BY <1>1, <1>4, <2>1, <2>2, <2>3, DiscardRest
  <2>5. /\ waitT \in Seq(AwaitsTeardown') /\ waitI \in Seq(AwaitsInit')
        /\ Once(<<>>, waitT, waitI)
    BY <1>1, <2>1, <2>2, <2>4, DiscardWaits
  <2>6. Free("shutdown", <<>>, waitT, waitI)
    <3>1. "shutdown" \notin AwaitsTeardown /\ "shutdown" \notin AwaitsInit
      BY <1>1, CallerAssumption DEF AwaitsTeardown, AwaitsInit, Callers
    <3>2. QED  BY <1>1, <3>1, FreeQuietly
  <2>7. "shutdown" \in AwaitsTeardown'
    BY <2>2, CallerAssumption DEF AwaitsTeardown, Callers
  <2> DEFINE A == AwaitsTeardown'
             X == A \cup AwaitsInit'
  <2>8. /\ waitT \in Seq(X) /\ waitI \in Seq(X) /\ waitT \in Seq(A)
        /\ "shutdown" \in X /\ "shutdown" \in A
    BY <2>5, <2>7
  <2> HIDE DEF A, X
  <2>9. waitT' = Append(waitT, "shutdown") /\ waitT' \in Seq(A)
    BY <2>2, <2>8, AddIndex
  <2>10. Once(<<>>, waitT', waitI)
    BY <2>5, <2>6, <2>8, <2>9, EmptySeq, OnceAddT
  <2>11. Placed'
    BY <1>1, <2>5, <2>9, <2>10, EmptySeq, PlacedAs DEF A
  <2>12. QED  BY <1>2, <2>4, <2>11, Whole
<1>5. QED  BY <1>3, <1>4

\* Those whom shutdown() interrupted are told once its worker's group is reaped.
LEMMA ShutdownReapedInv == ASSUME IInv, ShutdownReaped PROVE IInv'
<1>1. /\ jobs # <<>> /\ Head(jobs).c = "shutdown" /\ waitI' = <<>>
      /\ shut' = IF Head(jobs).ok THEN "draining" ELSE "failing"
      /\ Scalars /\ Placed /\ Line /\ OneCheck /\ Group /\ Shut
      /\ UNCHANGED <<closed, workerVars, queue, pc, verdict, cancelled, waitT>>
  BY DEF ShutdownReaped, Quiet, IInv
<1>2. /\ Head(jobs) \in Job /\ shut = "tearing" /\ closed
      /\ teardown = IF Head(jobs).ok THEN "done" ELSE "unproven"
  <2>1. Head(jobs) \in Runnable
    BY <1>1, TailIndex DEF Placed
  <2>2. QED  BY <1>1, <2>1 DEF Runnable, Shut
<1>3. worker = 0 /\ ~ready /\ init = 0 /\ pending = Nobody
  BY <1>2, Gone
<1>4. Rest'
  <2>1. Scalars' /\ OneCheck'
    BY <1>1 DEF Scalars, OneCheck, workerVars
  <2>2. Line'
    BY <1>1 DEF Line, Outstanding, workerVars
  <2>3. Group'
    BY <1>1 DEF Group, OneGroup, OwnProfile, workerVars
  <2>4. Shut'
    BY <1>1, <1>2 DEF Shut, workerVars
  <2>5. QED  BY <2>1, <2>2, <2>3, <2>4 DEF Rest
<1>5. Keeps("shutdown")
  <2>1. /\ {t \in Runnable : t.c # "shutdown"} \subseteq Runnable'
        /\ {x \in AwaitsTeardown : x # "shutdown"} \subseteq AwaitsTeardown'
        /\ {x \in AwaitsInit : x # "shutdown"} \subseteq AwaitsInit'
    BY <1>1 DEF Runnable, AwaitsTeardown, AwaitsInit, MayRun, workerVars
  <2>2. QED  BY <1>1, <2>1, KeepsSets
<1>0. PICK f, n, ok : f \in BOOLEAN /\ f = FALSE /\ n = Head(queue) /\ ok = Head(jobs).ok
  OBVIOUS
<1> DEFINE X == AwaitsTeardown' \cup AwaitsInit'
           R == Runnable'
           B == AwaitsInit'
           J == Tail(jobs)
           W == Wake(waitI, f)
           K == J \o W
<1>6. /\ J \in Seq(R) /\ waitT \in Seq(AwaitsTeardown') /\ waitI \in Seq(B)
      /\ waitT \in Seq(X) /\ waitI \in Seq(X) /\ Once(J, waitT, waitI)
  BY <1>1, <1>5, Leaving
<1>7. \A x \in B : [c |-> x, ok |-> f, ticks |-> 0] \in R
  <2>1. TAKE x \in B
  <2>2. x \in Callers /\ x # "shutdown" /\ MayRun(x, FALSE)'
    BY <1>1, <1>2, CallerAssumption DEF AwaitsInit, MayRun, Inner, Starting, Callers
  <2> DEFINE s == [c |-> x, ok |-> f, ticks |-> 0]
  <2>3. s \in Job /\ s.c = x /\ s.ok = f /\ f = FALSE /\ s.ticks = 0
    BY <1>0, <2>2 DEF Job
  <2> HIDE DEF s
  <2>4. s \in Runnable'
    BY <2>2, <2>3 DEF Runnable
  <2>5. QED  BY <2>4 DEF s
<1>8. K \in Seq(R) /\ Once(K, waitT, <<>>)
  <2>1. /\ \A i, j \in 1..Len(J) : J[i].c = J[j].c => i = j
        /\ \A i, j \in 1..Len(waitT) : waitT[i] = waitT[j] => i = j
        /\ \A i, j \in 1..Len(waitI) : waitI[i] = waitI[j] => i = j
        /\ \A i \in 1..Len(J), j \in 1..Len(waitT) : J[i].c # waitT[j]
        /\ \A i \in 1..Len(J), j \in 1..Len(waitI) : J[i].c # waitI[j]
        /\ \A i \in 1..Len(waitT), j \in 1..Len(waitI) : waitT[i] # waitI[j]
    BY <1>6 DEF Once
  <2> HIDE DEF J, R, X, B
  <2>2. W \in Seq(R)
    BY <1>6, <1>7, WakeSeq
  <2>3. \A i \in 1..Len(W) : W[i].c = waitI[i] /\ i \in 1..Len(waitI)
    BY <1>6, WakeIndex
  <2> HIDE DEF W
  <2>4. /\ \A i, j \in 1..Len(W) : W[i].c = W[j].c => i = j
        /\ \A i \in 1..Len(J), j \in 1..Len(W) : J[i].c # W[j].c
        /\ \A i \in 1..Len(W), j \in 1..Len(waitT) : W[i].c # waitT[j]
    <3> DEFINE M == 1..Len(W)
               N == 1..Len(waitI)
    <3>1. \A i \in M : W[i].c = waitI[i] /\ i \in N
      BY <2>3
    <3>2. /\ \A i, j \in N : waitI[i] = waitI[j] => i = j
          /\ \A i \in 1..Len(J), j \in N : J[i].c # waitI[j]
          /\ \A i \in 1..Len(waitT), j \in N : waitT[i] # waitI[j]
      BY <2>1
    <3> HIDE DEF M, N
    <3>3. \A i, j \in M : W[i].c = W[j].c => i = j
      BY <3>1, <3>2
    <3>4. \A i \in 1..Len(J), j \in M : J[i].c # W[j].c
      BY <3>1, <3>2
    <3>5. \A i \in M, j \in 1..Len(waitT) : W[i].c # waitT[j]
      BY <3>1, <3>2
    <3>6. QED  BY <3>3, <3>4, <3>5 DEF M
  <2>5. QED  BY <1>6, <2>1, <2>2, <2>4, OnceJoin
<1>9. Placed'
  <2>1. CASE queue # <<>> /\ pc[n] = "closing"
    <3> DEFINE t == [c |-> n, ok |-> ok, ticks |-> 0]
    <3>1. jobs' = K \o <<t>>
      BY <1>0, <2>1 DEF ShutdownReaped, Continue
    <3>2. n \in Requests /\ n \in Callers /\ n # "shutdown" /\ n \notin AwaitsTeardown' /\ n \notin B
      <4>1. queue \in Seq(Outstanding)
        BY <1>1 DEF Line
      <4>2. n \in Outstanding
        BY <1>0, <2>1, <4>1
      <4>3. n \in Requests /\ n \in Callers /\ n # "shutdown"
        BY <4>2, CallerAssumption DEF Outstanding, Callers
      <4>4. QED  BY <1>1, <2>1, <4>3 DEF AwaitsTeardown, AwaitsInit
    <3>3. t \in Runnable' /\ t.c = n
      <4>1. ok \in BOOLEAN /\ (ok => teardown = "done") /\ (~ok => teardown = "unproven")
        BY <1>2, <1>0 DEF Job
      <4>2. MayRun(n, ok)'
        BY <1>1, <1>2, <2>1, <3>2, <4>1 DEF MayRun, Inner, workerVars
      <4>3. t \in Job /\ t.c = n /\ t.ok = ok /\ t.ticks = 0
        BY <3>2, <4>1 DEF Job
      <4> HIDE DEF t
      <4>4. QED  BY <3>2, <4>2, <4>3 DEF Runnable
    <3>4. \A i \in 1..Len(J) : J[i].c # n
      <4>1. jobs \in Seq(Runnable)
        BY <1>1 DEF Placed
      <4>2. \A i \in 1..Len(J) : J[i] \in Runnable
        BY <1>1, <4>1, TailIndex
      <4> HIDE DEF J
      <4>3. QED  BY <1>2, <2>1, <3>2, <4>2 DEF Runnable, MayRun
    <3> HIDE DEF t, J, B, R
    <3>5. \A i \in 1..Len(W) : W[i].c # n
      <4>1. \A i \in 1..Len(W) : W[i].c \in B
        BY <1>6, Woken, Zenon
      <4>2. QED  BY <3>2, <4>1
    <3>6. W \in Seq(R)
      BY <1>6, <1>7, WakeSeq
    <3> HIDE DEF W
    <3>7. \A i \in 1..Len(K) : K[i].c # n
      <4>1. \A i \in 1..Len(K) : \/ i \in 1..Len(J) /\ K[i] = J[i]
                                 \/ i - Len(J) \in 1..Len(W) /\ K[i] = W[i - Len(J)]
        BY <1>6, <3>6, JoinIndex
      <4> HIDE DEF K
      <4>2. QED  BY <3>4, <3>5, <4>1
    <3> HIDE DEF K
    <3>8. \A i \in 1..Len(waitT) : waitT[i] # n
      BY <1>6, <3>2
    <3>9. Free(n, K, waitT, <<>>)
      <4>1. 1..Len(<<>>) = {}
        OBVIOUS
      <4>2. QED  BY <3>7, <3>8, <4>1, Zenon DEF Free
    <3>10. waitT' \in Seq(AwaitsTeardown') /\ waitI' \in Seq(AwaitsInit') /\ waitT' = waitT
      BY <1>1, <1>6
    <3>11. QED  BY <1>1, <1>8, <3>1, <3>3, <3>9, <3>10, RunsNew DEF R
  <2>2. CASE ~(queue # <<>> /\ pc[n] = "closing")
    <3>1. jobs' = K \o <<>>
      BY <1>0, <2>2 DEF ShutdownReaped
    <3> HIDE DEF K, R
    <3>2. jobs' = K
      BY <1>8, <3>1, ConcatEmptySeq
    <3>3. waitT' \in Seq(AwaitsTeardown') /\ waitI' \in Seq(AwaitsInit') /\ waitT' = waitT
      BY <1>1, <1>6
    <3>4. QED  BY <1>1, <1>8, <3>2, <3>3, PlacedAs DEF R
  <2>3. QED  BY <2>1, <2>2
<1>10. Order'
  BY <1>1, <1>3, NoneReady DEF workerVars
<1>11. QED  BY <1>4, <1>9, <1>10, Whole

LEMMA ShutdownEndInv == ASSUME IInv, ShutdownEnd PROVE IInv'
<1>1. /\ jobs = <<>> /\ queue = <<>>
      /\ shut \in {"draining", "failing"} /\ shut' \in {"done", "failed"}
      /\ Scalars /\ Placed /\ Line /\ OneCheck /\ Group /\ Shut
      /\ UNCHANGED <<closed, workerVars, queue, pc, verdict, cancelled, jobVars>>
  BY DEF ShutdownEnd, Quiet, IInv
<1>2. Rest'
  <2>1. Scalars' /\ OneCheck'
    BY <1>1 DEF Scalars, OneCheck, workerVars
  <2>2. Line'
    BY <1>1 DEF Line, Outstanding, workerVars
  <2>3. Group'
    BY <1>1 DEF Group, OneGroup, OwnProfile, workerVars, jobVars
  <2>4. Shut'
    BY <1>1 DEF Shut, workerVars
  <2>5. QED  BY <2>1, <2>2, <2>3, <2>4 DEF Rest
<1>3. Placed'
  <2>1. AwaitsTeardown \subseteq AwaitsTeardown' /\ AwaitsInit \subseteq AwaitsInit'
    BY <1>1 DEF AwaitsTeardown, AwaitsInit, workerVars
  <2>2. QED  BY <1>1, <2>1, Quietly, EmptySeq, PlacedAs DEF jobVars
<1>4. Order'
  <2>1. 1..Len(<<>>) = {}
    OBVIOUS
  <2>2. QED  BY <1>1, <2>1 DEF Order, jobVars
<1>5. QED  BY <1>2, <1>3, <1>4, Whole

LEMMA InitInv == Init => IInv
<1> SUFFICES ASSUME Init PROVE IInv
  OBVIOUS
<1>1. 1..Len(<<>>) = {} /\ Len(<<>>) = 0
  OBVIOUS
<1>2. Scalars
  <2>1. /\ closed \in BOOLEAN /\ shut = "no" /\ generation \in Nat /\ ready \in BOOLEAN
        /\ profile = "none" /\ pending = Nobody /\ teardown = "done" /\ cancelled \in SUBSET Requests
    BY DEF Init
  <2>2. /\ worker \in 0..generation /\ init \in {0, worker} /\ dying \in 0..generation
        /\ live \in SUBSET (1..generation)
    BY DEF Init
  <2>3. pc \in [Callers -> Steps]
    BY DEF Init, Steps
  <2>4. verdict \in [Requests -> Verdicts]
    BY DEF Init, Verdicts
  <2>5. QED  BY <2>1, <2>2, <2>3, <2>4 DEF Scalars
<1>3. Placed
  <2>1. jobs = <<>> /\ waitT = <<>> /\ waitI = <<>>
    BY DEF Init
  <2>2. Once(jobs, waitT, waitI)
    BY <1>1, <2>1, Zenon DEF Once
  <2>3. QED  BY <2>1, <2>2, EmptySeq DEF Placed
<1>4. Line
  <2>1. queue = <<>> /\ queue \in Seq(Outstanding) /\ pending = Nobody
    BY EmptySeq DEF Init
  <2>2. \A r \in Requests : pc[r] = "idle"
    BY DEF Init, Callers
  <2>3. QED  BY <1>1, <2>1, <2>2 DEF Line
<1>5. OneCheck
  BY DEF Init, OneCheck, Callers
<1>6. Group
  BY DEF Init, Group, OneGroup, OwnProfile
<1>7. Shut
  BY DEF Init, Shut
<1>8. Order
  BY DEF Init, Order, MayReplace
<1>9. QED  BY <1>2, <1>3, <1>4, <1>5, <1>6, <1>7, <1>8 DEF IInv

LEMMA NextInv == IInv /\ [Next]_vars => IInv'
<1> SUFFICES ASSUME IInv, [Next]_vars PROVE IInv'
  OBVIOUS
<1>1. ASSUME Tick PROVE IInv'
  BY <1>1, TickInv
<1>2. ASSUME ShutdownReaped PROVE IInv'
  BY <1>2, ShutdownReapedInv
<1>3. ASSUME NEW c \in Callers, Start(c) PROVE IInv'
  BY <1>3, StartRefusedInv, StartFindsInv, StartJoinsInv, StartSwitchesInv, StartForksInv,
     StartOwnsInv, StartAgainInv, StartReturnsInv DEF Start
<1>4. ASSUME NEW r \in Requests,
             SendBegin(r) \/ StartExpires(r) \/ SendExpires(r) \/ Send(r)
               \/ SendCatch(r) \/ SendThrows(r)
      PROVE  IInv'
  BY <1>4, SendBeginInv, StartExpiresInv, SendExpiresInv, SendInv, SendCatchInv, SendThrowsInv
<1>5. ASSUME NEW r \in Requests, Enqueue(r) \/ Cancel(r) PROVE IInv'
  BY <1>5, EnqueueInv, CancelQueuedInv, CancelStartingInv, CancelWorkingInv DEF Cancel
<1>6. ASSUME NEW c \in Checks, Initialize(c) PROVE IInv'
  BY <1>6, InitializeInv
<1>7. ASSUME Ready \/ Result \/ WorkerFails PROVE IInv'
  BY <1>7, ReadyInv, ResultInv, WorkerFailsInv
<1>8. ASSUME NEW proven \in BOOLEAN, Reaped(proven) PROVE IInv'
  BY <1>8, ReapedInv
<1>9. ASSUME ShutdownBegin \/ ShutdownEnd PROVE IInv'
  BY <1>9, ShutdownBeginInv, ShutdownEndInv
<1>10. ASSUME UNCHANGED vars PROVE IInv'
  <2>1. /\ cancelled' \subseteq Requests
        /\ UNCHANGED <<closed, shut, workerVars, queue, pc, verdict, jobVars>>
    BY <1>10 DEF vars, IInv, Scalars
  <2>2. QED  BY <2>1, SameInv
<1>11. QED  BY <1>1, <1>2, <1>3, <1>4, <1>5, <1>6, <1>7, <1>8, <1>9, <1>10 DEF Next, Continuation

LEMMA Invariance == Spec => []IInv
<1>1. Init => IInv
  BY InitInv
<1>2. IInv /\ [Next]_vars => IInv'
  BY NextInv
<1>3. QED  BY <1>1, <1>2, PTL DEF Spec

-----------------------------------------------------------------------------
\* Theorems

\* Every variable has its shape, and only the request at the head of the tail is
\* anywhere between its turn and its answer (enqueue(), send()).
THEOREM TailSerializes == Spec => []TypeOK
<1>1. IInv => TypeOK
  <2> SUFFICES ASSUME IInv PROVE TypeOK
    OBVIOUS
  <2>1. Scalars /\ Placed /\ Line
    BY DEF IInv
  <2>2. jobs \in Seq(Job)
    <3>1. jobs \in Seq(Runnable) /\ Runnable \subseteq Job
      BY <2>1 DEF Placed, Runnable
    <3>2. QED  BY <3>1, SeqMonotonic
  <2>3. waitT \in Seq(Callers \cup {"shutdown"}) /\ waitI \in Seq(Callers)
    <3>1. AwaitsTeardown \subseteq Callers \cup {"shutdown"} /\ AwaitsInit \subseteq Callers
      BY DEF AwaitsTeardown, AwaitsInit
    <3>2. waitT \in Seq(AwaitsTeardown) /\ waitI \in Seq(AwaitsInit)
      BY <2>1 DEF Placed
    <3>3. QED  BY <3>1, <3>2, SeqMonotonic
  <2>4. queue \in Seq(Requests)
    <3>1. Outstanding \subseteq Requests /\ queue \in Seq(Outstanding)
      BY <2>1 DEF Outstanding, Line
    <3>2. QED  BY <3>1, SeqMonotonic
  <2>5. \A r \in Requests :
           pc[r] \notin {"idle", "queued", "done"} => queue # <<>> /\ r = Head(queue)
    BY <2>1 DEF Line
  <2>6. QED  BY <2>1, <2>2, <2>3, <2>4, <2>5 DEF TypeOK, Scalars
<1>2. QED  BY <1>1, Invariance, PTL

\* Never two process groups: start() forks only when every earlier group has been
\* proven absent, whatever failed, was cancelled, was switched or shut down.
THEOREM NeverAPool == Spec => []OneGroup
<1>1. IInv => OneGroup
  BY DEF IInv, Group
<1>2. QED  BY <1>1, Invariance, PTL

\* A request is at work on a live, ready worker of its own profile; no health check
\* that start() lets run replaces that worker under it (start(), send()).
THEOREM WorksUnderItsProfile == Spec => []OwnProfile
<1>1. IInv => OwnProfile
  BY DEF IInv, Group
<1>2. QED  BY <1>1, Invariance, PTL

\* A request whose worker was discarded is answered only when no discarded group is
\* left, or told that this is unproven (send()'s catch, failActive(), shutdown()).
THEOREM AnsweredAfterReaping == Spec => ReapedBeforeReported
<1> DEFINE Reported ==
      \A r \in Requests :
          pc[r] \in {"reaping", "closing", "caught"} /\ pc'[r] = "done"
             => live \subseteq {worker} \/ verdict'[r] = "unproven"
<1>1. IInv /\ [Next]_vars => [Reported]_vars
  <2> SUFFICES ASSUME IInv, Next, NEW r \in Requests,
                      pc[r] \in {"reaping", "closing", "caught"}, pc'[r] = "done"
               PROVE  live \subseteq {worker} \/ verdict'[r] = "unproven"
    BY DEF vars
  <2>1. /\ r \in Callers /\ pc \in [Callers -> Steps] /\ verdict \in [Requests -> Verdicts]
        /\ r \notin Checks /\ pc'[r] # pc[r]
    BY CallerAssumption DEF IInv, Scalars, Callers
  <2>2. ASSUME NEW d \in Callers, pc[d] \notin {"reaping", "closing", "caught"},
               \A e \in Callers : e # d => pc'[e] = pc[e]
        PROVE  FALSE
    BY <2>1, <2>2
  <2>3. ASSUME NEW d \in Callers, Start(d) PROVE FALSE
    <3>1. pc[d] \in Starting
      BY <2>3 DEF Start, StartRefused, StartFinds, StartJoins, StartSwitches, StartForks,
                  StartOwns, StartAgain, StartReturns, Turn, Starting
    <3>2. PICK s : pc' = [pc EXCEPT ![d] = s]
      BY <2>3 DEF Start, StartRefused, StartFinds, StartJoins, StartSwitches, StartForks,
                  StartOwns, StartAgain, StartReturns, Throw, AwaitTeardown
    <3>3. QED  BY <2>1, <2>2, <3>1, <3>2 DEF Starting
  <2>4. ASSUME NEW q \in Requests, SendBegin(q) \/ StartExpires(q) \/ SendExpires(q) \/ Send(q)
                                     \/ SendCatch(q) \/ Enqueue(q) \/ CancelStarting(q)
        PROVE  FALSE
    <3>1. pc[q] \in {"idle", "queued", "thrown"} \cup Starting /\ q \in Callers
      BY <2>4 DEF SendBegin, StartExpires, SendExpires, Send, SendCatch, Enqueue, CancelStarting,
                  Turn, Starting, Callers
    <3>2. PICK s : pc' = [pc EXCEPT ![q] = s]
      BY <2>4 DEF SendBegin, StartExpires, SendExpires, Send, SendCatch, Enqueue, CancelStarting,
                  Answer, Throw, AwaitTeardown
    <3>3. QED  BY <2>1, <2>2, <3>1, <3>2 DEF Starting
  <2>5. ASSUME NEW q \in Checks, Initialize(q) PROVE FALSE
    <3>1. pc[q] = "idle" /\ q \in Callers
      BY <2>5 DEF Initialize, Callers
    <3>2. PICK s : pc' = [pc EXCEPT ![q] = s]
      BY <2>5 DEF Initialize, AwaitTeardown
    <3>3. QED  BY <2>1, <2>2, <3>1, <3>2
  <2>6. ASSUME Result PROVE FALSE
    <3>1. pending \in Callers /\ pc[pending] = "working" /\ pc' = [pc EXCEPT ![pending] = "done"]
      BY <2>6 DEF Result, Answer, IInv, Scalars, Line, Callers
    <3>2. QED  BY <2>1, <2>2, <3>1
  <2>7. ASSUME \/ WorkerFails \/ ShutdownBegin \/ \E q \in Requests : CancelWorking(q)
        PROVE  FALSE
    <3>1. PICK s \in {"reaping", "closing"} :
             pc' = pc \/ pc' = [pc EXCEPT ![pending] = s]
      BY <2>7 DEF WorkerFails, ShutdownBegin, CancelWorking, FailActive
    <3>2. QED  BY <2>1, <3>1
  <2>8. ASSUME pc' = pc PROVE FALSE
    BY <2>1, <2>8
  <2>9. PICK q \in Requests : SendThrows(q)
    BY <2>3, <2>4, <2>5, <2>6, <2>7, <2>8
    DEF Next, Continuation, Cancel, Tick, ShutdownReaped, CancelQueued, Ready, Reaped, ShutdownEnd
  <2>10. q = r
    BY <2>1, <2>9 DEF SendThrows, Answer
  <2>11. /\ MayRun(r, Head(jobs).ok) /\ Head(jobs) \in Job
         /\ verdict'[r] = IF Head(jobs).ok THEN verdict[r] ELSE "unproven"
    <3>1. jobs # <<>> /\ r = Head(jobs).c
      BY <2>9, <2>10 DEF SendThrows, Turn, Quiet
    <3>2. QED  BY <2>1, <2>9, <2>10, <3>1, Running DEF SendThrows, Answer
  <2>12. QED  BY <2>11 DEF MayRun, Job, IInv, Group
<1>2. QED  BY <1>1, Invariance, PTL DEF Spec, ReapedBeforeReported

\* Once shutdown() has begun nothing is forked, and when it has resolved no worker
\* and no request is left (closed in start(), the await of tail in shutdown()).
THEOREM ShutdownEndsAll == Spec => ShutdownIsFinal
<1>1. IInv /\ IInv' /\ [Next]_vars =>
        [closed => generation' = generation
                 /\ (shut' = "done" => worker' = 0 /\ queue' = <<>>)]_vars
  <2> SUFFICES ASSUME IInv, IInv', Next, closed
               PROVE  /\ generation' = generation
                      /\ shut' = "done" => worker' = 0 /\ queue' = <<>>
    BY DEF vars
  <2>1. generation' = generation
    BY DEF Next, Continuation, Start, Cancel, Tick, ShutdownReaped, StartRefused, StartFinds,
           StartJoins, StartSwitches, StartForks, StartOwns, StartAgain, StartReturns, Refused,
           SendBegin, StartExpires, SendExpires, Send, SendCatch, SendThrows, Enqueue,
           CancelQueued, CancelStarting, CancelWorking, Initialize, Ready, Result, WorkerFails,
           Reaped, ShutdownBegin, ShutdownEnd, workerVars
  <2>2. shut' = "done" => worker' = 0 /\ queue' = <<>>
    BY DEF IInv, Shut
  <2>3. QED  BY <2>1, <2>2
<1>2. QED  BY <1>1, Invariance, PTL DEF Spec, ShutdownIsFinal

-----------------------------------------------------------------------------
\* Nobody is forgotten: where a continuation goes

LEMMA RunsTail ==
    ASSUME NEW S, NEW J \in Seq(S), J # <<>>, NEW d, d # Head(J).c, Runs(d, J)
    PROVE  Runs(d, Tail(J))
<1>1. PICK i \in 1..Len(J) : J[i].c = d
  BY DEF Runs
<1>2. i - 1 \in 1..Len(Tail(J)) /\ Tail(J)[i - 1] = J[i]
  BY <1>1, TailIndex
<1>3. QED  BY <1>1, <1>2 DEF Runs

LEMMA RunsJoin ==
    ASSUME NEW S, NEW p \in Seq(S), NEW q \in Seq(S), NEW d, Runs(d, p) \/ Runs(d, q)
    PROVE  Runs(d, p \o q)
<1>0. Len(p) \in Nat /\ Len(q) \in Nat
  OBVIOUS
<1>1. /\ Len(p \o q) = Len(p) + Len(q)
      /\ \A i \in 1..(Len(p) + Len(q)) : (p \o q)[i] = IF i <= Len(p) THEN p[i] ELSE q[i - Len(p)]
  BY ConcatProperties, Zenon
<1>2. CASE Runs(d, p)
  <2>1. PICK i \in 1..Len(p) : p[i].c = d
    BY <1>2 DEF Runs
  <2>2. i \in 1..Len(p \o q) /\ (p \o q)[i] = p[i]
    BY <1>0, <1>1, <2>1
  <2>3. QED  BY <2>1, <2>2 DEF Runs
<1>3. CASE Runs(d, q)
  <2>1. PICK i \in 1..Len(q) : q[i].c = d
    BY <1>3 DEF Runs
  <2>2. Len(p) + i \in 1..Len(p \o q) /\ (p \o q)[Len(p) + i] = q[i]
    <3>1. /\ Len(p) + i \in 1..(Len(p) + Len(q)) /\ ~(Len(p) + i <= Len(p))
          /\ (Len(p) + i) - Len(p) = i
      BY <1>0
    <3>2. QED  BY <1>1, <3>1
  <2>3. QED  BY <2>1, <2>2 DEF Runs
<1>4. QED  BY <1>2, <1>3

LEMMA RunsOne == ASSUME NEW c, NEW ok, NEW k PROVE Runs(c, Continue(c, ok, k))
<1> DEFINE t == [c |-> c, ok |-> ok, ticks |-> k]
<1>1. Continue(c, ok, k) = <<t>> /\ t.c = c
  BY DEF Continue
<1> HIDE DEF t
<1>2. 1 \in 1..Len(<<t>>) /\ <<t>>[1] = t
  OBVIOUS
<1>3. QED  BY <1>1, <1>2 DEF Runs

LEMMA RunsWake ==
    ASSUME NEW X, NEW W \in Seq(X), NEW ok, NEW d, Waits(d, W) # {}
    PROVE  Runs(d, Wake(W, ok))
<1>1. PICK i \in 1..Len(W) : W[i] = d
  BY DEF Waits
<1>2. i \in 1..Len(Wake(W, ok)) /\ Wake(W, ok)[i].c = d
  BY <1>1, WakeIndex
<1>3. QED  BY <1>2 DEF Runs

LEMMA WaitsAdd ==
    ASSUME NEW X, NEW W \in Seq(X), NEW c \in X, NEW d, Waits(d, W) # {} \/ d = c
    PROVE  Waits(d, Append(W, c)) # {}
<1>1. /\ Len(Append(W, c)) = Len(W) + 1 /\ Len(W) \in Nat
      /\ \A i \in 1..Len(W) : Append(W, c)[i] = W[i]
      /\ Append(W, c)[Len(W) + 1] = c
  BY AddIndex
<1>2. QED  BY <1>1 DEF Waits

LEMMA WaitsOthers ==
    ASSUME NEW X, NEW W \in Seq(X), NEW c, NEW d, d # c, Waits(d, W) # {}
    PROVE  Waits(d, Others(W, c)) # {}
<1>1. CASE Waits(c, W) = {}
  BY <1>1 DEF Others
<1>2. CASE Waits(c, W) # {}
  <2> DEFINE k == CHOOSE j \in Waits(c, W) : TRUE
             before == SubSeq(W, 1, k - 1)
             after == SubSeq(W, k + 1, Len(W))
  <2>1. k \in 1..Len(W) /\ W[k] = c /\ Others(W, c) = before \o after
    BY <1>2 DEF Others, Waits
  <2>2. PICK i \in 1..Len(W) : W[i] = d
    BY DEF Waits
  <2> HIDE DEF k
  <2>3. k \in Int /\ 1 <= k /\ k <= Len(W) /\ Len(W) \in Nat /\ i # k
    BY <2>1, <2>2
  <2>4. before \in Seq(X) /\ Len(before) = k - 1 /\ \A j \in 1..(k - 1) : before[j] = W[j]
    BY <2>3
  <2>5. /\ after \in Seq(X) /\ Len(after) = Len(W) - k
        /\ \A j \in 1..(Len(W) - k) : after[j] = W[k + j]
    BY <2>3
  <2> HIDE DEF before, after
  <2>6. /\ Len(before \o after) = Len(before) + Len(after)
        /\ \A j \in 1..(Len(before) + Len(after)) :
              (before \o after)[j] = IF j <= Len(before) THEN before[j] ELSE after[j - Len(before)]
    BY <2>4, <2>5, ConcatProperties, Zenon
  <2>7. CASE i < k
    <3>1. i \in 1..(Len(before) + Len(after)) /\ i <= Len(before) /\ before[i] = d
      BY <2>2, <2>3, <2>4, <2>5, <2>7
    <3>2. i \in 1..Len(before \o after) /\ (before \o after)[i] = d
      BY <2>6, <3>1
    <3>3. QED  BY <2>1, <3>2 DEF Waits
  <2>8. CASE i > k
    <3>1. /\ i - 1 \in 1..(Len(before) + Len(after)) /\ ~(i - 1 <= Len(before))
          /\ (i - 1) - Len(before) = i - k /\ i - k \in 1..(Len(W) - k) /\ k + (i - k) = i
      BY <2>2, <2>3, <2>4, <2>5, <2>8
    <3>2. after[i - k] = d
      BY <2>2, <2>5, <3>1
    <3>3. i - 1 \in 1..Len(before \o after) /\ (before \o after)[i - 1] = d
      BY <2>6, <3>1, <3>2
    <3>4. QED  BY <2>1, <3>3 DEF Waits
  <2>9. QED  BY <2>2, <2>3, <2>7, <2>8
<1>3. QED  BY <1>1, <1>2

\* Nobody runs or waits in an empty place.
LEMMA NobodyThere == ASSUME NEW d PROVE ~Runs(d, <<>>) /\ Waits(d, <<>>) = {}
<1>1. 1..Len(<<>>) = {}
  OBVIOUS
<1>2. QED  BY <1>1 DEF Runs, Waits

LEMMA ContinueSeq ==
    ASSUME NEW c \in Callers \cup {"shutdown"}, NEW k \in 0..3
    PROVE  Continue(c, TRUE, k) \in Seq(Job)
<1>1. PICK ok \in BOOLEAN : ok = TRUE
  OBVIOUS
<1>2. [c |-> c, ok |-> ok, ticks |-> k] \in Job
  BY DEF Job
<1>3. Continue(c, ok, k) \in Seq(Job)
  BY <1>2 DEF Continue
<1>4. QED  BY <1>1, <1>3, Zenon

-----------------------------------------------------------------------------
\* Nobody is forgotten: what the steps leave behind

\* Whoever waits or is ready, c apart, still does or is.
StillThere(c) ==
    \A d \in Callers \cup {"shutdown"} : d # c =>
        /\ Runs(d, jobs) => Runs(d, jobs')
        /\ Waits(d, waitT) # {} => Waits(d, waitT') # {} \/ Runs(d, jobs')
        /\ Waits(d, waitI) # {} => Waits(d, waitI') # {} \/ Runs(d, jobs')

\* c itself, at its next step, is not forgotten.
Follows(c, s) ==
    /\ s \in Starting \cup {"thrown", "caught", "reaping"} =>
           Runs(c, jobs') \/ Waits(c, waitT') # {} \/ Waits(c, waitI') # {}
    /\ s \notin {"queued", "closing"}
    /\ s = "working" => pending' = c
    /\ s \in Starting \cup {"working"} => c \notin cancelled'

\* The waiting rooms are open.
Rooms ==
    /\ waitT # <<>> => teardown = "pending"
    /\ waitI # <<>> => init # 0 \/ shut = "tearing"

\* A step of one caller.
LEMMA StepRemembers ==
    ASSUME IInv, NobodyForgotten, NEW c \in Callers, NEW s \in Steps,
           pc' = [pc EXCEPT ![c] = s], StillThere(c), Follows(c, s), Rooms',
           UNCHANGED <<shut, queue>>, cancelled' \subseteq cancelled \cup {c},
           \A r \in Requests : r # c /\ pc[r] = "working" => pending' = pending
    PROVE  NobodyForgotten'
<1>1. pc'[c] = s /\ \A d \in Callers : d # c => pc'[d] = pc[d]
  BY DEF IInv, Scalars
<1>2. ASSUME NEW d \in Callers, pc'[d] \in Starting \cup {"thrown", "caught", "reaping"}
      PROVE  Runs(d, jobs') \/ Waits(d, waitT') # {} \/ Waits(d, waitI') # {}
  <2>1. CASE d = c
    BY <1>1, <1>2, <2>1 DEF Follows
  <2>2. CASE d # c
    BY <1>1, <1>2, <2>2 DEF StillThere, NobodyForgotten
  <2>3. QED  BY <2>1, <2>2
<1>3. ASSUME NEW r \in Requests
      PROVE  /\ pc'[r] = "queued" =>
                    \E i \in 1..Len(queue) : queue[i] = r /\ (i = 1 => Runs(r, jobs'))
             /\ pc'[r] = "working" => pending' = r
             /\ pc'[r] \in Starting \cup {"working"} => r \notin cancelled'
             /\ pc'[r] = "closing" => shut = "tearing" \/ Runs(r, jobs')
  <2>0. r \in Callers
    BY DEF Callers
  <2>1. CASE r = c
    BY <1>1, <2>1 DEF Follows
  <2>2. CASE r # c
    <3>1. pc'[r] = pc[r] /\ (Runs(r, jobs) => Runs(r, jobs'))
      BY <1>1, <2>0, <2>2 DEF StillThere
    <3>2. QED  BY <2>2, <3>1 DEF NobodyForgotten
  <2>3. QED  BY <2>1, <2>2
<1>4. shut = "tearing" => Runs("shutdown", jobs') \/ Waits("shutdown", waitT') # {}
  BY CallerAssumption DEF StillThere, NobodyForgotten, Callers
<1>5. QED  BY <1>2, <1>3, <1>4 DEF NobodyForgotten, Rooms

\* The continuation at the head runs and only appends.
LEMMA TurnLeaves ==
    ASSUME IInv, jobs # <<>>, NEW c, c = Head(jobs).c,
           \A d : d # c => /\ Runs(d, Tail(jobs)) => Runs(d, jobs')
                           /\ Waits(d, waitT) # {} => Waits(d, waitT') # {}
                           /\ Waits(d, waitI) # {} => Waits(d, waitI') # {}
    PROVE  StillThere(c)
<1>1. jobs \in Seq(Runnable)
  BY DEF IInv, Placed
<1>2. QED  BY <1>1, RunsTail DEF StillThere

\* It becomes ready once more.
LEMMA RunsOn ==
    ASSUME IInv, jobs # <<>>, NEW c \in Callers \cup {"shutdown"}, c = Head(jobs).c,
           NEW ok \in BOOLEAN, NEW k \in 0..3, jobs' = Tail(jobs) \o Continue(c, ok, k),
           UNCHANGED <<waitT, waitI>>
    PROVE  StillThere(c) /\ Runs(c, jobs')
<1>1. jobs \in Seq(Runnable) /\ Runnable \subseteq Job
  BY DEF IInv, Placed, Runnable
<1>2. Tail(jobs) \in Seq(Job) /\ Continue(c, ok, k) \in Seq(Job)
  <2>1. Tail(jobs) \in Seq(Runnable)
    BY <1>1, TailIndex
  <2>2. [c |-> c, ok |-> ok, ticks |-> k] \in Job
    BY DEF Job
  <2>3. Continue(c, ok, k) \in Seq(Job)
    BY <2>2 DEF Continue
  <2>4. QED  BY <1>1, <2>1, <2>3, SeqMonotonic
<1>3. \A d : Runs(d, Tail(jobs)) => Runs(d, jobs')
  BY <1>2, RunsJoin
<1>4. Runs(c, jobs')
  BY <1>2, RunsOne, RunsJoin
<1>5. QED  BY <1>3, <1>4, TurnLeaves

\* It waits for the teardown or for an initialization.
LEMMA WaitsOn ==
    ASSUME IInv, jobs # <<>>, NEW c \in Callers, c = Head(jobs).c, jobs' = Tail(jobs),
           \/ waitT' = Append(waitT, c) /\ waitI' = waitI
           \/ waitI' = Append(waitI, c) /\ waitT' = waitT
    PROVE  StillThere(c) /\ (Waits(c, waitT') # {} \/ Waits(c, waitI') # {})
<1>1. waitT \in Seq(Callers \cup {"shutdown"}) /\ waitI \in Seq(Callers \cup {"shutdown"})
  <2>1. waitT \in Seq(AwaitsTeardown) /\ waitI \in Seq(AwaitsInit)
    BY DEF IInv, Placed
  <2>2. /\ AwaitsTeardown \subseteq Callers \cup {"shutdown"}
        /\ AwaitsInit \subseteq Callers \cup {"shutdown"}
    BY DEF AwaitsTeardown, AwaitsInit
  <2>3. QED  BY <2>1, <2>2, SeqMonotonic
<1>2. \A d : /\ Waits(d, waitT) # {} => Waits(d, waitT') # {}
             /\ Waits(d, waitI) # {} => Waits(d, waitI') # {}
  BY <1>1, WaitsAdd
<1>3. Waits(c, waitT') # {} \/ Waits(c, waitI') # {}
  BY <1>1, WaitsAdd
<1>4. QED  BY <1>2, <1>3, TurnLeaves

\* It is over.
LEMMA RunsOut ==
    ASSUME IInv, jobs # <<>>, NEW c, c = Head(jobs).c, jobs' = Tail(jobs),
           UNCHANGED <<waitT, waitI>>
    PROVE  StillThere(c)
BY TurnLeaves

-----------------------------------------------------------------------------
\* Nobody is forgotten: start() and send()

LEMMA TickRemembers == ASSUME IInv, NobodyForgotten, Tick PROVE NobodyForgotten'
<1>1. PICK t \in Job : t = [Head(jobs) EXCEPT !.ticks = @ - 1]
  <2>1. Head(jobs) \in Job /\ Head(jobs).ticks > 0
    BY TailIndex DEF IInv, Placed, Runnable, Tick, Quiet
  <2>2. [Head(jobs) EXCEPT !.ticks = @ - 1] \in Job
    BY <2>1 DEF Job
  <2>3. QED  BY <2>2
<1>2. /\ jobs # <<>> /\ Head(jobs) \in Job /\ jobs \in Seq(Runnable) /\ Runnable \subseteq Job
      /\ t.c = Head(jobs).c
  BY <1>1, TailIndex DEF Tick, Quiet, IInv, Placed, Runnable, Job
<1>3. /\ jobs' = Append(Tail(jobs), t)
      /\ UNCHANGED <<closed, shut, workerVars, queue, pc, verdict, cancelled, waitT, waitI>>
  BY <1>1 DEF Tick
<1>4. Tail(jobs) \in Seq(Job) /\ <<t>> \in Seq(Job) /\ jobs' = Tail(jobs) \o <<t>>
  <2>1. Tail(jobs) \in Seq(Runnable)
    BY <1>2, TailIndex
  <2>2. Tail(jobs) \in Seq(Job)
    BY <1>2, <2>1, SeqMonotonic
  <2>3. QED  BY <1>3, <2>2
<1>5. \A d : Runs(d, Tail(jobs)) \/ Runs(d, <<t>>) => Runs(d, jobs')
  BY <1>4, RunsJoin
<1>6. Runs(t.c, <<t>>)
  BY DEF Runs
<1>7. \A d : Runs(d, jobs) => Runs(d, jobs')
  BY <1>2, <1>5, <1>6, RunsTail
<1>8. QED  BY <1>3, <1>7, Zenon DEF NobodyForgotten, workerVars

LEMMA ThrowRemembers ==
    ASSUME IInv, NobodyForgotten, jobs # <<>>, NEW c \in Callers, c = Head(jobs).c, NEW v,
           Throw(c, v, Tail(jobs)), cancelled' \subseteq cancelled \cup {c},
           UNCHANGED <<closed, shut, workerVars, queue, waitT, waitI>>
    PROVE  NobodyForgotten'
<1>1. Rooms'
  BY DEF Rooms, NobodyForgotten, workerVars
<1>2. CASE c \in Requests
  <2>1. /\ pc' = [pc EXCEPT ![c] = "thrown"] /\ jobs' = Tail(jobs) \o Continue(c, TRUE, 1)
        /\ "thrown" \in Steps /\ pending' = pending
    BY <1>2 DEF Throw, Steps, workerVars
  <2>2. PICK ok \in BOOLEAN : ok = TRUE
    OBVIOUS
  <2>3. StillThere(c) /\ Runs(c, jobs')
    <3>1. jobs' = Tail(jobs) \o Continue(c, ok, 1) /\ waitT' = waitT /\ waitI' = waitI
      BY <2>1, <2>2, Zenon
    <3>2. 1 \in 0..3
      OBVIOUS
    <3>3. QED  BY <3>1, <3>2, RunsOn, Zenon
  <2>4. Follows(c, "thrown")
    BY <2>3 DEF Follows, Starting
  <2>5. QED  BY <1>1, <2>1, <2>3, <2>4, StepRemembers
<1>3. CASE c \notin Requests
  <2>1. /\ pc' = [pc EXCEPT ![c] = "done"] /\ jobs' = Tail(jobs)
        /\ "done" \in Steps /\ pending' = pending
    BY <1>3 DEF Throw, Steps, workerVars
  <2>2. Follows(c, "done")
    BY DEF Follows, Starting
  <2>3. QED  BY <1>1, <2>1, <2>2, RunsOut, StepRemembers
<1>4. QED  BY <1>2, <1>3

LEMMA AwaitRemembers ==
    ASSUME IInv, NobodyForgotten, jobs # <<>>, NEW c \in Callers, c = Head(jobs).c,
           NEW s \in {"start", "caught"}, AwaitTeardown(c, s, Tail(jobs)),
           s = "start" => c \notin cancelled,
           UNCHANGED <<closed, shut, workerVars, queue, cancelled, waitI>>
    PROVE  NobodyForgotten'
<1>1. pc' = [pc EXCEPT ![c] = s] /\ s \in Steps /\ pending' = pending
  BY DEF AwaitTeardown, Steps, Starting, workerVars
<1>2. StillThere(c) /\ (Runs(c, jobs') \/ Waits(c, waitT') # {} \/ Waits(c, waitI') # {}) /\ Rooms'
  <2>1. CASE teardown = "pending"
    <3>1. waitT' = Append(waitT, c) /\ jobs' = Tail(jobs)
      BY <2>1 DEF AwaitTeardown
    <3>2. Rooms'
      BY <2>1 DEF Rooms, NobodyForgotten, workerVars
    <3>3. QED  BY <3>1, <3>2, WaitsOn
  <2>2. CASE teardown # "pending"
    <3>1. PICK ok \in BOOLEAN : ok = (teardown = "done")
      OBVIOUS
    <3>2. waitT' = waitT /\ jobs' = Tail(jobs) \o Continue(c, ok, 0)
      BY <2>2, <3>1 DEF AwaitTeardown
    <3>3. Rooms'
      BY <3>2 DEF Rooms, NobodyForgotten, workerVars
    <3>4. QED  BY <3>2, <3>3, RunsOn
  <2>3. QED  BY <2>1, <2>2
<1>3. Follows(c, s)
  BY <1>2 DEF Follows, Starting
<1>4. QED  BY <1>1, <1>2, <1>3, StepRemembers

\* start() returns, to send() or to the health check.
LEMMA ReturnRemembers ==
    ASSUME IInv, NobodyForgotten, jobs # <<>>, NEW c \in Callers, c = Head(jobs).c,
           pc[c] \in Starting,
           pc' = [pc EXCEPT ![c] = IF c \in Requests THEN "started" ELSE "done"],
           jobs' = Tail(jobs) \o (IF c \in Requests THEN Continue(c, TRUE, 1) ELSE <<>>),
           UNCHANGED <<closed, shut, workerVars, queue, cancelled, waitT, waitI>>
    PROVE  NobodyForgotten'
<1>1. Rooms' /\ pending' = pending
  BY DEF Rooms, NobodyForgotten, workerVars
<1>2. CASE c \in Requests
  <2>1. PICK ok \in BOOLEAN : ok = TRUE
    OBVIOUS
  <2>2. StillThere(c) /\ Runs(c, jobs')
    <3>1. jobs' = Tail(jobs) \o Continue(c, ok, 1) /\ waitT' = waitT /\ waitI' = waitI
      BY <1>2, <2>1, Zenon
    <3>2. 1 \in 0..3
      OBVIOUS
    <3>3. QED  BY <3>1, <3>2, RunsOn
  <2>3. Follows(c, "started")
    BY <1>2, <2>2 DEF Follows, Starting, NobodyForgotten
  <2>4. "started" \in Steps /\ pc' = [pc EXCEPT ![c] = "started"]
    BY <1>2 DEF Steps, Starting
  <2>5. QED  BY <1>1, <2>2, <2>3, <2>4, StepRemembers
<1>3. CASE c \notin Requests
  <2>1. Follows(c, "done")
    BY DEF Follows, Starting
  <2>2. "done" \in Steps /\ pc' = [pc EXCEPT ![c] = "done"] /\ jobs' = Tail(jobs)
    <3>1. Tail(jobs) \in Seq(Runnable)
      BY TailIndex DEF IInv, Placed
    <3>2. jobs' = Tail(jobs) \o <<>>
      BY <1>3
    <3>3. QED  BY <1>3, <3>1, <3>2, ConcatEmptySeq DEF Steps
  <2>3. QED  BY <1>1, <2>1, <2>2, RunsOut, StepRemembers
<1>4. QED  BY <1>2, <1>3

LEMMA StartRemembers == ASSUME IInv, NobodyForgotten, NEW c \in Callers, Start(c) PROVE NobodyForgotten'
<1>0. pc[c] \in Starting => c \notin cancelled
  BY CallerAssumption DEF NobodyForgotten, IInv, Scalars, Callers
<1>1. CASE StartRefused(c)
  <2>1. jobs # <<>> /\ c = Head(jobs).c /\ cancelled' = cancelled
    BY <1>1, Headed DEF StartRefused
  <2>2. QED  BY <1>1, <2>1, ThrowRemembers DEF StartRefused
<1>2. CASE StartFinds(c)
  <2>1. jobs # <<>> /\ c = Head(jobs).c /\ pc[c] \in Starting
    BY <1>2, Headed DEF StartFinds, Starting
  <2>2. QED  BY <1>2, <2>1, ReturnRemembers DEF StartFinds
<1>3. CASE StartReturns(c)
  <2>1. jobs # <<>> /\ c = Head(jobs).c /\ pc[c] \in Starting
    BY <1>3, Headed DEF StartReturns, Starting
  <2>2. CASE Head(jobs).ok
    BY <1>3, <2>1, <2>2, ReturnRemembers DEF StartReturns
  <2>3. CASE ~Head(jobs).ok
    BY <1>3, <2>1, <2>3, ThrowRemembers DEF StartReturns
  <2>4. QED  BY <2>2, <2>3
<1>4. CASE StartJoins(c) \/ StartOwns(c)
  <2>1. PICK s \in {"init", "owner"} :
           /\ pc' = [pc EXCEPT ![c] = s] /\ jobs' = Tail(jobs) /\ waitI' = Append(waitI, c)
           /\ UNCHANGED <<closed, shut, workerVars, queue, verdict, cancelled, waitT>>
           /\ jobs # <<>> /\ c = Head(jobs).c /\ pc[c] \in Starting
    BY <1>4, Headed DEF StartJoins, StartOwns, Starting
  <2>2. init # 0 \/ shut = "tearing"
    <3>1. CASE StartJoins(c)
      BY <3>1 DEF StartJoins
    <3>2. CASE StartOwns(c)
      <4>1. pc[c] = "forked" /\ MayRun(c, Head(jobs).ok)
        BY <2>1, <3>2, Headed, Running DEF StartOwns
      <4>2. QED  BY <4>1 DEF MayRun
    <3>3. QED  BY <1>4, <3>1, <3>2
  <2>3. StillThere(c) /\ (Waits(c, waitT') # {} \/ Waits(c, waitI') # {})
    BY <2>1, WaitsOn
  <2>4. Rooms' /\ Follows(c, s) /\ pending' = pending /\ s \in Steps
    BY <1>0, <2>1, <2>2, <2>3 DEF Rooms, Follows, NobodyForgotten, Starting, Steps, workerVars
  <2>5. QED  BY <2>1, <2>3, <2>4, StepRemembers
<1>5. CASE StartForks(c)
  <2>1. /\ pc' = [pc EXCEPT ![c] = "forked"] /\ jobs' = Tail(jobs) \o Continue(c, TRUE, 0)
        /\ jobs # <<>> /\ c = Head(jobs).c /\ pc[c] = "start" /\ init' = generation + 1
        /\ UNCHANGED <<shut, pending, teardown, queue, cancelled, waitT, waitI>>
    BY <1>5, Headed DEF StartForks
  <2>2. PICK ok \in BOOLEAN : ok = TRUE
    OBVIOUS
  <2>3. StillThere(c) /\ Runs(c, jobs')
    <3>1. jobs' = Tail(jobs) \o Continue(c, ok, 0) /\ waitT' = waitT /\ waitI' = waitI
      BY <2>1, <2>2, Zenon
    <3>2. 0 \in 0..3
      OBVIOUS
    <3>3. QED  BY <2>1, <3>1, <3>2, RunsOn
  <2>4. Rooms'
    <3>1. init' # 0
      BY <2>1 DEF IInv, Scalars
    <3>2. QED  BY <2>1, <3>1 DEF Rooms, NobodyForgotten
  <2>5. Follows(c, "forked")
    BY <1>0, <2>1, <2>3 DEF Follows, Starting
  <2>6. "forked" \in Steps
    BY DEF Steps, Starting
  <2>7. QED  BY <2>1, <2>3, <2>4, <2>5, <2>6, StepRemembers
<1>6. CASE StartSwitches(c)
  <2>1. /\ pc' = [pc EXCEPT ![c] = "switch"] /\ jobs' = Tail(jobs) /\ worker # 0
        /\ jobs # <<>> /\ c = Head(jobs).c /\ pc[c] = "start" /\ teardown' = "pending"
        /\ waitT' = waitT \o <<c>>
        /\ UNCHANGED <<shut, init, pending, queue, cancelled, waitI>>
    BY <1>6, Headed DEF StartSwitches, Discard
  <2>2. waitT' = Append(waitT, c)
    <3>1. waitT \in Seq(AwaitsTeardown)
      BY DEF IInv, Placed
    <3>2. waitT \in Seq(AwaitsTeardown \cup {c}) /\ c \in AwaitsTeardown \cup {c}
      BY <3>1
    <3>3. QED  BY <2>1, <3>2, AddIndex
  <2>3. StillThere(c) /\ (Waits(c, waitT') # {} \/ Waits(c, waitI') # {})
    BY <2>1, <2>2, WaitsOn
  <2>4. Rooms'
    BY <2>1 DEF Rooms, NobodyForgotten
  <2>5. Follows(c, "switch")
    BY <1>0, <2>1, <2>3 DEF Follows, Starting
  <2>6. "switch" \in Steps
    BY DEF Steps, Starting
  <2>7. QED  BY <2>1, <2>3, <2>4, <2>5, <2>6, StepRemembers
<1>7. CASE StartAgain(c)
  <2>1. PICK step \in {"init", "switch"} :
           /\ Turn(c, step)
           /\ IF Head(jobs).ok
              THEN AwaitTeardown(c, "start", Tail(jobs)) /\ UNCHANGED verdict
              ELSE /\ Throw(c, IF step = "init" THEN "failed" ELSE "unproven", Tail(jobs))
                   /\ UNCHANGED waitT
    BY <1>7 DEF StartAgain
  <2>2. /\ jobs # <<>> /\ c = Head(jobs).c /\ pc[c] \in Starting
        /\ UNCHANGED <<closed, shut, workerVars, queue, cancelled, waitI>>
    BY <1>7, <2>1, Headed DEF StartAgain, Starting
  <2>3. CASE Head(jobs).ok
    BY <1>0, <2>1, <2>2, <2>3, AwaitRemembers
  <2>4. CASE ~Head(jobs).ok
    <3>1. PICK v : Throw(c, v, Tail(jobs)) /\ waitT' = waitT
      BY <2>1, <2>4
    <3>2. QED  BY <2>2, <3>1, ThrowRemembers
  <2>5. QED  BY <2>3, <2>4
<1>8. QED  BY <1>1, <1>2, <1>3, <1>4, <1>5, <1>6, <1>7 DEF Start

\* The head of the tail is answered, and the next one has its turn.
LEMMA AnswerRemembers ==
    ASSUME IInv, NobodyForgotten, NEW r \in Requests, queue # <<>>, r = Head(queue),
           NEW rest \in Seq(Job), NEW v, Answer(r, v, rest),
           \A d : d # r /\ Runs(d, jobs) => Runs(d, rest),
           pending' \in {pending, Nobody}, cancelled' \subseteq cancelled \cup {r},
           UNCHANGED <<closed, shut, init, teardown, waitT, waitI>>
    PROVE  NobodyForgotten'
<1>1. /\ pc' = [pc EXCEPT ![r] = "done"] /\ r \in Callers
      /\ \A d \in Callers : d # r => pc'[d] = pc[d]
      /\ pc'[r] = "done"
  BY DEF Answer, IInv, Scalars, Callers
<1>2. /\ queue \in Seq(Requests) /\ Tail(queue) = queue' /\ queue[1] = r
      /\ \A i, j \in 1..Len(queue) : queue[i] = queue[j] => i = j
  <2>1. queue \in Seq(Outstanding) /\ Outstanding \subseteq Requests
    BY DEF IInv, Line, Outstanding
  <2>2. queue \in Seq(Requests)
    BY <2>1, SeqMonotonic
  <2>3. QED  BY <2>2, TailIndex DEF Answer, IInv, Line
<1>3. \A d : d # r /\ Runs(d, jobs) => Runs(d, jobs')
  <2>1. CASE Len(queue) > 1
    <3>1. queue[2] \in Callers
      BY <1>2, <2>1 DEF Callers
    <3>2. Continue(queue[2], TRUE, 3) \in Seq(Job)
      <4>1. 3 \in 0..3
        OBVIOUS
      <4>2. QED  BY <3>1, <4>1, ContinueSeq
    <3>3. jobs' = rest \o Continue(queue[2], TRUE, 3)
      BY <2>1 DEF Answer
    <3>4. QED  BY <3>2, <3>3, RunsJoin
  <2>2. CASE ~(Len(queue) > 1)
    <3>1. jobs' = rest
      BY <2>2, ConcatEmptySeq DEF Answer
    <3>2. QED  BY <3>1
  <2>3. QED  BY <2>1, <2>2
<1>4. Len(queue) > 1 => Runs(queue[2], jobs')
  <2> SUFFICES ASSUME Len(queue) > 1 PROVE Runs(queue[2], jobs')
    OBVIOUS
  <2>1. queue[2] \in Callers
    BY <1>2 DEF Callers
  <2>2. Continue(queue[2], TRUE, 3) \in Seq(Job)
    <3>1. 3 \in 0..3
      OBVIOUS
    <3>2. QED  BY <2>1, <3>1, ContinueSeq
  <2>3. jobs' = rest \o Continue(queue[2], TRUE, 3) /\ Runs(queue[2], Continue(queue[2], TRUE, 3))
    BY RunsOne, Zenon DEF Answer
  <2>4. QED  BY <2>2, <2>3, RunsJoin
<1>5. ASSUME NEW d \in Callers, pc'[d] \in Starting \cup {"thrown", "caught", "reaping"}
      PROVE  Runs(d, jobs') \/ Waits(d, waitT') # {} \/ Waits(d, waitI') # {}
  <2>1. d # r
    BY <1>1, <1>5 DEF Starting
  <2>2. QED  BY <1>1, <1>3, <1>5, <2>1 DEF NobodyForgotten
<1>6. ASSUME NEW q \in Requests
      PROVE  /\ pc'[q] = "queued" =>
                    \E i \in 1..Len(queue') : queue'[i] = q /\ (i = 1 => Runs(q, jobs'))
             /\ pc'[q] = "working" => pending' = q
             /\ pc'[q] \in Starting \cup {"working"} => q \notin cancelled'
             /\ pc'[q] = "closing" => shut = "tearing" \/ Runs(q, jobs')
  <2>1. CASE q = r
    BY <1>1, <2>1 DEF Starting
  <2>2. CASE q # r
    <3>1. pc'[q] = pc[q] /\ q \in Callers
      BY <1>1, <2>2 DEF Callers
    <3>2. pc[q] # "working"
      BY <2>2 DEF IInv, Line
    <3>3. ASSUME pc[q] = "queued"
          PROVE  \E i \in 1..Len(queue') : queue'[i] = q /\ (i = 1 => Runs(q, jobs'))
      <4>1. PICK i \in 1..Len(queue) : queue[i] = q
        BY <3>3 DEF NobodyForgotten
      <4>2. i # 1 /\ i - 1 \in 1..Len(queue') /\ queue'[i - 1] = q
        <5> DEFINE rear == Tail(queue)
        <5>1. /\ Len(rear) = Len(queue) - 1 /\ Len(queue) \in Nat
              /\ \A j \in 1..Len(rear) : rear[j] = queue[j + 1]
          BY <1>2, TailIndex
        <5>2. rear = queue' /\ queue[1] = r
          BY <1>2
        <5> HIDE DEF rear
        <5>3. i # 1 /\ i - 1 \in 1..Len(rear) /\ (i - 1) + 1 = i
          BY <2>2, <4>1, <5>1, <5>2
        <5>4. QED  BY <4>1, <5>1, <5>2, <5>3
      <4>3. i - 1 = 1 => Runs(q, jobs')
        <5>1. i - 1 = 1 => i = 2 /\ Len(queue) > 1
          BY <1>2, <4>1
        <5>2. QED  BY <1>4, <4>1, <5>1
      <4>4. QED  BY <4>2, <4>3
    <3>4. QED  BY <1>3, <2>2, <3>1, <3>2, <3>3 DEF NobodyForgotten
  <2>3. QED  BY <2>1, <2>2
<1>7. shut = "tearing" => Runs("shutdown", jobs') \/ Waits("shutdown", waitT') # {}
  BY <1>3, CallerAssumption DEF NobodyForgotten
<1>8. QED  BY <1>5, <1>6, <1>7 DEF NobodyForgotten

LEMMA AnswerTurnRemembers ==
    ASSUME IInv, NobodyForgotten, NEW r \in Requests, NEW step, Turn(r, step), NEW v,
           Answer(r, v, Tail(jobs)), cancelled' \subseteq cancelled \cup {r},
           UNCHANGED <<closed, shut, workerVars, waitT, waitI>>
    PROVE  NobodyForgotten'
<1>1. jobs # <<>> /\ r \in Callers /\ r = Head(jobs).c
  BY Headed
<1>2. jobs \in Seq(Runnable) /\ Tail(jobs) \in Seq(Runnable) /\ Runnable \subseteq Job
  BY <1>1, TailIndex DEF IInv, Placed, Runnable
<1>3. Tail(jobs) \in Seq(Job)
  BY <1>2, SeqMonotonic
<1>4. \A d : d # r /\ Runs(d, jobs) => Runs(d, Tail(jobs))
  BY <1>1, <1>2, RunsTail
<1>5. queue # <<>> /\ r = Head(queue)
  BY <1>1, Running
<1>6. /\ pending' \in {pending, Nobody}
      /\ UNCHANGED <<closed, shut, init, teardown, waitT, waitI>>
  BY DEF workerVars
<1>7. QED  BY <1>3, <1>4, <1>5, <1>6, AnswerRemembers

LEMMA SendRemembers ==
    ASSUME IInv, NobodyForgotten, NEW r \in Requests,
           SendBegin(r) \/ StartExpires(r) \/ SendExpires(r) \/ Send(r)
             \/ SendCatch(r) \/ SendThrows(r)
    PROVE  NobodyForgotten'
<1>0. r \in Callers
  BY DEF Callers
<1>1. CASE SendBegin(r)
  <2>1. /\ Turn(r, "queued") /\ jobs # <<>> /\ r = Head(jobs).c
        /\ UNCHANGED <<closed, shut, workerVars, cancelled, waitI>>
    BY <1>1, Headed DEF SendBegin
  <2>2. CASE r \in cancelled
    BY <1>1, <2>1, <2>2, AnswerTurnRemembers DEF SendBegin
  <2>3. CASE r \notin cancelled
    <3>1. AwaitTeardown(r, "start", Tail(jobs)) /\ queue' = queue /\ verdict' = verdict
      BY <1>1, <2>3 DEF SendBegin
    <3>2. QED  BY <1>0, <2>1, <2>3, <3>1, AwaitRemembers
  <2>4. QED  BY <2>2, <2>3
<1>2. CASE StartExpires(r)
  <2>1. /\ jobs # <<>> /\ r = Head(jobs).c /\ cancelled' = cancelled \cup {r}
        /\ UNCHANGED <<closed, shut, workerVars, queue, waitT, waitI>>
        /\ Throw(r, "cancelled", Tail(jobs))
    BY <1>2, Headed DEF StartExpires
  <2>2. QED  BY <1>0, <2>1, ThrowRemembers
<1>3. CASE SendExpires(r)
  BY <1>3, AnswerTurnRemembers DEF SendExpires
<1>4. CASE Send(r)
  <2>1. /\ Turn(r, "started") /\ jobs # <<>> /\ r = Head(jobs).c /\ pc[r] = "started"
        /\ UNCHANGED <<closed, shut, generation, worker, ready, profile, init, teardown,
                       dying, live, cancelled, waitT, waitI>>
    BY <1>4, Headed DEF Send
  <2>2. CASE Answer(r, "unavailable", Tail(jobs)) /\ pending' = pending
    <3>1. UNCHANGED <<closed, shut, workerVars, waitT, waitI>>
      BY <2>1, <2>2 DEF workerVars
    <3>2. QED  BY <2>1, <2>2, <3>1, AnswerTurnRemembers
  <2>3. CASE /\ pending' = r /\ pc' = [pc EXCEPT ![r] = "working"]
             /\ jobs' = Tail(jobs) /\ UNCHANGED <<verdict, queue>>
    <3>1. Rooms' /\ "working" \in Steps
      BY <2>1 DEF Rooms, NobodyForgotten, Steps
    <3>2. Follows(r, "working")
      BY <2>1, <2>3 DEF Follows, Starting, NobodyForgotten
    <3>3. \A q \in Requests : q # r /\ pc[q] = "working" => pending' = pending
      BY <1>0, <2>1, Running DEF IInv, Line
    <3>4. StillThere(r)
      BY <2>1, <2>3, RunsOut
    <3>5. QED  BY <1>0, <2>1, <2>3, <3>1, <3>2, <3>3, <3>4, StepRemembers
  <2>4. QED  BY <1>4, <2>2, <2>3 DEF Send
<1>5. CASE SendCatch(r)
  <2>1. /\ jobs # <<>> /\ r = Head(jobs).c /\ AwaitTeardown(r, "caught", Tail(jobs))
        /\ UNCHANGED <<closed, shut, workerVars, queue, verdict, cancelled, waitI>>
    BY <1>5, Headed DEF SendCatch
  <2>2. QED  BY <1>0, <2>1, AwaitRemembers
<1>6. CASE SendThrows(r)
  BY <1>6, AnswerTurnRemembers DEF SendThrows
<1>7. QED  BY <1>1, <1>2, <1>3, <1>4, <1>5, <1>6

LEMMA ResultRemembers == ASSUME IInv, NobodyForgotten, Result PROVE NobodyForgotten'
<1>1. /\ pending \in Requests /\ queue # <<>> /\ pending = Head(queue) /\ jobs = <<>>
      /\ UNCHANGED <<closed, shut, init, teardown, waitT, waitI>>
      /\ pending' = Nobody /\ cancelled' = cancelled
      /\ Answer(pending, "result", jobs)
  BY DEF Result, Quiet, IInv, Scalars, Line
<1>2. jobs \in Seq(Job)
  BY <1>1
<1>3. QED  BY <1>1, <1>2, AnswerRemembers

-----------------------------------------------------------------------------
\* Nobody is forgotten: the events

\* Where the continuations are.
LEMMA Continuations ==
    ASSUME IInv
    PROVE  /\ jobs \in Seq(Job) /\ waitT \in Seq(Callers \cup {"shutdown"})
           /\ waitI \in Seq(Callers)
<1>1. /\ jobs \in Seq(Runnable) /\ waitT \in Seq(AwaitsTeardown) /\ waitI \in Seq(AwaitsInit)
      /\ AwaitsTeardown \subseteq Callers \cup {"shutdown"} /\ AwaitsInit \subseteq Callers
      /\ Runnable \subseteq Job
  BY DEF IInv, Placed, AwaitsTeardown, AwaitsInit, Runnable
<1>2. QED  BY <1>1, SeqMonotonic

\* An event that moves no caller on, except the request at work.
LEMMA EventRemembers ==
    ASSUME IInv, NobodyForgotten, queue' = queue,
           cancelled' = cancelled \/ (cancelled' = cancelled \cup {pending} /\ pending' # pending),
           \A d \in Callers \cup {"shutdown"} :
               /\ Runs(d, jobs) => Runs(d, jobs')
               /\ Waits(d, waitT) # {} => Waits(d, waitT') # {} \/ Runs(d, jobs')
               /\ Waits(d, waitI) # {} => Waits(d, waitI') # {} \/ Runs(d, jobs'),
           Rooms',
           \/ pc' = pc /\ pending' = pending
           \/ /\ pending \in Requests /\ pending' = Nobody
              /\ \/ pc' = [pc EXCEPT ![pending] = "reaping"]
                 \/ pc' = [pc EXCEPT ![pending] = "closing"] /\ shut' = "tearing",
           pending \in Requests /\ pc' = [pc EXCEPT ![pending] = "reaping"] => Waits(pending, waitT') # {},
           shut = "tearing" => shut' = "tearing",
           shut' = "tearing" => shut = "tearing" \/ Waits("shutdown", waitT') # {}
    PROVE  NobodyForgotten'
<1>1. \A d \in Callers : \/ pc'[d] = pc[d]
                         \/ /\ d = pending /\ pending \in Requests
                            /\ \/ pc'[d] = "reaping" /\ Waits(d, waitT') # {}
                               \/ pc'[d] = "closing" /\ shut' = "tearing"
  BY DEF IInv, Scalars
<1>2. ASSUME NEW d \in Callers, pc'[d] \in Starting \cup {"thrown", "caught", "reaping"}
      PROVE  Runs(d, jobs') \/ Waits(d, waitT') # {} \/ Waits(d, waitI') # {}
  <2>1. CASE pc'[d] = pc[d]
    BY <1>2, <2>1 DEF NobodyForgotten
  <2>2. CASE pc'[d] # pc[d]
    BY <1>1, <1>2, <2>2 DEF Starting
  <2>3. QED  BY <2>1, <2>2
<1>3. ASSUME NEW r \in Requests
      PROVE  /\ pc'[r] = "queued" =>
                    \E i \in 1..Len(queue') : queue'[i] = r /\ (i = 1 => Runs(r, jobs'))
             /\ pc'[r] = "working" => pending' = r
             /\ pc'[r] \in Starting \cup {"working"} => r \notin cancelled'
             /\ pc'[r] = "closing" => shut' = "tearing" \/ Runs(r, jobs')
  <2>0. r \in Callers
    BY DEF Callers
  <2>1. CASE pc'[r] # pc[r]
    BY <1>1, <2>0, <2>1 DEF Starting
  <2>2. CASE pc'[r] = pc[r]
    <3>1. pc[r] = "working" => pending = r /\ pending' = r
      <4>1. ASSUME pc[r] = "working", pending' # pending PROVE FALSE
        <5>1. pending = r
          BY <4>1 DEF NobodyForgotten
        <5>2. pc'[r] \in {"reaping", "closing"}
          BY <2>0, <4>1, <5>1 DEF IInv, Scalars
        <5>3. QED  BY <2>2, <4>1, <5>2
      <4>2. QED  BY <4>1 DEF NobodyForgotten
    <3>2. Runs(r, jobs) => Runs(r, jobs')
      BY <2>0
    <3>3. pc[r] \in Starting => r \notin cancelled'
      <4>1. pending' # pending => pc'[pending] \in {"reaping", "closing"} /\ pending \in Requests
        BY DEF IInv, Scalars, Callers
      <4>2. QED  BY <2>2, <4>1 DEF NobodyForgotten, Starting
    <3>4. pc[r] = "working" => r \notin cancelled'
      BY <3>1 DEF NobodyForgotten
    <3>5. QED  BY <2>2, <3>1, <3>2, <3>3, <3>4 DEF NobodyForgotten
  <2>3. QED  BY <2>1, <2>2
<1>4. shut' = "tearing" => Runs("shutdown", jobs') \/ Waits("shutdown", waitT') # {}
  BY DEF NobodyForgotten
<1>5. QED  BY <1>2, <1>3, <1>4 DEF NobodyForgotten, Rooms

LEMMA AtWorkIsNotReaping ==
    ASSUME IInv, pending \in Requests
    PROVE  pc[pending] = "working" /\ pc # [pc EXCEPT ![pending] = "reaping"]
<1>1. pending # Nobody /\ pending \in Callers /\ pc \in [Callers -> Steps]
  BY CallerAssumption DEF Nobody, Callers, IInv, Scalars
<1>2. pc[pending] = "working"
  BY <1>1 DEF IInv, Line
<1>3. [pc EXCEPT ![pending] = "reaping"][pending] = "reaping"
  BY <1>1
<1>4. QED  BY <1>2, <1>3

LEMMA ReadyRemembers == ASSUME IInv, NobodyForgotten, Ready PROVE NobodyForgotten'
<1>1. /\ jobs = <<>> /\ waitT' = waitT /\ jobs' = Wake(waitI, TRUE) /\ waitI' = <<>>
      /\ UNCHANGED <<shut, pending, teardown, queue, pc, cancelled>>
  BY DEF Ready, Quiet
<1>2. \A d : ~Runs(d, jobs) /\ (Waits(d, waitI) # {} => Runs(d, jobs'))
  BY <1>1, NobodyThere, RunsWake, Continuations
<1>3. Rooms'
  BY <1>1 DEF Rooms, NobodyForgotten
<1>4. pending \in Requests => pc # [pc EXCEPT ![pending] = "reaping"]
  BY AtWorkIsNotReaping
<1>5. QED  BY <1>1, <1>2, <1>3, <1>4, EventRemembers

\* Whoever awaits the initialization is ready after failActive().
LEMMA FailActiveRemembers ==
    ASSUME IInv, NobodyForgotten, jobs = <<>>, worker # 0, NEW v, FailActive(v),
           UNCHANGED <<closed, shut, generation, live, queue>>, 
           cancelled' = cancelled \/ (cancelled' = cancelled \cup {pending} /\ pending # Nobody),
           \A d : Waits(d, waitI) # {} => Runs(d, jobs')
    PROVE  NobodyForgotten'
<1>0. waitT \in Seq(Callers \cup {"shutdown"}) /\ waitI \in Seq(Callers)
  BY Continuations
<1>1. \A d : ~Runs(d, jobs) /\ (Waits(d, waitI) # {} => Runs(d, jobs'))
  BY NobodyThere
<1>2. Rooms' /\ pending' = Nobody
  BY DEF FailActive, Discard, Rooms
<1>3. \A d : Waits(d, waitT) # {} => Waits(d, waitT') # {}
  <2>1. CASE pending = Nobody
    BY <2>1, <1>0, ConcatEmptySeq DEF FailActive, Discard
  <2>2. CASE pending # Nobody
    <3>1. pending \in Callers \cup {"shutdown"} /\ waitT' = waitT \o <<pending>>
      BY <2>2 DEF FailActive, Discard, IInv, Scalars, Callers
    <3>2. waitT' = Append(waitT, pending)
      BY <1>0, <3>1, AddIndex
    <3>3. QED  BY <1>0, <3>1, <3>2, WaitsAdd
  <2>3. QED  BY <2>1, <2>2
<1>4. CASE pending = Nobody
  <2>1. pc' = pc /\ pending' = pending /\ pending \notin Requests
    BY <1>4, CallerAssumption DEF FailActive, Nobody
  <2>2. QED  BY <1>1, <1>2, <1>3, <2>1, EventRemembers
<1>5. CASE pending # Nobody
  <2>1. /\ pc' = [pc EXCEPT ![pending] = "reaping"] /\ pending \in Requests
        /\ pending \in Callers \cup {"shutdown"} /\ waitT' = waitT \o <<pending>>
    BY <1>5 DEF FailActive, Discard, IInv, Scalars, Callers
  <2>2. waitT' = Append(waitT, pending)
    BY <1>0, <2>1, AddIndex
  <2>3. Waits(pending, waitT') # {}
    BY <1>0, <2>1, <2>2, WaitsAdd
  <2>4. QED  BY <1>1, <1>2, <1>3, <2>1, <2>3, EventRemembers
<1>6. QED  BY <1>4, <1>5

LEMMA WorkerFailsRemembers == ASSUME IInv, NobodyForgotten, WorkerFails PROVE NobodyForgotten'
<1>1. \A d : Waits(d, waitI) # {} => Runs(d, jobs')
  BY Continuations, RunsWake DEF WorkerFails
<1>2. QED  BY <1>1, FailActiveRemembers DEF WorkerFails, Quiet

\* A request is at work: nobody awaits an initialization.
LEMMA CancelWorkingRemembers ==
    ASSUME IInv, NobodyForgotten, NEW r \in Requests, CancelWorking(r)
    PROVE  NobodyForgotten'
<1>1. pending = r /\ pending # Nobody /\ worker # 0 /\ init = 0 /\ shut # "tearing"
  BY CallerAssumption DEF CancelWorking, Nobody, IInv, Group, Shut, OwnProfile
<1>2. waitI = <<>>
  BY <1>1 DEF NobodyForgotten
<1>3. \A d : Waits(d, waitI) # {} => Runs(d, jobs')
  BY <1>2, NobodyThere
<1>4. QED  BY <1>1, <1>3, FailActiveRemembers DEF CancelWorking, Quiet

LEMMA ReapedRemembers ==
    ASSUME IInv, NobodyForgotten, NEW proven \in BOOLEAN, Reaped(proven)
    PROVE  NobodyForgotten'
<1>1. /\ jobs = <<>> /\ waitI' = waitI /\ jobs' = Wake(waitT, proven) /\ waitT' = <<>>
      /\ UNCHANGED <<shut, init, pending, queue, pc, cancelled>>
  BY DEF Reaped, Quiet
<1>2. \A d : ~Runs(d, jobs) /\ (Waits(d, waitT) # {} => Runs(d, jobs'))
  BY <1>1, NobodyThere, RunsWake, Continuations
<1>3. Rooms'
  BY <1>1 DEF Rooms, NobodyForgotten
<1>4. pending \in Requests => pc # [pc EXCEPT ![pending] = "reaping"]
  BY AtWorkIsNotReaping
<1>5. shut = "tearing" => Runs("shutdown", jobs')
  BY <1>2 DEF NobodyForgotten
<1>6. ASSUME NEW d \in Callers, pc'[d] \in Starting \cup {"thrown", "caught", "reaping"}
      PROVE  Runs(d, jobs') \/ Waits(d, waitT') # {} \/ Waits(d, waitI') # {}
  BY <1>1, <1>2, <1>6 DEF NobodyForgotten
<1>7. \A r \in Requests :
        /\ pc'[r] = "queued" =>
              \E i \in 1..Len(queue') : queue'[i] = r /\ (i = 1 => Runs(r, jobs'))
        /\ pc'[r] = "working" => pending' = r
        /\ pc'[r] \in Starting \cup {"working"} => r \notin cancelled'
        /\ pc'[r] = "closing" => shut' = "tearing" \/ Runs(r, jobs')
  BY <1>1, <1>2 DEF NobodyForgotten
<1>8. QED  BY <1>1, <1>3, <1>5, <1>6, <1>7 DEF NobodyForgotten, Rooms

LEMMA CancelQueuedRemembers ==
    ASSUME IInv, NobodyForgotten, NEW r \in Requests, CancelQueued(r)
    PROVE  NobodyForgotten'
<1>1. /\ pc[r] = "queued" /\ cancelled' = cancelled \cup {r}
      /\ UNCHANGED <<shut, init, pending, teardown, queue, pc, jobs, waitT, waitI>>
  BY DEF CancelQueued, workerVars, jobVars
<1>2. \A q \in Requests : pc[q] \in Starting \cup {"working"} => q \notin cancelled'
  BY <1>1 DEF NobodyForgotten, Starting
<1>3. QED  BY <1>1, <1>2 DEF NobodyForgotten

\* Who is cancelled during its start leaves the waiting rooms for the catch of
\* send(); those who waited for the same initialization are told.
LEMMA CancelStartingRemembers ==
    ASSUME IInv, NobodyForgotten, NEW r \in Requests, CancelStarting(r)
    PROVE  NobodyForgotten'
<1>1. /\ jobs = <<>> /\ r \in Callers /\ pc' = [pc EXCEPT ![r] = "thrown"] /\ "thrown" \in Steps
      /\ cancelled' = cancelled \cup {r} /\ waitT' = Others(waitT, r)
      /\ UNCHANGED <<shut, queue, pending>>
  BY DEF CancelStarting, Quiet, Callers, Steps
<1>2. waitT \in Seq(Callers \cup {"shutdown"}) /\ waitI \in Seq(Callers)
  BY Continuations
<1>3. /\ Others(waitI, r) \in Seq(Callers)
      /\ \A d : d # r /\ Waits(d, waitI) # {} => Waits(d, Others(waitI, r)) # {}
      /\ \A d : d # r /\ Waits(d, waitT) # {} => Waits(d, waitT') # {}
  <2>1. \A i, j \in 1..Len(waitI) : waitI[i] = waitI[j] => i = j
    BY DEF IInv, Placed, Once
  <2>2. Others(waitI, r) \in Seq(Callers)
    BY <1>2, <2>1, OthersIndex
  <2>3. QED  BY <1>1, <1>2, <2>2, WaitsOthers
<1>4. Continue(r, TRUE, 1) \in Seq(Job) /\ Runs(r, Continue(r, TRUE, 1))
  <2>1. 1 \in 0..3
    OBVIOUS
  <2>2. QED  BY <1>1, <2>1, ContinueSeq, RunsOne
<1>5. StillThere(r) /\ Runs(r, jobs') /\ Rooms'
  <2>1. CASE init # 0
    <3>1. /\ jobs' = Wake(Others(waitI, r), FALSE) \o Continue(r, TRUE, 1)
          /\ waitI' = <<>> /\ teardown' = "pending"
      BY <2>1 DEF CancelStarting
    <3>2. /\ Wake(Others(waitI, r), FALSE) \in Seq(Job)
          /\ \A d : d # r /\ Waits(d, waitI) # {} => Runs(d, Wake(Others(waitI, r), FALSE))
      <4>1. PICK ok \in BOOLEAN : ok = FALSE
        OBVIOUS
      <4>2. \A c \in Callers : [c |-> c, ok |-> ok, ticks |-> 0] \in Job
        BY DEF Job
      <4>3. Wake(Others(waitI, r), ok) \in Seq(Job)
        BY <1>3, <4>2, WakeSeq
      <4>4. \A d : d # r /\ Waits(d, waitI) # {} => Runs(d, Wake(Others(waitI, r), ok))
        BY <1>3, RunsWake
      <4>5. QED  BY <4>1, <4>3, <4>4, Zenon
    <3>3. \A d : d # r /\ Waits(d, waitI) # {} => Runs(d, jobs')
      <4> DEFINE w == Wake(Others(waitI, r), FALSE)
                 k == Continue(r, TRUE, 1)
      <4>1. w \in Seq(Job) /\ k \in Seq(Job) /\ jobs' = w \o k
        BY <1>4, <3>1, <3>2, Zenon
      <4>2. \A d : d # r /\ Waits(d, waitI) # {} => Runs(d, w)
        BY <3>2, Zenon
      <4> HIDE DEF w, k
      <4>3. QED  BY <4>1, <4>2, RunsJoin
    <3>4. Runs(r, jobs')
      <4> DEFINE w == Wake(Others(waitI, r), FALSE)
                 k == Continue(r, TRUE, 1)
      <4>1. w \in Seq(Job) /\ k \in Seq(Job) /\ jobs' = w \o k /\ Runs(r, k)
        BY <1>4, <3>1, <3>2, Zenon
      <4> HIDE DEF w, k
      <4>2. QED  BY <4>1, RunsJoin
    <3>5. \A d : ~Runs(d, jobs)
      BY <1>1, NobodyThere
    <3>6. QED  BY <1>3, <3>1, <3>3, <3>4, <3>5 DEF StillThere, Rooms
  <2>2. CASE init = 0
    <3>1. /\ jobs' = Continue(r, TRUE, 1) /\ waitI' = Others(waitI, r)
          /\ UNCHANGED <<init, teardown>>
      BY <2>2 DEF CancelStarting
    <3>2. \A d : ~Runs(d, jobs)
      BY <1>1, NobodyThere
    <3>3. Runs(r, jobs')
      BY <1>4, <3>1, Zenon
    <3>4. Rooms'
      <4>1. waitT # <<>> \/ waitT' = <<>>
        BY <1>1, NobodyThere DEF Others
      <4>2. waitI # <<>> \/ waitI' = <<>>
        BY <3>1, NobodyThere DEF Others
      <4>3. QED  BY <1>1, <3>1, <4>1, <4>2 DEF Rooms, NobodyForgotten
    <3>5. QED  BY <1>3, <3>1, <3>2, <3>3, <3>4 DEF StillThere
  <2>3. QED  BY <2>1, <2>2
<1>6. Follows(r, "thrown")
  BY <1>5 DEF Follows, Starting
<1>7. QED  BY <1>1, <1>5, <1>6, StepRemembers

LEMMA EnqueueRemembers ==
    ASSUME IInv, NobodyForgotten, NEW r \in Requests, Enqueue(r)
    PROVE  NobodyForgotten'
<1>1. /\ jobs = <<>> /\ pc[r] = "idle" /\ r \in Callers
      /\ UNCHANGED <<shut, init, pending, teardown, cancelled, waitT, waitI>>
      /\ \A d : ~Runs(d, jobs)
  BY NobodyThere DEF Enqueue, Quiet, workerVars, Callers
<1>2. PICK s \in {"done", "queued"} : pc' = [pc EXCEPT ![r] = s]
  BY DEF Enqueue
<1>3. pc'[r] = s /\ \A d \in Callers : d # r => pc'[d] = pc[d]
  BY <1>1, <1>2 DEF IInv, Scalars
<1>4. ASSUME NEW d \in Callers, pc'[d] \in Starting \cup {"thrown", "caught", "reaping"}
      PROVE  Runs(d, jobs') \/ Waits(d, waitT') # {} \/ Waits(d, waitI') # {}
  <2>1. d # r
    BY <1>3, <1>4 DEF Starting
  <2>2. QED  BY <1>1, <1>3, <1>4, <2>1 DEF NobodyForgotten
<1>5. \A q \in Requests :
        /\ pc'[q] = "working" => pending' = q
        /\ pc'[q] \in Starting \cup {"working"} => q \notin cancelled'
        /\ pc'[q] = "closing" => shut' = "tearing" \/ Runs(q, jobs')
  <2>1. TAKE q \in Requests
  <2>2. q \in Callers
    BY DEF Callers
  <2>3. CASE q = r
    BY <1>3, <2>3 DEF Starting
  <2>4. CASE q # r
    <3>1. pc'[q] = pc[q]
      BY <1>3, <2>2, <2>4
    <3>2. QED  BY <1>1, <3>1 DEF NobodyForgotten
  <2>5. QED  BY <2>3, <2>4
<1>6. ASSUME NEW q \in Requests, pc'[q] = "queued"
      PROVE  \E i \in 1..Len(queue') : queue'[i] = q /\ (i = 1 => Runs(q, jobs'))
  <2>1. q \in Callers
    BY DEF Callers
  <2>2. CASE /\ pc' = [pc EXCEPT ![r] = "done"] /\ queue' = queue /\ jobs' = jobs
    <3>1. pc[q] = "queued"
      BY <1>1, <1>3, <1>6, <2>1, <2>2 DEF IInv, Scalars
    <3>2. QED  BY <2>2, <3>1 DEF NobodyForgotten
  <2>3. CASE /\ queue' = Append(queue, r)
             /\ jobs' = IF queue = <<>> THEN Continue(r, TRUE, 0) ELSE jobs
    <3>1. /\ Len(queue') = Len(queue) + 1 /\ Len(queue) \in Nat
          /\ \A i \in 1..Len(queue) : queue'[i] = queue[i]
          /\ queue'[Len(queue) + 1] = r
      <4>1. queue \in Seq(Outstanding) /\ Outstanding \subseteq Requests
        BY DEF IInv, Line, Outstanding
      <4>2. queue \in Seq(Requests)
        BY <4>1, SeqMonotonic
      <4>3. QED  BY <2>3, <4>2, AddIndex
    <3>2. CASE q = r
      <4>1. Len(queue) + 1 = 1 => Runs(r, jobs')
        <5>1. Len(queue) + 1 = 1 => queue = <<>>
          <6>1. queue \in Seq(Outstanding)
            BY DEF IInv, Line
          <6>2. QED  BY <3>1, <6>1
        <5>2. QED  BY <2>3, <5>1, RunsOne, Zenon
      <4>2. QED  BY <3>1, <3>2, <4>1
    <3>3. CASE q # r
      <4>1. pc[q] = "queued"
        BY <1>3, <1>6, <2>1, <3>3
      <4>2. PICK i \in 1..Len(queue) : queue[i] = q /\ (i = 1 => Runs(q, jobs))
        BY <4>1 DEF NobodyForgotten
      <4>3. i \in 1..Len(queue') /\ queue'[i] = q /\ i # 1
        BY <1>1, <3>1, <4>2
      <4>4. QED  BY <4>3
    <3>4. QED  BY <3>2, <3>3
  <2>4. QED  BY <2>2, <2>3 DEF Enqueue
<1>7. shut # "tearing" \/ Waits("shutdown", waitT) # {}
  BY <1>1 DEF NobodyForgotten
<1>8. QED  BY <1>1, <1>4, <1>5, <1>6, <1>7 DEF NobodyForgotten

LEMMA InitializeRemembers ==
    ASSUME IInv, NobodyForgotten, NEW c \in Checks, Initialize(c)
    PROVE  NobodyForgotten'
<1>1. /\ jobs = <<>> /\ c \in Callers /\ c \notin Requests /\ c \notin cancelled
      /\ UNCHANGED <<shut, init, pending, teardown, queue, cancelled, waitI>>
      /\ \A d : ~Runs(d, jobs)
  BY NobodyThere, CallerAssumption DEF Initialize, Quiet, workerVars, Callers, IInv, Scalars
<1>2. CASE pc' = [pc EXCEPT ![c] = "done"] /\ jobs' = jobs /\ waitT' = waitT
  <2>1. StillThere(c) /\ Rooms' /\ Follows(c, "done") /\ "done" \in Steps
    BY <1>1, <1>2 DEF StillThere, Rooms, Follows, NobodyForgotten, Starting, Steps
  <2>2. QED  BY <1>1, <1>2, <2>1, StepRemembers
<1>3. CASE AwaitTeardown(c, "start", jobs)
  <2>1. pc' = [pc EXCEPT ![c] = "start"] /\ "start" \in Steps
    BY <1>3 DEF AwaitTeardown, Steps, Starting
  <2>2. waitT \in Seq(Callers \cup {"shutdown"})
    BY Continuations
  <2>3. StillThere(c) /\ Rooms' /\ (Runs(c, jobs') \/ Waits(c, waitT') # {})
    <3>1. CASE teardown = "pending"
      <4>1. waitT' = Append(waitT, c)
        BY <1>3, <3>1 DEF AwaitTeardown
      <4>2. Waits(c, waitT') # {} /\ \A d : Waits(d, waitT) # {} => Waits(d, waitT') # {}
        BY <1>1, <2>2, <4>1, WaitsAdd
      <4>3. QED  BY <1>1, <3>1, <4>2 DEF StillThere, Rooms, NobodyForgotten
    <3>2. CASE teardown # "pending"
      <4>1. PICK ok \in BOOLEAN : ok = (teardown = "done")
        OBVIOUS
      <4>2. waitT' = waitT /\ jobs' = jobs \o Continue(c, ok, 0)
        BY <1>3, <3>2, <4>1 DEF AwaitTeardown
      <4>3. [c |-> c, ok |-> ok, ticks |-> 0] \in Job
        BY <1>1 DEF Job
      <4>4. Continue(c, ok, 0) \in Seq(Job) /\ jobs \in Seq(Job)
        BY <1>1, <4>3 DEF Continue
      <4>5. Runs(c, jobs')
        BY <4>2, <4>4, RunsOne, RunsJoin
      <4>6. QED  BY <1>1, <4>2, <4>5 DEF StillThere, Rooms, NobodyForgotten
    <3>3. QED  BY <3>1, <3>2
  <2>4. Follows(c, "start")
    BY <1>1, <2>3 DEF Follows, Starting
  <2>5. QED  BY <1>1, <2>1, <2>3, <2>4, StepRemembers
<1>4. QED  BY <1>2, <1>3 DEF Initialize

LEMMA ShutdownBeginRemembers == ASSUME IInv, NobodyForgotten, ShutdownBegin PROVE NobodyForgotten'
<1>1. /\ ~closed /\ shut = "no" /\ UNCHANGED <<queue, cancelled, jobs, waitI>> /\ jobs = <<>>
  BY DEF ShutdownBegin, IInv, Shut, Quiet
<1>2. CASE worker = 0
  <2>1. /\ shut' = "draining"
        /\ UNCHANGED <<init, pending, teardown, waitT, pc>>
    BY <1>2 DEF ShutdownBegin
  <2>2. Rooms'
    BY <1>1, <2>1 DEF Rooms, NobodyForgotten
  <2>3. pending \in Requests => pc # [pc EXCEPT ![pending] = "reaping"]
    BY AtWorkIsNotReaping
  <2>4. QED  BY <1>1, <2>1, <2>2, <2>3, EventRemembers
<1>3. CASE worker # 0
  <2>1. /\ shut' = "tearing" /\ teardown' = "pending" /\ waitT' = waitT \o <<"shutdown">>
        /\ pending' = Nobody
        /\ pc' = IF pending = Nobody THEN pc ELSE [pc EXCEPT ![pending] = "closing"]
    BY <1>3 DEF ShutdownBegin, Discard
  <2>2. waitT' = Append(waitT, "shutdown") /\ waitT \in Seq(Callers \cup {"shutdown"})
    BY <2>1, Continuations, AddIndex
  <2>3. Waits("shutdown", waitT') # {} /\ \A d : Waits(d, waitT) # {} => Waits(d, waitT') # {}
    BY <2>2, WaitsAdd
  <2>4. Rooms'
    BY <2>1 DEF Rooms
  <2>5. pending \in Requests => pending # Nobody
    BY CallerAssumption DEF Nobody
  <2>6. pending # Nobody => pending \in Requests
    BY DEF IInv, Scalars
  <2>7. pending \in Requests => pc' # [pc EXCEPT ![pending] = "reaping"]
    <3> SUFFICES ASSUME pending \in Requests, pc' = [pc EXCEPT ![pending] = "reaping"] PROVE FALSE
      OBVIOUS
    <3>1. pending \in Callers /\ pc \in [Callers -> Steps]
      BY DEF Callers, IInv, Scalars
    <3>2. pc'[pending] = "closing" /\ pc'[pending] = "reaping"
      BY <2>1, <2>5, <3>1
    <3>3. QED  BY <3>2
  <2>8. QED  BY <1>1, <2>1, <2>3, <2>4, <2>5, <2>6, <2>7, EventRemembers
<1>4. QED  BY <1>2, <1>3

LEMMA ShutdownEndRemembers == ASSUME IInv, NobodyForgotten, ShutdownEnd PROVE NobodyForgotten'
BY DEF ShutdownEnd, NobodyForgotten, Quiet, workerVars, jobVars

LEMMA ShutdownReapedRemembers ==
    ASSUME IInv, NobodyForgotten, ShutdownReaped
    PROVE  NobodyForgotten'
<1> DEFINE w == Wake(waitI, FALSE)
           k == IF queue # <<>> /\ pc[Head(queue)] = "closing"
                THEN Continue(Head(queue), Head(jobs).ok, 0) ELSE <<>>
<1>1. /\ jobs # <<>> /\ Head(jobs).c = "shutdown"
      /\ shut = "tearing" /\ shut' # "tearing" /\ waitI' = <<>>
      /\ jobs' = Tail(jobs) \o w \o k /\ Head(jobs).ok \in BOOLEAN
      /\ UNCHANGED <<init, pending, teardown, queue, pc, cancelled, waitT>>
  <2>1. Head(jobs) \in Runnable /\ Head(jobs) \in Job
    BY TailIndex DEF ShutdownReaped, Quiet, IInv, Placed, Runnable
  <2>2. QED  BY <2>1 DEF ShutdownReaped, Quiet, Runnable, Job, workerVars
<1>2. Tail(jobs) \in Seq(Job) /\ w \in Seq(Job) /\ k \in Seq(Job)
  <2>1. Tail(jobs) \in Seq(Job)
    BY <1>1, Continuations, TailIndex
  <2>2. w \in Seq(Job)
    <3>1. PICK ok \in BOOLEAN : ok = FALSE
      OBVIOUS
    <3>2. \A c \in Callers : [c |-> c, ok |-> ok, ticks |-> 0] \in Job
      BY DEF Job
    <3>3. Wake(waitI, ok) \in Seq(Job)
      BY <3>2, Continuations, WakeSeq
    <3>4. QED  BY <3>1, <3>3, Zenon
  <2>3. k \in Seq(Job)
    <3>1. CASE queue # <<>> /\ pc[Head(queue)] = "closing"
      <4>1. Head(queue) \in Callers
        BY <3>1 DEF IInv, Line, Outstanding, Callers
      <4>2. [c |-> Head(queue), ok |-> Head(jobs).ok, ticks |-> 0] \in Job
        BY <1>1, <4>1 DEF Job
      <4>3. QED  BY <3>1, <4>2 DEF Continue
    <3>2. CASE ~(queue # <<>> /\ pc[Head(queue)] = "closing")
      BY <3>2
    <3>3. QED  BY <3>1, <3>2
  <2>4. QED  BY <2>1, <2>2, <2>3
<1>3. \A d : Runs(d, Tail(jobs)) \/ Runs(d, w) \/ Runs(d, k) => Runs(d, jobs')
  <2> HIDE DEF w, k
  <2> DEFINE head == Tail(jobs) \o w
  <2>1. head \in Seq(Job)
    BY <1>2
  <2>2. \A d : Runs(d, Tail(jobs)) \/ Runs(d, w) => Runs(d, head)
    BY <1>2, RunsJoin
  <2>3. jobs' = head \o k
    BY <1>1
  <2> HIDE DEF head
  <2>4. QED  BY <1>2, <2>1, <2>2, <2>3, RunsJoin
<1>4. \A d : Waits(d, waitI) # {} => Runs(d, w)
  BY Continuations, RunsWake
<1>5. \A d : d # "shutdown" /\ Runs(d, jobs) => Runs(d, Tail(jobs))
  BY <1>1, Continuations, RunsTail
<1>6. \A r \in Requests : pc[r] = "closing" => Runs(r, k)
  <2>1. ASSUME NEW r \in Requests, pc[r] = "closing" PROVE queue # <<>> /\ r = Head(queue)
    BY <2>1 DEF IInv, Line
  <2>2. ASSUME NEW r \in Requests, pc[r] = "closing" PROVE k = Continue(r, Head(jobs).ok, 0)
    BY <2>1, <2>2, Zenon
  <2> HIDE DEF k
  <2>3. QED  BY <2>2, RunsOne
<1> HIDE DEF w, k
<1>7. ASSUME NEW d \in Callers, pc'[d] \in Starting \cup {"thrown", "caught", "reaping"}
      PROVE  Runs(d, jobs') \/ Waits(d, waitT') # {} \/ Waits(d, waitI') # {}
  <2>1. d # "shutdown"
    BY CallerAssumption DEF Callers
  <2>2. QED  BY <1>1, <1>3, <1>4, <1>5, <1>7, <2>1 DEF NobodyForgotten
<1>8. ASSUME NEW q \in Requests
      PROVE  /\ pc'[q] = "queued" =>
                    \E i \in 1..Len(queue') : queue'[i] = q /\ (i = 1 => Runs(q, jobs'))
             /\ pc'[q] = "working" => pending' = q
             /\ pc'[q] \in Starting \cup {"working"} => q \notin cancelled'
             /\ pc'[q] = "closing" => shut' = "tearing" \/ Runs(q, jobs')
  <2>1. q # "shutdown"
    BY CallerAssumption
  <2>2. Runs(q, jobs) => Runs(q, jobs')
    BY <1>3, <1>5, <2>1
  <2>3. QED  BY <1>1, <1>3, <1>6, <2>2 DEF NobodyForgotten
<1>9. Rooms'
  BY <1>1 DEF Rooms, NobodyForgotten
<1>10. QED  BY <1>1, <1>7, <1>8, <1>9 DEF NobodyForgotten, Rooms

\* Whatever is interrupted, cancelled, switched or shut down, nobody is left waiting
\* for what cannot come: a continuation is ready, or awaits a teardown or an
\* initialization in progress, and what is at work has its deadline (enqueue(),
\* send(), start(), failActive(), discard(), shutdown()).
THEOREM NoLostWakeup == Spec => []NobodyForgotten
<1>1. Init => NobodyForgotten
  <2> SUFFICES ASSUME Init PROVE NobodyForgotten
    OBVIOUS
  <2>1. /\ \A c \in Callers : pc[c] = "idle"
        /\ waitT = <<>> /\ waitI = <<>> /\ shut = "no"
    BY DEF Init
  <2>2. Requests \subseteq Callers
    BY DEF Callers
  <2>3. QED  BY <2>1, <2>2 DEF NobodyForgotten, Starting
<1>2. IInv /\ NobodyForgotten /\ [Next]_vars => NobodyForgotten'
  <2> SUFFICES ASSUME IInv, NobodyForgotten, [Next]_vars PROVE NobodyForgotten'
    OBVIOUS
  <2>1. CASE Continuation
    BY <2>1, TickRemembers, ShutdownReapedRemembers, StartRemembers, SendRemembers DEF Continuation
  <2>2. ASSUME NEW r \in Requests, Enqueue(r) \/ Cancel(r) PROVE NobodyForgotten'
    BY <2>2, EnqueueRemembers, CancelQueuedRemembers, CancelStartingRemembers,
       CancelWorkingRemembers DEF Cancel
  <2>3. ASSUME NEW c \in Checks, Initialize(c) PROVE NobodyForgotten'
    BY <2>3, InitializeRemembers
  <2>4. CASE Ready \/ Result \/ WorkerFails
    BY <2>4, ReadyRemembers, ResultRemembers, WorkerFailsRemembers
  <2>5. ASSUME NEW proven \in BOOLEAN, Reaped(proven) PROVE NobodyForgotten'
    BY <2>5, ReapedRemembers
  <2>6. CASE ShutdownBegin \/ ShutdownEnd
    BY <2>6, ShutdownBeginRemembers, ShutdownEndRemembers
  <2>7. CASE UNCHANGED vars
    BY <2>7 DEF NobodyForgotten, vars, workerVars, jobVars
  <2>8. QED  BY <2>1, <2>2, <2>3, <2>4, <2>5, <2>6, <2>7 DEF Next
<1>3. QED  BY <1>1, <1>2, Invariance, PTL DEF Spec

\* With no continuation ready, no teardown and no initialization in progress and
\* nothing at work, the runtime is at rest.
AtRest ==
    jobs = <<>> /\ teardown # "pending" /\ init = 0 /\ pending = Nobody =>
        queue = <<>> /\ \A c \in Callers : pc[c] \in {"idle", "done"}

\* The runtime cannot stall: whenever nothing is left that could move a caller on,
\* nobody is outstanding (the tail of enqueue(), the awaits of start() and send()).
THEOREM NeverStalls == Spec => []AtRest
<1>1. IInv /\ NobodyForgotten => AtRest
  <2> SUFFICES ASSUME IInv, NobodyForgotten, jobs = <<>>, teardown # "pending", init = 0,
                      pending = Nobody
               PROVE  queue = <<>> /\ \A c \in Callers : pc[c] \in {"idle", "done"}
    BY DEF AtRest
  <2>1. \A d : ~Runs(d, jobs)
    BY NobodyThere
  <2>2. waitT = <<>> /\ \A d : Waits(d, waitT) = {}
    BY NobodyThere DEF NobodyForgotten
  <2>3. shut # "tearing" /\ waitI = <<>> /\ \A d : Waits(d, waitI) = {}
    BY <2>1, <2>2, NobodyThere DEF NobodyForgotten
  <2>4. \A c \in Callers : pc[c] \notin Starting \cup {"thrown", "caught", "reaping"}
    BY <2>1, <2>2, <2>3 DEF NobodyForgotten
  <2>5. \A c \in Callers : pc[c] \in {"idle", "queued", "working", "closing", "done"}
    <3>1. \A c \in Callers : pc[c] \in Steps
      BY DEF IInv, Scalars
    <3>2. QED  BY <2>4, <3>1 DEF Steps
  <2>6. \A r \in Requests : pc[r] \notin {"working", "closing"}
    BY <2>1, <2>3, CallerAssumption DEF NobodyForgotten, Nobody
  <2>7. queue = <<>>
    <3> SUFFICES ASSUME queue # <<>> PROVE FALSE
      OBVIOUS
    <3>1. /\ queue \in Seq(Outstanding) /\ 1 \in 1..Len(queue) /\ queue[1] \in Outstanding
          /\ \A i, j \in 1..Len(queue) : queue[i] = queue[j] => i = j
      BY TailIndex DEF IInv, Line
    <3>2. queue[1] \in Requests /\ queue[1] \in Callers /\ pc[queue[1]] = "queued"
      BY <2>5, <2>6, <3>1 DEF Outstanding, Callers
    <3>3. PICK i \in 1..Len(queue) : queue[i] = queue[1] /\ (i = 1 => Runs(queue[1], jobs))
      BY <3>2 DEF NobodyForgotten
    <3>4. QED  BY <2>1, <3>1, <3>3
  <2>8. ASSUME NEW c \in Callers PROVE pc[c] \in {"idle", "done"}
    <3>1. CASE c \in Requests
      <4>1. pc[c] # "queued"
        <5>1. 1..Len(queue) = {}
          BY <2>7
        <5>2. QED  BY <3>1, <5>1 DEF NobodyForgotten
      <4>2. QED  BY <2>5, <2>6, <3>1, <4>1
    <3>2. CASE c \in Checks
      BY <2>5, <3>2 DEF IInv, OneCheck
    <3>3. QED  BY <3>1, <3>2 DEF Callers
  <2>9. QED  BY <2>7, <2>8
<1>2. QED  BY <1>1, Invariance, NoLostWakeup, PTL
=============================================================================
