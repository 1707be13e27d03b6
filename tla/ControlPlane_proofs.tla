-------------------------- MODULE ControlPlane_proofs --------------------------
(***************************************************************************)
(* TypeOK, Truthful, CleanPool and NoCommitAfterWithdrawal hold of Spec,   *)
(* and it implements ManagerOperations, for every set of requests, every   *)
(* concurrency, queue and pool, and whatever the bounds Events, Revocable  *)
(* and Alone allow.                                                        *)
(* IInv says, of each operation, where its client and its promise are      *)
(* (Place), what its transaction has come to (Fate), what its manager was  *)
(* told (Told) and which rows it keeps (Locked); of the whole, who waits   *)
(* in which order (Lines), who occupies a slot (Slots) and what an ended   *)
(* pool leaves (Ends).  For the refinement, Shown adds how a statement     *)
(* finds its transaction, also one whose client has gone.                  *)
(* Attended, inductive beside it, says that nobody waits for what cannot   *)
(* come.                                                                   *)
(***************************************************************************)
EXTENDS ControlPlane, TLAPS, SequenceTheorems, FiniteSetTheorems

-----------------------------------------------------------------------------
\* The inductive invariant

Working == Phases \cup {"rollback"}
Locking == {"fence", "actor", "work", "recheck"}

\* Nothing of o has reached a server yet.
Fresh(o) ==
    /\ stmt[o] = "none" /\ reply[o] = "none" /\ tx[o] = "none"
    /\ socket[o] = "up" /\ locks[o] = {} /\ o \notin returned

\* While the connection is up, the client, which is at p, and the server agree
\* on the statement s, its reply r and the transaction x.
Agrees(p, s, r, x) ==
    \/ p = "begin" /\ \/ s = "begin" /\ r = "none" /\ x = "none"
                      \/ s = "none" /\ r = "ok" /\ x = "open"
    \/ p \in Locking /\ \/ s = p /\ r = "none" /\ x = "open"
                        \/ s = "none" /\ r = "ok" /\ x = "open"
                        \/ s = "none" /\ r = "error" /\ x = "failed"
    \/ p = "compile" /\ s = "none" /\ r = "none" /\ x = "open"
    \/ p = "commit" /\ \/ s = "commit" /\ r = "none" /\ x = "open"
                       \/ s = "none" /\ r = "ok" /\ x = "committed"
                       \/ s = "none" /\ r = "error" /\ x = "rolledback"
    \/ p = "discard" /\ \/ s = "discard" /\ r = "none" /\ x = "open"
                        \/ s = "none" /\ r = "ok" /\ x = "rolledback"
    \/ p = "rollback" /\ \/ s = "rollback" /\ r = "none" /\ x \in {"open", "failed", "rolledback"}
                         \/ s = "none" /\ r = "ok" /\ x = "rolledback"

Place(o) ==
    /\ pc[o] \in {"queued", "admitted", "connecting"} \/ (pc[o] = "idle" /\ o \in Requests)
           => Fresh(o)
    /\ pool[o] = "held" <=> pc[o] \in Working
    /\ pool[o] \in {"waiting", "opening"} => pc[o] = "connecting" \/ o \in late
    /\ o \in late => pc[o] \in {"settled", "answered"} /\ Fresh(o)
    /\ o \in returned => pc[o] \in {"settled", "answered", "solver", "idle"}
    /\ pc[o] \in Working /\ socket[o] = "up" => Agrees(pc[o], stmt[o], reply[o], tx[o])

\* The health check takes no row and is no request.
CheckPlace(k) ==
    /\ pc[k] \in {"idle", "admitted", "connecting", "begin", "work", "commit", "rollback", "solver"}
    /\ stmt[k] \in {"none", "begin", "work", "commit", "rollback"}
    /\ locks[k] = {}

Fate(o) ==
    /\ o \in returned => tx[o] \in {"committed", "rolledback"} /\ stmt[o] = "none"
    /\ o \in Previews => pc[o] # "commit" /\ stmt[o] # "commit" /\ tx[o] # "committed"
    /\ o \notin Previews => pc[o] # "discard"
    /\ pc[o] = "rollback" => failure[o] \in {"refused", "lost"}
    /\ pc[o] = "settled" /\ failure[o] = "none" =>
           stmt[o] = "none" /\ (o \notin Previews => tx[o] = "committed")
    /\ pc[o] = "settled" /\ failure[o] = "refused" =>
           stmt[o] = "none" /\ tx[o] \in {"none", "rolledback"}

Told(r) ==
    /\ pc[r] # "solver"
    /\ answer[r] # "none" <=> pc[r] = "answered"
    /\ answer[r] \in {"ok", "accepted"} =>
           stmt[r] = "none" /\ (r \notin Previews => tx[r] = "committed")
    /\ answer[r] = "rejected" => stmt[r] = "none" /\ tx[r] \in {"none", "rolledback"}
    /\ answer[r] = "ok" => lease[r] = "released"

\* Until its transaction ends it keeps the rows it has locked, and they keep
\* a restore with the fence to itself, and its manager's revocation, away.
Locked(r) ==
    /\ "fence" \in locks[r] => ~fenced
    /\ fenced => paused
    /\ "actor" \in locks[r] => r \notin revoked
    /\ stmt[r] = "commit" /\ tx[r] = "open" => locks[r] = {"fence", "actor"}
    /\ tx[r] = "open" /\ socket[r] = "up" /\ pc[r] \in Phases =>
         /\ pc[r] \notin {"begin", "fence"} \/ (pc[r] = "fence" /\ reply[r] = "ok")
                => "fence" \in locks[r]
         /\ pc[r] \notin {"begin", "fence", "actor"} \/ (pc[r] = "actor" /\ reply[r] = "ok")
                => "actor" \in locks[r]

Local(o) ==
    /\ Place(o) /\ Fate(o)
    /\ o \in Checks => CheckPlace(o)
    /\ o \in Requests => Told(o) /\ Locked(o)

\* Who waits in q is at w, and waits there once.
Line(q, f, w) ==
    /\ \A i \in 1..Len(q) : f[q[i]] = w
    /\ \A i, j \in 1..Len(q) : q[i] = q[j] => i = j

Lines == Line(queue, pc, "queued") /\ Line(poolQueue, pool, "waiting")

Busy == {"admitted", "connecting"} \cup Working

Slots ==
    /\ IsFiniteSet(active)
    /\ \A r \in Requests : r \in active <=> pc[r] \in Busy

Ends ==
    /\ close # "no" => closing
    /\ close = "ended" => active = {} /\ \A k \in Checks : pc[k] = "idle"

IInv ==
    /\ TypeOK /\ Lines /\ Slots /\ Ends
    /\ \A o \in Owners : Local(o)

-----------------------------------------------------------------------------
\* Lines

\* A line stays one while those in it stay where they wait.
LEMMA LineKept ==
    ASSUME NEW S, NEW q \in Seq(S), NEW f, NEW g, NEW w, Line(q, f, w),
           \A x \in S : f[x] = w => g[x] = w
    PROVE  Line(q, g, w)
BY DEF Line

\* The first may leave; one that does not wait yet may come last.
LEMMA LineTail ==
    ASSUME NEW S, NEW q \in Seq(S), NEW f, NEW g, NEW w, Line(q, f, w), q # <<>>,
           \A x \in S : f[x] = w /\ x # Head(q) => g[x] = w
    PROVE  /\ Head(q) \in S /\ f[Head(q)] = w
           /\ Tail(q) \in Seq(S) /\ Len(Tail(q)) <= Len(q) /\ Line(Tail(q), g, w)
<1>1. Len(q) \in Nat /\ 1 \in 1..Len(q) /\ Head(q) = q[1] /\ Head(q) \in S
  OBVIOUS
<1>2. /\ Tail(q) \in Seq(S) /\ Len(Tail(q)) = Len(q) - 1
      /\ \A i \in 1..Len(Tail(q)) : Tail(q)[i] = q[i + 1]
  BY HeadTailProperties
<1>3. \A i \in 1..Len(Tail(q)) : g[Tail(q)[i]] = w
  <2>1. TAKE i \in 1..Len(Tail(q))
  <2>2. i + 1 \in 1..Len(q) /\ i + 1 # 1
    BY <1>1, <1>2
  <2>3. q[i + 1] \in S /\ f[q[i + 1]] = w /\ q[i + 1] # q[1]
    BY <1>1, <2>2 DEF Line
  <2>4. QED  BY <1>1, <1>2, <2>3
<1>4. \A i, j \in 1..Len(Tail(q)) : Tail(q)[i] = Tail(q)[j] => i = j
  <2>1. TAKE i, j \in 1..Len(Tail(q))
  <2>2. i + 1 \in 1..Len(q) /\ j + 1 \in 1..Len(q)
    BY <1>1, <1>2
  <2>3. q[i + 1] = q[j + 1] => i + 1 = j + 1
    BY <2>2 DEF Line
  <2>4. QED  BY <1>2, <2>3
<1>5. QED  BY <1>1, <1>2, <1>3, <1>4 DEF Line

LEMMA LineAppend ==
    ASSUME NEW S, NEW q \in Seq(S), NEW f, NEW g, NEW w, NEW x \in S, Line(q, f, w),
           f[x] # w, g[x] = w, \A y \in S : f[y] = w => g[y] = w
    PROVE  Append(q, x) \in Seq(S) /\ Len(Append(q, x)) = Len(q) + 1 /\ Line(Append(q, x), g, w)
BY DEF Line

\* One that leaves, leaves the others in line.
LEMMA LineLeaves ==
    ASSUME NEW S, NEW q \in Seq(S), NEW f, NEW g, NEW w, NEW x, NEW r, Line(q, f, w),
           Leaves(x, q, r), \A y \in S : f[y] = w /\ y # x => g[y] = w
    PROVE  Line(r, g, w)
<1>1. PICK k \in 1..Len(q) : q[k] = x /\ r = SubSeq(q, 1, k - 1) \o SubSeq(q, k + 1, Len(q))
  BY DEF Leaves
<1> DEFINE At(i) == IF i < k THEN i ELSE i + 1
           before == SubSeq(q, 1, k - 1)
           after == SubSeq(q, k + 1, Len(q))
<1>2. k \in Int /\ 1 <= k /\ k <= Len(q) /\ Len(q) \in Nat
  BY <1>1
<1>3. /\ before \in Seq(S) /\ Len(before) = k - 1
      /\ \A i \in 1..(k - 1) : before[i] = q[i]
  BY <1>2
<1>4. /\ after \in Seq(S) /\ Len(after) = Len(q) - k
      /\ \A i \in 1..(Len(q) - k) : after[i] = q[k + i]
  BY <1>2
<1>5. r = before \o after
  BY <1>1
<1> HIDE DEF before, after
<1>6. /\ r \in Seq(S) /\ Len(r) = Len(q) - 1
      /\ \A i \in 1..(Len(q) - 1) : r[i] = IF i <= k - 1 THEN before[i] ELSE after[i - (k - 1)]
  <2>1. /\ r \in Seq(S) /\ Len(r) = Len(before) + Len(after)
        /\ \A i \in 1..(Len(before) + Len(after)) :
               r[i] = IF i <= Len(before) THEN before[i] ELSE after[i - Len(before)]
    BY <1>3, <1>4, <1>5, ConcatProperties, Zenon
  <2>2. Len(before) + Len(after) = Len(q) - 1
    BY <1>2, <1>3, <1>4
  <2>3. QED  BY <1>3, <2>1, <2>2
<1>7. ASSUME NEW i \in 1..Len(r)
       PROVE  At(i) \in 1..Len(q) /\ At(i) # k /\ r[i] = q[At(i)]
  <2>1. i \in 1..(Len(q) - 1)
    BY <1>6
  <2>2. At(i) \in 1..Len(q) /\ At(i) # k
    BY <1>2, <2>1
  <2>3. CASE i < k
    BY <1>2, <1>3, <1>6, <2>1, <2>2, <2>3
  <2>4. CASE ~(i < k)
    <3>1. r[i] = after[i - (k - 1)]
      BY <1>2, <1>6, <2>1, <2>4
    <3>2. i - (k - 1) \in 1..(Len(q) - k) /\ k + (i - (k - 1)) = i + 1
      BY <1>2, <2>1, <2>4
    <3>3. QED  BY <1>4, <2>2, <2>4, <3>1, <3>2
  <2>5. QED  BY <2>3, <2>4
<1>8. \A i \in 1..Len(r) : g[r[i]] = w
  <2>1. TAKE i \in 1..Len(r)
  <2>2. At(i) \in 1..Len(q) /\ At(i) # k /\ r[i] = q[At(i)]
    BY <1>7
  <2> HIDE DEF At
  <2>3. q[At(i)] \in S /\ f[q[At(i)]] = w /\ q[At(i)] # x
    BY <1>1, <2>2 DEF Line
  <2>4. QED  BY <2>2, <2>3
<1>9. \A i, j \in 1..Len(r) : r[i] = r[j] => i = j
  <2>1. TAKE i, j \in 1..Len(r)
  <2>2. At(i) \in 1..Len(q) /\ r[i] = q[At(i)] /\ At(j) \in 1..Len(q) /\ r[j] = q[At(j)]
    BY <1>7
  <2>3. r[i] = r[j] => At(i) = At(j)
    BY <2>2 DEF Line
  <2>4. At(i) = At(j) => i = j
    BY <1>2, <1>6
  <2>5. QED  BY <2>3, <2>4
<1>10. QED  BY <1>8, <1>9 DEF Line

LEMMA LeavesShorter ==
    ASSUME NEW S, NEW q \in Seq(S), NEW x, NEW r, Leaves(x, q, r)
    PROVE  /\ x \in S /\ r \in Seq(S) /\ Len(r) <= Len(q)
           /\ \A f, w : Line(q, f, w) => f[x] = w
<1>1. PICK k \in 1..Len(q) : q[k] = x /\ r = SubSeq(q, 1, k - 1) \o SubSeq(q, k + 1, Len(q))
  BY DEF Leaves
<1> DEFINE before == SubSeq(q, 1, k - 1)
           after == SubSeq(q, k + 1, Len(q))
<1>2. k \in Int /\ 1 <= k /\ k <= Len(q) /\ Len(q) \in Nat
  BY <1>1
<1>3. before \in Seq(S) /\ Len(before) = k - 1 /\ after \in Seq(S) /\ Len(after) = Len(q) - k
  BY <1>2
<1>4. r = before \o after
  BY <1>1
<1> HIDE DEF before, after
<1>5. x \in S /\ r \in Seq(S) /\ Len(r) <= Len(q)
  <2>1. r \in Seq(S) /\ Len(r) = Len(before) + Len(after)
    BY <1>3, <1>4, ConcatProperties, Zenon
  <2>2. x \in S
    BY <1>1, ElementOfSeq
  <2>3. Len(r) <= Len(q)
    BY <1>2, <1>3, <2>1
  <2>4. QED  BY <2>1, <2>2, <2>3
<1>6. \A f, w : Line(q, f, w) => f[x] = w
  <2>1. TAKE f, w
  <2>2. HAVE Line(q, f, w)
  <2>3. QED  BY <1>1, <2>2 DEF Line
<1>7. QED  BY <1>5, <1>6

-----------------------------------------------------------------------------
\* One operation

\* Nothing but the place of p has changed, and that only from the queue to a slot.
Same(p) ==
    /\ pc'[p] = pc[p] \/ (pc[p] = "queued" /\ pc'[p] = "admitted")
    /\ pool'[p] = pool[p] /\ failure'[p] = failure[p] /\ socket'[p] = socket[p]
    /\ stmt'[p] = stmt[p] /\ reply'[p] = reply[p] /\ tx'[p] = tx[p] /\ locks'[p] = locks[p]
    /\ (p \in late' <=> p \in late) /\ (p \in returned' <=> p \in returned)
    /\ p \in Requests => /\ answer'[p] = answer[p] /\ lease'[p] = lease[p]
                         /\ (p \in revoked' <=> p \in revoked)
    /\ paused' = paused /\ fenced' = fenced

\* An action that leaves p the same keeps what IInv says of it.
LEMMA SameLocal ==
    ASSUME NEW p \in Owners, Local(p), Same(p)
    PROVE  Local(p)'
<1>1. CASE pc'[p] = pc[p]
  <2>1. Place(p)' /\ Fate(p)'
    BY <1>1 DEF Local, Same, Place, Fate, Fresh
  <2>2. p \in Checks => CheckPlace(p)'
    BY <1>1 DEF Local, Same, CheckPlace
  <2>3. p \in Requests => Told(p)' /\ Locked(p)'
    BY <1>1 DEF Local, Same, Told, Locked
  <2>4. QED  BY <2>1, <2>2, <2>3 DEF Local
<1>2. CASE pc[p] = "queued" /\ pc'[p] = "admitted"
  BY <1>2 DEF Local, Same, Place, Fate, CheckPlace, Told, Locked, Fresh, Working, Phases
<1>3. QED  BY <1>1, <1>2 DEF Same

LEMMA InitInv == Init => IInv
<1> SUFFICES ASSUME Init PROVE IInv  OBVIOUS
<1>1. Cardinality({}) = 0 /\ IsFiniteSet({})
  BY FS_EmptySet
<1>2. TypeOK
  <2>1. /\ Cardinality(active) <= Concurrency /\ active \subseteq Requests
        /\ queue \in Seq(Requests) /\ Len(queue) <= MaxQueued /\ poolQueue \in Seq(Owners)
    BY <1>1, LimitAssumption DEF Init
  <2>2. QED  BY <2>1 DEF Init, TypeOK, Phases, Unread, Failures
<1>3. Lines /\ Slots /\ Ends
  BY <1>1 DEF Init, Lines, Line, Slots, Ends, Busy, Working, Phases, Owners
<1>4. ASSUME NEW o \in Owners PROVE Local(o)
  BY OwnerAssumption
     DEF Init, Local, Place, Fate, CheckPlace, Told, Locked, Fresh, Working, Phases, Owners
<1>5. QED  BY <1>2, <1>3, <1>4 DEF IInv

-----------------------------------------------------------------------------
\* The conjuncts of TypeOK, by the state they are about

AdmissionTypes ==
    /\ closing \in BOOLEAN
    /\ close \in {"no", "compiler", "settling", "ended", "failed"}
    /\ active \subseteq Requests /\ Cardinality(active) <= Concurrency
    /\ queue \in Seq(Requests) /\ Len(queue) <= MaxQueued
    /\ pc \in [Owners -> Phases \cup {"idle", "queued", "admitted", "connecting",
                                      "rollback", "solver", "settled", "answered"}]
    /\ failure \in [Owners -> Failures]
    /\ lease \in [Requests -> {"held", "releasing", "released"}]
    /\ answer \in [Requests -> {"none", "ok", "accepted", "rejected", "unknown"}]

PoolTypes ==
    /\ poolQueue \in Seq(Owners)
    /\ pool \in [Owners -> {"none", "waiting", "opening", "held"}]
    /\ late \subseteq Requests /\ returned \subseteq Owners

ServerTypes ==
    /\ stmt \in [Owners -> Phases \cup {"none", "rollback"}]
    /\ reply \in [Owners -> Unread]
    /\ tx \in [Owners -> {"none", "open", "failed", "committed", "rolledback"}]
    /\ locks \in [Owners -> SUBSET {"fence", "actor"}]

WorldTypes ==
    /\ aborted \in [Requests -> {"no", "lease", "request"}]
    /\ socket \in [Owners -> {"up", "ended", "lost"}]
    /\ revoked \subseteq Requests /\ paused \in BOOLEAN /\ fenced \in BOOLEAN

LEMMA TypeParts == TypeOK <=> AdmissionTypes /\ PoolTypes /\ ServerTypes /\ WorldTypes
BY DEF TypeOK, AdmissionTypes, PoolTypes, ServerTypes, WorldTypes

LEMMA Whole ==
    ASSUME AdmissionTypes', PoolTypes', ServerTypes', WorldTypes', Lines', Slots', Ends',
           \A o \in Owners : Local(o)'
    PROVE  IInv'
<1>1. TypeOK'
  BY DEF TypeOK, AdmissionTypes, PoolTypes, ServerTypes, WorldTypes
<1>2. QED  BY <1>1 DEF IInv

\* What an action leaves alone keeps its part of the invariant.
LEMMA ServerKept == ServerTypes /\ UNCHANGED serverVars => ServerTypes'
BY DEF ServerTypes, serverVars

LEMMA WorldKept == WorldTypes /\ UNCHANGED <<aborted, socket, worldVars>> => WorldTypes'
BY DEF WorldTypes, worldVars

LEMMA PoolKept == PoolTypes /\ UNCHANGED poolVars => PoolTypes'
BY DEF PoolTypes, poolVars

LEMMA AdmissionKept ==
    ASSUME AdmissionTypes, Slots, Ends, Line(queue, pc, "queued"),
           UNCHANGED <<admissionVars, pc, failure, answerVars>>
    PROVE  (AdmissionTypes /\ Slots /\ Ends /\ Line(queue, pc, "queued"))'
BY DEF AdmissionTypes, Slots, Ends, Line, admissionVars, answerVars

-----------------------------------------------------------------------------
\* Settlement

\* The operations other than o: the head of the queue may have been admitted.
Others(o) ==
    \A p \in Owners : p # o =>
        /\ pc'[p] = pc[p] \/ (pc[p] = "queued" /\ pc'[p] = "admitted")
        /\ failure'[p] = failure[p]
        /\ p \in Requests => lease'[p] = lease[p] /\ answer'[p] = answer[p]

\* What the settlement of an execution leaves: its slot is free or taken by the
\* oldest request of the queue, and o alone has settled.
LEMMA Settling ==
    ASSUME IInv, NEW o \in Owners, NEW why \in Failures, pc[o] \in Busy, Settle(o, why)
    PROVE  /\ (AdmissionTypes /\ Slots /\ Ends /\ Line(queue, pc, "queued"))'
           /\ Others(o)
           /\ pc'[o] = SettledPc(o, why)
           /\ failure'[o] = IF o \in Checks THEN "none" ELSE why
           /\ o \in Requests => lease'[o] = "releasing" /\ answer'[o] = answer[o]
<1>1. AdmissionTypes /\ Slots /\ Ends /\ Line(queue, pc, "queued")
  BY TypeParts DEF IInv, Lines
<1>2. pc[o] # "queued" /\ pc[o] # "idle"
  BY DEF Busy, Working, Phases
<1>3. o \in Requests => o \in active
  BY <1>1 DEF Slots
<1>4. SettledPc(o, why) \in {"settled", "solver", "idle"} /\ SettledPc(o, why) \notin Busy
      /\ SettledPc(o, why) # "queued"
  BY DEF SettledPc, Busy, Working, Phases
<1>5. /\ failure' \in [Owners -> Failures]
      /\ lease' \in [Requests -> {"held", "releasing", "released"}]
      /\ failure'[o] = IF o \in Checks THEN "none" ELSE why
      /\ o \in Requests => lease'[o] = "releasing" /\ answer'[o] = answer[o]
      /\ \A p \in Owners : p # o =>
            /\ failure'[p] = failure[p]
            /\ p \in Requests => lease'[p] = lease[p] /\ answer'[p] = answer[p]
  BY <1>1, OwnerAssumption DEF Settle, LeaseOnSettle, AdmissionTypes, Failures, Owners
<1>6. IsFiniteSet(active) /\ Cardinality(active) \in Nat /\ Cardinality(active) <= Concurrency
  BY <1>1, FS_CardinalityType DEF Slots, AdmissionTypes
<1>7. IsFiniteSet(active \ {o})
      /\ Cardinality(active \ {o}) = IF o \in active THEN Cardinality(active) - 1 ELSE Cardinality(active)
  BY <1>6, FS_RemoveElement
<1>8. CASE o \in active /\ ~closing /\ queue # <<>>
  <2> DEFINE n == Head(queue)
  <2>1. /\ active' = (active \ {o}) \cup {n} /\ queue' = Tail(queue)
        /\ pc' = [pc EXCEPT ![o] = SettledPc(o, why), ![n] = "admitted"]
        /\ UNCHANGED <<closing, close, answer>>
    BY <1>8 DEF Settle
  <2> HIDE DEF n
  <2>2. n \in Requests /\ pc[n] = "queued" /\ queue \in Seq(Requests)
    <3>1. queue \in Seq(Requests)
      BY <1>1 DEF AdmissionTypes
    <3>2. Head(queue) \in Requests /\ pc[Head(queue)] = "queued"
      BY <1>1, <1>8, <3>1, HeadTailProperties DEF Line
    <3>3. QED  BY <3>1, <3>2 DEF n
  <2>3. n # o /\ n \notin active /\ n \in Owners
    BY <1>1, <1>2, <2>2 DEF Slots, Busy, Working, Phases, Owners
  <2>4. /\ pc'[o] = SettledPc(o, why) /\ pc'[n] = "admitted"
        /\ \A p \in Owners : p # o /\ p # n => pc'[p] = pc[p]
    BY <1>1, <2>1, <2>2, <2>3 DEF AdmissionTypes
  <2>5. Tail(queue) \in Seq(Requests) /\ Len(Tail(queue)) <= Len(queue) /\ Line(Tail(queue), pc', "queued")
    <3>1. \A x \in Requests : pc[x] = "queued" /\ x # Head(queue) => pc'[x] = "queued"
      BY <1>2, <2>4 DEF n, Owners
    <3>2. QED  BY <1>1, <1>8, <2>2, <3>1, LineTail
  <2>6. IsFiniteSet(active') /\ Cardinality(active') <= Concurrency
    <3>1. n \notin active \ {o}
      BY <2>3
    <3>2. IsFiniteSet(active') /\ Cardinality(active') = Cardinality(active \ {o}) + 1
      BY <1>7, <2>1, <3>1, FS_AddElement
    <3>3. QED  BY <1>6, <1>7, <1>8, <3>2
  <2>7. AdmissionTypes'
    <3>1. pc' \in [Owners -> Phases \cup {"idle", "queued", "admitted", "connecting",
                                          "rollback", "solver", "settled", "answered"}]
      BY <1>1, <1>4, <2>1 DEF AdmissionTypes
    <3>2. active' \subseteq Requests
      BY <1>1, <2>1, <2>2 DEF AdmissionTypes
    <3>3. Len(queue') <= MaxQueued
      BY <1>1, <2>1, <2>2, <2>5, LimitAssumption DEF AdmissionTypes
    <3>4. QED  BY <1>1, <1>5, <2>1, <2>5, <2>6, <3>1, <3>2, <3>3 DEF AdmissionTypes
  <2>8. Slots'
    <3>1. \A r \in Requests : r \in active' <=> pc'[r] \in Busy
      BY <1>1, <1>4, <2>1, <2>2, <2>3, <2>4 DEF Slots, Busy, Owners
    <3>2. QED  BY <2>6, <3>1 DEF Slots
  <2>9. Ends'
    BY <1>1, <1>8, <2>1 DEF Ends
  <2>10. Line(queue, pc, "queued")'
    BY <2>1, <2>5 DEF Line
  <2>11. Others(o)
    BY <1>5, <2>2, <2>4 DEF Others
  <2>12. QED  BY <1>5, <2>4, <2>7, <2>8, <2>9, <2>10, <2>11
<1>9. CASE ~(o \in active /\ ~closing /\ queue # <<>>)
  <2>1. /\ active' = active \ {o} /\ queue' = queue
        /\ pc' = [pc EXCEPT ![o] = SettledPc(o, why)]
        /\ UNCHANGED <<closing, close, answer>>
    BY <1>9 DEF Settle
  <2>2. /\ pc'[o] = SettledPc(o, why)
        /\ \A p \in Owners : p # o => pc'[p] = pc[p]
    BY <1>1, <2>1 DEF AdmissionTypes
  <2>3. IsFiniteSet(active') /\ Cardinality(active') <= Concurrency
    BY <1>6, <1>7, <2>1, LimitAssumption
  <2>4. AdmissionTypes'
    <3>1. pc' \in [Owners -> Phases \cup {"idle", "queued", "admitted", "connecting",
                                          "rollback", "solver", "settled", "answered"}]
      BY <1>1, <1>4, <2>1 DEF AdmissionTypes
    <3>2. QED  BY <1>1, <1>5, <2>1, <2>3, <3>1 DEF AdmissionTypes
  <2>5. Slots'
    <3>1. \A r \in Requests : r \in active' <=> pc'[r] \in Busy
      BY <1>1, <1>4, <2>1, <2>2 DEF Slots, Owners
    <3>2. QED  BY <2>3, <3>1 DEF Slots
  <2>6. Ends'
    <3>1. SUFFICES ASSUME close = "ended"
                   PROVE  active' = {} /\ \A k \in Checks : pc'[k] = "idle"
      BY <1>1, <2>1 DEF Ends
    <3>2. active = {} /\ \A k \in Checks : pc[k] = "idle"
      BY <1>1, <3>1 DEF Ends
    <3>3. QED  BY <1>2, <2>1, <2>2, <3>2 DEF Owners
  <2>7. Line(queue, pc, "queued")'
    <3>1. \A x \in Requests : pc[x] = "queued" => pc'[x] = "queued"
      BY <1>2, <2>2 DEF Owners
    <3>2. Line(queue, pc', "queued")
      BY <1>1, <3>1, LineKept DEF AdmissionTypes
    <3>3. QED  BY <2>1, <3>2
  <2>8. Others(o)
    BY <1>5, <2>2 DEF Others
  <2>9. QED  BY <1>5, <2>2, <2>4, <2>5, <2>6, <2>7, <2>8
<1>10. QED  BY <1>8, <1>9

-----------------------------------------------------------------------------
\* The client of a transaction

\* The operation ends with its transaction: what it throws agrees with what the
\* server has done, and a client whose socket is up has nothing left to do.
LEMMA EndInv ==
    ASSUME IInv, NEW o \in Owners, NEW why \in Failures, pc[o] \in Working, End(o, why),
           UNCHANGED <<aborted, socket, worldVars>>,
           socket[o] = "up" => stmt[o] = "none" /\ tx[o] \in {"committed", "rolledback"},
           why = "none" => stmt[o] = "none" /\ (o \notin Previews => tx[o] = "committed"),
           why = "refused" => stmt[o] = "none" /\ tx[o] \in {"none", "rolledback"}
    PROVE  IInv'
<1>1. Settle(o, why) /\ Release(o) /\ reply' = [reply EXCEPT ![o] = "none"]
      /\ UNCHANGED <<stmt, tx, locks>>
  BY DEF End
<1>2. pc[o] \in Busy
  BY DEF Busy
<1>3. /\ (AdmissionTypes /\ Slots /\ Ends /\ Line(queue, pc, "queued"))'
      /\ Others(o)
      /\ pc'[o] = SettledPc(o, why)
      /\ failure'[o] = IF o \in Checks THEN "none" ELSE why
      /\ o \in Requests => lease'[o] = "releasing" /\ answer'[o] = answer[o]
  BY <1>1, <1>2, Settling
<1>4. AdmissionTypes /\ PoolTypes /\ ServerTypes /\ WorldTypes /\ Local(o)
      /\ Line(poolQueue, pool, "waiting")
  BY TypeParts DEF IInv, Lines
<1>5. pool[o] = "held" /\ o \notin late /\ o \notin returned
  BY <1>4 DEF Local, Place, Working, Phases
<1>6. /\ pool'[o] = "none" /\ (o \in returned' => socket[o] = "up")
      /\ late' = late /\ poolQueue' = poolQueue
      /\ \A p \in Owners : p # o => pool'[p] = pool[p] /\ (p \in returned' <=> p \in returned)
  BY <1>1, <1>4, <1>5 DEF Release, PoolTypes
<1>7. PoolTypes'
  BY <1>1, <1>4 DEF Release, PoolTypes
<1>8. ServerTypes'
  BY <1>1, <1>4 DEF ServerTypes, Unread
<1>9. Line(poolQueue, pool, "waiting")'
  BY <1>4, <1>5, <1>6, LineKept DEF PoolTypes
<1>10. ASSUME NEW p \in Owners, p # o PROVE Local(p)'
  <2>1. Same(p)
    BY <1>1, <1>3, <1>4, <1>6, <1>10 DEF Same, Others, ServerTypes, worldVars
  <2>2. QED  BY <2>1, SameLocal DEF IInv
<1>11. Local(o)'
  <2>1. pc'[o] \in {"settled", "solver", "idle"} /\ (o \in Requests <=> pc'[o] = "settled")
    BY <1>3, OwnerAssumption DEF SettledPc, Owners
  <2>2. UNCHANGED <<stmt, tx, locks, socket, late, aborted, revoked, paused, fenced>>
    BY <1>1, <1>6 DEF worldVars
  <2>3. Place(o)'
    BY <1>5, <1>6, <2>1, <2>2 DEF Place, Fresh, Working, Phases
  <2>4. Fate(o)'
    BY <1>3, <1>4, <1>6, <2>1, <2>2, OwnerAssumption DEF Local, Fate, Owners
  <2>5. o \in Checks => CheckPlace(o)'
    BY <1>4, <2>1, <2>2, OwnerAssumption DEF Local, CheckPlace
  <2>6. o \in Requests => Told(o)' /\ Locked(o)'
    <3>1. SUFFICES ASSUME o \in Requests PROVE Told(o)' /\ Locked(o)'
      OBVIOUS
    <3>2. pc[o] # "answered" /\ answer[o] = "none" /\ answer'[o] = "none"
      BY <1>3, <1>4, <3>1 DEF Local, Told, Working, Phases
    <3>3. Told(o)'
      BY <2>1, <3>1, <3>2 DEF Told
    <3>4. Locked(o)'
      BY <1>4, <2>1, <2>2, <3>1 DEF Local, Locked, Phases
    <3>5. QED  BY <3>3, <3>4
  <2>7. QED  BY <2>3, <2>4, <2>5, <2>6 DEF Local
<1>12. WorldTypes'
  BY <1>4, WorldKept
<1>13. QED  BY <1>3, <1>7, <1>8, <1>9, <1>10, <1>11, <1>12, Whole DEF Lines

\* The steps of a client that keep it at work, on its own statement alone.
AtWork(o) ==
    /\ pc[o] \in Working /\ pc'[o] \in Working
    /\ pc' = [pc EXCEPT ![o] = pc'[o]] /\ stmt' = [stmt EXCEPT ![o] = stmt'[o]]
    /\ reply' = [reply EXCEPT ![o] = "none"] /\ failure' = [failure EXCEPT ![o] = failure'[o]]
    /\ stmt'[o] \in Phases \cup {"none", "rollback"} /\ failure'[o] \in Failures
    /\ UNCHANGED <<admissionVars, poolVars, tx, locks, answerVars, aborted, socket, worldVars>>

LEMMA AtWorkInv ==
    ASSUME IInv, NEW o \in Owners, AtWork(o), Local(o)'
    PROVE  IInv'
<1>1. AdmissionTypes /\ PoolTypes /\ ServerTypes /\ WorldTypes /\ Slots /\ Ends /\ Lines
  BY TypeParts DEF IInv
<1>2. \A p \in Owners : p # o => pc'[p] = pc[p] /\ stmt'[p] = stmt[p] /\ reply'[p] = reply[p]
                                 /\ failure'[p] = failure[p]
  BY <1>1 DEF AtWork, AdmissionTypes, ServerTypes
<1>3. AdmissionTypes' /\ ServerTypes' /\ PoolTypes' /\ WorldTypes'
  <2>1. pc'[o] \in Phases \cup {"rollback"}
    BY DEF AtWork, Working
  <2>2. AdmissionTypes'
    BY <1>1, <2>1 DEF AtWork, AdmissionTypes, admissionVars, answerVars
  <2>3. ServerTypes'
    BY <1>1 DEF AtWork, ServerTypes, Unread
  <2>4. PoolTypes' /\ WorldTypes'
    BY <1>1, PoolKept, WorldKept DEF AtWork
  <2>5. QED  BY <2>2, <2>3, <2>4
<1>4. pc[o] # "queued" /\ pc[o] \in Busy /\ pc'[o] \in Busy /\ pc[o] # "idle"
  BY DEF AtWork, Working, Phases, Busy
<1>5. Lines'
  <2>1. \A x \in Requests : pc[x] = "queued" => pc'[x] = "queued"
    BY <1>2, <1>4 DEF Owners
  <2>2. Line(queue, pc', "queued")
    BY <1>1, <2>1, LineKept DEF Lines, AdmissionTypes
  <2>3. QED  BY <1>1, <2>2 DEF Lines, AtWork, admissionVars, poolVars, Line
<1>6. Slots'
  BY <1>1, <1>2, <1>4 DEF Slots, AtWork, admissionVars, Owners
<1>7. Ends'
  <2>1. \A k \in Checks : pc[k] = "idle" => pc'[k] = "idle"
    BY <1>2, <1>4 DEF Owners
  <2>2. QED  BY <1>1, <2>1 DEF Ends, AtWork, admissionVars
<1>8. ASSUME NEW p \in Owners, p # o PROVE Local(p)'
  <2>1. Same(p)
    BY <1>2, <1>8 DEF Same, AtWork, admissionVars, poolVars, answerVars, worldVars
  <2>2. QED  BY <2>1, SameLocal DEF IInv
<1>9. QED  BY <1>3, <1>5, <1>6, <1>7, <1>8, Whole DEF AtWork

LEMMA RollBackInv ==
    ASSUME IInv, NEW o \in Owners, NEW why \in {"refused", "lost"}, pc[o] \in Working,
           RollBack(o, why), UNCHANGED <<aborted, socket, worldVars>>,
           socket[o] = "up" => tx[o] \in {"open", "failed", "rolledback"}
    PROVE  IInv'
<1>1. CASE socket[o] = "up"
  <2>1. AdmissionTypes /\ ServerTypes /\ Local(o)
    BY TypeParts DEF IInv
  <2>2. /\ pc' = [pc EXCEPT ![o] = "rollback"] /\ stmt' = [stmt EXCEPT ![o] = "rollback"]
        /\ reply' = [reply EXCEPT ![o] = "none"] /\ failure' = [failure EXCEPT ![o] = why]
        /\ UNCHANGED <<admissionVars, poolVars, tx, locks, answerVars>>
    BY <1>1 DEF RollBack
  <2>3. pc'[o] = "rollback" /\ stmt'[o] = "rollback" /\ reply'[o] = "none" /\ failure'[o] = why
    BY <2>1, <2>2 DEF AdmissionTypes, ServerTypes
  <2>4. AtWork(o)
    BY <2>2, <2>3 DEF AtWork, Working, Failures
  <2>5. UNCHANGED <<pool, late, returned, tx, locks, answer, lease, socket, revoked, paused, fenced>>
    BY <2>2 DEF poolVars, answerVars, worldVars
  <2>6. Local(o)'
    <3>1. Place(o)'
      BY <1>1, <2>1, <2>3, <2>5 DEF Local, Place, Agrees, Working, Phases, Locking
    <3>2. Fate(o)'
      BY <2>1, <2>3, <2>5 DEF Local, Place, Fate, Working, Phases
    <3>3. o \in Checks => CheckPlace(o)'
      BY <2>1, <2>3, <2>5 DEF Local, CheckPlace
    <3>4. o \in Requests => Told(o)' /\ Locked(o)'
      <4>1. SUFFICES ASSUME o \in Requests PROVE Told(o)' /\ Locked(o)'
        OBVIOUS
      <4>2. pc[o] # "answered"
        BY DEF Working, Phases
      <4>3. Told(o)'
        BY <2>1, <2>3, <2>5, <4>1, <4>2 DEF Local, Told
      <4>4. Locked(o)'
        BY <2>1, <2>3, <2>5, <4>1 DEF Local, Locked, Phases
      <4>5. QED  BY <4>3, <4>4
    <3>5. QED  BY <3>1, <3>2, <3>3, <3>4 DEF Local
  <2>7. QED  BY <2>4, <2>6, AtWorkInv
<1>2. CASE socket[o] # "up"
  <2>1. End(o, "lost")
    BY <1>2 DEF RollBack
  <2>2. QED  BY <1>2, <2>1, EndInv DEF Failures
<1>3. QED  BY <1>1, <1>2

\* The next phase starts with the rows of the earlier ones.
LEMMA SendInv ==
    ASSUME IInv, NEW o \in Owners, NEW s \in Phases \ {"begin"}, pc[o] \in Phases, Send(o, s),
           UNCHANGED <<aborted, socket, worldVars>>, socket[o] = "up", tx[o] = "open",
           o \in Previews => s # "commit", o \notin Previews => s # "discard",
           o \in Checks => s \in {"work", "commit"},
           o \in Requests => /\ s # "fence" => "fence" \in locks[o]
                             /\ s \notin {"fence", "actor"} => "actor" \in locks[o]
    PROVE  IInv'
<1>1. AdmissionTypes /\ ServerTypes /\ Local(o)
  BY TypeParts DEF IInv
<1>2. /\ pc' = [pc EXCEPT ![o] = s]
      /\ stmt' = [stmt EXCEPT ![o] = IF s = "compile" THEN "none" ELSE s]
      /\ reply' = [reply EXCEPT ![o] = "none"]
      /\ UNCHANGED <<admissionVars, poolVars, failure, tx, locks, answerVars>>
  BY DEF Send
<1>3. pc'[o] = s /\ stmt'[o] = (IF s = "compile" THEN "none" ELSE s) /\ reply'[o] = "none"
  BY <1>1, <1>2 DEF AdmissionTypes, ServerTypes
<1>4. AtWork(o)
  BY <1>1, <1>2, <1>3 DEF AtWork, Working, AdmissionTypes
<1>5. UNCHANGED <<pool, late, returned, failure, tx, locks, answer, lease, socket, revoked, paused, fenced>>
  BY <1>2 DEF poolVars, answerVars, worldVars
<1>6. Place(o)'
  BY <1>1, <1>3, <1>5 DEF Local, Place, Agrees, Working, Phases, Locking
<1>7. Fate(o)'
  BY <1>1, <1>3, <1>5 DEF Local, Place, Fate, Working, Phases
<1>8. o \in Checks => CheckPlace(o)'
  BY <1>1, <1>3, <1>5 DEF Local, CheckPlace
<1>9. ASSUME o \in Requests PROVE Told(o)' /\ Locked(o)'
  <2>1. pc[o] # "answered" /\ s # "answered" /\ s # "solver"
    BY DEF Phases
  <2>2. Told(o)'
    BY <1>1, <1>3, <1>5, <1>9, <2>1 DEF Local, Told
  <2>3. locks[o] \subseteq {"fence", "actor"}
    BY <1>1 DEF ServerTypes
  <2>4. Locked(o)'
    BY <1>1, <1>3, <1>5, <1>9, <2>3 DEF Local, Locked, Phases
  <2>5. QED  BY <2>2, <2>4
<1>10. Local(o)'
  BY <1>6, <1>7, <1>8, <1>9 DEF Local
<1>11. QED  BY <1>4, <1>10, AtWorkInv

-----------------------------------------------------------------------------
\* The answers of the server and of the compiler

LEMMA PhaseReturnsInv == ASSUME IInv, NEW o \in Owners, PhaseReturns(o) PROVE IInv'
<1>1. Local(o) /\ pc[o] \in Between /\ pc[o] \in Working /\ UNCHANGED <<aborted, socket, worldVars>>
  BY DEF IInv, PhaseReturns, Between, Working
<1>2. pc[o] \in {"begin"} \cup Locking
  BY <1>1 DEF Between, Phases, Locking
<1>3. socket[o] = "up" => Agrees(pc[o], stmt[o], reply[o], tx[o])
  BY <1>1 DEF Local, Place
<1>4. CASE Returned(o, "ok") /\ Send(o, NextPhase(o, pc[o]))
  <2>1. socket[o] = "up" /\ reply[o] = "ok" /\ tx[o] = "open"
    BY <1>2, <1>3, <1>4 DEF Returned, Agrees, Locking
  <2>2. o \in Requests <=> o \notin Checks
    BY OwnerAssumption DEF Owners
  <2>3. o \in Checks => pc[o] \in {"begin", "work"}
    BY <1>1, <1>2 DEF Local, CheckPlace, Locking
  <2> DEFINE s == NextPhase(o, pc[o])
  <2>4. s \in Phases \ {"begin"}
    BY <1>2 DEF NextPhase, Ending, Phases, Locking
  <2>5. (o \in Previews => s # "commit") /\ (o \notin Previews => s # "discard")
    BY <1>2, <2>2, OwnerAssumption DEF NextPhase, Ending, Locking
  <2>6. o \in Checks => s \in {"work", "commit"}
    BY <2>2, <2>3, OwnerAssumption DEF NextPhase, Ending
  <2>7. o \in Requests => /\ s # "fence" => "fence" \in locks[o]
                          /\ s \notin {"fence", "actor"} => "actor" \in locks[o]
    BY <1>1, <1>2, <2>1, <2>2 DEF Local, Locked, NextPhase, Ending, Locking, Phases
  <2>8. pc[o] \in Phases
    BY <1>1 DEF Between
  <2> HIDE DEF s
  <2>9. Send(o, s)
    BY <1>4 DEF s
  <2>10. QED  BY <1>1, <2>1, <2>4, <2>5, <2>6, <2>7, <2>8, <2>9, SendInv
<1>5. CASE Returned(o, "error") /\ RollBack(o, "refused")
  <2>1. tx[o] = "failed"
    BY <1>2, <1>3, <1>5 DEF Returned, Agrees, Locking
  <2>2. QED  BY <1>1, <1>5, <2>1, RollBackInv
<1>6. CASE Rejected(o) /\ RollBack(o, "lost")
  BY <1>1, <1>6, RollBackInv DEF Rejected
<1>7. QED  BY <1>4, <1>5, <1>6 DEF PhaseReturns

LEMMA CompileReturnsInv == ASSUME IInv, NEW o \in Owners, CompileReturns(o) PROVE IInv'
<1>1. Local(o) /\ pc[o] = "compile" /\ pc[o] \in Working /\ pc[o] \in Phases
      /\ UNCHANGED <<aborted, socket, worldVars>>
  BY DEF IInv, CompileReturns, Working, Phases
<1>2. socket[o] = "up" => tx[o] = "open"
  BY <1>1 DEF Local, Place, Agrees, Locking
<1>3. CASE socket[o] = "up" /\ Send(o, "work")
  <2>1. o \in Requests => "fence" \in locks[o] /\ "actor" \in locks[o]
    BY <1>1, <1>2, <1>3 DEF Local, Locked
  <2>2. QED  BY <1>1, <1>2, <1>3, <2>1, SendInv DEF Phases
<1>4. CASE RollBack(o, "refused")
  BY <1>1, <1>2, <1>4, RollBackInv
<1>5. QED  BY <1>3, <1>4 DEF CompileReturns

LEMMA CommitReturnsInv == ASSUME IInv, NEW o \in Owners, CommitReturns(o) PROVE IInv'
<1>1. Local(o) /\ pc[o] = "commit" /\ pc[o] \in Working /\ UNCHANGED <<aborted, socket, worldVars>>
  BY DEF IInv, CommitReturns, Working, Phases
<1>2. socket[o] = "up" => Agrees("commit", stmt[o], reply[o], tx[o])
  BY <1>1 DEF Local, Place
<1>3. CASE Returned(o, "ok") /\ End(o, "none")
  <2>1. stmt[o] = "none" /\ tx[o] = "committed"
    BY <1>2, <1>3 DEF Returned, Agrees, Locking
  <2>2. QED  BY <1>1, <1>3, <2>1, EndInv DEF Failures
<1>4. CASE Returned(o, "error") /\ RollBack(o, "refused")
  <2>1. tx[o] = "rolledback"
    BY <1>2, <1>4 DEF Returned, Agrees, Locking
  <2>2. QED  BY <1>1, <1>4, <2>1, RollBackInv
<1>5. CASE Rejected(o) /\ End(o, "outcome")
  BY <1>1, <1>5, EndInv DEF Rejected, Failures
<1>6. CASE Rejected(o) /\ RollBack(o, "lost")
  BY <1>1, <1>6, RollBackInv DEF Rejected
<1>7. QED  BY <1>3, <1>4, <1>5, <1>6 DEF CommitReturns

LEMMA DiscardReturnsInv == ASSUME IInv, NEW o \in Owners, DiscardReturns(o) PROVE IInv'
<1>1. Local(o) /\ pc[o] = "discard" /\ pc[o] \in Working /\ UNCHANGED <<aborted, socket, worldVars>>
  BY DEF IInv, DiscardReturns, Working, Phases
<1>2. socket[o] = "up" => Agrees("discard", stmt[o], reply[o], tx[o])
  BY <1>1 DEF Local, Place
<1>3. CASE Returned(o, "ok") /\ End(o, "none")
  <2>1. stmt[o] = "none" /\ tx[o] = "rolledback"
    BY <1>2, <1>3 DEF Returned, Agrees, Locking
  <2>2. o \in Previews
    BY <1>1 DEF Local, Fate
  <2>3. QED  BY <1>1, <1>3, <2>1, <2>2, EndInv DEF Failures
<1>4. CASE Rejected(o) /\ RollBack(o, "lost")
  BY <1>1, <1>4, RollBackInv DEF Rejected
<1>5. QED  BY <1>3, <1>4 DEF DiscardReturns

LEMMA RollbackReturnsInv == ASSUME IInv, NEW o \in Owners, RollbackReturns(o) PROVE IInv'
<1>1. Local(o) /\ pc[o] = "rollback" /\ pc[o] \in Working /\ UNCHANGED <<aborted, socket, worldVars>>
  BY DEF IInv, RollbackReturns, Working
<1>2. socket[o] = "up" => Agrees("rollback", stmt[o], reply[o], tx[o])
  BY <1>1 DEF Local, Place
<1>3. CASE Returned(o, "ok") /\ End(o, failure[o])
  <2>1. stmt[o] = "none" /\ tx[o] = "rolledback"
    BY <1>2, <1>3 DEF Returned, Agrees, Locking
  <2>2. failure[o] \in Failures /\ failure[o] # "none"
    BY <1>1 DEF Local, Fate, Failures
  <2>3. QED  BY <1>1, <1>3, <2>1, <2>2, EndInv
<1>4. CASE Rejected(o) /\ End(o, "lost")
  BY <1>1, <1>4, EndInv DEF Rejected, Failures
<1>5. QED  BY <1>3, <1>4 DEF RollbackReturns

-----------------------------------------------------------------------------
\* The server and the connection

\* A step of the server, or of the connection of o, is no step of the client.
LEMMA ServerStepInv ==
    ASSUME IInv, NEW o \in Owners, ServerTypes', WorldTypes', Local(o)',
           UNCHANGED <<admissionVars, poolVars, pc, failure, answerVars, worldVars>>,
           \A p \in Owners : p # o => /\ stmt'[p] = stmt[p] /\ reply'[p] = reply[p] /\ tx'[p] = tx[p]
                                      /\ locks'[p] = locks[p] /\ socket'[p] = socket[p]
    PROVE  IInv'
<1>1. AdmissionTypes /\ PoolTypes /\ Slots /\ Ends /\ Lines
  BY TypeParts DEF IInv
<1>2. (AdmissionTypes /\ Slots /\ Ends /\ Line(queue, pc, "queued"))'
  BY <1>1, AdmissionKept DEF Lines
<1>3. PoolTypes' /\ Line(poolQueue, pool, "waiting")'
  BY <1>1 DEF PoolTypes, Lines, Line, poolVars
<1>4. ASSUME NEW p \in Owners, p # o PROVE Local(p)'
  <2>1. Same(p)
    BY <1>4 DEF Same, poolVars, answerVars, worldVars
  <2>2. QED  BY <2>1, SameLocal DEF IInv
<1>5. QED  BY <1>2, <1>3, <1>4, Whole DEF Lines

LEMMA ServeInv == ASSUME IInv, NEW o \in Owners, Serve(o) PROVE IInv'
<1>1. Local(o) /\ ServerTypes /\ WorldTypes
  BY TypeParts DEF IInv
<1> DEFINE s == stmt[o]
<1>2. /\ s # "none" /\ stmt' = [stmt EXCEPT ![o] = "none"]
      /\ ServerFails(o, s) \/ ServerEnds(o, s) \/ ServerRuns(o, s)
      /\ UNCHANGED <<admissionVars, poolVars, pc, failure, aborted, socket, answerVars, worldVars>>
  BY DEF Serve
<1>3. s \in Phases \cup {"rollback"}
  BY <1>1, <1>2 DEF ServerTypes
<1> HIDE DEF s
<1>4. PICK x, l, r : /\ tx' = [tx EXCEPT ![o] = x] /\ locks' = [locks EXCEPT ![o] = l]
                     /\ reply' = [reply EXCEPT ![o] = r] /\ r \in Unread
                     /\ x \in {"open", "failed", "committed", "rolledback"}
                     /\ l \in SUBSET {"fence", "actor"}
  <2>1. locks[o] \in SUBSET {"fence", "actor"}
    BY <1>1 DEF ServerTypes
  <2>2. PICK r \in Unread : reply' = [reply EXCEPT ![o] = r]
    BY <1>2 DEF ServerFails, ServerEnds, ServerRuns, Reply, Unread
  <2>3. PICK l \in SUBSET {"fence", "actor"} : locks' = [locks EXCEPT ![o] = l]
    BY <1>2, <2>1 DEF ServerFails, ServerEnds, ServerRuns, Locks
  <2>4. PICK x \in {"open", "failed", "committed", "rolledback"} : tx' = [tx EXCEPT ![o] = x]
    BY <1>2 DEF ServerFails, ServerEnds, ServerRuns
  <2>5. QED  BY <2>2, <2>3, <2>4
<1>5. /\ stmt'[o] = "none" /\ tx'[o] = x /\ locks'[o] = l /\ reply'[o] = r
      /\ \A p \in Owners : p # o => /\ stmt'[p] = stmt[p] /\ reply'[p] = reply[p] /\ tx'[p] = tx[p]
                                    /\ locks'[p] = locks[p]
  BY <1>1, <1>2, <1>4 DEF ServerTypes
<1>6. ServerTypes'
  BY <1>1, <1>2, <1>4 DEF ServerTypes
<1>7. UNCHANGED <<pc, pool, failure, late, returned, socket, answer, lease, revoked, paused, fenced>>
  BY <1>2 DEF poolVars, answerVars, worldVars
\* What the server was asked and what it made of it.
<1>8. \/ s \in {"commit"} \cup Locking /\ l = {} /\ r = (IF socket[o] = "up" THEN "error" ELSE "none")
         /\ x = (IF s = "commit" THEN "rolledback" ELSE "failed")
      \/ s \in {"commit", "rollback", "discard"} /\ l = {} /\ r = (IF socket[o] = "up" THEN "ok" ELSE "none")
         /\ x = (IF s = "commit" /\ tx[o] = "open" THEN "committed" ELSE "rolledback")
      \/ s \in {"begin", "compile"} \cup Locking /\ x = "open" /\ ~Refused(o, s)
         /\ l = locks[o] \cup Locks(o, s) /\ r = (IF socket[o] = "up" THEN "ok" ELSE "none")
  <2>1. CASE ServerFails(o, s)
    <3>1. tx'[o] = (IF s = "commit" THEN "rolledback" ELSE "failed") /\ locks'[o] = {}
          /\ reply'[o] = IF socket[o] = "up" THEN "error" ELSE "none"
      BY <1>1, <2>1 DEF ServerFails, Reply, ServerTypes
    <3>2. s \in {"commit"} \cup Locking
      BY <2>1 DEF ServerFails, Refused, Locking
    <3>3. QED  BY <1>5, <3>1, <3>2
  <2>2. CASE ServerEnds(o, s)
    <3>1. tx'[o] = (IF s = "commit" /\ tx[o] = "open" THEN "committed" ELSE "rolledback")
          /\ locks'[o] = {} /\ reply'[o] = IF socket[o] = "up" THEN "ok" ELSE "none"
      BY <1>1, <2>2 DEF ServerEnds, Reply, ServerTypes
    <3>2. QED  BY <1>5, <2>2, <3>1 DEF ServerEnds
  <2>3. CASE ServerRuns(o, s)
    <3>1. tx'[o] = "open" /\ locks'[o] = locks[o] \cup Locks(o, s)
          /\ reply'[o] = IF socket[o] = "up" THEN "ok" ELSE "none"
      BY <1>1, <2>3 DEF ServerRuns, Reply, ServerTypes
    <3>2. s \in {"begin", "compile"} \cup Locking
      BY <1>3, <2>3 DEF ServerRuns, Phases, Locking
    <3>3. QED  BY <1>5, <2>3, <3>1, <3>2 DEF ServerRuns
  <2>4. QED  BY <1>2, <2>1, <2>2, <2>3
<1>9. /\ pc[o] \notin {"queued", "admitted", "connecting"} /\ o \notin late /\ o \notin returned
      /\ ~(pc[o] = "idle" /\ o \in Requests)
      /\ pc[o] = "settled" => failure[o] \notin {"none", "refused"}
      /\ o \in Requests => answer[o] \notin {"ok", "accepted", "rejected"}
  BY <1>1, <1>2 DEF Local, Place, Fresh, Fate, Told, s
<1>10. Place(o)'
  <2>1. ASSUME pc[o] \in Working, socket[o] = "up"
        PROVE  Agrees(pc[o], "none", r, x)
    <3>1. Agrees(pc[o], s, reply[o], tx[o]) /\ pc[o] = s
      BY <1>1, <1>2, <2>1 DEF Local, Place, s, Agrees
    <3>2. CASE s = "begin"
      BY <1>8, <2>1, <3>1, <3>2 DEF Agrees, Locking
    <3>3. CASE s \in Locking
      BY <1>8, <2>1, <3>1, <3>3 DEF Agrees, Locking
    <3>4. CASE s \in {"commit", "discard", "rollback"}
      BY <1>8, <2>1, <3>1, <3>4 DEF Agrees, Locking
    <3>5. s # "compile"
      BY <1>2, <3>1 DEF Agrees, Locking
    <3>6. QED  BY <1>3, <3>2, <3>3, <3>4, <3>5 DEF Phases, Locking
  <2>2. QED  BY <1>1, <1>5, <1>7, <1>9, <2>1 DEF Local, Place
<1>11. Fate(o)'
  <2>1. o \in Previews => x # "committed"
    BY <1>1, <1>8 DEF Local, Fate, s
  <2>2. QED  BY <1>1, <1>5, <1>7, <1>9, <2>1 DEF Local, Fate
<1>12. o \in Checks => CheckPlace(o)'
  <2>1. SUFFICES ASSUME o \in Checks PROVE CheckPlace(o)'
    OBVIOUS
  <2>2. s \in {"begin", "work", "commit", "rollback"} /\ locks[o] = {}
    BY <1>1, <1>2, <2>1 DEF Local, CheckPlace, s
  <2>3. l = {}
    BY <1>8, <2>2 DEF Locks
  <2>4. QED  BY <1>1, <1>5, <1>7, <2>1, <2>3 DEF Local, CheckPlace
<1>13. ASSUME o \in Requests PROVE Told(o)' /\ Locked(o)'
  <2>1. Told(o)'
    BY <1>1, <1>5, <1>7, <1>9, <1>13 DEF Local, Told
  <2>2. ("fence" \in l => ~fenced) /\ (fenced => paused) /\ ("actor" \in l => o \notin revoked)
    BY <1>1, <1>8, <1>13 DEF Local, Locked, Locks, Refused
  <2>3. ASSUME x = "open", socket[o] = "up", pc[o] \in Phases
        PROVE  /\ pc[o] # "begin" => "fence" \in l
               /\ pc[o] \notin {"begin", "fence"} => "actor" \in l
    <3>1. Agrees(pc[o], s, reply[o], tx[o]) /\ pc[o] = s
      BY <1>1, <1>2, <2>3 DEF Local, Place, s, Agrees, Working
    <3>2. s \in {"begin"} \cup Locking /\ l = locks[o] \cup Locks(o, s)
      BY <1>2, <1>8, <2>3, <3>1 DEF Agrees, Locking
    <3>3. s \in Locking => tx[o] = "open"
      BY <1>2, <3>1 DEF Agrees, Locking
    <3>4. CASE s = "fence"
      BY <3>1, <3>2, <3>4 DEF Locks
    <3>5. CASE s \in Locking \ {"fence"}
      <4>1. "fence" \in locks[o] /\ (s # "actor" => "actor" \in locks[o])
        BY <1>1, <1>13, <2>3, <3>1, <3>3, <3>5 DEF Local, Locked, Locking
      <4>2. QED  BY <3>1, <3>2, <3>5, <4>1 DEF Locks, Locking
    <3>6. QED  BY <3>1, <3>2, <3>4, <3>5
  <2>4. Locked(o)'
    BY <1>5, <1>7, <2>2, <2>3 DEF Locked
  <2>5. QED  BY <2>1, <2>4
<1>14. Local(o)'
  BY <1>10, <1>11, <1>12, <1>13 DEF Local
<1>15. WorldTypes'
  BY <1>1, <1>2, WorldKept
<1>16. QED  BY <1>2, <1>5, <1>6, <1>14, <1>15, ServerStepInv

LEMMA ServerDropsInv == ASSUME IInv, NEW o \in Owners, ServerDrops(o) PROVE IInv'
<1>1. Local(o) /\ ServerTypes /\ WorldTypes
  BY TypeParts DEF IInv
<1>2. /\ socket[o] # "up" /\ tx[o] \in {"open", "failed"}
      /\ stmt' = [stmt EXCEPT ![o] = "none"] /\ tx' = [tx EXCEPT ![o] = "rolledback"]
      /\ locks' = [locks EXCEPT ![o] = {}]
      /\ UNCHANGED <<admissionVars, poolVars, pc, failure, aborted, socket, reply,
                     answerVars, worldVars>>
  BY DEF ServerDrops
<1>3. /\ stmt'[o] = "none" /\ tx'[o] = "rolledback" /\ locks'[o] = {}
      /\ \A p \in Owners : p # o => stmt'[p] = stmt[p] /\ tx'[p] = tx[p] /\ locks'[p] = locks[p]
  BY <1>1, <1>2 DEF ServerTypes
<1>4. ServerTypes' /\ WorldTypes'
  BY <1>1, <1>2, WorldKept DEF ServerTypes
<1>5. UNCHANGED <<pc, pool, failure, late, returned, socket, answer, lease, revoked, paused, fenced>>
  BY <1>2 DEF poolVars, answerVars, worldVars
<1>6. Place(o)' /\ Fate(o)'
  BY <1>1, <1>2, <1>3, <1>5 DEF Local, Place, Fresh, Fate
<1>7. o \in Checks => CheckPlace(o)'
  BY <1>1, <1>3, <1>5 DEF Local, CheckPlace
<1>8. o \in Requests /\ o \notin Previews => answer[o] \notin {"ok", "accepted"}
  BY <1>1, <1>2 DEF Local, Told
<1>9. o \in Requests => Told(o)' /\ Locked(o)'
  BY <1>1, <1>2, <1>3, <1>5, <1>8 DEF Local, Told, Locked
<1>10. Local(o)'
  BY <1>6, <1>7, <1>9 DEF Local
<1>11. QED  BY <1>2, <1>3, <1>4, <1>10, ServerStepInv

LEMMA LoseConnectionInv == ASSUME IInv, NEW o \in Owners, LoseConnection(o) PROVE IInv'
<1>1. Local(o) /\ ServerTypes /\ WorldTypes
  BY TypeParts DEF IInv
<1>2. /\ pool[o] = "held"
      /\ socket' = [socket EXCEPT ![o] = "lost"] /\ reply' = [reply EXCEPT ![o] = "none"]
      /\ UNCHANGED <<admissionVars, poolVars, pc, failure, aborted, stmt, tx, locks,
                     answerVars, worldVars>>
  BY DEF LoseConnection
<1>3. /\ socket'[o] = "lost"
      /\ \A p \in Owners : p # o => socket'[p] = socket[p] /\ reply'[p] = reply[p]
  BY <1>1, <1>2 DEF ServerTypes, WorldTypes
<1>4. ServerTypes' /\ WorldTypes'
  BY <1>1, <1>2 DEF ServerTypes, WorldTypes, Unread, worldVars
<1>5. UNCHANGED <<pc, pool, failure, late, returned, stmt, tx, locks, answer, lease, revoked, paused, fenced>>
  BY <1>2 DEF poolVars, answerVars, worldVars
<1>6. Place(o)' /\ Fate(o)'
  BY <1>1, <1>2, <1>3, <1>5 DEF Local, Place, Fate, Working, Phases
<1>7. o \in Checks => CheckPlace(o)'
  BY <1>1, <1>5 DEF Local, CheckPlace
<1>8. o \in Requests => Told(o)' /\ Locked(o)'
  BY <1>1, <1>3, <1>5 DEF Local, Told, Locked
<1>9. Local(o)'
  BY <1>6, <1>7, <1>8 DEF Local
<1>10. QED  BY <1>2, <1>3, <1>4, <1>5, <1>9, ServerStepInv

\* Nobody is revoked while a transaction keeps the row, and restore has the fence
\* to itself only when no transaction has it.
LEMMA RevokeInv == ASSUME IInv, NEW r \in Requests, Revoke(r) PROVE IInv'
<1>1. AdmissionTypes /\ PoolTypes /\ ServerTypes /\ WorldTypes /\ Slots /\ Ends /\ Lines
  BY TypeParts DEF IInv
<1>2. /\ "actor" \notin locks[r] /\ revoked' = revoked \cup {r}
      /\ UNCHANGED <<admissionVars, poolVars, pc, failure, aborted, socket, serverVars,
                     answerVars, paused, fenced>>
  BY DEF Revoke
<1>3. WorldTypes' /\ PoolTypes' /\ ServerTypes'
  BY <1>1, <1>2, PoolKept, ServerKept DEF WorldTypes
<1>4. (AdmissionTypes /\ Slots /\ Ends /\ Line(queue, pc, "queued"))'
  BY <1>1, <1>2, AdmissionKept DEF Lines
<1>5. Line(poolQueue, pool, "waiting")'
  BY <1>1, <1>2 DEF Lines, Line, poolVars
<1>6. ASSUME NEW o \in Owners PROVE Local(o)'
  <2>1. Local(o)
    BY DEF IInv
  <2>2. UNCHANGED <<pc, pool, failure, late, returned, socket, stmt, reply, tx, locks, answer,
                    lease, paused, fenced>>
    BY <1>2 DEF poolVars, serverVars, answerVars
  <2>3. Place(o)' /\ Fate(o)' /\ (o \in Checks => CheckPlace(o)')
    BY <2>1, <2>2 DEF Local, Place, Fresh, Fate, CheckPlace
  <2>4. o \in Requests => Told(o)' /\ Locked(o)'
    BY <1>2, <2>1, <2>2 DEF Local, Told, Locked
  <2>5. QED  BY <2>3, <2>4 DEF Local
<1>7. QED  BY <1>3, <1>4, <1>5, <1>6, Whole DEF Lines

LEMMA PauseInv == IInv /\ (Pause \/ FenceExclusive) => IInv'
<1> SUFFICES ASSUME IInv, Pause \/ FenceExclusive PROVE IInv'  OBVIOUS
<1>1. AdmissionTypes /\ PoolTypes /\ ServerTypes /\ WorldTypes /\ Slots /\ Ends /\ Lines
  BY TypeParts DEF IInv
<1>2. /\ \/ paused' = TRUE /\ fenced' = fenced
         \/ paused /\ paused' = paused /\ fenced' = TRUE /\ \A r \in Requests : "fence" \notin locks[r]
      /\ UNCHANGED <<admissionVars, poolVars, pc, failure, aborted, socket, serverVars,
                     answerVars, revoked>>
  BY DEF Pause, FenceExclusive
<1>3. WorldTypes' /\ PoolTypes' /\ ServerTypes'
  BY <1>1, <1>2, PoolKept, ServerKept DEF WorldTypes
<1>4. (AdmissionTypes /\ Slots /\ Ends /\ Line(queue, pc, "queued"))'
  BY <1>1, <1>2, AdmissionKept DEF Lines
<1>5. Line(poolQueue, pool, "waiting")'
  BY <1>1, <1>2 DEF Lines, Line, poolVars
<1>6. ASSUME NEW o \in Owners PROVE Local(o)'
  <2>1. Local(o)
    BY DEF IInv
  <2>2. UNCHANGED <<pc, pool, failure, late, returned, socket, stmt, reply, tx, locks, answer,
                    lease, revoked>>
    BY <1>2 DEF poolVars, serverVars, answerVars
  <2>3. Place(o)' /\ Fate(o)' /\ (o \in Checks => CheckPlace(o)')
    BY <2>1, <2>2 DEF Local, Place, Fresh, Fate, CheckPlace
  <2>4. o \in Requests => Told(o)' /\ Locked(o)'
    BY <1>2, <2>1, <2>2 DEF Local, Told, Locked
  <2>5. QED  BY <2>3, <2>4 DEF Local
<1>7. QED  BY <1>3, <1>4, <1>5, <1>6, Whole DEF Lines

-----------------------------------------------------------------------------
\* Admission and the pool

\* An operation that settles before its transaction began has changed nothing.
LEMMA FreshSettles ==
    ASSUME NEW o \in Owners, Local(o), Fresh(o),
           pc[o] \in {"idle", "queued", "admitted", "connecting"},
           pc'[o] = IF o \in Checks THEN "idle" ELSE "settled",
           o \in Requests => failure'[o] # "none" /\ answer'[o] = answer[o],
           UNCHANGED <<stmt, reply, tx, locks, socket, returned, revoked, paused, fenced>>,
           pool'[o] = "none" \/ (pool'[o] \in {"waiting", "opening"} /\ o \in late'),
           o \in late' => o \in Requests
    PROVE  Local(o)'
<1>1. o \in Requests <=> o \notin Checks
  BY OwnerAssumption DEF Owners
<1>2. Fresh(o)' /\ pc'[o] \in {"idle", "settled"} /\ pc'[o] \notin Working
  BY DEF Fresh, Working, Phases
<1>3. Place(o)'
  BY <1>1, <1>2 DEF Place
<1>4. Fate(o)'
  BY <1>1, <1>2, OwnerAssumption DEF Fate, Fresh
<1>5. o \in Checks => CheckPlace(o)'
  BY <1>1, <1>2 DEF CheckPlace, Fresh
<1>6. o \in Requests => Told(o)' /\ Locked(o)'
  BY <1>1, <1>2 DEF Local, Told, Locked, Fresh
<1>7. QED  BY <1>3, <1>4, <1>5, <1>6 DEF Local

\* A request has no part of the pool before its execution connects.
LEMMA OutOfPool ==
    ASSUME IInv, NEW o \in Owners,
           pc[o] \in {"queued", "admitted"} \/ (pc[o] = "idle" /\ o \in Requests)
    PROVE  pool[o] = "none" /\ o \notin late /\ Fresh(o)
BY TypeParts DEF IInv, PoolTypes, Local, Place, Working, Phases

LEMMA RefuseInv ==
    ASSUME IInv, NEW r \in Requests, NEW why \in Failures \ {"none"}, Refuse(r, why), WorldTypes',
           (pc[r] = "idle" /\ UNCHANGED queue) \/ Leaves(r, queue, queue'),
           UNCHANGED <<poolVars, socket, serverVars, worldVars>>
    PROVE  IInv'
<1>1. AdmissionTypes /\ PoolTypes /\ ServerTypes /\ WorldTypes /\ Slots /\ Ends /\ Lines
      /\ r \in Owners /\ r \notin Checks
  BY TypeParts, OwnerAssumption DEF IInv, Owners
<1>2. /\ pc' = [pc EXCEPT ![r] = "settled"] /\ failure' = [failure EXCEPT ![r] = why]
      /\ lease' = [lease EXCEPT ![r] = "releasing"]
      /\ UNCHANGED <<closing, close, active, answer>>
  BY DEF Refuse
<1>3. /\ pc'[r] = "settled" /\ failure'[r] = why
      /\ \A p \in Owners : p # r => /\ pc'[p] = pc[p] /\ failure'[p] = failure[p]
                                    /\ p \in Requests => lease'[p] = lease[p]
  BY <1>1, <1>2 DEF AdmissionTypes
<1>4. /\ pc[r] \in {"idle", "queued"}
      /\ queue' \in Seq(Requests) /\ Len(queue') <= Len(queue) /\ Line(queue, pc, "queued")'
  <2>1. \A x \in Requests : pc[x] = "queued" /\ x # r => pc'[x] = "queued"
    BY <1>3 DEF Owners
  <2>2. CASE pc[r] = "idle" /\ UNCHANGED queue
    <3>1. \A x \in Requests : pc[x] = "queued" => pc'[x] = "queued"
      BY <2>1, <2>2
    <3>2. Line(queue, pc', "queued")
      BY <1>1, <3>1, LineKept DEF AdmissionTypes, Lines
    <3>3. Len(queue) \in Nat
      BY <1>1 DEF AdmissionTypes
    <3>4. QED  BY <1>1, <2>2, <3>2, <3>3 DEF AdmissionTypes
  <2>3. CASE Leaves(r, queue, queue')
    <3>1. queue \in Seq(Requests) /\ Line(queue, pc, "queued")
      BY <1>1 DEF AdmissionTypes, Lines
    <3>2. pc[r] = "queued" /\ queue' \in Seq(Requests) /\ Len(queue') <= Len(queue)
          /\ Line(queue', pc', "queued")
      BY <2>1, <2>3, <3>1, LeavesShorter, LineLeaves
    <3>3. QED  BY <3>2
  <2>4. QED  BY <2>2, <2>3
<1>5. AdmissionTypes'
  <2>1. Len(queue') \in Nat /\ Len(queue) \in Nat
    BY <1>1, <1>4 DEF AdmissionTypes
  <2>2. Len(queue') <= MaxQueued
    BY <1>1, <1>4, <2>1, LimitAssumption DEF AdmissionTypes
  <2>3. QED  BY <1>1, <1>2, <1>4, <2>2 DEF AdmissionTypes
<1>6. Slots'
  BY <1>1, <1>2, <1>3, <1>4 DEF Slots, Busy, Working, Phases, Owners
<1>7. Ends'
  BY <1>1, <1>2, <1>3 DEF Ends, Owners
<1>8. ASSUME NEW p \in Owners PROVE Local(p)'
  <2>1. CASE p = r
    <3>1. pool[r] = "none" /\ r \notin late /\ Fresh(r) /\ Local(r)
      BY <1>1, <1>4, OutOfPool DEF IInv
    <3>2. UNCHANGED <<stmt, reply, tx, locks, socket, returned, revoked, paused, fenced, pool, late, answer>>
      BY <1>2 DEF poolVars, serverVars, worldVars
    <3>3. Local(r)'
      BY <1>1, <1>3, <1>4, <3>1, <3>2, FreshSettles
    <3>4. QED  BY <2>1, <3>3
  <2>2. CASE p # r
    <3>1. Same(p)
      BY <1>2, <1>3, <2>2 DEF Same, poolVars, serverVars, worldVars
    <3>2. QED  BY <3>1, SameLocal DEF IInv
  <2>3. QED  BY <2>1, <2>2
<1>9. PoolTypes' /\ ServerTypes' /\ Line(poolQueue, pool, "waiting")'
  BY <1>1, PoolKept, ServerKept DEF Lines, Line, poolVars
<1>10. QED  BY <1>4, <1>5, <1>6, <1>7, <1>8, <1>9, Whole DEF Lines

LEMMA AdmitInv == ASSUME IInv, NEW r \in Requests, Admit(r) PROVE IInv'
<1>1. AdmissionTypes /\ PoolTypes /\ ServerTypes /\ WorldTypes /\ Slots /\ Ends /\ Lines
      /\ r \in Owners /\ r \notin Checks /\ Local(r)
  BY TypeParts, OwnerAssumption DEF IInv, Owners
<1>2. pc[r] = "idle" /\ UNCHANGED <<poolVars, aborted, socket, serverVars, worldVars>>
  BY DEF Admit
<1>3. WorldTypes'
  BY <1>1, <1>2, WorldKept
<1>4. CASE \E why \in {"aborted", "closing", "busy"} : Refuse(r, why) /\ UNCHANGED queue
  BY <1>2, <1>3, <1>4, RefuseInv DEF Failures
<1>5. CASE /\ ~closing /\ Len(queue) < MaxQueued
           /\ IF SlotFree
              THEN /\ active' = active \cup {r} /\ queue' = queue
                   /\ pc' = [pc EXCEPT ![r] = "admitted"]
              ELSE /\ queue' = Append(queue, r) /\ active' = active
                   /\ pc' = [pc EXCEPT ![r] = "queued"]
           /\ UNCHANGED <<closing, close, failure, answerVars>>
  <2>1. PICK w \in {"admitted", "queued"} :
            /\ pc' = [pc EXCEPT ![r] = w]
            /\ w = "admitted" => SlotFree /\ active' = active \cup {r} /\ queue' = queue
            /\ w = "queued" => queue' = Append(queue, r) /\ active' = active
    BY <1>5
  <2>2. pc'[r] = w /\ \A p \in Owners : p # r => pc'[p] = pc[p]
    BY <1>1, <2>1 DEF AdmissionTypes
  <2>3. \A x \in Requests : pc[x] = "queued" => pc'[x] = "queued"
    BY <1>2, <2>2 DEF Owners
  <2>4. queue' \in Seq(Requests) /\ Len(queue') <= MaxQueued /\ Line(queue, pc, "queued")'
    <3>1. queue \in Seq(Requests) /\ Line(queue, pc, "queued") /\ Len(queue) \in Nat
          /\ Len(queue) <= MaxQueued
      BY <1>1 DEF AdmissionTypes, Lines
    <3>2. CASE w = "admitted"
      <4>1. Line(queue, pc', "queued")
        BY <2>3, <3>1, LineKept
      <4>2. QED  BY <2>1, <3>1, <3>2, <4>1
    <3>3. CASE w = "queued"
      <4>1. Append(queue, r) \in Seq(Requests) /\ Len(Append(queue, r)) = Len(queue) + 1
            /\ Line(Append(queue, r), pc', "queued")
        BY <1>2, <2>2, <2>3, <3>1, <3>3, LineAppend
      <4>2. queue' = Append(queue, r)
        BY <2>1, <3>3
      <4>3. Len(queue) + 1 <= MaxQueued
        BY <1>5, <3>1, LimitAssumption
      <4>4. QED  BY <4>1, <4>2, <4>3
    <3>4. QED  BY <3>2, <3>3
  <2>5. IsFiniteSet(active') /\ Cardinality(active') <= Concurrency /\ active' \subseteq Requests
    <3>1. IsFiniteSet(active) /\ Cardinality(active) <= Concurrency /\ Cardinality(active) \in Nat
          /\ active \subseteq Requests /\ r \notin active
      BY <1>1, <1>2, FS_CardinalityType DEF Slots, AdmissionTypes, Busy, Working, Phases
    <3>2. IsFiniteSet(active \cup {r}) /\ Cardinality(active \cup {r}) = Cardinality(active) + 1
      BY <3>1, FS_AddElement
    <3>3. CASE w = "admitted"
      <4>1. active' = active \cup {r} /\ Cardinality(active) + 1 <= Concurrency
        BY <2>1, <3>1, <3>3, LimitAssumption DEF SlotFree
      <4>2. QED  BY <3>1, <3>2, <4>1
    <3>4. CASE w = "queued"
      BY <2>1, <3>1, <3>4
    <3>5. QED  BY <3>3, <3>4
  <2>6. AdmissionTypes'
    BY <1>1, <1>5, <2>1, <2>4, <2>5 DEF AdmissionTypes, answerVars
  <2>7. Slots'
    BY <1>1, <1>2, <2>1, <2>2, <2>5 DEF Slots, Busy, Working, Phases, Owners
  <2>8. Ends'
    BY <1>1, <1>5 DEF Ends
  <2>9. UNCHANGED <<stmt, reply, tx, locks, socket, returned, revoked, paused, fenced, pool, late, answer,
                    lease, failure>>
    BY <1>2, <1>5 DEF poolVars, serverVars, worldVars, answerVars
  <2>10. ASSUME NEW p \in Owners PROVE Local(p)'
    <3>1. CASE p = r
      <4>1. pool[r] = "none" /\ r \notin late /\ Fresh(r)
        BY <1>1, <1>2, OutOfPool
      <4>2. Place(r)' /\ Fate(r)'
        BY <2>2, <2>9, <4>1, OwnerAssumption DEF Place, Fate, Fresh, Working, Phases
      <4>3. Told(r)' /\ Locked(r)'
        BY <1>1, <1>2, <2>2, <2>9, <4>1 DEF Local, Told, Locked, Fresh
      <4>4. QED  BY <1>1, <3>1, <4>2, <4>3 DEF Local
    <3>2. CASE p # r
      <4>1. Same(p)
        BY <2>2, <2>9, <3>2 DEF Same
      <4>2. QED  BY <4>1, SameLocal DEF IInv
    <3>3. QED  BY <3>1, <3>2
  <2>11. PoolTypes' /\ ServerTypes' /\ Line(poolQueue, pool, "waiting")'
    BY <1>1, <1>2, PoolKept, ServerKept DEF Lines, Line, poolVars
  <2>12. QED  BY <1>3, <2>4, <2>6, <2>7, <2>8, <2>10, <2>11, Whole DEF Lines
<1>6. QED  BY <1>4, <1>5 DEF Admit

LEMMA QueueTimeoutInv == ASSUME IInv, NEW r \in Requests, QueueTimeout(r) PROVE IInv'
<1>1. WorldTypes'
  BY TypeParts, WorldKept DEF IInv, QueueTimeout
<1>2. QED  BY <1>1, RefuseInv DEF QueueTimeout, Failures

\* An execution that ends before it has a client.
LEMMA SettleFreshInv ==
    ASSUME IInv, NEW o \in Owners, NEW why \in Failures \ {"none"},
           pc[o] \in {"admitted", "connecting"}, Settle(o, why),
           PoolTypes', WorldTypes', Line(poolQueue, pool, "waiting")',
           \A p \in Owners : p # o => pool'[p] = pool[p] /\ (p \in late' <=> p \in late),
           pool'[o] = "none" \/ (pool'[o] \in {"waiting", "opening"} /\ o \in late'),
           o \in late' => o \in Requests,
           UNCHANGED <<returned, socket, serverVars, worldVars>>
    PROVE  IInv'
<1>1. ServerTypes /\ Local(o) /\ Fresh(o)
  BY TypeParts DEF IInv, Local, Place
<1>2. pc[o] \in Busy
  BY DEF Busy
<1>3. why \in Failures
  OBVIOUS
<1>4. /\ (AdmissionTypes /\ Slots /\ Ends /\ Line(queue, pc, "queued"))'
      /\ Others(o)
      /\ pc'[o] = SettledPc(o, why)
      /\ failure'[o] = IF o \in Checks THEN "none" ELSE why
      /\ o \in Requests => lease'[o] = "releasing" /\ answer'[o] = answer[o]
  BY <1>2, <1>3, Settling
<1>5. UNCHANGED <<stmt, reply, tx, locks, socket, returned, revoked, paused, fenced>>
  BY DEF serverVars, worldVars
<1>6. Local(o)'
  <2>1. pc'[o] = IF o \in Checks THEN "idle" ELSE "settled"
    BY <1>4 DEF SettledPc
  <2>2. o \in Requests => failure'[o] # "none" /\ answer'[o] = answer[o]
    BY <1>4, OwnerAssumption
  <2>3. QED  BY <1>1, <1>5, <2>1, <2>2, FreshSettles
<1>7. ASSUME NEW p \in Owners, p # o PROVE Local(p)'
  <2>1. Same(p)
    BY <1>4, <1>5, <1>7 DEF Same, Others
  <2>2. QED  BY <2>1, SameLocal DEF IInv
<1>8. ServerTypes'
  BY <1>1, ServerKept
<1>9. QED  BY <1>4, <1>6, <1>7, <1>8, Whole DEF Lines

LEMMA StartInv == ASSUME IInv, NEW o \in Owners, Start(o) PROVE IInv'
<1>1. AdmissionTypes /\ PoolTypes /\ ServerTypes /\ WorldTypes /\ Slots /\ Ends /\ Lines /\ Local(o)
  BY TypeParts DEF IInv
<1>2. pc[o] = "admitted" /\ UNCHANGED <<late, returned, aborted, socket, serverVars, worldVars>>
  BY DEF Start
<1>3. pool[o] = "none" /\ o \notin late /\ Fresh(o)
  BY <1>2, OutOfPool
<1>4. WorldTypes' /\ ServerTypes'
  BY <1>1, <1>2, WorldKept, ServerKept
<1>5. CASE /\ Settle(o, IF IsAborted(o) THEN "aborted" ELSE "closing")
           /\ UNCHANGED <<poolQueue, pool>>
  <2>1. PICK why \in {"aborted", "closing"} : Settle(o, why)
    BY <1>5
  <2>2. why \in Failures \ {"none"}
    BY DEF Failures
  <2>3. PoolTypes' /\ Line(poolQueue, pool, "waiting")'
    BY <1>1, <1>2, <1>5 DEF PoolTypes, Lines, Line
  <2>4. pool'[o] = "none" /\ o \notin late' /\ UNCHANGED <<pool, late>>
    BY <1>2, <1>3, <1>5
  <2>5. QED  BY <1>2, <1>4, <2>1, <2>2, <2>3, <2>4, SettleFreshInv
<1>6. CASE /\ ~closing /\ pc' = [pc EXCEPT ![o] = "connecting"]
           /\ pool' = [pool EXCEPT ![o] = "waiting"]
           /\ poolQueue' = Append(poolQueue, o)
           /\ UNCHANGED <<admissionVars, failure, answerVars>>
  <2>1. /\ pc'[o] = "connecting" /\ pool'[o] = "waiting"
        /\ \A p \in Owners : p # o => pc'[p] = pc[p] /\ pool'[p] = pool[p]
    BY <1>1, <1>6 DEF AdmissionTypes, PoolTypes
  <2>2. AdmissionTypes'
    BY <1>1, <1>6 DEF AdmissionTypes, admissionVars, answerVars
  <2>3. poolQueue' \in Seq(Owners) /\ Line(poolQueue, pool, "waiting")'
    <3>1. \A y \in Owners : pool[y] = "waiting" => pool'[y] = "waiting"
      BY <2>1
    <3>2. Append(poolQueue, o) \in Seq(Owners) /\ Line(Append(poolQueue, o), pool', "waiting")
      BY <1>1, <1>3, <2>1, <3>1, LineAppend DEF PoolTypes, Lines
    <3>3. QED  BY <1>6, <3>2
  <2>4. PoolTypes'
    BY <1>1, <1>2, <1>6, <2>3 DEF PoolTypes
  <2>5. Line(queue, pc, "queued")'
    <3>1. \A x \in Requests : pc[x] = "queued" => pc'[x] = "queued"
      BY <1>2, <2>1 DEF Owners
    <3>2. Line(queue, pc', "queued")
      BY <1>1, <3>1, LineKept DEF AdmissionTypes, Lines
    <3>3. QED  BY <1>6, <3>2 DEF admissionVars
  <2>6. Slots'
    BY <1>1, <1>2, <1>6, <2>1 DEF Slots, Busy, Owners, admissionVars
  <2>7. Ends'
    BY <1>1, <1>6 DEF Ends, admissionVars
  <2>8. UNCHANGED <<stmt, reply, tx, locks, socket, returned, revoked, paused, fenced, late, answer,
                    lease, failure>>
    BY <1>2, <1>6 DEF serverVars, worldVars, answerVars
  <2>9. ASSUME NEW p \in Owners PROVE Local(p)'
    <3>1. CASE p = o
      <4>1. Place(o)' /\ Fate(o)'
        BY <1>3, <2>1, <2>8 DEF Place, Fate, Fresh, Working, Phases
      <4>2. o \in Checks => CheckPlace(o)'
        BY <1>1, <2>1, <2>8 DEF Local, CheckPlace
      <4>3. o \in Requests => Told(o)' /\ Locked(o)'
        BY <1>1, <1>2, <1>3, <2>1, <2>8 DEF Local, Told, Locked, Fresh
      <4>4. QED  BY <3>1, <4>1, <4>2, <4>3 DEF Local
    <3>2. CASE p # o
      <4>1. Same(p)
        BY <2>1, <2>8, <3>2 DEF Same
      <4>2. QED  BY <4>1, SameLocal DEF IInv
    <3>3. QED  BY <3>1, <3>2
  <2>10. QED  BY <1>4, <2>2, <2>3, <2>4, <2>5, <2>6, <2>7, <2>9, Whole DEF Lines
<1>7. QED  BY <1>5, <1>6 DEF Start

\* A step of the pool alone.
LEMMA PoolStepInv ==
    ASSUME IInv, NEW o \in Owners, PoolTypes', Line(poolQueue, pool, "waiting")',
           pc[o] = "connecting" \/ o \in late,
           pool'[o] = "none" \/ (pool'[o] = "opening" /\ pool[o] = "waiting"),
           UNCHANGED <<admissionVars, late, returned, pc, failure, aborted, socket, serverVars,
                       answerVars, worldVars>>,
           \A p \in Owners : p # o => pool'[p] = pool[p]
    PROVE  IInv'
<1>1. AdmissionTypes /\ ServerTypes /\ WorldTypes /\ Slots /\ Ends /\ Lines /\ Local(o)
  BY TypeParts DEF IInv
<1>2. WorldTypes' /\ ServerTypes'
  BY <1>1, WorldKept, ServerKept
<1>3. (AdmissionTypes /\ Slots /\ Ends /\ Line(queue, pc, "queued"))'
  BY <1>1, AdmissionKept DEF Lines
<1>4. UNCHANGED <<pc, failure, stmt, reply, tx, locks, socket, returned, revoked, paused, fenced, late,
                  answer, lease>>
  BY DEF serverVars, worldVars, answerVars
<1>5. ASSUME NEW p \in Owners PROVE Local(p)'
  <2>1. CASE p = o
    <3>1. pc[o] \notin Working
      BY <1>1 DEF Local, Place, Working, Phases
    <3>2. Place(o)' /\ Fate(o)'
      BY <1>1, <1>4, <3>1 DEF Local, Place, Fate, Fresh
    <3>3. (o \in Checks => CheckPlace(o)') /\ (o \in Requests => Told(o)' /\ Locked(o)')
      BY <1>1, <1>4 DEF Local, CheckPlace, Told, Locked
    <3>4. QED  BY <2>1, <3>2, <3>3 DEF Local
  <2>2. CASE p # o
    <3>1. Same(p)
      BY <1>4, <2>2 DEF Same
    <3>2. QED  BY <3>1, SameLocal DEF IInv
  <2>3. QED  BY <2>1, <2>2
<1>6. QED  BY <1>2, <1>3, <1>5, Whole DEF Lines

LEMMA PoolGrantInv == IInv /\ PoolGrant => IInv'
<1> SUFFICES ASSUME IInv, PoolGrant PROVE IInv'  OBVIOUS
<1>1. PoolTypes /\ Lines
  BY TypeParts DEF IInv
<1>2. /\ poolQueue # <<>> /\ pool' = [pool EXCEPT ![Head(poolQueue)] = "opening"]
      /\ poolQueue' = Tail(poolQueue)
      /\ UNCHANGED <<admissionVars, late, returned, pc, failure, aborted, socket,
                     serverVars, answerVars, worldVars>>
  BY DEF PoolGrant
<1>3. PICK o \in Owners : o = Head(poolQueue)
  BY <1>1, <1>2, HeadTailProperties DEF PoolTypes
<1>4. pool'[o] = "opening" /\ \A p \in Owners : p # o => pool'[p] = pool[p]
  BY <1>1, <1>2, <1>3 DEF PoolTypes
<1>5. \A x \in Owners : pool[x] = "waiting" /\ x # Head(poolQueue) => pool'[x] = "waiting"
  BY <1>3, <1>4
<1>6. pool[o] = "waiting" /\ Tail(poolQueue) \in Seq(Owners)
      /\ Line(Tail(poolQueue), pool', "waiting")
  <2>1. poolQueue \in Seq(Owners) /\ Line(poolQueue, pool, "waiting") /\ poolQueue # <<>>
    BY <1>1, <1>2 DEF PoolTypes, Lines
  <2>2. pool[Head(poolQueue)] = "waiting"
    BY <2>1, HeadTailProperties DEF Line
  <2>3. Tail(poolQueue) \in Seq(Owners) /\ Line(Tail(poolQueue), pool', "waiting")
    BY <1>5, <2>1, LineTail
  <2>4. QED  BY <1>3, <2>2, <2>3
<1>7. PoolTypes' /\ Line(poolQueue, pool, "waiting")'
  BY <1>1, <1>2, <1>6 DEF PoolTypes
<1>8. pc[o] = "connecting" \/ o \in late
  BY <1>6 DEF IInv, Local, Place
<1>9. QED  BY <1>2, <1>4, <1>6, <1>7, <1>8, PoolStepInv

\* A connect that comes in time begins the transaction; one that comes late
\* gives its client back.
LEMMA ConnectedInv == ASSUME IInv, NEW o \in Owners, Connected(o) PROVE IInv'
<1>1. AdmissionTypes /\ PoolTypes /\ ServerTypes /\ WorldTypes /\ Slots /\ Ends /\ Lines /\ Local(o)
  BY TypeParts DEF IInv
<1>2. /\ pool[o] = "opening"
      /\ UNCHANGED <<admissionVars, poolQueue, late, returned, failure, aborted, socket,
                     reply, tx, locks, answerVars, worldVars>>
  BY DEF Connected
<1>3. CASE o \in late
  <2>1. pool' = [pool EXCEPT ![o] = "none"] /\ UNCHANGED <<pc, stmt>>
    BY <1>3 DEF Connected, LateConnect
  <2>2. pool'[o] = "none" /\ \A p \in Owners : p # o => pool'[p] = pool[p]
    BY <1>1, <2>1 DEF PoolTypes
  <2>3. PoolTypes'
    BY <1>1, <1>2, <2>1 DEF PoolTypes
  <2>4. Line(poolQueue, pool, "waiting")'
    <3>1. \A y \in Owners : pool[y] = "waiting" => pool'[y] = "waiting"
      BY <1>2, <2>2
    <3>2. Line(poolQueue, pool', "waiting")
      BY <1>1, <3>1, LineKept DEF PoolTypes, Lines
    <3>3. QED  BY <1>2, <3>2
  <2>5. UNCHANGED serverVars
    BY <1>2, <2>1 DEF serverVars
  <2>6. QED  BY <1>2, <1>3, <2>1, <2>2, <2>3, <2>4, <2>5, PoolStepInv
<1>4. CASE o \notin late
  <2>1. /\ pool' = [pool EXCEPT ![o] = "held"] /\ pc' = [pc EXCEPT ![o] = "begin"]
        /\ stmt' = [stmt EXCEPT ![o] = "begin"]
    BY <1>4 DEF Connected
  <2>2. pc[o] = "connecting" /\ Fresh(o)
    BY <1>1, <1>2, <1>4 DEF Local, Place
  <2>3. /\ pool'[o] = "held" /\ pc'[o] = "begin" /\ stmt'[o] = "begin"
        /\ \A p \in Owners : p # o => pool'[p] = pool[p] /\ pc'[p] = pc[p] /\ stmt'[p] = stmt[p]
    BY <1>1, <2>1 DEF PoolTypes, AdmissionTypes, ServerTypes
  <2>4. PoolTypes'
    BY <1>1, <1>2, <2>1 DEF PoolTypes
  <2>5. ServerTypes'
    BY <1>1, <1>2, <2>1 DEF ServerTypes, Phases
  <2>6. AdmissionTypes'
    BY <1>1, <1>2, <2>1 DEF AdmissionTypes, admissionVars, answerVars, Phases
  <2>7. WorldTypes'
    BY <1>1, <1>2, WorldKept
  <2>8. Lines'
    <3>1. (\A x \in Requests : pc[x] = "queued" => pc'[x] = "queued")
          /\ \A y \in Owners : pool[y] = "waiting" => pool'[y] = "waiting"
      BY <1>2, <2>2, <2>3 DEF Owners
    <3>2. Line(queue, pc', "queued")
      BY <1>1, <3>1, LineKept DEF AdmissionTypes, Lines
    <3>3. Line(poolQueue, pool', "waiting")
      BY <1>1, <3>1, LineKept DEF PoolTypes, Lines
    <3>4. QED  BY <1>2, <3>2, <3>3 DEF Lines, admissionVars
  <2>9. Slots'
    BY <1>1, <1>2, <2>2, <2>3 DEF Slots, Busy, Working, Phases, Owners, admissionVars
  <2>10. Ends'
    <3>1. \A k \in Checks : pc[k] = "idle" => pc'[k] = "idle"
      BY <2>2, <2>3 DEF Owners
    <3>2. QED  BY <1>1, <1>2, <3>1 DEF Ends, admissionVars
  <2>11. UNCHANGED <<reply, tx, locks, socket, returned, revoked, paused, fenced, late, answer, lease, failure>>
    BY <1>2 DEF worldVars, answerVars
  <2>12. ASSUME NEW p \in Owners PROVE Local(p)'
    <3>1. CASE p = o
      <4>1. Place(o)'
        BY <1>4, <2>2, <2>3, <2>11 DEF Place, Fresh, Agrees, Working, Phases
      <4>2. Fate(o)'
        BY <2>2, <2>3, <2>11 DEF Fate, Fresh
      <4>3. o \in Checks => CheckPlace(o)'
        BY <1>1, <2>3, <2>11 DEF Local, CheckPlace
      <4>4. o \in Requests => Told(o)' /\ Locked(o)'
        BY <1>1, <2>2, <2>3, <2>11 DEF Local, Told, Locked, Fresh
      <4>5. QED  BY <3>1, <4>1, <4>2, <4>3, <4>4 DEF Local
    <3>2. CASE p # o
      <4>1. Same(p)
        BY <2>3, <2>11, <3>2 DEF Same
      <4>2. QED  BY <4>1, SameLocal DEF IInv
    <3>3. QED  BY <3>1, <3>2
  <2>13. QED  BY <2>4, <2>5, <2>6, <2>7, <2>8, <2>9, <2>10, <2>12, Whole
<1>5. QED  BY <1>3, <1>4

LEMMA ConnectFailsInv == ASSUME IInv, NEW o \in Owners, ConnectFails(o) PROVE IInv'
<1>1. PoolTypes /\ ServerTypes /\ WorldTypes /\ Lines /\ Local(o)
  BY TypeParts DEF IInv
<1>2. /\ pool[o] \in {"waiting", "opening"} /\ pool' = [pool EXCEPT ![o] = "none"]
      /\ IF pool[o] = "waiting" THEN Leaves(o, poolQueue, poolQueue') ELSE UNCHANGED poolQueue
      /\ UNCHANGED <<late, returned, aborted, socket, serverVars, worldVars>>
  BY DEF ConnectFails
<1>3. pool'[o] = "none" /\ \A p \in Owners : p # o => pool'[p] = pool[p]
  BY <1>1, <1>2 DEF PoolTypes
<1>4. poolQueue' \in Seq(Owners) /\ Line(poolQueue, pool, "waiting")'
  <2>1. poolQueue \in Seq(Owners) /\ Line(poolQueue, pool, "waiting")
    BY <1>1 DEF PoolTypes, Lines
  <2>2. \A y \in Owners : pool[y] = "waiting" /\ y # o => pool'[y] = "waiting"
    BY <1>3
  <2>3. CASE pool[o] = "waiting"
    <3>1. Leaves(o, poolQueue, poolQueue')
      BY <1>2, <2>3
    <3>2. poolQueue' \in Seq(Owners) /\ Line(poolQueue', pool', "waiting")
      BY <2>1, <2>2, <3>1, LeavesShorter, LineLeaves
    <3>3. QED  BY <3>2
  <2>4. CASE pool[o] # "waiting"
    <3>1. \A y \in Owners : pool[y] = "waiting" => pool'[y] = "waiting"
      BY <2>2, <2>4
    <3>2. Line(poolQueue, pool', "waiting")
      BY <2>1, <3>1, LineKept
    <3>3. QED  BY <1>2, <2>1, <2>4, <3>2
  <2>5. QED  BY <2>3, <2>4
<1>5. PoolTypes' /\ WorldTypes'
  BY <1>1, <1>2, <1>4, WorldKept DEF PoolTypes
<1>6. CASE o \in late
  <2>1. UNCHANGED <<admissionVars, pc, failure, answerVars>>
    BY <1>6 DEF ConnectFails
  <2>2. QED  BY <1>2, <1>3, <1>4, <1>5, <1>6, <2>1, PoolStepInv
<1>7. CASE o \notin late
  <2>1. Settle(o, "lost") /\ pc[o] = "connecting" /\ o \notin late'
    BY <1>1, <1>2, <1>7 DEF ConnectFails, Local, Place
  <2>2. QED  BY <1>2, <1>3, <1>4, <1>5, <1>7, <2>1, SettleFreshInv DEF Failures
<1>8. QED  BY <1>6, <1>7

\* A probe starts on a client of its own.
LEMMA ProbeInv == ASSUME IInv, NEW h \in Checks, Probe(h) PROVE IInv'
<1>1. AdmissionTypes /\ PoolTypes /\ ServerTypes /\ WorldTypes /\ Slots /\ Ends /\ Lines /\ Local(h)
      /\ h \in Owners /\ h \notin Requests
  BY TypeParts, OwnerAssumption DEF IInv, Owners
<1>2. /\ pc[h] = "idle" /\ ~closing
      /\ pc' = [pc EXCEPT ![h] = "admitted"] /\ socket' = [socket EXCEPT ![h] = "up"]
      /\ stmt' = [stmt EXCEPT ![h] = "none"] /\ reply' = [reply EXCEPT ![h] = "none"]
      /\ tx' = [tx EXCEPT ![h] = "none"] /\ returned' = returned \ {h}
      /\ UNCHANGED <<admissionVars, poolQueue, pool, late, failure, aborted, locks,
                     answerVars, worldVars>>
  BY DEF Probe
<1>3. /\ pc'[h] = "admitted" /\ socket'[h] = "up" /\ stmt'[h] = "none" /\ reply'[h] = "none"
      /\ tx'[h] = "none"
      /\ \A p \in Owners : p # h => /\ pc'[p] = pc[p] /\ socket'[p] = socket[p] /\ stmt'[p] = stmt[p]
                                    /\ reply'[p] = reply[p] /\ tx'[p] = tx[p]
  BY <1>1, <1>2 DEF AdmissionTypes, ServerTypes, WorldTypes
<1>4. AdmissionTypes'
  BY <1>1, <1>2 DEF AdmissionTypes, admissionVars, answerVars
<1>5. PoolTypes' /\ ServerTypes' /\ WorldTypes'
  BY <1>1, <1>2 DEF PoolTypes, ServerTypes, WorldTypes, Unread, worldVars
<1>6. Lines'
  <2>1. \A x \in Requests : pc[x] = "queued" => pc'[x] = "queued"
    BY <1>1, <1>3 DEF Owners
  <2>2. Line(queue, pc', "queued")
    BY <1>1, <2>1, LineKept DEF AdmissionTypes, Lines
  <2>3. QED  BY <1>1, <1>2, <2>2 DEF Lines, Line, admissionVars
<1>7. Slots' /\ Ends'
  BY <1>1, <1>2, <1>3 DEF Slots, Ends, Owners, admissionVars
<1>8. UNCHANGED <<locks, pool, revoked, paused, fenced, late, answer, lease, failure>>
      /\ h \notin returned' /\ \A p \in Owners : p # h => (p \in returned' <=> p \in returned)
  BY <1>2 DEF worldVars, answerVars
<1>9. ASSUME NEW p \in Owners PROVE Local(p)'
  <2>1. CASE p = h
    <3>1. pool[h] = "none" /\ h \notin late /\ locks[h] = {} /\ h \notin Previews
      BY <1>1, <1>2, OwnerAssumption DEF Local, Place, CheckPlace, PoolTypes, Working, Phases
    <3>2. Place(h)' /\ Fate(h)' /\ CheckPlace(h)'
      BY <1>3, <1>8, <3>1 DEF Place, Fate, CheckPlace, Fresh, Working, Phases
    <3>3. QED  BY <1>1, <2>1, <3>2 DEF Local
  <2>2. CASE p # h
    <3>1. Same(p)
      BY <1>3, <1>8, <2>2 DEF Same
    <3>2. QED  BY <3>1, SameLocal DEF IInv
  <2>3. QED  BY <2>1, <2>2
<1>10. QED  BY <1>4, <1>5, <1>6, <1>7, <1>9, Whole

LEMMA SolverReadyInv == ASSUME IInv, NEW h \in Checks, SolverReady(h) PROVE IInv'
<1>1. AdmissionTypes /\ PoolTypes /\ ServerTypes /\ WorldTypes /\ Slots /\ Ends /\ Lines /\ Local(h)
      /\ h \in Owners /\ h \notin Requests
  BY TypeParts, OwnerAssumption DEF IInv, Owners
<1>2. /\ pc[h] = "solver" /\ pc' = [pc EXCEPT ![h] = "idle"]
      /\ UNCHANGED <<admissionVars, poolVars, failure, aborted, socket, serverVars,
                     answerVars, worldVars>>
  BY DEF SolverReady
<1>3. pc'[h] = "idle" /\ \A p \in Owners : p # h => pc'[p] = pc[p]
  BY <1>1, <1>2 DEF AdmissionTypes
<1>4. AdmissionTypes' /\ PoolTypes' /\ ServerTypes' /\ WorldTypes'
  BY <1>1, <1>2, PoolKept, ServerKept, WorldKept DEF AdmissionTypes, admissionVars, answerVars
<1>5. Lines'
  <2>1. \A x \in Requests : pc[x] = "queued" => pc'[x] = "queued"
    BY <1>1, <1>3 DEF Owners
  <2>2. Line(queue, pc', "queued")
    BY <1>1, <2>1, LineKept DEF AdmissionTypes, Lines
  <2>3. QED  BY <1>1, <1>2, <2>2 DEF Lines, Line, admissionVars, poolVars
<1>6. Slots' /\ Ends'
  BY <1>1, <1>2, <1>3 DEF Slots, Ends, Owners, admissionVars
<1>7. UNCHANGED <<stmt, reply, tx, socket, returned, locks, pool, revoked, paused, fenced, late, answer,
                  lease, failure>>
  BY <1>2 DEF poolVars, serverVars, worldVars, answerVars
<1>8. ASSUME NEW p \in Owners PROVE Local(p)'
  <2>1. CASE p = h
    <3>1. Place(h)' /\ Fate(h)' /\ CheckPlace(h)'
      BY <1>1, <1>2, <1>3, <1>7 DEF Local, Place, Fate, CheckPlace, Fresh, Working, Phases
    <3>2. QED  BY <1>1, <2>1, <3>1 DEF Local
  <2>2. CASE p # h
    <3>1. Same(p)
      BY <1>3, <1>7, <2>2 DEF Same
    <3>2. QED  BY <3>1, SameLocal DEF IInv
  <2>3. QED  BY <2>1, <2>2
<1>9. QED  BY <1>4, <1>5, <1>6, <1>8, Whole

-----------------------------------------------------------------------------
\* Aborts, the answer and the shutdown

LEMMA AbortInv ==
    ASSUME IInv, NEW r \in Requests, NEW signal \in {"lease", "request"}, Abort(r, signal)
    PROVE  IInv'
<1>1. PoolTypes /\ ServerTypes /\ WorldTypes /\ Lines /\ Local(r) /\ r \in Owners
  BY TypeParts DEF IInv, Owners
<1>2. aborted' = [aborted EXCEPT ![r] = signal] /\ UNCHANGED <<serverVars, worldVars>>
  BY DEF Abort
<1>3. aborted' \in [Requests -> {"no", "lease", "request"}]
  BY <1>1, <1>2 DEF WorldTypes
<1>4. CASE /\ Leaves(r, queue, queue')
           /\ Refuse(r, IF signal = "lease" THEN "refused" ELSE "expired")
           /\ UNCHANGED <<poolVars, socket>>
  <2>1. PICK why \in {"refused", "expired"} : Refuse(r, why)
    BY <1>4
  <2>2. why \in Failures \ {"none"}
    BY DEF Failures
  <2>3. WorldTypes'
    BY <1>1, <1>2, <1>3, <1>4 DEF WorldTypes, worldVars
  <2>4. QED  BY <1>2, <1>4, <2>1, <2>2, <2>3, RefuseInv
<1>5. CASE /\ pc[r] = "connecting" /\ Settle(r, "aborted") /\ late' = late \cup {r}
           /\ UNCHANGED <<poolQueue, pool, returned, socket>>
  <2>1. pool[r] \in {"none", "waiting", "opening"}
    BY <1>1, <1>5 DEF Local, Place, PoolTypes, Working, Phases
  <2>2. PoolTypes' /\ Line(poolQueue, pool, "waiting")'
    BY <1>1, <1>5 DEF PoolTypes, Lines, Line
  <2>3. WorldTypes'
    BY <1>1, <1>2, <1>3, <1>5 DEF WorldTypes, worldVars
  <2>4. /\ \A p \in Owners : p # r => pool'[p] = pool[p] /\ (p \in late' <=> p \in late)
        /\ pool'[r] = "none" \/ (pool'[r] \in {"waiting", "opening"} /\ r \in late')
    BY <1>5, <2>1
  <2>5. QED  BY <1>1, <1>2, <1>5, <2>2, <2>3, <2>4, SettleFreshInv DEF Failures
<1>6. CASE /\ pc[r] \in Phases \cup {"rollback"}
           /\ socket' = [socket EXCEPT ![r] = IF @ = "up" THEN "ended" ELSE @]
           /\ UNCHANGED <<admissionVars, poolVars, pc, failure, answerVars>>
  <2>1. socket'[r] # "up" /\ \A p \in Owners : p # r => socket'[p] = socket[p]
    BY <1>1, <1>6 DEF WorldTypes
  <2>2. WorldTypes' /\ ServerTypes'
    BY <1>1, <1>2, <1>3, <1>6, ServerKept DEF WorldTypes, worldVars
  <2>3. UNCHANGED <<pc, pool, failure, late, returned, stmt, reply, tx, locks, answer, lease,
                    revoked, paused, fenced>>
    BY <1>2, <1>6 DEF poolVars, serverVars, answerVars, worldVars
  <2>4. Local(r)'
    <3>1. pc[r] \in Working
      BY <1>6 DEF Working
    <3>2. Place(r)' /\ Fate(r)'
      BY <1>1, <2>1, <2>3, <3>1 DEF Local, Place, Fate, Working, Phases
    <3>3. (r \in Checks => CheckPlace(r)') /\ (r \in Requests => Told(r)' /\ Locked(r)')
      BY <1>1, <2>1, <2>3 DEF Local, CheckPlace, Told, Locked
    <3>4. QED  BY <3>2, <3>3 DEF Local
  <2>5. \A p \in Owners : p # r => /\ stmt'[p] = stmt[p] /\ reply'[p] = reply[p] /\ tx'[p] = tx[p]
                                   /\ locks'[p] = locks[p] /\ socket'[p] = socket[p]
    BY <2>1, <2>3
  <2>6. QED  BY <1>1, <1>2, <1>6, <2>2, <2>4, <2>5, ServerStepInv
<1>7. CASE UNCHANGED <<admissionVars, poolVars, pc, failure, answerVars, socket>>
  <2>1. WorldTypes' /\ ServerTypes'
    BY <1>1, <1>2, <1>3, <1>7, ServerKept DEF WorldTypes, worldVars
  <2>2. Same(r) /\ \A p \in Owners : /\ stmt'[p] = stmt[p] /\ reply'[p] = reply[p] /\ tx'[p] = tx[p]
                                     /\ locks'[p] = locks[p] /\ socket'[p] = socket[p]
    BY <1>2, <1>7 DEF Same, poolVars, serverVars, answerVars, worldVars
  <2>3. Local(r)'
    BY <1>1, <2>2, SameLocal
  <2>4. QED  BY <1>1, <1>2, <1>7, <2>1, <2>2, <2>3, ServerStepInv
<1>8. QED  BY <1>4, <1>5, <1>6, <1>7 DEF Abort

\* The answer of a settled operation says what its transaction has come to.
LEMMA AnswerInv ==
    ASSUME IInv, NEW r \in Requests, NEW confirmed \in BOOLEAN, pc[r] = "settled",
           Answer(r, confirmed), WorldTypes',
           lease' \in {lease, [lease EXCEPT ![r] = "released"]},
           confirmed => lease' = [lease EXCEPT ![r] = "released"]
    PROVE  IInv'
<1>1. AdmissionTypes /\ PoolTypes /\ ServerTypes /\ WorldTypes /\ Slots /\ Ends /\ Lines /\ Local(r)
      /\ r \in Owners /\ r \notin Checks
  BY TypeParts, OwnerAssumption DEF IInv, Owners
<1>2. /\ pc' = [pc EXCEPT ![r] = "answered"]
      /\ answer' = [answer EXCEPT ![r] = Outcome(r, confirmed)]
      /\ failure' = [failure EXCEPT ![r] = "none"]
      /\ UNCHANGED <<admissionVars, poolVars, socket, serverVars, worldVars>>
  BY DEF Answer
<1>3. Outcome(r, confirmed) \in {"ok", "accepted", "rejected", "unknown"}
  BY DEF Outcome
<1>4. /\ pc'[r] = "answered" /\ answer'[r] = Outcome(r, confirmed)
      /\ confirmed => lease'[r] = "released"
      /\ \A p \in Owners : p # r => pc'[p] = pc[p] /\ failure'[p] = failure[p]
      /\ \A p \in Requests : p # r => answer'[p] = answer[p] /\ lease'[p] = lease[p]
  BY <1>1, <1>2 DEF AdmissionTypes
<1>5. AdmissionTypes'
  <2>1. lease' \in [Requests -> {"held", "releasing", "released"}]
    BY <1>1 DEF AdmissionTypes
  <2>2. QED  BY <1>1, <1>2, <1>3, <2>1 DEF AdmissionTypes, admissionVars, Failures
<1>6. PoolTypes' /\ ServerTypes'
  BY <1>1, <1>2, PoolKept, ServerKept
<1>7. Lines'
  <2>1. \A x \in Requests : pc[x] = "queued" => pc'[x] = "queued"
    BY <1>4 DEF Owners
  <2>2. Line(queue, pc', "queued")
    BY <1>1, <2>1, LineKept DEF AdmissionTypes, Lines
  <2>3. QED  BY <1>1, <1>2, <2>2 DEF Lines, Line, admissionVars, poolVars
<1>8. Slots' /\ Ends'
  BY <1>1, <1>2, <1>4 DEF Slots, Ends, Busy, Working, Phases, Owners, admissionVars
<1>9. UNCHANGED <<stmt, reply, tx, socket, returned, locks, pool, revoked, paused, fenced, late>>
  BY <1>2 DEF poolVars, serverVars, worldVars
<1>10. ASSUME NEW p \in Owners PROVE Local(p)'
  <2>1. CASE p = r
    <3>1. Place(r)' /\ Fate(r)'
      BY <1>1, <1>4, <1>9 DEF Local, Place, Fate, Fresh, Working, Phases
    <3>2. Told(r)'
      <4>1. answer'[r] = "ok" => confirmed /\ failure[r] = "none"
        BY <1>4 DEF Outcome
      <4>2. answer'[r] \in {"ok", "accepted"} => failure[r] = "none"
        BY <1>4 DEF Outcome
      <4>3. answer'[r] = "rejected" => failure[r] = "refused"
        BY <1>4 DEF Outcome
      <4>4. QED  BY <1>1, <1>3, <1>4, <1>9, <4>1, <4>2, <4>3 DEF Local, Fate, Told
    <3>3. Locked(r)'
      BY <1>1, <1>4, <1>9 DEF Local, Locked, Phases
    <3>4. QED  BY <1>1, <2>1, <3>1, <3>2, <3>3 DEF Local
  <2>2. CASE p # r
    <3>1. Same(p)
      BY <1>4, <1>9, <2>2 DEF Same
    <3>2. QED  BY <3>1, SameLocal DEF IInv
  <2>3. QED  BY <2>1, <2>2
<1>11. QED  BY <1>5, <1>6, <1>7, <1>8, <1>10, Whole

LEMMA LeaseSettlesInv == ASSUME IInv, NEW r \in Requests, LeaseSettles(r) PROVE IInv'
<1>1. pc[r] = "settled" /\ UNCHANGED aborted
  BY DEF LeaseSettles
<1>2. PICK confirmed \in BOOLEAN :
          /\ Answer(r, confirmed)
          /\ lease' \in {lease, [lease EXCEPT ![r] = "released"]}
          /\ confirmed => lease' = [lease EXCEPT ![r] = "released"]
  BY DEF LeaseSettles
<1>3. UNCHANGED <<aborted, socket, worldVars>>
  BY <1>1, <1>2 DEF Answer
<1>4. WorldTypes'
  BY <1>3, TypeParts, WorldKept DEF IInv
<1>5. QED  BY <1>1, <1>2, <1>4, AnswerInv

LEMMA AbortSettlingInv == ASSUME IInv, NEW r \in Requests, AbortSettling(r) PROVE IInv'
<1>1. /\ pc[r] = "settled" /\ aborted' = [aborted EXCEPT ![r] = "request"]
      /\ Answer(r, FALSE) /\ UNCHANGED lease /\ UNCHANGED <<socket, worldVars>>
  BY DEF AbortSettling, Answer
<1>2. WorldTypes
  BY TypeParts DEF IInv
<1>3. WorldTypes'
  BY <1>1, <1>2 DEF WorldTypes, worldVars
<1>4. QED  BY <1>1, <1>3, AnswerInv

\* Who waits for a slot is refused when the plane closes.
LEMMA CloseInv == IInv /\ Close => IInv'
<1> SUFFICES ASSUME IInv, Close PROVE IInv'  OBVIOUS
<1> DEFINE Queued == {r \in Requests : pc[r] = "queued"}
<1>1. AdmissionTypes /\ PoolTypes /\ ServerTypes /\ WorldTypes /\ Slots /\ Ends /\ Lines
  BY TypeParts DEF IInv
<1>2. /\ ~closing /\ closing' = TRUE /\ close' = "compiler" /\ queue' = <<>>
      /\ pc' = [o \in Owners |-> IF o \in Queued THEN "settled" ELSE pc[o]]
      /\ failure' = [o \in Owners |-> IF o \in Queued THEN "closing" ELSE failure[o]]
      /\ lease' = [r \in Requests |-> IF r \in Queued THEN "releasing" ELSE lease[r]]
      /\ UNCHANGED <<active, answer, poolVars, aborted, socket, serverVars, worldVars>>
  BY DEF Close
<1>3. AdmissionTypes'
  <2>1. queue' \in Seq(Requests) /\ Len(queue') <= MaxQueued
    BY <1>2, LimitAssumption
  <2>2. pc' \in [Owners -> Phases \cup {"idle", "queued", "admitted", "connecting",
                                        "rollback", "solver", "settled", "answered"}]
        /\ failure' \in [Owners -> Failures]
        /\ lease' \in [Requests -> {"held", "releasing", "released"}]
    BY <1>1, <1>2 DEF AdmissionTypes, Failures
  <2>3. QED  BY <1>1, <1>2, <2>1, <2>2 DEF AdmissionTypes
<1>4. PoolTypes' /\ ServerTypes' /\ WorldTypes'
  BY <1>1, <1>2, PoolKept, ServerKept, WorldKept
<1>5. Lines'
  BY <1>1, <1>2 DEF Lines, Line, poolVars
<1>6. Slots'
  BY <1>1, <1>2 DEF Slots, Busy, Working, Phases, Owners
<1>7. Ends'
  BY <1>2 DEF Ends
<1>8. UNCHANGED <<stmt, reply, tx, locks, socket, returned, revoked, paused, fenced, pool, late, answer>>
  BY <1>2 DEF poolVars, serverVars, worldVars
<1>9. ASSUME NEW p \in Owners PROVE Local(p)'
  <2>1. CASE p \in Queued
    <3>1. p \in Requests /\ p \notin Checks /\ pc[p] = "queued"
      BY <2>1, OwnerAssumption
    <3>2. pool[p] = "none" /\ p \notin late /\ Fresh(p)
      BY <3>1, OutOfPool
    <3>3. pc'[p] = "settled" /\ failure'[p] = "closing"
      BY <1>2, <2>1
    <3>4. Local(p)
      BY DEF IInv
    <3>5. QED  BY <1>8, <3>1, <3>2, <3>3, <3>4, FreshSettles
  <2>2. CASE p \notin Queued
    <3>1. pc'[p] = pc[p] /\ failure'[p] = failure[p] /\ (p \in Requests => lease'[p] = lease[p])
      BY <1>2, <2>2
    <3>2. Same(p)
      BY <1>8, <3>1 DEF Same
    <3>3. QED  BY <3>2, SameLocal DEF IInv
  <2>3. QED  BY <2>1, <2>2
<1>10. QED  BY <1>3, <1>4, <1>5, <1>6, <1>7, <1>9, Whole

\* The steps of close() after the first await.
LEMMA ClosingInv == IInv /\ (CompilerDown \/ PoolEnds) => IInv'
<1> SUFFICES ASSUME IInv, CompilerDown \/ PoolEnds PROVE IInv'  OBVIOUS
<1>1. AdmissionTypes /\ PoolTypes /\ ServerTypes /\ WorldTypes /\ Slots /\ Ends /\ Lines
  BY TypeParts DEF IInv
<1>2. /\ close # "no" /\ close' \in {"settling", "failed", "ended"}
      /\ close' = "ended" => active = {} /\ \A k \in Checks : pc[k] = "idle"
      /\ UNCHANGED <<closing, active, queue, poolVars, pc, failure, aborted, socket,
                     serverVars, answerVars, worldVars>>
  BY DEF CompilerDown, PoolEnds
<1>3. AdmissionTypes' /\ PoolTypes' /\ ServerTypes' /\ WorldTypes'
  BY <1>1, <1>2, PoolKept, ServerKept, WorldKept DEF AdmissionTypes, answerVars
<1>4. Lines' /\ Slots' /\ Ends'
  BY <1>1, <1>2 DEF Lines, Line, Slots, Ends, poolVars
<1>5. ASSUME NEW p \in Owners PROVE Local(p)'
  <2>1. Same(p)
    BY <1>2 DEF Same, poolVars, serverVars, answerVars, worldVars
  <2>2. QED  BY <2>1, SameLocal DEF IInv
<1>6. QED  BY <1>3, <1>4, <1>5, Whole

-----------------------------------------------------------------------------
\* The steps of the specification

LEMMA NextInv == IInv /\ [Next]_vars => IInv'
<1> SUFFICES ASSUME IInv, [Next]_vars PROVE IInv'  OBVIOUS
<1>1. ASSUME NEW r \in Requests,
             \/ Admit(r) \/ QueueTimeout(r) \/ LeaseSettles(r) \/ AbortSettling(r) \/ Revoke(r)
             \/ \E signal \in {"lease", "request"} : Abort(r, signal)
      PROVE  IInv'
  BY <1>1, AdmitInv, QueueTimeoutInv, LeaseSettlesInv, AbortSettlingInv, RevokeInv, AbortInv
<1>2. ASSUME NEW o \in Owners, Operate(o) PROVE IInv'
  BY <1>2, StartInv, ConnectedInv, ConnectFailsInv, PhaseReturnsInv, CompileReturnsInv,
     CommitReturnsInv, DiscardReturnsInv, RollbackReturnsInv DEF Operate
<1>3. ASSUME NEW o \in Owners, Serve(o) \/ ServerDrops(o) \/ LoseConnection(o) PROVE IInv'
  BY <1>3, ServeInv, ServerDropsInv, LoseConnectionInv
<1>4. ASSUME NEW h \in Checks, Probe(h) \/ SolverReady(h) PROVE IInv'
  BY <1>4, ProbeInv, SolverReadyInv
<1>5. CASE PoolGrant \/ Pause \/ FenceExclusive \/ Close \/ CompilerDown \/ PoolEnds
  BY <1>5, PoolGrantInv, PauseInv, CloseInv, ClosingInv
<1>6. CASE UNCHANGED vars
  <2>1. AdmissionTypes /\ PoolTypes /\ ServerTypes /\ WorldTypes /\ Slots /\ Ends /\ Lines
    BY TypeParts DEF IInv
  <2>2. UNCHANGED <<admissionVars, poolVars, pc, failure, aborted, socket, serverVars,
                    answerVars, worldVars>>
    BY <1>6 DEF vars
  <2>3. (AdmissionTypes /\ Slots /\ Ends /\ Line(queue, pc, "queued"))'
    BY <2>1, <2>2, AdmissionKept DEF Lines
  <2>4. PoolTypes' /\ ServerTypes' /\ WorldTypes' /\ Line(poolQueue, pool, "waiting")'
    BY <2>1, <2>2, PoolKept, ServerKept, WorldKept DEF Lines, Line, poolVars
  <2>5. ASSUME NEW p \in Owners PROVE Local(p)'
    <3>1. Same(p)
      BY <2>2 DEF Same, poolVars, serverVars, answerVars, worldVars
    <3>2. QED  BY <3>1, SameLocal DEF IInv
  <2>6. QED  BY <2>3, <2>4, <2>5, Whole DEF Lines
<1>7. QED  BY <1>1, <1>2, <1>3, <1>4, <1>5, <1>6 DEF Next

LEMMA Invariance == Spec => []IInv
BY InitInv, NextInv, PTL DEF Spec

-----------------------------------------------------------------------------
\* The theorems

\* Every variable keeps its type; in particular no more than
\* transactionConcurrency operations execute at once and no more than
\* maxQueuedTransactions wait, whatever settles, expires or is aborted while
\* the queue is drained.
THEOREM TypeCorrect == Spec => []TypeOK
<1>1. IInv => TypeOK
  BY DEF IInv
<1>2. QED  BY Invariance, <1>1, PTL

\* What respond() tells a manager is what the transaction has come to.
THEOREM TrueAnswer == Spec => []Truthful
<1>1. IInv => Truthful
  BY DEF IInv, Truthful, Local, Told, Fate, Owners
<1>2. QED  BY Invariance, <1>1, PTL

\* A client released for reuse is clean, and the pool ends only when no
\* execution holds one.
THEOREM CleanRelease == Spec => []CleanPool
<1>1. ASSUME IInv PROVE CleanPool
  <2>1. ASSUME NEW o \in returned
        PROVE  tx[o] \in {"committed", "rolledback"} /\ stmt[o] = "none"
    <3>1. o \in Owners
      BY <1>1, <2>1 DEF IInv, TypeOK
    <3>2. QED  BY <1>1, <2>1, <3>1 DEF IInv, Local, Fate
  <2>2. ASSUME close = "ended", NEW o \in Owners
        PROVE  pool[o] # "held" /\ pc[o] \notin Phases \cup {"rollback"}
    <3>1. pc[o] \notin Working
      BY <1>1, <2>2 DEF IInv, Slots, Ends, Busy, Working, Phases, Owners
    <3>2. QED  BY <1>1, <3>1 DEF IInv, Local, Place, Working
  <2>3. QED  BY <2>1, <2>2 DEF CleanPool
<1>2. QED  BY Invariance, <1>1, PTL

\* A step that commits is a COMMIT the server runs with both rows locked.
LEMMA CommitKeepsRows ==
    ASSUME IInv, [Next]_vars, NEW r \in Requests, Commits(r)
    PROVE  ~fenced /\ r \notin revoked /\ "fence" \in locks[r]
<1>1. ServerTypes /\ Local(r) /\ r \in Owners
  BY TypeParts DEF IInv, Owners
<1>2. tx[r] # "committed" /\ tx'[r] = "committed"
  BY DEF Commits
<1>3. CASE \E o \in Owners : Serve(o)
  <2>1. PICK o \in Owners : Serve(o)
    BY <1>3
  <2>2. o = r
    BY <1>1, <1>2, <2>1 DEF Serve, ServerFails, ServerEnds, ServerRuns, ServerTypes
  <2>3. stmt[r] = "commit" /\ tx[r] = "open"
    BY <1>1, <1>2, <2>1, <2>2 DEF Serve, ServerFails, ServerEnds, ServerRuns, ServerTypes
  <2>4. QED  BY <1>1, <2>3 DEF Local, Locked
<1>4. CASE \E o \in Owners : ServerDrops(o)
  BY <1>1, <1>2, <1>4 DEF ServerDrops, ServerTypes
<1>5. CASE \E h \in Checks : Probe(h)
  BY <1>1, <1>2, <1>5 DEF Probe, ServerTypes
<1>6. CASE \E p \in Requests :
              \/ Admit(p) \/ QueueTimeout(p) \/ LeaseSettles(p) \/ AbortSettling(p) \/ Revoke(p)
              \/ \E signal \in {"lease", "request"} : Abort(p, signal)
  <2>1. UNCHANGED tx
    BY <1>6 DEF Admit, QueueTimeout, LeaseSettles, AbortSettling, Answer, Revoke, Abort, serverVars
  <2>2. QED  BY <1>2, <2>1
<1>7. CASE \E o \in Owners : Operate(o) \/ LoseConnection(o)
  <2>1. UNCHANGED tx
    BY <1>7 DEF Operate, Start, Connected, ConnectFails, PhaseReturns, CompileReturns, CommitReturns,
                DiscardReturns, RollbackReturns, LoseConnection, Send, RollBack, End, serverVars
  <2>2. QED  BY <1>2, <2>1
<1>8. CASE \/ \E h \in Checks : SolverReady(h)
           \/ PoolGrant \/ Pause \/ FenceExclusive \/ Close \/ CompilerDown \/ PoolEnds \/ UNCHANGED vars
  <2>1. UNCHANGED tx
    BY <1>8 DEF SolverReady, PoolGrant, Pause, FenceExclusive, Close, CompilerDown, PoolEnds, vars, serverVars
  <2>2. QED  BY <1>2, <2>1
<1>9. QED  BY <1>3, <1>4, <1>5, <1>6, <1>7, <1>8 DEF Next

\* Nothing commits while restore has the fence to itself, nor for a manager who
\* has been revoked; and what commits has kept the fence since it read the pause
\* under it (acquire_application_mutation_fence).
THEOREM WithdrawalHolds == Spec => NoCommitAfterWithdrawal
<1>1. IInv /\ [Next]_vars => [\A r \in Requests :
          Commits(r) => ~fenced /\ r \notin revoked /\ "fence" \in locks[r]]_vars
  BY CommitKeepsRows
<1>2. QED  BY Invariance, <1>1, PTL DEF Spec, NoCommitAfterWithdrawal

-----------------------------------------------------------------------------
\* The operations it implements

\* A statement at the server finds the transaction as its client left it, even
\* one whose client has gone; and a preview that succeeds was rolled back.
Shown(o) ==
    /\ stmt[o] # "compile"
    /\ stmt[o] = "begin" => tx[o] = "none"
    /\ stmt[o] \in Locking \cup {"commit", "discard"} => tx[o] = "open"
    /\ stmt[o] = "rollback" => tx[o] \in {"open", "failed", "rolledback"}
    /\ o \in Previews /\ \/ pc[o] = "settled" /\ failure[o] = "none"
                         \/ answer[o] \in {"ok", "accepted"}
           => tx[o] = "rolledback"

AllShown == \A o \in Owners : Shown(o)

Done == {"settled", "answered"}

EffectOf(p, s, x, l) ==
    IF x = "committed" THEN "done"
    ELSE IF x \in {"failed", "rolledback"} \/ (x = "none" /\ s = "none" /\ p \in Done) THEN "never"
    ELSE IF "fence" \in l THEN "entered" ELSE "open"

LEMMA EffectIs ==
    /\ Effect = [r \in Requests |-> EffectOf(pc[r], stmt[r], tx[r], locks[r])]
    /\ Effect' = [r \in Requests |-> EffectOf(pc'[r], stmt'[r], tx'[r], locks'[r])]
BY DEF Effect, EffectOf, Done

OperationsStep == [Operations!Next]_(Operations!vars)

\* The operation r goes on, or comes to nothing.
Onward(r) ==
    LET old == EffectOf(pc[r], stmt[r], tx[r], locks[r])
        new == EffectOf(pc'[r], stmt'[r], tx'[r], locks'[r])
    IN  new = old \/ (old \in {"open", "entered"} /\ new = "never")

\* A step that tells nobody anything and commits nothing gives up some operations.
LEMMA GivesUp ==
    ASSUME UNCHANGED <<answer, revoked, paused, fenced>>, \A r \in Requests : Onward(r)
    PROVE  OperationsStep
<1> DEFINE R == {r \in Requests : Effect[r] \in {"open", "entered"} /\ Effect'[r] = "never"}
<1>1. R \in SUBSET Requests /\ \A r \in R : Effect[r] \in {"open", "entered"}
  OBVIOUS
<1>2. \A r \in Requests : Effect'[r] = IF r \in R THEN "never" ELSE Effect[r]
  BY EffectIs DEF Onward
<1>3. Effect' = [r \in Requests |-> IF r \in R THEN "never" ELSE Effect[r]]
  <2> DEFINE E == [r \in Requests |-> EffectOf(pc'[r], stmt'[r], tx'[r], locks'[r])]
  <2>1. E = [r \in Requests |-> IF r \in R THEN "never" ELSE Effect[r]]
    <3>1. Effect' = E
      BY EffectIs
    <3>2. \A r \in Requests : E[r] = IF r \in R THEN "never" ELSE Effect[r]
      BY <1>2, <3>1
    <3>3. QED  BY <3>2
  <2>2. QED  BY <2>1, EffectIs
<1> HIDE DEF R
<1>4. Operations!GiveUp(R)
  BY <1>1, <1>3 DEF Operations!GiveUp, Operations!authority
<1>5. QED  BY <1>1, <1>4 DEF OperationsStep, Operations!Next

\* What both need of a step.
Moves == AllShown' /\ OperationsStep

\* A step that leaves the server alone: nobody who is done starts again, and a
\* preview that succeeds has been rolled back.
Calm(p) ==
    /\ p \in Requests /\ pc[p] \in Done => pc'[p] \in Done
    /\ p \in Previews /\ pc'[p] = "settled" /\ failure'[p] = "none" => tx[p] = "rolledback"

LEMMA CalmMoves ==
    ASSUME AllShown, UNCHANGED <<stmt, tx, locks, answer, revoked, paused, fenced>>, \A p \in Owners : Calm(p)
    PROVE  Moves
<1>1. AllShown'
  BY DEF AllShown, Shown, Calm
<1>2. ASSUME NEW r \in Requests PROVE Onward(r)
  BY DEF Onward, EffectOf, Calm, Done, Owners
<1>3. QED  BY <1>1, <1>2, GivesUp DEF Moves

\* A step that concerns o alone.
LEMMA OneMoves ==
    ASSUME AllShown, NEW o \in Owners, UNCHANGED <<answer, revoked, paused, fenced>>,
           \A p \in Owners : p # o => /\ pc'[p] = pc[p] /\ failure'[p] = failure[p]
                                      /\ stmt'[p] = stmt[p] /\ tx'[p] = tx[p] /\ locks'[p] = locks[p],
           Shown(o)', o \in Requests => Onward(o)
    PROVE  Moves
<1>1. AllShown'
  BY DEF AllShown, Shown
<1>2. ASSUME NEW r \in Requests PROVE Onward(r)
  BY DEF Onward, Owners
<1>3. QED  BY <1>1, <1>2, GivesUp DEF Moves
-----------------------------------------------------------------------------
\* Steps of the client

LEMMA SettleMoves ==
    ASSUME IInv, AllShown, NEW o \in Owners, NEW why \in Failures, pc[o] \in Busy, Settle(o, why),
           UNCHANGED <<stmt, tx, locks, revoked, paused, fenced>>,
           o \in Previews /\ why = "none" => tx[o] = "rolledback"
    PROVE  Moves
<1>1. /\ Others(o)
      /\ pc'[o] = SettledPc(o, why)
      /\ failure'[o] = IF o \in Checks THEN "none" ELSE why
  BY Settling
<1>2. answer' = answer
  BY DEF Settle
<1>3. ASSUME NEW p \in Owners PROVE Calm(p)
  <2>1. CASE p = o
    BY <1>1, <2>1, OwnerAssumption DEF Calm, SettledPc, Done, Busy, Working, Phases
  <2>2. CASE p # o
    <3>1. /\ pc'[p] = pc[p] \/ (pc[p] = "queued" /\ pc'[p] = "admitted")
          /\ failure'[p] = failure[p]
      BY <1>1, <2>2 DEF Others
    <3>2. Shown(p)
      BY DEF AllShown
    <3>3. QED  BY <3>1, <3>2 DEF Calm, Shown, Done
  <2>3. QED  BY <2>1, <2>2
<1>4. QED  BY <1>2, <1>3, CalmMoves

LEMMA EndMoves ==
    ASSUME IInv, AllShown, NEW o \in Owners, NEW why \in Failures, pc[o] \in Working, End(o, why),
           UNCHANGED <<aborted, socket, worldVars>>,
           o \in Previews /\ why = "none" => tx[o] = "rolledback"
    PROVE  Moves
<1>1. Settle(o, why) /\ UNCHANGED <<stmt, tx, locks, revoked, paused, fenced>> /\ pc[o] \in Busy
  BY DEF End, worldVars, Busy
<1>2. QED  BY <1>1, SettleMoves

\* A client at work that stays at work, with a statement the transaction is ready for.
LEMMA AtWorkMoves ==
    ASSUME IInv, AllShown, NEW o \in Owners, NEW p, NEW s, NEW f,
           pc[o] \in Working, p \in Working,
           pc' = [pc EXCEPT ![o] = p], stmt' = [stmt EXCEPT ![o] = s],
           failure' = [failure EXCEPT ![o] = f] \/ failure' = failure,
           UNCHANGED <<tx, locks, answer, revoked, paused, fenced>>,
           s \in Locking \cup {"commit", "discard"} => tx[o] = "open",
           s = "rollback" => tx[o] \in {"open", "failed", "rolledback"},
           s \notin {"begin", "compile"},
           s \in Phases \cup {"none", "rollback"}, tx[o] # "none"
    PROVE  Moves
<1>1. AdmissionTypes /\ ServerTypes /\ Local(o)
  BY TypeParts DEF IInv
<1>2. pc'[o] = p /\ stmt'[o] = s /\ tx'[o] = tx[o]
      /\ \A q \in Owners : q # o => pc'[q] = pc[q] /\ failure'[q] = failure[q] /\ stmt'[q] = stmt[q]
  BY <1>1 DEF AdmissionTypes, ServerTypes
<1>3. Shown(o)'
  <2>1. ~(o \in Previews /\ answer'[o] \in {"ok", "accepted"})
    <3>1. o \in Previews => answer[o] = "none"
      BY <1>1, OwnerAssumption DEF Local, Told, Working, Phases
    <3>2. QED  BY <3>1
  <2>2. p # "settled"
    BY DEF Working, Phases
  <2>3. QED  BY <1>2, <2>1, <2>2 DEF Shown
<1>4. o \in Requests => Onward(o)
  BY <1>2 DEF Onward, EffectOf
<1>5. QED  BY <1>2, <1>3, <1>4, OneMoves

LEMMA RollBackMoves ==
    ASSUME IInv, AllShown, NEW o \in Owners, NEW why \in {"refused", "lost"}, pc[o] \in Working,
           RollBack(o, why), UNCHANGED <<aborted, socket, worldVars>>,
           socket[o] = "up" => tx[o] \in {"open", "failed", "rolledback"}
    PROVE  Moves
<1>1. CASE socket[o] = "up"
  <2>1. /\ pc' = [pc EXCEPT ![o] = "rollback"] /\ stmt' = [stmt EXCEPT ![o] = "rollback"]
        /\ failure' = [failure EXCEPT ![o] = why]
        /\ UNCHANGED <<tx, locks, answer, revoked, paused, fenced>>
    BY <1>1 DEF RollBack, answerVars, worldVars
  <2>2. "rollback" \in Working /\ "rollback" \notin Locking \cup {"commit", "discard"}
    BY DEF Working, Locking
  <2>3. QED  BY <1>1, <2>1, <2>2, AtWorkMoves
<1>2. CASE socket[o] # "up"
  <2>1. End(o, "lost")
    BY <1>2 DEF RollBack
  <2>2. QED  BY <2>1, EndMoves DEF Failures
<1>3. QED  BY <1>1, <1>2

LEMMA SendMoves ==
    ASSUME IInv, AllShown, NEW o \in Owners, NEW s \in Phases \ {"begin"}, pc[o] \in Working,
           Send(o, s), UNCHANGED <<aborted, socket, worldVars>>, tx[o] = "open"
    PROVE  Moves
<1> DEFINE t == IF s = "compile" THEN "none" ELSE s
<1>1. /\ pc' = [pc EXCEPT ![o] = s] /\ stmt' = [stmt EXCEPT ![o] = t]
      /\ UNCHANGED <<failure, tx, locks, answer, revoked, paused, fenced>>
  BY DEF Send, answerVars, worldVars
<1>2. s \in Working /\ t \notin {"begin", "compile", "rollback"} /\ t \in Phases \cup {"none", "rollback"}
  BY DEF Working, Phases
<1> HIDE DEF t
<1>3. QED  BY <1>1, <1>2, AtWorkMoves

LEMMA ClientMoves ==
    ASSUME IInv, AllShown, NEW o \in Owners,
           PhaseReturns(o) \/ CompileReturns(o) \/ CommitReturns(o) \/ DiscardReturns(o) \/ RollbackReturns(o)
    PROVE  Moves
<1>1. Local(o) /\ pc[o] \in Working /\ UNCHANGED <<aborted, socket, worldVars>>
  BY DEF IInv, PhaseReturns, CompileReturns, CommitReturns, DiscardReturns, RollbackReturns, Between,
         Working, Phases
<1>2. socket[o] = "up" => Agrees(pc[o], stmt[o], reply[o], tx[o])
  BY <1>1 DEF Local, Place
<1>3. CASE PhaseReturns(o)
  <2>1. pc[o] \in {"begin"} \cup Locking
    BY <1>3 DEF PhaseReturns, Between, Phases, Locking
  <2>2. CASE Returned(o, "ok") /\ Send(o, NextPhase(o, pc[o]))
    <3>1. tx[o] = "open"
      BY <1>2, <2>1, <2>2 DEF Returned, Agrees, Locking
    <3>2. NextPhase(o, pc[o]) \in Phases \ {"begin"}
      BY <2>1 DEF NextPhase, Ending, Phases, Locking
    <3>3. QED  BY <1>1, <2>2, <3>1, <3>2, SendMoves
  <2>3. CASE Returned(o, "error") /\ RollBack(o, "refused")
    <3>1. tx[o] = "failed"
      BY <1>2, <2>1, <2>3 DEF Returned, Agrees, Locking
    <3>2. QED  BY <1>1, <2>3, <3>1, RollBackMoves
  <2>4. CASE Rejected(o) /\ RollBack(o, "lost")
    BY <1>1, <2>4, RollBackMoves DEF Rejected
  <2>5. QED  BY <1>3, <2>2, <2>3, <2>4 DEF PhaseReturns
<1>4. CASE CompileReturns(o)
  <2>1. pc[o] = "compile" /\ (socket[o] = "up" => tx[o] = "open")
    BY <1>2, <1>4 DEF CompileReturns, Agrees, Locking
  <2>2. CASE socket[o] = "up" /\ Send(o, "work")
    BY <1>1, <2>1, <2>2, SendMoves DEF Phases
  <2>3. CASE RollBack(o, "refused")
    BY <1>1, <2>1, <2>3, RollBackMoves
  <2>4. QED  BY <1>4, <2>2, <2>3 DEF CompileReturns
<1>5. CASE CommitReturns(o)
  <2>1. pc[o] = "commit" /\ o \notin Previews
    BY <1>1, <1>5 DEF CommitReturns, Local, Fate
  <2>2. CASE Returned(o, "error") /\ RollBack(o, "refused")
    <3>1. tx[o] = "rolledback"
      BY <1>2, <2>1, <2>2 DEF Returned, Agrees, Locking
    <3>2. QED  BY <1>1, <2>2, <3>1, RollBackMoves
  <2>3. CASE Rejected(o) /\ RollBack(o, "lost")
    BY <1>1, <2>3, RollBackMoves DEF Rejected
  <2>4. CASE End(o, "none") \/ End(o, "outcome")
    BY <1>1, <2>1, <2>4, EndMoves DEF Failures
  <2>5. QED  BY <1>5, <2>2, <2>3, <2>4 DEF CommitReturns
<1>6. CASE DiscardReturns(o)
  <2>1. CASE Returned(o, "ok") /\ End(o, "none")
    <3>1. tx[o] = "rolledback"
      BY <1>2, <1>6, <2>1 DEF DiscardReturns, Returned, Agrees, Locking
    <3>2. QED  BY <1>1, <2>1, <3>1, EndMoves DEF Failures
  <2>2. CASE Rejected(o) /\ RollBack(o, "lost")
    BY <1>1, <2>2, RollBackMoves DEF Rejected
  <2>3. QED  BY <1>6, <2>1, <2>2 DEF DiscardReturns
<1>7. CASE RollbackReturns(o)
  <2>1. failure[o] \in Failures /\ failure[o] # "none"
    BY <1>1, <1>7 DEF RollbackReturns, Local, Fate, Failures
  <2>2. CASE End(o, failure[o])
    BY <1>1, <2>1, <2>2, EndMoves
  <2>3. CASE End(o, "lost")
    BY <1>1, <2>3, EndMoves DEF Failures
  <2>4. QED  BY <1>7, <2>2, <2>3 DEF RollbackReturns
<1>8. QED  BY <1>3, <1>4, <1>5, <1>6, <1>7
-----------------------------------------------------------------------------
\* The other steps of an operation

LEMMA RefuseMoves ==
    ASSUME IInv, AllShown, NEW r \in Requests, NEW why \in Failures \ {"none"}, Refuse(r, why),
           pc[r] \in {"idle", "queued"}, UNCHANGED <<stmt, tx, locks, revoked, paused, fenced>>
    PROVE  Moves
<1>1. /\ pc' = [pc EXCEPT ![r] = "settled"] /\ failure' = [failure EXCEPT ![r] = why]
      /\ answer' = answer
  BY DEF Refuse
<1>2. AdmissionTypes
  BY TypeParts DEF IInv
<1>3. ASSUME NEW p \in Owners PROVE Calm(p)
  BY <1>1, <1>2, <1>3 DEF Calm, Done, AllShown, Shown, AdmissionTypes, Owners
<1>4. QED  BY <1>1, <1>3, CalmMoves

LEMMA QueuedLeaves ==
    ASSUME IInv, NEW r \in Requests, NEW q, Leaves(r, queue, q)
    PROVE  pc[r] = "queued"
<1>1. queue \in Seq(Requests) /\ Line(queue, pc, "queued")
  BY DEF IInv, TypeOK, Lines
<1>2. PICK i \in 1..Len(queue) : queue[i] = r
  BY DEF Leaves
<1>3. QED  BY <1>1, <1>2 DEF Line

LEMMA AdmissionMoves ==
    ASSUME IInv, AllShown, NEW r \in Requests, Admit(r) \/ QueueTimeout(r)
    PROVE  Moves
<1>1. UNCHANGED <<stmt, tx, locks, revoked, paused, fenced>>
  BY DEF Admit, QueueTimeout, serverVars, worldVars
<1>2. CASE QueueTimeout(r)
  BY <1>1, <1>2, QueuedLeaves, RefuseMoves DEF QueueTimeout, Failures
<1>3. CASE Admit(r)
  <2>1. pc[r] = "idle"
    BY <1>3 DEF Admit
  <2>2. CASE Refuse(r, "aborted") \/ Refuse(r, "closing") \/ Refuse(r, "busy")
    BY <1>1, <2>1, <2>2, RefuseMoves DEF Failures
  <2>3. CASE pc' \in {[pc EXCEPT ![r] = "admitted"], [pc EXCEPT ![r] = "queued"]}
             /\ UNCHANGED <<failure, answer>>
    <3>1. AdmissionTypes
      BY TypeParts DEF IInv
    <3>2. PICK w \in {"admitted", "queued"} : pc' = [pc EXCEPT ![r] = w]
      BY <2>3
    <3>3. ASSUME NEW p \in Owners PROVE Calm(p)
      BY <2>1, <2>3, <3>1, <3>2 DEF Calm, Done, AllShown, Shown, AdmissionTypes, Owners
    <3>4. QED  BY <1>1, <2>3, <3>3, CalmMoves
  <2>4. QED  BY <1>3, <2>2, <2>3 DEF Admit, answerVars
<1>4. QED  BY <1>2, <1>3

LEMMA StartMoves ==
    ASSUME IInv, AllShown, NEW o \in Owners, Start(o)
    PROVE  Moves
<1>1. pc[o] = "admitted" /\ UNCHANGED <<stmt, tx, locks, revoked, paused, fenced>> /\ AdmissionTypes
  BY TypeParts DEF Start, serverVars, worldVars, IInv
<1>2. CASE Settle(o, IF IsAborted(o) THEN "aborted" ELSE "closing")
  <2> DEFINE why == IF IsAborted(o) THEN "aborted" ELSE "closing"
  <2>1. why \in Failures /\ why # "none" /\ Settle(o, why)
    BY <1>2 DEF Failures
  <2> HIDE DEF why
  <2>2. QED  BY <1>1, <2>1, SettleMoves DEF Busy
<1>3. CASE pc' = [pc EXCEPT ![o] = "connecting"] /\ UNCHANGED <<failure, answer>>
  <2>1. ASSUME NEW p \in Owners PROVE Calm(p)
    BY <1>1, <1>3 DEF Calm, Done, AllShown, Shown, AdmissionTypes
  <2>2. QED  BY <1>1, <1>3, <2>1, CalmMoves
<1>4. QED  BY <1>2, <1>3 DEF Start, answerVars

LEMMA ConnectFailsMoves ==
    ASSUME IInv, AllShown, NEW o \in Owners, ConnectFails(o)
    PROVE  Moves
<1>1. UNCHANGED <<stmt, tx, locks, revoked, paused, fenced>> /\ Local(o)
  BY DEF ConnectFails, serverVars, worldVars, IInv
<1>2. CASE o \in late
  <2>1. UNCHANGED <<pc, failure, answer>>
    BY <1>2 DEF ConnectFails, answerVars
  <2>2. ASSUME NEW p \in Owners PROVE Calm(p)
    BY <2>1 DEF Calm, AllShown, Shown
  <2>3. QED  BY <1>1, <2>1, <2>2, CalmMoves
<1>3. CASE o \notin late
  <2>1. Settle(o, "lost") /\ pc[o] = "connecting"
    BY <1>1, <1>3 DEF ConnectFails, Local, Place
  <2>2. QED  BY <1>1, <2>1, SettleMoves DEF Busy, Failures
<1>4. QED  BY <1>2, <1>3

LEMMA ConnectedMoves ==
    ASSUME IInv, AllShown, NEW o \in Owners, Connected(o)
    PROVE  Moves
<1>1. UNCHANGED <<tx, locks, failure, answer, revoked, paused, fenced>> /\ Local(o) /\ AdmissionTypes /\ ServerTypes
  BY TypeParts DEF Connected, answerVars, worldVars, IInv
<1>2. CASE o \in late
  <2>1. UNCHANGED <<pc, stmt>>
    BY <1>2 DEF Connected
  <2>2. ASSUME NEW p \in Owners PROVE Calm(p)
    BY <1>1, <2>1 DEF Calm, AllShown, Shown
  <2>3. QED  BY <1>1, <2>1, <2>2, CalmMoves
<1>3. CASE o \notin late
  <2>1. pc[o] = "connecting" /\ stmt[o] = "none" /\ tx[o] = "none"
    BY <1>1, <1>3 DEF Connected, Local, Place, Fresh
  <2>2. pc' = [pc EXCEPT ![o] = "begin"] /\ stmt' = [stmt EXCEPT ![o] = "begin"]
    BY <1>3 DEF Connected
  <2>3. pc'[o] = "begin" /\ stmt'[o] = "begin" /\ tx'[o] = "none"
        /\ \A p \in Owners : p # o => pc'[p] = pc[p] /\ failure'[p] = failure[p]
                                      /\ stmt'[p] = stmt[p] /\ tx'[p] = tx[p]
    BY <1>1, <2>1, <2>2 DEF AdmissionTypes, ServerTypes
  <2>4. o \in Requests => answer[o] = "none"
    BY <1>1, <2>1 DEF Local, Told
  <2>5. Shown(o)'
    BY <1>1, <2>3, <2>4, OwnerAssumption DEF Shown, Locking
  <2>6. o \in Requests => Onward(o)
    BY <1>1, <2>1, <2>3 DEF Onward, EffectOf, Done
  <2>7. QED  BY <1>1, <2>3, <2>5, <2>6, OneMoves
<1>4. QED  BY <1>2, <1>3

LEMMA CheckMoves ==
    ASSUME IInv, AllShown, NEW h \in Checks, Probe(h) \/ SolverReady(h)
    PROVE  Moves
<1>1. h \in Owners /\ h \notin Requests /\ h \notin Previews
  BY OwnerAssumption DEF Owners
<1>2. UNCHANGED <<failure, answer, revoked, paused, fenced>> /\ AdmissionTypes /\ ServerTypes
  BY TypeParts DEF Probe, SolverReady, answerVars, worldVars, IInv
<1>3. /\ locks' = locks
      /\ \A p \in Owners : p # h => pc'[p] = pc[p] /\ stmt'[p] = stmt[p] /\ tx'[p] = tx[p]
      /\ (stmt'[h] = stmt[h] /\ tx'[h] = tx[h]) \/ (stmt'[h] = "none" /\ tx'[h] = "none")
  BY <1>1, <1>2 DEF Probe, SolverReady, serverVars, AdmissionTypes, ServerTypes
<1>4. Shown(h)'
  BY <1>1, <1>3 DEF AllShown, Shown, Locking
<1>5. QED  BY <1>1, <1>2, <1>3, <1>4, OneMoves

LEMMA AbortMoves ==
    ASSUME IInv, AllShown, NEW r \in Requests, NEW signal \in {"lease", "request"}, Abort(r, signal)
    PROVE  Moves
<1>1. UNCHANGED <<stmt, tx, locks, revoked, paused, fenced>>
  BY DEF Abort, serverVars, worldVars
<1>2. CASE pc[r] = "queued" /\ Refuse(r, IF signal = "lease" THEN "refused" ELSE "expired")
  <2>1. PICK why \in {"refused", "expired"} : Refuse(r, why)
    BY <1>2
  <2>2. QED  BY <1>1, <1>2, <2>1, RefuseMoves DEF Failures
<1>3. CASE pc[r] = "connecting" /\ Settle(r, "aborted")
  BY <1>1, <1>3, SettleMoves DEF Failures, Busy, Owners
<1>4. CASE UNCHANGED <<pc, failure, answer>>
  <2>1. ASSUME NEW p \in Owners PROVE Calm(p)
    BY <1>4 DEF Calm, AllShown, Shown
  <2>2. QED  BY <1>1, <1>4, <2>1, CalmMoves
<1>5. QED  BY <1>2, <1>3, <1>4 DEF Abort, answerVars
-----------------------------------------------------------------------------
\* The server, the answer, and the rest of the world

\* A step of the server on o ends or goes on with an open transaction.
LEMMA ServerMoves ==
    ASSUME IInv, AllShown, NEW o \in Owners, Serve(o) \/ ServerDrops(o)
    PROVE  Moves
<1>1. Local(o) /\ Shown(o) /\ ServerTypes
      /\ UNCHANGED <<pc, failure, answer, revoked, paused, fenced>>
  BY TypeParts DEF IInv, AllShown, Serve, ServerDrops, answerVars, worldVars
<1>2. PICK x \in {"open", "failed", "committed", "rolledback"}, l \in SUBSET {"fence", "actor"} :
          tx' = [tx EXCEPT ![o] = x] /\ stmt' = [stmt EXCEPT ![o] = "none"] /\ locks' = [locks EXCEPT ![o] = l]
  <2>1. locks[o] \in SUBSET {"fence", "actor"}
    BY <1>1 DEF ServerTypes
  <2>2. {} \in SUBSET {"fence", "actor"} /\ locks[o] \cup Locks(o, stmt[o]) \in SUBSET {"fence", "actor"}
    BY <2>1 DEF Locks
  <2>3. locks' = [locks EXCEPT ![o] = {}] \/ locks' = [locks EXCEPT ![o] = locks[o] \cup Locks(o, stmt[o])]
    BY DEF Serve, ServerDrops, ServerFails, ServerEnds, ServerRuns
  <2>4. PICK l \in SUBSET {"fence", "actor"} : locks' = [locks EXCEPT ![o] = l]
    BY <2>2, <2>3
  <2>5. \E x \in {"open", "failed", "committed", "rolledback"} :
            tx' = [tx EXCEPT ![o] = x] /\ stmt' = [stmt EXCEPT ![o] = "none"]
    BY DEF Serve, ServerDrops, ServerFails, ServerEnds, ServerRuns
  <2>6. QED  BY <2>4, <2>5
<1>3. /\ stmt'[o] = "none" /\ tx'[o] = x /\ locks'[o] = l
      /\ \A p \in Owners : p # o => stmt'[p] = stmt[p] /\ tx'[p] = tx[p] /\ locks'[p] = locks[p]
  BY <1>1, <1>2 DEF ServerTypes
<1>4. stmt[o] # "none" \/ tx[o] \in {"open", "failed"}
  BY DEF Serve, ServerDrops
<1>5. /\ pc[o] = "settled" /\ failure[o] = "none" => stmt[o] = "none"
      /\ o \in Previews /\ pc[o] = "settled" /\ failure[o] = "none" => tx[o] = "rolledback"
      /\ o \in Previews /\ answer[o] \in {"ok", "accepted"} => stmt[o] = "none" /\ tx[o] = "rolledback"
  BY <1>1, OwnerAssumption DEF Local, Fate, Told, Shown
<1>6. Shown(o)'
  BY <1>1, <1>3, <1>4, <1>5 DEF Shown, Locking
<1>7. tx[o] # "committed" /\ (tx[o] = "none" => stmt[o] # "none")
  <2>1. CASE ServerDrops(o)
    BY <2>1 DEF ServerDrops
  <2>2. CASE Serve(o)
    <3>1. stmt[o] \in Phases \cup {"rollback"} /\ stmt[o] # "none"
      BY <1>1, <2>2 DEF Serve, ServerTypes
    <3>2. QED  BY <1>1, <3>1 DEF Shown, Locking, Phases
  <2>3. QED  BY <2>1, <2>2
<1>8. CASE o \in Checks \/ x \in {"failed", "rolledback"}
  <2>1. o \in Requests => Onward(o)
    BY <1>1, <1>3, <1>7, <1>8, OwnerAssumption DEF Onward, EffectOf
  <2>2. QED  BY <1>1, <1>3, <1>6, <2>1, OneMoves
<1>9. ASSUME o \in Requests, Effect[o] # EffectOf(pc'[o], stmt'[o], tx'[o], locks'[o])
      PROVE  /\ AllShown'
             /\ Effect' = [Effect EXCEPT ![o] = EffectOf(pc'[o], stmt'[o], tx'[o], locks'[o])]
  <2>1. AllShown'
    BY <1>1, <1>3, <1>6 DEF AllShown, Shown
  <2> DEFINE e == EffectOf(pc'[o], stmt'[o], tx'[o], locks'[o])
  <2>2. \A r \in Requests : r # o => EffectOf(pc'[r], stmt'[r], tx'[r], locks'[r])
                                        = EffectOf(pc[r], stmt[r], tx[r], locks[r])
    BY <1>1, <1>3 DEF Owners
  <2>3. \A r \in Requests : EffectOf(pc'[r], stmt'[r], tx'[r], locks'[r])
                              = IF r = o THEN e ELSE EffectOf(pc[r], stmt[r], tx[r], locks[r])
    BY <2>2
  <2> HIDE DEF e
  <2>4. Effect' = [Effect EXCEPT ![o] = e]
    BY <1>9, <2>3, EffectIs
  <2>5. QED  BY <2>1, <2>4 DEF e
<1>10. CASE o \in Requests /\ x = "committed"
  <2>1. stmt[o] = "commit" /\ tx[o] = "open"
    BY <1>1, <1>3, <1>10 DEF Serve, ServerDrops, ServerFails, ServerEnds, ServerRuns, ServerTypes
  <2>2. o \notin Previews \cup revoked /\ ~fenced /\ "fence" \in locks[o]
    BY <1>1, <1>10, <2>1 DEF Local, Fate, Locked
  <2>3. Effect[o] = "entered"
    BY <1>10, <2>1, <2>2, EffectIs DEF EffectOf
  <2>4. AllShown' /\ Effect' = [Effect EXCEPT ![o] = "done"]
    <3>1. EffectOf(pc'[o], stmt'[o], tx'[o], locks'[o]) = "done"
      BY <1>3, <1>10 DEF EffectOf
    <3>2. QED  BY <1>9, <1>10, <2>3, <3>1
  <2>5. Operations!Commit(o)
    BY <1>1, <2>2, <2>3, <2>4 DEF Operations!Commit, Operations!authority
  <2>6. OperationsStep
    BY <1>10, <2>5 DEF OperationsStep, Operations!Next
  <2>7. QED  BY <2>4, <2>6 DEF Moves
<1>11. CASE o \in Requests /\ x = "open"
  <2>1. Serve(o) /\ ServerRuns(o, stmt[o])
    BY <1>1, <1>3, <1>11 DEF Serve, ServerDrops, ServerFails, ServerEnds, ServerRuns, ServerTypes
  <2>2. stmt[o] \in {"begin"} \cup Locking /\ l = locks[o] \cup Locks(o, stmt[o])
    BY <1>1, <1>3, <2>1 DEF Serve, ServerRuns, ServerTypes, Shown, Phases, Locking
  <2>3. tx[o] \in {"none", "open"} /\ stmt[o] # "none"
    BY <1>1, <2>1, <2>2 DEF Shown, Serve
  <2>4. CASE stmt[o] = "fence" /\ "fence" \notin locks[o]
    <3>1. ~paused
      BY <2>1, <2>4 DEF ServerRuns, Refused
    <3>2. Effect[o] = "open"
      BY <1>11, <2>3, <2>4, EffectIs DEF EffectOf
    <3>3. "fence" \in l
      BY <2>2, <2>4 DEF Locks
    <3>4. EffectOf(pc'[o], stmt'[o], tx'[o], locks'[o]) = "entered"
      BY <1>3, <1>11, <3>3 DEF EffectOf
    <3>5. AllShown' /\ Effect' = [Effect EXCEPT ![o] = "entered"]
      BY <1>9, <1>11, <3>2, <3>4
    <3>6. Operations!Enter(o)
      BY <1>1, <3>1, <3>2, <3>5 DEF Operations!Enter, Operations!authority
    <3>7. OperationsStep
      BY <1>11, <3>6 DEF OperationsStep, Operations!Next
    <3>8. QED  BY <3>5, <3>7 DEF Moves
  <2>5. CASE ~(stmt[o] = "fence" /\ "fence" \notin locks[o])
    <3>1. "fence" \in l <=> "fence" \in locks[o]
      BY <2>2, <2>5 DEF Locks
    <3>2. Onward(o)
      BY <1>3, <1>11, <2>3, <3>1 DEF Onward, EffectOf
    <3>3. QED  BY <1>1, <1>3, <1>6, <3>2, OneMoves
  <2>6. QED  BY <2>4, <2>5
<1>12. QED  BY <1>2, <1>8, <1>10, <1>11 DEF Owners

\* Revocations, the pause, a lost connection and an answer leave every effect.
LEMMA SameEffect ==
    ASSUME UNCHANGED <<stmt, tx, locks>>, \A r \in Requests : pc[r] \in Done <=> pc'[r] \in Done
    PROVE  Effect' = Effect
<1>1. \A r \in Requests : EffectOf(pc'[r], stmt'[r], tx'[r], locks'[r]) = EffectOf(pc[r], stmt[r], tx[r], locks[r])
  BY DEF EffectOf
<1>2. QED  BY <1>1, EffectIs

\* What a manager is told is what has come of the transaction.
LEMMA AnswerMoves ==
    ASSUME IInv, AllShown, NEW r \in Requests, LeaseSettles(r) \/ AbortSettling(r)
    PROVE  Moves
<1>1. pc[r] = "settled" /\ Local(r) /\ Shown(r) /\ AdmissionTypes
  BY TypeParts DEF LeaseSettles, AbortSettling, IInv, AllShown, Owners
<1>2. PICK c \in BOOLEAN : Answer(r, c)
  <2>1. Answer(r, aborted[r] # "request") \/ Answer(r, FALSE)
    BY DEF LeaseSettles, AbortSettling
  <2>2. (aborted[r] # "request") \in BOOLEAN /\ FALSE \in BOOLEAN
    OBVIOUS
  <2>3. QED  BY <2>1, <2>2
<1> DEFINE what == Outcome(r, c)
<1>3. /\ what \in {"ok", "accepted", "rejected", "unknown"}
      /\ what \in {"ok", "accepted"} => failure[r] = "none"
      /\ what = "rejected" => failure[r] = "refused"
  BY DEF Outcome
<1>4. /\ pc' = [pc EXCEPT ![r] = "answered"] /\ answer' = [answer EXCEPT ![r] = what]
      /\ failure' = [failure EXCEPT ![r] = "none"]
      /\ UNCHANGED <<stmt, tx, locks, revoked, paused, fenced>>
  BY <1>2 DEF Answer, serverVars, worldVars
<1> HIDE DEF what
<1>5. /\ pc'[r] = "answered" /\ answer'[r] = what
      /\ \A p \in Owners : p # r => pc'[p] = pc[p] /\ failure'[p] = failure[p]
      /\ \A p \in Requests : p # r => answer'[p] = answer[p]
  BY <1>1, <1>4 DEF AdmissionTypes, Owners
<1>6. /\ what \in {"ok", "accepted"} =>
             stmt[r] = "none" /\ tx[r] = IF r \in Previews THEN "rolledback" ELSE "committed"
      /\ what = "rejected" => stmt[r] = "none" /\ tx[r] \in {"none", "rolledback"}
  BY <1>1, <1>3 DEF Local, Fate, Shown
<1>7. Effect' = Effect
  BY <1>1, <1>4, <1>5, SameEffect DEF Done, Owners
<1>8. answer[r] = "none"
  BY <1>1 DEF Local, Told
<1>9. /\ what \in {"ok", "accepted"} => Effect[r] = IF r \in Previews THEN "never" ELSE "done"
      /\ what = "rejected" => Effect[r] = "never"
  BY <1>1, <1>6, EffectIs DEF EffectOf, Done
<1>10. Operations!Tell(r, what)
  BY <1>4, <1>7, <1>8, <1>9 DEF Operations!Tell, Operations!authority
<1>11. OperationsStep
  BY <1>3, <1>10 DEF OperationsStep, Operations!Next
<1>12. ASSUME NEW p \in Owners PROVE Shown(p)'
  <2>1. CASE p = r
    BY <1>1, <1>4, <1>5, <1>6, <2>1 DEF Shown
  <2>2. CASE p # r
    <3>1. p \in Previews => answer'[p] = answer[p]
      BY <1>5, <2>2, OwnerAssumption
    <3>2. QED  BY <1>4, <1>5, <2>2, <3>1 DEF AllShown, Shown
  <2>3. QED  BY <2>1, <2>2
<1>13. QED  BY <1>11, <1>12 DEF Moves, AllShown

LEMMA WorldMoves ==
    ASSUME IInv, AllShown, Pause \/ FenceExclusive \/ \E r \in Requests : Revoke(r)
    PROVE  Moves
<1>1. UNCHANGED <<pc, failure, stmt, tx, locks, answer>>
  BY DEF Pause, FenceExclusive, Revoke, serverVars, answerVars
<1>2. Effect' = Effect
  BY <1>1, SameEffect
<1>3. AllShown'
  BY <1>1 DEF AllShown, Shown
<1>4. CASE Pause
  BY <1>1, <1>2, <1>3, <1>4 DEF Pause, Moves, OperationsStep, Operations!Next, Operations!Pause
<1>5. CASE FenceExclusive
  <2>1. \A r \in Requests : Effect[r] # "entered"
    BY <1>5, EffectIs DEF FenceExclusive, EffectOf
  <2>2. Operations!Fence
    BY <1>1, <1>2, <1>5, <2>1 DEF FenceExclusive, Operations!Fence
  <2>3. QED  BY <1>3, <2>2 DEF Moves, OperationsStep, Operations!Next
<1>6. CASE \E r \in Requests : Revoke(r)
  <2>1. PICK r \in Requests : Revoke(r)
    BY <1>6
  <2>2. Operations!Revoke(r)
    BY <1>1, <1>2, <2>1 DEF Revoke, Operations!Revoke
  <2>3. QED  BY <1>3, <2>2 DEF Moves, OperationsStep, Operations!Next
<1>7. QED  BY <1>4, <1>5, <1>6

LEMMA CloseMoves ==
    ASSUME IInv, AllShown, Close
    PROVE  Moves
<1> DEFINE Queued == {r \in Requests : pc[r] = "queued"}
<1>1. /\ pc' = [o \in Owners |-> IF o \in Queued THEN "settled" ELSE pc[o]]
      /\ failure' = [o \in Owners |-> IF o \in Queued THEN "closing" ELSE failure[o]]
      /\ UNCHANGED <<stmt, tx, locks, answer, revoked, paused, fenced>>
  BY DEF Close, serverVars, worldVars
<1>2. ASSUME NEW p \in Owners PROVE Calm(p)
  <2>1. Shown(p)
    BY DEF AllShown
  <2>2. QED  BY <1>1, <2>1 DEF Calm, Done, Shown
<1> HIDE DEF Queued
<1>3. QED  BY <1>1, <1>2, CalmMoves

\* Steps that are no step of an operation.
LEMMA IdleMoves ==
    ASSUME IInv, AllShown,
           \/ \E o \in Owners : LoseConnection(o)
           \/ PoolGrant \/ CompilerDown \/ PoolEnds \/ UNCHANGED vars
    PROVE  Moves
<1>1. UNCHANGED <<pc, failure, stmt, tx, locks, answer, revoked, paused, fenced>>
  BY DEF LoseConnection, PoolGrant, CompilerDown, PoolEnds, vars, serverVars, answerVars, worldVars
<1>2. ASSUME NEW p \in Owners PROVE Calm(p)
  BY <1>1 DEF Calm, AllShown, Shown
<1>3. QED  BY <1>1, <1>2, CalmMoves

LEMMA NextMoves == IInv /\ AllShown /\ [Next]_vars => Moves
<1> SUFFICES ASSUME IInv, AllShown, [Next]_vars PROVE Moves  OBVIOUS
<1>1. ASSUME NEW r \in Requests,
             \/ Admit(r) \/ QueueTimeout(r) \/ LeaseSettles(r) \/ AbortSettling(r) \/ Revoke(r)
             \/ \E signal \in {"lease", "request"} : Abort(r, signal)
      PROVE  Moves
  BY <1>1, AdmissionMoves, AnswerMoves, WorldMoves, AbortMoves
<1>2. ASSUME NEW o \in Owners, Operate(o) PROVE Moves
  BY <1>2, StartMoves, ConnectedMoves, ConnectFailsMoves, ClientMoves DEF Operate
<1>3. ASSUME NEW o \in Owners, Serve(o) \/ ServerDrops(o) \/ LoseConnection(o) PROVE Moves
  BY <1>3, ServerMoves, IdleMoves
<1>4. ASSUME NEW h \in Checks, Probe(h) \/ SolverReady(h) PROVE Moves
  BY <1>4, CheckMoves
<1>5. CASE PoolGrant \/ Pause \/ FenceExclusive \/ Close \/ CompilerDown \/ PoolEnds \/ UNCHANGED vars
  BY <1>5, IdleMoves, WorldMoves, CloseMoves
<1>6. QED  BY <1>1, <1>2, <1>3, <1>4, <1>5 DEF Next

LEMMA InitShown == Init => AllShown /\ Operations!Init
<1> SUFFICES ASSUME Init PROVE AllShown /\ Operations!Init  OBVIOUS
<1>1. AllShown
  BY OwnerAssumption DEF Init, AllShown, Shown, Locking, Owners
<1>2. Effect = [r \in Requests |-> "open"]
  <2>1. \A r \in Requests : EffectOf(pc[r], stmt[r], tx[r], locks[r]) = "open"
    BY DEF Init, EffectOf, Done, Owners
  <2>2. QED  BY <2>1, EffectIs
<1>3. QED  BY <1>1, <1>2 DEF Init, Operations!Init

\* Whatever becomes of connections, signals, leases and the queue, the control
\* plane implements ManagerOperations.
THEOREM PlaneImplementsOperations == Spec => ImplementsOperations
<1>1. Init => AllShown /\ Operations!Init
  BY InitShown
<1>2. IInv /\ AllShown /\ [Next]_vars => AllShown' /\ [Operations!Next]_(Operations!vars)
  BY NextMoves DEF Moves, OperationsStep
<1>3. QED  BY <1>1, <1>2, Invariance, PTL DEF Spec, ImplementsOperations, Operations!Spec

-----------------------------------------------------------------------------
\* Nobody waits for what cannot come

\* Who is queued has a place in the queue, which is behind executions that occupy
\* every slot and will drain it as they settle, and is never left over by close()
\* (admitTransaction(), beginAdmittedTransaction()).
QueueAttended ==
    /\ \A r \in Requests : pc[r] = "queued" => \E i \in 1..Len(queue) : queue[i] = r
    /\ queue # <<>> => Cardinality(active) = Concurrency /\ ~closing

\* Who awaits a connect is in the pool's line or is being connected.
PoolAttended ==
    \A o \in Owners :
        /\ pc[o] = "connecting" => pool[o] \in {"waiting", "opening"} /\ o \notin late
        /\ pool[o] = "waiting" => \E i \in 1..Len(poolQueue) : poolQueue[i] = o

Attended == QueueAttended /\ PoolAttended

\* Those in line stay in line while one leaves it or another joins it.
LEMMA StaysBehindHead ==
    ASSUME NEW S, NEW q \in Seq(S), q # <<>>, NEW x, x # Head(q),
           \E i \in 1..Len(q) : q[i] = x
    PROVE  \E i \in 1..Len(Tail(q)) : Tail(q)[i] = x
<1>1. PICK i \in 1..Len(q) : q[i] = x
  OBVIOUS
<1>2. /\ Len(q) \in Nat /\ i # 1 /\ i \in Int /\ 1 <= i /\ i <= Len(q)
  BY <1>1
<1>3. Len(Tail(q)) = Len(q) - 1 /\ \A j \in 1..Len(Tail(q)) : Tail(q)[j] = q[j + 1]
  BY HeadTailProperties
<1>4. i - 1 \in 1..Len(Tail(q)) /\ (i - 1) + 1 = i
  BY <1>2, <1>3
<1>5. Tail(q)[i - 1] = x
  BY <1>1, <1>3, <1>4
<1>6. QED  BY <1>4, <1>5

LEMMA StaysBeforeLast ==
    ASSUME NEW S, NEW q \in Seq(S), NEW y \in S, NEW x,
           x = y \/ \E i \in 1..Len(q) : q[i] = x
    PROVE  \E i \in 1..Len(Append(q, y)) : Append(q, y)[i] = x
<1>1. /\ Len(q) \in Nat /\ Len(Append(q, y)) = Len(q) + 1 /\ Append(q, y)[Len(q) + 1] = y
      /\ \A i \in 1..Len(q) : Append(q, y)[i] = q[i]
  BY AppendProperties
<1>2. CASE x = y
  <2>1. Len(q) + 1 \in 1..Len(Append(q, y))
    BY <1>1
  <2>2. QED  BY <1>1, <1>2, <2>1
<1>3. CASE \E i \in 1..Len(q) : q[i] = x
  <2>1. PICK i \in 1..Len(q) : q[i] = x
    BY <1>3
  <2>2. i \in 1..Len(Append(q, y))
    BY <1>1
  <2>3. QED  BY <1>1, <2>1, <2>2
<1>4. QED  BY <1>2, <1>3

LEMMA StaysWhenLeft ==
    ASSUME NEW S, NEW q \in Seq(S), NEW x, NEW r, Leaves(x, q, r), NEW y, y # x,
           \E i \in 1..Len(q) : q[i] = y
    PROVE  \E i \in 1..Len(r) : r[i] = y
<1>1. PICK k \in 1..Len(q) : q[k] = x /\ r = SubSeq(q, 1, k - 1) \o SubSeq(q, k + 1, Len(q))
  BY DEF Leaves
<1> DEFINE before == SubSeq(q, 1, k - 1)
           after == SubSeq(q, k + 1, Len(q))
<1>2. k \in Int /\ 1 <= k /\ k <= Len(q) /\ Len(q) \in Nat
  BY <1>1
<1>3. /\ before \in Seq(S) /\ Len(before) = k - 1 /\ \A i \in 1..(k - 1) : before[i] = q[i]
      /\ after \in Seq(S) /\ Len(after) = Len(q) - k /\ \A i \in 1..(Len(q) - k) : after[i] = q[k + i]
  BY <1>2
<1>4. r = before \o after
  BY <1>1
<1> HIDE DEF before, after
<1>5. /\ Len(r) = Len(before) + Len(after)
      /\ \A i \in 1..Len(before) : r[i] = before[i]
      /\ \A i \in 1..Len(r) : i > Len(before) => r[i] = after[i - Len(before)]
  <2>1. /\ Len(r) = Len(before) + Len(after)
        /\ \A i \in 1..Len(r) : r[i] = IF i <= Len(before) THEN before[i] ELSE after[i - Len(before)]
    <3>1. /\ Len(r) = Len(before) + Len(after)
          /\ \A i \in 1..(Len(before) + Len(after)) :
                 r[i] = IF i <= Len(before) THEN before[i] ELSE after[i - Len(before)]
      BY <1>3, <1>4, ConcatProperties, Zenon
    <3>2. QED  BY <3>1
  <2>2. Len(before) \in Nat /\ Len(after) \in Nat
    BY <1>3
  <2>3. 1..Len(before) \subseteq 1..Len(r)
    BY <2>1, <2>2
  <2>4. QED  BY <2>1, <2>2, <2>3
<1>6. PICK i \in 1..Len(q) : q[i] = y
  OBVIOUS
<1>7. i \in Int /\ 1 <= i /\ i <= Len(q) /\ i # k
  BY <1>1, <1>2, <1>6
<1>8. CASE i < k
  <2>1. i \in 1..(k - 1) /\ i \in 1..Len(before) /\ i \in 1..Len(r)
    BY <1>2, <1>3, <1>5, <1>7, <1>8
  <2>2. r[i] = y
    BY <1>3, <1>5, <1>6, <2>1
  <2>3. QED  BY <2>1, <2>2
<1>9. CASE i > k
  <2>1. /\ i - 1 \in 1..Len(r) /\ i - 1 > Len(before) /\ (i - 1) - Len(before) = i - k
        /\ i - k \in 1..(Len(q) - k) /\ k + (i - k) = i
    BY <1>2, <1>3, <1>5, <1>7, <1>9
  <2>2. r[i - 1] = after[i - k]
    BY <1>5, <2>1
  <2>3. after[i - k] = q[i]
    BY <1>3, <2>1
  <2>4. QED  BY <1>6, <2>1, <2>2, <2>3
<1>10. QED  BY <1>2, <1>7, <1>8, <1>9

\* Steps that leave a line alone: nobody new waits there.
LEMMA QueueStays ==
    ASSUME QueueAttended, UNCHANGED <<queue, active, closing>>,
           \A r \in Requests : pc'[r] = "queued" => pc[r] = "queued"
    PROVE  QueueAttended'
BY DEF QueueAttended

LEMMA PoolStays ==
    ASSUME PoolAttended, UNCHANGED poolQueue,
           \A o \in Owners :
               /\ pool'[o] = "waiting" => pool[o] = "waiting"
               /\ pc'[o] = "connecting" =>
                      pc[o] = "connecting" /\ pool'[o] = pool[o] /\ (o \in late' => o \in late)
    PROVE  PoolAttended'
BY DEF PoolAttended

\* A settlement hands the slot to the head of the queue, or nobody is queued.
LEMMA SettleAttends ==
    ASSUME IInv, QueueAttended, NEW o \in Owners, NEW why \in Failures, pc[o] \in Busy, Settle(o, why)
    PROVE  /\ QueueAttended'
           /\ \A p \in Owners : pc'[p] = "connecting" => p # o /\ pc[p] = "connecting"
<1>1. AdmissionTypes /\ Slots /\ Ends /\ Line(queue, pc, "queued")
  BY TypeParts DEF IInv, Lines
<1>2. Others(o) /\ pc'[o] = SettledPc(o, why)
  BY Settling
<1>3. pc'[o] \in {"settled", "solver", "idle"}
  BY <1>2 DEF SettledPc
<1>4. \A p \in Owners : pc'[p] = "connecting" => p # o /\ pc[p] = "connecting"
  BY <1>2, <1>3 DEF Others
<1>5. \A r \in Requests : pc'[r] = "queued" => r # o /\ pc[r] = "queued"
  BY <1>2, <1>3 DEF Others, Owners
<1>6. CASE o \in active /\ ~closing /\ queue # <<>>
  <2> DEFINE n == Head(queue)
  <2>1. /\ active' = (active \ {o}) \cup {n} /\ queue' = Tail(queue)
        /\ pc' = [pc EXCEPT ![o] = SettledPc(o, why), ![n] = "admitted"]
        /\ UNCHANGED <<closing, close, answer>>
    BY <1>6 DEF Settle
  <2>2. queue \in Seq(Requests) /\ n \in Requests /\ pc[n] = "queued"
    <3>1. queue \in Seq(Requests)
      BY <1>1 DEF AdmissionTypes
    <3>2. Head(queue) = queue[1] /\ 1 \in 1..Len(queue) /\ Head(queue) \in Requests
      BY <1>6, <3>1
    <3>3. pc[Head(queue)] = "queued"
      BY <1>1, <3>2 DEF Line
    <3>4. QED  BY <3>1, <3>2, <3>3
  <2> HIDE DEF n
  <2>3. n \notin active
    BY <1>1, <2>2 DEF Slots, Busy, Working, Phases
  <2>4. Cardinality(active') = Cardinality(active)
    <3>1. IsFiniteSet(active) /\ Cardinality(active) \in Nat
      BY <1>1, FS_CardinalityType DEF Slots
    <3>2. IsFiniteSet(active \ {o}) /\ Cardinality(active \ {o}) = Cardinality(active) - 1
      BY <1>6, <3>1, FS_RemoveElement
    <3>3. Cardinality(active') = Cardinality(active \ {o}) + 1
      BY <2>1, <2>3, <3>2, FS_AddElement
    <3>4. QED  BY <3>1, <3>2, <3>3
  <2>5. ASSUME NEW r \in Requests, pc'[r] = "queued"
        PROVE  \E i \in 1..Len(queue') : queue'[i] = r
    <3>1. r # n
      BY <1>1, <1>3, <2>1, <2>2, <2>5 DEF AdmissionTypes, Owners
    <3>2. \E i \in 1..Len(queue) : queue[i] = r
      BY <1>5, <2>5 DEF QueueAttended
    <3>3. \E i \in 1..Len(Tail(queue)) : Tail(queue)[i] = r
      BY <1>6, <2>2, <3>1, <3>2, StaysBehindHead DEF n
    <3>4. QED  BY <2>1, <3>3
  <2>6. QueueAttended'
    BY <1>6, <2>1, <2>4, <2>5 DEF QueueAttended
  <2>7. QED  BY <1>4, <2>6
<1>7. CASE ~(o \in active /\ ~closing /\ queue # <<>>)
  <2>1. active' = active \ {o} /\ UNCHANGED <<queue, closing>>
    BY <1>7 DEF Settle
  <2>2. queue # <<>> => active' = active
    BY <1>7, <2>1 DEF QueueAttended
  <2>3. QueueAttended'
    BY <1>5, <2>1, <2>2 DEF QueueAttended
  <2>4. QED  BY <1>4, <2>3
<1>8. QED  BY <1>6, <1>7

LEMMA EndAttends ==
    ASSUME IInv, Attended, NEW o \in Owners, NEW why \in Failures, pc[o] \in Working, End(o, why)
    PROVE  Attended'
<1>1. Settle(o, why) /\ Release(o) /\ pc[o] \in Busy /\ PoolTypes
  BY TypeParts DEF End, Busy, IInv
<1>2. /\ QueueAttended'
      /\ \A p \in Owners : pc'[p] = "connecting" => p # o /\ pc[p] = "connecting"
  BY <1>1, SettleAttends DEF Attended
<1>3. UNCHANGED <<poolQueue, late>> /\ pool' = [pool EXCEPT ![o] = "none"]
  BY <1>1 DEF Release
<1>4. PoolAttended'
  BY <1>1, <1>2, <1>3, PoolStays DEF Attended, PoolTypes
<1>5. QED  BY <1>2, <1>4 DEF Attended

\* A client at work that stays at work keeps both lines.
LEMMA WorkAttends ==
    ASSUME IInv, Attended, NEW o \in Owners, NEW p \in Working, pc' = [pc EXCEPT ![o] = p],
           UNCHANGED <<admissionVars, poolVars>>
    PROVE  Attended'
<1>1. AdmissionTypes /\ p \notin {"queued", "connecting"}
  BY TypeParts DEF IInv, Working, Phases
<1>2. \A q \in Owners : pc'[q] \in {"queued", "connecting"} => pc'[q] = pc[q]
  BY <1>1 DEF AdmissionTypes
<1>3. QueueAttended'
  BY <1>2, QueueStays DEF Attended, admissionVars, Owners
<1>4. PoolAttended'
  BY <1>2, PoolStays DEF Attended, poolVars
<1>5. QED  BY <1>3, <1>4 DEF Attended

LEMMA ClientAttends ==
    ASSUME IInv, Attended, NEW o \in Owners,
           PhaseReturns(o) \/ CompileReturns(o) \/ CommitReturns(o) \/ DiscardReturns(o) \/ RollbackReturns(o)
    PROVE  Attended'
<1>1. pc[o] \in Working /\ Local(o) /\ AdmissionTypes
  BY TypeParts DEF IInv, PhaseReturns, CompileReturns, CommitReturns, DiscardReturns, RollbackReturns,
         Between, Working, Phases
<1>2. ASSUME NEW s \in Phases, Send(o, s) PROVE Attended'
  BY <1>2, WorkAttends DEF Send, Working
<1>3. ASSUME NEW why \in Failures, End(o, why) PROVE Attended'
  BY <1>1, <1>3, EndAttends
<1>4. ASSUME NEW why \in Failures, RollBack(o, why) PROVE Attended'
  <2>1. CASE socket[o] = "up"
    <3>1. pc' = [pc EXCEPT ![o] = "rollback"] /\ UNCHANGED <<admissionVars, poolVars>> /\ "rollback" \in Working
      BY <1>4, <2>1 DEF RollBack, Working
    <3>2. QED  BY <3>1, WorkAttends
  <2>2. CASE socket[o] # "up"
    <3>1. End(o, "lost")
      BY <1>4, <2>2 DEF RollBack
    <3>2. QED  BY <1>3, <3>1 DEF Failures
  <2>3. QED  BY <2>1, <2>2
<1>5. {"none", "refused", "lost", "outcome", failure[o]} \subseteq Failures
  BY <1>1 DEF AdmissionTypes, Failures
<1>6. CASE PhaseReturns(o)
  <2>1. NextPhase(o, pc[o]) \in Phases
    BY <1>6 DEF PhaseReturns, Between, NextPhase, Ending, Phases
  <2>2. QED  BY <1>2, <1>4, <1>5, <1>6, <2>1 DEF PhaseReturns
<1>7. CASE CompileReturns(o)
  BY <1>2, <1>4, <1>5, <1>7 DEF CompileReturns, Phases
<1>8. CASE CommitReturns(o) \/ DiscardReturns(o) \/ RollbackReturns(o)
  BY <1>3, <1>4, <1>5, <1>8 DEF CommitReturns, DiscardReturns, RollbackReturns
<1>9. QED  BY <1>6, <1>7, <1>8

\* A request that is refused leaves no gap in the queue.
LEMMA RefuseAttends ==
    ASSUME IInv, Attended, NEW r \in Requests, NEW why, Refuse(r, why),
           UNCHANGED poolVars,
           Leaves(r, queue, queue') \/ (pc[r] = "idle" /\ UNCHANGED queue)
    PROVE  Attended'
<1>1. AdmissionTypes /\ queue \in Seq(Requests)
  BY TypeParts DEF IInv, AdmissionTypes
<1>2. pc' = [pc EXCEPT ![r] = "settled"] /\ UNCHANGED <<closing, active>>
  BY DEF Refuse
<1>3. \A q \in Owners : pc'[q] \in {"queued", "connecting"} => q # r /\ pc'[q] = pc[q]
  BY <1>1, <1>2 DEF AdmissionTypes
<1>4. PoolAttended'
  BY <1>3, PoolStays DEF Attended, poolVars
<1>5. CASE UNCHANGED queue
  BY <1>2, <1>3, <1>4, <1>5, QueueStays DEF Attended, Owners
<1>6. CASE Leaves(r, queue, queue')
  <2>1. queue # <<>>
    <3>1. PICK i \in 1..Len(queue) : queue[i] = r
      BY <1>6 DEF Leaves
    <3>2. QED  BY <1>1, <3>1
  <2>2. ASSUME NEW y \in Requests, pc'[y] = "queued"
        PROVE  \E i \in 1..Len(queue') : queue'[i] = y
    <3>1. y # r /\ \E i \in 1..Len(queue) : queue[i] = y
      BY <1>3, <2>2 DEF Attended, QueueAttended, Owners
    <3>2. PICK q : q = queue'
      OBVIOUS
    <3>3. \E i \in 1..Len(q) : q[i] = y
      BY <1>1, <1>6, <3>1, <3>2, StaysWhenLeft
    <3>4. QED  BY <3>2, <3>3
  <2>3. QueueAttended'
    BY <1>2, <2>1, <2>2 DEF Attended, QueueAttended
  <2>4. QED  BY <1>4, <2>3 DEF Attended
<1>7. QED  BY <1>5, <1>6

\* A request is queued only behind executions that occupy every slot.
LEMMA AdmitAttends == ASSUME IInv, Attended, NEW r \in Requests, Admit(r) PROVE Attended'
<1>1. AdmissionTypes /\ Slots /\ queue \in Seq(Requests) /\ pc[r] = "idle" /\ UNCHANGED poolVars
  BY TypeParts DEF IInv, AdmissionTypes, Admit
<1>2. CASE \E why \in {"aborted", "closing", "busy"} : Refuse(r, why) /\ UNCHANGED queue
  BY <1>1, <1>2, RefuseAttends
<1>3. CASE /\ ~closing /\ SlotFree
           /\ active' = active \cup {r} /\ queue' = queue
           /\ pc' = [pc EXCEPT ![r] = "admitted"]
           /\ UNCHANGED closing
  <2>1. IsFiniteSet(active) /\ Cardinality(active) \in Nat
    BY <1>1, FS_CardinalityType DEF Slots
  <2>2. queue = <<>>
    BY <1>3, <2>1, LimitAssumption DEF SlotFree, Attended, QueueAttended
  <2>3. \A q \in Owners : pc'[q] \in {"queued", "connecting"} => q # r /\ pc'[q] = pc[q]
    BY <1>1, <1>3 DEF AdmissionTypes
  <2>4. QueueAttended'
    BY <1>3, <2>2, <2>3 DEF Attended, QueueAttended, Owners
  <2>5. PoolAttended'
    BY <1>1, <2>3, PoolStays DEF Attended, poolVars
  <2>6. QED  BY <2>4, <2>5 DEF Attended
<1>4. CASE /\ ~closing /\ ~SlotFree
           /\ queue' = Append(queue, r) /\ active' = active
           /\ pc' = [pc EXCEPT ![r] = "queued"]
           /\ UNCHANGED closing
  <2>1. Cardinality(active) = Concurrency
    <3>1. IsFiniteSet(active) /\ Cardinality(active) \in Nat
      BY <1>1, FS_CardinalityType DEF Slots
    <3>2. QED  BY <1>1, <1>4, <3>1, LimitAssumption DEF SlotFree, AdmissionTypes
  <2>2. \A q \in Owners : q # r /\ pc'[q] \in {"queued", "connecting"} => pc'[q] = pc[q]
    BY <1>1, <1>4 DEF AdmissionTypes
  <2>3. ASSUME NEW y \in Requests, pc'[y] = "queued"
        PROVE  \E i \in 1..Len(queue') : queue'[i] = y
    <3>1. y = r \/ \E i \in 1..Len(queue) : queue[i] = y
      BY <2>2, <2>3 DEF Attended, QueueAttended, Owners
    <3>2. \E i \in 1..Len(Append(queue, r)) : Append(queue, r)[i] = y
      BY <1>1, <3>1, StaysBeforeLast
    <3>3. QED  BY <1>4, <3>2
  <2>4. QueueAttended'
    <3>1. Cardinality(active') = Concurrency /\ ~closing'
      BY <1>4, <2>1
    <3>2. QED  BY <2>3, <3>1 DEF QueueAttended
  <2>5. pc'[r] = "queued"
    BY <1>1, <1>4 DEF AdmissionTypes, Owners
  <2>6. PoolAttended'
    <3>1. \A q \in Owners : pc'[q] = "connecting" => pc[q] = "connecting"
      BY <2>2, <2>5
    <3>2. QED  BY <1>1, <3>1, PoolStays DEF Attended, poolVars
  <2>7. QED  BY <2>4, <2>6 DEF Attended
<1>5. QED  BY <1>2, <1>3, <1>4 DEF Admit

LEMMA StartAttends == ASSUME IInv, Attended, NEW o \in Owners, Start(o) PROVE Attended'
<1>1. /\ pc[o] = "admitted" /\ UNCHANGED <<late, returned>> /\ AdmissionTypes /\ PoolTypes /\ Local(o)
  BY TypeParts DEF Start, IInv
<1>2. CASE /\ Settle(o, IF IsAborted(o) THEN "aborted" ELSE "closing")
           /\ UNCHANGED <<poolQueue, pool>>
  <2> DEFINE why == IF IsAborted(o) THEN "aborted" ELSE "closing"
  <2>1. why \in Failures /\ Settle(o, why) /\ pc[o] \in Busy
    BY <1>1, <1>2 DEF Failures, Busy
  <2> HIDE DEF why
  <2>2. /\ QueueAttended'
        /\ \A p \in Owners : pc'[p] = "connecting" => p # o /\ pc[p] = "connecting"
    BY <2>1, SettleAttends DEF Attended
  <2>3. PoolAttended'
    BY <1>1, <1>2, <2>2, PoolStays DEF Attended
  <2>4. QED  BY <2>2, <2>3 DEF Attended
<1>3. CASE /\ pc' = [pc EXCEPT ![o] = "connecting"] /\ pool' = [pool EXCEPT ![o] = "waiting"]
           /\ poolQueue' = Append(poolQueue, o) /\ UNCHANGED admissionVars
  <2>1. /\ pc'[o] = "connecting" /\ pool'[o] = "waiting"
        /\ \A p \in Owners : p # o => pc'[p] = pc[p] /\ pool'[p] = pool[p]
    BY <1>1, <1>3 DEF AdmissionTypes, PoolTypes
  <2>2. QueueAttended'
    BY <1>3, <2>1, QueueStays DEF Attended, admissionVars, Owners
  <2>3. o \notin late'
    BY <1>1 DEF Local, Place
  <2>4. ASSUME NEW p \in Owners, pool'[p] = "waiting"
        PROVE  \E i \in 1..Len(poolQueue') : poolQueue'[i] = p
    <3>1. p = o \/ \E i \in 1..Len(poolQueue) : poolQueue[i] = p
      BY <2>1, <2>4 DEF Attended, PoolAttended
    <3>2. \E i \in 1..Len(Append(poolQueue, o)) : Append(poolQueue, o)[i] = p
      BY <1>1, <3>1, StaysBeforeLast DEF PoolTypes
    <3>3. QED  BY <1>3, <3>2
  <2>5. \A p \in Owners : pc'[p] = "connecting" => pool'[p] \in {"waiting", "opening"} /\ p \notin late'
    BY <1>1, <2>1, <2>3 DEF Attended, PoolAttended
  <2>6. PoolAttended'
    BY <2>4, <2>5 DEF PoolAttended
  <2>7. QED  BY <2>2, <2>6 DEF Attended
<1>4. QED  BY <1>2, <1>3 DEF Start

LEMMA PoolGrantAttends == ASSUME IInv, Attended, PoolGrant PROVE Attended'
<1>1. /\ PoolTypes /\ poolQueue # <<>> /\ UNCHANGED <<admissionVars, late, pc>>
      /\ poolQueue' = Tail(poolQueue) /\ pool' = [pool EXCEPT ![Head(poolQueue)] = "opening"]
  BY TypeParts DEF IInv, PoolGrant
<1>2. QueueAttended'
  BY <1>1, QueueStays DEF Attended, admissionVars
<1>3. Head(poolQueue) \in Owners
  BY <1>1 DEF PoolTypes
<1>4. pool'[Head(poolQueue)] = "opening"
      /\ \A p \in Owners : p # Head(poolQueue) => pool'[p] = pool[p]
  BY <1>1, <1>3 DEF PoolTypes
<1>5. ASSUME NEW p \in Owners, pool'[p] = "waiting"
      PROVE  \E i \in 1..Len(poolQueue') : poolQueue'[i] = p
  <2>1. p # Head(poolQueue) /\ \E i \in 1..Len(poolQueue) : poolQueue[i] = p
    BY <1>4, <1>5 DEF Attended, PoolAttended
  <2>2. \E i \in 1..Len(Tail(poolQueue)) : Tail(poolQueue)[i] = p
    BY <1>1, <2>1, StaysBehindHead DEF PoolTypes
  <2>3. QED  BY <1>1, <2>2
<1>6. \A p \in Owners : pc'[p] = "connecting" => pool'[p] \in {"waiting", "opening"} /\ p \notin late'
  BY <1>1, <1>4 DEF Attended, PoolAttended
<1>7. QED  BY <1>2, <1>5, <1>6 DEF Attended, PoolAttended

LEMMA ConnectedAttends == ASSUME IInv, Attended, NEW o \in Owners, Connected(o) PROVE Attended'
<1>1. /\ AdmissionTypes /\ PoolTypes /\ Local(o) /\ pool[o] = "opening"
      /\ UNCHANGED <<admissionVars, poolQueue, late>>
  BY TypeParts DEF IInv, Connected
<1>2. PICK w \in {"none", "held"} : pool' = [pool EXCEPT ![o] = w]
  BY DEF Connected, LateConnect
<1>3. \A p \in Owners : /\ pool'[p] = "waiting" => pool[p] = "waiting"
                        /\ p # o => pool'[p] = pool[p]
  BY <1>1, <1>2 DEF PoolTypes
<1>4. pc'[o] # "connecting" /\ (pc'[o] = "queued" => pc[o] = "queued")
      /\ \A p \in Owners : p # o => pc'[p] = pc[p]
  BY <1>1 DEF Connected, Local, Place, AdmissionTypes
<1>5. PoolAttended'
  <2>1. \A p \in Owners : pc'[p] = "connecting" => pc[p] = "connecting" /\ pool'[p] = pool[p]
    BY <1>3, <1>4
  <2>2. QED  BY <1>1, <1>3, <2>1, PoolStays DEF Attended
<1>6. QueueAttended'
  BY <1>1, <1>4, QueueStays DEF Attended, admissionVars, Owners
<1>7. QED  BY <1>5, <1>6 DEF Attended

LEMMA ConnectFailsAttends == ASSUME IInv, Attended, NEW o \in Owners, ConnectFails(o) PROVE Attended'
<1>1. /\ AdmissionTypes /\ PoolTypes /\ Local(o) /\ pool[o] \in {"waiting", "opening"}
      /\ pool' = [pool EXCEPT ![o] = "none"] /\ UNCHANGED late
  BY TypeParts DEF IInv, ConnectFails
<1>2. pool'[o] = "none" /\ \A p \in Owners : p # o => pool'[p] = pool[p]
  BY <1>1 DEF PoolTypes
<1>3. QueueAttended' /\ \A p \in Owners : pc'[p] = "connecting" => p # o /\ pc[p] = "connecting"
  <2>1. CASE o \in late
    <3>1. UNCHANGED <<admissionVars, pc>> /\ pc[o] # "connecting"
      BY <1>1, <2>1 DEF ConnectFails, Local, Place
    <3>2. QED  BY <3>1, QueueStays DEF Attended, admissionVars
  <2>2. CASE o \notin late
    <3>1. Settle(o, "lost") /\ pc[o] = "connecting"
      BY <1>1, <2>2 DEF ConnectFails, Local, Place
    <3>2. QED  BY <3>1, SettleAttends DEF Attended, Busy, Failures
  <2>3. QED  BY <2>1, <2>2
<1>4. ASSUME NEW p \in Owners, pool'[p] = "waiting"
      PROVE  \E i \in 1..Len(poolQueue') : poolQueue'[i] = p
  <2>1. p # o /\ \E i \in 1..Len(poolQueue) : poolQueue[i] = p
    BY <1>2, <1>4 DEF Attended, PoolAttended
  <2>2. PICK q : q = poolQueue'
    OBVIOUS
  <2>3. CASE pool[o] = "waiting"
    <3>1. Leaves(o, poolQueue, q)
      BY <2>2, <2>3 DEF ConnectFails
    <3>2. \E i \in 1..Len(q) : q[i] = p
      BY <1>1, <2>1, <3>1, StaysWhenLeft DEF PoolTypes
    <3>3. QED  BY <2>2, <3>2
  <2>4. CASE pool[o] # "waiting"
    BY <2>1, <2>4 DEF ConnectFails
  <2>5. QED  BY <2>3, <2>4
<1>5. \A p \in Owners : pc'[p] = "connecting" => pool'[p] \in {"waiting", "opening"} /\ p \notin late'
  BY <1>1, <1>2, <1>3 DEF Attended, PoolAttended
<1>6. QED  BY <1>3, <1>4, <1>5 DEF Attended, PoolAttended

LEMMA AbortAttends ==
    ASSUME IInv, Attended, NEW r \in Requests, NEW signal \in {"lease", "request"}, Abort(r, signal)
    PROVE  Attended'
<1>1. CASE /\ Leaves(r, queue, queue') /\ UNCHANGED poolVars
           /\ Refuse(r, IF signal = "lease" THEN "refused" ELSE "expired")
  BY <1>1, RefuseAttends
<1>2. CASE /\ pc[r] = "connecting" /\ Settle(r, "aborted")
           /\ late' = late \cup {r} /\ UNCHANGED <<poolQueue, pool>>
  <2>1. /\ QueueAttended'
        /\ \A p \in Owners : pc'[p] = "connecting" => p # r /\ pc[p] = "connecting"
    BY <1>2, SettleAttends DEF Attended, Busy, Failures, Owners
  <2>2. PoolAttended'
    BY <1>2, <2>1, PoolStays DEF Attended
  <2>3. QED  BY <2>1, <2>2 DEF Attended
<1>3. CASE UNCHANGED <<admissionVars, poolVars, pc>>
  BY <1>3, QueueStays, PoolStays DEF Attended, admissionVars, poolVars
<1>4. QED  BY <1>1, <1>2, <1>3 DEF Abort

\* The steps of one that has left both lines.
LEMMA OutsideAttends ==
    ASSUME IInv, Attended, NEW o \in Owners, pc' = [pc EXCEPT ![o] = pc'[o]],
           pc'[o] \notin {"queued", "connecting"}, UNCHANGED <<admissionVars, poolQueue, pool, late>>
    PROVE  Attended'
<1>1. \A q \in Owners : pc'[q] \in {"queued", "connecting"} => pc'[q] = pc[q]
  BY TypeParts DEF IInv, AdmissionTypes
<1>2. QueueAttended'
  BY <1>1, QueueStays DEF Attended, admissionVars, Owners
<1>3. PoolAttended'
  BY <1>1, PoolStays DEF Attended
<1>4. QED  BY <1>2, <1>3 DEF Attended

LEMMA AnswerAttends ==
    ASSUME IInv, Attended, NEW r \in Requests, LeaseSettles(r) \/ AbortSettling(r)
    PROVE  Attended'
<1>1. pc' = [pc EXCEPT ![r] = "answered"] /\ UNCHANGED <<admissionVars, poolVars>> /\ AdmissionTypes
  BY TypeParts DEF IInv, LeaseSettles, AbortSettling, Answer
<1>2. r \in Owners /\ pc'[r] = "answered"
  BY <1>1 DEF Owners, AdmissionTypes
<1>3. QED  BY <1>1, <1>2, OutsideAttends DEF poolVars

LEMMA CheckAttends ==
    ASSUME IInv, Attended, NEW h \in Checks, Probe(h) \/ SolverReady(h)
    PROVE  Attended'
<1>1. PICK p \in {"admitted", "idle"} : pc' = [pc EXCEPT ![h] = p]
  BY DEF Probe, SolverReady
<1>2. UNCHANGED <<admissionVars, poolQueue, pool, late>> /\ AdmissionTypes
  BY TypeParts DEF IInv, Probe, SolverReady, poolVars
<1>3. h \in Owners /\ pc'[h] = p
  BY <1>1, <1>2 DEF Owners, AdmissionTypes
<1>4. QED  BY <1>1, <1>2, <1>3, OutsideAttends

LEMMA CloseAttends == ASSUME IInv, Attended, Close PROVE Attended'
<1> DEFINE Queued == {r \in Requests : pc[r] = "queued"}
<1>1. /\ queue' = <<>> /\ UNCHANGED poolVars
      /\ pc' = [o \in Owners |-> IF o \in Queued THEN "settled" ELSE pc[o]]
  BY DEF Close
<1>2. \A o \in Owners : pc'[o] = "connecting" => pc[o] = "connecting"
  BY <1>1
<1>3. \A r \in Requests : pc'[r] # "queued"
  BY <1>1 DEF Owners
<1> HIDE DEF Queued
<1>4. QueueAttended'
  BY <1>1, <1>3 DEF QueueAttended
<1>5. PoolAttended'
  BY <1>1, <1>2, PoolStays DEF Attended, poolVars
<1>6. QED  BY <1>4, <1>5 DEF Attended

LEMMA ElsewhereAttends ==
    ASSUME Attended,
           \/ \E o \in Owners : Serve(o) \/ ServerDrops(o) \/ LoseConnection(o)
           \/ \E r \in Requests : Revoke(r)
           \/ Pause \/ FenceExclusive \/ CompilerDown \/ PoolEnds \/ UNCHANGED vars
    PROVE  Attended'
<1>1. UNCHANGED <<queue, active, closing, pc, poolQueue, pool, late>>
  BY DEF Serve, ServerDrops, LoseConnection, Revoke, Pause, FenceExclusive, CompilerDown, PoolEnds, vars,
         admissionVars, poolVars
<1>2. QED  BY <1>1, QueueStays, PoolStays DEF Attended

LEMMA InitAttends == Init => Attended
<1> SUFFICES ASSUME Init PROVE Attended  OBVIOUS
<1>1. QueueAttended
  BY DEF Init, QueueAttended, Owners
<1>2. PoolAttended
  BY DEF Init, PoolAttended
<1>3. QED  BY <1>1, <1>2 DEF Attended

LEMMA NextAttends == IInv /\ Attended /\ [Next]_vars => Attended'
<1> SUFFICES ASSUME IInv, Attended, [Next]_vars PROVE Attended'  OBVIOUS
<1>1. ASSUME NEW r \in Requests,
             \/ Admit(r) \/ QueueTimeout(r) \/ LeaseSettles(r) \/ AbortSettling(r) \/ Revoke(r)
             \/ \E signal \in {"lease", "request"} : Abort(r, signal)
      PROVE  Attended'
  <2>1. CASE QueueTimeout(r)
    BY <2>1, RefuseAttends DEF QueueTimeout
  <2>2. QED  BY <1>1, <2>1, AdmitAttends, AnswerAttends, AbortAttends, ElsewhereAttends
<1>2. ASSUME NEW o \in Owners, Operate(o) PROVE Attended'
  BY <1>2, StartAttends, ConnectedAttends, ConnectFailsAttends, ClientAttends DEF Operate
<1>3. ASSUME NEW o \in Owners, Serve(o) \/ ServerDrops(o) \/ LoseConnection(o) PROVE Attended'
  BY <1>3, ElsewhereAttends
<1>4. ASSUME NEW h \in Checks, Probe(h) \/ SolverReady(h) PROVE Attended'
  BY <1>4, CheckAttends
<1>5. CASE PoolGrant \/ Pause \/ FenceExclusive \/ Close \/ CompilerDown \/ PoolEnds \/ UNCHANGED vars
  BY <1>5, PoolGrantAttends, CloseAttends, ElsewhereAttends
<1>6. QED  BY <1>1, <1>2, <1>3, <1>4, <1>5 DEF Next

\* Slots do not lie idle while an operation is queued, and every waiter stands in
\* the line it is served from, whatever settles, is aborted, expires or fails to
\* connect (beginAdmittedTransaction(), admitTransaction(), close()).
THEOREM SlotsServeTheQueue == Spec => []Attended
BY InitInv, NextInv, InitAttends, NextAttends, PTL DEF Spec

\* Nothing is left that moves an operation on: none executes or answers, no
\* connect is being made or can be, and who is at work has no statement at the
\* server, no unread reply and no lost connection.
Still ==
    /\ \A o \in Owners :
           /\ pc[o] \notin {"admitted", "compile", "solver", "settled"} /\ pool[o] # "opening"
           /\ pc[o] \in Working => socket[o] = "up" /\ stmt[o] = "none" /\ reply[o] = "none"
    /\ poolQueue = <<>> \/ Cardinality(InPool) >= PoolMax

AtRest == Still => \A o \in Owners : pc[o] \in {"idle", "answered"} /\ pool[o] = "none"

\* The plane cannot stall: whenever nothing moves an operation on, every operation
\* is answered or never came, and no client of the pool is out (transaction(),
\* acquireOperationClient()).
THEOREM NeverStalls == Spec => []AtRest
<1>1. IInv /\ Attended => AtRest
  <2> SUFFICES ASSUME IInv, Attended, Still
               PROVE  \A o \in Owners : pc[o] \in {"idle", "answered"} /\ pool[o] = "none"
    BY DEF AtRest
  <2>1. AdmissionTypes /\ PoolTypes /\ Slots
    BY TypeParts DEF IInv
  <2>2. ASSUME NEW o \in Owners PROVE pc[o] \notin Working /\ pool[o] \notin {"held", "opening"}
    <3>1. Place(o) /\ pool[o] # "opening"
      BY DEF IInv, Local, Still
    <3>2. pc[o] \notin Working
      <4>1. SUFFICES ASSUME pc[o] \in Working PROVE FALSE
        OBVIOUS
      <4>2. socket[o] = "up" /\ stmt[o] = "none" /\ reply[o] = "none" /\ pc[o] # "compile"
        BY <4>1 DEF Still
      <4>3. Agrees(pc[o], stmt[o], reply[o], tx[o])
        BY <3>1, <4>1, <4>2 DEF Place
      <4>4. QED  BY <4>2, <4>3 DEF Agrees, Locking
    <3>3. QED  BY <3>1, <3>2 DEF Place
  <2>3. poolQueue = <<>>
    <3>1. InPool = {}
      BY <2>2 DEF InPool
    <3>2. Cardinality(InPool) = 0
      BY <3>1, FS_EmptySet
    <3>3. QED  BY <3>2, LimitAssumption DEF Still
  <2>4. \A o \in Owners : pool[o] # "waiting"
    BY <2>3 DEF Attended, PoolAttended
  <2>5. \A o \in Owners : pc[o] # "connecting"
    BY <2>2, <2>4 DEF Attended, PoolAttended
  <2>6. active = {}
    BY <2>1, <2>2, <2>5 DEF Slots, AdmissionTypes, Still, Busy, Owners
  <2>7. queue = <<>>
    <3>1. Cardinality(active) = 0
      BY <2>6, FS_EmptySet
    <3>2. QED  BY <3>1, LimitAssumption DEF Attended, QueueAttended
  <2>8. \A r \in Requests : pc[r] # "queued"
    BY <2>7 DEF Attended, QueueAttended
  <2>9. ASSUME NEW o \in Owners PROVE pc[o] \in {"idle", "answered"} /\ pool[o] = "none"
    <3>1. pc[o] # "queued"
      <4>1. CASE o \in Checks
        BY <4>1 DEF IInv, Local, CheckPlace
      <4>2. QED  BY <2>8, <4>1 DEF Owners
    <3>2. pc[o] \in {"idle", "answered"}
      BY <2>1, <2>2, <2>5, <3>1 DEF AdmissionTypes, Still, Working
    <3>3. pool[o] = "none"
      BY <2>1, <2>2, <2>4 DEF PoolTypes
    <3>4. QED  BY <3>2, <3>3
  <2>10. QED  BY <2>9
<1>2. QED  BY <1>1, Invariance, SlotsServeTheQueue, PTL

=============================================================================
