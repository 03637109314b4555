------------------------------ MODULE LocksProofs ------------------------------
(***************************************************************************)
(* Whatever the methods call while they hold a lock, whatever times out,   *)
(* and however many users there are, the locks exclude one another and are *)
(* released as often as they are got; and threads that wait for one        *)
(* another's locks have reversed `tree` and `links`, or wait in close.     *)
(***************************************************************************)
EXTENDS Locks, FiniteSetTheorems, SequenceTheorems, TLAPS

Method ==
    {"mainWatcher", "innerWatcher", "handleEvent", "linkObserver", "forgetTarget",
     "addLink", "removeLink", "register", "unregister", "list", "close"}

StepRecord ==
    [op : {"acquire", "release"}, on : Lock, skip : Nat]
    \cup [op : {"call", "mayCall"}, on : Method, skip : Nat]
    \cup [op : {"await"}, on : {"callbacks"}, skip : {0}]

\* Under these two nothing is asked for.
Leaf == {"roots", "inner"}

\* What one step adds to the releases that are left.
Sign(step, l) ==
    IF step.on # l THEN 0
    ELSE IF step.op = "release" THEN 1 ELSE IF step.op = "acquire" THEN -1 ELSE 0

\* The steps that a thread has still to do, from each of them on: they take no lock that
\* they do not release; those that are skipped when a lock is not got are balanced; and
\* a lock of Leaf that is held is released next.
Proper(steps) ==
    /\ steps \in Seq(StepRecord)
    /\ \A i \in 1..Len(steps) :
        steps[i].op = "acquire" =>
            /\ i + steps[i].skip <= Len(steps)
            /\ \A l \in Lock :
                ReleasesFrom(steps, i, l) = ReleasesFrom(steps, i + steps[i].skip + 1, l)
    /\ \A i \in 1..(Len(steps) + 1), l \in Lock :
        /\ ReleasesFrom(steps, i, l) >= 0
        /\ l \in Leaf /\ ReleasesFrom(steps, i, l) # 0 =>
            i <= Len(steps) /\ steps[i].op = "release" /\ steps[i].on = l

\* The inductive invariant.
LocksInv ==
    /\ DOMAIN program = Thread /\ \A t \in Thread : Proper(program[t])
    /\ held \in [Thread -> [Lock -> Nat]]
    /\ TypeOK
-----------------------------------------------------------------------------
(* Counting steps *)

LEMMA PlacesFinite ==
    ASSUME NEW s, Len(s) \in Nat, NEW first \in Nat \ {0}, NEW op, NEW l
    PROVE  /\ Places(s, first, op, l) \subseteq first..Len(s)
           /\ IsFiniteSet(Places(s, first, op, l))
           /\ Cardinality(Places(s, first, op, l)) \in Nat
<1>1. Places(s, first, op, l) \subseteq first..Len(s)
    BY DEF Places
<1>2. IsFiniteSet(first..Len(s))
    BY FS_Interval
<1> QED BY <1>1, <1>2, FS_Subset, FS_CardinalityType

\* No step is left behind the last one.
LEMMA NothingLeft ==
    ASSUME NEW s \in Seq(StepRecord), NEW l
    PROVE  ReleasesFrom(s, Len(s) + 1, l) = 0
<1>1. Places(s, Len(s) + 1, "release", l) = {} /\ Places(s, Len(s) + 1, "acquire", l) = {}
    BY DEF Places
<1>2. /\ Cardinality(Places(s, Len(s) + 1, "release", l)) = 0
      /\ Cardinality(Places(s, Len(s) + 1, "acquire", l)) = 0
    BY <1>1, FS_EmptySet
<1> QED BY <1>2 DEF ReleasesFrom

LEMMA ReleasesInt ==
    ASSUME NEW s \in Seq(StepRecord), NEW i \in Nat \ {0}, NEW l
    PROVE  ReleasesFrom(s, i, l) \in Int
<1>1. Len(s) \in Nat
    OBVIOUS
<1> QED BY <1>1, PlacesFinite DEF ReleasesFrom

\* One step more.
LEMMA OneStepMore ==
    ASSUME NEW s \in Seq(StepRecord), NEW i \in 1..Len(s), NEW l \in Lock
    PROVE  ReleasesFrom(s, i, l) = ReleasesFrom(s, i + 1, l) + Sign(s[i], l)
<1>1. Len(s) \in Nat /\ i \in Nat \ {0} /\ i + 1 \in Nat \ {0} /\ i \notin (i + 1)..Len(s)
    OBVIOUS
<1>2. ASSUME NEW op
      PROVE  Cardinality(Places(s, i, op, l)) =
                Cardinality(Places(s, i + 1, op, l)) + (IF s[i].op = op /\ s[i].on = l THEN 1 ELSE 0)
    <2>1. /\ IsFiniteSet(Places(s, i + 1, op, l)) /\ i \notin Places(s, i + 1, op, l)
          /\ Cardinality(Places(s, i + 1, op, l)) \in Nat
        BY <1>1, PlacesFinite
    <2>2. CASE s[i].op = op /\ s[i].on = l
        <3>1. Places(s, i, op, l) = Places(s, i + 1, op, l) \cup {i}
            BY <2>2 DEF Places
        <3>2. Cardinality(Places(s, i + 1, op, l) \cup {i}) = Cardinality(Places(s, i + 1, op, l)) + 1
            BY <2>1, FS_AddElement
        <3> QED BY <2>2, <3>1, <3>2
    <2>3. CASE ~(s[i].op = op /\ s[i].on = l)
        <3>1. Places(s, i, op, l) = Places(s, i + 1, op, l)
            BY <2>3 DEF Places
        <3> QED BY <2>1, <2>3, <3>1
    <2> QED BY <2>2, <2>3
<1>3. \A op : Cardinality(Places(s, i + 1, op, l)) \in Nat
    BY <1>1, PlacesFinite
<1>4. /\ Cardinality(Places(s, i, "release", l)) =
            Cardinality(Places(s, i + 1, "release", l))
                + (IF s[i].op = "release" /\ s[i].on = l THEN 1 ELSE 0)
      /\ Cardinality(Places(s, i, "acquire", l)) =
            Cardinality(Places(s, i + 1, "acquire", l))
                + (IF s[i].op = "acquire" /\ s[i].on = l THEN 1 ELSE 0)
    BY <1>2
<1> QED BY <1>3, <1>4 DEF ReleasesFrom, Sign

\* The same steps at other places.
LEMMA PlacesShifted ==
    ASSUME NEW s \in Seq(StepRecord), NEW t \in Seq(StepRecord), NEW d \in Nat,
           Len(s) = Len(t) + d, \A k \in 1..Len(t) : s[k + d] = t[k],
           NEW i \in 1..(Len(t) + 1), NEW l
    PROVE  ReleasesFrom(s, i + d, l) = ReleasesFrom(t, i, l)
<1>1. ASSUME NEW op
      PROVE  Cardinality(Places(s, i + d, op, l)) = Cardinality(Places(t, i, op, l))
    <2> DEFINE S == Places(s, i + d, op, l)
               T == Places(t, i, op, l)
               f == [k \in T |-> k + d]
    <2>1. Len(t) \in Nat
        OBVIOUS
    <2>2. IsFiniteSet(T) /\ \A k \in T : k \in Int
        <3>1. IsFiniteSet(T)
            BY <2>1, PlacesFinite
        <3> QED BY <2>1, <3>1 DEF Places
    <2>3. \A k \in T : k + d \in S
        BY DEF Places
    <2>4. \A k \in S : k - d \in T /\ (k - d) + d = k
        BY DEF Places
    <2>5. f \in Bijection(T, S)
        <3>1. f \in [T -> S]
            BY <2>3
        <3>2. \A j, k \in T : f[j] = f[k] => j = k
            <4>1. \A j, k \in T : j + d = k + d => j = k
                BY <2>2
            <4> QED BY <4>1
        <3>3. \A k \in S : \E j \in T : f[j] = k
            BY <2>4
        <3> QED BY <3>1, <3>2, <3>3 DEF Bijection, Injection, Surjection, IsInjective
    <2> QED BY <2>2, <2>5, FS_Bijection DEF ExistsBijection
<1> QED BY <1>1 DEF ReleasesFrom

\* The steps of a method that is called come before those of its caller.
LEMMA PlacesJoined ==
    ASSUME NEW b \in Seq(StepRecord), NEW t \in Seq(StepRecord),
           NEW i \in 1..(Len(b) + 1), NEW l
    PROVE  ReleasesFrom(b \o t, i, l) = ReleasesFrom(b, i, l) + ReleasesFrom(t, 1, l)
<1> DEFINE s == b \o t
<1>1. /\ Len(b) \in Nat /\ Len(t) \in Nat /\ s \in Seq(StepRecord) /\ Len(s) = Len(t) + Len(b)
      /\ \A k \in 1..Len(b) : s[k] = b[k]
      /\ \A k \in 1..Len(t) : s[k + Len(b)] = t[k]
    OBVIOUS
<1> HIDE DEF s
<1>2. ReleasesFrom(s, Len(b) + 1, l) = ReleasesFrom(t, 1, l)
    <2>1. 1 \in 1..(Len(t) + 1) /\ 1 + Len(b) = Len(b) + 1
        BY <1>1
    <2> QED BY <1>1, <2>1, PlacesShifted
<1>3. ASSUME NEW op
      PROVE  Cardinality(Places(s, i, op, l)) =
                Cardinality(Places(b, i, op, l)) + Cardinality(Places(s, Len(b) + 1, op, l))
    <2> DEFINE P == Places(b, i, op, l)
               Q == Places(s, Len(b) + 1, op, l)
    <2>1. Places(s, i, op, l) = P \cup Q
        BY <1>1 DEF Places
    <2>2. P \cap Q = {}
        BY <1>1 DEF Places
    <2>3. IsFiniteSet(P) /\ IsFiniteSet(Q) /\ Cardinality(P) \in Nat /\ Cardinality(Q) \in Nat
        BY <1>1, PlacesFinite
    <2> HIDE DEF P, Q
    <2>4. Cardinality(P \cup Q) = Cardinality(P) + Cardinality(Q)
        <3>1. Cardinality(P \cap Q) = 0
            BY <2>2, FS_EmptySet
        <3>2. Cardinality(P \cup Q) = Cardinality(P) + Cardinality(Q) - Cardinality(P \cap Q)
            BY <2>3, FS_Union
        <3> QED BY <2>3, <3>1, <3>2
    <2> QED BY <2>1, <2>4 DEF P, Q
<1>4. \A op : /\ Cardinality(Places(b, i, op, l)) \in Nat
             /\ Cardinality(Places(s, Len(b) + 1, op, l)) \in Nat
    BY <1>1, PlacesFinite
<1>5. ReleasesFrom(s, i, l) = ReleasesFrom(b, i, l) + ReleasesFrom(s, Len(b) + 1, l)
    BY <1>3, <1>4 DEF ReleasesFrom
<1> QED BY <1>2, <1>5 DEF s
-----------------------------------------------------------------------------
(* Proper sequences of steps *)

\* What is left of proper steps is proper: after one step, or after those that are skipped.
LEMMA RestIsProper ==
    ASSUME NEW s, Proper(s), NEW d \in 0..Len(s)
    PROVE  /\ Proper(SubSeq(s, d + 1, Len(s)))
           /\ \A l \in Lock : Releases(SubSeq(s, d + 1, Len(s)), l) = ReleasesFrom(s, d + 1, l)
<1> DEFINE t == SubSeq(s, d + 1, Len(s))
<1>1. s \in Seq(StepRecord) /\ Len(s) \in Nat
    BY DEF Proper
<1>2. /\ t \in Seq(StepRecord) /\ Len(t) \in Nat /\ Len(s) = Len(t) + d
      /\ \A k \in 1..Len(t) : s[k + d] = t[k]
    <2>1. d + 1 \in 1..(Len(s) + 1) /\ \A k \in (d + 1)..Len(s) : s[k] \in StepRecord
        BY <1>1
    <2>2. t \in Seq(StepRecord) /\ Len(t) = Len(s) - d
        BY <1>1, <2>1, SubSeqProperties
    <2>3. \A k \in 1..Len(t) : t[k] = s[d + 1 + k - 1]
        BY <1>1, <2>1, SubSeqProperties
    <2> HIDE DEF t
    <2>4. Len(t) \in Nat /\ Len(s) = Len(t) + d
        BY <1>1, <2>2
    <2>5. ASSUME NEW k \in 1..Len(t)
          PROVE  s[k + d] = t[k]
        <3>1. d + 1 + k - 1 = k + d
            BY <2>4
        <3> QED BY <3>1, <2>3, <2>5
    <2> QED BY <2>2, <2>4, <2>5
<1> HIDE DEF t
<1>3. \A i \in 1..(Len(t) + 1), l \in Lock : ReleasesFrom(t, i, l) = ReleasesFrom(s, i + d, l)
    BY <1>1, <1>2, PlacesShifted
<1>4. ASSUME NEW i \in 1..Len(t), t[i].op = "acquire"
      PROVE  /\ i + t[i].skip <= Len(t)
             /\ \A l \in Lock : ReleasesFrom(t, i, l) = ReleasesFrom(t, i + t[i].skip + 1, l)
    <2>1. s[i + d] = t[i] /\ i + d \in 1..Len(s)
        BY <1>1, <1>2
    <2>2. t[i].skip \in Nat
        <3>1. t[i] \in StepRecord
            BY <1>2
        <3> QED BY <3>1 DEF StepRecord
    <2>3. /\ i + d + t[i].skip <= Len(s)
          /\ \A l \in Lock : ReleasesFrom(s, i + d, l) = ReleasesFrom(s, i + d + t[i].skip + 1, l)
        BY <1>4, <2>1 DEF Proper
    <2>4. i + t[i].skip <= Len(t) /\ i + t[i].skip + 1 \in 1..(Len(t) + 1) /\ i \in 1..(Len(t) + 1)
        BY <1>2, <2>2, <2>3
    <2>5. (i + t[i].skip + 1) + d = i + d + t[i].skip + 1
        BY <2>2
    <2> QED BY <1>3, <2>3, <2>4, <2>5
<1>5. ASSUME NEW i \in 1..(Len(t) + 1), NEW l \in Lock
      PROVE  /\ ReleasesFrom(t, i, l) >= 0
             /\ l \in Leaf /\ ReleasesFrom(t, i, l) # 0 =>
                    i <= Len(t) /\ t[i].op = "release" /\ t[i].on = l
    <2>1. i + d \in 1..(Len(s) + 1)
        BY <1>2
    <2> QED BY <1>2, <1>3, <2>1 DEF Proper
<1>6. Proper(t)
    BY <1>2, <1>4, <1>5 DEF Proper
<1>7. \A l \in Lock : Releases(t, l) = ReleasesFrom(s, d + 1, l)
    <2>1. 1 \in 1..(Len(t) + 1) /\ 1 + d = d + 1
        BY <1>2
    <2> QED BY <1>3, <2>1 DEF Releases
<1> QED BY <1>6, <1>7 DEF t

\* A method may be called where no lock of Leaf is held.
LEMMA JoinedIsProper ==
    ASSUME NEW b, Proper(b), \A l \in Lock : Releases(b, l) = 0,
           NEW t, Proper(t), \A l \in Leaf : Releases(t, l) = 0
    PROVE  /\ Proper(b \o t)
           /\ \A l \in Lock : Releases(b \o t, l) = Releases(t, l)
<1> DEFINE s == b \o t
<1>1. /\ b \in Seq(StepRecord) /\ t \in Seq(StepRecord)
      /\ Len(b) \in Nat /\ Len(t) \in Nat
    BY DEF Proper
<1>2. /\ s \in Seq(StepRecord) /\ Len(s) = Len(t) + Len(b)
      /\ \A k \in 1..Len(b) : s[k] = b[k]
      /\ \A k \in 1..Len(t) : s[k + Len(b)] = t[k]
    BY <1>1
<1>3. \A i \in 1..(Len(b) + 1), l \in Lock :
        ReleasesFrom(s, i, l) = ReleasesFrom(b, i, l) + Releases(t, l)
    BY <1>1, PlacesJoined DEF Releases
<1> HIDE DEF s
<1>4. \A i \in 1..(Len(t) + 1), l \in Lock : ReleasesFrom(s, i + Len(b), l) = ReleasesFrom(t, i, l)
    BY <1>1, <1>2, PlacesShifted
<1>5. \A l \in Lock : Releases(t, l) \in Int /\ Releases(t, l) >= 0
    <2>1. 1 \in 1..(Len(t) + 1) /\ 1 \in Nat \ {0}
        BY <1>1
    <2> QED BY <1>1, <2>1, ReleasesInt DEF Releases, Proper
<1>6. \A i \in 1..(Len(b) + 1), l \in Lock : ReleasesFrom(b, i, l) \in Int
    BY <1>1, ReleasesInt
<1>7. ASSUME NEW i \in 1..Len(s), s[i].op = "acquire"
      PROVE  /\ i + s[i].skip <= Len(s)
             /\ \A l \in Lock : ReleasesFrom(s, i, l) = ReleasesFrom(s, i + s[i].skip + 1, l)
    <2>1. s[i].skip \in Nat
        <3>1. s[i] \in StepRecord
            BY <1>2
        <3> QED BY <3>1 DEF StepRecord
    <2>2. CASE i <= Len(b)
        <3>1. i \in 1..Len(b) /\ s[i] = b[i]
            BY <1>1, <1>2, <2>2
        <3>2. /\ i + s[i].skip <= Len(b)
              /\ \A l \in Lock : ReleasesFrom(b, i, l) = ReleasesFrom(b, i + s[i].skip + 1, l)
            BY <1>7, <3>1 DEF Proper
        <3>3. i \in 1..(Len(b) + 1) /\ i + s[i].skip + 1 \in 1..(Len(b) + 1)
            BY <1>1, <2>1, <3>1, <3>2
        <3>4. i + s[i].skip <= Len(s)
            BY <1>1, <1>2, <2>1, <3>2
        <3> QED BY <1>3, <3>2, <3>3, <3>4
    <2>3. CASE i > Len(b)
        <3> DEFINE j == i - Len(b)
        <3>1. j \in 1..Len(t) /\ j + Len(b) = i
            BY <1>1, <1>2, <2>3
        <3> HIDE DEF j
        <3>2. s[i] = t[j]
            BY <1>2, <3>1
        <3>3. /\ j + s[i].skip <= Len(t)
              /\ \A l \in Lock : ReleasesFrom(t, j, l) = ReleasesFrom(t, j + s[i].skip + 1, l)
            BY <1>7, <3>1, <3>2 DEF Proper
        <3>4. /\ j \in 1..(Len(t) + 1) /\ j + s[i].skip + 1 \in 1..(Len(t) + 1)
              /\ (j + s[i].skip + 1) + Len(b) = i + s[i].skip + 1
            <4>1. j + s[i].skip <= Len(t) /\ j \in Nat /\ i \in Nat
                BY <3>1, <3>3
            <4> QED BY <1>1, <2>1, <3>1, <4>1
        <3>5. i + s[i].skip <= Len(s)
            BY <1>1, <1>2, <2>1, <3>1, <3>3
        <3>6. \A l \in Lock : /\ ReleasesFrom(s, i, l) = ReleasesFrom(t, j, l)
                              /\ ReleasesFrom(s, i + s[i].skip + 1, l) =
                                    ReleasesFrom(t, j + s[i].skip + 1, l)
            BY <1>4, <3>1, <3>4
        <3> QED BY <3>3, <3>5, <3>6
    <2> QED BY <1>1, <2>2, <2>3
<1>8. ASSUME NEW i \in 1..(Len(s) + 1), NEW l \in Lock
      PROVE  /\ ReleasesFrom(s, i, l) >= 0
             /\ l \in Leaf /\ ReleasesFrom(s, i, l) # 0 =>
                    i <= Len(s) /\ s[i].op = "release" /\ s[i].on = l
    <2>1. CASE i <= Len(b)
        <3>1. i \in 1..(Len(b) + 1) /\ i \in 1..Len(b) /\ s[i] = b[i]
            BY <1>1, <1>2, <2>1
        <3>2. ReleasesFrom(s, i, l) = ReleasesFrom(b, i, l) + Releases(t, l)
            BY <1>3, <3>1
        <3>3. /\ ReleasesFrom(b, i, l) >= 0
              /\ l \in Leaf /\ ReleasesFrom(b, i, l) # 0 => b[i].op = "release" /\ b[i].on = l
            BY <3>1 DEF Proper
        <3>4. ReleasesFrom(s, i, l) >= 0
            BY <1>5, <1>6, <3>1, <3>2, <3>3
        <3>5. ASSUME l \in Leaf, ReleasesFrom(s, i, l) # 0
              PROVE  i <= Len(s) /\ s[i].op = "release" /\ s[i].on = l
            <4>1. ReleasesFrom(b, i, l) # 0
                BY <1>6, <3>1, <3>2, <3>5
            <4> QED BY <1>1, <1>2, <3>1, <3>3, <3>5, <4>1
        <3> QED BY <3>4, <3>5
    <2>2. CASE i > Len(b)
        <3> DEFINE j == i - Len(b)
        <3>1. j \in 1..(Len(t) + 1) /\ j + Len(b) = i
            BY <1>1, <1>2, <2>2
        <3> HIDE DEF j
        <3>2. ReleasesFrom(s, i, l) = ReleasesFrom(t, j, l)
            BY <1>4, <3>1
        <3>3. j <= Len(t) => i <= Len(s) /\ s[i] = t[j]
            BY <1>1, <1>2, <3>1
        <3> QED BY <3>1, <3>2, <3>3 DEF Proper
    <2> QED BY <1>1, <2>1, <2>2
<1>9. Proper(s)
    BY <1>2, <1>7, <1>8 DEF Proper
<1>10. \A l \in Lock : Releases(s, l) = Releases(t, l)
    <2>1. 1 \in 1..(Len(b) + 1)
        BY <1>1
    <2> QED BY <1>3, <1>5, <2>1 DEF Releases
<1> QED BY <1>9, <1>10 DEF s
-----------------------------------------------------------------------------
(* The methods *)

\* A method releases what it takes.
Whole(steps) == Proper(steps) /\ \A l \in Lock : Releases(steps, l) = 0

\* What the steps are, and what they add to the releases.
LEMMA AcquireIs ==
    ASSUME NEW l \in Lock, NEW k \in Nat
    PROVE  /\ Acquire(l, k) \in StepRecord /\ Acquire(l, k).op = "acquire" /\ Acquire(l, k).skip = k
           /\ \A x \in Lock : Sign(Acquire(l, k), x) = (IF x = l THEN -1 ELSE 0)
BY DEF Acquire, StepRecord, Sign

LEMMA ReleaseIs ==
    ASSUME NEW l \in Lock
    PROVE  /\ Release(l) \in StepRecord /\ Release(l).op = "release" /\ Release(l).on = l
           /\ \A x \in Lock : Sign(Release(l), x) = (IF x = l THEN 1 ELSE 0)
BY DEF Release, StepRecord, Sign

LEMMA CallIs ==
    ASSUME NEW m \in Method
    PROVE  /\ Call(m) \in StepRecord /\ Call(m).op = "call"
           /\ MayCall(m) \in StepRecord /\ MayCall(m).op = "mayCall"
           /\ \A x \in Lock : Sign(Call(m), x) = 0 /\ Sign(MayCall(m), x) = 0
BY DEF Call, MayCall, StepRecord, Sign

LEMMA AwaitIs ==
    /\ AwaitCallbacks \in StepRecord /\ AwaitCallbacks.op = "await"
    /\ \A x \in Lock : Sign(AwaitCallbacks, x) = 0
BY DEF AwaitCallbacks, StepRecord, Sign, Lock

\* The steps from the n-th on are proper, and release the locks H.
Left(b, n, H) ==
    /\ \A i \in n..Len(b) :
        b[i].op = "acquire" =>
            /\ i + b[i].skip <= Len(b)
            /\ \A l \in Lock : ReleasesFrom(b, i, l) = ReleasesFrom(b, i + b[i].skip + 1, l)
    /\ \A i \in n..(Len(b) + 1), l \in Lock :
        /\ ReleasesFrom(b, i, l) >= 0
        /\ l \in Leaf /\ ReleasesFrom(b, i, l) # 0 =>
            i <= Len(b) /\ b[i].op = "release" /\ b[i].on = l
    /\ \A l \in Lock : ReleasesFrom(b, n, l) = (IF l \in H THEN 1 ELSE 0)

\* Places of steps, and sets of locks that are held.
Ends(b, end) == end = Len(b) + 1
Follows(b, n, next) == n \in 1..Len(b) /\ next = n + 1
Skips(b, n, k, after) == k \in Nat /\ n + k <= Len(b) /\ after = n + k + 1
Takes(H, l, G) == l \in Lock /\ l \notin H /\ H \cap Leaf = {} /\ G = H \cup {l}

\* A method, read backwards: its end,
LEMMA LeftAtEnd ==
    ASSUME NEW b \in Seq(StepRecord), NEW end, Ends(b, end)
    PROVE  Left(b, end, {})
<1>1. Len(b) \in Nat /\ \A l : ReleasesFrom(b, Len(b) + 1, l) = 0
    BY NothingLeft
<1> QED BY <1>1 DEF Left, Ends

\* a step before it, which is like the others,
LEMMA LeftBefore ==
    ASSUME NEW b \in Seq(StepRecord), NEW n \in 1..Len(b), NEW G, NEW H, Left(b, n + 1, G),
           \A l \in Lock : (IF l \in H THEN 1 ELSE 0) = (IF l \in G THEN 1 ELSE 0) + Sign(b[n], l),
           b[n].op = "acquire" =>
                /\ n + b[n].skip <= Len(b)
                /\ \A l \in Lock :
                    (IF l \in H THEN 1 ELSE 0) = ReleasesFrom(b, n + b[n].skip + 1, l),
           \A l \in Leaf \cap H : b[n].op = "release" /\ b[n].on = l
    PROVE  Left(b, n, H)
<1>1. Len(b) \in Nat /\ n \in Nat /\ n <= Len(b)
    OBVIOUS
<1>2. \A l \in Lock : ReleasesFrom(b, n, l) = (IF l \in H THEN 1 ELSE 0)
    BY OneStepMore DEF Left
<1>3. \A i \in n..Len(b) : i = n \/ i \in (n + 1)..Len(b)
    BY <1>1
<1>4. \A i \in n..(Len(b) + 1) : i = n \/ i \in (n + 1)..(Len(b) + 1)
    BY <1>1
<1>5. ASSUME NEW i \in n..Len(b), b[i].op = "acquire"
      PROVE  /\ i + b[i].skip <= Len(b)
             /\ \A l \in Lock : ReleasesFrom(b, i, l) = ReleasesFrom(b, i + b[i].skip + 1, l)
    BY <1>2, <1>3, <1>5 DEF Left
<1>6. ASSUME NEW i \in n..(Len(b) + 1), NEW l \in Lock
      PROVE  /\ ReleasesFrom(b, i, l) >= 0
             /\ l \in Leaf /\ ReleasesFrom(b, i, l) # 0 =>
                    i <= Len(b) /\ b[i].op = "release" /\ b[i].on = l
    <2>1. CASE i = n
        BY <1>1, <1>2, <2>1
    <2>2. CASE i \in (n + 1)..(Len(b) + 1)
        BY <2>2 DEF Left
    <2> QED BY <1>4, <2>1, <2>2
<1> QED BY <1>2, <1>5, <1>6 DEF Left

\* a call,
LEMMA LeftBeforeCall ==
    ASSUME NEW b \in Seq(StepRecord), NEW n, NEW next, Follows(b, n, next),
           NEW H, Left(b, next, H), H \cap Leaf = {},
           b[n] = AwaitCallbacks \/ \E m \in Method : b[n] = Call(m) \/ b[n] = MayCall(m)
    PROVE  Left(b, n, H)
<1>1. b[n].op # "acquire" /\ \A l \in Lock : Sign(b[n], l) = 0
    <2>1. CASE b[n] = AwaitCallbacks
        BY <2>1, AwaitIs
    <2>2. ASSUME NEW m \in Method, b[n] = Call(m) \/ b[n] = MayCall(m)
          PROVE  b[n].op # "acquire" /\ \A l \in Lock : Sign(b[n], l) = 0
        BY <2>2, CallIs
    <2> QED BY <2>1, <2>2
<1>2. \A l \in Lock : (IF l \in H THEN 1 ELSE 0) = (IF l \in H THEN 1 ELSE 0) + Sign(b[n], l)
    BY <1>1
<1> QED BY <1>1, <1>2, LeftBefore DEF Follows

\* a release,
LEMMA LeftBeforeRelease ==
    ASSUME NEW b \in Seq(StepRecord), NEW n, NEW next, Follows(b, n, next),
           NEW l, b[n] = Release(l), NEW H, NEW G, Takes(H, l, G), Left(b, next, H)
    PROVE  Left(b, n, G)
<1>1. /\ b[n].op = "release" /\ b[n].on = l
      /\ \A x \in Lock : Sign(b[n], x) = (IF x = l THEN 1 ELSE 0)
    BY ReleaseIs DEF Takes
<1>2. \A x \in Lock :
        (IF x \in G THEN 1 ELSE 0) = (IF x \in H THEN 1 ELSE 0) + Sign(b[n], x)
    BY <1>1 DEF Takes
<1>3. \A x \in Leaf \cap G : b[n].op = "release" /\ b[n].on = x
    BY <1>1 DEF Takes
<1> QED BY <1>1, <1>2, <1>3, LeftBefore DEF Follows

\* and the acquisition, with the region that it skips.
LEMMA LeftBeforeAcquire ==
    ASSUME NEW b \in Seq(StepRecord), NEW n, NEW next, Follows(b, n, next),
           NEW k, NEW after, Skips(b, n, k, after), NEW l, b[n] = Acquire(l, k),
           NEW H, NEW G, Takes(H, l, G), Left(b, next, G), Left(b, after, H)
    PROVE  Left(b, n, H)
<1>1. /\ b[n].op = "acquire" /\ b[n].skip = k
      /\ \A x \in Lock : Sign(b[n], x) = (IF x = l THEN -1 ELSE 0)
    <2>1. l \in Lock /\ k \in Nat
        BY DEF Takes, Skips
    <2> QED BY <2>1, AcquireIs
<1>2. \A x \in Lock :
        (IF x \in H THEN 1 ELSE 0) = (IF x \in G THEN 1 ELSE 0) + Sign(b[n], x)
    BY <1>1 DEF Takes
<1>3. \A x \in Lock : (IF x \in H THEN 1 ELSE 0) = ReleasesFrom(b, n + b[n].skip + 1, x)
    BY <1>1 DEF Left, Skips
<1> QED BY <1>1, <1>2, <1>3, LeftBefore DEF Follows, Skips, Takes

\* The sets of locks that a method holds.
LEMMA HeldSets ==
    /\ {} \cap Leaf = {} /\ {"tree"} \cap Leaf = {} /\ {"links"} \cap Leaf = {}
    /\ Takes({}, "tree", {"tree"}) /\ Takes({}, "roots", {"roots"})
    /\ Takes({}, "links", {"links"}) /\ Takes({}, "inner", {"inner"})
    /\ Takes({"links"}, "inner", {"links", "inner"})
BY DEF Takes, Lock, Leaf

LEMMA WholeIfLeft ==
    ASSUME NEW b \in Seq(StepRecord), Left(b, 1, {})
    PROVE  Whole(b)
BY DEF Left, Whole, Proper, Releases

LEMMA WatcherReportsIsWhole ==
    ASSUME NEW r \in Leaf, NEW m \in Method
    PROVE  Whole(WatcherReports(r, m))
<1> DEFINE b == WatcherReports(r, m)
<1>0. r \in Lock /\ Takes({}, r, {r})
    BY DEF Takes, Leaf, Lock
<1>1. /\ Acquire(r, 1) \in StepRecord /\ Release(r) \in StepRecord
      /\ MayCall(m) \in StepRecord
    BY <1>0, AcquireIs, CallIs, ReleaseIs DEF Lock, Method
<1>2. /\ b \in Seq(StepRecord) /\ Len(b) = 3
      /\ b[1] = Acquire(r, 1) /\ b[2] = Release(r) /\ b[3] = MayCall(m)
    BY <1>1 DEF WatcherReports
<1> HIDE DEF b
<1>3. /\ Ends(b, 4) /\ Follows(b, 1, 2) /\ Follows(b, 2, 3)
      /\ Follows(b, 3, 4) /\ Skips(b, 1, 1, 3)
    BY <1>2 DEF Ends, Follows, Skips
<1>4. Left(b, 4, {})
    BY <1>2, <1>3, LeftAtEnd
<1>5. Left(b, 3, {})
    BY <1>0, <1>2, <1>3, <1>4, HeldSets, LeftBeforeCall
<1>6. Left(b, 2, {r})
    BY <1>0, <1>2, <1>3, <1>5, HeldSets, LeftBeforeRelease
<1>7. Left(b, 1, {})
    BY <1>0, <1>2, <1>3, <1>5, <1>6, HeldSets, LeftBeforeAcquire
<1> QED BY <1>2, <1>7, WholeIfLeft DEF b

LEMMA HandleEventIsWhole == Whole(HandleEvent)
<1> DEFINE b == HandleEvent
<1>1. /\ Acquire("tree", 4) \in StepRecord /\ MayCall("removeLink") \in StepRecord
      /\ Release("tree") \in StepRecord /\ MayCall("addLink") \in StepRecord
    BY AcquireIs, CallIs, ReleaseIs DEF Lock, Method
<1>2. /\ b \in Seq(StepRecord) /\ Len(b) = 5
      /\ b[1] = Acquire("tree", 4) /\ b[2] = MayCall("removeLink") /\ b[3] = Release("tree")
      /\ b[4] = MayCall("addLink") /\ b[5] = MayCall("removeLink")
    BY <1>1 DEF HandleEvent
<1> HIDE DEF b
<1>3. /\ Ends(b, 6) /\ Follows(b, 1, 2) /\ Follows(b, 2, 3)
      /\ Follows(b, 3, 4) /\ Follows(b, 4, 5) /\ Follows(b, 5, 6)
      /\ Skips(b, 1, 4, 6)
    BY <1>2 DEF Ends, Follows, Skips
<1>4. Left(b, 6, {})
    BY <1>2, <1>3, LeftAtEnd
<1>5. Left(b, 5, {})
    BY <1>2, <1>3, <1>4, HeldSets, LeftBeforeCall DEF Method
<1>6. Left(b, 4, {})
    BY <1>2, <1>3, <1>5, HeldSets, LeftBeforeCall DEF Method
<1>7. Left(b, 3, {"tree"})
    BY <1>2, <1>3, <1>6, HeldSets, LeftBeforeRelease
<1>8. Left(b, 2, {"tree"})
    BY <1>2, <1>3, <1>7, HeldSets, LeftBeforeCall DEF Method
<1>9. Left(b, 1, {})
    BY <1>2, <1>3, <1>4, <1>8, HeldSets, LeftBeforeAcquire
<1> QED BY <1>2, <1>9, WholeIfLeft DEF b

LEMMA RegisterIsWhole == Whole(Register)
<1> DEFINE b == Register
<1>1. /\ Acquire("tree", 3) \in StepRecord /\ Call("mainWatcher") \in StepRecord
      /\ Release("tree") \in StepRecord /\ MayCall("addLink") \in StepRecord
    BY AcquireIs, CallIs, ReleaseIs DEF Lock, Method
<1>2. /\ b \in Seq(StepRecord) /\ Len(b) = 4
      /\ b[1] = Acquire("tree", 3) /\ b[2] = Call("mainWatcher") /\ b[3] = Release("tree")
      /\ b[4] = MayCall("addLink")
    BY <1>1 DEF Register
<1> HIDE DEF b
<1>3. /\ Ends(b, 5) /\ Follows(b, 1, 2) /\ Follows(b, 2, 3)
      /\ Follows(b, 3, 4) /\ Follows(b, 4, 5) /\ Skips(b, 1, 3, 5)
    BY <1>2 DEF Ends, Follows, Skips
<1>4. Left(b, 5, {})
    BY <1>2, <1>3, LeftAtEnd
<1>5. Left(b, 4, {})
    BY <1>2, <1>3, <1>4, HeldSets, LeftBeforeCall DEF Method
<1>6. Left(b, 3, {"tree"})
    BY <1>2, <1>3, <1>5, HeldSets, LeftBeforeRelease
<1>7. Left(b, 2, {"tree"})
    BY <1>2, <1>3, <1>6, HeldSets, LeftBeforeCall DEF Method
<1>8. Left(b, 1, {})
    BY <1>2, <1>3, <1>4, <1>7, HeldSets, LeftBeforeAcquire
<1> QED BY <1>2, <1>8, WholeIfLeft DEF b

LEMMA UnregisterIsWhole == Whole(Unregister)
<1> DEFINE b == Unregister
<1>1. /\ Acquire("tree", 1) \in StepRecord /\ Release("tree") \in StepRecord
      /\ Acquire("roots", 1) \in StepRecord /\ Release("roots") \in StepRecord
    BY AcquireIs, ReleaseIs DEF Lock, Method
<1>2. /\ b \in Seq(StepRecord) /\ Len(b) = 4
      /\ b[1] = Acquire("tree", 1) /\ b[2] = Release("tree") /\ b[3] = Acquire("roots", 1)
      /\ b[4] = Release("roots")
    BY <1>1 DEF Unregister
<1> HIDE DEF b
<1>3. /\ Ends(b, 5) /\ Follows(b, 1, 2) /\ Follows(b, 2, 3)
      /\ Follows(b, 3, 4) /\ Follows(b, 4, 5) /\ Skips(b, 1, 1, 3)
      /\ Skips(b, 3, 1, 5)
    BY <1>2 DEF Ends, Follows, Skips
<1>4. Left(b, 5, {})
    BY <1>2, <1>3, LeftAtEnd
<1>5. Left(b, 4, {"roots"})
    BY <1>2, <1>3, <1>4, HeldSets, LeftBeforeRelease
<1>6. Left(b, 3, {})
    BY <1>2, <1>3, <1>4, <1>5, HeldSets, LeftBeforeAcquire
<1>7. Left(b, 2, {"tree"})
    BY <1>2, <1>3, <1>6, HeldSets, LeftBeforeRelease
<1>8. Left(b, 1, {})
    BY <1>2, <1>3, <1>6, <1>7, HeldSets, LeftBeforeAcquire
<1> QED BY <1>2, <1>8, WholeIfLeft DEF b

LEMMA ListIsWhole == Whole(List)
<1> DEFINE b == List
<1>1. /\ Acquire("tree", 1) \in StepRecord /\ Release("tree") \in StepRecord
    BY AcquireIs, ReleaseIs DEF Lock, Method
<1>2. /\ b \in Seq(StepRecord) /\ Len(b) = 2
      /\ b[1] = Acquire("tree", 1) /\ b[2] = Release("tree")
    BY <1>1 DEF List
<1> HIDE DEF b
<1>3. /\ Ends(b, 3) /\ Follows(b, 1, 2) /\ Follows(b, 2, 3)
      /\ Skips(b, 1, 1, 3)
    BY <1>2 DEF Ends, Follows, Skips
<1>4. Left(b, 3, {})
    BY <1>2, <1>3, LeftAtEnd
<1>5. Left(b, 2, {"tree"})
    BY <1>2, <1>3, <1>4, HeldSets, LeftBeforeRelease
<1>6. Left(b, 1, {})
    BY <1>2, <1>3, <1>4, <1>5, HeldSets, LeftBeforeAcquire
<1> QED BY <1>2, <1>6, WholeIfLeft DEF b

LEMMA CloseIsWhole == Whole(Close)
<1> DEFINE b == Close
<1>1. /\ Acquire("roots", 1) \in StepRecord /\ Release("roots") \in StepRecord
      /\ Acquire("links", 1) \in StepRecord /\ Release("links") \in StepRecord
      /\ Acquire("inner", 1) \in StepRecord /\ Release("inner") \in StepRecord
      /\ Acquire("tree", 2) \in StepRecord /\ AwaitCallbacks \in StepRecord
      /\ Release("tree") \in StepRecord
    BY AcquireIs, AwaitIs, ReleaseIs DEF Lock, Method
<1>2. /\ b \in Seq(StepRecord) /\ Len(b) = 9
      /\ b[1] = Acquire("roots", 1) /\ b[2] = Release("roots") /\ b[3] = Acquire("links", 1)
      /\ b[4] = Release("links") /\ b[5] = Acquire("inner", 1) /\ b[6] = Release("inner")
      /\ b[7] = Acquire("tree", 2) /\ b[8] = AwaitCallbacks /\ b[9] = Release("tree")
    BY <1>1 DEF Close
<1> HIDE DEF b
<1>3. /\ Ends(b, 10) /\ Follows(b, 1, 2) /\ Follows(b, 2, 3)
      /\ Follows(b, 3, 4) /\ Follows(b, 4, 5) /\ Follows(b, 5, 6)
      /\ Follows(b, 6, 7) /\ Follows(b, 7, 8) /\ Follows(b, 8, 9)
      /\ Follows(b, 9, 10) /\ Skips(b, 1, 1, 3) /\ Skips(b, 3, 1, 5)
      /\ Skips(b, 5, 1, 7) /\ Skips(b, 7, 2, 10)
    BY <1>2 DEF Ends, Follows, Skips
<1>4. Left(b, 10, {})
    BY <1>2, <1>3, LeftAtEnd
<1>5. Left(b, 9, {"tree"})
    BY <1>2, <1>3, <1>4, HeldSets, LeftBeforeRelease
<1>6. Left(b, 8, {"tree"})
    BY <1>2, <1>3, <1>5, HeldSets, LeftBeforeCall
<1>7. Left(b, 7, {})
    BY <1>2, <1>3, <1>4, <1>6, HeldSets, LeftBeforeAcquire
<1>8. Left(b, 6, {"inner"})
    BY <1>2, <1>3, <1>7, HeldSets, LeftBeforeRelease
<1>9. Left(b, 5, {})
    BY <1>2, <1>3, <1>7, <1>8, HeldSets, LeftBeforeAcquire
<1>10. Left(b, 4, {"links"})
    BY <1>2, <1>3, <1>9, HeldSets, LeftBeforeRelease
<1>11. Left(b, 3, {})
    BY <1>2, <1>3, <1>9, <1>10, HeldSets, LeftBeforeAcquire
<1>12. Left(b, 2, {"roots"})
    BY <1>2, <1>3, <1>11, HeldSets, LeftBeforeRelease
<1>13. Left(b, 1, {})
    BY <1>2, <1>3, <1>11, <1>12, HeldSets, LeftBeforeAcquire
<1> QED BY <1>2, <1>13, WholeIfLeft DEF b

LEMMA AddLinkIsWhole == Whole(AddLink)
<1> DEFINE b == AddLink
<1>1. /\ Acquire("links", 2) \in StepRecord /\ MayCall("innerWatcher") \in StepRecord
      /\ Release("links") \in StepRecord
    BY AcquireIs, CallIs, ReleaseIs DEF Lock, Method
<1>2. /\ b \in Seq(StepRecord) /\ Len(b) = 3
      /\ b[1] = Acquire("links", 2) /\ b[2] = MayCall("innerWatcher") /\ b[3] = Release("links")
    BY <1>1 DEF AddLink
<1> HIDE DEF b
<1>3. /\ Ends(b, 4) /\ Follows(b, 1, 2) /\ Follows(b, 2, 3)
      /\ Follows(b, 3, 4) /\ Skips(b, 1, 2, 4)
    BY <1>2 DEF Ends, Follows, Skips
<1>4. Left(b, 4, {})
    BY <1>2, <1>3, LeftAtEnd
<1>5. Left(b, 3, {"links"})
    BY <1>2, <1>3, <1>4, HeldSets, LeftBeforeRelease
<1>6. Left(b, 2, {"links"})
    BY <1>2, <1>3, <1>5, HeldSets, LeftBeforeCall DEF Method
<1>7. Left(b, 1, {})
    BY <1>2, <1>3, <1>4, <1>6, HeldSets, LeftBeforeAcquire
<1> QED BY <1>2, <1>7, WholeIfLeft DEF b

LEMMA RemoveLinkIsWhole == Whole(RemoveLink)
<1> DEFINE b == RemoveLink
<1>1. /\ Acquire("links", 1) \in StepRecord /\ Release("links") \in StepRecord
    BY AcquireIs, ReleaseIs DEF Lock, Method
<1>2. /\ b \in Seq(StepRecord) /\ Len(b) = 2
      /\ b[1] = Acquire("links", 1) /\ b[2] = Release("links")
    BY <1>1 DEF RemoveLink
<1> HIDE DEF b
<1>3. /\ Ends(b, 3) /\ Follows(b, 1, 2) /\ Follows(b, 2, 3)
      /\ Skips(b, 1, 1, 3)
    BY <1>2 DEF Ends, Follows, Skips
<1>4. Left(b, 3, {})
    BY <1>2, <1>3, LeftAtEnd
<1>5. Left(b, 2, {"links"})
    BY <1>2, <1>3, <1>4, HeldSets, LeftBeforeRelease
<1>6. Left(b, 1, {})
    BY <1>2, <1>3, <1>4, <1>5, HeldSets, LeftBeforeAcquire
<1> QED BY <1>2, <1>6, WholeIfLeft DEF b

LEMMA LinkObserverIsWhole == Whole(LinkObserver)
<1> DEFINE b == LinkObserver
<1>1. /\ Acquire("links", 1) \in StepRecord /\ Release("links") \in StepRecord
      /\ MayCall("forgetTarget") \in StepRecord /\ MayCall("handleEvent") \in StepRecord
    BY AcquireIs, CallIs, ReleaseIs DEF Lock, Method
<1>2. /\ b \in Seq(StepRecord) /\ Len(b) = 4
      /\ b[1] = Acquire("links", 1) /\ b[2] = Release("links") /\ b[3] = MayCall("forgetTarget")
      /\ b[4] = MayCall("handleEvent")
    BY <1>1 DEF LinkObserver
<1> HIDE DEF b
<1>3. /\ Ends(b, 5) /\ Follows(b, 1, 2) /\ Follows(b, 2, 3)
      /\ Follows(b, 3, 4) /\ Follows(b, 4, 5) /\ Skips(b, 1, 1, 3)
    BY <1>2 DEF Ends, Follows, Skips
<1>4. Left(b, 5, {})
    BY <1>2, <1>3, LeftAtEnd
<1>5. Left(b, 4, {})
    BY <1>2, <1>3, <1>4, HeldSets, LeftBeforeCall DEF Method
<1>6. Left(b, 3, {})
    BY <1>2, <1>3, <1>5, HeldSets, LeftBeforeCall DEF Method
<1>7. Left(b, 2, {"links"})
    BY <1>2, <1>3, <1>6, HeldSets, LeftBeforeRelease
<1>8. Left(b, 1, {})
    BY <1>2, <1>3, <1>6, <1>7, HeldSets, LeftBeforeAcquire
<1> QED BY <1>2, <1>8, WholeIfLeft DEF b

LEMMA ForgetTargetIsWhole == Whole(ForgetTarget)
<1> DEFINE b == ForgetTarget
<1>1. /\ Acquire("links", 3) \in StepRecord /\ Acquire("inner", 1) \in StepRecord
      /\ Release("inner") \in StepRecord /\ Release("links") \in StepRecord
    BY AcquireIs, ReleaseIs DEF Lock, Method
<1>2. /\ b \in Seq(StepRecord) /\ Len(b) = 4
      /\ b[1] = Acquire("links", 3) /\ b[2] = Acquire("inner", 1) /\ b[3] = Release("inner")
      /\ b[4] = Release("links")
    BY <1>1 DEF ForgetTarget
<1> HIDE DEF b
<1>3. /\ Ends(b, 5) /\ Follows(b, 1, 2) /\ Follows(b, 2, 3)
      /\ Follows(b, 3, 4) /\ Follows(b, 4, 5) /\ Skips(b, 1, 3, 5)
      /\ Skips(b, 2, 1, 4)
    BY <1>2 DEF Ends, Follows, Skips
<1>4. Left(b, 5, {})
    BY <1>2, <1>3, LeftAtEnd
<1>5. Left(b, 4, {"links"})
    BY <1>2, <1>3, <1>4, HeldSets, LeftBeforeRelease
<1>6. Left(b, 3, {"links", "inner"})
    BY <1>2, <1>3, <1>5, HeldSets, LeftBeforeRelease
<1>7. Left(b, 2, {"links"})
    BY <1>2, <1>3, <1>5, <1>6, HeldSets, LeftBeforeAcquire
<1>8. Left(b, 1, {})
    BY <1>2, <1>3, <1>4, <1>7, HeldSets, LeftBeforeAcquire
<1> QED BY <1>2, <1>8, WholeIfLeft DEF b

\* Every method.
LEMMA BodyIsWhole == \A m \in Method : Whole(Body(m))
<1>1. "roots" \in Leaf /\ "inner" \in Leaf /\ {"handleEvent", "linkObserver"} \subseteq Method
    BY DEF Leaf, Method
<1>2. Whole(WatcherReports("roots", "handleEvent")) /\ Whole(WatcherReports("inner", "linkObserver"))
    BY <1>1, WatcherReportsIsWhole
<1> QED BY <1>2, HandleEventIsWhole, LinkObserverIsWhole, ForgetTargetIsWhole, AddLinkIsWhole,
           RemoveLinkIsWhole, RegisterIsWhole, UnregisterIsWhole, ListIsWhole, CloseIsWhole
        DEF Method, Body

\* What threads call when they have nothing to do.
LEMMA CallsAreMethods == \A t : Calls(t) \subseteq Method
BY LocksAssumption DEF Calls, UserCalls, Method
-----------------------------------------------------------------------------
(* The invariant *)

\* No steps, no locks.
LEMMA NoSteps == Proper(<<>>) /\ \A l \in Lock : Releases(<<>>, l) = 0
<1>1. <<>> \in Seq(StepRecord) /\ Len(<<>>) = 0 /\ Ends(<<>>, 1)
    BY DEF Ends
<1>2. Left(<<>>, 1, {})
    BY <1>1, LeftAtEnd
<1> QED BY <1>1, <1>2, WholeIfLeft DEF Whole

\* After its first step, a thread has proper steps left.
LEMMA AfterFirst ==
    ASSUME NEW s, Proper(s), s # <<>>
    PROVE  /\ Head(s) = s[1] /\ s[1] \in StepRecord /\ Len(s) \in Nat /\ 1 \in 1..Len(s)
           /\ Proper(Tail(s))
           /\ \A l \in Lock : /\ Releases(Tail(s), l) = Releases(s, l) - Sign(Head(s), l)
                              /\ Releases(Tail(s), l) >= 0 /\ Releases(Tail(s), l) \in Int
<1>1. s \in Seq(StepRecord) /\ Len(s) \in Nat /\ Len(s) # 0
    BY DEF Proper
<1>2. Head(s) = s[1] /\ s[1] \in StepRecord /\ 1 \in 1..Len(s)
    BY <1>1
<1>3. Tail(s) = SubSeq(s, 1 + 1, Len(s)) /\ 1 \in 0..Len(s)
    BY <1>1, TailIsSubSeq
<1>4. Proper(Tail(s)) /\ \A l \in Lock : Releases(Tail(s), l) = ReleasesFrom(s, 1 + 1, l)
    BY <1>3, RestIsProper
<1>5. \A l \in Lock : ReleasesFrom(s, 1, l) = ReleasesFrom(s, 1 + 1, l) + Sign(s[1], l)
    BY <1>1, <1>2, OneStepMore
<1>6. \A l \in Lock : Sign(s[1], l) \in Int
    BY DEF Sign
<1>7. \A l \in Lock : ReleasesFrom(s, 1 + 1, l) \in Int
    BY <1>1, ReleasesInt
<1>8. \A l \in Lock : Releases(Tail(s), l) >= 0
    <2>1. 1 \in 1..(Len(Tail(s)) + 1)
        <3>1. Len(Tail(s)) \in Nat
            BY <1>4 DEF Proper
        <3> QED BY <3>1
    <2> QED BY <1>4, <2>1 DEF Proper, Releases
<1> QED BY <1>1, <1>2, <1>4, <1>5, <1>6, <1>7, <1>8 DEF Releases

\* A thread that is about to call holds no lock of Leaf.
LEMMA LeafIsFree ==
    ASSUME NEW s, Proper(s), NEW l \in Leaf, Releases(s, l) # 0
    PROVE  s # <<>> /\ Head(s).op = "release" /\ Head(s).on = l
<1>1. s \in Seq(StepRecord) /\ Len(s) \in Nat /\ l \in Lock /\ 1 \in 1..(Len(s) + 1)
    BY DEF Proper, Leaf, Lock
<1>2. 1 <= Len(s) /\ s[1].op = "release" /\ s[1].on = l
    BY <1>1 DEF Proper, Releases
<1> QED BY <1>1, <1>2

\* A thread that holds a lock keeps the others from it.
Exclusive == \A t \in Thread, l \in Lock : l \in Holds(t) => Free(t, l)

\* One thread's steps and locks.
InStep(t) == Proper(program[t]) /\ \A l \in Lock : held[t][l] = Releases(program[t], l)

LEMMA LocksInvIs ==
    LocksInv <=> /\ DOMAIN program = Thread /\ held \in [Thread -> [Lock -> Nat]]
                 /\ closed \in BOOLEAN
                 /\ (\A t \in Thread : InStep(t)) /\ Exclusive
BY DEF LocksInv, TypeOK, InStep, Exclusive

LEMMA LocksInit == Init => LocksInv
<1> SUFFICES ASSUME Init PROVE LocksInv
    OBVIOUS
<1>1. /\ DOMAIN program = Thread /\ held \in [Thread -> [Lock -> Nat]] /\ closed \in BOOLEAN
      /\ \A t \in Thread : program[t] = <<>> /\ \A l \in Lock : held[t][l] = 0
    BY DEF Init
<1>2. \A t \in Thread : InStep(t)
    BY <1>1, NoSteps DEF InStep
<1>3. Exclusive
    BY <1>1 DEF Exclusive, Holds
<1> QED BY <1>1, <1>2, <1>3, LocksInvIs

\* A thread goes on with other steps and takes no lock.
LEMMA StepsReplaced ==
    ASSUME LocksInv, NEW t \in Thread, NEW s, program' = [program EXCEPT ![t] = s],
           UNCHANGED held, closed' \in BOOLEAN,
           Proper(s), \A l \in Lock : Releases(s, l) = Releases(program[t], l)
    PROVE  LocksInv'
<1>1. /\ DOMAIN program = Thread /\ held \in [Thread -> [Lock -> Nat]]
      /\ (\A u \in Thread : InStep(u)) /\ Exclusive
    BY LocksInvIs
<1>2. /\ DOMAIN program' = Thread
      /\ \A u \in Thread : program'[u] = (IF u = t THEN s ELSE program[u])
    BY <1>1
<1>3. ASSUME NEW u \in Thread
      PROVE  Proper(program'[u]) /\ \A l \in Lock : held'[u][l] = Releases(program'[u], l)
    BY <1>1, <1>2 DEF InStep
<1>4. \A u \in Thread, l \in Lock : (l \in Holds(u) => Free(u, l))'
    BY <1>1 DEF Exclusive, Holds, Free
<1> QED BY <1>1, <1>2, <1>3, <1>4 DEF LocksInv, TypeOK

\* A method is called when nothing is to be done,
LEMMA StartKeeps ==
    ASSUME LocksInv, NEW t \in Thread, NEW m \in Calls(t), Start(t, m)
    PROVE  LocksInv'
<1>1. program[t] = <<>> /\ program' = [program EXCEPT ![t] = Body(m)] /\ UNCHANGED held
    BY DEF Start
<1>2. Whole(Body(m))
    BY BodyIsWhole, CallsAreMethods
<1>3. closed' \in BOOLEAN
    BY LocksInvIs DEF Start
<1>4. \A l \in Lock : Releases(Body(m), l) = Releases(program[t], l)
    BY <1>1, <1>2, NoSteps DEF Whole
<1> QED BY <1>1, <1>2, <1>3, <1>4, StepsReplaced DEF Whole

\* or by another one,
LEMMA EnterKeeps ==
    ASSUME LocksInv, NEW t \in Thread, Enter(t)
    PROVE  LocksInv'
<1> DEFINE s == program[t]
           m == Next1(t).on
<1>1. /\ s # <<>> /\ Head(s).op \in {"call", "mayCall"} /\ m = Head(s).on
      /\ program' = [program EXCEPT ![t] = Body(m) \o Tail(s)]
      /\ UNCHANGED <<held, closed>>
    BY DEF Enter, Next1
<1>2. Proper(s) /\ closed \in BOOLEAN
    BY LocksInvIs DEF InStep
<1>3. Head(s) = s[1] /\ s[1] \in StepRecord /\ Proper(Tail(s))
    BY <1>1, <1>2, AfterFirst
<1>4. m \in Method /\ m \notin Lock
    <2>1. s[1].op \in {"call", "mayCall"}
        BY <1>1, <1>3
    <2>2. s[1].on \in Method
        BY <1>3, <2>1 DEF StepRecord
    <2> QED BY <1>1, <1>3, <2>2 DEF Method, Lock
<1>5. \A l \in Lock : Releases(Tail(s), l) = Releases(s, l)
    <2>1. \A l \in Lock : Sign(Head(s), l) = 0
        BY <1>1, <1>4 DEF Sign
    <2>2. \A l \in Lock : Releases(s, l) \in Int
        <3>1. s \in Seq(StepRecord)
            BY <1>2 DEF Proper
        <3> QED BY <3>1, ReleasesInt DEF Releases
    <2> QED BY <1>1, <1>2, <2>1, <2>2, AfterFirst
<1>6. \A l \in Leaf : Releases(Tail(s), l) = 0
    <2>1. \A l \in Leaf : Releases(s, l) = 0
        BY <1>1, <1>2, LeafIsFree
    <2> QED BY <1>5, <2>1 DEF Leaf, Lock
<1>7. Proper(Body(m)) /\ \A l \in Lock : Releases(Body(m), l) = 0
    BY <1>4, BodyIsWhole DEF Whole
<1>8. /\ Proper(Body(m) \o Tail(s))
      /\ \A l \in Lock : Releases(Body(m) \o Tail(s), l) = Releases(Tail(s), l)
    BY <1>3, <1>6, <1>7, JoinedIsProper
<1> QED BY <1>1, <1>2, <1>5, <1>8, StepsReplaced

\* or not called, and close has waited;
LEMMA PassKeeps ==
    ASSUME LocksInv, NEW t \in Thread, PassBy(t) \/ Terminated(t)
    PROVE  LocksInv'
<1> DEFINE s == program[t]
<1>1. /\ s # <<>> /\ Head(s).op \in {"mayCall", "await"}
      /\ program' = [program EXCEPT ![t] = Tail(s)]
      /\ UNCHANGED <<held, closed>>
    BY DEF PassBy, Terminated, Next1
<1>2. Proper(s) /\ closed \in BOOLEAN
    BY LocksInvIs DEF InStep
<1>3. \A l \in Lock : Releases(Tail(s), l) = Releases(s, l)
    <2>1. \A l \in Lock : Sign(Head(s), l) = 0
        BY <1>1 DEF Sign
    <2>2. \A l \in Lock : Releases(s, l) \in Int
        <3>1. s \in Seq(StepRecord)
            BY <1>2 DEF Proper
        <3> QED BY <3>1, ReleasesInt DEF Releases
    <2> QED BY <1>1, <1>2, <2>1, <2>2, AfterFirst
<1>4. Proper(Tail(s))
    BY <1>1, <1>2, AfterFirst
<1> QED BY <1>1, <1>2, <1>3, <1>4, StepsReplaced

\* and what was waited for too long is skipped.
LEMMA TimeOutKeeps ==
    ASSUME LocksInv, NEW t \in Thread, TimeOut(t)
    PROVE  LocksInv'
<1> DEFINE s == program[t]
           d == s[1].skip + 1
<1>1. /\ s # <<>> /\ Head(s).op \in {"acquire", "await"}
      /\ program' = [program EXCEPT ![t] = Skip(s)]
      /\ UNCHANGED <<held, closed>>
    BY DEF TimeOut, WaitsALimitedTime, Next1
<1>2. Proper(s) /\ closed \in BOOLEAN
    BY LocksInvIs DEF InStep
<1>3. Head(s) = s[1] /\ s[1] \in StepRecord /\ 1 \in 1..Len(s) /\ Len(s) \in Nat
    BY <1>1, <1>2, AfterFirst
<1>4. s[1].skip \in Nat
    BY <1>3 DEF StepRecord
<1>5. /\ d \in 0..Len(s)
      /\ \A l \in Lock : ReleasesFrom(s, d + 1, l) = ReleasesFrom(s, 1, l)
    <2>1. CASE s[1].op = "acquire"
        <3>1. /\ 1 + s[1].skip <= Len(s)
              /\ \A l \in Lock : ReleasesFrom(s, 1, l) = ReleasesFrom(s, 1 + s[1].skip + 1, l)
            BY <1>2, <1>3, <2>1 DEF Proper
        <3>2. d + 1 = 1 + s[1].skip + 1 /\ d = 1 + s[1].skip
            BY <1>4
        <3> QED BY <1>3, <1>4, <3>1, <3>2
    <2>2. CASE s[1].op = "await"
        <3>1. s[1].skip = 0 /\ s[1].on = "callbacks"
            BY <1>3, <2>2 DEF StepRecord
        <3>2. \A l \in Lock : Sign(s[1], l) = 0
            BY <3>1 DEF Sign, Lock
        <3>3. s \in Seq(StepRecord) /\ d = 1
            BY <1>2, <3>1 DEF Proper
        <3>4. \A l \in Lock : ReleasesFrom(s, 1 + 1, l) \in Int
            BY <3>3, ReleasesInt
        <3>5. \A l \in Lock : ReleasesFrom(s, 1, l) = ReleasesFrom(s, 1 + 1, l) + Sign(s[1], l)
            BY <1>3, <3>3, OneStepMore
        <3> QED BY <1>3, <3>2, <3>3, <3>4, <3>5
    <2> QED BY <1>1, <1>3, <2>1, <2>2
<1>6. Skip(s) = SubSeq(s, d + 1, Len(s))
    <2>1. s[1].skip + 2 = d + 1
        BY <1>4
    <2> QED BY <1>3, <2>1 DEF Skip
<1>7. /\ Proper(Skip(s))
      /\ \A l \in Lock : Releases(Skip(s), l) = Releases(s, l)
    BY <1>2, <1>5, <1>6, RestIsProper DEF Releases
<1> QED BY <1>1, <1>2, <1>7, StepsReplaced

\* tryLock succeeds for a lock that no other thread holds,
LEMMA GetKeeps ==
    ASSUME LocksInv, NEW t \in Thread, Get(t)
    PROVE  LocksInv'
<1> DEFINE s == program[t]
           x == Next1(t).on
<1>1. /\ s # <<>> /\ Head(s).op = "acquire" /\ x = Head(s).on /\ Free(t, x)
      /\ program' = [program EXCEPT ![t] = Tail(s)]
      /\ held' = [held EXCEPT ![t][x] = @ + 1] /\ UNCHANGED closed
    BY DEF Get, Next1
<1>2. /\ DOMAIN program = Thread /\ held \in [Thread -> [Lock -> Nat]] /\ closed \in BOOLEAN
      /\ (\A u \in Thread : InStep(u)) /\ Exclusive
    BY LocksInvIs
<1>3. Proper(s) /\ \A l \in Lock : held[t][l] = Releases(s, l)
    BY <1>2 DEF InStep
<1>4. Head(s) = s[1] /\ s[1] \in StepRecord
    BY <1>1, <1>3, AfterFirst
<1>5. x \in Lock
    <2>1. s[1].op = "acquire"
        BY <1>1, <1>4
    <2>2. s[1].on \in Lock
        BY <1>4, <2>1 DEF StepRecord
    <2> QED BY <1>1, <1>4, <2>2
<1> HIDE DEF x
<1>6. /\ held' \in [Thread -> [Lock -> Nat]]
      /\ \A u \in Thread, l \in Lock :
            held'[u][l] = (IF u = t /\ l = x THEN held[u][l] + 1 ELSE held[u][l])
    BY <1>1, <1>2, <1>5
<1>7. /\ DOMAIN program' = Thread
      /\ \A u \in Thread : program'[u] = (IF u = t THEN Tail(s) ELSE program[u])
    BY <1>1, <1>2
<1>8. /\ Proper(Tail(s))
      /\ \A l \in Lock : held'[t][l] = Releases(Tail(s), l)
    <2>1. \A l \in Lock : Sign(Head(s), l) = (IF l = x THEN -1 ELSE 0)
        BY <1>1 DEF Sign
    <2>2. /\ Proper(Tail(s))
          /\ \A l \in Lock : Releases(Tail(s), l) = Releases(s, l) - Sign(Head(s), l)
        BY <1>1, <1>3, AfterFirst
    <2>3. \A l \in Lock : held[t][l] \in Nat
        BY <1>2
    <2>4. \A l \in Lock : held'[t][l] = (IF l = x THEN held[t][l] + 1 ELSE held[t][l])
        BY <1>6
    <2> QED BY <1>3, <2>1, <2>2, <2>3, <2>4
<1>9. ASSUME NEW u \in Thread
      PROVE  Proper(program'[u]) /\ \A l \in Lock : held'[u][l] = Releases(program'[u], l)
    <2>1. CASE u = t
        BY <1>7, <1>8, <2>1
    <2>2. CASE u # t
        BY <1>2, <1>6, <1>7, <2>2 DEF InStep
    <2> QED BY <2>1, <2>2
<1>10. ASSUME NEW u \in Thread, NEW l \in Lock, NEW v \in Thread \ {u}, held'[u][l] > 0, held'[v][l] > 0
       PROVE  FALSE
    <2>1. ~(held[u][l] > 0 /\ held[v][l] > 0)
        BY <1>2 DEF Exclusive, Free, Holds
    <2>2. l = x /\ (u = t \/ v = t)
        BY <1>6, <1>10, <2>1
    <2>3. \A w \in Thread \ {t} : ~(held[w][x] > 0)
        BY <1>1, <1>5 DEF Free, Holds
    <2> QED BY <1>6, <1>10, <2>2, <2>3
<1>11. \A u \in Thread, l \in Lock : (l \in Holds(u) => Free(u, l))'
    BY <1>10 DEF Holds, Free
<1> QED BY <1>1, <1>2, <1>6, <1>7, <1>9, <1>11 DEF LocksInv, TypeOK

\* and unlock releases what the thread has got.
LEMMA UnlockKeeps ==
    ASSUME LocksInv, NEW t \in Thread, Unlock(t)
    PROVE  LocksInv'
<1> DEFINE s == program[t]
           x == Next1(t).on
<1>1. /\ s # <<>> /\ Head(s).op = "release" /\ x = Head(s).on
      /\ program' = [program EXCEPT ![t] = Tail(s)]
      /\ held' = [held EXCEPT ![t][x] = @ - 1] /\ UNCHANGED closed
    BY DEF Unlock, Next1
<1>2. /\ DOMAIN program = Thread /\ held \in [Thread -> [Lock -> Nat]] /\ closed \in BOOLEAN
      /\ (\A u \in Thread : InStep(u)) /\ Exclusive
    BY LocksInvIs
<1>3. Proper(s) /\ \A l \in Lock : held[t][l] = Releases(s, l)
    BY <1>2 DEF InStep
<1>4. Head(s) = s[1] /\ s[1] \in StepRecord
    BY <1>1, <1>3, AfterFirst
<1>5. x \in Lock
    <2>1. s[1].op = "release"
        BY <1>1, <1>4
    <2>2. s[1].on \in Lock
        BY <1>4, <2>1 DEF StepRecord
    <2> QED BY <1>1, <1>4, <2>2
<1>6. /\ Proper(Tail(s))
      /\ \A l \in Lock : /\ Releases(Tail(s), l) = Releases(s, l) - Sign(Head(s), l)
                         /\ Releases(Tail(s), l) >= 0
    BY <1>1, <1>3, AfterFirst
<1>7. \A l \in Lock : Sign(Head(s), l) = (IF l = x THEN 1 ELSE 0)
    BY <1>1 DEF Sign
<1> HIDE DEF x
<1>8. held[t][x] \in Nat /\ held[t][x] - 1 \in Nat
    <2>1. held[t][x] \in Nat
        BY <1>2, <1>5
    <2>2. held[t][x] - 1 >= 0
        BY <1>3, <1>5, <1>6, <1>7
    <2> QED BY <2>1, <2>2
<1>9. /\ held' \in [Thread -> [Lock -> Nat]]
      /\ \A u \in Thread, l \in Lock :
            held'[u][l] = (IF u = t /\ l = x THEN held[u][l] - 1 ELSE held[u][l])
    BY <1>1, <1>2, <1>5, <1>8
<1>10. /\ DOMAIN program' = Thread
       /\ \A u \in Thread : program'[u] = (IF u = t THEN Tail(s) ELSE program[u])
    BY <1>1, <1>2
<1>11. \A l \in Lock : held'[t][l] = Releases(Tail(s), l)
    <2>1. \A l \in Lock : held[t][l] \in Nat
        BY <1>2
    <2>2. \A l \in Lock : held'[t][l] = (IF l = x THEN held[t][l] - 1 ELSE held[t][l])
        BY <1>9
    <2> QED BY <1>3, <1>6, <1>7, <2>1, <2>2
<1>12. ASSUME NEW u \in Thread
       PROVE  Proper(program'[u]) /\ \A l \in Lock : held'[u][l] = Releases(program'[u], l)
    <2>1. CASE u = t
        BY <1>6, <1>10, <1>11, <2>1
    <2>2. CASE u # t
        BY <1>2, <1>9, <1>10, <2>2 DEF InStep
    <2> QED BY <2>1, <2>2
<1>13. \A u \in Thread, l \in Lock : held'[u][l] > 0 => held[u][l] > 0
    BY <1>2, <1>9
<1>14. \A u \in Thread, l \in Lock : (l \in Holds(u) => Free(u, l))'
    BY <1>2, <1>13 DEF Exclusive, Holds, Free
<1> QED BY <1>1, <1>2, <1>9, <1>10, <1>12, <1>14 DEF LocksInv, TypeOK

LEMMA LocksStep == LocksInv /\ [Next]_vars => LocksInv'
<1> SUFFICES ASSUME LocksInv, [Next]_vars PROVE LocksInv'
    OBVIOUS
<1>1. CASE UNCHANGED vars
    BY <1>1 DEF vars, LocksInv, TypeOK, Holds, Free
<1>2. ASSUME NEW t \in Thread, Step(t)
      PROVE  LocksInv'
    BY <1>2, GetKeeps, UnlockKeeps, EnterKeeps, PassKeeps, TimeOutKeeps DEF Step
<1>3. ASSUME NEW t \in Thread, NEW m \in Calls(t), Start(t, m)
      PROVE  LocksInv'
    BY <1>3, StartKeeps
<1> QED BY <1>1, <1>2, <1>3 DEF Next

LEMMA LocksInvariant == Spec => []LocksInv
BY LocksInit, LocksStep, PTL DEF Spec
-----------------------------------------------------------------------------
\* Whatever is called under a lock, skipped after a minute, or interrupted by close, a
\* thread releases each lock as often as it got it, and no two threads hold the same
\* (Lockable.java; the finally blocks of the methods that lock).
THEOREM LocksExclude == Spec => []TypeOK
<1>1. LocksInv => TypeOK
    BY DEF LocksInv
<1> QED BY <1>1, LocksInvariant, PTL

\* A thread of a deadlock, unless it waits in close, waits for the tree or for the links,
\* and holds neither of the two others.
LEMMA WaitsForTreeOrLinks ==
    ASSUME LocksInv, NEW t \in Thread, NEW u \in Thread, NEW v \in Thread,
           WaitsFor(t, u), WaitsFor(u, v), ~Awaits(t), ~Awaits(u)
    PROVE  \E l \in {"tree", "links"} :
                Wants(t) = {l} /\ l \in Holds(u) /\ l \notin Wants(u)
<1>1. PICK l : l \in Wants(t) /\ l \in Holds(u)
    BY DEF WaitsFor
<1>2. Wants(t) = {l} /\ l \in Lock /\ held[u][l] > 0
    BY <1>1 DEF Wants, Holds
<1>3. Wants(u) # {} /\ program[u] # <<>> /\ Next1(u).op = "acquire"
    BY DEF WaitsFor, Wants
<1>4. l \notin Leaf
    <2>1. Proper(program[u]) /\ Releases(program[u], l) # 0
        BY <1>2, LocksInvIs DEF InStep
    <2> QED BY <1>3, <2>1, LeafIsFree DEF Next1
<1>5. l \notin Wants(u)
    <2>1. PICK x : x \in Wants(u) /\ x \in Holds(v) /\ u # v
        BY DEF WaitsFor
    <2>2. Wants(u) = {x} /\ x \in Lock
        BY <2>1 DEF Wants, Holds
    <2>3. x \notin Holds(u)
        BY <2>1, <2>2, LocksInvIs DEF Exclusive, Free
    <2> QED BY <1>1, <2>2, <2>3
<1> QED BY <1>1, <1>2, <1>4, <1>5 DEF Lock, Leaf

\* Of any set of threads, finite or not, that all wait for one another two have reversed
\* the tree and the links, or one waits in close for a callback
\* (SymlinkWatcher.java:206; FileCacheDirectoryTree.java:416 and Executor.java:89).
THEOREM OnlyLinksReverse == Spec => []OnlyLinksDeadlock
<1>1. LocksInv => OnlyLinksDeadlock
    <2> SUFFICES ASSUME LocksInv, NEW S \in SUBSET Thread, Deadlock(S), \A t \in S : ~Awaits(t)
                 PROVE  \E t, u \in S : /\ "links" \in Holds(t) /\ "tree" \in Wants(t)
                                        /\ "tree" \in Holds(u) /\ "links" \in Wants(u)
        BY Zenon DEF OnlyLinksDeadlock
    <2>1. S # {} /\ \A t \in S : \E u \in S : WaitsFor(t, u)
        BY DEF Deadlock
    <2>2. PICK t \in S : TRUE
        BY <2>1
    <2>3. PICK u \in S : WaitsFor(t, u)
        BY <2>1
    <2>4. PICK v \in S : WaitsFor(u, v)
        BY <2>1
    <2>5. PICK w \in S : WaitsFor(v, w)
        BY <2>1
    <2>6. PICK x \in S : WaitsFor(w, x)
        BY <2>1
    <2>7. PICK l \in {"tree", "links"} : Wants(t) = {l} /\ l \in Holds(u) /\ l \notin Wants(u)
        BY <2>3, <2>4, WaitsForTreeOrLinks
    <2>8. PICK m \in {"tree", "links"} : Wants(u) = {m} /\ m \in Holds(v) /\ m \notin Wants(v)
        BY <2>4, <2>5, WaitsForTreeOrLinks
    <2>9. PICK n \in {"tree", "links"} : Wants(v) = {n} /\ n \in Holds(w) /\ n \notin Wants(w)
        BY <2>5, <2>6, WaitsForTreeOrLinks
    <2>10. l # m /\ n # m
        BY <2>7, <2>8, <2>9
    <2>11. CASE l = "links" /\ m = "tree" /\ n = "links"
        BY <2>7, <2>8, <2>9, <2>11
    <2>12. CASE l = "tree" /\ m = "links" /\ n = "tree"
        BY <2>7, <2>8, <2>9, <2>12
    <2> QED BY <2>10, <2>11, <2>12
<1> QED BY <1>1, LocksInvariant, PTL
=============================================================================
