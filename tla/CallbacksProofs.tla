------------------------------ MODULE CallbacksProofs ------------------------------
(***************************************************************************)
(* The properties of Executor and of Callbacks.  First the executor on its *)
(* own, for every set of tasks: what stands in its queues, what still runs *)
(* after close, and that it implements TaskPool.  Then what it promises to *)
(* the threads that hand it callbacks, for every number of events, threads *)
(* and observers: an observer hears of the events in their order while the *)
(* heap is not crowded, of none of them twice, and after it was removed    *)
(* but once more.                                                          *)
(***************************************************************************)
EXTENDS Callbacks, SequenceTheorems, FiniteSetTheorems, TLAPS

-----------------------------------------------------------------------------
(* The executor.  Sequences without repetition *)

\* No element is there twice.
Once(s) == \A i, j \in 1..Len(s) : s[i] = s[j] => i = j

\* The elements of a sequence, by their places.
LEMMA Elements ==
    ASSUME NEW S, NEW s \in Seq(S)
    PROVE  /\ \A x : x \in ToSet(s) <=> \E i \in 1..Len(s) : s[i] = x
           /\ Len(s) \in Nat
           /\ s = <<>> <=> Len(s) = 0
BY DEF ToSet

\* A task is appended that is not there (LinkedBlockingQueue.offer).
LEMMA OnceAppended ==
    ASSUME NEW S, NEW s \in Seq(S), NEW x \in S
    PROVE  /\ Append(s, x) \in Seq(S)
           /\ ToSet(Append(s, x)) = ToSet(s) \cup {x}
           /\ Once(s) /\ x \notin ToSet(s) => Once(Append(s, x))
           /\ s # <<>> => Append(s, x) # <<>> /\ Head(Append(s, x)) = Head(s)
<1>1. Append(s, x) \in Seq(S) /\ Len(Append(s, x)) = Len(s) + 1 /\ Len(s) \in Nat
    OBVIOUS
<1>2. \A i \in 1..Len(s) : Append(s, x)[i] = s[i]
    OBVIOUS
<1>3. Append(s, x)[Len(s) + 1] = x
    OBVIOUS
<1>4. ToSet(Append(s, x)) = ToSet(s) \cup {x}
    <2>1. \A y : y \in ToSet(s) <=> \E i \in 1..Len(s) : s[i] = y
        BY Elements
    <2>2. \A y : y \in ToSet(Append(s, x)) <=> \E i \in 1..Len(Append(s, x)) : Append(s, x)[i] = y
        BY <1>1, Elements, Zenon
    <2>3. ASSUME NEW y \in ToSet(s) PROVE y \in ToSet(Append(s, x))
        <3>1. PICK i \in 1..Len(s) : s[i] = y
            BY <2>1
        <3>2. i \in 1..Len(Append(s, x))
            BY <1>1
        <3> QED BY <1>2, <2>2, <3>1, <3>2
    <2>4. x \in ToSet(Append(s, x))
        BY <1>1, <1>3, <2>2
    <2>5. ASSUME NEW y \in ToSet(Append(s, x)) PROVE y \in ToSet(s) \cup {x}
        BY <1>1, <1>2, <1>3, <2>1, <2>2
    <2> QED BY <2>3, <2>4, <2>5
<1>5. Once(s) /\ x \notin ToSet(s) => Once(Append(s, x))
    BY <1>1, <1>2, <1>3, Elements DEF Once
<1> QED BY <1>1, <1>2, <1>4, <1>5

\* The first is taken away (LinkedBlockingQueue.take).
LEMMA OnceTail ==
    ASSUME NEW S, NEW s \in Seq(S), s # <<>>
    PROVE  /\ Head(s) \in S /\ Tail(s) \in Seq(S)
           /\ ToSet(s) = ToSet(Tail(s)) \cup {Head(s)}
           /\ Once(s) => Once(Tail(s)) /\ Head(s) \notin ToSet(Tail(s))
<1>1. /\ Len(s) \in Nat \ {0} /\ Len(Tail(s)) = Len(s) - 1
      /\ Head(s) = s[1] /\ s[1] \in S /\ Tail(s) \in Seq(S)
    OBVIOUS
<1>2. \A i \in 1..Len(s) - 1 : Tail(s)[i] = s[i + 1]
    OBVIOUS
<1>3. ToSet(s) = ToSet(Tail(s)) \cup {Head(s)}
    <2>1. ASSUME NEW i \in 1..Len(s) PROVE s[i] \in ToSet(Tail(s)) \cup {Head(s)}
        <3>1. CASE i = 1
            BY <1>1, <3>1
        <3>2. CASE i # 1
            <4>1. i - 1 \in 1..Len(Tail(s)) /\ Tail(s)[i - 1] = s[i]
                BY <1>1, <1>2, <3>2
            <4> QED BY <1>1, <4>1, Elements
        <3> QED BY <3>1, <3>2
    <2>2. ASSUME NEW i \in 1..Len(Tail(s)) PROVE Tail(s)[i] \in ToSet(s)
        BY <1>1, <1>2, Elements
    <2>3. Head(s) \in ToSet(s)
        BY <1>1, Elements
    <2> QED BY <1>1, <2>1, <2>2, <2>3, Elements
<1>4. ASSUME Once(s) PROVE Once(Tail(s)) /\ Head(s) \notin ToSet(Tail(s))
    <2>1. Once(Tail(s))
        BY <1>1, <1>2, <1>4 DEF Once
    <2>2. \A i \in 1..Len(Tail(s)) : Tail(s)[i] # Head(s)
        BY <1>1, <1>2, <1>4 DEF Once
    <2> QED BY <1>1, <2>1, <2>2, Elements
<1> QED BY <1>1, <1>3, <1>4

\* Two sequences that have nothing in common are joined (drainRunnables).
LEMMA OnceJoined ==
    ASSUME NEW S, NEW s \in Seq(S), NEW t \in Seq(S)
    PROVE  /\ s \o t \in Seq(S)
           /\ ToSet(s \o t) = ToSet(s) \cup ToSet(t)
           /\ Once(s) /\ Once(t) /\ ToSet(s) \cap ToSet(t) = {} => Once(s \o t)
           /\ s # <<>> => s \o t # <<>> /\ Head(s \o t) = Head(s)
<1>1. /\ Len(s) \in Nat /\ Len(t) \in Nat /\ s \o t \in Seq(S)
      /\ Len(s \o t) = Len(s) + Len(t)
    OBVIOUS
<1>2. \A i \in 1..Len(s) : (s \o t)[i] = s[i]
    OBVIOUS
<1>3. \A i \in Len(s) + 1 .. Len(s) + Len(t) : (s \o t)[i] = t[i - Len(s)]
    OBVIOUS
<1>4. ToSet(s \o t) = ToSet(s) \cup ToSet(t)
    <2>1. ASSUME NEW i \in 1..Len(s \o t) PROVE (s \o t)[i] \in ToSet(s) \cup ToSet(t)
        <3>1. CASE i <= Len(s)
            BY <1>1, <1>2, <3>1, Elements
        <3>2. CASE i > Len(s)
            <4>1. i - Len(s) \in 1..Len(t) /\ (s \o t)[i] = t[i - Len(s)]
                BY <1>1, <1>3, <3>2
            <4>2. t[i - Len(s)] \in ToSet(t)
                BY <4>1, Elements
            <4> QED BY <4>1, <4>2
        <3> QED BY <1>1, <3>1, <3>2
    <2>2. ASSUME NEW i \in 1..Len(s) PROVE s[i] \in ToSet(s \o t)
        <3>1. i \in 1..Len(s \o t) /\ (s \o t)[i] = s[i]
            BY <1>1, <1>2
        <3> QED BY <1>1, <3>1, Elements
    <2>3. ASSUME NEW i \in 1..Len(t) PROVE t[i] \in ToSet(s \o t)
        <3>1. Len(s) + i \in 1..Len(s \o t) /\ (s \o t)[Len(s) + i] = t[i]
            BY <1>1, <1>3
        <3> QED BY <1>1, <3>1, Elements
    <2>4. ToSet(s \o t) \subseteq ToSet(s) \cup ToSet(t)
        <3>1. \A x : x \in ToSet(s \o t) => \E i \in 1..Len(s \o t) : (s \o t)[i] = x
            BY <1>1, Elements
        <3> QED BY <2>1, <3>1, Zenon
    <2>5. ToSet(s) \subseteq ToSet(s \o t)
        <3>1. \A x : x \in ToSet(s) => \E i \in 1..Len(s) : s[i] = x
            BY Elements
        <3> QED BY <2>2, <3>1, Zenon
    <2>6. ToSet(t) \subseteq ToSet(s \o t)
        <3>1. \A x : x \in ToSet(t) => \E i \in 1..Len(t) : t[i] = x
            BY Elements
        <3> QED BY <2>3, <3>1, Zenon
    <2> QED BY <2>4, <2>5, <2>6
<1>5. ASSUME Once(s), Once(t), ToSet(s) \cap ToSet(t) = {} PROVE Once(s \o t)
    <2>1. \A i \in 1..Len(s), j \in 1..Len(t) : s[i] # t[j]
        BY <1>5, Elements
    <2>2. ASSUME NEW i \in 1..Len(s \o t), NEW j \in 1..Len(s \o t), (s \o t)[i] = (s \o t)[j]
          PROVE  i = j
        <3>1. CASE i <= Len(s) /\ j <= Len(s)
            BY <1>1, <1>2, <1>5, <2>2, <3>1 DEF Once
        <3>2. CASE i <= Len(s) /\ j > Len(s)
            BY <1>1, <1>2, <1>3, <2>1, <2>2, <3>2
        <3>3. CASE i > Len(s) /\ j <= Len(s)
            BY <1>1, <1>2, <1>3, <2>1, <2>2, <3>3
        <3>4. CASE i > Len(s) /\ j > Len(s)
            <4>1. i - Len(s) \in 1..Len(t) /\ j - Len(s) \in 1..Len(t)
                BY <1>1, <3>4
            <4>2. t[i - Len(s)] = t[j - Len(s)]
                BY <1>1, <1>3, <2>2, <3>4
            <4>3. i - Len(s) = j - Len(s)
                BY <1>5, <4>1, <4>2 DEF Once
            <4> QED BY <1>1, <4>3
        <3> QED BY <1>1, <3>1, <3>2, <3>3, <3>4
    <2> QED BY <2>2 DEF Once
<1> QED BY <1>1, <1>2, <1>4, <1>5

\* The last takes the place of the first (PriorityQueue.poll).
LEMMA OnceRest ==
    ASSUME NEW S, NEW s \in Seq(S), s # <<>>, Once(s)
    PROVE  /\ Head(s) \in S /\ Rest(s) \in Seq(S) /\ Once(Rest(s))
           /\ ToSet(Rest(s)) = ToSet(s) \ {Head(s)}
<1>1. /\ Len(s) \in Nat /\ Len(s) >= 1
      /\ Head(s) = s[1] /\ Head(s) \in S
    OBVIOUS
<1>2. CASE Len(s) = 1
    <2>1. Rest(s) = <<>>
        BY <1>2 DEF Rest
    <2>2. ToSet(s) = {Head(s)}
        BY <1>1, <1>2, Elements
    <2> QED BY <1>1, <2>1, <2>2 DEF Once, ToSet
<1>3. CASE Len(s) # 1
    <2> DEFINE n == Len(s)
               r == Rest(s)
               m == SubSeq(s, 2, n - 1)
    <2>1. n \in Nat /\ n >= 2
        BY <1>1, <1>3
    <2>2. r = <<s[n]>> \o m
        BY <1>3 DEF Rest, Last
    <2>3. m \in Seq(S) /\ Len(m) = n - 2 /\ \A i \in 1..n - 2 : m[i] = s[i + 1]
        <3>1. \A i \in 2..n - 1 : s[i] \in S
            BY <2>1
        <3>2. /\ m \in Seq(S)
              /\ Len(m) = IF 2 <= n - 1 THEN (n - 1) - 2 + 1 ELSE 0
              /\ \A i \in 1..(n - 1) - 2 + 1 : m[i] = s[2 + i - 1]
            BY <2>1, <3>1, SubSeqProperties
        <3> HIDE DEF m, n
        <3>3. /\ 1..(n - 1) - 2 + 1 = 1..n - 2
              /\ \A i \in 1..n - 2 : 2 + i - 1 = i + 1
            BY <2>1
        <3>4. \A i \in 1..n - 2 : m[i] = s[i + 1]
            BY <3>2, <3>3
        <3> QED BY <2>1, <3>2, <3>4
    <2>4. s[n] \in S
        BY <2>1
    <2>5. /\ r \in Seq(S) /\ Len(r) = n - 1 /\ r[1] = s[n]
          /\ \A i \in 2..n - 1 : r[i] = s[i]
        <3> HIDE DEF r, m, n
        <3>1. <<s[n]>> \in Seq(S) /\ Len(<<s[n]>>) = 1
            BY <2>4
        <3>2. r \in Seq(S) /\ Len(r) = n - 1 /\ r[1] = s[n]
            BY <2>1, <2>2, <2>3, <3>1
        <3>3. ASSUME NEW i \in 2..n - 1 PROVE r[i] = s[i]
            <4>1. r[i] = m[i - 1]
                BY <2>1, <2>2, <2>3, <3>1
            <4>2. i - 1 \in 1..n - 2 /\ (i - 1) + 1 = i
                BY <2>1
            <4> QED BY <2>3, <4>1, <4>2
        <3> QED BY <3>2, <3>3
    <2> HIDE DEF r, m
    <2>6. Once(r)
        BY <2>1, <2>5 DEF Once
    <2>7. ASSUME NEW y \in ToSet(r) PROVE y \in ToSet(s) \ {Head(s)}
        <3>1. PICK i \in 1..n - 1 : r[i] = y
            BY <2>5, Elements
        <3>2. PICK j \in 2..n : s[j] = y
            BY <2>1, <2>5, <3>1
        <3>3. y \in ToSet(s)
            BY <2>1, <3>2, Elements
        <3>4. y # Head(s)
            BY <1>1, <2>1, <3>2 DEF Once
        <3> QED BY <3>3, <3>4
    <2>8. ASSUME NEW y \in ToSet(s) \ {Head(s)} PROVE y \in ToSet(r)
        <3>1. PICK j \in 1..n : s[j] = y
            BY Elements
        <3>2. j # 1
            BY <1>1, <3>1
        <3>3. PICK i \in 1..n - 1 : r[i] = y
            BY <2>1, <2>5, <3>1, <3>2
        <3> QED BY <2>5, <3>3, Elements
    <2> QED BY <1>1, <2>5, <2>6, <2>7, <2>8 DEF r
<1> QED BY <1>2, <1>3

\* What drainRunnables leaves in the queue: all that was in both, and STOP in front.
LEMMA AddedOnce ==
    ASSUME NEW s \in Seq(Task \cup {Stop}), NEW t \in Seq(Task \cup {Stop}), s # <<>>,
           Once(s), Once(t), ToSet(s) \cap ToSet(t) = {}
    PROVE  /\ AddAll(s, t) \in Seq(Task \cup {Stop})
           /\ AddAll(s, t) # <<>> /\ Once(AddAll(s, t))
           /\ ToSet(AddAll(s, t)) = ToSet(s) \cup ToSet(t)
           /\ t # <<>> /\ Head(t) = Stop => Head(AddAll(s, t)) = Stop
           /\ ~(t # <<>> /\ Head(t) = Stop) => Head(AddAll(s, t)) = Head(s)
<1> DEFINE S == Task \cup {Stop}
<1>1. CASE ~(t # <<>> /\ Head(t) = Stop)
    <2>1. AddAll(s, t) = s \o t
        BY <1>1 DEF AddAll
    <2> QED BY <1>1, <2>1, OnceJoined
<1>2. CASE t # <<>> /\ Head(t) = Stop
    <2> DEFINE first == <<Stop>>
    <2>1. AddAll(s, t) = first \o s \o Tail(t)
        BY <1>2 DEF AddAll
    <2>2. first \in Seq(S) /\ ToSet(first) = {Stop} /\ Once(first)
          /\ first # <<>> /\ Head(first) = Stop
        BY DEF ToSet, Once
    <2>3. /\ Tail(t) \in Seq(S) /\ Once(Tail(t)) /\ ToSet(t) = ToSet(Tail(t)) \cup {Stop}
          /\ Stop \notin ToSet(Tail(t))
        BY <1>2, OnceTail
    <2> HIDE DEF first
    <2>4. /\ first \o s \in Seq(S) /\ Once(first \o s)
          /\ ToSet(first \o s) = {Stop} \cup ToSet(s)
          /\ first \o s # <<>> /\ Head(first \o s) = Stop
        BY <2>2, <2>3, OnceJoined
    <2>5. ToSet(first \o s) \cap ToSet(Tail(t)) = {}
        BY <2>3, <2>4
    <2> DEFINE front == first \o s
               back == Tail(t)
    <2>6. /\ front \o back \in Seq(S) /\ Once(front \o back)
          /\ ToSet(front \o back) = ToSet(front) \cup ToSet(back)
          /\ front \o back # <<>>
          /\ Head(front \o back) = Stop
        BY <2>3, <2>4, <2>5, OnceJoined
    <2> QED BY <1>2, <2>1, <2>3, <2>4, <2>6
<1> QED BY <1>1, <1>2
-----------------------------------------------------------------------------
(* The inductive invariant *)

\* All that waits, STOP included.
Queued == ToSet(consumers) \cup ToSet(queue)

\* A task, and STOP, is in one place at a time; the worker takes from consumers only
\* when its own queue is empty.
OnePlace ==
    /\ Once(consumers) /\ Once(queue)
    /\ ToSet(consumers) \cap ToSet(queue) = {}
    /\ submitting \cap Queued = {}
    /\ current \notin submitting \cup Queued
    /\ worker \in {"checking", "taking"} => queue = <<>>

\* Where STOP is after close has offered it.  It is the next that the worker takes,
\* but for the one it may be about to poll.
StopIsNext ==
    \/ worker = "stopped"
    \/ current = Stop
    \/ queue # <<>> /\ Head(queue) = Stop /\ worker \in {"draining", "polling"}
    \/ /\ consumers # <<>> /\ Head(consumers) = Stop
       /\ worker \in {"taking", "polling"} => late = 0

StopPlaced ==
    /\ late <= 1
    /\ closing \in {"open", "set"} => /\ Stop \notin Queued \cup {current}
                                      /\ late = 0
    /\ closing \in {"cleared", "done"} => StopIsNext

IInv == TypeOK /\ OnePlace /\ StopPlaced

\* A new executor.
LEMMA InitIInv == Init => IInv
<1> SUFFICES ASSUME Init PROVE IInv
    OBVIOUS
<1>1. TypeOK
    <2>1. consumers \in Seq(Task \cup {Stop}) /\ queue \in Seq(Task \cup {Stop})
        BY DEF Init
    <2>2. consumers = <<>> /\ queue = <<>> /\ worker = "checking" /\ current = NoTask
          /\ submitting = {} /\ closed = FALSE /\ closing = "open" /\ interrupted = FALSE
          /\ late = 0
        BY DEF Init
    <2> QED BY <2>1, <2>2 DEF TypeOK
<1>2. Once(consumers) /\ Once(queue)
    BY DEF Init, Once
<1>3. ToSet(consumers) = {} /\ ToSet(queue) = {}
    BY DEF Init, ToSet
<1>4. OnePlace
    BY <1>2, <1>3 DEF Init, OnePlace, Queued
<1>5. StopPlaced
    BY <1>3, ExecutorAssumption DEF Init, StopPlaced, Queued
<1> QED BY <1>1, <1>4, <1>5 DEF IInv

\* run, by any thread: the check of `closed`, and the offer.
LEMMA RunIInv ==
    ASSUME IInv, NEW t \in Task, Run(t) \/ Offer(t)
    PROVE  IInv'
<1> USE ExecutorAssumption
<1> DEFINE S == Task \cup {Stop}
<1>1. consumers \in Seq(S) /\ queue \in Seq(S)
    BY DEF IInv, TypeOK
<1>2. CASE Run(t)
    <2>1. t \notin Queued /\ t # current
        BY <1>2 DEF Run, Waiting, Queued
    <2>2. Queued' = Queued
        BY <1>2 DEF Run, Queued
    <2>3. TypeOK'
        BY <1>2 DEF Run, IInv, TypeOK
    <2>4. OnePlace'
        BY <1>2, <2>1, <2>2 DEF Run, IInv, OnePlace
    <2>5. StopPlaced'
        BY <1>2, <2>2 DEF Run, IInv, StopPlaced, StopIsNext
    <2> QED BY <2>3, <2>4, <2>5 DEF IInv
<1>3. CASE Offer(t)
    <2>1. t \notin Queued /\ t # current /\ t \in S
        BY <1>3 DEF Offer, IInv, OnePlace
    <2>2. /\ consumers' \in Seq(S)
          /\ ToSet(consumers') = ToSet(consumers) \cup {t}
          /\ Once(consumers')
          /\ consumers # <<>> => consumers' # <<>> /\ Head(consumers') = Head(consumers)
        BY <1>1, <1>3, <2>1, OnceAppended DEF Offer, IInv, OnePlace, Queued
    <2>3. queue' = queue /\ submitting' = submitting \ {t} /\ t \in submitting
          /\ UNCHANGED <<worker, current, closed, closing, interrupted, late>>
        BY <1>3 DEF Offer
    <2>4. TypeOK'
        BY <2>2, <2>3 DEF IInv, TypeOK
    <2>5. OnePlace'
        BY <2>1, <2>2, <2>3 DEF IInv, OnePlace, Queued
    <2>6. StopPlaced'
        BY <2>2, <2>3 DEF IInv, StopPlaced, StopIsNext, Queued
    <2> QED BY <2>4, <2>5, <2>6 DEF IInv
<1> QED BY <1>2, <1>3

\* take and drainRunnables, and the ends of the loops.
LEMMA TakeIInv ==
    ASSUME IInv, Check \/ Take \/ TakeThrows \/ Drain
    PROVE  IInv'
<1> USE ExecutorAssumption
<1> DEFINE S == Task \cup {Stop}
<1>1. consumers \in Seq(S) /\ queue \in Seq(S)
    BY DEF IInv, TypeOK
<1>2. CASE Check \/ TakeThrows
    <2>1. UNCHANGED <<consumers, queue, current, submitting, closed, closing, interrupted, late>>
        BY <1>2 DEF Check, TakeThrows
    <2>2. /\ worker \in {"checking", "taking"}
          /\ \/ worker' = "stopped"
             \/ worker = "checking" /\ worker' = "taking" /\ ~closed
        BY <1>2 DEF Check, TakeThrows
    <2>3. TypeOK'
        BY <2>1, <2>2 DEF IInv, TypeOK
    <2>4. OnePlace'
        BY <2>1, <2>2 DEF IInv, OnePlace, Queued
    <2>5. StopPlaced'
        BY <2>1, <2>2 DEF IInv, TypeOK, StopPlaced, StopIsNext, Queued
    <2> QED BY <2>3, <2>4, <2>5 DEF IInv
<1>3. CASE Take
    <2>1. /\ consumers # <<>> /\ queue' = <<Head(consumers)>> /\ consumers' = Tail(consumers)
          /\ worker = "taking" /\ worker' = "draining"
          /\ UNCHANGED <<current, submitting, closed, closing, interrupted, late>>
        BY <1>3 DEF Take
    <2>2. /\ Head(consumers) \in S /\ consumers' \in Seq(S)
          /\ ToSet(consumers) = ToSet(consumers') \cup {Head(consumers)}
          /\ Once(consumers') /\ Head(consumers) \notin ToSet(consumers')
        BY <1>1, <2>1, OnceTail DEF IInv, OnePlace
    <2>3. /\ queue' \in Seq(S) /\ queue' # <<>> /\ Head(queue') = Head(consumers)
          /\ ToSet(queue') = {Head(consumers)} /\ Once(queue')
        <3>1. queue' \in Seq(S) /\ Len(queue') = 1 /\ queue'[1] = Head(consumers)
            BY <2>1, <2>2
        <3>2. queue' # <<>> /\ Head(queue') = Head(consumers)
            BY <2>1
        <3> QED BY <3>1, <3>2 DEF ToSet, Once
    <2>4. queue = <<>> /\ ToSet(queue) = {}
        BY <2>1 DEF IInv, OnePlace, ToSet
    <2>5. Queued' = Queued
        BY <2>2, <2>3, <2>4 DEF Queued
    <2>6. TypeOK'
        BY <2>1, <2>2, <2>3 DEF IInv, TypeOK
    <2>7. OnePlace'
        BY <2>1, <2>2, <2>3, <2>5 DEF IInv, OnePlace
    <2>8. StopPlaced'
        BY <2>1, <2>3, <2>4, <2>5 DEF IInv, TypeOK, StopPlaced, StopIsNext
    <2> QED BY <2>6, <2>7, <2>8 DEF IInv
<1>4. CASE Drain
    <2>1. /\ queue' = AddAll(queue, consumers) /\ consumers' = <<>>
          /\ worker = "draining" /\ worker' = "polling"
          /\ UNCHANGED <<current, submitting, closed, closing, interrupted, late>>
        BY <1>4 DEF Drain, DrainLeaves
    <2>2. queue # <<>>
        BY <2>1 DEF IInv, TypeOK
    <2>3. ToSet(consumers') = {} /\ Once(consumers') /\ consumers' \in Seq(S)
        BY <2>1 DEF ToSet, Once
    <2>4. /\ queue' \in Seq(S) /\ queue' # <<>> /\ Once(queue')
          /\ ToSet(queue') = Queued
          /\ consumers # <<>> /\ Head(consumers) = Stop => Head(queue') = Stop
          /\ ~(consumers # <<>> /\ Head(consumers) = Stop) => Head(queue') = Head(queue)
        BY <1>1, <2>1, <2>2, AddedOnce DEF IInv, OnePlace, Queued
    <2>5. Queued' = Queued
        BY <2>3, <2>4 DEF Queued
    <2>6. TypeOK'
        BY <2>1, <2>3, <2>4 DEF IInv, TypeOK
    <2>7. OnePlace'
        BY <2>1, <2>3, <2>4, <2>5 DEF IInv, OnePlace
    <2>8. StopPlaced'
        BY <2>1, <2>4, <2>5 DEF IInv, TypeOK, StopPlaced, StopIsNext
    <2> QED BY <2>6, <2>7, <2>8 DEF IInv
<1> QED BY <1>2, <1>3, <1>4

\* The task that is next, its run, and its end.
LEMMA RunTaskIInv ==
    ASSUME IInv, Poll \/ Finish
    PROVE  IInv'
<1> USE ExecutorAssumption
<1> DEFINE S == Task \cup {Stop}
<1>1. consumers \in Seq(S) /\ queue \in Seq(S)
    BY DEF IInv, TypeOK
<1>2. CASE Poll
    <2>1. /\ current' = Head(queue) /\ queue' = Rest(queue)
          /\ worker = "polling" /\ worker' = "running"
          /\ late' = IF closing \in {"cleared", "done"} /\ Head(queue) # Stop THEN late + 1 ELSE late
          /\ UNCHANGED <<consumers, submitting, closed, closing, interrupted>>
        BY <1>2 DEF Poll
    <2>2. queue # <<>>
        BY <2>1 DEF IInv, TypeOK
    <2>3. /\ Head(queue) \in S /\ queue' \in Seq(S) /\ Once(queue')
          /\ ToSet(queue') = ToSet(queue) \ {Head(queue)} /\ Head(queue) \in ToSet(queue)
        <3>1. Head(queue) = queue[1] /\ 1 \in 1..Len(queue)
            BY <1>1, <2>2
        <3>2. Head(queue) \in ToSet(queue)
            BY <1>1, <3>1, Elements
        <3> QED BY <1>1, <2>1, <2>2, <3>2, OnceRest DEF IInv, OnePlace
    <2>4. current = NoTask
        BY <2>1 DEF IInv, TypeOK
    <2>5. TypeOK'
        BY <2>1, <2>3 DEF IInv, TypeOK
    <2>6. OnePlace'
        BY <2>1, <2>3 DEF IInv, OnePlace, Queued
    <2>7. StopPlaced'
        <3>1. CASE closing \in {"open", "set"}
            BY <2>1, <2>3, <3>1 DEF IInv, StopPlaced, Queued
        <3>2. CASE closing \in {"cleared", "done"}
            BY <2>1, <2>4, <3>2 DEF IInv, TypeOK, StopPlaced, StopIsNext
        <3> QED BY <3>1, <3>2 DEF IInv, TypeOK
    <2> QED BY <2>5, <2>6, <2>7 DEF IInv
<1>3. CASE Finish
    <2>1. /\ worker = "running" /\ current' = NoTask /\ interrupted' \in {interrupted, FALSE}
          /\ \/ current = Stop /\ worker' = "stopped"
             \/ current # Stop /\ queue # <<>> /\ worker' = "draining"
             \/ current # Stop /\ queue = <<>> /\ worker' = "checking"
          /\ UNCHANGED <<consumers, queue, submitting, closed, closing, late>>
        BY <1>3 DEF Finish, More
    <2>2. NoTask \notin submitting \cup Queued
        BY <1>1, Elements DEF IInv, TypeOK, Queued
    <2>3. Queued' = Queued
        BY <2>1 DEF Queued
    <2>4. TypeOK'
        BY <2>1 DEF IInv, TypeOK
    <2>5. OnePlace'
        BY <2>1, <2>2, <2>3 DEF IInv, OnePlace
    <2>6. StopPlaced'
        BY <2>1, <2>3 DEF IInv, TypeOK, StopPlaced, StopIsNext
    <2> QED BY <2>4, <2>5, <2>6 DEF IInv
<1> QED BY <1>2, <1>3

\* The three parts of close: `closed`, STOP in the place of all that waits, the interrupt.
LEMMA CloseIInv ==
    ASSUME IInv, Close
    PROVE  IInv'
<1> USE ExecutorAssumption
<1>1. CASE CloseSet
    <2>1. /\ closing = "open" /\ closing' = "set" /\ closed' = TRUE
          /\ UNCHANGED <<consumers, queue, worker, current, submitting, interrupted, late>>
        BY <1>1 DEF CloseSet, IInv, TypeOK
    <2> QED BY <2>1 DEF IInv, TypeOK, OnePlace, StopPlaced, StopIsNext, Queued
<1>2. CASE CloseClear
    <2>1. /\ closing = "set" /\ closing' = "cleared" /\ consumers' = <<Stop>>
          /\ UNCHANGED <<queue, worker, current, submitting, closed, interrupted, late>>
        BY <1>2 DEF CloseClear
    <2>2. /\ consumers' \in Seq(Task \cup {Stop}) /\ consumers' # <<>> /\ Head(consumers') = Stop
          /\ Len(consumers') = 1 /\ consumers'[1] = Stop
        BY <2>1
    <2>3. ToSet(consumers') = {Stop} /\ Once(consumers')
        BY <2>2 DEF ToSet, Once
    <2>4. TypeOK'
        BY <2>1, <2>2 DEF IInv, TypeOK
    <2>5. OnePlace'
        BY <2>1, <2>3 DEF IInv, TypeOK, OnePlace, StopPlaced, Queued
    <2>6. StopPlaced'
        BY <2>1, <2>2 DEF IInv, StopPlaced, StopIsNext
    <2> QED BY <2>4, <2>5, <2>6 DEF IInv
<1>3. CASE CloseInterrupt
    <2>1. /\ closing = "cleared" /\ closing' = "done" /\ interrupted' = TRUE
          /\ UNCHANGED <<consumers, queue, worker, current, submitting, closed, late>>
        BY <1>3 DEF CloseInterrupt
    <2> QED BY <2>1 DEF IInv, TypeOK, OnePlace, StopPlaced, StopIsNext, Queued
<1> QED BY <1>1, <1>2, <1>3 DEF Close

\* Every step keeps the invariant.
LEMMA Invariant == IInv /\ [Next]_vars => IInv'
<1> SUFFICES ASSUME IInv, [Next]_vars PROVE IInv'
    OBVIOUS
<1>1. CASE UNCHANGED vars
    BY <1>1 DEF vars, IInv, TypeOK, OnePlace, StopPlaced, StopIsNext, Queued
<1>2. CASE Work
    BY <1>2, TakeIInv, RunTaskIInv DEF Work
<1>3. CASE Close
    BY <1>3, CloseIInv
<1>4. CASE \E t \in Task : Run(t) \/ Offer(t)
    BY <1>4, RunIInv
<1> QED BY <1>1, <1>2, <1>3, <1>4 DEF Next

\* It holds for ever.
LEMMA InvariantHolds == Spec => []IInv
BY InitIInv, Invariant, PTL DEF Spec

\* Tasks and STOP stay in their places, and the worker never polls an empty queue
\* (Executor.java:59-61, whose assertion says so).
THEOREM ExecutorTypeCorrect == Spec => []TypeOK
<1>1. IInv => TypeOK
    BY DEF IInv
<1> QED BY <1>1, InvariantHolds, PTL

\* However many tasks wait when close is called, at most one still starts once
\* consumers was cleared (Executor.java:83-86).
THEOREM ExecutorStops == Spec => []AtMostOneLate
<1>1. IInv => AtMostOneLate
    BY DEF IInv, StopPlaced, AtMostOneLate
<1> QED BY <1>1, InvariantHolds, PTL
-----------------------------------------------------------------------------
(* The executor implements a pool *)

\* The task that the pool runs: STOP is none.
running == IF current = Stop THEN NoTask ELSE current

\* A new executor is an empty pool that is open.
LEMMA PoolStarts == Init => Pool!PoolInit
<1> SUFFICES ASSUME Init PROVE Pool!PoolInit
    OBVIOUS
<1>1. Waiting = {}
    BY DEF Init, Waiting, ToSet
<1>2. running = NoTask /\ ~closed
    BY DEF Init, running
<1> QED BY <1>1, <1>2 DEF Pool!PoolInit, running

\* What an action does to the tasks that wait and to the one that runs is what one of
\* the pool does, or nothing.
LEMMA PoolStep == IInv /\ [Next]_vars => [Pool!PoolNext]_(Pool!poolVars)
<1> SUFFICES ASSUME IInv, [Next]_vars
             PROVE  Pool!PoolNext \/ UNCHANGED <<Waiting, running, ~closed>>
    BY DEF Pool!poolVars, running
<1> USE ExecutorAssumption
<1> DEFINE S == Task \cup {Stop}
<1>1. consumers \in Seq(S) /\ queue \in Seq(S)
    BY DEF IInv, TypeOK
<1>2. Waiting \subseteq Task
    BY <1>1, Elements DEF Waiting
<1>3. CASE UNCHANGED vars
    BY <1>3 DEF vars, Waiting, running
<1>4. CASE Check \/ TakeThrows
    BY <1>4 DEF Check, TakeThrows, Waiting, running
<1>5. CASE Take
    <2>1. queue = <<>> /\ ToSet(queue) = {}
        BY <1>5 DEF Take, IInv, OnePlace, ToSet
    <2>2. ToSet(consumers) = ToSet(consumers') \cup {Head(consumers)}
        BY <1>1, <1>5, OnceTail DEF Take
    <2>3. ToSet(queue') = {Head(consumers)}
        <3>1. Head(consumers) \in S
            BY <1>1, <1>5, OnceTail DEF Take
        <3>2. Len(queue') = 1 /\ queue'[1] = Head(consumers) /\ queue' \in Seq(S)
            BY <1>5, <3>1 DEF Take
        <3> QED BY <3>2 DEF ToSet
    <2> QED BY <1>5, <2>1, <2>2, <2>3 DEF Take, Waiting, running
<1>6. CASE Drain
    <2>1. queue # <<>> /\ ToSet(consumers') = {}
        BY <1>6 DEF Drain, DrainLeaves, IInv, TypeOK, ToSet
    <2>2. ToSet(queue') = ToSet(queue) \cup ToSet(consumers)
        BY <1>1, <1>6, <2>1, AddedOnce DEF Drain, IInv, OnePlace
    <2> QED BY <1>6, <2>1, <2>2 DEF Drain, Waiting, running
<1>7. CASE Poll
    <2>1. /\ worker = "polling" /\ queue # <<>> /\ current = NoTask
          /\ UNCHANGED <<consumers, closed>>
        BY <1>7 DEF Poll, IInv, TypeOK
    <2>2. /\ Head(queue) \in S /\ ToSet(queue') = ToSet(queue) \ {Head(queue)}
          /\ Head(queue) \notin ToSet(consumers) /\ Head(queue) \in ToSet(queue)
        <3>1. Head(queue) = queue[1] /\ 1 \in 1..Len(queue)
            BY <1>1, <2>1
        <3>2. Head(queue) \in ToSet(queue)
            BY <1>1, <3>1, Elements
        <3> QED BY <1>1, <1>7, <2>1, <3>2, OnceRest DEF Poll, IInv, OnePlace
    <2>3. CASE Head(queue) = Stop
        BY <1>7, <2>1, <2>2, <2>3 DEF Poll, Waiting, running
    <2>4. CASE Head(queue) # Stop
        <3>1. /\ running = NoTask /\ Head(queue) \in Waiting
              /\ running' = Head(queue) /\ Waiting' = Waiting \ {Head(queue)}
            BY <1>7, <2>1, <2>2, <2>4 DEF Poll, Waiting, running
        <3>2. Pool!Start(Head(queue))
            BY <2>1, <3>1 DEF Pool!Start, running
        <3> QED BY <2>2, <2>4, <3>2 DEF Pool!PoolNext
    <2> QED BY <2>3, <2>4
<1>8. CASE Finish
    <2>1. current # NoTask /\ current' = NoTask /\ UNCHANGED <<Waiting, closed>>
        BY <1>8 DEF Finish, IInv, TypeOK, Waiting
    <2>2. CASE current = Stop
        BY <2>1, <2>2 DEF running
    <2>3. CASE current # Stop
        BY <2>1, <2>3 DEF Pool!PoolNext, Pool!Finish, running
    <2> QED BY <2>2, <2>3
<1>9. CASE Close
    <2>1. CASE CloseSet
        BY <2>1 DEF CloseSet, Pool!PoolNext, Pool!Shut, Waiting, running
    <2>2. CASE CloseClear
        <3>1. closed /\ UNCHANGED <<queue, current, closed>>
            BY <2>2 DEF CloseClear, IInv, TypeOK
        <3>2. ToSet(consumers') = {Stop}
            <4>1. Len(consumers') = 1 /\ consumers'[1] = Stop /\ consumers' \in Seq(S)
                BY <2>2 DEF CloseClear
            <4> QED BY <4>1 DEF ToSet
        <3>3. Waiting' \in SUBSET Waiting
            BY <3>1, <3>2 DEF Waiting
        <3> QED BY <3>1, <3>3 DEF Pool!PoolNext, Pool!Drop, running
    <2>3. CASE CloseInterrupt
        BY <2>3 DEF CloseInterrupt, Waiting, running
    <2> QED BY <1>9, <2>1, <2>2, <2>3 DEF Close
<1>10. ASSUME NEW t \in Task, Run(t)
       PROVE  UNCHANGED <<Waiting, running, ~closed>>
    BY <1>10 DEF Run, Waiting, running
<1>11. ASSUME NEW t \in Task, Offer(t)
       PROVE  Pool!PoolNext
    <2>1. t \notin Waiting /\ running # t
        BY <1>11 DEF Offer, IInv, OnePlace, Queued, Waiting, running
    <2>2. ToSet(consumers') = ToSet(consumers) \cup {t}
        BY <1>1, <1>11, OnceAppended DEF Offer
    <2>3. Waiting' = Waiting \cup {t} /\ UNCHANGED <<running, closed>>
        BY <1>11, <2>2 DEF Offer, Waiting, running
    <2>4. Pool!Submit(t)
        BY <2>1, <2>3 DEF Pool!Submit, running
    <2> QED BY <2>4 DEF Pool!PoolNext
<1> QED BY <1>3, <1>4, <1>5, <1>6, <1>7, <1>8, <1>9, <1>10, <1>11 DEF Next, Work

\* Each task that was submitted is run once and one at a time, and none is forgotten
\* while the executor is open (ExecutorImpl, with both of its queues).
THEOREM ExecutorImplementsPool == Spec => ImplementsPool
<1>1. Spec => []IInv
    BY InvariantHolds
<1>2. IInv /\ [Next]_vars => [Pool!PoolNext]_(Pool!poolVars)
    BY PoolStep
<1> QED BY <1>1, <1>2, PoolStarts, PTL DEF Spec, ImplementsPool, Pool!PoolSpec

-----------------------------------------------------------------------------
(* The callbacks: the inductive invariant *)

\* The threads hold numbers of events that were handled.
InHandIsTask ==
    /\ version \in 0..Cardinality(Task)
    /\ inHand \in [Thread -> Task \cup {0}]

\* Who was called since it was removed is not in the copy that is being called, and a
\* new copy holds none that was removed.
CalledOnce ==
    /\ observers \in [Handle -> {"new", "added", "removed", "cleared"}]
    /\ surplus \in [Handle -> Nat]
    /\ copy \subseteq Handle
    /\ \A h \in Handle :
        \/ surplus[h] = 0
        \/ surplus[h] = 1 /\ observers[h] = "removed" /\ h \notin copy

CInv == InHandIsTask /\ CalledOnce

\* Nothing was handled and nobody was called.
LEMMA CallbacksInitCInv == CallbacksInit => CInv
<1> SUFFICES ASSUME CallbacksInit PROVE CInv
    OBVIOUS
<1>1. version = 0 /\ inHand = [w \in Thread |-> 0]
    BY DEF CallbacksInit
<1>2. observers = [h \in Handle |-> "new"] /\ surplus = [h \in Handle |-> 0] /\ copy = {}
    BY DEF CallbacksInit
<1>3. InHandIsTask
    BY <1>1, CallbacksAssumption DEF InHandIsTask
<1>4. CalledOnce
    <2>1. observers \in [Handle -> {"new", "added", "removed", "cleared"}]
        BY <1>2, Zenon
    <2>2. surplus \in [Handle -> Nat] /\ copy \subseteq Handle /\ \A h \in Handle : surplus[h] = 0
        BY <1>2
    <2> QED BY <2>1, <2>2 DEF CalledOnce
<1> QED BY <1>3, <1>4 DEF CInv

\* handleEvent takes the next number.
LEMMA InHandStep ==
    ASSUME InHandIsTask, [CallbacksNext]_allVars
    PROVE  InHandIsTask'
<1> USE CallbacksAssumption
<1>1. CASE UNCHANGED <<version, inHand>>
    BY <1>1 DEF InHandIsTask
<1>2. ASSUME NEW w \in Thread, HandleEvent(w)
      PROVE  InHandIsTask'
    <2>1. version' = version + 1 /\ version' \in 1..Cardinality(Task)
        BY <1>2 DEF HandleEvent, InHandIsTask
    <2>2. version' \in Task /\ inHand' = [inHand EXCEPT ![w] = version']
        BY <1>2, <2>1 DEF HandleEvent
    <2> QED BY <2>1, <2>2 DEF InHandIsTask
<1>3. ASSUME NEW w \in Thread, OfferCallbacks(w) \/ DropCallbacks(w)
      PROVE  InHandIsTask'
    BY <1>3 DEF OfferCallbacks, DropCallbacks, InHandIsTask
<1>4. CASE UNCHANGED allVars
    BY <1>1, <1>4 DEF allVars, cvars
<1>5. CASE Worker \/ Closer \/ CloseTree \/ \E w \in Thread : RunCallbacks(w)
    BY <1>1, <1>5 DEF Worker, WorkerStep, PollTask, CopyObservers, FinishTask, CallObserver,
                      Closer, CloseExecutor, CloseObservers, CloseTree, RunCallbacks, cvars
<1>6. CASE \E h \in Handle : AddObserver(h) \/ RemoveObserver(h)
    BY <1>1, <1>6 DEF AddObserver, RemoveObserver
<1> QED BY <1>2, <1>3, <1>4, <1>5, <1>6 DEF CallbacksNext, Watcher

\* A copy, a call, and what the user does with handles.
LEMMA CalledOnceStep ==
    ASSUME CalledOnce, [CallbacksNext]_allVars
    PROVE  CalledOnce'
<1>1. CASE UNCHANGED <<observers, surplus, copy>>
    BY <1>1 DEF CalledOnce
<1>2. CASE CopyObservers
    <2>1. UNCHANGED <<observers, surplus>>
        BY <1>2 DEF CopyObservers
    <2>2. copy' \subseteq Added \cup Cleared
        BY <1>2 DEF CopyObservers, Copied
    <2>3. \A h \in copy' : h \in Handle /\ observers[h] # "removed"
        BY <2>2 DEF Added, Cleared
    <2> QED BY <2>1, <2>3 DEF CalledOnce
<1>3. ASSUME NEW h \in Handle, CallObserver(h)
      PROVE  CalledOnce'
    <2>1. /\ h \in copy /\ copy' = copy \ {h} /\ observers' = observers
          /\ surplus' = [surplus EXCEPT ![h] = IF observers[h] = "removed" THEN @ + 1 ELSE @]
        BY <1>3 DEF CallObserver
    <2>2. surplus[h] = 0
        BY <2>1 DEF CalledOnce
    <2>3. surplus'[h] = 0 \/ (surplus'[h] = 1 /\ observers[h] = "removed")
        BY <2>1, <2>2 DEF CalledOnce
    <2> QED BY <2>1, <2>3 DEF CalledOnce
<1>4. ASSUME NEW h \in Handle, AddObserver(h) \/ RemoveObserver(h)
      PROVE  CalledOnce'
    BY <1>4 DEF AddObserver, RemoveObserver, CalledOnce
<1>5. CASE CloseObservers
    BY <1>5 DEF CloseObservers, CalledOnce
<1>6. CASE UNCHANGED allVars
    BY <1>1, <1>6 DEF allVars, cvars
<1>7. CASE WorkerStep \/ PollTask \/ FinishTask \/ CloseExecutor \/ CloseTree
    BY <1>1, <1>7 DEF WorkerStep, PollTask, FinishTask, CloseExecutor, CloseTree, cvars
<1>8. CASE \E w \in Thread : HandleEvent(w) \/ Watcher(w)
    BY <1>1, <1>8 DEF HandleEvent, Watcher, RunCallbacks, OfferCallbacks, DropCallbacks, cvars
<1> QED BY <1>2, <1>3, <1>4, <1>5, <1>6, <1>7, <1>8 DEF CallbacksNext, Worker, Closer

\* Both parts are inductive by themselves.
LEMMA CallbacksInvariant == CallbacksSpec => []CInv
<1>1. CInv /\ [CallbacksNext]_allVars => CInv'
    BY InHandStep, CalledOnceStep DEF CInv
<1> QED BY <1>1, CallbacksInitCInv, PTL DEF CallbacksSpec

\* removeObserver takes effect at once but for the callback under way, however often
\* and by whatever threads observers are added, removed, cleared and copied
\* (CacheObservers.java, which calls them outside of its monitor).
THEOREM RemovedObserversAreSilent == CallbacksSpec => []RemovedIsSilent
<1>1. CInv => RemovedIsSilent
    BY DEF CInv, CalledOnce, RemovedIsSilent
<1> QED BY <1>1, CallbacksInvariant, PTL
-----------------------------------------------------------------------------
(* The executor among its threads *)

\* A step of the watcher's threads, of the worker, of the user or of close is one of
\* the executor's, or leaves it alone.
LEMMA CallbacksStep == CInv /\ [CallbacksNext]_allVars => [Next]_vars
<1> SUFFICES ASSUME CInv, [CallbacksNext]_allVars PROVE [Next]_vars
    OBVIOUS
<1>1. CASE UNCHANGED allVars
    BY <1>1 DEF allVars
<1>2. CASE Worker
    <2>1. CASE WorkerStep
        BY <2>1 DEF WorkerStep, Next, Work
    <2>2. CASE PollTask
        BY <2>2 DEF PollTask, Next, Work
    <2>3. CASE FinishTask
        BY <2>3 DEF FinishTask, Next, Work
    <2>4. CASE CopyObservers \/ \E h \in Handle : CallObserver(h)
        BY <2>4 DEF CopyObservers, CallObserver
    <2> QED BY <1>2, <2>1, <2>2, <2>3, <2>4 DEF Worker
<1>3. CASE Closer \/ CloseTree
    BY <1>3 DEF Closer, CloseExecutor, CloseObservers, CloseTree, Next
<1>4. ASSUME NEW w \in Thread, HandleEvent(w) \/ Watcher(w)
      PROVE  [Next]_vars
    <2>1. CASE HandleEvent(w) \/ DropCallbacks(w)
        BY <2>1 DEF HandleEvent, DropCallbacks
    <2>2. CASE RunCallbacks(w) \/ OfferCallbacks(w)
        <3>1. Run(inHand[w]) \/ Offer(inHand[w])
            BY <2>2 DEF RunCallbacks, OfferCallbacks
        <3>2. inHand[w] \in Task
            BY <2>2 DEF RunCallbacks, OfferCallbacks, CInv, InHandIsTask
        <3> QED BY <3>1, <3>2 DEF Next
    <2> QED BY <1>4, <2>1, <2>2 DEF Watcher
<1>5. CASE \E h \in Handle : AddObserver(h) \/ RemoveObserver(h)
    BY <1>5 DEF AddObserver, RemoveObserver
<1> QED BY <1>1, <1>2, <1>3, <1>4, <1>5 DEF CallbacksNext

\* The threads of a repository use the executor as it is to be used.
LEMMA CallbacksRunExecutor == CallbacksSpec => Spec
<1>1. CallbacksInit => Init
    BY DEF CallbacksInit
<1> QED BY <1>1, CallbacksStep, CallbacksInvariant, PTL DEF CallbacksSpec, Spec

\* The executor under the callbacks of a repository: its places, its end, and the
\* pool that it is for them (Executor.java; FileCacheDirectoryTree.java:370).
THEOREM RepositoryExecutor == CallbacksSpec => []TypeOK /\ []AtMostOneLate /\ ImplementsPool
BY CallbacksRunExecutor, ExecutorTypeCorrect, ExecutorStops, ExecutorImplementsPool
-----------------------------------------------------------------------------
(* The order of the callbacks *)

\* m was handled before n, if one thread handled both; by says who handled what.
Earlier(m, n, by) == {m, n} \subseteq Task /\ by[m] = by[n] => m < n

Ordered(s, by) == \A i, j \in 1..Len(s) : i < j => Earlier(s[i], s[j], by)
Before(S, T, by) == \A m \in S, n \in T : Earlier(m, n, by)

\* What was submitted and has not run to its end.
InLine == (Queued \cup {current}) \cap Task

\* Who handled what; what a thread holds it handled, and after all that is in line.
HandledInTurn ==
    /\ handledBy \in Seq(Thread) /\ Len(handledBy) = version
    /\ InLine \subseteq 1..version
    /\ \A w \in Thread : inHand[w] # 0 =>
            /\ inHand[w] <= version /\ handledBy[inHand[w]] = w
            /\ Before(InLine, {inHand[w]}, handledBy)

\* What waits in consumers is in order and comes after all that was taken from there,
\* whatever the heap did to the order of that.
LineInOrder ==
    /\ Ordered(consumers, handledBy)
    /\ Before(ToSet(queue) \cup {current}, ToSet(consumers), handledBy)
    /\ ~crowded => Ordered(queue, handledBy) /\ Before({current}, ToSet(queue), handledBy)

\* A task that was handled after all that waits is appended.
LEMMA OrderedAppended ==
    ASSUME NEW S, NEW s \in Seq(S), NEW x \in S, NEW by, Ordered(s, by), Before(ToSet(s), {x}, by)
    PROVE  Ordered(Append(s, x), by)
<1>1. Len(Append(s, x)) = Len(s) + 1 /\ Len(s) \in Nat
    OBVIOUS
<1>2. \A i \in 1..Len(s) : Append(s, x)[i] = s[i] /\ s[i] \in ToSet(s)
    BY Elements
<1>3. Append(s, x)[Len(s) + 1] = x
    OBVIOUS
<1> SUFFICES ASSUME NEW i \in 1..Len(Append(s, x)), NEW j \in 1..Len(Append(s, x)), i < j
             PROVE  Earlier(Append(s, x)[i], Append(s, x)[j], by)
    BY Zenon DEF Ordered
<1>4. i \in 1..Len(s)
    BY <1>1
<1>5. CASE j = Len(s) + 1
    BY <1>2, <1>3, <1>4, <1>5 DEF Before
<1>6. CASE j # Len(s) + 1
    <2>1. j \in 1..Len(s)
        BY <1>1, <1>6
    <2> QED BY <1>2, <1>4, <2>1 DEF Ordered
<1> QED BY <1>5, <1>6

\* The first is taken away.
LEMMA OrderedTail ==
    ASSUME NEW S, NEW s \in Seq(S), s # <<>>, NEW by, Ordered(s, by)
    PROVE  Ordered(Tail(s), by) /\ Before({Head(s)}, ToSet(Tail(s)), by)
<1>1. Len(s) \in Nat \ {0} /\ Len(Tail(s)) = Len(s) - 1 /\ Head(s) = s[1] /\ Tail(s) \in Seq(S)
    OBVIOUS
<1>2. \A i \in 1..Len(s) - 1 : Tail(s)[i] = s[i + 1]
    OBVIOUS
<1>3. Ordered(Tail(s), by)
    BY <1>1, <1>2 DEF Ordered
<1>4. ASSUME NEW n \in ToSet(Tail(s)) PROVE Earlier(Head(s), n, by)
    <2>1. PICK i \in 1..Len(Tail(s)) : Tail(s)[i] = n
        BY <1>1, <1>4, Elements
    <2>2. n = s[i + 1] /\ 1 \in 1..Len(s) /\ i + 1 \in 1..Len(s) /\ 1 < i + 1
        BY <1>1, <1>2, <2>1
    <2> QED BY <1>1, <2>2 DEF Ordered
<1> QED BY <1>3, <1>4 DEF Before

\* Two lines become one.
LEMMA OrderedJoined ==
    ASSUME NEW S, NEW s \in Seq(S), NEW t \in Seq(S), NEW by,
           Ordered(s, by), Ordered(t, by), Before(ToSet(s), ToSet(t), by)
    PROVE  Ordered(s \o t, by)
<1>1. Len(s) \in Nat /\ Len(t) \in Nat /\ Len(s \o t) = Len(s) + Len(t)
    OBVIOUS
<1>2. \A i \in 1..Len(s) : (s \o t)[i] = s[i] /\ s[i] \in ToSet(s)
    BY Elements
<1>3. \A i \in Len(s) + 1 .. Len(s) + Len(t) :
        i - Len(s) \in 1..Len(t) /\ (s \o t)[i] = t[i - Len(s)] /\ t[i - Len(s)] \in ToSet(t)
    <2> SUFFICES ASSUME NEW i \in Len(s) + 1 .. Len(s) + Len(t)
                 PROVE  i - Len(s) \in 1..Len(t) /\ (s \o t)[i] = t[i - Len(s)] /\ t[i - Len(s)] \in ToSet(t)
        OBVIOUS
    <2>1. i - Len(s) \in 1..Len(t)
        BY <1>1
    <2> QED BY <2>1, Elements
<1> SUFFICES ASSUME NEW i \in 1..Len(s \o t), NEW j \in 1..Len(s \o t), i < j
             PROVE  Earlier((s \o t)[i], (s \o t)[j], by)
    BY Zenon DEF Ordered
<1>4. CASE j <= Len(s)
    <2>1. i \in 1..Len(s) /\ j \in 1..Len(s)
        BY <1>1, <1>4
    <2> QED BY <1>2, <2>1 DEF Ordered
<1>5. CASE i <= Len(s) /\ j > Len(s)
    <2>1. i \in 1..Len(s) /\ j \in Len(s) + 1 .. Len(s) + Len(t)
        BY <1>1, <1>5
    <2> QED BY <1>2, <1>3, <2>1 DEF Before
<1>6. CASE i > Len(s)
    <2>1. i \in Len(s) + 1 .. Len(s) + Len(t) /\ j \in Len(s) + 1 .. Len(s) + Len(t)
        BY <1>1, <1>6
    <2>2. i - Len(s) < j - Len(s)
        BY <1>1
    <2> QED BY <1>3, <2>1, <2>2 DEF Ordered
<1> QED BY <1>1, <1>4, <1>5, <1>6

\* What the worker drains joins what it has; STOP comes before it.
LEMMA OrderedAdded ==
    ASSUME NEW s \in Seq(Task \cup {Stop}), NEW t \in Seq(Task \cup {Stop}), NEW by,
           Ordered(s, by), Ordered(t, by), Before(ToSet(s), ToSet(t), by)
    PROVE  Ordered(AddAll(s, t), by)
<1> DEFINE S == Task \cup {Stop}
<1>1. CASE ~(t # <<>> /\ Head(t) = Stop)
    BY <1>1, OrderedJoined DEF AddAll
<1>2. CASE t # <<>> /\ Head(t) = Stop
    <2> DEFINE first == <<Stop>>
               back == Tail(t)
    <2>1. first \in Seq(S) /\ Len(first) = 1 /\ ToSet(first) = {Stop}
        BY DEF ToSet
    <2>2. Ordered(first, by)
        BY <2>1 DEF Ordered
    <2>3. back \in Seq(S) /\ Ordered(back, by) /\ ToSet(t) = ToSet(back) \cup {Stop}
        BY <1>2, OnceTail, OrderedTail
    <2>4. Before(ToSet(first), ToSet(s), by) /\ Before(ToSet(first), ToSet(back), by)
        BY <2>1, ExecutorAssumption DEF Before, Earlier
    <2> HIDE DEF first, back
    <2>5. first \o s \in Seq(S) /\ ToSet(first \o s) = ToSet(first) \cup ToSet(s)
        BY <2>1, OnceJoined
    <2>6. Ordered(first \o s, by)
        BY <2>1, <2>2, <2>4, OrderedJoined
    <2>7. Before(ToSet(first \o s), ToSet(back), by)
        BY <2>3, <2>4, <2>5 DEF Before
    <2>8. Ordered((first \o s) \o back, by)
        BY <2>3, <2>5, <2>6, <2>7, OrderedJoined
    <2> QED BY <1>2, <2>8 DEF AddAll, first, back
<1> QED BY <1>1, <1>2

LineInv == HandledInTurn /\ LineInOrder

\* Nothing is in line.
LEMMA LineInit == CallbacksInit => LineInv
<1> SUFFICES ASSUME CallbacksInit PROVE LineInv
    OBVIOUS
<1>1. /\ consumers = <<>> /\ queue = <<>> /\ current = NoTask /\ handledBy = <<>>
      /\ version = 0 /\ inHand = [w \in Thread |-> 0]
    BY DEF CallbacksInit, Init
<1>2. ToSet(consumers) = {} /\ ToSet(queue) = {} /\ InLine = {}
    BY <1>1, ExecutorAssumption DEF ToSet, InLine, Queued
<1>3. Ordered(consumers, handledBy) /\ Ordered(queue, handledBy)
    BY <1>1 DEF Ordered
<1>4. HandledInTurn
    BY <1>1, <1>2 DEF HandledInTurn
<1>5. LineInOrder
    BY <1>2, <1>3 DEF LineInOrder, Before
<1> QED BY <1>4, <1>5 DEF LineInv

\* What leaves the line, or takes another place in it, changes nothing for the threads.
LEMMA HandledKept ==
    ASSUME HandledInTurn, UNCHANGED <<version, inHand, handledBy>>, InLine' \subseteq InLine
    PROVE  HandledInTurn'
BY DEF HandledInTurn, Before

\* handleEvent: the new event comes after all that is in line.
LEMMA HandleEventLine ==
    ASSUME IInv, InHandIsTask, LineInv, NEW w \in Thread, HandleEvent(w)
    PROVE  LineInv'
<1> USE CallbacksAssumption
<1>1. /\ version' = version + 1 /\ inHand' = [inHand EXCEPT ![w] = version + 1]
      /\ handledBy' = Append(handledBy, w) /\ version \in Nat /\ inHand \in [Thread -> Task \cup {0}]
      /\ UNCHANGED <<consumers, queue, current, crowded>>
    BY DEF HandleEvent, vars, InHandIsTask
<1>2. handledBy \in Seq(Thread) /\ Len(handledBy) = version /\ InLine \subseteq 1..version
    BY DEF LineInv, HandledInTurn
<1>3. /\ handledBy' \in Seq(Thread) /\ Len(handledBy') = version' /\ handledBy'[version'] = w
      /\ \A n \in 1..version : handledBy'[n] = handledBy[n]
    BY <1>1, <1>2
<1>4. ASSUME NEW m \in InLine \cup {Stop, NoTask}, NEW n \in InLine \cup {Stop, NoTask},
             Earlier(m, n, handledBy)
      PROVE  Earlier(m, n, handledBy')
    BY <1>2, <1>3, <1>4, ExecutorAssumption DEF Earlier
<1>5. Queued \cup {current} \subseteq InLine \cup {Stop, NoTask}
    BY Elements DEF InLine, Queued, IInv, TypeOK
<1>6. InLine' = InLine
    BY <1>1 DEF InLine, Queued
<1>7. HandledInTurn'
    <2>1. ASSUME NEW v \in Thread, inHand'[v] # 0
          PROVE  /\ inHand'[v] <= version' /\ handledBy'[inHand'[v]] = v
                 /\ Before(InLine, {inHand'[v]}, handledBy')
        <3>1. CASE v = w
            <4>1. inHand'[v] = version'
                BY <1>1, <3>1
            <4>2. Before(InLine, {version'}, handledBy')
                BY <1>1, <1>2 DEF Before, Earlier
            <4> QED BY <1>1, <1>3, <3>1, <4>1, <4>2
        <3>2. CASE v # w
            <4>1. inHand'[v] = inHand[v]
                BY <1>1, <3>2
            <4>2. inHand[v] \in 1..version /\ handledBy[inHand[v]] = v
                <5>1. inHand[v] \in Task /\ inHand[v] <= version /\ handledBy[inHand[v]] = v
                    BY <1>1, <2>1, <4>1 DEF LineInv, HandledInTurn
                <5> QED BY <1>1, <5>1
            <4>3. Before(InLine, {inHand[v]}, handledBy)
                BY <2>1, <4>1 DEF LineInv, HandledInTurn
            <4>4. Before(InLine, {inHand[v]}, handledBy')
                BY <1>2, <1>3, <4>2, <4>3 DEF Before, Earlier
            <4>5. inHand'[v] <= version' /\ handledBy'[inHand'[v]] = v
                BY <1>1, <1>3, <4>1, <4>2
            <4> QED BY <4>1, <4>4, <4>5
        <3> QED BY <3>1, <3>2
    <2>2. InLine \subseteq 1..version'
        BY <1>1, <1>2
    <2> QED BY <1>3, <1>6, <2>1, <2>2 DEF HandledInTurn
<1>8. LineInOrder'
    <2>1. ASSUME NEW s, s = consumers \/ s = queue, Ordered(s, handledBy)
          PROVE  Ordered(s, handledBy')
        <3>1. \A i \in 1..Len(s) : s[i] \in InLine \cup {Stop, NoTask}
            BY <1>5, <2>1, Elements DEF Queued, IInv, TypeOK
        <3> QED BY <1>4, <2>1, <3>1 DEF Ordered
    <2>2. Before(ToSet(queue) \cup {current}, ToSet(consumers), handledBy')
        BY <1>4, <1>5 DEF LineInv, LineInOrder, Before, Queued
    <2>3. Before({current}, ToSet(queue), handledBy) => Before({current}, ToSet(queue), handledBy')
        BY <1>4, <1>5 DEF Before, Queued
    <2> QED BY <1>1, <2>1, <2>2, <2>3 DEF LineInv, LineInOrder
<1> QED BY <1>7, <1>8 DEF LineInv

\* The offer: what a thread submits comes after all of its own that is in line.
LEMMA OfferLine ==
    ASSUME IInv, InHandIsTask, LineInv, NEW w \in Thread, OfferCallbacks(w)
    PROVE  LineInv'
<1> DEFINE t == inHand[w]
<1>1. /\ t # 0 /\ inHand' = [inHand EXCEPT ![w] = 0]
      /\ consumers' = Append(consumers, t)
      /\ UNCHANGED <<version, handledBy, queue, current, crowded>>
    BY DEF OfferCallbacks, Offer
<1>2. t \in Task /\ consumers \in Seq(Task \cup {Stop}) /\ inHand \in [Thread -> Task \cup {0}]
    BY <1>1 DEF InHandIsTask, IInv, TypeOK
<1>3. /\ t <= version /\ handledBy[t] = w /\ Before(InLine, {t}, handledBy)
      /\ InLine \subseteq 1..version /\ version \in Nat
    <2>1. version \in Nat
        BY CallbacksAssumption DEF InHandIsTask
    <2> QED BY <1>1, <2>1 DEF LineInv, HandledInTurn
<1>4. ToSet(consumers') = ToSet(consumers) \cup {t}
    BY <1>1, <1>2, OnceAppended
<1>5. InLine' = InLine \cup {t}
    BY <1>1, <1>2, <1>4 DEF InLine, Queued
<1>6. ASSUME NEW m \in Queued \cup {current} PROVE Earlier(m, t, handledBy)
    BY <1>3 DEF Before, Earlier, InLine
<1>7. HandledInTurn'
    <2>1. t \in 1..version
        BY <1>2, <1>3, CallbacksAssumption
    <2>2. ASSUME NEW v \in Thread, inHand'[v] # 0
          PROVE  /\ inHand'[v] <= version /\ handledBy[inHand'[v]] = v
                 /\ Before(InLine \cup {t}, {inHand'[v]}, handledBy)
        <3>1. v # w /\ inHand'[v] = inHand[v]
            BY <1>1, <1>2, <2>2
        <3>2. inHand[v] <= version /\ handledBy[inHand[v]] = v /\ Before(InLine, {inHand[v]}, handledBy)
            BY <2>2, <3>1 DEF LineInv, HandledInTurn
        <3>3. Earlier(t, inHand[v], handledBy)
            BY <1>3, <3>1, <3>2 DEF Earlier
        <3> QED BY <3>1, <3>2, <3>3 DEF Before
    <2> QED BY <1>1, <1>3, <1>5, <2>1, <2>2 DEF LineInv, HandledInTurn
<1>8. LineInOrder'
    <2>1. Ordered(consumers', handledBy)
        <3>1. Before(ToSet(consumers), {t}, handledBy)
            BY <1>6 DEF Before, Queued
        <3> QED BY <1>1, <1>2, <3>1, OrderedAppended DEF LineInv, LineInOrder
    <2>2. Before(ToSet(queue) \cup {current}, ToSet(consumers'), handledBy)
        BY <1>4, <1>6 DEF LineInv, LineInOrder, Before, Queued
    <2> QED BY <1>1, <2>1, <2>2 DEF LineInv, LineInOrder
<1> QED BY <1>7, <1>8 DEF LineInv

\* take and drainRunnables keep what is in line in its order.
LEMMA DrainLine ==
    ASSUME IInv, LineInv, Take \/ Drain, UNCHANGED cvars
    PROVE  LineInv'
<1> DEFINE S == Task \cup {Stop}
<1>1. consumers \in Seq(S) /\ queue \in Seq(S) /\ current = NoTask
    BY DEF IInv, TypeOK, Take, Drain
<1>2. UNCHANGED <<version, inHand, handledBy, crowded, current>>
    BY DEF cvars, Take, Drain
<1>3. \A T, by : Before({current}, T, by)
    BY <1>1, ExecutorAssumption DEF Before, Earlier
<1>4. /\ Ordered(consumers, handledBy) /\ Before(ToSet(queue), ToSet(consumers), handledBy)
      /\ ~crowded => Ordered(queue, handledBy)
    BY DEF LineInv, LineInOrder, Before
<1>5. CASE Take
    <2>1. /\ consumers # <<>> /\ queue' = <<Head(consumers)>> /\ consumers' = Tail(consumers)
        BY <1>5 DEF Take
    <2>2. /\ Head(consumers) \in S
          /\ ToSet(consumers) = ToSet(consumers') \cup {Head(consumers)}
          /\ Ordered(consumers', handledBy)
          /\ Before({Head(consumers)}, ToSet(consumers'), handledBy)
        BY <1>1, <1>4, <2>1, OnceTail, OrderedTail
    <2>3. queue' \in Seq(S) /\ Len(queue') = 1 /\ ToSet(queue') = {Head(consumers)}
        BY <2>1, <2>2 DEF ToSet
    <2>4. Ordered(queue', handledBy)
        BY <2>3 DEF Ordered
    <2>5. ToSet(queue) = {}
        BY <1>5 DEF Take, IInv, OnePlace, ToSet
    <2>6. InLine' \subseteq InLine
        BY <1>2, <2>2, <2>3, <2>5 DEF InLine, Queued
    <2>7. LineInOrder'
        BY <1>2, <1>3, <2>2, <2>3, <2>4 DEF LineInOrder, Before
    <2> QED BY <1>2, <2>6, <2>7, HandledKept DEF LineInv
<1>6. CASE Drain
    <2>1. /\ queue' = AddAll(queue, consumers) /\ consumers' = <<>> /\ queue # <<>>
        BY <1>6 DEF Drain, DrainLeaves, IInv, TypeOK
    <2>2. ToSet(consumers') = {} /\ Ordered(consumers', handledBy)
        BY <2>1 DEF ToSet, Ordered
    <2>3. ToSet(queue') = ToSet(queue) \cup ToSet(consumers)
        BY <1>1, <2>1, AddedOnce DEF IInv, OnePlace
    <2>4. ~crowded => Ordered(queue', handledBy)
        BY <1>1, <1>4, <2>1, OrderedAdded
    <2>5. InLine' \subseteq InLine
        BY <1>2, <2>2, <2>3 DEF InLine, Queued
    <2>6. LineInOrder'
        BY <1>2, <1>3, <2>2, <2>4 DEF LineInOrder, Before
    <2> QED BY <1>2, <2>5, <2>6, HandledKept DEF LineInv
<1> QED BY <1>5, <1>6

\* PriorityQueue.poll keeps the order of two tasks; of three it does not.
LEMMA PollLine ==
    ASSUME IInv, LineInv, PollTask
    PROVE  LineInv'
<1> DEFINE S == Task \cup {Stop}
<1>1. consumers \in Seq(S) /\ queue \in Seq(S) /\ queue # <<>>
    BY DEF IInv, TypeOK, PollTask, Poll
<1>2. /\ current' = Head(queue) /\ queue' = Rest(queue)
      /\ crowded' = (Len(queue) > 1 /\ (crowded \/ Len(queue) > 2))
      /\ UNCHANGED <<consumers, version, inHand, handledBy>>
    BY DEF PollTask, Poll
<1>3. /\ queue' \in Seq(S) /\ ToSet(queue') = ToSet(queue) \ {Head(queue)}
      /\ Head(queue) \in ToSet(queue)
    <2>1. Head(queue) = queue[1] /\ 1 \in 1..Len(queue)
        BY <1>1
    <2>2. Head(queue) \in ToSet(queue)
        BY <1>1, <2>1, Elements
    <2> QED BY <1>1, <1>2, <2>2, OnceRest DEF IInv, OnePlace
<1>4. InLine' \subseteq InLine
    BY <1>2, <1>3 DEF InLine, Queued
<1>5. Before(ToSet(queue') \cup {current'}, ToSet(consumers'), handledBy')
    BY <1>2, <1>3 DEF LineInv, LineInOrder, Before
<1>6. ASSUME ~crowded'
      PROVE  Ordered(queue', handledBy) /\ Before({current'}, ToSet(queue'), handledBy)
    <2>1. CASE Len(queue) = 1
        <3>1. queue' = <<>> /\ ToSet(queue') = {}
            BY <1>2, <2>1 DEF Rest, ToSet
        <3> QED BY <3>1 DEF Ordered, Before
    <2>2. CASE Len(queue) # 1
        <3>1. Len(queue) = 2 /\ ~crowded
            <4> DEFINE n == Len(queue)
            <4>1. ~(n > 1 /\ (crowded \/ n > 2))
                BY <1>2, <1>6, Zenon
            <4>2. n \in Nat /\ n # 0 /\ n # 1
                BY <1>1, <2>2, Elements
            <4> HIDE DEF n
            <4>3. n > 1
                BY <4>2
            <4>4. ~crowded /\ ~(n > 2)
                BY <4>1, <4>3, Zenon
            <4>5. n = 2
                BY <4>2, <4>3, <4>4
            <4> QED BY <4>4, <4>5 DEF n
        <3>2. Ordered(queue, handledBy)
            BY <3>1 DEF LineInv, LineInOrder
        <3>3. queue' = <<Last(queue)>> \o SubSeq(queue, 2, 1)
            BY <1>2, <3>1 DEF Rest
        <3>4. Last(queue) = queue[2] /\ Head(queue) = queue[1] /\ queue[2] \in S
            <4>1. queue \in Seq(S) /\ Len(queue) = 2
                BY <1>1, <3>1, Zenon
            <4>2. queue # <<>> /\ queue[2] \in S
                BY <4>1
            <4> QED BY <4>1, <4>2 DEF Last
        <3>5. SubSeq(queue, 2, 1) = <<>>
            BY <1>1, <3>1
        <3>6. Len(queue') = 1 /\ queue'[1] = queue[2]
            BY <3>3, <3>4, <3>5
        <3>7. ToSet(queue') = {queue[2]} /\ Ordered(queue', handledBy)
            BY <1>3, <3>6, Elements DEF Ordered
        <3>8. Earlier(queue[1], queue[2], handledBy)
            BY <3>1, <3>2 DEF Ordered
        <3> QED BY <1>2, <3>4, <3>7, <3>8 DEF Before
    <2> QED BY <2>1, <2>2
<1>7. LineInOrder'
    BY <1>2, <1>5, <1>6 DEF LineInv, LineInOrder
<1> QED BY <1>2, <1>4, <1>7, HandledKept DEF LineInv

\* What the line is made of does not change.
LEMMA LineKept ==
    ASSUME LineInv, UNCHANGED <<consumers, queue, current, version, inHand, handledBy, crowded>>
    PROVE  LineInv'
BY DEF LineInv, HandledInTurn, LineInOrder, InLine, Queued

\* A task ends, close clears consumers, a thread finds the tree closed.
LEMMA LeaveLine ==
    ASSUME IInv, InHandIsTask, LineInv,
           FinishTask \/ CloseExecutor \/ \E w \in Thread : DropCallbacks(w)
    PROVE  LineInv'
<1> USE ExecutorAssumption
<1>1. CASE FinishTask
    <2>1. current' = NoTask /\ UNCHANGED <<consumers, queue, version, inHand, handledBy, crowded>>
        BY <1>1 DEF FinishTask, Finish
    <2>2. InLine' \subseteq InLine
        BY <2>1 DEF InLine, Queued
    <2>3. LineInOrder'
        BY <2>1 DEF LineInv, LineInOrder, Before, Earlier
    <2> QED BY <2>1, <2>2, <2>3, HandledKept DEF LineInv
<1>2. CASE CloseExecutor
    <2>1. UNCHANGED <<queue, current, version, inHand, handledBy, crowded>>
        BY <1>2 DEF CloseExecutor, Close, CloseSet, CloseClear, CloseInterrupt, cvars
    <2>2. CASE UNCHANGED consumers
        BY <2>1, <2>2, LineKept
    <2>3. CASE consumers' = <<Stop>>
        <3>1. ToSet(consumers') = {Stop} /\ Ordered(consumers', handledBy)
            BY <2>3 DEF ToSet, Ordered
        <3>2. InLine' \subseteq InLine
            BY <2>1, <3>1 DEF InLine, Queued
        <3>3. LineInOrder'
            BY <2>1, <3>1 DEF LineInv, LineInOrder, Before, Earlier
        <3> QED BY <2>1, <3>2, <3>3, HandledKept DEF LineInv
    <2> QED BY <1>2, <2>2, <2>3 DEF CloseExecutor, Close, CloseSet, CloseClear, CloseInterrupt
<1>3. ASSUME NEW w \in Thread, DropCallbacks(w)
      PROVE  LineInv'
    <2>1. /\ UNCHANGED <<consumers, queue, current, version, handledBy, crowded>>
          /\ inHand' = [inHand EXCEPT ![w] = 0] /\ inHand \in [Thread -> Task \cup {0}]
        BY <1>3 DEF DropCallbacks, vars, InHandIsTask
    <2>2. InLine' = InLine
        BY <2>1 DEF InLine, Queued
    <2>3. HandledInTurn'
        BY <2>1, <2>2 DEF LineInv, HandledInTurn
    <2>4. LineInOrder'
        BY <2>1 DEF LineInv, LineInOrder
    <2> QED BY <2>3, <2>4 DEF LineInv
<1> QED BY <1>1, <1>2, <1>3

\* Every step keeps the line in order.
LEMMA LineStep == IInv /\ CInv /\ LineInv /\ [CallbacksNext]_allVars => LineInv'
<1> SUFFICES ASSUME IInv, CInv, LineInv, [CallbacksNext]_allVars PROVE LineInv'
    OBVIOUS
<1>1. InHandIsTask
    BY DEF CInv
<1>2. CASE UNCHANGED allVars
    BY <1>2, LineKept DEF allVars, vars, cvars
<1>3. CASE WorkerStep
    <2>1. UNCHANGED cvars
        BY <1>3 DEF WorkerStep
    <2>2. CASE Check \/ TakeThrows
        BY <2>1, <2>2, LineKept DEF Check, TakeThrows, cvars
    <2> QED BY <1>3, <2>1, <2>2, DrainLine DEF WorkerStep
<1>4. CASE PollTask
    BY <1>4, PollLine
<1>5. CASE FinishTask \/ CloseExecutor
    BY <1>1, <1>5, LeaveLine
<1>6. CASE CopyObservers \/ CloseObservers \/ CloseTree
    BY <1>6, LineKept DEF CopyObservers, CloseObservers, CloseTree, vars
<1>7. ASSUME NEW h \in Handle, CallObserver(h) \/ AddObserver(h) \/ RemoveObserver(h)
      PROVE  LineInv'
    BY <1>7, LineKept DEF CallObserver, AddObserver, RemoveObserver, vars
<1>8. ASSUME NEW w \in Thread, HandleEvent(w) \/ Watcher(w)
      PROVE  LineInv'
    <2>1. CASE RunCallbacks(w)
        BY <2>1, LineKept DEF RunCallbacks, Run, cvars
    <2> QED BY <1>1, <1>8, <2>1, HandleEventLine, OfferLine, LeaveLine DEF Watcher
<1> QED BY <1>2, <1>3, <1>4, <1>5, <1>6, <1>7, <1>8 DEF CallbacksNext, Worker, Closer

\* The executor's invariant and that of the threads hold together with the order.
LEMMA LineInvariant == CallbacksSpec => [](IInv /\ CInv /\ LineInv)
<1>1. CallbacksSpec => []IInv
    BY CallbacksRunExecutor, InvariantHolds, PTL
<1>2. CallbacksSpec => []CInv
    BY CallbacksInvariant
<1>3. IInv /\ CInv /\ LineInv /\ [CallbacksNext]_allVars => LineInv'
    BY LineStep
<1> QED BY <1>1, <1>2, <1>3, LineInit, PTL DEF CallbacksSpec

\* An observer learns of one thread's events in the order in which they were handled,
\* for any number of events and threads, while no three of them have met in the
\* worker's heap: however long the blocking queue grew meanwhile, and whenever close
\* put STOP before what waits (FileCacheDirectoryTree.java:370 and Executor.java:70).
THEOREM CallbacksComeInOrder == CallbacksSpec => []InOrderUnlessCrowded
<1>1. ASSUME IInv, LineInv PROVE InOrderUnlessCrowded
    <2> DEFINE S == Task \cup {Stop, NoTask}
               first == <<current>>
               line == (first \o queue) \o consumers
    <2> SUFFICES ASSUME ~crowded
                 PROVE  \A i, j \in DOMAIN line :
                            /\ i < j /\ {line[i], line[j]} \subseteq Task
                            /\ handledBy[line[i]] = handledBy[line[j]]
                            => line[i] < line[j]
        BY Zenon DEF InOrderUnlessCrowded
    <2>1. /\ consumers \in Seq(S) /\ queue \in Seq(S) /\ current \in S
        BY <1>1 DEF IInv, TypeOK
    <2>2. first \in Seq(S) /\ ToSet(first) = {current} /\ Ordered(first, handledBy)
        BY <2>1 DEF ToSet, Ordered
    <2>3. /\ Ordered(consumers, handledBy) /\ Ordered(queue, handledBy)
          /\ Before(ToSet(first), ToSet(queue), handledBy)
          /\ Before(ToSet(queue) \cup ToSet(first), ToSet(consumers), handledBy)
        BY <1>1, <2>2 DEF LineInv, LineInOrder
    <2> HIDE DEF first
    <2>4. first \o queue \in Seq(S) /\ ToSet(first \o queue) = ToSet(first) \cup ToSet(queue)
        BY <2>1, <2>2, OnceJoined
    <2>5. Ordered(first \o queue, handledBy)
        BY <2>1, <2>2, <2>3, OrderedJoined
    <2>6. Before(ToSet(first \o queue), ToSet(consumers), handledBy)
        BY <2>3, <2>4 DEF Before
    <2>7. line \in Seq(S) /\ Ordered(line, handledBy)
        BY <2>1, <2>3, <2>4, <2>5, <2>6, OnceJoined, OrderedJoined
    <2> HIDE DEF line
    <2>8. DOMAIN line = 1..Len(line)
        BY <2>7
    <2> QED BY <2>7, <2>8 DEF Ordered, Earlier
<1> QED BY <1>1, LineInvariant, PTL
-----------------------------------------------------------------------------
(* How often an observer is called *)

\* How often n is in a sequence.
Occurrences(s, n) == Cardinality({i \in DOMAIN s : s[i] = n})

\* One more call is counted once.
LEMMA OccurrencesAppended ==
    ASSUME NEW S, NEW s \in Seq(S), NEW m \in S, NEW n
    PROVE  /\ Occurrences(s, n) \in Nat
           /\ Occurrences(Append(s, m), n) = IF m = n THEN Occurrences(s, n) + 1 ELSE Occurrences(s, n)
<1> DEFINE before == {i \in 1..Len(s) : s[i] = n}
           after  == {i \in 1..Len(Append(s, m)) : Append(s, m)[i] = n}
           last   == Len(s) + 1
<1>1. Len(s) \in Nat /\ Append(s, m) \in Seq(S) /\ Len(Append(s, m)) = last
    OBVIOUS
<1>2. DOMAIN s = 1..Len(s) /\ DOMAIN Append(s, m) = 1..Len(Append(s, m))
    BY <1>1
<1>3. Occurrences(s, n) = Cardinality(before) /\ Occurrences(Append(s, m), n) = Cardinality(after)
    BY <1>2 DEF Occurrences
<1>4. IsFiniteSet(before)
    <2>1. IsFiniteSet(1..Len(s)) /\ before \subseteq 1..Len(s)
        BY <1>1, FS_Interval
    <2> QED BY <2>1, FS_Subset, Zenon
<1>5. \A i \in 1..Len(s) : Append(s, m)[i] = s[i]
    OBVIOUS
<1>6. Append(s, m)[last] = m /\ last \notin before
    BY <1>1
<1>7. CASE m = n
    <2>1. after = before \cup {last}
        BY <1>1, <1>5, <1>6, <1>7
    <2> HIDE DEF before, after
    <2>2. Cardinality(after) = Cardinality(before) + 1
        BY <1>4, <1>6, <2>1, FS_AddElement
    <2> QED BY <1>3, <1>4, <1>7, <2>2, FS_CardinalityType
<1>8. CASE m # n
    <2>1. after = before
        BY <1>1, <1>5, <1>6, <1>8
    <2> QED BY <1>3, <1>4, <1>8, <2>1, FS_CardinalityType
<1> QED BY <1>7, <1>8

\* The numbers of events that no callback was called for.
Untold == (Task \ 1..version) \cup ({inHand[w] : w \in Thread} \ {0}) \cup Waiting

\* An observer was called once at most by each callback of the current task that
\* has begun, but for the one that has yet to call it.
CallsCounted ==
    /\ told \in [Handle -> Seq(Task)]
    /\ part \in 0..PerEvent
    /\ copy \subseteq Handle
    /\ copy # {} => current \in Task
    /\ \A h \in Handle, n \in Task :
        /\ CallsFor(h, n) <= PerEvent
        /\ n \in Untold => CallsFor(h, n) = 0
        /\ n = current => CallsFor(h, n) <= IF h \in copy THEN part - 1 ELSE part

\* CallsFor counts occurrences.
LEMMA CallsAreOccurrences ==
    \A h, n : CallsFor(h, n) = Occurrences(told[h], n) /\ CallsFor(h, n)' = Occurrences(told'[h], n)
BY DEF CallsFor, Occurrences

\* Nobody was called.
LEMMA CallsInit == CallbacksInit => CallsCounted
<1> SUFFICES ASSUME CallbacksInit PROVE CallsCounted
    OBVIOUS
<1>1. told = [h \in Handle |-> <<>>] /\ part = 0 /\ copy = {}
    BY DEF CallbacksInit
<1>2. \A n : Occurrences(<<>>, n) = 0
    <2>1. \A n : {i \in DOMAIN <<>> : <<>>[i] = n} = {}
        OBVIOUS
    <2> QED BY <2>1, FS_EmptySet DEF Occurrences
<1>3. \A h \in Handle, n \in Task : CallsFor(h, n) = 0
    BY <1>1, <1>2, CallsAreOccurrences
<1> QED BY <1>1, <1>3, CallbacksAssumption DEF CallsCounted

\* Where no task is taken and none called for, what was not told stays so.
LEMMA CallsKept ==
    ASSUME CallsCounted, UNCHANGED <<told, part, copy, current>>, Untold' \subseteq Untold
    PROVE  CallsCounted'
BY CallsAreOccurrences DEF CallsCounted

\* The part of the invariants that the count relies on: what is being told is over
\* for the threads and the queues.
LEMMA CurrentIsTold ==
    ASSUME IInv, InHandIsTask, HandledInTurn, current \in Task
    PROVE  current \notin Untold
<1>1. current \notin Waiting
    BY DEF IInv, OnePlace, Queued, Waiting
<1>2. current \in 1..version /\ current \in InLine
    BY DEF HandledInTurn, InLine
<1>3. ASSUME NEW w \in Thread, inHand[w] = current PROVE FALSE
    <2>1. current # 0 /\ current < current
        <3>1. current # 0
            BY CallbacksAssumption
        <3>2. Before(InLine, {current}, handledBy)
            BY <1>3, <3>1 DEF HandledInTurn
        <3> QED BY <1>2, <3>1, <3>2 DEF Before, Earlier
    <2> QED BY <2>1, <1>2, CallbacksAssumption
<1> QED BY <1>1, <1>2, <1>3 DEF Untold

\* The steps of the watcher's threads: an event is untold until it is polled.
LEMMA WatcherCalls ==
    ASSUME IInv, InHandIsTask, CallsCounted, NEW w \in Thread, HandleEvent(w) \/ Watcher(w)
    PROVE  CallsCounted'
<1>1. UNCHANGED <<told, part, copy, current, queue>>
    BY DEF HandleEvent, Watcher, RunCallbacks, OfferCallbacks, DropCallbacks, Run, Offer, vars, cvars
<1>2. inHand \in [Thread -> Task \cup {0}] /\ version \in Nat
    BY CallbacksAssumption DEF InHandIsTask
<1>3. CASE HandleEvent(w)
    <2>1. /\ version' = version + 1 /\ inHand' = [inHand EXCEPT ![w] = version + 1]
          /\ UNCHANGED consumers /\ version + 1 \in Task
        BY <1>3, CallbacksAssumption DEF HandleEvent, vars, InHandIsTask
    <2>2. Waiting' = Waiting
        BY <1>1, <2>1 DEF Waiting
    <2>3. ASSUME NEW n \in Untold' PROVE n \in Untold
        <3>1. CASE n = version + 1
            BY <1>2, <2>1, <3>1 DEF Untold
        <3>2. CASE n # version + 1
            BY <1>2, <2>1, <2>2, <2>3, <3>2 DEF Untold
        <3> QED BY <3>1, <3>2
    <2> QED BY <1>1, <2>3, CallsKept
<1>4. CASE RunCallbacks(w)
    <2>1. UNCHANGED <<consumers, version, inHand>>
        BY <1>4 DEF RunCallbacks, Run, cvars
    <2>2. Untold' = Untold
        BY <1>1, <2>1 DEF Untold, Waiting
    <2> QED BY <1>1, <2>2, CallsKept
<1>5. CASE OfferCallbacks(w)
    <2>1. /\ inHand[w] \in Task \ {0} /\ inHand' = [inHand EXCEPT ![w] = 0]
          /\ consumers' = Append(consumers, inHand[w]) /\ UNCHANGED version
          /\ consumers \in Seq(Task \cup {Stop})
        BY <1>2, <1>5 DEF OfferCallbacks, Offer, IInv, TypeOK
    <2>2. ToSet(consumers') = ToSet(consumers) \cup {inHand[w]}
        BY <2>1, OnceAppended
    <2>3. Waiting' \subseteq Waiting \cup {inHand[w]}
        BY <1>1, <2>2 DEF Waiting
    <2>4. \A v \in Thread : inHand'[v] # 0 => inHand'[v] = inHand[v]
        BY <1>2, <2>1
    <2>5. Untold' \subseteq Untold
        BY <2>1, <2>3, <2>4 DEF Untold
    <2> QED BY <1>1, <2>5, CallsKept
<1>6. CASE DropCallbacks(w)
    <2>1. inHand' = [inHand EXCEPT ![w] = 0] /\ UNCHANGED <<version, consumers>>
        BY <1>6 DEF DropCallbacks, vars
    <2>2. \A v \in Thread : inHand'[v] # 0 => inHand'[v] = inHand[v]
        BY <1>2, <2>1
    <2>3. Untold' \subseteq Untold
        BY <1>1, <2>1, <2>2 DEF Untold, Waiting
    <2> QED BY <1>1, <2>3, CallsKept
<1> QED BY <1>3, <1>4, <1>5, <1>6 DEF Watcher

\* What waits moves within the executor, or close clears it.
LEMMA MovedCalls ==
    ASSUME IInv, CallsCounted, WorkerStep \/ CloseExecutor
    PROVE  CallsCounted'
<1> DEFINE S == Task \cup {Stop}
<1>1. UNCHANGED <<told, part, copy, version, inHand>>
    BY DEF WorkerStep, CloseExecutor, cvars
<1>2. consumers \in Seq(S) /\ queue \in Seq(S)
    BY DEF IInv, TypeOK
<1>3. UNCHANGED current /\ Waiting' \subseteq Waiting
    <2>1. CASE Check \/ TakeThrows \/ CloseSet \/ CloseInterrupt
        BY <2>1 DEF Check, TakeThrows, CloseSet, CloseInterrupt, Waiting
    <2>2. CASE Take
        <3>1. consumers # <<>> /\ queue' = <<Head(consumers)>> /\ consumers' = Tail(consumers)
            BY <2>2 DEF Take
        <3>2. Head(consumers) \in S /\ ToSet(consumers) = ToSet(consumers') \cup {Head(consumers)}
            BY <1>2, <3>1, OnceTail
        <3>3. Len(queue') = 1 /\ queue'[1] = Head(consumers) /\ queue' \in Seq(S)
            BY <3>1, <3>2
        <3>4. ToSet(queue') = {Head(consumers)}
            BY <3>3 DEF ToSet
        <3> QED BY <2>2, <3>2, <3>4 DEF Take, Waiting
    <2>3. CASE Drain
        <3>1. queue' = AddAll(queue, consumers) /\ consumers' = <<>> /\ queue # <<>>
            BY <2>3 DEF Drain, DrainLeaves, IInv, TypeOK
        <3>2. ToSet(queue') = ToSet(queue) \cup ToSet(consumers)
            BY <1>2, <3>1, AddedOnce DEF IInv, OnePlace
        <3>3. ToSet(consumers') = {}
            BY <3>1 DEF ToSet
        <3> QED BY <2>3, <3>2, <3>3 DEF Drain, Waiting
    <2>4. CASE CloseClear
        <3>1. consumers' = <<Stop>> /\ ToSet(consumers') = {Stop} /\ UNCHANGED <<queue, current>>
            BY <2>4 DEF CloseClear, ToSet
        <3> QED BY <3>1 DEF Waiting
    <2> QED BY <2>1, <2>2, <2>3, <2>4 DEF WorkerStep, CloseExecutor, Close
<1>4. Untold' \subseteq Untold
    BY <1>1, <1>3 DEF Untold
<1> QED BY <1>1, <1>3, <1>4, CallsKept

\* A task begins and ends; it is counted anew for the callbacks that it holds.
LEMMA TaskCalls ==
    ASSUME IInv, CallsCounted, PollTask \/ FinishTask
    PROVE  CallsCounted'
<1> DEFINE S == Task \cup {Stop}
<1> USE ExecutorAssumption, CallbacksAssumption
<1>1. CASE PollTask
    <2>1. /\ current = NoTask /\ queue # <<>> /\ queue \in Seq(S)
          /\ current' = Head(queue) /\ queue' = Rest(queue)
          /\ UNCHANGED <<consumers, told, part, copy, version, inHand>>
        BY <1>1 DEF PollTask, Poll, IInv, TypeOK
    <2>2. /\ ToSet(queue') = ToSet(queue) \ {Head(queue)} /\ Head(queue) \in ToSet(queue)
        <3>1. Head(queue) = queue[1] /\ 1 \in 1..Len(queue)
            BY <2>1
        <3>2. Head(queue) \in ToSet(queue)
            BY <2>1, <3>1, Elements
        <3> QED BY <2>1, <3>2, OnceRest DEF IInv, OnePlace
    <2>3. Untold' \subseteq Untold
        BY <2>1, <2>2 DEF Untold, Waiting
    <2>4. current' \in Task => current' \in Untold
        BY <2>1, <2>2 DEF Untold, Waiting
    <2>5. copy = {} /\ part \in Nat
        BY <2>1 DEF CallsCounted
    <2>6. \A h \in Handle, n \in Task : CallsFor(h, n)' = CallsFor(h, n)
        BY <2>1, CallsAreOccurrences
    <2> QED BY <2>1, <2>3, <2>4, <2>5, <2>6 DEF CallsCounted
<1>2. CASE FinishTask
    <2>1. current' = NoTask /\ part' = 0 /\ UNCHANGED <<consumers, queue, told, copy, version, inHand>>
        BY <1>2 DEF FinishTask, Finish
    <2>2. copy = {}
        BY <1>2 DEF FinishTask, CallsCounted
    <2>3. Untold' = Untold
        BY <2>1 DEF Untold, Waiting
    <2>4. \A h \in Handle, n \in Task : CallsFor(h, n)' = CallsFor(h, n)
        BY <2>1, CallsAreOccurrences
    <2> QED BY <2>1, <2>2, <2>3, <2>4 DEF CallsCounted
<1> QED BY <1>1, <1>2

\* A callback copies the observers and calls each of the copy once.
LEMMA ObserverCalls ==
    ASSUME IInv, InHandIsTask, HandledInTurn, CallsCounted,
           CopyObservers \/ \E h \in Handle : CallObserver(h)
    PROVE  CallsCounted'
<1> USE CallbacksAssumption
<1>1. Untold' = Untold /\ UNCHANGED current
    BY DEF CopyObservers, CallObserver, vars, Untold, Waiting
<1>2. CASE CopyObservers
    <2>1. current \in Task /\ part < PerEvent /\ part' = part + 1 /\ copy = {} /\ UNCHANGED told
        BY <1>2 DEF CopyObservers
    <2>2. copy' \subseteq Handle
        BY <1>2 DEF CopyObservers, Copied, Added, Cleared
    <2>3. \A h \in Handle, n \in Task : CallsFor(h, n)' = CallsFor(h, n)
        BY <2>1, CallsAreOccurrences
    <2>4. \A h \in Handle, n \in Task : CallsFor(h, n) \in Nat
        BY OccurrencesAppended, CallsAreOccurrences DEF CallsCounted
    <2> QED BY <1>1, <2>1, <2>2, <2>3, <2>4 DEF CallsCounted
<1>3. ASSUME NEW h \in Handle, CallObserver(h)
      PROVE  CallsCounted'
    <2>1. /\ h \in copy /\ copy' = copy \ {h} /\ UNCHANGED part
          /\ told' = [told EXCEPT ![h] = Append(@, current)]
          /\ current \in Task /\ told \in [Handle -> Seq(Task)]
        BY <1>3 DEF CallObserver, CallsCounted
    <2>2. told' \in [Handle -> Seq(Task)]
        BY <2>1
    <2>3. current \notin Untold
        BY <2>1, CurrentIsTold
    <2>4. ASSUME NEW g \in Handle, NEW n \in Task
          PROVE  /\ CallsFor(g, n) \in Nat
                 /\ CallsFor(g, n)' = IF g = h /\ n = current THEN CallsFor(g, n) + 1
                                      ELSE CallsFor(g, n)
        <3>1. told[g] \in Seq(Task)
            BY <2>1
        <3>2. told'[g] = IF g = h THEN Append(told[g], current) ELSE told[g]
            BY <2>1
        <3> QED BY <2>1, <3>1, <3>2, OccurrencesAppended, CallsAreOccurrences
    <2>5. CallsFor(h, current) <= part - 1 /\ part \in 0..PerEvent
        BY <2>1 DEF CallsCounted
    <2>6. ASSUME NEW g \in Handle, NEW n \in Task
          PROVE  /\ CallsFor(g, n)' <= PerEvent
                 /\ n \in Untold => CallsFor(g, n)' = 0
                 /\ n = current => CallsFor(g, n)' <= IF g \in copy' THEN part - 1 ELSE part
        <3>1. CASE g = h /\ n = current
            BY <2>1, <2>3, <2>4, <2>5, <3>1
        <3>2. CASE ~(g = h /\ n = current)
            BY <2>1, <2>4, <3>2 DEF CallsCounted
        <3> QED BY <3>1, <3>2
    <2> QED BY <1>1, <2>1, <2>2, <2>6 DEF CallsCounted
<1> QED BY <1>2, <1>3

\* Every step keeps the count.
LEMMA CallsStep ==
    IInv /\ CInv /\ LineInv /\ CallsCounted /\ [CallbacksNext]_allVars => CallsCounted'
<1> SUFFICES ASSUME IInv, CInv, LineInv, CallsCounted, [CallbacksNext]_allVars PROVE CallsCounted'
    OBVIOUS
<1>1. InHandIsTask /\ HandledInTurn
    BY DEF CInv, LineInv
<1>2. CASE UNCHANGED <<told, part, copy, current, consumers, queue, version, inHand>>
    <2>1. Untold' = Untold
        BY <1>2 DEF Untold, Waiting
    <2> QED BY <1>2, <2>1, CallsKept
<1>3. CASE UNCHANGED allVars
    BY <1>2, <1>3 DEF allVars, vars, cvars
<1>4. CASE Worker
    BY <1>1, <1>4, MovedCalls, TaskCalls, ObserverCalls DEF Worker
<1>5. CASE Closer \/ CloseTree
    BY <1>2, <1>5, MovedCalls DEF Closer, CloseObservers, CloseTree, vars
<1>6. ASSUME NEW h \in Handle, AddObserver(h) \/ RemoveObserver(h)
      PROVE  CallsCounted'
    BY <1>2, <1>6 DEF AddObserver, RemoveObserver, vars
<1>7. CASE \E w \in Thread : HandleEvent(w) \/ Watcher(w)
    BY <1>1, <1>7, WatcherCalls
<1> QED BY <1>3, <1>4, <1>5, <1>6, <1>7 DEF CallbacksNext

\* No callback reaches an observer twice, for any number of events, of callbacks per
\* event, of threads and of observers: not by a task that is drained and polled, nor
\* when handles are added and removed while copies are called (CacheObservers.java:20,
\* Executor.java:57).
THEOREM EachCallbackTellsOnce == CallbacksSpec => []ToldOnce
<1>1. IInv /\ CInv /\ LineInv /\ CallsCounted /\ [CallbacksNext]_allVars => CallsCounted'
    BY CallsStep
<1>2. CallsCounted => ToldOnce
    BY DEF CallsCounted, ToldOnce
<1> QED BY <1>1, <1>2, CallsInit, LineInvariant, PTL DEF CallbacksSpec
=============================================================================
