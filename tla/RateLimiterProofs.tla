-------------------------- MODULE RateLimiterProofs --------------------------
(***************************************************************************)
(* The limiter and the court workers behind it, for any number of callers  *)
(* and any stretch of time: the bound on bursts, the queue and the types,  *)
(* that the workers use the limiter as module RateLimiter says, and the    *)
(* bound on the requests that the court service sees.                      *)
(***************************************************************************)
EXTENDS Court, FiniteSetTheorems, SequenceTheorems, TLAPS

\* BurstBound is not inductive: a grant from what is left must have been paid
\* for.  While the window is open, grants and what is left of the burst grow
\* only with the ticks.
BurstInv ==
    /\ tick \in 0..1 /\ held \in 0..1 /\ token \in 0..1
    /\ ticksIn \in Nat /\ grantsIn \in Nat
    /\ grantsIn <= ticksIn + Burst
    /\ window = "before" => grantsIn = 0 /\ ticksIn = 0
    /\ window = "open" => grantsIn + (tick + held + token) <= ticksIn + Burst

LEMMA BurstInvariant == Spec => []BurstInv
<1> USE DEF BurstInv, Burst
<1>1. Init => BurstInv
  BY DEF Init
<1>2. BurstInv /\ [Next]_vars => BurstInv'
  <2> SUFFICES ASSUME BurstInv, [Next]_vars PROVE BurstInv'
    OBVIOUS
  <2> USE DEF limiter, observer
  <2>1. ASSUME NEW c \in Callers, Wait(c) PROVE BurstInv'
    BY <2>1 DEF Wait, Grant
  <2>2. ASSUME NEW c \in Callers, Cancel(c) \/ Leave(c) PROVE BurstInv'
    BY <2>2 DEF Cancel, Leave
  <2>3. CASE Tick
    BY <2>3 DEF Tick
  <2>4. CASE Receive
    BY <2>4 DEF Receive
  <2>5. CASE Deposit
    BY <2>5 DEF Deposit, Grant
  <2>6. CASE Stop
    BY <2>6 DEF Stop
  <2>7. CASE OpenWindow
    BY <2>7 DEF OpenWindow
  <2>8. CASE UNCHANGED vars
    BY <2>8 DEF vars
  <2> QED BY <2>1, <2>2, <2>3, <2>4, <2>5, <2>6, <2>7, <2>8 DEF Next
<1> QED BY <1>1, <1>2, PTL DEF Spec

\* Over any stretch of time callers get through at most once per tick plus
\* the burst of three (ratelimiter.go:39-51), however the refill goroutine is
\* scheduled and whoever cancels or stops.
THEOREM BurstBounded == Spec => []BurstBound
<1>1. BurstInv => BurstBound
  BY DEF BurstInv, BurstBound
<1> QED BY <1>1, BurstInvariant, PTL

-----------------------------------------------------------------------------
\* q holds the members of W, each of them once.
Holds(q, W) ==
    /\ q \in Seq(W)
    /\ \A i, j \in 1..Len(q) : q[i] = q[j] => i = j
    /\ \A c \in W : \E i \in 1..Len(q) : q[i] = c

LEMMA HoldsAppend ==
  ASSUME NEW W, NEW q, Holds(q, W), NEW c, c \notin W
  PROVE  Holds(Append(q, c), W \cup {c})
<1>1. q \in Seq(W \cup {c}) /\ Len(q) \in Nat /\ \A i \in 1..Len(q) : q[i] \in W
  BY SeqMonotonic DEF Holds
<1>2. /\ Append(q, c) \in Seq(W \cup {c})
      /\ Len(Append(q, c)) = Len(q) + 1
      /\ \A i \in 1..Len(q) : Append(q, c)[i] = q[i]
      /\ Append(q, c)[Len(q) + 1] = c
  BY <1>1, AppendProperties
<1> DEFINE r == Append(q, c)
<1> HIDE DEF r
<1>3. ASSUME NEW i \in 1..Len(q) + 1, NEW j \in 1..Len(q) + 1, r[i] = r[j] PROVE i = j
  <2>1. \A k \in 1..Len(q) : r[k] = q[k] /\ r[k] # c
    BY <1>1, <1>2 DEF r
  <2>2. r[Len(q) + 1] = c
    BY <1>2 DEF r
  <2>3. CASE i \in 1..Len(q) /\ j \in 1..Len(q)
    BY <1>3, <2>1, <2>3 DEF Holds
  <2>4. CASE i = Len(q) + 1 \/ j = Len(q) + 1
    BY <1>1, <1>3, <2>1, <2>2, <2>4
  <2> QED BY <1>1, <2>3, <2>4
<1>4. ASSUME NEW d \in W \cup {c} PROVE \E i \in 1..Len(q) + 1 : r[i] = d
  <2>1. CASE d = c
    BY <1>1, <1>2, <2>1 DEF r
  <2>2. CASE d \in W
    <3>1. PICK i \in 1..Len(q) : q[i] = d
      BY <2>2 DEF Holds
    <3>2. i \in 1..Len(q) + 1 /\ r[i] = d
      BY <1>1, <1>2, <3>1 DEF r
    <3> QED BY <3>2
  <2> QED BY <2>1, <2>2
<1> QED BY <1>2, <1>3, <1>4 DEF Holds, r

LEMMA HoldsRemoval ==
  ASSUME NEW W, NEW q, Holds(q, W), NEW i \in 1..Len(q)
  PROVE  Holds(SubSeq(q, 1, i - 1) \o SubSeq(q, i + 1, Len(q)), W \ {q[i]})
<1> DEFINE V == W \ {q[i]}
           a == SubSeq(q, 1, i - 1)
           b == SubSeq(q, i + 1, Len(q))
           r == a \o b
           At(j) == IF j < i THEN j ELSE j + 1
<1>1. q \in Seq(W) /\ Len(q) \in Nat /\ \A j \in 1..Len(q) : q[j] \in W
  BY DEF Holds
<1>2. \A j \in 1..Len(q) : j # i => q[j] \in V
  BY <1>1 DEF Holds
<1>3. \A j \in 1..i - 1 : q[j] \in V
  BY <1>1, <1>2
<1>4. \A j \in i + 1..Len(q) : q[j] \in V
  BY <1>1, <1>2
<1> HIDE DEF V
<1>5. a \in Seq(V) /\ Len(a) = i - 1 /\ \A j \in 1..i - 1 : a[j] = q[j]
  BY <1>1, <1>3, SubSeqProperties
<1>6. b \in Seq(V) /\ Len(b) = Len(q) - i /\ \A j \in 1..Len(q) - i : b[j] = q[j + i]
  BY <1>1, <1>4, SubSeqProperties
<1> HIDE DEF a, b
<1>7. /\ r \in Seq(V)
      /\ Len(r) = Len(a) + Len(b)
      /\ \A j \in 1..Len(a) + Len(b) : r[j] = IF j <= Len(a) THEN a[j] ELSE b[j - Len(a)]
  BY <1>5, <1>6, ConcatProperties
<1> HIDE DEF r
<1>8. Len(r) = Len(q) - 1
  BY <1>1, <1>5, <1>6, <1>7
<1>9. ASSUME NEW j \in 1..Len(r)
      PROVE  At(j) \in 1..Len(q) /\ At(j) # i /\ r[j] = q[At(j)]
  <2>1. CASE j < i
    <3>1. At(j) = j /\ j \in 1..i - 1 /\ j \in 1..Len(q) /\ j # i
      BY <1>1, <1>8, <2>1
    <3>2. r[j] = a[j]
      <4>1. j \in 1..Len(a) + Len(b) /\ j <= Len(a)
        BY <1>1, <1>5, <1>6, <1>8, <2>1
      <4> QED BY <1>7, <4>1
    <3> HIDE DEF At
    <3> QED BY <1>5, <3>1, <3>2
  <2>2. CASE j >= i
    <3>1. j - (i - 1) \in 1..Len(q) - i /\ (j - (i - 1)) + i = j + 1
      BY <1>1, <1>8, <2>2
    <3>2. r[j] = b[j - (i - 1)]
      <4>1. j \in 1..Len(a) + Len(b) /\ ~(j <= Len(a))
        BY <1>1, <1>5, <1>6, <1>8, <2>2
      <4>2. r[j] = b[j - Len(a)]
        BY <1>7, <4>1
      <4> QED BY <1>5, <4>2
    <3>3. r[j] = q[j + 1]
      BY <1>6, <3>1, <3>2
    <3>4. At(j) = j + 1 /\ At(j) \in 1..Len(q) /\ At(j) # i
      BY <1>1, <1>8, <2>2
    <3> QED BY <3>3, <3>4
  <2>3. j < i \/ j >= i
    BY <1>1, <1>8
  <2> HIDE DEF At
  <2> QED BY <2>1, <2>2, <2>3, Zenon
<1>10. \A j, k \in 1..Len(r) : At(j) = At(k) => j = k
  BY <1>1, <1>8
<1>11. ASSUME NEW k \in 1..Len(q), k # i PROVE \E j \in 1..Len(r) : At(j) = k
  <2>1. CASE k < i
    BY <1>1, <1>8, <2>1
  <2>2. CASE k > i
    <3>1. k - 1 \in 1..Len(r) /\ At(k - 1) = k
      BY <1>1, <1>8, <2>2
    <3> QED BY <3>1
  <2> QED BY <1>1, <1>11, <2>1, <2>2
<1> HIDE DEF At
<1>12. ASSUME NEW j \in 1..Len(r), NEW k \in 1..Len(r), r[j] = r[k] PROVE j = k
  <2>1. q[At(j)] = q[At(k)] /\ At(j) \in 1..Len(q) /\ At(k) \in 1..Len(q)
    BY <1>9, <1>12
  <2>2. At(j) = At(k)
    BY <2>1 DEF Holds
  <2> QED BY <1>10, <2>2
<1>13. ASSUME NEW d \in V PROVE \E j \in 1..Len(r) : r[j] = d
  <2>1. PICK k \in 1..Len(q) : q[k] = d /\ k # i
    BY DEF Holds, V
  <2> QED BY <1>9, <1>11, <2>1
<1>14. Holds(r, V)
  BY <1>7, <1>12, <1>13 DEF Holds
<1> QED BY <1>14 DEF r, a, b, V

LEMMA HoldsTail ==
  ASSUME NEW W, NEW q, Holds(q, W), q # <<>>
  PROVE  Head(q) \in W /\ Holds(Tail(q), W \ {Head(q)})
<1>1. q \in Seq(W) /\ Len(q) \in Nat /\ Len(q) >= 1 /\ Head(q) = q[1] /\ q[1] \in W
  BY DEF Holds
<1>2. 1 \in 1..Len(q) /\ SubSeq(q, 1, 0) = <<>>
  BY <1>1, SubSeqEmpty
<1>3. /\ Tail(q) \in Seq(W)
      /\ Len(Tail(q)) = Len(q) - 1
      /\ \A j \in 1..Len(q) - 1 : Tail(q)[j] = q[j + 1]
  BY <1>1, HeadTailProperties
<1> DEFINE r == Tail(q)
<1> HIDE DEF r
<1>4. \A j \in 1..Len(r) : j + 1 \in 1..Len(q) /\ j + 1 # 1 /\ r[j] = q[j + 1]
  BY <1>1, <1>3 DEF r
<1>5. ASSUME NEW j \in 1..Len(r) PROVE r[j] \in W \ {q[1]}
  <2>1. q[j + 1] \in W
    BY <1>1, <1>4
  <2>2. q[j + 1] # q[1]
    BY <1>2, <1>4 DEF Holds
  <2> QED BY <1>4, <2>1, <2>2
<1>6. r \in Seq(W \ {q[1]})
  <2>1. r \in [1..Len(r) -> W \ {q[1]}] /\ Len(r) \in Nat
    BY <1>1, <1>3, <1>5, LenProperties DEF r
  <2> QED BY <2>1, SeqDef
<1>7. \A j, k \in 1..Len(r) : r[j] = r[k] => j = k
  BY <1>1, <1>3, <1>4 DEF Holds, r
<1>8. ASSUME NEW d \in W \ {q[1]} PROVE \E j \in 1..Len(r) : r[j] = d
  <2>1. PICK k \in 1..Len(q) : q[k] = d /\ k # 1
    BY DEF Holds
  <2>2. k - 1 \in 1..Len(r) /\ r[k - 1] = d
    BY <1>1, <1>3, <2>1 DEF r
  <2> QED BY <2>2
<1> QED BY <1>1, <1>6, <1>7, <1>8 DEF Holds, r

\* The queue holds the callers that wait, each of them once.
Waiting == {c \in Callers : caller[c] = "waiting"}

QueueInv ==
    /\ caller \in [Callers -> {"idle", "waiting", "granted", "cancelled"}]
    /\ Holds(queue, Waiting)

LEMMA QueueInvariant == Spec => []QueueInv
<1>1. ASSUME Init PROVE QueueInv
  <2>1. Waiting = {} /\ queue = <<>>
    BY <1>1 DEF Init, Waiting
  <2>2. Holds(<<>>, {})
    BY EmptySeq DEF Holds
  <2> QED BY <1>1, <2>1, <2>2 DEF Init, QueueInv
<1>2. ASSUME QueueInv, [Next]_vars PROVE QueueInv'
  <2> USE DEF limiter, observer
  <2>1. ASSUME UNCHANGED queue, UNCHANGED Waiting,
               caller' \in [Callers -> {"idle", "waiting", "granted", "cancelled"}]
        PROVE  QueueInv'
    BY <1>2, <2>1, Zenon DEF QueueInv
  <2>2. ASSUME NEW c \in Callers, Grant(c), UNCHANGED queue, caller[c] = "idle" PROVE QueueInv'
    BY <1>2, <2>1, <2>2 DEF QueueInv, Grant, Waiting
  <2>3. ASSUME NEW c \in Callers, Wait(c) PROVE QueueInv'
    <3>1. CASE queue' = Append(queue, c) /\ caller' = [caller EXCEPT ![c] = "waiting"]
      <4>1. caller[c] = "idle"
        BY <2>3 DEF Wait
      <4>2. c \notin Waiting /\ Waiting' = Waiting \cup {c}
        BY <1>2, <3>1, <4>1 DEF Waiting, QueueInv
      <4>3. Holds(queue', Waiting')
        BY <1>2, <3>1, <4>2, HoldsAppend, Zenon DEF QueueInv
      <4> QED BY <1>2, <3>1, <4>3 DEF QueueInv, Holds
    <3> QED BY <2>2, <2>3, <3>1 DEF Wait
  <2>4. ASSUME NEW c \in Callers, Cancel(c) PROVE QueueInv'
    <3>1. caller' = [caller EXCEPT ![c] = "cancelled"]
      BY <2>4 DEF Cancel
    <3>2. CASE caller[c] = "idle" /\ UNCHANGED queue
      BY <1>2, <2>1, <3>1, <3>2 DEF QueueInv, Waiting
    <3>3. ASSUME NEW i \in DOMAIN queue, queue[i] = c,
                 queue' = SubSeq(queue, 1, i - 1) \o SubSeq(queue, i + 1, Len(queue))
          PROVE  QueueInv'
      <4>1. i \in 1..Len(queue)
        BY <1>2, <3>3, LenProperties DEF QueueInv, Holds
      <4>2. Waiting' = Waiting \ {c}
        BY <1>2, <3>1 DEF Waiting, QueueInv
      <4>3. Holds(queue', Waiting')
        BY <1>2, <3>3, <4>1, <4>2, HoldsRemoval, Zenon DEF QueueInv
      <4>4. caller' \in [Callers -> {"idle", "waiting", "granted", "cancelled"}]
        BY <1>2, <3>1 DEF QueueInv
      <4> QED BY <4>3, <4>4, Zenon DEF QueueInv, Holds
    <3> QED BY <2>4, <3>2, <3>3 DEF Cancel
  <2>5. ASSUME NEW c \in Callers, Leave(c) PROVE QueueInv'
    BY <1>2, <2>1, <2>5 DEF Leave, QueueInv, Waiting
  <2>6. CASE Deposit
    <3>1. CASE UNCHANGED <<queue, caller>>
      BY <1>2, <2>1, <3>1 DEF QueueInv, Waiting
    <3>2. CASE queue # <<>> /\ caller' = [caller EXCEPT ![Head(queue)] = "granted"]
               /\ queue' = Tail(queue)
      <4>1. Head(queue) \in Waiting /\ Holds(queue', Waiting \ {Head(queue)})
        BY <1>2, <3>2, HoldsTail, Zenon DEF QueueInv
      <4>2. Waiting' = Waiting \ {Head(queue)}
        BY <1>2, <3>2, <4>1 DEF Waiting, QueueInv
      <4>3. caller' \in [Callers -> {"idle", "waiting", "granted", "cancelled"}]
        BY <1>2, <3>2 DEF QueueInv
      <4> QED BY <4>1, <4>2, <4>3, Zenon DEF QueueInv, Holds
    <3> QED BY <2>6, <3>1, <3>2 DEF Deposit, Grant
  <2>7. CASE Tick \/ Receive \/ Stop \/ OpenWindow
    BY <1>2, <2>1, <2>7 DEF Tick, Receive, Stop, OpenWindow, QueueInv, Waiting
  <2>8. CASE UNCHANGED vars
    BY <1>2, <2>1, <2>8 DEF vars, QueueInv, Waiting
  <2> QED BY <1>2, <2>3, <2>4, <2>5, <2>6, <2>7, <2>8 DEF Next
<1> QED BY <1>1, <1>2, PTL DEF Spec

\* What the types need beside BurstInv and QueueInv.
ObserverType ==
    /\ stopped \in BOOLEAN
    /\ window \in {"before", "open", "closed"}
    /\ ticksIn \in 0..WindowTicks

LEMMA ObserverTypes == Spec => []ObserverType
<1>1. ASSUME Init PROVE ObserverType
  <2>1. stopped \in BOOLEAN
    BY <1>1, Zenon DEF Init
  <2>2. window \in {"before", "open", "closed"} /\ ticksIn \in 0..WindowTicks
    BY <1>1, WindowTicksAssumption DEF Init
  <2> QED BY <2>1, <2>2 DEF ObserverType
<1>2. ASSUME ObserverType, [Next]_vars PROVE ObserverType'
  <2> USE DEF limiter, observer
  <2>1. stopped' = stopped \/ stopped' = TRUE
    BY <1>2 DEF Next, Wait, Cancel, Leave, Tick, Receive, Deposit, Stop, OpenWindow, vars
  <2>2. stopped' \in BOOLEAN
    BY <1>2, <2>1, Zenon DEF ObserverType
  <2>3. CASE Tick
    BY <1>2, <2>2, <2>3, WindowTicksAssumption DEF Tick, ObserverType
  <2>4. CASE OpenWindow
    BY <1>2, <2>2, <2>4 DEF OpenWindow, ObserverType
  <2>5. CASE UNCHANGED <<window, ticksIn>>
    BY <1>2, <2>2, <2>5, Zenon DEF ObserverType
  <2>6. Tick \/ OpenWindow \/ UNCHANGED <<window, ticksIn>>
    BY <1>2 DEF Next, Wait, Cancel, Leave, Receive, Deposit, Stop, vars
  <2> QED BY <2>3, <2>4, <2>5, <2>6
<1> QED BY <1>1, <1>2, PTL DEF Spec

\* The types: the queue of the token channel holds exactly the callers that
\* are blocked in Wait, each of them once, whoever cancels (ratelimiter.go:53-62).
THEOREM LimiterTypes == Spec => []TypeOK
<1>1. ASSUME BurstInv, QueueInv, ObserverType PROVE TypeOK
  <2>1. {tick, held, token} \subseteq 0..1 /\ grantsIn \in Nat
    BY <1>1 DEF BurstInv
  <2>2. queue \in Seq(Waiting) /\ DOMAIN queue = 1..Len(queue)
    BY <1>1, LenProperties DEF QueueInv, Holds
  <2>3. ASSUME NEW c \in Callers, caller[c] = "waiting"
        PROVE  \E i \in DOMAIN queue : queue[i] = c /\ \A j \in DOMAIN queue : queue[j] = c => i = j
    BY <1>1, <2>2, <2>3 DEF QueueInv, Holds, Waiting
  <2> QED BY <1>1, <2>1, <2>2, <2>3 DEF TypeOK, QueueInv, Waiting, ObserverType
<1> QED BY <1>1, BurstInvariant, QueueInvariant, ObserverTypes, PTL

-----------------------------------------------------------------------------

LEMMA PowersOfTwo == ASSUME NEW n \in Nat PROVE 2 ^ n \in Nat /\ 2 ^ n >= 1
<1>1. IsFiniteSet(1..n) /\ Cardinality(1..n) = n
  BY FS_Interval
<1>2. IsFiniteSet(SUBSET (1..n)) /\ Cardinality(SUBSET (1..n)) = 2 ^ n
  BY <1>1, FS_SUBSET
<1>3. {} \in SUBSET (1..n)
  OBVIOUS
<1>4. 2 ^ n \in Nat /\ 2 ^ n # 0
  BY <1>2, <1>3, FS_EmptySet, FS_CardinalityType
<1> QED BY <1>4

\* No delay is shorter than the first, or longer than cfg.MaxDelay.
LEMMA BackoffRange == ASSUME NEW n \in Nat \ {0} PROVE Backoff(n) \in InitialDelay..MaxDelay
<1>1. 2 ^ (n - 1) \in Nat /\ 2 ^ (n - 1) >= 1
  BY PowersOfTwo
<1> DEFINE p == 2 ^ (n - 1)
<1> HIDE DEF p
<1>2. InitialDelay * p \in Nat /\ InitialDelay * p >= InitialDelay
  BY <1>1, RetryAssumption DEF p
<1>3. (IF InitialDelay * p > MaxDelay THEN MaxDelay ELSE InitialDelay * p)
         \in InitialDelay..MaxDelay
  BY <1>2, RetryAssumption
<1> QED BY <1>3 DEF Backoff, p

\* Slots of InitialDelay ticks.
Slot(t) == t \div InitialDelay

LEMMA SlotOfTick ==
  ASSUME NEW t \in Nat
  PROVE  /\ Slot(t) \in Nat
         /\ Slot(t) * InitialDelay <= t
         /\ \A k \in Nat : k * InitialDelay <= t => k <= Slot(t)
<1>1. InitialDelay \in Nat \ {0}
  BY RetryAssumption
<1>2. Slot(t) \in Nat /\ Slot(t) * InitialDelay <= t /\ t < Slot(t) * InitialDelay + InitialDelay
  BY <1>1 DEF Slot
<1>3. ASSUME NEW k \in Nat, k * InitialDelay <= t, k > Slot(t) PROVE FALSE
  <2>1. k * InitialDelay >= (Slot(t) + 1) * InitialDelay
    BY <1>1, <1>2, <1>3
  <2>2. (Slot(t) + 1) * InitialDelay = Slot(t) * InitialDelay + InitialDelay
    BY <1>1, <1>2
  <2> QED BY <1>1, <1>2, <1>3, <2>1, <2>2
<1> QED BY <1>2, <1>3

-----------------------------------------------------------------------------

\* Only a worker that holds a token has sent requests on it, and only one that
\* has sent some, but not all, can be in a delay.
WorkerInv ==
    /\ caller \in [Callers -> {"idle", "waiting", "granted", "cancelled"}]
    /\ sent \in [Callers -> 0..MaxAttempts - 1]
    /\ due \in [Callers -> 0..MaxDelay]
    /\ \A c \in Callers : caller[c] # "granted" => sent[c] = 0
    /\ \A c \in Callers : sent[c] = 0 => due[c] = 0
    /\ requestsIn \in Nat

LEMMA WorkerInvariant == CourtSpec => []WorkerInv
<1>1. CourtInit => WorkerInv
  BY RetryAssumption DEF CourtInit, Init, WorkerInv
<1>2. ASSUME WorkerInv, [CourtNext]_courtVars PROVE WorkerInv'
  <2> USE <1>2 DEF WorkerInv
  <2>1. ASSUME NEW c \in Callers, Request(c) PROVE WorkerInv'
    <3>1. requestsIn' \in Nat
      BY <2>1 DEF Request
    <3>2. CASE End(c) /\ due' = [due EXCEPT ![c] = 0]
      BY <3>1, <3>2, RetryAssumption DEF End
    <3>3. CASE /\ sent[c] + 1 < MaxAttempts
               /\ sent' = [sent EXCEPT ![c] = sent[c] + 1]
               /\ due' = [due EXCEPT ![c] = Backoff(sent[c] + 1)]
               /\ UNCHANGED caller
      <4>1. Backoff(sent[c] + 1) \in 0..MaxDelay
        BY BackoffRange, RetryAssumption
      <4>2. sent[c] + 1 \in 1..MaxAttempts - 1 /\ caller[c] = "granted"
        BY <2>1, <3>3, RetryAssumption DEF Request
      <4> QED BY <3>1, <3>3, <4>1, <4>2
    <3> QED BY <2>1, <3>2, <3>3 DEF Request
  <2>2. ASSUME NEW c \in Callers, CancelDelay(c) PROVE WorkerInv'
    BY <2>2, RetryAssumption DEF CancelDelay, End
  <2>3. CASE Clock
    <3>1. due' \in [Callers -> 0..MaxDelay] /\ \A c \in Callers : due[c] = 0 => due'[c] = 0
      BY <2>3, RetryAssumption DEF Clock
    <3> QED BY <2>3, <3>1 DEF Clock, Tick
  <2>4. ASSUME NEW c \in Callers, Wait(c), UNCHANGED retries PROVE WorkerInv'
    BY <2>4 DEF Wait, Grant, retries
  <2>5. ASSUME NEW c \in Callers, Cancel(c) \/ Refused(c), UNCHANGED retries PROVE WorkerInv'
    BY <2>5 DEF Cancel, Refused, Leave, retries
  <2>6. CASE Deposit /\ UNCHANGED retries
    BY <2>6 DEF Deposit, Grant, retries
  <2>7. CASE (Receive \/ Stop \/ OpenWindow) /\ UNCHANGED retries
    BY <2>7 DEF Receive, Stop, OpenWindow, limiter, retries
  <2>8. CASE UNCHANGED courtVars
    BY <2>8 DEF courtVars, vars, limiter, retries
  <2> QED BY <2>1, <2>2, <2>3, <2>4, <2>5, <2>6, <2>7, <2>8 DEF CourtNext
<1> QED BY <1>1, <1>2, PTL DEF CourtSpec

\* A court worker takes its token, makes its requests and leaves as a caller of
\* the limiter does (process_court.go:34-53): its retries and delays are
\* nothing to the limiter, so what holds of every caller holds here.
THEOREM CourtUsesLimiter == CourtSpec => Spec
<1>1. CourtInit => Init
  BY DEF CourtInit
<1>2. WorkerInv /\ [CourtNext]_courtVars => [Next]_vars
  <2> SUFFICES ASSUME WorkerInv, [CourtNext]_courtVars PROVE Next \/ UNCHANGED vars
    OBVIOUS
  <2>1. ASSUME NEW c \in Callers, Request(c) PROVE Next \/ UNCHANGED vars
    <3>1. CASE End(c)
      BY <2>1, <3>1 DEF Request, End, Leave, Next
    <3>2. CASE UNCHANGED caller
      BY <2>1, <3>2 DEF Request, vars, limiter, observer
    <3> QED BY <2>1, <3>1, <3>2 DEF Request
  <2>2. ASSUME NEW c \in Callers, CancelDelay(c) PROVE Next
    BY <2>2 DEF WorkerInv, CancelDelay, End, Leave, Next
  <2>3. CASE Clock
    BY <2>3 DEF Clock, Next
  <2>4. ASSUME NEW c \in Callers, Wait(c) \/ Cancel(c) \/ Refused(c) PROVE Next
    BY <2>4 DEF Refused, Next
  <2>5. CASE Receive \/ Deposit \/ Stop \/ OpenWindow
    BY <2>5 DEF Next
  <2>6. CASE UNCHANGED courtVars
    BY <2>6 DEF courtVars
  <2> QED BY <2>1, <2>2, <2>3, <2>4, <2>5, <2>6 DEF CourtNext
<1> QED BY <1>1, <1>2, WorkerInvariant, PTL DEF CourtSpec, Spec

\* However long the court workers retry, they get no more tokens than the
\* limiter's burst and its ticks allow (process_court.go:34, ratelimiter.go:39).
THEOREM CourtBurstBounded == CourtSpec => []BurstBound
BY CourtUsesLimiter, BurstBounded, PTL

\* The types of the workers: among them that a delay belongs to a worker that
\* has made at least one request, and may make another (retry.go:43-69).
THEOREM CourtTypes == CourtSpec => []CourtTypeOK
<1>1. ASSUME WorkerInv, TypeOK PROVE CourtTypeOK
  <2>1. sent \in [Callers -> 0..MaxAttempts]
    BY <1>1, RetryAssumption DEF WorkerInv
  <2>2. ASSUME NEW c \in Callers, due[c] > 0
        PROVE  caller[c] = "granted" /\ sent[c] \in 1..MaxAttempts - 1
    BY <1>1, <2>2, RetryAssumption DEF WorkerInv
  <2> QED BY <1>1, <2>1, <2>2 DEF WorkerInv, CourtTypeOK
<1> QED BY <1>1, WorkerInvariant, CourtUsesLimiter, LimiterTypes, PTL

-----------------------------------------------------------------------------

\* The bound on requests charges each to something of which there are few.  A
\* worker's first request on a token granted in the window is charged to that
\* grant; G are the workers that have such a token and have not yet used it.
\* Every other request is charged to its worker and the slot of InitialDelay
\* ticks in which it falls; S are the pairs so charged.  The delays see to it
\* that none is charged twice: a worker's next request comes after the slots it
\* has been charged for.
Charged(S, G) ==
    /\ S \subseteq Callers \X Nat /\ IsFiniteSet(S)
    /\ G \subseteq Callers
    /\ \A s \in S : s[2] * InitialDelay <= ticksIn
    /\ requestsIn + Cardinality(G) <= grantsIn + Cardinality(S)
    /\ window = "before" => S = {} /\ G = {} /\ requestsIn = 0
    /\ window = "open" /\ ~stopped =>
          \A c \in Callers :
             /\ c \in G => caller[c] = "granted" /\ sent[c] = 0
             /\ caller[c] = "granted" /\ c \notin G => \A k \in Nat :
                   <<c, k>> \in S => sent[c] > 0 /\ (k + 1) * InitialDelay <= ticksIn + due[c]

LoadInv == \E S, G : Charged(S, G)

\* A request is charged to the grant or to a slot that is still free.
LEMMA RequestCharged ==
  ASSUME WorkerInv, ticksIn \in Nat, grantsIn \in Nat, LoadInv, NEW c \in Callers, Request(c)
  PROVE  LoadInv'
<1> USE DEF observer
<1>1. PICK S, G : Charged(S, G)
  BY DEF LoadInv
<1>2. IsFiniteSet(G)
  BY <1>1, CallersAssumption, FS_Subset DEF Charged
<1>3. Cardinality(S) \in Nat /\ Cardinality(G) \in Nat
  BY <1>1, <1>2, FS_CardinalityType DEF Charged
<1>4. UNCHANGED <<window, ticksIn, grantsIn, stopped>> /\ caller[c] = "granted"
  BY DEF Request
<1>5. CASE window = "open" /\ ~stopped
  <2>1. requestsIn' = requestsIn + 1 /\ requestsIn \in Nat /\ due[c] = 0
    BY <1>5 DEF Request, WorkerInv
  <2>2. \A d \in Callers : d # c => /\ caller'[d] = caller[d]
                                    /\ sent'[d] = sent[d]
                                    /\ due'[d] = due[d]
    BY DEF Request, End, WorkerInv
  <2>3. caller'[c] = "granted" => sent'[c] > 0 /\ due'[c] \in Nat /\ due'[c] >= InitialDelay
    <3>1. CASE End(c)
      BY <3>1 DEF End, WorkerInv
    <3>2. CASE /\ sent' = [sent EXCEPT ![c] = sent[c] + 1]
               /\ due' = [due EXCEPT ![c] = Backoff(sent[c] + 1)]
      BY <3>2, BackoffRange, RetryAssumption DEF WorkerInv
    <3> QED BY <3>1, <3>2 DEF Request
  <2>4. CASE c \in G
    <3>1. PICK H : H = G \ {c}
      OBVIOUS
    <3>2. Cardinality(H) = Cardinality(G) - 1
      BY <1>2, <2>4, <3>1, FS_RemoveElement
    <3>3. requestsIn' + Cardinality(H) <= grantsIn' + Cardinality(S)
      BY <1>1, <1>3, <1>4, <2>1, <3>2 DEF Charged
    <3>4. ASSUME NEW k \in Nat, <<c, k>> \in S, caller'[c] = "granted"
          PROVE  (k + 1) * InitialDelay <= ticksIn' + due'[c]
      <4>1. k * InitialDelay <= ticksIn
        BY <1>1, <3>4 DEF Charged
      <4> QED BY <1>4, <2>3, <3>4, <4>1, RetryAssumption
    <3>5. Charged(S, H)'
      BY <1>1, <1>4, <1>5, <2>2, <2>3, <3>1, <3>3, <3>4 DEF Charged
    <3> QED BY <3>5 DEF LoadInv
  <2>5. CASE c \notin G
    <3>1. PICK q : q = Slot(ticksIn)
      OBVIOUS
    <3>2. /\ q \in Nat /\ q * InitialDelay <= ticksIn
          /\ \A k \in Nat : k * InitialDelay <= ticksIn => k <= q
      BY <3>1, SlotOfTick
    <3>3. <<c, q>> \notin S
      <4>1. ASSUME <<c, q>> \in S PROVE (q + 1) * InitialDelay <= ticksIn
        BY <1>1, <1>4, <1>5, <2>1, <2>5, <3>2, <4>1 DEF Charged
      <4> QED BY <3>2, <4>1
    <3>4. PICK T : T = S \cup {<<c, q>>}
      OBVIOUS
    <3>5. IsFiniteSet(T) /\ Cardinality(T) = Cardinality(S) + 1
      BY <1>1, <3>3, <3>4, FS_AddElement DEF Charged
    <3>6. requestsIn' + Cardinality(G) <= grantsIn' + Cardinality(T)
      BY <1>1, <1>3, <1>4, <2>1, <3>5 DEF Charged
    <3>7. T \subseteq Callers \X Nat /\ \A s \in T : s[2] * InitialDelay <= ticksIn
      BY <1>1, <3>2, <3>4 DEF Charged
    <3>8. ASSUME NEW k \in Nat, <<c, k>> \in T, caller'[c] = "granted"
          PROVE  (k + 1) * InitialDelay <= ticksIn' + due'[c]
      <4>1. k * InitialDelay <= ticksIn
        BY <3>7, <3>8
      <4> QED BY <1>4, <2>3, <3>8, <4>1, RetryAssumption
    <3>9. \A d \in Callers : \A k \in Nat : d # c /\ <<d, k>> \in T => <<d, k>> \in S
      BY <3>4
    <3>10. Charged(T, G)'
      BY <1>1, <1>4, <1>5, <2>2, <2>3, <2>5, <3>5, <3>6, <3>7, <3>8, <3>9 DEF Charged
    <3> QED BY <3>10 DEF LoadInv
  <2> QED BY <2>4, <2>5
<1>6. CASE ~(window = "open" /\ ~stopped)
  <2>1. requestsIn' = requestsIn
    BY <1>6 DEF Request
  <2>2. Charged(S, G)'
    BY <1>1, <1>4, <1>6, <2>1 DEF Charged
  <2> QED BY <2>2 DEF LoadInv
<1> QED BY <1>5, <1>6

\* A grant in the window is one to which a request can be charged.
LEMMA GrantCharged ==
  ASSUME WorkerInv, ticksIn \in Nat, grantsIn \in Nat, LoadInv,
         NEW c \in Callers, caller[c] # "granted", Grant(c),
         UNCHANGED <<window, ticksIn, stopped, sent, due, requestsIn>>
  PROVE  LoadInv'
<1>1. PICK S, G : Charged(S, G)
  BY DEF LoadInv
<1>2. IsFiniteSet(G)
  BY <1>1, CallersAssumption, FS_Subset DEF Charged
<1>3. Cardinality(S) \in Nat /\ Cardinality(G) \in Nat
  BY <1>1, <1>2, FS_CardinalityType DEF Charged
<1>4. /\ caller'[c] = "granted" /\ sent[c] = 0
      /\ \A d \in Callers : d # c => caller'[d] = caller[d]
  BY DEF Grant, WorkerInv
<1>5. CASE window = "open"
  <2>1. PICK H : H = G \cup {c}
    OBVIOUS
  <2>2. Cardinality(H) \in Nat /\ Cardinality(H) <= Cardinality(G) + 1
    BY <1>2, <1>3, <2>1, FS_AddElement
  <2>3. requestsIn' + Cardinality(H) <= grantsIn' + Cardinality(S)
    BY <1>1, <1>3, <1>5, <2>2 DEF Charged, Grant, WorkerInv
  <2>4. Charged(S, H)'
    BY <1>1, <1>4, <1>5, <2>1, <2>3 DEF Charged
  <2> QED BY <2>4 DEF LoadInv
<1>6. CASE window # "open"
  <2>1. grantsIn' = grantsIn
    BY <1>6 DEF Grant
  <2>2. Charged(S, G)'
    BY <1>1, <1>6, <2>1 DEF Charged
  <2> QED BY <2>2 DEF LoadInv
<1> QED BY <1>5, <1>6

\* A tick ends at most one tick of each delay.
LEMMA ClockCharged ==
  ASSUME WorkerInv, ticksIn \in Nat, LoadInv, Clock
  PROVE  LoadInv'
<1>1. PICK S, G : Charged(S, G)
  BY DEF LoadInv
<1>2. UNCHANGED <<caller, sent, grantsIn, requestsIn, stopped>>
  BY DEF Clock, Tick
<1>3. CASE window' # window
  <2>1. window = "open" /\ window' = "closed" /\ ticksIn' = ticksIn
    BY <1>3 DEF Clock, Tick
  <2>2. Charged(S, G)'
    BY <1>1, <1>2, <2>1 DEF Charged
  <2> QED BY <2>2 DEF LoadInv
<1>4. CASE window' = window
  <2>1. ticksIn' \in Nat /\ ticksIn' >= ticksIn /\ (window = "open" => ticksIn' = ticksIn + 1)
    BY <1>4 DEF Clock, Tick
  <2>2. \A c \in Callers : due[c] \in Nat /\ due'[c] \in Nat /\ due'[c] + 1 >= due[c]
    BY RetryAssumption DEF Clock, WorkerInv
  <2>3. ASSUME NEW s \in S PROVE s[2] * InitialDelay <= ticksIn'
    <3>1. s[2] \in Nat /\ s[2] * InitialDelay <= ticksIn
      BY <1>1 DEF Charged
    <3>2. s[2] * InitialDelay \in Nat
      BY <3>1, RetryAssumption
    <3> QED BY <2>1, <3>1, <3>2
  <2>4. ASSUME NEW c \in Callers, NEW k \in Nat, window = "open",
               (k + 1) * InitialDelay <= ticksIn + due[c]
        PROVE  (k + 1) * InitialDelay <= ticksIn' + due'[c]
    <3>1. (k + 1) * InitialDelay \in Nat
      BY RetryAssumption
    <3> QED BY <2>1, <2>2, <2>4, <3>1
  <2>5. Charged(S, G)'
    BY <1>1, <1>2, <1>4, <2>3, <2>4 DEF Charged
  <2> QED BY <2>5 DEF LoadInv
<1> QED BY <1>3, <1>4

\* A step that counts nothing and lets no worker have a token, or a request.
LEMMA NothingCharged ==
  ASSUME LoadInv, UNCHANGED <<ticksIn, grantsIn, requestsIn>>,
         window' = "open" /\ ~stopped' => window = "open" /\ ~stopped,
         window' = "before" => window = "before",
         \A c \in Callers : caller'[c] = "granted" <=> caller[c] = "granted",
         UNCHANGED <<sent, due>>
  PROVE  LoadInv'
<1>1. PICK S, G : Charged(S, G)
  BY DEF LoadInv
<1>2. Charged(S, G)'
  BY <1>1 DEF Charged
<1> QED BY <1>2 DEF LoadInv

LEMMA LoadInvariant == CourtSpec => []LoadInv
<1>1. ASSUME CourtInit PROVE LoadInv
  <2>1. Charged({}, {})
    BY <1>1, FS_EmptySet DEF CourtInit, Init, Charged
  <2> QED BY <2>1 DEF LoadInv
<1>2. ASSUME LoadInv, WorkerInv, BurstInv, QueueInv, [CourtNext]_courtVars PROVE LoadInv'
  <2> USE <1>2 DEF limiter, observer
  <2>0. ticksIn \in Nat /\ grantsIn \in Nat
    BY DEF BurstInv
  <2>1. ASSUME NEW c \in Callers, Request(c) PROVE LoadInv'
    BY <2>0, <2>1, RequestCharged
  <2>2. ASSUME NEW c \in Callers, CancelDelay(c) PROVE LoadInv'
    <3>1. PICK S, G : Charged(S, G)
      BY DEF LoadInv
    <3>2. /\ UNCHANGED <<window, ticksIn, grantsIn, requestsIn, stopped>>
          /\ sent[c] # 0
          /\ caller'[c] = "idle"
          /\ \A d \in Callers : d # c => /\ caller'[d] = caller[d]
                                         /\ sent'[d] = sent[d]
                                         /\ due'[d] = due[d]
      BY <2>2 DEF CancelDelay, End, WorkerInv
    <3>3. Charged(S, G)'
      BY <3>1, <3>2 DEF Charged
    <3> QED BY <3>3 DEF LoadInv
  <2>3. CASE Clock
    BY <2>0, <2>3, ClockCharged
  <2>4. ASSUME NEW c \in Callers, Wait(c), UNCHANGED retries PROVE LoadInv'
    <3>1. CASE Grant(c)
      BY <2>0, <2>4, <3>1, GrantCharged DEF Wait, retries
    <3>2. CASE caller' = [caller EXCEPT ![c] = "waiting"] /\ UNCHANGED grantsIn
      BY <2>4, <3>2, NothingCharged DEF Wait, retries, WorkerInv
    <3> QED BY <2>4, <3>1, <3>2 DEF Wait
  <2>5. ASSUME NEW c \in Callers, Cancel(c) \/ Refused(c), UNCHANGED retries PROVE LoadInv'
    BY <2>5, NothingCharged DEF Cancel, Refused, Leave, retries, WorkerInv
  <2>6. CASE Deposit /\ UNCHANGED retries
    <3>1. CASE queue # <<>> /\ Grant(Head(queue))
      <4>1. Head(queue) \in Waiting
        BY <3>1, HoldsTail, Zenon DEF QueueInv
      <4> QED BY <2>0, <2>6, <3>1, <4>1, GrantCharged DEF Deposit, retries, Waiting
    <3>2. CASE UNCHANGED <<caller, grantsIn>>
      BY <2>6, <3>2, NothingCharged DEF Deposit, retries
    <3> QED BY <2>6, <3>1, <3>2 DEF Deposit
  <2>7. CASE (Receive \/ Stop) /\ UNCHANGED retries
    BY <2>7, NothingCharged DEF Receive, Stop, retries
  <2>8. CASE OpenWindow /\ UNCHANGED retries
    <3>1. Charged({}, {})
      BY <2>8 DEF LoadInv, Charged, OpenWindow
    <3>2. Charged({}, {})'
      BY <2>8, <3>1 DEF Charged, OpenWindow, retries
    <3> QED BY <3>2 DEF LoadInv
  <2>9. CASE UNCHANGED courtVars
    BY <2>9, NothingCharged DEF courtVars, vars, retries
  <2> QED BY <2>1, <2>2, <2>3, <2>4, <2>5, <2>6, <2>7, <2>8, <2>9 DEF CourtNext
<1>3. CourtSpec => []BurstInv /\ []QueueInv
  BY CourtUsesLimiter, BurstInvariant, QueueInvariant, PTL
<1> QED BY <1>1, <1>2, <1>3, WorkerInvariant, PTL DEF CourtSpec

\* Over any stretch of time the service gets at most one request per tick, the
\* burst, and one per InitialDelay for each worker (ratelimiter.go:39,
\* retry.go:59-90), for any number of workers and attempts.
THEOREM CourtLoad == CourtSpec => []CourtLoadBound
<1>1. ASSUME LoadInv, WorkerInv, BurstInv PROVE CourtLoadBound
  <2>1. PICK S, G : Charged(S, G)
    BY <1>1 DEF LoadInv
  <2>2. ticksIn \in Nat /\ grantsIn \in Nat /\ requestsIn \in Nat /\ grantsIn <= ticksIn + Burst
    BY <1>1 DEF BurstInv, WorkerInv
  <2>3. PICK q : q = Slot(ticksIn)
    OBVIOUS
  <2>4. q \in Nat /\ \A k \in Nat : k * InitialDelay <= ticksIn => k <= q
    BY <2>2, <2>3, SlotOfTick
  <2>5. IsFiniteSet(0..q) /\ Cardinality(0..q) = 1 + q
    BY <2>4, FS_Interval
  <2>6. /\ IsFiniteSet(Callers \X (0..q))
        /\ Cardinality(Callers \X (0..q)) = Cardinality(Callers) * (1 + q)
    BY <2>5, CallersAssumption, FS_Product
  <2>7. S \subseteq Callers \X (0..q)
    BY <2>1, <2>4 DEF Charged
  <2>8. Cardinality(S) <= Cardinality(Callers) * (1 + q)
    BY <2>6, <2>7, FS_Subset
  <2>9. Cardinality(S) \in Nat /\ Cardinality(G) \in Nat /\ Cardinality(Callers) \in Nat
    BY <2>1, CallersAssumption, FS_Subset, FS_CardinalityType DEF Charged
  <2>10. requestsIn <= ticksIn + Burst + Cardinality(Callers) * (1 + q)
    <3>1. Cardinality(Callers) * (1 + q) \in Nat
      BY <2>4, <2>9
    <3>2. requestsIn + Cardinality(G) <= grantsIn + Cardinality(S)
      BY <2>1 DEF Charged
    <3> QED BY <2>2, <2>8, <2>9, <3>1, <3>2 DEF Burst
  <2> QED BY <2>3, <2>10 DEF CourtLoadBound, Slot
<1>2. CourtSpec => []BurstInv
  BY CourtUsesLimiter, BurstInvariant, PTL
<1> QED BY <1>1, <1>2, LoadInvariant, WorkerInvariant, PTL
=============================================================================
