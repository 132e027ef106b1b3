----------------------------- MODULE RateLimiter -----------------------------
(***************************************************************************)
(* The token bucket of internal/resilience/ratelimiter.go: a ticker whose  *)
(* channel buffers one tick, a goroutine that moves ticks into a channel   *)
(* of one token, and the callers of Wait, whom the channel serves in the   *)
(* order they blocked.  An observer counts the ticks and the grants of one *)
(* stretch of time, opened at any moment.                                  *)
(***************************************************************************)
EXTENDS Naturals, Sequences

CONSTANTS
    Callers,        \* goroutines that call Wait, again and again
    WindowTicks,    \* bound: how many ticks the observer watches
    Cancellable,    \* whether a caller's context can be cancelled
    Stoppable       \* whether Stop is called

ASSUME WindowTicksAssumption == WindowTicks \in Nat

VARIABLES
    tick,           \* ticks that wait in ticker.C: 0 or 1
    held,           \* ticks that refill has received and not yet deposited
    token,          \* tokens in the bucket: 0 or 1
    queue,          \* the callers blocked in Wait
    caller,         \* what became of each caller
    stopped,
    window,         \* the observer: "before", "open" or "closed"
    ticksIn,        \* ticks and grants while the window was open
    grantsIn

limiter == <<tick, held, token, queue, caller, stopped>>
observer == <<window, ticksIn, grantsIn>>
vars == <<limiter, observer>>

TypeOK ==
    /\ {tick, held, token} \subseteq 0..1
    /\ stopped \in BOOLEAN
    /\ caller \in [Callers -> {"idle", "waiting", "granted", "cancelled"}]
    /\ queue \in Seq({c \in Callers : caller[c] = "waiting"})
    /\ \A c \in Callers : caller[c] = "waiting" =>
          \E i \in DOMAIN queue : queue[i] = c /\ \A j \in DOMAIN queue : queue[j] = c => i = j
    /\ window \in {"before", "open", "closed"}
    /\ ticksIn \in 0..WindowTicks
    /\ grantsIn \in Nat

\* NewRateLimiter seeds the bucket: the first call does not wait.
Init ==
    /\ tick = 0 /\ held = 0 /\ token = 1
    /\ queue = <<>>
    /\ caller = [c \in Callers |-> "idle"]
    /\ stopped = FALSE
    /\ window = "before" /\ ticksIn = 0 /\ grantsIn = 0

Grant(c) ==
    /\ caller' = [caller EXCEPT ![c] = "granted"]
    /\ grantsIn' = IF window = "open" THEN grantsIn + 1 ELSE grantsIn

\* Wait finds the token, or blocks.
Wait(c) ==
    /\ caller[c] = "idle"
    /\ \/ token = 1 /\ token' = 0 /\ Grant(c) /\ UNCHANGED queue
       \/ /\ token = 0
          /\ queue' = Append(queue, c)
          /\ caller' = [caller EXCEPT ![c] = "waiting"]
          /\ UNCHANGED <<token, grantsIn>>
    /\ UNCHANGED <<tick, held, stopped, window, ticksIn>>

\* case <-ctx.Done(), for a caller that is blocked or finds both cases ready.
Cancel(c) ==
    /\ Cancellable
    /\ caller[c] \in {"idle", "waiting"}
    /\ caller' = [caller EXCEPT ![c] = "cancelled"]
    /\ \/ caller[c] = "idle" /\ UNCHANGED queue
       \/ \E i \in DOMAIN queue :
             /\ queue[i] = c
             /\ queue' = SubSeq(queue, 1, i - 1) \o SubSeq(queue, i + 1, Len(queue))
    /\ UNCHANGED <<tick, held, token, stopped, observer>>

\* The caller makes its request, or gives it up, and may come again.
Leave(c) ==
    /\ caller[c] \in {"granted", "cancelled"}
    /\ caller' = [caller EXCEPT ![c] = "idle"]
    /\ UNCHANGED <<tick, held, token, queue, stopped, observer>>

\* Mutant: ticks queue up while the goroutine is busy.
Tick_Queued ==
    /\ ~stopped
    /\ tick' = tick + 1
    /\ UNCHANGED <<held, token, queue, caller, stopped, observer>>

\* The ticker fires; a tick that finds ticker.C full is lost.
Tick ==
    /\ ~stopped
    /\ tick' = 1
    /\ IF window = "open" /\ ticksIn = WindowTicks
       THEN window' = "closed" /\ UNCHANGED ticksIn
       ELSE /\ ticksIn' = IF window = "open" THEN ticksIn + 1 ELSE ticksIn
            /\ UNCHANGED window
    /\ UNCHANGED <<held, token, queue, caller, stopped, grantsIn>>

\* case <-rl.ticker.C
Receive ==
    /\ tick = 1 /\ held = 0 /\ ~stopped
    /\ tick' = 0
    /\ held' = 1
    /\ UNCHANGED <<token, queue, caller, stopped, observer>>

\* Mutant: the bucket is filled although a caller is blocked.
Deposit_BucketOnly ==
    /\ held = 1
    /\ held' = 0
    /\ token' = 1
    /\ UNCHANGED <<tick, queue, caller, stopped, observer>>

\* Mutant: the goroutine deposits its tick for everyone who waits.
Deposit_All ==
    /\ held = 1
    /\ held' = IF Len(queue) > 1 THEN 1 ELSE 0
    /\ IF queue = <<>>
       THEN token' = 1 /\ UNCHANGED <<queue, caller, grantsIn>>
       ELSE Grant(Head(queue)) /\ queue' = Tail(queue) /\ UNCHANGED token
    /\ UNCHANGED <<tick, stopped, window, ticksIn>>

\* case rl.tokens <- struct{}{}: the channel hands the token to the caller
\* that has been blocked longest; with none blocked it goes into the bucket,
\* and a tick that finds the bucket full is dropped.
Deposit ==
    /\ held = 1
    /\ held' = 0
    /\ IF queue = <<>>
       THEN token' = 1 /\ UNCHANGED <<queue, caller, grantsIn>>
       ELSE Grant(Head(queue)) /\ queue' = Tail(queue) /\ UNCHANGED token
    /\ UNCHANGED <<tick, stopped, window, ticksIn>>

\* A stopped ticker delivers no tick that it had not delivered before.
Stop ==
    /\ Stoppable /\ ~stopped
    /\ stopped' = TRUE
    /\ tick' = 0
    /\ UNCHANGED <<held, token, queue, caller, observer>>

OpenWindow ==
    /\ window = "before"
    /\ window' = "open"
    /\ UNCHANGED <<limiter, ticksIn, grantsIn>>

Next == \/ \E c \in Callers : Wait(c) \/ Cancel(c) \/ Leave(c)
        \/ Tick \/ Receive \/ Deposit \/ Stop \/ OpenWindow

Spec == Init /\ [][Next]_vars

-----------------------------------------------------------------------------

\* What can be granted without a new tick: the token in the bucket, the tick
\* in the goroutine's hands and the tick in ticker.C.
Burst == 3

\* Over any stretch of time callers get through at most once per tick, plus
\* the burst, however the refill goroutine is scheduled.  The burst is not the
\* "burst = 1" of ratelimiter.go:39, which counts the bucket alone.
BurstBound == grantsIn <= ticksIn + Burst
=============================================================================
