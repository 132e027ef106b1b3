-------------------------------- MODULE Court --------------------------------
(***************************************************************************)
(* The workers of processCourt behind the rate limiter: what the court     *)
(* service sees.  A worker takes one token (RateLimiter) and then runs the *)
(* retry loop of resilience.Do, with its delays, on that token.  The       *)
(* breaker, which only makes it less, is left out.                         *)
(*                                                                         *)
(* Time is counted in ticks of the limiter, 500 ms: a delay of d ticks     *)
(* ends after the d-th tick at the earliest; its jitter is below one tick. *)
(***************************************************************************)
EXTENDS RateLimiter, Clients, FiniteSets

CONSTANTS
    MaxAttempts,    \* cfg.MaxAttempts
    InitialDelay,   \* cfg.InitialDelay in ticks: 1 s are 2
    MaxDelay        \* cfg.MaxDelay in ticks: 30 s are 60

ASSUME CallersAssumption == IsFiniteSet(Callers)
ASSUME RetryAssumption ==
    /\ MaxAttempts \in Nat \ {0} /\ InitialDelay \in Nat \ {0}
    /\ MaxDelay \in Nat /\ MaxDelay >= InitialDelay

VARIABLES
    sent,           \* worker: the requests it has made on its token
    due,            \* worker: the ticks before its delay ends
    requestsIn      \* observer: requests the service gets in the window

retries == <<sent, due, requestsIn>>
courtVars == <<vars, retries>>

CourtTypeOK ==
    /\ TypeOK
    /\ sent \in [Callers -> 0..MaxAttempts]
    /\ due \in [Callers -> 0..MaxDelay]
    /\ \A c \in Callers : due[c] > 0 => caller[c] = "granted" /\ sent[c] \in 1..MaxAttempts - 1
    /\ requestsIn \in Nat

CourtInit ==
    /\ Init
    /\ sent = [c \in Callers |-> 0]
    /\ due = [c \in Callers |-> 0]
    /\ requestsIn = 0

-----------------------------------------------------------------------------

\* Mutant: only the jitter is left of the delay.
Backoff_JitterOnly(n) == 0

\* backoff: cfg.InitialDelay * 2^(n-1), at most cfg.MaxDelay.
Backoff(n) ==
    LET delay == InitialDelay * 2 ^ (n - 1)
    IN  IF delay > MaxDelay THEN MaxDelay ELSE delay

\* What courtClient.Search can return.
Outcomes == {Search(reply) : reply \in CourtReplies}

\* The worker reports and writes its result; its goroutine ends.
End(c) == caller' = [caller EXCEPT ![c] = "idle"] /\ sent' = [sent EXCEPT ![c] = 0]

\* One turn of the loop in Do.  A stopped limiter counts no more time, so
\* delays end whenever they like, and nobody counts the requests.
Request(c) ==
    /\ caller[c] = "granted"
    /\ due[c] = 0 \/ stopped
    /\ requestsIn' = IF window = "open" /\ ~stopped THEN requestsIn + 1 ELSE requestsIn
    /\ \/ /\ \E outcome \in Outcomes : outcome # "transient" \/ sent[c] + 1 = MaxAttempts
          /\ End(c)
          /\ due' = [due EXCEPT ![c] = 0]
       \/ /\ "transient" \in Outcomes /\ sent[c] + 1 < MaxAttempts
          /\ sent' = [sent EXCEPT ![c] = sent[c] + 1]
          /\ due' = [due EXCEPT ![c] = Backoff(sent[c] + 1)]
          /\ UNCHANGED caller
    /\ UNCHANGED <<tick, held, token, queue, stopped, observer>>

\* case <-ctx.Done() during a delay.
CancelDelay(c) ==
    /\ Cancellable
    /\ due[c] # 0
    /\ End(c)
    /\ due' = [due EXCEPT ![c] = 0]
    /\ UNCHANGED <<tick, held, token, queue, stopped, observer, requestsIn>>

\* A cancelled Wait ends the worker without a request.
Refused(c) == caller[c] = "cancelled" /\ Leave(c)

\* Time passes for the delays too.
Clock ==
    /\ Tick
    /\ due' = [c \in Callers |-> IF due[c] = 0 THEN 0 ELSE due[c] - 1]
    /\ UNCHANGED <<sent, requestsIn>>

CourtNext ==
    \/ \E c \in Callers : Request(c) \/ CancelDelay(c)
    \/ Clock
    \/ /\ \/ \E c \in Callers : Wait(c) \/ Cancel(c) \/ Refused(c)
          \/ Receive \/ Deposit \/ Stop \/ OpenWindow
       /\ UNCHANGED retries

CourtSpec == CourtInit /\ [][CourtNext]_courtVars

\* The runtime fires the ticker and schedules the refill goroutine; requests
\* have a timeout and delays an end.
CourtFairSpec ==
    /\ CourtSpec
    /\ WF_courtVars(Clock)
    /\ WF_courtVars(Receive /\ UNCHANGED retries)
    /\ WF_courtVars(Deposit /\ UNCHANGED retries)
    /\ \A c \in Callers : WF_courtVars(Request(c))

-----------------------------------------------------------------------------

\* What the limiter's 2 requests per second come to at the service, as
\* retries take no token (process_court.go:45): over any stretch of time one
\* request per tick and the burst, and on top of it one per InitialDelay for
\* each worker that is retrying.  Only the delays keep the retries apart.
CourtLoadBound ==
    requestsIn <= ticksIn + Burst + Cardinality(Callers) * (1 + ticksIn \div InitialDelay)

\* A worker that waits for a token gets it and ends, though others hold
\* theirs through minutes of retries, unless it is cancelled or the limiter
\* is stopped.
CourtEnds == \A c \in Callers :
    caller[c] \in {"waiting", "granted"} ~> caller[c] \in {"idle", "cancelled"} \/ stopped
=============================================================================
