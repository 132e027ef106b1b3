----------------------------- MODULE ScraProofs -----------------------------
(***************************************************************************)
(* The SCRA workers behave as SourceFetch says whatever the service does,  *)
(* and what they report is what the service has said, for any number of    *)
(* workers, attempts and polls.                                            *)
(***************************************************************************)
EXTENDS Scra, SourceFetchProofs

\* Beside the service a worker does what SourceFetch lets it do
\* (process_scra.go:17-121).
THEOREM ScraImplementsFetch == ScraSpec => Spec
<1>1. ScraInit => Init
  BY DEF ScraInit
<1>2. [ScraNext]_scraVars => [Next]_vars
  <2> SUFFICES ASSUME [ScraNext]_scraVars PROVE Next \/ UNCHANGED vars
    OBVIOUS
  <2>1. ASSUME NEW w \in Workers, Allow(w) \/ ScraProcess(w) PROVE Next
    BY <2>1 DEF ScraProcess, Submit, Ask, Leave, Next, Process
  <2>2. CASE Environment
    BY <2>2 DEF Next
  <2>3. ASSUME NEW w \in Workers, NEW i, Finish(w, i) PROVE UNCHANGED vars
    BY <2>3 DEF Finish
  <2>4. CASE Forget \/ UNCHANGED scraVars
    BY <2>4 DEF Forget, scraVars
  <2> QED BY <2>1, <2>2, <2>3, <2>4 DEF ScraNext
<1> QED BY <1>1, <1>2, PTL DEF ScraSpec, Spec

-----------------------------------------------------------------------------

SearchStatus == {"pending", "complete", "error", "forgotten"}

\* The search that the worker's last submit started.
Latest(w) == searches[w][Len(searches[w])]

ServiceType ==
    /\ kind = "scra"
    /\ attempts \in [Workers -> Nat]
    /\ pc \in [Workers -> {"idle", "write"} \cup InFlight]
    /\ searches \in [Workers -> Seq(SearchStatus)]
    /\ searchID \in [Workers -> Nat]

\* A worker has no more searches than requests; it knows of one exactly when
\* it has got through Submit, and its verdict is that search's.
SearchInv(w) ==
    /\ pc[w] = "idle" => searches[w] = <<>>
    /\ Len(searches[w]) <= attempts[w] /\ Len(searches[w]) <= MaxAttempts
    /\ pc[w] \in {"idle", "wait", "attempt", "backoff"} => searchID[w] = 0
    /\ pc[w] \in {"poll", "succeeded"} => searchID[w] # 0
    /\ searchID[w] \in {0, Len(searches[w])}
    /\ pc[w] = "succeeded" => Latest(w) \in {"complete", "forgotten"}
    /\ pc[w] = "failed" /\ searchID[w] # 0 => Latest(w) \in {"error", "forgotten"}

ServiceInv == ServiceType /\ \A w \in Workers : SearchInv(w)

\* Storing one more search.
LEMMA StoredSearches ==
    ASSUME NEW w \in Workers, searches \in [Workers -> Seq(SearchStatus)]
    PROVE  /\ Stored(w) \in [Workers -> Seq(SearchStatus)]
           /\ Len(Stored(w)[w]) = Len(searches[w]) + 1
           /\ \A v \in Workers \ {w} : Stored(w)[v] = searches[v]
BY DEF Stored, SearchStatus

\* A submit starts the search that its 202 names.
LEMMA SubmitKeepsInv ==
    ASSUME ServiceInv, NEW w \in Workers, Submit(w)
    PROVE  ServiceInv'
<1> USE DEF ServiceInv, ServiceType
<1>1. /\ pc[w] = "attempt" /\ attempts[w] < MaxAttempts
      /\ attempts' = [attempts EXCEPT ![w] = attempts[w] + 1]
      /\ kind' = kind
  BY DEF Submit, Attempt, Send
<1>2. PICK p \in {"poll", "failed", "backoff"} : pc' = [pc EXCEPT ![w] = p]
  BY AfterAttemptType DEF Submit, Attempt, AfterAttempt
<1>3. /\ searches' \in {searches, Stored(w)}
      /\ \/ p = "poll" /\ searches' = Stored(w)
            /\ searchID' = [searchID EXCEPT ![w] = Len(searches'[w])]
         \/ p # "poll" /\ UNCHANGED searchID
  BY <1>2 DEF Submit
<1>4. ServiceType'
  <2>1. searches' \in [Workers -> Seq(SearchStatus)]
    BY <1>3, StoredSearches
  <2>2. Len(searches'[w]) \in Nat
    BY <2>1
  <2>3. searchID' \in [Workers -> Nat]
    BY <1>3, <2>2
  <2>4. pc' \in [Workers -> {"idle", "write"} \cup InFlight]
    BY <1>2 DEF InFlight
  <2>5. attempts' \in [Workers -> Nat] /\ kind' = "scra"
    BY <1>1
  <2> QED BY <2>1, <2>3, <2>4, <2>5
<1>5. ASSUME NEW v \in Workers, v # w PROVE SearchInv(v)'
  <2>1. searches'[v] = searches[v]
    BY <1>3, <1>5, StoredSearches
  <2> QED BY <1>1, <1>2, <1>3, <1>5, <2>1 DEF SearchInv, Latest
<1>6. SearchInv(w)'
  <2>1. searchID[w] = 0 /\ Len(searches[w]) \in Nat /\ Len(searches[w]) <= attempts[w]
    BY <1>1 DEF SearchInv
  <2>2. Len(searches'[w]) \in {Len(searches[w]), Len(searches[w]) + 1}
    BY <1>3, StoredSearches
  <2>3. Len(searches'[w]) <= attempts'[w] /\ Len(searches'[w]) <= MaxAttempts
    BY <1>1, <2>1, <2>2, LimitsAssumption
  <2>4. p = "poll" => searchID'[w] = Len(searches[w]) + 1
    BY <1>3, StoredSearches
  <2>5. p # "poll" => searchID'[w] = 0
    BY <1>3, <2>1
  <2>6. p = "poll" => searchID'[w] = Len(searches'[w]) /\ searchID'[w] # 0
    BY <1>3, <2>1, <2>4, StoredSearches
  <2> QED BY <1>2, <2>3, <2>5, <2>6 DEF SearchInv
<1> QED BY <1>4, <1>5, <1>6

\* A poll ends only with the service's word on the search.
LEMMA AskKeepsInv ==
    ASSUME ServiceInv, NEW w \in Workers, Ask(w)
    PROVE  ServiceInv'
<1> USE DEF ServiceInv, ServiceType
<1>1. /\ pc[w] = "poll"
      /\ attempts' = [attempts EXCEPT ![w] = attempts[w] + 1]
      /\ UNCHANGED <<kind, searches, searchID>>
  BY DEF Ask, Poll, Send, service
<1>2. searchID[w] # 0 /\ searchID[w] = Len(searches[w])
  BY <1>1 DEF SearchInv
<1>3. Latest(w) \in SearchStatus
  BY <1>2 DEF Latest
<1>4. PICK reply \in Answers(Latest(w)) : pc'[w] = AfterPoll(reply)
  BY <1>2 DEF Ask, Latest
<1>5. PICK p \in {"poll", "succeeded", "failed"} : pc' = [pc EXCEPT ![w] = p]
  BY DEF Ask, Poll, AfterPoll
<1>6. /\ p = "succeeded" => Latest(w) = "complete"
      /\ p = "failed" => Latest(w) \in {"error", "forgotten"}
  BY <1>3, <1>4, <1>5 DEF AfterPoll, PollResult, Answers, SearchStatus
<1>7. ServiceType'
  BY <1>1, <1>5 DEF InFlight
<1>8. ASSUME NEW v \in Workers, v # w PROVE SearchInv(v)'
  BY <1>1, <1>5, <1>8 DEF SearchInv, Latest
<1>9. SearchInv(w)'
  BY <1>1, <1>2, <1>5, <1>6 DEF SearchInv, Latest
<1> QED BY <1>7, <1>8, <1>9

\* Searches that are all forgotten.
LEMMA ForgottenSearches ==
    ASSUME NEW n \in Nat, NEW s, s = [i \in 1..n |-> "forgotten"]
    PROVE  s \in Seq(SearchStatus) /\ Len(s) = n
<1>1. s \in [1..n -> SearchStatus]
  BY DEF SearchStatus
<1> QED BY <1>1

\* The service settles pending searches only, and a restart forgets them all.
LEMMA ServiceKeepsInv ==
    ASSUME ServiceInv,
           Forget \/ \E w \in Workers : \E i \in DOMAIN searches[w] : Finish(w, i)
    PROVE  ServiceInv'
<1> USE DEF ServiceInv, ServiceType
<1>1. UNCHANGED <<kind, attempts, pc, searchID>>
  BY DEF Forget, Finish, vars
<1>2. /\ searches' \in [Workers -> Seq(SearchStatus)]
      /\ \A v \in Workers :
            /\ Len(searches'[v]) = Len(searches[v])
            /\ \A i \in DOMAIN searches[v] :
                  searches[v][i] # "pending" => searches'[v][i] \in {searches[v][i], "forgotten"}
  <2>1. CASE Forget
    <3>1. \A v \in Workers : searches'[v] = [i \in 1..Len(searches[v]) |-> "forgotten"]
      BY <2>1 DEF Forget
    <3>2. searches' = [v \in Workers |-> searches'[v]]
      BY <2>1 DEF Forget
    <3>3. ASSUME NEW v \in Workers
          PROVE  searches'[v] \in Seq(SearchStatus) /\ Len(searches'[v]) = Len(searches[v])
      <4>1. Len(searches[v]) \in Nat
        OBVIOUS
      <4> QED BY <3>1, <4>1, ForgottenSearches
    <3>4. ASSUME NEW v \in Workers, NEW i \in DOMAIN searches[v]
          PROVE  searches'[v][i] = "forgotten"
      <4>1. DOMAIN searches[v] = 1..Len(searches[v])
        OBVIOUS
      <4> QED BY <3>1, <3>4, <4>1
    <3>5. searches' \in [Workers -> Seq(SearchStatus)]
      BY <3>2, <3>3
    <3> QED BY <3>3, <3>4, <3>5
  <2>2. ASSUME NEW w \in Workers, NEW i \in DOMAIN searches[w], Finish(w, i) PROVE <1>2
    <3>1. PICK status \in {"complete", "error"} :
             searches' = [searches EXCEPT ![w][i] = status]
      BY <2>2 DEF Finish
    <3>2. searches'[w] = [searches[w] EXCEPT ![i] = status]
      BY <3>1
    <3>3. searches'[w] \in Seq(SearchStatus) /\ Len(searches'[w]) = Len(searches[w])
      BY <3>2 DEF SearchStatus
    <3>4. \A v \in Workers \ {w} : searches'[v] = searches[v]
      BY <3>1
    <3>5. searches' = [v \in Workers |-> searches'[v]]
      BY <3>1
    <3>6. searches[w][i] = "pending"
      BY <2>2 DEF Finish
    <3> QED BY <3>2, <3>3, <3>4, <3>5, <3>6
  <2> QED BY <2>1, <2>2
<1>3. ASSUME NEW v \in Workers PROVE SearchInv(v)'
  <2>1. pc[v] \in {"succeeded", "failed"} /\ searchID[v] # 0
           => Len(searches[v]) \in DOMAIN searches[v]
    BY DEF SearchInv
  <2>2. searches[v] = <<>> => searches'[v] = <<>>
    BY <1>2
  <2>3. Latest(v) # "pending" /\ Len(searches[v]) \in DOMAIN searches[v]
           => Latest(v)' \in {Latest(v), "forgotten"}
    BY <1>2 DEF Latest
  <2> QED BY <1>1, <1>2, <2>1, <2>2, <2>3 DEF SearchInv
<1> QED BY <1>1, <1>2, <1>3
LEMMA ServiceInvariant == ScraSpec => []ServiceInv
<1>1. ScraInit => ServiceInv
  BY ScraAssumption, LimitsAssumption
     DEF ScraInit, Init, ServiceInv, ServiceType, SearchInv, InFlight
<1>2. ServiceInv /\ [ScraNext]_scraVars => ServiceInv'
  <2> SUFFICES ASSUME ServiceInv, [ScraNext]_scraVars PROVE ServiceInv'
    OBVIOUS
  <2>1. ASSUME NEW w \in Workers, Submit(w) \/ Ask(w) PROVE ServiceInv'
    BY <2>1, SubmitKeepsInv, AskKeepsInv
  <2>2. CASE Forget \/ \E w \in Workers : \E i \in DOMAIN searches[w] : Finish(w, i)
    BY <2>2, ServiceKeepsInv
  <2>3. ASSUME NEW w \in Workers, Allow(w), UNCHANGED service PROVE ServiceInv'
    <3> USE DEF ServiceInv, ServiceType, InFlight
    <3>1. searches[w] = <<>> /\ searchID[w] = 0 /\ Len(searches[w]) = 0
      BY <2>3 DEF Allow, SearchInv
    <3>2. PICK p \in {"attempt", "write"} : pc' = [pc EXCEPT ![w] = p]
      BY <2>3 DEF Allow
    <3>3. attempts' = [attempts EXCEPT ![w] = 0] /\ UNCHANGED <<kind, searches, searchID>>
      BY <2>3 DEF Allow, service
    <3>4. ServiceType'
      BY <3>2, <3>3
    <3>5. SearchInv(w)'
      BY <3>1, <3>2, <3>3, LimitsAssumption DEF SearchInv
    <3>6. ASSUME NEW v \in Workers, v # w PROVE SearchInv(v)'
      BY <3>2, <3>3, <3>6 DEF SearchInv, Latest
    <3> QED BY <3>4, <3>5, <3>6
  <2>4. ASSUME NEW w \in Workers, UNCHANGED service,
               Backoff(w) \/ PollTimeout(w) \/ RecordSuccess(w) \/ RecordFailure(w)
        PROVE ServiceInv'
    BY <2>4 DEF ServiceInv, ServiceType, InFlight, Backoff, PollTimeout, RecordSuccess,
                RecordFailure, service, SearchInv, Latest
  <2>5. ASSUME NEW w \in Workers, Leave(w) PROVE ServiceInv'
    BY <2>5, LimitsAssumption DEF ServiceInv, ServiceType, InFlight, Leave, Write,
                                  SearchInv, Latest
  <2>6. CASE UNCHANGED scraVars \/ (Environment /\ UNCHANGED service)
    BY <2>6 DEF ServiceInv, ServiceType, scraVars, vars, service, Environment, SearchInv,
                Latest
  <2>7. ASSUME NEW w \in Workers, ScraProcess(w) PROVE ServiceInv'
    BY <2>1, <2>4, <2>5, <2>7 DEF ScraProcess
  <2> QED BY <2>2, <2>3, <2>6, <2>7 DEF ScraNext
<1> QED BY <1>1, <1>2, PTL DEF ScraSpec

\* A worker reports what the service has said of its last search
\* (process_scra.go:44-121, scra.go:102-213), for any number of workers, retries,
\* polls and restarts of the service.
THEOREM VerdictHolds == ScraSpec => []VerdictIsAnswer
<1>1. ServiceInv => VerdictIsAnswer
  BY DEF ServiceInv, SearchInv, Latest, VerdictIsAnswer
<1> QED BY <1>1, ServiceInvariant, PTL

\* One source starts at most MaxAttempts searches (process_scra.go:30-48), and
\* the worker polls the last.
THEOREM SearchesAreBounded == ScraSpec => []SearchesBounded
<1>1. ServiceInv => SearchesBounded
  BY DEF ServiceInv, SearchInv, SearchesBounded
<1> QED BY <1>1, ServiceInvariant, PTL

\* Lost replies and restarts of the service leave the reports as they are
\* (process_scra.go:17-121): one for every admitted fetch.
THEOREM ScraReportsOnce == ScraSpec => []ReportedOnce
BY ScraImplementsFetch, ReportsOnce, PTL

\* Nor do they let a second probe through (circuitbreaker.go:60), although an
\* SCRA worker may never report the first (process_scra.go:79).
THEOREM ScraOneProbe == ScraSpec => []OneProbePerCooldown
BY ScraImplementsFetch, FetchOneProbe, PTL
=============================================================================
