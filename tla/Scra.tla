-------------------------------- MODULE Scra --------------------------------
(***************************************************************************)
(* The SCRA workers of SourceFetch with the service they talk to (as       *)
(* src/mock-services implements it): a table of searches in memory, each   *)
(* pending until the service has settled it.  A request or its reply may   *)
(* be lost, and a reply may be unreadable although the request was carried *)
(* out: the worker then submits again, and the service has two searches.   *)
(* The steps of a worker are those of SourceFetch with the service's part  *)
(* beside them, so what SourceFetch's specification implies holds here.    *)
(***************************************************************************)
EXTENDS SourceFetch, Sequences

ASSUME ScraAssumption == Kinds = {"scra"}

VARIABLES
    searches,       \* service: the status of each search submitted for a
                    \* worker's source, in the order of submission
    searchID        \* worker: which of them it polls; 0 before the 202

service == <<searches, searchID>>
scraVars == <<vars, service>>

ScraInit ==
    /\ Init
    /\ searches = [w \in Workers |-> <<>>]
    /\ searchID = [w \in Workers |-> 0]

-----------------------------------------------------------------------------
(* The service. *)

\* scraSearches.Store(searchID, search)
Stored(w) == [searches EXCEPT ![w] = Append(@, "pending")]

\* The replies to GET /api/scra/results/{searchId}, whole or damaged.
Answers(status) ==
    {CASE status = "pending" -> "accepted"
       [] status = "complete" -> "ok"
       [] status = "error" -> "search_error"
       [] status = "forgotten" -> "not_found"}
    \cup {"no_answer", "unreadable", "unavailable"}

\* The goroutine of a search wakes up and settles it, willFail or not.
Finish(w, i) ==
    /\ searches[w][i] = "pending"
    /\ \E status \in {"complete", "error"} :
          searches' = [searches EXCEPT ![w][i] = status]
    /\ UNCHANGED <<vars, searchID>>

\* The service restarts: its table was in memory.
Forget ==
    /\ \E w \in Workers : \E i \in DOMAIN searches[w] : searches[w][i] # "forgotten"
    /\ searches' = [w \in Workers |-> [i \in DOMAIN searches[w] |-> "forgotten"]]
    /\ UNCHANGED <<vars, searchID>>

-----------------------------------------------------------------------------
(* The workers. *)

\* Mutant: the client keeps the id of the first search it ever submitted.
Submit_FirstID(w) ==
    /\ Attempt(w)
    /\ \/ /\ pc'[w] = "poll"
          /\ searches' = Stored(w)
          /\ searchID' = [searchID EXCEPT ![w] = 1]
       \/ /\ pc'[w] # "poll"
          /\ searches' \in {searches, Stored(w)}
          /\ UNCHANGED searchID

\* SubmitSearch in the retry loop: a 202 that arrives names its search; after
\* any other outcome there may be one that the worker does not know.
Submit(w) ==
    /\ Attempt(w)
    /\ \/ /\ pc'[w] = "poll"
          /\ searches' = Stored(w)
          /\ searchID' = [searchID EXCEPT ![w] = Len(searches'[w])]
       \/ /\ pc'[w] # "poll"
          /\ searches' \in {searches, Stored(w)}
          /\ UNCHANGED searchID

\* PollResult: what comes back depends on the search.
Ask(w) ==
    /\ Poll(w)
    /\ \E reply \in Answers(searches[w][searchID[w]]) : pc'[w] = AfterPoll(reply)
    /\ UNCHANGED service

\* The worker's result is written and its searches are nobody's any more.
Leave(w) ==
    /\ Write(w)
    /\ searches' = [searches EXCEPT ![w] = <<>>]
    /\ searchID' = [searchID EXCEPT ![w] = 0]

ScraProcess(w) ==
    \/ Submit(w)
    \/ Ask(w)
    \/ Leave(w)
    \/ /\ Backoff(w) \/ PollTimeout(w) \/ RecordSuccess(w) \/ RecordFailure(w)
       /\ UNCHANGED service

ScraNext ==
    \/ \E w \in Workers : (Allow(w) /\ UNCHANGED service) \/ ScraProcess(w)
    \/ \E w \in Workers : \E i \in DOMAIN searches[w] : Finish(w, i)
    \/ Forget
    \/ Environment /\ UNCHANGED service

ScraSpec == ScraInit /\ [][ScraNext]_scraVars

\* As FairSpec: requests and delays end, and so does the poll loop.  Nothing
\* is asked of the service.
ScraFairSpec == ScraSpec /\ \A w \in Workers : WF_scraVars(ScraProcess(w))

-----------------------------------------------------------------------------

\* What a worker reports is what the service has said of the search that the
\* worker's last submit started, however many lost replies made others: it
\* succeeds only on a complete search and gives up polling only on one that
\* is in error or unknown (a restart of the service may follow the answer).
VerdictIsAnswer ==
    \A w \in Workers :
        LET latest == searches[w][Len(searches[w])]
        IN  /\ pc[w] = "succeeded" => latest \in {"complete", "forgotten"}
            /\ pc[w] = "failed" /\ searchID[w] # 0 => latest \in {"error", "forgotten"}

\* One source starts at most MaxAttempts searches, all but the last of them
\* unknown to the worker: the retries of a submit multiply the service's work
\* by no more than their number.
SearchesBounded ==
    \A w \in Workers :
        /\ Len(searches[w]) <= MaxAttempts
        /\ searchID[w] \in {0, Len(searches[w])}
=============================================================================
