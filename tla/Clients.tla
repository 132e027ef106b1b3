------------------------------- MODULE Clients -------------------------------
(***************************************************************************)
(* What the HTTP clients of internal/client make of a reply.  Replies are  *)
(* classes: "ok" is a 200 whose body parses, "unreadable" one whose body   *)
(* does not, "no_answer" a transport error, a deadline or a body that      *)
(* breaks off; the others are named after what the service says.  A client *)
(* returns a value, a "transient" error (retried) or a "permanent" one     *)
(* (ErrNotFound, the only PermanentError).                                 *)
(***************************************************************************)

\* What can come back from each service.
CommonReplies == {"ok", "unreadable", "unavailable", "no_answer"}
PropertyReplies == CommonReplies \cup {"not_found"}
CourtReplies == CommonReplies \cup {"rate_limited", "no_filing"}
SubmitReplies == CommonReplies \cup {"accepted"}
PollReplies == CommonReplies \cup {"accepted", "search_error", "not_found"}

\* PropertyClient.Fetch
Fetch(reply) == CASE reply = "ok" -> "value"
                  [] reply = "not_found" -> "permanent"
                  [] OTHER -> "transient"

\* CourtClient.Search: no filing is an answer, a 404 is an unexpected status.
Search(reply) == IF reply \in {"ok", "no_filing"} THEN "value" ELSE "transient"

\* SCRAClient.SubmitSearch: only a 202 that parses starts a search.
SubmitSearch(reply) == IF reply = "accepted" THEN "value" ELSE "transient"

\* SCRAClient.PollResult, with the status "complete" as a value and the
\* status "error" as permanent: that is how processSCRA takes them.
PollResult(reply) == CASE reply = "accepted" -> "pending"
                       [] reply = "ok" -> "value"
                       [] reply \in {"search_error", "not_found"} -> "permanent"
                       [] OTHER -> "transient"
=============================================================================
