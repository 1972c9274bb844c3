------------------------------ MODULE SearchTool ------------------------------
(***************************************************************************)
(* A search (agentic/tools/web_search/search.py): a request that may be    *)
(* tried again (_retry.py), the filters on what it finds, and the ladder   *)
(* of wider queries that are asked while nothing is left.                  *)
(*                                                                         *)
(* A query is told by what the ladder looks at: double quotes, a site:     *)
(* token with or without a path, and whether words remain without them.    *)
(***************************************************************************)
EXTENDS Integers, Sequences, SequencesExt

CONSTANT MaxSearchAttempts \* max_attempts of the policy; the first counts

ASSUME SearchAssumption == MaxSearchAttempts \in Nat \ {0}

VARIABLES
  search,   \* where the search is
  bounded,  \* the run has an information boundary (t_cut)
  policy,   \* the errors of the transport that are tried again
  form,     \* effective_query
  request,  \* the number of the request for it, from 1
  cards,    \* organic: the kinds of card that were kept
  answered  \* attempts, one per form that was answered; the forms and what was found

searchVars == <<search, bounded, policy, form, request, cards, answered>>

Kinds == {"banned", "late", "undated", "dated"}

\* A query is never empty when it is sent.
Forms == {q \in [quoted : BOOLEAN, site : {"none", "domain", "path"}, words : BOOLEAN] :
            q.quoted \/ q.site # "none" \/ q.words}
NoForm == [quoted |-> FALSE, site |-> "none", words |-> FALSE]

SearchInit ==
  /\ search = "idle" /\ bounded \in BOOLEAN /\ policy \in SUBSET {"connect", "timeout"}
  /\ form = NoForm /\ request = 0 /\ cards = {} /\ answered = <<>>

Request(query) == search' = "requesting" /\ form' = query /\ request' = 1

\* No key, or nothing but space in the query.
RefuseSearch ==
  /\ search = "idle" /\ search' = "failed"
  /\ UNCHANGED <<bounded, policy, form, request, cards, answered>>

BeginSearch(query) ==
  /\ search = "idle" /\ Request(query)
  /\ UNCHANGED <<bounded, policy, cards, answered>>

-----------------------------------------------------------------------------
\* should_retry_transport_error, is_retryable_status: other errors of the transport, other
\* codes and an answer that is no JSON end the search.
TriedAgain(error) == error \in policy \cup {"busy"}

SearchErrors == {"connect", "timeout", "busy", "refused", "other"}

Retries(error) == TriedAgain(error) /\ request < MaxSearchAttempts

\* _serper_request; an error that is not tried again fails the search, whatever the
\* forms before this one have found.
RequestFails(error) ==
  /\ search = "requesting"
  /\ IF Retries(error) THEN search' = search /\ request' = request + 1
     ELSE search' = "failed" /\ request' = request
  /\ UNCHANGED <<bounded, policy, form, cards, answered>>

\* _screen_organic: addresses that are banned, and then what is late; what else the
\* screen would keep from the model is EvidenceScreen's.
Screened(found) == found \ ({"banned"} \cup IF bounded THEN {"late"} ELSE {})

RequestSucceeds(found) ==
  /\ search = "requesting" /\ search' = "found"
  /\ cards' = Screened(found)
  /\ answered' = Append(answered, [form |-> form, requests |-> request, cards |-> Screened(found)])
  /\ UNCHANGED <<bounded, policy, form, request>>

-----------------------------------------------------------------------------
(***************************************************************************)
(* The ladder, smallest loss of intent first.                              *)
(***************************************************************************)
Unquoted(q) == [q EXCEPT !.quoted = FALSE]
\* _site_query_bare_domain, _site_query_dropped
BareDomain(q) == [q EXCEPT !.site = "domain"]
SiteDropped(q) == [q EXCEPT !.site = "none"]

\* Defect in the operator below: a token without a path is left in the query.
WiderByPath(q) ==
  IF q.quoted /\ Unquoted(q) \in Forms THEN {Unquoted(q)}
  ELSE IF q.site = "path" THEN {BareDomain(q)}
  ELSE {}

\* The next form, if there is one.
Wider(q) ==
  IF q.quoted /\ Unquoted(q) \in Forms THEN {Unquoted(q)}
  ELSE IF q.site = "path" THEN {BareDomain(q)}
  ELSE IF q.site = "domain" /\ SiteDropped(q) \in Forms THEN {SiteDropped(q)}
  ELSE {}

Widen ==
  /\ search = "found" /\ cards = {}
  /\ \E wider \in Wider(form) : Request(wider)
  /\ UNCHANGED <<bounded, policy, cards, answered>>

\* The as-of stamp is of the form asked last.
Show ==
  /\ search = "found" /\ (cards # {} \/ Wider(form) = {})
  /\ search' = "shown"
  /\ UNCHANGED <<bounded, policy, form, request, cards, answered>>

SearchNext ==
  \/ RefuseSearch
  \/ \E query \in Forms : BeginSearch(query)
  \/ \E error \in SearchErrors : RequestFails(error)
  \/ \E found \in SUBSET Kinds : RequestSucceeds(found)
  \/ Widen \/ Show

SearchSpec == SearchInit /\ [][SearchNext]_searchVars

-----------------------------------------------------------------------------
(***************************************************************************)
(* Properties.                                                             *)
(***************************************************************************)

\* q has lost something that p says, and says nothing that p does not.
Weaker(q, p) ==
  /\ q # p
  /\ q.quoted => p.quoted
  /\ q.site # "none" => p.site # "none"
  /\ q.site = "path" => p.site = "path"

\* A search widens its query only for want of cards it may show, one loss at a time and
\* never back, ends without cards only if no form of the query that says less is left to
\* ask ("a working query costs one request", search.py), shows no card that is banned or
\* late, and stays within the requests of four forms.
SearchAccounted ==
  /\ \A n \in 1..Len(answered) - 1 : answered[n].cards = {} /\ Weaker(answered[n + 1].form, answered[n].form)
  /\ \A n \in DOMAIN answered : answered[n].requests <= MaxSearchAttempts
  /\ Len(answered) <= 4 /\ request <= MaxSearchAttempts
  /\ search = "shown" =>
       /\ cards = Last(answered).cards /\ "banned" \notin cards /\ (bounded => "late" \notin cards)
       /\ cards = {} => ~\E q \in Forms : Weaker(q, form) /\ q.words = form.words
=============================================================================
