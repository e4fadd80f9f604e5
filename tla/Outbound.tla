------------------------------ MODULE Outbound ------------------------------
(***************************************************************************)
(* Calls of the logistics platform (POC) to weather, map and carrier       *)
(* providers: ExternalApiService.request, which tries again after a        *)
(* growing pause and gives up with a 503, over an HTTP client that ends    *)
(* every attempt after a timeout.  How long the pauses are makes no        *)
(* difference here, only that they end.                                    *)
(***************************************************************************)
EXTENDS Naturals

CONSTANTS
  Lookup,     \* calls of request
  MaxRetries  \* http.maxRetries

ASSUME RetriesAssumption == MaxRetries \in Nat

VARIABLES
  lookup,   \* where a call is
  attempts  \* its attempts that have failed

outboundVars == <<lookup, attempts>>

OutboundTypeOK ==
  /\ lookup \in [Lookup -> {"new", "asking", "pausing", "answered", "unavailable"}]
  /\ attempts \in [Lookup -> 0..MaxRetries + 1]

OutboundInit ==
  /\ lookup = [l \in Lookup |-> "new"]
  /\ attempts = [l \in Lookup |-> 0]

Turn(l, from, to) == lookup[l] = from /\ lookup' = [lookup EXCEPT ![l] = to]

\* getWeather, getCarrierTracking, and geocode when it has a key.
AskProvider(l) == Turn(l, "new", "asking") /\ UNCHANGED attempts

AnswerProvider(l) == Turn(l, "asking", "answered") /\ UNCHANGED attempts

\* Variant: the retries count the first attempt too.
FailProviderEarly(l) ==
  LET n == attempts[l] + 1 IN
  /\ Turn(l, "asking", IF n < MaxRetries THEN "pausing" ELSE "unavailable")
  /\ attempts' = [attempts EXCEPT ![l] = n]

\* An error, of whatever kind, or the timeout, after which the answer reaches
\* nobody: retry, or catchError's 503.
FailProvider(l) ==
  LET n == attempts[l] + 1 IN
  /\ Turn(l, "asking", IF n <= MaxRetries THEN "pausing" ELSE "unavailable")
  /\ attempts' = [attempts EXCEPT ![l] = n]

\* The timer of the pause fires.
Again(l) == Turn(l, "pausing", "asking") /\ UNCHANGED attempts

OutboundNext ==
  \E l \in Lookup : AskProvider(l) \/ AnswerProvider(l) \/ FailProvider(l) \/ Again(l)

\* The timers of the pauses and of the client fire, while the process runs.
OutboundFairness ==
  \A l \in Lookup :
    WF_outboundVars(AnswerProvider(l) \/ FailProvider(l)) /\ WF_outboundVars(Again(l))

----------------------------------------------------------------------------
(* Properties *)

LookupFate ==
  [l \in Lookup |->
    IF lookup[l] = "new" THEN "unknown"
    ELSE IF lookup[l] \in {"asking", "pausing"} THEN "owed"
    ELSE IF lookup[l] = "answered" THEN "done" ELSE "abandoned"]

\* A call withstands MaxRetries failed attempts, and always comes to an answer
\* or a 503: what AtLeastOnce promises of an item, with another bound.
Provider == INSTANCE AtLeastOnce
  WITH Item <- Lookup, Tolerated <- MaxRetries, state <- LookupFate, faults <- attempts
KeepsTrying == Provider!Spec
=============================================================================
