----------------------------- MODULE Shortener -----------------------------
(***************************************************************************)
(* The URL shortener on Redis (Nest_Redis): POST /shorten behind the       *)
(* RateLimitInterceptor, and GET /:code, which counts clicks.              *)
(*                                                                         *)
(* Every Redis command is atomic; a request is suspended at each one, and  *)
(* other requests and the passing of time come in between.                 *)
(***************************************************************************)
EXTENDS Redis, FiniteSets

CONSTANTS
  Ip,       \* client addresses
  Shorten,  \* POST /shorten requests, each made once
  Resolve,  \* GET /:code requests, each made once
  From,     \* From[r]: the address a POST /shorten comes from
  Code,     \* the codes nanoid may draw
  Quota,    \* RATE_LIMIT_MAX
  Window,   \* RATE_LIMIT_WINDOW_SECONDS
  Lifetime  \* URL_TTL_SECONDS

\* A setting of 0 falls back to its default ("|| 5").
ASSUME SettingsAssumption == {Quota, Window, Lifetime} \subseteq Nat \ {0}
ASSUME RequestAssumption ==
  /\ From \in [Shorten -> Ip]
  /\ Shorten \cap Resolve = {}
  /\ IsFiniteSet(Shorten)

VARIABLES
  counter,   \* the keys ratelimit:<ip>
  url,       \* the keys url:<code>; the value is the request that set it
  clicks,    \* the keys clicks:<code>
  pc,        \* where a request is suspended
  count,     \* what INCR answered to a POST /shorten
  code,      \* the code a request works with
  hits,      \* history: clicks recorded since url:<code> was set
  counted,   \* history: the requests counted since ratelimit:<ip> was created
  passed,    \* history: the requests the limiter let through
  collided   \* history: codes two POST /shorten had drawn at once, whose two SETs
             \* were cut short, or clicked between the two SETs

vars == <<counter, url, clicks, pc, count, code, hits, counted, passed, collided>>
limiter == <<counter, count, counted, passed>>
Request == Shorten \cup Resolve

None == "none"
State == {"new", "expiring", "judging", "drawing", "setting", "initialising",
          "clicking", "done", "rejected", "failed"}

Entry(V) == [val : V, ttl : Nat \cup {Missing, Persistent}]

TypeOK ==
  /\ counter \in [Ip -> Entry(Nat)]
  /\ url \in [Code -> Entry(Shorten \cup {0})]
  /\ clicks \in [Code -> Entry(Nat)]
  /\ pc \in [Request -> State]
  /\ count \in [Shorten -> Nat]
  /\ code \in [Request -> Code \cup {None}]
  /\ hits \in [Code -> Nat]
  /\ counted \in [Ip -> SUBSET Shorten]
  /\ passed \subseteq Shorten
  /\ collided \subseteq Code

Init ==
  /\ counter = [i \in Ip |-> Absent]
  /\ url = [c \in Code |-> Absent]
  /\ clicks = [c \in Code |-> Absent]
  /\ pc = [r \in Request |-> "new"]
  /\ count = [r \in Shorten |-> 0]
  /\ code = [r \in Request |-> None]
  /\ hits = [c \in Code |-> 0]
  /\ counted = [i \in Ip |-> {}]
  /\ passed = {}
  /\ collided = {}

----------------------------------------------------------------------------
(* RateLimitInterceptor *)

\* INCR: the request is counted; the first of a window starts the countdown.
CountHit(r) ==
  LET i == From[r]
      e == Incr(counter[i])
  IN /\ pc[r] = "new"
     /\ counter' = [counter EXCEPT ![i] = e]
     /\ count' = [count EXCEPT ![r] = e.val]
     /\ counted' = [counted EXCEPT ![i] = @ \cup {r}]
     /\ pc' = [pc EXCEPT ![r] = IF e.val = 1 THEN "expiring" ELSE "judging"]
     /\ UNCHANGED <<url, clicks, code, hits, passed, collided>>

\* Variant: the countdown is forgotten.
StartWindowNot(r) ==
  /\ pc[r] = "expiring"
  /\ pc' = [pc EXCEPT ![r] = "judging"]
  /\ UNCHANGED <<counter, url, clicks, count, code, hits, counted, passed, collided>>

\* EXPIRE.
StartWindow(r) ==
  /\ pc[r] = "expiring"
  /\ counter' = [counter EXCEPT ![From[r]] = Expire(@, Window)]
  /\ pc' = [pc EXCEPT ![r] = "judging"]
  /\ UNCHANGED <<url, clicks, count, code, hits, counted, passed, collided>>

\* Variant: the comparison is off by one.
JudgeOffByOne(r) ==
  LET rejected == count[r] > Quota + 1 IN
  /\ pc[r] = "judging"
  /\ pc' = [pc EXCEPT ![r] = IF rejected THEN "rejected" ELSE "drawing"]
  /\ passed' = IF rejected THEN passed ELSE passed \cup {r}
  /\ UNCHANGED <<counter, url, clicks, count, code, hits, counted, collided>>

\* 429 above the quota, otherwise the handler runs.
Judge(r) ==
  LET rejected == count[r] > Quota IN
  /\ pc[r] = "judging"
  /\ pc' = [pc EXCEPT ![r] = IF rejected THEN "rejected" ELSE "drawing"]
  /\ passed' = IF rejected THEN passed ELSE passed \cup {r}
  /\ UNCHANGED <<counter, url, clicks, count, code, hits, counted, collided>>

----------------------------------------------------------------------------
(* UrlService *)

\* shorten: nanoid draws a code; EXISTS says whether to draw again.
DrawCode(r) ==
  /\ pc[r] = "drawing"
  /\ \E c \in Code :
       /\ ~Exists(url[c])
       /\ code' = [code EXCEPT ![r] = c]
       /\ pc' = [pc EXCEPT ![r] = "setting"]
       /\ collided' = IF \E o \in Shorten : code[o] = c /\ pc[o] \in {"setting", "initialising"}
                        THEN collided \cup {c} ELSE collided
  /\ UNCHANGED <<limiter, url, clicks, hits>>

\* shorten: SET url:<code> EX.
SetUrl(r) ==
  /\ pc[r] = "setting"
  /\ url' = [url EXCEPT ![code[r]] = SetEx(r, Lifetime)]
  /\ hits' = [hits EXCEPT ![code[r]] = 0]
  /\ pc' = [pc EXCEPT ![r] = "initialising"]
  /\ UNCHANGED <<limiter, clicks, code, collided>>

\* Variant: the counter is left to the first click.
InitClicksNot(r) ==
  /\ pc[r] = "initialising"
  /\ pc' = [pc EXCEPT ![r] = "done"]
  /\ UNCHANGED <<limiter, url, clicks, code, hits, collided>>

\* shorten: SET clicks:<code> 0 EX.
InitClicks(r) ==
  /\ pc[r] = "initialising"
  /\ clicks' = [clicks EXCEPT ![code[r]] = SetEx(0, Lifetime)]
  /\ pc' = [pc EXCEPT ![r] = "done"]
  /\ UNCHANGED <<limiter, url, code, hits, collided>>

\* resolve: GET url:<code>, for a code that some POST /shorten has answered.
FindUrl(r) ==
  /\ pc[r] = "new"
  /\ \E s \in {o \in Shorten : pc[o] = "done"} :
       IF Exists(url[code[s]])
         THEN /\ pc' = [pc EXCEPT ![r] = "clicking"]
              /\ code' = [code EXCEPT ![r] = code[s]]
         ELSE /\ pc' = [pc EXCEPT ![r] = "rejected"]   \* 404
              /\ UNCHANGED code
  /\ UNCHANGED <<limiter, url, clicks, hits, collided>>

\* resolve: INCR clicks:<code>, then the redirect.
RecordClick(r) ==
  LET c == code[r] IN
  /\ pc[r] = "clicking"
  /\ clicks' = [clicks EXCEPT ![c] = Incr(@)]
  /\ hits' = [hits EXCEPT ![c] = @ + 1]
  /\ pc' = [pc EXCEPT ![r] = "done"]
  /\ collided' = IF \E o \in Shorten : code[o] = c /\ pc[o] = "initialising"
                   THEN collided \cup {c} ELSE collided
  /\ UNCHANGED <<limiter, url, code>>

\* A Redis command fails or the process ends between two of them; what Redis
\* holds stays (REDIS_URL).
Fail(r) ==
  /\ pc[r] \notin {"new", "done", "rejected", "failed"}
  /\ pc' = [pc EXCEPT ![r] = "failed"]
  /\ collided' = IF pc[r] = "initialising" THEN collided \cup {code[r]} ELSE collided
  /\ UNCHANGED <<limiter, url, clicks, code, hits>>

----------------------------------------------------------------------------
\* One second passes for every key; a counter that expires ends its window.
Tick ==
  /\ counter' = [i \in Ip |-> Age(counter[i])]
  /\ url' = [c \in Code |-> Age(url[c])]
  /\ clicks' = [c \in Code |-> Age(clicks[c])]
  /\ counted' = [i \in Ip |-> IF counter[i].ttl = 1 THEN {} ELSE counted[i]]
  /\ UNCHANGED <<pc, count, code, hits, passed, collided>>

Next ==
  \/ \E r \in Shorten :
       \/ CountHit(r) \/ StartWindow(r) \/ Judge(r)
       \/ DrawCode(r) \/ SetUrl(r) \/ InitClicks(r)
  \/ \E r \in Resolve : FindUrl(r) \/ RecordClick(r)
  \/ \E r \in Request : Fail(r)
  \/ Tick

Spec == Init /\ [][Next]_vars
----------------------------------------------------------------------------
(* Properties *)

\* RATE_LIMIT_MAX: of the requests counted by one counter of an address, from
\* its creation to its expiry, no more than the quota reach the handler,
\* however their INCR, EXPIRE and handlers interleave.
QuotaKept ==
  \A i \in Ip : Cardinality(counted[i] \cap passed) <= Quota

\* A fixed window: once its countdown runs, no later request prolongs it.
WindowNotExtended ==
  [][\A i \in Ip : counter[i].ttl >= 0 => counter'[i].ttl <= counter[i].ttl]_vars

\* A counter without an expiry belongs to a first request that is about to set
\* it, or that failed before it could: no other interleaving leaves an address
\* shut out for good.
CounterWillExpire ==
  \A i \in Ip : counter[i].ttl = Persistent =>
    \E r \in counted[i] : count[r] = 1 /\ pc[r] \in {"expiring", "failed"}

\* While a code is live its statistics count every click recorded since the
\* code was made, and the counter does not expire before the code.
ClicksAddUp ==
  \A c \in Code \ collided :
    Exists(url[c]) /\ (\A r \in Shorten : code[r] = c => pc[r] # "initialising") =>
      clicks[c].val = hits[c] /\ clicks[c].ttl >= url[c].ttl
=============================================================================
