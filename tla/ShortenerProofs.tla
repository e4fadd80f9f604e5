-------------------------- MODULE ShortenerProofs --------------------------
(***************************************************************************)
(* What the rate limiter of Shortener guarantees for every quota, window,  *)
(* set of addresses and number of requests.                                *)
(*                                                                         *)
(* The quota rests on INCR giving each request of a window its own number: *)
(* the inductive invariant keeps the numbers of a window distinct and no   *)
(* higher than the counter, and ties the request that is about to call     *)
(* EXPIRE to the one counter that still lacks an expiry.                   *)
(***************************************************************************)
EXTENDS Shortener, FiniteSetTheorems, TLAPS

\* The part of the type invariant the limiter needs.
LimiterTypeOK ==
  /\ counter \in [Ip -> [val : Nat, ttl : Nat \cup {Missing, Persistent}]]
  /\ pc \in [Request -> State]
  /\ count \in [Shorten -> Nat]
  /\ counted \in [Ip -> SUBSET Shorten]
  /\ passed \in SUBSET Shorten

\* The requests of a window have numbers of their own, up to the counter.
Numbered ==
  \A i \in Ip : \A r \in counted[i] :
    /\ From[r] = i /\ pc[r] # "new"
    /\ count[r] >= 1 /\ count[r] <= counter[i].val
    /\ \A o \in counted[i] : count[o] = count[r] => o = r

\* A missing counter stands at 0, one that exists does not; a window without a
\* counter has counted nothing.
GoneIsEmpty ==
  \A i \in Ip : /\ counter[i].ttl = Missing <=> counter[i].val = 0
                /\ counter[i].ttl = Missing => counted[i] = {}

\* EXPIRE is pending only for the counter its request has created.
StartersPending ==
  \A r \in Shorten : pc[r] = "expiring" =>
    /\ r \in counted[From[r]] /\ count[r] = 1
    /\ counter[From[r]].ttl = Persistent

PassedInQuota ==
  \A r \in passed : pc[r] # "new" /\ count[r] <= Quota

IInv ==
  /\ LimiterTypeOK
  /\ Numbered
  /\ GoneIsEmpty
  /\ StartersPending
  /\ PassedInQuota
  /\ CounterWillExpire

----------------------------------------------------------------------------
LEMMA InitIInv == Init => IInv
  BY RequestAssumption, SettingsAssumption
  DEF Init, IInv, LimiterTypeOK, Numbered, GoneIsEmpty, StartersPending, PassedInQuota,
      CounterWillExpire, Absent, Missing, Persistent, State, Request

\* A step of UrlService, or a failure: the limiter's variables stay, and the
\* request that moves is not a new one and does not come to the limiter.
Quiet ==
  /\ UNCHANGED limiter
  /\ \E r \in Request, p \in State \ {"new", "expiring"} :
       /\ pc' = [pc EXCEPT ![r] = p]
       /\ pc[r] = "expiring" => p = "failed"
       /\ pc[r] # "failed"
       /\ r \in Shorten => pc[r] # "new"

\* A quiet step keeps the invariant: EXPIRE may be lost, never duplicated.
LEMMA QuietStep == IInv /\ Quiet => IInv'
<1> SUFFICES ASSUME IInv, Quiet PROVE IInv'
  OBVIOUS
<1>1. PICK r \in Request, p \in State \ {"new", "expiring"} :
        /\ pc' = [pc EXCEPT ![r] = p]
        /\ pc[r] = "expiring" => p = "failed"
        /\ pc[r] # "failed"
        /\ r \in Shorten => pc[r] # "new"
  BY DEF Quiet
<1>2. counter' = counter /\ count' = count /\ counted' = counted /\ passed' = passed
  BY DEF Quiet, limiter
<1>3. LimiterTypeOK'
  BY <1>1, <1>2 DEF IInv, LimiterTypeOK
<1>4. \A o \in Shorten : /\ pc'[o] = "new" <=> pc[o] = "new"
                         /\ pc'[o] = "expiring" => pc[o] = "expiring"
                         /\ pc[o] \in {"expiring", "failed"} => pc'[o] \in {"expiring", "failed"}
  BY <1>1 DEF IInv, LimiterTypeOK, Request
<1>5. Numbered' /\ GoneIsEmpty'
  BY <1>2, <1>4 DEF IInv, LimiterTypeOK, Numbered, GoneIsEmpty
<1>6. StartersPending' /\ PassedInQuota'
  BY <1>2, <1>4 DEF IInv, LimiterTypeOK, StartersPending, PassedInQuota
<1>7. CounterWillExpire'
  BY <1>2, <1>4 DEF IInv, LimiterTypeOK, CounterWillExpire
<1> QED
  BY <1>3, <1>5, <1>6, <1>7 DEF IInv

\* INCR gives the request the next number; a counter it creates awaits EXPIRE.
LEMMA CountStep == ASSUME NEW r \in Shorten PROVE IInv /\ CountHit(r) => IInv'
<1> SUFFICES ASSUME IInv, CountHit(r) PROVE IInv'
  OBVIOUS
<1> DEFINE i == From[r]
           e == Incr(counter[i])
<1>1. i \in Ip /\ r \in Request
  BY RequestAssumption DEF Request
<1>2. /\ pc[r] = "new"
      /\ counter' = [counter EXCEPT ![i] = e]
      /\ count' = [count EXCEPT ![r] = e.val]
      /\ counted' = [counted EXCEPT ![i] = @ \cup {r}]
      /\ pc' = [pc EXCEPT ![r] = IF e.val = 1 THEN "expiring" ELSE "judging"]
      /\ passed' = passed
  BY DEF CountHit
<1>3. /\ counter[i].val \in Nat /\ counter[i].ttl \in Nat \cup {Missing, Persistent}
      /\ e \in [val : Nat, ttl : Nat \cup {Missing, Persistent}]
      /\ e.val = IF Exists(counter[i]) THEN counter[i].val + 1 ELSE 1
      /\ e.ttl = IF Exists(counter[i]) THEN counter[i].ttl ELSE Persistent
  BY <1>1 DEF IInv, LimiterTypeOK, Incr, Exists
<1>4. e.val = counter[i].val + 1 /\ e.ttl # Missing
  BY <1>1, <1>3 DEF IInv, GoneIsEmpty, Exists, Missing, Persistent
<1>5. \A j \in Ip : r \notin counted[j]
  BY <1>2 DEF IInv, Numbered
<1>6. r \notin passed
  BY <1>2 DEF IInv, PassedInQuota
<1>7. LimiterTypeOK'
  BY <1>1, <1>2, <1>3 DEF IInv, LimiterTypeOK, State
<1> HIDE DEF e, i
<1>8. \A o \in Shorten \ {r} : count'[o] = count[o] /\ pc'[o] = pc[o]
  BY <1>2 DEF IInv, LimiterTypeOK
<1>9. count'[r] = e.val /\ pc'[r] \in {"expiring", "judging"} /\ (pc'[r] = "expiring" => e.val = 1)
      /\ (e.val = 1 => pc'[r] = "expiring")
  BY <1>1, <1>2 DEF IInv, LimiterTypeOK
<1>10. /\ counter'[i] = e /\ counted'[i] = counted[i] \cup {r}
       /\ \A j \in Ip \ {i} : counter'[j] = counter[j] /\ counted'[j] = counted[j]
  BY <1>1, <1>2 DEF IInv, LimiterTypeOK
<1>11. Numbered'
  <2> SUFFICES ASSUME NEW j \in Ip, NEW o \in counted'[j]
               PROVE  /\ From[o] = j /\ pc'[o] # "new"
                      /\ count'[o] >= 1 /\ count'[o] <= counter'[j].val
                      /\ \A q \in counted'[j] : count'[q] = count'[o] => q = o
    BY DEF Numbered
  <2>1. /\ \A q \in counted[j] : /\ q \in Shorten \ {r} /\ From[q] = j /\ pc[q] # "new"
                                 /\ count[q] \in Nat
                                 /\ count[q] >= 1 /\ count[q] <= counter[j].val
        /\ \A p, q \in counted[j] : count[q] = count[p] => q = p
    BY <1>5 DEF IInv, LimiterTypeOK, Numbered
  <2>2. CASE j # i
    BY <1>8, <1>10, <2>1, <2>2
  <2>3. CASE j = i
    <3>1. \A q \in counted[i] : count'[q] = count[q] /\ count[q] < e.val
      BY <1>3, <1>4, <1>8, <2>1, <2>3
    <3>2. CASE o = r
      BY <1>3, <1>4, <1>9, <1>10, <2>3, <3>1, <3>2 DEF i
    <3>3. CASE o \in counted[i]
      BY <1>3, <1>4, <1>8, <1>9, <1>10, <2>1, <2>3, <3>1, <3>3
    <3> QED
      BY <1>10, <2>3, <3>2, <3>3
  <2> QED
    BY <2>2, <2>3
<1>12. GoneIsEmpty'
  BY <1>3, <1>4, <1>10 DEF IInv, LimiterTypeOK, GoneIsEmpty
<1>13. StartersPending'
  <2> SUFFICES ASSUME NEW o \in Shorten, pc'[o] = "expiring"
               PROVE  /\ o \in counted'[From[o]] /\ count'[o] = 1
                      /\ counter'[From[o]].ttl = Persistent
    BY DEF StartersPending
  <2>1. CASE o = r
    <3>1. e.val = 1 /\ counter[i].val = 0
      BY <1>3, <1>4, <1>9, <2>1
    <3>2. e.ttl = Persistent
      BY <1>1, <1>3, <3>1 DEF IInv, GoneIsEmpty, Exists
    <3> QED
      BY <1>9, <1>10, <2>1, <3>1, <3>2 DEF i
  <2>2. CASE o # r
    <3>1. /\ o \in counted[From[o]] /\ count[o] = 1 /\ counter[From[o]].ttl = Persistent
          /\ From[o] \in Ip
      BY <1>8, <2>2, RequestAssumption DEF IInv, StartersPending
    <3>2. From[o] = i => e.ttl = Persistent
      BY <1>3, <3>1 DEF Exists, Missing, Persistent
    <3> QED
      BY <1>8, <1>10, <2>2, <3>1, <3>2
  <2> QED
    BY <2>1, <2>2
<1>14. PassedInQuota'
  BY <1>2, <1>6, <1>8 DEF IInv, LimiterTypeOK, PassedInQuota
<1>15. CounterWillExpire'
  <2> SUFFICES ASSUME NEW j \in Ip, counter'[j].ttl = Persistent
               PROVE  \E o \in counted'[j] : count'[o] = 1 /\ pc'[o] \in {"expiring", "failed"}
    BY DEF CounterWillExpire
  <2>1. CASE counter[j].ttl = Persistent
    <3>1. PICK o \in counted[j] : count[o] = 1 /\ pc[o] \in {"expiring", "failed"}
      BY <2>1 DEF IInv, CounterWillExpire
    <3>2. o \in Shorten \ {r} /\ o \in counted'[j]
      BY <1>5, <1>10 DEF IInv, LimiterTypeOK
    <3> QED
      BY <1>8, <3>1, <3>2
  <2>2. CASE counter[j].ttl # Persistent
    <3>1. j = i /\ e.val = 1 /\ counted'[i] = counted[i] \cup {r}
      BY <1>1, <1>3, <1>4, <1>10, <2>2 DEF IInv, GoneIsEmpty, Exists
    <3> QED
      BY <1>9, <3>1
  <2> QED
    BY <2>1, <2>2
<1> QED
  BY <1>7, <1>11, <1>12, <1>13, <1>14, <1>15 DEF IInv

\* EXPIRE meets the counter its request has created, still without an expiry.
LEMMA StartStep == ASSUME NEW r \in Shorten PROVE IInv /\ StartWindow(r) => IInv'
<1> SUFFICES ASSUME IInv, StartWindow(r) PROVE IInv'
  OBVIOUS
<1> DEFINE i == From[r]
<1>1. i \in Ip /\ r \in Request
  BY RequestAssumption DEF Request
<1>2. /\ pc[r] = "expiring"
      /\ counter' = [counter EXCEPT ![i] = Expire(counter[i], Window)]
      /\ pc' = [pc EXCEPT ![r] = "judging"]
      /\ count' = count /\ counted' = counted /\ passed' = passed
  BY DEF StartWindow
<1>3. r \in counted[i] /\ count[r] = 1 /\ counter[i].ttl = Persistent
  BY <1>2 DEF IInv, StartersPending
<1>4. Window \in Nat \ {0}
  BY SettingsAssumption
<1>5. /\ counter'[i] = [counter[i] EXCEPT !.ttl = Window]
      /\ \A j \in Ip \ {i} : counter'[j] = counter[j]
  BY <1>1, <1>2, <1>3 DEF IInv, LimiterTypeOK, Expire, Exists, Missing, Persistent
<1>6. /\ counter'[i].val = counter[i].val /\ counter'[i].ttl = Window
      /\ counter[i].val \in Nat
  BY <1>1, <1>5 DEF IInv, LimiterTypeOK
<1>7. LimiterTypeOK'
  BY <1>1, <1>2, <1>4, <1>5 DEF IInv, LimiterTypeOK, State
<1>8. pc'[r] = "judging" /\ \A o \in Shorten \ {r} : pc'[o] = pc[o]
  BY <1>1, <1>2 DEF IInv, LimiterTypeOK
<1> HIDE DEF i
<1>9. Numbered'
  BY <1>2, <1>5, <1>6, <1>8 DEF IInv, LimiterTypeOK, Numbered
<1>10. GoneIsEmpty'
  BY <1>2, <1>3, <1>4, <1>5, <1>6 DEF IInv, GoneIsEmpty, Missing, Persistent
<1>11. StartersPending'
  <2> SUFFICES ASSUME NEW o \in Shorten, pc'[o] = "expiring"
               PROVE  o \in counted[From[o]] /\ count[o] = 1 /\ counter'[From[o]].ttl = Persistent
    BY <1>2 DEF StartersPending
  <2>1. o # r /\ pc[o] = "expiring"
    BY <1>8
  <2>2. o \in counted[From[o]] /\ count[o] = 1 /\ counter[From[o]].ttl = Persistent
    BY <2>1 DEF IInv, StartersPending
  <2>3. From[o] # i
    BY <1>1, <1>3, <2>1, <2>2 DEF IInv, Numbered
  <2> QED
    BY <1>5, <2>2, <2>3, RequestAssumption
<1>12. PassedInQuota'
  BY <1>2, <1>8 DEF IInv, LimiterTypeOK, PassedInQuota
<1>13. CounterWillExpire'
  <2> SUFFICES ASSUME NEW j \in Ip, counter'[j].ttl = Persistent
               PROVE  \E o \in counted[j] : count[o] = 1 /\ pc'[o] \in {"expiring", "failed"}
    BY <1>2 DEF CounterWillExpire
  <2>1. j # i
    BY <1>4, <1>6 DEF Persistent
  <2>5. counter[j].ttl = Persistent
    BY <1>5, <2>1
  <2>2. PICK o \in counted[j] : count[o] = 1 /\ pc[o] \in {"expiring", "failed"}
    BY <2>5 DEF IInv, CounterWillExpire
  <2>3. From[o] = j /\ o \in Shorten
    BY DEF IInv, LimiterTypeOK, Numbered
  <2>4. o # r
    BY <2>1, <2>3 DEF i
  <2> QED
    BY <1>8, <2>2, <2>3, <2>4
<1> QED
  BY <1>7, <1>9, <1>10, <1>11, <1>12, <1>13 DEF IInv

\* A request passes with a number within the quota.
LEMMA JudgeStep == ASSUME NEW r \in Shorten PROVE IInv /\ Judge(r) => IInv'
<1> SUFFICES ASSUME IInv, Judge(r) PROVE IInv'
  OBVIOUS
<1>1. /\ pc[r] = "judging"
      /\ pc' = [pc EXCEPT ![r] = IF count[r] > Quota THEN "rejected" ELSE "drawing"]
      /\ passed' = IF count[r] > Quota THEN passed ELSE passed \cup {r}
      /\ counter' = counter /\ count' = count /\ counted' = counted
  BY DEF Judge
<1>2. /\ pc'[r] \in {"rejected", "drawing"}
      /\ \A o \in Shorten \ {r} : pc'[o] = pc[o]
  BY <1>1 DEF IInv, LimiterTypeOK, Request
<1>3. LimiterTypeOK'
  BY <1>1 DEF IInv, LimiterTypeOK, State, Request
<1>4. Numbered' /\ GoneIsEmpty'
  BY <1>1, <1>2 DEF IInv, LimiterTypeOK, Numbered, GoneIsEmpty
<1>5. StartersPending'
  BY <1>1, <1>2 DEF IInv, LimiterTypeOK, StartersPending
<1>6. PassedInQuota'
  BY <1>1, <1>2, SettingsAssumption DEF IInv, LimiterTypeOK, PassedInQuota
<1>7. CounterWillExpire'
  BY <1>1, <1>2 DEF IInv, LimiterTypeOK, CounterWillExpire
<1> QED
  BY <1>3, <1>4, <1>5, <1>6, <1>7 DEF IInv

\* A counter that expires takes its window with it; one without an expiry stays.
LEMMA TickStep == IInv /\ Tick => IInv'
<1> SUFFICES ASSUME IInv, Tick PROVE IInv'
  OBVIOUS
<1>1. /\ counter' = [i \in Ip |-> Age(counter[i])]
      /\ counted' = [i \in Ip |-> IF counter[i].ttl = 1 THEN {} ELSE counted[i]]
      /\ pc' = pc /\ count' = count /\ passed' = passed
  BY DEF Tick
<1>2. ASSUME NEW i \in Ip
      PROVE  /\ counter'[i] \in [val : Nat, ttl : Nat \cup {Missing, Persistent}]
             /\ counter[i].ttl = 1 => counter'[i].val = 0 /\ counter'[i].ttl = Missing
             /\ counter[i].ttl # 1 => /\ counter'[i].val = counter[i].val
                                      /\ counter'[i].ttl = Missing <=> counter[i].ttl = Missing
                                      /\ counter'[i].ttl = Persistent <=> counter[i].ttl = Persistent
  <2>1. counter[i] \in [val : Nat, ttl : Nat \cup {Missing, Persistent}]
    BY DEF IInv, LimiterTypeOK
  <2>2. counter'[i] = Age(counter[i])
    BY <1>1
  <2> QED
    BY <2>1, <2>2 DEF Age, Absent, Missing, Persistent
<1>3. LimiterTypeOK'
  BY <1>1, <1>2 DEF IInv, LimiterTypeOK
<1>4. Numbered'
  BY <1>1, <1>2 DEF IInv, LimiterTypeOK, Numbered
<1>5. GoneIsEmpty'
  BY <1>1, <1>2 DEF IInv, LimiterTypeOK, GoneIsEmpty
<1>6. StartersPending'
  <2> SUFFICES ASSUME NEW r \in Shorten, pc[r] = "expiring"
               PROVE  /\ r \in counted'[From[r]] /\ count[r] = 1
                      /\ counter'[From[r]].ttl = Persistent
    BY <1>1 DEF StartersPending
  <2>1. /\ r \in counted[From[r]] /\ count[r] = 1
        /\ counter[From[r]].ttl = Persistent /\ From[r] \in Ip
    BY RequestAssumption DEF IInv, StartersPending
  <2>2. counter[From[r]].ttl # 1
    BY <2>1 DEF Persistent
  <2> QED
    BY <1>1, <1>2, <2>1, <2>2
<1>7. PassedInQuota'
  BY <1>1 DEF IInv, PassedInQuota
<1>8. CounterWillExpire'
  BY <1>1, <1>2 DEF IInv, CounterWillExpire, Missing, Persistent
<1> QED
  BY <1>3, <1>4, <1>5, <1>6, <1>7, <1>8 DEF IInv

\* The steps of UrlService and the failures are quiet.
LEMMA ServiceIsQuiet ==
  ASSUME IInv,
         \/ \E r \in Shorten : DrawCode(r) \/ SetUrl(r) \/ InitClicks(r)
         \/ \E r \in Resolve : FindUrl(r) \/ RecordClick(r)
         \/ \E r \in Request : Fail(r)
  PROVE  Quiet
<1>1. ASSUME NEW r \in Shorten, DrawCode(r) \/ SetUrl(r) \/ InitClicks(r) PROVE Quiet
  BY <1>1 DEF DrawCode, SetUrl, InitClicks, Quiet, State, Request
<1>2. ASSUME NEW r \in Resolve, FindUrl(r) \/ RecordClick(r) PROVE Quiet
  <2>1. r \notin Shorten /\ r \in Request
    BY RequestAssumption DEF Request
  <2> QED
    BY <1>2, <2>1 DEF FindUrl, RecordClick, Quiet, State
<1>3. ASSUME NEW r \in Request, Fail(r) PROVE Quiet
  BY <1>3 DEF Fail, Quiet, State
<1> QED
  BY <1>1, <1>2, <1>3

LEMMA NextIInv == IInv /\ [Next]_vars => IInv'
<1> SUFFICES ASSUME IInv, [Next]_vars PROVE IInv'
  OBVIOUS
<1>1. ASSUME NEW r \in Shorten, CountHit(r) \/ StartWindow(r) \/ Judge(r) PROVE IInv'
  BY <1>1, CountStep, StartStep, JudgeStep
<1>2. CASE \/ \E r \in Shorten : DrawCode(r) \/ SetUrl(r) \/ InitClicks(r)
           \/ \E r \in Resolve : FindUrl(r) \/ RecordClick(r)
           \/ \E r \in Request : Fail(r)
  BY <1>2, ServiceIsQuiet, QuietStep
<1>3. CASE Tick
  BY <1>3, TickStep
<1>4. CASE UNCHANGED vars
  BY <1>4 DEF vars, IInv, LimiterTypeOK, Numbered, GoneIsEmpty, StartersPending,
              PassedInQuota, CounterWillExpire
<1> QED
  BY <1>1, <1>2, <1>3, <1>4 DEF Next

THEOREM Invariance == Spec => []IInv
<1>1. Init => IInv
  BY InitIInv
<1>2. IInv /\ [Next]_vars => IInv'
  BY NextIInv
<1> QED
  BY <1>1, <1>2, PTL DEF Spec

----------------------------------------------------------------------------
\* Distinct numbers within the quota: at most that many requests.
LEMMA QuotaFollows == IInv => QuotaKept
<1> SUFFICES ASSUME IInv, NEW i \in Ip
             PROVE  Cardinality(counted[i] \cap passed) <= Quota
  BY DEF QuotaKept
<1> DEFINE S == counted[i] \cap passed
           f == [r \in S |-> count[r]]
<1>1. Quota \in Nat /\ IsFiniteSet(1..Quota) /\ Cardinality(1..Quota) = Quota
  BY SettingsAssumption, FS_Interval
<1>2. \A r \in S : count[r] \in 1..Quota
  BY <1>1 DEF IInv, LimiterTypeOK, Numbered, PassedInQuota
<1>3. \A r, o \in S : count[r] = count[o] => r = o
  BY DEF IInv, Numbered
<1>4. f \in Injection(S, 1..Quota)
  BY <1>2, <1>3 DEF Injection, IsInjective
<1> QED
  BY <1>1, <1>4, FS_Injection

\* RATE_LIMIT_MAX holds for every number of clients and requests.
THEOREM QuotaIsKept == Spec => []QuotaKept
<1>1. IInv => QuotaKept
  BY QuotaFollows
<1> QED
  BY <1>1, Invariance, PTL

\* No interleaving without a failure leaves a counter that never expires.
THEOREM CountersExpire == Spec => []CounterWillExpire
<1>1. IInv => CounterWillExpire
  BY DEF IInv
<1> QED
  BY <1>1, Invariance, PTL

\* Only EXPIRE sets a countdown, and it finds none running.
LEMMA WindowStep ==
  IInv /\ [Next]_vars =>
    \A i \in Ip : counter[i].ttl >= 0 => counter'[i].ttl <= counter[i].ttl
<1> SUFFICES ASSUME IInv, [Next]_vars, NEW i \in Ip, counter[i].ttl >= 0
             PROVE  counter'[i].ttl <= counter[i].ttl
  OBVIOUS
<1>1. counter[i] \in [val : Nat, ttl : Nat \cup {Missing, Persistent}]
  BY DEF IInv, LimiterTypeOK
<1>2. counter[i].ttl \in Nat
  BY <1>1 DEF Missing, Persistent
<1>3. ASSUME NEW r \in Shorten, CountHit(r) PROVE counter'[i].ttl <= counter[i].ttl
  <2>1. From[r] \in Ip /\ counter' = [counter EXCEPT ![From[r]] = Incr(counter[From[r]])]
    BY <1>3, RequestAssumption DEF CountHit
  <2>2. Incr(counter[i]).ttl = counter[i].ttl
    BY <1>1, <1>2 DEF Incr, Exists, Missing
  <2> QED
    BY <1>2, <2>1, <2>2 DEF IInv, LimiterTypeOK
<1>4. ASSUME NEW r \in Shorten, StartWindow(r) PROVE counter'[i].ttl <= counter[i].ttl
  <2>1. From[r] \in Ip /\ counter[From[r]].ttl = Persistent
    BY <1>4, RequestAssumption DEF StartWindow, IInv, StartersPending
  <2>2. From[r] # i
    BY <1>2, <2>1 DEF Persistent
  <2> QED
    BY <1>2, <1>4, <2>2 DEF StartWindow, IInv, LimiterTypeOK
<1>5. CASE Tick
  <2>1. counter'[i] = Age(counter[i])
    BY <1>5 DEF Tick
  <2> QED
    BY <1>1, <1>2, <2>1 DEF Age, Absent, Missing
<1>6. CASE counter' = counter
  BY <1>2, <1>6
<1> QED
  BY <1>3, <1>4, <1>5, <1>6
  DEF Next, Judge, DrawCode, SetUrl, InitClicks, FindUrl, RecordClick, Fail, limiter, vars

\* The window is fixed: a client who keeps trying does not prolong its wait.
THEOREM WindowIsFixed == Spec => WindowNotExtended
<1>1. IInv /\ [Next]_vars =>
        [\A i \in Ip : counter[i].ttl >= 0 => counter'[i].ttl <= counter[i].ttl]_vars
  BY WindowStep
<1> QED
  BY <1>1, Invariance, PTL DEF Spec, WindowNotExtended

----------------------------------------------------------------------------
(* The click counters *)

ServiceTypeOK ==
  /\ url \in [Code -> [val : Shorten \cup {0}, ttl : (1..Lifetime) \cup {Missing}]]
  /\ clicks \in [Code -> [val : Nat, ttl : Nat \cup {Missing, Persistent}]]
  /\ pc \in [Request -> State]
  /\ code \in [Request -> Code \cup {None}]
  /\ hits \in [Code -> Nat]
  /\ \A r \in Request : pc[r] \in {"setting", "initialising", "clicking", "done"} => code[r] \in Code

\* A request that makes c: between drawing the code and the second SET.
Makes(r, c) == code[r] = c /\ pc[r] \in {"setting", "initialising"}

\* One request makes a code at a time, and nobody clicks it between the two SETs.
MadeOnce ==
  \A c \in Code \ collided :
    /\ \A r, o \in Shorten : Makes(r, c) /\ Makes(o, c) => r = o
    /\ \A r \in Shorten : code[r] = c /\ pc[r] = "initialising" => hits[c] = 0

ClickInv == ServiceTypeOK /\ MadeOnce /\ ClicksAddUp

USE DEF Missing, Persistent

LEMMA ClickInit == Init => ClickInv
BY SettingsAssumption
   DEF Init, ClickInv, ServiceTypeOK, MadeOnce, ClicksAddUp, Makes, Absent, Exists, State, Request, None

\* A request moves among the states in which it makes no code.
Unrelated ==
  /\ UNCHANGED <<url, clicks, hits, collided>>
  /\ \E r \in Request, p \in State \ {"setting", "initialising", "clicking", "done"} :
       /\ pc' = [pc EXCEPT ![r] = p]
       /\ pc[r] # "initialising"
       /\ code' = code

LEMMA UnrelatedKeeps == ClickInv /\ Unrelated => ClickInv'
<1>. SUFFICES ASSUME ClickInv, Unrelated PROVE ClickInv'
  OBVIOUS
<1>1. PICK r \in Request, p \in State \ {"setting", "initialising", "clicking", "done"} :
        pc' = [pc EXCEPT ![r] = p] /\ pc[r] # "initialising" /\ code' = code
  BY DEF Unrelated
<1>2. \A o \in Request : IF o = r THEN pc'[o] = p ELSE pc'[o] = pc[o]
  BY <1>1 DEF ClickInv, ServiceTypeOK
<1>3. ServiceTypeOK'
  BY <1>1, <1>2 DEF Unrelated, ClickInv, ServiceTypeOK
<1>4. \A o \in Request : pc'[o] = "initialising" <=> pc[o] = "initialising"
  BY <1>1, <1>2
<1>5. MadeOnce' /\ ClicksAddUp'
  BY <1>1, <1>2, <1>4 DEF Unrelated, ClickInv, MadeOnce, Makes, ClicksAddUp, Exists, Request
<1>. QED
  BY <1>3, <1>5 DEF ClickInv

LEMMA DrawKeeps ==
  ASSUME ClickInv, NEW r \in Shorten, DrawCode(r)
  PROVE  ClickInv'
<1>1. PICK c \in Code :
        /\ pc[r] = "drawing" /\ ~Exists(url[c])
        /\ code' = [code EXCEPT ![r] = c] /\ pc' = [pc EXCEPT ![r] = "setting"]
        /\ collided' = IF \E o \in Shorten : code[o] = c /\ pc[o] \in {"setting", "initialising"}
                         THEN collided \cup {c} ELSE collided
        /\ UNCHANGED <<url, clicks, hits>>
  BY DEF DrawCode
<1>2. /\ pc'[r] = "setting" /\ code'[r] = c /\ r \in Request
      /\ \A o \in Request : o # r => pc'[o] = pc[o] /\ code'[o] = code[o]
  BY <1>1 DEF ClickInv, ServiceTypeOK, Request
<1>3. ServiceTypeOK'
  BY <1>1, <1>2 DEF ClickInv, ServiceTypeOK, State
<1>4. ASSUME NEW d \in Code, d \notin collided'
      PROVE  /\ d \notin collided /\ (d = c => \A o \in Shorten : ~Makes(o, c))
             /\ \A o \in Shorten : Makes(o, d)' <=> Makes(o, d) \/ (o = r /\ d = c)
  BY <1>1, <1>2, <1>4 DEF Makes, Request
<1>5. \A o \in Shorten : pc'[o] = "initialising" => pc[o] = "initialising" /\ code'[o] = code[o]
  BY <1>1, <1>2 DEF Request
<1>6. MadeOnce'
  BY <1>1, <1>4, <1>5 DEF ClickInv, MadeOnce
<1>7. ClicksAddUp'
  <2>1. \A o \in Shorten : pc[o] = "initialising" => pc'[o] = "initialising" /\ code'[o] = code[o]
    BY <1>1, <1>2 DEF Request
  <2>. QED
    BY <1>1, <1>4, <2>1 DEF ClickInv, ClicksAddUp, Exists
<1>. QED
  BY <1>3, <1>6, <1>7 DEF ClickInv

LEMMA SetKeeps ==
  ASSUME ClickInv, NEW r \in Shorten, SetUrl(r), NEW c, c = code[r]
  PROVE  ClickInv'
<1>1. /\ pc[r] = "setting" /\ url' = [url EXCEPT ![c] = SetEx(r, Lifetime)]
      /\ hits' = [hits EXCEPT ![c] = 0] /\ pc' = [pc EXCEPT ![r] = "initialising"]
      /\ UNCHANGED <<clicks, code, collided>>
  BY DEF SetUrl
<1>2. /\ r \in Request /\ c \in Code /\ pc'[r] = "initialising"
      /\ \A o \in Request : o # r => pc'[o] = pc[o]
  BY <1>1 DEF ClickInv, ServiceTypeOK, Request
<1>3. /\ hits'[c] = 0 /\ url'[c] = SetEx(r, Lifetime)
      /\ \A d \in Code : d # c => hits'[d] = hits[d] /\ url'[d] = url[d]
  BY <1>1, <1>2 DEF ClickInv, ServiceTypeOK
<1>4. ServiceTypeOK'
  <2>1. SetEx(r, Lifetime) \in [val : Shorten \cup {0}, ttl : (1..Lifetime) \cup {Missing}]
    BY SettingsAssumption DEF SetEx
  <2>. QED
    BY <2>1, <1>1, <1>2 DEF ClickInv, ServiceTypeOK, State
<1>5. MadeOnce'
  BY <1>1, <1>2, <1>3 DEF ClickInv, MadeOnce, Makes, Request
<1>6. ClicksAddUp'
  BY <1>1, <1>2, <1>3 DEF ClickInv, ClicksAddUp, Exists, Request
<1>. QED
  BY <1>4, <1>5, <1>6 DEF ClickInv

\* The counter starts at 0 where no click was recorded, and lives as long as
\* the code at least, which was set before.
LEMMA InitClicksKeeps ==
  ASSUME ClickInv, NEW r \in Shorten, InitClicks(r), NEW c, c = code[r]
  PROVE  ClickInv'
<1>1. /\ pc[r] = "initialising" /\ clicks' = [clicks EXCEPT ![c] = SetEx(0, Lifetime)]
      /\ pc' = [pc EXCEPT ![r] = "done"] /\ UNCHANGED <<url, code, hits, collided>>
  BY DEF InitClicks
<1>2. /\ r \in Request /\ c \in Code /\ pc'[r] = "done"
      /\ \A o \in Request : o # r => pc'[o] = pc[o]
  BY <1>1 DEF ClickInv, ServiceTypeOK, Request
<1>3. /\ clicks'[c].val = 0 /\ clicks'[c].ttl = Lifetime
      /\ \A d \in Code : d # c => clicks'[d] = clicks[d]
  BY <1>1, <1>2 DEF ClickInv, ServiceTypeOK, SetEx
<1>4. ServiceTypeOK'
  <2>1. SetEx(0, Lifetime) \in [val : Nat, ttl : Nat \cup {Missing, Persistent}]
    BY SettingsAssumption DEF SetEx
  <2>. QED
    BY <2>1, <1>1, <1>2 DEF ClickInv, ServiceTypeOK, State
<1>5. MadeOnce'
  BY <1>1, <1>2 DEF ClickInv, MadeOnce, Makes, Request
<1>6. ClicksAddUp'
  <2>. SUFFICES ASSUME NEW d \in Code \ collided, Exists(url[d]),
                       \A o \in Shorten : code[o] = d => pc'[o] # "initialising"
                PROVE  clicks'[d].val = hits[d] /\ clicks'[d].ttl >= url[d].ttl
    BY <1>1 DEF ClicksAddUp
  <2>1. CASE d = c
    <3>1. hits[c] = 0
      BY <1>1, <2>1 DEF ClickInv, MadeOnce
    <3>2. url[c].ttl \in 1..Lifetime
      BY <1>2, <2>1 DEF ClickInv, ServiceTypeOK, Exists
    <3>. QED
      BY <1>3, <2>1, <3>1, <3>2, SettingsAssumption
  <2>2. CASE d # c
    <3>1. \A o \in Shorten : code[o] = d => pc[o] # "initialising"
      BY <1>1, <1>2, <2>2 DEF Request
    <3>. QED
      BY <1>3, <2>2, <3>1 DEF ClickInv, ClicksAddUp
  <2>. QED
    BY <2>1, <2>2
<1>. QED
  BY <1>4, <1>5, <1>6 DEF ClickInv

LEMMA FindKeeps ==
  ASSUME ClickInv, NEW r \in Resolve, FindUrl(r)
  PROVE  ClickInv'
<1>1. r \in Request /\ r \notin Shorten
  BY RequestAssumption DEF Request
<1>2. UNCHANGED <<url, clicks, hits, collided>>
  BY DEF FindUrl
<1>3. PICK s \in Shorten :
        /\ pc[s] = "done"
        /\ IF Exists(url[code[s]])
             THEN pc' = [pc EXCEPT ![r] = "clicking"] /\ code' = [code EXCEPT ![r] = code[s]]
             ELSE pc' = [pc EXCEPT ![r] = "rejected"] /\ code' = code
  BY DEF FindUrl
<1>4. \A o \in Shorten : pc'[o] = pc[o] /\ code'[o] = code[o]
  BY <1>1, <1>3 DEF ClickInv, ServiceTypeOK, Request
<1>5. ServiceTypeOK'
  <2>1. code[s] \in Code
    BY <1>3 DEF ClickInv, ServiceTypeOK, Request
  <2>2. /\ pc' \in [Request -> State] /\ code' \in [Request -> Code \cup {None}]
        /\ \A o \in Request : o # r => pc'[o] = pc[o] /\ code'[o] = code[o]
        /\ pc'[r] = "clicking" => code'[r] \in Code
        /\ pc'[r] \in {"clicking", "rejected"}
    BY <1>1, <1>3, <2>1 DEF ClickInv, ServiceTypeOK, State
  <2>. QED
    BY <1>2, <2>2 DEF ClickInv, ServiceTypeOK
<1>6. MadeOnce' /\ ClicksAddUp'
  BY <1>2, <1>4 DEF ClickInv, MadeOnce, Makes, ClicksAddUp, Exists
<1>. QED
  BY <1>5, <1>6 DEF ClickInv

\* A click of a live code is counted by both; one of a code that is gone, or
\* that is being made, is about no promise.
LEMMA RecordKeeps ==
  ASSUME ClickInv, NEW r \in Resolve, RecordClick(r), NEW c, c = code[r]
  PROVE  ClickInv'
<1>1. /\ pc[r] = "clicking" /\ clicks' = [clicks EXCEPT ![c] = Incr(clicks[c])]
      /\ hits' = [hits EXCEPT ![c] = hits[c] + 1] /\ pc' = [pc EXCEPT ![r] = "done"]
      /\ collided' = IF \E o \in Shorten : code[o] = c /\ pc[o] = "initialising"
                       THEN collided \cup {c} ELSE collided
      /\ UNCHANGED <<url, code>>
  BY DEF RecordClick, limiter
<1>2. r \in Request /\ r \notin Shorten /\ c \in Code
  BY <1>1, RequestAssumption DEF ClickInv, ServiceTypeOK, Request
<1>3. \A o \in Shorten : pc'[o] = pc[o]
  BY <1>1, <1>2 DEF ClickInv, ServiceTypeOK, Request
<1>4. /\ clicks[c].val \in Nat /\ clicks[c].ttl \in Nat \cup {Missing, Persistent} /\ hits[c] \in Nat
      /\ Incr(clicks[c]) \in [val : Nat, ttl : Nat \cup {Missing, Persistent}]
      /\ clicks[c].ttl # Missing =>
           Incr(clicks[c]).val = clicks[c].val + 1 /\ Incr(clicks[c]).ttl = clicks[c].ttl
  BY <1>2 DEF ClickInv, ServiceTypeOK, Incr, Exists
<1>5. /\ clicks'[c] = Incr(clicks[c]) /\ hits'[c] = hits[c] + 1
      /\ \A d \in Code : d # c => clicks'[d] = clicks[d] /\ hits'[d] = hits[d]
  BY <1>1, <1>2 DEF ClickInv, ServiceTypeOK
<1>6. ServiceTypeOK'
  BY <1>1, <1>2, <1>4 DEF ClickInv, ServiceTypeOK, State
<1>7. MadeOnce'
  BY <1>1, <1>3, <1>5 DEF ClickInv, MadeOnce, Makes
<1>8. ClicksAddUp'
  <2>. SUFFICES ASSUME NEW d \in Code \ collided', Exists(url[d]),
                       \A o \in Shorten : code[o] = d => pc[o] # "initialising"
                PROVE  clicks'[d].val = hits'[d] /\ clicks'[d].ttl >= url[d].ttl
    BY <1>1, <1>3 DEF ClicksAddUp
  <2>1. d \notin collided
    BY <1>1
  <2>2. clicks[d].val = hits[d] /\ clicks[d].ttl >= url[d].ttl
    BY <2>1 DEF ClickInv, ClicksAddUp
  <2>3. url[d].ttl \in 1..Lifetime
    BY DEF ClickInv, ServiceTypeOK, Exists
  <2>4. CASE d = c
    BY <1>4, <1>5, <2>2, <2>3, <2>4, SettingsAssumption
  <2>5. CASE d # c
    BY <1>5, <2>2, <2>5
  <2>. QED
    BY <2>4, <2>5
<1>. QED
  BY <1>6, <1>7, <1>8 DEF ClickInv

\* A request that fails between the two SETs leaves its code to chance.
LEMMA FailKeeps ==
  ASSUME ClickInv, NEW r \in Request, Fail(r)
  PROVE  ClickInv'
<1>1. /\ pc' = [pc EXCEPT ![r] = "failed"]
      /\ collided' = IF pc[r] = "initialising" THEN collided \cup {code[r]} ELSE collided
      /\ UNCHANGED <<url, clicks, code, hits>>
  BY DEF Fail
<1>2. pc'[r] = "failed" /\ \A o \in Request : o # r => pc'[o] = pc[o]
  BY <1>1 DEF ClickInv, ServiceTypeOK
<1>3. ServiceTypeOK'
  BY <1>1 DEF ClickInv, ServiceTypeOK, State
<1>4. MadeOnce'
  BY <1>1, <1>2 DEF ClickInv, MadeOnce, Makes, Request
<1>5. ClicksAddUp'
  <2>. SUFFICES ASSUME NEW c \in Code \ collided', Exists(url[c]),
                       \A o \in Shorten : code[o] = c => pc'[o] # "initialising"
                PROVE  clicks[c].val = hits[c] /\ clicks[c].ttl >= url[c].ttl
    BY <1>1 DEF ClicksAddUp
  <2>1. c \notin collided /\ \A o \in Shorten : code[o] = c => pc[o] # "initialising"
    BY <1>1, <1>2 DEF Request
  <2>. QED
    BY <2>1 DEF ClickInv, ClicksAddUp
<1>. QED
  BY <1>3, <1>4, <1>5 DEF ClickInv

\* Time takes one second from both keys, and the counter had no less.
LEMMA AgeKeeps == ClickInv /\ Tick => ClickInv'
<1>. SUFFICES ASSUME ClickInv, Tick PROVE ClickInv'
  OBVIOUS
<1>1. /\ url' = [c \in Code |-> Age(url[c])] /\ clicks' = [c \in Code |-> Age(clicks[c])]
      /\ UNCHANGED <<pc, code, hits, collided>>
  BY DEF Tick
<1>2. ASSUME NEW c \in Code
      PROVE  /\ url'[c] \in [val : Shorten \cup {0}, ttl : (1..Lifetime) \cup {Missing}]
             /\ Exists(url'[c]) => url[c].ttl > 1 /\ url'[c].ttl = url[c].ttl - 1
  <2>1. url[c] \in [val : Shorten \cup {0}, ttl : (1..Lifetime) \cup {Missing}]
    BY DEF ClickInv, ServiceTypeOK
  <2>2. url'[c] = Age(url[c])
    BY <1>1
  <2>. QED
    BY <2>1, <2>2, SettingsAssumption DEF Age, Absent, Exists
<1>3. ASSUME NEW c \in Code
      PROVE  /\ clicks'[c] \in [val : Nat, ttl : Nat \cup {Missing, Persistent}]
             /\ clicks[c].ttl > 1 =>
                  clicks'[c].val = clicks[c].val /\ clicks'[c].ttl = clicks[c].ttl - 1
  <2>1. clicks[c] \in [val : Nat, ttl : Nat \cup {Missing, Persistent}]
    BY DEF ClickInv, ServiceTypeOK
  <2>2. clicks'[c] = Age(clicks[c])
    BY <1>1
  <2>. QED
    BY <2>1, <2>2 DEF Age, Absent
<1>4. ServiceTypeOK'
  BY <1>1, <1>2, <1>3 DEF ClickInv, ServiceTypeOK
<1>5. MadeOnce'
  BY <1>1 DEF ClickInv, MadeOnce, Makes
<1>6. ClicksAddUp'
  <2>. SUFFICES ASSUME NEW c \in Code \ collided, Exists(url'[c]),
                       \A o \in Shorten : code[o] = c => pc[o] # "initialising"
                PROVE  clicks'[c].val = hits[c] /\ clicks'[c].ttl >= url'[c].ttl
    BY <1>1 DEF ClicksAddUp
  <2>1. url[c].ttl > 1 /\ url'[c].ttl = url[c].ttl - 1
    BY <1>2
  <2>2. clicks[c].val = hits[c] /\ clicks[c].ttl >= url[c].ttl
    BY <2>1 DEF ClickInv, ClicksAddUp, Exists
  <2>3. url[c].ttl \in Int /\ clicks[c].ttl \in Int
    BY DEF ClickInv, ServiceTypeOK
  <2>. QED
    BY <1>3, <2>1, <2>2, <2>3
<1>. QED
  BY <1>4, <1>5, <1>6 DEF ClickInv

\* The statistics of a live code add up, unless its making was disturbed.
THEOREM ClicksAreCounted == Spec => []ClicksAddUp
<1>1. ASSUME ClickInv, NEW r \in Shorten, CountHit(r) \/ StartWindow(r) \/ Judge(r) PROVE ClickInv'
  <2>1. Unrelated
    BY <1>1 DEF CountHit, StartWindow, Judge, Unrelated, State, Request
  <2>. QED
    BY <1>1, <2>1, UnrelatedKeeps
<1>2. ClickInv /\ UNCHANGED vars => ClickInv'
  BY DEF ClickInv, ServiceTypeOK, MadeOnce, Makes, ClicksAddUp, vars
<1>3. ClickInv /\ [Next]_vars => ClickInv'
  BY <1>1, <1>2, DrawKeeps, SetKeeps, InitClicksKeeps, FindKeeps, RecordKeeps, FailKeeps, AgeKeeps
     DEF Next
<1>4. ClickInv => ClicksAddUp
  BY DEF ClickInv
<1>. QED
  BY ClickInit, <1>3, <1>4, PTL DEF Spec

=============================================================================
