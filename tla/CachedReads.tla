---------------------------- MODULE CachedReads ----------------------------
(***************************************************************************)
(* The answers the logistics platform (POC) keeps in Redis: the dashboard, *)
(* for 30 seconds (AnalyticsService), and GET /carriers/:id, for 120       *)
(* seconds (HttpCacheInterceptor), which a change of a carrier busts       *)
(* (CarriersService, RedisService.delByPattern).                           *)
(*                                                                         *)
(* A copy is made of what several queries have found at different moments  *)
(* and is stored by a command of its own, so that it may be out of date    *)
(* when it is stored, and stored after the bust.                           *)
(***************************************************************************)
EXTENDS Redis, FiniteSets

CONSTANTS
  Url,          \* the addresses, with a query or none, of one carrier
  CacheCall,    \* requests
  DashboardTtl, CarrierTtl,
  MaxChanges    \* bound: changes of the data

ASSUME TtlAssumption == DashboardTtl \in Nat \ {0} /\ CarrierTtl \in Nat \ {0}

VARIABLES
  copy,     \* the copies in Redis: val is 1 while what it says is so
  reply,    \* where a request is suspended
  carrier,  \* the carrier is there
  changes   \* bound: changes so far

cacheVars == <<copy, reply, carrier, changes>>

Key == {"dashboard"} \cup Url
Source == {"shipments", "carriers", "users", "carrier"}

\* What an answer is made of.
Parts(k) == IF k = "dashboard" THEN {"shipments", "carriers", "users"} ELSE {"carrier"}

\* left: the parts still to be read, or the keys to be deleted; good: what
\* has been read is still so.
NoReply == [pc |-> "idle", key |-> "dashboard", left |-> {}, good |-> TRUE]

CachedReadsTypeOK ==
  /\ copy \in [Key -> [val : {0, 1}, ttl : {Missing} \cup 1..(DashboardTtl + CarrierTtl)]]
  /\ reply \in [CacheCall -> [pc : {"idle", "reading", "listing", "deleting"}, key : Key,
                              left : SUBSET (Source \cup Url), good : BOOLEAN]]
  /\ carrier \in BOOLEAN
  /\ changes \in 0..MaxChanges

CachedReadsInit ==
  /\ copy = [k \in Key |-> Absent]
  /\ reply = [c \in CacheCall |-> NoReply]
  /\ carrier = TRUE
  /\ changes = 0

Finish(c) == reply' = [reply EXCEPT ![c] = NoReply]

----------------------------------------------------------------------------
(* Reading *)

\* A hit is answered with the copy, whose TTL runs on; a miss reads.
ReadThrough(c, k) ==
  /\ reply[c] = NoReply
  /\ IF Exists(copy[k]) THEN UNCHANGED reply
     ELSE reply' = [reply EXCEPT ![c].pc = "reading", ![c].key = k, ![c].left = Parts(k)]
  /\ UNCHANGED <<copy, carrier, changes>>

GetDashboard(c) == ReadThrough(c, "dashboard")
GetCarrier(c) == \E u \in Url : ReadThrough(c, u)

\* Promise.all: the three queries of the dashboard, in any order.
Answered(c, s) ==
  /\ reply[c].pc = "reading" /\ s \in reply[c].left
  /\ reply' = [reply EXCEPT ![c].left = @ \ {s}]
  /\ UNCHANGED <<copy, carrier, changes>>

DbStatusSummary(c) == Answered(c, "shipments")
DbCount(c) == \E s \in {"carriers", "users"} : Answered(c, s)

\* findById; a carrier that is not there is a 404, which is not stored.
DbFindCarrier(c) ==
  /\ reply[c].pc = "reading" /\ "carrier" \in reply[c].left
  /\ IF carrier THEN reply' = [reply EXCEPT ![c].left = {}] ELSE Finish(c)
  /\ UNCHANGED <<copy, carrier, changes>>

Ttl(k) == IF k = "dashboard" THEN DashboardTtl ELSE CarrierTtl

\* Variant: the SET is given no EX.
StoredForGood(k, good) == [val |-> IF good THEN 1 ELSE 0, ttl |-> Persistent]

StoredCopy(k, good) == SetEx(IF good THEN 1 ELSE 0, Ttl(k))

\* redis.set, of what was read, over whatever is there by now.
Fill(c) ==
  LET r == reply[c] IN
  /\ r.pc = "reading" /\ r.left = {}
  /\ copy' = [copy EXCEPT ![r.key] = StoredCopy(r.key, r.good)]
  /\ Finish(c)
  /\ UNCHANGED <<carrier, changes>>

SetDashboard(c) == reply[c].key = "dashboard" /\ Fill(c)

\* Its answer is not awaited: the client has the carrier already.
SetCarrier(c) == reply[c].key \in Url /\ Fill(c)

----------------------------------------------------------------------------
(* Changing *)

\* The copies that are made of these sources are out of date, and so is what
\* a request has already read of them.
Outdate(S, r) ==
  /\ changes < MaxChanges
  /\ changes' = changes + 1
  /\ copy' = [k \in Key |->
       IF Exists(copy[k]) /\ Parts(k) \cap S # {} THEN [copy[k] EXCEPT !.val = 0] ELSE copy[k]]
  /\ reply' = [c \in CacheCall |->
       IF r[c].pc = "reading" /\ (Parts(r[c].key) \ r[c].left) \cap S # {}
         THEN [r[c] EXCEPT !.good = FALSE] ELSE r[c]]

\* A user registers, a shipment moves on.
ChangeElsewhere(s) ==
  /\ s \in {"shipments", "users"}
  /\ Outdate({s}, reply)
  /\ UNCHANGED carrier

\* create, of another carrier: nothing is busted.
DbCreateCarrier(c) ==
  /\ reply[c] = NoReply
  /\ Outdate({"carriers"}, reply)
  /\ UNCHANGED carrier

\* PATCH and DELETE /carriers/:id: a 404 when it is not there, else the bust.
ChangeCarrier(c, S) ==
  /\ reply[c] = NoReply /\ carrier
  /\ Outdate(S, [reply EXCEPT ![c].pc = "listing"])

DbUpdateCarrier(c) == ChangeCarrier(c, {"carrier"}) /\ UNCHANGED carrier
DbRemoveCarrier(c) == ChangeCarrier(c, {"carrier", "carriers"}) /\ carrier' = FALSE

\* delByPattern: KEYS carrier:*, then DEL of the keys it has found.
ListKeys(c) ==
  LET found == {u \in Url : Exists(copy[u])} IN
  /\ reply[c].pc = "listing"
  /\ IF found = {} THEN Finish(c)
     ELSE reply' = [reply EXCEPT ![c].pc = "deleting", ![c].left = found]
  /\ UNCHANGED <<copy, carrier, changes>>

DelKeys(c) ==
  /\ reply[c].pc = "deleting"
  /\ copy' = [k \in Key |-> IF k \in reply[c].left THEN Absent ELSE copy[k]]
  /\ Finish(c)
  /\ UNCHANGED <<carrier, changes>>

\* A query or a command fails, or the process ends: what was done stays done.
FailCached(c) ==
  /\ reply[c].pc # "idle"
  /\ Finish(c)
  /\ UNCHANGED <<copy, carrier, changes>>

\* Some time passes in Redis.
TickCopies ==
  /\ \E k \in Key : Exists(copy[k])
  /\ copy' = [k \in Key |-> Age(copy[k])]
  /\ UNCHANGED <<reply, carrier, changes>>

CachedReadsNext ==
  \/ \E c \in CacheCall :
       \/ GetDashboard(c) \/ DbStatusSummary(c) \/ DbCount(c) \/ SetDashboard(c)
       \/ GetCarrier(c) \/ DbFindCarrier(c) \/ SetCarrier(c)
       \/ DbCreateCarrier(c) \/ DbUpdateCarrier(c) \/ DbRemoveCarrier(c)
       \/ ListKeys(c) \/ DelKeys(c) \/ FailCached(c)
  \/ \E s \in Source : ChangeElsewhere(s)
  \/ TickCopies

\* Time passes. Nothing is asked of the requests: one that never goes on never
\* stores what it holds.
CachedReadsFairness == WF_cacheVars(TickCopies)

----------------------------------------------------------------------------
(* Properties *)

\* Whatever a slow reader has stored after the bust, or a bust has missed, or
\* never got to: when nothing changes any more, every copy that is served
\* comes to say what is so.
FreshAgain == <>[](\A k \in Key : Exists(copy[k]) => copy[k].val = 1)
=============================================================================
