----------------------------- MODULE Shipments -----------------------------
(***************************************************************************)
(* Shipments of the logistics platform (POC): ShipmentsService, the cached *)
(* GET /shipments/:id (HttpCacheInterceptor) and the hourly clean-up of    *)
(* TasksService.                                                           *)
(*                                                                         *)
(* A request is suspended at each MongoDB or Redis command and others run  *)
(* in between; one Redis connection answers in the order it is asked, so a *)
(* handler resumes with the reply of its last command.  Of a shipment's    *)
(* tracking events only the last is kept, and of a copy of a shipment only *)
(* whether MongoDB has changed since it was read.                          *)
(***************************************************************************)
EXTENDS Integers, FiniteSets

CONSTANTS
  Ship,      \* POST /shipments requests, and the shipments they make
  Busy,      \* bound: the shipments the other requests name
  Tracker,   \* POST /shipments/:id/tracking handlers
  Editor,    \* assign-carrier and attachDocument handlers
  Reader,    \* GET /shipments/:id handlers
  Reported   \* bound: the statuses tracking requests report

VARIABLES
  status,    \* Shipment.status; None before the shipment exists
  number,    \* the sequence number in Shipment.shipmentNumber
  last,      \* the status of the last of Shipment.trackingEvents
  live,      \* the last status published on the tracking stream
  cached,    \* the Redis key shipment:/api/v1/shipments/<id>
  making,    \* where create is suspended
  track,     \* where addTrackingEvent is suspended
  edit,      \* where assignCarrier or attachDocument is suspended
  get,       \* where a GET is suspended
  swept,     \* the keys that the KEYS of a handler answered
  bypassed,  \* history: shipments whose status was set without a tracking event
  raced,     \* history: shipments with overlapping or half-done tracking requests
  excused    \* history: the cached copy of a shipment is old for a known reason

vars == <<status, number, last, live, cached, making, track, edit, get, swept,
          bypassed, raced, excused>>
history == <<bypassed, raced, excused>>

None == "none"
Status == {"CREATED", "ASSIGNED", "PICKED_UP", "IN_TRANSIT", "OUT_FOR_DELIVERY",
           "DELIVERED", "CANCELLED", "EXCEPTION"}

\* SHIPMENT_TRANSITIONS.
Transitions ==
  [CREATED          |-> {"ASSIGNED", "CANCELLED"},
   ASSIGNED         |-> {"PICKED_UP", "CANCELLED"},
   PICKED_UP        |-> {"IN_TRANSIT", "EXCEPTION"},
   IN_TRANSIT       |-> {"OUT_FOR_DELIVERY", "EXCEPTION"},
   OUT_FOR_DELIVERY |-> {"DELIVERED", "EXCEPTION"},
   DELIVERED        |-> {},
   CANCELLED        |-> {},
   EXCEPTION        |-> {"IN_TRANSIT", "CANCELLED"}]

Copy == {None, "current", "old"}
Sweep == {"invalidating", "listing", "sweeping"}   \* invalidateCache
Handler == Tracker \cup Editor

ASSUME ConstantsAssumption ==
  /\ Busy \subseteq Ship /\ Reported \subseteq Status
  /\ IsFiniteSet(Ship) /\ Tracker \cap Editor = {}

TypeOK ==
  /\ status \in [Ship -> Status \cup {None}]
  /\ number \in [Ship -> Nat]
  /\ last \in [Ship -> Status \cup {None}]
  /\ live \in [Ship -> Status \cup {None}]
  /\ cached \in [Ship -> Copy]
  /\ making \in [Ship -> {"new", "counting", "saving", "done", "failed"}]
  /\ track \in [Tracker -> [pc : {"idle", "saving"} \cup Sweep, ship : Ship \cup {None},
                            found : Status \cup {None}, to : Status \cup {None}]]
  /\ edit \in [Editor -> [pc : {"idle"} \cup Sweep, ship : Ship \cup {None}]]
  /\ get \in [Reader -> [pc : {"idle", "reading", "filling"}, ship : Ship \cup {None}, copy : Copy]]
  /\ swept \in [Handler -> SUBSET Ship]
  /\ bypassed \subseteq Ship /\ raced \subseteq Ship /\ excused \subseteq Ship

NoTrack == [pc |-> "idle", ship |-> None, found |-> None, to |-> None]
NoEdit == [pc |-> "idle", ship |-> None]
NoGet == [pc |-> "idle", ship |-> None, copy |-> None]

Init ==
  /\ status = [s \in Ship |-> None]
  /\ number = [s \in Ship |-> 0]
  /\ last = [s \in Ship |-> None]
  /\ live = [s \in Ship |-> None]
  /\ cached = [s \in Ship |-> None]
  /\ making = [s \in Ship |-> "new"]
  /\ track = [t \in Tracker |-> NoTrack]
  /\ edit = [e \in Editor |-> NoEdit]
  /\ get = [g \in Reader |-> NoGet]
  /\ swept = [h \in Handler |-> {}]
  /\ bypassed = {} /\ raced = {} /\ excused = {}

----------------------------------------------------------------------------
(* create *)

Made == {s \in Ship : status[s] # None}

Create(s) ==
  /\ making[s] = "new"
  /\ making' = [making EXCEPT ![s] = "counting"]
  /\ UNCHANGED <<status, number, last, live, cached, track, edit, get, swept, history>>

\* generateShipmentNumber: the number of shipments, plus one.
DbCount(s) ==
  /\ making[s] = "counting"
  /\ making' = [making EXCEPT ![s] = "saving"]
  /\ number' = [number EXCEPT ![s] = Cardinality(Made) + 1]
  /\ UNCHANGED <<status, last, live, cached, track, edit, get, swept, history>>

\* Variant: shipmentNumber has no unique index.
DbCreateUnindexed(s) ==
  /\ making[s] = "saving"
  /\ making' = [making EXCEPT ![s] = "done"]
  /\ \E st \in {"CREATED", "ASSIGNED"} :
       /\ status' = [status EXCEPT ![s] = st]
       /\ last' = [last EXCEPT ![s] = st]
  /\ UNCHANGED <<number, live, cached, track, edit, get, swept, history>>

\* repository.create: refused when the number is taken (unique index); with a
\* carrier the shipment starts as ASSIGNED.
DbCreate(s) ==
  /\ making[s] = "saving"
  /\ IF \E o \in Made : number[o] = number[s]
       THEN /\ making' = [making EXCEPT ![s] = "failed"]
            /\ UNCHANGED <<status, last>>
       ELSE /\ making' = [making EXCEPT ![s] = "done"]
            /\ \E st \in {"CREATED", "ASSIGNED"} :
                 /\ status' = [status EXCEPT ![s] = st]
                 /\ last' = [last EXCEPT ![s] = st]
  /\ UNCHANGED <<number, live, cached, track, edit, get, swept, history>>

----------------------------------------------------------------------------
(* Writes to an existing shipment, each followed by invalidateCache *)

\* Every copy of s, in Redis or in a GET that has not stored it yet, is old.
Outdate(s) ==
  /\ cached' = [cached EXCEPT ![s] = IF @ = None THEN None ELSE "old"]
  /\ get' = [g \in Reader |->
       IF get[g].ship = s /\ get[g].pc = "filling" THEN [get[g] EXCEPT !.copy = "old"] ELSE get[g]]

Tracking(s) == {t \in Tracker : track[t].ship = s}

\* Variant: the status reported is not checked.
DbFindUnchecked(t, s, to) ==
  /\ track[t].pc = "idle" /\ s \in Made
  /\ track' = [track EXCEPT ![t] = [pc |-> "saving", ship |-> s, found |-> status[s], to |-> to]]
  /\ raced' = IF Tracking(s) # {} THEN raced \cup {s} ELSE raced
  /\ UNCHANGED <<status, number, last, live, cached, making, edit, get, swept,
                 bypassed, excused>>

\* addTrackingEvent: findById, and the check against SHIPMENT_TRANSITIONS; a
\* status equal to the one found is allowed.
DbFind(t, s, to) ==
  /\ track[t].pc = "idle" /\ s \in Made
  /\ to = status[s] \/ to \in Transitions[status[s]]
  /\ track' = [track EXCEPT ![t] = [pc |-> "saving", ship |-> s, found |-> status[s], to |-> to]]
  /\ raced' = IF Tracking(s) # {} THEN raced \cup {s} ELSE raced
  /\ UNCHANGED <<status, number, last, live, cached, making, edit, get, swept,
                 bypassed, excused>>

\* Variant: the event is pushed and the status left to somebody else.
DbSaveEventOnly(t) ==
  LET s == track[t].ship IN
  /\ track[t].pc = "saving"
  /\ last' = [last EXCEPT ![s] = track[t].to]
  /\ track' = [track EXCEPT ![t].pc = "invalidating", ![t].found = None]
  /\ Outdate(s)
  /\ UNCHANGED <<status, number, live, making, edit, swept, history>>

\* addTrackingEvent: save() pushes the event and, when the status is not the
\* one found, sets it - whatever the status has become since.
DbSave(t) ==
  LET s == track[t].ship IN
  /\ track[t].pc = "saving"
  /\ last' = [last EXCEPT ![s] = track[t].to]
  /\ status' = [status EXCEPT ![s] = IF track[t].to = track[t].found THEN @ ELSE track[t].to]
  /\ track' = [track EXCEPT ![t].pc = "invalidating", ![t].found = None]
  /\ Outdate(s)
  /\ UNCHANGED <<number, live, making, edit, swept, history>>

\* Variant: the cached copy is left to its expiry.
AssignCarrierCached(e, s) ==
  /\ edit[e].pc = "idle" /\ s \in Made
  /\ status' = [status EXCEPT ![s] = "ASSIGNED"]
  /\ bypassed' = bypassed \cup {s}
  /\ Outdate(s)
  /\ UNCHANGED <<number, last, live, making, track, edit, swept, raced, excused>>

\* assignCarrier: findByIdAndUpdate, with no look at the status and no event.
AssignCarrier(e, s) ==
  /\ edit[e].pc = "idle" /\ s \in Made
  /\ edit' = [edit EXCEPT ![e] = [pc |-> "invalidating", ship |-> s]]
  /\ status' = [status EXCEPT ![s] = "ASSIGNED"]
  /\ bypassed' = bypassed \cup {s}
  /\ Outdate(s)
  /\ UNCHANGED <<number, last, live, making, track, swept, raced, excused>>

\* attachDocument: $push of the document's id.
AttachDocument(e, s) ==
  /\ edit[e].pc = "idle" /\ s \in Made
  /\ edit' = [edit EXCEPT ![e] = [pc |-> "invalidating", ship |-> s]]
  /\ Outdate(s)
  /\ UNCHANGED <<status, number, last, live, making, track, swept, history>>

\* cleanupStaleShipments, for the CREATED shipments that are a week old by
\* now: no event and no invalidation.
CleanupStaleShipments ==
  \E s \in {o \in Busy : status[o] = "CREATED"} :
    /\ status' = [status EXCEPT ![s] = "EXCEPTION"]
    /\ bypassed' = bypassed \cup {s}
    /\ Outdate(s)
    /\ excused' = IF cached[s] = None THEN excused ELSE excused \cup {s}
    /\ UNCHANGED <<number, last, live, making, track, edit, swept, raced>>

----------------------------------------------------------------------------
(* invalidateCache, in a tracking request or an edit, and what follows it *)

At(h, pc) == IF h \in Tracker THEN track[h].pc = pc ELSE edit[h].pc = pc
ShipOf(h) == IF h \in Tracker THEN track[h].ship ELSE edit[h].ship

MoveTo(h, pc) ==
  IF h \in Tracker THEN track' = [track EXCEPT ![h].pc = pc] /\ UNCHANGED <<edit, live>>
                   ELSE edit' = [edit EXCEPT ![h].pc = pc] /\ UNCHANGED <<track, live>>

\* TrackingStreamService: subscribers hear of it at once, later ones never.
Published(s, to) == [live EXCEPT ![s] = to]

\* Variant: an exception is not published.
FinishQuiet(h) ==
  IF h \in Tracker
    THEN /\ live' = IF track[h].to = "EXCEPTION" THEN live
                    ELSE Published(track[h].ship, track[h].to)
         /\ track' = [track EXCEPT ![h] = NoTrack]
         /\ UNCHANGED edit
    ELSE edit' = [edit EXCEPT ![h] = NoEdit] /\ UNCHANGED <<track, live>>

\* The handler ends; a tracking request publishes its status on the stream.
Finish(h) ==
  IF h \in Tracker
    THEN /\ live' = Published(track[h].ship, track[h].to)
         /\ track' = [track EXCEPT ![h] = NoTrack]
         /\ UNCHANGED edit
    ELSE edit' = [edit EXCEPT ![h] = NoEdit] /\ UNCHANGED <<track, live>>

\* redis.del of the shipment's own key.
DelKey(h) ==
  LET s == ShipOf(h) IN
  /\ At(h, "invalidating")
  /\ MoveTo(h, "listing")
  /\ cached' = [cached EXCEPT ![s] = None]
  /\ excused' = excused \ {s}
  /\ UNCHANGED <<status, number, last, making, get, swept, bypassed, raced>>

\* delByPattern: KEYS shipment:*; with no key there is nothing to delete.
ListKeys(h) ==
  LET keys == {s \in Ship : cached[s] # None} IN
  /\ At(h, "listing")
  /\ IF keys = {} THEN Finish(h) /\ UNCHANGED swept
                  ELSE MoveTo(h, "sweeping") /\ swept' = [swept EXCEPT ![h] = keys]
  /\ UNCHANGED <<status, number, last, cached, making, get, history>>

\* delByPattern: DEL of the keys listed, whatever they hold by now.
DelKeys(h) ==
  /\ At(h, "sweeping")
  /\ Finish(h)
  /\ cached' = [s \in Ship |-> IF s \in swept[h] THEN None ELSE cached[s]]
  /\ excused' = excused \ swept[h]
  /\ swept' = [swept EXCEPT ![h] = {}]
  /\ UNCHANGED <<status, number, last, making, get, bypassed, raced>>

\* A command fails or its answer is lost: the handler ends where it is.
Fail(h) ==
  LET s == ShipOf(h) IN
  /\ \E pc \in {"saving"} \cup Sweep : At(h, pc)
  /\ IF h \in Tracker THEN track' = [track EXCEPT ![h] = NoTrack] /\ UNCHANGED edit
                      ELSE edit' = [edit EXCEPT ![h] = NoEdit] /\ UNCHANGED track
  /\ swept' = [swept EXCEPT ![h] = {}]
  /\ raced' = IF h \in Tracker /\ ~At(h, "saving") THEN raced \cup {s} ELSE raced
  /\ excused' = IF At(h, "invalidating") /\ cached[s] # None THEN excused \cup {s} ELSE excused
  /\ UNCHANGED <<status, number, last, live, cached, making, get, bypassed>>

----------------------------------------------------------------------------
(* GET /shipments/:id through HttpCacheInterceptor *)

\* redis.get misses; on a hit the handler is never invoked.
Miss(g, s) ==
  /\ get[g].pc = "idle" /\ s \in Made /\ cached[s] = None
  /\ get' = [get EXCEPT ![g] = [pc |-> "reading", ship |-> s, copy |-> None]]
  /\ UNCHANGED <<status, number, last, live, cached, making, track, edit, swept, history>>

DbRead(g) ==
  /\ get[g].pc = "reading"
  /\ get' = [get EXCEPT ![g].pc = "filling", ![g].copy = "current"]
  /\ UNCHANGED <<status, number, last, live, cached, making, track, edit, swept, history>>

\* redis.set of the response, after it has been sent.
Fill(g) ==
  LET s == get[g].ship IN
  /\ get[g].pc = "filling"
  /\ cached' = [cached EXCEPT ![s] = get[g].copy]
  /\ excused' = IF get[g].copy = "old" THEN excused \cup {s} ELSE excused \ {s}
  /\ get' = [get EXCEPT ![g] = NoGet]
  /\ UNCHANGED <<status, number, last, live, making, track, edit, swept, bypassed, raced>>

\* The TTL of 60 s runs out.
Expire(s) ==
  /\ cached[s] # None
  /\ cached' = [cached EXCEPT ![s] = None]
  /\ excused' = excused \ {s}
  /\ UNCHANGED <<status, number, last, live, making, track, edit, get, swept, bypassed, raced>>

----------------------------------------------------------------------------
Next ==
  \/ \E s \in Ship : Create(s) \/ DbCount(s) \/ DbCreate(s) \/ Expire(s)
  \/ \E t \in Tracker : \/ \E s \in Busy, to \in Reported : DbFind(t, s, to)
                        \/ DbSave(t)
  \/ \E e \in Editor, s \in Busy : AssignCarrier(e, s) \/ AttachDocument(e, s)
  \/ \E h \in Handler : DelKey(h) \/ ListKeys(h) \/ DelKeys(h) \/ Fail(h)
  \/ \E g \in Reader : \/ \E s \in Busy : Miss(g, s)
                       \/ DbRead(g) \/ Fill(g)
  \/ CleanupStaleShipments

Spec == Init /\ [][Next]_vars
----------------------------------------------------------------------------
(* Properties *)

\* Shipment numbers run from 1 without a gap or a repetition, however
\* creations overlap: the loser of a race is refused and leaves no hole that
\* would make every later count collide.
NumbersDense ==
  /\ {number[s] : s \in Made} = 1..Cardinality(Made)
  /\ \A s, o \in Made : number[s] = number[o] => s = o

\* The tracking history of a shipment follows SHIPMENT_TRANSITIONS, as long as
\* its tracking requests do not overlap and no carrier assignment or clean-up
\* sets its status behind the history's back.
HistoryFollowsMachine ==
  [][\A s \in Ship \ (raced \cup bypassed) :
       last[s] # None /\ last'[s] # last[s] => last'[s] \in Transitions[last[s]]]_vars

\* Under the same condition the status is the one the last event reports.
StatusIsLastEvent ==
  \A s \in Made \ (raced \cup bypassed) : status[s] = last[s]

\* When no tracking request of a shipment is at work, the live stream's last
\* word is the last event stored, unless tracking requests overlapped or one
\* failed between the save and the publication.
LiveAgreesAtRest ==
  \A s \in Made \ raced :
    Tracking(s) = {} /\ live[s] # None => live[s] = last[s]

\* A cached shipment is as MongoDB has it, except while the write that changed
\* it is about to delete it; a copy gets stuck only by a GET that read before a
\* write and stores after it, by the clean-up, or by a failed invalidation.
CacheFresh ==
  \A s \in Ship : cached[s] = "old" =>
    s \in excused \/ \E h \in Handler : ShipOf(h) = s /\ At(h, "invalidating")

\* The comment on SHIPMENT_TRANSITIONS: "Allowed forward transitions - enforced
\* by the ShipmentService".  The clean-up is not that service's.
TransitionsEnforced ==
  [][\A s \in Ship :
       status[s] # None /\ status'[s] # status[s] =>
         status'[s] \in Transitions[status[s]] \/ CleanupStaleShipments]_vars
=============================================================================
