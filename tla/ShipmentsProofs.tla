-------------------------- MODULE ShipmentsProofs --------------------------
(***************************************************************************)
(* The properties of shipments for any number of shipments, of requests    *)
(* that change or read them, and of statuses that may be reported.         *)
(***************************************************************************)
EXTENDS Shipments, FiniteSetTheorems, TLAPS

----------------------------------------------------------------------------
(* The inductive invariant *)

\* Handlers and GETs at work are about shipments that exist.
Placed ==
  /\ \A t \in Tracker : track[t].pc # "idle" => track[t].ship \in Made /\ track[t].to \in Status
  /\ \A e \in Editor : edit[e].pc # "idle" => edit[e].ship \in Made
  /\ \A g \in Reader : get[g].pc # "idle" => get[g].ship \in Made

\* A shipment has a history and is published only once it exists, and exists
\* when its creation is done.
Unmade ==
  \A s \in Ship : /\ status[s] = None => last[s] = None /\ live[s] = None
                  /\ making[s] = "done" <=> status[s] # None

\* A number drawn is at most one more than there are shipments.
Drawn ==
  \A s \in Ship : making[s] = "saving" => number[s] \in 1..Cardinality(Made) + 1

\* A tracking request about to save has checked what it found, which still is
\* the status unless somebody interfered; one past the save reports the last
\* event; and two at once have been noticed.
Checked(t) ==
  track[t].pc = "saving" =>
    /\ track[t].found \in Status
    /\ track[t].to = track[t].found \/ track[t].to \in Transitions[track[t].found]
    /\ track[t].ship \notin raced \cup bypassed => track[t].found = status[track[t].ship]

Reporting(t) ==
  track[t].pc \in Sweep /\ track[t].ship \notin raced => track[t].to = last[track[t].ship]

Noticed ==
  \A t, u \in Tracker :
    t # u /\ track[t].pc # "idle" /\ track[u].pc # "idle" /\ track[t].ship = track[u].ship
      => track[t].ship \in raced

Tracked == Noticed /\ \A t \in Tracker : Checked(t) /\ Reporting(t)

\* The stream is behind the history only while a request is about to publish.
Lively ==
  \A s \in Made \ raced :
    \/ live[s] = None \/ live[s] = last[s]
    \/ \E t \in Tracker : track[t].ship = s /\ track[t].pc \in Sweep

Core == Unmade /\ NumbersDense /\ Drawn /\ Tracked /\ StatusIsLastEvent /\ Lively
coreVars == <<status, number, last, live, making, track, raced, bypassed>>

IInv == TypeOK /\ Placed /\ Core /\ CacheFresh

LEMMA InitIInv == Init => IInv
<1>. SUFFICES ASSUME Init PROVE IInv
  OBVIOUS
<1>1. Made = {}
  BY DEF Init, Made
<1>2. NumbersDense
  BY <1>1, FS_EmptySet DEF NumbersDense
<1>3. TypeOK
  BY DEF Init, TypeOK, NoTrack, NoEdit, NoGet, Copy, Status, Sweep, None
<1>. QED
  BY <1>1, <1>2, <1>3
     DEF Init, IInv, Placed, Core, Unmade, Drawn, Tracked, Noticed, Checked, Reporting, Lively,
         StatusIsLastEvent, CacheFresh, NoTrack, NoEdit, NoGet, Sweep, None

----------------------------------------------------------------------------
(* The shipments that exist *)

LEMMA MadeFinite == IsFiniteSet(Made) /\ Cardinality(Made) \in Nat
BY ConstantsAssumption, FS_Subset, FS_CardinalityType DEF Made

\* A step that creates no shipment leaves what exists, and its numbers, alone.
LEMMA NumbersKept ==
  ASSUME IInv, UNCHANGED <<number, making>>, \A s \in Ship : status'[s] = None <=> status[s] = None
  PROVE  Made' = Made /\ NumbersDense' /\ Drawn'
BY DEF IInv, Core, Made, NumbersDense, Drawn

\* Nothing that the history and the numbers depend on has changed.
LEMMA CoreQuiet == Core /\ UNCHANGED coreVars => Core' /\ Made' = Made
<1>. SUFFICES ASSUME Core, UNCHANGED coreVars PROVE Core' /\ Made' = Made
  OBVIOUS
<1>. USE DEF Core, coreVars
<1>1. Made' = Made
  BY DEF Made
<1>2. Unmade' /\ NumbersDense' /\ Drawn'
  BY <1>1 DEF Unmade, NumbersDense, Drawn
<1>3. Tracked'
  BY DEF Tracked, Noticed, Checked, Reporting
<1>4. StatusIsLastEvent' /\ Lively'
  BY <1>1 DEF StatusIsLastEvent, Lively
<1>. QED
  BY <1>1, <1>2, <1>3, <1>4

----------------------------------------------------------------------------
(* create *)

LEMMA CreateKeeps ==
  ASSUME IInv, NEW s \in Ship, Create(s)
  PROVE  IInv'
<1>1. TypeOK'
  BY DEF IInv, TypeOK, Create, history
<1>2. Made' = Made /\ NumbersDense'
  BY DEF IInv, Core, Create, Made, NumbersDense
<1>3. Unmade' /\ Drawn'
  BY <1>2 DEF IInv, Core, TypeOK, Create, Unmade, Drawn
<1>4. Placed' /\ CacheFresh'
  BY <1>2 DEF IInv, Create, Placed, CacheFresh, ShipOf, At, history
<1>5. Tracked' /\ StatusIsLastEvent' /\ Lively'
  BY <1>2 DEF IInv, Core, Create, Tracked, Noticed, Checked, Reporting, StatusIsLastEvent, Lively, history
<1>. QED
  BY <1>1, <1>2, <1>3, <1>4, <1>5 DEF IInv, Core

LEMMA DbCountKeeps ==
  ASSUME IInv, NEW s \in Ship, DbCount(s)
  PROVE  IInv'
<1>1. TypeOK'
  BY MadeFinite DEF IInv, TypeOK, DbCount, history
<1>2. Made' = Made /\ s \notin Made
  BY DEF IInv, Core, Unmade, DbCount, Made
<1>3. NumbersDense'
  <2>1. \A o \in Made : number'[o] = number[o]
    BY <1>2 DEF IInv, TypeOK, DbCount, Made
  <2>2. {number'[o] : o \in Made} = {number[o] : o \in Made}
    BY <2>1
  <2>. QED
    BY <1>2, <2>1, <2>2 DEF IInv, Core, NumbersDense
<1>4. Unmade' /\ Drawn'
  BY <1>2, MadeFinite DEF IInv, Core, TypeOK, DbCount, Unmade, Drawn
<1>5. Placed' /\ CacheFresh'
  BY <1>2 DEF IInv, DbCount, Placed, CacheFresh, ShipOf, At, history
<1>6. Tracked' /\ StatusIsLastEvent' /\ Lively'
  BY <1>2 DEF IInv, Core, DbCount, Tracked, Noticed, Checked, Reporting, StatusIsLastEvent, Lively, history
<1>. QED
  BY <1>1, <1>3, <1>4, <1>5, <1>6 DEF IInv, Core

\* A number that is not taken, and not beyond the next one, is the next one.
LEMMA DbCreateKeeps ==
  ASSUME IInv, NEW s \in Ship, DbCreate(s)
  PROVE  IInv'
<1>1. /\ s \notin Made /\ number[s] \in 1..Cardinality(Made) + 1
      /\ status[s] = None /\ last[s] = None /\ live[s] = None
  BY DEF IInv, Core, Unmade, Drawn, DbCreate, Made
<1>2. CASE \E o \in Made : number[o] = number[s]
  <2>1. making' = [making EXCEPT ![s] = "failed"] /\ UNCHANGED <<status, last>>
    BY <1>2 DEF DbCreate
  <2>2. Made' = Made
    BY <2>1 DEF Made
  <2>3. TypeOK'
    BY <2>1 DEF IInv, TypeOK, DbCreate, history
  <2>4. NumbersDense' /\ Unmade' /\ Drawn'
    BY <2>1, <2>2, <1>1 DEF IInv, Core, TypeOK, DbCreate, NumbersDense, Unmade, Drawn
  <2>5. Placed' /\ CacheFresh'
    BY <2>1, <2>2 DEF IInv, DbCreate, Placed, CacheFresh, ShipOf, At, history
  <2>6. Tracked' /\ StatusIsLastEvent' /\ Lively'
    BY <2>1, <2>2
       DEF IInv, Core, DbCreate, Tracked, Noticed, Checked, Reporting, StatusIsLastEvent, Lively, history
  <2>. QED
    BY <2>3, <2>4, <2>5, <2>6 DEF IInv, Core
<1>3. CASE ~\E o \in Made : number[o] = number[s]
  <2>1. PICK st \in {"CREATED", "ASSIGNED"} :
          /\ making' = [making EXCEPT ![s] = "done"]
          /\ status' = [status EXCEPT ![s] = st] /\ last' = [last EXCEPT ![s] = st]
    BY <1>3 DEF DbCreate
  <2>2. Made' = Made \cup {s}
    BY <2>1 DEF IInv, TypeOK, Made, None
  <2>3. Cardinality(Made') = Cardinality(Made) + 1
    BY <2>2, <1>1, MadeFinite, FS_AddElement
  <2>4. number[s] = Cardinality(Made) + 1
    BY <1>1, <1>3, MadeFinite DEF IInv, Core, NumbersDense
  <2>5. TypeOK'
    BY <2>1 DEF IInv, TypeOK, DbCreate, history, Status
  <2>6. NumbersDense'
    <3>1. number' = number
      BY DEF DbCreate
    <3>2. {number[o] : o \in Made'} = {number[o] : o \in Made} \cup {number[s]}
      BY <2>2
    <3>3. 1..Cardinality(Made) \cup {Cardinality(Made) + 1} = 1..Cardinality(Made) + 1
      BY MadeFinite
    <3>. QED
      BY <3>1, <3>2, <3>3, <2>2, <2>3, <2>4, <1>3 DEF IInv, Core, NumbersDense
  <2>7. Drawn'
    BY <2>1, <2>3, MadeFinite DEF IInv, Core, TypeOK, Drawn, DbCreate
  <2>8. Unmade'
    BY <2>1 DEF IInv, Core, TypeOK, Unmade, DbCreate, None
  <2>9. Placed' /\ CacheFresh'
    BY <2>2 DEF IInv, DbCreate, Placed, CacheFresh, ShipOf, At, history
  <2>10. \A t \in Tracker : track[t].pc # "idle" => track[t].ship # s
    BY <1>1 DEF IInv, Placed
  <2>11. Tracked'
    BY <2>1, <2>10
       DEF IInv, Core, TypeOK, DbCreate, Tracked, Noticed, Checked, Reporting, Sweep, history
  <2>12. StatusIsLastEvent' /\ Lively'
    BY <2>1, <2>2, <1>1 DEF IInv, Core, TypeOK, DbCreate, StatusIsLastEvent, Lively, Made, history
  <2>. QED
    BY <2>5, <2>6, <2>7, <2>8, <2>9, <2>11, <2>12 DEF IInv, Core
<1>. QED
  BY <1>2, <1>3


----------------------------------------------------------------------------
(* Tracking requests *)

\* A copy of the cache is made old only where Outdate says so.
LEMMA OutdateTypes ==
  ASSUME TypeOK, NEW s, Outdate(s)
  PROVE  /\ cached' \in [Ship -> Copy]
         /\ get' \in [Reader -> [pc : {"idle", "reading", "filling"}, ship : Ship \cup {None}, copy : Copy]]
         /\ \A g \in Reader : get'[g].pc = get[g].pc /\ get'[g].ship = get[g].ship
         /\ \A o \in Ship : o # s => cached'[o] = cached[o]
<1>1. cached' \in [Ship -> Copy]
  BY DEF TypeOK, Outdate, Copy
<1>2. ASSUME NEW g \in Reader
      PROVE  /\ get'[g] \in [pc : {"idle", "reading", "filling"}, ship : Ship \cup {None}, copy : Copy]
             /\ get'[g].pc = get[g].pc /\ get'[g].ship = get[g].ship
  BY <1>2 DEF TypeOK, Outdate, Copy
<1>. QED
  BY <1>1, <1>2 DEF TypeOK, Outdate

LEMMA DbFindKeeps ==
  ASSUME IInv, NEW t \in Tracker, NEW s \in Busy, NEW to \in Reported, DbFind(t, s, to)
  PROVE  IInv'
<1>1. /\ s \in Made /\ s \in Ship /\ to \in Status /\ status[s] \in Status
      /\ track' = [track EXCEPT ![t] = [pc |-> "saving", ship |-> s, found |-> status[s], to |-> to]]
      /\ UNCHANGED <<status, number, last, live, cached, making, edit, get, swept, bypassed, excused>>
  BY ConstantsAssumption DEF IInv, TypeOK, DbFind, Made
<1>2. raced \subseteq raced' /\ raced' \subseteq Ship
  BY <1>1 DEF IInv, TypeOK, DbFind
<1>3. TypeOK'
  BY <1>1, <1>2 DEF IInv, TypeOK
<1>4. Made' = Made /\ NumbersDense' /\ Drawn'
  BY <1>1, NumbersKept
<1>5. Unmade' /\ StatusIsLastEvent'
  BY <1>1, <1>2, <1>4 DEF IInv, Core, Unmade, StatusIsLastEvent
<1>6. Placed'
  BY <1>1, <1>4 DEF IInv, TypeOK, Placed
<1>7. Noticed'
  <2>. SUFFICES ASSUME NEW x \in Tracker, NEW y \in Tracker, x # y, track'[x].pc # "idle",
                       track'[y].pc # "idle", track'[x].ship = track'[y].ship
                PROVE  track'[x].ship \in raced'
    BY DEF Noticed
  <2>1. CASE x # t /\ y # t
    BY <2>1, <1>1, <1>2 DEF IInv, TypeOK, Core, Tracked, Noticed
  <2>2. CASE x = t
    BY <2>2, <1>1 DEF IInv, TypeOK, DbFind, Tracking
  <2>3. CASE y = t
    BY <2>3, <1>1 DEF IInv, TypeOK, DbFind, Tracking
  <2>. QED
    BY <2>1, <2>2, <2>3
<1>8. ASSUME NEW x \in Tracker PROVE Checked(x)' /\ Reporting(x)'
  BY <1>1, <1>2, <1>8 DEF IInv, TypeOK, Core, Tracked, Checked, Reporting, DbFind, Sweep
<1>9. Lively'
  <2>1. \A x \in Tracker : track[x].pc \in Sweep => track'[x] = track[x]
    BY <1>1 DEF IInv, TypeOK, DbFind, Sweep
  <2>. QED
    BY <1>1, <1>2, <1>4, <2>1 DEF IInv, Core, Lively
<1>10. CacheFresh'
  BY <1>1, ConstantsAssumption DEF IInv, TypeOK, CacheFresh, At, ShipOf, Handler, DbFind
<1>. QED
  BY <1>3, <1>4, <1>5, <1>6, <1>7, <1>8, <1>9, <1>10 DEF IInv, Core, Tracked

LEMMA DbSaveKeeps ==
  ASSUME IInv, NEW t \in Tracker, DbSave(t),
         NEW s, s = track[t].ship, NEW to, to = track[t].to
  PROVE  IInv'
<1>1. /\ track[t].pc = "saving" /\ s \in Made /\ s \in Ship /\ to \in Status
      /\ track' = [track EXCEPT ![t].pc = "invalidating", ![t].found = None]
      /\ last' = [last EXCEPT ![s] = to]
      /\ status' = [status EXCEPT ![s] = IF to = track[t].found THEN @ ELSE to]
      /\ Outdate(s) /\ UNCHANGED <<number, live, making, edit, swept, raced, bypassed, excused>>
  BY DEF IInv, TypeOK, Placed, DbSave, Made, history
<1>2. /\ track'[t].pc = "invalidating" /\ track'[t].ship = s /\ track'[t].to = to
      /\ \A x \in Tracker : x # t => track'[x] = track[x]
      /\ last'[s] = to /\ \A o \in Ship : o # s => last'[o] = last[o] /\ status'[o] = status[o]
      /\ status'[s] = IF to = track[t].found THEN status[s] ELSE to
  BY <1>1 DEF IInv, TypeOK
<1>3. TypeOK'
  <2>1. last' \in [Ship -> Status \cup {None}] /\ status' \in [Ship -> Status \cup {None}]
    BY <1>1 DEF IInv, TypeOK
  <2>2. track' \in [Tracker -> [pc : {"idle", "saving"} \cup Sweep, ship : Ship \cup {None},
                                found : Status \cup {None}, to : Status \cup {None}]]
    <3>1. [track[t] EXCEPT !.pc = "invalidating", !.found = None]
            \in [pc : {"idle", "saving"} \cup Sweep, ship : Ship \cup {None},
                 found : Status \cup {None}, to : Status \cup {None}]
      <4>1. track[t] \in [pc : {"idle", "saving"} \cup Sweep, ship : Ship \cup {None},
                          found : Status \cup {None}, to : Status \cup {None}]
        BY DEF IInv, TypeOK
      <4>2. "invalidating" \in {"idle", "saving"} \cup Sweep /\ None \in Status \cup {None}
        BY DEF Sweep
      <4>. QED
        BY <4>1, <4>2
    <3>2. track' = [track EXCEPT ![t] = [track[t] EXCEPT !.pc = "invalidating", !.found = None]]
      BY <1>1 DEF IInv, TypeOK
    <3>. QED
      BY <3>1, <3>2 DEF IInv, TypeOK
  <2>. QED
    BY <2>1, <2>2, <1>1, OutdateTypes DEF IInv, TypeOK
<1>4. Made' = Made /\ NumbersDense' /\ Drawn'
  <2>1. \A o \in Ship : status'[o] = None <=> status[o] = None
    BY <1>1, <1>2 DEF Made, Status, None
  <2>. QED
    BY <2>1, <1>1, NumbersKept
<1>5. Unmade'
  BY <1>1, <1>2, <1>4 DEF IInv, Core, Unmade, Made
<1>6. Placed'
  <2>1. ASSUME NEW x \in Tracker, track'[x].pc # "idle" PROVE track'[x].ship \in Made /\ track'[x].to \in Status
    <3>1. CASE x = t
      BY <3>1, <1>1, <1>2
    <3>2. CASE x # t
      BY <2>1, <3>2, <1>2 DEF IInv, Placed
    <3>. QED
      BY <3>1, <3>2
  <2>2. ASSUME NEW g \in Reader, get'[g].pc # "idle" PROVE get'[g].ship \in Made
    BY <2>2, <1>1, OutdateTypes DEF IInv, Placed
  <2>3. edit' = edit
    BY <1>1
  <2>. QED
    BY <1>4, <2>1, <2>2, <2>3 DEF IInv, Placed
<1>7. \A x \in Tracker : track'[x].ship = track[x].ship /\ (track'[x].pc # "idle" <=> track[x].pc # "idle")
  <2>1. track[t].pc = "saving" /\ track[t].ship = s
    BY <1>1
  <2>. QED
    BY <2>1, <1>2
<1>8. Noticed'
  <2>1. raced' = raced
    BY <1>1
  <2>. QED
    BY <2>1, <1>7 DEF IInv, Core, Tracked, Noticed
<1>9. StatusIsLastEvent'
  BY <1>1, <1>2, <1>4 DEF IInv, Core, Tracked, Checked, StatusIsLastEvent, Made
<1>10. ASSUME NEW x \in Tracker PROVE Checked(x)' /\ Reporting(x)'
  <2>1. CASE x = t
    BY <2>1, <1>1, <1>2 DEF Checked, Reporting, Sweep
  <2>2. CASE x # t
    <3>1. track'[x] = track[x] /\ Checked(x) /\ Reporting(x) /\ raced' = raced /\ bypassed' = bypassed
      BY <2>2, <1>1, <1>2, <1>10 DEF IInv, Core, Tracked
    <3>2. CASE track[x].pc = "idle"
      BY <3>1, <3>2 DEF Checked, Reporting, Sweep
    <3>3. CASE track[x].pc # "idle" /\ track[x].ship = s
      <4>1. s \in raced
        BY <2>2, <3>3, <1>1, <1>10 DEF IInv, Core, Tracked, Noticed
      <4>. QED
        BY <3>1, <3>3, <4>1 DEF Checked, Reporting
    <3>4. CASE track[x].pc # "idle" /\ track[x].ship # s
      <4>1. track[x].ship \in Ship
        BY <3>4, <1>10 DEF IInv, Placed, Made
      <4>. QED
        BY <3>1, <3>4, <4>1, <1>2 DEF Checked, Reporting
    <3>. QED
      BY <3>2, <3>3, <3>4
  <2>. QED
    BY <2>1, <2>2
<1>11. Lively'
  <2>. SUFFICES ASSUME NEW o \in Made, o \notin raced
                PROVE  \/ live[o] = None \/ live[o] = last'[o]
                       \/ \E x \in Tracker : track'[x].ship = o /\ track'[x].pc \in Sweep
    BY <1>1, <1>4 DEF Lively
  <2>1. CASE o = s
    BY <2>1, <1>2 DEF Sweep
  <2>2. CASE o # s
    <3>1. last'[o] = last[o]
      BY <2>2, <1>2 DEF Made
    <3>2. ASSUME NEW x \in Tracker, track[x].ship = o PROVE track'[x] = track[x]
      BY <2>2, <3>2, <1>1, <1>2
    <3>. QED
      BY <3>1, <3>2 DEF IInv, Core, Lively
  <2>. QED
    BY <2>1, <2>2
<1>12. CacheFresh'
  <2>1. t \in Handler /\ ShipOf(t)' = s /\ At(t, "invalidating")'
    BY <1>2 DEF Handler, ShipOf, At
  <2>2. ASSUME NEW o \in Ship, o # s, NEW h \in Handler, ShipOf(h) = o, At(h, "invalidating")
        PROVE  ShipOf(h)' = o /\ At(h, "invalidating")'
    <3>1. CASE h \in Tracker
      <4>1. track'[h] = track[h]
        BY <2>2, <3>1, <1>1, <1>2 DEF ShipOf
      <4>. QED
        BY <2>2, <3>1, <4>1 DEF ShipOf, At
    <3>2. CASE h \notin Tracker
      BY <2>2, <3>2, <1>1 DEF ShipOf, At
    <3>. QED
      BY <3>1, <3>2
  <2>. QED
    BY <1>1, <2>1, <2>2, OutdateTypes DEF IInv, CacheFresh
<1>. QED
  BY <1>3, <1>4, <1>5, <1>6, <1>8, <1>9, <1>10, <1>11, <1>12 DEF IInv, Core, Tracked


----------------------------------------------------------------------------
(* Edits and the clean-up *)

\* Setting a status behind the history's back is noted.
LEMMA SetStatus ==
  ASSUME IInv, NEW s \in Made, NEW to \in Status, status' = [status EXCEPT ![s] = to],
         bypassed' = bypassed \cup {s}, UNCHANGED <<number, last, live, making, track, raced>>
  PROVE  Core' /\ Made' = Made /\ status' \in [Ship -> Status \cup {None}] /\ bypassed' \subseteq Ship
<1>1. /\ s \in Ship /\ status[s] # None /\ status'[s] = to /\ to # None
      /\ \A o \in Ship : o # s => status'[o] = status[o]
  BY DEF IInv, TypeOK, Made, Status, None
<1>2. Made' = Made /\ NumbersDense' /\ Drawn'
  BY <1>1, NumbersKept
<1>3. Unmade'
  BY <1>1 DEF IInv, Core, Unmade
<1>4. Noticed' /\ Lively'
  BY <1>2 DEF IInv, Core, Tracked, Noticed, Lively
<1>5. ASSUME NEW x \in Tracker PROVE Checked(x)' /\ Reporting(x)'
  BY <1>1, <1>5 DEF IInv, Core, Placed, Made, Tracked, Checked, Reporting
<1>6. StatusIsLastEvent'
  BY <1>1, <1>2 DEF IInv, Core, StatusIsLastEvent, Made
<1>. QED
  BY <1>1, <1>2, <1>3, <1>4, <1>5, <1>6 DEF IInv, Core, Tracked, TypeOK

\* An edit has written and goes on to the invalidation, which it owes.
LEMMA EditBegins ==
  ASSUME IInv, NEW e \in Editor, NEW s \in Made, edit[e].pc = "idle",
         edit' = [edit EXCEPT ![e] = [pc |-> "invalidating", ship |-> s]],
         Outdate(s), Made' = Made, UNCHANGED <<track, excused>>
  PROVE  /\ Placed' /\ CacheFresh'
         /\ edit' \in [Editor -> [pc : {"idle"} \cup Sweep, ship : Ship \cup {None}]]
<1>1. e \notin Tracker /\ e \in Handler /\ s \in Ship
  BY ConstantsAssumption DEF Handler, Made
<1>2. edit'[e] = [pc |-> "invalidating", ship |-> s] /\ \A x \in Editor : x # e => edit'[x] = edit[x]
  BY DEF IInv, TypeOK
<1>3. Placed'
  BY <1>2, OutdateTypes DEF IInv, Placed
<1>4. CacheFresh'
  <2>1. ShipOf(e)' = s /\ At(e, "invalidating")'
    BY <1>1, <1>2 DEF ShipOf, At
  <2>2. ASSUME NEW h \in Handler, At(h, "invalidating")
        PROVE  ShipOf(h)' = ShipOf(h) /\ At(h, "invalidating")'
    BY <1>1, <1>2, <2>2 DEF Handler, ShipOf, At
  <2>. QED
    BY <1>1, <2>1, <2>2, OutdateTypes DEF IInv, CacheFresh
<1>5. edit' \in [Editor -> [pc : {"idle"} \cup Sweep, ship : Ship \cup {None}]]
  BY <1>1 DEF IInv, TypeOK, Sweep
<1>. QED
  BY <1>3, <1>4, <1>5

LEMMA EditKeeps ==
  ASSUME IInv, NEW e \in Editor, NEW s \in Busy, AssignCarrier(e, s) \/ AttachDocument(e, s)
  PROVE  IInv'
<1>1. CASE AssignCarrier(e, s)
  <2>1. /\ s \in Made /\ Outdate(s) /\ UNCHANGED <<track, excused>> /\ edit[e].pc = "idle"
        /\ edit' = [edit EXCEPT ![e] = [pc |-> "invalidating", ship |-> s]]
    BY <1>1 DEF AssignCarrier
  <2>2. Core' /\ Made' = Made /\ status' \in [Ship -> Status \cup {None}] /\ bypassed' \subseteq Ship
    BY <1>1, <2>1, SetStatus DEF AssignCarrier, Status
  <2>3. TypeOK'
    BY <1>1, <2>1, <2>2, EditBegins, OutdateTypes DEF IInv, TypeOK, AssignCarrier
  <2>. QED
    BY <2>1, <2>2, <2>3, EditBegins DEF IInv
<1>2. CASE AttachDocument(e, s)
  <2>1. /\ s \in Made /\ Outdate(s) /\ UNCHANGED <<track, excused>> /\ edit[e].pc = "idle"
        /\ edit' = [edit EXCEPT ![e] = [pc |-> "invalidating", ship |-> s]]
    BY <1>2 DEF AttachDocument, history
  <2>2. Core' /\ Made' = Made
    BY <1>2, CoreQuiet DEF IInv, AttachDocument, coreVars, history
  <2>3. TypeOK'
    BY <1>2, <2>1, <2>2, EditBegins, OutdateTypes DEF IInv, TypeOK, AttachDocument, history
  <2>. QED
    BY <2>1, <2>2, <2>3, EditBegins DEF IInv
<1>. QED
  BY <1>1, <1>2

LEMMA CleanupKeeps ==
  ASSUME IInv, CleanupStaleShipments
  PROVE  IInv'
<1>1. PICK s \in Busy :
        /\ status[s] = "CREATED" /\ status' = [status EXCEPT ![s] = "EXCEPTION"]
        /\ bypassed' = bypassed \cup {s} /\ Outdate(s)
        /\ excused' = IF cached[s] = None THEN excused ELSE excused \cup {s}
        /\ UNCHANGED <<number, last, live, making, track, edit, swept, raced>>
  BY DEF CleanupStaleShipments
<1>2. s \in Made /\ s \in Ship
  BY <1>1, ConstantsAssumption DEF Made, None
<1>3. Core' /\ Made' = Made /\ status' \in [Ship -> Status \cup {None}] /\ bypassed' \subseteq Ship
  BY <1>1, <1>2, SetStatus DEF Status
<1>4. TypeOK'
  BY <1>1, <1>2, <1>3, OutdateTypes DEF IInv, TypeOK
<1>5. Placed'
  BY <1>1, <1>3, OutdateTypes DEF IInv, Placed
<1>6. CacheFresh'
  <2>1. cached'[s] = "old" => s \in excused'
    BY <1>1, <1>2 DEF Outdate, IInv, TypeOK, None
  <2>2. \A h \in Handler : ShipOf(h)' = ShipOf(h) /\ At(h, "invalidating")' = At(h, "invalidating")
    BY <1>1 DEF ShipOf, At
  <2>3. excused \subseteq excused' /\ \A o \in Ship : o # s => cached'[o] = cached[o]
    BY <1>1, OutdateTypes DEF IInv
  <2>. QED
    BY <2>1, <2>2, <2>3 DEF IInv, CacheFresh
<1>. QED
  BY <1>3, <1>4, <1>5, <1>6 DEF IInv


----------------------------------------------------------------------------
(* The invalidation *)

\* What a handler that is invalidating has: a shipment that exists.
LEMMA AtWork ==
  ASSUME IInv, NEW h \in Handler, NEW pc \in {"saving"} \cup Sweep, At(h, pc)
  PROVE  ShipOf(h) \in Made /\ ShipOf(h) \in Ship
<1>1. pc # "idle"
  BY DEF Sweep
<1>. QED
  BY <1>1 DEF IInv, Placed, Handler, At, ShipOf, Made

\* A handler moves within the invalidation: only where it is has changed.
LEMMA MoveKeeps ==
  ASSUME IInv, NEW h \in Handler, NEW from \in Sweep, NEW to \in Sweep \ {"invalidating"},
         At(h, from), MoveTo(h, to), UNCHANGED <<status, number, last, making, raced, bypassed>>
  PROVE  /\ Core' /\ Made' = Made
         /\ track' \in [Tracker -> [pc : {"idle", "saving"} \cup Sweep, ship : Ship \cup {None},
                                    found : Status \cup {None}, to : Status \cup {None}]]
         /\ edit' \in [Editor -> [pc : {"idle"} \cup Sweep, ship : Ship \cup {None}]]
         /\ live' = live
         /\ \A t \in Tracker : track'[t].ship = track[t].ship /\ track'[t].to = track[t].to
         /\ \A t \in Tracker : track'[t].pc = "idle" <=> track[t].pc = "idle"
         /\ \A e \in Editor : edit'[e].ship = edit[e].ship /\ (edit'[e].pc = "idle" <=> edit[e].pc = "idle")
         /\ \A x \in Handler : x # h => (At(x, "invalidating")' <=> At(x, "invalidating"))
<1>1. CASE h \in Tracker
  <2>1. track[h].pc \in Sweep /\ track' = [track EXCEPT ![h].pc = to] /\ UNCHANGED <<edit, live>>
    BY <1>1 DEF At, MoveTo
  <2>2. /\ track'[h] = [track[h] EXCEPT !.pc = to]
        /\ \A t \in Tracker : t # h => track'[t] = track[t]
    BY <1>1, <2>1 DEF IInv, TypeOK
  <2>3. track'[h].pc = to /\ track'[h].ship = track[h].ship /\ track'[h].to = track[h].to
    BY <1>1, <2>2 DEF IInv, TypeOK
  <2>4. track' \in [Tracker -> [pc : {"idle", "saving"} \cup Sweep, ship : Ship \cup {None},
                                found : Status \cup {None}, to : Status \cup {None}]]
    <3>1. track[h] \in [pc : {"idle", "saving"} \cup Sweep, ship : Ship \cup {None},
                        found : Status \cup {None}, to : Status \cup {None}]
      BY <1>1 DEF IInv, TypeOK
    <3>2. [track[h] EXCEPT !.pc = to] \in [pc : {"idle", "saving"} \cup Sweep, ship : Ship \cup {None},
                                           found : Status \cup {None}, to : Status \cup {None}]
      BY <3>1
    <3>3. track' = [track EXCEPT ![h] = [track[h] EXCEPT !.pc = to]]
      BY <2>1
    <3>. QED
      BY <3>2, <3>3 DEF IInv, TypeOK
  <2>5. "idle" \notin Sweep /\ "saving" \notin Sweep
    BY DEF Sweep
  <2>6. \A t \in Tracker : /\ track'[t].ship = track[t].ship /\ track'[t].to = track[t].to
                           /\ track'[t].pc = "idle" <=> track[t].pc = "idle"
                           /\ track'[t].pc \in Sweep <=> track[t].pc \in Sweep
                           /\ track'[t].pc = "saving" => track'[t] = track[t]
    BY <2>1, <2>2, <2>3, <2>5
  <2>7. Made' = Made /\ NumbersDense' /\ Drawn'
    BY NumbersKept
  <2>8. Unmade' /\ StatusIsLastEvent'
    BY <2>1, <2>7 DEF IInv, Core, Unmade, StatusIsLastEvent
  <2>9. Noticed'
    BY <2>6 DEF IInv, Core, Tracked, Noticed
  <2>10. ASSUME NEW t \in Tracker PROVE Checked(t)' /\ Reporting(t)'
    BY <2>6, <2>10 DEF IInv, Core, Tracked, Checked, Reporting
  <2>11. Lively'
    BY <2>1, <2>6, <2>7 DEF IInv, Core, Lively
  <2>12. \A x \in Handler : x # h => (At(x, "invalidating")' <=> At(x, "invalidating"))
    BY <2>1, <2>2 DEF At, Handler
  <2>. QED
    BY <2>1, <2>4, <2>6, <2>7, <2>8, <2>9, <2>10, <2>11, <2>12 DEF Core, Tracked, IInv, TypeOK
<1>2. CASE h \notin Tracker
  <2>1. /\ h \in Editor /\ edit[h].pc \in Sweep
        /\ edit' = [edit EXCEPT ![h].pc = to] /\ UNCHANGED <<track, live>>
    BY <1>2 DEF At, MoveTo, Handler
  <2>2. Core' /\ Made' = Made
    BY <2>1, CoreQuiet DEF IInv, coreVars
  <2>3. edit' \in [Editor -> [pc : {"idle"} \cup Sweep, ship : Ship \cup {None}]]
    BY <2>1 DEF IInv, TypeOK
  <2>4. "idle" \notin Sweep
    BY DEF Sweep
  <2>5. \A e \in Editor : edit'[e].ship = edit[e].ship /\ (edit'[e].pc = "idle" <=> edit[e].pc = "idle")
    BY <2>1, <2>4 DEF IInv, TypeOK
  <2>6. \A x \in Handler : x # h => (At(x, "invalidating")' <=> At(x, "invalidating"))
    BY <2>1 DEF At, Handler, IInv, TypeOK
  <2>. QED
    BY <2>1, <2>2, <2>3, <2>5, <2>6 DEF IInv, TypeOK
<1>. QED
  BY <1>1, <1>2


\* A handler ends.
Ended(h) ==
  IF h \in Tracker THEN track' = [track EXCEPT ![h] = NoTrack] /\ UNCHANGED edit
                   ELSE edit' = [edit EXCEPT ![h] = NoEdit] /\ UNCHANGED track

LEMMA EndedFrame ==
  ASSUME IInv, NEW h \in Handler, Ended(h)
  PROVE  /\ track' \in [Tracker -> [pc : {"idle", "saving"} \cup Sweep, ship : Ship \cup {None},
                                    found : Status \cup {None}, to : Status \cup {None}]]
         /\ edit' \in [Editor -> [pc : {"idle"} \cup Sweep, ship : Ship \cup {None}]]
         /\ \A t \in Tracker : IF t = h THEN track'[t].pc = "idle" ELSE track'[t] = track[t]
         /\ \A e \in Editor : edit'[e] = edit[e] \/ edit'[e].pc = "idle"
         /\ \A x \in Handler : x # h => /\ At(x, "invalidating")' <=> At(x, "invalidating")
                                        /\ ShipOf(x)' = ShipOf(x)
<1>1. CASE h \in Tracker
  <2>1. track' = [track EXCEPT ![h] = NoTrack] /\ edit' = edit
    BY <1>1 DEF Ended
  <2>2. track' \in [Tracker -> [pc : {"idle", "saving"} \cup Sweep, ship : Ship \cup {None},
                                found : Status \cup {None}, to : Status \cup {None}]]
    BY <2>1 DEF IInv, TypeOK, NoTrack
  <2>3. \A t \in Tracker : IF t = h THEN track'[t].pc = "idle" ELSE track'[t] = track[t]
    BY <2>1 DEF IInv, TypeOK, NoTrack
  <2>. QED
    BY <1>1, <2>1, <2>2, <2>3 DEF IInv, TypeOK, Handler, At, ShipOf
<1>2. CASE h \notin Tracker
  <2>1. edit' = [edit EXCEPT ![h] = NoEdit] /\ track' = track /\ h \in Editor
    BY <1>2 DEF Ended, Handler
  <2>2. edit' \in [Editor -> [pc : {"idle"} \cup Sweep, ship : Ship \cup {None}]]
    BY <2>1 DEF IInv, TypeOK, NoEdit
  <2>3. \A e \in Editor : IF e = h THEN edit'[e].pc = "idle" ELSE edit'[e] = edit[e]
    BY <2>1 DEF IInv, TypeOK, NoEdit
  <2>. QED
    BY <1>2, <2>1, <2>2, <2>3 DEF IInv, TypeOK, Handler, At, ShipOf
<1>. QED
  BY <1>1, <1>2

\* A request that publishes at its end reports the last event.
LEMMA FinishCore ==
  ASSUME IInv, NEW h \in Handler, NEW from \in Sweep, At(h, from), Finish(h),
         UNCHANGED <<status, number, last, making, raced, bypassed>>
  PROVE  Core' /\ Made' = Made /\ Ended(h) /\ live' \in [Ship -> Status \cup {None}]
<1>1. Ended(h)
  BY DEF Finish, Ended
<1>2. CASE h \notin Tracker
  <2>1. UNCHANGED <<track, live>>
    BY <1>2 DEF Finish
  <2>. QED
    BY <1>1, <2>1, CoreQuiet DEF IInv, TypeOK, coreVars
<1>3. CASE h \in Tracker
  <2>1. live' = [live EXCEPT ![track[h].ship] = track[h].to] /\ track[h].pc \in Sweep
    BY <1>3 DEF Finish, Published, At
  <2>2. track[h].ship \in Made /\ track[h].ship \in Ship /\ track[h].to \in Status
    BY <1>3, <2>1 DEF IInv, Placed, Made, Sweep
  <2>3. live' \in [Ship -> Status \cup {None}]
    BY <2>1, <2>2 DEF IInv, TypeOK
  <2>4. Made' = Made /\ NumbersDense' /\ Drawn'
    BY NumbersKept
  <2>5. Unmade' /\ StatusIsLastEvent'
    BY <2>1, <2>2, <2>4 DEF IInv, Core, TypeOK, Unmade, StatusIsLastEvent, Made
  <2>6. \A t \in Tracker : IF t = h THEN track'[t].pc = "idle" ELSE track'[t] = track[t]
    BY <1>1, EndedFrame
  <2>7. Noticed'
    BY <2>6 DEF IInv, Core, Tracked, Noticed
  <2>8. ASSUME NEW t \in Tracker PROVE Checked(t)' /\ Reporting(t)'
    BY <2>6, <2>8 DEF IInv, Core, Tracked, Checked, Reporting, Sweep
  <2>9. Lively'
    <3>. SUFFICES ASSUME NEW o \in Made, o \notin raced
                  PROVE  \/ live'[o] = None \/ live'[o] = last[o]
                         \/ \E t \in Tracker : track'[t].ship = o /\ track'[t].pc \in Sweep
      BY <2>4 DEF Lively
    <3>1. CASE o = track[h].ship
      BY <1>3, <3>1, <2>1, <2>2 DEF IInv, Core, TypeOK, Tracked, Reporting
    <3>2. CASE o # track[h].ship
      <4>1. live'[o] = live[o]
        BY <3>2, <2>1, <2>2 DEF IInv, TypeOK, Made
      <4>2. \A t \in Tracker : track[t].ship = o => track'[t] = track[t]
        BY <3>2, <2>6
      <4>. QED
        BY <4>1, <4>2 DEF IInv, Core, Lively
    <3>. QED
      BY <3>1, <3>2
  <2>. QED
    BY <1>1, <2>3, <2>4, <2>5, <2>7, <2>8, <2>9 DEF Core, Tracked
<1>. QED
  BY <1>2, <1>3

\* A request that fails past its save is noted.
LEMMA FailCore ==
  ASSUME IInv, NEW h \in Handler, Fail(h)
  PROVE  Core' /\ Made' = Made /\ Ended(h) /\ raced \subseteq raced' /\ raced' \subseteq Ship
<1>1. Ended(h) /\ UNCHANGED <<status, number, last, live, making, bypassed>>
  BY DEF Fail, Ended
<1>2. PICK pc \in {"saving"} \cup Sweep : At(h, pc)
  BY DEF Fail
<1>3. ShipOf(h) \in Ship
  BY <1>2, AtWork
<1>4. /\ raced' = IF h \in Tracker /\ ~At(h, "saving") THEN raced \cup {ShipOf(h)} ELSE raced
      /\ raced \subseteq raced' /\ raced' \subseteq Ship
  BY <1>3 DEF Fail, IInv, TypeOK
<1>5. Made' = Made /\ NumbersDense' /\ Drawn'
  BY <1>1, NumbersKept
<1>6. Unmade' /\ StatusIsLastEvent'
  BY <1>1, <1>4, <1>5 DEF IInv, Core, Unmade, StatusIsLastEvent
<1>7. \A t \in Tracker : IF t = h THEN track'[t].pc = "idle" ELSE track'[t] = track[t]
  BY <1>1, EndedFrame
<1>8. Noticed'
  BY <1>4, <1>7 DEF IInv, Core, Tracked, Noticed
<1>9. ASSUME NEW t \in Tracker PROVE Checked(t)' /\ Reporting(t)'
  BY <1>1, <1>4, <1>7, <1>9 DEF IInv, Core, Tracked, Checked, Reporting, Sweep
<1>10. Lively'
  <2>. SUFFICES ASSUME NEW o \in Made, o \notin raced'
                PROVE  \/ live[o] = None \/ live[o] = last[o]
                       \/ \E t \in Tracker : track'[t].ship = o /\ track'[t].pc \in Sweep
    BY <1>1, <1>5 DEF Lively
  <2>1. ASSUME NEW t \in Tracker, track[t].ship = o, track[t].pc \in Sweep PROVE track'[t] = track[t]
    <3>1. t # h
      BY <2>1, <1>4 DEF At, ShipOf, Sweep
    <3>. QED
      BY <3>1, <1>7
  <2>2. o \notin raced
    BY <1>4
  <2>. QED
    BY <2>1, <2>2 DEF IInv, Core, Lively
<1>. QED
  BY <1>1, <1>4, <1>5, <1>6, <1>8, <1>9, <1>10 DEF Core, Tracked


\* Where a handler of the invalidation goes on or ends, it stays placed.
LEMMA EndedPlaced ==
  ASSUME IInv, NEW h \in Handler, Ended(h), Made' = Made, UNCHANGED get
  PROVE  Placed'
<1>1. ASSUME NEW t \in Tracker, track'[t].pc # "idle" PROVE track'[t].ship \in Made /\ track'[t].to \in Status
  BY <1>1, EndedFrame DEF IInv, Placed
<1>2. ASSUME NEW e \in Editor, edit'[e].pc # "idle" PROVE edit'[e].ship \in Made
  BY <1>2, EndedFrame DEF IInv, Placed
<1>. QED
  BY <1>1, <1>2 DEF IInv, Placed

LEMMA DelKeyKeeps ==
  ASSUME IInv, NEW h \in Handler, DelKey(h), NEW s, s = ShipOf(h)
  PROVE  IInv'
<1>1. /\ At(h, "invalidating") /\ MoveTo(h, "listing")
      /\ cached' = [cached EXCEPT ![s] = None] /\ excused' = excused \ {s}
      /\ UNCHANGED <<status, number, last, making, get, swept, bypassed, raced>>
  BY DEF DelKey
<1>2. "invalidating" \in Sweep /\ "listing" \in Sweep \ {"invalidating"}
  BY DEF Sweep
<1>3. s \in Ship
  BY <1>1, <1>2, AtWork
<1>4. /\ Core' /\ Made' = Made /\ live' = live
      /\ track' \in [Tracker -> [pc : {"idle", "saving"} \cup Sweep, ship : Ship \cup {None},
                                 found : Status \cup {None}, to : Status \cup {None}]]
      /\ edit' \in [Editor -> [pc : {"idle"} \cup Sweep, ship : Ship \cup {None}]]
      /\ \A t \in Tracker : track'[t].ship = track[t].ship /\ track'[t].to = track[t].to
      /\ \A t \in Tracker : track'[t].pc = "idle" <=> track[t].pc = "idle"
      /\ \A e \in Editor : edit'[e].ship = edit[e].ship /\ (edit'[e].pc = "idle" <=> edit[e].pc = "idle")
      /\ \A x \in Handler : x # h => (At(x, "invalidating")' <=> At(x, "invalidating"))
  BY <1>1, <1>2, MoveKeeps
<1>5. TypeOK'
  BY <1>1, <1>4 DEF IInv, TypeOK, Copy
<1>6. Placed'
  BY <1>1, <1>4 DEF IInv, Placed
<1>7. CacheFresh'
  <2>1. \A x \in Handler : ShipOf(x)' = ShipOf(x)
    BY <1>4 DEF ShipOf, Handler
  <2>2. cached'[s] # "old" /\ \A o \in Ship : o # s => cached'[o] = cached[o]
    BY <1>1, <1>3 DEF IInv, TypeOK, None
  <2>3. ASSUME NEW o \in Ship, cached'[o] = "old"
        PROVE  o \in excused' \/ \E x \in Handler : ShipOf(x)' = o /\ At(x, "invalidating")'
    <3>1. o # s /\ cached[o] = "old"
      BY <2>2, <2>3
    <3>2. o \in excused \/ \E x \in Handler : ShipOf(x) = o /\ At(x, "invalidating")
      BY <3>1 DEF IInv, CacheFresh
    <3>. QED
      BY <3>1, <3>2, <2>1, <1>1, <1>4
  <2>. QED
    BY <2>3 DEF CacheFresh
<1>. QED
  BY <1>4, <1>5, <1>6, <1>7 DEF IInv

LEMMA ListKeysKeeps ==
  ASSUME IInv, NEW h \in Handler, ListKeys(h)
  PROVE  IInv'
<1>1. At(h, "listing") /\ ~At(h, "invalidating") /\ UNCHANGED <<status, number, last, cached, making, get, history>>
  BY DEF ListKeys, At
<1>2. "listing" \in Sweep /\ "sweeping" \in Sweep \ {"invalidating"}
  BY DEF Sweep
<1>3. CASE {s \in Ship : cached[s] # None} = {}
  <2>1. Finish(h) /\ UNCHANGED swept
    BY <1>3 DEF ListKeys
  <2>2. Core' /\ Made' = Made /\ Ended(h) /\ live' \in [Ship -> Status \cup {None}]
    BY <2>1, <1>1, <1>2, FinishCore DEF history
  <2>3. TypeOK'
    BY <2>1, <2>2, <1>1, EndedFrame DEF IInv, TypeOK, history
  <2>4. Placed'
    BY <2>2, <1>1, EndedPlaced
  <2>5. CacheFresh'
    BY <1>1, <1>3 DEF IInv, CacheFresh, None
  <2>. QED
    BY <2>2, <2>3, <2>4, <2>5 DEF IInv
<1>4. CASE {s \in Ship : cached[s] # None} # {}
  <2>1. MoveTo(h, "sweeping") /\ swept' = [swept EXCEPT ![h] = {s \in Ship : cached[s] # None}]
    BY <1>4 DEF ListKeys
  <2>2. /\ Core' /\ Made' = Made /\ live' = live
        /\ track' \in [Tracker -> [pc : {"idle", "saving"} \cup Sweep, ship : Ship \cup {None},
                                   found : Status \cup {None}, to : Status \cup {None}]]
        /\ edit' \in [Editor -> [pc : {"idle"} \cup Sweep, ship : Ship \cup {None}]]
        /\ \A t \in Tracker : track'[t].ship = track[t].ship /\ track'[t].to = track[t].to
        /\ \A t \in Tracker : track'[t].pc = "idle" <=> track[t].pc = "idle"
        /\ \A e \in Editor : edit'[e].ship = edit[e].ship /\ (edit'[e].pc = "idle" <=> edit[e].pc = "idle")
        /\ \A x \in Handler : x # h => (At(x, "invalidating")' <=> At(x, "invalidating"))
    BY <2>1, <1>1, <1>2, MoveKeeps DEF history
  <2>3. TypeOK'
    BY <2>1, <2>2, <1>1 DEF IInv, TypeOK, history
  <2>4. Placed'
    BY <2>2, <1>1 DEF IInv, Placed
  <2>5. CacheFresh'
    <3>1. \A x \in Handler : ShipOf(x)' = ShipOf(x)
      BY <2>2 DEF ShipOf, Handler
    <3>2. \A x \in Handler : At(x, "invalidating") => At(x, "invalidating")'
      BY <2>2, <1>1
    <3>. QED
      BY <3>1, <3>2, <1>1 DEF IInv, CacheFresh, history
  <2>. QED
    BY <2>2, <2>3, <2>4, <2>5 DEF IInv
<1>. QED
  BY <1>3, <1>4

LEMMA DelKeysKeeps ==
  ASSUME IInv, NEW h \in Handler, DelKeys(h)
  PROVE  IInv'
<1>1. /\ At(h, "sweeping") /\ ~At(h, "invalidating") /\ Finish(h)
      /\ cached' = [s \in Ship |-> IF s \in swept[h] THEN None ELSE cached[s]]
      /\ excused' = excused \ swept[h] /\ swept' = [swept EXCEPT ![h] = {}]
      /\ UNCHANGED <<status, number, last, making, get, bypassed, raced>>
  BY DEF DelKeys, At
<1>2. "sweeping" \in Sweep
  BY DEF Sweep
<1>3. Core' /\ Made' = Made /\ Ended(h) /\ live' \in [Ship -> Status \cup {None}]
  BY <1>1, <1>2, FinishCore
<1>4. TypeOK'
  BY <1>1, <1>3, EndedFrame DEF IInv, TypeOK, Copy
<1>5. Placed'
  BY <1>1, <1>3, EndedPlaced
<1>6. CacheFresh'
  <2>1. \A x \in Handler : At(x, "invalidating") => At(x, "invalidating")' /\ ShipOf(x)' = ShipOf(x)
    BY <1>1, <1>3, EndedFrame
  <2>2. ASSUME NEW o \in Ship, cached'[o] = "old" PROVE cached[o] = "old" /\ o \notin swept[h]
    BY <1>1, <2>2 DEF None
  <2>. QED
    BY <1>1, <2>1, <2>2 DEF IInv, CacheFresh
<1>. QED
  BY <1>3, <1>4, <1>5, <1>6 DEF IInv

LEMMA FailKeeps ==
  ASSUME IInv, NEW h \in Handler, Fail(h), NEW s, s = ShipOf(h)
  PROVE  IInv'
<1>1. /\ swept' = [swept EXCEPT ![h] = {}]
      /\ excused' = IF At(h, "invalidating") /\ cached[s] # None THEN excused \cup {s} ELSE excused
      /\ UNCHANGED <<status, number, last, live, cached, making, get, bypassed>>
  BY DEF Fail
<1>2. PICK pc \in {"saving"} \cup Sweep : At(h, pc)
  BY DEF Fail
<1>3. s \in Ship
  BY <1>2, AtWork
<1>4. Core' /\ Made' = Made /\ Ended(h) /\ raced \subseteq raced' /\ raced' \subseteq Ship
  BY FailCore
<1>5. TypeOK'
  BY <1>1, <1>3, <1>4, EndedFrame DEF IInv, TypeOK
<1>6. Placed'
  BY <1>1, <1>4, EndedPlaced
<1>7. CacheFresh'
  <2>1. ASSUME NEW o \in Ship, cached[o] = "old"
        PROVE  o \in excused' \/ \E x \in Handler : ShipOf(x)' = o /\ At(x, "invalidating")'
    <3>1. o \in excused \/ \E x \in Handler : ShipOf(x) = o /\ At(x, "invalidating")
      BY <2>1 DEF IInv, CacheFresh
    <3>2. CASE o = s /\ At(h, "invalidating")
      BY <3>2, <2>1, <1>1 DEF None
    <3>3. CASE ~(o = s /\ At(h, "invalidating"))
      BY <3>1, <3>3, <1>1, <1>4, EndedFrame
    <3>. QED
      BY <3>2, <3>3
  <2>. QED
    BY <2>1, <1>1 DEF CacheFresh
<1>. QED
  BY <1>4, <1>5, <1>6, <1>7 DEF IInv


----------------------------------------------------------------------------
(* Cached reads *)

LEMMA ReadKeeps ==
  ASSUME IInv, NEW g \in Reader, (\E s \in Busy : Miss(g, s)) \/ DbRead(g)
  PROVE  IInv'
<1>1. UNCHANGED <<status, number, last, live, cached, making, track, edit, swept, history>>
  BY DEF Miss, DbRead
<1>2. Core' /\ Made' = Made
  BY <1>1, CoreQuiet DEF IInv, coreVars, history
<1>3. /\ get' \in [Reader -> [pc : {"idle", "reading", "filling"}, ship : Ship \cup {None}, copy : Copy]]
      /\ \A x \in Reader : get'[x].pc # "idle" => get'[x].ship \in Made
  <2>1. CASE \E s \in Busy : Miss(g, s)
    <3>1. PICK s \in Busy : /\ s \in Made /\ s \in Ship
                            /\ get' = [get EXCEPT ![g] = [pc |-> "reading", ship |-> s, copy |-> None]]
      BY <2>1 DEF Miss, Made
    <3>. QED
      BY <3>1 DEF IInv, TypeOK, Placed, Copy
  <2>2. CASE DbRead(g)
    <3>1. /\ get[g].pc = "reading"
          /\ get' = [get EXCEPT ![g] = [get[g] EXCEPT !.pc = "filling", !.copy = "current"]]
      BY <2>2 DEF DbRead, IInv, TypeOK
    <3>2. get[g] \in [pc : {"idle", "reading", "filling"}, ship : Ship \cup {None}, copy : Copy]
      BY DEF IInv, TypeOK
    <3>3. /\ [get[g] EXCEPT !.pc = "filling", !.copy = "current"]
               \in [pc : {"idle", "reading", "filling"}, ship : Ship \cup {None}, copy : Copy]
          /\ [get[g] EXCEPT !.pc = "filling", !.copy = "current"].ship = get[g].ship
      BY <3>2 DEF Copy
    <3>. QED
      BY <3>1, <3>3 DEF IInv, TypeOK, Placed
  <2>. QED
    BY <2>1, <2>2
<1>4. TypeOK' /\ Placed' /\ CacheFresh'
  BY <1>1, <1>2, <1>3 DEF IInv, TypeOK, Placed, CacheFresh, ShipOf, At, history
<1>. QED
  BY <1>2, <1>4 DEF IInv

LEMMA FillKeeps ==
  ASSUME IInv, NEW g \in Reader, Fill(g), NEW s, s = get[g].ship
  PROVE  IInv'
<1>1. /\ get[g].pc = "filling" /\ cached' = [cached EXCEPT ![s] = get[g].copy]
      /\ excused' = IF get[g].copy = "old" THEN excused \cup {s} ELSE excused \ {s}
      /\ get' = [get EXCEPT ![g] = NoGet]
      /\ UNCHANGED <<status, number, last, live, making, track, edit, swept, bypassed, raced>>
  BY DEF Fill
<1>2. s \in Made /\ s \in Ship /\ get[g].copy \in Copy
  BY <1>1 DEF IInv, TypeOK, Placed, Made
<1>3. Core' /\ Made' = Made
  BY <1>1, CoreQuiet DEF IInv, coreVars
<1>4. get' \in [Reader -> [pc : {"idle", "reading", "filling"}, ship : Ship \cup {None}, copy : Copy]]
  BY <1>1 DEF IInv, TypeOK, NoGet, Copy
<1>5. TypeOK'
  BY <1>1, <1>2, <1>4 DEF IInv, TypeOK
<1>6. Placed'
  BY <1>1, <1>3 DEF IInv, TypeOK, Placed, NoGet
<1>7. CacheFresh'
  <2>1. \A h \in Handler : ShipOf(h)' = ShipOf(h) /\ At(h, "invalidating")' = At(h, "invalidating")
    BY <1>1 DEF ShipOf, At
  <2>2. cached'[s] = get[g].copy /\ \A o \in Ship : o # s => cached'[o] = cached[o]
    BY <1>1, <1>2 DEF IInv, TypeOK
  <2>. QED
    BY <2>1, <2>2, <1>1 DEF IInv, CacheFresh
<1>. QED
  BY <1>3, <1>5, <1>6, <1>7 DEF IInv

LEMMA ExpireKeeps ==
  ASSUME IInv, NEW s \in Ship, Expire(s)
  PROVE  IInv'
<1>1. /\ cached' = [cached EXCEPT ![s] = None] /\ excused' = excused \ {s}
      /\ UNCHANGED <<status, number, last, live, making, track, edit, get, swept, bypassed, raced>>
  BY DEF Expire
<1>2. Core' /\ Made' = Made
  BY <1>1, CoreQuiet DEF IInv, coreVars
<1>3. TypeOK' /\ Placed'
  BY <1>1, <1>2 DEF IInv, TypeOK, Placed, Copy
<1>4. CacheFresh'
  <2>1. \A h \in Handler : ShipOf(h)' = ShipOf(h) /\ At(h, "invalidating")' = At(h, "invalidating")
    BY <1>1 DEF ShipOf, At
  <2>2. cached'[s] # "old" /\ \A o \in Ship : o # s => cached'[o] = cached[o]
    BY <1>1 DEF IInv, TypeOK, None
  <2>. QED
    BY <2>1, <2>2, <1>1 DEF IInv, CacheFresh
<1>. QED
  BY <1>2, <1>3, <1>4 DEF IInv

----------------------------------------------------------------------------
(* The theorems *)

LEMMA StutterKeeps == IInv /\ UNCHANGED vars => IInv'
<1>. SUFFICES ASSUME IInv, UNCHANGED vars PROVE IInv'
  OBVIOUS
<1>1. Core' /\ Made' = Made
  BY CoreQuiet DEF IInv, vars, coreVars
<1>2. TypeOK' /\ Placed' /\ CacheFresh'
  BY <1>1 DEF IInv, TypeOK, Placed, CacheFresh, ShipOf, At, vars
<1>. QED
  BY <1>1, <1>2 DEF IInv

\* The inductive invariant holds throughout.
THEOREM Invariant == Spec => []IInv
<1>1. IInv /\ Next => IInv'
  BY CreateKeeps, DbCountKeeps, DbCreateKeeps, ExpireKeeps, DbFindKeeps, DbSaveKeeps, EditKeeps,
     DelKeyKeeps, ListKeysKeeps, DelKeysKeeps, FailKeeps, ReadKeeps, FillKeeps, CleanupKeeps
     DEF Next
<1>. QED
  BY InitIInv, <1>1, StutterKeeps, PTL DEF Spec

\* Every variable keeps its type.
THEOREM TypeCorrect == Spec => []TypeOK
BY Invariant, PTL DEF IInv

\* Shipment numbers run from 1 without a gap or a repetition, however many
\* creations overlap and whichever are refused.
THEOREM NumbersAreDense == Spec => []NumbersDense
BY Invariant, PTL DEF IInv, Core

\* Without overlapping tracking requests, and without a status set behind the
\* history's back, status and last event agree.
THEOREM StatusFollowsEvents == Spec => []StatusIsLastEvent
BY Invariant, PTL DEF IInv, Core

\* When no tracking request is at work, the stream's last word is the last
\* event, unless requests overlapped or failed past the save.
THEOREM StreamAgrees == Spec => []LiveAgreesAtRest
<1>1. IInv => LiveAgreesAtRest
  BY DEF IInv, Core, Lively, LiveAgreesAtRest, Tracking
<1>. QED
  BY Invariant, <1>1, PTL

\* An old copy in the cache is about to be deleted, or has one of the named
\* causes.
THEOREM CacheIsFresh == Spec => []CacheFresh
BY Invariant, PTL DEF IInv

\* The history of such a shipment takes only edges of the table: the status a
\* request has checked still is the last event when it saves.
THEOREM HistoryFollows == Spec => HistoryFollowsMachine
<1>. DEFINE Follows == \A s \in Ship \ (raced \cup bypassed) :
                         last[s] # None /\ last'[s] # last[s] => last'[s] \in Transitions[last[s]]
<1>1. ASSUME IInv, NEW t \in Tracker, DbSave(t), NEW s \in Ship \ (raced \cup bypassed),
             last'[s] # last[s]
      PROVE  last'[s] \in Transitions[last[s]]
  <2>1. s = track[t].ship /\ last'[s] = track[t].to /\ track[t].pc = "saving"
    BY <1>1 DEF DbSave, IInv, TypeOK
  <2>2. s \in Made
    BY <1>1, <2>1 DEF IInv, Placed
  <2>3. status[s] = last[s] /\ Checked(t)
    BY <1>1, <2>2 DEF IInv, Core, StatusIsLastEvent, Tracked
  <2>. QED
    BY <1>1, <2>1, <2>3 DEF Checked
<1>2. ASSUME IInv, NEW s \in Ship, DbCreate(s) PROVE Follows
  BY <1>2 DEF DbCreate, IInv, TypeOK, Core, Unmade
<1>3. IInv /\ Next => Follows \/ last' = last
  BY <1>1, <1>2
     DEF Next, Create, DbCount, Expire, DbFind, AssignCarrier, AttachDocument, DelKey, ListKeys, DelKeys,
         Fail, Miss, DbRead, Fill, CleanupStaleShipments, history
<1>4. IInv /\ [Next]_vars => [Follows]_vars
  BY <1>3 DEF vars
<1>. QED
  BY Invariant, <1>4, PTL DEF Spec, HistoryFollowsMachine

=============================================================================
