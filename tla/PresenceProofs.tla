--------------------------- MODULE PresenceProofs ---------------------------
(***************************************************************************)
(* What Presence guarantees for every set of users and sockets.            *)
(*                                                                         *)
(* ColumnRightAtRest speaks of states with no write in flight.  To carry   *)
(* it through the states in between, the inductive invariant says what a   *)
(* write running alone is about to leave behind (LoneWrite).               *)
(***************************************************************************)
EXTENDS Presence, TLAPS

\* A presence write of u is in flight in a gateway handler of socket s.
Connecting(s, u) == Owner[s] = u /\ conn[s] \in InFlight
Departing(s, u)  == Owner[s] = u /\ disc[s] \in InFlight

\* handleDisconnect of a socket slot is over before the slot is used again.
DepartedIsClosed == \A s \in connected : disc[s] = "idle"

\* What is known of a user whose flag is not suspect.
LoneWrite(u) ==
  /\ u \notin loggingIn
  /\ \A s, t \in Socket : Connecting(s, u) /\ Connecting(t, u) => s = t
  /\ \A s, t \in Socket : Departing(s, u) /\ Departing(t, u) => s = t
  /\ \A s, t \in Socket : ~(Connecting(s, u) /\ Departing(t, u))
  /\ \A s \in Socket : Connecting(s, u) => userSockets[u] # {}
  /\ \A s \in Socket : Departing(s, u) => userSockets[u] = {}
  /\ \A s \in Socket : Owner[s] = u /\ conn[s] = "written" => isOnline[u]
  /\ \A s \in Socket : Owner[s] = u /\ disc[s] = "written" => ~isOnline[u]
  /\ ~WritesInFlight(u, {}) => /\ isOnline[u] <=> userSockets[u] # {}
                               /\ announced[u] <=> isOnline[u]

IInv ==
  /\ TypeOK
  /\ RegistryExact
  /\ DepartedIsClosed
  /\ \A u \in User : ~suspect[u] => LoneWrite(u)

----------------------------------------------------------------------------
\* The initial state: nobody online, no handler running.
LEMMA InitIInv == Init => IInv
<1> SUFFICES ASSUME Init PROVE IInv
  OBVIOUS
<1>1. TypeOK
  BY DEF Init, TypeOK, ConnState, DiscState
<1>2. RegistryExact /\ DepartedIsClosed
  BY DEF Init, RegistryExact, DepartedIsClosed
<1>3. ASSUME NEW u \in User PROVE LoneWrite(u)
  BY DEF Init, LoneWrite, Connecting, Departing, InFlight
<1> QED
  BY <1>1, <1>2, <1>3 DEF IInv

\* Every variable keeps its type.
LEMMA StepTypeOK == TypeOK /\ [Next]_vars => TypeOK'
<1> SUFFICES ASSUME TypeOK, [Next]_vars PROVE TypeOK'
  OBVIOUS
<1> USE OwnerAssumption DEF TypeOK, ConnState, DiscState
<1>1. ASSUME NEW s \in Socket, Connect(s) PROVE TypeOK'
  BY <1>1 DEF Connect, WritesInFlight
<1>2. ASSUME NEW s \in Socket, Handle(s) PROVE TypeOK'
  <2>1. CASE WriteOnline(s)
    BY <2>1 DEF WriteOnline
  <2>2. CASE AnnounceOnline(s)
    BY <2>2 DEF AnnounceOnline
  <2>3. CASE JoinRooms(s)
    BY <2>3 DEF JoinRooms
  <2>4. CASE WriteOffline(s)
    BY <2>4 DEF WriteOffline
  <2>5. CASE AnnounceOffline(s)
    BY <2>5 DEF AnnounceOffline
  <2> QED
    BY <1>2, <2>1, <2>2, <2>3, <2>4, <2>5 DEF Handle
<1>3. ASSUME NEW s \in Socket, Close(s) PROVE TypeOK'
  BY <1>3 DEF Close, HandleDisconnect, WritesInFlight
<1>4. ASSUME NEW s \in Socket, FailConnection(s) PROVE TypeOK'
  <2>1. CASE s \in connected
    <3>1. HandleDisconnect(s, {s}) /\ conn' = [conn EXCEPT ![s] = "idle"]
      BY <1>4, <2>1 DEF FailConnection
    <3>2. userSockets' \in [User -> SUBSET Socket] /\ connected' \in SUBSET Socket
      BY <3>1 DEF HandleDisconnect
    <3>3. disc' \in [Socket -> DiscState] /\ suspect' \in [User -> BOOLEAN]
      BY <3>1 DEF HandleDisconnect, WritesInFlight
    <3> QED
      BY <1>4, <3>1, <3>2, <3>3 DEF FailConnection
  <2>2. CASE s \notin connected
    BY <1>4, <2>2 DEF FailConnection
  <2> QED
    BY <2>1, <2>2
<1>5. ASSUME NEW u \in User, Login(u) \/ WriteLogin(u) PROVE TypeOK'
  BY <1>5 DEF Login, WriteLogin
<1>6. CASE Crash
  BY <1>6 DEF Crash
<1>7. CASE UNCHANGED vars
  BY <1>7 DEF vars
<1> QED
  BY <1>1, <1>2, <1>3, <1>4, <1>5, <1>6, <1>7 DEF Next, Handle

\* The Map and the open sockets change together, and a slot is not reused
\* while its departure is under way.
LEMMA StepRegistry ==
  TypeOK /\ RegistryExact /\ DepartedIsClosed /\ [Next]_vars
    => (RegistryExact /\ DepartedIsClosed)'
<1> SUFFICES ASSUME TypeOK, RegistryExact, DepartedIsClosed, [Next]_vars
             PROVE  (RegistryExact /\ DepartedIsClosed)'
  OBVIOUS
<1> USE OwnerAssumption DEF TypeOK, RegistryExact, DepartedIsClosed
<1>1. ASSUME NEW s \in Socket, Connect(s) PROVE (RegistryExact /\ DepartedIsClosed)'
  BY <1>1 DEF Connect
<1>2. ASSUME NEW s \in Socket, Handle(s) PROVE (RegistryExact /\ DepartedIsClosed)'
  BY <1>2 DEF Handle, WriteOnline, AnnounceOnline, JoinRooms, WriteOffline, AnnounceOffline
<1>3. ASSUME NEW s \in Socket, Close(s) PROVE (RegistryExact /\ DepartedIsClosed)'
  BY <1>3 DEF Close, HandleDisconnect
<1>4. ASSUME NEW s \in Socket, FailConnection(s) PROVE (RegistryExact /\ DepartedIsClosed)'
  BY <1>4 DEF FailConnection, HandleDisconnect
<1>5. ASSUME NEW u \in User, Login(u) \/ WriteLogin(u)
      PROVE  (RegistryExact /\ DepartedIsClosed)'
  BY <1>5 DEF Login, WriteLogin
<1>6. CASE Crash
  BY <1>6 DEF Crash
<1>7. CASE UNCHANGED vars
  BY <1>7 DEF vars
<1> QED
  BY <1>1, <1>2, <1>3, <1>4, <1>5, <1>6, <1>7 DEF Next, Handle

----------------------------------------------------------------------------
\* A connection or departure that finds no other write of its user in flight
\* leaves exactly one, of the value that fits the new set of tabs; one that
\* finds another makes the flag suspect.
LEMMA StepLoneWrite ==
  IInv /\ [Next]_vars => \A u \in User : ~suspect'[u] => LoneWrite(u)'
<1> SUFFICES ASSUME IInv, [Next]_vars, NEW u \in User, ~suspect'[u]
             PROVE  LoneWrite(u)'
  OBVIOUS
<1> USE OwnerAssumption
<1>t. /\ TypeOK /\ RegistryExact /\ DepartedIsClosed
      /\ ~suspect[u] => LoneWrite(u)
  BY DEF IInv
<1>1. ASSUME NEW s \in Socket, Connect(s) PROVE LoneWrite(u)'
  <2>1. CASE Owner[s] # u
    BY <1>1, <1>t, <2>1 DEF Connect, LoneWrite, Connecting, Departing, InFlight, WritesInFlight, TypeOK
  <2>2. CASE Owner[s] = u
    <3>1. ~WritesInFlight(u, {})
      BY <1>1, <1>t, <2>2 DEF Connect, TypeOK
    <3>2. u \notin loggingIn' /\ userSockets'[u] # {}
      BY <1>1, <1>t, <2>2, <3>1 DEF Connect, TypeOK, WritesInFlight
    <3>3. \A t \in Socket : Connecting(t, u)' => t = s
      BY <1>1, <1>t, <2>2, <3>1 DEF Connect, TypeOK, WritesInFlight, Connecting
    <3>4. \A t \in Socket : ~Departing(t, u)'
      BY <1>1, <1>t, <2>2, <3>1 DEF Connect, TypeOK, WritesInFlight, Departing
    <3>5. WritesInFlight(u, {})' /\ conn'[s] = "writing"
      BY <1>1, <1>t, <2>2 DEF Connect, TypeOK, WritesInFlight, InFlight
    <3> QED
      BY <2>2, <3>2, <3>3, <3>4, <3>5 DEF LoneWrite, Connecting, Departing, InFlight
  <2> QED
    BY <2>1, <2>2
<1>2. ASSUME NEW s \in Socket, Handle(s) PROVE LoneWrite(u)'
  <2>1. LoneWrite(u)
    BY <1>2, <1>t DEF Handle, WriteOnline, AnnounceOnline, JoinRooms, WriteOffline, AnnounceOffline
  <2>2. CASE WriteOnline(s)
    BY <1>t, <2>1, <2>2 DEF WriteOnline, LoneWrite, Connecting, Departing, InFlight, WritesInFlight, TypeOK
  <2>3. CASE AnnounceOnline(s)
    BY <1>t, <2>1, <2>3 DEF AnnounceOnline, LoneWrite, Connecting, Departing, InFlight, WritesInFlight, TypeOK
  <2>4. CASE JoinRooms(s)
    BY <1>t, <2>1, <2>4 DEF JoinRooms, LoneWrite, Connecting, Departing, InFlight, WritesInFlight, TypeOK
  <2>5. CASE WriteOffline(s)
    BY <1>t, <2>1, <2>5 DEF WriteOffline, LoneWrite, Connecting, Departing, InFlight, WritesInFlight, TypeOK
  <2>6. CASE AnnounceOffline(s)
    BY <1>t, <2>1, <2>6 DEF AnnounceOffline, LoneWrite, Connecting, Departing, InFlight, WritesInFlight, TypeOK
  <2> QED
    BY <1>2, <2>2, <2>3, <2>4, <2>5, <2>6 DEF Handle
<1>3. ASSUME NEW s \in Socket, Close(s) PROVE LoneWrite(u)'
  <2>1. CASE Owner[s] # u
    BY <1>3, <1>t, <2>1 DEF Close, HandleDisconnect, LoneWrite, Connecting, Departing, InFlight, WritesInFlight, TypeOK
  <2>2. CASE Owner[s] = u /\ userSockets[u] \ {s} # {}
    BY <1>3, <1>t, <2>2 DEF Close, HandleDisconnect, LoneWrite, Connecting, Departing, InFlight, WritesInFlight, TypeOK
  <2>3. CASE Owner[s] = u /\ userSockets[u] \ {s} = {}
    BY <1>3, <1>t, <2>3 DEF Close, HandleDisconnect, LoneWrite, Connecting, Departing, InFlight, WritesInFlight, TypeOK
  <2> QED
    BY <2>1, <2>2, <2>3
<1>4. ASSUME NEW s \in Socket, FailConnection(s) PROVE LoneWrite(u)'
  <2>1. CASE Owner[s] # u
    BY <1>4, <1>t, <2>1 DEF FailConnection, HandleDisconnect, LoneWrite, Connecting, Departing, InFlight, WritesInFlight, TypeOK
  <2>2. CASE Owner[s] = u
    <3>1. s \in connected /\ userSockets[u] \ {s} = {}
      BY <1>4, <1>t, <2>2 DEF FailConnection, HandleDisconnect, TypeOK
    <3>2. ~WritesInFlight(u, {s}) /\ disc'[s] = "writing" /\ userSockets'[u] = {}
      BY <1>4, <1>t, <2>2, <3>1 DEF FailConnection, HandleDisconnect, TypeOK
    <3> QED
      BY <1>4, <1>t, <2>2, <3>1, <3>2 DEF FailConnection, HandleDisconnect, LoneWrite, Connecting, Departing, InFlight, WritesInFlight, TypeOK
  <2> QED
    BY <2>1, <2>2
<1>5. ASSUME NEW v \in User, Login(v) \/ WriteLogin(v) PROVE LoneWrite(u)'
  BY <1>5, <1>t DEF Login, WriteLogin, LoneWrite, Connecting, Departing, InFlight, WritesInFlight, TypeOK
<1>6. CASE Crash
  BY <1>6 DEF Crash
<1>7. CASE UNCHANGED vars
  BY <1>7, <1>t DEF vars, LoneWrite, Connecting, Departing, WritesInFlight
<1> QED
  BY <1>1, <1>2, <1>3, <1>4, <1>5, <1>6, <1>7 DEF Next, Handle

\* The inductive invariant holds throughout.
THEOREM Invariance == Spec => []IInv
<1>1. IInv /\ [Next]_vars => IInv'
  BY StepTypeOK, StepRegistry, StepLoneWrite DEF IInv
<1> QED
  BY InitIInv, <1>1, PTL DEF Spec

----------------------------------------------------------------------------
\* Every variable has its type in every reachable state.
THEOREM TypeCorrect == Spec => []TypeOK
BY Invariance, PTL DEF IInv

\* ChatGateway.userSockets never forgets an open tab nor keeps a closed one.
THEOREM RegistryIsExact == Spec => []RegistryExact
BY Invariance, PTL DEF IInv

\* users.isOnline is right at rest unless its writes raced, failed or were lost.
THEOREM ColumnIsRightAtRest == Spec => []ColumnRightAtRest
<1>1. IInv => ColumnRightAtRest
  BY DEF IInv, ColumnRightAtRest, LoneWrite
<1> QED
  BY Invariance, <1>1, PTL

\* Under the same condition the last broadcast says what the column says.
THEOREM BroadcastIsRightAtRest == Spec => []BroadcastAgreesAtRest
<1>1. IInv => BroadcastAgreesAtRest
  BY DEF IInv, BroadcastAgreesAtRest, LoneWrite
<1> QED
  BY Invariance, <1>1, PTL

\* user_offline for a user with an open tab needs a tab opened during the
\* offline write.
THEOREM OfflineNeedsRace == Spec => OfflineOnlyWhenRaced
<1>1. ASSUME IInv, [Next]_vars, NEW u \in User,
             announced[u], ~announced'[u], userSockets[u] # {}
      PROVE  suspect[u]
  <2>1. PICK s \in Socket : AnnounceOffline(s)
    BY <1>1 DEF Next, vars, Connect, WriteOnline, AnnounceOnline, JoinRooms, Close,
                FailConnection, WriteOffline, Login, WriteLogin, Crash, IInv, TypeOK
  <2>2. Owner[s] = u
    BY <1>1, <2>1, OwnerAssumption DEF AnnounceOffline, IInv, TypeOK
  <2>3. Departing(s, u)
    BY <2>1, <2>2 DEF AnnounceOffline, Departing, InFlight
  <2> QED
    BY <1>1, <2>3 DEF IInv, LoneWrite
<1>2. IInv /\ [Next]_vars =>
        [\A u \in User :
           announced[u] /\ ~announced'[u] /\ userSockets[u] # {} => suspect[u]]_vars
  BY <1>1
<1> QED
  BY Invariance, <1>2, PTL DEF Spec, OfflineOnlyWhenRaced
=============================================================================
