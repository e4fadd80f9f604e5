-------------------------- MODULE DirectoryProofs --------------------------
(***************************************************************************)
(* What Directory, Accounts, Reports and Paging guarantee for every set of *)
(* ids, names, requests, calls and rows, and every consistent database to  *)
(* start from.                                                             *)
(*                                                                         *)
(* None of the promises is inductive by itself: that a writing request has *)
(* authority rests on the row read at its start still being the row, or    *)
(* the request being in shifted; that a department is empty when deleted,  *)
(* on the count still holding, or the request being in filled; that the    *)
(* audit log is complete, on where each request stands between its write   *)
(* and its audit row; that an account was entitled to what it was given,   *)
(* on what each call has read so far; that a report adds up, on the        *)
(* figures it has taken; that a walk misses no row, on how many rows stand *)
(* before it and how many the pages so far have skipped.                   *)
(***************************************************************************)
EXTENDS Directory, Accounts, Paging, Reports, FiniteSetTheorems, SequenceTheorems, TLAPS

\* What the parts of a call are, by its operation.
CallTyped(c) ==
  /\ c.op \in Op
  /\ c.op \in OnUser \cup {"createEmployee"} => c.on \in User
  /\ c.op \in OnDepartment => c.on \in Department
  /\ c.op \in OnEmployee => c.on \in Employee
  /\ c.op = "createDepartment" => c.on = None
  /\ c.op = "updateUser" => c.to \in Role
  /\ c.op \in {"createDepartment", "updateDepartment"} => c.to \in Name
  /\ c.op \in {"createEmployee", "updateEmployee", "assignDepartment", "removeDepartment"}
       => c.to \in Department \cup {None}
  /\ c.op = "assignManager" => c.to \in Employee
  /\ c.op = "removeManager" => c.to = None

\* The operations with a second look.
LookedUp == {"createDepartment", "updateDepartment", "assignDepartment", "assignManager"}

\* A request that was made is a call of a user; a service's own check keeps it
\* from writing that someone manages themselves.
CallsKept ==
  \A r \in Request : ~At(r, "new") =>
    /\ CallTyped(req[r])
    /\ req[r].by \in User
    /\ req[r].op = "assignManager" /\ req[r].pc \in InFlight => req[r].on # req[r].to
    /\ At(r, "checking") => req[r].op \in LookedUp

\* In flight, the row read at the start is the user's row unless it has changed.
Standing ==
  \A r \in Request : req[r].pc \in InFlight =>
    /\ r \notin shifted => user[req[r].by].active /\ user[req[r].by].role = req[r].role
    /\ req[r].op # "updateUser" => req[r].role \in Roles(req[r].op)
    /\ Writing(r, "updateUser") => req[r].role = "ADMIN"

\* A deletion that is about to write has counted nobody, and nobody came.
CountedNobody ==
  \A r \in Request : Writing(r, "deleteDepartment") /\ r \notin filled
    => Members(req[r].on) = {}

\* Only a request that has changed a row awaits its audit row.
AuditPending ==
  \A r \in Request :
    /\ req[r].pc \in {"new", "finding", "checking", "writing", "refused"} => r \notin applied
    /\ At(r, "logging") => r \in applied

----------------------------------------------------------------------------
(* Where a request goes *)

LEMMA CallsAreTyped == \A c \in Call : CallTyped(c) /\ c.op \in Op
  <1>1. \A c \in Asked : CallTyped(c)
    BY DEF Asked, CallTyped, Op, OnUser, OnDepartment, OnEmployee
  <1> QED BY <1>1, CallAssumption DEF CallTyped

\* Every step but Authenticate only moves a request on, to the write only past
\* the service's checks.
Moves(r) ==
  /\ req[r].pc \in InFlight
  /\ \E pc \in PC \ {"new", "finding"} :
       /\ Goto(r, pc)
       /\ pc = "checking" => req[r].op \in LookedUp
       /\ pc = "writing" => At(r, "checking") \/ (At(r, "finding") /\ ~Refused(r))

LEMMA StepsMove ==
  ASSUME NEW r \in Request,
         \/ DbFind(r) \/ DbCheck(r) \/ DbCreateDepartment(r) \/ DbUpdateDepartment(r)
         \/ DbDeleteDepartment(r) \/ DbCreateEmployee(r) \/ DbSetDepartment(r)
         \/ DbSetManager(r) \/ DbDeleteEmployee(r) \/ DbUpdateUser(r) \/ DbDeleteUser(r)
         \/ DbLog(r) \/ Fail(r)
  PROVE  Moves(r)
  <1>1. CASE DbFind(r)
    BY <1>1 DEF DbFind, Moves, PC, InFlight, At, LookedUp
  <1>2. CASE DbCheck(r)
    BY <1>2 DEF DbCheck, Moves, PC, InFlight, At
  <1>3. CASE DbCreateDepartment(r)
    BY <1>3 DEF DbCreateDepartment, Moves, PC, InFlight, At, Writing, Refuse, Applied
  <1>4. CASE DbUpdateDepartment(r)
    BY <1>4 DEF DbUpdateDepartment, Moves, PC, InFlight, At, Writing, Refuse, Applied
  <1>5. CASE DbDeleteDepartment(r)
    BY <1>5 DEF DbDeleteDepartment, Moves, PC, InFlight, At, Writing, Refuse, Applied
  <1>6. CASE DbCreateEmployee(r)
    BY <1>6 DEF DbCreateEmployee, Moves, PC, InFlight, At, Writing, Refuse, Applied
  <1>7. CASE DbSetDepartment(r)
    BY <1>7 DEF DbSetDepartment, Moves, PC, InFlight, At, Refuse, Applied
  <1>8. CASE DbSetManager(r)
    BY <1>8 DEF DbSetManager, Moves, PC, InFlight, At, Refuse, Applied
  <1>9. CASE DbDeleteEmployee(r)
    BY <1>9 DEF DbDeleteEmployee, Moves, PC, InFlight, At, Writing, Refuse, Applied
  <1>10. CASE DbUpdateUser(r)
    BY <1>10 DEF DbUpdateUser, Moves, PC, InFlight, At, Refuse, Applied
  <1>11. CASE DbDeleteUser(r)
    BY <1>11 DEF DbDeleteUser, Moves, PC, InFlight, At, Writing, Refuse, Applied
  <1>12. CASE DbLog(r)
    BY <1>12 DEF DbLog, Moves, PC, InFlight, At, Refuse
  <1>13. CASE Fail(r)
    BY <1>13 DEF Fail, Moves, PC, InFlight
  <1> QED BY <1>1, <1>2, <1>3, <1>4, <1>5, <1>6, <1>7, <1>8, <1>9, <1>10, <1>11, <1>12, <1>13

\* What a move leaves alone.
LEMMA GotoFacts ==
  ASSUME TypeOK, NEW r \in Request, NEW pc \in PC, Goto(r, pc)
  PROVE  /\ \A x \in Request : x # r => req'[x] = req[x]
         /\ req'[r].op = req[r].op /\ req'[r].on = req[r].on /\ req'[r].to = req[r].to
         /\ req'[r].by = req[r].by /\ req'[r].role = req[r].role /\ req'[r].pc = pc
         /\ req' \in [Request -> Handler]
  BY DEF TypeOK, Goto, Handler

\* What the guards set up.
LEMMA AuthenticateFacts ==
  ASSUME TypeOK, NEW r \in Request, NEW u \in User, NEW c \in Call, Authenticate(r, u, c)
  PROVE  /\ \A x \in Request : x # r => req'[x] = req[x]
         /\ req'[r].op = c.op /\ req'[r].on = c.on /\ req'[r].to = c.to
         /\ req'[r].by = u /\ req'[r].role \in {user[u].role, None}
         /\ req'[r].pc \in {"finding", "checking", "writing", "refused"}
         /\ req'[r].pc # "refused"
              => ReachesController /\ Admitted(u, c.op) /\ req'[r].role = user[u].role
         /\ req'[r].pc = "checking" => c.op \in LookedUp
         /\ req'[r].pc = "writing" => c.op = "createEmployee"
         /\ c.op = "assignManager" /\ req'[r].pc # "refused" => c.on # c.to
         /\ At(r, "new") /\ UNCHANGED <<rows, log, hist>>
  BY DEF TypeOK, Authenticate, FirstQuery, Handler, LookedUp

----------------------------------------------------------------------------
(* Types, and what requests carry *)

LEMMA InitTyped == Init => TypeOK /\ CallsKept
  BY SeedAssumption, IdAssumption
  DEF Init, TypeOK, CallsKept, At, PC, Handler, Id, None

LEMMA NextCalls == TypeOK /\ CallsKept /\ [Next]_vars => CallsKept'
<1> SUFFICES ASSUME TypeOK, CallsKept, [Next]_vars  PROVE CallsKept'
  OBVIOUS
<1>1. CASE UNCHANGED vars
  BY <1>1 DEF vars, CallsKept, CallTyped, At
<1>2. ASSUME NEW r \in Request, NEW u \in User, NEW c \in Call, Authenticate(r, u, c)
      PROVE  CallsKept'
  <2>1. CallTyped(c)
    BY CallsAreTyped
  <2>2. CallTyped(req[r])'
    BY <1>2, <2>1, AuthenticateFacts DEF CallTyped
  <2> QED BY <1>2, <2>2, AuthenticateFacts DEF CallsKept, CallTyped, At, InFlight
<1>3. ASSUME NEW r \in Request, Moves(r)  PROVE CallsKept'
  <2>1. PICK pc \in PC \ {"new", "finding"} :
         Goto(r, pc) /\ (pc = "checking" => req[r].op \in LookedUp)
    BY <1>3 DEF Moves
  <2>2. CallTyped(req[r]) /\ req[r].by \in User
        /\ (req[r].op = "assignManager" => req[r].on # req[r].to)
    BY <1>3 DEF Moves, CallsKept, At, InFlight
  <2>3. CallTyped(req[r])'
    BY <2>1, <2>2, GotoFacts DEF CallTyped
  <2> QED BY <2>1, <2>2, <2>3, GotoFacts DEF CallsKept, CallTyped, At
<1> QED BY <1>1, <1>2, <1>3, StepsMove DEF Next

LEMMA AccountWrites ==
  /\ NoUser \in Account
  /\ \A a \in Account :
       /\ \A to \in Role : [a EXCEPT !.role = to] \in Account
       /\ [a EXCEPT !.active = FALSE] \in Account /\ [a EXCEPT !.active = TRUE] \in Account
  BY DEF Account, NoUser

LEMMA NextTyped == TypeOK /\ CallsKept /\ [Next]_vars => TypeOK'
<1> SUFFICES ASSUME TypeOK, CallsKept, [Next]_vars  PROVE TypeOK'
  OBVIOUS
<1>1. CASE UNCHANGED vars
  BY <1>1 DEF vars, TypeOK
<1>2. ASSUME NEW r \in Request, NEW u \in User, NEW c \in Call, Authenticate(r, u, c)
      PROVE  TypeOK'
  <2>1. /\ c.op \in Op /\ c.on \in Id \cup {None}
        /\ c.to \in Id \cup Name \cup Role \cup {None}
        /\ FirstQuery(c) \in PC
    BY CallAssumption
    DEF Asked, Id, Op, OnUser, OnEmployee, OnDepartment, FirstQuery, PC
  <2>2. user[u].role \in Role \cup {None}
    BY DEF TypeOK, Account
  <2> QED BY <1>2, <2>1, <2>2 DEF TypeOK, Authenticate, Handler, PC, rows, hist
<1>3. ASSUME NEW r \in Request, req[r].pc \in InFlight,
             NEW pc \in PC, Goto(r, pc), UNCHANGED <<rows, log, applied, shifted, filled>>,
             cut' \in SUBSET Request
      PROVE  TypeOK'
  BY <1>3, GotoFacts DEF TypeOK, rows
<1>4. ASSUME NEW r \in Request, Refuse(r)  PROVE TypeOK'
  BY <1>4, GotoFacts DEF TypeOK, Refuse, rows, hist, PC
<1>5. ASSUME NEW r \in Request, Applied(r), req[r].pc \in InFlight
      PROVE  applied' \subseteq Request /\ CallTyped(req[r])
             /\ req' \in [Request -> Handler]
  BY <1>5, GotoFacts DEF TypeOK, Applied, PC, CallsKept, At, InFlight
<1> USE DEF InFlight
<1>6. ASSUME NEW r \in Request, DbFind(r)  PROVE TypeOK'
  BY <1>6, GotoFacts DEF TypeOK, DbFind, rows, hist, PC
<1>7. ASSUME NEW r \in Request, DbCheck(r)  PROVE TypeOK'
  BY <1>7, GotoFacts DEF TypeOK, DbCheck, rows, hist, PC
<1>8. ASSUME NEW r \in Request, DbCreateDepartment(r)  PROVE TypeOK'
  BY <1>4, <1>5, <1>8 DEF TypeOK, DbCreateDepartment, Writing, At, CallTyped, Id
<1>9. ASSUME NEW r \in Request, DbUpdateDepartment(r)  PROVE TypeOK'
  BY <1>4, <1>5, <1>9 DEF TypeOK, DbUpdateDepartment, Writing, At, CallTyped
<1>10. ASSUME NEW r \in Request, DbDeleteDepartment(r)  PROVE TypeOK'
  BY <1>4, <1>5, <1>10 DEF TypeOK, DbDeleteDepartment, Writing, At, CallTyped, Members, Profile
<1>11. ASSUME NEW r \in Request, DbCreateEmployee(r)  PROVE TypeOK'
  BY <1>4, <1>5, <1>11 DEF TypeOK, DbCreateEmployee, Writing, At, CallTyped, Deleting, Id, Profile
<1>12. ASSUME NEW r \in Request, DbSetDepartment(r)  PROVE TypeOK'
  BY <1>4, <1>5, <1>12
  DEF TypeOK, DbSetDepartment, At, CallTyped, Deleting, OnEmployee, Profile
<1>13. ASSUME NEW r \in Request, DbSetManager(r)  PROVE TypeOK'
  BY <1>4, <1>5, <1>13 DEF TypeOK, DbSetManager, At, CallTyped, OnEmployee, Profile
<1>14. ASSUME NEW r \in Request, DbDeleteEmployee(r)  PROVE TypeOK'
  BY <1>4, <1>5, <1>14 DEF TypeOK, DbDeleteEmployee, Writing, At, Without, NoEmployee, Profile
<1>15. ASSUME NEW r \in Request, DbUpdateUser(r)  PROVE TypeOK'
  <2>1. CASE Refuse(r)
    BY <1>4, <2>1
  <2>2. CASE ~Refuse(r)
    <3>1. req[r].on \in User /\ (req[r].op = "updateUser" => req[r].to \in Role)
      BY <1>5, <1>15, <2>2 DEF DbUpdateUser, At, CallTyped, OnUser
    <3>2. user' \in [User -> Account]
      <4>1. user[req[r].on] \in Account
        BY <3>1 DEF TypeOK
      <4>2. CASE req[r].op = "updateUser"
        <5>1. user' = [user EXCEPT ![req[r].on] = [user[req[r].on] EXCEPT !.role = req[r].to]]
          BY <1>15, <2>2, <4>2 DEF DbUpdateUser
        <5> QED BY <3>1, <4>1, <4>2, <5>1, AccountWrites DEF TypeOK
      <4>3. CASE req[r].op = "deactivate"
        BY <1>15, <2>2, <3>1, <4>1, <4>3, AccountWrites DEF TypeOK, DbUpdateUser
      <4>4. CASE req[r].op = "activate"
        BY <1>15, <2>2, <3>1, <4>1, <4>4, AccountWrites DEF TypeOK, DbUpdateUser
      <4> QED BY <1>15, <4>2, <4>3, <4>4 DEF DbUpdateUser
    <3>3. Applied(r) /\ req[r].pc \in InFlight /\ shifted' = shifted \cup Of(req[r].on)
          /\ UNCHANGED <<dept, emp, used, log, cut, filled>>
      BY <1>15, <2>2 DEF DbUpdateUser, At
    <3>4. Of(req[r].on) \subseteq Request
      BY DEF Of
    <3> QED BY <1>5, <3>2, <3>3, <3>4 DEF TypeOK
  <2> QED BY <2>1, <2>2
<1>16. ASSUME NEW r \in Request, DbDeleteUser(r)  PROVE TypeOK'
  <2>1. CASE Refuse(r)
    BY <1>4, <2>1
  <2>2. CASE ~Refuse(r)
    <3>1. user' \in [User -> Account] /\ emp' \in [Employee -> Profile]
          /\ log' \in [Request -> User \cup {None}]
      BY <1>16, <2>2, AccountWrites DEF TypeOK, DbDeleteUser, Profile, Without, NoEmployee
    <3>2. Applied(r) /\ req[r].pc \in InFlight /\ shifted' = shifted \cup Of(req[r].on)
          /\ UNCHANGED <<dept, used, cut, filled>>
      BY <1>16, <2>2 DEF DbDeleteUser, Writing, At
    <3>3. Of(req[r].on) \subseteq Request
      BY DEF Of
    <3> QED BY <1>5, <3>1, <3>2, <3>3 DEF TypeOK
  <2> QED BY <2>1, <2>2
<1>17. ASSUME NEW r \in Request, DbLog(r)  PROVE TypeOK'
  <2>1. req[r].by \in User
    BY <1>17 DEF DbLog, CallsKept, At
  <2> QED BY <1>4, <1>17, <2>1, GotoFacts DEF TypeOK, DbLog, Auditor, rows, hist, PC
<1>18. ASSUME NEW r \in Request, Fail(r)  PROVE TypeOK'
  BY <1>3, <1>18 DEF Fail, PC, TypeOK
<1> QED
  BY <1>1, <1>2, <1>6, <1>7, <1>8, <1>9, <1>10, <1>11, <1>12, <1>13, <1>14, <1>15, <1>16,
     <1>17, <1>18
  DEF Next

----------------------------------------------------------------------------
(* Authority *)

\* A step that leaves users alone keeps Standing.
LEMMA StandingQuiet ==
  ASSUME TypeOK, CallsKept, Standing, NEW r \in Request, Moves(r),
         UNCHANGED <<user, shifted>>
  PROVE  Standing'
<1>1. PICK pc \in PC \ {"new", "finding"} :
        /\ Goto(r, pc)
        /\ pc = "checking" => req[r].op \in LookedUp
        /\ pc = "writing" => At(r, "checking") \/ (At(r, "finding") /\ ~Refused(r))
  BY DEF Moves
<1>2. ASSUME NEW x \in Request, x # r, req'[x].pc \in InFlight
      PROVE  /\ x \notin shifted' => user'[req'[x].by].active /\ user'[req'[x].by].role = req'[x].role
             /\ req'[x].op # "updateUser" => req'[x].role \in Roles(req'[x].op)
             /\ Writing(x, "updateUser")' => req'[x].role = "ADMIN"
  BY <1>1, <1>2, GotoFacts DEF Standing, Writing, At
<1>3. ASSUME req'[r].pc \in InFlight
      PROVE  /\ r \notin shifted' => user'[req'[r].by].active /\ user'[req'[r].by].role = req'[r].role
             /\ req'[r].op # "updateUser" => req'[r].role \in Roles(req'[r].op)
             /\ Writing(r, "updateUser")' => req'[r].role = "ADMIN"
  <2>1. Writing(r, "updateUser")' => req[r].role = "ADMIN"
    BY <1>1, GotoFacts DEF Writing, At, Refused, CallsKept, LookedUp
  <2> QED BY <1>1, <2>1, GotoFacts DEF Standing, Moves
<1> QED BY <1>2, <1>3 DEF Standing, InFlight

\* A user whose row changes takes the requests in flight along.
LEMMA StandingShifted ==
  ASSUME TypeOK, CallsKept, Standing, NEW r \in Request, At(r, "writing"),
         Goto(r, "logging"), shifted' = shifted \cup Of(req[r].on),
         \A u \in User : u # req[r].on => user'[u] = user[u]
  PROVE  Standing'
<1>1. ASSUME NEW x \in Request, req'[x].pc \in InFlight, x \notin shifted'
      PROVE  user'[req'[x].by].active /\ user'[req'[x].by].role = req'[x].role
  <2>1. req[x].pc \in InFlight /\ req[x].by \in User
        /\ req'[x].by = req[x].by /\ req'[x].role = req[x].role
    BY <1>1, GotoFacts DEF At, InFlight, PC, CallsKept
  <2>2. req[x].by # req[r].on
    BY <1>1, <2>1 DEF Of
  <2> QED BY <1>1, <2>1, <2>2 DEF Standing
<1>2. ASSUME NEW x \in Request, req'[x].pc \in InFlight
      PROVE  /\ req'[x].op # "updateUser" => req'[x].role \in Roles(req'[x].op)
             /\ Writing(x, "updateUser")' => req'[x].role = "ADMIN"
  <2>1. CASE x = r
    BY <2>1, GotoFacts DEF At, InFlight, PC, Standing, Writing
  <2>2. CASE x # r
    BY <1>2, <2>2, GotoFacts DEF At, PC, Standing, Writing
  <2> QED BY <2>1, <2>2
<1> QED BY <1>1, <1>2 DEF Standing, InFlight

LEMMA NextStanding == TypeOK /\ CallsKept /\ Standing /\ [Next]_vars => Standing'
<1> SUFFICES ASSUME TypeOK, CallsKept, Standing, [Next]_vars  PROVE Standing'
  OBVIOUS
<1>1. CASE UNCHANGED vars
  BY <1>1 DEF vars, Standing, Writing, At
<1>2. ASSUME NEW r \in Request, NEW u \in User, NEW c \in Call, Authenticate(r, u, c)
      PROVE  Standing'
  <2>1. ASSUME req'[r].pc \in InFlight
        PROVE  /\ user'[req'[r].by].active /\ user'[req'[r].by].role = req'[r].role
               /\ req'[r].op # "updateUser" => req'[r].role \in Roles(req'[r].op)
               /\ ~Writing(r, "updateUser")'
    BY <1>2, <2>1, AuthenticateFacts DEF Admitted, Writing, At, InFlight, rows
  <2>2. \A x \in Request : x # r => req'[x] = req[x]
    BY <1>2, AuthenticateFacts
  <2>3. UNCHANGED <<user, shifted>>
    BY <1>2 DEF Authenticate, rows, hist
  <2> QED BY <2>1, <2>2, <2>3 DEF Standing, Writing, At
<1>3. ASSUME NEW r \in Request, DbUpdateUser(r)  PROVE Standing'
  <2>1. CASE Refuse(r)
    BY <1>3, <2>1, StepsMove, StandingQuiet DEF Refuse, rows, hist
  <2>2. CASE ~Refuse(r)
    BY <1>3, <2>2, StandingShifted DEF DbUpdateUser, Applied, TypeOK
  <2> QED BY <2>1, <2>2
<1>4. ASSUME NEW r \in Request, DbDeleteUser(r)  PROVE Standing'
  <2>1. CASE Refuse(r)
    BY <1>4, <2>1, StepsMove, StandingQuiet DEF Refuse, rows, hist
  <2>2. CASE ~Refuse(r)
    BY <1>4, <2>2, StandingShifted DEF DbDeleteUser, Writing, Applied, TypeOK
  <2> QED BY <2>1, <2>2
<1>5. ASSUME NEW r \in Request,
             \/ DbFind(r) \/ DbCheck(r) \/ DbCreateDepartment(r) \/ DbUpdateDepartment(r)
             \/ DbDeleteDepartment(r) \/ DbCreateEmployee(r) \/ DbSetDepartment(r)
             \/ DbSetManager(r) \/ DbDeleteEmployee(r) \/ DbLog(r) \/ Fail(r)
      PROVE  Standing'
  <2>1. UNCHANGED <<user, shifted>>
    BY <1>5 DEF DbFind, DbCheck, DbCreateDepartment, DbUpdateDepartment, DbDeleteDepartment,
      DbCreateEmployee, DbSetDepartment, DbSetManager, DbDeleteEmployee, DbLog, Fail,
      Refuse, Applied, rows, hist
  <2> QED BY <1>5, <2>1, StepsMove, StandingQuiet
<1> QED BY <1>1, <1>2, <1>3, <1>4, <1>5 DEF Next

----------------------------------------------------------------------------
(* Departments are deleted empty *)

\* A step after which nobody is in a department who was not there before.
LEMMA CountedQuiet ==
  ASSUME TypeOK, CallsKept, CountedNobody, NEW r \in Request, Moves(r), UNCHANGED filled,
         \A d \in Department : Members(d)' \subseteq Members(d)
  PROVE  CountedNobody'
<1>1. PICK pc \in PC \ {"new", "finding"} :
        /\ Goto(r, pc)
        /\ pc = "writing" => At(r, "checking") \/ (At(r, "finding") /\ ~Refused(r))
  BY DEF Moves
<1>2. ASSUME NEW x \in Request, Writing(x, "deleteDepartment")', x \notin filled
      PROVE  Members(req[x].on)' = {}
  <2>1. req[x].on \in Department /\ req'[x].on = req[x].on /\ req[x].op = "deleteDepartment"
    BY <1>1, <1>2, GotoFacts
    DEF Writing, At, Moves, InFlight, CallsKept, CallTyped, OnDepartment
  <2>2. Members(req[x].on) = {}
    BY <1>1, <1>2, <2>1, GotoFacts DEF Writing, At, CountedNobody, CallsKept, LookedUp, Refused
  <2>3. {e \in Employee : emp'[e].dept = req[x].on} \subseteq Members(req[x].on)
    BY <2>1 DEF Members
  <2> QED BY <2>1, <2>2, <2>3 DEF Members
<1> QED BY <1>2 DEF CountedNobody

\* A step that puts someone into d marks the deletions of d that have counted.
LEMMA CountedFilled ==
  ASSUME TypeOK, CallsKept, CountedNobody, NEW r \in Request, At(r, "writing"), Goto(r, "logging"),
         NEW d \in Department \cup {None}, filled' = filled \cup Deleting(d),
         \A x \in Department \ {d} : Members(x)' \subseteq Members(x)
  PROVE  CountedNobody'
<1>1. ASSUME NEW x \in Request, Writing(x, "deleteDepartment")', x \notin filled'
      PROVE  Members(req[x].on)' = {}
  <2>1. Writing(x, "deleteDepartment") /\ req'[x].on = req[x].on /\ req[x].on \in Department
    BY <1>1, GotoFacts DEF Writing, At, PC, CallsKept, CallTyped, OnDepartment
  <2>2. req[x].on # d
    BY <1>1, <2>1 DEF Deleting
  <2>3. Members(req[x].on) = {} /\ {e \in Employee : emp'[e].dept = req[x].on} \subseteq Members(req[x].on)
    BY <1>1, <2>1, <2>2 DEF Members, CountedNobody
  <2> QED BY <2>1, <2>3 DEF Members
<1> QED BY <1>1 DEF CountedNobody

LEMMA NextCounted == TypeOK /\ CallsKept /\ CountedNobody /\ [Next]_vars => CountedNobody'
<1> SUFFICES ASSUME TypeOK, CallsKept, CountedNobody, [Next]_vars  PROVE CountedNobody'
  OBVIOUS
<1>1. CASE UNCHANGED vars
  BY <1>1 DEF vars, CountedNobody, Writing, At, Members
<1>2. ASSUME NEW r \in Request, NEW u \in User, NEW c \in Call, Authenticate(r, u, c)
      PROVE  CountedNobody'
  <2>1. UNCHANGED <<emp, filled>> /\ ~Writing(r, "deleteDepartment")'
        /\ \A x \in Request : x # r => req'[x] = req[x]
    BY <1>2, AuthenticateFacts DEF Writing, At, rows, hist
  <2> QED BY <2>1 DEF CountedNobody, Writing, At, Members
<1>3. ASSUME NEW r \in Request, DbCreateEmployee(r) \/ DbSetDepartment(r)  PROVE CountedNobody'
  <2>1. CASE Refuse(r)
    BY <1>3, <2>1, StepsMove, CountedQuiet DEF Refuse, rows, hist, Members
  <2>2. CASE ~Refuse(r)
    <3>1. req[r].to \in Department \cup {None} /\ At(r, "writing") /\ Goto(r, "logging")
          /\ filled' = filled \cup Deleting(req[r].to)
      BY <1>3, <2>2
      DEF DbCreateEmployee, DbSetDepartment, Writing, Applied, At, CallsKept, CallTyped
    <3>2. PICK e \in Employee :
            emp'[e].dept = req[r].to /\ \A x \in Employee : x # e => emp'[x] = emp[x]
      <4>1. CASE DbCreateEmployee(r)
        BY <2>2, <4>1 DEF DbCreateEmployee, TypeOK
      <4>2. CASE DbSetDepartment(r)
        BY <2>2, <4>2 DEF DbSetDepartment, TypeOK, Profile, At, CallsKept, CallTyped, OnEmployee
      <4> QED BY <1>3, <4>1, <4>2
    <3>3. \A x \in Department \ {req[r].to} : Members(x)' \subseteq Members(x)
      BY <3>2 DEF Members
    <3> QED BY <3>1, <3>3, CountedFilled
  <2> QED BY <2>1, <2>2
<1>4. ASSUME NEW r \in Request,
             \/ DbFind(r) \/ DbCheck(r) \/ DbCreateDepartment(r) \/ DbUpdateDepartment(r)
             \/ DbUpdateUser(r) \/ DbLog(r) \/ Fail(r)
      PROVE  CountedNobody'
  <2>1. UNCHANGED <<emp, filled>>
    BY <1>4 DEF DbFind, DbCheck, DbCreateDepartment, DbUpdateDepartment, DbUpdateUser, DbLog,
      Fail, Refuse, Applied, rows, hist
  <2> QED BY <1>4, <2>1, StepsMove, CountedQuiet DEF Members
<1>5. ASSUME NEW r \in Request,
             DbDeleteDepartment(r) \/ DbSetManager(r) \/ DbDeleteEmployee(r) \/ DbDeleteUser(r)
      PROVE  CountedNobody'
  <2>1. \A e \in Employee : emp'[e].dept \in {emp[e].dept, None}
    BY <1>5 DEF DbDeleteDepartment, DbSetManager, DbDeleteEmployee, DbDeleteUser, Refuse, rows,
      TypeOK, Profile, Without, NoEmployee
  <2>2. \A d \in Department : Members(d)' \subseteq Members(d)
    BY <2>1, IdAssumption DEF Members, Id
  <2>3. UNCHANGED filled
    BY <1>5 DEF DbDeleteDepartment, DbSetManager, DbDeleteEmployee, DbDeleteUser, Refuse, hist
  <2> QED BY <1>5, <2>2, <2>3, StepsMove, CountedQuiet
<1> QED BY <1>1, <1>2, <1>3, <1>4, <1>5 DEF Next

----------------------------------------------------------------------------
(* The audit log *)

Audit == AuditPending /\ AuditTellsTruth

\* What a step that moves r does to the log: what is written, and who is left.
LEMMA AuditStep ==
  ASSUME TypeOK, CallsKept, Audit, NEW r \in Request, NEW pc \in PC \ {"new"}, Goto(r, pc),
         req[r].pc \in InFlight, cut \subseteq cut', applied \subseteq applied',
         \A x \in Request \ {r} : x \in applied' => x \in applied,
         \A u \in User : user[u] = NoUser => user'[u] = NoUser,
         \A x \in Request \ {r} : log'[x] # log[x] => log'[x] = None /\ user'[req[x].by] = NoUser,
         pc \in {"finding", "checking", "writing", "refused"} => r \notin applied',
         pc = "logging" => r \in applied',
         log'[r] # None => r \in applied' /\ log'[r] = req[r].by,
         r \in applied' /\ r \notin cut' /\ pc # "logging" /\ user'[req[r].by] # NoUser
           => log'[r] = req[r].by
  PROVE  Audit'
<1>1. \A x \in Request : req[x].pc # "new" => req[x].by \in User
  BY DEF CallsKept, At
<1>2. \A x \in Request : req[x].by \in User /\ user[req[x].by] # NoUser => Exists(req[x].by)
  BY DEF Exists
<1>3. AuditPending'
  BY GotoFacts DEF Audit, AuditPending, At
<1>4. ASSUME NEW x \in Request
      PROVE  /\ log'[x] # None => x \in applied' /\ log'[x] = req[x].by
             /\ x \in applied' /\ x \notin cut' /\ req'[x].pc # "logging"
                  /\ user'[req[x].by] # NoUser => log'[x] = req[x].by
  <2>1. CASE x = r
    BY <2>1, GotoFacts
  <2>2. CASE x # r
    <3>1. req'[x] = req[x] /\ (x \in applied' => x \in applied)
      BY <2>2, GotoFacts
    <3>2. x \in applied => req[x].by \in User
      BY <1>1 DEF Audit, AuditPending
    <3>3. /\ log[x] # None => x \in applied /\ log[x] = req[x].by
          /\ x \in applied /\ x \notin cut /\ req[x].pc # "logging" /\ user[req[x].by] # NoUser
               => log[x] = req[x].by
      BY <1>2, <3>2 DEF Audit, AuditTellsTruth, At
    <3> QED BY <2>2, <3>1, <3>2, <3>3
  <2> QED BY <2>1, <2>2
<1>5. AuditTellsTruth'
  <2>1. ASSUME NEW x \in Request
        PROVE  req'[x].by = req[x].by /\ (x \in applied' => req[x].by \in User)
    BY <1>1, GotoFacts DEF Audit, AuditPending, InFlight
  <2>2. ASSUME NEW x \in Request, req'[x].by \in User, user'[req'[x].by] = NoUser
        PROVE  ~Exists(req[x].by)'
    BY <2>2, IdAssumption DEF Exists
  <2> QED BY <1>4, <2>1, <2>2 DEF AuditTellsTruth, At
<1> QED BY <1>3, <1>5 DEF Audit

LEMMA NextAudit == TypeOK /\ CallsKept /\ Audit /\ [Next]_vars => Audit'
<1> SUFFICES ASSUME TypeOK, CallsKept, Audit, [Next]_vars  PROVE Audit'
  OBVIOUS
<1>1. CASE UNCHANGED vars
  BY <1>1 DEF vars, Audit, AuditPending, AuditTellsTruth, At, Exists
<1>2. ASSUME NEW r \in Request, NEW u \in User, NEW c \in Call, Authenticate(r, u, c)
      PROVE  Audit'
  <2>1. UNCHANGED <<user, dept, emp, log, applied, cut>> /\ r \notin applied /\ log[r] = None
        /\ req'[r].pc \in {"finding", "checking", "writing", "refused"}
        /\ \A x \in Request : x # r => req'[x] = req[x]
    BY <1>2, AuthenticateFacts DEF Audit, AuditPending, AuditTellsTruth, At, rows, hist
  <2> QED BY <2>1 DEF Audit, AuditPending, AuditTellsTruth, At, Exists
<1>3. \A x \in Request : req[x].pc \in {"finding", "checking", "writing"}
                           => x \notin applied /\ log[x] = None
  BY DEF Audit, AuditPending, AuditTellsTruth
<1>4. ASSUME NEW r \in Request, Refuse(r), At(r, "writing")  PROVE Audit'
  BY <1>3, <1>4, AuditStep DEF Refuse, rows, hist, PC, InFlight, At
<1>5. ASSUME NEW r \in Request, Applied(r), At(r, "writing"), UNCHANGED <<user, log, cut>>
      PROVE  Audit'
  BY <1>3, <1>5, AuditStep DEF Applied, PC, InFlight, At
<1>6. ASSUME NEW r \in Request, DbFind(r)  PROVE Audit'
  BY <1>3, <1>6, AuditStep DEF DbFind, rows, hist, PC, InFlight, At
<1>7. ASSUME NEW r \in Request, DbCheck(r)  PROVE Audit'
  BY <1>3, <1>7, AuditStep DEF DbCheck, rows, hist, PC, InFlight, At
<1>8. ASSUME NEW r \in Request,
             \/ DbCreateDepartment(r) \/ DbUpdateDepartment(r) \/ DbDeleteDepartment(r)
             \/ DbCreateEmployee(r) \/ DbSetDepartment(r) \/ DbSetManager(r)
             \/ DbDeleteEmployee(r)
      PROVE  Audit'
  <2>1. At(r, "writing") /\ (Refuse(r) \/ (Applied(r) /\ UNCHANGED <<user, log, cut>>))
    BY <1>8 DEF DbCreateDepartment, DbUpdateDepartment, DbDeleteDepartment, DbCreateEmployee,
      DbSetDepartment, DbSetManager, DbDeleteEmployee, Writing
  <2> QED BY <1>4, <1>5, <2>1
<1>9. ASSUME NEW r \in Request, DbUpdateUser(r)  PROVE Audit'
  <2>1. CASE Refuse(r)
    BY <1>4, <1>9, <2>1 DEF DbUpdateUser
  <2>2. CASE ~Refuse(r)
    <3>1. At(r, "writing") /\ Applied(r) /\ UNCHANGED <<log, cut>>
      BY <1>9, <2>2 DEF DbUpdateUser
    <3>2. \A u \in User : user[u] = NoUser => user'[u] = NoUser
      BY <1>9, <2>2 DEF DbUpdateUser, TypeOK
    <3> QED BY <1>3, <3>1, <3>2, AuditStep DEF Applied, PC, InFlight, At
  <2> QED BY <2>1, <2>2
<1>10. ASSUME NEW r \in Request, DbDeleteUser(r)  PROVE Audit'
  <2>1. CASE Refuse(r)
    BY <1>4, <1>10, <2>1 DEF DbDeleteUser, Writing
  <2>2. CASE ~Refuse(r)
    <3>1. At(r, "writing") /\ Applied(r) /\ UNCHANGED cut
      BY <1>10, <2>2 DEF DbDeleteUser, Writing
    <3>2. req[r].on \in User /\ user'[req[r].on] = NoUser
          /\ \A u \in User : user[u] = NoUser => user'[u] = NoUser
      BY <1>10, <2>2 DEF DbDeleteUser, Writing, TypeOK, CallsKept, CallTyped, At, OnUser
    <3>3. \A x \in Request : log'[x] # log[x] => log'[x] = None /\ log[x] = req[r].on
      BY <1>10, <2>2 DEF DbDeleteUser
    <3>4. \A x \in Request : log'[x] # log[x] => log'[x] = None /\ user'[req[x].by] = NoUser
      <4>1. None \notin User
        BY IdAssumption DEF Id
      <4> QED BY <3>2, <3>3, <4>1 DEF Audit, AuditTellsTruth
    <3> QED BY <1>3, <3>1, <3>2, <3>4, AuditStep DEF Applied, PC, InFlight, At
  <2> QED BY <2>1, <2>2
<1>11. ASSUME NEW r \in Request, DbLog(r)  PROVE Audit'
  <2>1. r \in applied /\ req[r].by \in User
    BY <1>11 DEF DbLog, Audit, AuditPending, CallsKept, At
  <2>2. CASE ~Exists(req[r].by)
    <3>1. user[req[r].by] = NoUser
      BY <2>1, <2>2 DEF Exists
    <3>2. log[r] # None => log[r] = req[r].by
      BY DEF Audit, AuditTellsTruth
    <3> QED BY <1>11, <2>1, <2>2, <3>1, <3>2, AuditStep
            DEF DbLog, Auditor, Refuse, rows, hist, PC, InFlight, At
  <2>3. CASE Exists(req[r].by)
    <3>1. log'[r] = req[r].by /\ \A x \in Request \ {r} : log'[x] = log[x]
      BY <1>11, <2>3 DEF DbLog, Auditor, TypeOK
    <3> QED BY <1>11, <2>1, <2>3, <3>1, AuditStep
            DEF DbLog, Auditor, rows, hist, PC, InFlight, At
  <2> QED BY <2>2, <2>3
<1>12. ASSUME NEW r \in Request, Fail(r)  PROVE Audit'
  <2>1. log[r] # None => r \in applied /\ log[r] = req[r].by
    BY DEF Audit, AuditTellsTruth
  <2> QED BY <1>12, <2>1, AuditStep DEF Fail, rows, PC
<1> QED
  BY <1>1, <1>2, <1>6, <1>7, <1>8, <1>9, <1>10, <1>11, <1>12 DEF Next

----------------------------------------------------------------------------
(* The rows *)

\* What exists, by kind of id.
LEMMA ExistsFacts ==
  /\ None \notin User /\ None \notin Department /\ None \notin Employee /\ None \notin Name
  /\ \A u \in User : Exists(u) <=> user[u] # NoUser
  /\ \A d \in Department : Exists(d) <=> dept[d] # None
  /\ \A e \in Employee : Exists(e) <=> emp[e] # NoEmployee
  BY IdAssumption DEF Exists, Id

\* Deleting the rows of E leaves no reference to them.
LEMMA WithoutConsistent ==
  ASSUME TypeOK, RowsConsistent, NEW E \in SUBSET Employee
  PROVE  Consistent(user, dept, Without(E))
         /\ \A e \in Employee : Without(E)[e] # NoEmployee =>
              e \notin E /\ emp[e] # NoEmployee /\ Without(E)[e].user = emp[e].user
<1> DEFINE W == Without(E)
<1>1. None \notin Employee
  BY IdAssumption DEF Id
<1>2. \A e \in Employee : e \in E => W[e] = NoEmployee
  BY DEF Without
<1>3. \A e \in Employee : e \notin E =>
        /\ W[e].user = emp[e].user /\ W[e].dept = emp[e].dept
        /\ W[e].manager = IF emp[e].manager \in E THEN None ELSE emp[e].manager
        /\ emp[e] = NoEmployee => W[e] = NoEmployee
        /\ emp[e] # NoEmployee /\ emp[e].user # None => W[e] # NoEmployee
  BY <1>1 DEF Without, TypeOK, Profile, NoEmployee
<1>4. NoEmployee.user = None /\ NoEmployee.dept = None /\ NoEmployee.manager = None
  BY DEF NoEmployee
<1> HIDE DEF W
<1>5. \A e \in Employee : W[e] # NoEmployee => e \notin E /\ emp[e] # NoEmployee
  BY <1>2, <1>3
<1>6. \A e \in Employee : emp[e] # NoEmployee =>
        /\ emp[e].user # None /\ user[emp[e].user] # NoUser
        /\ \A x \in Employee : emp[x].user = emp[e].user => x = e
        /\ emp[e].dept # None => dept[emp[e].dept] # None
        /\ emp[e].manager # None =>
             emp[e].manager \in Employee /\ emp[emp[e].manager] # NoEmployee /\ emp[e].manager # e
  BY DEF RowsConsistent, Consistent, TypeOK, Profile
<1>7. ASSUME NEW e \in Employee, W[e] # NoEmployee
      PROVE  /\ W[e].user # None /\ user[W[e].user] # NoUser
             /\ \A x \in Employee : W[x].user = W[e].user => x = e
             /\ W[e].dept # None => dept[W[e].dept] # None
             /\ W[e].manager # None => W[W[e].manager] # NoEmployee /\ W[e].manager # e
  <2>1. emp[e] # NoEmployee /\ e \notin E
    BY <1>5, <1>7
  <2>2. ASSUME NEW x \in Employee, W[x].user = W[e].user  PROVE x = e
    BY <1>2, <1>3, <1>4, <1>6, <2>1, <2>2
  <2>3. ASSUME W[e].manager # None
        PROVE  W[W[e].manager] # NoEmployee /\ W[e].manager # e
    <3>1. W[e].manager = emp[e].manager /\ emp[e].manager \notin E
      BY <1>3, <2>1, <2>3
    <3> QED BY <1>3, <1>6, <2>1, <2>3, <3>1
  <2> QED BY <1>3, <1>6, <2>1, <2>2, <2>3
<1>8. \A d, x \in Department : dept[d] = dept[x] /\ dept[d] # None => d = x
  BY DEF RowsConsistent, Consistent
<1>9. Consistent(user, dept, W)
  BY <1>7, <1>8 DEF RowsConsistent, Consistent
<1> QED BY <1>3, <1>5, <1>9 DEF W

LEMMA NextRows == TypeOK /\ CallsKept /\ RowsConsistent /\ [Next]_vars => RowsConsistent'
<1> SUFFICES ASSUME TypeOK, CallsKept, RowsConsistent, [Next]_vars  PROVE RowsConsistent'
  OBVIOUS
<1> USE ExistsFacts
<1>1. ASSUME UNCHANGED <<user, dept, emp>>  PROVE RowsConsistent'
  BY <1>1 DEF RowsConsistent, Consistent
<1>2. ASSUME NEW r \in Request, Refuse(r)  PROVE RowsConsistent'
  BY <1>1, <1>2 DEF Refuse, rows
<1>3. ASSUME NEW r \in Request, DbCreateDepartment(r)  PROVE RowsConsistent'
  <2>1. CASE Refuse(r)
    BY <1>2, <2>1
  <2>2. CASE ~Refuse(r)
    <3>1. req[r].to \in Name /\ NameFree(req[r].to, None) /\ UNCHANGED <<user, emp>>
      BY <1>3, <2>2 DEF DbCreateDepartment, Writing, At, CallsKept, CallTyped
    <3>2. PICK d \in Department : dept' = [dept EXCEPT ![d] = req[r].to]
      BY <1>3, <2>2 DEF DbCreateDepartment
    <3> QED BY <3>1, <3>2 DEF RowsConsistent, Consistent, NameFree, TypeOK
  <2> QED BY <2>1, <2>2
<1>4. ASSUME NEW r \in Request, DbUpdateDepartment(r)  PROVE RowsConsistent'
  <2>1. CASE Refuse(r)
    BY <1>2, <2>1
  <2>2. CASE ~Refuse(r)
    <3>1. req[r].to \in Name /\ NameFree(req[r].to, req[r].on) /\ UNCHANGED <<user, emp>>
          /\ dept' = [dept EXCEPT ![req[r].on] = req[r].to]
      BY <1>4, <2>2 DEF DbUpdateDepartment, Writing, At, CallsKept, CallTyped
    <3> QED BY <3>1 DEF RowsConsistent, Consistent, NameFree, TypeOK
  <2> QED BY <2>1, <2>2
<1>5. ASSUME NEW r \in Request, DbDeleteDepartment(r)  PROVE RowsConsistent'
  <2>1. CASE Refuse(r)
    BY <1>2, <2>1
  <2>2. CASE ~Refuse(r)
    <3>1. UNCHANGED user /\ dept' = [dept EXCEPT ![req[r].on] = None]
          /\ emp' = [e \in Employee |-> IF e \in Members(req[r].on) THEN [emp[e] EXCEPT !.dept = None]
                                        ELSE emp[e]]
      BY <1>5, <2>2 DEF DbDeleteDepartment
    <3>2. \A e \in Employee :
            /\ emp'[e].user = emp[e].user /\ emp'[e].manager = emp[e].manager
            /\ emp'[e].dept = IF emp[e].dept = req[r].on THEN None ELSE emp[e].dept
            /\ emp[e] = NoEmployee => emp'[e] = NoEmployee
            /\ emp[e] # NoEmployee => emp'[e] # NoEmployee
      BY <3>1 DEF Members, TypeOK, Profile, NoEmployee, RowsConsistent, Consistent
    <3> QED BY <3>1, <3>2 DEF RowsConsistent, Consistent, TypeOK, Profile
  <2> QED BY <2>1, <2>2
<1>6. ASSUME NEW r \in Request, DbCreateEmployee(r)  PROVE RowsConsistent'
  <2>1. CASE Refuse(r)
    BY <1>2, <2>1
  <2>2. CASE ~Refuse(r)
    <3> DEFINE u == req[r].on  d == req[r].to
    <3>1. /\ u \in User /\ d \in Department \cup {None} /\ UNCHANGED <<user, dept>>
          /\ user[u] # NoUser /\ (d # None => dept[d] # None)
          /\ \A e \in Employee : emp[e].user # u
      BY <1>6, <2>2 DEF DbCreateEmployee, Writing, At, CallsKept, CallTyped
    <3>2. PICK e \in Employee :
            emp' = [emp EXCEPT ![e] = [user |-> u, dept |-> d, manager |-> None]]
      BY <1>6, <2>2 DEF DbCreateEmployee
    <3>3. emp'[e].user = u /\ emp'[e].dept = d /\ emp'[e].manager = None /\ emp'[e] # NoEmployee
          /\ \A x \in Employee \ {e} : emp'[x] = emp[x]
      BY <3>1, <3>2 DEF TypeOK, NoEmployee
    <3> HIDE DEF u, d
    <3> QED BY <3>1, <3>3 DEF RowsConsistent, Consistent, TypeOK, Profile
  <2> QED BY <2>1, <2>2
<1>7. ASSUME NEW r \in Request, DbSetDepartment(r)  PROVE RowsConsistent'
  <2>1. CASE Refuse(r)
    BY <1>2, <2>1
  <2>2. CASE ~Refuse(r)
    <3>1. /\ req[r].on \in Employee /\ req[r].to \in Department \cup {None}
          /\ UNCHANGED <<user, dept>> /\ emp[req[r].on] # NoEmployee
          /\ req[r].to # None => dept[req[r].to] # None
          /\ emp' = [emp EXCEPT ![req[r].on].dept = req[r].to]
      BY <1>7, <2>2 DEF DbSetDepartment, At, CallsKept, CallTyped, OnEmployee
    <3>2. \A x \in Employee :
            /\ emp'[x].user = emp[x].user /\ emp'[x].manager = emp[x].manager
            /\ emp'[x].dept = IF x = req[r].on THEN req[r].to ELSE emp[x].dept
            /\ emp[x] = NoEmployee <=> emp'[x] = NoEmployee
      BY <3>1 DEF TypeOK, Profile, NoEmployee, RowsConsistent, Consistent
    <3> QED BY <3>1, <3>2 DEF RowsConsistent, Consistent, TypeOK, Profile
  <2> QED BY <2>1, <2>2
<1>8. ASSUME NEW r \in Request, DbSetManager(r)  PROVE RowsConsistent'
  <2>1. CASE Refuse(r)
    BY <1>2, <2>1
  <2>2. CASE ~Refuse(r)
    <3>1. /\ req[r].on \in Employee /\ req[r].to \in Employee \cup {None}
          /\ UNCHANGED <<user, dept>> /\ emp[req[r].on] # NoEmployee
          /\ emp' = [emp EXCEPT ![req[r].on].manager = req[r].to]
      BY <1>8, <2>2 DEF DbSetManager, At, CallsKept, CallTyped, OnEmployee
    <3>2. /\ req[r].to # None => emp[req[r].to] # NoEmployee /\ req[r].to # req[r].on
      <4>1. CASE req[r].op = "assignManager"
        BY <1>8, <2>2, <3>1, <4>1 DEF DbSetManager, At, CallsKept, InFlight
      <4>2. CASE req[r].op = "removeManager"
        BY <1>8, <2>2, <3>1, <4>2 DEF DbSetManager, At, CallsKept, CallTyped
      <4> QED BY <1>8, <4>1, <4>2 DEF DbSetManager
    <3>3. \A x \in Employee :
            /\ emp'[x].user = emp[x].user /\ emp'[x].dept = emp[x].dept
            /\ emp'[x].manager = IF x = req[r].on THEN req[r].to ELSE emp[x].manager
            /\ emp[x] = NoEmployee <=> emp'[x] = NoEmployee
      BY <3>1 DEF TypeOK, Profile, NoEmployee, RowsConsistent, Consistent
    <3> QED BY <3>1, <3>2, <3>3 DEF RowsConsistent, Consistent, TypeOK, Profile
  <2> QED BY <2>1, <2>2
<1>9. ASSUME NEW r \in Request, DbDeleteEmployee(r)  PROVE RowsConsistent'
  <2>1. CASE Refuse(r)
    BY <1>2, <2>1
  <2>2. CASE ~Refuse(r)
    <3>1. UNCHANGED <<user, dept>> /\ emp' = Without({req[r].on}) /\ req[r].on \in Employee
      BY <1>9, <2>2 DEF DbDeleteEmployee, Writing, At, CallsKept, CallTyped, OnEmployee
    <3> QED BY <3>1, WithoutConsistent DEF RowsConsistent
  <2> QED BY <2>1, <2>2
<1>10. ASSUME NEW r \in Request, DbUpdateUser(r)  PROVE RowsConsistent'
  <2>1. CASE Refuse(r)
    BY <1>2, <2>1
  <2>2. CASE ~Refuse(r)
    <3>1. UNCHANGED <<dept, emp>>
      BY <1>10, <2>2 DEF DbUpdateUser
    <3>2. \A u \in User : user[u] # NoUser => user[u].role # None
      BY DEF RowsConsistent, Consistent
    <3>3. \A u \in User : user[u] # NoUser => user'[u].role # None
      <4>1. CASE req[r].op = "updateUser"
        <5>1. req[r].to # None
          BY <1>10, <4>1 DEF DbUpdateUser, At, CallsKept, CallTyped, Role, None
        <5>2. user' = [user EXCEPT ![req[r].on] = [user[req[r].on] EXCEPT !.role = req[r].to]]
          BY <1>10, <2>2, <4>1 DEF DbUpdateUser
        <5> QED BY <3>2, <5>1, <5>2 DEF TypeOK, Account
      <4>2. CASE req[r].op = "deactivate"
        BY <1>10, <2>2, <3>2, <4>2 DEF DbUpdateUser, TypeOK, Account
      <4>3. CASE req[r].op = "activate"
        BY <1>10, <2>2, <3>2, <4>3 DEF DbUpdateUser, TypeOK, Account
      <4> QED BY <1>10, <4>1, <4>2, <4>3 DEF DbUpdateUser
    <3>4. \A u \in User : user[u] = NoUser => user'[u] = NoUser
      BY <1>10, <2>2 DEF DbUpdateUser, TypeOK
    <3>5. NoUser.role = None
      BY DEF NoUser
    <3> QED BY <3>1, <3>3, <3>4, <3>5 DEF RowsConsistent, Consistent, TypeOK, Profile
  <2> QED BY <2>1, <2>2
<1>11. ASSUME NEW r \in Request, DbDeleteUser(r)  PROVE RowsConsistent'
  <2>1. CASE Refuse(r)
    BY <1>2, <2>1
  <2>2. CASE ~Refuse(r)
    <3> DEFINE u == req[r].on  E == {e \in Employee : emp[e].user = u}
    <3>1. UNCHANGED dept /\ emp' = Without(E) /\ user' = [user EXCEPT ![u] = NoUser] /\ u \in User
      BY <1>11, <2>2 DEF DbDeleteUser, Writing, At, CallsKept, CallTyped, OnUser
    <3>2. Consistent(user, dept, emp')
          /\ \A e \in Employee : emp'[e] # NoEmployee => emp'[e].user # u
      BY <3>1, WithoutConsistent
    <3>3. \A x \in User : x # u => user'[x] = user[x]
      BY <3>1 DEF TypeOK
    <3>4. \A e \in Employee : emp'[e] # NoEmployee => emp'[e].user \in User
      BY <3>1, <3>2, WithoutConsistent DEF Consistent, TypeOK, Profile
    <3> QED BY <3>1, <3>2, <3>3, <3>4 DEF RowsConsistent, Consistent
  <2> QED BY <2>1, <2>2
<1>12. ASSUME NEW r \in Request,
              \/ \E u \in User, c \in Call : Authenticate(r, u, c)
              \/ DbFind(r) \/ DbCheck(r) \/ DbLog(r) \/ Fail(r)
       PROVE  RowsConsistent'
  BY <1>1, <1>12 DEF Authenticate, DbFind, DbCheck, DbLog, Fail, Refuse, rows
<1> QED
  BY <1>1, <1>3, <1>4, <1>5, <1>6, <1>7, <1>8, <1>9, <1>10, <1>11, <1>12 DEF Next, vars

----------------------------------------------------------------------------
(* The theorems *)

IInv ==
  TypeOK /\ CallsKept /\ Standing /\ CountedNobody /\ Audit /\ RowsConsistent

LEMMA InitIInv == Init => IInv
<1> SUFFICES ASSUME Init  PROVE IInv
  OBVIOUS
<1>1. TypeOK /\ CallsKept
  BY InitTyped
<1>2. Standing /\ CountedNobody
  BY DEF Init, Standing, CountedNobody, Writing, At, InFlight
<1>3. Audit
  BY DEF Init, Audit, AuditPending, AuditTellsTruth, At
<1>4. RowsConsistent
  BY SeedAssumption DEF Init, RowsConsistent
<1> QED BY <1>1, <1>2, <1>3, <1>4 DEF IInv

LEMMA NextIInv == IInv /\ [Next]_vars => IInv'
  BY NextTyped, NextCalls, NextStanding, NextCounted, NextAudit, NextRows DEF IInv

LEMMA SpecIInv == Spec => []IInv
  BY InitIInv, NextIInv, PTL DEF Spec

\* Every variable keeps its type.
THEOREM TypeCorrect == Spec => []TypeOK
  BY SpecIInv, PTL DEF IInv

\* The rows stay consistent, whatever requests overlap and whatever fails.
THEOREM RowsStayConsistent == Spec => []RowsConsistent
  BY SpecIInv, PTL DEF IInv

\* The audit log is true, and complete for the users who still exist.
THEOREM AuditHolds == Spec => []AuditTellsTruth
  BY SpecIInv, PTL DEF IInv, Audit

\* A request changes a row only in its write.
LEMMA OnlyWritesApply ==
  ASSUME TypeOK, NEW r \in Request, r \in applied' \ applied, Next
  PROVE  At(r, "writing")
<1>1. PICK x \in Request :
        \/ \E u \in User, c \in Call : Authenticate(x, u, c)
        \/ DbFind(x) \/ DbCheck(x)
        \/ DbCreateDepartment(x) \/ DbUpdateDepartment(x) \/ DbDeleteDepartment(x)
        \/ DbCreateEmployee(x) \/ DbSetDepartment(x) \/ DbSetManager(x) \/ DbDeleteEmployee(x)
        \/ DbUpdateUser(x) \/ DbDeleteUser(x)
        \/ DbLog(x) \/ Fail(x)
  BY DEF Next
<1>2. At(x, "writing") /\ Applied(x)
  BY <1>1 DEF Authenticate, DbFind, DbCheck, DbCreateDepartment, DbUpdateDepartment,
    DbDeleteDepartment, DbCreateEmployee, DbSetDepartment, DbSetManager, DbDeleteEmployee,
    DbUpdateUser, DbDeleteUser, DbLog, Fail, Refuse, Writing, hist
<1> QED BY <1>2 DEF Applied

\* A change is made by a user with authority, unless the account changed while
\* the request was in flight.
THEOREM AuthorityHolds == Spec => AuthorityAtWrite
<1>1. IInv /\ [Next]_vars
        => [\A r \in applied' \ applied : Entitled(r) \/ r \in shifted]_vars
  <2> SUFFICES ASSUME IInv, Next, NEW r \in applied' \ applied, r \notin shifted
               PROVE  Entitled(r)
    OBVIOUS
  <2>1. r \in Request
    BY NextTyped DEF IInv, TypeOK
  <2>2. At(r, "writing")
    BY <2>1, OnlyWritesApply DEF IInv
  <2>3. CASE req[r].op = "updateUser"
    BY <2>1, <2>2, <2>3
    DEF IInv, Standing, Writing, At, InFlight, Entitled, Roles, AdminOnly
  <2>4. CASE req[r].op # "updateUser"
    BY <2>1, <2>2, <2>4 DEF IInv, Standing, At, InFlight, Entitled
  <2> QED BY <2>3, <2>4
<1> QED BY <1>1, SpecIInv, PTL DEF Spec, AuthorityAtWrite

\* No request has got past the guards, and none has changed a row.
Shut == applied = {} /\ \A r \in Request : At(r, "new") \/ At(r, "refused")

\* Nothing gets past JwtAuthGuard, which is asked before request.user is set: with
\* it, as AppModule provides it, the guards refuse every request and no row of the
\* directory is ever changed, whoever asks.
THEOREM AppGuardRefusesAll ==
  ASSUME AppGuard  PROVE Spec => []Shut
<1>1. Init => Shut
  BY DEF Init, At, Shut
<1>2. IInv /\ Shut /\ [Next]_vars => Shut'
  <2>. SUFFICES ASSUME IInv, Shut, [Next]_vars  PROVE Shut'
    OBVIOUS
  <2>1. CASE UNCHANGED vars
    BY <2>1 DEF vars, At, Shut
  <2>2. ASSUME NEW r \in Request, NEW u \in User, NEW c \in Call, Authenticate(r, u, c)
        PROVE  Shut'
    <3>1. ~ReachesController
      BY DEF ReachesController, CanActivate, UserIsSet
    <3>2. At(r, "refused")' /\ \A x \in Request : x # r => req'[x] = req[x]
      BY <2>2, <3>1, AuthenticateFacts DEF IInv, At
    <3>3. applied' = applied
      BY <2>2 DEF Authenticate, hist
    <3>. QED
      BY <3>2, <3>3 DEF At, Shut
  <2>3. ASSUME NEW r \in Request, Moves(r)  PROVE FALSE
    BY <2>3 DEF Moves, InFlight, At, Shut
  <2>. QED
    BY <2>1, <2>2, <2>3, StepsMove DEF Next
<1>. QED
  BY <1>1, <1>2, SpecIInv, PTL DEF Spec

\* A department is deleted with nobody in it, unless someone was put there
\* between the count and the delete.
THEOREM DeletionHolds == Spec => EmptyWhenDeleted
<1>1. IInv /\ [Next]_vars
        => [\A r \in applied' \ applied :
              req[r].op = "deleteDepartment" => Members(req[r].on) = {} \/ r \in filled]_vars
  <2> SUFFICES ASSUME IInv, Next, NEW r \in applied' \ applied,
                      req[r].op = "deleteDepartment", r \notin filled
               PROVE  Members(req[r].on) = {}
    OBVIOUS
  <2>1. r \in Request
    BY NextTyped DEF IInv, TypeOK
  <2>2. Writing(r, "deleteDepartment")
    BY <2>1, OnlyWritesApply DEF IInv, Writing
  <2> QED BY <2>1, <2>2 DEF IInv, CountedNobody
<1> QED BY <1>1, SpecIInv, PTL DEF Spec, EmptyWhenDeleted

----------------------------------------------------------------------------
(* Accounts and tokens *)

AccountsSpec == AccountsInit /\ [][AccountsNext]_accountVars

\* A request that was made.
Made == [op : AccountOp, pc : Stage, by : Person \cup {Nobody}, of : Person \cup {Nobody},
         email : Email \cup {"none"}, password : Password \cup {"none"}, good : BOOLEAN]

\* Whom a request is of, where its operation reads it.
Shape(q) ==
  /\ q.op = "register" => q.email \in Email
  /\ q.op = "login" /\ q.pc \in {"comparing", "writing", "answered"} => q.of \in Person
  /\ q.op \in {"changePassword", "update", "activity", "remove"} => q.of \in Person
  /\ q.op \in {"refresh", "changePassword"} => q.by \in Person
  /\ q.op = "changePassword" => q.pc # "writing"
  /\ q.op = "refresh" => q.pc \in {"finding", "answered"}
  /\ q.op = "login" => q.pc # "authenticating"

\* What entitles a request, as far as it has come: a login that bcrypt will accept was
\* right when its row was read; whoever is past the guard of changePassword was active
\* and, for somebody else's password, an administrator; one's own was right when read.
EntitledSoFar(q, g) ==
  /\ q.op = "login" /\ q.pc = "comparing" /\ q.good => q.of \in g
  /\ q.op = "login" /\ q.pc \in {"writing", "answered"} => q.of \in g
  /\ q.op = "refresh" /\ q.pc = "answered" => q.of \in g
  /\ q.op = "changePassword" /\ q.pc # "authenticating" =>
       {"caller"} \cup (IF q.by = q.of THEN {} ELSE {"admin"}) \subseteq g
  /\ (q.op = "changePassword" /\ q.by = q.of)
       /\ ((q.pc = "comparing" /\ q.good) \/ q.pc \in {"hashing", "answered"}) => "secret" \in g

AccountInv ==
  /\ AccountsTypeOK
  /\ \A c \in AccountCall :
       /\ Shape(request[c])
       /\ request[c].pc \notin {"idle", "answered"} =>
            Entitlement(request[c], person) \subseteq grounds[c]
       /\ EntitledSoFar(request[c], grounds[c])

LEMMA IdleCall ==
  /\ NoAccountCall.op = "none" /\ NoAccountCall.pc = "idle"
  /\ NoAccountCall \notin Made
  /\ Shape(NoAccountCall) /\ \A g : EntitledSoFar(NoAccountCall, g)
BY DEF NoAccountCall, Made, Shape, EntitledSoFar, AccountOp

\* A step of one request is that of its row, the person it writes, and whom it gives tokens.
LEMMA CallRows ==
  ASSUME AccountsTypeOK, NEW c \in AccountCall
  PROVE  /\ request[c] = NoAccountCall \/ request[c] \in Made
         /\ request[c].pc # "idle" \/ request[c].op # "none" => request[c] \in Made
         /\ \A row : request' = [request EXCEPT ![c] = row] =>
              request'[c] = row /\ \A d \in AccountCall \ {c} : request'[d] = request[d]
BY IdleCall DEF AccountsTypeOK, Made

\* What a request is made as.
Opens(r) ==
  \/ r.op = "register" /\ r.email \in Email
  \/ r.op = "login" /\ r.pc = "finding"
  \/ r.op = "refresh" /\ r.pc = "finding" /\ r.by \in Person
  \/ /\ r.op \in {"changePassword", "update", "activity", "remove"}
     /\ r.pc = "authenticating" /\ r.by \in Person /\ r.of \in Person
  \/ r.op = "remove" /\ r.pc = "finding" /\ r.of \in Person

\* How a request goes on, as the rows are.
Advances(q, r) ==
  \/ q.op = "register"
  \/ /\ q.op = "login" /\ q.pc = "finding" /\ r.pc = "comparing" /\ r.of \in Person
     /\ r.good => Active(r.of) /\ person[r.of].email = q.email
                  /\ person[r.of].password = q.password
  \/ /\ q.op = "login" /\ q.pc = "comparing" /\ q.good /\ r.of = q.of
     /\ r.pc \in {"writing", "answered"}
  \/ q.op = "login" /\ q.pc = "writing" /\ r.pc = "answered" /\ r.of = q.of
  \/ q.op = "refresh" /\ q.pc = "finding" /\ r.pc = "answered" /\ Active(q.by) /\ r.of = q.by
  \/ /\ q.op \in {"changePassword", "update", "activity", "remove"}
     /\ q.pc = "authenticating" /\ r.pc = "finding" /\ r.of = q.of /\ Active(q.by)
     /\ q.op = "changePassword" => q.by \in Admin \/ q.by = q.of
  \/ q.op \in {"update", "activity", "remove"} /\ r.pc = "writing" /\ r.of = q.of
  \/ /\ q.op = "changePassword" /\ q.pc = "finding" /\ r.of = q.of
     /\ IF q.by = q.of
          THEN r.pc = "comparing" /\ (r.good => person[q.of].password = q.password)
          ELSE r.pc = "hashing"
  \/ /\ q.op = "changePassword" /\ q.pc = "comparing" /\ r.pc = "hashing" /\ q.good
     /\ r.of = q.of
  \/ q.op = "changePassword" /\ q.pc = "hashing" /\ r.pc = "answered" /\ r.of = q.of

\* What a request becomes.
Becomes(c) ==
  LET q == request[c]
      r == request'[c]
  IN
  \/ r = NoAccountCall
  \/ q = NoAccountCall /\ r \in Made /\ Opens(r)
  \/ /\ q \in Made /\ r \in Made /\ r.op = q.op /\ r.by = q.by
     /\ r.email = q.email /\ r.password = q.password
     /\ Advances(q, r)

\* A step of the accounts is one request's.
CallMoves(c) ==
  /\ Becomes(c)
  /\ \A d \in AccountCall \ {c} : request'[d] = request[d]
  /\ request' \in [AccountCall -> {NoAccountCall} \cup Made]
  /\ person' \in [Person -> UserRow \cup {New, Deleted}] /\ holders' \subseteq Person

LEMMA OpensMade ==
  /\ \A pc \in {"finding", "hashing"}, e \in Email :
       LET r == WithEmail("register", pc, e) IN r \in Made /\ Opens(r)
  /\ \A e \in Email, s \in Password :
       LET r == [WithEmail("login", "finding", e) EXCEPT !.password = s]
       IN  r \in Made /\ Opens(r)
  /\ \A p \in Person :
       LET r == [NoAccountCall EXCEPT !.op = "refresh", !.pc = "finding", !.by = p]
       IN  r \in Made /\ Opens(r)
  /\ \A p, q \in Person, op \in {"changePassword", "update", "activity", "remove"},
        s \in Password \cup {"none"} :
       LET r == [NoAccountCall EXCEPT !.op = op, !.pc = "authenticating", !.by = p, !.of = q,
                                      !.password = s]
       IN  r \in Made /\ Opens(r)
  /\ \A p \in Person :
       LET r == [NoAccountCall EXCEPT !.op = "remove", !.pc = "finding", !.of = p]
       IN  r \in Made /\ Opens(r)
<1>. USE DEF Opens, NoAccountCall, Made, AccountOp, Stage
<1>1. ASSUME NEW pc \in {"finding", "hashing"}, NEW e \in Email
      PROVE  LET r == WithEmail("register", pc, e) IN r \in Made /\ Opens(r)
  BY DEF WithEmail
<1>2. ASSUME NEW e \in Email, NEW s \in Password
      PROVE  LET r == [WithEmail("login", "finding", e) EXCEPT !.password = s]
             IN  r \in Made /\ Opens(r)
  BY DEF WithEmail
<1>3. ASSUME NEW p \in Person
      PROVE  LET r == [NoAccountCall EXCEPT !.op = "refresh", !.pc = "finding", !.by = p]
             IN  r \in Made /\ Opens(r)
  OBVIOUS
<1>4. ASSUME NEW p \in Person, NEW q \in Person,
             NEW op \in {"changePassword", "update", "activity", "remove"},
             NEW s \in Password \cup {"none"}
      PROVE  LET r == [NoAccountCall EXCEPT !.op = op, !.pc = "authenticating", !.by = p, !.of = q,
                                            !.password = s]
             IN  r \in Made /\ Opens(r)
  OBVIOUS
<1>5. ASSUME NEW p \in Person
      PROVE  LET r == [NoAccountCall EXCEPT !.op = "remove", !.pc = "finding", !.of = p]
             IN  r \in Made /\ Opens(r)
  OBVIOUS
<1>. HIDE DEF Opens, NoAccountCall, Made, AccountOp, Stage
<1>. QED
  BY <1>1, <1>2, <1>3, <1>4, <1>5

LEMMA OpensMoves ==
  ASSUME AccountInv, NEW c \in AccountCall,
         Register(c) \/ CreateUser(c) \/ SignUp(c) \/ Login(c) \/ Refresh(c) \/ AskChange(c)
           \/ DeleteUser(c)
  PROVE  CallMoves(c)
<1>1. \E r \in Made : Send(c, r) /\ Opens(r)
  <2>1. CASE Register(c) \/ CreateUser(c) \/ SignUp(c)
    <3>1. PICK e \in Email, pc \in {"finding", "hashing"} : Send(c, WithEmail("register", pc, e))
      BY <2>1 DEF Register, CreateUser, SignUp
    <3>2. WithEmail("register", pc, e) \in Made /\ Opens(WithEmail("register", pc, e))
      BY OpensMade
    <3>. QED
      BY <3>1, <3>2
  <2>2. CASE Login(c)
    <3>1. PICK e \in Email, s \in Password :
            Send(c, [WithEmail("login", "finding", e) EXCEPT !.password = s])
      BY <2>2 DEF Login
    <3>. QED
      BY <3>1, OpensMade
  <2>3. CASE Refresh(c)
    <3>1. PICK p \in Person :
            Send(c, [NoAccountCall EXCEPT !.op = "refresh", !.pc = "finding", !.by = p])
      BY <2>3 DEF Refresh, AccountInv, AccountsTypeOK
    <3>. QED
      BY <3>1, OpensMade
  <2>4. CASE AskChange(c)
    <3>1. PICK p \in Person, q \in Person,
               op \in {"changePassword", "update", "activity", "remove"},
               s \in Password \cup {"none"} :
            Send(c, [NoAccountCall EXCEPT !.op = op, !.pc = "authenticating", !.by = p, !.of = q,
                                          !.password = s])
      BY <2>4 DEF AskChange, AccountInv, AccountsTypeOK
    <3>. QED
      BY <3>1, OpensMade
  <2>5. CASE DeleteUser(c)
    <3>1. PICK p \in Person :
            Send(c, [NoAccountCall EXCEPT !.op = "remove", !.pc = "finding", !.of = p])
      BY <2>5 DEF DeleteUser
    <3>. QED
      BY <3>1, OpensMade
  <2>. QED
    BY <2>1, <2>2, <2>3, <2>4, <2>5
<1>2. request \in [AccountCall -> {NoAccountCall} \cup Made]
  BY DEF AccountInv, AccountsTypeOK, Made
<1>. QED
  BY <1>1, <1>2 DEF CallMoves, Becomes, AccountInv, AccountsTypeOK, Send

\* A suspended request, resumed at pc; where its target or what bcrypt says changes too.
LEMMA Resumed ==
  ASSUME NEW q \in Made, NEW pc \in Stage, NEW p \in Person, NEW g \in BOOLEAN,
         NEW r \in {[q EXCEPT !.pc = pc], [q EXCEPT !.pc = pc, !.of = p],
                    [q EXCEPT !.pc = pc, !.good = g], [q EXCEPT !.pc = pc, !.of = p, !.good = g]}
  PROVE  /\ r \in Made /\ r.op = q.op /\ r.by = q.by /\ r.email = q.email
         /\ r.password = q.password /\ r.pc = pc
BY DEF Made

LEMMA Ends ==
  ASSUME AccountInv, NEW c \in AccountCall, End(c),
         person' \in [Person -> UserRow \cup {New, Deleted}], holders' \subseteq Person
  PROVE  CallMoves(c)
BY DEF End, CallMoves, Becomes, AccountInv, AccountsTypeOK, Made

LEMMA Goes ==
  ASSUME AccountInv, NEW c \in AccountCall, NEW r \in Made, request[c] \in Made,
         request' = [request EXCEPT ![c] = r],
         r.op = request[c].op, r.by = request[c].by, r.email = request[c].email,
         r.password = request[c].password, Advances(request[c], r),
         person' \in [Person -> UserRow \cup {New, Deleted}], holders' \subseteq Person
  PROVE  CallMoves(c)
<1>1. request'[c] = r /\ request' \in [AccountCall -> {NoAccountCall} \cup Made]
      /\ \A d \in AccountCall \ {c} : request'[d] = request[d]
  BY DEF AccountInv, AccountsTypeOK, Made
<1>. QED
  BY <1>1 DEF CallMoves, Becomes

LEMMA RegisterMoves ==
  ASSUME AccountInv, NEW c \in AccountCall,
         DbFindEmail(c) \/ CreateRow(c)
  PROVE  CallMoves(c)
<1>1. request[c] \in Made /\ request[c].op = "register"
  BY CallRows DEF DbFindEmail, CreateRow, Waiting, AccountInv, AccountOp
<1>2. UNCHANGED <<person, holders>>
        => person' \in [Person -> UserRow \cup {New, Deleted}] /\ holders' \subseteq Person
  BY DEF AccountInv, AccountsTypeOK
<1>3. ASSUME Resume(c, "hashing"), UNCHANGED <<person, holders>> PROVE CallMoves(c)
  <2>. DEFINE r == [request[c] EXCEPT !.pc = "hashing"]
  <2>1. request' = [request EXCEPT ![c] = r]
    BY <1>3 DEF Resume
  <2>2. /\ r \in Made /\ r.op = request[c].op /\ r.by = request[c].by
        /\ r.email = request[c].email /\ r.password = request[c].password
    BY <1>1 DEF Made, Stage
  <2>3. Advances(request[c], r)
    BY <1>1 DEF Advances
  <2>. HIDE DEF r
  <2>. QED
    BY <1>1, <1>2, <1>3, <2>1, <2>2, <2>3, Goes
<1>4. ASSUME NEW p \in Person, NEW s \in Password,
             person' = [person EXCEPT ![p] = [state |-> "active", email |-> request[c].email,
                                              password |-> s]],
             (End(c) /\ UNCHANGED holders) \/ Tokens(c, p),
             request[c].email \in Email
      PROVE  CallMoves(c)
  <2>1. person' \in [Person -> UserRow \cup {New, Deleted}]
    BY <1>4 DEF AccountInv, AccountsTypeOK, UserRow
  <2>2. CASE End(c) /\ UNCHANGED holders
    BY <2>1, <2>2, Ends DEF AccountInv, AccountsTypeOK
  <2>3. CASE Tokens(c, p)
    <3>. DEFINE r == [request[c] EXCEPT !.pc = "answered", !.of = p]
    <3>1. request' = [request EXCEPT ![c] = r] /\ holders' \subseteq Person
      BY <2>3 DEF Tokens, AccountInv, AccountsTypeOK
    <3>2. /\ r \in Made /\ r.op = request[c].op /\ r.by = request[c].by
          /\ r.email = request[c].email /\ r.password = request[c].password
      BY <1>1 DEF Made, Stage
    <3>3. Advances(request[c], r)
      BY <1>1 DEF Advances
    <3>. HIDE DEF r
    <3>. QED
      BY <1>1, <2>1, <3>1, <3>2, <3>3, Goes
  <2>. QED
    BY <1>4, <2>2, <2>3
<1>5. CASE DbFindEmail(c)
  BY <1>2, <1>3, <1>5, Ends DEF DbFindEmail
<1>6. CASE CreateRow(c)
  <2>1. request[c].email \in Email
    BY <1>1 DEF AccountInv, Shape
  <2>. QED
    BY <1>2, <1>4, <1>6, <2>1, Ends DEF CreateRow
<1>. QED
  BY <1>5, <1>6

LEMMA LoginMoves ==
  ASSUME AccountInv, NEW c \in AccountCall,
         FindRow(c) \/ Compare(c) \/ DbMarkOnline(c)
  PROVE  CallMoves(c)
<1>1. request[c] \in Made /\ request[c].op = "login" /\ Shape(request[c])
  BY CallRows DEF FindRow, Compare, DbMarkOnline, Waiting, AccountInv
<1>2. person' \in [Person -> UserRow \cup {New, Deleted}] /\ holders \subseteq Person
  BY DEF FindRow, Compare, DbMarkOnline, AccountInv, AccountsTypeOK
<1>3. ASSUME NEW p \in Person, NEW r \in Made,
             request[c].pc = "finding", person[p].email = request[c].email,
             r = [request[c] EXCEPT !.pc = "comparing", !.of = p,
                    !.good = (person[p].password = request[c].password /\ Active(p))]
      PROVE  Advances(request[c], r)
  BY <1>1, <1>3 DEF Advances, Made
<1>4. CASE FindRow(c)
  <2>1. CASE End(c) /\ UNCHANGED holders
    BY <1>2, <2>1, Ends
  <2>2. ASSUME NEW p \in Person, person[p].email = request[c].email,
               UNCHANGED holders, request[c].pc = "finding",
               request' = [request EXCEPT ![c].pc = "comparing", ![c].of = p,
                 ![c].good = (person[p].password = request[c].password /\ Active(p))]
        PROVE  CallMoves(c)
    <3>. DEFINE g == person[p].password = request[c].password /\ Active(p)
                r == [request[c] EXCEPT !.pc = "comparing", !.of = p, !.good = g]
    <3>1. g \in BOOLEAN
      OBVIOUS
    <3>2. request' = [request EXCEPT ![c] = r]
      BY <2>2
    <3>3. /\ r \in Made /\ r.op = request[c].op /\ r.by = request[c].by
          /\ r.email = request[c].email /\ r.password = request[c].password
      BY <1>1, <3>1 DEF Made, Stage
    <3>4. Advances(request[c], r)
      BY <1>3, <2>2, <3>3
    <3>. HIDE DEF r
    <3>. QED
      BY <1>1, <1>2, <2>2, <3>2, <3>3, <3>4, Goes
  <2>. QED
    BY <1>4, <2>1, <2>2 DEF FindRow, Waiting
<1>5. ASSUME NEW pc \in Stage, request' = [request EXCEPT ![c].pc = pc], holders' \subseteq Person,
             \/ request[c].pc = "comparing" /\ request[c].good /\ pc \in {"writing", "answered"}
             \/ request[c].pc = "writing" /\ pc = "answered"
      PROVE  CallMoves(c)
  <2>. DEFINE r == [request[c] EXCEPT !.pc = pc]
  <2>1. request' = [request EXCEPT ![c] = r]
    BY <1>5
  <2>2. /\ r \in Made /\ r.op = request[c].op /\ r.by = request[c].by
        /\ r.email = request[c].email /\ r.password = request[c].password
    BY <1>1 DEF Made
  <2>3. Advances(request[c], r)
    BY <1>1, <1>5 DEF Advances, Made
  <2>. HIDE DEF r
  <2>. QED
    BY <1>1, <1>2, <1>5, <2>1, <2>2, <2>3, Goes
<1>6. ASSUME Tokens(c, request[c].of), request[c].of \in Person
      PROVE  request' = [request EXCEPT ![c].pc = "answered"] /\ holders' \subseteq Person
  BY <1>1, <1>2, <1>6 DEF Tokens, AccountInv, AccountsTypeOK, Made
<1>7. CASE Compare(c) \/ DbMarkOnline(c)
  <2>1. request[c].of \in Person
    BY <1>1, <1>7 DEF Compare, DbMarkOnline, Waiting, Shape
  <2>2. "writing" \in Stage /\ "answered" \in Stage
    BY DEF Stage
  <2>. QED
    BY <1>2, <1>5, <1>6, <1>7, <2>1, <2>2, Ends
       DEF Compare, DbMarkOnline, Waiting, Resume
<1>. QED
  BY <1>4, <1>7

\* A request that only goes to another stage.
LEMMA StageMoves ==
  ASSUME AccountInv, NEW c \in AccountCall, request[c] \in Made, NEW pc \in Stage,
         Resume(c, pc),
         \A r \in Made : r.pc = pc /\ r.of = request[c].of => Advances(request[c], r),
         person' \in [Person -> UserRow \cup {New, Deleted}], holders' \subseteq Person
  PROVE  CallMoves(c)
<1>. DEFINE r == [request[c] EXCEPT !.pc = pc]
<1>1. request' = [request EXCEPT ![c] = r]
  BY DEF Resume
<1>2. /\ r \in Made /\ r.op = request[c].op /\ r.by = request[c].by
      /\ r.email = request[c].email /\ r.password = request[c].password
      /\ r.pc = pc /\ r.of = request[c].of
  BY DEF Made
<1>. HIDE DEF r
<1>. QED
  BY <1>1, <1>2, Goes

LEMMA RefreshMoves ==
  ASSUME AccountInv, NEW c \in AccountCall, DbRefresh(c)
  PROVE  CallMoves(c)
<1>1. /\ request[c] \in Made /\ request[c].op = "refresh" /\ request[c].pc = "finding"
      /\ request[c].by \in Person
  BY CallRows DEF DbRefresh, Waiting, AccountInv, Shape
<1>2. person' \in [Person -> UserRow \cup {New, Deleted}] /\ holders \subseteq Person
  BY DEF DbRefresh, AccountInv, AccountsTypeOK
<1>3. CASE Tokens(c, request[c].by) /\ Active(request[c].by)
  <2>. DEFINE r == [request[c] EXCEPT !.pc = "answered", !.of = request[c].by]
  <2>1. request' = [request EXCEPT ![c] = r] /\ holders' \subseteq Person
    BY <1>1, <1>2, <1>3 DEF Tokens
  <2>2. /\ r \in Made /\ r.op = request[c].op /\ r.by = request[c].by
        /\ r.email = request[c].email /\ r.password = request[c].password
    BY <1>1 DEF Made, Stage
  <2>3. Advances(request[c], r)
    BY <1>1, <1>3 DEF Advances, Made
  <2>. HIDE DEF r
  <2>. QED
    BY <1>1, <1>2, <2>1, <2>2, <2>3, Goes
<1>. QED
  BY <1>2, <1>3, Ends DEF DbRefresh

LEMMA ChangeMoves ==
  ASSUME AccountInv, NEW c \in AccountCall,
         DbAuthenticate(c) \/ DbFindPerson(c) \/ DbFindPassword(c) \/ ComparePassword(c) \/ DbWrite(c)
  PROVE  CallMoves(c)
<1>. DEFINE q == request[c]
<1>1. holders' \subseteq Person /\ UNCHANGED holders
  BY DEF DbAuthenticate, DbFindPerson, DbFindPassword, ComparePassword, DbWrite, AccountInv,
         AccountsTypeOK
<1>2. UNCHANGED person => person' \in [Person -> UserRow \cup {New, Deleted}]
  BY DEF AccountInv, AccountsTypeOK
<1>3. q \in Made /\ Shape(q)
  <2>1. q.pc # "idle" \/ q.op # "none"
    BY DEF DbAuthenticate, DbFindPerson, DbFindPassword, ComparePassword, DbWrite, Waiting
  <2>. QED
    BY <2>1, CallRows DEF AccountInv
<1>4. {"finding", "writing", "hashing", "comparing", "answered"} \subseteq Stage
  BY DEF Stage
<1>5. CASE DbAuthenticate(c)
  <2>1. CASE End(c)
    BY <1>1, <1>2, <1>5, <2>1, Ends DEF DbAuthenticate
  <2>2. CASE ~End(c)
    <3>1. /\ q.pc = "authenticating" /\ Resume(c, "finding") /\ UNCHANGED person /\ Active(q.by)
          /\ q.by \in Admin \/ (q.op \in {"changePassword", "update"} /\ q.by = q.of)
      BY <1>5, <2>2 DEF DbAuthenticate
    <3>2. q.by \in Person /\ q.op \notin {"refresh", "login"}
      BY <1>3, <3>1 DEF Active, IsActive, Shape
    <3>3. \A r \in Made : r.pc = "finding" /\ r.of = q.of => Advances(q, r)
      BY <1>3, <3>1, <3>2 DEF Advances, Made, AccountOp
    <3>. QED
      BY <1>1, <1>2, <1>3, <1>4, <3>1, <3>3, StageMoves
  <2>. QED
    BY <2>1, <2>2
<1>6. CASE DbFindPerson(c)
  <2>1. \A r \in Made : r.pc = "writing" /\ r.of = q.of => Advances(q, r)
    BY <1>3, <1>6 DEF Advances, DbFindPerson
  <2>. QED
    BY <1>1, <1>2, <1>3, <1>4, <1>6, <2>1, StageMoves, Ends DEF DbFindPerson
<1>7. CASE DbFindPassword(c)
  <2>1. CASE End(c)
    BY <1>1, <1>2, <1>7, <2>1, Ends DEF DbFindPassword
  <2>2. CASE ~End(c)
    <3>. DEFINE g == person[q.of].password = q.password
                r == [q EXCEPT !.pc = IF q.by = q.of THEN "comparing" ELSE "hashing", !.good = g]
    <3>1. /\ q.op = "changePassword" /\ q.pc = "finding" /\ UNCHANGED person
          /\ request' = [request EXCEPT ![c] = r]
      BY <1>7, <2>2 DEF DbFindPassword, Waiting
    <3>2. g \in BOOLEAN
      OBVIOUS
    <3>3. /\ r \in Made /\ r.op = q.op /\ r.by = q.by /\ r.email = q.email /\ r.password = q.password
          /\ r.of = q.of /\ r.pc = (IF q.by = q.of THEN "comparing" ELSE "hashing") /\ r.good = g
      BY <1>3, <3>2 DEF Made, Stage
    <3>4. Advances(q, r)
      BY <3>1, <3>3 DEF Advances
    <3>. HIDE DEF r
    <3>. QED
      BY <1>1, <1>2, <1>3, <3>1, <3>3, <3>4, Goes
  <2>. QED
    BY <2>1, <2>2
<1>8. CASE ComparePassword(c)
  <2>1. q.good => \A r \in Made : r.pc = "hashing" /\ r.of = q.of => Advances(q, r)
    BY <1>3, <1>8 DEF Advances, ComparePassword, Waiting
  <2>. QED
    BY <1>1, <1>2, <1>3, <1>4, <1>8, <2>1, StageMoves, Ends DEF ComparePassword
<1>9. CASE DbWrite(c)
  <2>1. person' \in [Person -> UserRow \cup {New, Deleted}]
    <3>1. CASE q.of \in Person /\ Registered(q.of)
      <4>1. person \in [Person -> UserRow \cup {New, Deleted}] /\ person[q.of] \in UserRow
        BY <3>1 DEF AccountInv, AccountsTypeOK, Registered, New, Deleted
      <4>2. /\ \A s \in Password : [person[q.of] EXCEPT !.password = s] \in UserRow
            /\ \A e \in Email : [person[q.of] EXCEPT !.email = e] \in UserRow
            /\ \A s \in {"active", "inactive"} : [person[q.of] EXCEPT !.state = s] \in UserRow
        BY <4>1 DEF UserRow
      <4>. QED
        BY <1>2, <1>9, <3>1, <4>1, <4>2 DEF DbWrite
    <3>2. CASE ~Registered(q.of)
      BY <1>2, <1>9, <3>2 DEF DbWrite
    <3>3. q.of \in Person \/ UNCHANGED person
      BY <1>3, <1>9 DEF DbWrite, Shape
    <3>. QED
      BY <1>2, <3>1, <3>2, <3>3
  <2>2. CASE End(c)
    BY <1>1, <2>1, <2>2, Ends
  <2>3. CASE q.op = "changePassword" /\ Resume(c, "answered")
    <3>1. q.pc = "hashing"
      BY <1>3, <1>9, <2>3 DEF DbWrite, Waiting, Shape
    <3>2. \A r \in Made : r.pc = "answered" /\ r.of = q.of => Advances(q, r)
      BY <2>3, <3>1 DEF Advances
    <3>. QED
      BY <1>1, <1>3, <1>4, <2>1, <2>3, <3>2, StageMoves
  <2>. QED
    BY <1>9, <2>2, <2>3 DEF DbWrite
<1>. QED
  BY <1>5, <1>6, <1>7, <1>8, <1>9

LEMMA AccountMoves ==
  ASSUME AccountInv, AccountsNext
  PROVE  \E c \in AccountCall : CallMoves(c)
<1>1. PICK c \in AccountCall :
        \/ Register(c) \/ CreateUser(c) \/ SignUp(c) \/ DbFindEmail(c)
        \/ DbCreate(c) \/ DbCreateChatter(c) \/ DbSignUp(c) \/ DbCreateColleague(c)
        \/ Login(c) \/ DbValidate(c) \/ DbValidateChatter(c) \/ DbFindReader(c) \/ DbSignIn(c)
        \/ Compare(c) \/ DbMarkOnline(c) \/ Refresh(c) \/ DbRefresh(c)
        \/ AskChange(c) \/ DeleteUser(c) \/ DbAuthenticate(c) \/ DbFindPerson(c) \/ DbFindPassword(c)
        \/ ComparePassword(c) \/ DbWrite(c) \/ Done(c) \/ FailAccountCall(c)
  BY DEF AccountsNext
<1>2. CASE Done(c) \/ FailAccountCall(c)
  BY <1>2, Ends DEF Done, FailAccountCall, AccountInv, AccountsTypeOK
<1>3. CASE DbCreate(c) \/ DbCreateChatter(c) \/ DbSignUp(c) \/ DbCreateColleague(c)
  BY <1>3, RegisterMoves DEF DbCreate, DbCreateChatter, DbSignUp, DbCreateColleague
<1>4. CASE DbValidate(c) \/ DbValidateChatter(c) \/ DbFindReader(c) \/ DbSignIn(c)
  BY <1>4, LoginMoves DEF DbValidate, DbValidateChatter, DbFindReader, DbSignIn
<1>. QED
  BY <1>1, <1>2, <1>3, <1>4, OpensMoves, RegisterMoves, LoginMoves, RefreshMoves, ChangeMoves

\* A request that stays in flight is still entitled to what it was.
LEMMA ObservedGrounds ==
  ASSUME AccountInv, Observe, NEW d \in AccountCall
  PROVE  /\ request'[d].pc \notin {"idle", "answered"} =>
              grounds'[d] = grounds[d] \cup Entitlement(request[d], person)'
         /\ request'[d].pc = "answered" => grounds'[d] = grounds[d]
BY DEF Observe, AccountInv, AccountsTypeOK, Entitlement

\* What entitled a request carries it to its next stage.
LEMMA AdvancesEntitled ==
  ASSUME NEW q \in Made, NEW r \in Made, NEW g, NEW h, g \subseteq h,
         r.op = q.op, r.by = q.by, r.email = q.email, r.password = q.password,
         Advances(q, r), Shape(q), EntitledSoFar(q, g),
         q.pc # "answered" => Entitlement(q, person) \subseteq g
  PROVE  Shape(r) /\ EntitledSoFar(r, h)
<1>1. Shape(r)
  BY DEF Shape, Advances
<1>2. CASE q.op = "login"
  <2>1. ASSUME q.pc = "finding", r.of \in Person, r.good, Active(r.of),
               person[r.of].email = q.email, person[r.of].password = q.password
        PROVE  r.of \in g
    BY <1>2, <2>1 DEF Entitlement, Active
  <2>. QED
    BY <1>1, <1>2, <2>1 DEF Advances, EntitledSoFar
<1>3. CASE q.op = "refresh"
  <2>1. q.pc = "finding" /\ Active(q.by) => q.by \in g
    BY <1>3 DEF Entitlement, Active
  <2>. QED
    BY <1>1, <1>3, <2>1 DEF Advances, EntitledSoFar
<1>4. CASE q.op = "changePassword"
  <2>1. q.pc = "authenticating" /\ Active(q.by) => "caller" \in g
    BY <1>4 DEF Entitlement, Active
  <2>2. q.pc = "authenticating" /\ Active(q.by) /\ q.by \in Admin => "admin" \in g
    BY <1>4 DEF Entitlement, Active
  <2>3. q.pc = "finding" /\ person[q.of].password = q.password => "secret" \in g
    BY <1>4 DEF Entitlement
  <2>4. CASE q.pc = "authenticating"
    BY <1>1, <1>4, <2>1, <2>2, <2>4 DEF Advances, EntitledSoFar
  <2>5. CASE q.pc # "authenticating"
    BY <1>1, <1>4, <2>3, <2>5 DEF Advances, EntitledSoFar
  <2>. QED
    BY <2>4, <2>5
<1>5. CASE q.op \notin {"login", "refresh", "changePassword"}
  BY <1>1, <1>5 DEF EntitledSoFar
<1>. QED
  BY <1>1, <1>2, <1>3, <1>4, <1>5

LEMMA AccountStep ==
  ASSUME AccountInv, AccountsNext
  PROVE  AccountInv'
<1>1. PICK c \in AccountCall : CallMoves(c)
  BY AccountMoves
<1>2. Observe /\ service' = service
  BY DEF AccountsNext
<1>3. AccountsTypeOK'
  <2>1. \A q, table : Entitlement(q, table) \subseteq Person \cup {"caller", "admin", "secret"}
    BY DEF Entitlement, IsActive
  <2>2. grounds' \in [AccountCall -> SUBSET (Person \cup {"caller", "admin", "secret"})]
    BY <1>2, <2>1 DEF Observe, AccountInv, AccountsTypeOK
  <2>. QED
    BY <1>1, <1>2, <2>2 DEF CallMoves, AccountInv, AccountsTypeOK, Made
<1>4. ASSUME NEW d \in AccountCall
      PROVE  /\ Shape(request'[d])
             /\ request'[d].pc \notin {"idle", "answered"} =>
                  Entitlement(request[d], person)' \subseteq grounds'[d]
             /\ EntitledSoFar(request'[d], grounds'[d])
  <2>1. /\ request[d] = NoAccountCall \/ request[d] \in Made
        /\ request'[d] = NoAccountCall \/ request'[d] \in Made
    BY <1>1 DEF CallMoves, AccountInv, AccountsTypeOK, Made
  <2>2. \A q \in Made : q.pc # "idle"
    BY DEF Made, Stage
  <2>3. request'[d].pc # "idle" => grounds[d] \subseteq grounds'[d]
    BY <1>2, ObservedGrounds
  <2>4. request'[d].pc \notin {"idle", "answered"} =>
          Entitlement(request[d], person)' \subseteq grounds'[d]
    BY <1>2, ObservedGrounds
  <2>5. CASE request'[d] = NoAccountCall
    BY <2>4, <2>5, IdleCall
  <2>6. CASE request'[d] = request[d] /\ request[d] \in Made
    <3>1. EntitledSoFar(request[d], grounds[d]) /\ Shape(request[d])
      BY DEF AccountInv
    <3>2. EntitledSoFar(request[d], grounds'[d])
      BY <2>2, <2>3, <2>6, <3>1 DEF EntitledSoFar
    <3>. QED
      BY <2>4, <2>6, <3>1, <3>2
  <2>7. CASE d = c /\ request'[d] \in Made /\ Opens(request'[d])
    BY <2>4, <2>7 DEF Opens, Shape, EntitledSoFar
  <2>8. CASE d = c /\ request[d] \in Made /\ request'[d] \in Made
             /\ request'[d].op = request[d].op /\ request'[d].by = request[d].by
             /\ request'[d].email = request[d].email /\ request'[d].password = request[d].password
             /\ Advances(request[d], request'[d])
    BY <2>2, <2>3, <2>4, <2>8, AdvancesEntitled DEF AccountInv
  <2>9. CASE d # c
    BY <1>1, <2>1, <2>5, <2>6, <2>9 DEF CallMoves
  <2>. QED
    BY <1>1, <2>5, <2>7, <2>8, <2>9 DEF CallMoves, Becomes
<1>. QED
  BY <1>3, <1>4 DEF AccountInv

\* The invariant of accounts and tokens.
THEOREM AccountsInvariant == AccountsSpec => []AccountInv
<1>1. AccountsInit => AccountInv
  BY IdleCall DEF AccountsInit, AccountInv, AccountsTypeOK, NoAccountCall, Shape, EntitledSoFar
<1>2. AccountInv /\ [AccountsNext]_accountVars => AccountInv'
  <2>1. AccountInv /\ UNCHANGED accountVars => AccountInv'
    BY DEF accountVars, AccountInv, AccountsTypeOK
  <2>. QED
    BY <2>1, AccountStep
<1>. QED
  BY <1>1, <1>2, PTL DEF AccountsSpec

\* Tokens and new passwords are given for what was true at some moment of the request.
THEOREM EntitlementHolds == AccountsSpec => []WasEntitled
<1>1. AccountInv => WasEntitled
  BY DEF AccountInv, EntitledSoFar, WasEntitled
<1>. QED
  BY <1>1, AccountsInvariant, PTL

----------------------------------------------------------------------------
(* Statistics *)

ReportsSpec == ReportsInit /\ [][ReportsNext]_reportVars

\* A figure that has been read is right for the rows that have not changed since the
\* request began, whether or not the others are out.
FiguresRight(r) ==
  /\ r.pc = "finding" => r.of \in Section /\ {"total", "active"} \subseteq r.left
  /\ r.pc = "answered" => r.left = {}
  /\ r.pc \in {"counting", "answered"} =>
       /\ "total" \notin r.left => RightBut(r.total, StaffOf(r.of), r.touched \cap Staff)
       /\ "active" \notin r.left => RightBut(r.active, ActiveStaffOf(r.of), r.touched \cap Staff)
       /\ r.of = Company /\ "sections" \notin r.left =>
            RightBut(r.sections, ActiveSections, r.touched \cap Section)

ReportInv == ReportsTypeOK /\ \A c \in ReportCall : FiguresRight(report[c])

\* A figure stays right when only rows that are marked as touched enter or leave.
LEMMA RightStays ==
  ASSUME NEW U, IsFiniteSet(U), NEW S \in SUBSET U, NEW T \in SUBSET U,
         NEW s \in SUBSET U, NEW t \in SUBSET U, s \subseteq t, S \ t = T \ t,
         NEW n, RightBut(n, S, s)
  PROVE  RightBut(n, T, t)
<1>1. T \ t \subseteq S \ s /\ S \cup s \subseteq T \cup t
  OBVIOUS
<1>2. /\ IsFiniteSet(S \ s) /\ IsFiniteSet(T \cup t) /\ IsFiniteSet(S \cup s) /\ IsFiniteSet(T \ t)
  BY FS_Subset
<1>3. /\ Cardinality(T \ t) \in Nat /\ Cardinality(S \ s) \in Nat
      /\ Cardinality(S \cup s) \in Nat /\ Cardinality(T \cup t) \in Nat
  BY <1>2, FS_CardinalityType
<1>4. Cardinality(T \ t) <= Cardinality(S \ s) /\ Cardinality(S \cup s) <= Cardinality(T \cup t)
  BY <1>1, <1>2, FS_Subset
<1>. QED
  BY <1>3, <1>4 DEF RightBut

\* A figure is right when it is read.
LEMMA RightWhenRead ==
  ASSUME NEW U, IsFiniteSet(U), NEW S \in SUBSET U, NEW t \in SUBSET U
  PROVE  RightBut(Cardinality(S), S, t) /\ Cardinality(S) \in 0..Cardinality(U)
<1>1. /\ IsFiniteSet(S) /\ IsFiniteSet(S \ t) /\ IsFiniteSet(S \cup t)
  BY FS_Subset
<1>2. /\ Cardinality(S) \in Nat /\ Cardinality(S \ t) \in Nat /\ Cardinality(S \cup t) \in Nat
      /\ Cardinality(U) \in Nat
  BY <1>1, FS_CardinalityType
<1>3. /\ Cardinality(S \ t) <= Cardinality(S) /\ Cardinality(S) <= Cardinality(S \cup t)
      /\ Cardinality(S) <= Cardinality(U)
  BY <1>1, FS_Subset
<1>. QED
  BY <1>2, <1>3 DEF RightBut

\* Of two figures of sets one in the other, the difference is out by what has changed.
LEMMA DifferenceRight ==
  ASSUME NEW U, IsFiniteSet(U), NEW m \in SUBSET U, NEW a \in SUBSET m, NEW t \in SUBSET U,
         NEW x \in Nat, NEW y \in Nat, RightBut(x, m, t), RightBut(y, a, t)
  PROVE  x - y \in (Cardinality((m \ a) \ t) - Cardinality(t))..
                   (Cardinality((m \ a) \ t) + Cardinality(t))
<1>1. /\ IsFiniteSet(m \ t) /\ IsFiniteSet(a \ t) /\ IsFiniteSet((m \ a) \ t) /\ IsFiniteSet(t)
  BY FS_Subset
<1>2. /\ Cardinality(m \ t) \in Nat /\ Cardinality(a \ t) \in Nat
      /\ Cardinality((m \ a) \ t) \in Nat /\ Cardinality(t) \in Nat
  BY <1>1, FS_CardinalityType
<1>3. ASSUME NEW S, NEW T, IsFiniteSet(S), IsFiniteSet(T), S \cap T = {}
      PROVE  Cardinality(S \cup T) = Cardinality(S) + Cardinality(T)
  <2>1. /\ Cardinality(S \cup T) = Cardinality(S) + Cardinality(T) - Cardinality(S \cap T)
        /\ Cardinality(S) \in Nat /\ Cardinality(T) \in Nat
    BY <1>3, FS_Union, FS_CardinalityType
  <2>2. Cardinality(S \cap T) = 0
    BY <1>3, FS_EmptySet
  <2>. QED
    BY <2>1, <2>2
<1>4. Cardinality(m \ t) = Cardinality(a \ t) + Cardinality((m \ a) \ t)
  <2>1. m \ t = (a \ t) \cup ((m \ a) \ t) /\ (a \ t) \cap ((m \ a) \ t) = {}
    OBVIOUS
  <2>. QED
    BY <1>1, <1>3, <2>1
<1>5. /\ Cardinality(m \cup t) = Cardinality(m \ t) + Cardinality(t)
      /\ Cardinality(a \cup t) = Cardinality(a \ t) + Cardinality(t)
  <2>1. m \cup t = (m \ t) \cup t /\ a \cup t = (a \ t) \cup t
    OBVIOUS
  <2>. QED
    BY <1>1, <1>3, <2>1
<1>. QED
  BY <1>2, <1>4, <1>5 DEF RightBut

LEMMA ReportsStayRight ==
  ASSUME ReportInv, NEW changed \in SUBSET (Staff \cup Section), Touch(changed),
         staff' \in [Staff -> StaffRow \cup {NoStaff}],
         section' \in [Section -> {"active", "inactive", "absent"}],
         \A e \in Staff \ changed : staff'[e] = staff[e],
         \A d \in Section \ changed : section'[d] = section[d]
  PROVE  ReportInv'
<1>1. ASSUME NEW c \in ReportCall
      PROVE  \/ report'[c] = report[c] /\ report[c] = NoReport
             \/ report'[c] = [report[c] EXCEPT !.touched = @ \cup changed]
  BY DEF Touch
<1>2. ReportsTypeOK'
  <2>1. \A c \in ReportCall : report[c].touched \cup changed \subseteq Staff \cup Section
    BY DEF ReportInv, ReportsTypeOK
  <2>. DEFINE Row == [pc : {"idle", "finding", "counting", "answered"}, of : Section \cup {Company},
                      left : SUBSET Figure, total : 0..Cardinality(Staff),
                      active : 0..Cardinality(Staff), sections : 0..Cardinality(Section),
                      touched : SUBSET (Staff \cup Section)]
  <2>2. ASSUME NEW c \in ReportCall PROVE report'[c] \in Row
    <3>1. report[c] \in Row
      BY DEF ReportInv, ReportsTypeOK
    <3>. QED
      BY <1>1, <2>1, <3>1
  <2>3. report' = [c \in ReportCall |-> report'[c]]
    BY DEF Touch
  <2>4. report' \in [ReportCall -> Row]
    BY <2>2, <2>3
  <2>. QED
    BY <2>4 DEF ReportsTypeOK
<1>3. ASSUME NEW c \in ReportCall PROVE FiguresRight(report[c])'
  <2>1. CASE report'[c] = NoReport
    BY <2>1 DEF NoReport, FiguresRight
  <2>2. CASE report'[c] = [report[c] EXCEPT !.touched = @ \cup changed]
    <3>. DEFINE r == report[c]
                t == r.touched \cup changed
    <3>1. /\ report'[c].pc = r.pc /\ report'[c].of = r.of /\ report'[c].left = r.left
          /\ report'[c].total = r.total /\ report'[c].active = r.active
          /\ report'[c].sections = r.sections /\ report'[c].touched = t
      BY <2>2 DEF ReportInv, ReportsTypeOK
    <3>2. \A of : /\ StaffOf(of) \ (t \cap Staff) = StaffOf(of)' \ (t \cap Staff)
                  /\ ActiveStaffOf(of) \ (t \cap Staff) = ActiveStaffOf(of)' \ (t \cap Staff)
      BY DEF StaffOf, ActiveStaffOf
    <3>3. ActiveSections \ (t \cap Section) = ActiveSections' \ (t \cap Section)
      BY DEF ActiveSections
    <3>4. \A of : /\ StaffOf(of) \subseteq Staff /\ StaffOf(of)' \subseteq Staff
                  /\ ActiveStaffOf(of) \subseteq Staff /\ ActiveStaffOf(of)' \subseteq Staff
      BY DEF StaffOf, ActiveStaffOf
    <3>5. ActiveSections \subseteq Section /\ ActiveSections' \subseteq Section
      BY DEF ActiveSections
    <3>6. /\ r.touched \cap Staff \subseteq t \cap Staff
          /\ r.touched \cap Section \subseteq t \cap Section
      OBVIOUS
    <3>7. ASSUME NEW of, NEW n, RightBut(n, StaffOf(of), r.touched \cap Staff)
          PROVE  RightBut(n, StaffOf(of)', t \cap Staff)
      BY <3>2, <3>4, <3>6, <3>7, RightStays, FiniteAssumption
    <3>8. ASSUME NEW of, NEW n, RightBut(n, ActiveStaffOf(of), r.touched \cap Staff)
          PROVE  RightBut(n, ActiveStaffOf(of)', t \cap Staff)
      BY <3>2, <3>4, <3>6, <3>8, RightStays, FiniteAssumption
    <3>9. ASSUME NEW n, RightBut(n, ActiveSections, r.touched \cap Section)
          PROVE  RightBut(n, ActiveSections', t \cap Section)
      BY <3>3, <3>5, <3>6, <3>9, RightStays, FiniteAssumption
    <3>. QED
      BY <3>1, <3>7, <3>8, <3>9 DEF ReportInv, FiguresRight
  <2>. QED
    BY <1>1, <2>1, <2>2
<1>. QED
  BY <1>2, <1>3 DEF ReportInv

LEMMA RowsMoveRight ==
  ASSUME ReportInv,
         \/ \E e \in Staff : Hire(e) \/ Reassign(e) \/ Dismiss(e)
         \/ \E d \in Section : AddSection(d) \/ Deactivate(d) \/ Reactivate(d) \/ CloseSection(d)
  PROVE  ReportInv'
<1>. USE DEF ReportInv, ReportsTypeOK
<1>1. ASSUME NEW e \in Staff, NEW row \in StaffRow \cup {NoStaff}, SetStaff(e, row)
      PROVE  ReportInv'
  <2>1. /\ staff' \in [Staff -> StaffRow \cup {NoStaff}]
        /\ \A f \in Staff \ {e} : staff'[f] = staff[f]
        /\ section' = section /\ Touch({e}) /\ {e} \in SUBSET (Staff \cup Section)
    BY <1>1 DEF SetStaff
  <2>. QED
    BY <2>1, ReportsStayRight
<1>2. ASSUME NEW d \in Section, NEW state \in {"active", "inactive"}, SetSection(d, state)
      PROVE  ReportInv'
  <2>1. /\ section' \in [Section -> {"active", "inactive", "absent"}]
        /\ \A f \in Section \ {d} : section'[f] = section[f]
        /\ staff' = staff /\ Touch({d}) /\ {d} \in SUBSET (Staff \cup Section)
    BY <1>2 DEF SetSection
  <2>. QED
    BY <2>1, ReportsStayRight
<1>3. ASSUME NEW d \in Section, CloseSection(d) PROVE ReportInv'
  <2>1. /\ section' \in [Section -> {"active", "inactive", "absent"}]
        /\ \A f \in Section \ {d} : section'[f] = section[f]
        /\ Touch({d} \cup StaffOf(d)) /\ {d} \cup StaffOf(d) \in SUBSET (Staff \cup Section)
    BY <1>3 DEF CloseSection, StaffOf
  <2>2. \A e \in StaffOf(d) : [staff[e] EXCEPT !.dept = Nowhere] \in StaffRow
    BY DEF StaffOf, StaffRow, NoStaff
  <2>3. /\ staff' \in [Staff -> StaffRow \cup {NoStaff}]
        /\ \A e \in Staff \ StaffOf(d) : staff'[e] = staff[e]
    BY <1>3, <2>2 DEF CloseSection
  <2>. QED
    BY <2>1, <2>3, ReportsStayRight
<1>. QED
  BY <1>1, <1>2, <1>3 DEF Hire, Reassign, Dismiss, AddSection, Deactivate, Reactivate

LEMMA ReportMovesRight ==
  ASSUME ReportInv, NEW c \in ReportCall,
         \/ AskCompany(c) \/ AskSection(c) \/ DbFindSection(c)
         \/ DbCountAll(c) \/ DbCountActive(c) \/ DbCountSections(c) \/ EndReport(c)
  PROVE  ReportInv'
<1>. DEFINE r == report[c]
            Row == [pc : {"idle", "finding", "counting", "answered"}, of : Section \cup {Company},
                    left : SUBSET Figure, total : 0..Cardinality(Staff),
                    active : 0..Cardinality(Staff), sections : 0..Cardinality(Section),
                    touched : SUBSET (Staff \cup Section)]
<1>1. UNCHANGED <<staff, section>>
  BY DEF AskCompany, AskSection, AskReport, DbFindSection, DbCountAll, DbCountActive,
         DbCountSections, FigureIs, EndReport
<1>2. ASSUME NEW row \in Row, report' = [report EXCEPT ![c] = row], FiguresRight(row)
      PROVE  ReportInv'
  <2>1. ReportsTypeOK'
    BY <1>1, <1>2 DEF ReportInv, ReportsTypeOK
  <2>2. \A x : FiguresRight(x) <=> FiguresRight(x)'
    BY <1>1 DEF FiguresRight, StaffOf, ActiveStaffOf, ActiveSections
  <2>3. \A d \in ReportCall : FiguresRight(report'[d])
    BY <1>2 DEF ReportInv, ReportsTypeOK
  <2>. QED
    BY <2>1, <2>2, <2>3 DEF ReportInv
<1>3. r \in Row /\ FiguresRight(r)
  BY DEF ReportInv, ReportsTypeOK
<1>4. NoReport \in Row /\ FiguresRight(NoReport)
  <2>1. 0 \in 0..Cardinality(Staff) /\ 0 \in 0..Cardinality(Section)
    BY FiniteAssumption, FS_CardinalityType
  <2>. QED
    BY <2>1 DEF NoReport, FiguresRight, Figure
<1>5. CASE AskCompany(c)
  <2>. DEFINE row == [r EXCEPT !.pc = "counting", !.of = Company, !.left = Figure]
  <2>1. row \in Row /\ FiguresRight(row)
    BY <1>3 DEF FiguresRight, Figure
  <2>2. report' = [report EXCEPT ![c] = row]
    BY <1>5 DEF AskCompany, AskReport
  <2>. HIDE DEF row, Row
  <2>. QED
    BY <1>2, <2>1, <2>2
<1>6. CASE AskSection(c)
  <2>1. PICK d \in Section : AskReport(c, "finding", d, {"total", "active"})
    BY <1>6 DEF AskSection
  <2>. DEFINE row == [r EXCEPT !.pc = "finding", !.of = d, !.left = {"total", "active"}]
  <2>2. row \in Row /\ FiguresRight(row)
    BY <1>3 DEF FiguresRight, Figure
  <2>3. report' = [report EXCEPT ![c] = row]
    BY <2>1 DEF AskReport
  <2>. HIDE DEF row, Row
  <2>. QED
    BY <1>2, <2>2, <2>3
<1>7. CASE DbFindSection(c)
  <2>. DEFINE row == [r EXCEPT !.pc = "counting"]
  <2>1. row \in Row /\ FiguresRight(row)
    BY <1>3, <1>7, PlaceAssumption DEF FiguresRight, DbFindSection
  <2>2. report' = [report EXCEPT ![c] = row] \/ report' = [report EXCEPT ![c] = NoReport]
    BY <1>7 DEF DbFindSection
  <2>. HIDE DEF row, Row
  <2>. QED
    BY <1>2, <1>4, <2>1, <2>2
<1>8. CASE EndReport(c)
  <2>. HIDE DEF Row
  <2>. QED
    BY <1>2, <1>4, <1>8 DEF EndReport
<1>9. \A of : /\ StaffOf(of) \in SUBSET Staff /\ ActiveStaffOf(of) \in SUBSET Staff
              /\ ActiveSections \in SUBSET Section
  BY DEF StaffOf, ActiveStaffOf, ActiveSections
<1>10. r.touched \cap Staff \in SUBSET Staff /\ r.touched \cap Section \in SUBSET Section
  OBVIOUS
<1>11. CASE DbCountAll(c)
  <2>. DEFINE n == Cardinality(StaffOf(r.of))
              row == [r EXCEPT !.left = @ \ {"total"}, !.total = n,
                        !.pc = IF r.left = {"total"} THEN "answered" ELSE @]
  <2>1. n \in 0..Cardinality(Staff) /\ RightBut(n, StaffOf(r.of), r.touched \cap Staff)
    BY <1>9, <1>10, FiniteAssumption, RightWhenRead
  <2>2. report' = [report EXCEPT ![c] = row] /\ r.pc = "counting"
    BY <1>11 DEF DbCountAll, FigureIs
  <2>. HIDE DEF n
  <2>3. row \in Row /\ FiguresRight(row)
    BY <1>3, <2>1, <2>2 DEF FiguresRight
  <2>. HIDE DEF row, Row
  <2>. QED
    BY <1>2, <2>2, <2>3
<1>12. CASE DbCountActive(c)
  <2>. DEFINE n == Cardinality(ActiveStaffOf(r.of))
              row == [r EXCEPT !.left = @ \ {"active"}, !.active = n,
                        !.pc = IF r.left = {"active"} THEN "answered" ELSE @]
  <2>1. n \in 0..Cardinality(Staff) /\ RightBut(n, ActiveStaffOf(r.of), r.touched \cap Staff)
    BY <1>9, <1>10, FiniteAssumption, RightWhenRead
  <2>2. report' = [report EXCEPT ![c] = row] /\ r.pc = "counting"
    BY <1>12 DEF DbCountActive, FigureIs
  <2>. HIDE DEF n
  <2>3. row \in Row /\ FiguresRight(row)
    BY <1>3, <2>1, <2>2 DEF FiguresRight
  <2>. HIDE DEF row, Row
  <2>. QED
    BY <1>2, <2>2, <2>3
<1>13. CASE DbCountSections(c)
  <2>. DEFINE n == Cardinality(ActiveSections)
              row == [r EXCEPT !.left = @ \ {"sections"}, !.sections = n,
                        !.pc = IF r.left = {"sections"} THEN "answered" ELSE @]
  <2>1. n \in 0..Cardinality(Section) /\ RightBut(n, ActiveSections, r.touched \cap Section)
    BY <1>9, <1>10, FiniteAssumption, RightWhenRead
  <2>2. report' = [report EXCEPT ![c] = row] /\ r.pc = "counting"
    BY <1>13 DEF DbCountSections, FigureIs
  <2>. HIDE DEF n
  <2>3. row \in Row /\ FiguresRight(row)
    BY <1>3, <2>1, <2>2 DEF FiguresRight
  <2>. HIDE DEF row, Row
  <2>. QED
    BY <1>2, <2>2, <2>3
<1>. QED
  BY <1>5, <1>6, <1>7, <1>8, <1>11, <1>12, <1>13

\* The invariant of the statistics.
THEOREM ReportsInvariant == ReportsSpec => []ReportInv
<1>1. ReportsInit => ReportInv
  <2>1. 0 \in 0..Cardinality(Staff) /\ 0 \in 0..Cardinality(Section)
    BY FiniteAssumption, FS_CardinalityType
  <2>. QED
    BY <2>1 DEF ReportsInit, ReportInv, ReportsTypeOK, NoReport, FiguresRight
<1>2. ReportInv /\ [ReportsNext]_reportVars => ReportInv'
  <2>1. ReportInv /\ UNCHANGED reportVars => ReportInv'
    <3>1. UNCHANGED reportVars => \A x : FiguresRight(x) <=> FiguresRight(x)'
      BY DEF reportVars, FiguresRight, StaffOf, ActiveStaffOf, ActiveSections
    <3>. QED
      BY <3>1 DEF reportVars, ReportInv, ReportsTypeOK
  <2>. QED
    BY <2>1, RowsMoveRight, ReportMovesRight DEF ReportsNext
<1>. QED
  BY <1>1, <1>2, PTL DEF ReportsSpec

\* The figures of a report are right for the rows that have not changed, and their
\* difference is out by no more than the rows that have.
THEOREM ReportsHold == ReportsSpec => []ReportsAddUp
<1>1. ASSUME ReportInv, NEW c \in ReportCall, report[c].pc = "answered"
      PROVE  LET r == report[c]
                 t == r.touched
                 m == StaffOf(r.of)
                 a == ActiveStaffOf(r.of)
             IN  /\ RightBut(r.total, m, t \cap Staff)
                 /\ RightBut(r.active, a, t \cap Staff)
                 /\ r.of = Company => RightBut(r.sections, ActiveSections, t \cap Section)
                 /\ r.total - r.active \in
                      (Cardinality((m \ a) \ t) - Cardinality(t \cap Staff))..
                      (Cardinality((m \ a) \ t) + Cardinality(t \cap Staff))
  <2>. DEFINE r == report[c]
              t == r.touched \cap Staff
              m == StaffOf(r.of)
              a == ActiveStaffOf(r.of)
  <2>1. /\ RightBut(r.total, m, t) /\ RightBut(r.active, a, t)
        /\ r.of = Company => RightBut(r.sections, ActiveSections, r.touched \cap Section)
    BY <1>1 DEF ReportInv, FiguresRight
  <2>2. m \in SUBSET Staff /\ a \in SUBSET m /\ t \in SUBSET Staff /\ (m \ a) \ t = (m \ a) \ r.touched
    BY DEF StaffOf, ActiveStaffOf
  <2>3. r.total \in Nat /\ r.active \in Nat
    <3>1. Cardinality(Staff) \in Nat
      BY FiniteAssumption, FS_CardinalityType
    <3>. QED
      BY <1>1, <3>1 DEF ReportInv, ReportsTypeOK
  <2>. HIDE DEF t, m, a
  <2>4. r.total - r.active \in (Cardinality((m \ a) \ t) - Cardinality(t))..
                               (Cardinality((m \ a) \ t) + Cardinality(t))
    BY <2>1, <2>2, <2>3, FiniteAssumption, DifferenceRight
  <2>. QED
    BY <2>1, <2>2, <2>4 DEF t, m, a
<1>2. ReportInv => ReportsAddUp
  BY <1>1 DEF ReportsAddUp
<1>. QED
  BY <1>2, ReportsInvariant, PTL

----------------------------------------------------------------------------
(* Lists page by page *)

\* The lists by themselves.
PagingSpec == PagingInit /\ [][PagingNext]_pagingVars

\* The rows that stand before e in the list, and how many they are.
Before(e) == {d \in Listed : rank[d] > rank[e]}
Ahead(e) == Cardinality(Before(e))

\* The rows of the page are there, among them e; where the page ends.
RowsRead == "rows" \notin walk.pending
OnPage(e) == \E i \in DOMAIN walk.rows : walk.rows[i] = e
PageEnd == Skip(walk.page) + Limit

\* The page that is asked for: its parts, and no row twice among its rows.
WalkTyped ==
  /\ walk.api \in Api /\ walk.page \in Nat \ {0} /\ walk.total \in Nat
  /\ walk \in [api : Api, page : Nat, pending : SUBSET Queries(walk.api), rows : Seq(Entry),
               total : Nat]
  /\ \A i, j \in DOMAIN walk.rows : walk.rows[i] = walk.rows[j] => i = j

\* What the table, the walk and its history are.
PagingTyped ==
  /\ rank \in [Entry -> Rank \cup {Unlisted}]
  /\ seen \in [Entry -> Nat]
  /\ stayed \subseteq Listed
  /\ Walking => WalkTyped
  /\ {came, left, tied, torn} \subseteq BOOLEAN

\* The next page will be asked for.
GoesOn == ("total" \notin walk.pending /\ walk.api # BookPages /\ ~torn) => walk.total > PageEnd

\* A row that was not shown stands where the walk has not been.
ToCome(e) ==
  /\ Ahead(e) >= Skip(walk.page)
  /\ RowsRead => \/ OnPage(e)
                 \/ Ahead(e) >= PageEnd /\ Len(walk.rows) = Limit /\ GoesOn

\* A row that was shown stands where the walk will not be again.
Passed(e) ==
  /\ seen[e] <= 1
  /\ seen[e] = 1 => Ahead(e) < Skip(walk.page)
  /\ RowsRead /\ OnPage(e) => seen[e] = 0 /\ Ahead(e) < PageEnd

\* What the history of the walk still lets one say of the rows that stayed, and of
\* a count that awaits its rows.
AllToCome == Walking /\ ~left /\ ~tied => \A e \in stayed : seen[e] = 0 => ToCome(e)
AllPassed == Walking /\ ~came /\ ~tied => \A e \in stayed : Passed(e)
CountHolds == Counted /\ ~left /\ ~torn => walk.total = Cardinality(Listed)

\* The rows not shown are ahead of the walk, those shown are behind it, and a count
\* that awaits its rows is right.
PagingInv == PagingTyped /\ AllToCome /\ AllPassed /\ CountHolds

----------------------------------------------------------------------------

\* Each page begins where the one before it ends, and the first at the beginning.
LEMMA SkipSteps ==
  ASSUME NEW page \in Nat \ {0}
  PROVE  /\ Skip(page) \in Nat /\ Skip(1) = 0
         /\ Skip(page + 1) = Skip(page) + Limit
         /\ Skip(page) + Limit = page * Limit
BY PagingAssumption DEF Skip

\* The values of the column are numbers.
LEMMA RankNumber ==
  ASSUME rank \in [Entry -> Rank \cup {Unlisted}], NEW e \in Listed
  PROVE  e \in Entry /\ rank[e] \in Nat
<1>1. Rank \subseteq Nat
  BY PagingAssumption
<1>. QED
  BY <1>1 DEF Listed, Unlisted

\* What is listed is finite, and every row stands before fewer than all.
LEMMA AheadBound ==
  ASSUME rank \in [Entry -> Rank \cup {Unlisted}], NEW e \in Listed
  PROVE  /\ Ahead(e) \in Nat /\ Cardinality(Listed) \in Nat
         /\ Ahead(e) < Cardinality(Listed)
<1>1. IsFiniteSet(Listed) /\ Cardinality(Listed) \in Nat
  BY PagingAssumption, FS_Subset, FS_CardinalityType DEF Listed
<1>2. Before(e) \subseteq Listed \ {e}
  <2>1. rank[e] \in Nat
    BY RankNumber
  <2>. QED
    BY <2>1 DEF Before
<1>3. /\ IsFiniteSet(Listed \ {e}) /\ Cardinality(Listed \ {e}) = Cardinality(Listed) - 1
  BY <1>1, FS_RemoveElement
<1>4. IsFiniteSet(Before(e)) /\ Cardinality(Before(e)) <= Cardinality(Listed \ {e})
  BY <1>2, <1>3, FS_Subset
<1>5. Ahead(e) \in Nat
  BY <1>4, FS_CardinalityType DEF Ahead
<1>. QED
  BY <1>1, <1>3, <1>4, <1>5 DEF Ahead

\* An order of the list has every row in one place.
LEMMA OrderPlaces ==
  ASSUME NEW s \in Orders, rank \in [Entry -> Rank \cup {Unlisted}]
  PROVE  /\ s \in Seq(Listed) /\ DOMAIN s = 1..Len(s) /\ Len(s) = Cardinality(Listed)
         /\ \A i, j \in DOMAIN s : s[i] = s[j] => i = j
         /\ \A e \in Listed : \E i \in DOMAIN s : s[i] = e
<1>. DEFINE n == Cardinality(Listed)
<1>1. IsFiniteSet(Listed) /\ n \in Nat
  BY PagingAssumption, FS_Subset, FS_CardinalityType DEF Listed
<1>2. s \in [1..n -> Listed] /\ \A i, j \in 1..n : i # j => s[i] # s[j]
  BY DEF Orders, SetToSeqs
<1>3. s \in Injection(1..n, Listed)
  BY <1>2 DEF Injection, IsInjective
<1>4. Cardinality(1..n) = n
  BY <1>1, FS_Interval
<1>5. s \in Surjection(1..n, Listed)
  BY <1>1, <1>3, <1>4, FS_Injection
<1>6. s \in Seq(Listed) /\ Len(s) = n
  BY <1>1, <1>2
<1>. QED
  BY <1>2, <1>5, <1>6 DEF Surjection

\* With no ties, the place of a row is told by the rows before it.
LEMMA PlaceIsAhead ==
  ASSUME NEW s \in Orders, rank \in [Entry -> Rank \cup {Unlisted}], ~Ties,
         NEW k \in DOMAIN s
  PROVE  Ahead(s[k]) = k - 1
<1>. DEFINE P == 1..(k - 1)
            f == [i \in P |-> s[i]]
<1>1. /\ s \in Seq(Listed) /\ DOMAIN s = 1..Len(s) /\ Len(s) \in Nat
      /\ \A i, j \in DOMAIN s : s[i] = s[j] => i = j
      /\ \A e \in Listed : \E i \in DOMAIN s : s[i] = e
  BY OrderPlaces
<1>2. \A i, j \in DOMAIN s : i < j => rank[s[i]] >= rank[s[j]]
  <2>1. CASE Sorted
    BY <2>1 DEF Orders
  <2>2. CASE ~Sorted
    <3>1. \A i, j \in DOMAIN s : ~(i < j)
      <4>1. \A i, j \in DOMAIN s : s[i] = s[j]
        BY <1>1, <2>2 DEF Ties
      <4>. QED
        BY <1>1, <4>1
    <3>. QED
      BY <3>1
  <2>. QED
    BY <2>1, <2>2
<1>3. \A i \in DOMAIN s : s[i] \in Listed /\ rank[s[i]] \in Nat
  <2>. SUFFICES ASSUME NEW i \in DOMAIN s PROVE s[i] \in Listed /\ rank[s[i]] \in Nat
    OBVIOUS
  <2>1. s[i] \in Listed
    BY <1>1
  <2>. QED
    BY <2>1, RankNumber
<1>4. \A i \in P : s[i] \in Before(s[k])
  <2>. SUFFICES ASSUME NEW i \in P PROVE s[i] \in Before(s[k])
    OBVIOUS
  <2>1. i \in DOMAIN s /\ i < k
    BY <1>1
  <2>2. s[i] # s[k] /\ rank[s[i]] >= rank[s[k]]
    BY <1>1, <1>2, <2>1
  <2>3. rank[s[i]] # rank[s[k]]
    BY <1>3, <2>1, <2>2 DEF Ties
  <2>. QED
    BY <1>3, <2>1, <2>2, <2>3 DEF Before
<1>5. ASSUME NEW d \in Before(s[k]) PROVE \E i \in P : f[i] = d
  <2>1. PICK i \in DOMAIN s : s[i] = d
    BY <1>1 DEF Before
  <2>2. rank[s[i]] > rank[s[k]]
    BY <2>1 DEF Before
  <2>3. i # k /\ ~(k < i)
    BY <1>2, <1>3, <2>2
  <2>. QED
    BY <1>1, <2>1, <2>3
<1>6. f \in Bijection(P, Before(s[k]))
  <2>1. \A i \in P : i \in DOMAIN s
    BY <1>1
  <2>2. f \in [P -> Before(s[k])]
    BY <1>4
  <2>3. \A i, j \in P : f[i] = f[j] => i = j
    BY <1>1, <2>1
  <2>. QED
    BY <2>2, <2>3, <1>5 DEF Bijection, Injection, Surjection, IsInjective
<1>7. ExistsBijection(P, Before(s[k]))
  BY <1>6 DEF ExistsBijection
<1>8. k - 1 \in Nat
  BY <1>1
<1>. QED
  BY <1>7, <1>8, FS_CountingElements DEF Ahead

\* The lesser of two numbers.
LEMMA LesserOfTwo ==
  ASSUME NEW a \in Nat, NEW b \in Nat
  PROVE  Min({a, b}) = IF a <= b THEN a ELSE b
<1>. DEFINE M == IF a <= b THEN a ELSE b
<1>1. M \in {a, b} /\ \A y \in {a, b} : M <= y
  OBVIOUS
<1>2. \A x \in {a, b} : (\A y \in {a, b} : x <= y) => x = M
  OBVIOUS
<1>. QED
  BY <1>1, <1>2 DEF Min

\* What SubSeq takes of a sequence, from the place after a to place m.
LEMMA Slice ==
  ASSUME NEW S, NEW s \in Seq(S), NEW a \in Nat, NEW m \in Nat, m <= Len(s)
  PROVE  /\ SubSeq(s, a + 1, m) \in Seq(S)
         /\ Len(SubSeq(s, a + 1, m)) = IF a < m THEN m - a ELSE 0
         /\ \A i \in 1..(m - a) : SubSeq(s, a + 1, m)[i] = s[i + a]
<1>1. \A i \in (a + 1)..m : s[i] \in S
  OBVIOUS
<1>2. m - (a + 1) + 1 = m - a /\ \A i \in Int : a + 1 + i - 1 = i + a
  OBVIOUS
<1>3. (a + 1 <= m) = (a < m)
  OBVIOUS
<1>. QED
  BY <1>1, <1>2, <1>3, SubSeqProperties

\* The n rows after the first skip.
PageFrom(s, skip, n) == SubSeq(s, skip + 1, Min({skip + n, Len(s)}))

\* A page of a sequence of distinct rows: each once, and those whose place is
\* within the page.
IsPage(taken, s, skip, n) ==
  /\ skip + n <= Len(s) => Len(taken) = n
  /\ \A i \in DOMAIN taken : i \in 1..n /\ i + skip \in DOMAIN s /\ taken[i] = s[i + skip]
  /\ \A k \in DOMAIN s : skip < k /\ k <= skip + n => k - skip \in DOMAIN taken
  /\ \A i, j \in DOMAIN taken : taken[i] = taken[j] => i = j

LEMMA PageOf ==
  ASSUME NEW S, NEW s \in Seq(S), NEW skip \in Nat, NEW n \in Nat,
         \A i, j \in DOMAIN s : s[i] = s[j] => i = j
  PROVE  PageFrom(s, skip, n) \in Seq(S) /\ IsPage(PageFrom(s, skip, n), s, skip, n)
<1>. DEFINE m == IF skip + n <= Len(s) THEN skip + n ELSE Len(s)
            taken == SubSeq(s, skip + 1, m)
<1>1. Min({skip + n, Len(s)}) = m
  BY LesserOfTwo
<1>2. m \in Nat /\ m <= Len(s)
  OBVIOUS
<1>3. /\ taken \in Seq(S)
      /\ Len(taken) = IF skip < m THEN m - skip ELSE 0
      /\ \A i \in 1..(m - skip) : taken[i] = s[i + skip]
  BY <1>2, Slice
<1>. HIDE DEF taken
<1>4. DOMAIN taken = 1..(m - skip)
  BY <1>3
<1>5. skip + n <= Len(s) => Len(taken) = n
  BY <1>3
<1>6. \A i \in DOMAIN taken : i \in 1..n /\ i + skip \in DOMAIN s /\ taken[i] = s[i + skip]
  BY <1>3, <1>4
<1>7. \A k \in DOMAIN s : skip < k /\ k <= skip + n => k - skip \in DOMAIN taken
  BY <1>4
<1>8. \A i, j \in DOMAIN taken : taken[i] = taken[j] => i = j
  <2>. SUFFICES ASSUME NEW i \in DOMAIN taken, NEW j \in DOMAIN taken, taken[i] = taken[j]
                PROVE  i = j
    OBVIOUS
  <2>1. i + skip = j + skip
    BY <1>6
  <2>. QED
    BY <1>4, <2>1
<1>9. PageFrom(s, skip, n) = taken
  BY <1>1 DEF taken, PageFrom
<1>. QED
  BY <1>3, <1>5, <1>6, <1>7, <1>8, <1>9 DEF IsPage

----------------------------------------------------------------------------

\* The walk after a step, where it goes on: its fields.
WalkIs(w, api, page, pending, taken, total) ==
  /\ w.api = api /\ w.page = page /\ w.pending = pending /\ w.rows = taken /\ w.total = total
  /\ w \in [api : Api, page : Nat, pending : SUBSET Queries(api), rows : Seq(Entry), total : Nat]

\* A page that is asked for has none of its answers.
LEMMA AskingIs ==
  ASSUME NEW api \in Api, NEW page \in Nat
  PROVE  /\ WalkIs(Asking(api, page), api, page, Queries(api), << >>, 0)
         /\ Asking(api, page) # NoWalk
<1>1. api # "none"
  BY DEF Api, EmployeePages, DepartmentPages, AuditLogPages, ShipmentPages, CarrierPages,
         UserPages, NotificationPages, AuditTrailPages, BookPages
<1>2. NoWalk.api = "none"
  BY DEF NoWalk, Asking
<1>. QED
  BY <1>1, <1>2 DEF WalkIs, Asking

\* Nobody can be walking who asks for nothing.
LEMMA RealWalk ==
  ASSUME NEW w, NEW api \in Api, w.api = api
  PROVE  w # NoWalk
<1>1. api # "none"
  BY DEF Api, EmployeePages, DepartmentPages, AuditLogPages, ShipmentPages, CarrierPages,
         UserPages, NotificationPages, AuditTrailPages, BookPages
<1>2. NoWalk.api = "none"
  BY DEF NoWalk, Asking
<1>. QED
  BY <1>1, <1>2

\* Without a walk no query is pending.
LEMMA Idle ==
  NoWalk.pending = {}
BY DEF NoWalk, Asking

\* Where the page begins and ends.
LEMMA PagePlaces ==
  ASSUME PagingTyped, Walking
  PROVE  /\ walk.page \in Nat \ {0} /\ Skip(walk.page) \in Nat /\ PageEnd \in Nat
         /\ PageEnd = Skip(walk.page + 1) /\ PageEnd = walk.page * Limit
         /\ Skip(walk.page) < PageEnd
<1>1. walk.page \in Nat \ {0}
  BY DEF PagingTyped, WalkTyped
<1>2. Limit \in Nat /\ Limit > 0
  BY PagingAssumption
<1>3. Skip(walk.page) \in Nat
  BY <1>1, SkipSteps
<1>4. PageEnd = Skip(walk.page) + Limit
  BY DEF PageEnd
<1>. QED
  BY <1>1, <1>2, <1>3, <1>4, SkipSteps

\* While no row leaves the list, no row comes nearer to its beginning.
LEMMA AheadGrows ==
  ASSUME PagingTyped, PagingTyped', NEW d \in Listed, d \in Listed',
         \A x \in Listed : x \in Listed' /\ rank'[x] = rank[x]
  PROVE  Ahead(d) <= Ahead(d)'
<1>1. Before(d) \subseteq Before(d)'
  BY DEF Before
<1>2. IsFiniteSet(Before(d)')
  BY PagingAssumption, FS_Subset DEF Before, Listed
<1>. QED
  BY <1>1, <1>2, FS_Subset DEF Ahead

\* While no row enters, none is pushed back.
LEMMA AheadShrinks ==
  ASSUME PagingTyped, PagingTyped', NEW d \in Listed,
         \A x \in Listed' : x \in Listed /\ rank'[x] = rank[x], d \in Listed'
  PROVE  Ahead(d)' <= Ahead(d)
<1>1. Before(d)' \subseteq Before(d)
  BY DEF Before
<1>2. IsFiniteSet(Before(d))
  BY PagingAssumption, FS_Subset DEF Before, Listed
<1>. QED
  BY <1>1, <1>2, FS_Subset DEF Ahead

\* A row that changes: who enters pushes rows back, who leaves lets them come forward.
LEMMA ChangeKeeps ==
  ASSUME PagingInv, NEW e \in Entry, NEW k \in Rank \cup {Unlisted}, Change(e, k)
  PROVE  PagingInv'
<1>1. /\ rank \in [Entry -> Rank \cup {Unlisted}] /\ rank' = [rank EXCEPT ![e] = k]
      /\ rank[e] # k
      /\ walk' = walk /\ seen' = seen /\ tied' = tied
      /\ came' = (came \/ k # Unlisted) /\ left' = (left \/ rank[e] # Unlisted)
      /\ torn' = (torn \/ (k # Unlisted /\ Counted))
      /\ stayed' = IF k = Unlisted THEN stayed \ {e} ELSE stayed
  BY DEF PagingInv, PagingTyped, Change
<1>2. rank' \in [Entry -> Rank \cup {Unlisted}]
  BY <1>1
<1>3. Listed' = IF k = Unlisted THEN Listed \ {e} ELSE Listed \cup {e}
  BY <1>1, <1>2 DEF Listed
<1>4. PagingTyped'
  <2>1. stayed' \subseteq Listed'
    BY <1>1, <1>3 DEF PagingInv, PagingTyped
  <2>2. {came, left, tied, torn}' \subseteq BOOLEAN
    BY <1>1 DEF PagingInv, PagingTyped
  <2>3. (Walking => WalkTyped)'
    BY <1>1 DEF PagingInv, PagingTyped, Walking, WalkTyped
  <2>4. seen' \in [Entry -> Nat]
    BY <1>1 DEF PagingInv, PagingTyped
  <2>. QED
    BY <1>2, <2>1, <2>2, <2>3, <2>4 DEF PagingTyped
<1>5. PagingTyped
  BY DEF PagingInv
<1>6. AllToCome'
  <2>. SUFFICES ASSUME Walking', ~left', ~tied', NEW d \in stayed', seen'[d] = 0
                PROVE  ToCome(d)'
    BY DEF AllToCome
  <2>1. ~left /\ ~tied /\ rank[e] = Unlisted /\ k # Unlisted /\ Walking
    BY <1>1 DEF Walking
  <2>2. d \in stayed /\ seen[d] = 0 /\ d \in Listed
    BY <1>1, <1>5, <2>1 DEF PagingTyped
  <2>3. ToCome(d)
    BY <2>1, <2>2 DEF PagingInv, AllToCome
  <2>4. \A x \in Listed : x \in Listed' /\ rank'[x] = rank[x]
    BY <1>1, <1>3, <2>1 DEF Listed
  <2>5. Ahead(d) <= Ahead(d)'
    BY <1>4, <1>5, <2>2, <2>4, AheadGrows
  <2>6. Ahead(d) \in Nat /\ Ahead(d)' \in Nat
    <3>1. Ahead(d) \in Nat
      BY <1>1, <2>2, AheadBound
    <3>2. IsFiniteSet(Before(d)')
      BY PagingAssumption, FS_Subset DEF Before, Listed
    <3>. QED
      BY <3>1, <3>2, FS_CardinalityType DEF Ahead
  <2>7. Skip(walk.page) \in Nat /\ PageEnd \in Nat
    BY <1>5, <2>1, PagePlaces
  <2>8. GoesOn => GoesOn'
    BY <1>1 DEF GoesOn, PageEnd
  <2>9. Skip(walk.page)' = Skip(walk.page) /\ PageEnd' = PageEnd
    BY <1>1 DEF PageEnd
  <2>. QED
    BY <1>1, <2>3, <2>5, <2>6, <2>7, <2>8, <2>9 DEF ToCome, RowsRead, OnPage
<1>7. AllPassed'
  <2>. SUFFICES ASSUME Walking', ~came', ~tied', NEW d \in stayed' PROVE Passed(d)'
    BY DEF AllPassed
  <2>1. ~came /\ ~tied /\ k = Unlisted /\ Walking
    BY <1>1 DEF Walking
  <2>2. d \in stayed /\ d # e /\ d \in Listed /\ d \in Listed'
    BY <1>1, <1>3, <1>5, <2>1 DEF PagingTyped
  <2>3. Passed(d)
    BY <2>1, <2>2 DEF PagingInv, AllPassed
  <2>4. \A x \in Listed' : x \in Listed /\ rank'[x] = rank[x]
    BY <1>1, <1>3, <2>1 DEF Listed
  <2>5. Ahead(d)' <= Ahead(d)
    BY <1>4, <1>5, <2>2, <2>4, AheadShrinks
  <2>6. Ahead(d) \in Nat /\ Ahead(d)' \in Nat
    <3>1. Ahead(d) \in Nat
      BY <1>1, <2>2, AheadBound
    <3>2. IsFiniteSet(Before(d)')
      BY PagingAssumption, FS_Subset DEF Before, Listed
    <3>. QED
      BY <3>1, <3>2, FS_CardinalityType DEF Ahead
  <2>7. Skip(walk.page) \in Nat /\ PageEnd \in Nat
    BY <1>5, <2>1, PagePlaces
  <2>8. Skip(walk.page)' = Skip(walk.page) /\ PageEnd' = PageEnd
    BY <1>1 DEF PageEnd
  <2>. QED
    BY <1>1, <2>3, <2>5, <2>6, <2>7, <2>8 DEF Passed, RowsRead, OnPage
<1>8. CountHolds'
  BY <1>1 DEF PagingInv, CountHolds, Counted
<1>. QED
  BY <1>4, <1>6, <1>7, <1>8 DEF PagingInv

\* The rows of the page are those whose place it holds.
LEMMA RowsKeep ==
  ASSUME PagingInv, DbRows
  PROVE  PagingInv'
<1>1. PICK s \in Orders :
        walk' = [walk EXCEPT !.pending = @ \ {"rows"}, !.rows =
          PageFrom(s, Skip(walk.page), Limit)]
  BY DEF DbRows, PageFrom
<1>. DEFINE taken == PageFrom(s, Skip(walk.page), Limit)
<1>2. /\ UNCHANGED <<rank, seen, stayed, came, left, torn>>
      /\ tied' = (tied \/ Ties) /\ "rows" \in walk.pending
  BY DEF DbRows
<1>3. PagingTyped /\ rank \in [Entry -> Rank \cup {Unlisted}]
  BY DEF PagingInv, PagingTyped
<1>4. Walking
  BY <1>2, Idle DEF Walking
<1>5. WalkTyped
  BY <1>3, <1>4 DEF PagingTyped
<1>6. /\ s \in Seq(Listed) /\ DOMAIN s = 1..Len(s) /\ Len(s) = Cardinality(Listed)
      /\ \A i, j \in DOMAIN s : s[i] = s[j] => i = j
      /\ \A e \in Listed : \E i \in DOMAIN s : s[i] = e
  BY <1>3, OrderPlaces
<1>7. Skip(walk.page) \in Nat /\ PageEnd \in Nat /\ PageEnd = Skip(walk.page) + Limit
  BY <1>3, <1>4, PagePlaces DEF PageEnd
<1>8. Limit \in Nat
  BY PagingAssumption
<1>9. /\ taken \in Seq(Listed)
      /\ PageEnd <= Len(s) => Len(taken) = Limit
      /\ \A i \in DOMAIN taken :
           i \in 1..Limit /\ i + Skip(walk.page) \in DOMAIN s /\ taken[i] = s[i + Skip(walk.page)]
      /\ \A k \in DOMAIN s :
           Skip(walk.page) < k /\ k <= PageEnd => k - Skip(walk.page) \in DOMAIN taken
      /\ \A i, j \in DOMAIN taken : taken[i] = taken[j] => i = j
  <2>1. taken \in Seq(Listed) /\ IsPage(taken, s, Skip(walk.page), Limit)
    BY <1>6, <1>7, <1>8, PageOf
  <2>. QED
    BY <1>7, <2>1 DEF IsPage
<1>. HIDE DEF taken
<1>10. taken \in Seq(Entry)
  BY <1>9 DEF Listed
<1>11. /\ walk'.api = walk.api /\ walk'.page = walk.page /\ walk'.total = walk.total
       /\ walk'.pending = walk.pending \ {"rows"} /\ walk'.rows = taken
       /\ walk' \in [api : Api, page : Nat, pending : SUBSET Queries(walk.api), rows : Seq(Entry), total : Nat]
  BY <1>1, <1>5, <1>10 DEF WalkTyped, taken
<1>12. Walking' /\ Listed' = Listed /\ PageEnd' = PageEnd /\ Skip(walk.page)' = Skip(walk.page)
       /\ \A e \in Listed : Ahead(e)' = Ahead(e)
  <2>1. Walking'
    BY <1>5, <1>11, RealWalk DEF Walking, WalkTyped
  <2>. QED
    BY <1>2, <1>11, <2>1 DEF Listed, PageEnd, Ahead, Before, Skip
<1>13. PagingTyped'
  <2>1. WalkTyped'
    BY <1>5, <1>9, <1>11 DEF WalkTyped
  <2>2. {came, left, tied, torn}' \subseteq BOOLEAN
    BY <1>2, <1>3 DEF PagingTyped
  <2>. QED
    BY <1>2, <1>3, <1>12, <2>1, <2>2 DEF PagingTyped
<1>14. ASSUME ~Ties, NEW k \in DOMAIN s PROVE Ahead(s[k]) = k - 1
  BY <1>3, <1>14, PlaceIsAhead
<1>15. AllToCome'
  <2>. SUFFICES ASSUME ~left, ~tied, ~Ties, NEW e \in stayed, seen[e] = 0 PROVE ToCome(e)'
    BY <1>2 DEF AllToCome
  <2>1. ToCome(e) /\ e \in Listed
    BY <1>3, <1>4 DEF PagingInv, AllToCome, PagingTyped
  <2>2. PICK k \in DOMAIN s : s[k] = e
    BY <1>6, <2>1
  <2>3. Ahead(e) = k - 1 /\ k \in Nat /\ k <= Len(s) /\ Len(s) \in Nat
    BY <1>6, <1>14, <2>2
  <2>4. Skip(walk.page) < k
    BY <1>7, <2>1, <2>3 DEF ToCome
  <2>5. CASE k <= PageEnd
    <3>1. k - Skip(walk.page) \in DOMAIN taken /\ (k - Skip(walk.page)) + Skip(walk.page) = k
      BY <1>7, <1>9, <2>3, <2>4, <2>5
    <3>2. taken[k - Skip(walk.page)] = e
      BY <1>9, <2>2, <3>1
    <3>3. OnPage(e)'
      BY <1>11, <3>1, <3>2 DEF OnPage
    <3>. QED
      BY <1>12, <2>1, <3>3 DEF ToCome
  <2>6. CASE ~(k <= PageEnd)
    <3>1. Ahead(e) >= PageEnd /\ PageEnd < Len(s)
      BY <1>7, <2>3, <2>6
    <3>2. Len(taken) = Limit
      BY <1>7, <1>9, <2>3, <3>1
    <3>3. GoesOn'
      <4>. SUFFICES ASSUME "total" \notin walk'.pending, walk'.api # BookPages, ~torn
                    PROVE  walk.total > PageEnd
        BY <1>2, <1>11, <1>12 DEF GoesOn
      <4>1. Counted
        BY <1>2, <1>5, <1>11 DEF Counted, Queries, WalkTyped
      <4>2. walk.total = Len(s)
        BY <1>6, <4>1 DEF PagingInv, CountHolds
      <4>. QED
        BY <1>7, <2>3, <3>1, <4>2
    <3>. QED
      BY <1>11, <1>12, <2>1, <3>1, <3>2, <3>3 DEF ToCome
  <2>. QED
    BY <2>5, <2>6
<1>16. AllPassed'
  <2>. SUFFICES ASSUME ~came, ~tied, ~Ties, NEW e \in stayed PROVE Passed(e)'
    BY <1>2 DEF AllPassed
  <2>1. Passed(e) /\ e \in Listed /\ seen[e] \in Nat
    BY <1>3, <1>4 DEF PagingInv, AllPassed, PagingTyped, Listed
  <2>2. ASSUME OnPage(e)' PROVE seen[e] = 0 /\ Ahead(e) < PageEnd
    <3>1. PICK i \in DOMAIN taken : taken[i] = e
      BY <1>11, <2>2 DEF OnPage
    <3>2. i \in 1..Limit /\ i + Skip(walk.page) \in DOMAIN s /\ s[i + Skip(walk.page)] = e
      BY <1>9, <3>1
    <3>3. Ahead(e) = (i + Skip(walk.page)) - 1
      <4>1. Ahead(s[i + Skip(walk.page)]) = (i + Skip(walk.page)) - 1
        BY <1>14, <3>2
      <4>. QED
        BY <3>2, <4>1
    <3>4. Ahead(e) >= Skip(walk.page) /\ Ahead(e) < PageEnd
      BY <1>7, <1>8, <3>2, <3>3
    <3>5. seen[e] # 1
      BY <1>7, <2>1, <3>2, <3>3, <3>4 DEF Passed
    <3>. QED
      BY <2>1, <3>4, <3>5 DEF Passed
  <2>. QED
    BY <1>2, <1>12, <2>1, <2>2 DEF Passed
<1>17. CountHolds'
  BY <1>11 DEF CountHolds, Counted
<1>. QED
  BY <1>13, <1>15, <1>16, <1>17 DEF PagingInv

\* The count, if taken after the rows, counts those still to come.
LEMMA TotalKeeps ==
  ASSUME PagingInv, DbTotal
  PROVE  PagingInv'
<1>1. /\ UNCHANGED <<rank, seen, stayed, came, left, tied, torn>>
      /\ "total" \in walk.pending
      /\ walk' = [walk EXCEPT !.pending = @ \ {"total"}, !.total = Cardinality(Listed)]
  BY DEF DbTotal
<1>2. PagingTyped /\ rank \in [Entry -> Rank \cup {Unlisted}]
  BY DEF PagingInv, PagingTyped
<1>3. Walking
  BY <1>1, Idle DEF Walking
<1>4. WalkTyped
  BY <1>2, <1>3 DEF PagingTyped
<1>5. Cardinality(Listed) \in Nat
  BY PagingAssumption, FS_Subset, FS_CardinalityType DEF Listed
<1>6. /\ walk'.api = walk.api /\ walk'.page = walk.page /\ walk'.rows = walk.rows
      /\ walk'.pending = walk.pending \ {"total"} /\ walk'.total = Cardinality(Listed)
      /\ walk' \in [api : Api, page : Nat, pending : SUBSET Queries(walk.api), rows : Seq(Entry), total : Nat]
  BY <1>1, <1>4, <1>5 DEF WalkTyped
<1>7. Walking' /\ Listed' = Listed /\ PageEnd' = PageEnd /\ Skip(walk.page)' = Skip(walk.page)
       /\ (\A e \in Listed : Ahead(e)' = Ahead(e)) /\ RowsRead' = RowsRead
       /\ (\A e \in Listed : OnPage(e)' = OnPage(e))
  <2>1. Walking'
    BY <1>4, <1>6, RealWalk DEF Walking, WalkTyped
  <2>. QED
    BY <1>1, <1>6, <2>1 DEF Listed, PageEnd, Ahead, Before, Skip, RowsRead, OnPage
<1>8. PagingTyped'
  <2>1. WalkTyped'
    BY <1>4, <1>5, <1>6 DEF WalkTyped
  <2>2. {came, left, tied, torn}' \subseteq BOOLEAN
    BY <1>1, <1>2 DEF PagingTyped
  <2>. QED
    BY <1>1, <1>2, <1>7, <2>1, <2>2 DEF PagingTyped
<1>9. AllToCome'
  <2>. SUFFICES ASSUME ~left, ~tied, NEW e \in stayed, seen[e] = 0 PROVE ToCome(e)'
    BY <1>1 DEF AllToCome
  <2>1. ToCome(e) /\ e \in Listed
    BY <1>2, <1>3 DEF PagingInv, AllToCome, PagingTyped
  <2>2. Ahead(e) \in Nat /\ Ahead(e) < Cardinality(Listed)
    BY <1>2, <2>1, AheadBound
  <2>3. PageEnd \in Nat
    BY <1>2, <1>3, PagePlaces
  <2>4. Ahead(e) >= PageEnd => GoesOn'
    BY <1>5, <1>6, <1>7, <2>2, <2>3 DEF GoesOn
  <2>. QED
    BY <1>6, <1>7, <2>1, <2>4 DEF ToCome
<1>10. AllPassed'
  <2>. SUFFICES ASSUME ~came, ~tied, NEW e \in stayed PROVE Passed(e)'
    BY <1>1 DEF AllPassed
  <2>1. Passed(e) /\ e \in Listed
    BY <1>2, <1>3 DEF PagingInv, AllPassed, PagingTyped
  <2>. QED
    BY <1>1, <1>7, <2>1 DEF Passed
<1>11. CountHolds'
  BY <1>6, <1>7 DEF CountHolds
<1>. QED
  BY <1>8, <1>9, <1>10, <1>11 DEF PagingInv

\* A page that is asked for again has no rows and no total yet.
LEMMA FailKeeps ==
  ASSUME PagingInv, FailPage
  PROVE  PagingInv'
<1>1. /\ UNCHANGED <<rank, seen, stayed, came, left, tied, torn>> /\ Walking
      /\ walk' = Asking(walk.api, walk.page)
  BY DEF FailPage
<1>2. PagingTyped /\ WalkTyped
  BY <1>1 DEF PagingInv, PagingTyped
<1>3. WalkIs(walk', walk.api, walk.page, Queries(walk.api), << >>, 0) /\ Walking'
  <2>1. walk.api \in Api /\ walk.page \in Nat
    BY <1>2 DEF WalkTyped
  <2>. QED
    BY <1>1, <2>1, AskingIs DEF Walking
<1>4. ~RowsRead' /\ ~Counted'
  BY <1>3 DEF WalkIs, RowsRead, Counted, Queries
<1>5. PagingTyped'
  <2>1. WalkTyped'
    BY <1>2, <1>3 DEF WalkTyped, WalkIs
  <2>2. Listed' = Listed
    BY <1>1 DEF Listed
  <2>3. {came, left, tied, torn}' \subseteq BOOLEAN
    BY <1>1, <1>2 DEF PagingTyped
  <2>. QED
    BY <1>1, <1>2, <2>1, <2>2, <2>3 DEF PagingTyped
<1>6. Skip(walk.page)' = Skip(walk.page) /\ \A e : Ahead(e)' = Ahead(e)
  BY <1>1, <1>3 DEF WalkIs, Skip, Ahead, Before, Listed
<1>7. AllToCome'
  BY <1>1, <1>4, <1>6 DEF PagingInv, AllToCome, ToCome
<1>8. AllPassed'
  BY <1>1, <1>4, <1>6 DEF PagingInv, AllPassed, Passed
<1>9. CountHolds'
  BY <1>4 DEF CountHolds
<1>. QED
  BY <1>5, <1>7, <1>8, <1>9 DEF PagingInv

\* A new walk has shown nothing and skips nothing.
LEMMA FirstKeeps ==
  ASSUME PagingInv, NEW api \in Api, FirstPage(api)
  PROVE  PagingInv'
<1>1. /\ rank' = rank /\ stayed' = Listed
      /\ seen' = [e \in Entry |-> 0] /\ walk' = Asking(api, 1)
      /\ {came, left, tied, torn}' \subseteq BOOLEAN
  BY DEF FirstPage, Begun
<1>2. WalkIs(walk', api, 1, Queries(api), << >>, 0)
  BY <1>1, AskingIs
<1>3. ~RowsRead' /\ ~Counted'
  BY <1>2 DEF WalkIs, RowsRead, Counted, Queries
<1>4. PagingTyped'
  <2>1. WalkTyped'
    BY <1>2 DEF WalkTyped, WalkIs
  <2>2. Listed' = Listed
    BY <1>1 DEF Listed
  <2>. QED
    BY <1>1, <2>1, <2>2 DEF PagingInv, PagingTyped
<1>5. stayed' \subseteq Entry /\ \A e \in stayed' : seen'[e] = 0 /\ e \in Listed'
  BY <1>1 DEF Listed
<1>6. Skip(walk.page)' = 0
  BY <1>2, PagingAssumption DEF WalkIs, Skip
<1>7. \A e \in Listed' : Ahead(e)' \in Nat
  BY <1>4, PagingAssumption, FS_Subset, FS_CardinalityType DEF Ahead, Before, Listed
<1>8. AllToCome'
  BY <1>3, <1>5, <1>6, <1>7 DEF AllToCome, ToCome
<1>9. AllPassed'
  BY <1>3, <1>5 DEF AllPassed, Passed
<1>10. CountHolds'
  BY <1>3 DEF CountHolds
<1>. QED
  BY <1>4, <1>8, <1>9, <1>10 DEF PagingInv

\* A page shows a row once or not at all.
LEMMA ShownOnceOrNot ==
  ASSUME WalkTyped, NEW e
  PROVE  Cardinality({i \in DOMAIN walk.rows : walk.rows[i] = e}) = IF OnPage(e) THEN 1 ELSE 0
<1>. DEFINE P == {i \in DOMAIN walk.rows : walk.rows[i] = e}
<1>1. CASE OnPage(e)
  <2>1. PICK k \in DOMAIN walk.rows : walk.rows[k] = e
    BY <1>1 DEF OnPage
  <2>2. P = {k}
    BY <2>1 DEF WalkTyped
  <2>. QED
    BY <1>1, <2>2, FS_Singleton
<1>2. CASE ~OnPage(e)
  <2>1. P = {}
    BY <1>2 DEF OnPage
  <2>. QED
    BY <1>2, <2>1, FS_EmptySet
<1>. QED
  BY <1>1, <1>2

\* What the answered page does to the count of a row.
LEMMA AnswerShows ==
  ASSUME PagingInv, AnswerPage, NEW e \in Entry
  PROVE  seen'[e] = IF OnPage(e) THEN seen[e] + 1 ELSE seen[e]
<1>1. Walking /\ WalkTyped /\ seen[e] \in Nat
  BY DEF PagingInv, PagingTyped, AnswerPage
<1>2. seen'[e] = seen[e] + Cardinality({i \in DOMAIN walk.rows : walk.rows[i] = e})
  BY DEF AnswerPage
<1>. QED
  BY <1>1, <1>2, ShownOnceOrNot

\* A page that is shown moves the walk on by the rows it held.
LEMMA AnswerKeeps ==
  ASSUME PagingInv, AnswerPage
  PROVE  PagingInv'
<1>1. /\ UNCHANGED <<rank, stayed, came, left, tied, torn>> /\ Walking /\ walk.pending = {}
      /\ walk' = IF HasNext THEN Asking(walk.api, walk.page + 1) ELSE NoWalk
  BY DEF AnswerPage
<1>2. PagingTyped /\ WalkTyped /\ RowsRead
  BY <1>1 DEF PagingInv, PagingTyped, RowsRead
<1>3. \A e \in Entry : seen'[e] = IF OnPage(e) THEN seen[e] + 1 ELSE seen[e]
  BY AnswerShows
<1>4. seen' \in [Entry -> Nat]
  <2>1. seen' = [e \in Entry |-> seen'[e]]
    BY DEF AnswerPage
  <2>. QED
    BY <1>2, <1>3, <2>1 DEF PagingTyped
<1>5. Listed' = Listed /\ stayed' \subseteq Listed' /\ {came, left, tied, torn}' \subseteq BOOLEAN
  BY <1>1, <1>2 DEF Listed, PagingTyped
<1>6. CASE ~HasNext
  <2>1. walk' = NoWalk /\ ~Counted' /\ ~Walking'
    BY <1>1, <1>6, Idle DEF Counted, Walking
  <2>2. PagingTyped'
    BY <1>1, <1>2, <1>4, <1>5, <2>1 DEF PagingTyped
  <2>. QED
    BY <2>1, <2>2 DEF PagingInv, AllToCome, AllPassed, CountHolds
<1>7. CASE HasNext
  <2>1. walk.api \in Api /\ walk.page + 1 \in Nat \ {0}
    BY <1>2 DEF WalkTyped
  <2>2. WalkIs(walk', walk.api, walk.page + 1, Queries(walk.api), << >>, 0)
    BY <1>1, <1>7, <2>1, AskingIs
  <2>3. ~RowsRead' /\ ~Counted'
    BY <2>2 DEF WalkIs, RowsRead, Counted, Queries
  <2>4. WalkTyped'
    BY <2>1, <2>2 DEF WalkTyped, WalkIs
  <2>5. PagingTyped'
    BY <1>1, <1>2, <1>4, <1>5, <2>4 DEF PagingTyped
  <2>6. Skip(walk.page)' = PageEnd /\ PageEnd \in Nat /\ Skip(walk.page) < PageEnd /\ Skip(walk.page) \in Nat
    <3>1. PageEnd = Skip(walk.page + 1) /\ PageEnd \in Nat /\ Skip(walk.page) < PageEnd
          /\ Skip(walk.page) \in Nat
      BY <1>1, <1>2, PagePlaces
    <3>. QED
      BY <2>2, <3>1 DEF WalkIs, Skip
  <2>7. \A e \in stayed : e \in Entry /\ seen[e] \in Nat /\ Ahead(e)' = Ahead(e) /\ Ahead(e) \in Nat
    <3>. SUFFICES ASSUME NEW e \in stayed
                  PROVE  e \in Entry /\ seen[e] \in Nat /\ Ahead(e)' = Ahead(e) /\ Ahead(e) \in Nat
      OBVIOUS
    <3>1. e \in Listed /\ e \in Entry /\ rank \in [Entry -> Rank \cup {Unlisted}]
      BY <1>2 DEF PagingTyped, Listed
    <3>2. Ahead(e) \in Nat
      BY <3>1, AheadBound
    <3>. QED
      BY <1>1, <1>2, <3>1, <3>2 DEF PagingTyped, Ahead, Before, Listed
  <2>8. AllToCome'
    <3>. SUFFICES ASSUME ~left, ~tied, NEW e \in stayed, seen'[e] = 0 PROVE Ahead(e) >= PageEnd
      BY <1>1, <2>3, <2>6, <2>7 DEF AllToCome, ToCome
    <3>1. seen[e] = 0 /\ ~OnPage(e)
      BY <1>3, <2>7
    <3>2. ToCome(e)
      BY <1>1, <3>1 DEF PagingInv, AllToCome
    <3>. QED
      BY <1>2, <3>1, <3>2 DEF ToCome
  <2>9. AllPassed'
    <3>. SUFFICES ASSUME ~came, ~tied, NEW e \in stayed
                  PROVE  seen'[e] <= 1 /\ (seen'[e] = 1 => Ahead(e) < PageEnd)
      BY <1>1, <2>3, <2>6, <2>7 DEF AllPassed, Passed
    <3>1. Passed(e)
      BY <1>1 DEF PagingInv, AllPassed
    <3>2. CASE OnPage(e)
      BY <1>2, <1>3, <2>7, <3>1, <3>2 DEF Passed
    <3>3. CASE ~OnPage(e)
      BY <1>3, <2>6, <2>7, <3>1, <3>3 DEF Passed
    <3>. QED
      BY <3>2, <3>3
  <2>10. CountHolds'
    BY <2>3 DEF CountHolds
  <2>. QED
    BY <2>5, <2>8, <2>9, <2>10 DEF PagingInv
<1>. QED
  BY <1>6, <1>7

\* Before the first walk there is nothing to keep.
LEMMA InitKeeps ==
  ASSUME PagingInit
  PROVE  PagingInv
<1>1. rank \in [Entry -> Rank \cup {Unlisted}] /\ seen = [e \in Entry |-> 0]
      /\ stayed = Listed /\ {came, left, tied, torn} \subseteq BOOLEAN /\ walk = NoWalk
  BY DEF PagingInit
<1>2. ~Walking /\ ~Counted
  BY <1>1, Idle DEF Walking, Counted
<1>. QED
  BY <1>1, <1>2 DEF PagingInv, PagingTyped, AllToCome, AllPassed, CountHolds

\* What lasts without a step.
LEMMA StutterKeeps ==
  ASSUME PagingInv, UNCHANGED pagingVars
  PROVE  PagingInv'
BY DEF PagingInv, PagingTyped, WalkTyped, AllToCome, AllPassed, CountHolds, ToCome, Passed, GoesOn,
       PageEnd, RowsRead, OnPage, Ahead, Before, Listed, Walking, Counted, Skip, pagingVars

\* Every step keeps the invariant.
LEMMA StepKeeps ==
  ASSUME PagingInv, [PagingNext]_pagingVars
  PROVE  PagingInv'
BY FirstKeeps, RowsKeep, TotalKeeps, FailKeeps, AnswerKeeps, ChangeKeeps, StutterKeeps DEF PagingNext

\* For every table, limit and walk: the queries of a page find the rows where their
\* places say, whatever is created, deleted or moved between them (paginate,
\* findAll).
THEOREM PagingInvariant ==
  PagingSpec => []PagingInv
<1>1. PagingInit => PagingInv
  BY InitKeeps
<1>2. PagingInv /\ [PagingNext]_pagingVars => PagingInv'
  BY StepKeeps
<1>. QED
  BY <1>1, <1>2, PTL DEF PagingSpec

\* A quotient is as large as its dividend allows.
LEMMA Quotient ==
  ASSUME NEW n \in Nat, NEW q \in Nat, NEW d \in Nat \ {0}, n >= q * d
  PROVE  n \div d \in Nat /\ n \div d >= q
<1>. DEFINE r == n \div d
<1>1. r \in Nat /\ n < (r + 1) * d
  OBVIOUS
<1>. HIDE DEF r
<1>2. ASSUME r + 1 <= q PROVE FALSE
  <2>1. (r + 1) * d <= q * d
    BY <1>1, <1>2
  <2>. QED
    BY <1>1, <2>1
<1>3. r >= q
  BY <1>1, <1>2
<1>. QED
  BY <1>1, <1>3 DEF r

\* The greater of two numbers.
LEMMA GreaterOfTwo ==
  ASSUME NEW a \in Nat, NEW b \in Nat
  PROVE  Max({a, b}) = IF a >= b THEN a ELSE b
<1>. DEFINE M == IF a >= b THEN a ELSE b
<1>1. M \in {a, b} /\ \A y \in {a, b} : M >= y
  OBVIOUS
<1>2. \A x \in {a, b} : (\A y \in {a, b} : x >= y) => x = M
  OBVIOUS
<1>. QED
  BY <1>1, <1>2 DEF Max

\* Where more rows are counted than the pages so far have held, there is a next
\* page, whatever the answer calls it.
LEMMA MoreRows ==
  ASSUME PagingTyped, Walking, walk.api # BookPages, walk.total > walk.page * Limit
  PROVE  HasNext
<1>1. /\ walk.api \in Api /\ walk.page \in Nat \ {0} /\ walk.total \in Nat
      /\ Limit \in Nat \ {0}
  BY PagingAssumption DEF PagingTyped, WalkTyped
<1>2. TotalPages \in Nat /\ TotalPages >= walk.page + 1
  <2>1. walk.total + Limit - 1 \in Nat /\ walk.page * Limit \in Nat
    BY <1>1
  <2>2. (walk.page + 1) * Limit = walk.page * Limit + Limit
    BY <1>1
  <2>3. walk.total + Limit - 1 >= (walk.page + 1) * Limit
    BY <1>1, <2>1, <2>2
  <2>4. walk.page + 1 \in Nat
    BY <1>1
  <2>. QED
    BY <1>1, <2>1, <2>3, <2>4, Quotient DEF TotalPages
<1>3. Max({TotalPages, 1}) = TotalPages
  BY <1>1, <1>2, GreaterOfTwo
<1>4. walk.page < TotalPages
  BY <1>1, <1>2
<1>. QED
  BY <1>1, <1>3, <1>4 DEF HasNext, Api, EmployeePages, DepartmentPages, AuditLogPages, ShipmentPages,
     CarrierPages, UserPages, NotificationPages, AuditTrailPages, BookPages

\* Only an answer without a next page ends a walk.
LEMMA LastAnswer ==
  ASSUME PagingInv, [PagingNext]_pagingVars, Walking, ~Walking'
  PROVE  AnswerPage /\ ~HasNext
<1>1. WalkTyped /\ walk.api \in Api /\ walk.page \in Nat
  BY DEF PagingInv, PagingTyped, WalkTyped
<1>2. ~ \E api \in Api : FirstPage(api)
  BY DEF FirstPage
<1>3. ~DbRows /\ ~DbTotal
  <2>1. ASSUME DbRows PROVE walk'.api = walk.api
    BY <1>1, <2>1 DEF DbRows, WalkTyped
  <2>2. ASSUME DbTotal PROVE walk'.api = walk.api
    BY <1>1, <2>2 DEF DbTotal, WalkTyped
  <2>. QED
    BY <1>1, <2>1, <2>2, RealWalk DEF Walking
<1>4. ~FailPage
  BY <1>1, AskingIs DEF FailPage, Walking
<1>5. ~ \E e \in Entry, k \in Rank \cup {Unlisted} : Change(e, k)
  BY DEF Change, Walking
<1>6. ~UNCHANGED pagingVars
  BY DEF pagingVars, Walking
<1>7. AnswerPage
  BY <1>2, <1>3, <1>4, <1>5, <1>6 DEF PagingNext
<1>8. ASSUME HasNext PROVE FALSE
  <2>1. walk' = Asking(walk.api, walk.page + 1) /\ walk.page + 1 \in Nat
    BY <1>1, <1>7, <1>8 DEF AnswerPage
  <2>. QED
    BY <1>1, <2>1, AskingIs DEF Walking
<1>. QED
  BY <1>7, <1>8

\* At its end a walk has shown the rows that stayed.
LEMMA EndMissesNothing ==
  ASSUME PagingInv, [PagingNext]_pagingVars, Walking, ~Walking', NEW e \in stayed
  PROVE  /\ seen'[e] = 0 => left \/ tied \/ torn
         /\ seen'[e] > 1 => came \/ tied
<1>1. AnswerPage /\ ~HasNext /\ walk.pending = {}
  BY LastAnswer DEF AnswerPage
<1>2. PagingTyped /\ WalkTyped /\ e \in Entry /\ seen[e] \in Nat
  BY DEF PagingInv, PagingTyped, Listed
<1>3. seen'[e] = IF OnPage(e) THEN seen[e] + 1 ELSE seen[e]
  BY <1>1, <1>2, AnswerShows
<1>4. ASSUME seen'[e] = 0, ~left, ~tied, ~torn PROVE FALSE
  <2>1. seen[e] = 0 /\ ~OnPage(e)
    BY <1>2, <1>3, <1>4
  <2>2. ToCome(e)
    BY <1>4, <2>1 DEF PagingInv, AllToCome
  <2>3. Len(walk.rows) = Limit /\ GoesOn
    BY <1>1, <2>1, <2>2 DEF ToCome, RowsRead
  <2>4. CASE walk.api = BookPages
    BY <1>1, <2>3, <2>4 DEF HasNext, BookPages, AuditLogPages
  <2>5. CASE walk.api # BookPages
    <3>1. walk.total > PageEnd
      BY <1>1, <1>4, <2>3, <2>5 DEF GoesOn
    <3>2. PageEnd = walk.page * Limit
      BY <1>2, PagePlaces
    <3>. QED
      BY <1>1, <1>2, <2>5, <3>1, <3>2, MoreRows
  <2>. QED
    BY <2>4, <2>5
<1>5. ASSUME seen'[e] > 1, ~came, ~tied PROVE FALSE
  <2>1. Passed(e)
    BY <1>5 DEF PagingInv, AllPassed
  <2>. QED
    BY <1>1, <1>2, <1>3, <1>5, <2>1 DEF Passed, RowsRead
<1>. QED
  BY <1>4, <1>5

\* A walk to the end of a list shows each row that stayed, and once, save in the
\* cases that WalkMissesNothing names: hasNextPage, hasNext, totalPages and the full
\* page of books end no walk early, and skip and limit leave no gap.  The books, which
\* no query sorts, are promised nothing once a query found two of them.
THEOREM WalkShowsAll ==
  PagingSpec => WalkMissesNothing
<1>1. PagingInv /\ [PagingNext]_pagingVars =>
        [Walking /\ ~Walking' =>
           \A e \in stayed :
             /\ seen'[e] = 0 => left \/ tied \/ torn
             /\ seen'[e] > 1 => came \/ tied]_pagingVars
  BY EndMissesNothing
<1>. QED
  BY <1>1, PagingInvariant, PTL DEF PagingSpec, WalkMissesNothing
=============================================================================
