----------------------------- MODULE Directory -----------------------------
(* Core Concepts: departments, employees and accounts in PostgreSQL, and the
   audit log. A request passes the guards (JwtAuthGuard, JwtStrategy, RolesGuard:
   see Guards), is handled by a service that looks first and writes after, and is
   logged by the controller; each is a query of its own and nothing locks the rows
   between them.
   Of a row the model keeps what other rows and the guards depend on: an account's
   role and state, a department's name, an employee's user, department and manager.
   Bounds: a request is made once; a creation with no id left waits. *)
EXTENDS FiniteSets, Guards

CONSTANTS User, Department, Employee,   \* ids, never used twice
          Name,                         \* names of departments
          Request, Call,                \* Call: what the clients ask (bound)
          SeedUser, SeedDepartment, SeedEmployee   \* the rows of a seeded database

VARIABLES
  user,      \* User: [role, active] or NoUser
  dept,      \* Department: its name or None
  emp,       \* Employee: [user, dept, manager]; user None where there is no row
  used,      \* ids that some row has or had
  log,       \* AuditLog: the row of a request, by the user it names
  req,       \* Request: its call, who made it, the role read then, its next query
  applied,   \* history: requests that changed a row
  cut,       \* history: requests one of whose queries failed
  shifted,   \* history: requests whose user's row changed after it was read
  filled     \* history: deletions whose department got a member after the count

vars == <<user, dept, emp, used, log, req, applied, cut, shifted, filled>>
rows == <<user, dept, emp, used>>
hist == <<applied, cut, shifted, filled>>

None == "none"
Role == {"ADMIN", "MANAGER", "EMPLOYEE"}
NoUser == [role |-> None, active |-> FALSE]
NoEmployee == [user |-> None, dept |-> None, manager |-> None]
Account == [role : Role \cup {None}, active : BOOLEAN]
Profile == [user : User \cup {None}, dept : Department \cup {None},
            manager : Employee \cup {None}]

\* @Roles of the handlers; PATCH /users/:id looks at the role itself.
AdminOnly == {"createDepartment", "deleteDepartment", "deleteEmployee",
              "updateUser", "deactivate", "activate", "deleteUser"}
OnEmployee == {"updateEmployee", "assignDepartment", "removeDepartment",
               "assignManager", "removeManager", "deleteEmployee"}
OnDepartment == {"updateDepartment", "deleteDepartment"}
OnUser == {"updateUser", "deactivate", "activate", "deleteUser"}
Op == {"createDepartment", "createEmployee"} \cup OnDepartment \cup OnEmployee \cup OnUser
Roles(op) == IF op \in AdminOnly THEN {"ADMIN"} ELSE {"ADMIN", "MANAGER"}

Id == User \cup Department \cup Employee
PC == {"new", "finding", "checking", "writing", "logging", "done", "refused", "failed"}
InFlight == {"finding", "checking", "writing", "logging"}

\* A call, who made it, the role read then, and the next query.
Handler == [op : Op \cup {None}, on : Id \cup {None}, to : Id \cup Name \cup Role \cup {None},
            by : User \cup {None}, role : Role \cup {None}, pc : PC]

ASSUME IdAssumption ==
  /\ None \notin Id \cup Name
  /\ User \cap Department = {} /\ User \cap Employee = {} /\ Department \cap Employee = {}

\* The paths and bodies that ParseUuidPipe and the DTOs let through.
Asked ==
  [op : OnUser \ {"updateUser"}, on : User, to : {None}]
    \cup [op : {"updateUser"}, on : User, to : Role]
    \cup [op : {"createDepartment"}, on : {None}, to : Name]
    \cup [op : {"updateDepartment"}, on : Department, to : Name]
    \cup [op : {"deleteDepartment"}, on : Department, to : {None}]
    \cup [op : {"createEmployee"}, on : User, to : Department \cup {None}]
    \cup [op : {"updateEmployee"}, on : Employee, to : Department \cup {None}]
    \cup [op : {"assignDepartment"}, on : Employee, to : Department]
    \cup [op : {"assignManager"}, on : Employee, to : Employee]
    \cup [op : {"removeDepartment", "removeManager", "deleteEmployee"}, on : Employee, to : {None}]

ASSUME CallAssumption == Call \subseteq Asked

\* Rows that hang together: an employee has a user of its own, a department that
\* exists and a manager who exists and is someone else; names differ.
Consistent(us, ds, es) ==
  /\ \A e \in Employee : es[e] # NoEmployee =>
       /\ es[e].user # None /\ us[es[e].user] # NoUser
       /\ \A x \in Employee : es[x].user = es[e].user => x = e
       /\ es[e].dept # None => ds[es[e].dept] # None
       /\ es[e].manager # None => es[es[e].manager] # NoEmployee /\ es[e].manager # e
  /\ \A d, x \in Department : ds[d] = ds[x] /\ ds[d] # None => d = x
  /\ \A u \in User : us[u] # NoUser => us[u].role # None

ASSUME SeedAssumption ==
  /\ SeedUser \in [User -> Account]
  /\ SeedDepartment \in [Department -> Name \cup {None}]
  /\ SeedEmployee \in [Employee -> Profile]
  /\ Consistent(SeedUser, SeedDepartment, SeedEmployee)

TypeOK ==
  /\ user \in [User -> Account]
  /\ dept \in [Department -> Name \cup {None}]
  /\ emp \in [Employee -> Profile]
  /\ used \subseteq Id
  /\ log \in [Request -> User \cup {None}]
  /\ req \in [Request -> Handler]
  /\ applied \subseteq Request /\ cut \subseteq Request
  /\ shifted \subseteq Request /\ filled \subseteq Request

Init ==
  /\ user = SeedUser /\ dept = SeedDepartment /\ emp = SeedEmployee
  /\ used = {u \in User : user[u] # NoUser} \cup {d \in Department : dept[d] # None}
              \cup {e \in Employee : emp[e] # NoEmployee}
  /\ log = [r \in Request |-> None]
  /\ req = [r \in Request |-> [op |-> None, on |-> None, to |-> None, by |-> None,
                               role |-> None, pc |-> "new"]]
  /\ applied = {} /\ cut = {} /\ shifted = {} /\ filled = {}

Members(d) == {e \in Employee : emp[e].dept = d}
At(r, pc) == req[r].pc = pc
Goto(r, pc) == req' = [req EXCEPT ![r].pc = pc]

----------------------------------------------------------------------------
(* Guards and checks: queries that only read *)

\* The handler runs up to its first query once the guards let it.
FirstQuery(c) ==
  CASE c.op = "assignManager" /\ c.on = c.to -> "refused"
    [] c.op = "createEmployee"   -> "writing"
    [] c.op = "createDepartment" -> "checking"
    [] OTHER                     -> "finding"

\* Variant: a deactivated account still gets in.
AdmittedInactive(u, op) == op = "updateUser" \/ user[u].role \in Roles(op)

\* The account is active and has one of the handler's roles.
Admitted(u, op) ==
  user[u].active /\ (op = "updateUser" \/ user[u].role \in Roles(op))

\* A request with a valid token of u: JwtAuthGuard, which may refuse it before any
\* row is read; JwtStrategy.validate, RolesGuard and the start of the handler.
Authenticate(r, u, c) ==
  /\ At(r, "new") /\ user[u] # NoUser
  /\ req' = [req EXCEPT ![r] =
       [op |-> c.op, on |-> c.on, to |-> c.to, by |-> u,
        role |-> IF ReachesController THEN user[u].role ELSE None,
        pc |-> IF ReachesController /\ Admitted(u, c.op) THEN FirstQuery(c) ELSE "refused"]]
  /\ UNCHANGED <<rows, log, hist>>

Exists(id) ==
  \/ id \in User /\ user[id] # NoUser
  \/ id \in Department /\ dept[id] # None
  \/ id \in Employee /\ emp[id] # NoEmployee

\* Variant: a department is deleted whoever is in it.
RefusedUncounted(r) ==
  ~Exists(req[r].on) \/ (req[r].op = "updateUser" /\ req[r].role # "ADMIN")

\* What the service decides on the row it found, and on the role read before.
Refused(r) ==
  \/ ~Exists(req[r].on)
  \/ req[r].op = "updateUser" /\ req[r].role # "ADMIN"
  \/ req[r].op = "deleteDepartment" /\ Members(req[r].on) # {}

\* findOne of the row asked for.
DbFind(r) ==
  /\ At(r, "finding")
  /\ Goto(r, IF Refused(r) THEN "refused"
             ELSE IF req[r].op \in {"updateDepartment", "assignDepartment", "assignManager"}
                  THEN "checking" ELSE "writing")
  /\ UNCHANGED <<rows, log, hist>>

\* findUnique by name, of the department or of the manager.
DbCheck(r) ==
  /\ At(r, "checking")
  /\ LET ok == IF req[r].op \in {"createDepartment", "updateDepartment"}
               THEN \A d \in Department : dept[d] = req[r].to => d = req[r].on
               ELSE Exists(req[r].to)
     IN  Goto(r, IF ok THEN "writing" ELSE "refused")
  /\ UNCHANGED <<rows, log, hist>>

----------------------------------------------------------------------------
(* The writes. The database refuses one that breaks a constraint. *)

Writing(r, op) == At(r, "writing") /\ req[r].op = op

\* A write that was performed; the audit row is next.
Applied(r) == Goto(r, "logging") /\ applied' = applied \cup {r}

\* P2002, P2003 or P2025: nothing is written.
Refuse(r) == Goto(r, "failed") /\ UNCHANGED <<rows, log, hist>>

\* Variant: names have no unique index.
NameFreeAlways(n, d) == TRUE

\* The unique index on names lets d be called n.
NameFree(n, d) == \A x \in Department \ {d} : dept[x] # n

DbCreateDepartment(r) ==
  /\ Writing(r, "createDepartment")
  /\ IF ~NameFree(req[r].to, None) THEN Refuse(r)
     ELSE \E d \in Department \ used :
            /\ dept' = [dept EXCEPT ![d] = req[r].to] /\ used' = used \cup {d}
            /\ Applied(r) /\ UNCHANGED <<user, emp, log, cut, shifted, filled>>

\* department.update with a name.
DbUpdateDepartment(r) ==
  /\ Writing(r, "updateDepartment")
  /\ LET d == req[r].on IN
     IF dept[d] = None \/ ~NameFree(req[r].to, d) THEN Refuse(r)
     ELSE /\ dept' = [dept EXCEPT ![d] = req[r].to]
          /\ Applied(r) /\ UNCHANGED <<user, emp, used, log, cut, shifted, filled>>

\* department.delete: employees who are in it keep their rows (SetNull).
DbDeleteDepartment(r) ==
  /\ Writing(r, "deleteDepartment")
  /\ LET d == req[r].on IN
     IF dept[d] = None THEN Refuse(r)
     ELSE /\ dept' = [dept EXCEPT ![d] = None]
          /\ emp' = [e \in Employee |-> IF e \in Members(d) THEN [emp[e] EXCEPT !.dept = None]
                                        ELSE emp[e]]
          /\ Applied(r) /\ UNCHANGED <<user, used, log, cut, shifted, filled>>

\* Deletions that have counted the members of d.
Deleting(d) == {r \in Request : Writing(r, "deleteDepartment") /\ req[r].on = d}

\* employee.create: userId is unique, both ids are foreign keys.
DbCreateEmployee(r) ==
  /\ Writing(r, "createEmployee")
  /\ LET u == req[r].on   d == req[r].to IN
     IF ~Exists(u) \/ (d # None /\ ~Exists(d)) \/ \E e \in Employee : emp[e].user = u
     THEN Refuse(r)
     ELSE \E e \in Employee \ used :
            /\ emp' = [emp EXCEPT ![e] = [user |-> u, dept |-> d, manager |-> None]]
            /\ used' = used \cup {e} /\ filled' = filled \cup Deleting(d)
            /\ Applied(r) /\ UNCHANGED <<user, dept, log, cut, shifted>>

\* employee.update of departmentId: PATCH, assign-department, remove-department.
DbSetDepartment(r) ==
  /\ At(r, "writing")
  /\ req[r].op \in {"updateEmployee", "assignDepartment", "removeDepartment"}
  /\ LET e == req[r].on   d == req[r].to IN
     IF emp[e] = NoEmployee \/ (d # None /\ ~Exists(d)) THEN Refuse(r)
     ELSE /\ emp' = [emp EXCEPT ![e].dept = d]
          /\ filled' = filled \cup Deleting(d)
          /\ Applied(r) /\ UNCHANGED <<user, dept, used, log, cut, shifted>>

\* employee.update of managerId: assign-manager, remove-manager.
DbSetManager(r) ==
  /\ At(r, "writing") /\ req[r].op \in {"assignManager", "removeManager"}
  /\ LET e == req[r].on   m == req[r].to IN
     IF emp[e] = NoEmployee \/ (m # None /\ ~Exists(m)) THEN Refuse(r)
     ELSE /\ emp' = [emp EXCEPT ![e].manager = m]
          /\ Applied(r) /\ UNCHANGED <<user, dept, used, log, cut, shifted, filled>>

\* The employees without the rows of E; reports lose their manager (SetNull).
Without(E) ==
  [e \in Employee |->
     IF e \in E THEN NoEmployee
     ELSE IF emp[e].manager \in E THEN [emp[e] EXCEPT !.manager = None] ELSE emp[e]]

DbDeleteEmployee(r) ==
  /\ Writing(r, "deleteEmployee")
  /\ IF emp[req[r].on] = NoEmployee THEN Refuse(r)
     ELSE /\ emp' = Without({req[r].on})
          /\ Applied(r) /\ UNCHANGED <<user, dept, used, log, cut, shifted, filled>>

\* Requests in flight of a user.
Of(u) == {r \in Request : req[r].by = u /\ req[r].pc \in InFlight}

\* user.update of role (PATCH) and of isActive.
DbUpdateUser(r) ==
  /\ At(r, "writing") /\ req[r].op \in {"updateUser", "deactivate", "activate"}
  /\ LET u == req[r].on IN
     IF user[u] = NoUser THEN Refuse(r)
     ELSE /\ user' = [user EXCEPT ![u] =
                        CASE req[r].op = "updateUser" -> [@ EXCEPT !.role = req[r].to]
                          [] req[r].op = "deactivate" -> [@ EXCEPT !.active = FALSE]
                          [] req[r].op = "activate"   -> [@ EXCEPT !.active = TRUE]]
          /\ shifted' = shifted \cup Of(u)
          /\ Applied(r) /\ UNCHANGED <<dept, emp, used, log, cut, filled>>

\* user.delete: the profile and the audit rows of the user go with it (Cascade).
DbDeleteUser(r) ==
  /\ Writing(r, "deleteUser")
  /\ LET u == req[r].on IN
     IF user[u] = NoUser THEN Refuse(r)
     ELSE /\ user' = [user EXCEPT ![u] = NoUser]
          /\ emp' = Without({e \in Employee : emp[e].user = u})
          /\ log' = [x \in Request |-> IF log[x] = u THEN None ELSE log[x]]
          /\ shifted' = shifted \cup Of(u)
          /\ Applied(r) /\ UNCHANGED <<dept, used, cut, filled>>

----------------------------------------------------------------------------

\* Variant: the row names the account acted on.
AuditorOn(r) == IF req[r].op \in OnUser THEN req[r].on ELSE req[r].by

\* Whom the audit row names.
Auditor(r) == req[r].by

\* auditLogService.logAction; userId is a foreign key.
DbLog(r) ==
  /\ At(r, "logging")
  /\ IF ~Exists(Auditor(r)) THEN Refuse(r)
     ELSE /\ log' = [log EXCEPT ![r] = Auditor(r)]
          /\ Goto(r, "done") /\ UNCHANGED <<rows, hist>>

\* A query of the handler fails.
Fail(r) ==
  /\ req[r].pc \in InFlight
  /\ Goto(r, "failed") /\ cut' = cut \cup {r}
  /\ UNCHANGED <<rows, log, applied, shifted, filled>>

Next ==
  \E r \in Request :
    \/ \E u \in User, c \in Call : Authenticate(r, u, c)
    \/ DbFind(r) \/ DbCheck(r)
    \/ DbCreateDepartment(r) \/ DbUpdateDepartment(r) \/ DbDeleteDepartment(r)
    \/ DbCreateEmployee(r) \/ DbSetDepartment(r) \/ DbSetManager(r) \/ DbDeleteEmployee(r)
    \/ DbUpdateUser(r) \/ DbDeleteUser(r)
    \/ DbLog(r) \/ Fail(r)

Spec == Init /\ [][Next]_vars

----------------------------------------------------------------------------
(* Properties *)

\* Every row refers to rows that exist, a user has one profile, nobody is their own
\* manager and two departments never have one name, whichever requests overlap.
RowsConsistent == Consistent(user, dept, emp)

\* The audit log is true, and complete for the users who still have an account:
\* a row tells of a change its user made, and a change whose request was answered
\* has its row unless a query failed. (Of a deleted user nothing is left.)
AuditTellsTruth ==
  \A r \in Request :
    /\ log[r] # None => r \in applied /\ log[r] = req[r].by
    /\ r \in applied /\ r \notin cut /\ ~At(r, "logging") /\ Exists(req[r].by)
         => log[r] = req[r].by

Entitled(r) ==
  user[req[r].by].active /\ user[req[r].by].role \in Roles(req[r].op)

\* A change is made by an active account with a role that allows it at that
\* moment, unless the account changed while its request was in flight: guards
\* and services go by the row read at the start.
AuthorityAtWrite ==
  [][\A r \in applied' \ applied : Entitled(r) \/ r \in shifted]_vars

\* The guards refuse no request of an active account whose role the route permits
\* (assignManager itself refuses to make somebody their own manager). With
\* JwtAuthGuard in AppModule they refuse every one.
EntitledGetIn ==
  [][\A r \in Request :
       At(r, "new") /\ At(r, "refused")' => ~Entitled(r)' \/ (req[r].on = req[r].to)']_vars

\* A department is deleted with nobody in it, unless someone was put there
\* between the count and the delete.
EmptyWhenDeleted ==
  [][\A r \in applied' \ applied :
       req[r].op = "deleteDepartment" => Members(req[r].on) = {} \/ r \in filled]_vars
============================================================================
