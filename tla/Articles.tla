------------------------------ MODULE Articles ------------------------------
(***************************************************************************)
(* Articles and users of RBAC_NEST behind CASL abilities: JwtAccessGuard,  *)
(* PolicyGuard, the article and auth controllers and their services.       *)
(*                                                                         *)
(* A handler is suspended at every Prisma query.  It decides on the copy   *)
(* of the article or user it has found and writes by id.  Permission rows  *)
(* have no endpoint and stay as they are.                                  *)
(***************************************************************************)
EXTENDS FiniteSets

CONSTANTS
  Person,       \* user ids
  Paper,        \* article ids
  Role,         \* role ids
  Rule,         \* Rule[r]: the permission rows of a role
  Staff,        \* Staff[p]: the role of the users there are to begin with,
                \* New for the others
  ArticleCall   \* requests

VARIABLES
  staff,    \* the users table: a user's role, or New or Gone
  paper,    \* the Article table; the owner is New or Gone where there is no row
  request   \* where a handler is suspended, and what it decides on

articleVars == <<staff, paper, request>>

New == "new"     \* ids are given out once
Gone == "gone"
None == "none"   \* owner_id or role_id of NULL

Conditions == {"any", "own", "draft"}
Action == {"read", "create", "update", "delete"}
Permission == [action : Action \cup {"manage"}, subject : {"article", "users", "all"}, on : Conditions]

ASSUME RuleAssumption == Rule \in [Role -> SUBSET Permission]
ASSUME StaffAssumption == Staff \in [Person -> Role \cup {None, New}]
ASSUME IdsAssumption == None \notin Person \cup Paper  \* NULL is not an id

ArticleRow == [owner : Person \cup {None}, published : BOOLEAN]
NoArticle(why) == [owner |-> why, published |-> FALSE]
NoRequest == [op |-> "none", pc |-> "idle", by |-> None, of |-> None, role |-> None, moved |-> FALSE]

ArticlesTypeOK ==
  /\ staff \in [Person -> Role \cup {None, New, Gone}]
  /\ paper \in [Paper -> ArticleRow \cup {NoArticle(New), NoArticle(Gone)}]
  /\ request \in [ArticleCall -> {NoRequest} \cup
       [op : {"get", "update", "delete", "post", "removeUser", "createUser"},
        pc : {"guarding", "finding", "writing"}, by : Person, of : Paper \cup Person,
        role : Role \cup {None}, moved : BOOLEAN]]

ArticlesInit ==
  /\ staff = Staff
  /\ paper = [a \in Paper |-> NoArticle(New)]
  /\ request = [c \in ArticleCall |-> NoRequest]

----------------------------------------------------------------------------
(* CaslAbilityFactory: abilities of a role *)

\* The rows that speak of an action on a kind of subject.
Relevant(r, action, kind) ==
  {q \in Rule[r] : q.action \in {action, "manage"} /\ q.subject \in {kind, "all"}}

\* can(action, kind): a condition does not matter where no subject is given.
Can(r, action, kind) == Relevant(r, action, kind) # {}

\* A row's condition, its placeholder user.id replaced, on a subject.
Meets(q, p, kind, x) ==
  \/ q.on = "any"
  \/ q.on = "own" /\ p = (IF kind = "article" THEN x.owner ELSE x)
  \/ q.on = "draft" /\ kind = "article" /\ ~x.published

\* can(action, subject(kind, x)) for user p.
CanOn(r, p, action, kind, x) == \E q \in Relevant(r, action, kind) : Meets(q, p, kind, x)

----------------------------------------------------------------------------
(* The guards *)

\* @checkAbilities of a route.
Needs(op) ==
  CASE op = "get" -> <<"read", "article">>
    [] op = "update" -> <<"update", "article">>
    [] op = "delete" -> <<"delete", "article">>
    [] op = "post" -> <<"create", "article">>
    [] op = "removeUser" -> <<"delete", "users">>
    [] op = "createUser" -> <<"create", "users">>

KindOf(op) == Needs(op)[2]
Over(c) == request' = [request EXCEPT ![c] = NoRequest]
Suspended(c, pc) == request[c].pc = pc
Present(p) == staff[p] \notin {New, Gone}
Stored(a) == paper[a].owner \notin {New, Gone}

\* A request with a valid token, which outlives its user.
Ask(c, p, op, x) ==
  /\ Suspended(c, "idle") /\ staff[p] # New
  /\ x \in IF op \in {"removeUser", "createUser"} THEN Person ELSE Paper
  /\ request' = [request EXCEPT ![c] =
       [op |-> op, pc |-> "guarding", by |-> p, of |-> x, role |-> None, moved |-> FALSE]]
  /\ UNCHANGED <<staff, paper>>

\* PolicyGuard: the user and their role's permissions are read again (404 when
\* they are gone, an error when they have no role) and must allow the route.
DbGuard(c) ==
  LET r == staff[request[c].by]
      need == Needs(request[c].op)
  IN /\ Suspended(c, "guarding")
     /\ IF r \in Role /\ Can(r, need[1], need[2])
          THEN request' = [request EXCEPT ![c].role = r, ![c].pc =
                 IF request[c].op = "post" THEN "writing" ELSE "finding"]
          ELSE Over(c)
     /\ UNCHANGED <<staff, paper>>

----------------------------------------------------------------------------
(* The handlers *)

Subject(c) == IF KindOf(request[c].op) = "article" THEN paper[request[c].of] ELSE request[c].of
Found(c) == LET x == request[c].of IN
  IF KindOf(request[c].op) = "article" THEN Stored(x) ELSE Present(x)
Allowed(c) ==
  LET q == request[c] IN CanOn(q.role, q.by, Needs(q.op)[1], KindOf(q.op), Subject(c))

\* Variant: that the kind of subject is allowed is enough.
DbFindUnchecked(c) ==
  /\ Suspended(c, "finding") /\ request[c].op # "createUser"
  /\ IF Found(c) /\ request[c].op # "get"
       THEN request' = [request EXCEPT ![c].pc = "writing"] ELSE Over(c)
  /\ UNCHANGED <<staff, paper>>

\* findOne or findUser, and the ability asked about what was found.
DbFind(c) ==
  /\ Suspended(c, "finding") /\ request[c].op # "createUser"
  /\ IF Found(c) /\ Allowed(c) /\ request[c].op # "get"
       THEN request' = [request EXCEPT ![c].pc = "writing"] ELSE Over(c)
  /\ UNCHANGED <<staff, paper>>

\* createUser: the ability is asked about the one who calls; then the address
\* must be free.
DbFindEmail(c) ==
  LET q == request[c] IN
  /\ Suspended(c, "finding") /\ q.op = "createUser"
  /\ IF ~Present(q.of) /\ CanOn(q.role, q.by, "create", "users", q.by)
       THEN request' = [request EXCEPT ![c].pc = "writing"] ELSE Over(c)
  /\ UNCHANGED <<staff, paper>>

\* A row has changed: other requests decided on what is no longer so.
Touches(q, x) == (q.by = x /\ q.pc # "guarding") \/ (q.of = x /\ q.pc = "writing")
Moves(c, touched) ==
  request' = [d \in ArticleCall |->
    IF d = c THEN NoRequest
    ELSE IF \E x \in touched : Touches(request[d], x)
      THEN [request[d] EXCEPT !.moved = TRUE] ELSE request[d]]

Writes(c, op) == Suspended(c, "writing") /\ request[c].op = op

\* create: refused by the foreign key when the author is gone.
DbCreateArticle(c) ==
  LET q == request[c] IN
  /\ Writes(c, "post")
  /\ IF Present(q.by) /\ paper[q.of].owner = New
       THEN /\ \E pub \in BOOLEAN :
                 paper' = [paper EXCEPT ![q.of] = [owner |-> q.by, published |-> pub]]
            /\ Moves(c, {q.of})
       ELSE Over(c) /\ UNCHANGED paper
  /\ UNCHANGED staff

\* update: by id, of whatever columns the body names; Prisma refuses when the
\* row is gone or the new owner is not a user.
DbUpdateArticle(c) ==
  LET a == request[c].of IN
  /\ Writes(c, "update")
  /\ IF Stored(a)
       THEN /\ \E row \in ArticleRow :
                 /\ row.owner \in {paper[a].owner, None} \cup {p \in Person : Present(p)}
                 /\ paper' = [paper EXCEPT ![a] = row]
            /\ Moves(c, {a})
       ELSE Over(c) /\ UNCHANGED paper
  /\ UNCHANGED staff

DbDeleteArticle(c) ==
  LET a == request[c].of IN
  /\ Writes(c, "delete")
  /\ paper' = [paper EXCEPT ![a] = NoArticle(Gone)]
  /\ Moves(c, {a})
  /\ UNCHANGED staff

\* deleteUser: their articles lose their owner (ON DELETE SET NULL).
DbDeleteUser(c) ==
  LET p == request[c].of
      theirs == {a \in Paper : Stored(a) /\ paper[a].owner = p}
  IN /\ Writes(c, "removeUser")
     /\ staff' = [staff EXCEPT ![p] = Gone]
     /\ paper' = [a \in Paper |-> IF a \in theirs THEN [paper[a] EXCEPT !.owner = None] ELSE paper[a]]
     /\ Moves(c, {p} \cup theirs)

\* createUser: refused by the unique index when the address has been taken.
DbCreateUser(c) ==
  LET p == request[c].of IN
  /\ Writes(c, "createUser")
  /\ IF staff[p] = New
       THEN /\ \E r \in Role : staff' = [staff EXCEPT ![p] = r]
            /\ Moves(c, {p})
       ELSE Over(c) /\ UNCHANGED staff
  /\ UNCHANGED paper

FailRequest(c) == ~Suspended(c, "idle") /\ Over(c) /\ UNCHANGED <<staff, paper>>

ArticlesNext ==
  \E c \in ArticleCall :
    \/ \E p \in Person, x \in Paper \cup Person :
         \E op \in {"get", "update", "delete", "post", "removeUser", "createUser"} : Ask(c, p, op, x)
    \/ DbGuard(c) \/ DbFind(c) \/ DbFindEmail(c)
    \/ DbCreateArticle(c) \/ DbUpdateArticle(c) \/ DbDeleteArticle(c)
    \/ DbDeleteUser(c) \/ DbCreateUser(c) \/ FailRequest(c)

----------------------------------------------------------------------------
(* Properties *)

\* The row a request has written to is one its caller, still a user, may do
\* that to at the moment of the write - on what the row holds then, not only
\* on what it held when it was read - unless a write by somebody else came in
\* between.
ChangesArePermitted ==
  [][\A c \in ArticleCall :
       request[c].op \in {"update", "delete", "removeUser"} /\ Suspended(c, "writing")
         /\ <<staff, paper>>' # <<staff, paper>> /\ request'[c].pc = "idle" =>
           request[c].moved \/ (staff[request[c].by] = request[c].role /\ Found(c) /\ Allowed(c))]_articleVars
=============================================================================
