------------------------------ MODULE Accounts ------------------------------
(***************************************************************************)
(* Who may have tokens.  Core Concepts: registration, login, refresh and   *)
(* the account's own changes - AuthService, AuthController, JwtStrategy,   *)
(* and UserService for emails, passwords and activity.  The chat           *)
(* (Nest_Websocket) and the books (nest-unit-testing) have registration    *)
(* and login alone, and never change an account.  The articles (RBAC_NEST) *)
(* have login; whoever Articles permits creates and deletes accounts.      *)
(*                                                                         *)
(* Tokens are signed, not stored: a refresh token is good for whoever its  *)
(* user is when it is used.  A request is suspended at every query and     *)
(* bcrypt computation and works on the row it has read.  Who is an         *)
(* administrator stays as it is here; Directory has changes of roles.      *)
(***************************************************************************)
EXTENDS FiniteSets, Guards

CONSTANTS
  Person,       \* user ids
  Admin,        \* those with the role ADMIN
  Email, Password,
  AccountCall   \* requests

ASSUME AdminAssumption == Admin \subseteq Person

VARIABLES
  service,  \* the program that is running
  person,   \* the rows of users; New before and Deleted after
  request,  \* where a request is suspended, and what it holds
  holders,  \* users somebody has been given tokens of
  grounds   \* history: what has been true, since a request began, of what
            \* entitles it

accountVars == <<service, person, request, holders, grounds>>

Service == {"directory", "chat", "books", "articles"}
UserRow == [state : {"active", "inactive"}, email : Email, password : Password]
New == [state |-> "new", email |-> "none", password |-> "none"]
Deleted == [New EXCEPT !.state = "deleted"]
Nobody == "nobody"

IsActive(p, rows) == p \in Person /\ rows[p].state = "active"
Registered(p) == person[p].state \in {"active", "inactive"}
Active(p) == IsActive(p, person)

AccountOp == {"register", "login", "refresh", "changePassword", "update", "activity", "remove"}
Stage == {"authenticating", "finding", "comparing", "hashing", "writing", "answered"}

\* by: whose token the request came with; of: whom it is about; email and
\* password: as sent; good: what bcrypt will say of the row that was read.
NoAccountCall == [op |-> "none", pc |-> "idle", by |-> Nobody, of |-> Nobody,
              email |-> "none", password |-> "none", good |-> FALSE]

AccountsTypeOK ==
  /\ service \in Service
  /\ person \in [Person -> UserRow \cup {New, Deleted}]
  /\ request \in [AccountCall -> {NoAccountCall} \cup
       [op : AccountOp, pc : Stage, by : Person \cup {Nobody}, of : Person \cup {Nobody},
        email : Email \cup {"none"}, password : Password \cup {"none"}, good : BOOLEAN]]
  /\ holders \subseteq Person
  /\ grounds \in [AccountCall -> SUBSET (Person \cup {"caller", "admin", "secret"})]

AccountsInit ==
  /\ service \in Service
  /\ person = [p \in Person |-> New]
  /\ request = [c \in AccountCall |-> NoAccountCall]
  /\ holders = {}
  /\ grounds = [c \in AccountCall |-> {}]

Waiting(c, op, pc) == request[c].op = op /\ request[c].pc = pc
Resume(c, pc) == request' = [request EXCEPT ![c].pc = pc]
End(c) == request' = [request EXCEPT ![c] = NoAccountCall]
WithEmail(op, pc, e) == [NoAccountCall EXCEPT !.op = op, !.pc = pc, !.email = e]
Send(c, call) ==
  /\ request[c] = NoAccountCall
  /\ request' = [request EXCEPT ![c] = call]
  /\ UNCHANGED <<person, holders>>

\* generateTokens: signed at once, for the row that was read or written.
Tokens(c, p) ==
  /\ request' = [request EXCEPT ![c].pc = "answered", ![c].of = p]
  /\ holders' = holders \cup {p}

----------------------------------------------------------------------------
(* Registration *)

Taken(e) == \E p \in Person : Registered(p) /\ person[p].email = e

\* POST /auth/register.
Register(c) ==
  /\ service \in {"directory", "chat"}
  /\ \E e \in Email : Send(c, WithEmail("register", "finding", e))

\* createUser of the articles: for somebody else.
CreateUser(c) ==
  /\ service = "articles"
  /\ \E e \in Email : Send(c, WithEmail("register", "finding", e))

\* POST /auth/signup, where nobody looks for the address first.
SignUp(c) ==
  /\ service = "books"
  /\ \E e \in Email : Send(c, WithEmail("register", "hashing", e))

DbFindEmail(c) ==
  /\ Waiting(c, "register", "finding")
  /\ IF Taken(request[c].email) THEN End(c) ELSE Resume(c, "hashing")
  /\ UNCHANGED <<person, holders>>

\* The unique index refuses an address that has been taken since.
CreateRow(c) ==
  LET e == request[c].email IN
  /\ Waiting(c, "register", "hashing")
  /\ IF Taken(e)
       THEN End(c) /\ UNCHANGED <<person, holders>>
       ELSE \E p \in Person, s \in Password :
              /\ person[p] = New
              /\ person' = [person EXCEPT ![p] = [state |-> "active", email |-> e, password |-> s]]
              /\ IF service = "articles" THEN End(c) /\ UNCHANGED holders ELSE Tokens(c, p)

DbCreate(c) == service = "directory" /\ CreateRow(c)
DbCreateChatter(c) == service = "chat" /\ CreateRow(c)
DbSignUp(c) == service = "books" /\ CreateRow(c)
DbCreateColleague(c) == service = "articles" /\ CreateRow(c)

----------------------------------------------------------------------------
(* Login, and POST /auth/refresh *)

Login(c) ==
  \E e \in Email, s \in Password :
    Send(c, [WithEmail("login", "finding", e) EXCEPT !.password = s])

\* The row of the address, and what bcrypt will say of it; none, refused.
FindRow(c) ==
  LET found == {p \in Person : Registered(p) /\ person[p].email = request[c].email} IN
  /\ Waiting(c, "login", "finding")
  /\ IF found = {} THEN End(c)
     ELSE \E p \in found :
       request' = [request EXCEPT ![c].pc = "comparing", ![c].of = p,
         ![c].good = (person[p].password = request[c].password /\ Active(p))]
  /\ UNCHANGED <<person, holders>>

\* validateUser of the directory and of the chat, login of the books, signIn.
DbValidate(c) == service = "directory" /\ FindRow(c)
DbValidateChatter(c) == service = "chat" /\ FindRow(c)
DbFindReader(c) == service = "books" /\ FindRow(c)
DbSignIn(c) == service = "articles" /\ FindRow(c)

\* bcrypt has compared; then the directory looks at isActive of the row that was
\* read, and the chat marks the user as online before it answers.
Compare(c) ==
  /\ Waiting(c, "login", "comparing")
  /\ IF ~request[c].good THEN End(c) /\ UNCHANGED holders
     ELSE IF service = "chat" THEN Resume(c, "writing") /\ UNCHANGED holders
     ELSE Tokens(c, request[c].of)
  /\ UNCHANGED person

\* isOnline itself is Presence's.
DbMarkOnline(c) ==
  /\ Waiting(c, "login", "writing")
  /\ IF Registered(request[c].of) THEN Tokens(c, request[c].of) ELSE End(c) /\ UNCHANGED holders
  /\ UNCHANGED person

Refresh(c) ==
  /\ service = "directory"
  /\ \E p \in holders : Send(c, [NoAccountCall EXCEPT !.op = "refresh", !.pc = "finding", !.by = p])

\* Variant: it is enough that the user is still there.
DbRefreshInactive(c) ==
  /\ Waiting(c, "refresh", "finding")
  /\ IF Registered(request[c].by) THEN Tokens(c, request[c].by)
                                  ELSE End(c) /\ UNCHANGED holders
  /\ UNCHANGED person

\* refreshToken: the user must be there and active.
DbRefresh(c) ==
  /\ Waiting(c, "refresh", "finding")
  /\ IF Active(request[c].by) THEN Tokens(c, request[c].by)
                              ELSE End(c) /\ UNCHANGED holders
  /\ UNCHANGED person

----------------------------------------------------------------------------
(* /users/:id of the directory *)

\* With a valid token.  The routes above are public, these are not: JwtAuthGuard
\* comes first and answers 403 at once to what it refuses.
AskChange(c) ==
  /\ service = "directory" /\ ReachesController
  /\ \E p \in holders, q \in Person, op \in {"changePassword", "update", "activity", "remove"} :
       \E s \in IF op = "changePassword" THEN Password ELSE {"none"} :
         Send(c, [NoAccountCall EXCEPT !.op = op, !.pc = "authenticating", !.by = p, !.of = q,
                                       !.password = s])

\* deleteUser of the articles, past their guard.
DeleteUser(c) ==
  /\ service = "articles"
  /\ \E p \in Person : Send(c, [NoAccountCall EXCEPT !.op = "remove", !.pc = "finding", !.of = p])

\* JwtStrategy, RolesGuard, and what the service asks of caller and target
\* before its first query (update asks after it, of the same copy).
DbAuthenticate(c) ==
  LET q == request[c] IN
  /\ q.pc = "authenticating"
  /\ IF Active(q.by) /\ (q.by \in Admin \/ (q.op \in {"changePassword", "update"} /\ q.by = q.of))
       THEN Resume(c, "finding") ELSE End(c)
  /\ UNCHANGED <<person, holders>>

\* findOne of update, deactivate, activate and remove; findUser of the articles.
DbFindPerson(c) ==
  /\ request[c].pc = "finding" /\ request[c].op \in {"update", "activity", "remove"}
  /\ IF Registered(request[c].of) THEN Resume(c, "writing") ELSE End(c)
  /\ UNCHANGED <<person, holders>>

\* changePassword: one's own is compared, an administrator's target's is not.
DbFindPassword(c) ==
  LET q == request[c] IN
  /\ Waiting(c, "changePassword", "finding")
  /\ IF ~Registered(q.of) THEN End(c)
     ELSE request' = [request EXCEPT
            ![c].pc = IF q.by = q.of THEN "comparing" ELSE "hashing",
            ![c].good = (person[q.of].password = q.password)]
  /\ UNCHANGED <<person, holders>>

ComparePassword(c) ==
  /\ Waiting(c, "changePassword", "comparing")
  /\ IF request[c].good THEN Resume(c, "hashing") ELSE End(c)
  /\ UNCHANGED <<person, holders>>

\* By id: of whatever the row is now; refused when it is gone.
DbWrite(c) ==
  LET q == request[c] IN
  /\ (q.pc = "writing" /\ q.op # "login") \/ Waiting(c, "changePassword", "hashing")
  /\ IF ~Registered(q.of) THEN End(c) /\ UNCHANGED person
     ELSE
       \/ /\ q.op = "changePassword"
          /\ \E s \in Password : person' = [person EXCEPT ![q.of].password = s]
          /\ Resume(c, "answered")
       \/ /\ q.op = "update"
          /\ \E e \in Email :
               IF \E p \in Person \ {q.of} : Registered(p) /\ person[p].email = e
                 THEN UNCHANGED person ELSE person' = [person EXCEPT ![q.of].email = e]
          /\ End(c)
       \/ /\ q.op = "activity"
          /\ \E s \in {"active", "inactive"} : person' = [person EXCEPT ![q.of].state = s]
          /\ End(c)
       \/ /\ q.op = "remove"
          /\ person' = [person EXCEPT ![q.of] = Deleted]
          /\ End(c)
  /\ UNCHANGED holders

\* The client has its answer; a query fails; a hash is never computed.
Done(c) == request[c].pc = "answered" /\ End(c) /\ UNCHANGED <<person, holders>>
FailAccountCall(c) == request[c].pc \in Stage \ {"answered"} /\ End(c) /\ UNCHANGED <<person, holders>>

\* What entitles a request, as the rows are at one moment.
Entitlement(q, rows) ==
  CASE q.op = "login" ->
         {p \in Person : IsActive(p, rows) /\ rows[p].email = q.email
                         /\ rows[p].password = q.password}
    [] q.op = "refresh" -> {p \in {q.by} : IsActive(p, rows)}
    [] q.op = "changePassword" ->
         {x \in {"caller", "admin", "secret"} :
            CASE x = "caller" -> IsActive(q.by, rows)
              [] x = "admin" -> IsActive(q.by, rows) /\ q.by \in Admin
              [] x = "secret" -> rows[q.of].password = q.password}
    [] OTHER -> {}

Observe ==
  grounds' = [c \in AccountCall |->
    IF request'[c].pc = "idle" THEN {}
    ELSE IF request'[c].pc = "answered" THEN grounds[c]
    ELSE grounds[c] \cup Entitlement(request'[c], person')]

AccountsNext ==
  /\ service' = service
  /\ \E c \in AccountCall :
       \/ Register(c) \/ CreateUser(c) \/ SignUp(c) \/ DbFindEmail(c)
       \/ DbCreate(c) \/ DbCreateChatter(c) \/ DbSignUp(c) \/ DbCreateColleague(c)
       \/ Login(c) \/ DbValidate(c) \/ DbValidateChatter(c) \/ DbFindReader(c) \/ DbSignIn(c)
       \/ Compare(c) \/ DbMarkOnline(c) \/ Refresh(c) \/ DbRefresh(c)
       \/ AskChange(c) \/ DeleteUser(c) \/ DbAuthenticate(c) \/ DbFindPerson(c) \/ DbFindPassword(c)
       \/ ComparePassword(c) \/ DbWrite(c) \/ Done(c) \/ FailAccountCall(c)
  /\ Observe

----------------------------------------------------------------------------
(* Properties *)

\* Whoever has been given tokens, or has changed a password, was entitled to it
\* at some moment while the request was under way, whatever else happened to the
\* account: a login by an active account that had this address and password at
\* one time, in each of the four programs; a refresh by an active account, a change
\* of password by an active caller who knew it or is an administrator.
WasEntitled ==
  \A c \in AccountCall :
    LET q == request[c] IN
    q.pc = "answered" =>
      CASE q.op \in {"login", "refresh"} -> q.of \in grounds[c]
        [] q.op = "changePassword" ->
             {"caller", IF q.by = q.of THEN "secret" ELSE "admin"} \subseteq grounds[c]
        [] OTHER -> TRUE
=============================================================================
