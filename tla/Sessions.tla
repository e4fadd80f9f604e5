------------------------------ MODULE Sessions ------------------------------
(***************************************************************************)
(* Users and sessions of the logistics platform (POC): AuthService and     *)
(* UsersService.  A user has one session: the bcrypt hash of the last      *)
(* refresh token.  bcrypt compares the first 72 bytes, which in two        *)
(* refresh tokens of one user are the JWT header and the start of the same *)
(* payload; so of the hash only its presence tells, and the branch for a   *)
(* token that does not match is never taken.  A token outlives what is     *)
(* modelled (7 days).                                                      *)
(*                                                                         *)
(* A request is suspended at every query and at every bcrypt computation.  *)
(***************************************************************************)
EXTENDS Jobs, FiniteSets

CONSTANTS
  User,        \* the users; one who comes back after a removal is another one
  SessionCall  \* requests

ASSUME UserAssumption == User \subseteq Job

VARIABLES
  account,  \* the users that exist
  removed,  \* the users that no longer do
  greeting, \* USER_CREATED events that their listener has not handled
  open,     \* the users with a refresh token hash
  call,     \* where a request is suspended
  tokens,   \* the users whom a login, registration or refresh has answered
  entered,  \* history: a login or registration has opened the session since
            \* the last logout
  revived   \* history: ... or a refresh that the logout overtook

sessionVars == <<account, removed, greeting, open, call, tokens, entered, revived>>
users == <<account, removed, greeting>>
sessionHistory == <<entered, revived>>

Kind == {"register", "create", "login", "refresh", "logout", "remove"}
NoCall == [kind |-> "none", pc |-> "idle", user |-> "nobody", overtaken |-> FALSE]

SessionsTypeOK ==
  /\ account \subseteq User /\ removed \subseteq User /\ greeting \subseteq User
  /\ open \subseteq User /\ tokens \subseteq User
  /\ call \in [SessionCall ->
       {NoCall} \cup [kind : Kind, pc : {"creating", "hashing", "comparing", "finding",
                            "validating", "checking", "closing", "recording", "removing"},
                      user : User, overtaken : BOOLEAN]]
  /\ entered \subseteq User /\ revived \subseteq User

SessionsInit ==
  /\ account = {} /\ removed = {} /\ greeting = {} /\ open = {} /\ tokens = {}
  /\ call = [c \in SessionCall |-> NoCall]
  /\ entered = {} /\ revived = {}

At(c, pc) == call[c].pc = pc
Begin(c, kind, pc, u) ==
  /\ At(c, "idle")
  /\ call' = [call EXCEPT ![c] = [kind |-> kind, pc |-> pc, user |-> u, overtaken |-> FALSE]]
Step(c, from, to) == At(c, from) /\ call' = [call EXCEPT ![c].pc = to]
End(c) == call' = [call EXCEPT ![c] = NoCall]

----------------------------------------------------------------------------
(* POST /auth/register and POST /users *)

Register(c, u) ==
  /\ u \notin removed
  /\ \E kind \in {"register", "create"} : Begin(c, kind, "creating", u)
  /\ UNCHANGED <<users, open, tokens, sessionHistory, jobVars>>

\* UsersService.create: refused by the unique index when the address is taken;
\* otherwise USER_CREATED is emitted, and a registration opens a session.
DbCreate(c) ==
  LET u == call[c].user IN
  /\ IF u \notin account \cup removed
       THEN /\ account' = account \cup {u} /\ greeting' = greeting \cup {u}
            /\ IF call[c].kind = "register" THEN Step(c, "creating", "hashing")
                                           ELSE At(c, "creating") /\ End(c)
       ELSE At(c, "creating") /\ End(c) /\ UNCHANGED <<account, greeting>>
  /\ UNCHANGED <<removed, open, tokens, sessionHistory, jobVars>>

\* handleUserCreated queues the welcome mail, off the request's call stack;
\* nobody hears of it when that fails or the process ends before.
Greet(u) ==
  /\ u \in greeting
  /\ greeting' = greeting \ {u}
  /\ Add(u) \/ UNCHANGED jobVars
  /\ UNCHANGED <<account, removed, open, call, tokens, sessionHistory>>

----------------------------------------------------------------------------
(* POST /auth/login, /auth/refresh, /auth/logout; DELETE /users/:id *)

\* issueTokens: signed for the user that was read, there or not any more.
Issue(u) == tokens' = tokens \cup {u}

Login(c, u) ==
  /\ Begin(c, "login", "validating", u)
  /\ UNCHANGED <<users, open, tokens, sessionHistory, jobVars>>

\* LocalStrategy: validateCredentials finds the user, and then compares.
DbValidate(c) ==
  /\ IF call[c].user \in account THEN Step(c, "validating", "checking")
                                 ELSE At(c, "validating") /\ End(c)
  /\ UNCHANGED <<users, open, tokens, sessionHistory, jobVars>>

Check(c) ==
  /\ Step(c, "checking", "hashing") \/ (At(c, "checking") /\ End(c))
  /\ UNCHANGED <<users, open, tokens, sessionHistory, jobVars>>

\* A refresh token is sent by who was given one.
Refresh(c, u) ==
  /\ u \in tokens
  /\ Begin(c, "refresh", "finding", u)
  /\ UNCHANGED <<users, open, tokens, sessionHistory, jobVars>>

\* Variant: it is enough that the user exists.
DbFindSessionAny(c) ==
  /\ IF call[c].user \in account THEN Step(c, "finding", "comparing") ELSE At(c, "finding") /\ End(c)
  /\ UNCHANGED <<users, open, tokens, sessionHistory, jobVars>>

\* refresh: no user or no hash, no session.
DbFindSession(c) ==
  /\ IF call[c].user \in account \cap open THEN Step(c, "finding", "comparing")
                                           ELSE At(c, "finding") /\ End(c)
  /\ UNCHANGED <<users, open, tokens, sessionHistory, jobVars>>

Compare(c) == Step(c, "comparing", "hashing") /\ UNCHANGED <<users, open, tokens, sessionHistory, jobVars>>

\* setRefreshTokenHash of a new token: whatever has happened to the session
\* since; of a user who is gone nothing is updated.  The tokens are answered
\* all the same, by a login once it has been recorded.
DbOpen(c) ==
  LET u == call[c].user IN
  /\ IF call[c].kind = "login" THEN Step(c, "hashing", "recording") ELSE At(c, "hashing") /\ End(c)
  /\ open' = open \cup ({u} \cap account)
  /\ IF call[c].kind = "login" THEN UNCHANGED tokens ELSE Issue(u)
  /\ IF call[c].kind = "refresh"
       THEN revived' = (IF call[c].overtaken THEN revived \cup {u} ELSE revived) /\ UNCHANGED entered
       ELSE entered' = entered \cup {u} /\ UNCHANGED revived
  /\ UNCHANGED <<users, jobVars>>

DbRecordLogin(c) ==
  /\ At(c, "recording")
  /\ Issue(call[c].user)
  /\ End(c)
  /\ UNCHANGED <<users, open, sessionHistory, jobVars>>

\* Sent with an access token, which outlives the session and the user.
Logout(c, u) ==
  /\ u \in tokens
  /\ Begin(c, "logout", "closing", u)
  /\ UNCHANGED <<users, open, tokens, sessionHistory, jobVars>>

\* A session of u ends: refreshes that have found it are overtaken.
Overtake(c, u) ==
  call' = [x \in SessionCall |->
    IF x = c THEN NoCall
    ELSE IF call[x].kind = "refresh" /\ call[x].user = u /\ ~At(x, "finding")
      THEN [call[x] EXCEPT !.overtaken = TRUE] ELSE call[x]]

DbClose(c) ==
  LET u == call[c].user IN
  /\ At(c, "closing")
  /\ Overtake(c, u)
  /\ open' = open \ {u}
  /\ entered' = entered \ {u} /\ revived' = revived \ {u}
  /\ UNCHANGED <<users, tokens, jobVars>>

Remove(c, u) ==
  /\ Begin(c, "remove", "removing", u)
  /\ UNCHANGED <<users, open, tokens, sessionHistory, jobVars>>

\* UsersService.remove: the hash goes with the user.
DbRemove(c) ==
  LET u == call[c].user IN
  /\ At(c, "removing")
  /\ Overtake(c, u)
  /\ account' = account \ {u} /\ removed' = removed \cup ({u} \cap account)
  /\ open' = open \ {u}
  /\ entered' = entered \ {u} /\ revived' = revived \ {u}
  /\ UNCHANGED <<greeting, tokens, jobVars>>

\* A query fails or the process ends: the request does not go on.
FailCall(c) ==
  /\ ~At(c, "idle")
  /\ End(c)
  /\ UNCHANGED <<users, open, tokens, sessionHistory, jobVars>>

SessionsNext ==
  \/ \E c \in SessionCall :
       \/ \E u \in User : Register(c, u) \/ Login(c, u) \/ Refresh(c, u) \/ Logout(c, u) \/ Remove(c, u)
       \/ DbCreate(c) \/ DbValidate(c) \/ Check(c) \/ DbFindSession(c) \/ Compare(c) \/ DbOpen(c)
       \/ DbRecordLogin(c) \/ DbClose(c) \/ DbRemove(c) \/ FailCall(c)
  \/ \E u \in User : Greet(u)

----------------------------------------------------------------------------
(* Properties *)

\* A session is open only where a login or registration has opened it since the
\* last logout or removal, except that a refresh which had found the session
\* before may open it again.
OpenNeedsEntry == open \subseteq entered \cup revived
=============================================================================
