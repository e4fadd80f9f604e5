----------------------------- MODULE WebSession -----------------------------
(***************************************************************************)
(* Who a browser takes itself for (chat front end): the auth store, the    *)
(* axios interceptors, the socket service and the list of conversations.   *)
(* The tabs of a browser share localStorage, under two keys that are not   *)
(* always written together; everything else a tab keeps for itself until   *)
(* it is loaded again.                                                     *)
(***************************************************************************)
CONSTANTS
  Member,  \* who may log in
  BrowserTab,  \* the tabs of a browser
  Nobody

VARIABLES
  token,    \* localStorage token: whose it is
  kept,     \* localStorage auth-storage: whose user and token
  expired,  \* members whose last token has expired
  page,     \* the user of a tab; Nobody is the login page
  entering, \* the login or registration a tab waits for
  socket,   \* whom the server takes the tab's socket for
  asked,    \* the list of conversations a tab waits for: with whose token
  shown,    \* whose conversations are in the chat store
  fresh,    \* react-query takes them to be up to date
  crossed,  \* history: another tab has logged in as somebody else since
  leftover  \* history: the store may hold what was there before a logout

storage == <<token, kept, expired>>
tabState == <<page, entering, socket, asked, shown, fresh>>
sessionHistory == <<crossed, leftover>>
webSessionVars == <<storage, tabState, sessionHistory>>

Holder == Member \cup {Nobody}
NotAsked == "not asked"
Unopened == "unopened"
Redirected == "redirected"  \* location.href = '/login' reloads the page

ASSUME NobodyAssumption == Nobody \notin Member \cup {NotAsked, Unopened, Redirected}
ASSUME MemberAssumption == Member \cap {NotAsked, Unopened, Redirected} = {}

WebSessionTypeOK ==
  /\ token \in Holder /\ kept \in Holder /\ expired \subseteq Member
  /\ page \in [BrowserTab -> Holder \cup {Unopened, Redirected}]
  /\ entering \in [BrowserTab -> Holder]
  /\ socket \in [BrowserTab -> Holder]
  /\ asked \in [BrowserTab -> Holder \cup {NotAsked}]
  /\ shown \in [BrowserTab -> Holder]
  /\ fresh \in [BrowserTab -> BOOLEAN]
  /\ crossed \in [BrowserTab -> BOOLEAN] /\ leftover \in [BrowserTab -> BOOLEAN]

Blank(x) == [t \in BrowserTab |-> x]

WebSessionInit ==
  /\ token = Nobody /\ kept = Nobody /\ expired = {}
  /\ page = Blank(Unopened) /\ entering = Blank(Nobody) /\ socket = Blank(Nobody)
  /\ asked = Blank(NotAsked) /\ shown = Blank(Nobody) /\ fresh = Blank(FALSE)
  /\ crossed = Blank(FALSE) /\ leftover = Blank(FALSE)

\* The chat is shown to a user; ProtectedRoute sends the others to the login.
SignedIn(t) == page[t] \in Member

\* The page starts over: whoever auth-storage tells of is signed in, and their
\* socket connects.
Load(t) ==
  /\ page[t] \in {Unopened, Redirected}
  /\ page' = [page EXCEPT ![t] = kept]
  /\ socket' = [socket EXCEPT ![t] = kept]
  /\ entering' = [entering EXCEPT ![t] = Nobody]
  /\ asked' = [asked EXCEPT ![t] = NotAsked]
  /\ shown' = [shown EXCEPT ![t] = Nobody]
  /\ fresh' = [fresh EXCEPT ![t] = FALSE]
  /\ crossed' = [crossed EXCEPT ![t] = FALSE]
  /\ leftover' = [leftover EXCEPT ![t] = FALSE]
  /\ UNCHANGED storage

Submit(t, m) ==
  /\ page[t] = Nobody /\ entering[t] = Nobody
  /\ entering' = [entering EXCEPT ![t] = m]
  /\ UNCHANGED <<storage, page, socket, asked, shown, fresh, sessionHistory>>

\* socketService.connect: a socket that is there is kept.
Connected(t, m) == IF socket[t] = Nobody THEN m ELSE socket[t]

\* setAuth.
SetAuth(t) ==
  LET m == entering[t] IN
  /\ page[t] = Nobody /\ m # Nobody
  /\ token' = m /\ kept' = m /\ expired' = expired \ {m}
  /\ socket' = [socket EXCEPT ![t] = Connected(t, m)]
  /\ page' = [page EXCEPT ![t] = m]
  /\ entering' = [entering EXCEPT ![t] = Nobody]
  /\ crossed' = [s \in BrowserTab |-> IF s = t THEN FALSE ELSE crossed[s] \/ (SignedIn(s) /\ page[s] # m)]
  /\ UNCHANGED <<asked, shown, fresh, leftover>>

\* A wrong password is a 401 too; any other error is shown on the page.
Refuse401(t) ==
  /\ entering[t] # Nobody /\ page[t] = Nobody
  /\ entering' = [entering EXCEPT ![t] = Nobody]
  /\ \/ token' = Nobody /\ page' = [page EXCEPT ![t] = Redirected]
     \/ UNCHANGED <<token, page>>
  /\ UNCHANGED <<kept, expired, socket, asked, shown, fresh, sessionHistory>>

\* Variant: the socket is left as it is.
LogoutConnected(t) ==
  /\ SignedIn(t)
  /\ token' = Nobody /\ kept' = Nobody
  /\ page' = [page EXCEPT ![t] = Nobody]
  /\ leftover' = [leftover EXCEPT ![t] = TRUE]
  /\ UNCHANGED <<expired, entering, socket, asked, shown, fresh, crossed>>

\* logout: the chat store and the cache of react-query keep what they hold, and
\* a request under way goes on.
Logout(t) ==
  /\ SignedIn(t)
  /\ token' = Nobody /\ kept' = Nobody
  /\ socket' = [socket EXCEPT ![t] = Nobody]
  /\ page' = [page EXCEPT ![t] = Nobody]
  /\ leftover' = [leftover EXCEPT ![t] = TRUE]
  /\ UNCHANGED <<expired, entering, asked, shown, fresh, crossed>>

\* ChatLayout's query, when what it has is not fresh; the interceptor takes the
\* token from localStorage.
AskList(t) ==
  /\ SignedIn(t) /\ asked[t] = NotAsked /\ ~fresh[t]
  /\ asked' = [asked EXCEPT ![t] = token]
  /\ UNCHANGED <<storage, page, entering, socket, shown, fresh, sessionHistory>>

\* setConversations.
AnswerList(t) ==
  /\ asked[t] \in Member \ expired
  /\ asked' = [asked EXCEPT ![t] = NotAsked]
  /\ shown' = [shown EXCEPT ![t] = asked[t]]
  /\ fresh' = [fresh EXCEPT ![t] = TRUE]
  /\ leftover' = [leftover EXCEPT ![t] = @ /\ asked[t] # page[t]]
  /\ UNCHANGED <<storage, page, entering, socket, crossed>>

\* The response interceptor on a 401: token goes, auth-storage stays.
List401(t) ==
  /\ asked[t] \in expired \cup {Nobody}
  /\ token' = Nobody
  /\ page' = [page EXCEPT ![t] = Redirected]
  /\ asked' = [asked EXCEPT ![t] = NotAsked]
  /\ UNCHANGED <<kept, expired, entering, socket, shown, fresh, sessionHistory>>

\* Twice without an answer.
ListFails(t) ==
  /\ asked[t] # NotAsked
  /\ asked' = [asked EXCEPT ![t] = NotAsked]
  /\ UNCHANGED <<storage, page, entering, socket, shown, fresh, sessionHistory>>

\* staleTime is over.
TurnStale(t) ==
  /\ fresh[t]
  /\ fresh' = [fresh EXCEPT ![t] = FALSE]
  /\ UNCHANGED <<storage, page, entering, socket, asked, shown, sessionHistory>>

\* Five attempts at a connection have failed, or its token was refused.
SocketEnds(t) ==
  /\ socket[t] # Nobody
  /\ socket' = [socket EXCEPT ![t] = Nobody]
  /\ UNCHANGED <<storage, page, entering, asked, shown, fresh, sessionHistory>>

ExpireToken(m) ==
  /\ expired' = expired \cup {m}
  /\ UNCHANGED <<token, kept, tabState, sessionHistory>>

Respond(t) == AnswerList(t) \/ List401(t)

WebSessionNext ==
  \/ \E t \in BrowserTab :
       \/ Load(t) \/ SetAuth(t) \/ Refuse401(t) \/ Logout(t)
       \/ AskList(t) \/ Respond(t) \/ ListFails(t) \/ TurnStale(t) \/ SocketEnds(t)
       \/ \E m \in Member : Submit(t, m)
  \/ \E m \in Member : ExpireToken(m)

\* A browser loads and asks, and of requests made again and again one is
\* answered.
WebSessionFairness ==
  \A t \in BrowserTab : /\ WF_webSessionVars(Load(t))
                 /\ WF_webSessionVars(AskList(t))
                 /\ SF_webSessionVars(Respond(t))

----------------------------------------------------------------------------
(* Properties *)

\* A tab is one person everywhere: the user it shows, the one its socket talks
\* as, the one its request is made for and the one whose conversations it lists
\* are the same - unless another tab has logged in as somebody else meanwhile,
\* or it has not heard from the server since it was logged out.
OneIdentity ==
  \A t \in BrowserTab : SignedIn(t) /\ ~crossed[t] =>
    /\ socket[t] \in {page[t], Nobody}
    /\ leftover[t] \/ /\ asked[t] \in {page[t], Nobody, NotAsked}
                      /\ shown[t] \in {page[t], Nobody}

\* A tab that a 401 has sent to the login gets there.
LoginAfter401 == \A t \in BrowserTab : page[t] = Redirected ~> page[t] = Nobody
=============================================================================
