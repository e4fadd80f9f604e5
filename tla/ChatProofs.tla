----------------------------- MODULE ChatProofs -----------------------------
(***************************************************************************)
(* The browser's side of the chat, for every set of users, tabs, messages, *)
(* emoji and handlers: who a tab takes itself for, the reactions it shows, *)
(* and the messages and the unread badge of a conversation.                *)
(***************************************************************************)
EXTENDS ChatStore, Reactions, WebSession, FiniteSetTheorems, SequenceTheorems, TLAPS

----------------------------------------------------------------------------
\* Who a browser takes itself for

BrowserSpec == WebSessionInit /\ [][WebSessionNext]_webSessionVars

\* The login page is of nobody: no socket, and nothing of the last user is left
\* unless it was reached by a logout.
LoginIsBlank(t) ==
  page[t] = Nobody =>
    /\ socket[t] = Nobody
    /\ leftover[t] \/ (asked[t] = NotAsked /\ shown[t] = Nobody)

\* The token a tab would take from localStorage is its user's, or there is none.
TokenIsMine(t) == SignedIn(t) /\ ~crossed[t] => token \in {page[t], Nobody}

\* OneIdentity for one tab.
OnePerson(t) ==
  SignedIn(t) /\ ~crossed[t] =>
    /\ socket[t] \in {page[t], Nobody}
    /\ leftover[t] \/ /\ asked[t] \in {page[t], Nobody, NotAsked}
                      /\ shown[t] \in {page[t], Nobody}

IdentityInv ==
  /\ WebSessionTypeOK
  /\ token \in {kept, Nobody}
  /\ \A t \in BrowserTab : LoginIsBlank(t) /\ TokenIsMine(t) /\ OnePerson(t)

LEMMA IdentityStep ==
  ASSUME IdentityInv, WebSessionNext
  PROVE  IdentityInv'
<1>. USE NobodyAssumption, MemberAssumption
     DEF IdentityInv, WebSessionTypeOK, LoginIsBlank, TokenIsMine, OnePerson, SignedIn, Holder,
         NotAsked, Unopened, Redirected
<1>1. ASSUME NEW t \in BrowserTab, Load(t) PROVE IdentityInv'
  BY <1>1 DEF Load, storage
<1>2. ASSUME NEW t \in BrowserTab, SetAuth(t) PROVE IdentityInv'
  BY <1>2 DEF SetAuth, Connected
<1>3. ASSUME NEW t \in BrowserTab, Refuse401(t) PROVE IdentityInv'
  BY <1>3 DEF Refuse401, sessionHistory
<1>4. ASSUME NEW t \in BrowserTab, Logout(t) PROVE IdentityInv'
  BY <1>4 DEF Logout
<1>5. ASSUME NEW t \in BrowserTab, AskList(t) PROVE IdentityInv'
  BY <1>5 DEF AskList, storage, sessionHistory
<1>6. ASSUME NEW t \in BrowserTab, AnswerList(t) PROVE IdentityInv'
  BY <1>6 DEF AnswerList, storage
<1>7. ASSUME NEW t \in BrowserTab, List401(t) PROVE IdentityInv'
  BY <1>7 DEF List401, sessionHistory
<1>8. ASSUME NEW t \in BrowserTab, ListFails(t) \/ TurnStale(t) \/ SocketEnds(t) PROVE IdentityInv'
  BY <1>8 DEF ListFails, TurnStale, SocketEnds, storage, sessionHistory
<1>9. ASSUME NEW t \in BrowserTab, NEW m \in Member, Submit(t, m) PROVE IdentityInv'
  BY <1>9 DEF Submit, storage, sessionHistory
<1>10. ASSUME NEW m \in Member, ExpireToken(m) PROVE IdentityInv'
  BY <1>10 DEF ExpireToken, tabState, sessionHistory
<1>. QED
  BY <1>1, <1>2, <1>3, <1>4, <1>5, <1>6, <1>7, <1>8, <1>9, <1>10 DEF WebSessionNext, Respond

\* The types, and whose token, socket, request and list a tab has, hold throughout.
THEOREM IdentityInvariant == BrowserSpec => []IdentityInv
<1>1. WebSessionInit => IdentityInv
  BY NobodyAssumption, MemberAssumption
     DEF WebSessionInit, Blank, IdentityInv, WebSessionTypeOK, LoginIsBlank, TokenIsMine, OnePerson,
         SignedIn, Holder, NotAsked, Unopened, Redirected
<1>2. IdentityInv /\ UNCHANGED webSessionVars => IdentityInv'
  BY DEF IdentityInv, WebSessionTypeOK, LoginIsBlank, TokenIsMine, OnePerson, SignedIn,
         webSessionVars, storage, tabState, sessionHistory
<1>. QED
  BY <1>1, <1>2, IdentityStep, PTL DEF BrowserSpec

\* A tab is one person everywhere, unless another tab has logged in as somebody else
\* or it has not heard from the server since it was logged out.
THEOREM TabsAreOnePerson == BrowserSpec => []OneIdentity
<1>1. IdentityInv => OneIdentity
  BY DEF IdentityInv, OnePerson, OneIdentity
<1>. QED
  BY <1>1, IdentityInvariant, PTL

----------------------------------------------------------------------------
\* Reactions

News == [adds : BOOLEAN, pair : Pair]
Slot == [pc : {"idle", "writing", "telling"}, adds : BOOLEAN, pair : Pair]

\* The events on their way that are about a pair.
Coming(p) == {i \in DOMAIN feed : feed[i].pair = p}

\* When all events on their way have been applied, the tab shows p as it is: the
\* last of them decides, or what it shows now if there is none.
WillShow(p) ==
  /\ Coming(p) = {} => (p \in pills <=> p \in row)
  /\ \A i \in Coming(p) : (\A j \in Coming(p) : j <= i) => (feed[i].adds <=> p \in row)

Telling(p) == {h \in Busy(p) : handler[h].pc = "telling"}

\* What is known of a pair that is not torn: one handler works on it at most, the
\* row is what that handler is about to tell, and else the tab will show it.
Whole(p) ==
  /\ \A g, h \in Busy(p) : g = h
  /\ \A h \in Telling(p) : handler[h].adds <=> p \in row
  /\ Telling(p) = {} => WillShow(p)

PillsInv ==
  /\ ReactionsTypeOK
  /\ \A p \in Pair \ torn : Whole(p)

LEMMA IdleSlot == Idle \in Slot /\ Idle.pc = "idle"
<1>1. PICK e \in Emoji : TRUE
  BY EmojiAssumption
<1>2. <<Self, e>> \in Pair
  BY SelfAssumption DEF Pair
<1>. QED
  BY <1>2 DEF Idle, Slot

\* A handler turns to q: the other handlers stay what they are.
LEMMA Turns ==
  ASSUME ReactionsTypeOK, NEW h \in Handler, NEW q \in Slot, handler' = [handler EXCEPT ![h] = q]
  PROVE  /\ handler' \in [Handler -> Slot]
         /\ handler'[h] = q
         /\ \A g \in Handler \ {h} : handler'[g] = handler[g]
         /\ \A p \in Pair : Busy(p)' = IF q.pc # "idle" /\ q.pair = p THEN Busy(p) \cup {h} ELSE Busy(p) \ {h}
BY DEF ReactionsTypeOK, Slot, Busy

LEMMA RequestKeeps ==
  ASSUME PillsInv, NEW h \in Handler, NEW adds \in BOOLEAN, NEW p \in Pair, Request(h, adds, p)
  PROVE  PillsInv'
<1>. DEFINE q == [pc |-> "writing", adds |-> adds, pair |-> p]
<1>1. /\ q \in Slot /\ q.pc = "writing" /\ q.pair = p
      /\ handler' = [handler EXCEPT ![h] = q] /\ ReactionsTypeOK
  BY DEF Request, Slot, PillsInv
<1>. HIDE DEF q
<1>2. UNCHANGED <<row, attached, feed, pills, answer>> /\ handler[h].pc = "idle"
  BY DEF Request
<1>3. torn \subseteq torn' /\ torn' \subseteq Pair /\ (Busy(p) # {} => p \in torn')
  BY <1>1 DEF Request, ReactionsTypeOK
<1>4. ReactionsTypeOK'
  BY <1>1, <1>2, <1>3, Turns DEF ReactionsTypeOK, Slot
<1>5. ASSUME NEW x \in Pair \ torn' PROVE Whole(x)'
  <2>1. Whole(x)
    BY <1>3, <1>5 DEF PillsInv
  <2>2. WillShow(x)' <=> WillShow(x)
    BY <1>2 DEF WillShow, Coming
  <2>3. Telling(x)' = Telling(x)
    BY <1>1, <1>2, Turns DEF Telling, Busy
  <2>4. \A g \in Telling(x) : handler'[g] = handler[g]
    BY <1>1, <1>2, Turns DEF Telling, Busy
  <2>5. \A g, k \in Busy(x)' : g = k
    <3>1. Busy(x)' = IF q.pc # "idle" /\ q.pair = x THEN Busy(x) \cup {h} ELSE Busy(x) \ {h}
      BY <1>1, <1>5, Turns
    <3>2. p = x => Busy(x) = {}
      BY <1>3, <1>5
    <3>. QED
      BY <1>1, <2>1, <3>1, <3>2 DEF Whole
  <2>. QED
    BY <1>2, <2>1, <2>2, <2>3, <2>4, <2>5 DEF Whole
<1>. QED
  BY <1>4, <1>5 DEF PillsInv

LEMMA ReactKeeps ==
  ASSUME PillsInv, NEW h \in Handler, DbReact(h) \/ FailReact(h)
  PROVE  PillsInv'
<1>1. ReactionsTypeOK /\ handler[h] \in Slot /\ handler[h].pc = "writing"
  BY DEF DbReact, FailReact, Slot, PillsInv, ReactionsTypeOK
<1>2. UNCHANGED <<attached, feed, pills, answer, torn>>
  BY DEF DbReact, FailReact
<1>. DEFINE mine == handler[h].pair
<1>3. CASE DbReact(h)
  <2>. DEFINE q == [handler[h] EXCEPT !.pc = "telling"]
  <2>1. q \in Slot /\ q.pc = "telling" /\ q.pair = mine /\ q.adds = handler[h].adds
    BY <1>1 DEF Slot
  <2>2. handler' = [handler EXCEPT ![h] = q]
    BY <1>3 DEF DbReact
  <2>3. row' \subseteq Pair /\ (mine \in row' <=> handler[h].adds) /\ \A x \in Pair \ {mine} : x \in row' <=> x \in row
    BY <1>1, <1>3 DEF DbReact, Slot, ReactionsTypeOK
  <2>. HIDE DEF q
  <2>4. ReactionsTypeOK'
    BY <1>1, <1>2, <2>1, <2>2, <2>3, Turns DEF ReactionsTypeOK, Slot
  <2>5. ASSUME NEW x \in Pair \ torn' PROVE Whole(x)'
    <3>1. Whole(x) /\ x \in Pair
      BY <1>2, <2>5 DEF PillsInv
    <3>2. Busy(x)' = Busy(x) /\ (h \in Busy(x) <=> x = mine)
      BY <1>1, <2>1, <2>2, Turns DEF Busy
    <3>3. CASE x = mine
      <4>1. Busy(x) = {h}
        BY <3>1, <3>2, <3>3 DEF Whole
      <4>2. handler'[h] = q
        BY <1>1, <2>1, <2>2, Turns
      <4>3. Telling(x)' = {h} /\ handler'[h].adds = handler[h].adds
        BY <2>1, <3>2, <4>1, <4>2 DEF Telling
      <4>. QED
        BY <2>3, <3>1, <3>2, <3>3, <4>3 DEF Whole
    <3>4. CASE x # mine
      <4>1. Telling(x)' = Telling(x) /\ \A g \in Telling(x) : handler'[g] = handler[g]
        BY <1>1, <2>1, <2>2, <3>2, <3>4, Turns DEF Telling
      <4>2. WillShow(x)' <=> WillShow(x)
        BY <1>2, <2>3, <3>1, <3>4 DEF WillShow, Coming
      <4>. QED
        BY <2>3, <3>1, <3>2, <3>4, <4>1, <4>2 DEF Whole
    <3>. QED
      BY <3>3, <3>4
  <2>. QED
    BY <2>4, <2>5 DEF PillsInv
<1>4. CASE FailReact(h)
  <2>1. handler' = [handler EXCEPT ![h] = Idle] /\ UNCHANGED row
    BY <1>4 DEF FailReact
  <2>2. ReactionsTypeOK'
    BY <1>1, <1>2, <2>1, Turns, IdleSlot DEF ReactionsTypeOK, Slot
  <2>3. ASSUME NEW x \in Pair \ torn' PROVE Whole(x)'
    <3>1. Whole(x) /\ x \in Pair
      BY <1>2, <2>3 DEF PillsInv
    <3>2. Busy(x)' = Busy(x) \ {h}
      BY <1>1, <2>1, <3>1, Turns, IdleSlot
    <3>3. Telling(x)' = Telling(x) /\ \A g \in Telling(x) : handler'[g] = handler[g]
      BY <1>1, <2>1, <3>2, Turns, IdleSlot DEF Telling, Busy
    <3>4. WillShow(x)' <=> WillShow(x)
      BY <1>2, <2>1 DEF WillShow, Coming
    <3>. QED
      BY <2>1, <3>1, <3>2, <3>3, <3>4 DEF Whole
  <2>. QED
    BY <2>2, <2>3 DEF PillsInv
<1>. QED
  BY <1>3, <1>4


\* An event is put at the end of the feed: it decides what will be shown of its pair.
LEMMA EmitKeeps ==
  ASSUME PillsInv, NEW h \in Handler, EmitReaction(h)
  PROVE  PillsInv'
<1>. PICK mine \in Pair : mine = handler[h].pair
  BY DEF EmitReaction, PillsInv, ReactionsTypeOK
<1>. PICK event \in News : event = [adds |-> handler[h].adds, pair |-> mine]
  BY DEF News, PillsInv, ReactionsTypeOK
<1>1. ReactionsTypeOK /\ handler[h] \in Slot /\ handler[h].pc = "telling"
  BY DEF EmitReaction, Slot, News, PillsInv, ReactionsTypeOK
<1>2. /\ UNCHANGED <<row, attached, pills, answer>> /\ handler' = [handler EXCEPT ![h] = Idle]
      /\ feed' = IF attached THEN Append(feed, event) ELSE feed
      /\ torn' = IF ~attached THEN torn \cup {mine}
                 ELSE IF Busy(mine) = {h} /\ (mine \in row) = handler[h].adds THEN torn \ {mine} ELSE torn
  BY DEF EmitReaction, Heard
<1>3. ReactionsTypeOK'
  <2>1. feed \in Seq(News) /\ torn \subseteq Pair
    BY <1>1 DEF ReactionsTypeOK, News
  <2>2. feed' \in Seq(News) /\ torn' \subseteq Pair
    BY <1>2, <2>1
  <2>. QED
    BY <1>1, <1>2, <2>2, Turns, IdleSlot DEF ReactionsTypeOK, Slot, News
<1>4. \A x \in Pair : Busy(x)' = Busy(x) \ {h}
  BY <1>1, <1>2, Turns, IdleSlot
<1>5. \A x \in Pair : Telling(x)' = Telling(x) \ {h} /\ \A g \in Telling(x)' : handler'[g] = handler[g]
  BY <1>1, <1>2, <1>4, Turns, IdleSlot DEF Telling, Busy
<1>6. ASSUME NEW x \in Pair \ torn', x # mine PROVE Whole(x)'
  <2>1. Whole(x) /\ h \notin Busy(x)
    BY <1>2, <1>6 DEF PillsInv, Busy
  <2>2. Coming(x)' = Coming(x) /\ \A i \in Coming(x) : feed'[i] = feed[i]
    <3>1. feed \in Seq(News) /\ event.pair # x
      BY <1>1, <1>6 DEF ReactionsTypeOK, News
    <3>. QED
      BY <1>2, <3>1 DEF Coming
  <2>3. WillShow(x)' <=> WillShow(x)
    BY <1>2, <2>2 DEF WillShow
  <2>4. Telling(x)' = Telling(x)
    BY <1>5, <1>6, <2>1 DEF Telling
  <2>. QED
    BY <1>2, <1>4, <1>5, <1>6, <2>1, <2>3, <2>4 DEF Whole
<1>7. ASSUME mine \notin torn' PROVE Whole(mine)'
  <2>1. mine \in Pair /\ h \in Busy(mine) /\ h \in Telling(mine)
    BY <1>1 DEF Slot, Busy, Telling
  <2>2. attached /\ Busy(mine) = {h} /\ (handler[h].adds <=> mine \in row)
    BY <1>1, <1>2, <1>7, <2>1 DEF PillsInv, Whole, Slot
  <2>3. Busy(mine)' = {} /\ Telling(mine)' = {}
    BY <1>4, <2>1, <2>2 DEF Telling
  <2>4. Len(feed) + 1 \in Coming(mine)' /\ feed'[Len(feed) + 1] = event
        /\ \A i \in Coming(mine)' : i \in Nat /\ i <= Len(feed) + 1
    BY <1>1, <1>2, <2>2 DEF Coming, ReactionsTypeOK, News
  <2>5. WillShow(mine)'
    <3>1. event.adds = handler[h].adds
      OBVIOUS
    <3>2. ASSUME NEW i \in Coming(mine)', \A j \in Coming(mine)' : j <= i PROVE i = Len(feed) + 1
      BY <1>1, <2>4, <3>2 DEF ReactionsTypeOK
    <3>3. \A i \in Coming(mine)' : (\A j \in Coming(mine)' : j <= i) => (feed'[i].adds <=> mine \in row')
      BY <1>2, <2>2, <2>4, <3>1, <3>2
    <3>. QED
      BY <2>4, <3>3 DEF WillShow
  <2>. QED
    BY <2>3, <2>5 DEF Whole
<1>. QED
  BY <1>3, <1>6, <1>7 DEF PillsInv

\* The first event is applied: the others, or what it leaves, decide as before.
LEMMA ApplyKeeps ==
  ASSUME PillsInv, ApplyReaction
  PROVE  PillsInv'
<1>. DEFINE e == Head(feed)
<1>1. /\ ReactionsTypeOK /\ feed \in Seq(News) /\ feed # <<>> /\ feed' = Tail(feed)
      /\ UNCHANGED <<row, handler, attached, answer, torn>>
      /\ pills' = IF e.adds THEN pills \cup {e.pair} ELSE pills \ {e.pair}
  BY DEF ApplyReaction, PillsInv, ReactionsTypeOK, News
<1>2. e \in News /\ e = feed[1] /\ 1 \in DOMAIN feed /\ feed' \in Seq(News)
  BY <1>1
<1>3. ReactionsTypeOK'
  BY <1>1, <1>2 DEF ReactionsTypeOK, News
<1>4. /\ \A i \in Nat : i \in DOMAIN feed' => i + 1 \in DOMAIN feed /\ feed'[i] = feed[i + 1]
      /\ \A i \in DOMAIN feed : i # 1 => i - 1 \in DOMAIN feed' /\ i - 1 \in Nat
      /\ DOMAIN feed \subseteq Nat /\ DOMAIN feed' \subseteq Nat /\ \A i \in DOMAIN feed : 1 <= i
  BY <1>1, <1>2
<1>5. ASSUME NEW x \in Pair, WillShow(x) PROVE WillShow(x)'
  <2>1. \A i \in Nat : i \in Coming(x)' <=> i + 1 \in Coming(x) /\ i \in DOMAIN feed'
    BY <1>4 DEF Coming
  <2>2. Coming(x) \subseteq Nat /\ Coming(x)' \subseteq Nat
    BY <1>4 DEF Coming
  <2>3. \A i \in Coming(x) : i # 1 => i - 1 \in Coming(x)'
    <3>1. \A i \in DOMAIN feed : i # 1 => (i - 1) + 1 = i
      BY <1>4
    <3>. QED
      BY <1>4, <2>1, <3>1 DEF Coming
  <2>4. CASE Coming(x)' = {}
    <3>1. \A i \in Coming(x) : i = 1
      BY <2>3, <2>4
    <3>2. CASE e.pair = x
      <4>1. 1 \in Coming(x)
        BY <1>2, <3>2 DEF Coming
      <4>2. feed[1].adds <=> x \in row
        BY <1>5, <3>1, <4>1, <2>2 DEF WillShow
      <4>. QED
        BY <1>1, <1>2, <2>4, <3>2, <4>2 DEF WillShow, News
    <3>3. CASE e.pair # x
      <4>1. Coming(x) = {}
        BY <1>2, <3>1, <3>3 DEF Coming
      <4>2. x \in pills' <=> x \in pills
        BY <1>1, <3>3
      <4>. QED
        BY <1>1, <1>5, <2>4, <4>1, <4>2 DEF WillShow
    <3>. QED
      BY <3>2, <3>3
  <2>5. CASE Coming(x)' # {}
    <3>1. ASSUME NEW i \in Coming(x)', \A j \in Coming(x)' : j <= i
          PROVE  feed'[i].adds <=> x \in row
      <4>1. i \in Nat /\ i + 1 \in Coming(x) /\ feed'[i] = feed[i + 1]
        BY <1>4, <2>1, <2>2 DEF Coming
      <4>2. ASSUME NEW j \in Coming(x) PROVE j <= i + 1
        <5>1. CASE j = 1
          BY <4>1, <5>1
        <5>2. CASE j # 1
          BY <2>2, <2>3, <3>1, <4>1, <5>2
        <5>. QED
          BY <5>1, <5>2
      <4>. QED
        BY <1>5, <4>1, <4>2 DEF WillShow
    <3>. QED
      BY <1>1, <2>5, <3>1 DEF WillShow
  <2>. QED
    BY <2>4, <2>5
<1>6. ASSUME NEW x \in Pair \ torn' PROVE Whole(x)'
  <2>1. Whole(x)
    BY <1>1, <1>6 DEF PillsInv
  <2>2. Busy(x)' = Busy(x) /\ Telling(x)' = Telling(x)
    BY <1>1 DEF Busy, Telling
  <2>. QED
    BY <1>1, <1>5, <2>1, <2>2 DEF Whole
<1>. QED
  BY <1>3, <1>6 DEF PillsInv

\* An answer replaces what is shown; what it tears counts as torn.
LEMMA SetKeeps ==
  ASSUME PillsInv, SetHistory
  PROVE  PillsInv'
<1>1. /\ ReactionsTypeOK /\ UNCHANGED <<row, handler, attached, feed>>
      /\ answer' = NoRows /\ pills' = answer.rows /\ answer.rows \subseteq Pair /\ torn' \subseteq Pair
  BY DEF SetHistory, PillsInv, ReactionsTypeOK
<1>2. ReactionsTypeOK'
  BY <1>1 DEF ReactionsTypeOK, NoRows
<1>3. ASSUME NEW x \in Pair \ torn' PROVE Whole(x)'
  <2>1. /\ Busy(x)' = Busy(x) /\ Telling(x)' = Telling(x) /\ Coming(x)' = Coming(x)
    BY <1>1 DEF Busy, Telling, Coming
  <2>2. IF (x \in row) = (x \in answer.rows)
          THEN x \notin torn \/ (Coming(x) = {} /\ Busy(x) = {})
          ELSE x \notin torn /\ (Coming(x) # {} \/ Telling(x) # {})
    BY <1>3 DEF SetHistory, Coming, Telling
  <2>3. CASE x \in torn
    BY <1>1, <2>1, <2>2, <2>3 DEF Whole, WillShow, Telling
  <2>4. CASE x \notin torn
    <3>1. Whole(x)
      BY <2>4 DEF PillsInv
    <3>2. CASE Coming(x) # {}
      BY <1>1, <2>1, <3>1, <3>2 DEF Whole, WillShow
    <3>3. CASE Coming(x) = {}
      BY <1>1, <2>1, <2>2, <2>4, <3>1, <3>3 DEF Whole, WillShow
    <3>. QED
      BY <3>2, <3>3
  <2>. QED
    BY <2>3, <2>4
<1>. QED
  BY <1>2, <1>3 DEF PillsInv

LEMMA LinkKeeps ==
  ASSUME PillsInv, Detach \/ Attach \/ DbHistory
  PROVE  PillsInv'
<1>1. /\ ReactionsTypeOK /\ UNCHANGED <<row, handler, pills>>
      /\ feed' = feed \/ feed' = <<>>
      /\ torn \subseteq torn' /\ torn' \subseteq Pair
      /\ answer' \in [read : BOOLEAN, rows : SUBSET Pair] /\ attached' \in BOOLEAN
  <2>1. ReactionsTypeOK /\ feed \in Seq(News)
    BY DEF PillsInv, ReactionsTypeOK, News
  <2>2. CASE Detach
    <3>1. \A i \in DOMAIN feed : feed[i].pair \in Pair
      <4>1. \A i \in DOMAIN feed : feed[i] \in News
        BY <2>1
      <4>. QED
        BY <4>1 DEF News
    <3>2. {feed[i].pair : i \in DOMAIN feed} \subseteq Pair
      BY <3>1
    <3>. QED
      BY <2>1, <2>2, <3>2 DEF Detach, ReactionsTypeOK
  <2>3. CASE Attach
    BY <2>1, <2>3 DEF Attach, ReactionsTypeOK
  <2>4. CASE DbHistory
    BY <2>1, <2>4 DEF DbHistory, ReactionsTypeOK
  <2>. QED
    BY <2>2, <2>3, <2>4
<1>2. ReactionsTypeOK'
  <2>1. feed \in Seq(News)
    BY <1>1 DEF ReactionsTypeOK, News
  <2>2. <<>> \in Seq(News)
    OBVIOUS
  <2>3. feed' \in Seq(News)
    BY <1>1, <2>1, <2>2
  <2>. QED
    BY <1>1, <2>3 DEF ReactionsTypeOK, News
<1>3. ASSUME NEW x \in Pair \ torn' PROVE Whole(x)'
  <2>1. Whole(x) /\ Busy(x)' = Busy(x) /\ Telling(x)' = Telling(x)
    BY <1>1, <1>3 DEF PillsInv, Busy, Telling
  <2>2. WillShow(x) => WillShow(x)'
    <3>1. CASE UNCHANGED feed
      BY <1>1, <3>1 DEF WillShow, Coming
    <3>2. CASE Detach
      <4>1. Coming(x) = {} /\ Coming(x)' = {}
        BY <1>3, <3>2 DEF Detach, Coming
      <4>. QED
        BY <1>1, <4>1 DEF WillShow
    <3>. QED
      BY <3>1, <3>2 DEF Attach, DbHistory
  <2>. QED
    BY <1>1, <2>1, <2>2 DEF Whole
<1>. QED
  BY <1>2, <1>3 DEF PillsInv

\* What is known of every pair that is not torn, holds throughout.
THEOREM PillsInvariant == ReactionsSpec => []PillsInv
<1>1. ReactionsInit => PillsInv
  <2>1. ASSUME ReactionsInit PROVE ReactionsTypeOK
    BY <2>1, IdleSlot DEF ReactionsInit, ReactionsTypeOK, Slot, NoRows
  <2>2. ASSUME ReactionsInit, NEW x \in Pair PROVE Whole(x)
    BY <2>2, IdleSlot DEF ReactionsInit, Whole, Busy, Telling, WillShow, Coming
  <2>. QED
    BY <2>1, <2>2 DEF PillsInv
<1>2. PillsInv /\ ReactionsNext => PillsInv'
  <2>1. ASSUME PillsInv, NEW h \in Handler, NEW e \in Emoji, Click(h, e) PROVE PillsInv'
    <3>1. <<Self, e>> \in Pair /\ (Self \notin Grouped(e)) \in BOOLEAN
      BY SelfAssumption DEF Pair
    <3>. QED
      BY <2>1, <3>1, RequestKeeps DEF Click
  <2>. QED
    BY <2>1, RequestKeeps, ReactKeeps, EmitKeeps, ApplyKeeps, SetKeeps, LinkKeeps
       DEF ReactionsNext, Elsewhere, QuickClick, PillClick
<1>3. PillsInv /\ UNCHANGED reactionVars => PillsInv'
  BY DEF PillsInv, ReactionsTypeOK, Whole, Busy, Telling, WillShow, Coming, reactionVars
<1>. QED
  BY <1>1, <1>2, <1>3, PTL DEF ReactionsSpec

\* With nothing under way, the tab shows a reaction exactly if its row is there,
\* unless the pair was torn.
THEOREM PillsAgree == ReactionsSpec => []PillsAgreeAtRest
<1>1. PillsInv => PillsAgreeAtRest
  BY DEF PillsInv, Whole, Telling, WillShow, Coming, PillsAgreeAtRest
<1>. QED
  BY <1>1, PillsInvariant, PTL
----------------------------------------------------------------------------
(* The store of a tab *)

\* Row a stands before row b.
Before(a, b) == \E k, l \in DOMAIN history : k < l /\ history[k] = a /\ history[l] = b

\* The messages of a page when there are n.
PageLength(n) == IF n < Take THEN n ELSE Take

\* A page that was read holds the newest of the rows there were.
PageInv ==
  /\ pull.rows <= Len(history) /\ Len(pull.got) = PageLength(pull.rows)
  /\ \A i \in 1..Len(pull.got) : pull.got[i] = history[(pull.rows - Len(pull.got)) + i]

\* The rows that a page on its way may hold.
Reach == IF pull.at = "answered" THEN pull.rows ELSE Len(history)

\* What a page was too short for is older than those in a page on its way, and than
\* the newest.
CutInv == \A m \in cut : \E i \in DOMAIN history : history[i] = m /\ i + Take <= Reach

\* Every event follows the row of its message, a message has one row and one event,
\* and the tab shows only rows.
RowsInv ==
  /\ IsFiniteSet(Range(history)) /\ IsInjective(history) /\ IsInjective(list)
  /\ Range(list) \subseteq Range(history)
  /\ \A m \in Message : m \in Range(history) <=> send[m] \notin {"unsent", "creating"}
  /\ \A i \in DOMAIN inbox, m \in Message : inbox[i] = Arrival(m) => send[m] = "done"
  /\ \A i, j \in DOMAIN inbox, m \in Message :
       inbox[i] = Arrival(m) /\ inbox[j] = Arrival(m) => i = j
  /\ PageInv

\* A row is on the screen, on its way, lost, or older than the page.
FlowInv ==
  /\ Range(list) \cap lost = {}
  /\ \A m \in Range(history) :
       \/ m \in Range(list) \/ m \in lost \/ m \in cut
       \/ send[m] = "emitting" \/ Arrival(m) \in Range(inbox)

\* What the tab shows, and what it will come to show, is in the order of the rows but
\* for the pairs emitted in the other order and what a page was too short for.  The
\* second part is what the third needs when an answer and an event meet: a row that
\* is not on the screen though a later one is, and a page was not too short for it,
\* can only be one that the event of the later overtook.
OrderInv ==
  /\ \A i, j \in DOMAIN inbox, a, b \in Message :
       i < j /\ inbox[i] = Arrival(a) /\ inbox[j] = Arrival(b)
         => <<a, b>> \in swapped \/ Before(a, b)
  /\ \A a \in Range(list), b \in Range(history) \ (Range(list) \cup cut) :
       Before(b, a) => /\ send[a] = "done"
                       /\ Arrival(b) \in Range(inbox) => <<a, b>> \in swapped
  /\ \A i, j \in DOMAIN list :
       i < j => \/ <<list[i], list[j]>> \in swapped \/ list[j] \in cut
                \/ Before(list[i], list[j])

\* The badge counts what is settled, unless it was skewed or a mark_read of the user
\* is under way.
BadgeInv ==
  /\ listed /\ ~skewed /\ mark[Me] # "marking"
  /\ \A t \in Tab : t # Me /\ Owner[t] = Mine => mark[t] # "telling"
  /\ Receipt(Mine) \notin Range(inbox)
  => badge = Cardinality(Settled)

StoreInv == TypeOK /\ RowsInv /\ CutInv /\ FlowInv /\ OrderInv /\ BadgeInv

LEMMA SeqAppend ==
  ASSUME NEW S, NEW s \in Seq(S), NEW e \in S
  PROVE  /\ Append(s, e) \in Seq(S)
         /\ DOMAIN s = 1..Len(s) /\ Len(s) \in Nat
         /\ Len(Append(s, e)) = Len(s) + 1 /\ DOMAIN Append(s, e) = 1..(Len(s) + 1)
         /\ \A i \in 1..Len(s) : Append(s, e)[i] = s[i]
         /\ Append(s, e)[Len(s) + 1] = e
         /\ Range(Append(s, e)) = Range(s) \cup {e}
<1>1. /\ Append(s, e) \in Seq(S)
      /\ DOMAIN s = 1..Len(s) /\ Len(s) \in Nat
      /\ Len(Append(s, e)) = Len(s) + 1 /\ DOMAIN Append(s, e) = 1..(Len(s) + 1)
      /\ \A i \in 1..Len(s) : Append(s, e)[i] = s[i]
      /\ Append(s, e)[Len(s) + 1] = e
  OBVIOUS
<1>2. Range(Append(s, e)) \subseteq Range(s) \cup {e}
  BY <1>1 DEF Range
<1>3. Range(s) \subseteq Range(Append(s, e))
  <2>1. ASSUME NEW i \in DOMAIN s PROVE s[i] = Append(s, e)[i] /\ i \in DOMAIN Append(s, e)
    BY <1>1, <2>1
  <2>. QED
    BY <2>1 DEF Range
<1>4. e \in Range(Append(s, e))
  BY <1>1 DEF Range
<1>. QED
  BY <1>1, <1>2, <1>3, <1>4

LEMMA SeqTail ==
  ASSUME NEW S, NEW s \in Seq(S), s # <<>>
  PROVE  /\ Tail(s) \in Seq(S)
         /\ DOMAIN s = 1..Len(s) /\ Len(s) \in Nat \ {0}
         /\ DOMAIN Tail(s) = 1..(Len(s) - 1)
         /\ \A i \in 1..(Len(s) - 1) : Tail(s)[i] = s[i + 1]
         /\ Head(s) = s[1] /\ Head(s) \in S
         /\ Range(s) = Range(Tail(s)) \cup {Head(s)}
<1>1. /\ Tail(s) \in Seq(S)
      /\ DOMAIN s = 1..Len(s) /\ Len(s) \in Nat \ {0}
      /\ DOMAIN Tail(s) = 1..(Len(s) - 1)
      /\ \A i \in 1..(Len(s) - 1) : Tail(s)[i] = s[i + 1]
      /\ Head(s) = s[1] /\ Head(s) \in S
  OBVIOUS
<1>2. Range(Tail(s)) \cup {Head(s)} \subseteq Range(s)
  <2>1. ASSUME NEW i \in DOMAIN Tail(s) PROVE Tail(s)[i] = s[i + 1] /\ i + 1 \in DOMAIN s
    BY <1>1, <2>1
  <2>. QED
    BY <1>1, <2>1 DEF Range
<1>3. Range(s) \subseteq Range(Tail(s)) \cup {Head(s)}
  <2>1. ASSUME NEW i \in DOMAIN s PROVE s[i] \in Range(Tail(s)) \cup {Head(s)}
    <3>1. CASE i = 1
      BY <1>1, <3>1
    <3>2. CASE i # 1
      <4>1. i - 1 \in DOMAIN Tail(s) /\ Tail(s)[i - 1] = s[i]
        BY <1>1, <3>2
      <4>. QED
        BY <4>1 DEF Range
    <3>. QED
      BY <3>1, <3>2
  <2>. QED
    BY <2>1 DEF Range
<1>. QED
  BY <1>1, <1>2, <1>3

\* An event is of one kind.
LEMMA EventKinds ==
  /\ \A m \in Message : Arrival(m).kind = "message" /\ Arrival(m).msg = m /\ Arrival(m) \in Event
  /\ \A u \in User : Receipt(u).kind = "read" /\ Receipt(u).by = u /\ Receipt(u) \in Event
  /\ \A e \in Event : e.kind = "message" => e.msg \in Message /\ e = Arrival(e.msg)
  /\ \A e \in Event : e.kind = "read" => e.by \in User /\ e = Receipt(e.by)
BY DEF Event, Arrival, Receipt

\* Nobody but the two participants.
LEMMA OwnersTyped ==
  /\ Mine \in User /\ \A t \in Tab : Owner[t] \in User
  /\ \A m \in Message : From[m] \in Tab /\ Author(m) \in User
BY TabAssumption DEF Mine, Author

LEMMA UnreadFinite ==
  ASSUME IsFiniteSet(Range(history))
  PROVE  \A u : IsFiniteSet(Unread(u)) /\ Cardinality(Unread(u)) \in Nat
BY FS_Subset, FS_CardinalityType DEF Unread

\* What the query answers.
LEMMA NewestRows ==
  ASSUME TypeOK
  PROVE  /\ Newest \in Seq(Message) /\ Len(Newest) = PageLength(Len(history))
         /\ \A i \in 1..Len(Newest) : Newest[i] = history[(Len(history) - Len(Newest)) + i]
<1>. DEFINE n == Len(history)
            first == IF n < Take THEN 1 ELSE n - Take + 1
<1>1. n \in Nat /\ Take \in Nat \ {0} /\ history \in Seq(Message)
  BY TakeAssumption DEF TypeOK
<1>2. first \in 1..(n + 1) /\ n \in (first - 1)..n /\ (n - first) + 1 = PageLength(n)
  BY <1>1 DEF PageLength
<1>3. Newest = SubSeq(history, first, n)
  BY DEF Newest
<1>4. /\ SubSeq(history, first, n) \in Seq(Message)
      /\ Len(SubSeq(history, first, n)) = (n - first) + 1
      /\ \A i \in 1..((n - first) + 1) : SubSeq(history, first, n)[i] = history[first + i - 1]
  <2>1. \A i \in first..n : history[i] \in Message
    BY <1>1, <1>2
  <2>2. /\ SubSeq(history, first, n) \in Seq(Message)
        /\ Len(SubSeq(history, first, n)) = IF first <= n THEN n - first + 1 ELSE 0
        /\ \A i \in 1..(n - first + 1) : SubSeq(history, first, n)[i] = history[first + i - 1]
    <3>1. first \in Int /\ n \in Int
      BY <1>1, <1>2
    <3>. HIDE DEF first, n
    <3>. QED
      BY <2>1, <3>1, SubSeqProperties
  <2>3. (IF first <= n THEN n - first + 1 ELSE 0) = (n - first) + 1
    <3>. HIDE DEF first, n
    <3>. QED
      BY <1>1, <1>2
  <2>. DEFINE rows == SubSeq(history, first, n)
  <2>. HIDE DEF first, n, rows
  <2>. QED
    BY <2>2, <2>3 DEF rows
<1>5. Len(Newest) = (n - first) + 1
  BY <1>3, <1>4
<1>6. ASSUME NEW i \in 1..Len(Newest)
      PROVE  /\ first + i - 1 = (n - Len(Newest)) + i
             /\ i \in 1..((n - first) + 1)
  <2>. HIDE DEF first, n
  <2>. QED
    BY <1>1, <1>2, <1>5
<1>. HIDE DEF first
<1>. QED
  BY <1>2, <1>3, <1>4, <1>5, <1>6

LEMMA StoreTyped ==
  ASSUME TypeOK, IsFiniteSet(Range(history)), [Next]_vars
  PROVE  TypeOK'
<1>. USE DEF TypeOK
<1>1. ASSUME NEW m \in Message, DbCreateMessage(m) PROVE TypeOK'
  BY <1>1, SeqAppend DEF DbCreateMessage, entry, fetches
<1>2. ASSUME NEW m \in Message, EmitMessage(m) PROVE TypeOK'
  <2>1. inbox' \in Seq(Event)
    BY <1>2, SeqAppend, EventKinds DEF EmitMessage
  <2>2. Overtaken(m) \subseteq Message
    BY DEF Overtaken, Range
  <2>. QED
    BY <1>2, <2>1, <2>2 DEF EmitMessage, entry, fetches
<1>3. ASSUME NEW m \in Message, FailSend(m) \/ Send(m) PROVE TypeOK'
  BY <1>3 DEF FailSend, Send, entry, fetches
<1>4. ASSUME NEW t \in Tab, DbMarkRead(t) PROVE TypeOK'
  BY <1>4 DEF DbMarkRead, entry, fetches, Unread
<1>5. ASSUME NEW t \in Tab, EmitRead(t) PROVE TypeOK'
  <2>1. inbox' \in Seq(Event)
    BY <1>5, SeqAppend, EventKinds, OwnersTyped DEF EmitRead
  <2>. QED
    BY <1>5, <2>1 DEF EmitRead, entry, fetches
<1>6. CASE DbConversations
  BY <1>6, UnreadFinite DEF DbConversations, server, entry
<1>7. CASE DbMessages \/ AskMessages
  BY <1>7, NewestRows DEF DbMessages, AskMessages, server, entry
<1>8. CASE SetConversations
  BY <1>8 DEF SetConversations, server, NoCount
<1>9. CASE SetMessages
  <2>1. NoAnswer \in [at : {"idle", "asked", "answered"}, got : Seq(Message), rows : Nat]
    BY EmptySeq DEF NoAnswer
  <2>. QED
    BY <1>9, <2>1 DEF SetMessages, server, entry, Replaced, Range
<1>10. CASE FailQuery
  <2>1. NoAnswer \in [at : {"idle", "asked", "answered"}, got : Seq(Message), rows : Nat]
    BY EmptySeq DEF NoAnswer
  <2>2. NoCount \in [at : {"idle", "answered"}, got : Nat]
    BY DEF NoCount
  <2>. QED
    BY <1>10, <2>1, <2>2 DEF FailQuery, server, entry
<1>11. CASE Mount /\ listed' \in BOOLEAN
  BY <1>11 DEF Mount
<1>12. CASE Back \/ Reconnect
  BY <1>12 DEF Back, Reconnect, server, entry, fetches
<1>13. CASE Deliver
  <2>1. inbox' \in Seq(Event) /\ Head(inbox) \in Event
    BY <1>13, SeqTail DEF Deliver
  <2>2. ASSUME NEW m \in Message, AddMessage(m)
        PROVE  list' \in Seq(Message) /\ badge' \in Nat /\ lost' \subseteq Message
               /\ skewed' \in BOOLEAN
    BY <2>2, SeqAppend DEF AddMessage
  <2>3. ASSUME NEW u \in User, MarkConversationRead(u)
        PROVE  list' \in Seq(Message) /\ badge' \in Nat /\ lost' \subseteq Message
               /\ skewed' \in BOOLEAN
    BY <2>3 DEF MarkConversationRead
  <2>. QED
    BY <1>13, <2>1, <2>2, <2>3, EventKinds DEF Deliver, server, fetches
<1>14. CASE Drop \/ FailMark
  BY <1>14, EmptySeq, TabAssumption DEF Drop, FailMark, entry, fetches
<1>15. CASE UNCHANGED vars
  BY <1>15 DEF vars, server, entry, fetches
<1>. QED
  BY <1>1, <1>2, <1>3, <1>4, <1>5, <1>6, <1>7, <1>8, <1>9, <1>10, <1>11, <1>12, <1>13, <1>14, <1>15
     DEF Next, Gateway, Browser, Network, Select, StartChat

\* The steps that move a message, a row, an event or an answer.
LEMMA StoreSteps ==
  ASSUME TypeOK, [Next]_vars
  PROVE  \/ \E m \in Message : Send(m) \/ DbCreateMessage(m) \/ EmitMessage(m) \/ FailSend(m)
         \/ \E t \in Tab : EmitRead(t)
         \/ DbMessages \/ SetMessages \/ Deliver \/ Drop
         \/ /\ UNCHANGED <<send, history, inbox, list, swapped, lost, cut>>
            /\ \/ pull' = NoAnswer
               \/ /\ pull'.got = pull.got /\ pull'.rows = pull.rows
                  /\ pull'.at = "answered" <=> pull.at = "answered"
<1>. DEFINE Plain == /\ UNCHANGED <<send, history, inbox, list, swapped, lost, cut>>
                     /\ \/ pull' = NoAnswer
                        \/ /\ pull'.got = pull.got /\ pull'.rows = pull.rows
                           /\ pull'.at = "answered" <=> pull.at = "answered"
<1>1. ASSUME NEW t \in Tab, DbMarkRead(t) PROVE Plain
  BY <1>1 DEF DbMarkRead, fetches
<1>2. CASE DbConversations \/ SetConversations \/ Back \/ Reconnect \/ FailMark
  BY <1>2 DEF DbConversations, SetConversations, Back, Reconnect, FailMark, server, fetches
<1>3. CASE AskMessages
  BY <1>3 DEF AskMessages, server, TypeOK
<1>4. CASE FailQuery
  BY <1>4 DEF FailQuery, server
<1>5. CASE Mount
  BY <1>5 DEF Mount, TypeOK
<1>6. CASE UNCHANGED vars
  BY <1>6 DEF vars, server, fetches
<1>. QED
  BY <1>1, <1>2, <1>3, <1>4, <1>5, <1>6 DEF Next, Gateway, Browser, Network, Select, StartChat

\* The place of a row of the page among all.
LEMMA PageRows ==
  ASSUME TypeOK, PageInv
  PROVE  /\ DOMAIN pull.got = 1..Len(pull.got) /\ DOMAIN history = 1..Len(history)
         /\ Len(pull.got) \in Nat /\ pull.rows \in Nat /\ Len(history) \in Nat /\ Take \in Nat \ {0}
         /\ Len(pull.got) <= pull.rows /\ pull.rows <= Len(history)
         /\ \A i \in DOMAIN pull.got :
              /\ (pull.rows - Len(pull.got)) + i \in DOMAIN history
              /\ (pull.rows - Len(pull.got)) + i <= pull.rows
              /\ pull.got[i] = history[(pull.rows - Len(pull.got)) + i]
         /\ \A k \in DOMAIN history :
              k <= pull.rows /\ ~(k + Take <= pull.rows)
                => /\ k - (pull.rows - Len(pull.got)) \in DOMAIN pull.got
                   /\ pull.got[k - (pull.rows - Len(pull.got))] = history[k]
<1>1. /\ DOMAIN pull.got = 1..Len(pull.got) /\ DOMAIN history = 1..Len(history)
      /\ Len(pull.got) \in Nat /\ pull.rows \in Nat /\ Len(history) \in Nat /\ Take \in Nat \ {0}
  BY TakeAssumption DEF TypeOK
<1>2. Len(pull.got) <= pull.rows /\ pull.rows <= Len(history)
  BY <1>1 DEF PageInv, PageLength
<1>3. ASSUME NEW i \in DOMAIN pull.got
      PROVE  /\ (pull.rows - Len(pull.got)) + i \in DOMAIN history
             /\ (pull.rows - Len(pull.got)) + i <= pull.rows
             /\ pull.got[i] = history[(pull.rows - Len(pull.got)) + i]
  BY <1>1, <1>2, <1>3 DEF PageInv
<1>4. ASSUME NEW k \in DOMAIN history, k <= pull.rows, ~(k + Take <= pull.rows)
      PROVE  /\ k - (pull.rows - Len(pull.got)) \in DOMAIN pull.got
             /\ pull.got[k - (pull.rows - Len(pull.got))] = history[k]
  <2>1. k - (pull.rows - Len(pull.got)) \in DOMAIN pull.got
    BY <1>1, <1>2, <1>4 DEF PageInv, PageLength
  <2>2. (pull.rows - Len(pull.got)) + (k - (pull.rows - Len(pull.got))) = k
    BY <1>1
  <2>. QED
    BY <1>3, <2>1, <2>2
<1>. QED
  BY <1>1, <1>2, <1>3, <1>4

\* A page stays what it is while rows come; nothing is on its way but what was read.
LEMMA PageStays ==
  ASSUME TypeOK, PageInv,
         \/ history' = history \/ (\E m \in Message : history' = Append(history, m)),
         \/ pull' = NoAnswer \/ (pull'.got = pull.got /\ pull'.rows = pull.rows)
         \/ history' = history /\ pull'.got = Newest /\ pull'.rows = Len(history)
  PROVE  PageInv'
<1>1. Len(history) \in Nat /\ Len(pull.got) \in Nat /\ pull.rows \in Nat /\ Take \in Nat \ {0}
  BY TakeAssumption DEF TypeOK
<1>2. /\ Len(history') \in Nat /\ Len(history) <= Len(history')
      /\ \A i \in 1..Len(history) : history'[i] = history[i]
  <2>1. CASE history' = history
    BY <1>1, <2>1
  <2>2. ASSUME NEW m \in Message, history' = Append(history, m)
        PROVE  /\ Len(history') \in Nat /\ Len(history) <= Len(history')
               /\ \A i \in 1..Len(history) : history'[i] = history[i]
    BY <1>1, <2>2, SeqAppend DEF TypeOK
  <2>. QED
    BY <2>1, <2>2
<1>3. CASE pull' = NoAnswer
  <2>1. Len(pull'.got) = 0 /\ pull'.rows = 0 /\ PageLength(0) = 0
    BY <1>1, <1>3 DEF NoAnswer, PageLength
  <2>. QED
    BY <1>2, <2>1 DEF PageInv, PageLength
<1>4. CASE pull'.got = pull.got /\ pull'.rows = pull.rows
  <2>1. Len(pull.got) <= pull.rows /\ pull.rows <= Len(history)
    BY <1>1 DEF PageInv, PageLength
  <2>2. ASSUME NEW i \in 1..Len(pull.got)
        PROVE  (pull.rows - Len(pull.got)) + i \in 1..Len(history)
    BY <1>1, <2>1
  <2>3. ASSUME NEW i \in 1..Len(pull'.got)
        PROVE  pull'.got[i] = history'[(pull'.rows - Len(pull'.got)) + i]
    <3>1. pull.got[i] = history[(pull.rows - Len(pull.got)) + i]
      BY <1>4 DEF PageInv
    <3>. QED
      BY <1>2, <1>4, <2>2, <3>1
  <2>4. pull'.rows <= Len(history')
    BY <1>1, <1>2, <1>4, <2>1
  <2>5. Len(pull'.got) = PageLength(pull'.rows)
    BY <1>4 DEF PageInv
  <2>. QED
    BY <2>3, <2>4, <2>5 DEF PageInv, PageLength
<1>5. CASE history' = history /\ pull'.got = Newest /\ pull'.rows = Len(history)
  BY <1>1, <1>5, NewestRows DEF PageInv, PageLength
<1>. QED
  BY <1>3, <1>4, <1>5

LEMMA RowsStep ==
  ASSUME TypeOK, RowsInv, [Next]_vars
  PROVE  RowsInv'
<1>. USE DEF RowsInv
<1>0. ASSUME UNCHANGED history, pull' = pull PROVE PageInv'
  BY <1>0, PageStays
<1>1. ASSUME NEW m \in Message, Send(m) \/ FailSend(m) PROVE RowsInv'
  <2>1. /\ UNCHANGED <<history, inbox, list, pull>>
        /\ \/ send[m] = "unsent" /\ send' = [send EXCEPT ![m] = "creating"]
           \/ send[m] = "emitting" /\ send' = [send EXCEPT ![m] = "failed"]
    BY <1>1 DEF Send, FailSend, fetches
  <2>2. /\ send'[m] \notin {"unsent", "creating"} <=> send[m] \notin {"unsent", "creating"}
        /\ send[m] # "done" /\ \A n \in Message : n # m => send'[n] = send[n]
    BY <2>1 DEF TypeOK
  <2>. QED
    BY <1>0, <2>1, <2>2
<1>2. ASSUME NEW m \in Message, DbCreateMessage(m) PROVE RowsInv'
  <2>1. /\ UNCHANGED <<inbox, list, pull>> /\ send' = [send EXCEPT ![m] = "emitting"]
        /\ history' = Append(history, m) /\ m \notin Range(history)
    BY <1>2 DEF DbCreateMessage, fetches
  <2>2. Range(history') = Range(history) \cup {m} /\ IsFiniteSet(Range(history'))
    BY <2>1, SeqAppend, FS_AddElement DEF TypeOK
  <2>3. IsInjective(history')
    <3>1. /\ DOMAIN history' = 1..(Len(history) + 1) /\ DOMAIN history = 1..Len(history)
          /\ Len(history) \in Nat
          /\ history'[Len(history) + 1] = m
          /\ \A i \in 1..Len(history) : history'[i] = history[i] /\ history[i] # m
      BY <2>1, SeqAppend DEF TypeOK, Range
    <3>2. \A i, j \in 1..Len(history) : history[i] = history[j] => i = j
      BY <3>1 DEF IsInjective
    <3>3. \A i \in DOMAIN history' : i \in 1..Len(history) \/ i = Len(history) + 1
      BY <3>1
    <3>. QED
      BY <3>1, <3>2, <3>3 DEF IsInjective
  <2>4. \A n \in Message : n \in Range(history') <=> send'[n] \notin {"unsent", "creating"}
    BY <2>1, <2>2 DEF TypeOK
  <2>5. PageInv'
    BY <2>1, PageStays
  <2>6. \A i \in DOMAIN inbox', n \in Message : inbox'[i] = Arrival(n) => send'[n] = "done"
    <3>1. m \in Message => send[m] # "done"
      BY <1>2 DEF DbCreateMessage
    <3>. QED
      BY <2>1, <3>1 DEF TypeOK
  <2>. QED
    BY <2>1, <2>2, <2>3, <2>4, <2>5, <2>6
<1>3. ASSUME NEW m \in Message, EmitMessage(m) PROVE RowsInv'
  <2>1. /\ UNCHANGED <<history, list, pull>> /\ send' = [send EXCEPT ![m] = "done"]
        /\ send[m] = "emitting"
    BY <1>3 DEF EmitMessage, fetches
  <2>2. CASE inbox' = inbox
    BY <1>0, <2>1, <2>2 DEF TypeOK
  <2>3. CASE inbox' = Append(inbox, Arrival(m))
    <3>1. /\ DOMAIN inbox' = 1..(Len(inbox) + 1) /\ DOMAIN inbox = 1..Len(inbox)
          /\ Len(inbox) \in Nat
          /\ inbox'[Len(inbox) + 1] = Arrival(m)
          /\ \A i \in 1..Len(inbox) : inbox'[i] = inbox[i]
      BY <2>3, SeqAppend, EventKinds DEF TypeOK
    <3>2. \A n \in Message : Arrival(n) = Arrival(m) => n = m
      BY EventKinds
    <3>3. \A i \in DOMAIN inbox' : i \in 1..Len(inbox) \/ i = Len(inbox) + 1
      BY <3>1
    <3>4. \A i \in 1..Len(inbox) : inbox[i] # Arrival(m)
      BY <2>1, <3>1
    <3>5. \A i \in DOMAIN inbox', n \in Message : inbox'[i] = Arrival(n) => send'[n] = "done"
      <4>1. SUFFICES ASSUME NEW i \in DOMAIN inbox', NEW n \in Message, inbox'[i] = Arrival(n)
                     PROVE  send'[n] = "done"
        OBVIOUS
      <4>2. CASE i \in 1..Len(inbox)
        <5>1. send[n] = "done"
          BY <3>1, <4>1, <4>2
        <5>. QED
          BY <2>1, <5>1 DEF TypeOK
      <4>3. CASE i = Len(inbox) + 1
        <5>1. n = m
          BY <3>1, <3>2, <4>1, <4>3
        <5>. QED
          BY <2>1, <5>1 DEF TypeOK
      <4>. QED
        BY <3>3, <4>1, <4>2, <4>3
    <3>6. \A i, j \in DOMAIN inbox', n \in Message :
            inbox'[i] = Arrival(n) /\ inbox'[j] = Arrival(n) => i = j
      BY <3>1, <3>2, <3>3, <3>4
    <3>. QED
      BY <1>0, <2>1, <3>5, <3>6 DEF TypeOK
  <2>. QED
    BY <1>3, <2>2, <2>3 DEF EmitMessage
<1>4. ASSUME NEW t \in Tab, EmitRead(t) PROVE RowsInv'
  <2>1. UNCHANGED <<send, history, list, pull>>
    BY <1>4 DEF EmitRead, fetches
  <2>2. CASE inbox' = Append(inbox, Receipt(Owner[t]))
    <3>1. /\ DOMAIN inbox' = 1..(Len(inbox) + 1) /\ DOMAIN inbox = 1..Len(inbox)
          /\ Len(inbox) \in Nat
          /\ inbox'[Len(inbox) + 1] = Receipt(Owner[t])
          /\ \A i \in 1..Len(inbox) : inbox'[i] = inbox[i]
      BY <2>2, SeqAppend, EventKinds, OwnersTyped DEF TypeOK
    <3>2. \A n \in Message : Arrival(n) # Receipt(Owner[t])
      BY EventKinds, OwnersTyped
    <3>3. \A i \in DOMAIN inbox', n \in Message :
            inbox'[i] = Arrival(n) => i \in DOMAIN inbox /\ inbox[i] = Arrival(n)
      BY <3>1, <3>2
    <3>. QED
      BY <1>0, <2>1, <3>3
  <2>. QED
    BY <1>0, <1>4, <2>1, <2>2 DEF EmitRead
<1>5. CASE DbMessages
  <2>1. UNCHANGED <<send, history, inbox, list>>
    BY <1>5 DEF DbMessages, server
  <2>2. PageInv'
    BY <1>5, <2>1, PageStays DEF DbMessages
  <2>. QED
    BY <2>1, <2>2
<1>6. CASE SetMessages
  <2>1. UNCHANGED <<send, history, inbox>> /\ list' = pull.got /\ pull' = NoAnswer
    BY <1>6 DEF SetMessages, server, Replaced
  <2>2. IsInjective(list') /\ Range(list') \subseteq Range(history')
    BY <2>1, PageRows DEF IsInjective, Range
  <2>3. PageInv'
    BY <2>1, PageStays
  <2>. QED
    BY <2>1, <2>2, <2>3
<1>7. CASE Deliver
  <2>1. /\ UNCHANGED <<send, history, pull>> /\ inbox # <<>> /\ inbox' = Tail(inbox)
        /\ Head(inbox) \in Event
    BY <1>7, SeqTail DEF Deliver, server, fetches, TypeOK
  <2>2. /\ DOMAIN inbox' = 1..(Len(inbox) - 1) /\ DOMAIN inbox = 1..Len(inbox)
        /\ Len(inbox) \in Nat
        /\ \A i \in 1..(Len(inbox) - 1) : inbox'[i] = inbox[i + 1]
        /\ inbox[1] = Head(inbox) /\ 1 \in DOMAIN inbox
    BY <2>1, SeqTail DEF TypeOK
  <2>3. \A i \in DOMAIN inbox' : i + 1 \in DOMAIN inbox /\ inbox'[i] = inbox[i + 1]
    BY <2>2
  <2>4. \A i \in DOMAIN inbox', n \in Message : inbox'[i] = Arrival(n) => send'[n] = "done"
    BY <2>1, <2>3
  <2>5. \A i, j \in DOMAIN inbox', n \in Message :
          inbox'[i] = Arrival(n) /\ inbox'[j] = Arrival(n) => i = j
    <3>1. SUFFICES ASSUME NEW i \in DOMAIN inbox', NEW j \in DOMAIN inbox', NEW n \in Message,
                          inbox'[i] = Arrival(n), inbox'[j] = Arrival(n)
                   PROVE  i = j
      OBVIOUS
    <3>2. i + 1 = j + 1
      BY <2>3, <3>1
    <3>. QED
      BY <2>2, <3>2
  <2>6. IsInjective(list') /\ Range(list') \subseteq Range(history)
    <3>1. CASE list' = list
      BY <3>1
    <3>2. ASSUME NEW m \in Message, Head(inbox) = Arrival(m), m \notin Range(list),
                 list' = Append(list, m)
          PROVE  IsInjective(list') /\ Range(list') \subseteq Range(history)
      <4>1. m \in Range(history)
        BY <2>2, <3>2
      <4>2. /\ DOMAIN list' = 1..(Len(list) + 1) /\ DOMAIN list = 1..Len(list)
            /\ Len(list) \in Nat /\ Range(list') = Range(list) \cup {m}
            /\ list'[Len(list) + 1] = m
            /\ \A i \in 1..Len(list) : list'[i] = list[i] /\ list[i] # m
        <5>1. list \in Seq(Message) /\ \A i \in DOMAIN list : list[i] \in Range(list)
          BY DEF TypeOK, Range
        <5>. HIDE DEF RowsInv
        <5>. QED
          BY <3>2, <5>1, SeqAppend
      <4>3. \A i, j \in 1..Len(list) : list[i] = list[j] => i = j
        BY <4>2 DEF IsInjective
      <4>4. \A i \in DOMAIN list' : i \in 1..Len(list) \/ i = Len(list) + 1
        BY <4>2
      <4>. QED
        BY <4>1, <4>2, <4>3, <4>4 DEF IsInjective
    <3>. QED
      BY <1>7, <2>1, <3>1, <3>2, EventKinds DEF Deliver, AddMessage, Known, MarkConversationRead
  <2>. QED
    BY <1>0, <2>1, <2>4, <2>5, <2>6
<1>8. CASE Drop
  <2>1. UNCHANGED <<send, history, list, pull>> /\ inbox' = <<>> /\ DOMAIN inbox' = {}
    BY <1>8 DEF Drop, fetches
  <2>. QED
    BY <1>0, <2>1
<1>9. CASE /\ UNCHANGED <<send, history, inbox, list>>
           /\ pull' = NoAnswer \/ (pull'.got = pull.got /\ pull'.rows = pull.rows)
  BY <1>9, PageStays
<1>. QED
  BY <1>1, <1>2, <1>3, <1>4, <1>5, <1>6, <1>7, <1>8, <1>9, StoreSteps
LEMMA RowsTyped == TypeOK => Range(history) \subseteq Message /\ Range(list) \subseteq Message
BY DEF TypeOK, Range

\* What the event at the head of the queue does.
LEMMA DeliverStep ==
  ASSUME TypeOK, RowsInv, Deliver
  PROVE  /\ UNCHANGED <<send, history, read, mark, swapped, listed, open, pull>>
         /\ inbox # <<>> /\ inbox' = Tail(inbox)
         /\ Range(inbox) = Range(inbox') \cup {Head(inbox)}
         /\ \/ \E m \in Message :
                 /\ Head(inbox) = Arrival(m) /\ Arrival(m) \notin Range(inbox')
                 /\ send[m] = "done" /\ m \in Range(history) /\ AddMessage(m)
            \/ \E u \in User : Head(inbox) = Receipt(u) /\ MarkConversationRead(u)
<1>1. /\ UNCHANGED <<send, history, read, mark, swapped, listed, open, pull>>
      /\ inbox # <<>> /\ inbox' = Tail(inbox)
  BY DEF Deliver, server, fetches
<1>2. /\ DOMAIN inbox' = 1..(Len(inbox) - 1) /\ DOMAIN inbox = 1..Len(inbox)
      /\ Len(inbox) \in Nat \ {0}
      /\ \A i \in 1..(Len(inbox) - 1) : inbox'[i] = inbox[i + 1]
      /\ inbox[1] = Head(inbox) /\ Head(inbox) \in Event
      /\ Range(inbox) = Range(inbox') \cup {Head(inbox)}
  BY <1>1, SeqTail DEF TypeOK
<1>3. ASSUME NEW m \in Message, Head(inbox) = Arrival(m)
      PROVE  Arrival(m) \notin Range(inbox') /\ send[m] = "done" /\ m \in Range(history)
  <2>1. 1 \in DOMAIN inbox /\ send[m] = "done" /\ m \in Range(history)
    BY <1>2, <1>3 DEF RowsInv
  <2>2. \A i \in DOMAIN inbox' : i + 1 \in DOMAIN inbox /\ inbox'[i] = inbox[i + 1] /\ i + 1 # 1
    BY <1>2
  <2>. QED
    BY <1>2, <1>3, <2>1, <2>2 DEF RowsInv, Range
<1>4. \/ \E m \in Message : Head(inbox) = Arrival(m) /\ AddMessage(m)
      \/ \E u \in User : Head(inbox) = Receipt(u) /\ MarkConversationRead(u)
  BY <1>2, EventKinds DEF Deliver
<1>. QED
  BY <1>1, <1>2, <1>3, <1>4

LEMMA CutStep ==
  ASSUME TypeOK, RowsInv, CutInv, [Next]_vars
  PROVE  CutInv'
<1>1. /\ DOMAIN history = 1..Len(history) /\ Len(history) \in Nat /\ pull.rows \in Nat
      /\ Take \in Nat \ {0} /\ pull.rows <= Len(history)
  BY PageRows DEF RowsInv
<1>2. Reach \in Nat /\ Reach <= Len(history)
  BY <1>1 DEF Reach
<1>3. ASSUME history' = history, cut' = cut, Reach <= Reach', Reach' \in Nat PROVE CutInv'
  BY <1>1, <1>2, <1>3 DEF CutInv
<1>4. CASE history' = history /\ cut' = cut /\ pull' = pull
  BY <1>2, <1>3, <1>4 DEF Reach
<1>5. ASSUME NEW m \in Message, DbCreateMessage(m) PROVE CutInv'
  <2>1. /\ cut' = cut /\ pull' = pull /\ Len(history') = Len(history) + 1
        /\ \A i \in DOMAIN history : i \in DOMAIN history' /\ history'[i] = history[i]
    BY <1>1, <1>5, SeqAppend DEF DbCreateMessage, fetches, TypeOK
  <2>2. Reach <= Reach' /\ Reach' \in Nat
    BY <1>1, <2>1 DEF Reach
  <2>. QED
    BY <1>1, <1>2, <2>1, <2>2 DEF CutInv
<1>6. CASE DbMessages
  <2>1. history' = history /\ cut' = cut /\ Reach' = Reach
    BY <1>1, <1>6 DEF DbMessages, server, Reach
  <2>. QED
    BY <1>2, <1>3, <2>1
<1>7. CASE SetMessages
  <2>1. /\ history' = history /\ Reach' = Len(history)
        /\ cut' = {history[i] : i \in {j \in DOMAIN history : j + Take <= pull.rows}}
    BY <1>7 DEF SetMessages, server, Reach, NoAnswer
  <2>. QED
    BY <1>1, <2>1 DEF CutInv
<1>8. CASE Deliver
  BY <1>4, <1>8 DEF Deliver, server, fetches
<1>9. CASE \/ \E m \in Message : Send(m) \/ EmitMessage(m) \/ FailSend(m)
           \/ Drop \/ \E t \in Tab : EmitRead(t)
  BY <1>4, <1>9 DEF Send, EmitMessage, FailSend, Drop, EmitRead, fetches
<1>10. CASE /\ UNCHANGED <<history, cut>>
            /\ \/ pull' = NoAnswer
               \/ /\ pull'.got = pull.got /\ pull'.rows = pull.rows
                  /\ pull'.at = "answered" <=> pull.at = "answered"
  <2>1. Reach' \in {Reach, Len(history)}
    BY <1>10 DEF Reach, NoAnswer
  <2>. QED
    BY <1>1, <1>2, <1>3, <1>10, <2>1
<1>. QED
  BY <1>5, <1>6, <1>7, <1>8, <1>9, <1>10, StoreSteps

LEMMA FlowStep ==
  ASSUME TypeOK, RowsInv, CutInv, FlowInv, [Next]_vars
  PROVE  FlowInv'
<1>1. ASSUME NEW m \in Message, Send(m) \/ FailSend(m) PROVE FlowInv'
  <2>1. /\ UNCHANGED <<history, inbox, list, cut>>
        /\ \/ /\ send[m] = "unsent" /\ send' = [send EXCEPT ![m] = "creating"] /\ lost' = lost
           \/ /\ send[m] = "emitting" /\ send' = [send EXCEPT ![m] = "failed"]
              /\ lost' = IF m \in Range(list) THEN lost ELSE lost \cup {m}
    BY <1>1 DEF Send, FailSend
  <2>2. m \in Range(history) => send[m] # "unsent"
    BY DEF RowsInv
  <2>3. \A n \in Range(history) :
          \/ n # m /\ send'[n] = send[n]
          \/ n = m /\ send[m] = "emitting" /\ (m \in Range(list') \/ m \in lost')
    BY <2>1, <2>2, RowsTyped DEF TypeOK
  <2>. QED
    BY <2>1, <2>3 DEF FlowInv
<1>2. ASSUME NEW m \in Message, DbCreateMessage(m) PROVE FlowInv'
  <2>1. /\ UNCHANGED <<inbox, list, lost, cut>> /\ send' = [send EXCEPT ![m] = "emitting"]
        /\ Range(history') = Range(history) \cup {m}
    BY <1>2, SeqAppend DEF DbCreateMessage, TypeOK
  <2>2. \A n \in Range(history') :
          (n \in Range(history) /\ send'[n] = send[n]) \/ send'[n] = "emitting"
    BY <2>1, RowsTyped DEF TypeOK
  <2>. QED
    BY <2>1, <2>2 DEF FlowInv
<1>3. ASSUME NEW m \in Message, EmitMessage(m) PROVE FlowInv'
  <2>1. /\ UNCHANGED <<history, list, cut>> /\ send' = [send EXCEPT ![m] = "done"]
        /\ lost' = IF linked \/ m \in Range(list) THEN lost ELSE lost \cup {m}
        /\ inbox' = IF linked THEN Append(inbox, Arrival(m)) ELSE inbox
    BY <1>3 DEF EmitMessage
  <2>2. linked => Range(inbox') = Range(inbox) \cup {Arrival(m)}
    BY <2>1, SeqAppend, EventKinds DEF TypeOK
  <2>. QED
    BY <2>1, <2>2 DEF FlowInv, TypeOK
<1>4. ASSUME NEW t \in Tab, EmitRead(t) PROVE FlowInv'
  <2>1. /\ UNCHANGED <<send, history, list, lost, cut>> /\ Range(inbox) \subseteq Range(inbox')
    BY <1>4, SeqAppend, EventKinds, OwnersTyped DEF EmitRead, TypeOK
  <2>. QED
    BY <2>1 DEF FlowInv
<1>5. CASE DbMessages
  BY <1>5 DEF DbMessages, server, FlowInv
<1>6. CASE SetMessages
  <2>1. /\ UNCHANGED <<send, history, inbox>> /\ list' = pull.got
        /\ lost' = {m \in lost \cup Range(list) :
                      \E i \in DOMAIN history : i > pull.rows /\ history[i] = m}
        /\ cut' = {history[i] : i \in {j \in DOMAIN history : j + Take <= pull.rows}}
        /\ Reach = pull.rows
    BY <1>6 DEF SetMessages, server, Replaced, Reach
  <2>2. PageInv
    BY DEF RowsInv
  <2>3. Range(list') \cap lost' = {}
    <3>1. ASSUME NEW m \in Range(list'), m \in lost' PROVE FALSE
      <4>1. PICK i \in DOMAIN pull.got : pull.got[i] = m
        BY <2>1, <3>1 DEF Range
      <4>2. PICK k \in DOMAIN history : k > pull.rows /\ history[k] = m
        BY <2>1, <3>1
      <4>3. k = (pull.rows - Len(pull.got)) + i
        BY <2>2, <4>1, <4>2, PageRows DEF RowsInv, IsInjective
      <4>. QED
        BY <2>2, <4>1, <4>2, <4>3, PageRows
    <3>. QED
      BY <3>1
  <2>4. ASSUME NEW m \in Range(history)
        PROVE  \/ m \in Range(list') \/ m \in lost' \/ m \in cut'
               \/ send[m] = "emitting" \/ Arrival(m) \in Range(inbox)
    <3>1. PICK k \in DOMAIN history : history[k] = m
      BY <2>4 DEF Range
    <3>2. k \in Nat /\ Take \in Nat \ {0} /\ pull.rows \in Nat
      BY <2>2, PageRows
    <3>3. CASE k + Take <= pull.rows
      BY <2>1, <3>1, <3>3
    <3>4. CASE k <= pull.rows /\ ~(k + Take <= pull.rows)
      <4>1. /\ k - (pull.rows - Len(pull.got)) \in DOMAIN pull.got
            /\ pull.got[k - (pull.rows - Len(pull.got))] = m
        BY <2>2, <3>1, <3>4, PageRows
      <4>. QED
        BY <2>1, <4>1 DEF Range
    <3>5. CASE k > pull.rows
      <4>1. m \notin cut
        <5>1. SUFFICES ASSUME m \in cut PROVE FALSE
          OBVIOUS
        <5>2. PICK i \in DOMAIN history : history[i] = m /\ i + Take <= pull.rows
          BY <2>1, <5>1 DEF CutInv
        <5>3. i = k /\ i \in Nat
          BY <2>2, <3>1, <5>2, PageRows DEF RowsInv, IsInjective
        <5>. QED
          BY <3>2, <3>5, <5>2, <5>3
      <4>. QED
        BY <2>1, <3>1, <3>5, <4>1 DEF FlowInv
    <3>. QED
      BY <3>2, <3>3, <3>4, <3>5
  <2>. QED
    BY <2>1, <2>3, <2>4 DEF FlowInv
<1>7. CASE Deliver
  <2>1. UNCHANGED <<send, history, cut>> /\ Range(inbox) = Range(inbox') \cup {Head(inbox)}
    BY <1>7, DeliverStep DEF Deliver
  <2>2. ASSUME NEW m \in Message, Head(inbox) = Arrival(m), AddMessage(m) PROVE FlowInv'
    <3>1. Range(list') = Range(list) \cup {m} /\ lost' = lost \ {m}
      BY <2>2, SeqAppend DEF AddMessage, Known, TypeOK
    <3>2. \A n \in Message : Arrival(n) = Arrival(m) => n = m
      BY EventKinds
    <3>3. \A n \in Range(history) : n \in Message
      BY RowsTyped
    <3>. QED
      BY <2>1, <2>2, <3>1, <3>2, <3>3 DEF FlowInv
  <2>3. ASSUME NEW u \in User, Head(inbox) = Receipt(u), MarkConversationRead(u) PROVE FlowInv'
    <3>1. UNCHANGED <<list, lost>> /\ \A n \in Message : Arrival(n) # Receipt(u)
      BY <2>3, EventKinds DEF MarkConversationRead
    <3>2. \A n \in Range(history) : n \in Message
      BY DEF TypeOK, Range
    <3>. QED
      BY <2>1, <2>3, <3>1, <3>2 DEF FlowInv
  <2>. QED
    BY <1>7, <2>2, <2>3, DeliverStep
<1>8. CASE Drop
  <2>1. /\ UNCHANGED <<send, history, list, cut>>
        /\ lost' = lost \cup {m \in Message \ Range(list) : Arrival(m) \in Range(inbox)}
    BY <1>8 DEF Drop
  <2>2. \A n \in Range(history) : n \in Message
    BY DEF TypeOK, Range
  <2>. QED
    BY <2>1, <2>2 DEF FlowInv
<1>9. CASE UNCHANGED <<send, history, inbox, list, swapped, lost, cut>>
  BY <1>9 DEF FlowInv
<1>. QED
  BY <1>1, <1>2, <1>3, <1>4, <1>5, <1>6, <1>7, <1>8, <1>9, StoreSteps

\* Two rows stand in some order.
LEMMA BeforeTotal ==
  ASSUME TypeOK, NEW a \in Range(history), NEW b \in Range(history), a # b
  PROVE  Before(a, b) \/ Before(b, a)
<1>1. PICK k \in DOMAIN history : history[k] = a
  BY DEF Range
<1>2. PICK l \in DOMAIN history : history[l] = b
  BY DEF Range
<1>3. k \in Nat /\ l \in Nat /\ k # l
  BY <1>1, <1>2 DEF TypeOK
<1>4. k < l \/ l < k
  BY <1>3
<1>. QED
  BY <1>1, <1>2, <1>4 DEF Before

\* A new row is after all the others, whose order stays.
LEMMA BeforeStays ==
  ASSUME TypeOK, NEW m \in Message, history' = Append(history, m), m \notin Range(history)
  PROVE  /\ \A a, b : Before(a, b) => Before(a, b)'
         /\ \A a, b : Before(a, b)' /\ b # m => Before(a, b)
<1>1. /\ DOMAIN history' = 1..(Len(history) + 1) /\ DOMAIN history = 1..Len(history)
      /\ Len(history) \in Nat /\ history'[Len(history) + 1] = m
      /\ \A i \in 1..Len(history) : history'[i] = history[i]
  BY SeqAppend DEF TypeOK
<1>2. \A i \in DOMAIN history : i \in DOMAIN history' /\ history'[i] = history[i]
  BY <1>1
<1>3. ASSUME NEW a, NEW b, Before(a, b)', b # m PROVE Before(a, b)
  <2>1. PICK k, l \in DOMAIN history' : k < l /\ history'[k] = a /\ history'[l] = b
    BY <1>3 DEF Before
  <2>2. l # Len(history) + 1
    BY <1>1, <1>3, <2>1
  <2>3. k \in DOMAIN history /\ l \in DOMAIN history
    BY <1>1, <2>1, <2>2
  <2>. QED
    BY <1>2, <2>1, <2>3 DEF Before
<1>. QED
  BY <1>2, <1>3 DEF Before
LEMMA OrderStep ==
  ASSUME TypeOK, RowsInv, OrderInv, [Next]_vars
  PROVE  OrderInv'
<1>1. ASSUME NEW m \in Message, Send(m) \/ FailSend(m) PROVE OrderInv'
  <2>1. /\ UNCHANGED <<history, inbox, list, swapped, cut>>
        /\ send[m] # "done" /\ \A n \in Message : n # m => send'[n] = send[n]
    BY <1>1 DEF Send, FailSend, TypeOK
  <2>2. \A a, b : Before(a, b)' <=> Before(a, b)
    BY <2>1 DEF Before
  <2>. QED
    BY <2>1, <2>2, RowsTyped DEF OrderInv
<1>2. ASSUME NEW m \in Message, DbCreateMessage(m) PROVE OrderInv'
  <2>1. /\ UNCHANGED <<inbox, list, swapped, cut>> /\ send' = [send EXCEPT ![m] = "emitting"]
        /\ history' = Append(history, m) /\ m \notin Range(history)
    BY <1>2 DEF DbCreateMessage, RowsInv
  <2>2. /\ \A a, b : Before(a, b) => Before(a, b)'
        /\ \A a, b : Before(a, b)' /\ b # m => Before(a, b)
    BY <2>1, BeforeStays
  <2>3. ASSUME NEW a \in Range(list'), NEW b \in Range(history') \ (Range(list') \cup cut'), Before(b, a)'
        PROVE  send'[a] = "done" /\ (Arrival(b) \in Range(inbox') => <<a, b>> \in swapped')
    <3>1. a \in Range(list) /\ a \in Range(history) /\ a # m /\ Before(b, a)
      BY <2>1, <2>2, <2>3 DEF RowsInv
    <3>2. b \in Range(history) \ (Range(list) \cup cut)
      BY <2>1, <2>3, <3>1 DEF Before, Range
    <3>. QED
      BY <2>1, <3>1, <3>2, RowsTyped DEF OrderInv, TypeOK
  <2>. QED
    BY <2>1, <2>2, <2>3 DEF OrderInv
<1>3. ASSUME NEW m \in Message, EmitMessage(m) PROVE OrderInv'
  <2>1. /\ UNCHANGED <<history, list, cut>> /\ send' = [send EXCEPT ![m] = "done"]
        /\ send[m] = "emitting" /\ m \in Range(history)
        /\ swapped' = swapped \cup (Overtaken(m) \X {m})
    BY <1>3 DEF EmitMessage, RowsInv
  <2>2. \A a, b : Before(a, b)' <=> Before(a, b)
    BY <2>1 DEF Before
  <2>3. ASSUME NEW a \in Message, send[a] = "done"
        PROVE  /\ Before(m, a) => <<a, m>> \in swapped'
               /\ <<a, m>> \in swapped' \/ Before(a, m)
    <3>1. a # m /\ a \in Range(history)
      BY <2>1, <2>3 DEF RowsInv
    <3>2. Before(m, a) => a \in Overtaken(m)
      BY <2>3, <3>1 DEF Overtaken, Before
    <3>. QED
      BY <2>1, <3>1, <3>2, BeforeTotal
  <2>4. inbox' \in {inbox, Append(inbox, Arrival(m))}
    BY <1>3 DEF EmitMessage
  <2>5. ASSUME NEW i \in DOMAIN inbox', NEW j \in DOMAIN inbox', NEW a \in Message,
               NEW b \in Message, i < j, inbox'[i] = Arrival(a), inbox'[j] = Arrival(b)
        PROVE  <<a, b>> \in swapped' \/ Before(a, b)'
    <3>1. CASE i \in DOMAIN inbox /\ j \in DOMAIN inbox /\ inbox'[i] = inbox[i] /\ inbox'[j] = inbox[j]
      BY <2>1, <2>2, <2>5, <3>1 DEF OrderInv
    <3>2. CASE b = m /\ i \in DOMAIN inbox /\ inbox'[i] = inbox[i]
      BY <2>2, <2>3, <2>5, <3>2 DEF RowsInv
    <3>3. CASE inbox' = Append(inbox, Arrival(m))
      <4>1. /\ DOMAIN inbox' = 1..(Len(inbox) + 1) /\ DOMAIN inbox = 1..Len(inbox)
            /\ Len(inbox) \in Nat /\ inbox'[Len(inbox) + 1] = Arrival(m)
            /\ \A k \in 1..Len(inbox) : inbox'[k] = inbox[k]
        BY <3>3, SeqAppend, EventKinds DEF TypeOK
      <4>2. i \in DOMAIN inbox /\ inbox'[i] = inbox[i]
        BY <2>5, <4>1
      <4>3. (j \in DOMAIN inbox /\ inbox'[j] = inbox[j]) \/ j = Len(inbox) + 1
        BY <2>5, <4>1
      <4>4. j = Len(inbox) + 1 => b = m
        BY <2>5, <4>1, EventKinds
      <4>. QED
        BY <3>1, <3>2, <4>2, <4>3, <4>4
    <3>. QED
      BY <2>4, <3>1, <3>3
  <2>6. ASSUME NEW a \in Range(list'), NEW b \in Range(history') \ (Range(list') \cup cut'), Before(b, a)'
        PROVE  send'[a] = "done" /\ (Arrival(b) \in Range(inbox') => <<a, b>> \in swapped')
    <3>1. /\ a \in Range(list) /\ b \in Range(history) \ (Range(list) \cup cut) /\ Before(b, a)
          /\ a \in Message /\ b \in Message
      BY <2>1, <2>2, <2>6, RowsTyped
    <3>2. send[a] = "done" /\ (Arrival(b) \in Range(inbox) => <<a, b>> \in swapped)
      BY <3>1 DEF OrderInv
    <3>3. Arrival(b) \in Range(inbox') => Arrival(b) \in Range(inbox) \/ b = m
      <4>1. CASE inbox' = Append(inbox, Arrival(m))
        <5>1. Range(inbox') = Range(inbox) \cup {Arrival(m)}
          BY <4>1, SeqAppend, EventKinds DEF TypeOK
        <5>. QED
          BY <3>1, <5>1, EventKinds
      <4>. QED
        BY <2>4, <4>1
    <3>. QED
      BY <2>1, <2>3, <3>1, <3>2, <3>3 DEF TypeOK
  <2>. QED
    BY <2>1, <2>2, <2>5, <2>6 DEF OrderInv
<1>4. ASSUME NEW t \in Tab, EmitRead(t) PROVE OrderInv'
  <2>1. /\ UNCHANGED <<send, history, list, swapped, cut>>
        /\ inbox' \in {inbox, Append(inbox, Receipt(Owner[t]))}
    BY <1>4 DEF EmitRead
  <2>2. \A a, b : Before(a, b)' <=> Before(a, b)
    BY <2>1 DEF Before
  <2>3. \A n \in Message : Arrival(n) # Receipt(Owner[t])
    BY EventKinds, OwnersTyped
  <2>4. \A i \in DOMAIN inbox', n \in Message :
          inbox'[i] = Arrival(n) => i \in DOMAIN inbox /\ inbox[i] = Arrival(n)
    <3>1. CASE inbox' = Append(inbox, Receipt(Owner[t]))
      <4>1. /\ DOMAIN inbox' = 1..(Len(inbox) + 1) /\ DOMAIN inbox = 1..Len(inbox)
            /\ Len(inbox) \in Nat
            /\ inbox'[Len(inbox) + 1] = Receipt(Owner[t])
            /\ \A i \in 1..Len(inbox) : inbox'[i] = inbox[i]
        BY <3>1, SeqAppend, EventKinds, OwnersTyped DEF TypeOK
      <4>. QED
        BY <2>3, <4>1
    <3>. QED
      BY <2>1, <3>1
  <2>5. \A n \in Message : Arrival(n) \in Range(inbox') => Arrival(n) \in Range(inbox)
    BY <2>4 DEF Range
  <2>. QED
    BY <2>1, <2>2, <2>4, <2>5, RowsTyped DEF OrderInv
<1>5. CASE SetMessages
  <2>1. /\ UNCHANGED <<send, history, inbox, swapped>> /\ list' = pull.got
        /\ cut' = {history[i] : i \in {j \in DOMAIN history : j + Take <= pull.rows}}
    BY <1>5 DEF SetMessages, server, Replaced
  <2>2. \A a, b : Before(a, b)' <=> Before(a, b)
    BY <2>1 DEF Before
  <2>3. PageInv
    BY DEF RowsInv
  <2>4. ASSUME NEW i \in DOMAIN list', NEW j \in DOMAIN list', i < j
        PROVE  Before(list'[i], list'[j])
    BY <2>1, <2>3, <2>4, PageRows DEF Before
  <2>5. ASSUME NEW a \in Range(list'), NEW b, Before(b, a)
        PROVE  b \in Range(list') \cup cut'
    <3>1. PICK i \in DOMAIN pull.got : pull.got[i] = a
      BY <2>1 DEF Range
    <3>2. PICK k, l \in DOMAIN history : k < l /\ history[k] = b /\ history[l] = a
      BY <2>5 DEF Before
    <3>3. l = (pull.rows - Len(pull.got)) + i
      BY <2>3, <3>1, <3>2, PageRows DEF RowsInv, IsInjective
    <3>4. k <= pull.rows
      BY <2>3, <3>1, <3>2, <3>3, PageRows
    <3>5. CASE k + Take <= pull.rows
      BY <2>1, <3>2, <3>5
    <3>6. CASE ~(k + Take <= pull.rows)
      <4>1. /\ k - (pull.rows - Len(pull.got)) \in DOMAIN pull.got
            /\ pull.got[k - (pull.rows - Len(pull.got))] = b
        BY <2>3, <3>2, <3>4, <3>6, PageRows
      <4>. QED
        BY <2>1, <4>1 DEF Range
    <3>. QED
      BY <3>5, <3>6
  <2>. QED
    BY <2>1, <2>2, <2>4, <2>5 DEF OrderInv
<1>6. CASE Deliver
  <2>1. /\ UNCHANGED <<send, history, swapped, cut>> /\ inbox # <<>> /\ inbox' = Tail(inbox)
        /\ Range(inbox) = Range(inbox') \cup {Head(inbox)}
    BY <1>6, DeliverStep DEF Deliver
  <2>2. \A a, b : Before(a, b)' <=> Before(a, b)
    BY <2>1 DEF Before
  <2>3. /\ DOMAIN inbox' = 1..(Len(inbox) - 1) /\ DOMAIN inbox = 1..Len(inbox)
        /\ Len(inbox) \in Nat \ {0} /\ inbox[1] = Head(inbox)
        /\ \A i \in 1..(Len(inbox) - 1) : inbox'[i] = inbox[i + 1]
    BY <2>1, SeqTail DEF TypeOK
  <2>4. \A i, j \in DOMAIN inbox', a, b \in Message :
          i < j /\ inbox'[i] = Arrival(a) /\ inbox'[j] = Arrival(b)
            => <<a, b>> \in swapped' \/ Before(a, b)'
    <3>1. \A i \in DOMAIN inbox' : i + 1 \in DOMAIN inbox /\ inbox'[i] = inbox[i + 1] /\ i \in Nat
      BY <2>3
    <3>2. \A i, j \in DOMAIN inbox' : i < j => i + 1 < j + 1
      BY <3>1
    <3>. QED
      BY <2>1, <2>2, <3>1, <3>2 DEF OrderInv
  <2>5. CASE list' = list
    BY <2>1, <2>2, <2>4, <2>5 DEF OrderInv
  <2>6. ASSUME NEW m \in Message, Head(inbox) = Arrival(m), send[m] = "done",
               m \in Range(history), m \notin Range(list), list' = Append(list, m)
        PROVE  OrderInv'
    <3>1. ASSUME NEW b \in Message, Arrival(b) \in Range(inbox')
          PROVE  <<m, b>> \in swapped \/ Before(m, b)
      <4>1. PICK i \in DOMAIN inbox' : inbox'[i] = Arrival(b)
        BY <3>1 DEF Range
      <4>2. 1 \in DOMAIN inbox /\ i + 1 \in DOMAIN inbox /\ 1 < i + 1 /\ inbox[i + 1] = Arrival(b)
        BY <2>3, <4>1
      <4>. QED
        BY <2>3, <2>6, <4>2 DEF OrderInv
    <3>2. \A a, b : Before(a, b) /\ Before(b, a) => FALSE
      <4>1. ASSUME NEW a, NEW b, Before(a, b), Before(b, a) PROVE FALSE
        <5>1. PICK k, l \in DOMAIN history : k < l /\ history[k] = a /\ history[l] = b
          BY <4>1 DEF Before
        <5>2. PICK i, j \in DOMAIN history : i < j /\ history[i] = b /\ history[j] = a
          BY <4>1 DEF Before
        <5>3. k = j /\ l = i
          BY <5>1, <5>2 DEF RowsInv, IsInjective
        <5>4. k \in Nat /\ l \in Nat
          BY DEF TypeOK
        <5>. QED
          BY <5>1, <5>2, <5>3, <5>4
      <4>. QED
        BY <4>1
    <3>3. Range(list') = Range(list) \cup {m}
      BY <2>6, SeqAppend DEF TypeOK
    <3>4. ASSUME NEW a \in Range(list'), NEW b \in Range(history') \ (Range(list') \cup cut'), Before(b, a)'
          PROVE  send'[a] = "done" /\ (Arrival(b) \in Range(inbox') => <<a, b>> \in swapped')
      <4>1. /\ b \in Range(history) \ (Range(list) \cup cut) /\ Before(b, a) /\ b \in Message
            /\ Arrival(b) \in Range(inbox') => Arrival(b) \in Range(inbox)
        BY <2>1, <2>2, <3>3, <3>4, RowsTyped
      <4>2. CASE a \in Range(list)
        BY <2>1, <4>1, <4>2 DEF OrderInv
      <4>3. CASE a = m
        BY <2>1, <2>6, <3>1, <3>2, <4>1, <4>3
      <4>. QED
        BY <3>3, <4>2, <4>3
    <3>5. ASSUME NEW i \in DOMAIN list', NEW j \in DOMAIN list', i < j
          PROVE  \/ <<list'[i], list'[j]>> \in swapped' \/ list'[j] \in cut'
                 \/ Before(list'[i], list'[j])
      <4>1. /\ DOMAIN list' = 1..(Len(list) + 1) /\ DOMAIN list = 1..Len(list)
            /\ Len(list) \in Nat /\ list'[Len(list) + 1] = m
            /\ \A k \in 1..Len(list) : list'[k] = list[k]
        BY <2>6, SeqAppend DEF TypeOK
      <4>2. i \in DOMAIN list /\ list'[i] = list[i]
        BY <3>5, <4>1
      <4>3. CASE j \in DOMAIN list /\ list'[j] = list[j]
        BY <2>1, <2>2, <3>5, <4>2, <4>3 DEF OrderInv
      <4>4. CASE list'[j] = m
        <5>1. list[i] \in Range(list) /\ list[i] # m /\ list[i] \in Range(history)
          BY <2>6, <4>2 DEF Range, RowsInv
        <5>2. Before(m, list[i]) => <<list[i], m>> \in swapped \/ m \in cut
          <6>1. Arrival(m) \in Range(inbox)
            BY <2>1, <2>6
          <6>. QED
            BY <2>6, <5>1, <6>1 DEF OrderInv
        <5>. QED
          BY <2>1, <2>2, <2>6, <4>2, <4>4, <5>1, <5>2, BeforeTotal
      <4>. QED
        BY <4>1, <4>3, <4>4
    <3>. QED
      BY <2>2, <2>4, <3>4, <3>5 DEF OrderInv
  <2>. QED
    BY <1>6, <2>5, <2>6, DeliverStep DEF AddMessage, Known, MarkConversationRead
<1>7. CASE Drop
  <2>1. UNCHANGED <<send, history, list, swapped, cut>> /\ DOMAIN inbox' = {} /\ Range(inbox') = {}
    BY <1>7 DEF Drop, Range
  <2>2. \A a, b : Before(a, b)' <=> Before(a, b)
    BY <2>1 DEF Before
  <2>. QED
    BY <2>1, <2>2 DEF OrderInv
<1>8. CASE UNCHANGED <<send, history, inbox, list, swapped, cut>>
  BY <1>8 DEF OrderInv, Before
<1>9. CASE DbMessages
  BY <1>8, <1>9 DEF DbMessages, server
<1>. QED
  BY <1>1, <1>2, <1>3, <1>4, <1>5, <1>6, <1>7, <1>8, <1>9, StoreSteps

\* What an event on its way does to the set of what is on its way.
LEMMA OnItsWayStays ==
  ASSUME UNCHANGED <<send, history>>,
         \A m \in Message : Arrival(m) \in Range(inbox') <=> Arrival(m) \in Range(inbox),
         Range(history) \subseteq Message
  PROVE  OnItsWay' = OnItsWay
BY DEF OnItsWay

LEMMA BadgeStep ==
  ASSUME TypeOK, RowsInv, BadgeInv, [Next]_vars
  PROVE  BadgeInv'
<1>. DEFINE Sure == /\ listed /\ ~skewed /\ mark[Me] # "marking"
                    /\ \A t \in Tab : t # Me /\ Owner[t] = Mine => mark[t] # "telling"
                    /\ Receipt(Mine) \notin Range(inbox)
<1>1. SUFFICES ASSUME Sure' PROVE badge' = Cardinality(Settled')
  BY DEF BadgeInv, Mine
<1>2. Sure => badge = Cardinality(Settled)
  BY DEF BadgeInv
<1>3. Range(history) \subseteq Message /\ \A m \in Range(history) : m \in Message
  BY RowsTyped
<1>4. ASSUME NEW m \in Message, Send(m) PROVE badge' = Cardinality(Settled')
  <2>1. /\ UNCHANGED <<history, read, mark, inbox, listed, badge, skewed>>
        /\ send' = [send EXCEPT ![m] = "creating"] /\ send[m] = "unsent"
    BY <1>4 DEF Send, entry
  <2>2. \A n \in Range(history) : send'[n] = send[n]
    BY <1>3, <2>1 DEF RowsInv, TypeOK
  <2>3. Settled' = Settled
    BY <2>1, <2>2 DEF Settled, Unread, OnItsWay, Mine
  <2>. QED
    BY <1>1, <1>2, <2>1, <2>3 DEF Mine
<1>5. ASSUME NEW m \in Message, DbCreateMessage(m) PROVE badge' = Cardinality(Settled')
  <2>1. /\ UNCHANGED <<read, mark, inbox, listed, badge, skewed>>
        /\ send' = [send EXCEPT ![m] = "emitting"] /\ m \notin Range(history)
        /\ Range(history') = Range(history) \cup {m}
    BY <1>5, SeqAppend DEF DbCreateMessage, entry, RowsInv, TypeOK
  <2>2. \A n \in Range(history) : send'[n] = send[n]
    BY <1>3, <2>1 DEF TypeOK
  <2>3. Settled' = Settled
    BY <2>1, <2>2 DEF Settled, Unread, OnItsWay, Mine, TypeOK
  <2>. QED
    BY <1>1, <1>2, <2>1, <2>3 DEF Mine
<1>6. ASSUME NEW m \in Message, EmitMessage(m) PROVE badge' = Cardinality(Settled')
  <2>1. /\ UNCHANGED <<history, read, mark, listed, badge>> /\ linked /\ skewed' = skewed
        /\ send' = [send EXCEPT ![m] = "done"] /\ send[m] = "emitting"
        /\ inbox' = Append(inbox, Arrival(m))
    BY <1>1, <1>6 DEF EmitMessage, entry, TypeOK
  <2>2. Range(inbox') = Range(inbox) \cup {Arrival(m)}
    BY <2>1, SeqAppend, EventKinds DEF TypeOK
  <2>3. \A n \in Message : n # m => send'[n] = send[n] /\ Arrival(n) # Arrival(m)
    BY <2>1, EventKinds DEF TypeOK
  <2>4. OnItsWay' = OnItsWay
    BY <1>3, <2>1, <2>2, <2>3 DEF OnItsWay, TypeOK
  <2>5. Settled' = Settled
    BY <2>1, <2>4 DEF Settled, Unread, Mine
  <2>. QED
    BY <1>1, <1>2, <2>1, <2>2, <2>5 DEF Mine
<1>7. ASSUME NEW t \in Tab, DbMarkRead(t) PROVE badge' = Cardinality(Settled')
  <2>1. /\ UNCHANGED <<send, history, inbox, listed, badge>>
        /\ mark' = [mark EXCEPT ![t] = "telling"] /\ read' = read \cup Unread(Owner[t])
        /\ skewed' = IF t = Me THEN badge # 0 ELSE skewed
    BY <1>7 DEF DbMarkRead, entry
  <2>2. CASE t = Me
    <3>1. Settled' = {} /\ badge' = 0
      BY <1>1, <2>1, <2>2 DEF Settled, Unread, Mine
    <3>. QED
      BY <3>1, FS_EmptySet
  <2>3. CASE t # Me
    <3>1. Owner[t] # Mine
      BY <1>1, <2>1, <2>3 DEF Mine, TypeOK
    <3>2. \A m \in Unread(Owner[t]) : Author(m) = Mine
      BY <1>3, <3>1, OwnersTyped, PeerAssumption DEF Unread, Mine
    <3>3. Settled' = Settled
      BY <2>1, <3>2 DEF Settled, Unread, OnItsWay, Mine
    <3>4. Sure
      BY <1>1, <2>1, <2>3, <3>1 DEF Mine, TypeOK
    <3>. QED
      BY <1>2, <2>1, <3>3, <3>4
  <2>. QED
    BY <2>2, <2>3
<1>8. ASSUME NEW t \in Tab, EmitRead(t) PROVE badge' = Cardinality(Settled')
  <2>1. /\ UNCHANGED <<send, history, read, listed, badge>> /\ mark[t] = "telling"
        /\ mark' = [mark EXCEPT ![t] = "idle"]
        /\ inbox' \in {inbox, Append(inbox, Receipt(Owner[t]))}
        /\ skewed' = FALSE /\ skewed = FALSE
        /\ t # Me /\ Owner[t] = Mine => inbox' = Append(inbox, Receipt(Owner[t]))
    BY <1>1, <1>8 DEF EmitRead, entry, TypeOK
  <2>2. CASE inbox' = Append(inbox, Receipt(Owner[t]))
    <3>1. Range(inbox') = Range(inbox) \cup {Receipt(Owner[t])}
      BY <2>2, SeqAppend, EventKinds, OwnersTyped DEF TypeOK
    <3>2. Owner[t] # Mine /\ t # Me
      BY <1>1, <3>1 DEF Mine
    <3>3. OnItsWay' = OnItsWay
      BY <1>3, <2>1, <3>1, EventKinds, OwnersTyped, OnItsWayStays
    <3>4. Sure
      BY <1>1, <2>1, <3>1, <3>2 DEF Mine, TypeOK
    <3>. QED
      BY <1>2, <2>1, <3>3, <3>4 DEF Settled, Unread, Mine
  <2>3. CASE inbox' = inbox
    <3>1. Sure
      BY <1>1, <2>1, <2>2, <2>3 DEF Mine, TypeOK
    <3>. QED
      BY <1>2, <2>1, <2>3, <3>1 DEF Settled, Unread, OnItsWay, Mine
  <2>. QED
    BY <2>1, <2>2, <2>3
<1>9. CASE SetConversations
  <2>1. Settled' = Unread(Mine) /\ badge' = Cardinality(Unread(Mine))
    BY <1>1, <1>9 DEF SetConversations, server, Settled, Unread, OnItsWay, Mine
  <2>. QED
    BY <2>1
<1>10. CASE Mount
  BY <1>1, <1>10, TabAssumption DEF Mount, TypeOK, Mine
<1>11. CASE Deliver
  <2>1. /\ UNCHANGED <<send, history, read, mark, listed, open>>
        /\ Range(inbox) = Range(inbox') \cup {Head(inbox)}
    BY <1>11, DeliverStep
  <2>2. ASSUME NEW m \in Message, Head(inbox) = Arrival(m), Arrival(m) \notin Range(inbox'),
               send[m] = "done", m \in Range(history), AddMessage(m)
        PROVE  badge' = Cardinality(Settled')
    <3>1. ~skewed /\ (m \notin Range(list) /\ ~open <=> m \in Unread(Mine))
      BY <1>1, <2>2 DEF AddMessage, Unread, TypeOK
    <3>2. Sure
      BY <1>1, <2>1, <2>2, <3>1, EventKinds, OwnersTyped DEF Mine
    <3>3. OnItsWay = OnItsWay' \cup {m} /\ m \notin OnItsWay'
      BY <1>3, <2>1, <2>2, EventKinds DEF OnItsWay
    <3>4. Unread(Mine)' = Unread(Mine)
      BY <2>1 DEF Unread, Mine
    <3>5. CASE m \in Unread(Mine)
      <4>1. Settled' = Settled \cup {m} /\ m \notin Settled
        BY <3>3, <3>4, <3>5 DEF Settled, Mine
      <4>2. IsFiniteSet(Settled) /\ Cardinality(Settled) \in Nat
        BY UnreadFinite, FS_Subset, FS_CardinalityType DEF Settled, RowsInv
      <4>3. badge' = badge + 1
        BY <1>1, <2>1, <2>2, <3>1, <3>5 DEF AddMessage, Known, Counted
      <4>. QED
        BY <1>2, <3>2, <4>1, <4>2, <4>3, FS_AddElement
    <3>6. CASE m \notin Unread(Mine)
      <4>1. Settled' = Settled
        BY <3>3, <3>4, <3>6 DEF Settled, Mine
      <4>2. badge' = badge
        BY <2>2, <3>1, <3>6 DEF AddMessage, Known, Counted
      <4>. QED
        BY <1>2, <3>2, <4>1, <4>2
    <3>. QED
      BY <3>5, <3>6
  <2>3. ASSUME NEW u \in User, Head(inbox) = Receipt(u), MarkConversationRead(u)
        PROVE  badge' = Cardinality(Settled')
    <3>1. badge' = 0 /\ Settled = {}
      BY <1>1, <2>3 DEF MarkConversationRead
    <3>2. OnItsWay' = OnItsWay
      BY <1>3, <2>1, <2>3, EventKinds, OnItsWayStays
    <3>3. Settled' = {}
      BY <2>1, <3>1, <3>2 DEF Settled, Unread, Mine
    <3>. QED
      BY <3>1, <3>3, FS_EmptySet
  <2>. QED
    BY <1>11, <2>2, <2>3, DeliverStep
<1>12. CASE Drop
  <2>1. UNCHANGED <<send, history, read, mark, listed, badge, skewed, inbox>>
    BY <1>1, <1>12 DEF Drop, entry, TypeOK
  <2>. QED
    BY <1>1, <1>2, <2>1 DEF Settled, Unread, OnItsWay, Mine
<1>13. CASE UNCHANGED <<send, history, read, mark, listed, badge, skewed, inbox>>
  BY <1>1, <1>2, <1>13 DEF Settled, Unread, OnItsWay, Mine
<1>14. CASE \/ DbConversations \/ DbMessages \/ AskMessages \/ SetMessages \/ FailQuery
            \/ Back \/ Reconnect
  BY <1>13, <1>14
     DEF DbConversations, DbMessages, AskMessages, SetMessages, FailQuery, Back, Reconnect,
         server, entry
<1>15. CASE FailMark \/ (\E m \in Message : FailSend(m))
  BY <1>1, <1>15 DEF FailMark, FailSend
<1>16. CASE UNCHANGED vars
  BY <1>13, <1>16 DEF vars, server, entry
<1>. QED
  BY <1>4, <1>5, <1>6, <1>7, <1>8, <1>9, <1>10, <1>11, <1>12, <1>14, <1>15, <1>16
     DEF Next, Gateway, Browser, Network, Select, StartChat

\* The invariant of the store.
THEOREM StoreInvariant == Spec => []StoreInv
<1>1. Init => StoreInv
  <2>. SUFFICES ASSUME Init PROVE StoreInv
    OBVIOUS
  <2>1. /\ history = <<>> /\ list = <<>> /\ inbox = <<>>
        /\ Range(history) = {} /\ Range(list) = {} /\ Range(inbox) = {}
        /\ DOMAIN history = {} /\ DOMAIN list = {} /\ DOMAIN inbox = {}
    BY DEF Init, Range
  <2>2. TypeOK
    BY <2>1, EmptySeq DEF Init, TypeOK, NoAnswer, NoCount
  <2>3. RowsInv
    <3>1. PageInv
      <4>1. Len(pull.got) = 0 /\ Len(history) = 0 /\ pull.rows = 0 /\ PageLength(0) = 0
        BY <2>1, TakeAssumption DEF Init, NoAnswer, PageLength
      <4>. QED
        BY <4>1 DEF PageInv
    <3>2. \A m \in Message : m \in Range(history) <=> send[m] \notin {"unsent", "creating"}
      BY <2>1 DEF Init
    <3>3. IsFiniteSet(Range(history)) /\ IsInjective(history) /\ IsInjective(list)
      BY <2>1, FS_EmptySet DEF IsInjective
    <3>. QED
      BY <2>1, <3>1, <3>2, <3>3 DEF RowsInv
  <2>4. FlowInv
    BY <2>1 DEF FlowInv
  <2>5. OrderInv
    <3>1. \A a \in Range(list) : FALSE
      BY <2>1
    <3>. QED
      BY <2>1, <3>1 DEF OrderInv
  <2>6. BadgeInv
    BY DEF Init, BadgeInv
  <2>7. CutInv
    BY DEF Init, CutInv
  <2>. QED
    BY <2>2, <2>3, <2>4, <2>5, <2>6, <2>7 DEF StoreInv
<1>2. StoreInv /\ [Next]_vars => StoreInv'
  BY StoreTyped, RowsStep, CutStep, FlowStep, OrderStep, BadgeStep DEF StoreInv, RowsInv
<1>. QED
  BY <1>1, <1>2, PTL DEF Spec

\* No order of events and answers shows a message twice.
THEOREM MessagesShownOnce == Spec => []ShownOnce
<1>1. StoreInv => ShownOnce
  BY DEF StoreInv, RowsInv, ShownOnce
<1>. QED
  BY <1>1, StoreInvariant, PTL

\* With nothing on its way the tab shows every message that was not lost and is not
\* older than the page, in the order of the rows but for the pairs emitted in the other
\* order and what a page was too short for.
THEOREM TabShowsAll == Spec => []ShowsAllAtRest
<1>1. ASSUME StoreInv, Quiet PROVE ShowsAllAtRest
  <2>1. Range(inbox) = {} /\ \A m \in Range(history) : send[m] # "emitting"
    BY <1>1, RowsTyped DEF StoreInv, Quiet, Range
  <2>2. Range(list) \subseteq Range(history) \ lost
    BY <1>1 DEF StoreInv, RowsInv, FlowInv
  <2>3. ASSUME NEW i \in DOMAIN history, history[i] \notin Range(list) \cup lost
        PROVE  history[i] \in cut /\ i + Take <= Len(history)
    <3>1. history[i] \in cut
      BY <1>1, <2>1, <2>3, RowsTyped DEF StoreInv, FlowInv, Range
    <3>2. PICK k \in DOMAIN history : history[k] = history[i] /\ k + Take <= Reach
      BY <1>1, <3>1 DEF StoreInv, CutInv
    <3>3. k = i
      BY <1>1, <3>2 DEF StoreInv, RowsInv, IsInjective
    <3>. QED
      BY <1>1, <3>1, <3>2, <3>3, PageRows DEF StoreInv, RowsInv, Reach
  <2>4. \A i, j \in DOMAIN list :
          i < j => \/ <<list[i], list[j]>> \in swapped \/ list[j] \in cut
                   \/ Before(list[i], list[j])
    BY <1>1 DEF StoreInv, OrderInv
  <2>. QED
    BY <2>2, <2>3, <2>4 DEF ShowsAllAtRest, Before
<1>2. StoreInv => ShowsAllAtRest
  BY <1>1 DEF ShowsAllAtRest
<1>. QED
  BY <1>2, StoreInvariant, PTL

\* With nothing on its way and no skew, the badge is the server's count.
THEOREM BadgeAgrees == Spec => []BadgeAgreesAtRest
<1>1. StoreInv => BadgeAgreesAtRest
  <2>. SUFFICES ASSUME StoreInv, Quiet, listed, ~skewed,
                       \A t \in Tab : Owner[t] = Mine => mark[t] = "idle"
                PROVE  badge = Cardinality(Unread(Mine))
    BY DEF BadgeAgreesAtRest
  <2>1. Range(inbox) = {} /\ OnItsWay = {}
    BY RowsTyped DEF StoreInv, Quiet, Range, OnItsWay
  <2>2. mark[Me] # "marking"
    BY TabAssumption DEF Mine
  <2>. QED
    BY <2>1, <2>2 DEF StoreInv, BadgeInv, Settled
<1>. QED
  BY <1>1, StoreInvariant, PTL
=============================================================================
