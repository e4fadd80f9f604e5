---------------------------- MODULE OfficeProofs ----------------------------
(***************************************************************************)
(* The features of the logistics platform and the article service that     *)
(* MCOffice exercises, for every set of jobs, documents, users, calls and  *)
(* requests: the queue keeps the safety of its promise, an upload that was *)
(* answered is whole, no session is open without a cause, a call to a      *)
(* provider keeps the safety of its promise, and an article changes by the *)
(* hand of who may change it.                                              *)
(***************************************************************************)
EXTENDS Documents, Sessions, Outbound, Articles, TLAPS

----------------------------------------------------------------------------
\* The queue

\* The queue, and somebody who adds jobs.
JobsNext == \E j \in Job : Add(j) \/ JobStep(j)
JobsSpec == JobsInit /\ [][JobsNext]_jobVars

----------------------------------------------------------------------------
(* The inductive invariant *)

\* A job that was not added has no past.
Fresh(j) == job[j] = "none" => tries[j] = 0 /\ stalls[j] = 0 /\ ~done[j] /\ ~stray[j]

\* Past the processor's effect, the work is done.
Worked(j) == job[j] \in {"finishing", "completed"} => done[j]

\* A job is given up when its attempts are used up, or it stalled too often,
\* and not before.
GivenUp(j) ==
  IF job[j] = "failed" THEN tries[j] = Attempts \/ stalls[j] = MaxStalls + 1
                       ELSE tries[j] < Attempts /\ stalls[j] <= MaxStalls

Kept(j) == Fresh(j) /\ Worked(j) /\ GivenUp(j)
JobsInv == JobsTypeOK /\ \A j \in Job : Kept(j)

----------------------------------------------------------------------------
(* Preservation *)

\* A step of one job leaves the others alone.
Alone(j) ==
  \A i \in Job \ {j} : /\ job'[i] = job[i] /\ tries'[i] = tries[i] /\ stalls'[i] = stalls[i]
                       /\ done'[i] = done[i] /\ stray'[i] = stray[i]

USE DEF MaxStalls, Tolerated

\* Every step of the queue is about one job, which keeps its part of the
\* invariant.
LEMMA OneJob ==
  ASSUME JobsInv, NEW j \in Job, Add(j) \/ JobStep(j)
  PROVE  JobsTypeOK' /\ Kept(j)' /\ Alone(j)
<1>1. JobsTypeOK /\ Kept(j)
  BY DEF JobsInv
<1>. USE AttemptsAssumption, <1>1 DEF JobsTypeOK, JobState, Kept, Fresh, Worked, GivenUp, Alone
<1>2. CASE Add(j)
  BY <1>2 DEF Add
<1>3. CASE Take(j)
  BY <1>3 DEF Take
<1>4. CASE Work(j)
  BY <1>4 DEF Work
<1>5. CASE Complete(j)
  BY <1>5 DEF Complete
<1>6. CASE Retry(j)
  BY <1>6 DEF Retry
<1>7. CASE FailAttempt(j)
  BY <1>7 DEF FailAttempt, Running
<1>8. CASE Stall(j)
  BY <1>8 DEF Stall, Running
<1>9. CASE StrayWork(j)
  BY <1>9 DEF StrayWork
<1>10. CASE StrayEnd(j)
  BY <1>10 DEF StrayEnd
<1>. QED
  BY <1>2, <1>3, <1>4, <1>5, <1>6, <1>7, <1>8, <1>9, <1>10 DEF JobStep, Progress, StrayStep

LEMMA JobsInvInit == JobsInit => JobsInv
BY AttemptsAssumption DEF JobsInit, JobsInv, JobsTypeOK, JobState, Kept, Fresh, Worked, GivenUp

LEMMA JobsInvStep ==
  ASSUME JobsInv, NEW j \in Job, Add(j) \/ JobStep(j)
  PROVE  JobsInv'
<1>1. JobsTypeOK' /\ Kept(j)' /\ Alone(j)
  BY OneJob
<1>2. ASSUME NEW i \in Job, i # j PROVE Kept(i)'
  BY <1>1, <1>2 DEF JobsInv, Alone, Kept, Fresh, Worked, GivenUp
<1>. QED
  BY <1>1, <1>2 DEF JobsInv

LEMMA JobsInvQuiet == JobsInv /\ UNCHANGED jobVars => JobsInv'
BY DEF JobsInv, jobVars, JobsTypeOK, Kept, Fresh, Worked, GivenUp

\* The types, and when a job counts as done or is given up, hold throughout.
THEOREM JobsInvariant == JobsSpec => []JobsInv
<1>1. JobsInv /\ [JobsNext]_jobVars => JobsInv'
  BY JobsInvStep, JobsInvQuiet DEF JobsNext
<1>. QED
  BY JobsInvInit, <1>1, PTL DEF JobsSpec

----------------------------------------------------------------------------
(* Every step of a job is a step of the promise *)

\* What a step of j can change of the mapped state.
LEMMA Elsewhere ==
  ASSUME NEW j \in Job, Alone(j)
  PROVE  /\ Fate' = [Fate EXCEPT ![j] = Fate'[j]]
         /\ Faults' = [Faults EXCEPT ![j] = Faults'[j]]
<1>1. ASSUME NEW i \in Job \ {j} PROVE Fate'[i] = Fate[i] /\ Faults'[i] = Faults[i]
  BY <1>1 DEF Alone, Fate, Faults, Owed
<1>2. Fate = [i \in Job |-> Fate[i]] /\ Fate' = [i \in Job |-> Fate'[i]]
  BY DEF Fate
<1>3. Faults = [i \in Job |-> Faults[i]] /\ Faults' = [i \in Job |-> Faults'[i]]
  BY DEF Faults
<1>. QED
  BY <1>1, <1>2, <1>3

\* What becomes of a single job: the outcome and the faults before and after.
Same(j) == Fate'[j] = Fate[j] /\ Faults'[j] = Faults[j]
Owes(j) == Fate[j] = "unknown" /\ Fate'[j] = "owed" /\ Faults'[j] = Faults[j]
Does(j) == Fate[j] = "owed" /\ Fate'[j] = "done" /\ Faults'[j] = Faults[j]
Hit(j) == Fate[j] # "unknown" /\ Fate'[j] = Fate[j] /\ Faults'[j] = Faults[j] + 1
Ends(j) ==
  /\ Fate[j] = "owed" /\ Fate'[j] = "abandoned"
  /\ Faults'[j] \in {Faults[j], Faults[j] + 1} /\ Faults'[j] > Tolerated

LEMMA OneFate ==
  ASSUME JobsInv, NEW j \in Job, Add(j) \/ JobStep(j)
  PROVE  Same(j) \/ Owes(j) \/ Does(j) \/ Hit(j) \/ Ends(j)
<1>1. JobsTypeOK /\ Kept(j)
  BY DEF JobsInv
<1>2. JobsTypeOK' /\ Kept(j)'
  BY OneJob
<1>3. /\ Fate[j] = IF done[j] THEN "done" ELSE IF job[j] = "none" THEN "unknown"
                   ELSE IF Owed(j) THEN "owed" ELSE "abandoned"
      /\ Fate'[j] = IF done'[j] THEN "done" ELSE IF job'[j] = "none" THEN "unknown"
                    ELSE IF Owed(j)' THEN "owed" ELSE "abandoned"
      /\ Faults[j] = tries[j] + stalls[j] /\ Faults'[j] = tries'[j] + stalls'[j]
  BY DEF Fate, Faults, Owed
<1>4. /\ tries[j] \in Nat /\ stalls[j] \in Nat /\ done[j] \in BOOLEAN /\ stray[j] \in BOOLEAN
      /\ tries'[j] \in Nat /\ stalls'[j] \in Nat /\ done'[j] \in BOOLEAN /\ stray'[j] \in BOOLEAN
      /\ job[j] \in JobState /\ job'[j] \in JobState
  BY <1>1, <1>2, AttemptsAssumption DEF JobsTypeOK
<1>. USE <1>3, <1>4 DEF Owed, JobState, Same, Owes, Does, Hit, Ends
<1>5. CASE Add(j)
  BY <1>5, <1>1 DEF Add, Kept, Fresh, JobsTypeOK
<1>6. CASE Take(j)
  BY <1>6, <1>1 DEF Take, JobsTypeOK
<1>7. CASE Work(j)
  BY <1>7, <1>1 DEF Work, JobsTypeOK
<1>8. CASE Complete(j)
  BY <1>8, <1>1 DEF Complete, Kept, Worked, JobsTypeOK
<1>9. CASE Retry(j)
  BY <1>9, <1>1 DEF Retry, JobsTypeOK
<1>10. CASE FailAttempt(j)
  BY <1>10, <1>1, AttemptsAssumption DEF FailAttempt, Running, JobsTypeOK
<1>11. CASE Stall(j)
  BY <1>11, <1>1 DEF Stall, Running, JobsTypeOK
<1>12. CASE StrayWork(j)
  BY <1>12, <1>1 DEF StrayWork, JobsTypeOK, Kept, Fresh
<1>13. CASE StrayEnd(j)
  BY <1>13, <1>1, AttemptsAssumption DEF StrayEnd, JobsTypeOK, Kept, Fresh, Worked, GivenUp
<1>. QED
  BY <1>5, <1>6, <1>7, <1>8, <1>9, <1>10, <1>11, <1>12, <1>13 DEF JobStep, Progress, StrayStep

LEMMA StepIsPromised ==
  ASSUME JobsInv, NEW j \in Job, Add(j) \/ JobStep(j)
  PROVE  [Promise!Next]_<<Fate, Faults>>
<1>1. Same(j) \/ Owes(j) \/ Does(j) \/ Hit(j) \/ Ends(j)
  BY OneFate
<1>2. /\ Fate' = [Fate EXCEPT ![j] = Fate'[j]]
      /\ Faults' = [Faults EXCEPT ![j] = Faults'[j]]
  BY OneJob, Elsewhere
<1>3. Fate = [Fate EXCEPT ![j] = Fate[j]] /\ Faults = [Faults EXCEPT ![j] = Faults[j]]
  BY DEF Fate, Faults
<1>4. CASE Same(j)
  BY <1>4, <1>2, <1>3 DEF Same
<1>5. CASE Owes(j)
  BY <1>5, <1>2, <1>3 DEF Owes, Promise!Next, Promise!Owe
<1>6. CASE Does(j)
  BY <1>6, <1>2, <1>3 DEF Does, Promise!Next, Promise!Do
<1>7. CASE Hit(j)
  BY <1>7, <1>2, <1>3 DEF Hit, Promise!Next, Promise!Fault
<1>8. CASE Ends(j)
  <2>1. Promise!GiveUp(j)
    BY <1>8, <1>2 DEF Ends, Promise!GiveUp
  <2>. QED
    BY <2>1 DEF Promise!Next
<1>. QED
  BY <1>1, <1>4, <1>5, <1>6, <1>7, <1>8

\* The queue implements AtLeastOnce, but for liveness: what was added is done,
\* owed, or given up after more faults than one; what was done stays done.
THEOREM QueueKeepsPromise == JobsSpec => Promise!Safety
<1>1. JobsInit => Promise!Init
  BY DEF JobsInit, Promise!Init, Fate, Faults
<1>2. JobsInv /\ [JobsNext]_jobVars => [Promise!Next]_<<Fate, Faults>>
  <2>1. CASE UNCHANGED jobVars
    BY <2>1 DEF jobVars, Fate, Faults, Owed
  <2>. QED
    BY <2>1, StepIsPromised DEF JobsNext
<1>. QED
  BY JobsInvariant, <1>1, <1>2, PTL DEF JobsSpec, Promise!Safety

----------------------------------------------------------------------------
\* Documents

\* Documents, in a queue to which others may add jobs of their own.
DocumentsSpec ==
  /\ JobsInit /\ DocumentsInit
  /\ [][DocumentsNext \/ \E j \in Job \ Doc : (Add(j) \/ JobStep(j)) /\ UNCHANGED documentVars
       ]_<<documentVars, jobVars>>

----------------------------------------------------------------------------
(* The inductive invariant: what an upload has achieved where it is *)

\* An upload that did not fail has taken the steps before the one it is at.
Achieved(d) ==
  /\ upload[d] \in {"attaching", "invalidating", "queueing", "answering", "answered"} => d \in stored
  /\ upload[d] \in {"invalidating", "queueing", "answering", "answered"}
       => (target[d] = "shipment" => d \in listed)
  /\ upload[d] \in {"answering", "answered"} => job[d] # "none"

DocumentsInv == JobsInv /\ DocumentsTypeOK /\ \A d \in Doc : Achieved(d)

\* A job that was added never counts as one that was not.
LEMMA AddedStays ==
  ASSUME JobsInv, NEW j \in Job, Add(j) \/ JobStep(j), NEW i \in Job, job[i] # "none"
  PROVE  job'[i] # "none"
<1>1. CASE i # j
  BY <1>1, OneJob DEF Alone
<1>2. CASE i = j
  BY <1>2 DEF JobsInv, JobsTypeOK, Add, JobStep, Progress, Take, Work, Complete, Retry,
              FailAttempt, Stall, StrayStep, StrayWork, StrayEnd
<1>. QED
  BY <1>1, <1>2

LEMMA QueueKeeps ==
  ASSUME DocumentsInv, NEW j \in Job, Add(j) \/ JobStep(j), UNCHANGED documentVars
  PROVE  DocumentsInv'
<1>1. JobsInv'
  BY JobsInvStep DEF DocumentsInv
<1>2. DocumentsTypeOK'
  BY DEF DocumentsInv, DocumentsTypeOK, documentVars
<1>3. ASSUME NEW d \in Doc PROVE Achieved(d)'
  BY <1>3, AddedStays, DocAssumption DEF DocumentsInv, Achieved, documentVars
<1>. QED
  BY <1>1, <1>2, <1>3 DEF DocumentsInv

\* A step of an upload that leaves the queue alone.
LEMMA UploadKeeps ==
  ASSUME DocumentsInv, NEW d \in Doc,
         \/ Upload(d) \/ DbStore(d) \/ DbAttach(d) \/ InvalidateCopy(d)
         \/ AnswerUpload(d) \/ FailUpload(d)
  PROVE  DocumentsInv'
<1>. USE DEF DocumentsInv, DocumentsTypeOK, Go
<1>1. UNCHANGED jobVars
  BY DEF Upload, DbStore, DbAttach, InvalidateCopy, AnswerUpload, FailUpload
<1>2. JobsInv'
  BY <1>1, JobsInvQuiet
<1>3. DocumentsTypeOK'
  BY DEF Upload, DbStore, DbAttach, InvalidateCopy, AnswerUpload, FailUpload
<1>4. ASSUME NEW x \in Doc PROVE Achieved(x)'
  <2>1. job' = job /\ Achieved(x)
    BY <1>1, <1>4 DEF jobVars
  <2>. USE <2>1, <1>4 DEF Achieved
  <2>2. CASE Upload(d)
    BY <2>2 DEF Upload
  <2>3. CASE DbStore(d)
    BY <2>3 DEF DbStore
  <2>4. CASE DbAttach(d)
    BY <2>4 DEF DbAttach
  <2>5. CASE InvalidateCopy(d)
    BY <2>5 DEF InvalidateCopy
  <2>6. CASE AnswerUpload(d)
    BY <2>6 DEF AnswerUpload
  <2>7. CASE FailUpload(d)
    BY <2>7 DEF FailUpload
  <2>. QED
    BY <2>2, <2>3, <2>4, <2>5, <2>6, <2>7
<1>. QED
  BY <1>2, <1>3, <1>4

LEMMA EnqueueKeeps ==
  ASSUME DocumentsInv, NEW d \in Doc, EnqueueProcessing(d)
  PROVE  DocumentsInv'
<1>1. d \in Job /\ Add(d) /\ JobsTypeOK
  BY DocAssumption DEF EnqueueProcessing, DocumentsInv, JobsInv
<1>2. JobsInv'
  BY <1>1, JobsInvStep DEF DocumentsInv
<1>3. job' = [job EXCEPT ![d] = "waiting"]
  BY <1>1 DEF Add
<1>. USE DEF DocumentsInv, DocumentsTypeOK, EnqueueProcessing, Go
<1>4. DocumentsTypeOK'
  OBVIOUS
<1>5. ASSUME NEW x \in Doc PROVE Achieved(x)'
  BY <1>1, <1>3, <1>5, DocAssumption DEF Achieved, JobsTypeOK
<1>. QED
  BY <1>2, <1>4, <1>5

\* The queue's invariant, the types of the uploads, and what each of their steps has
\* achieved, hold throughout.
THEOREM DocumentsInvariant == DocumentsSpec => []DocumentsInv
<1>. DEFINE Others == \E j \in Job \ Doc : (Add(j) \/ JobStep(j)) /\ UNCHANGED documentVars
<1>1. JobsInit /\ DocumentsInit => DocumentsInv
  BY JobsInvInit DEF DocumentsInit, DocumentsInv, DocumentsTypeOK, Achieved
<1>2. DocumentsInv /\ DocumentsNext => DocumentsInv'
  BY UploadKeeps, EnqueueKeeps, QueueKeeps, DocAssumption DEF DocumentsNext
<1>3. DocumentsInv /\ Others => DocumentsInv'
  BY QueueKeeps
<1>4. DocumentsInv /\ UNCHANGED <<documentVars, jobVars>> => DocumentsInv'
  BY JobsInvQuiet DEF DocumentsInv, DocumentsTypeOK, Achieved, documentVars, jobVars
<1>. QED
  BY <1>1, <1>2, <1>3, <1>4, PTL DEF DocumentsSpec

----------------------------------------------------------------------------
(* What an answered upload can rely on *)

\* A job that was added is done, owed, or has had too many faults.
LEMMA NothingHangs ==
  ASSUME JobsInv, NEW j \in Job, job[j] # "none"
  PROVE  done[j] \/ Owed(j) \/ Faults[j] > Tolerated
<1>1. JobsTypeOK /\ Kept(j)
  BY DEF JobsInv
<1>2. Faults[j] = tries[j] + stalls[j]
  BY DEF Faults
<1>. QED
  BY <1>1, <1>2, AttemptsAssumption DEF JobsTypeOK, JobState, Kept, Worked, GivenUp, Owed,
                                      MaxStalls, Tolerated

\* Whoever is told that an upload succeeded finds the document stored and
\* listed, and its processing done, under way, or given up after more faults
\* than the queue withstands.
THEOREM UploadsAreWhole == DocumentsSpec => []UploadIsWhole
<1>1. DocumentsInv => UploadIsWhole
  BY NothingHangs, DocAssumption DEF DocumentsInv, Achieved, UploadIsWhole
<1>. QED
  BY DocumentsInvariant, <1>1, PTL

----------------------------------------------------------------------------
\* Sessions

SessionsSpec == JobsInit /\ SessionsInit /\ [][SessionsNext]_<<sessionVars, jobVars>>

----------------------------------------------------------------------------
(* The inductive invariant *)

\* A refresh that has found the session, and has not been overtaken since, is of
\* a user whose session still has a cause: what it will write needs no other.
Covered(c) ==
  call[c].kind = "refresh" /\ ~At(c, "finding") /\ ~call[c].overtaken
    => call[c].user \in entered \cup revived

SessionsInv == SessionsTypeOK /\ OpenNeedsEntry /\ \A c \in SessionCall : Covered(c)

Request == [kind : Kind, pc : {"creating", "hashing", "comparing", "finding", "validating",
                               "checking", "closing", "recording", "removing"},
            user : User, overtaken : BOOLEAN]

LEMMA CallTypes == SessionsTypeOK => call \in [SessionCall -> {NoCall} \cup Request]
BY DEF SessionsTypeOK, Request

\* A request that is not idle is one of a user.
LEMMA InHand ==
  ASSUME SessionsTypeOK, NEW c \in SessionCall, ~At(c, "idle")
  PROVE  call[c] \in Request
BY CallTypes DEF At, NoCall

\* The types of what the properties do not speak of.
UsersOK ==
  account \subseteq User /\ removed \subseteq User /\ greeting \subseteq User /\ tokens \subseteq User

\* The variables that the properties are about, apart from call.
Causes == <<open, entered, revived>>

----------------------------------------------------------------------------
(* The ways a request proceeds *)

LEMMA BeginKeeps ==
  ASSUME SessionsInv, NEW c \in SessionCall, NEW u \in User, NEW kind \in Kind,
         NEW pc \in {"creating", "validating", "finding", "closing", "removing"},
         kind = "refresh" => pc = "finding",
         Begin(c, kind, pc, u), UNCHANGED <<Causes, users, tokens>>
  PROVE  SessionsInv'
<1>1. call' \in [SessionCall -> {NoCall} \cup Request]
  BY CallTypes DEF SessionsInv, Begin, Request
<1>2. SessionsTypeOK'
  BY <1>1 DEF SessionsInv, SessionsTypeOK, Causes, users, Request
<1>3. ASSUME NEW x \in SessionCall PROVE Covered(x)'
  BY <1>3, CallTypes DEF SessionsInv, Begin, Covered, At, Causes
<1>. QED
  BY <1>2, <1>3 DEF SessionsInv, OpenNeedsEntry, Causes

\* A request goes on, to a place where a refresh that finds no session never is.
LEMMA StepKeeps ==
  ASSUME SessionsInv, NEW c \in SessionCall, NEW from, from # "idle",
         NEW to \in {"hashing", "comparing", "checking", "recording"},
         call[c].kind = "refresh" /\ from = "finding" => call[c].user \in open,
         Step(c, from, to), UNCHANGED Causes,
         UsersOK'
  PROVE  SessionsInv'
<1>1. call[c] \in Request
  BY InHand DEF SessionsInv, Step, At
<1>2. call' \in [SessionCall -> {NoCall} \cup Request]
  BY <1>1, CallTypes DEF SessionsInv, Step, Request
<1>3. SessionsTypeOK'
  BY <1>2 DEF SessionsInv, SessionsTypeOK, Causes, UsersOK, Request
<1>4. ASSUME NEW x \in SessionCall PROVE Covered(x)'
  <2>1. CASE x = c
    BY <2>1, <1>1, CallTypes DEF SessionsInv, OpenNeedsEntry, Step, Covered, At, Causes, Request
  <2>2. CASE x # c
    BY <2>2, CallTypes DEF SessionsInv, Step, Covered, At, Causes
  <2>. QED
    BY <2>1, <2>2
<1>. QED
  BY <1>3, <1>4 DEF SessionsInv, OpenNeedsEntry, Causes

LEMMA EndKeeps ==
  ASSUME SessionsInv, NEW c \in SessionCall, End(c), UNCHANGED Causes,
         UsersOK'
  PROVE  SessionsInv'
<1>1. call' \in [SessionCall -> {NoCall} \cup Request]
  BY CallTypes DEF SessionsInv, End
<1>2. SessionsTypeOK'
  BY <1>1 DEF SessionsInv, SessionsTypeOK, Causes, UsersOK, Request
<1>3. ASSUME NEW x \in SessionCall PROVE Covered(x)'
  BY <1>3, CallTypes DEF SessionsInv, End, Covered, At, Causes, NoCall
<1>. QED
  BY <1>2, <1>3 DEF SessionsInv, OpenNeedsEntry, Causes

\* The end of a session takes its causes away, and overtakes every refresh that
\* relied on them.
LEMMA OvertakeKeeps ==
  ASSUME SessionsInv, NEW c \in SessionCall, NEW u \in User, Overtake(c, u),
         open' = open \ {u}, entered' = entered \ {u}, revived' = revived \ {u},
         UsersOK'
  PROVE  SessionsInv'
<1>1. ASSUME NEW x \in SessionCall
      PROVE  /\ x = c => call'[x] = NoCall
             /\ x # c => IF call[x].kind = "refresh" /\ call[x].user = u /\ ~At(x, "finding")
                           THEN call'[x] = [call[x] EXCEPT !.overtaken = TRUE]
                           ELSE call'[x] = call[x]
  BY DEF Overtake
<1>2. ASSUME NEW x \in SessionCall PROVE call'[x] \in {NoCall} \cup Request
  <2>1. call[x] \in {NoCall} \cup Request
    BY <1>2, CallTypes DEF SessionsInv
  <2>2. CASE call[x].kind = "refresh"
    <3>1. call[x] \in Request
      BY <2>1, <2>2 DEF NoCall
    <3>. QED
      BY <1>1, <1>2, <3>1 DEF Request
  <2>3. CASE call[x].kind # "refresh"
    BY <1>1, <1>2, <2>1, <2>3
  <2>. QED
    BY <2>2, <2>3
<1>3. call' \in [SessionCall -> {NoCall} \cup Request]
  BY <1>2 DEF Overtake
<1>4. SessionsTypeOK'
  BY <1>3 DEF SessionsInv, SessionsTypeOK, UsersOK, Request
<1>5. ASSUME NEW x \in SessionCall PROVE Covered(x)'
  <2>1. call[x] \in {NoCall} \cup Request
    BY <1>5, CallTypes DEF SessionsInv
  <2>2. CASE x = c
    <3>1. call'[x] = NoCall
      BY <1>1, <1>5, <2>2
    <3>2. call'[x].kind = "none"
      BY <3>1 DEF NoCall
    <3>. QED
      BY <3>2 DEF Covered
  <2>3. CASE x # c /\ call[x].kind = "refresh" /\ call[x].user = u /\ ~At(x, "finding")
    <3>1. call[x] \in Request
      BY <2>1, <2>3 DEF NoCall
    <3>2. call'[x].overtaken = TRUE
      BY <1>1, <1>5, <2>3, <3>1 DEF Request
    <3>. QED
      BY <3>2 DEF Covered
  <2>4. CASE x # c /\ ~(call[x].kind = "refresh" /\ call[x].user = u /\ ~At(x, "finding"))
    BY <1>1, <1>5, <2>4 DEF SessionsInv, Covered, At
  <2>. QED
    BY <2>2, <2>3, <2>4
<1>. QED
  BY <1>4, <1>5 DEF SessionsInv, OpenNeedsEntry

----------------------------------------------------------------------------
(* The actions *)

LEMMA Starts ==
  ASSUME SessionsInv, NEW c \in SessionCall, NEW u \in User,
         Register(c, u) \/ Login(c, u) \/ Refresh(c, u) \/ Logout(c, u) \/ Remove(c, u)
  PROVE  SessionsInv'
<1>. USE DEF sessionHistory, Causes
<1>1. CASE Register(c, u)
  BY <1>1, BeginKeeps DEF Register, Kind
<1>2. CASE Login(c, u)
  BY <1>2, BeginKeeps DEF Login, Kind
<1>3. CASE Refresh(c, u)
  BY <1>3, BeginKeeps DEF Refresh, Kind
<1>4. CASE Logout(c, u)
  BY <1>4, BeginKeeps DEF Logout, Kind
<1>5. CASE Remove(c, u)
  BY <1>5, BeginKeeps DEF Remove, Kind
<1>. QED
  BY <1>1, <1>2, <1>3, <1>4, <1>5

\* Writing the hash of a login or registration is a cause; that of a refresh has
\* one, or is overtaken and becomes one.
LEMMA OpenKeeps ==
  ASSUME SessionsInv, NEW c \in SessionCall, DbOpen(c)
  PROVE  SessionsInv'
<1>1. At(c, "hashing") /\ call[c] \in Request
  BY InHand DEF SessionsInv, DbOpen, Step, At
<1>2. call' \in [SessionCall -> {NoCall} \cup Request]
  BY <1>1, CallTypes DEF SessionsInv, DbOpen, Step, End, Request
<1>3. entered \subseteq entered' /\ revived \subseteq revived' /\ entered' \subseteq User /\ revived' \subseteq User
  BY <1>1 DEF DbOpen, SessionsInv, SessionsTypeOK, Request
<1>4. call[c].user \in entered' \cup revived'
  BY <1>1 DEF DbOpen, SessionsInv, Covered, At, Request
<1>5. open' \subseteq open \cup {call[c].user}
  BY DEF DbOpen
<1>6. SessionsTypeOK'
  BY <1>1, <1>2, <1>3, <1>5 DEF DbOpen, SessionsInv, SessionsTypeOK, users, Issue, Request
<1>7. OpenNeedsEntry'
  BY <1>3, <1>4, <1>5 DEF SessionsInv, OpenNeedsEntry
<1>8. ASSUME NEW x \in SessionCall PROVE Covered(x)'
  <2>1. CASE x = c
    BY <2>1, <1>1, <1>4, CallTypes DEF SessionsInv, DbOpen, Step, End, Covered, At, NoCall, Request
  <2>2. CASE x # c
    BY <2>2, <1>3, CallTypes DEF SessionsInv, DbOpen, Step, End, Covered, At
  <2>. QED
    BY <2>1, <2>2
<1>. QED
  BY <1>6, <1>7, <1>8 DEF SessionsInv

LEMMA Continues ==
  ASSUME SessionsInv, NEW c \in SessionCall,
         DbCreate(c) \/ DbValidate(c) \/ Check(c) \/ DbFindSession(c) \/ Compare(c) \/ DbRecordLogin(c)
  PROVE  SessionsInv'
<1>1. UsersOK
  BY DEF SessionsInv, SessionsTypeOK, UsersOK
<1>. USE DEF sessionHistory, Causes
<1>2. CASE DbCreate(c)
  <2>1. call[c] \in Request
    BY <1>2, InHand DEF DbCreate, Step, At, SessionsInv
  <2>2. UsersOK'
    BY <1>1, <1>2, <2>1 DEF DbCreate, UsersOK, Request
  <2>3. UNCHANGED Causes
    BY <1>2 DEF DbCreate
  <2>4. Step(c, "creating", "hashing") \/ End(c)
    BY <1>2 DEF DbCreate
  <2>. QED
    BY <2>2, <2>3, <2>4, StepKeeps, EndKeeps
<1>3. CASE DbValidate(c)
  BY <1>1, <1>3, StepKeeps, EndKeeps DEF DbValidate, UsersOK, users
<1>4. CASE Check(c)
  BY <1>1, <1>4, StepKeeps, EndKeeps DEF Check, UsersOK, users
<1>5. CASE DbFindSession(c)
  BY <1>1, <1>5, StepKeeps, EndKeeps DEF DbFindSession, UsersOK, users
<1>6. CASE Compare(c)
  BY <1>1, <1>6, StepKeeps, EndKeeps DEF Compare, UsersOK, users
<1>7. CASE DbRecordLogin(c)
  <2>1. call[c] \in Request
    BY <1>7, InHand DEF DbRecordLogin, At, SessionsInv
  <2>2. UsersOK'
    BY <1>1, <1>7, <2>1 DEF DbRecordLogin, Issue, Request, UsersOK, users
  <2>. QED
    BY <1>1, <1>7, <2>2, EndKeeps DEF DbRecordLogin
<1>. QED
  BY <1>2, <1>3, <1>4, <1>5, <1>6, <1>7

LEMMA Closes ==
  ASSUME SessionsInv, NEW c \in SessionCall, DbClose(c) \/ DbRemove(c) \/ FailCall(c)
  PROVE  SessionsInv'
<1>1. UsersOK
  BY DEF SessionsInv, SessionsTypeOK, UsersOK
<1>2. CASE DbClose(c)
  <2>1. call[c].user \in User
    BY <1>2, InHand DEF DbClose, At, SessionsInv, Request
  <2>. QED
    BY <1>1, <1>2, <2>1, OvertakeKeeps DEF DbClose, UsersOK, users
<1>3. CASE DbRemove(c)
  <2>1. call[c].user \in User
    BY <1>3, InHand DEF DbRemove, At, SessionsInv, Request
  <2>2. UsersOK'
    BY <1>1, <1>3, <2>1 DEF DbRemove, UsersOK
  <2>. QED
    BY <1>3, <2>1, <2>2, OvertakeKeeps DEF DbRemove
<1>4. CASE FailCall(c)
  BY <1>1, <1>4, EndKeeps DEF FailCall, UsersOK, users, sessionHistory, Causes
<1>. QED
  BY <1>2, <1>3, <1>4

\* The welcome mail is about no session.
LEMMA GreetKeeps ==
  ASSUME SessionsInv, NEW u \in User, Greet(u)
  PROVE  SessionsInv'
BY DEF Greet, SessionsInv, SessionsTypeOK, OpenNeedsEntry, Covered, At, sessionHistory

\* The types, the cause of every open session, and what covers a refresh under way,
\* hold throughout.
THEOREM SessionsInvariant == SessionsSpec => []SessionsInv
<1>1. SessionsInit => SessionsInv
  BY DEF SessionsInit, SessionsInv, SessionsTypeOK, OpenNeedsEntry, Covered, At, NoCall
<1>2. SessionsInv /\ SessionsNext => SessionsInv'
  BY Starts, Continues, OpenKeeps, Closes, GreetKeeps DEF SessionsNext
<1>3. SessionsInv /\ UNCHANGED <<sessionVars, jobVars>> => SessionsInv'
  BY DEF SessionsInv, SessionsTypeOK, OpenNeedsEntry, Covered, At, sessionVars
<1>. QED
  BY <1>1, <1>2, <1>3, PTL DEF SessionsSpec

\* A session is open only where a login or registration has opened it since the
\* last logout or removal, or a refresh which that had overtaken.
THEOREM SessionsHaveCauses == SessionsSpec => []OpenNeedsEntry
BY SessionsInvariant, PTL DEF SessionsInv

----------------------------------------------------------------------------
\* Calls to providers

OutboundSpec == OutboundInit /\ [][OutboundNext]_outboundVars

----------------------------------------------------------------------------
(* The inductive invariant: the retries that were spent *)

\* An attempt is made only when fewer than MaxRetries + 1 have failed; the 503
\* is answered when as many have.
Spent(l) ==
  /\ lookup[l] = "new" => attempts[l] = 0
  /\ IF lookup[l] = "unavailable" THEN attempts[l] = MaxRetries + 1
                                  ELSE attempts[l] <= MaxRetries

OutboundInv == OutboundTypeOK /\ \A l \in Lookup : Spent(l)

\* The types, and how many attempts a call has made in each of its states,
\* hold throughout.
THEOREM OutboundInvariant == OutboundSpec => []OutboundInv
<1>. USE RetriesAssumption DEF OutboundTypeOK, Spent
<1>1. OutboundInit => OutboundInv
  BY DEF OutboundInit, OutboundInv
<1>2. ASSUME OutboundInv, OutboundNext PROVE OutboundInv'
  <2>1. PICK l \in Lookup : AskProvider(l) \/ AnswerProvider(l) \/ FailProvider(l) \/ Again(l)
    BY <1>2 DEF OutboundNext
  <2>2. OutboundTypeOK /\ \A i \in Lookup : Spent(i)
    BY <1>2 DEF OutboundInv
  <2>3. CASE AskProvider(l)
    BY <2>2, <2>3 DEF OutboundInv, AskProvider, Turn
  <2>4. CASE AnswerProvider(l)
    BY <2>2, <2>4 DEF OutboundInv, AnswerProvider, Turn
  <2>5. CASE FailProvider(l)
    BY <2>2, <2>5 DEF OutboundInv, FailProvider, Turn
  <2>6. CASE Again(l)
    BY <2>2, <2>6 DEF OutboundInv, Again, Turn
  <2>. QED
    BY <2>1, <2>3, <2>4, <2>5, <2>6
<1>3. OutboundInv /\ UNCHANGED outboundVars => OutboundInv'
  BY DEF OutboundInv, outboundVars
<1>. QED
  BY <1>1, <1>2, <1>3, PTL DEF OutboundSpec

----------------------------------------------------------------------------
(* Every step of a call is a step of the promise *)

\* How the outcome of a call follows its state.
LEMMA FateOf ==
  ASSUME OutboundTypeOK, NEW l \in Lookup
  PROVE  /\ lookup[l] = "new" => LookupFate[l] = "unknown"
         /\ lookup[l] \in {"asking", "pausing"} => LookupFate[l] = "owed"
         /\ lookup[l] = "answered" => LookupFate[l] = "done"
         /\ lookup[l] = "unavailable" => LookupFate[l] = "abandoned"
BY DEF OutboundTypeOK, LookupFate

\* The outcomes of the calls that a step is not about stay what they are.
LEMMA FateChanges ==
  ASSUME NEW l \in Lookup, NEW to, OutboundTypeOK, lookup' = [lookup EXCEPT ![l] = to]
  PROVE  LookupFate' = [LookupFate EXCEPT ![l] = LookupFate'[l]]
<1>1. ASSUME NEW i \in Lookup, i # l PROVE LookupFate'[i] = LookupFate[i]
  BY <1>1 DEF LookupFate, OutboundTypeOK
<1>2. LookupFate = [i \in Lookup |-> LookupFate[i]]
  BY DEF LookupFate
<1>3. LookupFate' = [i \in Lookup |-> LookupFate'[i]]
  BY DEF LookupFate
<1>. QED
  BY <1>1, <1>2, <1>3

LEMMA StepIsProvided ==
  ASSUME OutboundInv, OutboundInv', OutboundNext
  PROVE  [Provider!Next]_<<LookupFate, attempts>>
<1>1. PICK l \in Lookup : AskProvider(l) \/ AnswerProvider(l) \/ FailProvider(l) \/ Again(l)
  BY DEF OutboundNext
<1>2. OutboundTypeOK /\ OutboundTypeOK' /\ Spent(l)
  BY DEF OutboundInv
<1>3. LookupFate' = [LookupFate EXCEPT ![l] = LookupFate'[l]]
  BY <1>1, <1>2, FateChanges DEF AskProvider, AnswerProvider, FailProvider, Again, Turn
<1>4. /\ lookup'[l] \in {"asking", "pausing"} => LookupFate'[l] = "owed"
      /\ lookup'[l] = "answered" => LookupFate'[l] = "done"
      /\ lookup'[l] = "unavailable" => LookupFate'[l] = "abandoned"
  BY <1>2 DEF OutboundTypeOK, LookupFate
<1>5. CASE AskProvider(l)
  <2>1. LookupFate[l] = "unknown" /\ LookupFate'[l] = "owed" /\ attempts' = attempts
    BY <1>2, <1>4, <1>5, FateOf DEF AskProvider, Turn, OutboundTypeOK
  <2>. QED
    BY <2>1, <1>3 DEF Provider!Next, Provider!Owe
<1>6. CASE AnswerProvider(l)
  <2>1. LookupFate[l] = "owed" /\ LookupFate'[l] = "done" /\ attempts' = attempts
    BY <1>2, <1>4, <1>6, FateOf DEF AnswerProvider, Turn, OutboundTypeOK
  <2>. QED
    BY <2>1, <1>3 DEF Provider!Next, Provider!Do
<1>7. CASE FailProvider(l)
  <2>1. LookupFate[l] = "owed" /\ attempts[l] \in Nat
    BY <1>2, <1>7, FateOf, RetriesAssumption DEF FailProvider, Turn, OutboundTypeOK
  <2>2. attempts' = [attempts EXCEPT ![l] = attempts[l] + 1]
    BY <1>7 DEF FailProvider
  <2>3. CASE attempts[l] + 1 <= MaxRetries
    <3>1. LookupFate'[l] = "owed"
      BY <1>2, <1>4, <1>7, <2>3 DEF FailProvider, Turn, OutboundTypeOK
    <3>2. LookupFate' = LookupFate
      BY <3>1, <2>1, <1>3 DEF LookupFate
    <3>. QED
      BY <3>2, <2>1, <2>2 DEF Provider!Next, Provider!Fault
  <2>4. CASE attempts[l] + 1 > MaxRetries
    <3>1. LookupFate'[l] = "abandoned"
      BY <1>2, <1>4, <1>7, <2>1, <2>4, RetriesAssumption DEF FailProvider, Turn, OutboundTypeOK
    <3>2. Provider!GiveUp(l)
      BY <3>1, <2>1, <2>2, <2>4, <1>3 DEF Provider!GiveUp
    <3>. QED
      BY <3>2 DEF Provider!Next
  <2>. QED
    BY <2>1, <2>3, <2>4, RetriesAssumption
<1>8. CASE Again(l)
  <2>1. LookupFate[l] = "owed" /\ LookupFate'[l] = "owed" /\ attempts' = attempts
    BY <1>2, <1>4, <1>8, FateOf DEF Again, Turn, OutboundTypeOK
  <2>. QED
    BY <2>1, <1>3 DEF LookupFate
<1>. QED
  BY <1>1, <1>5, <1>6, <1>7, <1>8

\* A call implements AtLeastOnce, but for liveness: it is answered, under way,
\* or ended with a 503 after more failures than the setting allows.
THEOREM CallsKeepTrying == OutboundSpec => Provider!Safety
<1>1. OutboundInit => Provider!Init
  BY DEF OutboundInit, Provider!Init, LookupFate
<1>2. OutboundInv /\ OutboundInv' /\ [OutboundNext]_outboundVars => [Provider!Next]_<<LookupFate, attempts>>
  <2>1. CASE UNCHANGED outboundVars
    BY <2>1 DEF outboundVars, LookupFate
  <2>. QED
    BY <2>1, StepIsProvided
<1>. QED
  BY OutboundInvariant, <1>1, <1>2, PTL DEF OutboundSpec, Provider!Safety

----------------------------------------------------------------------------
\* Articles

ArticlesSpec == ArticlesInit /\ [][ArticlesNext]_articleVars

\* The requests that write to a row which is there.
Change == {"update", "delete", "removeUser"}

\* What a request relies on still holds, or it has been overtaken: its caller
\* has the role it decides with, and where it is about to write, the row is there
\* and its caller may do that to it.
Grounded(c) ==
  ~request[c].moved =>
    /\ request[c].pc \in {"finding", "writing"} => staff[request[c].by] = request[c].role
    /\ request[c].pc = "writing" /\ request[c].op \in Change => Found(c) /\ Allowed(c)

\* A handler that runs: a request about an article or a user, as its route wants.
InFlight ==
  {q \in [op : {"get", "update", "delete", "post", "removeUser", "createUser"},
          pc : {"guarding", "finding", "writing"}, by : Person, of : Paper \cup Person,
          role : Role \cup {None}, moved : BOOLEAN] :
     q.of \in IF KindOf(q.op) = "article" THEN Paper ELSE Person}

ArticlesInv ==
  /\ ArticlesTypeOK
  /\ request \in [ArticleCall -> {NoRequest} \cup InFlight]
  /\ \A c \in ArticleCall : Grounded(c)

LEMMA RequestTypes ==
  ASSUME ArticlesInv, NEW c \in ArticleCall
  PROVE  /\ request[c] \in {NoRequest} \cup InFlight
         /\ ~Suspended(c, "idle") => request[c] \in InFlight
BY DEF ArticlesInv, Suspended, NoRequest

\* A request that stays what it is, with the tables as they are, relies on the same.
LEMMA StillGrounded ==
  ASSUME NEW d \in ArticleCall, Grounded(d), UNCHANGED <<staff, paper>>, request'[d] = request[d]
  PROVE  Grounded(d)'
BY DEF Grounded, Found, Allowed, Subject, Stored, Present

\* A step of a request that reads.
LEMMA ReadKeeps ==
  ASSUME ArticlesInv, NEW c \in ArticleCall, NEW q \in {NoRequest} \cup InFlight,
         request' = [request EXCEPT ![c] = q], UNCHANGED <<staff, paper>>, Grounded(c)'
  PROVE  ArticlesInv'
<1>1. request' \in [ArticleCall -> {NoRequest} \cup InFlight]
  BY DEF ArticlesInv, ArticlesTypeOK, InFlight
<1>2. ArticlesTypeOK'
  BY <1>1 DEF ArticlesInv, ArticlesTypeOK, InFlight
<1>3. ASSUME NEW d \in ArticleCall PROVE Grounded(d)'
  BY <1>3, StillGrounded DEF ArticlesInv, ArticlesTypeOK
<1>. QED
  BY <1>1, <1>2, <1>3 DEF ArticlesInv

LEMMA OverKeeps ==
  ASSUME ArticlesInv, NEW c \in ArticleCall, Over(c), UNCHANGED <<staff, paper>>
  PROVE  ArticlesInv'
<1>1. request'[c] = NoRequest
  BY DEF ArticlesInv, ArticlesTypeOK, Over
<1>2. Grounded(c)'
  BY <1>1 DEF Grounded, NoRequest
<1>. QED
  BY <1>2, ReadKeeps DEF Over

\* A write overtakes whoever decided on the rows it changes, and nobody else
\* relied on those.
LEMMA WriteKeeps ==
  ASSUME ArticlesInv, NEW c \in ArticleCall, NEW touched \in SUBSET (Person \cup Paper),
         Moves(c, touched),
         staff' \in [Person -> Role \cup {None, New, Gone}],
         paper' \in [Paper -> ArticleRow \cup {NoArticle(New), NoArticle(Gone)}],
         \A p \in Person \ touched : staff'[p] = staff[p],
         \A a \in Paper \ touched : paper'[a] = paper[a]
  PROVE  ArticlesInv'
<1>1. ASSUME NEW d \in ArticleCall
      PROVE  request'[d] \in {NoRequest} \cup InFlight /\ Grounded(d)'
  <2>1. request[d] \in {NoRequest} \cup InFlight /\ Grounded(d)
    BY <1>1, RequestTypes DEF ArticlesInv
  <2>2. CASE d = c
    <3>1. request'[d] = NoRequest
      BY <2>2 DEF Moves
    <3>. QED
      BY <3>1 DEF Grounded, NoRequest
  <2>3. CASE d # c /\ \E x \in touched : Touches(request[d], x)
    <3>1. request'[d] = [request[d] EXCEPT !.moved = TRUE]
      BY <1>1, <2>3 DEF Moves
    <3>2. request[d] # NoRequest
      BY <2>3, IdsAssumption DEF Touches, NoRequest
    <3>3. request[d] \in InFlight
      BY <2>1, <3>2
    <3>. QED
      BY <3>1, <3>3 DEF Grounded, InFlight
  <2>4. CASE d # c /\ ~\E x \in touched : Touches(request[d], x)
    <3>1. request'[d] = request[d]
      BY <1>1, <2>4 DEF Moves
    <3>2. CASE request[d] = NoRequest
      BY <3>1, <3>2 DEF Grounded, NoRequest
    <3>3. CASE request[d] \in InFlight
      <4>1. request[d].pc # "guarding" => staff'[request[d].by] = staff[request[d].by]
        BY <2>4, <3>3 DEF Touches, InFlight
      <4>2. ASSUME request[d].pc = "writing"
            PROVE  request[d].of \notin touched
        BY <2>4, <3>3, <4>2 DEF Touches, InFlight
      <4>3. ASSUME request[d].pc = "writing", request[d].op \in Change, Found(d), Allowed(d)
            PROVE  Found(d)' /\ Allowed(d)'
        <5>. DEFINE x == request[d].of
        <5>1. CASE KindOf(request[d].op) = "article" /\ x \in Paper
          BY <3>1, <4>2, <4>3, <5>1 DEF Found, Allowed, Subject, Stored
        <5>2. CASE KindOf(request[d].op) # "article" /\ x \in Person
          BY <3>1, <4>2, <4>3, <5>2 DEF Found, Allowed, Subject, Present
        <5>. QED
          BY <3>3, <5>1, <5>2 DEF InFlight
      <4>. QED
        BY <2>1, <3>1, <3>3, <4>1, <4>3 DEF Grounded
    <3>. QED
      BY <2>1, <3>2, <3>3
  <2>. QED
    BY <2>2, <2>3, <2>4
<1>2. request' \in [ArticleCall -> {NoRequest} \cup InFlight]
  BY <1>1 DEF Moves
<1>3. ArticlesTypeOK'
  BY <1>2 DEF ArticlesTypeOK, InFlight
<1>. QED
  BY <1>1, <1>2, <1>3 DEF ArticlesInv

LEMMA AskKeeps ==
  ASSUME ArticlesInv, NEW c \in ArticleCall, NEW p \in Person, NEW x \in Paper \cup Person,
         NEW op \in {"get", "update", "delete", "post", "removeUser", "createUser"}, Ask(c, p, op, x)
  PROVE  ArticlesInv'
<1>. DEFINE q == [op |-> op, pc |-> "guarding", by |-> p, of |-> x, role |-> None, moved |-> FALSE]
<1>1. KindOf(op) = IF op \in {"removeUser", "createUser"} THEN "users" ELSE "article"
  BY DEF KindOf, Needs
<1>2. q \in InFlight
  BY <1>1 DEF Ask, InFlight
<1>3. request'[c] = q
  BY DEF Ask, ArticlesInv
<1>4. Grounded(c)'
  BY <1>3 DEF Grounded
<1>. QED
  BY <1>2, <1>4, ReadKeeps DEF Ask

LEMMA ReadsKeep ==
  ASSUME ArticlesInv, NEW c \in ArticleCall, DbGuard(c) \/ DbFind(c) \/ DbFindEmail(c) \/ FailRequest(c)
  PROVE  ArticlesInv'
<1>1. CASE FailRequest(c)
  BY <1>1, OverKeeps DEF FailRequest
<1>2. CASE DbGuard(c)
  <2>1. request[c] \in InFlight
    BY <1>2, RequestTypes DEF DbGuard, Suspended
  <2>2. CASE Over(c)
    BY <1>2, <2>2, OverKeeps DEF DbGuard
  <2>3. CASE ~Over(c)
    <3>. DEFINE r == staff[request[c].by]
                to == IF request[c].op = "post" THEN "writing" ELSE "finding"
                q == [request[c] EXCEPT !.role = r, !.pc = to]
    <3>1. r \in Role /\ request' = [request EXCEPT ![c] = q] /\ UNCHANGED <<staff, paper>>
      BY <1>2, <2>3 DEF DbGuard
    <3>2. q \in InFlight
      BY <2>1, <3>1 DEF InFlight
    <3>3. request'[c] = q
      BY <3>1 DEF ArticlesInv
    <3>4. /\ q.by = request[c].by /\ q.role = r /\ q.op = request[c].op
          /\ q.op \in Change => q.pc = "finding"
      BY <2>1 DEF InFlight, Change
    <3>5. Grounded(c)'
      BY <3>1, <3>3, <3>4 DEF Grounded
    <3>. QED
      BY <3>1, <3>2, <3>5, ReadKeeps
  <2>. QED
    BY <2>2, <2>3
<1>3. CASE DbFind(c) \/ DbFindEmail(c)
  <2>1. request[c] \in InFlight /\ request[c].pc = "finding"
    BY <1>3, RequestTypes DEF DbFind, DbFindEmail, Suspended
  <2>2. CASE Over(c)
    BY <1>3, <2>2, OverKeeps DEF DbFind, DbFindEmail
  <2>3. CASE ~Over(c)
    <3>. DEFINE q == [request[c] EXCEPT !.pc = "writing"]
    <3>1. /\ request' = [request EXCEPT ![c] = q] /\ UNCHANGED <<staff, paper>>
          /\ request[c].op \in Change => Found(c) /\ Allowed(c)
      BY <1>3, <2>3 DEF DbFind, DbFindEmail, Change
    <3>2. q \in InFlight
      BY <2>1 DEF InFlight
    <3>3. request'[c] = q
      BY <3>1 DEF ArticlesInv
    <3>4. /\ q.moved = request[c].moved /\ q.by = request[c].by /\ q.role = request[c].role
          /\ q.of = request[c].of /\ q.op = request[c].op
      BY <2>1 DEF InFlight
    <3>5. request[c].op \in Change => (Found(c) /\ Allowed(c))'
      BY <3>1, <3>3, <3>4 DEF Found, Allowed, Subject, Stored, Present
    <3>6. Grounded(c)
      BY DEF ArticlesInv
    <3>7. Grounded(c)'
      BY <2>1, <3>1, <3>3, <3>4, <3>5, <3>6 DEF Grounded
    <3>. QED
      BY <3>1, <3>2, <3>7, ReadKeeps
  <2>. QED
    BY <2>2, <2>3
<1>. QED
  BY <1>1, <1>2, <1>3

LEMMA WritesKeep ==
  ASSUME ArticlesInv, NEW c \in ArticleCall,
         \/ DbCreateArticle(c) \/ DbUpdateArticle(c) \/ DbDeleteArticle(c)
         \/ DbDeleteUser(c) \/ DbCreateUser(c)
  PROVE  ArticlesInv'
<1>1. request[c] \in InFlight
  BY RequestTypes DEF DbCreateArticle, DbUpdateArticle, DbDeleteArticle, DbDeleteUser, DbCreateUser,
                      Writes, Suspended
<1>2. request[c].of \in IF request[c].op \in {"removeUser", "createUser"} THEN Person ELSE Paper
  BY <1>1 DEF InFlight, KindOf, Needs
<1>3. /\ staff \in [Person -> Role \cup {None, New, Gone}] 
      /\ paper \in [Paper -> ArticleRow \cup {NoArticle(New), NoArticle(Gone)}]
  BY DEF ArticlesInv, ArticlesTypeOK
<1>4. CASE Over(c) /\ UNCHANGED <<staff, paper>>
  BY <1>4, OverKeeps
<1>. DEFINE x == request[c].of
            Quiet == Over(c) /\ UNCHANGED <<staff, paper>>
<1>5. CASE DbCreateArticle(c) /\ ~Quiet
  <2>1. /\ Moves(c, {x})
        /\ UNCHANGED staff /\ x \in Paper
        /\ \E pub \in BOOLEAN : paper' = [paper EXCEPT ![x] = [owner |-> request[c].by, published |-> pub]]
    BY <1>2, <1>5 DEF DbCreateArticle, Writes
  <2>. QED
    BY <1>1, <1>3, <2>1, WriteKeeps DEF InFlight, ArticleRow
<1>6. CASE DbUpdateArticle(c) /\ ~Quiet
  BY <1>2, <1>3, <1>6, WriteKeeps DEF DbUpdateArticle, Writes
<1>7. CASE DbDeleteArticle(c)
  BY <1>2, <1>3, <1>7, WriteKeeps DEF DbDeleteArticle, Writes
<1>8. CASE DbDeleteUser(c)
  <2>. DEFINE theirs == {a \in Paper : Stored(a) /\ paper[a].owner = x}
  <2>1. /\ x \in Person /\ staff' = [staff EXCEPT ![x] = Gone] /\ Moves(c, {x} \cup theirs)
        /\ paper' = [a \in Paper |->
              IF a \in theirs THEN [paper[a] EXCEPT !.owner = None] ELSE paper[a]]
    BY <1>2, <1>8 DEF DbDeleteUser, Writes
  <2>2. ASSUME NEW a \in Paper PROVE paper'[a] \in ArticleRow \cup {NoArticle(New), NoArticle(Gone)}
    BY <1>3, <2>1, <2>2 DEF ArticleRow, Stored, NoArticle
  <2>3. paper' \in [Paper -> ArticleRow \cup {NoArticle(New), NoArticle(Gone)}]
    BY <2>1, <2>2
  <2>4. {x} \cup theirs \in SUBSET (Person \cup Paper)
    BY <2>1
  <2>. QED
    BY <1>3, <2>1, <2>3, <2>4, WriteKeeps
<1>9. CASE DbCreateUser(c) /\ ~Quiet
  BY <1>2, <1>3, <1>9, WriteKeeps DEF DbCreateUser, Writes
<1>. QED
  BY <1>4, <1>5, <1>6, <1>7, <1>8, <1>9 DEF DbCreateArticle, DbUpdateArticle, DbCreateUser

\* The types, and what every request relies on, hold throughout.
THEOREM ArticlesInvariant == ArticlesSpec => []ArticlesInv
<1>1. ArticlesInit => ArticlesInv
  BY StaffAssumption DEF ArticlesInit, ArticlesInv, ArticlesTypeOK, NoArticle, Grounded, NoRequest
<1>2. ArticlesInv /\ ArticlesNext => ArticlesInv'
  BY AskKeeps, ReadsKeep, WritesKeep DEF ArticlesNext
<1>3. ArticlesInv /\ UNCHANGED articleVars => ArticlesInv'
  BY StillGrounded DEF ArticlesInv, ArticlesTypeOK, articleVars
<1>. QED
  BY <1>1, <1>2, <1>3, PTL DEF ArticlesSpec

\* A row is updated or deleted by a user who may do that to what it holds at that
\* moment, unless another write came between the decision and this one.
THEOREM ChangesPermitted == ArticlesSpec => ChangesArePermitted
<1>1. ArticlesInv /\ [ArticlesNext]_articleVars =>
        [\A c \in ArticleCall :
          request[c].op \in {"update", "delete", "removeUser"} /\ Suspended(c, "writing")
            /\ <<staff, paper>>' # <<staff, paper>> /\ request'[c].pc = "idle" =>
              request[c].moved \/ (staff[request[c].by] = request[c].role /\ Found(c) /\ Allowed(c))]_articleVars
  BY DEF ArticlesInv, Grounded, Suspended, Change
<1>. QED
  BY ArticlesInvariant, <1>1, PTL DEF ArticlesSpec, ChangesArePermitted
=============================================================================
