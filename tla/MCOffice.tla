------------------------------ MODULE MCOffice ------------------------------
(* Documents and users of the logistics platform, and the queue both feed;  *)
(* its cached answers and its calls to providers; articles and users of the *)
(* article service.  A behaviour exercises one of the five: documents and   *)
(* users share only the queue, where their jobs are independent, the others *)
(* share nothing, and the last is another server.  A mail's job is the      *)
(* document's all over and nobody waits for it, so that it is added here    *)
(* and the document's is run.                                               *)
EXTENDS Documents, Sessions, CachedReads, Outbound, Articles, TLC

CONSTANTS d1, u1, r1, r2, r3, p1, p2, a1, c1, c2, url1, url2

VARIABLE used  \* the feature this behaviour exercises

MCDoc == {d1}
MCUser == {u1}
MCJob == MCDoc \cup MCUser
MCCall == {r1, r2, r3}

MCPerson == {p1, p2}
MCPaper == {a1}
MCRole == {"admin", "author"}
Row(action, subject, on) == [action |-> action, subject |-> subject, on |-> on]
MCRule == [r \in MCRole |->
  CASE r = "admin" -> {Row("manage", "all", "any")}
    [] r = "author" -> {Row("create", "article", "any"), Row("read", "article", "any"),
                        Row("update", "article", "own"), Row("update", "article", "draft"),
                        Row("delete", "article", "own"), Row("delete", "users", "own")}]
MCStaff == (p1 :> "admin" @@ p2 :> New)
MCArticleCall == {c1, c2}
MCUrl == {url1, url2}

Init ==
  /\ JobsInit /\ DocumentsInit /\ SessionsInit /\ ArticlesInit
  /\ CachedReadsInit /\ OutboundInit
  /\ used \in {"documents", "sessions", "articles", "caches", "providers"}
Next ==
  /\ used' = used
  /\ \/ used = "documents" /\ DocumentsNext
        /\ UNCHANGED <<sessionVars, articleVars, cacheVars, outboundVars>>
     \/ used = "sessions" /\ SessionsNext
        /\ UNCHANGED <<documentVars, articleVars, cacheVars, outboundVars>>
     \/ used = "articles" /\ ArticlesNext
        /\ UNCHANGED <<jobVars, documentVars, sessionVars, cacheVars, outboundVars>>
     \/ used = "caches" /\ CachedReadsNext
        /\ UNCHANGED <<jobVars, documentVars, sessionVars, articleVars, outboundVars>>
     \/ used = "providers" /\ OutboundNext
        /\ UNCHANGED <<jobVars, documentVars, sessionVars, articleVars, cacheVars>>

Spec ==
  /\ Init
  /\ [][Next]_<<jobVars, documentVars, sessionVars, articleVars, cacheVars, outboundVars, used>>
  /\ JobFairness /\ CachedReadsFairness /\ OutboundFairness
=============================================================================
