------------------------------- MODULE Paging -------------------------------
(***************************************************************************)
(* Lists that are asked for page by page: findAll of employees,            *)
(* departments and the audit log in Core Concepts; BaseRepository.paginate *)
(* and its like for shipments, carriers, users, notifications and the      *)
(* audit trail in the logistics platform (POC); the books of               *)
(* nest-unit-testing, which come without a total.                          *)
(*                                                                         *)
(* A page is a query for its rows and a query for how many there are in    *)
(* all, sent together and performed in either order; rows come and go      *)
(* between them and between the pages.  A client walks from page 1 until   *)
(* it is told that there is no next page, or a page of books is not full.  *)
(***************************************************************************)
EXTENDS Naturals, FiniteSets, Sequences, SequencesExt, FiniteSetsExt

CONSTANTS
  Entry,  \* the rows that may be listed
  Rank,   \* the values of the column the list is ordered by
  Limit   \* rows per page

ASSUME PagingAssumption ==
  Rank \subseteq Nat \ {0} /\ Limit \in Nat \ {0} /\ IsFiniteSet(Entry)

VARIABLES
  rank,    \* the value of a row in that column; Unlisted where there is no row
           \* or the filter does not let it through
  walk,    \* the list a client walks, its page, the queries that are not
           \* answered, and the answers of the others
  seen,    \* how often the walk was shown each row
  stayed,  \* history: the rows that have been listed ever since it began
  came,    \* history: since it began, a row has entered the list
  left,    \* history: ... or has left it (a row that moves does both)
  tied,    \* history: a page was taken of two rows whose order was left open
  torn     \* history: a row has entered after the count and before the rows
           \* of one page

pagingVars == <<rank, walk, seen, stayed, came, left, tied, torn>>

Unlisted == 0
Listed == {e \in Entry : rank[e] # Unlisted}

\* The lists, by what they answer beside the rows.
EmployeePages == "PaginatedResponseDto"
DepartmentPages == "PaginatedResponseDto"
AuditLogPages == "totalPages"
ShipmentPages == "PaginatedResult"
CarrierPages == "PaginatedResult"
UserPages == "PaginatedResult"
NotificationPages == "PaginatedResult"
AuditTrailPages == "PaginatedResult"
BookPages == "rows"
Api == {EmployeePages, DepartmentPages, AuditLogPages, ShipmentPages, CarrierPages,
        UserPages, NotificationPages, AuditTrailPages, BookPages}

Queries(api) == IF api = BookPages THEN {"rows"} ELSE {"rows", "total"}
Asking(api, page) ==
  [api |-> api, page |-> page, pending |-> Queries(api), rows |-> <<>>, total |-> 0]
NoWalk == [Asking("none", 0) EXCEPT !.pending = {}]

PagingTypeOK ==
  /\ rank \in [Entry -> Rank \cup {Unlisted}]
  /\ walk = NoWalk
       \/ walk \in [api : Api, page : 1..(Cardinality(Entry) \div Limit + 1),
                    pending : SUBSET {"rows", "total"}, rows : SeqOf(Entry, Limit),
                    total : 0..Cardinality(Entry)]
  /\ seen \in [Entry -> Nat]
  /\ stayed \subseteq Listed
  /\ came \in BOOLEAN /\ left \in BOOLEAN /\ tied \in BOOLEAN /\ torn \in BOOLEAN

Begun ==
  /\ seen' = [e \in Entry |-> 0]
  /\ stayed' = Listed
  /\ came' = FALSE /\ left' = FALSE /\ tied' = FALSE /\ torn' = FALSE

PagingInit ==
  /\ rank \in [Entry -> Rank \cup {Unlisted}]
  /\ walk = NoWalk
  /\ seen = [e \in Entry |-> 0]
  /\ stayed = Listed
  /\ came = FALSE /\ left = FALSE /\ tied = FALSE /\ torn = FALSE

Walking == walk # NoWalk

\* ?page=1.
FirstPage(api) ==
  /\ ~Walking
  /\ walk' = Asking(api, 1)
  /\ Begun
  /\ UNCHANGED rank

\* Variant: page 1 skips a page.
SkipAhead(page) == page * Limit

\* skip: (page - 1) * limit.
Skip(page) == (page - 1) * Limit

\* orderBy and sort name one column, here descending; rows with the same value come
\* in any order.  The query for the books names none: theirs come in any order.
Sorted == walk.api # BookPages
Orders ==
  {s \in SetToSeqs(Listed) :
     Sorted => \A i, j \in DOMAIN s : i < j => rank[s[i]] >= rank[s[j]]}
Ties == \E d, e \in Listed : d # e /\ (Sorted => rank[d] = rank[e])

\* findMany and find.
DbRows ==
  /\ "rows" \in walk.pending
  /\ \E s \in Orders :
       walk' = [walk EXCEPT !.pending = @ \ {"rows"}, !.rows =
         SubSeq(s, Skip(walk.page) + 1, Min({Skip(walk.page) + Limit, Len(s)}))]
  /\ tied' = (tied \/ Ties)
  /\ UNCHANGED <<rank, seen, stayed, came, left, torn>>

\* count and countDocuments.
DbTotal ==
  /\ "total" \in walk.pending
  /\ walk' = [walk EXCEPT !.pending = @ \ {"total"}, !.total = Cardinality(Listed)]
  /\ UNCHANGED <<rank, seen, stayed, came, left, tied, torn>>

\* One of the queries fails, and with it Promise.all: the page is asked for again.
FailPage ==
  /\ Walking
  /\ walk' = Asking(walk.api, walk.page)
  /\ UNCHANGED <<rank, seen, stayed, came, left, tied, torn>>

TotalPages == (walk.total + Limit - 1) \div Limit

\* hasNextPage, hasNext, and what a client makes of totalPages.
HasNext ==
  CASE walk.api = "PaginatedResponseDto" -> walk.page * Limit < walk.total
    [] walk.api = "PaginatedResult" -> walk.page < Max({TotalPages, 1})
    [] walk.api = AuditLogPages -> walk.page < TotalPages
    [] walk.api = BookPages -> Len(walk.rows) = Limit

\* Both answers are there: the client shows the page and asks for the next one.
AnswerPage ==
  /\ Walking /\ walk.pending = {}
  /\ seen' = [e \in Entry |-> seen[e] + Cardinality({i \in DOMAIN walk.rows : walk.rows[i] = e})]
  /\ walk' = IF HasNext THEN Asking(walk.api, walk.page + 1) ELSE NoWalk
  /\ UNCHANGED <<rank, stayed, came, left, tied, torn>>

\* The rows of a page are still to be read when its total is known.
Counted == walk.pending = {"rows"} /\ walk.pending # Queries(walk.api)

\* A row is created, deleted, or changed so that it matches the filter, no
\* longer does, or stands elsewhere in the list.
Change(e, k) ==
  /\ rank[e] # k
  /\ rank' = [rank EXCEPT ![e] = k]
  /\ came' = (came \/ k # Unlisted)
  /\ left' = (left \/ rank[e] # Unlisted)
  /\ torn' = (torn \/ (k # Unlisted /\ Counted))
  /\ stayed' = IF k = Unlisted THEN stayed \ {e} ELSE stayed
  /\ UNCHANGED <<walk, seen, tied>>

PagingNext ==
  \/ \E api \in Api : FirstPage(api)
  \/ DbRows \/ DbTotal \/ FailPage \/ AnswerPage
  \/ \E e \in Entry, k \in Rank \cup {Unlisted} : Change(e, k)

----------------------------------------------------------------------------
(* Properties *)

\* A client that has walked a list to its end was shown every row that was in it
\* all the time, unless some row left the list meanwhile, the query left the order
\* of two rows open, or a row entered just between the count and the rows of a
\* page, so that the walk ended a row early; and none of them twice, unless some
\* row entered or the order was left open.  New rows alone, which the lists ordered
\* by creation put in front, hide an old one in no other way.  For the books, which
\* are not sorted, this says something only while no page finds two of them.
WalkMissesNothing ==
  [][Walking /\ ~Walking' =>
       \A e \in stayed :
         /\ seen'[e] = 0 => left \/ tied \/ torn
         /\ seen'[e] > 1 => came \/ tied]_pagingVars
=============================================================================
