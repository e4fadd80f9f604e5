---------------------------- MODULE MCDirectory ----------------------------
(* Core Concepts: the directory; accounts and tokens, with those of the     *)
(* three other programs that have them; lists read page by page, wherever   *)
(* there are any; statistics.  A behaviour exercises one of the four, whose *)
(* meeting points the modules have of their own: what happens to an account *)
(* or a row meanwhile.                                                      *)
EXTENDS Directory, Accounts, Paging, Reports, TLC

CONSTANTS p1, p2

VARIABLE part  \* what this behaviour exercises

MCAdmin == {p1}

Users == {"root", "lead"}
Departments == {"it", "hr", "new department"}
Employees == {"e1", "e2", "new employee"}

\* As prisma/seed.ts leaves it, one employee moved and one profile deleted.
Rows == [root |-> [role |-> "ADMIN", active |-> TRUE],
         lead |-> [role |-> "MANAGER", active |-> TRUE]]
Departs == ("it" :> "IT") @@ ("hr" :> "HR") @@ ("new department" :> None)
Profiles == ("e1" :> [user |-> "root", dept |-> "it", manager |-> None]) @@
            ("e2" :> [user |-> "lead", dept |-> None, manager |-> "e1"]) @@
            ("new employee" :> NoEmployee)

C(op, on, to) == [op |-> op, on |-> on, to |-> to]
Calls ==
  {C("createDepartment", None, "Finance"), C("updateDepartment", "it", "Finance"),
   C("deleteDepartment", "hr", None), C("deleteDepartment", "it", None),
   C("createEmployee", "lead", "hr"), C("updateEmployee", "e2", "hr"),
   C("assignDepartment", "e1", "hr"), C("removeDepartment", "e1", None),
   C("assignManager", "e1", "e2"), C("assignManager", "e2", "e2"),
   C("removeManager", "e2", None), C("deleteEmployee", "e2", None),
   C("updateUser", "lead", "EMPLOYEE"), C("deactivate", "root", None),
   C("activate", "root", None), C("deleteUser", "root", None), C("deleteUser", "lead", None)}

\* Of three requests, made in any order, one changes an account.
Third ==
  (\A r \in Request : req[r].pc # "new") => Cardinality({r \in Request : req[r].op \in OnUser}) = 1

MCInit ==
  /\ part \in {"directory", "accounts", "lists", "statistics"}
  /\ Init /\ AccountsInit /\ (part # "accounts" => service = "directory")
  /\ PagingInit /\ (part # "lists" => Listed = {})
  /\ ReportsInit /\ (part # "statistics" => section = [d \in Section |-> "absent"])
MCNext ==
  /\ part' = part
  /\ \/ part = "directory" /\ Next /\ Third' /\ UNCHANGED <<accountVars, pagingVars, reportVars>>
     \/ part = "accounts" /\ AccountsNext /\ UNCHANGED <<vars, pagingVars, reportVars>>
     \/ part = "lists" /\ PagingNext /\ UNCHANGED <<vars, accountVars, reportVars>>
     \/ part = "statistics" /\ ReportsNext /\ UNCHANGED <<vars, accountVars, pagingVars>>
MCSpec == MCInit /\ [][MCNext]_<<part, vars, accountVars, pagingVars, reportVars>>

Requests == Permutations(Request) \cup Permutations(AccountCall)
============================================================================
