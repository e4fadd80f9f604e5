------------------------------ MODULE Reports ------------------------------
(***************************************************************************)
(* The figures of the directory (Core Concepts): getStatistics of          *)
(* EmployeeService and of DepartmentService.  Every figure is a query of   *)
(* its own, sent together with the others and in no transaction, so that   *)
(* employees may come, go and change between two of them.  The average     *)
(* salary is one more such query, and is left out.                         *)
(*                                                                         *)
(* How a change comes about is Directory's; here it happens.               *)
(***************************************************************************)
EXTENDS Integers, FiniteSets

CONSTANTS
  Staff,      \* employee ids
  Section,    \* department ids
  ReportCall  \* requests

ASSUME FiniteAssumption == IsFiniteSet(Staff) /\ IsFiniteSet(Section)

VARIABLES
  staff,    \* the employees: their department and employmentStatus
  section,  \* the departments: isActive
  report    \* where a request is suspended

reportVars == <<staff, section, report>>

Nowhere == "no department"
Company == "company"
ASSUME PlaceAssumption == Company \notin Section /\ Nowhere \notin Section
NoStaff == [dept |-> Nowhere, status |-> "absent"]
StaffRow == [dept : Section \cup {Nowhere}, status : {"ACTIVE", "TERMINATED"}]
Figure == {"total", "active", "sections"}

\* left: the queries that are still out; touched: history, the rows that have
\* changed since the request began.
NoReport == [pc |-> "idle", of |-> Company, left |-> {},
             total |-> 0, active |-> 0, sections |-> 0, touched |-> {}]

ReportsTypeOK ==
  /\ staff \in [Staff -> StaffRow \cup {NoStaff}]
  /\ section \in [Section -> {"active", "inactive", "absent"}]
  /\ report \in [ReportCall ->
       [pc : {"idle", "finding", "counting", "answered"}, of : Section \cup {Company},
        left : SUBSET Figure, total : 0..Cardinality(Staff), active : 0..Cardinality(Staff),
        sections : 0..Cardinality(Section), touched : SUBSET (Staff \cup Section)]]

ReportsInit ==
  /\ staff = [e \in Staff |-> NoStaff]
  /\ section \in [Section -> {"active", "absent"}]
  /\ report = [c \in ReportCall |-> NoReport]

----------------------------------------------------------------------------
(* The queries *)

StaffOf(of) ==
  {e \in Staff : staff[e].status # "absent" /\ (of = Company \/ staff[e].dept = of)}
ActiveStaffOf(of) == {e \in StaffOf(of) : staff[e].status = "ACTIVE"}
ActiveSections == {d \in Section : section[d] = "active"}

AskReport(c, pc, of, left) ==
  /\ report[c] = NoReport
  /\ report' = [report EXCEPT ![c].pc = pc, ![c].of = of, ![c].left = left]
  /\ UNCHANGED <<staff, section>>

\* GET /employees/statistics.
AskCompany(c) == AskReport(c, "counting", Company, Figure)

\* GET /departments/:id/statistics: the department is looked up first.
AskSection(c) == \E d \in Section : AskReport(c, "finding", d, {"total", "active"})

DbFindSection(c) ==
  /\ report[c].pc = "finding"
  /\ report' = [report EXCEPT ![c] =
       IF section[@.of] = "absent" THEN NoReport ELSE [@ EXCEPT !.pc = "counting"]]
  /\ UNCHANGED <<staff, section>>

FigureIs(c, figure, value) ==
  /\ report[c].pc = "counting" /\ figure \in report[c].left
  /\ report' = [report EXCEPT ![c].left = @ \ {figure}, ![c][figure] = value,
       ![c].pc = IF report[c].left = {figure} THEN "answered" ELSE @]
  /\ UNCHANGED <<staff, section>>

DbCountAll(c) == FigureIs(c, "total", Cardinality(StaffOf(report[c].of)))

\* Variant: the filter by department is forgotten.
DbCountActiveAnywhere(c) == FigureIs(c, "active", Cardinality(ActiveStaffOf(Company)))

DbCountActive(c) == FigureIs(c, "active", Cardinality(ActiveStaffOf(report[c].of)))
DbCountSections(c) == FigureIs(c, "sections", Cardinality(ActiveSections))

\* The client has its answer, or a query fails and all are given up.
EndReport(c) ==
  /\ report[c] # NoReport
  /\ report' = [report EXCEPT ![c] = NoReport]
  /\ UNCHANGED <<staff, section>>

----------------------------------------------------------------------------
(* What happens meanwhile *)

Touch(rows) ==
  report' = [c \in ReportCall |->
    IF report[c] = NoReport THEN NoReport ELSE [report[c] EXCEPT !.touched = @ \cup rows]]

SetStaff(e, row) ==
  /\ staff' = [staff EXCEPT ![e] = row]
  /\ Touch({e})
  /\ UNCHANGED section

Places == {Nowhere} \cup {d \in Section : section[d] # "absent"}

\* create, of somebody in a department or none.
Hire(e) ==
  /\ staff[e] = NoStaff
  /\ \E row \in StaffRow : row.dept \in Places /\ SetStaff(e, row)

\* update, assignDepartment and removeDepartment.
Reassign(e) ==
  /\ staff[e] # NoStaff
  /\ \E row \in StaffRow \ {staff[e]} : row.dept \in Places /\ SetStaff(e, row)

Dismiss(e) == staff[e] # NoStaff /\ SetStaff(e, NoStaff)

SetSection(d, state) ==
  /\ section' = [section EXCEPT ![d] = state]
  /\ Touch({d})
  /\ UNCHANGED staff

AddSection(d) == section[d] = "absent" /\ SetSection(d, "active")

\* deactivate: findOne and update, each refused when the department is gone.
Deactivate(d) == section[d] # "absent" /\ SetSection(d, "inactive")

\* update may set isActive again.
Reactivate(d) == section[d] = "inactive" /\ SetSection(d, "active")

\* remove: when nobody was in it, but somebody may be by now (onDelete: SetNull).
CloseSection(d) ==
  /\ section[d] # "absent"
  /\ section' = [section EXCEPT ![d] = "absent"]
  /\ staff' = [e \in Staff |->
       IF e \in StaffOf(d) THEN [staff[e] EXCEPT !.dept = Nowhere] ELSE staff[e]]
  /\ Touch({d} \cup StaffOf(d))

ReportsNext ==
  \/ \E c \in ReportCall :
       \/ AskCompany(c) \/ AskSection(c) \/ DbFindSection(c)
       \/ DbCountAll(c) \/ DbCountActive(c) \/ DbCountSections(c) \/ EndReport(c)
  \/ \E e \in Staff : Hire(e) \/ Reassign(e) \/ Dismiss(e)
  \/ \E d \in Section : AddSection(d) \/ Deactivate(d) \/ Reactivate(d) \/ CloseSection(d)

----------------------------------------------------------------------------
(* Properties *)

\* n is the size of S, as far as the rows go that have not changed.
RightBut(n, S, touched) ==
  n \in Cardinality(S \ touched)..Cardinality(S \cup touched)

\* A report that has been answered is right, at whatever moments its queries
\* ran, for every row that has not changed since it was asked for; its
\* inactiveEmployees, a difference of two figures, is out by no more than the
\* employees that have changed, and negative only when some have.
ReportsAddUp ==
  \A c \in ReportCall :
    LET r == report[c]
        t == r.touched
        m == StaffOf(r.of)
        a == ActiveStaffOf(r.of)
    IN r.pc = "answered" =>
         /\ RightBut(r.total, m, t \cap Staff)
         /\ RightBut(r.active, a, t \cap Staff)
         /\ r.of = Company => RightBut(r.sections, ActiveSections, t \cap Section)
         /\ r.total - r.active \in
              (Cardinality((m \ a) \ t) - Cardinality(t \cap Staff))..
              (Cardinality((m \ a) \ t) + Cardinality(t \cap Staff))
=============================================================================
