SPECIFICATION MCSpec
CONSTANTS
  \* With JwtAuthGuard nothing gets past the guards: see MCGuards.cfg.
  AppGuard = FALSE
  User <- Users
  Department <- Departments
  Employee <- Employees
  Name = {"IT", "HR", "Finance"}
  Request = {r1, r2, r3}
  Call <- Calls
  SeedUser <- Rows
  SeedDepartment <- Departs
  SeedEmployee <- Profiles
  p1 = p1
  p2 = p2
  Person = {p1, p2}
  Admin <- MCAdmin
  Email = {m1, m2}
  Password = {s1, s2}
  AccountCall = {c1, c2}
  \* One symmetric set serves requests and listed rows.
  Entry = {r1, r2, r3}
  Rank = {1, 2, 3}
  Limit = 2
  Staff = {e1, e2}
  Section = {it}
  ReportCall = {q1}
SYMMETRY Requests
CHECK_DEADLOCK FALSE
INVARIANTS RowsConsistent AuditTellsTruth WasEntitled ReportsAddUp
PROPERTIES AuthorityAtWrite EmptyWhenDeleted WalkMissesNothing
