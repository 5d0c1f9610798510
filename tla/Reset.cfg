\* Two tasks, two requests in progress at a time and a reset at any moment: stale
\* counts, timeouts, new tickets, replays and reconciled ones on both sides of it.
SPECIFICATION SpecWithReset
CONSTANTS
  alice = alice
  viewer = viewer
  mallory = mallory
  orchard = orchard
  lab = lab
  Users = {alice}
  Projects = {orchard}
  UserTenant <- MCUserTenant
  ProjectTenant <- MCProjectTenant
  Memberships <- MCMemberships
  Tasks = {t1, t2}
  Workers = {w1, w2}
  Contents = {draft, other}
  Modes = {"none", "timeout_after_success"}
  Faults = {"error"}
  NoValue = NoValue
  MaxResets = 1
SYMMETRY FullSymmetry
INVARIANTS
  TicketsWereApproved
  LiveReceiptsAreTrue
PROPERTIES
  GapsComeFromOvertakenRequests
  UnconfirmedOnlyAfterReset
\* Task ids run out and the server then waits for requests that never come.
CHECK_DEADLOCK FALSE
