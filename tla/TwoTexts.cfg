\* Two tasks with equal or different texts and two fair workers without faults:
\* races for the idempotency key and for the ticket number.
SPECIFICATION FairSpec
CONSTANTS
  alice = alice
  viewer = viewer
  mallory = mallory
  orchard = orchard
  lab = lab
  Users = {alice}
  Projects = {orchard}
  UserTenant <- MCUserTenant
  ProjectTenant <- MCProjectTenant
  Memberships <- MCMemberships
  Tasks = {t1, t2}
  Workers = {w1, w2}
  Contents = {draft, other}
  Modes = {"timeout_after_success"}
  Faults = {}
  NoValue = NoValue
INVARIANTS
  NoWriteBeforeApproval
  TicketsAreNumberedInOrder
PROPERTIES
  ImplementsTicketGate
  SomeExecutionCompletes
\* Task ids run out and the server then waits for requests that never come.
CHECK_DEADLOCK FALSE
