\* Two tasks with one text and two requests in progress at a time, each of
\* which may die between any two of its statements.
SPECIFICATION Spec
CONSTANTS
  alice = alice
  viewer = viewer
  mallory = mallory
  orchard = orchard
  lab = lab
  Users = {alice}
  Projects = {orchard}
  UserTenant <- MCUserTenant
  ProjectTenant <- MCProjectTenant
  Memberships <- MCMemberships
  Tasks = {t1, t2}
  Workers = {w1, w2}
  Contents = {draft}
  Modes = {"none", "timeout_after_success"}
  Faults = {"crash"}
  NoValue = NoValue
SYMMETRY TaskAndWorkerSymmetry
INVARIANTS
  CompletedIsConfirmed
  OneOriginalReceipt
  AttemptsAreTruthful
  AuditExplainsEffects
PROPERTY
  OutcomesAreStable
\* Task ids run out and the server then waits for requests that never come.
CHECK_DEADLOCK FALSE
