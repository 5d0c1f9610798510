\* Two tasks, requests one after the other, every fault: what holds as long as
\* no two requests overlap.
SPECIFICATION Spec
CONSTANTS
  alice = alice
  viewer = viewer
  mallory = mallory
  orchard = orchard
  lab = lab
  Users = {alice}
  Projects = {orchard}
  UserTenant <- MCUserTenant
  ProjectTenant <- MCProjectTenant
  Memberships <- MCMemberships
  Tasks = {t1, t2}
  Workers = {w1}
  Contents = {draft}
  Modes = {"none", "timeout_after_success", "pause_after_approval"}
  Faults = {"error", "crash"}
  NoValue = NoValue
PROPERTY
  StatesFollowDiagram
\* Task ids run out and the server then waits for requests that never come.
CHECK_DEADLOCK FALSE
