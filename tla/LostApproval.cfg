\* A process that dies between the two commits of an approval that would pause.
SPECIFICATION Spec
CONSTANTS
  alice = alice
  viewer = viewer
  mallory = mallory
  orchard = orchard
  lab = lab
  Users = {alice}
  Projects = {orchard}
  UserTenant <- MCUserTenant
  ProjectTenant <- MCProjectTenant
  Memberships <- MCMemberships
  Tasks = {t1}
  Workers = {w1}
  Contents = {draft}
  Modes = {"pause_after_approval"}
  Faults = {"crash"}
  NoValue = NoValue
INVARIANT
  ApprovalIsResumable
CHECK_DEADLOCK FALSE
