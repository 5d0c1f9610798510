\* Two executions that count the tickets before either has inserted its own.
SPECIFICATION Spec
CONSTANTS
  alice = alice
  viewer = viewer
  mallory = mallory
  orchard = orchard
  lab = lab
  Users = {alice}
  Projects = {orchard}
  UserTenant <- MCUserTenant
  ProjectTenant <- MCProjectTenant
  Memberships <- MCMemberships
  Tasks = {t1, t2}
  Workers = {w1, w2}
  Contents = {draft, other}
  Modes = {"none"}
  Faults = {}
  NoValue = NoValue
INVARIANT
  ErrorsReachFailed
CHECK_DEADLOCK FALSE
