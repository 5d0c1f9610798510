\* A resume that overlaps the approve request it was loaded after.
SPECIFICATION Spec
CONSTANTS
  alice = alice
  viewer = viewer
  mallory = mallory
  orchard = orchard
  lab = lab
  Users = {alice}
  Projects = {orchard}
  UserTenant <- MCUserTenant
  ProjectTenant <- MCProjectTenant
  Memberships <- MCMemberships
  Tasks = {t1}
  Workers = {w1, w2}
  Contents = {draft}
  Modes = {"none"}
  Faults = {}
  NoValue = NoValue
PROPERTY
  CompletedIsFinal
CHECK_DEADLOCK FALSE
