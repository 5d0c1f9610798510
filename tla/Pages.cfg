\* One page and other clients, two requests in progress at a time, and a
\* connection that may break.
SPECIFICATION FairWeb
CONSTANTS
  alice = alice
  viewer = viewer
  mallory = mallory
  orchard = orchard
  lab = lab
  Users = {alice}
  Projects = {orchard}
  UserTenant <- MCUserTenant
  ProjectTenant <- MCProjectTenant
  Memberships <- MCMemberships
  Tasks = {t1}
  Workers = {w1, w2}
  Contents = {draft}
  Modes = {"none", "timeout_after_success", "pause_after_approval"}
  Faults = {"error"}
  NoValue = NoValue
  Pages = {p1}
  Clerk = alice
  MaxLost = 2
INVARIANTS
  WebTypeOK
  PageTellsTheTruth
  OwnPageIsCurrent
PROPERTIES
  ShownNeverGoesBack
  CompletionIsShown
\* Task ids run out.
CHECK_DEADLOCK FALSE
