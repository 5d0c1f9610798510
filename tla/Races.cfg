\* One task, three requests in progress at a time, statements of creation that
\* may raise: every overlap of approve, reject and resume, in every mode, by
\* every seeded member, and what fair workers bring to an end.
SPECIFICATION FairSpec
CONSTANTS
  alice = alice
  viewer = viewer
  mallory = mallory
  orchard = orchard
  lab = lab
  Users = {alice, viewer, mallory}
  Projects = {orchard, lab}
  UserTenant <- MCUserTenant
  ProjectTenant <- MCProjectTenant
  Memberships <- MCMemberships
  Tasks = {t1}
  Workers = {w1, w2, w3}
  Contents = {draft}
  Modes = {"none", "timeout_after_success", "pause_after_approval"}
  Faults = {"error"}
  NoValue = NoValue
INVARIANTS
  TypeOK
  RejectionIsFinal
  StaleOriginsNeedResume
  QuietTasksAreSettled
  OnlyTheInsertIsRefused
PROPERTIES
  CreationEnds
  ApprovedTaskCompletes
  PausedTaskCompletes
\* Task ids run out and the server then waits for requests that never come.
CHECK_DEADLOCK FALSE
