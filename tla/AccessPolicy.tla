---------------------------- MODULE AccessPolicy ----------------------------
(***************************************************************************)
(* The membership checks of services/policy.py.                            *)
(*                                                                         *)
(* Users, projects and memberships are rows that only seeding writes: no   *)
(* request handler changes them, so they are constants of the model.  A    *)
(* request that names an unknown user or project, or that any check below  *)
(* refuses, ends with an error before it has written anything; the modules *)
(* that use these operators model it by leaving the action disabled.       *)
(***************************************************************************)
CONSTANTS
  Users,          \* the rows of users
  Projects,       \* the rows of projects
  UserTenant,     \* users.tenant_id
  ProjectTenant,  \* projects.tenant_id
  Memberships     \* the rows of project_memberships

Membership ==
  [user : Users, project : Projects,
   can_read : BOOLEAN, can_write : BOOLEAN, can_approve : BOOLEAN]

\* uq_membership: a user has at most one membership in a project.
ASSUME PolicyAssumption ==
  /\ DOMAIN UserTenant = Users
  /\ DOMAIN ProjectTenant = Projects
  /\ Memberships \subseteq Membership
  /\ \A m, n \in Memberships :
       m.user = n.user /\ m.project = n.project => m = n

\* get_user_and_project, get_membership: the row that gives u access to p,
\* looked up only inside one tenant.
MembershipsOf(u, p) ==
  {m \in Memberships : /\ m.user = u
                       /\ m.project = p
                       /\ UserTenant[u] = ProjectTenant[p]}

CanRead(u, p)    == \E m \in MembershipsOf(u, p) : m.can_read
CanWrite(u, p)   == \E m \in MembershipsOf(u, p) : m.can_read /\ m.can_write
CanApprove(u, p) == \E m \in MembershipsOf(u, p) : m.can_read /\ m.can_approve
=============================================================================
