---------------------------- MODULE TaskContract ----------------------------
(***************************************************************************)
(* The risk router (services/router.py), the contract it builds for a      *)
(* lane, and the tool policy that the gateway enforces from that contract. *)
(*                                                                         *)
(* A contract is a function of the task's lane, so a task row keeps its    *)
(* lane and the contract is computed from it.  Budgets and success         *)
(* criteria are left out: nothing in the code reads them back.             *)
(***************************************************************************)
TaskState ==
  {"RECEIVED", "CONTRACT_CREATED", "GATHERING", "VERIFYING",
   "PROPOSAL_READY", "APPROVAL_PENDING", "APPROVED", "EXECUTING",
   "RECONCILING", "CONFIRMING", "COMPLETED", "REJECTED", "FAILED"}

RiskLane == {"READ_FAST", "RESEARCH_VERIFIED", "ACTION_CONTROLLED"}

RequestedAction == {"none", "create_jira_ticket"}

JiraTool == "jira.create_ticket"

\* research: the goal contains one of the router's research terms.
ChooseLane(research, action) ==
  IF action # "none" THEN "ACTION_CONTROLLED"
  ELSE IF research THEN "RESEARCH_VERIFIED"
  ELSE "READ_FAST"

AllowedTools(lane) ==
  {"document.search", "document.read"}
    \cup (IF lane = "ACTION_CONTROLLED" THEN {JiraTool} ELSE {})

ApprovalPolicy(lane) ==
  IF lane = "ACTION_CONTROLLED" THEN "before_any_write" ELSE "none"

RequiredEvidence(lane) == lane # "READ_FAST"

ApprovedStates ==
  {"APPROVED", "EXECUTING", "RECONCILING", "CONFIRMING", "COMPLETED"}

\* enforce_tool_policy, for a task whose state in memory is `state`.
ToolPermitted(lane, state, tool) ==
  /\ tool \in AllowedTools(lane)
  /\ ApprovalPolicy(lane) = "before_any_write" => state \in ApprovedStates

\* verify_analysis, the check "write_policy_defined".
WritePolicyDefined(lane) ==
  IF lane = "ACTION_CONTROLLED"
    THEN ApprovalPolicy(lane) = "before_any_write"
    ELSE JiraTool \notin AllowedTools(lane)
=============================================================================
