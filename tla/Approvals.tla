------------------------------- MODULE Approvals -------------------------------
(***************************************************************************)
(* The two chains of documents by which a person stands for what is done:  *)
(* the repair plan, its approvals and the dry run, and the negotiated      *)
(* scope, its confirmation and the gate.  They share no state.             *)
(***************************************************************************)
EXTENDS RepairPipeline, TaskNegotiation

\* Repair: what is materialized and dry-run is what was approved, and the three stages'
\* checks agree.  Scopes: what passes the gate was negotiated, and the gate passes what
\* the negotiation was ready for.
ApprovalsBind ==
  /\ ApprovalsBoundPlans /\ StagesAgree
  /\ GatePassesTheReady /\ ScopeStaysNegotiated
=============================================================================
