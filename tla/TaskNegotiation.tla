---------------------------- MODULE TaskNegotiation ----------------------------
(***************************************************************************)
(* From a task brief to a scope a person stands for: the negotiation       *)
(* (core/negotiation/TaskNegotiatorExecutor) proposes a scope, the answer  *)
(* or a caller confirms one (core/scope/ScopeConfirmationService), the     *)
(* gate lets the work go on.  The brief may be rewritten and negotiated    *)
(* again while a confirmation exists.                                      *)
(*                                                                         *)
(* Abstracted: a brief is the words its regular expressions look for, how  *)
(* much its current state says, and one word per constraint: "label" names *)
(* a module, "only" and "forbid" name a file, "quality" names nothing.     *)
(***************************************************************************)
EXTENDS Naturals, Sequences, SequencesExt

CONSTANTS
  Briefs,      \* [words, state, constraints, criteria]
  Rewrites,    \* bound: the fields a brief may be rewritten in
  NoScope

Constraints == {"label", "only", "forbid", "quality"}

\* NoScope is a value of its own, and a rewritten brief is a brief.
ASSUME ScopeAssumption ==
  /\ \A b \in Briefs : "constraints" \in DOMAIN b /\ b.constraints \in Seq(Constraints)
  /\ \A r \in Rewrites : "constraints" \in DOMAIN r => r.constraints \in Seq(Constraints)
  /\ NoScope \notin {"named", "kept", "kept_out", "rag", "docs"}

VARIABLES
  brief,          \* being worked on
  negotiation,    \* its TaskNegotiationResult, or NoScope
  confirmation,   \* a ScopeConfirmationRecord, or NoScope
  basis,          \* history: the negotiation that was confirmed
  gateResult         \* of the gate: [allowed, against], or NoScope

scopeVars == <<brief, negotiation, confirmation, basis, gateResult>>

DetectedType(words) ==
  LET first == SelectSeq(<<"rag", "fix", "rename", "doc">>, LAMBDA w : w \in words) IN
    IF first = <<>> THEN "unknown" ELSE Head(first)

\* Any constraint that names a file counts, one that forbids the file among them.
ModuleNamedBy == [only |-> "kept", forbid |-> "kept_out"]
TargetModule(b) ==
  LET naming == SelectInSeq(b.constraints, LAMBDA c : c \in DOMAIN ModuleNamedBy) IN
    CASE "label" \in ToSet(b.constraints) -> "named"
      [] "label" \notin ToSet(b.constraints) /\ naming # 0 -> ModuleNamedBy[b.constraints[naming]]
      [] OTHER -> IF DetectedType(b.words) = "rag" THEN "rag"
                  ELSE IF DetectedType(b.words) = "doc" THEN "docs" ELSE NoScope

\* Faulty variant: a task without a module is clear as long as it says the rest.
AmbiguitiesKnown(b) ==
  {why \in {"state", "criteria", "constraints", "measure"} :
     \/ why = "state" /\ b.state # "clear"
     \/ why = "criteria" /\ b.criteria = 0
     \/ why = "constraints" /\ b.constraints = <<>>
     \/ why = "measure" /\ "optimize" \in b.words /\ b.criteria < 2}

Ambiguities(b) ==
  {why \in {"module", "state", "unclear", "criteria", "constraints", "measure"} :
     \/ why = "module" /\ TargetModule(b) = NoScope
     \/ why = "state" /\ b.state = "thin"
     \/ why = "unclear" /\ b.state = "unclear"
     \/ why = "criteria" /\ b.criteria = 0
     \/ why = "constraints" /\ b.constraints = <<>>
     \/ why = "measure" /\ "optimize" \in b.words /\ b.criteria < 2}

Complexity(b) ==
  IF "large" \in b.words \/ Cardinality(Ambiguities(b)) >= 3 THEN "high"
  ELSE IF Ambiguities(b) # {} \/ "wide" \in b.words THEN "medium" ELSE "low"

NextStep(b) ==
  CASE "stop" \in b.words -> "stop"
    [] "stop" \notin b.words /\ Complexity(b) = "high" -> "split_task"
    [] OTHER -> IF Ambiguities(b) # {} THEN "ask_human" ELSE "proceed_to_feasibility"

\* The id is a hash of the task, its goal and its current state.
NegotiationOf(b) ==
  LET ready == NextStep(b) = "proceed_to_feasibility" IN
    [id |-> <<b.words, b.state>>, type |-> DetectedType(b.words), ready |-> ready,
     modules |-> {TargetModule(b)} \ {NoScope},
     files |-> IF "only" \in ToSet(b.constraints) THEN {"kept/x"} ELSE {},
     actions |-> {"inspect_project"} \union IF ready THEN {"evaluate_feasibility", "draft_plan"}
                                            ELSE {"ask_clarifying_questions", "draft_scope_proposal"}]

\* What may be confirmed: the scope as proposed, the one inferred from the answer to a
\* pending session, one with another action or another module.
Inferred == {"inspect_project", "evaluate_feasibility"}
ConfirmedScope(how, n) ==
  [modules |-> IF how = "moved" THEN {"billing"} ELSE n.modules,
   files |-> n.files,
   actions |-> CASE how = "proposed" -> n.actions
                 [] how = "widened" -> Inferred \union {"modify_files"}
                 [] OTHER -> Inferred,
   measured |-> how # "proposed"]   \* metricDefinition and ragConstraints

\* Faulty variant: the check of what was negotiated looks at modules only.
KeepsNegotiatedModules(scope, n, override) == override \/ scope.modules \subseteq n.modules

KeepsNegotiated(scope, n, override) ==
  \/ override
  \/ /\ scope.modules \subseteq n.modules
     /\ scope.actions \ {"evaluate_feasibility"} \subseteq n.actions
     /\ scope.files \subseteq n.files

-----------------------------------------------------------------------------
ScopeInit ==
  /\ brief \in Briefs
  /\ negotiation = NoScope /\ confirmation = NoScope /\ basis = NoScope /\ gateResult = NoScope

Negotiate ==
  /\ negotiation = NoScope
  /\ negotiation' = NegotiationOf(brief)
  /\ UNCHANGED <<brief, confirmation, basis, gateResult>>

\* createRecord throws when the scope was not negotiated, and for a task about retrieval
\* without a metric.
Confirm ==
  /\ negotiation # NoScope /\ confirmation = NoScope
  /\ \E how \in {"proposed", "inferred", "widened", "moved"}, override \in BOOLEAN, expires \in BOOLEAN,
       status \in {"confirmed", "needs_revision"} :
       LET scope == ConfirmedScope(how, negotiation) IN
         /\ KeepsNegotiated(scope, negotiation, override)
         /\ status = "confirmed" /\ negotiation.type = "rag" => scope.measured
         /\ confirmation' = [id |-> negotiation.id, how |-> how, status |-> status, scope |-> scope,
                             override |-> override, expires |-> expires, lapsed |-> FALSE]
  /\ basis' = negotiation
  /\ gateResult' = NoScope
  /\ UNCHANGED <<brief, negotiation>>

Expire ==
  /\ confirmation # NoScope /\ confirmation.expires /\ ~confirmation.lapsed
  /\ confirmation' = [confirmation EXCEPT !.lapsed = TRUE]
  /\ gateResult' = NoScope
  /\ UNCHANGED <<brief, negotiation, basis>>

\* The next run negotiates the rewritten brief.
Rewrite ==
  /\ confirmation # NoScope /\ negotiation = basis
  /\ \E r \in Rewrites : brief' = [f \in DOMAIN brief |-> IF f \in DOMAIN r THEN r[f] ELSE brief[f]]
  /\ negotiation' = NegotiationOf(brief')
  /\ gateResult' = NoScope
  /\ UNCHANGED <<confirmation, basis>>

\* Faulty variant: the confirmation may be of another negotiation.
GateAllowsAny(against) ==
  /\ confirmation # NoScope
  /\ confirmation.status = "confirmed" /\ ~confirmation.lapsed
  /\ confirmation.scope.modules # {}
  /\ "evaluate_feasibility" \in confirmation.scope.actions

\* Blocked actions and quality constraints are never empty, and execute_code is blocked.
GateAllows(against) ==
  /\ confirmation # NoScope
  /\ confirmation.status = "confirmed" /\ ~confirmation.lapsed
  /\ against # NoScope => against.id = confirmation.id
  /\ confirmation.scope.modules # {}
  /\ "evaluate_feasibility" \in confirmation.scope.actions

\* scope:gate and a resumed run show the gate the record alone.
EvaluateGate ==
  /\ negotiation # NoScope /\ gateResult = NoScope
  /\ \E against \in {NoScope, negotiation} : gateResult' = [allowed |-> GateAllows(against), against |-> against]
  /\ UNCHANGED <<brief, negotiation, confirmation, basis>>

ScopeNext == Negotiate \/ Confirm \/ Expire \/ Rewrite \/ EvaluateGate
ScopeSpec == ScopeInit /\ [][ScopeNext]_scopeVars
-----------------------------------------------------------------------------
(* Properties.                                                             *)

Passed == gateResult # NoScope /\ gateResult.allowed
Unspoilt == confirmation.status = "confirmed" /\ ~confirmation.lapsed

\* The gate, shown the confirmation alone, passes a scope confirmed as it was proposed
\* exactly when the negotiation was ready, and one inferred from an answer exactly when
\* the negotiation knew a module: no answer can make up for that.
GatePassesTheReady ==
  gateResult # NoScope /\ confirmation # NoScope /\ Unspoilt /\ gateResult.against = NoScope =>
    /\ confirmation.how = "proposed" => (gateResult.allowed <=> basis.ready)
    /\ confirmation.how = "inferred" => (gateResult.allowed <=> basis.modules # {})

\* Without a person's override a scope that passes has only what was negotiated; and the
\* negotiation shown to the gate names the same module, unless a constraint names one:
\* constraints are not part of a negotiation's id.
ScopeStaysNegotiated ==
  Passed /\ ~confirmation.override =>
    /\ confirmation.scope.actions \subseteq basis.actions \union {"evaluate_feasibility"}
    /\ confirmation.scope.modules \subseteq basis.modules
    /\ gateResult.against # NoScope =>
         \/ basis.modules = gateResult.against.modules
         \/ (basis.modules \union gateResult.against.modules) \ {"rag", "docs"} # {}
=============================================================================
