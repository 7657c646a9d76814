------------------------------ MODULE GoalLoop ------------------------------
(***************************************************************************)
(* One run of the goal-driven-task-solving workflow (core/adaptive): the   *)
(* planner lists candidate routes, an attempt follows one of them, the     *)
(* verifier reports on it, and the controller ends the loop or chooses the *)
(* route of the next attempt.                                              *)
(*                                                                         *)
(* The controller changes the context, awaits the write of the attempt     *)
(* record, and awaits the append of the decision; each awaited call is an  *)
(* action of its own, any of them may fail or be the last the process      *)
(* does.  The workflow runtime counts a retry as an iteration.             *)
(*                                                                         *)
(* Abstracted: a verifier report is its verdict, the class FailureAnalyzer *)
(* finds in its text; texts, summaries and deliverables are left out.      *)
(***************************************************************************)
EXTENDS Integers, Sequences

CONSTANTS
  Plans,          \* plans GoalPlanner may return: [routes, max, cost, risk]
  MaxIterations,  \* of the workflow template
  None,           \* undefined
  Torn,           \* a file or line whose write stopped half way
  MaxFaults       \* bound on the awaited calls that fail

\* low, medium and high are 1, 2 and 3.
Levels == 1..3
RouteIds == UNION {{p.routes[i].id : i \in DOMAIN p.routes} : p \in Plans}

\* A verdict other than "pass" is the failure the report's text shows;
\* "absent" is a context without a report.
Failures == {"meta_only", "missing_content", "schema", "test", "scope", "unsafe", "unknown"}
Verdicts == {"pass", "absent"} \union Failures

ASSUME PlanAssumption ==
  /\ MaxIterations \in Nat /\ MaxFaults \in Nat
  /\ \A p \in Plans :
       /\ p.max \in Nat \ {0} /\ p.max <= MaxIterations
       /\ p.cost \in Levels /\ p.risk \in Levels
       /\ p.routes \in Seq([id : RouteIds, cost : Levels, risk : Levels])
       /\ p.routes # << >>
       /\ \A i, j \in DOMAIN p.routes : p.routes[i].id = p.routes[j].id => i = j
  /\ None \notin RouteIds

VARIABLES
  pc,         \* the awaited call, or how the run ended
  plan,       \* adaptiveState.goalPlan
  attempts,   \* adaptiveState.attempts
  decisions,  \* adaptiveState.decisions
  number,     \* adaptiveState.currentAttemptNumber
  route,      \* adaptiveState.currentRouteId
  verdict,    \* context.verification
  iteration,  \* context.iteration
  files,      \* attempts/attempt-NNN.json
  log,        \* attempts/decisions.jsonl
  faults

state == <<plan, attempts, decisions, number, route>>
vars == <<pc, state, verdict, iteration, files, log, faults>>

Init ==
  /\ pc = "plan" /\ plan = None /\ attempts = << >> /\ decisions = << >>
  /\ number = 0 /\ route = None /\ verdict = "absent" /\ iteration = 0
  /\ files = << >> /\ log = << >> /\ faults = 0

-----------------------------------------------------------------------------
(* The controller's decision.                                              *)

Level(id) == plan.routes[CHOOSE i \in DOMAIN plan.routes : plan.routes[i].id = id]
Attempted == {attempts[i].route : i \in DOMAIN attempts} \union {route}

\* FailureAnalyzer.analyze: the repair route it suggests, or why there is none.
Suggested == [meta_only |-> "add_missing_content", missing_content |-> "add_missing_content",
              schema |-> "schema_repair", test |-> "fix_test_failure",
              unknown |-> "retry_with_more_detail"]

Analysis ==
  CASE route \in {attempts[i].route : i \in DOMAIN attempts} -> "repeated_route"
    [] OTHER ->
       IF Level(route).cost = 3 THEN "high_cost"
       ELSE IF Level(route).risk = 3 THEN "high_risk"
       ELSE verdict

\* Faulty variant: a suggested route is taken though it was tried.
NextRouteSuggested(suggested) ==
  LET untried == {i \in DOMAIN plan.routes : plan.routes[i].id \notin Attempted} IN
    IF \E i \in DOMAIN plan.routes : plan.routes[i].id = suggested THEN suggested
    ELSE IF untried = {} THEN None
    ELSE plan.routes[CHOOSE i \in untried : \A j \in untried : i <= j].id

\* The suggested route when it is a candidate nobody tried, or the first that is.
NextRoute(suggested) ==
  LET untried == {i \in DOMAIN plan.routes : plan.routes[i].id \notin Attempted} IN
    IF untried = {} THEN None
    ELSE IF \E i \in untried : plan.routes[i].id = suggested THEN suggested
    ELSE plan.routes[CHOOSE i \in untried : \A j \in untried : i <= j].id

Ends(kind) == [kind |-> kind, route |-> route, number |-> number, next |-> None]

\* Faulty variant: the last attempt is stopped before its report is looked at.
DecisionLate ==
  IF number >= plan.max THEN Ends("stop")
  ELSE IF verdict = "pass" THEN Ends("success")
  ELSE IF Analysis \in {"scope", "unsafe", "high_cost", "high_risk"} THEN Ends("ask_human")
  ELSE LET next == NextRoute(Suggested[verdict]) IN
         IF next = None THEN Ends("stop") ELSE [Ends("retry") EXCEPT !.next = next]

\* decide(): the checks in their order.
Decision ==
  IF verdict = "pass" THEN Ends("success")
  ELSE IF number >= plan.max THEN Ends("stop")
  ELSE IF Level(route).cost > plan.cost \/ Level(route).risk > plan.risk THEN Ends("ask_human")
  ELSE IF Analysis \in {"scope", "unsafe", "high_cost", "high_risk"} THEN Ends("ask_human")
  ELSE IF Analysis \in {"repeated_route", "absent"} THEN Ends("stop")
  ELSE LET next == NextRoute(Suggested[Analysis]) IN
         IF next = None THEN Ends("stop")
         ELSE [Ends("retry") EXCEPT !.next = next]

-----------------------------------------------------------------------------
Fault == faults < MaxFaults /\ faults' = faults + 1

Plan ==
  /\ pc = "plan"
  /\ plan' \in Plans
  /\ pc' = "attempt"
  /\ UNCHANGED <<attempts, decisions, number, route, verdict, iteration, files, log, faults>>

\* Faulty variant: a retry keeps the number of the attempt it repairs.
AttemptUncounted ==
  /\ pc = "attempt"
  /\ number' = IF number = 0 THEN 1 ELSE number
  /\ route' = IF route = None THEN plan.routes[1].id ELSE route
  /\ pc' = "verify"
  /\ UNCHANGED <<plan, attempts, decisions, verdict, iteration, files, log, faults>>

\* The attempt follows currentRouteId, or the first route of the plan.
Attempt ==
  /\ pc = "attempt"
  /\ number' = Len(attempts) + 1
  /\ route' = IF route = None THEN plan.routes[1].id ELSE route
  /\ pc' = "verify"
  /\ UNCHANGED <<plan, attempts, decisions, verdict, iteration, files, log, faults>>

Verify ==
  /\ pc = "verify"
  /\ verdict' \in Verdicts \ {"absent"}
  /\ pc' = "decide"
  /\ UNCHANGED <<state, iteration, files, log, faults>>

\* The synchronous part of execute(): the context moves to the next route.
Decide ==
  /\ pc = "decide"
  /\ decisions' = Append(decisions, Decision)
  /\ attempts' = Append(attempts, [number |-> number, route |-> route, verdict |-> verdict])
  /\ route' = IF Decision.next = None THEN route ELSE Decision.next
  /\ pc' = "save"
  /\ UNCHANGED <<plan, number, verdict, iteration, files, log, faults>>

\* The record of the last attempt under its number, or half of it.
Written(content) ==
  LET own == attempts[Len(attempts)].number IN
    [n \in DOMAIN files \union {own} |-> IF n = own THEN content ELSE files[n]]

SaveAttempt ==
  /\ pc = "save"
  /\ files' = Written(attempts[Len(attempts)])
  /\ pc' = "append"
  /\ UNCHANGED <<state, verdict, iteration, log, faults>>

\* mkdir or writeFile fails: no record, or half of one.
SaveFails ==
  /\ pc = "save"
  /\ Fault
  /\ files' \in {files, Written(Torn)}
  /\ pc' = "failed"
  /\ UNCHANGED <<state, verdict, iteration, log>>

\* The decision is appended, and WorkflowRuntime follows the edge it names.
Continues ==
  /\ decisions[Len(decisions)].kind = "retry"
  /\ iteration' = iteration + 1
  /\ pc' = IF iteration + 1 >= MaxIterations THEN "maxIterations" ELSE "attempt"

AppendDecision ==
  /\ pc = "append"
  /\ log' = Append(log, decisions[Len(decisions)])
  /\ \/ Continues
     \/ /\ decisions[Len(decisions)].kind # "retry"
        /\ pc' = "ended" /\ UNCHANGED iteration
  /\ UNCHANGED <<state, verdict, files, faults>>

\* The append fails, or what the dispatcher writes after the controller does.
AppendFails ==
  /\ pc = "append"
  /\ Fault
  /\ log' \in {log, Append(log, Torn), Append(log, decisions[Len(decisions)])}
  /\ pc' = "failed"
  /\ UNCHANGED <<state, verdict, iteration, files>>

\* A node before the controller's throws, or a node's dispatch cannot be written:
\* the runtime ends the run.
NodeFails ==
  /\ pc \in {"plan", "attempt", "verify", "decide"}
  /\ Fault
  /\ pc' = "failed"
  /\ UNCHANGED <<state, verdict, iteration, files, log>>

Next ==
  \/ Plan \/ Attempt \/ Verify \/ Decide
  \/ SaveAttempt \/ SaveFails \/ AppendDecision \/ AppendFails
  \/ NodeFails

Spec == Init /\ [][Next]_vars
-----------------------------------------------------------------------------
(* Properties.                                                             *)

Stopped == {"ended", "maxIterations", "failed"}
Kinds == {"success", "retry", "stop", "ask_human"}
AttemptRecord == [number : Nat, route : RouteIds, verdict : Verdicts]
DecisionRecord == [kind : Kinds, route : RouteIds, number : Nat, next : RouteIds \union {None}]

TypeOK ==
  /\ pc \in Stopped \union {"plan", "attempt", "verify", "decide", "save", "append"}
  /\ plan \in Plans \union {None}
  /\ attempts \in Seq(AttemptRecord)
  /\ decisions \in Seq(DecisionRecord)
  /\ number \in Nat /\ iteration \in Nat /\ faults \in Nat
  /\ route \in RouteIds \/ (route = None /\ pc \in {"plan", "attempt", "failed"})
  /\ verdict \in Verdicts
  /\ DOMAIN files \subseteq Nat /\ \A n \in DOMAIN files : files[n] \in AttemptRecord \union {Torn}
  /\ log \in Seq(DecisionRecord \union {Torn})

\* "The controller selects the next safe untried route": no route is followed
\* twice, each attempt after the first follows the route the decision before it
\* named, and there are no more attempts than the plan allows.
UntriedRoutesOnly ==
  /\ \A i, j \in DOMAIN attempts : attempts[i].route = attempts[j].route => i = j
  /\ \A i \in DOMAIN attempts : i > 1 =>
       decisions[i - 1].kind = "retry" /\ decisions[i - 1].next = attempts[i].route
  /\ plan # None => Len(attempts) <= plan.max

\* A loop ends by a decision of the controller, for a reason the verifier or the
\* plan gives; the iteration limit of the workflow never ends it instead.
EndsByDecision ==
  /\ pc # "maxIterations"
  /\ pc = "ended" =>
       LET last == decisions[Len(decisions)] IN
         \/ last.kind = "success" /\ verdict = "pass"
         \/ last.kind = "ask_human" /\ verdict \in Failures
         \/ /\ last.kind = "stop" /\ verdict \in Failures
            /\ \/ Len(attempts) = plan.max
               \/ {attempts[i].route : i \in DOMAIN attempts}
                    = {plan.routes[i].id : i \in DOMAIN plan.routes}

\* The controller chooses every route and the end: no route twice, no attempt that no
\* decision named, and no end but by a decision for a reason of the verifier's or the
\* plan's.
RoutesAreChosen == UntriedRoutesOnly /\ EndsByDecision

\* What attempts/ holds is a prefix of what happened, whatever write failed: a
\* decision in the log has its attempt record, under its number, and only the
\* last of each may be missing or torn, after which the loop does not go on.
RecordsFollowAttempts ==
  /\ Len(log) <= Len(attempts) /\ Len(attempts) <= Len(log) + 1
  /\ DOMAIN log \subseteq DOMAIN files /\ DOMAIN files \subseteq DOMAIN attempts
  /\ \A i \in DOMAIN files : files[i] = attempts[i] \/ (files[i] = Torn /\ pc = "failed")
  /\ \A i \in DOMAIN log : log[i] = decisions[i] \/ (log[i] = Torn /\ pc = "failed")
  /\ \A i \in DOMAIN attempts : attempts[i].number = i /\ decisions[i].route = attempts[i].route
  /\ pc \in {"attempt", "verify", "decide"} => Len(log) = Len(attempts)
=============================================================================
