--------------------------- MODULE GoalLoop_proofs ---------------------------
(***************************************************************************)
(* Proofs about GoalLoop, for every set of plans and every number of       *)
(* faults: the types, the records of the attempts, and that no route is    *)
(* followed twice.                                                         *)
(***************************************************************************)
EXTENDS GoalLoop, NaturalOrder, SequenceTheorems, TLAPS

-----------------------------------------------------------------------------
(* The inductive invariant.                                                *)

Running == {"plan", "attempt", "verify", "decide"}

\* What the files and the log hold at each awaited call.
Recorded ==
  /\ Len(decisions) = Len(attempts)
  /\ plan \in Plans \/ (pc \in {"plan", "failed"} /\ attempts = << >>)
  /\ pc = "plan" => attempts = << >>
  /\ route = None => attempts = << >>
  /\ pc \in Running => Len(log) = Len(attempts) /\ DOMAIN files = 1..Len(attempts)
  /\ pc \in {"verify", "decide"} => number = Len(attempts) + 1
  /\ pc = "decide" => verdict # "absent"
  /\ pc \in {"save", "append"} => Len(attempts) = Len(log) + 1
  /\ pc = "save" => DOMAIN files = 1..Len(log)
  /\ pc = "append" => DOMAIN files = 1..Len(attempts)

\* The current route is untried, the last decision chose it, and the plan has an
\* attempt left for it.
Chosen ==
  /\ \A i \in DOMAIN attempts : attempts[i].route # route
  /\ attempts # << >> =>
       /\ decisions[Len(decisions)].kind = "retry"
       /\ decisions[Len(decisions)].next = route
  /\ Len(attempts) < plan.max

\* Chosen before every attempt, and while a retry is being recorded.
ChosenWhenNeeded ==
  /\ pc \in {"attempt", "verify", "decide"} => Chosen
  /\ pc \in {"save", "append"} => (decisions[Len(decisions)].kind = "retry" => Chosen)

IInv == TypeOK /\ Recorded /\ RecordsFollowAttempts /\ UntriedRoutesOnly /\ ChosenWhenNeeded

-----------------------------------------------------------------------------
(* The decision.                                                           *)

\* What the assumption says of a plan the loop follows.
LEMMA PlanFacts ==
  ASSUME NEW p \in Plans
  PROVE  /\ p.max \in Nat \ {0}
         /\ p.routes \in Seq([id : RouteIds, cost : Levels, risk : Levels])
         /\ p.routes # << >> /\ 1 \in DOMAIN p.routes
         /\ \A i \in DOMAIN p.routes : p.routes[i].id \in RouteIds
<1>1. /\ p.max \in Nat \ {0}
      /\ p.routes \in Seq([id : RouteIds, cost : Levels, risk : Levels])
      /\ p.routes # << >>
  BY PlanAssumption
<1>2. DOMAIN p.routes = 1..Len(p.routes) /\ Len(p.routes) \in Nat /\ Len(p.routes) # 0
  BY <1>1
<1>3. 1 \in DOMAIN p.routes
  BY <1>2
<1>4. ASSUME NEW i \in DOMAIN p.routes PROVE p.routes[i].id \in RouteIds
  <2>1. p.routes[i] \in [id : RouteIds, cost : Levels, risk : Levels]
    BY <1>1, <1>2, ElementOfSeq, Zenon
  <2> QED BY <2>1
<1> QED BY <1>1, <1>3, <1>4

\* A route NextRoute returns is a candidate that no attempt took.
LEMMA NextRouteUntried ==
  ASSUME plan \in Plans, NEW suggested
  PROVE  NextRoute(suggested) = None \/ NextRoute(suggested) \in RouteIds \ Attempted
<1> DEFINE untried == {i \in DOMAIN plan.routes : plan.routes[i].id \notin Attempted}
<1>1. CASE untried = {}
  BY <1>1 DEF NextRoute
<1>2. CASE untried # {} /\ \E i \in untried : plan.routes[i].id = suggested
  <2>1. NextRoute(suggested) = suggested
    BY <1>2 DEF NextRoute
  <2> QED BY <1>2, <2>1, PlanFacts
<1>3. CASE untried # {} /\ ~ \E i \in untried : plan.routes[i].id = suggested
  <2>1. untried \in SUBSET Nat
    BY PlanFacts
  <2>2. \E x \in untried : \A y \in untried : x <= y
    BY <1>3, <2>1, LeastNatural
  <2> DEFINE first == CHOOSE i \in untried : \A j \in untried : i <= j
  <2>3. first \in untried
    BY <2>2
  <2>4. NextRoute(suggested) = plan.routes[first].id
    BY <1>3 DEF NextRoute
  <2> QED BY <2>3, <2>4, PlanFacts
<1> QED BY <1>1, <1>2, <1>3

\* A decision is of one attempt, and a retry names an untried route while the
\* plan has attempts left.
LEMMA DecisionFacts ==
  ASSUME plan \in Plans, route \in RouteIds, number \in Nat, verdict \in Verdicts
  PROVE  /\ Decision \in DecisionRecord
         /\ Decision.route = route /\ Decision.number = number
         /\ \/ Decision.kind # "retry" /\ Decision.next = None
            \/ /\ Decision.kind = "retry"
               /\ Decision.next \in RouteIds \ Attempted
               /\ number < plan.max
<1> DEFINE next == NextRoute(Suggested[Analysis])
<1>1. \/ Decision \in {Ends("success"), Ends("stop"), Ends("ask_human")}
      \/ Decision = [Ends("retry") EXCEPT !.next = next] /\ next # None /\ ~(number >= plan.max)
  BY DEF Decision
<1>2. CASE Decision \in {Ends("success"), Ends("stop"), Ends("ask_human")}
  BY <1>2 DEF Ends, DecisionRecord, Kinds
<1>3. CASE Decision = [Ends("retry") EXCEPT !.next = next] /\ next # None /\ ~(number >= plan.max)
  <2>1. next \in RouteIds \ Attempted
    BY <1>3, NextRouteUntried
  <2>2. Decision = [kind |-> "retry", route |-> route, number |-> number, next |-> next]
    BY <1>3 DEF Ends
  <2>3. number < plan.max
    BY <1>3, PlanFacts
  <2> QED BY <2>1, <2>2, <2>3 DEF DecisionRecord, Kinds
<1> QED BY <1>1, <1>2, <1>3

-----------------------------------------------------------------------------
(* The steps.                                                              *)

\* What the lengths say of the sequences' domains.
LEMMA Lengths ==
  ASSUME TypeOK
  PROVE  /\ Len(attempts) \in Nat /\ DOMAIN attempts = 1..Len(attempts)
         /\ Len(decisions) \in Nat /\ DOMAIN decisions = 1..Len(decisions)
         /\ Len(log) \in Nat /\ DOMAIN log = 1..Len(log)
         /\ attempts = << >> <=> Len(attempts) = 0
  BY SMTT(30) DEF TypeOK

\* The last attempt and its decision, while they are being recorded.
LEMMA LastFacts ==
  ASSUME TypeOK, Recorded, RecordsFollowAttempts, pc \in {"save", "append"}
  PROVE  /\ Len(attempts) \in DOMAIN attempts /\ Len(decisions) = Len(attempts)
         /\ attempts[Len(attempts)] \in AttemptRecord
         /\ attempts[Len(attempts)].number = Len(attempts)
         /\ decisions[Len(decisions)] \in DecisionRecord
<1>1. Len(attempts) \in 1..Len(attempts) /\ Len(decisions) = Len(attempts)
  <2>1. Len(attempts) = Len(log) + 1 /\ Len(decisions) = Len(attempts)
    BY DEF Recorded
  <2>2. Len(log) \in Nat
    BY Lengths
  <2> QED BY <2>1, <2>2
<1>2. attempts[Len(attempts)] \in AttemptRecord /\ decisions[Len(decisions)] \in DecisionRecord
  BY <1>1, ElementOfSeq DEF TypeOK
<1> QED BY <1>1, <1>2, Lengths DEF RecordsFollowAttempts

\* A write of the last attempt touches no other file.
LEMMA WrittenFacts ==
  ASSUME TypeOK, Recorded, RecordsFollowAttempts, pc = "save", NEW content
  PROVE  /\ DOMAIN Written(content) = 1..Len(attempts)
         /\ Written(content)[Len(attempts)] = content
         /\ \A n \in 1..Len(log) : Written(content)[n] = files[n]
<1>1. attempts[Len(attempts)].number = Len(attempts) /\ Len(attempts) = Len(log) + 1
  BY LastFacts DEF Recorded
<1>2. Written(content) =
        [n \in DOMAIN files \union {Len(attempts)} |-> IF n = Len(attempts) THEN content ELSE files[n]]
  BY <1>1 DEF Written
<1>3. DOMAIN files \union {Len(attempts)} = 1..Len(attempts)
  <2>1. DOMAIN files = 1..Len(log) /\ Len(log) \in Nat
    BY Lengths DEF Recorded
  <2> QED BY <1>1, <2>1, SMTT(30)
<1> QED BY <1>1, <1>2, <1>3, Lengths

LEMMA WrittenTyping ==
  ASSUME TypeOK, Recorded, RecordsFollowAttempts, pc = "save", NEW content \in AttemptRecord \union {Torn}
  PROVE  /\ DOMAIN Written(content) \subseteq Nat
         /\ \A n \in DOMAIN Written(content) : Written(content)[n] \in AttemptRecord \union {Torn}
<1>1. /\ Len(log) \in Nat /\ Len(attempts) = Len(log) + 1
      /\ DOMAIN files = 1..Len(log) /\ DOMAIN Written(content) = 1..Len(attempts)
  BY Lengths, WrittenFacts DEF Recorded
<1>2. \A n \in DOMAIN Written(content) : n = Len(attempts) \/ n \in 1..Len(log)
  BY <1>1
<1>3. \A n \in 1..Len(log) : files[n] \in AttemptRecord \union {Torn}
  BY <1>1 DEF TypeOK
<1>4. \A n \in DOMAIN Written(content) : Written(content)[n] \in AttemptRecord \union {Torn}
  BY <1>2, <1>3, WrittenFacts
<1> QED BY <1>1, <1>4, SMTT(30)

\* The attempt and its decision, appended.
LEMMA DecideFacts ==
  ASSUME IInv, Decide
  PROVE  /\ plan \in Plans /\ route \in RouteIds /\ number = Len(attempts) + 1
         /\ attempts' \in Seq(AttemptRecord) /\ decisions' \in Seq(DecisionRecord)
         /\ Len(attempts') = Len(attempts) + 1 /\ Len(decisions') = Len(attempts) + 1
         /\ \A i \in DOMAIN attempts : attempts'[i] = attempts[i] /\ decisions'[i] = decisions[i]
         /\ attempts'[Len(attempts) + 1] = [number |-> number, route |-> route, verdict |-> verdict]
         /\ decisions'[Len(attempts) + 1] = Decision
<1>1. plan \in Plans /\ route \in RouteIds /\ number = Len(attempts) + 1 /\ Len(decisions) = Len(attempts)
  BY DEF IInv, Decide, TypeOK, Recorded
<1>2. number \in Nat /\ verdict \in Verdicts
  BY DEF IInv, TypeOK
<1>3. Decision \in DecisionRecord
  BY <1>1, <1>2, DecisionFacts
<1> DEFINE a == [number |-> number, route |-> route, verdict |-> verdict]
<1>4. a \in AttemptRecord
  BY <1>1, <1>2 DEF AttemptRecord
<1>5. attempts' = Append(attempts, a) /\ decisions' = Append(decisions, Decision)
  BY DEF Decide
<1>6. attempts \in Seq(AttemptRecord) /\ decisions \in Seq(DecisionRecord)
  BY DEF IInv, TypeOK
<1> HIDE DEF a
<1>7. /\ attempts' \in Seq(AttemptRecord)
      /\ Len(attempts') = Len(attempts) + 1
      /\ attempts'[Len(attempts) + 1] = a
      /\ \A i \in 1..Len(attempts) : attempts'[i] = attempts[i]
  BY <1>4, <1>5, <1>6, AppendProperties
<1>8. /\ decisions' \in Seq(DecisionRecord)
      /\ Len(decisions') = Len(decisions) + 1
      /\ decisions'[Len(decisions) + 1] = Decision
      /\ \A i \in 1..Len(decisions) : decisions'[i] = decisions[i]
  BY <1>3, <1>5, <1>6, AppendProperties
<1> QED BY <1>1, <1>7, <1>8, Lengths DEF IInv, a

\* The log grows by one entry.
LEMMA LogFacts ==
  ASSUME TypeOK, NEW e \in DecisionRecord \union {Torn}
  PROVE  /\ Append(log, e) \in Seq(DecisionRecord \union {Torn})
         /\ Len(Append(log, e)) = Len(log) + 1
         /\ Append(log, e)[Len(log) + 1] = e
         /\ \A i \in 1..Len(log) : Append(log, e)[i] = log[i]
<1>1. log \in Seq(DecisionRecord \union {Torn})
  BY DEF TypeOK
<1> QED BY <1>1, AppendProperties

-----------------------------------------------------------------------------
(* Every step keeps the types.                                             *)

LEMMA InitHolds == Init => IInv
<1> SUFFICES ASSUME Init PROVE IInv
  OBVIOUS
<1>1. TypeOK
  BY DEF Init, TypeOK, Verdicts
<1>2. Recorded /\ ChosenWhenNeeded
  BY DEF Init, Recorded, ChosenWhenNeeded, Running
<1>3. RecordsFollowAttempts
  BY DEF Init, RecordsFollowAttempts
<1>4. UntriedRoutesOnly
  BY PlanAssumption DEF Init, UntriedRoutesOnly
<1> QED BY <1>1, <1>2, <1>3, <1>4 DEF IInv

LEMMA TypingStep ==
  ASSUME IInv, [Next]_vars
  PROVE  TypeOK'
<1> USE DEF IInv
<1>0. MaxFaults \in Nat /\ (Fault => faults' \in Nat)
  BY PlanAssumption DEF TypeOK, Fault
<1>1. CASE Plan
  BY <1>1 DEF Plan, TypeOK
<1>2. CASE Attempt
  <2>1. Len(attempts) + 1 \in Nat
    BY Lengths
  <2>2. plan \in Plans
    BY <1>2 DEF Recorded, Attempt
  <2>3. route' \in RouteIds
    BY <1>2, <2>2, PlanFacts DEF Attempt, TypeOK
  <2> QED BY <1>2, <2>1, <2>3 DEF Attempt, TypeOK
<1>3. CASE Verify
  BY <1>3 DEF Verify, TypeOK, state
<1>4. CASE Decide
  <2>1. route' \in RouteIds
    BY <1>4, DecideFacts DEF Decide, DecisionRecord
  <2> QED BY <1>4, <2>1, DecideFacts DEF Decide, TypeOK
<1>5. CASE SaveAttempt
  <2>1. attempts[Len(attempts)] \in AttemptRecord
    BY <1>5, LastFacts DEF SaveAttempt
  <2>2. DOMAIN files' \subseteq Nat /\ \A n \in DOMAIN files' : files'[n] \in AttemptRecord \union {Torn}
    BY <1>5, <2>1, WrittenTyping DEF SaveAttempt
  <2> QED BY <1>5, <2>2 DEF SaveAttempt, TypeOK, state
<1>6. CASE SaveFails
  <2>2. DOMAIN files' \subseteq Nat /\ \A n \in DOMAIN files' : files'[n] \in AttemptRecord \union {Torn}
    BY <1>6, WrittenTyping DEF SaveFails, TypeOK
  <2> QED BY <1>0, <1>6, <2>2 DEF SaveFails, TypeOK, state, Stopped
<1>7. CASE AppendDecision
  <2>1. log' \in Seq(DecisionRecord \union {Torn})
    BY <1>7, LastFacts, LogFacts DEF AppendDecision
  <2>2. iteration' \in Nat /\ pc' \in Stopped \union {"attempt"}
    BY <1>7 DEF AppendDecision, Continues, TypeOK, Stopped
  <2> QED BY <1>7, <2>1, <2>2 DEF AppendDecision, TypeOK, state
<1>8. CASE AppendFails
  <2>1. log' \in Seq(DecisionRecord \union {Torn})
    BY <1>8, LastFacts, LogFacts DEF AppendFails, TypeOK
  <2> QED BY <1>0, <1>8, <2>1 DEF AppendFails, TypeOK, state, Stopped
<1>9. CASE NodeFails
  BY <1>0, <1>9 DEF NodeFails, TypeOK, state, Stopped
<1>10. CASE UNCHANGED vars
  BY <1>10 DEF vars, state, TypeOK
<1> QED BY <1>1, <1>2, <1>3, <1>4, <1>5, <1>6, <1>7, <1>8, <1>9, <1>10 DEF Next

-----------------------------------------------------------------------------
(* Every step keeps the records aligned.                                   *)

LEMMA RecordedStep ==
  ASSUME IInv, [Next]_vars
  PROVE  Recorded'
<1> USE DEF IInv
<1>1. CASE Plan
  BY <1>1 DEF Plan, Recorded, Running
<1>2. CASE Attempt
  <2>1. route' # None
    BY <1>2, PlanFacts, PlanAssumption DEF Attempt, Recorded
  <2> QED BY <1>2, <2>1 DEF Attempt, Recorded, Running
<1>3. CASE Verify
  BY <1>3 DEF Verify, Recorded, Running, state, Verdicts, Failures
<1>4. CASE Decide
  <2>1. route' # None
    BY <1>4, DecideFacts, PlanAssumption DEF Decide
  <2>2. Len(log) = Len(attempts) /\ DOMAIN files = 1..Len(attempts)
    BY <1>4 DEF Decide, Recorded, Running
  <2> QED BY <1>4, <2>1, <2>2, DecideFacts DEF Decide, Recorded, Running
<1>5. CASE SaveAttempt
  <2>1. DOMAIN files' = 1..Len(attempts)
    BY <1>5, WrittenFacts DEF SaveAttempt
  <2> QED BY <1>5, <2>1 DEF SaveAttempt, Recorded, Running, state
<1>6. CASE SaveFails
  BY <1>6 DEF SaveFails, Recorded, Running, state
<1>7. CASE AppendDecision
  <2>1. Len(log') = Len(log) + 1
    BY <1>7, LastFacts, LogFacts DEF AppendDecision
  <2>2. pc' \in {"attempt", "maxIterations", "ended"}
    BY <1>7 DEF AppendDecision, Continues
  <2> QED BY <1>7, <2>1, <2>2 DEF AppendDecision, Recorded, Running, state
<1>8. CASE AppendFails
  BY <1>8 DEF AppendFails, Recorded, Running, state
<1>9. CASE NodeFails
  BY <1>9 DEF NodeFails, Recorded, Running, state
<1>10. CASE UNCHANGED vars
  BY <1>10 DEF vars, state, Recorded
<1> QED BY <1>1, <1>2, <1>3, <1>4, <1>5, <1>6, <1>7, <1>8, <1>9, <1>10 DEF Next

LEMMA RecordsStep ==
  ASSUME IInv, [Next]_vars
  PROVE  RecordsFollowAttempts'
<1> USE DEF IInv
\* The steps that touch neither attempts nor what is on disk.
<1>1. ASSUME Plan \/ Attempt \/ Verify \/ NodeFails
      PROVE  RecordsFollowAttempts'
  <2>1. /\ UNCHANGED <<attempts, decisions, files, log>> /\ Len(log) = Len(attempts)
        /\ pc \in Running
    BY <1>1 DEF Plan, Attempt, Verify, NodeFails, state, Recorded, Running
  <2>2. pc # "failed"
    BY <2>1 DEF Running
  <2> QED BY <2>1, <2>2 DEF RecordsFollowAttempts
<1>2. CASE Decide
  <2>1. /\ UNCHANGED <<files, log>> /\ Len(log) = Len(attempts) /\ DOMAIN files = DOMAIN attempts
        /\ pc = "decide" /\ pc' = "save"
    BY <1>2, Lengths DEF Decide, Recorded, Running
  <2>2. DOMAIN attempts' = 1..(Len(attempts) + 1) /\ Len(attempts) \in Nat
    BY <1>2, Lengths, DecideFacts
  <2>3. DOMAIN log = DOMAIN attempts /\ DOMAIN attempts = 1..Len(attempts)
    BY <2>1, Lengths
  <2>4. ASSUME NEW i \in DOMAIN attempts'
        PROVE  attempts'[i].number = i /\ decisions'[i].route = attempts'[i].route
    <3>1. CASE i \in DOMAIN attempts
      BY <1>2, <3>1, DecideFacts DEF RecordsFollowAttempts
    <3>2. CASE i = Len(attempts) + 1
      <4>1. Decision.route = route
        BY <1>2, DecideFacts, DecisionFacts DEF TypeOK
      <4> QED BY <1>2, <3>2, <4>1, DecideFacts
    <3> QED BY <2>2, <2>3, <3>1, <3>2
  <2>5. \A i \in DOMAIN files : files'[i] = attempts'[i]
    BY <1>2, <2>1, DecideFacts DEF RecordsFollowAttempts
  <2>6. \A i \in DOMAIN log : log'[i] = decisions'[i]
    BY <1>2, <2>1, <2>3, DecideFacts DEF RecordsFollowAttempts
  <2>7. DOMAIN log' \subseteq DOMAIN files' /\ DOMAIN files' \subseteq DOMAIN attempts'
    BY <2>1, <2>2, <2>3
  <2>8. Len(log') <= Len(attempts') /\ Len(attempts') <= Len(log') + 1
    BY <1>2, <2>1, <2>2, DecideFacts
  <2> QED BY <2>1, <2>4, <2>5, <2>6, <2>7, <2>8 DEF RecordsFollowAttempts
<1>3. ASSUME pc = "save", NEW content, files' = Written(content), UNCHANGED <<attempts, decisions, log>>,
             \/ pc' = "append" /\ content = attempts[Len(attempts)]
             \/ pc' = "failed" /\ content = Torn
      PROVE  RecordsFollowAttempts'
  <2>1. /\ Len(log) \in Nat /\ Len(attempts) = Len(log) + 1 /\ DOMAIN files = 1..Len(log)
        /\ DOMAIN log = 1..Len(log) /\ DOMAIN attempts = 1..Len(attempts)
        /\ DOMAIN files' = 1..Len(attempts)
    BY <1>3, Lengths, WrittenFacts DEF Recorded
  <2>2. \A i \in 1..Len(log) : files'[i] = files[i] /\ files[i] = attempts[i] /\ log[i] = decisions[i]
    BY <1>3, <2>1, WrittenFacts DEF RecordsFollowAttempts
  <2>3. files'[Len(attempts)] = content
    BY <1>3, WrittenFacts
  <2>4. \A i \in DOMAIN files' : i \in 1..Len(log) \/ i = Len(attempts)
    BY <2>1
  <2>5. \A i \in DOMAIN files' : files'[i] = attempts'[i] \/ (files'[i] = Torn /\ pc' = "failed")
    BY <1>3, <2>2, <2>3, <2>4
  <2>6. DOMAIN log' \subseteq DOMAIN files' /\ DOMAIN files' \subseteq DOMAIN attempts'
    BY <1>3, <2>1
  <2>7. \A i \in DOMAIN attempts' : attempts'[i].number = i /\ decisions'[i].route = attempts'[i].route
    BY <1>3 DEF RecordsFollowAttempts
  <2>8. Len(log') <= Len(attempts') /\ Len(attempts') <= Len(log') + 1
    BY <1>3, <2>1
  <2>9. \A i \in DOMAIN log' : log'[i] = decisions'[i]
    BY <1>3, <2>1, <2>2
  <2> QED BY <1>3, <2>5, <2>6, <2>7, <2>8, <2>9, SMTT(30) DEF RecordsFollowAttempts
<1>4. ASSUME pc \in {"save", "append"}, UNCHANGED <<attempts, decisions, log, files>>, pc' = "failed"
      PROVE  RecordsFollowAttempts'
  BY <1>4 DEF RecordsFollowAttempts
<1>5. ASSUME pc = "append", NEW e \in DecisionRecord \union {Torn}, log' = Append(log, e),
             UNCHANGED <<attempts, decisions, files>>, pc' # "append",
             e = decisions[Len(decisions)] \/ (e = Torn /\ pc' = "failed")
      PROVE  RecordsFollowAttempts'
  <2>1. /\ Len(log) \in Nat /\ Len(attempts) = Len(log) + 1 /\ Len(decisions) = Len(attempts)
        /\ DOMAIN files = 1..Len(attempts) /\ DOMAIN log = 1..Len(log)
        /\ DOMAIN attempts = 1..Len(attempts)
    BY <1>5, Lengths DEF Recorded
  <2>2. /\ Len(log') = Len(log) + 1 /\ log'[Len(log) + 1] = e
        /\ \A i \in 1..Len(log) : log'[i] = log[i]
        /\ log' \in Seq(DecisionRecord \union {Torn})
    BY <1>5, LogFacts
  <2>3. DOMAIN log' = 1..(Len(log) + 1)
    BY <2>2
  <2>4. \A i \in DOMAIN log' : i \in DOMAIN log \/ i = Len(log) + 1
    BY <2>1, <2>3
  <2>5. \A i \in DOMAIN log : log[i] = decisions[i]
    BY <1>5 DEF RecordsFollowAttempts
  <2>6. \A i \in DOMAIN log' : log'[i] = decisions'[i] \/ (log'[i] = Torn /\ pc' = "failed")
    BY <1>5, <2>1, <2>2, <2>4, <2>5
  <2>7. \A i \in DOMAIN files' : files'[i] = attempts'[i]
    BY <1>5 DEF RecordsFollowAttempts
  <2>8. \A i \in DOMAIN attempts' : attempts'[i].number = i /\ decisions'[i].route = attempts'[i].route
    BY <1>5 DEF RecordsFollowAttempts
  <2>9. /\ Len(log') <= Len(attempts') /\ Len(attempts') <= Len(log') + 1 /\ Len(log') = Len(attempts')
        /\ DOMAIN log' \subseteq DOMAIN files' /\ DOMAIN files' \subseteq DOMAIN attempts'
    BY <1>5, <2>1, <2>2, <2>3
  <2> QED BY <2>6, <2>7, <2>8, <2>9, SMTT(30) DEF RecordsFollowAttempts
<1>6. CASE SaveAttempt
  BY <1>3, <1>6 DEF SaveAttempt, state
<1>7. CASE SaveFails
  BY <1>3, <1>4, <1>7 DEF SaveFails, state
<1>8. CASE AppendDecision
  BY <1>5, <1>8, LastFacts DEF AppendDecision, Continues, state
<1>9. CASE AppendFails
  BY <1>4, <1>5, <1>9, LastFacts DEF AppendFails, state
<1>10. CASE UNCHANGED vars
  BY <1>10 DEF vars, state, RecordsFollowAttempts
<1> QED BY <1>1, <1>2, <1>6, <1>7, <1>8, <1>9, <1>10 DEF Next

-----------------------------------------------------------------------------
(* Every step follows an untried route.                                    *)

LEMMA UntriedStep ==
  ASSUME IInv, [Next]_vars
  PROVE  UntriedRoutesOnly' /\ ChosenWhenNeeded'
<1> USE DEF IInv
<1>1. CASE Plan
  <2>1. attempts' = << >> /\ plan' \in Plans /\ pc' = "attempt" /\ UNCHANGED decisions
    BY <1>1 DEF Plan, Recorded
  <2>2. Len(attempts') = 0 /\ DOMAIN attempts' = {}
    BY <2>1
  <2>3. plan'.max \in Nat \ {0}
    BY <2>1, PlanFacts
  <2>4. UntriedRoutesOnly'
    BY <2>2, <2>3 DEF UntriedRoutesOnly
  <2>5. Chosen'
    BY <2>1, <2>2, <2>3 DEF Chosen
  <2> QED BY <2>1, <2>4, <2>5 DEF ChosenWhenNeeded
<1>2. CASE Attempt
  <2>1. Chosen /\ UNCHANGED <<attempts, decisions, plan>> /\ pc' = "verify"
    BY <1>2 DEF Attempt, ChosenWhenNeeded
  <2>2. CASE route = None
    <3>1. attempts = << >> /\ DOMAIN attempts = {}
      BY <2>2 DEF Recorded
    <3> QED BY <2>1, <3>1 DEF Chosen, ChosenWhenNeeded, UntriedRoutesOnly
  <2>3. CASE route # None
    BY <1>2, <2>1, <2>3 DEF Attempt, Chosen, ChosenWhenNeeded, UntriedRoutesOnly
  <2> QED BY <2>2, <2>3
<1>3. CASE Verify
  BY <1>3 DEF Verify, state, Chosen, ChosenWhenNeeded, UntriedRoutesOnly
<1>4. CASE Decide
  <2> DEFINE len == Len(attempts)
  <2>1. /\ Chosen /\ len \in Nat /\ DOMAIN attempts = 1..len /\ Len(decisions) = len
        /\ plan' = plan /\ plan.max \in Nat /\ pc' = "save"
    BY <1>4, Lengths, DecideFacts, PlanFacts DEF Decide, ChosenWhenNeeded, Recorded
  <2>2. DOMAIN attempts' = 1..(len + 1) /\ Len(attempts') = len + 1
    BY <1>4, <2>1, DecideFacts
  <2>3. /\ \A i \in 1..len : attempts'[i].route = attempts[i].route /\ attempts[i].route # route
        /\ attempts'[len + 1].route = route
    BY <1>4, <2>1, DecideFacts DEF Chosen
  <2>4. \A i, j \in 1..len : attempts[i].route = attempts[j].route => i = j
    BY <2>1 DEF UntriedRoutesOnly
  <2>5. \A i, j \in DOMAIN attempts' : attempts'[i].route = attempts'[j].route => i = j
    <3>1. \A i \in DOMAIN attempts' : i \in 1..len \/ i = len + 1
      BY <2>1, <2>2
    <3> QED BY <2>3, <2>4, <3>1
  <2>6. ASSUME NEW i \in DOMAIN attempts', i > 1
        PROVE  decisions'[i - 1].kind = "retry" /\ decisions'[i - 1].next = attempts'[i].route
    <3>1. i - 1 \in 1..len /\ decisions'[i - 1] = decisions[i - 1]
      BY <1>4, <2>1, <2>2, <2>6, DecideFacts
    <3>2. CASE i = len + 1
      <4>1. attempts # << >> /\ i - 1 = len
        BY <2>1, <3>1, <3>2, Lengths
      <4> QED BY <2>1, <2>3, <3>1, <3>2, <4>1 DEF Chosen
    <3>3. CASE i # len + 1
      <4>1. i \in 1..len
        BY <2>1, <2>2, <3>3
      <4>2. decisions[i - 1].kind = "retry" /\ decisions[i - 1].next = attempts[i].route
        BY <2>1, <2>6, <4>1 DEF UntriedRoutesOnly
      <4> QED BY <2>3, <3>1, <4>1, <4>2
    <3> QED BY <3>2, <3>3
  <2>7. Len(attempts') <= plan'.max
    BY <2>1, <2>2 DEF Chosen
  <2>8. UntriedRoutesOnly'
    BY <2>5, <2>6, <2>7 DEF UntriedRoutesOnly
  <2>9. ASSUME Decision.kind = "retry" PROVE Chosen'
    <3>1. Decision.next \in RouteIds \ Attempted /\ number < plan.max
      BY <1>4, <2>9, DecideFacts, DecisionFacts DEF TypeOK
    <3>2. route' = Decision.next /\ number = len + 1
      BY <1>4, <3>1, PlanAssumption, DecideFacts DEF Decide
    <3>3. \A i \in 1..(len + 1) : attempts'[i].route \in Attempted
      <4>1. \A i \in 1..(len + 1) : i \in 1..len \/ i = len + 1
        BY <2>1
      <4> QED BY <2>1, <2>3, <4>1 DEF Attempted
    <3>4. Len(decisions') = len + 1 /\ decisions'[len + 1] = Decision
      BY <1>4, DecideFacts
    <3> QED BY <2>1, <2>2, <2>9, <3>1, <3>2, <3>3, <3>4 DEF Chosen
  <2>10. Len(decisions') = len + 1 /\ decisions'[len + 1] = Decision
    BY <1>4, DecideFacts
  <2> QED BY <2>1, <2>8, <2>9, <2>10, SMTT(30) DEF ChosenWhenNeeded
<1>5. CASE SaveAttempt
  BY <1>5 DEF SaveAttempt, state, Chosen, ChosenWhenNeeded, UntriedRoutesOnly
<1>6. CASE SaveFails
  BY <1>6 DEF SaveFails, state, ChosenWhenNeeded, UntriedRoutesOnly
<1>7. CASE AppendDecision
  BY <1>7 DEF AppendDecision, Continues, state, Chosen, ChosenWhenNeeded, UntriedRoutesOnly
<1>8. CASE AppendFails
  BY <1>8 DEF AppendFails, state, ChosenWhenNeeded, UntriedRoutesOnly
<1>9. CASE NodeFails
  BY <1>9 DEF NodeFails, state, ChosenWhenNeeded, UntriedRoutesOnly
<1>10. CASE UNCHANGED vars
  BY <1>10 DEF vars, state, Chosen, ChosenWhenNeeded, UntriedRoutesOnly
<1> QED BY <1>1, <1>2, <1>3, <1>4, <1>5, <1>6, <1>7, <1>8, <1>9, <1>10 DEF Next

-----------------------------------------------------------------------------
(* The theorems.                                                           *)

LEMMA Invariance == Spec => []IInv
<1>1. IInv /\ [Next]_vars => IInv'
  BY TypingStep, RecordedStep, RecordsStep, UntriedStep DEF IInv
<1> QED BY InitHolds, <1>1, PTL DEF Spec

\* Every part of the loop's state keeps its type, for all plans.
THEOREM Typing == Spec => []TypeOK
<1>1. IInv => TypeOK
  BY DEF IInv
<1> QED BY <1>1, Invariance, PTL

\* Whatever write fails, the attempt files and the decision log are a prefix of
\* what the controller did (AttemptStore.saveAttemptWithDecision).
THEOREM Records == Spec => []RecordsFollowAttempts
<1>1. IInv => RecordsFollowAttempts
  BY DEF IInv
<1> QED BY <1>1, Invariance, PTL

\* The controller never follows a route twice, follows only the routes it chose,
\* and makes no more attempts than the plan allows (chooseNextRoute, decide).
THEOREM Untried == Spec => []UntriedRoutesOnly
<1>1. IInv => UntriedRoutesOnly
  BY DEF IInv
<1> QED BY <1>1, Invariance, PTL

-----------------------------------------------------------------------------
(* Why a loop ends.                                                        *)

PlanRoutes == {plan.routes[i].id : i \in DOMAIN plan.routes}
Followed == {attempts[i].route : i \in DOMAIN attempts}

\* Every route that was or will be followed is a candidate of the plan.
Planned ==
  /\ Followed \subseteq PlanRoutes
  /\ route # None => route \in PlanRoutes
  /\ pc = "plan" => route = None

\* The runtime has counted every retry, and nothing else.
Counted ==
  /\ pc \in Running => iteration = Len(attempts)
  /\ pc \in {"save", "append"} => iteration + 1 = Len(attempts)

\* What justifies a decision that ends the loop.
Reason(last) ==
  \/ last.kind = "success" /\ verdict = "pass"
  \/ last.kind = "ask_human" /\ verdict \in Failures
  \/ /\ last.kind = "stop" /\ verdict \in Failures
     /\ Len(attempts) = plan.max \/ Followed = PlanRoutes

Reasoned ==
  /\ pc \in {"save", "append"} =>
       decisions[Len(decisions)].kind = "retry" \/ Reason(decisions[Len(decisions)])
  /\ pc = "ended" => Reason(decisions[Len(decisions)])
  /\ pc # "maxIterations"

EInv == Planned /\ Counted /\ Reasoned

\* A route that is chosen is a candidate; none is left only when all were followed.
LEMMA NextRoutePlanned ==
  ASSUME plan \in Plans, NEW suggested
  PROVE  \/ NextRoute(suggested) \in PlanRoutes
         \/ NextRoute(suggested) = None /\ PlanRoutes \subseteq Attempted
<1> DEFINE untried == {i \in DOMAIN plan.routes : plan.routes[i].id \notin Attempted}
<1>1. CASE untried = {}
  BY <1>1 DEF NextRoute, PlanRoutes
<1>2. CASE untried # {} /\ \E i \in untried : plan.routes[i].id = suggested
  <2>1. NextRoute(suggested) = suggested
    BY <1>2 DEF NextRoute
  <2> QED BY <1>2, <2>1 DEF PlanRoutes
<1>3. CASE untried # {} /\ ~ \E i \in untried : plan.routes[i].id = suggested
  <2>1. untried \in SUBSET Nat
    BY PlanFacts
  <2>2. \E x \in untried : \A y \in untried : x <= y
    BY <1>3, <2>1, LeastNatural
  <2> DEFINE first == CHOOSE i \in untried : \A j \in untried : i <= j
  <2>3. first \in untried
    BY <2>2
  <2>4. NextRoute(suggested) = plan.routes[first].id
    BY <1>3 DEF NextRoute
  <2> QED BY <2>3, <2>4 DEF PlanRoutes
<1> QED BY <1>1, <1>2, <1>3

\* The decision on an attempt the plan allows, on a route that was not followed before.
LEMMA DecisionReasons ==
  ASSUME plan \in Plans, route \in PlanRoutes, verdict \in Verdicts \ {"absent"},
         Followed \subseteq PlanRoutes, route \notin Followed,
         number \in Nat, number <= plan.max
  PROVE  \/ Decision.kind = "retry" /\ Decision.next \in PlanRoutes
         \/ /\ Decision.next = None
            /\ \/ Decision.kind = "success" /\ verdict = "pass"
               \/ Decision.kind = "ask_human" /\ verdict \in Failures
               \/ /\ Decision.kind = "stop" /\ verdict \in Failures
                  /\ number = plan.max \/ Attempted = PlanRoutes
<1> DEFINE next == NextRoute(Suggested[Analysis])
<1>1. Analysis \notin {"repeated_route", "absent"}
  BY DEF Analysis, Followed, Verdicts, Failures
<1>2. verdict = "pass" \/ verdict \in Failures
  BY DEF Verdicts
<1>3. \/ verdict = "pass" /\ Decision = Ends("success")
      \/ verdict # "pass" /\ number >= plan.max /\ Decision = Ends("stop")
      \/ verdict # "pass" /\ Decision = Ends("ask_human")
      \/ verdict # "pass" /\ next = None /\ Decision = Ends("stop")
      \/ verdict # "pass" /\ next # None /\ Decision = [Ends("retry") EXCEPT !.next = next]
  BY <1>1 DEF Decision
<1>4. next \in PlanRoutes \/ (next = None /\ PlanRoutes \subseteq Attempted)
  BY NextRoutePlanned
<1>5. Attempted \subseteq PlanRoutes
  BY DEF Attempted, Followed
<1>6. CASE verdict = "pass" /\ Decision = Ends("success")
  BY <1>6 DEF Ends
<1>7. CASE verdict # "pass" /\ number >= plan.max /\ Decision = Ends("stop")
  <2>1. number = plan.max
    BY <1>7, PlanFacts
  <2> QED BY <1>2, <1>7, <2>1 DEF Ends
<1>8. CASE verdict # "pass" /\ Decision = Ends("ask_human")
  BY <1>2, <1>8 DEF Ends
<1>9. CASE verdict # "pass" /\ next = None /\ Decision = Ends("stop")
  <2>1. next \notin PlanRoutes
    BY <1>9, PlanFacts, PlanAssumption DEF PlanRoutes
  <2>2. Attempted = PlanRoutes
    BY <1>4, <1>5, <2>1
  <2> QED BY <1>2, <1>9, <2>2 DEF Ends
<1>10. CASE next # None /\ Decision = [Ends("retry") EXCEPT !.next = next]
  <2>1. Decision = [kind |-> "retry", route |-> route, number |-> number, next |-> next]
    BY <1>10 DEF Ends
  <2> HIDE DEF next
  <2> QED BY <1>4, <1>10, <2>1
<1> QED BY <1>3, <1>6, <1>7, <1>8, <1>9, <1>10

\* A step that leaves the controller's state alone, and goes on at most to the append.
LEMMA UnchangedEnd ==
  ASSUME EInv, UNCHANGED <<plan, attempts, decisions, number, route, verdict, iteration>>,
         pc' = pc \/ (pc = "save" /\ pc' = "append")
  PROVE  EInv'
<1>1. Planned'
  BY DEF EInv, Planned, Followed, PlanRoutes
<1>2. Counted'
  BY DEF EInv, Counted, Running
<1>3. Reason(decisions[Len(decisions)])' <=> Reason(decisions[Len(decisions)])
  BY DEF Reason, Followed, PlanRoutes
<1>4. Reasoned'
  BY <1>3 DEF EInv, Reasoned
<1> QED BY <1>1, <1>2, <1>4 DEF EInv

LEMMA EndingStep ==
  ASSUME IInv, EInv, [Next]_vars
  PROVE  EInv'
<1> USE DEF IInv, EInv
<1>1. CASE Plan
  <2>1. attempts' = << >> /\ route' = None /\ pc' = "attempt" /\ iteration' = iteration
    BY <1>1 DEF Plan, Recorded, Planned
  <2>2. iteration' = Len(attempts')
    BY <1>1, <2>1 DEF Plan, Counted, Running
  <2>3. Followed' = {}
    BY <2>1 DEF Followed
  <2> QED BY <2>1, <2>2, <2>3 DEF Planned, Counted, Reasoned
<1>2. CASE Attempt
  <2>1. plan \in Plans /\ UNCHANGED <<attempts, plan, iteration>> /\ pc' = "verify"
    BY <1>2 DEF Attempt, Recorded
  <2>2. route' \in PlanRoutes
    BY <1>2, <2>1, PlanFacts DEF Attempt, Planned, PlanRoutes
  <2>3. PlanRoutes' = PlanRoutes /\ Followed' = Followed
    BY <2>1 DEF PlanRoutes, Followed
  <2> QED BY <1>2, <2>1, <2>2, <2>3 DEF Attempt, Planned, Counted, Reasoned, Running
<1>3. CASE Verify
  BY <1>3 DEF Verify, state, Planned, Followed, PlanRoutes, Counted, Reasoned, Running
<1>4. CASE Decide
  <2> DEFINE len == Len(attempts)
  <2>1. /\ plan \in Plans /\ route \in RouteIds /\ number = len + 1 /\ len \in Nat
        /\ DOMAIN attempts = 1..len /\ plan' = plan /\ verdict' = verdict
        /\ iteration' = iteration /\ pc' = "save" /\ plan.max \in Nat
    BY <1>4, DecideFacts, Lengths, PlanFacts DEF Decide
  <2>2. Chosen /\ verdict \in Verdicts \ {"absent"}
    BY <1>4 DEF Decide, ChosenWhenNeeded, Recorded, TypeOK
  <2>3. route \in PlanRoutes /\ Followed \subseteq PlanRoutes /\ route \notin Followed
    BY <2>1, <2>2, PlanAssumption DEF Planned, Chosen, Followed
  <2>4. number \in Nat /\ number <= plan.max
    BY <2>1, <2>2 DEF Chosen
  <2>5. Len(attempts') = len + 1 /\ Len(decisions') = len + 1 /\ decisions'[len + 1] = Decision
    BY <1>4, DecideFacts
  <2>6. Followed' = Attempted
    <3>1. DOMAIN attempts' = 1..len + 1
      BY <1>4, DecideFacts
    <3>2. /\ \A i \in 1..len : attempts'[i].route = attempts[i].route
          /\ attempts'[len + 1].route = route
      <4>1. /\ \A i \in 1..len : attempts'[i] = attempts[i]
            /\ attempts'[len + 1] = [number |-> number, route |-> route, verdict |-> verdict]
        BY <1>4, <2>1, DecideFacts
      <4> HIDE DEF len
      <4> QED BY <4>1
    <3>3. \A i \in 1..len + 1 : i \in 1..len \/ i = len + 1
      BY <2>1
    <3>4. 1..len \subseteq 1..len + 1 /\ len + 1 \in 1..len + 1
      BY <2>1
    <3>5. Followed' = {attempts[i].route : i \in 1..len} \union {route}
      <4> HIDE DEF len
      <4> QED BY <3>1, <3>2, <3>3, <3>4 DEF Followed
    <3> QED BY <2>1, <3>5 DEF Attempted
  <2>7. PlanRoutes' = PlanRoutes /\ Attempted \subseteq PlanRoutes
    BY <2>1, <2>3 DEF PlanRoutes, Attempted, Followed
  <2>8. \/ Decision.kind = "retry" /\ Decision.next \in PlanRoutes
        \/ /\ Decision.next = None
           /\ \/ Decision.kind = "success" /\ verdict = "pass"
              \/ Decision.kind = "ask_human" /\ verdict \in Failures
              \/ /\ Decision.kind = "stop" /\ verdict \in Failures
                 /\ number = plan.max \/ Attempted = PlanRoutes
    BY <2>1, <2>2, <2>3, <2>4, DecisionReasons
  <2>9. Planned'
    <3>1. route' \in PlanRoutes
      BY <1>4, <2>3, <2>8 DEF Decide
    <3> QED BY <2>1, <2>6, <2>7, <3>1 DEF Planned
  <2>10. Counted'
    BY <1>4, <2>1, <2>5 DEF Decide, Counted, Running
  <2>11. Reasoned'
    BY <2>1, <2>5, <2>6, <2>7, <2>8 DEF Reasoned, Reason
  <2> QED BY <2>9, <2>10, <2>11
<1>5. CASE SaveAttempt
  <2>1. /\ UNCHANGED <<plan, attempts, decisions, number, route, verdict, iteration>>
        /\ pc = "save" /\ pc' = "append"
    BY <1>5 DEF SaveAttempt, state
  <2> QED BY <2>1, UnchangedEnd
<1>6. CASE SaveFails
  BY <1>6 DEF SaveFails, state, Planned, Followed, PlanRoutes, Counted, Reasoned, Running
<1>7. CASE AppendDecision
  <2> DEFINE last == decisions[Len(decisions)]
  <2>1. UNCHANGED <<attempts, decisions, plan, route, verdict>> /\ pc = "append"
    BY <1>7 DEF AppendDecision, state
  <2>2. Planned' /\ (Reason(last) <=> Reason(last)')
    <3>1. Followed' = Followed /\ PlanRoutes' = PlanRoutes
      BY <2>1 DEF Followed, PlanRoutes
    <3>2. pc' # "plan"
      BY <1>7 DEF AppendDecision, Continues
    <3> QED BY <2>1, <3>1, <3>2 DEF Planned, Reason
  <2>3. CASE last.kind # "retry" /\ pc' = "ended"
    BY <2>1, <2>2, <2>3 DEF Counted, Reasoned, Running
  <2>4. CASE last.kind = "retry" /\ Continues
    <3>1. Len(attempts) \in Nat /\ iteration + 1 = Len(attempts) /\ Chosen /\ plan \in Plans
      BY <2>1, <2>4, Lengths DEF Counted, ChosenWhenNeeded, Recorded
    <3>2. Len(attempts) < plan.max /\ plan.max <= MaxIterations /\ MaxIterations \in Nat
          /\ plan.max \in Nat
      BY <3>1, PlanFacts, PlanAssumption DEF Chosen
    <3>3. iteration' = Len(attempts) /\ pc' = "attempt"
      BY <2>4, <3>1, <3>2 DEF Continues
    <3> QED BY <2>1, <2>2, <3>3, SMTT(30) DEF Counted, Reasoned, Running
  <2> QED BY <1>7, <2>3, <2>4 DEF AppendDecision, Continues
<1>8. CASE AppendFails
  BY <1>8 DEF AppendFails, state, Planned, Followed, PlanRoutes, Counted, Reasoned, Running
<1>9. CASE NodeFails
  BY <1>9 DEF NodeFails, state, Planned, Followed, PlanRoutes, Counted, Reasoned, Running
<1>10. CASE UNCHANGED vars
  BY <1>10, UnchangedEnd DEF vars, state
<1> QED BY <1>1, <1>2, <1>3, <1>4, <1>5, <1>6, <1>7, <1>8, <1>9, <1>10 DEF Next

\* The controller chooses every route and the end of the loop: no route is followed
\* twice, and a loop ends only by a decision for which the verifier or the plan gives
\* the reason, never by the iteration limit of the workflow (decide, WorkflowRuntime.run).
THEOREM Chooses == Spec => []RoutesAreChosen
<1>1. Init => IInv /\ EInv
  <2> SUFFICES ASSUME Init PROVE EInv
    BY InitHolds
  <2>1. Followed = {}
    BY DEF Init, Followed
  <2> QED BY <2>1 DEF Init, EInv, Planned, Counted, Reasoned, Running
<1>2. IInv /\ EInv /\ [Next]_vars => (IInv /\ EInv)'
  BY TypingStep, RecordedStep, RecordsStep, UntriedStep, EndingStep DEF IInv
<1>3. IInv /\ EInv => RoutesAreChosen
  BY DEF IInv, EInv, Reasoned, Reason, Followed, PlanRoutes, RoutesAreChosen, EndsByDecision
<1> QED BY <1>1, <1>2, <1>3, PTL DEF Spec
=============================================================================
