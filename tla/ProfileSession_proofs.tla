------------------------ MODULE ProfileSession_proofs ------------------------
(***************************************************************************)
(* Proofs about ProfileSession, for every set of profiles, tasks, answers, *)
(* requests and processes and every number of faults: the types, that a    *)
(* session names a confirmation that is stored and remembered, that only   *)
(* a chain that ran completes, that project memory is explained, and that  *)
(* the two copies of a session agree.                                      *)
(***************************************************************************)
EXTENDS ProfileSession, NaturalOrder, SequenceTheorems, TLAPS

-----------------------------------------------------------------------------
(* The inductive invariant: what a process holds, and what the files hold  *)
(* for it.                                                                 *)

StepStatuses == {"passed", "stopped", "blocked", "skipped", "planned"}
Steering == {"gate", "step", "route"}
Pcs == {"idle", "session", "scope", "memory", "record", "current"} \cup Steering \cup Over
Memories == [type : {"tried_route", "rejected_route"}, of : Workflows]
            \cup [type : {"confirmed_scope", "decision", "next_action"}, of : Confirmations]

RunRecord ==
  [pc : Pcs, req : Requests \cup {None}, prof : Profiles \cup {None}, task : Tasks \cup {None},
   sess : Sessions \cup {None}, conf : Confirmations \cup {None}, steps : Seq(StepStatuses),
   todo : Seq(Memories), next : Steering \cup {"record", "done", None}]

Typed ==
  /\ active \in Profiles
  /\ record \in [Profiles \X Tasks -> Sessions \cup {None}]
  /\ current \in [Profiles -> Sessions \cup {None}]
  /\ scopes \subseteq Confirmations
  /\ memory \in [Profiles -> SUBSET Memories]
  /\ run \in [Runs -> RunRecord]
  /\ overlapped \in BOOLEAN
  /\ faults \in 0..MaxFaults /\ commands \in 0..MaxCommands

\* What the route memory of a run may tell.
RouteFacts(x) ==
  {MemoryOf("tried_route", Chain(x.prof)[i]) : i \in {j \in DOMAIN x.steps : Ran(x.steps, j)}}
  \cup {MemoryOf("rejected_route", Chain(x.prof)[i]) :
          i \in {j \in DOMAIN x.steps : x.steps[j] = "blocked"}}

\* The steps of a chain: those that ran, then at most one that was blocked and
\* those skipped with it; or all planned.
StepsOf(x) ==
  /\ Len(x.steps) <= Len(Chain(x.prof))
  /\ Len(x.steps) < Len(Chain(x.prof)) => \A i \in DOMAIN x.steps : Ran(x.steps, i)
  /\ \A i \in DOMAIN x.steps : (x.steps[i] = "planned") <=> x.req.dryRun
  /\ \A i \in Told(x.steps) : \A j \in 1..i - 1 : Ran(x.steps, j)
  /\ (\E i \in DOMAIN x.steps : x.steps[i] = "skipped") => HasBlocked(x.steps)

AllRan(x) ==
  /\ Len(x.steps) = Len(Chain(x.prof))
  /\ \A i \in DOMAIN x.steps : Ran(x.steps, i)

ToMemory(x, next) == x.pc = "memory" /\ x.next = next
Saving(x) == x.pc \in {"record", "current"}
AtEnd(x) == x.pc \in {"route", "done"} \/ ToMemory(x, "done") \/ (Saving(x) /\ x.next = "route")

ScopeTodo(c) ==
  {ScopeMemory(c), <<MemoryOf("decision", c), MemoryOf("next_action", c)>>,
   <<MemoryOf("next_action", c)>>}

\* What holds of a process by itself.
Local(x) ==
  /\ x.pc = "idle" <=> x.prof = None
  /\ x.pc = "idle" => x = Idle
  /\ x.pc # "idle" => x.req # None /\ StepsOf(x)
  /\ x.pc \in {"session", "scope"} => x.steps = << >> /\ x.req.answer # None
  /\ x.pc = "session" => x.sess = None /\ x.task = None
  /\ x.pc \notin {"idle", "session", "failed"} => x.task # None
  /\ x.sess # None => x.sess.task = x.task
  /\ x.pc = "scope" => x.sess # None /\ x.conf # None
  /\ Saving(x) => x.sess # None /\ x.next \in Steering
  /\ x.pc = "memory" => x.todo # << >> /\ x.next \in {"record", "done"}
  /\ ToMemory(x, "record") => x.sess # None /\ x.conf # None /\ x.todo \in ScopeTodo(x.conf)
  /\ ToMemory(x, "done") => x.todo \in Seq(RouteFacts(x))
  /\ AtEnd(x) => Len(x.steps) = Len(Chain(x.prof))
  /\ x.sess # None /\ x.sess.status = "completed" => AllRan(x)

Locals == \A r \in Runs : Local(run[r])

Backed(p, c) == c \in scopes /\ MemoryOf("confirmed_scope", c) \in memory[p]

\* A process names a confirmation in its session once it is stored and remembered.
HeldIsBacked ==
  \A r \in Runs :
    /\ run[r].sess # None => (run[r].sess.conf # None => Backed(run[r].prof, run[r].sess.conf))
    /\ ToMemory(run[r], "record") =>
         /\ run[r].conf \in scopes
         /\ run[r].todo # ScopeMemory(run[r].conf) => Backed(run[r].prof, run[r].conf)

\* Without an overlap one process is in flight, and the copy that differs from
\* its record is the one it is about to write.
OneInFlight == ~overlapped => \A r, s \in Runs : InFlight(r) /\ InFlight(s) => r = s

Copied ==
  faults = 0 /\ ~overlapped =>
    /\ \A r \in Runs : run[r].pc = "current" =>
         record[<<run[r].prof, run[r].sess.task>>] = run[r].sess
    /\ \A p \in Profiles : current[p] # None =>
         \/ record[<<p, current[p].task>>] = current[p]
         \/ \E r \in Runs : run[r].pc = "current" /\ run[r].prof = p

IInv ==
  /\ Typed /\ Locals
  /\ ConfirmedIsBacked /\ HeldIsBacked
  /\ CompletedRanChain /\ MemoryExplained
  /\ OneInFlight /\ Copied

-----------------------------------------------------------------------------
(* Numbers, chains and the route memory.                                   *)

\* Indices that leave out none before one of theirs are the first ones.
LEMMA FirstIndices ==
  ASSUME NEW n \in Nat, NEW T \in SUBSET (1..n),
         \A i \in T : \A j \in 1..i - 1 : j \in T
  PROVE  \E k \in Nat : T = 1..k
<1>1. CASE T = 1..n
  BY <1>1
<1>2. CASE T # 1..n
  <2> DEFINE out == {i \in 1..n : i \notin T}
  <2>1. out \in SUBSET Nat
    OBVIOUS
  <2>2. out # {}
    BY <1>2
  <2>3. PICK m \in out : \A y \in out : m <= y
    BY <2>1, <2>2, LeastNatural, Zenon
  <2>4. m \in 1..n /\ m \notin T /\ m - 1 \in Nat
    OBVIOUS
  <2>5. ASSUME NEW i \in T PROVE i \in 1..m - 1
    <3>1. i \in 1..n
      OBVIOUS
    <3>2. ~(m \in 1..i - 1)
      BY <2>4
    <3> QED BY <2>4, <3>1, <3>2
  <2>6. ASSUME NEW i \in 1..m - 1 PROVE i \in T
    <3>1. i \in 1..n /\ ~(m <= i)
      BY <2>4
    <3> QED BY <2>3, <3>1
  <2>7. T = 1..m - 1
    BY <2>5, <2>6
  <2> QED BY <2>4, <2>7
<1> QED BY <1>1, <1>2

\* The chain of a profile names workflows.
LEMMA ChainType ==
  ASSUME NEW p \in Profiles
  PROVE  Chain(p) \in Seq(Workflows)
<1>1. /\ Profile[p].first \in Workflows
      /\ Profile[p].scope # None => Profile[p].scope \in Workflows
      /\ Profile[p].followups \in Seq(Workflows)
  BY ProfileAssumption
<1>2. <<Profile[p].first>> \in Seq(Workflows)
  BY <1>1
<1>3. (IF Profile[p].scope = None THEN << >> ELSE <<Profile[p].scope>>) \in Seq(Workflows)
  BY <1>1
<1> QED BY <1>1, <1>2, <1>3 DEF Chain

\* None is not one of the values a process may hold.
LEMMA NoneFacts ==
  /\ \A p \in Profiles : p # None
  /\ \A t \in Tasks : t # None
  /\ \A a \in Answers : a # None
  /\ \A w \in Workflows : w # None
  /\ \A q \in Requests : q # None
  /\ \A c \in Confirmations : c # None
  /\ \A s \in Sessions : s # None
BY NoneAssumption

\* What a run may tell is what project memory can hold.
LEMMA RouteFactsType ==
  ASSUME NEW x \in RunRecord, x.prof # None, StepsOf(x)
  PROVE  RouteFacts(x) \subseteq Memories
<1>1. x.prof \in Profiles /\ x.steps \in Seq(StepStatuses)
  BY DEF RunRecord
<1>2. Chain(x.prof) \in Seq(Workflows)
  BY <1>1, ChainType
<1>3. Len(x.steps) \in Nat /\ DOMAIN x.steps = 1..Len(x.steps) /\ Len(Chain(x.prof)) \in Nat
  BY <1>1, <1>2
<1>4. ASSUME NEW i \in DOMAIN x.steps PROVE Chain(x.prof)[i] \in Workflows
  <2>1. i \in 1..Len(Chain(x.prof))
    BY <1>3 DEF StepsOf
  <2> QED BY <1>2, <2>1, ElementOfSeq, Zenon
<1> QED BY <1>4 DEF RouteFacts, Memories, MemoryOf

\* The route memory of a run is a sequence of what the run may tell, a record for a
\* workflow at most.
LEMMA RouteMemoryTells ==
  ASSUME NEW r \in Runs, run[r] \in RunRecord, StepsOf(run[r])
  PROVE  /\ RouteMemory(r) \in Seq(RouteFacts(run[r]))
         /\ Len(RouteMemory(r)) \in 0..Len(run[r].steps)
<1> DEFINE x == run[r]
<1>1. x.steps \in Seq(StepStatuses)
  BY DEF RunRecord
<1>2. Len(x.steps) \in Nat /\ DOMAIN x.steps = 1..Len(x.steps)
  BY <1>1
<1>3. Told(x.steps) \in SUBSET (1..Len(x.steps))
  BY <1>2 DEF Told
<1>4. \A i \in Told(x.steps) : \A j \in 1..i - 1 : j \in Told(x.steps)
  <2> SUFFICES ASSUME NEW i \in Told(x.steps), NEW j \in 1..i - 1 PROVE j \in Told(x.steps)
    OBVIOUS
  <2>1. Ran(x.steps, j)
    BY DEF StepsOf
  <2>2. j \in DOMAIN x.steps
    BY <1>2, <1>3
  <2> QED BY <2>1, <2>2 DEF Told
<1>5. PICK k \in Nat : Told(x.steps) = 1..k
  BY <1>2, <1>3, <1>4, FirstIndices
<1>6. ASSUME NEW i \in Told(x.steps)
      PROVE  MemoryOf(IF Ran(x.steps, i) THEN "tried_route" ELSE "rejected_route",
                      Chain(x.prof)[i]) \in RouteFacts(x)
  BY DEF Told, RouteFacts
<1>7. RouteMemory(r) \in [1..k -> RouteFacts(x)]
  BY <1>5, <1>6 DEF RouteMemory
<1>8. k \in 0..Len(x.steps)
  <2>1. k # 0 => k \in 1..Len(x.steps)
    BY <1>3, <1>5
  <2> QED BY <1>2, <2>1
<1> DEFINE told == RouteMemory(r)
<1> HIDE DEF x, told
<1>9. told \in Seq(RouteFacts(x)) /\ Len(told) = k
  BY <1>5, <1>7 DEF told
<1> QED BY <1>8, <1>9 DEF x, told

-----------------------------------------------------------------------------
(* What a step does to the process that takes it.                          *)

\* The steps of a run are told once: they only become more, until the chain ends.
Kept(x, y) ==
  /\ x.prof # None => y.prof = x.prof
  /\ x.task # None => y.task = x.task
  /\ DOMAIN x.steps \subseteq DOMAIN y.steps
  /\ \A i \in DOMAIN x.steps : y.steps[i] = x.steps[i]
  /\ x.prof # None /\ Len(x.steps) = Len(Chain(x.prof)) => y.steps = x.steps

Moves(x, y) == y \in RunRecord /\ Local(y) /\ Kept(x, y)

LEMMA IdleMoves ==
  Idle \in RunRecord /\ Local(Idle)
<1>1. Idle \in RunRecord
  BY DEF Idle, RunRecord, Pcs
<1>2. Local(Idle)
  BY DEF Idle, Local, Saving, ToMemory, AtEnd, Over, Steering
<1> QED BY <1>1, <1>2

\* A process at work has a profile and a chain.
LEMMA AtWork ==
  ASSUME NEW x \in RunRecord, Local(x), x.pc # "idle"
  PROVE  /\ x.prof \in Profiles /\ x.req \in Requests
         /\ x.steps \in Seq(StepStatuses)
         /\ Len(x.steps) \in Nat /\ DOMAIN x.steps = 1..Len(x.steps)
         /\ Chain(x.prof) \in Seq(Workflows) /\ Len(Chain(x.prof)) \in Nat
         /\ StepsOf(x)
<1>1. x.prof # None /\ x.req # None /\ StepsOf(x)
  BY DEF Local
<1>2. x.prof \in Profiles /\ x.req \in Requests /\ x.steps \in Seq(StepStatuses)
  BY <1>1 DEF RunRecord
<1>3. Chain(x.prof) \in Seq(Workflows)
  BY <1>2, ChainType
<1> QED BY <1>1, <1>2, <1>3

LEMMA StartMoves ==
  ASSUME NEW r \in Runs, Typed, Locals, Start(r)
  PROVE  \E y : Goes(r, y) /\ Moves(run[r], y)
<1> DEFINE x == run[r]
<1>1. x = Idle
  BY SMTT(30) DEF Locals, Local, Start
<1>2. PICK q \in Requests :
        LET p == ResolvedProfile(q)
            task == IF q.task # None THEN q.task ELSE Profile[p].input
            new == [Idle EXCEPT !.req = q, !.prof = p]
        IN Goes(r, IF q.answer # None THEN [new EXCEPT !.pc = "session"]
                   ELSE IF task = None THEN [new EXCEPT !.pc = "failed"]
                   ELSE [new EXCEPT !.pc = "gate", !.task = task])
  BY DEF Start
<1> DEFINE p == ResolvedProfile(q)
           task == IF q.task # None THEN q.task ELSE Profile[p].input
           new == [Idle EXCEPT !.req = q, !.prof = p]
           y == IF q.answer # None THEN [new EXCEPT !.pc = "session"]
                ELSE IF task = None THEN [new EXCEPT !.pc = "failed"]
                ELSE [new EXCEPT !.pc = "gate", !.task = task]
<1>3. p \in Profiles
  BY ProfileAssumption DEF ResolvedProfile, Switched, Typed
<1>4. task \in Tasks \cup {None}
  BY <1>3, ProfileAssumption
<1>5. Chain(p) \in Seq(Workflows) /\ Len(Chain(p)) \in Nat
  BY <1>3, ChainType
<1>6. p # None /\ q # None
  BY <1>3, NoneFacts
<1> HIDE DEF p, task
<1>7. y \in RunRecord
  BY <1>3, <1>4, IdleMoves, ZenonT(40) DEF RunRecord, Pcs, Steering, Over
<1>8. StepsOf(y) /\ y.steps = << >> /\ y.sess = None /\ y.prof = p /\ y.req = q
  BY <1>5 DEF StepsOf, Idle, Told, HasBlocked
<1>9. Local(y)
  BY <1>6, <1>8 DEF Local, Idle, Saving, ToMemory, AtEnd, Over, Steering
<1>10. Kept(x, y)
  BY <1>1, <1>8 DEF Kept, Idle
<1>11. Goes(r, y)
  BY <1>2 DEF p, task
<1> QED BY <1>7, <1>9, <1>10, <1>11 DEF Moves

LEMMA FailsMoves ==
  ASSUME NEW x \in RunRecord, Local(x), x.pc # "idle"
  PROVE  Moves(x, [x EXCEPT !.pc = "failed"])
<1> DEFINE y == [x EXCEPT !.pc = "failed"]
<1>1. y \in RunRecord
  BY SMTT(30) DEF RunRecord, Pcs, Over
<1>2. StepsOf(x) <=> StepsOf(y)
  BY DEF RunRecord, StepsOf
<1>3. AllRan(x) <=> AllRan(y)
  BY DEF RunRecord, AllRan
<1>4. Local(y)
  BY <1>2, <1>3 DEF RunRecord, Local, Saving, ToMemory, AtEnd
<1>5. Kept(x, y)
  BY DEF RunRecord, Kept
<1> QED BY <1>1, <1>4, <1>5 DEF Moves

\* Nothing that is told of a chain changes with the program counter.
LEMMA SameChain ==
  ASSUME NEW x \in RunRecord, NEW y \in RunRecord,
         y.prof = x.prof, y.req = x.req, y.steps = x.steps
  PROVE  /\ StepsOf(x) <=> StepsOf(y)
         /\ AllRan(x) <=> AllRan(y)
         /\ RouteFacts(x) = RouteFacts(y)
         /\ (x.task # None => y.task = x.task) => Kept(x, y)
BY DEF StepsOf, AllRan, RouteFacts, Kept

LEMMA ReadSessionMoves ==
  ASSUME NEW r \in Runs, Typed, Locals, ReadSession(r)
  PROVE  \E y : Goes(r, y) /\ Moves(run[r], y)
<1> DEFINE x == run[r]
           p == x.prof
           q == x.req
           found == IF q.session = None THEN current[p] ELSE record[q.session]
           y == [x EXCEPT !.pc = "scope", !.sess = found, !.task = found.task,
                          !.conf = ConfirmationOf(found.task, q.answer)]
<1>1. x \in RunRecord /\ Local(x) /\ x.pc = "session"
  BY DEF Typed, Locals, ReadSession
<1>2. CASE Fails(r)
  BY <1>1, <1>2, FailsMoves DEF Fails
<1>3. CASE Goes(r, y) /\ found # None /\ found.status = "pending_scope_confirmation"
  <2>1. p \in Profiles /\ q \in Requests /\ q.answer # None
    BY <1>1, AtWork, SMTT(30) DEF Local
  <2>2. found \in Sessions
    BY <1>3, <2>1, ProfileAssumption DEF Typed
  <2>3. ConfirmationOf(found.task, q.answer) \in Confirmations
    BY <2>1, <2>2, ProfileAssumption DEF ConfirmationOf, Confirmations, Sessions
  <2>4. found.task \in Tasks /\ found.task # None
    BY <2>2, NoneFacts DEF Sessions
  <2>5. ConfirmationOf(found.task, q.answer) # None
    BY <2>3, NoneFacts
  <2> HIDE DEF found
  <2>6. y \in RunRecord
    BY <1>1, <2>2, <2>3, <2>4 DEF RunRecord, Pcs
  <2>7. y.prof = x.prof /\ y.req = x.req /\ y.steps = x.steps
    BY <1>1 DEF RunRecord
  <2>8. StepsOf(x) <=> StepsOf(y)
    BY <1>1, <2>6, <2>7, SameChain
  <2>9. Local(y)
    BY <1>1, <1>3, <2>4, <2>5, <2>8 DEF RunRecord, Local, Saving, ToMemory, AtEnd
  <2>10. Kept(x, y)
    BY <1>1, <2>6, <2>7, SameChain DEF Local
  <2> QED BY <1>3, <2>6, <2>9, <2>10 DEF Moves
<1>4. Fails(r) \/ (Goes(r, y) /\ found # None /\ found.status = "pending_scope_confirmation")
  BY DEF ReadSession
<1> QED BY <1>2, <1>3, <1>4

\* The memory of a scope, one record after the other.
LEMMA ScopeTodoTail ==
  ASSUME NEW c \in Confirmations, NEW todo \in ScopeTodo(c), Tail(todo) # << >>
  PROVE  Tail(todo) \in ScopeTodo(c) /\ Tail(todo) # ScopeMemory(c)
<1> DEFINE m == MemoryOf("confirmed_scope", c)
           d == MemoryOf("decision", c)
           n == MemoryOf("next_action", c)
<1>1. ScopeTodo(c) = {<<m, d, n>>, <<d, n>>, <<n>>} /\ ScopeMemory(c) = <<m, d, n>>
  BY DEF ScopeTodo, ScopeMemory
<1> HIDE DEF m, d, n
<1>2. CASE todo = <<m, d, n>>
  <2>1. Tail(todo) = <<d, n>>
    BY <1>2
  <2>2. <<d, n>> # <<m, d, n>>
    BY SMT
  <2> QED BY <1>1, <2>1, <2>2
<1>3. CASE todo = <<d, n>>
  <2>1. Tail(todo) = <<n>>
    BY <1>3
  <2>2. <<n>> # <<m, d, n>>
    BY SMT
  <2> QED BY <1>1, <2>1, <2>2
<1>4. CASE todo = <<n>>
  BY <1>4
<1> QED BY <1>1, <1>2, <1>3, <1>4

LEMMA SaveScopeMoves ==
  ASSUME NEW r \in Runs, Typed, Locals, SaveScope(r)
  PROVE  \E y : Goes(r, y) /\ Moves(run[r], y)
<1> DEFINE x == run[r]
           y == [x EXCEPT !.pc = "memory", !.next = "record", !.todo = ScopeMemory(x.conf)]
<1>1. x \in RunRecord /\ Local(x) /\ x.pc = "scope" /\ Goes(r, y)
  BY DEF Typed, Locals, SaveScope
<1>2. x.conf \in Confirmations /\ x.sess # None
  BY <1>1 DEF Local, RunRecord
<1>3. ScopeMemory(x.conf) \in Seq(Memories) /\ ScopeMemory(x.conf) # << >>
  BY <1>2 DEF ScopeMemory, MemoryOf, Memories
<1>4. y \in RunRecord
  BY <1>1, <1>3 DEF RunRecord, Pcs
<1>5. y.prof = x.prof /\ y.req = x.req /\ y.steps = x.steps /\ y.task = x.task
  BY <1>1 DEF RunRecord
<1>6. (StepsOf(x) <=> StepsOf(y)) /\ (AllRan(x) <=> AllRan(y)) /\ Kept(x, y)
  BY <1>1, <1>4, <1>5, SameChain
<1>7. ScopeMemory(x.conf) \in ScopeTodo(x.conf)
  BY DEF ScopeTodo
<1>8. Local(y)
  BY <1>1, <1>2, <1>3, <1>6, <1>7, NoneFacts DEF RunRecord, Local, Saving, ToMemory, AtEnd
<1> QED BY <1>1, <1>4, <1>6, <1>8 DEF Moves

LEMMA SaveMemoryMoves ==
  ASSUME NEW r \in Runs, Typed, Locals, SaveMemory(r)
  PROVE  \E y : Goes(r, y) /\ Moves(run[r], y)
<1> DEFINE x == run[r]
           rest == Tail(x.todo)
           last == [x EXCEPT !.todo = rest, !.pc = x.next]
           saved == [last EXCEPT !.next = "gate", !.sess.status = "scope_confirmed",
                                 !.sess.conf = x.conf]
<1>1. x \in RunRecord /\ Local(x) /\ x.pc = "memory"
  BY DEF Typed, Locals, SaveMemory
<1>2. x.todo \in Seq(Memories) /\ x.todo # << >> /\ rest \in Seq(Memories)
  BY <1>1 DEF Local, RunRecord
<1>3. CASE Fails(r)
  BY <1>1, <1>3, FailsMoves DEF Fails
<1>4. CASE rest # << >> /\ Goes(r, [x EXCEPT !.todo = rest])
  <2> DEFINE y == [x EXCEPT !.todo = rest]
  <2>1. y \in RunRecord
    BY <1>1, <1>2 DEF RunRecord
  <2>2. y.prof = x.prof /\ y.req = x.req /\ y.steps = x.steps /\ y.task = x.task
    BY <1>1 DEF RunRecord
  <2>3. /\ (StepsOf(x) <=> StepsOf(y)) /\ (AllRan(x) <=> AllRan(y)) /\ Kept(x, y)
        /\ RouteFacts(x) = RouteFacts(y)
    BY <1>1, <2>1, <2>2, SameChain
  <2>4. ToMemory(x, "record") => rest \in ScopeTodo(x.conf)
    BY <1>1, <1>4, ScopeTodoTail DEF Local, RunRecord
  <2>5. ToMemory(x, "done") => rest \in Seq(RouteFacts(x))
    <3> SUFFICES ASSUME ToMemory(x, "done") PROVE rest \in Seq(RouteFacts(x))
      OBVIOUS
    <3>1. x.todo \in Seq(RouteFacts(x)) /\ x.todo # << >>
      BY <1>1, <1>2 DEF Local
    <3> QED BY <3>1, HeadTailProperties
  <2>6. Local(y)
    BY <1>1, <1>4, <2>3, <2>4, <2>5 DEF RunRecord, Local, Saving, ToMemory, AtEnd
  <2> QED BY <1>4, <2>1, <2>3, <2>6 DEF Moves
<1>5. CASE x.next = "done" /\ Goes(r, last)
  <2>1. last \in RunRecord
    BY <1>1, <1>2, <1>5 DEF RunRecord, Pcs, Over
  <2>2. last.prof = x.prof /\ last.req = x.req /\ last.steps = x.steps /\ last.task = x.task
    BY <1>1 DEF RunRecord
  <2>3. /\ (StepsOf(x) <=> StepsOf(last)) /\ (AllRan(x) <=> AllRan(last)) /\ Kept(x, last)
    BY <1>1, <2>1, <2>2, SameChain
  <2>4. Local(last)
    BY <1>1, <1>5, <2>3 DEF RunRecord, Local, Saving, ToMemory, AtEnd
  <2> QED BY <1>5, <2>1, <2>3, <2>4 DEF Moves
<1>6. CASE x.next # "done" /\ Goes(r, saved)
  <2>1. x.next = "record" /\ x.sess \in Sessions /\ x.conf \in Confirmations
    BY <1>1, <1>6 DEF Local, RunRecord, ToMemory
  <2> DEFINE sess == [x.sess EXCEPT !.status = "scope_confirmed", !.conf = x.conf]
             y == [x EXCEPT !.todo = rest, !.pc = "record", !.next = "gate", !.sess = sess]
  <2>2. sess \in Sessions /\ sess.task = x.sess.task /\ sess.status = "scope_confirmed"
    BY <2>1 DEF Sessions, Statuses
  <2>3. saved = y
    BY <1>1, <2>1 DEF RunRecord, Sessions
  <2> HIDE DEF sess, saved
  <2>4. y \in RunRecord
    BY <1>1, <1>2, <2>2 DEF RunRecord, Pcs, Steering
  <2>5. y.prof = x.prof /\ y.req = x.req /\ y.steps = x.steps /\ y.task = x.task
    BY <1>1 DEF RunRecord
  <2>6. /\ (StepsOf(x) <=> StepsOf(y)) /\ (AllRan(x) <=> AllRan(y)) /\ Kept(x, y)
    BY <1>1, <2>4, <2>5, SameChain
  <2>7. sess # None /\ x.task # None /\ sess.task = x.task
    BY <1>1, <2>1, <2>2, NoneFacts DEF Local
  <2>8. Local(y)
    BY <1>1, <2>2, <2>6, <2>7 DEF RunRecord, Local, Saving, ToMemory, AtEnd, Steering
  <2> QED BY <1>6, <2>3, <2>4, <2>6, <2>8 DEF Moves
<1>7. \/ Fails(r)
      \/ rest # << >> /\ Goes(r, [x EXCEPT !.todo = rest])
      \/ x.next = "done" /\ Goes(r, last)
      \/ x.next # "done" /\ Goes(r, saved)
  BY DEF SaveMemory
<1> QED BY <1>3, <1>4, <1>5, <1>6, <1>7

LEMMA WriteRecordMoves ==
  ASSUME NEW r \in Runs, Typed, Locals, WriteRecord(r)
  PROVE  \E y : Goes(r, y) /\ Moves(run[r], y)
<1> DEFINE x == run[r]
           y == [x EXCEPT !.pc = "current"]
<1>1. x \in RunRecord /\ Local(x) /\ x.pc = "record" /\ Goes(r, y)
  BY DEF Typed, Locals, WriteRecord
<1>2. y \in RunRecord
  BY <1>1 DEF RunRecord, Pcs
<1>3. y.prof = x.prof /\ y.req = x.req /\ y.steps = x.steps /\ y.task = x.task
  BY <1>1 DEF RunRecord
<1>4. (StepsOf(x) <=> StepsOf(y)) /\ (AllRan(x) <=> AllRan(y)) /\ Kept(x, y)
  BY <1>1, <1>2, <1>3, SameChain
<1>5. Local(y)
  BY <1>1, <1>4 DEF RunRecord, Local, Saving, ToMemory, AtEnd
<1> QED BY <1>1, <1>2, <1>4, <1>5 DEF Moves

LEMMA WriteCurrentMoves ==
  ASSUME NEW r \in Runs, Typed, Locals, WriteCurrent(r)
  PROVE  \E y : Goes(r, y) /\ Moves(run[r], y)
<1> DEFINE x == run[r]
           y == [x EXCEPT !.pc = x.next]
<1>1. x \in RunRecord /\ Local(x) /\ x.pc = "current" /\ Goes(r, y)
  BY DEF Typed, Locals, WriteCurrent
<1>2. x.next \in Steering
  BY <1>1 DEF Local, Saving
<1>3. y \in RunRecord
  BY <1>1, <1>2 DEF RunRecord, Pcs
<1>4. y.prof = x.prof /\ y.req = x.req /\ y.steps = x.steps /\ y.task = x.task
  BY <1>1 DEF RunRecord
<1>5. (StepsOf(x) <=> StepsOf(y)) /\ (AllRan(x) <=> AllRan(y)) /\ Kept(x, y)
  BY <1>1, <1>3, <1>4, SameChain
<1>6. Local(y)
  BY <1>1, <1>2, <1>5, SMTT(30) DEF RunRecord, Local, Saving, ToMemory, AtEnd, Steering
<1> QED BY <1>1, <1>3, <1>5, <1>6 DEF Moves

LEMMA GateMoves ==
  ASSUME NEW r \in Runs, Typed, Locals, Gate(r)
  PROVE  \E y : Goes(r, y) /\ Moves(run[r], y)
<1> DEFINE x == run[r]
<1>1. x \in RunRecord /\ Local(x) /\ x.pc = "gate"
  BY DEF Typed, Locals, Gate
<1>2. x.req.conf \in Confirmations \cup {None}
  BY <1>1, AtWork, ProfileAssumption
<1>3. CASE Fails(r)
  BY <1>1, <1>3, FailsMoves DEF Fails
<1>4. ASSUME NEW pc \in {"escalated", "step"}, NEW conf \in Confirmations \cup {None},
             Goes(r, [x EXCEPT !.pc = pc, !.conf = conf])
      PROVE  \E y : Goes(r, y) /\ Moves(run[r], y)
  <2> DEFINE y == [x EXCEPT !.pc = pc, !.conf = conf]
  <2>1. y \in RunRecord
    BY <1>1 DEF RunRecord, Pcs, Over, Steering
  <2>2. y.prof = x.prof /\ y.req = x.req /\ y.steps = x.steps /\ y.task = x.task
    BY <1>1 DEF RunRecord
  <2>3. (StepsOf(x) <=> StepsOf(y)) /\ (AllRan(x) <=> AllRan(y)) /\ Kept(x, y)
    BY <1>1, <2>1, <2>2, SameChain
  <2>4. Local(y)
    BY <1>1, <2>3 DEF RunRecord, Local, Saving, ToMemory, AtEnd
  <2> QED BY <1>4, <2>1, <2>3, <2>4 DEF Moves
<1>5. \A pc \in Pcs : [x EXCEPT !.pc = pc] = [x EXCEPT !.pc = pc, !.conf = x.conf]
  BY <1>1 DEF RunRecord
<1>6. x.conf \in Confirmations \cup {None}
  BY <1>1 DEF RunRecord
<1>7. "escalated" \in Pcs /\ "step" \in Pcs
  BY DEF Pcs, Over, Steering
<1>8. \/ Fails(r)
      \/ Goes(r, [x EXCEPT !.pc = "escalated"])
      \/ Goes(r, [x EXCEPT !.pc = "step"])
      \/ Goes(r, [x EXCEPT !.pc = "step", !.conf = x.req.conf])
  BY DEF Gate
<1> QED BY <1>2, <1>3, <1>4, <1>5, <1>6, <1>7, <1>8

\* The steps of a chain that is passed over from some workflow on.
LEMMA FillMoves ==
  ASSUME NEW r \in Runs, run[r] \in RunRecord, Local(run[r]), run[r].pc = "step",
         Len(run[r].steps) < Len(Chain(run[r].prof)),
         NEW first \in StepStatuses, NEW rest \in StepStatuses,
         IF run[r].req.dryRun THEN first = "planned" /\ rest = "planned"
                              ELSE first = "blocked" /\ rest = "skipped"
  PROVE  Moves(run[r], Fill(r, first, rest))
<1> DEFINE x == run[r]
           done == Len(x.steps)
           n == Len(Chain(x.prof))
           steps == [i \in 1..n |-> IF i <= done THEN x.steps[i]
                                    ELSE IF i = done + 1 THEN first ELSE rest]
           y == [x EXCEPT !.steps = steps]
<1>1. /\ x.steps \in Seq(StepStatuses) /\ done \in Nat /\ DOMAIN x.steps = 1..done
      /\ n \in Nat /\ done < n /\ StepsOf(x)
  BY AtWork
<1>2. \A i \in 1..done : x.steps[i] \in StepStatuses
  BY <1>1, ElementOfSeq
<1>3. \A i \in 1..done : Ran(x.steps, i)
  BY <1>1 DEF StepsOf
<1> HIDE DEF n
<1>4. steps \in Seq(StepStatuses) /\ Len(steps) = n /\ DOMAIN steps = 1..n
  BY <1>1, <1>2
<1>5. /\ \A i \in 1..done : steps[i] = x.steps[i]
      /\ steps[done + 1] = first
      /\ \A i \in 1..n : i > done + 1 => steps[i] = rest
  BY <1>1
<1>6. Fill(r, first, rest) = y
  BY DEF Fill, n, RunRecord
<1> HIDE DEF steps
<1>7. y \in RunRecord
  BY <1>4 DEF RunRecord
<1>8. y.steps = steps /\ y.prof = x.prof /\ y.req = x.req /\ y.task = x.task
      /\ y.pc = "step" /\ y.sess = x.sess
  BY DEF RunRecord
<1>9. done + 1 \in 1..n
  BY <1>1
<1>10. \A i \in 1..done : Ran(steps, i)
  BY <1>3, <1>5 DEF Ran
<1>11. \A i \in 1..n : i \in 1..done \/ i = done + 1 \/ i > done + 1
  BY <1>1
<1>12. \A i \in 1..n : steps[i] = "planned" <=> x.req.dryRun
  BY <1>1, <1>5, <1>11 DEF StepsOf
<1>13. \A i \in Told(steps) : i <= done + 1
  BY <1>1, <1>4, <1>5, <1>11 DEF Told, Ran
<1>14. \A i \in Told(steps) : \A j \in 1..i - 1 : Ran(steps, j)
  <2> SUFFICES ASSUME NEW i \in Told(steps), NEW j \in 1..i - 1 PROVE Ran(steps, j)
    OBVIOUS
  <2>1. i \in 1..n /\ i <= done + 1
    BY <1>4, <1>13 DEF Told
  <2>2. j \in 1..done
    BY <1>1, <2>1
  <2> QED BY <1>10, <2>2
<1>15. (\E i \in 1..n : steps[i] = "skipped") => HasBlocked(steps)
  BY <1>4, <1>5, <1>9, <1>10, <1>11 DEF HasBlocked, Ran
<1>16. StepsOf(y)
  BY <1>1, <1>4, <1>8, <1>12, <1>14, <1>15 DEF StepsOf, n
<1>17. ~AllRan(x)
  BY <1>1 DEF AllRan, n
<1>18. Local(y)
  BY <1>8, <1>16, <1>17 DEF RunRecord, Local, Saving, ToMemory, AtEnd
<1>19. Kept(x, y)
  BY <1>1, <1>4, <1>5, <1>8 DEF Kept, n
<1> QED BY <1>6, <1>7, <1>18, <1>19 DEF Moves

LEMMA PassOverMoves ==
  ASSUME NEW r \in Runs, Typed, Locals, PassOver(r)
  PROVE  \E y : Goes(r, y) /\ Moves(run[r], y)
<1>1. run[r] \in RunRecord /\ Local(run[r]) /\ run[r].pc = "step"
      /\ Len(run[r].steps) < Len(Chain(run[r].prof))
  BY DEF Typed, Locals, PassOver, More
<1>2. "planned" \in StepStatuses /\ "blocked" \in StepStatuses /\ "skipped" \in StepStatuses
  BY DEF StepStatuses
<1>3. CASE run[r].req.dryRun /\ Goes(r, Fill(r, "planned", "planned"))
  <2>1. Moves(run[r], Fill(r, "planned", "planned"))
    BY <1>1, <1>2, <1>3, FillMoves
  <2> QED BY <1>3, <2>1
<1>4. CASE ~run[r].req.dryRun /\ Goes(r, Fill(r, "blocked", "skipped"))
  <2>1. Moves(run[r], Fill(r, "blocked", "skipped"))
    BY <1>1, <1>2, <1>4, FillMoves
  <2> QED BY <1>4, <2>1
<1> QED BY <1>3, <1>4 DEF PassOver

LEMMA RunWorkflowMoves ==
  ASSUME NEW r \in Runs, Typed, Locals, RunWorkflow(r)
  PROVE  \E y : Goes(r, y) /\ Moves(run[r], y)
<1> DEFINE x == run[r]
           done == Len(x.steps)
           n == Len(Chain(x.prof))
<1>1. x \in RunRecord /\ Local(x) /\ x.pc = "step" /\ done < n /\ ~x.req.dryRun
  BY DEF Typed, Locals, RunWorkflow, More
<1>2. /\ x.steps \in Seq(StepStatuses) /\ done \in Nat /\ DOMAIN x.steps = 1..done
      /\ n \in Nat /\ StepsOf(x) /\ x.task \in Tasks /\ x.task # None
  BY <1>1, AtWork DEF Local, RunRecord
<1>3. PICK status \in {"passed", "stopped"} :
        Goes(r, IF LeavesSession(r, status)
                THEN [Noted(r, status) EXCEPT !.sess = PendingOf(x.task), !.pc = "record",
                                              !.next = "step"]
                ELSE Noted(r, status))
  BY DEF RunWorkflow
<1> DEFINE steps == Append(x.steps, status)
<1>4. status \in StepStatuses
  BY DEF StepStatuses
<1>5. /\ steps \in Seq(StepStatuses) /\ Len(steps) = done + 1 /\ DOMAIN steps = 1..done + 1
      /\ \A i \in 1..done : steps[i] = x.steps[i]
      /\ steps[done + 1] = status
  BY <1>2, <1>4, AppendProperties
<1>6. \A i \in 1..done : Ran(x.steps, i) /\ x.steps[i] # "skipped" /\ x.steps[i] # "planned"
  BY <1>1, <1>2 DEF StepsOf, Ran
<1>7. \A i \in 1..done + 1 : i \in 1..done \/ i = done + 1
  BY <1>2
<1> HIDE DEF steps, n
<1>8. \A i \in 1..done + 1 : Ran(steps, i) /\ steps[i] # "skipped" /\ steps[i] # "planned"
  BY <1>5, <1>6, <1>7 DEF Ran
<1>9. ASSUME NEW y \in RunRecord, y.prof = x.prof, y.req = x.req, y.steps = steps
      PROVE  StepsOf(y)
  <2>1. done + 1 <= n
    BY <1>1, <1>2
  <2>2. \A i \in Told(steps) : \A j \in 1..i - 1 : j \in 1..done + 1
    BY <1>2, <1>5 DEF Told
  <2> QED BY <1>1, <1>5, <1>8, <1>9, <2>1, <2>2 DEF StepsOf, n
<1>10. ASSUME NEW y \in RunRecord, y.prof = x.prof, y.task = x.task, y.steps = steps
       PROVE  Kept(x, y)
  <2>1. DOMAIN x.steps \subseteq DOMAIN steps
    BY <1>2, <1>5
  <2> QED BY <1>1, <1>2, <1>5, <1>10, <2>1 DEF Kept, n
<1>11. ~AllRan(x)
  BY <1>1, <1>2 DEF AllRan, n
<1>12. CASE Goes(r, Noted(r, status))
  <2> DEFINE y == [x EXCEPT !.steps = steps]
  <2>1. Noted(r, status) = y
    BY DEF Noted, steps
  <2>2. y \in RunRecord
    BY <1>1, <1>5 DEF RunRecord
  <2>3. y.prof = x.prof /\ y.req = x.req /\ y.task = x.task /\ y.steps = steps
    BY <1>1 DEF RunRecord
  <2>4. StepsOf(y) /\ Kept(x, y)
    BY <1>9, <1>10, <2>2, <2>3
  <2>5. Local(y)
    BY <1>1, <1>11, <2>4 DEF RunRecord, Local, Saving, ToMemory, AtEnd
  <2> QED BY <1>12, <2>1, <2>2, <2>4, <2>5 DEF Moves
<1>13. CASE Goes(r, [Noted(r, status) EXCEPT !.sess = PendingOf(x.task), !.pc = "record",
                                             !.next = "step"])
  <2> DEFINE sess == PendingOf(x.task)
             y == [x EXCEPT !.steps = steps, !.sess = sess, !.pc = "record", !.next = "step"]
  <2>1. sess \in Sessions /\ sess.task = x.task /\ sess.status # "completed"
    BY <1>2 DEF PendingOf, Sessions, Statuses
  <2>2. [Noted(r, status) EXCEPT !.sess = sess, !.pc = "record", !.next = "step"] = y
    BY DEF Noted, steps
  <2> HIDE DEF sess
  <2>3. y \in RunRecord
    BY <1>1, <1>5, <2>1 DEF RunRecord, Pcs, Steering
  <2>4. y.prof = x.prof /\ y.req = x.req /\ y.task = x.task /\ y.steps = steps
    BY <1>1 DEF RunRecord
  <2>5. StepsOf(y) /\ Kept(x, y)
    BY <1>9, <1>10, <2>3, <2>4
  <2>6. sess # None
    BY <2>1, NoneFacts
  <2>7. Local(y)
    BY <1>1, <1>2, <2>1, <2>5, <2>6 DEF RunRecord, Local, Saving, ToMemory, AtEnd, Steering
  <2> QED BY <1>13, <2>2, <2>3, <2>5, <2>7 DEF Moves, sess
<1> QED BY <1>3, <1>12, <1>13

\* A chain that is at its end and has nothing to be held against it ran.
LEMMA EndedRan ==
  ASSUME NEW x \in RunRecord, Local(x), x.pc # "idle",
         Len(x.steps) = Len(Chain(x.prof)), ~HasBlocked(x.steps),
         HasRun(x.steps) \/ ~x.req.dryRun
  PROVE  AllRan(x)
<1>1. /\ x.steps \in Seq(StepStatuses) /\ StepsOf(x)
      /\ DOMAIN x.steps = 1..Len(x.steps) /\ Len(x.steps) \in Nat
  BY AtWork
<1>2. ~x.req.dryRun
  BY <1>1 DEF StepsOf, HasRun, Ran
<1>3. ASSUME NEW i \in DOMAIN x.steps PROVE Ran(x.steps, i)
  <2>1. x.steps[i] \in StepStatuses
    BY <1>1, ElementOfSeq
  <2>2. x.steps[i] \notin {"planned", "skipped", "blocked"}
    BY <1>1, <1>2 DEF StepsOf, HasBlocked
  <2> QED BY <2>1, <2>2 DEF StepStatuses, Ran
<1> QED BY <1>3 DEF AllRan

LEMMA WriteRoutesMoves ==
  ASSUME NEW r \in Runs, run[r] \in RunRecord, Local(run[r]), run[r].pc \in {"step", "route"},
         Len(run[r].steps) = Len(Chain(run[r].prof)), WriteRoutes(r)
  PROVE  \E y : Goes(r, y) /\ Moves(run[r], y)
<1> DEFINE x == run[r]
           todo == RouteMemory(r)
<1>1. x.prof # None /\ StepsOf(x) /\ x.task # None
  BY DEF Local
<1>2. todo \in Seq(RouteFacts(x)) /\ RouteFacts(x) \subseteq Memories
  BY <1>1, RouteMemoryTells, RouteFactsType
<1>3. todo \in Seq(Memories)
  BY <1>2
<1> HIDE DEF todo
<1>4. CASE Goes(r, [x EXCEPT !.pc = "done"])
  <2> DEFINE y == [x EXCEPT !.pc = "done"]
  <2>1. y \in RunRecord
    BY DEF RunRecord, Pcs, Over
  <2>2. y.prof = x.prof /\ y.req = x.req /\ y.task = x.task /\ y.steps = x.steps
    BY DEF RunRecord
  <2>3. (StepsOf(x) <=> StepsOf(y)) /\ (AllRan(x) <=> AllRan(y)) /\ Kept(x, y)
    BY <2>1, <2>2, SameChain
  <2>4. Local(y)
    BY <1>1, <2>3 DEF RunRecord, Local, Saving, ToMemory, AtEnd
  <2> QED BY <1>4, <2>1, <2>3, <2>4 DEF Moves
<1>5. CASE todo # << >> /\ Goes(r, [x EXCEPT !.pc = "memory", !.next = "done", !.todo = todo])
  <2> DEFINE y == [x EXCEPT !.pc = "memory", !.next = "done", !.todo = todo]
  <2>1. y \in RunRecord
    BY <1>3 DEF RunRecord, Pcs
  <2>2. y.prof = x.prof /\ y.req = x.req /\ y.task = x.task /\ y.steps = x.steps
    BY DEF RunRecord
  <2>3. /\ (StepsOf(x) <=> StepsOf(y)) /\ (AllRan(x) <=> AllRan(y)) /\ Kept(x, y)
        /\ RouteFacts(x) = RouteFacts(y)
    BY <2>1, <2>2, SameChain
  <2>4. Local(y)
    BY <1>1, <1>2, <1>5, <2>3 DEF RunRecord, Local, Saving, ToMemory, AtEnd
  <2> QED BY <1>5, <2>1, <2>3, <2>4 DEF Moves
<1> QED BY <1>4, <1>5 DEF WriteRoutes, todo

LEMMA FinishMoves ==
  ASSUME NEW r \in Runs, Typed, Locals, Finish(r)
  PROVE  \E y : Goes(r, y) /\ Moves(run[r], y)
<1> DEFINE x == run[r]
<1>1. x \in RunRecord /\ Local(x) /\ x.pc = "step" /\ Len(x.steps) = Len(Chain(x.prof))
  BY DEF Typed, Locals, Finish
<1>2. CASE WriteRoutes(r)
  BY <1>1, <1>2, WriteRoutesMoves
<1>3. CASE Completes(r) /\ Goes(r, [x EXCEPT !.pc = "record", !.next = "route",
                                             !.sess.status = "completed"])
  <2> DEFINE sess == [x.sess EXCEPT !.status = "completed"]
             y == [x EXCEPT !.pc = "record", !.next = "route", !.sess = sess]
  <2>1. x.sess \in Sessions /\ x.sess.task = x.task /\ x.task # None
    BY <1>1, <1>3 DEF Completes, RunRecord, Local
  <2>2. sess \in Sessions /\ sess.task = x.task /\ sess # None
    BY <2>1, NoneFacts DEF Sessions, Statuses
  <2>3. AllRan(x)
    BY <1>1, <1>3, EndedRan DEF Completes
  <2> HIDE DEF sess
  <2>4. y \in RunRecord
    BY <1>1, <2>2 DEF RunRecord, Pcs, Steering
  <2>5. y.prof = x.prof /\ y.req = x.req /\ y.task = x.task /\ y.steps = x.steps
    BY <1>1 DEF RunRecord
  <2>6. (StepsOf(x) <=> StepsOf(y)) /\ (AllRan(x) <=> AllRan(y)) /\ Kept(x, y)
    BY <1>1, <2>4, <2>5, SameChain
  <2>7. Local(y)
    BY <1>1, <2>1, <2>2, <2>3, <2>6 DEF RunRecord, Local, Saving, ToMemory, AtEnd, Steering
  <2> QED BY <1>3, <2>4, <2>6, <2>7 DEF Moves, sess
<1> QED BY <1>2, <1>3 DEF Finish

LEMMA AfterFinishMoves ==
  ASSUME NEW r \in Runs, Typed, Locals, AfterFinish(r)
  PROVE  \E y : Goes(r, y) /\ Moves(run[r], y)
<1>1. run[r] \in RunRecord /\ Local(run[r]) /\ run[r].pc = "route" /\ WriteRoutes(r)
  BY DEF Typed, Locals, AfterFinish
<1>2. Len(run[r].steps) = Len(Chain(run[r].prof))
  BY <1>1 DEF Local, AtEnd
<1> QED BY <1>1, <1>2, WriteRoutesMoves

LEMMA StopMoves ==
  ASSUME NEW r \in Runs, Typed, Locals, Stop(r)
  PROVE  \E y : Goes(r, y) /\ Moves(run[r], y)
<1>1. run[r] \in RunRecord /\ Local(run[r]) /\ run[r].pc # "idle"
  BY DEF Typed, Locals, Stop, InFlight
<1>2. Moves(run[r], [run[r] EXCEPT !.pc = "failed"])
  BY <1>1, FailsMoves
<1> QED BY <1>2 DEF Stop, Fails

\* Every step of a process moves that process alone.
LEMMA ProcessMoves ==
  ASSUME NEW r \in Runs, Typed, Locals, Start(r) \/ Continue(r) \/ Stop(r)
  PROVE  \E y : Goes(r, y) /\ Moves(run[r], y)
BY StartMoves, ReadSessionMoves, SaveScopeMoves, SaveMemoryMoves, WriteRecordMoves,
   WriteCurrentMoves, GateMoves, PassOverMoves, RunWorkflowMoves, FinishMoves,
   AfterFinishMoves, StopMoves, Zenon DEF Continue

\* One process moves, or none does.
LEMMA ProcessStep ==
  ASSUME NEW r \in Runs, Typed, Locals, Start(r) \/ Continue(r) \/ Stop(r)
  PROVE  /\ \A s \in Runs : s # r => run'[s] = run[s]
         /\ run' \in [Runs -> RunRecord]
         /\ Moves(run[r], run'[r])
<1>1. PICK y : Goes(r, y) /\ Moves(run[r], y)
  BY ProcessMoves
<1>2. run \in [Runs -> RunRecord] /\ y \in RunRecord
  BY <1>1 DEF Typed, Moves
<1>3. run' = [run EXCEPT ![r] = y]
  BY <1>1 DEF Goes
<1>4. run'[r] = y
  BY <1>2, <1>3
<1> QED BY <1>1, <1>2, <1>3, <1>4

LEMMA RunsMove ==
  ASSUME Typed, Locals, [Next]_vars
  PROVE  /\ run' \in [Runs -> RunRecord]
         /\ \A s \in Runs : Local(run'[s]) /\ Kept(run[s], run'[s])
<1>1. ASSUME NEW x PROVE Kept(x, x)
  BY DEF Kept
<1>2. run \in [Runs -> RunRecord] /\ \A s \in Runs : Local(run[s])
  BY DEF Typed, Locals
<1>3. CASE run' = run
  BY <1>1, <1>2, <1>3
<1>4. ASSUME NEW r \in Runs, Start(r) \/ Continue(r) \/ Stop(r)
      PROVE  /\ run' \in [Runs -> RunRecord]
             /\ \A s \in Runs : Local(run'[s]) /\ Kept(run[s], run'[s])
  <2>1. /\ \A s \in Runs : s # r => run'[s] = run[s]
        /\ run' \in [Runs -> RunRecord]
        /\ Moves(run[r], run'[r])
    BY <1>4, ProcessStep
  <2> QED BY <1>1, <1>2, <2>1 DEF Moves
<1>5. CASE \E p \in Profiles : Compact(p) \/ UseProfile(p)
  <2>1. run' = run
    BY <1>5 DEF Compact, UseProfile
  <2> QED BY <1>3, <2>1
<1>6. CASE UNCHANGED vars
  BY <1>3, <1>6, SMTT(30) DEF vars
<1> QED BY <1>4, <1>5, <1>6 DEF Next

\* A process at work is in flight.
LEMMA ContinuesInFlight ==
  ASSUME NEW r \in Runs, Continue(r) \/ Stop(r)
  PROVE  InFlight(r)
BY DEF Continue, Stop, InFlight, Over, ReadSession, SaveScope, SaveMemory, WriteRecord,
       WriteCurrent, Gate, PassOver, RunWorkflow, More, Finish, AfterFinish

-----------------------------------------------------------------------------
(* The files.                                                              *)

LEMMA SavedMemory ==
  ASSUME NEW r \in Runs, Typed, Locals, run[r].pc = "memory"
  PROVE  Head(run[r].todo) \in Memories
<1>1. run[r].todo \in Seq(Memories) /\ run[r].todo # << >>
  BY DEF Typed, Locals, Local, RunRecord
<1> QED BY <1>1, HeadTailProperties

LEMMA SessionAtSave ==
  ASSUME NEW r \in Runs, Typed, Locals, Saving(run[r])
  PROVE  /\ run[r].sess \in Sessions /\ run[r].prof \in Profiles
         /\ run[r].sess.task \in Tasks /\ run[r].sess.task = run[r].task
<1>1. run[r] \in RunRecord /\ Local(run[r]) /\ run[r].pc # "idle"
  BY DEF Typed, Locals, Saving
<1>2. run[r].sess \in Sessions /\ run[r].prof \in Profiles
  BY <1>1, AtWork DEF Local, RunRecord
<1> QED BY <1>1, <1>2, NoneFacts DEF Local, Sessions

LEMMA TypedStep ==
  ASSUME Typed, Locals, [Next]_vars
  PROVE  Typed'
<1>1. run' \in [Runs -> RunRecord]
  BY RunsMove
<1>2. MaxFaults \in Nat /\ MaxCommands \in Nat
  BY ProfileAssumption
<1>3. CASE UNCHANGED vars
  BY <1>3 DEF vars, Typed
<1>4. ASSUME NEW p \in Profiles, Compact(p) \/ UseProfile(p) PROVE Typed'
  BY <1>1, <1>2, <1>4 DEF Compact, UseProfile, Command, Typed
<1>5. ASSUME NEW r \in Runs, Start(r) PROVE Typed'
  <2>1. overlapped' \in BOOLEAN
    BY <1>5 DEF Start, Typed
  <2> QED BY <1>1, <1>5, <2>1 DEF Start, Typed, files
<1>6. ASSUME NEW r \in Runs, SaveScope(r) PROVE Typed'
  <2>1. run[r].conf \in Confirmations
    BY <1>6 DEF SaveScope, Typed, Locals, Local, RunRecord
  <2> QED BY <1>1, <1>6, <2>1 DEF SaveScope, Typed
<1>7. ASSUME NEW r \in Runs, SaveMemory(r) PROVE Typed'
  <2>1. Head(run[r].todo) \in Memories
    BY <1>7, SavedMemory DEF SaveMemory
  <2>2. memory' \in [Profiles -> SUBSET Memories]
    <3> DEFINE m == Head(run[r].todo)
               p == run[r].prof
    <3>1. memory' = memory \/ memory' = [memory EXCEPT ![p] = @ \cup {m}]
      BY <1>7 DEF SaveMemory
    <3>2. m \in Memories /\ memory \in [Profiles -> SUBSET Memories]
      BY <2>1 DEF Typed
    <3> HIDE DEF m, p
    <3> QED BY <3>1, <3>2
  <2> QED BY <1>1, <1>7, <2>2 DEF SaveMemory, Typed
<1>8. ASSUME NEW r \in Runs, WriteRecord(r) PROVE Typed'
  <2>1. run[r].sess \in Sessions /\ run[r].prof \in Profiles /\ run[r].sess.task \in Tasks
    BY <1>8, SessionAtSave DEF WriteRecord, Saving
  <2>2. record' \in [Profiles \X Tasks -> Sessions \cup {None}]
    BY <1>8, <2>1 DEF WriteRecord, Typed
  <2> QED BY <1>1, <1>8, <2>2 DEF WriteRecord, Typed
<1>9. ASSUME NEW r \in Runs, WriteCurrent(r) PROVE Typed'
  <2>1. run[r].sess \in Sessions /\ run[r].prof \in Profiles
    BY <1>9, SessionAtSave DEF WriteCurrent, Saving
  <2>2. current' \in [Profiles -> Sessions \cup {None}]
    BY <1>9, <2>1 DEF WriteCurrent, Typed
  <2> QED BY <1>1, <1>9, <2>2 DEF WriteCurrent, Typed
<1>10. ASSUME NEW r \in Runs, RunWorkflow(r) \/ Stop(r) PROVE Typed'
  <2>1. faults' \in 0..MaxFaults
    BY <1>2, <1>10 DEF RunWorkflow, Stop, Typed
  <2> QED BY <1>1, <1>10, <2>1 DEF RunWorkflow, Stop, Typed, files
<1>11. ASSUME NEW r \in Runs,
              ReadSession(r) \/ Gate(r) \/ PassOver(r) \/ Finish(r) \/ AfterFinish(r)
       PROVE  Typed'
  BY <1>1, <1>11 DEF ReadSession, Gate, PassOver, Finish, AfterFinish, Typed, files
<1> QED BY <1>3, <1>4, <1>5, <1>6, <1>7, <1>8, <1>9, <1>10, <1>11 DEF Next, Continue

\* Confirmations and memory are never taken away.
LEMMA StoresGrow ==
  ASSUME Typed, [Next]_vars
  PROVE  scopes \subseteq scopes' /\ \A p \in Profiles : memory[p] \subseteq memory'[p]
<1>1. ASSUME NEW r \in Runs, SaveScope(r)
      PROVE  scopes \subseteq scopes' /\ memory' = memory
  BY <1>1 DEF SaveScope
<1>2. ASSUME NEW r \in Runs, SaveMemory(r)
      PROVE  scopes' = scopes /\ \A p \in Profiles : memory[p] \subseteq memory'[p]
  BY <1>2, SMTT(30) DEF SaveMemory, Typed
<1>3. ASSUME NEW r \in Runs, Start(r) \/ Stop(r) \/ ReadSession(r) \/ WriteRecord(r)
               \/ WriteCurrent(r) \/ Gate(r) \/ PassOver(r) \/ RunWorkflow(r) \/ Finish(r)
               \/ AfterFinish(r)
      PROVE  scopes' = scopes /\ memory' = memory
  BY <1>3 DEF Start, Stop, ReadSession, WriteRecord, WriteCurrent, Gate, PassOver, RunWorkflow,
              Finish, AfterFinish, files
<1>4. ASSUME NEW p \in Profiles, Compact(p) \/ UseProfile(p)
      PROVE  scopes' = scopes /\ memory' = memory
  BY <1>4 DEF Compact, UseProfile
<1>5. CASE UNCHANGED vars
  BY <1>5 DEF vars, files
<1> QED BY <1>1, <1>2, <1>3, <1>4, <1>5 DEF Next, Continue

\* What is on disk was there before, or is the session of a process that saves.
LEMMA DiskStep ==
  ASSUME Typed, Locals, [Next]_vars, NEW p \in Profiles, NEW s, s \in OnDisk(p)'
  PROVE  \/ s \in OnDisk(p)
         \/ \E r \in Runs : Saving(run[r]) /\ run[r].prof = p /\ run[r].sess = s
<1>1. CASE record' = record /\ current' = current
  BY <1>1 DEF OnDisk
<1>2. ASSUME NEW r \in Runs, WriteRecord(r)
      PROVE  s \in OnDisk(p) \/ (Saving(run[r]) /\ run[r].prof = p /\ run[r].sess = s)
  <2> DEFINE key == <<run[r].prof, run[r].sess.task>>
  <2>1. record' = [record EXCEPT ![key] = run[r].sess] /\ current' = current /\ Saving(run[r])
    BY <1>2 DEF WriteRecord, Saving
  <2>2. ASSUME NEW t \in Tasks
        PROVE  \/ record'[<<p, t>>] = record[<<p, t>>]
               \/ record'[<<p, t>>] = run[r].sess /\ run[r].prof = p
    BY <2>1 DEF Typed
  <2> QED BY <2>1, <2>2 DEF OnDisk
<1>3. ASSUME NEW r \in Runs, WriteCurrent(r)
      PROVE  s \in OnDisk(p) \/ (Saving(run[r]) /\ run[r].prof = p /\ run[r].sess = s)
  <2>1. current' = [current EXCEPT ![run[r].prof] = run[r].sess] /\ record' = record
        /\ Saving(run[r])
    BY <1>3, SMTT(30) DEF WriteCurrent, Saving
  <2> QED BY <2>1 DEF OnDisk, Typed
<1>4. ASSUME NEW r \in Runs, Start(r) \/ Stop(r) \/ ReadSession(r) \/ SaveScope(r)
               \/ SaveMemory(r) \/ Gate(r) \/ PassOver(r) \/ RunWorkflow(r) \/ Finish(r)
               \/ AfterFinish(r)
      PROVE  record' = record /\ current' = current
  BY <1>4 DEF Start, Stop, ReadSession, SaveScope, SaveMemory, Gate, PassOver, RunWorkflow,
              Finish, AfterFinish, files
<1>5. ASSUME NEW q \in Profiles, Compact(q) \/ UseProfile(q)
      PROVE  record' = record /\ current' = current
  BY <1>5 DEF Compact, UseProfile
<1>6. UNCHANGED vars => record' = record /\ current' = current
  BY DEF vars, files
<1> QED BY <1>1, <1>2, <1>3, <1>4, <1>5, <1>6 DEF Next, Continue

-----------------------------------------------------------------------------
(* The invariants, step by step.                                           *)

LEMMA BackedStays ==
  ASSUME Typed, [Next]_vars, NEW p \in Profiles, NEW c, Backed(p, c)
  PROVE  Backed(p, c)'
BY StoresGrow DEF Backed

LEMMA ConfirmedIsBackedStep ==
  ASSUME IInv, [Next]_vars
  PROVE  ConfirmedIsBacked'
<1> SUFFICES ASSUME NEW p \in Profiles, NEW s \in OnDisk(p)', s.conf # None
             PROVE  Backed(p, s.conf)'
  BY DEF ConfirmedIsBacked, Backed
<1>1. Typed /\ Locals
  BY DEF IInv
<1>2. CASE s \in OnDisk(p)
  <2>1. Backed(p, s.conf)
    BY <1>2 DEF IInv, ConfirmedIsBacked, Backed
  <2> QED BY <1>1, <2>1, BackedStays
<1>3. CASE \E r \in Runs : Saving(run[r]) /\ run[r].prof = p /\ run[r].sess = s
  <2>1. PICK r \in Runs : Saving(run[r]) /\ run[r].prof = p /\ run[r].sess = s
    BY <1>3
  <2>2. Backed(p, s.conf)
    BY <1>1, <2>1 DEF IInv, HeldIsBacked, Locals, Local
  <2> QED BY <1>1, <2>2, BackedStays
<1> QED BY <1>1, <1>2, <1>3, DiskStep

\* What HeldIsBacked says of one process.
Held(r) ==
  /\ run[r].sess # None => (run[r].sess.conf # None => Backed(run[r].prof, run[r].sess.conf))
  /\ ToMemory(run[r], "record") =>
       /\ run[r].conf \in scopes
       /\ run[r].todo # ScopeMemory(run[r].conf) => Backed(run[r].prof, run[r].conf)

LEMMA HeldUnmoved ==
  ASSUME Typed, Locals, [Next]_vars, NEW r \in Runs, Held(r), run[r].pc # "idle",
         run'[r].prof = run[r].prof, run'[r].sess = run[r].sess,
         \/ ~ToMemory(run'[r], "record")
         \/ run'[r] = run[r]
  PROVE  Held(r)'
<1>1. run[r].prof \in Profiles
  BY AtWork DEF Typed, Locals
<1>2. scopes \subseteq scopes'
  BY StoresGrow
<1> QED BY <1>1, <1>2, BackedStays DEF Held

LEMMA ReadSessionHeld ==
  ASSUME IInv, [Next]_vars, NEW r \in Runs, ReadSession(r)
  PROVE  Held(r)'
<1> DEFINE x == run[r]
           p == x.prof
           q == x.req
           found == IF q.session = None THEN current[p] ELSE record[q.session]
           y == [x EXCEPT !.pc = "scope", !.sess = found, !.task = found.task,
                          !.conf = ConfirmationOf(found.task, q.answer)]
<1>1. /\ Typed /\ Locals /\ run \in [Runs -> RunRecord] /\ x \in RunRecord /\ Local(x)
      /\ x.pc = "session"
  BY DEF IInv, Typed, Locals, ReadSession
<1>2. p \in Profiles /\ q \in Requests
  BY <1>1, AtWork
<1>3. CASE Fails(r)
  <2>1. run'[r] = [x EXCEPT !.pc = "failed"]
    BY <1>1, <1>3 DEF Fails, Goes
  <2>2. run'[r].prof = x.prof /\ run'[r].sess = x.sess /\ ~ToMemory(run'[r], "record")
    BY <1>1, <2>1 DEF RunRecord, ToMemory
  <2> QED BY <1>1, <2>2, HeldUnmoved DEF IInv, HeldIsBacked, Held
<1>4. CASE /\ Goes(r, y)
           /\ found # None /\ (q.session = None \/ q.session[1] = p)
  <2>1. found \in OnDisk(p)
    <3>1. CASE q.session = None
      BY <1>4, <3>1, SMTT(30) DEF OnDisk
    <3>2. CASE q.session # None
      <4>1. q.session \in Profiles \X Tasks
        BY <1>2, <3>2, ProfileAssumption
      <4>2. q.session[2] \in Tasks /\ q.session = <<p, q.session[2]>>
        BY <1>4, <3>2, <4>1
      <4>3. found = record[<<p, q.session[2]>>]
        BY <3>2, <4>2
      <4> HIDE DEF found
      <4> QED BY <1>4, <4>2, <4>3 DEF OnDisk
    <3> QED BY <3>1, <3>2
  <2>2. PICK s, pr : s = found /\ pr = p
    OBVIOUS
  <2>3. s.conf # None => Backed(pr, s.conf)
    BY <2>1, <2>2, <1>2 DEF IInv, ConfirmedIsBacked, Backed
  <2>4. s.conf # None => Backed(pr, s.conf)'
    BY <1>1, <1>2, <2>2, <2>3, BackedStays
  <2> HIDE DEF found
  <2>5. run'[r] = y
    BY <1>1, <1>4 DEF Goes
  <2>6. run'[r].prof = pr /\ run'[r].sess = s /\ ~ToMemory(run'[r], "record")
    BY <1>1, <2>2, <2>5 DEF RunRecord, ToMemory
  <2> QED BY <2>4, <2>6 DEF Held
<1> QED BY <1>3, <1>4 DEF ReadSession

LEMMA SaveScopeHeld ==
  ASSUME IInv, [Next]_vars, NEW r \in Runs, SaveScope(r)
  PROVE  Held(r)'
<1> DEFINE x == run[r]
           y == [x EXCEPT !.pc = "memory", !.next = "record", !.todo = ScopeMemory(x.conf)]
<1>1. /\ Typed /\ Locals /\ run \in [Runs -> RunRecord] /\ x \in RunRecord /\ Local(x)
      /\ x.pc = "scope" /\ x.prof \in Profiles
  BY AtWork DEF IInv, Typed, Locals, SaveScope
<1>2. PICK c, s, pr : c = x.conf /\ s = x.sess /\ pr = x.prof
  OBVIOUS
<1>3. run'[r] = y /\ scopes' = scopes \cup {c}
  BY <1>1, <1>2 DEF SaveScope, Goes
<1>4. /\ run'[r].prof = pr /\ run'[r].sess = s /\ run'[r].conf = c
      /\ run'[r].todo = ScopeMemory(c)
  BY <1>1, <1>2, <1>3 DEF RunRecord
<1>5. s # None => (s.conf # None => Backed(pr, s.conf)')
  BY <1>1, <1>2, BackedStays DEF IInv, HeldIsBacked
<1> QED BY <1>3, <1>4, <1>5 DEF Held

LEMMA SaveMemoryHeld ==
  ASSUME IInv, [Next]_vars, NEW r \in Runs, SaveMemory(r)
  PROVE  Held(r)'
<1> DEFINE x == run[r]
           m == Head(x.todo)
           rest == Tail(x.todo)
           last == [x EXCEPT !.todo = rest, !.pc = x.next]
           saved == [last EXCEPT !.next = "gate", !.sess.status = "scope_confirmed",
                                 !.sess.conf = x.conf]
<1>1. /\ Typed /\ Locals /\ run \in [Runs -> RunRecord] /\ x \in RunRecord /\ Local(x)
      /\ x.pc = "memory" /\ x.prof \in Profiles
  BY AtWork DEF IInv, Typed, Locals, SaveMemory
<1>2. PICK c, s, pr : c = x.conf /\ s = x.sess /\ pr = x.prof
  OBVIOUS
<1>3. s # None => (s.conf # None => Backed(pr, s.conf)')
  BY <1>1, <1>2, BackedStays DEF IInv, HeldIsBacked
<1>4. scopes \subseteq scopes'
  BY <1>1, StoresGrow
<1>5. CASE Fails(r)
  <2>1. run'[r] = [x EXCEPT !.pc = "failed"]
    BY <1>1, <1>5 DEF Fails, Goes
  <2>2. run'[r].prof = pr /\ run'[r].sess = s /\ ~ToMemory(run'[r], "record")
    BY <1>1, <1>2, <2>1 DEF RunRecord, ToMemory
  <2> QED BY <1>3, <2>2 DEF Held
<1>6. ASSUME memory' = [memory EXCEPT ![x.prof] = @ \cup {m}], x.next = "record"
      PROVE  /\ c \in Confirmations /\ c \in scopes'
             /\ Backed(pr, c)'
  <2>1. /\ c \in Confirmations /\ c \in scopes /\ x.todo \in ScopeTodo(c)
        /\ x.todo # ScopeMemory(c) => Backed(pr, c)
    BY <1>1, <1>2, <1>6 DEF IInv, HeldIsBacked, Local, ToMemory, RunRecord
  <2>2. CASE x.todo = ScopeMemory(c)
    <3>1. m = MemoryOf("confirmed_scope", c)
      BY <2>2 DEF ScopeMemory
    <3>2. m \in memory'[pr]
      BY <1>1, <1>2, <1>6 DEF Typed
    <3> QED BY <1>4, <2>1, <3>1, <3>2 DEF Backed
  <2>3. CASE x.todo # ScopeMemory(c)
    BY <1>1, <1>2, <1>4, <2>1, <2>3, BackedStays
  <2> QED BY <1>4, <2>1, <2>2, <2>3
<1>7. CASE /\ memory' = [memory EXCEPT ![x.prof] = @ \cup {m}]
           /\ rest # << >> /\ Goes(r, [x EXCEPT !.todo = rest])
  <2>1. run'[r] = [x EXCEPT !.todo = rest]
    BY <1>1, <1>7 DEF Goes
  <2>2. run'[r].prof = pr /\ run'[r].sess = s /\ run'[r].conf = c /\ run'[r].next = x.next
    BY <1>1, <1>2, <2>1 DEF RunRecord
  <2>3. ToMemory(run'[r], "record") => c \in scopes' /\ Backed(pr, c)'
    BY <1>6, <1>7, <2>2 DEF ToMemory
  <2> QED BY <1>3, <2>2, <2>3 DEF Held
<1>8. CASE x.next = "done" /\ Goes(r, last)
  <2>1. run'[r] = last
    BY <1>1, <1>8 DEF Goes
  <2>2. run'[r].prof = pr /\ run'[r].sess = s /\ ~ToMemory(run'[r], "record")
    BY <1>1, <1>2, <1>8, <2>1 DEF RunRecord, ToMemory
  <2> QED BY <1>3, <2>2 DEF Held
<1>9. CASE /\ memory' = [memory EXCEPT ![x.prof] = @ \cup {m}]
           /\ x.next # "done" /\ Goes(r, saved)
  <2>1. x.next = "record" /\ s \in Sessions
    BY <1>1, <1>2, <1>9 DEF Local, ToMemory, RunRecord
  <2>2. run'[r] = saved
    BY <1>1, <1>9 DEF Goes
  <2>3. run'[r].prof = pr /\ run'[r].sess.conf = c /\ ~ToMemory(run'[r], "record")
    <3> DEFINE sess == [x.sess EXCEPT !.status = "scope_confirmed", !.conf = x.conf]
    <3>1. sess.conf = c
      BY <1>2, <2>1 DEF Sessions
    <3>2. saved = [x EXCEPT !.todo = rest, !.pc = "record", !.next = "gate", !.sess = sess]
      BY <1>1, <1>2, <2>1 DEF RunRecord, Sessions
    <3> HIDE DEF sess, saved
    <3> QED BY <1>1, <1>2, <2>2, <3>1, <3>2 DEF RunRecord, ToMemory
  <2>4. Backed(pr, c)'
    BY <1>6, <1>9, <2>1
  <2> QED BY <2>3, <2>4 DEF Held
<1> QED BY <1>5, <1>7, <1>8, <1>9 DEF SaveMemory

LEMMA StartGoes ==
  ASSUME NEW r \in Runs, Start(r)
  PROVE  \E y : Goes(r, y) /\ y.sess = None /\ y.pc \in {"session", "failed", "gate"}
<1>1. PICK q \in Requests :
        LET p == ResolvedProfile(q)
            task == IF q.task # None THEN q.task ELSE Profile[p].input
            new == [Idle EXCEPT !.req = q, !.prof = p]
        IN Goes(r, IF q.answer # None THEN [new EXCEPT !.pc = "session"]
                   ELSE IF task = None THEN [new EXCEPT !.pc = "failed"]
                   ELSE [new EXCEPT !.pc = "gate", !.task = task])
  BY DEF Start
<1> DEFINE p == ResolvedProfile(q)
           task == IF q.task # None THEN q.task ELSE Profile[p].input
           new == [Idle EXCEPT !.req = q, !.prof = p]
           y == IF q.answer # None THEN [new EXCEPT !.pc = "session"]
                ELSE IF task = None THEN [new EXCEPT !.pc = "failed"]
                ELSE [new EXCEPT !.pc = "gate", !.task = task]
<1>2. Goes(r, y)
  BY <1>1
<1> HIDE DEF p, task
<1>3. y.sess = None /\ y.pc \in {"session", "failed", "gate"}
  BY DEF Idle
<1> HIDE DEF y
<1> QED BY <1>2, <1>3

LEMMA HeldIsBackedStep ==
  ASSUME IInv, [Next]_vars
  PROVE  HeldIsBacked'
<1>1. Typed /\ Locals /\ run \in [Runs -> RunRecord] /\ \A r \in Runs : Held(r)
  BY DEF IInv, HeldIsBacked, Typed, Held
<1> SUFFICES ASSUME NEW r \in Runs PROVE Held(r)'
  BY DEF HeldIsBacked, Held
<1> DEFINE x == run[r]
<1>2. x \in RunRecord /\ Local(x) /\ Held(r)
  BY <1>1 DEF Locals
<1>3. ASSUME run'[r] = x PROVE Held(r)'
  <2>1. CASE x.pc = "idle"
    BY <1>2, <1>3, <2>1 DEF Held, Local, Idle, ToMemory
  <2>2. CASE x.pc # "idle"
    BY <1>1, <1>3, <2>2, HeldUnmoved
  <2> QED BY <2>1, <2>2
<1>4. CASE Start(r)
  <2>1. x = Idle
    BY <1>2, <1>4 DEF Local, Start
  <2>2. PICK y : Goes(r, y) /\ y.sess = None /\ y.pc \in {"session", "failed", "gate"}
    BY <1>4, StartGoes
  <2>3. run'[r] = y
    BY <1>1, <2>2 DEF Goes
  <2> QED BY <2>2, <2>3 DEF Held, ToMemory
<1>5. CASE WriteRecord(r) \/ WriteCurrent(r) \/ Gate(r) \/ PassOver(r) \/ Stop(r)
  <2>1. x.pc # "idle"
    BY <1>5, ContinuesInFlight DEF Continue, InFlight
  <2>2. run'[r].prof = x.prof /\ run'[r].sess = x.sess /\ ~ToMemory(run'[r], "record")
    <3>1. CASE WriteRecord(r)
      BY <1>1, <1>2, <3>1 DEF WriteRecord, Goes, RunRecord, ToMemory
    <3>2. CASE WriteCurrent(r)
      BY <1>1, <1>2, <3>2, SMTT(30) DEF WriteCurrent, Goes, RunRecord, ToMemory, Local, Saving, Steering
    <3>3. CASE Gate(r)
      <4> DEFINE at(pc) == [x EXCEPT !.pc = pc]
                 named == [x EXCEPT !.pc = "step", !.conf = x.req.conf]
                 Stays(y) == y.prof = x.prof /\ y.sess = x.sess /\ ~ToMemory(y, "record")
      <4>1. Goes(r, at("failed")) \/ Goes(r, at("escalated")) \/ Goes(r, at("step")) \/ Goes(r, named)
        BY <3>3 DEF Gate, Fails
      <4>2. Stays(at("failed")) /\ Stays(at("escalated")) /\ Stays(at("step"))
        BY <1>2 DEF RunRecord, ToMemory
      <4>3. Stays(named)
        BY <1>2 DEF RunRecord, ToMemory
      <4> HIDE DEF at, named, Stays
      <4>4. Stays(run'[r])
        BY <1>1, <4>1, <4>2, <4>3 DEF Goes
      <4> QED BY <4>4 DEF Stays
    <3>4. CASE PassOver(r)
      BY <1>1, <1>2, <3>4 DEF PassOver, More, Fill, Goes, RunRecord, ToMemory
    <3>5. CASE Stop(r)
      BY <1>1, <1>2, <3>5 DEF Stop, Fails, Goes, RunRecord, ToMemory
    <3> QED BY <1>5, <3>1, <3>2, <3>3, <3>4, <3>5
  <2> QED BY <1>1, <1>2, <2>1, <2>2, HeldUnmoved
<1>6. CASE RunWorkflow(r)
  <2>1. x.pc = "step"
    BY <1>6 DEF RunWorkflow, More
  <2>2. PICK status \in {"passed", "stopped"} :
          \/ Goes(r, [Noted(r, status) EXCEPT !.sess = PendingOf(x.task), !.pc = "record",
                                              !.next = "step"])
          \/ Goes(r, Noted(r, status))
    BY <1>6 DEF RunWorkflow
  <2>3. CASE Goes(r, Noted(r, status))
    <3>1. run'[r].prof = x.prof /\ run'[r].sess = x.sess /\ ~ToMemory(run'[r], "record")
      BY <1>1, <1>2, <2>1, <2>3 DEF Noted, Goes, RunRecord, ToMemory
    <3> QED BY <1>1, <1>2, <2>1, <3>1, HeldUnmoved
  <2>4. CASE Goes(r, [Noted(r, status) EXCEPT !.sess = PendingOf(x.task), !.pc = "record",
                                              !.next = "step"])
    <3>1. run'[r].sess.conf = None /\ ~ToMemory(run'[r], "record")
      BY <1>1, <1>2, <2>4 DEF Noted, PendingOf, Goes, RunRecord, ToMemory
    <3> QED BY <3>1 DEF Held
  <2> QED BY <2>2, <2>3, <2>4
<1>7. CASE Finish(r) \/ AfterFinish(r)
  <2>1. x.pc # "idle"
    BY <1>7 DEF Finish, AfterFinish
  <2>2. CASE WriteRoutes(r)
    <3>1. run'[r].prof = x.prof /\ run'[r].sess = x.sess /\ ~ToMemory(run'[r], "record")
      BY <1>1, <1>2, <2>2 DEF WriteRoutes, Goes, RunRecord, ToMemory
    <3> QED BY <1>1, <1>2, <2>1, <3>1, HeldUnmoved
  <2>3. CASE Completes(r) /\ Goes(r, [x EXCEPT !.pc = "record", !.next = "route",
                                               !.sess.status = "completed"])
    <3>1. PICK c, pr : c = x.sess.conf /\ pr = x.prof
      OBVIOUS
    <3>2. x.sess \in Sessions /\ x.sess # None /\ pr \in Profiles
      BY <1>2, <2>1, <2>3, <3>1, AtWork DEF Completes, RunRecord
    <3>3. run'[r].prof = pr /\ run'[r].sess.conf = c /\ ~ToMemory(run'[r], "record")
      BY <1>1, <1>2, <2>3, <3>1, <3>2 DEF Goes, RunRecord, Sessions, ToMemory
    <3>4. c # None => Backed(pr, c)'
      BY <1>1, <1>2, <3>1, <3>2, BackedStays DEF Held
    <3> QED BY <3>3, <3>4 DEF Held
  <2> QED BY <1>7, <2>2, <2>3 DEF Finish, AfterFinish
<1>8. ASSUME NEW other \in Runs, other # r, Start(other) \/ Continue(other) \/ Stop(other)
      PROVE  run'[r] = x
  BY <1>1, <1>8, ProcessStep
<1>9. ASSUME NEW p \in Profiles, Compact(p) \/ UseProfile(p)
      PROVE  run'[r] = x
  BY <1>9 DEF Compact, UseProfile
<1>10. UNCHANGED vars => run'[r] = x
  BY DEF vars
<1> QED BY <1>3, <1>4, <1>5, <1>6, <1>7, <1>8, <1>9, <1>10, ReadSessionHeld, SaveScopeHeld,
           SaveMemoryHeld DEF Next, Continue

\* A run whose chain ran stays the same run.
LEMMA RanChainStays ==
  ASSUME Typed, Locals, [Next]_vars, NEW r \in Runs, run[r].prof # None, run[r].task # None,
         RanChain(r)
  PROVE  run'[r].prof = run[r].prof /\ run'[r].task = run[r].task /\ RanChain(r)'
BY RunsMove DEF Kept, RanChain

LEMMA CompletedRanChainStep ==
  ASSUME IInv, [Next]_vars
  PROVE  CompletedRanChain'
<1>1. Typed /\ Locals /\ run' \in [Runs -> RunRecord] /\ \A r \in Runs : Local(run'[r])
  BY RunsMove DEF IInv
<1>2. ASSUME NEW p \in Profiles, NEW s \in OnDisk(p)', s.status = "completed"
      PROVE  \E r \in Runs : run'[r].prof = p /\ run'[r].task = s.task /\ RanChain(r)'
  <2>1. s \in Sessions /\ s.task # None
    <3>1. s \in Sessions
      BY <1>1, TypedStep DEF OnDisk, Typed
    <3> QED BY <3>1, NoneFacts DEF Sessions
  <2>2. \E r \in Runs : run[r].prof = p /\ run[r].task = s.task /\ RanChain(r)
    <3>1. CASE s \in OnDisk(p)
      BY <1>2, <3>1 DEF IInv, CompletedRanChain
    <3>2. ASSUME NEW r \in Runs, Saving(run[r]), run[r].prof = p, run[r].sess = s
          PROVE  run[r].task = s.task /\ RanChain(r)
      <4>1. Local(run[r]) /\ s # None
        BY <1>1, <2>1, NoneFacts DEF Locals
      <4> QED BY <1>2, <3>2, <4>1 DEF Local, AllRan, RanChain
    <3> QED BY <1>1, <3>1, <3>2, DiskStep
  <2>3. PICK r \in Runs : run[r].prof = p /\ run[r].task = s.task /\ RanChain(r)
    BY <2>2
  <2>4. run'[r].prof = p /\ run'[r].task = s.task /\ RanChain(r)'
    BY <1>1, <2>1, <2>3, NoneFacts, RanChainStays
  <2> QED BY <2>4
<1>3. ASSUME NEW r \in Runs, run'[r].pc = "done", FinalStatus(run'[r]) = "completed"
      PROVE  RanChain(r)'
  <2>1. /\ run'[r] \in RunRecord /\ Local(run'[r]) /\ run'[r].pc # "idle"
        /\ Len(run'[r].steps) = Len(Chain(run'[r].prof))
    BY <1>1, <1>3 DEF Local, AtEnd
  <2>2. ~run'[r].req.dryRun /\ ~HasBlocked(run'[r].steps)
    BY <1>3 DEF FinalStatus
  <2>3. AllRan(run'[r])
    BY <2>1, <2>2, EndedRan
  <2> QED BY <2>3 DEF AllRan, RanChain
<1> QED BY <1>2, <1>3 DEF CompletedRanChain

\* What memory tells of a run.
TellsOf(r, p, m) ==
  /\ run[r].prof = p
  /\ \E i \in DOMAIN run[r].steps :
       /\ Chain(p)[i] = m.of
       /\ IF m.type = "tried_route" THEN Ran(run[r].steps, i) ELSE run[r].steps[i] = "blocked"

LEMMA ToldStays ==
  ASSUME Typed, Locals, [Next]_vars, NEW r \in Runs, NEW p \in Profiles, NEW m, TellsOf(r, p, m)
  PROVE  TellsOf(r, p, m)'
<1>1. Kept(run[r], run'[r]) /\ p # None
  BY RunsMove, NoneFacts
<1>2. PICK i \in DOMAIN run[r].steps :
        /\ Chain(p)[i] = m.of
        /\ IF m.type = "tried_route" THEN Ran(run[r].steps, i) ELSE run[r].steps[i] = "blocked"
  BY DEF TellsOf
<1>3. i \in DOMAIN run'[r].steps /\ run'[r].steps[i] = run[r].steps[i] /\ run'[r].prof = p
  BY <1>1 DEF Kept, TellsOf
<1> QED BY <1>2, <1>3 DEF TellsOf, Ran

LEMMA MemoryExplainedStep ==
  ASSUME IInv, [Next]_vars
  PROVE  MemoryExplained'
<1> DEFINE OfRoute(m) == m.type \in {"tried_route", "rejected_route"}
<1>1. Typed /\ Locals
  BY DEF IInv
<1>2. scopes \subseteq scopes'
  BY <1>1, StoresGrow
<1>3. ASSUME NEW p \in Profiles, NEW m \in memory'[p]
      PROVE  IF OfRoute(m) THEN \E r \in Runs : TellsOf(r, p, m) ELSE m.of \in scopes
  <2>1. CASE m \in memory[p]
    BY <2>1 DEF IInv, MemoryExplained, TellsOf
  <2>2. ASSUME NEW r \in Runs, SaveMemory(r), m \notin memory[p]
        PROVE  IF OfRoute(m) THEN TellsOf(r, p, m) ELSE m.of \in scopes
    <3> DEFINE x == run[r]
    <3>1. x \in RunRecord /\ Local(x) /\ x.pc = "memory" /\ x.prof \in Profiles
      BY <1>1, <2>2, AtWork DEF Typed, Locals, SaveMemory
    <3>2. x.prof = p /\ m = Head(x.todo)
      BY <1>1, <2>2, <3>1 DEF SaveMemory, Typed
    <3>3. CASE x.next = "done"
      <4>1. x.todo \in Seq(RouteFacts(x)) /\ x.todo # << >>
        BY <3>1, <3>3 DEF Local, ToMemory
      <4>2. m \in RouteFacts(x)
        BY <3>2, <4>1, HeadTailProperties
      <4> QED BY <3>2, <4>2 DEF RouteFacts, MemoryOf, TellsOf
    <3>4. CASE x.next = "record"
      <4>1. x.todo \in ScopeTodo(x.conf) /\ x.conf \in scopes
        BY <3>1, <3>4 DEF Local, ToMemory, IInv, HeldIsBacked
      <4>2. m.of = x.conf /\ ~OfRoute(m)
        BY <3>2, <4>1 DEF ScopeTodo, ScopeMemory, MemoryOf
      <4> QED BY <4>1, <4>2
    <3> QED BY <3>1, <3>3, <3>4 DEF Local
  <2>3. CASE memory' = memory
    BY <2>1, <2>3, SMTT(30)
  <2>4. memory' = memory \/ \E r \in Runs : SaveMemory(r)
    BY ZenonT(40) DEF Next, Continue, Start, Stop, ReadSession, SaveScope, WriteRecord, WriteCurrent, Gate,
           PassOver, RunWorkflow, Finish, AfterFinish, Compact, UseProfile, files, vars
  <2> QED BY <2>1, <2>2, <2>3, <2>4
<1>4. ASSUME NEW p \in Profiles, NEW m \in memory'[p]
      PROVE  IF OfRoute(m) THEN \E r \in Runs : TellsOf(r, p, m)' ELSE m.of \in scopes'
  BY <1>1, <1>2, <1>3, ToldStays
<1> QED BY <1>4 DEF MemoryExplained, TellsOf

\* Who is in flight afterwards was in flight, or has just started.
LEMMA InFlightStep ==
  ASSUME Typed, Locals, [Next]_vars, NEW s \in Runs, InFlight(s)'
  PROVE  InFlight(s) \/ Start(s)
<1>1. ASSUME NEW r \in Runs, Continue(r) \/ Stop(r) PROVE InFlight(s)
  <2>1. s # r => run'[s] = run[s]
    BY <1>1, ProcessStep
  <2>2. InFlight(r)
    BY <1>1, ContinuesInFlight
  <2> QED BY <2>1, <2>2 DEF InFlight
<1>2. ASSUME NEW r \in Runs, Start(r) PROVE InFlight(s) \/ Start(s)
  <2>1. s # r => run'[s] = run[s]
    BY <1>2, ProcessStep
  <2> QED BY <1>2, <2>1 DEF InFlight
<1>3. ASSUME NEW p \in Profiles, Compact(p) \/ UseProfile(p) PROVE InFlight(s)
  BY <1>3 DEF Compact, UseProfile, InFlight
<1>4. UNCHANGED vars => InFlight(s)
  BY DEF vars, InFlight
<1> QED BY <1>1, <1>2, <1>3, <1>4 DEF Next

LEMMA OneInFlightStep ==
  ASSUME IInv, [Next]_vars
  PROVE  OneInFlight'
<1>1. Typed /\ Locals /\ OneInFlight
  BY DEF IInv
<1> SUFFICES ASSUME ~overlapped', NEW r \in Runs, NEW s \in Runs, InFlight(r)', InFlight(s)'
             PROVE  r = s
  BY DEF OneInFlight
<1>2. ~overlapped
  BY ZenonT(40) DEF Next, Continue, Start, Stop, ReadSession, SaveScope, SaveMemory, WriteRecord, WriteCurrent,
         Gate, PassOver, RunWorkflow, Finish, AfterFinish, Compact, UseProfile, vars
<1>3. ASSUME NEW t \in Runs, Start(t) PROVE \A u \in Runs : ~InFlight(u)
  BY <1>3 DEF Start
<1>4. CASE InFlight(r) /\ InFlight(s)
  BY <1>1, <1>2, <1>4 DEF OneInFlight
<1>5. ASSUME NEW t \in Runs, Start(t), t \in {r, s} PROVE r = s
  <2>1. \A u \in Runs : u # t => run'[u] = run[u]
    BY <1>1, <1>5, ProcessStep
  <2>2. \A u \in Runs : ~InFlight(u)
    BY <1>3, <1>5
  <2> QED BY <2>1, <2>2 DEF InFlight
<1> QED BY <1>1, <1>4, <1>5, InFlightStep

\* The copy and the record of a profile's current session.
Agrees(p) == record[<<p, current[p].task>>] = current[p]

LEMMA CopiedStep ==
  ASSUME IInv, [Next]_vars
  PROVE  Copied'
<1>1. Typed /\ Locals /\ OneInFlight /\ Copied /\ run \in [Runs -> RunRecord]
  BY DEF IInv, Typed
<1> SUFFICES ASSUME faults' = 0, ~overlapped' PROVE Copied'
  BY DEF Copied
<1>2. faults = 0 /\ ~overlapped
  <2>1. ~overlapped
    BY ZenonT(40) DEF Next, Continue, Start, Stop, ReadSession, SaveScope, SaveMemory, WriteRecord, WriteCurrent,
           Gate, PassOver, RunWorkflow, Finish, AfterFinish, Compact, UseProfile, vars
  <2>2. ASSUME NEW r \in Runs, RunWorkflow(r) PROVE faults' \in {faults, faults + 1}
    BY <2>2 DEF RunWorkflow
  <2>3. faults' \in {faults, faults + 1}
    BY <2>2 DEF Next, Continue, Start, Stop, ReadSession, SaveScope, SaveMemory, WriteRecord,
           WriteCurrent, Gate, PassOver, Finish, AfterFinish, Compact, UseProfile, vars
  <2>4. faults \in Nat
    BY <1>1, ProfileAssumption DEF Typed
  <2> QED BY <2>1, <2>3, <2>4
<1>3. \A r, s \in Runs : InFlight(r) /\ InFlight(s) => r = s
  BY <1>1, <1>2 DEF OneInFlight
<1>4. \A r \in Runs : run[r].pc = "current" =>
         record[<<run[r].prof, run[r].sess.task>>] = run[r].sess
  BY <1>1, <1>2 DEF Copied
<1>5. \A p \in Profiles : current[p] # None =>
         Agrees(p) \/ \E r \in Runs : run[r].pc = "current" /\ run[r].prof = p
  BY <1>1, <1>2 DEF Copied, Agrees
<1>6. ASSUME NEW r \in Runs, WriteRecord(r) PROVE Copied'
  <2> DEFINE key == <<run[r].prof, run[r].sess.task>>
  <2>1. /\ record' = [record EXCEPT ![key] = run[r].sess] /\ current' = current
        /\ run' = [run EXCEPT ![r] = [run[r] EXCEPT !.pc = "current"]]
        /\ InFlight(r) /\ Saving(run[r])
    BY <1>6, ContinuesInFlight DEF Continue, WriteRecord, Goes, Saving
  <2>2. run[r].prof \in Profiles /\ run[r].sess.task \in Tasks /\ run[r] \in RunRecord
    BY <1>1, <2>1, SessionAtSave
  <2>3. \A s \in Runs : s # r => run'[s].pc # "current"
    BY <1>1, <1>3, <2>1 DEF InFlight, Over
  <2>4. /\ run'[r].pc = "current" /\ run'[r].prof = run[r].prof /\ run'[r].sess = run[r].sess
        /\ record'[key] = run[r].sess
    BY <1>1, <2>1, <2>2 DEF RunRecord, Typed
  <2>5. ASSUME NEW p \in Profiles, p # run[r].prof, current[p] # None PROVE Agrees(p)'
    <3>1. Agrees(p)
      BY <1>3, <1>5, <2>1, <2>5 DEF InFlight, Over
    <3>2. <<p, current[p].task>> # key
      BY <2>5
    <3>3. current[p].task \in Tasks
      BY <1>1, <2>5 DEF Typed, Sessions
    <3> QED BY <1>1, <2>1, <3>1, <3>2, <3>3 DEF Typed, Agrees
  <2> QED BY <2>1, <2>3, <2>4, <2>5 DEF Copied, Agrees
<1>7. ASSUME NEW r \in Runs, WriteCurrent(r) PROVE Copied'
  <2>1. /\ current' = [current EXCEPT ![run[r].prof] = run[r].sess] /\ record' = record
        /\ run' = [run EXCEPT ![r] = [run[r] EXCEPT !.pc = run[r].next]]
        /\ InFlight(r) /\ Saving(run[r]) /\ run[r].pc = "current"
    BY <1>7, ContinuesInFlight DEF Continue, WriteCurrent, Goes, Saving
  <2>2. run[r].prof \in Profiles /\ run[r] \in RunRecord /\ run[r].next \in Steering
    BY <1>1, <2>1, SessionAtSave DEF Locals, Local
  <2>3. \A s \in Runs : run'[s].pc # "current"
    BY <1>1, <1>3, <2>1, <2>2 DEF InFlight, Over, Steering, RunRecord
  <2>4. ASSUME NEW p \in Profiles, current'[p] # None PROVE Agrees(p)'
    <3>1. CASE p = run[r].prof
      <4>1. current'[p] = run[r].sess
        BY <1>1, <2>1, <2>2, <3>1 DEF Typed
      <4> QED BY <1>4, <2>1, <3>1, <4>1 DEF Agrees
    <3>2. CASE p # run[r].prof
      <4>1. current'[p] = current[p]
        BY <1>1, <2>1, <3>2 DEF Typed
      <4>2. Agrees(p)
        BY <1>3, <1>5, <2>1, <2>4, <3>2, <4>1 DEF InFlight, Over
      <4> QED BY <2>1, <4>1, <4>2 DEF Agrees
    <3> QED BY <3>1, <3>2
  <2> QED BY <2>3, <2>4 DEF Copied, Agrees
<1>8. ASSUME record' = record, current' = current,
             \A s \in Runs : run'[s].pc = "current" => run'[s] = run[s],
             \A s \in Runs : run[s].pc = "current" => run'[s] = run[s]
      PROVE  Copied'
  BY <1>4, <1>5, <1>8 DEF Copied, Agrees
<1>9. ASSUME NEW r \in Runs,
             \/ Start(r) \/ ReadSession(r) \/ SaveScope(r) \/ SaveMemory(r) \/ Gate(r)
             \/ PassOver(r) \/ RunWorkflow(r) \/ Finish(r) \/ AfterFinish(r)
      PROVE  Copied'
  <2>1. record' = record /\ current' = current
    BY <1>9 DEF Start, ReadSession, SaveScope, SaveMemory, Gate, PassOver, RunWorkflow, Finish,
                AfterFinish, files
  <2>2. \A s \in Runs : s # r => run'[s] = run[s]
    BY <1>1, <1>9, ProcessStep, SMTT(30) DEF Continue
  <2>3. run[r].pc # "current"
    BY <1>9 DEF Start, ReadSession, SaveScope, SaveMemory, Gate, PassOver, RunWorkflow, More,
                Finish, AfterFinish
  <2>4. run'[r].pc # "current"
    <3> DEFINE x == run[r]
    <3>1. x \in RunRecord /\ Local(x)
      BY <1>1 DEF Locals
    <3>2. CASE Start(r)
      <4>1. PICK y : Goes(r, y) /\ y.sess = None /\ y.pc \in {"session", "failed", "gate"}
        BY <3>2, StartGoes
      <4> QED BY <1>1, <4>1 DEF Goes
    <3>3. CASE ReadSession(r)
      <4> DEFINE read(found) == [x EXCEPT !.pc = "scope", !.sess = found, !.task = found.task,
                                          !.conf = ConfirmationOf(found.task, x.req.answer)]
                 failed == [x EXCEPT !.pc = "failed"]
      <4>1. Goes(r, failed) \/ \E found : Goes(r, read(found))
        BY <3>3 DEF ReadSession, Fails
      <4>2. failed.pc # "current" /\ \A found : read(found).pc # "current"
        BY <3>1 DEF RunRecord
      <4> HIDE DEF read, failed
      <4> QED BY <1>1, <4>1, <4>2, SMTT(30) DEF Goes
    <3>4. CASE SaveScope(r)
      BY <1>1, <3>1, <3>4 DEF SaveScope, Goes, RunRecord
    <3>5. CASE SaveMemory(r)
      <4>1. x.pc = "memory" /\ x.next \in {"record", "done"}
        BY <3>1, <3>5 DEF SaveMemory, Local
      <4> DEFINE failed == [x EXCEPT !.pc = "failed"]
                 going == [x EXCEPT !.todo = Tail(x.todo)]
                 last == [x EXCEPT !.todo = Tail(x.todo), !.pc = x.next]
                 saved == [last EXCEPT !.next = "gate", !.sess.status = "scope_confirmed",
                                       !.sess.conf = x.conf]
      <4>2. Goes(r, failed) \/ Goes(r, going) \/ Goes(r, last) \/ Goes(r, saved)
        BY <3>5 DEF SaveMemory, Fails
      <4>3. failed.pc # "current" /\ going.pc # "current"
        BY <3>1, <4>1 DEF RunRecord
      <4>4. last.pc # "current" /\ saved.pc # "current"
        BY <3>1, <4>1 DEF RunRecord
      <4> HIDE DEF failed, going, last, saved
      <4> QED BY <1>1, <4>2, <4>3, <4>4 DEF Goes
    <3>6. CASE Gate(r)
      <4> DEFINE at(pc) == [x EXCEPT !.pc = pc]
                 named == [x EXCEPT !.pc = "step", !.conf = x.req.conf]
      <4>1. Goes(r, at("failed")) \/ Goes(r, at("escalated")) \/ Goes(r, at("step")) \/ Goes(r, named)
        BY <3>6 DEF Gate, Fails
      <4>2. /\ at("failed").pc # "current" /\ at("escalated").pc # "current"
            /\ at("step").pc # "current" /\ named.pc # "current"
        BY <3>1 DEF RunRecord
      <4> HIDE DEF at, named
      <4> QED BY <1>1, <4>1, <4>2 DEF Goes
    <3>7. CASE PassOver(r)
      <4> DEFINE planned == Fill(r, "planned", "planned")
                 blocked == Fill(r, "blocked", "skipped")
      <4>1. x.pc = "step" /\ (Goes(r, planned) \/ Goes(r, blocked))
        BY <3>7 DEF PassOver, More
      <4>2. planned.pc # "current" /\ blocked.pc # "current"
        BY <3>1, <4>1 DEF Fill, RunRecord
      <4> HIDE DEF planned, blocked
      <4> QED BY <1>1, <4>1, <4>2 DEF Goes
    <3>8. CASE RunWorkflow(r)
      <4>1. x.pc = "step"
        BY <3>8 DEF RunWorkflow, More
      <4>2. PICK status \in {"passed", "stopped"} :
              \/ Goes(r, [Noted(r, status) EXCEPT !.sess = PendingOf(x.task), !.pc = "record",
                                                  !.next = "step"])
              \/ Goes(r, Noted(r, status))
        BY <3>8 DEF RunWorkflow
      <4> DEFINE noted == Noted(r, status)
                 left == [noted EXCEPT !.sess = PendingOf(x.task), !.pc = "record", !.next = "step"]
      <4>3. noted.pc # "current" /\ left.pc # "current"
        BY <3>1, <4>1 DEF Noted, RunRecord
      <4> HIDE DEF noted, left
      <4> QED BY <1>1, <4>2, <4>3 DEF Goes, noted, left
    <3>9. CASE Finish(r) \/ AfterFinish(r)
      <4> DEFINE done == [x EXCEPT !.pc = "done"]
                 telling == [x EXCEPT !.pc = "memory", !.next = "done", !.todo = RouteMemory(r)]
                 completed == [x EXCEPT !.pc = "record", !.next = "route", !.sess.status = "completed"]
      <4>1. Goes(r, done) \/ Goes(r, telling) \/ Goes(r, completed)
        BY <3>9 DEF Finish, AfterFinish, WriteRoutes
      <4>2. done.pc # "current" /\ telling.pc # "current" /\ completed.pc # "current"
        BY <3>1 DEF RunRecord
      <4> HIDE DEF done, telling, completed
      <4> QED BY <1>1, <4>1, <4>2 DEF Goes
    <3> QED BY <1>9, <3>2, <3>3, <3>4, <3>5, <3>6, <3>7, <3>8, <3>9
  <2> QED BY <1>8, <2>1, <2>2, <2>3, <2>4, SMTT(30)
<1>10. ASSUME NEW r \in Runs, Stop(r) PROVE Copied'
  BY <1>2, <1>10 DEF Stop
<1>11. ASSUME NEW p \in Profiles, Compact(p) \/ UseProfile(p) PROVE Copied'
  <2>1. record' = record /\ current' = current /\ run' = run
    BY <1>11 DEF Compact, UseProfile
  <2> QED BY <1>8, <2>1
<1>12. CASE UNCHANGED vars
  BY <1>8, <1>12 DEF vars, files
<1> QED BY <1>6, <1>7, <1>9, <1>10, <1>11, <1>12 DEF Next, Continue

-----------------------------------------------------------------------------
(* How many awaited calls a process has left.                              *)

Chained(x) == Len(Chain(x.prof)) \in Nat /\ Len(x.steps) \in 0..Len(Chain(x.prof))
Nearer(x, y) == AwaitsLeft(y) \in 0..(AwaitsLeft(x) - 1)

LEMMA ChainedAtWork ==
  ASSUME NEW x \in RunRecord, Local(x), x.pc # "idle"
  PROVE  Chained(x)
<1>1. Len(x.steps) \in Nat /\ Len(Chain(x.prof)) \in Nat /\ StepsOf(x)
  BY AtWork
<1> QED BY <1>1 DEF Chained, StepsOf

LEMMA AwaitsFromIs ==
  ASSUME NEW x
  PROVE  LET chain == Len(Chain(x.prof)) IN
         /\ AwaitsFrom(x)["session"] = 4 * chain + 12
         /\ AwaitsFrom(x)["scope"] = 4 * chain + 11
         /\ AwaitsFrom(x)["record"] = 4 * chain + 7
         /\ AwaitsFrom(x)["gate"] = 4 * chain + 5
         /\ AwaitsFrom(x)["step"] = 4 * chain + 4 - 3 * Len(x.steps)
         /\ AwaitsFrom(x)["route"] = chain + 1
         /\ AwaitsFrom(x)["done"] = 0
         /\ AwaitsFrom(x)["escalated"] = 0
         /\ AwaitsFrom(x)["failed"] = 0
BY DEF AwaitsFrom

\* What a process has left, by where it is.
LEMMA AwaitsLeftIs ==
  ASSUME NEW x
  PROVE  LET chain == Len(Chain(x.prof)) IN
         /\ x.pc = "memory" => AwaitsLeft(x) = AwaitsFrom(x)[x.next] + Len(x.todo)
         /\ x.pc = "record" => AwaitsLeft(x) = AwaitsFrom(x)[x.next] + 2
         /\ x.pc = "current" => AwaitsLeft(x) = AwaitsFrom(x)[x.next] + 1
         /\ x.pc = "session" => AwaitsLeft(x) = 4 * chain + 12
         /\ x.pc = "scope" => AwaitsLeft(x) = 4 * chain + 11
         /\ x.pc = "gate" => AwaitsLeft(x) = 4 * chain + 5
         /\ x.pc = "step" => AwaitsLeft(x) = 4 * chain + 4 - 3 * Len(x.steps)
         /\ x.pc = "route" => AwaitsLeft(x) = chain + 1
         /\ x.pc \in Over => AwaitsLeft(x) = 0
<1> DEFINE from == AwaitsFrom(x)
<1>1. /\ from["session"] = 4 * Len(Chain(x.prof)) + 12
      /\ from["scope"] = 4 * Len(Chain(x.prof)) + 11
      /\ from["gate"] = 4 * Len(Chain(x.prof)) + 5
      /\ from["step"] = 4 * Len(Chain(x.prof)) + 4 - 3 * Len(x.steps)
      /\ from["route"] = Len(Chain(x.prof)) + 1
      /\ from["done"] = 0 /\ from["escalated"] = 0 /\ from["failed"] = 0
  BY AwaitsFromIs
<1>2. /\ x.pc = "memory" => AwaitsLeft(x) = from[x.next] + Len(x.todo)
      /\ x.pc = "record" => AwaitsLeft(x) = from[x.next] + 2
      /\ x.pc = "current" => AwaitsLeft(x) = from[x.next] + 1
      /\ x.pc \notin {"memory", "record", "current"} => AwaitsLeft(x) = from[x.pc]
  BY DEF AwaitsLeft
<1> HIDE DEF from
<1>3. x.pc \in Over => AwaitsLeft(x) = 0
  BY <1>1, <1>2 DEF Over
<1>4. /\ x.pc = "session" => AwaitsLeft(x) = from["session"]
      /\ x.pc = "scope" => AwaitsLeft(x) = from["scope"]
      /\ x.pc = "gate" => AwaitsLeft(x) = from["gate"]
      /\ x.pc = "step" => AwaitsLeft(x) = from["step"]
      /\ x.pc = "route" => AwaitsLeft(x) = from["route"]
  BY <1>2
<1> QED BY <1>1, <1>2, <1>3, <1>4 DEF from

\* Wherever a process steers to, it has at least one call left, fewer than before
\* the answer to a session is saved.
LEMMA SteeringLeft ==
  ASSUME NEW x, Chained(x), NEW pc \in Steering
  PROVE  AwaitsFrom(x)[pc] \in 1..(4 * Len(Chain(x.prof)) + 5)
<1> DEFINE chain == Len(Chain(x.prof))
           done == Len(x.steps)
<1>1. chain \in Nat /\ done \in 0..chain
  BY DEF Chained
<1>2. CASE pc = "gate"
  <2>1. AwaitsFrom(x)[pc] = 4 * chain + 5
    BY <1>2, AwaitsFromIs
  <2> HIDE DEF chain, done
  <2>2. 4 * chain + 5 \in 1..(4 * chain + 5)
    BY <1>1
  <2> QED BY <2>1, <2>2 DEF chain
<1>3. CASE pc = "step"
  <2>1. AwaitsFrom(x)[pc] = 4 * chain + 4 - 3 * done
    BY <1>3, AwaitsFromIs
  <2> HIDE DEF chain, done
  <2>2. 4 * chain + 4 - 3 * done \in 1..(4 * chain + 5)
    BY <1>1
  <2> QED BY <2>1, <2>2 DEF chain
<1>4. CASE pc = "route"
  <2>1. AwaitsFrom(x)[pc] = chain + 1
    BY <1>4, AwaitsFromIs
  <2> HIDE DEF chain, done
  <2>2. chain + 1 \in 1..(4 * chain + 5)
    BY <1>1
  <2> QED BY <2>1, <2>2 DEF chain
<1> QED BY <1>2, <1>3, <1>4 DEF Steering

\* Whoever is not over has something left.
LEMMA InFlightLeft ==
  ASSUME NEW x \in RunRecord, Local(x), x.pc \notin Over \cup {"idle"}
  PROVE  AwaitsLeft(x) \in Nat \ {0}
<1> DEFINE chain == Len(Chain(x.prof))
<1>1. Chained(x) /\ chain \in Nat /\ Len(x.steps) \in 0..chain
  BY ChainedAtWork DEF Chained
<1>2. CASE Saving(x)
  <2>1. x.next \in Steering
    BY <1>2 DEF Local
  <2>2. AwaitsFrom(x)[x.next] \in Nat
    BY <1>1, <2>1, SteeringLeft
  <2>3. \/ AwaitsLeft(x) = AwaitsFrom(x)[x.next] + 2
        \/ AwaitsLeft(x) = AwaitsFrom(x)[x.next] + 1
    BY <1>2 DEF AwaitsLeft, Saving
  <2> QED BY <2>2, <2>3
<1>3. CASE x.pc = "memory"
  <2>1. x.todo \in Seq(Memories) /\ x.todo # << >> /\ x.next \in {"record", "done"}
    BY <1>3 DEF Local, RunRecord
  <2>2. Len(x.todo) \in Nat \ {0}
    BY <2>1
  <2>3. AwaitsFrom(x)[x.next] \in {4 * chain + 7, 0}
    BY <2>1, AwaitsFromIs
  <2>4. AwaitsLeft(x) = AwaitsFrom(x)[x.next] + Len(x.todo)
    BY <1>3 DEF AwaitsLeft
  <2> HIDE DEF chain
  <2> QED BY <1>1, <2>2, <2>3, <2>4
<1>4. CASE x.pc \in Steering
  <2>1. AwaitsLeft(x) = AwaitsFrom(x)[x.pc]
    BY <1>4 DEF AwaitsLeft, Steering
  <2>2. AwaitsFrom(x)[x.pc] \in 1..(4 * chain + 5)
    BY <1>1, <1>4, SteeringLeft
  <2> HIDE DEF chain
  <2> QED BY <1>1, <2>1, <2>2
<1>5. CASE x.pc \in {"session", "scope"}
  <2>1. AwaitsLeft(x) \in {4 * chain + 12, 4 * chain + 11}
    BY <1>5, AwaitsLeftIs
  <2> HIDE DEF chain
  <2> QED BY <1>1, <2>1
<1> QED BY <1>2, <1>3, <1>4, <1>5 DEF RunRecord, Pcs, Saving

\* A process that fails has nothing left.
LEMMA FailsNearer ==
  ASSUME NEW r \in Runs, Typed, Locals, InFlight(r), Fails(r)
  PROVE  Nearer(run[r], run'[r])
<1> DEFINE x == run[r]
           y == [x EXCEPT !.pc = "failed"]
<1>1. x \in RunRecord /\ Local(x) /\ x.pc \notin Over \cup {"idle"} /\ run'[r] = y
  BY DEF Typed, Locals, InFlight, Fails, Goes
<1>2. AwaitsLeft(x) \in Nat \ {0}
  BY <1>1, InFlightLeft
<1>3. y.pc = "failed"
  BY <1>1 DEF RunRecord
<1>4. AwaitsLeft(y) = 0
  BY <1>3, AwaitsLeftIs DEF Over
<1> QED BY <1>1, <1>2, <1>4 DEF Nearer

LEMMA StartedNearer ==
  ASSUME NEW r \in Runs, Typed, Locals, ReadSession(r) \/ SaveScope(r) \/ Gate(r)
  PROVE  Nearer(run[r], run'[r])
<1> DEFINE x == run[r]
           chain == Len(Chain(x.prof))
<1>1. x \in RunRecord /\ Local(x) /\ x.pc # "idle" /\ InFlight(r) /\ run \in [Runs -> RunRecord]
  BY ContinuesInFlight DEF Typed, Locals, InFlight, Continue
<1>2. Chained(x) /\ chain \in Nat /\ Len(x.steps) \in 0..chain
  BY <1>1, ChainedAtWork DEF Chained
<1>3. CASE Fails(r)
  BY <1>1, <1>3, FailsNearer
<1>4. ASSUME ReadSession(r), ~Fails(r) PROVE Nearer(x, run'[r])
  <2> DEFINE read(found) == [x EXCEPT !.pc = "scope", !.sess = found, !.task = found.task,
                                      !.conf = ConfirmationOf(found.task, x.req.answer)]
  <2>1. x.pc = "session" /\ \E found : run'[r] = read(found)
    BY <1>1, <1>4 DEF ReadSession, Goes
  <2>2. PICK found : run'[r] = read(found)
    BY <2>1
  <2> DEFINE y == read(found)
  <2>3. y.pc = "scope" /\ y.prof = x.prof
    BY <1>1 DEF RunRecord
  <2> HIDE DEF y
  <2>4. AwaitsLeft(y) = 4 * chain + 11
    BY <2>3, AwaitsLeftIs
  <2>5. AwaitsLeft(x) = 4 * chain + 12
    BY <2>1, AwaitsLeftIs
  <2> HIDE DEF chain
  <2>6. run'[r] = y
    BY <2>2 DEF y
  <2> QED BY <1>2, <2>4, <2>5, <2>6, SMTT(30) DEF Nearer
<1>5. ASSUME SaveScope(r) PROVE Nearer(x, run'[r])
  <2> DEFINE y == [x EXCEPT !.pc = "memory", !.next = "record", !.todo = ScopeMemory(x.conf)]
  <2>1. x.pc = "scope" /\ run'[r] = y
    BY <1>1, <1>5 DEF SaveScope, Goes
  <2>2. /\ y.pc = "memory" /\ y.next = "record" /\ y.prof = x.prof
        /\ y.todo = ScopeMemory(x.conf)
    BY <1>1 DEF RunRecord
  <2> HIDE DEF y
  <2>3. Len(y.todo) = 3
    BY <2>2 DEF ScopeMemory
  <2>4. AwaitsLeft(y) = 4 * chain + 7 + 3
    <3>1. AwaitsFrom(y)["record"] = 4 * chain + 7
      BY <2>2, AwaitsFromIs, ZenonT(40)
    <3> QED BY <2>2, <2>3, <3>1, AwaitsLeftIs
  <2>5. AwaitsLeft(x) = 4 * chain + 11
    BY <2>1, AwaitsLeftIs
  <2> HIDE DEF chain
  <2> QED BY <1>2, <2>1, <2>4, <2>5 DEF Nearer
<1>6. ASSUME Gate(r), ~Fails(r) PROVE Nearer(x, run'[r])
  <2>1. PICK y : /\ run'[r] = y /\ y.prof = x.prof /\ y.steps = x.steps
                 /\ y.pc \in {"escalated", "step"}
    <3> DEFINE at(pc) == [x EXCEPT !.pc = pc]
               named == [x EXCEPT !.pc = "step", !.conf = x.req.conf]
    <3>1. Goes(r, at("escalated")) \/ Goes(r, at("step")) \/ Goes(r, named)
      BY <1>6 DEF Gate
    <3>2. \A y \in {at("escalated"), at("step"), named} :
            /\ y.prof = x.prof /\ y.steps = x.steps /\ y.pc \in {"escalated", "step"}
      BY <1>1 DEF RunRecord
    <3> HIDE DEF at, named
    <3> QED BY <1>1, <3>1, <3>2 DEF Goes
  <2>2. AwaitsLeft(x) = 4 * chain + 5
    BY <1>6, AwaitsLeftIs DEF Gate
  <2>3. AwaitsLeft(y) \in {0, 4 * chain + 4 - 3 * Len(x.steps)}
    BY <2>1, AwaitsLeftIs DEF Over
  <2> DEFINE done == Len(x.steps)
  <2> HIDE DEF chain, done
  <2>4. done \in 0..chain
    BY <1>2 DEF done
  <2>5. AwaitsLeft(y) \in {0, 4 * chain + 4 - 3 * done}
    BY <2>3 DEF done
  <2> QED BY <1>2, <2>1, <2>2, <2>4, <2>5 DEF Nearer
<1> QED BY <1>3, <1>4, <1>5, <1>6

LEMMA SavesNearer ==
  ASSUME NEW r \in Runs, Typed, Locals, SaveMemory(r) \/ WriteRecord(r) \/ WriteCurrent(r)
  PROVE  Nearer(run[r], run'[r])
<1> DEFINE x == run[r]
           chain == Len(Chain(x.prof))
           rest == Tail(x.todo)
           last == [x EXCEPT !.todo = rest, !.pc = x.next]
           saved == [last EXCEPT !.next = "gate", !.sess.status = "scope_confirmed",
                                 !.sess.conf = x.conf]
<1>1. x \in RunRecord /\ Local(x) /\ x.pc # "idle" /\ InFlight(r) /\ run \in [Runs -> RunRecord]
  BY ContinuesInFlight DEF Typed, Locals, InFlight, Continue
<1>2. Chained(x) /\ chain \in Nat /\ Len(x.steps) \in 0..chain
  BY <1>1, ChainedAtWork DEF Chained
<1>3. CASE SaveMemory(r) /\ Fails(r)
  BY <1>1, <1>3, FailsNearer
<1>4. ASSUME SaveMemory(r), ~Fails(r) PROVE Nearer(x, run'[r])
  <2>1. /\ x.pc = "memory" /\ x.next \in {"record", "done"}
        /\ x.todo \in Seq(Memories) /\ x.todo # << >>
    BY <1>1, <1>4 DEF SaveMemory, Local, RunRecord
  <2>2. Len(rest) = Len(x.todo) - 1 /\ Len(x.todo) \in Nat \ {0}
    BY <2>1
  <2>3. AwaitsLeft(x) = AwaitsFrom(x)[x.next] + Len(x.todo)
    BY <2>1, AwaitsLeftIs
  <2>4. AwaitsFrom(x)["record"] = 4 * chain + 7 /\ AwaitsFrom(x)["done"] = 0
    BY AwaitsFromIs
  <2>5. CASE run'[r] = [x EXCEPT !.todo = rest]
    <3> DEFINE y == [x EXCEPT !.todo = rest]
    <3>1. /\ y.pc = "memory" /\ y.next = x.next /\ y.prof = x.prof /\ y.steps = x.steps
          /\ y.todo = rest
      BY <1>1, <2>1 DEF RunRecord
    <3> HIDE DEF y
    <3>2. AwaitsFrom(y) = AwaitsFrom(x)
      BY <3>1 DEF AwaitsFrom
    <3>3. AwaitsLeft(y) = AwaitsFrom(x)[x.next] + Len(rest)
      BY <3>1, <3>2, AwaitsLeftIs
    <3>4. AwaitsFrom(x)[x.next] \in Nat
      <4> HIDE DEF chain
      <4> QED BY <1>2, <2>1, <2>4
    <3> HIDE DEF rest, x
    <3> QED BY <2>2, <2>3, <2>5, <3>3, <3>4 DEF Nearer, y
  <2>6. CASE x.next = "done" /\ run'[r] = last
    <3>1. last.pc = "done"
      BY <1>1, <2>6 DEF RunRecord
    <3>2. AwaitsLeft(last) = 0
      BY <3>1, AwaitsLeftIs DEF Over
    <3>3. AwaitsLeft(x) = Len(x.todo)
      BY <2>2, <2>3, <2>4, <2>6
    <3> QED BY <2>2, <2>6, <3>2, <3>3 DEF Nearer
  <2>7. CASE x.next # "done" /\ run'[r] = saved
    <3>1. x.next = "record"
      BY <2>1, <2>7
    <3>2. saved.pc = "record" /\ saved.next = "gate" /\ saved.prof = x.prof
      BY <1>1, <3>1 DEF RunRecord
    <3>3. PICK y : y = saved
      OBVIOUS
    <3>4. y.pc = "record" /\ y.next = "gate" /\ y.prof = x.prof /\ run'[r] = y
      BY <2>7, <3>2, <3>3
    <3>5. AwaitsLeft(y) = 4 * chain + 5 + 2
      <4>1. AwaitsFrom(y)["gate"] = 4 * chain + 5
        BY <3>4, AwaitsFromIs, ZenonT(40)
      <4>2. AwaitsLeft(y) = AwaitsFrom(y)["gate"] + 2
        BY <3>4, AwaitsLeftIs
      <4> QED BY <4>1, <4>2
    <3>6. AwaitsLeft(x) = 4 * chain + 7 + Len(x.todo)
      BY <2>3, <2>4, <3>1
    <3>7. PICK m \in Nat, n \in Nat \ {0} : m = chain /\ n = Len(x.todo)
      BY <1>2, <2>2
    <3>8. AwaitsLeft(y) = 4 * m + 7 /\ AwaitsLeft(x) = 4 * m + 7 + n
      BY <3>5, <3>6, <3>7
    <3>9. AwaitsLeft(y) \in 0..(AwaitsLeft(x) - 1)
      BY <3>8
    <3> QED BY <3>4, <3>9 DEF Nearer
  <2> QED BY <1>1, <1>4, <2>5, <2>6, <2>7 DEF SaveMemory, Goes
<1>5. ASSUME WriteRecord(r) PROVE Nearer(x, run'[r])
  <2> DEFINE y == [x EXCEPT !.pc = "current"]
  <2>1. x.pc = "record" /\ run'[r] = y /\ x.next \in Steering
    BY <1>1, <1>5 DEF WriteRecord, Goes, Local, Saving
  <2>2. y.pc = "current" /\ y.next = x.next /\ y.prof = x.prof /\ y.steps = x.steps
    BY <1>1 DEF RunRecord
  <2> HIDE DEF y
  <2>3. AwaitsFrom(y) = AwaitsFrom(x)
    BY <2>2 DEF AwaitsFrom
  <2>4. AwaitsLeft(y) = AwaitsFrom(x)[x.next] + 1 /\ AwaitsLeft(x) = AwaitsFrom(x)[x.next] + 2
    BY <2>1, <2>2, <2>3, AwaitsLeftIs
  <2>5. AwaitsFrom(x)[x.next] \in Nat
    BY <1>2, <2>1, SteeringLeft
  <2> QED BY <2>1, <2>4, <2>5 DEF Nearer
<1>6. ASSUME WriteCurrent(r) PROVE Nearer(x, run'[r])
  <2> DEFINE y == [x EXCEPT !.pc = x.next]
  <2>1. x.pc = "current" /\ run'[r] = y /\ x.next \in Steering
    BY <1>1, <1>6 DEF WriteCurrent, Goes, Local, Saving
  <2>2. y.pc = x.next /\ y.prof = x.prof /\ y.steps = x.steps
    BY <1>1 DEF RunRecord
  <2> HIDE DEF y
  <2>3. AwaitsFrom(y) = AwaitsFrom(x)
    BY <2>2 DEF AwaitsFrom
  <2>4. AwaitsLeft(y) = AwaitsFrom(x)[x.next] /\ AwaitsLeft(x) = AwaitsFrom(x)[x.next] + 1
    BY <2>1, <2>2, <2>3 DEF AwaitsLeft, Steering
  <2>5. AwaitsFrom(x)[x.next] \in Nat
    BY <1>2, <2>1, SteeringLeft
  <2> QED BY <2>1, <2>4, <2>5 DEF Nearer
<1> QED BY <1>3, <1>4, <1>5, <1>6

\* The chain: a workflow costs three calls at most, and route memory one for each.
LEMMA WriteRoutesNearer ==
  ASSUME NEW r \in Runs, Typed, Locals, run[r].pc \in {"step", "route"},
         Len(run[r].steps) = Len(Chain(run[r].prof)), WriteRoutes(r)
  PROVE  Nearer(run[r], run'[r])
<1> DEFINE x == run[r]
           chain == Len(Chain(x.prof))
           todo == RouteMemory(r)
<1>1. x \in RunRecord /\ Local(x) /\ x.pc # "idle" /\ run \in [Runs -> RunRecord]
  BY DEF Typed, Locals
<1>2. chain \in Nat
  BY <1>1, ChainedAtWork DEF Chained
<1>3. Len(todo) \in 0..chain
  BY <1>1, RouteMemoryTells DEF Local
<1>4. AwaitsLeft(x) \in {chain + 1, chain + 4}
  <2>1. AwaitsLeft(x) \in {chain + 1, 4 * chain + 4 - 3 * chain}
    BY AwaitsLeftIs
  <2> HIDE DEF chain, x
  <2> QED BY <1>2, <2>1
<1> HIDE DEF todo
<1>5. CASE Goes(r, [x EXCEPT !.pc = "done"])
  <2> DEFINE y == [x EXCEPT !.pc = "done"]
  <2>1. y.pc = "done" /\ run'[r] = y
    BY <1>1, <1>5 DEF RunRecord, Goes
  <2> HIDE DEF y
  <2>2. AwaitsLeft(y) = 0
    BY <2>1, AwaitsLeftIs DEF Over
  <2> HIDE DEF chain
  <2> QED BY <1>2, <1>4, <2>1, <2>2 DEF Nearer
<1>6. CASE Goes(r, [x EXCEPT !.pc = "memory", !.next = "done", !.todo = todo])
  <2> DEFINE y == [x EXCEPT !.pc = "memory", !.next = "done", !.todo = todo]
  <2>1. y.pc = "memory" /\ y.next = "done" /\ y.todo = todo /\ run'[r] = y
    BY <1>1, <1>6 DEF RunRecord, Goes
  <2> HIDE DEF y
  <2>2. AwaitsFrom(y)["done"] = 0
    BY AwaitsFromIs
  <2>3. AwaitsLeft(y) = AwaitsFrom(y)["done"] + Len(todo)
    BY <2>1, AwaitsLeftIs
  <2> HIDE DEF chain
  <2>4. AwaitsLeft(y) = Len(todo)
    BY <1>3, <2>2, <2>3
  <2> QED BY <1>2, <1>3, <1>4, <2>1, <2>4 DEF Nearer
<1> QED BY <1>5, <1>6 DEF WriteRoutes, todo

LEMMA FinishNearer ==
  ASSUME NEW r \in Runs, Typed, Locals, Finish(r) \/ AfterFinish(r)
  PROVE  Nearer(run[r], run'[r])
<1> DEFINE x == run[r]
           chain == Len(Chain(x.prof))
           y == [x EXCEPT !.pc = "record", !.next = "route", !.sess.status = "completed"]
<1>1. x \in RunRecord /\ Local(x) /\ x.pc \in {"step", "route"} /\ run \in [Runs -> RunRecord]
  BY DEF Typed, Locals, Finish, AfterFinish
<1>2. Len(x.steps) = chain
  BY <1>1 DEF Finish, AfterFinish, Local, AtEnd
<1>3. CASE WriteRoutes(r)
  BY <1>1, <1>2, <1>3, WriteRoutesNearer
<1>4. CASE Finish(r) /\ run'[r] = y
  <2>1. x.pc = "step" /\ chain \in Nat
    BY <1>1, <1>4, ChainedAtWork DEF Finish, Chained
  <2>2. y.pc = "record" /\ y.next = "route" /\ y.prof = x.prof
    BY <1>1 DEF RunRecord
  <2> HIDE DEF y
  <2>3. AwaitsLeft(y) = chain + 1 + 2
    <3>1. AwaitsFrom(y)["route"] = chain + 1
      BY <2>2, AwaitsFromIs
    <3>2. AwaitsLeft(y) = AwaitsFrom(y)["route"] + 2
      BY <2>2, AwaitsLeftIs
    <3> HIDE DEF chain
    <3> QED BY <3>1, <3>2
  <2>4. AwaitsLeft(x) = 4 * chain + 4 - 3 * chain
    BY <1>2, <2>1, AwaitsLeftIs
  <2> HIDE DEF chain
  <2> QED BY <1>4, <2>1, <2>3, <2>4 DEF Nearer
<1> QED BY <1>1, <1>3, <1>4 DEF Finish, AfterFinish, Goes

LEMMA WorkflowNearer ==
  ASSUME NEW r \in Runs, Typed, Locals, PassOver(r) \/ RunWorkflow(r)
  PROVE  Nearer(run[r], run'[r])
<1> DEFINE x == run[r]
           chain == Len(Chain(x.prof))
           done == Len(x.steps)
<1>1. x \in RunRecord /\ Local(x) /\ x.pc = "step" /\ done < chain /\ run \in [Runs -> RunRecord]
  BY DEF Typed, Locals, PassOver, RunWorkflow, More
<1>2. chain \in Nat /\ done \in Nat /\ x.steps \in Seq(StepStatuses)
  BY <1>1, AtWork
<1>3. AwaitsLeft(x) = 4 * chain + 4 - 3 * done
  BY <1>1, AwaitsLeftIs
<1>4. CASE PassOver(r)
  <2>1. PICK first, rest : Goes(r, Fill(r, first, rest))
    BY <1>4 DEF PassOver
  <2> DEFINE steps == [i \in 1..chain |-> IF i <= done THEN x.steps[i]
                                          ELSE IF i = done + 1 THEN first ELSE rest]
             y == [x EXCEPT !.steps = steps]
  <2>2. run'[r] = y
    BY <1>1, <2>1 DEF Goes, Fill, RunRecord
  <2>3. Len(steps) = chain
    <3> HIDE DEF chain
    <3> QED BY <1>2
  <2> HIDE DEF steps
  <2>4. y.pc = "step" /\ y.prof = x.prof /\ y.steps = steps
    BY <1>1 DEF RunRecord
  <2> HIDE DEF y
  <2>5. AwaitsLeft(y) = 4 * chain + 4 - 3 * chain
    BY <2>3, <2>4, AwaitsLeftIs
  <2> HIDE DEF chain, done
  <2> QED BY <1>1, <1>2, <1>3, <2>2, <2>5 DEF Nearer
<1>5. CASE RunWorkflow(r)
  <2>1. PICK status \in {"passed", "stopped"} :
          \/ Goes(r, [Noted(r, status) EXCEPT !.sess = PendingOf(x.task), !.pc = "record",
                                              !.next = "step"])
          \/ Goes(r, Noted(r, status))
    BY <1>5 DEF RunWorkflow
  <2> DEFINE steps == Append(x.steps, status)
             noted == [x EXCEPT !.steps = steps]
             left == [x EXCEPT !.steps = steps, !.sess = PendingOf(x.task), !.pc = "record",
                               !.next = "step"]
  <2>2. run'[r] = noted \/ run'[r] = left
    BY <1>1, <2>1 DEF Goes, Noted, RunRecord
  <2>3. Len(steps) = done + 1
    BY <1>2
  <2> HIDE DEF steps
  <2>4. /\ noted.pc = "step" /\ noted.prof = x.prof /\ noted.steps = steps
        /\ left.pc = "record" /\ left.next = "step" /\ left.prof = x.prof /\ left.steps = steps
    BY <1>1 DEF RunRecord
  <2> HIDE DEF noted, left
  <2>5. AwaitsLeft(noted) = 4 * chain + 4 - 3 * (done + 1)
    BY <2>3, <2>4, AwaitsLeftIs
  <2>6. AwaitsLeft(left) = 4 * chain + 4 - 3 * (done + 1) + 2
    <3>1. AwaitsFrom(left)["step"] = 4 * chain + 4 - 3 * (done + 1)
      BY <2>3, <2>4, AwaitsFromIs
    <3> QED BY <2>4, <3>1, AwaitsLeftIs
  <2> HIDE DEF chain, done
  <2> QED BY <1>1, <1>2, <1>3, <2>2, <2>5, <2>6 DEF Nearer
<1> QED BY <1>4, <1>5

-----------------------------------------------------------------------------
(* The theorems.                                                           *)

LEMMA InitIInv ==
  Init => IInv
<1> SUFFICES ASSUME Init PROVE IInv
  OBVIOUS
<1>1. ASSUME NEW p \in Profiles
      PROVE  /\ Left[p] \in Seq(Tasks)
             /\ DOMAIN Left[p] = 1..Len(Left[p]) /\ Len(Left[p]) \in Nat
             /\ \A i \in DOMAIN Left[p] : Left[p][i] \in Tasks
             /\ Left[p] # << >> => Len(Left[p]) \in DOMAIN Left[p]
  <2>1. Left[p] \in Seq(Tasks)
    BY ProfileAssumption
  <2>2. DOMAIN Left[p] = 1..Len(Left[p]) /\ Len(Left[p]) \in Nat
    BY <2>1
  <2>3. \A i \in DOMAIN Left[p] : Left[p][i] \in Tasks
    BY <2>1, <2>2, ElementOfSeq, Zenon
  <2>4. Left[p] # << >> => Len(Left[p]) \in DOMAIN Left[p]
    BY <2>1, <2>2
  <2> QED BY <2>1, <2>2, <2>3, <2>4
<1>2. ASSUME NEW t \in Tasks
      PROVE  /\ PendingOf(t) \in Sessions /\ PendingOf(t).task = t
             /\ PendingOf(t).conf = None /\ PendingOf(t).status # "completed"
  BY <1>2 DEF PendingOf, Sessions, Statuses
<1>3. Typed
  <2>1. record \in [Profiles \X Tasks -> Sessions \cup {None}]
    BY <1>2 DEF Init
  <2>2. current \in [Profiles -> Sessions \cup {None}]
    BY <1>1, <1>2 DEF Init
  <2>3. run \in [Runs -> RunRecord]
    BY IdleMoves DEF Init
  <2>4. memory \in [Profiles -> SUBSET Memories]
    BY DEF Init
  <2>5. 0 \in 0..MaxFaults /\ 0 \in 0..MaxCommands
    BY ProfileAssumption
  <2>6. active \in Profiles /\ scopes \subseteq Confirmations
    BY ProfileAssumption DEF Init
  <2>7. overlapped \in BOOLEAN /\ faults = 0 /\ commands = 0
    BY DEF Init
  <2> QED BY <2>1, <2>2, <2>3, <2>4, <2>5, <2>6, <2>7 DEF Typed
<1>4. Locals
  BY IdleMoves DEF Init, Locals
<1>5. ASSUME NEW p \in Profiles, NEW s \in OnDisk(p)
      PROVE  s.conf = None /\ s.status # "completed"
  <2>1. ASSUME NEW t \in Tasks, record[<<p, t>>] # None
        PROVE  record[<<p, t>>] = PendingOf(t)
    BY <2>1 DEF Init
  <2>2. current[p] # None => \E t \in Tasks : current[p] = PendingOf(t)
    BY <1>1 DEF Init
  <2>3. \E t \in Tasks : s = PendingOf(t)
    BY <2>1, <2>2 DEF OnDisk
  <2> QED BY <1>2, <2>3
<1>6. ConfirmedIsBacked
  BY <1>5 DEF ConfirmedIsBacked
<1>7. HeldIsBacked
  BY DEF HeldIsBacked, Init, Idle, ToMemory
<1>8. CompletedRanChain
  BY <1>5 DEF CompletedRanChain, Init, Idle
<1>9. MemoryExplained
  BY DEF MemoryExplained, Init
<1>10. OneInFlight
  BY DEF OneInFlight, InFlight, Init, Idle
<1>11. Copied
  <2>1. ASSUME NEW p \in Profiles, current[p] # None
        PROVE  record[<<p, current[p].task>>] = current[p]
    <3> DEFINE t == Left[p][Len(Left[p])]
    <3>1. Left[p] # << >> /\ current[p] = PendingOf(t)
      BY <2>1 DEF Init
    <3>2. Len(Left[p]) \in DOMAIN Left[p] /\ t \in Tasks
      BY <1>1, <3>1
    <3>3. t \in {Left[p][i] : i \in DOMAIN Left[p]}
      BY <3>2
    <3> HIDE DEF t
    <3>4. record[<<p, t>>] = PendingOf(t)
      BY <3>2, <3>3 DEF Init
    <3> QED BY <1>2, <3>1, <3>2, <3>4
  <2> QED BY <2>1 DEF Copied, Init, Idle
<1> QED BY <1>3, <1>4, <1>6, <1>7, <1>8, <1>9, <1>10, <1>11 DEF IInv

LEMMA NextIInv ==
  IInv /\ [Next]_vars => IInv'
<1> SUFFICES ASSUME IInv, [Next]_vars PROVE IInv'
  OBVIOUS
<1>1. Typed'
  BY TypedStep DEF IInv
<1>2. Locals'
  BY RunsMove DEF IInv, Locals
<1> QED BY <1>1, <1>2, ConfirmedIsBackedStep, HeldIsBackedStep, CompletedRanChainStep,
           MemoryExplainedStep, OneInFlightStep, CopiedStep DEF IInv

LEMMA Invariance == Spec => []IInv
BY InitIInv, NextIInv, PTL DEF Spec

(* The types of the code: whatever is on disk and in flight is one of the  *)
(* records the interfaces name, and no run has more steps than its chain.  *)
THEOREM Typing == Spec => []TypeOK
<1>1. ASSUME IInv PROVE TypeOK
  <2>1. Typed /\ Locals
    BY <1>1 DEF IInv
  <2>2. ASSUME NEW r \in Runs
        PROVE  /\ run[r].sess \in Sessions \cup {None}
               /\ run[r].conf \in Confirmations \cup {None}
               /\ run[r].pc = "memory" => run[r].todo # << >>
               /\ run[r].prof # None => Len(run[r].steps) <= Len(Chain(run[r].prof))
    BY <2>1 DEF Typed, Locals, Local, RunRecord, StepsOf
  <2> QED BY <2>1, <2>2 DEF Typed, TypeOK
<1> QED BY <1>1, Invariance, PTL

(* A session on disk that names a confirmation is backed: the confirmation *)
(* is stored and project memory holds its scope, whichever process stopped *)
(* between the writes of resumeScopeConfirmation.                          *)
THEOREM ConfirmationsBacked == Spec => []ConfirmedIsBacked
<1>1. IInv => ConfirmedIsBacked
  BY DEF IInv
<1> QED BY <1>1, Invariance, PTL

(* Only a chain all of whose workflows ran completes a session or a run.   *)
THEOREM CompletionRanChain == Spec => []CompletedRanChain
<1>1. IInv => CompletedRanChain
  BY DEF IInv
<1> QED BY <1>1, Invariance, PTL

(* Project memory tells of no route that did not run or was not blocked,   *)
(* and of no scope whose confirmation is not stored.                       *)
THEOREM MemoryTellsTruth == Spec => []MemoryExplained
<1>1. IInv => MemoryExplained
  BY DEF IInv
<1> QED BY <1>1, Invariance, PTL

(* The two copies of a session differ only during a save, after a save was *)
(* cut short or after two runs overlapped.                                 *)
THEOREM CopiesStayEqual == Spec => []CopiesAgree
<1>1. IInv => CopiesAgree
  BY DEF IInv, Copied, CopiesAgree
<1> QED BY <1>1, Invariance, PTL

(* Whatever stops and whatever other processes write, each step of a run   *)
(* lowers the number of awaited calls it has left at most, and a run that  *)
(* is over stays so: what RunsEnd rests on besides fairness.               *)
THEOREM AwaitsAreBounded == Spec => AwaitsRunOut
<1>1. IInv /\ [Next]_vars =>
        (\A r \in Runs : run[r].pc # "idle" /\ run'[r] # run[r] => Nearer(run[r], run'[r]))
  <2> SUFFICES ASSUME Typed, Locals, [Next]_vars, NEW r \in Runs,
                      run[r].pc # "idle", run'[r] # run[r]
               PROVE  Nearer(run[r], run'[r])
    BY DEF IInv
  <2>1. \E s \in Runs : Start(s) \/ Continue(s) \/ Stop(s)
    BY DEF Next, Compact, UseProfile, vars
  <2>2. Start(r) \/ Continue(r) \/ Stop(r)
    BY <2>1, ProcessStep, SMTT(30)
  <2>3. ~Start(r)
    BY DEF Start
  <2>4. CASE Stop(r)
    BY <2>4, FailsNearer DEF Stop
  <2> QED BY <2>2, <2>3, <2>4, StartedNearer, SavesNearer, FinishNearer, WorkflowNearer DEF Continue
<1>2. (\A r \in Runs : run[r].pc # "idle" /\ run'[r] # run[r] => Nearer(run[r], run'[r])) =>
        \A r \in Runs : run[r].pc # "idle" /\ run'[r] # run[r] =>
          AwaitsLeft(run'[r]) \in 0..(AwaitsLeft(run[r]) - 1)
  BY DEF Nearer
<1> QED BY <1>1, <1>2, InitIInv, NextIInv, PTL DEF Spec, AwaitsRunOut
=============================================================================
