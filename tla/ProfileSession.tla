--------------------------- MODULE ProfileSession ---------------------------
(***************************************************************************)
(* Profile runs (src/core/profile, src/core/scope): a request runs the     *)
(* workflow chain of a profile; a negotiation leaves a pending session, a  *)
(* later request answers it, the answer becomes a scope confirmation and   *)
(* project memory, and the chain goes on behind the gates.  Several        *)
(* processes may run at once and any of them may stop at any await.        *)
(* A session and a confirmation are named by what their ids are hashes     *)
(* of: profile and task, task and answer.                                  *)
(***************************************************************************)
EXTENDS Naturals, Sequences, FiniteSets

CONSTANTS
  None, Runs, Profiles, Tasks, Answers,
  Requests,         \* [profile, task, session, answer, conf, dryRun, execute, llm]
  Profile,          \* profile -> [first, scope, followups, needsLLM, mayExecute, input]
  NodeTypes,        \* workflow -> the types of its nodes
  Route,            \* task -> the profile the router recommends, or None
  Safe,             \* profiles the router may switch to by itself
  Bounded,          \* tasks whose negotiated scope names an allowed module
  MentionsRoute,    \* tasks whose text repeats a term of a blocked route
  MentionsBlocked,  \* tasks whose text names an action the scope blocks
  Sensitive,        \* answers that hold something like a secret
  Foreign,          \* confirmations other commands have stored
  LlmReady,         \* the environment configures a real provider
  Left,             \* profile -> tasks whose sessions killed processes left pending
  ActiveProfile,    \* the profile of profiles/current.json at first
  MaxFaults,        \* bound: processes and workflows that stop
  MaxCommands       \* bound: compactions and changes of the active profile

Statuses == {"pending_scope_confirmation", "scope_confirmed", "completed"}
Confirmations == [task : Tasks, answer : Answers, status : {"confirmed", "rejected", "expired"}]
Sessions == [task : Tasks, status : Statuses, conf : Confirmations \cup {None}]
MemoryOf(type, of) == [type |-> type, of |-> of]
Workflows == DOMAIN NodeTypes

ASSUME ProfileAssumption ==
  /\ MaxFaults \in Nat /\ MaxCommands \in Nat
  /\ ActiveProfile \in Profiles /\ Safe \subseteq Profiles
  /\ Foreign \subseteq Confirmations
  /\ Left \in [Profiles -> Seq(Tasks)]
  /\ \A p \in Profiles : /\ Profile[p].first \in Workflows
                         /\ Profile[p].scope \in Workflows \cup {None}
                         /\ Profile[p].followups \in Seq(Workflows)
                         /\ Profile[p].input \in Tasks \cup {None}
  /\ \A q \in Requests : /\ q.profile \in Profiles \cup {None}
                         /\ q.task \in Tasks \cup {None} /\ q.answer \in Answers \cup {None}
                         /\ q.session \in (Profiles \X Tasks) \cup {None}
                         /\ q.conf \in Confirmations \cup {None} /\ q.dryRun \in BOOLEAN

\* None is a value of its own: no name, no request and no stored object.
ASSUME NoneAssumption ==
  /\ None \notin Profiles \cup Tasks \cup Answers \cup Workflows
  /\ None \notin Requests /\ None \notin Confirmations /\ None \notin Sessions

VARIABLES
  active,      \* profiles/current.json
  record,      \* profile-sessions/records: <<profile, task>> -> session or None
  current,     \* profile-sessions/current-<profile>.json
  scopes,      \* scope-confirmations/records
  memory,      \* project-memory/records, per profile
  compacted,   \* project-memory/compacted: the summary, or None
  run,         \* the processes
  overlapped,  \* history: whether two runs ever were in flight together
  faults,
  commands

files == <<active, record, current, scopes, memory, compacted>>
vars == <<active, record, current, scopes, memory, compacted, run, overlapped, faults, commands>>

Chain(p) == <<Profile[p].first>>
            \o (IF Profile[p].scope = None THEN <<>> ELSE <<Profile[p].scope>>)
            \o Profile[p].followups

IsExecutionWorkflow(w) ==
  NodeTypes[w] \cap {"code", "test", "materialize", "approval", "dryRun", "execute"} # {}
IsLLMWorkflow(w) == "llm" \in NodeTypes[w]

Ran(steps, i) == steps[i] \in {"passed", "stopped"}
HasBlocked(steps) == \E i \in DOMAIN steps : steps[i] = "blocked"
HasRun(steps) == \E i \in DOMAIN steps : Ran(steps, i)
FinalStatus(r) ==
  IF r.req.dryRun THEN "planned"
  ELSE IF HasBlocked(r.steps) THEN "blocked"
  ELSE IF \E i \in DOMAIN r.steps : r.steps[i] = "stopped" THEN "stopped"
  ELSE "completed"

PendingOf(task) == [task |-> task, status |-> "pending_scope_confirmation", conf |-> None]
Idle == [pc |-> "idle", req |-> None, prof |-> None, task |-> None, sess |-> None,
         conf |-> None, steps |-> <<>>, todo |-> <<>>, next |-> None]
Over == {"done", "escalated", "failed"}
InFlight(r) == run[r].pc \notin Over \cup {"idle"}
Goes(r, new) == run' = [run EXCEPT ![r] = new]
Fails(r) == Goes(r, [run[r] EXCEPT !.pc = "failed"])

Init ==
  /\ active = ActiveProfile
  /\ record = [key \in Profiles \X Tasks |->
                 IF key[2] \in {Left[key[1]][i] : i \in DOMAIN Left[key[1]]} THEN PendingOf(key[2]) ELSE None]
  /\ current = [p \in Profiles |-> IF Left[p] = <<>> THEN None ELSE PendingOf(Left[p][Len(Left[p])])]
  /\ scopes = Foreign
  /\ memory = [p \in Profiles |-> {}]
  /\ compacted = [p \in Profiles |-> None]
  /\ run = [r \in Runs |-> Idle]
  /\ overlapped = FALSE
  /\ faults = 0
  /\ commands = 0
-----------------------------------------------------------------------------
(* The request: which profile runs, and on which task.                     *)

Switched(q) ==
  /\ q.profile = None
  /\ q.task # None
  /\ Route[q.task] \notin {None, active}
  /\ Route[q.task] \in Safe

ResolvedProfile(q) ==
  IF q.profile # None THEN q.profile ELSE IF Switched(q) THEN Route[q.task] ELSE active

Start(r) ==
  /\ run[r].pc = "idle"
  /\ \E q \in Requests :
       LET p == ResolvedProfile(q)
           task == IF q.task # None THEN q.task ELSE Profile[p].input
           new == [Idle EXCEPT !.req = q, !.prof = p]
       IN Goes(r, IF q.answer # None THEN [new EXCEPT !.pc = "session"]
                  ELSE IF task = None THEN [new EXCEPT !.pc = "failed"]
                  ELSE [new EXCEPT !.pc = "gate", !.task = task])
  /\ overlapped' = (overlapped \/ \E other \in Runs : InFlight(other))
  /\ UNCHANGED <<files, faults, commands>>

ConfirmationOf(task, answer) == [task |-> task, answer |-> answer, status |-> "confirmed"]

(* The answer to a pending session.  getCurrent answers null for a profile *)
(* without one; a session id of another profile is refused.                *)
ReadSession(r) ==
  LET q == run[r].req
      p == run[r].prof
      found == IF q.session = None THEN current[p] ELSE record[q.session]
      own == q.session = None \/ q.session[1] = p
  IN
  /\ run[r].pc = "session"
  /\ IF found # None /\ own /\ found.status = "pending_scope_confirmation"
     THEN Goes(r, [run[r] EXCEPT !.pc = "scope", !.sess = found, !.task = found.task,
                     !.conf = ConfirmationOf(found.task, q.answer)])
     ELSE Fails(r)
  /\ UNCHANGED <<files, overlapped, faults, commands>>

ScopeMemory(c) ==
  <<MemoryOf("confirmed_scope", c), MemoryOf("decision", c), MemoryOf("next_action", c)>>

\* Faulty variant: the session is written before the memory of its scope.
SaveScopeOnly(r) ==
  /\ run[r].pc = "scope"
  /\ scopes' = scopes \cup {run[r].conf}
  /\ Goes(r, [run[r] EXCEPT !.pc = "record", !.next = "gate", !.sess.status = "scope_confirmed",
                            !.sess.conf = run[r].conf])
  /\ UNCHANGED <<active, record, current, memory, compacted, overlapped, faults, commands>>

SaveScope(r) ==
  /\ run[r].pc = "scope"
  /\ scopes' = scopes \cup {run[r].conf}
  /\ Goes(r, [run[r] EXCEPT !.pc = "memory", !.next = "record", !.todo = ScopeMemory(run[r].conf)])
  /\ UNCHANGED <<active, record, current, memory, compacted, overlapped, faults, commands>>

(* ProjectMemoryStore.save, one record after the other; the decision holds *)
(* the answer's text and is refused when it looks like a secret.           *)
Refused(m) == m.type = "decision" /\ m.of.answer \in Sensitive

SaveMemory(r) ==
  LET m == Head(run[r].todo)
      rest == Tail(run[r].todo)
      last == [run[r] EXCEPT !.todo = rest, !.pc = run[r].next]
  IN
  /\ run[r].pc = "memory"
  /\ IF Refused(m)
     THEN Fails(r) /\ UNCHANGED memory
     ELSE /\ memory' = [memory EXCEPT ![run[r].prof] = @ \cup {m}]
          /\ Goes(r, IF rest # <<>> THEN [run[r] EXCEPT !.todo = rest]
                     ELSE IF run[r].next = "done" THEN last
                     ELSE [last EXCEPT !.next = "gate", !.sess.status = "scope_confirmed",
                                       !.sess.conf = run[r].conf])
  /\ UNCHANGED <<active, record, current, scopes, compacted, overlapped, faults, commands>>

(* ProfileSessionStore.save: the record, then the copy of the profile.     *)
WriteRecord(r) ==
  /\ run[r].pc = "record"
  /\ record' = [record EXCEPT ![<<run[r].prof, run[r].sess.task>>] = run[r].sess]
  /\ Goes(r, [run[r] EXCEPT !.pc = "current"])
  /\ UNCHANGED <<active, current, scopes, memory, compacted, overlapped, faults, commands>>

\* Faulty variant: the second write is forgotten.
WriteCurrentSkipped(r) ==
  /\ run[r].pc = "current"
  /\ Goes(r, [run[r] EXCEPT !.pc = run[r].next])
  /\ UNCHANGED <<files, overlapped, faults, commands>>

WriteCurrent(r) ==
  /\ run[r].pc = "current"
  /\ current' = [current EXCEPT ![run[r].prof] = run[r].sess]
  /\ Goes(r, [run[r] EXCEPT !.pc = run[r].next])
  /\ UNCHANGED <<active, record, scopes, memory, compacted, overlapped, faults, commands>>

-----------------------------------------------------------------------------
(* Project memory and the autonomy gate.                                   *)

OfType(mem, type) == {m \in mem : m.type = type}

(* The text of a scope tells tasks apart, not answers.                     *)
HighConflict(mem) ==
  \E m, n \in OfType(mem, "confirmed_scope") : m.of.task # n.of.task

Summary(mem) ==
  [conflict |-> HighConflict(mem), scoped |-> OfType(mem, "confirmed_scope") # {},
   rejected |-> OfType(mem, "rejected_route") # {}]

Blocks(summary, texts) ==
  \/ summary.conflict
  \/ summary.rejected /\ texts \cap MentionsRoute # {}
  \/ summary.scoped /\ texts \cap MentionsBlocked # {}

Stored(id) == {c \in scopes : c.task = id.task /\ c.answer = id.answer /\ c.status = id.status}

(* The gate reads the request's own task as well as the resumed one.       *)
Gate(r) ==
  LET texts == {run[r].task, run[r].req.task} \ {None}
      summary == compacted[run[r].prof]
      asked == run[r].req.conf
  IN
  /\ run[r].pc = "gate"
  /\ IF summary # None /\ Blocks(summary, texts)
     THEN Goes(r, [run[r] EXCEPT !.pc = "escalated"])
     ELSE IF run[r].conf # None \/ asked = None
     THEN Goes(r, [run[r] EXCEPT !.pc = "step"])
     ELSE IF Stored(asked) # {}
     THEN Goes(r, [run[r] EXCEPT !.pc = "step", !.conf = asked])
     ELSE Fails(r)
  /\ UNCHANGED <<files, overlapped, faults, commands>>

Command == commands < MaxCommands /\ commands' = commands + 1

Compact(p) ==
  /\ Command
  /\ compacted' = [compacted EXCEPT ![p] = Summary(memory[p])]
  /\ UNCHANGED <<active, record, current, scopes, memory, run, overlapped, faults>>

UseProfile(p) ==
  /\ active # p
  /\ Command
  /\ active' = p
  /\ UNCHANGED <<record, current, scopes, memory, compacted, run, overlapped, faults>>
-----------------------------------------------------------------------------
(* The chain.                                                              *)

Workflow(r) == Chain(run[r].prof)[Len(run[r].steps) + 1]

NeedsExecution(r) ==
  /\ IsExecutionWorkflow(Workflow(r))
  /\ ~(run[r].req.execute /\ Profile[run[r].prof].mayExecute)
NeedsLLM(r) ==
  /\ Profile[run[r].prof].needsLLM \/ IsLLMWorkflow(Workflow(r))
  /\ ~run[r].req.llm \/ ~LlmReady
NeedsScope(r) == Workflow(r) = Profile[run[r].prof].scope /\ run[r].conf = None

Guarded(r) == NeedsExecution(r) \/ NeedsLLM(r) \/ NeedsScope(r)

Noted(r, status) == [run[r] EXCEPT !.steps = Append(@, status)]
More(r) == run[r].pc = "step" /\ Len(run[r].steps) < Len(Chain(run[r].prof))

Fill(r, first, rest) ==
  LET done == Len(run[r].steps) IN
  [run[r] EXCEPT !.steps = [i \in 1..Len(Chain(run[r].prof)) |->
     IF i <= done THEN @[i] ELSE IF i = done + 1 THEN first ELSE rest]]

(* A dry run plans the whole chain; a workflow that is blocked takes the   *)
(* rest of the chain with it.                                              *)
PassOver(r) ==
  /\ More(r)
  /\ \/ run[r].req.dryRun /\ Goes(r, Fill(r, "planned", "planned"))
     \/ ~run[r].req.dryRun /\ Guarded(r) /\ Goes(r, Fill(r, "blocked", "skipped"))
  /\ UNCHANGED <<files, overlapped, faults, commands>>

(* A negotiation asks questions unless its workflow stopped before it had  *)
(* a result; the pending session overwrites one of the same task.          *)
LeavesSession(r, status) ==
  /\ Workflow(r) = Profile[run[r].prof].first
  /\ run[r].sess = None
  /\ status = "passed" /\ "negotiate" \in NodeTypes[Workflow(r)]
  /\ Profile[run[r].prof].scope # None

RunWorkflow(r) ==
  /\ More(r)
  /\ ~run[r].req.dryRun /\ ~Guarded(r)
  /\ \E status \in {"passed", "stopped"} :
       /\ faults' = IF status = "stopped" THEN faults + 1 ELSE faults
       /\ faults' <= MaxFaults
       /\ Goes(r, IF LeavesSession(r, status)
                  THEN [Noted(r, status) EXCEPT !.sess = PendingOf(run[r].task), !.pc = "record", !.next = "step"]
                  ELSE Noted(r, status))
  /\ UNCHANGED <<files, overlapped, commands>>

\* Faulty variant: what was passed over is remembered as tried.
RouteMemoryEager(r) ==
  [i \in 1..Len(run[r].steps) |-> MemoryOf("tried_route", Chain(run[r].prof)[i])]

Told(steps) == {i \in DOMAIN steps : Ran(steps, i) \/ steps[i] = "blocked"}

(* A sequence: what is told comes first, as a workflow that is blocked     *)
(* takes the rest of the chain with it and a dry run tells nothing.        *)
RouteMemory(r) ==
  [i \in Told(run[r].steps) |->
     MemoryOf(IF Ran(run[r].steps, i) THEN "tried_route" ELSE "rejected_route",
              Chain(run[r].prof)[i])]

\* Faulty variant: records are awaited though there are none.
WriteRoutesAlways(r) ==
  Goes(r, [run[r] EXCEPT !.pc = "memory", !.next = "done", !.todo = RouteMemory(r)])

WriteRoutes(r) ==
  Goes(r, IF RouteMemory(r) = <<>> THEN [run[r] EXCEPT !.pc = "done"]
          ELSE [run[r] EXCEPT !.pc = "memory", !.next = "done", !.todo = RouteMemory(r)])

\* Faulty variant: a session is completed by a chain that was blocked.
CompletesPartly(r) == run[r].sess # None /\ HasRun(run[r].steps)

(* The session completes from the copy the run holds, not from disk.       *)
Completes(r) ==
  /\ run[r].sess # None
  /\ HasRun(run[r].steps) /\ ~HasBlocked(run[r].steps)

Finish(r) ==
  /\ run[r].pc = "step" /\ Len(run[r].steps) = Len(Chain(run[r].prof))
  /\ IF Completes(r)
     THEN Goes(r, [run[r] EXCEPT !.pc = "record", !.next = "route", !.sess.status = "completed"])
     ELSE WriteRoutes(r)
  /\ UNCHANGED <<files, overlapped, faults, commands>>

\* Faulty variant: a completed session is completed again, for ever.
AfterFinishAgain(r) ==
  /\ run[r].pc = "route"
  /\ Goes(r, [run[r] EXCEPT !.pc = "record"])
  /\ UNCHANGED <<files, overlapped, faults, commands>>

AfterFinish(r) ==
  /\ run[r].pc = "route"
  /\ WriteRoutes(r)
  /\ UNCHANGED <<files, overlapped, faults, commands>>

(* A call fails or the process dies at an await.                           *)
Stop(r) ==
  /\ InFlight(r) /\ faults < MaxFaults
  /\ Fails(r)
  /\ faults' = faults + 1
  /\ UNCHANGED <<files, overlapped, commands>>

Continue(r) ==
  \/ ReadSession(r) \/ SaveScope(r) \/ SaveMemory(r) \/ WriteRecord(r) \/ WriteCurrent(r)
  \/ Gate(r) \/ PassOver(r) \/ RunWorkflow(r) \/ Finish(r) \/ AfterFinish(r)

Next ==
  \/ \E r \in Runs : Start(r) \/ Continue(r) \/ Stop(r)
  \/ \E p \in Profiles : Compact(p) \/ UseProfile(p)

(* A process that has started goes on: each await it makes is answered.    *)
Spec == Init /\ [][Next]_vars /\ \A r \in Runs : WF_vars(Continue(r))
-----------------------------------------------------------------------------
(* Everything on disk and in flight is what the types of the code say.     *)
TypeOK ==
  /\ active \in Profiles
  /\ record \in [Profiles \X Tasks -> Sessions \cup {None}]
  /\ current \in [Profiles -> Sessions \cup {None}]
  /\ scopes \subseteq Confirmations
  /\ \A r \in Runs : /\ run[r].sess \in Sessions \cup {None}
                     /\ run[r].conf \in Confirmations \cup {None}
                     /\ run[r].pc = "memory" => run[r].todo # <<>>
                     /\ run[r].prof # None => Len(run[r].steps) <= Len(Chain(run[r].prof))
  /\ faults \in 0..MaxFaults /\ commands \in 0..MaxCommands

OnDisk(p) == ({record[<<p, t>>] : t \in Tasks} \cup {current[p]}) \ {None}

(* A session on disk that names a confirmation is backed: the confirmation *)
(* is stored and the memory of its scope saved, whatever process stopped   *)
(* in between and in whichever order two answers were written.             *)
ConfirmedIsBacked ==
  \A p \in Profiles : \A s \in OnDisk(p) : s.conf # None =>
    /\ s.conf \in scopes
    /\ MemoryOf("confirmed_scope", s.conf) \in memory[p]

RanChain(r) ==
  /\ Len(run[r].steps) = Len(Chain(run[r].prof))
  /\ \A i \in DOMAIN run[r].steps : Ran(run[r].steps, i)

(* Only a chain that ran to its end completes: a completed session on disk *)
(* is that of a run all of whose workflows ran, and so is a run that says  *)
(* it completed.                                                           *)
CompletedRanChain ==
  /\ \A p \in Profiles : \A s \in OnDisk(p) : s.status = "completed" =>
       \E r \in Runs : run[r].prof = p /\ run[r].task = s.task /\ RanChain(r)
  /\ \A r \in Runs : run[r].pc = "done" /\ FinalStatus(run[r]) = "completed" => RanChain(r)

(* Project memory tells what happened: a tried route ran, a rejected route *)
(* was blocked and a confirmed scope is stored, in whichever order         *)
(* processes saved them.                                                   *)
MemoryExplained ==
  \A p \in Profiles : \A m \in memory[p] :
    IF m.type \in {"tried_route", "rejected_route"}
    THEN \E r \in Runs : run[r].prof = p /\ \E i \in DOMAIN run[r].steps :
           /\ Chain(p)[i] = m.of
           /\ IF m.type = "tried_route" THEN Ran(run[r].steps, i)
                                        ELSE run[r].steps[i] = "blocked"
    ELSE m.of \in scopes

(* The copy a profile calls its current session differs from the session's *)
(* own record only while a save is under way, after a save was cut short,  *)
(* or after two runs overlapped.                                           *)
CopiesAgree ==
  faults = 0 /\ ~overlapped /\ (\A r \in Runs : run[r].pc # "current") =>
    \A p \in Profiles : current[p] # None => record[<<p, current[p].task>>] = current[p]

(* The awaited calls a process has left at most: three for a workflow (its *)
(* run and a session it leaves), one for a record of project memory, and   *)
(* those of the answer to a session.                                       *)
AwaitsFrom(x) ==
  LET chain == Len(Chain(x.prof)) IN
  [session |-> 4 * chain + 12, scope |-> 4 * chain + 11, record |-> 4 * chain + 7,
   gate |-> 4 * chain + 5, step |-> 4 * chain + 4 - 3 * Len(x.steps), route |-> chain + 1,
   done |-> 0, escalated |-> 0, failed |-> 0]
AwaitsLeft(x) ==
  IF x.pc = "memory" THEN AwaitsFrom(x)[x.next] + Len(x.todo)
  ELSE IF x.pc = "record" THEN AwaitsFrom(x)[x.next] + 2
  ELSE IF x.pc = "current" THEN AwaitsFrom(x)[x.next] + 1
  ELSE AwaitsFrom(x)[x.pc]

(* Whatever stops and whatever others write, a process that moves gets     *)
(* nearer to its end, and one that is over does not move: no answer, guard *)
(* or save sends a run back.                                               *)
AwaitsRunOut ==
  [][\A r \in Runs : run[r].pc # "idle" /\ run'[r] # run[r] =>
       AwaitsLeft(run'[r]) \in 0..(AwaitsLeft(run[r]) - 1)]_vars

(* Every run that starts ends, by finishing, escalating or failing.        *)
RunsEnd == \A r \in Runs : InFlight(r) ~> run[r].pc \in Over
-----------------------------------------------------------------------------
(* The scope gate of a run's confirmation (ScopeConfirmationService): it   *)
(* is confirmed, not expired and names a module.  The negotiation itself   *)
(* is not in the context of the gate's workflow and is not compared.       *)
GateAllows(c) == c.status = "confirmed" /\ c.task \in Bounded

(* docs/SCOPE_CONFIRMATION.md:11 "`confirmed-scope-gate` is the scope gate *)
(* between negotiation and feasibility": nothing after it runs on a        *)
(* confirmation it blocks.                                                 *)
FollowupsGated ==
  \A r \in Runs : run[r].prof # None /\ Profile[run[r].prof].scope # None =>
    \A i \in 3..Len(run[r].steps) : Ran(run[r].steps, i) => GateAllows(run[r].conf)
=============================================================================
