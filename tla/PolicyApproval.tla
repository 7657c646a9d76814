--------------------------- MODULE PolicyApproval ---------------------------
(***************************************************************************)
(* Human approval and replay of risky tool calls (adapters/opencode).      *)
(*                                                                         *)
(* Three kinds of operating system process share the files of              *)
(* .opencode/policy-runs with no lock between them:                        *)
(*   - plugins evaluate tool calls, ask for approval and replay approved   *)
(*     calls (OpenCodePolicyService.evaluateToolCall);                     *)
(*   - resolvers are the policy:approve and policy:reject commands         *)
(*     (PolicyApprovalStore.resolve);                                      *)
(*   - runners are the policy:replay commands (PolicyReplayRunner.run).    *)
(* One action is one file system call, or the reading of a file together   *)
(* with the synchronous code that decides on what was read.  Any process   *)
(* may act between two actions of another one, and any may crash.          *)
(*                                                                         *)
(* Abstracted: a tool call is an element of Calls, and its SHA-256 hash is *)
(* the call itself; of an approvals.jsonl line the status is kept; of the  *)
(* replays.jsonl lines, the set of statuses; notes, previews, reasons and  *)
(* timestamps other than the expiry are left out.                          *)
(***************************************************************************)
EXTENDS Integers, Sequences, FiniteSets

CONSTANTS
  Decisions,   \* decision ids, one approval file each
  Calls,       \* tool calls
  Reordered,   \* calls whose affected paths the classifier does not list sorted
  Sanitized,   \* calls whose stored form is redacted or truncated
  Shell,       \* calls of a shell tool: the only ones a runner executes
  Plugins, Resolvers, Runners,
  NoDecision, NoCall,
  TTL,         \* lifetime of an approval (15 minutes) in clock ticks
  MaxNow,      \* bound on the clock
  MaxOps,      \* bound on the operations the processes start
  MaxCrashes   \* bound on the crashes

Procs == Plugins \union Resolvers \union Runners

ASSUME CallsAssumption ==
  /\ Reordered \subseteq Calls /\ Sanitized \subseteq Calls /\ Shell \subseteq Calls
  /\ NoCall \notin Calls /\ NoDecision \notin Decisions

ASSUME ProcsAssumption ==
  /\ Plugins \intersect Resolvers = {}
  /\ Plugins \intersect Runners = {}
  /\ Resolvers \intersect Runners = {}

ASSUME BoundsAssumption ==
  TTL \in Nat /\ MaxNow \in Nat /\ MaxOps \in Nat /\ MaxCrashes \in Nat

VARIABLES
  file,      \* pending/<decisionId>.json
  log,       \* the statuses of approvals.jsonl, in order, per decision
  audit,     \* decisions.jsonl: the root decision, its replays allowed and denied
  replays,   \* the statuses of replays.jsonl, per decision
  proc,      \* what each process is doing
  released,  \* how often a plugin let the approved call through
  spawned,   \* how often a runner started the approved command
  now, ops, crashes

vars == <<file, log, audit, replays, proc, released, spawned, now, ops, crashes>>

Resolved == {"approved", "rejected"}
Final == {"rejected", "consumed", "expired"}
Status == {"pending", "consumed", "expired"} \union Resolved
Unreadable == {"absent", "torn"}

Record == [status : Status \union Unreadable, call : Calls \union {NoCall}, expires : Nat]
NoRecord == [status |-> "absent", call |-> NoCall, expires |-> 0]

Steps == {"idle", "createPending", "resolveLog", "resolveWrite", "consumeWrite",
          "consumeLog", "auditReplay", "release", "spawn", "running", "consumeRead", "report"}
Outcomes == {"none", "allow", "deny", "planned", "executed", "failed", "blocked", "unsupported"}

\* rec is the approval the process read, or the one it is about to write.
Process == [pc : Steps, d : Decisions \union {NoDecision}, call : Calls \union {NoCall},
            rec : Record, outcome : Outcomes]
Idle == [pc |-> "idle", d |-> NoDecision, call |-> NoCall, rec |-> NoRecord, outcome |-> "none"]

Init ==
  /\ file = [d \in Decisions |-> NoRecord]
  /\ log = [d \in Decisions |-> << >>]
  /\ audit = [d \in Decisions |-> [root |-> "none", allowed |-> 0, denied |-> 0]]
  /\ replays = [d \in Decisions |-> {}]
  /\ proc = [x \in Procs |-> Idle]
  /\ released = [d \in Decisions |-> 0]
  /\ spawned = [d \in Decisions |-> 0]
  /\ now = 0 /\ ops = 0 /\ crashes = 0

-----------------------------------------------------------------------------
\* An idle process begins an operation, and goes to step pc of it.
Begin(x, pc, d, c, rec, outcome) ==
  /\ proc[x] = Idle
  /\ ops < MaxOps
  /\ ops' = ops + 1
  /\ proc' = [proc EXCEPT ![x] =
       [pc |-> pc, d |-> d, call |-> c, rec |-> rec, outcome |-> outcome]]

At(x, pc) == proc[x].pc = pc
Goto(x, pc) == proc' = [proc EXCEPT ![x].pc = pc]
Finish(x) == proc' = [proc EXCEPT ![x] = Idle]

\* getApproval throws when the file is missing or is not JSON.
Readable(d) == file[d].status \notin Unreadable

Expired(rec) == rec.expires < now
Mark(rec, status) == [rec EXCEPT !.status = status]

\* The file write and the log line of the record that process x has prepared.
WriteFile(x) == file' = [file EXCEPT ![proc[x].d] = proc[x].rec]
AppendLog(x) == log' = [log EXCEPT ![proc[x].d] = Append(@, proc[x].rec.status)]

-----------------------------------------------------------------------------
(* Plugins: a tool call with no approval id.                               *)

\* The call is classified and audited under a fresh id; "ask" goes on to
\* createPending, the two other decisions are final.
Evaluate(p, d, c, action) ==
  /\ audit[d].root = "none"
  /\ audit' = [audit EXCEPT ![d].root = action]
  /\ IF action = "ask"
     THEN Begin(p, "createPending", d, c,
                [status |-> "pending", call |-> c, expires |-> 0], "none")
     ELSE proc[p] = Idle /\ ops < MaxOps /\ ops' = ops + 1 /\ UNCHANGED proc
  /\ UNCHANGED <<file, log, replays, released, spawned, now, crashes>>

\* Faulty variant: a request also appends its status to approvals.jsonl.
CreatePendingLogged(p) ==
  /\ At(p, "createPending")
  /\ WriteFile(p)
  /\ AppendLog(p)
  /\ Finish(p)
  /\ UNCHANGED <<audit, replays, released, spawned, now, ops, crashes>>

CreatePending(p) ==
  /\ At(p, "createPending")
  /\ WriteFile(p)
  /\ Finish(p)
  /\ UNCHANGED <<log, audit, replays, released, spawned, now, ops, crashes>>

(* Resolvers: policy:approve and policy:reject.                            *)

\* Faulty variant: a record is resolved again whatever its status.
ResolveAgain(r, d, verdict) ==
  /\ Readable(d)
  /\ Begin(r, "resolveLog", d, NoCall,
       [Mark(file[d], verdict) EXCEPT !.expires = IF verdict = "approved" THEN now + TTL ELSE 0],
       "none")
  /\ UNCHANGED <<file, log, audit, replays, released, spawned, now, crashes>>

\* A record that is not pending is returned as it is.
Resolve(r, d, verdict) ==
  /\ Readable(d)
  /\ file[d].status = "pending"
  /\ Begin(r, "resolveLog", d, NoCall,
       [Mark(file[d], verdict) EXCEPT !.expires = IF verdict = "approved" THEN now + TTL ELSE 0],
       "none")
  /\ UNCHANGED <<file, log, audit, replays, released, spawned, now, crashes>>

ResolveLog(r) ==
  /\ At(r, "resolveLog")
  /\ AppendLog(r)
  /\ Goto(r, "resolveWrite")
  /\ UNCHANGED <<file, audit, replays, released, spawned, now, ops, crashes>>

ResolveWrite(r) ==
  /\ At(r, "resolveWrite")
  /\ WriteFile(r)
  /\ Finish(r)
  /\ UNCHANGED <<log, audit, replays, released, spawned, now, ops, crashes>>

-----------------------------------------------------------------------------
(* consumeForReplay, for a plugin and for a runner.                        *)

\* Faulty variant: only expiry is checked, not that the record is approved.
ConsumptionOfAny(rec, matches) ==
  CASE Expired(rec) -> Mark(rec, "expired")
    [] ~Expired(rec) /\ ~matches -> rec
    [] OTHER -> Mark(rec, "consumed")

\* The record consumeForReplay writes for an approval it read, given whether
\* the hash and the normalized call match; a refusal leaves the record alone.
Consumption(rec, matches) ==
  CASE rec.status # "approved" -> rec
    [] rec.status = "approved" /\ Expired(rec) -> Mark(rec, "expired")
    [] rec.status = "approved" /\ ~Expired(rec) /\ ~matches -> rec
    [] OTHER -> Mark(rec, "consumed")

\* Faulty variant: the retried call is not compared with the stored one.
SameCallUnchecked(rec, c) == rec.call \in Calls /\ c \in Calls

\* The stored call is compared as JSON with the normalized call of the retry:
\* a stored form that was sanitized, or whose paths are in another order, differs.
SameCall(rec, c) == rec.call = c /\ c \notin Reordered /\ c \notin Sanitized

Replay(p, d, c) ==
  /\ Readable(d)
  /\ LET rec == Consumption(file[d], SameCall(file[d], c)) IN
       IF rec = file[d]
       THEN Begin(p, "auditReplay", d, c, rec, "deny")
       ELSE Begin(p, "consumeWrite", d, c, rec,
                  IF rec.status = "consumed" THEN "allow" ELSE "deny")
  /\ UNCHANGED <<file, log, audit, replays, released, spawned, now, crashes>>

\* After its command ended a runner consumes the approval it planned with; it
\* throws, and leaves no line in replays.jsonl, when the file cannot be read.
ConsumeRead(q) ==
  /\ At(q, "consumeRead")
  /\ LET d == proc[q].d
         rec == Consumption(file[d], TRUE) IN
       \/ /\ ~Readable(d)
          /\ Finish(q)
       \/ /\ Readable(d)
          /\ IF rec = file[d]
             THEN Goto(q, "report")
             ELSE proc' = [proc EXCEPT ![q].pc = "consumeWrite", ![q].rec = rec]
  /\ UNCHANGED <<file, log, audit, replays, released, spawned, now, ops, crashes>>

\* Faulty variant: the consumption is logged and the file left as it was.
ConsumeUnwritten(x) ==
  /\ At(x, "consumeWrite")
  /\ Goto(x, "consumeLog")
  /\ UNCHANGED <<file, log, audit, replays, released, spawned, now, ops, crashes>>

\* Faulty variant: the consumption is written and never logged.
ConsumeUnlogged(x) ==
  /\ At(x, "consumeWrite")
  /\ WriteFile(x)
  /\ Goto(x, IF x \in Plugins THEN "auditReplay" ELSE "report")
  /\ UNCHANGED <<log, audit, replays, released, spawned, now, ops, crashes>>

ConsumeWrite(x) ==
  /\ At(x, "consumeWrite")
  /\ WriteFile(x)
  /\ Goto(x, "consumeLog")
  /\ UNCHANGED <<log, audit, replays, released, spawned, now, ops, crashes>>

\* Faulty variant: an expiry found while consuming is not logged.
ConsumeLogUsed(x) ==
  /\ At(x, "consumeLog")
  /\ IF proc[x].rec.status = "consumed" THEN AppendLog(x) ELSE UNCHANGED log
  /\ Goto(x, IF x \in Plugins THEN "auditReplay" ELSE "report")
  /\ UNCHANGED <<file, audit, replays, released, spawned, now, ops, crashes>>

ConsumeLog(x) ==
  /\ At(x, "consumeLog")
  /\ AppendLog(x)
  /\ Goto(x, IF x \in Plugins THEN "auditReplay" ELSE "report")
  /\ UNCHANGED <<file, audit, replays, released, spawned, now, ops, crashes>>

AuditReplay(p) ==
  /\ At(p, "auditReplay")
  /\ IF proc[p].outcome = "allow"
     THEN audit' = [audit EXCEPT ![proc[p].d].allowed = @ + 1] /\ Goto(p, "release")
     ELSE audit' = [audit EXCEPT ![proc[p].d].denied = @ + 1] /\ Finish(p)
  /\ UNCHANGED <<file, log, replays, released, spawned, now, ops, crashes>>

\* The hook returns allow: OpenCode runs the tool.
Release(p) ==
  /\ At(p, "release")
  /\ released' = [released EXCEPT ![proc[p].d] = @ + 1]
  /\ Finish(p)
  /\ UNCHANGED <<file, log, audit, replays, spawned, now, ops, crashes>>

-----------------------------------------------------------------------------
(* Runners: policy:replay, dry or with --execute.                          *)

\* Faulty variant: a request nobody has answered can be executed.
ReplayableUnanswered(rec) ==
  /\ rec.status \in {"approved", "pending"} /\ ~Expired(rec)
  /\ rec.call \notin Sanitized

\* buildReplayPlan; a sanitized call no longer hashes to its stored hash.
Replayable(rec) ==
  rec.status = "approved" /\ ~Expired(rec) /\ rec.call \notin Sanitized

DryRun(q, d) ==
  /\ Begin(q, "report", d, NoCall, file[d], "planned")
  /\ UNCHANGED <<file, log, audit, replays, released, spawned, now, crashes>>

Plan(q, d) ==
  /\ CASE ~Replayable(file[d]) -> Begin(q, "report", d, NoCall, file[d], "blocked")
       [] Replayable(file[d]) /\ file[d].call \notin Shell ->
            Begin(q, "report", d, NoCall, file[d], "unsupported")
       [] OTHER -> Begin(q, "spawn", d, NoCall, file[d], "none")
  /\ UNCHANGED <<file, log, audit, replays, released, spawned, now, crashes>>

Spawn(q) ==
  /\ At(q, "spawn")
  /\ spawned' = [spawned EXCEPT ![proc[q].d] = @ + 1]
  /\ Goto(q, "running")
  /\ UNCHANGED <<file, log, audit, replays, released, now, ops, crashes>>

\* The child could not be started: nothing is consumed.
SpawnError(q) ==
  /\ At(q, "spawn")
  /\ proc' = [proc EXCEPT ![q].pc = "report", ![q].outcome = "failed"]
  /\ UNCHANGED <<file, log, audit, replays, released, spawned, now, ops, crashes>>

\* The child exits, by itself or on the SIGTERM of the timeout.
Exit(q, outcome) ==
  /\ At(q, "running")
  /\ proc' = [proc EXCEPT ![q].pc = "consumeRead", ![q].outcome = outcome]
  /\ UNCHANGED <<file, log, audit, replays, released, spawned, now, ops, crashes>>

Report(q) ==
  /\ At(q, "report")
  /\ replays' = [replays EXCEPT ![proc[q].d] = @ \union {proc[q].outcome}]
  /\ Finish(q)
  /\ UNCHANGED <<file, log, audit, released, spawned, now, ops, crashes>>

-----------------------------------------------------------------------------
(* The environment.                                                        *)

Tick ==
  /\ now < MaxNow
  /\ now' = now + 1
  /\ UNCHANGED <<file, log, audit, replays, proc, released, spawned, ops, crashes>>

Writing(x) == proc[x].pc \in {"createPending", "resolveWrite", "consumeWrite"}

\* The process dies between two of its steps, or inside a writeFileSync that
\* has truncated the file and not yet filled it.
Crash(x) ==
  /\ proc[x] # Idle
  /\ crashes < MaxCrashes
  /\ crashes' = crashes + 1
  /\ Finish(x)
  /\ \/ UNCHANGED file
     \/ Writing(x) /\ file' = [file EXCEPT ![proc[x].d].status = "torn"]
  /\ UNCHANGED <<log, audit, replays, released, spawned, now, ops>>

-----------------------------------------------------------------------------
PluginStep(p) ==
  CreatePending(p) \/ ConsumeWrite(p) \/ ConsumeLog(p) \/ AuditReplay(p) \/ Release(p)

ResolverStep(r) == ResolveLog(r) \/ ResolveWrite(r)

RunnerStep(q) ==
  \/ Spawn(q) \/ SpawnError(q) \/ ConsumeRead(q)
  \/ ConsumeWrite(q) \/ ConsumeLog(q) \/ Report(q)

Next ==
  \/ \E p \in Plugins :
       \/ \E d \in Decisions, c \in Calls :
            \/ \E action \in {"allow", "ask", "deny"} : Evaluate(p, d, c, action)
            \/ Replay(p, d, c)
       \/ PluginStep(p)
  \/ \E r \in Resolvers :
       \/ \E d \in Decisions, verdict \in Resolved : Resolve(r, d, verdict)
       \/ ResolverStep(r)
  \/ \E q \in Runners :
       \/ \E d \in Decisions : DryRun(q, d) \/ Plan(q, d)
       \/ \E outcome \in {"executed", "failed"} : Exit(q, outcome)
       \/ RunnerStep(q)
  \/ \E x \in Procs : Crash(x)
  \/ Tick

Spec == Init /\ [][Next]_vars

\* A process that has begun an operation goes on with it: its code is
\* synchronous.  Nothing is assumed of people, of the child or of crashes.
FairSpec ==
  /\ Spec
  /\ \A p \in Plugins : WF_vars(PluginStep(p))
  /\ \A r \in Resolvers : WF_vars(ResolverStep(r))
  /\ \A q \in Runners : WF_vars(RunnerStep(q))

-----------------------------------------------------------------------------
(* Properties.                                                             *)

TypeOK ==
  /\ file \in [Decisions -> Record]
  /\ log \in [Decisions -> Seq(Resolved \union Final)]
  /\ audit \in [Decisions -> [root : {"none", "allow", "ask", "deny"},
                              allowed : Nat, denied : Nat]]
  /\ replays \in [Decisions -> SUBSET Outcomes]
  /\ proc \in [Procs -> Process]
  /\ released \in [Decisions -> Nat]
  /\ spawned \in [Decisions -> Nat]
  /\ now \in Nat /\ ops \in Nat /\ crashes \in Nat

Uses(d) == released[d] + spawned[d]
Logged(d, status) == \E i \in DOMAIN log[d] : log[d][i] = status
Count(d, status) == Cardinality({i \in DOMAIN log[d] : log[d][i] = status})
InFlight(d) == \E x \in Procs : proc[x].d = d

\* Whatever the interleaving and the crashes, a risky call that was let through
\* or executed had been asked for, and approvals.jsonl holds its approval
\* (resolve appends the line before it writes the file that consumers read).
UseNeedsApproval ==
  \A d \in Decisions : Uses(d) > 0 => audit[d].root = "ask" /\ Logged(d, "approved")

\* Every call a plugin let through left its trail first: an "allow" audit line,
\* and before that a "consumed" line in approvals.jsonl; a crash may leave a
\* trail with no use, never a use with no trail.
TrailCoversUses ==
  \A d \in Decisions : /\ released[d] <= audit[d].allowed
                       /\ audit[d].allowed <= Count(d, "consumed")

\* The call about to be let through is the one whose approval was asked for,
\* whatever other processes did to the file since the check of the hash.
ReleaseIsExact ==
  \A p \in Plugins : At(p, "release") => proc[p].call = file[proc[p].d].call

\* What people approve is what is used: only approved calls, and those unchanged.
UsedAsApproved == UseNeedsApproval /\ ReleaseIsExact

\* What a process holds stays true while others write: a request is still the
\* only one under its id, the approval in hand is of the call in the file, a
\* logged verdict was logged before the file was written, and whoever consumes
\* or executes does so on a logged approval.  (The inductive invariant.)
ActsOnApproval(s) ==
  \/ s.pc \in {"consumeWrite", "consumeLog", "release", "spawn", "running", "consumeRead"}
  \/ s.pc = "auditReplay" /\ s.outcome = "allow"
HoldsApproval(s) == ActsOnApproval(s) \/ s.pc \in {"auditReplay", "resolveLog", "resolveWrite"}

HeldFacts(s) ==
  /\ s.pc # "idle" => s.d \in Decisions
  /\ s.pc = "createPending" =>
       s.rec.status = "pending" /\ audit[s.d].root = "ask" /\ file[s.d].status = "absent"
  /\ s.pc \in {"resolveLog", "resolveWrite"} => s.rec.status \in Resolved
  /\ s.pc = "resolveWrite" => Logged(s.d, s.rec.status)
  /\ s.pc \in {"consumeWrite", "consumeLog"} => s.rec.status \in {"consumed", "expired"}
  /\ HoldsApproval(s) => file[s.d].status # "absent" /\ file[s.d].call = s.rec.call
  /\ ActsOnApproval(s) => Logged(s.d, "approved")
  /\ s.pc = "release" => s.outcome = "allow"

FileFacts(d) ==
  /\ file[d].status # "absent" => audit[d].root = "ask"
  /\ file[d].status \in {"approved", "consumed", "expired"} => Logged(d, "approved")

OneAsker ==
  \A x, y \in Procs : At(x, "createPending") /\ At(y, "createPending") /\ x # y
                        => proc[x].d # proc[y].d

MatchedCall ==
  \A p \in Plugins : proc[p].outcome = "allow" => proc[p].call = proc[p].rec.call

HeldFactsStayTrue ==
  /\ \A x \in Procs : HeldFacts(proc[x])
  /\ \A d \in Decisions : FileFacts(d)
  /\ OneAsker
  /\ MatchedCall

\* In any deployment, an approval that a person gave lets each plugin release the
\* call at most once, even if it crashes; each runner starts it at most once, and
\* once more for every runner that dies between the command and the consumption.
ServesEachOnce ==
  \A d \in Decisions :
    /\ released[d] <= Cardinality(Plugins) * Count(d, "approved")
    /\ spawned[d] <= Cardinality(Runners) * Count(d, "approved") + crashes

\* No approval serves twice.
SingleUse == \A d \in Decisions : Uses(d) <= 1

\* A decision that was rejected, consumed or expired keeps its record.
FinalStays ==
  [][\A d \in Decisions : file[d].status \in Final => file'[d] = file[d]]_vars

\* Without a crash, and once no process is busy with a decision, the last line of
\* approvals.jsonl (which PolicyTimelineService shows) and the approval file
\* (which the consumers obey) agree.
LogAgrees ==
  crashes = 0 => \A d \in Decisions : ~InFlight(d) =>
    IF log[d] = << >> THEN file[d].status \in {"absent", "pending"}
                      ELSE file[d].status = log[d][Len(log[d])]

\* Nothing is let through or started after a rejection was recorded.
RejectedNeverUsed ==
  [][\A d \in Decisions : Logged(d, "rejected") => Uses(d)' = Uses(d)]_vars

\* Unless a crash cuts it off, a consumption reaches approvals.jsonl, and a logged
\* approval the file.
TrailCompleted ==
  \A d \in Decisions :
    /\ (file[d].status = "consumed") ~> (Logged(d, "consumed") \/ crashes > 0)
    /\ (Logged(d, "approved") /\ file[d].status = "pending") ~> (file[d].status = "approved" \/ crashes > 0)

\* The deployment in which the promise of single use holds: one plugin, one
\* person resolving at a time, and no policy:replay.
Serial ==
  /\ \A p, q \in Plugins : p = q
  /\ \A r, s \in Resolvers : r = s
  /\ Runners = {}

\* The serial deployment implements the abstract promise: the approval file is
\* the status, the uses are the uses.
Abstract == INSTANCE SingleUseApproval WITH
  status <- [d \in Decisions |-> file[d].status],
  uses <- [d \in Decisions |-> Uses(d)]
ImplementsSingleUse == Abstract!Spec
=============================================================================
