----------------------- MODULE PolicyApproval_proofs -----------------------
(***************************************************************************)
(* Theorems about PolicyApproval, for every value of its constants.        *)
(***************************************************************************)
EXTENDS PolicyApproval, FiniteSetTheorems, TLAPS

LEMMA IdleIsProcess == Idle \in Process
  BY DEF Idle, Process, NoRecord, Record, Unreadable, Steps, Outcomes

LEMMA MarkIsRecord ==
  ASSUME NEW rec \in Record, NEW status \in Status \union Unreadable
  PROVE  Mark(rec, status) \in Record /\ Mark(rec, status).call = rec.call
  BY DEF Mark, Record

LEMMA ConsumptionIsRecord ==
  ASSUME NEW rec \in Record, NEW matches \in BOOLEAN
  PROVE  /\ Consumption(rec, matches) \in Record
         /\ Consumption(rec, matches).call = rec.call
         /\ Consumption(rec, matches) # rec =>
              /\ rec.status = "approved"
              /\ Consumption(rec, matches).status \in {"consumed", "expired"}
         /\ Consumption(rec, matches).status = "consumed" =>
              rec.status = "consumed" \/ matches
  <1>1. /\ Mark(rec, "expired") \in Record /\ Mark(rec, "expired").call = rec.call
        /\ Mark(rec, "consumed") \in Record /\ Mark(rec, "consumed").call = rec.call
    BY MarkIsRecord DEF Status
  <1>2. Mark(rec, "expired").status = "expired" /\ Mark(rec, "consumed").status = "consumed"
    BY DEF Mark, Record
  <1>3. CASE rec.status # "approved"
    BY <1>3 DEF Consumption
  <1>4. CASE rec.status = "approved" /\ Expired(rec)
    BY <1>1, <1>2, <1>4 DEF Consumption
  <1>5. CASE rec.status = "approved" /\ ~Expired(rec) /\ ~matches
    BY <1>5 DEF Consumption
  <1>6. CASE rec.status = "approved" /\ ~Expired(rec) /\ matches
    BY <1>1, <1>2, <1>6 DEF Consumption
  <1>7. QED
    BY <1>3, <1>4, <1>5, <1>6

-----------------------------------------------------------------------------
(* What the building blocks of the actions do.                             *)

Others(x) == \A y \in Procs : y # x => proc'[y] = proc[y]

LEMMA BeginEffect ==
  ASSUME TypeOK, NEW x \in Procs, NEW pc \in Steps, NEW d \in Decisions,
         NEW c \in Calls \union {NoCall}, NEW rec \in Record, NEW outcome \in Outcomes,
         Begin(x, pc, d, c, rec, outcome)
  PROVE  /\ proc' \in [Procs -> Process] /\ ops' \in Nat
         /\ proc'[x] = [pc |-> pc, d |-> d, call |-> c, rec |-> rec, outcome |-> outcome]
         /\ Others(x)
  BY DEF Begin, TypeOK, Process, Others

LEMMA FinishEffect ==
  ASSUME TypeOK, NEW x \in Procs, Finish(x)
  PROVE  proc' \in [Procs -> Process] /\ proc'[x] = Idle /\ Others(x)
  BY IdleIsProcess DEF Finish, TypeOK, Others

LEMMA GotoEffect ==
  ASSUME TypeOK, NEW x \in Procs, NEW pc \in Steps, Goto(x, pc)
  PROVE  /\ proc' \in [Procs -> Process]
         /\ proc'[x] = [proc[x] EXCEPT !.pc = pc]
         /\ Others(x)
  BY ZenonT(40) DEF Goto, TypeOK, Others, Process

LEMMA WriteEffect ==
  ASSUME TypeOK, NEW x \in Procs, proc[x].d \in Decisions, WriteFile(x)
  PROVE  /\ file' \in [Decisions -> Record]
         /\ file'[proc[x].d] = proc[x].rec
         /\ \A d \in Decisions : d # proc[x].d => file'[d] = file[d]
  BY DEF WriteFile, TypeOK, Process

LEMMA AppendEffect ==
  ASSUME TypeOK, NEW x \in Procs,
         NEW d0 \in Decisions, proc[x].d = d0,
         NEW st \in Resolved \union Final, proc[x].rec.status = st,
         AppendLog(x)
  PROVE  /\ log' \in [Decisions -> Seq(Resolved \union Final)]
         /\ Logged(d0, st)'
         /\ \A d \in Decisions : \A status : Logged(d, status) => Logged(d, status)'
  <1>1. /\ log' = [log EXCEPT ![d0] = Append(log[d0], st)]
        /\ log \in [Decisions -> Seq(Resolved \union Final)]
    BY DEF AppendLog, TypeOK
  <1>2. log[d0] \in Seq(Resolved \union Final)
    BY <1>1
  <1>3. /\ Append(log[d0], st) \in Seq(Resolved \union Final)
        /\ DOMAIN Append(log[d0], st) = 1 .. Len(log[d0]) + 1
        /\ Append(log[d0], st)[Len(log[d0]) + 1] = st
        /\ \A i \in 1 .. Len(log[d0]) : Append(log[d0], st)[i] = log[d0][i]
        /\ Len(log[d0]) \in Nat /\ DOMAIN log[d0] = 1 .. Len(log[d0])
    BY <1>2
  <1>4. log'[d0] = Append(log[d0], st)
    BY <1>1
  <1>5. Logged(d0, st)'
    BY <1>3, <1>4 DEF Logged
  <1>6. ASSUME NEW d \in Decisions, NEW status, Logged(d, status)
        PROVE  Logged(d, status)'
    <2>1. CASE d = d0
      BY <1>3, <1>4, <1>6, <2>1, SMTT(30) DEF Logged
    <2>2. CASE d # d0
      BY <1>1, <1>6, <2>2 DEF Logged
    <2>3. QED
      BY <2>1, <2>2
  <1>7. log' \in [Decisions -> Seq(Resolved \union Final)]
    BY <1>1, <1>3
  <1>8. QED
    BY <1>5, <1>6, <1>7

-----------------------------------------------------------------------------
(* Typing and the facts processes hold, together: an inductive invariant.  *)

IInv == TypeOK /\ HeldFactsStayTrue /\ UseNeedsApproval

\* What every step does to the shared files: no approval file disappears or
\* changes its call, no line of approvals.jsonl is lost, no "ask" is forgotten.
FilesGrow ==
  \A d \in Decisions :
    /\ file[d].status # "absent" => file'[d].status # "absent" /\ file'[d].call = file[d].call
    /\ audit[d].root = "ask" => audit'[d].root = "ask"
    /\ \A status : Logged(d, status) => Logged(d, status)'

\* A process that does not move keeps its facts while the files grow, as long
\* as nobody creates the approval file it is about to create.
LEMMA FactsOfOthers ==
  ASSUME NEW s \in Process, HeldFacts(s), FilesGrow,
         s.pc = "createPending" => file'[s.d].status = "absent"
  PROVE  HeldFacts(s)'
  <1>1. CASE s.pc = "idle"
    BY <1>1 DEF HeldFacts, HoldsApproval, ActsOnApproval
  <1>2. CASE s.pc # "idle"
    <2>1. s.d \in Decisions
      BY <1>2 DEF HeldFacts
    <2>2. QED
      BY <2>1 DEF HeldFacts, FilesGrow, HoldsApproval, ActsOnApproval
  <1>3. QED
    BY <1>1, <1>2

\* A step of one process: what has to be shown of it for the invariant.
LEMMA StepOfOne ==
  ASSUME IInv, NEW x \in Procs, proc' \in [Procs -> Process], Others(x), FilesGrow,
         HeldFacts(proc[x])',
         \A d \in Decisions : FileFacts(d)',
         \A y \in Procs : y # x /\ proc[y].pc = "createPending" =>
            /\ file'[proc[y].d].status = "absent"
            /\ proc'[x].pc = "createPending" => proc'[x].d # proc[y].d,
         x \in Plugins /\ proc'[x].outcome = "allow" => proc'[x].call = proc'[x].rec.call
  PROVE  HeldFactsStayTrue'
  <1>1. ASSUME NEW y \in Procs
        PROVE  HeldFacts(proc[y])'
    <2>1. CASE y = x
      BY <2>1
    <2>2. CASE y # x
      <3>1. proc'[y] = proc[y] /\ proc[y] \in Process
        BY <2>2 DEF Others, IInv, TypeOK
      <3>2. PICK s \in Process : s = proc[y]
        BY <3>1
      <3>3. HeldFacts(s) /\ (s.pc = "createPending" => file'[s.d].status = "absent")
        BY <2>2, <3>2 DEF IInv, HeldFactsStayTrue
      <3>4. HeldFacts(s)'
        BY <3>3, FactsOfOthers
      <3>5. QED
        BY <3>1, <3>2, <3>4
    <2>3. QED
      BY <2>1, <2>2
  <1>2. OneAsker'
    <2> SUFFICES ASSUME NEW y \in Procs, NEW z \in Procs, y # z,
                        At(y, "createPending")', At(z, "createPending")'
                 PROVE  proc'[y].d # proc'[z].d
      BY DEF OneAsker
    <2>1. CASE y # x /\ z # x
      BY <2>1 DEF Others, IInv, HeldFactsStayTrue, OneAsker, At
    <2>2. CASE y = x \/ z = x
      BY <2>2 DEF Others, At
    <2>3. QED
      BY <2>1, <2>2
  <1>3. MatchedCall'
    <2> SUFFICES ASSUME NEW p \in Plugins, proc'[p].outcome = "allow"
                 PROVE  proc'[p].call = proc'[p].rec.call
      BY DEF MatchedCall
    <2>1. CASE p = x
      BY <2>1
    <2>2. CASE p # x
      BY <2>2 DEF Others, Procs, IInv, HeldFactsStayTrue, MatchedCall
    <2>3. QED
      BY <2>1, <2>2
  <1>4. QED
    BY <1>1, <1>2, <1>3 DEF HeldFactsStayTrue

\* Uses do not change: their approvals stay.
LEMMA UsesStay ==
  ASSUME IInv, FilesGrow, released' = released, spawned' = spawned
  PROVE  UseNeedsApproval'
  BY DEF IInv, FilesGrow, UseNeedsApproval, Uses

LEMMA FilesUnchanged ==
  ASSUME UNCHANGED <<file, log, audit>>
  PROVE  /\ FilesGrow
         /\ IInv => \A d \in Decisions : FileFacts(d)'
         /\ \A s : HeldFacts(s) => HeldFacts(s)'
  BY DEF FilesGrow, Logged, IInv, HeldFactsStayTrue, FileFacts, HeldFacts,
         HoldsApproval, ActsOnApproval

\* Facts about one process that its next step needs.
LEMMA Facts ==
  ASSUME IInv, NEW x \in Procs
  PROVE  /\ proc[x] \in Process
         /\ HeldFacts(proc[x])
         /\ proc[x].pc # "idle" => proc[x].d \in Decisions /\ FileFacts(proc[x].d)
  BY DEF IInv, TypeOK, HeldFactsStayTrue, HeldFacts

LEMMA AskStep ==
  ASSUME IInv, NEW p \in Plugins, NEW d \in Decisions, NEW c \in Calls,
         NEW action \in {"allow", "ask", "deny"}, Evaluate(p, d, c, action)
  PROVE  IInv'
  <1> p \in Procs
    BY DEF Procs
  <1>a. TypeOK /\ HeldFactsStayTrue
    BY DEF IInv
  <1>1. audit' \in [Decisions -> [root : {"none", "allow", "ask", "deny"}, allowed : Nat, denied : Nat]]
        /\ audit[d].root = "none" /\ audit'[d].root = action
        /\ \A e \in Decisions : e # d => audit'[e] = audit[e]
    BY <1>a DEF TypeOK, Evaluate
  <1>2. FilesGrow
    BY <1>1, <1>a DEF FilesGrow, Evaluate, HeldFactsStayTrue, FileFacts, Logged
  <1>3. \A e \in Decisions : FileFacts(e)'
    BY <1>1, <1>a DEF Evaluate, HeldFactsStayTrue, FileFacts, Logged
  <1>4. CASE action = "ask"
    <2> DEFINE rec == [status |-> "pending", call |-> c, expires |-> 0]
    <2>1. rec \in Record /\ Begin(p, "createPending", d, c, rec, "none")
      BY <1>4 DEF Evaluate, Record, Status
    <2>2. /\ proc' \in [Procs -> Process] /\ ops' \in Nat
          /\ proc'[p] = [pc |-> "createPending", d |-> d, call |-> c, rec |-> rec, outcome |-> "none"]
          /\ Others(p)
      <3> HIDE DEF rec
      <3> QED
        BY <1>a, <2>1, BeginEffect DEF Steps, Outcomes
    <2>3. file[d].status = "absent" /\ file' = file
      BY <1>1, <1>a DEF HeldFactsStayTrue, FileFacts, Evaluate
    <2>4. HeldFacts(proc[p])'
      BY <1>1, <1>4, <2>2, <2>3 DEF HeldFacts, HoldsApproval, ActsOnApproval
    <2>5. \A y \in Procs : proc[y].pc = "createPending" =>
             file'[proc[y].d].status = "absent" /\ proc[y].d # d
      BY <1>1, <1>a, <2>3 DEF HeldFactsStayTrue, HeldFacts
    <2>6. HeldFactsStayTrue'
      BY <1>2, <1>3, <2>2, <2>4, <2>5, StepOfOne
    <2>7. TypeOK'
      BY <1>1, <1>a, <2>2 DEF TypeOK, Evaluate
    <2>8. QED
      BY <1>2, <2>6, <2>7, UsesStay DEF IInv, Evaluate
  <1>5. CASE action # "ask"
    <2>1. proc' = proc /\ ops' \in Nat /\ file' = file
      BY <1>5, <1>a DEF Evaluate, TypeOK
    <2>2. Others(p) /\ proc' \in [Procs -> Process] /\ proc[p] = Idle
      BY <2>1, <1>a, <1>5 DEF Others, TypeOK, Evaluate
    <2>3. HeldFacts(proc[p])'
      BY <2>1, <2>2 DEF HeldFacts, Idle, HoldsApproval, ActsOnApproval
    <2>4. HeldFactsStayTrue'
      BY <1>2, <1>3, <1>a, <2>1, <2>2, <2>3, StepOfOne DEF HeldFactsStayTrue, HeldFacts, Idle
    <2>5. TypeOK'
      BY <1>1, <1>a, <2>1 DEF TypeOK, Evaluate
    <2>6. QED
      BY <1>2, <2>4, <2>5, UsesStay DEF IInv, Evaluate
  <1>6. QED
    BY <1>4, <1>5

LEMMA CreatePendingStep ==
  ASSUME IInv, NEW p \in Plugins, CreatePending(p)
  PROVE  IInv'
  <1> p \in Procs
    BY DEF Procs
  <1> DEFINE d == proc[p].d
             rec == proc[p].rec
  <1>a. TypeOK /\ HeldFactsStayTrue
    BY DEF IInv
  <1>1. /\ proc[p] \in Process /\ d \in Decisions /\ rec.status = "pending"
        /\ audit[d].root = "ask" /\ file[d].status = "absent"
    BY Facts DEF HeldFacts, CreatePending, At
  <1>2. /\ file' \in [Decisions -> Record] /\ file'[d] = rec
        /\ \A e \in Decisions : e # d => file'[e] = file[e]
    BY <1>1, <1>a, WriteEffect DEF CreatePending
  <1>3. proc' \in [Procs -> Process] /\ proc'[p] = Idle /\ Others(p)
    BY <1>a, FinishEffect DEF CreatePending
  <1>4. FilesGrow
    BY <1>1, <1>2 DEF FilesGrow, CreatePending, Logged
  <1>5. ASSUME NEW e \in Decisions
        PROVE  FileFacts(e)'
    BY <1>1, <1>2, <1>a DEF CreatePending, HeldFactsStayTrue, FileFacts, Logged
  <1>6. ASSUME NEW y \in Procs, y # p, proc[y].pc = "createPending"
        PROVE  file'[proc[y].d].status = "absent"
    <2>1. proc[y].d # d
      BY <1>6, <1>a DEF HeldFactsStayTrue, OneAsker, At, CreatePending
    <2>2. proc[y].d \in Decisions /\ file[proc[y].d].status = "absent"
      BY <1>6, <1>a DEF HeldFactsStayTrue, HeldFacts
    <2>3. QED
      BY <1>2, <2>1, <2>2
  <1>7. HeldFacts(proc[p])'
    BY <1>3 DEF HeldFacts, Idle, HoldsApproval, ActsOnApproval
  <1>8. HeldFactsStayTrue'
    BY <1>3, <1>4, <1>5, <1>6, <1>7, StepOfOne DEF Idle
  <1>9. TypeOK'
    BY <1>a, <1>2, <1>3 DEF TypeOK, CreatePending
  <1>10. QED
    BY <1>4, <1>8, <1>9, UsesStay DEF IInv, CreatePending

\* A step that only moves process x and leaves the files and the uses alone.
LEMMA LocalStep ==
  ASSUME IInv, NEW x \in Procs, proc' \in [Procs -> Process], Others(x),
         UNCHANGED <<file, log, audit, released, spawned>>,
         HeldFacts(proc[x])', proc'[x].pc # "createPending",
         x \in Plugins /\ proc'[x].outcome = "allow" => proc'[x].call = proc'[x].rec.call,
         replays' \in [Decisions -> SUBSET Outcomes],
         now' \in Nat, ops' \in Nat, crashes' \in Nat
  PROVE  IInv'
  <1>1. FilesGrow /\ \A d \in Decisions : FileFacts(d)'
    BY FilesUnchanged
  <1>2. \A y \in Procs : proc[y].pc = "createPending" => file'[proc[y].d].status = "absent"
    BY DEF IInv, HeldFactsStayTrue, HeldFacts
  <1>3. HeldFactsStayTrue'
    BY <1>1, <1>2, StepOfOne
  <1>4. TypeOK'
    BY DEF IInv, TypeOK
  <1>5. QED
    BY <1>1, <1>3, <1>4, UsesStay DEF IInv

LEMMA ResolveStep ==
  ASSUME IInv, NEW r \in Resolvers, NEW d \in Decisions, NEW verdict \in Resolved,
         Resolve(r, d, verdict)
  PROVE  IInv'
  <1> r \in Procs /\ r \notin Plugins
    BY ProcsAssumption DEF Procs
  <1> DEFINE rec == [Mark(file[d], verdict) EXCEPT
                       !.expires = IF verdict = "approved" THEN now + TTL ELSE 0]
  <1>a. TypeOK /\ HeldFactsStayTrue
    BY DEF IInv
  <1>1. file[d] \in Record /\ file[d].status = "pending" /\ now + TTL \in Nat
    BY <1>a, BoundsAssumption, SMTT(30) DEF Resolve, TypeOK
  <1>2. rec \in Record /\ rec.call = file[d].call /\ rec.status = verdict
    BY <1>1 DEF Mark, Record, Status, Resolved
  <1>3. Begin(r, "resolveLog", d, NoCall, rec, "none")
    BY DEF Resolve
  <1> HIDE DEF rec
  <1>4. /\ proc' \in [Procs -> Process] /\ ops' \in Nat
        /\ proc'[r] = [pc |-> "resolveLog", d |-> d, call |-> NoCall, rec |-> rec, outcome |-> "none"]
        /\ Others(r)
    BY <1>a, <1>2, <1>3, BeginEffect DEF Steps, Outcomes
  <1>5. HeldFacts(proc[r])'
    BY <1>1, <1>2, <1>4 DEF HeldFacts, HoldsApproval, ActsOnApproval, Resolve
  <1>6. proc'[r].pc # "createPending"
    BY <1>4
  <1>7. /\ UNCHANGED <<file, log, audit, released, spawned>>
        /\ replays' \in [Decisions -> SUBSET Outcomes] /\ now' \in Nat /\ crashes' \in Nat
    BY <1>a DEF Resolve, TypeOK
  <1>8. QED
    BY <1>4, <1>5, <1>6, <1>7, LocalStep

LEMMA ResolveLogStep ==
  ASSUME IInv, NEW r \in Resolvers, ResolveLog(r)
  PROVE  IInv'
  <1> r \in Procs /\ r \notin Plugins
    BY ProcsAssumption DEF Procs
  <1>a. TypeOK /\ HeldFactsStayTrue
    BY DEF IInv
  <1>1. /\ proc[r] \in Process /\ HeldFacts(proc[r]) /\ proc[r].pc = "resolveLog"
        /\ proc[r].d \in Decisions /\ proc[r].rec.status \in Resolved
    BY Facts DEF HeldFacts, ResolveLog, At
  <1>2. PICK d \in Decisions, st \in Resolved : d = proc[r].d /\ st = proc[r].rec.status
    BY <1>1
  <1>3. /\ log' \in [Decisions -> Seq(Resolved \union Final)] /\ Logged(d, st)'
        /\ \A e \in Decisions : \A status : Logged(e, status) => Logged(e, status)'
    BY <1>a, <1>2, AppendEffect DEF ResolveLog
  <1>4. /\ proc' \in [Procs -> Process] /\ Others(r)
        /\ proc'[r] = [proc[r] EXCEPT !.pc = "resolveWrite"]
    BY <1>a, GotoEffect DEF ResolveLog, Steps
  <1>5. FilesGrow
    BY <1>3 DEF FilesGrow, ResolveLog
  <1>6. \A e \in Decisions : FileFacts(e)'
    BY <1>3, <1>a DEF HeldFactsStayTrue, FileFacts, ResolveLog
  <1>7. HeldFacts(proc[r])'
    <2>1. proc'[r].pc = "resolveWrite" /\ proc'[r].d = d /\ proc'[r].rec = proc[r].rec
      BY <1>1, <1>2, <1>4 DEF Process
    <2>2. file' = file /\ file[d].status # "absent" /\ file[d].call = proc[r].rec.call
      BY <1>1, <1>2 DEF HeldFacts, HoldsApproval, ActsOnApproval, ResolveLog
    <2>3. Logged(proc[r].d, proc[r].rec.status)'
      BY <1>2, <1>3, <2>1
    <2>4. QED
      BY <1>1, <1>2, <2>1, <2>2, <2>3 DEF HeldFacts, HoldsApproval, ActsOnApproval
  <1>8. \A y \in Procs : proc[y].pc = "createPending" => file'[proc[y].d].status = "absent"
    BY <1>a DEF HeldFactsStayTrue, HeldFacts, ResolveLog
  <1>9. HeldFactsStayTrue'
    BY <1>1, <1>4, <1>5, <1>6, <1>7, <1>8, StepOfOne DEF Process
  <1>10. TypeOK'
    BY <1>a, <1>3, <1>4 DEF TypeOK, ResolveLog
  <1>11. QED
    BY <1>5, <1>9, <1>10, UsesStay DEF IInv, ResolveLog

\* The write of a record whose status justifies itself: resolveWrite, consumeWrite.
LEMMA WriteKeeps ==
  ASSUME IInv, NEW x \in Procs, WriteFile(x), HoldsApproval(proc[x]),
         UNCHANGED <<log, audit>>,
         proc[x].rec.status \in Final \union Resolved,
         proc[x].rec.status \in {"approved", "consumed", "expired"} => Logged(proc[x].d, "approved")
  PROVE  /\ file' \in [Decisions -> Record] /\ FilesGrow
         /\ \A d \in Decisions : FileFacts(d)'
         /\ \A y \in Procs : proc[y].pc = "createPending" => file'[proc[y].d].status = "absent"
  <1>a. TypeOK /\ HeldFactsStayTrue
    BY DEF IInv
  <1>1. proc[x].pc # "idle" /\ HeldFacts(proc[x])
    BY Facts DEF HoldsApproval, ActsOnApproval
  <1>2. PICK d \in Decisions : d = proc[x].d
    BY <1>1 DEF HeldFacts
  <1>3. /\ file[d].status # "absent" /\ file[d].call = proc[x].rec.call
        /\ audit[d].root = "ask"
    BY <1>1, <1>2, <1>a DEF HeldFacts, HeldFactsStayTrue, FileFacts
  <1>4. /\ file' \in [Decisions -> Record] /\ file'[d] = proc[x].rec
        /\ \A e \in Decisions : e # d => file'[e] = file[e]
    BY <1>2, <1>a, WriteEffect
  <1>5. FilesGrow
    BY <1>3, <1>4 DEF FilesGrow, Logged, Final, Resolved
  <1>6. ASSUME NEW e \in Decisions PROVE FileFacts(e)'
    BY <1>2, <1>3, <1>4, <1>a DEF HeldFactsStayTrue, FileFacts, Logged
  <1>7. ASSUME NEW y \in Procs, proc[y].pc = "createPending"
        PROVE  file'[proc[y].d].status = "absent"
    BY <1>3, <1>4, <1>7, <1>a DEF HeldFactsStayTrue, HeldFacts
  <1>8. QED
    BY <1>4, <1>5, <1>6, <1>7

LEMMA ResolveWriteStep ==
  ASSUME IInv, NEW r \in Resolvers, ResolveWrite(r)
  PROVE  IInv'
  <1> r \in Procs /\ r \notin Plugins
    BY ProcsAssumption DEF Procs
  <1>a. TypeOK /\ HeldFactsStayTrue
    BY DEF IInv
  <1>1. /\ HoldsApproval(proc[r]) /\ proc[r].rec.status \in Resolved
        /\ Logged(proc[r].d, proc[r].rec.status)
    BY Facts DEF HeldFacts, ResolveWrite, At, HoldsApproval
  <1>2. /\ file' \in [Decisions -> Record] /\ FilesGrow
        /\ \A d \in Decisions : FileFacts(d)'
        /\ \A y \in Procs : proc[y].pc = "createPending" => file'[proc[y].d].status = "absent"
    BY <1>1, WriteKeeps DEF ResolveWrite, Resolved
  <1>3. proc' \in [Procs -> Process] /\ proc'[r] = Idle /\ Others(r)
    BY <1>a, FinishEffect DEF ResolveWrite
  <1>4. HeldFacts(proc[r])'
    BY <1>3 DEF HeldFacts, Idle, HoldsApproval, ActsOnApproval
  <1>5. HeldFactsStayTrue'
    BY <1>2, <1>3, <1>4, StepOfOne DEF Idle
  <1>6. TypeOK'
    BY <1>a, <1>2, <1>3 DEF TypeOK, ResolveWrite
  <1>7. QED
    BY <1>2, <1>5, <1>6, UsesStay DEF IInv, ResolveWrite

LEMMA ReplayStep ==
  ASSUME IInv, NEW p \in Plugins, NEW d \in Decisions, NEW c \in Calls, Replay(p, d, c)
  PROVE  IInv'
  <1> p \in Procs
    BY DEF Procs
  <1> DEFINE rec == Consumption(file[d], SameCall(file[d], c))
  <1>a. TypeOK /\ HeldFactsStayTrue
    BY DEF IInv
  <1>1. file[d] \in Record /\ file[d].status # "absent"
    BY <1>a DEF TypeOK, Replay, Readable, Unreadable
  <1>2. /\ rec \in Record /\ rec.call = file[d].call
        /\ rec # file[d] => file[d].status = "approved" /\ rec.status \in {"consumed", "expired"}
        /\ rec.status = "consumed" => file[d].status = "consumed" \/ SameCall(file[d], c)
    BY <1>1, ConsumptionIsRecord DEF SameCall
  <1>3. /\ UNCHANGED <<file, log, audit, released, spawned>>
        /\ replays' \in [Decisions -> SUBSET Outcomes] /\ now' \in Nat /\ crashes' \in Nat
    BY <1>a DEF Replay, TypeOK
  <1>4. CASE rec = file[d]
    <2>1. Begin(p, "auditReplay", d, c, rec, "deny")
      BY <1>4 DEF Replay
    <2> HIDE DEF rec
    <2>2. /\ proc' \in [Procs -> Process] /\ ops' \in Nat
          /\ proc'[p] = [pc |-> "auditReplay", d |-> d, call |-> c, rec |-> rec, outcome |-> "deny"]
          /\ Others(p)
      BY <1>a, <1>2, <2>1, BeginEffect DEF Steps, Outcomes
    <2>3. HeldFacts(proc[p])'
      BY <1>1, <1>2, <1>3, <2>2 DEF HeldFacts, HoldsApproval, ActsOnApproval
    <2>4. proc'[p].pc # "createPending" /\ proc'[p].outcome # "allow"
      BY <2>2
    <2>5. QED
      BY <1>3, <2>2, <2>3, <2>4, LocalStep
  <1>5. CASE rec # file[d]
    <2> DEFINE verdict == IF rec.status = "consumed" THEN "allow" ELSE "deny"
    <2>1. Begin(p, "consumeWrite", d, c, rec, verdict)
      BY <1>5 DEF Replay
    <2>2. Logged(d, "approved") /\ (verdict = "allow" => c = rec.call)
      BY <1>2, <1>5, <1>a DEF HeldFactsStayTrue, FileFacts, SameCall
    <2>3. verdict \in Outcomes
      BY DEF Outcomes
    <2> HIDE DEF rec, verdict
    <2>4. /\ proc' \in [Procs -> Process] /\ ops' \in Nat
          /\ proc'[p] = [pc |-> "consumeWrite", d |-> d, call |-> c, rec |-> rec, outcome |-> verdict]
          /\ Others(p)
      BY <1>a, <1>2, <2>1, <2>3, BeginEffect DEF Steps
    <2>5. Logged(d, "approved")'
      BY <1>3, <2>2 DEF Logged
    <2>6. HeldFacts(proc[p])'
      BY <1>1, <1>2, <1>3, <1>5, <2>4, <2>5 DEF HeldFacts, HoldsApproval, ActsOnApproval
    <2>7. proc'[p].pc # "createPending"
      BY <2>4
    <2>8. proc'[p].outcome = "allow" => proc'[p].call = proc'[p].rec.call
      BY <2>2, <2>4
    <2>9. QED
      BY <1>3, <2>4, <2>6, <2>7, <2>8, LocalStep
  <1>6. QED
    BY <1>4, <1>5

LEMMA ConsumeReadStep ==
  ASSUME IInv, NEW q \in Runners, ConsumeRead(q)
  PROVE  IInv'
  <1> q \in Procs /\ q \notin Plugins
    BY ProcsAssumption DEF Procs
  <1>a. TypeOK /\ HeldFactsStayTrue
    BY DEF IInv
  <1>1. PICK s \in Process : s = proc[q]
    BY Facts
  <1>2. /\ s.pc = "consumeRead" /\ HeldFacts(s) /\ s.d \in Decisions
        /\ Logged(s.d, "approved")
        /\ file[s.d].status # "absent" /\ file[s.d].call = s.rec.call /\ file[s.d] \in Record
    BY <1>1, <1>a, Facts DEF HeldFacts, ConsumeRead, At, HoldsApproval, ActsOnApproval, TypeOK
  <1> DEFINE rec == Consumption(file[s.d], TRUE)
  <1>3. /\ rec \in Record /\ rec.call = file[s.d].call
        /\ rec # file[s.d] => rec.status \in {"consumed", "expired"}
    BY <1>2, ConsumptionIsRecord
  <1>4. /\ UNCHANGED <<file, log, audit, released, spawned>>
        /\ replays' \in [Decisions -> SUBSET Outcomes]
        /\ now' \in Nat /\ ops' \in Nat /\ crashes' \in Nat
    BY <1>a DEF ConsumeRead, TypeOK
  <1>5. CASE Finish(q)
    <2>1. proc' \in [Procs -> Process] /\ proc'[q] = Idle /\ Others(q)
      BY <1>5, <1>a, FinishEffect
    <2>2. HeldFacts(proc[q])' /\ proc'[q].pc # "createPending"
      BY <2>1 DEF HeldFacts, Idle, HoldsApproval, ActsOnApproval
    <2>3. QED
      BY <1>4, <2>1, <2>2, LocalStep
  <1>6. CASE Goto(q, "report")
    <2>1. /\ proc' \in [Procs -> Process] /\ Others(q)
          /\ proc'[q] = [s EXCEPT !.pc = "report"]
      BY <1>1, <1>6, <1>a, GotoEffect DEF Steps
    <2>2. proc'[q].pc = "report" /\ proc'[q].d = s.d
      BY <2>1 DEF Process
    <2>3. HeldFacts(proc[q])'
      BY <1>2, <2>2 DEF HeldFacts, HoldsApproval, ActsOnApproval
    <2>4. QED
      BY <1>4, <2>1, <2>2, <2>3, LocalStep
  <1>7. CASE /\ rec # file[s.d]
             /\ proc' = [proc EXCEPT ![q].pc = "consumeWrite", ![q].rec = rec]
    <2>1. rec.status \in {"consumed", "expired"} /\ rec \in Record /\ rec.call = file[s.d].call
      BY <1>3, <1>7
    <2> HIDE DEF rec
    <2>2. proc'[q] = [s EXCEPT !.pc = "consumeWrite", !.rec = rec] /\ Others(q)
      BY <1>1, <1>7, <1>a DEF TypeOK, Others
    <2>3. /\ proc'[q].pc = "consumeWrite" /\ proc'[q].d = s.d /\ proc'[q].rec = rec
          /\ proc'[q] \in Process
      BY <2>1, <2>2 DEF Process, Steps
    <2>4. proc' \in [Procs -> Process]
      BY <1>7, <1>a, <2>3 DEF TypeOK
    <2>5. Logged(s.d, "approved")'
      BY <1>2, <1>4 DEF Logged
    <2>6. HeldFacts(proc[q])'
      BY <1>2, <1>4, <2>1, <2>3, <2>5 DEF HeldFacts, HoldsApproval, ActsOnApproval
    <2>7. QED
      BY <1>4, <2>2, <2>3, <2>4, <2>6, LocalStep
  <1>8. QED
    BY <1>1, <1>5, <1>6, <1>7 DEF ConsumeRead

LEMMA ConsumeWriteStep ==
  ASSUME IInv, NEW x \in Plugins \union Runners, ConsumeWrite(x)
  PROVE  IInv'
  <1> x \in Procs
    BY DEF Procs
  <1>a. TypeOK /\ HeldFactsStayTrue
    BY DEF IInv
  <1>1. PICK s \in Process : s = proc[x]
    BY Facts
  <1>2. /\ s.pc = "consumeWrite" /\ HeldFacts(s) /\ s.d \in Decisions
        /\ s.rec.status \in {"consumed", "expired"} /\ Logged(s.d, "approved")
        /\ HoldsApproval(s)
    BY <1>1, Facts DEF HeldFacts, ConsumeWrite, At, HoldsApproval, ActsOnApproval
  <1>3. /\ file' \in [Decisions -> Record] /\ FilesGrow
        /\ \A d \in Decisions : FileFacts(d)'
        /\ \A y \in Procs : proc[y].pc = "createPending" => file'[proc[y].d].status = "absent"
    BY <1>1, <1>2, WriteKeeps DEF ConsumeWrite, Final
  <1>4. /\ proc' \in [Procs -> Process] /\ Others(x)
        /\ proc'[x] = [s EXCEPT !.pc = "consumeLog"]
    BY <1>1, <1>a, GotoEffect DEF ConsumeWrite, Steps
  <1>5. /\ proc'[x].pc = "consumeLog" /\ proc'[x].d = s.d /\ proc'[x].rec = s.rec
        /\ proc'[x].call = s.call /\ proc'[x].outcome = s.outcome
    BY <1>4 DEF Process
  <1>6. file'[s.d].status # "absent" /\ file'[s.d].call = s.rec.call /\ Logged(s.d, "approved")'
    BY <1>2, <1>3 DEF FilesGrow, HeldFacts
  <1>7. HeldFacts(proc[x])'
    BY <1>2, <1>5, <1>6 DEF HeldFacts, HoldsApproval, ActsOnApproval
  <1>8. x \in Plugins /\ proc'[x].outcome = "allow" => proc'[x].call = proc'[x].rec.call
    BY <1>1, <1>5, <1>a DEF HeldFactsStayTrue, MatchedCall
  <1>9. HeldFactsStayTrue'
    BY <1>3, <1>4, <1>5, <1>7, <1>8, StepOfOne
  <1>10. TypeOK'
    BY <1>a, <1>3, <1>4 DEF TypeOK, ConsumeWrite
  <1>11. QED
    BY <1>3, <1>9, <1>10, UsesStay DEF IInv, ConsumeWrite

LEMMA ConsumeLogStep ==
  ASSUME IInv, NEW x \in Plugins \union Runners, ConsumeLog(x)
  PROVE  IInv'
  <1> x \in Procs
    BY DEF Procs
  <1>a. TypeOK /\ HeldFactsStayTrue
    BY DEF IInv
  <1>1. PICK s \in Process : s = proc[x]
    BY Facts
  <1>2. /\ s.pc = "consumeLog" /\ HeldFacts(s) /\ s.d \in Decisions
        /\ s.rec.status \in {"consumed", "expired"} /\ Logged(s.d, "approved")
        /\ file[s.d].status # "absent" /\ file[s.d].call = s.rec.call
    BY <1>1, Facts DEF HeldFacts, ConsumeLog, At, HoldsApproval, ActsOnApproval
  <1>3. PICK d \in Decisions, st \in Final : d = s.d /\ st = s.rec.status
    BY <1>2 DEF Final
  <1>4. /\ log' \in [Decisions -> Seq(Resolved \union Final)]
        /\ \A e \in Decisions : \A status : Logged(e, status) => Logged(e, status)'
    BY <1>a, <1>1, <1>3, AppendEffect DEF ConsumeLog
  <1>5. PICK pc \in {"auditReplay", "report"} : Goto(x, pc)
    BY DEF ConsumeLog
  <1>6. /\ proc' \in [Procs -> Process] /\ Others(x)
        /\ proc'[x] = [s EXCEPT !.pc = pc]
    BY <1>1, <1>5, <1>a, GotoEffect DEF Steps
  <1>7. /\ proc'[x].pc = pc /\ proc'[x].d = s.d /\ proc'[x].rec = s.rec
        /\ proc'[x].call = s.call /\ proc'[x].outcome = s.outcome
    BY <1>6 DEF Process
  <1>8. FilesGrow
    BY <1>4 DEF FilesGrow, ConsumeLog
  <1>9. \A e \in Decisions : FileFacts(e)'
    BY <1>4, <1>a DEF HeldFactsStayTrue, FileFacts, ConsumeLog
  <1>10. file' = file /\ Logged(s.d, "approved")'
    BY <1>2, <1>4 DEF ConsumeLog
  <1>11. HeldFacts(proc[x])'
    BY <1>2, <1>7, <1>10 DEF HeldFacts, HoldsApproval, ActsOnApproval
  <1>12. x \in Plugins /\ proc'[x].outcome = "allow" => proc'[x].call = proc'[x].rec.call
    BY <1>1, <1>7, <1>a DEF HeldFactsStayTrue, MatchedCall
  <1>13. \A y \in Procs : proc[y].pc = "createPending" => file'[proc[y].d].status = "absent"
    BY <1>10, <1>a DEF HeldFactsStayTrue, HeldFacts
  <1>14. HeldFactsStayTrue'
    BY <1>6, <1>7, <1>8, <1>9, <1>11, <1>12, <1>13, StepOfOne
  <1>15. TypeOK'
    BY <1>a, <1>4, <1>6 DEF TypeOK, ConsumeLog
  <1>16. QED
    BY <1>8, <1>14, <1>15, UsesStay DEF IInv, ConsumeLog

LEMMA AuditReplayStep ==
  ASSUME IInv, NEW p \in Plugins, AuditReplay(p)
  PROVE  IInv'
  <1> p \in Procs
    BY DEF Procs
  <1>a. TypeOK /\ HeldFactsStayTrue
    BY DEF IInv
  <1>1. PICK s \in Process : s = proc[p]
    BY Facts
  <1>2. /\ s.pc = "auditReplay" /\ HeldFacts(s) /\ s.d \in Decisions
        /\ s.outcome = "allow" => Logged(s.d, "approved")
        /\ file[s.d].status # "absent" /\ file[s.d].call = s.rec.call
    BY <1>1, Facts DEF HeldFacts, AuditReplay, At, HoldsApproval, ActsOnApproval
  <1>3. /\ audit' \in [Decisions -> [root : {"none", "allow", "ask", "deny"},
                                     allowed : Nat, denied : Nat]]
        /\ \A d \in Decisions : audit'[d].root = audit[d].root
    <2> DEFINE Entry == [root : {"none", "allow", "ask", "deny"}, allowed : Nat, denied : Nat]
    <2>1. PICK d \in Decisions : d = s.d
      BY <1>2
    <2>2. audit \in [Decisions -> Entry]
      BY <1>a DEF TypeOK
    <2>3. PICK e \in Entry : audit' = [audit EXCEPT ![d] = e] /\ e.root = audit[d].root
      <3>1. audit[d] \in Entry
        BY <2>2
      <3>2. CASE s.outcome = "allow"
        <4> DEFINE e == [audit[d] EXCEPT !.allowed = @ + 1]
        <4>1. audit' = [audit EXCEPT ![d] = e]
          BY <1>1, <2>1, <3>2 DEF AuditReplay
        <4>2. e \in Entry /\ e.root = audit[d].root
          BY <3>1
        <4>3. QED
          BY <4>1, <4>2
      <3>3. CASE s.outcome # "allow"
        <4> DEFINE e == [audit[d] EXCEPT !.denied = @ + 1]
        <4>1. audit' = [audit EXCEPT ![d] = e]
          BY <1>1, <2>1, <3>3 DEF AuditReplay
        <4>2. e \in Entry /\ e.root = audit[d].root
          BY <3>1
        <4>3. QED
          BY <4>1, <4>2
      <3>4. QED
        BY <3>2, <3>3
    <2> HIDE DEF Entry
    <2>4. audit' \in [Decisions -> Entry] /\ \A c \in Decisions : audit'[c].root = audit[c].root
      BY <2>2, <2>3
    <2>5. QED
      BY <2>4 DEF Entry
  <1>4. FilesGrow
    BY <1>3 DEF FilesGrow, AuditReplay, Logged
  <1>5. \A d \in Decisions : FileFacts(d)'
    BY <1>3, <1>a DEF HeldFactsStayTrue, FileFacts, AuditReplay, Logged
  <1>6. \A y \in Procs : proc[y].pc = "createPending" => file'[proc[y].d].status = "absent"
    BY <1>a DEF HeldFactsStayTrue, HeldFacts, AuditReplay
  <1>7. /\ proc' \in [Procs -> Process] /\ Others(p) /\ HeldFacts(proc[p])'
        /\ proc'[p].pc # "createPending"
        /\ proc'[p].outcome = "allow" => proc'[p].call = proc'[p].rec.call
    <2>1. CASE s.outcome = "allow"
      <3>1. /\ proc' \in [Procs -> Process] /\ Others(p)
            /\ proc'[p] = [s EXCEPT !.pc = "release"]
        BY <1>1, <1>a, <2>1, GotoEffect DEF AuditReplay, Steps
      <3>2. /\ proc'[p].pc = "release" /\ proc'[p].d = s.d /\ proc'[p].rec = s.rec
            /\ proc'[p].call = s.call /\ proc'[p].outcome = "allow"
        BY <2>1, <3>1 DEF Process
      <3>3. file' = file /\ Logged(s.d, "approved")'
        BY <1>2, <2>1 DEF AuditReplay, Logged
      <3>4. HeldFacts(proc[p])'
        BY <1>2, <3>2, <3>3 DEF HeldFacts, HoldsApproval, ActsOnApproval
      <3>5. proc'[p].call = proc'[p].rec.call
        BY <1>1, <2>1, <3>2, <1>a DEF HeldFactsStayTrue, MatchedCall
      <3>6. QED
        BY <3>1, <3>2, <3>4, <3>5
    <2>2. CASE s.outcome # "allow"
      <3>1. proc' \in [Procs -> Process] /\ proc'[p] = Idle /\ Others(p)
        BY <1>1, <1>a, <2>2, FinishEffect DEF AuditReplay
      <3>2. QED
        BY <3>1 DEF HeldFacts, Idle, HoldsApproval, ActsOnApproval
    <2>3. QED
      BY <2>1, <2>2
  <1>8. HeldFactsStayTrue'
    BY <1>4, <1>5, <1>6, <1>7, StepOfOne
  <1>9. TypeOK'
    BY <1>a, <1>3, <1>7 DEF TypeOK, AuditReplay
  <1>10. QED
    BY <1>4, <1>8, <1>9, UsesStay DEF IInv, AuditReplay

\* A step that uses an approval: the plugin's release and the runner's spawn.
LEMMA UseStep ==
  ASSUME IInv, NEW x \in Procs, ActsOnApproval(proc[x]),
         UNCHANGED <<file, log, audit, replays, now, ops, crashes>>,
         \/ released' = [released EXCEPT ![proc[x].d] = @ + 1] /\ spawned' = spawned
         \/ spawned' = [spawned EXCEPT ![proc[x].d] = @ + 1] /\ released' = released,
         proc' \in [Procs -> Process], Others(x), HeldFacts(proc[x])',
         proc'[x].pc # "createPending",
         x \in Plugins /\ proc'[x].outcome = "allow" => proc'[x].call = proc'[x].rec.call
  PROVE  IInv'
  <1>a. TypeOK /\ HeldFactsStayTrue
    BY DEF IInv
  <1>1. PICK d \in Decisions : d = proc[x].d
    BY Facts, SMTT(30) DEF ActsOnApproval, HeldFacts
  <1>2. audit[d].root = "ask" /\ Logged(d, "approved")
    BY <1>1, <1>a, Facts DEF HeldFacts, HoldsApproval, FileFacts, HeldFactsStayTrue, ActsOnApproval
  <1>3. FilesGrow /\ \A e \in Decisions : FileFacts(e)'
    BY FilesUnchanged
  <1>4. \A y \in Procs : proc[y].pc = "createPending" => file'[proc[y].d].status = "absent"
    BY <1>a DEF HeldFactsStayTrue, HeldFacts
  <1>5. HeldFactsStayTrue'
    BY <1>3, <1>4, StepOfOne
  <1>6. TypeOK'
    <2>1. released' \in [Decisions -> Nat] /\ spawned' \in [Decisions -> Nat]
      <3>a. released \in [Decisions -> Nat] /\ spawned \in [Decisions -> Nat]
        BY <1>a, Zenon DEF TypeOK
      <3>1. released[d] + 1 \in Nat /\ spawned[d] + 1 \in Nat
        BY <3>a
      <3>2. \/ released' = [released EXCEPT ![d] = released[d] + 1] /\ spawned' = spawned
            \/ spawned' = [spawned EXCEPT ![d] = spawned[d] + 1] /\ released' = released
        BY <1>1
      <3>3. QED
        BY <3>a, <3>1, <3>2
    <2>2. QED
      BY <1>a, <2>1, Zenon DEF TypeOK
  <1>7. UseNeedsApproval'
    <2> SUFFICES ASSUME NEW e \in Decisions, Uses(e)' > 0
                 PROVE  audit'[e].root = "ask" /\ Logged(e, "approved")'
      BY DEF UseNeedsApproval
    <2>1. CASE e = d
      BY <1>2, <2>1 DEF Logged
    <2>2. CASE e # d
      <3>1. Uses(e) > 0
        BY <1>1, <2>2, <1>a DEF Uses, TypeOK
      <3>2. QED
        BY <3>1 DEF IInv, UseNeedsApproval, Logged
    <2>3. QED
      BY <2>1, <2>2
  <1>8. QED
    BY <1>5, <1>6, <1>7 DEF IInv

LEMMA ReleaseStep ==
  ASSUME IInv, NEW p \in Plugins, Release(p)
  PROVE  IInv'
  <1> p \in Procs
    BY DEF Procs
  <1>1. proc' \in [Procs -> Process] /\ proc'[p] = Idle /\ Others(p)
    BY FinishEffect DEF Release, IInv
  <1>2. HeldFacts(proc[p])' /\ proc'[p].pc # "createPending" /\ proc'[p].outcome # "allow"
    BY <1>1 DEF HeldFacts, Idle, HoldsApproval, ActsOnApproval
  <1>3. ActsOnApproval(proc[p])
    BY DEF Release, At, ActsOnApproval
  <1>4. QED
    BY <1>1, <1>2, <1>3, UseStep DEF Release

LEMMA SpawnStep ==
  ASSUME IInv, NEW q \in Runners, Spawn(q)
  PROVE  IInv'
  <1> q \in Procs /\ q \notin Plugins
    BY ProcsAssumption DEF Procs
  <1>1. PICK s \in Process : s = proc[q]
    BY Facts
  <1>2. /\ s.pc = "spawn" /\ HeldFacts(s) /\ s.d \in Decisions /\ ActsOnApproval(s)
        /\ Logged(s.d, "approved")
        /\ file[s.d].status # "absent" /\ file[s.d].call = s.rec.call
    BY <1>1, Facts DEF HeldFacts, Spawn, At, HoldsApproval, ActsOnApproval
  <1>3. /\ proc' \in [Procs -> Process] /\ Others(q)
        /\ proc'[q] = [s EXCEPT !.pc = "running"]
    BY <1>1, GotoEffect DEF Spawn, Steps, IInv
  <1>4. proc'[q].pc = "running" /\ proc'[q].d = s.d /\ proc'[q].rec = s.rec
    BY <1>3 DEF Process
  <1>5. file' = file /\ Logged(s.d, "approved")'
    BY <1>2 DEF Spawn, Logged
  <1>6. HeldFacts(proc[q])' /\ proc'[q].pc # "createPending"
    BY <1>2, <1>4, <1>5 DEF HeldFacts, HoldsApproval, ActsOnApproval
  <1>7. QED
    BY <1>1, <1>2, <1>3, <1>6, UseStep DEF Spawn

LEMMA PlanStep ==
  ASSUME IInv, NEW q \in Runners, NEW d \in Decisions, DryRun(q, d) \/ Plan(q, d)
  PROVE  IInv'
  <1> q \in Procs /\ q \notin Plugins
    BY ProcsAssumption DEF Procs
  <1>a. TypeOK /\ HeldFactsStayTrue
    BY DEF IInv
  <1>1. file[d] \in Record
    BY <1>a DEF TypeOK
  <1>2. /\ UNCHANGED <<file, log, audit, released, spawned>>
        /\ replays' \in [Decisions -> SUBSET Outcomes] /\ now' \in Nat /\ crashes' \in Nat
    BY <1>a DEF DryRun, Plan, TypeOK
  <1>3. ASSUME NEW outcome \in Outcomes, Begin(q, "report", d, NoCall, file[d], outcome)
        PROVE  IInv'
    <2>1. /\ proc' \in [Procs -> Process] /\ ops' \in Nat
          /\ proc'[q] = [pc |-> "report", d |-> d, call |-> NoCall, rec |-> file[d],
                         outcome |-> outcome]
          /\ Others(q)
      BY <1>1, <1>3, <1>a, BeginEffect DEF Steps
    <2>2. HeldFacts(proc[q])' /\ proc'[q].pc # "createPending"
      BY <2>1 DEF HeldFacts, HoldsApproval, ActsOnApproval
    <2>3. QED
      BY <1>2, <2>1, <2>2, LocalStep
  <1>4. ASSUME Replayable(file[d]), Begin(q, "spawn", d, NoCall, file[d], "none")
        PROVE  IInv'
    <2>1. /\ proc' \in [Procs -> Process] /\ ops' \in Nat
          /\ proc'[q] = [pc |-> "spawn", d |-> d, call |-> NoCall, rec |-> file[d],
                         outcome |-> "none"]
          /\ Others(q)
      BY <1>1, <1>4, <1>a, BeginEffect DEF Steps, Outcomes
    <2>2. file[d].status = "approved" /\ Logged(d, "approved")
      BY <1>4, <1>a DEF Replayable, HeldFactsStayTrue, FileFacts
    <2>3. file' = file /\ Logged(d, "approved")'
      BY <1>2, <2>2 DEF Logged
    <2>4. HeldFacts(proc[q])' /\ proc'[q].pc # "createPending"
      BY <2>1, <2>2, <2>3 DEF HeldFacts, HoldsApproval, ActsOnApproval
    <2>5. QED
      BY <1>2, <2>1, <2>4, LocalStep
  <1>5. \/ \E outcome \in Outcomes : Begin(q, "report", d, NoCall, file[d], outcome)
        \/ Replayable(file[d]) /\ Begin(q, "spawn", d, NoCall, file[d], "none")
    BY DEF DryRun, Plan, Outcomes
  <1>6. QED
    BY <1>3, <1>4, <1>5

LEMMA ChildStep ==
  ASSUME IInv, NEW q \in Runners, NEW outcome \in {"executed", "failed"},
         SpawnError(q) \/ Exit(q, outcome)
  PROVE  IInv'
  <1> q \in Procs /\ q \notin Plugins
    BY ProcsAssumption DEF Procs
  <1>a. TypeOK /\ HeldFactsStayTrue
    BY DEF IInv
  <1>1. PICK s \in Process : s = proc[q]
    BY Facts
  <1>2. PICK pc \in {"report", "consumeRead"}, out \in {"executed", "failed"} :
             /\ proc' = [proc EXCEPT ![q].pc = pc, ![q].outcome = out]
             /\ pc = "consumeRead" => s.pc = "running"
             /\ s.pc \in {"spawn", "running"}
    BY <1>1 DEF SpawnError, Exit, At
  <1>3. proc'[q] = [s EXCEPT !.pc = pc, !.outcome = out] /\ Others(q)
    BY <1>1, <1>2, <1>a DEF TypeOK, Others
  <1>4. /\ proc'[q].pc = pc /\ proc'[q].d = s.d /\ proc'[q].rec = s.rec /\ proc'[q] \in Process
    <2>1. pc \in Steps /\ out \in Outcomes
      BY DEF Steps, Outcomes
    <2>2. QED
      BY <1>3, <2>1 DEF Process
  <1>5. proc' \in [Procs -> Process]
    BY <1>2, <1>4, <1>a DEF TypeOK
  <1>6. /\ UNCHANGED <<file, log, audit, released, spawned>>
        /\ replays' \in [Decisions -> SUBSET Outcomes]
        /\ now' \in Nat /\ ops' \in Nat /\ crashes' \in Nat
    BY <1>a DEF SpawnError, Exit, TypeOK
  <1>7. HeldFacts(s)'
    BY <1>1, <1>2, <1>6, Facts, FilesUnchanged
  <1>8. HeldFacts(proc[q])'
    BY <1>2, <1>4, <1>7 DEF HeldFacts, HoldsApproval, ActsOnApproval
  <1>9. QED
    BY <1>2, <1>3, <1>4, <1>5, <1>6, <1>8, LocalStep

LEMMA ReportStep ==
  ASSUME IInv, NEW q \in Runners, Report(q)
  PROVE  IInv'
  <1> q \in Procs /\ q \notin Plugins
    BY ProcsAssumption DEF Procs
  <1>1. proc' \in [Procs -> Process] /\ proc'[q] = Idle /\ Others(q)
    BY FinishEffect DEF Report, IInv
  <1>2. HeldFacts(proc[q])' /\ proc'[q].pc # "createPending"
    BY <1>1 DEF HeldFacts, Idle, HoldsApproval, ActsOnApproval
  <1>3. proc[q].outcome \in Outcomes /\ proc[q].d \in Decisions
    BY Facts DEF Process, HeldFacts, Report, At
  <1>4. replays' \in [Decisions -> SUBSET Outcomes]
    BY <1>3 DEF Report, IInv, TypeOK
  <1>5. now' \in Nat /\ ops' \in Nat /\ crashes' \in Nat
    BY DEF Report, IInv, TypeOK
  <1>6. UNCHANGED <<file, log, audit, released, spawned>>
    BY DEF Report
  <1>7. QED
    BY <1>1, <1>2, <1>4, <1>5, <1>6, LocalStep

LEMMA TickStep ==
  ASSUME IInv, Tick
  PROVE  IInv'
  <1>1. TypeOK'
    BY DEF IInv, TypeOK, Tick
  <1>2. FilesGrow /\ \A d \in Decisions : FileFacts(d)'
    BY FilesUnchanged DEF Tick
  <1>3. \A x \in Procs : HeldFacts(proc[x])'
    <2> SUFFICES ASSUME NEW x \in Procs PROVE HeldFacts(proc[x])'
      OBVIOUS
    <2>1. PICK s \in Process : s = proc[x]
      BY Facts
    <2>2. HeldFacts(s)'
      BY <2>1, Facts, FilesUnchanged DEF Tick
    <2>3. QED
      BY <2>1, <2>2 DEF Tick
  <1>4. HeldFactsStayTrue'
    BY <1>2, <1>3 DEF IInv, HeldFactsStayTrue, OneAsker, MatchedCall, Tick, At
  <1>5. QED
    BY <1>1, <1>2, <1>4, UsesStay DEF IInv, Tick

LEMMA CrashStep ==
  ASSUME IInv, NEW x \in Procs, Crash(x)
  PROVE  IInv'
  <1>a. TypeOK /\ HeldFactsStayTrue
    BY DEF IInv
  <1>1. /\ proc' \in [Procs -> Process] /\ proc'[x] = Idle /\ Others(x)
    BY <1>a, FinishEffect DEF Crash
  <1>2. HeldFacts(proc[x])' /\ proc'[x].pc # "createPending" /\ proc'[x].outcome # "allow"
    BY <1>1 DEF HeldFacts, Idle, HoldsApproval, ActsOnApproval
  <1>3. /\ replays' \in [Decisions -> SUBSET Outcomes]
        /\ now' \in Nat /\ ops' \in Nat /\ crashes' \in Nat
    BY <1>a DEF Crash, TypeOK
  <1>4. CASE file' = file
    BY <1>1, <1>2, <1>3, <1>4, LocalStep DEF Crash
  <1>5. CASE Writing(x) /\ file' = [file EXCEPT ![proc[x].d].status = "torn"]
    <2>1. PICK d \in Decisions : d = proc[x].d
      BY <1>5, Facts DEF Writing
    <2>2. /\ audit[d].root = "ask"
          /\ \A y \in Procs : proc[y].pc = "createPending" /\ y # x => proc[y].d # d
      <3>1. CASE proc[x].pc = "createPending"
        BY <2>1, <3>1, <1>a DEF HeldFactsStayTrue, HeldFacts, OneAsker, At
      <3>2. CASE proc[x].pc # "createPending"
        <4>1. file[d].status # "absent"
          BY <2>1, <3>2, <1>5, Facts DEF HeldFacts, Writing, HoldsApproval, ActsOnApproval
        <4>2. QED
          BY <4>1, <1>a DEF HeldFactsStayTrue, HeldFacts, FileFacts
      <3>3. QED
        BY <3>1, <3>2
    <2>3. /\ file'[d] = [file[d] EXCEPT !.status = "torn"] /\ file[d] \in Record
          /\ \A e \in Decisions : e # d => file'[e] = file[e]
      BY <1>5, <2>1, <1>a DEF TypeOK
    <2>4. file'[d].status = "torn" /\ file'[d].call = file[d].call /\ file'[d] \in Record
      BY <2>3 DEF Record, Unreadable
    <2>5. file' \in [Decisions -> Record]
      BY <1>5, <2>1, <2>4, <1>a DEF TypeOK
    <2>6. FilesGrow
      BY <2>3, <2>4 DEF FilesGrow, Crash, Logged
    <2>7. \A e \in Decisions : FileFacts(e)'
      BY <2>2, <2>3, <2>4, <1>a, ZenonT(40) DEF HeldFactsStayTrue, FileFacts, Crash, Logged
    <2>8. \A y \in Procs : y # x /\ proc[y].pc = "createPending" =>
            file'[proc[y].d].status = "absent"
      BY <2>2, <2>3, <1>a DEF HeldFactsStayTrue, HeldFacts
    <2>9. HeldFactsStayTrue'
      BY <1>1, <1>2, <2>6, <2>7, <2>8, StepOfOne
    <2>10. TypeOK'
      BY <1>1, <1>3, <1>a, <2>5 DEF TypeOK, Crash
    <2>11. QED
      BY <2>6, <2>9, <2>10, UsesStay DEF IInv, Crash
  <1>6. QED
    BY <1>4, <1>5 DEF Crash

-----------------------------------------------------------------------------
LEMMA Initially == Init => IInv
  <1> SUFFICES ASSUME Init PROVE IInv
    OBVIOUS
  <1>1. NoRecord \in Record
    BY DEF NoRecord, Record, Unreadable
  <1>2. TypeOK
    BY <1>1, IdleIsProcess DEF Init, TypeOK
  <1>3. HeldFactsStayTrue
    BY DEF Init, HeldFactsStayTrue, HeldFacts, Idle, HoldsApproval, ActsOnApproval,
           FileFacts, NoRecord, OneAsker, MatchedCall, At, Procs
  <1>4. UseNeedsApproval
    BY DEF Init, UseNeedsApproval, Uses
  <1>5. QED
    BY <1>2, <1>3, <1>4 DEF IInv

LEMMA StutterStep ==
  ASSUME IInv, UNCHANGED vars
  PROVE  IInv'
  BY DEF vars, IInv, TypeOK, HeldFactsStayTrue, HeldFacts, HoldsApproval, ActsOnApproval,
         FileFacts, OneAsker, MatchedCall, At, UseNeedsApproval, Uses, Logged

LEMMA Inductive == IInv /\ [Next]_vars => IInv'
  <1> SUFFICES ASSUME IInv, [Next]_vars PROVE IInv'
    OBVIOUS
  <1>1. ASSUME NEW p \in Plugins, NEW d \in Decisions, NEW c \in Calls,
               NEW action \in {"allow", "ask", "deny"}, Evaluate(p, d, c, action)
        PROVE  IInv'
    BY <1>1, AskStep
  <1>2. ASSUME NEW p \in Plugins, NEW d \in Decisions, NEW c \in Calls, Replay(p, d, c)
        PROVE  IInv'
    BY <1>2, ReplayStep
  <1>3. ASSUME NEW p \in Plugins, PluginStep(p)
        PROVE  IInv'
    BY <1>3, CreatePendingStep, ConsumeWriteStep, ConsumeLogStep, AuditReplayStep, ReleaseStep
       DEF PluginStep
  <1>4. ASSUME NEW r \in Resolvers, NEW d \in Decisions, NEW verdict \in Resolved,
               Resolve(r, d, verdict)
        PROVE  IInv'
    BY <1>4, ResolveStep
  <1>5. ASSUME NEW r \in Resolvers, ResolverStep(r)
        PROVE  IInv'
    BY <1>5, ResolveLogStep, ResolveWriteStep DEF ResolverStep
  <1>6. ASSUME NEW q \in Runners, NEW d \in Decisions, DryRun(q, d) \/ Plan(q, d)
        PROVE  IInv'
    BY <1>6, PlanStep
  <1>7. ASSUME NEW q \in Runners, NEW outcome \in {"executed", "failed"}, Exit(q, outcome)
        PROVE  IInv'
    BY <1>7, ChildStep
  <1>8. ASSUME NEW q \in Runners, RunnerStep(q)
        PROVE  IInv'
    BY <1>8, SpawnStep, ChildStep, ConsumeReadStep, ConsumeWriteStep, ConsumeLogStep, ReportStep
       DEF RunnerStep
  <1>9. ASSUME NEW x \in Procs, Crash(x)
        PROVE  IInv'
    BY <1>9, CrashStep
  <1>10. CASE Tick
    BY <1>10, TickStep
  <1>11. CASE UNCHANGED vars
    BY <1>11, StutterStep
  <1>12. QED
    BY <1>1, <1>2, <1>3, <1>4, <1>5, <1>6, <1>7, <1>8, <1>9, <1>10, <1>11 DEF Next

LEMMA Invariance == Spec => []IInv
  BY Initially, Inductive, PTL DEF Spec

\* Every reachable state has the declared types, for any number of processes,
\* decisions and calls, any interleaving and any crashes.
THEOREM Typing == Spec => []TypeOK
  BY Invariance, PTL DEF IInv

\* No risky call is let through or executed without having been asked for and
\* approved, and what a plugin is about to let through is the call the approval was
\* given for, whatever plugins, resolvers and runners do at the same time.
THEOREM UsesAreApproved == Spec => []UsedAsApproved
  <1>1. ASSUME IInv PROVE ReleaseIsExact
    <2> SUFFICES ASSUME NEW p \in Plugins, At(p, "release")
                 PROVE  proc[p].call = file[proc[p].d].call
      BY DEF ReleaseIsExact
    <2>1. p \in Procs
      BY DEF Procs
    <2>2. HeldFacts(proc[p]) /\ MatchedCall
      BY <1>1, <2>1 DEF IInv, HeldFactsStayTrue
    <2>3. QED
      BY <2>2 DEF HeldFacts, HoldsApproval, ActsOnApproval, MatchedCall, At
  <1>2. IInv => UsedAsApproved
    BY <1>1 DEF IInv, UsedAsApproved
  <1>3. QED
    BY <1>2, Invariance, PTL

-----------------------------------------------------------------------------
(* The trail: every release is covered by an audit line, and every audit   *)
(* line by a logged consumption.  The processes that have left the first   *)
(* and not yet the second are counted too.                                 *)

Releasing(ps, d) == {p \in Plugins : ps[p].pc = "release" /\ ps[p].d = d}
Auditing(ps, d) ==
  {p \in Plugins : ps[p].pc = "auditReplay" /\ ps[p].outcome = "allow" /\ ps[p].d = d}

\* A plugin that is about to allow has a consumption in hand.
AllowIsConsumed(s) ==
  s.pc \in {"consumeWrite", "consumeLog"} /\ s.outcome = "allow" => s.rec.status = "consumed"

Covers(rel, allowed, lines, releasing, auditing) ==
  /\ IsFiniteSet(releasing) /\ IsFiniteSet(auditing)
  /\ rel + Cardinality(releasing) <= allowed
  /\ allowed + Cardinality(auditing) <= lines

TInv ==
  /\ \A p \in Plugins : AllowIsConsumed(proc[p])
  /\ \A d \in Decisions :
       Covers(released[d], audit[d].allowed, Count(d, "consumed"),
              Releasing(proc, d), Auditing(proc, d))

Lines(s, status) == {i \in DOMAIN s : s[i] = status}

LEMMA LinesAreFinite ==
  ASSUME NEW T, NEW s \in Seq(T), NEW status
  PROVE  IsFiniteSet(Lines(s, status)) /\ Cardinality(Lines(s, status)) \in Nat
  <1>1. Len(s) \in Nat /\ DOMAIN s = 1 .. Len(s)
    OBVIOUS
  <1>2. IsFiniteSet(1 .. Len(s))
    BY <1>1, FS_Interval
  <1>3. Lines(s, status) \in SUBSET (1 .. Len(s))
    BY <1>1 DEF Lines
  <1>4. IsFiniteSet(Lines(s, status))
    BY <1>2, <1>3, FS_Subset
  <1>5. QED
    BY <1>4, FS_CardinalityType

\* Appending a line counts that line.
LEMMA CountAppend ==
  ASSUME NEW T, NEW s \in Seq(T), NEW st \in T, NEW status
  PROVE  Cardinality(Lines(Append(s, st), status)) =
           IF st = status THEN Cardinality(Lines(s, status)) + 1
                          ELSE Cardinality(Lines(s, status))
  <1> DEFINE n == Len(s)
             t == Append(s, st)
  <1>1. /\ n \in Nat /\ DOMAIN s = 1 .. n /\ DOMAIN t = 1 .. n + 1
        /\ t[n + 1] = st /\ \A i \in 1 .. n : t[i] = s[i]
    OBVIOUS
  <1>2. IsFiniteSet(Lines(s, status)) /\ Len(s) + 1 \notin Lines(s, status)
    <2>1. IsFiniteSet(Lines(s, status))
      BY LinesAreFinite
    <2>2. Len(s) + 1 \notin Lines(s, status)
      BY DEF Lines
    <2>3. QED
      BY <2>1, <2>2
  <1>3. CASE st = status
    <2>1. Lines(t, status) = Lines(s, status) \union {n + 1}
      BY <1>1, <1>3 DEF Lines
    <2> HIDE DEF t
    <2>2. Cardinality(Lines(t, status)) = Cardinality(Lines(s, status)) + 1
      BY <1>2, <2>1, FS_AddElement
    <2>3. QED
      BY <1>3, <2>2 DEF t
  <1>4. CASE st # status
    <2>1. Lines(t, status) = Lines(s, status)
      BY <1>1, <1>4 DEF Lines
    <2>2. QED
      BY <1>4, <2>1
  <1>5. QED
    BY <1>3, <1>4

\* What the sets of processes and the numbers may do without uncovering anything.
LEMMA CoversShrink ==
  ASSUME NEW rel \in Nat, NEW allowed \in Nat, NEW lines \in Nat, NEW lines2 \in Nat,
         NEW R, NEW A, NEW R2 \in SUBSET R, NEW A2 \in SUBSET A,
         Covers(rel, allowed, lines, R, A), lines <= lines2
  PROVE  Covers(rel, allowed, lines2, R2, A2)
  <1>1. /\ IsFiniteSet(R) /\ IsFiniteSet(A)
        /\ rel + Cardinality(R) <= allowed /\ allowed + Cardinality(A) <= lines
    BY DEF Covers
  <1>2. /\ IsFiniteSet(R2) /\ IsFiniteSet(A2)
        /\ Cardinality(R2) <= Cardinality(R) /\ Cardinality(A2) <= Cardinality(A)
    BY <1>1, FS_Subset
  <1>3. /\ Cardinality(R) \in Nat /\ Cardinality(R2) \in Nat
        /\ Cardinality(A) \in Nat /\ Cardinality(A2) \in Nat
    BY <1>1, <1>2, FS_CardinalityType
  <1>4. rel + Cardinality(R2) <= allowed /\ allowed + Cardinality(A2) <= lines2
    BY <1>1, <1>2, <1>3
  <1>5. QED
    BY <1>2, <1>4 DEF Covers

\* A consumption is logged, and its process will write the audit line.
LEMMA CoversLogged ==
  ASSUME NEW rel \in Nat, NEW allowed \in Nat, NEW lines \in Nat, NEW R, NEW A, NEW x,
         NEW A2 \in SUBSET (A \union {x}), Covers(rel, allowed, lines, R, A)
  PROVE  Covers(rel, allowed, lines + 1, R, A2)
  <1>1. /\ IsFiniteSet(A) /\ allowed + Cardinality(A) <= lines
        /\ IsFiniteSet(R) /\ rel + Cardinality(R) <= allowed
    BY DEF Covers
  <1>2. /\ IsFiniteSet(A \union {x})
        /\ Cardinality(A \union {x}) = IF x \in A THEN Cardinality(A) ELSE Cardinality(A) + 1
    BY <1>1, FS_AddElement
  <1>3. IsFiniteSet(A2) /\ Cardinality(A2) <= Cardinality(A \union {x})
    BY <1>2, FS_Subset
  <1>4. Cardinality(A) \in Nat /\ Cardinality(A2) \in Nat /\ Cardinality(A \union {x}) \in Nat
    BY <1>1, <1>2, <1>3, FS_CardinalityType
  <1>5. allowed + Cardinality(A2) <= lines + 1
    BY <1>1, <1>2, <1>3, <1>4
  <1>6. QED
    BY <1>1, <1>3, <1>5 DEF Covers

\* The audit line is written, and its process will release the call.
LEMMA CoversAudited ==
  ASSUME NEW rel \in Nat, NEW allowed \in Nat, NEW lines \in Nat, NEW R, NEW A, NEW x \in A,
         Covers(rel, allowed, lines, R, A)
  PROVE  Covers(rel, allowed + 1, lines, R \union {x}, A \ {x})
  <1>1. /\ IsFiniteSet(R) /\ IsFiniteSet(A)
        /\ rel + Cardinality(R) <= allowed /\ allowed + Cardinality(A) <= lines
    BY DEF Covers
  <1>2. /\ IsFiniteSet(R \union {x}) /\ IsFiniteSet(A \ {x})
        /\ Cardinality(R \union {x}) = IF x \in R THEN Cardinality(R) ELSE Cardinality(R) + 1
        /\ Cardinality(A \ {x}) = Cardinality(A) - 1
    BY <1>1, FS_AddElement, FS_RemoveElement
  <1>3. Cardinality(R) \in Nat /\ Cardinality(A) \in Nat
    BY <1>1, FS_CardinalityType
  <1>4. /\ rel + Cardinality(R \union {x}) <= allowed + 1
        /\ allowed + 1 + Cardinality(A \ {x}) <= lines
    BY <1>1, <1>2, <1>3
  <1>5. QED
    BY <1>2, <1>4 DEF Covers

\* The call is released.
LEMMA CoversReleased ==
  ASSUME NEW rel \in Nat, NEW allowed \in Nat, NEW lines \in Nat, NEW R, NEW A, NEW x \in R,
         Covers(rel, allowed, lines, R, A)
  PROVE  Covers(rel + 1, allowed, lines, R \ {x}, A)
  <1>1. /\ IsFiniteSet(R) /\ IsFiniteSet(A)
        /\ rel + Cardinality(R) <= allowed /\ allowed + Cardinality(A) <= lines
    BY DEF Covers
  <1>2. /\ IsFiniteSet(R \ {x}) /\ Cardinality(R \ {x}) = Cardinality(R) - 1
        /\ Cardinality(R) \in Nat
    BY <1>1, FS_RemoveElement, FS_CardinalityType
  <1>3. rel + 1 + Cardinality(R \ {x}) <= allowed
    BY <1>1, <1>2
  <1>4. QED
    BY <1>1, <1>2, <1>3 DEF Covers

LEMMA CountsAreNumbers ==
  ASSUME TypeOK, NEW d \in Decisions
  PROVE  /\ released[d] \in Nat /\ audit[d].allowed \in Nat /\ Count(d, "consumed") \in Nat
         /\ Count(d, "consumed") = Cardinality(Lines(log[d], "consumed"))
  <1>1. log[d] \in Seq(Resolved \union Final) /\ released[d] \in Nat
    BY DEF TypeOK
  <1>2. audit[d].allowed \in Nat
    BY DEF TypeOK
  <1>3. Cardinality(Lines(log[d], "consumed")) \in Nat
    BY <1>1, LinesAreFinite
  <1>4. Count(d, "consumed") = Cardinality(Lines(log[d], "consumed"))
    BY DEF Count, Lines
  <1>5. QED
    BY <1>1, <1>2, <1>3, <1>4

\* A step after which its process neither audits nor releases, and which writes
\* no audit line of an allowed replay.
LEMMA QuietStep ==
  ASSUME IInv, IInv', TInv, NEW x \in Procs, Others(x),
         x \in Plugins =>
            /\ proc'[x].pc # "release"
            /\ proc'[x].pc = "auditReplay" => proc'[x].outcome # "allow"
            /\ AllowIsConsumed(proc'[x]),
         released' = released,
         \A d \in Decisions : audit'[d].allowed = audit[d].allowed,
         \A d \in Decisions : Count(d, "consumed") <= Count(d, "consumed")'
  PROVE  TInv'
  <1>1. ASSUME NEW p \in Plugins PROVE AllowIsConsumed(proc'[p])
    <2>1. CASE p = x
      BY <2>1
    <2>2. CASE p # x
      <3>1. proc'[p] = proc[p]
        BY <2>2 DEF Others, Procs
      <3>2. QED
        BY <3>1 DEF TInv
    <2>3. QED
      BY <2>1, <2>2
  <1>2. ASSUME NEW d \in Decisions
        PROVE  Covers(released[d], audit[d].allowed, Count(d, "consumed"),
                      Releasing(proc, d), Auditing(proc, d))'
    <2>1. Releasing(proc', d) \in SUBSET Releasing(proc, d)
      BY DEF Releasing, Others, Procs
    <2>2. Auditing(proc', d) \in SUBSET Auditing(proc, d)
      BY DEF Auditing, Others, Procs
    <2>3. /\ released[d] \in Nat /\ audit[d].allowed \in Nat /\ Count(d, "consumed") \in Nat
          /\ TypeOK'
      BY CountsAreNumbers DEF IInv
    <2>4. Count(d, "consumed")' \in Nat
      <3>1. log'[d] \in Seq(Resolved \union Final)
        BY <2>3 DEF TypeOK
      <3>2. Cardinality(Lines(log'[d], "consumed")) \in Nat
        BY <3>1, LinesAreFinite
      <3>3. QED
        BY <3>2 DEF Count, Lines
    <2>5. Covers(released[d], audit[d].allowed, Count(d, "consumed"),
                 Releasing(proc, d), Auditing(proc, d))
      BY DEF TInv
    <2>6. QED
      BY <2>1, <2>2, <2>3, <2>4, <2>5, CoversShrink
  <1>3. QED
    BY <1>1, <1>2 DEF TInv

LEMMA SameLogSameCount ==
  ASSUME TypeOK, log' = log, NEW d \in Decisions
  PROVE  Count(d, "consumed") <= Count(d, "consumed")'
  <1>1. Count(d, "consumed")' = Count(d, "consumed")
    BY DEF Count
  <1>2. QED
    BY <1>1, CountsAreNumbers

\* The line a process appends is counted, and no other line is lost.
LEMMA LogGrows ==
  ASSUME TypeOK, NEW x \in Procs, NEW d0 \in Decisions, proc[x].d = d0,
         NEW st \in Resolved \union Final, proc[x].rec.status = st, AppendLog(x)
  PROVE  /\ st = "consumed" => Count(d0, "consumed")' = Count(d0, "consumed") + 1
         /\ \A d \in Decisions : d # d0 => Count(d, "consumed")' = Count(d, "consumed")
         /\ \A d \in Decisions : Count(d, "consumed") <= Count(d, "consumed")'
  <1>1. /\ log' = [log EXCEPT ![d0] = Append(log[d0], st)]
        /\ log \in [Decisions -> Seq(Resolved \union Final)]
    BY DEF AppendLog, TypeOK
  <1>2. log[d0] \in Seq(Resolved \union Final) /\ log'[d0] = Append(log[d0], st)
    BY <1>1
  <1>3. Cardinality(Lines(log'[d0], "consumed")) =
           IF st = "consumed" THEN Cardinality(Lines(log[d0], "consumed")) + 1
                              ELSE Cardinality(Lines(log[d0], "consumed"))
    BY <1>2, CountAppend
  <1>4. /\ Count(d0, "consumed") = Cardinality(Lines(log[d0], "consumed"))
        /\ Count(d0, "consumed")' = Cardinality(Lines(log'[d0], "consumed"))
        /\ Count(d0, "consumed") \in Nat
    BY CountsAreNumbers DEF Count, Lines
  <1>5. ASSUME NEW d \in Decisions, d # d0
        PROVE  Count(d, "consumed")' = Count(d, "consumed") /\ Count(d, "consumed") \in Nat
    <2>1. log'[d] = log[d]
      BY <1>1, <1>5
    <2>2. QED
      BY <2>1, CountsAreNumbers DEF Count
  <1>6. /\ st = "consumed" => Count(d0, "consumed")' = Count(d0, "consumed") + 1
        /\ Count(d0, "consumed") <= Count(d0, "consumed")'
    BY <1>3, <1>4
  <1>7. ASSUME NEW d \in Decisions
        PROVE  Count(d, "consumed") <= Count(d, "consumed")'
    <2>1. CASE d = d0
      BY <1>6, <2>1
    <2>2. CASE d # d0
      BY <1>5, <2>2
    <2>3. QED
      BY <2>1, <2>2
  <1>8. QED
    BY <1>5, <1>6, <1>7

\* A step that leaves approvals.jsonl alone.
LEMMA QuietLocal ==
  ASSUME IInv, IInv', TInv, NEW x \in Procs, Others(x),
         x \in Plugins =>
            /\ proc'[x].pc # "release"
            /\ proc'[x].pc = "auditReplay" => proc'[x].outcome # "allow"
            /\ AllowIsConsumed(proc'[x]),
         UNCHANGED <<log, released>>,
         \A d \in Decisions : audit'[d].allowed = audit[d].allowed
  PROVE  TInv'
  <1>1. \A d \in Decisions : Count(d, "consumed") <= Count(d, "consumed")'
    BY SameLogSameCount DEF IInv
  <1>2. QED
    BY <1>1, QuietStep

LEMMA Alone ==
  ASSUME TypeOK, NEW x \in Procs, NEW s, proc' = [proc EXCEPT ![x] = s]
  PROVE  Others(x)
  BY DEF TypeOK, Others

LEMMA TrailOfPlugin ==
  ASSUME IInv, IInv', TInv, NEW p \in Plugins, NEW d \in Decisions, NEW c \in Calls,
         \/ \E action \in {"allow", "ask", "deny"} : Evaluate(p, d, c, action)
         \/ Replay(p, d, c)
  PROVE  TInv'
  <1> p \in Procs
    BY DEF Procs
  <1>a. TypeOK
    BY DEF IInv
  <1>1. ASSUME NEW action \in {"allow", "ask", "deny"}, Evaluate(p, d, c, action)
        PROVE  TInv'
    <2>1. UNCHANGED <<log, released>> /\ \A e \in Decisions : audit'[e].allowed = audit[e].allowed
      BY <1>1, <1>a DEF Evaluate, TypeOK
    <2>2. Others(p) /\ proc'[p].pc \in {"idle", "createPending"}
      BY <1>1, <1>a DEF Evaluate, Begin, Others, TypeOK, Idle
    <2>3. QED
      BY <2>1, <2>2, QuietLocal DEF AllowIsConsumed
  <1>2. CASE Replay(p, d, c)
    <2> DEFINE rec == Consumption(file[d], SameCall(file[d], c))
    <2>1. UNCHANGED <<log, released, audit>>
      BY <1>2 DEF Replay
    <2>2. CASE rec = file[d]
      <3>1. Begin(p, "auditReplay", d, c, rec, "deny")
        BY <1>2, <2>2 DEF Replay
      <3> HIDE DEF rec
      <3>2. Others(p) /\ proc'[p].pc = "auditReplay" /\ proc'[p].outcome = "deny"
        BY <3>1, <1>a DEF Begin, Others, TypeOK
      <3>3. QED
        BY <2>1, <3>2, QuietLocal DEF AllowIsConsumed
    <2>3. CASE rec # file[d]
      <3>1. Begin(p, "consumeWrite", d, c, rec, IF rec.status = "consumed" THEN "allow" ELSE "deny")
        BY <1>2, <2>3 DEF Replay
      <3> HIDE DEF rec
      <3>2. /\ Others(p) /\ proc'[p].pc = "consumeWrite" /\ proc'[p].rec = rec
            /\ proc'[p].outcome = IF rec.status = "consumed" THEN "allow" ELSE "deny"
        BY <3>1, <1>a DEF Begin, Others, TypeOK
      <3>3. AllowIsConsumed(proc'[p])
        BY <3>2 DEF AllowIsConsumed
      <3>4. QED
        BY <2>1, <3>2, <3>3, QuietLocal
    <2>4. QED
      BY <2>2, <2>3
  <1>3. QED
    BY <1>1, <1>2

\* Resolvers and runners are not counted: their steps only append lines.
LEMMA TrailOfForeign ==
  ASSUME IInv, IInv', TInv, NEW x \in Resolvers \union Runners, Others(x),
         UNCHANGED <<released, audit>>,
         log' = log \/ (AppendLog(x) /\ proc[x].pc \in {"resolveLog", "consumeLog"})
  PROVE  TInv'
  <1>1. x \in Procs /\ x \notin Plugins /\ TypeOK
    BY ProcsAssumption DEF Procs, IInv
  <1>2. CASE log' = log
    BY <1>1, <1>2, QuietLocal
  <1>3. CASE AppendLog(x) /\ proc[x].pc \in {"resolveLog", "consumeLog"}
    <2>1. PICK d \in Decisions, st \in Resolved \union Final :
               d = proc[x].d /\ st = proc[x].rec.status
      BY <1>1, <1>3, Facts DEF HeldFacts, Final
    <2>2. \A e \in Decisions : Count(e, "consumed") <= Count(e, "consumed")'
      BY <1>1, <1>3, <2>1, LogGrows
    <2>3. QED
      BY <1>1, <2>2, QuietStep
  <1>4. QED
    BY <1>2, <1>3

\* The sets change at most by the one process that moves.
LEMMA SameMembers ==
  ASSUME NEW p \in Plugins, Others(p), NEW d
  PROVE  /\ p \notin Releasing(proc', d) /\ p \notin Releasing(proc, d) =>
              Releasing(proc', d) = Releasing(proc, d)
         /\ p \notin Auditing(proc', d) /\ p \notin Auditing(proc, d) =>
              Auditing(proc', d) = Auditing(proc, d)
  <1>1. ASSUME NEW q \in Plugins, q # p PROVE proc'[q] = proc[q]
    BY <1>1 DEF Others, Procs
  <1>2. QED
    BY <1>1 DEF Releasing, Auditing

LEMMA TrailOfConsumeLog ==
  ASSUME IInv, IInv', TInv, NEW p \in Plugins, ConsumeLog(p)
  PROVE  TInv'
  <1> p \in Procs
    BY DEF Procs
  <1>a. TypeOK
    BY DEF IInv
  <1>1. PICK s \in Process : s = proc[p]
    BY Facts
  <1>2. s.pc = "consumeLog" /\ AllowIsConsumed(s) /\ UNCHANGED <<released, audit>>
    BY <1>1 DEF ConsumeLog, At, TInv
  <1>3. PICK d \in Decisions, st \in Resolved \union Final : d = s.d /\ st = s.rec.status
    BY <1>1, <1>2, Facts DEF HeldFacts, Final
  <1>4. /\ st = "consumed" => Count(d, "consumed")' = Count(d, "consumed") + 1
        /\ \A e \in Decisions : e # d => Count(e, "consumed")' = Count(e, "consumed")
        /\ \A e \in Decisions : Count(e, "consumed") <= Count(e, "consumed")'
    BY <1>1, <1>3, <1>a, LogGrows DEF ConsumeLog
  <1>5. Others(p) /\ proc'[p] = [s EXCEPT !.pc = "auditReplay"]
    BY <1>1, <1>a, GotoEffect DEF ConsumeLog, Steps
  <1>6. proc'[p].pc = "auditReplay" /\ proc'[p].outcome = s.outcome /\ proc'[p].d = d
    BY <1>3, <1>5 DEF Process
  <1>7. CASE s.outcome # "allow"
    BY <1>2, <1>4, <1>5, <1>6, <1>7, QuietStep DEF AllowIsConsumed
  <1>8. CASE s.outcome = "allow"
    <2>1. Count(d, "consumed")' = Count(d, "consumed") + 1
      BY <1>2, <1>3, <1>4, <1>8 DEF AllowIsConsumed
    <2>2. ASSUME NEW q \in Plugins PROVE AllowIsConsumed(proc'[q])
      <3>1. q = p \/ proc'[q] = proc[q]
        BY <1>5 DEF Others, Procs
      <3>2. QED
        BY <1>6, <3>1 DEF TInv, AllowIsConsumed
    <2>3. ASSUME NEW e \in Decisions
          PROVE  Covers(released[e], audit[e].allowed, Count(e, "consumed"),
                        Releasing(proc, e), Auditing(proc, e))'
      <3>1. /\ released[e] \in Nat /\ audit[e].allowed \in Nat /\ Count(e, "consumed") \in Nat
            /\ Covers(released[e], audit[e].allowed, Count(e, "consumed"),
                      Releasing(proc, e), Auditing(proc, e))
        BY <1>a, CountsAreNumbers DEF TInv
      <3>2. Releasing(proc', e) = Releasing(proc, e)
        <4>1. p \notin Releasing(proc', e) /\ p \notin Releasing(proc, e)
          BY <1>1, <1>2, <1>6 DEF Releasing
        <4>2. QED
          BY <1>5, <4>1, SameMembers
      <3>3. CASE e = d
        <4>1. Auditing(proc', d) \in SUBSET (Auditing(proc, d) \union {p})
          BY <1>5 DEF Auditing, Others, Procs
        <4>2. Covers(released[d], audit[d].allowed, Count(d, "consumed") + 1,
                     Releasing(proc, d), Auditing(proc', d))
          BY <3>1, <3>3, <4>1, CoversLogged
        <4>3. QED
          BY <1>2, <2>1, <3>2, <3>3, <4>2
      <3>4. CASE e # d
        <4>1. Auditing(proc', e) = Auditing(proc, e)
          <5>1. p \notin Auditing(proc', e) /\ p \notin Auditing(proc, e)
            BY <1>1, <1>2, <1>6, <3>4 DEF Auditing
          <5>2. QED
            BY <1>5, <5>1, SameMembers
        <4>2. QED
          BY <1>2, <1>4, <3>1, <3>2, <3>4, <4>1
      <3>5. QED
        BY <3>3, <3>4
    <2>4. QED
      BY <2>2, <2>3 DEF TInv
  <1>9. QED
    BY <1>7, <1>8

LEMMA TrailOfAudit ==
  ASSUME IInv, IInv', TInv, NEW p \in Plugins, AuditReplay(p)
  PROVE  TInv'
  <1> p \in Procs
    BY DEF Procs
  <1>a. TypeOK
    BY DEF IInv
  <1>1. PICK s \in Process : s = proc[p]
    BY Facts
  <1>2. s.pc = "auditReplay" /\ UNCHANGED <<released, log>>
    BY <1>1 DEF AuditReplay, At
  <1>3. PICK d \in Decisions : d = s.d
    BY <1>1, <1>2, Facts DEF HeldFacts
  <1>4. CASE s.outcome # "allow"
    <2>1. audit' = [audit EXCEPT ![d].denied = @ + 1] /\ Finish(p)
      BY <1>1, <1>3, <1>4 DEF AuditReplay
    <2>2. \A e \in Decisions : audit'[e].allowed = audit[e].allowed
      BY <2>1, <1>a DEF TypeOK
    <2>3. Others(p) /\ proc'[p] = Idle
      BY <2>1, <1>a, FinishEffect
    <2>4. QED
      BY <1>2, <2>2, <2>3, QuietLocal DEF Idle, AllowIsConsumed
  <1>5. CASE s.outcome = "allow"
    <2>1. audit' = [audit EXCEPT ![d].allowed = @ + 1] /\ Goto(p, "release")
      BY <1>1, <1>3, <1>5 DEF AuditReplay
    <2>2. /\ audit'[d].allowed = audit[d].allowed + 1
          /\ \A e \in Decisions : e # d => audit'[e].allowed = audit[e].allowed
      BY <2>1, <1>a DEF TypeOK
    <2>3. Others(p) /\ proc'[p] = [s EXCEPT !.pc = "release"]
      BY <2>1, <1>1, <1>a, GotoEffect DEF Steps
    <2>4. proc'[p].pc = "release" /\ proc'[p].d = d
      BY <1>3, <2>3 DEF Process
    <2>5. ASSUME NEW q \in Plugins PROVE AllowIsConsumed(proc'[q])
      <3>1. q = p \/ proc'[q] = proc[q]
        BY <2>3 DEF Others, Procs
      <3>2. QED
        BY <2>4, <3>1 DEF TInv, AllowIsConsumed
    <2>6. ASSUME NEW e \in Decisions
          PROVE  Covers(released[e], audit[e].allowed, Count(e, "consumed"),
                        Releasing(proc, e), Auditing(proc, e))'
      <3>1. /\ released[e] \in Nat /\ audit[e].allowed \in Nat /\ Count(e, "consumed") \in Nat
            /\ Covers(released[e], audit[e].allowed, Count(e, "consumed"),
                      Releasing(proc, e), Auditing(proc, e))
        BY <1>a, CountsAreNumbers DEF TInv
      <3>2. Count(e, "consumed")' = Count(e, "consumed") /\ released'[e] = released[e]
        BY <1>2 DEF Count
      <3>3. CASE e = d
        <4>1. p \in Auditing(proc, d)
          BY <1>1, <1>2, <1>3, <1>5 DEF Auditing
        <4>2. Auditing(proc', d) = Auditing(proc, d) \ {p}
          BY <2>3, <2>4 DEF Auditing, Others, Procs
        <4>3. Releasing(proc', d) = Releasing(proc, d) \union {p}
          BY <2>3, <2>4 DEF Releasing, Others, Procs
        <4>4. Covers(released[d], audit[d].allowed + 1, Count(d, "consumed"),
                     Releasing(proc, d) \union {p}, Auditing(proc, d) \ {p})
          BY <3>1, <3>3, <4>1, CoversAudited
        <4>5. QED
          BY <2>2, <3>2, <3>3, <4>2, <4>3, <4>4
      <3>4. CASE e # d
        <4>1. Auditing(proc', e) = Auditing(proc, e) /\ Releasing(proc', e) = Releasing(proc, e)
          <5>1. /\ p \notin Auditing(proc', e) /\ p \notin Auditing(proc, e)
                /\ p \notin Releasing(proc', e) /\ p \notin Releasing(proc, e)
            BY <1>1, <1>2, <1>3, <2>4, <3>4 DEF Auditing, Releasing
          <5>2. QED
            BY <2>3, <5>1, SameMembers
        <4>2. QED
          BY <2>2, <3>1, <3>2, <3>4, <4>1
      <3>5. QED
        BY <3>3, <3>4
    <2>7. QED
      BY <2>5, <2>6 DEF TInv
  <1>6. QED
    BY <1>4, <1>5

LEMMA TrailOfRelease ==
  ASSUME IInv, IInv', TInv, NEW p \in Plugins, Release(p)
  PROVE  TInv'
  <1> p \in Procs
    BY DEF Procs
  <1>a. TypeOK
    BY DEF IInv
  <1>1. PICK s \in Process : s = proc[p]
    BY Facts
  <1>2. s.pc = "release" /\ UNCHANGED <<audit, log>>
    BY <1>1 DEF Release, At
  <1>3. PICK d \in Decisions : d = s.d
    BY <1>1, <1>2, Facts DEF HeldFacts
  <1>4. Others(p) /\ proc'[p] = Idle
    BY <1>a, FinishEffect DEF Release
  <1>5. released' = [released EXCEPT ![d] = @ + 1]
    BY <1>1, <1>3 DEF Release
  <1>6. released'[d] = released[d] + 1 /\ \A e \in Decisions : e # d => released'[e] = released[e]
    BY <1>5, <1>a DEF TypeOK
  <1>7. ASSUME NEW q \in Plugins PROVE AllowIsConsumed(proc'[q])
    <2>1. q = p \/ proc'[q] = proc[q]
      BY <1>4 DEF Others, Procs
    <2>2. QED
      BY <1>4, <2>1 DEF TInv, AllowIsConsumed, Idle
  <1>8. ASSUME NEW e \in Decisions
        PROVE  Covers(released[e], audit[e].allowed, Count(e, "consumed"),
                      Releasing(proc, e), Auditing(proc, e))'
    <2>1. /\ released[e] \in Nat /\ audit[e].allowed \in Nat /\ Count(e, "consumed") \in Nat
          /\ Covers(released[e], audit[e].allowed, Count(e, "consumed"),
                    Releasing(proc, e), Auditing(proc, e))
      BY <1>a, CountsAreNumbers DEF TInv
    <2>2. Count(e, "consumed")' = Count(e, "consumed") /\ audit'[e] = audit[e]
      BY <1>2 DEF Count
    <2>3. Auditing(proc', e) = Auditing(proc, e)
      BY <1>1, <1>2, <1>4 DEF Auditing, Others, Procs, Idle
    <2>4. CASE e = d
      <3>1. p \in Releasing(proc, d)
        BY <1>1, <1>2, <1>3 DEF Releasing
      <3>2. Releasing(proc', d) = Releasing(proc, d) \ {p}
        BY <1>4 DEF Releasing, Others, Procs, Idle
      <3>3. Covers(released[d] + 1, audit[d].allowed, Count(d, "consumed"),
                   Releasing(proc, d) \ {p}, Auditing(proc, d))
        BY <2>1, <2>4, <3>1, CoversReleased
      <3>4. QED
        BY <1>6, <2>2, <2>3, <2>4, <3>2, <3>3
    <2>5. CASE e # d
      <3>1. Releasing(proc', e) = Releasing(proc, e)
        BY <1>1, <1>2, <1>3, <1>4, <2>5 DEF Releasing, Others, Procs, Idle
      <3>2. QED
        BY <1>6, <2>1, <2>2, <2>3, <2>5, <3>1
    <2>6. QED
      BY <2>4, <2>5
  <1>9. QED
    BY <1>7, <1>8 DEF TInv

LEMMA TrailOfPluginStep ==
  ASSUME IInv, IInv', TInv, NEW p \in Plugins, PluginStep(p)
  PROVE  TInv'
  <1> p \in Procs
    BY DEF Procs
  <1>a. TypeOK
    BY DEF IInv
  <1>1. CASE CreatePending(p)
    <2>1. Others(p) /\ proc'[p] = Idle
      BY <1>1, <1>a, FinishEffect DEF CreatePending
    <2>2. UNCHANGED <<log, released, audit>>
      BY <1>1 DEF CreatePending
    <2>3. QED
      BY <2>1, <2>2, QuietLocal DEF Idle, AllowIsConsumed
  <1>2. CASE ConsumeWrite(p)
    <2>1. PICK s \in Process : s = proc[p]
      BY Facts
    <2>2. Others(p) /\ proc'[p] = [s EXCEPT !.pc = "consumeLog"] /\ s.pc = "consumeWrite"
      BY <1>2, <1>a, <2>1, GotoEffect DEF ConsumeWrite, Steps, At
    <2>3. proc'[p].pc = "consumeLog" /\ proc'[p].outcome = s.outcome /\ proc'[p].rec = s.rec
      BY <2>2 DEF Process
    <2>4. AllowIsConsumed(proc'[p])
      BY <2>1, <2>2, <2>3 DEF TInv, AllowIsConsumed
    <2>5. UNCHANGED <<log, released, audit>>
      BY <1>2 DEF ConsumeWrite
    <2>6. QED
      BY <2>2, <2>3, <2>4, <2>5, QuietLocal
  <1>3. QED
    BY <1>1, <1>2, TrailOfConsumeLog, TrailOfAudit, TrailOfRelease DEF PluginStep

LEMMA TrailOfResolver ==
  ASSUME IInv, IInv', TInv, NEW r \in Resolvers,
         \/ \E d \in Decisions, verdict \in Resolved : Resolve(r, d, verdict)
         \/ ResolverStep(r)
  PROVE  TInv'
  <1>1. r \in Procs /\ TypeOK
    BY DEF Procs, IInv
  <1>2. ASSUME NEW d \in Decisions, NEW verdict \in Resolved, Resolve(r, d, verdict)
        PROVE  Others(r) /\ UNCHANGED <<released, audit, log>>
    BY <1>1, <1>2 DEF Resolve, Begin, Others, TypeOK
  <1>3. CASE ResolveLog(r)
    <2>1. Others(r)
      BY <1>1, <1>3, GotoEffect DEF ResolveLog, Steps
    <2>2. UNCHANGED <<released, audit>> /\ AppendLog(r) /\ proc[r].pc = "resolveLog"
      BY <1>3 DEF ResolveLog, At
    <2>3. QED
      BY <2>1, <2>2, TrailOfForeign
  <1>4. CASE ResolveWrite(r)
    <2>1. Others(r)
      BY <1>1, <1>4, FinishEffect DEF ResolveWrite
    <2>2. UNCHANGED <<released, audit, log>>
      BY <1>4 DEF ResolveWrite
    <2>3. QED
      BY <2>1, <2>2, TrailOfForeign
  <1>5. QED
    BY <1>2, <1>3, <1>4, TrailOfForeign DEF ResolverStep

LEMMA TrailOfRunner ==
  ASSUME IInv, IInv', TInv, NEW q \in Runners,
         \/ \E d \in Decisions : DryRun(q, d) \/ Plan(q, d)
         \/ \E outcome \in {"executed", "failed"} : Exit(q, outcome)
         \/ RunnerStep(q)
  PROVE  TInv'
  <1>1. q \in Procs /\ q \notin Plugins /\ TypeOK
    BY ProcsAssumption DEF Procs, IInv
  <1>2. CASE ConsumeLog(q)
    <2>1. Others(q)
      BY <1>1, <1>2, GotoEffect DEF ConsumeLog, Steps
    <2>2. UNCHANGED <<released, audit>> /\ AppendLog(q) /\ proc[q].pc = "consumeLog"
      BY <1>2 DEF ConsumeLog, At
    <2>3. QED
      BY <2>1, <2>2, TrailOfForeign
  <1>3. CASE ~ConsumeLog(q)
    <2>1. UNCHANGED <<released, audit, log>>
      BY <1>3 DEF DryRun, Plan, Exit, RunnerStep, Spawn, SpawnError, ConsumeRead, ConsumeWrite, Report
    <2>2. Others(q)
      BY <1>1, <1>3 DEF DryRun, Plan, Exit, RunnerStep, Spawn, SpawnError, ConsumeRead,
         ConsumeWrite, Report, Begin, Goto, Finish, Others, TypeOK
    <2>3. QED
      BY <2>1, <2>2, TrailOfForeign
  <1>4. QED
    BY <1>2, <1>3

LEMMA TrailInductive == IInv /\ IInv' /\ TInv /\ [Next]_vars => TInv'
  <1> SUFFICES ASSUME IInv, IInv', TInv, [Next]_vars PROVE TInv'
    OBVIOUS
  <1>1. ASSUME NEW x \in Procs, Crash(x) PROVE TInv'
    <2>1. Others(x) /\ proc'[x] = Idle
      BY <1>1, FinishEffect DEF Crash, IInv
    <2>2. UNCHANGED <<log, released, audit>>
      BY <1>1 DEF Crash
    <2>3. QED
      BY <2>1, <2>2, QuietLocal DEF Idle, AllowIsConsumed
  <1>2. CASE UNCHANGED <<proc, log, released, audit>>
    BY <1>2 DEF TInv, Count
  <1>3. QED
    BY <1>1, <1>2, TrailOfPlugin, TrailOfPluginStep, TrailOfResolver, TrailOfRunner
       DEF Next, Tick, vars

\* Every call a plugin let through left an "allow" audit line and, before that, a
\* "consumed" line in approvals.jsonl, for any number of plugins, resolvers and
\* runners, and through any crashes.
THEOREM TrailCovers == Spec => []TrailCoversUses
  <1>1. Init => TInv
    <2> SUFFICES ASSUME Init PROVE TInv
      OBVIOUS
    <2>1. \A p \in Plugins : proc[p] = Idle
      BY DEF Init, Procs
    <2>2. ASSUME NEW d \in Decisions
          PROVE  Covers(released[d], audit[d].allowed, Count(d, "consumed"),
                        Releasing(proc, d), Auditing(proc, d))
      <3>1. Releasing(proc, d) = {} /\ Auditing(proc, d) = {}
        BY <2>1 DEF Releasing, Auditing, Idle
      <3>2. log[d] = << >> /\ released[d] = 0 /\ audit[d].allowed = 0
        BY DEF Init
      <3>3. Count(d, "consumed") = Cardinality({})
        <4>1. {i \in DOMAIN log[d] : log[d][i] = "consumed"} = {}
          BY <3>2
        <4>2. QED
          BY <4>1 DEF Count
      <3>4. QED
        BY <3>1, <3>2, <3>3, FS_EmptySet DEF Covers
    <2>3. QED
      BY <2>1, <2>2 DEF TInv, AllowIsConsumed, Idle
  <1>2. ASSUME IInv, TInv PROVE TrailCoversUses
    <2> SUFFICES ASSUME NEW d \in Decisions
                 PROVE  released[d] <= audit[d].allowed /\ audit[d].allowed <= Count(d, "consumed")
      BY DEF TrailCoversUses
    <2>1. /\ released[d] \in Nat /\ audit[d].allowed \in Nat /\ Count(d, "consumed") \in Nat
      BY <1>2, CountsAreNumbers DEF IInv
    <2>2. /\ IsFiniteSet(Releasing(proc, d)) /\ IsFiniteSet(Auditing(proc, d))
          /\ released[d] + Cardinality(Releasing(proc, d)) <= audit[d].allowed
          /\ audit[d].allowed + Cardinality(Auditing(proc, d)) <= Count(d, "consumed")
      BY <1>2 DEF TInv, Covers
    <2>3. Cardinality(Releasing(proc, d)) \in Nat /\ Cardinality(Auditing(proc, d)) \in Nat
      BY <2>2, FS_CardinalityType
    <2>4. QED
      BY <2>1, <2>2, <2>3
  <1>3. QED
    BY <1>1, <1>2, Initially, Inductive, TrailInductive, PTL DEF Spec

-----------------------------------------------------------------------------
(* What one approval is good for when processes share it.  While the file  *)
(* says approved, each plugin and runner may get in once more; whoever got *)
(* in closes the file when it consumes, and has spent its share.           *)

Number(b) == IF b THEN 1 ELSE 0

Open(d) == file[d].status = "approved"

\* Resolvers whose approval is logged and not yet in the file.
Approves(s, d) == s.pc = "resolveWrite" /\ s.rec.status = "approved" /\ s.d = d
Approving(ps, d) == {r \in Resolvers : Approves(ps[r], d)}

\* Plugins that will release the call, and those of them that have yet to consume.
Replaying(ps, d) == {p \in Plugins : ps[p].outcome = "allow" /\ ps[p].d = d}
Entering(ps, d) == {p \in Replaying(ps, d) : ps[p].pc = "consumeWrite"}

\* Runners that will start the command, and those that have yet to consume.
Starting(ps, d) == {q \in Runners : ps[q].pc = "spawn" /\ ps[q].d = d}
Owes(s, d) == s.pc \in {"spawn", "running", "consumeRead", "consumeWrite"} /\ s.d = d
Owing(ps, d) == {q \in Runners : Owes(ps[q], d)}

\* n processes had their share of each approval given: used counts what they used
\* or are about to use, inside those that the open file still counts for.
Rationed(n, open, given, used, inside, extra) ==
  used + (IF open THEN n - inside ELSE 0) <= n * given + extra

Given(d) == Count(d, "approved") - Cardinality(Approving(proc, d))

RInv ==
  \A d \in Decisions :
    /\ Rationed(Cardinality(Plugins), Open(d), Given(d),
                released[d] + Cardinality(Replaying(proc, d)), Cardinality(Entering(proc, d)), 0)
    /\ Rationed(Cardinality(Runners), Open(d), Given(d),
                spawned[d] + Cardinality(Starting(proc, d)), Cardinality(Owing(proc, d)), crashes)

\* A larger number of approvals gives a larger product.
LEMMA ProductGrows ==
  ASSUME NEW n \in Nat, NEW a \in Int, NEW b \in Int, a <= b
  PROVE  n * a \in Int /\ n * b \in Int /\ n * a <= n * b /\ n * (a + 1) = n * a + n
  <1>1. n * (b - a) >= 0
    <2>1. PICK k \in Nat : k = b - a
      OBVIOUS
    <2>2. n * k \in Nat
      OBVIOUS
    <2>3. QED
      BY <2>1, <2>2
  <1>2. n * (b - a) = n * b - n * a
    OBVIOUS
  <1>3. QED
    BY <1>1, <1>2

\* A set of processes that changes by one of them.
LEMMA OneMoves ==
  ASSUME NEW T, IsFiniteSet(T), NEW S \in SUBSET T, NEW S2 \in SUBSET T, NEW x,
         \A y \in T : y # x => (y \in S <=> y \in S2)
  PROVE  /\ Cardinality(S) \in Nat /\ Cardinality(S2) \in Nat
         /\ Cardinality(S) <= Cardinality(T) /\ Cardinality(S2) <= Cardinality(T)
         /\ Cardinality(S2) + Number(x \in S) = Cardinality(S) + Number(x \in S2)
  <1>1. /\ IsFiniteSet(S) /\ IsFiniteSet(S2)
        /\ Cardinality(S) <= Cardinality(T) /\ Cardinality(S2) <= Cardinality(T)
    BY FS_Subset
  <1>2. Cardinality(S) \in Nat /\ Cardinality(S2) \in Nat
    BY <1>1, FS_CardinalityType
  <1>3. CASE x \in S /\ x \notin S2
    <2>1. S2 = S \ {x}
      BY <1>3
    <2>2. QED
      BY <1>1, <1>2, <1>3, <2>1, FS_RemoveElement DEF Number
  <1>4. CASE x \notin S /\ x \in S2
    <2>1. S2 = S \union {x}
      BY <1>4
    <2>2. QED
      BY <1>1, <1>2, <1>4, <2>1, FS_AddElement DEF Number
  <1>5. CASE x \in S <=> x \in S2
    <2>1. S2 = S
      BY <1>5
    <2>2. QED
      BY <1>1, <1>2, <2>1
  <1>6. QED
    BY <1>3, <1>4, <1>5

\* What process x does to the ration of decision d, unless it opens the file ...
Kept(x, d) ==
  /\ Open(d)' => Open(d)
  /\ Count(d, "approved") + Number(x \in Approving(proc, d)') <=
       Count(d, "approved")' + Number(x \in Approving(proc, d))
  /\ released'[d] + Number(x \in Replaying(proc, d)') + Number(Open(d)' /\ x \in Entering(proc, d)) <=
       released[d] + Number(x \in Replaying(proc, d)) + Number(Open(d)' /\ x \in Entering(proc, d)')
  /\ spawned'[d] + Number(x \in Starting(proc, d)') + Number(Open(d)' /\ x \in Owing(proc, d)) + crashes <=
       spawned[d] + Number(x \in Starting(proc, d)) + Number(Open(d)' /\ x \in Owing(proc, d)') + crashes'

\* ... and when it does.
Opened(x, d) ==
  /\ Count(d, "approved") + Number(x \in Approving(proc, d)') + 1 <=
       Count(d, "approved")' + Number(x \in Approving(proc, d))
  /\ released'[d] + Number(x \in Replaying(proc, d)') <= released[d] + Number(x \in Replaying(proc, d))
  /\ spawned'[d] + Number(x \in Starting(proc, d)') <= spawned[d] + Number(x \in Starting(proc, d))

LEMMA ApprovedCount ==
  ASSUME TypeOK, NEW d \in Decisions
  PROVE  Count(d, "approved") \in Nat /\ Count(d, "approved") = Cardinality(Lines(log[d], "approved"))
  <1>1. log[d] \in Seq(Resolved \union Final)
    BY DEF TypeOK
  <1>2. Cardinality(Lines(log[d], "approved")) \in Nat
    BY <1>1, LinesAreFinite
  <1>3. QED
    BY <1>2 DEF Count, Lines

\* The sets of processes around a step of one of them.
LEMMA SetsMove ==
  ASSUME IsFiniteSet(Procs), NEW x \in Procs, Others(x), NEW d
  PROVE  /\ \A y \in Resolvers : y # x => (y \in Approving(proc, d) <=> y \in Approving(proc', d))
         /\ \A y \in Plugins : y # x => (y \in Replaying(proc, d) <=> y \in Replaying(proc', d))
         /\ \A y \in Plugins : y # x => (y \in Entering(proc, d) <=> y \in Entering(proc', d))
         /\ \A y \in Runners : y # x => (y \in Starting(proc, d) <=> y \in Starting(proc', d))
         /\ \A y \in Runners : y # x => (y \in Owing(proc, d) <=> y \in Owing(proc', d))
  BY DEF Others, Procs, Approving, Approves, Replaying, Entering, Starting, Owing, Owes

\* The arithmetic of a kept ration: who comes in takes one share, who leaves gives none
\* back, and what is given only grows.
LEMMA RationKept ==
  ASSUME NEW n \in Nat, NEW e \in Nat, NEW e2 \in Nat, NEW u \in Nat, NEW u2 \in Nat,
         NEW a \in Int, NEW a2 \in Int, NEW o \in BOOLEAN, NEW o2 \in BOOLEAN,
         e <= n, o2 => o, a <= a2,
         u + (IF o THEN n - e ELSE 0) <= a,
         IF o2 THEN u2 + e <= u + e2 ELSE u2 <= u
  PROVE  u2 + (IF o2 THEN n - e2 ELSE 0) <= a2
  OBVIOUS

\* The same where a crash pays for one more.
LEMMA RationKeptThoughCrashed ==
  ASSUME NEW n \in Nat, NEW e \in Nat, NEW e2 \in Nat, NEW u \in Nat, NEW u2 \in Nat,
         NEW c \in Nat, NEW c2 \in Nat,
         NEW a \in Int, NEW a2 \in Int, NEW o \in BOOLEAN, NEW o2 \in BOOLEAN,
         e <= n, o2 => o, a <= a2,
         u + (IF o THEN n - e ELSE 0) <= a + c,
         IF o2 THEN u2 + e + c <= u + e2 + c2 ELSE u2 + c <= u + c2
  PROVE  u2 + (IF o2 THEN n - e2 ELSE 0) <= a2 + c2
  OBVIOUS

\* The arithmetic of a new approval: it brings a share for everyone.
LEMMA RationOpenedThoughCrashed ==
  ASSUME NEW n \in Nat, NEW e \in Nat, NEW e2 \in Nat, NEW u \in Nat, NEW u2 \in Nat,
         NEW c \in Nat, NEW c2 \in Nat,
         NEW a \in Int, NEW a2 \in Int, NEW o \in BOOLEAN, NEW o2 \in BOOLEAN,
         e <= n, a + n <= a2, c <= c2, u2 <= u,
         u + (IF o THEN n - e ELSE 0) <= a + c
  PROVE  u2 + (IF o2 THEN n - e2 ELSE 0) <= a2 + c2
  <1>1. u <= a + c
    OBVIOUS
  <1>2. u2 + n <= a2 + c2
    BY <1>1
  <1>3. QED
    BY <1>2

LEMMA RationOpened ==
  ASSUME NEW n \in Nat, NEW e \in Nat, NEW e2 \in Nat, NEW u \in Nat, NEW u2 \in Nat,
         NEW a \in Int, NEW a2 \in Int, NEW o \in BOOLEAN, NEW o2 \in BOOLEAN,
         e <= n, a + n <= a2, u2 <= u,
         u + (IF o THEN n - e ELSE 0) <= a
  PROVE  u2 + (IF o2 THEN n - e2 ELSE 0) <= a2
  <1>1. u <= a
    OBVIOUS
  <1>2. u2 + n <= a2
    BY <1>1
  <1>3. QED
    BY <1>2

LEMMA RationStep ==
  ASSUME TypeOK, TypeOK', IsFiniteSet(Procs), RInv, NEW x \in Procs, Others(x),
         NEW d \in Decisions, Kept(x, d) \/ Opened(x, d), crashes <= crashes'
  PROVE  /\ Rationed(Cardinality(Plugins), Open(d), Given(d),
                released[d] + Cardinality(Replaying(proc, d)), Cardinality(Entering(proc, d)), 0)'
         /\ Rationed(Cardinality(Runners), Open(d), Given(d),
                spawned[d] + Cardinality(Starting(proc, d)), Cardinality(Owing(proc, d)), crashes)'
  <1>. DEFINE np == Cardinality(Plugins)
              nr == Cardinality(Runners)
              ap == Cardinality(Approving(proc, d))
              ap2 == Cardinality(Approving(proc', d))
              rp == Cardinality(Replaying(proc, d))
              rp2 == Cardinality(Replaying(proc', d))
              en == Cardinality(Entering(proc, d))
              en2 == Cardinality(Entering(proc', d))
              st == Cardinality(Starting(proc, d))
              st2 == Cardinality(Starting(proc', d))
              ow == Cardinality(Owing(proc, d))
              ow2 == Cardinality(Owing(proc', d))
              lines == Count(d, "approved")
              lines2 == Count(d, "approved")'
  <1>1. IsFiniteSet(Plugins) /\ IsFiniteSet(Runners) /\ IsFiniteSet(Resolvers)
    <2>1. Plugins \in SUBSET Procs /\ Runners \in SUBSET Procs /\ Resolvers \in SUBSET Procs
      BY DEF Procs
    <2>2. QED
      BY <2>1, FS_Subset
  <1>2. np \in Nat /\ nr \in Nat
    BY <1>1, FS_CardinalityType
  <1>3. /\ ap \in Nat /\ ap2 \in Nat
        /\ ap2 + Number(x \in Approving(proc, d)) = ap + Number(x \in Approving(proc', d))
    <2>1. Approving(proc, d) \in SUBSET Resolvers /\ Approving(proc', d) \in SUBSET Resolvers
      BY DEF Approving
    <2>2. QED
      BY <1>1, <2>1, SetsMove, OneMoves
  <1>4. /\ rp \in Nat /\ rp2 \in Nat
        /\ rp2 + Number(x \in Replaying(proc, d)) = rp + Number(x \in Replaying(proc', d))
    <2>1. Replaying(proc, d) \in SUBSET Plugins /\ Replaying(proc', d) \in SUBSET Plugins
      BY DEF Replaying
    <2>2. QED
      BY <1>1, <2>1, SetsMove, OneMoves
  <1>5. /\ en \in Nat /\ en2 \in Nat /\ en <= np
        /\ en2 + Number(x \in Entering(proc, d)) = en + Number(x \in Entering(proc', d))
    <2>1. Entering(proc, d) \in SUBSET Plugins /\ Entering(proc', d) \in SUBSET Plugins
      BY DEF Entering, Replaying
    <2>2. QED
      BY <1>1, <2>1, SetsMove, OneMoves
  <1>6. /\ st \in Nat /\ st2 \in Nat
        /\ st2 + Number(x \in Starting(proc, d)) = st + Number(x \in Starting(proc', d))
    <2>1. Starting(proc, d) \in SUBSET Runners /\ Starting(proc', d) \in SUBSET Runners
      BY DEF Starting
    <2>2. QED
      BY <1>1, <2>1, SetsMove, OneMoves
  <1>7. /\ ow \in Nat /\ ow2 \in Nat /\ ow <= nr
        /\ ow2 + Number(x \in Owing(proc, d)) = ow + Number(x \in Owing(proc', d))
    <2>1. Owing(proc, d) \in SUBSET Runners /\ Owing(proc', d) \in SUBSET Runners
      BY DEF Owing
    <2>2. QED
      BY <1>1, <2>1, SetsMove, OneMoves
  <1>8. lines \in Nat /\ lines2 \in Nat
    <2>1. lines2 \in Nat
      <3>1. log'[d] \in Seq(Resolved \union Final)
        BY DEF TypeOK
      <3>2. Cardinality(Lines(log'[d], "approved")) \in Nat
        BY <3>1, LinesAreFinite
      <3>3. QED
        BY <3>2 DEF Count, Lines
    <2>2. QED
      BY <2>1, ApprovedCount
  <1>9. /\ released[d] \in Nat /\ released'[d] \in Nat /\ spawned[d] \in Nat /\ spawned'[d] \in Nat
        /\ crashes \in Nat /\ crashes' \in Nat
    BY DEF TypeOK
  <1>10. /\ Rationed(np, Open(d), lines - ap, released[d] + rp, en, 0)
         /\ Rationed(nr, Open(d), lines - ap, spawned[d] + st, ow, crashes)
    BY DEF RInv, Given
  <1>11. \A b : Number(b) \in {0, 1} /\ (Number(b) = 1 <=> b)
    BY DEF Number
  <1>12. Open(d) \in BOOLEAN /\ Open(d)' \in BOOLEAN
    BY DEF Open
  <1>13. /\ Number(x \in Approving(proc, d)') = Number(x \in Approving(proc', d))
         /\ Number(x \in Replaying(proc, d)') = Number(x \in Replaying(proc', d))
         /\ Number(x \in Entering(proc, d)') = Number(x \in Entering(proc', d))
         /\ Number(x \in Starting(proc, d)') = Number(x \in Starting(proc', d))
         /\ Number(x \in Owing(proc, d)') = Number(x \in Owing(proc', d))
    OBVIOUS
  <1>. HIDE DEF np, nr, ap, ap2, rp, rp2, en, en2, st, st2, ow, ow2, lines, lines2
  <1>14. PICK g \in Int, g2 \in Int : g = lines - ap /\ g2 = lines2 - ap2
    BY <1>3, <1>8
  <1>15. PICK u \in Nat, u2 \in Nat : u = released[d] + rp /\ u2 = released'[d] + rp2
    BY <1>4, <1>9
  <1>16. PICK v \in Nat, v2 \in Nat : v = spawned[d] + st /\ v2 = spawned'[d] + st2
    BY <1>6, <1>9
  <1>17. Rationed(np, Open(d), g, u, en, 0) /\ Rationed(nr, Open(d), g, v, ow, crashes)
    BY <1>10, <1>14, <1>15, <1>16
  <1>18. PICK a \in Int, a2 \in Int, b \in Int, b2 \in Int :
            a = np * g /\ a2 = np * g2 /\ b = nr * g /\ b2 = nr * g2
    BY <1>2, <1>14
  <1>19. /\ u + (IF Open(d) THEN np - en ELSE 0) <= a
         /\ v + (IF Open(d) THEN nr - ow ELSE 0) <= b + crashes
    <2>1. /\ u + (IF Open(d) THEN np - en ELSE 0) <= np * g + 0
          /\ v + (IF Open(d) THEN nr - ow ELSE 0) <= nr * g + crashes
      BY <1>17, Zenon DEF Rationed
    <2>2. QED
      BY <1>18, <2>1
  <1>20. /\ u2 + (IF Open(d)' THEN np - en2 ELSE 0) <= a2
         /\ v2 + (IF Open(d)' THEN nr - ow2 ELSE 0) <= b2 + crashes'
    <2>1. CASE Kept(x, d)
      <3>1. (Open(d)' => Open(d)) /\ g <= g2
        BY <1>3, <1>8, <1>11, <1>13, <1>14, <2>1 DEF Kept, lines, lines2
      <3>2. IF Open(d)' THEN u2 + en <= u + en2 ELSE u2 <= u
        BY <1>4, <1>5, <1>9, <1>11, <1>13, <1>15, <2>1 DEF Kept
      <3>3. IF Open(d)' THEN v2 + ow + crashes <= v + ow2 + crashes' ELSE v2 + crashes <= v + crashes'
        BY <1>6, <1>7, <1>9, <1>11, <1>13, <1>16, <2>1 DEF Kept
      <3>4. a <= a2 /\ b <= b2
        <4>1. np * g <= np * g2 /\ nr * g <= nr * g2
          BY <1>2, <1>14, <3>1, ProductGrows
        <4>2. QED
          BY <1>18, <4>1
      <3>5. u2 + (IF Open(d)' THEN np - en2 ELSE 0) <= a2
        BY <1>2, <1>5, <1>12, <1>19, <3>1, <3>2, <3>4, RationKept
      <3>6. v2 + (IF Open(d)' THEN nr - ow2 ELSE 0) <= b2 + crashes'
        <4>1. PICK c \in Nat, c2 \in Nat : c = crashes /\ c2 = crashes'
          BY <1>9
        <4>2. /\ v + (IF Open(d) THEN nr - ow ELSE 0) <= b + c
              /\ IF Open(d)' THEN v2 + ow + c <= v + ow2 + c2 ELSE v2 + c <= v + c2
          BY <1>19, <3>3, <4>1, Zenon
        <4>3. v2 + (IF Open(d)' THEN nr - ow2 ELSE 0) <= b2 + c2
          BY <1>2, <1>7, <1>12, <3>1, <3>4, <4>2, RationKeptThoughCrashed
        <4>4. QED
          BY <4>1, <4>3
      <3>7. QED
        BY <3>5, <3>6
    <2>2. CASE Opened(x, d)
      <3>1. g + 1 <= g2
        BY <1>3, <1>8, <1>11, <1>13, <1>14, <2>2 DEF Opened, lines, lines2
      <3>2. u2 <= u /\ v2 <= v
        BY <1>4, <1>6, <1>9, <1>11, <1>13, <1>15, <1>16, <2>2 DEF Opened
      <3>3. a + np <= a2 /\ b + nr <= b2
        <4>1. PICK h \in Int : h = g + 1
          BY <1>14
        <4>2. np * h <= np * g2 /\ nr * h <= nr * g2
          BY <1>2, <1>14, <3>1, <4>1, ProductGrows
        <4>3. np * (g + 1) = np * g + np /\ nr * (g + 1) = nr * g + nr
          <5>1. g <= g
            BY <1>14
          <5>2. QED
            BY <1>2, <1>14, <5>1, ProductGrows
        <4>4. QED
          BY <1>18, <4>1, <4>2, <4>3
      <3>4. QED
        <4>1. u2 + (IF Open(d)' THEN np - en2 ELSE 0) <= a2
          BY <1>2, <1>5, <1>12, <1>19, <3>2, <3>3, RationOpened
        <4>2. PICK c \in Nat, c2 \in Nat : c = crashes /\ c2 = crashes' /\ c <= c2
          BY <1>9
        <4>3. v + (IF Open(d) THEN nr - ow ELSE 0) <= b + c
          BY <1>19, <4>2, Zenon
        <4>4. v2 + (IF Open(d)' THEN nr - ow2 ELSE 0) <= b2 + c2
          BY <1>2, <1>7, <1>12, <3>2, <3>3, <4>2, <4>3, RationOpenedThoughCrashed, ZenonT(40)
        <4>5. QED
          BY <4>1, <4>2, <4>4
    <2>3. QED
      BY <2>1, <2>2
  <1>21. Rationed(np, Open(d)', g2, u2, en2, 0) /\ Rationed(nr, Open(d)', g2, v2, ow2, crashes')
    <2>1. /\ u2 + (IF Open(d)' THEN np - en2 ELSE 0) <= np * g2 + 0
          /\ v2 + (IF Open(d)' THEN nr - ow2 ELSE 0) <= nr * g2 + crashes'
      BY <1>18, <1>20
    <2>2. QED
      BY <2>1, Zenon DEF Rationed
  <1>22. QED
    BY <1>14, <1>15, <1>16, <1>21 DEF np, nr, ap, ap2, rp, rp2, en, en2, st, st2, ow, ow2, lines, lines2, Given

\* A step of a process that opens no file: every ration is kept or, by the resolver, opened.
LEMMA RationOfOne ==
  ASSUME IInv, IInv', IsFiniteSet(Procs), RInv, NEW x \in Procs, Others(x), crashes <= crashes',
         \A d \in Decisions : Kept(x, d) \/ Opened(x, d)
  PROVE  RInv'
  BY RationStep DEF RInv, IInv

LEMMA NumberIsBit == \A b : Number(b) \in {0, 1} /\ (Number(b) = 1 <=> b)
  BY DEF Number

LEMMA CountsAreCounts ==
  ASSUME TypeOK, TypeOK', NEW d \in Decisions
  PROVE  /\ Count(d, "approved") \in Nat /\ Count(d, "approved")' \in Nat
         /\ released[d] \in Nat /\ released'[d] \in Nat /\ spawned[d] \in Nat /\ spawned'[d] \in Nat
         /\ crashes \in Nat /\ crashes' \in Nat
  <1>1. log[d] \in Seq(Resolved \union Final) /\ log'[d] \in Seq(Resolved \union Final)
    BY DEF TypeOK
  <1>2. Cardinality(Lines(log[d], "approved")) \in Nat /\ Cardinality(Lines(log'[d], "approved")) \in Nat
    BY <1>1, LinesAreFinite
  <1>3. Count(d, "approved") \in Nat /\ Count(d, "approved")' \in Nat
    BY <1>2 DEF Count, Lines
  <1>4. QED
    BY <1>3 DEF TypeOK

\* The part of a plugin, given what it did at this step ...
LEMMA PluginKept ==
  ASSUME TypeOK, TypeOK', NEW x \in Plugins, NEW d \in Decisions,
         NEW s, NEW t, proc[x] = s, proc'[x] = t,
         Open(d)' => Open(d), Count(d, "approved") <= Count(d, "approved")',
         spawned'[d] = spawned[d], crashes <= crashes',
         released'[d] + Number(t.outcome = "allow" /\ t.d = d)
           + Number(Open(d)' /\ s.outcome = "allow" /\ s.d = d /\ s.pc = "consumeWrite") <=
         released[d] + Number(s.outcome = "allow" /\ s.d = d)
           + Number(Open(d)' /\ t.outcome = "allow" /\ t.d = d /\ t.pc = "consumeWrite")
  PROVE  Kept(x, d)
  <1>1. x \notin Resolvers /\ x \notin Runners
    BY ProcsAssumption
  <1>2. /\ Number(x \in Approving(proc, d)) = 0 /\ Number(x \in Approving(proc, d)') = 0
        /\ Number(x \in Starting(proc, d)) = 0 /\ Number(x \in Starting(proc, d)') = 0
        /\ Number(Open(d)' /\ x \in Owing(proc, d)) = 0 /\ Number(Open(d)' /\ x \in Owing(proc, d)') = 0
    BY <1>1, NumberIsBit DEF Approving, Starting, Owing, Number
  <1>3. /\ x \in Replaying(proc, d) <=> (s.outcome = "allow" /\ s.d = d)
        /\ x \in Replaying(proc, d)' <=> (t.outcome = "allow" /\ t.d = d)
        /\ x \in Entering(proc, d) <=> (s.outcome = "allow" /\ s.d = d /\ s.pc = "consumeWrite")
        /\ x \in Entering(proc, d)' <=> (t.outcome = "allow" /\ t.d = d /\ t.pc = "consumeWrite")
    BY DEF Replaying, Entering
  <1>4. /\ Number(x \in Replaying(proc, d)) = Number(s.outcome = "allow" /\ s.d = d)
        /\ Number(x \in Replaying(proc, d)') = Number(t.outcome = "allow" /\ t.d = d)
        /\ Number(Open(d)' /\ x \in Entering(proc, d)) =
             Number(Open(d)' /\ s.outcome = "allow" /\ s.d = d /\ s.pc = "consumeWrite")
        /\ Number(Open(d)' /\ x \in Entering(proc, d)') =
             Number(Open(d)' /\ t.outcome = "allow" /\ t.d = d /\ t.pc = "consumeWrite")
    BY <1>3 DEF Number
  <1>5. QED
    BY <1>2, <1>4, CountsAreCounts, NumberIsBit DEF Kept

\* ... of a runner ...
LEMMA RunnerKept ==
  ASSUME TypeOK, TypeOK', NEW x \in Runners, NEW d \in Decisions,
         NEW s, NEW t, proc[x] = s, proc'[x] = t,
         Open(d)' => Open(d), Count(d, "approved") <= Count(d, "approved")',
         released'[d] = released[d],
         spawned'[d] + Number(t.pc = "spawn" /\ t.d = d)
           + Number(Open(d)' /\ Owes(s, d))
           + crashes <=
         spawned[d] + Number(s.pc = "spawn" /\ s.d = d)
           + Number(Open(d)' /\ Owes(t, d))
           + crashes'
  PROVE  Kept(x, d)
  <1>1. x \notin Resolvers /\ x \notin Plugins
    BY ProcsAssumption
  <1>2. /\ Number(x \in Approving(proc, d)) = 0 /\ Number(x \in Approving(proc, d)') = 0
        /\ Number(x \in Replaying(proc, d)) = 0 /\ Number(x \in Replaying(proc, d)') = 0
        /\ Number(Open(d)' /\ x \in Entering(proc, d)) = 0 /\ Number(Open(d)' /\ x \in Entering(proc, d)') = 0
    BY <1>1 DEF Approving, Replaying, Entering, Number
  <1>3. /\ x \in Starting(proc, d) <=> (s.pc = "spawn" /\ s.d = d)
        /\ x \in Starting(proc, d)' <=> (t.pc = "spawn" /\ t.d = d)
        /\ x \in Owing(proc, d) <=> Owes(s, d)
        /\ x \in Owing(proc, d)' <=> Owes(t, d)
    BY DEF Starting, Owing
  <1>4. /\ Number(x \in Starting(proc, d)) = Number(s.pc = "spawn" /\ s.d = d)
        /\ Number(x \in Starting(proc, d)') = Number(t.pc = "spawn" /\ t.d = d)
        /\ Number(Open(d)' /\ x \in Owing(proc, d)) =
             Number(Open(d)' /\ Owes(s, d))
        /\ Number(Open(d)' /\ x \in Owing(proc, d)') =
             Number(Open(d)' /\ Owes(t, d))
    BY <1>3 DEF Number
  <1>5. QED
    BY <1>2, <1>4, CountsAreCounts, NumberIsBit DEF Kept

\* ... and of a resolver, whose approval is counted when the file is opened.
LEMMA ResolverKept ==
  ASSUME TypeOK, TypeOK', NEW x \in Resolvers, NEW d \in Decisions,
         NEW s, NEW t, proc[x] = s, proc'[x] = t,
         released'[d] = released[d], spawned'[d] = spawned[d], crashes <= crashes',
         Count(d, "approved")
           + Number(Approves(t, d))
           + Number(Open(d)' /\ ~Open(d)) <=
         Count(d, "approved")'
           + Number(Approves(s, d))
  PROVE  Kept(x, d) \/ Opened(x, d)
  <1>1. x \notin Runners /\ x \notin Plugins
    BY ProcsAssumption
  <1>2. /\ Number(x \in Starting(proc, d)) = 0 /\ Number(x \in Starting(proc, d)') = 0
        /\ Number(Open(d)' /\ x \in Owing(proc, d)) = 0 /\ Number(Open(d)' /\ x \in Owing(proc, d)') = 0
        /\ Number(x \in Replaying(proc, d)) = 0 /\ Number(x \in Replaying(proc, d)') = 0
        /\ Number(Open(d)' /\ x \in Entering(proc, d)) = 0 /\ Number(Open(d)' /\ x \in Entering(proc, d)') = 0
    BY <1>1 DEF Starting, Owing, Replaying, Entering, Number
  <1>3. /\ Number(x \in Approving(proc, d)) =
             Number(Approves(s, d))
        /\ Number(x \in Approving(proc, d)') =
             Number(Approves(t, d))
    BY DEF Approving, Number
  <1>4. CASE Open(d)' => Open(d)
    <2>1. Number(Open(d)' /\ ~Open(d)) = 0
      BY <1>4 DEF Number
    <2>2. QED
      BY <1>2, <1>3, <1>4, <2>1, CountsAreCounts, NumberIsBit DEF Kept
  <1>5. CASE Open(d)' /\ ~Open(d)
    <2>1. Number(Open(d)' /\ ~Open(d)) = 1
      BY <1>5 DEF Number
    <2>2. QED
      BY <1>2, <1>3, <2>1, CountsAreCounts, NumberIsBit DEF Opened
  <1>6. QED
    BY <1>4, <1>5

\* The line a process appends is counted if it is an approval, and no other is lost.
LEMMA ApprovalsGrow ==
  ASSUME TypeOK, NEW x \in Procs, NEW d0 \in Decisions, proc[x].d = d0,
         NEW st \in Resolved \union Final, proc[x].rec.status = st, AppendLog(x),
         NEW d \in Decisions
  PROVE  Count(d, "approved") + Number(d = d0 /\ st = "approved") = Count(d, "approved")'
  <1>1. /\ log' = [log EXCEPT ![d0] = Append(log[d0], st)]
        /\ log \in [Decisions -> Seq(Resolved \union Final)]
    BY DEF AppendLog, TypeOK
  <1>2. log[d0] \in Seq(Resolved \union Final) /\ log'[d0] = Append(log[d0], st)
    BY <1>1
  <1>3. Cardinality(Lines(log'[d0], "approved")) =
           IF st = "approved" THEN Cardinality(Lines(log[d0], "approved")) + 1
                              ELSE Cardinality(Lines(log[d0], "approved"))
    BY <1>2, CountAppend
  <1>4. /\ Count(d0, "approved") = Cardinality(Lines(log[d0], "approved"))
        /\ Count(d0, "approved")' = Cardinality(Lines(log'[d0], "approved"))
        /\ Count(d0, "approved") \in Nat
    BY ApprovedCount DEF Count, Lines
  <1>5. CASE d = d0
    BY <1>3, <1>4, <1>5 DEF Number
  <1>6. CASE d # d0
    <2>1. Count(d, "approved")' = Count(d, "approved") /\ Count(d, "approved") \in Nat
      <3>1. log'[d] = log[d]
        BY <1>1, <1>6
      <3>2. QED
        BY <3>1, ApprovedCount DEF Count
    <2>2. QED
      BY <1>6, <2>1 DEF Number
  <1>7. QED
    BY <1>5, <1>6

\* A plugin that comes no nearer to releasing, and leaves the open files to the others.
LEMMA PluginQuiet ==
  ASSUME IInv, IInv', IsFiniteSet(Procs), RInv, NEW x \in Plugins, Others(x),
         \A d \in Decisions :
           /\ Open(d)' => Open(d)
           /\ Count(d, "approved") <= Count(d, "approved")'
           /\ proc'[x].outcome = "allow" /\ proc'[x].d = d => proc[x].outcome = "allow" /\ proc[x].d = d
           /\ Open(d)' /\ proc[x].pc = "consumeWrite" /\ proc[x].outcome = "allow" /\ proc[x].d = d =>
                proc'[x].pc = "consumeWrite" /\ proc'[x].outcome = "allow" /\ proc'[x].d = d,
         UNCHANGED <<released, spawned>>, crashes <= crashes'
  PROVE  RInv'
  <1>1. x \in Procs /\ TypeOK /\ TypeOK'
    BY DEF Procs, IInv
  <1>2. ASSUME NEW d \in Decisions PROVE Kept(x, d)
    <2> DEFINE b1 == Number(proc'[x].outcome = "allow" /\ proc'[x].d = d)
               b2 == Number(Open(d)' /\ proc[x].outcome = "allow" /\ proc[x].d = d /\ proc[x].pc = "consumeWrite")
               b3 == Number(proc[x].outcome = "allow" /\ proc[x].d = d)
               b4 == Number(Open(d)' /\ proc'[x].outcome = "allow" /\ proc'[x].d = d /\ proc'[x].pc = "consumeWrite")
    <2>1. b1 <= b3 /\ b2 <= b4 /\ b1 \in {0, 1} /\ b2 \in {0, 1} /\ b3 \in {0, 1} /\ b4 \in {0, 1}
      BY DEF Number
    <2> HIDE DEF b1, b2, b3, b4
    <2>2. released'[d] + b1 + b2 <= released[d] + b3 + b4
      BY <1>1, <2>1, CountsAreCounts
    <2>3. QED
      BY <1>1, <2>2, PluginKept DEF b1, b2, b3, b4
  <1>3. QED
    BY <1>1, <1>2, RationOfOne

LEMMA SameApprovals ==
  ASSUME TypeOK, log' = log, NEW d \in Decisions
  PROVE  Count(d, "approved") <= Count(d, "approved")'
  <1>1. Count(d, "approved")' = Count(d, "approved")
    BY DEF Count
  <1>2. QED
    BY <1>1, ApprovedCount

LEMMA RationOfAsk ==
  ASSUME IInv, IInv', IsFiniteSet(Procs), RInv, NEW p \in Plugins, NEW d \in Decisions, NEW c \in Calls,
         NEW action \in {"allow", "ask", "deny"}, Evaluate(p, d, c, action)
  PROVE  RInv'
  <1>1. p \in Procs /\ TypeOK
    BY DEF Procs, IInv
  <1>2. UNCHANGED <<file, log, released, spawned, crashes>> /\ crashes \in Nat
    BY <1>1 DEF Evaluate, TypeOK
  <1>3. proc[p] = Idle /\ Others(p) /\ proc'[p].outcome = "none"
    BY <1>1 DEF Evaluate, Begin, Others, TypeOK, Idle
  <1>4. \A e \in Decisions : Count(e, "approved") <= Count(e, "approved")'
    BY <1>1, <1>2, SameApprovals
  <1>5. QED
    BY <1>2, <1>3, <1>4, PluginQuiet DEF Open, Idle

\* A replay gets in while the file is open, and takes its share of what is open.
LEMMA RationOfReplay ==
  ASSUME IInv, IInv', IsFiniteSet(Procs), RInv, NEW p \in Plugins, NEW d0 \in Decisions, NEW c \in Calls,
         Replay(p, d0, c)
  PROVE  RInv'
  <1>1. p \in Procs /\ TypeOK /\ TypeOK'
    BY DEF Procs, IInv
  <1>2. UNCHANGED <<file, log, released, spawned, crashes>> /\ crashes \in Nat
    BY <1>1 DEF Replay, TypeOK
  <1> DEFINE rec == Consumption(file[d0], SameCall(file[d0], c))
  <1>3. proc[p] = Idle /\ Others(p)
    BY <1>1 DEF Replay, Begin, Others, TypeOK
  <1>4. \A e \in Decisions : Count(e, "approved") <= Count(e, "approved")'
    BY <1>1, <1>2, SameApprovals
  <1>5. rec # file[d0] => Open(d0)
    <2>1. file[d0] \in Record /\ SameCall(file[d0], c) \in BOOLEAN
      BY <1>1 DEF TypeOK, SameCall
    <2>2. QED
      BY <2>1, ConsumptionIsRecord DEF Open
  <1>6. CASE proc'[p].outcome # "allow"
    BY <1>2, <1>3, <1>4, <1>6, PluginQuiet DEF Open, Idle
  <1>7. CASE proc'[p].outcome = "allow"
    <2>1. rec # file[d0] /\ proc'[p].pc = "consumeWrite" /\ proc'[p].d = d0
      <3> HIDE DEF rec
      <3>1. \/ rec = file[d0] /\ Begin(p, "auditReplay", d0, c, rec, "deny")
            \/ /\ rec # file[d0]
               /\ Begin(p, "consumeWrite", d0, c, rec, IF rec.status = "consumed" THEN "allow" ELSE "deny")
        BY DEF Replay, rec
      <3>2. QED
        BY <1>1, <1>7, <3>1, SMTT(30) DEF Begin, TypeOK
    <2>2. ASSUME NEW d \in Decisions PROVE Kept(p, d)
      <3> DEFINE b1 == Number(proc'[p].outcome = "allow" /\ proc'[p].d = d)
                 b2 == Number(Open(d)' /\ proc[p].outcome = "allow" /\ proc[p].d = d /\ proc[p].pc = "consumeWrite")
                 b3 == Number(proc[p].outcome = "allow" /\ proc[p].d = d)
                 b4 == Number(Open(d)' /\ proc'[p].outcome = "allow" /\ proc'[p].d = d /\ proc'[p].pc = "consumeWrite")
      <3>1. b2 = 0 /\ b3 = 0
        BY <1>3 DEF Number, Idle
      <3>2. b1 = b4 /\ b1 \in {0, 1}
        BY <1>2, <1>5, <1>7, <2>1 DEF Number, Open
      <3>3. Open(d)' => Open(d)
        BY <1>2 DEF Open
      <3> HIDE DEF b1, b2, b3, b4
      <3>4. released'[d] + b1 + b2 <= released[d] + b3 + b4
        BY <1>1, <1>2, <3>1, <3>2, CountsAreCounts
      <3>5. QED
        BY <1>1, <1>2, <1>4, <3>3, <3>4, PluginKept DEF b1, b2, b3, b4
    <2>3. QED
      BY <1>1, <1>2, <1>3, <2>2, RationOfOne
  <1>8. QED
    BY <1>6, <1>7

LEMMA RationOfPluginStep ==
  ASSUME IInv, IInv', IsFiniteSet(Procs), RInv, NEW p \in Plugins, PluginStep(p)
  PROVE  RInv'
  <1>1. p \in Procs /\ TypeOK /\ TypeOK' /\ HeldFacts(proc[p]) /\ proc[p] \in Process
    BY Facts DEF Procs, IInv
  <1>2. crashes' = crashes /\ crashes <= crashes' /\ UNCHANGED spawned
    BY <1>1 DEF PluginStep, CreatePending, ConsumeWrite, ConsumeLog, AuditReplay, Release, TypeOK
  <1>3. CASE CreatePending(p)
    <2>1. PICK d0 \in Decisions : d0 = proc[p].d /\ proc[p].rec.status = "pending"
      BY <1>1, <1>3 DEF HeldFacts, CreatePending, At
    <2>2. proc'[p] = Idle /\ Others(p)
      BY <1>1, <1>3, FinishEffect DEF CreatePending
    <2>3. \A d \in Decisions : Open(d)' => Open(d)
      BY <1>1, <1>3, <2>1, WriteEffect DEF CreatePending, Open
    <2>4. \A d \in Decisions : Count(d, "approved") <= Count(d, "approved")'
      BY <1>1, <1>3, SameApprovals DEF CreatePending
    <2>5. proc[p].pc # "consumeWrite" /\ UNCHANGED released
      BY <1>3 DEF CreatePending, At
    <2>6. QED
      BY <1>2, <2>2, <2>3, <2>4, <2>5, PluginQuiet DEF Idle
  <1>4. CASE ConsumeWrite(p)
    <2>1. PICK d0 \in Decisions : d0 = proc[p].d /\ proc[p].rec.status # "approved"
      BY <1>1, <1>4 DEF HeldFacts, ConsumeWrite, At
    <2>2. proc'[p] = [proc[p] EXCEPT !.pc = "consumeLog"] /\ Others(p)
      BY <1>1, <1>4, GotoEffect DEF ConsumeWrite, Steps
    <2>3. /\ \A d \in Decisions : Open(d)' => Open(d)
          /\ ~Open(d0)'
      BY <1>1, <1>4, <2>1, WriteEffect DEF ConsumeWrite, Open
    <2>4. \A d \in Decisions : Count(d, "approved") <= Count(d, "approved")'
      BY <1>1, <1>4, SameApprovals DEF ConsumeWrite
    <2>5. /\ UNCHANGED released /\ proc'[p].outcome = proc[p].outcome /\ proc'[p].d = proc[p].d
          /\ Others(p)
      BY <1>1, <1>4, <2>2 DEF ConsumeWrite, Process
    <2>6. QED
      BY <1>2, <2>1, <2>3, <2>4, <2>5, PluginQuiet
  <1>5. CASE ConsumeLog(p)
    <2>1. PICK d0 \in Decisions, st \in Final : d0 = proc[p].d /\ proc[p].rec.status = st
      BY <1>1, <1>5 DEF HeldFacts, ConsumeLog, At, Final
    <2>2. proc'[p] = [proc[p] EXCEPT !.pc = "auditReplay"] /\ Others(p)
      BY <1>1, <1>5, GotoEffect DEF ConsumeLog, Steps
    <2>3. \A d \in Decisions : Open(d)' => Open(d)
      BY <1>5 DEF ConsumeLog, Open
    <2>4. ASSUME NEW d \in Decisions PROVE Count(d, "approved") <= Count(d, "approved")'
      BY <1>1, <1>5, <2>1, ApprovalsGrow, CountsAreCounts, NumberIsBit DEF ConsumeLog
    <2>5. /\ UNCHANGED released /\ proc'[p].outcome = proc[p].outcome /\ proc'[p].d = proc[p].d
          /\ proc[p].pc # "consumeWrite" /\ Others(p)
      BY <1>1, <1>5, <2>2 DEF ConsumeLog, Process, At
    <2>6. QED
      BY <1>2, <2>3, <2>4, <2>5, PluginQuiet
  <1>6. CASE AuditReplay(p)
    <2>1. PICK s \in {Idle, [proc[p] EXCEPT !.pc = "release"]} : proc' = [proc EXCEPT ![p] = s]
      BY <1>6 DEF AuditReplay, Finish, Goto
    <2>2. proc'[p] = s /\ Others(p)
      BY <1>1, <2>1 DEF TypeOK, Others
    <2>3. proc'[p].outcome = "allow" => proc[p].outcome = "allow" /\ proc'[p].d = proc[p].d
      BY <1>1, <2>1, <2>2 DEF Idle, Process
    <2>4. \A d \in Decisions : (Open(d)' => Open(d)) /\ Count(d, "approved") <= Count(d, "approved")'
      BY <1>1, <1>6, SameApprovals DEF AuditReplay, Open
    <2>5. proc[p].pc # "consumeWrite" /\ UNCHANGED released
      BY <1>6 DEF AuditReplay, At
    <2>6. QED
      BY <1>2, <2>2, <2>3, <2>4, <2>5, PluginQuiet
  <1>7. CASE Release(p)
    <2>1. PICK d0 \in Decisions : d0 = proc[p].d /\ proc[p].outcome = "allow" /\ proc[p].pc = "release"
      BY <1>1, <1>7 DEF HeldFacts, Release, At
    <2>2. proc'[p] = Idle /\ Others(p)
      BY <1>1, <1>7, FinishEffect DEF Release
    <2>3. \A d \in Decisions : (Open(d)' => Open(d)) /\ Count(d, "approved") <= Count(d, "approved")'
      BY <1>1, <1>7, SameApprovals DEF Release, Open
    <2>4. ASSUME NEW d \in Decisions PROVE Kept(p, d)
      <3> DEFINE b1 == Number(proc'[p].outcome = "allow" /\ proc'[p].d = d)
                 b2 == Number(Open(d)' /\ proc[p].outcome = "allow" /\ proc[p].d = d /\ proc[p].pc = "consumeWrite")
                 b3 == Number(proc[p].outcome = "allow" /\ proc[p].d = d)
                 b4 == Number(Open(d)' /\ proc'[p].outcome = "allow" /\ proc'[p].d = d /\ proc'[p].pc = "consumeWrite")
      <3>1. b1 = 0 /\ b2 = 0 /\ b4 = 0 /\ b3 = Number(d = d0)
        BY <2>1, <2>2 DEF Number, Idle
      <3>2. released'[d] = released[d] + Number(d = d0)
        BY <1>1, <1>7, <2>1, SMTT(30) DEF Release, TypeOK, Number
      <3> HIDE DEF b1, b2, b3, b4
      <3>3. released'[d] + b1 + b2 <= released[d] + b3 + b4
        BY <1>1, <3>1, <3>2, CountsAreCounts, NumberIsBit
      <3>4. QED
        BY <1>1, <1>2, <2>3, <3>3, PluginKept DEF b1, b2, b3, b4
    <2>5. QED
      BY <1>1, <1>2, <2>2, <2>4, RationOfOne
  <1>8. QED
    BY <1>3, <1>4, <1>5, <1>6, <1>7 DEF PluginStep

\* A resolver logs its approval before it opens the file with it.
LEMMA RationOfResolver ==
  ASSUME IInv, IInv', IsFiniteSet(Procs), RInv, NEW r \in Resolvers,
         \/ \E d \in Decisions, verdict \in Resolved : Resolve(r, d, verdict)
         \/ ResolverStep(r)
  PROVE  RInv'
  <1>1. r \in Procs /\ TypeOK /\ TypeOK' /\ HeldFacts(proc[r]) /\ proc[r] \in Process
    BY Facts DEF Procs, IInv
  <1>2. crashes <= crashes' /\ UNCHANGED <<released, spawned>>
    <2>1. UNCHANGED <<released, spawned, crashes>>
      BY DEF ResolverStep, ResolveLog, ResolveWrite, Resolve
    <2>2. QED
      BY <1>1, <2>1 DEF TypeOK
  <1> SUFFICES /\ Others(r)
               /\ \A d \in Decisions :
                    Count(d, "approved")
                      + Number(Approves(proc'[r], d))
                      + Number(Open(d)' /\ ~Open(d)) <=
                    Count(d, "approved")'
                      + Number(Approves(proc[r], d))
    <2>1. ASSUME NEW d \in Decisions,
                 Count(d, "approved")
                   + Number(Approves(proc'[r], d))
                   + Number(Open(d)' /\ ~Open(d)) <=
                 Count(d, "approved")'
                   + Number(Approves(proc[r], d))
          PROVE  Kept(r, d) \/ Opened(r, d)
      BY <1>1, <1>2, <2>1, ResolverKept
    <2>2. QED
      BY <1>1, <1>2, <2>1, RationOfOne
  <1>3. ASSUME NEW d0 \in Decisions, NEW verdict \in Resolved, Resolve(r, d0, verdict),
               NEW d \in Decisions
        PROVE  /\ Others(r)
               /\ Count(d, "approved")
                    + Number(Approves(proc'[r], d))
                    + Number(Open(d)' /\ ~Open(d)) <=
                  Count(d, "approved")'
                    + Number(Approves(proc[r], d))
    <2>1. proc[r] = Idle /\ Others(r) /\ proc'[r].pc = "resolveLog"
      BY <1>1, <1>3 DEF Resolve, Begin, Others, TypeOK
    <2>2. /\ Number(Approves(proc'[r], d)) = 0
          /\ Number(Approves(proc[r], d)) = 0
          /\ Number(Open(d)' /\ ~Open(d)) = 0
      BY <1>3, <2>1 DEF Number, Idle, Resolve, Open, Approves
    <2>3. Count(d, "approved") <= Count(d, "approved")'
      BY <1>1, <1>3, SameApprovals DEF Resolve
    <2>4. QED
      BY <1>1, <2>1, <2>2, <2>3, CountsAreCounts
  <1>4. ASSUME ResolveLog(r), NEW d \in Decisions
        PROVE  /\ Others(r)
               /\ Count(d, "approved")
                    + Number(Approves(proc'[r], d))
                    + Number(Open(d)' /\ ~Open(d)) <=
                  Count(d, "approved")'
                    + Number(Approves(proc[r], d))
    <2>1. PICK d0 \in Decisions, st \in Resolved :
             d0 = proc[r].d /\ proc[r].rec.status = st /\ proc[r].pc = "resolveLog"
      BY <1>1, <1>4 DEF HeldFacts, ResolveLog, At
    <2>2. proc'[r] = [proc[r] EXCEPT !.pc = "resolveWrite"] /\ Others(r)
      BY <1>1, <1>4, GotoEffect DEF ResolveLog, Steps
    <2>3. proc'[r].d = d0 /\ proc'[r].rec.status = st /\ proc'[r].pc = "resolveWrite"
      BY <1>1, <2>1, <2>2 DEF Process
    <2>4. /\ Number(Approves(proc'[r], d))
               = Number(d = d0 /\ st = "approved")
          /\ Number(Approves(proc[r], d)) = 0
          /\ Number(Open(d)' /\ ~Open(d)) = 0
      BY <1>4, <2>1, <2>3 DEF Number, ResolveLog, Open, Approves
    <2>5. Count(d, "approved") + Number(d = d0 /\ st = "approved") = Count(d, "approved")'
      BY <1>1, <1>4, <2>1, ApprovalsGrow DEF ResolveLog
    <2>6. QED
      BY <1>1, <2>2, <2>4, <2>5, CountsAreCounts, NumberIsBit
  <1>5. ASSUME ResolveWrite(r), NEW d \in Decisions
        PROVE  /\ Others(r)
               /\ Count(d, "approved")
                    + Number(Approves(proc'[r], d))
                    + Number(Open(d)' /\ ~Open(d)) <=
                  Count(d, "approved")'
                    + Number(Approves(proc[r], d))
    <2>1. PICK d0 \in Decisions : d0 = proc[r].d /\ proc[r].pc = "resolveWrite"
      BY <1>1, <1>5 DEF HeldFacts, ResolveWrite, At
    <2>2. proc'[r] = Idle /\ Others(r)
      BY <1>1, <1>5, FinishEffect DEF ResolveWrite
    <2>3. Number(Approves(proc'[r], d)) = 0
      BY <2>2 DEF Number, Idle, Approves
    <2>4. Number(Open(d)' /\ ~Open(d)) <=
            Number(Approves(proc[r], d))
      <3>1. Open(d)' /\ ~Open(d) => proc[r].rec.status = "approved" /\ d = d0
        BY <1>1, <1>5, <2>1, WriteEffect DEF ResolveWrite, Open
      <3>2. QED
        BY <2>1, <3>1 DEF Number, Approves
    <2>5. Count(d, "approved") <= Count(d, "approved")'
      BY <1>1, <1>5, SameApprovals DEF ResolveWrite
    <2>6. QED
      BY <1>1, <2>2, <2>3, <2>4, <2>5, CountsAreCounts, NumberIsBit
  <1>6. CASE \E d \in Decisions, verdict \in Resolved : Resolve(r, d, verdict)
    <2>1. Others(r)
      BY <1>1, <1>6 DEF Resolve, Begin, Others, TypeOK
    <2>2. QED
      BY <1>3, <1>6, <2>1
  <1>7. CASE ResolveLog(r)
    <2>1. Others(r)
      BY <1>1, <1>7, GotoEffect DEF ResolveLog, Steps
    <2>2. QED
      BY <1>4, <1>7, <2>1
  <1>8. CASE ResolveWrite(r)
    <2>1. Others(r)
      BY <1>1, <1>8, FinishEffect DEF ResolveWrite
    <2>2. QED
      BY <1>5, <1>8, <2>1
  <1>9. QED
    BY <1>6, <1>7, <1>8 DEF ResolverStep

\* A runner that owes a consumption as long as the file is open, and starts nothing new.
LEMMA RunnerQuiet ==
  ASSUME IInv, IInv', IsFiniteSet(Procs), RInv, NEW x \in Runners, Others(x),
         \A d \in Decisions :
           /\ Open(d)' => Open(d)
           /\ Count(d, "approved") <= Count(d, "approved")'
           /\ proc'[x].pc = "spawn" /\ proc'[x].d = d => proc[x].pc = "spawn" /\ proc[x].d = d
           /\ Open(d)' /\ Owes(proc[x], d) => Owes(proc'[x], d),
         UNCHANGED <<released, spawned, crashes>>
  PROVE  RInv'
  <1>1. x \in Procs /\ TypeOK /\ TypeOK'
    BY DEF Procs, IInv
  <1>2. ASSUME NEW d \in Decisions PROVE Kept(x, d)
    <2> DEFINE b1 == Number(proc'[x].pc = "spawn" /\ proc'[x].d = d)
               b2 == Number(Open(d)' /\ Owes(proc[x], d))
               b3 == Number(proc[x].pc = "spawn" /\ proc[x].d = d)
               b4 == Number(Open(d)' /\ Owes(proc'[x], d))
    <2>1. b1 <= b3 /\ b2 <= b4 /\ b1 \in {0, 1} /\ b2 \in {0, 1} /\ b3 \in {0, 1} /\ b4 \in {0, 1}
      BY DEF Number
    <2> HIDE DEF b1, b2, b3, b4
    <2>2. spawned'[d] + b1 + b2 + crashes <= spawned[d] + b3 + b4 + crashes'
      BY <1>1, <2>1, CountsAreCounts
    <2>3. QED
      BY <1>1, <2>2, RunnerKept DEF b1, b2, b3, b4
  <1>3. crashes <= crashes'
    BY <1>1 DEF TypeOK
  <1>4. QED
    BY <1>1, <1>2, <1>3, RationOfOne

\* A runner gets in while the file is open.
LEMMA RationOfPlan ==
  ASSUME IInv, IInv', IsFiniteSet(Procs), RInv, NEW q \in Runners, NEW d0 \in Decisions,
         DryRun(q, d0) \/ Plan(q, d0)
  PROVE  RInv'
  <1>1. q \in Procs /\ TypeOK /\ TypeOK'
    BY DEF Procs, IInv
  <1>2. UNCHANGED <<file, log, released, spawned, crashes>>
    BY DEF DryRun, Plan
  <1>3. /\ proc[q] = Idle /\ Others(q)
        /\ \/ proc'[q].pc = "report"
           \/ proc'[q].pc = "spawn" /\ proc'[q].d = d0 /\ Open(d0)
    <2>1. \/ \E outcome \in Outcomes : Begin(q, "report", d0, NoCall, file[d0], outcome)
          \/ Begin(q, "spawn", d0, NoCall, file[d0], "none") /\ Replayable(file[d0])
      BY DEF DryRun, Plan, Outcomes
    <2>2. QED
      BY <1>1, <2>1, SMTT(30) DEF Begin, Others, TypeOK, Replayable, Open
  <1>4. \A d \in Decisions : (Open(d)' => Open(d)) /\ Count(d, "approved") <= Count(d, "approved")'
    BY <1>1, <1>2, SameApprovals DEF Open
  <1>5. crashes <= crashes'
    BY <1>1, <1>2 DEF TypeOK
  <1>6. ASSUME NEW d \in Decisions PROVE Kept(q, d)
    <2> DEFINE b1 == Number(proc'[q].pc = "spawn" /\ proc'[q].d = d)
               b2 == Number(Open(d)' /\ Owes(proc[q], d))
               b3 == Number(proc[q].pc = "spawn" /\ proc[q].d = d)
               b4 == Number(Open(d)' /\ Owes(proc'[q], d))
    <2>1. b2 = 0 /\ b3 = 0
      BY <1>3 DEF Number, Idle, Owes
    <2>2. b1 <= b4 /\ b1 \in {0, 1} /\ b4 \in {0, 1}
      <3>1. proc'[q].pc = "spawn" /\ proc'[q].d = d => Open(d)' /\ Owes(proc'[q], d)
        BY <1>2, <1>3 DEF Open, Owes
      <3>2. QED
        BY <3>1 DEF Number
    <2> HIDE DEF b1, b2, b3, b4
    <2>3. spawned'[d] + b1 + b2 + crashes <= spawned[d] + b3 + b4 + crashes'
      BY <1>1, <1>2, <1>5, <2>1, <2>2, CountsAreCounts
    <2>4. QED
      BY <1>1, <1>2, <1>4, <2>3, RunnerKept DEF b1, b2, b3, b4
  <1>7. QED
    BY <1>1, <1>3, <1>5, <1>6, RationOfOne

\* The command is started, or cannot be.
LEMMA RationOfSpawn ==
  ASSUME IInv, IInv', IsFiniteSet(Procs), RInv, NEW q \in Runners, Spawn(q) \/ SpawnError(q)
  PROVE  RInv'
  <1>1. q \in Procs /\ TypeOK /\ TypeOK' /\ HeldFacts(proc[q]) /\ proc[q] \in Process
    BY Facts DEF Procs, IInv
  <1>2. UNCHANGED <<file, log, released, crashes>>
    BY DEF Spawn, SpawnError
  <1>3. PICK d0 \in Decisions : d0 = proc[q].d /\ proc[q].pc = "spawn"
    BY <1>1 DEF HeldFacts, Spawn, SpawnError, At
  <1>4. Others(q)
    BY <1>1 DEF Spawn, SpawnError, Goto, TypeOK, Others
  <1>5. \A d \in Decisions : (Open(d)' => Open(d)) /\ Count(d, "approved") <= Count(d, "approved")'
    BY <1>1, <1>2, SameApprovals DEF Open
  <1>6. crashes <= crashes'
    BY <1>1, <1>2 DEF TypeOK
  <1>7. ASSUME NEW d \in Decisions PROVE Kept(q, d)
    <2> DEFINE b1 == Number(proc'[q].pc = "spawn" /\ proc'[q].d = d)
               b2 == Number(Open(d)' /\ Owes(proc[q], d))
               b3 == Number(proc[q].pc = "spawn" /\ proc[q].d = d)
               b4 == Number(Open(d)' /\ Owes(proc'[q], d))
    <2>1. b3 = Number(d = d0) /\ b1 = 0 /\ b2 <= b3 /\ b2 \in {0, 1} /\ b3 \in {0, 1} /\ b4 \in {0, 1}
      <3>1. proc'[q].pc \in {"running", "report"}
        BY <1>1 DEF Spawn, SpawnError, Goto, TypeOK, Process
      <3>2. QED
        BY <1>3, <3>1 DEF Number, Owes
    <2>2. \/ spawned'[d] = spawned[d] + Number(d = d0) /\ b4 = b2
          \/ spawned'[d] = spawned[d]
      <3>1. CASE Spawn(q)
        <4>1. spawned'[d] = spawned[d] + Number(d = d0)
          BY <1>1, <1>3, <3>1 DEF Spawn, TypeOK, Number
        <4>2. proc'[q].pc = "running" /\ proc'[q].d = proc[q].d
          BY <1>1, <3>1 DEF Spawn, Goto, TypeOK, Process
        <4>3. Owes(proc'[q], d) <=> Owes(proc[q], d)
          BY <1>3, <4>2 DEF Owes
        <4>4. QED
          BY <4>1, <4>3 DEF Number
      <3>2. CASE SpawnError(q)
        BY <3>2 DEF SpawnError
      <3>3. QED
        BY <3>1, <3>2
    <2> HIDE DEF b1, b2, b3, b4
    <2>3. spawned'[d] + b1 + b2 + crashes <= spawned[d] + b3 + b4 + crashes'
      BY <1>1, <1>6, <2>1, <2>2, CountsAreCounts
    <2>4. QED
      BY <1>1, <1>2, <1>5, <2>3, RunnerKept DEF b1, b2, b3, b4
  <1>8. QED
    BY <1>1, <1>4, <1>6, <1>7, RationOfOne

\* From the child's exit on, a runner owes the consumption until the file is closed.
LEMMA RationOfConsumer ==
  ASSUME IInv, IInv', IsFiniteSet(Procs), RInv, NEW q \in Runners,
         \/ \E outcome \in {"executed", "failed"} : Exit(q, outcome)
         \/ ConsumeRead(q) \/ ConsumeWrite(q) \/ ConsumeLog(q) \/ Report(q)
  PROVE  RInv'
  <1>1. q \in Procs /\ TypeOK /\ TypeOK' /\ HeldFacts(proc[q]) /\ proc[q] \in Process /\ q \notin Plugins
    BY Facts, ProcsAssumption DEF Procs, IInv
  <1>2. UNCHANGED <<released, spawned, crashes>>
    BY DEF Exit, ConsumeRead, ConsumeWrite, ConsumeLog, Report
  <1>3. PICK d0 \in Decisions : d0 = proc[q].d
    BY <1>1 DEF HeldFacts, Exit, ConsumeRead, ConsumeWrite, ConsumeLog, Report, At
  <1>4. CASE \E outcome \in {"executed", "failed"} : Exit(q, outcome)
    <2>1. Others(q) /\ proc'[q].pc = "consumeRead" /\ proc'[q].d = proc[q].d /\ UNCHANGED <<file, log>>
      BY <1>1, <1>4 DEF Exit, Others, TypeOK, Process
    <2>2. \A d \in Decisions : (Open(d)' => Open(d)) /\ Count(d, "approved") <= Count(d, "approved")'
      BY <1>1, <2>1, SameApprovals DEF Open
    <2>3. QED
      BY <1>2, <2>1, <2>2, RunnerQuiet DEF Owes
  <1>5. CASE ConsumeRead(q)
    <2>1. UNCHANGED <<file, log>> /\ file[d0] \in Record
      BY <1>1, <1>5 DEF ConsumeRead, TypeOK
    <2>2. \A d \in Decisions : (Open(d)' => Open(d)) /\ Count(d, "approved") <= Count(d, "approved")'
      BY <1>1, <2>1, SameApprovals DEF Open
    <2> DEFINE rec == Consumption(file[d0], TRUE)
    <2>3. Open(d0) => rec # file[d0]
      BY <2>1 DEF Consumption, Mark, Record, Open
    <2>4. \/ ~Open(d0) /\ proc' = [proc EXCEPT ![q] = Idle]
          \/ ~Open(d0) /\ proc' = [proc EXCEPT ![q].pc = "report"]
          \/ proc' = [proc EXCEPT ![q].pc = "consumeWrite", ![q].rec = rec]
      BY <1>3, <1>5, <2>3 DEF ConsumeRead, Finish, Goto, Open, Readable, Unreadable
    <2> HIDE DEF rec
    <2>5. Others(q) /\ proc'[q].pc # "spawn"
      <3>1. CASE proc' = [proc EXCEPT ![q] = Idle]
        BY <1>1, <3>1 DEF Others, TypeOK, Idle
      <3>2. CASE proc' = [proc EXCEPT ![q].pc = "report"]
        BY <1>1, <3>2 DEF Others, TypeOK, Process
      <3>3. CASE proc' = [proc EXCEPT ![q].pc = "consumeWrite", ![q].rec = rec]
        BY <1>1, <3>3 DEF Others, TypeOK, Process
      <3>4. QED
        BY <2>4, <3>1, <3>2, <3>3
    <2>6. ~Open(d0) \/ (proc'[q].pc = "consumeWrite" /\ proc'[q].d = d0)
      BY <1>1, <1>3, <2>4, SMTT(30) DEF TypeOK, Process
    <2>7. QED
      BY <1>2, <1>3, <2>1, <2>2, <2>5, <2>6, RunnerQuiet DEF Owes, Open
  <1>6. CASE ConsumeWrite(q)
    <2>1. proc[q].rec.status # "approved"
      BY <1>1, <1>6 DEF HeldFacts, ConsumeWrite, At
    <2>2. /\ \A d \in Decisions : Open(d)' => Open(d)
          /\ ~Open(d0)'
      BY <1>1, <1>3, <1>6, <2>1, WriteEffect DEF ConsumeWrite, Open
    <2>3. \A d \in Decisions : Count(d, "approved") <= Count(d, "approved")'
      BY <1>1, <1>6, SameApprovals DEF ConsumeWrite
    <2>4. Others(q) /\ proc'[q].pc = "consumeLog"
      BY <1>1, <1>6 DEF ConsumeWrite, Goto, Others, TypeOK, Process
    <2>5. QED
      BY <1>2, <1>3, <2>2, <2>3, <2>4, RunnerQuiet DEF Owes
  <1>7. CASE ConsumeLog(q)
    <2>1. PICK st \in Final : proc[q].rec.status = st /\ proc[q].pc = "consumeLog"
      BY <1>1, <1>7 DEF HeldFacts, ConsumeLog, At, Final
    <2>2. ASSUME NEW d \in Decisions
          PROVE  (Open(d)' => Open(d)) /\ Count(d, "approved") <= Count(d, "approved")'
      BY <1>1, <1>3, <1>7, <2>1, ApprovalsGrow, CountsAreCounts, NumberIsBit DEF ConsumeLog, Open
    <2>3. Others(q) /\ proc'[q].pc = "report"
      BY <1>1, <1>7 DEF ConsumeLog, Goto, Others, TypeOK, Process
    <2>4. QED
      BY <1>2, <2>1, <2>2, <2>3, RunnerQuiet DEF Owes
  <1>8. CASE Report(q)
    <2>1. Others(q) /\ proc'[q] = Idle /\ proc[q].pc = "report" /\ UNCHANGED <<file, log>>
      BY <1>1, <1>8, FinishEffect DEF Report, At
    <2>2. \A d \in Decisions : (Open(d)' => Open(d)) /\ Count(d, "approved") <= Count(d, "approved")'
      BY <1>1, <2>1, SameApprovals DEF Open
    <2>3. QED
      BY <1>2, <2>1, <2>2, RunnerQuiet DEF Owes, Idle
  <1>9. QED
    BY <1>4, <1>5, <1>6, <1>7, <1>8

\* A process that dies has either released nothing yet, or is counted in crashes.
LEMMA RationOfCrash ==
  ASSUME IInv, IInv', IsFiniteSet(Procs), RInv, NEW x \in Procs, Crash(x)
  PROVE  RInv'
  <1>1. TypeOK /\ TypeOK' /\ HeldFacts(proc[x]) /\ proc[x] \in Process
    BY Facts DEF IInv
  <1>2. UNCHANGED <<log, released, spawned>> /\ crashes' = crashes + 1 /\ crashes <= crashes'
    BY <1>1 DEF Crash, TypeOK
  <1>3. proc'[x] = Idle /\ Others(x)
    BY <1>1, FinishEffect DEF Crash
  <1>4. ASSUME NEW d \in Decisions
        PROVE  (Open(d)' => Open(d)) /\ Count(d, "approved") <= Count(d, "approved")'
    <2>1. Count(d, "approved") <= Count(d, "approved")'
      BY <1>1, <1>2, SameApprovals
    <2>2. CASE file' = file
      BY <2>1, <2>2 DEF Open
    <2>3. CASE Writing(x) /\ file' = [file EXCEPT ![proc[x].d].status = "torn"]
      <3>1. proc[x].d \in Decisions
        BY <1>1, <2>3 DEF Writing, HeldFacts
      <3>2. Open(d)' => Open(d)
        BY <1>1, <2>3, <3>1 DEF TypeOK, Record, Open
      <3>3. QED
        BY <2>1, <3>2
    <2>4. QED
      BY <2>2, <2>3 DEF Crash
  <1>5. CASE x \in Plugins
    <2>1. ASSUME NEW d \in Decisions PROVE Kept(x, d)
      <3> DEFINE b1 == Number(proc'[x].outcome = "allow" /\ proc'[x].d = d)
                 b2 == Number(Open(d)' /\ proc[x].outcome = "allow" /\ proc[x].d = d /\ proc[x].pc = "consumeWrite")
                 b3 == Number(proc[x].outcome = "allow" /\ proc[x].d = d)
                 b4 == Number(Open(d)' /\ proc'[x].outcome = "allow" /\ proc'[x].d = d /\ proc'[x].pc = "consumeWrite")
      <3>1. b1 = 0 /\ b4 = 0 /\ b2 <= b3 /\ b2 \in {0, 1} /\ b3 \in {0, 1}
        BY <1>3 DEF Number, Idle
      <3> HIDE DEF b1, b2, b3, b4
      <3>2. released'[d] + b1 + b2 <= released[d] + b3 + b4
        BY <1>1, <1>2, <3>1, CountsAreCounts
      <3>3. QED
        BY <1>1, <1>2, <1>4, <1>5, <3>2, PluginKept DEF b1, b2, b3, b4
    <2>2. QED
      BY <1>2, <1>3, <2>1, RationOfOne
  <1>6. CASE x \in Runners
    <2>1. ASSUME NEW d \in Decisions PROVE Kept(x, d)
      <3> DEFINE b1 == Number(proc'[x].pc = "spawn" /\ proc'[x].d = d)
                 b2 == Number(Open(d)' /\ Owes(proc[x], d))
                 b3 == Number(proc[x].pc = "spawn" /\ proc[x].d = d)
                 b4 == Number(Open(d)' /\ Owes(proc'[x], d))
      <3>1. b1 = 0 /\ b4 = 0 /\ b2 \in {0, 1} /\ b3 \in {0, 1}
        BY <1>3 DEF Number, Idle, Owes
      <3> HIDE DEF b1, b2, b3, b4
      <3>2. spawned'[d] + b1 + b2 + crashes <= spawned[d] + b3 + b4 + crashes'
        BY <1>1, <1>2, <3>1, CountsAreCounts
      <3>3. QED
        BY <1>1, <1>2, <1>4, <1>6, <3>2, RunnerKept DEF b1, b2, b3, b4
    <2>2. QED
      BY <1>2, <1>3, <2>1, RationOfOne
  <1>7. CASE x \in Resolvers
    <2>1. ASSUME NEW d \in Decisions PROVE Kept(x, d) \/ Opened(x, d)
      <3>1. Number(Approves(proc'[x], d)) = 0 /\ Number(Open(d)' /\ ~Open(d)) = 0
        BY <1>3, <1>4 DEF Number, Idle, Approves
      <3>2. Count(d, "approved") + Number(Approves(proc'[x], d)) + Number(Open(d)' /\ ~Open(d)) <=
            Count(d, "approved")' + Number(Approves(proc[x], d))
        BY <1>1, <1>4, <3>1, CountsAreCounts, NumberIsBit
      <3>3. QED
        BY <1>1, <1>2, <1>7, <3>2, ResolverKept
    <2>2. QED
      BY <1>2, <1>3, <2>1, RationOfOne
  <1>8. QED
    BY <1>5, <1>6, <1>7 DEF Procs

LEMMA RationUnchanged ==
  ASSUME RInv, UNCHANGED <<file, log, proc, released, spawned, crashes>>
  PROVE  RInv'
  <1>1. ASSUME NEW d \in Decisions
        PROVE  /\ (Open(d)' <=> Open(d)) /\ Given(d)' = Given(d)
               /\ Replaying(proc', d) = Replaying(proc, d) /\ Entering(proc', d) = Entering(proc, d)
               /\ Starting(proc', d) = Starting(proc, d) /\ Owing(proc', d) = Owing(proc, d)
    BY DEF Open, Given, Count
  <1>2. QED
    BY <1>1 DEF RInv, Rationed

LEMMA RationInductive ==
  ASSUME IInv, IInv', IsFiniteSet(Procs), RInv, [Next]_vars
  PROVE  RInv'
  <1>1. ASSUME NEW p \in Plugins, NEW d \in Decisions, NEW c \in Calls,
               \/ \E action \in {"allow", "ask", "deny"} : Evaluate(p, d, c, action)
               \/ Replay(p, d, c)
        PROVE  RInv'
    BY <1>1, RationOfAsk, RationOfReplay
  <1>2. ASSUME NEW p \in Plugins, PluginStep(p) PROVE RInv'
    BY <1>2, RationOfPluginStep
  <1>3. ASSUME NEW r \in Resolvers,
               \/ \E d \in Decisions, verdict \in Resolved : Resolve(r, d, verdict)
               \/ ResolverStep(r)
        PROVE  RInv'
    BY <1>3, RationOfResolver
  <1>4. ASSUME NEW q \in Runners, NEW d \in Decisions, DryRun(q, d) \/ Plan(q, d) PROVE RInv'
    BY <1>4, RationOfPlan
  <1>5. ASSUME NEW q \in Runners,
               (\E outcome \in {"executed", "failed"} : Exit(q, outcome)) \/ RunnerStep(q)
        PROVE  RInv'
    BY <1>5, RationOfSpawn, RationOfConsumer DEF RunnerStep
  <1>6. ASSUME NEW x \in Procs, Crash(x) PROVE RInv'
    BY <1>6, RationOfCrash
  <1>7. CASE Tick
    BY <1>7, RationUnchanged DEF Tick
  <1>8. CASE UNCHANGED vars
    BY <1>8, RationUnchanged DEF vars
  <1>9. QED
    BY <1>1, <1>2, <1>3, <1>4, <1>5, <1>6, <1>7, <1>8 DEF Next

LEMMA RationInitially ==
  ASSUME Init, IsFiniteSet(Procs)
  PROVE  RInv
  <1> SUFFICES ASSUME NEW d \in Decisions
               PROVE  /\ Rationed(Cardinality(Plugins), Open(d), Given(d),
                           released[d] + Cardinality(Replaying(proc, d)), Cardinality(Entering(proc, d)), 0)
                      /\ Rationed(Cardinality(Runners), Open(d), Given(d),
                           spawned[d] + Cardinality(Starting(proc, d)), Cardinality(Owing(proc, d)), crashes)
    BY DEF RInv
  <1>1. /\ Approving(proc, d) = {} /\ Replaying(proc, d) = {} /\ Entering(proc, d) = {}
        /\ Starting(proc, d) = {} /\ Owing(proc, d) = {}
    BY DEF Init, Procs, Idle, Approving, Approves, Replaying, Entering, Starting, Owing, Owes
  <1>2. Count(d, "approved") = 0
    <2>1. {i \in DOMAIN log[d] : log[d][i] = "approved"} = {}
      BY DEF Init
    <2>2. QED
      BY <2>1, FS_EmptySet DEF Count
  <1>3. ~Open(d) /\ released[d] = 0 /\ spawned[d] = 0 /\ crashes = 0
    BY DEF Init, Open, NoRecord
  <1>4. /\ Cardinality(Plugins) \in Nat /\ Cardinality(Runners) \in Nat
        /\ Cardinality(Approving(proc, d)) = 0 /\ Cardinality(Replaying(proc, d)) = 0
        /\ Cardinality(Starting(proc, d)) = 0
    <2>1. Plugins \in SUBSET Procs /\ Runners \in SUBSET Procs
      BY DEF Procs
    <2>2. QED
      BY <1>1, <2>1, FS_Subset, FS_CardinalityType, FS_EmptySet
  <1>5. QED
    BY <1>2, <1>3, <1>4 DEF Rationed, Given

\* In any deployment, with any interleaving and any crashes: an approval lets each
\* plugin release the call at most once, and each runner start it at most once,
\* plus once for every runner that died before it consumed.
THEOREM EachServedOnce ==
  ASSUME IsFiniteSet(Procs)
  PROVE  Spec => []ServesEachOnce
  <1>1. ASSUME IInv, RInv PROVE ServesEachOnce
    <2> SUFFICES ASSUME NEW d \in Decisions
                 PROVE  /\ released[d] <= Cardinality(Plugins) * Count(d, "approved")
                        /\ spawned[d] <= Cardinality(Runners) * Count(d, "approved") + crashes
      BY DEF ServesEachOnce
    <2> DEFINE np == Cardinality(Plugins)
               nr == Cardinality(Runners)
               lines == Count(d, "approved")
               rp == Cardinality(Replaying(proc, d))
               st == Cardinality(Starting(proc, d))
               en == Cardinality(Entering(proc, d))
               ow == Cardinality(Owing(proc, d))
    <2>1. IsFiniteSet(Plugins) /\ IsFiniteSet(Runners) /\ IsFiniteSet(Resolvers)
      <3>1. Plugins \in SUBSET Procs /\ Runners \in SUBSET Procs /\ Resolvers \in SUBSET Procs
        BY DEF Procs
      <3>2. QED
        BY <3>1, FS_Subset
    <2>2. /\ np \in Nat /\ nr \in Nat /\ rp \in Nat /\ st \in Nat /\ en \in Nat /\ ow \in Nat
          /\ en <= np /\ ow <= nr
      <3>1. /\ Replaying(proc, d) \in SUBSET Plugins /\ Entering(proc, d) \in SUBSET Plugins
            /\ Starting(proc, d) \in SUBSET Runners /\ Owing(proc, d) \in SUBSET Runners
        BY DEF Replaying, Entering, Starting, Owing
      <3>2. QED
        BY <2>1, <3>1, FS_Subset, FS_CardinalityType
    <2>3. lines \in Nat /\ released[d] \in Nat /\ spawned[d] \in Nat /\ crashes \in Nat
      BY <1>1, ApprovedCount DEF IInv, TypeOK
    <2>4. PICK g \in Int : g = Given(d) /\ g <= lines
      <3>1. Approving(proc, d) \in SUBSET Resolvers
        BY DEF Approving
      <3>2. Cardinality(Approving(proc, d)) \in Nat
        BY <2>1, <3>1, FS_Subset, FS_CardinalityType
      <3>3. QED
        BY <2>3, <3>2 DEF Given
    <2>5. Rationed(np, Open(d), g, released[d] + rp, en, 0) /\ Rationed(nr, Open(d), g, spawned[d] + st, ow, crashes)
      BY <1>1, <2>4 DEF RInv
    <2> HIDE DEF np, nr, lines, rp, st, en, ow
    <2>6. /\ np * g \in Int /\ np * lines \in Int /\ np * g <= np * lines
          /\ nr * g \in Int /\ nr * lines \in Int /\ nr * g <= nr * lines
      BY <2>2, <2>3, <2>4, ProductGrows
    <2>7. released[d] <= np * lines /\ spawned[d] <= nr * lines + crashes
      BY <2>2, <2>3, <2>5, <2>6 DEF Rationed
    <2>8. QED
      BY <2>7 DEF np, nr, lines
  <1>2. Init => IInv /\ RInv
    BY Initially, RationInitially
  <1>3. (IInv /\ RInv) /\ [Next]_vars => (IInv /\ RInv)'
    <2>1. ASSUME IInv, RInv, [Next]_vars PROVE IInv' /\ RInv'
      <3>1. IInv'
        BY <2>1, Inductive
      <3>2. QED
        BY <2>1, <3>1, RationInductive
    <2>2. QED
      BY <2>1
  <1>4. QED
    BY <1>1, <1>2, <1>3, PTL DEF Spec

-----------------------------------------------------------------------------
(* The serial deployment: single use, and the abstract specification.      *)

SerialFacts(x) ==
  /\ proc[x].pc \in {"idle", "createPending", "resolveLog", "resolveWrite", "consumeWrite",
                     "consumeLog", "auditReplay", "release"}
  /\ proc[x].pc \in {"resolveLog", "resolveWrite"} =>
       x \in Resolvers /\ file[proc[x].d].status = "pending"
  /\ proc[x].pc \in {"createPending", "consumeWrite", "consumeLog", "auditReplay", "release"} =>
       x \in Plugins
  /\ proc[x].pc = "consumeWrite" =>
       /\ file[proc[x].d].status = "approved"
       /\ proc[x].outcome = "allow" => proc[x].rec.status = "consumed"
       /\ released[proc[x].d] = 0
  /\ proc[x].pc \in {"consumeLog", "auditReplay", "release"} /\ proc[x].outcome = "allow" =>
       file[proc[x].d].status = "consumed" /\ released[proc[x].d] = 0

UsedOnce(d) ==
  /\ spawned[d] = 0 /\ released[d] \in {0, 1}
  /\ released[d] = 1 => file[d].status = "consumed"

SInv ==
  /\ \A x \in Procs : SerialFacts(x)
  /\ \A d \in Decisions : UsedOnce(d)

AbstractStep == [Abstract!Next]_<<[d \in Decisions |-> file[d].status],
                                 [d \in Decisions |-> Uses(d)]>>

\* A step that changes no status and no use is a stutter of the abstract spec.
LEMMA Stutters ==
  ASSUME \A d \in Decisions : file'[d].status = file[d].status,
         released' = released, spawned' = spawned
  PROVE  AbstractStep
  BY DEF AbstractStep, Uses

LEMMA Moves ==
  ASSUME NEW d \in Decisions, NEW from, NEW to,
         file[d].status = from, file'[d].status = to,
         \A e \in Decisions : e # d => file'[e] = file[e],
         released' = released, spawned' = spawned,
         \/ from = "absent" /\ to = "pending"
         \/ from = "pending" /\ to \in Resolved
         \/ from = "approved" /\ to \in {"consumed", "expired"}
         \/ from \in {"absent", "pending", "approved"} /\ to = "torn"
  PROVE  AbstractStep
  <1>1. Abstract!Move(d, from, to)
    BY DEF Abstract!Move, Uses
  <1>2. Abstract!Next
    BY <1>1 DEF Abstract!Next, Resolved
  <1>3. QED
    BY <1>2 DEF AbstractStep

\* The facts survive a step that changes at most the status of decision d and
\* the one process x, if x was the one entitled to change it.
LEMMA SerialOthers ==
  ASSUME Serial, IInv, SInv, NEW x \in Procs, NEW d \in Decisions,
         Others(x), released' = released, spawned' = spawned,
         \A e \in Decisions : e # d => file'[e] = file[e],
         \/ file'[d].status = file[d].status
         \/ x \in Plugins /\ file[d].status \in {"absent", "approved"}
         \/ x \in Resolvers /\ file[d].status = "pending"
  PROVE  /\ \A y \in Procs : y # x => SerialFacts(y)'
         /\ \A e \in Decisions : UsedOnce(e)'
  <1>1. ASSUME NEW y \in Procs, y # x
        PROVE  SerialFacts(y)'
    <2>1. proc'[y] = proc[y] /\ SerialFacts(y) /\ HeldFacts(proc[y])
      BY <1>1 DEF Others, SInv, IInv, HeldFactsStayTrue
    <2>2. CASE proc[y].d # d \/ file'[d].status = file[d].status \/ proc[y].pc = "idle"
      BY <2>1, <2>2 DEF SerialFacts, HeldFacts
    <2>3. CASE x \in Plugins /\ file[d].status \in {"absent", "approved"} /\ proc[y].d = d
      <3>1. y \notin Plugins
        BY <1>1, <2>3 DEF Serial
      <3>2. proc[y].pc \in {"idle", "resolveLog", "resolveWrite"}
        BY <2>1, <3>1 DEF SerialFacts
      <3>3. proc[y].pc = "idle"
        BY <2>1, <2>3, <3>2 DEF SerialFacts
      <3>4. QED
        BY <2>1, <3>3 DEF SerialFacts
    <2>4. CASE x \in Resolvers /\ file[d].status = "pending" /\ proc[y].d = d
      <3>1. y \notin Resolvers
        BY <1>1, <2>4 DEF Serial
      <3>2. proc[y].pc \notin {"resolveLog", "resolveWrite", "createPending", "consumeWrite"}
        BY <2>1, <2>4, <3>1 DEF SerialFacts, HeldFacts
      <3>3. ~(proc[y].pc \in {"consumeLog", "auditReplay", "release"} /\ proc[y].outcome = "allow")
        BY <2>1, <2>4 DEF SerialFacts
      <3>4. QED
        BY <2>1, <3>2, <3>3 DEF SerialFacts
    <2>5. QED
      BY <2>2, <2>3, <2>4
  <1>2. ASSUME NEW e \in Decisions
        PROVE  UsedOnce(e)'
    <2>1. UsedOnce(e)
      BY DEF SInv
    <2>2. CASE e # d \/ file'[d].status = file[d].status
      BY <2>1, <2>2 DEF UsedOnce
    <2>3. CASE e = d /\ file[d].status \in {"absent", "approved", "pending"}
      BY <2>1, <2>3 DEF UsedOnce
    <2>4. QED
      BY <2>2, <2>3
  <1>3. QED
    BY <1>1, <1>2

\* Steps that leave the approval files and the uses alone.
LEMMA SerialLocal ==
  ASSUME Serial, IInv, SInv, NEW x \in Procs, Others(x), SerialFacts(x)',
         UNCHANGED <<file, released, spawned>>
  PROVE  SInv' /\ AbstractStep
  <1>1. AbstractStep
    BY Stutters
  <1>2. \A y \in Procs : y # x => SerialFacts(y)'
    BY DEF SInv, SerialFacts, Others
  <1>3. \A e \in Decisions : UsedOnce(e)'
    BY DEF SInv, UsedOnce
  <1>4. QED
    BY <1>1, <1>2, <1>3 DEF SInv

LEMMA SerialWrite ==
  ASSUME Serial, IInv, SInv, NEW x \in Procs, NEW d \in Decisions, d = proc[x].d,
         Others(x), SerialFacts(x)', UNCHANGED <<released, spawned>>,
         \A e \in Decisions : e # d => file'[e] = file[e],
         \/ /\ proc[x].pc = "createPending" /\ file'[d].status \in {"pending", "torn"}
         \/ /\ proc[x].pc = "resolveWrite" /\ file'[d].status \in Resolved \union {"torn"}
         \/ /\ proc[x].pc = "consumeWrite" /\ file'[d].status \in {"consumed", "expired", "torn"}
  PROVE  SInv' /\ AbstractStep
  <1>1. SerialFacts(x) /\ HeldFacts(proc[x])
    BY DEF SInv, IInv, HeldFactsStayTrue
  <1>2. \/ x \in Plugins /\ file[d].status = "absent" /\ file'[d].status \in {"pending", "torn"}
        \/ x \in Resolvers /\ file[d].status = "pending" /\ file'[d].status \in Resolved \union {"torn"}
        \/ /\ x \in Plugins /\ file[d].status = "approved"
           /\ file'[d].status \in {"consumed", "expired", "torn"}
    BY <1>1 DEF SerialFacts, HeldFacts
  <1>3. AbstractStep
    BY <1>2, Moves
  <1>4. /\ \A y \in Procs : y # x => SerialFacts(y)'
        /\ \A e \in Decisions : UsedOnce(e)'
    BY <1>2, SerialOthers
  <1>5. QED
    BY <1>3, <1>4 DEF SInv

LEMMA IdleFacts == ASSUME NEW x \in Procs, proc'[x] = Idle PROVE SerialFacts(x)'
  BY DEF SerialFacts, Idle

LEMMA SerialAsk ==
  ASSUME Serial, IInv, SInv, NEW p \in Plugins, NEW d \in Decisions, NEW c \in Calls,
         NEW action \in {"allow", "ask", "deny"}, Evaluate(p, d, c, action)
  PROVE  SInv' /\ AbstractStep
  <1> p \in Procs
    BY DEF Procs
  <1>1. UNCHANGED <<file, released, spawned>>
    BY DEF Evaluate
  <1>2. CASE action = "ask"
    <2> DEFINE rec == [status |-> "pending", call |-> c, expires |-> 0]
    <2>1. Begin(p, "createPending", d, c, rec, "none") /\ rec \in Record
      BY <1>2 DEF Evaluate, Record, Status
    <2> HIDE DEF rec
    <2>2. /\ proc'[p] = [pc |-> "createPending", d |-> d, call |-> c, rec |-> rec, outcome |-> "none"]
          /\ Others(p)
      <3>1. TypeOK /\ "createPending" \in Steps /\ "none" \in Outcomes
        BY DEF IInv, Steps, Outcomes
      <3>2. QED
        BY <2>1, <3>1, BeginEffect
    <2>3. proc'[p].pc = "createPending"
      BY <2>2
    <2>4. SerialFacts(p)'
      BY <2>3 DEF SerialFacts
    <2>5. QED
      BY <1>1, <2>2, <2>4, SerialLocal
  <1>3. CASE action # "ask"
    <2>1. proc' = proc
      BY <1>3 DEF Evaluate
    <2>2. Others(p) /\ SerialFacts(p)'
      BY <1>1, <2>1 DEF Others, SInv, SerialFacts
    <2>3. QED
      BY <1>1, <2>2, SerialLocal
  <1>4. QED
    BY <1>2, <1>3

LEMMA SerialReplay ==
  ASSUME Serial, IInv, SInv, NEW p \in Plugins, NEW d \in Decisions, NEW c \in Calls,
         Replay(p, d, c)
  PROVE  SInv' /\ AbstractStep
  <1> p \in Procs
    BY DEF Procs
  <1> DEFINE rec == Consumption(file[d], SameCall(file[d], c))
  <1>1. UNCHANGED <<file, released, spawned>> /\ TypeOK /\ UsedOnce(d)
    BY DEF Replay, IInv, SInv
  <1>2. file[d] \in Record
    BY <1>1 DEF TypeOK
  <1>3. /\ rec \in Record
        /\ rec # file[d] => file[d].status = "approved"
    BY <1>2, ConsumptionIsRecord DEF SameCall
  <1>4. CASE rec = file[d]
    <2>1. Begin(p, "auditReplay", d, c, rec, "deny")
      BY <1>4 DEF Replay
    <2> HIDE DEF rec
    <2>2. /\ proc'[p] = [pc |-> "auditReplay", d |-> d, call |-> c, rec |-> rec, outcome |-> "deny"]
          /\ Others(p)
      <3>1. TypeOK /\ "auditReplay" \in Steps /\ "deny" \in Outcomes
        BY <1>1 DEF Steps, Outcomes
      <3>2. QED
        BY <1>3, <2>1, <3>1, BeginEffect
    <2>3. proc'[p].pc = "auditReplay" /\ proc'[p].outcome = "deny"
      BY <2>2
    <2>4. SerialFacts(p)'
      BY <2>3 DEF SerialFacts
    <2>5. QED
      BY <1>1, <2>2, <2>4, SerialLocal
  <1>5. CASE rec # file[d]
    <2> DEFINE verdict == IF rec.status = "consumed" THEN "allow" ELSE "deny"
    <2>1. Begin(p, "consumeWrite", d, c, rec, verdict) /\ verdict \in Outcomes
      BY <1>5 DEF Replay, Outcomes
    <2>2. verdict = "allow" => rec.status = "consumed"
      OBVIOUS
    <2> HIDE DEF rec, verdict
    <2>a. /\ proc'[p] = [pc |-> "consumeWrite", d |-> d, call |-> c, rec |-> rec, outcome |-> verdict]
          /\ Others(p)
      BY <1>1, <1>3, <2>1, BeginEffect DEF Steps
    <2>3. /\ proc'[p].pc = "consumeWrite" /\ proc'[p].outcome = verdict /\ Others(p)
          /\ proc'[p].d = d /\ proc'[p].rec = rec
      BY <2>a
    <2>4. file[d].status = "approved" /\ released[d] = 0
      BY <1>1, <1>3, <1>5 DEF UsedOnce
    <2>5. SerialFacts(p)'
      BY <1>1, <2>2, <2>3, <2>4 DEF SerialFacts
    <2>6. QED
      BY <1>1, <2>3, <2>5, SerialLocal
  <1>6. QED
    BY <1>4, <1>5

LEMMA SerialPlugin ==
  ASSUME Serial, IInv, SInv, NEW p \in Plugins, PluginStep(p)
  PROVE  SInv' /\ AbstractStep
  <1> p \in Procs
    BY DEF Procs
  <1>a. TypeOK /\ HeldFacts(proc[p]) /\ SerialFacts(p)
    BY DEF IInv, HeldFactsStayTrue, SInv
  <1>1. PICK s \in Process : s = proc[p]
    BY Facts
  <1>2. CASE CreatePending(p)
    <2>1. proc'[p] = Idle /\ Others(p) /\ UNCHANGED <<released, spawned>>
      BY <1>2, <1>a, FinishEffect DEF CreatePending
    <2>2. PICK d \in Decisions : d = proc[p].d
      BY <1>2, <1>a DEF CreatePending, At, HeldFacts
    <2>3. file'[d].status = "pending" /\ \A e \in Decisions : e # d => file'[e] = file[e]
      BY <1>2, <1>a, <2>2, WriteEffect DEF CreatePending, At, HeldFacts
    <2>4. QED
      BY <1>2, <2>1, <2>2, <2>3, IdleFacts, SerialWrite DEF CreatePending, At
  <1>3. CASE ConsumeWrite(p)
    <2>1. PICK d \in Decisions : d = s.d /\ s.pc = "consumeWrite"
      BY <1>1, <1>3, <1>a DEF ConsumeWrite, At, HeldFacts
    <2>2. Others(p) /\ proc'[p] = [s EXCEPT !.pc = "consumeLog"] /\ UNCHANGED <<released, spawned>>
      BY <1>1, <1>3, <1>a, GotoEffect DEF ConsumeWrite, Steps
    <2>3. proc'[p].pc = "consumeLog" /\ proc'[p].d = d /\ proc'[p].outcome = s.outcome
      BY <2>1, <2>2 DEF Process
    <2>4. file'[d] = s.rec /\ \A e \in Decisions : e # d => file'[e] = file[e]
      BY <1>1, <1>3, <1>a, <2>1, WriteEffect DEF ConsumeWrite
    <2>5. s.rec.status \in {"consumed", "expired"} /\ released[d] = 0
          /\ (s.outcome = "allow" => s.rec.status = "consumed")
      BY <1>1, <1>a, <2>1 DEF HeldFacts, SerialFacts
    <2>6. SerialFacts(p)'
      BY <2>2, <2>3, <2>4, <2>5 DEF SerialFacts
    <2>7. QED
      BY <1>1, <2>1, <2>2, <2>4, <2>5, <2>6, SerialWrite
  <1>4. CASE ConsumeLog(p)
    <2>1. UNCHANGED <<file, released, spawned>>
      BY <1>4 DEF ConsumeLog
    <2>2. Others(p) /\ proc'[p] = [s EXCEPT !.pc = "auditReplay"] /\ s.pc = "consumeLog"
      BY <1>1, <1>4, <1>a, GotoEffect DEF ConsumeLog, Steps, At
    <2>3. proc'[p].pc = "auditReplay" /\ proc'[p].d = s.d /\ proc'[p].outcome = s.outcome
      BY <2>2 DEF Process
    <2>4. SerialFacts(p)'
      BY <1>1, <1>a, <2>1, <2>2, <2>3 DEF SerialFacts
    <2>5. QED
      BY <2>1, <2>2, <2>4, SerialLocal
  <1>5. CASE AuditReplay(p)
    <2>1. UNCHANGED <<file, released, spawned>>
      BY <1>5 DEF AuditReplay
    <2>2. CASE s.outcome = "allow"
      <3>1. Others(p) /\ proc'[p] = [s EXCEPT !.pc = "release"] /\ s.pc = "auditReplay"
        BY <1>1, <1>5, <1>a, <2>2, GotoEffect DEF AuditReplay, Steps, At
      <3>2. proc'[p].pc = "release" /\ proc'[p].d = s.d /\ proc'[p].outcome = s.outcome
        BY <3>1 DEF Process
      <3>3. SerialFacts(p)'
        BY <1>1, <1>a, <2>1, <3>1, <3>2 DEF SerialFacts
      <3>4. QED
        BY <2>1, <3>1, <3>3, SerialLocal
    <2>3. CASE s.outcome # "allow"
      <3>1. Others(p) /\ proc'[p] = Idle
        BY <1>1, <1>5, <1>a, <2>3, FinishEffect DEF AuditReplay
      <3>2. QED
        BY <2>1, <3>1, IdleFacts, SerialLocal
    <2>4. QED
      BY <2>2, <2>3
  <1>6. CASE Release(p)
    <2>1. PICK d \in Decisions : d = s.d /\ s.pc = "release" /\ s.outcome = "allow"
      BY <1>1, <1>6, <1>a DEF Release, At, HeldFacts
    <2>2. Others(p) /\ proc'[p] = Idle
      BY <1>6, <1>a, FinishEffect DEF Release
    <2>a. file[d].status = "consumed" /\ released[d] = 0
      BY <1>1, <1>a, <2>1 DEF SerialFacts
    <2>b. file' = file /\ spawned' = spawned /\ released' = [released EXCEPT ![d] = released[d] + 1]
      BY <1>1, <1>6, <2>1 DEF Release
    <2>c. released \in [Decisions -> Nat] /\ spawned[d] = 0
      BY <1>a DEF TypeOK, SInv, UsedOnce
    <2>3. /\ file[d].status = "consumed" /\ released[d] = 0 /\ spawned[d] = 0
          /\ file' = file /\ spawned' = spawned
          /\ released' = [released EXCEPT ![d] = 1]
          /\ released \in [Decisions -> Nat]
      BY <2>a, <2>b, <2>c
    <2>4. Abstract!Use(d)
      <3>1. Uses(d) = 0 /\ Uses(d)' = 1 /\ \A e \in Decisions : e # d => Uses(e)' = Uses(e)
        BY <2>3 DEF Uses
      <3> HIDE DEF Uses
      <3>2. QED
        BY <2>3, <3>1 DEF Abstract!Use
    <2>5. AbstractStep
      BY <2>4 DEF AbstractStep, Abstract!Next
    <2>6. \A e \in Decisions : UsedOnce(e)'
      BY <2>3 DEF SInv, UsedOnce
    <2>7. ASSUME NEW y \in Procs, y # p
          PROVE  SerialFacts(y)'
      <3>1. proc'[y] = proc[y] /\ y \notin Plugins /\ SerialFacts(y)
        BY <2>2, <2>7 DEF Others, Serial, SInv
      <3>2. proc[y].pc \in {"idle", "resolveLog", "resolveWrite"}
        BY <3>1 DEF SerialFacts
      <3>3. QED
        BY <2>3, <3>1, <3>2 DEF SerialFacts
    <2>8. QED
      BY <2>2, <2>5, <2>6, <2>7, IdleFacts DEF SInv
  <1>7. QED
    BY <1>2, <1>3, <1>4, <1>5, <1>6 DEF PluginStep

LEMMA SerialResolver ==
  ASSUME Serial, IInv, SInv, NEW r \in Resolvers,
         \/ \E d \in Decisions, verdict \in Resolved : Resolve(r, d, verdict)
         \/ ResolverStep(r)
  PROVE  SInv' /\ AbstractStep
  <1> r \in Procs
    BY DEF Procs
  <1>a. TypeOK /\ HeldFacts(proc[r]) /\ SerialFacts(r)
    BY DEF IInv, HeldFactsStayTrue, SInv
  <1>1. PICK s \in Process : s = proc[r]
    BY Facts
  <1>2. ASSUME NEW d \in Decisions, NEW verdict \in Resolved, Resolve(r, d, verdict)
        PROVE  SInv' /\ AbstractStep
    <2> DEFINE rec == [Mark(file[d], verdict) EXCEPT
                         !.expires = IF verdict = "approved" THEN now + TTL ELSE 0]
    <2>1. UNCHANGED <<file, released, spawned>> /\ file[d].status = "pending"
      BY <1>2 DEF Resolve
    <2>2. file[d] \in Record /\ now + TTL \in Nat
      BY <1>a, BoundsAssumption DEF TypeOK
    <2>3. rec \in Record
      BY <2>2 DEF Mark, Record, Status, Resolved
    <2>4. Begin(r, "resolveLog", d, NoCall, rec, "none")
      BY <1>2 DEF Resolve
    <2> HIDE DEF rec
    <2>5. "resolveLog" \in Steps /\ "none" \in Outcomes
      BY DEF Steps, Outcomes
    <2>6. /\ proc'[r] = [pc |-> "resolveLog", d |-> d, call |-> NoCall, rec |-> rec,
                         outcome |-> "none"]
          /\ Others(r)
      BY <1>a, <2>3, <2>4, <2>5, BeginEffect
    <2>7. proc'[r].pc = "resolveLog" /\ proc'[r].d = d
      BY <2>6
    <2>8. SerialFacts(r)'
      BY <2>1, <2>7 DEF SerialFacts
    <2>9. QED
      BY <2>1, <2>6, <2>8, SerialLocal
  <1>3. CASE ResolveLog(r)
    <2>1. UNCHANGED <<file, released, spawned>>
      BY <1>3 DEF ResolveLog
    <2>2. Others(r) /\ proc'[r] = [s EXCEPT !.pc = "resolveWrite"] /\ s.pc = "resolveLog"
      BY <1>1, <1>3, <1>a, GotoEffect DEF ResolveLog, Steps, At
    <2>3. proc'[r].pc = "resolveWrite" /\ proc'[r].d = s.d
      BY <2>2 DEF Process
    <2>4. SerialFacts(r)'
      BY <1>1, <1>a, <2>1, <2>2, <2>3 DEF SerialFacts
    <2>5. QED
      BY <2>1, <2>2, <2>4, SerialLocal
  <1>4. CASE ResolveWrite(r)
    <2>1. proc'[r] = Idle /\ Others(r) /\ UNCHANGED <<released, spawned>>
      BY <1>4, <1>a, FinishEffect DEF ResolveWrite
    <2>2. PICK d \in Decisions : d = proc[r].d
      BY <1>4, <1>a DEF ResolveWrite, At, HeldFacts
    <2>3. file'[d] = s.rec /\ \A e \in Decisions : e # d => file'[e] = file[e]
      BY <1>1, <1>4, <1>a, <2>2, WriteEffect DEF ResolveWrite
    <2>4. s.pc = "resolveWrite" /\ s.rec.status \in Resolved
      BY <1>1, <1>4, <1>a DEF ResolveWrite, At, HeldFacts
    <2>5. QED
      BY <1>1, <2>1, <2>2, <2>3, <2>4, IdleFacts, SerialWrite
  <1>5. QED
    BY <1>2, <1>3, <1>4 DEF ResolverStep

LEMMA SerialCrash ==
  ASSUME Serial, IInv, SInv, NEW x \in Procs, Crash(x)
  PROVE  SInv' /\ AbstractStep
  <1>a. TypeOK /\ HeldFacts(proc[x])
    BY DEF IInv, HeldFactsStayTrue
  <1>1. proc'[x] = Idle /\ Others(x) /\ SerialFacts(x)' /\ UNCHANGED <<released, spawned>>
    BY <1>a, FinishEffect, IdleFacts DEF Crash
  <1>2. CASE file' = file
    BY <1>1, <1>2, SerialLocal
  <1>3. CASE Writing(x) /\ file' = [file EXCEPT ![proc[x].d].status = "torn"]
    <2>1. PICK d \in Decisions : d = proc[x].d
      BY <1>3, <1>a DEF Writing, HeldFacts
    <2>2. /\ file'[d] = [file[d] EXCEPT !.status = "torn"] /\ file[d] \in Record
          /\ \A e \in Decisions : e # d => file'[e] = file[e]
      BY <1>3, <1>a, <2>1 DEF TypeOK
    <2>3. file'[d].status = "torn"
      BY <2>2 DEF Record
    <2>4. proc[x].pc \in {"createPending", "resolveWrite", "consumeWrite"}
      BY <1>3 DEF Writing
    <2>5. QED
      BY <1>1, <2>1, <2>2, <2>3, <2>4, SerialWrite
  <1>4. QED
    BY <1>2, <1>3 DEF Crash

LEMMA SerialStep ==
  ASSUME Serial, IInv, SInv, [Next]_vars
  PROVE  SInv' /\ AbstractStep
  <1>1. CASE UNCHANGED vars
    <2>1. SInv'
      BY <1>1 DEF vars, SInv, SerialFacts, UsedOnce
    <2>2. QED
      BY <1>1, <2>1, Stutters DEF vars
  <1>2. CASE Tick
    <2>1. SInv'
      BY <1>2 DEF Tick, SInv, SerialFacts, UsedOnce
    <2>2. QED
      BY <1>2, <2>1, Stutters DEF Tick
  <1>3. ASSUME NEW p \in Plugins,
               \/ \E d \in Decisions, c \in Calls :
                    \/ \E action \in {"allow", "ask", "deny"} : Evaluate(p, d, c, action)
                    \/ Replay(p, d, c)
               \/ PluginStep(p)
        PROVE  SInv' /\ AbstractStep
    BY <1>3, SerialAsk, SerialReplay, SerialPlugin
  <1>4. ASSUME NEW x \in Procs, Crash(x)
        PROVE  SInv' /\ AbstractStep
    BY <1>4, SerialCrash
  <1>5. Runners = {}
    BY DEF Serial
  <1>6. QED
    BY <1>1, <1>2, <1>3, <1>4, <1>5, SerialResolver DEF Next

LEMMA SerialInit == Init => SInv /\ Abstract!Init
  BY DEF Init, SInv, SerialFacts, UsedOnce, Idle, NoRecord, Abstract!Init, Uses

\* With one plugin, one resolver and no runner, no approval is ever used twice,
\* for any decisions, calls and expiry, and through any crashes.
THEOREM SerialSingleUse == ASSUME Serial PROVE Spec => []SingleUse
  <1>1. Init => IInv /\ SInv
    BY Initially, SerialInit
  <1>2. IInv /\ SInv /\ [Next]_vars => IInv' /\ SInv'
    BY Inductive, SerialStep
  <1>3. IInv /\ SInv => SingleUse
    <2> SUFFICES ASSUME SInv, NEW d \in Decisions PROVE Uses(d) <= 1
      BY DEF SingleUse
    <2>1. spawned[d] = 0 /\ (released[d] = 0 \/ released[d] = 1)
      BY DEF SInv, UsedOnce
    <2>2. QED
      BY <2>1 DEF Uses
  <1>4. QED
    BY <1>1, <1>2, <1>3, PTL DEF Spec

\* The same deployment implements the abstract single-use approval.
THEOREM SerialRefinement == ASSUME Serial PROVE Spec => ImplementsSingleUse
  <1>1. Init => IInv /\ SInv /\ Abstract!Init
    BY Initially, SerialInit
  <1>2. IInv /\ SInv /\ [Next]_vars => IInv' /\ SInv' /\ AbstractStep
    BY Inductive, SerialStep
  <1>3. QED
    BY <1>1, <1>2, PTL DEF Spec, ImplementsSingleUse, Abstract!Spec, AbstractStep

\* A process writes the file only while no final status is in it.
LEMMA WritersAreEntitled ==
  ASSUME IInv, SInv, NEW x \in Procs, Writing(x)
  PROVE  proc[x].d \in Decisions /\ file[proc[x].d].status \notin Final
  <1>1. HeldFacts(proc[x]) /\ SerialFacts(x)
    BY DEF IInv, HeldFactsStayTrue, SInv
  <1>2. proc[x].d \in Decisions
    BY <1>1 DEF HeldFacts, Writing
  <1>3. file[proc[x].d].status \in {"absent", "pending", "approved"}
    BY <1>1 DEF HeldFacts, SerialFacts, Writing
  <1>4. QED
    BY <1>2, <1>3 DEF Final

\* The only steps that touch the approval files.
LEMMA WritesComeFromWriters ==
  ASSUME [Next]_vars
  PROVE  \/ file' = file
         \/ \E x \in Procs : Writing(x) /\ WriteFile(x)
         \/ \E x \in Procs : Writing(x) /\ file' = [file EXCEPT ![proc[x].d].status = "torn"]
  <1> DEFINE Goal == \/ file' = file
                     \/ \E x \in Procs : Writing(x) /\ WriteFile(x)
                     \/ \E x \in Procs : /\ Writing(x)
                                         /\ file' = [file EXCEPT ![proc[x].d].status = "torn"]
  <1>1. ASSUME NEW p \in Plugins, PluginStep(p) PROVE Goal
    <2>1. p \in Procs
      BY DEF Procs
    <2>2. CASE CreatePending(p) \/ ConsumeWrite(p)
      BY <2>1, <2>2 DEF CreatePending, ConsumeWrite, Writing, At
    <2>3. CASE ConsumeLog(p) \/ AuditReplay(p) \/ Release(p)
      BY <2>3 DEF ConsumeLog, AuditReplay, Release
    <2>4. QED
      BY <1>1, <2>2, <2>3 DEF PluginStep
  <1>2. ASSUME NEW r \in Resolvers, ResolverStep(r) PROVE Goal
    <2>1. r \in Procs
      BY DEF Procs
    <2>2. CASE ResolveWrite(r)
      BY <2>1, <2>2 DEF ResolveWrite, Writing, At
    <2>3. CASE ResolveLog(r)
      BY <2>3 DEF ResolveLog
    <2>4. QED
      BY <1>2, <2>2, <2>3 DEF ResolverStep
  <1>3. ASSUME NEW q \in Runners, RunnerStep(q) PROVE Goal
    <2>1. q \in Procs
      BY DEF Procs
    <2>2. CASE ConsumeWrite(q)
      BY <2>1, <2>2 DEF ConsumeWrite, Writing, At
    <2>3. CASE ~ConsumeWrite(q)
      BY <1>3, <2>3 DEF RunnerStep, Spawn, SpawnError, ConsumeRead, ConsumeLog, Report
    <2>4. QED
      BY <2>2, <2>3
  <1>4. ASSUME NEW x \in Procs, Crash(x) PROVE Goal
    BY <1>4 DEF Crash
  <1>5. ASSUME \/ \E p \in Plugins, d \in Decisions, c \in Calls :
                    \/ \E action \in {"allow", "ask", "deny"} : Evaluate(p, d, c, action)
                    \/ Replay(p, d, c)
               \/ \E r \in Resolvers, d \in Decisions, verdict \in Resolved : Resolve(r, d, verdict)
               \/ \E q \in Runners, d \in Decisions : DryRun(q, d) \/ Plan(q, d)
               \/ \E q \in Runners, outcome \in {"executed", "failed"} : Exit(q, outcome)
               \/ Tick
               \/ UNCHANGED vars
        PROVE  Goal
    BY <1>5, ZenonT(40) DEF Evaluate, Replay, Resolve, DryRun, Plan, Exit, Tick, vars
  <1> HIDE DEF Goal
  <1>6. Goal
    BY <1>1, <1>2, <1>3, <1>4, <1>5, ZenonT(60) DEF Next
  <1>7. QED
    BY <1>6 DEF Goal

\* With one plugin, one resolver and no runner, a decision that was rejected,
\* consumed or expired keeps its record, even through crashes inside a write.
THEOREM SerialFinal == ASSUME Serial PROVE Spec => FinalStays
  <1>1. ASSUME IInv, SInv, [Next]_vars, NEW d \in Decisions, file[d].status \in Final
        PROVE  file'[d] = file[d]
    <2>1. file \in [Decisions -> Record]
      BY <1>1 DEF IInv, TypeOK
    <2>2. CASE file' = file
      BY <2>2
    <2>3. ASSUME NEW x \in Procs, Writing(x),
                 \/ WriteFile(x)
                 \/ file' = [file EXCEPT ![proc[x].d].status = "torn"]
          PROVE  file'[d] = file[d]
      <3>1. proc[x].d \in Decisions /\ proc[x].d # d
        BY <1>1, <2>3, WritersAreEntitled
      <3>2. QED
        BY <2>1, <2>3, <3>1 DEF WriteFile
    <2>4. QED
      BY <1>1, <2>2, <2>3, WritesComeFromWriters
  <1>2. IInv /\ SInv /\ [Next]_vars =>
          (\A d \in Decisions : file[d].status \in Final => file'[d] = file[d])
    BY <1>1
  <1>3. Init => IInv /\ SInv
    BY Initially, SerialInit
  <1>4. IInv /\ SInv /\ [Next]_vars => IInv' /\ SInv'
    BY Inductive, SerialStep
  <1>5. QED
    BY <1>2, <1>3, <1>4, PTL DEF Spec, FinalStays

-----------------------------------------------------------------------------
(* The last line of approvals.jsonl and the approval file, in a serial     *)
(* deployment and without a crash: between a resolver's two writes the log *)
(* is ahead of the file, between a consumer's two writes it is behind.     *)

Settling(x, d) == proc[x].pc \in {"resolveWrite", "consumeLog"} /\ proc[x].d = d

EndsWith(lines, status) == lines # << >> /\ lines[Len(lines)] = status
Agree(status, lines) ==
  IF lines = << >> THEN status \in {"absent", "pending"} ELSE status = lines[Len(lines)]

HalfDone(x) ==
  /\ proc[x].pc = "resolveWrite" => EndsWith(log[proc[x].d], proc[x].rec.status)
  /\ proc[x].pc = "consumeLog" => file[proc[x].d].status = proc[x].rec.status

LInv ==
  /\ \A x \in Procs : HalfDone(x)
  /\ \A d \in Decisions :
       (\A x \in Procs : ~Settling(x, d)) => Agree(file[d].status, log[d])

\* A step that touches neither the files nor the log and begins no settling.
LEMMA LogUntouched ==
  ASSUME LInv, NEW x \in Procs, Others(x), UNCHANGED <<file, log>>,
         ~(proc[x].pc \in {"resolveWrite", "consumeLog"}),
         ~(proc'[x].pc \in {"resolveWrite", "consumeLog"})
  PROVE  LInv'
  <1>1. ASSUME NEW y \in Procs
        PROVE  HalfDone(y)'
    <2>1. CASE y = x
      BY <2>1 DEF HalfDone
    <2>2. CASE y # x
      BY <2>2 DEF HalfDone, Others, LInv
    <2>3. QED
      BY <2>1, <2>2
  <1>2. ASSUME NEW d \in Decisions, \A y \in Procs : ~Settling(y, d)'
        PROVE  Agree(file'[d].status, log'[d])
    <2>1. ASSUME NEW y \in Procs PROVE ~Settling(y, d)
      BY <1>2 DEF Settling, Others
    <2>2. QED
      BY <2>1 DEF LInv
  <1>3. QED
    BY <1>1, <1>2 DEF LInv

\* A step of x that writes the file or the log of decision d only, while no other
\* process is settling d, and that leaves d agreeing unless x is settling it.
LEMMA LogTouched ==
  ASSUME LInv, IInv, NEW x \in Procs, NEW d \in Decisions, Others(x), proc[x].d = d,
         \A e \in Decisions : e # d => file'[e] = file[e] /\ log'[e] = log[e],
         \A y \in Procs : y # x => ~Settling(y, d),
         HalfDone(x)', Settling(x, d)' \/ Agree(file'[d].status, log'[d])
  PROVE  LInv'
  <1>1. ASSUME NEW y \in Procs
        PROVE  HalfDone(y)'
    <2>1. CASE y = x
      BY <2>1
    <2>2. CASE y # x
      <3>1. proc'[y] = proc[y] /\ HalfDone(y) /\ ~Settling(y, d) /\ HeldFacts(proc[y])
        BY <2>2 DEF Others, LInv, IInv, HeldFactsStayTrue
      <3>2. CASE proc[y].pc \in {"resolveWrite", "consumeLog"}
        <4>1. proc[y].d \in Decisions /\ proc[y].d # d
          BY <3>1, <3>2 DEF HeldFacts, Settling
        <4>2. QED
          BY <3>1, <4>1 DEF HalfDone
      <3>3. CASE ~(proc[y].pc \in {"resolveWrite", "consumeLog"})
        BY <3>1, <3>3 DEF HalfDone
      <3>4. QED
        BY <3>2, <3>3
    <2>3. QED
      BY <2>1, <2>2
  <1>2. ASSUME NEW e \in Decisions, \A y \in Procs : ~Settling(y, e)'
        PROVE  Agree(file'[e].status, log'[e])
    <2>1. CASE e = d
      BY <1>2, <2>1
    <2>2. CASE e # d
      <3>1. ASSUME NEW y \in Procs PROVE ~Settling(y, e)
        <4>1. CASE y = x
          BY <2>2, <4>1 DEF Settling
        <4>2. CASE y # x
          BY <1>2, <4>2 DEF Settling, Others
        <4>3. QED
          BY <4>1, <4>2
      <3>2. QED
        BY <2>2, <3>1 DEF LInv
    <2>3. QED
      BY <2>1, <2>2
  <1>3. QED
    BY <1>1, <1>2 DEF LInv

\* In a serial deployment whoever writes or logs about a decision is alone with it.
LEMMA NobodyElseSettles ==
  ASSUME Serial, IInv, SInv, LInv, NEW x \in Procs, NEW d \in Decisions, proc[x].d = d,
         proc[x].pc \in {"createPending", "resolveLog", "resolveWrite", "consumeWrite", "consumeLog"}
  PROVE  \A y \in Procs : y # x => ~Settling(y, d)
  <1> SUFFICES ASSUME NEW y \in Procs, y # x, Settling(y, d)
               PROVE  FALSE
    OBVIOUS
  <1>1. /\ HeldFacts(proc[x]) /\ SerialFacts(x) /\ HalfDone(x)
        /\ HeldFacts(proc[y]) /\ SerialFacts(y) /\ HalfDone(y)
    BY DEF IInv, HeldFactsStayTrue, SInv, LInv
  <1>2. CASE proc[y].pc = "resolveWrite"
    <2>1. y \in Resolvers /\ file[d].status = "pending"
      BY <1>1, <1>2 DEF SerialFacts, Settling
    <2>2. x \notin Resolvers
      BY <2>1 DEF Serial
    <2>3. proc[x].pc \in {"createPending", "consumeWrite", "consumeLog"}
      BY <1>1, <2>2 DEF SerialFacts
    <2>4. QED
      BY <1>1, <2>1, <2>3 DEF SerialFacts, HeldFacts, HalfDone
  <1>3. CASE proc[y].pc = "consumeLog"
    <2>1. y \in Plugins /\ file[d].status \in {"consumed", "expired"}
      BY <1>1, <1>3 DEF SerialFacts, Settling, HalfDone, HeldFacts
    <2>2. x \notin Plugins
      BY <2>1 DEF Serial
    <2>3. proc[x].pc \in {"resolveLog", "resolveWrite"}
      BY <1>1, <2>2 DEF SerialFacts
    <2>4. QED
      BY <1>1, <2>1, <2>3 DEF SerialFacts
  <1>4. QED
    BY <1>2, <1>3 DEF Settling

\* The line appended is the last one.
LEMMA LastAppended ==
  ASSUME TypeOK, NEW x \in Procs, NEW d \in Decisions, proc[x].d = d,
         NEW st \in Resolved \union Final, proc[x].rec.status = st, AppendLog(x)
  PROVE  /\ EndsWith(log'[d], st)
         /\ \A e \in Decisions : e # d => log'[e] = log[e]
  <1>1. /\ log' = [log EXCEPT ![d] = Append(log[d], st)]
        /\ log \in [Decisions -> Seq(Resolved \union Final)]
    BY DEF AppendLog, TypeOK
  <1>2. log[d] \in Seq(Resolved \union Final) /\ log'[d] = Append(log[d], st)
    BY <1>1
  <1>3. Append(log[d], st) # << >> /\ Append(log[d], st)[Len(Append(log[d], st))] = st
    BY <1>2
  <1>4. QED
    BY <1>1, <1>2, <1>3 DEF EndsWith

LEMMA LogOfPlugin ==
  ASSUME Serial, IInv, SInv, LInv, NEW p \in Plugins, PluginStep(p)
  PROVE  LInv'
  <1> p \in Procs
    BY DEF Procs
  <1>a. TypeOK /\ HeldFacts(proc[p]) /\ SerialFacts(p) /\ HalfDone(p)
    BY DEF IInv, HeldFactsStayTrue, SInv, LInv
  <1>1. PICK s \in Process : s = proc[p]
    BY Facts
  <1>2. CASE CreatePending(p)
    <2>1. PICK d \in Decisions : d = s.d
      BY <1>1, <1>2, <1>a DEF CreatePending, At, HeldFacts
    <2>2. file[d].status = "absent" /\ s.rec.status = "pending" /\ s.pc = "createPending"
      BY <1>1, <1>2, <1>a, <2>1 DEF CreatePending, At, HeldFacts
    <2>3. \A y \in Procs : y # p => ~Settling(y, d)
      BY <1>1, <2>1, <2>2, NobodyElseSettles
    <2>4. ~Settling(p, d)
      BY <1>1, <2>2 DEF Settling
    <2>5. Agree("absent", log[d])
      BY <2>2, <2>3, <2>4 DEF LInv
    <2>6. log[d] = << >>
      <3>1. log[d] \in Seq(Resolved \union Final)
        BY <1>a DEF TypeOK
      <3>2. CASE log[d] # << >>
        <4>1. log[d][Len(log[d])] \in Resolved \union Final
          BY <3>1, <3>2
        <4>2. QED
          BY <2>5, <3>2, <4>1 DEF Agree, Resolved, Final
      <3>3. QED
        BY <3>2
    <2>7. /\ file'[d] = s.rec /\ \A e \in Decisions : e # d => file'[e] = file[e]
          /\ log' = log
      BY <1>1, <1>2, <1>a, <2>1, WriteEffect DEF CreatePending
    <2>8. Others(p) /\ proc'[p] = Idle
      BY <1>2, <1>a, FinishEffect DEF CreatePending
    <2>9. Agree(file'[d].status, log'[d]) /\ HalfDone(p)'
      BY <2>2, <2>6, <2>7, <2>8 DEF Agree, HalfDone, Idle
    <2>10. QED
      BY <1>1, <2>1, <2>3, <2>7, <2>8, <2>9, LogTouched
  <1>3. CASE ConsumeWrite(p)
    <2>1. PICK d \in Decisions : d = s.d /\ s.pc = "consumeWrite"
      BY <1>1, <1>3, <1>a DEF ConsumeWrite, At, HeldFacts
    <2>2. \A y \in Procs : y # p => ~Settling(y, d)
      BY <1>1, <2>1, NobodyElseSettles
    <2>3. /\ file'[d] = s.rec /\ \A e \in Decisions : e # d => file'[e] = file[e]
          /\ log' = log
      BY <1>1, <1>3, <1>a, <2>1, WriteEffect DEF ConsumeWrite
    <2>4. Others(p) /\ proc'[p] = [s EXCEPT !.pc = "consumeLog"]
      BY <1>1, <1>3, <1>a, GotoEffect DEF ConsumeWrite, Steps
    <2>5. proc'[p].pc = "consumeLog" /\ proc'[p].d = d /\ proc'[p].rec = s.rec
      BY <2>1, <2>4 DEF Process
    <2>6. HalfDone(p)' /\ Settling(p, d)'
      BY <2>3, <2>5 DEF HalfDone, Settling
    <2>7. QED
      BY <1>1, <2>1, <2>2, <2>3, <2>4, <2>6, LogTouched
  <1>4. CASE ConsumeLog(p)
    <2>1. PICK d \in Decisions, st \in Resolved \union Final :
               d = s.d /\ st = s.rec.status /\ s.pc = "consumeLog" /\ file[d].status = st
      BY <1>1, <1>4, <1>a DEF ConsumeLog, At, HeldFacts, HalfDone, Final
    <2>2. \A y \in Procs : y # p => ~Settling(y, d)
      BY <1>1, <2>1, NobodyElseSettles
    <2>3. /\ EndsWith(log'[d], st) /\ \A e \in Decisions : e # d => log'[e] = log[e]
          /\ file' = file
      BY <1>1, <1>4, <1>a, <2>1, LastAppended DEF ConsumeLog
    <2>4. Others(p) /\ proc'[p] = [s EXCEPT !.pc = "auditReplay"]
      BY <1>1, <1>4, <1>a, GotoEffect DEF ConsumeLog, Steps
    <2>5. proc'[p].pc = "auditReplay"
      BY <2>4 DEF Process
    <2>6. HalfDone(p)' /\ Agree(file'[d].status, log'[d])
      BY <2>1, <2>3, <2>5 DEF HalfDone, Agree, EndsWith
    <2>7. QED
      BY <1>1, <2>1, <2>2, <2>3, <2>4, <2>6, LogTouched
  <1>5. CASE AuditReplay(p)
    <2>1. UNCHANGED <<file, log>> /\ proc[p].pc = "auditReplay"
      BY <1>5 DEF AuditReplay, At
    <2>2. Others(p) /\ proc'[p].pc \in {"release", "idle"}
      <3>1. CASE Goto(p, "release")
        <4>1. Others(p) /\ proc'[p] = [s EXCEPT !.pc = "release"]
          BY <1>1, <1>a, <3>1, GotoEffect DEF Steps
        <4>2. QED
          BY <4>1 DEF Process
      <3>2. CASE Finish(p)
        BY <1>a, <3>2, FinishEffect DEF Idle
      <3>3. QED
        BY <1>5, <3>1, <3>2 DEF AuditReplay
    <2>3. QED
      BY <2>1, <2>2, LogUntouched
  <1>6. CASE Release(p)
    <2>1. UNCHANGED <<file, log>> /\ proc[p].pc = "release"
      BY <1>6 DEF Release, At
    <2>2. Others(p) /\ proc'[p].pc = "idle"
      BY <1>6, <1>a, FinishEffect DEF Release, Idle
    <2>3. QED
      BY <2>1, <2>2, LogUntouched
  <1>7. QED
    BY <1>2, <1>3, <1>4, <1>5, <1>6 DEF PluginStep

LEMMA LogOfResolver ==
  ASSUME Serial, IInv, SInv, LInv, NEW r \in Resolvers, ResolverStep(r)
  PROVE  LInv'
  <1> r \in Procs
    BY DEF Procs
  <1>a. TypeOK /\ HeldFacts(proc[r]) /\ HalfDone(r)
    BY DEF IInv, HeldFactsStayTrue, LInv
  <1>1. PICK s \in Process : s = proc[r]
    BY Facts
  <1>2. s.pc \in {"resolveLog", "resolveWrite"}
    BY <1>1 DEF ResolverStep, ResolveLog, ResolveWrite, At
  <1>3. PICK d \in Decisions, st \in Resolved : d = s.d /\ st = s.rec.status
    BY <1>1, <1>2, <1>a DEF HeldFacts
  <1>4. \A y \in Procs : y # r => ~Settling(y, d)
    BY <1>1, <1>2, <1>3, NobodyElseSettles
  <1>5. CASE ResolveLog(r)
    <2>1. /\ EndsWith(log'[d], st) /\ \A e \in Decisions : e # d => log'[e] = log[e]
          /\ file' = file
      BY <1>1, <1>3, <1>5, <1>a, LastAppended DEF ResolveLog
    <2>2. Others(r) /\ proc'[r] = [s EXCEPT !.pc = "resolveWrite"]
      BY <1>1, <1>5, <1>a, GotoEffect DEF ResolveLog, Steps
    <2>3. proc'[r].pc = "resolveWrite" /\ proc'[r].d = d /\ proc'[r].rec = s.rec
      BY <1>3, <2>2 DEF Process
    <2>4. HalfDone(r)' /\ Settling(r, d)'
      BY <1>3, <2>1, <2>3 DEF HalfDone, Settling
    <2>5. QED
      BY <1>1, <1>3, <1>4, <2>1, <2>2, <2>4, LogTouched
  <1>6. CASE ResolveWrite(r)
    <2>1. /\ file'[d] = s.rec /\ \A e \in Decisions : e # d => file'[e] = file[e]
          /\ log' = log
      BY <1>1, <1>3, <1>6, <1>a, WriteEffect DEF ResolveWrite
    <2>2. Others(r) /\ proc'[r] = Idle
      BY <1>6, <1>a, FinishEffect DEF ResolveWrite
    <2>3. EndsWith(log[d], st)
      BY <1>1, <1>3, <1>6, <1>a DEF HalfDone, ResolveWrite, At
    <2>4. HalfDone(r)' /\ Agree(file'[d].status, log'[d])
      BY <1>3, <2>1, <2>2, <2>3 DEF HalfDone, Agree, EndsWith, Idle
    <2>5. QED
      BY <1>1, <1>3, <1>4, <2>1, <2>2, <2>4, LogTouched
  <1>7. QED
    BY <1>5, <1>6 DEF ResolverStep

\* The first step of an operation writes nothing.
LEMMA LogOfBegin ==
  ASSUME IInv, LInv, NEW x \in Procs, NEW d \in Decisions,
         \/ x \in Plugins /\ \E c \in Calls :
              \/ \E action \in {"allow", "ask", "deny"} : Evaluate(x, d, c, action)
              \/ Replay(x, d, c)
         \/ x \in Resolvers /\ \E verdict \in Resolved : Resolve(x, d, verdict)
  PROVE  LInv'
  <1>1. TypeOK
    BY DEF IInv
  <1>2. UNCHANGED <<file, log>>
    BY DEF Evaluate, Replay, Resolve
  <1>3. proc' = proc \/ \E pc \in {"createPending", "auditReplay", "consumeWrite", "resolveLog"} :
                           \E c, rec, outcome : Begin(x, pc, d, c, rec, outcome)
    BY Zenon DEF Evaluate, Replay, Resolve
  <1>4. proc[x].pc = "idle"
    BY DEF Evaluate, Replay, Resolve, Begin, Idle
  <1>5. Others(x) /\ ~(proc'[x].pc \in {"resolveWrite", "consumeLog"})
    BY <1>1, <1>3, <1>4 DEF Begin, Others, TypeOK
  <1>6. QED
    BY <1>2, <1>4, <1>5, LogUntouched

LEMMA LogInductive ==
  ASSUME Serial, IInv, SInv, crashes = 0 => LInv, [Next]_vars
  PROVE  (crashes = 0 => LInv)'
  <1> SUFFICES ASSUME crashes' = 0 PROVE LInv'
    OBVIOUS
  <1>1. crashes \in Nat /\ crashes' = crashes
    <2>1. crashes \in Nat
      BY DEF IInv, TypeOK
    <2>2. crashes' = crashes \/ crashes' = crashes + 1
      <3> DEFINE Counts == crashes' = crashes \/ crashes' = crashes + 1
      <3>1. ASSUME NEW p \in Plugins, PluginStep(p) PROVE Counts
        BY <3>1 DEF PluginStep, CreatePending, ConsumeWrite, ConsumeLog, AuditReplay, Release
      <3>2. ASSUME NEW r \in Resolvers, ResolverStep(r) PROVE Counts
        BY <3>2 DEF ResolverStep, ResolveLog, ResolveWrite
      <3>3. ASSUME NEW q \in Runners, RunnerStep(q) PROVE Counts
        BY <3>3 DEF RunnerStep, Spawn, SpawnError, ConsumeRead, ConsumeWrite, ConsumeLog, Report
      <3>4. ASSUME NEW p \in Plugins, NEW d \in Decisions, NEW c \in Calls,
                   (\E action \in {"allow", "ask", "deny"} : Evaluate(p, d, c, action)) \/ Replay(p, d, c)
            PROVE  Counts
        BY <3>4 DEF Evaluate, Replay
      <3>5. ASSUME \/ \E r \in Resolvers, d \in Decisions, verdict \in Resolved : Resolve(r, d, verdict)
                   \/ \E q \in Runners, d \in Decisions : DryRun(q, d) \/ Plan(q, d)
                   \/ \E q \in Runners, outcome \in {"executed", "failed"} : Exit(q, outcome)
                   \/ \E x \in Procs : Crash(x)
                   \/ Tick \/ UNCHANGED vars
            PROVE  Counts
        BY <3>5 DEF Resolve, DryRun, Plan, Exit, Crash, Tick, vars
      <3> HIDE DEF Counts
      <3>6. Counts
        BY <3>1, <3>2, <3>3, <3>4, <3>5, ZenonT(60) DEF Next
      <3>7. QED
        BY <3>6 DEF Counts
    <2>3. QED
      BY <2>1, <2>2
  <1>2. LInv
    BY <1>1
  <1>3. ASSUME NEW x \in Procs PROVE ~Crash(x)
    BY <1>1 DEF Crash
  <1>4. CASE UNCHANGED <<file, log, proc>>
    BY <1>2, <1>4 DEF LInv, HalfDone, Settling
  <1>5. Runners = {} /\ Plugins \subseteq Procs /\ Resolvers \subseteq Procs
    BY DEF Serial, Procs
  <1>6. QED
    BY <1>2, <1>3, <1>4, <1>5, LogOfBegin, LogOfPlugin, LogOfResolver DEF Next, Tick, vars

\* With one plugin, one resolver and no runner, and as long as nothing crashed, the
\* history that approvals.jsonl shows of a decision nobody is busy with ends with the
\* status that the approval file obeys.
THEOREM SerialLog == ASSUME Serial PROVE Spec => []LogAgrees
  <1>1. Init => IInv /\ SInv /\ LInv
    <2> SUFFICES ASSUME Init PROVE LInv
      BY Initially, SerialInit
    <2>1. QED
      BY DEF Init, LInv, HalfDone, Idle, Agree, NoRecord
  <1>2. IInv /\ SInv /\ [Next]_vars => IInv' /\ SInv'
    BY Inductive, SerialStep
  <1>3. IInv /\ SInv /\ (crashes = 0 => LInv) /\ [Next]_vars => (crashes = 0 => LInv)'
    BY LogInductive
  <1>4. (crashes = 0 => LInv) => LogAgrees
    <2> SUFFICES ASSUME LInv, NEW d \in Decisions, ~InFlight(d)
                 PROVE  Agree(file[d].status, log[d])
      BY DEF LogAgrees, Agree
    <2>1. \A x \in Procs : ~Settling(x, d)
      BY DEF InFlight, Settling
    <2>2. QED
      BY <2>1 DEF LInv
  <1>5. QED
    BY <1>1, <1>2, <1>3, <1>4, PTL DEF Spec
=============================================================================
