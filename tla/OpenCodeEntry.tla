----------------------------- MODULE OpenCodeEntry -----------------------------
(***************************************************************************)
(* From what a user types in OpenCode to a run and back: the interceptor   *)
(* plugin turns an entry into an instruction to call one MCP tool          *)
(* (adapters/opencode/AgentFlowWorkflowInterceptorCore.ts), the server     *)
(* handles every line as it comes and writes answers to stdout             *)
(* (mcp/agentflow-mcp-server.ts), the tool service silences console.log    *)
(* while a run lasts, and the plugin puts the run's own text in place of   *)
(* the model's.                                                            *)
(*                                                                         *)
(* External: OpenCode's model, which calls the tool as it is told to.      *)
(***************************************************************************)
EXTENDS Integers

CONSTANTS
  ChatSessions,
  MaxTurns,  \* bound on the turns of a session
  Nobody,
  Stdout

\* Stdout and Nobody are values of their own: no call, and no profile.
ASSUME EntryAssumption ==
  /\ MaxTurns \in Nat
  /\ Stdout \notin ChatSessions \X Nat /\ Nobody \notin ChatSessions \X Nat

VARIABLES
  turns,      \* turns begun, by session
  turn,       \* the turn of each session: [at, args, wants]
  serving,    \* runs under way in the server: call -> [console, llm, wants]
  console,    \* where console.log goes: Stdout, or the array of a call
  remembered, \* latestFormattedTextBySession
  shown,      \* results put in place of a model's text: <<session, turn, call>>
  aborted,    \* sessions a turn was aborted in (history)
  strayLogs   \* did a run's log reach stdout? (history)

entryVars == <<turns, turn, serving, console, remembered, shown, aborted, strayLogs>>

(* An entry: where it is typed, whether it says to use a real LLM, and the *)
(* profile it names after "run", or that it answers the last question.     *)
EntryKinds == {"chat", "workflow", "workflow-llm"}
Profiles == {"agent-workforce-basic", "agent-workforce-llm", "other-llm"}
Entries == [via : EntryKinds, flag : BOOLEAN, named : Profiles \union {Nobody, "answer"}]

Basic == "agent-workforce-basic"
WithLLM == "agent-workforce-llm"

\* parseWorkflowCommand
Parsed(entry) ==
  IF entry.named \in Profiles
  THEN [profile |-> entry.named, allowLLM |-> entry.flag \/ entry.named = WithLLM]
  ELSE [profile |-> IF entry.flag THEN WithLLM ELSE Basic, allowLLM |-> entry.flag]

\* Faulty variant: a command keeps the profile that is parsed from it and allows for it.
InstructionKeeps(entry) ==
  IF entry.via = "workflow-llm" THEN [profile |-> WithLLM, allowLLM |-> TRUE]
  ELSE IF entry.via = "workflow" THEN [profile |-> Parsed(entry).profile, allowLLM |-> TRUE] ELSE Parsed(entry)

\* buildToolInstruction after the plugin: a command decides on profile and LLM, and
\* overrides what its text says.
Instruction(entry) ==
  CASE entry.via = "chat" -> Parsed(entry)
    [] entry.via = "workflow" -> [profile |-> Basic, allowLLM |-> FALSE]
    [] entry.via = "workflow-llm" -> [profile |-> WithLLM, allowLLM |-> TRUE]

\* The user's own words ask for a real LLM.
Wants(entry) == entry.flag \/ entry.via = "workflow-llm" \/ entry.named = WithLLM

UsesLLM(profile) == profile # Basic

Resting == [at |-> "idle", args |-> Nobody, wants |-> FALSE]

EntryInit ==
  /\ turns = [s \in ChatSessions |-> 0]
  /\ turn = [s \in ChatSessions |-> Resting]
  /\ serving = << >> /\ console = Stdout
  /\ remembered = [s \in ChatSessions |-> Nobody]
  /\ shown = {} /\ aborted = {} /\ strayLogs = FALSE

Call(s) == <<s, turns[s]>>

Begin(s, begun) ==
  /\ turn[s].at = "idle" /\ turns[s] < MaxTurns
  /\ turns' = [turns EXCEPT ![s] = @ + 1]
  /\ turn' = [turn EXCEPT ![s] = begun]
  /\ UNCHANGED <<serving, console, remembered, shown, aborted, strayLogs>>

Enter(s, entry) == Begin(s, [at |-> "asked", args |-> Instruction(entry), wants |-> Wants(entry)])
Chat(s) == Begin(s, [at |-> "answering", args |-> Nobody, wants |-> FALSE])

MoveTurn(s, place) == turn' = [turn EXCEPT ![s].at = place]

\* runWithoutRuntimeLogs before its await: console.log is kept and replaced.
Capture(call, args, wants) ==
  /\ serving' = [c \in DOMAIN serving \union {call} |->
                   IF c = call THEN [console |-> console, llm |-> UsesLLM(args.profile), wants |-> wants]
                   ELSE serving[c]]
  /\ console' = call

\* agentflowRunProfileWorkflow answers without a run.
Refuses(args) == UsesLLM(args.profile) /\ ~args.allowLLM

\* The server does not wait for the calls before, those of aborted turns included.
CallTool(s) ==
  /\ turn[s].at = "asked"
  /\ IF Refuses(turn[s].args)
     THEN MoveTurn(s, "answered") /\ UNCHANGED <<serving, console>>
     ELSE MoveTurn(s, "waiting") /\ Capture(Call(s), turn[s].args, turn[s].wants)
  /\ UNCHANGED <<turns, remembered, shown, aborted, strayLogs>>

\* WorkflowRuntime prints every node of a run.
LogNode(call) ==
  /\ call \in DOMAIN serving
  /\ strayLogs' = (strayLogs \/ console = Stdout)
  /\ UNCHANGED <<turns, turn, serving, console, remembered, shown, aborted>>

\* The finally block; the answer goes to the turn that waits, if it still does.
EndRun(call) ==
  /\ call \in DOMAIN serving
  /\ console' = serving[call].console
  /\ serving' = [c \in DOMAIN serving \ {call} |-> serving[c]]
  /\ IF turn[call[1]].at = "waiting" /\ Call(call[1]) = call THEN MoveTurn(call[1], "answered") ELSE UNCHANGED turn
  /\ UNCHANGED <<turns, remembered, shown, aborted, strayLogs>>

\* Faulty variant: the latest text is kept for whichever session asks next.
RememberGlobally(s) == remembered' = [t \in ChatSessions |-> Call(s)]

Remember(s) == remembered' = [remembered EXCEPT ![s] = Call(s)]

\* tool.execute.after
AfterTool(s) ==
  /\ turn[s].at = "answered"
  /\ Remember(s) /\ MoveTurn(s, "answering")
  /\ UNCHANGED <<turns, serving, console, shown, aborted, strayLogs>>

\* The MCP tool is unavailable, and the model says so.
ToolFails(s) ==
  /\ turn[s].at = "asked"
  /\ MoveTurn(s, "answering")
  /\ UNCHANGED <<turns, serving, console, remembered, shown, aborted, strayLogs>>

\* experimental.text.complete: the next text of the session is replaced.
CompleteText(s) ==
  /\ turn[s].at = "answering"
  /\ shown' = IF remembered[s] = Nobody THEN shown ELSE shown \union {<<s, turns[s], remembered[s]>>}
  /\ remembered' = [remembered EXCEPT ![s] = Nobody]
  /\ turn' = [turn EXCEPT ![s] = Resting]
  /\ UNCHANGED <<turns, serving, console, aborted, strayLogs>>

\* The user stops a turn; a run it waits for goes on in the server.
Abort(s) ==
  /\ turn[s].at # "idle"
  /\ turn' = [turn EXCEPT ![s] = Resting]
  /\ aborted' = aborted \union {s}
  /\ UNCHANGED <<turns, serving, console, remembered, shown, strayLogs>>

EntryNext ==
  \/ \E s \in ChatSessions :
       \/ \E entry \in Entries : Enter(s, entry)
       \/ Chat(s) \/ CallTool(s) \/ AfterTool(s) \/ ToolFails(s) \/ CompleteText(s) \/ Abort(s)
  \/ \E call \in DOMAIN serving : LogNode(call) \/ EndRun(call)

EntrySpec == EntryInit /\ [][EntryNext]_entryVars
-----------------------------------------------------------------------------
(* Properties.                                                             *)

\* Runtime node logs are suppressed while the tool service runs a workflow: none reaches
\* stdout, which the server's answers use, and the console is itself again when no run is
\* left.  What runWithoutRuntimeLogs is tested for with one run; it does not hold of two.
LogsSuppressed ==
  /\ ~strayLogs
  /\ DOMAIN serving = {} => console = Stdout

\* A run's text stands in for a model's at most once and only in the session that
\* asked; where no turn was ever aborted, only in the turn that asked.
ShownToAsker ==
  \A x \in shown :
    /\ x[3][1] = x[1]
    /\ x[3][2] # x[2] => x[1] \in aborted
    /\ \A y \in shown : y[3] = x[3] => y = x

\* No run with LLM nodes is under way that the user's own words did not ask for.
LlmIsAskedFor == \A call \in DOMAIN serving : serving[call].llm => serving[call].wants

\* OpenCode entry: however tool calls overlap and turns are aborted, a run's text goes to
\* the session that asked, and no real LLM runs unasked.
EntryIsFaithful == ShownToAsker /\ LlmIsAskedFor
=============================================================================
