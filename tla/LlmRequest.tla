------------------------------ MODULE LlmRequest ------------------------------
(***************************************************************************)
(* One llm node: the client its environment gives (core/LLMConfigLoader,   *)
(* LLMClientFactory, DeepSeekModelPolicy), the attempts of                 *)
(* OpenAICompatibleLLMClient, what each attempt sends, and what            *)
(* LLMExecutor records of the call.                                        *)
(*                                                                         *)
(* Abstracted: a reply is what the client can tell of it; a text is the    *)
(* number of the attempt it answered.                                      *)
(***************************************************************************)
EXTENDS Integers, Sequences

CONSTANTS
  Envs,       \* environments: [provider, set], set being the variables that are set
  Policies,   \* retryPolicy.maxAttempts of the node, or Unset
  Unset

(* Replies by how far one gets: no answer in time, none at all, an HTTP    *)
(* error, no assistant text, text without an object, an object that the    *)
(* schema refuses, an output.                                              *)
Textless == {"timeout", "network", "http", "no_text"}
Replies == Textless \union {"no_object", "no_schema", "output"}

\* Unset is a value of its own: no reply, no key and no host.
ASSUME LlmAssumption ==
  /\ Policies \subseteq Int \union {Unset}
  /\ Unset \notin Replies \union {"AGENTFLOW_LLM_API_KEY", "OPENAI_API_KEY", "DEEPSEEK_API_KEY",
                                   "own", "openai", "deepseek"}

VARIABLES
  llmEnv, llmPolicy,
  llmPhase,   \* "idle", "attempt", "sent", "completed", "failed"
  calls,      \* requests sent, with their replies: [to, prompt, reply]
  lastError, rawText,
  llmCalls    \* runtimeMetadata.llmCalls

llmVars == <<llmEnv, llmPolicy, llmPhase, calls, lastError, rawText, llmCalls>>

\* Faulty variant: any key that is set is good for any provider.
AnyKeyOf(env) == LET set == {k \in {"AGENTFLOW_LLM_API_KEY", "OPENAI_API_KEY", "DEEPSEEK_API_KEY"} : k \in env.set}
                 IN IF set = {} THEN Unset ELSE CHOOSE k \in set : TRUE

\* resolveApiKey: the first variable of the provider's that is set.
KeyOf(env) ==
  IF env.provider = "deepseek" /\ "DEEPSEEK_API_KEY" \in env.set THEN "DEEPSEEK_API_KEY"
  ELSE IF "AGENTFLOW_LLM_API_KEY" \in env.set THEN "AGENTFLOW_LLM_API_KEY"
  ELSE IF env.provider # "deepseek" /\ "OPENAI_API_KEY" \in env.set THEN "OPENAI_API_KEY"
  ELSE Unset

HostOf(env) ==
  IF env.provider = "deepseek"
  THEN IF "AGENTFLOW_LLM_BASE_URL" \in env.set THEN "own" ELSE "deepseek"
  ELSE IF "AGENTFLOW_LLM_BASE_URL" \in env.set THEN "own"
  ELSE IF "OPENAI_BASE_URL" \in env.set THEN "openai" ELSE Unset

HasModel(env) ==
  env.provider = "deepseek" \/ env.set \intersect {"AGENTFLOW_LLM_MODEL", "OPENAI_MODEL"} # {}

\* fromEnv throws for an unknown provider and for missing credentials.
Loads(env) ==
  CASE env.provider = "mock" -> TRUE
    [] env.provider = "openai-compatible" -> KeyOf(env) # Unset /\ HostOf(env) # Unset /\ HasModel(env)
    [] env.provider = "deepseek" -> KeyOf(env) # Unset
    [] OTHER -> FALSE

MaxAttempts == IF llmPolicy = Unset THEN 2 ELSE IF llmPolicy < 1 THEN 1 ELSE llmPolicy

Task == [kind |-> "task"]
RepairPrompt(error, raw) == [kind |-> "repair", error |-> error, raw |-> raw]

\* Faulty variant: a retry that has no answer to repair sends the task again, one that has
\* an answer forgets the error.
PromptForgets == IF lastError = Unset \/ rawText = 0 THEN Task ELSE RepairPrompt("unknown", rawText)

\* buildUserContent: after a failed attempt the repair prompt alone, with the
\* last text that came, be it an earlier attempt's ("" is 0).
Prompt == IF Len(calls) > 0 /\ lastError # Unset THEN RepairPrompt(lastError, rawText) ELSE Task

-----------------------------------------------------------------------------
LlmInit ==
  /\ llmEnv = Unset /\ llmPolicy = Unset /\ llmPhase = "idle"
  /\ calls = <<>> /\ lastError = Unset /\ rawText = 0 /\ llmCalls = <<>>

\* LLMExecutor with the client that the factory makes; the mock calls nobody.
Execute(env, policy) ==
  /\ llmPhase = "idle"
  /\ Loads(env) /\ env.provider # "mock"
  /\ llmEnv' = env /\ llmPolicy' = policy /\ llmPhase' = "attempt"
  /\ UNCHANGED <<calls, lastError, rawText, llmCalls>>

Send ==
  /\ llmPhase = "attempt"
  /\ calls' = Append(calls, [to |-> HostOf(llmEnv), key |-> KeyOf(llmEnv), prompt |-> Prompt, reply |-> Unset])
  /\ llmPhase' = "sent"
  /\ UNCHANGED <<llmEnv, llmPolicy, lastError, rawText, llmCalls>>

Record(record) == llmCalls' = Append(llmCalls, record)

Receive(reply) ==
  LET attempt == Len(calls) IN
    /\ llmPhase = "sent"
    /\ calls' = [calls EXCEPT ![attempt].reply = reply]
    /\ rawText' = IF reply \in Textless THEN rawText ELSE attempt
    /\ IF reply = "output"
       THEN /\ llmPhase' = "completed"
            /\ Record([status |-> "completed", attempts |-> attempt, error |-> Unset])
            /\ UNCHANGED lastError
       ELSE /\ lastError' = reply
            /\ IF attempt < MaxAttempts
               THEN llmPhase' = "attempt" /\ UNCHANGED llmCalls
               ELSE /\ llmPhase' = "failed"
                    /\ Record([status |-> "failed", attempts |-> MaxAttempts, error |-> reply])
    /\ UNCHANGED <<llmEnv, llmPolicy>>

LlmNext ==
  \/ \E env \in Envs, policy \in Policies : Execute(env, policy)
  \/ Send
  \/ \E reply \in Replies : Receive(reply)

LlmSpec == LlmInit /\ [][LlmNext]_llmVars
-----------------------------------------------------------------------------
(* Properties.                                                             *)

\* The text of the last attempt before attempt i that got one, or 0.
TextBefore(i) ==
  LET texts == {j \in 1 .. i - 1 : calls[j].reply \notin Textless}
  IN IF texts = {} THEN 0 ELSE CHOOSE j \in texts : \A k \in texts : k <= j

\* What a workflow pays for and may believe of its llm calls: a node makes at most
\* its attempts and at least one; it ends with the output of the last one or with
\* the last one's error, and one record says which; every retry shows the error of
\* the attempt just before it with the latest text there is, which after a lost
\* transport is an older attempt's text or none, and never the task again.
RequestAccounted ==
  /\ \A i \in 1 .. Len(calls) :
       calls[i].prompt = IF i = 1 THEN Task ELSE RepairPrompt(calls[i - 1].reply, TextBefore(i))
  /\ llmPhase # "idle" => Len(calls) <= MaxAttempts
  /\ \A i \in 1 .. Len(calls) - 1 : calls[i].reply # "output"
  /\ llmPhase \in {"completed", "failed"} =>
       /\ Len(llmCalls) = 1
       /\ llmCalls[1].status = llmPhase /\ llmCalls[1].attempts = Len(calls)
       /\ llmPhase = "completed" <=> calls[Len(calls)].reply = "output"
       /\ llmPhase = "failed" => llmCalls[1].error = calls[Len(calls)].reply /\ Len(calls) = MaxAttempts

\* No environment sends one provider's key to another: a key named for a provider
\* goes to it or to the address that was set by hand, and a request always has one.
KeysStayHome ==
  \A i \in 1 .. Len(calls) :
    /\ calls[i].key # Unset /\ calls[i].to # Unset
    /\ calls[i].key = "OPENAI_API_KEY" => calls[i].to # "deepseek"
    /\ calls[i].key = "DEEPSEEK_API_KEY" => calls[i].to # "openai"

\* The two together: what a call cost, what it may be believed for, and who got a key.
CallsAccounted == RequestAccounted /\ KeysStayHome
=============================================================================
