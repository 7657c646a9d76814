-------------------------- MODULE MCProfileSession --------------------------
(***************************************************************************)
(* The shipped profiles rag-optimization and coding-safe-fix with the      *)
(* node types of their workflows, and the requests that create, answer,    *)
(* name, resume and guard a session.                                       *)
(***************************************************************************)
EXTENDS ProfileSession

ShippedNodeTypes ==
  [negotiation |-> {"negotiate"}, gate |-> {"scopeGate"}, feasibility |-> {"mock"},
   codeTest |-> {"code", "test", "verify", "repair", "approval"}, materialize |-> {"materialize"},
   approval |-> {"executionApproval"}]

ShippedProfile ==
  [rag |-> [first |-> "negotiation", scope |-> "gate", followups |-> <<"feasibility">>,
            needsLLM |-> FALSE, mayExecute |-> TRUE, input |-> "improve"],
   coding |-> [first |-> "codeTest", scope |-> None, followups |-> <<"materialize", "approval">>,
               needsLLM |-> FALSE, mayExecute |-> TRUE, input |-> "improve"]]

Request == [profile |-> None, task |-> None, session |-> None, answer |-> None, conf |-> None,
            dryRun |-> FALSE, execute |-> FALSE, llm |-> FALSE]
Confirmed(t, a) == [task |-> t, answer |-> a, status |-> "confirmed"]

\* A task no rule routes, one the router moves to rag, and three answers.
Ask == [Request EXCEPT !.task = "deploy"]
AskConfirmed == [Request EXCEPT !.task = "improve", !.conf = Confirmed("improve", "file")]
Answer(a) == [Request EXCEPT !.profile = "rag", !.answer = a]
AnswerById == [Answer("key") EXCEPT !.session = <<"rag", "deploy">>]

SessionRequests ==
  {Ask, AskConfirmed, Answer("file"), [Answer("chunk") EXCEPT !.dryRun = TRUE], AnswerById}

AnswerRequests == {Answer("file")}

LeftPending == [rag |-> <<"deploy", "improve">>, coding |-> <<>>]
DeployLeft == [rag |-> <<"deploy">>]
NoScope == {}

TaskRoute == [improve |-> "rag", deploy |-> None]
=============================================================================
