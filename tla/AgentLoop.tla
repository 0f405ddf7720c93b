----------------------------- MODULE AgentLoop -----------------------------
(* The loop in which the model chooses retrieval tools (agent_loop.py), and *)
(* the registry that runs them (agent_tools/).  The model is a service that *)
(* answers anything: no choice, no call, or calls of any shape.  The state  *)
(* is the transcript that goes back to the model, and what the loop counts. *)
(* A call's arguments are a member of Arguments, or "invalid" when they are *)
(* no JSON object; the tool's name and they make its signature.             *)
EXTENDS Integers, Sequences, SequencesExt, FiniteSets

CONSTANTS
  Tools,        \* the registered names
  Unknown,      \* a name the model makes up
  Arguments,
  Items,        \* documents
  MaxSteps,     \* AGENT_LOOP_MAX_STEPS
  MaxToolCalls, \* AGENT_LOOP_MAX_TOOL_CALLS
  MaxDocs,      \* AGENT_LOOP_MAX_DOCS
  Batch         \* bound: the calls of one answer of the model

ASSUME LoopAssumption ==
  /\ Unknown \notin Tools /\ "invalid" \notin Arguments
  /\ MaxSteps \in Nat \ {0} /\ MaxToolCalls \in Nat \ {0} /\ MaxDocs \in Nat \ {0}
  /\ Batch \in Nat /\ IsFiniteSet(Items)

VARIABLES
  step,        \* the number of the model's turn
  transcript,  \* the calls of assistant turns, and the tool messages
  waiting,     \* the calls of the last answer that are still to be handled
  executed,    \* the signatures that were executed
  totalCalls,
  collected,   \* the documents, each once
  loop         \* "ask", "calls", "finished" or "stopped"

loopVars == <<step, transcript, waiting, executed, totalCalls, collected, loop>>

Call == [name : Tools \cup {Unknown}, args : Arguments \cup {"invalid"}]
Verdicts == {"budget", "invalid", "duplicate", "unknown", "rejected", "failed", "documents"}

LoopInit ==
  /\ step = 1 /\ transcript = <<>> /\ waiting = <<>> /\ executed = {}
  /\ totalCalls = 0 /\ collected = <<>> /\ loop = "ask"

\* The model's turn: it fails or has nothing to ask for.
ModelStops ==
  /\ loop = "ask"
  /\ loop' = "finished"
  /\ UNCHANGED <<step, transcript, waiting, executed, totalCalls, collected>>

\* ExecutionStopped passes the loop's except clause.
LoopIsStopped ==
  /\ loop \in {"ask", "calls"}
  /\ loop' = "stopped"
  /\ UNCHANGED <<step, transcript, waiting, executed, totalCalls, collected>>

ModelCalls ==
  /\ loop = "ask"
  /\ \E n \in 1..Batch : \E calls \in [1..n -> Call] :
       /\ waiting' = calls
       /\ transcript' = Append(transcript, [role |-> "assistant", calls |-> calls])
  /\ loop' = "calls"
  /\ UNCHANGED <<step, executed, totalCalls, collected>>

-----------------------------------------------------------------------------
(* One call *)

Answer(verdict) == [role |-> "tool", call |-> Head(waiting), verdict |-> verdict]

Reply(verdict) ==
  /\ transcript' = Append(transcript, Answer(verdict))
  /\ waiting' = Tail(waiting)

Handling == loop = "calls" /\ waiting # <<>>

(* Mutant: what is over the budget is left without an answer. *)
RefuseForBudget_Silent ==
  /\ Handling /\ totalCalls >= MaxToolCalls
  /\ waiting' = <<>>
  /\ UNCHANGED <<step, transcript, executed, totalCalls, collected, loop>>

RefuseForBudget ==
  /\ Handling /\ totalCalls >= MaxToolCalls
  /\ Reply("budget")
  /\ UNCHANGED <<step, executed, totalCalls, collected, loop>>

RefuseForArguments ==
  /\ Handling /\ totalCalls < MaxToolCalls
  /\ Head(waiting).args = "invalid"
  /\ Reply("invalid")
  /\ UNCHANGED <<step, executed, totalCalls, collected, loop>>

RefuseDuplicate ==
  /\ Handling /\ totalCalls < MaxToolCalls
  /\ Head(waiting) \in executed
  /\ Reply("duplicate")
  /\ UNCHANGED <<step, executed, totalCalls, collected, loop>>

\* registry.execute: an unknown name raises KeyError, a name given twice a
\* TypeError; whatever happens in a tool becomes a result with an error.
Outcomes(call) ==
  IF call.name = Unknown THEN {"unknown"} ELSE {"rejected", "failed", "documents"}

\* The new ones of docs, until the limit is reached; the limit is looked at
\* only after a document has been added.
Fresh(docs) ==
  FoldLeft(LAMBDA new, d :
             IF \/ d \in ToSet(collected) \cup ToSet(new)
                \/ new # <<>> /\ Len(collected) + Len(new) >= MaxDocs
             THEN new ELSE Append(new, d),
           <<>>, docs)

Execute ==
  /\ Handling /\ totalCalls < MaxToolCalls
  /\ Head(waiting).args # "invalid" /\ Head(waiting) \notin executed
  /\ executed' = executed \cup {Head(waiting)}
  /\ totalCalls' = totalCalls + 1
  /\ \E verdict \in Outcomes(Head(waiting)) :
       /\ Reply(verdict)
       /\ IF verdict = "documents"
          THEN \E docs \in SetToAllKPermutations(Items) : collected' = collected \o Fresh(docs)
          ELSE UNCHANGED collected
  /\ UNCHANGED <<step, loop>>

StepEnds ==
  /\ loop = "calls" /\ waiting = <<>>
  /\ IF Len(collected) >= MaxDocs \/ totalCalls >= MaxToolCalls \/ step = MaxSteps
     THEN loop' = "finished" /\ UNCHANGED step
     ELSE loop' = "ask" /\ step' = step + 1
  /\ UNCHANGED <<transcript, waiting, executed, totalCalls, collected>>

LoopNext ==
  \/ ModelStops \/ LoopIsStopped \/ ModelCalls
  \/ RefuseForBudget \/ RefuseForArguments \/ RefuseDuplicate \/ Execute \/ StepEnds

LoopSpec == LoopInit /\ [][LoopNext]_loopVars

-----------------------------------------------------------------------------
(* Properties *)

LoopTypeOK ==
  /\ step \in 1..MaxSteps
  /\ waiting \in Seq(Call)
  /\ executed \subseteq Call
  /\ totalCalls \in 0..MaxToolCalls
  /\ collected \in Seq(Items)
  /\ loop \in {"ask", "calls", "finished", "stopped"}

CallsOf(m) == IF m.role = "assistant" THEN m.calls ELSE <<>>
ReplyOf(m) == IF m.role = "tool" THEN <<m.call>> ELSE <<>>
RunOf(m) ==
  IF m.role = "tool" /\ m.verdict \notin {"budget", "invalid", "duplicate"} THEN <<m.call>> ELSE <<>>

Asked == FlattenSeq([i \in DOMAIN transcript |-> CallsOf(transcript[i])])
Replies == FlattenSeq([i \in DOMAIN transcript |-> ReplyOf(transcript[i])])
Ran == FlattenSeq([i \in DOMAIN transcript |-> RunOf(transcript[i])])

(* The calls of the model that have their one tool message, and those that   *)
(* still wait, are the calls it has made, in its order: what the interface   *)
(* of the model demands whenever it is asked again.  No tool has run twice   *)
(* with the same arguments, none beyond the budget.  run_agent_loop          *)
EveryCallAnswered ==
  /\ LoopTypeOK
  /\ Replies \o waiting = Asked
  /\ IsInjective(Ran) /\ Len(Ran) = totalCalls /\ totalCalls <= MaxToolCalls
=============================================================================
