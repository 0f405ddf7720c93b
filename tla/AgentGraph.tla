----------------------------- MODULE AgentGraph -----------------------------
(***************************************************************************)
(* The LangGraph agent of software_recommend_system: the nodes of nodes.py *)
(* over the checkpointed AgentState of one thread, the edges and the loop  *)
(* of rag_agent.py, the pause for the human, and the runs that stop.       *)
(*                                                                         *)
(* Steps.  One action is one superstep: the checks of _controlled_node,    *)
(* the node, the conditional edge behind it and the checkpoint.  A run     *)
(* that stops inside a node leaves the checkpoint before it; the next      *)
(* resume executes the node again, a new turn writes a fresh state.        *)
(*                                                                         *)
(* Data.  A list of sub-questions is its length and its author; evidence   *)
(* is how many items there are and how many clear QUALITY_THRESHOLD; a     *)
(* time is a number of ticks.                                              *)
(***************************************************************************)
EXTENDS Integers

CONSTANTS
  Skills,          \* the ids of skill_registry.SKILLS
  Iterations,      \* what a request may send as max_iterations
  MinSub, MaxSub,  \* SUB_QUESTION_MIN_COUNT, SUB_QUESTION_MAX_COUNT
  MaxEdits,        \* bound: the longest list a human or an oracle sends
  BaseEvidence,    \* BASE_MAX_EVIDENCE, 3
  QaTopN,          \* QA_EVIDENCE_TOP_N, 5
  Threshold,       \* coverage_threshold in percent, 80
  Budget,          \* timeout_budget in ticks
  RecursionLimit   \* recursion_limit of the graph's config, 64

ASSUME GraphAssumption ==
  /\ {"generic_rag", "quick_fact_qa"} \subseteq Skills
  /\ Iterations \subseteq Nat \ {0}
  /\ MinSub \in 1 .. 3 /\ MaxSub \in Nat /\ MaxSub >= MinSub
  /\ {MaxEdits, QaTopN} \subseteq Nat
  /\ {BaseEvidence, Budget, Threshold} \subseteq Nat \ {0}
  /\ RecursionLimit \in Nat
  /\ \A m \in Iterations : RecursionLimit > 8 + 4 * m

VARIABLES
  next,     \* the node the checkpoint has scheduled
  state,    \* AgentState
  request,  \* hitl_policy and max_iterations of the turn
  run,      \* whether a graph run is executing
  steps,    \* its supersteps
  ran,      \* ticks since it began, as its RunControl measures them
  elapsed,  \* ticks since entry_node wrote start_time
  reply     \* the resume value no superstep has consumed

vars == <<next, state, request, run, steps, ran, elapsed, reply>>

LargerOf(a, b) == IF a < b THEN b ELSE a
LesserOf(a, b) == IF a < b THEN a ELSE b

-----------------------------------------------------------------------------
(* The state *)

Policies == {"human", "auto_confirm", "oracle_edit"}
RagNodes == {"skill_routing", "planning", "sub_question_generation", "human_confirmation"}
LoopNodes == {"retrieve", "evidence_collection", "evidence_evaluation", "coverage_check"}
AnswerNodes == {"candidate_generation", "rag_answer_generation"}
Nodes == {"entry", "query_normalization", "routing", "chat_answer_generation"}
           \cup RagNodes \cup LoopNodes \cup AnswerNodes

Wide == {"quick_fact_qa", "generic_rag"}
MaxEvidence(skill) == IF skill \in Wide THEN LargerOf(BaseEvidence, QaTopN) ELSE BaseEvidence
MostEvidence == LargerOf(BaseEvidence, QaTopN)

Replies == [action : {"confirm", "edit"}, n : 0 .. MaxEdits]
NoReply == [action |-> "none", n |-> 0]

NoEvidence == [items |-> 0, good |-> 0]
Fresh == [mode |-> "none", skill |-> "none",
          questions |-> [n |-> 0, by |-> "none"], confirmed |-> FALSE, hitl |-> "none",
          evidence |-> NoEvidence, contexts |-> FALSE, found |-> FALSE, iteration |-> 0, coverage |-> 0,
          candidates |-> "none", answer |-> "none"]

Init ==
  /\ next = "__end__" /\ state = Fresh
  /\ request = [policy |-> "human", maxIterations |-> 1]
  /\ run = "none" /\ steps = 0 /\ ran = 0 /\ elapsed = 0 /\ reply = NoReply

-----------------------------------------------------------------------------
(* Runs: a turn's run starts from a fresh state, except the fields whose   *)
(* value in the input is None (mode); a confirmation resumes the           *)
(* checkpoint, wherever it stands.                                         *)

Begins == run = "none" /\ run' = "active" /\ steps' = 0 /\ ran' = 0

Start ==
  /\ Begins
  /\ next' = "entry"
  /\ state' = [Fresh EXCEPT !.mode = state.mode]
  /\ \E policy \in Policies, m \in Iterations :
       request' = [policy |-> policy, maxIterations |-> m]
  /\ reply' = NoReply
  /\ UNCHANGED elapsed

Resume ==
  /\ Begins
  /\ next \in Nodes
  /\ reply' \in Replies
  /\ UNCHANGED <<next, state, request, elapsed>>

\* The deadline, a cancellation, a node that raises.
RunStops ==
  /\ run = "active"
  /\ run' = "none"
  /\ UNCHANGED <<next, state, request, steps, ran, elapsed, reply>>

Tick ==
  /\ elapsed' = LesserOf(elapsed + 1, Budget + 1)
  /\ ran' = IF run = "active" THEN LesserOf(ran + 1, Budget) ELSE ran
  /\ <<elapsed, ran>>' # <<elapsed, ran>>
  /\ UNCHANGED <<next, state, request, run, steps, reply>>

\* The checks before and after the node n, and the checkpoint of what it returns.
Superstep(n) ==
  /\ run = "active" /\ next = n
  /\ ran < Budget
  /\ steps < RecursionLimit
  /\ steps' = steps + 1
  /\ UNCHANGED <<request, ran>>

Goes(n) == next' = n /\ run' = run /\ reply' = NoReply
Ends == next' = "__end__" /\ run' = "none" /\ reply' = NoReply

-----------------------------------------------------------------------------
(* The nodes up to the pause *)

Entry ==
  /\ Superstep("entry") /\ Goes("query_normalization")
  /\ elapsed' = 0
  /\ UNCHANGED state

QueryNormalization ==
  /\ Superstep("query_normalization") /\ Goes("routing")
  /\ UNCHANGED <<state, elapsed>>

\* Every router yields one of these modes; the draw branch is never taken.
Routing ==
  /\ Superstep("routing")
  /\ \E mode \in {"rag", "hitl", "direct"} :
       /\ state' = [state EXCEPT !.mode = mode]
       /\ Goes(IF mode = "direct" THEN "chat_answer_generation" ELSE "skill_routing")
  /\ UNCHANGED elapsed

SkillRouting ==
  /\ Superstep("skill_routing") /\ Goes("planning")
  /\ \E skill \in Skills : state' = [state EXCEPT !.skill = skill]
  /\ UNCHANGED elapsed

\* The plan's steps are seeds of the sub-questions, whoever words them.
Planning ==
  /\ Superstep("planning") /\ Goes("sub_question_generation")
  /\ UNCHANGED <<state, elapsed>>

\* A fact question asks for one or two sub-questions, anything else for MinSub
\* to MaxSub; _enforce_sub_question_count fills up from its templates.
SubQuestionCounts(isQuestion) ==
  IF state.skill = "quick_fact_qa" \/ (state.skill = "generic_rag" /\ isQuestion)
  THEN 1 .. LesserOf(MaxSub, 2) ELSE MinSub .. MaxSub

SubQuestionGeneration ==
  /\ Superstep("sub_question_generation") /\ Goes("human_confirmation")
  /\ \E isQuestion \in BOOLEAN : \E n \in SubQuestionCounts(isQuestion) :
       state' = [state EXCEPT !.questions = [n |-> n, by |-> "agent"], !.confirmed = FALSE]
  /\ UNCHANGED elapsed

(* Mutant: an edit may leave no sub-question. *)
EditedBy_Empty(n, who) == [n |-> n, by |-> who]

EditedBy(n, who) == IF n > 0 THEN [n |-> n, by |-> who] ELSE state.questions
Decided(questions, decision) ==
  [state EXCEPT !.questions = questions, !.confirmed = TRUE, !.hitl = decision]

\* What the node returns when it does not pause: a confirmed state passes, a
\* policy decides, or the answer to the interrupt does.
Decides ==
  CASE state.confirmed -> {state}
    [] ~state.confirmed /\ request.policy = "auto_confirm" ->
         {Decided(state.questions, "auto_confirm")}
    [] ~state.confirmed /\ request.policy = "oracle_edit" ->
         {Decided(EditedBy(n, "oracle"), "oracle_edit") : n \in 0 .. MaxEdits}
    [] OTHER ->
         IF reply = NoReply THEN {}
         ELSE {Decided(EditedBy(IF reply.action = "edit" THEN reply.n ELSE 0, "human"),
                       reply.action)}

HumanConfirmation ==
  /\ Superstep("human_confirmation") /\ Goes("retrieve")
  /\ state' \in Decides
  /\ UNCHANGED elapsed

\* interrupt() ends the run; the node stays scheduled.
Pause ==
  /\ Superstep("human_confirmation")
  /\ ~state.confirmed /\ request.policy = "human" /\ reply = NoReply
  /\ run' = "none"
  /\ UNCHANGED <<next, state, elapsed, reply>>

-----------------------------------------------------------------------------
(* The retrieval loop *)

(* Mutants: the limit of the evidence is off by one; or the records start  *)
(* from nothing, as the evidence does.                                     *)
Retrieve_Unlimited ==
  /\ Superstep("retrieve") /\ Goes("evidence_collection")
  /\ \E k \in 0 .. MaxEvidence(state.skill) + 1 :
       state' = [state EXCEPT !.evidence = [items |-> k, good |-> k],
                              !.contexts = IF k > 0 THEN TRUE ELSE @,
                              !.found = @ \/ k > 0]
  /\ UNCHANGED elapsed

Retrieve_NewRecords ==
  /\ Superstep("retrieve") /\ Goes("evidence_collection")
  /\ \E k \in 0 .. MaxEvidence(state.skill) :
       state' = [state EXCEPT !.evidence = [items |-> k, good |-> k],
                              !.contexts = k > 0, !.found = @ \/ k > 0]
  /\ UNCHANGED elapsed

\* The best of what all sub-questions found, each item scored above the
\* threshold until it is judged. It replaces the evidence of the pass before;
\* the records keep the contexts of all passes. "found" is history: some pass
\* of this turn found something.
Retrieve ==
  /\ Superstep("retrieve") /\ Goes("evidence_collection")
  /\ \E k \in 0 .. MaxEvidence(state.skill) :
       state' = [state EXCEPT !.evidence = [items |-> k, good |-> k],
                              !.contexts = IF k > 0 THEN TRUE ELSE @,
                              !.found = @ \/ k > 0]
  /\ UNCHANGED elapsed

(* Mutant: a pass is not counted. *)
EvidenceCollection_Uncounted ==
  /\ Superstep("evidence_collection") /\ Goes("evidence_evaluation")
  /\ UNCHANGED <<state, elapsed>>

EvidenceCollection ==
  /\ Superstep("evidence_collection") /\ Goes("evidence_evaluation")
  /\ state' = [state EXCEPT !.iteration = @ + 1]
  /\ UNCHANGED elapsed

EvidenceEvaluation ==
  /\ Superstep("evidence_evaluation") /\ Goes("coverage_check")
  /\ \E g \in 0 .. state.evidence.items : state' = [state EXCEPT !.evidence.good = g]
  /\ UNCHANGED elapsed

Covered == LesserOf(state.evidence.good, state.questions.n)
Below(covered) == 100 * covered < Threshold * state.questions.n

(* Mutant: refinement goes on without progress. *)
NeedsRefinement_NoProgress ==
  Below(Covered) /\ state.iteration < request.maxIterations

\* coverage and previous_coverage are one field here: each pass compares with
\* what the last one wrote, which was 0.0 before the first.
NeedsRefinement ==
  /\ Below(Covered)
  /\ state.iteration < request.maxIterations
  /\ state.iteration <= 1 \/ Covered > state.coverage

\* coverage_check_node, and should_continue behind it.
CoverageCheck ==
  /\ Superstep("coverage_check")
  /\ state' = [state EXCEPT !.coverage = Covered]
  /\ Goes(IF NeedsRefinement /\ Below(Covered) /\ elapsed <= Budget
            /\ state.iteration < request.maxIterations
          THEN "retrieve" ELSE "candidate_generation")
  /\ UNCHANGED elapsed

-----------------------------------------------------------------------------
(* The answers *)

\* What candidate_generation_with_llm accepts, and what the node passes to it.
CandidateParameters == {"model", "messages", "temperature"}
CandidateArguments == {"model", "messages", "temperature", "timeout"}

\* An argument the task does not know fails the call, which the node catches;
\* without the model's candidates each item of evidence becomes one.
CandidateGeneration ==
  /\ Superstep("candidate_generation") /\ Goes("rag_answer_generation")
  /\ LET calls == state.skill \notin Wide /\ CandidateArguments \subseteq CandidateParameters
     IN  \E source \in {"evidence"} \cup (IF calls THEN {"model"} ELSE {}) :
           state' = IF state.evidence.items = 0 THEN state
                    ELSE [state EXCEPT !.candidates = source]
  /\ UNCHANGED elapsed

RagAnswers ==
  IF state.skill \in Wide /\ state.contexts THEN {"grounded", "excerpt"}
  ELSE IF state.candidates # "none" THEN {"candidate"} ELSE {"insufficient"}

AnswerGeneration ==
  /\ Superstep("rag_answer_generation") /\ Ends
  /\ \E answer \in RagAnswers : state' = [state EXCEPT !.answer = answer]
  /\ UNCHANGED elapsed

ChatAnswerGeneration ==
  /\ Superstep("chat_answer_generation") /\ Ends
  /\ \E answer \in {"chat", "apology"} : state' = [state EXCEPT !.answer = answer]
  /\ UNCHANGED elapsed

-----------------------------------------------------------------------------
NodeStep ==
  \/ Entry \/ QueryNormalization \/ Routing \/ SkillRouting \/ Planning
  \/ SubQuestionGeneration \/ HumanConfirmation \/ Pause
  \/ Retrieve \/ EvidenceCollection \/ EvidenceEvaluation \/ CoverageCheck
  \/ CandidateGeneration \/ AnswerGeneration \/ ChatAnswerGeneration

Next == Start \/ Resume \/ RunStops \/ Tick \/ NodeStep

Spec == Init /\ [][Next]_vars

\* The pool's thread goes on executing the nodes of a run, and a run whose
\* deadline has passed is stopped; the clock and the user owe nothing.
FairSpec == Spec /\ WF_vars(NodeStep) /\ WF_vars(ran = Budget /\ RunStops)

-----------------------------------------------------------------------------
(* Properties *)

Authors == {"none", "agent", "human", "oracle"}
Decisions == {"none", "auto_confirm", "oracle_edit", "confirm", "edit"}

AgentState ==
  [mode : {"none", "rag", "hitl", "direct"}, skill : Skills \cup {"none"},
  questions : [n : Nat, by : Authors], confirmed : BOOLEAN,
  hitl : Decisions, evidence : [items : Nat, good : Nat],
  contexts : BOOLEAN, found : BOOLEAN, iteration : Nat, coverage : Nat,
  candidates : {"none", "evidence", "model"},
  answer : {"none", "grounded", "excerpt", "candidate", "insufficient",
            "chat", "apology"}]

TypeOK ==
  /\ next \in Nodes \cup {"__end__"}
  /\ state \in AgentState
  /\ state.evidence.good <= state.evidence.items
  /\ state.evidence.items <= MostEvidence
  /\ request \in [policy : Policies, maxIterations : Nat]
  /\ run \in {"none", "active"}
  /\ steps \in Nat /\ ran \in 0 .. Budget /\ elapsed \in 0 .. Budget + 1
  /\ reply \in Replies \cup {NoReply}

\* Nothing is searched before the turn's own sub-questions are decided on, by
\* the human unless the request says otherwise; and what is searched is the
\* list that decision left, never an empty one. Stops, resumes in the middle
\* of the graph and new turns on the same thread change nothing about it.
SearchesWhatWasDecided ==
  next \in LoopNodes \cup AnswerNodes =>
    /\ state.questions.n > 0
    /\ request.policy = "human" => state.hitl \in {"confirm", "edit"}
    /\ state.questions.by = "human" => state.hitl = "edit"
    /\ state.questions.by = "oracle" => request.policy = "oracle_edit"

\* However large max_iterations is, refinement ends by itself: from the second
\* pass on each must cover more than the last, and evidence is limited.
RefinementIsBounded == state.iteration <= MostEvidence + 2

\* So no run of the graph exhausts its recursion limit.
NeverExhausted == run = "active" /\ next # "__end__" => steps < RecursionLimit

\* What the answer rests on. It says that the evidence is insufficient only when
\* the last pass found nothing, whatever the model calls of candidates and
\* answer did; and a fact question (answered from the records of all passes)
\* says so only when no pass found anything. With any other skill what an
\* earlier pass found is replaced by the evidence of the last one, and lost.
EvidenceIsUsed ==
  state.answer = "insufficient" =>
    /\ state.evidence.items = 0
    /\ state.skill \in Wide => ~state.found

\* A run ends: paused, answered or stopped, without help of the clock.
RunsEnd == run = "active" ~> run = "none"

=============================================================================
