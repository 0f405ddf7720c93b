-------------------------- MODULE AgentGraphProofs --------------------------
(***************************************************************************)
(* Proofs about AgentGraph: what is searched was decided on, the loop of   *)
(* retrieval ends by itself and within the graph's recursion limit, and    *)
(* evidence that was found reaches the answer.                             *)
(***************************************************************************)
EXTENDS AgentGraph, TLAPS

-----------------------------------------------------------------------------
(* The inductive invariant *)

Early == {"entry", "query_normalization", "routing", "chat_answer_generation"} \cup RagNodes

(* A run stands at a node of a turn that was started, and has no answer.   *)
TurnInv ==
  /\ run = "active" => next \in Nodes
  /\ next \in Nodes => request.maxIterations \in Iterations /\ state.answer = "none"

(* The list that waits for its decision is the agent's, and not confirmed. *)
DecisionInv ==
  /\ next = "human_confirmation" =>
       state.questions.n > 0 /\ state.questions.by = "agent" /\ ~state.confirmed
  /\ SearchesWhatWasDecided

(* Each pass but the first two has raised the coverage, which no pass can   *)
(* raise above the evidence there may be.                                  *)
PassInv ==
  /\ state.coverage <= MostEvidence
  /\ next \in Early => state.iteration = 0
  /\ next \in {"retrieve", "evidence_collection"} =>
       state.iteration < request.maxIterations /\ state.iteration <= state.coverage + 1
  /\ next \in {"evidence_evaluation", "coverage_check"} =>
       state.iteration <= state.coverage + 2
  /\ next \in Nodes => state.iteration <= request.maxIterations
  /\ RefinementIsBounded

(* A run has made at most the supersteps of the straight way to its node,  *)
(* and four for each pass.                                                 *)
StepBound ==
  /\ next = "entry" => steps <= 0
  /\ next = "query_normalization" => steps <= 1
  /\ next = "routing" => steps <= 2
  /\ next \in {"skill_routing", "chat_answer_generation"} => steps <= 3
  /\ next = "planning" => steps <= 4
  /\ next = "sub_question_generation" => steps <= 5
  /\ next = "human_confirmation" => steps <= 6
  /\ next = "retrieve" => steps <= 7 + 4 * state.iteration
  /\ next = "evidence_collection" => steps <= 8 + 4 * state.iteration
  /\ next = "evidence_evaluation" => steps <= 5 + 4 * state.iteration
  /\ next = "coverage_check" => steps <= 6 + 4 * state.iteration
  /\ next = "candidate_generation" => steps <= 7 + 4 * state.iteration
  /\ next = "rag_answer_generation" => steps <= 8 + 4 * state.iteration

(* Evidence has become a candidate before the answer is written, and what  *)
(* any pass found is in the records.                                       *)
EvidenceInv ==
  /\ state.found => state.contexts
  /\ next = "rag_answer_generation" /\ state.evidence.items > 0 => state.candidates # "none"
  /\ EvidenceIsUsed

IInv == TypeOK /\ TurnInv /\ DecisionInv /\ PassInv /\ (run = "active" => StepBound) /\ EvidenceInv

USE DEF Nodes, RagNodes, LoopNodes, AnswerNodes

-----------------------------------------------------------------------------
(* Facts about the helpers *)

LEMMA Extremes ==
  ASSUME NEW a \in Int, NEW b \in Int
  PROVE  /\ LargerOf(a, b) \in {a, b} /\ LargerOf(a, b) >= a /\ LargerOf(a, b) >= b
         /\ LesserOf(a, b) \in {a, b} /\ LesserOf(a, b) <= a /\ LesserOf(a, b) <= b
BY DEF LargerOf, LesserOf

LEMMA Limits ==
  /\ MostEvidence \in Nat
  /\ \A skill : MaxEvidence(skill) \in Nat /\ MaxEvidence(skill) <= MostEvidence
BY GraphAssumption DEF MostEvidence, MaxEvidence, LargerOf

(* A list the agent writes is never empty.                                 *)
LEMMA Counts ==
  ASSUME NEW isQuestion \in BOOLEAN, NEW n \in SubQuestionCounts(isQuestion)
  PROVE  n \in Nat /\ n > 0
BY GraphAssumption DEF SubQuestionCounts, LesserOf

LEMMA CoveredType == TypeOK => Covered \in Nat /\ Covered <= MostEvidence
<1> SUFFICES ASSUME TypeOK PROVE Covered \in Nat /\ Covered <= MostEvidence
  OBVIOUS
<1>1. /\ state.evidence.good \in Nat /\ state.questions.n \in Nat
      /\ state.evidence.good <= MostEvidence
  BY Limits DEF TypeOK, AgentState
<1> QED
  BY <1>1, Limits, Extremes DEF Covered

(* Passing human_confirmation leaves the list as it was, or decides on one  *)
(* that is not empty unless the agent's was, and says who decided.         *)
LEMMA DecisionCases ==
  ASSUME TypeOK, HumanConfirmation
  PROVE  \/ state.confirmed /\ state' = state
         \/ \E q \in [n : Nat, by : Authors], d \in Decisions \ {"none"} :
              /\ ~state.confirmed
              /\ state' = [state EXCEPT !.questions = q, !.confirmed = TRUE, !.hitl = d]
              /\ state.questions.n > 0 => q.n > 0
              /\ request.policy = "human" => d \in {"confirm", "edit"}
              /\ \/ q.by = state.questions.by
                 \/ q.by = "human" /\ d = "edit"
                 \/ q.by = "oracle" /\ request.policy = "oracle_edit"
<1> USE DEF Decided, Authors, Decisions
<1>q. /\ state.questions \in [n : Nat, by : Authors] /\ state.confirmed \in BOOLEAN
      /\ request.policy \in Policies /\ reply \in Replies \cup {NoReply}
      /\ MaxEdits \in Nat /\ state' \in Decides
  BY GraphAssumption DEF TypeOK, AgentState, HumanConfirmation
<1>e. ASSUME NEW n \in Nat, NEW who \in Authors
      PROVE  /\ EditedBy(n, who) \in [n : Nat, by : Authors]
             /\ state.questions.n > 0 => EditedBy(n, who).n > 0
             /\ EditedBy(n, who).by \in {who, state.questions.by}
             /\ n = 0 => EditedBy(n, who).by = state.questions.by
  BY <1>q DEF EditedBy
<1>1. CASE state.confirmed
  BY <1>1, <1>q DEF Decides
<1>2. CASE ~state.confirmed /\ request.policy = "auto_confirm"
  <2>1. state' = Decided(state.questions, "auto_confirm")
    BY <1>2, <1>q DEF Decides
  <2> QED
    BY <1>2, <1>q, <2>1
<1>3. CASE ~state.confirmed /\ request.policy = "oracle_edit"
  <2>1. PICK n \in 0 .. MaxEdits : state' = Decided(EditedBy(n, "oracle"), "oracle_edit")
    BY <1>3, <1>q DEF Decides
  <2>2. n \in Nat
    BY <1>q, <2>1
  <2> QED
    BY <1>3, <1>e, <2>1, <2>2
<1>4. CASE ~state.confirmed /\ request.policy = "human"
  <2> DEFINE n == IF reply.action = "edit" THEN reply.n ELSE 0
  <2>1. reply \in Replies /\ state' = Decided(EditedBy(n, "human"), reply.action)
    BY <1>4, <1>q DEF Decides
  <2>2. n \in Nat /\ reply.action \in {"confirm", "edit"} /\ (reply.action = "confirm" => n = 0)
    BY <1>q, <2>1 DEF Replies
  <2> HIDE DEF n
  <2> QED
    BY <1>4, <1>e, <2>1, <2>2
<1> QED
  BY <1>1, <1>2, <1>3, <1>4, <1>q DEF Policies

LEMMA InitInv == Init => IInv
<1> SUFFICES ASSUME Init PROVE IInv
  OBVIOUS
<1>1. TypeOK
  BY GraphAssumption, Limits DEF Init, TypeOK, AgentState, Fresh, NoEvidence, NoReply, Policies, Authors, Decisions
<1> QED
  BY <1>1, Limits DEF Init, IInv, TurnInv, DecisionInv, PassInv, EvidenceInv, Early, Fresh, NoEvidence,
     SearchesWhatWasDecided, RefinementIsBounded, EvidenceIsUsed

-----------------------------------------------------------------------------
(* One step, part by part *)

LEMMA TypeStep == TypeOK /\ [Next]_vars => TypeOK'
<1> SUFFICES ASSUME TypeOK, [Next]_vars PROVE TypeOK'
  OBVIOUS
<1> USE DEF TypeOK, AgentState, Policies, Authors, Decisions, NoReply, Replies
<1>1. CASE Start
  <2>1. state.mode \in {"none", "rag", "hitl", "direct"}
    OBVIOUS
  <2>2. /\ state'.evidence.good <= state'.evidence.items
        /\ state'.evidence.items <= MostEvidence
    BY <1>1, <2>1, Limits DEF Start, Fresh, NoEvidence
  <2>3. request' \in [policy : Policies, maxIterations : Nat]
    BY <1>1, GraphAssumption DEF Start
  <2>4. state' \in AgentState
    BY <1>1, <2>1 DEF Start, Fresh, NoEvidence, AgentState
  <2> QED
    BY <1>1, <2>2, <2>3, <2>4, GraphAssumption DEF Start, Begins
<1>2. CASE Resume
  BY <1>2, GraphAssumption DEF Resume, Begins
<1>3. CASE RunStops
  BY <1>3, GraphAssumption DEF RunStops
<1>4. CASE Tick
  BY <1>4, GraphAssumption DEF Tick, LesserOf
<1>5. CASE Entry
  BY <1>5, GraphAssumption DEF Entry, Superstep, Goes
<1>6. CASE QueryNormalization
  BY <1>6, GraphAssumption DEF QueryNormalization, Superstep, Goes
<1>7. CASE Routing
  BY <1>7, GraphAssumption DEF Routing, Superstep, Goes
<1>8. CASE SkillRouting
  BY <1>8, GraphAssumption DEF SkillRouting, Superstep, Goes
<1>9. CASE Planning
  BY <1>9, GraphAssumption DEF Planning, Superstep, Goes
<1>10. CASE SubQuestionGeneration
  <2>1. PICK q \in [n : Nat, by : Authors] :
          state' = [state EXCEPT !.questions = q, !.confirmed = FALSE]
    BY <1>10, Counts DEF SubQuestionGeneration
  <2>2. state' \in AgentState /\ state'.evidence = state.evidence
    BY <2>1
  <2> HIDE DEF AgentState
  <2> QED
    BY <1>10, <2>2, GraphAssumption DEF SubQuestionGeneration, Superstep, Goes
<1>11. CASE HumanConfirmation
  <2>1. CASE state' = state
    BY <1>11, <2>1, GraphAssumption DEF HumanConfirmation, Superstep, Goes
  <2>2. CASE state' # state
    <3>1. PICK q \in [n : Nat, by : Authors], d \in Decisions \ {"none"} :
            state' = [state EXCEPT !.questions = q, !.confirmed = TRUE, !.hitl = d]
      <4> HIDE DEF TypeOK, Authors, Decisions
      <4> QED
        BY <1>11, <2>2, DecisionCases
    <3>2. state' \in AgentState /\ state'.evidence = state.evidence
      BY <3>1
    <3> HIDE DEF AgentState
    <3> QED
      BY <1>11, <3>2, GraphAssumption DEF HumanConfirmation, Superstep, Goes
  <2> QED
    BY <2>1, <2>2
<1>12. CASE Pause
  BY <1>12, GraphAssumption DEF Pause, Superstep
<1>13. CASE Retrieve
  <2>1. PICK k \in 0 .. MaxEvidence(state.skill) :
          state' = [state EXCEPT !.evidence = [items |-> k, good |-> k],
                                 !.contexts = IF k > 0 THEN TRUE ELSE @,
                                 !.found = @ \/ k > 0]
    BY <1>13 DEF Retrieve
  <2>2. k \in Nat /\ k <= MostEvidence
    BY <2>1, Limits
  <2>3. state'.evidence = [items |-> k, good |-> k]
    BY <2>1
  <2>4. (IF k > 0 THEN TRUE ELSE state.contexts) \in BOOLEAN /\ (state.found \/ k > 0) \in BOOLEAN
    OBVIOUS
  <2>5. state' \in AgentState
    BY <2>1, <2>2, <2>4, ZenonT(30)
  <2> HIDE DEF AgentState
  <2> QED
    BY <1>13, <2>2, <2>3, <2>5, GraphAssumption DEF Retrieve, Superstep, Goes
<1>14. CASE EvidenceCollection
  BY <1>14, GraphAssumption DEF EvidenceCollection, Superstep, Goes
<1>15. CASE EvidenceEvaluation
  BY <1>15, Limits, GraphAssumption DEF EvidenceEvaluation, Superstep, Goes
<1>16. CASE CoverageCheck
  BY <1>16, CoveredType, GraphAssumption DEF CoverageCheck, Superstep, Goes
<1>17. CASE CandidateGeneration
  BY <1>17, GraphAssumption DEF CandidateGeneration, Superstep, Goes
<1>18. CASE AnswerGeneration
  BY <1>18, GraphAssumption DEF AnswerGeneration, Superstep, Ends, RagAnswers
<1>19. CASE ChatAnswerGeneration
  BY <1>19, GraphAssumption DEF ChatAnswerGeneration, Superstep, Ends
<1>20. CASE UNCHANGED vars
  BY <1>20 DEF vars
<1> QED
  BY <1>1, <1>2, <1>3, <1>4, <1>5, <1>6, <1>7, <1>8, <1>9, <1>10, <1>11, <1>12, <1>13, <1>14, <1>15, <1>16, <1>17, <1>18, <1>19, <1>20 DEF Next, NodeStep

LEMMA TurnStep == TypeOK /\ TurnInv /\ [Next]_vars => TurnInv'
<1> SUFFICES ASSUME TypeOK /\ TurnInv, [Next]_vars PROVE TurnInv'
  OBVIOUS
<1> USE DEF TypeOK, AgentState, TurnInv
<1>1. CASE Start
  BY <1>1 DEF Start, Begins, Fresh
<1>2. CASE Resume
  BY <1>2 DEF Resume, Begins
<1>3. CASE RunStops
  BY <1>3 DEF RunStops
<1>4. CASE Tick
  BY <1>4 DEF Tick
<1>5. CASE Entry
  BY <1>5 DEF Entry, Superstep, Goes
<1>6. CASE QueryNormalization
  BY <1>6 DEF QueryNormalization, Superstep, Goes
<1>7. CASE Routing
  BY <1>7 DEF Routing, Superstep, Goes
<1>8. CASE SkillRouting
  BY <1>8 DEF SkillRouting, Superstep, Goes
<1>9. CASE Planning
  BY <1>9 DEF Planning, Superstep, Goes
<1>10. CASE SubQuestionGeneration
  BY <1>10 DEF SubQuestionGeneration, Superstep, Goes
<1>11. CASE HumanConfirmation
  BY <1>11, DecisionCases, ZenonT(30) DEF HumanConfirmation, Superstep, Goes, Authors, Decisions
<1>12. CASE Pause
  BY <1>12 DEF Pause, Superstep
<1>13. CASE Retrieve
  BY <1>13 DEF Retrieve, Superstep, Goes
<1>14. CASE EvidenceCollection
  BY <1>14 DEF EvidenceCollection, Superstep, Goes
<1>15. CASE EvidenceEvaluation
  BY <1>15 DEF EvidenceEvaluation, Superstep, Goes
<1>16. CASE CoverageCheck
  BY <1>16 DEF CoverageCheck, Superstep, Goes
<1>17. CASE CandidateGeneration
  BY <1>17 DEF CandidateGeneration, Superstep, Goes
<1>18. CASE AnswerGeneration
  BY <1>18 DEF AnswerGeneration, Superstep, Ends
<1>19. CASE ChatAnswerGeneration
  BY <1>19 DEF ChatAnswerGeneration, Superstep, Ends
<1>20. CASE UNCHANGED vars
  BY <1>20 DEF vars
<1> QED
  BY <1>1, <1>2, <1>3, <1>4, <1>5, <1>6, <1>7, <1>8, <1>9, <1>10, <1>11, <1>12, <1>13, <1>14, <1>15, <1>16, <1>17, <1>18, <1>19, <1>20 DEF Next, NodeStep

LEMMA DecisionStep == TypeOK /\ DecisionInv /\ [Next]_vars => DecisionInv'
<1> SUFFICES ASSUME TypeOK /\ DecisionInv, [Next]_vars PROVE DecisionInv'
  OBVIOUS
<1> USE DEF TypeOK, AgentState, DecisionInv, SearchesWhatWasDecided
<1>1. CASE Start
  BY <1>1 DEF Start, Begins, Fresh
<1>2. CASE Resume
  BY <1>2 DEF Resume, Begins
<1>3. CASE RunStops
  BY <1>3 DEF RunStops
<1>4. CASE Tick
  BY <1>4 DEF Tick
<1>5. CASE Entry
  BY <1>5 DEF Entry, Superstep, Goes
<1>6. CASE QueryNormalization
  BY <1>6 DEF QueryNormalization, Superstep, Goes
<1>7. CASE Routing
  BY <1>7 DEF Routing, Superstep, Goes
<1>8. CASE SkillRouting
  BY <1>8 DEF SkillRouting, Superstep, Goes
<1>9. CASE Planning
  BY <1>9 DEF Planning, Superstep, Goes
<1>10. CASE SubQuestionGeneration
  BY <1>10, Counts DEF SubQuestionGeneration, Superstep, Goes
<1>11. CASE HumanConfirmation
  BY <1>11, DecisionCases, ZenonT(30) DEF HumanConfirmation, Superstep, Goes, Authors, Decisions
<1>12. CASE Pause
  BY <1>12 DEF Pause, Superstep
<1>13. CASE Retrieve
  BY <1>13 DEF Retrieve, Superstep, Goes
<1>14. CASE EvidenceCollection
  BY <1>14 DEF EvidenceCollection, Superstep, Goes
<1>15. CASE EvidenceEvaluation
  BY <1>15 DEF EvidenceEvaluation, Superstep, Goes
<1>16. CASE CoverageCheck
  BY <1>16 DEF CoverageCheck, Superstep, Goes
<1>17. CASE CandidateGeneration
  BY <1>17 DEF CandidateGeneration, Superstep, Goes
<1>18. CASE AnswerGeneration
  BY <1>18 DEF AnswerGeneration, Superstep, Ends
<1>19. CASE ChatAnswerGeneration
  BY <1>19 DEF ChatAnswerGeneration, Superstep, Ends
<1>20. CASE UNCHANGED vars
  BY <1>20 DEF vars
<1> QED
  BY <1>1, <1>2, <1>3, <1>4, <1>5, <1>6, <1>7, <1>8, <1>9, <1>10, <1>11, <1>12, <1>13, <1>14, <1>15, <1>16, <1>17, <1>18, <1>19, <1>20 DEF Next, NodeStep

LEMMA PassStep == TypeOK /\ TurnInv /\ PassInv /\ [Next]_vars => PassInv'
<1> SUFFICES ASSUME TypeOK /\ TurnInv /\ PassInv, [Next]_vars PROVE PassInv'
  OBVIOUS
<1> USE DEF TypeOK, AgentState, TurnInv, PassInv, RefinementIsBounded, Early
<1>1. CASE Start
  BY <1>1, GraphAssumption, Limits DEF Start, Begins, Fresh
<1>2. CASE Resume
  BY <1>2, GraphAssumption, Limits DEF Resume, Begins
<1>3. CASE RunStops
  BY <1>3, GraphAssumption, Limits DEF RunStops
<1>4. CASE Tick
  BY <1>4, GraphAssumption, Limits DEF Tick
<1>5. CASE Entry
  BY <1>5, GraphAssumption, Limits DEF Entry, Superstep, Goes
<1>6. CASE QueryNormalization
  BY <1>6, GraphAssumption, Limits DEF QueryNormalization, Superstep, Goes
<1>7. CASE Routing
  BY <1>7, GraphAssumption, Limits DEF Routing, Superstep, Goes
<1>8. CASE SkillRouting
  BY <1>8, GraphAssumption, Limits DEF SkillRouting, Superstep, Goes
<1>9. CASE Planning
  BY <1>9, GraphAssumption, Limits DEF Planning, Superstep, Goes
<1>10. CASE SubQuestionGeneration
  BY <1>10, GraphAssumption, Limits DEF SubQuestionGeneration, Superstep, Goes
<1>11. CASE HumanConfirmation
  <2>1. state'.iteration = state.iteration /\ state'.coverage = state.coverage
    BY <1>11, DecisionCases
  <2> QED
    BY <1>11, <2>1, GraphAssumption DEF HumanConfirmation, Superstep, Goes
<1>12. CASE Pause
  BY <1>12, GraphAssumption, Limits DEF Pause, Superstep
<1>13. CASE Retrieve
  BY <1>13, GraphAssumption, Limits DEF Retrieve, Superstep, Goes
<1>14. CASE EvidenceCollection
  BY <1>14, GraphAssumption, Limits DEF EvidenceCollection, Superstep, Goes
<1>15. CASE EvidenceEvaluation
  BY <1>15, GraphAssumption, Limits DEF EvidenceEvaluation, Superstep, Goes
<1>16. CASE CoverageCheck
  BY <1>16, CoveredType, GraphAssumption, Limits DEF CoverageCheck, Superstep, Goes, NeedsRefinement
<1>17. CASE CandidateGeneration
  BY <1>17, GraphAssumption, Limits DEF CandidateGeneration, Superstep, Goes
<1>18. CASE AnswerGeneration
  BY <1>18, GraphAssumption, Limits DEF AnswerGeneration, Superstep, Ends
<1>19. CASE ChatAnswerGeneration
  BY <1>19, GraphAssumption, Limits DEF ChatAnswerGeneration, Superstep, Ends
<1>20. CASE UNCHANGED vars
  BY <1>20 DEF vars
<1> QED
  BY <1>1, <1>2, <1>3, <1>4, <1>5, <1>6, <1>7, <1>8, <1>9, <1>10, <1>11, <1>12, <1>13, <1>14, <1>15, <1>16, <1>17, <1>18, <1>19, <1>20 DEF Next, NodeStep

LEMMA BoundStep == TypeOK /\ PassInv /\ (run = "active" => StepBound) /\ [Next]_vars => (run = "active" => StepBound)'
<1> SUFFICES ASSUME TypeOK /\ PassInv /\ (run = "active" => StepBound), [Next]_vars PROVE (run = "active" => StepBound)'
  OBVIOUS
<1> USE DEF TypeOK, AgentState, PassInv, StepBound, Early
<1>1. CASE Start
  BY <1>1 DEF Start, Begins, Fresh
<1>2. CASE Resume
  BY <1>2 DEF Resume, Begins
<1>3. CASE RunStops
  BY <1>3 DEF RunStops
<1>4. CASE Tick
  BY <1>4 DEF Tick
<1>5. CASE Entry
  BY <1>5 DEF Entry, Superstep, Goes
<1>6. CASE QueryNormalization
  BY <1>6 DEF QueryNormalization, Superstep, Goes
<1>7. CASE Routing
  BY <1>7 DEF Routing, Superstep, Goes
<1>8. CASE SkillRouting
  BY <1>8 DEF SkillRouting, Superstep, Goes
<1>9. CASE Planning
  BY <1>9 DEF Planning, Superstep, Goes
<1>10. CASE SubQuestionGeneration
  BY <1>10 DEF SubQuestionGeneration, Superstep, Goes
<1>11. CASE HumanConfirmation
  <2>1. state'.iteration = state.iteration /\ state'.coverage = state.coverage
    BY <1>11, DecisionCases
  <2> QED
    BY <1>11, <2>1 DEF HumanConfirmation, Superstep, Goes
<1>12. CASE Pause
  BY <1>12 DEF Pause, Superstep
<1>13. CASE Retrieve
  BY <1>13 DEF Retrieve, Superstep, Goes
<1>14. CASE EvidenceCollection
  BY <1>14 DEF EvidenceCollection, Superstep, Goes
<1>15. CASE EvidenceEvaluation
  BY <1>15 DEF EvidenceEvaluation, Superstep, Goes
<1>16. CASE CoverageCheck
  BY <1>16 DEF CoverageCheck, Superstep, Goes
<1>17. CASE CandidateGeneration
  BY <1>17 DEF CandidateGeneration, Superstep, Goes
<1>18. CASE AnswerGeneration
  BY <1>18 DEF AnswerGeneration, Superstep, Ends
<1>19. CASE ChatAnswerGeneration
  BY <1>19 DEF ChatAnswerGeneration, Superstep, Ends
<1>20. CASE UNCHANGED vars
  BY <1>20 DEF vars
<1> QED
  BY <1>1, <1>2, <1>3, <1>4, <1>5, <1>6, <1>7, <1>8, <1>9, <1>10, <1>11, <1>12, <1>13, <1>14, <1>15, <1>16, <1>17, <1>18, <1>19, <1>20 DEF Next, NodeStep

LEMMA EvidenceStep == TypeOK /\ TurnInv /\ EvidenceInv /\ [Next]_vars => EvidenceInv'
<1> SUFFICES ASSUME TypeOK /\ TurnInv /\ EvidenceInv, [Next]_vars PROVE EvidenceInv'
  OBVIOUS
<1> USE DEF TypeOK, AgentState, TurnInv, EvidenceInv, EvidenceIsUsed
<1>1. CASE Start
  BY <1>1 DEF Start, Begins, Fresh, NoEvidence
<1>2. CASE Resume
  BY <1>2 DEF Resume, Begins
<1>3. CASE RunStops
  BY <1>3 DEF RunStops
<1>4. CASE Tick
  BY <1>4 DEF Tick
<1>5. CASE Entry
  BY <1>5 DEF Entry, Superstep, Goes
<1>6. CASE QueryNormalization
  BY <1>6 DEF QueryNormalization, Superstep, Goes
<1>7. CASE Routing
  BY <1>7 DEF Routing, Superstep, Goes
<1>8. CASE SkillRouting
  BY <1>8 DEF SkillRouting, Superstep, Goes
<1>9. CASE Planning
  BY <1>9 DEF Planning, Superstep, Goes
<1>10. CASE SubQuestionGeneration
  BY <1>10 DEF SubQuestionGeneration, Superstep, Goes
<1>11. CASE HumanConfirmation
  BY <1>11, DecisionCases, ZenonT(30) DEF HumanConfirmation, Superstep, Goes, Authors, Decisions
<1>12. CASE Pause
  BY <1>12 DEF Pause, Superstep
<1>13. CASE Retrieve
  BY <1>13 DEF Retrieve, Superstep, Goes
<1>14. CASE EvidenceCollection
  BY <1>14 DEF EvidenceCollection, Superstep, Goes
<1>15. CASE EvidenceEvaluation
  BY <1>15 DEF EvidenceEvaluation, Superstep, Goes
<1>16. CASE CoverageCheck
  BY <1>16 DEF CoverageCheck, Superstep, Goes
<1>17. CASE CandidateGeneration
  BY <1>17 DEF CandidateGeneration, Superstep, Goes
<1>18. CASE AnswerGeneration
  BY <1>18 DEF AnswerGeneration, Superstep, Ends, RagAnswers
<1>19. CASE ChatAnswerGeneration
  BY <1>19 DEF ChatAnswerGeneration, Superstep, Ends
<1>20. CASE UNCHANGED vars
  BY <1>20 DEF vars
<1> QED
  BY <1>1, <1>2, <1>3, <1>4, <1>5, <1>6, <1>7, <1>8, <1>9, <1>10, <1>11, <1>12, <1>13, <1>14, <1>15, <1>16, <1>17, <1>18, <1>19, <1>20 DEF Next, NodeStep

-----------------------------------------------------------------------------
LEMMA StepInv == IInv /\ [Next]_vars => IInv'
BY TypeStep, TurnStep, DecisionStep, PassStep, BoundStep, EvidenceStep DEF IInv

LEMMA Invariance == Spec => []IInv
BY InitInv, StepInv, PTL DEF Spec

(* The state of a thread stays what the nodes' annotations promise.        *)
THEOREM TypeCorrect == Spec => []TypeOK
<1>1. IInv => TypeOK
  BY DEF IInv
<1> QED
  BY <1>1, Invariance, PTL

(* No search runs on sub-questions nobody decided on (human_confirmation_node). *)
THEOREM OnlyDecidedSearches == Spec => []SearchesWhatWasDecided
<1>1. IInv => SearchesWhatWasDecided
  BY DEF IInv, DecisionInv
<1> QED
  BY <1>1, Invariance, PTL

(* coverage_check_node bounds its own loop, whatever max_iterations is.    *)
THEOREM RefinementBound == Spec => []RefinementIsBounded
<1>1. IInv => RefinementIsBounded
  BY DEF IInv, PassInv
<1> QED
  BY <1>1, Invariance, PTL

(* The recursion limit of stream_utils is never what ends a run.           *)
THEOREM LimitUnreached == Spec => []NeverExhausted
<1>1. IInv => NeverExhausted
  <2> SUFFICES ASSUME IInv, run = "active", next # "__end__" PROVE steps < RecursionLimit
    BY DEF NeverExhausted
  <2>1. /\ next \in Nodes /\ request.maxIterations \in Iterations
        /\ steps \in Nat /\ state.iteration \in Nat /\ state.iteration <= request.maxIterations
    BY DEF IInv, TypeOK, AgentState, TurnInv, PassInv
  <2>2. /\ request.maxIterations \in Nat /\ RecursionLimit \in Nat
        /\ RecursionLimit > 8 + 4 * request.maxIterations
    BY <2>1, GraphAssumption
  <2>3. steps <= 8 + 4 * state.iteration
    BY <2>1 DEF IInv, StepBound
  <2> QED
    BY <2>1, <2>2, <2>3
<1> QED
  BY <1>1, Invariance, PTL

(* rag_answer_generation_node never denies the evidence of the last pass,  *)
(* nor, for a fact question, what any pass of the turn found.              *)
THEOREM EvidenceReachesAnswer == Spec => []EvidenceIsUsed
<1>1. IInv => EvidenceIsUsed
  BY DEF IInv, EvidenceInv
<1> QED
  BY <1>1, Invariance, PTL
=============================================================================
