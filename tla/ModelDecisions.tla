--------------------------- MODULE ModelDecisions ---------------------------
(* What is decided for a query before it is searched, and how the evidence   *)
(* is judged afterwards: the route (router.py), the skill (skill_router.py), *)
(* the plan (planner.py) and the scores (evidence_evaluator.py).  In each a  *)
(* model may be asked, and a rule of the code decides where it does not      *)
(* help.  Confidences and scores are thousandths, or hundredths of evidence. *)
EXTENDS Integers, Sequences, SequencesExt, FiniteSetsExt

CONSTANTS
  Clients,          \* threads that carry a query through these nodes
  Inquiries,        \* [blank, question, asks |-> flags, triggers |-> hits of each skill]
  Opinions,         \* confidences a model may state
  RouterThreshold,  \* ROUTER_CONFIDENCE_THRESHOLD
  CircuitSeconds,   \* ROUTER_CIRCUIT_BREAKER_SECONDS
  FallbackMode,     \* ROUTER_FALLBACK_MODE
  FallbackSkill,    \* SKILL_ROUTER_FALLBACK_SKILL
  RuleThreshold,    \* SKILL_ROUTER_RULE_THRESHOLD
  SkillThreshold,   \* SKILL_ROUTER_CONFIDENCE_THRESHOLD
  FactBoost,        \* SKILL_ROUTER_FACT_QUESTION_BOOST
  UseLlm,           \* SKILL_ROUTER_USE_LLM
  PlanSteps,        \* PLANNER_MAX_STEPS
  Batches,          \* sequences of evidence, [score, overlap, substance] each
  Supports,         \* what the judge may say of an item
  JudgeMaxDocs      \* EVIDENCE_EVAL_MAX_DOCS

ASSUME DecisionAssumption ==
  /\ FallbackMode \in {"rag", "direct", "hitl"}
  /\ CircuitSeconds \in Nat /\ PlanSteps \in Nat \ {0} /\ JudgeMaxDocs \in Nat \ {0}
  /\ RuleThreshold \in Nat /\ SkillThreshold \in Nat /\ FactBoost \in Nat
  /\ Opinions \subseteq Nat /\ RouterThreshold \in Nat
  /\ \A q \in Inquiries : q.blank \in BOOLEAN /\ q.question \in BOOLEAN /\ q.triggers \in [1..4 -> Nat]
  /\ \A items \in Batches : items \in Seq(ToSet(items))

VARIABLES
  inquiry,    \* the query of each client
  progress,      \* new, asking, completing, routed, weighing, chosen or planned; stopped or failed
  circuit,    \* seconds until the router's model is asked again
  decision,   \* the route of each client
  said,       \* what a model has answered last
  choice,     \* the skill of each client
  plan,       \* the plan of each client
  judged,     \* the evidence that is judged
  verdicts,   \* what the judge has answered
  scores,     \* the quality of each item, once it is known
  scale       \* "none", "llm_judge" or "heuristic"

decideVars == <<inquiry, progress, circuit, decision, said, choice, plan>>
judgeVars == <<judged, verdicts, scores, scale>>

Modes == {"rag", "direct", "hitl"}
DefaultSkill == "generic_rag"
SKILLS == <<"software_compare", "architecture_design", "implementation_guidance", "quick_fact_qa", DefaultSkill>>
Triggers == <<11, 10, 10, 6, 0>>
Template == <<"compare", "architecture", "implementation", "qa", "default">>
Profile == <<"deep", "deep", "balanced", "fast", "balanced">>
TemplateSteps(template) == CASE template = "qa" -> 1 [] template = "default" -> 2 [] OTHER -> 3

SkillNo(skill) == CHOOSE n \in DOMAIN SKILLS : SKILLS[n] = skill
GetSkill(id) == IF id \in ToSet(SKILLS) THEN id ELSE DefaultSkill

NoDecision == [mode |-> "none", why |-> "none"]
Nothing == [of |-> "none", confidence |-> 0]
NoChoice == [skill |-> "none", confidence |-> 0, candidates |-> <<>>, why |-> "none"]
NoPlan == [template |-> "none", profile |-> "none", steps |-> 0]

DecideInit ==
  /\ inquiry \in [Clients -> Inquiries]
  /\ progress = [c \in Clients |-> "new"] /\ circuit = 0
  /\ decision = [c \in Clients |-> NoDecision]
  /\ said = [c \in Clients |-> Nothing]
  /\ choice = [c \in Clients |-> NoChoice]
  /\ plan = [c \in Clients |-> NoPlan]

JudgeInit == judged \in Batches /\ verdicts = <<>> /\ scores = <<>> /\ scale = "none"

-----------------------------------------------------------------------------
(* The route: router.py *)

\* The graph ends its search branch here unless the mode is rag or hitl.
Route(c, mode, why) ==
  /\ decision' = [decision EXCEPT ![c] = [mode |-> mode, why |-> why]]
  /\ progress' = [progress EXCEPT ![c] = "routed"]
  /\ UNCHANGED <<inquiry, choice, plan>>

RouteBlank(c) ==
  /\ progress[c] = "new" /\ inquiry[c].blank
  /\ Route(c, FallbackMode, "empty_query")
  /\ UNCHANGED <<circuit, said>>

RouteCircuitOpen(c) ==
  /\ progress[c] = "new" /\ ~inquiry[c].blank /\ circuit > 0
  /\ Route(c, FallbackMode, "circuit_open")
  /\ UNCHANGED <<circuit, said>>

AskRoute(c) ==
  /\ progress[c] = "new" /\ ~inquiry[c].blank /\ circuit = 0
  /\ progress' = [progress EXCEPT ![c] = "asking"]
  /\ UNCHANGED <<inquiry, circuit, decision, said, choice, plan>>

\* A server without a chat template is asked for a completion instead.
AskCompletion(c) ==
  /\ progress[c] = "asking"
  /\ progress' = [progress EXCEPT ![c] = "completing"]
  /\ UNCHANGED <<inquiry, circuit, decision, said, choice, plan>>

\* A confident answer closes the circuit, a doubtful one leaves it as it is.
RouteAnswered(c, mode, confidence) ==
  /\ progress[c] \in {"asking", "completing"}
  /\ said' = [said EXCEPT ![c] = [of |-> mode, confidence |-> confidence]]
  /\ IF confidence < RouterThreshold
     THEN Route(c, FallbackMode, "below_threshold") /\ UNCHANGED circuit
     ELSE Route(c, mode, "model") /\ circuit' = 0

\* No JSON object, no known mode, or an error that is not of the connection.
RouteUnusable(c) ==
  /\ progress[c] \in {"asking", "completing"}
  /\ Route(c, FallbackMode, "unusable")
  /\ UNCHANGED <<circuit, said>>

RouteLost(c) ==
  /\ progress[c] \in {"asking", "completing"}
  /\ Route(c, FallbackMode, "lost")
  /\ circuit' = CircuitSeconds
  /\ UNCHANGED said

CircuitTick ==
  /\ circuit > 0
  /\ circuit' = circuit - 1
  /\ UNCHANGED <<inquiry, progress, decision, said, choice, plan>>

-----------------------------------------------------------------------------
(* The skill: skill_router.py *)

\* A skill without triggers has 0.05, but it is never among the candidates.
RuleScore(q, n) ==
  LET hits == q.triggers[n]
      found == Max({(1000 * hits) \div Triggers[n], (800 * Min({hits, 3})) \div 3})
  IN IF q.question /\ SKILLS[n] = "quick_fact_qa" THEN Max({found, FactBoost}) ELSE found

RuleRoute(q) ==
  LET before == {p \in (1..4) \X (1..4) :
                   \/ RuleScore(q, p[1]) > RuleScore(q, p[2])
                   \/ RuleScore(q, p[1]) = RuleScore(q, p[2]) /\ p[1] < p[2]}
      ranked == [k \in 1..4 |-> CHOOSE n \in 1..4 : Cardinality({m \in 1..4 : <<m, n>> \in before}) + 1 = k]
      best == RuleScore(q, ranked[1])
      ids == [n \in DOMAIN ranked |-> SKILLS[ranked[n]]]
      skill == IF best >= RuleThreshold THEN ids[1] ELSE GetSkill(FallbackSkill)
  IN [skill |-> skill, confidence |-> best,
      candidates |-> IF Contains(ids, skill) THEN ids ELSE Append(ids, skill),
      why |-> IF best >= RuleThreshold THEN "rule" ELSE "rule_fallback"]

\* The rule is trusted, or the model is asked.
SelectSkill(c) ==
  /\ progress[c] = "routed" /\ decision[c].mode \in {"rag", "hitl"}
  /\ choice' = [choice EXCEPT ![c] = RuleRoute(inquiry[c])]
  /\ said' = [said EXCEPT ![c] = Nothing]
  /\ progress' = [progress EXCEPT ![c] =
       IF UseLlm /\ choice'[c].confidence < SkillThreshold THEN "weighing" ELSE "chosen"]
  /\ UNCHANGED <<inquiry, circuit, decision, plan>>

\* The run is stopped or out of time when a client for the model is made.
AskerStops(c) ==
  /\ \/ progress[c] = "new" /\ ~inquiry[c].blank /\ circuit = 0
     \/ progress[c] = "weighing"
  /\ progress' = [progress EXCEPT ![c] = "stopped"]
  /\ UNCHANGED <<inquiry, circuit, decision, said, choice, plan>>

\* An unknown or doubtful skill leaves the rule's.
SkillAnswered(c, skill, confidence) ==
  /\ progress[c] = "weighing"
  /\ said' = [said EXCEPT ![c] = [of |-> skill, confidence |-> confidence]]
  /\ LET rule == choice[c]
         shown == IF Contains(rule.candidates, skill) THEN rule.candidates
                  ELSE <<skill>> \o rule.candidates
     IN choice' = [choice EXCEPT ![c] =
          IF skill \in ToSet(SKILLS) /\ confidence >= SkillThreshold
          THEN [skill |-> skill, confidence |-> confidence,
                candidates |-> SubSeq(shown, 1, Min({5, Len(shown)})), why |-> "model"]
          ELSE [rule EXCEPT !.why = "llm_fallback"]]
  /\ progress' = [progress EXCEPT ![c] = "chosen"]
  /\ UNCHANGED <<inquiry, circuit, decision, plan>>

SkillUnanswered(c) ==
  /\ progress[c] = "weighing"
  /\ choice' = [choice EXCEPT ![c].why = "llm_fallback"]
  /\ progress' = [progress EXCEPT ![c] = "chosen"]
  /\ UNCHANGED <<inquiry, circuit, decision, said, plan>>

\* float() of a confidence that is no number is outside the try block.
SkillUnreadable(c) ==
  /\ progress[c] = "weighing"
  /\ progress' = [progress EXCEPT ![c] = "failed"]
  /\ UNCHANGED <<inquiry, circuit, decision, said, choice, plan>>

-----------------------------------------------------------------------------
(* The plan: planner.py *)

\* The default plan of a question is that of a fact.
BuildPlan(c) ==
  /\ progress[c] = "chosen"
  /\ LET n == SkillNo(choice[c].skill)
         fact == Template[n] = "default" /\ inquiry[c].asks
         template == IF fact THEN "qa" ELSE Template[n]
     IN plan' = [plan EXCEPT ![c] =
          [template |-> template,
           profile |-> IF fact /\ Profile[n] = "balanced" THEN "fast" ELSE Profile[n],
           steps |-> Min({TemplateSteps(template), PlanSteps})]]
  /\ progress' = [progress EXCEPT ![c] = "planned"]
  /\ UNCHANGED <<inquiry, circuit, decision, said, choice>>

DecideNext ==
  \/ \E c \in Clients :
       \/ RouteBlank(c) \/ RouteCircuitOpen(c) \/ AskRoute(c) \/ AskCompletion(c)
       \/ \E mode \in Modes, confidence \in Opinions : RouteAnswered(c, mode, confidence)
       \/ RouteUnusable(c) \/ RouteLost(c)
       \/ SelectSkill(c) \/ AskerStops(c)
       \/ \E skill \in ToSet(SKILLS) \cup {"unknown"}, confidence \in Opinions :
            SkillAnswered(c, skill, confidence)
       \/ SkillUnanswered(c) \/ SkillUnreadable(c)
       \/ BuildPlan(c)
  \/ CircuitTick

DecideSpec == DecideInit /\ [][DecideNext]_decideVars

-----------------------------------------------------------------------------
(* The scores: evidence_evaluator.py *)

Clamped(value) == Max({0, Min({100, value})})

Heuristic(item) ==
  (55 * Clamped(item.score) + 30 * item.overlap + 15 * item.substance) \div 100

\* Each item once, by its number; an index that is none or no number is 0.
WellFormed(entries) ==
  /\ Len(entries) = Len(judged)
  /\ {entries[n].index : n \in DOMAIN entries} = DOMAIN judged

SupportOf(entries, i) == (CHOOSE e \in ToSet(entries) : e.index = i).support

(* Mutant: the scores are taken in the order in which the judge gives them. *)
Judged_InOrder(entries) == [i \in DOMAIN judged |-> Clamped(entries[i].support)]

Judged(entries) == [i \in DOMAIN judged |-> Clamped(SupportOf(entries, i))]

JudgeAnswers(entries) ==
  /\ scale = "none" /\ judged # <<>> /\ Len(judged) <= JudgeMaxDocs
  /\ WellFormed(entries)
  /\ verdicts' = entries /\ scores' = Judged(entries) /\ scale' = "llm_judge"
  /\ UNCHANGED judged

\* The judge is not asked, does not answer, or not in this form.
ScoreByRule(entries) ==
  /\ scale = "none"
  /\ judged = <<>> \/ Len(judged) > JudgeMaxDocs => entries = <<>>
  /\ entries = <<>> \/ ~WellFormed(entries)
  /\ verdicts' = entries /\ scale' = "heuristic"
  /\ scores' = [i \in DOMAIN judged |-> Heuristic(judged[i])]
  /\ UNCHANGED judged

\* Bound: an answer has at most one entry too many.
Answers ==
  BoundedSeq([index : 0..Len(judged) + 1, support : Supports], Len(judged) + 1)

JudgeNext == \E entries \in Answers : JudgeAnswers(entries) \/ ScoreByRule(entries)

JudgeSpec == JudgeInit /\ [][JudgeNext]_judgeVars

-----------------------------------------------------------------------------
(* Properties *)

DecisionTypeOK ==
  /\ progress \in [Clients -> {"new", "asking", "completing", "routed", "weighing", "chosen",
                            "planned", "stopped", "failed"}]
  /\ circuit \in 0..CircuitSeconds
  /\ \A c \in Clients : decision[c].mode \in Modes \cup {"none"}
  /\ scale \in {"none", "llm_judge", "heuristic"}

\* A model's mode only if it was sure of it, else the fallback; the circuit
\* that keeps a query from the model was opened by the loss of another one.
RouteIsGrounded(c) ==
  CASE decision[c].why = "model" -> progress[c] = "routed" =>
         said[c].of = decision[c].mode /\ said[c].confidence >= RouterThreshold
    [] decision[c].why = "circuit_open" ->
         decision[c].mode = FallbackMode /\ \E o \in Clients \ {c} : decision[o].why = "lost"
    [] decision[c].why = "none" -> decision[c].mode = "none"
    [] OTHER -> decision[c].mode = FallbackMode

\* The skill is one that exists and that is shown; a model has it only where
\* no rule was sure, and a sure rule has the best.
SkillIsGrounded(c) ==
  progress[c] \in {"chosen", "planned"} =>
    LET q == inquiry[c]
        scoresOf == {RuleScore(q, n) : n \in 1..4}
    IN /\ Contains(choice[c].candidates, choice[c].skill) /\ Len(choice[c].candidates) <= 5
       /\ choice[c].why = "model" =>
            said[c] = [of |-> choice[c].skill, confidence |-> choice[c].confidence]
            /\ choice[c].confidence >= SkillThreshold /\ Max(scoresOf) < SkillThreshold
       /\ choice[c].why = "rule" =>
            RuleScore(q, SkillNo(choice[c].skill)) = Max(scoresOf) /\ Max(scoresOf) >= RuleThreshold
       /\ q.question /\ FactBoost >= RuleThreshold /\ FactBoost >= SkillThreshold =>
            choice[c].why = "rule"
       /\ progress[c] = "planned" => plan[c].steps \in 1..PlanSteps

\* All scores are the judge's, each of its own item, or none of them is.
ScoresAreOneScale ==
  scale # "none" =>
    \/ \A i \in DOMAIN judged : \E n \in DOMAIN verdicts :
         verdicts[n].index = i /\ scores[i] = Clamped(verdicts[n].support)
    \/ \A i \in DOMAIN judged : scores[i] = Heuristic(judged[i])

(* Whatever the models answer, late, doubtful, malformed or not at all, what *)
(* is acted on is an answer that a model gave and was sure of, or the code's *)
(* own rule as a whole.  route_query, route_skill, evaluate_evidence         *)
DecisionsAreGrounded ==
  /\ DecisionTypeOK
  /\ \A c \in Clients : RouteIsGrounded(c) /\ SkillIsGrounded(c)
  /\ ScoresAreOneScale
=============================================================================
