\* One search, one tool loop, one fan-out of three questions, three calls, one
\* document, two queries, the evidence of one answer.
SPECIFICATION Spec
CONSTANTS
 Raw <- Stores
 Policies = {"never", "auto", "always"}
 Wordings = {"opt_out", "external", "plain"}
 Budgets = {0, 2}
 TopK = 2
 FinalTopN = 2
 MinScore = 4
 MinDocs = 2
 Tools = {"vector"}
 Unknown = "ghost"
 Arguments = {"q1", "q2"}
 Items = {"a", "b"}
 MaxSteps = 2
 MaxToolCalls = 2
 MaxDocs = 1
 Batch = 2
 Questions = 3
 Concurrency = 2
 LoopEnabled = TRUE
 Found <- Lists
 MaxEvidence = 2
 FullLimit = 3
 Callers = {"c1", "c2"}
 Streamers = {"t1"}
 Scenes = {"judge", "loop"}
 SceneOf <- Shares
 MaxAttempts = 2
 MaxResets = 1
 MaxChunks = 1
 Documents <- Texts
 Limits <- PieceLimits
 Clients = {"k1", "k2"}
 Inquiries <- Queries
 Opinions = {300, 900}
 RouterThreshold = 650
 CircuitSeconds = 2
 FallbackMode = "rag"
 FallbackSkill = "generic_rag"
 RuleThreshold = 250
 SkillThreshold = 550
 FactBoost = 720
 UseLlm = TRUE
 PlanSteps = 4
 Batches <- Piles
 Supports = {0, 60, 120}
 JudgeMaxDocs = 2
INVARIANTS SearchIsFaithful EveryCallAnswered RecordsMatchQuestions CallsAreAccounted
 PiecesHoldTheText DecisionsAreGrounded
\* Each part comes to its end.
CHECK_DEADLOCK FALSE
