--------------------------- MODULE SubqueryFanout ---------------------------
(* retrieve_node: the sub-questions are searched in batches of parallel      *)
(* tasks, and the node collects their results in the order of the questions. *)
(* A task asks the agent loop first, when that is enabled and the user has   *)
(* not opted out of the web, and the static search when the loop is empty.   *)
EXTENDS Integers, Sequences, SequencesExt, FiniteSetsExt

CONSTANTS
  Questions,     \* how many sub-questions there are
  Concurrency,   \* SUBQUERY_MAX_CONCURRENCY
  LoopEnabled,   \* AGENT_LOOP_ENABLE, and the web is not opted out of
  Found,         \* the lists of documents a search may give
  MaxEvidence,   \* documents that become evidence
  FullLimit      \* RETRIEVED_DOC_IDS_FULL_LIMIT

ASSUME FanoutAssumption ==
  /\ Questions \in Nat \ {0} /\ Concurrency \in Nat \ {0}
  /\ LoopEnabled \in BOOLEAN
  /\ MaxEvidence \in Nat \ {0} /\ FullLimit \in Nat \ {0}
  /\ \A docs \in Found : docs \in Seq(ToSet(docs))

VARIABLES
  submitted,  \* the questions of the batches so far
  search,     \* the task of each question
  outcome,    \* what it has returned
  records,    \* retrieval_records: one for each question collected
  allDocs,    \* what was collected
  evidence,   \* the documents of the node's answer
  halted,     \* the run is stopped
  node        \* batch, wait, expired, collected, done, stopped or failed

fanoutVars == <<submitted, search, outcome, records, allDocs, evidence, halted, node>>

Asks == 1..Questions
NoOutcome == [docs |-> <<>>, strategy |-> "none"]

FanoutInit ==
  /\ submitted = 0 /\ records = <<>> /\ allDocs = <<>> /\ evidence = <<>>
  /\ search = [q \in Asks |-> "none"]
  /\ outcome = [q \in Asks |-> NoOutcome]
  /\ halted = FALSE /\ node = "batch"

-----------------------------------------------------------------------------
(* The tasks *)

RunIsStopped ==
  /\ ~halted
  /\ halted' = TRUE
  /\ UNCHANGED <<submitted, search, outcome, records, allDocs, evidence, node>>

TaskBegins(q) ==
  /\ search[q] = "submitted"
  /\ search' = [search EXCEPT ![q] = IF halted THEN "raised" ELSE "running"]
  /\ UNCHANGED <<submitted, outcome, records, allDocs, evidence, halted, node>>

\* A loop without documents counts as none, and the static search is run.
Strategies(docs) == IF LoopEnabled /\ docs # <<>> THEN {"agent_loop", "static"} ELSE {"static"}

TaskReturns(q) ==
  /\ search[q] = "running" /\ ~halted
  /\ search' = [search EXCEPT ![q] = "returned"]
  /\ \E docs \in Found : \E strategy \in Strategies(docs) :
       outcome' = [outcome EXCEPT ![q] = [docs |-> docs, strategy |-> strategy]]
  /\ UNCHANGED <<submitted, records, allDocs, evidence, halted, node>>

\* A search fails, or check_current_run finds the run stopped.
TaskRaises(q) ==
  /\ search[q] = "running"
  /\ search' = [search EXCEPT ![q] = "raised"]
  /\ UNCHANGED <<submitted, outcome, records, allDocs, evidence, halted, node>>

-----------------------------------------------------------------------------
(* The node's thread *)

\* The finally clause: a task nobody has begun is cancelled.
Cancelled == [q \in Asks |-> IF search[q] = "submitted" THEN "cancelled" ELSE search[q]]

Leave(how) ==
  /\ node' = how
  /\ search' = Cancelled
  /\ UNCHANGED <<submitted, outcome, records, allDocs, evidence, halted>>

NextQuestion == Len(records) + 1

StartBatch ==
  /\ node = "batch" /\ submitted < Questions /\ ~halted
  /\ submitted' = Min({submitted + Concurrency, Questions})
  /\ search' = [q \in Asks |-> IF q \in submitted + 1..submitted' THEN "submitted" ELSE search[q]]
  /\ node' = "wait"
  /\ UNCHANGED <<outcome, records, allDocs, evidence, halted>>

\* check_current_run, before a batch and before each wait.
NodeStops ==
  /\ halted /\ node \in {"batch", "wait"}
  /\ node = "batch" => submitted < Questions
  /\ Leave("stopped")

(* Mutant: the results are taken as they come and their futures forgotten, and *)
(* a result is numbered as it is taken.                                        *)
Take_AsCompleted ==
  \E q \in Asks :
    /\ node = "wait" /\ search[q] = "returned"
    /\ allDocs' = allDocs \o outcome[q].docs
    /\ records' = Append(records, [question |-> NextQuestion, docs |-> ToSet(outcome[q].docs),
                                   strategy |-> outcome[q].strategy])
    /\ search' = [search EXCEPT ![q] = "none"]
    /\ node' = IF NextQuestion = submitted THEN "batch" ELSE "wait"
    /\ UNCHANGED <<submitted, outcome, evidence, halted>>

\* future.result returns: the next question's documents and record.
Take ==
  /\ node = "wait" /\ search[NextQuestion] = "returned"
  /\ allDocs' = allDocs \o outcome[NextQuestion].docs
  /\ records' = Append(records, [question |-> NextQuestion, docs |-> ToSet(outcome[NextQuestion].docs),
                                 strategy |-> outcome[NextQuestion].strategy])
  /\ node' = IF NextQuestion = submitted THEN "batch" ELSE "wait"
  /\ UNCHANGED <<submitted, search, outcome, evidence, halted>>

TakeRaises ==
  /\ node = "wait" /\ search[NextQuestion] = "raised"
  /\ Leave("failed")

\* The 0.05 seconds are over and the task has not returned.
WaitExpires ==
  /\ node = "wait" /\ search[NextQuestion] \in {"submitted", "running"}
  /\ node' = "expired"
  /\ UNCHANGED <<submitted, search, outcome, records, allDocs, evidence, halted>>

\* future.done() is asked after the timeout: a task that has returned in
\* between is taken for one that has raised the timeout.
AskDone ==
  /\ node = "expired"
  /\ IF search[NextQuestion] \in {"returned", "raised"}
     THEN Leave("failed")
     ELSE node' = "wait" /\ UNCHANGED <<submitted, search, outcome, records, allDocs, evidence, halted>>

UniqueDocs(docs) ==
  FoldLeft(LAMBDA kept, d : IF Contains(kept, d) THEN kept ELSE Append(kept, d), <<>>, docs)

FirstOf(s, k) == SubSeq(s, 1, Min({k, Len(s)}))

\* All questions are collected: their documents are merged, reranked and cut.
Gather ==
  /\ node = "batch" /\ submitted = Questions
  /\ node' = "done"
  /\ LET unique == UniqueDocs(allDocs)
         top == Max({MaxEvidence, Min({Len(unique), FullLimit})})
     IN \E order \in SetToSeqs(ToSet(unique)) :
          evidence' = FirstOf(FirstOf(order, top), MaxEvidence)
  /\ UNCHANGED <<submitted, search, outcome, records, allDocs, halted>>

FanoutNext ==
  \/ RunIsStopped
  \/ \E q \in Asks : TaskBegins(q) \/ TaskReturns(q) \/ TaskRaises(q)
  \/ StartBatch \/ NodeStops \/ Take \/ TakeRaises \/ WaitExpires \/ AskDone \/ Gather

FanoutSpec == FanoutInit /\ [][FanoutNext]_fanoutVars

-----------------------------------------------------------------------------
(* Properties *)

FanoutTypeOK ==
  /\ submitted \in 0..Questions
  /\ search \in [Asks -> {"none", "submitted", "running", "returned", "raised", "cancelled"}]
  /\ outcome \in [Asks -> [docs : Found \cup {<<>>}, strategy : {"none", "agent_loop", "static"}]]
  /\ Len(records) <= submitted
  /\ halted \in BOOLEAN
  /\ node \in {"batch", "wait", "expired", "done", "stopped", "failed"}

Collected == {q \in Asks : q <= Len(records)}

(* However the tasks of a batch overtake each other, the record of a         *)
(* question holds what the search of that question has found, in the order   *)
(* of the questions, and only Concurrency questions are ahead of the         *)
(* collection.  A node that ends has a record of every question and evidence *)
(* from each document once.  retrieve_node                                   *)
RecordsMatchQuestions ==
  /\ FanoutTypeOK
  /\ \A q \in Collected : records[q] = [question |-> q, docs |-> ToSet(outcome[q].docs),
                                        strategy |-> outcome[q].strategy]
  /\ Cardinality({q \in Asks : search[q] # "none"}) <= Len(records) + Concurrency
  /\ node = "done" =>
       LET all == UNION {records[q].docs : q \in Asks}
       IN /\ Len(records) = Questions
          /\ ToSet(evidence) \subseteq all /\ IsInjective(evidence)
          /\ Len(evidence) = Min({MaxEvidence, Cardinality(all)})
=============================================================================
