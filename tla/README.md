# Verification of software_reco

TLA+ models of the parts of this repository whose correctness depends on
threads, timeouts, lost updates, crashes, budgets and on models that may answer
anything; TLC configurations that check them on small instances; and TLAPS
proofs of their main invariants for every value of the constants.
`PROJECT.json` lists components, runs, mutants, the source lines behind every
definition, findings, hazards and theorems.

## 1. The system

software_reco answers "which software should I use" questions.

```
React chat client ──HTTP/SSE──► Spring Boot (ollama_springboot/demo)
                                  tasks, conversations, SSE bridge, PostgreSQL
                                     │ HTTP/SSE
                                     ▼
                                FastAPI (fastapi_demo/app)
                                  turns, sessions, streaming, ingestion
                                     │ calls
                                     ▼
                                Agent (fastapi_demo/software_recommend_system)
                                  execution control ─► LangGraph nodes ─► LLM,
                                  retrieval (Chroma, Elasticsearch, web), memory
```

| Component | State | Operations | What is hard | What must hold | Model |
|---|---|---|---|---|---|
| Execution control (`execution_control.py`) | sessions in use, capacity semaphore, pool and its queue, one stop signal per run, a bounded queue per stream | admit, run, stream, time out, cancel, release | coroutines against worker threads; deadline against result; a full queue; a caller that has gone | one run per session, every permit accounted for, no lost items, the reported reason is the real one | `ExecutionControl`, `RunAdmission` |
| Recommendation tasks (`RecommendTaskStateService`) | one row per task, running ids and heartbeat futures in memory | create, stream event, confirm, heartbeat, sweep, poll, restart | whole-row lost updates; stale workers and beats; restart | fields fit the status, shown answers are stored, nothing generates for ever | `RecommendTask` |
| SSE bridge (`SseStreamHandle`) | terminal flag, subscription, heartbeat, emitter | attach, send, complete, fail, disconnect | four threads race to end one response | one ending, the right one, no orphaned subscription | `SseStreamHandle` |
| Turn routes (`routes.py`, `stream_utils.py`, `recommend_orchestrator.py`) | events of a turn, graph interrupt, retries, session messages | recommend and confirm, each with a stream variant | two turns on one session; the event protocol at every exit; a retry after a stream | one closing event that matches the outcome; a failed run leaves no answer | `TurnRoutes` |
| Agent graph (`rag_agent.py`, `nodes.py`, `run_agent.py`) | LangGraph checkpoint of a thread | nodes, routing, interrupt and resume, loop | stops inside a node; resume without an interrupt; limits | no search without a decision; termination; what was found is used as far as it is kept | `AgentGraph` |
| Sub-question fan-out (`retrieve_node`) | tasks and futures of a batch, records | submit, collect, fall back, time out | futures overtake each other; time-outs of 0.05 s | records belong to their questions | `SubqueryFanout` |
| Retrieval (`retriever.py`, `retrieval_channels.py`) | channels, budget, fused list | two stages of recall, merge, rank | late channels; one budget over two stages | what was in time, once, and nothing else | `Retrieval` |
| Agent loop and tools (`agent_loop.py`, `agent_tools/`) | transcript, counters | ask, call, finish | several calls at the end of a budget; malformed calls | each call has its one tool message; budgets | `AgentLoop` |
| LLM governance (`llm_governance.py`, `llm_utils.py`) | ledger in two buckets | call, retry, stream, reset | threads on one ledger; stop against retry | every call once, none after a stop, no spliced stream | `LlmGovernance` |
| Routing, skills, plan, judgement (`router.py`, `skill_router.py`, `planner.py`, `evidence_evaluator.py`) | the router's circuit | route, choose, plan, score | doubtful, malformed, late answers; a shared circuit | a sure answer or the code's own rule | `ModelDecisions` |
| Document chunking (`structural_chunker.py`, `document_splitter.py`) | pieces with offsets | cut, parent and child, read back | overlap, tables, fences, offsets relative to a parent | all text, in order, within the budget | `Chunking` |
| Knowledge stores (`startup_ingest.py`, `rechunk.py`, `keyword_index.py`) | three Chroma collections, Elasticsearch mirror, circuit | ingest, rechunk, add, synchronize | crashes and failures between calls of four stores | a source stays whole unless another takes its ids; the mirror only lags | `KnowledgeIndex` |
| Session store, memory (`session_store.py`, `memory_store.py`, `memory_retriever.py`) | two dictionaries, two files | append, set facts, remember, load | crash inside a whole-file write | what was acknowledged is recalled; the freshest stays | `ConversationStores` |

Interactions.
A browser's request reaches `RecommendTaskController`, which creates or
prepares a task row, opens an SSE response and subscribes to FastAPI. Every
upstream event is first applied to the row, then forwarded. FastAPI's turn
routes store the user's message and run the graph for a session through
`execution_control`; the graph's nodes look up the stop signal by session
(`check_for_session`), search through the fan-out, the agent loop or
`retrieve()`, and pause for the human with an interrupt that a later request
resumes. A disconnect travels the other way: `SseStreamHandle` disposes of the
subscription and marks the task FAILED; FastAPI sees its generator closed and
sets the run's stop event; the worker thread notices at its next check. A
confirm without a stream is run by `confirmExecutor`, beside a heartbeat that
keeps the task from being declared stalled by the ten-second sweep.

## 2. Modules

Each module models a component at the grain at which its steps can interleave,
fail or be cut off; the header of a module says what a step and a datum is.
`TurnRoutes` composes the routes with the holding of a session of
`ExecutionControl` and the messages of the session store; `MCEvidence` puts the
six modules behind one answer beside each other; `MCStores` the two of the
persistent stores.

### ExecutionControl, RunAdmission

`RunAdmission` is the promise: at most one executing run per session, at most
`MaxActiveRuns` in all, and an ended run never executes again.
`ExecutionControl` is the code, and implements it with
`executing <- Executing, ended <- Ended`.

* **Callers** (`caller[r]`) are coroutines of one event loop. `loop` names the
  caller that runs between two awaits, so `_begin_run` and the submission are
  not interleaved with another caller, but are with worker threads.
* **Work items** (`work[r]`) follow the item through the pool's queue
  (`pending`), a cancelled future (`dropped`), the operation (`running`), a
  producer waiting for room (`publishing`), the two halves of `_release_run`
  (`finishing`, `releasing`), the way back to the pool (`returning`) and the
  resolved future.
* `stopReason`, `expired` are the `RunControl`; `active`, `permits` are
  `_ACTIVE_SESSIONS` and `_CAPACITY`; `messages`, `outbox`, `produced`,
  `delivered` are the bounded queue of a stream and what went through it.
* What the graph computes is left out. An operation may at any step return,
  raise, exceed its recursion limit, or find at a check that it must stop.
  `publish` finds the stop event clear and may still put its message after
  the event was set, as the code may. An error the operation raises may be a
  `TimeoutError`, which both callers report as the run's timeout.

### RecommendTask

One row of `recommend_tasks`. Every operation is split into the step that
reads the row and decides, and the commit that writes the **whole** row: the
entity has no `@Version` and nothing locks it, so an operation that overlaps
another loses its update. `tx` holds what each open transaction will write.
`row.fresh` stands for "the heartbeat is younger than sixty seconds",
`overdue` for a passed `expire_at`; both change by themselves. A result is
named by the stream, worker or creator that delivered it. Progress bars and
texts are left out; of the sub-questions only their presence is kept.
`CONFIRMED` is never written by the code, and `TypeOK` says so.

`Restart` forgets open transactions, workers, claims and futures and keeps the
row. Database errors are modelled for the heartbeat, which they silence; a
worker whose transaction fails ends in `markFailed`, like one whose call to
FastAPI failed; if that fails as well, only the sweep is left, as in a
worker that hangs.

### SseStreamHandle

One response: `pc` says where the controller, the upstream thread, the
heartbeat thread and the container's callback are; every read of `terminal`,
compare-and-set, dispose and emitter call is a step of its own. Model of the
environment: writes to a gone client may still succeed for a while, the
container calls back at will once the client is gone or the emitter is
completed, and `Disposable.dispose` on a finished subscription does nothing.
The emitter is created with timeout 0, so `onTimeout` cannot happen.

### TurnRoutes

The four turn endpoints over one session, with `execute_recommend_turn`. A
handler is a coroutine: a step runs from one await (a yielded event, a graph
run) to the next, so handlers of two requests interleave at awaits only. The
graph's worker holds the session (`held`) and gives it back in a step of its
own, after it has published its end: a retry of `/recommend/confirm/stream`
that comes before finds the session taken (`StartRefused`), which is the
hazard at `execution_control.py:217`. A caller that stops waiting for
`run_controlled` while its run is still queued leaves the session held for
ever (`Dropped`), as `exec_leak` shows of `ExecutionControl`. `stored` are the
session's messages, cut to `MaxMessages`; `thread` is the interrupt pending in
the checkpoint.

A write of the session store changes the session in memory before its file and
may raise in between (`session_store.py:278-280,305-307`); what a handler makes
of its result after the write may raise as well. Such a turn is `raised`: its
client is told of an error, its message stays (`Raises`, `AcceptRaises`,
`TurnFails`). Where `execute_recommend_turn` then stores a system message, that
write may raise too, and the endpoint reports the error instead.

`EndsWithOutcome` rests on `Payloads = {"questions"}`: an interrupt without
sub-questions would end a stream without an outcome (`routes.py:497`), and
`human_confirmation_node` always sends some. Two facts are kept as they are:
the confirm shortcut sends a `final` event for a failed turn (`routes.py:362`),
and the branch of `/recommend/stream` that would store the acknowledgement
after its loop is dead, as the flag is always set before.

### AgentGraph

One action is one superstep of LangGraph: the checks of `_controlled_node`, the
node, the edge behind it and the checkpoint. A run that stops inside a node
leaves the checkpoint before it. `StartTurn` writes a fresh state, `Resume`
delivers a reply to whatever node the checkpoint has scheduled, interrupt or
not. A list of sub-questions is its length and its author; evidence is how many
items there are and how many are good. Facts met on the way: the draw branch is
never taken; evidence of a later pass replaces that of an earlier, better one
(`found` is history: whether any pass of the turn found something);
`start_time` includes the human's pause, so a turn that waits long for its
confirmation stops refining at once; coverage counts items of evidence, not
sub-questions.

### SubqueryFanout

`retrieve_node`: batches of tasks, the collection of their futures in the
order of the questions, and its polls of 0.05 seconds. The poll that times out
and then finds the future done raises a spurious `TimeoutError`
(`nodes.py:1458-1462`), which ends the run; the model keeps it.

### Retrieval

`retrieve()`: the policy of the web, two stages of channels under one budget,
channels that are abandoned, the joining of child documents to parents, fusion
and order. Scores are small integers of which six make 1.0. The first-stage
score of a vector hit is a distance and is compared as a similarity
(`retriever.py:749`); so it is in the model.

### AgentLoop

`run_agent_loop` and `ToolRegistry.execute`. The model is a service that
answers anything: nothing, one call, several, unknown names, arguments that are
no JSON, repetitions. The transcript that goes back to it is state.

### LlmGovernance

`governed_chat_completion` step by step (check of the run, request, back-off,
the two halves of a ledger entry under its lock), the streamed call, and the
reset of the ledger. Every thread's run may be stopped at any step.

### ModelDecisions

The route with its circuit, shared by the requests; the skill by rules and by
the model; the plan; the scores of the evidence, whose judge may name items in
any order, twice or out of range. A confidence that is no number raises outside
the `try` (`skill_router.py:361`) and fails the run; the model keeps that too.

### Chunking

The canonical text of a document, sentences, windows with overlap, structural
pieces (tables between their rows, code between its lines), parents and
children with offsets, and the text that `_read_indexed_content` puts together
again. It is a pure algorithm: TLC checks it for the instance's documents and
budgets against the definition that the pieces hold all its text in order, and
the theorem of section 4 covers every document and budget. Each loop of the
code that walks over sentences, paragraphs, rows or blocks is a `Chain`: what
the loop adds at a place and the place it goes on at. `ChunkAssumption` says
what the parser hands on: a block has lines; a structured block begins with
text, as prose and code are stripped and empty blocks dropped, code begins with
its fence, and a row of a table has its bars.

### KnowledgeIndex

Every call of Chroma or Elasticsearch is a step; the process may die between
any two, each may fail, and a file may change at any time: start-up ingestion
of texts and images, `rechunk --apply`, the admin endpoint, and the
synchronization of the mirror with its circuit. A version of a file is a
number, its chunks are numbered, so versions share ids as the code's do.

A record is kept under a document id and a number, and says its path. `Named`
is what `_safe_doc_id` makes of a path: texts have names of their own, as a
hash is added to a changed one, but two images may have the same, its `Twins`.
Start-up takes the first id of the name that it has not used itself
(`FreeIds`); of files it skips as indexed it has used none
(`startup_ingest.py:134,607-610`). So the ids of an image may go to a twin, and
with them its chunks, its parents and its native row; the lookups, the removal
of stale records and the properties go by the path.

### ConversationStores

The two JSON files. In each handler the change in memory, the emptying and the
filling of the file are steps; writes fail, the process dies between any two,
and a torn file loads as nothing. `promise` is history: what a fact may be
recalled as, and which stores have lost it.

## 3. What the runs show

| Run | Instance | Checks |
|---|---|---|
| `exec_shared` | a call and a stream on session A, a call on B; 1 permit, buffer 1, 2 items | `PermitAccounting`, `TypeOK`, `NodeChecksOwnRun`, `OutcomeAfterRelease`, `CompleteDelivery`, `ReportedReason`, and the refinement `ImplementsRunAdmission` |
| `exec_live` | a call and a stream on one session | `CallersSettle`, `StartedRunsRelease` |
| `exec_leak` | the same, fair threads | `SessionsAreReleased` — **violated** |
| `task_row` | a stream and a confirm, 1 overlapping beat | `TypeOK`, `CanonicalFields`, `AnswerStored` |
| `task_settles` | two confirms, workers may hang | `EventuallySettled`, `WorkersLetGo` |
| `task_restart` | a confirm, 1 overlapping beat, 1 restart, workers may hang | `EventuallySettled` |
| `task_overwrite` | one stream | `TerminalIsFinal` — **violated** |
| `sse_handle` | one response | `TypeOK`, `OneEnding`, `DisconnectIsReal`, `NoOrphanUpstream`, `DisconnectIsNoticed` |
| `turns` | two requests of any kind on one session | `EndsWithOutcome`, `NothingAfterClosing`, `FailedRunsLeaveNothing`, `AnswersFollowQuestions`, `AllServed` |
| `graph` | one thread, any number of turns and replies; 3 skills, `max_iterations` 1 or 5 | `TypeOK`, `SearchesWhatWasDecided`, `RefinementIsBounded`, `EvidenceIsUsed`, `RunsEnd` |
| `stores` | a text, two images of one name and the samples, versions of two and of one piece; one session | `AcknowledgedSurvives`, `SourceStaysWhole`, `MirrorOnlyLags`, `FreshestKept` |
| `evidence` | one search, one tool loop, three sub-questions, three model calls, one document, two queries, one set of evidence | `SearchIsFaithful`, `EveryCallAnswered`, `RecordsMatchQuestions`, `CallsAreAccounted`, `PiecesHoldTheText`, `DecisionsAreGrounded` |

In words, for the runs that are not plain from their names:

* `task_settles`. However two confirms, their workers and the sweep overlap,
  the task does not generate for ever, and an ended worker leaves no claim and
  no registered heartbeat behind. A future that no map names any more is not
  "registered": it may tick on (see the facts below).
* `turns`. However two requests overlap, each stream ends with one event that
  tells how its turn ended; a run that was refused, stopped or failed leaves no
  answer in the session, and only a turn that succeeds a memory; answers are
  stored after their questions and once; and every request comes to an end,
  also when nobody ever gives the session back.
* `graph`. Only what the human (or the request's policy) decided is searched,
  whatever is stopped, resumed or restarted in between; refinement ends by
  itself; a turn says that evidence is insufficient only when its last pass found
  none, and for a fact question only when no pass did, even when the model
  calls fail.
* `stores`. A fact that was acknowledged is recalled until both stores have
  lost their copy; an indexed source has one whole version at every step, as
  long as no image of the same name has records (`Apart`; without it TLC finds
  the second image writing over the first); the mirror holds nothing wrong but start-up's leftovers, and a synchronization
  that reports success leaves it equal; a full bucket gives up its oldest item.
* `evidence`. The outcome of a search is what was answered in time, each
  document once; every tool call has its one message; the ledger has every
  call once; a cut document can be read back; what is acted on is a sure
  answer of a model or the code's own rule.

**Deadlock** is checked in every run but `evidence`, whose parts come to an
end one by one. Where the system may stop, the next-state relation has a final
step under a condition that everybody is served (`Quiescent`, `Served`).

**Bounds and why they are enough.** Execution control: two requests per
session are needed for a conflict, one more than the permits for a refusal, and
a queued item behind a releasing thread for the leak; buffer 1 with two items
and a closing message makes the producer wait twice. Tasks: one restart and one
overlapping beat, as a second one finds the same committed row and an empty
memory again; two confirms are the least for two workers, two heartbeats and an
orphan. Turns: two requests meet in every pair of awaits; `MaxMessages` 12 is
more than they can store, so that nothing is forgotten by truncation (the
theorems cover any limit). Graph: lists of one or two sub-questions and evidence
of up to two items distinguish *covers more*, *the same* and *less*;
`max_iterations` 5 is more than the passes that evidence allows, so that the
loop ends by itself; `RecursionLimit` 29 is the least that the assumption
admits for it. Stores: two versions of which the second is shorter give stale
ids; `OneName` keeps the paths of one name at a time in use, as the others share
only the circuit, and where both images are in use keeps the first to two pieces,
the second to one, and both without a native row, so that each may be cut by
the other; three contents in a bucket of two; `Few` separates behaviours of facts from
those of items, which share nothing but the file they are written to. Evidence:
budgets of two with answers of two calls reach every exit of the loop; three
questions with two at a time make a second batch; texts of four characters over
word, space, full stop and quote with pieces of two to eight.
The modules in `MCEvidence` and `MCStores` share no variable: a behaviour is
one of one part, which starts in one initial state of the others. `MaxItems`,
`MaxBeats`, `MaxCrashes`, `MaxEdits`, `Batch`, `MaxResets`, `MaxChunks`,
`Versions` and `Clock` are bounds that the code does not have.

**Fairness.** *Execution control:* the event loop runs ready callers, time
passes, and a client reads or goes away (`CallerFairness`). `CallersSettle`
needs this alone: that is its point. Threads take queued work, and operations
come to an end or to a check because every client they use carries a timeout
(`WorkerFairness`): `StartedRunsRelease` states that assumption in its formula.
*Tasks:* the sweep is scheduled, transactions commit, time passes
(`ServiceFairness`); that a worker's call ends (`AnswerFairness`) is assumed by
`WorkersLetGo` only. No client has to confirm and no upstream has to send.
*SSE:* threads run; a client that is gone cannot accept heartbeats for ever,
the one strong fairness. The container's callbacks are not fair.
*Turns:* a run ends or is stopped by its deadline and a coroutine that can go on
does; no worker has to leave its run, no queued run to be taken, no client to
come. *Graph:* a node ends, or
the run is stopped at its deadline. The stores and the evidence have no
liveness property.

**Findings.**

1. `exec_leak`. A caller that is cancelled or times out while its work item
   is still queued cancels the future. The pool skips such an item, so
   `_run_in_worker`, the only one that would release the run, never starts:
   the session answers "already active" for ever and a permit is lost. An
   item waits in the queue although it holds a permit because `_release_run`
   gives the permit back before the thread is free. The plan
   (`plan/agent-reliability/02-python-run-control.md:16,29`) wants the session
   released with its run, and the permit of a cancelled caller given back.
2. `task_overwrite`. `plan/agent-reliability/03-stream-propagation.md:17` wants
   terminal states protected from late events. `applyStreamEvent` checks the
   row it read; a disconnect and a final event that overlap both pass, and the
   later commit wins.

**Facts met on the way**, kept in the models as the code has them:

* `EventuallySettled` holds for two confirms only thanks to `expire_at`: two
  overlapping `scheduleHeartbeat` calls leave a future that no map names, and
  it keeps a task whose worker is gone "fresh" until the 24 hours are over.
* Two images whose paths `_safe_doc_id` maps to one id (`a b.png` and
  `a_b.png`, or two names in Chinese) share their records once they come in
  different start-ups, or when the second one is refreshed: the later image
  writes over the earlier one. The suffix of `_build_raw_document` helps only
  within one start-up, among files that are not skipped
  (`startup_ingest.py:134`).
* A turn whose answer is in the session may still end in an error for its
  client, when the session's file cannot be written or its response cannot be
  built: answer and error then both stay (`recommend_orchestrator.py`,
  `routes.py:505,962`). `plan/agent-reliability/02-python-run-control.md` asks
  only of failed *runs* that they are not persisted as success.
* `nodes.py:1748` passes `timeout=` to a task that does not take it; the
  `TypeError` is caught, so candidates are always the heuristic ones, although
  `plan/agent-latency/README.md` retains the model call.
* `llm_governance.py` says that every non-streaming call should go through it;
  `router.py`, `skill_router.py` and the fallback of the streamed call do not,
  so their calls are not in the ledger.
* A success of the router that is older than a failure closes the circuit the
  failure opened (`router.py:300,309`), and when it expires all waiting
  requests ask at once.
* A confirm that answers an older pause resumes the newer one
  (`nodes.py:1317`): the interrupt has no identity.
* When the lookup of a source's old ids fails, its stale chunks stay, while
  their parents may go (`startup_ingest.py:166,170`); after a crash between
  indexing and `_delete_stale_source_ids` they stay as well. Text files that
  change are not refreshed at start-up.
* `_next_cursor_with_overlap` can give a piece that lies wholly inside the
  one before it.

## 4. Proofs

All theorems are checked by TLAPS without assumptions beyond the `ASSUME`s of
the modules, and one in `OutcomesAreTold`, which its statement names. The
`ASSUME`s say what kind of values the constants are (settings are numbers, a
list of hits is a sequence of hits with whole scores, threads are finitely
many) and what the settings' own validation guarantees (a limit is at least
one); TLC evaluates them on every run.

* `ExecutionControlProofs`. The inductive invariant adds to `TypeOK` that the
  run on the event loop is the one being admitted (`CallerInv`), that a run
  holds its session's entry from registration to `_finish_run` whoever has
  gone in the meantime (`ActiveInv`), and `PermitAccounting`. The second part
  is why it is needed: `NodeChecksOwnRun` alone does not say that a *finishing*
  run still owns the entry, and a second run could begin in that gap.
  `PermitAccounting` is a statement about a cardinality; a lemma per way a set
  of holders changes (one joins, one leaves, none) carries it through the
  actions. From the invariant follow `TypeCorrect`, `NodesCheckTheirOwnRun`,
  `PermitsAccounted`, `OutcomesFollowRelease`, `ReasonsAreReported`, and
  `AdmissionIsImplemented`, in which every action maps to `Start`, `End` or a
  stutter; the capacity bound of `Start` comes from `Executing` being part of
  `Holders`.
* The second part of `ExecutionControlProofs` is about streams. The bounded
  queue is a sequence: only its last message closes the stream, and then its producer is through; the
  items delivered and those in the queue are those produced; a caller that is
  done has an empty queue and nobody left who could stop its run. Most actions
  touch none of this, which one lemma says; `Put` and the polls are proved one
  by one. Hence `NormalStreamsDeliverAll`, for any buffer and number of items.
* `SseStreamHandleProofs`. The invariant counts: before `terminal` nobody is
  closing and nothing has ended; after it, exactly one thread is closing or
  one ending has happened. With it, a thread on its way to a disconnect found
  the client gone or finds `terminal` set, and a closed response whose
  controller is through has disposed of its subscription.
* `TurnRoutesProofs`. The properties speak of ended turns; the invariant says
  what holds before the end: an open turn has shown no closing event and stored
  no answer, one that has not come has stored nothing (`OpenInv`); the
  questions that an open `/recommend/stream` has shown are those of the
  interrupt that stays in its merged result (`QuestionsInv`). As a step moves one
  request, tells it at most one event, and stores at most one message of its own
  and then a canned one, `MovesKeep` proves once
  what every such step preserves, `EndKeeps` and `GoesOnKeeps` specialise it,
  and the lemma of an action shows that it is such a step. `StoredOrdered`
  carries the order of questions and answers through the truncation of the
  messages. A turn whose write raised is no exception to any of this: it ends
  as `raised`, which an answer may outlive and a memory may not.
  `ClosingIsLast`, `FailedRunsKeptOut` and `QuestionsBeforeAnswers` hold for
  any requests and any limit, `OutcomesAreTold` under `"empty" \notin Payloads`.
* `AgentGraphProofs`. The invariant says of the node that is scheduled: a list
  waiting for its decision is the agent's and not confirmed (`DecisionInv`);
  the number of the pass is at most the coverage and two (`PassInv`), as every
  pass but the first two has raised it; a run has made at most the supersteps
  of the straight way to its node and four for each pass (`StepBound`); evidence
  has become a candidate before the answer is written, and what any pass found
  has its record (`EvidenceInv`). From it
  follow `OnlyDecidedSearches`, `RefinementBound`, `EvidenceReachesAnswer`, and
  `LimitUnreached`: with a recursion limit above `8 + 4 * max_iterations` no
  run exhausts it.
* `StoresProofs`, first part: the index. `SourceStaysWhole` and `MirrorOnlyLags`
  speak of the stores; the invariant adds what the place of the job says it has
  written (`JobInv`): the parents before the children, the whole version from
  `mirror` on, no stale record left in the mirror when `drop` begins, and a
  mirror that has every record of Chroma when `prune` begins. A record lies
  under an id of its path's name (`Homed`), so that a write or a removal can
  touch no path of another name. `Indexed` says that a path with any record has
  a whole version under one id (`Holds`) as long as none of its twins has any
  chunk (`Alone`); a path that stays alone keeps a record at every step
  (`Kept`), and where the twins have no parents either (`Apart`), the parents of
  that version are its own. Each action is shown to keep the invariant and to be
  a step of both properties, for any files, names, versions and numbers of
  chunks, and for every subset of a bulk request that failed.
* `StoresProofs`, second part: conversations. What a handler has left to do is a suffix of one
  of five lists (`IsTodo`). The invariant says which value the memory and the
  session hold at each place of that suffix (`FactInv`), when a store agrees
  with its file (`FileInv`), and that every copy of a fact, in memory or in a
  file, is one that was promised unless it was lost (`PromiseInv`): this is
  needed because the value recalled may come from either store, and a restart
  replaces both by their files at once. The bucket of items needs that the sort
  of `_write_memory_item` is an order of the bucket (`Sorted`): the number of
  items before one is injective, so that it is onto, by cardinality. What is
  cut is then no later than what is left, and as dates differ, earlier.
* `StoresProofs`, last part: the recommendation's row. `CanonicalFields` and
  `AnswerStored` speak of the committed row; the inductive invariant says the
  same of every row an open transaction is about to write, whichever commits
  last.
* `CallProofs`. The ledger, the fan-out and the tool loop add up sets and build
  sequences with the folds of the community modules. Those are recursive
  functions over subsets or positions; what they return is obtained without an
  induction theorem that takes an operator: `NatSetInduction` is induction over
  a *set* of numbers, from the least number outside it, and `SubsetRecursion`
  says by it that a function defined by taking members away satisfies its own
  equation. Sums, `FlattenSeq` and `FoldLeft` unfold from there.
  `CallsAreAccounted` follows from `LedgerInv`: the two buckets agree, except
  for the one call whose thread is between the two halves of an entry, under
  the lock; a finished call is booked once since the last reset, and a thread
  on its way has made no more attempts than it is allowed.
  `RecordsMatchQuestions` follows from `FanoutInv`: a question has a
  record once its future was collected, in the order of the questions; the
  documents kept so far are those of the records; and in the end the evidence
  is among them, each once, as many as the limit admits.
  `EveryCallAnswered` follows from `LoopInv`: the replies of the transcript and
  the calls still waiting are, in this order, the calls asked for, and the
  calls that ran are a sequence without repetition as long as the counter. Both
  are sequences cut out of the transcript, so each action comes down to what a
  message more does to them.
* `SearchProofs`, first part: `SearchesAreFaithful`. `Merged` is a fold over the
  channels, and its order a sort, which is here the counting of what comes
  before: in a strict order of a finite set each place is taken once
  (`PlacesAreTaken`, in `CallProofs`). `IsMerged` and `DedupKeeps` say what joining, fusing and
  dropping repeated documents keep: nothing that was not found, one document of
  each identity, the better of two. `SearchInv` says of the search itself that
  the budget does not change on the way and is not exceeded, that a channel
  that is not answered has found nothing, that the web has not been asked while
  only local channels were to be, and that nothing is pending when it merges.
* `SearchProofs`, second part: `DecisionsHold`, for the two state machines at
  once. `DecideInv`: a client that has not decided has no decision; an open
  circuit was opened by a client whose call was lost; a client that weighs the
  model's choice of a skill has the rule's choice, and a doubtful one, in hand.
  `JudgeInv`: all scores are the judge's, each that of an entry with the number
  of its item, or all are the heuristic's.
* `ChunkingProofs`: `ChunkedTextIsWhole`, that no text is lost between the blocks
  of a parser and the text read back. The loops are proved once: `ChainFollows`
  gives the places `P` that a `Chain` visits, and says that every place lies
  between one of these and the next; `PathInduction` is the induction it needs,
  over the set of places still to come. What a loop loses or reorders is then a
  question about one of its steps. From below upwards: trimming keeps the ink
  (what is not white space) and the order; sentences, windows of a fixed width
  and packed sentences cut a text without loss (`ContentCut`), and so a part of
  it moved to its place (`PartCut`); joined lines and blocks lie at their
  offsets (`JoinedLaid`, `AssembledFit`); prose, rows and lines are packed
  without loss (`ProseFits`, `UnitsPacked`), and so is a run of blocks of one
  section (`StructuralFits`). The statement that goes through is about parts,
  as parents are cut again: a window is good (`GoodBounds`, `CanCut`) if it cuts
  no row and no line and has ink in every block it meets, the whole text is
  good (`WholeIsGood`), and the pieces of a good window are good
  (`CutUpFits`), so that the children of a parent lose nothing either
  (`ParentsCut`). `TextIsRead` is about reading back: the pieces sorted by their
  starts, each read from where the last has ended, give every offset once and in
  order. `ChunkInv` puts these together for the three operations.

Model-checked only:

* the liveness properties; liveness and `ENABLED` are out of the prover's reach.
  Every other property of a passing run is stated by a theorem;
* the two findings, which are counterexamples.

## 5. Not modelled

Left out of modelled components (`partly` in `PROJECT.json`): the texts of
prompts, answers, questions and progress; `createConversation` and
`resolveTaskId`, which do not touch the row; the model's re-ranker and query
rewriting; the draw branch and the baseline graph, which no request reaches;
parsing of PDF and Markdown into blocks, which is a grammar of text; how names
and the words of a query are found; the ranking of `memory_retriever.py` beyond
the merging of facts; `clear_session`, which nothing calls; branches that a
setting switches off as a whole.

Not modelled at all:

| Component | Why |
|---|---|
| Embedding and loading | calls of a service and reading of files; the only shared state is a cache of loaded models |
| FastAPI application shell | configuration, request models, API keys; no state after start-up |
| Multimodal input | decoding, validation and embedding of one image in one call |
| Performance and logging | observation; influences no control |
| Evaluation harness | offline scripts on which the service does not depend |
| Spring chat proxy | translation of requests; the client is the upstream of `SseStreamHandle` |
| Spring conversations and sessions | single-transaction reads and writes; `RecommendTask` models what it needs of them |
| React chat client | one browser tab and its rendering; the server does not depend on its state |
| Experiments and tooling | older front ends, scripts, deployment, CI |

Hazards without a property (`PROJECT.json`, `hazards`, with a note): the one
heartbeat thread of all responses needs several responses; a confirm that
answers an older pause and images that share their id break nothing the code
promises, and the models have both; which evidence is sufficient is nowhere
stated.
