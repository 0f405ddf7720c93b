---------------------------- MODULE RecommendTask ----------------------------
(***************************************************************************)
(* conversation/service/RecommendTaskStateService.java, with the streams   *)
(* of RecommendTaskController.java that call it: the life of one row of    *)
(* recommend_tasks.                                                        *)
(*                                                                         *)
(* Transactions.  Every operation reads the row, decides, and writes the   *)
(* whole row when it commits: the entity has no version and the database   *)
(* reads committed rows, so whatever was committed in between is lost.  A  *)
(* transaction is opened by one action and committed by another; one that  *)
(* changes nothing writes nothing, and is a single action or none.         *)
(*                                                                         *)
(* Time.  expire_at may pass at any moment, and a heartbeat grows old only *)
(* while no scheduled beat renews it.  The session, the texts and the      *)
(* progress bar are left out; a result is named by who delivered it.       *)
(***************************************************************************)
EXTENDS Naturals, FiniteSets

CONSTANTS
  Streams,       \* SSE requests: recommend/stream and confirm/stream
  Confirms,      \* POST recommend/confirm requests
  Creator,       \* POST recommend, as the source of a result
  Nobody,        \* no source, no request, no transaction
  MaxBeats,      \* bound of the model: beats that overlap something else
  MaxCrashes     \* bound of the model: restarts of the service

ASSUME SourcesAssumption ==
  /\ Streams \cap Confirms = {}
  /\ Creator \notin Streams \cup Confirms
  /\ Nobody \notin Streams \cup Confirms \cup {Creator}

ASSUME BoundsAssumption == MaxBeats \in Nat /\ MaxCrashes \in Nat

VARIABLES
  row,         \* the committed row, or Nobody before it is inserted
  stored,      \* sources whose answer is an assistant message
  overdue,     \* expire_at is in the past
  tx,          \* the open transaction of each owner: what it will write
  stream,      \* where each SSE request is
  request,     \* where each confirm request is
  worker,      \* where the task of each confirm is in confirmExecutor
  running,     \* runningTaskIds contains the task
  registered,  \* heartbeatFutures: who scheduled the task's future
  ticking,     \* futures that are neither cancelled nor dead
  sweep,       \* where reconcileStalledTasks is
  beats,       \* beats so far
  crashes      \* restarts so far

rowVars == <<row, stored, overdue>>
beatVars == <<registered, ticking, beats>>
vars == <<rowVars, tx, stream, request, worker, running, beatVars, sweep, crashes>>

-----------------------------------------------------------------------------
(* Rows *)

Failure == {"FAILED", "EXPIRED"}
Terminal == {"DONE"} \cup Failure
Status == {"PENDING_CONFIRM", "GENERATING"} \cup Terminal

Sources == Streams \cup Confirms \cup {Creator}

Row == [status : Status, sub : BOOLEAN, result : Sources \cup {Nobody},
        error : BOOLEAN, fresh : BOOLEAN]

(* Mutant: the final result is kept whatever the status. *)
Canonical_KeepsResult(status, sub, result, error) ==
  [status |-> status,
   sub    |-> status = "PENDING_CONFIRM" /\ sub,
   result |-> result,
   error  |-> status \in Failure /\ error,
   fresh  |-> TRUE]

(* applyCanonicalTaskState.  The heartbeat matters only while the task     *)
(* generates, and every caller that makes it generate renews it as well.   *)
Canonical(status, sub, result, error) ==
  [status |-> status,
   sub    |-> status = "PENDING_CONFIRM" /\ sub,
   result |-> IF status = "DONE" THEN result ELSE Nobody,
   error  |-> status \in Failure /\ error,
   fresh  |-> TRUE]

Generating == Canonical("GENERATING", FALSE, Nobody, FALSE)

(* applyLifecycleRules: expired first, stalled only if it still generates. *)
Refreshed(t) ==
  IF overdue /\ t.status \notin {"DONE", "EXPIRED"}
  THEN Canonical("EXPIRED", FALSE, Nobody, TRUE)
  ELSE IF t.status = "GENERATING" /\ ~t.fresh
  THEN Canonical("FAILED", FALSE, Nobody, TRUE)
  ELSE t

(* Mutant: FastAPI's progress is stored as CONFIRMED. *)
Answered_Confirmed(status, sub, source, error) ==
  Canonical(IF sub THEN "PENDING_CONFIRM"
            ELSE IF status = "GENERATING" THEN "CONFIRMED" ELSE status,
            sub, source, error)

(* resolveStatusFromFastApi: any status, and PENDING_CONFIRM whenever      *)
(* there are pending sub-questions.                                        *)
Answered(status, sub, source, error) ==
  Canonical(IF sub THEN "PENDING_CONFIRM" ELSE status, sub, source, error)

(* What applyStreamEvent makes of a row that is not terminal, by the type  *)
(* of the event: progress (meta, node, state, token) leaves a task that    *)
(* waits for its confirmation alone, "other" is any unknown type.          *)
EventRow(t, type, sub, source) ==
  CASE type = "progress" -> IF t.status = "PENDING_CONFIRM"
                            THEN [t EXCEPT !.fresh = TRUE]
                            ELSE Generating
    [] type = "awaiting_confirmation" ->
         Canonical("PENDING_CONFIRM", sub, Nobody, FALSE)
    [] type = "final" -> Canonical("DONE", FALSE, source, FALSE)
    [] type = "error" -> Canonical("FAILED", FALSE, Nobody, TRUE)
    [] type = "other" -> [t EXCEPT !.fresh = TRUE]

EventTypes == {"progress", "awaiting_confirmation", "final", "error", "other"}

-----------------------------------------------------------------------------
(* Transactions *)

Sweeper == <<"sweep", Nobody>>
Poller == <<"poll", Nobody>>

Owners ==
  ({"event", "disconnect"} \X Streams) \cup
  ({"request", "worker", "beat"} \X Confirms) \cup {Sweeper, Poller}

Exists == row # Nobody

IsOpen(o) == tx[o] # Nobody

(* o has read the row and will write t, together with the assistant        *)
(* message of the source it names, if it names one.                        *)
Opened(o, t, source) == [tx EXCEPT ![o] = [row |-> t, answer |-> source]]

Commit(o) ==
  /\ IsOpen(o)
  /\ row' = tx[o].row
  /\ stored' = stored \cup ({tx[o].answer} \ {Nobody})
  /\ tx' = [tx EXCEPT ![o] = Nobody]
  /\ UNCHANGED overdue

-----------------------------------------------------------------------------

Init ==
  /\ row = Nobody
  /\ stored = {}
  /\ overdue = FALSE
  /\ tx = [o \in Owners |-> Nobody]
  /\ stream = [s \in Streams |-> "new"]
  /\ request = [c \in Confirms |-> "new"]
  /\ worker = [c \in Confirms |-> "none"]
  /\ running = FALSE
  /\ registered = Nobody
  /\ ticking = {}
  /\ sweep = "idle"
  /\ beats = 0
  /\ crashes = 0

(* createRecommendTask: the call to FastAPI is over when the row appears.  *)
(* A failure reported by FastAPI itself carries no message.                *)
CreateTask ==
  /\ ~Exists
  /\ \E status \in Status, sub, error \in BOOLEAN, source \in {Creator, Nobody} :
       /\ error => status = "FAILED" /\ ~sub
       /\ row' = Answered(status, sub, source, error)
       /\ stored' = stored \cup ({row'.result} \ {Nobody})
  /\ UNCHANGED <<overdue, tx, stream, request, worker, running, beatVars,
                 sweep, crashes>>

(* createStreamingTask, and the upstream subscription that follows. *)
CreateStreamingTask(s) ==
  /\ ~Exists
  /\ row' = Generating
  /\ stream' = [stream EXCEPT ![s] = "running"]
  /\ UNCHANGED <<stored, overdue, tx, request, worker, running, beatVars,
                 sweep, crashes>>

(* Time *)
ExpireAtPasses ==
  /\ Exists /\ ~overdue
  /\ overdue' = TRUE
  /\ UNCHANGED <<row, stored, tx, stream, request, worker, running, beatVars,
                 sweep, crashes>>

(* STALLED_THRESHOLD passes without a write.  A future that still ticks    *)
(* renews the heartbeat every four seconds and does not let it grow old.   *)
HeartbeatAges ==
  /\ Exists
  /\ row.status = "GENERATING" /\ row.fresh
  /\ ticking = {}
  /\ row' = [row EXCEPT !.fresh = FALSE]
  /\ UNCHANGED <<stored, overdue, tx, stream, request, worker, running,
                 beatVars, sweep, crashes>>

-----------------------------------------------------------------------------
(* SSE requests *)

(* prepareConfirmStreamingTask; a refusal throws, which rolls back what    *)
(* the lifecycle rules had written.                                        *)
PrepareConfirmStream(s) ==
  /\ Exists
  /\ stream[s] = "new"
  /\ IF Refreshed(row).status = "PENDING_CONFIRM"
     THEN /\ tx' = Opened(<<"event", s>>, Generating, Nobody)
          /\ stream' = [stream EXCEPT ![s] = "preparing"]
     ELSE /\ stream' = [stream EXCEPT ![s] = "over"]
          /\ UNCHANGED tx
  /\ UNCHANGED <<rowVars, request, worker, running, beatVars, sweep, crashes>>

(* Mutant: the final event leaves the assistant message to someone else. *)
ApplyStreamEvent_NoMessage(o, type, sub, source) ==
  LET t == Refreshed(row) IN
    IF t.status \in Terminal
    THEN tx' = IF t = row THEN tx ELSE Opened(o, t, Nobody)
    ELSE tx' = Opened(o, EventRow(t, type, sub, source), Nobody)

(* applyStreamEvent, on behalf of o. *)
ApplyStreamEvent(o, type, sub, source) ==
  LET t == Refreshed(row) IN
    IF t.status \in Terminal
    THEN tx' = IF t = row THEN tx ELSE Opened(o, t, Nobody)
    ELSE LET u == EventRow(t, type, sub, source) IN tx' = Opened(o, u, u.result)

(* The next event of the upstream subscription, which delivers one at a    *)
(* time and none after it was disposed.                                    *)
StreamEvent(s) ==
  /\ Exists
  /\ stream[s] = "running"
  /\ ~IsOpen(<<"event", s>>)
  /\ \E type \in EventTypes, sub \in BOOLEAN, source \in {s, Nobody} :
       ApplyStreamEvent(<<"event", s>>, type, sub, source)
  /\ UNCHANGED <<rowVars, stream, request, worker, running, beatVars, sweep,
                 crashes>>

StreamCommit(s) ==
  /\ Commit(<<"event", s>>)
  /\ stream' = [stream EXCEPT ![s] = IF @ = "preparing" THEN "running" ELSE @]
  /\ UNCHANGED <<request, worker, running, beatVars, sweep, crashes>>

(* The upstream completes or fails: neither touches the row. *)
StreamEnds(s) ==
  /\ stream[s] = "running"
  /\ ~IsOpen(<<"event", s>>)
  /\ stream' = [stream EXCEPT ![s] = "over"]
  /\ UNCHANGED <<rowVars, tx, request, worker, running, beatVars, sweep, crashes>>

(* The onDisconnect callback, in the thread that found the client gone: an *)
(* event of the subscription may be half applied.                          *)
ClientDisconnects(s) ==
  /\ Exists
  /\ stream[s] = "running"
  /\ stream' = [stream EXCEPT ![s] = "over"]
  /\ ApplyStreamEvent(<<"disconnect", s>>, "error", FALSE, Nobody)
  /\ UNCHANGED <<rowVars, request, worker, running, beatVars, sweep, crashes>>

DisconnectCommit(s) ==
  /\ Commit(<<"disconnect", s>>)
  /\ UNCHANGED <<stream, request, worker, running, beatVars, sweep, crashes>>

-----------------------------------------------------------------------------
(* Confirm requests: confirmTask, and startAsyncConfirm inside its          *)
(* transaction                                                             *)

ConfirmTask(c) ==
  /\ Exists
  /\ request[c] = "new"
  /\ LET t == Refreshed(row) IN
       IF t.status \in Terminal
       THEN /\ tx' = IF t = row THEN tx ELSE Opened(<<"request", c>>, t, Nobody)
            /\ request' = [request EXCEPT ![c] = "saved"]
       ELSE /\ tx' = Opened(<<"request", c>>, Generating, Nobody)
            /\ request' = [request EXCEPT ![c] = "claiming"]
  /\ UNCHANGED <<rowVars, stream, worker, running, beatVars, sweep, crashes>>

(* runningTaskIds.add; a task that runs already gets no second worker. *)
ClaimTask(c) ==
  /\ request[c] = "claiming"
  /\ running' = TRUE
  /\ request' = [request EXCEPT ![c] = IF running THEN "saved" ELSE "scheduling"]
  /\ UNCHANGED <<rowVars, tx, stream, worker, beatVars, sweep, crashes>>

(* cancelHeartbeat *)
CancelHeartbeat ==
  /\ ticking' = ticking \ {registered}
  /\ registered' = Nobody
  /\ UNCHANGED beats

(* scheduleHeartbeat cancels the task's future, then puts a new one;       *)
(* confirmExecutor, which is not bounded, takes the task at once.          *)
ReplaceHeartbeat(c) ==
  /\ request[c] = "scheduling"
  /\ CancelHeartbeat
  /\ request' = [request EXCEPT ![c] = "submitting"]
  /\ UNCHANGED <<rowVars, tx, stream, worker, running, sweep, crashes>>

SubmitWorker(c) ==
  /\ request[c] = "submitting"
  /\ registered' = c
  /\ ticking' = ticking \cup {c}
  /\ worker' = [worker EXCEPT ![c] = "calling"]
  /\ request' = [request EXCEPT ![c] = "saved"]
  /\ UNCHANGED <<rowVars, tx, stream, running, beats, sweep, crashes>>

(* The response leaves when the transaction has committed; if it changed   *)
(* nothing there is nothing to commit.                                     *)
ConfirmCommit(c) ==
  /\ request[c] = "saved"
  /\ request' = [request EXCEPT ![c] = "over"]
  /\ IF IsOpen(<<"request", c>>)
     THEN Commit(<<"request", c>>)
     ELSE UNCHANGED <<rowVars, tx>>
  /\ UNCHANGED <<stream, worker, running, beatVars, sweep, crashes>>

-----------------------------------------------------------------------------
(* The task of a confirm in confirmExecutor *)

(* FastAPI answers, and applyConfirmResponse reads the row: it asks for    *)
(* neither the status nor the expiry.  A FAILED answer always has an error *)
(* message, an EXPIRED one never.                                          *)
WorkerAnswers(c) ==
  /\ worker[c] = "calling"
  /\ Exists
  /\ \E status \in Status, sub \in BOOLEAN, source \in {c, Nobody} :
       LET t == Answered(status, sub, source, status = "FAILED")
       IN tx' = Opened(<<"worker", c>>, t, t.result)
  /\ worker' = [worker EXCEPT ![c] = "applying"]
  /\ UNCHANGED <<rowVars, stream, request, running, beatVars, sweep, crashes>>

(* The call to FastAPI throws: markFailed. *)
WorkerFails(c) ==
  /\ worker[c] = "calling"
  /\ Exists
  /\ tx' = Opened(<<"worker", c>>, Canonical("FAILED", FALSE, Nobody, TRUE),
                  Nobody)
  /\ worker' = [worker EXCEPT ![c] = "applying"]
  /\ UNCHANGED <<rowVars, stream, request, running, beatVars, sweep, crashes>>

(* Mutant: the clean-up follows the success path only. *)
WorkerCommit_NoFinally(c) ==
  /\ worker[c] = "applying"
  /\ Commit(<<"worker", c>>)
  /\ worker' = [worker EXCEPT ![c] = IF tx[<<"worker", c>>].row.status = "FAILED"
                                     THEN "over" ELSE "cancelling"]
  /\ UNCHANGED <<stream, request, running, beatVars, sweep, crashes>>

WorkerCommit(c) ==
  /\ worker[c] = "applying"
  /\ Commit(<<"worker", c>>)
  /\ worker' = [worker EXCEPT ![c] = "cancelling"]
  /\ UNCHANGED <<stream, request, running, beatVars, sweep, crashes>>

(* finally: the future the map names, whoever scheduled it ... *)
WorkerCancelsHeartbeat(c) ==
  /\ worker[c] = "cancelling"
  /\ CancelHeartbeat
  /\ worker' = [worker EXCEPT ![c] = "removing"]
  /\ UNCHANGED <<rowVars, tx, stream, request, running, sweep, crashes>>

(* ... then runningTaskIds.remove. *)
WorkerEnds(c) ==
  /\ worker[c] = "removing"
  /\ running' = FALSE
  /\ worker' = [worker EXCEPT ![c] = "over"]
  /\ UNCHANGED <<rowVars, tx, stream, request, beatVars, sweep, crashes>>

-----------------------------------------------------------------------------
(* Scheduled work *)

(* A beat of the future scheduled for c.  One that finds the task neither  *)
(* CONFIRMED nor GENERATING writes nothing.                                *)
Beat(c) ==
  /\ Exists
  /\ c \in ticking
  /\ ~IsOpen(<<"beat", c>>)
  /\ beats < MaxBeats
  /\ row.status = "GENERATING"
  /\ tx' = Opened(<<"beat", c>>, [row EXCEPT !.fresh = TRUE], Nobody)
  /\ beats' = beats + 1
  /\ UNCHANGED <<rowVars, stream, request, worker, running, registered, ticking,
                 sweep, crashes>>

(* A beat begun before its future was cancelled may still commit. *)
BeatCommit(c) ==
  /\ Commit(<<"beat", c>>)
  /\ UNCHANGED <<stream, request, worker, running, beatVars, sweep, crashes>>

(* A beat throws (the cancellation interrupts it, the database refuses the *)
(* write): it is rolled back, and scheduleAtFixedRate runs no other.       *)
BeatThrows(c) ==
  /\ IsOpen(<<"beat", c>>)
  /\ tx' = [tx EXCEPT ![<<"beat", c>>] = Nobody]
  /\ ticking' = ticking \ {c}
  /\ UNCHANGED <<rowVars, stream, request, worker, running, registered, beats,
                 sweep, crashes>>

(* Mutants: only tasks without, or only tasks with, a worker are swept. *)
ReconcileStalledTasks_SkipsRunning ==
  /\ Exists
  /\ sweep = "idle"
  /\ row.status = "GENERATING"
  /\ ~running
  /\ LET t == Refreshed(row) IN
       /\ t # row
       /\ tx' = Opened(Sweeper, t, Nobody)
       /\ sweep' = IF t.status = "FAILED" THEN "cancelling" ELSE "saved"
  /\ UNCHANGED <<rowVars, stream, request, worker, running, beatVars, crashes>>

ReconcileStalledTasks_OnlyRunning ==
  /\ Exists
  /\ sweep = "idle"
  /\ row.status = "GENERATING"
  /\ running
  /\ LET t == Refreshed(row) IN
       /\ t # row
       /\ tx' = Opened(Sweeper, t, Nobody)
       /\ sweep' = IF t.status = "FAILED" THEN "cancelling" ELSE "saved"
  /\ UNCHANGED <<rowVars, stream, request, worker, running, beatVars, crashes>>

(* reconcileStalledTasks, every ten seconds *)
ReconcileStalledTasks ==
  /\ Exists
  /\ sweep = "idle"
  /\ row.status = "GENERATING"
  /\ LET t == Refreshed(row) IN
       /\ t # row
       /\ tx' = Opened(Sweeper, t, Nobody)
       /\ sweep' = IF t.status = "FAILED" THEN "cancelling" ELSE "saved"
  /\ UNCHANGED <<rowVars, stream, request, worker, running, beatVars, crashes>>

SweepCancelsHeartbeat ==
  /\ sweep = "cancelling"
  /\ CancelHeartbeat
  /\ sweep' = "removing"
  /\ UNCHANGED <<rowVars, tx, stream, request, worker, running, crashes>>

SweepRemovesTask ==
  /\ sweep = "removing"
  /\ running' = FALSE
  /\ sweep' = "saved"
  /\ UNCHANGED <<rowVars, tx, stream, request, worker, beatVars, crashes>>

SweepCommit ==
  /\ sweep = "saved"
  /\ Commit(Sweeper)
  /\ sweep' = "idle"
  /\ UNCHANGED <<stream, request, worker, running, beatVars, crashes>>

(* getTaskState and listConversationTasks apply the lifecycle rules too. *)
GetTaskState ==
  /\ Exists
  /\ ~IsOpen(Poller)
  /\ Refreshed(row) # row
  /\ tx' = Opened(Poller, Refreshed(row), Nobody)
  /\ UNCHANGED <<rowVars, stream, request, worker, running, beatVars, sweep,
                 crashes>>

PollCommit ==
  /\ Commit(Poller)
  /\ UNCHANGED <<stream, request, worker, running, beatVars, sweep, crashes>>

(* The service stops and starts again: the database keeps what was         *)
(* committed, everything in memory is gone.                                *)
Restart ==
  /\ crashes < MaxCrashes
  /\ crashes' = crashes + 1
  /\ tx' = [o \in Owners |-> Nobody]
  /\ stream' = [s \in Streams |-> IF stream[s] = "new" THEN "new" ELSE "over"]
  /\ request' = [c \in Confirms |-> IF request[c] = "new" THEN "new" ELSE "over"]
  /\ worker' = [c \in Confirms |-> IF worker[c] = "none" THEN "none" ELSE "over"]
  /\ running' = FALSE
  /\ registered' = Nobody
  /\ ticking' = {}
  /\ sweep' = "idle"
  /\ UNCHANGED <<rowVars, beats>>

-----------------------------------------------------------------------------

(* Every request has its answer and the task waits for nothing but time. *)
Quiescent ==
  /\ Exists /\ row.status # "GENERATING"
  /\ \A o \in Owners : ~IsOpen(o)
  /\ \A s \in Streams : stream[s] = "over"
  /\ \A c \in Confirms : request[c] = "over" /\ worker[c] \in {"none", "over"}
  /\ sweep = "idle"
  /\ UNCHANGED vars

StreamStep(s) ==
  \/ CreateStreamingTask(s) \/ PrepareConfirmStream(s) \/ StreamEvent(s)
  \/ StreamCommit(s) \/ StreamEnds(s) \/ ClientDisconnects(s)
  \/ DisconnectCommit(s)

RequestStep(c) ==
  \/ ClaimTask(c) \/ ReplaceHeartbeat(c) \/ SubmitWorker(c) \/ ConfirmCommit(c)

WorkerStep(c) ==
  \/ WorkerAnswers(c) \/ WorkerFails(c) \/ WorkerCommit(c)
  \/ WorkerCancelsHeartbeat(c) \/ WorkerEnds(c)

BeatStep(c) == Beat(c) \/ BeatCommit(c) \/ BeatThrows(c)

SweepStep ==
  \/ ReconcileStalledTasks \/ SweepCancelsHeartbeat \/ SweepRemovesTask
  \/ SweepCommit

Next ==
  \/ CreateTask \/ ExpireAtPasses \/ HeartbeatAges
  \/ SweepStep \/ GetTaskState \/ PollCommit \/ Restart
  \/ Quiescent
  \/ \E s \in Streams : StreamStep(s)
  \/ \E c \in Confirms : ConfirmTask(c) \/ RequestStep(c) \/ WorkerStep(c)
                           \/ BeatStep(c)

Spec == Init /\ [][Next]_vars

(* Fairness.  Time passes, the sweep is scheduled every ten seconds, and   *)
(* an open transaction is committed.  No client is obliged to confirm, no  *)
(* upstream to send an event.                                              *)
ServiceFairness ==
  /\ WF_vars(ExpireAtPasses) /\ WF_vars(HeartbeatAges)
  /\ WF_vars(SweepStep) /\ WF_vars(PollCommit)
  /\ \A s \in Streams : WF_vars(StreamCommit(s)) /\ WF_vars(DisconnectCommit(s))
  /\ \A c \in Confirms :
       /\ WF_vars(RequestStep(c))
       /\ WF_vars(WorkerCommit(c))
       /\ WF_vars(BeatCommit(c) \/ BeatThrows(c))

(* FastAPI answers or its connection breaks, so a worker comes to its end. *)
AnswerFairness == \A c \in Confirms : WF_vars(WorkerStep(c))

ServiceFairSpec == Spec /\ ServiceFairness

-----------------------------------------------------------------------------
(* Properties *)

(* The row, the transactions and the in-memory maps have their shapes. *)
TypeOK ==
  /\ row \in Row \cup {Nobody}
  /\ stored \subseteq Sources
  /\ overdue \in BOOLEAN
  /\ tx \in [Owners -> [row : Row, answer : Sources \cup {Nobody}] \cup {Nobody}]
  /\ stream \in [Streams -> {"new", "preparing", "running", "over"}]
  /\ request \in [Confirms -> {"new", "claiming", "scheduling", "submitting",
                               "saved", "over"}]
  /\ worker \in [Confirms -> {"none", "calling", "applying", "cancelling",
                              "removing", "over"}]
  /\ running \in BOOLEAN
  /\ registered \in Confirms \cup {Nobody}
  /\ ticking \subseteq Confirms
  /\ sweep \in {"idle", "cancelling", "removing", "saved"}
  /\ beats \in 0..MaxBeats
  /\ crashes \in 0..MaxCrashes

IsCanonical(t) ==
  /\ t.sub => t.status = "PENDING_CONFIRM"
  /\ t.result # Nobody => t.status = "DONE"
  /\ t.error => t.status \in Failure

(* The field semantics the comment above applyCanonicalTaskState promises, *)
(* in every committed row, whichever transactions overwrote each other.    *)
CanonicalFields == Exists => IsCanonical(row)

(* The answer a DONE row shows is in the conversation as an assistant      *)
(* message, although the row and the messages are written by whichever of  *)
(* the racing transactions commits last.                                   *)
AnswerStored ==
  Exists /\ row.result # Nobody => row.result \in stored

(* A task does not stay GENERATING for ever, also when its worker hangs,   *)
(* its confirm was accepted and nothing runs, its heartbeat is orphaned or *)
(* the service restarted: the lifecycle rules settle it in the end.        *)
EventuallySettled == <>[](Exists => row.status # "GENERATING")

(* When FastAPI answers, workers let go of the task whatever the sweep,    *)
(* another worker or a failing call did meanwhile: a later confirm is not  *)
(* taken for a second one and dropped.                                     *)
WorkersLetGo == AnswerFairness => <>[](~running /\ registered = Nobody)

(* "prevent terminal database states from being overwritten by late        *)
(* events": a terminal row keeps its status; it may only expire.           *)
TerminalIsFinal ==
  [][Exists /\ row.status \in Terminal =>
       row'.status = row.status \/ row'.status = "EXPIRED"]_row

=============================================================================
