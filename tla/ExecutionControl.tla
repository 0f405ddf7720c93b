-------------------------- MODULE ExecutionControl --------------------------
(***************************************************************************)
(* fastapi_demo/software_recommend_system/execution_control.py: admission  *)
(* of graph runs, their execution on a fixed thread pool, and the callers  *)
(* (run_controlled, stream_controlled) that wait for them, time out, are   *)
(* cancelled, or consume a bounded stream.                                 *)
(*                                                                         *)
(* Threads.  Callers are coroutines of one event loop: nothing of another  *)
(* caller runs between two awaits, which "loop" expresses.  Worker threads *)
(* interleave with the callers and with each other at every step.          *)
(*                                                                         *)
(* Data.  What the graph computes is left out; a stream item is counted.   *)
(* A deadline is a flag that may rise at any time after admission.         *)
(***************************************************************************)
EXTENDS Naturals, Sequences, FiniteSets

CONSTANTS
  Runs,              \* requests, each with the RunControl made for it
  Streams,           \* the runs started by stream_controlled
  Sessions,          \* session identifiers
  SessionOf,         \* the session each run names
  MaxActiveRuns,     \* _MAX_ACTIVE_RUNS: permits and pool threads
  StreamBufferSize,  \* _STREAM_BUFFER_SIZE
  MaxItems,          \* bound of the model: items one stream may produce
  NoRun              \* "no run"

ASSUME RunsAssumption ==
  /\ IsFiniteSet(Runs)
  /\ Streams \subseteq Runs
  /\ SessionOf \in [Runs -> Sessions]
  /\ NoRun \notin Runs

ASSUME SizesAssumption ==
  /\ MaxActiveRuns \in Nat \ {0}
  /\ StreamBufferSize \in Nat \ {0}
  /\ MaxItems \in Nat

VARIABLES
  active,      \* _ACTIVE_SESSIONS: session -> its run, or NoRun
  permits,     \* the value of _CAPACITY
  loop,        \* the caller now running on the event loop, or NoRun
  caller,      \* where each caller is, and how it ended
  work,        \* where the work item of each run is
  outcome,     \* how the operation of a call ended, for its future
  poolQueue,   \* the work queue of _POOL
  stopReason,  \* RunControl.stop_reason ("none": stop_event is not set)
  expired,     \* remaining_seconds has reached 0
  outbox,      \* the message a producer is publishing
  messages,    \* the bounded queue between a producer and its consumer
  produced,    \* items put in that queue
  delivered    \* items yielded to the consumer

admissionVars == <<active, permits, loop>>
stopVars == <<stopReason, expired>>
queueVars == <<messages, produced, delivered>>
streamVars == <<outbox, queueVars>>
vars == <<admissionVars, caller, work, outcome, poolQueue, stopVars, streamVars>>

-----------------------------------------------------------------------------
(* Values *)

StopReasons == {"timeout", "cancelled", "recursion_limit"}

(* A caller ends by refusal, with a result, with an error, or stopped. *)
Refused == {"conflict", "capacity"}
Settled == Refused \cup {"done", "error"} \cup StopReasons

CallerStates ==
  {"new", "registered", "rejecting", "admitted", "waiting", "yielded"}
    \cup Settled

(* "finishing" and "releasing" are the two halves of _release_run;         *)
(* "returning" is a thread on its way back to the pool.                    *)
WorkStates ==
  {"none", "pending", "dropped", "running", "publishing", "finishing",
   "releasing", "returning", "resolved"}

Message == {"item", "done", "error"}

(* Runs whose graph work is admitted and not over. *)
Executing == {r \in Runs : work[r] \in {"pending", "running", "publishing"}}

(* Runs whose work is over, one way or the other. *)
Ended == {r \in Runs : work[r] \in {"dropped", "finishing", "releasing",
                                    "returning", "resolved"}}

(* Runs that occupy a thread of _POOL. *)
OnThread == {r \in Runs : work[r] \in {"running", "publishing", "finishing",
                                       "releasing", "returning"}}

(* Runs that hold a permit of _CAPACITY. *)
Holders ==
  {r \in Runs : \/ caller[r] = "admitted"
                \/ work[r] \in {"pending", "dropped", "running", "publishing",
                                "finishing", "releasing"}}

-----------------------------------------------------------------------------

Init ==
  /\ active = [s \in Sessions |-> NoRun]
  /\ permits = MaxActiveRuns
  /\ loop = NoRun
  /\ caller = [r \in Runs |-> "new"]
  /\ work = [r \in Runs |-> "none"]
  /\ outcome = [r \in Runs |-> "none"]
  /\ poolQueue = <<>>
  /\ stopReason = [r \in Runs |-> "none"]
  /\ expired = [r \in Runs |-> FALSE]
  /\ outbox = [r \in Runs |-> "none"]
  /\ messages = [r \in Runs |-> <<>>]
  /\ produced = [r \in Runs |-> 0]
  /\ delivered = [r \in Runs |-> 0]

(* Mutant: the last reason wins. *)
Cancel_LastWins(r, reason) == stopReason' = [stopReason EXCEPT ![r] = reason]

(* RunControl.cancel: the first reason wins. *)
Cancel(r, reason) ==
  stopReason' = [stopReason EXCEPT ![r] = IF @ = "none" THEN reason ELSE @]

(* RunControl.check raises, and raises "timeout" at the deadline. *)
MustStop(r) == stopReason[r] # "none" \/ expired[r]

(* _finish_run deletes the session's entry only if it is this run's. *)
Unregistered(r) ==
  [active EXCEPT ![SessionOf[r]] = IF @ = r THEN NoRun ELSE @]

-----------------------------------------------------------------------------
(* _begin_run and the submission, on the event loop *)

RegisterSession(r) ==
  /\ caller[r] = "new"
  /\ loop = NoRun
  /\ IF active[SessionOf[r]] # NoRun
     THEN /\ caller' = [caller EXCEPT ![r] = "conflict"]
          /\ UNCHANGED <<active, loop>>
     ELSE /\ caller' = [caller EXCEPT ![r] = "registered"]
          /\ active' = [active EXCEPT ![SessionOf[r]] = r]
          /\ loop' = r
  /\ UNCHANGED <<permits, work, outcome, poolQueue, stopVars, streamVars>>

(* Mutant: the permit is taken without asking whether one is left. *)
AcquireCapacity_Unchecked(r) ==
  /\ caller[r] = "registered"
  /\ permits' = permits - 1
  /\ caller' = [caller EXCEPT ![r] = "admitted"]
  /\ UNCHANGED <<active, loop, work, outcome, poolQueue, stopVars, streamVars>>

AcquireCapacity(r) ==
  /\ caller[r] = "registered"
  /\ IF permits > 0
     THEN /\ permits' = permits - 1
          /\ caller' = [caller EXCEPT ![r] = "admitted"]
     ELSE /\ caller' = [caller EXCEPT ![r] = "rejecting"]
          /\ UNCHANGED permits
  /\ UNCHANGED <<active, loop, work, outcome, poolQueue, stopVars, streamVars>>

(* The caller leaves _begin_run or the failed submission without a run. *)
LeaveUnadmitted(r, answer) ==
  /\ active' = Unregistered(r)
  /\ loop' = NoRun
  /\ caller' = [caller EXCEPT ![r] = answer]
  /\ UNCHANGED <<work, outcome, poolQueue, expired, streamVars>>

(* Mutant: a refused run releases the permit it never had. *)
RejectForCapacity_Releases(r) ==
  /\ caller[r] = "rejecting"
  /\ permits' = permits + 1
  /\ LeaveUnadmitted(r, "capacity")
  /\ UNCHANGED stopReason

RejectForCapacity(r) ==
  /\ caller[r] = "rejecting"
  /\ LeaveUnadmitted(r, "capacity")
  /\ UNCHANGED <<permits, stopReason>>

Submit(r) ==
  /\ caller[r] = "admitted"
  /\ caller' = [caller EXCEPT ![r] = "waiting"]
  /\ work' = [work EXCEPT ![r] = "pending"]
  /\ poolQueue' = Append(poolQueue, r)
  /\ loop' = NoRun
  /\ UNCHANGED <<active, permits, outcome, stopVars, streamVars>>

(* _POOL.submit raises: the caller itself gives everything back.  In a     *)
(* stream the exception also passes the finally clause, which sets the     *)
(* stop event.                                                             *)
SubmitFails(r) ==
  /\ caller[r] = "admitted"
  /\ permits' = permits + 1
  /\ LeaveUnadmitted(r, "error")
  /\ IF r \in Streams THEN Cancel(r, "cancelled") ELSE UNCHANGED stopReason

(* Time passes: the run's deadline is reached.  After a stop it no longer  *)
(* matters, and is not followed.                                           *)
DeadlinePasses(r) ==
  /\ ~expired[r] /\ stopReason[r] = "none"
  /\ caller[r] \in {"waiting", "yielded"} \/ work[r] \in {"running", "publishing"}
  /\ expired' = [expired EXCEPT ![r] = TRUE]
  /\ UNCHANGED <<admissionVars, caller, work, outcome, poolQueue, stopReason,
                 streamVars>>

-----------------------------------------------------------------------------
(* Pool threads *)

(* A free thread takes the first work item; a future cancelled meanwhile   *)
(* is skipped (set_running_or_notify_cancel).                              *)
TakeWork ==
  /\ poolQueue # <<>>
  /\ Cardinality(OnThread) < MaxActiveRuns
  /\ LET r == Head(poolQueue) IN
       work' = [work EXCEPT ![r] = IF @ = "pending" THEN "running" ELSE @]
  /\ poolQueue' = Tail(poolQueue)
  /\ UNCHANGED <<admissionVars, caller, outcome, stopVars, streamVars>>

(* A check before, inside or after the operation raises ExecutionStopped.  *)
(* A stopped producer's last publish finds the stop event set and puts     *)
(* nothing.                                                                *)
StopWork(r) ==
  /\ work[r] = "running"
  /\ MustStop(r)
  /\ Cancel(r, "timeout")
  /\ outcome' = [outcome EXCEPT ![r] = "stopped"]
  /\ work' = [work EXCEPT ![r] = "finishing"]
  /\ UNCHANGED <<admissionVars, caller, poolQueue, expired, streamVars>>

(* The operation of a call returns and its last check passes. *)
ReturnResult(r) ==
  /\ r \notin Streams
  /\ work[r] = "running"
  /\ ~MustStop(r)
  /\ outcome' = [outcome EXCEPT ![r] = "result"]
  /\ work' = [work EXCEPT ![r] = "finishing"]
  /\ UNCHANGED <<admissionVars, caller, poolQueue, stopVars, streamVars>>

(* The graph exceeds its recursion limit: a call's exception goes to its   *)
(* future, a producer sets the stop event, and so publishes nothing.       *)
ExceedRecursionLimit(r) ==
  /\ work[r] = "running"
  /\ IF r \in Streams THEN Cancel(r, "recursion_limit") ELSE UNCHANGED stopReason
  /\ outcome' = [outcome EXCEPT ![r] = "recursion_limit"]
  /\ work' = [work EXCEPT ![r] = "finishing"]
  /\ UNCHANGED <<admissionVars, caller, poolQueue, expired, streamVars>>

(* The operation raises anything else; a producer publishes it, unless the *)
(* stop event is set.                                                      *)
RaiseError(r) ==
  /\ work[r] = "running"
  /\ outcome' = [outcome EXCEPT ![r] = "error"]
  /\ IF r \in Streams /\ stopReason[r] = "none"
     THEN /\ work' = [work EXCEPT ![r] = "publishing"]
          /\ outbox' = [outbox EXCEPT ![r] = "error"]
     ELSE /\ work' = [work EXCEPT ![r] = "finishing"]
          /\ UNCHANGED outbox
  /\ UNCHANGED <<admissionVars, caller, poolQueue, stopVars, queueVars>>

(* The iterator of a stream gives its next item, and the check passes... *)
NextItem(r) ==
  /\ r \in Streams
  /\ work[r] = "running"
  /\ ~MustStop(r)
  /\ produced[r] < MaxItems
  /\ outbox' = [outbox EXCEPT ![r] = "item"]
  /\ work' = [work EXCEPT ![r] = "publishing"]
  /\ UNCHANGED <<admissionVars, caller, outcome, poolQueue, stopVars, queueVars>>

(* ... or is exhausted, and publish looks at the stop event. *)
ExhaustIterator(r) ==
  /\ r \in Streams
  /\ work[r] = "running"
  /\ IF stopReason[r] = "none"
     THEN /\ work' = [work EXCEPT ![r] = "publishing"]
          /\ outbox' = [outbox EXCEPT ![r] = "done"]
     ELSE /\ work' = [work EXCEPT ![r] = "finishing"]
          /\ UNCHANGED outbox
  /\ UNCHANGED <<admissionVars, caller, outcome, poolQueue, stopVars, queueVars>>

(* publish is over: an item's thread goes on, the last message ends it. *)
Published(r) ==
  /\ work[r] = "publishing"
  /\ IF outbox[r] = "item"
     THEN /\ produced' = [produced EXCEPT ![r] = @ + 1]
          /\ work' = [work EXCEPT ![r] = "running"]
     ELSE /\ work' = [work EXCEPT ![r] = "finishing"]
          /\ UNCHANGED produced
  /\ outbox' = [outbox EXCEPT ![r] = "none"]
  /\ UNCHANGED <<admissionVars, caller, outcome, poolQueue, stopVars, delivered>>

(* Mutant: an item is dropped when the queue is full. *)
Put_DropsWhenFull(r) ==
  /\ Published(r)
  /\ messages' = [messages EXCEPT ![r] = IF Len(@) < StreamBufferSize
                                        THEN Append(@, outbox[r]) ELSE @]

(* publish waits for room.  The stop event it has just found clear may be  *)
(* set before or while it waits, and the message is put all the same.      *)
Put(r) ==
  /\ Published(r)
  /\ Len(messages[r]) < StreamBufferSize
  /\ messages' = [messages EXCEPT ![r] = Append(@, outbox[r])]

(* Mutant: publish blocks in put, and never looks at the stop event again. *)
AbandonPut_Never(r) == FALSE

(* It looks at the stop event, never at the deadline, as it waits. *)
AbandonPut(r) ==
  /\ work[r] = "publishing"
  /\ stopReason[r] # "none"
  /\ outbox' = [outbox EXCEPT ![r] = "none"]
  /\ work' = [work EXCEPT ![r] = "finishing"]
  /\ UNCHANGED <<admissionVars, caller, outcome, poolQueue, stopVars, queueVars>>

(* _release_run: _finish_run, then _CAPACITY.release. *)
FinishRun(r) ==
  /\ work[r] = "finishing"
  /\ active' = Unregistered(r)
  /\ work' = [work EXCEPT ![r] = "releasing"]
  /\ UNCHANGED <<permits, loop, caller, outcome, poolQueue, stopVars, streamVars>>

ReleaseCapacity(r) ==
  /\ work[r] = "releasing"
  /\ permits' = permits + 1
  /\ work' = [work EXCEPT ![r] = "returning"]
  /\ UNCHANGED <<active, loop, caller, outcome, poolQueue, stopVars, streamVars>>

(* The future gets its result or exception and the thread is free again. *)
ResolveFuture(r) ==
  /\ work[r] = "returning"
  /\ work' = [work EXCEPT ![r] = "resolved"]
  /\ UNCHANGED <<admissionVars, caller, outcome, poolQueue, stopVars, streamVars>>

-----------------------------------------------------------------------------
(* run_controlled, waiting for its future on the event loop *)

IsWaiting(r) == caller[r] = "waiting" /\ loop = NoRun

(* Future.cancel takes effect only before a thread has taken the item. *)
CancelFuture(r) ==
  work' = [work EXCEPT ![r] = IF @ = "pending" THEN "dropped" ELSE @]

(* Mutant: the future is resolved before the run is released. *)
ReceiveOutcome_BeforeRelease(r) ==
  /\ r \notin Streams
  /\ IsWaiting(r)
  /\ work[r] = "finishing"
  /\ outcome[r] = "result"
  /\ caller' = [caller EXCEPT ![r] = "done"]
  /\ UNCHANGED <<admissionVars, work, outcome, poolQueue, stopVars, streamVars>>

(* What the future of a call tells its caller.  wait_for passes on what    *)
(* the operation raised, and a TimeoutError of its own is taken for the    *)
(* deadline's.                                                             *)
Answers(r) ==
  CASE outcome[r] = "result"  -> {"done"}
    [] outcome[r] = "stopped" -> {stopReason[r]}
    [] outcome[r] = "error"   -> {"error", "timeout"}
    [] OTHER                  -> {outcome[r]}

ReceiveOutcome(r) ==
  /\ r \notin Streams
  /\ IsWaiting(r)
  /\ work[r] = "resolved"
  /\ \E answer \in Answers(r) :
       /\ caller' = [caller EXCEPT ![r] = answer]
       /\ IF answer \in StopReasons THEN Cancel(r, answer) ELSE UNCHANGED stopReason
  /\ UNCHANGED <<admissionVars, work, outcome, poolQueue, expired, streamVars>>

(* The caller stops waiting, whatever the thread of its run is doing. *)
GiveUp(r, reason) ==
  /\ r \notin Streams
  /\ IsWaiting(r)
  /\ Cancel(r, reason)
  /\ CancelFuture(r)
  /\ caller' = [caller EXCEPT ![r] = reason]
  /\ UNCHANGED <<loop, outcome, poolQueue, expired, streamVars>>

(* Mutants: the caller that gives up unregisters its run, or gives its     *)
(* permit back, or waits for the thread to be done.                        *)
CallTimesOut_Unregisters(r) ==
  /\ expired[r] /\ GiveUp(r, "timeout")
  /\ active' = Unregistered(r)
  /\ UNCHANGED permits

CallTimesOut_Releases(r) ==
  /\ expired[r] /\ GiveUp(r, "timeout")
  /\ permits' = permits + 1
  /\ UNCHANGED active

CallTimesOut_Joins(r) ==
  /\ work[r] \in {"pending", "resolved"}
  /\ expired[r] /\ GiveUp(r, "timeout")
  /\ UNCHANGED <<active, permits>>

(* asyncio.wait_for gives up; a future already resolved may lose the race. *)
CallTimesOut(r) ==
  /\ expired[r] /\ GiveUp(r, "timeout")
  /\ UNCHANGED <<active, permits>>

(* The task that awaits the call is cancelled (disconnect, shutdown). *)
CallCancelled(r) ==
  /\ GiveUp(r, "cancelled")
  /\ UNCHANGED <<active, permits>>

-----------------------------------------------------------------------------
(* stream_controlled, polling its queue on the event loop *)

(* Each turn of the polling loop checks before it looks at the queue. *)
StreamStops(r) ==
  /\ r \in Streams
  /\ IsWaiting(r)
  /\ MustStop(r)
  /\ Cancel(r, "timeout")
  /\ caller' = [caller EXCEPT ![r] = stopReason'[r]]
  /\ UNCHANGED <<admissionVars, work, outcome, poolQueue, expired, streamVars>>

Poll(r, m) ==
  /\ r \in Streams
  /\ IsWaiting(r)
  /\ ~MustStop(r)
  /\ messages[r] # <<>>
  /\ Head(messages[r]) = m
  /\ messages' = [messages EXCEPT ![r] = Tail(@)]

YieldItem(r) ==
  /\ Poll(r, "item")
  /\ delivered' = [delivered EXCEPT ![r] = @ + 1]
  /\ caller' = [caller EXCEPT ![r] = "yielded"]
  /\ UNCHANGED <<admissionVars, work, outcome, poolQueue, stopVars, outbox, produced>>

(* The consumer asks for the next item. *)
ResumeStream(r) ==
  /\ r \in Streams
  /\ caller[r] = "yielded"
  /\ loop = NoRun
  /\ caller' = [caller EXCEPT ![r] = "waiting"]
  /\ UNCHANGED <<admissionVars, work, outcome, poolQueue, stopVars, streamVars>>

CompleteStream(r) ==
  /\ Poll(r, "done")
  /\ caller' = [caller EXCEPT ![r] = "done"]
  /\ UNCHANGED <<admissionVars, work, outcome, poolQueue, stopVars,
                 outbox, produced, delivered>>

(* The payload is raised, and the finally clause sets the stop event; a    *)
(* TimeoutError is taken for the deadline's.                               *)
FailStream(r) ==
  /\ Poll(r, "error")
  /\ \/ /\ Cancel(r, "cancelled")
        /\ caller' = [caller EXCEPT ![r] = "error"]
     \/ /\ Cancel(r, "timeout")
        /\ caller' = [caller EXCEPT ![r] = "timeout"]
  /\ UNCHANGED <<admissionVars, work, outcome, poolQueue, expired,
                 outbox, produced, delivered>>

(* The generator is closed at a yield, or cancelled while it sleeps. *)
CloseStream(r) ==
  /\ r \in Streams
  /\ caller[r] \in {"waiting", "yielded"}
  /\ loop = NoRun
  /\ Cancel(r, "cancelled")
  /\ caller' = [caller EXCEPT ![r] = "cancelled"]
  /\ UNCHANGED <<admissionVars, work, outcome, poolQueue, expired, streamVars>>

-----------------------------------------------------------------------------

Admission(r) ==
  \/ RegisterSession(r) \/ AcquireCapacity(r) \/ RejectForCapacity(r)
  \/ Submit(r) \/ SubmitFails(r)

Operation(r) ==
  \/ StopWork(r) \/ ReturnResult(r) \/ ExceedRecursionLimit(r) \/ RaiseError(r)
  \/ NextItem(r) \/ ExhaustIterator(r) \/ Put(r) \/ AbandonPut(r)

Cleanup(r) == FinishRun(r) \/ ReleaseCapacity(r) \/ ResolveFuture(r)

Call(r) == ReceiveOutcome(r) \/ CallTimesOut(r) \/ CallCancelled(r)

Stream(r) ==
  \/ StreamStops(r) \/ YieldItem(r) \/ ResumeStream(r) \/ CompleteStream(r)
  \/ FailStream(r) \/ CloseStream(r)

(* Every caller has its answer and every thread is idle. *)
Quiescent ==
  /\ \A r \in Runs : caller[r] \in Settled
  /\ OnThread = {}
  /\ poolQueue = <<>>
  /\ UNCHANGED vars

Next ==
  \/ TakeWork
  \/ Quiescent
  \/ \E r \in Runs : \/ Admission(r) \/ DeadlinePasses(r) \/ Operation(r)
                     \/ Cleanup(r) \/ Call(r) \/ Stream(r)

Spec == Init /\ [][Next]_vars

-----------------------------------------------------------------------------
(* Fairness.  The event loop runs ready callers and time passes; a client  *)
(* is not obliged to read its stream, but it reads it or goes away.        *)
CallerFairness ==
  \A r \in Runs :
    /\ WF_vars(AcquireCapacity(r) \/ RejectForCapacity(r) \/ Submit(r))
    /\ WF_vars(DeadlinePasses(r))
    /\ WF_vars(ReceiveOutcome(r) \/ CallTimesOut(r))
    /\ WF_vars(StreamStops(r) \/ YieldItem(r) \/ CompleteStream(r)
                 \/ FailStream(r))
    /\ WF_vars(ResumeStream(r) \/ (caller[r] = "yielded" /\ CloseStream(r)))

(* A thread of the pool takes queued work and runs its cleanup code.  The  *)
(* operation of a run returns, raises, or reaches a check: the model,      *)
(* search and database clients it calls all carry timeouts.                *)
WorkerFairness ==
  /\ WF_vars(TakeWork)
  /\ \A r \in Runs : WF_vars(Operation(r)) /\ WF_vars(Cleanup(r))

CallerFairSpec == Spec /\ CallerFairness

FairSpec == Spec /\ CallerFairness /\ WorkerFairness

-----------------------------------------------------------------------------
(* Properties *)

TypeOK ==
  /\ active \in [Sessions -> Runs \cup {NoRun}]
  /\ permits \in 0..MaxActiveRuns
  /\ loop \in Runs \cup {NoRun}
  /\ caller \in [Runs -> CallerStates]
  /\ work \in [Runs -> WorkStates]
  /\ outcome \in [Runs -> {"none", "result", "error", "stopped",
                           "recursion_limit"}]
  /\ poolQueue \in Seq(Runs)
  /\ stopReason \in [Runs -> StopReasons \cup {"none"}]
  /\ expired \in [Runs -> BOOLEAN]
  /\ outbox \in [Runs -> Message \cup {"none"}]
  /\ messages \in [Runs -> Seq(Message)]
  /\ produced \in [Runs -> Nat]
  /\ delivered \in [Runs -> Nat]

(* A graph node asks for its run's stop signal by session id               *)
(* (check_for_session), not by run: as long as a run's graph work is not   *)
(* over, whatever has become of its caller, the session's entry is that    *)
(* run, so a node never obeys the deadline of another run, and no second   *)
(* run works on the same checkpoint thread.                                *)
NodeChecksOwnRun == \A r \in Executing : active[SessionOf[r]] = r

(* Every permit of _CAPACITY is either free or held by exactly one run: no *)
(* pair of exits (result, timeout, cancellation, failed submission) gives  *)
(* a permit back twice or loses count of one.                              *)
PermitAccounting == permits + Cardinality(Holders) = MaxActiveRuns

(* A call that comes back with its operation's own outcome has already     *)
(* freed its session and its permit: a client that starts the next turn    *)
(* at once is not refused because of the turn it has just finished.        *)
OutcomeAfterRelease ==
  \A r \in Runs \ Streams :
    caller[r] \in {"done", "recursion_limit"} =>
      /\ active[SessionOf[r]] # r
      /\ r \notin Holders

(* A stream that ends normally has yielded every item its producer put in  *)
(* the bounded queue, none was dropped when the queue was full, and none   *)
(* of the run's stop signals had been raised.                              *)
CompleteDelivery ==
  \A r \in Streams :
    caller[r] = "done" =>
      /\ delivered[r] = produced[r]
      /\ stopReason[r] = "none"

(* The reason a stopped caller reports is the one the run was stopped for, *)
(* although the deadline, the recursion limit and the checks of a worker   *)
(* thread race to set it.                                                  *)
ReportedReason ==
  \A r \in Runs :
    caller[r] \in {"timeout", "recursion_limit"} => stopReason[r] = caller[r]

(* The threads, futures and permits of this module do what RunAdmission    *)
(* promises: one executing run per session, at most MaxActiveRuns of them. *)
Admitted == INSTANCE RunAdmission WITH executing <- Executing, ended <- Ended

ImplementsRunAdmission == Admitted!Spec

(* With fair threads, a run a thread has started gives its session and its *)
(* permit back, also when its caller has gone and its bounded queue is     *)
(* full.                                                                   *)
StartedRunsRelease ==
  WorkerFairness =>
    \A r \in Runs :
      work[r] = "running" ~> r \notin Holders /\ active[SessionOf[r]] # r

(* Every admitted caller gets an answer by its deadline, also when its     *)
(* operation never comes back (only CallerFairness is assumed).            *)
CallersSettle == \A r \in Runs : caller[r] = "waiting" ~> caller[r] \in Settled

(* plan/agent-reliability/02-python-run-control.md:16 keeps a run "keyed   *)
(* to the existing session only while that run is active", and line 29     *)
(* asks for "permit release after a cancelled caller's synchronous node    *)
(* exits": a registered run leaves its session in the end.                 *)
SessionsAreReleased ==
  \A r \in Runs :
    active[SessionOf[r]] = r ~> active[SessionOf[r]] # r

=============================================================================
