--------------------------- MODULE SseStreamHandle ---------------------------
(***************************************************************************)
(* controller/SseStreamHandle.java, as RecommendTaskController uses it:    *)
(* one SSE response bridged to one cancellable subscription of FastAPI.    *)
(*                                                                         *)
(* Threads.  The controller subscribes and attaches the subscription, the  *)
(* upstream thread delivers its events one at a time, the heartbeat thread *)
(* writes a comment every two seconds, and the servlet container calls     *)
(* back when the response is over.  They interleave at every atomic step;  *)
(* "terminal" is set once, by compare-and-set, and the thread that sets it *)
(* cleans up and ends the response.                                        *)
(***************************************************************************)
EXTENDS Naturals

VARIABLES
  pc,         \* where each thread is
  by,         \* how a thread that is closing the stream will end it
  terminal,   \* the AtomicBoolean
  attached,   \* the AtomicReference holds the subscription
  upstream,   \* the subscription itself
  beating,    \* the heartbeat future is not cancelled
  emitter,    \* the SseEmitter
  client,     \* the browser: connected, or gone
  completions,   \* calls of emitter.complete()
  disconnections \* calls of onDisconnect

handleVars == <<terminal, attached, upstream, beating>>
endVars == <<emitter, completions, disconnections>>
vars == <<pc, by, handleVars, endVars, client>>

Threads == {"controller", "upstream", "heartbeat", "container"}

(* "sending" and "writing" are send before and after its look at terminal, *)
(* "reporting" and "rewriting" the same inside fail.                       *)
Places ==
  {"subscribing", "attaching", "checking", "idle", "applying", "sending",
   "writing", "failing", "reporting", "rewriting", "unexpected",
   "disconnecting", "completing", "cleaning", "disposing", "ending"}

Goto(t, place) == pc' = [pc EXCEPT ![t] = place]

(* A step of one thread that changes nothing else. *)
Move(t, from, to) ==
  /\ pc[t] = from
  /\ Goto(t, to)
  /\ UNCHANGED <<by, handleVars, endVars, client>>

(* The thread returns early from a stream that is already closed. *)
Check(t, from, to) == Move(t, from, IF terminal THEN "idle" ELSE to)

-----------------------------------------------------------------------------

(* start() has returned: the heartbeat is scheduled, the callbacks are set. *)
Init ==
  /\ pc = [t \in Threads |-> IF t = "controller" THEN "subscribing" ELSE "idle"]
  /\ by = [t \in Threads |-> "none"]
  /\ terminal = FALSE
  /\ attached = FALSE
  /\ upstream = "none"
  /\ beating = TRUE
  /\ emitter = "open"
  /\ client = "connected"
  /\ completions = 0
  /\ disconnections = 0

ClientLeaves ==
  /\ client = "connected"
  /\ client' = "gone"
  /\ UNCHANGED <<pc, by, handleVars, endVars>>

-----------------------------------------------------------------------------
(* The controller *)

Subscribe ==
  /\ pc["controller"] = "subscribing"
  /\ upstream' = "live"
  /\ Goto("controller", "attaching")
  /\ UNCHANGED <<by, terminal, attached, beating, endVars, client>>

(* Mutant: the subscription is stored, and terminal is not asked again. *)
Attach_SetsOnly ==
  /\ pc["controller"] = "attaching"
  /\ attached' = TRUE
  /\ Goto("controller", "idle")
  /\ UNCHANGED <<by, terminal, upstream, beating, endVars, client>>

(* attach: upstream.set ... *)
Attach ==
  /\ pc["controller"] = "attaching"
  /\ attached' = TRUE
  /\ Goto("controller", "checking")
  /\ UNCHANGED <<by, terminal, upstream, beating, endVars, client>>

(* dispose(), called by attach and cleanup: it changes nothing about a     *)
(* subscription that is over.                                              *)
Disposed == IF upstream = "live" THEN "disposed" ELSE upstream

(* ... then dispose, if the stream was closed meanwhile. *)
AttachCheck ==
  /\ pc["controller"] = "checking"
  /\ upstream' = IF terminal THEN Disposed ELSE upstream
  /\ Goto("controller", "idle")
  /\ UNCHANGED <<by, terminal, attached, beating, endVars, client>>

-----------------------------------------------------------------------------
(* The upstream subscription *)

UpstreamEvent == upstream = "live" /\ Move("upstream", "idle", "applying")

(* applyStreamEvent returns, or throws. *)
EventApplied ==
  \E place \in {"sending", "failing"} : Move("upstream", "applying", place)

(* The subscription is over, and its last callback runs. *)
UpstreamEnds(callback) ==
  /\ upstream = "live"
  /\ pc["upstream"] = "idle"
  /\ upstream' = "over"
  /\ Goto("upstream", callback)
  /\ UNCHANGED <<by, terminal, attached, beating, endVars, client>>

UpstreamCompletes == UpstreamEnds("completing")

UpstreamFails == UpstreamEnds("failing")

(* fail *)
Fail == Check("upstream", "failing", "reporting")

-----------------------------------------------------------------------------
(* Heartbeat and container *)

Heartbeat == beating /\ Move("heartbeat", "idle", "sending")

(* The container completes the response by itself only when the client is  *)
(* gone; onCompletion also follows emitter.complete().  The emitter has no *)
(* timeout.                                                                *)
OnCompletion ==
  /\ client = "gone" \/ emitter = "completed"
  /\ Move("container", "idle", "unexpected")

OnError == client = "gone" /\ Move("container", "idle", "disconnecting")

DisconnectIfUnexpected == Check("container", "unexpected", "disconnecting")

-----------------------------------------------------------------------------
(* send, by the upstream or the heartbeat thread *)

(* A write to a client that is gone may still be buffered. *)
WriteSucceeds(t, from, to) == emitter = "open" /\ Move(t, from, to)

(* Mutant: a failed write is only logged. *)
WriteFails_OnlyLogs(t, from) ==
  /\ client = "gone" \/ emitter = "completed"
  /\ Move(t, from, "idle")

WriteFails(t, from) ==
  /\ client = "gone" \/ emitter = "completed"
  /\ Move(t, from, "disconnecting")

HeartbeatSend ==
  \/ Check("heartbeat", "sending", "writing")
  \/ WriteSucceeds("heartbeat", "writing", "idle")
  \/ WriteFails("heartbeat", "writing")

UpstreamSend ==
  \/ Check("upstream", "sending", "writing")
  \/ WriteSucceeds("upstream", "writing", "idle")
  \/ WriteFails("upstream", "writing")

(* The error event of fail; once it is sent the stream completes. *)
UpstreamReport ==
  \/ Check("upstream", "reporting", "rewriting")
  \/ WriteSucceeds("upstream", "rewriting", "completing")
  \/ WriteFails("upstream", "rewriting")

-----------------------------------------------------------------------------
(* complete and disconnect, by whichever thread wins the compare-and-set *)

(* Mutants: terminal is asked and not set (get for compareAndSet), set     *)
(* without being compared, or complete() closes the emitter before it sets *)
(* terminal.                                                               *)
Close_OnlyChecks(t, from, how) ==
  /\ pc[t] = from
  /\ Goto(t, IF terminal THEN "idle" ELSE "cleaning")
  /\ by' = IF terminal THEN by ELSE [by EXCEPT ![t] = how]
  /\ UNCHANGED <<terminal, attached, upstream, beating, endVars, client>>

Close_SetsOnly(t, from, how) ==
  /\ pc[t] = from
  /\ Goto(t, "cleaning")
  /\ terminal' = TRUE
  /\ by' = [by EXCEPT ![t] = how]
  /\ UNCHANGED <<attached, upstream, beating, endVars, client>>

Close_EmitterFirst(t, from, how) ==
  /\ pc[t] = from
  /\ \/ /\ how = "complete" /\ emitter = "open" /\ ~terminal
        /\ emitter' = "completed"
        /\ UNCHANGED <<pc, by, terminal>>
     \/ /\ how = "disconnect" \/ emitter = "completed" \/ terminal
        /\ Goto(t, IF terminal THEN "idle" ELSE "cleaning")
        /\ by' = IF terminal THEN by ELSE [by EXCEPT ![t] = how]
        /\ terminal' = TRUE
        /\ UNCHANGED emitter
  /\ UNCHANGED <<attached, upstream, beating, completions, disconnections, client>>

Close(t, from, how) ==
  /\ pc[t] = from
  /\ IF terminal
     THEN /\ Goto(t, "idle")
          /\ UNCHANGED <<by, terminal>>
     ELSE /\ Goto(t, "cleaning")
          /\ by' = [by EXCEPT ![t] = how]
          /\ terminal' = TRUE
  /\ UNCHANGED <<attached, upstream, beating, endVars, client>>

CancelHeartbeat(t) ==
  /\ pc[t] = "cleaning"
  /\ beating' = FALSE
  /\ Goto(t, "disposing")
  /\ UNCHANGED <<by, terminal, attached, upstream, endVars, client>>

DisposeUpstream(t) ==
  /\ pc[t] = "disposing"
  /\ attached' = FALSE
  /\ upstream' = IF attached THEN Disposed ELSE upstream
  /\ Goto(t, "ending")
  /\ UNCHANGED <<by, terminal, beating, endVars, client>>

CompleteEmitter(t) ==
  /\ pc[t] = "ending" /\ by[t] = "complete"
  /\ emitter' = "completed"
  /\ completions' = completions + 1
  /\ Goto(t, "idle")
  /\ UNCHANGED <<by, handleVars, disconnections, client>>

RunOnDisconnect(t) ==
  /\ pc[t] = "ending" /\ by[t] = "disconnect"
  /\ disconnections' = disconnections + 1
  /\ Goto(t, "idle")
  /\ UNCHANGED <<by, handleVars, emitter, completions, client>>

-----------------------------------------------------------------------------

Controller == Subscribe \/ Attach \/ AttachCheck

Ending(t) ==
  \/ Close(t, "completing", "complete")
  \/ Close(t, "disconnecting", "disconnect")
  \/ CancelHeartbeat(t) \/ DisposeUpstream(t)
  \/ CompleteEmitter(t) \/ RunOnDisconnect(t)

(* Steps of the upstream thread inside one callback *)
Callback == EventApplied \/ Fail \/ UpstreamSend \/ UpstreamReport

Next ==
  \/ ClientLeaves \/ Controller
  \/ UpstreamEvent \/ UpstreamCompletes \/ UpstreamFails \/ Callback
  \/ Heartbeat \/ HeartbeatSend
  \/ OnCompletion \/ OnError \/ DisconnectIfUnexpected
  \/ \E t \in Threads : Ending(t)

Spec == Init /\ [][Next]_vars

(* Fairness.  Threads run; the heartbeat is scheduled for ever, and writes *)
(* to a client that is gone cannot all succeed.                            *)
Fairness ==
  /\ WF_vars(Controller) /\ WF_vars(Callback)
  /\ WF_vars(Heartbeat) /\ WF_vars(HeartbeatSend)
  /\ SF_vars(WriteFails("heartbeat", "writing"))
  /\ WF_vars(DisconnectIfUnexpected)
  /\ \A t \in Threads : WF_vars(Ending(t))

FairSpec == Spec /\ Fairness

-----------------------------------------------------------------------------
(* Properties *)

Closing(t) == pc[t] \in {"cleaning", "disposing", "ending"}

(* Every variable keeps its type, and the cleanup of a response is only    *)
(* ever under way in a thread that knows how it will end it, and under a   *)
(* terminal that keeps all others out.                                     *)
TypeOK ==
  /\ pc \in [Threads -> Places]
  /\ by \in [Threads -> {"none", "complete", "disconnect"}]
  /\ terminal \in BOOLEAN
  /\ attached \in BOOLEAN
  /\ upstream \in {"none", "live", "over", "disposed"}
  /\ beating \in BOOLEAN
  /\ emitter \in {"open", "completed"}
  /\ client \in {"connected", "gone"}
  /\ completions \in Nat
  /\ disconnections \in Nat
  /\ \A t \in Threads : Closing(t) => terminal /\ by[t] # "none"

(* The response ends once: it is completed, or the task is told that its   *)
(* client is gone, never both and neither twice, however upstream,         *)
(* heartbeat and container race.                                           *)
OneEnding == completions + disconnections <= 1

(* onDisconnect marks the task FAILED, "client disconnected": it never     *)
(* runs for a client that is still there, be it because of the completion  *)
(* callback that the handle's own complete() causes.                       *)
DisconnectIsReal == disconnections > 0 => client = "gone"

(* A closed stream leaves no subscription behind, also when it was closed  *)
(* before the controller attached the subscription.                        *)
NoOrphanUpstream ==
  terminal /\ pc["controller"] = "idle" /\ (\A t \in Threads : ~Closing(t))
    => upstream # "live"

(* A client that goes away is noticed, with no event from upstream and no  *)
(* callback from the container: the heartbeat alone finds out, and the     *)
(* subscription of FastAPI is cancelled.                                   *)
DisconnectIsNoticed == client = "gone" ~> terminal /\ upstream # "live"

=============================================================================
