------------------------ MODULE SseStreamHandleProofs ------------------------
(***************************************************************************)
(* Proofs about SseStreamHandle: how a response ends, whatever the order   *)
(* in which its threads find out that it should.                           *)
(***************************************************************************)
EXTENDS SseStreamHandle, TLAPS

-----------------------------------------------------------------------------
(* The inductive invariant *)

(* Only the thread that has set terminal closes, and nothing has ended     *)
(* before it does.                                                         *)
ClosingInv ==
  /\ \A t \in Threads : Closing(t) => terminal /\ completions + disconnections = 0
  /\ \A t, u \in Threads : Closing(t) /\ Closing(u) => t = u
  /\ ~terminal => completions + disconnections = 0
  /\ emitter = "completed" => terminal
  /\ OneEnding

(* Whoever is about to disconnect an open stream, or to find out whether   *)
(* it should, has seen the client gone.                                    *)
GoneInv ==
  /\ \A t \in Threads :
       pc[t] \in {"unexpected", "disconnecting"} => terminal \/ client = "gone"
  /\ \A t \in Threads : Closing(t) /\ by[t] = "disconnect" => client = "gone"
  /\ DisconnectIsReal

(* A live subscription of a closed stream is still to be disposed of: by   *)
(* the thread that closes, or by the controller.                           *)
UpstreamInv ==
  /\ pc["controller"] \in {"subscribing", "attaching", "checking", "idle"}
  /\ upstream = "live" /\ ~terminal /\ pc["controller"] \in {"checking", "idle"}
       => attached
  /\ upstream = "live" /\ terminal /\ pc["controller"] = "idle"
       => attached /\ \E t \in Threads : pc[t] \in {"cleaning", "disposing"}

IInv == TypeOK /\ ClosingInv /\ GoneInv /\ UpstreamInv

-----------------------------------------------------------------------------

LEMMA InitInv == Init => IInv
<1> SUFFICES ASSUME Init PROVE IInv
  OBVIOUS
<1>1. TypeOK
  BY DEF Init, TypeOK, Threads, Places, Closing
<1>2. ClosingInv /\ GoneInv
  BY DEF Init, ClosingInv, GoneInv, OneEnding, DisconnectIsReal, Closing
<1>3. UpstreamInv
  BY DEF Init, UpstreamInv, Threads
<1> QED
  BY <1>1, <1>2, <1>3 DEF IInv

(* A step that closes nothing and moves one thread somewhere harmless. *)
LEMMA MoveInv ==
  ASSUME IInv, NEW t \in Threads, NEW place \in Places, Goto(t, place),
         ~Closing(t), place \notin {"cleaning", "disposing", "ending"},
         place \in {"unexpected", "disconnecting"} => terminal \/ client = "gone",
         t = "controller" => FALSE,
         UNCHANGED <<by, terminal, attached, beating, endVars, client>>,
         upstream' \in {upstream, "over"}
  PROVE  IInv'
<1>1. \A u \in Threads : Closing(u)' <=> Closing(u)
  BY DEF IInv, TypeOK, Goto, Closing
<1>2. TypeOK'
  BY <1>1 DEF IInv, TypeOK, Goto, endVars
<1>3. ClosingInv'
  BY <1>1 DEF IInv, ClosingInv, OneEnding, endVars
<1>4. GoneInv'
  BY <1>1 DEF IInv, TypeOK, GoneInv, DisconnectIsReal, Goto, endVars
<1>5. UpstreamInv'
  BY DEF IInv, TypeOK, UpstreamInv, Goto, Threads, Closing
<1> QED
  BY <1>2, <1>3, <1>4, <1>5 DEF IInv

LEMMA ControllerInv == ASSUME IInv, Controller PROVE IInv'
<1>1. PICK place \in {"attaching", "checking", "idle"} :
        /\ Goto("controller", place)
        /\ ~Closing("controller")
        /\ UNCHANGED <<by, terminal, beating, endVars, client>>
  BY DEF Controller, Subscribe, Attach, AttachCheck, Closing
<1>2. \A u \in Threads : Closing(u)' <=> Closing(u)
  BY <1>1 DEF IInv, TypeOK, Goto, Closing
<1>3. TypeOK'
  BY <1>1, <1>2 DEF IInv, TypeOK, Goto, endVars, Controller, Subscribe, Attach,
              AttachCheck, Disposed, Places, Threads
<1>4. ClosingInv'
  BY <1>1, <1>2 DEF IInv, ClosingInv, OneEnding, endVars
<1>5. GoneInv'
  BY <1>1, <1>2 DEF IInv, TypeOK, GoneInv, DisconnectIsReal, Goto, endVars
<1>6. UpstreamInv'
  BY <1>1 DEF IInv, TypeOK, UpstreamInv, Goto, Threads, Controller, Subscribe,
              Attach, AttachCheck, Disposed, Closing
<1> QED
  BY <1>3, <1>4, <1>5, <1>6 DEF IInv

(* The compare-and-set. *)
LEMMA CloseInv ==
  ASSUME IInv, NEW t \in Threads,
         \/ Close(t, "completing", "complete")
         \/ Close(t, "disconnecting", "disconnect")
  PROVE  IInv'
<1>0. ~Closing(t) /\ t # "controller"
  BY DEF Close, Closing, IInv, UpstreamInv
<1>1. CASE terminal
  <2>1. Goto(t, "idle") /\ UNCHANGED <<by, handleVars, endVars, client>>
    BY <1>1 DEF Close, handleVars
  <2> QED
    BY <1>0, <2>1, MoveInv DEF handleVars, Places
<1>2. CASE ~terminal
  <2>1. /\ Goto(t, "cleaning") /\ terminal' = TRUE
        /\ by' \in [Threads -> {"none", "complete", "disconnect"}]
        /\ by'[t] # "none"
        /\ UNCHANGED <<attached, upstream, beating, endVars, client>>
    BY <1>2 DEF Close, IInv, TypeOK
  <2>2. \A u \in Threads : Closing(u)' <=> u = t
    BY <1>2, <2>1 DEF IInv, TypeOK, ClosingInv, Goto, Closing
  <2>3. TypeOK'
    BY <2>1, <2>2 DEF IInv, TypeOK, Goto, endVars, Places
  <2>4. ClosingInv'
    BY <1>2, <2>1, <2>2 DEF IInv, ClosingInv, OneEnding, endVars
  <2>5. GoneInv'
    <3>1. by'[t] = "disconnect" => client' = "gone"
      BY <1>2 DEF Close, IInv, TypeOK, GoneInv
    <3> QED
      BY <2>1, <2>2, <3>1 DEF IInv, GoneInv, DisconnectIsReal, endVars
  <2>6. UpstreamInv'
    BY <1>0, <1>2, <2>1 DEF IInv, TypeOK, UpstreamInv, Goto, Threads
  <2> QED
    BY <2>3, <2>4, <2>5, <2>6 DEF IInv
<1> QED
  BY <1>1, <1>2

(* cleanup, and what follows it. *)
LEMMA CleanupInv ==
  ASSUME IInv, NEW t \in Threads,
         \/ CancelHeartbeat(t) \/ DisposeUpstream(t)
         \/ CompleteEmitter(t) \/ RunOnDisconnect(t)
  PROVE  IInv'
<1>0. Closing(t) /\ t # "controller" /\ terminal /\ completions + disconnections = 0
  BY DEF CancelHeartbeat, DisposeUpstream, CompleteEmitter, RunOnDisconnect,
         Closing, IInv, UpstreamInv, ClosingInv
<1>1. PICK place \in {"disposing", "ending", "idle"} :
        Goto(t, place) /\ UNCHANGED <<by, terminal, client>>
  BY DEF CancelHeartbeat, DisposeUpstream, CompleteEmitter, RunOnDisconnect,
         handleVars
<1>2. \A u \in Threads : Closing(u)' => u = t /\ place # "idle"
  BY <1>0, <1>1 DEF IInv, TypeOK, ClosingInv, Goto, Closing
<1>3. TypeOK'
  <2>0. \A u \in Threads : Closing(u)' => terminal' /\ by'[u] # "none"
    BY <1>0, <1>1, <1>2 DEF IInv, TypeOK
  <2>1. CASE CancelHeartbeat(t)
    BY <2>0, <2>1 DEF IInv, TypeOK, CancelHeartbeat, Goto, endVars, Places
  <2>2. CASE DisposeUpstream(t)
    BY <2>0, <2>2 DEF IInv, TypeOK, DisposeUpstream, Disposed, Goto, endVars, Places
  <2>3. CASE CompleteEmitter(t)
    BY <2>0, <2>3 DEF IInv, TypeOK, CompleteEmitter, Goto, handleVars, Places
  <2>4. CASE RunOnDisconnect(t)
    BY <2>0, <2>4 DEF IInv, TypeOK, RunOnDisconnect, Goto, handleVars, Places
  <2> QED
    BY <2>1, <2>2, <2>3, <2>4
<1>4. CASE CancelHeartbeat(t) \/ DisposeUpstream(t)
  <2>1. UNCHANGED endVars
    BY <1>4 DEF CancelHeartbeat, DisposeUpstream
  <2>2. ClosingInv'
    BY <1>0, <1>1, <1>2, <2>1 DEF IInv, ClosingInv, OneEnding, endVars
  <2>3. GoneInv'
    BY <1>0, <1>1, <1>2, <2>1
    DEF IInv, TypeOK, GoneInv, DisconnectIsReal, Goto, endVars
  <2>4. UpstreamInv'
    BY <1>0, <1>1, <1>4
    DEF IInv, TypeOK, UpstreamInv, ClosingInv, Closing, Goto, Threads,
        CancelHeartbeat, DisposeUpstream, Disposed
  <2> QED
    BY <1>3, <2>2, <2>3, <2>4 DEF IInv
<1>5. CASE CompleteEmitter(t) \/ RunOnDisconnect(t)
  <2>1. UNCHANGED handleVars /\ place = "idle" /\ pc[t] = "ending"
    BY <1>1, <1>5 DEF CompleteEmitter, RunOnDisconnect, Goto, IInv, TypeOK
  <2>2. completions' + disconnections' = 1
    BY <1>0, <1>5 DEF CompleteEmitter, RunOnDisconnect, IInv, TypeOK
  <2>3. ClosingInv'
    BY <1>0, <1>1, <1>2, <2>1, <2>2 DEF ClosingInv, OneEnding
  <2>4. disconnections' > 0 => client' = "gone"
    BY <1>0, <1>1, <1>5
    DEF IInv, TypeOK, GoneInv, DisconnectIsReal, CompleteEmitter, RunOnDisconnect
  <2>5. GoneInv'
    BY <1>0, <1>1, <1>2, <2>1, <2>4
    DEF IInv, TypeOK, GoneInv, DisconnectIsReal, Goto, handleVars
  <2>6. UpstreamInv'
    BY <1>0, <1>1, <2>1
    DEF IInv, TypeOK, UpstreamInv, ClosingInv, Closing, Goto, Threads, handleVars
  <2> QED
    BY <1>3, <2>3, <2>5, <2>6 DEF IInv
<1> QED
  BY <1>4, <1>5

(* The steps that only move a thread: send, fail, the events of upstream,  *)
(* and the callbacks before they try to close.                             *)
LEMMA ThreadInv ==
  ASSUME IInv,
         \/ UpstreamEvent \/ UpstreamCompletes \/ UpstreamFails \/ Callback
         \/ Heartbeat \/ HeartbeatSend
         \/ OnCompletion \/ OnError \/ DisconnectIfUnexpected
  PROVE  IInv'
<1> USE DEF Closing, handleVars, Places, Threads, Move, Check
<1>1. ASSUME NEW t \in {"upstream", "heartbeat"}, NEW from, NEW to \in Places,
             from \notin {"cleaning", "disposing", "ending"},
             to \notin {"cleaning", "disposing", "ending", "unexpected",
                       "disconnecting"},
             Check(t, from, to) \/ WriteSucceeds(t, from, to)
      PROVE  IInv'
  BY <1>1, MoveInv DEF WriteSucceeds
<1>2. ASSUME NEW t \in {"upstream", "heartbeat"}, NEW from,
             from \notin {"cleaning", "disposing", "ending"}, WriteFails(t, from)
      PROVE  IInv'
  <2>1. terminal \/ client = "gone"
    BY <1>2 DEF WriteFails, IInv, ClosingInv
  <2> QED
    BY <1>2, <2>1, MoveInv DEF WriteFails
<1>3. CASE HeartbeatSend
  BY <1>1, <1>2, <1>3 DEF HeartbeatSend
<1>4. CASE UpstreamSend \/ UpstreamReport
  BY <1>1, <1>2, <1>4 DEF UpstreamSend, UpstreamReport
<1>5. CASE UpstreamEvent \/ UpstreamCompletes \/ UpstreamFails
  BY <1>5, MoveInv DEF UpstreamEvent, UpstreamCompletes, UpstreamFails, UpstreamEnds
<1>6. CASE EventApplied \/ Fail
  <2>1. PICK place \in {"sending", "failing", "idle", "reporting"} :
          /\ Goto("upstream", place)
          /\ ~Closing("upstream")
          /\ UNCHANGED <<by, handleVars, endVars, client>>
    BY <1>6 DEF EventApplied, Fail
  <2> QED
    BY <2>1, MoveInv
<1>7. CASE Heartbeat
  BY <1>7, MoveInv DEF Heartbeat
<1>8. CASE OnCompletion \/ OnError
  <2>1. terminal \/ client = "gone"
    BY <1>8 DEF OnCompletion, OnError, IInv, ClosingInv
  <2> QED
    BY <1>8, <2>1, MoveInv DEF OnCompletion, OnError
<1>9. CASE DisconnectIfUnexpected
  <2>1. terminal \/ client = "gone"
    BY <1>9 DEF DisconnectIfUnexpected, IInv, GoneInv
  <2>2. PICK place \in {"idle", "disconnecting"} :
          /\ Goto("container", place)
          /\ ~Closing("container")
          /\ UNCHANGED <<by, handleVars, endVars, client>>
    BY <1>9 DEF DisconnectIfUnexpected
  <2> QED
    BY <2>1, <2>2, MoveInv
<1> QED
  BY <1>3, <1>4, <1>5, <1>6, <1>7, <1>8, <1>9 DEF Callback

LEMMA NextInv == IInv /\ [Next]_vars => IInv'
<1> SUFFICES ASSUME IInv, [Next]_vars PROVE IInv'
  OBVIOUS
<1>1. CASE UNCHANGED vars
  BY <1>1 DEF vars, handleVars, endVars, IInv, TypeOK, ClosingInv, GoneInv,
              UpstreamInv, OneEnding, DisconnectIsReal, Closing
<1>2. CASE ClientLeaves
  BY <1>2 DEF ClientLeaves, handleVars, endVars, IInv, TypeOK, ClosingInv,
              GoneInv, UpstreamInv, OneEnding, DisconnectIsReal, Closing
<1>3. CASE Controller
  BY <1>3, ControllerInv
<1>4. ASSUME NEW t \in Threads, Ending(t) PROVE IInv'
  BY <1>4, CloseInv, CleanupInv DEF Ending
<1> QED
  BY <1>1, <1>2, <1>3, <1>4, ThreadInv DEF Next

LEMMA SpecInv == Spec => []IInv
BY InitInv, NextInv, PTL DEF Spec

(* Every variable keeps its type. *)
THEOREM TypeCorrect == Spec => []TypeOK
<1>1. IInv => TypeOK
  BY DEF IInv
<1> QED
  BY <1>1, SpecInv, PTL

(* emitter.complete() and onDisconnect exclude each other, and neither is  *)
(* called twice.                                                           *)
THEOREM ResponsesEndOnce == Spec => []OneEnding
<1>1. IInv => OneEnding
  BY DEF IInv, ClosingInv
<1> QED
  BY <1>1, SpecInv, PTL

(* No task is told that its client left while the client is there. *)
THEOREM DisconnectsAreReal == Spec => []DisconnectIsReal
<1>1. IInv => DisconnectIsReal
  BY DEF IInv, GoneInv
<1> QED
  BY <1>1, SpecInv, PTL

(* No subscription outlives its closed stream, whether it was attached     *)
(* before or after the close.                                              *)
THEOREM NoUpstreamIsOrphaned == Spec => []NoOrphanUpstream
<1>1. IInv => NoOrphanUpstream
  BY DEF IInv, UpstreamInv, NoOrphanUpstream, Closing
<1> QED
  BY <1>1, SpecInv, PTL

=============================================================================
