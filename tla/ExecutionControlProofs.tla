----------------------- MODULE ExecutionControlProofs -----------------------
(***************************************************************************)
(* Proofs about ExecutionControl, for any finite set of runs, any sessions *)
(* and any number of permits.                                              *)
(***************************************************************************)
EXTENDS ExecutionControl, FiniteSetTheorems, SequenceTheorems, TLAPS

USE DEF admissionVars, stopVars, queueVars, streamVars

-----------------------------------------------------------------------------
(* The inductive invariant *)

(* The caller is still before its submission. *)
BeforeSubmit == {"new", "registered", "rejecting", "admitted"}

(* The run owns its session's entry: it is between RegisterSession and     *)
(* whichever step takes the entry back.                                    *)
Registered(r) ==
  \/ caller[r] \in {"registered", "rejecting", "admitted"}
  \/ work[r] \in {"pending", "dropped", "running", "publishing", "finishing"}

(* Nothing happens to a run before it is submitted. *)
NotSubmittedInv ==
  \A r \in Runs : caller[r] \in BeforeSubmit \cup Refused =>
    work[r] = "none" /\ outcome[r] = "none" /\ stopReason[r] = "none"

(* _ACTIVE_SESSIONS holds exactly the registered runs, at their session. *)
ActiveInv ==
  /\ \A r \in Runs : Registered(r) => active[SessionOf[r]] = r
  /\ \A r \in Runs : active[SessionOf[r]] = r => Registered(r)

(* A stopped outcome has a reason, a publishing producer has a message,    *)
(* only streams publish, and a call has an outcome once it has worked.     *)
OutcomeInv ==
  /\ \A r \in Runs : outcome[r] = "stopped" => stopReason[r] # "none"
  /\ \A r \in Runs : work[r] = "publishing" => outbox[r] # "none"
  /\ \A r \in Runs \ Streams :
       /\ work[r] # "publishing"
       /\ work[r] \in {"none", "pending", "dropped", "running"} <=>
            outcome[r] = "none"

(* While a call waits, its run can only have been stopped by its worker. *)
ReasonInv ==
  \A r \in Runs \ Streams : caller[r] = "waiting" =>
    \/ stopReason[r] = "none"
    \/ stopReason[r] = "timeout" /\ outcome[r] = "stopped"

(* A call's own outcome reaches its caller after the thread is done. *)
ResolvedInv ==
  \A r \in Runs \ Streams :
    caller[r] \in {"done", "recursion_limit"} => work[r] = "resolved"

(* What relates the state of a caller to that of its run. *)
CallerInv ==
  /\ NotSubmittedInv
  /\ OutcomeInv
  /\ ReasonInv
  /\ ReportedReason
  /\ ResolvedInv

IInv ==
  /\ TypeOK
  /\ CallerInv
  /\ ActiveInv
  /\ PermitAccounting

-----------------------------------------------------------------------------
(* Helper lemmas *)

(* A step that registers and unregisters nobody. *)
LEMMA ActiveSame ==
  ASSUME ActiveInv, active' = active,
         \A q \in Runs : Registered(q)' <=> Registered(q)
  PROVE  ActiveInv'
BY DEF ActiveInv

(* A step that takes the entry of r back as r stops being registered. *)
LEMMA ActiveUnregister ==
  ASSUME ActiveInv, TypeOK, NEW r \in Runs, active' = Unregistered(r),
         ~Registered(r)',
         \A q \in Runs \ {r} : Registered(q)' <=> Registered(q)
  PROVE  ActiveInv'
<1>1. ASSUME NEW q \in Runs, Registered(q)' PROVE active'[SessionOf[q]] = q
  <2>1. q # r /\ Registered(q)
    BY <1>1
  <2>2. active[SessionOf[q]] = q
    BY <2>1 DEF ActiveInv
  <2>3. SessionOf[q] \in Sessions /\ SessionOf[r] \in Sessions
    BY RunsAssumption
  <2> QED
    BY <2>1, <2>2, <2>3 DEF TypeOK, Unregistered
<1>2. ASSUME NEW q \in Runs, active'[SessionOf[q]] = q PROVE Registered(q)'
  <2>1. SessionOf[q] \in Sessions /\ SessionOf[r] \in Sessions /\ q # NoRun
    BY RunsAssumption
  <2>2. q # r /\ active[SessionOf[q]] = q
    BY <1>2, <2>1 DEF TypeOK, Unregistered
  <2> QED
    BY <2>2 DEF ActiveInv
<1> QED
  BY <1>1, <1>2 DEF ActiveInv

(* The count of permits, over a step that lets r take or give back one. *)
LEMMA HoldersAreFinite == IsFiniteSet(Holders) /\ Cardinality(Holders) \in Nat
BY RunsAssumption, FS_Subset, FS_CardinalityType DEF Holders

LEMMA PermitsSame ==
  ASSUME PermitAccounting, permits' = permits, Holders' = Holders
  PROVE  PermitAccounting'
BY DEF PermitAccounting

LEMMA PermitTaken ==
  ASSUME PermitAccounting, TypeOK, NEW r \in Runs, r \notin Holders,
         permits' = permits - 1, Holders' = Holders \cup {r}
  PROVE  PermitAccounting'
<1>1. Cardinality(Holders \cup {r}) = Cardinality(Holders) + 1
  BY HoldersAreFinite, FS_AddElement
<1> QED
  BY <1>1, HoldersAreFinite, SizesAssumption DEF PermitAccounting, TypeOK

LEMMA PermitGiven ==
  ASSUME PermitAccounting, TypeOK, NEW r \in Runs, r \in Holders,
         permits' = permits + 1, Holders' = Holders \ {r}
  PROVE  PermitAccounting' /\ permits' \in 0..MaxActiveRuns
<1>1. /\ Cardinality(Holders \ {r}) = Cardinality(Holders) - 1
      /\ Cardinality(Holders) # 0
  BY HoldersAreFinite, FS_RemoveElement, FS_EmptySet
<1> QED
  BY <1>1, HoldersAreFinite, SizesAssumption DEF PermitAccounting, TypeOK

-----------------------------------------------------------------------------
(* Each action preserves the invariant. *)

LEMMA RegisterSessionInv ==
  ASSUME IInv, NEW r \in Runs, RegisterSession(r) PROVE IInv'
<1>0. PICK c \in {"conflict", "registered"} : caller' = [caller EXCEPT ![r] = c]
  BY DEF RegisterSession
<1>a. /\ caller[r] = "new" /\ loop' \in {loop, r}
      /\ UNCHANGED <<permits, work, outcome, poolQueue, stopReason, expired,
                     streamVars>>
  BY DEF RegisterSession
<1>1. permits' = permits /\ Holders' = Holders
  BY <1>0, <1>a DEF IInv, TypeOK, Holders
<1>2. PermitAccounting' /\ permits' \in 0..MaxActiveRuns
  BY <1>1, PermitsSame DEF IInv, TypeOK
<1>3. TypeOK'
  <2>1. active' \in [Sessions -> Runs \cup {NoRun}]
    <3>1. active \in [Sessions -> Runs \cup {NoRun}]
      BY DEF IInv, TypeOK
    <3>2. \/ active' = active
          \/ active' = [active EXCEPT ![SessionOf[r]] = r]
      BY DEF RegisterSession
    <3> QED
      BY <3>1, <3>2
  <2> QED
    BY <2>1, <1>0, <1>2, <1>a DEF IInv, TypeOK, CallerStates, Settled, Refused
<1>4. CallerInv'
  <2>1. NotSubmittedInv' /\ OutcomeInv'
    BY <1>0, <1>a DEF IInv, CallerInv, TypeOK, NotSubmittedInv, OutcomeInv,
         BeforeSubmit, Refused
  <2>2. ReasonInv' /\ ReportedReason' /\ ResolvedInv'
    BY <1>0, <1>a DEF IInv, CallerInv, TypeOK, ReasonInv, ReportedReason,
         ResolvedInv
  <2> QED
    BY <2>1, <2>2 DEF CallerInv
<1>5. ActiveInv'
  <2>1. CASE active[SessionOf[r]] # NoRun
    <3>1. active' = active /\ \A q \in Runs : Registered(q)' <=> Registered(q)
      BY <2>1 DEF IInv, TypeOK, Registered, RegisterSession
    <3> QED
      BY <3>1, ActiveSame DEF IInv
  <2>2. CASE active[SessionOf[r]] = NoRun
    <3>1. /\ active' = [active EXCEPT ![SessionOf[r]] = r]
          /\ Registered(r)'
          /\ \A q \in Runs \ {r} : Registered(q)' <=> Registered(q)
      BY <2>2 DEF IInv, TypeOK, Registered, RegisterSession
    <3>2. \A q \in Runs : SessionOf[q] \in Sessions /\ q # NoRun
      BY RunsAssumption
    <3>3. \A q \in Runs : Registered(q) => SessionOf[q] # SessionOf[r]
      BY <2>2, <3>2 DEF IInv, ActiveInv
    <3> QED
      BY <3>1, <3>2, <3>3 DEF IInv, TypeOK, ActiveInv
  <2> QED
    BY <2>1, <2>2
<1> QED
  BY <1>2, <1>3, <1>4, <1>5 DEF IInv

LEMMA AcquireCapacityInv ==
  ASSUME IInv, NEW r \in Runs, AcquireCapacity(r) PROVE IInv'
<1>1. ASSUME permits > 0
      PROVE  PermitAccounting' /\ permits' \in 0..MaxActiveRuns
  <2>1. /\ r \notin Holders /\ permits' = permits - 1
        /\ Holders' = Holders \cup {r}
    BY <1>1 DEF IInv, TypeOK, CallerInv, NotSubmittedInv, BeforeSubmit,
         Holders, AcquireCapacity
  <2>2. permits' \in 0..MaxActiveRuns
    BY <1>1, <2>1, SizesAssumption DEF IInv, TypeOK
  <2> QED
    BY <2>1, <2>2, PermitTaken DEF IInv
<1>2. ASSUME ~(permits > 0)
      PROVE  PermitAccounting' /\ permits' \in 0..MaxActiveRuns
  <2>1. permits' = permits /\ Holders' = Holders
    BY <1>2 DEF IInv, TypeOK, CallerInv, NotSubmittedInv, BeforeSubmit,
         Holders, AcquireCapacity
  <2> QED
    BY <2>1, PermitsSame DEF IInv, TypeOK
<1>3. PermitAccounting' /\ permits' \in 0..MaxActiveRuns
  BY <1>1, <1>2
<1>4. TypeOK'
  BY <1>3, RunsAssumption
  DEF IInv, TypeOK, CallerStates, WorkStates, Settled, Refused, StopReasons,
         Message, AcquireCapacity
<1>5. CallerInv'
  <2>1. PICK c \in {"admitted", "rejecting"} : caller' = [caller EXCEPT ![r] = c]
    BY DEF AcquireCapacity
  <2>2. /\ caller[r] = "registered"
        /\ UNCHANGED <<work, outcome, stopReason, outbox>>
    BY DEF AcquireCapacity
  <2>3. NotSubmittedInv' /\ OutcomeInv'
    BY <2>1, <2>2 DEF IInv, CallerInv, TypeOK, NotSubmittedInv, OutcomeInv,
         BeforeSubmit, Refused
  <2>4. ReasonInv' /\ ReportedReason' /\ ResolvedInv'
    BY <2>1, <2>2 DEF IInv, CallerInv, TypeOK, ReasonInv, ReportedReason,
         ResolvedInv
  <2> QED
    BY <2>3, <2>4 DEF CallerInv
<1>6. ActiveInv'
  <2>1. active' = active /\ \A q \in Runs : Registered(q)' <=> Registered(q)
    BY DEF IInv, TypeOK, CallerInv, NotSubmittedInv, BeforeSubmit, Registered,
         AcquireCapacity
  <2> QED
    BY <2>1, ActiveSame DEF IInv
<1> QED
  BY <1>3, <1>4, <1>5, <1>6 DEF IInv

LEMMA RejectForCapacityInv ==
  ASSUME IInv, NEW r \in Runs, RejectForCapacity(r) PROVE IInv'
<1>1. permits' = permits /\ Holders' = Holders
  BY DEF IInv, TypeOK, Holders, RejectForCapacity, LeaveUnadmitted,
       Unregistered
<1>2. PermitAccounting' /\ permits' \in 0..MaxActiveRuns
  BY <1>1, PermitsSame DEF IInv, TypeOK
<1>3. TypeOK'
  BY <1>2, RunsAssumption
  DEF IInv, TypeOK, CallerStates, WorkStates, Settled, Refused, StopReasons,
         Message, RejectForCapacity, LeaveUnadmitted, Unregistered
<1>4. CallerInv'
  BY DEF IInv, TypeOK, CallerInv, NotSubmittedInv, OutcomeInv, ReasonInv,
       ReportedReason, ResolvedInv, BeforeSubmit, Refused, RejectForCapacity,
       LeaveUnadmitted, Unregistered
<1>5. ActiveInv'
  <2>1. /\ active' = Unregistered(r)
        /\ ~Registered(r)'
        /\ \A q \in Runs \ {r} : Registered(q)' <=> Registered(q)
    BY DEF IInv, TypeOK, CallerInv, NotSubmittedInv, BeforeSubmit, Refused,
         Registered, RejectForCapacity, LeaveUnadmitted
  <2> QED
    BY <2>1, ActiveUnregister DEF IInv
<1> QED
  BY <1>2, <1>3, <1>4, <1>5 DEF IInv

LEMMA SubmitInv ==
  ASSUME IInv, NEW r \in Runs, Submit(r) PROVE IInv'
<1>1. permits' = permits /\ Holders' = Holders
  BY DEF IInv, TypeOK, CallerInv, NotSubmittedInv, BeforeSubmit, Holders,
       Submit
<1>2. PermitAccounting' /\ permits' \in 0..MaxActiveRuns
  BY <1>1, PermitsSame DEF IInv, TypeOK
<1>3. TypeOK'
  BY <1>2, RunsAssumption
  DEF IInv, TypeOK, CallerStates, WorkStates, Settled, Refused, StopReasons,
         Message, Submit
<1>4. CallerInv'
  BY DEF IInv, TypeOK, CallerInv, NotSubmittedInv, OutcomeInv, ReasonInv,
       ReportedReason, ResolvedInv, BeforeSubmit, Refused, Submit
<1>5. ActiveInv'
  <2>1. active' = active /\ \A q \in Runs : Registered(q)' <=> Registered(q)
    BY DEF IInv, TypeOK, CallerInv, NotSubmittedInv, BeforeSubmit, Registered,
         Submit
  <2> QED
    BY <2>1, ActiveSame DEF IInv
<1> QED
  BY <1>2, <1>3, <1>4, <1>5 DEF IInv

LEMMA SubmitFailsInv ==
  ASSUME IInv, NEW r \in Runs, SubmitFails(r) PROVE IInv'
<1>1. r \in Holders /\ permits' = permits + 1 /\ Holders' = Holders \ {r}
  BY DEF IInv, TypeOK, CallerInv, NotSubmittedInv, BeforeSubmit, Holders,
       SubmitFails, LeaveUnadmitted, Cancel, Unregistered
<1>2. PermitAccounting' /\ permits' \in 0..MaxActiveRuns
  BY <1>1, PermitGiven DEF IInv
<1>3. TypeOK'
  <2>1. active' \in [Sessions -> Runs \cup {NoRun}]
    BY RunsAssumption DEF IInv, TypeOK, SubmitFails, LeaveUnadmitted,
         Unregistered
  <2>2. stopReason' \in [Runs -> StopReasons \cup {"none"}]
    <3>1. stopReason \in [Runs -> StopReasons \cup {"none"}]
      BY DEF IInv, TypeOK
    <3>2. \/ stopReason' = stopReason
          \/ stopReason' = [stopReason EXCEPT
                              ![r] = IF @ = "none" THEN "cancelled" ELSE @]
      BY DEF SubmitFails, LeaveUnadmitted, Cancel
    <3> QED
      BY <3>1, <3>2 DEF StopReasons
  <2> QED
    BY <1>2, <2>1, <2>2
    DEF IInv, TypeOK, CallerStates, Settled, SubmitFails, LeaveUnadmitted
<1>4. CallerInv'
  BY DEF IInv, TypeOK, CallerInv, NotSubmittedInv, OutcomeInv, ReasonInv,
       ReportedReason, ResolvedInv, BeforeSubmit, Refused, SubmitFails,
       LeaveUnadmitted, Cancel, Unregistered
<1>5. ActiveInv'
  <2>1. /\ active' = Unregistered(r)
        /\ ~Registered(r)'
        /\ \A q \in Runs \ {r} : Registered(q)' <=> Registered(q)
    BY DEF IInv, TypeOK, CallerInv, NotSubmittedInv, BeforeSubmit, Refused,
         Registered, SubmitFails, LeaveUnadmitted, Cancel
  <2> QED
    BY <2>1, ActiveUnregister DEF IInv
<1> QED
  BY <1>2, <1>3, <1>4, <1>5 DEF IInv

LEMMA DeadlinePassesInv ==
  ASSUME IInv, NEW r \in Runs, DeadlinePasses(r) PROVE IInv'
<1>1. permits' = permits /\ Holders' = Holders
  BY DEF IInv, TypeOK, Holders, DeadlinePasses
<1>2. PermitAccounting' /\ permits' \in 0..MaxActiveRuns
  BY <1>1, PermitsSame DEF IInv, TypeOK
<1>3. TypeOK'
  BY <1>2, RunsAssumption
  DEF IInv, TypeOK, CallerStates, WorkStates, Settled, Refused, StopReasons,
         Message, DeadlinePasses
<1>4. CallerInv'
  BY DEF IInv, TypeOK, CallerInv, NotSubmittedInv, OutcomeInv, ReasonInv,
       ReportedReason, ResolvedInv, BeforeSubmit, Refused, DeadlinePasses
<1>5. ActiveInv'
  <2>1. active' = active /\ \A q \in Runs : Registered(q)' <=> Registered(q)
    BY DEF IInv, TypeOK, CallerInv, NotSubmittedInv, BeforeSubmit, Registered,
         DeadlinePasses
  <2> QED
    BY <2>1, ActiveSame DEF IInv
<1> QED
  BY <1>2, <1>3, <1>4, <1>5 DEF IInv

LEMMA StopWorkInv ==
  ASSUME IInv, NEW r \in Runs, StopWork(r) PROVE IInv'
<1>1. permits' = permits /\ Holders' = Holders
  BY DEF IInv, TypeOK, Holders, StopWork, Cancel, MustStop
<1>2. PermitAccounting' /\ permits' \in 0..MaxActiveRuns
  BY <1>1, PermitsSame DEF IInv, TypeOK
<1>3. TypeOK'
  BY <1>2, RunsAssumption
  DEF IInv, TypeOK, CallerStates, WorkStates, Settled, Refused, StopReasons,
         Message, StopWork, Cancel, MustStop
<1>4. CallerInv'
  BY DEF IInv, TypeOK, CallerInv, NotSubmittedInv, OutcomeInv, ReasonInv,
       ReportedReason, ResolvedInv, BeforeSubmit, Refused, StopWork, Cancel,
       MustStop
<1>5. ActiveInv'
  <2>1. active' = active /\ \A q \in Runs : Registered(q)' <=> Registered(q)
    BY DEF IInv, TypeOK, CallerInv, NotSubmittedInv, BeforeSubmit, Registered,
         StopWork, Cancel, MustStop
  <2> QED
    BY <2>1, ActiveSame DEF IInv
<1> QED
  BY <1>2, <1>3, <1>4, <1>5 DEF IInv

LEMMA ReturnResultInv ==
  ASSUME IInv, NEW r \in Runs, ReturnResult(r) PROVE IInv'
<1>1. permits' = permits /\ Holders' = Holders
  BY DEF IInv, TypeOK, Holders, ReturnResult, MustStop
<1>2. PermitAccounting' /\ permits' \in 0..MaxActiveRuns
  BY <1>1, PermitsSame DEF IInv, TypeOK
<1>3. TypeOK'
  BY <1>2, RunsAssumption
  DEF IInv, TypeOK, CallerStates, WorkStates, Settled, Refused, StopReasons,
         Message, ReturnResult, MustStop
<1>4. CallerInv'
  BY DEF IInv, TypeOK, CallerInv, NotSubmittedInv, OutcomeInv, ReasonInv,
       ReportedReason, ResolvedInv, BeforeSubmit, Refused, ReturnResult,
       MustStop
<1>5. ActiveInv'
  <2>1. active' = active /\ \A q \in Runs : Registered(q)' <=> Registered(q)
    BY DEF IInv, TypeOK, CallerInv, NotSubmittedInv, BeforeSubmit, Registered,
         ReturnResult, MustStop
  <2> QED
    BY <2>1, ActiveSame DEF IInv
<1> QED
  BY <1>2, <1>3, <1>4, <1>5 DEF IInv

LEMMA ExceedRecursionLimitInv ==
  ASSUME IInv, NEW r \in Runs, ExceedRecursionLimit(r) PROVE IInv'
<1>1. permits' = permits /\ Holders' = Holders
  BY DEF IInv, TypeOK, Holders, ExceedRecursionLimit, Cancel
<1>2. PermitAccounting' /\ permits' \in 0..MaxActiveRuns
  BY <1>1, PermitsSame DEF IInv, TypeOK
<1>3. TypeOK'
  BY <1>2, RunsAssumption
  DEF IInv, TypeOK, CallerStates, WorkStates, Settled, Refused, StopReasons,
         Message, ExceedRecursionLimit, Cancel
<1>4. CallerInv'
  BY DEF IInv, TypeOK, CallerInv, NotSubmittedInv, OutcomeInv, ReasonInv,
       ReportedReason, ResolvedInv, BeforeSubmit, Refused,
       ExceedRecursionLimit, Cancel
<1>5. ActiveInv'
  <2>1. active' = active /\ \A q \in Runs : Registered(q)' <=> Registered(q)
    BY DEF IInv, TypeOK, CallerInv, NotSubmittedInv, BeforeSubmit, Registered,
         ExceedRecursionLimit, Cancel
  <2> QED
    BY <2>1, ActiveSame DEF IInv
<1> QED
  BY <1>2, <1>3, <1>4, <1>5 DEF IInv

LEMMA RaiseErrorInv ==
  ASSUME IInv, NEW r \in Runs, RaiseError(r) PROVE IInv'
<1>1. permits' = permits /\ Holders' = Holders
  BY DEF IInv, TypeOK, Holders, RaiseError
<1>2. PermitAccounting' /\ permits' \in 0..MaxActiveRuns
  BY <1>1, PermitsSame DEF IInv, TypeOK
<1>3. TypeOK'
  <2>1. PICK w \in {"publishing", "finishing"} : work' = [work EXCEPT ![r] = w]
    BY DEF RaiseError
  <2>2. outbox' \in [Runs -> Message \cup {"none"}]
    BY DEF IInv, TypeOK, RaiseError, Message
  <2> QED
    BY <1>2, <2>1, <2>2 DEF IInv, TypeOK, WorkStates, RaiseError
<1>4. CallerInv'
  <2>1. OutcomeInv'
    <3>1. CASE r \in Streams /\ stopReason[r] = "none"
      BY <3>1, ZenonT(60) DEF IInv, TypeOK, CallerInv, OutcomeInv, RaiseError
    <3>2. CASE ~(r \in Streams /\ stopReason[r] = "none")
      BY <3>2 DEF IInv, TypeOK, CallerInv, OutcomeInv, RaiseError
    <3> QED
      BY <3>1, <3>2
  <2>2. NotSubmittedInv' /\ ReasonInv' /\ ReportedReason' /\ ResolvedInv'
    BY DEF IInv, TypeOK, CallerInv, NotSubmittedInv, ReasonInv, OutcomeInv,
         ReportedReason, ResolvedInv, BeforeSubmit, Refused, RaiseError
  <2> QED
    BY <2>1, <2>2 DEF CallerInv
<1>5. ActiveInv'
  <2>1. active' = active /\ \A q \in Runs : Registered(q)' <=> Registered(q)
    BY DEF IInv, TypeOK, CallerInv, NotSubmittedInv, BeforeSubmit, Registered,
         RaiseError
  <2> QED
    BY <2>1, ActiveSame DEF IInv
<1> QED
  BY <1>2, <1>3, <1>4, <1>5 DEF IInv

LEMMA NextItemInv ==
  ASSUME IInv, NEW r \in Runs, NextItem(r) PROVE IInv'
<1>1. permits' = permits /\ Holders' = Holders
  BY DEF IInv, TypeOK, Holders, NextItem, MustStop
<1>2. PermitAccounting' /\ permits' \in 0..MaxActiveRuns
  BY <1>1, PermitsSame DEF IInv, TypeOK
<1>3. TypeOK'
  BY <1>2, RunsAssumption
  DEF IInv, TypeOK, CallerStates, WorkStates, Settled, Refused, StopReasons,
         Message, NextItem, MustStop
<1>4. CallerInv'
  BY DEF IInv, TypeOK, CallerInv, NotSubmittedInv, OutcomeInv, ReasonInv,
       ReportedReason, ResolvedInv, BeforeSubmit, Refused, NextItem, MustStop
<1>5. ActiveInv'
  <2>1. active' = active /\ \A q \in Runs : Registered(q)' <=> Registered(q)
    BY DEF IInv, TypeOK, CallerInv, NotSubmittedInv, BeforeSubmit, Registered,
         NextItem, MustStop
  <2> QED
    BY <2>1, ActiveSame DEF IInv
<1> QED
  BY <1>2, <1>3, <1>4, <1>5 DEF IInv

LEMMA ExhaustIteratorInv ==
  ASSUME IInv, NEW r \in Runs, ExhaustIterator(r) PROVE IInv'
<1>1. permits' = permits /\ Holders' = Holders
  BY DEF IInv, TypeOK, Holders, ExhaustIterator
<1>2. PermitAccounting' /\ permits' \in 0..MaxActiveRuns
  BY <1>1, PermitsSame DEF IInv, TypeOK
<1>3. TypeOK'
  BY <1>2, RunsAssumption, ZenonT(30)
  DEF IInv, TypeOK, CallerStates, WorkStates, Settled, Refused, StopReasons,
         Message, ExhaustIterator
<1>4. CallerInv'
  BY DEF IInv, TypeOK, CallerInv, NotSubmittedInv, OutcomeInv, ReasonInv,
       ReportedReason, ResolvedInv, BeforeSubmit, Refused, ExhaustIterator
<1>5. ActiveInv'
  <2>1. active' = active /\ \A q \in Runs : Registered(q)' <=> Registered(q)
    BY DEF IInv, TypeOK, CallerInv, NotSubmittedInv, BeforeSubmit, Registered,
         ExhaustIterator
  <2> QED
    BY <2>1, ActiveSame DEF IInv
<1> QED
  BY <1>2, <1>3, <1>4, <1>5 DEF IInv

LEMMA PutInv ==
  ASSUME IInv, NEW r \in Runs, Put(r) PROVE IInv'
<1>1. permits' = permits /\ Holders' = Holders
  BY DEF IInv, TypeOK, Holders, Put, Published
<1>2. PermitAccounting' /\ permits' \in 0..MaxActiveRuns
  BY <1>1, PermitsSame DEF IInv, TypeOK
<1>3. TypeOK'
  <2>1. outbox[r] \in Message /\ messages[r] \in Seq(Message)
    BY DEF IInv, TypeOK, CallerInv, OutcomeInv, Put, Published
  <2>2. Append(messages[r], outbox[r]) \in Seq(Message)
    BY <2>1
  <2>3. messages' \in [Runs -> Seq(Message)]
    BY <2>2 DEF IInv, TypeOK, Put, Published
  <2>4. produced' \in [Runs -> Nat]
    <3>1. produced \in [Runs -> Nat] /\ produced[r] + 1 \in Nat
      BY DEF IInv, TypeOK
    <3>2. \/ produced' = [produced EXCEPT ![r] = @ + 1]
          \/ produced' = produced
      BY DEF Put, Published
    <3> QED
      BY <3>1, <3>2
  <2> QED
    BY <2>3, <2>4, <1>2
    DEF IInv, TypeOK, WorkStates, Put, Published
<1>4. CallerInv'
  BY SMTT(30) DEF IInv, TypeOK, CallerInv, NotSubmittedInv, OutcomeInv,
       ReasonInv, ReportedReason, ResolvedInv, BeforeSubmit, Refused, Put,
       Published
<1>5. ActiveInv'
  <2>1. active' = active /\ \A q \in Runs : Registered(q)' <=> Registered(q)
    BY DEF IInv, TypeOK, CallerInv, NotSubmittedInv, BeforeSubmit, Registered,
         Put, Published
  <2> QED
    BY <2>1, ActiveSame DEF IInv
<1> QED
  BY <1>2, <1>3, <1>4, <1>5 DEF IInv

LEMMA AbandonPutInv ==
  ASSUME IInv, NEW r \in Runs, AbandonPut(r) PROVE IInv'
<1>1. permits' = permits /\ Holders' = Holders
  BY DEF IInv, TypeOK, Holders, AbandonPut
<1>2. PermitAccounting' /\ permits' \in 0..MaxActiveRuns
  BY <1>1, PermitsSame DEF IInv, TypeOK
<1>3. TypeOK'
  BY <1>2, RunsAssumption
  DEF IInv, TypeOK, CallerStates, WorkStates, Settled, Refused, StopReasons,
         Message, AbandonPut
<1>4. CallerInv'
  BY DEF IInv, TypeOK, CallerInv, NotSubmittedInv, OutcomeInv, ReasonInv,
       ReportedReason, ResolvedInv, BeforeSubmit, Refused, AbandonPut
<1>5. ActiveInv'
  <2>1. active' = active /\ \A q \in Runs : Registered(q)' <=> Registered(q)
    BY DEF IInv, TypeOK, CallerInv, NotSubmittedInv, BeforeSubmit, Registered,
         AbandonPut
  <2> QED
    BY <2>1, ActiveSame DEF IInv
<1> QED
  BY <1>2, <1>3, <1>4, <1>5 DEF IInv

LEMMA FinishRunInv ==
  ASSUME IInv, NEW r \in Runs, FinishRun(r) PROVE IInv'
<1>1. permits' = permits /\ Holders' = Holders
  BY DEF IInv, TypeOK, Holders, FinishRun, Unregistered
<1>2. PermitAccounting' /\ permits' \in 0..MaxActiveRuns
  BY <1>1, PermitsSame DEF IInv, TypeOK
<1>3. TypeOK'
  BY <1>2, RunsAssumption
  DEF IInv, TypeOK, CallerStates, WorkStates, Settled, Refused, StopReasons,
         Message, FinishRun, Unregistered
<1>4. CallerInv'
  BY DEF IInv, TypeOK, CallerInv, NotSubmittedInv, OutcomeInv, ReasonInv,
       ReportedReason, ResolvedInv, BeforeSubmit, Refused, FinishRun,
       Unregistered
<1>5. ActiveInv'
  <2>1. /\ active' = Unregistered(r)
        /\ ~Registered(r)'
        /\ \A q \in Runs \ {r} : Registered(q)' <=> Registered(q)
    BY DEF IInv, TypeOK, CallerInv, NotSubmittedInv, BeforeSubmit, Refused,
         Registered, FinishRun
  <2> QED
    BY <2>1, ActiveUnregister DEF IInv
<1> QED
  BY <1>2, <1>3, <1>4, <1>5 DEF IInv

LEMMA ReleaseCapacityInv ==
  ASSUME IInv, NEW r \in Runs, ReleaseCapacity(r) PROVE IInv'
<1>1. r \in Holders /\ permits' = permits + 1 /\ Holders' = Holders \ {r}
  BY DEF IInv, TypeOK, CallerInv, NotSubmittedInv, BeforeSubmit, Holders,
       ReleaseCapacity
<1>2. PermitAccounting' /\ permits' \in 0..MaxActiveRuns
  BY <1>1, PermitGiven DEF IInv
<1>3. TypeOK'
  BY <1>2, RunsAssumption
  DEF IInv, TypeOK, CallerStates, WorkStates, Settled, Refused, StopReasons,
         Message, ReleaseCapacity
<1>4. CallerInv'
  BY DEF IInv, TypeOK, CallerInv, NotSubmittedInv, OutcomeInv, ReasonInv,
       ReportedReason, ResolvedInv, BeforeSubmit, Refused, ReleaseCapacity
<1>5. ActiveInv'
  <2>1. active' = active /\ \A q \in Runs : Registered(q)' <=> Registered(q)
    BY DEF IInv, TypeOK, CallerInv, NotSubmittedInv, BeforeSubmit, Registered,
         ReleaseCapacity
  <2> QED
    BY <2>1, ActiveSame DEF IInv
<1> QED
  BY <1>2, <1>3, <1>4, <1>5 DEF IInv

LEMMA ResolveFutureInv ==
  ASSUME IInv, NEW r \in Runs, ResolveFuture(r) PROVE IInv'
<1>1. permits' = permits /\ Holders' = Holders
  BY DEF IInv, TypeOK, Holders, ResolveFuture
<1>2. PermitAccounting' /\ permits' \in 0..MaxActiveRuns
  BY <1>1, PermitsSame DEF IInv, TypeOK
<1>3. TypeOK'
  BY <1>2, RunsAssumption
  DEF IInv, TypeOK, CallerStates, WorkStates, Settled, Refused, StopReasons,
         Message, ResolveFuture
<1>4. CallerInv'
  BY DEF IInv, TypeOK, CallerInv, NotSubmittedInv, OutcomeInv, ReasonInv,
       ReportedReason, ResolvedInv, BeforeSubmit, Refused, ResolveFuture
<1>5. ActiveInv'
  <2>1. active' = active /\ \A q \in Runs : Registered(q)' <=> Registered(q)
    BY DEF IInv, TypeOK, CallerInv, NotSubmittedInv, BeforeSubmit, Registered,
         ResolveFuture
  <2> QED
    BY <2>1, ActiveSame DEF IInv
<1> QED
  BY <1>2, <1>3, <1>4, <1>5 DEF IInv

LEMMA ReceiveOutcomeInv ==
  ASSUME IInv, NEW r \in Runs, ReceiveOutcome(r) PROVE IInv'
<1>0. /\ r \in Runs \ Streams /\ caller[r] = "waiting" /\ work[r] = "resolved"
      /\ outcome[r] # "none"
      /\ UNCHANGED <<active, permits, loop, work, outcome, poolQueue, expired,
                     outbox, messages, produced, delivered>>
  BY DEF ReceiveOutcome, Answers, IsWaiting, IInv, CallerInv, OutcomeInv
<1>a. PICK c \in {"done", "error"} \cup StopReasons :
             /\ caller' = [caller EXCEPT ![r] = c]
             /\ stopReason' = [stopReason EXCEPT ![r] =
                                 IF @ = "none" /\ c \in StopReasons THEN c ELSE @]
             /\ outcome[r] = "stopped" => c = stopReason[r]
  <2>1. PICK c \in Answers(r) :
               /\ caller' = [caller EXCEPT ![r] = c]
               /\ IF c \in StopReasons THEN Cancel(r, c) ELSE UNCHANGED stopReason
    BY DEF ReceiveOutcome
  <2>2. outcome[r] = "stopped" => stopReason[r] \in StopReasons
    BY <1>0 DEF IInv, TypeOK, CallerInv, OutcomeInv
  <2>3. /\ c \in {"done", "error"} \cup StopReasons
        /\ outcome[r] = "stopped" => c = stopReason[r]
    BY <1>0, <2>1, <2>2 DEF IInv, TypeOK, Answers, StopReasons
  <2>4. stopReason' = [stopReason EXCEPT ![r] =
                         IF @ = "none" /\ c \in StopReasons THEN c ELSE @]
    BY <1>0, <2>1 DEF IInv, TypeOK, Cancel
  <2> QED
    BY <2>1, <2>3, <2>4
<1>b. PICK s \in StopReasons \cup {"none"} :
             /\ stopReason' = [stopReason EXCEPT ![r] = s]
             /\ stopReason[r] # "none" => s = stopReason[r]
  BY <1>0, <1>a DEF IInv, TypeOK
<1>1. permits' = permits /\ Holders' = Holders
  BY <1>0, <1>a DEF IInv, TypeOK, StopReasons, Holders
<1>2. PermitAccounting' /\ permits' \in 0..MaxActiveRuns
  BY <1>1, PermitsSame DEF IInv, TypeOK
<1>3. TypeOK'
  BY <1>0, <1>2, <1>a, <1>b DEF IInv, TypeOK, CallerStates, Settled
<1>4. CallerInv'
  <2>1. NotSubmittedInv'
    BY <1>0, <1>a, <1>b DEF IInv, CallerInv, TypeOK, NotSubmittedInv,
         BeforeSubmit, Refused, StopReasons
  <2>2. OutcomeInv'
    BY <1>0, <1>b DEF IInv, CallerInv, TypeOK, OutcomeInv
  <2>3. ReasonInv'
    BY <1>0, <1>a, <1>b DEF IInv, CallerInv, TypeOK, ReasonInv, StopReasons
  <2>4. ReportedReason'
    <3>1. \A q \in Runs \ {r} : caller'[q] = caller[q] /\ stopReason'[q] = stopReason[q]
      BY <1>a, <1>b DEF IInv, TypeOK
    <3>2. caller'[r] \in {"timeout", "recursion_limit"} => stopReason'[r] = caller'[r]
      <4>1. stopReason[r] = "none" \/ outcome[r] = "stopped"
        BY <1>0 DEF IInv, CallerInv, ReasonInv
      <4>2. caller'[r] = c
        BY <1>a DEF IInv, TypeOK
      <4>3. stopReason'[r] = IF stopReason[r] = "none" /\ c \in StopReasons
                             THEN c ELSE stopReason[r]
        BY <1>a DEF IInv, TypeOK
      <4> QED
        BY <1>a, <4>1, <4>2, <4>3 DEF StopReasons
    <3> QED
      BY <3>1, <3>2 DEF IInv, CallerInv, ReportedReason
  <2>5. ResolvedInv'
    BY <1>0, <1>a DEF IInv, CallerInv, TypeOK, ResolvedInv
  <2> QED
    BY <2>1, <2>2, <2>3, <2>4, <2>5 DEF CallerInv
<1>5. ActiveInv'
  <2>1. active' = active /\ \A q \in Runs : Registered(q)' <=> Registered(q)
    BY <1>0, <1>a DEF IInv, TypeOK, Registered, StopReasons
  <2> QED
    BY <2>1, ActiveSame DEF IInv
<1> QED
  BY <1>2, <1>3, <1>4, <1>5 DEF IInv

LEMMA CallTimesOutInv ==
  ASSUME IInv, NEW r \in Runs, CallTimesOut(r) PROVE IInv'
<1>1. permits' = permits /\ Holders' = Holders
  BY DEF IInv, TypeOK, Holders, CallTimesOut, GiveUp, Cancel, CancelFuture,
       IsWaiting
<1>2. PermitAccounting' /\ permits' \in 0..MaxActiveRuns
  BY <1>1, PermitsSame DEF IInv, TypeOK
<1>3. TypeOK'
  BY <1>2, RunsAssumption
  DEF IInv, TypeOK, CallerStates, WorkStates, Settled, Refused, StopReasons,
         Message, CallTimesOut, GiveUp, Cancel, CancelFuture, IsWaiting
<1>4. CallerInv'
  BY DEF IInv, TypeOK, CallerInv, NotSubmittedInv, OutcomeInv, ReasonInv,
       ReportedReason, ResolvedInv, BeforeSubmit, Refused, CallTimesOut,
       GiveUp, Cancel, CancelFuture, IsWaiting
<1>5. ActiveInv'
  <2>1. active' = active /\ \A q \in Runs : Registered(q)' <=> Registered(q)
    BY DEF IInv, TypeOK, CallerInv, NotSubmittedInv, BeforeSubmit, Registered,
         CallTimesOut, GiveUp, Cancel, CancelFuture, IsWaiting
  <2> QED
    BY <2>1, ActiveSame DEF IInv
<1> QED
  BY <1>2, <1>3, <1>4, <1>5 DEF IInv

LEMMA CallCancelledInv ==
  ASSUME IInv, NEW r \in Runs, CallCancelled(r) PROVE IInv'
<1>1. permits' = permits /\ Holders' = Holders
  BY DEF IInv, TypeOK, Holders, CallCancelled, GiveUp, Cancel, CancelFuture,
       IsWaiting
<1>2. PermitAccounting' /\ permits' \in 0..MaxActiveRuns
  BY <1>1, PermitsSame DEF IInv, TypeOK
<1>3. TypeOK'
  BY <1>2, RunsAssumption
  DEF IInv, TypeOK, CallerStates, WorkStates, Settled, Refused, StopReasons,
         Message, CallCancelled, GiveUp, Cancel, CancelFuture, IsWaiting
<1>4. CallerInv'
  BY DEF IInv, TypeOK, CallerInv, NotSubmittedInv, OutcomeInv, ReasonInv,
       ReportedReason, ResolvedInv, BeforeSubmit, Refused, CallCancelled,
       GiveUp, Cancel, CancelFuture, IsWaiting
<1>5. ActiveInv'
  <2>1. active' = active /\ \A q \in Runs : Registered(q)' <=> Registered(q)
    BY DEF IInv, TypeOK, CallerInv, NotSubmittedInv, BeforeSubmit, Registered,
         CallCancelled, GiveUp, Cancel, CancelFuture, IsWaiting
  <2> QED
    BY <2>1, ActiveSame DEF IInv
<1> QED
  BY <1>2, <1>3, <1>4, <1>5 DEF IInv

LEMMA StreamStopsInv ==
  ASSUME IInv, NEW r \in Runs, StreamStops(r) PROVE IInv'
<1>1. permits' = permits /\ Holders' = Holders
  BY DEF IInv, TypeOK, Holders, StopReasons, StreamStops, Cancel, MustStop,
       IsWaiting
<1>2. PermitAccounting' /\ permits' \in 0..MaxActiveRuns
  BY <1>1, PermitsSame DEF IInv, TypeOK
<1>3. TypeOK'
  BY <1>2, RunsAssumption
  DEF IInv, TypeOK, CallerStates, WorkStates, Settled, Refused, StopReasons,
         Message, StreamStops, Cancel, MustStop, IsWaiting
<1>4. CallerInv'
  BY DEF IInv, TypeOK, CallerInv, NotSubmittedInv, OutcomeInv, ReasonInv,
       ReportedReason, ResolvedInv, BeforeSubmit, Refused, StopReasons,
       StreamStops, Cancel, MustStop, IsWaiting
<1>5. ActiveInv'
  <2>1. active' = active /\ \A q \in Runs : Registered(q)' <=> Registered(q)
    BY ZenonT(30) DEF IInv, TypeOK, CallerInv, NotSubmittedInv, BeforeSubmit, Registered,
         StopReasons, OutcomeInv, StreamStops, Cancel, MustStop, IsWaiting
  <2> QED
    BY <2>1, ActiveSame DEF IInv
<1> QED
  BY <1>2, <1>3, <1>4, <1>5 DEF IInv

LEMMA YieldItemInv ==
  ASSUME IInv, NEW r \in Runs, YieldItem(r) PROVE IInv'
<1>1. permits' = permits /\ Holders' = Holders
  BY DEF IInv, TypeOK, Holders, YieldItem, MustStop, IsWaiting, Poll
<1>2. PermitAccounting' /\ permits' \in 0..MaxActiveRuns
  BY <1>1, PermitsSame DEF IInv, TypeOK
<1>3. TypeOK'
  BY <1>2, RunsAssumption
  DEF IInv, TypeOK, CallerStates, WorkStates, Settled, Refused, StopReasons,
         Message, YieldItem, MustStop, IsWaiting, Poll
<1>4. CallerInv'
  BY DEF IInv, TypeOK, CallerInv, NotSubmittedInv, OutcomeInv, ReasonInv,
       ReportedReason, ResolvedInv, BeforeSubmit, Refused, YieldItem,
       MustStop, IsWaiting, Poll
<1>5. ActiveInv'
  <2>1. active' = active /\ \A q \in Runs : Registered(q)' <=> Registered(q)
    BY DEF IInv, TypeOK, CallerInv, NotSubmittedInv, BeforeSubmit, Registered,
         YieldItem, MustStop, IsWaiting, Poll
  <2> QED
    BY <2>1, ActiveSame DEF IInv
<1> QED
  BY <1>2, <1>3, <1>4, <1>5 DEF IInv

LEMMA ResumeStreamInv ==
  ASSUME IInv, NEW r \in Runs, ResumeStream(r) PROVE IInv'
<1>1. permits' = permits /\ Holders' = Holders
  BY DEF IInv, TypeOK, Holders, ResumeStream
<1>2. PermitAccounting' /\ permits' \in 0..MaxActiveRuns
  BY <1>1, PermitsSame DEF IInv, TypeOK
<1>3. TypeOK'
  BY <1>2, RunsAssumption
  DEF IInv, TypeOK, CallerStates, WorkStates, Settled, Refused, StopReasons,
         Message, ResumeStream
<1>4. CallerInv'
  <2>1. NotSubmittedInv'
    BY DEF IInv, CallerInv, TypeOK, NotSubmittedInv, BeforeSubmit, Refused,
         ResumeStream
  <2>2. OutcomeInv'
    BY DEF IInv, CallerInv, TypeOK, NotSubmittedInv, OutcomeInv, BeforeSubmit,
         Refused, ResumeStream
  <2>3. ReasonInv'
    BY DEF IInv, CallerInv, TypeOK, NotSubmittedInv, OutcomeInv, ReasonInv,
         BeforeSubmit, Refused, ResumeStream
  <2>4. ReportedReason'
    BY DEF IInv, CallerInv, TypeOK, NotSubmittedInv, OutcomeInv, ReasonInv,
         ReportedReason, BeforeSubmit, Refused, ResumeStream
  <2>5. ResolvedInv'
    BY DEF IInv, CallerInv, TypeOK, NotSubmittedInv, ResolvedInv,
         BeforeSubmit, Refused, ResumeStream
  <2> QED
    BY <2>1, <2>2, <2>3, <2>4, <2>5 DEF CallerInv
<1>5. ActiveInv'
  <2>1. active' = active /\ \A q \in Runs : Registered(q)' <=> Registered(q)
    BY DEF IInv, TypeOK, CallerInv, NotSubmittedInv, BeforeSubmit, Registered,
         ResumeStream
  <2> QED
    BY <2>1, ActiveSame DEF IInv
<1> QED
  BY <1>2, <1>3, <1>4, <1>5 DEF IInv

LEMMA CompleteStreamInv ==
  ASSUME IInv, NEW r \in Runs, CompleteStream(r) PROVE IInv'
<1>1. permits' = permits /\ Holders' = Holders
  BY DEF IInv, TypeOK, Holders, CompleteStream, MustStop, IsWaiting, Poll
<1>2. PermitAccounting' /\ permits' \in 0..MaxActiveRuns
  BY <1>1, PermitsSame DEF IInv, TypeOK
<1>3. TypeOK'
  BY <1>2, RunsAssumption
  DEF IInv, TypeOK, CallerStates, WorkStates, Settled, Refused, StopReasons,
         Message, CompleteStream, MustStop, IsWaiting, Poll
<1>4. CallerInv'
  BY DEF IInv, TypeOK, CallerInv, NotSubmittedInv, OutcomeInv, ReasonInv,
       ReportedReason, ResolvedInv, BeforeSubmit, Refused, CompleteStream,
       MustStop, IsWaiting, Poll
<1>5. ActiveInv'
  <2>1. active' = active /\ \A q \in Runs : Registered(q)' <=> Registered(q)
    BY DEF IInv, TypeOK, CallerInv, NotSubmittedInv, BeforeSubmit, Registered,
         CompleteStream, MustStop, IsWaiting, Poll
  <2> QED
    BY <2>1, ActiveSame DEF IInv
<1> QED
  BY <1>2, <1>3, <1>4, <1>5 DEF IInv

LEMMA FailStreamInv ==
  ASSUME IInv, NEW r \in Runs, FailStream(r) PROVE IInv'
<1>1. permits' = permits /\ Holders' = Holders
  BY DEF IInv, TypeOK, Holders, FailStream, Cancel, MustStop, IsWaiting, Poll
<1>2. PermitAccounting' /\ permits' \in 0..MaxActiveRuns
  BY <1>1, PermitsSame DEF IInv, TypeOK
<1>a. /\ r \in Streams /\ stopReason[r] = "none" /\ caller[r] = "waiting"
      /\ UNCHANGED <<admissionVars, work, outcome, poolQueue, expired, outbox,
                     produced, delivered>>
  BY DEF FailStream, Poll, MustStop, IsWaiting
<1>b. PICK c \in {"error", "timeout"} :
              /\ caller' = [caller EXCEPT ![r] = c]
              /\ stopReason' = [stopReason EXCEPT ![r] =
                                   IF c = "error" THEN "cancelled" ELSE c]
  BY <1>a DEF IInv, TypeOK, FailStream, Cancel
<1>3. TypeOK'
  <2>1. messages' \in [Runs -> Seq(Message)]
    BY DEF IInv, TypeOK, FailStream, Poll
  <2> QED
    BY <1>2, <1>a, <1>b, <2>1
    DEF IInv, TypeOK, CallerStates, Settled, Refused, StopReasons
<1>4. CallerInv'
  BY <1>a, <1>b
  DEF IInv, TypeOK, CallerInv, NotSubmittedInv, OutcomeInv, ReasonInv,
      ReportedReason, ResolvedInv, BeforeSubmit, Refused
<1>5. ActiveInv'
  <2>1. active' = active /\ \A q \in Runs : Registered(q)' <=> Registered(q)
    BY DEF IInv, TypeOK, CallerInv, NotSubmittedInv, BeforeSubmit, Registered,
         FailStream, Cancel, MustStop, IsWaiting, Poll
  <2> QED
    BY <2>1, ActiveSame DEF IInv
<1> QED
  BY <1>2, <1>3, <1>4, <1>5 DEF IInv

LEMMA CloseStreamInv ==
  ASSUME IInv, NEW r \in Runs, CloseStream(r) PROVE IInv'
<1>1. permits' = permits /\ Holders' = Holders
  BY DEF IInv, TypeOK, Holders, CloseStream, Cancel
<1>2. PermitAccounting' /\ permits' \in 0..MaxActiveRuns
  BY <1>1, PermitsSame DEF IInv, TypeOK
<1>3. TypeOK'
  BY <1>2, RunsAssumption
  DEF IInv, TypeOK, CallerStates, WorkStates, Settled, Refused, StopReasons,
         Message, CloseStream, Cancel
<1>4. CallerInv'
  BY DEF IInv, TypeOK, CallerInv, NotSubmittedInv, OutcomeInv, ReasonInv,
       ReportedReason, ResolvedInv, BeforeSubmit, Refused, CloseStream, Cancel
<1>5. ActiveInv'
  <2>1. active' = active /\ \A q \in Runs : Registered(q)' <=> Registered(q)
    BY DEF IInv, TypeOK, CallerInv, NotSubmittedInv, BeforeSubmit, Registered,
         CloseStream, Cancel
  <2> QED
    BY <2>1, ActiveSame DEF IInv
<1> QED
  BY <1>2, <1>3, <1>4, <1>5 DEF IInv

LEMMA TakeWorkInv == ASSUME IInv, TakeWork PROVE IInv'
<1> DEFINE h == Head(poolQueue)
<1>1. h \in Runs /\ Tail(poolQueue) \in Seq(Runs)
  BY DEF IInv, TypeOK, TakeWork
<1>2. work' = [work EXCEPT ![h] = IF @ = "pending" THEN "running" ELSE @]
  BY DEF TakeWork
<1>3. permits' = permits /\ Holders' = Holders
  BY SMTT(30), <1>1, <1>2 DEF IInv, TypeOK, Holders, TakeWork
<1>4. PermitAccounting' /\ permits' \in 0..MaxActiveRuns
  BY <1>3, PermitsSame DEF IInv, TypeOK
<1>5. TypeOK'
  BY <1>1, <1>2, <1>4 DEF IInv, TypeOK, WorkStates, TakeWork
<1>6. CallerInv'
  <2>0. UNCHANGED <<caller, outcome, stopReason, outbox>>
    BY DEF TakeWork
  <2>1. ASSUME NEW q \in Runs
        PROVE  \/ work'[q] = work[q]
               \/ work[q] = "pending" /\ work'[q] = "running"
    <3>1. work \in [Runs -> WorkStates]
      BY DEF IInv, TypeOK
    <3>2. CASE q = h
      BY <1>1, <1>2, <3>1, <3>2
    <3>3. CASE q # h
      BY <1>1, <1>2, <3>1, <3>3
    <3> QED
      BY <3>2, <3>3
  <2>2. NotSubmittedInv' /\ ResolvedInv'
    BY <2>0, <2>1 DEF IInv, CallerInv, NotSubmittedInv, ResolvedInv
  <2>3. OutcomeInv'
    BY <2>0, <2>1 DEF IInv, CallerInv, OutcomeInv
  <2>4. ReasonInv' /\ ReportedReason'
    BY <2>0, <2>1 DEF IInv, CallerInv, ReasonInv, ReportedReason
  <2> QED
    BY <2>2, <2>3, <2>4 DEF CallerInv
<1>7. ActiveInv'
  <2>1. active' = active /\ \A q \in Runs : Registered(q)' <=> Registered(q)
    BY <1>1, <1>2 DEF IInv, TypeOK, Registered, TakeWork
  <2> QED
    BY <2>1, ActiveSame DEF IInv
<1> QED
  BY <1>4, <1>5, <1>6, <1>7 DEF IInv

LEMMA StutterInv == ASSUME IInv, UNCHANGED vars PROVE IInv'
BY DEF IInv, TypeOK, CallerInv, NotSubmittedInv, OutcomeInv, ReasonInv,
     ReportedReason, ResolvedInv, ActiveInv, Registered, PermitAccounting,
     Holders, vars

-----------------------------------------------------------------------------
(* The theorems *)

LEMMA InitInv == Init => IInv
<1> SUFFICES ASSUME Init PROVE IInv
  OBVIOUS
<1>1. TypeOK
  BY RunsAssumption, SizesAssumption
  DEF Init, TypeOK, CallerStates, WorkStates
<1>2. CallerInv
  BY DEF Init, CallerInv, NotSubmittedInv, OutcomeInv, ReasonInv,
       ReportedReason, ResolvedInv
<1>3. ActiveInv
  BY RunsAssumption DEF Init, ActiveInv, Registered
<1>4. PermitAccounting
  <2>1. Holders = {}
    BY DEF Init, Holders
  <2> QED
    BY <2>1, FS_EmptySet, SizesAssumption DEF Init, PermitAccounting
<1> QED
  BY <1>1, <1>2, <1>3, <1>4 DEF IInv

LEMMA NextInv == IInv /\ [Next]_vars => IInv'
<1> SUFFICES ASSUME IInv, [Next]_vars PROVE IInv'
  OBVIOUS
<1>1. CASE TakeWork
  BY <1>1, TakeWorkInv
<1>2. ASSUME NEW r \in Runs, Admission(r) PROVE IInv'
  BY <1>2, RegisterSessionInv, AcquireCapacityInv, RejectForCapacityInv,
     SubmitInv, SubmitFailsInv DEF Admission
<1>3. ASSUME NEW r \in Runs, DeadlinePasses(r) PROVE IInv'
  BY <1>3, DeadlinePassesInv
<1>4. ASSUME NEW r \in Runs, Operation(r) PROVE IInv'
  BY <1>4, StopWorkInv, ReturnResultInv, ExceedRecursionLimitInv,
     RaiseErrorInv, NextItemInv, ExhaustIteratorInv, PutInv, AbandonPutInv
  DEF Operation
<1>5. ASSUME NEW r \in Runs, Cleanup(r) PROVE IInv'
  BY <1>5, FinishRunInv, ReleaseCapacityInv, ResolveFutureInv DEF Cleanup
<1>6. ASSUME NEW r \in Runs, Call(r) PROVE IInv'
  BY <1>6, ReceiveOutcomeInv, CallTimesOutInv, CallCancelledInv DEF Call
<1>7. ASSUME NEW r \in Runs, Stream(r) PROVE IInv'
  BY <1>7, StreamStopsInv, YieldItemInv, ResumeStreamInv, CompleteStreamInv,
     FailStreamInv, CloseStreamInv DEF Stream
<1>8. CASE Quiescent \/ UNCHANGED vars
  BY <1>8, StutterInv DEF Quiescent
<1> QED
  BY <1>1, <1>2, <1>3, <1>4, <1>5, <1>6, <1>7, <1>8 DEF Next

LEMMA SpecInv == Spec => []IInv
BY InitInv, NextInv, PTL DEF Spec

(* Every variable keeps its type; permits never exceed their initial       *)
(* number, where a BoundedSemaphore would raise.                           *)
THEOREM TypeCorrect == Spec => []TypeOK
<1>1. IInv => TypeOK
  BY DEF IInv
<1> QED
  BY <1>1, SpecInv, PTL

(* A run's graph nodes find their own RunControl under their session for   *)
(* as long as the run executes, however its caller has ended.              *)
THEOREM NodesCheckTheirOwnRun == Spec => []NodeChecksOwnRun
<1>1. IInv => NodeChecksOwnRun
  BY DEF IInv, ActiveInv, Registered, NodeChecksOwnRun, Executing
<1> QED
  BY <1>1, SpecInv, PTL

(* Free and held permits add up to _MAX_ACTIVE_RUNS. *)
THEOREM PermitsAccounted == Spec => []PermitAccounting
<1>1. IInv => PermitAccounting
  BY DEF IInv
<1> QED
  BY <1>1, SpecInv, PTL

(* A call that has its operation's own outcome holds neither its session   *)
(* nor a permit.                                                           *)
THEOREM OutcomesFollowRelease == Spec => []OutcomeAfterRelease
<1>1. IInv => OutcomeAfterRelease
  <2> SUFFICES ASSUME IInv, NEW r \in Runs \ Streams,
                      caller[r] \in {"done", "recursion_limit"}
               PROVE  active[SessionOf[r]] # r /\ r \notin Holders
    BY DEF OutcomeAfterRelease
  <2>1. work[r] = "resolved"
    BY DEF IInv, CallerInv, ResolvedInv
  <2>2. ~Registered(r)
    BY <2>1 DEF Registered
  <2> QED
    BY <2>1, <2>2 DEF IInv, ActiveInv, Holders
<1> QED
  BY <1>1, SpecInv, PTL

(* The stop reason a caller reports is its run's. *)
THEOREM ReasonsAreReported == Spec => []ReportedReason
<1>1. IInv => ReportedReason
  BY DEF IInv, CallerInv
<1> QED
  BY <1>1, SpecInv, PTL

-----------------------------------------------------------------------------
(* ExecutionControl implements RunAdmission. *)

(* A step that leaves the classes of every run alone is a stuttering step. *)
LEMMA SameClasses ==
  ASSUME Executing' = Executing, Ended' = Ended
  PROVE  [Admitted!Next]_(Admitted!vars)
BY DEF Admitted!vars

(* A step that takes r from its graph work to its cleanup ends it. *)
LEMMA EndsRun ==
  ASSUME TypeOK, NEW r \in Runs, NEW w \in {"dropped", "finishing"},
         work[r] \in {"pending", "running", "publishing"},
         work' = [work EXCEPT ![r] = w]
  PROVE  [Admitted!Next]_(Admitted!vars)
<1>1. Executing' = Executing \ {r} /\ Ended' = Ended \cup {r} /\ r \in Executing
  BY DEF TypeOK, Executing, Ended
<1>2. Admitted!End(r)
  BY <1>1 DEF Admitted!End
<1> QED
  BY <1>2 DEF Admitted!Next

LEMMA SubmitStarts ==
  ASSUME IInv, NEW r \in Runs, Submit(r)
  PROVE  [Admitted!Next]_(Admitted!vars)
<1>1. caller[r] = "admitted" /\ work[r] = "none"
  BY DEF Submit, IInv, CallerInv, NotSubmittedInv, BeforeSubmit
<1>2. Executing' = Executing \cup {r} /\ Ended' = Ended
  BY <1>1 DEF IInv, TypeOK, Submit, Executing, Ended
<1>3. r \notin Executing \cup Ended
  BY <1>1 DEF Executing, Ended
<1>4. ASSUME NEW q \in Executing PROVE SessionOf[q] # SessionOf[r]
  <2>1. q \in Runs /\ active[SessionOf[q]] = q
    BY DEF IInv, ActiveInv, Registered, Executing
  <2>2. active[SessionOf[r]] = r
    BY <1>1 DEF IInv, ActiveInv, Registered
  <2> QED
    BY <1>3, <2>1, <2>2
<1>5. Cardinality(Executing) < MaxActiveRuns
  <2>1. Executing \cup {r} \subseteq Holders
    BY <1>1 DEF Executing, Holders
  <2>2. IsFiniteSet(Executing) /\ Cardinality(Executing) \in Nat
    BY RunsAssumption, FS_Subset, FS_CardinalityType DEF Executing
  <2>3. Cardinality(Executing \cup {r}) = Cardinality(Executing) + 1
    BY <1>3, <2>2, FS_AddElement
  <2>4. Cardinality(Executing \cup {r}) <= Cardinality(Holders)
    BY <2>1, HoldersAreFinite, FS_Subset
  <2> QED
    BY <2>2, <2>3, <2>4, HoldersAreFinite, SizesAssumption
    DEF IInv, TypeOK, PermitAccounting
<1>6. Admitted!Start(r)
  <2>1. Admitted!Cardinality(Executing) = Cardinality(Executing)
    BY DEF Admitted!Cardinality, Cardinality
  <2> QED
    BY <1>2, <1>3, <1>4, <1>5, <2>1 DEF Admitted!Start
<1> QED
  BY <1>6 DEF Admitted!Next

LEMMA NextAdmitted == IInv /\ [Next]_vars => [Admitted!Next]_(Admitted!vars)
<1> SUFFICES ASSUME IInv, [Next]_vars PROVE [Admitted!Next]_(Admitted!vars)
  OBVIOUS
<1> USE DEF IInv
<1>1. CASE TakeWork
  <2>1. Head(poolQueue) \in Runs
    BY <1>1 DEF TypeOK, TakeWork
  <2>2. Executing' = Executing /\ Ended' = Ended
    BY <1>1, <2>1 DEF TypeOK, TakeWork, Executing, Ended
  <2> QED
    BY <2>2, SameClasses
<1>2. ASSUME NEW r \in Runs, Admission(r) PROVE [Admitted!Next]_(Admitted!vars)
  <2>1. CASE Submit(r)
    BY <2>1, SubmitStarts
  <2>2. CASE ~Submit(r)
    <3>1. work' = work
      BY <1>2, <2>2 DEF Admission, RegisterSession, AcquireCapacity,
           RejectForCapacity, LeaveUnadmitted, SubmitFails
    <3> QED
      BY <3>1, SameClasses DEF Executing, Ended
  <2> QED
    BY <2>1, <2>2
<1>3. ASSUME NEW r \in Runs, DeadlinePasses(r) PROVE [Admitted!Next]_(Admitted!vars)
  BY <1>3, SameClasses DEF DeadlinePasses, Executing, Ended
<1>4. ASSUME NEW r \in Runs, Operation(r) PROVE [Admitted!Next]_(Admitted!vars)
  <2>1. /\ work[r] \in {"running", "publishing"}
        /\ \/ work' = [work EXCEPT ![r] = "finishing"]
           \/ work' = [work EXCEPT ![r] = "publishing"]
           \/ work' = [work EXCEPT ![r] = "running"]
    BY <1>4 DEF Operation, StopWork, ReturnResult, ExceedRecursionLimit,
         RaiseError, NextItem, ExhaustIterator, Put, Published, AbandonPut
  <2>2. CASE work' = [work EXCEPT ![r] = "finishing"]
    BY <2>1, <2>2, EndsRun
  <2>3. CASE \/ work' = [work EXCEPT ![r] = "publishing"]
             \/ work' = [work EXCEPT ![r] = "running"]
    <3>1. Executing' = Executing /\ Ended' = Ended
      BY <2>1, <2>3 DEF TypeOK, Executing, Ended
    <3> QED
      BY <3>1, SameClasses
  <2> QED
    BY <2>1, <2>2, <2>3
<1>5. ASSUME NEW r \in Runs, Cleanup(r) PROVE [Admitted!Next]_(Admitted!vars)
  <2>1. Executing' = Executing /\ Ended' = Ended
    BY <1>5, SMTT(30) DEF TypeOK, Executing, Ended, Cleanup, FinishRun, ReleaseCapacity,
         ResolveFuture
  <2> QED
    BY <2>1, SameClasses
<1>6. ASSUME NEW r \in Runs, Call(r) PROVE [Admitted!Next]_(Admitted!vars)
  <2>1. CASE ReceiveOutcome(r)
    BY <2>1, SameClasses DEF ReceiveOutcome, Executing, Ended
  <2>2. CASE CallTimesOut(r) \/ CallCancelled(r)
    <3>1. CancelFuture(r)
      BY <2>2 DEF CallTimesOut, GiveUp, CallCancelled
    <3>2. CASE work[r] = "pending"
      BY <3>1, <3>2, EndsRun DEF TypeOK, CancelFuture
    <3>3. CASE work[r] # "pending"
      BY <3>1, <3>3, SameClasses DEF TypeOK, CancelFuture, Executing, Ended
    <3> QED
      BY <3>2, <3>3
  <2> QED
    BY <1>6, <2>1, <2>2 DEF Call
<1>7. ASSUME NEW r \in Runs, Stream(r) PROVE [Admitted!Next]_(Admitted!vars)
  BY <1>7, SameClasses DEF Stream, StreamStops, YieldItem, ResumeStream,
       CompleteStream, FailStream, CloseStream, Executing, Ended
<1>8. CASE Quiescent \/ UNCHANGED vars
  BY <1>8, SameClasses DEF Quiescent, vars, Executing, Ended
<1> QED
  BY <1>1, <1>2, <1>3, <1>4, <1>5, <1>6, <1>7, <1>8 DEF Next

(* Whatever the threads and callers do, the runs whose graph work is       *)
(* admitted and not over behave as RunAdmission says: one per session, at  *)
(* most _MAX_ACTIVE_RUNS, and never again once ended.                      *)
THEOREM AdmissionIsImplemented == Spec => ImplementsRunAdmission
<1>1. Init => Admitted!Init
  BY DEF Init, Admitted!Init, Executing, Ended
<1> QED
  BY <1>1, NextAdmitted, SpecInv, PTL DEF Spec, ImplementsRunAdmission,
       Admitted!Spec

-----------------------------------------------------------------------------
(* A stream that ends normally has delivered every item. *)

(* The producer will publish nothing more. *)
Over == {"finishing", "releasing", "returning", "resolved"}

IsClosing(r, i) == messages[r][i] # "item"
Closed(r) == messages[r] # <<>> /\ IsClosing(r, Len(messages[r]))

(* Only the last message closes a stream, and its producer is through. *)
ClosingIsLast(r) ==
  \A i \in 1 .. Len(messages[r]) : IsClosing(r, i) => i = Len(messages[r]) /\ work[r] \in Over

(* The items that were put are those delivered and those in the queue. *)
ItemsCount(r) ==
  delivered[r] + Len(messages[r]) = produced[r] + (IF Closed(r) THEN 1 ELSE 0)

(* Nothing is left, and nobody is left to stop the run. *)
DoneIsDone(r) ==
  caller[r] = "done" => messages[r] = <<>> /\ work[r] \in Over /\ stopReason[r] = "none"

Delivery(r) == ClosingIsLast(r) /\ ItemsCount(r) /\ DoneIsDone(r)

DeliveryInv == \A r \in Streams : Delivery(r)

-----------------------------------------------------------------------------
(* Helper lemmas *)

(* A step that neither puts nor takes a message of r. *)
Quiet(r) ==
  /\ messages'[r] = messages[r] /\ produced'[r] = produced[r]
  /\ delivered'[r] = delivered[r]
  /\ work[r] \in Over => work'[r] \in Over
  /\ caller'[r] = "done" => caller[r] = "done"
  /\ caller[r] = "done" /\ work[r] \in Over => stopReason'[r] = stopReason[r]

LEMMA QuietKeeps ==
  ASSUME NEW r \in Streams, Delivery(r), Quiet(r) PROVE Delivery(r)'
<1>1. ClosingIsLast(r)'
  BY DEF Delivery, ClosingIsLast, Quiet, IsClosing
<1>2. ItemsCount(r)'
  BY DEF Delivery, ItemsCount, Quiet, IsClosing, Closed
<1>3. DoneIsDone(r)'
  BY DEF Delivery, DoneIsDone, Quiet
<1> QED
  BY <1>1, <1>2, <1>3 DEF Delivery

(* Every action but Put and the three polls. *)
LEMMA QuietSteps ==
  ASSUME IInv, NEW q \in Streams, NEW r \in Runs,
         \/ Admission(r) \/ DeadlinePasses(r) \/ Cleanup(r) \/ Call(r)
         \/ StopWork(r) \/ ReturnResult(r) \/ ExceedRecursionLimit(r)
         \/ RaiseError(r) \/ NextItem(r) \/ ExhaustIterator(r) \/ AbandonPut(r)
         \/ StreamStops(r) \/ ResumeStream(r) \/ CloseStream(r)
  PROVE  Quiet(q)
<1> q \in Runs /\ TypeOK
  BY RunsAssumption DEF IInv
<1>1. CASE Admission(r)
  <2>1. CASE RegisterSession(r) \/ AcquireCapacity(r) \/ RejectForCapacity(r)
    BY <2>1 DEF TypeOK, Quiet, Over, RegisterSession, AcquireCapacity,
       RejectForCapacity, LeaveUnadmitted
  <2>2. CASE Submit(r)
    BY <2>2 DEF IInv, CallerInv, NotSubmittedInv, BeforeSubmit, TypeOK, Quiet, Over, Submit
  <2>3. CASE SubmitFails(r)
    BY <2>3 DEF TypeOK, Quiet, Over, LeaveUnadmitted, SubmitFails, Cancel
  <2> QED
    BY <1>1, <2>1, <2>2, <2>3 DEF Admission
<1>2. CASE DeadlinePasses(r) \/ Cleanup(r)
  BY <1>2 DEF TypeOK, Quiet, Over, DeadlinePasses, Cleanup, FinishRun,
     ReleaseCapacity, ResolveFuture
<1>3. CASE Call(r)
  <2>1. q # r
    BY <1>3 DEF Call, ReceiveOutcome, CallTimesOut, CallCancelled, GiveUp
  <2> QED
    BY <1>3, <2>1 DEF TypeOK, Quiet, Over, Call, ReceiveOutcome, CallTimesOut,
       CallCancelled, GiveUp, Cancel, CancelFuture
<1>4. CASE StopWork(r) \/ ReturnResult(r) \/ ExceedRecursionLimit(r)
  BY <1>4 DEF TypeOK, Quiet, Over, StopWork, ReturnResult,
     ExceedRecursionLimit, Cancel
<1>5. CASE RaiseError(r) \/ NextItem(r) \/ ExhaustIterator(r) \/ AbandonPut(r)
  BY <1>5 DEF TypeOK, Quiet, Over, RaiseError, NextItem, ExhaustIterator, AbandonPut
<1>6. CASE StreamStops(r)
  <2>1. stopReason'[r] # "none" /\ stopReason'[r] \in StopReasons
    BY <1>6 DEF TypeOK, StreamStops, Cancel, StopReasons
  <2> QED
    BY <1>6, <2>1 DEF TypeOK, Quiet, Over, StreamStops, IsWaiting, Cancel, StopReasons
<1>7. CASE ResumeStream(r) \/ CloseStream(r)
  BY <1>7 DEF TypeOK, Quiet, Over, ResumeStream, CloseStream, Cancel
<1> QED
  BY <1>1, <1>2, <1>3, <1>4, <1>5, <1>6, <1>7

-----------------------------------------------------------------------------
(* The steps that put or take a message *)

LEMMA PutDelivers ==
  ASSUME IInv, NEW r \in Streams, Put(r), Delivery(r) PROVE Delivery(r)'
<1> DEFINE m == messages[r]
<1> r \in Runs
  BY RunsAssumption
<1>1. /\ m \in Seq(Message) /\ outbox[r] \in Message
      /\ delivered[r] \in Nat /\ produced[r] \in Nat
  BY DEF IInv, TypeOK, CallerInv, OutcomeInv, Put, Published
<1>2. /\ work[r] = "publishing" /\ messages'[r] = Append(m, outbox[r])
      /\ delivered'[r] = delivered[r] /\ caller'[r] = caller[r]
  BY DEF IInv, TypeOK, Put, Published
<1>3. \A i \in 1 .. Len(m) : m[i] = "item"
  BY <1>2 DEF Delivery, ClosingIsLast, IsClosing, Over
<1>4. /\ Len(messages'[r]) = Len(m) + 1 /\ messages'[r][Len(m) + 1] = outbox[r]
      /\ \A i \in 1 .. Len(m) : messages'[r][i] = m[i]
      /\ messages'[r] # <<>>
  BY <1>1, <1>2
<1>5. \/ outbox[r] = "item" /\ produced'[r] = produced[r] + 1
      \/ outbox[r] # "item" /\ produced'[r] = produced[r] /\ work'[r] = "finishing"
  BY DEF IInv, TypeOK, Put, Published
<1>6. ClosingIsLast(r)'
  <2> SUFFICES ASSUME NEW i \in 1 .. Len(messages'[r]), messages'[r][i] # "item"
               PROVE  i = Len(messages'[r]) /\ work'[r] \in Over
    BY DEF ClosingIsLast, IsClosing
  <2>1. i = Len(m) + 1
    BY <1>1, <1>3, <1>4
  <2> QED
    BY <1>4, <1>5, <2>1 DEF Over
<1>7. ItemsCount(r)'
  <2>1. ~Closed(r) /\ (Closed(r)' <=> outbox[r] # "item")
    BY <1>1, <1>3, <1>4 DEF Closed, IsClosing
  <2>2. delivered[r] + Len(m) = produced[r]
    BY <1>1, <2>1 DEF Delivery, ItemsCount
  <2>3. Len(m) \in Nat
    BY <1>1
  <2>4. delivered'[r] + Len(messages'[r]) = produced[r] + 1
    <3>1. Len(messages'[r]) = Len(m) + 1 /\ delivered'[r] = delivered[r]
      BY <1>2, <1>4
    <3>2. delivered[r] \in Nat
      BY <1>1
    <3> HIDE DEF m
    <3> QED
      BY <2>2, <2>3, <3>1, <3>2, SMTT(30)
  <2>5. CASE outbox[r] = "item"
    BY <1>1, <1>5, <2>1, <2>4, <2>5 DEF ItemsCount
  <2>6. CASE outbox[r] # "item"
    BY <1>1, <1>5, <2>1, <2>4, <2>6 DEF ItemsCount
  <2> QED
    BY <2>5, <2>6
<1>8. DoneIsDone(r)'
  BY <1>2 DEF Delivery, DoneIsDone, Over
<1> QED
  BY <1>6, <1>7, <1>8 DEF Delivery

(* What a poll takes, and what it leaves. *)
LEMMA PollTakes ==
  ASSUME IInv, NEW r \in Streams, NEW m, Poll(r, m), Delivery(r),
         work'[r] = work[r]
  PROVE  /\ ClosingIsLast(r)'
         /\ Len(messages'[r]) = Len(messages[r]) - 1 /\ Len(messages[r]) \in Nat
         /\ m = "item" => (Closed(r)' <=> Closed(r))
         /\ m # "item" => Closed(r) /\ messages'[r] = <<>> /\ work[r] \in Over
<1> DEFINE s == messages[r]
<1> r \in Runs
  BY RunsAssumption
<1>1. s \in Seq(Message) /\ s # <<>> /\ m = s[1] /\ messages'[r] = Tail(s)
  BY DEF IInv, TypeOK, Poll
<1>2. /\ Len(Tail(s)) = Len(s) - 1 /\ Len(s) \in Nat /\ Len(s) > 0
      /\ \A i \in 1 .. Len(s) - 1 : Tail(s)[i] = s[i + 1]
      /\ Tail(s) \in Seq(Message) /\ (Tail(s) = <<>> <=> Len(s) = 1)
  <2> HIDE DEF s
  <2>1. /\ Len(Tail(s)) = Len(s) - 1 /\ Tail(s) \in Seq(Message)
        /\ \A i \in 1 .. Len(Tail(s)) : Tail(s)[i] = s[i + 1]
    BY <1>1, HeadTailProperties
  <2>2. Len(s) \in Nat /\ Len(s) > 0
    BY <1>1, EmptySeq
  <2>3. Tail(s) = <<>> <=> Len(Tail(s)) = 0
    BY <2>1, EmptySeq
  <2> QED
    BY <2>1, <2>2, <2>3
<1>3. ClosingIsLast(r)'
  <2> SUFFICES ASSUME NEW i \in 1 .. Len(messages'[r]), messages'[r][i] # "item"
               PROVE  i = Len(messages'[r]) /\ work'[r] \in Over
    BY DEF ClosingIsLast, IsClosing
  <2>1. i + 1 \in 1 .. Len(s) /\ s[i + 1] # "item"
    BY <1>1, <1>2
  <2> QED
    BY <1>1, <1>2, <2>1 DEF Delivery, ClosingIsLast, IsClosing
<1>4. ASSUME m # "item" PROVE Closed(r) /\ messages'[r] = <<>> /\ work[r] \in Over
  <2>1. 1 \in 1 .. Len(s) /\ IsClosing(r, 1)
    BY <1>1, <1>2, <1>4 DEF IsClosing
  <2>2. Len(s) = 1 /\ work[r] \in Over
    BY <2>1 DEF Delivery, ClosingIsLast
  <2>3. Tail(s) = <<>>
    BY <1>2, <2>2
  <2> QED
    BY <1>1, <2>1, <2>2, <2>3 DEF Closed
<1>5. ASSUME m = "item" PROVE Closed(r)' <=> Closed(r)
  <2>1. CASE Len(s) = 1
    <3>1. messages'[r] = <<>>
      BY <1>1, <1>2, <2>1
    <3> QED
      BY <1>1, <1>5, <2>1, <3>1 DEF Closed, IsClosing
  <2>2. CASE Len(s) > 1
    <3>1. Tail(s) # <<>> /\ Len(s) - 1 \in 1 .. Len(s) - 1
      <4> HIDE DEF s
      <4> QED
        BY <1>2, <2>2
    <3>2. Tail(s)[Len(s) - 1] = s[Len(s)]
      BY <1>2, <3>1
    <3> QED
      BY <1>1, <1>2, <3>1, <3>2 DEF Closed, IsClosing
  <2> QED
    BY <1>2, <2>1, <2>2
<1>6. Len(messages'[r]) = Len(s) - 1 /\ Len(s) \in Nat
  BY <1>1, <1>2
<1> QED
  BY <1>3, <1>4, <1>5, <1>6

LEMMA YieldDelivers ==
  ASSUME IInv, NEW r \in Streams, YieldItem(r), Delivery(r) PROVE Delivery(r)'
<1> r \in Runs
  BY RunsAssumption
<1>1. /\ Poll(r, "item") /\ work'[r] = work[r] /\ caller'[r] = "yielded"
      /\ delivered'[r] = delivered[r] + 1 /\ produced'[r] = produced[r]
      /\ delivered[r] \in Nat /\ produced[r] \in Nat
  BY DEF IInv, TypeOK, YieldItem
<1>2. /\ ClosingIsLast(r)' /\ Len(messages'[r]) = Len(messages[r]) - 1
      /\ Len(messages[r]) \in Nat /\ (Closed(r)' <=> Closed(r))
  BY <1>1, PollTakes
<1>3. delivered'[r] + Len(messages'[r]) = delivered[r] + Len(messages[r])
  <2>1. /\ delivered'[r] = delivered[r] + 1 /\ delivered[r] \in Nat
        /\ Len(messages'[r]) = Len(messages[r]) - 1 /\ Len(messages[r]) \in Nat
    BY <1>1, <1>2
  <2> QED
    BY <2>1
<1>4. ItemsCount(r)'
  <2>1. CASE Closed(r)
    BY <1>1, <1>2, <1>3, <2>1 DEF Delivery, ItemsCount
  <2>2. CASE ~Closed(r)
    BY <1>1, <1>2, <1>3, <2>2 DEF Delivery, ItemsCount
  <2> QED
    BY <2>1, <2>2
<1> QED
  BY <1>1, <1>2, <1>4 DEF Delivery, DoneIsDone

LEMMA CloseDelivers ==
  ASSUME IInv, NEW r \in Streams, CompleteStream(r) \/ FailStream(r), Delivery(r)
  PROVE  Delivery(r)'
<1> r \in Runs
  BY RunsAssumption
<1>1. /\ \E m \in {"done", "error"} : Poll(r, m)
      /\ work'[r] = work[r]
      /\ delivered'[r] = delivered[r] /\ produced'[r] = produced[r]
      /\ delivered[r] \in Nat /\ produced[r] \in Nat
  BY DEF IInv, TypeOK, CompleteStream, FailStream
<1>2. /\ ClosingIsLast(r)' /\ Len(messages'[r]) = Len(messages[r]) - 1
      /\ Len(messages[r]) \in Nat /\ Closed(r) /\ messages'[r] = <<>>
      /\ work[r] \in Over
  BY <1>1, PollTakes
<1>3. ItemsCount(r)'
  BY <1>1, <1>2, SMTT(30) DEF Delivery, ItemsCount, Closed
<1>4. caller'[r] = "done" => stopReason'[r] = "none"
  BY DEF IInv, TypeOK, CompleteStream, FailStream, Poll, MustStop
<1> QED
  BY <1>1, <1>2, <1>3, <1>4 DEF Delivery, DoneIsDone

(* The messages of other streams stay as they are. *)
LEMMA OthersAreQuiet ==
  ASSUME TypeOK, NEW r \in Runs, NEW q \in Streams, q # r,
         Put(r) \/ YieldItem(r) \/ CompleteStream(r) \/ FailStream(r)
  PROVE  Quiet(q)
<1> q \in Runs
  BY RunsAssumption
<1> QED
  BY DEF TypeOK, Quiet, Put, Published, YieldItem, CompleteStream, FailStream, Poll, Cancel

LEMMA NextDelivery == IInv /\ DeliveryInv /\ [Next]_vars => DeliveryInv'
<1> SUFFICES ASSUME IInv, [Next]_vars, NEW q \in Streams, Delivery(q)
             PROVE  Delivery(q)'
  BY DEF DeliveryInv
<1> q \in Runs /\ TypeOK
  BY RunsAssumption DEF IInv
<1>1. CASE TakeWork
  <2>1. Head(poolQueue) \in Runs
    BY <1>1 DEF TypeOK, TakeWork
  <2>2. Quiet(q)
    BY <1>1, <2>1 DEF TypeOK, Quiet, Over, TakeWork
  <2> QED
    BY <2>2, QuietKeeps
<1>2. ASSUME NEW r \in Runs,
             Put(r) \/ YieldItem(r) \/ CompleteStream(r) \/ FailStream(r)
      PROVE  Delivery(q)'
  <2>1. CASE q = r
    BY <1>2, <2>1, PutDelivers, YieldDelivers, CloseDelivers
  <2>2. CASE q # r
    BY <1>2, <2>2, OthersAreQuiet, QuietKeeps
  <2> QED
    BY <2>1, <2>2
<1>3. ASSUME NEW r \in Runs, \/ Admission(r) \/ DeadlinePasses(r) \/ Operation(r)
                             \/ Cleanup(r) \/ Call(r) \/ Stream(r)
      PROVE  Delivery(q)'
  BY <1>2, <1>3, QuietSteps, QuietKeeps DEF Operation, Stream
<1>4. CASE Quiescent \/ UNCHANGED vars
  <2>1. Quiet(q)
    BY <1>4 DEF Quiescent, Quiet, vars
  <2> QED
    BY <2>1, QuietKeeps
<1> QED
  BY <1>1, <1>3, <1>4 DEF Next

(* A stream that ended with its producer's "done" has yielded all that was *)
(* put in its bounded queue, and was not stopped.                          *)
THEOREM NormalStreamsDeliverAll == Spec => []CompleteDelivery
<1>1. Init => DeliveryInv
  BY RunsAssumption DEF Init, DeliveryInv, Delivery, ClosingIsLast, ItemsCount,
     DoneIsDone, Closed
<1>2. IInv /\ DeliveryInv => CompleteDelivery
  <2> SUFFICES ASSUME IInv, NEW r \in Streams, Delivery(r), caller[r] = "done"
               PROVE  delivered[r] = produced[r] /\ stopReason[r] = "none"
    BY DEF DeliveryInv, CompleteDelivery
  <2>1. r \in Runs /\ delivered[r] \in Nat /\ produced[r] \in Nat
    BY RunsAssumption DEF IInv, TypeOK
  <2> QED
    BY <2>1 DEF Delivery, DoneIsDone, ItemsCount, Closed
<1> QED
  BY <1>1, <1>2, NextDelivery, SpecInv, PTL DEF Spec

=============================================================================
