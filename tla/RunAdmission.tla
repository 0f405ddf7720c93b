---------------------------- MODULE RunAdmission ----------------------------
(***************************************************************************)
(* What execution_control.py promises about graph work, with everything    *)
(* about threads, futures, queues and permits left out: the runs that may  *)
(* be executing the graph at one time.  At most one of them belongs to a   *)
(* session, there are at most MaxActiveRuns of them, and a run that has    *)
(* ended never executes again.                                             *)
(***************************************************************************)
EXTENDS Naturals, FiniteSets

CONSTANTS
  Runs,            \* the requests that ask for a graph run
  SessionOf,       \* the session (checkpoint thread) each of them names
  MaxActiveRuns    \* _MAX_ACTIVE_RUNS

VARIABLES
  executing,       \* runs whose graph work is admitted and not over
  ended            \* runs whose graph work is over

vars == <<executing, ended>>

Init ==
  /\ executing = {}
  /\ ended = {}

Start(r) ==
  /\ r \notin executing \cup ended
  /\ \A q \in executing : SessionOf[q] # SessionOf[r]
  /\ Cardinality(executing) < MaxActiveRuns
  /\ executing' = executing \cup {r}
  /\ UNCHANGED ended

End(r) ==
  /\ r \in executing
  /\ executing' = executing \ {r}
  /\ ended' = ended \cup {r}

Next == \E r \in Runs : Start(r) \/ End(r)

Spec == Init /\ [][Next]_vars

=============================================================================
