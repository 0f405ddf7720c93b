------------------------- MODULE MCExecutionControl -------------------------
(* Instances of ExecutionControl for TLC: c1 and c2 are calls, s1 is a     *)
(* stream, A and B are sessions.                                           *)
EXTENDS ExecutionControl, TLC

CONSTANTS c1, c2, s1, A, B

(* Two requests share session A, a third has session B. *)
SharedSession == (c1 :> A) @@ (s1 :> A) @@ (c2 :> B)

(* A call and a stream on one session. *)
CallAndStream == (c1 :> A) @@ (s1 :> A)

=============================================================================
