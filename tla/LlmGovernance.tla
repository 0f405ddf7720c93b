--------------------------- MODULE LlmGovernance ---------------------------
(* Calls of the language model by the threads of the process.  A governed   *)
(* call (llm_governance.py) is repeated while it fails for a passing reason *)
(* and is written into the process-wide ledger; a streamed call             *)
(* (llm_utils.py) forwards what it receives and is never repeated.  Every   *)
(* thread belongs to a run that may be stopped at any time.  A call costs   *)
(* one token, so that the ledger's tokens, costs and calls that did not     *)
(* fail are one number.                                                     *)
EXTENDS Integers, Sequences, FiniteSetsExt

CONSTANTS
  Callers,      \* threads that make a governed call
  Streamers,    \* threads that make a streamed call
  Scenes,
  SceneOf,      \* the scene of each caller
  MaxAttempts,  \* LLM_MAX_RETRIES + 1
  MaxResets,    \* bound: how often the ledger is cleared
  MaxChunks     \* bound: the chunks of a stream

Nobody == "nobody"

ASSUME GovernanceAssumption ==
  /\ SceneOf \in [Callers -> Scenes]
  /\ MaxAttempts \in Nat \ {0} /\ MaxResets \in Nat /\ MaxChunks \in Nat
  /\ Callers \cap Streamers = {} /\ Nobody \notin Callers
  /\ IsFiniteSet(Callers) /\ IsFiniteSet(Scenes)

Threads == Callers \cup Streamers

VARIABLES
  at,         \* where each thread is
  attempts,   \* the requests each thread has sent
  retries,    \* retries_used
  stopped,    \* the threads whose run is stopped
  forwarded,  \* the chunks with visible text each stream has sent on to the client
  overall,    \* _LEDGER.overall
  byScene,    \* _LEDGER.by_scene
  lock,       \* who holds _LEDGER_LOCK
  booked,     \* the callers in the ledger, since it was cleared
  resets

governVars == <<at, attempts, retries, stopped, forwarded, overall, byScene, lock, booked, resets>>
ledgerVars == <<overall, byScene, lock, booked, resets>>

Usage == [calls : Nat, failed : Nat, retries : Nat, tokens : Nat]
NoUsage == [calls |-> 0, failed |-> 0, retries |-> 0, tokens |-> 0]

GovernInit ==
  /\ at = [t \in Threads |-> "check"]
  /\ attempts = [t \in Threads |-> 0] /\ retries = [t \in Threads |-> 0]
  /\ stopped = {} /\ forwarded = [t \in Streamers |-> 0]
  /\ overall = NoUsage /\ byScene = [s \in Scenes |-> NoUsage]
  /\ lock = Nobody /\ booked = {} /\ resets = 0

Move(t, place) == at' = [at EXCEPT ![t] = place]

-----------------------------------------------------------------------------
(* A governed call *)

RunStops(t) ==
  /\ t \notin stopped
  /\ stopped' = stopped \cup {t}
  /\ UNCHANGED <<at, attempts, retries, forwarded, ledgerVars>>

\* check_current_run, before each attempt and again after the sleep.
Check(t) ==
  /\ at[t] = "check"
  /\ IF t \in stopped
     THEN Move(t, "stopped") /\ UNCHANGED attempts
     ELSE Move(t, "request") /\ attempts' = [attempts EXCEPT ![t] = @ + 1]
  /\ UNCHANGED <<retries, stopped, forwarded, ledgerVars>>

Succeeds(t) ==
  /\ t \in Callers /\ at[t] = "request"
  /\ Move(t, "book")
  /\ UNCHANGED <<attempts, retries, stopped, forwarded, ledgerVars>>

\* A failure that will not pass, or the last attempt.
FailsForGood(t) ==
  /\ t \in Callers /\ at[t] = "request"
  /\ Move(t, "bookFailure")
  /\ UNCHANGED <<attempts, retries, stopped, forwarded, ledgerVars>>

Retries(t) ==
  /\ t \in Callers /\ at[t] = "request" /\ attempts[t] < MaxAttempts
  /\ retries' = [retries EXCEPT ![t] = @ + 1]
  /\ Move(t, "sleep")
  /\ UNCHANGED <<attempts, stopped, forwarded, ledgerVars>>

\* The back-off is over, or there was none.
Wakes(t) ==
  /\ at[t] = "sleep"
  /\ Move(t, IF t \in stopped THEN "stopped" ELSE "check")
  /\ UNCHANGED <<attempts, retries, stopped, forwarded, ledgerVars>>

-----------------------------------------------------------------------------
(* The ledger *)

(* Mutant: the ledger is written without its lock. *)
LedgerIsFree_Always == TRUE

LedgerIsFree == lock = Nobody

Booked(usage, t) ==
  [calls   |-> usage.calls + 1,
   failed  |-> usage.failed + IF at[t] = "bookFailure" THEN 1 ELSE 0,
   retries |-> usage.retries + retries[t],
   tokens  |-> usage.tokens + IF at[t] = "book" THEN 1 ELSE 0]

\* record_usage: the overall bucket, and then the scene's.
BookOverall(t) ==
  /\ at[t] \in {"book", "bookFailure"} /\ LedgerIsFree
  /\ lock' = t
  /\ overall' = Booked(overall, t)
  /\ booked' = booked \cup {t}
  /\ UNCHANGED <<at, attempts, retries, stopped, forwarded, byScene, resets>>

BookScene(t) ==
  /\ lock = t
  /\ byScene' = [byScene EXCEPT ![SceneOf[t]] = Booked(@, t)]
  /\ lock' = Nobody
  /\ Move(t, IF at[t] = "book" THEN "returned" ELSE "raised")
  /\ UNCHANGED <<attempts, retries, stopped, forwarded, overall, booked, resets>>

ResetUsage ==
  /\ LedgerIsFree /\ resets < MaxResets
  /\ overall' = NoUsage /\ byScene' = [s \in Scenes |-> NoUsage]
  /\ booked' = {} /\ resets' = resets + 1
  /\ UNCHANGED <<at, attempts, retries, stopped, forwarded, lock>>

-----------------------------------------------------------------------------
(* A streamed call *)

\* current_request_timeout, before the stream is opened, checks the run too.
Chunk(t) ==
  /\ t \in Streamers /\ at[t] = "request" /\ t \notin stopped /\ forwarded[t] < MaxChunks
  /\ attempts[t] = 1
  /\ forwarded' = [forwarded EXCEPT ![t] = @ + 1]
  /\ UNCHANGED <<at, attempts, retries, stopped, ledgerVars>>

StreamFails(t) ==
  /\ t \in Streamers /\ at[t] = "request"
  /\ Move(t, "raised")
  /\ UNCHANGED <<attempts, retries, stopped, forwarded, ledgerVars>>

\* The next chunk has come, and check_current_run finds the run stopped.
StreamIsStopped(t) ==
  /\ t \in Streamers /\ at[t] = "request" /\ t \in stopped /\ attempts[t] = 1
  /\ Move(t, "stopped")
  /\ UNCHANGED <<attempts, retries, stopped, forwarded, ledgerVars>>

\* A stream without text is asked for once more, without streaming.
StreamEnds(t) ==
  /\ t \in Streamers /\ at[t] = "request"
  /\ IF forwarded[t] = 0 /\ attempts[t] = 1
     THEN attempts' = [attempts EXCEPT ![t] = @ + 1] /\ UNCHANGED at
     ELSE Move(t, "returned") /\ UNCHANGED attempts
  /\ UNCHANGED <<retries, stopped, forwarded, ledgerVars>>

GovernNext ==
  \/ \E t \in Threads : RunStops(t) \/ Check(t)
  \/ \E t \in Callers :
       \/ Succeeds(t) \/ FailsForGood(t) \/ Retries(t) \/ Wakes(t)
       \/ BookOverall(t) \/ BookScene(t)
  \/ \E t \in Streamers : Chunk(t) \/ StreamFails(t) \/ StreamIsStopped(t) \/ StreamEnds(t)
  \/ ResetUsage

GovernSpec == GovernInit /\ [][GovernNext]_governVars

-----------------------------------------------------------------------------
(* Properties *)

GovernTypeOK ==
  /\ at \in [Threads -> {"check", "request", "sleep", "book", "bookFailure",
                         "returned", "raised", "stopped"}]
  /\ attempts \in [Threads -> Nat] /\ retries \in [Threads -> Nat]
  /\ stopped \subseteq Threads /\ forwarded \in [Streamers -> 0..MaxChunks]
  /\ overall \in Usage /\ byScene \in [Scenes -> Usage]
  /\ lock \in Callers \cup {Nobody} /\ booked \subseteq Callers /\ resets \in 0..MaxResets

SumOf(w, S) == MapThenSumSet(LAMBDA x : w[x], S)

Total(field) == SumOf([s \in Scenes |-> byScene[s][field]], Scenes)

(* Whoever reads the ledger, holding its lock, finds every finished call     *)
(* since the last reset once, with all its retries, in the overall bucket    *)
(* and in its scene.  A call sends at most MaxAttempts requests, and a       *)
(* stream that has sent something on is never asked for again, which would   *)
(* splice two answers.  governed_chat_completion, record_usage               *)
CallsAreAccounted ==
  /\ GovernTypeOK
  /\ lock = Nobody =>
       /\ \A field \in DOMAIN NoUsage : overall[field] = Total(field)
       /\ overall.calls = Cardinality(booked)
       /\ overall.retries = SumOf(retries, booked)
       /\ overall.calls = overall.failed + overall.tokens
  /\ \A t \in Callers : attempts[t] <= MaxAttempts
  /\ \A t \in Streamers : forwarded[t] > 0 => attempts[t] = 1
=============================================================================
