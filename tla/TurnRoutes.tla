----------------------------- MODULE TurnRoutes -----------------------------
(***************************************************************************)
(* The four turn endpoints of fastapi_demo/app/api/v1/routes.py over one   *)
(* session: POST /recommend, /recommend/stream, /recommend/confirm and     *)
(* /recommend/confirm/stream, with execute_recommend_turn of               *)
(* handlers/recommend_orchestrator.py and the wrappers of stream_utils.py. *)
(*                                                                         *)
(* Steps.  Handlers are coroutines of one event loop: a step runs from one *)
(* await (a yielded event, a graph run) to the next.  The graph runs on a  *)
(* worker thread that holds the session (execution_control) and releases   *)
(* it in a step of its own after it has published its end.                 *)
(*                                                                         *)
(* Data.  A query is the way the route treats it; a message is what it     *)
(* says and the request that said it; token and node events stand for all  *)
(* of their kind.  A JSON reply is recorded as the last event of a request.*)
(*                                                                         *)
(* Failures.  A write of session_store changes the session in memory, then *)
(* its file; it raises between the two.  A handler whose run returned may  *)
(* raise there or in what it makes of the result: its turn is "raised".    *)
(***************************************************************************)
EXTENDS Naturals, Sequences, SequencesExt, FiniteSets

CONSTANTS
  Requests,     \* the requests of one session
  Kinds,        \* the endpoints they may call
  Payloads,     \* what an interrupt may carry: "questions", "empty"
  Reinterrupts, \* whether a resumed graph may interrupt again
  MaxMessages,  \* SESSION_MAX_MESSAGES
  NoRequest,    \* the session is free
  Dropped       \* the session is held by a run that no worker took or will take

ASSUME TurnAssumption ==
  /\ IsFiniteSet(Requests) /\ {NoRequest, Dropped} \cap Requests = {}
  /\ Kinds \subseteq {"recommend", "stream", "confirm", "confirmStream"}
  /\ Payloads \subseteq {"questions", "empty"}
  /\ Reinterrupts \in BOOLEAN
  /\ MaxMessages \in Nat \ {0}

VARIABLES
  turn,       \* per request: where its handler is and its local variables
  events,     \* per request: the SSE events, or the JSON reply
  stored,     \* the session's messages (session_store)
  nameKnown,  \* the session's user_name fact
  memories,   \* requests whose turn was written to the memory store
  held,       \* the request whose graph run holds the session
  thread      \* the interrupt pending in the graph's checkpoint

vars == <<turn, events, stored, nameKnown, memories, held, thread>>

Queries == {"plain", "tellsName", "asksName", "confirmWord"}
Closing == {"final", "error", "success", "failed"}
Canned == {"name", "ack", "fallback", "stopped", "failed"}
Messages == [what : {"user", "answer"} \cup Canned, by : Requests]
NoTurn == [at |-> "absent", kind |-> "none", query |-> "none", action |-> "none",
           known |-> FALSE, status |-> "open", awaiting |-> FALSE, tokens |-> FALSE,
           answer |-> FALSE, interrupt |-> "none", retries |-> 0]

-----------------------------------------------------------------------------
(* Session messages: _append_session_messages keeps the last MaxMessages,  *)
(* _append_session_message_once skips what the last message already says.  *)

\* The messages s with one more of r.
Stored(s, what, r) ==
  LET all == Append(s, [what |-> what, by |-> r])
  IN  SubSeq(all, 1 + Len(all) - (IF Len(all) < MaxMessages THEN Len(all) ELSE MaxMessages),
             Len(all))

SameText(m, what, r) == m.what = what /\ (what \in Canned \/ m.by = r)

Repeats(s, what, r) == s # <<>> /\ SameText(Last(s), what, r)

StoredOnce(s, what, r) == IF Repeats(s, what, r) THEN s ELSE Stored(s, what, r)

-----------------------------------------------------------------------------
(* Which machinery a request uses *)

IsStream(r) == turn[r].kind \in {"stream", "confirmStream"}
FromMemory(r) == turn[r].query = "asksName" /\ turn[r].known
\* served by execute_recommend_turn: /recommend, and the confirm shortcut of both
ByTurn(r) == turn[r].kind = "recommend" \/ turn[r].query = "confirmWord"
ByStream(r) == IsStream(r) /\ ~ByTurn(r)
Resumes(r) == turn[r].query = "confirmWord" \/ turn[r].kind \in {"confirm", "confirmStream"}

\* The request r ends with event or reply e and this status.
End(r, e, status, local) ==
  /\ turn' = [turn EXCEPT ![r] = [local EXCEPT !.at = "ended", !.status = status]]
  /\ events' = [events EXCEPT ![r] = @ \o e]

Emit(r, e, local) ==
  /\ turn' = [turn EXCEPT ![r] = local]
  /\ events' = [events EXCEPT ![r] = @ \o e]

\* How a failed turn is closed: an HTTP error or an "error" event; the confirm
\* shortcut of /recommend/stream turns the failed response into a "final" event.
Failure(r) == IF ByTurn(r) THEN (IF IsStream(r) THEN <<"final">> ELSE <<"failed">>)
              ELSE <<"error">>
Success(r) == IF IsStream(r) THEN <<"final">> ELSE <<"success">>

\* The handler itself raises after told; what it had stored in memory stays.
Raises(r, kept, told) ==
  /\ stored' \in {stored, kept}
  /\ End(r, told \o <<"error">>, "raised", turn[r])
  /\ UNCHANGED memories

-----------------------------------------------------------------------------
(* Admission of a request *)

\* _prepare_multimodal_request raises: no message is stored, no meta is sent.
Refuse(r, kind) ==
  /\ turn[r].at = "absent" /\ kind \in {"recommend", "stream"}
  /\ End(r, <<"error">>, "failed", [NoTurn EXCEPT !.kind = kind])
  /\ UNCHANGED <<stored, nameKnown, memories, held, thread>>

\* /recommend and /recommend/stream: name fact, user message, then meta.
Accept(r, kind, query) ==
  /\ turn[r].at = "absent" /\ kind \in {"recommend", "stream"}
  /\ nameKnown' = (nameKnown \/ query = "tellsName")
  /\ stored' = Stored(stored, "user", r)
  /\ Emit(r, IF kind = "stream" THEN <<"meta">> ELSE <<>>,
          [NoTurn EXCEPT !.at = "accepted", !.kind = kind, !.query = query,
                         !.known = nameKnown'])
  /\ UNCHANGED <<memories, held, thread>>

\* The write of the name fact raises, or that of the user message.
AcceptRaises(r, kind, query) ==
  /\ turn[r].at = "absent" /\ kind \in {"recommend", "stream"}
  /\ nameKnown' = (nameKnown \/ query = "tellsName")
  /\ stored' \in {Stored(stored, "user", r)} \cup (IF query = "tellsName" THEN {stored} ELSE {})
  /\ End(r, <<"error">>, "raised", [NoTurn EXCEPT !.kind = kind, !.query = query])
  /\ UNCHANGED <<memories, held, thread>>

\* The two confirm endpoints; an edit without sub-questions is a confirm.
Confirm(r, kind, action, edited) ==
  /\ turn[r].at = "absent" /\ kind \in {"confirm", "confirmStream"}
  /\ Emit(r, IF kind = "confirmStream" THEN <<"meta">> ELSE <<>>,
          [NoTurn EXCEPT !.at = "accepted", !.kind = kind,
                         !.action = IF edited THEN action ELSE "confirm"])
  /\ UNCHANGED <<stored, nameKnown, memories, held, thread>>

\* "What is my name?" is answered from the session facts, without the graph.
AnswerFromMemory(r) ==
  /\ turn[r].at = "accepted" /\ FromMemory(r)
  /\ LET kept == StoredOnce(stored, "name", r)
     IN  \/ /\ stored' = kept
            /\ memories' = memories \cup {r}
            /\ End(r, Success(r), "success", turn[r])
         \/ kept # stored /\ stored' = kept /\ Raises(r, kept, <<>>)
  /\ UNCHANGED <<nameKnown, held, thread>>

-----------------------------------------------------------------------------
(* Graph runs *)

ToRun(r) == turn[r].at = "accepted" /\ ~FromMemory(r)

Start(r) ==
  /\ ToRun(r)
  /\ held = NoRequest
  /\ held' = r
  /\ turn' = [turn EXCEPT ![r].at = IF ByStream(r) /\ turn[r].retries = 0
                                    THEN "streaming" ELSE "running"]
  /\ UNCHANGED <<events, stored, nameKnown, memories, thread>>

\* SessionRunConflict, or RunCapacityExceeded (other sessions hold all permits).
StartRefused(r) ==
  /\ ToRun(r)
  /\ End(r, Failure(r), "failed", turn[r])
  /\ UNCHANGED <<stored, nameKnown, memories, held, thread>>

\* What a run may yield; "nothing" is a resume with nothing pending.
Results(r) ==
  IF ~Resumes(r) THEN {"answer"} \cup Payloads
  ELSE IF thread = "none" THEN {"nothing", "answer"}
  ELSE {"answer"} \cup (IF Reinterrupts THEN {thread} ELSE {})

Interrupted(o) == o \in {"questions", "empty"}

\* What the handler stores of the outcome of its run.
Said(r, o) ==
  CASE o = "questions" -> "ack"
    [] o = "nothing" /\ turn[r].query = "confirmWord" -> "fallback"
    [] OTHER -> o

Kept(r, o) ==
  IF Said(r, o) = "nothing" THEN stored
  ELSE IF turn[r].kind = "confirm" THEN Stored(stored, Said(r, o), r)
  ELSE StoredOnce(stored, Said(r, o), r)

\* A run or its handling ends well: with questions to confirm, or with success.
Returns(r, o) ==
  /\ stored' = Kept(r, o)
  /\ IF o = "questions" THEN End(r, <<"awaiting">>, "awaiting", turn[r]) /\ UNCHANGED memories
     ELSE End(r, Success(r), "success", turn[r]) /\ memories' = memories \cup {r}

\* The except clauses of execute_recommend_turn add a system message to the
\* messages s; when that write raises too, the endpoint reports the error.
TurnFails(r, s, what, status) ==
  /\ stored' = StoredOnce(s, what, r)
  /\ \E e \in {Failure(r)} \cup (IF Repeats(s, what, r) THEN {} ELSE {<<"error">>}) :
       End(r, e, status, turn[r])
  /\ UNCHANGED memories

\* execute_recommend_turn, after the run
TurnReturns(r, o) ==
  IF o = "empty" THEN TurnFails(r, stored, "failed", "failed")      \* RuntimeError, caught
  ELSE \/ Returns(r, o)
       \/ \E s \in {stored, Kept(r, o)} : TurnFails(r, s, "failed", "raised")

MayRetry(r) == turn[r].action = "confirm" /\ turn[r].retries < 2

(* Mutant: the retry is not counted. *)
Retry_Uncounted(r) ==
  /\ turn' = [turn EXCEPT ![r].at = "accepted"]
  /\ UNCHANGED <<events, stored, memories>>

Retry(r) ==
  /\ turn' = [turn EXCEPT ![r].at = "accepted", ![r].retries = @ + 1]
  /\ UNCHANGED <<events, stored, memories>>

\* the /recommend/confirm handler, after a run
ConfirmReturns(r, o) ==
  \/ Interrupted(o) /\ MayRetry(r) /\ Retry(r)
  \/ /\ Interrupted(o) /\ ~MayRetry(r) /\ (turn[r].action = "confirm" \/ o = "empty")
     /\ End(r, <<"error">>, "failed", turn[r])
     /\ UNCHANGED <<stored, memories>>
  \/ /\ ~Interrupted(o) \/ (turn[r].action = "edit" /\ o = "questions")
     /\ Returns(r, o) \/ Raises(r, Kept(r, o), <<>>)

\* run_agent_async returns; its worker has released the session.
RunReturns(r, o) ==
  /\ turn[r].at = "running" /\ held = r
  /\ held' = NoRequest
  /\ thread' = IF Interrupted(o) THEN o ELSE "none"
  /\ CASE ByTurn(r) -> TurnReturns(r, o)
       [] turn[r].kind = "confirm" /\ ~ByTurn(r) -> ConfirmReturns(r, o)
       [] turn[r].kind = "confirmStream" /\ ~ByTurn(r) ->   \* a retry
            /\ turn' = [turn EXCEPT ![r].at = "merged", ![r].answer = (o = "answer"),
                                    ![r].interrupt = IF Interrupted(o) THEN o ELSE "none"]
            /\ UNCHANGED <<events, stored, memories>>
  /\ UNCHANGED nameKnown

\* Whoever stops waiting for a run_controlled cancels its future: where no
\* worker of the pool has begun it, none ever will.
LeftBehind(r) ==
  IF turn[r].at = "running" THEN {held, Dropped} ELSE {held}

(* Mutant: the partial text of a stopped run is stored as its answer. *)
RunStops_KeepsPartial(r, why) ==
  /\ turn[r].at \in {"running", "streaming"}
  /\ stored' = IF turn[r].tokens THEN StoredOnce(stored, "answer", r) ELSE stored
  /\ thread' \in {thread, "none"}
  /\ End(r, Failure(r), "failed", turn[r])
  /\ UNCHANGED <<nameKnown, memories, held>>

\* The run is stopped (timeout, cancellation, recursion limit) or raises.  The
\* caller does not wait for the worker, which goes on holding the session.
RunStops(r, why) ==
  /\ turn[r].at \in {"running", "streaming"}
  /\ IF ByTurn(r) THEN TurnFails(r, stored, why, "failed")
     ELSE End(r, <<"error">>, "failed", turn[r]) /\ UNCHANGED <<stored, memories>>
  /\ thread' \in {thread, "none"}
  /\ held' \in IF why = "stopped" THEN LeftBehind(r) ELSE {held}
  /\ UNCHANGED nameKnown

\* The worker's finally: the session is free again.
Release(r) ==
  /\ held = r /\ turn[r].at \notin {"running", "streaming"}
  /\ held' = NoRequest
  /\ UNCHANGED <<turn, events, stored, nameKnown, memories, thread>>

-----------------------------------------------------------------------------
(* The stream loop *)

StreamToken(r) ==
  /\ turn[r].at = "streaming" /\ turn[r].interrupt = "none" /\ ~turn[r].tokens
  /\ Emit(r, <<"token">>, [turn[r] EXCEPT !.tokens = TRUE])
  /\ UNCHANGED <<stored, nameKnown, memories, held, thread>>

\* An update with final_answer is merged and announced as a node event.
StreamAnswer(r) ==
  /\ turn[r].at = "streaming" /\ turn[r].interrupt = "none" /\ ~turn[r].answer
  /\ Resumes(r) => thread # "none"
  /\ Emit(r, <<"node">>, [turn[r] EXCEPT !.answer = TRUE])
  /\ UNCHANGED <<stored, nameKnown, memories, held, thread>>

(* Mutant: an interrupt update is not kept in the merged result. *)
Merge_Lost(local, o) == local
Merge(local, o) == [local EXCEPT !.interrupt = o]

(* Mutant: the flag is set but the questions are never sent. *)
StreamInterrupt_Silent(r, o) ==
  /\ turn[r].at = "streaming" /\ turn[r].interrupt = "none" /\ ~turn[r].answer
  /\ o \in Results(r) /\ Interrupted(o)
  /\ thread' = o
  /\ Emit(r, <<>>, [Merge(turn[r], o) EXCEPT !.awaiting = (o = "questions")])
  /\ UNCHANGED <<stored, nameKnown, memories, held>>

\* An interrupt is merged (and stays); its questions are shown at once.
StreamInterrupt(r, o) ==
  /\ turn[r].at = "streaming" /\ turn[r].interrupt = "none" /\ ~turn[r].answer
  /\ o \in Results(r) /\ Interrupted(o)
  /\ thread' = o
  /\ Emit(r, IF o = "questions" THEN <<"awaiting">> ELSE <<>>,
          [Merge(turn[r], o) EXCEPT !.awaiting = (o = "questions")])
  /\ UNCHANGED <<stored, nameKnown, memories, held>>

\* "done" is published; the worker has yet to release the session.
StreamEnds(r) ==
  /\ turn[r].at = "streaming"
  /\ turn[r].answer \/ turn[r].interrupt # "none" \/ (Resumes(r) /\ thread = "none")
  /\ turn' = [turn EXCEPT ![r].at = "merged"]
  /\ thread' = IF turn[r].interrupt = "none" THEN "none" ELSE thread
  /\ UNCHANGED <<events, stored, nameKnown, memories, held>>

(* Mutant: the end of the stream stores question and answer. *)
Conclude_WholeTurn(r) ==
  /\ stored' = Stored(Stored(stored, "user", r), "answer", r)
  /\ memories' = memories \cup {r}
  /\ End(r, <<"final">>, "success", turn[r])

\* the end of event_gen without an interrupt: store, remember, "final"
Conclude(r) ==
  LET text == turn[r].answer \/ turn[r].tokens
      kept == IF text THEN StoredOnce(stored, "answer", r) ELSE stored
  IN  \/ /\ stored' = kept
         /\ memories' = IF text \/ turn[r].kind = "confirmStream" THEN memories \cup {r}
                        ELSE memories
         /\ End(r, <<"final">>, "success", turn[r])
      \/ Raises(r, kept, <<>>)

\* /recommend/stream after its loop
FinishStream(r) ==
  LET show == turn[r].interrupt = "questions" /\ ~turn[r].awaiting
      kept == IF show THEN StoredOnce(stored, "ack", r) ELSE stored
  IN  /\ turn[r].at = "merged" /\ turn[r].kind = "stream"
      /\ \/ turn[r].interrupt = "none" /\ Conclude(r)
         \/ /\ turn[r].interrupt # "none"
            /\ stored' = kept
            /\ \E raised \in IF kept = stored THEN {FALSE} ELSE BOOLEAN :
                 IF raised THEN End(r, <<"error">>, "raised", turn[r])
                 ELSE End(r, IF show THEN <<"awaiting">> ELSE <<>>, "awaiting", turn[r])
            /\ UNCHANGED memories
      /\ UNCHANGED <<nameKnown, held, thread>>

\* /recommend/confirm/stream after its loop, and after each retry
FinishConfirm(r) ==
  LET t == turn[r]
      asked == IF t.awaiting THEN <<>> ELSE <<"awaiting">>
      kept == StoredOnce(stored, "ack", r)
      edits == t.interrupt = "questions" /\ t.action = "edit"
  IN  /\ t.at = "merged" /\ t.kind = "confirmStream"
      /\ \/ t.interrupt = "none" /\ Conclude(r)
         \/ t.interrupt # "none" /\ MayRetry(r) /\ Retry(r)
         \/ /\ edits
            /\ \/ stored' = kept /\ End(r, asked, "awaiting", t) /\ UNCHANGED memories
               \/ Raises(r, kept, asked) \/ Raises(r, stored, <<>>)
         \/ /\ t.interrupt # "none" /\ ~MayRetry(r) /\ ~edits
            /\ End(r, <<"error">>, "failed", t)
            /\ UNCHANGED <<stored, memories>>
      /\ UNCHANGED <<nameKnown, held, thread>>

\* The client closes the connection: the coroutine is cancelled at its await.
Disconnect(r) ==
  /\ turn[r].at \in {"accepted", "running", "streaming"}
  /\ turn' = [turn EXCEPT ![r].at = "gone"]
  /\ held' \in LeftBehind(r)
  /\ UNCHANGED <<events, stored, nameKnown, memories, thread>>

-----------------------------------------------------------------------------
Init ==
  /\ turn = [r \in Requests |-> NoTurn]
  /\ events = [r \in Requests |-> <<>>]
  /\ stored = <<>> /\ nameKnown = FALSE /\ memories = {}
  /\ held = NoRequest /\ thread = "none"

Arrive(r) ==
  \E kind \in Kinds :
    \/ Refuse(r, kind)
    \/ \E query \in Queries : Accept(r, kind, query) \/ AcceptRaises(r, kind, query)
    \/ \E action \in {"confirm", "edit"}, edited \in BOOLEAN : Confirm(r, kind, action, edited)

Run(r) ==
  \/ Start(r) \/ StartRefused(r) \/ AnswerFromMemory(r)
  \/ \E o \in Results(r) : RunReturns(r, o)
  \/ \E why \in {"stopped", "failed"} : RunStops(r, why)

Stream(r) ==
  \/ StreamToken(r) \/ StreamAnswer(r) \/ \E o \in Payloads : StreamInterrupt(r, o)
  \/ StreamEnds(r) \/ FinishStream(r) \/ FinishConfirm(r)

Served == \A r \in Requests : turn[r].at \in {"ended", "gone"}

Next ==
  \/ \E r \in Requests : Arrive(r) \/ Run(r) \/ Stream(r) \/ Release(r) \/ Disconnect(r)
  \/ Served /\ UNCHANGED vars

\* A run ends or is stopped by its deadline, and a coroutine that can go on does.
\* No worker is assumed to leave its run.
Fairness == \A r \in Requests : WF_vars(Run(r)) /\ WF_vars(Stream(r))

Spec == Init /\ [][Next]_vars
FairSpec == Spec /\ Fairness

-----------------------------------------------------------------------------
TypeOK ==
  /\ turn \in [Requests ->
       [at : {"absent", "accepted", "running", "streaming", "merged", "ended", "gone"},
        kind : Kinds \cup {"none"}, query : Queries \cup {"none"},
        action : {"none", "confirm", "edit"}, known : BOOLEAN,
        status : {"open", "success", "awaiting", "failed", "raised"},
        awaiting : BOOLEAN, tokens : BOOLEAN, answer : BOOLEAN,
        interrupt : {"none", "questions", "empty"}, retries : 0 .. 2]]
  /\ events \in [Requests -> Seq(Closing \cup {"meta", "node", "token", "awaiting"})]
  /\ stored \in Seq(Messages) /\ Len(stored) <= MaxMessages
  /\ nameKnown \in BOOLEAN /\ memories \subseteq Requests
  /\ held \in Requests \cup {NoRequest, Dropped}
  /\ thread \in {"none", "questions", "empty"}

Says(what, r) == \E i \in DOMAIN stored : stored[i] = [what |-> what, by |-> r]

\* Every turn that ends has told its client how: a closing event or reply is
\* the last one, or the questions to confirm were shown
\* (routes.py event_gen: no path leaves the stream without an outcome).
EndsWithOutcome ==
  \A r \in Requests : turn[r].at = "ended" =>
    \/ events[r] # <<>> /\ Last(events[r]) \in Closing
    \/ \E i \in DOMAIN events[r] : events[r][i] = "awaiting"

\* Nothing follows a closing event, and a /recommend/stream that has shown
\* questions sends no final ("do not emit final in this turn", routes.py:496).
NothingAfterClosing ==
  \A r \in Requests : \A i, j \in DOMAIN events[r] : i < j =>
    /\ events[r][i] \notin Closing
    /\ turn[r].kind = "stream" /\ events[r][i] = "awaiting" => events[r][j] # "final"

\* "failed or late results cannot be returned or persisted as success"
\* (plan/agent-reliability/02-python-run-control.md): no answer is stored of a
\* run that was refused, stopped or failed, whatever its tokens had said, and no
\* memory of a turn that did not succeed.  An answer may outlive its turn: when
\* the write of the session's file, or what follows it, raises (session_store.py
\* 278-280, 305-307), the client is told of an error and the answer stays.
FailedRunsLeaveNothing ==
  \A r \in Requests :
    /\ Says("answer", r) => turn[r].status \in {"success", "raised"}
    /\ r \in memories => turn[r].status = "success"

\* Whatever else runs on the session, the stored answer of a request follows
\* its stored question, and neither is stored twice.
AnswersFollowQuestions ==
  /\ TypeOK
  /\ \A i, j \in DOMAIN stored :
       /\ stored[i].what = "answer" /\ stored[j].what = "user" /\ stored[i].by = stored[j].by
            => j < i
       /\ stored[i] = stored[j] /\ stored[i].what \in {"user", "answer"} => i = j

\* Every request that arrives ends, whoever holds the session and even if nobody
\* ever frees it: a refused run, a stopped one and a confirm that meets interrupt
\* after interrupt all come to an end (routes.py:708, "Defensive loop breaker").
AllServed ==
  \A r \in Requests : turn[r].at = "accepted" ~> turn[r].at \in {"ended", "gone"}
=============================================================================
