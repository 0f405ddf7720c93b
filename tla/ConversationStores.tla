------------------------- MODULE ConversationStores -------------------------
(***************************************************************************)
(* The two JSON files a conversation is kept in: the session store         *)
(* (session_store.py: messages and facts) and the layered memory           *)
(* (memory_store.py: facts and remembered items).  Both answer from a      *)
(* dictionary in memory and rewrite their whole file on every change:      *)
(* write_text empties the file, then fills it.                             *)
(*                                                                         *)
(* Steps.  The handlers run on the event loop and hold the store's RLock,  *)
(* so one call runs at a time; within it the change in memory, the         *)
(* emptying and the filling of the file are steps of their own, each write *)
(* may fail, and the process may die between any two.                      *)
(*                                                                         *)
(* Data.  A session has one fact, a number, 0 when there is none; a text   *)
(* is a member of a small set; a time is the number of the write it dates. *)
(***************************************************************************)
EXTENDS Integers, Sequences, FiniteSets

CONSTANTS
  Sids,         \* sessions
  Values,       \* what a fact can be set to
  Texts,        \* messages
  Contents,     \* what memory items say
  MaxMessages,  \* SESSION_MAX_MESSAGES
  MaxItems,     \* MEMORY_MAX_ITEMS_PER_LEVEL
  Clock         \* bound: how many item writes are dated

ASSUME ConversationAssumption ==
  /\ Sids # {}
  /\ Values \subseteq Nat \ {0}
  /\ MaxMessages \in Nat \ {0} /\ MaxItems \in Nat \ {0} /\ Clock \in Nat

VARIABLES
  sessions,     \* SESSION_STATE_STORE
  sessionFile,  \* SESSION_STATE_FILE, as it would load
  memory,       \* _MEMORY_STORE, one level of it
  memoryFile,   \* MEMORY_STORE_FILE, as it would load
  call,         \* the handler under way: the operations left, the file step
  clock,        \* _now()
  unsaved,      \* history: the stores whose last write failed
  promise       \* history: what a session's fact may be, and who has lost it

storeVars == <<sessions, sessionFile, memory, memoryFile, call, clock, unsaved, promise>>

\* A file that is empty, torn or missing loads as no session at all.
NoSession == [known |-> FALSE, messages |-> <<>>, fact |-> 0]
NoMemory == [fact |-> 0, items |-> <<>>]
NoSessions == [s \in Sids |-> NoSession]
NoMemories == [s \in Sids |-> NoMemory]

NoCall == [sid |-> CHOOSE s \in Sids : TRUE, todo |-> <<>>, step |-> "change"]
Op(do, arg) == [do |-> do, arg |-> arg]
op == Head(call.todo)
StoreOf == IF op.do \in {"memoryFact", "item"} THEN "memory" ELSE "sessions"

-----------------------------------------------------------------------------
(* Handlers *)

Call(s, ops) == call = NoCall /\ call' = [sid |-> s, todo |-> ops, step |-> "change"]

\* _append_session_messages and _append_session_message_once; both begin with
\* _get_or_create_session_state, which persists a new session on its own.
AppendMessage(s, text, once) ==
  /\ Call(s, <<Op("open", 0), Op(IF once THEN "appendOnce" ELSE "append", text)>>)
  /\ UNCHANGED <<sessions, sessionFile, memory, memoryFile, clock, unsaved, promise>>

\* _merge_session_facts: the memory gets the fact before the session is saved.
MergeFact(s, value) ==
  /\ Call(s, <<Op("open", 0), Op("fact", value), Op("memoryFact", value), Op("save", value)>>)
  /\ promise' = [promise EXCEPT ![s].values = @ \cup {value}]
  /\ UNCHANGED <<sessions, sessionFile, memory, memoryFile, clock, unsaved>>

\* _safe_write_turn_memories: an episode of the question and one of the answer.
WriteTurnMemories(s, question, answer) ==
  /\ clock + 2 <= Clock
  /\ Call(s, <<Op("item", question), Op("item", answer)>>)
  /\ UNCHANGED <<sessions, sessionFile, memory, memoryFile, clock, unsaved, promise>>

-----------------------------------------------------------------------------
(* One operation of a handler *)

\* history[-SESSION_MAX_MESSAGES:]
Latest(messages) ==
  LET first == Len(messages) - MaxMessages + 1
  IN  SubSeq(messages, IF first < 1 THEN 1 ELSE first, Len(messages))

LatestFirst(items) ==
  LET rank(i) == Cardinality({j \in DOMAIN items :
                   items[j].at > items[i].at \/ (items[j].at = items[i].at /\ j <= i)})
  IN  [k \in DOMAIN items |-> items[CHOOSE i \in DOMAIN items : rank(i) = k]]

Cut(items) == SubSeq(items, 1, IF Len(items) < MaxItems THEN Len(items) ELSE MaxItems)

(* Mutant: the bucket is cut in the order it happens to be in. *)
Remembered_Unsorted(items, text) ==
  IF \E i \in DOMAIN items : items[i].text = text
  THEN [i \in DOMAIN items |->
          IF items[i].text = text THEN [items[i] EXCEPT !.at = clock] ELSE items[i]]
  ELSE Cut(<<[text |-> text, at |-> clock]>> \o items)

\* _write_memory_item: a text that is known is dated anew where it stands; a
\* new one is put last, the bucket sorted by date and cut.
Remembered(items, text) ==
  IF \E i \in DOMAIN items : items[i].text = text
  THEN [i \in DOMAIN items |->
          IF items[i].text = text THEN [items[i] EXCEPT !.at = clock] ELSE items[i]]
  ELSE Cut(LatestFirst(Append(items, [text |-> text, at |-> clock])))

Then == call' = [call EXCEPT !.todo = Tail(@), !.step = "change"]
Pending(step) == call.todo # <<>> /\ call.step = step

\* A session that exists is not persisted, nor a message said twice in a row.
Unchanged ==
  LET said == sessions[call.sid].messages
  IN  \/ op.do = "open" /\ sessions[call.sid].known
      \/ op.do = "appendOnce" /\ said # <<>> /\ said[Len(said)] = op.arg

Skip ==
  /\ Pending("change") /\ Unchanged
  /\ Then
  /\ UNCHANGED <<sessions, sessionFile, memory, memoryFile, clock, unsaved, promise>>

ChangeSession ==
  /\ Pending("change") /\ StoreOf = "sessions" /\ ~Unchanged
  /\ LET old == sessions[call.sid]
     IN  sessions' = [sessions EXCEPT ![call.sid] =
           CASE op.do = "open" -> [old EXCEPT !.known = TRUE]
             [] op.do = "fact" -> [old EXCEPT !.fact = op.arg]
             [] op.do = "save" -> old
             [] OTHER -> [old EXCEPT !.messages = Latest(Append(old.messages, op.arg))]]
  /\ IF op.do = "fact" THEN Then ELSE call' = [call EXCEPT !.step = "empty"]
  /\ UNCHANGED <<sessionFile, memory, memoryFile, clock, unsaved, promise>>

ChangeMemory ==
  /\ Pending("change") /\ StoreOf = "memory"
  /\ IF op.do = "memoryFact"
     THEN memory' = [memory EXCEPT ![call.sid].fact = op.arg] /\ UNCHANGED clock
     ELSE /\ clock' = clock + 1
          /\ memory' = [memory EXCEPT ![call.sid].items = Remembered(@, op.arg)]
  /\ call' = [call EXCEPT !.step = "empty"]
  /\ UNCHANGED <<sessions, sessionFile, memoryFile, unsaved, promise>>

-----------------------------------------------------------------------------
(* The file: Path.write_text *)

Empty ==
  /\ Pending("empty")
  /\ IF StoreOf = "sessions"
     THEN sessionFile' = NoSessions /\ UNCHANGED memoryFile
     ELSE memoryFile' = NoMemories /\ UNCHANGED sessionFile
  /\ unsaved' = [unsaved EXCEPT ![StoreOf] = "torn"]
  /\ call' = [call EXCEPT !.step = "fill"]
  /\ UNCHANGED <<sessions, memory, clock, promise>>

\* A saved fact is acknowledged: from now on it is the session's fact.
Fill ==
  /\ Pending("fill")
  /\ IF StoreOf = "sessions"
     THEN sessionFile' = sessions /\ UNCHANGED memoryFile
     ELSE memoryFile' = memory /\ UNCHANGED sessionFile
  /\ unsaved' = [unsaved EXCEPT ![StoreOf] = "no"]
  /\ promise' = IF op.do = "save"
                THEN [promise EXCEPT ![call.sid] = [values |-> {op.arg}, lost |-> {}]]
                ELSE promise
  /\ Then
  /\ UNCHANGED <<sessions, memory, clock>>

\* An error of the memory's fact is swallowed, an error of an item is too but
\* ends the turn's memories; an error of the session store ends the request.
PersistFails ==
  /\ Pending("empty") \/ Pending("fill")
  /\ unsaved' = [unsaved EXCEPT ![StoreOf] = IF @ = "torn" THEN @ ELSE "old"]
  /\ IF op.do = "memoryFact" THEN Then ELSE call' = NoCall
  /\ UNCHANGED <<sessions, sessionFile, memory, memoryFile, clock, promise>>

Done ==
  /\ call.todo = <<>> /\ call # NoCall
  /\ call' = NoCall
  /\ UNCHANGED <<sessions, sessionFile, memory, memoryFile, clock, unsaved, promise>>

\* The process dies; the next one loads what the files hold.
Crash ==
  /\ sessions' = sessionFile /\ memory' = memoryFile
  /\ call' = NoCall
  /\ promise' = [s \in Sids |-> [promise[s] EXCEPT !.lost = @
                   \cup (IF unsaved["sessions"] = "torn" THEN {"sessions"} ELSE {})
                   \cup (IF unsaved["memory"] # "no" THEN {"memory"} ELSE {})]]
  /\ unsaved' = [store \in {"sessions", "memory"} |-> "no"]
  /\ UNCHANGED <<sessionFile, memoryFile, clock>>

StoresInit ==
  /\ sessions = NoSessions /\ sessionFile = NoSessions
  /\ memory = NoMemories /\ memoryFile = NoMemories
  /\ call = NoCall /\ clock = 0
  /\ unsaved = [store \in {"sessions", "memory"} |-> "no"]
  /\ promise = [s \in Sids |-> [values |-> {0}, lost |-> {}]]

StoresNext ==
  \/ \E s \in Sids, text \in Texts, once \in BOOLEAN : AppendMessage(s, text, once)
  \/ \E s \in Sids, value \in Values : MergeFact(s, value)
  \/ \E s \in Sids, question, answer \in Contents :
       question # answer /\ WriteTurnMemories(s, question, answer)
  \/ Skip \/ ChangeSession \/ ChangeMemory \/ Empty \/ Fill \/ PersistFails \/ Done
  \/ Crash

StoresSpec == StoresInit /\ [][StoresNext]_storeVars

-----------------------------------------------------------------------------
(* What is read *)

(* Mutant: the memory's copy of a fact wins over the session's. *)
Recalled_Fallback(s) == IF memory[s].fact # 0 THEN memory[s].fact ELSE sessions[s].fact

\* _merge_facts: the session's own fact wins over the memory's copy of it.
Recalled(s) == IF sessions[s].fact # 0 THEN sessions[s].fact ELSE memory[s].fact

-----------------------------------------------------------------------------
(* Properties *)

Messages == UNION {[1 .. n -> Texts] : n \in 0 .. MaxMessages}
Items == UNION {[1 .. n -> [text : Contents, at : 0 .. Clock]] : n \in 0 .. MaxItems}
SessionStates == [known : BOOLEAN, messages : Messages, fact : Values \cup {0}]
MemoryStates == [fact : Values \cup {0}, items : Items]

StoresTypeOK ==
  /\ \A s \in Sids : sessions[s] \in SessionStates /\ sessionFile[s] \in SessionStates
  /\ \A s \in Sids : memory[s] \in MemoryStates /\ memoryFile[s] \in MemoryStates
  /\ call.sid \in Sids /\ call.step \in {"change", "empty", "fill"}
  /\ clock \in 0 .. Clock
  /\ unsaved \in [{"sessions", "memory"} -> {"no", "old", "torn"}]
  /\ \A s \in Sids : promise[s].values \subseteq Values \cup {0}

\* Between two calls a store whose last write worked has in its file all it
\* answers from, so a restart loses nothing; and a fact that was acknowledged
\* (or, when a later request to change it failed, that request's) is recalled
\* until a torn or unwritten file has cost both stores their copy.
AcknowledgedSurvives ==
  /\ StoresTypeOK
  /\ call = NoCall =>
       /\ unsaved["sessions"] = "no" => sessionFile = sessions
       /\ unsaved["memory"] = "no" => memoryFile = memory
  /\ \A s \in Sids : promise[s].lost # {"sessions", "memory"} => Recalled(s) \in promise[s].values

\* A bucket that is full gives up an item only when every item it keeps was
\* written or confirmed later, although confirming one does not move it.
FreshestKept ==
  [][ChangeMemory => \A s \in Sids : \A i \in DOMAIN memory[s].items :
       LET kept == memory'[s].items
       IN  (\A k \in DOMAIN kept : kept[k].text # memory[s].items[i].text)
             => \A k \in DOMAIN kept : kept[k].at > memory[s].items[i].at]_storeVars
=============================================================================
