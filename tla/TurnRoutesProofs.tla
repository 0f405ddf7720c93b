-------------------------- MODULE TurnRoutesProofs --------------------------
(***************************************************************************)
(* Proofs about TurnRoutes, for any number of requests on the session and  *)
(* any limit of its messages.                                              *)
(***************************************************************************)
EXTENDS TurnRoutes, SequenceTheorems, TLAPS

-----------------------------------------------------------------------------
(* The inductive invariant *)

(* The question of a request is stored before its answer, and neither twice. *)
Ordered(s) ==
  \A i, j \in DOMAIN s :
    /\ s[i].what = "answer" /\ s[j].what = "user" /\ s[i].by = s[j].by => j < i
    /\ s[i] = s[j] /\ s[i].what \in {"user", "answer"} => i = j

(* No message of s is of the request q; one of them is its answer. *)
Without(s, q) == \A i \in DOMAIN s : s[i].by # q
Answers(s, q) == \E i \in DOMAIN s : s[i] = [what |-> "answer", by |-> q]

Silent(r) == Without(stored, r)

Shown(r, e) == \E i \in DOMAIN events[r] : events[r][i] = e

(* A turn that is not over has told neither its client nor the stores. *)
OpenInv(r) ==
  /\ turn[r].at = "absent" => Silent(r) /\ events[r] = <<>>
  /\ turn[r].at # "ended" =>
       turn[r].status = "open" /\ \A e \in Closing : ~Shown(r, e)
  /\ turn[r].status \notin {"success", "raised"} => ~Says("answer", r)
  /\ turn[r].status # "success" => r \notin memories

(* What a request's handler has in common with its endpoint. *)
KindInv(r) ==
  /\ turn[r].at = "streaming" => ByStream(r)
  /\ turn[r].kind = "stream" =>
       /\ turn[r].action = "none" /\ turn[r].retries = 0
       /\ turn[r].at = "running" => ByTurn(r)
  /\ turn[r].kind = "confirmStream" /\ turn[r].action = "edit" =>
       /\ turn[r].query = "none" /\ turn[r].retries = 0 /\ turn[r].at # "running"
       /\ turn[r].interrupt = "questions" => turn[r].awaiting
  /\ turn[r].kind = "none" <=> turn[r].at = "absent"

(* The questions of /recommend/stream are shown once its graph has           *)
(* interrupted, and never by a request that goes on to a final event.        *)
QuestionsInv(r) ==
  /\ turn[r].awaiting => Shown(r, "awaiting")
  /\ turn[r].kind = "stream" /\ Shown(r, "awaiting") /\ turn[r].at # "ended" =>
       turn[r].interrupt = "questions" /\ turn[r].at \in {"streaming", "merged", "gone"}

ClosedInv(r) ==
  \A i, j \in DOMAIN events[r] : i < j =>
    /\ events[r][i] \notin Closing
    /\ turn[r].kind = "stream" /\ events[r][i] = "awaiting" => events[r][j] # "final"

(* Where an interrupt always has questions, a turn that ends has told so. *)
OutcomeInv(r) ==
  "empty" \notin Payloads =>
    /\ turn[r].interrupt # "empty"
    /\ turn[r].at = "ended" =>
         (events[r] # <<>> /\ Last(events[r]) \in Closing) \/ Shown(r, "awaiting")

TurnInv(r) ==
  OpenInv(r) /\ KindInv(r) /\ QuestionsInv(r) /\ ClosedInv(r) /\ OutcomeInv(r)

IInv ==
  /\ TypeOK
  /\ Ordered(stored)
  /\ "empty" \notin Payloads => thread # "empty"
  /\ \A r \in Requests : TurnInv(r)

-----------------------------------------------------------------------------
(* Sequences *)

Whats == {"user", "answer"} \cup Canned

(* The sequence t is s without its first k messages, and new. *)
Shifts(s, t, new, k) ==
  /\ Len(t) + k = Len(s) + 1
  /\ \A i \in DOMAIN t :
       IF i + k = Len(s) + 1 THEN t[i] = new
       ELSE i + k \in DOMAIN s /\ t[i] = s[i + k]

LEMMA StoredShape ==
  ASSUME NEW s \in Seq(Messages), NEW r \in Requests, NEW w \in Whats
  PROVE  /\ Stored(s, w, r) \in Seq(Messages) /\ Len(Stored(s, w, r)) <= MaxMessages
         /\ \E k \in Nat : Shifts(s, Stored(s, w, r), [what |-> w, by |-> r], k)
<1> DEFINE new == [what |-> w, by |-> r]
           all == Append(s, new)
           n == Len(s) + 1
           m == IF n < MaxMessages THEN n ELSE MaxMessages
           t == SubSeq(all, 1 + n - m, n)
<1>1. new \in Messages /\ Len(s) \in Nat
  BY DEF Messages, Whats
<1>2. /\ all \in Seq(Messages) /\ Len(all) = n
      /\ \A i \in 1 .. Len(s) : all[i] = s[i]
      /\ all[n] = new
  BY <1>1
<1>3. m \in 1 .. n /\ m <= MaxMessages /\ n \in Nat
  BY <1>1, TurnAssumption
<1>4. 1 + n - m \in 1 .. n
  BY <1>3
<1>5. Stored(s, w, r) = t
  BY <1>2 DEF Stored
<1> HIDE DEF all, m, new, t
<1>6. /\ t \in Seq(Messages) /\ Len(t) = m
      /\ \A i \in 1 .. m : t[i] = all[(1 + n - m) + i - 1]
  BY <1>2, <1>3, <1>4, SubSeqProperties DEF t
<1>7. ASSUME NEW i \in DOMAIN t
      PROVE  IF i + (n - m) = n THEN t[i] = new
             ELSE i + (n - m) \in DOMAIN s /\ t[i] = s[i + (n - m)]
  <2>1. i \in 1 .. m /\ t[i] = all[i + (n - m)]
    BY <1>3, <1>6, <1>7
  <2>2. i + (n - m) \in 1 .. n
    BY <1>3, <2>1
  <2> QED
    BY <1>1, <1>2, <2>1, <2>2
<1>8. n - m \in Nat /\ Len(t) + (n - m) = n
  BY <1>1, <1>3, <1>6
<1>9. Shifts(s, t, new, n - m)
  BY <1>7, <1>8 DEF Shifts
<1> QED
  BY <1>3, <1>5, <1>6, <1>8, <1>9 DEF new

(* What is said after a message of r has been stored. *)
LEMMA StoredSays ==
  ASSUME NEW s \in Seq(Messages), NEW r \in Requests, NEW w \in Whats
  PROVE  /\ \A q \in Requests : q # r =>
              /\ Without(s, q) => Without(Stored(s, w, r), q)
              /\ Answers(Stored(s, w, r), q) => Answers(s, q)
         /\ w # "answer" => (Answers(Stored(s, w, r), r) => Answers(s, r))
<1> DEFINE new == [what |-> w, by |-> r]
           t == Stored(s, w, r)
<1>1. \E k \in Nat : Shifts(s, t, new, k)
  BY StoredShape
<1> HIDE DEF t
<1>2. ASSUME NEW i \in DOMAIN t, t[i] # new PROVE \E j \in DOMAIN s : t[i] = s[j]
  BY <1>1, <1>2 DEF Shifts
<1>3. ASSUME NEW q \in Requests, q # r, Without(s, q) PROVE Without(t, q)
  BY <1>2, <1>3 DEF Without
<1>4. ASSUME NEW q \in Requests, Answers(t, q), q # r \/ w # "answer" PROVE Answers(s, q)
  <2>1. PICK i \in DOMAIN t : t[i] = [what |-> "answer", by |-> q]
    BY <1>4 DEF Answers
  <2>2. t[i] # new
    BY <1>4, <2>1
  <2> QED
    BY <1>2, <2>1, <2>2 DEF Answers
<1> QED
  BY <1>3, <1>4 DEF t

LEMMA StoredOrdered ==
  ASSUME NEW s \in Seq(Messages), Ordered(s), NEW r \in Requests, NEW w \in Whats,
         w = "user" => Without(s, r), w = "answer" => ~Answers(s, r)
  PROVE  Ordered(Stored(s, w, r))
<1> DEFINE new == [what |-> w, by |-> r]
           t == Stored(s, w, r)
<1>0. PICK k \in Nat : Shifts(s, t, new, k)
  BY StoredShape
<1>a. t \in Seq(Messages)
  BY StoredShape
<1> HIDE DEF t
<1>2. /\ t \in Seq(Messages) /\ DOMAIN s = 1 .. Len(s) /\ Len(s) \in Nat
      /\ DOMAIN t = 1 .. Len(t) /\ Len(t) \in Nat
  BY <1>a
<1>1. /\ Len(t) + k = Len(s) + 1
      /\ \A i \in DOMAIN t :
           IF i + k = Len(s) + 1 THEN t[i] = new ELSE i + k \in DOMAIN s /\ t[i] = s[i + k]
  BY <1>0 DEF Shifts
<1>3. ASSUME NEW j \in DOMAIN s, s[j].by = r
      PROVE  w # "user" /\ (w = "answer" => s[j].what # "answer")
  <2>1. s[j] \in Messages
    BY <1>2
  <2>2. s[j] = [what |-> s[j].what, by |-> r]
    BY <1>3, <2>1 DEF Messages
  <2> QED
    BY <1>3, <2>2 DEF Without, Answers
<1> SUFFICES ASSUME NEW i \in DOMAIN t, NEW j \in DOMAIN t
             PROVE  /\ t[i].what = "answer" /\ t[j].what = "user" /\ t[i].by = t[j].by
                         => j < i
                    /\ t[i] = t[j] /\ t[i].what \in {"user", "answer"} => i = j
  BY DEF Ordered, t
<1>4. CASE i + k # Len(s) + 1 /\ j + k # Len(s) + 1
  <2>1. i + k \in DOMAIN s /\ t[i] = s[i + k] /\ j + k \in DOMAIN s /\ t[j] = s[j + k]
    BY <1>1, <1>4
  <2> QED
    BY <1>1, <1>2, <2>1 DEF Ordered
<1>5. CASE i + k = Len(s) + 1 /\ j + k # Len(s) + 1
  <2>1. t[i] = new /\ j < i /\ j + k \in DOMAIN s /\ t[j] = s[j + k]
    BY <1>1, <1>2, <1>5
  <2> QED
    BY <1>3, <2>1
<1>6. CASE i + k # Len(s) + 1 /\ j + k = Len(s) + 1
  <2>1. t[j] = new /\ i + k \in DOMAIN s /\ t[i] = s[i + k]
    BY <1>1, <1>6
  <2> QED
    BY <1>3, <2>1
<1>7. CASE i + k = Len(s) + 1 /\ j + k = Len(s) + 1
  <2>1. t[i] = new /\ i = j
    BY <1>1, <1>2, <1>7
  <2> QED
    BY <2>1
<1> QED
  BY <1>4, <1>5, <1>6, <1>7

(* The request r stores a message of kind w or none, then a canned one or   *)
(* none.                                                                    *)
Stores(r, w) ==
  \E s \in {stored, Stored(stored, w, r)} :
    stored' = s \/ \E v \in Canned : stored' = Stored(s, v, r)

LEMMA OnceStores ==
  ASSUME NEW r, NEW w,
         stored' \in {stored, Stored(stored, w, r), StoredOnce(stored, w, r)}
  PROVE  Stores(r, w)
BY DEF Stores, StoredOnce

LEMMA TwiceStores ==
  ASSUME NEW r, NEW w, NEW v \in Canned,
         NEW s \in {stored, Stored(stored, w, r), StoredOnce(stored, w, r)},
         stored' = StoredOnce(s, v, r)
  PROVE  Stores(r, w)
<1>1. s \in {stored, Stored(stored, w, r)}
  BY DEF StoredOnce
<1>2. stored' = s \/ stored' = Stored(s, v, r)
  BY DEF StoredOnce
<1> QED
  BY <1>1, <1>2 DEF Stores

LEMMA StoresKeep ==
  ASSUME TypeOK, Ordered(stored), NEW r \in Requests, NEW w \in Whats, Stores(r, w),
         w = "user" => Silent(r), w = "answer" => ~Says("answer", r)
  PROVE  /\ stored' \in Seq(Messages) /\ Len(stored') <= MaxMessages /\ Ordered(stored')
         /\ \A q \in Requests : q # r =>
              (Silent(q) => Silent(q)') /\ (Says("answer", q)' => Says("answer", q))
         /\ w # "answer" => (Says("answer", r)' => Says("answer", r))
<1>1. stored \in Seq(Messages) /\ Len(stored) <= MaxMessages
  BY DEF TypeOK
<1>2. PICK s \in {stored, Stored(stored, w, r)} :
        stored' = s \/ \E v \in Canned : stored' = Stored(s, v, r)
  BY DEF Stores
<1>3. /\ s \in Seq(Messages) /\ Len(s) <= MaxMessages /\ Ordered(s)
      /\ \A q \in Requests : q # r =>
           (Without(stored, q) => Without(s, q)) /\ (Answers(s, q) => Answers(stored, q))
      /\ w # "answer" => (Answers(s, r) => Answers(stored, r))
  <2>1. CASE s = stored
    BY <1>1, <2>1
  <2>2. CASE s = Stored(stored, w, r)
    <3>1. (w = "user" => Without(stored, r)) /\ (w = "answer" => ~Answers(stored, r))
      BY DEF Silent, Says, Answers
    <3>2. s \in Seq(Messages) /\ Len(s) <= MaxMessages /\ Ordered(s)
      BY <1>1, <2>2, <3>1, StoredShape, StoredOrdered
    <3> QED
      BY <1>1, <2>2, <3>2, StoredSays
  <2> QED
    BY <2>1, <2>2
<1> DEFINE Keeps(t) ==
             /\ t \in Seq(Messages) /\ Len(t) <= MaxMessages /\ Ordered(t)
             /\ \A q \in Requests : q # r =>
                  (Without(s, q) => Without(t, q)) /\ (Answers(t, q) => Answers(s, q))
             /\ Answers(t, r) => Answers(s, r)
<1>4. Keeps(stored')
  <2>1. CASE stored' = s
    BY <1>3, <2>1
  <2>2. ASSUME NEW v \in Canned, stored' = Stored(s, v, r) PROVE Keeps(stored')
    <3>1. v \in Whats /\ v \notin {"user", "answer"}
      BY DEF Whats, Canned
    <3> QED
      BY <1>3, <2>2, <3>1, StoredShape, StoredSays, StoredOrdered
  <2> QED
    BY <1>2, <2>1, <2>2
<1> QED
  BY <1>3, <1>4 DEF Silent, Says, Answers

-----------------------------------------------------------------------------
(* Events *)

Names == Closing \cup {"meta", "node", "token", "awaiting"}

(* The request r is told the event x, or nothing. *)
Told(r, x) ==
  IF x = "none" THEN events' = events
  ELSE events' = [events EXCEPT ![r] = Append(@, x)]

LEMMA EmitTells ==
  ASSUME TypeOK, NEW r \in Requests, NEW e, events' = [events EXCEPT ![r] = @ \o e]
  PROVE  /\ e = <<>> => Told(r, "none")
         /\ \A x \in Names : e = <<x>> => Told(r, x)
<1>1. events \in [Requests -> Seq(Names)]
  BY DEF TypeOK, Names
<1>2. ASSUME e = <<>> PROVE events' = events
  <2>1. events[r] \o <<>> = events[r]
    BY <1>1, ConcatEmptySeq
  <2> QED
    BY <1>1, <1>2, <2>1
<1>3. ASSUME NEW x \in Names, e = <<x>> PROVE events' = [events EXCEPT ![r] = Append(@, x)]
  <2>1. Append(events[r], x) = events[r] \o <<x>>
    BY <1>1, AppendIsConcat
  <2> QED
    BY <1>3, <2>1
<1>4. "none" \notin Names
  BY DEF Names, Closing
<1> QED
  BY <1>2, <1>3, <1>4 DEF Told

LEMMA ToldEvents ==
  ASSUME TypeOK, NEW r \in Requests, NEW x \in Names, Told(r, x)
  PROVE  /\ events' \in [Requests -> Seq(Names)]
         /\ \A q \in Requests : q # r => events'[q] = events[q]
         /\ \A y : Shown(r, y)' <=> Shown(r, y) \/ y = x
         /\ events'[r] # <<>> /\ Last(events'[r]) = x
         /\ \A i, j \in DOMAIN events'[r] : i < j =>
              i \in DOMAIN events[r] /\ events'[r][i] = events[r][i]
                /\ (\/ events'[r][j] = x
                    \/ j \in DOMAIN events[r] /\ events'[r][j] = events[r][j])
<1> DEFINE s == events[r]
           t == Append(s, x)
<1>1. events \in [Requests -> Seq(Names)] /\ x # "none"
  BY DEF TypeOK, Names, Closing
<1>2. /\ events'[r] = t /\ s \in Seq(Names)
      /\ \A q \in Requests : q # r => events'[q] = events[q]
  BY <1>1 DEF Told
<1>3. /\ t \in Seq(Names) /\ t # <<>> /\ Len(t) = Len(s) + 1 /\ t[Len(s) + 1] = x
      /\ \A i \in 1 .. Len(s) : t[i] = s[i]
      /\ DOMAIN s = 1 .. Len(s) /\ DOMAIN t = 1 .. Len(s) + 1 /\ Len(s) \in Nat
  BY <1>2, AppendProperties, LenProperties
<1>4. events' \in [Requests -> Seq(Names)]
  BY <1>1, <1>3 DEF Told
<1> HIDE DEF t, s
<1>5. ASSUME NEW y PROVE Shown(r, y)' <=> Shown(r, y) \/ y = x
  <2>1. Shown(r, y) <=> \E i \in DOMAIN s : s[i] = y
    BY DEF Shown, s
  <2>2. Shown(r, y)' <=> \E i \in DOMAIN t : t[i] = y
    BY <1>2 DEF Shown
  <2>3. (\E i \in DOMAIN t : t[i] = y) => Shown(r, y) \/ y = x
    BY <1>3, <2>1
  <2>4. Shown(r, y) => \E i \in DOMAIN t : t[i] = y
    BY <1>3, <2>1
  <2>5. y = x => \E i \in DOMAIN t : t[i] = y
    BY <1>3
  <2> QED
    BY <2>2, <2>3, <2>4, <2>5
<1>6. Last(events'[r]) = x
  BY <1>2, <1>3 DEF Last
<1>7. ASSUME NEW i \in DOMAIN t, NEW j \in DOMAIN t, i < j
      PROVE  /\ i \in DOMAIN s /\ t[i] = s[i]
             /\ t[j] = x \/ (j \in DOMAIN s /\ t[j] = s[j])
  <2>1. i \in 1 .. Len(s) /\ (j = Len(s) + 1 \/ j \in 1 .. Len(s))
    BY <1>3, <1>7
  <2>2. i \in DOMAIN s /\ t[i] = s[i]
    BY <1>3, <2>1
  <2>3. CASE j = Len(s) + 1
    <3>1. t[Len(s) + 1] = x
      BY <1>3
    <3>2. t[j] = x
      BY <2>3, <3>1, Zenon
    <3> QED
      BY <2>2, <3>2
  <2>4. CASE j \in 1 .. Len(s)
    BY <1>3, <2>2, <2>4
  <2> QED
    BY <2>1, <2>3, <2>4
<1> QED
  BY <1>2, <1>3, <1>4, <1>5, <1>6, <1>7 DEF s

-----------------------------------------------------------------------------
(* What every step of a request's handler keeps to *)

Turns ==
  [at : {"absent", "accepted", "running", "streaming", "merged", "ended", "gone"},
   kind : Kinds \cup {"none"}, query : Queries \cup {"none"},
   action : {"none", "confirm", "edit"}, known : BOOLEAN,
   status : {"open", "success", "awaiting", "failed", "raised"},
   awaiting : BOOLEAN, tokens : BOOLEAN, answer : BOOLEAN,
   interrupt : {"none", "questions", "empty"}, retries : 0 .. 2]

Holders == Requests \cup {NoRequest, Dropped}

(* The request r goes from its turn to u, is told x, and stores what Stores *)
(* says.                                                                    *)
Moves(r, u, x, w) ==
  /\ turn' = [turn EXCEPT ![r] = u] /\ u \in Turns
  /\ Told(r, x) /\ x \in Names \cup {"none"}
  /\ Stores(r, w) /\ w \in Whats
  /\ memories' \in {memories, memories \cup {r}}
  /\ nameKnown' \in BOOLEAN /\ held' \in Holders
  /\ thread' \in {"none", "questions", "empty"}

(* It stores its question first, its answer and its memory with success. *)
StoresRightly(r, u, w) ==
  /\ turn[r].at # "ended" /\ u.at # "absent"
  /\ w = "user" => turn[r].at = "absent"
  /\ u.at # "ended" => u.status = "open"
  /\ u.status \notin {"success", "raised"} => w # "answer"
  /\ u.status # "success" => memories' = memories

(* It is told one closing event, with its end, and none after questions. *)
TellsRightly(r, u, x) ==
  /\ x \in Closing => u.at = "ended"
  /\ u.at = "streaming" =>
       u.kind \in {"stream", "confirmStream"} /\ u.query # "confirmWord"
  /\ u.kind = "stream" =>
       /\ u.action = "none" /\ u.retries = 0
       /\ u.at = "running" => u.query = "confirmWord"
  /\ u.kind = "confirmStream" /\ u.action = "edit" =>
       /\ u.query = "none" /\ u.retries = 0 /\ u.at # "running"
       /\ u.interrupt = "questions" => u.awaiting
  /\ u.kind # "none"
  /\ u.awaiting => Shown(r, "awaiting") \/ x = "awaiting"
  /\ u.kind = "stream" /\ Shown(r, "awaiting") => x # "final"
  /\ u.kind = "stream" /\ u.at # "ended" /\ (Shown(r, "awaiting") \/ x = "awaiting") =>
       u.interrupt = "questions" /\ u.at \in {"streaming", "merged", "gone"}
  /\ "empty" \notin Payloads =>
       /\ thread' # "empty" /\ u.interrupt # "empty"
       /\ u.at = "ended" => x \in Closing \cup {"awaiting"} \/ Shown(r, "awaiting")

LEMMA MovesKeep ==
  ASSUME IInv, NEW r \in Requests, NEW u, NEW x, NEW w,
         Moves(r, u, x, w), StoresRightly(r, u, w), TellsRightly(r, u, x)
  PROVE  IInv'
<1> TypeOK /\ TurnInv(r)
  BY DEF IInv
<1>1. /\ turn \in [Requests -> Turns] /\ turn' \in [Requests -> Turns] /\ turn'[r] = u
      /\ \A q \in Requests : q # r => turn'[q] = turn[q]
  BY DEF TypeOK, Turns, Moves
<1>2. /\ events' \in [Requests -> Seq(Names)]
      /\ \A q \in Requests : q # r => events'[q] = events[q]
      /\ x = "none" => events' = events
  BY ToldEvents DEF Moves, Told, TypeOK, Names
<1>3. /\ stored' \in Seq(Messages) /\ Len(stored') <= MaxMessages /\ Ordered(stored')
      /\ \A q \in Requests : q # r =>
           (Silent(q) => Silent(q)') /\ (Says("answer", q)' => Says("answer", q))
      /\ w # "answer" => (Says("answer", r)' => Says("answer", r))
  <2>1. turn[r].status = "open"
    BY DEF StoresRightly, TurnInv, OpenInv
  <2>2. (w = "user" => Silent(r)) /\ ~Says("answer", r)
    BY <2>1 DEF StoresRightly, TurnInv, OpenInv
  <2> QED
    BY <2>2, StoresKeep DEF IInv, Moves
<1>4. TypeOK'
  BY <1>1, <1>2, <1>3 DEF Moves, TypeOK, Turns, Names, Holders
<1>6. "empty" \notin Payloads => thread' # "empty"
  BY DEF TellsRightly
<1>7. ASSUME NEW q \in Requests, q # r PROVE TurnInv(q)'
  <2>1. TurnInv(q) /\ turn'[q] = turn[q] /\ events'[q] = events[q]
    BY <1>1, <1>2, <1>7 DEF IInv
  <2>2. q \in memories' <=> q \in memories
    BY <1>7 DEF Moves
  <2>3. OpenInv(q)'
    BY <1>3, <1>7, <2>1, <2>2 DEF TurnInv, OpenInv, Shown
  <2>4. KindInv(q)' /\ QuestionsInv(q)' /\ ClosedInv(q)' /\ OutcomeInv(q)'
    BY <2>1 DEF TurnInv, KindInv, ByStream, ByTurn, IsStream, QuestionsInv, ClosedInv,
       OutcomeInv, Shown
  <2> QED
    BY <2>3, <2>4 DEF TurnInv
<1>8. /\ x = "none" => \A y : Shown(r, y)' <=> Shown(r, y)
      /\ x # "none" => \A y : Shown(r, y)' <=> Shown(r, y) \/ y = x
  <2>1. CASE x = "none"
    BY <1>2, <2>1 DEF Shown
  <2>2. CASE x # "none"
    BY <2>2, ToldEvents DEF Moves
  <2> QED
    BY <2>1, <2>2
<1>9. turn[r].status = "open" /\ (\A e \in Closing : ~Shown(r, e))
  BY DEF StoresRightly, TurnInv, OpenInv
<1>10. OpenInv(r)'
  <2>1. u.at # "ended" => x \notin Closing
    BY DEF TellsRightly
  <2>2. u.at # "ended" => \A e \in Closing : ~Shown(r, e)'
    BY <1>8, <1>9, <2>1
  <2>3. /\ u.status \notin {"success", "raised"} => ~Says("answer", r)'
        /\ u.status # "success" => r \notin memories'
    BY <1>3, <1>9 DEF StoresRightly, TurnInv, OpenInv
  <2> QED
    BY <1>1, <2>2, <2>3 DEF StoresRightly, OpenInv
<1>11. KindInv(r)'
  BY <1>1 DEF TellsRightly, StoresRightly, KindInv, ByStream, ByTurn, IsStream
<1>12. QuestionsInv(r)'
  BY <1>1, <1>8 DEF TellsRightly, QuestionsInv
<1>13. ClosedInv(r)'
  <2>1. CASE x = "none"
    <3>1. ClosedInv(r) /\ events'[r] = events[r]
      BY <1>2, <2>1 DEF TurnInv
    <3>2. \A i \in DOMAIN events[r] : events[r][i] \notin Closing
      BY <1>9 DEF Shown
    <3>3. "final" \in Closing
      BY DEF Closing
    <3> QED
      BY <1>1, <3>1, <3>2, <3>3 DEF ClosedInv
  <2>2. CASE x # "none"
    <3> SUFFICES ASSUME NEW i \in DOMAIN events'[r], NEW j \in DOMAIN events'[r], i < j
                 PROVE  /\ events'[r][i] \notin Closing
                        /\ u.kind = "stream" /\ events'[r][i] = "awaiting" =>
                             events'[r][j] # "final"
      BY <1>1 DEF ClosedInv
    <3>1. /\ i \in DOMAIN events[r] /\ events'[r][i] = events[r][i]
          /\ \/ events'[r][j] = x
             \/ j \in DOMAIN events[r] /\ events'[r][j] = events[r][j]
      BY <2>2, ToldEvents DEF Moves
    <3>2. \A k \in DOMAIN events[r] : events[r][k] \notin Closing
      BY <1>9 DEF Shown
    <3>3. "final" \in Closing
      BY DEF Closing
    <3> QED
      BY <3>1, <3>2, <3>3 DEF TellsRightly, Shown
  <2> QED
    BY <2>1, <2>2
<1>14. OutcomeInv(r)'
  <2> SUFFICES ASSUME "empty" \notin Payloads, u.at = "ended"
               PROVE  \/ events'[r] # <<>> /\ Last(events'[r]) \in Closing
                      \/ Shown(r, "awaiting")'
    BY <1>1 DEF OutcomeInv, TellsRightly
  <2>1. x \in Closing \cup {"awaiting"} \/ Shown(r, "awaiting")
    BY DEF TellsRightly
  <2>2. CASE x = "none"
    BY <1>8, <2>1, <2>2 DEF Closing
  <2>3. CASE x # "none"
    <3>1. events'[r] # <<>> /\ Last(events'[r]) = x
      BY <2>3, ToldEvents DEF Moves
    <3> QED
      BY <1>8, <2>1, <2>3, <3>1
  <2> QED
    BY <2>2, <2>3
<1> QED
  BY <1>3, <1>4, <1>6, <1>7, <1>10, <1>11, <1>12, <1>13, <1>14 DEF IInv, TurnInv

-----------------------------------------------------------------------------
(* Each action preserves the invariant. *)

LEMMA Typed ==
  ASSUME IInv, NEW r \in Requests
  PROVE  /\ turn \in [Requests -> Turns] /\ turn[r] \in Turns
         /\ nameKnown \in BOOLEAN /\ held \in Holders
         /\ thread \in {"none", "questions", "empty"}
         /\ Kinds \subseteq {"recommend", "stream", "confirm", "confirmStream"}
         /\ Payloads \subseteq {"questions", "empty"}
         /\ TurnInv(r) /\ ("empty" \notin Payloads => thread # "empty")
BY TurnAssumption DEF IInv, TypeOK, Turns, Holders

LEMMA NoTurnTyped == NoTurn \in Turns
BY DEF Turns, NoTurn, Queries

LEMMA RefuseInv ==
  ASSUME IInv, NEW r \in Requests, NEW kind \in Kinds, Refuse(r, kind) PROVE IInv'
<1> DEFINE u == [NoTurn EXCEPT !.kind = kind, !.at = "ended", !.status = "failed"]
<1>0. TypeOK /\ TurnInv(r) /\ ("empty" \notin Payloads => thread # "empty")
  BY Typed DEF IInv
<1>1. Told(r, "error")
  BY <1>0, EmitTells DEF Refuse, End, Names, Closing
<1>2. Moves(r, u, "error", "ack")
  <2>1. u \in Turns
    BY NoTurnTyped DEF Turns
  <2>2. turn' = [turn EXCEPT ![r] = u]
    BY DEF Refuse, End
  <2>3. UNCHANGED <<stored, nameKnown, memories, held, thread>>
    BY DEF Refuse
  <2> HIDE DEF u
  <2> QED
    BY <1>1, <2>1, <2>2, <2>3, Typed, OnceStores DEF Moves, Names, Closing, Whats, Canned
<1>3. StoresRightly(r, u, "ack") /\ TellsRightly(r, u, "error")
  BY <1>0 DEF StoresRightly, TellsRightly, Refuse, NoTurn, Closing, TurnInv, OpenInv, Shown
<1> QED
  BY <1>2, <1>3, MovesKeep

LEMMA AcceptInv ==
  ASSUME IInv, NEW r \in Requests, NEW kind \in Kinds, NEW query \in Queries,
         Accept(r, kind, query)
  PROVE  IInv'
<1> DEFINE u == [NoTurn EXCEPT !.at = "accepted", !.kind = kind, !.query = query,
                               !.known = nameKnown']
           x == IF kind = "stream" THEN "meta" ELSE "none"
<1>0. TypeOK /\ TurnInv(r) /\ ("empty" \notin Payloads => thread # "empty")
  BY Typed DEF IInv
<1>1. Told(r, x)
  BY <1>0, EmitTells DEF Accept, Emit, Names
<1>2. Moves(r, u, x, "user")
  <2>0. nameKnown' \in BOOLEAN /\ kind \in Kinds /\ query \in Queries
    BY Typed DEF Accept
  <2>1. u \in Turns
    BY <2>0, NoTurnTyped DEF Turns
  <2>2. turn' = [turn EXCEPT ![r] = u] /\ Stores(r, "user")
    BY OnceStores DEF Accept, Emit
  <2>3. UNCHANGED <<memories, held, thread>> /\ x \in Names \cup {"none"}
    BY DEF Accept, Names
  <2> HIDE DEF u, x
  <2> QED
    BY <1>1, <2>0, <2>1, <2>2, <2>3, Typed DEF Moves, Whats
<1>3. StoresRightly(r, u, "user")
  BY DEF StoresRightly, Accept, NoTurn
<1>4. TellsRightly(r, u, x)
  BY <1>0 DEF TellsRightly, Accept, NoTurn, Closing, TurnInv, OpenInv, Shown
<1> QED
  BY <1>2, <1>3, <1>4, MovesKeep

LEMMA AcceptRaisesInv ==
  ASSUME IInv, NEW r \in Requests, NEW kind \in Kinds, NEW query \in Queries,
         AcceptRaises(r, kind, query)
  PROVE  IInv'
<1> DEFINE u == [NoTurn EXCEPT !.kind = kind, !.query = query, !.at = "ended",
                               !.status = "raised"]
<1>0. TypeOK /\ TurnInv(r) /\ ("empty" \notin Payloads => thread # "empty")
  BY Typed DEF IInv
<1>1. Told(r, "error")
  BY <1>0, EmitTells DEF AcceptRaises, End, Names, Closing
<1>2. Moves(r, u, "error", "user")
  <2>0. nameKnown' \in BOOLEAN /\ NoTurn \in Turns
    BY Typed, NoTurnTyped DEF AcceptRaises
  <2>1. u \in Turns /\ nameKnown' \in BOOLEAN
    BY <2>0 DEF Turns
  <2>2. turn' = [turn EXCEPT ![r] = u] /\ stored' \in {stored, Stored(stored, "user", r)}
    BY DEF AcceptRaises, End
  <2>3. UNCHANGED <<memories, held, thread>>
    BY DEF AcceptRaises
  <2>4. Stores(r, "user")
    BY <2>2, OnceStores
  <2> HIDE DEF u
  <2> QED
    BY <1>1, <2>1, <2>2, <2>3, <2>4, Typed DEF Moves, Names, Closing, Whats
<1>3. StoresRightly(r, u, "user") /\ TellsRightly(r, u, "error")
  BY <1>0 DEF StoresRightly, TellsRightly, AcceptRaises, NoTurn, Closing, TurnInv, OpenInv, Shown
<1> QED
  BY <1>2, <1>3, MovesKeep

LEMMA ConfirmInv ==
  ASSUME IInv, NEW r \in Requests, NEW kind \in Kinds, NEW action \in {"confirm", "edit"},
         NEW edited \in BOOLEAN, Confirm(r, kind, action, edited)
  PROVE  IInv'
<1> DEFINE u == [NoTurn EXCEPT !.at = "accepted", !.kind = kind,
                               !.action = IF edited THEN action ELSE "confirm"]
           x == IF kind = "confirmStream" THEN "meta" ELSE "none"
<1>0. TypeOK /\ TurnInv(r) /\ ("empty" \notin Payloads => thread # "empty")
  BY Typed DEF IInv
<1>1. Told(r, x)
  BY <1>0, EmitTells DEF Confirm, Emit, Names
<1>2. Moves(r, u, x, "ack")
  <2>1. u \in Turns
    BY NoTurnTyped DEF Turns
  <2>2. turn' = [turn EXCEPT ![r] = u] /\ x \in Names \cup {"none"}
    BY DEF Confirm, Emit, Names
  <2>3. UNCHANGED <<stored, nameKnown, memories, held, thread>>
    BY DEF Confirm
  <2> HIDE DEF u, x
  <2> QED
    BY <1>1, <2>1, <2>2, <2>3, Typed, OnceStores DEF Moves, Whats, Canned
<1>3. StoresRightly(r, u, "ack")
  BY DEF StoresRightly, Confirm, NoTurn
<1>4. TellsRightly(r, u, x)
  BY <1>0 DEF TellsRightly, Confirm, NoTurn, Closing, TurnInv, OpenInv, Shown
<1> QED
  BY <1>2, <1>3, <1>4, MovesKeep

LEMMA StartInv ==
  ASSUME IInv, NEW r \in Requests, Start(r) PROVE IInv'
<1> DEFINE u == [turn[r] EXCEPT !.at = IF ByStream(r) /\ turn[r].retries = 0
                                       THEN "streaming" ELSE "running"]
<1>0. TypeOK /\ TurnInv(r) /\ ("empty" \notin Payloads => thread # "empty")
  BY Typed DEF IInv
<1>1. Moves(r, u, "none", "ack")
  BY Typed, OnceStores DEF Moves, Told, Start, Turns, Names, Whats, Canned, Holders
<1>2. StoresRightly(r, u, "ack")
  BY <1>0, Typed DEF StoresRightly, Start, ToRun, Turns, TurnInv, OpenInv
<1>3. TellsRightly(r, u, "none")
  BY <1>0, Typed DEF TellsRightly, Start, ToRun, ByStream, ByTurn, IsStream, Closing, TurnInv,
     KindInv, QuestionsInv, OutcomeInv, Turns
<1> QED
  BY <1>1, <1>2, <1>3, MovesKeep

(* A turn under way ends with the event x or without one. *)
LEMMA EndKeeps ==
  ASSUME IInv, NEW r \in Requests, NEW x \in Names \cup {"none"}, NEW w \in Whats,
         NEW status \in {"success", "awaiting", "failed", "raised"},
         turn[r].at \notin {"absent", "ended"},
         End(r, IF x = "none" THEN <<>> ELSE <<x>>, status, turn[r]),
         Stores(r, w), w # "user", memories' \in {memories, memories \cup {r}},
         status \notin {"success", "raised"} => w # "answer",
         status # "success" => memories' = memories,
         nameKnown' = nameKnown, held' \in Holders,
         thread' \in {"none", "questions", "empty"},
         turn[r].kind = "stream" /\ Shown(r, "awaiting") => x # "final",
         "empty" \notin Payloads =>
           thread' # "empty" /\ (x \in Closing \cup {"awaiting"} \/ Shown(r, "awaiting"))
  PROVE  IInv'
<1> DEFINE u == [turn[r] EXCEPT !.at = "ended", !.status = status]
<1>0. TypeOK /\ TurnInv(r) /\ turn[r] \in Turns
  BY Typed DEF IInv
<1>1. Told(r, x)
  BY <1>0, EmitTells DEF End, Told
<1>2. u \in Turns /\ turn' = [turn EXCEPT ![r] = u]
  BY <1>0 DEF Turns, End
<1>3. /\ u.at = "ended" /\ u.status = status /\ u.kind = turn[r].kind
      /\ u.action = turn[r].action /\ u.awaiting = turn[r].awaiting
      /\ u.interrupt = turn[r].interrupt /\ u.retries = turn[r].retries
      /\ u.query = turn[r].query
  BY <1>0 DEF Turns
<1> HIDE DEF u
<1>4. Moves(r, u, x, w)
  BY <1>1, <1>2, Typed DEF Moves
<1>5. StoresRightly(r, u, w)
  BY <1>3 DEF StoresRightly
<1>6. TellsRightly(r, u, x)
  BY <1>0, <1>3 DEF TellsRightly, TurnInv, KindInv, QuestionsInv, OutcomeInv
<1> QED
  BY <1>4, <1>5, <1>6, MovesKeep

(* A turn under way goes on, stores nothing and keeps its request. *)
LEMMA GoesOnKeeps ==
  ASSUME IInv, NEW r \in Requests, NEW x \in (Names \ Closing) \cup {"none"}, NEW u \in Turns,
         turn[r].at \notin {"absent", "ended"}, u.at \notin {"absent", "ended"},
         turn' = [turn EXCEPT ![r] = u],
         u.kind = turn[r].kind, u.query = turn[r].query, u.action = turn[r].action,
         u.status = turn[r].status,
         u.kind = "stream" => u.retries = 0 /\ (u.at = "running" => ByTurn(r)),
         u.at = "streaming" => ByStream(r),
         u.kind = "confirmStream" /\ u.action = "edit" =>
           u.retries = 0 /\ u.at # "running" /\ (u.interrupt = "questions" => u.awaiting),
         events' = [events EXCEPT ![r] = @ \o (IF x = "none" THEN <<>> ELSE <<x>>)],
         UNCHANGED <<stored, memories, nameKnown>>, held' \in Holders,
         thread' \in {"none", "questions", "empty"},
         u.awaiting => turn[r].awaiting \/ x = "awaiting",
         u.kind = "stream" /\ (Shown(r, "awaiting") \/ x = "awaiting") =>
           u.interrupt = "questions" /\ u.at \in {"streaming", "merged", "gone"},
         "empty" \notin Payloads => thread' # "empty" /\ u.interrupt # "empty"
  PROVE  IInv'
<1>0. TypeOK /\ TurnInv(r) /\ turn[r] \in Turns
  BY Typed DEF IInv
<1>1. Told(r, x)
  <2>1. CASE x = "none"
    BY <1>0, <2>1, EmitTells
  <2>2. CASE x \in Names
    <3>1. x # "none"
      BY <2>2 DEF Names, Closing
    <3>2. events' = [events EXCEPT ![r] = @ \o <<x>>]
      BY <3>1
    <3> QED
      BY <1>0, <2>2, <3>2, EmitTells
  <2> QED
    BY <2>1, <2>2
<1>2. Moves(r, u, x, "ack")
  BY <1>1, Typed, OnceStores DEF Moves, Whats, Canned
<1>3. StoresRightly(r, u, "ack")
  BY <1>0 DEF StoresRightly, TurnInv, OpenInv
<1>4. x \notin Closing /\ x # "final"
  BY DEF Closing
<1>5. TellsRightly(r, u, x)
  BY <1>0, <1>4 DEF TellsRightly, TurnInv, KindInv, QuestionsInv, ByStream, ByTurn, IsStream
<1> QED
  BY <1>2, <1>3, <1>5, MovesKeep

LEMMA StartRefusedInv ==
  ASSUME IInv, NEW r \in Requests, StartRefused(r) PROVE IInv'
<1> DEFINE x == IF ByTurn(r) THEN (IF IsStream(r) THEN "final" ELSE "failed") ELSE "error"
<1>1. TurnInv(r) /\ turn[r].at = "accepted"
  BY Typed DEF StartRefused, ToRun
<1>2. ~(turn[r].kind = "stream" /\ Shown(r, "awaiting"))
  BY <1>1 DEF TurnInv, QuestionsInv
<1>3. x \in Closing /\ x \in Names /\ x # "none" /\ Failure(r) = <<x>>
  BY DEF Failure, Closing, Names
<1>4. End(r, IF x = "none" THEN <<>> ELSE <<x>>, "failed", turn[r])
  BY <1>3 DEF StartRefused
<1>5. UNCHANGED <<stored, nameKnown, memories, held, thread>>
  BY DEF StartRefused
<1> HIDE DEF x
<1>6. "ack" \in Whats /\ Stores(r, "ack")
  BY <1>5, OnceStores DEF Whats, Canned
<1> QED
  BY <1>1, <1>2, <1>3, <1>4, <1>5, <1>6, Typed, EndKeeps

(* The end of a turn whose run or handler failed: one closing event, and    *)
(* perhaps a system message after what the handler had stored.              *)
LEMMA TurnFailsKeeps ==
  ASSUME IInv, NEW r \in Requests, NEW s, NEW w \in Whats, NEW what \in Canned, NEW status,
         TurnFails(r, s, what, status), ByTurn(r),
         s \in {stored, Stored(stored, w, r), StoredOnce(stored, w, r)},
         w # "user", status = "raised" \/ (status = "failed" /\ w # "answer"),
         turn[r].at = "running", nameKnown' = nameKnown, held' \in Holders,
         thread' \in {"none", "questions", "empty"}, "empty" \notin Payloads => thread' # "empty"
  PROVE  IInv'
<1>1. PICK x \in {"final", "failed", "error"} : End(r, <<x>>, status, turn[r])
  BY DEF TurnFails, Failure
<1>2. x \in Closing /\ x \in Names /\ x # "none"
  BY DEF Closing, Names
<1>3. ~(turn[r].kind = "stream" /\ Shown(r, "awaiting"))
  BY Typed DEF TurnInv, QuestionsInv
<1>4. Stores(r, w) /\ memories' = memories
  BY TwiceStores DEF TurnFails
<1>5. End(r, IF x = "none" THEN <<>> ELSE <<x>>, status, turn[r])
  BY <1>1, <1>2
<1> QED
  BY <1>2, <1>3, <1>4, <1>5, EndKeeps

(* The end of a turn whose handler raised after storing w or nothing. *)
LEMMA RaisesKeeps ==
  ASSUME IInv, NEW r \in Requests, NEW kept, NEW w \in Whats, Raises(r, kept, <<>>),
         kept \in {stored, Stored(stored, w, r), StoredOnce(stored, w, r)}, w # "user",
         turn[r].at \notin {"absent", "ended"}, nameKnown' = nameKnown, held' \in Holders,
         thread' \in {"none", "questions", "empty"}, "empty" \notin Payloads => thread' # "empty"
  PROVE  IInv'
<1>1. End(r, <<"error">>, "raised", turn[r])
  <2>1. <<>> \o <<"error">> = <<"error">>
    OBVIOUS
  <2> QED
    BY <2>1 DEF Raises
<1>2. "error" \in Closing /\ "error" \in Names /\ "none" # "error"
  BY DEF Closing, Names
<1>3. Stores(r, w) /\ memories' = memories
  BY OnceStores DEF Raises
<1>4. End(r, IF "error" = "none" THEN <<>> ELSE <<"error">>, "raised", turn[r])
  BY <1>1
<1> QED
  BY <1>2, <1>3, <1>4, EndKeeps

LEMMA AnswerFromMemoryInv ==
  ASSUME IInv, NEW r \in Requests, AnswerFromMemory(r) PROVE IInv'
<1> DEFINE x == IF IsStream(r) THEN "final" ELSE "success"
           kept == StoredOnce(stored, "name", r)
<1>0. TurnInv(r) /\ turn[r].at = "accepted" /\ UNCHANGED <<nameKnown, held, thread>>
  BY Typed DEF AnswerFromMemory
<1>1. ~(turn[r].kind = "stream" /\ Shown(r, "awaiting"))
  BY <1>0 DEF TurnInv, QuestionsInv
<1>2. x \in Closing /\ x \in Names /\ x # "none" /\ Success(r) = <<x>>
  BY DEF Success, Closing, Names
<1>3. "name" \in Whats
  BY DEF Whats, Canned
<1> HIDE DEF x
<1>4. CASE stored' = kept /\ memories' = memories \cup {r} /\ End(r, Success(r), "success", turn[r])
  <2>1. End(r, IF x = "none" THEN <<>> ELSE <<x>>, "success", turn[r])
    BY <1>2, <1>4
  <2>2. Stores(r, "name")
    BY <1>4, OnceStores
  <2> QED
    BY <1>0, <1>1, <1>2, <1>3, <1>4, <2>1, <2>2, Typed, EndKeeps
<1>5. CASE Raises(r, kept, <<>>)
  BY <1>0, <1>3, <1>5, Typed, RaisesKeeps
<1> QED
  BY <1>4, <1>5 DEF AnswerFromMemory

LEMMA RunStopsInv ==
  ASSUME IInv, NEW r \in Requests, NEW why \in {"stopped", "failed"}, RunStops(r, why)
  PROVE  IInv'
<1>1. TurnInv(r) /\ turn[r].at \in {"running", "streaming"}
  BY Typed DEF RunStops
<1>2. why \in Canned /\ "ack" \in Whats /\ "error" \in Closing /\ "error" \in Names
  BY DEF Whats, Canned, Closing, Names
<1>3. /\ thread' \in {thread, "none"} /\ nameKnown' = nameKnown
      /\ held' \in Holders
  BY Typed DEF RunStops, LeftBehind, Holders
<1>4. CASE ByTurn(r)
  <2>1. turn[r].at = "running"
    BY <1>1, <1>4 DEF TurnInv, KindInv, ByStream
  <2>2. TurnFails(r, stored, why, "failed")
    BY <1>4 DEF RunStops
  <2> QED
    BY <1>2, <1>3, <1>4, <2>1, <2>2, Typed, TurnFailsKeeps
<1>5. CASE ~ByTurn(r)
  <2>1. End(r, <<"error">>, "failed", turn[r]) /\ UNCHANGED <<stored, memories>>
    BY <1>5 DEF RunStops
  <2>2. Stores(r, "ack")
    BY <2>1, OnceStores
  <2> QED
    BY <1>1, <1>2, <1>3, <2>1, <2>2, Typed, EndKeeps
<1> QED
  BY <1>4, <1>5

LEMMA ResultsFacts ==
  ASSUME IInv, NEW r \in Requests, NEW o \in Results(r)
  PROVE  /\ o \in {"answer", "questions", "empty", "nothing"}
         /\ "empty" \notin Payloads => o # "empty"
BY Typed DEF Results

(* What a run's outcome leaves to be stored. *)
LEMMA KeptStores ==
  ASSUME IInv, NEW r \in Requests, NEW o \in Results(r), o # "empty"
  PROVE  \E w \in Whats :
           /\ w # "user" /\ (o = "questions" => w = "ack")
           /\ Kept(r, o) \in {stored, Stored(stored, w, r), StoredOnce(stored, w, r)}
<1>1. o \in {"answer", "questions", "nothing"}
  BY ResultsFacts
<1>2. CASE Said(r, o) = "nothing"
  <2>1. Kept(r, o) = stored /\ o # "questions"
    <3>1. Kept(r, o) = stored
      BY <1>2 DEF Kept
    <3>2. o = "questions" => Said(r, o) = "ack"
      BY DEF Said
    <3> QED
      BY <1>2, <3>1, <3>2
  <2> QED
    BY <2>1 DEF Whats, Canned
<1>3. CASE Said(r, o) # "nothing"
  <2>1. Said(r, o) \in {"ack", "answer", "fallback"} /\ (o = "questions" => Said(r, o) = "ack")
    BY <1>1, <1>3 DEF Said
  <2>2. Kept(r, o) \in {Stored(stored, Said(r, o), r), StoredOnce(stored, Said(r, o), r)}
    BY <1>3 DEF Kept
  <2> QED
    BY <2>1, <2>2 DEF Whats, Canned
<1> QED
  BY <1>2, <1>3

LEMMA ReturnsKeeps ==
  ASSUME IInv, NEW r \in Requests, NEW o \in Results(r), o # "empty", Returns(r, o),
         turn[r].at = "running", nameKnown' = nameKnown, held' \in Holders,
         thread' \in {"none", "questions", "empty"}, "empty" \notin Payloads => thread' # "empty"
  PROVE  IInv'
<1> DEFINE y == IF IsStream(r) THEN "final" ELSE "success"
<1>1. ~(turn[r].kind = "stream" /\ Shown(r, "awaiting"))
  BY Typed DEF TurnInv, QuestionsInv
<1>2. /\ y \in Closing /\ y \in Names /\ y # "none" /\ Success(r) = <<y>>
      /\ "awaiting" \in Names /\ "awaiting" # "none" /\ "awaiting" # "final"
  BY DEF Success, Closing, Names
<1> HIDE DEF y
<1>3. PICK w \in Whats :
        /\ w # "user" /\ (o = "questions" => w = "ack")
        /\ Kept(r, o) \in {stored, Stored(stored, w, r), StoredOnce(stored, w, r)}
  BY KeptStores
<1>4. Stores(r, w)
  BY <1>3, OnceStores DEF Returns
<1>5. CASE o = "questions"
  <2>1. End(r, IF "awaiting" = "none" THEN <<>> ELSE <<"awaiting">>, "awaiting", turn[r])
        /\ memories' = memories
    BY <1>5 DEF Returns
  <2> QED
    BY <1>1, <1>2, <1>3, <1>4, <1>5, <2>1, EndKeeps
<1>6. CASE o # "questions"
  <2>1. End(r, IF y = "none" THEN <<>> ELSE <<y>>, "success", turn[r])
        /\ memories' = memories \cup {r}
    BY <1>2, <1>6 DEF Returns
  <2> QED
    BY <1>1, <1>2, <1>3, <1>4, <2>1, EndKeeps
<1> QED
  BY <1>5, <1>6

LEMMA TurnReturnsInv ==
  ASSUME IInv, NEW r \in Requests, NEW o \in Results(r), RunReturns(r, o), ByTurn(r)
  PROVE  IInv'
<1>1. turn[r].at = "running" /\ TurnReturns(r, o)
  BY DEF RunReturns
<1>2. /\ nameKnown' = nameKnown /\ held' \in Holders
      /\ thread' \in {"none", "questions", "empty"}
      /\ "empty" \notin Payloads => thread' # "empty"
  BY ResultsFacts DEF RunReturns, Interrupted, Holders
<1>3. "failed" \in Canned /\ "ack" \in Whats
  BY DEF Whats, Canned
<1>4. CASE o = "empty"
  <2>1. TurnFails(r, stored, "failed", "failed")
    BY <1>1, <1>4 DEF TurnReturns
  <2> QED
    BY <1>1, <1>2, <1>3, <2>1, TurnFailsKeeps
<1>5. CASE o # "empty" /\ Returns(r, o)
  BY <1>1, <1>2, <1>5, ReturnsKeeps
<1>6. ASSUME o # "empty", NEW s \in {stored, Kept(r, o)}, TurnFails(r, s, "failed", "raised")
      PROVE  IInv'
  <2>1. PICK w \in Whats :
          /\ w # "user" /\ (o = "questions" => w = "ack")
          /\ Kept(r, o) \in {stored, Stored(stored, w, r), StoredOnce(stored, w, r)}
    BY <1>6, KeptStores
  <2> QED
    BY <1>1, <1>2, <1>3, <1>6, <2>1, TurnFailsKeeps
<1> QED
  BY <1>1, <1>4, <1>5, <1>6 DEF TurnReturns

(* /recommend/confirm and /recommend/confirm/stream run the graph again. *)
LEMMA RetryInv ==
  ASSUME IInv, NEW r \in Requests, MayRetry(r), Retry(r), turn[r].kind # "stream",
         turn[r].at \in {"running", "merged"}, nameKnown' = nameKnown,
         held' \in Holders, thread' \in {"none", "questions", "empty"},
         "empty" \notin Payloads => thread' # "empty"
  PROVE  IInv'
<1> DEFINE u == [turn[r] EXCEPT !.at = "accepted", !.retries = @ + 1]
<1>0. TurnInv(r) /\ turn[r] \in Turns /\ turn \in [Requests -> Turns] /\ TypeOK
  BY Typed DEF IInv
<1>1. turn[r].retries + 1 \in 0 .. 2
  BY <1>0 DEF MayRetry, Turns
<1>2. u \in Turns
  BY <1>0, <1>1 DEF Turns
<1>3. turn' = [turn EXCEPT ![r] = u] /\ UNCHANGED <<events, stored, memories, nameKnown>>
  BY DEF Retry
<1>4. /\ u.at = "accepted" /\ u.kind = turn[r].kind /\ u.query = turn[r].query
      /\ u.action = turn[r].action /\ u.status = turn[r].status
      /\ u.awaiting = turn[r].awaiting /\ u.interrupt = turn[r].interrupt
  BY <1>0 DEF Turns
<1>5. events' = [events EXCEPT ![r] = @ \o <<>>]
  <2>1. events \in [Requests -> Seq(Names)]
    BY <1>0 DEF TypeOK, Names
  <2>2. events[r] \o <<>> = events[r]
    BY <2>1, ConcatEmptySeq
  <2> QED
    BY <1>3, <2>1, <2>2
<1>6. u.action # "edit"
  BY <1>4 DEF MayRetry
<1> HIDE DEF u
<1> QED
  BY <1>0, <1>2, <1>3, <1>4, <1>5, <1>6, GoesOnKeeps DEF TurnInv, OutcomeInv

LEMMA ConfirmReturnsInv ==
  ASSUME IInv, NEW r \in Requests, NEW o \in Results(r), RunReturns(r, o), ~ByTurn(r),
         turn[r].kind = "confirm"
  PROVE  IInv'
<1>1. TurnInv(r) /\ turn[r].at = "running" /\ ConfirmReturns(r, o)
  BY Typed DEF RunReturns
<1>2. /\ nameKnown' = nameKnown /\ held' \in Holders
      /\ thread' \in {"none", "questions", "empty"}
      /\ "empty" \notin Payloads => thread' # "empty"
  BY ResultsFacts DEF RunReturns, Interrupted, Holders
<1>3. "error" \in Names /\ "error" # "none" /\ "error" \in Closing /\ "ack" \in Whats
  BY DEF Names, Closing, Whats, Canned
<1>4. CASE MayRetry(r) /\ Retry(r)
  BY <1>1, <1>2, <1>4, RetryInv
<1>5. CASE End(r, <<"error">>, "failed", turn[r]) /\ UNCHANGED <<stored, memories>>
  <2>1. Stores(r, "ack")
    BY <1>5, OnceStores
  <2> QED
    BY <1>1, <1>2, <1>3, <1>5, <2>1, EndKeeps
<1>6. CASE o # "empty" /\ Returns(r, o)
  BY <1>1, <1>2, <1>6, ReturnsKeeps
<1>7. CASE o # "empty" /\ Raises(r, Kept(r, o), <<>>)
  <2>1. PICK w \in Whats :
          /\ w # "user" /\ (o = "questions" => w = "ack")
          /\ Kept(r, o) \in {stored, Stored(stored, w, r), StoredOnce(stored, w, r)}
    BY <1>7, KeptStores
  <2> QED
    BY <1>1, <1>2, <1>7, <2>1, RaisesKeeps
<1>8. ~Interrupted(o) \/ o = "questions" => o # "empty"
  BY DEF Interrupted
<1> QED
  BY <1>1, <1>4, <1>5, <1>6, <1>7, <1>8 DEF ConfirmReturns

LEMMA RetryReturnsInv ==
  ASSUME IInv, NEW r \in Requests, NEW o \in Results(r), RunReturns(r, o), ~ByTurn(r),
         turn[r].kind # "confirm"
  PROVE  IInv'
<1> DEFINE u == [turn[r] EXCEPT !.at = "merged", !.answer = (o = "answer"),
                                !.interrupt = IF Interrupted(o) THEN o ELSE "none"]
<1>0. TurnInv(r) /\ turn[r] \in Turns /\ turn \in [Requests -> Turns] /\ TypeOK
  BY Typed DEF IInv
<1>1. turn[r].at = "running" /\ turn[r].kind \in {"stream", "confirmStream", "recommend", "none"}
  BY <1>0, Typed DEF RunReturns, Turns
<1>2. turn[r].kind \notin {"recommend", "none"}
  BY <1>0, <1>1 DEF TurnInv, KindInv, ByTurn
<1>a. turn[r].kind # "stream" /\ ~(turn[r].kind = "confirmStream" /\ turn[r].action = "edit")
  BY <1>0, <1>1 DEF TurnInv, KindInv
<1>3. /\ turn' = [turn EXCEPT ![r] = u] /\ UNCHANGED <<events, stored, memories, nameKnown>>
      /\ held' \in Holders
      /\ thread' \in {"none", "questions", "empty"}
      /\ "empty" \notin Payloads => thread' # "empty"
  BY <1>1, <1>2, <1>a, ResultsFacts DEF RunReturns, Interrupted, Holders
<1>4. u \in Turns
  BY <1>0, ResultsFacts, ZenonT(30) DEF Turns, Interrupted
<1>5. /\ u.at = "merged" /\ u.kind = turn[r].kind /\ u.query = turn[r].query
      /\ u.action = turn[r].action /\ u.status = turn[r].status
      /\ u.awaiting = turn[r].awaiting /\ ("empty" \notin Payloads => u.interrupt # "empty")
  BY <1>0, ResultsFacts DEF Turns, Interrupted
<1>6. events' = [events EXCEPT ![r] = @ \o <<>>]
  <2>1. events \in [Requests -> Seq(Names)]
    BY <1>0 DEF TypeOK, Names
  <2>2. events[r] \o <<>> = events[r]
    BY <2>1, ConcatEmptySeq
  <2> QED
    BY <1>3, <2>1, <2>2
<1> HIDE DEF u
<1> QED
  BY <1>1, <1>a, <1>3, <1>4, <1>5, <1>6, GoesOnKeeps

(* The worker's release touches none of what the invariant is about. *)
LEMMA ReleaseInv ==
  ASSUME IInv, NEW r \in Requests, Release(r) PROVE IInv'
<1>1. UNCHANGED <<turn, events, stored, nameKnown, memories, thread>> /\ held' = NoRequest
  BY DEF Release
<1>2. TypeOK'
  BY <1>1 DEF IInv, TypeOK
<1>3. \A q \in Requests : TurnInv(q)'
  BY <1>1 DEF IInv, TurnInv, OpenInv, KindInv, QuestionsInv, ClosedInv, OutcomeInv, Silent,
     Shown, Says, ByStream, ByTurn, IsStream
<1> QED
  BY <1>1, <1>2, <1>3 DEF IInv, Ordered

LEMMA RunReturnsInv ==
  ASSUME IInv, NEW r \in Requests, NEW o \in Results(r), RunReturns(r, o) PROVE IInv'
BY TurnReturnsInv, ConfirmReturnsInv, RetryReturnsInv

(* A stream in its loop goes on. *)
LEMMA StreamsOn ==
  ASSUME IInv, NEW r \in Requests, NEW x \in {"token", "node", "awaiting", "none"}, NEW u \in Turns,
         turn[r].at = "streaming", turn[r].interrupt = "none", u.at = "streaming",
         u.kind = turn[r].kind, u.query = turn[r].query, u.action = turn[r].action,
         u.status = turn[r].status, u.retries = turn[r].retries,
         turn' = [turn EXCEPT ![r] = u],
         events' = [events EXCEPT ![r] = @ \o (IF x = "none" THEN <<>> ELSE <<x>>)],
         UNCHANGED <<stored, nameKnown, memories, held>>, thread' \in {thread} \cup Payloads,
         u.awaiting => turn[r].awaiting \/ x = "awaiting",
         x = "awaiting" => u.interrupt = "questions",
         u.interrupt = "questions" => u.awaiting,
         "empty" \notin Payloads => u.interrupt # "empty"
  PROVE  IInv'
<1>1. TurnInv(r)
  BY Typed
<1>2. ByStream(r) /\ ~(turn[r].kind = "stream" /\ Shown(r, "awaiting"))
  BY <1>1 DEF TurnInv, KindInv, QuestionsInv
<1>3. u.kind = "stream" => u.retries = 0 /\ (u.at = "running" => ByTurn(r))
  BY <1>1 DEF TurnInv, KindInv
<1>4. u.kind = "confirmStream" /\ u.action = "edit" =>
        u.retries = 0 /\ u.at # "running" /\ (u.interrupt = "questions" => u.awaiting)
  BY <1>1 DEF TurnInv, KindInv
<1>5. u.kind = "stream" /\ (Shown(r, "awaiting") \/ x = "awaiting") =>
        u.interrupt = "questions" /\ u.at \in {"streaming", "merged", "gone"}
  BY <1>2
<1>6. /\ held' \in Holders /\ thread' \in {"none", "questions", "empty"}
      /\ "empty" \notin Payloads => thread' # "empty" /\ u.interrupt # "empty"
  BY Typed
<1>7. x \in (Names \ Closing) \cup {"none"}
  BY DEF Names, Closing
<1>8. turn[r].at \notin {"absent", "ended"} /\ u.at \notin {"absent", "ended"}
  OBVIOUS
<1> QED
  BY <1>2, <1>3, <1>4, <1>5, <1>6, <1>7, <1>8, GoesOnKeeps

LEMMA StreamTokenInv ==
  ASSUME IInv, NEW r \in Requests, StreamToken(r) PROVE IInv'
<1> DEFINE u == [turn[r] EXCEPT !.tokens = TRUE]
<1>0. TurnInv(r) /\ turn[r] \in Turns /\ turn[r].at = "streaming" /\ turn[r].interrupt = "none"
  BY Typed DEF StreamToken
<1>1. /\ u \in Turns /\ u.at = "streaming" /\ u.kind = turn[r].kind /\ u.query = turn[r].query
      /\ u.action = turn[r].action /\ u.status = turn[r].status /\ u.retries = turn[r].retries
      /\ u.awaiting = turn[r].awaiting /\ u.interrupt = turn[r].interrupt
  BY <1>0 DEF Turns
<1>2. /\ turn' = [turn EXCEPT ![r] = u]
      /\ events' = [events EXCEPT ![r] = @ \o <<"token">>]
      /\ UNCHANGED <<stored, nameKnown, memories, held, thread>>
  BY DEF StreamToken, Emit
<1> HIDE DEF u
<1>3. events' = [events EXCEPT ![r] = @ \o (IF "token" = "none" THEN <<>> ELSE <<"token">>)]
  BY <1>2
<1>4. /\ u.interrupt = "questions" => u.awaiting
      /\ "empty" \notin Payloads => u.interrupt # "empty"
  BY <1>0, <1>1
<1> QED
  BY <1>0, <1>1, <1>2, <1>3, <1>4, StreamsOn

LEMMA StreamAnswerInv ==
  ASSUME IInv, NEW r \in Requests, StreamAnswer(r) PROVE IInv'
<1> DEFINE u == [turn[r] EXCEPT !.answer = TRUE]
<1>0. TurnInv(r) /\ turn[r] \in Turns /\ turn[r].at = "streaming" /\ turn[r].interrupt = "none"
  BY Typed DEF StreamAnswer
<1>1. /\ u \in Turns /\ u.at = "streaming" /\ u.kind = turn[r].kind /\ u.query = turn[r].query
      /\ u.action = turn[r].action /\ u.status = turn[r].status /\ u.retries = turn[r].retries
      /\ u.awaiting = turn[r].awaiting /\ u.interrupt = turn[r].interrupt
  BY <1>0 DEF Turns
<1>2. /\ turn' = [turn EXCEPT ![r] = u]
      /\ events' = [events EXCEPT ![r] = @ \o <<"node">>]
      /\ UNCHANGED <<stored, nameKnown, memories, held, thread>>
  BY DEF StreamAnswer, Emit
<1> HIDE DEF u
<1>3. events' = [events EXCEPT ![r] = @ \o (IF "node" = "none" THEN <<>> ELSE <<"node">>)]
  BY <1>2
<1>4. /\ u.interrupt = "questions" => u.awaiting
      /\ "empty" \notin Payloads => u.interrupt # "empty"
  BY <1>0, <1>1
<1> QED
  BY <1>0, <1>1, <1>2, <1>3, <1>4, StreamsOn

LEMMA StreamInterruptInv ==
  ASSUME IInv, NEW r \in Requests, NEW o \in Payloads, StreamInterrupt(r, o) PROVE IInv'
<1> DEFINE u == [turn[r] EXCEPT !.interrupt = o, !.awaiting = (o = "questions")]
           x == IF o = "questions" THEN "awaiting" ELSE "none"
<1>0. /\ TurnInv(r) /\ turn[r] \in Turns /\ turn[r].at = "streaming"
      /\ turn[r].interrupt = "none" /\ o \in {"questions", "empty"}
  BY Typed DEF StreamInterrupt
<1>1. /\ u \in Turns /\ u.at = "streaming" /\ u.kind = turn[r].kind /\ u.query = turn[r].query
      /\ u.action = turn[r].action /\ u.status = turn[r].status /\ u.retries = turn[r].retries
      /\ u.awaiting = (o = "questions") /\ u.interrupt = o
  BY <1>0 DEF Turns
<1>2. /\ turn' = [turn EXCEPT ![r] = u] /\ thread' = o
      /\ UNCHANGED <<stored, nameKnown, memories, held>>
  BY DEF StreamInterrupt, Emit, Merge
<1>3. events' = [events EXCEPT ![r] = @ \o (IF x = "none" THEN <<>> ELSE <<x>>)]
  BY <1>0 DEF StreamInterrupt, Emit
<1>4. x \in {"awaiting", "none"} /\ (x = "awaiting" <=> o = "questions")
  OBVIOUS
<1>5. "empty" \notin Payloads => o # "empty"
  OBVIOUS
<1> HIDE DEF u, x
<1> QED
  BY <1>0, <1>1, <1>2, <1>3, <1>4, <1>5, StreamsOn

(* A step without an event, from a turn under way to one under way *)
LEMMA QuietKeeps ==
  ASSUME IInv, NEW r \in Requests, NEW at \in {"merged", "gone"},
         turn[r].at \in {"accepted", "running", "streaming"},
         turn' = [turn EXCEPT ![r].at = at],
         UNCHANGED <<events, stored, nameKnown, memories>>, held' \in Holders,
         thread' \in {thread, "none"}
  PROVE  IInv'
<1> DEFINE u == [turn[r] EXCEPT !.at = at]
<1>0. TurnInv(r) /\ turn[r] \in Turns /\ turn \in [Requests -> Turns] /\ TypeOK
  BY Typed DEF IInv
<1>1. /\ u \in Turns /\ u.at = at /\ u.kind = turn[r].kind /\ u.query = turn[r].query
      /\ u.action = turn[r].action /\ u.status = turn[r].status /\ u.retries = turn[r].retries
      /\ u.awaiting = turn[r].awaiting /\ u.interrupt = turn[r].interrupt
  BY <1>0 DEF Turns
<1>2. turn' = [turn EXCEPT ![r] = u]
  BY <1>0
<1>3. events' = [events EXCEPT ![r] = @ \o <<>>]
  <2>1. events \in [Requests -> Seq(Names)]
    BY <1>0 DEF TypeOK, Names
  <2>2. events[r] \o <<>> = events[r]
    BY <2>1, ConcatEmptySeq
  <2> QED
    BY <2>1, <2>2
<1> HIDE DEF u
<1>4. /\ thread' \in {"none", "questions", "empty"}
      /\ "empty" \notin Payloads => thread' # "empty" /\ u.interrupt # "empty"
  BY <1>0, <1>1, Typed DEF TurnInv, OutcomeInv
<1>5. /\ u.kind = "stream" =>
           u.retries = 0 /\ u.at # "running" /\ (Shown(r, "awaiting") => u.interrupt = "questions")
      /\ u.kind = "confirmStream" /\ u.action = "edit" =>
           u.retries = 0 /\ u.at # "running" /\ (u.interrupt = "questions" => u.awaiting)
  BY <1>0, <1>1 DEF TurnInv, KindInv, QuestionsInv
<1>6. /\ u.at \in {"merged", "gone"} /\ turn[r].at \notin {"absent", "ended"}
      /\ u.at = "streaming" => ByStream(r)
      /\ UNCHANGED <<stored, memories, nameKnown>> /\ held' \in Holders
  BY <1>1, Typed
<1>7. /\ u.kind = "stream" => u.retries = 0 /\ (u.at = "running" => ByTurn(r))
      /\ u.kind = "stream" /\ (Shown(r, "awaiting") \/ "none" = "awaiting") =>
           u.interrupt = "questions" /\ u.at \in {"streaming", "merged", "gone"}
      /\ u.awaiting => turn[r].awaiting \/ "none" = "awaiting"
      /\ u.at = "streaming" => ByStream(r)
      /\ "none" \in (Names \ Closing) \cup {"none"}
  BY <1>1, <1>5, <1>6
<1>8. events' = [events EXCEPT ![r] = @ \o (IF "none" = "none" THEN <<>> ELSE <<"none">>)]
  BY <1>3
<1>9. u.at \notin {"absent", "ended"}
  BY <1>1
<1> QED
  BY <1>1, <1>2, <1>4, <1>5, <1>6, <1>7, <1>8, <1>9, GoesOnKeeps

(* The text that was generated is stored and "final" is sent. *)
LEMMA ConcludeInv ==
  ASSUME IInv, NEW r \in Requests, turn[r].at = "merged", turn[r].interrupt = "none",
         Conclude(r), UNCHANGED <<nameKnown, held, thread>>
  PROVE  IInv'
<1>1. TurnInv(r)
  BY Typed
<1>2. ~(turn[r].kind = "stream" /\ Shown(r, "awaiting"))
  BY <1>1 DEF TurnInv, QuestionsInv
<1>3. PICK kept \in {stored, StoredOnce(stored, "answer", r)} :
        \/ /\ stored' = kept /\ memories' \in {memories, memories \cup {r}}
           /\ End(r, <<"final">>, "success", turn[r])
        \/ Raises(r, kept, <<>>)
  BY DEF Conclude
<1>4. "final" \in Names /\ "final" \in Closing /\ "final" # "none" /\ "answer" \in Whats
  BY DEF Names, Closing, Whats
<1>5. CASE /\ stored' = kept /\ memories' \in {memories, memories \cup {r}}
           /\ End(r, <<"final">>, "success", turn[r])
  <2>1. Stores(r, "answer")
    BY <1>5, OnceStores
  <2> QED
    BY <1>2, <1>4, <1>5, <2>1, Typed, EndKeeps
<1>6. CASE Raises(r, kept, <<>>)
  BY <1>4, <1>6, Typed, RaisesKeeps
<1> QED
  BY <1>3, <1>5, <1>6

LEMMA FinishStreamInv ==
  ASSUME IInv, NEW r \in Requests, FinishStream(r) PROVE IInv'
<1> DEFINE show == turn[r].interrupt = "questions" /\ ~turn[r].awaiting
           x == IF show THEN "awaiting" ELSE "none"
<1>0. /\ TurnInv(r) /\ turn[r] \in Turns /\ turn[r].at = "merged"
      /\ UNCHANGED <<nameKnown, held, thread>>
  BY Typed DEF FinishStream
<1>1. CASE turn[r].interrupt = "none"
  BY <1>0, <1>1, ConcludeInv DEF FinishStream
<1>2. CASE turn[r].interrupt # "none"
  <2>1. /\ stored' \in {stored, StoredOnce(stored, "ack", r)} /\ memories' = memories
        /\ \/ End(r, IF x = "none" THEN <<>> ELSE <<x>>, "awaiting", turn[r])
           \/ End(r, <<"error">>, "raised", turn[r])
    BY <1>2 DEF FinishStream
  <2>2. "empty" \notin Payloads => x = "awaiting" \/ Shown(r, "awaiting")
    BY <1>0, <1>2 DEF TurnInv, OutcomeInv, QuestionsInv, Turns
  <2>3. /\ x \in Names \cup {"none"} /\ x # "final" /\ "ack" \in Whats
        /\ "error" \in Closing /\ "error" \in Names /\ "error" # "none"
    BY DEF Names, Whats, Canned, Closing
  <2> HIDE DEF x, show
  <2>4. Stores(r, "ack")
    BY <2>1, OnceStores
  <2>5. CASE End(r, IF x = "none" THEN <<>> ELSE <<x>>, "awaiting", turn[r])
    BY <1>0, <2>1, <2>2, <2>3, <2>4, <2>5, Typed, EndKeeps
  <2>6. CASE End(r, <<"error">>, "raised", turn[r])
    <3>1. End(r, IF "error" = "none" THEN <<>> ELSE <<"error">>, "raised", turn[r])
      BY <2>6
    <3> QED
      BY <1>0, <2>1, <2>3, <2>4, <3>1, Typed, EndKeeps
  <2> QED
    BY <2>1, <2>5, <2>6
<1> QED
  BY <1>1, <1>2

LEMMA FinishConfirmInv ==
  ASSUME IInv, NEW r \in Requests, FinishConfirm(r) PROVE IInv'
<1> DEFINE kept == StoredOnce(stored, "ack", r)
           edits == turn[r].interrupt = "questions" /\ turn[r].action = "edit"
<1>0. /\ TurnInv(r) /\ turn[r] \in Turns /\ turn[r].at = "merged"
      /\ turn[r].kind = "confirmStream" /\ UNCHANGED <<nameKnown, held, thread>>
  BY Typed DEF FinishConfirm
<1>1. CASE turn[r].interrupt = "none" /\ Conclude(r)
  BY <1>0, <1>1, ConcludeInv
<1>2. CASE MayRetry(r) /\ Retry(r)
  BY <1>0, <1>2, Typed, RetryInv
<1>3. "ack" \in Whats /\ "error" \in Closing /\ "error" \in Names /\ "error" # "none"
  BY DEF Names, Closing, Whats, Canned
<1>4. CASE edits /\ stored' = kept /\ End(r, <<>>, "awaiting", turn[r]) /\ UNCHANGED memories
  <2>1. Stores(r, "ack")
    BY <1>4, OnceStores
  <2>2. Shown(r, "awaiting")
    BY <1>0, <1>4 DEF TurnInv, KindInv, QuestionsInv
  <2>3. End(r, IF "none" = "none" THEN <<>> ELSE <<"none">>, "awaiting", turn[r])
    BY <1>4
  <2> QED
    BY <1>0, <1>3, <1>4, <2>1, <2>2, <2>3, Typed, EndKeeps
<1>5. CASE Raises(r, kept, <<>>) \/ Raises(r, stored, <<>>)
  BY <1>0, <1>3, <1>5, Typed, RaisesKeeps
<1>6. CASE End(r, <<"error">>, "failed", turn[r]) /\ UNCHANGED <<stored, memories>>
  <2>1. Stores(r, "ack")
    BY <1>6, OnceStores
  <2>2. End(r, IF "error" = "none" THEN <<>> ELSE <<"error">>, "failed", turn[r])
    BY <1>6
  <2> QED
    BY <1>0, <1>3, <1>6, <2>1, <2>2, Typed, EndKeeps
<1>7. edits => turn[r].awaiting
  BY <1>0 DEF TurnInv, KindInv
<1> QED
  BY <1>1, <1>2, <1>4, <1>5, <1>6, <1>7 DEF FinishConfirm

-----------------------------------------------------------------------------
(* The theorems *)

LEMMA InitInv == Init => IInv
<1> SUFFICES ASSUME Init PROVE IInv
  OBVIOUS
<1>1. TypeOK
  <2>1. stored \in Seq(Messages) /\ Len(stored) <= MaxMessages
    BY TurnAssumption DEF Init
  <2>2. events \in [Requests -> Seq(Closing \cup {"meta", "node", "token", "awaiting"})]
    BY DEF Init
  <2>3. turn \in [Requests -> Turns]
    BY NoTurnTyped DEF Init
  <2> QED
    BY <2>1, <2>2, <2>3 DEF Init, TypeOK, Turns
<1>2. \A r \in Requests : TurnInv(r)
  BY DEF Init, TurnInv, OpenInv, KindInv, QuestionsInv, ClosedInv, OutcomeInv, Silent,
     Without, Shown, Says, NoTurn
<1> QED
  BY <1>1, <1>2 DEF Init, IInv, Ordered

LEMMA NextInv == IInv /\ [Next]_vars => IInv'
<1> SUFFICES ASSUME IInv, [Next]_vars PROVE IInv'
  OBVIOUS
<1>1. ASSUME NEW r \in Requests, Arrive(r) PROVE IInv'
  BY <1>1, RefuseInv, AcceptInv, AcceptRaisesInv, ConfirmInv DEF Arrive
<1>2. ASSUME NEW r \in Requests, Run(r) PROVE IInv'
  BY <1>2, StartInv, StartRefusedInv, AnswerFromMemoryInv, RunReturnsInv, RunStopsInv DEF Run
<1>3. ASSUME NEW r \in Requests, StreamEnds(r) PROVE IInv'
  BY <1>3, Typed, QuietKeeps DEF StreamEnds
<1>4. ASSUME NEW r \in Requests, Stream(r) PROVE IInv'
  BY <1>3, <1>4, StreamTokenInv, StreamAnswerInv, StreamInterruptInv, FinishStreamInv,
     FinishConfirmInv DEF Stream
<1>5. ASSUME NEW r \in Requests, Disconnect(r) PROVE IInv'
  BY <1>5, Typed, QuietKeeps DEF Disconnect, LeftBehind, Holders
<1>6. CASE UNCHANGED vars
  <2>1. TypeOK'
    BY <1>6 DEF IInv, TypeOK, vars
  <2>2. \A r \in Requests : TurnInv(r)'
    BY <1>6 DEF IInv, TurnInv, OpenInv, KindInv, QuestionsInv, ClosedInv, OutcomeInv, Silent,
       Shown, Says, ByStream, ByTurn, IsStream, vars
  <2> QED
    BY <1>6, <2>1, <2>2 DEF IInv, Ordered, vars
<1> QED
  BY <1>1, <1>2, <1>4, <1>5, <1>6, ReleaseInv DEF Next

LEMMA SpecInv == Spec => []IInv
BY InitInv, NextInv, PTL DEF Spec

(***************************************************************************)
(* No answer is stored of a run that was refused, stopped or failed, and   *)
(* no memory of a turn that did not succeed, though every write of the     *)
(* session may raise after it has changed the session in memory            *)
(* (routes.py, recommend_orchestrator.py, session_store.py).               *)
(***************************************************************************)
THEOREM FailedRunsKeptOut == Spec => []FailedRunsLeaveNothing
<1>1. IInv => FailedRunsLeaveNothing
  BY DEF IInv, TurnInv, OpenInv, FailedRunsLeaveNothing
<1> QED
  BY <1>1, SpecInv, PTL

(***************************************************************************)
(* A closing event is the last one, and a /recommend/stream that has shown *)
(* the questions of its interrupt sends no "final" (routes.py event_gen).  *)
(***************************************************************************)
THEOREM ClosingIsLast == Spec => []NothingAfterClosing
<1>1. IInv => NothingAfterClosing
  BY DEF IInv, TurnInv, ClosedInv, NothingAfterClosing
<1> QED
  BY <1>1, SpecInv, PTL

(***************************************************************************)
(* However requests interleave on a session and whatever is dropped from   *)
(* its messages, the answer of a request follows its question and neither  *)
(* is stored twice (_append_session_messages).                             *)
(***************************************************************************)
THEOREM QuestionsBeforeAnswers == Spec => []AnswersFollowQuestions
<1>1. IInv => AnswersFollowQuestions
  BY DEF IInv, Ordered, AnswersFollowQuestions
<1> QED
  BY <1>1, SpecInv, PTL

(***************************************************************************)
(* As long as an interrupt carries sub-questions, as those of              *)
(* human_confirmation_node do, every turn that ends has told its client:   *)
(* a closing event or reply is its last, or the questions were shown.      *)
(***************************************************************************)
THEOREM OutcomesAreTold ==
  ASSUME "empty" \notin Payloads
  PROVE  Spec => []EndsWithOutcome
<1>1. IInv => EndsWithOutcome
  BY DEF IInv, TurnInv, OutcomeInv, EndsWithOutcome, Shown
<1> QED
  BY <1>1, SpecInv, PTL
=============================================================================
