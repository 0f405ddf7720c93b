---------------------------- MODULE StoresProofs ----------------------------
(***************************************************************************)
(* Proofs about what is kept between two requests: the stores of knowledge *)
(* (KnowledgeIndex), those of the conversations (ConversationStores) and    *)
(* the row of a recommendation (RecommendTask).                             *)
(* A source that was indexed stays whole and the mirror only lags, for any  *)
(* files, versions and numbers of chunks; what was acknowledged survives    *)
(* and the freshest memories are kept, for any sessions, values and bounds; *)
(* and every row is canonical, whichever transaction wrote it last, for any *)
(* streams and confirms.                                                    *)
(***************************************************************************)
EXTENDS KnowledgeIndex, ConversationStores, RecommendTask, FiniteSetTheorems, SequenceTheorems, TLAPS

-----------------------------------------------------------------------------
(* KnowledgeIndex: the inductive invariant *)

Writing == {"parents", "children", "mirror", "stale", "unmirror", "staleParents",
            "transfer", "drop", "dropParents"}

(* All chunks of the version v of p are there under an id, each with a parent. *)
Whole(d, p, v) ==
  \A i \in 1 .. Pieces[v] : chroma[<<d, i>>] = Record(p, v) /\ parents[<<d, i>>] # Absent
Holds(p) == \E d \in Ids, v \in Versions : Whole(d, p, v)

(* What a job has done when it is at a place. *)
JobInv ==
  /\ job.at \in Writing => job.version \in Versions /\ job.id[1] = Named[job.path]
  /\ job.at = "children" =>
       \A i \in 1 .. Pieces[job.version] : parents[<<job.id, i>>] # Absent
  /\ job.at \in Writing \ {"parents", "children"} => Whole(job.id, job.path, job.version)
  /\ job.at = "drop" =>
       \A s \in StaleIds(chroma, job.id, job.path, job.version) : mirror[s] = Absent
  /\ job.at = "prune" => \A s \in Keys : chroma[s] # Absent => mirror[s] = chroma[s]
  /\ job.refresh \/ job.native \/ job.at \in {"files", "stale"} => job.kind = "startup"
  /\ job.kind = "sync" => job.at \in {"copy", "prune", "synced"}

(* A record is kept under an id with the name of its path. *)
Homed(store) == \A s \in Keys : store[s] # Absent => s[1][1] = Named[store[s].path]

(* A source stays whole until another one of its name comes. *)
Alone(p) == Twins(p) \cap PathsIn(chroma) = {}
Indexed == \A p \in PathsIn(chroma) : Alone(p) => Holds(p)

IndexInv ==
  /\ IndexTypeOK
  /\ source[Samples] \in Versions
  /\ Homed(chroma) /\ Homed(parents)
  /\ Indexed
  /\ JobInv

(* What is said of each step *)
Kept == \A p \in PathsIn(chroma) : Alone(p)' => p \in PathsIn(chroma')

Lags ==
  /\ ~(Orphans' \subseteq Orphans) => At("stale") /\ job.kind = "startup"
  /\ job.kind = "sync" => Exact \subseteq Exact'
  /\ At("prune") /\ job'.at = "synced" => mirror' = chroma'

-----------------------------------------------------------------------------
(* The stores *)

LEMMA Constants ==
  /\ Samples \in Paths /\ Samples \notin Files
  /\ \A k \in DOMAIN Order : Order[k] \in Files /\ Order[k] \in Paths
  /\ 0 \notin Versions /\ Versions \subseteq Nat
  /\ \A v \in Versions : Pieces[v] \in Nat \ {0} /\ 1 .. Pieces[v] \subseteq Slots
  /\ Slots \subseteq Nat /\ Most \in Nat
<1>1. Samples \in Paths /\ Samples \notin Files
  BY IndexAssumption DEF Paths
<1>2. \A k \in DOMAIN Order : Order[k] \in Files /\ Order[k] \in Paths
  BY DEF Files, Paths
<1>3. 0 \notin Versions /\ Versions \subseteq Nat /\ Most \in Nat /\ Slots \subseteq Nat
  BY IndexAssumption DEF Slots
<1>4. ASSUME NEW v \in Versions PROVE Pieces[v] \in Nat \ {0} /\ 1 .. Pieces[v] \subseteq Slots
  <2>1. Pieces[v] \in Nat \ {0} /\ Pieces[v] <= Most
    BY IndexAssumption
  <2> QED
    BY <1>3, <2>1 DEF Slots
<1> QED
  BY <1>1, <1>2, <1>3, <1>4

LEMMA OwnIds == \A p \in Paths : Own(p) \in Ids /\ Own(p)[1] = Named[p]
<1> SUFFICES ASSUME NEW p \in Paths PROVE Own(p) \in Ids /\ Own(p)[1] = Named[p]
  OBVIOUS
<1>1. {} \in SUBSET Twins(p) /\ 1 + Cardinality({}) = 1
  BY FS_EmptySet
<1>2. Own(p) \in {<<Named[p], 1 + Cardinality(named)>> : named \in SUBSET Twins(p)}
  BY <1>1 DEF Own
<1>3. Own(p) \in Ids
  BY <1>2 DEF Ids
<1> QED
  BY <1>3 DEF Own

LEMMA KeyShape ==
  /\ \A s \in Keys : s[1] \in Ids /\ s[2] \in Slots /\ s = <<s[1], s[2]>>
  /\ \A d \in Ids, i \in Slots : <<d, i>> \in Keys /\ <<d, i>>[1] = d /\ <<d, i>>[2] = i
BY DEF Keys

LEMMA RecordShape ==
  ASSUME NEW p \in Paths, NEW v \in Versions
  PROVE  /\ Record(p, v) \in Records /\ Record(p, v) # Absent
         /\ Record(p, v).path = p /\ Record(p, v).version = v
<1>1. /\ Record(p, v).path = p /\ Record(p, v).version = v /\ Absent.version = 0
      /\ Record(p, v) \in Records
  BY DEF Record, Absent, Records
<1>2. v # 0
  BY Constants
<1> QED
  BY <1>1, <1>2

LEMMA PathsInOf ==
  ASSUME NEW store, NEW p
  PROVE  p \in PathsIn(store) <=> \E s \in Keys : store[s] # Absent /\ store[s].path = p
BY DEF PathsIn

LEMMA PathsOf ==
  ASSUME NEW store \in Stores
  PROVE  /\ \A s \in Keys : store[s] # Absent =>
              store[s].path \in Paths /\ store[s].version \in Versions
         /\ PathsIn(store) \subseteq Paths
<1>1. \A s \in Keys : store[s] \in Records
  BY DEF Stores
<1>2. ASSUME NEW s \in Keys, store[s] # Absent
      PROVE  store[s].path \in Paths /\ store[s].version \in Versions
  <2>1. PICK p \in Paths, v \in Versions : store[s] = Record(p, v)
    BY <1>1, <1>2 DEF Records
  <2> QED
    BY <2>1, RecordShape
<1> QED
  BY <1>2, PathsInOf

LEMMA WrittenStore ==
  ASSUME NEW s \in Stores, NEW d \in Ids, NEW p \in Paths, NEW v \in Versions
  PROVE  /\ Written(s, d, p, v) \in Stores
         /\ \A k \in Keys : Written(s, d, p, v)[k] =
              IF k[1] = d /\ k[2] <= Pieces[v] THEN Record(p, v) ELSE s[k]
BY RecordShape DEF Written, Stores

LEMMA RemovedStore ==
  ASSUME NEW s \in Stores, NEW keys
  PROVE  /\ Removed(s, keys) \in Stores
         /\ \A k \in Keys : Removed(s, keys)[k] = IF k \in keys THEN Absent ELSE s[k]
BY DEF Removed, Stores, Records

LEMMA WrittenHomed ==
  ASSUME NEW s \in Stores, NEW d \in Ids, NEW p \in Paths, NEW v \in Versions,
         Homed(s), d[1] = Named[p]
  PROVE  Homed(Written(s, d, p, v))
BY WrittenStore, RecordShape DEF Homed

LEMMA RemovedHomed ==
  ASSUME NEW s \in Stores, NEW keys, Homed(s) PROVE Homed(Removed(s, keys))
BY RemovedStore DEF Homed

LEMMA PartlyStore ==
  ASSUME NEW s \in Stores, NEW t \in Stores, NEW u \in PartOf(s, t)
  PROVE  u \in Stores /\ \A k \in Keys : u[k] \in {s[k], t[k]}
<1>1. PICK done \in SUBSET Keys : u = [k \in Keys |-> IF k \in done THEN t[k] ELSE s[k]]
  BY DEF PartOf
<1>2. \A k \in Keys : u[k] \in {s[k], t[k]}
  BY <1>1
<1>3. \A k \in Keys : u[k] \in Records
  BY <1>2 DEF Stores
<1>4. u \in Stores
  BY <1>1, <1>3 DEF Stores
<1> QED
  BY <1>2, <1>4

LEMMA MirroredStore ==
  ASSUME IndexTypeOK, NEW t \in Stores, Mirrored(t)
  PROVE  /\ mirror' \in Stores /\ breaker' \in BOOLEAN
         /\ \A k \in Keys : mirror'[k] \in {mirror[k], t[k]}
<1>1. mirror \in Stores /\ breaker \in BOOLEAN
  BY DEF IndexTypeOK
<1>2. CASE mirror' \in {mirror, t} /\ breaker' = breaker
  BY <1>1, <1>2
<1>3. CASE mirror' \in PartOf(mirror, t) /\ breaker' = TRUE
  BY <1>1, <1>3, PartlyStore
<1> QED
  BY <1>2, <1>3 DEF Mirrored

LEMMA SameStore ==
  ASSUME NEW s \in Stores, NEW t \in Stores, \A k \in Keys : s[k] = t[k]
  PROVE  s = t
BY DEF Stores

-----------------------------------------------------------------------------
(* Steps that write no collection of texts *)

LEMMA QuietKeeps ==
  ASSUME IndexInv, UNCHANGED <<chroma, parents, mirror>>,
         IndexTypeOK', source'[Samples] \in Versions, JobInv',
         ~(At("prune") /\ job'.at = "synced")
  PROVE  IndexInv' /\ Kept /\ Lags
<1>1. PathsIn(chroma') = PathsIn(chroma) /\ Homed(chroma') /\ Homed(parents')
  BY DEF IndexInv, PathsIn, Homed
<1>2. \A p : (Alone(p)' <=> Alone(p)) /\ (Holds(p)' <=> Holds(p))
  BY <1>1 DEF Alone, Holds, Whole
<1>3. Orphans' = Orphans /\ Exact' = Exact
  BY DEF Orphans, Exact
<1> QED
  BY <1>1, <1>2, <1>3 DEF IndexInv, Indexed, Kept, Lags

LEMMA IdleJob == Idle \in Jobs
BY Constants, OwnIds DEF Idle, Jobs

LEMMA NextFileJob ==
  ASSUME IndexInv, job.kind # "sync"
  PROVE  /\ NextFile \in Jobs /\ NextFile.at \in {"files", "idle"}
         /\ NextFile.kind # "sync"
         /\ NextFile.refresh \/ NextFile.native \/ NextFile.at = "files" =>
              NextFile.kind = "startup"
<1>1. job \in Jobs
  BY DEF IndexInv, IndexTypeOK
<1>2. CASE job.kind = "startup"
  BY <1>1, <1>2, IdleJob DEF NextFile, Jobs, Idle
<1>3. CASE job.kind # "startup"
  BY <1>3, IdleJob DEF NextFile, Idle
<1> QED
  BY <1>2, <1>3

(* A job that is at none of the places of JobInv. *)
LEMMA RestingJob ==
  ASSUME job'.at \notin Writing, job'.at # "prune",
         job'.refresh \/ job'.native \/ job'.at = "files" => job'.kind = "startup",
         job'.kind = "sync" => job'.at \in {"copy", "synced"}
  PROVE  JobInv'
BY DEF JobInv, Writing

LEMMA StartServerKeeps ==
  ASSUME IndexInv, StartServer PROVE IndexInv' /\ Kept /\ Lags
<1>1. /\ job'.at = "files" /\ job'.kind = "startup" /\ job' \in Jobs /\ job = Idle
  BY IdleJob DEF StartServer, Idle, Jobs
<1>2. JobInv'
  BY <1>1, RestingJob DEF Writing
<1>3. IndexTypeOK' /\ source'[Samples] \in Versions
  BY <1>1 DEF StartServer, IndexInv, IndexTypeOK
<1> QED
  BY <1>1, <1>2, <1>3, QuietKeeps DEF StartServer

LEMMA InitializeDbKeeps ==
  ASSUME IndexInv, InitializeDb PROVE IndexInv' /\ Kept /\ Lags
<1>1. /\ job'.at = "parents" /\ job'.kind = "samples" /\ job' \in Jobs
      /\ ~job'.refresh /\ ~job'.native /\ job'.version \in Versions
      /\ job'.id[1] = Named[job'.path]
  BY IdleJob, Constants, OwnIds DEF InitializeDb, Idle, Jobs, IndexInv
<1>2. JobInv'
  BY <1>1 DEF JobInv, Writing
<1>3. IndexTypeOK' /\ source'[Samples] \in Versions
  BY <1>1 DEF InitializeDb, IndexInv, IndexTypeOK
<1> QED
  BY <1>1, <1>2, <1>3, QuietKeeps DEF InitializeDb

LEMMA RechunkKeeps ==
  ASSUME IndexInv, NEW p \in Paths, Rechunk(p) PROVE IndexInv' /\ Kept /\ Lags
<1>0. source[p] \in Versions
  BY DEF Rechunk, IndexInv, IndexTypeOK
<1>1. /\ job'.at = "parents" /\ job'.kind = "rechunk" /\ job' \in Jobs
      /\ ~job'.refresh /\ ~job'.native /\ job'.version \in Versions
      /\ job'.id[1] = Named[job'.path]
  BY <1>0, IdleJob, OwnIds DEF Rechunk, Idle, Jobs
<1>2. JobInv'
  BY <1>1 DEF JobInv, Writing
<1>3. IndexTypeOK' /\ source'[Samples] \in Versions
  BY <1>1 DEF Rechunk, IndexInv, IndexTypeOK
<1> QED
  BY <1>1, <1>2, <1>3, QuietKeeps DEF Rechunk

LEMMA SynchronizeKeeps ==
  ASSUME IndexInv, Synchronize PROVE IndexInv' /\ Kept /\ Lags
<1>1. job'.at = "copy" /\ job'.kind = "sync" /\ job' \in Jobs /\ ~job'.refresh /\ ~job'.native
  BY IdleJob DEF Synchronize, Idle, Jobs
<1>2. JobInv'
  BY <1>1, RestingJob DEF Writing
<1>3. IndexTypeOK' /\ source'[Samples] \in Versions
  BY <1>1 DEF Synchronize, IndexInv, IndexTypeOK
<1> QED
  BY <1>1, <1>2, <1>3, QuietKeeps DEF Synchronize

LEMMA IngestKeeps ==
  ASSUME IndexInv, IngestNext PROVE IndexInv' /\ Kept /\ Lags
<1>0. /\ job \in Jobs /\ job.at = "files" /\ job.kind = "startup"
      /\ source \in [Paths -> Versions \cup {0}] /\ chroma \in Stores /\ images \in [Ids -> Rows]
  BY DEF IngestNext, At, IndexInv, IndexTypeOK, JobInv
<1>1. PICK k \in job.todo :
        LET p == Order[k]
        IN  IF p \in Images THEN NextImage(k, p) ELSE NextText(k, p) /\ UNCHANGED images
  BY DEF IngestNext
<1> DEFINE p == Order[k]
           Taken == /\ job' \in Jobs /\ images' \in [Ids -> Rows]
                    /\ job'.at \in {"files", "native", "parents"} /\ job'.kind = "startup"
                    /\ job'.at = "parents" =>
                         job'.version \in Versions /\ job'.id[1] = Named[job'.path]
<1>2. p \in Paths /\ k \in DOMAIN Order
  BY <1>0, <1>1, Constants DEF Jobs
<1> HIDE DEF p
<1>a. source[p] \in Versions \cup {0}
  BY <1>0, <1>2
<1>b. \A id \in FreeIds(p) : id \in Ids /\ id[1] = Named[p]
  BY DEF FreeIds
<1>3. ASSUME NextText(k, p), UNCHANGED images PROVE Taken
  <2>1. PICK id \in FreeIds(p) :
        \/ job' = [job EXCEPT !.todo = @ \ {k}]
        \/ /\ job' = [job EXCEPT !.todo = @ \ {k}, !.used = @ \cup {id}, !.at = "parents",
                        !.path = p, !.id = id, !.version = source[p]]
           /\ source[p] # 0
    BY <1>3 DEF NextText
  <2>2. CASE job' = [job EXCEPT !.todo = @ \ {k}]
    BY <1>0, <1>3, <2>2 DEF Jobs
  <2>3. CASE /\ job' = [job EXCEPT !.todo = @ \ {k}, !.used = @ \cup {id}, !.at = "parents",
                           !.path = p, !.id = id, !.version = source[p]]
             /\ source[p] # 0
    <3>1. job' \in Jobs
      BY <1>0, <1>2, <1>a, <1>b, <2>3, ZenonT(30) DEF Jobs
    <3>2. /\ job'.at = "parents" /\ job'.kind = "startup" /\ job'.version \in Versions
          /\ job'.id[1] = Named[job'.path]
      BY <1>0, <1>a, <1>b, <2>3 DEF Jobs
    <3> QED
      BY <1>0, <1>3, <3>1, <3>2
  <2> QED
    BY <2>1, <2>2, <2>3
<1>4. ASSUME NextImage(k, p) PROVE Taken
  <2> DEFINE
        Versioned(found) == {0} \cup {chroma[s].version : s \in found}
        Outcome(id, used, text, refresh, read, native, cleared) ==
          /\ images' = [d \in Ids |-> IF cleared /\ images[d].path = p THEN NoRow ELSE images[d]]
          /\ job' = [job EXCEPT !.todo = @ \ {k}, !.used = IF used THEN @ \cup {id} ELSE @,
                       !.path = p, !.id = id, !.refresh = refresh /\ read,
                       !.version = IF read THEN source[p] ELSE 0,
                       !.native = native, !.caption = IF read THEN source[p] ELSE text,
                       !.at = IF read THEN "parents" ELSE IF native THEN "native" ELSE "files"]
  <2>1. \A found \in Lookups(p) : Versioned(found) \subseteq Versions \cup {0}
    BY <1>0, PathsOf DEF Lookups, Present
  <2> DEFINE Due(found, refresh) == found = {} \/ refresh
             Refreshes(found) == {found # {} /\ source[p] \notin {0, sha} : sha \in Versioned(found)}
             Content(text, read) == IF read THEN source[p] ELSE text
             Current(shown, text, read) ==
               /\ shown # NoRow /\ shown.pixels = source[p]
               /\ text \in {0, shown.caption} /\ Content(text, read) \in {0, shown.caption}
             Blocked(found, shown, refresh, read) == shown # NoRow /\ Due(found, refresh) /\ ~read
  <2>2. PICK found \in Lookups(p), shown \in {NoRow} \cup RowsOf(p), id \in FreeIds(p) :
          \E text \in Versioned(found), refresh \in Refreshes(found) :
          \E read \in {FALSE, Due(found, refresh) /\ source[p] # 0} :
          \E cleared \in {FALSE, Blocked(found, shown, refresh, read)} :
            Outcome(id,
                    /\ Due(found, refresh) \/ ~Current(shown, text, read)
                    /\ Content(text, read) # 0 \/ ~(Current(shown, text, read) \/ cleared),
                    text, refresh, read,
                    ~Current(shown, text, read) /\ ~Blocked(found, shown, refresh, read), cleared)
    BY <1>4 DEF NextImage
  <2>3. PICK text \in Versioned(found), refresh \in Refreshes(found) :
          \E read \in {FALSE, Due(found, refresh) /\ source[p] # 0} :
          \E cleared \in {FALSE, Blocked(found, shown, refresh, read)} :
            Outcome(id,
                    /\ Due(found, refresh) \/ ~Current(shown, text, read)
                    /\ Content(text, read) # 0 \/ ~(Current(shown, text, read) \/ cleared),
                    text, refresh, read,
                    ~Current(shown, text, read) /\ ~Blocked(found, shown, refresh, read), cleared)
    BY <2>2
  <2>4. PICK read \in {FALSE, Due(found, refresh) /\ source[p] # 0} :
          \E cleared \in {FALSE, Blocked(found, shown, refresh, read)} :
            Outcome(id,
                    /\ Due(found, refresh) \/ ~Current(shown, text, read)
                    /\ Content(text, read) # 0 \/ ~(Current(shown, text, read) \/ cleared),
                    text, refresh, read,
                    ~Current(shown, text, read) /\ ~Blocked(found, shown, refresh, read), cleared)
    BY <2>3
  <2>5. PICK cleared \in {FALSE, Blocked(found, shown, refresh, read)} :
            Outcome(id,
                    /\ Due(found, refresh) \/ ~Current(shown, text, read)
                    /\ Content(text, read) # 0 \/ ~(Current(shown, text, read) \/ cleared),
                    text, refresh, read,
                    ~Current(shown, text, read) /\ ~Blocked(found, shown, refresh, read), cleared)
    BY <2>4
  <2> DEFINE used == /\ Due(found, refresh) \/ ~Current(shown, text, read)
                     /\ Content(text, read) # 0 \/ ~(Current(shown, text, read) \/ cleared)
             native == ~Current(shown, text, read) /\ ~Blocked(found, shown, refresh, read)
  <2>6. /\ Outcome(id, used, text, refresh, read, native, cleared)
        /\ id \in FreeIds(p) /\ text \in Versions \cup {0}
        /\ used \in BOOLEAN /\ native \in BOOLEAN /\ refresh \in BOOLEAN
        /\ read \in BOOLEAN /\ (read => source[p] # 0)
    <3>1. used \in BOOLEAN /\ native \in BOOLEAN
      OBVIOUS
    <3>2. refresh \in BOOLEAN /\ read \in BOOLEAN /\ (read => source[p] # 0)
      BY <2>3, <2>4
    <3>3. text \in Versions \cup {0} /\ id \in FreeIds(p)
      BY <2>1, <2>2, <2>3
    <3>4. Outcome(id, used, text, refresh, read, native, cleared)
      BY <2>5
    <3> QED
      BY <3>1, <3>2, <3>3, <3>4
  <2> HIDE DEF used, native, Versioned, Refreshes, Due, Content, Current, Blocked
  <2> DEFINE version == IF read THEN source[p] ELSE 0
             place == IF read THEN "parents" ELSE IF native THEN "native" ELSE "files"
             caption == IF read THEN source[p] ELSE text
             uses == IF used THEN job.used \cup {id} ELSE job.used
  <2>7. /\ version \in Versions \cup {0} /\ caption \in Versions \cup {0}
        /\ place \in {"files", "native", "parents"} /\ (refresh /\ read) \in BOOLEAN
        /\ place = "parents" => version \in Versions
    BY <1>a, <2>6
  <2>8. id \in Ids /\ id[1] = Named[p] /\ uses \in SUBSET Ids
    BY <1>0, <1>b, <2>6 DEF Jobs
  <2>9. job' = [job EXCEPT !.todo = @ \ {k}, !.used = uses, !.path = p, !.id = id,
                  !.refresh = refresh /\ read, !.version = version, !.native = native,
                  !.caption = caption, !.at = place]
    BY <1>0, <2>6 DEF Jobs
  <2>10. text \in Versions \cup {0} /\ native \in BOOLEAN
    BY <2>6
  <2>11. images' \in [Ids -> Rows]
    <3>1. NoRow \in Rows
      BY Constants DEF NoRow, Rows
    <3> QED
      BY <1>0, <2>6, <3>1
  <2> HIDE DEF version, place, caption, uses
  <2>12. job' \in Jobs
    BY <1>0, <1>2, <2>10, <2>7, <2>8, <2>9, ZenonT(30) DEF Jobs
  <2>13. /\ job'.at = place /\ job'.kind = "startup" /\ job'.version = version
        /\ job'.id = id /\ job'.path = p
    BY <1>0, <2>9 DEF Jobs
  <2> QED
    BY <2>7, <2>8, <2>11, <2>12, <2>13
<1>5. Taken
  <2>1. NextImage(k, p) \/ (NextText(k, p) /\ UNCHANGED images)
    BY <1>1 DEF p
  <2> QED
    BY <1>3, <1>4, <2>1
<1>6. JobInv'
  BY <1>5 DEF JobInv, Writing
<1>7. UNCHANGED <<source, chroma, parents, mirror, breaker>>
  BY DEF IngestNext
<1>8. IndexTypeOK' /\ source'[Samples] \in Versions
  BY <1>5, <1>7 DEF IndexInv, IndexTypeOK
<1> QED
  BY <1>0, <1>6, <1>7, <1>8, QuietKeeps DEF At

LEMMA IndexImageKeeps ==
  ASSUME IndexInv, IndexImage PROVE IndexInv' /\ Kept /\ Lags
<1>0. job \in Jobs /\ job.at = "native" /\ job.kind # "sync"
  BY DEF IndexImage, At, IndexInv, IndexTypeOK, JobInv
<1>1. job' = NextFile /\ UNCHANGED <<source, chroma, parents, mirror, breaker>>
  BY DEF IndexImage
<1>2. images' \in [Ids -> Rows]
  BY <1>0 DEF IndexImage, IndexInv, IndexTypeOK, Jobs, Rows
<1>3. JobInv'
  BY <1>0, <1>1, NextFileJob, RestingJob DEF Writing
<1>4. IndexTypeOK' /\ source'[Samples] \in Versions
  BY <1>0, <1>1, <1>2, NextFileJob DEF IndexInv, IndexTypeOK
<1> QED
  BY <1>0, <1>1, <1>3, <1>4, QuietKeeps DEF At

LEMMA WriteFailsKeeps ==
  ASSUME IndexInv, WriteFails PROVE IndexInv' /\ Kept /\ Lags
<1>0. /\ job \in Jobs /\ job.at \notin {"copy", "prune", "synced"} /\ job.kind # "sync"
      /\ job.native => job.kind = "startup"
      /\ job.refresh => job.kind = "startup"
  BY DEF WriteFails, IndexInv, IndexTypeOK, JobInv
<1>1. UNCHANGED <<source, chroma, parents, mirror, images, breaker>>
  BY DEF WriteFails
<1>2. CASE job' = NextFile
  <2>1. JobInv' /\ job' \in Jobs
    BY <1>0, <1>2, NextFileJob, RestingJob DEF Writing
  <2>2. IndexTypeOK' /\ source'[Samples] \in Versions
    BY <1>1, <2>1 DEF IndexInv, IndexTypeOK
  <2> QED
    BY <1>0, <1>1, <2>1, <2>2, QuietKeeps DEF At
<1>3. CASE job' = [job EXCEPT !.at = "native"] /\ job.native
  <2>1. job' \in Jobs /\ job'.at = "native" /\ job'.kind = "startup"
    BY <1>0, <1>3 DEF Jobs
  <2>2. JobInv'
    BY <2>1, RestingJob DEF Writing
  <2>3. IndexTypeOK' /\ source'[Samples] \in Versions
    BY <1>1, <2>1 DEF IndexInv, IndexTypeOK
  <2> QED
    BY <1>0, <1>1, <2>2, <2>3, QuietKeeps DEF At
<1> QED
  BY <1>2, <1>3 DEF WriteFails

(* The jobs that end: a synchronization, and every one when the process dies. *)
LEMMA EndKeeps ==
  ASSUME IndexInv, Synced \/ Die PROVE IndexInv' /\ Kept /\ Lags
<1>1. /\ job' = Idle /\ breaker' \in {breaker, FALSE}
      /\ UNCHANGED <<source, chroma, parents, mirror, images>>
  BY DEF Synced, Die
<1>2. job' \in Jobs /\ job'.at = "idle" /\ job'.kind = "none" /\ ~job'.refresh /\ ~job'.native
  BY <1>1, IdleJob DEF Idle
<1>3. JobInv'
  BY <1>2, RestingJob DEF Writing
<1>4. IndexTypeOK' /\ source'[Samples] \in Versions
  BY <1>1, <1>2 DEF IndexInv, IndexTypeOK
<1> QED
  BY <1>1, <1>2, <1>3, <1>4, QuietKeeps

LEMMA SurroundingsKeep ==
  ASSUME IndexInv, BreakerCloses \/ \E p \in Paths : Edit(p) PROVE IndexInv' /\ Kept /\ Lags
<1>1. /\ UNCHANGED <<chroma, parents, mirror, images, job>> /\ breaker' \in {breaker, FALSE}
      /\ source' = source \/ \E p \in Files, v \in Versions \cup {0} :
                               source' = [source EXCEPT ![p] = v]
  BY DEF BreakerCloses, Edit
<1>2. source' \in [Paths -> Versions \cup {0}] /\ source'[Samples] \in Versions
  BY <1>1, Constants DEF IndexInv, IndexTypeOK, Paths
<1>3. JobInv'
  BY <1>1 DEF IndexInv, JobInv, Whole, StaleIds, Present
<1>4. IndexTypeOK'
  BY <1>1, <1>2 DEF IndexInv, IndexTypeOK
<1>5. ~(At("prune") /\ job'.at = "synced")
  BY <1>1 DEF At
<1> QED
  BY <1>1, <1>2, <1>3, <1>4, <1>5, QuietKeeps

-----------------------------------------------------------------------------
(* The writes of a document *)

LEMMA Facts ==
  ASSUME IndexInv
  PROVE  /\ job \in Jobs /\ job.path \in Paths /\ job.id \in Ids /\ source[Samples] \in Versions
         /\ chroma \in Stores /\ parents \in Stores /\ mirror \in Stores
         /\ job.at \in Writing =>
              /\ job.version \in Versions /\ job.id[1] = Named[job.path]
              /\ 1 .. Pieces[job.version] \subseteq Slots
              /\ Pieces[job.version] \in Nat
              /\ job.kind # "sync"
BY Constants DEF IndexInv, IndexTypeOK, Jobs, JobInv, Writing

(* The job goes on to a place of its own. *)
LEMMA GoneOn ==
  ASSUME IndexInv, NEW place \in {"children", "mirror", "unmirror", "staleParents", "transfer",
                              "drop", "dropParents", "prune", "synced"},
         Go(place)
  PROVE  /\ job' \in Jobs /\ job'.at = place /\ job'.kind = job.kind
         /\ job'.path = job.path /\ job'.id = job.id /\ job'.version = job.version
         /\ job'.refresh = job.refresh /\ job'.native = job.native
BY Facts DEF Go, Jobs

(* One source has a whole version, and only ids of its name were written. *)
LEMMA WritesKeep ==
  ASSUME IndexInv, NEW p \in Paths, NEW d \in Ids, NEW v \in Versions,
         d[1] = Named[p], Whole(d, p, v)',
         chroma' \in Stores, parents' \in Stores, Homed(chroma'),
         \A s \in Keys : s[1][1] # Named[p] => chroma'[s] = chroma[s] /\ parents'[s] = parents[s]
  PROVE  Indexed' /\ Kept
<1>1. p \in PathsIn(chroma')
  <2>1. 1 \in 1 .. Pieces[v] /\ 1 \in Slots
    BY Constants
  <2>2. <<d, 1>> \in Keys /\ chroma'[<<d, 1>>] = Record(p, v)
    BY <2>1, KeyShape DEF Whole
  <2> QED
    BY <2>2, RecordShape, PathsInOf
<1>2. \A q \in Twins(p) : ~Alone(q)'
  <2>1. \A q \in Twins(p) : p \in Twins(q)
    BY DEF Twins
  <2> QED
    BY <1>1, <2>1 DEF Alone
<1>3. \A q \in Paths : Named[q] # Named[p] => (q \in PathsIn(chroma') <=> q \in PathsIn(chroma))
  BY PathsInOf DEF IndexInv, Homed
<1>4. ASSUME NEW q \in Paths, Named[q] # Named[p] PROVE Alone(q)' <=> Alone(q)
  <2>1. \A r \in Twins(q) : r \in Paths /\ Named[r] # Named[p]
    BY <1>4 DEF Twins
  <2> QED
    BY <1>3, <2>1 DEF Alone
<1>5. ASSUME NEW q \in Paths, Named[q] # Named[p], Holds(q) PROVE Holds(q)'
  <2>1. PICK e \in Ids, w \in Versions : Whole(e, q, w)
    BY <1>5 DEF Holds
  <2>2. 1 .. Pieces[w] \subseteq Slots /\ 1 \in 1 .. Pieces[w]
    BY Constants
  <2>3. \A i \in 1 .. Pieces[w] : <<e, i>> \in Keys /\ <<e, i>>[1] = e
    BY <2>2, KeyShape
  <2>4. e[1] = Named[q]
    <3> DEFINE s == <<e, 1>>
    <3>1. s \in Keys /\ s[1] = e /\ chroma[s] = Record(q, w)
      BY <2>1, <2>2, <2>3 DEF Whole
    <3> HIDE DEF s
    <3> QED
      BY <3>1, RecordShape DEF IndexInv, Homed
  <2>5. Whole(e, q, w)'
    BY <1>5, <2>1, <2>3, <2>4 DEF Whole
  <2> QED
    BY <2>5 DEF Holds
<1>6. Holds(p)'
  BY DEF Holds
<1>7. PathsIn(chroma) \subseteq Paths /\ PathsIn(chroma') \subseteq Paths
  BY PathsOf DEF IndexInv, IndexTypeOK
<1>8. \A q \in Paths : q = p \/ q \in Twins(p) \/ Named[q] # Named[p]
  BY DEF Twins
<1>9. ASSUME NEW q \in PathsIn(chroma'), Alone(q)' PROVE Holds(q)'
  <2>1. CASE q = p
    BY <1>6, <2>1
  <2>2. CASE Named[q] # Named[p]
    BY <1>3, <1>4, <1>5, <1>7, <1>9, <2>2 DEF IndexInv, Indexed
  <2> QED
    BY <1>2, <1>7, <1>8, <1>9, <2>1, <2>2
<1>10. Kept
  BY <1>1, <1>2, <1>3, <1>7, <1>8 DEF Kept
<1> QED
  BY <1>9, <1>10 DEF Indexed

LEMMA WriteParentsKeeps ==
  ASSUME IndexInv, WriteParents PROVE IndexInv' /\ Kept /\ Lags
<1>p. PICK p \in Paths, d \in Ids, v \in Versions : p = job.path /\ d = job.id /\ v = job.version
  BY Facts DEF WriteParents, At, Writing
<1>0. /\ job.at = "parents" /\ parents' = Written(parents, d, p, v) /\ Go("children")
      /\ UNCHANGED <<source, chroma, mirror, images, breaker>>
  BY <1>p DEF WriteParents, At
<1>1. 1 .. Pieces[v] \subseteq Slots /\ Pieces[v] \in Nat /\ job.kind # "sync" /\ d[1] = Named[p]
  BY <1>0, <1>p, Facts DEF Writing
<1>2. /\ parents' \in Stores
      /\ \A k \in Keys : parents'[k] =
           IF k[1] = d /\ k[2] <= Pieces[v] THEN Record(p, v) ELSE parents[k]
  BY <1>0, Facts, WrittenStore, SMTT(30)
<1>3. /\ job' \in Jobs /\ job'.at = "children" /\ job'.kind = job.kind /\ job'.path = p
      /\ job'.id = d /\ job'.version = v /\ job'.refresh = job.refresh
      /\ job'.native = job.native
  BY <1>0, <1>p, GoneOn
<1>4. IndexTypeOK' /\ source'[Samples] \in Versions
  BY <1>0, <1>2, <1>3 DEF IndexInv, IndexTypeOK
<1>5. Homed(chroma') /\ Homed(parents')
  BY <1>0, <1>1, Facts, WrittenHomed DEF IndexInv
<1>6. \A k \in Keys : parents[k] # Absent => parents'[k] # Absent
  BY <1>2, RecordShape
<1>7. Indexed' /\ Kept
  <2>1. \A e \in Ids, w \in Versions : \A i \in 1 .. Pieces[w] : <<e, i>> \in Keys
    BY Constants, KeyShape
  <2>2. \A q \in Paths : Holds(q) => Holds(q)'
    BY <1>0, <1>6, <2>1 DEF Holds, Whole
  <2>3. PathsIn(chroma') = PathsIn(chroma) /\ PathsIn(chroma) \subseteq Paths
    BY <1>0, Facts, PathsOf
  <2>4. \A q : Alone(q)' <=> Alone(q)
    BY <2>3 DEF Alone
  <2> QED
    BY <2>2, <2>3, <2>4 DEF IndexInv, Indexed, Kept
<1>8. JobInv'
  <2>1. \A i \in 1 .. Pieces[v] : parents'[<<d, i>>] # Absent
    BY <1>1, <1>2, KeyShape, RecordShape
  <2> QED
    BY <1>1, <1>3, <2>1 DEF IndexInv, JobInv, Writing
<1>9. Lags
  BY <1>0, <1>1 DEF Lags, Orphans, Exact, At
<1> QED
  BY <1>4, <1>5, <1>7, <1>8, <1>9 DEF IndexInv

LEMMA WriteChildrenKeeps ==
  ASSUME IndexInv, WriteChildren PROVE IndexInv' /\ Kept /\ Lags
<1>p. PICK p \in Paths, d \in Ids, v \in Versions : p = job.path /\ d = job.id /\ v = job.version
  BY Facts DEF WriteChildren, At, Writing
<1> DEFINE place == IF job.kind = "rechunk" THEN "transfer" ELSE "mirror"
<1>0. /\ job.at = "children" /\ chroma' = Written(chroma, d, p, v) /\ Go(place)
      /\ UNCHANGED <<source, parents, mirror, images, breaker>>
  BY <1>p DEF WriteChildren, At
<1>1. 1 .. Pieces[v] \subseteq Slots /\ job.kind # "sync" /\ d[1] = Named[p] /\ Pieces[v] \in Nat
  BY <1>0, <1>p, Facts DEF Writing
<1>2. /\ chroma' \in Stores
      /\ \A k \in Keys : chroma'[k] =
           IF k[1] = d /\ k[2] <= Pieces[v] THEN Record(p, v) ELSE chroma[k]
  BY <1>0, Facts, WrittenStore, SMTT(30)
<1>3. /\ job' \in Jobs /\ job'.at \in {"transfer", "mirror"} /\ job'.kind = job.kind
      /\ job'.path = p /\ job'.id = d /\ job'.version = v /\ job'.refresh = job.refresh
      /\ job'.native = job.native
  BY <1>0, <1>p, GoneOn
<1>4. \A i \in 1 .. Pieces[v] : parents[<<d, i>>] # Absent
  BY <1>0, <1>p DEF IndexInv, JobInv
<1> HIDE DEF place
<1>5. IndexTypeOK' /\ source'[Samples] \in Versions
  BY <1>0, <1>2, <1>3 DEF IndexInv, IndexTypeOK
<1>6. Homed(chroma') /\ Homed(parents')
  BY <1>0, <1>1, Facts, WrittenHomed DEF IndexInv
<1>7. Whole(d, p, v)'
  <2>1. \A i \in 1 .. Pieces[v] : chroma'[<<d, i>>] = Record(p, v)
    BY <1>1, <1>2, KeyShape
  <2> QED
    BY <1>0, <1>4, <2>1 DEF Whole
<1>8. Indexed' /\ Kept
  <2>1. \A s \in Keys : s[1][1] # Named[p] => chroma'[s] = chroma[s] /\ parents'[s] = parents[s]
    BY <1>0, <1>1, <1>2
  <2>2. parents' \in Stores
    BY <1>0, Facts
  <2> QED
    BY <1>1, <1>2, <1>6, <1>7, <2>1, <2>2, WritesKeep
<1>9. JobInv'
  BY <1>1, <1>3, <1>7 DEF IndexInv, JobInv, Writing
<1>10. Lags
  <2>1. Orphans' \subseteq Orphans
    BY <1>0, <1>2, RecordShape DEF Orphans
  <2>2. job.at # "prune"
    BY <1>0
  <2> QED
    BY <1>1, <2>1, <2>2 DEF Lags, At
<1> QED
  BY <1>5, <1>6, <1>8, <1>9, <1>10 DEF IndexInv

(* Steps that write only the mirror *)
LEMMA MirrorKeeps ==
  ASSUME IndexInv, UNCHANGED <<source, chroma, parents, images>>, breaker' \in BOOLEAN,
         mirror' \in Stores, job' \in Jobs, JobInv',
         \A s \in Keys :
           mirror'[s] \in {mirror[s], chroma[s], Absent},
         job.kind = "sync" =>
           \A s \in Keys : chroma[s] # Absent /\ mirror[s] = chroma[s] =>
             mirror'[s] = chroma[s],
         At("prune") /\ job'.at = "synced" => mirror' = chroma'
  PROVE  IndexInv' /\ Kept /\ Lags
<1>1. IndexTypeOK' /\ source'[Samples] \in Versions
  BY DEF IndexInv, IndexTypeOK
<1>2. PathsIn(chroma') = PathsIn(chroma) /\ Homed(chroma') /\ Homed(parents')
  BY DEF IndexInv, PathsIn, Homed
<1>a. \A p : (Alone(p)' <=> Alone(p)) /\ (Holds(p)' <=> Holds(p))
  BY <1>2 DEF Alone, Holds, Whole
<1>3. Indexed' /\ Kept
  BY <1>2, <1>a DEF IndexInv, Indexed, Kept
<1>4. Orphans' \subseteq Orphans
  BY DEF Orphans
<1>5. job.kind = "sync" => Exact \subseteq Exact'
  BY DEF Exact
<1> QED
  BY <1>1, <1>2, <1>3, <1>4, <1>5 DEF IndexInv, Lags

LEMMA WholeAt ==
  ASSUME NEW d \in Ids, NEW p \in Paths, NEW v \in Versions, Whole(d, p, v)
  PROVE  \A s \in Keys : s[1] = d /\ s[2] <= Pieces[v] => chroma[s] = Record(p, v)
<1> SUFFICES ASSUME NEW s \in Keys, s[1] = d, s[2] <= Pieces[v] PROVE chroma[s] = Record(p, v)
  OBVIOUS
<1>1. s[2] \in 1 .. Pieces[v]
  BY KeyShape, Constants DEF Slots
<1>2. s = <<d, s[2]>>
  BY KeyShape
<1>3. chroma[<<d, s[2]>>] = Record(p, v)
  BY <1>1 DEF Whole
<1> QED
  BY <1>2, <1>3

LEMMA MirrorChunksKeeps ==
  ASSUME IndexInv, MirrorChunks PROVE IndexInv' /\ Kept /\ Lags
<1>p. PICK p \in Paths, d \in Ids, v \in Versions : p = job.path /\ d = job.id /\ v = job.version
  BY Facts DEF MirrorChunks, At, Writing
<1> DEFINE to == Written(mirror, d, p, v)
<1>0. /\ job.at = "mirror" /\ Mirrored(to) /\ UNCHANGED <<source, chroma, parents, images>>
      /\ job' = IF job.refresh THEN [job EXCEPT !.at = "stale"]
                ELSE IF job.native THEN [job EXCEPT !.at = "native"] ELSE NextFile
  BY <1>p DEF MirrorChunks, At
<1>1. /\ 1 .. Pieces[v] \subseteq Slots /\ job.kind # "sync"
      /\ Whole(d, p, v) /\ job \in Jobs /\ Pieces[v] \in Nat /\ d[1] = Named[p]
      /\ job.refresh \/ job.native => job.kind = "startup"
  BY <1>0, <1>p, Facts DEF Writing, IndexInv, JobInv
<1>2. /\ to \in Stores
      /\ \A s \in Keys : to[s] =
           IF s[1] = d /\ s[2] <= Pieces[v] THEN Record(p, v) ELSE mirror[s]
  BY <1>1, Facts, WrittenStore, SMTT(30)
<1> HIDE DEF to
<1>3. /\ mirror' \in Stores /\ breaker' \in BOOLEAN
      /\ \A s \in Keys : mirror'[s] \in {mirror[s], to[s]}
  BY <1>0, <1>2, MirroredStore DEF IndexInv
<1>4. \A s \in Keys : s[1] = d /\ s[2] <= Pieces[v] => chroma[s] = Record(p, v)
  BY <1>1, WholeAt
<1>5. \A s \in Keys : mirror'[s] \in {mirror[s], chroma[s], Absent}
  BY <1>2, <1>3, <1>4
<1>6. job' \in Jobs /\ JobInv' /\ job'.at # "synced"
  <2>1. CASE job.refresh
    <3>1. /\ job' \in Jobs /\ job'.at = "stale" /\ job'.kind = "startup" /\ job'.path = p /\ job'.id = d
          /\ job'.version = v
      BY <1>0, <1>1, <1>p, <2>1 DEF Jobs
    <3>2. Whole(d, p, v)'
      BY <1>0, <1>1 DEF Whole
    <3> QED
      BY <1>1, <3>1, <3>2 DEF JobInv, Writing
  <2>2. CASE ~job.refresh /\ job.native
    <3>1. job' \in Jobs /\ job'.at = "native" /\ job'.kind = "startup"
      BY <1>0, <1>1, <2>2 DEF Jobs
    <3> QED
      BY <3>1, RestingJob DEF Writing
  <2>3. CASE ~job.refresh /\ ~job.native
    BY <1>0, <1>1, <2>3, NextFileJob, RestingJob DEF Writing
  <2> QED
    BY <2>1, <2>2, <2>3
<1> QED
  BY <1>0, <1>1, <1>3, <1>5, <1>6, MirrorKeeps

LEMMA MirrorDeletionsKeeps ==
  ASSUME IndexInv, MirrorDeletions PROVE IndexInv' /\ Kept /\ Lags
<1> DEFINE to == Removed(mirror, job.stale)
<1>0. /\ job.at = "unmirror" /\ Go("staleParents")
      /\ UNCHANGED <<source, chroma, parents, images>>
      /\ (UNCHANGED <<mirror, breaker>>) \/ Mirrored(to)
  BY DEF MirrorDeletions, At
<1>1. /\ job.kind # "sync" /\ Whole(job.id, job.path, job.version) /\ job.version \in Versions
      /\ job.id[1] = Named[job.path] /\ job.path \in Paths /\ mirror \in Stores /\ breaker \in BOOLEAN
  BY <1>0, Facts DEF Writing, IndexInv, JobInv, IndexTypeOK
<1>2. /\ to \in Stores
      /\ \A s \in Keys : to[s] \in {mirror[s], Absent}
  BY <1>1, RemovedStore
<1> HIDE DEF to
<1>3. /\ mirror' \in Stores /\ breaker' \in BOOLEAN
      /\ \A s \in Keys : mirror'[s] \in {mirror[s], to[s]}
  BY <1>0, <1>1, <1>2, MirroredStore DEF IndexInv
<1>4. \A s \in Keys : mirror'[s] \in {mirror[s], chroma[s], Absent}
  BY <1>2, <1>3
<1>5. /\ job' \in Jobs /\ job'.at = "staleParents" /\ job'.kind = job.kind
      /\ job'.path = job.path /\ job'.id = job.id /\ job'.version = job.version
      /\ job'.refresh = job.refresh /\ job'.native = job.native
  BY <1>0, GoneOn
<1>6. Whole(job.id, job.path, job.version)'
  BY <1>0, <1>1, <1>5 DEF Whole
<1>7. JobInv'
  BY <1>1, <1>5, <1>6 DEF IndexInv, JobInv, Writing
<1> QED
  BY <1>0, <1>1, <1>3, <1>4, <1>5, <1>7, MirrorKeeps

(* What is removed of a source lies beyond its version's chunks. *)
LEMMA RemovalKeepsWhole ==
  ASSUME IndexInv, NEW d \in Ids, NEW p \in Paths, NEW v \in Versions, Whole(d, p, v),
         d[1] = Named[p], NEW ids, NEW jds,
         ids \subseteq StaleIds(chroma, d, p, v), jds \subseteq StaleIds(parents, d, p, v),
         chroma' = Removed(chroma, ids), parents' = Removed(parents, jds)
  PROVE  /\ Indexed' /\ Kept /\ Whole(d, p, v)'
         /\ chroma' \in Stores /\ parents' \in Stores
         /\ Homed(chroma') /\ Homed(parents')
<1>1. /\ chroma' \in Stores /\ parents' \in Stores
      /\ \A s \in Keys : chroma'[s] = IF s \in ids THEN Absent ELSE chroma[s]
      /\ \A s \in Keys : parents'[s] = IF s \in jds THEN Absent ELSE parents[s]
  BY Facts, RemovedStore
<1>2. 1 .. Pieces[v] \subseteq Slots /\ Pieces[v] \in Nat
  BY Constants
<1>3. \A i \in 1 .. Pieces[v] : <<d, i>> \in Keys /\ <<d, i>> \notin ids \cup jds
  <2> SUFFICES ASSUME NEW i \in 1 .. Pieces[v] PROVE <<d, i>> \in Keys /\ <<d, i>> \notin ids \cup jds
    OBVIOUS
  <2>1. <<d, i>> \in Keys /\ <<d, i>>[1] = d /\ <<d, i>>[2] = i
    BY <1>2, KeyShape
  <2>2. ~(i > Pieces[v])
    BY <1>2
  <2> QED
    BY <2>1, <2>2 DEF StaleIds
<1>4. Whole(d, p, v)'
  BY <1>1, <1>3 DEF Whole
<1>5. Homed(chroma') /\ Homed(parents')
  BY Facts, RemovedHomed DEF IndexInv
<1>6. \A s \in Keys : s[1][1] # Named[p] => chroma'[s] = chroma[s] /\ parents'[s] = parents[s]
  BY <1>1 DEF IndexInv, Homed, StaleIds, Present
<1>7. Indexed' /\ Kept
  BY <1>1, <1>4, <1>5, <1>6, WritesKeep
<1> QED
  BY <1>1, <1>4, <1>5, <1>7

LEMMA NoneRemoved ==
  ASSUME NEW s \in Stores PROVE Removed(s, {}) = s
<1>1. Removed(s, {}) \in Stores /\ \A k \in Keys : Removed(s, {})[k] = s[k]
  BY RemovedStore
<1> QED
  BY <1>1, SameStore

LEMMA DropStaleKeeps ==
  ASSUME IndexInv, DropStale PROVE IndexInv' /\ Kept /\ Lags
<1>p. PICK p \in Paths, d \in Ids, v \in Versions : p = job.path /\ d = job.id /\ v = job.version
  BY Facts DEF DropStale, At, Writing
<1>0. /\ job.at = "stale" /\ job.kind = "startup" /\ Whole(d, p, v) /\ job \in Jobs
      /\ d[1] = Named[p]
      /\ UNCHANGED <<source, parents, mirror, images, breaker>>
  BY <1>p, Facts DEF DropStale, At, IndexInv, JobInv, Writing
<1>1. PICK ids \in {{}, StaleIds(chroma, d, p, v)} :
        /\ chroma' = Removed(chroma, ids)
        /\ job' = [job EXCEPT !.at = "unmirror", !.stale = ids]
  BY <1>p DEF DropStale
<1>2. ids \subseteq Keys /\ ids \subseteq StaleIds(chroma, d, p, v)
  BY <1>1 DEF StaleIds, Present
<1>3. parents' = Removed(parents, {})
  BY <1>0, Facts, NoneRemoved
<1>4. /\ Indexed' /\ Kept /\ Whole(d, p, v)' /\ chroma' \in Stores /\ parents' \in Stores
      /\ Homed(chroma') /\ Homed(parents')
  BY <1>0, <1>1, <1>2, <1>3, RemovalKeepsWhole
<1>5. /\ job' \in Jobs /\ job'.at = "unmirror" /\ job'.kind = "startup" /\ job'.path = p /\ job'.id = d
      /\ job'.version = v
  BY <1>0, <1>1, <1>2, <1>p DEF Jobs
<1>6. JobInv'
  BY <1>0, <1>4, <1>5, <1>p, Facts DEF JobInv, Writing
<1>7. IndexTypeOK' /\ source'[Samples] \in Versions
  BY <1>0, <1>4, <1>5 DEF IndexInv, IndexTypeOK
<1>8. Lags
  BY <1>0 DEF Lags, At
<1> QED
  BY <1>4, <1>6, <1>7, <1>8 DEF IndexInv

LEMMA DropStaleParentsKeeps ==
  ASSUME IndexInv, DropStaleParents PROVE IndexInv' /\ Kept /\ Lags
<1>p. PICK p \in Paths, d \in Ids, v \in Versions : p = job.path /\ d = job.id /\ v = job.version
  BY Facts DEF DropStaleParents, At, Writing
<1>0. /\ job.at = "staleParents" /\ job.kind # "sync" /\ Whole(d, p, v) /\ job \in Jobs
      /\ (job.refresh \/ job.native => job.kind = "startup") /\ d[1] = Named[p]
      /\ UNCHANGED <<source, chroma, mirror, images, breaker>>
  BY <1>p, Facts DEF DropStaleParents, At, IndexInv, JobInv, Writing
<1>1. PICK ids \in {{}, StaleIds(parents, d, p, v)} : parents' = Removed(parents, ids)
  BY <1>p DEF DropStaleParents
<1>2. ids \subseteq StaleIds(parents, d, p, v)
  BY <1>1
<1>3. chroma' = Removed(chroma, {})
  BY <1>0, Facts, NoneRemoved
<1>4. /\ Indexed' /\ Kept /\ chroma' \in Stores /\ parents' \in Stores
      /\ Homed(chroma') /\ Homed(parents')
  BY <1>0, <1>1, <1>2, <1>3, RemovalKeepsWhole
<1>5. job' \in Jobs /\ JobInv'
  <2>1. CASE job.native
    <3>1. job' \in Jobs /\ job'.at = "native" /\ job'.kind = "startup"
      BY <1>0, <2>1 DEF DropStaleParents, Jobs
    <3> QED
      BY <3>1, RestingJob DEF Writing
  <2>2. CASE ~job.native
    BY <1>0, <2>2, NextFileJob, RestingJob DEF DropStaleParents, Writing
  <2> QED
    BY <2>1, <2>2
<1>6. IndexTypeOK' /\ source'[Samples] \in Versions
  BY <1>0, <1>4, <1>5 DEF IndexInv, IndexTypeOK
<1>7. Lags
  BY <1>0 DEF Lags, At, Orphans, Exact
<1> QED
  BY <1>4, <1>5, <1>6, <1>7 DEF IndexInv

LEMMA TransferKeeps ==
  ASSUME IndexInv, Transfer PROVE IndexInv' /\ Kept /\ Lags
<1>p. PICK p \in Paths, d \in Ids, v \in Versions : p = job.path /\ d = job.id /\ v = job.version
  BY Facts DEF Transfer, At, Writing
<1> DEFINE written == Written(mirror, d, p, v)
           to == Removed(written, StaleIds(chroma, d, p, v))
<1>0. /\ job.at = "transfer" /\ job.kind # "sync" /\ Whole(d, p, v) /\ job \in Jobs
      /\ d[1] = Named[p]
      /\ \/ mirror' = to /\ Go("drop")
         \/ mirror' \in PartOf(mirror, to) /\ job' = Idle
      /\ UNCHANGED <<source, chroma, parents, images, breaker>>
  BY <1>p, Facts DEF Transfer, At, IndexInv, JobInv, Writing
<1>1. /\ written \in Stores
      /\ \A s \in Keys : written[s] =
           IF s[1] = d /\ s[2] <= Pieces[v] THEN Record(p, v) ELSE mirror[s]
  BY Facts, WrittenStore, SMTT(30)
<1> HIDE DEF written
<1>2. /\ to \in Stores
      /\ \A s \in Keys : to[s] =
           IF s \in StaleIds(chroma, d, p, v) THEN Absent ELSE written[s]
  BY <1>1, RemovedStore
<1> HIDE DEF to
<1>3. \A s \in Keys : s[1] = d /\ s[2] <= Pieces[v] => chroma[s] = Record(p, v)
  BY <1>0, WholeAt
<1>4. \A s \in Keys : to[s] \in {mirror[s], chroma[s], Absent}
  BY <1>1, <1>2, <1>3
<1>5. mirror' \in Stores /\ \A s \in Keys : mirror'[s] \in {mirror[s], to[s]}
  BY <1>0, <1>2, Facts, PartlyStore
<1>6. \A s \in Keys : mirror'[s] \in {mirror[s], chroma[s], Absent}
  BY <1>4, <1>5
<1>7. job' \in Jobs /\ job'.at # "synced" /\ JobInv'
  <2>1. CASE mirror' = to /\ Go("drop")
    <3>1. /\ job' \in Jobs /\ job'.at = "drop" /\ job'.kind = job.kind
          /\ job'.path = p /\ job'.id = d /\ job'.version = v /\ job'.refresh = job.refresh
          /\ job'.native = job.native
      BY <1>p, <2>1, GoneOn
    <3>2. \A s \in StaleIds(chroma', d, p, v) : mirror'[s] = Absent
      BY <1>0, <1>2, <2>1 DEF StaleIds, Present
    <3>3. Whole(d, p, v)'
      BY <1>0 DEF Whole
    <3> QED
      BY <1>0, <3>1, <3>2, <3>3 DEF IndexInv, JobInv, Writing
  <2>2. CASE job' = Idle
    <3>1. job' \in Jobs /\ job'.at = "idle" /\ ~job'.refresh /\ ~job'.native /\ job'.kind = "none"
      BY <2>2, IdleJob DEF Idle
    <3> QED
      BY <3>1, RestingJob DEF Writing
  <2> QED
    BY <1>0, <2>1, <2>2
<1>8. breaker' \in BOOLEAN
  BY <1>0 DEF IndexInv, IndexTypeOK
<1> QED
  BY <1>0, <1>5, <1>6, <1>7, <1>8, MirrorKeeps

LEMMA DropOldKeeps ==
  ASSUME IndexInv, DropOld PROVE IndexInv' /\ Kept /\ Lags
<1>p. PICK p \in Paths, d \in Ids, v \in Versions : p = job.path /\ d = job.id /\ v = job.version
  BY Facts DEF DropOld, At, Writing
<1> DEFINE ids == StaleIds(chroma, d, p, v)
<1>0. /\ job.at = "drop" /\ job.kind # "sync" /\ Whole(d, p, v)
      /\ chroma' = Removed(chroma, ids) /\ Go("dropParents")
      /\ (\A s \in ids : mirror[s] = Absent) /\ d[1] = Named[p]
      /\ UNCHANGED <<source, parents, mirror, images, breaker>>
  BY <1>p, Facts DEF DropOld, At, IndexInv, JobInv, Writing
<1>1. ids \subseteq StaleIds(chroma, d, p, v)
  OBVIOUS
<1> HIDE DEF ids
<1>2. parents' = Removed(parents, {})
  BY <1>0, Facts, NoneRemoved
<1>3. /\ Indexed' /\ Kept /\ Whole(d, p, v)' /\ chroma' \in Stores /\ parents' \in Stores
      /\ Homed(chroma') /\ Homed(parents')
  BY <1>0, <1>1, <1>2, RemovalKeepsWhole
<1>4. /\ job' \in Jobs /\ job'.at = "dropParents" /\ job'.kind = job.kind
      /\ job'.path = p /\ job'.id = d /\ job'.version = v /\ job'.refresh = job.refresh
      /\ job'.native = job.native
  BY <1>0, <1>p, GoneOn
<1>5. JobInv'
  BY <1>0, <1>3, <1>4 DEF IndexInv, JobInv, Writing
<1>6. IndexTypeOK' /\ source'[Samples] \in Versions
  BY <1>0, <1>3, <1>4 DEF IndexInv, IndexTypeOK
<1>7. \A s \in Keys : chroma'[s] = IF s \in ids THEN Absent ELSE chroma[s]
  BY <1>0, Facts, RemovedStore
<1>8. Orphans' \subseteq Orphans
  BY <1>0, <1>7 DEF Orphans
<1>9. Lags
  BY <1>0, <1>8 DEF Lags, At
<1> QED
  BY <1>3, <1>5, <1>6, <1>9 DEF IndexInv

LEMMA DropOldParentsKeeps ==
  ASSUME IndexInv, DropOldParents PROVE IndexInv' /\ Kept /\ Lags
<1>p. PICK p \in Paths, d \in Ids, v \in Versions : p = job.path /\ d = job.id /\ v = job.version
  BY Facts DEF DropOldParents, At, Writing
<1> DEFINE ids == StaleIds(parents, d, p, v)
<1>0. /\ job.at = "dropParents" /\ job.kind # "sync" /\ Whole(d, p, v) /\ d[1] = Named[p]
      /\ parents' = Removed(parents, ids) /\ job' = Idle
      /\ UNCHANGED <<source, chroma, mirror, images, breaker>>
  BY <1>p, Facts DEF DropOldParents, At, IndexInv, JobInv, Writing
<1>1. ids \subseteq StaleIds(parents, d, p, v)
  OBVIOUS
<1> HIDE DEF ids
<1>2. chroma' = Removed(chroma, {})
  BY <1>0, Facts, NoneRemoved
<1>3. /\ Indexed' /\ Kept /\ chroma' \in Stores /\ parents' \in Stores
      /\ Homed(chroma') /\ Homed(parents')
  BY <1>0, <1>1, <1>2, RemovalKeepsWhole
<1>4. job' \in Jobs /\ job'.at = "idle" /\ ~job'.refresh /\ ~job'.native /\ job'.kind = "none"
  BY <1>0, IdleJob DEF Idle
<1>5. JobInv'
  BY <1>4, RestingJob DEF Writing
<1>6. IndexTypeOK' /\ source'[Samples] \in Versions
  BY <1>0, <1>3, <1>4 DEF IndexInv, IndexTypeOK
<1>7. Lags
  BY <1>0 DEF Lags, At, Orphans
<1> QED
  BY <1>3, <1>5, <1>6, <1>7 DEF IndexInv

-----------------------------------------------------------------------------
(* The synchronization *)

LEMMA CopyAllKeeps ==
  ASSUME IndexInv, CopyAll PROVE IndexInv' /\ Kept /\ Lags
<1> DEFINE to == [s \in Keys |-> IF chroma[s] # Absent THEN chroma[s] ELSE mirror[s]]
<1>0. /\ job.at = "copy" /\ UNCHANGED <<source, chroma, parents, images, breaker>>
      /\ \/ mirror' = to /\ Go("prune")
         \/ mirror' \in PartOf(mirror, to) /\ job' = Idle
  BY DEF CopyAll, At
<1>1. /\ to \in Stores
      /\ \A s \in Keys : to[s] =
           IF chroma[s] # Absent THEN chroma[s] ELSE mirror[s]
  BY Facts DEF Stores
<1> HIDE DEF to
<1>2. mirror' \in Stores /\ \A s \in Keys : mirror'[s] \in {mirror[s], to[s]}
  BY <1>0, <1>1, Facts, PartlyStore
<1>3. \A s \in Keys : mirror'[s] \in {mirror[s], chroma[s], Absent}
  BY <1>1, <1>2
<1>4. \A s \in Keys : chroma[s] # Absent /\ mirror[s] = chroma[s] =>
        mirror'[s] = chroma[s]
  BY <1>1, <1>2
<1>5. job' \in Jobs /\ JobInv' /\ job'.at # "synced"
  <2>1. CASE mirror' = to /\ Go("prune")
    <3>1. /\ job' \in Jobs /\ job'.at = "prune" /\ job'.kind = job.kind
          /\ job'.refresh = job.refresh /\ job'.native = job.native
      BY <2>1, GoneOn
    <3>2. \A s \in Keys : chroma'[s] # Absent => mirror'[s] = chroma'[s]
      BY <1>0, <1>1, <2>1
    <3> QED
      BY <3>1, <3>2 DEF IndexInv, JobInv, Writing
  <2>2. CASE job' = Idle
    <3>1. job' \in Jobs /\ job'.at = "idle" /\ ~job'.refresh /\ ~job'.native /\ job'.kind = "none"
      BY <2>2, IdleJob DEF Idle
    <3> QED
      BY <3>1, RestingJob DEF Writing
  <2> QED
    BY <1>0, <2>1, <2>2
<1>6. breaker' \in BOOLEAN
  BY <1>0 DEF IndexInv, IndexTypeOK
<1> QED
  BY <1>0, <1>2, <1>3, <1>4, <1>5, <1>6, MirrorKeeps

LEMMA PruneKeeps ==
  ASSUME IndexInv, Prune PROVE IndexInv' /\ Kept /\ Lags
<1> DEFINE to == [s \in Keys |-> IF chroma[s] # Absent THEN mirror[s] ELSE Absent]
<1>0. /\ job.at = "prune" /\ UNCHANGED <<source, chroma, parents, images, breaker>>
      /\ \/ mirror' = to /\ Go("synced")
         \/ mirror' \in PartOf(mirror, to) /\ job' = Idle
  BY DEF Prune, At
<1>1. /\ to \in Stores
      /\ \A s \in Keys : to[s] = IF chroma[s] # Absent THEN mirror[s] ELSE Absent
  BY Facts DEF Stores, Records
<1> HIDE DEF to
<1>2. mirror' \in Stores /\ \A s \in Keys : mirror'[s] \in {mirror[s], to[s]}
  BY <1>0, <1>1, Facts, PartlyStore
<1>3. \A s \in Keys : mirror'[s] \in {mirror[s], chroma[s], Absent}
  BY <1>1, <1>2
<1>4. \A s \in Keys : chroma[s] # Absent /\ mirror[s] = chroma[s] =>
        mirror'[s] = chroma[s]
  BY <1>1, <1>2
<1>5. job' \in Jobs /\ JobInv' /\ (job'.at = "synced" => mirror' = chroma')
  <2>1. CASE mirror' = to /\ Go("synced")
    <3>1. /\ job' \in Jobs /\ job'.at = "synced" /\ job'.kind = job.kind
          /\ job'.refresh = job.refresh /\ job'.native = job.native
      BY <2>1, GoneOn
    <3>2. \A s \in Keys : chroma[s] # Absent => mirror[s] = chroma[s]
      BY <1>0 DEF IndexInv, JobInv
    <3>3. \A s \in Keys : to[s] = chroma[s]
      BY <1>1, <3>2
    <3>4. to = chroma
      BY <1>1, <3>3, Facts, SameStore
    <3>5. JobInv'
      BY <3>1 DEF IndexInv, JobInv, Writing
    <3> QED
      BY <1>0, <2>1, <3>1, <3>4, <3>5
  <2>2. CASE job' = Idle
    <3>1. job' \in Jobs /\ job'.at = "idle" /\ ~job'.refresh /\ ~job'.native /\ job'.kind = "none"
      BY <2>2, IdleJob DEF Idle
    <3> QED
      BY <3>1, RestingJob DEF Writing
  <2> QED
    BY <1>0, <2>1, <2>2
<1>6. breaker' \in BOOLEAN
  BY <1>0 DEF IndexInv, IndexTypeOK
<1> QED
  BY <1>0, <1>2, <1>3, <1>4, <1>5, <1>6, MirrorKeeps

-----------------------------------------------------------------------------
(* The theorems *)

LEMMA IndexBegins == IndexInit => IndexInv
<1> SUFFICES ASSUME IndexInit PROVE IndexInv
  OBVIOUS
<1>1. Nothing \in Stores /\ \A s \in Keys : Nothing[s] = Absent
  BY DEF Stores, Nothing, Records
<1>2. [d \in Ids |-> NoRow] \in [Ids -> Rows]
  BY Constants DEF Rows, NoRow
<1>3. IndexTypeOK
  BY <1>1, <1>2, IdleJob DEF IndexInit, IndexTypeOK
<1>4. Indexed /\ Homed(chroma) /\ Homed(parents)
  BY <1>1, PathsInOf DEF IndexInit, Indexed, Homed
<1>5. JobInv
  BY DEF IndexInit, JobInv, Idle, Writing
<1> QED
  BY <1>3, <1>4, <1>5 DEF IndexInit, IndexInv

LEMMA NextKeeps == IndexInv /\ [IndexNext]_indexVars => IndexInv' /\ Kept /\ Lags
<1> SUFFICES ASSUME IndexInv, [IndexNext]_indexVars PROVE IndexInv' /\ Kept /\ Lags
  OBVIOUS
<1>1. CASE DocumentStep
  BY <1>1, WriteParentsKeeps, WriteChildrenKeeps, MirrorChunksKeeps, DropStaleKeeps,
     MirrorDeletionsKeeps, DropStaleParentsKeeps, IndexImageKeeps, TransferKeeps, DropOldKeeps,
     DropOldParentsKeeps, WriteFailsKeeps DEF DocumentStep
<1>2. CASE UNCHANGED indexVars
  <2>1. IndexTypeOK' /\ source'[Samples] \in Versions
    BY <1>2 DEF IndexInv, IndexTypeOK, indexVars
  <2>2. JobInv'
    BY <1>2 DEF IndexInv, JobInv, Whole, StaleIds, Present, indexVars
  <2>3. ~(At("prune") /\ job'.at = "synced")
    BY <1>2 DEF At, indexVars
  <2> QED
    BY <1>2, <2>1, <2>2, <2>3, QuietKeeps DEF indexVars
<1> QED
  BY <1>1, <1>2, StartServerKeeps, InitializeDbKeeps, RechunkKeeps, SynchronizeKeeps,
     IngestKeeps, CopyAllKeeps, PruneKeeps, EndKeeps, SurroundingsKeep DEF IndexNext

LEMMA SpecInv == IndexSpec => []IndexInv
BY IndexBegins, NextKeeps, PTL DEF IndexSpec

(* Apart from its twins a whole source has parents of its own. *)
Served == \A p \in Paths : Apart(p) /\ Holds(p) => Searchable(p)

LEMMA HoldsServed == IndexInv => Served
<1> SUFFICES ASSUME IndexInv, NEW p \in Paths, Apart(p), Holds(p) PROVE Searchable(p)
  BY DEF Served
<1>1. PICK d \in Ids, v \in Versions : Whole(d, p, v)
  BY DEF Holds
<1>2. \A i \in 1 .. Pieces[v] : <<d, i>> \in Keys /\ <<d, i>>[1] = d
  BY Constants, KeyShape
<1>3. ASSUME NEW i \in 1 .. Pieces[v]
      PROVE  /\ chroma[<<d, i>>] = Record(p, v)
             /\ parents[<<d, i>>] # Absent /\ parents[<<d, i>>].path = p
  <2> DEFINE s == <<d, i>>
  <2>1. /\ s \in Keys /\ s[1] = d /\ chroma[s] = Record(p, v) /\ parents[s] # Absent
    BY <1>1, <1>2 DEF Whole
  <2> HIDE DEF s
  <2>2. d[1] = Named[p]
    BY <2>1, RecordShape DEF IndexInv, Homed
  <2>3. /\ Named[parents[s].path] = Named[p] /\ parents[s].path \in Paths
        /\ parents[s].path \in PathsIn(parents)
    BY <2>1, <2>2, PathsOf, PathsInOf DEF IndexInv, IndexTypeOK, Homed
  <2>4. parents[s].path = p
    BY <2>3 DEF Apart, Twins
  <2> QED
    BY <2>1, <2>4 DEF s
<1> QED
  BY <1>3 DEF Searchable

(***************************************************************************)
(* A source that was indexed is searchable after every step, crash and     *)
(* failure, as long as no other image of its name has records: one of its  *)
(* versions has all chunks under one id, each with its own parent          *)
(* (startup_ingest.py, rechunk.py: parents and new chunks are written      *)
(* before what is stale is removed; startup_ingest.py:132: the ids).       *)
(***************************************************************************)
THEOREM SourcesStayWhole == IndexSpec => SourceStaysWhole
<1>1. IndexInv /\ [IndexNext]_indexVars =>
        [IndexTypeOK' /\ \A p \in PathsIn(chroma) \cup PathsIn(chroma') :
           Apart(p)' => Searchable(p)']_indexVars
  <2> SUFFICES ASSUME IndexInv, [IndexNext]_indexVars
               PROVE  IndexTypeOK' /\ \A p \in PathsIn(chroma) \cup PathsIn(chroma') :
                        Apart(p)' => Searchable(p)'
    OBVIOUS
  <2>1. IndexInv' /\ Kept
    BY NextKeeps
  <2>2. IndexTypeOK'
    BY <2>1 DEF IndexInv
  <2>3. PathsIn(chroma) \subseteq Paths /\ PathsIn(chroma') \subseteq Paths
    BY <2>2, PathsOf DEF IndexInv, IndexTypeOK
  <2>a. Served'
    BY <2>1, HoldsServed, PTL
  <2>4. ASSUME NEW p \in PathsIn(chroma) \cup PathsIn(chroma'), Apart(p)' PROVE Searchable(p)'
    <3>1. Alone(p)'
      BY <2>4 DEF Apart, Alone
    <3>2. p \in PathsIn(chroma')
      BY <2>1, <3>1 DEF Kept
    <3>3. Holds(p)'
      BY <2>1, <3>1, <3>2 DEF IndexInv, Indexed
    <3>4. p \in Paths
      BY <2>3
    <3> QED
      BY <2>4, <2>a, <3>3, <3>4 DEF Served
  <2> QED
    BY <2>2, <2>4
<1> QED
  BY <1>1, SpecInv, PTL DEF IndexSpec, SourceStaysWhole

(***************************************************************************)
(* Only start-up's deletions leave a record in the mirror that Chroma has  *)
(* no longer; a synchronization spoils nothing that is right, and one that *)
(* succeeds leaves the mirror equal (keyword_index.py, rechunk.py:150).    *)
(***************************************************************************)
THEOREM MirrorsOnlyLag == IndexSpec => MirrorOnlyLags
<1>1. IndexInv /\ [IndexNext]_indexVars => [Lags]_indexVars
  BY NextKeeps
<1>2. [][Lags]_indexVars <=> MirrorOnlyLags
  BY DEF Lags, MirrorOnlyLags
<1> QED
  BY <1>1, <1>2, SpecInv, PTL DEF IndexSpec

-----------------------------------------------------------------------------
(* ConversationStores: the inductive invariant *)

StateTypeOK ==
  /\ sessions \in [Sids -> SessionStates] /\ sessionFile \in [Sids -> SessionStates]
  /\ memory \in [Sids -> MemoryStates] /\ memoryFile \in [Sids -> MemoryStates]
  /\ clock \in 0 .. Clock
  /\ unsaved \in [{"sessions", "memory"} -> {"no", "old", "torn"}]
  /\ promise \in [Sids -> [values : SUBSET (Values \cup {0}), lost : SUBSET {"sessions", "memory"}]]

(* What a handler may still have to do. *)
FactTail(v) ==
  {<<Op("open", 0), Op("fact", v), Op("memoryFact", v), Op("save", v)>>,
   <<Op("fact", v), Op("memoryFact", v), Op("save", v)>>,
   <<Op("memoryFact", v), Op("save", v)>>, <<Op("save", v)>>}
MessageTail(text) ==
  {<<Op("open", 0), Op("append", text)>>, <<Op("open", 0), Op("appendOnce", text)>>,
   <<Op("append", text)>>, <<Op("appendOnce", text)>>}
IsTodo(todo) ==
  \/ todo = <<>>
  \/ \E text \in Texts : todo \in MessageTail(text)
  \/ \E v \in Values : todo \in FactTail(v)
  \/ \E a \in Contents : todo = <<Op("item", a)>>
  \/ \E a, b \in Contents : todo = <<Op("item", a), Op("item", b)>>

LastOp(todo) == todo[Len(todo)]
SavesFact(todo) == todo # <<>> /\ LastOp(todo).do = "save"

CallInv ==
  /\ call = [sid |-> call.sid, todo |-> call.todo, step |-> call.step]
  /\ call.sid \in Sids /\ call.step \in {"change", "empty", "fill"}
  /\ IsTodo(call.todo)
  /\ call.todo = <<>> => call.step = "change"
  /\ call.todo # <<>> /\ op.do = "fact" => call.step = "change"
  /\ call.todo # <<>> /\ op.do = "item" =>
       clock + Len(call.todo) - (IF call.step = "change" THEN 0 ELSE 1) <= Clock

(* A fact under way is promised, and written to the memory before the save. *)
FactInv ==
  SavesFact(call.todo) =>
    LET v == LastOp(call.todo).arg
    IN /\ v \in promise[call.sid].values
       /\ op.do \in {"memoryFact", "save"} => sessions[call.sid].fact = v
       /\ op.do = "save" => memory[call.sid].fact = v
       /\ op.do = "memoryFact" /\ call.step # "change" => memory[call.sid].fact = v

(* Whether the store is, but for failed writes, what its file says. *)
SessionsSettled ==
  \/ call.todo = <<>>
  \/ op.do = "item"
  \/ op.do \in {"open", "fact", "append", "appendOnce"} /\ call.step = "change"
MemorySettled == call.todo = <<>> \/ StoreOf = "sessions" \/ call.step = "change"

FileInv ==
  /\ unsaved["sessions"] = "no" /\ SessionsSettled => sessionFile = sessions
  /\ unsaved["memory"] = "no" /\ MemorySettled => memoryFile = memory
  /\ call.todo # <<>> /\ call.step = "fill" => unsaved[StoreOf] = "torn"

(* Every copy of a fact that was not lost is one that was promised. *)
PromiseOf(s) ==
  LET values == promise[s].values
      lost == promise[s].lost
  IN  /\ sessions[s].fact \in values \cup {0} /\ sessionFile[s].fact \in values \cup {0}
      /\ "sessions" \notin lost =>
           /\ sessions[s].fact \in values
           /\ unsaved["sessions"] # "torn" => sessionFile[s].fact \in values
      /\ "memory" \notin lost =>
           /\ memory[s].fact \in values
           /\ unsaved["memory"] = "no" => memoryFile[s].fact \in values
      /\ 0 \in values => memory[s].fact \in values /\ memoryFile[s].fact \in values
PromiseInv == \A s \in Sids : PromiseOf(s)

(* The items of a bucket have texts and dates of their own, all past. *)
Dated(items, now) ==
  /\ \A i, j \in DOMAIN items : i # j =>
       items[i].text # items[j].text /\ items[i].at # items[j].at
  /\ \A i \in DOMAIN items : items[i].at < now
DateInv ==
  \A s \in Sids : Dated(memory[s].items, clock) /\ Dated(memoryFile[s].items, clock)

StoresInv == StateTypeOK /\ CallInv /\ FactInv /\ FileInv /\ PromiseInv /\ DateInv

-----------------------------------------------------------------------------
(* Operations left *)

LEMMA TodoFacts ==
  ASSUME NEW todo, IsTodo(todo), todo # <<>>
  PROVE  LET head == Head(todo)  tail == Tail(todo)
         IN /\ Len(todo) \in Nat /\ Len(tail) = Len(todo) - 1
            /\ IsTodo(tail)
            /\ head.do \in {"open", "append", "appendOnce", "fact", "memoryFact", "save", "item"}
            /\ tail # <<>> => LastOp(tail) = LastOp(todo)
            /\ SavesFact(todo) => LastOp(todo).arg \in Values
            /\ head.do \in {"append", "appendOnce"} => head.arg \in Texts /\ tail = <<>>
            /\ head.do = "open" => tail # <<>> /\ Head(tail).do \in {"append", "appendOnce", "fact"}
            /\ head.do \in {"fact", "memoryFact", "save"} =>
                 SavesFact(todo) /\ head.arg = LastOp(todo).arg
            /\ head.do = "fact" => tail # <<>> /\ Head(tail).do = "memoryFact"
            /\ head.do = "memoryFact" => tail # <<>> /\ Head(tail).do = "save"
            /\ head.do = "save" => tail = <<>>
            /\ head.do = "item" => /\ head.arg \in Contents /\ ~SavesFact(todo)
                                   /\ tail # <<>> => Head(tail).do = "item"
<1>1. CASE \E text \in Texts : todo \in MessageTail(text)
  <2>1. PICK text \in Texts : todo \in MessageTail(text)
    BY <1>1
  <2>2. CASE \E do \in {"append", "appendOnce"} : todo = <<Op("open", 0), Op(do, text)>>
    BY <2>2 DEF MessageTail, IsTodo, Op, LastOp, SavesFact
  <2>3. CASE \E do \in {"append", "appendOnce"} : todo = <<Op(do, text)>>
    BY <2>3 DEF MessageTail, IsTodo, Op, LastOp, SavesFact
  <2> QED
    BY <2>1, <2>2, <2>3 DEF MessageTail
<1>2. CASE \E v \in Values : todo \in FactTail(v)
  <2>1. PICK v \in Values : todo \in FactTail(v)
    BY <1>2
  <2>2. CASE todo = <<Op("open", 0), Op("fact", v), Op("memoryFact", v), Op("save", v)>>
    BY <2>2 DEF FactTail, IsTodo, Op, LastOp, SavesFact
  <2>3. CASE todo = <<Op("fact", v), Op("memoryFact", v), Op("save", v)>>
    BY <2>3 DEF FactTail, IsTodo, Op, LastOp, SavesFact
  <2>4. CASE todo = <<Op("memoryFact", v), Op("save", v)>>
    BY <2>4 DEF FactTail, IsTodo, Op, LastOp, SavesFact
  <2>5. CASE todo = <<Op("save", v)>>
    BY <2>5 DEF FactTail, IsTodo, Op, LastOp, SavesFact
  <2> QED
    BY <2>1, <2>2, <2>3, <2>4, <2>5 DEF FactTail
<1>3. CASE \E a \in Contents : todo = <<Op("item", a)>>
  BY <1>3 DEF IsTodo, Op, LastOp, SavesFact
<1>4. CASE \E a, b \in Contents : todo = <<Op("item", a), Op("item", b)>>
  BY <1>4 DEF IsTodo, Op, LastOp, SavesFact
<1> QED
  BY <1>1, <1>2, <1>3, <1>4 DEF IsTodo

-----------------------------------------------------------------------------
(* Messages and items *)

LEMMA SeqAsFunction ==
  ASSUME NEW S, NEW s \in Seq(S), NEW n \in Nat, Len(s) = n
  PROVE  s \in [1 .. n -> S]
OBVIOUS

LEMMA FunctionAsSeq ==
  ASSUME NEW S, NEW n \in Nat, NEW s \in [1 .. n -> S]
  PROVE  s \in Seq(S) /\ Len(s) = n
<1>1. s \in Seq(S)
  BY SeqDef
<1>2. Len(s) \in Nat /\ DOMAIN s = 1 .. Len(s)
  BY <1>1, LenProperties
<1> QED
  BY <1>1, <1>2

LEMMA LatestTyped ==
  ASSUME NEW messages \in Messages, NEW text \in Texts
  PROVE  Latest(Append(messages, text)) \in Messages
<1> DEFINE all == Append(messages, text)
           first == IF Len(all) - MaxMessages + 1 < 1 THEN 1 ELSE Len(all) - MaxMessages + 1
<1>1. PICK n \in 0 .. MaxMessages : messages \in [1 .. n -> Texts]
  BY DEF Messages
<1>2. all \in Seq(Texts) /\ Len(all) = n + 1
  BY <1>1, ConversationAssumption
<1>3. first \in 1 .. n + 1 /\ n + 1 - first + 1 \in 0 .. MaxMessages
  BY <1>1, <1>2, ConversationAssumption
<1> HIDE DEF all, first
<1>4. /\ SubSeq(all, first, n + 1) \in Seq(Texts)
      /\ Len(SubSeq(all, first, n + 1)) = n + 1 - first + 1
  BY <1>2, <1>3
<1>5. SubSeq(all, first, n + 1) \in [1 .. n + 1 - first + 1 -> Texts]
  <2>1. n + 1 - first + 1 \in Nat
    BY <1>3
  <2> QED
    BY <2>1, <1>4, SeqAsFunction
<1> QED
  BY <1>2, <1>3, <1>5 DEF Latest, Messages, all, first

NoEarlier(items, i, j) == items[i].at >= items[j].at
Fresher(kept, items, i) ==
  (\A k \in DOMAIN kept : kept[k].text # items[i].text)
    => \A k \in DOMAIN kept : kept[k].at > items[i].at

(* LatestFirst puts every item in one place, a later one before an earlier. *)
LEMMA Sorted ==
  ASSUME NEW n \in Nat, NEW items \in [1 .. n -> [text : Contents, at : Int]]
  PROVE  /\ LatestFirst(items) \in [1 .. n -> [text : Contents, at : Int]]
         /\ \E p \in [1 .. n -> 1 .. n] :
              /\ \A k \in 1 .. n : LatestFirst(items)[k] = items[p[k]]
              /\ \A k, l \in 1 .. n : k # l => p[k] # p[l]
              /\ \A i \in 1 .. n : \E k \in 1 .. n : p[k] = i
              /\ \A k, l \in 1 .. n : k < l => items[p[k]].at >= items[p[l]].at
<1> DEFINE Before(i) == {j \in 1 .. n : items[j].at > items[i].at
                                        \/ (items[j].at = items[i].at /\ j <= i)}
           rank == [i \in 1 .. n |-> Cardinality(Before(i))]
           p == [k \in 1 .. n |-> CHOOSE i \in 1 .. n : rank[i] = k]
<1>1. DOMAIN items = 1 .. n /\ \A i \in 1 .. n : items[i].at \in Int
  OBVIOUS
<1>2. \A i \in 1 .. n : /\ IsFiniteSet(Before(i)) /\ Cardinality(Before(i)) \in 1 .. n
                        /\ i \in Before(i)
  <2> TAKE i \in 1 .. n
  <2>1. Before(i) \in SUBSET (1 .. n) /\ i \in Before(i)
    BY <1>1
  <2>2. IsFiniteSet(1 .. n) /\ Cardinality(1 .. n) = n
    BY FS_Interval
  <2>3. IsFiniteSet(Before(i)) /\ Cardinality(Before(i)) <= n
    BY <2>1, <2>2, FS_Subset
  <2>4. Cardinality(Before(i)) \in Nat /\ Cardinality(Before(i)) # 0
    BY <2>1, <2>3, FS_CardinalityType, FS_EmptySet
  <2> QED
    BY <2>1, <2>3, <2>4
<1> HIDE DEF Before
<1>3. \A i, j \in 1 .. n :
        i # j /\ j \in Before(i) => Cardinality(Before(j)) < Cardinality(Before(i))
  <2> SUFFICES ASSUME NEW i \in 1 .. n, NEW j \in 1 .. n, i # j, j \in Before(i)
               PROVE  Cardinality(Before(j)) < Cardinality(Before(i))
    OBVIOUS
  <2>1. Before(j) \in SUBSET Before(i) /\ i \notin Before(j) /\ i \in Before(i)
    BY <1>1 DEF Before
  <2>2. /\ Cardinality(Before(j)) <= Cardinality(Before(i))
        /\ Cardinality(Before(j)) # Cardinality(Before(i))
    BY <2>1, <1>2, FS_Subset
  <2> QED
    BY <2>2, <1>2
<1>4. \A i, j \in 1 .. n : j \in Before(i) \/ i \in Before(j)
  BY <1>1 DEF Before
<1>5. /\ rank \in [1 .. n -> 1 .. n]
      /\ \A i, j \in 1 .. n : i # j => rank[i] # rank[j]
  <2>1. rank \in [1 .. n -> 1 .. n]
    BY <1>2
  <2> SUFFICES ASSUME NEW i \in 1 .. n, NEW j \in 1 .. n, i # j PROVE rank[i] # rank[j]
    BY <2>1
  <2>2. Cardinality(Before(i)) # Cardinality(Before(j))
    <3>1. Cardinality(Before(i)) \in Int /\ Cardinality(Before(j)) \in Int
      BY <1>2
    <3>2. CASE j \in Before(i)
      BY <3>1, <3>2, <1>3
    <3>3. CASE i \in Before(j)
      BY <3>1, <3>3, <1>3
    <3> QED
      BY <3>2, <3>3, <1>4
  <2> QED
    BY <2>2
<1>6. \A k \in 1 .. n : \E i \in 1 .. n : rank[i] = k
  <2> HIDE DEF rank
  <2>1. rank \in Injection(1 .. n, 1 .. n)
    BY <1>5 DEF Injection, IsInjective
  <2>2. rank \in Surjection(1 .. n, 1 .. n)
    BY <2>1, FS_Interval, FS_Injection
  <2> QED
    BY <2>2 DEF Surjection
<1>7. LatestFirst(items) =
        [k \in 1 .. n |-> items[CHOOSE i \in 1 .. n : Cardinality(Before(i)) = k]]
  BY <1>1 DEF LatestFirst, Before
<1>8. /\ p \in [1 .. n -> 1 .. n]
      /\ \A k \in 1 .. n : rank[p[k]] = k
  <2> HIDE DEF rank
  <2> QED
    BY <1>6
<1>9. LatestFirst(items) = [k \in 1 .. n |-> items[p[k]]]
  <2>1. \A k \in 1 .. n : p[k] = CHOOSE i \in 1 .. n : Cardinality(Before(i)) = k
    BY Zenon
  <2> HIDE DEF p
  <2> QED
    BY <1>7, <2>1
<1> HIDE DEF p
<1>10. \A i, j \in 1 .. n : i # j /\ j \in Before(i) => rank[j] < rank[i]
  BY <1>3
<1> HIDE DEF rank
<1>11. \A i \in 1 .. n : rank[i] \in 1 .. n /\ p[rank[i]] = i
  BY <1>5, <1>8
<1>12. \A k, l \in 1 .. n : k < l => items[p[k]].at >= items[p[l]].at
  <2> SUFFICES ASSUME NEW k \in 1 .. n, NEW l \in 1 .. n, k < l, ~(items[p[k]].at >= items[p[l]].at)
               PROVE  FALSE
    OBVIOUS
  <2>1. p[k] \in 1 .. n /\ p[l] \in 1 .. n /\ rank[p[k]] = k /\ rank[p[l]] = l
    BY <1>8
  <2>2. p[l] \in Before(p[k]) /\ p[l] # p[k]
    BY <1>1, <2>1 DEF Before
  <2>3. rank[p[l]] < rank[p[k]]
    BY <2>1, <2>2, <1>10
  <2> QED
    BY <2>1, <2>3
<1>13. LatestFirst(items) \in [1 .. n -> [text : Contents, at : Int]]
  BY <1>8, <1>9
<1>14. /\ \A k \in 1 .. n : LatestFirst(items)[k] = items[p[k]]
       /\ \A k, l \in 1 .. n : k # l => p[k] # p[l]
       /\ \A i \in 1 .. n : \E k \in 1 .. n : p[k] = i
  <2>1. \A k \in 1 .. n : LatestFirst(items)[k] = items[p[k]]
    BY <1>9, Zenon
  <2>2. \A k, l \in 1 .. n : k # l => p[k] # p[l]
    BY <1>8, Zenon
  <2>3. \A i \in 1 .. n : \E k \in 1 .. n : p[k] = i
    BY <1>11, Zenon
  <2> QED
    BY <2>1, <2>2, <2>3, Zenon
<1> QED
  BY <1>8, <1>12, <1>13, <1>14


LEMMA ItemsAreFunctions ==
  ASSUME NEW n \in Nat, n <= MaxItems, NEW items
  PROVE  items \in [1 .. n -> [text : Contents, at : 0 .. Clock]] => items \in Items
BY ConversationAssumption DEF Items

LEMMA DatedLater ==
  ASSUME NEW items \in Items, NEW now \in Int, Dated(items, now)
  PROVE  Dated(items, now + 1)
<1>1. PICK n \in 0 .. MaxItems : items \in [1 .. n -> [text : Contents, at : 0 .. Clock]]
  BY DEF Items
<1>2. \A i \in DOMAIN items : items[i].at \in Int
  BY <1>1, ConversationAssumption
<1>3. \A i \in DOMAIN items : items[i].at < now + 1
  <2> SUFFICES ASSUME NEW i \in DOMAIN items PROVE items[i].at < now + 1
    OBVIOUS
  <2>1. items[i].at < now /\ items[i].at \in Int
    BY <1>2 DEF Dated
  <2> QED
    BY <2>1
<1> QED
  BY <1>3 DEF Dated

(* What _write_memory_item leaves in a bucket: dated items, and none that   *)
(* is older than one it has dropped.                                        *)
LEMMA ItemDatedAnew ==
  ASSUME clock \in 0 .. Clock, clock + 1 <= Clock,
         NEW items \in Items, Dated(items, clock), NEW text \in Contents,
         NEW kept, kept = Remembered(items, text),
         \E i \in DOMAIN items : items[i].text = text
  PROVE  /\ kept \in Items /\ Dated(kept, clock + 1)
         /\ DOMAIN kept = DOMAIN items
         /\ \A i \in DOMAIN items : kept[i].text = items[i].text
<1> DEFINE Item == [text : Contents, at : 0 .. Clock]
<1>1. PICK n \in 0 .. MaxItems : items \in [1 .. n -> Item]
  BY DEF Items
<1>2. n \in Nat /\ MaxItems \in Nat \ {0} /\ Clock \in Nat
  BY ConversationAssumption
<1>3. PICK m \in 1 .. n : items[m].text = text
  BY <1>1
<1>4. kept = [i \in 1 .. n |-> IF items[i].text = text THEN [items[i] EXCEPT !.at = clock]
                              ELSE items[i]]
  BY <1>1 DEF Remembered
<1>5. \A i \in 1 .. n : /\ items[i] \in Item
                        /\ kept[i].text = items[i].text
                        /\ kept[i].at = IF i = m THEN clock ELSE items[i].at
                        /\ kept[i] \in Item
  BY <1>1, <1>2, <1>3, <1>4 DEF Dated
<1>6. kept \in [1 .. n -> Item]
  BY <1>4, <1>5
<1>7. \A i, j \in 1 .. n : i # j => kept[i].text # kept[j].text /\ kept[i].at # kept[j].at
  <2> SUFFICES ASSUME NEW i \in 1 .. n, NEW j \in 1 .. n, i # j
               PROVE  kept[i].text # kept[j].text /\ kept[i].at # kept[j].at
    OBVIOUS
  <2>1. /\ items[i].text # items[j].text /\ items[i].at # items[j].at
        /\ items[i].at < clock /\ items[j].at < clock
    BY <1>1 DEF Dated
  <2> QED
    BY <1>2, <1>5, <2>1
<1>8. \A i \in 1 .. n : kept[i].at < clock + 1
  <2> SUFFICES ASSUME NEW i \in 1 .. n PROVE kept[i].at < clock + 1
    OBVIOUS
  <2>1. items[i].at < clock /\ items[i].at \in Int
    BY <1>1 DEF Dated
  <2> QED
    BY <1>2, <1>5, <2>1
<1>9. DOMAIN kept = 1 .. n /\ DOMAIN items = 1 .. n
  BY <1>1, <1>6
<1>10. kept \in Items
  BY <1>6 DEF Items
<1>11. Dated(kept, clock + 1)
  BY <1>7, <1>8, <1>9 DEF Dated
<1> QED
  BY <1>5, <1>9, <1>10, <1>11

(* Of an order of 1 .. n, what is not among the first m comes after them. *)
LEMMA AfterTheFirst ==
  ASSUME NEW n \in Nat, NEW m \in 1 .. n, NEW p \in [1 .. n -> 1 .. n],
         NEW i \in 1 .. n, NEW l \in 1 .. n, p[l] = i, \A k \in 1 .. m : p[k] # i
  PROVE  \A k \in 1 .. m : k < l
OBVIOUS

(* p is an order of 1 .. n in which kept takes its m items from a bucket. *)
Takes(p, kept, m, items, n) ==
  /\ \A k \in 1 .. m : kept[k] = items[p[k]]
  /\ \A k, l \in 1 .. n : k # l => p[k] # p[l]
  /\ \A i \in 1 .. n : (\A k \in 1 .. m : p[k] # i)
       => \A k \in 1 .. m : NoEarlier(items, p[k], i)

(* What is cut from a sorted bucket is no later than what is left. *)
LEMMA CutSorted ==
  ASSUME NEW n \in Nat, NEW m \in 1 .. n,
         NEW items \in [1 .. n -> [text : Contents, at : Int]],
         NEW kept, \A k \in 1 .. m : kept[k] = LatestFirst(items)[k]
  PROVE  \E p \in [1 .. n -> 1 .. n] : Takes(p, kept, m, items, n)
<1> DEFINE sorted == LatestFirst(items)
<1>1. PICK p \in [1 .. n -> 1 .. n] :
        /\ \A k \in 1 .. n : sorted[k] = items[p[k]]
        /\ \A k, l \in 1 .. n : k # l => p[k] # p[l]
        /\ \A i \in 1 .. n : \E k \in 1 .. n : p[k] = i
        /\ \A k, l \in 1 .. n : k < l => NoEarlier(items, p[k], p[l])
  BY Sorted DEF NoEarlier
<1> HIDE DEF sorted
<1>2. \A k \in 1 .. m : kept[k] = sorted[k]
  BY DEF sorted
<1>3. 1 .. m \subseteq 1 .. n
  OBVIOUS
<1>4. \A k \in 1 .. m : kept[k] = items[p[k]]
  BY <1>1, <1>2, <1>3, Zenon
<1>5. ASSUME NEW i \in 1 .. n, \A k \in 1 .. m : p[k] # i, NEW k \in 1 .. m
      PROVE  NoEarlier(items, p[k], i)
  <2>1. PICK l \in 1 .. n : p[l] = i /\ \A j \in 1 .. m : j < l
    <3>1. PICK l \in 1 .. n : p[l] = i
      BY <1>1
    <3> QED BY <1>5, <3>1, AfterTheFirst
  <2> QED
    BY <1>1, <1>3, <1>5, <2>1, Zenon
<1>6. /\ \A k, l \in 1 .. n : k # l => p[k] # p[l]
      /\ \A i \in 1 .. n :
           (\A k \in 1 .. m : p[k] # i) => \A k \in 1 .. m : NoEarlier(items, p[k], i)
  BY <1>1, <1>5
<1> QED
  BY <1>4, <1>6 DEF Takes

Keeps(kept, m, items, n) ==
  /\ \A k \in 1 .. m : \E i \in 1 .. n : kept[k] = items[i]
  /\ \A i \in 1 .. n : Fresher(kept, items, i)

LEMMA CutDated ==
  ASSUME NEW n \in Nat, NEW m \in 1 .. n, NEW now \in Nat,
         NEW items \in [1 .. n -> [text : Contents, at : Int]], Dated(items, now),
         NEW kept, DOMAIN kept = 1 .. m, \A k \in 1 .. m : kept[k] = LatestFirst(items)[k]
  PROVE  Keeps(kept, m, items, n) /\ Dated(kept, now)
<1>a. PICK p \in [1 .. n -> 1 .. n] : Takes(p, kept, m, items, n)
  BY CutSorted
<1>1. /\ \A k \in 1 .. m : kept[k] = items[p[k]]
      /\ \A k, l \in 1 .. n : k # l => p[k] # p[l]
      /\ \A i \in 1 .. n : (\A k \in 1 .. m : p[k] # i)
           => \A k \in 1 .. m : NoEarlier(items, p[k], i)
  BY <1>a DEF Takes
<1>2. 1 .. m \subseteq 1 .. n
  OBVIOUS
<1>3. \A k \in 1 .. m : p[k] \in 1 .. n
  BY <1>2
<1>4. \A i \in 1 .. n : items[i].at \in Int /\ items[i].at < now
  BY DEF Dated
<1>5. \A i, j \in 1 .. n : i # j => items[i].text # items[j].text /\ items[i].at # items[j].at
  BY DEF Dated
<1>6. Dated(kept, now)
  <2>1. ASSUME NEW k \in 1 .. m, NEW l \in 1 .. m, k # l
        PROVE  kept[k].text # kept[l].text /\ kept[k].at # kept[l].at
    <3>1. p[k] # p[l] /\ p[k] \in 1 .. n /\ p[l] \in 1 .. n
      BY <1>1, <1>2, <1>3, <2>1, Zenon
    <3>2. kept[k] = items[p[k]] /\ kept[l] = items[p[l]]
      BY <1>1, Zenon
    <3> QED
      BY <1>5, <3>1, <3>2, Zenon
  <2>2. \A k \in 1 .. m : kept[k].at < now
    BY <1>1, <1>3, <1>4, Zenon
  <2> QED
    BY <2>1, <2>2 DEF Dated
<1>7. ASSUME NEW i \in 1 .. n, \A k \in 1 .. m : kept[k].text # items[i].text, NEW k \in 1 .. m
      PROVE  kept[k].at > items[i].at
  <2>1. \A l \in 1 .. m : p[l] # i
    BY <1>1, <1>3, <1>7, Zenon
  <2>2. NoEarlier(items, p[k], i) /\ kept[k] = items[p[k]] /\ p[k] # i /\ p[k] \in 1 .. n
    BY <1>1, <1>3, <2>1, Zenon
  <2>3. items[p[k]].at # items[i].at
    BY <1>5, <2>2, Zenon
  <2>4. \E j \in 1 .. n : j = p[k] /\ kept[k] = items[j] /\ items[j].at >= items[i].at
                          /\ items[j].at # items[i].at
    BY <2>2, <2>3, Zenon DEF NoEarlier
  <2>5. PICK j \in 1 .. n : /\ kept[k] = items[j] /\ items[j].at >= items[i].at
                            /\ items[j].at # items[i].at
    BY <2>4
  <2>6. items[j].at \in Int /\ items[i].at \in Int
    BY <1>4
  <2>7. items[j].at > items[i].at
    BY <2>5, <2>6
  <2> QED
    BY <2>5, <2>7, Zenon
<1>8. \A i \in 1 .. n : Fresher(kept, items, i)
  BY <1>7, Zenon DEF Fresher
<1> QED
  BY <1>1, <1>3, <1>6, <1>8, Zenon DEF Keeps

LEMMA ItemAdded ==
  ASSUME clock \in 0 .. Clock, clock + 1 <= Clock,
         NEW items \in Items, Dated(items, clock), NEW text \in Contents,
         NEW kept, kept = Remembered(items, text),
         ~ \E i \in DOMAIN items : items[i].text = text
  PROVE  /\ kept \in Items /\ Dated(kept, clock + 1)
         /\ \A i \in DOMAIN items : Fresher(kept, items, i)
<1> DEFINE Item == [text : Contents, at : 0 .. Clock]
           Timed == [text : Contents, at : Int]
           new == [text |-> text, at |-> clock]
           all == Append(items, new)
<1>1. PICK n \in 0 .. MaxItems : items \in [1 .. n -> Item]
  BY DEF Items
<1>2. n \in Nat /\ MaxItems \in Nat \ {0} /\ Clock \in Nat
  BY ConversationAssumption
<1>3. PICK N \in Nat : N = n + 1
  BY <1>2
<1>4. items \in Seq(Item) /\ Len(items) = n /\ new \in Item
  BY <1>1, <1>2, FunctionAsSeq
<1>5. /\ all \in Seq(Item) /\ Len(all) = N
      /\ all[N] = new /\ \A i \in 1 .. n : all[i] = items[i]
  BY <1>2, <1>3, <1>4
<1>6. Dated(all, clock + 1)
  <2>1. DOMAIN all = 1 .. N /\ DOMAIN items = 1 .. n
    BY <1>1, <1>2, <1>3, <1>5
  <2>2. \A i \in 1 .. n : /\ items[i].text # text /\ items[i].at < clock /\ items[i].at \in Int
                          /\ \A j \in 1 .. n : i # j => items[i].text # items[j].text
                                                        /\ items[i].at # items[j].at
    BY <1>1, <2>1 DEF Dated
  <2>3. \A i \in 1 .. N : IF i = N THEN all[i].text = text /\ all[i].at = clock
                          ELSE i \in 1 .. n /\ all[i] = items[i]
    BY <1>2, <1>3, <1>5
  <2> HIDE DEF all
  <2> QED
    BY <1>2, <2>1, <2>2, <2>3 DEF Dated
<1> HIDE DEF all
<1>7. all \in [1 .. N -> Timed] /\ \A i \in 1 .. N : all[i] \in Item
  <2>1. all \in [1 .. N -> Item]
    BY <1>5, SeqAsFunction
  <2> QED
    BY <1>2, <2>1
<1>8. PICK m \in 1 .. N : m = (IF N < MaxItems THEN N ELSE MaxItems) /\ m <= MaxItems
  BY <1>2, <1>3
<1>9. /\ DOMAIN kept = 1 .. m /\ kept = [k \in 1 .. m |-> kept[k]]
      /\ \A k \in 1 .. m : kept[k] = LatestFirst(all)[k]
  <2> DEFINE sorted == LatestFirst(all)
  <2>1. sorted \in [1 .. N -> Timed]
    BY <1>7, Sorted
  <2>2. sorted \in Seq(Timed) /\ Len(sorted) = N
    BY <1>3, <2>1, FunctionAsSeq
  <2>3. kept = SubSeq(sorted, 1, m)
    BY <1>8, <2>2 DEF Remembered, Cut, all
  <2> HIDE DEF sorted, Timed
  <2>4. m \in Int /\ 1 \in Int /\ m - 1 + 1 = m /\ 1 <= m /\ 1 .. m \subseteq 1 .. N
    BY <1>3
  <2>5. \A k \in 1 .. m : sorted[k] \in Timed
    BY <2>1, <2>4, Zenon
  <2>6. kept \in Seq(Timed) /\ Len(kept) = m /\ \A k \in 1 .. m : kept[k] = sorted[k]
    BY <2>3, <2>4, <2>5, SubSeqProperties
  <2>7. DOMAIN kept = 1 .. m /\ kept \in [1 .. m -> Timed]
    BY <2>6, LenProperties
  <2> QED
    BY <2>6, <2>7 DEF sorted
<1>10. /\ \A k \in 1 .. m : \E i \in 1 .. N : kept[k] = all[i]
       /\ Dated(kept, clock + 1)
       /\ \A i \in 1 .. N : Fresher(kept, all, i)
  <2>1. N \in Nat /\ m \in 1 .. N /\ clock + 1 \in Nat
    BY <1>2, <1>3, <1>8
  <2>2. all \in [1 .. N -> [text : Contents, at : Int]]
    BY <1>7
  <2> QED
    <3>1. Keeps(kept, m, all, N) /\ Dated(kept, clock + 1)
      BY <2>1, <2>2, <1>6, <1>9, CutDated
    <3> QED
      BY <3>1 DEF Keeps
<1>11. kept \in Items
  <2>1. \A k \in 1 .. m : kept[k] \in Item
    BY <1>7, <1>10, Zenon
  <2>2. kept \in [1 .. m -> Item]
    BY <1>9, <2>1
  <2> QED
    BY <1>3, <1>8, <2>2, ItemsAreFunctions
<1>12. \A i \in 1 .. n : Fresher(kept, items, i)
  <2>1. \A i \in 1 .. n : i \in 1 .. N /\ all[i] = items[i]
    BY <1>2, <1>3, <1>5
  <2>2. ASSUME NEW i \in 1 .. n
        PROVE  Fresher(kept, items, i)
    <3>1. i \in 1 .. N /\ all[i] = items[i]
      BY <2>1
    <3>2. Fresher(kept, all, i)
      BY <1>10, <3>1
    <3> HIDE DEF all
    <3> QED
      BY <3>1, <3>2, Zenon DEF Fresher
  <2> QED
    BY <2>2
<1> QED
  BY <1>1, <1>9, <1>10, <1>11, <1>12

LEMMA ItemRemembered ==
  ASSUME clock \in 0 .. Clock, clock + 1 <= Clock,
         NEW items \in Items, Dated(items, clock), NEW text \in Contents
  PROVE  /\ Remembered(items, text) \in Items
         /\ Dated(Remembered(items, text), clock + 1)
         /\ \A i \in DOMAIN items : Fresher(Remembered(items, text), items, i)
<1> DEFINE kept == Remembered(items, text)
<1> HIDE DEF kept
<1>0. kept = Remembered(items, text)
  BY DEF kept
<1>1. CASE \E i \in DOMAIN items : items[i].text = text
  <2>1. /\ kept \in Items /\ Dated(kept, clock + 1) /\ DOMAIN kept = DOMAIN items
        /\ \A i \in DOMAIN items : kept[i].text = items[i].text
    BY <1>0, <1>1, ItemDatedAnew
  <2> QED
    BY <2>1, <1>0, Zenon DEF Fresher
<1>2. CASE ~ \E i \in DOMAIN items : items[i].text = text
  BY <1>0, <1>2, ItemAdded
<1> QED
  BY <1>1, <1>2

-----------------------------------------------------------------------------
(* How a call goes on *)

LEMMA NoCallAt ==
  /\ NoCall.sid \in Sids /\ NoCall.todo = <<>> /\ NoCall.step = "change"
  /\ NoCall = [sid |-> NoCall.sid, todo |-> NoCall.todo, step |-> NoCall.step]
BY ConversationAssumption DEF NoCall

LEMMA OpFacts ==
  ASSUME CallInv, call.todo # <<>>
  PROVE  /\ op.do \in {"open", "append", "appendOnce", "fact", "memoryFact", "save", "item"}
         /\ SavesFact(call.todo) => LastOp(call.todo).arg \in Values
         /\ op.do \in {"append", "appendOnce"} => op.arg \in Texts
         /\ op.do \in {"fact", "memoryFact", "save"} =>
              SavesFact(call.todo) /\ op.arg = LastOp(call.todo).arg
         /\ op.do = "item" => op.arg \in Contents /\ ~SavesFact(call.todo)
         /\ StoreOf = IF op.do \in {"memoryFact", "item"} THEN "memory" ELSE "sessions"
BY TodoFacts DEF CallInv, op, StoreOf

LEMMA NextOp ==
  ASSUME CallInv, call.todo # <<>>, Then
  PROVE  /\ call' = [sid |-> call.sid, todo |-> call'.todo, step |-> "change"]
         /\ call'.sid = call.sid /\ call'.step = "change" /\ IsTodo(call'.todo)
         /\ Len(call.todo) \in Nat /\ Len(call'.todo) = Len(call.todo) - 1
         /\ SavesFact(call'.todo) =>
              SavesFact(call.todo) /\ LastOp(call'.todo) = LastOp(call.todo)
         /\ op.do \in {"append", "appendOnce", "save"} => call'.todo = <<>>
         /\ op.do = "open" => call'.todo # <<>> /\ op'.do \in {"append", "appendOnce", "fact"}
         /\ op.do = "fact" => call'.todo # <<>> /\ op'.do = "memoryFact"
         /\ op.do = "memoryFact" => call'.todo # <<>> /\ op'.do = "save"
         /\ op.do = "item" /\ call'.todo # <<>> => op'.do = "item"
<1>1. /\ call' = [sid |-> call.sid, todo |-> Tail(call.todo), step |-> "change"]
      /\ IsTodo(call.todo)
  BY DEF CallInv, Then
<1>2. call'.todo = Tail(call.todo) /\ call'.sid = call.sid /\ call'.step = "change"
  BY <1>1
<1> QED
  BY <1>1, <1>2, TodoFacts, Zenon DEF op, SavesFact

LEMMA SameOp ==
  ASSUME CallInv, NEW x, call' = [call EXCEPT !.step = x]
  PROVE  /\ call' = [sid |-> call.sid, todo |-> call.todo, step |-> x]
         /\ call'.sid = call.sid /\ call'.todo = call.todo /\ call'.step = x
         /\ op' = op /\ StoreOf' = StoreOf
BY DEF CallInv, op, StoreOf

LEMMA CallGoesOn ==
  ASSUME CallInv, call.todo # <<>>, Then, clock \in Int, Clock \in Int, clock' = clock,
         op.do = "item" => call.step # "change"
  PROVE  CallInv'
<1>1. /\ call' = [sid |-> call'.sid, todo |-> call'.todo, step |-> call'.step]
      /\ call'.sid \in Sids /\ call'.step = "change" /\ IsTodo(call'.todo)
  BY NextOp DEF CallInv
<1>2. ASSUME call'.todo # <<>>, op'.do = "item"
      PROVE  clock' + Len(call'.todo) - 0 <= Clock
  <2>1. op.do = "item"
    BY <1>2, NextOp, OpFacts
  <2>2. clock + Len(call.todo) - 1 <= Clock
    BY <2>1 DEF CallInv
  <2> QED
    BY <2>2, NextOp
<1> QED
  BY <1>1, <1>2 DEF CallInv

LEMMA CallWrites ==
  ASSUME CallInv, call.todo # <<>>, NEW x \in {"empty", "fill"}, call' = [call EXCEPT !.step = x],
         clock \in Int, op.do # "fact",
         clock' = IF op.do = "item" /\ call.step = "change" THEN clock + 1 ELSE clock
  PROVE  CallInv'
<1>1. /\ call' = [sid |-> call'.sid, todo |-> call'.todo, step |-> call'.step]
      /\ call'.sid \in Sids /\ call'.step = x /\ IsTodo(call'.todo)
      /\ call'.todo = call.todo /\ op' = op
  BY SameOp DEF CallInv
<1>2. ASSUME op.do = "item"
      PROVE  clock' + Len(call'.todo) - 1 <= Clock
  <2>1. Len(call.todo) \in Nat
    BY TodoFacts DEF CallInv
  <2>2. clock + Len(call.todo) - (IF call.step = "change" THEN 0 ELSE 1) <= Clock
    BY <1>2 DEF CallInv
  <2>3. Clock \in Int
    BY ConversationAssumption
  <2>4. CASE call.step = "change"
    BY <1>1, <1>2, <2>1, <2>2, <2>3, <2>4
  <2>5. CASE call.step # "change"
    BY <1>1, <1>2, <2>1, <2>2, <2>3, <2>5
  <2> QED
    BY <2>4, <2>5
<1> QED
  BY <1>1, <1>2 DEF CallInv

LEMMA CallEnds ==
  ASSUME call' = NoCall PROVE CallInv' /\ FactInv'
BY NoCallAt DEF CallInv, FactInv, IsTodo, SavesFact

-----------------------------------------------------------------------------
(* Each action keeps the invariant *)

LEMMA FactsUnderWay ==
  ASSUME FactInv, CallInv, call.todo # <<>>, Then,
         sessions'[call.sid].fact = IF op.do = "fact" THEN op.arg ELSE sessions[call.sid].fact,
         memory'[call.sid].fact = memory[call.sid].fact,
         op.do = "memoryFact" => call.step # "change",
         op.do # "save" => promise'[call.sid].values = promise[call.sid].values
  PROVE  FactInv'
<1> SUFFICES ASSUME SavesFact(call'.todo)
             PROVE  LET v == LastOp(call'.todo).arg
                    IN  /\ v \in promise'[call'.sid].values
                        /\ op'.do \in {"memoryFact", "save"} => sessions'[call'.sid].fact = v
                        /\ op'.do = "save" => memory'[call'.sid].fact = v
                        /\ call'.step = "change"
  BY DEF FactInv
<1>1. /\ call'.sid = call.sid /\ call'.step = "change" /\ SavesFact(call.todo)
      /\ LastOp(call'.todo) = LastOp(call.todo) /\ call'.todo # <<>>
  BY NextOp DEF SavesFact
<1>2. op.do \in {"open", "fact", "memoryFact"}
  BY <1>1, NextOp, OpFacts
<1>3. CASE op.do = "open"
  BY <1>1, <1>3, NextOp DEF FactInv
<1>4. CASE op.do = "fact"
  BY <1>1, <1>4, NextOp, OpFacts DEF FactInv
<1>5. CASE op.do = "memoryFact"
  BY <1>1, <1>5, NextOp, OpFacts DEF FactInv
<1> QED
  BY <1>2, <1>3, <1>4, <1>5

LEMMA BeginKeeps ==
  ASSUME StoresInv, NEW s \in Sids, NEW todo, Call(s, todo), IsTodo(todo), todo # <<>>,
         UNCHANGED <<sessions, sessionFile, memory, memoryFile, clock, unsaved>>,
         promise' \in [Sids -> [values : SUBSET (Values \cup {0}),
                                lost : SUBSET {"sessions", "memory"}]],
         \A r \in Sids : /\ promise'[r].lost = promise[r].lost
                         /\ promise[r].values \subseteq promise'[r].values
                         /\ promise'[r].values \subseteq promise[r].values \cup Values,
         Head(todo).do \in {"open", "item"},
         Head(todo).do = "item" => clock + Len(todo) <= Clock,
         SavesFact(todo) => LastOp(todo).arg \in promise'[s].values
  PROVE  StoresInv'
<1>1. /\ call = NoCall /\ call.todo = <<>> /\ call' = [sid |-> s, todo |-> todo, step |-> "change"]
      /\ call'.sid = s /\ call'.todo = todo /\ call'.step = "change" /\ op' = Head(todo)
  BY NoCallAt DEF Call, op
<1>2. StateTypeOK'
  BY DEF StoresInv, StateTypeOK
<1>3. CallInv'
  <2>1. clock \in Int /\ Len(todo) \in Int
    BY TodoFacts DEF StoresInv, StateTypeOK
  <2> QED
    BY <1>1, <2>1 DEF CallInv
<1>4. FactInv'
  BY <1>1 DEF FactInv
<1>5. FileInv'
  <2>1. /\ unsaved["sessions"] = "no" => sessionFile = sessions
        /\ unsaved["memory"] = "no" => memoryFile = memory
    BY <1>1 DEF StoresInv, FileInv, SessionsSettled, MemorySettled
  <2> QED
    BY <1>1, <2>1 DEF FileInv
<1>6. PromiseInv'
  <2> SUFFICES ASSUME NEW r \in Sids
               PROVE  PromiseOf(r)'
    BY DEF PromiseInv, PromiseOf
  <2>1. 0 \in promise'[r].values => 0 \in promise[r].values
    BY ConversationAssumption
  <2> QED
    BY <2>1 DEF StoresInv, PromiseInv, PromiseOf
<1>7. DateInv'
  BY DEF StoresInv, DateInv
<1> QED
  BY <1>2, <1>3, <1>4, <1>5, <1>6, <1>7 DEF StoresInv

LEMMA QuietParts ==
  ASSUME StoresInv,
         UNCHANGED <<sessions, sessionFile, memory, memoryFile, clock, unsaved, promise>>
  PROVE  StateTypeOK' /\ PromiseInv' /\ DateInv'
<1>1. \A s \in Sids : PromiseOf(s)' <=> PromiseOf(s)
  BY DEF PromiseOf
<1> QED
  BY <1>1 DEF StoresInv, StateTypeOK, PromiseInv, DateInv

LEMMA ClockInt ==
  ASSUME StateTypeOK PROVE clock \in Int /\ clock >= 0 /\ Clock \in Int
BY ConversationAssumption DEF StateTypeOK

LEMMA SkipKeeps ==
  ASSUME StoresInv, Skip PROVE StoresInv'
<1>1. /\ call.todo # <<>> /\ call.step = "change" /\ Then
      /\ op.do = "open" \/ op.do = "appendOnce"
      /\ UNCHANGED <<sessions, sessionFile, memory, memoryFile, clock, unsaved, promise>>
  BY DEF Skip, Pending, Unchanged
<1>2. StateTypeOK' /\ PromiseInv' /\ DateInv'
  BY <1>1, QuietParts
<1>3. CallInv'
  BY <1>1, CallGoesOn, ClockInt DEF StoresInv
<1>4. FactInv'
  BY <1>1, FactsUnderWay DEF StoresInv
<1>5. FileInv'
  <2>1. /\ unsaved["sessions"] = "no" => sessionFile = sessions
        /\ unsaved["memory"] = "no" => memoryFile = memory
    BY <1>1, OpFacts DEF StoresInv, FileInv, SessionsSettled, MemorySettled
  <2>2. call'.step = "change"
    BY <1>1, NextOp DEF StoresInv
  <2> QED
    BY <1>1, <2>1, <2>2 DEF FileInv
<1> QED
  BY <1>2, <1>3, <1>4, <1>5 DEF StoresInv

LEMMA SessionStep ==
  ASSUME StoresInv, ChangeSession
  PROVE  /\ sessions' \in [Sids -> SessionStates]
         /\ \A s \in Sids : sessions'[s].fact =
              IF s = call.sid /\ op.do = "fact" THEN op.arg ELSE sessions[s].fact
<1>1. /\ call.todo # <<>> /\ StoreOf = "sessions" /\ CallInv
      /\ sessions \in [Sids -> SessionStates] /\ call.sid \in Sids
  BY DEF ChangeSession, Pending, StoresInv, StateTypeOK, CallInv
<1> DEFINE old == sessions[call.sid]
           new == CASE op.do = "open" -> [old EXCEPT !.known = TRUE]
                    [] op.do = "fact" -> [old EXCEPT !.fact = op.arg]
                    [] op.do = "save" -> old
                    [] OTHER -> [old EXCEPT !.messages = Latest(Append(old.messages, op.arg))]
<1>2. sessions' = [sessions EXCEPT ![call.sid] = new]
  BY Zenon DEF ChangeSession
<1>3. old \in SessionStates
  BY <1>1
<1>4. new \in SessionStates /\ new.fact = IF op.do = "fact" THEN op.arg ELSE old.fact
  <2> HIDE DEF old
  <2>1. CASE op.do = "open"
    BY <1>3, <2>1 DEF SessionStates
  <2>2. CASE op.do = "fact"
    BY <1>1, <1>3, <2>2, OpFacts DEF SessionStates
  <2>3. CASE op.do = "save"
    BY <1>3, <2>3 DEF SessionStates
  <2>4. CASE op.do \in {"append", "appendOnce"}
    <3>1. Latest(Append(old.messages, op.arg)) \in Messages
      BY <1>1, <1>3, <2>4, OpFacts, LatestTyped DEF SessionStates
    <3> QED
      BY <1>3, <2>4, <3>1 DEF SessionStates
  <2> QED
    BY <1>1, <2>1, <2>2, <2>3, <2>4, OpFacts
<1> HIDE DEF new
<1> QED
  BY <1>1, <1>2, <1>4

LEMMA ChangeSessionKeeps ==
  ASSUME StoresInv, ChangeSession PROVE StoresInv'
<1>1. /\ call.todo # <<>> /\ call.step = "change" /\ StoreOf = "sessions" /\ CallInv
      /\ IF op.do = "fact" THEN Then ELSE call' = [call EXCEPT !.step = "empty"]
      /\ UNCHANGED <<sessionFile, memory, memoryFile, clock, unsaved, promise>>
      /\ call.sid \in Sids
  BY DEF ChangeSession, Pending, StoresInv, CallInv
<1>2. StateTypeOK' /\ DateInv'
  BY <1>1, SessionStep DEF StoresInv, StateTypeOK, DateInv
<1>3. CallInv'
  <2>1. CASE op.do = "fact"
    BY <1>1, <2>1, CallGoesOn, ClockInt DEF StoresInv
  <2>2. CASE op.do # "fact"
    <3>1. op.do # "item"
      BY <1>1, OpFacts
    <3> QED
      BY <1>1, <2>2, <3>1, CallWrites, ClockInt DEF StoresInv
  <2> QED
    BY <2>1, <2>2
<1>4. FactInv'
  <2>1. CASE op.do = "fact"
    BY <1>1, <2>1, SessionStep, FactsUnderWay DEF StoresInv
  <2>2. CASE op.do # "fact"
    <3>1. call'.todo = call.todo /\ call'.sid = call.sid /\ op' = op /\ op.do # "memoryFact"
      BY <1>1, <2>2, SameOp, OpFacts
    <3>2. sessions'[call.sid].fact = sessions[call.sid].fact
      BY <1>1, <2>2, SessionStep
    <3> QED
      BY <1>1, <3>1, <3>2 DEF StoresInv, FactInv
  <2> QED
    BY <2>1, <2>2
<1>5. FileInv'
  <2>1. unsaved["memory"] = "no" => memoryFile = memory
    BY <1>1 DEF StoresInv, FileInv, MemorySettled
  <2>2. ~SessionsSettled' /\ call'.step # "fill"
    <3>1. CASE op.do = "fact"
      BY <1>1, <3>1, NextOp DEF SessionsSettled
    <3>2. CASE op.do # "fact"
      BY <1>1, <3>2, SameOp, OpFacts DEF SessionsSettled
    <3> QED
      BY <3>1, <3>2
  <2> QED
    BY <1>1, <2>1, <2>2 DEF FileInv
<1>6. PromiseInv'
  <2> SUFFICES ASSUME NEW s \in Sids PROVE PromiseOf(s)'
    BY DEF PromiseInv
  <2>1. PromiseOf(s)
    BY DEF StoresInv, PromiseInv
  <2>2. sessions'[s].fact = sessions[s].fact \/ sessions'[s].fact \in promise[s].values
    BY <1>1, SessionStep, OpFacts DEF StoresInv, FactInv
  <2> QED
    BY <1>1, <2>1, <2>2 DEF PromiseOf
<1> QED
  BY <1>2, <1>3, <1>4, <1>5, <1>6 DEF StoresInv

LEMMA ChangeMemoryStep ==
  ASSUME StoresInv, ChangeMemory
  PROVE  /\ memory' \in [Sids -> MemoryStates]
         /\ clock' = IF op.do = "item" THEN clock + 1 ELSE clock
         /\ clock' \in 0 .. Clock
         /\ \A s \in Sids : memory'[s].fact =
              IF s = call.sid /\ op.do = "memoryFact" THEN op.arg ELSE memory[s].fact
         /\ \A s \in Sids : Dated(memory'[s].items, clock')
         /\ \A s \in Sids : \A i \in DOMAIN memory[s].items :
              Fresher(memory'[s].items, memory[s].items, i)
<1>1. /\ call.todo # <<>> /\ call.step = "change" /\ op.do \in {"memoryFact", "item"} /\ CallInv
      /\ memory \in [Sids -> MemoryStates] /\ call.sid \in Sids /\ clock \in 0 .. Clock
      /\ \A s \in Sids : Dated(memory[s].items, clock)
  BY OpFacts DEF ChangeMemory, Pending, StoresInv, StateTypeOK, CallInv, DateInv
<1>2. clock \in Int /\ clock >= 0 /\ Clock \in Int
  BY ClockInt DEF StoresInv
<1> DEFINE old == memory[call.sid]
<1>3. old \in MemoryStates /\ Dated(old.items, clock)
  BY <1>1
<1>4. \A s \in Sids : \A i \in DOMAIN memory[s].items :
        Fresher(memory[s].items, memory[s].items, i)
  BY Zenon DEF Fresher
<1>5. CASE op.do = "memoryFact"
  <2>1. memory' = [memory EXCEPT ![call.sid] = [old EXCEPT !.fact = op.arg]] /\ clock' = clock
    BY <1>5 DEF ChangeMemory
  <2>2. op.arg \in Values
    BY <1>1, <1>5, OpFacts
  <2>3. /\ [old EXCEPT !.fact = op.arg] \in MemoryStates
        /\ [old EXCEPT !.fact = op.arg].fact = op.arg
        /\ [old EXCEPT !.fact = op.arg].items = old.items
    BY <1>3, <2>2 DEF MemoryStates
  <2> QED
    BY <1>1, <1>2, <1>4, <1>5, <2>1, <2>3
<1>6. CASE op.do = "item"
  <2> DEFINE kept == Remembered(old.items, op.arg)
  <2>1. memory' = [memory EXCEPT ![call.sid] = [old EXCEPT !.items = kept]] /\ clock' = clock + 1
    BY <1>6 DEF ChangeMemory
  <2>2. old.items \in Items /\ op.arg \in Contents
    BY <1>1, <1>3, <1>6, OpFacts DEF MemoryStates
  <2>3. clock + 1 <= Clock
    <3>1. Len(call.todo) \in Nat /\ Len(call.todo) # 0
      BY <1>1, TodoFacts, EmptySeq DEF CallInv
    <3>2. clock + Len(call.todo) - 0 <= Clock
      BY <1>1, <1>6 DEF CallInv
    <3> QED
      BY <1>2, <3>1, <3>2
  <2>4. /\ kept \in Items /\ Dated(kept, clock + 1)
        /\ \A i \in DOMAIN old.items : Fresher(kept, old.items, i)
    BY <1>1, <1>3, <2>2, <2>3, ItemRemembered
  <2> HIDE DEF kept
  <2>5. /\ [old EXCEPT !.items = kept] \in MemoryStates
        /\ [old EXCEPT !.items = kept].fact = old.fact
        /\ [old EXCEPT !.items = kept].items = kept
    BY <1>3, <2>4 DEF MemoryStates
  <2>6. \A s \in Sids : Dated(memory[s].items, clock + 1)
    <3> SUFFICES ASSUME NEW s \in Sids PROVE Dated(memory[s].items, clock + 1)
      OBVIOUS
    <3>1. memory[s].items \in Items /\ Dated(memory[s].items, clock)
      BY <1>1 DEF MemoryStates
    <3> QED
      BY <1>2, <3>1, DatedLater
  <2> QED
    BY <1>1, <1>2, <1>4, <1>6, <2>1, <2>3, <2>4, <2>5, <2>6
<1> QED
  BY <1>1, <1>5, <1>6

LEMMA ChangeMemoryKeeps ==
  ASSUME StoresInv, ChangeMemory PROVE StoresInv'
<1>1. /\ call.todo # <<>> /\ call.step = "change" /\ StoreOf = "memory" /\ CallInv
      /\ op.do \in {"memoryFact", "item"} /\ call.sid \in Sids
      /\ call' = [call EXCEPT !.step = "empty"]
      /\ UNCHANGED <<sessions, sessionFile, memoryFile, unsaved, promise>>
  BY OpFacts DEF ChangeMemory, Pending, StoresInv, CallInv
<1>2. /\ call'.todo = call.todo /\ call'.sid = call.sid /\ call'.step = "empty"
      /\ op' = op /\ StoreOf' = StoreOf
  BY <1>1, SameOp
<1>3. StateTypeOK'
  BY <1>1, ChangeMemoryStep DEF StoresInv, StateTypeOK
<1>4. CallInv'
  BY <1>1, ChangeMemoryStep, CallWrites, ClockInt DEF StoresInv
<1>5. FactInv'
  <2>1. op.do = "memoryFact" => memory'[call.sid].fact = LastOp(call.todo).arg
    BY <1>1, ChangeMemoryStep, OpFacts
  <2> QED
    BY <1>1, <1>2, <2>1, OpFacts DEF StoresInv, FactInv
<1>6. FileInv'
  <2>1. op.do = "item" => (unsaved["sessions"] = "no" => sessionFile = sessions)
    BY <1>1 DEF StoresInv, FileInv, SessionsSettled
  <2>2. ~MemorySettled' /\ (SessionsSettled' => op.do = "item")
    BY <1>1, <1>2 DEF MemorySettled, SessionsSettled
  <2> QED
    BY <1>1, <1>2, <2>1, <2>2 DEF FileInv
<1>7. PromiseInv'
  <2> SUFFICES ASSUME NEW s \in Sids PROVE PromiseOf(s)'
    BY DEF PromiseInv
  <2>1. PromiseOf(s)
    BY DEF StoresInv, PromiseInv
  <2>2. memory'[s].fact = memory[s].fact \/ memory'[s].fact \in promise[s].values
    BY <1>1, ChangeMemoryStep, OpFacts DEF StoresInv, FactInv
  <2> QED
    BY <1>1, <2>1, <2>2 DEF PromiseOf
<1>8. DateInv'
  <2>1. \A s \in Sids : Dated(memoryFile[s].items, clock')
    <3> SUFFICES ASSUME NEW s \in Sids PROVE Dated(memoryFile[s].items, clock')
      OBVIOUS
    <3>1. memoryFile[s].items \in Items /\ Dated(memoryFile[s].items, clock)
      BY DEF StoresInv, StateTypeOK, MemoryStates, DateInv
    <3>2. clock' = clock \/ clock' = clock + 1
      BY ChangeMemoryStep
    <3> QED
      BY <3>1, <3>2, DatedLater, ClockInt DEF StoresInv
  <2> QED
    BY <1>1, <2>1, ChangeMemoryStep DEF DateInv
<1> QED
  BY <1>3, <1>4, <1>5, <1>6, <1>7, <1>8 DEF StoresInv

LEMMA NothingStored ==
  /\ NoSessions \in [Sids -> SessionStates] /\ NoMemories \in [Sids -> MemoryStates]
  /\ \A s \in Sids : /\ NoSessions[s].fact = 0 /\ NoMemories[s].fact = 0
                      /\ \A now : Dated(NoMemories[s].items, now)
<1>1. <<>> \in [1 .. 0 -> Texts] /\ <<>> \in [1 .. 0 -> [text : Contents, at : 0 .. Clock]]
  OBVIOUS
<1>2. <<>> \in Messages /\ <<>> \in Items
  BY <1>1, ConversationAssumption DEF Messages, Items
<1>3. NoSession \in SessionStates /\ NoMemory \in MemoryStates
  BY <1>2 DEF NoSession, NoMemory, SessionStates, MemoryStates
<1>4. \A now : Dated(<<>>, now)
  BY DEF Dated
<1> QED
  BY <1>3, <1>4 DEF NoSessions, NoMemories, NoSession, NoMemory

LEMMA EmptyKeeps ==
  ASSUME StoresInv, Empty PROVE StoresInv'
<1>1. /\ call.todo # <<>> /\ call.step = "empty" /\ CallInv /\ call.sid \in Sids
      /\ StoreOf \in {"sessions", "memory"} /\ op.do # "fact"
      /\ call' = [call EXCEPT !.step = "fill"]
      /\ UNCHANGED <<sessions, memory, clock, promise>>
  BY OpFacts DEF Empty, Pending, StoresInv, CallInv
<1>2. /\ call'.todo = call.todo /\ call'.sid = call.sid /\ call'.step = "fill"
      /\ op' = op /\ StoreOf' = StoreOf
  BY <1>1, SameOp
<1>3. /\ sessionFile' = IF StoreOf = "sessions" THEN NoSessions ELSE sessionFile
      /\ memoryFile' = IF StoreOf = "memory" THEN NoMemories ELSE memoryFile
      /\ unsaved' = [unsaved EXCEPT ![StoreOf] = "torn"]
      /\ unsaved \in [{"sessions", "memory"} -> {"no", "old", "torn"}]
  BY <1>1 DEF Empty, StoresInv, StateTypeOK
<1>4. StateTypeOK'
  BY <1>1, <1>3, NothingStored DEF StoresInv, StateTypeOK
<1>5. CallInv'
  BY <1>1, CallWrites, ClockInt DEF StoresInv
<1>6. FactInv'
  BY <1>1, <1>2 DEF StoresInv, FactInv
<1>7. FileInv'
  <2>1. /\ SessionsSettled' => SessionsSettled
        /\ MemorySettled' => MemorySettled
    BY <1>1, <1>2 DEF SessionsSettled, MemorySettled
  <2> QED
    BY <1>1, <1>2, <1>3, <2>1 DEF StoresInv, FileInv
<1>8. PromiseInv'
  <2> SUFFICES ASSUME NEW s \in Sids PROVE PromiseOf(s)'
    BY DEF PromiseInv
  <2>1. PromiseOf(s)
    BY DEF StoresInv, PromiseInv
  <2>2. CASE StoreOf = "sessions"
    BY <1>1, <1>3, <2>1, <2>2, NothingStored DEF PromiseOf
  <2>3. CASE StoreOf = "memory"
    BY <1>1, <1>3, <2>1, <2>3, NothingStored DEF PromiseOf
  <2> QED
    BY <1>1, <2>2, <2>3
<1>9. DateInv'
  BY <1>1, <1>3, NothingStored DEF StoresInv, DateInv
<1> QED
  BY <1>4, <1>5, <1>6, <1>7, <1>8, <1>9 DEF StoresInv

LEMMA FillKeeps ==
  ASSUME StoresInv, Fill PROVE StoresInv'
<1>1. /\ call.todo # <<>> /\ call.step = "fill" /\ CallInv /\ call.sid \in Sids
      /\ StoreOf = IF op.do \in {"memoryFact", "item"} THEN "memory" ELSE "sessions"
      /\ Then /\ UNCHANGED <<sessions, memory, clock>>
      /\ op.do # "fact"
  BY OpFacts DEF Fill, Pending, StoresInv, CallInv
<1>2. /\ sessionFile' = IF StoreOf = "sessions" THEN sessions ELSE sessionFile
      /\ memoryFile' = IF StoreOf = "memory" THEN memory ELSE memoryFile
      /\ unsaved' = [unsaved EXCEPT ![StoreOf] = "no"]
      /\ unsaved \in [{"sessions", "memory"} -> {"no", "old", "torn"}]
      /\ promise' = IF op.do = "save"
                    THEN [promise EXCEPT ![call.sid] = [values |-> {op.arg}, lost |-> {}]]
                    ELSE promise
      /\ promise \in [Sids -> [values : SUBSET (Values \cup {0}),
                               lost : SUBSET {"sessions", "memory"}]]
  BY <1>1 DEF Fill, StoresInv, StateTypeOK
<1>3. op.do = "save" =>
        /\ op.arg \in Values /\ sessions[call.sid].fact = op.arg /\ memory[call.sid].fact = op.arg
        /\ op.arg # 0
  BY <1>1, OpFacts, ConversationAssumption DEF StoresInv, FactInv
<1>4. StateTypeOK'
  <2>1. promise' \in [Sids -> [values : SUBSET (Values \cup {0}),
                              lost : SUBSET {"sessions", "memory"}]]
    BY <1>1, <1>2, <1>3
  <2> QED
    BY <1>1, <1>2, <2>1 DEF StoresInv, StateTypeOK
<1>5. CallInv'
  BY <1>1, CallGoesOn, ClockInt DEF StoresInv
<1>6. FactInv'
  <2>1. op.do # "save" => promise'[call.sid].values = promise[call.sid].values
    BY <1>2
  <2> QED
    BY <1>1, <2>1, FactsUnderWay DEF StoresInv
<1>7. /\ unsaved["memory"] = "no" /\ StoreOf = "sessions" => memoryFile = memory
      /\ unsaved["sessions"] = "no" /\ op.do = "item" => sessionFile = sessions
  BY <1>1 DEF StoresInv, FileInv, MemorySettled, SessionsSettled
<1>8. FileInv'
  <2>1. call'.step = "change" /\ (op.do = "memoryFact" => ~SessionsSettled')
    BY <1>1, NextOp DEF SessionsSettled
  <2> QED
    BY <1>1, <1>2, <1>7, <2>1 DEF FileInv
<1>9. PromiseInv'
  <2> SUFFICES ASSUME NEW s \in Sids PROVE PromiseOf(s)'
    BY DEF PromiseInv
  <2>1. PromiseOf(s)
    BY DEF StoresInv, PromiseInv
  <2>2. CASE op.do = "save" /\ s = call.sid
    <3>1. /\ promise'[s].values = {op.arg} /\ StoreOf = "sessions" /\ sessionFile' = sessions
          /\ memoryFile' = memoryFile /\ unsaved'["memory"] = unsaved["memory"]
      BY <1>1, <1>2, <2>2
    <3> QED
      BY <1>1, <1>3, <1>7, <2>2, <3>1 DEF PromiseOf
  <2>3. CASE ~(op.do = "save" /\ s = call.sid)
    <3>1. promise'[s] = promise[s]
      BY <1>2, <2>3
    <3>2. CASE StoreOf = "sessions"
      BY <1>1, <1>2, <2>1, <3>1, <3>2 DEF PromiseOf
    <3>3. CASE StoreOf = "memory"
      BY <1>1, <1>2, <2>1, <3>1, <3>3 DEF PromiseOf
    <3> QED
      BY <1>1, <3>2, <3>3
  <2> QED
    BY <2>2, <2>3
<1>10. DateInv'
  BY <1>1, <1>2 DEF StoresInv, DateInv
<1> QED
  BY <1>4, <1>5, <1>6, <1>8, <1>9, <1>10 DEF StoresInv

LEMMA PersistFailsKeeps ==
  ASSUME StoresInv, PersistFails PROVE StoresInv'
<1>1. /\ call.todo # <<>> /\ call.step \in {"empty", "fill"} /\ CallInv /\ call.sid \in Sids
      /\ StoreOf = IF op.do \in {"memoryFact", "item"} THEN "memory" ELSE "sessions"
      /\ UNCHANGED <<sessions, sessionFile, memory, memoryFile, clock, promise>>
      /\ IF op.do = "memoryFact" THEN Then ELSE call' = NoCall
      /\ unsaved \in [{"sessions", "memory"} -> {"no", "old", "torn"}]
      /\ call.step = "fill" => unsaved[StoreOf] = "torn"
  BY OpFacts DEF PersistFails, Pending, StoresInv, CallInv, StateTypeOK, FileInv
<1>2. /\ unsaved'[StoreOf] = IF unsaved[StoreOf] = "torn" THEN "torn" ELSE "old"
      /\ \A store \in {"sessions", "memory"} : store # StoreOf => unsaved'[store] = unsaved[store]
      /\ unsaved' \in [{"sessions", "memory"} -> {"no", "old", "torn"}]
  BY <1>1 DEF PersistFails
<1>3. StateTypeOK'
  BY <1>1, <1>2 DEF StoresInv, StateTypeOK
<1>4. CallInv' /\ FactInv'
  <2>1. CASE op.do = "memoryFact"
    BY <1>1, <2>1, CallGoesOn, FactsUnderWay, ClockInt DEF StoresInv
  <2>2. CASE op.do # "memoryFact"
    BY <1>1, <2>2, CallEnds
  <2> QED
    BY <2>1, <2>2
<1>5. FileInv'
  <2>1. CASE op.do = "memoryFact"
    <3>1. ~SessionsSettled' /\ call'.step = "change"
      BY <1>1, <2>1, NextOp DEF SessionsSettled
    <3> QED
      BY <1>1, <1>2, <2>1, <3>1 DEF FileInv
  <2>2. CASE op.do # "memoryFact"
    <3>1. StoreOf = "sessions" => (unsaved["memory"] = "no" => memoryFile = memory)
      BY DEF StoresInv, FileInv, MemorySettled
    <3>2. StoreOf = "memory" => (unsaved["sessions"] = "no" => sessionFile = sessions)
      BY <1>1, <2>2 DEF StoresInv, FileInv, SessionsSettled
    <3> QED
      BY <1>1, <1>2, <2>2, <3>1, <3>2, NoCallAt DEF FileInv
  <2> QED
    BY <2>1, <2>2
<1>6. PromiseInv'
  <2> SUFFICES ASSUME NEW s \in Sids PROVE PromiseOf(s)'
    BY DEF PromiseInv
  <2>1. PromiseOf(s)
    BY DEF StoresInv, PromiseInv
  <2>2. /\ unsaved'["sessions"] # "torn" => unsaved["sessions"] # "torn"
        /\ unsaved'["memory"] = "no" => unsaved["memory"] = "no"
    BY <1>1, <1>2
  <2> QED
    BY <1>1, <2>1, <2>2 DEF PromiseOf
<1>7. DateInv'
  BY <1>1 DEF StoresInv, DateInv
<1> QED
  BY <1>3, <1>4, <1>5, <1>6, <1>7 DEF StoresInv

LEMMA DoneKeeps ==
  ASSUME StoresInv, Done PROVE StoresInv'
<1>1. /\ call.todo = <<>> /\ call' = NoCall
      /\ UNCHANGED <<sessions, sessionFile, memory, memoryFile, clock, unsaved, promise>>
  BY DEF Done
<1>2. FileInv'
  BY <1>1, NoCallAt DEF StoresInv, FileInv, SessionsSettled, MemorySettled
<1> QED
  BY <1>1, <1>2, QuietParts, CallEnds DEF StoresInv

LEMMA CrashKeeps ==
  ASSUME StoresInv, Crash PROVE StoresInv'
<1>1. /\ sessions' = sessionFile /\ memory' = memoryFile /\ call' = NoCall
      /\ UNCHANGED <<sessionFile, memoryFile, clock>>
      /\ unsaved' = [store \in {"sessions", "memory"} |-> "no"]
      /\ promise \in [Sids -> [values : SUBSET (Values \cup {0}),
                               lost : SUBSET {"sessions", "memory"}]]
  BY DEF Crash, StoresInv, StateTypeOK
<1> DEFINE gone == (IF unsaved["sessions"] = "torn" THEN {"sessions"} ELSE {})
                   \cup (IF unsaved["memory"] # "no" THEN {"memory"} ELSE {})
<1>2. promise' = [s \in Sids |-> [promise[s] EXCEPT !.lost = promise[s].lost \cup gone]]
  <2>1. \A s \in Sids : promise'[s] = [promise[s] EXCEPT !.lost = promise[s].lost
                   \cup (IF unsaved["sessions"] = "torn" THEN {"sessions"} ELSE {})
                   \cup (IF unsaved["memory"] # "no" THEN {"memory"} ELSE {})]
    BY DEF Crash
  <2>2. promise' = [s \in Sids |-> promise'[s]]
    BY DEF Crash
  <2> QED
    BY <2>1, <2>2
<1>3. gone \subseteq {"sessions", "memory"}
  OBVIOUS
<1>4. \A s \in Sids : /\ promise'[s].values = promise[s].values
                      /\ promise'[s].lost = promise[s].lost \cup gone
                      /\ promise'[s] \in [values : SUBSET (Values \cup {0}),
                                         lost : SUBSET {"sessions", "memory"}]
  <2> HIDE DEF gone
  <2> QED
    BY <1>1, <1>2, <1>3
<1>5. StateTypeOK'
  BY <1>1, <1>2, <1>4 DEF StoresInv, StateTypeOK
<1>6. FileInv'
  BY <1>1, NoCallAt DEF FileInv
<1>7. PromiseInv'
  <2> SUFFICES ASSUME NEW s \in Sids PROVE PromiseOf(s)'
    BY DEF PromiseInv
  <2>1. PromiseOf(s)
    BY DEF StoresInv, PromiseInv
  <2> QED
    BY <1>1, <1>4, <2>1 DEF PromiseOf
<1>8. DateInv'
  BY <1>1 DEF StoresInv, DateInv
<1> QED
  BY <1>1, <1>5, <1>6, <1>7, <1>8, CallEnds DEF StoresInv

LEMMA AppendMessageKeeps ==
  ASSUME StoresInv, NEW s \in Sids, NEW text \in Texts, NEW once \in BOOLEAN,
         AppendMessage(s, text, once)
  PROVE  StoresInv'
<1> DEFINE todo == <<Op("open", 0), Op(IF once THEN "appendOnce" ELSE "append", text)>>
<1>1. IsTodo(todo) /\ todo # <<>> /\ Head(todo).do = "open" /\ ~SavesFact(todo)
  BY DEF IsTodo, MessageTail, Op, SavesFact, LastOp
<1>2. /\ Call(s, todo)
      /\ UNCHANGED <<sessions, sessionFile, memory, memoryFile, clock, unsaved, promise>>
  BY DEF AppendMessage
<1>3. promise \in [Sids -> [values : SUBSET (Values \cup {0}),
                           lost : SUBSET {"sessions", "memory"}]]
  BY DEF StoresInv, StateTypeOK
<1> HIDE DEF todo
<1> QED
  BY <1>1, <1>2, <1>3, BeginKeeps

LEMMA MergeFactKeeps ==
  ASSUME StoresInv, NEW s \in Sids, NEW value \in Values, MergeFact(s, value)
  PROVE  StoresInv'
<1> DEFINE todo == <<Op("open", 0), Op("fact", value), Op("memoryFact", value), Op("save", value)>>
<1>1. IsTodo(todo) /\ todo # <<>> /\ Head(todo).do = "open" /\ LastOp(todo).arg = value
  BY DEF IsTodo, FactTail, Op, LastOp
<1>2. /\ Call(s, todo) /\ UNCHANGED <<sessions, sessionFile, memory, memoryFile, clock, unsaved>>
      /\ promise' = [promise EXCEPT ![s].values = @ \cup {value}]
      /\ promise \in [Sids -> [values : SUBSET (Values \cup {0}),
                               lost : SUBSET {"sessions", "memory"}]]
  BY DEF MergeFact, StoresInv, StateTypeOK
<1>3. /\ promise' \in [Sids -> [values : SUBSET (Values \cup {0}),
                                lost : SUBSET {"sessions", "memory"}]]
      /\ \A r \in Sids : /\ promise'[r].lost = promise[r].lost
                          /\ promise[r].values \subseteq promise'[r].values
                          /\ promise'[r].values \subseteq promise[r].values \cup Values
      /\ value \in promise'[s].values
  BY <1>2
<1> HIDE DEF todo
<1> QED
  BY <1>1, <1>2, <1>3, BeginKeeps

LEMMA WriteTurnMemoriesKeeps ==
  ASSUME StoresInv, NEW s \in Sids, NEW question \in Contents, NEW answer \in Contents,
         WriteTurnMemories(s, question, answer)
  PROVE  StoresInv'
<1> DEFINE todo == <<Op("item", question), Op("item", answer)>>
<1>1. /\ IsTodo(todo) /\ todo # <<>> /\ Head(todo).do = "item" /\ Len(todo) = 2
      /\ ~SavesFact(todo)
  BY DEF IsTodo, Op, SavesFact, LastOp
<1>2. /\ Call(s, todo) /\ clock + 2 <= Clock
      /\ UNCHANGED <<sessions, sessionFile, memory, memoryFile, clock, unsaved, promise>>
  BY DEF WriteTurnMemories
<1>3. promise \in [Sids -> [values : SUBSET (Values \cup {0}),
                           lost : SUBSET {"sessions", "memory"}]]
  BY DEF StoresInv, StateTypeOK
<1> HIDE DEF todo
<1> QED
  BY <1>1, <1>2, <1>3, BeginKeeps

-----------------------------------------------------------------------------
(* The theorems *)

LEMMA StoresBegin == StoresInit => StoresInv
<1> SUFFICES ASSUME StoresInit PROVE StoresInv
  OBVIOUS
<1>1. StateTypeOK
  BY NothingStored, ConversationAssumption DEF StoresInit, StateTypeOK
<1>2. CallInv /\ FactInv
  BY NoCallAt DEF StoresInit, CallInv, FactInv, IsTodo, SavesFact
<1>3. FileInv
  BY NoCallAt DEF StoresInit, FileInv
<1>4. PromiseInv /\ DateInv
  BY NothingStored DEF StoresInit, PromiseInv, PromiseOf, DateInv
<1> QED
  BY <1>1, <1>2, <1>3, <1>4 DEF StoresInv

(* Only a change of the memory's items can lose one. *)
KeptAll == ChangeMemory => \A s \in Sids : \A i \in DOMAIN memory[s].items :
          Fresher(memory'[s].items, memory[s].items, i)

LEMMA StepInv ==
  ASSUME StoresInv, [StoresNext]_storeVars PROVE StoresInv' /\ KeptAll
<1>1. KeptAll
  BY ChangeMemoryStep DEF KeptAll
<1>2. CASE UNCHANGED storeVars
  <2>1. StateTypeOK' /\ PromiseInv' /\ DateInv'
    BY <1>2, QuietParts DEF storeVars
  <2>2. CallInv' /\ FactInv' /\ FileInv'
    BY <1>2 DEF storeVars, StoresInv, CallInv, FactInv, FileInv, SessionsSettled, MemorySettled, op,
                StoreOf
  <2> QED
    BY <1>1, <2>1, <2>2 DEF StoresInv
<1>3. CASE StoresNext
  BY <1>1, <1>3, AppendMessageKeeps, MergeFactKeeps, WriteTurnMemoriesKeeps, SkipKeeps,
     ChangeSessionKeeps, ChangeMemoryKeeps, EmptyKeeps, FillKeeps, PersistFailsKeeps, DoneKeeps,
     CrashKeeps DEF StoresNext
<1> QED
  BY <1>1, <1>2, <1>3

LEMMA InvAcknowledged == StoresInv => AcknowledgedSurvives
<1> SUFFICES ASSUME StoresInv PROVE AcknowledgedSurvives
  OBVIOUS
<1>1. StoresTypeOK
  BY DEF StoresInv, StateTypeOK, CallInv, StoresTypeOK
<1>2. call = NoCall =>
        /\ unsaved["sessions"] = "no" => sessionFile = sessions
        /\ unsaved["memory"] = "no" => memoryFile = memory
  BY NoCallAt DEF StoresInv, FileInv, SessionsSettled, MemorySettled
<1>3. ASSUME NEW s \in Sids, promise[s].lost # {"sessions", "memory"}
      PROVE  Recalled(s) \in promise[s].values
  <2>1. PromiseOf(s) /\ promise[s].lost \subseteq {"sessions", "memory"}
    BY DEF StoresInv, PromiseInv, StateTypeOK
  <2>2. "sessions" \notin promise[s].lost \/ "memory" \notin promise[s].lost
    BY <1>3, <2>1
  <2> QED
    BY <2>1, <2>2 DEF PromiseOf, Recalled
<1> QED
  BY <1>1, <1>2, <1>3 DEF AcknowledgedSurvives

(* Between two calls a store whose last write worked has in its file all it *)
(* answers from, and a fact that was acknowledged (session_store.py,        *)
(* memory_store.py) is recalled until both files have lost it.              *)
THEOREM AcknowledgedFactsSurvive == StoresSpec => []AcknowledgedSurvives
<1>1. StoresInv /\ [StoresNext]_storeVars => StoresInv'
  BY StepInv
<1> QED
  BY StoresBegin, <1>1, InvAcknowledged, PTL DEF StoresSpec

(* A full bucket of memory items gives up one only for later ones           *)
(* (_write_memory_item, memory_store.py).                                   *)
THEOREM FreshestItemsKept == StoresSpec => FreshestKept
<1>1. StoresInv /\ [StoresNext]_storeVars => StoresInv'
  BY StepInv
<1>2. StoresInv /\ [StoresNext]_storeVars => [ChangeMemory => \A s \in Sids :
        \A i \in DOMAIN memory[s].items :
          LET kept == memory'[s].items
          IN  (\A k \in DOMAIN kept : kept[k].text # memory[s].items[i].text)
                => \A k \in DOMAIN kept : kept[k].at > memory[s].items[i].at]_storeVars
  BY StepInv DEF KeptAll, Fresher
<1> QED
  BY StoresBegin, <1>1, <1>2, PTL DEF StoresSpec, FreshestKept

-----------------------------------------------------------------------------
(* The inductive invariant: a row that is committed, or that an open       *)
(* transaction will commit, is canonical and its answer is stored or will  *)
(* be stored with it.                                                      *)

WellFormed(t, answer) ==
  /\ t \in Row
  /\ IsCanonical(t)
  /\ t.result # Nobody => t.result \in stored \cup {answer}

Transaction == [row : Row, answer : Sources \cup {Nobody}]

DataInv ==
  /\ row \in Row \cup {Nobody}
  /\ stored \subseteq Sources
  /\ overdue \in BOOLEAN
  /\ tx \in [Owners -> Transaction \cup {Nobody}]
  /\ Exists => WellFormed(row, Nobody)
  /\ \A o \in Owners : IsOpen(o) => WellFormed(tx[o].row, tx[o].answer)

ControlInv ==
  /\ stream \in [Streams -> {"new", "preparing", "running", "over"}]
  /\ request \in [Confirms -> {"new", "claiming", "scheduling", "submitting",
                               "saved", "over"}]
  /\ worker \in [Confirms -> {"none", "calling", "applying", "cancelling",
                              "removing", "over"}]
  /\ running \in BOOLEAN
  /\ registered \in Confirms \cup {Nobody}
  /\ ticking \subseteq Confirms
  /\ sweep \in {"idle", "cancelling", "removing", "saved"}
  /\ beats \in 0..MaxBeats
  /\ crashes \in 0..MaxCrashes

IInv == DataInv /\ ControlInv

-----------------------------------------------------------------------------
(* Rows *)

(* applyCanonicalTaskState makes a canonical row of any arguments. *)
LEMMA CanonicalRow ==
  ASSUME NEW status \in Status, NEW sub \in BOOLEAN,
         NEW result \in Sources \cup {Nobody}, NEW error \in BOOLEAN,
         NEW answer, result # Nobody => answer = result
  PROVE  WellFormed(Canonical(status, sub, result, error), answer)
BY DEF WellFormed, Canonical, Row, IsCanonical, Failure

LEMMA NoAnswerRow ==
  ASSUME NEW status \in Status, NEW sub \in BOOLEAN, NEW error \in BOOLEAN,
         NEW answer
  PROVE  /\ WellFormed(Canonical(status, sub, Nobody, error), answer)
         /\ Canonical(status, sub, Nobody, error).result = Nobody
         /\ Canonical(status, sub, Nobody, error).status = status
BY DEF WellFormed, Canonical, Row, IsCanonical, Failure

(* What FastAPI's answer makes of the row is stored under its own source. *)
LEMMA AnsweredRow ==
  ASSUME NEW status \in Status, NEW sub \in BOOLEAN,
         NEW origin \in Sources \cup {Nobody}, NEW error \in BOOLEAN
  PROVE  LET t == Answered(status, sub, origin, error) IN
           /\ WellFormed(t, t.result)
           /\ t.result \in Sources \cup {Nobody}
BY DEF Answered, WellFormed, Canonical, Row, Status, IsCanonical, Failure, Terminal

(* The lifecycle rules keep a row well formed. *)
LEMMA RefreshedRow ==
  ASSUME DataInv, Exists
  PROVE  WellFormed(Refreshed(row), Nobody)
<1>1. WellFormed(row, Nobody)
  BY DEF DataInv
<1>2. {"EXPIRED", "FAILED"} \subseteq Status
  BY DEF Status, Terminal, Failure
<1> QED
  BY <1>1, <1>2, NoAnswerRow DEF Refreshed

(* An event makes a well-formed row of one that is not terminal. *)
LEMMA EventRowIsWellFormed ==
  ASSUME NEW t, WellFormed(t, Nobody), t.status \notin Terminal,
         NEW type \in EventTypes, NEW sub \in BOOLEAN,
         NEW origin \in Sources \cup {Nobody}
  PROVE  LET u == EventRow(t, type, sub, origin) IN
           /\ WellFormed(u, u.result)
           /\ u.result \in Sources \cup {Nobody}
<1>1. t.result = Nobody
  BY DEF WellFormed, IsCanonical, Terminal
<1>2. WellFormed([t EXCEPT !.fresh = TRUE], Nobody)
      /\ [t EXCEPT !.fresh = TRUE].result = Nobody
  BY <1>1 DEF WellFormed, Row, IsCanonical
<1>3. WellFormed(Generating, Nobody) /\ Generating.result = Nobody
  BY NoAnswerRow DEF Generating, Status
<1>4. CASE type \in {"progress", "other"}
  BY <1>2, <1>3, <1>4 DEF EventRow
<1>5. CASE type = "awaiting_confirmation"
  BY <1>5, NoAnswerRow DEF EventRow, Status
<1>6. CASE type = "error"
  BY <1>6, NoAnswerRow DEF EventRow, Status, Terminal, Failure
<1>7. CASE type = "final"
  BY <1>7 DEF EventRow, Canonical, WellFormed, Row, Status, Terminal, Failure,
              IsCanonical
<1> QED
  BY <1>4, <1>5, <1>6, <1>7 DEF EventTypes

-----------------------------------------------------------------------------
(* Transactions *)

(* A step that touches neither the row nor a transaction. *)
LEMMA SameData ==
  ASSUME DataInv, UNCHANGED <<rowVars, tx>>
  PROVE  DataInv'
BY DEF DataInv, rowVars, Exists, IsOpen, WellFormed, IsCanonical

(* A transaction that will write a well-formed row is opened. *)
LEMMA OpenedData ==
  ASSUME DataInv, UNCHANGED rowVars, NEW o \in Owners,
         NEW t, NEW answer \in Sources \cup {Nobody}, WellFormed(t, answer),
         tx' = Opened(o, t, answer)
  PROVE  DataInv'
<1>1. [row |-> t, answer |-> answer] \in Transaction
  BY DEF Transaction, WellFormed
<1>2. tx' \in [Owners -> Transaction \cup {Nobody}]
  BY <1>1 DEF DataInv, Opened
<1>3. ASSUME NEW p \in Owners, IsOpen(p)'
      PROVE  WellFormed(tx[p].row, tx[p].answer)'
  <2>1. CASE p = o
    BY <2>1 DEF DataInv, Opened, WellFormed, IsCanonical, rowVars
  <2>2. CASE p # o
    BY <1>3, <2>2 DEF DataInv, Opened, WellFormed, IsCanonical, IsOpen, rowVars
  <2> QED
    BY <2>1, <2>2
<1> QED
  BY <1>2, <1>3 DEF DataInv, rowVars, Exists, WellFormed, IsCanonical

(* An open transaction is committed. *)
LEMMA CommittedData ==
  ASSUME DataInv, NEW o \in Owners, Commit(o)
  PROVE  DataInv'
<1>1. tx[o] \in Transaction /\ WellFormed(tx[o].row, tx[o].answer)
  BY DEF DataInv, Commit, IsOpen
<1>2. stored' = stored \cup ({tx[o].answer} \ {Nobody}) /\ stored' \subseteq Sources
  BY <1>1 DEF DataInv, Commit, Transaction
<1>3. tx' \in [Owners -> Transaction \cup {Nobody}]
  BY DEF DataInv, Commit
<1>4. row' \in Row /\ (Exists => WellFormed(row, Nobody))'
  BY <1>1, <1>2 DEF Commit, WellFormed, IsCanonical
<1>5. ASSUME NEW p \in Owners, IsOpen(p)'
      PROVE  WellFormed(tx[p].row, tx[p].answer)'
  <2>1. p # o /\ tx'[p] = tx[p] /\ IsOpen(p)
    BY <1>5 DEF DataInv, Commit, IsOpen
  <2> QED
    BY <2>1, <1>2 DEF DataInv, WellFormed, IsCanonical
<1> QED
  BY <1>2, <1>3, <1>4, <1>5 DEF DataInv, Commit

(* Transactions are rolled back, by an exception or a restart. *)
LEMMA RolledBackData ==
  ASSUME DataInv, UNCHANGED rowVars, tx' \in [Owners -> Transaction \cup {Nobody}],
         \A o \in Owners : tx'[o] \in {tx[o], Nobody}
  PROVE  DataInv'
BY DEF DataInv, rowVars, Exists, IsOpen, WellFormed, IsCanonical

(* applyStreamEvent, in whichever thread. *)
LEMMA StreamEventData ==
  ASSUME DataInv, Exists, UNCHANGED rowVars, NEW o \in Owners,
         NEW type \in EventTypes, NEW sub \in BOOLEAN,
         NEW origin \in Sources \cup {Nobody},
         ApplyStreamEvent(o, type, sub, origin)
  PROVE  DataInv'
<1> DEFINE t == Refreshed(row)
           u == EventRow(t, type, sub, origin)
<1>1. WellFormed(t, Nobody)
  BY RefreshedRow
<1> HIDE DEF t
<1>2. CASE t.status \in Terminal /\ t = row
  BY <1>2, SameData DEF ApplyStreamEvent, t
<1>3. CASE t.status \in Terminal /\ t # row
  BY <1>1, <1>3, OpenedData DEF ApplyStreamEvent, t
<1>4. CASE t.status \notin Terminal
  <2>1. WellFormed(u, u.result) /\ u.result \in Sources \cup {Nobody}
    BY <1>1, <1>4, EventRowIsWellFormed
  <2>2. tx' = Opened(o, u, u.result)
    BY <1>4 DEF ApplyStreamEvent, t
  <2> QED
    BY <2>1, <2>2, OpenedData
<1> QED
  BY <1>2, <1>3, <1>4

-----------------------------------------------------------------------------
(* The actions.  Those of a stream, of a confirm and of the scheduler that *)
(* only read, open or commit reduce to the lemmas above; what they do to   *)
(* the control state is a matter of types.                                 *)

LEMMA CreateTaskInv == ASSUME IInv, CreateTask PROVE IInv'
<1>1. PICK status \in Status, sub \in BOOLEAN, error \in BOOLEAN,
           origin \in {Creator, Nobody} :
         /\ row' = Answered(status, sub, origin, error)
         /\ stored' = stored \cup ({row'.result} \ {Nobody})
  BY DEF CreateTask
<1>2. /\ WellFormed(row', row'.result)
      /\ row'.result \in Sources \cup {Nobody}
  BY <1>1, AnsweredRow DEF Sources
<1>3. \A o \in Owners : IsOpen(o)' => WellFormed(tx[o].row, tx[o].answer)'
  BY <1>1 DEF CreateTask, IInv, DataInv, WellFormed, IsCanonical, IsOpen
<1>4. DataInv'
  <2>1. WellFormed(row, Nobody)'
    BY <1>1, <1>2 DEF WellFormed, IsCanonical
  <2>2. row' \in Row /\ stored' \subseteq Sources
    BY <1>1, <1>2 DEF WellFormed, IInv, DataInv
  <2> QED
    BY <1>3, <2>1, <2>2 DEF CreateTask, IInv, DataInv
<1>5. ControlInv'
  BY DEF IInv, ControlInv, CreateTask, beatVars
<1> QED
  BY <1>4, <1>5 DEF IInv

LEMMA CreateStreamingTaskInv ==
  ASSUME IInv, NEW s \in Streams, CreateStreamingTask(s) PROVE IInv'
<1>1. WellFormed(row', Nobody) /\ UNCHANGED <<stored, overdue, tx>>
  BY NoAnswerRow DEF CreateStreamingTask, Generating, Status
<1>2. DataInv'
  BY <1>1 DEF IInv, DataInv, WellFormed, IsCanonical, IsOpen
<1>3. ControlInv'
  BY DEF IInv, ControlInv, CreateStreamingTask, beatVars
<1> QED
  BY <1>2, <1>3 DEF IInv

LEMMA TimeInv ==
  ASSUME IInv, ExpireAtPasses \/ HeartbeatAges PROVE IInv'
<1>1. ControlInv'
  BY DEF IInv, ControlInv, ExpireAtPasses, HeartbeatAges, beatVars
<1>2. DataInv'
  <2>1. CASE ExpireAtPasses
    BY <2>1 DEF IInv, DataInv, ExpireAtPasses, Exists, IsOpen, WellFormed,
                IsCanonical
  <2>2. CASE HeartbeatAges
    <3>1. WellFormed(row, Nobody) /\ row' = [row EXCEPT !.fresh = FALSE]
          /\ UNCHANGED <<stored, overdue, tx>>
      BY <2>2 DEF HeartbeatAges, IInv, DataInv
    <3>2. WellFormed(row', Nobody)
      BY <3>1 DEF WellFormed, Row, IsCanonical
    <3> QED
      BY <3>1, <3>2 DEF IInv, DataInv, IsOpen, WellFormed, IsCanonical
  <2> QED
    BY <2>1, <2>2
<1> QED
  BY <1>1, <1>2 DEF IInv

(* The owners of the transactions are pairwise different names. *)
LEMMA OwnersOf ==
  /\ \A s \in Streams : <<"event", s>> \in Owners /\ <<"disconnect", s>> \in Owners
  /\ \A c \in Confirms : /\ <<"request", c>> \in Owners
                         /\ <<"worker", c>> \in Owners
                         /\ <<"beat", c>> \in Owners
  /\ Sweeper \in Owners /\ Poller \in Owners
BY DEF Owners, Sweeper, Poller

LEMMA StreamControl ==
  ASSUME IInv, NEW s \in Streams, StreamStep(s), ~CreateStreamingTask(s)
  PROVE  ControlInv'
<1>1. UNCHANGED <<request, worker, running, beatVars, sweep, crashes>>
  BY DEF StreamStep, PrepareConfirmStream, StreamEvent, StreamCommit, StreamEnds,
         ClientDisconnects, DisconnectCommit
<1>2. stream' \in [Streams -> {"new", "preparing", "running", "over"}]
  BY DEF IInv, ControlInv, StreamStep, PrepareConfirmStream, StreamEvent,
         StreamCommit, StreamEnds, ClientDisconnects, DisconnectCommit
<1> QED
  BY <1>1, <1>2 DEF IInv, ControlInv, beatVars

LEMMA StreamData ==
  ASSUME IInv, NEW s \in Streams, StreamStep(s), ~CreateStreamingTask(s)
  PROVE  DataInv'
<1> USE OwnersOf DEF IInv
<1>1. CASE PrepareConfirmStream(s)
  <2>1. WellFormed(Generating, Nobody)
    BY NoAnswerRow DEF Generating, Status
  <2>2. CASE tx' = Opened(<<"event", s>>, Generating, Nobody)
    BY <1>1, <2>1, <2>2, OpenedData DEF PrepareConfirmStream
  <2>3. CASE UNCHANGED tx
    BY <1>1, <2>3, SameData DEF PrepareConfirmStream
  <2> QED
    BY <1>1, <2>2, <2>3 DEF PrepareConfirmStream
<1>2. CASE StreamEvent(s)
  <2>1. PICK type \in EventTypes, sub \in BOOLEAN, origin \in {s, Nobody} :
          ApplyStreamEvent(<<"event", s>>, type, sub, origin)
    BY <1>2 DEF StreamEvent
  <2> QED
    BY <1>2, <2>1, StreamEventData DEF StreamEvent, Sources
<1>3. CASE StreamCommit(s) \/ DisconnectCommit(s)
  BY <1>3, CommittedData DEF StreamCommit, DisconnectCommit
<1>4. CASE StreamEnds(s)
  BY <1>4, SameData DEF StreamEnds
<1>5. CASE ClientDisconnects(s)
  <2>1. "error" \in EventTypes
    BY DEF EventTypes
  <2> QED
    BY <1>5, <2>1, StreamEventData DEF ClientDisconnects
<1> QED
  BY <1>1, <1>2, <1>3, <1>4, <1>5 DEF StreamStep

LEMMA RequestControl ==
  ASSUME IInv, NEW c \in Confirms, ConfirmTask(c) \/ RequestStep(c)
  PROVE  ControlInv'
<1> USE DEF IInv, ControlInv, beatVars
<1>1. CASE ConfirmTask(c)
  BY <1>1 DEF ConfirmTask
<1>2. CASE ClaimTask(c)
  BY <1>2 DEF ClaimTask
<1>3. CASE ReplaceHeartbeat(c)
  BY <1>3 DEF ReplaceHeartbeat, CancelHeartbeat
<1>4. CASE SubmitWorker(c)
  BY <1>4 DEF SubmitWorker
<1>5. CASE ConfirmCommit(c)
  BY <1>5 DEF ConfirmCommit
<1> QED
  BY <1>1, <1>2, <1>3, <1>4, <1>5 DEF RequestStep

LEMMA RequestData ==
  ASSUME IInv, NEW c \in Confirms, ConfirmTask(c) \/ RequestStep(c)
  PROVE  DataInv'
<1> USE OwnersOf DEF IInv
<1>1. CASE ConfirmTask(c)
  <2>1. WellFormed(Generating, Nobody) /\ WellFormed(Refreshed(row), Nobody)
    BY <1>1, NoAnswerRow, RefreshedRow DEF Generating, Status, ConfirmTask
  <2>2. PICK t \in {Generating, Refreshed(row)} :
          tx' = tx \/ tx' = Opened(<<"request", c>>, t, Nobody)
    BY <1>1 DEF ConfirmTask
  <2>3. CASE tx' = tx
    BY <1>1, <2>3, SameData DEF ConfirmTask
  <2>4. CASE tx' = Opened(<<"request", c>>, t, Nobody)
    BY <1>1, <2>1, <2>4, OpenedData DEF ConfirmTask
  <2> QED
    BY <2>2, <2>3, <2>4
<1>2. CASE ClaimTask(c) \/ ReplaceHeartbeat(c) \/ SubmitWorker(c)
  BY <1>2, SameData DEF ClaimTask, ReplaceHeartbeat, SubmitWorker
<1>3. CASE ConfirmCommit(c)
  BY <1>3, SameData, CommittedData DEF ConfirmCommit
<1> QED
  BY <1>1, <1>2, <1>3 DEF RequestStep

LEMMA WorkerControl ==
  ASSUME IInv, NEW c \in Confirms, WorkerStep(c)
  PROVE  ControlInv'
<1> USE DEF IInv, ControlInv, beatVars
<1>1. CASE WorkerAnswers(c) \/ WorkerFails(c) \/ WorkerCommit(c)
  BY <1>1 DEF WorkerAnswers, WorkerFails, WorkerCommit
<1>2. CASE WorkerCancelsHeartbeat(c)
  BY <1>2 DEF WorkerCancelsHeartbeat, CancelHeartbeat
<1>3. CASE WorkerEnds(c)
  BY <1>3 DEF WorkerEnds
<1> QED
  BY <1>1, <1>2, <1>3 DEF WorkerStep

LEMMA WorkerData ==
  ASSUME IInv, NEW c \in Confirms, WorkerStep(c)
  PROVE  DataInv'
<1> USE OwnersOf DEF IInv
<1>1. CASE WorkerAnswers(c)
  <2>1. PICK status \in Status, sub \in BOOLEAN, origin \in {c, Nobody} :
          LET t == Answered(status, sub, origin, status = "FAILED")
          IN tx' = Opened(<<"worker", c>>, t, t.result)
    BY <1>1 DEF WorkerAnswers
  <2> DEFINE error == status = "FAILED"
             t == Answered(status, sub, origin, error)
  <2>2. tx' = Opened(<<"worker", c>>, t, t.result)
    BY <2>1
  <2>3. error \in BOOLEAN /\ origin \in Sources \cup {Nobody}
    BY DEF Sources
  <2> HIDE DEF error
  <2>4. WellFormed(t, t.result) /\ t.result \in Sources \cup {Nobody}
    BY <2>3, AnsweredRow
  <2> HIDE DEF t
  <2> QED
    BY <1>1, <2>2, <2>4, OpenedData DEF WorkerAnswers
<1>2. CASE WorkerFails(c)
  <2>1. WellFormed(Canonical("FAILED", FALSE, Nobody, TRUE), Nobody)
    BY NoAnswerRow DEF Status, Terminal, Failure
  <2> QED
    BY <1>2, <2>1, OpenedData DEF WorkerFails
<1>3. CASE WorkerCommit(c)
  BY <1>3, CommittedData DEF WorkerCommit
<1>4. CASE WorkerCancelsHeartbeat(c) \/ WorkerEnds(c)
  BY <1>4, SameData DEF WorkerCancelsHeartbeat, WorkerEnds
<1> QED
  BY <1>1, <1>2, <1>3, <1>4 DEF WorkerStep

LEMMA BeatInv ==
  ASSUME IInv, NEW c \in Confirms, BeatStep(c)
  PROVE  IInv'
<1>1. ControlInv'
  BY BoundsAssumption
  DEF IInv, ControlInv, BeatStep, Beat, BeatCommit, BeatThrows, beatVars
<1>2. DataInv'
  <2> USE OwnersOf DEF IInv
  <2>1. CASE Beat(c)
    <3> DEFINE t == [row EXCEPT !.fresh = TRUE]
    <3>1. WellFormed(row, Nobody)
      BY <2>1 DEF Beat, DataInv
    <3>2. WellFormed(t, Nobody)
      BY <3>1 DEF WellFormed, Row, IsCanonical
    <3>3. tx' = Opened(<<"beat", c>>, t, Nobody) /\ UNCHANGED rowVars
      BY <2>1 DEF Beat
    <3>4. <<"beat", c>> \in Owners /\ Nobody \in Sources \cup {Nobody} /\ DataInv
      OBVIOUS
    <3> HIDE DEF t
    <3> QED
      BY <3>2, <3>3, <3>4, OpenedData
  <2>2. CASE BeatCommit(c)
    BY <2>2, CommittedData DEF BeatCommit
  <2>3. CASE BeatThrows(c)
    <3>1. tx' \in [Owners -> Transaction \cup {Nobody}]
          /\ \A o \in Owners : tx'[o] \in {tx[o], Nobody}
      BY <2>3 DEF BeatThrows, DataInv
    <3> QED
      BY <2>3, <3>1, RolledBackData DEF BeatThrows
  <2> QED
    BY <2>1, <2>2, <2>3 DEF BeatStep
<1> QED
  BY <1>1, <1>2 DEF IInv

LEMMA ScheduledInv ==
  ASSUME IInv, SweepStep \/ GetTaskState \/ PollCommit
  PROVE  IInv'
<1>1. ControlInv'
  BY DEF IInv, ControlInv, SweepStep, ReconcileStalledTasks, CancelHeartbeat,
         SweepCancelsHeartbeat, SweepRemovesTask, SweepCommit, GetTaskState,
         PollCommit, beatVars
<1>2. DataInv'
  <2> USE OwnersOf DEF IInv
  <2>1. CASE ReconcileStalledTasks
    BY <2>1, RefreshedRow, OpenedData DEF ReconcileStalledTasks
  <2>2. CASE GetTaskState
    BY <2>2, RefreshedRow, OpenedData DEF GetTaskState
  <2>3. CASE SweepCancelsHeartbeat \/ SweepRemovesTask
    BY <2>3, SameData DEF SweepCancelsHeartbeat, SweepRemovesTask
  <2>4. CASE SweepCommit \/ PollCommit
    BY <2>4, CommittedData DEF SweepCommit, PollCommit
  <2> QED
    BY <2>1, <2>2, <2>3, <2>4 DEF SweepStep
<1> QED
  BY <1>1, <1>2 DEF IInv

LEMMA RestartInv == ASSUME IInv, Restart PROVE IInv'
<1>1. ControlInv'
  <2>1. crashes' \in 0..MaxCrashes
    BY BoundsAssumption DEF IInv, ControlInv, Restart
  <2>2. /\ stream' \in [Streams -> {"new", "preparing", "running", "over"}]
        /\ request' \in [Confirms -> {"new", "claiming", "scheduling",
                                      "submitting", "saved", "over"}]
        /\ worker' \in [Confirms -> {"none", "calling", "applying",
                                     "cancelling", "removing", "over"}]
    BY DEF Restart
  <2> QED
    BY <2>1, <2>2 DEF IInv, ControlInv, Restart
<1>2. tx' \in [Owners -> Transaction \cup {Nobody}]
      /\ \A o \in Owners : tx'[o] \in {tx[o], Nobody}
  BY DEF Restart
<1>3. DataInv'
  BY <1>2, RolledBackData DEF IInv, Restart
<1> QED
  BY <1>1, <1>3 DEF IInv

-----------------------------------------------------------------------------

LEMMA InitInv == Init => IInv
<1> SUFFICES ASSUME Init PROVE IInv
  OBVIOUS
<1>1. DataInv
  BY DEF Init, DataInv, Exists, IsOpen
<1>2. ControlInv
  <2>1. 0 \in 0..MaxBeats /\ 0 \in 0..MaxCrashes
    BY BoundsAssumption
  <2>2. /\ stream \in [Streams -> {"new", "preparing", "running", "over"}]
        /\ request \in [Confirms -> {"new", "claiming", "scheduling",
                                     "submitting", "saved", "over"}]
        /\ worker \in [Confirms -> {"none", "calling", "applying",
                                    "cancelling", "removing", "over"}]
    BY DEF Init
  <2> QED
    BY <2>1, <2>2 DEF Init, ControlInv
<1> QED
  BY <1>1, <1>2 DEF IInv

LEMMA NextInv == IInv /\ [Next]_vars => IInv'
<1> SUFFICES ASSUME IInv, [Next]_vars PROVE IInv'
  OBVIOUS
<1>1. CASE UNCHANGED vars \/ Quiescent
  <2>1. UNCHANGED vars
    BY <1>1 DEF Quiescent
  <2>2. DataInv'
    BY <2>1, SameData DEF IInv, vars
  <2>3. ControlInv'
    BY <2>1 DEF IInv, ControlInv, vars, beatVars
  <2> QED
    BY <2>2, <2>3 DEF IInv
<1>2. CASE CreateTask
  BY <1>2, CreateTaskInv
<1>3. CASE ExpireAtPasses \/ HeartbeatAges
  BY <1>3, TimeInv
<1>4. CASE SweepStep \/ GetTaskState \/ PollCommit
  BY <1>4, ScheduledInv
<1>5. CASE Restart
  BY <1>5, RestartInv
<1>6. ASSUME NEW s \in Streams, StreamStep(s) PROVE IInv'
  BY <1>6, CreateStreamingTaskInv, StreamControl, StreamData DEF IInv
<1>7. ASSUME NEW c \in Confirms,
             ConfirmTask(c) \/ RequestStep(c) \/ WorkerStep(c) \/ BeatStep(c)
      PROVE  IInv'
  BY <1>7, RequestControl, RequestData, WorkerControl, WorkerData, BeatInv
  DEF IInv
<1> QED
  BY <1>1, <1>2, <1>3, <1>4, <1>5, <1>6, <1>7 DEF Next

LEMMA TaskHolds == Spec => []IInv
BY InitInv, NextInv, PTL DEF Spec

(* Every variable keeps its type. *)
THEOREM TypeCorrect == Spec => []TypeOK
<1>1. IInv => TypeOK
  BY DEF IInv, DataInv, ControlInv, TypeOK, Transaction
<1> QED
  BY <1>1, TaskHolds, PTL

(* sub_questions, final_result and error_message mean what the comment     *)
(* above applyCanonicalTaskState says in every row that is ever committed. *)
THEOREM FieldsAreCanonical == Spec => []CanonicalFields
<1>1. IInv => CanonicalFields
  BY DEF IInv, DataInv, WellFormed, CanonicalFields
<1> QED
  BY <1>1, TaskHolds, PTL

(* Whoever delivered the answer a row shows has an assistant message in    *)
(* the conversation.                                                       *)
THEOREM AnswersAreStored == Spec => []AnswerStored
<1>1. IInv => AnswerStored
  BY DEF IInv, DataInv, WellFormed, AnswerStored
<1> QED
  BY <1>1, TaskHolds, PTL

=============================================================================
