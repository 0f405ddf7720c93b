--------------------------- MODULE KnowledgeIndex ---------------------------
(***************************************************************************)
(* The knowledge base: the Chroma collections of texts, parents and native *)
(* image vectors, and the Elasticsearch mirror of the texts, as start-up   *)
(* ingestion (startup_ingest.py), rechunk --apply (rechunk.py), the admin  *)
(* endpoint (utils.py) and the reconciliation (keyword_index.py) write     *)
(* them.                                                                   *)
(*                                                                         *)
(* Steps.  One call of a store is one step; the process may die between    *)
(* any two, any call may fail, and a file may change at any time.  Jobs do *)
(* not overlap: "Run with ingestion paused" (rechunk.py:3).                *)
(*                                                                         *)
(* Data.  A file is its version; its chunks and parents are numbered from  *)
(* 1 to Pieces[version] (parent-child chunking), so versions share ids.  A *)
(* record is kept under a document id and a number, and says its path.     *)
(*                                                                         *)
(* The document id is the file's name with unsafe characters replaced: two *)
(* images may get the same (a text's has a hash of its path then).  A      *)
(* start-up gives the second the suffix "__2", but only when the first is  *)
(* named by the same start-up, and not skipped as indexed: the later image *)
(* may write over the records of the earlier one, and it does here.        *)
(***************************************************************************)
EXTENDS Integers, Sequences, FiniteSets

CONSTANTS
  Order,      \* the files of INGEST_PATH, sorted
  Images,     \* those that are images; Samples is what /initialize-db ingests
  Samples,
  Named,      \* _safe_doc_id or _stable_text_doc_id of a path
  Versions,   \* bound: a file's contents
  Pieces      \* how many chunks each version has

Files == {Order[k] : k \in DOMAIN Order}
Paths == Files \cup {Samples}
Most == CHOOSE n \in {Pieces[v] : v \in Versions} : \A v \in Versions : Pieces[v] <= n

ASSUME IndexAssumption ==
  /\ Order \in Seq(STRING) /\ Images \subseteq Files /\ Samples \in STRING \ Files
  /\ Named \in [Paths -> STRING]
  /\ \A p \in Paths \ Images, q \in Paths : Named[q] = Named[p] => q = p
  /\ Versions \subseteq Nat \ {0} /\ Versions # {}
  /\ Pieces \in [Versions -> Nat \ {0}]
  /\ Most \in Nat /\ \A v \in Versions : Pieces[v] <= Most

VARIABLES
  source,   \* the version of each file on disk, 0 when there is none
  chroma,   \* the record of each document id and chunk number
  parents,  \* the parent collection
  mirror,   \* the Elasticsearch index
  images,   \* the native image row of a document id
  breaker,  \* whether _WRITE_UNAVAILABLE_UNTIL lies ahead
  job       \* the ingestion, rechunk or synchronization under way

indexVars == <<source, chroma, parents, mirror, images, breaker, job>>

Slots == 1 .. Most
\* The other paths of the same name.
Twins(p) == {q \in Paths \ {p} : Named[q] = Named[p]}
\* The name alone is the first id, that with the suffix "__n" the n-th one.
Ids == UNION {{<<Named[p], 1 + Cardinality(named)>> : named \in SUBSET Twins(p)} : p \in Paths}
Keys == Ids \X Slots
Own(p) == <<Named[p], 1>>

Record(p, v) == [path |-> p, version |-> v]
Absent == Record(Samples, 0)
Nothing == [s \in Keys |-> Absent]
NoRow == [path |-> Samples, pixels |-> 0, caption |-> 0]
Idle == [kind |-> "none", at |-> "idle", todo |-> {}, used |-> {}, path |-> Samples,
         id |-> Own(Samples), version |-> 0, refresh |-> FALSE, native |-> FALSE,
         caption |-> 0, stale |-> {}]

-----------------------------------------------------------------------------
(* Records *)

Written(store, id, p, v) ==
  [s \in Keys |-> IF s[1] = id /\ s[2] <= Pieces[v] THEN Record(p, v) ELSE store[s]]
Removed(store, keys) == [s \in Keys |-> IF s \in keys THEN Absent ELSE store[s]]

\* Lookups are by the path a record says.
Present(store, p) == {s \in Keys : store[s] # Absent /\ store[s].path = p}
StaleIds(store, id, p, v) == {s \in Present(store, p) : s[1] # id \/ s[2] > Pieces[v]}
RowsOf(p) == {images[d] : d \in {e \in Ids : images[e] # NoRow /\ images[e].path = p}}

\* A bulk request that fails has written some of its records.
PartOf(from, to) ==
  {[s \in Keys |-> IF s \in done THEN to[s] ELSE from[s]] :
     done \in SUBSET {s \in Keys : from[s] # to[s]}}

\* _mirror: an error is swallowed and opens the breaker, which skips the call.
Mirrored(to) ==
  \/ breaker /\ UNCHANGED <<mirror, breaker>>
  \/ ~breaker /\ mirror' = to /\ UNCHANGED breaker
  \/ ~breaker /\ mirror' \in PartOf(mirror, to) /\ breaker' = TRUE

-----------------------------------------------------------------------------
(* Jobs *)

At(place) == job.at = place
Go(place) == job' = [job EXCEPT !.at = place]

\* What follows a file: the next one, or for a job of one file nothing.
NextFile ==
  IF job.kind = "startup"
  THEN [Idle EXCEPT !.kind = "startup", !.at = "files", !.todo = job.todo, !.used = job.used]
  ELSE Idle

\* startup_event_handler: ingestion, then the synchronization.
StartServer ==
  /\ job = Idle
  /\ job' = [Idle EXCEPT !.kind = "startup", !.at = "files",
                         !.todo = {k \in DOMAIN Order : source[Order[k]] # 0}]
  /\ UNCHANGED <<source, chroma, parents, mirror, images, breaker>>

InitializeDb ==
  /\ job = Idle
  /\ job' = [Idle EXCEPT !.kind = "samples", !.at = "parents", !.version = source[Samples]]
  /\ UNCHANGED <<source, chroma, parents, mirror, images, breaker>>

\* load_document and the checks of apply_document up to the embeddings.  Only
\* texts are taken, whose ids no other source has: none of them is refused.
Rechunk(p) ==
  /\ job = Idle
  /\ p \in Files \ Images /\ source[p] # 0
  /\ job' = [Idle EXCEPT !.kind = "rechunk", !.at = "parents", !.path = p, !.id = Own(p),
                         !.version = source[p]]
  /\ UNCHANGED <<source, chroma, parents, mirror, images, breaker>>

\* sync_keyword_index: the command, and the end of the start-up.
Synchronize ==
  /\ job = Idle \/ (At("files") /\ job.todo = {})
  /\ job' = [Idle EXCEPT !.kind = "sync", !.at = "copy"]
  /\ UNCHANGED <<source, chroma, parents, mirror, images, breaker>>

\* A lookup by path that fails counts as an empty answer.
Lookups(p) == {{}, Present(chroma, p)}

\* The first id of a file's name that this start-up has not used: it knows
\* nothing of those of the files it skipped.
FreeIds(p) ==
  {d \in Ids \ job.used : /\ d[1] = Named[p]
                         /\ \A e \in Ids \ job.used : e[1] = d[1] => d[2] <= e[2]}

\* A text that is indexed is skipped, whatever its file says by now.
NextText(k, p) ==
  \E found \in Lookups(p), id \in FreeIds(p) :
    job' = IF found # {} \/ source[p] = 0
           THEN [job EXCEPT !.todo = @ \ {k}]
           ELSE [job EXCEPT !.todo = @ \ {k}, !.used = @ \cup {id}, !.at = "parents",
                            !.path = p, !.id = id, !.version = source[p]]

\* An image's text is refreshed when the fingerprint of one of its records is
\* not the file's; its native row when it is not current; and a row whose
\* caption cannot be refreshed is removed, if its removal works.  An image
\* that is not skipped and has some caption takes an id.
NextImage(k, p) ==
  \E found \in Lookups(p), row \in {NoRow} \cup RowsOf(p), id \in FreeIds(p) :
  LET known == {0} \cup {chroma[s].version : s \in found}
  IN  \E text \in known, refresh \in {found # {} /\ source[p] \notin {0, sha} : sha \in known} :
  LET due == found = {} \/ refresh
  IN  \E read \in {FALSE, due /\ source[p] # 0} :
  LET content == IF read THEN source[p] ELSE text
      current == /\ row # NoRow /\ row.pixels = source[p]
                 /\ text \in {0, row.caption} /\ content \in {0, row.caption}
      blocked == row # NoRow /\ due /\ ~read
      native == ~current /\ ~blocked
  IN  \E cleared \in {FALSE, blocked} :
        LET named == (due \/ ~current) /\ (content # 0 \/ ~(current \/ cleared))
        IN  /\ images' = [d \in Ids |-> IF cleared /\ images[d].path = p THEN NoRow
                                       ELSE images[d]]
            /\ job' = [job EXCEPT !.todo = @ \ {k}, !.used = IF named THEN @ \cup {id} ELSE @,
                         !.path = p, !.id = id, !.refresh = refresh /\ read,
                         !.version = IF read THEN source[p] ELSE 0,
                         !.native = native, !.caption = content,
                         !.at = IF read THEN "parents" ELSE IF native THEN "native" ELSE "files"]

\* The files listed at the start are taken in their order.
IngestNext ==
  /\ At("files")
  /\ \E k \in job.todo :
       /\ \A m \in job.todo : k <= m
       /\ LET p == Order[k]
          IN  IF p \in Images THEN NextImage(k, p) ELSE NextText(k, p) /\ UNCHANGED images
  /\ UNCHANGED <<source, chroma, parents, mirror, breaker>>

-----------------------------------------------------------------------------
(* The writes of one document *)

WriteParents ==
  /\ At("parents")
  /\ parents' = Written(parents, job.id, job.path, job.version)
  /\ Go("children")
  /\ UNCHANGED <<source, chroma, mirror, images, breaker>>

(* Mutant: the old records are removed before the new ones are written. *)
WriteChildren_Replacing ==
  /\ At("children")
  /\ LET old == {s \in Present(chroma, job.path) : chroma[s].version # job.version}
     IN  IF old # {} THEN chroma' = Removed(chroma, old) /\ UNCHANGED job
         ELSE /\ chroma' = Written(chroma, job.id, job.path, job.version)
              /\ Go(IF job.kind = "rechunk" THEN "transfer" ELSE "mirror")
  /\ UNCHANGED <<source, parents, mirror, images, breaker>>

WriteChildren ==
  /\ At("children")
  /\ chroma' = Written(chroma, job.id, job.path, job.version)
  /\ Go(IF job.kind = "rechunk" THEN "transfer" ELSE "mirror")
  /\ UNCHANGED <<source, parents, mirror, images, breaker>>

MirrorChunks ==
  /\ At("mirror")
  /\ Mirrored(Written(mirror, job.id, job.path, job.version))
  /\ job' = IF job.refresh THEN [job EXCEPT !.at = "stale"]
            ELSE IF job.native THEN [job EXCEPT !.at = "native"] ELSE NextFile
  /\ UNCHANGED <<source, chroma, parents, images>>

\* _delete_stale_source_ids; without an answer there is nothing to delete.
DropStale ==
  /\ At("stale")
  /\ \E ids \in {{}, StaleIds(chroma, job.id, job.path, job.version)} :
       /\ chroma' = Removed(chroma, ids)
       /\ job' = [job EXCEPT !.at = "unmirror", !.stale = ids]
  /\ UNCHANGED <<source, parents, mirror, images, breaker>>

MirrorDeletions ==
  /\ At("unmirror")
  /\ IF job.stale = {} THEN UNCHANGED <<mirror, breaker>>
     ELSE Mirrored(Removed(mirror, job.stale))
  /\ Go("staleParents")
  /\ UNCHANGED <<source, chroma, parents, images>>

DropStaleParents ==
  /\ At("staleParents")
  /\ \E ids \in {{}, StaleIds(parents, job.id, job.path, job.version)} :
       parents' = Removed(parents, ids)
  /\ job' = IF job.native THEN [job EXCEPT !.at = "native"] ELSE NextFile
  /\ UNCHANGED <<source, chroma, mirror, images, breaker>>

\* The row gets the pixels the file has now and the caption read before.
IndexImage ==
  /\ At("native")
  /\ images' = IF source[job.path] = 0 THEN images
               ELSE [images EXCEPT ![job.id] = [path |-> job.path, pixels |-> source[job.path],
                                                caption |-> job.caption]]
  /\ job' = NextFile
  /\ UNCHANGED <<source, chroma, parents, mirror, breaker>>

(* Mutant: the keyword index is updated after the old records are gone. *)
Transfer_Late ==
  /\ At("transfer")
  /\ IF StaleIds(chroma, job.id, job.path, job.version) # {}
     THEN /\ chroma' = Removed(chroma, StaleIds(chroma, job.id, job.path, job.version))
          /\ UNCHANGED <<mirror, job>>
     ELSE LET to == Removed(Written(mirror, job.id, job.path, job.version),
                            StaleIds(mirror, job.id, job.path, job.version))
          IN  /\ \/ mirror' = to /\ Go("drop")
                 \/ mirror' \in PartOf(mirror, to) /\ job' = Idle
              /\ UNCHANGED chroma
  /\ UNCHANGED <<source, parents, images, breaker>>

\* apply_document writes and deletes in Elasticsearch first; an error ends it,
\* with the old records still in Chroma.
Transfer ==
  LET to == Removed(Written(mirror, job.id, job.path, job.version),
                    StaleIds(chroma, job.id, job.path, job.version))
  IN  /\ At("transfer")
      /\ \/ mirror' = to /\ Go("drop")
         \/ mirror' \in PartOf(mirror, to) /\ job' = Idle
      /\ UNCHANGED <<source, chroma, parents, images, breaker>>

DropOld ==
  /\ At("drop")
  /\ chroma' = Removed(chroma, StaleIds(chroma, job.id, job.path, job.version))
  /\ Go("dropParents")
  /\ UNCHANGED <<source, parents, mirror, images, breaker>>

DropOldParents ==
  /\ At("dropParents")
  /\ parents' = Removed(parents, StaleIds(parents, job.id, job.path, job.version))
  /\ job' = Idle
  /\ UNCHANGED <<source, chroma, mirror, images, breaker>>

\* Embeddings or a write of Chroma fail: start-up goes on with the native row
\* or the next file, the other jobs end.
WriteFails ==
  /\ job.at \in {"parents", "children", "stale", "staleParents", "native", "drop", "dropParents"}
  /\ job' = IF job.native /\ ~At("native") THEN [job EXCEPT !.at = "native"] ELSE NextFile
  /\ UNCHANGED <<source, chroma, parents, mirror, images, breaker>>

-----------------------------------------------------------------------------
(* reconcile *)

CopyAll ==
  LET to == [s \in Keys |-> IF chroma[s] # Absent THEN chroma[s] ELSE mirror[s]]
  IN  /\ At("copy")
      /\ \/ mirror' = to /\ Go("prune")
         \/ mirror' \in PartOf(mirror, to) /\ job' = Idle
      /\ UNCHANGED <<source, chroma, parents, images, breaker>>

Prune ==
  LET to == [s \in Keys |-> IF chroma[s] # Absent THEN mirror[s] ELSE Absent]
  IN  /\ At("prune")
      /\ \/ mirror' = to /\ Go("synced")
         \/ mirror' \in PartOf(mirror, to) /\ job' = Idle
      /\ UNCHANGED <<source, chroma, parents, images, breaker>>

Synced ==
  /\ At("synced")
  /\ job' = Idle
  /\ UNCHANGED <<source, chroma, parents, mirror, images, breaker>>

-----------------------------------------------------------------------------
(* The surroundings *)

Edit(p) ==
  /\ p \in Files
  /\ source' \in {[source EXCEPT ![p] = v] : v \in Versions \cup {0}}
  /\ source' # source
  /\ UNCHANGED <<chroma, parents, mirror, images, breaker, job>>

BreakerCloses ==
  /\ breaker /\ breaker' = FALSE
  /\ UNCHANGED <<source, chroma, parents, mirror, images, job>>

Die ==
  /\ job # Idle
  /\ job' = Idle /\ breaker' = FALSE
  /\ UNCHANGED <<source, chroma, parents, mirror, images>>

IndexInit ==
  /\ source \in [Paths -> Versions \cup {0}] /\ source[Samples] \in Versions
  /\ chroma = Nothing /\ parents = Nothing /\ mirror = Nothing
  /\ images = [d \in Ids |-> NoRow]
  /\ breaker = FALSE /\ job = Idle

DocumentStep ==
  \/ WriteParents \/ WriteChildren \/ MirrorChunks \/ DropStale \/ MirrorDeletions
  \/ DropStaleParents \/ IndexImage \/ Transfer \/ DropOld \/ DropOldParents \/ WriteFails

IndexNext ==
  \/ StartServer \/ InitializeDb \/ \E p \in Paths : Rechunk(p)
  \/ Synchronize \/ IngestNext \/ DocumentStep
  \/ CopyAll \/ Prune \/ Synced
  \/ \E p \in Paths : Edit(p)
  \/ BreakerCloses \/ Die

IndexSpec == IndexInit /\ [][IndexNext]_indexVars

-----------------------------------------------------------------------------
(* Properties *)

Records == {Absent} \cup {Record(p, v) : p \in Paths, v \in Versions}
Stores == [Keys -> Records]
Rows == [path : Paths, pixels : Versions \cup {0}, caption : Versions \cup {0}]
Jobs == [kind : {"none", "startup", "rechunk", "samples", "sync"},
         at : {"idle", "files", "parents", "children", "mirror", "stale", "unmirror",
               "staleParents", "native", "transfer", "drop", "dropParents",
               "copy", "prune", "synced"},
         todo : SUBSET (DOMAIN Order), used : SUBSET Ids, path : Paths, id : Ids,
         version : Versions \cup {0}, refresh : BOOLEAN, native : BOOLEAN,
         caption : Versions \cup {0}, stale : SUBSET Keys]

IndexTypeOK ==
  /\ source \in [Paths -> Versions \cup {0}]
  /\ chroma \in Stores /\ parents \in Stores /\ mirror \in Stores
  /\ images \in [Ids -> Rows]
  /\ breaker \in BOOLEAN
  /\ job \in Jobs

\* Chunks are expanded to the parent of the same id and number.
Searchable(p) ==
  \E id \in Ids, v \in Versions : \A i \in 1 .. Pieces[v] :
    /\ chroma[<<id, i>>] = Record(p, v)
    /\ parents[<<id, i>>] # Absent /\ parents[<<id, i>>].path = p

PathsIn(store) == {store[s].path : s \in {k \in Keys : store[k] # Absent}}
Apart(p) == Twins(p) \cap (PathsIn(chroma) \cup PathsIn(parents)) = {}

\* "existing source retained": once a source is indexed, every search between
\* any two steps, crash or failure finds one of its versions whole, each of its
\* chunks with its own parent to be expanded to, as long as no image of the
\* same name has records; that one may have taken its ids, and no code holds
\* the two apart (startup_ingest.py:134: used_doc_ids lacks skipped files).
SourceStaysWhole ==
  [][IndexTypeOK' /\ \A p \in PathsIn(chroma) \cup PathsIn(chroma') :
       Apart(p)' => Searchable(p)']_indexVars

Orphans == {s \in Keys : mirror[s] # Absent /\ chroma[s] = Absent}
Exact == {s \in Keys : chroma[s] # Absent /\ mirror[s] = chroma[s]}

\* Only start-up's deletions leave the mirror a record Chroma no longer has
\* ("Keep old Chroma IDs until ES succeeds", rechunk.py:150); a
\* synchronization spoils no record that is right, whether it fails or not, and
\* one that reports success leaves the mirror equal to its source.
MirrorOnlyLags ==
  [][/\ ~(Orphans' \subseteq Orphans) => At("stale") /\ job.kind = "startup"
     /\ job.kind = "sync" => Exact \subseteq Exact'
     /\ At("prune") /\ job'.at = "synced" => mirror' = chroma']_indexVars
=============================================================================
