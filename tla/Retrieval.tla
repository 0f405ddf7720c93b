----------------------------- MODULE Retrieval -----------------------------
(* One search of the knowledge base, the web and the memory (retriever.py,  *)
(* retrieval_channels.py, tools.py).  The channels are asked in parallel    *)
(* under one budget of time; the web may be asked in a second stage, with   *)
(* what is left of it.  Whoever has not answered when the time is up is     *)
(* abandoned.  The answers are fused, and each document is kept once.       *)
(* A document is its identifier, the channel that speaks for it, a score in *)
(* units of which Full make 1.0, and the channels that found it.  An open   *)
(* circuit, a failed or a disabled channel looks like an empty answer.      *)
EXTENDS Integers, Sequences, SequencesExt, FiniteSetsExt

CONSTANTS
  Raw,        \* what the store behind each channel may return
  Policies,   \* RECALL_WEB_POLICY: "never", "auto", "always"
  Wordings,   \* what the words ask for: "opt_out", "external", "plain"
  Budgets,    \* ticks a search may take; 0 stands for no budget
  TopK,       \* the limit of a channel
  FinalTopN,  \* the limit after reranking
  MinScore,   \* RECALL_WEB_MIN_LOCAL_SCORE, in the units of scores
  MinDocs     \* RECALL_WEB_MIN_LOCAL_DOCS

ASSUME SearchAssumption ==
  /\ Policies \subseteq {"never", "auto", "always"}
  /\ Wordings \subseteq {"opt_out", "external", "plain"}
  /\ Budgets \subseteq Nat /\ TopK \in Nat /\ FinalTopN \in Nat
  /\ \A ch \in {"vector", "web", "keyword", "memory"} : \A hits \in Raw[ch] :
       hits \in Seq(ToSet(hits)) /\ \A hit \in ToSet(hits) : hit.score \in Nat
  /\ \A lists \in Raw["image_vector"] :
       lists \in Seq(ToSet(lists)) /\ \A list \in ToSet(lists) : list \in Seq(ToSet(list))

Channels == {"vector", "image_vector", "web", "keyword", "memory"}
Full == 6
RrfK == 60
TavilyMaxResults == 2

VARIABLES
  reason,     \* why the web is, or is not, asked
  budget,
  limit,      \* when the stage that is running must end
  spent,      \* the time the search has taken
  stage,      \* local, web, merge, done or stopped
  task,       \* the thread of each channel
  found,      \* what each channel has answered
  results

searchVars == <<reason, budget, limit, spent, stage, task, found, results>>

-----------------------------------------------------------------------------
(* Sequences of documents *)

Doc(id, from, score) == [id |-> id, from |-> from, score |-> score, via |-> {from}]

Clipped(n) == Max({0, Min({n, Full})})

First(s, k) == SubSeq(s, 1, Min({k, Len(s)}))

\* The elements of s at the indices I, in the order of the relation before.
Arranged(s, I, before) ==
  LET place(i) == Cardinality({j \in I : <<j, i>> \in before}) + 1
  IN [n \in 1..Cardinality(I) |-> s[CHOOSE i \in I : place(i) = n]]

\* Highest score first, equal scores in their order.
ByScore(docs) ==
  Arranged(docs, DOMAIN docs,
           {p \in (DOMAIN docs) \X (DOMAIN docs) :
              \/ docs[p[1]].score > docs[p[2]].score
              \/ docs[p[1]].score = docs[p[2]].score /\ p[1] < p[2]})

-----------------------------------------------------------------------------
(* The channels *)

\* Each parent is represented by its nearest child, and the nearest come
\* first, equally near ones in the order of the hits.  The score stays the
\* distance.  Whether the parent's text is found decides about the text, not
\* about the document.
RecallVector(hits) ==
  LET before == {p \in (DOMAIN hits) \X (DOMAIN hits) :
                   \/ hits[p[1]].score < hits[p[2]].score
                   \/ hits[p[1]].score = hits[p[2]].score /\ p[1] < p[2]}
      kept == {i \in DOMAIN hits :
                 \/ hits[i].parent = "none"
                 \/ \A j \in DOMAIN hits \ {i} : hits[j].parent = hits[i].parent => <<i, j>> \in before}
      near == Arranged(hits, kept, before)
  IN First([n \in DOMAIN near |-> Doc(near[n].id, "vector", near[n].score)], TopK)

Points(rank) == 1000 \div (RrfK + rank)

\* Of a document's places, each a list and the rank in it.
PointsOf(places) == MapThenSumSet(LAMBDA at : Points(at[2]), places)

\* Reciprocal ranks over the lists of the query's vectors and of the seeds.
RecallImageVector(lists) ==
  LET ids == UNION {ToSet(lists[i]) : i \in DOMAIN lists}
      places(d) == {at \in UNION {{i} \X DOMAIN lists[i] : i \in DOMAIN lists} : lists[at[1]][at[2]] = d}
      score(d) == Clipped((Full * PointsOf(places(d))) \div (Len(lists) * Points(1)))
  IN First(ByScore(SetToSeq({Doc(d, "image_vector", score(d)) : d \in ids})), TopK)

RecallWeb(hits) ==
  First([n \in DOMAIN hits |-> Doc(hits[n].id, "web", hits[n].score)], Min({TavilyMaxResults, TopK}))

RecallKeyword(hits) ==
  First([n \in DOMAIN hits |-> Doc(hits[n].id, "keyword", hits[n].score)], TopK)

RecallMemory(items) ==
  First(ByScore([n \in DOMAIN items |-> Doc(items[n].id, "memory", Clipped(items[n].score))]), TopK)

Recalled(ch, raw) ==
  CASE ch = "vector" -> RecallVector(raw)
    [] ch = "image_vector" -> RecallImageVector(raw)
    [] ch = "web" -> RecallWeb(raw)
    [] ch = "keyword" -> RecallKeyword(raw)
    [] ch = "memory" -> RecallMemory(raw)

-----------------------------------------------------------------------------
(* Fusing and deduplicating *)

\* _score_from_retrieval: a vector's score is a distance, less is better.
Relevance(doc) ==
  CASE doc.from = "vector" -> (Full * Full) \div (Full + doc.score)
    [] doc.from = "web" -> IF doc.score <= Full THEN Max({0, doc.score})
                           ELSE (Full * doc.score) \div (Full + doc.score)
    [] OTHER -> Clipped(doc.score)

Place(docs, id) == SelectInSeq(docs, LAMBDA d : d.id = id)

FuseLocal(texts, images) ==
  IF texts = <<>> \/ images = <<>> THEN texts \o images
  ELSE LET lists == [vector |-> texts, image_vector |-> images]
           finders(id) == {ch \in DOMAIN lists : Place(lists[ch], id) # 0}
           places(id) == {<<ch, Place(lists[ch], id)>> : ch \in finders(id)}
           score(id) == (Full * PointsOf(places(id))) \div (2 * Points(1))
           fused == {[id |-> id, from |-> "multimodal_vector", score |-> Clipped(score(id)),
                      via |-> finders(id)] : id \in {d.id : d \in ToSet(texts \o images)}}
       IN ByScore(SetToSeq(fused))

(* Mutant: the better form replaces the other without its matched channels. *)
Joined_Forgets(current, incoming) ==
  IF Relevance(incoming) > Relevance(current) THEN incoming ELSE current

\* Of two forms of a document the more relevant one stays, in the place of
\* the first, and is told who else has found it.
Joined(current, incoming) ==
  LET better == IF Relevance(incoming) > Relevance(current) THEN incoming ELSE current
  IN [better EXCEPT !.via = current.via \cup incoming.via]

Deduplicated(docs) ==
  FoldLeft(LAMBDA kept, doc :
             LET at == Place(kept, doc.id)
             IN IF at = 0 THEN Append(kept, doc) ELSE [kept EXCEPT ![at] = Joined(@, doc)],
           <<>>, docs)

Merged ==
  Deduplicated(FuseLocal(found["vector"], found["image_vector"])
                 \o found["web"] \o found["keyword"] \o found["memory"])

\* The scores mix the model's opinion with six weighted features; here they
\* are any scores, and the place in the ranking stands for the score.
Reranked(docs) == {First(order, FinalTopN) : order \in SetToSeqs(ToSet(docs))}

\* Memories are no evidence.  The score of a vector is taken as it is.
LocalEvidenceSufficient ==
  LET docs == Deduplicated(found["vector"] \o found["image_vector"] \o found["keyword"])
  IN Quantify(ToSet(docs), LAMBDA d : d.score >= MinScore) >= MinDocs

-----------------------------------------------------------------------------
(* The search *)

WebReason(policy, wording) ==
  CASE wording = "opt_out" -> "user_opt_out"
    [] wording # "opt_out" /\ policy = "never" -> "disabled"
    [] wording # "opt_out" /\ policy = "always" -> "always"
    [] wording = "external" /\ policy = "auto" -> "external_information"
    [] wording = "plain" /\ policy = "auto" -> "local_first"

AskedAtOnce(why) == Channels \ (IF why \in {"always", "external_information"} THEN {} ELSE {"web"})

SearchInit ==
  /\ \E policy \in Policies, wording \in Wordings : reason = WebReason(policy, wording)
  /\ budget \in Budgets /\ limit = budget /\ spent = 0
  /\ stage = "local"
  /\ task = [ch \in Channels |-> IF ch \in AskedAtOnce(reason) THEN "running" ELSE "idle"]
  /\ found = [ch \in Channels |-> <<>>]
  /\ results = <<>>

\* The thread of a channel is done, with documents or with none.
Finish(ch) ==
  /\ task[ch] = "running"
  /\ task' = [task EXCEPT ![ch] = "ready"]
  /\ found' \in {[found EXCEPT ![ch] = docs] : docs \in {<<>>} \cup {Recalled(ch, raw) : raw \in Raw[ch]}}
  /\ UNCHANGED <<reason, budget, limit, spent, stage, results>>

\* as_completed hands a finished future to the search.
Collect(ch) ==
  /\ task[ch] = "ready"
  /\ task' = [task EXCEPT ![ch] = "answered"]
  /\ UNCHANGED <<reason, budget, limit, spent, stage, found, results>>

Pending == {ch \in Channels : task[ch] \in {"running", "ready"}}

Tick ==
  /\ Pending # {} /\ budget # 0 /\ spent < limit
  /\ spent' = spent + 1
  /\ UNCHANGED <<reason, budget, limit, stage, task, found, results>>

\* The time is up: also a future that has finished meanwhile is not asked.
TimeUp ==
  /\ Pending # {} /\ budget # 0 /\ spent >= limit
  /\ task' = [ch \in Channels |-> IF ch \in Pending THEN "abandoned" ELSE task[ch]]
  /\ found' = [ch \in Channels |-> IF ch \in Pending THEN <<>> ELSE found[ch]]
  /\ UNCHANGED <<reason, budget, limit, spent, stage, results>>

\* The run is found stopped, by the embedding of the query for the vectors,
\* whose ExecutionStopped no except clause holds, or by check_current_run.
SearchStops ==
  /\ stage = "local"
  /\ task["vector"] = "ready" \/ Pending = {}
  /\ stage' = "stopped"
  /\ UNCHANGED <<reason, budget, limit, spent, task, found, results>>

RemainingTime == budget - spent

DecideWeb ==
  /\ stage = "local" /\ Pending = {}
  /\ LET why == CASE reason # "local_first" -> reason
                  [] reason = "local_first" /\ LocalEvidenceSufficient -> "sufficient_local_evidence"
                  [] reason = "local_first" /\ ~LocalEvidenceSufficient ->
                       IF budget # 0 /\ RemainingTime <= 0 THEN "channel_budget_exhausted"
                       ELSE "insufficient_local_evidence"
         ask == why = "insufficient_local_evidence"
     IN /\ reason' = why
        /\ stage' = IF ask THEN "web" ELSE "merge"
        /\ task' = IF ask THEN [task EXCEPT !["web"] = "running"] ELSE task
        /\ limit' = IF ask THEN spent + RemainingTime ELSE limit
  /\ UNCHANGED <<budget, spent, found, results>>

WebStageEnds ==
  /\ stage = "web" /\ Pending = {}
  /\ stage' = "merge"
  /\ UNCHANGED <<reason, budget, limit, spent, task, found, results>>

\* The caller may ask for the documents as they are (defer_rerank).
Merge ==
  /\ stage = "merge"
  /\ stage' = "done"
  /\ results' \in {Merged} \cup Reranked(Merged)
  /\ UNCHANGED <<reason, budget, limit, spent, task, found>>

SearchNext ==
  \/ \E ch \in Channels : Finish(ch) \/ Collect(ch)
  \/ Tick \/ TimeUp \/ SearchStops \/ DecideWeb \/ WebStageEnds \/ Merge

SearchSpec == SearchInit /\ [][SearchNext]_searchVars

-----------------------------------------------------------------------------
(* Properties *)

Reasons == {"user_opt_out", "disabled", "always", "external_information", "local_first",
            "sufficient_local_evidence", "insufficient_local_evidence", "channel_budget_exhausted"}

SearchTypeOK ==
  /\ reason \in Reasons
  /\ budget \in Budgets /\ limit \in Nat /\ spent \in Nat
  /\ stage \in {"local", "web", "merge", "done", "stopped"}
  /\ task \in [Channels -> {"idle", "running", "ready", "answered", "abandoned"}]
  /\ \A ch \in Channels : \A d \in ToSet(found[ch]) : d.from = ch /\ d.score \in Nat

\* Who has answered in time, and has found the document.
Finders(id) == {ch \in Channels : task[ch] = "answered" /\ Place(found[ch], id) # 0}

(* The two stages together never wait longer than the budget, and the       *)
(* outcome is exactly what was answered in time: each document once, naming *)
(* every channel that has found it and none that was late; only a reranking *)
(* shortens the list.  _run_recall_tasks, retrieve, _merge_document_metadata *)
SearchIsFaithful ==
  /\ SearchTypeOK
  /\ budget # 0 => spent <= budget
  /\ stage = "done" =>
       LET ids == {d.id : d \in UNION {ToSet(found[ch]) : ch \in Channels}}
       IN /\ \A i, j \in DOMAIN results : results[i].id = results[j].id => i = j
          /\ \A i \in DOMAIN results : results[i].via = Finders(results[i].id) /\ results[i].via # {}
          /\ Len(results) \in {Cardinality(ids), Min({FinalTopN, Cardinality(ids)})}
=============================================================================
