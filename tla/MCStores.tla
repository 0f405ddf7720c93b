------------------------------ MODULE MCStores ------------------------------
(* The knowledge base and the conversation files share no state: a behaviour *)
(* is one of the first or one of the second, and the other one stands still. *)
(* The conversation's part has a bound for its facts and one for its items.  *)
EXTENDS KnowledgeIndex, ConversationStores

VARIABLE part

Three == <<"a.md", "b c.png", "b_c.png">>
Pngs == {"b c.png", "b_c.png"}
Safe == [p \in {"a.md", "b c.png", "b_c.png", "samples"} |->
           IF p = "b c.png" THEN "b_c.png" ELSE p]
Shrinking == [v \in {1, 2} |-> 3 - v]

Init == IndexInit /\ StoresInit /\ part \in {"knowledge", "facts", "items"}

Next ==
  \/ part = "knowledge" /\ IndexNext /\ UNCHANGED <<storeVars, part>>
  \/ part \in {"facts", "items"} /\ StoresNext /\ UNCHANGED <<indexVars, part>>

Spec == Init /\ [][Next]_<<indexVars, storeVars, part>>

InUse == {p \in Files : source[p] # 0} \cup PathsIn(chroma) \cup PathsIn(parents)
         \cup {images[d].path : d \in {e \in Ids : images[e] # NoRow}}

\* Bound: the paths with an edited file or records have one name; once the
\* second image of a name is one of them, the first has two pieces, the second
\* one, and neither has a native row.
OneName ==
  LET used == InUse
      others == {Record("b c.png", 2), Record("b_c.png", 1)}
  IN  /\ source[Samples] = 1
      /\ \A p, q \in used : Named[p] = Named[q]
      /\ "b_c.png" \in used =>
           /\ source["b c.png"] # 2 /\ source["b_c.png"] # 1
           /\ \A s \in Keys : chroma[s] \notin others /\ parents[s] \notin others
           /\ \A d \in Ids : images[d] = NoRow

\* Bound: facts and messages change while no item is dated, and the reverse,
\* and either without files.
Few == /\ part # "knowledge" => InUse = {}
       /\ part = "facts" => clock = 0
       /\ part = "items" => sessions = NoSessions /\ \A s \in Sids : promise[s].values = {0}
Bounds == OneName /\ Few
=============================================================================
