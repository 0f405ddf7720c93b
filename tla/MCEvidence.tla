----------------------------- MODULE MCEvidence -----------------------------
(* How the evidence of an answer comes about: a document is cut for the      *)
(* index, a query is routed and planned, it is searched, by one search or by *)
(* the tool loop, the sub-questions are searched side by side, models are    *)
(* called, and the evidence is judged.  These share no variable: a behaviour *)
(* is one of the parts.                                                      *)
EXTENDS Retrieval, AgentLoop, SubqueryFanout, LlmGovernance, Chunking, ModelDecisions, TLC

VARIABLE part

Hit(id, score) == [id |-> id, score |-> score]
Child(id, parent, score) == [id |-> id, parent |-> parent, score |-> score]

\* a is far in one piece and near in another, c has two places in the image
\* ranking, b is found everywhere, m only in the memory.
Stores == [
  vector |-> {<<Child("a", "p", 9), Child("b", "none", 2), Child("a", "p", 0)>>,
              <<Child("a", "p", 9), Child("b", "q", 5)>>},
  image_vector |-> {<<<<"b", "c">>, <<"c">>>>},
  web |-> {<<Hit("b", 9), Hit("w", 3)>>},
  keyword |-> {<<Hit("b", 4), Hit("a", 9)>>},
  memory |-> {<<Hit("m", 3), Hit("b", 5)>>}]

Lists == {<<>>, <<"a", "b">>, <<"b", "c">>}
Shares == [c \in Callers |-> IF c = "c1" THEN "judge" ELSE "loop"]

\* Plain documents of four characters, structured ones of two blocks.
Line(n) == [i \in 1..n |-> "w"]
Block(kind, section, lines) ==
  [kind |-> kind, section |-> section, title |-> 3 * section, lines |-> lines]
Blocks == {Block("paragraph", 0, <<<<"w", ".", "w", "w">>>>),
           Block("paragraph", 1, <<<<"w", "w", "w", "_", "w", ".", "w">>>>),
           Block("paragraph", 1, <<Line(2)>>),
           Block("table", 1, <<Line(2), Line(1), Line(3)>>),
           Block("table", 0, <<Line(2)>>),
           Block("code", 0, <<Line(1), Line(2), <<>>, Line(1), Line(1)>>),
           Block("code", 1, <<Line(1), <<>>, Line(1)>>)}
Texts == {[structured |-> FALSE, blocks |-> <<Block("paragraph", 0, <<text>>)>>] :
            text \in BoundedSeq(Characters, 4) \ {<<>>}}
  \cup {[structured |-> TRUE, blocks |-> blocks] : blocks \in BoundedSeq(Blocks, 2) \ {<<>>}}
PieceLimits == {[size |-> 2, overlap |-> 1], [size |-> 3, overlap |-> 0],
                [size |-> 4, overlap |-> 2], [size |-> 8, overlap |-> 3]}

\* Triggers of one skill, of two skills and of none, and questions.
Query(blank, question, asks, hits) ==
  [blank |-> blank, question |-> question, asks |-> asks, triggers |-> hits]
Queries == {Query(TRUE, FALSE, FALSE, <<0, 0, 0, 0>>), Query(FALSE, FALSE, TRUE, <<0, 0, 0, 0>>),
            Query(FALSE, FALSE, FALSE, <<1, 0, 1, 0>>), Query(FALSE, TRUE, TRUE, <<1, 0, 0, 0>>),
            Query(FALSE, TRUE, FALSE, <<0, 3, 0, 1>>)}
Piles == {<<>>, <<[score |-> 120, overlap |-> 50, substance |-> 10]>>,
          [i \in 1..2 |-> [score |-> 40 * i, overlap |-> 0, substance |-> 100]],
          [i \in 1..3 |-> [score |-> 30 * i, overlap |-> 20, substance |-> 0]]}

Init ==
  /\ SearchInit /\ LoopInit /\ FanoutInit /\ GovernInit /\ ChunkInit /\ DecideInit /\ JudgeInit
  /\ part \in {"search", "loop", "fanout", "model", "document", "decision", "judgement"}
  \* Bound: a part starts in its own initial states and in one of the others'.
  /\ part # "search" => reason = "disabled" /\ budget = 0
  /\ part # "document" => pieceLimit.size = 2
  /\ part # "judgement" => judged = <<>>
  /\ part # "decision" => inquiry["k1"].blank
  \* Bound: the other client only shares the router's model.
  /\ inquiry["k2"] = Query(FALSE, FALSE, TRUE, <<0, 0, 0, 0>>)

Next ==
  /\ UNCHANGED part
  /\ \/ /\ part = "search" /\ SearchNext
        /\ UNCHANGED <<loopVars, fanoutVars, governVars, chunkVars, decideVars, judgeVars>>
     \/ /\ part = "loop" /\ LoopNext
        /\ UNCHANGED <<searchVars, fanoutVars, governVars, chunkVars, decideVars, judgeVars>>
     \/ /\ part = "fanout" /\ FanoutNext
        /\ UNCHANGED <<searchVars, loopVars, governVars, chunkVars, decideVars, judgeVars>>
     \/ /\ part = "model" /\ GovernNext
        /\ UNCHANGED <<searchVars, loopVars, fanoutVars, chunkVars, decideVars, judgeVars>>
     \/ /\ part = "document" /\ ChunkNext
        /\ UNCHANGED <<searchVars, loopVars, fanoutVars, governVars, decideVars, judgeVars>>
     \/ /\ part = "decision" /\ DecideNext
        /\ progress'["k2"] \in {"new", "asking", "completing", "routed"}
        /\ UNCHANGED <<searchVars, loopVars, fanoutVars, governVars, chunkVars, judgeVars>>
     \/ /\ part = "judgement" /\ JudgeNext
        /\ UNCHANGED <<searchVars, loopVars, fanoutVars, governVars, chunkVars, decideVars>>

Spec ==
  Init /\ [][Next]_<<searchVars, loopVars, fanoutVars, governVars, chunkVars, decideVars, judgeVars, part>>
=============================================================================
