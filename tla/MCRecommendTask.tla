--------------------------- MODULE MCRecommendTask ---------------------------
(* Instances of RecommendTask for TLC: s1 and s2 are SSE requests, k1 and  *)
(* k2 are confirm requests.                                                *)
EXTENDS RecommendTask, TLC

CONSTANTS s1, s2, k1, k2
=============================================================================
