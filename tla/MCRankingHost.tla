--------------------------- MODULE MCRankingHost ---------------------------
(* Small instances of RankingHost. *)
EXTENDS RankingHost, TLC

CONSTANTS l1, l2, l3, s1, a, b, null

(* Three long flows, two of them of the same source, and a short one. *)
FourFlows == {l1, l2, l3, s1}
TwoSources == l1 :> a @@ l2 :> a @@ l3 :> b @@ s1 :> a
Sizes == l1 :> 2 @@ l2 :> 2 @@ l3 :> 2 @@ s1 :> 1

(* The two flows of one source have the same size. *)
Alike == Permutations({l1, l2})

OneLong == {l1}
OneSource == l1 :> a
OneSize == l1 :> 3
=============================================================================
