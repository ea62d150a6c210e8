----------------------------- MODULE MCNovelIds -----------------------------
(* Instance of the id pools for TLC.                                        *)
EXTENDS NovelIds, TLC
CONSTANTS w1, w2, w3
Works == Permutations({w1, w2, w3})
=============================================================================
