-------------------------- MODULE MCNovelDownload --------------------------
(* Instances of NovelDownload for TLC. *)
EXTENDS NovelDownload

=============================================================================
