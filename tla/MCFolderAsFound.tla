--------------------------- MODULE MCFolderAsFound --------------------------
(* What a failed run leaves, with one run or two.                          *)
EXTENDS FolderAsFound, TLC
=============================================================================
