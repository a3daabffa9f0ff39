---------------------------- MODULE MCMediaStore ----------------------------
(* Two downloads, of one URL or of two, in a directory with room for one   *)
(* body and a half.                                                        *)
EXTENDS MediaStore, TLC
CONSTANTS d1, d2, p1, p2
MCDownloads == {d1, d2}
MCPaths == {p1, p2}
MCSymmetry == Permutations(MCDownloads)
=============================================================================
