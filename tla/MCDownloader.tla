---------------------------- MODULE MCDownloader ----------------------------
(* Small instances of Downloader.  One unit of time is ten minutes or so:  *)
(* the ratios between the code's constants are kept in order, not in size. *)
(* The liveness run uses no symmetry.                                      *)
EXTENDS Downloader, TLC

CONSTANTS c1, c2

Symmetry == Permutations({c1, c2})
=============================================================================
