---------------------------- MODULE ScannedStream ---------------------------
(***************************************************************************)
(* The two ends of a terminal: the program of module Stream, which sends   *)
(* whole sequences, and the client of module RowScan, which reads the      *)
(* screen row by row meanwhile.                                            *)
(***************************************************************************)
EXTENDS Stream, RowScan

bothVars == <<term, sending, cut, scan, row, kept>>

BothInit == StreamInit /\ ScanInit

BothNext ==
  \/ StreamNext /\ Overtaken
  \/ ClientStep /\ UNCHANGED <<sending, cut>>

BothSpec == BothInit /\ [][BothNext]_bothVars

=============================================================================
