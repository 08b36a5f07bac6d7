--------------------------- MODULE MCOutputBuffer ---------------------------
(***************************************************************************)
(* Module OutputBuffer with a small first allocation: its boundary, and    *)
(* those of the next ones, are met by strings of every length.             *)
(***************************************************************************)
EXTENDS OutputBuffer

=============================================================================
