------------------------------ MODULE MCIngest ------------------------------
(* A short transcript for TLC. *)
EXTENDS Ingest

AllChunks == (SUBSET (1..MaxLines)) \ {{}}

SecondLine == {2}
=============================================================================
