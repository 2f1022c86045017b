----------------------------- MODULE MCHashTable ----------------------------
(* Small instances of HashTable for TLC.  Keys of 8 bits and an int of 5   *)
(* keep the order 64 > 32 of the real widths.                              *)
EXTENDS HashTable
=============================================================================
