------------------------- MODULE MCSQLiteReceiptStore -------------------------
(* A small instance of SQLiteReceiptStore for TLC. *)
EXTENDS SQLiteReceiptStore, TLC

ClientSymmetry == Permutations(Clients)
=============================================================================
