---------------------------- MODULE StoreContract ----------------------------
(***************************************************************************)
(* What every backend behind the ReceiptStore protocol (protocol.py) is    *)
(* allowed to answer.  Receipts are content addressed: a receipt and its   *)
(* SHA-256 digest are one value here, so "the receipt found under d" can   *)
(* only be d itself.  Two sets describe a store: the digests whose receipt *)
(* is readable, and the digests that were ever written; they differ when a *)
(* stored payload was altered behind the store's back.                     *)
(***************************************************************************)

Operations == {"put", "get", "is_revoked", "revoke"}

Answers == {"none", "ok", "receipt", "missing", "yes", "no", "error"}

\* get may hand out the receipt d: it was written.  The in-memory backend
\* hands out revoked receipts too; SQLite never does.
MayReturn(d, written, revoked, hidesRevoked) ==
    d \in written /\ ~(hidesRevoked /\ d \in revoked)

\* get may find nothing: no readable receipt, or the backend hides it.
MayMiss(d, readable, revoked, hidesRevoked) ==
    d \notin readable \/ (hidesRevoked /\ d \in revoked)
=============================================================================
