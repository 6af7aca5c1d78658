------------------------- MODULE InMemoryReceiptStore -------------------------
(***************************************************************************)
(* InMemoryReceiptStore of protocol.py: a dictionary of receipt objects    *)
(* and a set of revoked digests, for one process.  Its methods are single  *)
(* dictionary and set operations and are atomic here.  The stored objects  *)
(* are shared with the callers; they are frozen, but get still compares    *)
(* the digest of an object with the one it is filed under and finds        *)
(* nothing when it was altered.  get does not look at the revoked set.     *)
(***************************************************************************)
EXTENDS StoreContract

CONSTANTS Clients, Digests

ASSUME SomeDigest == Digests # {}

VARIABLES
    receipts,   \* _receipts: [Digests -> what is filed under the digest]
    revokedSet, \* _revoked
    call

vars == <<receipts, revokedSet, call>>

Entries == {"absent", "intact", "altered"}

TypeOK ==
    /\ receipts \in [Digests -> Entries]
    /\ revokedSet \subseteq Digests
    /\ call \in [Clients -> [pc : {"idle", "called", "return"}, op : Operations,
                             digest : Digests, known : BOOLEAN, answer : Answers]]

Resting == [pc |-> "idle", op |-> "get", digest |-> CHOOSE d \in Digests : TRUE,
            known |-> FALSE, answer |-> "none"]

Init ==
    /\ receipts = [d \in Digests |-> "absent"]
    /\ revokedSet = {}
    /\ call = [c \in Clients |-> Resting]

Begin(c, op, d) ==
    /\ call[c].pc = "idle"
    /\ call' = [call EXCEPT ![c] = [pc |-> "called", op |-> op, digest |-> d,
                                    known |-> d \in revokedSet, answer |-> "none"]]
    /\ UNCHANGED <<receipts, revokedSet>>

Called(c, op) == call[c].pc = "called" /\ call[c].op = op
Answer(c, answer) == call' = [call EXCEPT ![c].pc = "return", ![c].answer = answer]

\* Mutant of Put: a receipt that is written again counts as good again.
Put_Revives(c) ==
    /\ Called(c, "put")
    /\ receipts' = [receipts EXCEPT ![call[c].digest] = "intact"]
    /\ revokedSet' = revokedSet \ {call[c].digest}
    /\ Answer(c, "ok")

\* A put files a fresh object, in place of an altered one too.
Put(c) ==
    /\ Called(c, "put")
    /\ receipts' = [receipts EXCEPT ![call[c].digest] = "intact"]
    /\ Answer(c, "ok")
    /\ UNCHANGED revokedSet

\* Mutant of Get: the dictionary's entry is answered as it is.
Get_RawEntry(c) ==
    /\ Called(c, "get")
    /\ Answer(c, receipts[call[c].digest])
    /\ UNCHANGED <<receipts, revokedSet>>

Get(c) ==
    /\ Called(c, "get")
    /\ Answer(c, IF receipts[call[c].digest] = "intact" THEN "receipt" ELSE "missing")
    /\ UNCHANGED <<receipts, revokedSet>>

IsRevoked(c) ==
    /\ Called(c, "is_revoked")
    /\ Answer(c, IF call[c].digest \in revokedSet THEN "yes" ELSE "no")
    /\ UNCHANGED <<receipts, revokedSet>>

\* Mutant of Revoke: digests without a receipt are ignored.
Revoke_KnownOnly(c) ==
    /\ Called(c, "revoke")
    /\ revokedSet' = revokedSet \cup
          ({call[c].digest} \cap {d \in Digests : receipts[d] # "absent"})
    /\ Answer(c, "ok")
    /\ UNCHANGED receipts

Revoke(c) ==
    /\ Called(c, "revoke")
    /\ revokedSet' = revokedSet \cup {call[c].digest}
    /\ Answer(c, "ok")
    /\ UNCHANGED receipts

Return(c) ==
    /\ call[c].pc = "return"
    /\ call' = [call EXCEPT ![c] = Resting]
    /\ UNCHANGED <<receipts, revokedSet>>

\* A holder of the stored object alters it (object.__setattr__ gets around
\* the frozen dataclass), or puts the old value back.
Alter(d, entry) ==
    /\ receipts[d] # "absent"
    /\ entry # "absent"
    /\ receipts' = [receipts EXCEPT ![d] = entry]
    /\ UNCHANGED <<revokedSet, call>>

Next ==
    \/ \E c \in Clients :
          \/ \E op \in Operations, d \in Digests : Begin(c, op, d)
          \/ Put(c) \/ Get(c) \/ IsRevoked(c) \/ Revoke(c) \/ Return(c)
    \/ \E d \in Digests, entry \in Entries : Alter(d, entry)

Spec == Init /\ [][Next]_vars

-----------------------------------------------------------------------------
Contract == INSTANCE ReceiptStore WITH
    HidesRevoked <- FALSE,
    readable <- {d \in Digests : receipts[d] = "intact"},
    written <- {d \in Digests : receipts[d] # "absent"},
    revoked <- revokedSet,
    call <- [c \in Clients |->
               [phase |-> CASE call[c].pc = "idle" -> "idle"
                            [] call[c].pc = "called" -> "pending"
                            [] call[c].pc = "return" -> "done",
                op |-> call[c].op, digest |-> call[c].digest, answer |-> call[c].answer]]

\* The in-memory backend implements the abstract store as well, so a consumer
\* that relies on the contract alone can be given either backend (482-507).
ImplementsContract == Contract!Spec

\* Revocation is remembered apart from the receipts: a revoked digest stays
\* revoked when its receipt is put, altered or put again (489-490, 507).
AnswersMatchRevocation ==
    \A c \in Clients : call[c].op = "is_revoked" =>
        /\ call[c].known => call[c].answer # "no"
        /\ call[c].answer = "yes" => call[c].digest \in revokedSet
=============================================================================
