----------------------------- MODULE ReceiptStore -----------------------------
(***************************************************************************)
(* The abstract receipt store: a linearizable object shared by clients     *)
(* (threads or processes).  Every call takes effect at one instant between *)
(* its invocation and its answer; revocation is never undone, not by       *)
(* writing the receipt again and not by a crash.                           *)
(***************************************************************************)
EXTENDS StoreContract

CONSTANTS Clients, Digests, HidesRevoked

VARIABLES
    readable,   \* digests whose receipt the store can read back
    written,    \* digests some put has ever written
    revoked,    \* digests some revoke has ever marked
    call        \* [Clients -> the call in progress]

vars == <<readable, written, revoked, call>>

NoCall == [phase |-> "idle", op |-> "get", digest |-> CHOOSE d \in Digests : TRUE,
           answer |-> "none"]

TypeOK ==
    /\ readable \subseteq Digests
    /\ written \subseteq Digests
    /\ revoked \subseteq Digests
    /\ call \in [Clients -> [phase : {"idle", "pending", "done"}, op : Operations,
                             digest : Digests, answer : Answers]]

Init ==
    /\ readable = {}
    /\ written = {}
    /\ revoked = {}
    /\ call = [c \in Clients |-> NoCall]

-----------------------------------------------------------------------------
Invoke(c, op, d) ==
    /\ call[c].phase = "idle"
    /\ call' = [call EXCEPT ![c] = [phase |-> "pending", op |-> op, digest |-> d,
                                    answer |-> "none"]]
    /\ UNCHANGED <<readable, written, revoked>>

Pending(c, op) == call[c].phase = "pending" /\ call[c].op = op

Answer(c, answer) ==
    call' = [call EXCEPT ![c].phase = "done", ![c].answer = answer]

Put(c) ==
    /\ Pending(c, "put")
    /\ readable' = readable \cup {call[c].digest}
    /\ written' = written \cup {call[c].digest}
    /\ Answer(c, "ok")
    /\ UNCHANGED revoked

Revoke(c) ==
    /\ Pending(c, "revoke")
    /\ revoked' = revoked \cup {call[c].digest}
    /\ Answer(c, "ok")
    /\ UNCHANGED <<readable, written>>

Get(c) ==
    /\ Pending(c, "get")
    /\ \/ /\ MayReturn(call[c].digest, written, revoked, HidesRevoked)
          /\ Answer(c, "receipt")
       \/ /\ MayMiss(call[c].digest, readable, revoked, HidesRevoked)
          /\ Answer(c, "missing")
    /\ UNCHANGED <<readable, written, revoked>>

IsRevoked(c) ==
    /\ Pending(c, "is_revoked")
    /\ Answer(c, IF call[c].digest \in revoked THEN "yes" ELSE "no")
    /\ UNCHANGED <<readable, written, revoked>>

\* The call raises: before it took effect or after (a commit that is never
\* acknowledged), which the client cannot tell.
Raise(c) ==
    /\ call[c].phase \in {"pending", "done"}
    /\ Answer(c, "error")
    /\ UNCHANGED <<readable, written, revoked>>

\* The client has its answer, or the client dies with its call.
Leave(c) ==
    /\ call[c].phase # "idle"
    /\ call' = [call EXCEPT ![c] = NoCall]
    /\ UNCHANGED <<readable, written, revoked>>

\* Something other than the store alters what it keeps (an edited row of the
\* database, a receipt object altered after put) or repairs it.
Alter ==
    /\ readable' \in SUBSET written
    /\ UNCHANGED <<written, revoked, call>>

Next ==
    \/ \E c \in Clients :
          \/ \E op \in Operations, d \in Digests : Invoke(c, op, d)
          \/ Put(c) \/ Revoke(c) \/ Get(c) \/ IsRevoked(c) \/ Raise(c) \/ Leave(c)
    \/ Alter

Spec == Init /\ [][Next]_vars
=============================================================================
