-------------------------- MODULE SQLiteReceiptStore --------------------------
(***************************************************************************)
(* SQLiteReceiptStore of protocol.py: one database file, opened by several *)
(* clients (threads and processes).  Every method opens its own            *)
(* connection.  A write is one transaction: its statements change a draft  *)
(* that only its connection sees, under SQLite's single write lock, and    *)
(* commit publishes it.  Reads run in autocommit mode: every SELECT is a   *)
(* snapshot of its own, so get looks at the database three times and       *)
(* is_revoked twice, with other clients' commits in between.  Any call may *)
(* raise ("database is locked" after the busy timeout, an I/O error) and   *)
(* any client may be killed; the open transaction is then rolled back.     *)
(* Receipts are content addressed: payload d is the text that parses to    *)
(* the receipt with digest d, Garbage a text that is no receipt.           *)
(***************************************************************************)
EXTENDS StoreContract

CONSTANTS Clients, Digests, Garbage, NoRow, Nobody

ASSUME DistinguishedValues ==
    /\ Digests # {}
    /\ Garbage \notin Digests
    /\ Nobody \notin Clients
    /\ NoRow \notin [payload : Digests \cup {Garbage}, revoked : BOOLEAN]

VARIABLES
    rows,     \* committed table oncefold_receipts
    markers,  \* committed table oncefold_revocations (its digests)
    draft,    \* both tables as the writing connection sees them
    writer,   \* the client whose transaction holds the write lock
    call      \* [Clients -> the call in progress and its local variables]

vars == <<rows, markers, draft, writer, call>>

Payloads == Digests \cup {Garbage}
Rows == [payload : Payloads, revoked : BOOLEAN] \cup {NoRow}

Steps == {"closed", "idle", "read_row", "read_flag", "read_marker",
          "insert_row", "insert_marker", "set_flag", "commit", "return"}

\* "known" is history: whether the digest was already revoked when the call
\* began.
CallStates == [pc : Steps, op : Operations, digest : Digests, payload : Payloads,
               flag : BOOLEAN, known : BOOLEAN, answer : Answers]

TypeOK ==
    /\ rows \in [Digests -> Rows]
    /\ markers \subseteq Digests
    /\ draft \in [rows : [Digests -> Rows], markers : SUBSET Digests]
    /\ writer \in Clients \cup {Nobody}
    /\ call \in [Clients -> CallStates]

\* A client outside any call.
Resting(pc) == [pc |-> pc, op |-> "get", digest |-> CHOOSE d \in Digests : TRUE,
                payload |-> Garbage, flag |-> FALSE, known |-> FALSE, answer |-> "none"]

Init ==
    /\ rows = [d \in Digests |-> NoRow]
    /\ markers = {}
    /\ draft = [rows |-> rows, markers |-> markers]
    /\ writer = Nobody
    /\ call = [c \in Clients |-> Resting("closed")]

\* What is_revoked computes over the tables it read.
Flagged(table, d) == table[d] # NoRow /\ table[d].revoked

At(c, pc) == call[c].pc = pc
Goto(c, pc) == call' = [call EXCEPT ![c].pc = pc]
Answer(c, answer) ==
    call' = [call EXCEPT ![c] = [@ EXCEPT !.pc = "return", !.answer = answer]]

-----------------------------------------------------------------------------
\* __init__: CREATE TABLE IF NOT EXISTS finds the tables of earlier runs.
Open(c) ==
    /\ At(c, "closed")
    /\ Goto(c, "idle")
    /\ UNCHANGED <<rows, markers, draft, writer>>

FirstStep(op) ==
    CASE op = "put"        -> "insert_row"
      [] op = "revoke"     -> "insert_marker"
      [] op = "get"        -> "read_row"
      [] op = "is_revoked" -> "read_flag"

Begin(c, op, d) ==
    /\ At(c, "idle")
    /\ call' = [call EXCEPT ![c] =
          [pc |-> FirstStep(op), op |-> op, digest |-> d, payload |-> Garbage,
           flag |-> FALSE, known |-> d \in markers, answer |-> "none"]]
    /\ UNCHANGED <<rows, markers, draft, writer>>

\* get: SELECT payload, revoked; a missing or flagged row ends the call.
ReadRow(c) ==
    LET d == call[c].digest IN
    /\ At(c, "read_row")
    /\ IF rows[d] = NoRow \/ Flagged(rows, d)
       THEN Answer(c, "missing")
       ELSE call' = [call EXCEPT ![c] = [@ EXCEPT !.pc = "read_flag",
                                                  !.payload = rows[d].payload]]
    /\ UNCHANGED <<rows, markers, draft, writer>>

\* is_revoked, on its own or inside get: SELECT revoked ...
ReadFlag(c) ==
    /\ At(c, "read_flag")
    /\ call' = [call EXCEPT ![c] = [@ EXCEPT !.pc = "read_marker",
                                             !.flag = Flagged(rows, call[c].digest)]]
    /\ UNCHANGED <<rows, markers, draft, writer>>

\* Mutants of ReadMarker: get answers the text of the row; both methods trust
\* the flag of the row alone.
ReadMarker_RawText(c) ==
    /\ At(c, "read_marker")
    /\ Answer(c, IF call[c].op = "is_revoked" THEN "no" ELSE call[c].payload)
    /\ UNCHANGED <<rows, markers, draft, writer>>

ReadMarker_FlagOnly(c) ==
    /\ At(c, "read_marker")
    /\ Answer(c, IF call[c].op = "is_revoked"
                 THEN IF call[c].flag THEN "yes" ELSE "no"
                 ELSE IF call[c].flag \/ call[c].payload # call[c].digest
                      THEN "missing" ELSE "receipt")
    /\ UNCHANGED <<rows, markers, draft, writer>>

\* ... then SELECT 1 FROM oncefold_revocations, and the answer: get then
\* parses the payload it read first and compares its digest.
ReadMarker(c) ==
    LET d == call[c].digest
        isRevoked == call[c].flag \/ d \in markers
    IN
    /\ At(c, "read_marker")
    /\ Answer(c, IF call[c].op = "is_revoked"
                 THEN IF isRevoked THEN "yes" ELSE "no"
                 ELSE IF isRevoked \/ call[c].payload # d THEN "missing" ELSE "receipt")
    /\ UNCHANGED <<rows, markers, draft, writer>>

\* Mutant of InsertRow: INSERT OR REPLACE starts every row unrevoked.
InsertRow_Replace(c) ==
    /\ At(c, "insert_row")
    /\ writer = Nobody
    /\ writer' = c
    /\ draft' = [draft EXCEPT !.rows[call[c].digest] =
                    [payload |-> call[c].digest, revoked |-> FALSE]]
    /\ Goto(c, "commit")
    /\ UNCHANGED <<rows, markers>>

\* put: the upsert replaces the payload and leaves the flag of an old row.
InsertRow(c) ==
    LET d == call[c].digest IN
    /\ At(c, "insert_row")
    /\ writer = Nobody
    /\ writer' = c
    /\ draft' = [draft EXCEPT !.rows[d] =
                    [payload |-> d, revoked |-> Flagged(draft.rows, d)]]
    /\ Goto(c, "commit")
    /\ UNCHANGED <<rows, markers>>

\* Mutants of InsertMarker: only the flag is written; a digest without a row
\* gets no marker.
InsertMarker_FlagOnly(c) ==
    /\ At(c, "insert_marker")
    /\ writer = Nobody
    /\ writer' = c
    /\ Goto(c, "set_flag")
    /\ UNCHANGED <<rows, markers, draft>>

InsertMarker_KnownRowsOnly(c) ==
    /\ At(c, "insert_marker")
    /\ writer = Nobody
    /\ writer' = c
    /\ draft' = [draft EXCEPT !.markers =
                    @ \cup ({call[c].digest} \cap {d \in Digests : rows[d] # NoRow})]
    /\ Goto(c, "set_flag")
    /\ UNCHANGED <<rows, markers>>

\* revoke: the marker first, for digests without a row too, ...
InsertMarker(c) ==
    /\ At(c, "insert_marker")
    /\ writer = Nobody
    /\ writer' = c
    /\ draft' = [draft EXCEPT !.markers = @ \cup {call[c].digest}]
    /\ Goto(c, "set_flag")
    /\ UNCHANGED <<rows, markers>>

\* ... then the flag of the row, when there is one.
FlagSet(row) == IF row = NoRow THEN NoRow ELSE [row EXCEPT !.revoked = TRUE]

SetFlag(c) ==
    LET d == call[c].digest IN
    /\ At(c, "set_flag")
    /\ draft' = [draft EXCEPT !.rows[d] = FlagSet(draft.rows[d])]
    /\ Goto(c, "commit")
    /\ UNCHANGED <<rows, markers, writer>>

Commit(c) ==
    /\ At(c, "commit")
    /\ rows' = draft.rows
    /\ markers' = draft.markers
    /\ writer' = Nobody
    /\ Answer(c, "ok")
    /\ UNCHANGED draft

\* Mutant of Rollback: the connection is not closed.
Rollback_Leaks(c) == UNCHANGED <<writer, draft>>

\* Closing a connection before commit undoes its transaction.
Rollback(c) ==
    IF writer = c
    THEN writer' = Nobody /\ draft' = [rows |-> rows, markers |-> markers]
    ELSE UNCHANGED <<writer, draft>>

\* An exception leaves the method through its "finally: db.close()".  When it
\* comes out of the commit or the close of a write, the transaction is undone
\* or has taken effect all the same.
Raise(c) ==
    /\ call[c].pc \notin {"closed", "idle"}
    /\ At(c, "return") => call[c].answer = "ok"
    /\ Rollback(c)
    /\ Answer(c, "error")
    /\ UNCHANGED <<rows, markers>>

Return(c) ==
    /\ At(c, "return")
    /\ call' = [call EXCEPT ![c] = Resting("idle")]
    /\ UNCHANGED <<rows, markers, draft, writer>>

\* The client is killed; after a restart it opens the file again.
Crash(c) ==
    /\ ~At(c, "closed")
    /\ Rollback(c)
    /\ call' = [call EXCEPT ![c] = Resting("closed")]
    /\ UNCHANGED <<rows, markers>>

\* Something else rewrites the payload of a row: the text is another
\* receipt, no receipt at all, or the original again.
Alter(d, payload) ==
    /\ writer = Nobody
    /\ rows[d] # NoRow
    /\ rows' = [rows EXCEPT ![d].payload = payload]
    /\ draft' = [draft EXCEPT !.rows = rows']
    /\ UNCHANGED <<markers, writer, call>>

Step(c) ==
    \/ ReadRow(c) \/ ReadFlag(c) \/ ReadMarker(c)
    \/ InsertRow(c) \/ InsertMarker(c) \/ SetFlag(c) \/ Commit(c)
    \/ Return(c)

Next ==
    \/ \E c \in Clients :
          \/ Open(c) \/ Crash(c) \/ Step(c) \/ Raise(c)
          \/ \E op \in Operations, d \in Digests : Begin(c, op, d)
    \/ \E d \in Digests, payload \in Payloads : Alter(d, payload)

Spec == Init /\ [][Next]_vars

\* The busy timeout: a write that cannot get the lock gives up.
Timeout(c) ==
    /\ call[c].pc \in {"insert_row", "insert_marker"}
    /\ writer # Nobody
    /\ Raise(c)

\* A method that was called keeps running until it returns or raises, and
\* no write waits for the lock for ever: weak fairness, client by client.
FairSpec == Spec /\ \A c \in Clients : WF_vars(Step(c) \/ Timeout(c))

-----------------------------------------------------------------------------
(* Properties *)

\* The flag of a row is a copy of the revocation table, never evidence of its
\* own: revoke writes both tables in one transaction (lines 584-592).
FlagHasMarker == \A d \in Digests : Flagged(rows, d) => d \in markers

\* A receipt that get hands out is the one that was asked for, and it was not
\* revoked when the get began, although get reads three snapshots (552, 568,
\* 571) and puts, revokes, crashes and foreign edits fall between them; a put
\* never revives a revoked receipt.
GetIsSound ==
    \A c \in Clients : call[c].answer = "receipt" =>
        /\ call[c].payload = call[c].digest
        /\ ~call[c].known

\* is_revoked (565-576) is a linearizable read of a set that only grows:
\* "no" was true when the call began, "yes" is true when it answers.
IsRevokedIsCurrent ==
    \A c \in Clients : call[c].op = "is_revoked" =>
        /\ call[c].answer = "no" => ~call[c].known
        /\ call[c].answer = "yes" => call[c].digest \in markers

\* No step takes a revocation back: not a put of the same receipt (540), not
\* a rolled back transaction, not a crash and a reopening.  An acknowledged
\* revoke is one of the committed ones.
RevocationIsPermanent ==
    [][/\ markers \subseteq markers'
       /\ \A c \in Clients :
             call'[c].op = "revoke" /\ call'[c].answer = "ok" =>
                 call'[c].digest \in markers'
       /\ \A d \in Digests : Flagged(rows, d) => Flagged(rows', d)]_vars

\* Every transaction ends, also when its method raises or its client dies
\* ("finally: db.close()", 545, 593), so the write lock is never leaked.
LockIsReleased == \A c \in Clients : (writer = c) ~> (writer # c)

\* The refinement mapping.  A read takes effect at the first SELECT whose
\* result settles its answer, a write when it commits.
Settled(c) ==
    CASE call[c].pc = "return" -> call[c].answer
      [] call[c].pc \in {"read_flag", "read_marker"} /\ call[c].op = "get"
             /\ (call[c].payload # call[c].digest \/ call[c].flag) -> "missing"
      [] call[c].pc = "read_marker" /\ call[c].op = "is_revoked" /\ call[c].flag -> "yes"
      [] OTHER -> "none"

AbstractCall(c) ==
    IF call[c].pc \in {"closed", "idle"}
    THEN [phase |-> "idle", op |-> "get", digest |-> CHOOSE d \in Digests : TRUE,
          answer |-> "none"]
    ELSE [phase |-> IF Settled(c) = "none" THEN "pending" ELSE "done",
          op |-> call[c].op, digest |-> call[c].digest, answer |-> Settled(c)]

Readable == {d \in Digests : rows[d] # NoRow /\ rows[d].payload = d}
Written == {d \in Digests : rows[d] # NoRow}

Contract == INSTANCE ReceiptStore WITH
    HidesRevoked <- TRUE,
    readable <- Readable,
    written <- Written,
    revoked <- markers,
    call <- [c \in Clients |-> AbstractCall(c)]

\* The SQLite backend implements the abstract store: every behaviour of the
\* three-snapshot get, two-snapshot is_revoked and two-statement revoke
\* transaction is one of atomic calls.
ImplementsContract == Contract!Spec
=============================================================================
