----------------------- MODULE SQLiteReceiptStoreProofs -----------------------
(***************************************************************************)
(* Proofs about SQLiteReceiptStore, for any clients and any digests.  The  *)
(* argument: the draft of the writing connection is the committed tables   *)
(* plus exactly what the statements executed so far change (DraftInv), the *)
(* write lock belongs to the one client between its first statement and    *)
(* its commit (LockInv), and what a read remembers from an earlier         *)
(* snapshot is never contradicted later, because revocations only grow     *)
(* (ReadInv).                                                              *)
(***************************************************************************)
EXTENDS SQLiteReceiptStore, TLAPS

InTransaction(c) == call[c].pc \in {"set_flag", "commit"}

LockInv ==
    \A c \in Clients : writer = c <=> InTransaction(c)

DraftInv ==
    /\ writer = Nobody => draft = [rows |-> rows, markers |-> markers]
    /\ \A c \in Clients : InTransaction(c) =>
          LET d == call[c].digest IN
          \/ /\ call[c].op = "put" /\ call[c].pc = "commit"
             /\ draft.markers = markers
             /\ draft.rows = [rows EXCEPT ![d] =
                                 [payload |-> d, revoked |-> Flagged(rows, d)]]
          \/ /\ call[c].op = "revoke" /\ call[c].pc = "set_flag"
             /\ draft.markers = markers \cup {d}
             /\ draft.rows = rows
          \/ /\ call[c].op = "revoke" /\ call[c].pc = "commit"
             /\ draft.markers = markers \cup {d}
             /\ draft.rows = [rows EXCEPT ![d] = FlagSet(rows[d])]

\* What the call k remembers and answers, against the committed revocations.
CallOK(k, revocations) ==
    /\ k.known => k.digest \in revocations
    /\ k.flag => k.digest \in revocations
    /\ k.pc = "read_row" => k.op = "get"
    /\ k.pc \in {"read_flag", "read_marker"} => k.op \in {"get", "is_revoked"}
    /\ k.pc = "insert_row" => k.op = "put"
    /\ k.pc = "insert_marker" => k.op = "revoke"
    /\ k.answer # "none" <=> k.pc = "return"
    /\ k.answer = "receipt" => k.payload = k.digest /\ ~k.known
    /\ k.op = "is_revoked" /\ k.answer = "no" => ~k.known
    /\ k.op = "is_revoked" /\ k.answer = "yes" => k.digest \in revocations
    /\ k.op = "revoke" /\ k.answer = "ok" => k.digest \in revocations

ReadInv == \A c \in Clients : CallOK(call[c], markers)

IInv == TypeOK /\ LockInv /\ DraftInv /\ ReadInv /\ FlagHasMarker

-----------------------------------------------------------------------------
(* Type correctness *)

\* A client that rests is well typed.
LEMMA RestingType ==
    ASSUME NEW pc \in Steps
    PROVE  Resting(pc) \in CallStates
<1>1. (CHOOSE d \in Digests : TRUE) \in Digests
  BY DistinguishedValues
<1>2. QED
  BY <1>1 DEF Resting, CallStates, Operations, Payloads, Answers

\* The variables have their types at first.
LEMMA TypeInit == Init => TypeOK
<1>1. "closed" \in Steps
  BY DEF Steps
<1>2. QED
  BY <1>1, RestingType DEF Init, TypeOK, Rows

\* Whether a row is flagged is a truth value.
LEMMA FlaggedType ==
    ASSUME NEW table, NEW d PROVE Flagged(table, d) \in BOOLEAN
  BY DEF Flagged

\* A call that answers stays well typed.
LEMMA AnswerType ==
    ASSUME TypeOK, NEW c \in Clients, NEW answer \in Answers, Answer(c, answer)
    PROVE  call' \in [Clients -> CallStates]
<1>1. [call[c] EXCEPT !.pc = "return", !.answer = answer] \in CallStates
  BY DEF TypeOK, CallStates, Steps
<1>2. QED
  BY <1>1 DEF TypeOK, Answer

\* Every step keeps the types.
LEMMA TypeNext == TypeOK /\ [Next]_vars => TypeOK'
<1> SUFFICES ASSUME TypeOK, [Next]_vars
             PROVE  TypeOK'
  OBVIOUS
<1> USE DEF TypeOK, CallStates
<1>1. ASSUME NEW c \in Clients, Open(c)
      PROVE  TypeOK'
  BY <1>1 DEF Open, Goto, Steps
<1>2. ASSUME NEW c \in Clients, NEW op \in Operations, NEW d \in Digests, Begin(c, op, d)
      PROVE  TypeOK'
  BY <1>2 DEF Begin, FirstStep, Steps, Operations, Payloads, Answers
<1>3. ASSUME NEW c \in Clients, ReadRow(c)
      PROVE  TypeOK'
  <2> DEFINE d == call[c].digest
  <2>1. CASE rows[d] = NoRow \/ Flagged(rows, d)
    <3>1. Answer(c, "missing")
      BY <1>3, <2>1 DEF ReadRow
    <3>2. QED
      BY <1>3, <3>1, AnswerType DEF ReadRow, Answers
  <2>2. CASE ~(rows[d] = NoRow \/ Flagged(rows, d))
    <3>1. [call[c] EXCEPT !.pc = "read_flag", !.payload = rows[d].payload] \in CallStates
      BY <2>2 DEF Steps, Rows
    <3>2. call' = [call EXCEPT ![c] = [@ EXCEPT !.pc = "read_flag",
                                                !.payload = rows[d].payload]]
      BY <1>3, <2>2 DEF ReadRow
    <3>3. QED
      BY <1>3, <3>1, <3>2 DEF ReadRow
  <2>3. QED
    BY <2>1, <2>2
<1>4. ASSUME NEW c \in Clients, ReadFlag(c)
      PROVE  TypeOK'
  <2>1. [call[c] EXCEPT !.pc = "read_marker",
                        !.flag = Flagged(rows, call[c].digest)] \in CallStates
    BY FlaggedType DEF Steps
  <2>2. QED
    BY <1>4, <2>1 DEF ReadFlag
<1>5. ASSUME NEW c \in Clients, ReadMarker(c)
      PROVE  TypeOK'
  <2>1. PICK answer \in Answers : Answer(c, answer)
    BY <1>5 DEF ReadMarker, Answers
  <2>2. QED
    BY <1>5, <2>1, AnswerType DEF ReadMarker
<1>6. ASSUME NEW c \in Clients, InsertRow(c)
      PROVE  TypeOK'
  <2> DEFINE d == call[c].digest
  <2>1. [payload |-> d, revoked |-> Flagged(draft.rows, d)] \in Rows
    BY FlaggedType DEF Rows, Payloads
  <2>2. draft' \in [rows : [Digests -> Rows], markers : SUBSET Digests]
    BY <1>6, <2>1 DEF InsertRow
  <2>3. QED
    BY <1>6, <2>2 DEF InsertRow, Goto, Steps
<1>7. ASSUME NEW c \in Clients, InsertMarker(c)
      PROVE  TypeOK'
  BY <1>7 DEF InsertMarker, Goto, Steps
<1>8. ASSUME NEW c \in Clients, SetFlag(c)
      PROVE  TypeOK'
  <2>1. FlagSet(draft.rows[call[c].digest]) \in Rows
    BY DEF Rows, FlagSet
  <2>2. draft' \in [rows : [Digests -> Rows], markers : SUBSET Digests]
    BY <1>8, <2>1 DEF SetFlag
  <2>3. call' \in [Clients -> CallStates]
    BY <1>8 DEF SetFlag, Goto, Steps
  <2>4. QED
    BY <1>8, <2>2, <2>3 DEF SetFlag
<1>9. ASSUME NEW c \in Clients, Commit(c)
      PROVE  TypeOK'
  BY <1>9, AnswerType DEF Commit, Answers
<1>10. ASSUME NEW c \in Clients, Raise(c)
       PROVE  TypeOK'
  BY <1>10, AnswerType DEF Raise, Rollback, Answers
<1>11. ASSUME NEW c \in Clients, Return(c)
       PROVE  TypeOK'
  <2>1. "idle" \in Steps
    BY DEF Steps
  <2>2. QED
    BY <1>11, <2>1, RestingType DEF Return
<1>12. ASSUME NEW c \in Clients, Crash(c)
       PROVE  TypeOK'
  <2>1. "closed" \in Steps
    BY DEF Steps
  <2>2. QED
    BY <1>12, <2>1, RestingType DEF Crash, Rollback
<1>13. ASSUME NEW d \in Digests, NEW payload \in Payloads, Alter(d, payload)
       PROVE  TypeOK'
  BY <1>13 DEF Alter, Rows
<1>14. CASE UNCHANGED vars
  BY <1>14 DEF vars
<1>15. QED
  BY <1>1, <1>2, <1>3, <1>4, <1>5, <1>6, <1>7, <1>8, <1>9, <1>10, <1>11, <1>12,
     <1>13, <1>14 DEF Next, Step

\* The tables, the lock and every call in progress keep their types, for any
\* number of clients and digests.
THEOREM TypeCorrect == Spec => []TypeOK
  BY TypeInit, TypeNext, PTL DEF Spec

-----------------------------------------------------------------------------
(* The inductive invariant *)

\* The write lock: taken by the first statement of a write, given back by its
\* commit, or by the rollback that every exception and every crash bring.
LEMMA LockStep == TypeOK /\ LockInv /\ [Next]_vars => LockInv'
<1> SUFFICES ASSUME TypeOK, LockInv, [Next]_vars
             PROVE  LockInv'
  OBVIOUS
<1> USE DistinguishedValues DEF TypeOK, CallStates, LockInv, InTransaction, At
<1>1. ASSUME NEW c \in Clients, Open(c)
      PROVE  LockInv'
  BY <1>1 DEF Open, Goto
<1>2. ASSUME NEW c \in Clients, NEW op \in Operations, NEW d \in Digests, Begin(c, op, d)
      PROVE  LockInv'
  BY <1>2 DEF Begin, FirstStep, Operations
<1>3. ASSUME NEW c \in Clients, ReadRow(c)
      PROVE  LockInv'
  <2> DEFINE d == call[c].digest
  <2>0. call[c].pc = "read_row" /\ writer' = writer
    BY <1>3 DEF ReadRow
  <2>1. CASE rows[d] = NoRow \/ Flagged(rows, d)
    <3>1. Answer(c, "missing")
      BY <1>3, <2>1 DEF ReadRow
    <3>2. QED
      BY <2>0, <3>1 DEF Answer
  <2>2. CASE ~(rows[d] = NoRow \/ Flagged(rows, d))
    <3>1. call' = [call EXCEPT ![c] = [@ EXCEPT !.pc = "read_flag",
                                                !.payload = rows[d].payload]]
      BY <1>3, <2>2 DEF ReadRow
    <3>2. QED
      BY <2>0, <3>1
  <2>3. QED
    BY <2>1, <2>2
<1>4. ASSUME NEW c \in Clients, ReadFlag(c)
      PROVE  LockInv'
  BY <1>4 DEF ReadFlag
<1>5. ASSUME NEW c \in Clients, ReadMarker(c)
      PROVE  LockInv'
  BY <1>5 DEF ReadMarker, Answer
<1>6. ASSUME NEW c \in Clients, InsertRow(c)
      PROVE  LockInv'
  BY <1>6 DEF InsertRow, Goto
<1>7. ASSUME NEW c \in Clients, InsertMarker(c)
      PROVE  LockInv'
  BY <1>7 DEF InsertMarker, Goto
<1>8. ASSUME NEW c \in Clients, SetFlag(c)
      PROVE  LockInv'
  BY <1>8 DEF SetFlag, Goto
<1>9. ASSUME NEW c \in Clients, Commit(c)
      PROVE  LockInv'
  BY <1>9 DEF Commit, Answer
<1>10. ASSUME NEW c \in Clients, Raise(c)
       PROVE  LockInv'
  BY <1>10 DEF Raise, Rollback, Answer
<1>11. ASSUME NEW c \in Clients, Return(c)
       PROVE  LockInv'
  BY <1>11 DEF Return, Resting
<1>12. ASSUME NEW c \in Clients, Crash(c)
       PROVE  LockInv'
  BY <1>12 DEF Crash, Rollback, Resting
<1>13. ASSUME NEW d \in Digests, NEW payload \in Payloads, Alter(d, payload)
       PROVE  LockInv'
  BY <1>13 DEF Alter
<1>14. CASE UNCHANGED vars
  BY <1>14 DEF vars
<1>15. QED
  BY <1>1, <1>2, <1>3, <1>4, <1>5, <1>6, <1>7, <1>8, <1>9, <1>10, <1>11, <1>12,
     <1>13, <1>14 DEF Next, Step

\* What a step outside a transaction leaves alone.
Bystander(c) ==
    /\ ~InTransaction(c) /\ ~InTransaction(c)'
    /\ \A e \in Clients \ {c} : call'[e] = call[e]
    /\ UNCHANGED <<rows, markers, draft, writer>>

\* Reads, and a call's begin and end, touch neither tables nor transactions.
LEMMA Outside ==
    ASSUME TypeOK, NEW c \in Clients,
           \/ Open(c) \/ ReadRow(c) \/ ReadFlag(c) \/ ReadMarker(c) \/ Return(c)
           \/ \E op \in Operations, d \in Digests : Begin(c, op, d)
    PROVE  Bystander(c)
<1> USE DEF TypeOK, CallStates, Bystander, InTransaction, At
<1>1. CASE Open(c)
  BY <1>1 DEF Open, Goto
<1>2. CASE ReadRow(c)
  <2>1. call[c].pc = "read_row" /\ UNCHANGED <<rows, markers, draft, writer>>
    BY <1>2 DEF ReadRow
  <2>2. CASE Answer(c, "missing")
    BY <2>1, <2>2 DEF Answer
  <2>3. CASE call' = [call EXCEPT ![c] =
                         [@ EXCEPT !.pc = "read_flag",
                                   !.payload = rows[call[c].digest].payload]]
    BY <2>1, <2>3
  <2>4. QED
    BY <1>2, <2>2, <2>3 DEF ReadRow
<1>3. CASE ReadFlag(c)
  BY <1>3 DEF ReadFlag
<1>4. CASE ReadMarker(c)
  BY <1>4 DEF ReadMarker, Answer
<1>5. CASE Return(c)
  BY <1>5 DEF Return, Resting
<1>6. ASSUME NEW op \in Operations, NEW d \in Digests, Begin(c, op, d)
      PROVE  Bystander(c)
  BY <1>6 DEF Begin, FirstStep, Operations
<1>7. QED
  BY <1>1, <1>2, <1>3, <1>4, <1>5, <1>6

\* So it leaves the draft in order.
LEMMA OutsideDraft ==
    ASSUME TypeOK, DraftInv, NEW c \in Clients, Bystander(c)
    PROVE  DraftInv'
<1>1. ASSUME NEW e \in Clients, InTransaction(e)'
      PROVE  call'[e] = call[e] /\ InTransaction(e)
  BY <1>1 DEF Bystander, InTransaction
<1>2. QED
  BY <1>1 DEF Bystander, DraftInv, Flagged, FlagSet

\* The draft is the committed tables plus what the open transaction's
\* statements did so far; nobody else is in a transaction.
LEMMA DraftStep ==
    TypeOK /\ LockInv /\ DraftInv /\ ReadInv /\ [Next]_vars => DraftInv'
<1> SUFFICES ASSUME TypeOK, LockInv, DraftInv, ReadInv, [Next]_vars
             PROVE  DraftInv'
  OBVIOUS
<1>1. ASSUME NEW c \in Clients,
             \/ Open(c) \/ ReadRow(c) \/ ReadFlag(c) \/ ReadMarker(c) \/ Return(c)
             \/ \E op \in Operations, d \in Digests : Begin(c, op, d)
      PROVE  DraftInv'
  BY <1>1, Outside, OutsideDraft
<1>2. ASSUME writer = Nobody
      PROVE  /\ \A e \in Clients : ~InTransaction(e)
             /\ draft = [rows |-> rows, markers |-> markers]
  BY <1>2, DistinguishedValues DEF LockInv, DraftInv
<1>3. ASSUME NEW c \in Clients, NEW e \in Clients, InTransaction(c), InTransaction(e)
      PROVE  e = c
  BY <1>3 DEF LockInv
<1>4. ASSUME NEW c \in Clients, InsertRow(c)
      PROVE  DraftInv'
  <2> DEFINE d == call[c].digest
  <2>1. writer = Nobody /\ call[c].op = "put" /\ rows' = rows /\ markers' = markers
    BY <1>4 DEF InsertRow, ReadInv, CallOK, At
  <2>2. /\ draft'.markers = markers
        /\ draft'.rows = [rows EXCEPT ![d] = [payload |-> d, revoked |-> Flagged(rows, d)]]
    BY <1>2, <1>4, <2>1 DEF InsertRow
  <2>3. /\ call'[c].pc = "commit" /\ call'[c].op = call[c].op /\ call'[c].digest = d
        /\ \A e \in Clients \ {c} : call'[e] = call[e]
    BY <1>4 DEF InsertRow, Goto, TypeOK, CallStates
  <2>4. writer' # Nobody
    BY <1>4, DistinguishedValues DEF InsertRow
  <2>5. QED
    BY <1>2, <2>1, <2>2, <2>3, <2>4 DEF DraftInv, InTransaction, Flagged
<1>5. ASSUME NEW c \in Clients, InsertMarker(c)
      PROVE  DraftInv'
  <2> DEFINE d == call[c].digest
  <2>1. writer = Nobody /\ call[c].op = "revoke" /\ rows' = rows /\ markers' = markers
    BY <1>5 DEF InsertMarker, ReadInv, CallOK, At
  <2>2. draft'.markers = markers \cup {d} /\ draft'.rows = rows
    BY <1>2, <1>5, <2>1 DEF InsertMarker
  <2>3. /\ call'[c].pc = "set_flag" /\ call'[c].op = call[c].op /\ call'[c].digest = d
        /\ \A e \in Clients \ {c} : call'[e] = call[e]
    BY <1>5 DEF InsertMarker, Goto, TypeOK, CallStates
  <2>4. writer' # Nobody
    BY <1>5, DistinguishedValues DEF InsertMarker
  <2>5. QED
    BY <1>2, <2>1, <2>2, <2>3, <2>4 DEF DraftInv, InTransaction
<1>6. ASSUME NEW c \in Clients, SetFlag(c)
      PROVE  DraftInv'
  <2> DEFINE d == call[c].digest
  <2>1. /\ call[c].pc = "set_flag" /\ InTransaction(c)
        /\ rows' = rows /\ markers' = markers /\ writer' = writer
    BY <1>6 DEF SetFlag, At, InTransaction
  <2>2. /\ call[c].op = "revoke"
        /\ draft.markers = markers \cup {d} /\ draft.rows = rows
    BY <2>1 DEF DraftInv
  <2>3. /\ draft'.markers = markers \cup {d}
        /\ draft'.rows = [rows EXCEPT ![d] = FlagSet(rows[d])]
    BY <1>6, <2>2 DEF SetFlag, TypeOK
  <2>4. /\ call'[c].pc = "commit" /\ call'[c].op = call[c].op /\ call'[c].digest = d
        /\ \A e \in Clients \ {c} : call'[e] = call[e]
    BY <1>6 DEF SetFlag, Goto, TypeOK, CallStates
  <2>5. writer' # Nobody
    BY <2>1, DistinguishedValues DEF LockInv
  <2>6. QED
    BY <1>3, <2>1, <2>2, <2>3, <2>4, <2>5 DEF DraftInv, InTransaction
<1>7. ASSUME NEW c \in Clients, Commit(c)
      PROVE  DraftInv'
  <2>1. InTransaction(c) /\ rows' = draft.rows /\ markers' = draft.markers /\ draft' = draft
    BY <1>7 DEF Commit, At, InTransaction
  <2>2. call'[c].pc = "return" /\ \A e \in Clients \ {c} : call'[e] = call[e]
    BY <1>7 DEF Commit, Answer, TypeOK, CallStates
  <2>3. \A e \in Clients : ~InTransaction(e)'
    BY <1>3, <2>1, <2>2 DEF InTransaction
  <2>4. draft' = [rows |-> rows', markers |-> markers']
    BY <2>1 DEF TypeOK
  <2>5. QED
    BY <2>3, <2>4 DEF DraftInv
<1>8. ASSUME NEW c \in Clients, Rollback(c), UNCHANGED <<rows, markers>>,
             ~InTransaction(c)', \A e \in Clients \ {c} : call'[e] = call[e]
      PROVE  DraftInv'
  <2>1. CASE writer = c
    <3>1. \A e \in Clients : ~InTransaction(e)'
      BY <1>8, <2>1, DistinguishedValues DEF InTransaction, LockInv
    <3>2. draft' = [rows |-> rows', markers |-> markers']
      BY <1>8, <2>1 DEF Rollback
    <3>3. QED
      BY <3>1, <3>2 DEF DraftInv
  <2>2. CASE writer # c
    <3>1. ~InTransaction(c) /\ UNCHANGED <<rows, markers, draft, writer>>
      BY <1>8, <2>2 DEF Rollback, LockInv
    <3>2. QED
      BY <1>8, <3>1, OutsideDraft DEF Bystander
  <2>3. QED
    BY <2>1, <2>2
<1>9. ASSUME NEW c \in Clients, Raise(c)
      PROVE  DraftInv'
  BY <1>8, <1>9 DEF Raise, Answer, InTransaction, TypeOK, CallStates
<1>10. ASSUME NEW c \in Clients, Crash(c)
       PROVE  DraftInv'
  BY <1>8, <1>10 DEF Crash, Resting, InTransaction, TypeOK, CallStates
<1>11. ASSUME NEW d \in Digests, NEW payload \in Payloads, Alter(d, payload)
       PROVE  DraftInv'
  <2>1. writer = Nobody /\ writer' = writer /\ markers' = markers /\ call' = call
    BY <1>11 DEF Alter
  <2>2. draft' = [rows |-> rows', markers |-> markers']
    BY <1>2, <1>11, <2>1 DEF Alter
  <2>3. QED
    BY <1>2, <2>1, <2>2 DEF DraftInv, InTransaction
<1>12. CASE UNCHANGED vars
  BY <1>12 DEF vars, DraftInv, InTransaction, Flagged, FlagSet
<1>13. QED
  BY <1>1, <1>4, <1>5, <1>6, <1>7, <1>9, <1>10, <1>11, <1>12 DEF Next, Step

\* How the committed tables change: only a commit and a foreign edit touch
\* them.  A commit adds what its draft added, an edit changes payloads only.
Unrevised ==
    /\ markers' = markers
    /\ \A d \in Digests : Flagged(rows', d) <=> Flagged(rows, d)

\* A commit publishes one put or one revocation, nothing else.
LEMMA CommitTables ==
    ASSUME TypeOK, DraftInv, NEW c \in Clients, Commit(c)
    PROVE  \/ call[c].op = "put" /\ Unrevised
           \/ /\ call[c].op = "revoke"
              /\ markers' = markers \cup {call[c].digest}
              /\ \A d \in Digests : Flagged(rows, d) => Flagged(rows', d)
              /\ \A d \in Digests \ {call[c].digest} :
                    Flagged(rows', d) <=> Flagged(rows, d)
<1> DEFINE d == call[c].digest
<1>0. d \in Digests /\ rows \in [Digests -> Rows]
  BY DEF TypeOK, CallStates
<1>1. InTransaction(c) /\ call[c].pc = "commit" /\ rows' = draft.rows /\ markers' = draft.markers
  BY DEF Commit, At, InTransaction
<1>2. CASE /\ call[c].op = "put" /\ draft.markers = markers
           /\ draft.rows = [rows EXCEPT ![d] =
                               [payload |-> d, revoked |-> Flagged(rows, d)]]
  <2>1. [payload |-> d, revoked |-> Flagged(rows, d)] # NoRow
    BY <1>0, DistinguishedValues, FlaggedType
  <2>2. rows'[d].revoked = Flagged(rows, d) /\ rows'[d] # NoRow
    BY <1>0, <1>1, <1>2, <2>1
  <2>3. \A e \in Digests \ {d} : rows'[e] = rows[e]
    BY <1>0, <1>1, <1>2
  <2>4. \A e \in Digests : Flagged(rows', e) <=> Flagged(rows, e)
    BY <2>2, <2>3 DEF Flagged
  <2>5. QED
    BY <1>1, <1>2, <2>4 DEF Unrevised
<1>3. CASE /\ call[c].op = "revoke" /\ draft.markers = markers \cup {d}
           /\ draft.rows = [rows EXCEPT ![d] = FlagSet(rows[d])]
  <2>1. \A e \in Digests \ {d} : rows'[e] = rows[e]
    BY <1>0, <1>1, <1>3
  <2>2. rows'[d] = FlagSet(rows[d])
    BY <1>0, <1>1, <1>3
  <2>3. Flagged(rows, d) => Flagged(rows', d)
    <3> SUFFICES ASSUME rows[d] # NoRow
                 PROVE  rows'[d] # NoRow /\ rows'[d].revoked
      BY DEF Flagged
    <3>1. rows[d] \in [payload : Digests \cup {Garbage}, revoked : BOOLEAN]
      BY <1>0 DEF Rows, Payloads
    <3>2. rows'[d] = [rows[d] EXCEPT !.revoked = TRUE]
      BY <2>2 DEF FlagSet
    <3>3. rows'[d] \in [payload : Digests \cup {Garbage}, revoked : BOOLEAN] /\ rows'[d].revoked
      BY <3>1, <3>2
    <3>4. QED
      BY <3>3, DistinguishedValues
  <2>4. QED
    BY <1>1, <1>3, <2>1, <2>3 DEF Flagged
<1>4. QED
  BY <1>1, <1>2, <1>3 DEF DraftInv

\* Only the commit of a revoke changes a flag or a marker.
LEMMA TablesStep ==
    ASSUME TypeOK, DraftInv, [Next]_vars
    PROVE  \/ Unrevised
           \/ \E c \in Clients : Commit(c) /\ call[c].op = "revoke"
<1>1. ASSUME UNCHANGED <<rows, markers>>
      PROVE  Unrevised
  BY <1>1 DEF Unrevised, Flagged
<1>2. ASSUME NEW d \in Digests, NEW payload \in Payloads, Alter(d, payload)
      PROVE  Unrevised
  <2>1. /\ markers' = markers /\ rows[d] # NoRow
        /\ rows' = [rows EXCEPT ![d].payload = payload]
    BY <1>2 DEF Alter
  <2>2. rows[d] \in [payload : Digests \cup {Garbage}, revoked : BOOLEAN]
    BY <2>1 DEF TypeOK, Rows, Payloads
  <2>3. /\ rows'[d] = [rows[d] EXCEPT !.payload = payload]
        /\ \A e \in Digests \ {d} : rows'[e] = rows[e]
    BY <2>1 DEF TypeOK
  <2>4. /\ rows'[d].revoked = rows[d].revoked
        /\ rows'[d] \in [payload : Digests \cup {Garbage}, revoked : BOOLEAN]
    BY <2>2, <2>3 DEF Payloads
  <2>5. rows'[d] # NoRow
    BY <2>4, DistinguishedValues
  <2>6. QED
    BY <2>1, <2>3, <2>4, <2>5 DEF Unrevised, Flagged
<1>3. ASSUME NEW c \in Clients, Commit(c)
      PROVE  Unrevised \/ call[c].op = "revoke"
  BY <1>3, CommitTables
<1>4. ASSUME NEW c \in Clients,
             \/ Open(c) \/ Crash(c) \/ Raise(c) \/ Return(c)
             \/ ReadRow(c) \/ ReadFlag(c) \/ ReadMarker(c)
             \/ InsertRow(c) \/ InsertMarker(c) \/ SetFlag(c)
             \/ \E op \in Operations, d \in Digests : Begin(c, op, d)
      PROVE  UNCHANGED <<rows, markers>>
  BY <1>4 DEF Open, Crash, Raise, Return, ReadRow, ReadFlag, ReadMarker,
              InsertRow, InsertMarker, SetFlag, Begin
<1>5. CASE UNCHANGED vars
  BY <1>1, <1>5 DEF vars
<1>6. QED
  BY <1>1, <1>2, <1>3, <1>4, <1>5 DEF Next, Step

\* Revocations only grow, in both tables.
LEMMA RevocationsGrow ==
    ASSUME TypeOK, DraftInv, [Next]_vars
    PROVE  /\ markers \subseteq markers'
           /\ \A d \in Digests : Flagged(rows, d) => Flagged(rows', d)
  BY TablesStep, CommitTables DEF Unrevised

\* A flag never gets ahead of its marker.
LEMMA FlagStep ==
    TypeOK /\ DraftInv /\ FlagHasMarker /\ [Next]_vars => FlagHasMarker'
<1> SUFFICES ASSUME TypeOK, DraftInv, FlagHasMarker, [Next]_vars
             PROVE  FlagHasMarker'
  OBVIOUS
<1>1. CASE Unrevised
  BY <1>1 DEF Unrevised, FlagHasMarker
<1>2. ASSUME NEW c \in Clients, Commit(c), call[c].op = "revoke"
      PROVE  FlagHasMarker'
  BY <1>2, CommitTables DEF FlagHasMarker, Unrevised
<1>3. QED
  BY <1>1, <1>2, TablesStep

\* What each call has read bounds its answer: both read properties follow.
LEMMA Invariants ==
    ReadInv => GetIsSound /\ IsRevokedIsCurrent
  BY DEF ReadInv, CallOK, GetIsSound, IsRevokedIsCurrent

\* The client that takes a step.
LEMMA CallStep ==
    ASSUME IInv, NEW c \in Clients,
           \/ Open(c) \/ Crash(c) \/ Raise(c) \/ Step(c)
           \/ \E op \in Operations, d \in Digests : Begin(c, op, d)
    PROVE  CallOK(call'[c], markers')
<1>0. TypeOK /\ CallOK(call[c], markers) /\ FlagHasMarker
  BY DEF IInv, ReadInv
<1> DEFINE k == call[c]
           d == k.digest
<1>1. CASE Open(c)
  BY <1>0, <1>1 DEF Open, Goto, At, TypeOK, CallStates, CallOK
<1>2. ASSUME NEW op \in Operations, NEW e \in Digests, Begin(c, op, e)
      PROVE  CallOK(call'[c], markers')
  BY <1>0, <1>2 DEF Begin, FirstStep, Operations, TypeOK, CallOK
<1>3. CASE ReadRow(c)
  <2>1. k.pc = "read_row" /\ markers' = markers
    BY <1>3 DEF ReadRow, At
  <2>2. CASE Answer(c, "missing")
    BY <1>0, <2>1, <2>2 DEF Answer, TypeOK, CallStates, CallOK
  <2>3. CASE call' = [call EXCEPT ![c] = [@ EXCEPT !.pc = "read_flag",
                                                   !.payload = rows[d].payload]]
    BY <1>0, <2>1, <2>3 DEF TypeOK, CallStates, CallOK
  <2>4. QED
    BY <1>3, <2>2, <2>3 DEF ReadRow
<1>4. CASE ReadFlag(c)
  <2>1. Flagged(rows, d) => d \in markers
    BY <1>0 DEF FlagHasMarker, TypeOK, CallStates
  <2>2. QED
    BY <1>0, <1>4, <2>1 DEF ReadFlag, At, TypeOK, CallStates, CallOK
<1>5. CASE ReadMarker(c)
  <2>1. k.pc = "read_marker" /\ k.op \in {"get", "is_revoked"} /\ markers' = markers
    BY <1>0, <1>5 DEF ReadMarker, At, CallOK
  <2> DEFINE isRevoked == k.flag \/ d \in markers
  <2>2. isRevoked <=> d \in markers
    BY <1>0 DEF CallOK
  <2>3. CASE k.op = "is_revoked" /\ isRevoked
    <3>1. Answer(c, "yes")
      BY <1>5, <2>3 DEF ReadMarker
    <3>2. QED
      BY <1>0, <2>1, <2>2, <2>3, <3>1 DEF Answer, TypeOK, CallStates, CallOK
  <2>4. CASE k.op = "is_revoked" /\ ~isRevoked
    <3>1. Answer(c, "no")
      BY <1>5, <2>4 DEF ReadMarker
    <3>2. QED
      BY <1>0, <2>1, <2>2, <2>4, <3>1 DEF Answer, TypeOK, CallStates, CallOK
  <2>5. CASE k.op = "get" /\ (isRevoked \/ k.payload # d)
    <3>1. Answer(c, "missing")
      BY <1>5, <2>5 DEF ReadMarker
    <3>2. QED
      BY <1>0, <2>1, <2>5, <3>1 DEF Answer, TypeOK, CallStates, CallOK
  <2>6. CASE k.op = "get" /\ ~isRevoked /\ k.payload = d
    <3>1. Answer(c, "receipt")
      BY <1>5, <2>6 DEF ReadMarker
    <3>2. QED
      BY <1>0, <2>1, <2>2, <2>6, <3>1 DEF Answer, TypeOK, CallStates, CallOK
  <2>7. QED
    BY <2>1, <2>3, <2>4, <2>5, <2>6
<1>6. CASE InsertRow(c)
  BY <1>0, <1>6 DEF InsertRow, Goto, At, TypeOK, CallStates, CallOK
<1>7. CASE InsertMarker(c)
  BY <1>0, <1>7 DEF InsertMarker, Goto, At, TypeOK, CallStates, CallOK
<1>8. CASE SetFlag(c)
  BY <1>0, <1>8 DEF SetFlag, Goto, At, TypeOK, CallStates, CallOK
<1>9. CASE Commit(c)
  <2>1. k.op \in {"put", "revoke"} /\ markers \subseteq markers'
        /\ (k.op = "revoke" => d \in markers')
    BY <1>9, CommitTables DEF IInv, Unrevised
  <2>2. Answer(c, "ok")
    BY <1>9 DEF Commit
  <2>3. QED
    BY <1>0, <2>1, <2>2 DEF Answer, TypeOK, CallStates, CallOK
<1>10. CASE Raise(c)
  BY <1>0, <1>10 DEF Raise, Answer, TypeOK, CallStates, CallOK
<1>11. CASE Return(c)
  BY <1>11 DEF Return, Resting, TypeOK, CallOK, IInv
<1>12. CASE Crash(c)
  BY <1>12 DEF Crash, Resting, TypeOK, CallOK, IInv
<1>13. QED
  BY <1>1, <1>2, <1>3, <1>4, <1>5, <1>6, <1>7, <1>8, <1>9, <1>10, <1>11, <1>12 DEF Step

\* A client that does not step keeps its call; revocations only grow.
LEMMA OtherCalls ==
    ASSUME TypeOK, NEW c \in Clients, NEW e \in Clients \ {c},
           \/ Open(c) \/ Crash(c) \/ Raise(c) \/ Step(c)
           \/ \E op \in Operations, d \in Digests : Begin(c, op, d)
    PROVE  call'[e] = call[e]
  BY DEF TypeOK, Open, Crash, Raise, Step, Begin, ReadRow, ReadFlag, ReadMarker,
         InsertRow, InsertMarker, SetFlag, Commit, Return, Answer, Goto

\* What every call has read stays what its answer needs.
LEMMA ReadStep == IInv /\ [Next]_vars => ReadInv'
<1> SUFFICES ASSUME IInv, [Next]_vars
             PROVE  ReadInv'
  OBVIOUS
<1>1. markers \subseteq markers'
  BY RevocationsGrow DEF IInv
<1>2. ASSUME NEW e \in Clients, call'[e] = call[e]
      PROVE  CallOK(call'[e], markers')
  BY <1>1, <1>2 DEF IInv, ReadInv, CallOK
<1>3. ASSUME NEW c \in Clients,
             \/ Open(c) \/ Crash(c) \/ Raise(c) \/ Step(c)
             \/ \E op \in Operations, d \in Digests : Begin(c, op, d)
      PROVE  ReadInv'
  <2>1. CallOK(call'[c], markers')
    BY <1>3, CallStep
  <2>2. \A e \in Clients \ {c} : call'[e] = call[e]
    BY <1>3, OtherCalls DEF IInv
  <2>3. QED
    BY <1>2, <2>1, <2>2 DEF ReadInv
<1>4. CASE UNCHANGED call
  BY <1>2, <1>4 DEF ReadInv
<1>5. QED
  BY <1>3, <1>4 DEF Next, vars, Alter

\* At first the database is empty and nobody is connected.
LEMMA InductiveInit == Init => IInv
<1> SUFFICES ASSUME Init
             PROVE  IInv
  OBVIOUS
<1>1. TypeOK
  BY TypeInit
<1>2. \A c \in Clients : call[c] = Resting("closed")
  BY DEF Init
<1>3. LockInv /\ DraftInv
  BY <1>2, DistinguishedValues DEF Init, LockInv, DraftInv, InTransaction, Resting
<1>4. ReadInv /\ FlagHasMarker
  BY <1>2 DEF Init, ReadInv, CallOK, Resting, FlagHasMarker, Flagged
<1>5. QED
  BY <1>1, <1>3, <1>4 DEF IInv

\* Every step preserves the invariant.
LEMMA InductiveNext == IInv /\ [Next]_vars => IInv'
  BY TypeNext, LockStep, DraftStep, ReadStep, FlagStep DEF IInv

\* The inductive invariant holds in every reachable state.
LEMMA Inductive == Spec => []IInv
  BY InductiveInit, InductiveNext, PTL DEF Spec

-----------------------------------------------------------------------------
(* The theorems *)

\* No row is ever flagged without its entry in the revocation table: both
\* statements of revoke reach the database or neither does.
THEOREM FlagsHaveMarkers == Spec => []FlagHasMarker
<1>1. IInv => FlagHasMarker
  BY DEF IInv
<1>2. QED
  BY <1>1, Inductive, PTL

\* get, over its three snapshots, hands out only the receipt that was asked
\* for, and none that was revoked when the get began.
THEOREM GetsAreSound == Spec => []GetIsSound
<1>1. IInv => GetIsSound
  BY Invariants DEF IInv
<1>2. QED
  BY <1>1, Inductive, PTL

\* is_revoked answers a set that only grows, as of an instant of the call.
THEOREM RevocationAnswersAreCurrent == Spec => []IsRevokedIsCurrent
<1>1. IInv => IsRevokedIsCurrent
  BY Invariants DEF IInv
<1>2. QED
  BY <1>1, Inductive, PTL

\* No put, rollback, crash or foreign edit takes a revocation back, and an
\* acknowledged revoke is in the committed table.
THEOREM RevocationsArePermanent == Spec => RevocationIsPermanent
<1>1. IInv /\ IInv' /\ [Next]_vars =>
        [/\ markers \subseteq markers'
         /\ \A c \in Clients :
               call'[c].op = "revoke" /\ call'[c].answer = "ok" =>
                   call'[c].digest \in markers'
         /\ \A d \in Digests : Flagged(rows, d) => Flagged(rows', d)]_vars
  <2> SUFFICES ASSUME IInv, IInv', [Next]_vars
               PROVE  /\ markers \subseteq markers'
                      /\ \A c \in Clients :
                            call'[c].op = "revoke" /\ call'[c].answer = "ok" =>
                                call'[c].digest \in markers'
                      /\ \A d \in Digests : Flagged(rows, d) => Flagged(rows', d)
    OBVIOUS
  <2>1. /\ markers \subseteq markers'
        /\ \A d \in Digests : Flagged(rows, d) => Flagged(rows', d)
    BY RevocationsGrow DEF IInv
  <2>2. \A c \in Clients : CallOK(call'[c], markers')
    BY DEF IInv, ReadInv
  <2>3. QED
    BY <2>1, <2>2 DEF CallOK
<1>2. QED
  BY <1>1, Inductive, PTL DEF Spec, RevocationIsPermanent

-----------------------------------------------------------------------------
(* Every step of SQLiteReceiptStore is a step of the abstract                *)
(* ReceiptStore or leaves that unchanged, for any clients and any            *)
(* digests. The argument: a read is settled by the first SELECT that         *)
(* decides its answer, and by what IInv and ReadsInv say of the snapshots    *)
(* before it the abstract store may answer the same at that instant.         *)

\* A get has not looked at the flag before it reads it, and a row it has
\* read once never disappears.
ReadsInv ==
    \A c \in Clients :
        /\ call[c].pc \in {"read_row", "read_flag"} => ~call[c].flag
        /\ call[c].pc \in {"read_flag", "read_marker"} /\ call[c].op = "get" =>
              rows[call[c].digest] # NoRow

RInv == IInv /\ ReadsInv

\* Settled and AbstractCall, as functions of a call.
SettledBy(k) ==
    CASE k.pc = "return" -> k.answer
      [] k.pc \in {"read_flag", "read_marker"} /\ k.op = "get"
             /\ (k.payload # k.digest \/ k.flag) -> "missing"
      [] k.pc = "read_marker" /\ k.op = "is_revoked" /\ k.flag -> "yes"
      [] OTHER -> "none"

NoCallSeen == [phase |-> "idle", op |-> "get", digest |-> CHOOSE d \in Digests : TRUE,
             answer |-> "none"]

InProgress(k) == [phase |-> IF SettledBy(k) = "none" THEN "pending" ELSE "done",
                op |-> k.op, digest |-> k.digest, answer |-> SettledBy(k)]

Seen(k) == IF k.pc \in {"closed", "idle"} THEN NoCallSeen ELSE InProgress(k)

Calls == [c \in Clients |-> AbstractCall(c)]

SeenStates == [phase : {"idle", "pending", "done"}, op : Operations,
               digest : Digests, answer : Answers]

-----------------------------------------------------------------------------
(* The invariant *)

\* No step deletes a row: put replaces, revoke updates (535-543, 580-594).
LEMMA RowsRemain ==
    ASSUME TypeOK, DraftInv, [Next]_vars
    PROVE  \A d \in Digests : rows[d] # NoRow => rows'[d] # NoRow
<1> SUFFICES ASSUME NEW d \in Digests, rows[d] # NoRow
             PROVE  rows'[d] # NoRow
  OBVIOUS
<1>1. rows[d] \in [payload : Digests \cup {Garbage}, revoked : BOOLEAN]
  BY DEF TypeOK, Rows, Payloads
<1>2. ASSUME NEW c \in Clients, Commit(c) PROVE rows'[d] # NoRow
  <2> DEFINE e == call[c].digest
  <2>0. e \in Digests /\ rows \in [Digests -> Rows]
    BY DEF TypeOK, CallStates
  <2>1. InTransaction(c) /\ call[c].pc = "commit" /\ rows' = draft.rows
    BY <1>2 DEF Commit, At, InTransaction
  <2>2. CASE draft.rows = [rows EXCEPT ![e] = [payload |-> e, revoked |-> Flagged(rows, e)]]
    <3>1. [payload |-> e, revoked |-> Flagged(rows, e)] # NoRow
      BY <2>0, DistinguishedValues, FlaggedType
    <3> QED
      BY <2>0, <2>1, <2>2, <3>1
  <2>3. CASE draft.rows = [rows EXCEPT ![e] = FlagSet(rows[e])]
    <3>1. CASE d = e
      <4>1. rows'[d] = [rows[d] EXCEPT !.revoked = TRUE]
        BY <2>0, <2>1, <2>3, <3>1 DEF FlagSet
      <4>2. rows'[d] \in [payload : Digests \cup {Garbage}, revoked : BOOLEAN]
        BY <1>1, <4>1
      <4> QED
        BY <4>2, DistinguishedValues
    <3> QED
      BY <2>0, <2>1, <2>3, <3>1
  <2> QED
    BY <2>1, <2>2, <2>3 DEF DraftInv
<1>3. ASSUME NEW e \in Digests, NEW payload \in Payloads, Alter(e, payload)
      PROVE  rows'[d] # NoRow
  <2>1. rows' = [rows EXCEPT ![e].payload = payload] /\ rows \in [Digests -> Rows]
    BY <1>3 DEF Alter, TypeOK
  <2>2. CASE d = e
    <3>1. rows'[d] = [rows[d] EXCEPT !.payload = payload]
      BY <2>1, <2>2
    <3>2. rows'[d] \in [payload : Digests \cup {Garbage}, revoked : BOOLEAN]
      BY <1>1, <3>1 DEF Payloads
    <3> QED
      BY <3>2, DistinguishedValues
  <2> QED
    BY <2>1, <2>2
<1>4. ASSUME NEW c \in Clients,
             \/ Open(c) \/ Crash(c) \/ Raise(c) \/ Return(c)
             \/ ReadRow(c) \/ ReadFlag(c) \/ ReadMarker(c)
             \/ InsertRow(c) \/ InsertMarker(c) \/ SetFlag(c)
             \/ \E op \in Operations, e \in Digests : Begin(c, op, e)
      PROVE  rows' = rows
  BY <1>4 DEF Open, Crash, Raise, Return, ReadRow, ReadFlag, ReadMarker,
              InsertRow, InsertMarker, SetFlag, Begin
<1>5. CASE UNCHANGED vars
  BY <1>5 DEF vars
<1> QED
  BY <1>2, <1>3, <1>4, <1>5 DEF Next, Step

\* What ReadsInv says of one call.
ReadsOK(k, table) ==
    /\ k.pc \in {"read_row", "read_flag"} => ~k.flag
    /\ k.pc \in {"read_flag", "read_marker"} /\ k.op = "get" => table[k.digest] # NoRow

\* A read in progress stays consistent with the rows through a step of its own
\* or of another client.
LEMMA ReadsStep ==
    ASSUME IInv, ReadsInv, [Next]_vars
    PROVE  ReadsInv'
<1>0. TypeOK /\ \A c \in Clients : call[c] \in CallStates /\ ReadsOK(call[c], rows)
  BY DEF IInv, TypeOK, ReadsInv, ReadsOK
<1>1. \A d \in Digests : rows[d] # NoRow => rows'[d] # NoRow
  BY RowsRemain DEF IInv
<1>2. ASSUME NEW c \in Clients, call'[c] = call[c] PROVE ReadsOK(call'[c], rows')
  BY <1>0, <1>1, <1>2 DEF ReadsOK, CallStates
<1>3. ASSUME NEW c \in Clients,
             \/ Open(c) \/ Crash(c) \/ Raise(c) \/ Step(c)
             \/ \E op \in Operations, d \in Digests : Begin(c, op, d)
      PROVE  ReadsOK(call'[c], rows')
  <2> DEFINE k == call[c]
  <2> USE <1>0 DEF TypeOK, ReadsOK
  <2>1. CASE Open(c) \/ InsertRow(c) \/ InsertMarker(c) \/ SetFlag(c)
    <3>1. call'[c].pc \in {"idle", "commit", "set_flag"}
      BY <2>1 DEF Open, InsertRow, InsertMarker, SetFlag, Goto, CallStates
    <3> QED
      BY <3>1
  <2>2. CASE Crash(c) \/ Return(c)
    <3>1. call'[c].pc \in {"idle", "closed"}
      BY <2>2 DEF Crash, Return, Resting
    <3> QED
      BY <3>1
  <2>3. CASE Raise(c) \/ ReadMarker(c) \/ Commit(c)
    <3>1. PICK answer : Answer(c, answer)
      BY <2>3 DEF Raise, ReadMarker, Commit
    <3>2. call'[c].pc = "return"
      BY <3>1 DEF Answer, CallStates
    <3> QED
      BY <3>2
  <2>4. ASSUME NEW op \in Operations, NEW d \in Digests, Begin(c, op, d)
        PROVE  ReadsOK(call'[c], rows')
    BY <2>4 DEF Begin, FirstStep, Operations
  <2>5. CASE ReadFlag(c)
    <3>1. /\ k.pc = "read_flag" /\ rows' = rows /\ call'[c].pc = "read_marker"
          /\ call'[c].op = k.op /\ call'[c].digest = k.digest
      BY <2>5 DEF ReadFlag, At, CallStates
    <3> QED
      BY <3>1
  <2>6. CASE ReadRow(c)
    <3>1. k.pc = "read_row" /\ rows' = rows
      BY <2>6 DEF ReadRow, At
    <3>2. CASE Answer(c, "missing")
      BY <3>2 DEF Answer, CallStates
    <3>3. CASE /\ rows[k.digest] # NoRow
               /\ call' = [call EXCEPT ![c] = [@ EXCEPT !.pc = "read_flag",
                                                        !.payload = rows[k.digest].payload]]
      <4>1. /\ call'[c].pc = "read_flag" /\ call'[c].op = k.op
            /\ call'[c].digest = k.digest /\ call'[c].flag = k.flag
        BY <3>3 DEF CallStates
      <4> QED
        BY <3>1, <3>3, <4>1
    <3> QED
      BY <2>6, <3>2, <3>3 DEF ReadRow
  <2> QED
    BY <1>3, <2>1, <2>2, <2>3, <2>4, <2>5, <2>6 DEF Step
<1>4. \A c \in Clients : ReadsOK(call'[c], rows')
  <2>1. ASSUME NEW c \in Clients,
               \/ Open(c) \/ Crash(c) \/ Raise(c) \/ Step(c)
               \/ \E op \in Operations, d \in Digests : Begin(c, op, d)
        PROVE  \A e \in Clients : ReadsOK(call'[e], rows')
    BY <1>0, <1>2, <1>3, <2>1, OtherCalls
  <2>2. CASE call' = call
    BY <1>2, <2>2
  <2> QED
    BY <2>1, <2>2 DEF Next, vars, Alter
<1> QED
  BY <1>4 DEF ReadsInv, ReadsOK

\* The invariant holds at first: no call is in progress.
LEMMA RInvInit == Init => RInv
<1> SUFFICES ASSUME Init PROVE ReadsInv
  BY InductiveInit DEF RInv
<1> QED
  BY DEF Init, ReadsInv, Resting

\* Every step preserves it.
LEMMA RInvNext == RInv /\ [Next]_vars => RInv'
BY InductiveNext, ReadsStep DEF RInv

\* So it always holds.
LEMMA RInvHolds == Spec => []RInv
BY RInvInit, RInvNext, PTL DEF Spec
-----------------------------------------------------------------------------
(* How calls look in the abstract store *)

\* Where a call stands in the abstract store.
Going(k) == k.pc \notin {"closed", "idle"}

\* Whether a call is settled is a truth value.
LEMMA SettledType ==
    ASSUME NEW k \in CallStates
    PROVE  SettledBy(k) \in Answers
BY DEF SettledBy, CallStates, Answers

\* The variables of the abstract store, as the mapping gives them.
LEMMA SeenParts ==
    ASSUME NEW k \in CallStates, Going(k)
    PROVE  /\ Seen(k) \in SeenStates
           /\ Seen(k).op = k.op /\ Seen(k).digest = k.digest
           /\ Seen(k).answer = SettledBy(k)
           /\ Seen(k).phase = IF SettledBy(k) = "none" THEN "pending" ELSE "done"
BY SettledType DEF Seen, InProgress, Going, SeenStates, CallStates

\* The abstract call of each client.
LEMMA SeenCalls ==
    /\ Calls = [c \in Clients |-> Seen(call[c])]
    /\ Calls' = [c \in Clients |-> Seen(call'[c])]
BY DEF Calls, AbstractCall, Settled, Seen, SettledBy, NoCallSeen, InProgress

\* A step that moves the call of one client moves its abstract call.
LEMMA CallsMove ==
    ASSUME NEW c \in Clients, NEW k, call \in [Clients -> CallStates],
           call' = [call EXCEPT ![c] = k]
    PROVE  Calls' = [Calls EXCEPT ![c] = Seen(k)]
BY SeenCalls

\* A step that settles nothing new is not seen.
LEMMA Unseen ==
    ASSUME NEW c \in Clients, NEW k \in CallStates, call \in [Clients -> CallStates],
           call' = [call EXCEPT ![c] = k], Going(call[c]), Going(k),
           k.op = call[c].op, k.digest = call[c].digest,
           SettledBy(k) = SettledBy(call[c])
    PROVE  Calls' = Calls
<1>1. call[c] \in CallStates
  OBVIOUS
<1>2. Seen(k) = Seen(call[c])
  BY <1>1 DEF Seen, Going, InProgress
<1> QED
  BY <1>2, CallsMove, SeenCalls

\* A step that gives a call its answer is seen as that.
LEMMA Answered ==
    ASSUME NEW c \in Clients, NEW k \in CallStates, call \in [Clients -> CallStates],
           call' = [call EXCEPT ![c] = k], Going(call[c]), Going(k),
           k.op = call[c].op, k.digest = call[c].digest, SettledBy(k) # "none"
    PROVE  Calls' = [Calls EXCEPT ![c].phase = "done", ![c].answer = SettledBy(k)]
<1> DEFINE s == Seen(call[c])
           t == [s EXCEPT !.phase = "done", !.answer = SettledBy(k)]
           u == Seen(k)
<1>1. s \in SeenStates /\ s.op = call[c].op /\ s.digest = call[c].digest
  BY SeenParts
<1>2. /\ u \in SeenStates /\ u.phase = "done" /\ u.op = call[c].op
      /\ u.digest = call[c].digest /\ u.answer = SettledBy(k)
  BY SeenParts
<1>3. SettledBy(k) \in Answers
  BY SettledType
<1> HIDE DEF s, u
<1>4. /\ t \in SeenStates /\ t.phase = "done" /\ t.op = s.op
      /\ t.digest = s.digest /\ t.answer = SettledBy(k)
  BY <1>1, <1>3 DEF SeenStates
<1> HIDE DEF t
<1>5. t = u
  BY <1>1, <1>2, <1>4 DEF SeenStates
<1>6. Calls' = [Calls EXCEPT ![c] = u]
  BY CallsMove DEF u
<1>7. Calls[c] = s
  BY SeenCalls DEF s
<1> QED
  BY <1>5, <1>6, <1>7, SeenCalls DEF t

\* Answer(c, answer) of the code.
LEMMA AnswerSeen ==
    ASSUME NEW c \in Clients, NEW answer \in Answers \ {"none"},
           call \in [Clients -> CallStates], Going(call[c]), Answer(c, answer)
    PROVE  /\ Calls' = [Calls EXCEPT ![c].phase = "done", ![c].answer = answer]
           /\ SettledBy(call[c]) = answer => Calls' = Calls
<1> DEFINE k == [call[c] EXCEPT !.pc = "return", !.answer = answer]
<1>1. /\ k \in CallStates /\ k.pc = "return" /\ k.op = call[c].op
      /\ k.digest = call[c].digest /\ k.answer = answer
  BY DEF CallStates, Steps
<1>2. call' = [call EXCEPT ![c] = k]
  BY DEF Answer
<1> HIDE DEF k
<1>3. SettledBy(k) = answer /\ Going(k)
  BY <1>1 DEF SettledBy, Going
<1> QED
  BY <1>1, <1>2, <1>3, Answered, Unseen

-----------------------------------------------------------------------------
(* The steps *)

\* An empty database is an empty abstract store.
LEMMA RefinesInit == Init => Contract!Init
<1> SUFFICES ASSUME Init PROVE Contract!Init
  OBVIOUS
<1>1. \A c \in Clients : AbstractCall(c) = Contract!NoCall
  BY DEF Init, Resting, AbstractCall, Contract!NoCall
<1>2. Readable = {} /\ Written = {} /\ markers = {}
  BY DEF Init, Readable, Written
<1> QED
  BY <1>1, <1>2 DEF Contract!Init

\* A step is not seen when it leaves the readable, the written and the
\* revoked digests and every call as they are seen.
LEMMA SeenUnchanged ==
    ASSUME UNCHANGED <<rows, markers>>, Calls' = Calls
    PROVE  UNCHANGED Contract!vars
BY DEF Contract!vars, Calls, Readable, Written

\* A call that is not settled is a pending abstract call.
LEMMA PendingSeen ==
    ASSUME NEW c \in Clients, call \in [Clients -> CallStates], Going(call[c]),
           SettledBy(call[c]) = "none"
    PROVE  /\ Calls[c].phase = "pending" /\ Calls[c].op = call[c].op
           /\ Calls[c].digest = call[c].digest
           /\ Contract!Pending(c, call[c].op)
BY SeenCalls, SeenParts DEF Contract!Pending, Calls

\* get misses: a get that has not been settled may miss what it cannot read
\* and what is revoked.
LEMMA MissSeen ==
    ASSUME NEW c \in Clients, call \in [Clients -> CallStates], Going(call[c]),
           SettledBy(call[c]) = "none", call[c].op = "get",
           UNCHANGED <<rows, markers>>,
           Calls' = [Calls EXCEPT ![c].phase = "done", ![c].answer = "missing"],
           call[c].digest \notin Readable \/ call[c].digest \in markers
    PROVE  Contract!Next
<1>1. Calls[c].digest = call[c].digest /\ Contract!Pending(c, "get")
  BY PendingSeen
<1>2. Contract!MayMiss(Calls[c].digest, Readable, markers, TRUE)
  BY <1>1 DEF Contract!MayMiss
<1>3. Contract!Answer(c, "missing")
  BY DEF Contract!Answer, Calls
<1>4. UNCHANGED <<Readable, Written, markers>>
  BY DEF Readable, Written
<1>5. Contract!Get(c)
  BY <1>1, <1>2, <1>3, <1>4 DEF Contract!Get, Calls
<1> QED
  BY <1>5 DEF Contract!Next

\* A method's call is the abstract call's beginning.
LEMMA BeginSeen ==
    ASSUME TypeOK, NEW c \in Clients, NEW op \in Operations, NEW d \in Digests, Begin(c, op, d)
    PROVE  Contract!Next
<1> DEFINE k == [pc |-> FirstStep(op), op |-> op, digest |-> d, payload |-> Garbage,
                 flag |-> FALSE, known |-> d \in markers, answer |-> "none"]
<1>1. Calls[c].phase = "idle"
  BY SeenCalls DEF Begin, At, Seen, NoCallSeen
<1>2. Calls' = [Calls EXCEPT ![c] = Seen(k)]
  BY CallsMove DEF Begin, TypeOK
<1>3. FirstStep(op) \in {"insert_row", "insert_marker", "read_row", "read_flag"}
      /\ (FirstStep(op) \in {"read_flag", "read_marker"} => op # "get")
  BY DEF FirstStep, Operations
<1>4. SettledBy(k) = "none"
  BY <1>3 DEF SettledBy
<1>5. Seen(k) = [phase |-> "pending", op |-> op, digest |-> d, answer |-> "none"]
  BY <1>3, <1>4 DEF Seen, InProgress
<1> HIDE DEF k
<1>6. UNCHANGED <<Readable, Written, markers>>
  BY DEF Begin, Readable, Written
<1>7. Contract!Invoke(c, op, d)
  BY <1>1, <1>2, <1>5, <1>6 DEF Contract!Invoke, Calls
<1> QED
  BY <1>7 DEF Contract!Next, Contract!Operations, Operations

\* get's first SELECT settles a missing or flagged row, and a row whose text
\* is not the receipt asked for.
LEMMA ReadRowSeen ==
    ASSUME RInv, NEW c \in Clients, ReadRow(c)
    PROVE  [Contract!Next]_Contract!vars
<1> DEFINE d == call[c].digest
<1>0. /\ call \in [Clients -> CallStates] /\ call[c] \in CallStates /\ d \in Digests
      /\ rows \in [Digests -> Rows]
  BY DEF RInv, IInv, TypeOK, CallStates
<1>1. /\ call[c].pc = "read_row" /\ call[c].op = "get" /\ UNCHANGED <<rows, markers>>
      /\ ~call[c].flag
  BY DEF ReadRow, At, RInv, IInv, ReadInv, CallOK, ReadsInv
<1>2. Going(call[c]) /\ SettledBy(call[c]) = "none"
  BY <1>1 DEF Going, SettledBy
<1>3. CASE rows[d] = NoRow \/ Flagged(rows, d)
  <2>1. Answer(c, "missing")
    BY <1>3 DEF ReadRow
  <2>2. Calls' = [Calls EXCEPT ![c].phase = "done", ![c].answer = "missing"]
    BY <1>0, <1>2, <2>1, AnswerSeen DEF Answers
  <2>3. d \notin Readable \/ d \in markers
    BY <1>0, <1>3 DEF Readable, RInv, IInv, FlagHasMarker
  <2> QED
    BY <1>0, <1>1, <1>2, <2>2, <2>3, MissSeen
<1>4. CASE ~(rows[d] = NoRow \/ Flagged(rows, d))
  <2> DEFINE k == [call[c] EXCEPT !.pc = "read_flag", !.payload = rows[d].payload]
  <2>1. call' = [call EXCEPT ![c] = k]
    BY <1>4 DEF ReadRow
  <2>2. /\ k \in CallStates /\ k.pc = "read_flag" /\ k.op = "get" /\ k.digest = d
        /\ k.payload = rows[d].payload
    BY <1>0, <1>1, <1>4 DEF CallStates, Steps, Rows
  <2>3. k.flag = call[c].flag
    BY <1>0 DEF CallStates
  <2> HIDE DEF k
  <2>4. Going(k)
    BY <2>2 DEF Going
  <2>5. CASE rows[d].payload = d
    <3>1. SettledBy(k) = "none"
      BY <1>1, <2>2, <2>3, <2>5 DEF SettledBy
    <3>2. Calls' = Calls
      BY <1>0, <1>1, <1>2, <2>1, <2>2, <2>4, <3>1, Unseen
    <3> QED
      BY <1>1, <3>2, SeenUnchanged
  <2>6. CASE rows[d].payload # d
    <3>1. SettledBy(k) = "missing"
      BY <2>2, <2>6 DEF SettledBy
    <3>2. Calls' = [Calls EXCEPT ![c].phase = "done", ![c].answer = "missing"]
      BY <1>0, <1>1, <1>2, <2>1, <2>2, <2>4, <3>1, Answered
    <3>3. d \notin Readable
      BY <2>6 DEF Readable
    <3> QED
      BY <1>0, <1>1, <1>2, <3>2, <3>3, MissSeen
  <2> QED
    BY <2>5, <2>6
<1> QED
  BY <1>3, <1>4

\* The flag settles the answer when it is set.
LEMMA ReadFlagSeen ==
    ASSUME RInv, NEW c \in Clients, ReadFlag(c)
    PROVE  [Contract!Next]_Contract!vars
<1> DEFINE d == call[c].digest
           flag == Flagged(rows, d)
           k == [call[c] EXCEPT !.pc = "read_marker", !.flag = flag]
<1>0. /\ call \in [Clients -> CallStates] /\ call[c] \in CallStates /\ d \in Digests
      /\ flag \in BOOLEAN
  BY FlaggedType DEF RInv, IInv, TypeOK, CallStates
<1>1. /\ call[c].pc = "read_flag" /\ call[c].op \in {"get", "is_revoked"}
      /\ UNCHANGED <<rows, markers>> /\ ~call[c].flag
  BY DEF ReadFlag, At, RInv, IInv, ReadInv, CallOK, ReadsInv
<1>2. flag => d \in markers
  BY <1>0 DEF RInv, IInv, FlagHasMarker
<1>3. call' = [call EXCEPT ![c] = k]
  BY DEF ReadFlag
<1>4. /\ k \in CallStates /\ k.pc = "read_marker" /\ k.op = call[c].op /\ k.digest = d
      /\ k.payload = call[c].payload
  BY <1>0 DEF CallStates, Steps
<1>5. k.flag = flag
  BY <1>0 DEF CallStates
<1> HIDE DEF k, flag
<1>6. Going(call[c]) /\ Going(k)
  BY <1>1, <1>4 DEF Going
<1>7. CASE call[c].op = "get" /\ call[c].payload = d /\ flag
  <2>1. SettledBy(call[c]) = "none" /\ SettledBy(k) = "missing"
    BY <1>1, <1>4, <1>5, <1>7 DEF SettledBy
  <2>2. Calls' = [Calls EXCEPT ![c].phase = "done", ![c].answer = "missing"]
    BY <1>0, <1>3, <1>4, <1>6, <2>1, Answered
  <2> QED
    BY <1>0, <1>1, <1>2, <1>6, <1>7, <2>1, <2>2, MissSeen
<1>8. CASE call[c].op = "is_revoked" /\ flag
  <2>1. SettledBy(call[c]) = "none" /\ SettledBy(k) = "yes"
    BY <1>1, <1>4, <1>5, <1>8 DEF SettledBy
  <2>2. Calls' = [Calls EXCEPT ![c].phase = "done", ![c].answer = "yes"]
    BY <1>0, <1>3, <1>4, <1>6, <2>1, Answered
  <2>3. Contract!Pending(c, "is_revoked") /\ Calls[c].digest = d
    BY <1>0, <1>6, <1>8, <2>1, PendingSeen
  <2>4. UNCHANGED <<Readable, Written, markers>>
    BY <1>1 DEF Readable, Written
  <2>5. Contract!IsRevoked(c)
    BY <1>2, <1>8, <2>2, <2>3, <2>4 DEF Contract!IsRevoked, Contract!Answer, Calls
  <2> QED
    BY <2>5 DEF Contract!Next
<1>9. CASE ~flag \/ (call[c].op = "get" /\ call[c].payload # d)
  <2>1. SettledBy(k) = SettledBy(call[c])
    <3>1. CASE call[c].op = "get" /\ call[c].payload # d
      BY <1>1, <1>4, <3>1 DEF SettledBy
    <3>2. CASE ~flag
      BY <1>1, <1>4, <1>5, <3>2 DEF SettledBy
    <3> QED
      BY <1>9, <3>1, <3>2
  <2>2. Calls' = Calls
    BY <1>0, <1>3, <1>4, <1>6, <2>1, Unseen
  <2> QED
    BY <1>1, <2>2, SeenUnchanged
<1> QED
  BY <1>1, <1>7, <1>8, <1>9, Zenon

\* The marker settles what is left, except that the answer yes or missing may
\* have been settled before.
LEMMA ReadMarkerSeen ==
    ASSUME RInv, NEW c \in Clients, ReadMarker(c)
    PROVE  [Contract!Next]_Contract!vars
<1> DEFINE k == call[c]
           d == k.digest
<1>0. /\ call \in [Clients -> CallStates] /\ k \in CallStates /\ d \in Digests
      /\ k.flag \in BOOLEAN
  BY DEF RInv, IInv, TypeOK, CallStates
<1>1. /\ k.pc = "read_marker" /\ k.op \in {"get", "is_revoked"}
      /\ UNCHANGED <<rows, markers>> /\ Going(k)
      /\ k.op = "get" => rows[d] # NoRow
  BY DEF ReadMarker, At, RInv, IInv, ReadInv, CallOK, ReadsInv, Going
<1>2. k.flag => d \in markers
  BY DEF RInv, IInv, ReadInv, CallOK
<1>3. UNCHANGED <<Readable, Written, markers>>
  BY <1>1 DEF Readable, Written
<1>4. CASE k.op = "is_revoked" /\ k.flag
  <2>1. Answer(c, "yes")
    BY <1>4 DEF ReadMarker
  <2>2. SettledBy(k) = "yes"
    BY <1>1, <1>4 DEF SettledBy
  <2>3. Calls' = Calls
    BY <1>0, <1>1, <2>1, <2>2, AnswerSeen DEF Answers
  <2> QED
    BY <1>1, <2>3, SeenUnchanged
<1>5. CASE k.op = "is_revoked" /\ ~k.flag
  <2> DEFINE answer == IF d \in markers THEN "yes" ELSE "no"
  <2>1. Answer(c, answer)
    BY <1>5 DEF ReadMarker
  <2>2. SettledBy(k) = "none"
    BY <1>1, <1>5 DEF SettledBy
  <2>3. answer \in Answers \ {"none"}
    BY DEF Answers
  <2>4. Calls' = [Calls EXCEPT ![c].phase = "done", ![c].answer = answer]
    BY <1>0, <1>1, <2>1, <2>3, AnswerSeen
  <2>5. Contract!Pending(c, "is_revoked") /\ Calls[c].digest = d
    BY <1>0, <1>1, <1>5, <2>2, PendingSeen
  <2>6. Contract!IsRevoked(c)
    BY <1>3, <2>4, <2>5 DEF Contract!IsRevoked, Contract!Answer, Calls
  <2> QED
    BY <2>6 DEF Contract!Next
<1>6. CASE k.op = "get" /\ (k.flag \/ k.payload # d)
  <2>1. Answer(c, "missing")
    BY <1>6 DEF ReadMarker
  <2>2. SettledBy(k) = "missing"
    BY <1>1, <1>6 DEF SettledBy
  <2>3. Calls' = Calls
    BY <1>0, <1>1, <2>1, <2>2, AnswerSeen DEF Answers
  <2> QED
    BY <1>1, <2>3, SeenUnchanged
<1>7. CASE k.op = "get" /\ ~k.flag /\ k.payload = d
  <2>1. SettledBy(k) = "none"
    BY <1>1, <1>7 DEF SettledBy
  <2>2. CASE d \in markers
    <3>1. Answer(c, "missing")
      BY <1>7, <2>2 DEF ReadMarker
    <3>2. Calls' = [Calls EXCEPT ![c].phase = "done", ![c].answer = "missing"]
      BY <1>0, <1>1, <3>1, AnswerSeen DEF Answers
    <3> QED
      BY <1>0, <1>1, <1>7, <2>1, <2>2, <3>2, MissSeen
  <2>3. CASE d \notin markers
    <3>1. Answer(c, "receipt")
      BY <1>7, <2>3 DEF ReadMarker
    <3>2. Calls' = [Calls EXCEPT ![c].phase = "done", ![c].answer = "receipt"]
      BY <1>0, <1>1, <3>1, AnswerSeen DEF Answers
    <3>3. Contract!Pending(c, "get") /\ Calls[c].digest = d
      BY <1>0, <1>1, <1>7, <2>1, PendingSeen
    <3>4. Contract!MayReturn(d, Written, markers, TRUE)
      BY <1>0, <1>1, <1>7, <2>3 DEF Contract!MayReturn, Written
    <3>5. Contract!Get(c)
      BY <1>3, <3>2, <3>3, <3>4 DEF Contract!Get, Contract!Answer, Calls
    <3> QED
      BY <3>5 DEF Contract!Next
  <2> QED
    BY <2>2, <2>3
<1> QED
  BY <1>1, <1>4, <1>5, <1>6, <1>7, Zenon

\* A statement of a write is not seen before the commit ...
LEMMA WriteUnseen ==
    ASSUME RInv, NEW c \in Clients, InsertRow(c) \/ InsertMarker(c) \/ SetFlag(c)
    PROVE  UNCHANGED Contract!vars
<1>0. call \in [Clients -> CallStates] /\ call[c] \in CallStates
  BY DEF RInv, IInv, TypeOK
<1>1. /\ call[c].pc \in {"insert_row", "insert_marker", "set_flag"}
      /\ UNCHANGED <<rows, markers>>
  BY DEF InsertRow, InsertMarker, SetFlag, At
<1>2. PICK pc \in {"commit", "set_flag"} : Goto(c, pc)
  BY DEF InsertRow, InsertMarker, SetFlag
<1> DEFINE k == [call[c] EXCEPT !.pc = pc]
<1>3. call' = [call EXCEPT ![c] = k]
  BY <1>2 DEF Goto
<1>4. k \in CallStates /\ k.pc = pc /\ k.op = call[c].op /\ k.digest = call[c].digest
  BY <1>0, <1>2 DEF CallStates, Steps
<1> HIDE DEF k
<1>5. /\ Going(call[c]) /\ Going(k)
      /\ SettledBy(call[c]) = "none" /\ SettledBy(k) = "none"
  BY <1>1, <1>2, <1>4 DEF Going, SettledBy
<1>6. Calls' = Calls
  BY <1>0, <1>3, <1>4, <1>5, Unseen
<1> QED
  BY <1>1, <1>6, SeenUnchanged

\* ... which is where it takes effect.
LEMMA CommitSeen ==
    ASSUME RInv, NEW c \in Clients, Commit(c)
    PROVE  Contract!Next
<1> DEFINE d == call[c].digest
<1>0. /\ call \in [Clients -> CallStates] /\ call[c] \in CallStates /\ d \in Digests
      /\ rows \in [Digests -> Rows]
  BY DEF RInv, IInv, TypeOK, CallStates
<1>1. /\ InTransaction(c) /\ call[c].pc = "commit" /\ Going(call[c])
      /\ rows' = draft.rows /\ markers' = draft.markers
  BY DEF Commit, At, InTransaction, Going
<1>2. Calls' = [Calls EXCEPT ![c].phase = "done", ![c].answer = "ok"]
  BY <1>0, <1>1, AnswerSeen DEF Commit, Answers
<1>3. SettledBy(call[c]) = "none"
  BY <1>1 DEF SettledBy
<1>4. Contract!Pending(c, call[c].op) /\ Calls[c].digest = d
  BY <1>0, <1>1, <1>3, PendingSeen
<1>5. CASE /\ call[c].op = "put" /\ draft.markers = markers
           /\ draft.rows = [rows EXCEPT ![d] =
                               [payload |-> d, revoked |-> Flagged(rows, d)]]
  <2>1. [payload |-> d, revoked |-> Flagged(rows, d)] # NoRow
    BY <1>0, DistinguishedValues, FlaggedType
  <2>2. rows'[d] # NoRow /\ rows'[d].payload = d
    BY <1>0, <1>1, <1>5, <2>1
  <2>3. \A e \in Digests \ {d} : rows'[e] = rows[e]
    BY <1>0, <1>1, <1>5
  <2>4. Readable' = Readable \cup {d} /\ Written' = Written \cup {d}
    BY <1>0, <2>2, <2>3 DEF Readable, Written
  <2>5. Contract!Put(c)
    BY <1>1, <1>2, <1>4, <1>5, <2>4 DEF Contract!Put, Contract!Answer, Calls
  <2> QED
    BY <2>5 DEF Contract!Next
<1>6. CASE /\ call[c].op = "revoke" /\ draft.markers = markers \cup {d}
           /\ draft.rows = [rows EXCEPT ![d] = FlagSet(rows[d])]
  <2>1. \A e \in Digests \ {d} : rows'[e] = rows[e]
    BY <1>0, <1>1, <1>6
  <2>2. rows'[d] = FlagSet(rows[d])
    BY <1>0, <1>1, <1>6
  <2>3. rows'[d] = NoRow <=> rows[d] = NoRow
    <3>1. CASE rows[d] # NoRow
      <4>1. rows[d] \in [payload : Digests \cup {Garbage}, revoked : BOOLEAN]
        BY <1>0, <3>1 DEF Rows, Payloads
      <4>2. rows'[d] = [rows[d] EXCEPT !.revoked = TRUE]
        BY <2>2, <3>1 DEF FlagSet
      <4>3. rows'[d] \in [payload : Digests \cup {Garbage}, revoked : BOOLEAN]
        BY <4>1, <4>2
      <4> QED
        BY <3>1, <4>3, DistinguishedValues
    <3> QED
      BY <2>2, <3>1 DEF FlagSet
  <2>4. rows[d] # NoRow => rows'[d].payload = rows[d].payload
    <3>1. CASE rows[d] # NoRow
      <4>1. rows[d] \in [payload : Digests \cup {Garbage}, revoked : BOOLEAN]
        BY <1>0, <3>1 DEF Rows, Payloads
      <4>2. rows'[d] = [rows[d] EXCEPT !.revoked = TRUE]
        BY <2>2, <3>1 DEF FlagSet
      <4> QED
        BY <4>1, <4>2
    <3> QED
      BY <3>1
  <2>5. Readable' = Readable /\ Written' = Written
    BY <1>0, <2>1, <2>3, <2>4 DEF Readable, Written
  <2>6. Contract!Revoke(c)
    BY <1>1, <1>2, <1>4, <1>6, <2>5 DEF Contract!Revoke, Contract!Answer, Calls
  <2> QED
    BY <2>6 DEF Contract!Next
<1> QED
  BY <1>1, <1>5, <1>6 DEF RInv, IInv, DraftInv

\* An exception ends a call without an answer, after its commit too.
LEMMA RaiseSeen ==
    ASSUME RInv, NEW c \in Clients, Raise(c)
    PROVE  Contract!Next
<1>0. call \in [Clients -> CallStates] /\ call[c] \in CallStates
  BY DEF RInv, IInv, TypeOK
<1>1. Going(call[c]) /\ UNCHANGED <<rows, markers>>
  BY DEF Raise, Going
<1>2. Calls' = [Calls EXCEPT ![c].phase = "done", ![c].answer = "error"]
  BY <1>0, <1>1, AnswerSeen DEF Raise, Answers
<1>3. Calls[c].phase \in {"pending", "done"}
  BY <1>0, <1>1, SeenCalls, SeenParts
<1>4. UNCHANGED <<Readable, Written, markers>>
  BY <1>1 DEF Readable, Written
<1>5. Contract!Raise(c)
  BY <1>2, <1>3, <1>4 DEF Contract!Raise, Contract!Answer, Calls
<1> QED
  BY <1>5 DEF Contract!Next

\* A client leaves with its answer, or is killed with its call.
LEMMA LeaveSeen ==
    ASSUME RInv, NEW c \in Clients, NEW pc \in {"closed", "idle"},
           call' = [call EXCEPT ![c] = Resting(pc)], UNCHANGED <<rows, markers>>
    PROVE  [Contract!Next]_Contract!vars
<1>0. call \in [Clients -> CallStates] /\ call[c] \in CallStates
  BY DEF RInv, IInv, TypeOK
<1>1. Seen(Resting(pc)) = NoCallSeen
  BY DEF Seen, Resting
<1>2. Calls' = [Calls EXCEPT ![c] = NoCallSeen]
  BY <1>0, <1>1, CallsMove
<1>3. CASE Going(call[c])
  <2>1. Calls[c].phase # "idle"
    BY <1>0, <1>3, SeenCalls, SeenParts
  <2>2. UNCHANGED <<Readable, Written, markers>>
    BY DEF Readable, Written
  <2>3. Contract!Leave(c)
    BY <1>2, <2>1, <2>2 DEF Contract!Leave, Contract!NoCall, NoCallSeen, Calls
  <2> QED
    BY <2>3 DEF Contract!Next
<1>4. CASE ~Going(call[c])
  <2>1. Calls' = Calls
    BY <1>2, <1>4, SeenCalls DEF Seen, Going
  <2> QED
    BY <2>1, SeenUnchanged
<1> QED
  BY <1>3, <1>4

\* An edited row may become unreadable or readable; it stays written.
LEMMA AlterSeen ==
    ASSUME RInv, NEW d \in Digests, NEW payload \in Payloads, Alter(d, payload)
    PROVE  Contract!Next
<1>1. /\ rows[d] # NoRow /\ rows' = [rows EXCEPT ![d].payload = payload]
      /\ UNCHANGED <<markers, call>>
  BY DEF Alter
<1>2. rows \in [Digests -> Rows]
  BY DEF RInv, IInv, TypeOK
<1>3. rows[d] \in [payload : Digests \cup {Garbage}, revoked : BOOLEAN]
  BY <1>1, <1>2 DEF Rows, Payloads
<1>4. /\ rows'[d] = [rows[d] EXCEPT !.payload = payload]
      /\ \A e \in Digests \ {d} : rows'[e] = rows[e]
  BY <1>1, <1>2
<1>5. rows'[d] \in [payload : Digests \cup {Garbage}, revoked : BOOLEAN]
  BY <1>3, <1>4 DEF Payloads
<1>6. rows'[d] # NoRow
  BY <1>5, DistinguishedValues
<1>7. Written' = Written /\ Readable' \in SUBSET Written
  BY <1>1, <1>4, <1>6 DEF Written, Readable
<1>8. Calls' = Calls
  BY <1>1, SeenCalls
<1>9. Contract!Alter
  BY <1>1, <1>7, <1>8 DEF Contract!Alter, Calls
<1> QED
  BY <1>9 DEF Contract!Next

\* Every step is one of the above.
LEMMA RefinesNext ==
    ASSUME RInv, [Next]_vars
    PROVE  [Contract!Next]_Contract!vars
<1>1. ASSUME NEW c \in Clients, Open(c)
      PROVE  UNCHANGED Contract!vars
  <2>0. call \in [Clients -> CallStates] /\ call[c] \in CallStates
    BY DEF RInv, IInv, TypeOK
  <2> DEFINE k == [call[c] EXCEPT !.pc = "idle"]
  <2>1. call[c].pc = "closed" /\ call' = [call EXCEPT ![c] = k]
    BY <1>1 DEF Open, At, Goto
  <2>2. k.pc = "idle"
    BY <2>0 DEF CallStates
  <2> HIDE DEF k
  <2>3. Seen(k) = Seen(call[c])
    BY <2>1, <2>2 DEF Seen
  <2>4. Calls' = Calls
    BY <2>0, <2>1, <2>3, CallsMove, SeenCalls
  <2> QED
    BY <1>1, <2>4, SeenUnchanged DEF Open
<1>2. ASSUME NEW c \in Clients, Return(c) \/ Crash(c)
      PROVE  [Contract!Next]_Contract!vars
  BY <1>2, LeaveSeen DEF Return, Crash
<1>3. ASSUME NEW c \in Clients, Step(c)
      PROVE  [Contract!Next]_Contract!vars
  BY <1>2, <1>3, ReadRowSeen, ReadFlagSeen, ReadMarkerSeen, WriteUnseen, CommitSeen DEF Step
<1>4. CASE UNCHANGED vars
  <2>1. Calls' = Calls
    BY <1>4, SeenCalls DEF vars
  <2> QED
    BY <1>4, <2>1, SeenUnchanged DEF vars
<1> QED
  BY <1>1, <1>2, <1>3, <1>4, BeginSeen, RaiseSeen, AlterSeen DEF Next, RInv, IInv

\* The SQLite backend implements the abstract store, for any clients and any
\* digests: no interleaving of SELECTs, transactions, exceptions, kills and
\* edits shows anything that atomic calls would not (protocol.py:510-594).
THEOREM Refinement == Spec => ImplementsContract
BY RefinesInit, RefinesNext, RInvHolds, PTL DEF Spec, ImplementsContract, Contract!Spec
=============================================================================
