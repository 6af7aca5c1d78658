---------------------- MODULE InMemoryReceiptStoreProofs ----------------------
(***************************************************************************)
(* Proofs about InMemoryReceiptStore, for any clients and any digests:     *)
(* its answers match the revocations made before, and every step of it is  *)
(* a step of the abstract ReceiptStore or leaves that unchanged.           *)
(***************************************************************************)
EXTENDS InMemoryReceiptStore, TLAPS

CallStates == [pc : {"idle", "called", "return"}, op : Operations,
               digest : Digests, known : BOOLEAN, answer : Answers]

\* What the call k remembers and answers, against the revoked set.
CallOK(k, revocations) ==
    /\ k.known => k.digest \in revocations
    /\ k.op = "is_revoked" /\ k.answer = "no" => ~k.known
    /\ k.op = "is_revoked" /\ k.answer = "yes" => k.digest \in revocations

IInv == TypeOK /\ \A c \in Clients : CallOK(call[c], revokedSet)

-----------------------------------------------------------------------------
(* The inductive invariant *)

\* A client that rests is well typed.
LEMMA RestingType == Resting \in CallStates
<1>1. (CHOOSE d \in Digests : TRUE) \in Digests
  BY SomeDigest
<1> QED
  BY <1>1 DEF Resting, CallStates, Operations, Answers

\* A client's call alone moves, to one that is well formed.
LEMMA OneCallMoves ==
    ASSUME IInv, NEW c \in Clients, NEW k \in CallStates,
           call' = [call EXCEPT ![c] = k],
           receipts' \in [Digests -> Entries],
           revokedSet' \subseteq Digests, revokedSet \subseteq revokedSet',
           CallOK(k, revokedSet')
    PROVE  IInv'
<1>1. call' \in [Clients -> CallStates]
  BY DEF IInv, TypeOK, CallStates
<1>2. TypeOK'
  BY <1>1 DEF TypeOK, CallStates
<1>3. ASSUME NEW b \in Clients PROVE CallOK(call[b], revokedSet)'
  <2>1. CASE b = c
    BY <2>1 DEF IInv, TypeOK
  <2>2. CASE b # c
    <3>1. call'[b] = call[b]
      BY <2>2 DEF IInv, TypeOK
    <3>2. CallOK(call[b], revokedSet)
      BY DEF IInv
    <3> QED
      BY <3>1, <3>2 DEF CallOK
  <2> QED
    BY <2>1, <2>2
<1> QED
  BY <1>2, <1>3 DEF IInv

\* ... which an answered call is.
LEMMA AnswerPreserves ==
    ASSUME IInv, NEW c \in Clients, NEW answer \in Answers, Answer(c, answer),
           receipts' \in [Digests -> Entries],
           revokedSet' \subseteq Digests, revokedSet \subseteq revokedSet',
           call[c].op = "is_revoked" => /\ answer = "no" => call[c].digest \notin revokedSet
                                        /\ answer = "yes" => call[c].digest \in revokedSet
    PROVE  IInv'
<1> DEFINE k == [call[c] EXCEPT !.pc = "return", !.answer = answer]
<1>1. call[c] \in CallStates /\ CallOK(call[c], revokedSet)
  BY DEF IInv, TypeOK, CallStates
<1>2. k \in CallStates
  BY <1>1 DEF CallStates
<1>3. /\ k.known = call[c].known /\ k.digest = call[c].digest /\ k.op = call[c].op
      /\ k.answer = answer
  BY <1>1 DEF CallStates
<1>4. call' = [call EXCEPT ![c] = k]
  BY DEF Answer
<1> HIDE DEF k
<1>5. CallOK(k, revokedSet')
  BY <1>1, <1>3 DEF CallOK
<1> QED
  BY <1>2, <1>4, <1>5, OneCallMoves

\* At first nobody calls, and the invariant holds.
LEMMA InductiveInit == Init => IInv
<1> SUFFICES ASSUME Init PROVE IInv
  OBVIOUS
<1>1. TypeOK
  BY RestingType DEF Init, TypeOK, Entries, CallStates
<1>2. \A c \in Clients : CallOK(call[c], revokedSet)
  BY DEF Init, CallOK, Resting
<1> QED
  BY <1>1, <1>2 DEF IInv

\* Every step preserves the invariant.
LEMMA InductiveNext == IInv /\ [Next]_vars => IInv'
<1> SUFFICES ASSUME IInv, [Next]_vars PROVE IInv'
  OBVIOUS
<1>0. TypeOK
  BY DEF IInv
<1>1. ASSUME NEW c \in Clients, NEW op \in Operations, NEW d \in Digests, Begin(c, op, d)
      PROVE  IInv'
  <2> DEFINE k == [pc |-> "called", op |-> op, digest |-> d, known |-> d \in revokedSet,
                   answer |-> "none"]
  <2>1. k \in CallStates /\ CallOK(k, revokedSet)
    <3>1. k \in CallStates
      BY DEF CallStates, Answers
    <3>2. k.digest = d /\ (k.known <=> d \in revokedSet) /\ k.answer = "none"
      OBVIOUS
    <3> HIDE DEF k
    <3> QED
      BY <3>1, <3>2 DEF CallOK
  <2>2. call' = [call EXCEPT ![c] = k] /\ UNCHANGED <<receipts, revokedSet>>
    BY <1>1 DEF Begin
  <2> HIDE DEF k
  <2> QED
    BY <1>0, <2>1, <2>2, OneCallMoves DEF TypeOK
<1>2. ASSUME NEW c \in Clients, Put(c) PROVE IInv'
  <2>1. call[c].op = "put" /\ call[c].digest \in Digests
    BY <1>0, <1>2 DEF Put, Called, TypeOK
  <2>2. receipts' \in [Digests -> Entries]
    BY <1>0, <1>2 DEF Put, TypeOK, Entries
  <2>3. Answer(c, "ok") /\ UNCHANGED revokedSet
    BY <1>2 DEF Put
  <2> QED
    BY <1>0, <2>1, <2>2, <2>3, AnswerPreserves DEF Answers, TypeOK
<1>3. ASSUME NEW c \in Clients, Get(c) PROVE IInv'
  <2>1. call[c].op = "get" /\ UNCHANGED <<receipts, revokedSet>>
    BY <1>3 DEF Get, Called
  <2>2. PICK answer \in Answers : Answer(c, answer)
    BY <1>3 DEF Get, Answers
  <2> QED
    BY <1>0, <2>1, <2>2, AnswerPreserves DEF TypeOK
<1>4. ASSUME NEW c \in Clients, IsRevoked(c) PROVE IInv'
  <2> DEFINE answer == IF call[c].digest \in revokedSet THEN "yes" ELSE "no"
  <2>1. Answer(c, answer) /\ UNCHANGED <<receipts, revokedSet>>
    BY <1>4 DEF IsRevoked
  <2>2. answer \in Answers
    BY DEF Answers
  <2>3. /\ answer = "no" => call[c].digest \notin revokedSet
        /\ answer = "yes" => call[c].digest \in revokedSet
    OBVIOUS
  <2> HIDE DEF answer
  <2> QED
    BY <1>0, <2>1, <2>2, <2>3, AnswerPreserves DEF TypeOK
<1>5. ASSUME NEW c \in Clients, Revoke(c) PROVE IInv'
  <2>1. call[c].op = "revoke" /\ call[c].digest \in Digests
    BY <1>0, <1>5 DEF Revoke, Called, TypeOK
  <2>2. Answer(c, "ok") /\ UNCHANGED receipts /\ revokedSet' = revokedSet \cup {call[c].digest}
    BY <1>5 DEF Revoke
  <2> QED
    BY <1>0, <2>1, <2>2, AnswerPreserves DEF Answers, TypeOK
<1>6. ASSUME NEW c \in Clients, Return(c) PROVE IInv'
  <2>1. CallOK(Resting, revokedSet)
    BY DEF CallOK, Resting
  <2> QED
    BY <1>0, <1>6, <2>1, RestingType, OneCallMoves DEF Return, TypeOK
<1>7. ASSUME NEW d \in Digests, NEW entry \in Entries, Alter(d, entry) PROVE IInv'
  BY <1>7 DEF Alter, IInv, TypeOK, CallOK
<1>8. CASE UNCHANGED vars
  BY <1>8 DEF vars, IInv, TypeOK, CallOK
<1> QED
  BY <1>1, <1>2, <1>3, <1>4, <1>5, <1>6, <1>7, <1>8 DEF Next

\* The inductive invariant holds in every reachable state.
LEMMA Invariance == Spec => []IInv
BY InductiveInit, InductiveNext, PTL DEF Spec

\* Every variable keeps its type.
THEOREM TypeCorrect == Spec => []TypeOK
<1>1. IInv => TypeOK
  BY DEF IInv
<1> QED
  BY <1>1, Invariance, PTL

\* What is_revoked answers was true when it was asked, and a revocation made
\* before the call began is seen (protocol.py:504-507), whatever is put or
\* altered in between.
THEOREM AnswersFollowRevocation == Spec => []AnswersMatchRevocation
<1>1. IInv => AnswersMatchRevocation
  BY DEF IInv, CallOK, AnswersMatchRevocation
<1> QED
  BY <1>1, Invariance, PTL

-----------------------------------------------------------------------------
(* The abstract store *)

\* Contract's view of a call, and of the table of calls.
Phase(pc) ==
    CASE pc = "idle" -> "idle" [] pc = "called" -> "pending" [] pc = "return" -> "done"

Seen(k) == [phase |-> Phase(k.pc), op |-> k.op, digest |-> k.digest, answer |-> k.answer]

SeenStates == [phase : {"idle", "pending", "done"}, op : Operations, digest : Digests,
               answer : Answers]

Calls == [c \in Clients |-> Seen(call[c])]
Readable == {d \in Digests : receipts[d] = "intact"}
Written == {d \in Digests : receipts[d] # "absent"}

\* The initial states are initial states of the abstract store.
LEMMA RefinesInit == Init => Contract!Init
BY DEF Init, Contract!Init, Contract!NoCall, Resting

\* A step that moves the call of one client moves its abstract call.
LEMMA CallsMove ==
    ASSUME NEW c \in Clients, NEW k, call \in [Clients -> CallStates],
           call' = [call EXCEPT ![c] = k]
    PROVE  Calls' = [Calls EXCEPT ![c] = Seen(k)]
BY DEF Calls

\* A call that answers is the abstract call that answers the same.
LEMMA AnswerSeen ==
    ASSUME NEW c \in Clients, NEW answer \in Answers, call \in [Clients -> CallStates],
           Answer(c, answer)
    PROVE  Calls' = [Calls EXCEPT ![c].phase = "done", ![c].answer = answer]
<1> DEFINE k == [call[c] EXCEPT !.pc = "return", !.answer = answer]
<1>1. call[c] \in CallStates
  OBVIOUS
<1>2. /\ k.pc = "return" /\ k.op = call[c].op /\ k.digest = call[c].digest
      /\ k.answer = answer
  BY <1>1 DEF CallStates
<1>3. call' = [call EXCEPT ![c] = k]
  BY DEF Answer
<1> HIDE DEF k
<1>4. Phase(k.pc) = "done"
  BY <1>2 DEF Phase
<1>5. Seen(k) = [Seen(call[c]) EXCEPT !.phase = "done", !.answer = answer]
  <2> DEFINE s == Seen(call[c])
             t == [s EXCEPT !.phase = "done", !.answer = answer]
             u == Seen(k)
  <2>1. Phase(call[c].pc) \in {"idle", "pending", "done"}
    BY <1>1 DEF CallStates, Phase
  <2>2. s \in SeenStates /\ s.op = call[c].op /\ s.digest = call[c].digest
    BY <1>1, <2>1 DEF Seen, CallStates, SeenStates
  <2>3. /\ u \in SeenStates /\ u.phase = "done" /\ u.op = call[c].op
        /\ u.digest = call[c].digest /\ u.answer = answer
    BY <1>1, <1>2, <1>4 DEF Seen, CallStates, SeenStates
  <2> HIDE DEF s, u
  <2>4. /\ t \in SeenStates /\ t.phase = "done" /\ t.op = s.op
        /\ t.digest = s.digest /\ t.answer = answer
    BY <2>2 DEF SeenStates
  <2> HIDE DEF t
  <2>5. t = u
    BY <2>2, <2>3, <2>4 DEF SeenStates
  <2> QED
    BY <2>5 DEF s, t, u
<1>6. Calls' = [Calls EXCEPT ![c] = Seen(k)]
  BY <1>3, CallsMove
<1>7. Calls[c] = Seen(call[c])
  BY DEF Calls
<1> QED
  BY <1>5, <1>6, <1>7 DEF Calls

\* Every step is a step of the abstract store, or changes nothing it shows.
LEMMA RefinesNext ==
    ASSUME TypeOK, [Next]_vars
    PROVE  [Contract!Next]_Contract!vars
<1>0. call \in [Clients -> CallStates]
  BY DEF TypeOK, CallStates
<1>1. ASSUME NEW c \in Clients, NEW op \in Operations, NEW d \in Digests, Begin(c, op, d)
      PROVE  Contract!Next
  <2> DEFINE k == [pc |-> "called", op |-> op, digest |-> d, known |-> d \in revokedSet,
                   answer |-> "none"]
  <2>1. Calls[c].phase = "idle"
    BY <1>1 DEF Begin, Calls, Seen, Phase
  <2>2. Calls' = [Calls EXCEPT ![c] = Seen(k)]
    BY <1>0, <1>1, CallsMove DEF Begin
  <2>3. Seen(k) = [phase |-> "pending", op |-> op, digest |-> d, answer |-> "none"]
    BY DEF Seen, Phase
  <2>4. UNCHANGED <<receipts, revokedSet>>
    BY <1>1 DEF Begin
  <2> HIDE DEF k
  <2>5. Contract!Invoke(c, op, d)
    BY <2>1, <2>2, <2>3, <2>4 DEF Contract!Invoke, Calls, Seen, Phase
  <2> QED
    BY <2>5 DEF Contract!Next, Contract!Operations, Operations
<1>2. ASSUME NEW c \in Clients, Put(c) PROVE Contract!Next
  <2> DEFINE d == call[c].digest
  <2>1. Contract!Pending(c, "put")
    BY <1>2 DEF Put, Called, Contract!Pending
  <2>2. d \in Digests
    BY <1>0 DEF CallStates
  <2>3. Readable' = Readable \cup {d} /\ Written' = Written \cup {d}
    BY <1>2, <2>2 DEF Put, Readable, Written, TypeOK, Entries
  <2>4. Calls' = [Calls EXCEPT ![c].phase = "done", ![c].answer = "ok"]
    BY <1>0, <1>2, AnswerSeen DEF Answers, Put
  <2>5. Contract!Put(c)
    BY <1>2, <2>1, <2>3, <2>4
    DEF Contract!Put, Contract!Answer, Calls, Seen, Phase, Readable, Written, Put
  <2> QED
    BY <2>5 DEF Contract!Next
<1>3. ASSUME NEW c \in Clients, Get(c) PROVE Contract!Next
  <2> DEFINE d == call[c].digest
             answer == IF receipts[d] = "intact" THEN "receipt" ELSE "missing"
  <2>1. Contract!Pending(c, "get")
    BY <1>3 DEF Get, Called, Contract!Pending
  <2>2. d \in Digests
    BY <1>0 DEF CallStates
  <2>3. Calls' = [Calls EXCEPT ![c].phase = "done", ![c].answer = answer]
    BY <1>0, <1>3, AnswerSeen DEF Answers, Get
  <2>4. \/ answer = "receipt" /\ MayReturn(d, Written, revokedSet, FALSE)
        \/ answer = "missing" /\ MayMiss(d, Readable, revokedSet, FALSE)
    BY <2>2 DEF MayReturn, MayMiss, Written, Readable
  <2>5. Contract!Get(c)
    BY <1>3, <2>1, <2>3, <2>4
    DEF Contract!Get, Contract!Answer, Calls, Seen, Phase, Readable, Written, Get,
        Contract!MayReturn, Contract!MayMiss, MayReturn, MayMiss
  <2> QED
    BY <2>5 DEF Contract!Next
<1>4. ASSUME NEW c \in Clients, IsRevoked(c) PROVE Contract!Next
  <2>1. Contract!Pending(c, "is_revoked")
    BY <1>4 DEF IsRevoked, Called, Contract!Pending
  <2>2. Calls' = [Calls EXCEPT ![c].phase = "done",
                     ![c].answer = IF call[c].digest \in revokedSet THEN "yes" ELSE "no"]
    BY <1>0, <1>4, AnswerSeen DEF Answers, IsRevoked
  <2>3. Contract!IsRevoked(c)
    BY <1>4, <2>1, <2>2
    DEF Contract!IsRevoked, Contract!Answer, Calls, Seen, Phase, IsRevoked
  <2> QED
    BY <2>3 DEF Contract!Next
<1>5. ASSUME NEW c \in Clients, Revoke(c) PROVE Contract!Next
  <2>1. Contract!Pending(c, "revoke")
    BY <1>5 DEF Revoke, Called, Contract!Pending
  <2>2. Calls' = [Calls EXCEPT ![c].phase = "done", ![c].answer = "ok"]
    BY <1>0, <1>5, AnswerSeen DEF Answers, Revoke
  <2>3. Contract!Revoke(c)
    BY <1>5, <2>1, <2>2
    DEF Contract!Revoke, Contract!Answer, Calls, Seen, Phase, Revoke
  <2> QED
    BY <2>3 DEF Contract!Next
<1>6. ASSUME NEW c \in Clients, Return(c) PROVE Contract!Next
  <2>1. Calls[c].phase # "idle"
    BY <1>6 DEF Return, Calls, Seen, Phase
  <2>2. Calls' = [Calls EXCEPT ![c] = Seen(Resting)]
    BY <1>0, <1>6, CallsMove DEF Return
  <2>3. Seen(Resting) = Contract!NoCall
    BY DEF Seen, Phase, Resting, Contract!NoCall
  <2>4. Contract!Leave(c)
    BY <1>6, <2>1, <2>2, <2>3 DEF Contract!Leave, Calls, Seen, Phase, Return
  <2> QED
    BY <2>4 DEF Contract!Next
<1>7. ASSUME NEW d \in Digests, NEW entry \in Entries, Alter(d, entry) PROVE Contract!Next
  <2>1. Readable' \in SUBSET Written /\ Written' = Written
    BY <1>7 DEF Alter, Readable, Written, TypeOK, Entries
  <2>2. Contract!Alter
    BY <1>7, <2>1 DEF Contract!Alter, Readable, Written, Alter
  <2> QED
    BY <2>2 DEF Contract!Next
<1>8. CASE UNCHANGED vars
  BY <1>8 DEF vars, Contract!vars
<1> QED
  BY <1>1, <1>2, <1>3, <1>4, <1>5, <1>6, <1>7, <1>8 DEF Next

\* The in-memory backend implements the abstract store (protocol.py:482-507).
THEOREM Refinement == Spec => ImplementsContract
BY RefinesInit, RefinesNext, TypeCorrect, PTL DEF Spec, ImplementsContract, Contract!Spec
=============================================================================
