------------------------- MODULE MCPShadowProxyProofs -------------------------
(***************************************************************************)
(* Proofs about MCPShadowProxy, for any threads, calls, policy, results    *)
(* and number of calls, and for either backend.  The argument: whatever    *)
(* the index names is in the store, and neither the store nor the set of   *)
(* revoked receipts shrinks while a call runs, so what a call has found    *)
(* stays found (ForwardOK); only a restart takes it away, and the calls    *)
(* with it.                                                                *)
(***************************************************************************)
EXTENDS MCPShadowProxy, ReuseDecisionProofs

\* Results that have a digest.
Ordinary == [kind : {"ok", "error", "wrapped error"}, digest : Values]

\* How often the tool has run when a method is through with it.
Executions(call) == IF call.op = "forward" THEN 1 ELSE 0

\* What the call f has established, when the store has the receipts in
\* "present" and those in "gone" are revoked.
ForwardOK(f, present, gone) ==
    /\ f.prior # None => f.prior \in present
    /\ f.known => f.prior \in gone
    /\ f.decision.reason # "receipt not found"
    /\ f.decision.state = "REUSABLE_EXACT" =>
          /\ f.prior \in present
          /\ ~f.known
          /\ ReuseEvidence("intact", FALSE, LookupAction(f.call), f.prior, Policy, None, "none")
    /\ f.pc \in {"get", "absent", "check", "compare"} => f.prior # None
    /\ f.pc = "absent" => f.prior \in gone
    /\ f.pc \in {"get", "absent", "check", "call"} =>
          f.executed = 0 /\ f.matches = "none" /\ f.receipt = None /\ f.call.op # "observe"
    /\ f.pc = "call" => f.call.op = "forward"
    /\ f.pc = "compare" => f.result \in Ordinary /\ f.receipt = None
    /\ f.pc \in {"compare", "record", "index", "returned"} => f.executed = Executions(f.call)
    /\ f.pc = "record" => f.result \in Returned /\ f.receipt = None
    /\ f.pc = "index" => f.receipt \in present /\ f.receipt.action = f.call.action
    /\ f.matches = "yes" => f.prior.result_digest = f.result.digest
    /\ f.matches = "no" => f.prior.result_digest # f.result.digest \/ f.prior \in gone
    /\ f.receipt # None => f.result.kind \in {"ok", "wrapped error"}

StoredReads == \A r \in stored : ReadOnly(r.action)

IInv ==
    /\ TypeOK
    /\ IndexIsBacked
    /\ StoredReads
    /\ \A t \in Threads : fwd[t].pc # "idle" => ForwardOK(fwd[t], stored, revoked)

-----------------------------------------------------------------------------
(* Lemmas *)

\* More receipts and more revocations take nothing away.
LEMMA ForwardOKGrows ==
    ASSUME NEW f, NEW present, NEW gone, NEW present2, NEW gone2,
           present \subseteq present2, gone \subseteq gone2,
           ForwardOK(f, present, gone)
    PROVE  ForwardOK(f, present2, gone2)
BY DEF ForwardOK

\* A call that is going on is no resting thread.
LEMMA Going ==
    ASSUME TypeOK, NEW t \in Threads, fwd[t].pc # "idle"
    PROVE  fwd[t] \in Forwards
BY DEF TypeOK, Resting

\* One call moves, in order; the store may grow with it.
LEMMA OneForwardMoves ==
    ASSUME IInv, NEW t \in Threads, NEW f \in {Resting} \cup Forwards,
           fwd' = [fwd EXCEPT ![t] = f],
           f.pc # "idle" => ForwardOK(f, stored', revoked'),
           sqlite' = sqlite,
           stored \subseteq stored', stored' \subseteq Receipts, StoredReads',
           revoked' = revoked,
           index' \in [Actions -> Receipts \cup {None}], IndexIsBacked',
           started' \in 0..MaxCalls
    PROVE  IInv'
<1>1. TypeOK'
  BY DEF IInv, TypeOK
<1>2. ASSUME NEW s \in Threads, fwd'[s].pc # "idle"
      PROVE  ForwardOK(fwd'[s], stored', revoked')
  <2>1. CASE s = t
    BY <1>2, <2>1 DEF IInv, TypeOK
  <2>2. CASE s # t
    <3>1. fwd'[s] = fwd[s]
      BY <2>2 DEF IInv, TypeOK
    <3>2. ForwardOK(fwd[s], stored, revoked)
      BY <1>2, <3>1 DEF IInv
    <3> QED
      BY <3>1, <3>2, ForwardOKGrows
  <2> QED
    BY <2>1, <2>2
<1> QED
  BY <1>1, <1>2 DEF IInv

\* ... and most steps leave everything but the call alone.
LEMMA OnlyForwardMoves ==
    ASSUME IInv, NEW t \in Threads, NEW f \in Forwards,
           fwd' = [fwd EXCEPT ![t] = f], ForwardOK(f, stored, revoked),
           UNCHANGED <<storeVars, index, started>>
    PROVE  IInv'
<1>1. /\ stored' = stored /\ revoked' = revoked /\ sqlite' = sqlite
      /\ index' = index /\ started' = started
  BY DEF storeVars
<1>2. StoredReads' /\ IndexIsBacked'
  BY <1>1 DEF IInv, StoredReads, IndexIsBacked
<1> QED
  BY <1>1, <1>2, OneForwardMoves DEF IInv, TypeOK

\* A receipt made of an ordinary result is one of Receipts.
LEMMA RecordedReceipt ==
    ASSUME NEW call \in Calls, NEW result \in Ordinary, NEW time \in Times
    PROVE  /\ ReceiptFor(call, result, time) \in Receipts
           /\ ReceiptFor(call, result, time).action = call.action
<1>1. result.digest \in Values
  BY DEF Ordinary
<1>2. ReceiptFor(call, result, time) = ReceiptFor(call, [digest |-> result.digest], time)
  BY DEF ReceiptFor
<1>3. ReceiptFor(call, [digest |-> result.digest], time) \in Receipts
  BY <1>1 DEF Receipts
<1> QED
  BY <1>2, <1>3 DEF ReceiptFor

\* Every receipt the adapter makes is EXACT (mcp_shadow.py:141-163).
LEMMA ReceiptsAreExact == \A r \in Receipts : r.reuse_class = "EXACT"
BY DEF Receipts, ReceiptFor

\* A verdict of evaluate is one that a call can carry.
ProxyReasons == Reasons \cup {"no prior receipt", "ineligible MCP result", "receipt recorded"}

DecisionTypes == [state : DecisionStates \cup {"undecided"}, reason : ProxyReasons]

\* What the decision operators return can be reported.
LEMMA VerdictTypes ==
    /\ Verdicts \subseteq DecisionTypes
    /\ \A state \in DecisionStates \cup {"undecided"} : \A reason \in ProxyReasons :
          /\ Verdict(state, reason) \in DecisionTypes
          /\ Verdict(state, reason).state = state
          /\ Verdict(state, reason).reason = reason
BY DEF Verdicts, Verdict, DecisionTypes, ProxyReasons

\* A call whose evaluation ends.
LEMMA Decides ==
    ASSUME IInv, NEW t \in Threads, fwd[t].pc \in {"absent", "check"},
           NEW verdict \in DecisionTypes, Decide(t, verdict),
           verdict.reason # "receipt not found",
           verdict.state = "REUSABLE_EXACT" =>
              /\ ~fwd[t].known
              /\ ReuseEvidence("intact", FALSE, LookupAction(fwd[t].call), fwd[t].prior,
                               Policy, None, "none"),
           UNCHANGED <<storeVars, index, started>>
    PROVE  IInv'
<1> DEFINE e == fwd[t]
           f == [fwd[t] EXCEPT !.decision = verdict, !.pc = Decided(fwd[t].call)]
<1>1. e \in Forwards /\ ForwardOK(e, stored, revoked)
  BY Going DEF IInv
<1>2. e.call \in Calls
  BY <1>1 DEF Forwards
<1>3. Decided(e.call) \in {"call", "returned"}
  BY DEF Decided
<1>4. f \in Forwards
  BY <1>1, <1>3 DEF Forwards, Steps, DecisionTypes, ProxyReasons
<1>5. /\ f.pc = Decided(e.call) /\ f.decision = verdict /\ f.prior = e.prior
      /\ f.known = e.known /\ f.call = e.call /\ f.executed = e.executed
      /\ f.result = e.result /\ f.matches = e.matches /\ f.receipt = e.receipt
  BY <1>1 DEF Forwards
<1>6. fwd' = [fwd EXCEPT ![t] = f]
  BY DEF Decide
<1>7. e.executed = 0 /\ e.matches = "none" /\ e.receipt = None /\ e.call.op # "observe"
      /\ e.prior \in stored /\ (e.known => e.prior \in revoked)
  BY <1>1 DEF ForwardOK
<1>8. /\ Decided(e.call) = "call" => e.call.op = "forward"
      /\ Decided(e.call) = "returned" => Executions(e.call) = 0
  BY <1>2, <1>7, CallsHaveMethods DEF Decided, Executions
<1> HIDE DEF f
<1>9. ForwardOK(f, stored, revoked)
  BY <1>3, <1>5, <1>7, <1>8 DEF ForwardOK
<1> QED
  BY <1>4, <1>6, <1>9, OnlyForwardMoves

-----------------------------------------------------------------------------
(* The inductive invariant *)

\* At first the store and the index are empty and no call is going on.
LEMMA InductiveInit == Init => IInv
<1> SUFFICES ASSUME Init PROVE IInv
  OBVIOUS
<1>1. TypeOK
  BY CallBound DEF Init, TypeOK
<1>2. IndexIsBacked /\ StoredReads
  BY DEF Init, IndexIsBacked, StoredReads
<1>3. \A t \in Threads : fwd[t].pc = "idle"
  BY DEF Init, Resting
<1> QED
  BY <1>1, <1>2, <1>3 DEF IInv

\* A fresh call is of the right type.
LEMMA FreshType ==
    ASSUME NEW call \in Calls, NEW pc \in Steps \ {"idle"}
    PROVE  /\ Fresh(call, pc) \in Forwards
           /\ Fresh(call, pc).pc = pc /\ Fresh(call, pc).call = call
           /\ Fresh(call, pc).prior = None /\ Fresh(call, pc).decision = Undecided
           /\ Fresh(call, pc).executed = 0 /\ Fresh(call, pc).matches = "none"
           /\ Fresh(call, pc).receipt = None /\ Fresh(call, pc).known = FALSE
<1>1. Undecided \in DecisionTypes
  BY Handovers, VerdictTypes
<1>2. 0 \in 0..1
  OBVIOUS
<1>3. Fresh(call, pc) \in Forwards
  BY <1>1, <1>2, Zenon DEF Fresh, Forwards, DecisionTypes, ProxyReasons
<1> QED
  BY <1>3 DEF Fresh

\* What begins a call leaves the store and the index alone.
LEMMA BeginningPreserves ==
    ASSUME IInv, NEW t \in Threads, NEW call, Begin(t, call), NEW f \in Forwards,
           fwd' = [fwd EXCEPT ![t] = f], ForwardOK(f, stored, revoked)
    PROVE  IInv'
<1>1. /\ stored' = stored /\ revoked' = revoked /\ sqlite' = sqlite /\ index' = index
  BY DEF Begin, storeVars
<1>2. started' \in 0..MaxCalls
  BY CallBound DEF Begin, IInv, TypeOK
<1>3. StoredReads' /\ IndexIsBacked'
  BY <1>1 DEF IInv, StoredReads, IndexIsBacked
<1> QED
  BY <1>1, <1>2, <1>3, OneForwardMoves DEF IInv, TypeOK

\* A request no action can be made of raises and does nothing else.
LEMMA RefusePreserves ==
    ASSUME IInv, NEW t \in Threads, NEW call \in Calls, Refuse(t, call)
    PROVE  IInv'
<1> DEFINE f == Fresh(call, "raised")
<1>0. "raised" \in Steps \ {"idle"}
  BY DEF Steps
<1>1. /\ f \in Forwards /\ f.pc = "raised" /\ f.prior = None /\ f.decision = Undecided
      /\ f.matches = "none" /\ f.receipt = None /\ f.known = FALSE
  BY <1>0, FreshType
<1>2. Undecided.state # "REUSABLE_EXACT" /\ Undecided.reason # "receipt not found"
  BY Handovers
<1>3. Begin(t, call) /\ fwd' = [fwd EXCEPT ![t] = f]
  BY DEF Refuse
<1> HIDE DEF f
<1>4. ForwardOK(f, stored, revoked)
  BY <1>1, <1>2 DEF ForwardOK
<1> QED
  BY <1>1, <1>3, <1>4, BeginningPreserves

\* observe_tools_call begins with the caller's result and owes no tool call.
LEMMA ObservePreserves ==
    ASSUME IInv, NEW t \in Threads, NEW call \in Calls, NEW result \in Returned,
           Observe(t, call, result)
    PROVE  IInv'
<1> DEFINE e == Fresh(call, "record")
           f == [Fresh(call, "record") EXCEPT !.result = result]
<1>0. "record" \in Steps \ {"idle"}
  BY DEF Steps
<1>1. /\ e \in Forwards /\ e.pc = "record" /\ e.prior = None /\ e.decision = Undecided
      /\ e.matches = "none" /\ e.receipt = None /\ e.known = FALSE
      /\ e.call = call /\ e.executed = 0
  BY <1>0, FreshType
<1>2. result \in ToolResults
  BY DEF ToolResults
<1> HIDE DEF e
<1>3. /\ f \in Forwards /\ f.pc = "record" /\ f.prior = None /\ f.decision = Undecided
      /\ f.matches = "none" /\ f.receipt = None /\ f.known = FALSE
      /\ f.call = call /\ f.executed = 0 /\ f.result = result
  BY <1>1, <1>2 DEF Forwards, e
<1>4. Undecided.state # "REUSABLE_EXACT" /\ Undecided.reason # "receipt not found"
  BY Handovers
<1>5. Begin(t, call) /\ fwd' = [fwd EXCEPT ![t] = f] /\ call.op = "observe"
  BY DEF Observe
<1> HIDE DEF f
<1>6. ForwardOK(f, stored, revoked)
  BY <1>3, <1>4, <1>5 DEF ForwardOK, Executions
<1> QED
  BY <1>3, <1>5, <1>6, BeginningPreserves

\* The index is read: what it names is in the store, by the invariant.
LEMMA LookUpPreserves ==
    ASSUME IInv, NEW t \in Threads, NEW call \in Calls, LookUp(t, call)
    PROVE  IInv'
<1> DEFINE prior == index[LookupAction(call)]
           pc == IF prior = None THEN Decided(call) ELSE "get"
           e == Fresh(call, pc)
           decision == IF prior = None THEN Verdict("UNKNOWN", "no prior receipt") ELSE Undecided
           known == prior \in revoked
           f == [e EXCEPT !.prior = prior, !.decision = decision, !.known = known,
                          !.equivalent = index[call.action]]
<1>1. LookupAction(call) \in Actions /\ call.action \in Actions
  BY DEF Actions
<1>2. /\ prior \in Receipts \cup {None} /\ index[call.action] \in Receipts \cup {None}
      /\ prior # None => prior \in stored
  BY <1>1 DEF IInv, TypeOK, IndexIsBacked
<1>3. /\ pc \in Steps \ {"idle"} /\ pc \in {"get", "call", "returned"}
      /\ pc = "get" => prior # None
      /\ pc = "call" => prior = None /\ call.op # "evaluate"
      /\ pc = "returned" => prior = None /\ call.op = "evaluate"
  BY DEF Decided, Steps
<1>4. decision \in DecisionTypes /\ decision.state # "REUSABLE_EXACT"
      /\ decision.reason # "receipt not found"
  <2>1. "UNKNOWN" \in DecisionStates \cup {"undecided"} /\ "no prior receipt" \in ProxyReasons
    BY DEF DecisionStates, ProxyReasons
  <2>2. /\ Undecided \in DecisionTypes /\ Undecided.state # "REUSABLE_EXACT"
        /\ Undecided.reason # "receipt not found"
    BY Handovers, VerdictTypes
  <2> QED
    BY <2>1, <2>2, VerdictTypes
<1>5. /\ call.op # "observe" /\ Begin(t, call) /\ fwd' = [fwd EXCEPT ![t] = f]
  BY DEF LookUp
<1>6. call.op \in {"forward", "evaluate"}
  BY <1>5, CallsHaveMethods
<1>7. known \in BOOLEAN /\ (known => prior \in revoked)
  OBVIOUS
<1> HIDE DEF prior, pc, decision, known
<1>8. /\ e \in Forwards /\ e.pc = pc /\ e.call = call /\ e.executed = 0
      /\ e.matches = "none" /\ e.receipt = None
  BY <1>3, FreshType
<1> HIDE DEF e
<1>9. /\ f \in Forwards
      /\ f.pc = pc /\ f.call = call /\ f.prior = prior /\ f.decision = decision
      /\ f.executed = 0 /\ f.matches = "none" /\ f.receipt = None /\ f.known = known
  <2>1. f \in Forwards
    <3>1. [e EXCEPT !.prior = prior] \in Forwards
      BY <1>2, <1>8 DEF Forwards
    <3>2. [e EXCEPT !.prior = prior, !.decision = decision] \in Forwards
      BY <1>4, <3>1 DEF Forwards, DecisionTypes, ProxyReasons
    <3>3. [e EXCEPT !.prior = prior, !.decision = decision, !.known = known] \in Forwards
      BY <1>7, <3>2 DEF Forwards
    <3> QED
      BY <1>2, <3>3 DEF Forwards
  <2>2. /\ f.pc = pc /\ f.call = call /\ f.prior = prior /\ f.decision = decision
        /\ f.executed = 0 /\ f.matches = "none" /\ f.receipt = None /\ f.known = known
    BY <1>8 DEF Forwards
  <2> QED
    BY <2>1, <2>2
<1> HIDE DEF f
<1>10. ForwardOK(f, stored, revoked)
  BY <1>2, <1>3, <1>4, <1>5, <1>6, <1>7, <1>9 DEF ForwardOK, Executions
<1> QED
  BY <1>5, <1>9, <1>10, BeginningPreserves

\* get finds the prior receipt; the evaluation goes on with it.
LEMMA GetPreserves ==
    ASSUME IInv, NEW t \in Threads, Get(t)
    PROVE  IInv'
<1> DEFINE e == fwd[t]
<1>1. e \in Forwards /\ ForwardOK(e, stored, revoked) /\ e.pc = "get"
  BY Going DEF IInv, Get, At
<1>2. PICK pc \in {"check", "absent"} :
          /\ fwd' = [fwd EXCEPT ![t] = [@ EXCEPT !.pc = pc]]
          /\ pc = "absent" => MayMiss(e.prior, stored, revoked, sqlite)
  BY DEF Get, Move
<1>3. UNCHANGED <<storeVars, index, started>>
  BY DEF Get
<1> DEFINE f == [e EXCEPT !.pc = pc]
<1>4. f \in Forwards
  BY <1>1 DEF Forwards, Steps
<1>5. /\ f.pc = pc /\ f.decision = e.decision /\ f.prior = e.prior
      /\ f.known = e.known /\ f.call = e.call /\ f.executed = e.executed
      /\ f.result = e.result /\ f.matches = e.matches /\ f.receipt = e.receipt
  BY <1>1 DEF Forwards
<1>6. fwd' = [fwd EXCEPT ![t] = f]
  BY <1>2
<1>7. pc = "absent" => e.prior \in revoked
  BY <1>1, <1>2 DEF ForwardOK, MayMiss
<1> HIDE DEF f
<1>8. ForwardOK(f, stored, revoked)
  BY <1>1, <1>5, <1>7 DEF ForwardOK
<1> QED
  BY <1>3, <1>4, <1>6, <1>8, OnlyForwardMoves

\* A miss is a revocation, never a loss.
LEMMA AbsentPreserves ==
    ASSUME IInv, NEW t \in Threads, Absent(t)
    PROVE  IInv'
<1> DEFINE verdict == Verdict("REVOKED", "receipt revoked")
<1>1. ForwardOK(fwd[t], stored, revoked) /\ fwd[t].pc = "absent"
  BY DEF IInv, Absent, At
<1>2. fwd[t].prior \in revoked
  BY <1>1 DEF ForwardOK
<1>3. Decide(t, verdict) /\ UNCHANGED <<storeVars, index, started>>
  BY <1>2 DEF Absent
<1>4. "REVOKED" \in DecisionStates \cup {"undecided"} /\ "receipt revoked" \in ProxyReasons
  BY DEF DecisionStates, ProxyReasons, Reasons
<1>5. /\ verdict \in DecisionTypes /\ verdict.state = "REVOKED"
      /\ verdict.reason = "receipt revoked"
  BY <1>4, VerdictTypes
<1> HIDE DEF verdict
<1> QED
  BY <1>1, <1>3, <1>5, Decides

\* evaluate decides on what is revoked now.
LEMMA CheckPreserves ==
    ASSUME IInv, NEW t \in Threads, Check(t)
    PROVE  IInv'
<1> DEFINE r == fwd[t].prior
           action == LookupAction(fwd[t].call)
           isRevoked == r \in revoked
           verdict == UpToValidator("intact", isRevoked, action, r, Policy, None, FALSE)
<1>1. fwd[t] \in Forwards /\ ForwardOK(fwd[t], stored, revoked) /\ fwd[t].pc = "check"
  BY Going DEF IInv, Check, At
<1>2. r \in stored /\ r \in Receipts /\ (fwd[t].known => isRevoked)
  BY <1>1 DEF ForwardOK, IInv, TypeOK
<1>3. r.reuse_class \in {"EXACT", "VERIFIED", "ADVISORY", "UNSAFE"}
  BY <1>2, ReceiptsAreExact
<1>4. "intact" \in Conditions /\ isRevoked \in BOOLEAN /\ FALSE \in BOOLEAN
  BY DEF Conditions
<1>5. Decide(t, verdict) /\ UNCHANGED <<storeVars, index, started>>
  BY DEF Check
<1>6. verdict.reason # "receipt not found"
  BY ChecksFindTheReceipt
<1>7. /\ verdict \in Verdicts
      /\ verdict.state = "REUSABLE_EXACT" => \A outcome :
            ReuseEvidence("intact", isRevoked, action, r, Policy, None, outcome)
  <2> DEFINE hasValidator == FALSE
  <2>1. verdict = UpToValidator("intact", isRevoked, action, r, Policy, None, hasValidator)
    OBVIOUS
  <2> HIDE DEF r, action, isRevoked, verdict, hasValidator
  <2> QED
    BY <1>3, <1>4, <2>1, ChecksAreSound
<1> HIDE DEF r, action, isRevoked, verdict
<1>8. verdict \in DecisionTypes
  BY <1>7, VerdictTypes
<1>9. verdict.state = "REUSABLE_EXACT" =>
         ~isRevoked /\ ReuseEvidence("intact", FALSE, action, r, Policy, None, "none")
  BY <1>7 DEF ReuseEvidence
<1>10. verdict.state = "REUSABLE_EXACT" =>
          /\ ~fwd[t].known
          /\ ReuseEvidence("intact", FALSE, LookupAction(fwd[t].call), fwd[t].prior, Policy,
                           None, "none")
  BY <1>2, <1>9 DEF r, action
<1> QED
  BY <1>1, <1>5, <1>6, <1>8, <1>10, Decides

\* The tool runs once, and nothing has been compared or recorded before.
LEMMA ExecutePreserves ==
    ASSUME IInv, NEW t \in Threads, NEW result \in ToolResults, Execute(t, result)
    PROVE  IInv'
<1> DEFINE e == fwd[t]
           pc == IF result.kind \in {"exception", "numeric"} THEN "raised"
                 ELSE IF fwd[t].prior # None THEN "compare" ELSE "record"
           f == [e EXCEPT !.executed = @ + 1, !.result = result, !.pc = pc]
<1>1. e \in Forwards /\ ForwardOK(e, stored, revoked) /\ e.pc = "call"
  BY Going DEF IInv, Execute, At
<1>2. /\ e.executed = 0 /\ e.matches = "none" /\ e.receipt = None
      /\ e.call.op = "forward"
  BY <1>1 DEF ForwardOK
<1>3. /\ pc \in {"raised", "compare", "record"}
      /\ pc = "compare" => e.prior # None
      /\ pc \in {"compare", "record"} => result \in Ordinary
  BY DEF ToolResults, Returned, Ordinary
<1>4. fwd' = [fwd EXCEPT ![t] = f] /\ UNCHANGED <<storeVars, index, started>>
  BY DEF Execute
<1> HIDE DEF pc
<1>5. /\ f \in Forwards
      /\ f.pc = pc /\ f.decision = e.decision /\ f.prior = e.prior
      /\ f.known = e.known /\ f.call = e.call /\ f.executed = 1
      /\ f.result = result /\ f.matches = e.matches /\ f.receipt = e.receipt
  <2>1. e.executed + 1 = 1 /\ 1 \in 0..1
    BY <1>2
  <2>2. f = [e EXCEPT !.executed = 1, !.result = result, !.pc = pc]
    BY <2>1
  <2> HIDE DEF e, f
  <2>3. f \in Forwards
    BY <1>1, <1>3, <2>1, <2>2 DEF Forwards, Steps
  <2> QED
    BY <1>1, <2>2, <2>3 DEF Forwards
<1>6. Ordinary \subseteq Returned
  BY DEF Ordinary, Returned
<1> HIDE DEF f, e
<1>7. ForwardOK(f, stored, revoked)
  BY <1>1, <1>2, <1>3, <1>5, <1>6 DEF ForwardOK, Executions
<1> QED
  BY <1>4, <1>5, <1>7, OnlyForwardMoves

\* A mismatch that is none is a revocation: the prior receipt is in the store.
LEMMA ComparePreserves ==
    ASSUME IInv, NEW t \in Threads, Compare(t)
    PROVE  IInv'
<1> DEFINE e == fwd[t]
<1>1. e \in Forwards /\ ForwardOK(e, stored, revoked) /\ e.pc = "compare"
  BY Going DEF IInv, Compare, At
<1>2. PICK found \in BOOLEAN :
         /\ ~found => MayMiss(e.prior, stored, revoked, sqlite)
         /\ fwd' = [fwd EXCEPT ![t].pc = "record",
                      ![t].matches = IF found /\ e.prior.result_digest = e.result.digest
                                     THEN "yes" ELSE "no"]
  BY DEF Compare
<1> DEFINE matches == IF found /\ e.prior.result_digest = e.result.digest
                      THEN "yes" ELSE "no"
           f == [e EXCEPT !.pc = "record", !.matches = matches]
<1>3. e.prior \in stored /\ e.result \in Ordinary /\ e.receipt = None
      /\ e.executed = Executions(e.call)
  BY <1>1 DEF ForwardOK
<1>4. /\ matches \in {"yes", "no"}
      /\ matches = "yes" => e.prior.result_digest = e.result.digest
      /\ matches = "no" => e.prior.result_digest # e.result.digest \/ e.prior \in revoked
  BY <1>2, <1>3 DEF MayMiss
<1>5. fwd' = [fwd EXCEPT ![t] = f] /\ UNCHANGED <<storeVars, index, started>>
  BY <1>2 DEF Compare
<1> HIDE DEF matches
<1>6. /\ f \in Forwards
      /\ f.pc = "record" /\ f.decision = e.decision /\ f.prior = e.prior
      /\ f.known = e.known /\ f.call = e.call /\ f.executed = e.executed
      /\ f.result = e.result /\ f.matches = matches /\ f.receipt = e.receipt
  BY <1>1, <1>4 DEF Forwards, Steps
<1>7. Ordinary \subseteq Returned
  BY DEF Ordinary, Returned
<1> HIDE DEF f, e
<1>8. ForwardOK(f, stored, revoked)
  BY <1>1, <1>3, <1>4, <1>6, <1>7 DEF ForwardOK
<1> QED
  BY <1>5, <1>6, <1>8, OnlyForwardMoves

\* What observe_tools_call decides reuses nothing.
LEMMA ObservedIsHarmless ==
    ASSUME IInv, NEW t \in Threads, fwd[t].pc # "idle",
           NEW verdict \in DecisionTypes, verdict.state # "REUSABLE_EXACT",
           verdict.reason # "receipt not found"
    PROVE  LET d == Observed(t, verdict) IN
           /\ d \in DecisionTypes
           /\ d.reason # "receipt not found"
           /\ d.state = "REUSABLE_EXACT" => d = fwd[t].decision
<1>1. fwd[t] \in Forwards /\ ForwardOK(fwd[t], stored, revoked)
  BY Going DEF IInv
<1>2. fwd[t].decision \in DecisionTypes /\ fwd[t].decision.reason # "receipt not found"
  BY <1>1 DEF Forwards, ForwardOK, DecisionTypes, ProxyReasons
<1> QED
  BY <1>2 DEF Observed

\* The two verdicts of observe_tools_call.
LEMMA ObservationVerdicts ==
    \A verdict \in {Verdict("UNSAFE", "ineligible MCP result"),
                    Verdict("UNKNOWN", "receipt recorded")} :
        /\ verdict \in DecisionTypes
        /\ verdict.state # "REUSABLE_EXACT"
        /\ verdict.reason # "receipt not found"
<1>1. /\ "UNSAFE" \in DecisionStates \cup {"undecided"}
      /\ "UNKNOWN" \in DecisionStates \cup {"undecided"}
      /\ "ineligible MCP result" \in ProxyReasons /\ "receipt recorded" \in ProxyReasons
  BY DEF DecisionStates, ProxyReasons
<1> QED
  BY <1>1, VerdictTypes

\* A result that is not recorded leaves store and index alone.
LEMMA SkipPreserves ==
    ASSUME IInv, NEW t \in Threads, Skip(t)
    PROVE  IInv'
<1> DEFINE e == fwd[t]
           d == Observed(t, Verdict("UNSAFE", "ineligible MCP result"))
           f == [e EXCEPT !.pc = "returned", !.decision = d]
<1>1. e \in Forwards /\ ForwardOK(e, stored, revoked) /\ e.pc = "record"
  BY Going DEF IInv, Skip, At
<1>2. /\ d \in DecisionTypes /\ d.reason # "receipt not found"
      /\ d.state = "REUSABLE_EXACT" => d = e.decision
  BY <1>1, ObservedIsHarmless, ObservationVerdicts
<1>3. fwd' = [fwd EXCEPT ![t] = f] /\ UNCHANGED <<storeVars, index, started>>
  BY DEF Skip
<1> HIDE DEF d
<1>4. /\ f \in Forwards
      /\ f.pc = "returned" /\ f.decision = d /\ f.prior = e.prior
      /\ f.known = e.known /\ f.call = e.call /\ f.executed = e.executed
      /\ f.result = e.result /\ f.matches = e.matches /\ f.receipt = e.receipt
  <2> HIDE DEF e
  <2>1. f \in Forwards
    BY <1>1, <1>2 DEF Forwards, Steps, DecisionTypes, ProxyReasons
  <2> QED
    BY <1>1, <2>1 DEF Forwards
<1> HIDE DEF f, e
<1>5. ForwardOK(f, stored, revoked)
  BY <1>1, <1>2, <1>4 DEF ForwardOK
<1> QED
  BY <1>3, <1>4, <1>5, OnlyForwardMoves

\* Where a call raises, it owes nothing more.
LEMMA RaisingPreserves ==
    ASSUME IInv, NEW t \in Threads, fwd[t].pc # "idle", Move(t, "raised"),
           UNCHANGED <<storeVars, index, started>>
    PROVE  IInv'
<1> DEFINE e == fwd[t]
           f == [e EXCEPT !.pc = "raised"]
<1>1. e \in Forwards /\ ForwardOK(e, stored, revoked)
  BY Going DEF IInv
<1>2. fwd' = [fwd EXCEPT ![t] = f]
  BY DEF Move
<1>3. /\ f \in Forwards
      /\ f.pc = "raised" /\ f.decision = e.decision /\ f.prior = e.prior
      /\ f.known = e.known /\ f.call = e.call
      /\ f.result = e.result /\ f.matches = e.matches /\ f.receipt = e.receipt
  BY <1>1 DEF Forwards, Steps
<1> HIDE DEF f, e
<1>4. ForwardOK(f, stored, revoked)
  BY <1>1, <1>3 DEF ForwardOK
<1> QED
  BY <1>2, <1>3, <1>4, OnlyForwardMoves

\* The put: the receipt that the index is about to name is in the store.
LEMMA RecordPreserves ==
    ASSUME IInv, NEW t \in Threads, NEW time \in Times, Record(t, time)
    PROVE  IInv'
<1> DEFINE e == fwd[t]
           receipt == ReceiptFor(fwd[t].call, fwd[t].result, time)
           f == [e EXCEPT !.pc = "index", !.receipt = receipt]
<1>1. e \in Forwards /\ ForwardOK(e, stored, revoked) /\ e.pc = "record"
  BY Going DEF IInv, Record, At
<1>2. /\ ReadOnly(e.call.action) /\ e.result \in Ordinary
      /\ e.result.kind \in {"ok", "wrapped error"}
  <2>1. e.result \in Returned
    BY <1>1 DEF ForwardOK
  <2>2. ReadOnly(e.call.action) /\ e.result.kind \notin {"error", "numeric"}
    BY DEF Record, Recordable, Eligible
  <2> QED
    BY <2>1, <2>2 DEF Returned, Ordinary
<1>3. e.call \in Calls
  BY <1>1 DEF Forwards
<1>4. receipt \in Receipts /\ receipt.action = e.call.action
  BY <1>2, <1>3, RecordedReceipt
<1>5. /\ fwd' = [fwd EXCEPT ![t] = f] /\ stored' = stored \cup {receipt}
      /\ UNCHANGED <<sqlite, revoked, index, started>>
  BY DEF Record
<1> HIDE DEF receipt
<1>6. /\ f \in Forwards
      /\ f.pc = "index" /\ f.decision = e.decision /\ f.prior = e.prior
      /\ f.known = e.known /\ f.call = e.call /\ f.executed = e.executed
      /\ f.result = e.result /\ f.matches = e.matches /\ f.receipt = receipt
  <2> HIDE DEF e
  <2>1. f \in Forwards
    BY <1>1, <1>4 DEF Forwards, Steps
  <2> QED
    BY <1>1, <2>1 DEF Forwards
<1> HIDE DEF f, e
<1>7. ForwardOK(f, stored', revoked')
  <2>1. ForwardOK(e, stored', revoked)
    BY <1>1, <1>5, ForwardOKGrows
  <2> QED
    BY <1>1, <1>2, <1>4, <1>5, <1>6, <2>1 DEF ForwardOK
<1>8. StoredReads' /\ IndexIsBacked'
  BY <1>2, <1>4, <1>5 DEF IInv, StoredReads, IndexIsBacked
<1>9. /\ stored' \subseteq Receipts /\ index' \in [Actions -> Receipts \cup {None}]
      /\ started' \in 0..MaxCalls /\ stored \subseteq stored'
  BY <1>4, <1>5 DEF IInv, TypeOK
<1> QED
  BY <1>5, <1>6, <1>7, <1>8, <1>9, OneForwardMoves

\* The index entry: only now does it name the receipt.
LEMMA IndexPreserves ==
    ASSUME IInv, NEW t \in Threads, Index(t)
    PROVE  IInv'
<1> DEFINE e == fwd[t]
           d == Observed(t, Verdict("UNKNOWN", "receipt recorded"))
           f == [e EXCEPT !.pc = "returned", !.decision = d]
<1>1. e \in Forwards /\ ForwardOK(e, stored, revoked) /\ e.pc = "index"
  BY Going DEF IInv, Index, At
<1>2. /\ d \in DecisionTypes /\ d.reason # "receipt not found"
      /\ d.state = "REUSABLE_EXACT" => d = e.decision
  BY <1>1, ObservedIsHarmless, ObservationVerdicts
<1>3. /\ fwd' = [fwd EXCEPT ![t] = f] /\ UNCHANGED <<storeVars, started>>
      /\ index' = [index EXCEPT ![e.call.action] = e.receipt]
  BY DEF Index
<1>4. e.receipt \in stored /\ e.receipt.action = e.call.action
  BY <1>1 DEF ForwardOK
<1>5. e.call.action \in Actions
  BY <1>1 DEF Forwards, Actions
<1> HIDE DEF d
<1>6. /\ f \in Forwards
      /\ f.pc = "returned" /\ f.decision = d /\ f.prior = e.prior
      /\ f.known = e.known /\ f.call = e.call /\ f.executed = e.executed
      /\ f.result = e.result /\ f.matches = e.matches /\ f.receipt = e.receipt
  <2> HIDE DEF e
  <2>1. f \in Forwards
    BY <1>1, <1>2 DEF Forwards, Steps, DecisionTypes, ProxyReasons
  <2> QED
    BY <1>1, <2>1 DEF Forwards
<1> HIDE DEF f, e
<1>7. ForwardOK(f, stored, revoked)
  BY <1>1, <1>2, <1>6 DEF ForwardOK
<1>8. /\ stored' = stored /\ revoked' = revoked /\ sqlite' = sqlite /\ started' = started
  BY <1>3 DEF storeVars
<1>9. IndexIsBacked' /\ index' \in [Actions -> Receipts \cup {None}]
  <2>1. index \in [Actions -> Receipts \cup {None}] /\ stored \subseteq Receipts
    BY DEF IInv, TypeOK
  <2>2. ASSUME NEW action \in Actions, index'[action] # None
        PROVE  index'[action] \in stored /\ index'[action].action = action
    BY <1>3, <1>4, <1>5, <2>1, <2>2 DEF IInv, IndexIsBacked
  <2> QED
    BY <1>3, <1>4, <1>5, <1>8, <2>1, <2>2 DEF IndexIsBacked
<1>10. StoredReads'
  BY <1>8 DEF IInv, StoredReads
<1> QED
  BY <1>3, <1>6, <1>7, <1>8, <1>9, <1>10, OneForwardMoves DEF IInv, TypeOK

\* A call that returns takes nothing with it.
LEMMA ReturnPreserves ==
    ASSUME IInv, NEW t \in Threads, Return(t)
    PROVE  IInv'
<1>1. /\ stored' = stored /\ revoked' = revoked /\ sqlite' = sqlite
      /\ index' = index /\ started' = started
  BY DEF Return, storeVars
<1>2. StoredReads' /\ IndexIsBacked'
  BY <1>1 DEF IInv, StoredReads, IndexIsBacked
<1>3. fwd' = [fwd EXCEPT ![t] = Resting] /\ Resting.pc = "idle"
  BY DEF Return, Resting
<1> QED
  BY <1>1, <1>2, <1>3, OneForwardMoves DEF IInv, TypeOK

\* A revocation takes nothing from any call.
LEMMA RevokePreserves ==
    ASSUME IInv, NEW r \in Receipts, Revoke(r)
    PROVE  IInv'
<1>1. TypeOK' /\ IndexIsBacked' /\ StoredReads'
  BY DEF IInv, TypeOK, IndexIsBacked, StoredReads, Revoke
<1>2. ASSUME NEW t \in Threads, fwd'[t].pc # "idle"
      PROVE  ForwardOK(fwd'[t], stored', revoked')
  BY <1>2, ForwardOKGrows DEF IInv, Revoke
<1> QED
  BY <1>1, <1>2 DEF IInv

\* A restart ends all calls, and the index goes before the store can.
LEMMA RestartPreserves ==
    ASSUME IInv, Restart
    PROVE  IInv'
<1>1. TypeOK'
  BY DEF IInv, TypeOK, Restart
<1>2. IndexIsBacked' /\ StoredReads'
  BY DEF IInv, IndexIsBacked, StoredReads, Restart
<1>3. ASSUME NEW t \in Threads PROVE fwd'[t].pc = "idle"
  BY DEF Restart, Resting
<1> QED
  BY <1>1, <1>2, <1>3 DEF IInv

\* Every step preserves the invariant.
LEMMA InductiveNext == IInv /\ [Next]_vars => IInv'
<1> SUFFICES ASSUME IInv, [Next]_vars PROVE IInv'
  OBVIOUS
<1>1. ASSUME NEW t \in Threads, Step(t) PROVE IInv'
  <2>1. CASE Unhashable(t)
    BY <2>1, RaisingPreserves DEF Unhashable, At
  <2>2. CASE StoreRaises(t)
    <3>1. fwd[t].pc # "idle"
      BY <2>2 DEF StoreRaises, At
    <3> QED
      BY <2>2, <3>1, RaisingPreserves DEF StoreRaises
  <2> QED
    BY <1>1, <2>1, <2>2, GetPreserves, AbsentPreserves, CheckPreserves, ComparePreserves,
       SkipPreserves, IndexPreserves, ExecutePreserves, RecordPreserves, ReturnPreserves
    DEF Step
<1>2. ASSUME NEW t \in Threads, NEW call \in Calls, Refuse(t, call) PROVE IInv'
  BY <1>2, RefusePreserves
<1>3. ASSUME NEW t \in Threads, NEW call \in Calls, LookUp(t, call) PROVE IInv'
  BY <1>3, LookUpPreserves
<1>4. ASSUME NEW t \in Threads, NEW call \in Calls, NEW result \in Returned,
             Observe(t, call, result)
      PROVE  IInv'
  BY <1>4, ObservePreserves
<1>5. ASSUME NEW r \in Receipts, Revoke(r) PROVE IInv'
  BY <1>5, RevokePreserves
<1>6. CASE Restart
  BY <1>6, RestartPreserves
<1>7. CASE UNCHANGED vars
  BY <1>7 DEF vars, storeVars, IInv, TypeOK, IndexIsBacked, StoredReads
<1> QED
  BY <1>1, <1>2, <1>3, <1>4, <1>5, <1>6, <1>7 DEF Next

-----------------------------------------------------------------------------
(* The theorems *)

\* The inductive invariant holds in every reachable state.
THEOREM Invariance == Spec => []IInv
BY InductiveInit, InductiveNext, PTL DEF Spec

\* Every variable keeps its type.
THEOREM TypeCorrect == Spec => []TypeOK
<1>1. IInv => TypeOK
  BY DEF IInv
<1> QED
  BY <1>1, Invariance, PTL

\* The index names only receipts that the store has, of the action it is asked
\* for (mcp_shadow.py:161-162), for any number of threads.
THEOREM IndexBacked == Spec => []IndexIsBacked
<1>1. IInv => IndexIsBacked
  BY DEF IInv
<1> QED
  BY <1>1, Invariance, PTL

\* An indexed receipt is never reported as not found (mcp_shadow.py:192-197).
THEOREM PriorFound == Spec => []PriorIsAlwaysFound
<1>1. IInv => PriorIsAlwaysFound
  BY DEF IInv, ForwardOK, PriorIsAlwaysFound
<1> QED
  BY <1>1, Invariance, PTL

\* "would_reuse" has all of its evidence, and no revocation from before the
\* call is overlooked (mcp_shadow.py:170-197).
THEOREM WouldReuseJustified == Spec => []WouldReuseIsJustified
<1>1. IInv => WouldReuseIsJustified
  BY DEF IInv, ForwardOK, WouldReuseIsJustified
<1> QED
  BY <1>1, Invariance, PTL

\* What is reported of the comparison is so (mcp_shadow.py:233-236).
THEOREM ComparisonHonest == Spec => []ComparisonIsHonest
<1>1. IInv => ComparisonIsHonest
  BY DEF IInv, ForwardOK, ComparisonIsHonest
<1> QED
  BY <1>1, Invariance, PTL

\* A forward that returns has executed the tool exactly once, whatever it
\* decided; the other methods never do (mcp_shadow.py:226).
THEOREM ExecutedOnce == Spec => []ReturnedMeansExecutedOnce
<1>1. ASSUME IInv, NEW t \in Threads
      PROVE  /\ At(t, "returned") =>
                   fwd[t].executed = IF fwd[t].call.op = "forward" THEN 1 ELSE 0
             /\ At(t, "raised") => fwd[t].executed \in 0..1
  <2>1. CASE fwd[t].pc = "idle"
    BY <2>1 DEF At
  <2>2. CASE fwd[t].pc # "idle"
    <3>1. fwd[t] \in Forwards /\ ForwardOK(fwd[t], stored, revoked)
      BY <1>1, <2>2, Going DEF IInv
    <3> QED
      BY <3>1 DEF Forwards, ForwardOK, Executions, At
  <2> QED
    BY <2>1, <2>2
<1>2. IInv => ReturnedMeansExecutedOnce
  BY <1>1 DEF ReturnedMeansExecutedOnce
<1> QED
  BY <1>2, Invariance, PTL

\* Nothing is recorded of a side effect, nor of a result that says by itself
\* that it failed (mcp_shadow.py:94-96, 145).
THEOREM EligibleRecorded == Spec => []OnlyEligibleCallsAreRecorded
<1>1. IInv => OnlyEligibleCallsAreRecorded
  BY DEF IInv, StoredReads, ForwardOK, OnlyEligibleCallsAreRecorded
<1> QED
  BY <1>1, Invariance, PTL
=============================================================================
