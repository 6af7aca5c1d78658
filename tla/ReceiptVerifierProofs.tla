------------------------ MODULE ReceiptVerifierProofs ------------------------
(***************************************************************************)
(* What ReceiptVerifier guarantees for every set of consumers, actions,    *)
(* receipts, policies and results and for either backend: reuse has all of *)
(* its evidence, and revocations made before an evaluation decide it.      *)
(***************************************************************************)
EXTENDS ReceiptVerifier, ReuseDecisionProofs

(* The inductive invariant *)

\* What an evaluation e has established when the receipts in gone have been
\* revoked.  While the validator runs, everything but its answer is there;
\* with the decision, everything is.
EvaluationOK(e, gone) ==
    /\ e.pc # "idle" /\ e.known => e.receipt \in gone
    /\ e.pc = "validate" =>
          ReuseEvidence(e.condition, e.known, e.action, e.receipt, e.policy, e.available,
                        "pass")
    /\ e.pc = "done" =>
          /\ e.decision.state = "REUSABLE_EXACT" =>
                ReuseEvidence(e.condition, e.known, e.action, e.receipt, e.policy,
                              e.available, e.outcome)
          /\ e.known /\ e.condition = "intact" => e.decision.state \in {"REVOKED", "raised"}
          /\ e.decision.state = "REVOKED" =>
                e.receipt \in gone \/ e.receipt.revocation_ref # None

IInv == TypeOK /\ \A p \in Consumers : EvaluationOK(eval[p], revoked)

\* At first nobody evaluates, and the invariant holds.
LEMMA InductiveInit == Init => IInv
BY DEF Init, IInv, TypeOK, EvaluationOK, Resting

\* An evaluation that has begun is no resting one.
LEMMA Begun ==
    ASSUME TypeOK, NEW p \in Consumers, eval[p].pc # "idle"
    PROVE  eval[p] \in Evaluations
BY DEF TypeOK, Resting

\* A step of one consumer that leaves its evaluation in order keeps the
\* invariant: the store and the other evaluations are as before.
LEMMA OneEvaluationMoves ==
    ASSUME IInv, NEW p \in Consumers, NEW e \in {Resting} \cup Evaluations,
           EvaluationOK(e, revoked), eval' = [eval EXCEPT ![p] = e], UNCHANGED storeVars
    PROVE  IInv'
<1>1. TypeOK'
  BY DEF IInv, TypeOK, storeVars
<1>2. ASSUME NEW q \in Consumers PROVE EvaluationOK(eval'[q], revoked')
  <2>1. eval'[q] = IF q = p THEN e ELSE eval[q]
    BY DEF IInv, TypeOK
  <2> QED
    BY <2>1 DEF IInv, storeVars
<1> QED
  BY <1>1, <1>2 DEF IInv

\* A step that decides.
LEMMA Decides ==
    ASSUME IInv, NEW p \in Consumers, eval[p].pc # "idle", UNCHANGED storeVars,
           NEW verdict \in [state : DecisionStates \cup {"undecided", "raised"},
                            reason : Reasons],
           Decide(p, verdict),
           verdict.state = "REUSABLE_EXACT" =>
                ReuseEvidence(eval[p].condition, eval[p].known, eval[p].action,
                              eval[p].receipt, eval[p].policy, eval[p].available,
                              eval[p].outcome),
           eval[p].receipt \in revoked /\ eval[p].condition = "intact"
                => verdict.state \in {"REVOKED", "raised"},
           verdict.state = "REVOKED" =>
                eval[p].receipt \in revoked \/ eval[p].receipt.revocation_ref # None
    PROVE  IInv'
<1> DEFINE e == [eval[p] EXCEPT !.pc = "done", !.decision = verdict]
<1>1. eval[p] \in Evaluations
  BY Begun DEF IInv
<1>2. e \in Evaluations
  BY <1>1 DEF Evaluations, Steps
<1>3. EvaluationOK(eval[p], revoked)
  BY DEF IInv
<1>4. /\ e.pc = "done" /\ e.decision = verdict /\ e.known = eval[p].known
      /\ e.receipt = eval[p].receipt /\ e.condition = eval[p].condition
      /\ e.action = eval[p].action /\ e.policy = eval[p].policy
      /\ e.available = eval[p].available /\ e.outcome = eval[p].outcome
  BY <1>1 DEF Evaluations
<1>5. EvaluationOK(e, revoked)
  <2> HIDE DEF e
  <2> QED
    BY <1>3, <1>4 DEF EvaluationOK
<1>6. eval' = [eval EXCEPT ![p] = e]
  BY DEF Decide
<1> HIDE DEF e
<1> QED
  BY <1>2, <1>5, <1>6, OneEvaluationMoves

\* A step that goes on to a place where nothing needs to be established yet.
LEMMA GoesOn ==
    ASSUME IInv, NEW p \in Consumers, eval[p].pc # "idle", UNCHANGED storeVars,
           NEW pc \in {"check", "absent"}, eval' = [eval EXCEPT ![p] = [@ EXCEPT !.pc = pc]]
    PROVE  IInv'
<1> DEFINE e == [eval[p] EXCEPT !.pc = pc]
<1>1. eval[p] \in Evaluations
  BY Begun DEF IInv
<1>2. e \in Evaluations
  BY <1>1 DEF Evaluations, Steps
<1>3. EvaluationOK(eval[p], revoked)
  BY DEF IInv
<1>4. e.pc = pc /\ e.known = eval[p].known /\ e.receipt = eval[p].receipt
  BY <1>1 DEF Evaluations
<1>5. EvaluationOK(e, revoked)
  <2> HIDE DEF e
  <2> QED
    BY <1>3, <1>4 DEF EvaluationOK
<1> HIDE DEF e
<1>6. eval' = [eval EXCEPT ![p] = e]
  BY DEF e
<1> QED
  BY <1>2, <1>5, <1>6, OneEvaluationMoves

\* Decides takes any verdict, and the failure of a store call.
LEMMA Deliverable ==
    /\ Verdicts \subseteq [state : DecisionStates \cup {"undecided", "raised"}, reason : Reasons]
    /\ Verdict("raised", "store failure")
          \in [state : DecisionStates \cup {"undecided", "raised"}, reason : Reasons]
    /\ Verdict("raised", "store failure").state = "raised"
BY DEF Verdicts, Verdict, Reasons

\* A new evaluation has established nothing and owes nothing yet.
LEMMA BeginningPreserves ==
    ASSUME IInv, NEW p \in Consumers, NEW action \in Actions, NEW r \in Receipts,
           NEW policy \in Policies, NEW available \in Results \cup {None},
           NEW hasValidator \in BOOLEAN, NEW condition \in Conditions,
           NEW source \in {"digest", "object"}, UNCHANGED storeVars,
           eval' = [eval EXCEPT ![p] =
              InProgress(source, action, r, policy, available, hasValidator, condition)]
    PROVE  IInv'
<1> DEFINE e == InProgress(source, action, r, policy, available, hasValidator, condition)
<1>1. Undecided \in [state : DecisionStates \cup {"undecided", "raised"}, reason : Reasons]
  BY Handovers, Deliverable
<1>2. /\ (r \in revoked) \in BOOLEAN
      /\ (source = "object" \/ r \in readable) \in BOOLEAN
  OBVIOUS
<1>3. e \in Evaluations
  BY <1>1, <1>2 DEF InProgress, Evaluations, Steps
<1>4. e.pc \in {"get", "check"} /\ e.known = (r \in revoked) /\ e.receipt = r
  BY DEF InProgress
<1>5. EvaluationOK(e, revoked)
  <2> HIDE DEF e
  <2> QED
    BY <1>4 DEF EvaluationOK
<1> HIDE DEF e
<1>6. eval' = [eval EXCEPT ![p] = e]
  BY DEF e
<1> QED
  BY <1>3, <1>5, <1>6, OneEvaluationMoves

\* What an evaluation has established survives further revocations.
LEMMA RevokePreserves ==
    ASSUME IInv, NEW r \in Receipts, Revoke(r)
    PROVE  IInv'
<1>1. TypeOK'
  BY DEF IInv, TypeOK, Revoke
<1>2. ASSUME NEW p \in Consumers PROVE EvaluationOK(eval[p], revoked')
  <2>1. EvaluationOK(eval[p], revoked) /\ revoked \subseteq revoked'
    BY DEF IInv, Revoke
  <2> QED
    BY <2>1 DEF EvaluationOK
<1> QED
  BY <1>1, <1>2 DEF IInv, Revoke

\* Damage to the stored copy touches only what is recorded of it.
LEMMA DamagePreserves ==
    ASSUME IInv, NEW r \in Receipts, Damage(r)
    PROVE  IInv'
<1>1. ASSUME NEW p \in Consumers
      PROVE  eval'[p] \in {Resting} \cup Evaluations /\ EvaluationOK(eval'[p], revoked)
  <2>1. eval[p] \in {Resting} \cup Evaluations /\ EvaluationOK(eval[p], revoked)
    BY DEF IInv, TypeOK
  <2>2. CASE eval'[p] = eval[p]
    BY <2>1, <2>2
  <2>3. CASE eval[p].pc # "idle" /\ eval'[p] = [eval[p] EXCEPT !.present = FALSE]
    <3>1. eval[p] \in Evaluations
      BY <2>3, Begun DEF IInv
    <3>2. eval'[p] \in Evaluations
      BY <2>3, <3>1 DEF Evaluations
    <3>3. /\ eval'[p].pc = eval[p].pc /\ eval'[p].known = eval[p].known
          /\ eval'[p].receipt = eval[p].receipt /\ eval'[p].condition = eval[p].condition
          /\ eval'[p].action = eval[p].action /\ eval'[p].policy = eval[p].policy
          /\ eval'[p].available = eval[p].available /\ eval'[p].outcome = eval[p].outcome
          /\ eval'[p].decision = eval[p].decision
      BY <2>3, <3>1 DEF Evaluations
    <3>4. EvaluationOK(eval'[p], revoked)
      BY <2>1, <3>3 DEF EvaluationOK
    <3> QED
      BY <3>2, <3>4
  <2> QED
    BY <2>2, <2>3 DEF Damage
<1>2. eval' \in [Consumers -> {Resting} \cup Evaluations]
  <2>1. eval' = [p \in Consumers |-> eval'[p]]
    BY DEF Damage
  <2> QED
    BY <1>1, <2>1
<1>3. TypeOK'
  BY <1>2 DEF IInv, TypeOK, Damage
<1> QED
  BY <1>1, <1>3 DEF IInv, Damage

\* evaluate decides on what is_revoked answers now: whatever was revoked when
\* the call began still is.
LEMMA CheckPreserves ==
    ASSUME IInv, NEW p \in Consumers, Check(p)
    PROVE  IInv'
<1> DEFINE e == eval[p]
           v == CheckVerdict(eval[p])
           isRevoked == eval[p].receipt \in revoked
<1>1. e \in Evaluations /\ e.pc = "check" /\ EvaluationOK(e, revoked)
  BY Begun DEF IInv, Check, At
<1>2. /\ e.condition \in Conditions /\ e.receipt \in Receipts /\ e.known \in BOOLEAN
      /\ isRevoked \in BOOLEAN
  BY <1>1 DEF Evaluations
<1>3. e.known => isRevoked
  BY <1>1 DEF EvaluationOK
<1>4. e.receipt.reuse_class \in {"EXACT", "VERIFIED", "ADVISORY", "UNSAFE"}
  BY <1>2, ReceiptsHaveClasses
<1>5. /\ v \in Verdicts
      /\ v.state = "REUSABLE_EXACT" =>
            ReuseEvidence(e.condition, isRevoked, e.action, e.receipt, e.policy,
                          e.available, e.outcome)
      /\ v = NeedsValidator =>
            ReuseEvidence(e.condition, isRevoked, e.action, e.receipt, e.policy,
                          e.available, "pass")
      /\ v.state = "REVOKED" => isRevoked \/ e.receipt.revocation_ref # None
      /\ isRevoked /\ e.condition = "intact" => v.state = "REVOKED"
  <2>1. v = UpToValidator(e.condition, isRevoked, e.action, e.receipt, e.policy,
                          e.available, e.hasValidator)
    BY DEF CheckVerdict
  <2> HIDE DEF v, e, isRevoked
  <2>2. /\ v \in Verdicts
        /\ v.state = "REUSABLE_EXACT" => \A outcome :
              ReuseEvidence(e.condition, isRevoked, e.action, e.receipt, e.policy,
                            e.available, outcome)
        /\ v = NeedsValidator =>
              ReuseEvidence(e.condition, isRevoked, e.action, e.receipt, e.policy,
                            e.available, "pass")
        /\ v.state = "REVOKED" => isRevoked \/ e.receipt.revocation_ref # None
        /\ isRevoked /\ e.condition = "intact" => v.state = "REVOKED"
    BY <1>2, <1>4, <2>1, ChecksAreSound
  <2> QED
    BY <2>2
<1>6. ASSUME NEW outcome,
             ReuseEvidence(e.condition, isRevoked, e.action, e.receipt, e.policy,
                           e.available, outcome)
      PROVE  ReuseEvidence(e.condition, e.known, e.action, e.receipt, e.policy,
                           e.available, outcome)
  BY <1>2, <1>3, <1>6 DEF ReuseEvidence
<1>7. CASE v = NeedsValidator
  <2> DEFINE f == [eval[p] EXCEPT !.pc = "validate"]
  <2>1. f \in Evaluations
    BY <1>1 DEF Evaluations, Steps
  <2>2. /\ f.pc = "validate" /\ f.known = e.known /\ f.receipt = e.receipt
        /\ f.condition = e.condition /\ f.action = e.action /\ f.policy = e.policy
        /\ f.available = e.available
    BY <1>1 DEF Evaluations
  <2>3. ReuseEvidence(e.condition, e.known, e.action, e.receipt, e.policy, e.available, "pass")
    BY <1>5, <1>6, <1>7
  <2>4. eval' = [eval EXCEPT ![p] = f] /\ UNCHANGED storeVars
    BY <1>7 DEF Check
  <2> HIDE DEF f
  <2>5. EvaluationOK(f, revoked)
    BY <1>1, <2>2, <2>3 DEF EvaluationOK
  <2> QED
    BY <2>1, <2>4, <2>5, OneEvaluationMoves
<1>8. CASE v # NeedsValidator
  <2>1. Decide(p, v) /\ UNCHANGED storeVars
    BY <1>8 DEF Check
  <2>2. v \in [state : DecisionStates \cup {"undecided", "raised"}, reason : Reasons]
    BY <1>5, Deliverable
  <2>3. v.state = "REUSABLE_EXACT" =>
            ReuseEvidence(e.condition, e.known, e.action, e.receipt, e.policy,
                          e.available, e.outcome)
    BY <1>5, <1>6
  <2>4. /\ isRevoked /\ e.condition = "intact" => v.state \in {"REVOKED", "raised"}
        /\ v.state = "REVOKED" => isRevoked \/ e.receipt.revocation_ref # None
        /\ e.pc # "idle"
    BY <1>1, <1>5
  <2> HIDE DEF v
  <2> QED
    BY <2>1, <2>2, <2>3, <2>4, Decides
<1> QED
  BY <1>7, <1>8

\* Nothing is read after the validator: the evidence gathered before it and
\* its answer make the decision.
LEMMA ValidatePreserves ==
    ASSUME IInv, NEW p \in Consumers, NEW outcome \in Outcomes, Validate(p, outcome)
    PROVE  IInv'
<1> DEFINE e == eval[p]
           f == [eval[p] EXCEPT !.pc = "done", !.outcome = outcome,
                                !.decision = Validated(outcome)]
<1>1. e \in Evaluations /\ e.pc = "validate" /\ EvaluationOK(e, revoked)
  BY Begun DEF IInv, Validate, At
<1>2. /\ Validated(outcome) \in Verdicts
      /\ Validated(outcome).state # "REVOKED"
      /\ Validated(outcome).state = "REUSABLE_EXACT" => outcome = "pass"
  BY ValidatedIsSound
<1>3. Validated(outcome)
         \in [state : DecisionStates \cup {"undecided", "raised"}, reason : Reasons]
  BY <1>2, Deliverable
<1>4. f \in Evaluations
  BY <1>1, <1>3 DEF Evaluations, Steps
<1>5. /\ f.pc = "done" /\ f.known = e.known /\ f.receipt = e.receipt
      /\ f.condition = e.condition /\ f.action = e.action /\ f.policy = e.policy
      /\ f.available = e.available /\ f.outcome = outcome
      /\ f.decision = Validated(outcome)
  BY <1>1 DEF Evaluations
<1>6. /\ ReuseEvidence(e.condition, e.known, e.action, e.receipt, e.policy, e.available, "pass")
      /\ e.known => e.receipt \in revoked
  BY <1>1 DEF EvaluationOK
<1>7. ~e.known
  BY <1>6 DEF ReuseEvidence
<1>8. eval' = [eval EXCEPT ![p] = f] /\ UNCHANGED storeVars
  BY DEF Validate
<1> HIDE DEF f
<1>9. EvaluationOK(f, revoked)
  BY <1>2, <1>5, <1>6, <1>7 DEF EvaluationOK
<1> QED
  BY <1>4, <1>8, <1>9, OneEvaluationMoves

\* get found nothing: the answer is is_revoked's.
LEMMA AbsentPreserves ==
    ASSUME IInv, NEW p \in Consumers, Absent(p)
    PROVE  IInv'
<1> DEFINE isRevoked == eval[p].receipt \in revoked
<1>1. eval[p].pc # "idle" /\ UNCHANGED storeVars
  BY DEF Absent, At
<1>2. /\ "REVOKED" \in DecisionStates /\ "UNKNOWN" \in DecisionStates
      /\ "receipt revoked" \in Reasons /\ "receipt not found" \in Reasons
  BY DEF DecisionStates, Reasons
<1>3. CASE isRevoked
  <2> DEFINE v == Verdict("REVOKED", "receipt revoked")
  <2>1. Decide(p, v)
    BY <1>3 DEF Absent
  <2>2. v \in Verdicts /\ v.state = "REVOKED"
    BY <1>2, DecisionsDecide
  <2> HIDE DEF v
  <2> QED
    BY <1>1, <1>3, <2>1, <2>2, Decides, Deliverable
<1>4. CASE ~isRevoked
  <2> DEFINE v == Verdict("UNKNOWN", "receipt not found")
  <2>1. Decide(p, v)
    BY <1>4 DEF Absent
  <2>2. v \in Verdicts /\ v.state = "UNKNOWN"
    BY <1>2, DecisionsDecide
  <2> HIDE DEF v
  <2> QED
    BY <1>1, <1>4, <2>1, <2>2, Decides, Deliverable
<1> QED
  BY <1>3, <1>4

\* The remaining steps of a consumer.
LEMMA GetPreserves ==
    ASSUME IInv, NEW p \in Consumers, Get(p)
    PROVE  IInv'
<1>1. eval[p].pc # "idle" /\ UNCHANGED storeVars
  BY DEF Get, At
<1>2. \/ eval' = [eval EXCEPT ![p] = [@ EXCEPT !.pc = "check"]]
      \/ eval' = [eval EXCEPT ![p] = [@ EXCEPT !.pc = "absent"]]
  BY DEF Get
<1> QED
  BY <1>1, <1>2, GoesOn

\* An exception of the store ends the evaluation without a decision.
LEMMA StoreRaisesPreserves ==
    ASSUME IInv, NEW p \in Consumers, StoreRaises(p)
    PROVE  IInv'
<1> DEFINE v == Verdict("raised", "store failure")
<1>1. eval[p].pc # "idle" /\ UNCHANGED storeVars /\ Decide(p, v)
  BY DEF StoreRaises
<1>2. /\ v \in [state : DecisionStates \cup {"undecided", "raised"}, reason : Reasons]
      /\ v.state = "raised"
  BY Deliverable
<1> HIDE DEF v
<1> QED
  BY <1>1, <1>2, Decides

\* A consumer takes its decision and rests.
LEMMA ReturnPreserves ==
    ASSUME IInv, NEW p \in Consumers, Return(p)
    PROVE  IInv'
<1>1. EvaluationOK(Resting, revoked)
  BY DEF EvaluationOK, Resting
<1> QED
  BY <1>1, OneEvaluationMoves DEF Return

\* Every step preserves the invariant.
LEMMA InductiveNext == IInv /\ [Next]_vars => IInv'
<1> SUFFICES ASSUME IInv, [Next]_vars PROVE IInv'
  OBVIOUS
<1>1. ASSUME NEW r \in Receipts, Publish(r) PROVE IInv'
  BY <1>1 DEF Publish, IInv, TypeOK
<1>2. ASSUME NEW r \in Receipts, Revoke(r) PROVE IInv'
  BY <1>2, RevokePreserves
<1>3. ASSUME NEW r \in Receipts, Damage(r) PROVE IInv'
  BY <1>3, DamagePreserves
<1>4. ASSUME NEW p \in Consumers, Begin(p) PROVE IInv'
  <2>1. PICK action \in Actions, r \in Receipts, policy \in Policies,
             available \in Results \cup {None}, hasValidator \in BOOLEAN :
               \/ EvaluateDigest(p, action, r, policy, available, hasValidator)
               \/ \E condition \in Conditions :
                     Evaluate(p, action, r, policy, available, hasValidator, condition)
    BY <1>4 DEF Begin
  <2>2. CASE EvaluateDigest(p, action, r, policy, available, hasValidator)
    <3>1. "intact" \in Conditions
      BY DEF Conditions
    <3> QED
      BY <2>2, <3>1, BeginningPreserves DEF EvaluateDigest
  <2>3. ASSUME NEW condition \in Conditions,
               Evaluate(p, action, r, policy, available, hasValidator, condition)
        PROVE  IInv'
    BY <2>3, BeginningPreserves DEF Evaluate
  <2> QED
    BY <2>1, <2>2, <2>3
<1>5. ASSUME NEW p \in Consumers, Step(p) PROVE IInv'
  BY <1>5, GetPreserves, AbsentPreserves, CheckPreserves, StoreRaisesPreserves,
     ReturnPreserves, ValidatePreserves DEF Step
<1>6. CASE UNCHANGED vars
  BY <1>6 DEF vars, IInv, TypeOK
<1> QED
  BY <1>1, <1>2, <1>3, <1>4, <1>5, <1>6 DEF Next

-----------------------------------------------------------------------------
(* The theorems *)

\* The inductive invariant holds in every reachable state.
THEOREM Invariance == Spec => []IInv
BY InductiveInit, InductiveNext, PTL DEF Spec

\* Every variable keeps its type.
THEOREM TypeCorrect == Spec => []TypeOK
<1>1. IInv => TypeOK
  BY DEF IInv
<1> QED
  BY <1>1, Invariance, PTL

\* An automatic reuse has all of its evidence (protocol.py:686-804), whatever
\* the store did while the evaluation ran.
THEOREM ReuseJustified == Spec => []ReuseIsJustified
<1>1. IInv => ReuseIsJustified
  BY DEF IInv, EvaluationOK, ReuseIsJustified, Decided, At
<1> QED
  BY <1>1, Invariance, PTL

\* A revocation made before an evaluation began decides it
\* (protocol.py:674-678, 703), with either backend.
THEOREM RevocationHonoured == Spec => []RevocationIsHonoured
<1>1. IInv => RevocationIsHonoured
  BY DEF IInv, EvaluationOK, RevocationIsHonoured, At
<1> QED
  BY <1>1, Invariance, PTL

\* REVOKED is answered only for a receipt that is revoked, in the store or by
\* its own field (protocol.py:674-678, 703).
THEOREM RevokedExplained == Spec => []RevokedIsExplained
<1>1. IInv => RevokedIsExplained
  BY DEF IInv, EvaluationOK, RevokedIsExplained, Decided, At
<1> QED
  BY <1>1, Invariance, PTL

-----------------------------------------------------------------------------
(* Every decision is the table's *)

\* The decision of e is the table's for the store at one instant: revoked or
\* not as in isRevoked, the receipt readable or not as in found.
DocumentedAs(e, isRevoked, found) ==
    e.decision.state =
       IF found
       THEN FirstApplicable(ProtocolTable(e.condition, isRevoked, e.action, e.receipt,
                                          e.policy, e.available, e.outcome))
       ELSE IF isRevoked THEN "REVOKED" ELSE "UNKNOWN"

\* What the store was at an instant since e began, as far as e knows.
Witnessed(e, isRevoked, gone) == (e.known => isRevoked) /\ (isRevoked => e.receipt \in gone)

\* A digest whose receipt has been readable all along is readable; a get that
\* missed it has met a revocation; the validator's rows are all that is left
\* while it runs; and a decision is the table's.
DocumentedOK(e, legible, gone) ==
    /\ e.pc # "idle" /\ e.source = "digest" => e.condition = "intact"
    /\ e.pc # "idle" /\ e.source = "digest" /\ e.present => e.receipt \in legible
    /\ e.pc \in {"get", "absent"} => e.source = "digest"
    /\ e.pc = "absent" /\ e.present => e.receipt \in gone
    /\ e.pc \in {"get", "absent", "check", "validate"} => e.outcome = "none"
    /\ e.pc = "validate" => \E isRevoked \in BOOLEAN :
          /\ Witnessed(e, isRevoked, gone)
          /\ \A outcome \in Outcomes :
                Validated(outcome).state =
                  FirstApplicable(ProtocolTable(e.condition, isRevoked, e.action, e.receipt,
                                                e.policy, e.available, outcome))
    /\ e.pc = "done" /\ e.decision.state # "raised" =>
          \E isRevoked \in BOOLEAN, found \in BOOLEAN :
             /\ Witnessed(e, isRevoked, gone)
             /\ e.present => found
             /\ DocumentedAs(e, isRevoked, found)

DInv == IInv /\ \A p \in Consumers : DocumentedOK(eval[p], readable, revoked)

\* With the invariant, every decision is the table's for some instant.
LEMMA DInvImplies == DInv => DecisionIsDocumented
<1> SUFFICES ASSUME DInv, NEW p \in Consumers, At(p, "done"),
                    eval[p].decision.state # "raised"
             PROVE  \E isRevoked \in BOOLEAN, found \in BOOLEAN :
                       /\ eval[p].known => isRevoked
                       /\ isRevoked => eval[p].receipt \in revoked
                       /\ eval[p].present => found
                       /\ DocumentedAs(eval[p], isRevoked, found)
  BY DEF DecisionIsDocumented, DocumentedAs
<1> QED
  BY DEF DInv, DocumentedOK, At, Witnessed

\* At first nothing has been decided.
LEMMA DInvInit == Init => DInv
BY InductiveInit DEF Init, DInv, DocumentedOK, Resting

\* More receipts and more revocations take nothing away.
LEMMA DocumentedOKGrows ==
    ASSUME NEW e, NEW legible, NEW gone, NEW legible2, NEW gone2,
           legible \subseteq legible2, gone \subseteq gone2, DocumentedOK(e, legible, gone)
    PROVE  DocumentedOK(e, legible2, gone2)
BY DEF DocumentedOK, Witnessed

\* A step of one consumer.
LEMMA OneIsDocumented ==
    ASSUME DInv, NEW p \in Consumers, NEW e, eval' = [eval EXCEPT ![p] = e],
           UNCHANGED storeVars, DocumentedOK(e, readable, revoked)
    PROVE  \A q \in Consumers : DocumentedOK(eval[q], readable, revoked)'
<1>1. eval \in [Consumers -> {Resting} \cup Evaluations]
  BY DEF DInv, IInv, TypeOK
<1> QED
  BY <1>1 DEF DInv, storeVars

\* A new evaluation has met nothing yet; evaluate_digest takes intact receipts.
LEMMA BeginningIsDocumented ==
    ASSUME DInv, NEW p \in Consumers, NEW action \in Actions, NEW r \in Receipts,
           NEW policy \in Policies, NEW available \in Results \cup {None},
           NEW hasValidator \in BOOLEAN, NEW condition \in Conditions,
           NEW source \in {"digest", "object"}, UNCHANGED storeVars,
           source = "digest" => condition = "intact",
           eval' = [eval EXCEPT ![p] =
              InProgress(source, action, r, policy, available, hasValidator, condition)]
    PROVE  \A q \in Consumers : DocumentedOK(eval[q], readable, revoked)'
<1> DEFINE e == InProgress(source, action, r, policy, available, hasValidator, condition)
<1>1. /\ e.source = source /\ e.condition = condition /\ e.receipt = r /\ e.outcome = "none"
      /\ e.pc = (IF source = "digest" THEN "get" ELSE "check")
      /\ e.present => source = "object" \/ r \in readable
  BY DEF InProgress
<1>2. eval' = [eval EXCEPT ![p] = e]
  OBVIOUS
<1> HIDE DEF e
<1>3. DocumentedOK(e, readable, revoked)
  BY <1>1 DEF DocumentedOK
<1> QED
  BY <1>2, <1>3, OneIsDocumented

\* get finds what has been readable all along, unless it was revoked.
LEMMA GetIsDocumented ==
    ASSUME DInv, NEW p \in Consumers, Get(p)
    PROVE  \A q \in Consumers : DocumentedOK(eval[q], readable, revoked)'
<1> DEFINE e == eval[p]
<1>1. e \in Evaluations /\ e.pc = "get" /\ DocumentedOK(e, readable, revoked)
  BY Begun DEF DInv, IInv, Get, At
<1>2. PICK pc \in {"check", "absent"} :
        /\ pc = "absent" => MayMiss(e.receipt, readable, revoked, hidesRevoked)
        /\ eval' = [eval EXCEPT ![p] = [@ EXCEPT !.pc = pc]]
  BY DEF Get
<1> DEFINE f == [eval[p] EXCEPT !.pc = pc]
<1>3. /\ f.pc = pc /\ f.source = e.source /\ f.condition = e.condition
      /\ f.present = e.present /\ f.receipt = e.receipt /\ f.outcome = e.outcome
  BY <1>1 DEF Evaluations
<1>4. eval' = [eval EXCEPT ![p] = f] /\ UNCHANGED storeVars
  BY <1>2 DEF Get
<1> HIDE DEF f
<1>5. DocumentedOK(f, readable, revoked)
  BY <1>1, <1>2, <1>3 DEF DocumentedOK, MayMiss
<1> QED
  BY <1>4, <1>5, OneIsDocumented

\* A step that decides for a store seen at this instant.
LEMMA DecidedIsDocumented ==
    ASSUME DInv, NEW p \in Consumers, eval[p].pc # "idle", UNCHANGED storeVars,
           NEW verdict, Decide(p, verdict),
           verdict.state # "raised" =>
              \E isRevoked \in BOOLEAN, found \in BOOLEAN :
                 /\ Witnessed(eval[p], isRevoked, revoked)
                 /\ eval[p].present => found
                 /\ verdict.state =
                      IF found
                      THEN FirstApplicable(ProtocolTable(
                              eval[p].condition, isRevoked, eval[p].action, eval[p].receipt,
                              eval[p].policy, eval[p].available, eval[p].outcome))
                      ELSE IF isRevoked THEN "REVOKED" ELSE "UNKNOWN"
    PROVE  \A q \in Consumers : DocumentedOK(eval[q], readable, revoked)'
<1> DEFINE e == eval[p]
           f == [eval[p] EXCEPT !.pc = "done", !.decision = verdict]
<1>1. e \in Evaluations /\ DocumentedOK(e, readable, revoked)
  BY Begun DEF DInv, IInv
<1>2. /\ f.pc = "done" /\ f.decision = verdict /\ f.known = e.known
      /\ f.receipt = e.receipt /\ f.condition = e.condition /\ f.action = e.action
      /\ f.policy = e.policy /\ f.available = e.available /\ f.outcome = e.outcome
      /\ f.source = e.source /\ f.present = e.present
  BY <1>1 DEF Evaluations
<1>3. eval' = [eval EXCEPT ![p] = f]
  BY DEF Decide
<1> HIDE DEF f
<1>4. DocumentedOK(f, readable, revoked)
  BY <1>1, <1>2 DEF DocumentedOK, DocumentedAs, Witnessed
<1> QED
  BY <1>3, <1>4, OneIsDocumented

\* A receipt that has been readable all along is missed only when revoked,
\* and then the table says REVOKED too.
LEMMA AbsentIsDocumented ==
    ASSUME DInv, NEW p \in Consumers, Absent(p)
    PROVE  \A q \in Consumers : DocumentedOK(eval[q], readable, revoked)'
<1> DEFINE e == eval[p]
<1>1. /\ e \in Evaluations /\ e.pc = "absent" /\ DocumentedOK(e, readable, revoked)
      /\ EvaluationOK(e, revoked)
  BY Begun DEF DInv, IInv, Absent, At
<1>2. PICK isRevoked \in BOOLEAN : isRevoked <=> e.receipt \in revoked
  OBVIOUS
<1>3. PICK v : /\ Decide(p, v) /\ UNCHANGED storeVars
               /\ v.state = IF isRevoked THEN "REVOKED" ELSE "UNKNOWN"
  BY <1>2, VerdictParts DEF Absent
<1>4. Witnessed(e, isRevoked, revoked)
  BY <1>1, <1>2 DEF Witnessed, EvaluationOK
<1>5. CASE e.present
  <2>1. isRevoked /\ e.condition = "intact"
    BY <1>1, <1>2, <1>5 DEF DocumentedOK
  <2>2. FirstApplicable(ProtocolTable(e.condition, isRevoked, e.action, e.receipt, e.policy,
                                      e.available, e.outcome)) = "REVOKED"
    <3>1. TableState(e.condition, isRevoked, e.action, e.receipt, e.policy, e.available,
                     e.outcome) = "REVOKED"
      BY <2>1 DEF TableState
    <3> HIDE DEF e
    <3> QED
      BY <3>1, TableDecides
  <2>3. v.state = IF TRUE
                  THEN FirstApplicable(ProtocolTable(
                          e.condition, isRevoked, e.action, e.receipt, e.policy,
                          e.available, e.outcome))
                  ELSE IF isRevoked THEN "REVOKED" ELSE "UNKNOWN"
    BY <1>3, <2>1, <2>2
  <2> QED
    BY <1>1, <1>3, <1>4, <2>3, DecidedIsDocumented
<1>6. CASE ~e.present
  <2>1. v.state = IF FALSE
                  THEN FirstApplicable(ProtocolTable(
                          e.condition, isRevoked, e.action, e.receipt, e.policy,
                          e.available, e.outcome))
                  ELSE IF isRevoked THEN "REVOKED" ELSE "UNKNOWN"
    BY <1>3
  <2> QED
    BY <1>1, <1>3, <1>4, <1>6, <2>1, DecidedIsDocumented
<1> QED
  BY <1>5, <1>6

\* The checks read the store once, at this instant.
LEMMA CheckIsDocumented ==
    ASSUME DInv, NEW p \in Consumers, Check(p)
    PROVE  \A q \in Consumers : DocumentedOK(eval[q], readable, revoked)'
<1> DEFINE e == eval[p]
           v == CheckVerdict(eval[p])
           isRevoked == e.receipt \in revoked
           Table(outcome) == FirstApplicable(ProtocolTable(
                                e.condition, isRevoked, e.action, e.receipt, e.policy,
                                e.available, outcome))
<1>1. /\ e \in Evaluations /\ e.pc = "check" /\ DocumentedOK(e, readable, revoked)
      /\ EvaluationOK(e, revoked) /\ UNCHANGED storeVars
  BY Begun DEF DInv, IInv, Check, At
<1>2. /\ e.condition \in Conditions /\ e.receipt \in Receipts /\ e.hasValidator \in BOOLEAN
      /\ isRevoked \in BOOLEAN /\ e.outcome = "none"
  BY <1>1 DEF Evaluations, DocumentedOK
<1>3. /\ e.receipt.reuse_class \in {"EXACT", "VERIFIED", "ADVISORY", "UNSAFE"}
      /\ e.receipt.result_digest \notin {Empty, Malformed}
  BY <1>2, ReceiptsHaveClasses, ReceiptsHaveDigests
<1>4. Witnessed(e, isRevoked, revoked)
  BY <1>1 DEF Witnessed, EvaluationOK
<1>5. /\ v # NeedsValidator => v.state = Table("none")
      /\ v = NeedsValidator => \A outcome \in Outcomes : Validated(outcome).state = Table(outcome)
  <2>1. v = UpToValidator(e.condition, isRevoked, e.action, e.receipt, e.policy, e.available,
                          e.hasValidator)
    BY DEF CheckVerdict
  <2> HIDE DEF v, e, isRevoked
  <2>2. /\ v # NeedsValidator =>
             v.state = TableState(e.condition, isRevoked, e.action, e.receipt, e.policy,
                                  e.available, "none")
        /\ v = NeedsValidator => \A outcome \in Outcomes :
             Validated(outcome).state
               = TableState(e.condition, isRevoked, e.action, e.receipt, e.policy,
                            e.available, outcome)
    BY <1>2, <1>3, <2>1, ChecksFollowTheTable
  <2> QED
    BY <1>2, <2>2, TableDecides
<1>6. CASE v = NeedsValidator
  <2> DEFINE f == [eval[p] EXCEPT !.pc = "validate"]
  <2>1. /\ f.pc = "validate" /\ f.known = e.known /\ f.receipt = e.receipt
        /\ f.condition = e.condition /\ f.action = e.action /\ f.policy = e.policy
        /\ f.available = e.available /\ f.outcome = e.outcome /\ f.source = e.source
        /\ f.present = e.present
    BY <1>1 DEF Evaluations
  <2>2. eval' = [eval EXCEPT ![p] = f]
    BY <1>6 DEF Check
  <2> HIDE DEF f
  <2>3. Witnessed(f, isRevoked, revoked)
    BY <1>4, <2>1 DEF Witnessed
  <2>4. \A outcome \in Outcomes :
           Validated(outcome).state =
             FirstApplicable(ProtocolTable(f.condition, isRevoked, f.action, f.receipt,
                                           f.policy, f.available, outcome))
    BY <1>5, <1>6, <2>1
  <2>5. DocumentedOK(f, readable, revoked)
    BY <1>1, <1>2, <2>1, <2>3, <2>4 DEF DocumentedOK
  <2> QED
    BY <1>1, <2>2, <2>5, OneIsDocumented
<1>7. CASE v # NeedsValidator
  <2>1. Decide(p, v)
    BY <1>7 DEF Check
  <2>2. v.state = Table(e.outcome)
    BY <1>2, <1>5, <1>7
  <2> HIDE DEF v
  <2> QED
    BY <1>1, <1>2, <1>4, <2>1, <2>2, DecidedIsDocumented
<1> QED
  BY <1>6, <1>7

\* The validator's answer falls on one of the table's last rows.
LEMMA ValidateIsDocumented ==
    ASSUME DInv, NEW p \in Consumers, NEW outcome \in Outcomes, Validate(p, outcome)
    PROVE  \A q \in Consumers : DocumentedOK(eval[q], readable, revoked)'
<1> DEFINE e == eval[p]
           f == [eval[p] EXCEPT !.pc = "done", !.outcome = outcome,
                                !.decision = Validated(outcome)]
<1>1. e \in Evaluations /\ e.pc = "validate" /\ DocumentedOK(e, readable, revoked)
  BY Begun DEF DInv, IInv, Validate, At
<1>2. /\ f.pc = "done" /\ f.known = e.known /\ f.receipt = e.receipt
      /\ f.condition = e.condition /\ f.action = e.action /\ f.policy = e.policy
      /\ f.available = e.available /\ f.outcome = outcome /\ f.source = e.source
      /\ f.present = e.present /\ f.decision = Validated(outcome)
  BY <1>1 DEF Evaluations
<1>3. eval' = [eval EXCEPT ![p] = f] /\ UNCHANGED storeVars
  BY DEF Validate
<1> HIDE DEF f
<1>4. PICK isRevoked \in BOOLEAN :
        /\ Witnessed(e, isRevoked, revoked)
        /\ Validated(outcome).state =
             FirstApplicable(ProtocolTable(e.condition, isRevoked, e.action, e.receipt,
                                           e.policy, e.available, outcome))
  BY <1>1 DEF DocumentedOK
<1>5. Witnessed(f, isRevoked, revoked) /\ DocumentedAs(f, isRevoked, TRUE)
  BY <1>2, <1>4 DEF Witnessed, DocumentedAs
<1>6. DocumentedOK(f, readable, revoked)
  BY <1>1, <1>2, <1>5 DEF DocumentedOK
<1> QED
  BY <1>3, <1>6, OneIsDocumented

\* Damage takes back that the receipt was readable all along.
LEMMA DamageIsDocumented ==
    ASSUME DInv, NEW r \in Receipts, Damage(r)
    PROVE  \A q \in Consumers : DocumentedOK(eval[q], readable, revoked)'
<1> SUFFICES ASSUME NEW q \in Consumers PROVE DocumentedOK(eval'[q], readable', revoked)
  BY DEF Damage
<1> DEFINE e == eval[q]
<1>1. DocumentedOK(e, readable, revoked) /\ readable' = readable \ {r}
  BY DEF DInv, Damage
<1>2. CASE e.pc # "idle" /\ e.source = "digest" /\ e.receipt = r
  <2> DEFINE f == [eval[q] EXCEPT !.present = FALSE]
  <2>1. e \in Evaluations
    BY <1>2, Begun DEF DInv, IInv
  <2>2. /\ f.pc = e.pc /\ f.known = e.known /\ f.receipt = e.receipt
        /\ f.condition = e.condition /\ f.action = e.action /\ f.policy = e.policy
        /\ f.available = e.available /\ f.outcome = e.outcome /\ f.source = e.source
        /\ f.decision = e.decision /\ f.present = FALSE
    BY <2>1 DEF Evaluations
  <2>3. eval'[q] = f
    BY <1>2 DEF Damage
  <2> HIDE DEF f
  <2>4. DocumentedOK(f, readable', revoked)
    BY <1>1, <2>2 DEF DocumentedOK, DocumentedAs, Witnessed
  <2> QED
    BY <2>3, <2>4
<1>3. CASE ~(e.pc # "idle" /\ e.source = "digest" /\ e.receipt = r)
  <2>1. eval'[q] = e
    BY <1>3 DEF Damage
  <2> QED
    BY <1>1, <1>3, <2>1 DEF DocumentedOK
<1> QED
  BY <1>2, <1>3

\* Every step preserves the invariant.
LEMMA DInvNext == DInv /\ [Next]_vars => DInv'
<1> SUFFICES ASSUME DInv, [Next]_vars
             PROVE  \A q \in Consumers : DocumentedOK(eval[q], readable, revoked)'
  BY InductiveNext DEF DInv
<1>1. ASSUME NEW r \in Receipts, Publish(r) \/ Revoke(r)
      PROVE  \A q \in Consumers : DocumentedOK(eval[q], readable, revoked)'
  <2>1. readable \subseteq readable' /\ revoked \subseteq revoked' /\ eval' = eval
    BY <1>1 DEF Publish, Revoke
  <2> QED
    BY <2>1, DocumentedOKGrows DEF DInv
<1>2. ASSUME NEW p \in Consumers, Begin(p)
      PROVE  \A q \in Consumers : DocumentedOK(eval[q], readable, revoked)'
  <2>1. PICK action \in Actions, r \in Receipts, policy \in Policies,
             available \in Results \cup {None}, hasValidator \in BOOLEAN :
               \/ EvaluateDigest(p, action, r, policy, available, hasValidator)
               \/ \E condition \in Conditions :
                     Evaluate(p, action, r, policy, available, hasValidator, condition)
    BY <1>2 DEF Begin
  <2>2. CASE EvaluateDigest(p, action, r, policy, available, hasValidator)
    <3>1. "intact" \in Conditions
      BY DEF Conditions
    <3> QED
      BY <2>2, <3>1, BeginningIsDocumented DEF EvaluateDigest
  <2>3. ASSUME NEW condition \in Conditions,
               Evaluate(p, action, r, policy, available, hasValidator, condition)
        PROVE  \A q \in Consumers : DocumentedOK(eval[q], readable, revoked)'
    BY <2>3, BeginningIsDocumented DEF Evaluate
  <2> QED
    BY <2>1, <2>2, <2>3
<1>3. ASSUME NEW p \in Consumers, StoreRaises(p)
      PROVE  \A q \in Consumers : DocumentedOK(eval[q], readable, revoked)'
  <2> DEFINE v == Verdict("raised", "store failure")
  <2>1. v.state = "raised"
    BY VerdictParts
  <2>2. eval[p].pc # "idle" /\ UNCHANGED storeVars /\ Decide(p, v)
    BY <1>3 DEF StoreRaises
  <2> HIDE DEF v
  <2> QED
    BY <2>1, <2>2, DecidedIsDocumented
<1>4. ASSUME NEW p \in Consumers, Return(p)
      PROVE  \A q \in Consumers : DocumentedOK(eval[q], readable, revoked)'
  <2>1. DocumentedOK(Resting, readable, revoked)
    BY DEF DocumentedOK, Resting
  <2> QED
    BY <1>4, <2>1, OneIsDocumented DEF Return
<1>5. CASE UNCHANGED vars
  BY <1>5 DEF vars, DInv
<1> QED
  BY <1>1, <1>2, <1>3, <1>4, <1>5, GetIsDocumented, AbsentIsDocumented, CheckIsDocumented,
     ValidateIsDocumented, DamageIsDocumented DEF Next, Step

\* Every decision is the one docs/PROTOCOL.md section 6 gives for the store
\* at one instant of the call (protocol.py:653-804), whatever the store did.
THEOREM DecisionDocumented == Spec => []DecisionIsDocumented
<1>1. Spec => []DInv
  BY DInvInit, DInvNext, PTL DEF Spec
<1> QED
  BY <1>1, DInvImplies, PTL
=============================================================================
