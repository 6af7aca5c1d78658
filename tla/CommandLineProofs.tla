-------------------------- MODULE CommandLineProofs --------------------------
(***************************************************************************)
(* Proofs about CommandLine, for any documents, command lines, flags and   *)
(* ways the parts of the files fall together.  The argument: what a        *)
(* process has read is a receipt that Receipt accepts, whose digest is     *)
(* therefore that of its content; the digest stands in one of the two      *)
(* parts, whose documents have it of a written receipt (Sealed), and       *)
(* digests are collision free, so the content is the written one           *)
(* (PartsOfReceipts).  A gate then exits 0 exactly on REUSABLE_EXACT,      *)
(* which the checks of evaluate reach without a validator exactly with the *)
(* evidence (EvidenceDecides).                                             *)
(***************************************************************************)
EXTENDS CommandLine, TLAPS

\* The type of a value keeps it apart from values of another.
LEMMA Tags ==
    /\ \A t : Text(t) = <<"text", t>> /\ Text(t)[1] = "text" /\ Text(t)[2] = t
    /\ \A r : Object(r)[1] = "object" /\ Object(r)[2] = r
    /\ \A v : Sha256(v)[1] = "digest" /\ Sha256(v)[2] = v
    /\ \A r : Object(r) # Missing /\ Object(r) # Rejected
    /\ \A t : Text(t) # Null /\ Text(t) # Rejected
BY DEF Text, Object, Sha256, Missing, Rejected, Null

\* Digests are collision free.
LEMMA DigestsBind ==
    ASSUME NEW v, NEW w, Sha256(v) = Sha256(w)
    PROVE  v = w
BY DEF Sha256

\* An action that was parsed is not missing.
LEMMA ActionsAreObjects ==
    ASSUME NEW doc
    PROVE  Action(doc) # Missing
<1>1. \A f : Collected(f) # Missing
  BY Tags DEF Collected, Rejected, Missing
<1> QED
  BY <1>1 DEF Action, Rejected, Missing

\* The fields of a receipt's content.
ContentFields == {"schema_version", "action", "action_digest", "result_digest",
    "result_reference", "media_type", "producer_identity", "reuse_class", "created_at",
    "dependency_snapshot", "provenance", "trust_scope", "cache_scope", "revocation_ref",
    "validator_identity", "execution_metadata", "economics"}

\* A receipt that is accepted has all its fields, a class, a result digest and the
\* digest of its content (protocol.py:425-452).
LEMMA ReceiptParts ==
    ASSUME NEW doc, Receipt(doc) # Rejected
    PROVE  LET content == Receipt(doc)[2]
           IN  /\ Receipt(doc) = Content(doc) /\ doc.receipt_digest = Sha256(Content(doc))
               /\ Receipt(doc) # Missing
               /\ content = [f \in ContentFields |-> content[f]]
               /\ \E t \in ReuseClasses : content.reuse_class = Text(t)
               /\ content.result_digest[1] = "digest"
<1>1. Receipt(doc) = Content(doc) /\ doc.receipt_digest = Sha256(Content(doc))
      /\ Content(doc) # Rejected
  BY DEF Receipt, ReceiptDigest
<1> DEFINE action == IF doc.action[1] = "object" THEN Action(doc.action[2]) ELSE Rejected
           fields == [
            schema_version    |-> Only({ReceiptSchema}, BoundedText(doc.schema_version)),
            action            |-> action,
            action_digest     |-> Sha256(action),
            result_digest     |-> CheckDigestField(doc.result_digest),
            result_reference  |-> OptionalText(doc.result_reference),
            media_type        |-> BoundedText(doc.media_type),
            producer_identity |-> BoundedText(doc.producer_identity),
            reuse_class       |-> Only(ReuseClasses, doc.reuse_class),
            created_at        |-> CanonicalTimestamp(doc.created_at),
            dependency_snapshot |-> Dependencies(doc.dependency_snapshot),
            provenance        |-> StringMapping(Default(doc.provenance, Map({}))),
            trust_scope       |-> BoundedText(doc.trust_scope),
            cache_scope       |-> BoundedText(doc.cache_scope),
            revocation_ref    |-> OptionalText(doc.revocation_ref),
            validator_identity |-> OptionalText(doc.validator_identity),
            execution_metadata |-> StringMapping(Default(doc.execution_metadata, Map({}))),
            economics         |-> StringMapping(Default(doc.economics, Map({})))]
<1>2. Content(doc) = Collected(fields)
  BY <1>1 DEF Content
<1>3. /\ fields = [f \in ContentFields |-> fields[f]]
      /\ DOMAIN fields = ContentFields
      /\ fields.reuse_class = Only(ReuseClasses, doc.reuse_class)
      /\ fields.result_digest = CheckDigestField(doc.result_digest)
  BY DEF ContentFields
<1> HIDE DEF fields
<1>4. Content(doc) = Object(fields) /\ \A f \in DOMAIN fields : fields[f] # Rejected
  BY <1>1, <1>2 DEF Collected
<1>5. fields.reuse_class # Rejected /\ fields.result_digest # Rejected
  BY <1>3, <1>4 DEF ContentFields
<1>6. \E t \in ReuseClasses : fields.reuse_class = Text(t)
  BY <1>3, <1>5 DEF Only
<1>7. fields.result_digest[1] = "digest"
  BY <1>3, <1>5 DEF CheckDigestField
<1>8. Receipt(doc)[2] = fields /\ Receipt(doc) # Missing
  BY <1>1, <1>4, Tags
<1> QED
  BY <1>1, <1>3, <1>6, <1>7, <1>8

-----------------------------------------------------------------------------
(* What evaluate makes of a receipt of class EXACT *)

\* A verdict with a decision is not Undecided.
LEMMA Verdicts ==
    ASSUME NEW state, NEW reason
    PROVE  /\ Decision!Verdict(state, reason).state = state
           /\ state # "undecided" => Decision!Verdict(state, reason) # Decision!Undecided
           /\ Decision!Undecided.state = "undecided"
           /\ Decision!NeedsValidator.state = "undecided"
BY DEF Decision!Verdict, Decision!Undecided, Decision!NeedsValidator

\* Without a validator, the checks of evaluate pass exactly the evidence of an EXACT
\* receipt (protocol.py:686-780).
LEMMA EvidenceDecides ==
    ASSUME NEW a, NEW r, NEW policy, NEW available,
           r.result_digest \notin {Text(""), Text("malformed")}
    PROVE  LET state == Decision!UpToValidator("intact", FALSE, a, r, policy, available,
                                               FALSE).state
           IN  state = "REUSABLE_EXACT" <=>
                  /\ r.reuse_class = "EXACT"
                  /\ Decision!ReuseEvidence("intact", FALSE, a, r, policy, available, "none")
<1> DEFINE state == Decision!UpToValidator("intact", FALSE, a, r, policy,
                                           available, FALSE).state
           scope == Decision!ScopeRefusal(a, r)
           safety == Decision!SafetyRefusal(a, r)
           freshness == Decision!FreshnessRefusal(a, r, available)
           class == Decision!ClassVerdict(a, r, policy, FALSE)
           undecided == Decision!Undecided
<1>1. scope = undecided <=>
         /\ a.trust_scope = r.trust_scope
         /\ a.trust_scope = r.action.trust_scope
         /\ a.authorization_scope_digest = r.action.authorization_scope_digest
  BY Verdicts DEF Decision!ScopeRefusal
<1>2. safety = undecided <=>
         /\ Decision!ReadOnly(a) /\ Decision!ReadOnly(r.action) /\ r.reuse_class # "UNSAFE"
         /\ Decision!Complete(a) /\ Decision!Complete(r.action)
  BY Verdicts DEF Decision!SafetyRefusal
<1>3. freshness = undecided <=>
         /\ a = r.action /\ a.dependencies = r.dependency_snapshot
         /\ available \notin {Text(""), Text("malformed")}
         /\ available = Null \/ available = r.result_digest
  BY Verdicts DEF Decision!FreshnessRefusal
<1>4. class.state = "REUSABLE_EXACT" <=>
         r.reuse_class = "EXACT" /\ Decision!Admits(policy, r)
  BY Verdicts DEF Decision!ClassVerdict, Decision!Authoritative
<1>5. /\ scope.state # "REUSABLE_EXACT" /\ safety.state # "REUSABLE_EXACT"
      /\ freshness.state # "REUSABLE_EXACT"
  BY Verdicts DEF Decision!ScopeRefusal, Decision!SafetyRefusal, Decision!FreshnessRefusal
<1>6. state = "REUSABLE_EXACT" <=>
         /\ r.revocation_ref = Null
         /\ scope = undecided /\ safety = undecided /\ freshness = undecided
         /\ class.state = "REUSABLE_EXACT"
  <2> HIDE DEF scope, safety, freshness, class, undecided
  <2>1. Decision!UpToValidator("intact", FALSE, a, r, policy, available, FALSE) =
           IF r.revocation_ref # Null THEN Decision!Verdict("REVOKED", "receipt revoked")
           ELSE IF scope # undecided THEN scope
           ELSE IF safety # undecided THEN safety
           ELSE IF freshness # undecided THEN freshness
           ELSE class
    BY DEF Decision!UpToValidator, Decision!Evidence, scope, safety, freshness, class, undecided
  <2>2. Decision!Verdict("REVOKED", "receipt revoked").state # "REUSABLE_EXACT"
    BY Verdicts
  <2> QED
    BY <1>5, <2>1, <2>2
<1>7. Text("") # Null /\ Text("malformed") # Null
  BY Tags
<1> HIDE DEF state, scope, safety, freshness, class, undecided
<1>8. /\ Decision!ReuseEvidence("intact", FALSE, a, r, policy, available, "none")
      /\ r.reuse_class = "EXACT"
      <=>
         /\ r.revocation_ref = Null /\ a = r.action /\ r.trust_scope = a.trust_scope
         /\ Decision!ReadOnly(a) /\ Decision!Complete(a)
         /\ r.dependency_snapshot = a.dependencies
         /\ available = Null \/ available = r.result_digest
         /\ Decision!Admits(policy, r) /\ r.reuse_class = "EXACT"
  BY DEF Decision!ReuseEvidence
<1>9. state = "REUSABLE_EXACT" <=>
         /\ r.reuse_class = "EXACT"
         /\ Decision!ReuseEvidence("intact", FALSE, a, r, policy, available, "none")
  BY <1>1, <1>2, <1>3, <1>4, <1>6, <1>7, <1>8
<1> QED
  BY <1>9 DEF state

\* What evaluate sees of an accepted receipt: a result digest that is one, and its
\* class.
LEMMA SeenFields ==
    ASSUME NEW doc, Receipt(doc) # Rejected
    PROVE  LET r == Receipt(doc)
           IN  /\ SeenReceipt(r).result_digest \notin {Text(""), Text("malformed")}
               /\ SeenReceipt(r).reuse_class = "EXACT" <=> r[2].reuse_class = Text("EXACT")
<1> DEFINE r == Receipt(doc)
           content == r[2]
           seen == SeenReceipt(r)
<1>1. /\ content = [f \in ContentFields |-> content[f]]
      /\ \E t \in ReuseClasses : content.reuse_class = Text(t)
      /\ content.result_digest[1] = "digest"
  BY ReceiptParts
<1> HIDE DEF content, r
<1>2. seen.result_digest = content.result_digest /\ seen.reuse_class = content.reuse_class[2]
  BY <1>1 DEF SeenReceipt, ContentFields, content
<1> HIDE DEF seen
<1>3. content.result_digest \notin {Text(""), Text("malformed")}
  BY <1>1, Tags
<1>4. content.reuse_class = Text("EXACT") <=> content.reuse_class[2] = "EXACT"
  BY <1>1, Tags
<1> QED
  BY <1>2, <1>3, <1>4 DEF seen, content, r

-----------------------------------------------------------------------------
(* The invariant *)

\* What a part of the file may be.
Parts == Documents \cup {Unreadable}

\* A file and a producer hold parts of documents.
FilesOK ==
    /\ file = [head |-> file.head, tail |-> file.tail]
    /\ file.head \in Parts /\ file.tail \in Parts
    /\ producer = Idle \/
          /\ producer = [pc |-> producer.pc, document |-> producer.document]
          /\ producer.document \in Documents

ProcessFields == {"pc", "invocation", "head", "receipt", "action", "state", "status"}

\* A process that goes on has parsed what it has read so far, and a gate was
\* given an action.
ProcessOK ==
    process = Idle \/
        /\ process = [f \in ProcessFields |-> process[f]]
        /\ process.pc \in {"head", "tail", "action", "decide", "failed", "exited"}
        /\ process.head \in Parts
        /\ process.pc # "exited" /\ process.invocation.command \in Gates =>
              process.invocation.action
        /\ process.pc \in {"action", "decide"} => process.receipt \in WrittenReceipts
        /\ process.pc = "decide" => process.action # Rejected
        /\ process.pc = "decide" /\ process.invocation.action => process.action # Missing
        /\ process.pc = "failed" => Rejected \in {process.receipt, process.action}

IInv == FilesOK /\ ProcessOK /\ GateOpensExactlyOnEvidence /\ DecidesOnlyWrittenReceipts

\* However the two parts of a file were written, if they parse they are a receipt
\* that was written (protocol.py:447).
LEMMA PartsOfReceipts ==
    ASSUME NEW head \in Documents, NEW tail \in Documents, NEW fields
    PROVE  LET contents == [f \in DOMAIN tail |-> IF f \in fields THEN head[f] ELSE tail[f]]
           IN  Receipt(contents) # Rejected => Receipt(contents) \in WrittenReceipts
<1> DEFINE contents == [f \in DOMAIN tail |-> IF f \in fields THEN head[f] ELSE tail[f]]
<1> USE Sealed
<1> SUFFICES ASSUME Receipt(contents) # Rejected
             PROVE  Receipt(contents) \in WrittenReceipts
  OBVIOUS
<1>1. PICK document \in {head, tail} : contents.receipt_digest = document.receipt_digest
  <2>1. contents.receipt_digest =
           IF "receipt_digest" \in fields THEN head.receipt_digest ELSE tail.receipt_digest
    OBVIOUS
  <2> QED
    BY <2>1
<1>2. PICK written \in Documents :
         Receipt(written) # Rejected /\ document.receipt_digest = written.receipt_digest
  OBVIOUS
<1> HIDE DEF contents
<1>3. Sha256(Content(contents)) = Sha256(Content(written))
  BY <1>1, <1>2, ReceiptParts
<1>4. Receipt(contents) = Receipt(written)
  BY <1>2, <1>3, ReceiptParts, DigestsBind
<1> QED
  BY <1>2, <1>4 DEF WrittenReceipts

\* A step that leaves the reading process alone keeps the invariant with the files.
LEMMA OtherFilesKeep ==
    ASSUME IInv, UNCHANGED process, FilesOK'
    PROVE  IInv'
<1>1. process' = process
  OBVIOUS
<1> QED
  BY <1>1 DEF IInv, ProcessOK, GateOpensExactlyOnEvidence, DecidesOnlyWrittenReceipts

\* The invariant is kept by whoever writes the files.
LEMMA WritingKeeps ==
    ASSUME IInv,
           \/ \E document \in Documents : Truncate(document)
           \/ WriteHead \/ WriteTail \/ Kill
           \/ \E contents \in Observed : Observe(contents)
    PROVE  IInv'
<1>0. FilesOK
  BY DEF IInv
<1>1. ASSUME NEW document \in Documents, Truncate(document) PROVE FilesOK'
  BY <1>1 DEF Truncate, FilesOK, Nothing, Parts
<1>2. ASSUME WriteHead PROVE FilesOK'
  <2>1. producer.pc = "head" /\ producer # Idle
    BY <1>2 DEF WriteHead, Idle
  <2>2. /\ producer.document \in Documents
        /\ producer = [pc |-> "head", document |-> producer.document]
    BY <1>0, <2>1 DEF FilesOK
  <2>3. producer' = [pc |-> "tail", document |-> producer.document]
    BY <1>2, <2>2 DEF WriteHead
  <2>4. file' = [head |-> producer.document, tail |-> file.tail]
    BY <1>0, <1>2 DEF WriteHead, FilesOK
  <2> QED
    BY <1>0, <2>2, <2>3, <2>4 DEF FilesOK, Parts
<1>3. ASSUME WriteTail PROVE FilesOK'
  <2>1. producer.pc = "tail" /\ producer # Idle
    BY <1>3 DEF WriteTail, Idle
  <2>2. producer.document \in Documents
    BY <1>0, <2>1 DEF FilesOK
  <2>3. producer' = Idle
    BY <1>3 DEF WriteTail
  <2>4. file' = [head |-> file.head, tail |-> producer.document]
    BY <1>0, <1>3 DEF WriteTail, FilesOK
  <2> QED
    BY <1>0, <2>2, <2>3, <2>4 DEF FilesOK, Parts
<1>4. ASSUME Kill PROVE FilesOK'
  BY <1>0, <1>4 DEF Kill, FilesOK
<1>5. ASSUME NEW contents \in Observed, Observe(contents) PROVE FilesOK'
  BY <1>0, <1>5 DEF Observe, FilesOK
<1>6. UNCHANGED process
  BY DEF Truncate, WriteHead, WriteTail, Kill, Observe
<1> QED
  BY <1>1, <1>2, <1>3, <1>4, <1>5, <1>6, OtherFilesKeep

\* A process that is there, and not at its end.
LEMMA Running ==
    ASSUME IInv, process.pc \in {"head", "tail", "action", "decide", "failed", "exited"}
    PROVE  /\ process # Idle
           /\ process = [f \in ProcessFields |-> process[f]]
           /\ process.head \in Parts
           /\ process.pc # "exited" /\ process.invocation.command \in Gates =>
                 process.invocation.action
           /\ process.pc \in {"action", "decide"} => process.receipt \in WrittenReceipts
           /\ process.pc = "decide" => process.action # Rejected
           /\ process.pc = "decide" /\ process.invocation.action => process.action # Missing
           /\ process.pc = "failed" => Rejected \in {process.receipt, process.action}
BY DEF IInv, ProcessOK, Idle

\* The invariant is kept when a process starts or refuses its command line.
LEMMA StartKeeps ==
    ASSUME IInv, NEW invocation \in Invocations, Start(invocation)
    PROVE  IInv'
<1>0. FilesOK'
  BY DEF IInv, FilesOK, Start
<1>1. process' = IF invocation.command \in Gates /\ ~invocation.action
                 THEN [Fresh(invocation) EXCEPT !.pc = "exited", !.state = "error",
                                                !.status = 2]
                 ELSE Fresh(invocation)
  BY DEF Start
<1>2. CASE invocation.command \in Gates /\ ~invocation.action
  <2>1. /\ process' = [f \in ProcessFields |-> process'[f]]
        /\ process'.pc = "exited" /\ process'.head = Unreadable
        /\ process'.invocation = invocation /\ process'.state = "error" /\ process'.status = 2
    BY <1>1, <1>2 DEF Fresh, ProcessFields
  <2>2. ProcessOK'
    BY <2>1 DEF ProcessOK, Parts
  <2>3. DecidesOnlyWrittenReceipts'
    BY <2>1 DEF DecidesOnlyWrittenReceipts
  <2>4. GateOpensExactlyOnEvidence'
    <3>1. process'.status # 0 /\ ~process'.invocation.action
      BY <1>2, <2>1
    <3> QED
      BY <3>1 DEF GateOpensExactlyOnEvidence
  <2> QED
    BY <1>0, <2>2, <2>3, <2>4 DEF IInv
<1>3. CASE ~(invocation.command \in Gates /\ ~invocation.action)
  <2>1. /\ process' = [f \in ProcessFields |-> process'[f]]
        /\ process'.pc = "head" /\ process'.head = Unreadable
        /\ process'.invocation = invocation
    BY <1>1, <1>3 DEF Fresh, ProcessFields
  <2>2. ProcessOK'
    BY <1>3, <2>1 DEF ProcessOK, Parts
  <2>3. GateOpensExactlyOnEvidence' /\ DecidesOnlyWrittenReceipts'
    BY <2>1 DEF GateOpensExactlyOnEvidence, DecidesOnlyWrittenReceipts
  <2> QED
    BY <1>0, <2>2, <2>3 DEF IInv
<1> QED
  BY <1>2, <1>3

\* The invariant is kept by the reads.
LEMMA ReadingKeeps ==
    ASSUME IInv, ReadHead \/ (\E fields \in Heads : ReadTail(fields)) \/ ReadAction
    PROVE  IInv'
<1>0. FilesOK' /\ FilesOK
  BY DEF IInv, FilesOK, ReadHead, ReadTail, ReadAction
<1>1. CASE ReadHead
  <2>1. process.pc = "head"
    BY <1>1 DEF ReadHead
  <2>2. /\ process' = [f \in ProcessFields |-> process'[f]]
        /\ process'.pc = "tail" /\ process'.head = file.head
        /\ process'.invocation = process.invocation
    BY <1>1, <2>1, Running DEF ReadHead, ProcessFields
  <2>3. ProcessOK'
    BY <1>0, <2>1, <2>2, Running DEF ProcessOK, FilesOK
  <2>4. GateOpensExactlyOnEvidence' /\ DecidesOnlyWrittenReceipts'
    BY <2>2 DEF GateOpensExactlyOnEvidence, DecidesOnlyWrittenReceipts
  <2> QED
    BY <1>0, <2>3, <2>4 DEF IInv
<1>2. ASSUME NEW fields \in Heads, ReadTail(fields) PROVE IInv'
  <2> DEFINE contents == IF Unreadable \in {process.head, file.tail} THEN Unreadable
                         ELSE [f \in DOMAIN file.tail |->
                                  IF f \in fields THEN process.head[f] ELSE file.tail[f]]
             receipt == LoadReceipt(contents)
  <2>1. process.pc = "tail"
    BY <1>2 DEF ReadTail
  <2>2. receipt # Rejected => receipt \in WrittenReceipts
    <3>1. CASE Unreadable \in {process.head, file.tail}
      BY <3>1 DEF LoadReceipt
    <3>2. CASE Unreadable \notin {process.head, file.tail}
      <4>1. process.head \in Documents /\ file.tail \in Documents
        BY <1>0, <2>1, <3>2, Running DEF FilesOK, Parts
      <4>2. LoadReceipt(contents) \in {Rejected, Receipt(contents)}
        BY DEF LoadReceipt
      <4> QED
        BY <3>2, <4>1, <4>2, PartsOfReceipts
    <3> QED
      BY <3>1, <3>2
  <2>3. process' = [process EXCEPT !.pc = IF receipt = Rejected THEN "failed" ELSE "action",
                                   !.head = Unreadable, !.receipt = receipt]
    BY <1>2 DEF ReadTail
  <2> HIDE DEF receipt
  <2>4. /\ process' = [f \in ProcessFields |-> process'[f]]
        /\ process'.pc = (IF receipt = Rejected THEN "failed" ELSE "action")
        /\ process'.head = Unreadable /\ process'.receipt = receipt
        /\ process'.invocation = process.invocation
    BY <2>1, <2>3, Running DEF ProcessFields
  <2>5. ProcessOK'
    BY <2>1, <2>2, <2>4, Running DEF ProcessOK, Parts
  <2>6. GateOpensExactlyOnEvidence' /\ DecidesOnlyWrittenReceipts'
    BY <2>4 DEF GateOpensExactlyOnEvidence, DecidesOnlyWrittenReceipts
  <2> QED
    BY <1>0, <2>5, <2>6 DEF IInv
<1>3. CASE ReadAction
  <2> DEFINE action == IF process.invocation.action THEN LoadAction(observed)
                       ELSE process.receipt[2].action
  <2>1. process.pc = "action"
    BY <1>3 DEF ReadAction
  <2>2. process.invocation.action => action # Missing
    <3>1. LoadAction(observed) # Missing
      BY ActionsAreObjects DEF LoadAction, Rejected, Missing
    <3> QED
      BY <3>1
  <2>3. process' = [process EXCEPT !.pc = IF action = Rejected THEN "failed" ELSE "decide",
                                   !.action = action]
    BY <1>3 DEF ReadAction
  <2> HIDE DEF action
  <2>4. /\ process' = [f \in ProcessFields |-> process'[f]]
        /\ process'.pc = (IF action = Rejected THEN "failed" ELSE "decide")
        /\ process'.head = process.head /\ process'.receipt = process.receipt
        /\ process'.invocation = process.invocation /\ process'.action = action
    BY <2>1, <2>3, Running DEF ProcessFields
  <2>5. ProcessOK'
    BY <2>1, <2>2, <2>4, Running DEF ProcessOK, Parts
  <2>6. GateOpensExactlyOnEvidence' /\ DecidesOnlyWrittenReceipts'
    BY <2>4 DEF GateOpensExactlyOnEvidence, DecidesOnlyWrittenReceipts
  <2> QED
    BY <1>0, <2>5, <2>6 DEF IInv
<1> QED
  BY <1>1, <1>2, <1>3

\* What a process leaves when it exits.
LEMMA ExitFields ==
    ASSUME IInv, process.pc \in {"decide", "failed"}, NEW state, NEW status,
           Exit(state, status)
    PROVE  /\ ProcessOK'
           /\ process'.pc = "exited" /\ process'.state = state /\ process'.status = status
           /\ process'.invocation = process.invocation
           /\ process'.receipt = process.receipt /\ process'.action = process.action
<1>1. /\ process' = [f \in ProcessFields |-> process'[f]]
      /\ process'.pc = "exited" /\ process'.state = state /\ process'.status = status
      /\ process'.head = process.head /\ process'.invocation = process.invocation
      /\ process'.receipt = process.receipt /\ process'.action = process.action
  BY Running DEF Exit, ProcessFields
<1>2. ProcessOK'
  BY <1>1, Running DEF ProcessOK
<1> QED
  BY <1>1, <1>2

\* The invariant is kept by the decision of a command.
LEMMA DecideKeeps ==
    ASSUME IInv, Decide
    PROVE  IInv'
<1> DEFINE flags == process.invocation.flags
           state == IF MalformedFlags(flags) THEN "error"
                    ELSE Evaluated(process.action, process.receipt, flags)
           status == ExitStatus(process.invocation.command, state)
<1>0. FilesOK' /\ process.pc = "decide"
  BY DEF IInv, FilesOK, Decide
<1>1. Exit(state, status)
  BY DEF Decide
<1>2. process.receipt \in WrittenReceipts /\ process.action # Rejected
      /\ (process.invocation.action => process.action # Missing)
      /\ (process.invocation.command \in Gates => process.invocation.action)
  BY <1>0, Running
<1>3. PICK document \in Documents :
         process.receipt = Receipt(document) /\ Receipt(document) # Rejected
  BY <1>2 DEF WrittenReceipts
<1>4. status = 0 <=> \/ process.invocation.command = "inspect" /\ state # "error"
                     \/ state = "REUSABLE_EXACT"
  BY DEF ExitStatus
<1>5. Evaluated(process.action, process.receipt, flags) = "REUSABLE_EXACT" <=>
         /\ process.receipt[2].reuse_class = Text("EXACT")
         /\ Decision!ReuseEvidence("intact", FALSE, SeenAction(process.action),
                                   SeenReceipt(process.receipt), TrustPolicy(flags),
                                   flags.result_digest, "none")
  BY <1>3, SeenFields, EvidenceDecides DEF Evaluated
<1>6. state = "REUSABLE_EXACT" <=>
         /\ ~MalformedFlags(flags)
         /\ Evaluated(process.action, process.receipt, flags) = "REUSABLE_EXACT"
  OBVIOUS
<1>7. process.receipt # Missing
  BY <1>3, ReceiptParts
<1> HIDE DEF state, status
<1>8. /\ ProcessOK'
      /\ process'.pc = "exited" /\ process'.state = state /\ process'.status = status
      /\ process'.invocation = process.invocation
      /\ process'.receipt = process.receipt /\ process'.action = process.action
  BY <1>0, <1>1, ExitFields
<1>9. DecidesOnlyWrittenReceipts'
  BY <1>2, <1>8 DEF DecidesOnlyWrittenReceipts
<1>10. GateOpensExactlyOnEvidence'
  <2> SUFFICES ASSUME process.invocation.command \in Gates
               PROVE  GateOpensExactlyOnEvidence'
    BY <1>8 DEF GateOpensExactlyOnEvidence
  <2>1. process.invocation.command # "inspect"
    BY DEF Gates
  <2>2. status = 0 <=> state = "REUSABLE_EXACT"
    BY <1>4, <2>1
  <2>3. /\ process.invocation.action
        /\ {process.receipt, process.action} \cap {Missing, Rejected} = {}
    BY <1>2, <1>3, <1>7
  <2>4. status = 0 <=>
           /\ process.invocation.action
           /\ {process.receipt, process.action} \cap {Missing, Rejected} = {}
           /\ ~MalformedFlags(flags)
           /\ process.receipt[2].reuse_class = Text("EXACT")
           /\ Decision!ReuseEvidence("intact", FALSE, SeenAction(process.action),
                                     SeenReceipt(process.receipt), TrustPolicy(flags),
                                     flags.result_digest, "none")
    BY <1>5, <1>6, <2>2, <2>3
  <2> QED
    BY <1>8, <2>4 DEF GateOpensExactlyOnEvidence
<1> QED
  BY <1>0, <1>8, <1>9, <1>10 DEF IInv

\* The invariant is kept by an error, by the consumer example and when a process
\* has gone.
LEMMA EndingKeeps ==
    ASSUME IInv, Fail \/ Consume \/ Leave
    PROVE  IInv'
<1>0. FilesOK'
  BY DEF IInv, FilesOK, Fail, Consume, Leave
<1>1. CASE Fail
  <2>1. process.pc = "failed"
    BY <1>1 DEF Fail
  <2> DEFINE status == IF process.invocation.command = "consume" THEN 1 ELSE 2
  <2>2. Exit("error", status) /\ status # 0
    BY <1>1 DEF Fail
  <2> HIDE DEF status
  <2>3. /\ ProcessOK'
        /\ process'.pc = "exited" /\ process'.state = "error" /\ process'.status = status
        /\ process'.receipt = process.receipt /\ process'.action = process.action
    BY <2>1, <2>2, ExitFields
  <2>4. Rejected \in {process.receipt, process.action}
    BY <2>1, Running
  <2>5. DecidesOnlyWrittenReceipts'
    BY <2>3 DEF DecidesOnlyWrittenReceipts
  <2>6. GateOpensExactlyOnEvidence'
    <3>1. {process.receipt, process.action} \cap {Missing, Rejected} # {}
      BY <2>4
    <3> QED
      BY <2>2, <2>3, <3>1 DEF GateOpensExactlyOnEvidence
  <2> QED
    BY <1>0, <2>3, <2>5, <2>6 DEF IInv
<1>2. CASE Consume
  <2> DEFINE state == Evaluated(process.action, process.receipt, Trusted)
  <2>1. process.pc = "decide" /\ process.invocation.command = "consume" /\ Exit(state, 0)
    BY <1>2 DEF Consume
  <2> HIDE DEF state
  <2>2. /\ ProcessOK'
        /\ process'.pc = "exited" /\ process'.state = state
        /\ process'.invocation = process.invocation /\ process'.receipt = process.receipt
    BY <2>1, ExitFields
  <2>3. process.receipt \in WrittenReceipts
    BY <2>1, Running
  <2>4. DecidesOnlyWrittenReceipts'
    BY <2>2, <2>3 DEF DecidesOnlyWrittenReceipts
  <2>5. process'.invocation.command \notin Gates
    BY <2>1, <2>2 DEF Gates
  <2>6. GateOpensExactlyOnEvidence'
    BY <2>5 DEF GateOpensExactlyOnEvidence
  <2> QED
    BY <1>0, <2>2, <2>4, <2>6 DEF IInv
<1>3. CASE Leave
  <2>1. process' = Idle
    BY <1>3 DEF Leave
  <2> QED
    BY <1>0, <2>1 DEF IInv, ProcessOK, Idle, GateOpensExactlyOnEvidence,
                      DecidesOnlyWrittenReceipts
<1> QED
  BY <1>1, <1>2, <1>3

\* The invariant holds before anything is written or read.
LEMMA InitIInv == Init => IInv
<1> SUFFICES ASSUME Init PROVE IInv
  OBVIOUS
<1>1. FilesOK
  BY DEF Init, FilesOK, Nothing, Parts
<1>2. process = Idle
  BY DEF Init
<1> QED
  BY <1>1, <1>2 DEF IInv, ProcessOK, Idle, GateOpensExactlyOnEvidence,
                    DecidesOnlyWrittenReceipts

\* The invariant is inductive.
LEMMA StepIInv == IInv /\ [Next]_vars => IInv'
<1> SUFFICES ASSUME IInv, [Next]_vars PROVE IInv'
  OBVIOUS
<1>1. CASE \/ \E document \in Documents : Truncate(document)
           \/ WriteHead \/ WriteTail \/ Kill
           \/ \E contents \in Observed : Observe(contents)
  BY <1>1, WritingKeeps
<1>2. ASSUME NEW invocation \in Invocations, Start(invocation) PROVE IInv'
  BY <1>2, StartKeeps
<1>3. CASE ReadHead \/ (\E fields \in Heads : ReadTail(fields)) \/ ReadAction
  BY <1>3, ReadingKeeps
<1>4. CASE Decide
  BY <1>4, DecideKeeps
<1>5. CASE Fail \/ Consume \/ Leave
  BY <1>5, EndingKeeps
<1>6. CASE UNCHANGED vars
  <2>1. UNCHANGED process /\ FilesOK'
    BY <1>6 DEF vars, IInv, FilesOK
  <2> QED
    BY <2>1, OtherFilesKeep
<1> QED
  BY <1>1, <1>2, <1>3, <1>4, <1>5, <1>6 DEF Next

\* The invariant holds in every state.
LEMMA AlwaysIInv == Spec => []IInv
BY InitIInv, StepIInv, PTL DEF Spec

\* For any documents and command lines, check and verify exit 0 exactly for
\* trusted exact evidence (cli.py:31-68, 87-116).
THEOREM GatesOpenOnEvidence == Spec => []GateOpensExactlyOnEvidence
<1>1. IInv => GateOpensExactlyOnEvidence
  BY DEF IInv
<1> QED
  BY <1>1, AlwaysIInv, PTL

\* For any documents that satisfy Sealed, whatever is decided is decided of a
\* receipt that was written as a whole (interop_cli_producer.py:40-43,
\* protocol.py:447).
THEOREM DecidedReceiptsAreWritten == Spec => []DecidesOnlyWrittenReceipts
<1>1. IInv => DecidesOnlyWrittenReceipts
  BY DEF IInv
<1> QED
  BY <1>1, AlwaysIInv, PTL
=============================================================================
