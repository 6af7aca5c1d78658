----------------------------- MODULE CommandLine -----------------------------
(***************************************************************************)
(* Receipts that travel as files: a producer process writes them           *)
(* (examples/interop_cli_producer.py), the command line of cli.py and      *)
(* examples/interop_consumer.py read them, each in a process of its own.   *)
(* Writing truncates the file and fills it in two parts, and may be killed *)
(* at any point; reading takes two reads.  The file with the current       *)
(* action is replaced as a whole by whoever observes it.  A process reads  *)
(* its files once and decides over a fresh in-memory store, which holds    *)
(* nothing but the receipt and knows of no revocation.                     *)
(***************************************************************************)
EXTENDS PythonDocuments

CONSTANTS
    Documents,    \* the receipt documents that producers write
    Observed,     \* what the action file may hold: a document, or Unreadable
    Invocations,  \* [command, action, flags]: command lines
    Trusted,      \* the flags that interop_consumer.py has written into it
    Heads         \* the sets of fields that the first part of a file may hold

\* A file or a part of one that is not there, or a text that load_json_object
\* refuses.
Unreadable == [unreadable |-> TRUE]

Decision == INSTANCE ReuseDecision WITH
    None <- Null, Empty <- Text(""), Malformed <- Text("malformed")

\* The receipt digest of a document is that of a receipt that was written: as
\* as_dict gave it to the producer, or kept by who altered the rest.
ASSUME Sealed ==
    \A document \in Documents :
        /\ "receipt_digest" \in DOMAIN document
        /\ \E written \in Documents :
              Receipt(written) # Rejected /\ document.receipt_digest = written.receipt_digest

VARIABLES
    file,      \* [head, tail]: the parts of the receipt file, each Unreadable
               \* or the document it belongs to
    producer,  \* [pc, document]: the process that writes it
    observed,  \* the action file
    process    \* the process that reads: pc, invocation, head and results

vars == <<file, producer, observed, process>>

-----------------------------------------------------------------------------
(* The parts of main *)

Gates == {"check", "verify"}

\* from_dict(load_json_object(path))
LoadReceipt(contents) == IF contents = Unreadable THEN Rejected ELSE Receipt(contents)
LoadAction(contents) == IF contents = Unreadable THEN Rejected ELSE Action(contents)

AsFunction(map) ==
    [key \in {member[1] : member \in map} |->
        (CHOOSE member \in map : member[1] = key)[2]]

\* _trust_policy, with the constructor of ReceiptTrustPolicy: an item of
\* --require-provenance is a pair of texts, empty where there is nothing.
Texts(names) == {BoundedText(Text(name)) : name \in names}
RequiredProvenance(items) ==
    StringMapping(Map({<<Text(items[i][1]), Text(items[i][2])>> : i \in DOMAIN items}))

MalformedFlags(flags) ==
    LET items == flags.require_provenance
    IN  \/ \E i \in DOMAIN items : "" \in {items[i][1], items[i][2]}
        \/ \E i, j \in DOMAIN items : i # j /\ items[i][1] = items[j][1]
        \/ Rejected \in Texts(flags.trusted_producer) \cup Texts(flags.trusted_cache_scope)
        \/ RequiredProvenance(items) = Rejected

TrustPolicy(flags) ==
    [allowed_producers    |-> Texts(flags.trusted_producer),
     allowed_cache_scopes |-> Texts(flags.trusted_cache_scope),
     required_provenance  |-> AsFunction(RequiredProvenance(flags.require_provenance)[2])]

\* A parsed document as evaluate sees it: enumerations, flags and mappings out
\* of their JSON wrapping.
SeenAction(action) ==
    [action[2] EXCEPT !.side_effect_class = @[2], !.dependency_completeness = @[2]]

SeenReceipt(content) ==
    [content[2] EXCEPT !.action = SeenAction(@), !.reuse_class = @[2],
                       !.provenance = AsFunction(@[2])]

Evaluated(action, receipt, flags) ==
    Decision!UpToValidator("intact", FALSE, SeenAction(action), SeenReceipt(receipt),
                           TrustPolicy(flags), flags.result_digest, FALSE).state

\* Mutant of ExitStatus: the alias "verify" reports and does not gate.
ExitStatus_CheckOnly(command, state) ==
    IF state = "error" THEN 2
    ELSE IF command # "check" \/ state = "REUSABLE_EXACT" THEN 0 ELSE 1

ExitStatus(command, state) ==
    IF state = "error" THEN 2
    ELSE IF command = "inspect" \/ state = "REUSABLE_EXACT" THEN 0 ELSE 1

-----------------------------------------------------------------------------
Nothing == [head |-> Unreadable, tail |-> Unreadable]
Idle == [pc |-> "idle"]

Init ==
    /\ file \in {Nothing} \cup {[head |-> d, tail |-> d] : d \in Documents}
    /\ producer = Idle
    /\ observed \in Observed
    /\ process = Idle

\* args.output.write_text(...): open for writing, ...
Truncate(document) ==
    /\ producer = Idle
    /\ producer' = [pc |-> "head", document |-> document]
    /\ file' = Nothing
    /\ UNCHANGED <<observed, process>>

\* ... write what the buffer holds, ...
WriteHead ==
    /\ producer.pc = "head"
    /\ producer' = [producer EXCEPT !.pc = "tail"]
    /\ file' = [file EXCEPT !.head = producer.document]
    /\ UNCHANGED <<observed, process>>

\* ... and the rest of it when the file is closed.
WriteTail ==
    /\ producer.pc = "tail"
    /\ producer' = Idle
    /\ file' = [file EXCEPT !.tail = producer.document]
    /\ UNCHANGED <<observed, process>>

\* The producer is killed and leaves what it has written.
Kill ==
    /\ producer # Idle
    /\ producer' = Idle
    /\ UNCHANGED <<file, observed, process>>

Observe(contents) ==
    /\ observed' = contents
    /\ UNCHANGED <<file, producer, process>>

-----------------------------------------------------------------------------
(* The reading process *)

Move(pc) == process' = [process EXCEPT !.pc = pc]
Exit(state, status) ==
    process' = [process EXCEPT !.pc = "exited", !.state = state, !.status = status]

Fresh(invocation) ==
    [pc |-> "head", invocation |-> invocation, head |-> Unreadable, receipt |-> Missing,
     action |-> Missing, state |-> "", status |-> 0]

\* Mutant of Start: --action is optional for every command.
Start_ActionOptional(invocation) ==
    /\ process = Idle
    /\ process' = Fresh(invocation)
    /\ UNCHANGED <<file, producer, observed>>

\* parse_args: a gate without --action is a usage error, status 2.
Start(invocation) ==
    /\ process = Idle
    /\ process' = IF invocation.command \in Gates /\ ~invocation.action
                  THEN [Fresh(invocation) EXCEPT !.pc = "exited", !.state = "error",
                                                 !.status = 2]
                  ELSE Fresh(invocation)
    /\ UNCHANGED <<file, producer, observed>>

\* The receipt file is opened and its first part read.
ReadHead ==
    /\ process.pc = "head"
    /\ process' = [process EXCEPT !.pc = "tail", !.head = file.head]
    /\ UNCHANGED <<file, producer, observed>>

\* Its second part, whatever was written meanwhile; a part that is missing
\* leaves a text that is no JSON object.
ReadTail(fields) ==
    LET contents == IF Unreadable \in {process.head, file.tail} THEN Unreadable
                    ELSE [f \in DOMAIN file.tail |->
                             IF f \in fields THEN process.head[f] ELSE file.tail[f]]
        receipt == LoadReceipt(contents)
    IN
    /\ process.pc = "tail"
    /\ process' = [process EXCEPT !.pc = IF receipt = Rejected THEN "failed" ELSE "action",
                                  !.head = Unreadable, !.receipt = receipt]
    /\ UNCHANGED <<file, producer, observed>>

\* The action file, or without one the receipt's own action.
ReadAction ==
    LET action == IF process.invocation.action THEN LoadAction(observed)
                  ELSE process.receipt[2].action
    IN
    /\ process.pc = "action"
    /\ process' = [process EXCEPT !.pc = IF action = Rejected THEN "failed" ELSE "decide",
                                  !.action = action]
    /\ UNCHANGED <<file, producer, observed>>

\* store.put, _trust_policy and evaluate: nothing of it leaves the process.
Decide ==
    LET invocation == process.invocation
        state == IF MalformedFlags(invocation.flags) THEN "error"
                 ELSE Evaluated(process.action, process.receipt, invocation.flags)
    IN
    /\ process.pc = "decide"
    /\ invocation.command # "consume"
    /\ Exit(state, ExitStatus(invocation.command, state))
    /\ UNCHANGED <<file, producer, observed>>

\* main catches what the files raise; in interop_consumer.py it ends the
\* process.
Fail ==
    /\ process.pc = "failed"
    /\ Exit("error", IF process.invocation.command = "consume" THEN 1 ELSE 2)
    /\ UNCHANGED <<file, producer, observed>>

\* interop_consumer.py: its own trust, the receipt's own action, and no status
\* that tells of the decision.
Consume ==
    /\ process.pc = "decide"
    /\ process.invocation.command = "consume"
    /\ Exit(Evaluated(process.action, process.receipt, Trusted), 0)
    /\ UNCHANGED <<file, producer, observed>>

Leave ==
    /\ process.pc = "exited"
    /\ process' = Idle
    /\ UNCHANGED <<file, producer, observed>>

Next ==
    \/ \E document \in Documents : Truncate(document)
    \/ WriteHead \/ WriteTail \/ Kill
    \/ \E contents \in Observed : Observe(contents)
    \/ \E invocation \in Invocations : Start(invocation)
    \/ ReadHead \/ \E fields \in Heads : ReadTail(fields)
    \/ ReadAction \/ Decide \/ Fail \/ Consume \/ Leave

Spec == Init /\ [][Next]_vars

-----------------------------------------------------------------------------
\* README.md:88-95: a gate exits 0 only for trusted exact evidence, and for
\* all of it: an action document given with --action, not the receipt's word
\* for it; a producer, a cache scope and a provenance that the flags name; the
\* result at hand, if one is given.  With no trust flags nothing passes, and
\* VERIFIED never does (cli.py:31-68, 87-116).
GateOpensExactlyOnEvidence ==
    process.pc = "exited" /\ process.invocation.command \in Gates =>
        LET flags == process.invocation.flags
            r == process.receipt
            a == process.action
        IN  process.status = 0 <=>
               /\ process.invocation.action
               /\ {r, a} \cap {Missing, Rejected} = {} /\ ~MalformedFlags(flags)
               /\ r[2].reuse_class = Text("EXACT")
               /\ Decision!ReuseEvidence("intact", FALSE, SeenAction(a), SeenReceipt(r),
                                         TrustPolicy(flags), flags.result_digest, "none")

\* The receipts that were written as a whole.
WrittenReceipts == {Receipt(document) : document \in Documents} \ {Rejected}

\* Whatever is decided is decided of a receipt that a producer wrote as a
\* whole, however its writes, its death and the two reads fall together
\* (interop_cli_producer.py:40-43, wire.py:103-109, protocol.py:447).
DecidesOnlyWrittenReceipts ==
    process.pc = "exited" /\ process.state # "error" =>
        process.receipt \in WrittenReceipts
=============================================================================
