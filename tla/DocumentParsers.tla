--------------------------- MODULE DocumentParsers ---------------------------
(***************************************************************************)
(* Receipt documents before the four parsers.  What Python accepts it can  *)
(* write again, and all parsers read that.                                 *)
(***************************************************************************)
EXTENDS DocumentCases

CONSTANT Documents   \* receipt documents: records of JSON values

\* A text is nothing but its type and its payload; a map or an array has finitely
\* many members, and those of an array are in order.
IsJson(value) ==
    /\ value[1] = "text" => value = Text(value[2])
    /\ value[1] = "map" => IsFiniteSet(value[2])
    /\ value[1] = "array" => Len(value[2]) \in Nat /\ DOMAIN value[2] = 1..Len(value[2])

\* The members of a record.
AreJson(document) == \A f \in DOMAIN document : IsJson(document[f])

ActionFields == RequiredOfActions \cup
    {"trust_scope", "environment", "dependencies", "side_effect_class",
     "authorization_scope_digest", "freshness", "validator_identity", "extra"}

ReceiptFields == RequiredOfReceipts \cup
    {"result_reference", "provenance", "revocation_ref", "validator_identity",
     "execution_metadata", "economics", "receipt_digest", "extra"}

ASSUME DocumentsAreJson ==
    \A document \in Documents :
        /\ DOMAIN document = ReceiptFields /\ AreJson(document)
        /\ document.action[1] = "object" =>
              DOMAIN document.action[2] = ActionFields /\ AreJson(document.action[2])

VARIABLES doc, parsed, reread   \* a document, as read, and as read from Python's writing

documentVars == <<doc, parsed, reread>>

InGo         == INSTANCE GoDocuments
InTypeScript == INSTANCE TypeScriptDocuments
InDotNet     == INSTANCE DotNetDocuments

Parsers == {"python", "go", "typescript", "dotnet"}

Parse(document) == [parser \in Parsers |->
    CASE parser = "python"     -> Receipt(document)
      [] parser = "go"         -> InGo!ParseReceipt(document)
      [] parser = "typescript" -> InTypeScript!ParseReceipt(document)
      [] parser = "dotnet"     -> InDotNet!ParseReceipt(document)]

Unread == [parser \in Parsers |-> Missing]

-----------------------------------------------------------------------------
DocumentInit ==
    /\ doc \in Documents
    /\ parsed = Unread
    /\ reread = Unread

Read ==
    /\ parsed = Unread
    /\ parsed' = Parse(doc)
    /\ UNCHANGED <<doc, reread>>

\* The Python implementation writes what it read, and everyone reads that.
Reissue ==
    /\ parsed # Unread
    /\ reread = Unread
    /\ parsed["python"] # Rejected
    /\ reread' = Parse(ReceiptAsDict(parsed["python"]))
    /\ UNCHANGED <<doc, parsed>>

DocumentNext == Read \/ Reissue

DocumentSpec == DocumentInit /\ [][DocumentNext]_documentVars

-----------------------------------------------------------------------------
\* An optional text of the document is there and empty.
CarriesEmptyText(document) ==
    \/ \E f \in {"result_reference", "revocation_ref", "validator_identity"} :
          document[f] = Text("")
    \/ document.action[1] = "object" /\ document.action[2].validator_identity = Text("")

\* The side effect class of the action is one of the classes only in normal form.
CarriesRespelledClass(document) ==
    LET class == document.action[2].side_effect_class
    IN  document.action[1] = "object" /\ class[1] = "text"
        /\ class[2] \notin SideEffects /\ NFC(class[2]) \in SideEffects

\* TypeScript's canonical form has no empty text (verifier.ts:116), and Python looks
\* the side effect class up as it came (protocol.py:258-260).
RefusedBy(parser, document) ==
    \/ parser = "typescript" /\ CarriesEmptyText(document)
    \/ parser = "python" /\ CarriesRespelledClass(document)

\* The parsers accept the same documents and read the same receipt out of
\* them, defaults, normal forms and order included: from_dict
\* (protocol.py:225, 387), ParseReceipt (verifier.go:648), parseReceipt
\* (verifier.ts:386) and ParseReceipt (Oncefold.cs:525).  There are two
\* exceptions.  TypeScript refuses every document with an optional text that
\* is empty; and Python refuses a side effect class that is spelled with
\* another character than in normal form, where the others normalize it first
\* (verifier.go:611, verifier.ts:362, Oncefold.cs:490) and read UNKNOWN.
ParsersAgree ==
    parsed # Unread =>
        \A parser \in Parsers :
            parsed[parser] = IF RefusedBy(parser, doc) THEN Rejected ELSE parsed["go"]

\* A document whose digests are those of the base receipt is read as the
\* base receipt or not at all, by every parser: nothing in it can be altered
\* but its spelling.
AlterationIsDetected ==
    parsed # Unread /\ doc.receipt_digest = BaseDocument.receipt_digest =>
        \A parser \in Parsers : parsed[parser] \in {BaseContent, Rejected}

\* What Python accepts and writes again has the same digest, whatever the
\* spelling it came in, and the other parsers read the same receipt from it
\* (as_dict, protocol.py:201, 353), but for TypeScript's empty texts.
ReissueKeepsReceipt ==
    reread # Unread =>
        \A parser \in Parsers : reread[parser] =
            IF parser = "typescript" /\ CarriesEmptyText(doc) THEN Rejected ELSE parsed["python"]
=============================================================================
