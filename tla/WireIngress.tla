----------------------------- MODULE WireIngress -----------------------------
(***************************************************************************)
(* The JSON readers that stand before every protocol document: wire.py,    *)
(* its copy in conformance/stdlib_check.py, and those of the Go, the       *)
(* TypeScript and the .NET consumer.  A text is fed to all of them one     *)
(* symbol at a time, for texts of any length, and at its end each accepts  *)
(* or refuses it.                                                          *)
(*                                                                         *)
(* Python and Go read a text twice: a scan of the bytes that knows only    *)
(* brackets and quotes bounds the nesting, and only then a JSON parser     *)
(* runs.  Here both passes see a symbol together: a reader has refused     *)
(* when either has, and what one pass makes of a prefix does not depend on *)
(* the rest of the text.  TypeScript and .NET read once.                   *)
(*                                                                         *)
(* A symbol is a character, except that a literal (true, false, null), a   *)
(* number, "NaN" and the \uXXXX of an escape are one symbol each; "uD800"  *)
(* and "uDC00" stand for the high and the low surrogates, "separator" for  *)
(* a raw U+2028, "space" and "newline" for whitespace that a string may    *)
(* and may not contain, "a" for any other character.                       *)
(***************************************************************************)
EXTENDS Naturals, Sequences, FiniteSets

CONSTANTS
    MaxDepth,       \* MAX_JSON_DEPTH
    MaxCollection,  \* MAX_JSON_COLLECTION
    KeySymbols      \* bound: a key is empty or one of these

ASSUME WireBounds == MaxDepth \in Nat /\ MaxCollection \in Nat

VARIABLES
    readers,   \* [Readers -> what the reader has made of the text so far]
    past,      \* the text has grown past MAX_JSON_BYTES
    verdicts   \* [Readers -> "reading", "accepted" or "refused"]

vars == <<readers, past, verdicts>>

Readers == {"wire", "stdlib", "go", "typescript", "dotnet"}
Scanning == {"wire", "stdlib", "go"}

Opening == {"{", "["}
Closing == {"}", "]"}
Escapes == {"uD800", "uDC00", "u2028", "u0061"}
\* _reject_number, _reject_constant: no reader takes them.
Numbers == {"0", "NaN"}
Symbols == Opening \cup Closing \cup Escapes \cup Numbers
           \cup {":", ",", "quote", "backslash", "a", "null", "separator", "space", "newline"}

Refused == [refused |-> TRUE]

-----------------------------------------------------------------------------
(* The scan of the bytes. *)

FreshScan == [depth |-> 0, in_string |-> FALSE, escaped |-> FALSE, pair |-> "none"]

\* Mutant of CheckDepth: an escaped quote ends the string.
CheckDepth_NoEscapes(s, c) ==
    IF s.in_string THEN [s EXCEPT !.in_string = c # "quote"]
    ELSE IF c = "quote" THEN [s EXCEPT !.in_string = TRUE]
    ELSE IF c \in Opening
         THEN IF s.depth < MaxDepth THEN [s EXCEPT !.depth = @ + 1] ELSE Refused
    ELSE IF c \in Closing
         THEN IF s.depth > 0 THEN [s EXCEPT !.depth = @ - 1] ELSE Refused
    ELSE s

\* Mutant of CheckDepth: the bound is compared before the bracket is counted.
CheckDepth_OffByOne(s, c) ==
    IF s.in_string
    THEN IF s.escaped THEN [s EXCEPT !.escaped = FALSE]
         ELSE [s EXCEPT !.escaped = c = "backslash", !.in_string = c # "quote"]
    ELSE IF c = "quote" THEN [s EXCEPT !.in_string = TRUE]
    ELSE IF c \in Opening
         THEN IF s.depth > MaxDepth THEN Refused ELSE [s EXCEPT !.depth = @ + 1]
    ELSE IF c \in Closing
         THEN IF s.depth > 0 THEN [s EXCEPT !.depth = @ - 1] ELSE Refused
    ELSE s

\* wire.py, _check_depth
CheckDepth(s, c) ==
    IF s.in_string
    THEN IF s.escaped THEN [s EXCEPT !.escaped = FALSE]
         ELSE [s EXCEPT !.escaped = c = "backslash", !.in_string = c # "quote"]
    ELSE IF c = "quote" THEN [s EXCEPT !.in_string = TRUE]
    ELSE IF c \in Opening
         THEN IF s.depth < MaxDepth THEN [s EXCEPT !.depth = @ + 1] ELSE Refused
    ELSE IF c \in Closing
         THEN IF s.depth > 0 THEN [s EXCEPT !.depth = @ - 1] ELSE Refused
    ELSE s

\* stdlib_check.py, _depth: the same loop.
Depth(s, c) == CheckDepth(s, c)

\* verifier.go, validateJSONText: the same again, and a surrogate escape must
\* be a high one with a low one right behind it ("pair": what must follow).
ValidateJSONText(s, c) ==
    IF s.pair # "none"
    THEN IF c # s.pair THEN Refused
         ELSE IF c = "backslash" THEN [s EXCEPT !.pair = "uDC00", !.escaped = TRUE]
         ELSE [s EXCEPT !.pair = "none", !.escaped = FALSE]
    ELSE IF s.escaped /\ c = "uDC00" THEN Refused
    ELSE IF s.escaped /\ c = "uD800" THEN [s EXCEPT !.pair = "backslash", !.escaped = FALSE]
    ELSE CheckDepth(s, c)

Scan(r, s, c) ==
    CASE r = "wire"   -> CheckDepth(s, c)
      [] r = "stdlib" -> Depth(s, c)
      [] r = "go"     -> ValidateJSONText(s, c)
      [] OTHER        -> s

-----------------------------------------------------------------------------
(* The checks each reader adds to the grammar, at the place of its code. *)

Duplicates(frame) == Cardinality(frame.keys) # frame.size

\* Mutant of RejectDuplicateKeys: the last of two equal keys wins.
RejectDuplicateKeys_LastWins(frame) == frame.size > MaxCollection

\* wire.py, _reject_duplicate_keys: called with the pairs of a closed object.
RejectDuplicateKeys(frame) == frame.size > MaxCollection \/ Duplicates(frame)

\* stdlib_check.py, _unique: the same.
Unique(frame) == RejectDuplicateKeys(frame)

\* wire.py, _check_unicode, walks the value of a whole document: texts with
\* lone surrogates or line separators, and arrays above the bound, are
\* remembered until then.
CheckUnicode(p) == ~p.late

\* stdlib_check.py, check_unicode: the same.
StdlibCheckUnicode(p) == CheckUnicode(p)

RefusesOpening(r, depth) == r \in {"go", "typescript", "dotnet"} /\ depth > MaxDepth

RefusesClosing(r, frame) ==
    /\ frame.kind = "{"
    /\ \/ r = "wire" /\ RejectDuplicateKeys(frame)
       \/ r = "stdlib" /\ Unique(frame)

\* Go, TypeScript and .NET look a key up when they have read it, and count
\* the members after each.
RefusesKey(r, frame, key) == r \in {"go", "typescript", "dotnet"} /\ key \in frame.keys

RefusesMember(r, frame) == r \in {"go", "typescript", "dotnet"} /\ frame.size > MaxCollection

\* A character of a string: ParseString of .NET refuses a lone surrogate where
\* it stands.  A complete string: TypeScript (assertWellFormed) and .NET
\* (ValidateIngressString) look at its characters, Go at its separators.
RefusesCharacter(r, units) == r = "dotnet" /\ units = "lone"

RefusesString(r, units) ==
    CASE r \in {"typescript", "dotnet"} -> units # "plain"
      [] r = "go"                       -> units = "separator"
      [] OTHER                          -> FALSE

-----------------------------------------------------------------------------
(* The grammar.  Python calls json.loads and Go json.Decoder; TypeScript and *)
(* .NET descend recursively (parseValue, parseObjectValue, parseArrayValue), *)
(* a frame of the stack being one of their calls and "place" where it is.    *)

FreshParser ==
    [stack |-> <<>>, place |-> "value", is_key |-> FALSE, key |-> "", units |-> "plain",
     object |-> FALSE, late |-> FALSE]

Top(p) == p.stack[Len(p.stack)]
WithTop(p, frame) == [p.stack EXCEPT ![Len(p.stack)] = frame]
Inside(p, kind) == p.stack # <<>> /\ Top(p).kind = kind
InString(p) == p.place \in {"string", "escape"}

ExpectsValue(p) == p.place = "value" \/ (p.place = "first" /\ Inside(p, "["))
ExpectsKey(p) == p.place = "key" \/ (p.place = "first" /\ Inside(p, "{"))

\* A value is complete: the next member of what it is in, or the end.
Completed(r, p) ==
    IF p.stack = <<>> THEN [p EXCEPT !.place = "end"]
    ELSE LET frame == [Top(p) EXCEPT !.size = IF @ > MaxCollection THEN @ ELSE @ + 1]
         IN  IF RefusesMember(r, frame) THEN Refused
             ELSE [p EXCEPT !.stack = WithTop(p, frame), !.place = "next"]

Open(r, p, c) ==
    IF RefusesOpening(r, Len(p.stack) + 1) THEN Refused
    ELSE [p EXCEPT !.stack = Append(@, [kind |-> c, keys |-> {}, size |-> 0]),
                   !.place = "first", !.object = IF p.stack = <<>> THEN c = "{" ELSE @]

Close(r, p) ==
    IF RefusesClosing(r, Top(p)) THEN Refused
    ELSE Completed(r, [p EXCEPT !.stack = SubSeq(@, 1, Len(@) - 1),
                                !.late = @ \/ Top(p).size > MaxCollection])

\* Outside of strings.
Structure(r, p, c) ==
    CASE c \in Numbers -> Refused
      [] c \in {"space", "newline"} -> p
      [] c \in Opening /\ ExpectsValue(p) -> Open(r, p, c)
      [] c = "null" /\ ExpectsValue(p) -> Completed(r, p)
      [] c = "quote" /\ ExpectsValue(p) ->
            [p EXCEPT !.place = "string", !.is_key = FALSE]
      [] c = "quote" /\ ExpectsKey(p) ->
            [p EXCEPT !.place = "string", !.is_key = TRUE]
      [] c = ":" /\ p.place = "colon" -> [p EXCEPT !.place = "value"]
      [] c = "," /\ p.place = "next" ->
            [p EXCEPT !.place = IF Inside(p, "{") THEN "key" ELSE "value"]
      [] c = "}" /\ p.place \in {"first", "next"} /\ Inside(p, "{") -> Close(r, p)
      [] c = "]" /\ p.place \in {"first", "next"} /\ Inside(p, "[") -> Close(r, p)
      [] OTHER -> Refused

\* One more character of a string.  units: "high" after a high surrogate.
Character(r, p, c) ==
    LET units ==
            IF p.units \in {"lone", "separator"} THEN p.units
            ELSE IF p.units = "high" /\ c = "uDC00" THEN "plain"
            ELSE IF p.units = "high" \/ c = "uDC00" THEN "lone"
            ELSE CASE c = "uD800"                  -> "high"
                   [] c \in {"separator", "u2028"} -> "separator"
                   [] OTHER                        -> "plain"
    IN  IF RefusesCharacter(r, units) THEN Refused
        ELSE [p EXCEPT !.place = "string", !.units = units,
                       !.key = IF ~p.is_key THEN @ ELSE IF c = "u0061" THEN "a" ELSE c]

EndOfString(r, p) ==
    LET q == [p EXCEPT !.units = "plain", !.key = "", !.is_key = FALSE,
                       !.late = @ \/ p.units # "plain"]
    IN  IF RefusesString(r, p.units) THEN Refused
        ELSE IF ~p.is_key THEN Completed(r, q)
        ELSE IF RefusesKey(r, Top(p), p.key) THEN Refused
        ELSE [q EXCEPT !.place = "colon",
                       !.stack = WithTop(p, [Top(p) EXCEPT !.keys = @ \cup {p.key}])]

Parse(r, p, c) ==
    CASE p.place = "escape" ->
            IF c \in Escapes \cup {"quote", "backslash"} THEN Character(r, p, c) ELSE Refused
      [] p.place = "string" /\ c = "backslash" -> [p EXCEPT !.place = "escape"]
      [] p.place = "string" /\ c = "quote"     -> EndOfString(r, p)
      [] p.place = "string" /\ c = "newline"   -> Refused
      [] p.place = "string" /\ c \notin {"backslash", "quote", "newline"} -> Character(r, p, c)
      [] OTHER -> Structure(r, p, c)

\* The next symbol.  The size is compared before anything is parsed, so a text
\* that a reader has seen grow past the bound is refused.
Read(r, reader, c, grown) ==
    IF reader = Refused \/ grown THEN Refused
    ELSE LET scan   == Scan(r, reader.scan, c)
             parser == Parse(r, reader.parser, c)
         IN  IF Refused \in {scan, parser} THEN Refused
             ELSE [scan |-> scan, parser |-> parser]

-----------------------------------------------------------------------------
Reading == [r \in Readers |-> "reading"]

Init ==
    /\ readers = [r \in Readers |-> [scan |-> FreshScan, parser |-> FreshParser]]
    /\ past = FALSE
    /\ verdicts = Reading

\* The texts that are fed: keys as KeySymbols has them, and \u escapes only
\* after a backslash (elsewhere they are five letters).
Spellable(c) ==
    \A r \in Readers : readers[r] # Refused =>
        LET p == readers[r].parser IN
        /\ c \in Escapes => p.place = "escape"
        /\ InString(p) /\ p.is_key =>
              \/ c = "quote" /\ p.place = "string"
              \/ p.key = "" /\ (c = "backslash" \/ c \in KeySymbols \cup {"u0061"})

\* Mutant of Seen: the file is read up to the bound and not a byte further.
Seen_ToTheBound(r, grown) == r # "wire" \/ ~grown

\* load_json_object reads one byte past the bound and no more; the others have
\* the whole text.  The symbol that grows past the bound is seen.
Seen(r, grown) == r # "wire" \/ ~past

Feed(c, grown) ==
    /\ verdicts = Reading
    /\ \E r \in Readers : readers[r] # Refused
    /\ Spellable(c)
    /\ past => grown
    /\ past' = grown
    /\ readers' = [r \in Readers |->
                      IF Seen(r, grown) THEN Read(r, readers[r], c, grown) ELSE readers[r]]
    /\ UNCHANGED verdicts

\* The end of the text: a complete value, an object at the top, and what
\* Python's walk of the value finds.
Accepts(r) ==
    /\ readers[r] # Refused
    /\ readers[r].parser.place = "end"
    /\ readers[r].parser.object
    /\ r = "wire" => CheckUnicode(readers[r].parser)
    /\ r = "stdlib" => StdlibCheckUnicode(readers[r].parser)

Finish ==
    /\ verdicts = Reading
    /\ verdicts' = [r \in Readers |-> IF Accepts(r) THEN "accepted" ELSE "refused"]
    /\ UNCHANGED <<readers, past>>

Next == Finish \/ \E c \in Symbols, grown \in BOOLEAN : Feed(c, grown)

Spec == Init /\ [][Next]_vars

-----------------------------------------------------------------------------
Keys == KeySymbols \cup {"", "a", "quote", "backslash"}
Frames == [kind : Opening, keys : SUBSET Keys, size : 0..(MaxCollection + 1)]

Scans == [depth : 0..MaxDepth, in_string : BOOLEAN, escaped : BOOLEAN,
          pair : {"none", "backslash", "uDC00"}]

Parsers == [stack : Seq(Frames),
            place : {"value", "first", "key", "colon", "next", "end", "string", "escape"},
            is_key : BOOLEAN, key : Keys, units : {"plain", "high", "lone", "separator"},
            object : BOOLEAN, late : BOOLEAN]

ReadersTypeOK ==
    /\ \A r \in Readers : readers[r] = Refused \/ readers[r] \in [scan : Scans, parser : Parsers]
    /\ past \in BOOLEAN
    /\ verdicts \in [Readers -> {"reading", "accepted", "refused"}]

\* What the byte scan counts is what the parser behind it nests: no bracket,
\* quote or escape inside a text and no malformed prefix sets the two apart,
\* so no parser ever nests deeper than the bound, the recursive ones of
\* json.loads included, which do not count (wire.py:32-53, verifier.go:196-255).
NestingIsGuarded ==
    \A r \in Readers : readers[r] # Refused =>
        LET scan == readers[r].scan
            p    == readers[r].parser
        IN  /\ Len(p.stack) <= MaxDepth
            /\ r \in Scanning =>
                  /\ scan.depth = Len(p.stack)
                  /\ scan.in_string = InString(p)
                  /\ scan.escaped = (p.place = "escape")

\* Whatever the text, all readers accept it or none does: two passes or one,
\* duplicates found at a key or at the end of an object, surrogates while
\* reading or afterwards (wire.py:75-102, stdlib_check.py:65-80,
\* verifier.go:323-355, verifier.ts:292-295, Oncefold.cs:232-251).
ReadersAgree ==
    verdicts # Reading => \A r \in Readers : verdicts[r] = verdicts["wire"]
=============================================================================
