------------------------------ MODULE Envelope ------------------------------
(***************************************************************************)
(* request.ParseLegacyEnvelope: the text of an audit request is split into  *)
(* parts at the semicolons, the first and last part have to be the control  *)
(* markers, and the parts between them are joined again into the SQL that   *)
(* the parser gets.  A text is a sequence of characters; a word of ordinary *)
(* text and a control marker count as one character each, a quote stands    *)
(* for the single or the double one, and bang for the ! (or T!), with the   *)
(* version after it, that makes a comment executable.  The directives in    *)
(* the leading comment are a sequence of fields, fields[i] = <<key, value>>.*)
(* The second half is the lexical structure of SQL, by which the parser     *)
(* (a library) reads a text: what the splitting is judged by.               *)
(***************************************************************************)
EXTENDS Integers, Sequences, SequencesExt

CONSTANTS MaxRequestBytes,   \* longest text
          MaxStatements,     \* most parts between the markers
          MaxStatementBytes  \* longest part

ASSUME SizesAssumption == {MaxRequestBytes, MaxStatements, MaxStatementBytes} \subseteq Nat

Space   == {"space", "nl"}
Quotes  == {"quote", "backtick"}
Markers == {"START", "COMMIT", "END"}

CharAt(text, i) == IF i \in DOMAIN text THEN text[i] ELSE "eof"

Trim(text, strip) ==
  LET kept == {i \in DOMAIN text : text[i] \notin strip}
  IN  IF kept = {} THEN <<>> ELSE SubSeq(text, Min(kept), Max(kept))
TrimSpace(text) == Trim(text, Space)

----------------------------------------------------------------------------
(* splitSQL.  The scanner is in code, in a comment or in a quote; skip is   *)
(* the i++ of the loop.                                                     *)
ScanStart == [mode |-> "code", escaped |-> FALSE, skip |-> FALSE, start |-> 1, parts |-> <<>>]

To(s, mode, skip) == [s EXCEPT !.mode = mode, !.skip = skip]

AppendPart(s, text, last) ==
  LET part == TrimSpace(SubSeq(text, s.start, last))
  IN  IF part = <<>> THEN s.parts ELSE Append(s.parts, part)

LineCommentAt(text, i) ==
  \/ text[i] = "#"
  \/ text[i] = "-" /\ CharAt(text, i + 1) = "-" /\ CharAt(text, i + 2) \in Space \cup {"eof"}

ScanCode(s, text, i) ==
  CASE text[i] = "/" /\ CharAt(text, i + 1) = "*" -> To(s, "block", TRUE)
    [] LineCommentAt(text, i) -> To(s, "line", text[i] = "-")
    [] text[i] \in Quotes -> To(s, text[i], FALSE)
    [] text[i] = "semicolon" -> [s EXCEPT !.parts = AppendPart(s, text, i - 1), !.start = i + 1]
    [] OTHER -> s

ScanQuoteEscaping(s, text, i) ==
  CASE s.escaped -> [s EXCEPT !.escaped = FALSE]
    [] ~s.escaped /\ text[i] = "backslash" -> [s EXCEPT !.escaped = TRUE]
    [] ~s.escaped /\ text[i] = s.mode ->
         IF CharAt(text, i + 1) = s.mode THEN [s EXCEPT !.skip = TRUE] ELSE To(s, "code", FALSE)
    [] OTHER -> s
ScanQuote(s, text, i) ==
  CASE s.escaped -> [s EXCEPT !.escaped = FALSE]
    [] ~s.escaped /\ text[i] = "backslash" /\ s.mode # "backtick" -> [s EXCEPT !.escaped = TRUE]
    [] ~s.escaped /\ text[i] = s.mode ->
         IF CharAt(text, i + 1) = s.mode THEN [s EXCEPT !.skip = TRUE] ELSE To(s, "code", FALSE)
    [] OTHER -> s

ScanChar(s, text, i) ==
  CASE s.skip -> [s EXCEPT !.skip = FALSE]
    [] ~s.skip /\ s.mode = "line" -> IF text[i] = "nl" THEN To(s, "code", FALSE) ELSE s
    [] ~s.skip /\ s.mode = "block" ->
         IF text[i] = "*" /\ CharAt(text, i + 1) = "/" THEN To(s, "code", TRUE) ELSE s
    [] ~s.skip /\ s.mode \in Quotes -> ScanQuote(s, text, i)
    [] ~s.skip /\ s.mode = "code" -> ScanCode(s, text, i)

Scan(text) ==
  LET scan[i \in 0 .. Len(text)] ==
        IF i = 0 THEN ScanStart ELSE ScanChar(scan[i - 1], text, i)
  IN  scan[Len(text)]

Unterminated(s) == s.mode = "block" \/ s.mode \in Quotes
splitSQL(text) ==
  LET s == Scan(text)
  IN  [ok |-> ~Unterminated(s),
       parts |-> IF Unterminated(s) THEN <<>> ELSE AppendPart(s, text, Len(text))]

----------------------------------------------------------------------------
(* The directives.  A value is a word, a number or nothing at all.          *)
Directives == {"host", "port", "user", "password", "db", "check", "execute", "backup", "sql_mode",
               "mysql_version", "ignore_warnings", "sleep", "sleep_rows", "trace_id"}

(* strings.ToLower of the spellings considered, and strings.ReplaceAll of   *)
(* the dashes in every key that becomes a directive by it.                  *)
ToLower(text) ==
  CASE text = "Trace-ID" -> "trace-id" [] text = "EXECUTE" -> "execute" [] text = "Host" -> "host"
    [] text = "ON" -> "on" [] text = "True" -> "true" [] text = "OFF" -> "off"
    [] OTHER -> text
Underscored(key) ==
  CASE key = "trace-id" -> "trace_id" [] key = "ignore-warnings" -> "ignore_warnings"
    [] key = "sleep-rows" -> "sleep_rows" [] key = "sql-mode" -> "sql_mode"
    [] key = "mysql-version" -> "mysql_version"
    [] OTHER -> key
canonicalDirective(key) == Underscored(ToLower(key))

KeysOf(fields) == {canonicalDirective(fields[i][1]) : i \in DOMAIN fields}

parseDirectives(fields) ==
  [ok |-> /\ KeysOf(fields) \subseteq Directives
          /\ \A i, j \in DOMAIN fields :
               canonicalDirective(fields[i][1]) = canonicalDirective(fields[j][1]) => i = j,
   values |-> [key \in KeysOf(fields) |->
                 fields[CHOOSE i \in DOMAIN fields : canonicalDirective(fields[i][1]) = key][2]]]

Value(values, key) == IF key \in DOMAIN values THEN values[key] ELSE ""

(* The numerals a value may be, and what strconv makes of them.             *)
Numerals == [n \in {"0", "1", "7", "100001", "65536"} |->
               CASE n = "0" -> 0 [] n = "1" -> 1 [] n = "7" -> 7
                 [] n = "100001" -> 100001 [] n = "65536" -> 65536]
Number(value) == IF value = "" THEN 0 ELSE Numerals[value]

ValidInt(value, max) == value = "" \/ (value \in DOMAIN Numerals /\ Numerals[value] <= max)
ValidPort(value)     == value = "" \/ (ValidInt(value, 65535) /\ Number(value) # 0)

Yes == {"1", "true", "on"}
No  == {"0", "false", "off"}
ValidBool(values, key) == key \in DOMAIN values => ToLower(values[key]) \in Yes \cup No
parseBool(values, key, fallback) == IF key \in DOMAIN values THEN ToLower(values[key]) \in Yes ELSE fallback

ValidOptions(values) ==
  /\ ValidPort(Value(values, "port"))
  /\ \A key \in {"check", "execute", "backup", "ignore_warnings"} : ValidBool(values, key)
  /\ Value(values, "host") # "" /\ Value(values, "user") # ""
  /\ parseBool(values, "backup", FALSE) => parseBool(values, "execute", FALSE)
  /\ ValidInt(Value(values, "sleep"), 100000)
  /\ ValidInt(Value(values, "sleep_rows"), 2 ^ 30)

SleepRows(values) ==
  LET rows == Number(Value(values, "sleep_rows"))
  IN  CASE Number(Value(values, "sleep")) = 0 -> 0
        [] Number(Value(values, "sleep")) > 0 /\ rows = 0 -> 1
        [] OTHER -> rows

Options(values) ==
  [execute |-> parseBool(values, "execute", FALSE), backup |-> parseBool(values, "backup", FALSE),
   ignoreWarnings |-> parseBool(values, "ignore_warnings", FALSE), sleepRows |-> SleepRows(values)]

----------------------------------------------------------------------------
(* The whole of ParseLegacyEnvelope.                                        *)
JoinWithoutNewline(parts) == FlattenSeq([i \in DOMAIN parts |-> parts[i] \o <<"semicolon">>])
JoinParts(parts) ==
  FlattenSeq([i \in DOMAIN parts |->
                parts[i] \o (IF i < Len(parts) THEN <<"semicolon", "nl">> ELSE <<"semicolon">>)])

markerEquals(part, marker) == part = <<marker>>

WellFramed(parts) ==
  /\ Len(parts) >= 3
  /\ markerEquals(parts[1], "START")
  /\ markerEquals(Last(parts), "COMMIT") \/ markerEquals(Last(parts), "END")
  /\ \A i \in 2 .. Len(parts) - 1 : \A m \in Markers : ~markerEquals(parts[i], m)

BodyWithoutLast(parts) == SubSeq(parts, 2, Len(parts) - 2)
Body(parts) == SubSeq(parts, 2, Len(parts) - 1)

NoEnvelope == [ok |-> FALSE]
ParseLegacyEnvelope(fields, text) ==
  LET split == splitSQL(text)
      body  == Body(split.parts)
      dir   == parseDirectives(fields)
  IN  IF /\ Len(text) <= MaxRequestBytes
         /\ split.ok /\ WellFramed(split.parts)
         /\ Len(body) <= MaxStatements
         /\ \A i \in DOMAIN body : Len(body[i]) <= MaxStatementBytes
         /\ dir.ok /\ ValidOptions(dir.values)
      THEN [ok |-> TRUE, options |-> Options(dir.values), body |-> body, sql |-> JoinParts(body)]
      ELSE NoEnvelope

----------------------------------------------------------------------------
(* SQL by its lexical rules: at position i a comment, a quoted text or a    *)
(* single character begins, and End is its last position.  Under            *)
(* NO_BACKSLASH_ESCAPES a backslash is an ordinary character.  What an      *)
(* executable comment holds is code: only its opening is like a comment,    *)
(* and, while one is open, the star and slash that close it.                *)
FirstOf(S, text) == IF S = {} THEN Len(text) + 1 ELSE Min(S)

Escaped(text, open, i, mode) ==
  /\ mode # "NO_BACKSLASH_ESCAPES" /\ text[open] # "backtick"
  /\ \E k \in open + 1 .. i - 1 : /\ \A j \in k .. i - 1 : text[j] = "backslash"
                                  /\ text[k - 1] # "backslash"
                                  /\ (i - k) % 2 = 1

(* A quoted text ends with the last quote of the first run of quotes of odd *)
(* length that no backslash escapes.                                        *)
ClosesAt(text, open, i, mode) ==
  LET quote(j) == text[j] = text[open] /\ ~Escaped(text, open, j, mode)
  IN  /\ CharAt(text, i + 1) # text[open]
      /\ \E first \in open + 1 .. i :
           /\ \A j \in first .. i : quote(j)
           /\ first = open + 1 \/ ~quote(first - 1)
           /\ (i - first) % 2 = 0

KindAt(text, i) ==
  CASE text[i] = "#" -> "line"
    [] text[i] = "-" /\ CharAt(text, i + 1) = "-" /\ CharAt(text, i + 2) \in Space \cup {"eof"} -> "line"
    [] text[i] = "/" /\ CharAt(text, i + 1) = "*" ->
         IF CharAt(text, i + 2) = "bang" THEN "opens" ELSE "block"
    [] text[i] \in Quotes -> "quoted"
    [] text[i] \in Space -> "space"
    [] OTHER -> "char"

BlockEnd(text, i) == FirstOf({j \in i + 3 .. Len(text) : text[j - 1] = "*" /\ text[j] = "/"}, text)
EndAt(text, i, mode) ==
  CASE KindAt(text, i) = "line"   -> FirstOf({j \in i .. Len(text) : text[j] = "nl"}, text)
    [] KindAt(text, i) = "block"  -> BlockEnd(text, i)
    [] KindAt(text, i) = "opens"  -> i + 2
    [] KindAt(text, i) = "quoted" -> FirstOf({j \in i + 1 .. Len(text) : ClosesAt(text, i, j, mode)}, text)
    [] OTHER -> i

(* The positions where something begins: those that what began before them  *)
(* does not reach; open: an executable comment is.                          *)
LexStart == [end |-> 0, open |-> FALSE, begins |-> {}]
LexChar(l, text, i, mode) ==
  IF l.end >= i THEN l
  ELSE IF l.open /\ text[i] = "*" /\ CharAt(text, i + 1) = "/"
  THEN [l EXCEPT !.end = i + 1, !.open = FALSE]
  ELSE [end |-> EndAt(text, i, mode), open |-> l.open \/ KindAt(text, i) = "opens", begins |-> l.begins \cup {i}]
Lex(text, mode) ==
  LET lex[i \in 0 .. Len(text)] == IF i = 0 THEN LexStart ELSE LexChar(lex[i - 1], text, i, mode)
  IN  lex[Len(text)]
Begins(text, mode) == Lex(text, mode).begins

Terminated(text, mode) ==
  /\ ~Lex(text, mode).open
  /\ \A i \in Begins(text, mode) :
       KindAt(text, i) \in {"block", "quoted"} => EndAt(text, i, mode) <= Len(text)

(* An executable comment holds, before its first star and slash, what       *)
(* matters to the splitting: a semicolon, a quoted text or a comment.       *)
HoldsAt(text, i) == text[i] = "semicolon" \/ KindAt(text, i) \in {"line", "block", "opens", "quoted"}
HoldsCode(text, mode) ==
  \E i \in Begins(text, mode) :
    KindAt(text, i) = "opens" /\ \E j \in i + 3 .. BlockEnd(text, i) - 1 : HoldsAt(text, j)

(* What lies between the semicolons that are neither commented nor quoted.  *)
InOrder(S, n) ==
  LET order[i \in 0 .. n] ==
        IF i = 0 THEN <<>> ELSE IF i \in S THEN Append(order[i - 1], i) ELSE order[i - 1]
  IN  order[n]
Pieces(text, mode) ==
  LET cuts == {i \in Begins(text, mode) : text[i] = "semicolon"} \cup {Len(text) + 1}
      ends == InOrder(cuts, Len(text) + 1)
  IN  [k \in DOMAIN ends |-> [first |-> IF k = 1 THEN 1 ELSE ends[k - 1] + 1, last |-> ends[k] - 1]]

NonEmpty(texts) ==
  LET some[k \in 0 .. Len(texts)] ==
        IF k = 0 THEN <<>> ELSE IF texts[k] = <<>> THEN some[k - 1] ELSE Append(some[k - 1], texts[k])
  IN  some[Len(texts)]
PieceTexts(text, mode) ==
  LET pieces == Pieces(text, mode)
  IN  NonEmpty([k \in DOMAIN pieces |-> TrimSpace(SubSeq(text, pieces[k].first, pieces[k].last))])

(* The statements of a text: the pieces without spaces and comments, and    *)
(* without what opens and closes an executable comment, as far as anything  *)
(* is left of them.                                                         *)
Statements(text, mode) ==
  LET pieces == Pieces(text, mode)
      begins == Begins(text, mode)
      kept(i) == \E b \in begins : /\ b <= i /\ i <= EndAt(text, b, mode)
                                   /\ KindAt(text, b) \in {"quoted", "char"}
      significant(p) == LET is == SelectSeq([n \in 1 .. p.last |-> n], LAMBDA i : i >= p.first /\ kept(i))
                        IN  [n \in DOMAIN is |-> text[is[n]]]
  IN  NonEmpty([k \in DOMAIN pieces |-> significant(pieces[k])])

(* A part that ends in a line comment, whose newline TrimSpace removes, and *)
(* one that ends with the bare dashes of such a comment.                    *)
EndsInLineComment(part, mode) ==
  \E i \in Begins(part, mode) : KindAt(part, i) = "line" /\ EndAt(part, i, mode) > Len(part)
EndsInDashes(part, mode) ==
  EndsInLineComment(part, mode) /\ Len(part) - 1 \in Begins(part, mode) /\ CharAt(part, Len(part) - 1) = "-"
=============================================================================
