--------------------------- MODULE MCAuditRequest ---------------------------
(* Every short body, bodies put together from lexical fragments, texts with *)
(* misplaced markers, the directives one by one, and a few batches audited  *)
(* while other connections change the levels of the rules.                  *)
EXTENDS AuditRequest

CONSTANTS r1, r2, n1, q1, t1, T1

MCCodes == {r1, r2}
MCLegacy == {n1}
MCRuleOf == [n \in MCLegacy |-> r1]
MCLimits == {-1, 0, 1}
MCRequests == {q1}
MCDefaultLevel == [c \in MCCodes |-> IF c = r1 THEN 2 ELSE 1]
MCBreaks == [w \in {"a", "b", "c"} |-> IF w = "b" THEN {r2} ELSE {}]
MCAlters == [w \in {"a", "b", "c"} |-> CASE w = "a" -> t1 [] w = "b" -> NoTable [] w = "c" -> T1]
MCLowerName == [t \in {t1, T1} |-> t1]

semi == "semicolon"
Chars == {"a", "b", "space", "nl", semi, "quote", "backtick", "backslash", "-", "/", "*", "#", "bang"}
ShortBodies == UNION {[1 .. n -> Chars] : n \in 1 .. 3} \cup [1 .. 4 -> Chars \ {"a", "#", "space"}]

Fragments ==
  { <<"a">>, <<"b">>, <<semi>>, <<"space">>,
    <<"-", "-", "space", semi, "nl">>, <<"-", "-", semi>>, <<"#", "quote", "nl">>,
    <<"/", "*", semi, "*", "/">>, <<"/", "*", "/">>,
    <<"/", "*", "bang", "*", "/">>, <<"/", "*", "bang", "b", "*", "/">>,
    <<"/", "*", "bang", semi, "*", "/">>, <<"/", "*", "bang", "quote", "*", "/">>,
    <<"quote", semi, "quote">>, <<"quote", "backslash", "quote", semi, "quote">>,
    <<"quote", "quote", "quote", semi, "quote">>, <<"quote", "backslash", "backslash", "quote">>,
    <<"backtick", "backslash", "backtick">>, <<"quote", "COMMIT", semi, "quote">> }
FragmentBodies == {FlattenSeq(f) : f \in UNION {[1 .. n -> Fragments] : n \in 1 .. 3}}

(* Cut by the splitter in a quoted text of an executable comment, after     *)
(* which it takes the comment at the end of the part for a quoted text.     *)
CutInExecutable ==
  <<"a", "/", "*", "bang", "quote", "*", "/", semi, "quote", "*", "/", "-", "-", "space", "quote", "nl", semi, "b">>

TwoStatements == {<<"a">> \o f \o <<semi>> \o g \o <<"b">> : f, g \in Fragments}

Framed(body) == <<"START", semi>> \o body \o <<semi, "COMMIT", semi>>

Target == << <<"host", "h">>, <<"user", "u">> >>
Execute == Append(Target, <<"execute", "1">>)
Ignoring == Append(Execute, <<"ignore-warnings", "1">>)

MisframedTexts ==
  { <<"a", semi>>, <<"START", semi, "COMMIT", semi>>, <<"START", semi, "a", semi>>,
    <<"COMMIT", semi, "a", semi, "START", semi>>, Framed(<<"a", semi, "START", semi, "b">>),
    Framed(<<"a", semi, "END", semi, "b">>), Framed(<<"a", semi, "b", semi, "a", semi, "b">>) }
LongTexts == {Framed(<<"a">> \o [i \in 1 .. n |-> "space"]) : n \in {24, 25, 34, 35}}

MoreFields ==
  { <<>>, << <<"host", "">>, <<"user", "u">> >>, << <<"host", "h">> >>,
    Append(Target, <<"host", "h">>), Append(Target, <<"unknown", "1">>), Append(Target, <<"port", "0">>),
    Append(Target, <<"port", "65536">>), Append(Target, <<"check", "7">>), Append(Target, <<"backup", "True">>),
    Append(Execute, <<"EXECUTE", "0">>), Append(Execute, <<"backup", "1">>), Append(Execute, <<"sleep", "100001">>),
    Append(Execute, <<"sleep", "7">>), Append(Execute, <<"sleep-rows", "7">>),
    Append(Append(Execute, <<"sleep", "1">>), <<"sleep_rows", "7">>),
    Ignoring,
    Append(Target, <<"execute", "ON">>), Append(Target, <<"EXECUTE", "1">>), Append(Execute, <<"backup", "OFF">>),
    << <<"Host", "h">>, <<"user", "u">>, <<"execute", "off">>, <<"sql-mode", "x">> >>,
    << <<"Trace-ID", "x">>, <<"trace_id", "y">> >> \o Target }
Batches == { <<"b", semi, "b">>, <<"a", semi, "a">>, <<"c", semi, "a", semi, "c">> }

In(fields, text, auditOnly, sets) == [fields |-> fields, text |-> text, auditOnly |-> auditOnly, sets |-> sets]
MCInputs ==
  {In(Execute, Framed(b), FALSE, FALSE) : b \in ShortBodies}
  \cup {In(Ignoring, Framed(b), FALSE, FALSE) : b \in FragmentBodies \cup TwoStatements \cup {CutInExecutable}}
  \cup {In(Target, t, FALSE, FALSE) : t \in MisframedTexts \cup LongTexts}
  \cup {In(f, Framed(<<"a", semi, "b">>), only, FALSE) : f \in MoreFields, only \in BOOLEAN}
  \cup {In(Target, Framed(b), FALSE, TRUE) : b \in Batches}
=============================================================================
