---------------------------- MODULE AuditRequest ----------------------------
(***************************************************************************)
(* One audit request from the text a client sends to the records it gets:   *)
(* HandleQuery, ParseLegacyEnvelope, and the part of Session.Audit before   *)
(* the execution, composed with the settings other clients change meanwhile *)
(* (module RuntimeConfig).  A statement is a word; what it is found to      *)
(* break, and the table it alters, are constants.  What a statement does to *)
(* the schema snapshot is module Snapshot, its execution module Execution.  *)
(***************************************************************************)
EXTENDS RuntimeConfig, Envelope

CONSTANTS Inputs,       \* the requests considered
          Req,          \* the request, as RuntimeConfig knows it
          MaxPacket,    \* server.max_allowed_packet
          AlterOnce,    \* the RuleID of one ALTER per table and batch
          Breaks,       \* the other RuleIDs each word breaks
          Alters,       \* the table each word alters
          NoTable,      \* ... if it is no ALTER TABLE
          LowerName     \* strings.ToLower of schema.table, for each table

Words == DOMAIN Breaks

ASSUME ReqAssumption == Req \in Requests
ASSUME WordsAssumption ==
  /\ Breaks \in [Words -> SUBSET (Codes \ {AlterOnce})]
  /\ DOMAIN Alters = Words /\ AlterOnce \in Codes
ASSUME InputsAssumption ==
  \A i \in Inputs : /\ DOMAIN i = {"fields", "text", "auditOnly", "sets"}
                    /\ {i.auditOnly, i.sets} \subseteq BOOLEAN
                    /\ i.fields \in Seq(STRING \X STRING) /\ i.text \in Seq(STRING)

VARIABLES
  input,    \* what the client sends, and whether others set levels meanwhile
  pc,       \* where HandleQuery and Session.Audit stand
  envelope, \* ParseLegacyEnvelope's result
  sqlMode,  \* the SQL mode the parser is given
  stmts,    \* parseResult.Statements, and whether the parser warned
  seen,     \* audit.Context.SeenAlterTables
  records,  \* the audit records so far
  outcome   \* what the client gets

auditVars == <<input, pc, envelope, sqlMode, stmts, seen, records, outcome>>
allVars == <<vars, auditVars>>

Tables == {Alters[w] : w \in Words} \ {NoTable}
ASSUME LowerNameAssumption == Tables \subseteq DOMAIN LowerName

SqlModes == {"default", "NO_BACKSLASH_ESCAPES"}
Warning == 1
Error == 2

(* A fresh installation, unless others change settings during the request.  *)
AuditInit ==
  /\ input \in Inputs
  /\ ~input.sets => /\ incLevel = [n \in Legacy |-> DefaultLevel[ruleOf[n]]]
                    /\ rules = [c \in Codes |-> Unset]
  /\ Init
  /\ pc = "received"
  /\ envelope = NoEnvelope
  /\ sqlMode = "default"
  /\ stmts = [texts |-> <<>>, warned |-> FALSE]
  /\ seen = [k \in {LowerName[t] : t \in Tables} |-> 0]
  /\ records = <<>>
  /\ outcome = "none"

Goto(place) == pc' = place

(* failureRecord: one record for the whole request.                         *)
FailureRecord == <<[word |-> "request", broken |-> {}, level |-> Error, failed |-> TRUE]>>

----------------------------------------------------------------------------
(* HandleQuery: a packet that is too large, or no audit request at all.     *)
Refuse ==
  /\ pc = "received"
  /\ Len(input.text) > MaxPacket \/ ~Contains(input.text, "START")
  /\ outcome' = "error"
  /\ Goto("done")
  /\ UNCHANGED <<vars, input, envelope, sqlMode, stmts, seen, records>>

(* ... and an audit request: rejected by an audit-only service, not         *)
(* understood, or handed to Session.Audit.                                  *)
AuditOnlyRejectsBackup(options) == input.auditOnly /\ options.backup
AuditOnlyRejects(options) == input.auditOnly /\ (options.execute \/ options.backup)

HandleQuery ==
  /\ pc = "received"
  /\ Len(input.text) <= MaxPacket /\ Contains(input.text, "START")
  /\ envelope' = ParseLegacyEnvelope(input.fields, input.text)
  /\ \/ /\ ~envelope'.ok
        /\ outcome' = "error" /\ Goto("done")
        /\ UNCHANGED records
     \/ /\ envelope'.ok /\ AuditOnlyRejects(envelope'.options)
        /\ outcome' = "rejected" /\ records' = FailureRecord /\ Goto("done")
     \/ /\ envelope'.ok /\ ~AuditOnlyRejects(envelope'.options)
        /\ Goto("connect")
        /\ UNCHANGED <<records, outcome>>
  /\ UNCHANGED <<vars, input, sqlMode, stmts, seen>>

(* openMetadata fails or finds a server that is not supported ...           *)
OpenMetadataFails ==
  /\ pc = "connect"
  /\ records' = FailureRecord
  /\ outcome' = "records" /\ Goto("done")
  /\ UNCHANGED <<vars, input, envelope, sqlMode, stmts, seen>>

(* ... or says how the server reads SQL.  The policy is taken after that,   *)
(* and its sql_mode, if it has one, goes before the server's.               *)
OpenMetadata ==
  /\ pc = "connect"
  /\ Goto("policy")
  /\ UNCHANGED <<vars, input, envelope, sqlMode, stmts, seen, records, outcome>>

TakePolicy ==
  /\ pc = "policy"
  /\ Begin(Req)
  /\ sqlMode' \in SqlModes
  /\ Goto("parse")
  /\ UNCHANGED <<input, envelope, stmts, seen, records, outcome>>

(* TiDBParser.Parse reads the joined SQL.  A statement is a word and what   *)
(* is quoted after it.                                                      *)
ValidStatement(s) == s[1] \in Words /\ (Len(s) > 1 => s[2] \in Quotes)

Parse ==
  /\ pc = "parse"
  /\ LET texts == Statements(envelope.sql, sqlMode)
     IN  \/ /\ Terminated(envelope.sql, sqlMode)
            /\ \A i \in DOMAIN texts : ValidStatement(texts[i])
            /\ \E warned \in BOOLEAN : stmts' = [texts |-> texts, warned |-> warned]
            /\ Goto("audit")
            /\ UNCHANGED <<vars, records, outcome>>
         \/ /\ \/ ~Terminated(envelope.sql, sqlMode)
               \/ \E i \in DOMAIN texts : ~ValidStatement(texts[i])
            /\ records' = FailureRecord
            /\ outcome' = "records" /\ Goto("done")
            /\ End(Req)
            /\ UNCHANGED stmts
  /\ UNCHANGED <<input, envelope, sqlMode, seen>>

----------------------------------------------------------------------------
(* The rules a statement breaks; LegacyDDL counts the ALTERs of a table     *)
(* under its name in lower case, whatever the server makes of case.         *)
Before(word) == IF Alters[word] = NoTable THEN 0 ELSE seen[LowerName[Alters[word]]]
Broken(word) == Breaks[word] \cup (IF Before(word) > 0 THEN {AlterOnce} ELSE {})

(* Engine.Check: an issue has the level of the request's policy, and one of *)
(* level 0 is filtered out.                                                 *)
LevelNow(code) == Policy.level[code]
Level(code) == request[Req].policy.level[code]
Check(word) == {c \in Broken(word) : Level(c) # 0}

(* makeRecord: the highest level of all issues; failed stands for an issue  *)
(* of the session itself, which is an Error under every policy.             *)
MakeRecord(word, failed, warned) ==
  [word |-> word, broken |-> Check(word), failed |-> failed,
   level |-> Max({Level(c) : c \in Check(word)} \cup (IF failed THEN {Error} ELSE {})
                 \cup (IF warned THEN {Warning} ELSE {}) \cup {0})]

(* The rules see a statement that has failed as well.                       *)
CountedIfPassed(word, failed) ==
  IF Alters[word] = NoTable \/ failed THEN seen ELSE [seen EXCEPT ![LowerName[Alters[word]]] = @ + 1]
Counted(word, failed) ==
  IF Alters[word] = NoTable THEN seen ELSE [seen EXCEPT ![LowerName[Alters[word]]] = @ + 1]

(* One turn of the loop.  failed: no database, a USE that fails, missing    *)
(* grants, no estimate, or a DDL that PrepareDDL or ApplyDDL refuses.       *)
AuditStatement ==
  LET i    == Len(records) + 1
      word == stmts.texts[i][1]
  IN  /\ pc = "audit" /\ i \in DOMAIN stmts.texts
      /\ \E failed \in BOOLEAN :
           /\ records' = Append(records, MakeRecord(word, failed, stmts.warned /\ i = 1))
           /\ seen' = Counted(word, failed)
      /\ UNCHANGED <<vars, input, pc, envelope, sqlMode, stmts, outcome>>

(* After the loop: a request without execute is answered, and so is one     *)
(* that the gate blocks ...                                                 *)
Audited == pc = "audit" /\ Len(records) = Len(stmts.texts)
Blocked == \E i \in DOMAIN records :
             \/ records[i].level = Error
             \/ records[i].level = Warning /\ ~envelope.options.ignoreWarnings

Answer ==
  /\ Audited
  /\ ~envelope.options.execute \/ Blocked
  /\ outcome' = "records" /\ Goto("done")
  /\ End(Req)
  /\ UNCHANGED <<input, envelope, sqlMode, stmts, seen, records>>

(* ... otherwise the executor is opened and takes over, or its failure is   *)
(* written into the first record.  Without a first record the write panics, *)
(* and no goroutine of the server recovers.                                 *)
OpenExecutor ==
  /\ Audited
  /\ envelope.options.execute /\ ~Blocked
  /\ \/ /\ outcome' = "executed" /\ Goto("done")
        /\ UNCHANGED records
     \/ /\ records # <<>>
        /\ records' = [records EXCEPT ![1].level = Error, ![1].failed = TRUE]
        /\ outcome' = "records" /\ Goto("done")
     \/ /\ records = <<>>
        /\ outcome' = "panic" /\ Goto("done")
        /\ UNCHANGED records
  /\ End(Req)
  /\ UNCHANGED <<input, envelope, sqlMode, stmts, seen>>

(* `inception set` of another connection, at any time.                      *)
OthersSet ==
  /\ input.sets
  /\ \/ \E v \in Levels : \/ \E c \in Codes : SetLevelByCode(c, v)
                          \/ \E n \in Legacy : SetLevelByName(n, v)
     \/ \E v \in Limits : SetVariable(v)
  /\ UNCHANGED auditVars

AuditNext ==
  \/ Refuse \/ HandleQuery
  \/ OpenMetadataFails \/ OpenMetadata
  \/ TakePolicy \/ Parse
  \/ AuditStatement
  \/ Answer \/ OpenExecutor
  \/ OthersSet

AuditSpec == AuditInit /\ [][AuditNext]_allVars

----------------------------------------------------------------------------
(* The statements the client wrote, by the lexical rules of SQL: what lies  *)
(* between the first and the last statement, which are the markers.         *)
WrittenIn(mode) ==
  LET all == Statements(input.text, mode)
  IN  SubSeq(all, 2, Len(all) - 1)

(* Every text is cut exactly at its real semicolons: one in a comment or in *)
(* a quoted text, however it is escaped, cuts nothing, and none other is    *)
(* overlooked; a text is refused for its quoting exactly if a quote or      *)
(* comment stays open.  This is splitSQL against the lexical rules.  It     *)
(* takes an executable comment for a comment, so that one with a semicolon, *)
(* a quoted text or a comment in it is out.                                 *)
SplitIsLexical ==
  pc = "received" /\ ~HoldsCode(input.text, "default") =>
    splitSQL(input.text) =
      [ok |-> Terminated(input.text, "default"),
       parts |-> IF Terminated(input.text, "default") THEN PieceTexts(input.text, "default") ELSE <<>>]

(* The SQL that ParseLegacyEnvelope puts together again says what the       *)
(* client wrote: nothing is lost or added, and the statements are the same, *)
(* but for two things TrimSpace does with the newline of a line comment at  *)
(* the end of a part: the comment swallows the semicolon put after it, and  *)
(* -- followed by that semicolon is no comment any more; and but for a text *)
(* that is cut in an executable comment.                                    *)
SwallowedSemicolon ==
  \E i \in 1 .. Len(envelope.body) - 1 : EndsInLineComment(envelope.body[i], "default")
CommentUndone ==
  \E i \in DOMAIN envelope.body : EndsInDashes(envelope.body[i], "default")
StatementsKept ==
  pc = "connect" /\ ~CommentUndone /\ ~HoldsCode(input.text, "default") =>
    LET now == Statements(envelope.sql, "default")
    IN  /\ FlattenSeq(now) = FlattenSeq(WrittenIn("default"))
        /\ ~SwallowedSemicolon => now = WrittenIn("default")

(* A request that says anything but comments between its markers does not   *)
(* bring the server down.                                                   *)
ServerStaysUp == outcome = "panic" => WrittenIn(sqlMode) = <<>>

(* The executor is reached only on the client's word, by a service that may *)
(* execute, and only if every statement it is given has a record of its own *)
(* that lets it pass.                                                       *)
AsksForExecution(field) == canonicalDirective(field[1]) = "execute" /\ ToLower(field[2]) \in Yes
ExecutedWasAdmitted ==
  outcome = "executed" =>
    /\ \E i \in DOMAIN input.fields : AsksForExecution(input.fields[i])
    /\ ~input.auditOnly
    /\ Len(records) = Len(stmts.texts)
    /\ \A i \in DOMAIN records : records[i].level <= Warning /\ records[i].word = stmts.texts[i][1]

(* ... and the statements it is given are those the client wrote, but for   *)
(* a swallowed semicolon and a text cut in an executable comment.           *)
ExecutedWasWritten ==
  outcome = "executed" /\ sqlMode = "default" /\ ~SwallowedSemicolon /\ ~HoldsCode(input.text, "default") =>
    [i \in DOMAIN records |-> records[i].word] = [i \in DOMAIN WrittenIn("default") |-> WrittenIn("default")[i][1]]

(* Two words alter tables of the same name, or of names that differ only in *)
(* case.                                                                    *)
SameButForCase(v, w) ==
  Alters[v] # NoTable /\ Alters[w] # NoTable /\ LowerName[Alters[v]] = LowerName[Alters[w]]

(* Whatever other connections set while a batch is audited, its statements  *)
(* are judged alike: two that break the same rules get the same issues and  *)
(* level.                                                                   *)
OnePolicy ==
  stmts.texts # <<>> => \A i, j \in DOMAIN records :
    LET plain(k) == ~records[k].failed /\ ~(stmts.warned /\ k = 1)
        again(k) == \E e \in 1 .. k - 1 : SameButForCase(records[e].word, records[k].word)
    IN  /\ plain(i) /\ plain(j)
        /\ records[i].word = records[j].word /\ again(i) = again(j)
        => records[i].broken = records[j].broken /\ records[i].level = records[j].level

(* The second and every later ALTER of a table in a batch is told to be     *)
(* merged, whatever became of the ALTERs before it, and the first is not,   *)
(* unless a table whose name differs only in case was altered before: to a  *)
(* server with lower_case_table_names=0 that is another table.              *)
AlterOnceFlagged ==
  pc = "audit" => \A i \in DOMAIN records :
    AlterOnce \in records[i].broken <=>
      /\ request[Req].policy.level[AlterOnce] # 0
      /\ \E j \in 1 .. i - 1 : SameButForCase(records[j].word, records[i].word)
=============================================================================
