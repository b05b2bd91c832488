------------------------- MODULE AuditRequestProofs -------------------------
(***************************************************************************)
(* Proofs about RuntimeConfig, for any rule catalog, any number of requests *)
(* and any sequence of `inception set`; then about AuditRequest, which      *)
(* extends it, for every set of rules, statements and requests, and any     *)
(* settings other connections make meanwhile.                               *)
(***************************************************************************)
EXTENDS AuditRequest, TLAPS, SequenceTheorems, WellFoundedInduction

IInv == TypeOK /\ LastSetWins

(* legacyLevelRule is injective, so the name Policy finds for a rule is the *)
(* name it was set under.                                                   *)
LEMMA NameOfRule ==
  ASSUME NEW n \in Legacy
  PROVE  (CHOOSE m \in Legacy : ruleOf[m] = ruleOf[n]) = n
BY RuleOfAssumption

(* The level of a rule is one of the three.                                 *)
LEMMA EffectiveLevelType ==
  ASSUME NEW inc \in [Legacy -> Levels], NEW over \in [Codes -> Levels \cup {Unset}], NEW c \in Codes
  PROVE  EffectiveLevel(inc, over, c) \in Levels
<1>1. ASSUME NEW n \in Legacy, ruleOf[n] = c PROVE inc[CHOOSE m \in Legacy : ruleOf[m] = c] \in Levels
  BY <1>1
<1>2. DefaultLevel[c] \in Levels
  BY DefaultLevelAssumption DEF Levels
<1> QED  BY <1>1, <1>2 DEF EffectiveLevel

(* The configuration read from TOML.                                        *)
LEMMA InitInv == ASSUME Init PROVE IInv
<1>1. TypeOK
  BY EffectiveLevelType DEF Init, TypeOK
<1>2. LastSetWins
  BY DEF Init, LastSetWins, Policy
<1> QED  BY <1>1, <1>2 DEF IInv

(* A level set under its RuleID.                                            *)
LEMMA SetLevelByCodeStep ==
  ASSUME IInv, NEW code \in Codes, NEW v \in Levels, SetLevelByCode(code, v)
  PROVE  IInv'
<1>1. TypeOK'
  BY DEF IInv, TypeOK, SetLevelByCode
<1>2. \A c \in Codes : EffectiveLevel(incLevel', rules', c) = lastLevel'[c]
  BY UnsetAssumption DEF IInv, TypeOK, LastSetWins, Policy, SetLevelByCode, EffectiveLevel
<1> QED  BY <1>1, <1>2 DEF IInv, LastSetWins, Policy

(* A level set under its legacy name.                                       *)
LEMMA SetLevelByNameStep ==
  ASSUME IInv, NEW name \in Legacy, NEW v \in Levels, SetLevelByName(name, v)
  PROVE  IInv'
<1>1. TypeOK'
  BY RuleOfAssumption DEF IInv, TypeOK, SetLevelByName
<1>2. ASSUME NEW c \in Codes PROVE EffectiveLevel(incLevel', rules', c) = lastLevel'[c]
  <2>1. EffectiveLevel(incLevel, rules, c) = lastLevel[c]
    BY DEF IInv, LastSetWins, Policy
  <2>2. CASE rules[ruleOf[name]] # Unset
    BY <2>1, <2>2, UnsetAssumption, RuleOfAssumption DEF IInv, TypeOK, SetLevelByName, EffectiveLevel
  <2>3. CASE rules[ruleOf[name]] = Unset /\ c = ruleOf[name]
    <3>1. rules'[c] = Unset /\ incLevel'[name] = v /\ lastLevel'[c] = v
      BY <2>3 DEF IInv, TypeOK, SetLevelByName
    <3>2. (CHOOSE m \in Legacy : ruleOf[m] = c) = name
      BY <2>3, NameOfRule
    <3> QED  BY <2>3, <3>1, <3>2 DEF EffectiveLevel
  <2>4. CASE rules[ruleOf[name]] = Unset /\ c # ruleOf[name]
    BY <2>1, <2>4, NameOfRule, RuleOfAssumption DEF IInv, TypeOK, SetLevelByName, EffectiveLevel
  <2> QED  BY <2>2, <2>3, <2>4
<1> QED  BY <1>1, <1>2 DEF IInv, LastSetWins, Policy

(* A limit that validateIncRuntime accepts.                                 *)
LEMMA SetVariableStep ==
  ASSUME IInv, NEW v \in Limits, SetVariable(v)
  PROVE  IInv'
<1>1. TypeOK'
  BY LimitsAssumption DEF IInv, TypeOK, SetVariable, validateIncRuntime
<1>2. UNCHANGED <<incLevel, rules, lastLevel>>
  BY DEF SetVariable
<1> QED  BY <1>1, <1>2 DEF IInv, LastSetWins, Policy

(* A request takes its policy and lets it go.                               *)
LEMMA RequestStep ==
  ASSUME IInv, NEW r \in Requests, Begin(r) \/ End(r)
  PROVE  IInv'
<1>1. Policy \in Policies
  BY EffectiveLevelType DEF IInv, TypeOK, Policy, Policies
<1>2. TypeOK'
  BY <1>1 DEF IInv, TypeOK, Begin, End, Running
<1>3. UNCHANGED <<incLevel, rules, lastLevel>>
  BY DEF Begin, End
<1> QED  BY <1>2, <1>3 DEF IInv, LastSetWins, Policy

(* Every step preserves the invariant.                                      *)
LEMMA NextInv == IInv /\ [Next]_vars => IInv'
<1> SUFFICES ASSUME IInv, [Next]_vars PROVE IInv'
  OBVIOUS
<1>1. CASE UNCHANGED vars
  BY <1>1 DEF IInv, TypeOK, LastSetWins, Policy, vars
<1>2. CASE Next
  BY <1>2, SetLevelByCodeStep, SetLevelByNameStep, SetVariableStep, RequestStep DEF Next
<1> QED  BY <1>1, <1>2

(* The invariant holds throughout.                                          *)
LEMMA Invariance == Spec => []IInv
<1>1. Init => IInv
  BY InitInv
<1>2. IInv /\ [Next]_vars => IInv'
  BY NextInv
<1> QED  BY <1>1, <1>2, PTL DEF Spec

(* Whatever is set, the limits a request audits with have passed            *)
(* validateIncRuntime and every rule has a level.                           *)
THEOREM TypeCorrect == Spec => []TypeOK
<1>1. IInv => TypeOK
  BY DEF IInv
<1> QED  BY <1>1, Invariance, PTL

(* The last `inception set level` decides, under whichever name.            *)
THEOREM LastSetWinsCorrect == Spec => []LastSetWins
<1>1. IInv => LastSetWins
  BY DEF IInv
<1> QED  BY <1>1, Invariance, PTL

----------------------------------------------------------------------------

AuditRecord == [word : Words, broken : SUBSET Codes, failed : BOOLEAN, level : 0 .. 2]

(* The keys of SeenAlterTables, and whether a word alters a table that is   *)
(* counted under one.                                                       *)
Keys == {LowerName[t] : t \in Tables}
AltersKey(word, k) == Alters[word] # NoTable /\ LowerName[Alters[word]] = k

(* An earlier statement of the batch altered the same table, or one whose   *)
(* name differs only in case.                                               *)
Again(i) == \E e \in 1 .. i - 1 : SameButForCase(records[e].word, records[i].word)

(* What record i says follows from its statement, the ALTERs before it and  *)
(* one table of levels.                                                     *)
BrokenUnder(i, lev) ==
  {c \in Breaks[records[i].word] \cup (IF Again(i) THEN {AlterOnce} ELSE {}) : lev[c] # 0}
Judged(i, lev) ==
  /\ records[i].broken = BrokenUnder(i, lev)
  /\ ~records[i].failed /\ ~(stmts.warned /\ i = 1) =>
       records[i].level = Max({lev[c] : c \in BrokenUnder(i, lev)} \cup {0})

Admitted ==
  envelope.options.execute =>
    (\E i \in DOMAIN input.fields : AsksForExecution(input.fields[i])) /\ ~input.auditOnly

PhaseInv ==
  /\ input \in Inputs
  /\ pc \in {"received", "connect", "policy", "parse", "audit", "done"}
  /\ pc # "done" => outcome = "none"
  /\ pc \in {"received", "connect", "policy", "parse"} =>
       records = <<>> /\ stmts.texts = <<>> /\ seen = [k \in Keys |-> 0]
  /\ pc \in {"connect", "policy", "parse", "audit"} => Admitted
  /\ pc \in {"parse", "audit"} => request[Req] \in Running
  /\ pc = "audit" => \A i \in DOMAIN stmts.texts : stmts.texts[i][1] \in Words

SeenInv ==
  pc = "audit" =>
    /\ seen \in [Keys -> Nat]
    /\ \A k \in Keys : seen[k] > 0 <=> \E i \in DOMAIN records : AltersKey(records[i].word, k)

RecordsInv ==
  (pc = "audit" \/ stmts.texts # <<>>) =>
    /\ records \in Seq(AuditRecord)
    /\ \A i \in DOMAIN records : records[i].word = stmts.texts[i][1]
    /\ \E lev : /\ pc = "audit" => lev = request[Req].policy.level
                /\ \A i \in DOMAIN records : Judged(i, lev)

AuditInv == IInv /\ PhaseInv /\ SeenInv /\ RecordsInv /\ ExecutedWasAdmitted

----------------------------------------------------------------------------
(* What a request does to the settings is what RuntimeConfig allows.        *)
LEMMA StepsOfConfig ==
  ASSUME [AuditNext]_allVars
  PROVE  [Next]_vars
<1>1. CASE Refuse \/ HandleQuery \/ OpenMetadataFails \/ OpenMetadata \/ AuditStatement
  BY <1>1 DEF Refuse, HandleQuery, OpenMetadataFails, OpenMetadata, AuditStatement
<1>2. CASE TakePolicy
  BY <1>2, ReqAssumption DEF TakePolicy, Next
<1>3. CASE Parse
  BY <1>3, ReqAssumption DEF Parse, Next
<1>4. CASE Answer \/ OpenExecutor
  BY <1>4, ReqAssumption DEF Answer, OpenExecutor, Next
<1>5. CASE OthersSet
  BY <1>5 DEF OthersSet, Next
<1>6. CASE UNCHANGED allVars
  BY <1>6 DEF allVars
<1> QED  BY <1>1, <1>2, <1>3, <1>4, <1>5, <1>6 DEF AuditNext

(* ... so the settings keep RuntimeConfig's invariant.                      *)
LEMMA ConfigInv == IInv /\ [AuditNext]_allVars => IInv'
BY StepsOfConfig, NextInv

(* ParseLegacyEnvelope asks for execution only on the directive's word.     *)
LEMMA ExecuteDirective ==
  ASSUME NEW fields \in Seq(STRING \X STRING), NEW text,
         ParseLegacyEnvelope(fields, text).ok, ParseLegacyEnvelope(fields, text).options.execute
  PROVE  \E i \in DOMAIN fields : AsksForExecution(fields[i])
<1> DEFINE values == parseDirectives(fields).values
           canon(i) == canonicalDirective(fields[i][1])
           k == CHOOSE i \in DOMAIN fields : canon(i) = "execute"
<1>1. ParseLegacyEnvelope(fields, text).options = Options(values)
  BY DEF ParseLegacyEnvelope, NoEnvelope
<1>2. parseBool(values, "execute", FALSE)
  <2> HIDE DEF values
  <2>1. Options(values).execute = parseBool(values, "execute", FALSE)
    BY Zenon DEF Options
  <2>2. Options(values).execute
    BY <1>1, Zenon
  <2> QED  BY <2>1, <2>2, Zenon
<1>3. "execute" \in DOMAIN values /\ ToLower(values["execute"]) \in Yes
  BY <1>2 DEF parseBool
<1>4. values = [key \in KeysOf(fields) |-> fields[CHOOSE i \in DOMAIN fields : canon(i) = key][2]]
  BY DEF parseDirectives
<1>5. "execute" \in KeysOf(fields) /\ ToLower(fields[k][2]) \in Yes
  BY <1>3, <1>4
<1>6. k \in DOMAIN fields /\ canon(k) = "execute"
  BY <1>5 DEF KeysOf
<1> QED  BY <1>5, <1>6, Zenon DEF AsksForExecution

(* A request as it arrives.                                                 *)
LEMMA AuditInitInv == AuditInit => AuditInv
<1> SUFFICES ASSUME AuditInit PROVE AuditInv
  OBVIOUS
<1>1. IInv
  BY InitInv DEF AuditInit
<1>2. PhaseInv /\ SeenInv /\ RecordsInv /\ ExecutedWasAdmitted
  BY DEF AuditInit, PhaseInv, SeenInv, RecordsInv, ExecutedWasAdmitted, Keys
<1> QED  BY <1>1, <1>2 DEF AuditInv

(* The request before its statements are audited.                           *)
LEMMA EarlyStep ==
  ASSUME AuditInv, IInv', Refuse \/ HandleQuery \/ OpenMetadataFails \/ OpenMetadata \/ TakePolicy
  PROVE  AuditInv'
<1>1. /\ pc \in {"received", "connect", "policy"} /\ records = <<>> /\ stmts.texts = <<>>
      /\ outcome = "none" /\ seen = [k \in Keys |-> 0] /\ input \in Inputs
      /\ UNCHANGED <<input, stmts, seen>>
  BY DEF AuditInv, PhaseInv, Refuse, HandleQuery, OpenMetadataFails, OpenMetadata, TakePolicy
<1>2. CASE Refuse \/ OpenMetadataFails
  BY <1>1, <1>2 DEF AuditInv, PhaseInv, SeenInv, RecordsInv, ExecutedWasAdmitted, Refuse, OpenMetadataFails, Goto
<1>3. CASE HandleQuery
  <2>1. CASE pc' = "done" /\ outcome' \in {"error", "rejected"}
    BY <1>1, <2>1 DEF AuditInv, PhaseInv, SeenInv, RecordsInv, ExecutedWasAdmitted
  <2>2. CASE pc' = "connect" /\ UNCHANGED <<records, outcome>> /\ envelope'.ok /\ ~AuditOnlyRejects(envelope'.options)
    <3>1. input.fields \in Seq(STRING \X STRING) /\ envelope' = ParseLegacyEnvelope(input.fields, input.text)
      BY <1>1, <1>3, InputsAssumption DEF HandleQuery
    <3>2. envelope'.options.execute => \E i \in DOMAIN input.fields : AsksForExecution(input.fields[i])
      BY <2>2, <3>1, ExecuteDirective
    <3>3. Admitted'
      BY <1>1, <2>2, <3>2 DEF Admitted, AuditOnlyRejects
    <3> QED  BY <1>1, <2>2, <3>3 DEF AuditInv, PhaseInv, SeenInv, RecordsInv, ExecutedWasAdmitted
  <2> QED  BY <1>3, <2>1, <2>2 DEF HandleQuery, Goto
<1>4. CASE OpenMetadata
  BY <1>1, <1>4 DEF AuditInv, PhaseInv, SeenInv, RecordsInv, ExecutedWasAdmitted, OpenMetadata, Goto, Admitted
<1>5. CASE TakePolicy
  <2>1. request'[Req] = [state |-> "running", policy |-> Policy] /\ Policy \in Policies
    <3>1. Policy \in Policies
      BY EffectiveLevelType DEF AuditInv, IInv, TypeOK, Policy, Policies
    <3>2. request \in [Requests -> Running \cup {NotBegun}]
      BY DEF AuditInv, IInv, TypeOK
    <3> QED  BY <1>5, <3>1, <3>2, ReqAssumption DEF TakePolicy, Begin
  <2>2. request'[Req] \in Running
    BY <2>1 DEF Running
  <2> QED  BY <1>1, <1>5, <2>2 DEF AuditInv, PhaseInv, SeenInv, RecordsInv, ExecutedWasAdmitted, TakePolicy, Goto, Admitted
<1> QED  BY <1>2, <1>3, <1>4, <1>5

(* The parser's statements all begin with a known word.                     *)
LEMMA ParseStep ==
  ASSUME AuditInv, IInv', Parse
  PROVE  AuditInv'
<1>1. /\ pc = "parse" /\ records = <<>> /\ stmts.texts = <<>> /\ outcome = "none" /\ seen = [k \in Keys |-> 0]
      /\ input \in Inputs /\ Admitted /\ request[Req] \in Running /\ UNCHANGED <<input, envelope, sqlMode, seen>>
  BY DEF AuditInv, PhaseInv, Parse
<1>2. CASE pc' = "done" /\ outcome' = "records" /\ UNCHANGED stmts
  BY <1>1, <1>2 DEF AuditInv, PhaseInv, SeenInv, RecordsInv, ExecutedWasAdmitted
<1>3. CASE /\ pc' = "audit" /\ UNCHANGED <<request, records, outcome>>
           /\ \A i \in DOMAIN stmts'.texts : ValidStatement(stmts'.texts[i])
  <2>1. PhaseInv' /\ SeenInv' /\ ExecutedWasAdmitted'
    BY <1>1, <1>3 DEF PhaseInv, SeenInv, ExecutedWasAdmitted, ValidStatement, Admitted
  <2>2. RecordsInv'
    BY <1>1, <1>3 DEF RecordsInv
  <2> QED  BY <2>1, <2>2 DEF AuditInv
<1> QED  BY <1>2, <1>3 DEF Parse, Goto, vars

(* makeRecord's level is one of those it is given.                          *)
LEMMA MaxOfLevels ==
  ASSUME NEW S, S \subseteq 0 .. 2, 0 \in S
  PROVE  Max(S) \in S
<1>1. \E x \in S : \A y \in S : x >= y
  BY SMT
<1> QED  BY <1>1 DEF Max

(* One turn of the audit loop adds one record, judged by the policy the     *)
(* request began with.                                                      *)
LEMMA RecordMade ==
  ASSUME AuditInv, pc = "audit", NEW word \in Words, NEW failed \in BOOLEAN, NEW warned
  PROVE  /\ MakeRecord(word, failed, warned) \in AuditRecord
         /\ ~failed /\ ~warned =>
              MakeRecord(word, failed, warned).level = Max({Level(c) : c \in Check(word)} \cup {0})
<1> DEFINE S == {Level(c) : c \in Check(word)} \cup (IF failed THEN {Error} ELSE {})
                 \cup (IF warned THEN {Warning} ELSE {}) \cup {0}
<1>1. request[Req].policy.level \in [Codes -> 0 .. 2]
  BY DEF AuditInv, PhaseInv, Running, Policies, Levels
<1>2. Check(word) \subseteq Codes
  BY WordsAssumption DEF Check, Broken
<1>3. S \subseteq 0 .. 2 /\ 0 \in S
  BY <1>1, <1>2 DEF Level, Error, Warning
<1>4. Max(S) \in 0 .. 2
  BY <1>3, MaxOfLevels
<1>5. MakeRecord(word, failed, warned) = [word |-> word, broken |-> Check(word), failed |-> failed, level |-> Max(S)]
  BY Zenon DEF MakeRecord
<1>6. ~failed /\ ~warned => S = {Level(c) : c \in Check(word)} \cup {0}
  OBVIOUS
<1> HIDE DEF S
<1>7. MakeRecord(word, failed, warned) \in AuditRecord
  BY <1>2, <1>4, <1>5 DEF AuditRecord
<1>8. MakeRecord(word, failed, warned).level = Max(S)
  BY <1>5
<1> QED  BY <1>6, <1>7, <1>8

(* The record added counts the ALTERs as SeenAlterTables does.              *)
LEMMA AuditStatementStep ==
  ASSUME AuditInv, IInv', AuditStatement
  PROVE  AuditInv'
<1>0. PICK n, word, lev : n = Len(records) + 1 /\ word = stmts.texts[n][1] /\ lev = request[Req].policy.level
  OBVIOUS
<1>1. PICK failed \in BOOLEAN :
        /\ records' = Append(records, MakeRecord(word, failed, stmts.warned /\ n = 1))
        /\ seen' = Counted(word, failed)
  BY <1>0 DEF AuditStatement
<1>2. /\ pc = "audit" /\ n \in DOMAIN stmts.texts
      /\ UNCHANGED <<vars, input, pc, envelope, sqlMode, stmts, outcome>>
  BY <1>0 DEF AuditStatement
<1>3. word \in Words /\ outcome = "none" /\ lev = request'[Req].policy.level
  BY <1>0, <1>2 DEF AuditInv, PhaseInv, vars
<1>4. /\ records \in Seq(AuditRecord)
      /\ \A i \in DOMAIN records : records[i].word = stmts.texts[i][1]
      /\ \A i \in DOMAIN records : Judged(i, lev)
  BY <1>0, <1>2 DEF AuditInv, RecordsInv
<1>5. PICK r \in AuditRecord : /\ records' = Append(records, r)
                               /\ r.word = word /\ r.broken = Check(word) /\ r.failed = failed
                               /\ ~failed /\ ~(stmts.warned /\ n = 1) =>
                                    r.level = Max({Level(c) : c \in Check(word)} \cup {0})
  <2>1. PICK warned : warned = (stmts.warned /\ n = 1)
    OBVIOUS
  <2>2. PICK r : r = MakeRecord(word, failed, warned)
    OBVIOUS
  <2>3. r.word = word /\ r.broken = Check(word)
    BY <2>2 DEF MakeRecord
  <2>4. r.failed = failed
    BY <2>2, Zenon DEF MakeRecord
  <2>5. r \in AuditRecord /\ (~failed /\ ~warned => r.level = Max({Level(c) : c \in Check(word)} \cup {0}))
    BY <1>2, <1>3, <2>2, RecordMade, Zenon
  <2>6. records' = Append(records, r)
    BY <1>1, <2>1, <2>2, Zenon
  <2> QED  BY <2>1, <2>3, <2>4, <2>5, <2>6, Zenon
<1>6. /\ records' \in Seq(AuditRecord) /\ n \in Nat /\ n > 0
      /\ Len(records') = n /\ DOMAIN records' = 1 .. n /\ DOMAIN records = 1 .. n - 1
      /\ records'[n] = r /\ \A i \in 1 .. n - 1 : records'[i] = records[i]
  BY <1>0, <1>4, <1>5
<1>7. /\ seen \in [Keys -> Nat]
      /\ \A k \in Keys : seen[k] > 0 <=> \E i \in DOMAIN records : AltersKey(records[i].word, k)
  BY <1>2 DEF AuditInv, SeenInv
<1>8. Alters[word] # NoTable => LowerName[Alters[word]] \in Keys
  BY <1>3 DEF Tables, Keys
<1>9. Before(word) > 0 <=> Again(n)'
  <2>1. Before(word) > 0 <=> \E i \in 1 .. n - 1 : SameButForCase(records[i].word, word)
    BY <1>6, <1>7, <1>8 DEF Before, SameButForCase, AltersKey
  <2> QED  BY <1>5, <1>6, <2>1 DEF Again
<1>10. Judged(n, lev)'
  <2>2. BrokenUnder(n, lev)' = Check(word)
    BY <1>0, <1>3, <1>5, <1>6, <1>9 DEF BrokenUnder, Check, Broken, Level
  <2>3. {lev[c] : c \in Check(word)} = {Level(c) : c \in Check(word)}
    BY <1>0 DEF Level
  <2>4. records'[n].broken = BrokenUnder(n, lev)'
    BY <1>5, <1>6, <2>2
  <2>5. ~failed /\ ~(stmts.warned /\ n = 1) => records'[n].level = Max({lev[c] : c \in Check(word)} \cup {0})
    BY <1>5, <1>6, <2>3, Zenon
  <2> QED  BY <1>2, <1>3, <1>5, <1>6, <2>2, <2>4, <2>5, Zenon DEF Judged
<1>11. ASSUME NEW i \in 1 .. n - 1 PROVE Judged(i, lev)'
  <2>1. records'[i] = records[i] /\ Judged(i, lev) /\ stmts' = stmts
    BY <1>2, <1>4, <1>6
  <2>2. Again(i)' <=> Again(i)
    <3>1. \A e \in 1 .. i - 1 : e \in 1 .. n - 1 /\ records'[e] = records[e]
      BY <1>6
    <3> QED  BY <2>1, <3>1, Zenon DEF Again
  <2>3. BrokenUnder(i, lev)' = BrokenUnder(i, lev)
    BY <2>1, <2>2, Zenon DEF BrokenUnder
  <2> QED  BY <2>1, <2>3, Zenon DEF Judged
<1>12. RecordsInv'
  <2>1. \A i \in DOMAIN records' : records'[i].word = stmts'.texts[i][1]
    <3>1. records'[n].word = stmts'.texts[n][1]
      BY <1>0, <1>2, <1>5, <1>6
    <3>2. \A i \in 1 .. n - 1 : records'[i].word = stmts'.texts[i][1]
      BY <1>2, <1>4, <1>6
    <3> QED  BY <1>6, <3>1, <3>2
  <2>2. \A i \in DOMAIN records' : Judged(i, lev)'
    BY <1>6, <1>10, <1>11
  <2> QED  BY <1>3, <1>6, <2>1, <2>2 DEF RecordsInv
<1>13. SeenInv'
  <2>1. CASE Alters[word] = NoTable
    <3>1. seen' = seen
      BY <1>1, <2>1 DEF Counted
    <3>2. \A k \in Keys : ~AltersKey(word, k)
      BY <2>1 DEF AltersKey
    <3> QED  BY <1>5, <1>6, <1>7, <3>1, <3>2 DEF SeenInv
  <2>2. CASE Alters[word] # NoTable
    <3>1. seen' = [seen EXCEPT ![LowerName[Alters[word]]] = @ + 1]
      BY <1>1, <2>2 DEF Counted
    <3>2. /\ seen' \in [Keys -> Nat] /\ seen'[LowerName[Alters[word]]] > 0
          /\ \A k \in Keys : k # LowerName[Alters[word]] => seen'[k] = seen[k]
      BY <1>7, <1>8, <2>2, <3>1
    <3>3. ASSUME NEW k \in Keys PROVE seen'[k] > 0 <=> \E i \in DOMAIN records' : AltersKey(records'[i].word, k)
      <4>1. AltersKey(word, k) <=> k = LowerName[Alters[word]]
        BY <2>2 DEF AltersKey
      <4>2. CASE k = LowerName[Alters[word]]
        BY <1>5, <1>6, <3>2, <4>1, <4>2
      <4>3. CASE k # LowerName[Alters[word]]
        BY <1>5, <1>6, <1>7, <3>2, <4>1, <4>3
      <4> QED  BY <4>2, <4>3
    <3> QED  BY <3>2, <3>3 DEF SeenInv
  <2> QED  BY <2>1, <2>2
<1>14. PhaseInv' /\ ExecutedWasAdmitted'
  BY <1>2, <1>3 DEF AuditInv, PhaseInv, ExecutedWasAdmitted, vars, Admitted
<1> QED  BY <1>12, <1>13, <1>14 DEF AuditInv

(* The records stay what they were when the request is answered or handed   *)
(* to the executor, but for the first one if the executor cannot be opened. *)
LEMMA LastStep ==
  ASSUME AuditInv, IInv', Answer \/ OpenExecutor
  PROVE  AuditInv'
<1>1. /\ pc = "audit" /\ pc' = "done" /\ Len(records) = Len(stmts.texts) /\ input \in Inputs /\ Admitted
      /\ UNCHANGED <<input, envelope, sqlMode, stmts, seen>>
      /\ outcome' \in {"records", "executed", "panic"}
  BY DEF AuditInv, PhaseInv, Answer, OpenExecutor, Audited, Goto
<1>2. PICK lev : \A i \in DOMAIN records : Judged(i, lev)
  BY <1>1 DEF AuditInv, RecordsInv
<1>3. /\ records \in Seq(AuditRecord)
      /\ \A i \in DOMAIN records : records[i].word = stmts.texts[i][1]
  BY <1>1 DEF AuditInv, RecordsInv
<1>4. PhaseInv' /\ SeenInv'
  BY <1>1 DEF PhaseInv, SeenInv
<1>5. CASE UNCHANGED records
  <2>1. \A i \in DOMAIN records' : Judged(i, lev)'
    BY <1>1, <1>2, <1>5, Zenon DEF Judged, BrokenUnder, Again
  <2>2. RecordsInv'
    BY <1>1, <1>3, <1>5, <2>1 DEF RecordsInv
  <2>3. ASSUME outcome' = "executed" PROVE ExecutedWasAdmitted'
    <3>1. envelope.options.execute /\ ~Blocked
      BY <2>3 DEF Answer, OpenExecutor
    <3>2. \A i \in DOMAIN records : records[i] \in AuditRecord
      BY <1>3
    <3>3. \A i \in DOMAIN records : records[i].level <= Warning
      <4> SUFFICES ASSUME NEW i \in DOMAIN records PROVE records[i].level <= Warning
        OBVIOUS
      <4>1. records[i].level \in 0 .. 2
        BY <3>2 DEF AuditRecord
      <4>2. records[i].level # Error
        BY <3>1, Zenon DEF Blocked
      <4> QED  BY <4>1, <4>2 DEF Error, Warning
    <3> QED  BY <1>1, <1>3, <1>5, <3>1, <3>3 DEF Admitted, ExecutedWasAdmitted
  <2>4. ExecutedWasAdmitted'
    BY <2>3 DEF ExecutedWasAdmitted
  <2> QED  BY <1>4, <2>2, <2>4 DEF AuditInv
<1>6. CASE /\ records # <<>> /\ outcome' = "records"
           /\ records' = [records EXCEPT ![1].level = Error, ![1].failed = TRUE]
  <2>1. 1 \in DOMAIN records /\ records[1] \in AuditRecord
    BY <1>3, <1>6
  <2>2. PICK r : r = [records[1] EXCEPT !.level = Error, !.failed = TRUE]
    OBVIOUS
  <2>3. /\ r = [word |-> records[1].word, broken |-> records[1].broken, failed |-> TRUE, level |-> Error]
        /\ records[1].word \in Words /\ records[1].broken \in SUBSET Codes
    BY <2>1, <2>2 DEF AuditRecord
  <2>4. r \in AuditRecord /\ r.word = records[1].word /\ r.broken = records[1].broken
    BY <2>3 DEF AuditRecord, Error
  <2>5. r.failed
    BY <2>3, Zenon
  <2>6. records' = [records EXCEPT ![1] = r]
    BY <1>3, <1>6, <2>1, <2>2
  <2>7. /\ records' \in Seq(AuditRecord) /\ DOMAIN records' = DOMAIN records /\ records'[1] = r
        /\ \A i \in DOMAIN records : i # 1 => records'[i] = records[i]
    BY <1>3, <2>1, <2>4, <2>6
  <2>8. \A i \in DOMAIN records : records'[i].word = records[i].word /\ records'[i].broken = records[i].broken
    BY <2>4, <2>7
  <2>9. ASSUME NEW i \in DOMAIN records PROVE Judged(i, lev)'
    <3>1. \A e \in 1 .. i - 1 : records'[e].word = records[e].word
      BY <1>3, <2>8
    <3>2. BrokenUnder(i, lev)' = BrokenUnder(i, lev)
      BY <2>8, <3>1, Zenon DEF BrokenUnder, Again
    <3>3. Judged(i, lev)
      BY <1>2
    <3>4. CASE i = 1
      BY <2>7, <2>8, <2>5, <3>2, <3>3, <3>4, Zenon DEF Judged
    <3>5. CASE i # 1
      BY <1>1, <2>7, <3>2, <3>3, <3>5, Zenon DEF Judged
    <3> QED  BY <3>4, <3>5
  <2>10. RecordsInv'
    BY <1>1, <1>3, <2>7, <2>8, <2>9 DEF RecordsInv
  <2> QED  BY <1>4, <1>6, <2>10 DEF AuditInv, ExecutedWasAdmitted
<1> QED  BY <1>5, <1>6 DEF Answer, OpenExecutor

(* What others set is not seen by a request that has begun.                 *)
LEMMA OthersStep ==
  ASSUME AuditInv, IInv', OthersSet \/ UNCHANGED allVars
  PROVE  AuditInv'
<1>1. UNCHANGED <<auditVars, request>>
  BY DEF OthersSet, SetLevelByCode, SetLevelByName, SetVariable, allVars, vars
<1>2. UNCHANGED <<input, pc, envelope, stmts, seen, records, outcome, request>>
  BY <1>1 DEF auditVars
<1>3. PhaseInv' /\ SeenInv' /\ ExecutedWasAdmitted'
  BY <1>2 DEF AuditInv, PhaseInv, SeenInv, ExecutedWasAdmitted, Admitted
<1>4. ASSUME NEW lev, NEW i PROVE Judged(i, lev)' <=> Judged(i, lev)
  BY <1>2, Zenon DEF Judged, BrokenUnder, Again
<1>5. RecordsInv'
  BY <1>2, <1>4 DEF AuditInv, RecordsInv
<1> QED  BY <1>3, <1>5 DEF AuditInv

(* The invariant holds throughout.                                          *)
LEMMA AuditInvariance == AuditSpec => []AuditInv
<1>1. AuditInit => AuditInv
  BY AuditInitInv
<1>2. AuditInv /\ [AuditNext]_allVars => AuditInv'
  <2> SUFFICES ASSUME AuditInv, [AuditNext]_allVars PROVE AuditInv'
    OBVIOUS
  <2>1. IInv'
    BY ConfigInv DEF AuditInv
  <2> QED  BY <2>1, EarlyStep, ParseStep, AuditStatementStep, LastStep, OthersStep DEF AuditNext
<1> QED  BY <1>1, <1>2, PTL DEF AuditSpec

(* An audit request uses the settings as RuntimeConfig describes: it takes  *)
(* the policy once and lets it go once, on every path through HandleQuery   *)
(* and Session.Audit.                                                       *)
THEOREM RequestImplementsConfig == AuditSpec => Spec
<1>1. AuditInit => Init
  BY DEF AuditInit
<1>2. [AuditNext]_allVars => [Next]_vars
  BY StepsOfConfig
<1> QED  BY <1>1, <1>2, PTL DEF AuditSpec, Spec

(* Session.Audit judges all statements of a batch by the policy it took,    *)
(* whatever other connections set meanwhile.                                *)
THEOREM OnePolicyCorrect == AuditSpec => []OnePolicy
<1>1. AuditInv => OnePolicy
  <2> SUFFICES ASSUME AuditInv, stmts.texts # <<>>, NEW i \in DOMAIN records, NEW j \in DOMAIN records,
                      ~records[i].failed, ~(stmts.warned /\ i = 1),
                      ~records[j].failed, ~(stmts.warned /\ j = 1),
                      records[i].word = records[j].word, Again(i) = Again(j)
               PROVE  records[i].broken = records[j].broken /\ records[i].level = records[j].level
    BY Zenon DEF OnePolicy, Again
  <2>1. PICK lev : Judged(i, lev) /\ Judged(j, lev)
    BY DEF AuditInv, RecordsInv
  <2>2. BrokenUnder(i, lev) = BrokenUnder(j, lev)
    BY Zenon DEF BrokenUnder
  <2> QED  BY <2>1, <2>2, Zenon DEF Judged
<1> QED  BY <1>1, AuditInvariance, PTL

(* LegacyDDL asks for the ALTERs of a table to be merged from its second    *)
(* ALTER in the batch on, and for those of tables whose names differ only   *)
(* in case as if they were one table, for every batch and every table.      *)
THEOREM AlterOnceFlaggedCorrect == AuditSpec => []AlterOnceFlagged
<1>1. AuditInv => AlterOnceFlagged
  <2> SUFFICES ASSUME AuditInv, pc = "audit", NEW i \in DOMAIN records
               PROVE  AlterOnce \in records[i].broken <=> request[Req].policy.level[AlterOnce] # 0 /\ Again(i)
    BY Zenon DEF AlterOnceFlagged, Again
  <2>1. records[i] \in AuditRecord
    BY DEF AuditInv, RecordsInv
  <2>2. Judged(i, request[Req].policy.level)
    BY DEF AuditInv, RecordsInv
  <2>3. AlterOnce \notin Breaks[records[i].word]
    BY <2>1, WordsAssumption DEF AuditRecord
  <2> QED  BY <2>2, <2>3 DEF Judged, BrokenUnder
<1> QED  BY <1>1, AuditInvariance, PTL

(* Nothing is executed that the client did not ask to execute, that the     *)
(* service may not execute, or that has no record letting it pass.          *)
THEOREM ExecutedWasAdmittedCorrect == AuditSpec => []ExecutedWasAdmitted
<1>1. AuditInv => ExecutedWasAdmitted
  BY DEF AuditInv
<1> QED  BY <1>1, AuditInvariance, PTL

----------------------------------------------------------------------------
(* splitSQL against the lexical rules, for every text.                      *)

(* A set of positions has a first one.                                      *)
LEMMA Least ==
  ASSUME NEW S, S \subseteq Nat, NEW x \in S
  PROVE  \E m \in S : \A n \in S : m <= n
<1>1. PICK m \in S : \A n \in S : ~(<<n, m>> \in OpToRel(<, Nat))
  BY NatLessThanWellFounded, WFMin
<1>2. \A n \in S : ~(n < m)
  BY <1>1 DEF OpToRel
<1> QED  BY <1>2

(* Induction over positions: a set of positions with the first one, and     *)
(* with the next of each, has them all.                                     *)
LEMMA Positions ==
  ASSUME NEW N \in Nat, NEW P, 0 \in P, \A n \in 0 .. N - 1 : n \in P => n + 1 \in P
  PROVE  \A n \in 0 .. N : n \in P
<1> SUFFICES ASSUME NEW x \in 0 .. N, x \notin P PROVE FALSE
  OBVIOUS
<1> DEFINE S == {n \in Nat : n <= N /\ n \notin P}
<1>1. x \in S /\ S \subseteq Nat
  OBVIOUS
<1>2. PICK m \in S : \A n \in S : m <= n
  BY <1>1, Least
<1>3. m # 0 /\ m - 1 \in 0 .. N - 1 /\ m - 1 \notin S
  BY <1>2
<1> QED  BY <1>3

(* Parity.                                                                  *)
LEMMA Parity ==
  ASSUME NEW n \in Nat
  PROVE  n % 2 \in {0, 1} /\ (n + 1) % 2 = 1 - (n % 2)
BY SMT

(* Position i follows an odd number of positions of S that stand together,  *)
(* none of them before lo.                                                  *)
OddRun(S, lo, i) ==
  \E k \in lo .. i - 1 : /\ \A j \in k .. i - 1 : j \in S
                         /\ k = lo \/ k - 1 \notin S
                         /\ (i - k) % 2 = 1

(* Such a run starts somewhere.                                             *)
LEMMA RunStarts ==
  ASSUME NEW S, NEW lo \in Nat, NEW i \in Nat, lo <= i, i \in S
  PROVE  \E k \in lo .. i : (\A j \in k .. i : j \in S) /\ (k = lo \/ k - 1 \notin S)
<1> DEFINE K == {k \in Nat : lo <= k /\ k <= i /\ \A j \in k .. i : j \in S}
<1>1. i \in K /\ K \subseteq Nat
  OBVIOUS
<1>2. PICK m \in K : \A k \in K : m <= k
  BY <1>1, Least
<1>3. m = lo \/ m - 1 \notin S
  <2> SUFFICES ASSUME m # lo, m - 1 \in S PROVE FALSE
    OBVIOUS
  <2>1. m - 1 \in Nat /\ lo <= m - 1 /\ m - 1 <= i
    OBVIOUS
  <2>2. \A j \in m - 1 .. i : j = m - 1 \/ j \in m .. i
    BY <2>1
  <2>3. m - 1 \in K
    BY <2>1, <2>2
  <2> QED  BY <1>2, <2>1, <2>3
<1> QED  BY <1>3

(* Going on by one turns odd into even.                                     *)
LEMMA OddRunNext ==
  ASSUME NEW S, NEW lo \in Nat, NEW i \in Nat, lo <= i
  PROVE  OddRun(S, lo, i + 1) <=> i \in S /\ ~OddRun(S, lo, i)
<1>1. ASSUME OddRun(S, lo, i + 1) PROVE i \in S /\ ~OddRun(S, lo, i)
  <2>1. PICK k \in lo .. i : /\ \A j \in k .. i : j \in S
                             /\ k = lo \/ k - 1 \notin S
                             /\ ((i + 1) - k) % 2 = 1
    <3>1. (i + 1) - 1 = i
      OBVIOUS
    <3> QED  BY <1>1, <3>1 DEF OddRun
  <2>2. i - k \in Nat /\ (i + 1) - k = (i - k) + 1
    OBVIOUS
  <2>3. (i - k) % 2 = 0
    BY <2>1, <2>2, Parity
  <2>4. i \in S
    BY <2>1
  <2>5. ASSUME NEW h \in lo .. i - 1, \A j \in h .. i - 1 : j \in S, h = lo \/ h - 1 \notin S,
               (i - h) % 2 = 1
        PROVE  FALSE
    <3>1. CASE h = k
      BY <2>3, <2>5, <3>1
    <3>2. CASE h < k
      <4>1. k - 1 \in h .. i - 1 /\ k # lo
        BY <3>2
      <4> QED  BY <2>1, <2>5, <4>1
    <3>3. CASE k < h
      <4>1. h - 1 \in k .. i /\ h # lo
        BY <3>3
      <4> QED  BY <2>1, <2>5, <4>1
    <3> QED  BY <3>1, <3>2, <3>3
  <2> QED  BY <2>4, <2>5 DEF OddRun
<1>2. ASSUME i \in S, ~OddRun(S, lo, i) PROVE OddRun(S, lo, i + 1)
  <2>1. PICK k \in lo .. i : (\A j \in k .. i : j \in S) /\ (k = lo \/ k - 1 \notin S)
    BY <1>2, RunStarts
  <2>2. i - k \in Nat /\ (i + 1) - k = (i - k) + 1 /\ (i + 1) - 1 = i
    OBVIOUS
  <2>3. (i - k) % 2 # 1
    <3>1. CASE k = i
      <4>1. i - k = 0
        BY <3>1
      <4> QED  BY <4>1
    <3>2. CASE k # i
      <4>1. k \in lo .. i - 1 /\ \A j \in k .. i - 1 : j \in S
        BY <2>1, <3>2
      <4> QED  BY <1>2, <2>1, <4>1 DEF OddRun
    <3> QED  BY <3>1, <3>2
  <2>4. ((i + 1) - k) % 2 = 1
    BY <2>2, <2>3, Parity
  <2> QED  BY <2>1, <2>2, <2>4 DEF OddRun
<1> QED  BY <1>1, <1>2

LEMMA OddRunFirst ==
  ASSUME NEW S, NEW lo \in Nat
  PROVE  ~OddRun(S, lo, lo)
BY DEF OddRun

(* f goes from each position to the next by the steps g: there is such a    *)
(* function, and no other.                                                  *)
StepFunctions(N, S) == [1 .. N -> [S -> S]]
Follows(N, S, base, g, f) ==
  /\ f \in [0 .. N -> S]
  /\ f[0] = base
  /\ \A n \in 1 .. N : f[n] = g[n][f[n - 1]]

LEMMA Recursion ==
  ASSUME NEW N \in Nat, NEW S, NEW base \in S, NEW g \in StepFunctions(N, S)
  PROVE  \E f : Follows(N, S, base, g, f)
<1> USE DEF StepFunctions
<1> DEFINE Upto(n, f) == /\ f \in [0 .. n -> S]
                         /\ f[0] = base
                         /\ \A i \in 1 .. n : f[i] = g[i][f[i - 1]]
           P == {n \in 0 .. N : \E f : Upto(n, f)}
<1>1. 0 \in P
  <2> DEFINE f == [i \in 0 .. 0 |-> base]
  <2>1. Upto(0, f)
    OBVIOUS
  <2> HIDE DEF f, Upto
  <2> QED  BY <2>1
<1>2. ASSUME NEW n \in 0 .. N - 1, n \in P PROVE n + 1 \in P
  <2>1. PICK f : Upto(n, f)
    BY <1>2
  <2> DEFINE h == [i \in 0 .. n + 1 |-> IF i = n + 1 THEN g[n + 1][f[n]] ELSE f[i]]
  <2>2. g[n + 1][f[n]] \in S
    BY <2>1
  <2>3. h \in [0 .. n + 1 -> S]
    BY <2>1, <2>2
  <2>4. h[0] = base
    BY <2>1
  <2>5. ASSUME NEW i \in 1 .. n + 1 PROVE h[i] = g[i][h[i - 1]]
    <3>1. CASE i = n + 1
      BY <3>1
    <3>2. CASE i \in 1 .. n
      BY <2>1, <3>2
    <3> QED  BY <3>1, <3>2
  <2>6. Upto(n + 1, h)
    BY <2>3, <2>4, <2>5
  <2>7. n + 1 \in 0 .. N
    OBVIOUS
  <2> HIDE DEF h, Upto
  <2> QED  BY <2>6, <2>7
<1> HIDE DEF P
<1>3. N \in P
  <2>1. \A n \in 0 .. N : n \in P
    BY <1>1, <1>2, Positions
  <2> QED  BY <2>1
<1> QED  BY <1>3 DEF P, Follows

LEMMA RecursionUnique ==
  ASSUME NEW N \in Nat, NEW S, NEW base, NEW g, NEW f, Follows(N, S, base, g, f),
         NEW h, h[0] = base, \A n \in 1 .. N : h[n - 1] \in S => h[n] = g[n][h[n - 1]]
  PROVE  \A n \in 0 .. N : h[n] = f[n]
<1> DEFINE P == {n \in 0 .. N : h[n] = f[n]}
<1>1. 0 \in P
  BY DEF Follows
<1>2. ASSUME NEW n \in 0 .. N - 1, n \in P PROVE n + 1 \in P
  <2>1. n + 1 \in 1 .. N /\ (n + 1) - 1 = n /\ n \in 0 .. N
    OBVIOUS
  <2>2. f[n] \in S /\ f[n + 1] = g[n + 1][f[n]]
    BY <2>1 DEF Follows
  <2>3. h[n] = f[n]
    BY <1>2
  <2>4. h[n + 1] = g[n + 1][h[n]]
    BY <2>1, <2>2, <2>3
  <2> QED  BY <2>1, <2>2, <2>3, <2>4
<1> HIDE DEF P
<1>3. \A n \in 0 .. N : n \in P
  BY <1>1, <1>2, Positions
<1> QED  BY <1>3 DEF P

----------------------------------------------------------------------------
(* The states of the scanner.                                               *)
PartsOf(text) == {TrimSpace(SubSeq(text, a, b)) : a \in Int, b \in Int}
ScanModes == {"code", "line", "block"} \cup Quotes
ScanStates(text) ==
  [mode : ScanModes, escaped : BOOLEAN, skip : BOOLEAN, start : Nat, parts : Seq(PartsOf(text))]

LEMMA AppendPartType ==
  ASSUME NEW text \in Seq(STRING), NEW s \in ScanStates(text), NEW n \in Int
  PROVE  AppendPart(s, text, n) \in Seq(PartsOf(text))
<1> DEFINE part == TrimSpace(SubSeq(text, s.start, n))
<1>1. s.start \in Int /\ s.parts \in Seq(PartsOf(text))
  BY DEF ScanStates
<1>2. part \in PartsOf(text)
  BY <1>1 DEF PartsOf
<1> HIDE DEF part
<1>3. AppendPart(s, text, n) = IF part = <<>> THEN s.parts ELSE Append(s.parts, part)
  BY DEF AppendPart, part
<1> QED  BY <1>1, <1>2, <1>3

LEMMA ToType ==
  ASSUME NEW text, NEW s \in ScanStates(text), NEW mode \in ScanModes, NEW skip \in BOOLEAN
  PROVE  To(s, mode, skip) \in ScanStates(text)
BY DEF To, ScanStates

LEMMA ScanCodeType ==
  ASSUME NEW text \in Seq(STRING), NEW s \in ScanStates(text), NEW i \in 1 .. Len(text)
  PROVE  ScanCode(s, text, i) \in ScanStates(text)
<1>1. To(s, "block", TRUE) \in ScanStates(text)
  BY ToType DEF ScanModes
<1>2. \A b \in BOOLEAN : To(s, "line", b) \in ScanStates(text)
  BY ToType DEF ScanModes
<1>3. text[i] \in Quotes => To(s, text[i], FALSE) \in ScanStates(text)
  BY ToType DEF ScanModes
<1>4. [s EXCEPT !.parts = AppendPart(s, text, i - 1), !.start = i + 1] \in ScanStates(text)
  <2> DEFINE ps == AppendPart(s, text, i - 1)
             T == Seq(PartsOf(text))
  <2>1. ps \in T /\ i + 1 \in Nat
    BY AppendPartType
  <2> HIDE DEF ps, T
  <2> QED  BY <2>1 DEF ScanStates, T, ps
<1>5. (text[i] = "-") \in BOOLEAN
  OBVIOUS
<1> QED  BY <1>1, <1>2, <1>3, <1>4, <1>5, Zenon DEF ScanCode

LEMMA ScanQuoteType ==
  ASSUME NEW text, NEW s \in ScanStates(text), NEW i
  PROVE  ScanQuote(s, text, i) \in ScanStates(text)
<1>1. To(s, "code", FALSE) \in ScanStates(text)
  BY ToType DEF ScanModes
<1>2. \A b \in BOOLEAN : [s EXCEPT !.escaped = b] \in ScanStates(text) /\ [s EXCEPT !.skip = b] \in ScanStates(text)
  BY DEF ScanStates
<1> QED  BY <1>1, <1>2, Zenon DEF ScanQuote

LEMMA ScanCharType ==
  ASSUME NEW text \in Seq(STRING), NEW s \in ScanStates(text), NEW i \in 1 .. Len(text)
  PROVE  ScanChar(s, text, i) \in ScanStates(text)
<1>1. To(s, "code", FALSE) \in ScanStates(text) /\ To(s, "code", TRUE) \in ScanStates(text)
  BY ToType DEF ScanModes
<1>2. [s EXCEPT !.skip = FALSE] \in ScanStates(text)
  BY DEF ScanStates
<1>3. ScanCode(s, text, i) \in ScanStates(text) /\ ScanQuote(s, text, i) \in ScanStates(text)
  BY ScanCodeType, ScanQuoteType
<1>4. s.mode \in ScanModes
  BY DEF ScanStates
<1> QED  BY <1>1, <1>2, <1>3, <1>4, Zenon DEF ScanChar, ScanModes

(* Scan satisfies its own equation.                                         *)
Scanning(text, f) ==
  /\ f \in [0 .. Len(text) -> ScanStates(text)]
  /\ f[0] = ScanStart
  /\ \A i \in 1 .. Len(text) : f[i] = ScanChar(f[i - 1], text, i)
  /\ Scan(text) = f[Len(text)]

LEMMA ScanDef ==
  ASSUME NEW text \in Seq(STRING)
  PROVE  \E f : Scanning(text, f)
<1> DEFINE N == Len(text)
           S == ScanStates(text)
           G == [n \in 1 .. N |-> [s \in S |-> ScanChar(s, text, n)]]
           Is(f) == f = [n \in 0 .. N |-> IF n = 0 THEN ScanStart ELSE ScanChar(f[n - 1], text, n)]
           h == CHOOSE f : Is(f)
<1>1. N \in Nat
  OBVIOUS
<1>2. \A n \in 1 .. N, s \in S : ScanChar(s, text, n) \in S
  BY ScanCharType
<1>3. ScanStart \in S
  <2>1. <<>> \in Seq(PartsOf(text))
    OBVIOUS
  <2> QED  BY <2>1 DEF ScanStart, ScanStates, ScanModes
<1> HIDE DEF N, S
<1>4. G \in StepFunctions(N, S)
  BY <1>2 DEF StepFunctions
<1>5. PICK f : Follows(N, S, ScanStart, G, f)
  BY <1>1, <1>3, <1>4, Recursion
<1>6. ASSUME NEW n \in 1 .. N PROVE f[n] = ScanChar(f[n - 1], text, n)
  <2>1. f[n - 1] \in S /\ f[n] = G[n][f[n - 1]]
    <3> HIDE DEF G
    <3> QED  BY <1>1, <1>5 DEF Follows
  <2> QED  BY <2>1
<1>7. f \in [0 .. N -> S] /\ f[0] = ScanStart
  BY <1>5 DEF Follows
<1>8. Is(f)
  BY <1>1, <1>6, <1>7
<1>9. Is(h)
  BY <1>8
<1>10. Scan(text) = h[N]
  BY DEF Scan, N
<1> HIDE DEF h
<1>11. h[0] = ScanStart /\ \A n \in 1 .. N : h[n] = ScanChar(h[n - 1], text, n)
  BY <1>1, <1>9
<1>12. \A n \in 1 .. N : h[n - 1] \in S => h[n] = G[n][h[n - 1]]
  BY <1>11
<1>13. \A n \in 0 .. N : h[n] = f[n]
  <2> HIDE DEF G
  <2> QED  BY <1>1, <1>5, <1>11, <1>12, RecursionUnique
<1>14. Scan(text) = f[N]
  BY <1>1, <1>10, <1>13
<1> QED  BY <1>6, <1>7, <1>14 DEF Scanning, N, S

----------------------------------------------------------------------------
(* The first position of a set, or the one after the text.                  *)
LEMMA FirstOfFacts ==
  ASSUME NEW text \in Seq(STRING), NEW S, S \subseteq Nat, \A x \in S : x <= Len(text)
  PROVE  LET e == FirstOf(S, text)
         IN  /\ e \in Nat /\ e <= Len(text) + 1
             /\ e = Len(text) + 1 \/ e \in S
             /\ \A y \in S : e <= y
<1>1. CASE S = {}
  BY <1>1 DEF FirstOf
<1>2. CASE S # {}
  <2>1. PICK m \in S : \A n \in S : m <= n
    BY <1>2, Least
  <2>2. Min(S) \in S /\ \A y \in S : Min(S) <= y
    BY <2>1 DEF Min
  <2>3. FirstOf(S, text) = Min(S)
    BY <1>2 DEF FirstOf
  <2>4. Min(S) \in Nat /\ Min(S) <= Len(text)
    BY <2>2, Zenon
  <2>5. Len(text) \in Nat
    OBVIOUS
  <2> QED  BY <2>2, <2>3, <2>4, <2>5
<1> QED  BY <1>1, <1>2

(* Where a comment or a quoted text ends.                                   *)
LineEnds(text, i) == {j \in i .. Len(text) : text[j] = "nl"}
BlockEnds(text, i) == {j \in i + 3 .. Len(text) : text[j - 1] = "*" /\ text[j] = "/"}
QuoteEnds(text, i, mode) == {j \in i + 1 .. Len(text) : ClosesAt(text, i, j, mode)}

LEMMA EndAtKinds ==
  ASSUME NEW text, NEW i, NEW mode
  PROVE  /\ KindAt(text, i) \in {"line", "block", "opens", "quoted", "space", "char"}
         /\ KindAt(text, i) = "line" => EndAt(text, i, mode) = FirstOf(LineEnds(text, i), text)
         /\ KindAt(text, i) = "block" => EndAt(text, i, mode) = FirstOf(BlockEnds(text, i), text)
         /\ KindAt(text, i) = "opens" => EndAt(text, i, mode) = i + 2
         /\ KindAt(text, i) = "quoted" => EndAt(text, i, mode) = FirstOf(QuoteEnds(text, i, mode), text)
         /\ KindAt(text, i) \in {"space", "char"} => EndAt(text, i, mode) = i
<1>1. KindAt(text, i) \in {"line", "block", "opens", "quoted", "space", "char"}
  BY Zenon DEF KindAt
<1> QED  BY <1>1 DEF EndAt, LineEnds, BlockEnds, BlockEnd, QuoteEnds

LEMMA KindOpens ==
  ASSUME NEW text, NEW i, KindAt(text, i) = "opens"
  PROVE  text[i] = "/" /\ CharAt(text, i + 1) = "*" /\ CharAt(text, i + 2) = "bang"
<1> SUFFICES ASSUME ~(text[i] = "/" /\ CharAt(text, i + 1) = "*" /\ CharAt(text, i + 2) = "bang") PROVE FALSE
  OBVIOUS
<1>1. KindAt(text, i) \in {"line", "block", "quoted", "space", "char"}
  BY Zenon DEF KindAt
<1> QED  BY <1>1

LEMMA EndAtType ==
  ASSUME NEW text \in Seq(STRING), NEW i \in 1 .. Len(text), NEW mode
  PROVE  /\ EndAt(text, i, mode) \in Nat
         /\ EndAt(text, i, mode) >= i
         /\ EndAt(text, i, mode) <= Len(text) + 1
<1>1. ASSUME NEW S, S \subseteq i .. Len(text)
      PROVE  FirstOf(S, text) \in Nat /\ FirstOf(S, text) >= i /\ FirstOf(S, text) <= Len(text) + 1
  <2>1. S \subseteq Nat /\ \A x \in S : x <= Len(text) /\ x >= i
    BY <1>1
  <2> DEFINE e == FirstOf(S, text)
  <2>2. e \in Nat /\ e <= Len(text) + 1 /\ (e = Len(text) + 1 \/ e \in S)
    BY <2>1, FirstOfFacts
  <2>3. Len(text) \in Nat /\ i <= Len(text)
    OBVIOUS
  <2> HIDE DEF e
  <2>4. e >= i
    BY <2>1, <2>2, <2>3
  <2> QED  BY <2>2, <2>4 DEF e
<1>2. LineEnds(text, i) \subseteq i .. Len(text) /\ BlockEnds(text, i) \subseteq i .. Len(text)
  BY DEF LineEnds, BlockEnds
<1>3. QuoteEnds(text, i, mode) \subseteq i .. Len(text)
  BY DEF QuoteEnds
<1>4. CASE KindAt(text, i) = "line"
  BY <1>1, <1>2, <1>4, EndAtKinds
<1>5. CASE KindAt(text, i) = "block"
  BY <1>1, <1>2, <1>5, EndAtKinds
<1>6. CASE KindAt(text, i) = "quoted"
  BY <1>1, <1>3, <1>6, EndAtKinds
<1>7. CASE KindAt(text, i) \in {"space", "char"}
  <2>1. EndAt(text, i, mode) = i
    BY <1>7, EndAtKinds
  <2> QED  BY <2>1
<1>8. CASE KindAt(text, i) = "opens"
  <2>1. EndAt(text, i, mode) = i + 2
    BY <1>8, EndAtKinds
  <2>2. i + 2 \in DOMAIN text
    BY <1>8, KindOpens DEF CharAt
  <2> QED  BY <2>1, <2>2
<1> QED  BY <1>4, <1>5, <1>6, <1>7, <1>8, EndAtKinds

(* Lex satisfies its own equation.                                          *)
LexStates == [end : Nat, open : BOOLEAN, begins : SUBSET Nat]
Lexing(text, mode, f) ==
  /\ f \in [0 .. Len(text) -> LexStates]
  /\ f[0] = LexStart
  /\ \A i \in 1 .. Len(text) : f[i] = LexChar(f[i - 1], text, i, mode)
  /\ Lex(text, mode) = f[Len(text)]

LEMMA LexDef ==
  ASSUME NEW text \in Seq(STRING), NEW mode
  PROVE  \E f : Lexing(text, mode, f)
<1> DEFINE N == Len(text)
           S == LexStates
           G == [n \in 1 .. N |-> [l \in S |-> LexChar(l, text, n, mode)]]
           Is(f) == f = [n \in 0 .. N |-> IF n = 0 THEN LexStart ELSE LexChar(f[n - 1], text, n, mode)]
           h == CHOOSE f : Is(f)
<1>1. N \in Nat
  OBVIOUS
<1>2. ASSUME NEW n \in 1 .. N, NEW l \in S PROVE LexChar(l, text, n, mode) \in S
  <2>1. EndAt(text, n, mode) \in Nat /\ n + 1 \in Nat /\ n \in Nat
    BY EndAtType
  <2>2. l.open \in BOOLEAN /\ l.begins \in SUBSET Nat
    BY DEF LexStates
  <2>3. [l EXCEPT !.end = n + 1, !.open = FALSE] \in S
    BY <2>1 DEF LexStates
  <2>4. [end |-> EndAt(text, n, mode), open |-> l.open \/ KindAt(text, n) = "opens", begins |-> l.begins \cup {n}] \in S
    BY <2>1, <2>2 DEF LexStates
  <2> QED  BY <2>3, <2>4, Zenon DEF LexChar
<1>3. LexStart \in S
  BY DEF LexStart, LexStates
<1> HIDE DEF N, S
<1>4. G \in StepFunctions(N, S)
  BY <1>2 DEF StepFunctions
<1>5. PICK f : Follows(N, S, LexStart, G, f)
  BY <1>1, <1>3, <1>4, Recursion
<1>6. ASSUME NEW n \in 1 .. N PROVE f[n] = LexChar(f[n - 1], text, n, mode)
  <2>1. f[n - 1] \in S /\ f[n] = G[n][f[n - 1]]
    <3> HIDE DEF G
    <3> QED  BY <1>1, <1>5 DEF Follows
  <2> QED  BY <2>1
<1>7. f \in [0 .. N -> S] /\ f[0] = LexStart
  BY <1>5 DEF Follows
<1>8. Is(f)
  BY <1>1, <1>6, <1>7
<1>9. Is(h)
  BY <1>8
<1>10. Lex(text, mode) = h[N]
  BY DEF Lex, N
<1> HIDE DEF h
<1>11. h[0] = LexStart /\ \A n \in 1 .. N : h[n] = LexChar(h[n - 1], text, n, mode)
  BY <1>1, <1>9
<1>12. \A n \in 1 .. N : h[n - 1] \in S => h[n] = G[n][h[n - 1]]
  BY <1>11
<1>13. \A n \in 0 .. N : h[n] = f[n]
  <2> HIDE DEF G
  <2> QED  BY <1>1, <1>5, <1>11, <1>12, RecursionUnique
<1>14. Lex(text, mode) = f[N]
  BY <1>1, <1>10, <1>13
<1> QED  BY <1>6, <1>7, <1>14 DEF Lexing, N, S

(* The star of the star and slash that close an executable comment.         *)
ClosesExec(text, l, i) == l.open /\ text[i] = "*" /\ CharAt(text, i + 1) = "/"

(* One position more.                                                       *)
LEMMA LexNext ==
  ASSUME NEW text \in Seq(STRING), NEW mode, NEW f, Lexing(text, mode, f), NEW i \in 0 .. Len(text) - 1
  PROVE  /\ f[i].end >= i + 1 => f[i + 1] = f[i]
         /\ f[i].end < i + 1 /\ ClosesExec(text, f[i], i + 1) =>
              f[i + 1].end = i + 2 /\ ~f[i + 1].open /\ f[i + 1].begins = f[i].begins
         /\ f[i].end < i + 1 /\ ~ClosesExec(text, f[i], i + 1) =>
              /\ f[i + 1].end = EndAt(text, i + 1, mode)
              /\ f[i + 1].open <=> f[i].open \/ KindAt(text, i + 1) = "opens"
              /\ f[i + 1].begins = f[i].begins \cup {i + 1}
<1>1. i + 1 \in 1 .. Len(text) /\ (i + 1) - 1 = i /\ f[i] \in LexStates
  BY DEF Lexing
<1>2. f[i + 1] = LexChar(f[i], text, i + 1, mode)
  BY <1>1 DEF Lexing
<1>3. f[i].end \in Nat /\ f[i].open \in BOOLEAN /\ (i + 1) + 1 = i + 2
  BY <1>1 DEF LexStates
<1> DEFINE closed == [f[i] EXCEPT !.end = i + 2, !.open = FALSE]
           begun == [end |-> EndAt(text, i + 1, mode), open |-> f[i].open \/ KindAt(text, i + 1) = "opens",
                     begins |-> f[i].begins \cup {i + 1}]
<1>4. f[i + 1] = IF f[i].end >= i + 1 THEN f[i] ELSE IF ClosesExec(text, f[i], i + 1) THEN closed ELSE begun
  BY <1>2, <1>3, Zenon DEF LexChar, ClosesExec
<1>5. closed.end = i + 2 /\ ~closed.open /\ closed.begins = f[i].begins
  BY <1>1 DEF LexStates
<1>6. /\ begun.end = EndAt(text, i + 1, mode) /\ begun.begins = f[i].begins \cup {i + 1}
      /\ begun.open <=> f[i].open \/ KindAt(text, i + 1) = "opens"
  BY Zenon
<1>7. f[i].end < i + 1 => ~(f[i].end >= i + 1)
  BY <1>3
<1> HIDE DEF closed, begun
<1> QED  BY <1>4, <1>5, <1>6, <1>7, Zenon

LEMMA LexBegins ==
  ASSUME NEW text \in Seq(STRING), NEW mode, NEW f, Lexing(text, mode, f), NEW i \in 0 .. Len(text) - 1,
         f[i].end < i + 1, ~ClosesExec(text, f[i], i + 1)
  PROVE  f[i + 1].end = EndAt(text, i + 1, mode) /\ f[i + 1].begins = f[i].begins \cup {i + 1}
BY LexNext

(* What began before position i reaches position i.                         *)
LEMMA LexReaches ==
  ASSUME NEW text \in Seq(STRING), NEW mode, NEW f, Lexing(text, mode, f)
  PROVE  \A i \in 0 .. Len(text) :
           /\ f[i].end \in Nat /\ f[i].end >= i
           /\ f[i].begins \subseteq 1 .. i
           /\ \A b \in f[i].begins : EndAt(text, b, mode) <= f[i].end
           /\ \A b, c \in f[i].begins : b < c => EndAt(text, b, mode) < c
<1> DEFINE R(i) == /\ f[i].end \in Nat /\ f[i].end >= i
                   /\ f[i].begins \subseteq 1 .. i
                   /\ \A b \in f[i].begins : EndAt(text, b, mode) <= f[i].end
                   /\ \A b, c \in f[i].begins : b < c => EndAt(text, b, mode) < c
           P == {i \in 0 .. Len(text) : R(i)}
<1>1. 0 \in P
  BY DEF Lexing, LexStart
<1>2. ASSUME NEW i \in 0 .. Len(text) - 1, i \in P PROVE i + 1 \in P
  <2>1. R(i) /\ i + 1 \in 1 .. Len(text)
    BY <1>2
  <2>2. CASE f[i].end >= i + 1
    <3>1. f[i + 1] = f[i]
      BY <2>2, LexNext
    <3> QED  BY <2>1, <2>2, <3>1
  <2>4. CASE f[i].end < i + 1 /\ ClosesExec(text, f[i], i + 1)
    <3>1. f[i + 1].end = i + 2 /\ f[i + 1].begins = f[i].begins
      BY <2>4, LexNext
    <3>2. \A b \in f[i].begins : b \in 1 .. Len(text) /\ EndAt(text, b, mode) \in Nat
      BY <2>1, EndAtType
    <3>3. \A b \in f[i].begins : EndAt(text, b, mode) <= i + 2
      BY <2>1, <2>4, <3>2
    <3> QED  BY <2>1, <3>1, <3>3
  <2>3. CASE f[i].end < i + 1 /\ ~ClosesExec(text, f[i], i + 1)
    <3> DEFINE e == EndAt(text, i + 1, mode)
    <3>1. f[i + 1].end = e /\ f[i + 1].begins = f[i].begins \cup {i + 1}
      <4> HIDE DEF P, R, e
      <4>1. f[i].end < i + 1 /\ ~ClosesExec(text, f[i], i + 1)
        BY <2>3
      <4>2. /\ f[i + 1].end = EndAt(text, i + 1, mode)
            /\ f[i + 1].begins = f[i].begins \cup {i + 1}
        BY <4>1, LexBegins
      <4> QED  BY <4>2 DEF e
    <3>2. e \in Nat /\ e >= i + 1
      BY <2>1, EndAtType
    <3>3. \A b \in f[i].begins : b < i + 1 /\ b \in 1 .. Len(text) /\ EndAt(text, b, mode) < i + 1
      <4>1. \A b \in f[i].begins : b < i + 1 /\ b \in 1 .. Len(text) /\ EndAt(text, b, mode) \in Nat
        BY <2>1, EndAtType
      <4> QED  BY <2>1, <2>3, <4>1
    <3>4. \A b \in f[i].begins : EndAt(text, b, mode) \in Nat
      BY <3>3, EndAtType
    <3>5. f[i + 1].begins \subseteq 1 .. i + 1
      BY <2>1, <3>1
    <3>6. \A b \in f[i + 1].begins : EndAt(text, b, mode) <= e
      BY <3>1, <3>2, <3>3, <3>4
    <3>7. \A b, c \in f[i + 1].begins : b < c => EndAt(text, b, mode) < c
      BY <2>1, <3>1, <3>3
    <3> QED  BY <2>1, <3>1, <3>2, <3>5, <3>6, <3>7
  <2> QED  BY <2>1, <2>2, <2>3, <2>4
<1> HIDE DEF P
<1>3. Len(text) \in Nat
  OBVIOUS
<1>4. \A i \in 0 .. Len(text) : i \in P
  BY <1>1, <1>2, <1>3, Positions
<1> QED  BY <1>4 DEF P

(* What has begun up to position i stays, and nothing is added later.       *)
LEMMA LexPrefix ==
  ASSUME NEW text \in Seq(STRING), NEW mode, NEW f, Lexing(text, mode, f)
  PROVE  \A i \in 0 .. Len(text) : f[i].begins = Begins(text, mode) \cap (1 .. i)
<1> DEFINE N == Len(text)
           P == {n \in 0 .. N : \A i \in 0 .. n : f[i].begins = f[n].begins \cap (1 .. i)}
<1>1. N \in Nat /\ Begins(text, mode) = f[N].begins
  BY DEF Lexing, Begins
<1>2. \A i \in 0 .. N : f[i].begins \subseteq 1 .. i
  BY LexReaches
<1>3. \A i \in 0 .. N - 1 : f[i + 1].begins = f[i].begins \/ f[i + 1].begins = f[i].begins \cup {i + 1}
  <2> SUFFICES ASSUME NEW i \in 0 .. N - 1
               PROVE  f[i + 1].begins = f[i].begins \/ f[i + 1].begins = f[i].begins \cup {i + 1}
    OBVIOUS
  <2>1. f[i].end \in Nat
    <3>1. i \in 0 .. Len(text)
      BY <1>1
    <3> QED  BY <3>1, LexReaches
  <2>2. CASE f[i].end >= i + 1
    BY <2>2, LexNext
  <2>3. CASE f[i].end < i + 1
    BY <2>3, LexNext
  <2> QED  BY <2>1, <2>2, <2>3
<1> HIDE DEF N
<1>4. 0 \in P
  BY <1>1, <1>2
<1>5. ASSUME NEW n \in 0 .. N - 1, n \in P PROVE n + 1 \in P
  <2>1. n + 1 \in 0 .. N /\ n \in 0 .. N
    BY <1>1
  <2>2. ASSUME NEW i \in 0 .. n + 1 PROVE f[i].begins = f[n + 1].begins \cap (1 .. i)
    <3>1. CASE i = n + 1
      BY <1>2, <2>1, <3>1
    <3>2. CASE i # n + 1
      <4>1. i \in 0 .. n /\ n + 1 \notin 1 .. i
        BY <1>1, <2>1, <3>2
      <4>2. f[i].begins = f[n].begins \cap (1 .. i)
        BY <1>5, <4>1
      <4> QED  BY <1>3, <4>1, <4>2
    <3> QED  BY <3>1, <3>2
  <2> QED  BY <2>1, <2>2
<1>6. N \in P
  <2>1. \A n \in 0 .. N : n \in P
    <3> HIDE DEF P
    <3> QED  BY <1>1, <1>4, <1>5, Positions
  <2> QED  BY <1>1, <2>1
<1> QED  BY <1>1, <1>6 DEF N

----------------------------------------------------------------------------
(* Inside a quoted text that position b opens: the backslashes, the quotes  *)
(* that are not escaped, and whether position i is the second quote of two. *)
Backs(text) == {j \in 1 .. Len(text) : text[j] = "backslash"}
Marks(text, b) == {j \in b + 1 .. Len(text) : text[j] = text[b] /\ ~Escaped(text, b, j, "default")}
Second(text, b, i) == OddRun(Marks(text, b), b + 1, i)

LEMMA EscapedIs ==
  ASSUME NEW text \in Seq(STRING), NEW b \in 1 .. Len(text), text[b] \in Quotes, NEW i \in b + 1 .. Len(text) + 1
  PROVE  Escaped(text, b, i, "default") <=> text[b] # "backtick" /\ OddRun(Backs(text), b + 1, i)
<1>1. text[b] # "backslash"
  BY DEF Quotes
<1>2. \A j \in b .. i - 1 : j \in Backs(text) <=> text[j] = "backslash"
  BY DEF Backs
<1>3. ASSUME NEW k \in b + 1 .. i - 1
      PROVE  /\ (\A j \in k .. i - 1 : text[j] = "backslash") <=> (\A j \in k .. i - 1 : j \in Backs(text))
             /\ text[k - 1] # "backslash" <=> (k = b + 1 \/ k - 1 \notin Backs(text))
  <2>1. \A j \in k .. i - 1 : j \in b .. i - 1
    OBVIOUS
  <2>2. k - 1 \in b .. i - 1 /\ (k = b + 1 => k - 1 = b)
    OBVIOUS
  <2> QED  BY <1>1, <1>2, <2>1, <2>2
<1> QED  BY <1>3, Zenon DEF Escaped, OddRun

LEMMA EscapedNext ==
  ASSUME NEW text \in Seq(STRING), NEW b \in 1 .. Len(text), text[b] \in Quotes
  PROVE  /\ ~Escaped(text, b, b + 1, "default")
         /\ \A i \in b + 1 .. Len(text) :
              Escaped(text, b, i + 1, "default")
                <=> text[b] # "backtick" /\ text[i] = "backslash" /\ ~Escaped(text, b, i, "default")
<1>1. b + 1 \in b + 1 .. Len(text) + 1 /\ b + 1 \in Nat
  OBVIOUS
<1>2. ~Escaped(text, b, b + 1, "default")
  BY <1>1, EscapedIs, OddRunFirst
<1>3. ASSUME NEW i \in b + 1 .. Len(text)
      PROVE  Escaped(text, b, i + 1, "default")
               <=> text[b] # "backtick" /\ text[i] = "backslash" /\ ~Escaped(text, b, i, "default")
  <2>1. i \in b + 1 .. Len(text) + 1 /\ i + 1 \in b + 1 .. Len(text) + 1 /\ i \in Nat /\ b + 1 <= i
    OBVIOUS
  <2>2. i \in Backs(text) <=> text[i] = "backslash"
    BY DEF Backs
  <2>3. OddRun(Backs(text), b + 1, i + 1) <=> i \in Backs(text) /\ ~OddRun(Backs(text), b + 1, i)
    BY <1>1, <2>1, OddRunNext
  <2>4. Escaped(text, b, i, "default") <=> text[b] # "backtick" /\ OddRun(Backs(text), b + 1, i)
    BY <2>1, EscapedIs
  <2>5. Escaped(text, b, i + 1, "default") <=> text[b] # "backtick" /\ OddRun(Backs(text), b + 1, i + 1)
    BY <2>1, EscapedIs
  <2> QED  BY <2>2, <2>3, <2>4, <2>5
<1> QED  BY <1>2, <1>3

LEMMA SecondNext ==
  ASSUME NEW text \in Seq(STRING), NEW b \in 1 .. Len(text)
  PROVE  /\ ~Second(text, b, b + 1)
         /\ \A i \in b + 1 .. Len(text) :
              Second(text, b, i + 1)
                <=> text[i] = text[b] /\ ~Escaped(text, b, i, "default") /\ ~Second(text, b, i)
<1>1. b + 1 \in Nat
  OBVIOUS
<1>2. ~Second(text, b, b + 1)
  BY <1>1, OddRunFirst DEF Second
<1>3. ASSUME NEW i \in b + 1 .. Len(text)
      PROVE  Second(text, b, i + 1)
               <=> text[i] = text[b] /\ ~Escaped(text, b, i, "default") /\ ~Second(text, b, i)
  <2>1. i \in Nat /\ b + 1 <= i
    OBVIOUS
  <2>2. i \in Marks(text, b) <=> text[i] = text[b] /\ ~Escaped(text, b, i, "default")
    BY DEF Marks
  <2>3. OddRun(Marks(text, b), b + 1, i + 1) <=> i \in Marks(text, b) /\ ~OddRun(Marks(text, b), b + 1, i)
    BY <1>1, <2>1, OddRunNext
  <2> QED  BY <2>2, <2>3 DEF Second
<1> QED  BY <1>2, <1>3

(* A quote ends the text if it is the first of two and has no second.       *)
LEMMA ClosesIs ==
  ASSUME NEW text \in Seq(STRING), NEW b \in 1 .. Len(text), NEW i \in b + 1 .. Len(text)
  PROVE  ClosesAt(text, b, i, "default")
           <=> /\ CharAt(text, i + 1) # text[b]
               /\ text[i] = text[b] /\ ~Escaped(text, b, i, "default") /\ ~Second(text, b, i)
<1> DEFINE M == Marks(text, b)
           quote(j) == text[j] = text[b] /\ ~Escaped(text, b, j, "default")
<1>1. \A j \in b + 1 .. i : j \in M <=> quote(j)
  BY DEF Marks
<1>2. (i + 1) - 1 = i
  OBVIOUS
<1>3. ASSUME NEW k \in b + 1 .. i
      PROVE  /\ (\A j \in k .. i : quote(j)) <=> (\A j \in k .. i : j \in M)
             /\ (k = b + 1 \/ ~quote(k - 1)) <=> (k = b + 1 \/ k - 1 \notin M)
             /\ (i - k) % 2 = 0 <=> ((i + 1) - k) % 2 = 1
  <2>1. \A j \in k .. i : j \in b + 1 .. i
    OBVIOUS
  <2>2. k # b + 1 => k - 1 \in b + 1 .. i
    OBVIOUS
  <2>3. i - k \in Nat /\ (i + 1) - k = (i - k) + 1
    OBVIOUS
  <2>4. (i - k) % 2 = 0 <=> ((i + 1) - k) % 2 = 1
    BY <2>3, Parity
  <2> HIDE DEF M, quote
  <2> QED  BY <1>1, <2>1, <2>2, <2>4, Zenon
<1>4. OddRun(M, b + 1, i + 1)
        <=> \E k \in b + 1 .. i : /\ \A j \in k .. i : quote(j)
                                  /\ k = b + 1 \/ ~quote(k - 1)
                                  /\ (i - k) % 2 = 0
  <2> HIDE DEF M, quote
  <2> QED  BY <1>2, <1>3, Zenon DEF OddRun
<1>5. ClosesAt(text, b, i, "default")
        <=> /\ CharAt(text, i + 1) # text[b]
            /\ \E k \in b + 1 .. i : /\ \A j \in k .. i : quote(j)
                                     /\ k = b + 1 \/ ~quote(k - 1)
                                     /\ (i - k) % 2 = 0
  BY Zenon DEF ClosesAt
<1>6. ClosesAt(text, b, i, "default") <=> CharAt(text, i + 1) # text[b] /\ Second(text, b, i + 1)
  <2> HIDE DEF quote
  <2> QED  BY <1>4, <1>5, Zenon DEF Second, M
<1> QED  BY <1>6, SecondNext

----------------------------------------------------------------------------
(* The scanner in code, by what begins there.                               *)
LEMMA KindLine ==
  ASSUME NEW text, NEW i, KindAt(text, i) = "line"
  PROVE  LineCommentAt(text, i) /\ text[i] \in {"#", "-"} /\ (text[i] = "-" => CharAt(text, i + 1) = "-")
<1>1. LineCommentAt(text, i)
  <2> SUFFICES ASSUME ~LineCommentAt(text, i) PROVE FALSE
    OBVIOUS
  <2>1. text[i] # "#" /\ ~(text[i] = "-" /\ CharAt(text, i + 1) = "-" /\ CharAt(text, i + 2) \in Space \cup {"eof"})
    BY DEF LineCommentAt
  <2>2. KindAt(text, i) \in {"block", "opens", "quoted", "space", "char"}
    BY <2>1, Zenon DEF KindAt
  <2> QED  BY <2>2
<1>2. text[i] \in {"#", "-"} /\ (text[i] = "-" => CharAt(text, i + 1) = "-")
  BY <1>1 DEF LineCommentAt
<1> QED  BY <1>1, <1>2

LEMMA KindBlock ==
  ASSUME NEW text, NEW i, KindAt(text, i) = "block" \/ KindAt(text, i) = "opens"
  PROVE  text[i] = "/" /\ CharAt(text, i + 1) = "*"
<1> SUFFICES ASSUME ~(text[i] = "/" /\ CharAt(text, i + 1) = "*") PROVE FALSE
  OBVIOUS
<1>1. KindAt(text, i) \in {"line", "quoted", "space", "char"}
  BY Zenon DEF KindAt
<1> QED  BY <1>1

LEMMA KindQuoted ==
  ASSUME NEW text, NEW i, KindAt(text, i) = "quoted"
  PROVE  text[i] \in Quotes
<1> SUFFICES ASSUME text[i] \notin Quotes PROVE FALSE
  OBVIOUS
<1>1. KindAt(text, i) \in {"line", "block", "opens", "space", "char"}
  BY Zenon DEF KindAt
<1> QED  BY <1>1

LEMMA KindOther ==
  ASSUME NEW text, NEW i, KindAt(text, i) \in {"space", "char"}
  PROVE  ~LineCommentAt(text, i) /\ ~(text[i] = "/" /\ CharAt(text, i + 1) = "*") /\ text[i] \notin Quotes
<1>1. CASE LineCommentAt(text, i)
  <2>1. text[i] = "#" \/ (text[i] = "-" /\ CharAt(text, i + 1) = "-" /\ CharAt(text, i + 2) \in Space \cup {"eof"})
    BY <1>1 DEF LineCommentAt
  <2>2. text[i] # "/" /\ text[i] \notin Quotes /\ text[i] \notin Space
    BY <2>1 DEF Space, Quotes
  <2>3. KindAt(text, i) = "line"
    BY <2>1, <2>2 DEF KindAt
  <2> QED  BY <2>3
<1>2. CASE text[i] = "/" /\ CharAt(text, i + 1) = "*"
  <2>1. text[i] \notin Quotes /\ text[i] \notin Space
    BY <1>2 DEF Space, Quotes
  <2>2. KindAt(text, i) \in {"block", "opens"}
    BY <1>2, <2>1 DEF KindAt
  <2> QED  BY <2>2
<1>3. CASE text[i] \in Quotes
  <2>1. text[i] \notin {"#", "-", "/"} /\ text[i] \notin Space
    BY <1>3 DEF Space, Quotes
  <2>2. KindAt(text, i) = "quoted"
    BY <1>3, <2>1 DEF KindAt
  <2> QED  BY <2>2
<1> QED  BY <1>1, <1>2, <1>3

LEMMA CodeLine ==
  ASSUME NEW text, NEW i, NEW s, KindAt(text, i) = "line"
  PROVE  ScanCode(s, text, i) = To(s, "line", text[i] = "-")
<1>1. LineCommentAt(text, i) /\ text[i] # "/" /\ text[i] \notin Quotes /\ text[i] # "semicolon"
  BY KindLine DEF Quotes
<1> QED  BY <1>1 DEF ScanCode

LEMMA CodeBlock ==
  ASSUME NEW text, NEW i, NEW s, KindAt(text, i) = "block" \/ KindAt(text, i) = "opens"
  PROVE  ScanCode(s, text, i) = To(s, "block", TRUE)
<1>1. text[i] = "/" /\ CharAt(text, i + 1) = "*" /\ ~LineCommentAt(text, i) /\ text[i] \notin Quotes /\ text[i] # "semicolon"
  BY KindBlock DEF Quotes, LineCommentAt
<1> QED  BY <1>1 DEF ScanCode

LEMMA CodeQuoted ==
  ASSUME NEW text, NEW i, NEW s, KindAt(text, i) = "quoted"
  PROVE  ScanCode(s, text, i) = To(s, text[i], FALSE)
<1>1. text[i] # "/" /\ ~LineCommentAt(text, i) /\ text[i] \in Quotes /\ text[i] # "semicolon"
  BY KindQuoted DEF Quotes, LineCommentAt
<1> QED  BY <1>1 DEF ScanCode

Cut(s, text, i) == [s EXCEPT !.parts = AppendPart(s, text, i - 1), !.start = i + 1]

LEMMA CodeOther ==
  ASSUME NEW text, NEW i, NEW s, KindAt(text, i) \in {"space", "char"}
  PROVE  /\ text[i] = "semicolon" => ScanCode(s, text, i) = Cut(s, text, i)
         /\ text[i] # "semicolon" => ScanCode(s, text, i) = s
<1>1. ~LineCommentAt(text, i) /\ ~(text[i] = "/" /\ CharAt(text, i + 1) = "*") /\ text[i] \notin Quotes
  BY KindOther
<1> QED  BY <1>1, Zenon DEF ScanCode, Cut

(* The scanner elsewhere.                                                   *)
Unskip(s) == [s EXCEPT !.skip = FALSE]

LEMMA ScanSkips ==
  ASSUME NEW text, NEW i, NEW s, s.skip
  PROVE  ScanChar(s, text, i) = Unskip(s)
BY DEF ScanChar, Unskip

LEMMA ScanInCode ==
  ASSUME NEW text, NEW i, NEW s, ~s.skip, s.mode = "code"
  PROVE  ScanChar(s, text, i) = ScanCode(s, text, i)
BY DEF ScanChar, Quotes

LEMMA ScanInLine ==
  ASSUME NEW text, NEW i, NEW s, ~s.skip, s.mode = "line", text[i] # "nl"
  PROVE  ScanChar(s, text, i) = s
BY DEF ScanChar, Quotes

LEMMA ScanLineEnds ==
  ASSUME NEW text, NEW i, NEW s, ~s.skip, s.mode = "line", text[i] = "nl"
  PROVE  ScanChar(s, text, i) = To(s, "code", FALSE)
BY DEF ScanChar, Quotes

LEMMA ScanInBlock ==
  ASSUME NEW text, NEW i, NEW s, ~s.skip, s.mode = "block", ~(text[i] = "*" /\ CharAt(text, i + 1) = "/")
  PROVE  ScanChar(s, text, i) = s
BY DEF ScanChar, Quotes

LEMMA ScanBlockEnds ==
  ASSUME NEW text, NEW i, NEW s, ~s.skip, s.mode = "block", text[i] = "*", CharAt(text, i + 1) = "/"
  PROVE  ScanChar(s, text, i) = To(s, "code", TRUE)
BY DEF ScanChar, Quotes

LEMMA ScanInQuote ==
  ASSUME NEW text, NEW i, NEW s, ~s.skip, s.mode \in Quotes
  PROVE  ScanChar(s, text, i) = ScanQuote(s, text, i)
BY DEF ScanChar, Quotes

EscapedSet(s, e) == [s EXCEPT !.escaped = e]
SkipSet(s) == [s EXCEPT !.skip = TRUE]

LEMMA QuoteEscaped ==
  ASSUME NEW text, NEW i, NEW s, s.escaped
  PROVE  ScanQuote(s, text, i) = EscapedSet(s, FALSE)
BY DEF ScanQuote, EscapedSet

LEMMA QuoteBackslash ==
  ASSUME NEW text, NEW i, NEW s, s.mode \in Quotes, ~s.escaped, text[i] = "backslash", s.mode # "backtick"
  PROVE  ScanQuote(s, text, i) = EscapedSet(s, TRUE)
<1>1. s.mode # "backslash"
  BY DEF Quotes
<1> QED  BY <1>1, Zenon DEF ScanQuote, EscapedSet

LEMMA QuoteBackslashPlain ==
  ASSUME NEW text, NEW i, NEW s, s.mode \in Quotes, ~s.escaped, text[i] = "backslash", s.mode = "backtick"
  PROVE  ScanQuote(s, text, i) = s
<1>1. s.mode # "backslash"
  BY DEF Quotes
<1> QED  BY <1>1, Zenon DEF ScanQuote, EscapedSet

LEMMA QuoteMark ==
  ASSUME NEW text, NEW i, NEW s, s.mode \in Quotes, ~s.escaped, text[i] = s.mode
  PROVE  CharAt(text, i + 1) = s.mode => ScanQuote(s, text, i) = SkipSet(s)
<1>1. text[i] # "backslash"
  BY DEF Quotes
<1> QED  BY <1>1 DEF ScanQuote, SkipSet

LEMMA QuoteCloses ==
  ASSUME NEW text, NEW i, NEW s, s.mode \in Quotes, ~s.escaped, text[i] = s.mode, CharAt(text, i + 1) # s.mode
  PROVE  ScanQuote(s, text, i) = To(s, "code", FALSE)
<1>1. text[i] # "backslash"
  BY DEF Quotes
<1> QED  BY <1>1 DEF ScanQuote

LEMMA QuoteOther ==
  ASSUME NEW text, NEW i, NEW s, ~s.escaped, text[i] # "backslash", text[i] # s.mode
  PROVE  ScanQuote(s, text, i) = s
BY Zenon DEF ScanQuote

----------------------------------------------------------------------------
(* Where the scanner stands after position i, and what the lexical rules    *)
(* say of the position: between two things, in the last character of a      *)
(* comment, or in what position b began; in an executable comment, between  *)
(* two of the characters it holds.                                          *)
Between(s, l, i) == s.mode = "code" /\ ~s.skip /\ ~s.escaped /\ ~l.open /\ l.end = i
AtSlash(text, s, l, i) == s.mode = "code" /\ s.skip /\ ~s.escaped /\ ~l.open /\ l.end = i + 1 /\ i < Len(text)
Within(text, l, i, b) == b \in l.begins /\ ~l.open /\ l.end = EndAt(text, b, "default") /\ l.end > i
InLine(text, s, l, i, b) ==
  /\ s.mode = "line" /\ ~s.escaped /\ KindAt(text, b) = "line" /\ Within(text, l, i, b)
  /\ s.skip => CharAt(text, i + 1) = "-"
InBlock(text, s, l, i, b) ==
  /\ s.mode = "block" /\ ~s.escaped /\ KindAt(text, b) = "block" /\ Within(text, l, i, b)
  /\ l.end >= i + 2 \/ l.end = Len(text) + 1
  /\ s.skip <=> i = b
InExec(text, s, l, i, b) ==
  /\ s.mode = "block" /\ ~s.escaped /\ KindAt(text, b) = "opens" /\ b \in l.begins /\ l.open
  /\ \A j \in BlockEnds(text, b) : j >= i + 2
  /\ l.end = (IF i <= b + 1 THEN b + 2 ELSE i)
  /\ s.skip <=> i = b
InQuote(text, s, l, i, b) ==
  /\ s.mode = text[b] /\ text[b] \in Quotes /\ KindAt(text, b) = "quoted" /\ Within(text, l, i, b)
  /\ s.skip <=> Second(text, b, i + 1)
  /\ s.skip => ~s.escaped /\ CharAt(text, i + 1) = text[b]
  /\ ~s.skip => (s.escaped <=> Escaped(text, b, i + 1, "default"))
Agrees(text, s, l, i) ==
  \/ Between(s, l, i)
  \/ AtSlash(text, s, l, i)
  \/ \E b : \/ InLine(text, s, l, i, b) \/ InBlock(text, s, l, i, b)
            \/ InExec(text, s, l, i, b) \/ InQuote(text, s, l, i, b)

(* From code.                                                               *)
LEMMA BetweenNext ==
  ASSUME NEW text \in Seq(STRING), NEW f, Lexing(text, "default", f), NEW i \in 0 .. Len(text) - 1,
         NEW s \in ScanStates(text), Between(s, f[i], i)
  PROVE  Agrees(text, ScanChar(s, text, i + 1), f[i + 1], i + 1)
<1> DEFINE b == i + 1
           t == ScanChar(s, text, b)
           l == f[b]
           e == EndAt(text, b, "default")
<1>1. b \in 1 .. Len(text) /\ b \in Nat /\ Len(text) \in Nat
  OBVIOUS
<1>2. l.end = e /\ l.begins = f[i].begins \cup {b} /\ (l.open <=> KindAt(text, b) = "opens")
  BY LexNext DEF Between, ClosesExec
<1>3. t = ScanCode(s, text, b)
  BY ScanInCode DEF Between
<1>4. s.mode = "code" /\ ~s.skip /\ ~s.escaped
  BY DEF Between
<1>5. e \in Nat /\ e >= b /\ e <= Len(text) + 1
  BY <1>1, EndAtType
<1> HIDE DEF b, t, l, e
<1>6. CASE KindAt(text, b) = "line"
  <2>1. text[b] # "nl" /\ (text[b] = "-" => CharAt(text, b + 1) = "-")
    BY <1>6, KindLine
  <2>2. e = Len(text) + 1 \/ e \in LineEnds(text, b)
    <3>1. LineEnds(text, b) \subseteq Nat /\ \A x \in LineEnds(text, b) : x <= Len(text)
      BY <1>1 DEF LineEnds
    <3>2. e = FirstOf(LineEnds(text, b), text)
      BY <1>6, EndAtKinds DEF e
    <3> QED  BY <3>1, <3>2, FirstOfFacts
  <2>3. e > b
    BY <1>1, <1>5, <2>1, <2>2 DEF LineEnds
  <2>4. t = To(s, "line", text[b] = "-")
    BY <1>3, <1>6, CodeLine
  <2>5. t.mode = "line" /\ ~t.escaped /\ (t.skip <=> text[b] = "-")
    BY <1>4, <2>4 DEF To, ScanStates
  <2>6. InLine(text, t, l, b, b)
    BY <1>2, <1>6, <2>1, <2>3, <2>5 DEF InLine, Within, e
  <2> QED  BY <2>6 DEF Agrees, t, l, b
<1>7. CASE KindAt(text, b) = "block"
  <2>1. CharAt(text, b + 1) = "*"
    BY <1>7, KindBlock
  <2>2. b + 1 <= Len(text)
    BY <1>1, <2>1 DEF CharAt
  <2>3. e = Len(text) + 1 \/ e \in BlockEnds(text, b)
    <3>1. BlockEnds(text, b) \subseteq Nat /\ \A x \in BlockEnds(text, b) : x <= Len(text)
      BY <1>1 DEF BlockEnds
    <3>2. e = FirstOf(BlockEnds(text, b), text)
      BY <1>7, EndAtKinds DEF e
    <3> QED  BY <3>1, <3>2, FirstOfFacts
  <2>4. e > b /\ (e >= b + 2 \/ e = Len(text) + 1)
    BY <1>1, <1>5, <2>2, <2>3 DEF BlockEnds
  <2>5. t = To(s, "block", TRUE)
    <3>1. KindAt(text, b) = "block" \/ KindAt(text, b) = "opens"
      BY <1>7
    <3>2. ScanCode(s, text, b) = To(s, "block", TRUE)
      BY <3>1, CodeBlock
    <3> QED  BY <1>3, <3>2
  <2>6. t.mode = "block" /\ ~t.escaped /\ t.skip
    BY <1>4, <2>5 DEF To, ScanStates
  <2>7. InBlock(text, t, l, b, b)
    BY <1>2, <1>7, <2>4, <2>6 DEF InBlock, Within, e
  <2> QED  BY <2>7 DEF Agrees, t, l, b
<1>8. CASE KindAt(text, b) = "quoted"
  <2>1. text[b] \in Quotes
    BY <1>8, KindQuoted
  <2>2. e = Len(text) + 1 \/ e \in QuoteEnds(text, b, "default")
    <3>1. QuoteEnds(text, b, "default") \subseteq Nat /\ \A x \in QuoteEnds(text, b, "default") : x <= Len(text)
      BY <1>1 DEF QuoteEnds
    <3>2. e = FirstOf(QuoteEnds(text, b, "default"), text)
      BY <1>8, EndAtKinds DEF e
    <3> QED  BY <3>1, <3>2, FirstOfFacts
  <2>3. e > b
    BY <1>1, <1>5, <2>2 DEF QuoteEnds
  <2>4. t = To(s, text[b], FALSE)
    BY <1>3, <1>8, CodeQuoted
  <2>5. t.mode = text[b] /\ ~t.escaped /\ ~t.skip
    BY <1>4, <2>4 DEF To, ScanStates
  <2>6. ~Second(text, b, b + 1) /\ ~Escaped(text, b, b + 1, "default")
    BY <1>1, <2>1, SecondNext, EscapedNext
  <2>7. InQuote(text, t, l, b, b)
    BY <1>2, <1>8, <2>1, <2>3, <2>5, <2>6 DEF InQuote, Within, e
  <2> QED  BY <2>7 DEF Agrees, t, l, b
<1>9. CASE KindAt(text, b) \in {"space", "char"}
  <2>1. e = b
    BY <1>9, EndAtKinds DEF e
  <2>2. t = IF text[b] = "semicolon" THEN Cut(s, text, b) ELSE s
    BY <1>3, <1>9, CodeOther
  <2>3. t.mode = s.mode /\ t.skip = s.skip /\ t.escaped = s.escaped
    BY <2>2 DEF ScanStates, Cut
  <2>4. Between(t, l, b)
    BY <1>2, <1>4, <1>9, <2>1, <2>3 DEF Between
  <2> QED  BY <2>4 DEF Agrees, t, l, b
<1>10. CASE KindAt(text, b) = "opens"
  <2>1. t = To(s, "block", TRUE)
    <3>1. KindAt(text, b) = "block" \/ KindAt(text, b) = "opens"
      BY <1>10
    <3>2. ScanCode(s, text, b) = To(s, "block", TRUE)
      BY <3>1, CodeBlock
    <3> QED  BY <1>3, <3>2
  <2>2. t.mode = "block" /\ ~t.escaped /\ t.skip
    BY <1>4, <2>1 DEF To, ScanStates
  <2>3. e = b + 2
    BY <1>10, EndAtKinds DEF e
  <2>4. \A j \in BlockEnds(text, b) : j >= b + 2
    BY <1>1 DEF BlockEnds
  <2>5. InExec(text, t, l, b, b)
    BY <1>1, <1>2, <1>10, <2>2, <2>3, <2>4 DEF InExec
  <2> QED  BY <2>5 DEF Agrees, t, l, b
<1> QED  BY <1>6, <1>7, <1>8, <1>9, <1>10, EndAtKinds

(* Where something that began before goes on.                               *)
LEMMA WithinNext ==
  ASSUME NEW text \in Seq(STRING), NEW f, Lexing(text, "default", f), NEW i \in 0 .. Len(text) - 1,
         NEW b, Within(text, f[i], i, b)
  PROVE  /\ f[i + 1] = f[i] /\ b \in 1 .. i /\ b \in f[i].begins /\ i + 1 \in b + 1 .. Len(text)
         /\ ~f[i].open /\ f[i].end = EndAt(text, b, "default") /\ f[i].end \in Nat /\ f[i].end > i
         /\ f[i].end > i + 1 => Within(text, f[i + 1], i + 1, b)
<1>1. f[i].end \in Nat /\ b \in 1 .. i
  <2>1. i \in 0 .. Len(text)
    OBVIOUS
  <2> QED  BY <2>1, LexReaches DEF Within
<1>2. f[i].end >= i + 1
  BY <1>1 DEF Within
<1>3. f[i + 1] = f[i]
  BY <1>2, LexNext
<1> QED  BY <1>1, <1>3 DEF Within

(* After the star that ends a comment.                                      *)
LEMMA AtSlashNext ==
  ASSUME NEW text \in Seq(STRING), NEW f, Lexing(text, "default", f), NEW i \in 0 .. Len(text) - 1,
         NEW s \in ScanStates(text), AtSlash(text, s, f[i], i)
  PROVE  Agrees(text, ScanChar(s, text, i + 1), f[i + 1], i + 1)
<1> DEFINE t == ScanChar(s, text, i + 1)
<1>1. t = Unskip(s)
  BY ScanSkips DEF AtSlash
<1>2. f[i + 1] = f[i]
  BY LexNext DEF AtSlash
<1> HIDE DEF t
<1>3. Between(t, f[i + 1], i + 1)
  BY <1>1, <1>2 DEF Between, AtSlash, ScanStates, Unskip
<1> QED  BY <1>3 DEF Agrees, t

(* In a line comment.                                                       *)
LEMMA InLineNext ==
  ASSUME NEW text \in Seq(STRING), NEW f, Lexing(text, "default", f), NEW i \in 0 .. Len(text) - 1,
         NEW s \in ScanStates(text), NEW b, InLine(text, s, f[i], i, b)
  PROVE  Agrees(text, ScanChar(s, text, i + 1), f[i + 1], i + 1)
<1> DEFINE j == i + 1
           t == ScanChar(s, text, j)
           e == f[i].end
           E == LineEnds(text, b)
<1>1. /\ f[j] = f[i] /\ b \in 1 .. i /\ b \in f[i].begins /\ j \in b + 1 .. Len(text)
      /\ ~f[i].open /\ e = EndAt(text, b, "default") /\ e \in Nat /\ e > i
      /\ e > j => Within(text, f[j], j, b)
  <2>1. Within(text, f[i], i, b)
    BY DEF InLine
  <2> QED  BY <2>1, WithinNext, Zenon
<1>2. (e = Len(text) + 1 \/ e \in E) /\ \A y \in E : e <= y
  <2>1. E \subseteq Nat /\ \A x \in E : x <= Len(text)
    BY <1>1 DEF LineEnds
  <2>2. e = FirstOf(E, text)
    BY <1>1, EndAtKinds DEF InLine
  <2> HIDE DEF E, e
  <2> QED  BY <2>1, <2>2, FirstOfFacts
<1>3. j \in E <=> text[j] = "nl"
  BY <1>1 DEF LineEnds
<1>4. s.mode = "line" /\ ~s.escaped /\ KindAt(text, b) = "line"
  BY DEF InLine
<1>5. Len(text) \in Nat /\ j \in Nat /\ j <= Len(text) /\ j = i + 1
  OBVIOUS
<1>6. CASE text[j] = "nl" /\ ~s.skip
  <2>1. e = j
    <3> HIDE DEF e, E, j
    <3> QED  BY <1>1, <1>2, <1>3, <1>5, <1>6
  <2>2. t = To(s, "code", FALSE)
    BY <1>4, <1>6, ScanLineEnds
  <2> HIDE DEF t
  <2>3. Between(t, f[j], j)
    BY <1>1, <1>4, <2>1, <2>2 DEF Between, To, ScanStates
  <2> QED  BY <2>3 DEF Agrees, t
<1>7. CASE text[j] # "nl"
  <2>1. e > j
    <3> HIDE DEF e, E, j
    <3> QED  BY <1>1, <1>2, <1>3, <1>5, <1>7
  <2>2. t.mode = "line" /\ ~t.escaped /\ ~t.skip
    <3>1. CASE s.skip
      <4>1. t = Unskip(s)
        BY <3>1, ScanSkips
      <4> QED  BY <1>4, <4>1 DEF ScanStates, Unskip
    <3>2. CASE ~s.skip
      <4>1. t = s
        BY <1>4, <1>7, <3>2, ScanInLine
      <4> QED  BY <1>4, <3>2, <4>1
    <3> QED  BY <3>1, <3>2
  <2> HIDE DEF t
  <2>3. InLine(text, t, f[j], j, b)
    BY <1>1, <1>4, <2>1, <2>2 DEF InLine
  <2> QED  BY <2>3 DEF Agrees, t
<1>8. s.skip => text[j] # "nl"
  <2>1. s.skip => CharAt(text, j) = "-"
    BY DEF InLine
  <2>2. CharAt(text, j) = text[j]
    BY <1>5 DEF CharAt
  <2> QED  BY <2>1, <2>2
<1> QED  BY <1>6, <1>7, <1>8

(* In a block comment.                                                      *)
LEMMA InBlockNext ==
  ASSUME NEW text \in Seq(STRING), NEW f, Lexing(text, "default", f), NEW i \in 0 .. Len(text) - 1,
         NEW s \in ScanStates(text), NEW b, InBlock(text, s, f[i], i, b)
  PROVE  Agrees(text, ScanChar(s, text, i + 1), f[i + 1], i + 1)
<1> DEFINE j == i + 1
           t == ScanChar(s, text, j)
           e == f[i].end
           E == BlockEnds(text, b)
<1>1. /\ f[j] = f[i] /\ b \in 1 .. i /\ b \in f[i].begins /\ j \in b + 1 .. Len(text)
      /\ ~f[i].open /\ e = EndAt(text, b, "default") /\ e \in Nat /\ e > i
      /\ e > j => Within(text, f[j], j, b)
  <2>1. Within(text, f[i], i, b)
    BY DEF InBlock
  <2> QED  BY <2>1, WithinNext, Zenon
<1>2. (e = Len(text) + 1 \/ e \in E) /\ \A y \in E : e <= y
  <2>1. E \subseteq Nat /\ \A x \in E : x <= Len(text)
    BY <1>1 DEF BlockEnds
  <2>2. e = FirstOf(E, text)
    BY <1>1, EndAtKinds DEF InBlock
  <2> HIDE DEF E
  <2> QED  BY <2>1, <2>2, FirstOfFacts
<1>3. /\ s.mode = "block" /\ ~s.escaped /\ KindAt(text, b) = "block" /\ (s.skip <=> i = b)
      /\ e >= i + 2 \/ e = Len(text) + 1
  BY DEF InBlock
<1>4. Len(text) \in Nat /\ j \in Nat /\ j <= Len(text) /\ j = i + 1 /\ i \in Nat
  OBVIOUS
<1>5. e > j
  <2> HIDE DEF e
  <2> QED  BY <1>1, <1>3, <1>4
<1>6. CASE s.skip
  <2>1. t = Unskip(s)
    BY <1>6, ScanSkips
  <2>2. t.mode = "block" /\ ~t.escaped /\ ~t.skip
    BY <1>3, <2>1 DEF ScanStates, Unskip
  <2>3. e >= j + 2 \/ e = Len(text) + 1
    <3>1. e \in E => e >= b + 3
      BY <1>1 DEF BlockEnds
    <3> HIDE DEF e, E
    <3> QED  BY <1>1, <1>2, <1>3, <1>4, <1>6, <3>1
  <2>4. j # b
    BY <1>1
  <2> HIDE DEF t
  <2>5. InBlock(text, t, f[j], j, b)
    BY <1>1, <1>3, <1>5, <2>2, <2>3, <2>4 DEF InBlock
  <2> QED  BY <2>5 DEF Agrees, t
<1>7. CASE ~s.skip /\ text[j] = "*" /\ CharAt(text, j + 1) = "/"
  <2>1. j + 1 \in 1 .. Len(text) /\ text[j + 1] = "/"
    BY <1>4, <1>7 DEF CharAt
  <2>2. j + 1 \in E
    <3>1. j + 1 \in b + 3 .. Len(text) /\ (j + 1) - 1 = j
      BY <1>1, <1>3, <1>4, <1>7, <2>1
    <3> QED  BY <1>7, <2>1, <3>1 DEF BlockEnds
  <2>3. e = j + 1
    <3> HIDE DEF e, E
    <3> QED  BY <1>1, <1>2, <1>3, <1>4, <2>1, <2>2
  <2>4. t = To(s, "code", TRUE)
    BY <1>3, <1>7, ScanBlockEnds
  <2> HIDE DEF t
  <2>5. AtSlash(text, t, f[j], j)
    BY <1>1, <1>3, <1>4, <2>1, <2>3, <2>4 DEF AtSlash, To, ScanStates
  <2> QED  BY <2>5 DEF Agrees, t
<1>8. CASE ~s.skip /\ ~(text[j] = "*" /\ CharAt(text, j + 1) = "/")
  <2>1. t = s
    BY <1>3, <1>8, ScanInBlock
  <2>2. e # j + 1 \/ e = Len(text) + 1
    <3>1. ASSUME j + 1 \in E PROVE FALSE
      <4>1. j + 1 \in b + 3 .. Len(text) /\ (j + 1) - 1 = j /\ text[j] = "*" /\ text[j + 1] = "/"
        BY <3>1, <1>4 DEF BlockEnds
      <4>2. CharAt(text, j + 1) = "/"
        BY <1>1, <4>1 DEF CharAt
      <4> QED  BY <1>8, <4>1, <4>2
    <3> HIDE DEF E
    <3> QED  BY <1>2, <3>1
  <2>3. e >= j + 2 \/ e = Len(text) + 1
    <3> HIDE DEF e
    <3> QED  BY <1>1, <1>4, <1>5, <2>2
  <2>4. j # b
    BY <1>1
  <2> HIDE DEF t
  <2>5. InBlock(text, t, f[j], j, b)
    BY <1>1, <1>3, <1>5, <1>8, <2>1, <2>3, <2>4 DEF InBlock
  <2> QED  BY <2>5 DEF Agrees, t
<1> QED  BY <1>6, <1>7, <1>8

(* In an executable comment that holds nothing the scanner should see.      *)
LEMMA ExecHolds ==
  ASSUME NEW text \in Seq(STRING), ~HoldsCode(text, "default"), NEW f, Lexing(text, "default", f),
         NEW i \in 0 .. Len(text) - 1, NEW s, NEW b, InExec(text, s, f[i], i, b)
  PROVE  /\ b \in 1 .. i /\ f[i].end \in Nat
         /\ i >= b + 2 => /\ f[i].end = i
                          /\ text[i + 1] # "semicolon" /\ KindAt(text, i + 1) \in {"space", "char"}
<1>1. i \in 0 .. Len(text) /\ Len(text) \in Nat /\ i \in Nat
  OBVIOUS
<1>2. b \in 1 .. i /\ b \in Begins(text, "default") /\ f[i].end \in Nat
  BY <1>1, LexReaches, LexPrefix DEF InExec
<1>3. ASSUME i >= b + 2
      PROVE  /\ f[i].end = i
             /\ text[i + 1] # "semicolon" /\ KindAt(text, i + 1) \in {"space", "char"}
  <2> DEFINE E == BlockEnds(text, b)
             e == FirstOf(E, text)
  <2>1. E \subseteq Nat /\ \A x \in E : x <= Len(text)
    BY <1>2 DEF BlockEnds
  <2>2. e \in Nat /\ (e = Len(text) + 1 \/ e \in E)
    BY <2>1, FirstOfFacts
  <2>3. \A j \in E : j >= i + 2
    BY DEF InExec
  <2>4. e = BlockEnd(text, b)
    BY DEF BlockEnd, BlockEnds
  <2> HIDE DEF e, E
  <2>5. i + 1 \in b + 3 .. e - 1
    BY <1>1, <1>2, <1>3, <2>2, <2>3
  <2>6. ~HoldsAt(text, i + 1)
    BY <1>2, <2>4, <2>5 DEF HoldsCode, InExec
  <2>7. f[i].end = i
    BY <1>1, <1>2, <1>3 DEF InExec
  <2> QED  BY <2>6, <2>7, EndAtKinds DEF HoldsAt
<1> QED  BY <1>2, <1>3

LEMMA InExecNext ==
  ASSUME NEW text \in Seq(STRING), ~HoldsCode(text, "default"), NEW f, Lexing(text, "default", f),
         NEW i \in 0 .. Len(text) - 1, NEW s \in ScanStates(text), NEW b, InExec(text, s, f[i], i, b)
  PROVE  Agrees(text, ScanChar(s, text, i + 1), f[i + 1], i + 1)
<1> DEFINE j == i + 1
           t == ScanChar(s, text, j)
<1>1. /\ b \in 1 .. i /\ f[i].end \in Nat
      /\ i >= b + 2 => f[i].end = i /\ KindAt(text, j) \in {"space", "char"}
  <2>1. b \in 1 .. i /\ f[i].end \in Nat
    BY ExecHolds
  <2>2. ASSUME i >= b + 2 PROVE f[i].end = i /\ KindAt(text, i + 1) \in {"space", "char"}
    BY <2>2, ExecHolds
  <2> QED  BY <2>1, <2>2
<1>2. /\ s.mode = "block" /\ ~s.escaped /\ KindAt(text, b) = "opens" /\ b \in f[i].begins /\ f[i].open
      /\ \A x \in BlockEnds(text, b) : x >= i + 2
      /\ f[i].end = (IF i <= b + 1 THEN b + 2 ELSE i)
      /\ s.skip <=> i = b
  BY DEF InExec
<1>3. Len(text) \in Nat /\ j \in Nat /\ j \in 1 .. Len(text) /\ j = i + 1 /\ i \in Nat
  OBVIOUS
<1>4. \A x \in BlockEnds(text, b) : x \in b + 3 .. Len(text) /\ text[x - 1] = "*" /\ text[x] = "/"
  BY DEF BlockEnds
<1> HIDE DEF j, t
<1>5. text[b + 1] = "*" /\ text[b + 2] = "bang"
  <2>1. CharAt(text, b + 1) = "*" /\ CharAt(text, b + 2) = "bang"
    BY <1>2, KindOpens
  <2> QED  BY <2>1 DEF CharAt
<1>6. CASE i >= b + 2 /\ text[j] = "*" /\ CharAt(text, j + 1) = "/"
  <2>1. j + 1 \in 1 .. Len(text)
    BY <1>3, <1>6 DEF CharAt
  <2>2. t = To(s, "code", TRUE)
    <3>1. ~s.skip
      BY <1>1, <1>2, <1>6
    <3> QED  BY <1>2, <1>6, <3>1, ScanBlockEnds DEF t
  <2>3. t.mode = "code" /\ t.skip /\ ~t.escaped
    BY <1>2, <2>2 DEF To, ScanStates
  <2>4. f[j].end = j + 1 /\ ~f[j].open
    <3>1. f[i].end < i + 1 /\ ClosesExec(text, f[i], i + 1) /\ i + 2 = j + 1
      BY <1>1, <1>2, <1>3, <1>6 DEF ClosesExec
    <3> QED  BY <3>1, LexNext DEF j
  <2>5. AtSlash(text, t, f[j], j)
    BY <1>3, <2>1, <2>3, <2>4 DEF AtSlash
  <2> QED  BY <2>5 DEF Agrees, t, j
<1>7. CASE ~(i >= b + 2 /\ text[j] = "*" /\ CharAt(text, j + 1) = "/")
  <2>1. t.mode = "block" /\ ~t.escaped /\ ~t.skip
    <3>1. CASE s.skip
      <4>1. t = Unskip(s)
        BY <3>1, ScanSkips DEF t
      <4> QED  BY <1>2, <4>1 DEF ScanStates, Unskip
    <3>2. CASE ~s.skip
      <4>1. i = b + 1 \/ i >= b + 2
        BY <1>1, <1>2, <1>3, <3>2
      <4>2. i = b + 1 => text[j] = "bang"
        BY <1>1, <1>3, <1>5
      <4>3. ~(text[j] = "*" /\ CharAt(text, j + 1) = "/")
        BY <1>7, <4>1, <4>2
      <4>4. t = s
        BY <1>2, <3>2, <4>3, ScanInBlock DEF t
      <4> QED  BY <1>2, <3>2, <4>4
    <3> QED  BY <3>1, <3>2
  <2>2. \A x \in BlockEnds(text, b) : x >= j + 2
    <3> SUFFICES ASSUME NEW x \in BlockEnds(text, b), ~(x >= j + 2) PROVE FALSE
      OBVIOUS
    <3>1. x = j + 1 /\ x \in b + 3 .. Len(text) /\ text[x - 1] = "*" /\ text[x] = "/"
      BY <1>2, <1>3, <1>4
    <3>2. i >= b + 2 \/ i = b + 1
      BY <1>1, <1>3, <3>1
    <3>3. text[j] = "*" /\ CharAt(text, j + 1) = "/"
      BY <1>1, <1>3, <3>1 DEF CharAt
    <3>4. i # b + 1
      BY <1>1, <1>3, <1>5, <3>3
    <3> QED  BY <1>7, <3>2, <3>3, <3>4
  <2>3. f[j].end = (IF j <= b + 1 THEN b + 2 ELSE j) /\ f[j].open /\ b \in f[j].begins
    <3>1. CASE i <= b + 1
      <4>1. f[i].end >= i + 1
        BY <1>1, <1>2, <1>3, <3>1
      <4>2. f[j] = f[i]
        BY <4>1, LexNext DEF j
      <4>3. (IF j <= b + 1 THEN b + 2 ELSE j) = b + 2
        BY <1>1, <1>3, <3>1
      <4> QED  BY <1>2, <3>1, <4>2, <4>3
    <3>2. CASE i >= b + 2
      <4>1. f[i].end < i + 1 /\ ~ClosesExec(text, f[i], i + 1)
        BY <1>1, <1>3, <1>7, <3>2 DEF ClosesExec
      <4>2. f[j].end = EndAt(text, j, "default") /\ f[j].begins = f[i].begins \cup {j} /\ f[j].open
        BY <1>2, <4>1, LexNext DEF j
      <4>3. EndAt(text, j, "default") = j
        BY <1>1, <3>2, EndAtKinds
      <4> QED  BY <1>1, <1>2, <1>3, <3>2, <4>2, <4>3
    <3> QED  BY <1>1, <1>3, <3>1, <3>2
  <2>4. j # b
    BY <1>1, <1>3
  <2>5. InExec(text, t, f[j], j, b)
    BY <1>2, <2>1, <2>2, <2>3, <2>4 DEF InExec
  <2> QED  BY <2>5 DEF Agrees, t, j
<1> QED  BY <1>6, <1>7

(* In a quoted text.                                                        *)
LEMMA InQuoteNext ==
  ASSUME NEW text \in Seq(STRING), NEW f, Lexing(text, "default", f), NEW i \in 0 .. Len(text) - 1,
         NEW s \in ScanStates(text), NEW b, InQuote(text, s, f[i], i, b)
  PROVE  Agrees(text, ScanChar(s, text, i + 1), f[i + 1], i + 1)
<1> DEFINE j == i + 1
           t == ScanChar(s, text, j)
           e == f[i].end
           E == QuoteEnds(text, b, "default")
           q == text[b]
           second == Second(text, b, j)
           escaped == Escaped(text, b, j, "default")
<1>1. /\ f[j] = f[i] /\ b \in 1 .. i /\ b \in f[i].begins /\ j \in b + 1 .. Len(text)
      /\ ~f[i].open /\ e = EndAt(text, b, "default") /\ e \in Nat /\ e > i
      /\ e > j => Within(text, f[j], j, b)
  <2>1. Within(text, f[i], i, b)
    BY DEF InQuote
  <2> QED  BY <2>1, WithinNext, Zenon
<1>2. Len(text) \in Nat /\ j \in Nat /\ j <= Len(text) /\ j = i + 1 /\ b \in 1 .. Len(text)
  BY <1>1
<1>3. (e = Len(text) + 1 \/ e \in E) /\ \A y \in E : e <= y
  <2>1. E \subseteq Nat /\ \A x \in E : x <= Len(text)
    BY <1>1 DEF QuoteEnds
  <2>2. e = FirstOf(E, text)
    BY <1>1, EndAtKinds DEF InQuote
  <2> HIDE DEF E
  <2> QED  BY <2>1, <2>2, FirstOfFacts
<1>4. /\ s.mode = q /\ q \in Quotes /\ KindAt(text, b) = "quoted"
      /\ s.skip <=> second
      /\ s.skip => ~s.escaped /\ CharAt(text, j) = q
      /\ ~s.skip => (s.escaped <=> escaped)
  BY DEF InQuote
<1>5. j \in E <=> CharAt(text, j + 1) # q /\ text[j] = q /\ ~escaped /\ ~second
  <2>1. j \in E <=> ClosesAt(text, b, j, "default")
    BY <1>1 DEF QuoteEnds
  <2> QED  BY <1>1, <1>2, <2>1, ClosesIs
<1>6. Second(text, b, j + 1) <=> text[j] = q /\ ~escaped /\ ~second
  BY <1>1, <1>2, SecondNext
<1>7. Escaped(text, b, j + 1, "default") <=> q # "backtick" /\ text[j] = "backslash" /\ ~escaped
  BY <1>1, <1>2, <1>4, EscapedNext
<1>8. CharAt(text, j) = text[j]
  BY <1>2 DEF CharAt
<1>9. q # "backslash"
  BY <1>4 DEF Quotes
<1>10. j \notin E => e > j
  <2> HIDE DEF e, E, j
  <2> QED  BY <1>1, <1>2, <1>3
<1>11. j \in E => e = j
  <2> HIDE DEF e, E, j
  <2> QED  BY <1>1, <1>2, <1>3
<1>12. ASSUME j \notin E, t.mode = q, t.skip <=> Second(text, b, j + 1),
              t.skip => ~t.escaped /\ CharAt(text, j + 1) = q,
              ~t.skip => (t.escaped <=> Escaped(text, b, j + 1, "default"))
       PROVE  Agrees(text, t, f[j], j)
  <2> HIDE DEF t
  <2>1. InQuote(text, t, f[j], j, b)
    BY <1>1, <1>4, <1>10, <1>12 DEF InQuote
  <2> QED  BY <2>1 DEF Agrees
<1> HIDE DEF second, escaped, E, e, q
<1>13. CASE s.skip
  <2>1. t = Unskip(s)
    BY <1>13, ScanSkips
  <2> HIDE DEF t, j
  <2>2. t.mode = q /\ ~t.skip /\ ~t.escaped
    BY <1>4, <1>13, <2>1 DEF Unskip, ScanStates
  <2>3. text[j] = q
    BY <1>4, <1>8, <1>13
  <2> QED  BY <1>4, <1>5, <1>6, <1>7, <1>9, <1>12, <1>13, <2>2, <2>3 DEF t, j
<1>14. CASE ~s.skip
  <2>1. t = ScanQuote(s, text, j)
    BY <1>4, <1>14, ScanInQuote
  <2>2. s.mode \in Quotes
    BY <1>4
  <2>3. CASE s.escaped
    <3>1. t = EscapedSet(s, FALSE)
      BY <2>1, <2>3, QuoteEscaped
    <3> HIDE DEF t, j
    <3>2. t.mode = q /\ ~t.skip /\ ~t.escaped
      BY <1>4, <1>14, <3>1 DEF EscapedSet, ScanStates
    <3> QED  BY <1>4, <1>5, <1>6, <1>7, <1>12, <1>14, <2>3, <3>2 DEF t, j
  <2>4. CASE ~s.escaped /\ text[j] = "backslash"
    <3>1. t.mode = q /\ ~t.skip /\ (t.escaped <=> q # "backtick")
      <4>1. CASE q = "backtick"
        <5>1. t = s
          BY <1>4, <2>1, <2>2, <2>4, <4>1, QuoteBackslashPlain
        <5> QED  BY <1>4, <1>14, <2>4, <4>1, <5>1
      <4>2. CASE q # "backtick"
        <5>1. t = EscapedSet(s, TRUE)
          BY <1>4, <2>1, <2>2, <2>4, <4>2, QuoteBackslash
        <5> HIDE DEF t
        <5> QED  BY <1>4, <1>14, <4>2, <5>1 DEF EscapedSet, ScanStates
      <4> QED  BY <4>1, <4>2
    <3> HIDE DEF t, j
    <3> QED  BY <1>4, <1>5, <1>6, <1>7, <1>9, <1>12, <1>14, <2>4, <3>1 DEF t, j
  <2>5. CASE ~s.escaped /\ text[j] = q /\ CharAt(text, j + 1) = q
    <3>1. t = SkipSet(s)
      BY <1>4, <2>1, <2>2, <2>5, QuoteMark
    <3> HIDE DEF t, j
    <3>2. t.mode = q /\ t.skip /\ ~t.escaped
      BY <1>4, <2>5, <3>1 DEF SkipSet, ScanStates
    <3> QED  BY <1>4, <1>5, <1>6, <1>12, <1>14, <2>5, <3>2 DEF t, j
  <2>6. CASE ~s.escaped /\ text[j] = q /\ CharAt(text, j + 1) # q
    <3>1. t = To(s, "code", FALSE)
      BY <1>4, <2>1, <2>2, <2>6, QuoteCloses
    <3>2. e = j
      BY <1>4, <1>5, <1>11, <1>14, <2>6
    <3> HIDE DEF t
    <3>3. Between(t, f[j], j)
      BY <1>1, <2>6, <3>1, <3>2 DEF Between, To, ScanStates, e
    <3> QED  BY <3>3 DEF Agrees, t
  <2>7. CASE ~s.escaped /\ text[j] # "backslash" /\ text[j] # q
    <3>1. t = s
      BY <1>4, <2>1, <2>7, QuoteOther
    <3> HIDE DEF t, j
    <3> QED  BY <1>4, <1>5, <1>6, <1>7, <1>12, <1>14, <2>7, <3>1 DEF t, j
  <2> QED  BY <2>3, <2>4, <2>5, <2>6, <2>7
<1> QED  BY <1>13, <1>14

(* The scanner and the lexical rules agree all along.                       *)
LEMMA ScanAgrees ==
  ASSUME NEW text \in Seq(STRING), ~HoldsCode(text, "default"), NEW g, Scanning(text, g), NEW f, Lexing(text, "default", f)
  PROVE  \A i \in 0 .. Len(text) : Agrees(text, g[i], f[i], i)
<1> DEFINE P == {i \in 0 .. Len(text) : Agrees(text, g[i], f[i], i)}
<1>1. 0 \in P
  <2>1. Between(g[0], f[0], 0)
    BY DEF Scanning, ScanStart, Lexing, LexStart, Between
  <2> QED  BY <2>1 DEF Agrees
<1>2. ASSUME NEW i \in 0 .. Len(text) - 1, i \in P PROVE i + 1 \in P
  <2>1. i \in 0 .. Len(text) /\ i + 1 \in 1 .. Len(text) /\ (i + 1) - 1 = i /\ i + 1 \in 0 .. Len(text)
    OBVIOUS
  <2>2. g[i] \in ScanStates(text) /\ g[i + 1] = ScanChar(g[i], text, i + 1)
    BY <2>1 DEF Scanning
  <2>3. Agrees(text, g[i], f[i], i)
    BY <1>2
  <2>4. Agrees(text, ScanChar(g[i], text, i + 1), f[i + 1], i + 1)
    <3>1. CASE Between(g[i], f[i], i)
      BY <2>2, <3>1, BetweenNext
    <3>2. CASE AtSlash(text, g[i], f[i], i)
      BY <2>2, <3>2, AtSlashNext
    <3>3. ASSUME NEW b, InLine(text, g[i], f[i], i, b)
          PROVE  Agrees(text, ScanChar(g[i], text, i + 1), f[i + 1], i + 1)
      BY <2>2, <3>3, InLineNext
    <3>4. ASSUME NEW b, InBlock(text, g[i], f[i], i, b)
          PROVE  Agrees(text, ScanChar(g[i], text, i + 1), f[i + 1], i + 1)
      BY <2>2, <3>4, InBlockNext
    <3>5. ASSUME NEW b, InQuote(text, g[i], f[i], i, b)
          PROVE  Agrees(text, ScanChar(g[i], text, i + 1), f[i + 1], i + 1)
      BY <2>2, <3>5, InQuoteNext
    <3>6. ASSUME NEW b, InExec(text, g[i], f[i], i, b)
          PROVE  Agrees(text, ScanChar(g[i], text, i + 1), f[i + 1], i + 1)
      BY <2>2, <3>6, InExecNext
    <3>7. \/ Between(g[i], f[i], i) \/ AtSlash(text, g[i], f[i], i)
          \/ \E b : \/ InLine(text, g[i], f[i], i, b) \/ InBlock(text, g[i], f[i], i, b)
                    \/ InExec(text, g[i], f[i], i, b) \/ InQuote(text, g[i], f[i], i, b)
      BY <2>3 DEF Agrees
    <3> QED  BY <3>1, <3>2, <3>3, <3>4, <3>5, <3>6, <3>7, Zenon
  <2> QED  BY <2>1, <2>2, <2>4
<1> HIDE DEF P
<1>3. Len(text) \in Nat
  OBVIOUS
<1>4. \A i \in 0 .. Len(text) : i \in P
  BY <1>1, <1>2, <1>3, Positions
<1> QED  BY <1>4 DEF P

----------------------------------------------------------------------------
(* The positions of a set in their order, one position more at a time.      *)
Ordering(S, n, o) ==
  /\ o \in [0 .. n -> Seq(Nat)]
  /\ o[0] = <<>>
  /\ \A i \in 1 .. n : o[i] = IF i \in S THEN Append(o[i - 1], i) ELSE o[i - 1]
  /\ InOrder(S, n) = o[n]

LEMMA OrderDef ==
  ASSUME NEW C, NEW N \in Nat
  PROVE  \E o : Ordering(C, N, o)
<1> DEFINE S == Seq(Nat)
           Step(n, t) == IF n \in C THEN Append(t, n) ELSE t
           G == [n \in 1 .. N |-> [t \in S |-> Step(n, t)]]
           Is(f) == f = [n \in 0 .. N |-> IF n = 0 THEN <<>> ELSE Step(n, f[n - 1])]
           h == CHOOSE f : Is(f)
<1>1. \A n \in 1 .. N, t \in S : Step(n, t) \in S
  OBVIOUS
<1>2. <<>> \in S
  OBVIOUS
<1>3. InOrder(C, N) = h[N]
  BY DEF InOrder
<1>4. \A n, t : Step(n, t) = IF n \in C THEN Append(t, n) ELSE t
  OBVIOUS
<1> HIDE DEF S, Step
<1>5. G \in StepFunctions(N, S)
  BY <1>1 DEF StepFunctions
<1>6. PICK f : Follows(N, S, <<>>, G, f)
  BY <1>2, <1>5, Recursion
<1>7. ASSUME NEW n \in 1 .. N PROVE f[n] = Step(n, f[n - 1])
  <2>1. f[n - 1] \in S /\ f[n] = G[n][f[n - 1]]
    <3> HIDE DEF G
    <3> QED  BY <1>6 DEF Follows
  <2> QED  BY <2>1
<1>8. f \in [0 .. N -> S] /\ f[0] = <<>>
  BY <1>6 DEF Follows
<1>9. Is(f)
  BY <1>7, <1>8
<1>10. Is(h)
  BY <1>9
<1> HIDE DEF h
<1>11. h[0] = <<>> /\ \A n \in 1 .. N : h[n] = Step(n, h[n - 1])
  BY <1>10
<1>12. \A n \in 1 .. N : h[n - 1] \in S => h[n] = G[n][h[n - 1]]
  BY <1>11
<1>13. \A n \in 0 .. N : h[n] = f[n]
  <2> HIDE DEF G
  <2> QED  BY <1>6, <1>11, <1>12, RecursionUnique
<1>14. InOrder(C, N) = f[N]
  BY <1>3, <1>13
<1> QED  BY <1>4, <1>7, <1>8, <1>14 DEF Ordering, S

(* The texts that are not empty, one more at a time.                        *)
Selecting(ts, S, f) ==
  /\ f \in [0 .. Len(ts) -> Seq(S)]
  /\ f[0] = <<>>
  /\ \A k \in 1 .. Len(ts) : f[k] = IF ts[k] = <<>> THEN f[k - 1] ELSE Append(f[k - 1], ts[k])
  /\ NonEmpty(ts) = f[Len(ts)]

LEMMA NonEmptyDef ==
  ASSUME NEW S, NEW ts \in Seq(S)
  PROVE  \E f : Selecting(ts, S, f)
<1> DEFINE N == Len(ts)
           T == Seq(S)
           Step(n, t) == IF ts[n] = <<>> THEN t ELSE Append(t, ts[n])
           G == [n \in 1 .. N |-> [t \in T |-> Step(n, t)]]
           Is(f) == f = [n \in 0 .. N |-> IF n = 0 THEN <<>> ELSE Step(n, f[n - 1])]
           h == CHOOSE f : Is(f)
<1>1. N \in Nat /\ \A n \in 1 .. N, t \in T : Step(n, t) \in T
  <2>1. \A n \in 1 .. N : ts[n] \in S
    OBVIOUS
  <2> QED  BY <2>1
<1>2. <<>> \in T
  OBVIOUS
<1>3. NonEmpty(ts) = h[N]
  BY DEF NonEmpty
<1>4. \A n, t : Step(n, t) = IF ts[n] = <<>> THEN t ELSE Append(t, ts[n])
  OBVIOUS
<1> HIDE DEF T, Step, N
<1>5. G \in StepFunctions(N, T)
  BY <1>1 DEF StepFunctions
<1>6. PICK f : Follows(N, T, <<>>, G, f)
  BY <1>1, <1>2, <1>5, Recursion
<1>7. ASSUME NEW n \in 1 .. N PROVE f[n] = Step(n, f[n - 1])
  <2>1. f[n - 1] \in T /\ f[n] = G[n][f[n - 1]]
    <3> HIDE DEF G
    <3> QED  BY <1>1, <1>6 DEF Follows
  <2> QED  BY <2>1
<1>8. f \in [0 .. N -> T] /\ f[0] = <<>>
  BY <1>6 DEF Follows
<1>9. Is(f)
  BY <1>1, <1>7, <1>8
<1>10. Is(h)
  BY <1>9
<1> HIDE DEF h
<1>11. h[0] = <<>> /\ \A n \in 1 .. N : h[n] = Step(n, h[n - 1])
  BY <1>1, <1>10
<1>12. \A n \in 1 .. N : h[n - 1] \in T => h[n] = G[n][h[n - 1]]
  BY <1>11
<1>13. \A n \in 0 .. N : h[n] = f[n]
  <2>1. N \in Nat
    BY <1>1
  <2> HIDE DEF G
  <2> QED  BY <1>6, <1>11, <1>12, <2>1, RecursionUnique
<1>14. NonEmpty(ts) = f[N]
  BY <1>1, <1>3, <1>13
<1> QED  BY <1>4, <1>7, <1>8, <1>14 DEF Selecting, T, N

LEMMA NonEmptyOfNone ==
  NonEmpty(<<>>) = <<>>
<1>1. <<>> \in Seq(STRING) /\ Len(<<>>) = 0
  OBVIOUS
<1>2. PICK f : Selecting(<<>>, STRING, f)
  BY <1>1, NonEmptyDef
<1> QED  BY <1>1, <1>2 DEF Selecting

LEMMA NonEmptyAppend ==
  ASSUME NEW S, NEW ts \in Seq(S), NEW t \in S
  PROVE  NonEmpty(Append(ts, t)) = IF t = <<>> THEN NonEmpty(ts) ELSE Append(NonEmpty(ts), t)
<1> DEFINE us == Append(ts, t)
           N == Len(ts)
<1>1. N \in Nat /\ us \in Seq(S) /\ Len(us) = N + 1 /\ us[N + 1] = t /\ \A k \in 1 .. N : us[k] = ts[k]
  OBVIOUS
<1>2. PICK f : Selecting(ts, S, f)
  BY NonEmptyDef
<1>3. PICK g : Selecting(us, S, g)
  BY <1>1, NonEmptyDef
<1> HIDE DEF us, N
<1> DEFINE P == {k \in 0 .. N : g[k] = f[k]}
<1>4. 0 \in P
  BY <1>1, <1>2, <1>3 DEF Selecting, N
<1>5. ASSUME NEW k \in 0 .. N - 1, k \in P PROVE k + 1 \in P
  <2>1. k + 1 \in 1 .. Len(ts) /\ k + 1 \in 1 .. Len(us) /\ (k + 1) - 1 = k /\ k + 1 \in 1 .. N
    BY <1>1 DEF N
  <2>2. f[k + 1] = IF ts[k + 1] = <<>> THEN f[k] ELSE Append(f[k], ts[k + 1])
    BY <1>2, <2>1 DEF Selecting
  <2>3. g[k + 1] = IF us[k + 1] = <<>> THEN g[k] ELSE Append(g[k], us[k + 1])
    BY <1>3, <2>1 DEF Selecting
  <2>4. g[k] = f[k] /\ us[k + 1] = ts[k + 1]
    BY <1>1, <1>5, <2>1
  <2> QED  BY <2>1, <2>2, <2>3, <2>4
<1>6. \A k \in 0 .. N : k \in P
  <2> HIDE DEF P
  <2> QED  BY <1>1, <1>4, <1>5, Positions
<1>7. g[N] = f[N] /\ f[N] = NonEmpty(ts)
  BY <1>1, <1>2, <1>6 DEF Selecting, N
<1>8. N + 1 \in 1 .. Len(us) /\ (N + 1) - 1 = N
  BY <1>1
<1>9. g[N + 1] = IF us[N + 1] = <<>> THEN g[N] ELSE Append(g[N], us[N + 1])
  BY <1>3, <1>8 DEF Selecting
<1>10. NonEmpty(us) = g[N + 1]
  BY <1>1, <1>3 DEF Selecting
<1> QED  BY <1>1, <1>7, <1>9, <1>10 DEF us

(* The pieces that end before the positions E.                              *)
FirstAfter(E, k) == IF k = 1 THEN 1 ELSE E[k - 1] + 1
PiecesBefore(text, E) == [k \in DOMAIN E |-> TrimSpace(SubSeq(text, FirstAfter(E, k), E[k] - 1))]

LEMMA PiecesBeforeNone ==
  ASSUME NEW text
  PROVE  PiecesBefore(text, <<>>) = <<>>
BY DEF PiecesBefore

LEMMA PiecesBeforeType ==
  ASSUME NEW text, NEW E \in Seq(Nat)
  PROVE  PiecesBefore(text, E) \in Seq(PartsOf(text))
<1>1. ASSUME NEW k \in DOMAIN E PROVE TrimSpace(SubSeq(text, FirstAfter(E, k), E[k] - 1)) \in PartsOf(text)
  <2>1. E[k] - 1 \in Int /\ FirstAfter(E, k) \in Int
    BY DEF FirstAfter
  <2> QED  BY <2>1 DEF PartsOf
<1>2. DOMAIN E = 1 .. Len(E) /\ Len(E) \in Nat
  OBVIOUS
<1>3. PiecesBefore(text, E) \in [1 .. Len(E) -> PartsOf(text)]
  BY <1>1, <1>2 DEF PiecesBefore
<1> QED  BY <1>2, <1>3

LEMMA PiecesBeforeAppend ==
  ASSUME NEW text, NEW E \in Seq(Nat), NEW c \in Nat
  PROVE  PiecesBefore(text, Append(E, c))
           = Append(PiecesBefore(text, E), TrimSpace(SubSeq(text, FirstAfter(E, Len(E) + 1), c - 1)))
<1> DEFINE F == Append(E, c)
           N == Len(E)
           piece == TrimSpace(SubSeq(text, FirstAfter(E, N + 1), c - 1))
           A == PiecesBefore(text, F)
           B == PiecesBefore(text, E)
<1>1. N \in Nat /\ Len(F) = N + 1 /\ DOMAIN F = 1 .. N + 1 /\ DOMAIN E = 1 .. N /\ F \in Seq(Nat)
  OBVIOUS
<1>2. F[N + 1] = c /\ \A k \in 1 .. N : F[k] = E[k]
  OBVIOUS
<1>3. A \in Seq(PartsOf(text)) /\ B \in Seq(PartsOf(text))
  BY <1>1, PiecesBeforeType
<1>4. DOMAIN A = 1 .. N + 1 /\ DOMAIN B = 1 .. N
  BY <1>1 DEF PiecesBefore
<1> HIDE DEF F, N
<1>5. \A k \in 1 .. N + 1 : FirstAfter(F, k) = FirstAfter(E, k)
  BY <1>1, <1>2 DEF FirstAfter
<1>6. \A k \in 1 .. N : A[k] = B[k]
  BY <1>1, <1>2, <1>5 DEF PiecesBefore
<1>7. A[N + 1] = piece
  <2>1. N + 1 \in DOMAIN F
    BY <1>1
  <2> QED  BY <1>1, <1>2, <1>5, <2>1 DEF PiecesBefore
<1> HIDE DEF A, B, piece
<1>8. Len(A) = N + 1 /\ Len(B) = N
  BY <1>1, <1>3, <1>4
<1>9. A = Append(B, piece)
  BY <1>1, <1>3, <1>6, <1>7, <1>8
<1> QED  BY <1>9 DEF A, B, F, N, piece

(* Only a semicolon in code makes the scanner cut.                          *)
LEMMA ToKeeps ==
  ASSUME NEW text, NEW s \in ScanStates(text), NEW m, NEW k
  PROVE  To(s, m, k).parts = s.parts /\ To(s, m, k).start = s.start
BY DEF To, ScanStates

LEMMA ScanKeeps ==
  ASSUME NEW text, NEW s \in ScanStates(text), NEW i, ~(s.mode = "code" /\ ~s.skip /\ text[i] = "semicolon")
  PROVE  ScanChar(s, text, i).parts = s.parts /\ ScanChar(s, text, i).start = s.start
<1> DEFINE Same(t) == t.parts = s.parts /\ t.start = s.start
<1>1. Same(To(s, "code", FALSE)) /\ Same(To(s, "code", TRUE)) /\ Same(To(s, "block", TRUE)) /\ Same(s)
  BY ToKeeps
<1>2. \A m, k : Same(To(s, m, k))
  BY ToKeeps
<1>3. Same([s EXCEPT !.skip = FALSE]) /\ Same([s EXCEPT !.skip = TRUE])
      /\ Same([s EXCEPT !.escaped = FALSE]) /\ Same([s EXCEPT !.escaped = TRUE])
  BY DEF ScanStates
<1> HIDE DEF Same
<1>4. s.mode \in ScanModes
  BY DEF ScanStates
<1>5. Same(ScanQuote(s, text, i))
  BY <1>1, <1>3, Zenon DEF ScanQuote
<1>6. text[i] # "semicolon" => Same(ScanCode(s, text, i))
  BY <1>1, <1>2, Zenon DEF ScanCode
<1>7. Same(ScanChar(s, text, i))
  <2>1. CASE s.skip
    <3>1. ScanChar(s, text, i) = Unskip(s)
      BY <2>1, ScanSkips
    <3> QED  BY <1>3, <3>1 DEF Unskip
  <2>2. CASE ~s.skip /\ s.mode = "code"
    BY <1>6, <2>2, ScanInCode
  <2>3. CASE ~s.skip /\ s.mode = "line"
    <3>1. CASE text[i] = "nl"
      <4>1. ScanChar(s, text, i) = To(s, "code", FALSE)
        BY <2>3, <3>1, ScanLineEnds
      <4> QED  BY <1>1, <4>1
    <3>2. CASE text[i] # "nl"
      <4>1. ScanChar(s, text, i) = s
        BY <2>3, <3>2, ScanInLine
      <4> QED  BY <1>1, <4>1
    <3> QED  BY <3>1, <3>2
  <2>4. CASE ~s.skip /\ s.mode = "block"
    <3>1. CASE text[i] = "*" /\ CharAt(text, i + 1) = "/"
      <4>1. ScanChar(s, text, i) = To(s, "code", TRUE)
        BY <2>4, <3>1, ScanBlockEnds
      <4> QED  BY <1>1, <4>1
    <3>2. CASE ~(text[i] = "*" /\ CharAt(text, i + 1) = "/")
      <4>1. ScanChar(s, text, i) = s
        BY <2>4, <3>2, ScanInBlock
      <4> QED  BY <1>1, <4>1
    <3> QED  BY <3>1, <3>2
  <2>5. CASE ~s.skip /\ s.mode \in Quotes
    BY <1>5, <2>5, ScanInQuote
  <2> QED  BY <1>4, <2>1, <2>2, <2>3, <2>4, <2>5 DEF ScanModes
<1> QED  BY <1>7 DEF Same

(* The scanner cuts where the lexical rules have a semicolon begin.         *)
CutsOf(text) == {i \in Begins(text, "default") : text[i] = "semicolon"} \cup {Len(text) + 1}

LEMMA CutsAgree ==
  ASSUME NEW text \in Seq(STRING), ~HoldsCode(text, "default"), NEW g, Scanning(text, g), NEW f, Lexing(text, "default", f),
         NEW i \in 0 .. Len(text) - 1
  PROVE  i + 1 \in CutsOf(text) <=> g[i].mode = "code" /\ ~g[i].skip /\ text[i + 1] = "semicolon"
<1> DEFINE j == i + 1
           e == f[i].end
<1>1. Len(text) \in Nat /\ i \in 0 .. Len(text) /\ j \in 1 .. Len(text) /\ j \in 0 .. Len(text) /\ j # Len(text) + 1
  OBVIOUS
<1>2. j \in CutsOf(text) <=> j \in f[j].begins /\ text[j] = "semicolon"
  <2>1. f[j].begins = Begins(text, "default") \cap (1 .. j)
    BY <1>1, LexPrefix
  <2> QED  BY <1>1, <2>1 DEF CutsOf
<1>3. e \in Nat /\ e >= i /\ f[i].begins \subseteq 1 .. i
  BY <1>1, LexReaches
<1> SUFFICES ASSUME text[j] = "semicolon" PROVE j \in f[j].begins <=> g[i].mode = "code" /\ ~g[i].skip
  BY <1>2
<1>4. j \in f[j].begins <=> e = i
  <2>1. CASE e >= j
    <3>1. f[j] = f[i]
      BY <2>1, LexNext
    <3>2. j \notin f[i].begins
      BY <1>1, <1>3
    <3> QED  BY <1>1, <1>3, <2>1, <3>1, <3>2
  <2>2. CASE e < j
    <3>1. f[j].begins = f[i].begins \cup {j}
      BY <2>2, LexNext DEF ClosesExec
    <3> QED  BY <1>1, <1>3, <2>2, <3>1
  <2> QED  BY <1>1, <1>3, <2>1, <2>2
<1>5. Agrees(text, g[i], f[i], i)
  BY <1>1, ScanAgrees
<1>6. e = i <=> g[i].mode = "code" /\ ~g[i].skip
  <2>1. CASE Between(g[i], f[i], i)
    BY <2>1 DEF Between
  <2>2. CASE AtSlash(text, g[i], f[i], i)
    BY <1>1, <2>2 DEF AtSlash
  <2>3. ASSUME NEW b, InLine(text, g[i], f[i], i, b) PROVE e # i /\ g[i].mode # "code"
    BY <1>3, <2>3 DEF InLine, Within
  <2>4. ASSUME NEW b, InBlock(text, g[i], f[i], i, b) PROVE e # i /\ g[i].mode # "code"
    BY <1>3, <2>4 DEF InBlock, Within
  <2>5. ASSUME NEW b, InQuote(text, g[i], f[i], i, b) PROVE e # i /\ g[i].mode # "code"
    BY <1>3, <2>5 DEF InQuote, Within, Quotes
  <2>6. ASSUME NEW b, InExec(text, g[i], f[i], i, b) PROVE e # i /\ g[i].mode # "code"
    <3>1. b \in 1 .. i /\ ~(i >= b + 2)
      BY <2>6, ExecHolds
    <3> QED  BY <1>1, <2>6, <3>1 DEF InExec
  <2> HIDE DEF e
  <2> QED  BY <1>5, <2>1, <2>2, <2>3, <2>4, <2>5, <2>6, Zenon DEF Agrees
<1> QED  BY <1>4, <1>6

(* The parts are the pieces before the cuts.                                *)
LEMMA PartsAgree ==
  ASSUME NEW text \in Seq(STRING), ~HoldsCode(text, "default"), NEW g, Scanning(text, g), NEW f, Lexing(text, "default", f),
         NEW o, Ordering(CutsOf(text), Len(text) + 1, o)
  PROVE  \A i \in 0 .. Len(text) : /\ g[i].start = FirstAfter(o[i], Len(o[i]) + 1)
                                   /\ g[i].parts = NonEmpty(PiecesBefore(text, o[i]))
<1> DEFINE P == {i \in 0 .. Len(text) : /\ g[i].start = FirstAfter(o[i], Len(o[i]) + 1)
                                        /\ g[i].parts = NonEmpty(PiecesBefore(text, o[i]))}
<1>1. 0 \in P
  <2>1. o[0] = <<>> /\ g[0].start = 1 /\ g[0].parts = <<>> /\ Len(<<>>) + 1 = 1
    BY DEF Ordering, Scanning, ScanStart
  <2>2. FirstAfter(<<>>, 1) = 1
    BY DEF FirstAfter
  <2>3. 0 \in 0 .. Len(text)
    OBVIOUS
  <2> QED  BY <2>1, <2>2, <2>3, NonEmptyOfNone, PiecesBeforeNone
<1>2. ASSUME NEW i \in 0 .. Len(text) - 1, i \in P PROVE i + 1 \in P
  <2> DEFINE s == g[i]
             E == o[i]
             j == i + 1
             t == g[j]
             part == TrimSpace(SubSeq(text, s.start, i))
  <2>1. Len(text) \in Nat /\ i \in 0 .. Len(text) /\ j \in 1 .. Len(text) /\ j - 1 = i /\ j \in 0 .. Len(text)
        /\ j \in 1 .. Len(text) + 1 /\ i \in 0 .. Len(text) + 1
    OBVIOUS
  <2>2. s \in ScanStates(text) /\ t = ScanChar(s, text, j)
    BY <2>1 DEF Scanning
  <2>3. E \in Seq(Nat) /\ o[j] = IF j \in CutsOf(text) THEN Append(E, j) ELSE E
    BY <2>1 DEF Ordering
  <2>4. s.start = FirstAfter(E, Len(E) + 1) /\ s.parts = NonEmpty(PiecesBefore(text, E))
    BY <1>2
  <2> HIDE DEF s, E, t, j
  <2>5. CASE j \in CutsOf(text)
    <3>1. s.mode = "code" /\ ~s.skip /\ text[j] = "semicolon"
      BY <2>5, CutsAgree DEF s, j
    <3>2. ~(text[j] = "/") /\ ~LineCommentAt(text, j) /\ text[j] \notin Quotes
      BY <3>1 DEF LineCommentAt, Quotes
    <3>3. t = ScanCode(s, text, j)
      BY <2>2, <3>1, ScanInCode
    <3>4. t = Cut(s, text, j)
      BY <3>1, <3>2, <3>3, Zenon DEF ScanCode, Cut
    <3>5. t.start = j + 1 /\ t.parts = AppendPart(s, text, i)
      BY <2>1, <2>2, <3>4 DEF Cut, ScanStates
    <3>6. t.parts = IF part = <<>> THEN s.parts ELSE Append(s.parts, part)
      BY <3>5 DEF AppendPart
    <3>7. o[j] = Append(E, j)
      BY <2>3, <2>5
    <3>8. PiecesBefore(text, o[j]) = Append(PiecesBefore(text, E), part)
      <4>1. j \in Nat
        BY <2>1
      <4>2. PiecesBefore(text, Append(E, j))
              = Append(PiecesBefore(text, E), TrimSpace(SubSeq(text, FirstAfter(E, Len(E) + 1), j - 1)))
        BY <2>3, <4>1, PiecesBeforeAppend
      <4> QED  BY <2>1, <2>4, <3>7, <4>2
    <3>9. PiecesBefore(text, E) \in Seq(PartsOf(text)) /\ part \in PartsOf(text)
      <4>1. s.start \in Int
        BY <2>2 DEF ScanStates
      <4> QED  BY <2>1, <2>3, <4>1, PiecesBeforeType DEF PartsOf
    <3> HIDE DEF part
    <3>10. NonEmpty(PiecesBefore(text, o[j])) = IF part = <<>> THEN s.parts ELSE Append(s.parts, part)
      BY <2>4, <3>8, <3>9, NonEmptyAppend
    <3>11. FirstAfter(o[j], Len(o[j]) + 1) = j + 1
      <4>1. j \in Nat
        BY <2>1
      <4>2. Len(o[j]) = Len(E) + 1 /\ o[j][Len(E) + 1] = j /\ Len(E) \in Nat
        BY <2>3, <3>7, <4>1
      <4> QED  BY <4>1, <4>2 DEF FirstAfter
    <3> QED  BY <2>1, <3>5, <3>6, <3>10, <3>11 DEF t, j
  <2>6. CASE j \notin CutsOf(text)
    <3>1. ~(s.mode = "code" /\ ~s.skip /\ text[j] = "semicolon")
      BY <2>6, CutsAgree DEF s, j
    <3>2. t.parts = s.parts /\ t.start = s.start
      BY <2>2, <3>1, ScanKeeps
    <3>3. o[j] = E
      BY <2>3, <2>6
    <3> QED  BY <2>1, <2>4, <3>2, <3>3 DEF t, j
  <2> QED  BY <2>5, <2>6
<1>3. \A i \in 0 .. Len(text) : i \in P
  <2>1. Len(text) \in Nat
    OBVIOUS
  <2> HIDE DEF P
  <2> QED  BY <1>1, <1>2, <2>1, Positions
<1> QED  BY <1>3

(* A quote or a comment is left open exactly if the scanner ends in it.     *)
LEMMA OpenAgrees ==
  ASSUME NEW text \in Seq(STRING), ~HoldsCode(text, "default"), NEW g, Scanning(text, g), NEW f, Lexing(text, "default", f)
  PROVE  Terminated(text, "default") <=> ~Unterminated(g[Len(text)])
<1> DEFINE N == Len(text)
           s == g[N]
           B == Begins(text, "default")
           Until(b) == EndAt(text, b, "default")
           Open(b) == KindAt(text, b) \in {"block", "quoted"} /\ ~(Until(b) <= N)
<1> SUFFICES Terminated(text, "default") <=> ~Unterminated(s)
  OBVIOUS
<1>1. N \in Nat /\ N \in 0 .. Len(text) /\ B = f[N].begins /\ Lex(text, "default") = f[N]
  BY DEF Lexing, Begins
<1>2. Agrees(text, s, f[N], N)
  BY <1>1, ScanAgrees
<1>3. /\ f[N].end \in Nat
      /\ \A b \in B : b \in 1 .. N
      /\ \A b \in B : Until(b) <= f[N].end
      /\ \A b, c \in B : b < c => Until(b) < c
  BY <1>1, LexReaches
<1>4. \A b \in B : Until(b) \in Nat
  BY <1>3, EndAtType
<1>5. Terminated(text, "default") <=> ~f[N].open /\ ~\E b \in B : Open(b)
  BY <1>1 DEF Terminated
<1> HIDE DEF B, Until
<1>6. CASE Between(s, f[N], N)
  <2>1. ~Unterminated(s)
    BY <1>6 DEF Between, Unterminated, Quotes
  <2>2. f[N].end = N /\ ~f[N].open
    BY <1>6 DEF Between
  <2> QED  BY <1>3, <1>4, <1>5, <2>1, <2>2
<1>7. ~AtSlash(text, s, f[N], N)
  BY <1>1 DEF AtSlash
<1>8. ASSUME NEW b, InLine(text, s, f[N], N, b)
      PROVE  Terminated(text, "default") <=> ~Unterminated(s)
  <2>1. ~Unterminated(s)
    BY <1>8 DEF InLine, Unterminated, Quotes
  <2>2. b \in B /\ Until(b) > N /\ KindAt(text, b) = "line" /\ ~f[N].open
    BY <1>1, <1>8 DEF InLine, Within, Until
  <2>3. ASSUME NEW c \in B, Open(c) PROVE FALSE
    <3>1. CASE c = b
      BY <2>2, <2>3, <3>1
    <3>2. CASE c < b
      <4>1. Until(c) < b /\ b <= N /\ b \in Nat /\ Until(c) \in Nat
        BY <1>1, <1>3, <1>4, <2>2, <2>3, <3>2
      <4> QED  BY <1>1, <2>3, <4>1
    <3>3. CASE b < c
      <4>1. Until(b) < c /\ c <= N /\ c \in Nat /\ Until(b) \in Nat
        BY <1>1, <1>3, <1>4, <2>2, <2>3, <3>3
      <4> QED  BY <1>1, <2>2, <4>1
    <3>4. b \in Nat /\ c \in Nat
      BY <1>3, <2>2, <2>3
    <3> QED  BY <3>1, <3>2, <3>3, <3>4
  <2> QED  BY <1>5, <2>1, <2>2, <2>3
<1>9. ASSUME NEW b, InBlock(text, s, f[N], N, b) \/ InQuote(text, s, f[N], N, b)
      PROVE  Terminated(text, "default") <=> ~Unterminated(s)
  <2>1. Unterminated(s)
    BY <1>9 DEF InBlock, InQuote, Unterminated
  <2>2. b \in B /\ Until(b) > N /\ KindAt(text, b) \in {"block", "quoted"}
    BY <1>1, <1>9 DEF InBlock, InQuote, Within, Until
  <2>3. Open(b)
    BY <1>1, <1>4, <2>2
  <2> QED  BY <1>5, <2>1, <2>2, <2>3
<1>12. ASSUME NEW b, InExec(text, s, f[N], N, b)
       PROVE  Terminated(text, "default") <=> ~Unterminated(s)
  <2>1. Unterminated(s) /\ f[N].open
    BY <1>12 DEF InExec, Unterminated
  <2> QED  BY <1>5, <2>1
<1> HIDE DEF s, N
<1>10. Between(s, f[N], N)
         \/ \E b : \/ InLine(text, s, f[N], N, b) \/ InBlock(text, s, f[N], N, b)
                  \/ InExec(text, s, f[N], N, b) \/ InQuote(text, s, f[N], N, b)
  BY <1>2, <1>7, Zenon DEF Agrees
<1>11. CASE \E b : \/ InLine(text, s, f[N], N, b) \/ InBlock(text, s, f[N], N, b)
                  \/ InExec(text, s, f[N], N, b) \/ InQuote(text, s, f[N], N, b)
  <2>1. PICK b : \/ InLine(text, s, f[N], N, b) \/ InBlock(text, s, f[N], N, b)
                 \/ InExec(text, s, f[N], N, b) \/ InQuote(text, s, f[N], N, b)
    BY <1>11
  <2>2. CASE InLine(text, s, f[N], N, b)
    BY <1>8, <2>2
  <2>3. CASE InBlock(text, s, f[N], N, b) \/ InQuote(text, s, f[N], N, b)
    BY <1>9, <2>3
  <2>4. CASE InExec(text, s, f[N], N, b)
    BY <1>12, <2>4
  <2> QED  BY <2>1, <2>2, <2>3, <2>4
<1> QED  BY <1>6, <1>10, <1>11

LEMMA PieceTextsAre ==
  ASSUME NEW text \in Seq(STRING)
  PROVE  PieceTexts(text, "default") = NonEmpty(PiecesBefore(text, InOrder(CutsOf(text), Len(text) + 1)))
<1> DEFINE E == InOrder(CutsOf(text), Len(text) + 1)
           ps == Pieces(text, "default")
           texts == [k \in DOMAIN ps |-> TrimSpace(SubSeq(text, ps[k].first, ps[k].last))]
<1>1. ps = [k \in DOMAIN E |-> [first |-> FirstAfter(E, k), last |-> E[k] - 1]]
  BY Zenon DEF Pieces, CutsOf, FirstAfter
<1>2. PieceTexts(text, "default") = NonEmpty(texts)
  BY Zenon DEF PieceTexts
<1> HIDE DEF E, ps
<1>3. texts = PiecesBefore(text, E)
  BY <1>1 DEF PiecesBefore
<1> HIDE DEF texts
<1> QED  BY <1>2, <1>3 DEF E

(* splitSQL against the lexical rules.                                      *)
LEMMA SplitAgrees ==
  ASSUME NEW text \in Seq(STRING), ~HoldsCode(text, "default")
  PROVE  splitSQL(text) = [ok |-> Terminated(text, "default"),
                           parts |-> IF Terminated(text, "default") THEN PieceTexts(text, "default") ELSE <<>>]
<1> DEFINE N == Len(text)
           C == CutsOf(text)
<1>1. N \in Nat /\ N \in 0 .. Len(text) /\ N + 1 \in Nat
  OBVIOUS
<1>2. PICK g : Scanning(text, g)
  BY ScanDef
<1>3. PICK f : Lexing(text, "default", f)
  BY LexDef
<1>4. PICK o : Ordering(C, N + 1, o)
  BY <1>1, OrderDef
<1> DEFINE s == g[N]
           part == TrimSpace(SubSeq(text, s.start, N))
<1>5. Scan(text) = s /\ s \in ScanStates(text)
  BY <1>1, <1>2 DEF Scanning
<1>6. Terminated(text, "default") <=> ~Unterminated(s)
  BY <1>2, <1>3, OpenAgrees
<1>7. s.start = FirstAfter(o[N], Len(o[N]) + 1) /\ s.parts = NonEmpty(PiecesBefore(text, o[N]))
  BY <1>1, <1>2, <1>3, <1>4, PartsAgree
<1>8. o[N] \in Seq(Nat) /\ o[N + 1] = Append(o[N], N + 1) /\ InOrder(C, N + 1) = o[N + 1]
  <2>1. N \in 0 .. N + 1 /\ N + 1 \in 1 .. N + 1 /\ (N + 1) - 1 = N
    BY <1>1
  <2>2. N + 1 \in C
    BY DEF CutsOf
  <2> HIDE DEF C, N
  <2> QED  BY <1>4, <2>1, <2>2 DEF Ordering
<1> HIDE DEF s, C, N
<1>9. PieceTexts(text, "default") = AppendPart(s, text, N)
  <2>1. PiecesBefore(text, o[N + 1]) = Append(PiecesBefore(text, o[N]), part)
    <3>1. PiecesBefore(text, Append(o[N], N + 1))
            = Append(PiecesBefore(text, o[N]), TrimSpace(SubSeq(text, FirstAfter(o[N], Len(o[N]) + 1), (N + 1) - 1)))
      BY <1>1, <1>8, PiecesBeforeAppend
    <3>2. (N + 1) - 1 = N
      BY <1>1
    <3> QED  BY <1>7, <1>8, <3>1, <3>2
  <2>2. PiecesBefore(text, o[N]) \in Seq(PartsOf(text)) /\ part \in PartsOf(text)
    <3>1. s.start \in Int /\ N \in Int
      BY <1>1, <1>5 DEF ScanStates
    <3>2. part \in PartsOf(text)
      BY <3>1 DEF PartsOf
    <3>3. PiecesBefore(text, o[N]) \in Seq(PartsOf(text))
      BY <1>8, PiecesBeforeType
    <3> QED  BY <3>2, <3>3
  <2>3. AppendPart(s, text, N) = IF part = <<>> THEN s.parts ELSE Append(s.parts, part)
    BY DEF AppendPart
  <2> HIDE DEF part
  <2>4. NonEmpty(PiecesBefore(text, o[N + 1])) = IF part = <<>> THEN s.parts ELSE Append(s.parts, part)
    BY <1>7, <2>1, <2>2, NonEmptyAppend
  <2>5. PieceTexts(text, "default") = NonEmpty(PiecesBefore(text, o[N + 1]))
    BY <1>8, PieceTextsAre DEF C, N
  <2> QED  BY <2>3, <2>4, <2>5
<1>10. splitSQL(text) = [ok |-> ~Unterminated(s),
                         parts |-> IF Unterminated(s) THEN <<>> ELSE AppendPart(s, text, N)]
  BY <1>5 DEF splitSQL, N
<1>11. Terminated(text, "default") = ~Unterminated(s)
  BY <1>6 DEF Terminated, Unterminated
<1> QED  BY <1>9, <1>10, <1>11, Zenon

(* splitSQL cuts every request's text exactly at its real semicolons and    *)
(* refuses it exactly if a quote or a comment stays open: for every text,   *)
(* whatever its quotes, comments and backslashes, but one whose executable  *)
(* comments hold a semicolon, a quoted text or a comment.                   *)
THEOREM SplitIsLexicalCorrect == AuditSpec => []SplitIsLexical
<1>1. AuditInv => SplitIsLexical
  <2> SUFFICES ASSUME AuditInv PROVE SplitIsLexical
    OBVIOUS
  <2>1. input.text \in Seq(STRING)
    BY InputsAssumption DEF AuditInv, PhaseInv
  <2> QED  BY <2>1, SplitAgrees DEF SplitIsLexical
<1> QED  BY <1>1, AuditInvariance, PTL
=============================================================================
