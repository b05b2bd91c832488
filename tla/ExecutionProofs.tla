-------------------------- MODULE ExecutionProofs --------------------------
(***************************************************************************)
(* Proofs about Execution, for batches of any length: type correctness, the *)
(* gate, the order of effects on the target, and the honesty of the answer. *)
(***************************************************************************)
EXTENDS Execution, TLAPS

(* Statements 1..n have a success result and, on the backup path, a         *)
(* complete rollback.                                                       *)
AllClear(n) ==
  \A k \in 1 .. n :
    /\ results[k].rule = "none"
    /\ results[k].backedUp <=> NeedsBackup(k)
    /\ NeedsBackup(k) => k \in saved

Quiet(n) == applied = 1 .. n /\ wire = "idle"

(* The current statement may or may not have reached the target.            *)
Uncertain ==
  /\ wire # "applied" => applied = 1 .. cur - 1
  /\ wire = "applied" => applied = 1 .. cur

(* How the loop can have ended.                                             *)
Completed  == Len(results) = cur /\ AllClear(cur) /\ Quiet(cur)
NeverBegan == /\ cur = 0 /\ Len(results) = 1
              /\ results[1].rule # "none" /\ ~results[1].executed
              /\ Quiet(0)
BackupLost == /\ cur >= 1 /\ Len(results) = cur /\ AllClear(cur - 1)
              /\ results[cur].rule = "backup" /\ results[cur].executed
              /\ NeedsBackup(cur) /\ Quiet(cur)
ExecFailed == /\ cur >= 1 /\ Len(results) = cur /\ AllClear(cur - 1)
              /\ results[cur].rule # "none" /\ ~results[cur].executed
              /\ Uncertain
Ended == Completed \/ NeverBegan \/ BackupLost \/ ExecFailed

BeforeLoop == {"gate", "open", "connect", "prereq"}
InStatement == {"position", "prepare", "exec", "wait", "end", "collect", "generate", "save"}

ProgressInv ==
  /\ pc \in BeforeLoop => results = <<>> /\ cur = 0 /\ Quiet(0)
  /\ pc \in {"next", "delay"} => Completed
  /\ pc \in InStatement => cur >= 1 /\ Len(results) = cur - 1 /\ AllClear(cur - 1)
  /\ pc \in {"position", "prepare", "exec"} => Quiet(cur - 1)
  /\ pc = "wait" => wire # "idle" /\ Uncertain
  /\ pc \in {"end", "collect", "generate", "save"} => Quiet(cur) /\ NeedsBackup(cur)
  /\ pc \in {"fold", "done", "panic"} => Ended

(* The records as the audit left them. *)
Checked == [i \in DOMAIN stmts |-> makeRecord(level[i])]

RecordsInv ==
  /\ pc # "done" => records = Checked
  /\ pc = "done" => \A i \in DOMAIN stmts : Honest(i)
  /\ pc = "done" /\ wire = "sent" =>
       cur \in DOMAIN stmts /\ records[cur].status = "ExecuteFailed" /\ records[cur].stage = "EXECUTED"

Blocked == \E i \in DOMAIN stmts : level[i] = Error \/ (level[i] = Warning /\ ~opts.ignoreWarnings)

GateHolds == pc # "gate" /\ Blocked => pc = "done" /\ Quiet(0)

IInv == TypeOK /\ ProgressInv /\ RecordsInv /\ GateHolds

----------------------------------------------------------------------------
(* The initial states satisfy the invariant. *)
LEMMA InitInv == Init => IInv
<1> SUFFICES ASSUME Init PROVE IInv
  OBVIOUS
<1>1. stmts \in Seq(Kind)
  BY BatchesAssumption DEF Init
<1>2. TypeOK
  BY <1>1 DEF Init, TypeOK, Options, PC, makeRecord, Record, Severity, Stage, Status, Notice, Warning, Error
<1>3. ProgressInv /\ RecordsInv /\ GateHolds
  BY <1>1 DEF Init, ProgressInv, RecordsInv, GateHolds, BeforeLoop, InStatement, Quiet, Checked
<1> QED  BY <1>2, <1>3 DEF IInv

(* What Append does to the elements of a sequence. *)
LEMMA AppendFacts ==
  ASSUME NEW S, NEW s \in Seq(S), NEW e \in S
  PROVE  /\ Append(s, e) \in Seq(S)
         /\ Len(Append(s, e)) = Len(s) + 1
         /\ \A k \in 1 .. Len(s) : Append(s, e)[k] = s[k]
         /\ Append(s, e)[Len(s) + 1] = e
OBVIOUS

(* A statement that fails inside the loop leaves it in one of the two ways  *)
(* Ended allows.                                                            *)
LEMMA BreakInLoop ==
  ASSUME IInv, pc \in InStatement,
         NEW rule \in Rule \ {"none"}, NEW ex \in BOOLEAN, Break(rule, ex),
         UNCHANGED <<opts, stmts, level, cur, records, ctx, applied>>,
         wire' \in {wire, "idle"}, saved' \in {saved, saved \cup {cur}},
         ex => rule = "backup" /\ Quiet(cur) /\ NeedsBackup(cur),
         ~ex => Uncertain'
  PROVE  IInv'
<1> DEFINE res == [executed |-> ex, rule |-> rule, backedUp |-> FALSE]
<1>1. res \in Result /\ results \in Seq(Result) /\ results' = Append(results, res)
  BY DEF IInv, TypeOK, Result, Break
<1>2. /\ results' \in Seq(Result)
      /\ Len(results') = Len(results) + 1
      /\ \A k \in 1 .. Len(results) : results'[k] = results[k]
      /\ results'[Len(results) + 1] = res
  BY <1>1, AppendFacts
<1>3. cur \in 1 .. Len(stmts) /\ Len(results) = cur - 1 /\ AllClear(cur - 1)
  BY DEF IInv, TypeOK, ProgressInv
<1>4. pc' = "fold"
  BY DEF Break
<1>5. TypeOK'
  BY <1>2, <1>3, <1>4 DEF IInv, TypeOK, PC
<1>6. Len(results') = cur /\ results'[cur] = res /\ AllClear(cur - 1)'
  BY <1>2, <1>3 DEF AllClear, NeedsBackup
<1>7. ASSUME ex PROVE BackupLost'
  BY <1>3, <1>6, <1>7 DEF BackupLost, Quiet, NeedsBackup
<1>8. ASSUME ~ex PROVE ExecFailed'
  BY <1>3, <1>6, <1>8 DEF ExecFailed, Uncertain
<1>9. ProgressInv'
  BY <1>4, <1>7, <1>8 DEF ProgressInv, BeforeLoop, InStatement, Ended
<1>10. RecordsInv' /\ GateHolds'
  BY <1>4 DEF IInv, InStatement, RecordsInv, Checked, GateHolds, Blocked, Quiet
<1> QED  BY <1>5, <1>9, <1>10 DEF IInv

(* A statement that succeeds takes the loop to its next turn. *)
LEMMA SuccessInLoop ==
  ASSUME IInv, pc \in InStatement, NEW b \in BOOLEAN,
         results' = Append(results, [executed |-> TRUE, rule |-> "none", backedUp |-> b]),
         pc' = "delay", wire' = "idle", applied = 1 .. cur,
         UNCHANGED <<opts, stmts, level, cur, records, ctx, applied>>,
         saved' \in {saved, saved \cup {cur}},
         b <=> NeedsBackup(cur), NeedsBackup(cur) => cur \in saved'
  PROVE  IInv'
<1> DEFINE res == [executed |-> TRUE, rule |-> "none", backedUp |-> b]
<1>1. res \in Result /\ results \in Seq(Result)
  BY DEF IInv, TypeOK, Result, Rule
<1>2. /\ results' \in Seq(Result)
      /\ Len(results') = Len(results) + 1
      /\ \A k \in 1 .. Len(results) : results'[k] = results[k]
      /\ results'[Len(results) + 1] = res
  BY <1>1, AppendFacts
<1>3. cur \in 1 .. Len(stmts) /\ Len(results) = cur - 1 /\ AllClear(cur - 1)
  BY DEF IInv, TypeOK, ProgressInv
<1>4. TypeOK'
  BY <1>2, <1>3 DEF IInv, TypeOK, PC
<1>5. AllClear(cur)'
  <2> SUFFICES ASSUME NEW k \in 1 .. cur
               PROVE  /\ results'[k].rule = "none"
                      /\ results'[k].backedUp <=> NeedsBackup(k)
                      /\ NeedsBackup(k) => k \in saved'
    BY DEF AllClear, NeedsBackup
  <2>1. CASE k = cur
    BY <1>2, <1>3, <2>1
  <2>2. CASE k \in 1 .. cur - 1
    BY <1>2, <1>3, <2>2 DEF AllClear
  <2> QED  BY <1>3, <2>1, <2>2
<1>6. ProgressInv'
  BY <1>2, <1>3, <1>5 DEF ProgressInv, BeforeLoop, InStatement, Completed, Quiet
<1>7. RecordsInv' /\ GateHolds'
  BY DEF IInv, InStatement, RecordsInv, Checked, GateHolds, Blocked, Quiet
<1> QED  BY <1>4, <1>6, <1>7 DEF IInv

(* A step that only moves pc within the loop, the facts of the new place    *)
(* being those of the old one.                                              *)
LEMMA MoveInLoop ==
  ASSUME IInv, pc \in InStatement, pc' \in InStatement,
         UNCHANGED <<opts, stmts, level, cur, results, records, ctx, wire, applied, saved>>,
         pc' \in {"position", "prepare", "exec"} => Quiet(cur - 1),
         pc' # "wait",
         pc' \in {"end", "collect", "generate", "save"} => Quiet(cur) /\ NeedsBackup(cur)
  PROVE  IInv'
<1>1. TypeOK'
  BY DEF IInv, TypeOK, PC, InStatement
<1>2. ProgressInv'
  BY DEF IInv, ProgressInv, BeforeLoop, InStatement, AllClear, NeedsBackup, Quiet
<1>3. RecordsInv' /\ GateHolds'
  BY DEF IInv, InStatement, RecordsInv, Checked, GateHolds, Blocked, Quiet
<1> QED  BY <1>1, <1>2, <1>3 DEF IInv

(* A failure before the loop is the single result of the request. *)
LEMMA BreakBeforeLoop ==
  ASSUME IInv, pc \in BeforeLoop, pc # "gate", NEW rule \in Rule \ {"none"}, Break(rule, FALSE),
         UNCHANGED <<opts, stmts, level, cur, records, ctx, wire, applied, saved>>
  PROVE  IInv'
<1> DEFINE res == [executed |-> FALSE, rule |-> rule, backedUp |-> FALSE]
<1>1. res \in Result /\ results \in Seq(Result) /\ results' = Append(results, res)
  BY DEF IInv, TypeOK, Result, Break
<1>2. results' \in Seq(Result) /\ Len(results') = Len(results) + 1 /\ results'[Len(results) + 1] = res
  BY <1>1, AppendFacts
<1>3. results = <<>> /\ cur = 0 /\ Quiet(0) /\ pc' = "fold"
  BY DEF IInv, ProgressInv, Break
<1>4. Len(results') = 1 /\ results'[1] = res
  BY <1>2, <1>3
<1>5. TypeOK'
  BY <1>2, <1>3 DEF IInv, TypeOK, PC
<1>6. ProgressInv'
  BY <1>3, <1>4 DEF ProgressInv, BeforeLoop, InStatement, Ended, NeverBegan, Quiet
<1>7. RecordsInv' /\ GateHolds'
  BY <1>3 DEF IInv, BeforeLoop, RecordsInv, Checked, GateHolds, Blocked, Quiet
<1> QED  BY <1>5, <1>6, <1>7 DEF IInv

(* The position before the statement.                                       *)
LEMMA StartPositionStep == IInv /\ StartPosition => IInv'
<1> SUFFICES ASSUME IInv, StartPosition PROVE IInv'
  OBVIOUS
<1>1. pc \in InStatement /\ cur \in 1 .. Len(stmts) /\ Quiet(cur - 1)
  BY DEF IInv, TypeOK, StartPosition, InStatement, ProgressInv
<1>2. CASE UNCHANGED results /\ pc' # "fold"
  BY <1>1, <1>2, MoveInLoop DEF StartPosition, InStatement, Break
<1>3. CASE Break("prereq", FALSE)
  BY <1>1, <1>3, BreakInLoop DEF StartPosition, Rule, Quiet, Uncertain
<1> QED  BY <1>2, <1>3 DEF StartPosition

(* The inverse of a DDL statement.                                          *)
LEMMA PrepareRollbackStep == IInv /\ PrepareRollback => IInv'
<1> SUFFICES ASSUME IInv, PrepareRollback PROVE IInv'
  OBVIOUS
<1>1. pc \in InStatement /\ cur \in 1 .. Len(stmts) /\ Quiet(cur - 1)
  BY DEF IInv, TypeOK, PrepareRollback, InStatement, ProgressInv
<1>2. CASE UNCHANGED results /\ pc' # "fold"
  BY <1>1, <1>2, MoveInLoop DEF PrepareRollback, InStatement, Break
<1>3. CASE Break("backup", FALSE)
  BY <1>1, <1>3, BreakInLoop DEF PrepareRollback, Rule, Quiet, Uncertain
<1> QED  BY <1>2, <1>3 DEF PrepareRollback

(* The position after the statement.                                        *)
LEMMA EndPositionStep == IInv /\ EndPosition => IInv'
<1> SUFFICES ASSUME IInv, EndPosition PROVE IInv'
  OBVIOUS
<1>1. pc \in InStatement /\ cur \in 1 .. Len(stmts) /\ Quiet(cur) /\ NeedsBackup(cur)
  BY DEF IInv, TypeOK, EndPosition, InStatement, ProgressInv
<1>2. CASE UNCHANGED results /\ pc' # "fold"
  BY <1>1, <1>2, MoveInLoop DEF EndPosition, InStatement, Break
<1>3. CASE Break("backup", TRUE)
  BY <1>1, <1>3, BreakInLoop DEF EndPosition, Rule, Quiet, Uncertain
<1> QED  BY <1>2, <1>3 DEF EndPosition

(* The rows of the statement.                                               *)
LEMMA CollectRowsStep == IInv /\ CollectRows => IInv'
<1> SUFFICES ASSUME IInv, CollectRows PROVE IInv'
  OBVIOUS
<1>1. pc \in InStatement /\ cur \in 1 .. Len(stmts) /\ Quiet(cur) /\ NeedsBackup(cur)
  BY DEF IInv, TypeOK, CollectRows, InStatement, ProgressInv
<1>2. CASE UNCHANGED results /\ pc' # "fold"
  BY <1>1, <1>2, MoveInLoop DEF CollectRows, InStatement, Break
<1>3. CASE Break("backup", TRUE)
  BY <1>1, <1>3, BreakInLoop DEF CollectRows, Rule, Quiet, Uncertain
<1> QED  BY <1>2, <1>3 DEF CollectRows

(* Their rollback statements.                                               *)
LEMMA GenerateRollbackStep == IInv /\ GenerateRollback => IInv'
<1> SUFFICES ASSUME IInv, GenerateRollback PROVE IInv'
  OBVIOUS
<1>1. pc \in InStatement /\ cur \in 1 .. Len(stmts) /\ Quiet(cur) /\ NeedsBackup(cur)
  BY DEF IInv, TypeOK, GenerateRollback, InStatement, ProgressInv
<1>2. CASE UNCHANGED results /\ pc' # "fold"
  BY <1>1, <1>2, MoveInLoop DEF GenerateRollback, InStatement, Break
<1>3. CASE Break("backup", TRUE)
  BY <1>1, <1>3, BreakInLoop DEF GenerateRollback, Rule, Quiet, Uncertain
<1> QED  BY <1>2, <1>3 DEF GenerateRollback

(* The backup store.                                                        *)
LEMMA SaveRollbackStep == IInv /\ SaveRollback => IInv'
<1> SUFFICES ASSUME IInv, SaveRollback PROVE IInv'
  OBVIOUS
<1>1. pc \in InStatement /\ cur \in 1 .. Len(stmts) /\ Quiet(cur) /\ NeedsBackup(cur)
  BY DEF IInv, TypeOK, SaveRollback, InStatement, ProgressInv
<1>2. CASE pc' = "delay"
  <2>1. /\ results' = Append(results, [executed |-> TRUE, rule |-> "none", backedUp |-> TRUE])
        /\ saved' = saved \cup {cur}
    BY <1>2 DEF SaveRollback, Break
  <2> QED  BY <1>1, <1>2, <2>1, SuccessInLoop DEF SaveRollback, Quiet
<1>3. CASE Break("backup", TRUE) /\ saved' \in {saved, saved \cup {cur}}
  BY <1>1, <1>3, BreakInLoop DEF SaveRollback, Rule
<1> QED  BY <1>2, <1>3 DEF SaveRollback

(* The statement leaves for the target.                                     *)
LEMMA SendStatementStep == IInv /\ SendStatement => IInv'
<1> SUFFICES ASSUME IInv, SendStatement PROVE IInv'
  OBVIOUS
<1>1. pc \in InStatement /\ cur \in 1 .. Len(stmts) /\ Quiet(cur - 1)
  BY DEF IInv, TypeOK, SendStatement, InStatement, ProgressInv
<1>2. CASE pc' = "wait" /\ wire' = "sent" /\ UNCHANGED results
  <2>1. TypeOK'
    BY <1>2 DEF IInv, TypeOK, PC, SendStatement
  <2>2. ProgressInv'
    BY <1>1, <1>2 DEF IInv, ProgressInv, SendStatement, BeforeLoop, InStatement, AllClear, NeedsBackup, Quiet, Uncertain
  <2>3. RecordsInv' /\ GateHolds'
    BY <1>2 DEF IInv, SendStatement, RecordsInv, Checked, GateHolds, Blocked, Quiet
  <2> QED  BY <2>1, <2>2, <2>3 DEF IInv
<1>3. CASE Break("exec", FALSE) /\ UNCHANGED wire
  <2>1. Uncertain'
    BY <1>1, <1>3 DEF SendStatement, Quiet, Uncertain
  <2> QED  BY <1>1, <1>3, <2>1, BreakInLoop DEF SendStatement, Rule
<1> QED  BY <1>2, <1>3 DEF SendStatement

(* The target has answered.                                                 *)
LEMMA ReplyStep == IInv /\ Reply => IInv'
<1> SUFFICES ASSUME IInv, Reply PROVE IInv'
  OBVIOUS
<1>1. pc \in InStatement /\ cur \in 1 .. Len(stmts) /\ Uncertain /\ wire' = "idle"
  BY DEF IInv, TypeOK, Reply, InStatement, ProgressInv
<1>2. CASE wire = "applied" /\ NeedsBackup(cur) /\ pc' = "end" /\ UNCHANGED results
  <2>1. TypeOK'
    BY <1>2 DEF IInv, TypeOK, PC, Reply
  <2>2. ProgressInv'
    BY <1>1, <1>2 DEF IInv, ProgressInv, Reply, BeforeLoop, InStatement, AllClear, NeedsBackup, Quiet, Uncertain
  <2>3. RecordsInv' /\ GateHolds'
    BY <1>2 DEF IInv, Reply, RecordsInv, Checked, GateHolds, Blocked, Quiet
  <2> QED  BY <2>1, <2>2, <2>3 DEF IInv
<1>3. CASE /\ wire = "applied" /\ ~NeedsBackup(cur) /\ pc' = "delay"
           /\ results' = Append(results, [executed |-> TRUE, rule |-> "none", backedUp |-> FALSE])
  BY <1>1, <1>3, SuccessInLoop DEF Reply, Uncertain
<1>4. CASE wire = "refused" /\ Break("exec", FALSE)
  <2>1. Uncertain'
    BY <1>1, <1>4 DEF Reply, Uncertain
  <2> QED  BY <1>1, <1>4, <2>1, BreakInLoop DEF Reply, Rule
<1> QED  BY <1>2, <1>3, <1>4 DEF Reply

(* The engine gives the statement up.                                       *)
LEMMA StopWaitingStep == IInv /\ StopWaiting => IInv'
<1> SUFFICES ASSUME IInv, StopWaiting PROVE IInv'
  OBVIOUS
<1>1. pc \in InStatement /\ Uncertain
  BY DEF IInv, StopWaiting, InStatement, ProgressInv
<1>2. Uncertain'
  BY <1>1 DEF StopWaiting, Uncertain
<1> QED  BY <1>1, <1>2, BreakInLoop DEF StopWaiting, Rule

(* Connection, session settings and prerequisites.                          *)
LEMMA ConnectStep == IInv /\ (Connect \/ BackupPrerequisites) => IInv'
<1> SUFFICES ASSUME IInv, Connect \/ BackupPrerequisites PROVE IInv'
  OBVIOUS
<1>1. pc \in BeforeLoop /\ pc # "gate" /\ results = <<>> /\ cur = 0 /\ Quiet(0)
  BY DEF IInv, Connect, BackupPrerequisites, BeforeLoop, ProgressInv
<1>2. CASE UNCHANGED results /\ pc' \in {"prereq", "next"}
  <2>1. TypeOK'
    BY <1>2 DEF IInv, TypeOK, PC, Connect, BackupPrerequisites
  <2>2. results' = <<>> /\ cur' = 0 /\ Quiet(0)'
    BY <1>1, <1>2 DEF Connect, BackupPrerequisites, Quiet
  <2>. Completed'
    BY <2>2 DEF Completed, AllClear, Quiet
  <2>3. ProgressInv'
    BY <1>2, <2>2 DEF ProgressInv, BeforeLoop, InStatement
  <2>4. RecordsInv' /\ GateHolds'
    BY <1>1, <1>2 DEF IInv, BeforeLoop, Connect, BackupPrerequisites, RecordsInv, Checked, GateHolds, Blocked, Quiet
  <2> QED  BY <2>1, <2>3, <2>4 DEF IInv
<1>3. CASE Break("exec", FALSE) \/ Break("prereq", FALSE)
  BY <1>1, <1>3, BreakBeforeLoop DEF Connect, BackupPrerequisites, Rule
<1> QED  BY <1>2, <1>3 DEF Connect, BackupPrerequisites

(* The gate of Session.Audit.                                               *)
LEMMA GateStep == IInv /\ Gate => IInv'
<1> SUFFICES ASSUME IInv, Gate PROVE IInv'
  OBVIOUS
<1>1. pc = "gate" /\ results = <<>> /\ cur = 0 /\ Quiet(0) /\ records = Checked
  BY DEF IInv, Gate, ProgressInv, BeforeLoop, RecordsInv
<1>2. TypeOK'
  BY DEF IInv, TypeOK, PC, Gate
<1>3. Completed
  BY <1>1 DEF Completed, AllClear
<1>4. ProgressInv'
  BY <1>1, <1>3 DEF Gate, ProgressInv, BeforeLoop, InStatement, Completed, AllClear, Quiet, Ended
<1>5. DOMAIN records = DOMAIN stmts
      /\ \A i \in DOMAIN stmts : records[i].level = level[i] /\ records[i].stage = "CHECKED"
                                 /\ records[i].status \in {"Checked", "CheckedWithWarnings", "CheckFailed"}
  BY <1>1 DEF Checked, makeRecord
<1>6. RecordsInv'
  BY <1>1, <1>5 DEF Gate, RecordsInv, Checked, Honest, Quiet
<1>7. GateHolds'
  BY <1>1, <1>5 DEF Gate, GateHolds, Blocked, Blocks, Quiet
<1> QED  BY <1>2, <1>4, <1>6, <1>7 DEF IInv

(* The head of the loop.                                                    *)
LEMMA NextStatementStep == IInv /\ NextStatement => IInv'
<1> SUFFICES ASSUME IInv, NextStatement PROVE IInv'
  OBVIOUS
<1>1. TypeOK'
  BY DEF IInv, TypeOK, PC, NextStatement
<1>2. pc = "next" /\ cur \in Nat /\ Completed
  BY DEF IInv, TypeOK, NextStatement, ProgressInv
<1>3. ASSUME cur' = cur + 1, pc' \in {"position", "exec"} PROVE ProgressInv'
  <2>1. cur' >= 1 /\ Len(results') = cur' - 1 /\ AllClear(cur - 1)' /\ Quiet(cur - 1)'
    BY <1>2, <1>3 DEF NextStatement, Completed, AllClear, Quiet, NeedsBackup
  <2> QED  BY <1>2, <1>3, <2>1 DEF ProgressInv, BeforeLoop, InStatement
<1>4. ASSUME UNCHANGED cur, pc' = "fold" PROVE ProgressInv'
  <2>1. Completed'
    BY <1>2, <1>4 DEF NextStatement, Completed, AllClear, Quiet, NeedsBackup
  <2> QED  BY <1>4, <2>1 DEF ProgressInv, BeforeLoop, InStatement, Ended
<1>5. ProgressInv'
  BY <1>3, <1>4 DEF NextStatement
<1>6. RecordsInv' /\ GateHolds'
  BY DEF IInv, NextStatement, RecordsInv, Checked, GateHolds, Blocked, Quiet
<1> QED  BY <1>1, <1>5, <1>6 DEF IInv

(* The tail of the loop.                                                    *)
LEMMA executionDelayStep == IInv /\ executionDelay => IInv'
<1> SUFFICES ASSUME IInv, executionDelay PROVE IInv'
  OBVIOUS
<1>1. TypeOK'
  BY DEF IInv, TypeOK, PC, executionDelay
<1>2. ProgressInv'
  BY DEF IInv, executionDelay, ProgressInv, BeforeLoop, InStatement, Completed, AllClear, Quiet, Ended, NeedsBackup
<1>3. RecordsInv' /\ GateHolds'
  BY DEF IInv, executionDelay, RecordsInv, Checked, GateHolds, Blocked, Quiet
<1> QED  BY <1>1, <1>2, <1>3 DEF IInv

(* Records nobody has written to yet say no more than that the statement    *)
(* was checked.                                                             *)
LEMMA CheckedFacts ==
  ASSUME IInv, pc # "done"
  PROVE  \A i \in DOMAIN stmts :
           /\ records[i] \in Record
           /\ records[i].stage = "CHECKED"
           /\ records[i].status \in {"Checked", "CheckedWithWarnings", "CheckFailed"}
BY DEF IInv, TypeOK, RecordsInv, Checked, makeRecord

(* What the two error helpers make of a record. *)
LEMMA ErrorFacts ==
  ASSUME NEW r \in Record
  PROVE  /\ appendExecutionError(r) \in Record
         /\ appendExecutionError(r).stage = "EXECUTED"
         /\ appendExecutionError(r).status = "ExecuteFailed"
         /\ appendBackupError(r) \in Record
         /\ appendBackupError(r).stage = "BACKUP"
         /\ appendBackupError(r).status = "BackupFailed"
<1>1. ASSUME NEW l \in Severity, NEW g \in Stage, NEW t \in Status
      PROVE  [r EXCEPT !.level = l, !.stage = g, !.status = t] \in Record
  BY DEF Record
<1>2. /\ Error \in Severity
      /\ {"EXECUTED", "BACKUP"} \subseteq Stage
      /\ {"ExecuteFailed", "BackupFailed"} \subseteq Status
  BY DEF Severity, Notice, Error, Stage, Status
<1>3. appendExecutionError(r) \in Record /\ appendBackupError(r) \in Record
  BY <1>1, <1>2 DEF appendExecutionError, appendBackupError
<1>4. appendExecutionError(r).stage = "EXECUTED" /\ appendExecutionError(r).status = "ExecuteFailed"
  BY DEF appendExecutionError, Record
<1>5. appendBackupError(r).stage = "BACKUP" /\ appendBackupError(r).status = "BackupFailed"
  BY DEF appendBackupError, Record
<1> QED  BY <1>3, <1>4, <1>5

(* What the copying of a result makes of a record. *)
LEMMA FoldFacts ==
  ASSUME NEW r \in Record, NEW res \in Result
  PROVE  /\ Fold(r, res) \in Record
         /\ Fold(r, res).stage # "CHECKED"
         /\ res.rule = "none" =>
              Fold(r, res).status = IF res.backedUp THEN "BackupSuccessfully" ELSE "ExecuteSuccessfully"
         /\ res.rule = "backup" /\ res.executed => Fold(r, res).status = "BackupFailed"
         /\ res.rule # "none" /\ ~res.executed =>
              Fold(r, res).status = "ExecuteFailed" /\ Fold(r, res).stage = "EXECUTED"
<1>1. CASE res.rule = "backup" /\ res.executed
  BY <1>1, ErrorFacts DEF Fold
<1>2. CASE res.rule # "none" /\ ~(res.rule = "backup" /\ res.executed)
  BY <1>2, ErrorFacts DEF Fold
<1>3. CASE res.rule = "none" /\ res.backedUp
  BY <1>3 DEF Fold, Record, Stage, Status
<1>4. CASE res.rule = "none" /\ ~res.backedUp
  BY <1>4 DEF Fold, Record, Stage, Status
<1> QED  BY <1>1, <1>2, <1>3, <1>4

(* The executor is opened, or the first record says why not.                *)
LEMMA OpenExecutorStep == IInv /\ OpenExecutor => IInv'
<1> SUFFICES ASSUME IInv, OpenExecutor PROVE IInv'
  OBVIOUS
<1>1. pc = "open" /\ results = <<>> /\ cur = 0 /\ Quiet(0) /\ pc' \in {"connect", "done", "panic"}
  BY DEF IInv, OpenExecutor, ProgressInv, BeforeLoop
<1>2. Completed' /\ Quiet(0)' /\ results' = <<>> /\ cur' = 0
  BY <1>1 DEF OpenExecutor, Completed, AllClear, Quiet
<1>3. ProgressInv'
  BY <1>1, <1>2 DEF ProgressInv, BeforeLoop, InStatement, Ended
<1>4. GateHolds'
  BY <1>1 DEF IInv, OpenExecutor, GateHolds, Blocked, Quiet
<1>5. CASE UNCHANGED records /\ pc' # "done"
  <2>1. TypeOK' /\ RecordsInv'
    BY <1>1, <1>5 DEF IInv, OpenExecutor, TypeOK, PC, RecordsInv, Checked
  <2> QED  BY <1>3, <1>4, <2>1 DEF IInv
<1>6. CASE /\ records # <<>> /\ pc' = "done"
           /\ records' = [records EXCEPT ![1] = appendExecutionError(@)]
  <2>1. stmts \in Seq(Kind) /\ DOMAIN records = DOMAIN stmts
    BY DEF IInv, TypeOK
  <2>2. \A i \in DOMAIN stmts : records'[i] \in Record /\
            records'[i].status \in {"Checked", "CheckedWithWarnings", "CheckFailed", "ExecuteFailed"}
    BY <1>1, <1>6, <2>1, CheckedFacts, ErrorFacts
  <2>3. TypeOK'
    BY <1>1, <1>6, <2>1, <2>2 DEF IInv, OpenExecutor, TypeOK, PC
  <2>4. RecordsInv'
    BY <1>1, <1>2, <1>6, <2>2 DEF RecordsInv, Honest, Quiet, OpenExecutor
  <2> QED  BY <1>3, <1>4, <2>3, <2>4 DEF IInv
<1> QED  BY <1>5, <1>6 DEF OpenExecutor

(* A result is copied exactly for the statements up to the first failure. *)
LEMMA FoldResultsStep == IInv /\ FoldResults => IInv'
<1> SUFFICES ASSUME IInv, FoldResults PROVE IInv'
  OBVIOUS
<1>1. pc = "fold" /\ pc' = "done" /\ Ended
  BY DEF IInv, FoldResults, ProgressInv
<1>2. /\ stmts \in Seq(Kind) /\ results \in Seq(Result) /\ cur \in 0 .. Len(stmts)
      /\ DOMAIN stmts = 1 .. Len(stmts) /\ DOMAIN results = 1 .. Len(results)
      /\ DOMAIN records = DOMAIN stmts
      /\ \A k \in DOMAIN results : results[k] \in Result
  BY DEF IInv, TypeOK
<1>3. \A i \in DOMAIN stmts :
        /\ i \in Reported => records'[i] = Fold(records[i], results[i])
        /\ i \notin Reported => records'[i] = records[i]
  BY <1>2 DEF FoldResults
<1>4. \A i \in DOMAIN stmts : records'[i] \in Record
  BY <1>1, <1>2, <1>3, CheckedFacts, FoldFacts DEF Reported
<1>5. TypeOK'
  BY <1>2, <1>4 DEF IInv, TypeOK, PC, FoldResults
<1>6. ProgressInv'
  <2>1. Ended'
    BY <1>1 DEF FoldResults, Ended, Completed, NeverBegan, BackupLost, ExecFailed, Uncertain,
                AllClear, Quiet, NeedsBackup
  <2> QED  BY <1>1, <2>1 DEF ProgressInv, BeforeLoop, InStatement
<1>7. GateHolds'
  BY <1>1 DEF IInv, FoldResults, GateHolds, Blocked, Quiet
<1>8. \A i \in DOMAIN stmts :
        i \notin Reported => records'[i].stage = "CHECKED" /\ records'[i].status \notin
             {"BackupSuccessfully", "ExecuteSuccessfully", "BackupFailed"}
  BY <1>1, <1>3, CheckedFacts
<1>9. \A i \in DOMAIN stmts : i \in Reported =>
        /\ records'[i].stage # "CHECKED"
        /\ results[i].rule = "none" =>
             records'[i].status = IF results[i].backedUp THEN "BackupSuccessfully" ELSE "ExecuteSuccessfully"
        /\ results[i].rule = "backup" /\ results[i].executed => records'[i].status = "BackupFailed"
        /\ results[i].rule # "none" /\ ~results[i].executed =>
             records'[i].status = "ExecuteFailed" /\ records'[i].stage = "EXECUTED"
  <2> SUFFICES ASSUME NEW i \in DOMAIN stmts, i \in Reported
               PROVE  /\ records'[i].stage # "CHECKED"
                      /\ results[i].rule = "none" => records'[i].status =
                           IF results[i].backedUp THEN "BackupSuccessfully" ELSE "ExecuteSuccessfully"
                      /\ results[i].rule = "backup" /\ results[i].executed =>
                           records'[i].status = "BackupFailed"
                      /\ results[i].rule # "none" /\ ~results[i].executed =>
                           records'[i].status = "ExecuteFailed" /\ records'[i].stage = "EXECUTED"
    OBVIOUS
  <2>1. records[i] \in Record /\ results[i] \in Result /\ records'[i] = Fold(records[i], results[i])
    BY <1>1, <1>2, <1>3, CheckedFacts DEF Reported
  <2> QED  BY <2>1, FoldFacts
<1>10. UNCHANGED <<opts, stmts, level, cur, results, ctx, wire, applied, saved>>
  BY DEF FoldResults
<1>11. RecordsInv'
  <2>1. CASE Completed
    <3>1. Reported = 1 .. cur /\ applied = 1 .. cur /\ wire = "idle"
      BY <1>2, <2>1 DEF Reported, Completed, AllClear, Quiet
    <3>2. \A i \in DOMAIN stmts : Honest(i)'
      BY <1>2, <1>8, <1>9, <1>10, <2>1, <3>1 DEF Honest, Completed, AllClear, NeedsBackup
    <3> QED  BY <1>1, <1>10, <3>1, <3>2 DEF RecordsInv
  <2>2. CASE NeverBegan
    <3>1. Reported = {1} /\ applied = {} /\ wire = "idle"
      BY <1>2, <2>2 DEF Reported, NeverBegan, Quiet
    <3>2. \A i \in DOMAIN stmts : Honest(i)'
      BY <1>2, <1>8, <1>9, <1>10, <2>2, <3>1 DEF Honest, NeverBegan, NeedsBackup
    <3> QED  BY <1>1, <1>10, <3>1, <3>2 DEF RecordsInv
  <2>3. CASE BackupLost
    <3>1. Reported = 1 .. cur /\ applied = 1 .. cur /\ wire = "idle"
      BY <1>2, <2>3 DEF Reported, BackupLost, AllClear, Quiet
    <3>2. \A i \in DOMAIN stmts : Honest(i)'
      BY <1>2, <1>8, <1>9, <1>10, <2>3, <3>1 DEF Honest, BackupLost, AllClear, NeedsBackup
    <3> QED  BY <1>1, <1>10, <3>1, <3>2 DEF RecordsInv
  <2>4. CASE ExecFailed
    <3>1. Reported = 1 .. cur /\ applied \subseteq 1 .. cur /\ 1 .. cur - 1 \subseteq applied
      BY <1>2, <2>4 DEF Reported, ExecFailed, AllClear, Uncertain
    <3>2. cur \in DOMAIN stmts /\ records'[cur].status = "ExecuteFailed" /\ records'[cur].stage = "EXECUTED"
      BY <1>2, <1>9, <2>4, <3>1 DEF ExecFailed
    <3>3. \A i \in DOMAIN stmts : Honest(i)'
      BY <1>2, <1>8, <1>9, <1>10, <2>4, <3>1, <3>2 DEF Honest, ExecFailed, AllClear, NeedsBackup
    <3> QED  BY <1>1, <1>10, <3>2, <3>3 DEF RecordsInv
  <2> QED  BY <1>1, <2>1, <2>2, <2>3, <2>4 DEF Ended
<1> QED  BY <1>5, <1>6, <1>7, <1>11 DEF IInv

(* The target acts on the statement it holds, whatever the engine does. *)
LEMMA TargetStep == IInv /\ (TargetApplies \/ TargetRefuses) => IInv'
<1> SUFFICES ASSUME IInv, TargetApplies \/ TargetRefuses PROVE IInv'
  OBVIOUS
<1>1. /\ wire = "sent" /\ wire' \in {"applied", "refused"}
      /\ applied' = IF wire' = "applied" THEN applied \cup {cur} ELSE applied
      /\ UNCHANGED <<opts, stmts, level, pc, cur, results, records, ctx, saved>>
  BY DEF TargetApplies, TargetRefuses
<1>2. pc \in {"wait", "fold", "done", "panic"}
  BY <1>1 DEF IInv, TypeOK, PC, ProgressInv, BeforeLoop, InStatement, Completed, Quiet
<1>3. pc # "wait" => ExecFailed
  BY <1>1, <1>2 DEF IInv, ProgressInv, Ended, Completed, NeverBegan, BackupLost, Quiet
<1>4. cur \in 1 .. Len(stmts) /\ DOMAIN stmts = 1 .. Len(stmts) /\ Uncertain
  BY <1>2, <1>3 DEF IInv, TypeOK, ProgressInv, InStatement, ExecFailed
<1>5. TypeOK'
  BY <1>1, <1>4 DEF IInv, TypeOK
<1>6. Uncertain'
  <2>1. 1 .. cur = (1 .. cur - 1) \cup {cur} /\ applied = 1 .. cur - 1
    BY <1>1, <1>4 DEF Uncertain
  <2> QED  BY <1>1, <2>1 DEF Uncertain
<1>7. pc # "wait" => ExecFailed'
  BY <1>1, <1>3, <1>6 DEF ExecFailed, AllClear, NeedsBackup
<1>8. ProgressInv'
  BY <1>1, <1>2, <1>6, <1>7 DEF IInv, ProgressInv, BeforeLoop, InStatement, Ended, AllClear, NeedsBackup
<1>9. RecordsInv'
  <2>1. pc # "done" => records' = Checked'
    BY <1>1 DEF IInv, RecordsInv, Checked
  <2>2. ASSUME pc = "done", NEW i \in DOMAIN stmts PROVE Honest(i)'
    <3>1. Honest(i) /\ records[cur].status = "ExecuteFailed" /\ records[cur].stage = "EXECUTED"
      BY <1>1, <2>2 DEF IInv, RecordsInv
    <3>2. i # cur => (i \in applied <=> i \in applied')
      BY <1>1
    <3> QED  BY <1>1, <3>1, <3>2 DEF Honest, NeedsBackup
  <2> QED  BY <1>1, <2>1, <2>2 DEF RecordsInv
<1>10. GateHolds'
  BY <1>1, <1>2 DEF IInv, GateHolds, Blocked, Quiet
<1> QED  BY <1>5, <1>8, <1>9, <1>10 DEF IInv

(* The context, and steps that change nothing. *)
LEMMA CancelStep == IInv /\ (Cancel \/ UNCHANGED vars) => IInv'
<1> SUFFICES ASSUME IInv, Cancel \/ UNCHANGED vars PROVE IInv'
  OBVIOUS
<1>1. /\ ctx' \in {"live", "done"}
      /\ UNCHANGED <<opts, stmts, level, pc, cur, results, records, wire, applied, saved>>
  BY DEF Cancel, vars, IInv, TypeOK
<1>2. TypeOK'
  BY <1>1 DEF IInv, TypeOK
<1>3. Completed' = Completed /\ NeverBegan' = NeverBegan /\ BackupLost' = BackupLost /\ ExecFailed' = ExecFailed
  BY <1>1 DEF Completed, NeverBegan, BackupLost, ExecFailed, AllClear, Quiet, Uncertain, NeedsBackup
<1>4. ProgressInv'
  BY <1>1, <1>3 DEF IInv, ProgressInv, Ended, AllClear, Quiet, Uncertain, NeedsBackup
<1>5. RecordsInv' /\ GateHolds'
  BY <1>1 DEF IInv, RecordsInv, Checked, Honest, NeedsBackup, GateHolds, Blocked, Quiet
<1> QED  BY <1>2, <1>4, <1>5 DEF IInv

(* Every step of the request preserves the invariant. *)
LEMMA NextInv == IInv /\ [Next]_vars => IInv'
BY GateStep, OpenExecutorStep, ConnectStep, NextStatementStep, StartPositionStep, PrepareRollbackStep,
   SendStatementStep, ReplyStep, StopWaitingStep, EndPositionStep, CollectRowsStep, GenerateRollbackStep,
   SaveRollbackStep, executionDelayStep, FoldResultsStep, TargetStep, CancelStep
   DEF Next, EngineStep, Terminated

(* The invariant holds throughout a request.                                *)
LEMMA Invariance == Spec => []IInv
<1>1. Init => IInv
  BY InitInv
<1>2. IInv /\ [Next]_vars => IInv'
  BY NextInv
<1> QED  BY <1>1, <1>2, PTL DEF Spec

(* The state of a request keeps its types, whatever the batch. *)
THEOREM TypeCorrect == Spec => []TypeOK
<1>1. IInv => TypeOK
  BY DEF IInv
<1> QED  BY <1>1, Invariance, PTL

(* A batch that Session.Audit must stop never touches the target.           *)
THEOREM GateCorrect == Spec => []GateProtectsTarget
<1>1. IInv => GateProtectsTarget
  <2> SUFFICES ASSUME IInv, Blocked PROVE applied = {} /\ wire = "idle"
    BY DEF GateProtectsTarget, Blocked
  <2>1. Quiet(0)
    BY DEF IInv, GateHolds, ProgressInv, BeforeLoop
  <2> QED  BY <2>1 DEF Quiet
<1> QED  BY <1>1, Invariance, PTL

(* Statements take effect in order, each behind the rollback of every       *)
(* earlier one.                                                             *)
THEOREM OrderCorrect == Spec => []AtMostLastUnprotected
<1>1. IInv => AtMostLastUnprotected
  <2> SUFFICES ASSUME IInv, NEW i \in applied, NEW j \in 1 .. i - 1
               PROVE  j \in applied /\ (NeedsBackup(j) => j \in saved)
    BY DEF AtMostLastUnprotected
  <2>1. i \in DOMAIN stmts /\ DOMAIN stmts = 1 .. Len(stmts) /\ cur \in 0 .. Len(stmts) /\ Len(stmts) \in Nat
    BY DEF IInv, TypeOK
  <2>2. \/ applied = {}
        \/ applied = 1 .. cur /\ AllClear(cur)
        \/ applied \in {1 .. cur, 1 .. cur - 1} /\ AllClear(cur - 1)
    <3>1. CASE pc \in BeforeLoop
      BY <3>1 DEF IInv, ProgressInv, Quiet
    <3>2. CASE pc \in {"next", "delay"}
      BY <3>2 DEF IInv, ProgressInv, Completed, Quiet
    <3>3. CASE pc \in InStatement
      BY <3>3 DEF IInv, ProgressInv, InStatement, Quiet, Uncertain
    <3>4. CASE pc \in {"fold", "done", "panic"}
      BY <3>4 DEF IInv, ProgressInv, Ended, Completed, NeverBegan, BackupLost, ExecFailed, Quiet, Uncertain
    <3> QED  BY <3>1, <3>2, <3>3, <3>4 DEF IInv, TypeOK, PC, BeforeLoop, InStatement
  <2> QED  BY <2>1, <2>2 DEF AllClear
<1> QED  BY <1>1, Invariance, PTL

(* The answer claims nothing about a statement that is not so.              *)
THEOREM ReportCorrect == Spec => []HonestReport
<1>1. IInv => HonestReport
  BY DEF IInv, RecordsInv, HonestReport
<1> QED  BY <1>1, Invariance, PTL

(* Once the request is answered, only the statement it reports as failed    *)
(* can still take effect.                                                   *)
THEOREM LateEffectCorrect == Spec => LateEffectOnlyOnFailed
<1> DEFINE Late == pc = "done" => \A i \in applied' \ applied : records[i].status = "ExecuteFailed"
<1>1. IInv /\ [Next]_vars => [Late]_vars
  <2> SUFFICES ASSUME IInv, Next, pc = "done", NEW i \in applied' \ applied
               PROVE  records[i].status = "ExecuteFailed"
    OBVIOUS
  <2>1. TargetApplies
    BY DEF Next, EngineStep, Gate, OpenExecutor, Connect, BackupPrerequisites, NextStatement, StartPosition,
           PrepareRollback, SendStatement, Reply, StopWaiting, EndPosition, CollectRows, GenerateRollback,
           SaveRollback, executionDelay, FoldResults, TargetRefuses, Cancel, Terminated, vars
  <2>2. wire = "sent" /\ i = cur
    BY <2>1 DEF TargetApplies
  <2> QED  BY <2>2 DEF IInv, RecordsInv
<1> QED  BY <1>1, Invariance, PTL DEF Spec, LateEffectOnlyOnFailed

=============================================================================
