----------------------------- MODULE Execution -----------------------------
(***************************************************************************)
(* The execution half of one request: the batch gate of Session.Audit, the  *)
(* statement loop of Engine.Execute on its single target connection, and    *)
(* the copying of the engine's results back into the audit records.         *)
(*                                                                          *)
(* Three actors interleave: the engine, the target MySQL server (which may  *)
(* still apply a statement whose caller has stopped waiting for it) and the *)
(* request context (cancelled by audit_timeout, KILL QUERY or shutdown).    *)
(***************************************************************************)
EXTENDS Naturals, Sequences

CONSTANTS Batches,      \* the parsed batches considered, sequences of Kind
          MaxSleepRows  \* largest sleep_rows directive considered

(***************************************************************************)
(* What the executor distinguishes in a statement: USE and SELECT are never *)
(* backed up; prepareDDLRollback knows an inverse for "ddl" and refuses     *)
(* "lossy" (DROP DATABASE, TRUNCATE, DROP INDEX, destructive ALTER).        *)
(***************************************************************************)
Kind == {"use", "select", "dml", "ddl", "lossy"}

ASSUME BatchesAssumption == Batches \subseteq Seq(Kind)
ASSUME SleepRowsAssumption == MaxSleepRows \in Nat

Notice  == 0
Warning == 1
Error   == 2
Severity == Notice .. Error

Options == [backup : BOOLEAN, ignoreWarnings : BOOLEAN,
            sleepRows : 0 .. MaxSleepRows]

(***************************************************************************)
(* An AuditRecord, reduced to what is reported about the outcome.           *)
(***************************************************************************)
Stage  == {"CHECKED", "EXECUTED", "BACKUP"}
Status == {"Checked", "CheckedWithWarnings", "CheckFailed",
           "ExecuteSuccessfully", "ExecuteFailed",
           "BackupSuccessfully", "BackupFailed"}
Record == [level : Severity, stage : Stage, status : Status]

(***************************************************************************)
(* An ExecutionResult.  results[k] is about statement k: the parser numbers *)
(* statements from 1, the loop appends one result per statement, and a      *)
(* failure before the loop is a single result with Sequence 1.  rule "none" *)
(* means an empty Error; "exec" an Error whose RuleID defaults to the       *)
(* execution rule.                                                          *)
(***************************************************************************)
Rule   == {"none", "exec", "prereq", "backup"}
Result == [executed : BOOLEAN, rule : Rule, backedUp : BOOLEAN]

PC == {"gate", "open", "connect", "prereq", "next", "position", "prepare",
       "exec", "wait", "end", "collect", "generate", "save", "delay",
       "fold", "done", "panic"}

VARIABLES
  opts,     \* RequestOptions
  stmts,    \* parseResult.Statements
  level,    \* ErrorLevel the audit gave each statement
  pc,       \* where Audit / Execute stands
  cur,      \* index of the statement the loop is at
  results,  \* []model.ExecutionResult
  records,  \* []model.AuditRecord
  ctx,      \* "live" or "done"
  wire,     \* the last statement sent on the connection, as the target sees it
  applied,  \* statements the target has carried out
  saved     \* statements whose rollback is complete in the backup store

vars == <<opts, stmts, level, pc, cur, results, records, ctx, wire, applied, saved>>

(***************************************************************************)
(* With backup=1 every statement but USE and SELECT takes the backup path.  *)
(***************************************************************************)
NeedsBackup(i) == opts.backup /\ stmts[i] \notin {"use", "select"}

----------------------------------------------------------------------------
(* makeRecord, on the level the audit loop arrived at. *)
makeRecord(l) ==
  [level  |-> l, stage |-> "CHECKED",
   status |-> IF l = Error THEN "CheckFailed"
              ELSE IF l = Warning THEN "CheckedWithWarnings"
              ELSE "Checked"]

appendExecutionError(r) ==
  [r EXCEPT !.level = Error, !.stage = "EXECUTED", !.status = "ExecuteFailed"]

appendBackupError(r) ==
  [r EXCEPT !.level = Error, !.stage = "BACKUP", !.status = "BackupFailed"]

Init ==
  /\ stmts \in Batches
  /\ opts \in Options
  /\ level \in [DOMAIN stmts -> Severity]
  /\ pc = "gate"
  /\ cur = 0
  /\ results = <<>>
  /\ records = [i \in DOMAIN stmts |-> makeRecord(level[i])]
  /\ ctx = "live"
  /\ wire = "idle"
  /\ applied = {}
  /\ saved = {}

----------------------------------------------------------------------------
(* The gate of Session.Audit: one Error, or one Warning that the request    *)
(* does not ignore, and nothing of the batch is executed.                   *)
BlocksOnErrorOnly(r) == r.level = Error
Blocks(r) == r.level = Error \/ (r.level = Warning /\ ~opts.ignoreWarnings)

Gate ==
  /\ pc = "gate"
  /\ pc' = IF \E i \in DOMAIN records : Blocks(records[i]) THEN "done" ELSE "open"
  /\ UNCHANGED <<opts, stmts, level, cur, results, records, ctx, wire, applied, saved>>

(* openExecutor dials and pings the target.  Its failure is written into    *)
(* records[0], which a batch without statements does not have.              *)
OpenExecutor ==
  /\ pc = "open"
  /\ \/ /\ ctx = "live"
        /\ pc' = "connect"
        /\ UNCHANGED records
     \/ /\ records # <<>>
        /\ records' = [records EXCEPT ![1] = appendExecutionError(@)]
        /\ pc' = "done"
     \/ /\ records = <<>>
        /\ pc' = "panic"
        /\ UNCHANGED records
  /\ UNCHANGED <<opts, stmts, level, cur, results, ctx, wire, applied, saved>>

(* The result of the current statement carries an Error: it is the last one *)
(* appended and the loop is left.                                           *)
BreakUnlessExecuted(rule, executed) ==
  /\ results' = Append(results, [executed |-> executed, rule |-> rule, backedUp |-> FALSE])
  /\ pc' = IF executed THEN "delay" ELSE "fold"
Break(rule, executed) ==
  /\ results' = Append(results, [executed |-> executed, rule |-> rule, backedUp |-> FALSE])
  /\ pc' = "fold"

(* db.Conn and configureSession. *)
Connect ==
  /\ pc = "connect"
  /\ \/ /\ ctx = "live"
        /\ pc' = IF opts.backup THEN "prereq" ELSE "next"
        /\ UNCHANGED results
     \/ Break("exec", FALSE)
  /\ UNCHANGED <<opts, stmts, level, cur, records, ctx, wire, applied, saved>>

(* Binlog settings, backup account, backup store reachable, CONNECTION_ID. *)
BackupPrerequisites ==
  /\ pc = "prereq"
  /\ \/ /\ ctx = "live"
        /\ pc' = "next"
        /\ UNCHANGED results
     \/ Break("prereq", FALSE)
  /\ UNCHANGED <<opts, stmts, level, cur, records, ctx, wire, applied, saved>>

NextStatementOffByOne ==
  /\ pc = "next"
  /\ cur <= Len(stmts)
  /\ cur' = cur + 1
  /\ pc' = "exec"
  /\ UNCHANGED <<opts, stmts, level, results, records, ctx, wire, applied, saved>>
NextStatement ==
  /\ pc = "next"
  /\ \/ /\ cur < Len(stmts)
        /\ cur' = cur + 1
        /\ pc' = IF NeedsBackup(cur + 1) THEN "position" ELSE "exec"
     \/ /\ cur = Len(stmts)
        /\ pc' = "fold"
        /\ UNCHANGED cur
  /\ UNCHANGED <<opts, stmts, level, results, records, ctx, wire, applied, saved>>

(* MasterPosition before the statement. *)
StartPosition ==
  /\ pc = "position"
  /\ \/ /\ ctx = "live"
        /\ pc' = "prepare"
        /\ UNCHANGED results
     \/ Break("prereq", FALSE)
  /\ UNCHANGED <<opts, stmts, level, cur, records, ctx, wire, applied, saved>>

(* prepareDDLRollback: nothing to do for DML, an error for the lossy kinds; *)
(* for DROP TABLE it queries SHOW CREATE TABLE, which may fail.             *)
PrepareRollback ==
  /\ pc = "prepare"
  /\ \/ /\ stmts[cur] # "lossy"
        /\ pc' = "exec"
        /\ UNCHANGED results
     \/ /\ stmts[cur] # "dml"
        /\ Break("backup", FALSE)
  /\ UNCHANGED <<opts, stmts, level, cur, records, ctx, wire, applied, saved>>

(* ExecContext, first half: the statement leaves, unless ctx is done.       *)
SendStatement ==
  /\ pc = "exec"
  /\ \/ /\ ctx = "live"
        /\ wire' = "sent"
        /\ pc' = "wait"
        /\ UNCHANGED results
     \/ /\ ctx = "done"
        /\ Break("exec", FALSE)
        /\ UNCHANGED wire
  /\ UNCHANGED <<opts, stmts, level, cur, records, ctx, applied, saved>>

(* The target carries out or refuses the statement it holds.                *)
TargetApplies ==
  /\ wire = "sent"
  /\ wire' = "applied"
  /\ applied' = applied \cup {cur}
  /\ UNCHANGED <<opts, stmts, level, pc, cur, results, records, ctx, saved>>

TargetRefuses ==
  /\ wire = "sent"
  /\ wire' = "refused"
  /\ UNCHANGED <<opts, stmts, level, pc, cur, results, records, ctx, applied, saved>>

(* ExecContext, second half: the answer arrives.                            *)
Reply ==
  /\ pc = "wait"
  /\ \/ /\ wire = "applied"
        /\ \/ /\ NeedsBackup(cur)
              /\ pc' = "end"
              /\ UNCHANGED results
           \/ /\ ~NeedsBackup(cur)
              /\ results' = Append(results, [executed |-> TRUE, rule |-> "none", backedUp |-> FALSE])
              /\ pc' = "delay"
     \/ /\ wire = "refused"
        /\ Break("exec", FALSE)
  /\ wire' = "idle"
  /\ UNCHANGED <<opts, stmts, level, cur, records, ctx, applied, saved>>

(* ... or the engine stops waiting: ctx is done or the connection broke.    *)
(* What the target does with the statement is not known to it.              *)
StopWaitingWithoutResult ==
  /\ pc = "wait"
  /\ pc' = "fold"
  /\ UNCHANGED <<opts, stmts, level, cur, results, records, ctx, wire, applied, saved>>
StopWaitingIgnoresCtx ==
  /\ pc = "wait"
  /\ ctx = "live"
  /\ Break("exec", FALSE)
  /\ UNCHANGED <<opts, stmts, level, cur, records, ctx, wire, applied, saved>>
StopWaiting ==
  /\ pc = "wait"
  /\ Break("exec", FALSE)
  /\ UNCHANGED <<opts, stmts, level, cur, records, ctx, wire, applied, saved>>

(* MasterPosition after the statement. *)
EndPosition ==
  /\ pc = "end"
  /\ \/ /\ ctx = "live"
        /\ pc' = IF stmts[cur] = "dml" THEN "collect" ELSE "save"
        /\ UNCHANGED results
     \/ Break("backup", TRUE)
  /\ UNCHANGED <<opts, stmts, level, cur, records, ctx, wire, applied, saved>>

(* capture.Collect (module BinlogCapture); it asks nobody, and so ignores   *)
(* ctx, when no row was affected.                                           *)
CollectRows ==
  /\ pc = "collect"
  /\ \/ /\ pc' = "generate"
        /\ UNCHANGED results
     \/ Break("backup", TRUE)
  /\ UNCHANGED <<opts, stmts, level, cur, records, ctx, wire, applied, saved>>

(* rollback.Generate for every captured row. *)
GenerateRollback ==
  /\ pc = "generate"
  /\ \/ /\ pc' = "save"
        /\ UNCHANGED results
     \/ Break("backup", TRUE)
  /\ UNCHANGED <<opts, stmts, level, cur, records, ctx, wire, applied, saved>>

(* store.Save (module BackupStore): an error does not tell whether the last *)
(* commit took effect.                                                      *)
SaveRollback ==
  /\ pc = "save"
  /\ \/ /\ ctx = "live"
        /\ saved' = saved \cup {cur}
        /\ results' = Append(results, [executed |-> TRUE, rule |-> "none", backedUp |-> TRUE])
        /\ pc' = "delay"
     \/ /\ saved' \in {saved, saved \cup {cur}}
        /\ Break("backup", TRUE)
  /\ UNCHANGED <<opts, stmts, level, cur, records, ctx, wire, applied>>

(* executionDelay: sleeps after every sleep_rows-th result, starting with   *)
(* the first; only a sleeping engine notices that ctx is done here.         *)
Sleeps == opts.sleepRows > 0 /\ (Len(results) - 1) % opts.sleepRows = 0

executionDelay ==
  /\ pc = "delay"
  /\ \/ pc' = "next"
     \/ /\ Sleeps
        /\ ctx = "done"
        /\ pc' = "fold"
  /\ UNCHANGED <<opts, stmts, level, cur, results, records, ctx, wire, applied, saved>>

----------------------------------------------------------------------------
(* The loop of Session.Audit over the results, which stops after the first  *)
(* error and skips results without a record.                                *)
FoldTrustsExecution(r, res) ==
  IF res.rule # "none" /\ ~res.executed THEN appendExecutionError(r)
  ELSE IF res.backedUp THEN [r EXCEPT !.stage = "BACKUP", !.status = "BackupSuccessfully"]
  ELSE [r EXCEPT !.stage = "EXECUTED", !.status = "ExecuteSuccessfully"]
Fold(r, res) ==
  IF res.rule = "backup" /\ res.executed THEN appendBackupError(r)
  ELSE IF res.rule # "none" THEN appendExecutionError(r)
  ELSE IF res.backedUp THEN [r EXCEPT !.stage = "BACKUP", !.status = "BackupSuccessfully"]
  ELSE [r EXCEPT !.stage = "EXECUTED", !.status = "ExecuteSuccessfully"]

Reported == {k \in DOMAIN results : \A j \in 1 .. k - 1 : results[j].rule = "none"}

FoldResults ==
  /\ pc = "fold"
  /\ records' = [i \in DOMAIN records |->
                   IF i \in Reported THEN Fold(records[i], results[i]) ELSE records[i]]
  /\ pc' = "done"
  /\ UNCHANGED <<opts, stmts, level, cur, results, ctx, wire, applied, saved>>

(* audit_timeout, KILL QUERY or KILL CONNECTION, or the server's own stop.  *)
Cancel ==
  /\ ctx = "live"
  /\ pc \notin {"done", "panic"}
  /\ ctx' = "done"
  /\ UNCHANGED <<opts, stmts, level, pc, cur, results, records, wire, applied, saved>>

(* The request is answered and the target holds nothing of it.              *)
Terminated ==
  /\ pc \in {"done", "panic"}
  /\ wire # "sent"
  /\ UNCHANGED vars

EngineStep ==
  \/ Gate \/ OpenExecutor \/ Connect \/ BackupPrerequisites
  \/ NextStatement \/ StartPosition \/ PrepareRollback
  \/ SendStatement \/ Reply \/ StopWaiting
  \/ EndPosition \/ CollectRows \/ GenerateRollback \/ SaveRollback
  \/ executionDelay \/ FoldResults

Next == EngineStep \/ TargetApplies \/ TargetRefuses \/ Cancel \/ Terminated

Spec == Init /\ [][Next]_vars

(***************************************************************************)
(* The goroutine runs whenever a call of it can return.  Remote calls are   *)
(* given no fairness: a target or a backup server may stay silent for ever. *)
(* Every one of them takes ctx, so it does return once ctx is done.         *)
(***************************************************************************)
LocalStep == Gate \/ NextStatement \/ SendStatement \/ GenerateRollback
             \/ executionDelay \/ FoldResults

Fairness == WF_vars(LocalStep) /\ WF_vars(ctx = "done" /\ EngineStep)

FairSpec == Spec /\ Fairness

----------------------------------------------------------------------------
TypeOK ==
  /\ stmts \in Seq(Kind)
  /\ opts \in Options
  /\ level \in [DOMAIN stmts -> Severity]
  /\ pc \in PC
  /\ cur \in 0 .. Len(stmts)
  /\ results \in Seq(Result)
  /\ records \in [DOMAIN stmts -> Record]
  /\ ctx \in {"live", "done"}
  /\ wire \in {"idle", "sent", "applied", "refused"}
  /\ applied \subseteq DOMAIN stmts
  /\ saved \subseteq DOMAIN stmts

(* A batch the gate must stop changes nothing on the target, however the    *)
(* rest of the request unfolds (docs/PHASE_1_5: with an Error in the batch  *)
(* no statement is executed).                                               *)
GateProtectsTarget ==
  (\E i \in DOMAIN stmts :
      level[i] = Error \/ (level[i] = Warning /\ ~opts.ignoreWarnings))
    => applied = {} /\ wire = "idle"

(* Statements reach the target in order, and when one does, every earlier   *)
(* one has been applied and, if it takes the backup path, its rollback is   *)
(* complete in the store: at most the last applied statement is unprotected.*)
AtMostLastUnprotected ==
  \A i \in applied : \A j \in 1 .. i - 1 :
     j \in applied /\ (NeedsBackup(j) => j \in saved)

(* What the answer says is so: success is reported only for what the target *)
(* applied and, on the backup path, the store holds; BackupFailed only for  *)
(* an applied statement; and a statement still reported as merely checked   *)
(* has not been applied.                                                    *)
Honest(i) ==
  /\ records[i].status = "BackupSuccessfully" => i \in applied /\ i \in saved
  /\ records[i].status = "ExecuteSuccessfully" => i \in applied /\ ~NeedsBackup(i)
  /\ records[i].status = "BackupFailed" => i \in applied /\ NeedsBackup(i)
  /\ records[i].stage = "CHECKED" => i \notin applied
HonestReport == pc = "done" => \A i \in DOMAIN stmts : Honest(i)

(* After the answer, the target may still change only through the one       *)
(* statement whose record says ExecuteFailed (its connection was given up). *)
LateEffectOnlyOnFailed ==
  [][pc = "done" => \A i \in applied' \ applied : records[i].status = "ExecuteFailed"]_vars

(* A cancelled request is answered even if no server ever replies again.    *)
CancelledRequestEnds == (ctx = "done") ~> (pc \in {"done", "panic"})
=============================================================================
