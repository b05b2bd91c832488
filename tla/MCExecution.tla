---------------------------- MODULE MCExecution ----------------------------
(* Small batches for Execution: all of length at most 2, and those of three *)
(* statements over the kinds that differ on the backup path.                *)
EXTENDS Execution

MCBatches == UNION {[1 .. n -> Kind] : n \in 0 .. 2}
               \cup [1 .. 3 -> {"use", "dml", "ddl"}]
=============================================================================
