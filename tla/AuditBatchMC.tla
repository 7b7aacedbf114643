--------------------------- MODULE AuditBatchMC ---------------------------
(***************************************************************************)
(* Five kinds of invocation: as the README has it, one that goes on after  *)
(* a failure, one of the second task only, a dry run and retry_failed.sh.  *)
(***************************************************************************)
EXTENDS AuditBatch, TLC

Usual == [only |-> 0, resume |-> TRUE, goOn |-> FALSE, dryRun |-> FALSE,
          savePartial |-> TRUE, retry |-> FALSE]

Nights ==
    { Usual,
      [Usual EXCEPT !.goOn = TRUE, !.resume = FALSE],
      [Usual EXCEPT !.only = 2, !.savePartial = FALSE],
      [Usual EXCEPT !.dryRun = TRUE],
      [Usual EXCEPT !.retry = TRUE, !.goOn = TRUE] }

(* Too short; long enough but flawed; a report.                            *)
Texts ==
    { [lines |-> 1, sound |-> TRUE],
      [lines |-> 2, sound |-> FALSE],
      [lines |-> 2, sound |-> TRUE] }

Interchangeable == Permutations(Runs)
=============================================================================
