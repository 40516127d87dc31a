------------------------- MODULE MCBatchController -------------------------
(* Small instances of the batch controller and its store.                  *)
EXTENDS BatchController, TLC

\* Of the jobs that nothing refers to, it makes no difference which one
\* FreshJob takes, and no text names the job it comes from.
JobSymmetry == Permutations(Job)

\* What a run depends on: no step reads the table of the Batch page.
WithoutTable == <<disk, unopened, current, flags, control, live, model>>

\* Bound: the file always opens, or there is one document and no more.  No handler
\* can go on only with a file that does not open: this stops no fair step.
OpensOrAlone == unopened' = 0 \/ Cardinality(added') <= 1
=============================================================================
