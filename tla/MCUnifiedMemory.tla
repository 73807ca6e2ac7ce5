-------------------------- MODULE MCUnifiedMemory --------------------------
(* Configurations of UnifiedMemory for TLC, in units of about 8 GiB. *)
EXTENDS UnifiedMemory

\* Upstream defaults: no floor, every ceiling.
Balanced ==
    [cuda |-> 14, host |-> 15, reserve |-> 2, deducted |-> 3, weaker |-> 0, slack |-> 1,
     requested |-> 9, weights |-> 5, loadPeak |-> 4, profilePeak |-> 1, kv |-> 3, graphs |-> 1,
     activation |-> 1, others |-> 0 .. 6, floor |-> FALSE, loadCeiling |-> TRUE,
     fixed |-> TRUE, eager |-> FALSE]

\* A floor and no ceiling while loading; the same on the stronger hosts of a fleet;
\* and a floor whose deduction is less than the reserve.
Fast == [Balanced EXCEPT !.floor = TRUE, !.loadCeiling = FALSE]
Stronger == [Fast EXCEPT !.weaker = 1]
Large == [Balanced EXCEPT !.floor = TRUE, !.reserve = 4, !.weights = 4, !.activation = 2,
                           !.others = 0 .. 3]

\* The KV cache sized by profiling, without graphs.
Measured == [Balanced EXCEPT !.fixed = FALSE, !.eager = TRUE]
MeasuredFast == [Fast EXCEPT !.fixed = FALSE]

\* Loading fills the pool up to the reserve; forward passes ask for all there is.
Brim == [Fast EXCEPT !.loadPeak = 7, !.others = 0 .. 2]
Greedy == [Fast EXCEPT !.activation = 4, !.deducted = 2, !.others = 0 .. 2]

\* Reserves that are refused.
Zero == [Balanced EXCEPT !.reserve = 0]
Whole == [Balanced EXCEPT !.reserve = 14]

All == {Balanced, Fast, Stronger, Large, Brim, Greedy, Measured, MeasuredFast, Zero, Whole}
=============================================================================
