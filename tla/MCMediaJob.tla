----------------------------- MODULE MCMediaJob -----------------------------
(* MediaJob for TLC: two workers, or one where a single one shows it. *)
EXTENDS MediaJob

CONSTANTS w1, w2

TwoWorkers == {w1, w2}
OneWorker == {w1}

=============================================================================
