---------------------------- MODULE MCModelHost ----------------------------
(* Small instances of the model host: a few invocations, one model.        *)
EXTENDS ModelHost, TLC

CallerSymmetry == Permutations(Caller)
=============================================================================
