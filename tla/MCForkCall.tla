---------------------------- MODULE MCForkCall ----------------------------
(* ForkCall on a few processes.  No constant of it needs a definition.     *)
EXTENDS ForkCall, TLC

(* Process ids are interchangeable.                                        *)
PidSymmetry == Permutations(Pids)
===========================================================================
