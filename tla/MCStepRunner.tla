---------------------------- MODULE MCStepRunner ----------------------------
(* Every graph on three steps, cyclic and dangling ones included; the      *)
(* steps are interchangeable.                                              *)
EXTENDS StepRunner, TLC

Symmetry == Permutations(Steps)
=============================================================================
