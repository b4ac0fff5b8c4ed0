---------------------------- MODULE MCJitKernels ----------------------------
(***************************************************************************)
(* Instances of JitKernels for TLC: two field names, two comparisons and a *)
(* code that cannot be compiled.                                           *)
(***************************************************************************)
EXTENDS JitKernels, TLC

CONSTANTS A, B, lt, gt, string

\* The two names are alike, and so are the two comparisons.
Alike == Permutations({A, B}) \cup Permutations({lt, gt})
=============================================================================
