------------------------------ MODULE MCKernelLocks ------------------------------
EXTENDS KernelLocks, TLC
CONSTANTS a1, a2, b1
MCCoreOf == (a1 :> 0) @@ (a2 :> 0) @@ (b1 :> 1)
SameCore == Permutations({a1, a2})
================================================================================
