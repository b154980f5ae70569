---------------------------- MODULE MCScheduler ----------------------------
(* Instances of Lifecycle for TLC: the identities of fibers are              *)
(* interchangeable where no liveness property is checked.                    *)
EXTENDS Lifecycle

FiberSymmetry == Permutations(Fibers)
=============================================================================
