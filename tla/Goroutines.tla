----------------------------- MODULE Goroutines -----------------------------
(* The request goroutines that Bulkhead and CircuitBreaker share. *)
EXTENDS Integers, FiniteSets

CONSTANT Callers

ASSUME CallersAssumption == IsFiniteSet(Callers)
=============================================================================
