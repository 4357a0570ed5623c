----------------------------- MODULE MCQuantum -----------------------------
(* Small instances of Quantum for TLC. *)
EXTENDS QuantumPropiedades, TLC

CONSTANTS p1, p2, p3, k1, k2, k3

Simetria == Permutations(Procesos) \cup Permutations(Hilos)
=============================================================================
