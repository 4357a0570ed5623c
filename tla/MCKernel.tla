------------------------------ MODULE MCKernel ------------------------------
(* Small instances of the Kernel for TLC. *)
EXTENDS KernelPropiedades, TLC

CONSTANTS p1, p2, p3

Simetria == Permutations(Procesos)
=============================================================================
