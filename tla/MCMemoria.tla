----------------------------- MODULE MCMemoria -----------------------------
(* Instances of the virtual memory for TLC. *)
EXTENDS MemoriaPropiedades, TLC

Simetria == Permutations(Procesos)

(* A clean bitmap, and what else malloc may give for frames and slots. *)
Limpio    == {{}}
Sucio     == {{}, {0}, Marcos}
SlotSucio == {{}, {0}}

DosPaginas == {0, 1}
=============================================================================
