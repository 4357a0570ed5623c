------------------------ MODULE MCMemoriaEscrituras ------------------------
(* Instances of the virtual memory with its written pages for TLC. *)
EXTENDS MemoriaEscrituras, TLC

Simetria == Permutations(Procesos)

(* A clean bitmap. *)
Limpio == {{}}

DosPaginas == {0, 1}
=============================================================================
