----------------------------- MODULE Traduccion -----------------------------
(***************************************************************************)
(* The arithmetic of the MMU: how traducciones and calcularDirecFisica of  *)
(* mmu.c take a logical address apart and check it against the segments of *)
(* the context, with the sizes that Memoria sends in the handshake.        *)
(* The size of a segment at most, in bytes, is below 2^32.                 *)
(***************************************************************************)
EXTENDS Naturals, Sequences

CONSTANTS TamPagina,    \* configMemoria->tamanioPagina
          EntradasTabla \* configMemoria->entradasTablaPaginas

ASSUME SupuestosTraduccion == TamPagina \in Nat \ {0} /\ EntradasTabla \in Nat \ {0}

TamMaxSegmento == EntradasTabla * TamPagina

NumSegmento(d)  == d \div TamMaxSegmento
DespSegmento(d) == d % TamMaxSegmento

(* Mutant: the pages of a segment are not told apart. *)
NumPaginaCero(d) == 0

NumPagina(d)    == DespSegmento(d) \div TamPagina
DespPagina(d)   == DespSegmento(d) % TamPagina

(* Mutant: the byte after the segment is taken as its own. *)
SegFaultCorrido(d, tamanios) ==
    \/ NumSegmento(d) >= Len(tamanios)
    \/ DespSegmento(d) > tamanios[NumSegmento(d) + 1]

(* Segments are numbered from 0, sequences from 1. *)
SegFault(d, tamanios) ==
    \/ NumSegmento(d) >= Len(tamanios)
    \/ DespSegmento(d) >= tamanios[NumSegmento(d) + 1]

DirecFisica(marco, desp) == marco * TamPagina + desp

(* The page of the process, and the place in it, that an address is of. *)
Casilla(d) == <<NumSegmento(d), NumPagina(d), DespPagina(d)>>
=============================================================================
