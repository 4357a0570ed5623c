------------------------- MODULE MemoriaEscrituras -------------------------
(***************************************************************************)
(* The virtual memory with a history of the pages that were written: what  *)
(* a program may count on.  The swap file starts empty and a page that was *)
(* never written may change whenever it is replaced; a page that was is    *)
(* the program's own, and all of it behaves as the memory of               *)
(* MemoriaLogica.                                                          *)
(***************************************************************************)
EXTENDS MemoriaPropiedades

VARIABLE escritas  \* history: the pages that a MOV_OUT wrote, of each live process

varsE == <<vars, escritas>>

InitE == Init /\ escritas = {}

(* A MOV_OUT writes the page that is in the frame, whichever the program   *)
(* named.                                                                  *)
EscribirE ==
    /\ \E v \in Valores : Escribir(v)
    /\ escritas' = escritas \cup ({tablaFrames[acceso.marco]} \ {Nulo})

DestruirE(p) ==
    /\ Destruir(p)
    /\ escritas' = {x \in escritas : x[1] # p}

OtroPaso ==
    \/ \E p \in Procesos : Cpu(p) \/ Crear(p) \/ AtenderFaltaLibre(p) \/ AtenderFaltaReemplazo(p)
    \/ RutinaKernel
    \/ Leer \/ Marcar

NextE ==
    \/ /\ caida = "no"
       /\ \/ EscribirE
          \/ \E p \in Procesos : DestruirE(p)
          \/ OtroPaso /\ UNCHANGED escritas
    \/ Detenido /\ UNCHANGED escritas

SpecE == InitE /\ [][NextE]_varsE

-----------------------------------------------------------------------------
(* What is in a page: its frame or its slot. *)
Contenido(p, g) == IF g \in presente[p] THEN espacio[marco[p][g]] ELSE swap[slot[p][g]]

(* What its process may count on: nothing in a page that it has not        *)
(* written.                                                                *)
ContenidoDe(p) == [g \in Paginas |-> IF <<p, g>> \in escritas THEN Contenido(p, g) ELSE Nulo]

(* What a process wrote in its pages changes only when it writes again:    *)
(* not when Memoria moves pages to and from a file that starts empty, not  *)
(* when others run, write, fault or end, and not through their stale TLB   *)
(* entries.                                                                *)
AislamientoContenido ==
    [][\A p \in alojados \cap alojados' :
          ContenidoDe(p)' # ContenidoDe(p)
            => acceso # Nulo /\ acceso.pid = p /\ acceso' = Nulo]_varsE

Logica == INSTANCE MemoriaLogica WITH
    contenido <- [p \in alojados |-> ContenidoDe(p)],
    pedido    <- IF acceso = Nulo THEN Nulo ELSE <<acceso.pid, acceso.pag>>

(* Without a TLB, the whole of it is the memory that a program expects.    *)
ImplementaLogica == Logica!Spec
=============================================================================
