------------------------------ MODULE Memoria ------------------------------
(***************************************************************************)
(* The Memoria process: the pages of each process, the frames and swap     *)
(* slots they occupy, and the two threads that serve the Kernel            *)
(* (kernel_routine.c) and the CPU (cpu_routine.c).                         *)
(*                                                                         *)
(* A page is a number: the segment tables are one table per process, and a *)
(* page holds one value.  An iteration of a replacement loop is a step, so *)
(* the other thread may run between two of them.  Nulo is UINT32_MAX where *)
(* the code stores it and NULL where it tests for it.  Memoria stops when  *)
(* it dereferences a NULL or uses UINT32_MAX as a position; caida says why *)
(* and nothing is said of what follows.                                    *)
(***************************************************************************)
EXTENDS Naturals, Sequences, FiniteSets

CONSTANTS Procesos,
          CantPaginas,         \* pages of the segments of a process
          PaginasEnteras,      \* those that the segment fills: the others have no swap slot
          CantMarcos,          \* TAM_MEMORIA / TAM_PAGINA
          CantSlots,           \* TAMANIO_SWAP / TAM_PAGINA
          MarcosPorProceso,    \* MARCOS_POR_PROCESO
          AlgoritmoReemplazo,  \* ALGORITMO_REEMPLAZO
          Valores,             \* what a page may hold
          BasuraMarcos,        \* what malloc may leave in MapaFrames
          BasuraSwap,          \* and in MapaSwap
          Nulo

Paginas == 0 .. CantPaginas - 1
Marcos  == 0 .. CantMarcos - 1
Slots   == 0 .. CantSlots - 1

ASSUME SupuestosMemoria ==
    /\ CantPaginas \in Nat /\ CantMarcos \in Nat /\ CantSlots \in Nat
    /\ MarcosPorProceso \in Nat \ {0}
    /\ PaginasEnteras \subseteq Paginas
    /\ AlgoritmoReemplazo \in {"CLOCK", "CLOCK-M"}
    /\ 0 \in Valores
    /\ BasuraMarcos \subseteq SUBSET Marcos
    /\ BasuraSwap \subseteq SUBSET Slots
    /\ IsFiniteSet(Procesos)
    /\ Nulo \notin Nat \cup Valores \cup Procesos \cup (Procesos \X Paginas)
    /\ Nulo \notin [marco : Marcos, escritura : BOOLEAN]

VARIABLES
    alojados,     \* EspacioKernel: the processes with page tables
    presente,     \* the pages of each process with presente = true
    usado,        \*   with usado = true
    modificado,   \*   with modificado = true
    marco,        \* pagina->marco
    slot,         \* pagina->posicion_swap, as a slot
    presentes,    \* paginasPresentes: the queue of each process
    mapaFrames,   \* MapaFrames: the frames marked as assigned
    mapaSwap,     \* MapaSwap: the slots marked as assigned
    tablaFrames,  \* TablaFrames: the page that each frame holds
    espacio,      \* EspacioUsuario
    swap,         \* the swap file; Nulo where it does not reach
    rutina,       \* the step of kernel_routine in a replacement
    pedida,       \* the process and the page it is loading
    victima,      \* pagVictima
    paso,         \* ClockMejorado: the loop it is in
    vuelta,       \*   and its p
    marca,        \* marcarPaginaUsada that cpu_routine still has to run
    caida         \* why Memoria is down

tablaVars  == <<alojados, presente, usado, modificado, marco, slot, presentes>>
marcosVars == <<mapaFrames, mapaSwap, tablaFrames, espacio, swap>>
rutinaVars == <<rutina, pedida, victima, paso, vuelta>>
memoriaVars == <<tablaVars, marcosVars, rutinaVars, marca, caida>>

TipoMemoria ==
    /\ alojados \subseteq Procesos
    /\ presente \in [Procesos -> SUBSET Paginas]
    /\ usado \in [Procesos -> SUBSET Paginas]
    /\ modificado \in [Procesos -> SUBSET Paginas]
    /\ marco \in [Procesos -> [Paginas -> Marcos \cup {Nulo}]]
    /\ slot \in [Procesos -> [Paginas -> Slots \cup {Nulo}]]
    /\ presentes \in [Procesos -> Seq(Paginas)]
    /\ mapaFrames \subseteq Marcos
    /\ mapaSwap \subseteq Slots
    /\ tablaFrames \in [Marcos -> (Procesos \X Paginas) \cup {Nulo}]
    /\ espacio \in [Marcos -> Valores]
    /\ swap \in [Slots \cup {Nulo} -> Valores \cup {Nulo}]
    /\ rutina \in {"libre", "elige", "reemplaza"}
    /\ pedida \in (Procesos \X Paginas) \cup {Nulo}
    /\ victima \in Paginas \cup {Nulo}
    /\ paso \in {1, 2}
    /\ vuelta \in 0 .. MarcosPorProceso
    /\ marca \in [marco : Marcos, escritura : BOOLEAN] \cup {Nulo}
    /\ caida \in {"no", "sin slot", "sin marco", "sin victima", "sin entrada"}

(* swap_inicializar: the descriptor is not for writing, so that ftruncate  *)
(* fails and the file stays empty.                                         *)
ArchivoVacio == [s \in Slots \cup {Nulo} |-> Nulo]

(* The bitmaps come from malloc. *)
InitMemoria ==
    /\ alojados = {}
    /\ presente = [p \in Procesos |-> {}]
    /\ usado = [p \in Procesos |-> {}]
    /\ modificado = [p \in Procesos |-> {}]
    /\ marco = [p \in Procesos |-> [g \in Paginas |-> Nulo]]
    /\ slot = [p \in Procesos |-> [g \in Paginas |-> Nulo]]
    /\ presentes = [p \in Procesos |-> <<>>]
    /\ mapaFrames \in BasuraMarcos
    /\ mapaSwap \in BasuraSwap
    /\ tablaFrames = [m \in Marcos |-> Nulo]
    /\ espacio = [m \in Marcos |-> 0]
    /\ swap = ArchivoVacio
    /\ rutina = "libre"
    /\ pedida = Nulo
    /\ victima = Nulo
    /\ paso = 1
    /\ vuelta = 0
    /\ marca = Nulo
    /\ caida = "no"

-----------------------------------------------------------------------------
(* memoria_utils.c, swap.c and paginacion.c. *)

(* How many numbers of S are below n, and the one with k below it. *)
Menores(S, n) == Cardinality({t \in S : t < n})
Enesimo(S, k) == CHOOSE n \in S : Menores(S, n) = k

PosicionLibre(mapa, posiciones) ==
    CHOOSE n \in posiciones \ mapa : \A k \in posiciones \ mapa : n <= k

MemoriaEstaLlena == \A m \in Marcos : tablaFrames[m] # Nulo

ProcesoAlcanzoMaxMarcos(p) == Len(presentes[p]) = MarcosPorProceso

(* What fread puts in the buffer: past the end of the file nothing, so     *)
(* that what malloc left there stays.                                      *)
Leido(archivo, s) == IF archivo[s] = Nulo THEN Valores ELSE {archivo[s]}

(* fwrite at a position makes the file reach it, with zeros before it;     *)
(* UINT32_MAX is after every slot.                                         *)
Guardado(archivo, s, v) ==
    [t \in DOMAIN archivo |->
        IF t = s THEN v
        ELSE IF archivo[t] = Nulo /\ t # Nulo /\ (s = Nulo \/ t < s) THEN 0
        ELSE archivo[t]]

(* Mutant: without crearEntradaTablaFrames. *)
OcuparSinEntrada(p, g, f) ==
    /\ marco' = [marco EXCEPT ![p][g] = f]
    /\ UNCHANGED tablaFrames

(* crearEntradaTablaFrames, after swap_in made page g of p present in f.   *)
OcuparMarco(p, g, f) ==
    /\ marco' = [marco EXCEPT ![p][g] = f]
    /\ tablaFrames' = [tablaFrames EXCEPT ![f] = <<p, g>>]

-----------------------------------------------------------------------------
(* kernel_routine.c *)

(* Mutant: the slots that are given are not marked one by one. *)
SlotSinMarcar(g) == IF g \in PaginasEnteras THEN PosicionLibre(mapaSwap, Slots) ELSE Nulo

(* NUEVO_PROCESO: pag_crearTablaPaginas gives each whole page, in order,   *)
(* the first free slot.                                                    *)
SlotNuevo(g) ==
    IF g \in PaginasEnteras THEN Enesimo(Slots \ mapaSwap, Menores(PaginasEnteras, g)) ELSE Nulo

NuevoProceso(p) ==
    /\ rutina = "libre"
    /\ IF Cardinality(PaginasEnteras) > Cardinality(Slots \ mapaSwap)
       THEN caida' = "sin slot" /\ UNCHANGED <<alojados, slot, mapaSwap>>
       ELSE /\ alojados' = alojados \cup {p}
            /\ slot' = [slot EXCEPT ![p] = [g \in Paginas |-> SlotNuevo(g)]]
            /\ mapaSwap' = mapaSwap \cup {SlotNuevo(g) : g \in PaginasEnteras}
            /\ UNCHANGED caida
    /\ UNCHANGED <<presente, usado, modificado, marco, presentes, mapaFrames, tablaFrames,
                   espacio, swap, rutinaVars, marca>>

(* PAGE_FAULT, swap_resolver_pageFault with a free frame. *)
CargarEnMarcoLibre(p, g) ==
    /\ rutina = "libre"
    /\ ~MemoriaEstaLlena /\ ~ProcesoAlcanzoMaxMarcos(p)
    /\ IF Marcos \subseteq mapaFrames
       THEN caida' = "sin marco"
            /\ UNCHANGED <<presente, marco, presentes, mapaFrames, tablaFrames, espacio>>
       ELSE LET f == PosicionLibre(mapaFrames, Marcos) IN
            /\ OcuparMarco(p, g, f)
            /\ mapaFrames' = mapaFrames \cup {f}
            /\ \E v \in Leido(swap, slot[p][g]) : espacio' = [espacio EXCEPT ![f] = v]
            /\ presente' = [presente EXCEPT ![p] = @ \cup {g}]
            /\ presentes' = [presentes EXCEPT ![p] = Append(@, g)]
            /\ UNCHANGED caida
    /\ UNCHANGED <<alojados, usado, modificado, slot, mapaSwap, swap, rutinaVars, marca>>

(* PAGE_FAULT, swap_resolver_pageFault that must replace a page. *)
EmpezarReemplazo(p, g) ==
    /\ rutina = "libre"
    /\ MemoriaEstaLlena \/ ProcesoAlcanzoMaxMarcos(p)
    /\ rutina' = "elige"
    /\ pedida' = <<p, g>>
    /\ paso' = 1 /\ vuelta' = 0
    /\ UNCHANGED <<victima, tablaVars, marcosVars, marca, caida>>

(* Mutant: the victim stays in the queue, as with queue_peek. *)
ElegirSinSacar(p) ==
    /\ victima' = Head(presentes[p])
    /\ rutina' = "reemplaza"
    /\ UNCHANGED <<presentes, usado>>

(* The page at the head of the queue is the victim, ... *)
Elegir(p) ==
    /\ victima' = Head(presentes[p])
    /\ presentes' = [presentes EXCEPT ![p] = Tail(@)]
    /\ rutina' = "reemplaza"
    /\ UNCHANGED usado

(* Mutant: the usado bit is never cleared. *)
DevolverUsada(p, limpia) ==
    /\ presentes' = [presentes EXCEPT ![p] = Append(Tail(@), Head(@))]
    /\ UNCHANGED <<usado, victima, rutina>>

(* ... or it goes to the end, without its usado bit if that is cleared.    *)
Devolver(p, limpia) ==
    /\ presentes' = [presentes EXCEPT ![p] = Append(Tail(@), Head(@))]
    /\ usado' = IF limpia THEN [usado EXCEPT ![p] = @ \ {Head(presentes[p])}] ELSE usado
    /\ UNCHANGED <<victima, rutina>>

(* queue_pop of an empty queue gives a NULL page, which is read.           *)
QuedarSinVictima ==
    /\ rutina = "elige"
    /\ presentes[pedida[1]] = <<>>
    /\ caida' = "sin victima"
    /\ UNCHANGED <<tablaVars, marcosVars, rutinaVars, marca>>

(* An iteration of seleccionarV_Clock. *)
Clock ==
    /\ rutina = "elige" /\ AlgoritmoReemplazo = "CLOCK"
    /\ LET p == pedida[1] IN
       /\ presentes[p] # <<>>
       /\ IF Head(presentes[p]) \in usado[p] THEN Devolver(p, TRUE) ELSE Elegir(p)
    /\ UNCHANGED <<alojados, presente, modificado, marco, slot, marcosVars, pedida, paso, vuelta,
                   marca, caida>>

(* An iteration of seleccionarV_ClockMejorado: each of its two loops runs  *)
(* over MarcosPorProceso pages, whatever the queue holds.                  *)
ClockMejorado ==
    /\ rutina = "elige" /\ AlgoritmoReemplazo = "CLOCK-M"
    /\ LET p == pedida[1] IN
       /\ presentes[p] # <<>>
       /\ IF /\ Head(presentes[p]) \notin usado[p]
             /\ Head(presentes[p]) \in modificado[p] <=> paso = 2
          THEN Elegir(p) /\ UNCHANGED <<paso, vuelta>>
          ELSE /\ Devolver(p, paso = 2)
               /\ IF vuelta + 1 < MarcosPorProceso
                  THEN vuelta' = vuelta + 1 /\ UNCHANGED paso
                  ELSE vuelta' = 0 /\ paso' = 3 - paso
    /\ UNCHANGED <<alojados, presente, modificado, marco, slot, marcosVars, pedida, marca, caida>>

(* reemplazarPagina, from the choice of the victim: a modified victim goes *)
(* to swap, and the page comes to its frame.                               *)
ReemplazarPagina ==
    /\ rutina = "reemplaza"
    /\ LET p == pedida[1]
           g == pedida[2]
           f == marco[p][victima]
           s == slot[p][victima]
           guardado == IF victima \in modificado[p] THEN Guardado(swap, s, espacio[f]) ELSE swap
       IN  /\ swap' = guardado
           /\ \E v \in Leido(guardado, slot[p][g]) :
                espacio' = [espacio EXCEPT ![f] = v]
           /\ OcuparMarco(p, g, f)
           /\ presente' = [presente EXCEPT ![p] = (@ \ {victima}) \cup {g}]
           /\ usado' = [usado EXCEPT ![p] = @ \ {victima}]
           /\ modificado' = [modificado EXCEPT ![p] = @ \ {victima}]
           /\ presentes' = [presentes EXCEPT ![p] = Append(@, g)]
    /\ rutina' = "libre"
    /\ pedida' = Nulo /\ victima' = Nulo /\ paso' = 1 /\ vuelta' = 0
    /\ UNCHANGED <<alojados, slot, mapaFrames, mapaSwap, marca, caida>>

(* EXIT_PROCESO: liberar_proceso. *)
LiberarProceso(p) ==
    LET propios == {marco[p][g] : g \in presente[p]}
    IN  /\ rutina = "libre"
        /\ alojados' = alojados \ {p}
        /\ mapaFrames' = mapaFrames \ propios
        /\ tablaFrames' = [m \in Marcos |-> IF m \in propios THEN Nulo ELSE tablaFrames[m]]
        /\ mapaSwap' = mapaSwap \ {slot[p][g] : g \in Paginas}
        /\ presente' = [presente EXCEPT ![p] = {}]
        /\ usado' = [usado EXCEPT ![p] = {}]
        /\ modificado' = [modificado EXCEPT ![p] = {}]
        /\ marco' = [marco EXCEPT ![p] = [g \in Paginas |-> Nulo]]
        /\ slot' = [slot EXCEPT ![p] = [g \in Paginas |-> Nulo]]
        /\ presentes' = [presentes EXCEPT ![p] = <<>>]
        /\ UNCHANGED <<espacio, swap, rutinaVars, marca, caida>>

-----------------------------------------------------------------------------
(* cpu_routine.c.  It answers a MOV before it marks the page as used.      *)

(* MMU_MARCO: pag_obtenerMarcoPagina; Nulo stands for PAGE_FAULT. *)
ObtenerMarco(p, g) == IF g \in presente[p] THEN marco[p][g] ELSE Nulo

MovIn(f) ==
    /\ marca = Nulo
    /\ marca' = [marco |-> f, escritura |-> FALSE]
    /\ UNCHANGED <<tablaVars, marcosVars, rutinaVars, caida>>

(* Mutant: the write is marked as a read. *)
MovOutComoLectura(f, v) ==
    /\ marca = Nulo
    /\ espacio' = [espacio EXCEPT ![f] = v]
    /\ marca' = [marco |-> f, escritura |-> FALSE]
    /\ UNCHANGED <<tablaVars, mapaFrames, mapaSwap, tablaFrames, swap, rutinaVars, caida>>

MovOut(f, v) ==
    /\ marca = Nulo
    /\ espacio' = [espacio EXCEPT ![f] = v]
    /\ marca' = [marco |-> f, escritura |-> TRUE]
    /\ UNCHANGED <<tablaVars, mapaFrames, mapaSwap, tablaFrames, swap, rutinaVars, caida>>

(* The page that is in the frame now, which may no longer be the one that  *)
(* was accessed, or none.  It is looked up with the lock of the table, and *)
(* its bits are written without it: only the end of the process fits in    *)
(* between, and it frees what they are written to, as if there was none.   *)
MarcarPaginaUsada ==
    /\ marca # Nulo
    /\ marca' = Nulo
    /\ LET duenio == tablaFrames[marca.marco] IN
       IF duenio = Nulo
       THEN caida' = "sin entrada" /\ UNCHANGED <<usado, modificado>>
       ELSE /\ usado' = [usado EXCEPT ![duenio[1]] = @ \cup {duenio[2]}]
            /\ modificado' = IF marca.escritura
                             THEN [modificado EXCEPT ![duenio[1]] = @ \cup {duenio[2]}]
                             ELSE modificado
            /\ UNCHANGED caida
    /\ UNCHANGED <<alojados, presente, marco, slot, presentes, marcosVars, rutinaVars>>
=============================================================================
