------------------------ MODULE MemoriaPropiedades ------------------------
(***************************************************************************)
(* The properties of the virtual memory: that the page tables, the table   *)
(* of frames, the bitmaps and the queues of the replacement tell the same  *)
(* story, and that a replacement ends.  What the pages hold is in          *)
(* MemoriaEscrituras.                                                      *)
(***************************************************************************)
EXTENDS MemoriaVirtual

Elementos(s) == {s[i] : i \in DOMAIN s}

SinRepetidos(s) == Cardinality(Elementos(s)) = Len(s)

Ocupados == {f \in Marcos : tablaFrames[f] # Nulo}

SlotsEnUso == {slot[p][g] : p \in alojados, g \in PaginasEnteras}

-----------------------------------------------------------------------------
(* Page tables and TablaFrames are inverse of each other through page      *)
(* faults, replacements and exits: no frame holds two pages.  MapaFrames   *)
(* marks every frame in use, and no other that was not marked at the start. *)
MarcosCoherentes ==
    /\ \A p \in Procesos : \A g \in presente[p] : tablaFrames[marco[p][g]] = <<p, g>>
    /\ \A f \in Ocupados : LET p == tablaFrames[f][1]
                              g == tablaFrames[f][2]
                          IN  p \in alojados /\ g \in presente[p] /\ marco[p][g] = f
    /\ Ocupados \subseteq mapaFrames
    /\ mapaFrames \ Ocupados \subseteq UNION BasuraMarcos

(* The queue that the clock turns holds each page of the process that is   *)
(* in memory once, but for the victim while it is replaced; so a process   *)
(* has at most MARCOS_POR_PROCESO frames.                                  *)
ColaCoherente ==
    \A p \in Procesos :
        LET sacada == IF rutina = "reemplaza" /\ pedida[1] = p THEN {victima} ELSE {}
        IN  /\ SinRepetidos(presentes[p])
            /\ Elementos(presentes[p]) = presente[p] \ sacada
            /\ sacada \subseteq presente[p]
            /\ Cardinality(presente[p]) <= MarcosPorProceso

(* Each whole page of a live process has a slot of its own from its        *)
(* creation to its end, and MapaSwap marks those slots and no other that   *)
(* was not marked at the start.                                            *)
SlotsExclusivos ==
    /\ \A x, y \in alojados \X PaginasEnteras : slot[x[1]][x[2]] = slot[y[1]][y[2]] => x = y
    /\ SlotsEnUso \subseteq mapaSwap
    /\ mapaSwap \ SlotsEnUso \subseteq UNION BasuraSwap

(* The two halves of a page, its frame and its slot, are its own through   *)
(* creations, faults, replacements and exits, and none is lost.            *)
TablasCoherentes == MarcosCoherentes /\ SlotsExclusivos

(* An entry of the TLB may be stale, but the frame it names still belongs  *)
(* to the process that it was made for: replacement is local, and a        *)
(* process leaves the TLB before Memoria gives its frames away.            *)
TLBPropia ==
    \A i \in DOMAIN tlb :
        /\ fase[tlb[i].pid] \in {"listo", "falla", "cargando"}
        /\ tablaFrames[tlb[i].marco] # Nulo
        /\ tablaFrames[tlb[i].marco][1] = tlb[i].pid

(* The page that a fault brought is still there when the process, after    *)
(* any number of faults of others, executes the instruction again.         *)
ReintentoNoFalla ==
    \A p \in Procesos : fase[p] = "listo" /\ falta[p] # Nulo => falta[p] \in presente[p]

(* While the Kernel and the CPU stay connected, Memoria stops only for     *)
(* these reasons: too few slots or frames for the processes it has (none   *)
(* is ever lost), a bitmap that was not clean at the start, or a process   *)
(* that ended before its last access was marked.                           *)
CausasDeCaida ==
    /\ caida = "sin slot" =>
         CantSlots < (Cardinality(alojados) + 1) * Cardinality(PaginasEnteras)
                       + Cardinality(UNION BasuraSwap)
    /\ caida = "sin victima" => CantMarcos <= (Cardinality(alojados) - 1) * MarcosPorProceso
    /\ caida = "sin marco" => Cardinality(Ocupados) < Cardinality(mapaFrames)
    /\ caida = "sin entrada" => \E p \in Procesos : fase[p] = "fin"

(* With no TLB, the frame of a MOV still holds the page that the program   *)
(* named.  The comment of cpu_routine says that an access through a TLB    *)
(* entry whose frame was given to another page is a page fault.            *)
AccesoVigente == acceso # Nulo => tablaFrames[acceso.marco] = <<acceso.pid, acceso.pag>>

(* The search for a victim ends, whatever the CPU marks meanwhile. *)
ReemplazoTermina == rutina = "elige" ~> rutina = "libre" \/ caida # "no"
=============================================================================
