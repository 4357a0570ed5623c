--------------------------- MODULE MemoriaVirtual ---------------------------
(***************************************************************************)
(* The CPU side of the virtual memory (mmu.c, tlb.c, the MOV instructions  *)
(* of ciclo.c and the thread of memoria.c that talks to Memoria) composed  *)
(* with the Memoria process.  The Kernel appears as Memoria sees it: it    *)
(* creates a process before it first runs, asks for the page of a fault    *)
(* before the process runs again and ends it once, with one request in     *)
(* Memoria at a time (MonitorMemoria and PedidosAMemoria of the Kernel).     *)
(***************************************************************************)
EXTENDS Memoria

CONSTANTS EntradasTLB,   \* ENTRADAS_TLB
          ReemplazoTLB   \* REEMPLAZO_TLB

Entrada == [pid : Procesos, pag : Paginas, marco : Marcos]

ASSUME SupuestosTLB ==
    /\ EntradasTLB \in Nat
    /\ ReemplazoTLB \in {"LRU", "FIFO"}
    /\ Nulo \notin Entrada

VARIABLES
    tlb,       \* colaTLB
    enCpu,     \* mi_contexto->id, while the cycle runs
    fase,      \* where each process is for the Kernel
    falta,     \* the page of its PAGE_FAULT, which it accesses again when it returns
    acceso,    \* the MOV that the CPU is about to ask for: direcFisica
    registro   \* what the last MOV_IN put in a register

cpuVars == <<tlb, enCpu, fase, falta, acceso, registro>>
vars == <<memoriaVars, cpuVars>>

TypeOK ==
    /\ TipoMemoria
    /\ tlb \in Seq(Entrada)
    /\ Len(tlb) <= EntradasTLB
    /\ enCpu \in Procesos \cup {Nulo}
    /\ fase \in [Procesos -> {"nuevo", "listo", "falla", "cargando", "sale", "fin"}]
    /\ falta \in [Procesos -> Paginas \cup {Nulo}]
    /\ acceso \in Entrada \cup {Nulo}
    /\ registro \in Valores

Init ==
    /\ InitMemoria
    /\ tlb = <<>>
    /\ enCpu = Nulo
    /\ fase = [p \in Procesos |-> "nuevo"]
    /\ falta = [p \in Procesos |-> Nulo]
    /\ acceso = Nulo
    /\ registro = 0

-----------------------------------------------------------------------------
(* tlb.c *)

Quitar(s, i) == SubSeq(s, 1, i - 1) \o SubSeq(s, i + 1, Len(s))

(* Mutant: a full TLB is not noticed. *)
AgregadaSiempre(e) == Append(tlb, e)

(* agregar_entrada_tlb: the first entry leaves a full TLB. *)
Agregada(e) ==
    IF EntradasTLB = 0 THEN tlb
    ELSE IF Len(tlb) = EntradasTLB THEN Append(Tail(tlb), e)
    ELSE Append(tlb, e)

(* buscarEnTLB: under LRU the entry that is found goes to the end. *)
Consultada(i) == IF ReemplazoTLB = "LRU" THEN Append(Quitar(tlb, i), tlb[i]) ELSE tlb

(* Mutant: the pid of the entry is not compared. *)
AciertosDeCualquiera(p, g) == {i \in DOMAIN tlb : tlb[i].pag = g}

Aciertos(p, g) == {i \in DOMAIN tlb : tlb[i].pid = p /\ tlb[i].pag = g}

(* Mutant: the entries of a process that ends are kept. *)
ConEntradasDe(p) == tlb

(* limpiar_tlb: the others stay, in their order. *)
SinEntradasDe(p) ==
    LET quedan == {i \in DOMAIN tlb : tlb[i].pid # p}
    IN  [k \in 1 .. Cardinality(quedan) |-> tlb[Enesimo(quedan, k - 1)]]

-----------------------------------------------------------------------------
(* The CPU. *)

(* A PCB arrives. *)
Despachar(p) ==
    /\ enCpu = Nulo
    /\ fase[p] = "listo"
    /\ enCpu' = p
    /\ UNCHANGED <<tlb, fase, falta, acceso, registro, memoriaVars>>

(* It leaves by an interruption or an I/O: the TLB keeps its entries.  The *)
(* instruction of a page fault is executed before any other.               *)
TerminaInstruccion(p) ==
    /\ enCpu = p /\ acceso = Nulo
    /\ falta[p] = Nulo
    /\ enCpu' = Nulo

Desalojar(p) ==
    /\ TerminaInstruccion(p)
    /\ UNCHANGED <<tlb, fase, falta, acceso, registro, memoriaVars>>

(* EXIT or a segmentation fault. *)
Salir(p) ==
    /\ TerminaInstruccion(p)
    /\ tlb' = SinEntradasDe(p)
    /\ fase' = [fase EXCEPT ![p] = "sale"]
    /\ UNCHANGED <<falta, acceso, registro, memoriaVars>>

(* traducciones, with the page in the TLB. *)
TraducirAcierto(p, g) ==
    /\ enCpu = p /\ acceso = Nulo
    /\ falta[p] \in {g, Nulo}
    /\ \E i \in Aciertos(p, g) :
         /\ \A j \in Aciertos(p, g) : i <= j
         /\ acceso' = tlb[i]
         /\ tlb' = Consultada(i)
    /\ falta' = [falta EXCEPT ![p] = Nulo]
    /\ UNCHANGED <<enCpu, fase, registro, memoriaVars>>

(* traducciones, with MMU_MARCO: Memoria gives the frame or PAGE_FAULT.    *)
(* cpu_routine serves the request when it has marked the last access.      *)
TraducirFallo(p, g) ==
    /\ enCpu = p /\ acceso = Nulo
    /\ falta[p] \in {g, Nulo}
    /\ Aciertos(p, g) = {}
    /\ marca = Nulo
    /\ LET f == ObtenerMarco(p, g)
           e == [pid |-> p, pag |-> g, marco |-> f]
       IN  IF f = Nulo
           THEN /\ fase' = [fase EXCEPT ![p] = "falla"]
                /\ falta' = [falta EXCEPT ![p] = g]
                /\ enCpu' = Nulo
                /\ UNCHANGED <<tlb, acceso>>
           ELSE /\ acceso' = e
                /\ tlb' = Agregada(e)
                /\ falta' = [falta EXCEPT ![p] = Nulo]
                /\ UNCHANGED <<enCpu, fase>>
    /\ UNCHANGED <<registro, memoriaVars>>

(* The MOV itself, at the physical address. *)
Leer ==
    /\ acceso # Nulo
    /\ MovIn(acceso.marco)
    /\ registro' = espacio[acceso.marco]
    /\ acceso' = Nulo
    /\ UNCHANGED <<tlb, enCpu, fase, falta>>

Escribir(v) ==
    /\ acceso # Nulo
    /\ MovOut(acceso.marco, v)
    /\ acceso' = Nulo
    /\ UNCHANGED <<tlb, enCpu, fase, falta, registro>>

-----------------------------------------------------------------------------
(* The requests of the Kernel, which Memoria answers if it is still up. *)

Responde(p, f) == fase' = IF caida' = "no" THEN [fase EXCEPT ![p] = f] ELSE fase

Crear(p) ==
    /\ fase[p] = "nuevo"
    /\ NuevoProceso(p)
    /\ Responde(p, "listo")
    /\ UNCHANGED <<tlb, enCpu, falta, acceso, registro>>

AtenderFaltaLibre(p) ==
    /\ fase[p] = "falla"
    /\ CargarEnMarcoLibre(p, falta[p])
    /\ Responde(p, "listo")
    /\ UNCHANGED <<tlb, enCpu, falta, acceso, registro>>

(* Mutant: the fault is answered before the page is replaced. *)
ResponderAntesDeReemplazar(p) ==
    /\ fase[p] = "falla"
    /\ EmpezarReemplazo(p, falta[p])
    /\ fase' = [fase EXCEPT ![p] = "listo"]
    /\ UNCHANGED <<tlb, enCpu, falta, acceso, registro>>

AtenderFaltaReemplazo(p) ==
    /\ fase[p] = "falla"
    /\ EmpezarReemplazo(p, falta[p])
    /\ fase' = [fase EXCEPT ![p] = "cargando"]
    /\ UNCHANGED <<tlb, enCpu, falta, acceso, registro>>

ElegirVictima == (Clock \/ ClockMejorado \/ QuedarSinVictima) /\ UNCHANGED cpuVars

Reemplazar ==
    /\ ReemplazarPagina
    /\ fase' = [fase EXCEPT ![pedida[1]] = "listo"]
    /\ UNCHANGED <<tlb, enCpu, falta, acceso, registro>>

Destruir(p) ==
    /\ fase[p] = "sale"
    /\ LiberarProceso(p)
    /\ fase' = [fase EXCEPT ![p] = "fin"]
    /\ UNCHANGED <<tlb, enCpu, falta, acceso, registro>>

Marcar == MarcarPaginaUsada /\ UNCHANGED cpuVars

-----------------------------------------------------------------------------
Cpu(p) ==
    \/ Despachar(p) \/ Desalojar(p) \/ Salir(p)
    \/ \E g \in Paginas : TraducirAcierto(p, g) \/ TraducirFallo(p, g)

PedidosKernel(p) == Crear(p) \/ AtenderFaltaLibre(p) \/ AtenderFaltaReemplazo(p) \/ Destruir(p)

RutinaKernel == ElegirVictima \/ Reemplazar

RutinaCpu == Leer \/ (\E v \in Valores : Escribir(v)) \/ Marcar

(* Memoria is down, or every process ended. *)
Detenido ==
    /\ \/ caida # "no"
       \/ marca = Nulo /\ \A p \in Procesos : fase[p] = "fin"
    /\ UNCHANGED vars

Next ==
    \/ /\ caida = "no"
       /\ \/ \E p \in Procesos : Cpu(p) \/ PedidosKernel(p)
          \/ RutinaKernel
          \/ RutinaCpu
    \/ Detenido

Spec == Init /\ [][Next]_vars

(* The two threads of Memoria go on while they have something to do. *)
SpecJusta ==
    /\ Spec
    /\ WF_vars(caida = "no" /\ RutinaKernel)
    /\ WF_vars(caida = "no" /\ Marcar)
=============================================================================
