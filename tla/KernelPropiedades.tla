------------------------- MODULE KernelPropiedades -------------------------
(***************************************************************************)
(* The properties of the Kernel: what its semaphores count, where each     *)
(* process is, what Memoria is asked, and that the whole of it behaves as  *)
(* the process diagram of EstadosProceso.                                  *)
(***************************************************************************)
EXTENDS Kernel

Uno(b) == IF b THEN 1 ELSE 0

Veces(s, p) == Cardinality({i \in DOMAIN s : s[i] = p})

(* PCBs in pcb_list whose process has not been told to end: they hold one  *)
(* unit of the multiprogramming degree each.                               *)
Admitidos == {p \in Procesos : pcb[p] = "listado" /\ pipeline[p] # "EXIT"}

-----------------------------------------------------------------------------
(* The Kernel never brings itself down: the codes that the console,        *)
(* blocked and dispatcher threads leave for each other in the pipeline and *)
(* what Memoria answers are always the expected ones, so that none of the  *)
(* exits that look at them is reached; no pop finds an empty queue, and no *)
(* PCB is read or written before it is created or after it is destroyed.   *)
(* (The planner's log line is the exception: see RegistroLeeVivo.)  The    *)
(* exits that a program or a console causes are in salida, not here: an    *)
(* unknown device, a console that breaks the dialogue.                     *)
NuncaCae == ~caido

(* sem_proceso_entro_a_ready and the READY queues agree: whoever pushes    *)
(* posts later, so a thread may wake the dispatcher for the process that   *)
(* another one pushed, but there is one token per process and the pop of   *)
(* obtener_siguiente_a_exec always finds one.                              *)
AvisosReady ==
    Len(colaRR) + Len(colaFIFO)
        = semReady + porAvisar + Uno(plan \in {"registra", "avisa"})
          + Uno(despacho = "avisa") + Uno(despacho = "obtiene")

(* The same for sem_proceso_entro_a_new, whose token the planner keeps     *)
(* while it waits for the multiprogramming degree.                         *)
AvisosNew ==
    Len(colaNew) = semNew + Cardinality({p \in Procesos : consola[p] = "avisa"})
                   + Uno(plan \in {"esperaGrado", "saca"})

(* Units of the multiprogramming degree are neither lost nor duplicated:   *)
(* each is free, held by an admitted process, or in the hands of the       *)
(* planner that admits one or of the dispatcher that ends one.             *)
GradoConservado ==
    semGrado + Cardinality(Admitidos) + Uno(plan \in {"saca", "pide", "espera", "agrega"})
        + Uno(despacho = "grado") = Grado

(* Threads between the wait for sem_memory_handlers and its post. *)
EnRegion == {p \in Procesos : consola[p] = "libera"}
RegionOcupada ==
    Cardinality(EnRegion) + Cardinality({p \in Procesos : hilo[p] = "esperaPagina"})
        + Uno(plan = "espera")

(* At most one thread is inside the memory region, the exchange with       *)
(* Memoria runs on its behalf and on the globals it wrote, and the answer  *)
(* wakes that thread and no other.                                         *)
MonitorMemoria ==
    /\ semHandlers + RegionOcupada = 1
    /\ semRoutine + Uno(canal # "libre") + semResolved = RegionOcupada
    /\ canal # "libre" => canalOp = globalOp /\ canalPid = globalPcb
    /\ plan = "espera" => globalOp = "NUEVO_PROCESO" /\ globalPcb = planPcb
    /\ \A p \in Procesos :
         /\ consola[p] = "libera" => globalOp = "EXIT_PROCESO" /\ globalPcb = p
         /\ hilo[p] = "esperaPagina" => globalOp = "PAGE_FAULT" /\ globalPcb = p

(* A process is in one place: NEW, the hands of the planner, READY, the    *)
(* CPU or the hands of the dispatcher, or those of the thread that blocks  *)
(* it.  It is in none before its console creates it and after it ends.     *)
UnSoloLugar ==
    \A p \in Procesos :
        Veces(colaNew, p) + Uno(planPcb = p /\ plan \in {"pide", "espera", "agrega", "ingresa"})
            + Veces(colaRR, p) + Veces(colaFIFO, p) + Uno(enExec = p) + Uno(hilo[p] # "ninguno")
        = Uno(consola[p] # "conecta" /\ pipeline[p] # "EXIT")

(* Memoria is asked to create a process it does not have, and to load a    *)
(* page of, or to end, one that it has; it has every process that runs.    *)
(* The degree is given back before Memoria frees the process, so it may    *)
(* have more than Grado processes, but the others are all ending.          *)
PedidosAMemoria ==
    /\ canal = "pedido" =>
         (canalPid \in enMemoria <=> canalOp # "NUEVO_PROCESO")
    /\ Admitidos \subseteq enMemoria
    /\ Cardinality({p \in enMemoria : pipeline[p] # "EXIT"}) <= Grado

(* A device, the screen and the keyboard included, has one user at a time, *)
(* and it is free exactly when it has none.                                *)
DispositivoExclusivo ==
    \A r \in Recursos :
        semDispositivo[r]
            + Cardinality({p \in Procesos : hilo[p] = "usaRecurso" /\ recurso[p] = r}) = 1

(* The semaphores of NEW, of the degree and of the devices count what they *)
(* stand for, whatever the order in which the threads post: no unit is     *)
(* lost when a process ends, and none is given twice.                      *)
SemaforosExactos == AvisosNew /\ GradoConservado /\ DispositivoExclusivo

(* The planner's log line reads pcb->id after the push to READY, and the   *)
(* PCB may have been freed: only if the dispatcher took it with the token  *)
(* of another admitted process, which is then left in READY.  So it never  *)
(* is when the multiprogramming degree is 1.                               *)
RegistroLeeVivo ==
    plan = "registra" /\ ~PcbVivo(planPcb) =>
        /\ Grado > 1
        /\ \E q \in Admitidos \ {planPcb} : Veces(colaRR, q) + Veces(colaFIFO, q) > 0

-----------------------------------------------------------------------------
(* The Kernel implements the process diagram. *)

EnCola(s, p) == \E i \in DOMAIN s : s[i] = p

EstadoDe(p) ==
    IF consola[p] = "conecta" THEN "INICIO"
    ELSE IF pipeline[p] = "EXIT" THEN "EXIT"
    ELSE IF enExec = p THEN "EXEC"
    ELSE IF hilo[p] # "ninguno" THEN "BLOCKED"
    ELSE IF EnCola(colaRR, p) \/ EnCola(colaFIFO, p) THEN "READY"
    ELSE "NEW"

Estados == INSTANCE EstadosProceso WITH estado <- [p \in Procesos |-> EstadoDe(p)]

(* Every step of every thread is a transition of the process diagram or    *)
(* leaves it alone: one process in EXEC, no more than Grado processes in   *)
(* READY, EXEC and BLOCKED, and no transition that the diagram lacks.      *)
ImplementaEstados == Estados!Spec

(* Every process that a console brings is admitted, runs and ends, and its *)
(* console is told: no thread waits for ever for the degree, the memory    *)
(* region, a device or its console.  Unless the Kernel ended by what a     *)
(* program or a console did, or sale_de_exec cancelled another thread in   *)
(* the place of a clock: that one may hold a device, the region or a unit  *)
(* of the degree for ever.                                                 *)
TodosTerminan ==
    [](salida = "no" /\ cancelados = {}) =>
        /\ Estados!TodosTerminan
        /\ \A p \in Procesos : <>[](consola[p] = "fin" /\ pcb[p] = "liberado")
=============================================================================
