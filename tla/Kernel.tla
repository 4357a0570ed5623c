------------------------------- MODULE Kernel -------------------------------
(***************************************************************************)
(* The Kernel process: one thread per console (consola_routine.c), the     *)
(* long-term planner (planificador_routine.c), the CPU dispatcher          *)
(* (cpu_dispatch_routine.c), one thread per blocked or page-faulting       *)
(* process (blocked_routine.c, memoria_routine.c) and the thread that      *)
(* talks to Memoria (memoria_routine.c).  They share the NEW and READY     *)
(* queues, the list of PCBs, the pipeline field of each PCB and the        *)
(* semaphores.                                                             *)
(*                                                                         *)
(* A step is a wait, the accesses that a mutex or a semaphore protects and *)
(* the posts that follow them; the push to a queue and the post that       *)
(* announces it are separate steps, as are all the waits.  The CPU, the    *)
(* consoles and Memoria act through the same steps that read or answer     *)
(* their messages.  The quantum clock only makes the CPU return a process  *)
(* with DESALOJO_PROCESO, which it may do here at any moment, and makes    *)
(* sale_de_exec cancel a thread that has the identifier of a clock gone.   *)
(***************************************************************************)
EXTENDS Naturals, Sequences, FiniteSets, Functions

CONSTANTS Procesos,      \* the processes that consoles start; a console and its PCB share the id
          Grado,         \* GRADO_MAX_MULTIPROGRAMACION
          Dispositivos,  \* DISPOSITIVOS_IO of kernel.config
          Solicitudes,   \* the names that the programs write in their I/O instructions
          Algoritmo,     \* ALGORITMO_PLANIFICACION
          MaxCancelados, \* bound on the threads cancelled in the place of a clock
          Nulo           \* no process, no resource

Recursos == {"PANTALLA", "TECLADO"} \cup Dispositivos

ASSUME SupuestosKernel ==
    /\ IsFiniteSet(Procesos)
    /\ Grado \in Nat \ {0}
    /\ Dispositivos \cap {"PANTALLA", "TECLADO"} = {}
    /\ Algoritmo \in {"FIFO", "RR", "FEEDBACK"}
    /\ MaxCancelados \in Nat
    /\ Nulo \notin Procesos \cup Recursos \cup Solicitudes

VARIABLES
    consola,         \* the step of each console thread
    pcb,             \* each PCB: not created, created, in pcb_list, destroyed
    pipeline,        \* pcb->pipeline.operacion
    semConsola,      \* pcb->console_semaphore
    semEspera,       \* pcb->console_waiter_semaphore
    plan,            \* the step of the long-term planner
    planPcb,         \* its local pcb
    colaNew,         \* cola_estado_new
    semNew,          \* sem_proceso_entro_a_new
    semGrado,        \* sem_grado_multiprogramacion
    colaRR,          \* cola_algoritmo_rr, cola_algoritmo_feedback_rr
    colaFIFO,        \* cola_algoritmo_fifo, cola_algoritmo_feedback_fifo
    semReady,        \* sem_proceso_entro_a_ready
    porAvisar,       \* threads of woken processes that pushed and have not yet posted semReady
    despacho,        \* the step of the dispatcher
    enExec,          \* the process the CPU holds
    hilo,            \* the step of the thread that waits for a resource or a page, per process
    recurso,         \* the device that thread was created with
    semDispositivo,  \* sem_dispositivos_IO
    semHandlers,     \* sem_memory_handlers
    semRoutine,      \* sem_memory_routine
    semResolved,     \* sem_memory_operation_resolved
    globalOp,        \* global_memory_operation
    globalPcb,       \* global_pcb_to_memory
    canal,           \* the exchange between memoria_routine and Memoria
    canalOp,         \* the operation of its message
    canalPid,        \* the process of its message
    enMemoria,       \* the processes Memoria has an entry for (EspacioKernel)
    caido,           \* the Kernel ended with exit or touched a NULL or destroyed PCB
    salida,          \* the exit that a program or a console caused, "no" while there was none
    cancelados       \* the threads that sale_de_exec cancelled in the place of a clock

consolaVars == <<consola, pcb, pipeline, semConsola, semEspera>>
planVars    == <<plan, planPcb, colaNew, semNew, semGrado>>
readyVars   == <<colaRR, colaFIFO, semReady, porAvisar>>
despVars    == <<despacho, enExec>>
hiloVars    == <<hilo, recurso, semDispositivo>>
regionVars  == <<semHandlers, semRoutine, semResolved, globalOp, globalPcb>>
canalVars   == <<canal, canalOp, canalPid, enMemoria>>
memVars     == <<regionVars, canalVars>>
salidaVars   == <<salida, cancelados>>
estadoVars  == <<consolaVars, planVars, readyVars, despVars, hiloVars, memVars, caido>>
vars == <<estadoVars, salidaVars>>

Operaciones == {"MENSAJE", "CONSOLE_INPUT", "CONSOLE_INPUT_RESPUESTA",
                "CONSOLE_OUTPUT", "CONSOLE_OUTPUT_RESPUESTA", "EXIT"}
PasosConsola == {"conecta", "avisa", "espera", "responde",
                 "pide", "libera", "destruye", "fin"}
PasosPlan == {"esperaNew", "esperaGrado", "saca", "pide", "espera",
              "agrega", "ingresa", "registra", "avisa"}
PasosDespacho == {"inicio", "recibe", "ingresa", "avisa", "grado", "espera", "obtiene"}
PasosHilo == {"ninguno", "pidePagina", "esperaPagina", "pideRecurso", "usaRecurso", "ingresa"}
PedidosMemoria == {"NUEVO_PROCESO", "PAGE_FAULT", "EXIT_PROCESO"}

(* The threads born after a clock, which may get its pthread_t: those of   *)
(* the consoles and those of an I/O or a page fault.  <<"hilo", Nulo>> is  *)
(* any of the latter that pushed its process to READY and has not posted.  *)
HilosDelKernel == ({"consola"} \X Procesos) \cup ({"hilo"} \X (Procesos \cup {Nulo}))

TipoConsola ==
    /\ consola \in [Procesos -> PasosConsola]
    /\ pcb \in [Procesos -> {"nada", "creado", "listado", "liberado"}]
    /\ pipeline \in [Procesos -> Operaciones]
    /\ semConsola \in [Procesos -> Nat]
    /\ semEspera \in [Procesos -> Nat]
TipoPlan ==
    /\ plan \in PasosPlan
    /\ planPcb \in Procesos \cup {Nulo}
    /\ colaNew \in Seq(Procesos)
    /\ semNew \in Nat
    /\ semGrado \in Nat
TipoReady ==
    /\ colaRR \in Seq(Procesos)
    /\ colaFIFO \in Seq(Procesos)
    /\ semReady \in Nat
    /\ porAvisar \in Nat
TipoDespacho ==
    /\ despacho \in PasosDespacho
    /\ enExec \in Procesos \cup {Nulo}
TipoHilo ==
    /\ hilo \in [Procesos -> PasosHilo]
    /\ recurso \in [Procesos -> Recursos \cup Solicitudes \cup {Nulo}]
    /\ semDispositivo \in [Recursos -> Nat]
TipoMemoria ==
    /\ semHandlers \in Nat
    /\ semRoutine \in Nat
    /\ semResolved \in Nat
    /\ globalOp \in PedidosMemoria \cup {Nulo}
    /\ globalPcb \in Procesos \cup {Nulo}
    /\ canal \in {"libre", "pedido", "respuesta"}
    /\ canalOp \in PedidosMemoria \cup {Nulo}
    /\ canalPid \in Procesos \cup {Nulo}
    /\ enMemoria \subseteq Procesos
TypeOK ==
    /\ TipoConsola /\ TipoPlan /\ TipoReady /\ TipoDespacho /\ TipoHilo /\ TipoMemoria
    /\ caido \in BOOLEAN
    /\ salida \in {"no", "dispositivo", "consola"}
    /\ cancelados \subseteq HilosDelKernel

Init ==
    /\ consola = [p \in Procesos |-> "conecta"]
    /\ pcb = [p \in Procesos |-> "nada"]
    /\ pipeline = [p \in Procesos |-> "MENSAJE"]
    /\ semConsola = [p \in Procesos |-> 0]
    /\ semEspera = [p \in Procesos |-> 0]
    /\ plan = "esperaNew"
    /\ planPcb = Nulo
    /\ colaNew = <<>>
    /\ semNew = 0
    /\ semGrado = Grado
    /\ colaRR = <<>>
    /\ colaFIFO = <<>>
    /\ semReady = 0
    /\ porAvisar = 0
    /\ despacho = "inicio"
    /\ enExec = Nulo
    /\ hilo = [p \in Procesos |-> "ninguno"]
    /\ recurso = [p \in Procesos |-> Nulo]
    /\ semDispositivo = [r \in Recursos |-> 1]
    /\ semHandlers = 1
    /\ semRoutine = 0
    /\ semResolved = 0
    /\ globalOp = Nulo
    /\ globalPcb = Nulo
    /\ canal = "libre"
    /\ canalOp = Nulo
    /\ canalPid = Nulo
    /\ enMemoria = {}
    /\ caido = FALSE
    /\ salida = "no"
    /\ cancelados = {}

-----------------------------------------------------------------------------
(* What several routines do. *)

PcbVivo(p) == p \in Procesos /\ pcb[p] \in {"creado", "listado"}

(* A step goes on when cond holds; otherwise it reaches exit(EXIT_FAILURE) *)
(* or dereferences a PCB that is not there.                                *)
Exige(cond) == caido' = ~cond

(* Mutant: nobody waits for sem_memory_handlers. *)
PedirSinEsperar(op, p) ==
    /\ globalOp' = op
    /\ globalPcb' = p
    /\ semRoutine' = semRoutine + 1
    /\ UNCHANGED <<semHandlers, semResolved, canalVars>>

(* The critical region around the memory globals, from its wait for        *)
(* sem_memory_handlers to its wait for sem_memory_operation_resolved.      *)
PedirAMemoria(op, p) ==
    /\ semHandlers > 0
    /\ semHandlers' = semHandlers - 1
    /\ globalOp' = op
    /\ globalPcb' = p
    /\ semRoutine' = semRoutine + 1
    /\ UNCHANGED <<semResolved, canalVars>>

(* From the return of that wait to the post of sem_memory_handlers. *)
OperacionResuelta ==
    /\ semResolved > 0
    /\ semResolved' = semResolved - 1
    /\ semHandlers' = semHandlers + 1
    /\ UNCHANGED <<semRoutine, globalOp, globalPcb, canalVars>>

(* The queue a process joins: fifo.c has one, round_robin.c another, and   *)
(* feedback.c both: its FIFO queue takes the processes that lost the CPU.  *)
VaARR(source) ==
    \/ Algoritmo = "RR"
    \/ Algoritmo = "FEEDBACK" /\ source \in {"NUEVO_PROCESO", "BLOQUEO_PROCESO"}

(* Mutant: a missing break sends the process to both queues. *)
IngresarAAmbas(p, source) ==
    /\ colaRR' = IF VaARR(source) THEN Append(colaRR, p) ELSE colaRR
    /\ colaFIFO' = Append(colaFIFO, p)

IngresarAReady(p, source) ==
    IF VaARR(source)
    THEN colaRR' = Append(colaRR, p) /\ UNCHANGED colaFIFO
    ELSE colaFIFO' = Append(colaFIFO, p) /\ UNCHANGED colaRR

-----------------------------------------------------------------------------
(* consola_routine.c: the thread of console p. *)

(* Receives the process, creates its PCB and pushes it to NEW. *)
ConsolaCrea(p) ==
    /\ consola[p] = "conecta"
    /\ consola' = [consola EXCEPT ![p] = "avisa"]
    /\ pcb' = [pcb EXCEPT ![p] = "creado"]
    /\ pipeline' = [pipeline EXCEPT ![p] = "MENSAJE"]
    /\ semConsola' = [semConsola EXCEPT ![p] = 0]
    /\ semEspera' = [semEspera EXCEPT ![p] = 0]
    /\ colaNew' = Append(colaNew, p)
    /\ UNCHANGED <<plan, planPcb, semNew, semGrado, readyVars, despVars, hiloVars, memVars, caido>>

(* The log of ingresar_a_new reads nuevo_pcb->id after the push. *)
ConsolaAvisa(p) ==
    /\ consola[p] = "avisa"
    /\ consola' = [consola EXCEPT ![p] = "espera"]
    /\ semNew' = semNew + 1
    /\ Exige(PcbVivo(p))
    /\ UNCHANGED <<pcb, pipeline, semConsola, semEspera, plan, planPcb, colaNew, semGrado,
                   readyVars, despVars, hiloVars, memVars>>

(* Wakes up and follows the pipeline: asks the console, or starts to end.  *)
ConsolaDespierta(p) ==
    /\ consola[p] = "espera"
    /\ semConsola[p] > 0
    /\ semConsola' = [semConsola EXCEPT ![p] = @ - 1]
    /\ consola' = [consola EXCEPT ![p] = IF pipeline[p] = "EXIT" THEN "pide" ELSE "responde"]
    /\ Exige(pipeline[p] \in {"CONSOLE_INPUT", "CONSOLE_OUTPUT", "EXIT"})
    /\ UNCHANGED <<pcb, pipeline, semEspera, planVars, readyVars, despVars, hiloVars, memVars>>

(* What the console sends is not what its thread expects, or the console   *)
(* left: exit(EXIT_FAILURE), or the end that the read of a NULL field or a *)
(* SIGPIPE gives.  Dialogo models both sides and says when it happens.     *)
ConsolaFalla(p) ==
    /\ consola[p] \in {"conecta", "responde", "destruye"}
    /\ salida' = "consola"
    /\ UNCHANGED <<estadoVars, cancelados>>

(* The console answers what it was asked: Consola/src/consola.c. *)
ConsolaRecibe(p) ==
    /\ consola[p] = "responde"
    /\ consola' = [consola EXCEPT ![p] = "espera"]
    /\ pipeline' = [pipeline EXCEPT ![p] = IF pipeline[p] = "CONSOLE_INPUT"
                                           THEN "CONSOLE_INPUT_RESPUESTA"
                                           ELSE "CONSOLE_OUTPUT_RESPUESTA"]
    /\ semEspera' = [semEspera EXCEPT ![p] = @ + 1]
    /\ UNCHANGED <<pcb, semConsola, planVars, readyVars, despVars, hiloVars, memVars, caido>>

ConsolaPideSalida(p) ==
    /\ consola[p] = "pide"
    /\ PedirAMemoria("EXIT_PROCESO", p)
    /\ consola' = [consola EXCEPT ![p] = "libera"]
    /\ UNCHANGED <<pcb, pipeline, semConsola, semEspera, planVars, readyVars, despVars,
                   hiloVars, caido>>

ConsolaLibera(p) ==
    /\ consola[p] = "libera"
    /\ OperacionResuelta
    /\ consola' = [consola EXCEPT ![p] = "destruye"]
    /\ UNCHANGED <<pcb, pipeline, semConsola, semEspera, planVars, readyVars, despVars,
                   hiloVars, caido>>

(* Removes the PCB from pcb_list, destroys it and sends EXIT to the console. *)
ConsolaDestruye(p) ==
    /\ consola[p] = "destruye"
    /\ consola' = [consola EXCEPT ![p] = "fin"]
    /\ pcb' = [pcb EXCEPT ![p] = "liberado"]
    /\ UNCHANGED <<pipeline, semConsola, semEspera, planVars, readyVars, despVars, hiloVars,
                   memVars, caido>>

-----------------------------------------------------------------------------
(* planificador_routine.c: new_a_ready. *)

PlanEsperaNew ==
    /\ plan = "esperaNew"
    /\ semNew > 0
    /\ semNew' = semNew - 1
    /\ plan' = "esperaGrado"
    /\ UNCHANGED <<planPcb, colaNew, semGrado, consolaVars, readyVars, despVars, hiloVars,
                   memVars, caido>>

(* Mutant: the degree is not waited for. *)
PlanNoEsperaGrado ==
    /\ plan = "esperaGrado"
    /\ plan' = "saca"
    /\ UNCHANGED <<planPcb, colaNew, semNew, semGrado, consolaVars, readyVars, despVars, hiloVars,
                   memVars, caido>>

PlanEsperaGrado ==
    /\ plan = "esperaGrado"
    /\ semGrado > 0
    /\ semGrado' = semGrado - 1
    /\ plan' = "saca"
    /\ UNCHANGED <<planPcb, colaNew, semNew, consolaVars, readyVars, despVars, hiloVars,
                   memVars, caido>>

(* obtener_siguiente_en_new; a pop of an empty queue gives a NULL pcb. *)
PlanSaca ==
    /\ plan = "saca"
    /\ IF colaNew = <<>>
       THEN planPcb' = Nulo /\ UNCHANGED colaNew
       ELSE planPcb' = Head(colaNew) /\ colaNew' = Tail(colaNew)
    /\ Exige(colaNew # <<>>)
    /\ plan' = "pide"
    /\ UNCHANGED <<semNew, semGrado, consolaVars, readyVars, despVars, hiloVars, memVars>>

PlanPideMemoria ==
    /\ plan = "pide"
    /\ PedirAMemoria("NUEVO_PROCESO", planPcb)
    /\ plan' = "espera"
    /\ UNCHANGED <<planPcb, colaNew, semNew, semGrado, consolaVars, readyVars, despVars,
                   hiloVars, caido>>

PlanRecibeMemoria ==
    /\ plan = "espera"
    /\ OperacionResuelta
    /\ plan' = "agrega"
    /\ UNCHANGED <<planPcb, colaNew, semNew, semGrado, consolaVars, readyVars, despVars,
                   hiloVars, caido>>

(* list_add(pcb_list, pcb) *)
PlanAgrega ==
    /\ plan = "agrega"
    /\ pcb' = [pcb EXCEPT ![planPcb] = "listado"]
    /\ plan' = "ingresa"
    /\ UNCHANGED <<planPcb, colaNew, semNew, semGrado, consola, pipeline, semConsola,
                   semEspera, readyVars, despVars, hiloVars, memVars, caido>>

PlanIngresa ==
    /\ plan = "ingresa"
    /\ IngresarAReady(planPcb, "NUEVO_PROCESO")
    /\ plan' = "registra"
    /\ UNCHANGED <<planPcb, colaNew, semNew, semGrado, semReady, porAvisar, consolaVars,
                   despVars, hiloVars, memVars, caido>>

(* Logs pcb->id.  Of a PCB already destroyed it logs whatever is there. *)
PlanRegistra ==
    /\ plan = "registra"
    /\ plan' = "avisa"
    /\ UNCHANGED <<planPcb, colaNew, semNew, semGrado, consolaVars, readyVars, despVars,
                   hiloVars, memVars, caido>>

PlanAvisa ==
    /\ plan = "avisa"
    /\ semReady' = semReady + 1
    /\ plan' = "esperaNew"
    /\ planPcb' = Nulo
    /\ UNCHANGED <<colaNew, semNew, semGrado, colaRR, colaFIFO, porAvisar, consolaVars,
                   despVars, hiloVars, memVars, caido>>

-----------------------------------------------------------------------------
(* cpu_dispatch_routine.c. *)

HilosVivos ==
    {<<"consola", p>> : p \in {q \in Procesos : consola[q] # "fin"}}
    \cup {<<"hilo", p>> : p \in {q \in Procesos : hilo[q] # "ninguno"}}
    \cup (IF porAvisar > 0 THEN {<<"hilo", Nulo>>} ELSE {})

(* sale_de_exec: pthread_cancel(last_clock_id), with RR and with FEEDBACK  *)
(* if the process came from its RR queue.  When the clock already ended,   *)
(* its identifier may be that of a thread created later, which is the one  *)
(* cancelled: Quantum says exactly when.  A cancelled thread goes on until *)
(* its next wait, usleep, recv or log line, and stops for ever: from here  *)
(* on nothing obliges it to take its next step.                            *)
SaleDeExec ==
    \/ UNCHANGED cancelados
    \/ /\ Algoritmo # "FIFO"
       /\ Cardinality(cancelados) < MaxCancelados
       /\ \E h \in HilosVivos : cancelados' = cancelados \cup {h}

(* The CPU introduces itself with INIT_CPU. *)
DespachoInicia ==
    /\ despacho = "inicio"
    /\ despacho' = "espera"
    /\ UNCHANGED <<enExec, consolaVars, planVars, readyVars, hiloVars, memVars, caido>>

(* The CPU returns p: obtener_y_actualizar_pcb_recibido looks it up in     *)
(* pcb_list and writes its program counter and registers.                  *)
CpuDevuelve(p) ==
    /\ despacho = "recibe"
    /\ enExec = p
    /\ Exige(pcb[p] = "listado")

DespachoDesalojo(p) ==
    /\ CpuDevuelve(p)
    /\ despacho' = "ingresa"
    /\ UNCHANGED <<enExec, consolaVars, planVars, readyVars, hiloVars, memVars>>

DespachoIngresa ==
    /\ despacho = "ingresa"
    /\ IngresarAReady(enExec, "DESALOJO_PROCESO")
    /\ enExec' = Nulo
    /\ despacho' = "avisa"
    /\ UNCHANGED <<semReady, porAvisar, consolaVars, planVars, hiloVars, memVars, caido>>

DespachoAvisa ==
    /\ despacho = "avisa"
    /\ semReady' = semReady + 1
    /\ despacho' = "espera"
    /\ UNCHANGED <<enExec, colaRR, colaFIFO, porAvisar, consolaVars, planVars, hiloVars,
                   memVars, caido>>

(* EXIT_PROCESO and SEG_FAULT: finalizar_proceso up to the console's post. *)
DespachoFinaliza(p) ==
    /\ CpuDevuelve(p)
    /\ pipeline' = [pipeline EXCEPT ![p] = "EXIT"]
    /\ semConsola' = [semConsola EXCEPT ![p] = @ + 1]
    /\ enExec' = Nulo
    /\ despacho' = "grado"
    /\ UNCHANGED <<consola, pcb, semEspera, planVars, readyVars, hiloVars, memVars>>

(* Mutant: the degree is not posted. *)
DespachoRetieneGrado ==
    /\ despacho = "grado"
    /\ despacho' = "espera"
    /\ UNCHANGED <<enExec, consolaVars, planVars, readyVars, hiloVars, memVars, caido>>

DespachoDevuelveGrado ==
    /\ despacho = "grado"
    /\ semGrado' = semGrado + 1
    /\ despacho' = "espera"
    /\ UNCHANGED <<enExec, plan, planPcb, colaNew, semNew, consolaVars, readyVars, hiloVars,
                   memVars, caido>>

(* bloquear_proceso creates the thread that will use the device. *)
DespachoBloquea(p, r) ==
    /\ CpuDevuelve(p)
    /\ hilo' = [hilo EXCEPT ![p] = "pideRecurso"]
    /\ recurso' = [recurso EXCEPT ![p] = r]
    /\ enExec' = Nulo
    /\ despacho' = "espera"
    /\ UNCHANGED <<semDispositivo, consolaVars, planVars, readyVars, memVars>>

(* page_fault_process creates the thread that will ask for the page. *)
DespachoPageFault(p) ==
    /\ CpuDevuelve(p)
    /\ hilo' = [hilo EXCEPT ![p] = "pidePagina"]
    /\ enExec' = Nulo
    /\ despacho' = "espera"
    /\ UNCHANGED <<recurso, semDispositivo, consolaVars, planVars, readyVars, memVars>>

(* Mutant: sem_proceso_entro_a_ready is a counter that nobody waits for. *)
DespachoNoEspera ==
    /\ despacho = "espera"
    /\ semReady' = semReady - 1
    /\ despacho' = "obtiene"
    /\ UNCHANGED <<enExec, colaRR, colaFIFO, porAvisar, consolaVars, planVars, hiloVars,
                   memVars, caido>>

(* Mutant: the dispatcher looks at the queues instead of waiting for the post. *)
DespachoMiraLaCola ==
    /\ despacho = "espera"
    /\ colaRR \o colaFIFO # <<>>
    /\ semReady' = IF semReady > 0 THEN semReady - 1 ELSE 0
    /\ despacho' = "obtiene"
    /\ UNCHANGED <<enExec, colaRR, colaFIFO, porAvisar, consolaVars, planVars, hiloVars,
                   memVars, caido>>

(* give_cpu_next_pcb: waits for a process in READY ... *)
DespachoEspera ==
    /\ despacho = "espera"
    /\ semReady > 0
    /\ semReady' = semReady - 1
    /\ despacho' = "obtiene"
    /\ UNCHANGED <<enExec, colaRR, colaFIFO, porAvisar, consolaVars, planVars, hiloVars,
                   memVars, caido>>

(* ... and obtener_siguiente_a_exec pops it, from the RR queue if there is *)
(* one with processes; its fields are then sent to the CPU.                *)
DespachoObtiene ==
    /\ despacho = "obtiene"
    /\ \/ /\ colaRR # <<>>
          /\ enExec' = Head(colaRR)
          /\ colaRR' = Tail(colaRR)
          /\ UNCHANGED colaFIFO
       \/ /\ colaRR = <<>>
          /\ enExec' = IF colaFIFO = <<>> THEN Nulo ELSE Head(colaFIFO)
          /\ colaFIFO' = IF colaFIFO = <<>> THEN <<>> ELSE Tail(colaFIFO)
          /\ UNCHANGED colaRR
    /\ Exige(PcbVivo(enExec'))
    /\ despacho' = "recibe"
    /\ UNCHANGED <<semReady, porAvisar, consolaVars, planVars, hiloVars, memVars>>

-----------------------------------------------------------------------------
(* memoria_routine.c: page_fault_routine, the thread of a page fault of p. *)

HiloPidePagina(p) ==
    /\ hilo[p] = "pidePagina"
    /\ PedirAMemoria("PAGE_FAULT", p)
    /\ hilo' = [hilo EXCEPT ![p] = "esperaPagina"]
    /\ UNCHANGED <<recurso, semDispositivo, consolaVars, planVars, readyVars, despVars, caido>>

HiloRecibePagina(p) ==
    /\ hilo[p] = "esperaPagina"
    /\ OperacionResuelta
    /\ hilo' = [hilo EXCEPT ![p] = "ingresa"]
    /\ UNCHANGED <<recurso, semDispositivo, consolaVars, planVars, readyVars, despVars, caido>>

(* blocked_routine.c: blocked_process_routine, the thread of an I/O of p.  *)

(* Mutant: the branch of the screen asks for the keyboard. *)
PedidoCopiado(r) == "CONSOLE_INPUT"

PedidoConsola(r) == IF r = "PANTALLA" THEN "CONSOLE_OUTPUT" ELSE "CONSOLE_INPUT"
RespuestaConsola(r) ==
    IF r = "PANTALLA" THEN "CONSOLE_OUTPUT_RESPUESTA" ELSE "CONSOLE_INPUT_RESPUESTA"

(* The device is none of dispositivos_IO: exit(EXIT_FAILURE). *)
HiloDesconoce(p) ==
    /\ hilo[p] = "pideRecurso"
    /\ recurso[p] \notin Recursos
    /\ salida' = "dispositivo"
    /\ UNCHANGED <<estadoVars, cancelados>>

(* Takes the device; the screen and the keyboard are used through the      *)
(* console thread, which the pipeline tells what to do.                    *)
HiloTomaRecurso(p) ==
    /\ hilo[p] = "pideRecurso"
    /\ recurso[p] \in Recursos
    /\ semDispositivo[recurso[p]] > 0
    /\ semDispositivo' = [semDispositivo EXCEPT ![recurso[p]] = @ - 1]
    /\ hilo' = [hilo EXCEPT ![p] = "usaRecurso"]
    /\ IF recurso[p] \in Dispositivos
       THEN UNCHANGED <<pipeline, semConsola>>
       ELSE /\ pipeline' = [pipeline EXCEPT ![p] = PedidoConsola(recurso[p])]
            /\ semConsola' = [semConsola EXCEPT ![p] = @ + 1]
    /\ Exige(PcbVivo(p))
    /\ UNCHANGED <<recurso, consola, pcb, semEspera, planVars, readyVars, despVars, memVars>>

(* Mutant: the device is not given back. *)
RetieneRecurso(p) ==
    /\ recurso' = [recurso EXCEPT ![p] = Nulo]
    /\ hilo' = [hilo EXCEPT ![p] = "ingresa"]
    /\ UNCHANGED semDispositivo

SueltaRecurso(p) ==
    /\ semDispositivo' = [semDispositivo EXCEPT ![recurso[p]] = @ + 1]
    /\ recurso' = [recurso EXCEPT ![p] = Nulo]
    /\ hilo' = [hilo EXCEPT ![p] = "ingresa"]

(* The time of the device is over. *)
HiloSueltaDispositivo(p) ==
    /\ hilo[p] = "usaRecurso"
    /\ recurso[p] \in Dispositivos
    /\ SueltaRecurso(p)
    /\ UNCHANGED <<consolaVars, planVars, readyVars, despVars, memVars, caido>>

(* The console thread posted console_waiter_semaphore. *)
HiloSueltaConsola(p) ==
    /\ hilo[p] = "usaRecurso"
    /\ recurso[p] \notin Dispositivos
    /\ semEspera[p] > 0
    /\ semEspera' = [semEspera EXCEPT ![p] = @ - 1]
    /\ SueltaRecurso(p)
    /\ Exige(PcbVivo(p) /\ pipeline[p] = RespuestaConsola(recurso[p]))
    /\ UNCHANGED <<consola, pcb, pipeline, semConsola, planVars, readyVars, despVars, memVars>>

(* Both routines end alike: ingresar_a_ready, and then the post. *)
HiloIngresa(p) ==
    /\ hilo[p] = "ingresa"
    /\ IngresarAReady(p, "BLOQUEO_PROCESO")
    /\ hilo' = [hilo EXCEPT ![p] = "ninguno"]
    /\ porAvisar' = porAvisar + 1
    /\ UNCHANGED <<semReady, recurso, semDispositivo, consolaVars, planVars, despVars, memVars,
                   caido>>

(* Mutant: a woken process is not announced. *)
HiloNoAvisa ==
    /\ porAvisar > 0
    /\ porAvisar' = porAvisar - 1
    /\ UNCHANGED <<colaRR, colaFIFO, semReady, consolaVars, planVars, despVars, hiloVars, memVars,
                   caido>>

HiloAvisa ==
    /\ porAvisar > 0
    /\ porAvisar' = porAvisar - 1
    /\ semReady' = semReady + 1
    /\ UNCHANGED <<colaRR, colaFIFO, consolaVars, planVars, despVars, hiloVars, memVars, caido>>

-----------------------------------------------------------------------------
(* memoria_routine.c: the thread that talks to Memoria. *)

(* enviar_a_memoria reads the globals and the PCB they point to. *)
MemoriaEnvia ==
    /\ canal = "libre"
    /\ semRoutine > 0
    /\ semRoutine' = semRoutine - 1
    /\ canal' = "pedido"
    /\ canalOp' = globalOp
    /\ canalPid' = globalPcb
    /\ Exige(PcbVivo(globalPcb))
    /\ UNCHANGED <<semHandlers, semResolved, globalOp, globalPcb, enMemoria, consolaVars,
                   planVars, readyVars, despVars, hiloVars>>

(* Memoria's kernel_routine serves the request and answers. *)
MemoriaAtiende ==
    /\ canal = "pedido"
    /\ canal' = "respuesta"
    /\ enMemoria' = CASE canalOp = "NUEVO_PROCESO" -> enMemoria \cup {canalPid}
                      [] canalOp = "EXIT_PROCESO"  -> enMemoria \ {canalPid}
                      [] OTHER                     -> enMemoria
    /\ UNCHANGED <<canalOp, canalPid, regionVars, consolaVars, planVars, readyVars, despVars,
                   hiloVars, caido>>

(* respuesta_memoria: the answer to NUEVO_PROCESO must be about the PCB of *)
(* the globals, whose segment table it replaces.                           *)
MemoriaRecibe ==
    /\ canal = "respuesta"
    /\ canal' = "libre"
    /\ canalOp' = Nulo
    /\ canalPid' = Nulo
    /\ semResolved' = semResolved + 1
    /\ Exige(canalOp = "NUEVO_PROCESO" => PcbVivo(globalPcb) /\ canalPid = globalPcb)
    /\ UNCHANGED <<semHandlers, semRoutine, globalOp, globalPcb, enMemoria, consolaVars,
                   planVars, readyVars, despVars, hiloVars>>

-----------------------------------------------------------------------------
Consolas(p) ==
    \/ ConsolaCrea(p) \/ ConsolaAvisa(p) \/ ConsolaDespierta(p) \/ ConsolaRecibe(p)
    \/ ConsolaPideSalida(p) \/ ConsolaLibera(p) \/ ConsolaDestruye(p)

Planificador ==
    \/ PlanEsperaNew \/ PlanEsperaGrado \/ PlanSaca \/ PlanPideMemoria \/ PlanRecibeMemoria
    \/ PlanAgrega \/ PlanIngresa \/ PlanRegistra \/ PlanAvisa

Despacho ==
    \/ DespachoInicia \/ DespachoIngresa \/ DespachoAvisa \/ DespachoDevuelveGrado
    \/ DespachoEspera \/ DespachoObtiene

RetornoCpu(p) ==
    \/ DespachoDesalojo(p) \/ DespachoFinaliza(p) \/ DespachoPageFault(p)
    \/ \E r \in Solicitudes : DespachoBloquea(p, r)

Hilos(p) ==
    \/ HiloPidePagina(p) \/ HiloRecibePagina(p) \/ HiloTomaRecurso(p)
    \/ HiloSueltaDispositivo(p) \/ HiloSueltaConsola(p) \/ HiloIngresa(p)

RutinaMemoria == MemoriaEnvia \/ MemoriaAtiende \/ MemoriaRecibe

(* Every console ended, so that the threads that are left wait for the     *)
(* next one, or there is no Kernel any more.                               *)
Ocioso ==
    /\ \/ salida # "no"
       \/ /\ \A p \in Procesos : consola[p] = "fin"
          /\ plan = "esperaNew" /\ despacho = "espera" /\ porAvisar = 0
    /\ UNCHANGED vars

Paso ==
    \/ \E p \in Procesos : Consolas(p) \/ Hilos(p)
    \/ Planificador
    \/ Despacho
    \/ HiloAvisa
    \/ RutinaMemoria

(* The dispatcher calls sale_de_exec whatever the reason of the return. *)
Retorno(p) == RetornoCpu(p) /\ SaleDeExec

(* The end of the Kernel by what a program or a console did. *)
Falla(p) == HiloDesconoce(p) \/ ConsolaFalla(p)

Next ==
    /\ ~caido
    /\ \/ salida = "no" /\ Paso /\ UNCHANGED salidaVars
       \/ salida = "no" /\ (\E p \in Procesos : Retorno(p)) /\ UNCHANGED salida
       \/ salida = "no" /\ \E p \in Procesos : Falla(p)
       \/ Ocioso

Spec == Init /\ [][Next]_vars

(* A thread that can go on and was not cancelled eventually does, and      *)
(* every program is finite: one that keeps getting the CPU ends.           *)
Anda(A) == ~caido /\ salida = "no" /\ A /\ UNCHANGED salidaVars
Sigue(h, A) == h \notin cancelados /\ Anda(A)

Equidad ==
    /\ \A p \in Procesos :
         /\ WF_vars(Sigue(<<"consola", p>>, Consolas(p)))
         /\ WF_vars(Sigue(<<"hilo", p>>, Hilos(p)))
         /\ WF_vars(<<"hilo", p>> \notin cancelados /\ ~caido /\ salida = "no" /\ HiloDesconoce(p))
         /\ SF_vars(~caido /\ salida = "no" /\ DespachoFinaliza(p) /\ SaleDeExec /\ UNCHANGED salida)
    /\ WF_vars(Anda(Planificador))
    /\ WF_vars(Anda(Despacho))
    /\ WF_vars(Sigue(<<"hilo", Nulo>>, HiloAvisa))
    /\ WF_vars(Anda(RutinaMemoria))

SpecJusta == Spec /\ Equidad
=============================================================================
