------------------------------ MODULE Quantum ------------------------------
(***************************************************************************)
(* The quantum of round robin and feedback: the clock thread that          *)
(* obtener_siguiente_exec starts with each turn and sale_de_exec cancels   *)
(* (round_robin.c, feedback.c), the thread that sends its notices to the   *)
(* CPU (cpu_interrupt_routine.c), and the three threads of the CPU that    *)
(* meet them: the one that receives the notices (interrupt.c), the one     *)
(* that receives and returns contexts (dispatch.c) and the cycle           *)
(* (ciclo.c).                                                              *)
(*                                                                         *)
(* Threads of the Kernel are known by their pthread_t, which is used again *)
(* when a thread ends: last_clock_id may come to name another thread.      *)
(* Cancelling a clock that waits for sem_interrupt_algorithms may fail to  *)
(* stop it, when it is past its last cancellation point: it is late then,  *)
(* and gives its notice after its process left the CPU.                    *)
(*                                                                         *)
(* Kernel.tla shows that there is one token of READY per process pushed;   *)
(* here a push and its post are one step.                                  *)
(***************************************************************************)
EXTENDS Naturals, Sequences, FiniteSets, Functions

CONSTANTS Procesos,     \* the processes
          Hilos,        \* the values of pthread_t: the clocks and other threads alive at a time
          MaxOtros,     \* bound on the threads other than clocks
          MaxAvisos,    \* bound on the notices in the interruption socket
          Algoritmo,    \* ALGORITMO_PLANIFICACION
          QuantumLargo, \* a quantum outlasts the trip of a context and of a notice
          Nulo          \* no process, no thread

ASSUME SupuestosQuantum ==
    /\ IsFiniteSet(Hilos)
    /\ MaxOtros \in Nat /\ MaxAvisos \in Nat \ {0}
    /\ Algoritmo \in {"FIFO", "RR", "FEEDBACK"}
    /\ QuantumLargo \in BOOLEAN
    /\ Nulo \notin Procesos \cup Hilos

VARIABLES
    colaRR,       \* cola_algoritmo_rr, cola_algoritmo_feedback_rr
    colaFIFO,     \* cola_algoritmo_fifo, cola_algoritmo_feedback_fifo
    fuera,        \* the processes not yet pushed to READY, new or blocked
    despacho,     \* the step of cpu_dispatch_routine
    enExec,       \* its unPcb
    isRR,         \* is_rr: the last process popped has a clock
    ultimo,       \* last_clock_id_rr, last_clock_id_fb
    hilo,         \* the step of each thread
    hiloPid,      \* the pid of each clock
    semAlg,       \* sem_interrupt_algorithms
    semRoutine,   \* sem_interrupt_routine
    globalPid,    \* global_pid_to_interrupt
    interrup,     \* the step of cpu_interrupt_routine
    localPid,     \* its local_pid_to_interrupt
    canalInt,     \* the notices in the interruption socket
    canalPcb,     \* the dispatch socket, towards the CPU: a process
    canalCtx,     \* the dispatch socket, towards the Kernel: a process and an operation
    cpu,          \* the step of dispatch_routine
    ctx,          \* mi_contexto->id
    operacion,    \* mi_contexto->pipeline.operacion
    semCiclo,     \* sem_ciclo_instruccion
    semEnvio,     \* sem_envio_contexto
    ciclo,        \* the step of ciclo_instruccion
    pidInt,       \* pid_interrupt
    flag,         \* flag_interrupcion
    vencido,      \* history: the clock of this turn took sem_interrupt_algorithms
    heredado,     \* history: the turn began with a notice for its process under way
    avisada,      \* history: the last notice the CPU got in this turn is for its process
    enCamino      \* history: the notices given and not received, in order

readyVars == <<colaRR, colaFIFO, fuera>>
despVars  == <<despacho, enExec, isRR, ultimo>>
hiloVars  == <<hilo, hiloPid>>
buzonVars == <<semAlg, semRoutine, globalPid>>
intVars   == <<interrup, localPid, canalInt>>
redVars   == <<canalPcb, canalCtx>>
cpuVars   == <<cpu, ctx, operacion, semCiclo, semEnvio, ciclo>>
flagVars  == <<pidInt, flag>>
turnoVars == <<vencido, heredado>>
vars == <<readyVars, despVars, hiloVars, buzonVars, intVars, redVars, cpuVars, flagVars,
          turnoVars, avisada, enCamino>>

PasosHilo == {"libre", "duerme", "espera", "tarde", "escribe", "otro"}
Retornos == {"DESALOJO_PROCESO", "BLOQUEO_PROCESO", "EXIT_PROCESO", "PAGE_FAULT", "SEG_FAULT"}
Faltas == {"PAGE_FAULT", "SEG_FAULT"}
SinPcb == [pid |-> Nulo, op |-> "EXIT_PROCESO"]

TipoReady == colaRR \in Seq(Procesos) /\ colaFIFO \in Seq(Procesos) /\ fuera \subseteq Procesos

TipoDespacho ==
    /\ despacho \in {"obtiene", "envia", "recibe", "sale", "deriva"}
    /\ enExec \in Procesos \cup {Nulo}
    /\ isRR \in BOOLEAN
    /\ ultimo \in Hilos \cup {Nulo}

TipoHilos ==
    /\ hilo \in [Hilos -> PasosHilo]
    /\ hiloPid \in [Hilos -> Procesos \cup {Nulo}]

TipoAvisos ==
    /\ semAlg \in Nat /\ semRoutine \in Nat
    /\ globalPid \in Procesos \cup {Nulo}
    /\ interrup \in {"espera", "copia", "envia"}
    /\ localPid \in Procesos \cup {Nulo}
    /\ canalInt \in Seq(Procesos) /\ enCamino \in Seq(Procesos)

TipoRed ==
    /\ canalPcb \in Procesos \cup {Nulo}
    /\ canalCtx \in [pid : Procesos \cup {Nulo}, op : Retornos]

TipoCpu ==
    /\ cpu \in {"recibe", "limpia", "espera"}
    /\ ctx \in Procesos \cup {Nulo}
    /\ operacion \in Retornos \cup {"PROXIMO_PCB"}
    /\ semCiclo \in Nat /\ semEnvio \in Nat
    /\ ciclo \in {"espera", "ejecuta", "chequea"}

TipoFlag ==
    /\ pidInt \in Procesos \cup {Nulo}
    /\ flag \in BOOLEAN /\ vencido \in BOOLEAN /\ heredado \in BOOLEAN /\ avisada \in BOOLEAN

TypeOK == TipoReady /\ TipoDespacho /\ TipoHilos /\ TipoAvisos /\ TipoRed /\ TipoCpu /\ TipoFlag

Init ==
    /\ colaRR = <<>> /\ colaFIFO = <<>> /\ fuera = Procesos
    /\ despacho = "obtiene" /\ enExec = Nulo /\ isRR = FALSE /\ ultimo = Nulo
    /\ hilo = [k \in Hilos |-> "libre"]
    /\ hiloPid = [k \in Hilos |-> Nulo]
    /\ semAlg = 1 /\ semRoutine = 0 /\ globalPid = Nulo
    /\ interrup = "espera" /\ localPid = Nulo /\ canalInt = <<>>
    /\ canalPcb = Nulo /\ canalCtx = SinPcb
    /\ cpu = "recibe" /\ ctx = Nulo /\ operacion = "PROXIMO_PCB"
    /\ semCiclo = 0 /\ semEnvio = 0 /\ ciclo = "espera"
    /\ pidInt = Nulo /\ flag = FALSE
    /\ vencido = FALSE /\ heredado = FALSE /\ avisada = FALSE /\ enCamino = <<>>

-----------------------------------------------------------------------------
(* The READY queues and the turns. *)

(* ingresar_a_ready of the three algorithms; a feedback process that lost  *)
(* the CPU goes to the second queue, which has no quantum.                 *)
IngresarAReady(p, op) ==
    IF Algoritmo = "RR" \/ (Algoritmo = "FEEDBACK" /\ op # "DESALOJO_PROCESO")
    THEN colaRR' = Append(colaRR, p) /\ UNCHANGED colaFIFO
    ELSE colaFIFO' = Append(colaFIFO, p) /\ UNCHANGED colaRR

(* The planner admits p, or the thread of its device or page wakes it. *)
EntraAReady(p) ==
    /\ p \in fuera
    /\ IngresarAReady(p, "BLOQUEO_PROCESO")
    /\ fuera' = fuera \ {p}
    /\ UNCHANGED <<despVars, hiloVars, buzonVars, intVars, redVars, cpuVars, flagVars,
                   turnoVars, avisada, enCamino>>

(* A notice for p that has not reached the CPU, or a late clock that will give it. *)
AvisoEnVuelo(p) ==
    \/ \E i \in DOMAIN enCamino : enCamino[i] = p
    \/ \E k \in Hilos : hilo[k] \in {"tarde", "escribe"} /\ hiloPid[k] = p

ComienzaTurno(p) ==
    /\ despacho' = "envia"
    /\ enExec' = p
    /\ vencido' = FALSE
    /\ heredado' = AvisoEnVuelo(p)
    /\ avisada' = FALSE
    /\ UNCHANGED <<fuera, buzonVars, intVars, redVars, cpuVars, flagVars, enCamino>>

(* obtener_siguiente_exec from the queue with quantum: a clock is born with *)
(* a pthread_t that is free.                                                *)
ObtieneConReloj(k) ==
    /\ despacho = "obtiene"
    /\ colaRR # <<>>
    /\ hilo[k] = "libre"
    /\ colaRR' = Tail(colaRR)
    /\ hilo' = [hilo EXCEPT ![k] = "duerme"]
    /\ hiloPid' = [hiloPid EXCEPT ![k] = Head(colaRR)]
    /\ ultimo' = k
    /\ isRR' = TRUE
    /\ UNCHANGED colaFIFO
    /\ ComienzaTurno(Head(colaRR))

(* Mutant: is_rr keeps the value of the previous turn. *)
ObtieneSinOlvidar ==
    /\ despacho = "obtiene"
    /\ colaRR = <<>> /\ colaFIFO # <<>>
    /\ colaFIFO' = Tail(colaFIFO)
    /\ UNCHANGED <<colaRR, hiloVars, ultimo, isRR>>
    /\ ComienzaTurno(Head(colaFIFO))

(* The same from the queue without quantum. *)
ObtieneSinReloj ==
    /\ despacho = "obtiene"
    /\ colaRR = <<>> /\ colaFIFO # <<>>
    /\ colaFIFO' = Tail(colaFIFO)
    /\ isRR' = FALSE
    /\ UNCHANGED <<colaRR, hiloVars, ultimo>>
    /\ ComienzaTurno(Head(colaFIFO))

EnviaPcb ==
    /\ despacho = "envia"
    /\ canalPcb' = enExec
    /\ despacho' = "recibe"
    /\ UNCHANGED <<readyVars, enExec, isRR, ultimo, hiloVars, buzonVars, intVars, canalCtx,
                   cpuVars, flagVars, turnoVars, avisada, enCamino>>

RecibeContexto ==
    /\ despacho = "recibe"
    /\ canalCtx.pid # Nulo
    /\ enExec' = canalCtx.pid
    /\ despacho' = "sale"
    /\ UNCHANGED <<readyVars, isRR, ultimo, hiloVars, buzonVars, intVars, redVars, cpuVars,
                   flagVars, turnoVars, avisada, enCamino>>

(* What pthread_cancel may make of a thread in each step.  A clock asleep  *)
(* ends; one at sem_wait may be past the cancellation point.  Whatever     *)
(* other thread has the pthread_t ends too.                                *)
TrasCancelar(paso) ==
    IF paso \in {"espera", "tarde"} THEN {"libre", "tarde"}
    ELSE IF paso = "escribe" THEN {"escribe"} ELSE {"libre"}

(* Mutant: a page fault does not stop the clock. *)
SaleSalvoFalta ==
    /\ despacho = "sale"
    /\ IF isRR /\ canalCtx.op # "PAGE_FAULT"
       THEN /\ semAlg > 0
            /\ \E paso \in TrasCancelar(hilo[ultimo]) : hilo' = [hilo EXCEPT ![ultimo] = paso]
       ELSE UNCHANGED hilo
    /\ despacho' = "deriva"
    /\ UNCHANGED <<readyVars, enExec, isRR, ultimo, hiloPid, buzonVars, intVars, redVars,
                   cpuVars, flagVars, turnoVars, avisada, enCamino>>

(* sale_de_exec: the clock is cancelled between the wait and the post of   *)
(* sem_interrupt_algorithms, when the turn had one.                        *)
SaleDeExec ==
    /\ despacho = "sale"
    /\ IF isRR
       THEN /\ semAlg > 0
            /\ \E paso \in TrasCancelar(hilo[ultimo]) : hilo' = [hilo EXCEPT ![ultimo] = paso]
       ELSE UNCHANGED hilo
    /\ despacho' = "deriva"
    /\ UNCHANGED <<readyVars, enExec, isRR, ultimo, hiloPid, buzonVars, intVars, redVars,
                   cpuVars, flagVars, turnoVars, avisada, enCamino>>

(* What the dispatcher does with the process that left: READY, blocked or  *)
(* ended.                                                                  *)
Deriva ==
    /\ despacho = "deriva"
    /\ \/ /\ canalCtx.op = "DESALOJO_PROCESO"
          /\ IngresarAReady(enExec, "DESALOJO_PROCESO")
          /\ UNCHANGED fuera
       \/ /\ canalCtx.op \in {"BLOQUEO_PROCESO", "PAGE_FAULT"}
          /\ fuera' = fuera \cup {enExec}
          /\ UNCHANGED <<colaRR, colaFIFO>>
       \/ /\ canalCtx.op \in {"EXIT_PROCESO", "SEG_FAULT"}
          /\ UNCHANGED readyVars
    /\ canalCtx' = SinPcb
    /\ enExec' = Nulo
    /\ despacho' = "obtiene"
    /\ UNCHANGED <<isRR, ultimo, hiloVars, buzonVars, intVars, canalPcb, cpuVars, flagVars,
                   turnoVars, avisada, enCamino>>

-----------------------------------------------------------------------------
(* The clocks and the other threads. *)

(* The context is on its way to the CPU, or the CPU has not cleared the    *)
(* flag for it yet.                                                        *)
ContextoEnCamino == despacho = "envia" \/ canalPcb # Nulo \/ cpu = "limpia"

NoHayAtrasados ==
    enCamino = <<>> /\ \A k \in Hilos : hilo[k] \notin {"tarde", "escribe"}

(* usleep ends. *)
Despierta(k) ==
    /\ hilo[k] = "duerme"
    /\ QuantumLargo => ~ContextoEnCamino /\ NoHayAtrasados
    /\ hilo' = [hilo EXCEPT ![k] = "espera"]
    /\ UNCHANGED <<readyVars, despVars, hiloPid, buzonVars, intVars, redVars, cpuVars, flagVars,
                   turnoVars, avisada, enCamino>>

(* Mutant: the clock does not wait for sem_interrupt_algorithms. *)
TomaSinEsperar(k) ==
    /\ hilo[k] \in {"espera", "tarde"}
    /\ hilo' = [hilo EXCEPT ![k] = "escribe"]
    /\ vencido' = (vencido \/ hilo[k] = "espera")
    /\ UNCHANGED <<readyVars, despVars, hiloPid, buzonVars, intVars, redVars, cpuVars,
                   flagVars, heredado, avisada, enCamino>>

(* sem_wait(&sem_interrupt_algorithms) *)
TomaBuzon(k) ==
    /\ hilo[k] \in {"espera", "tarde"}
    /\ semAlg > 0
    /\ semAlg' = semAlg - 1
    /\ hilo' = [hilo EXCEPT ![k] = "escribe"]
    /\ vencido' = (vencido \/ hilo[k] = "espera")
    /\ UNCHANGED <<readyVars, despVars, hiloPid, semRoutine, globalPid, intVars, redVars,
                   cpuVars, flagVars, heredado, avisada, enCamino>>

(* The notice is left and the thread ends. *)
Escribe(k) ==
    /\ hilo[k] = "escribe"
    /\ globalPid' = hiloPid[k]
    /\ semRoutine' = semRoutine + 1
    /\ hilo' = [hilo EXCEPT ![k] = "libre"]
    /\ enCamino' = Append(enCamino, hiloPid[k])
    /\ UNCHANGED <<readyVars, despVars, hiloPid, semAlg, intVars, redVars, cpuVars,
                   flagVars, turnoVars, avisada>>

Reloj(k) == Despierta(k) \/ TomaBuzon(k) \/ Escribe(k)

(* A console, blocked or page-fault thread is born or ends. *)
NaceHilo(k) ==
    /\ hilo[k] = "libre"
    /\ Cardinality({j \in Hilos : hilo[j] = "otro"}) < MaxOtros
    /\ hilo' = [hilo EXCEPT ![k] = "otro"]
    /\ UNCHANGED <<readyVars, despVars, hiloPid, buzonVars, intVars, redVars, cpuVars,
                   flagVars, turnoVars, avisada, enCamino>>
TerminaHilo(k) ==
    /\ hilo[k] = "otro"
    /\ hilo' = [hilo EXCEPT ![k] = "libre"]
    /\ UNCHANGED <<readyVars, despVars, hiloPid, buzonVars, intVars, redVars, cpuVars,
                   flagVars, turnoVars, avisada, enCamino>>

-----------------------------------------------------------------------------
(* cpu_interrupt_routine of the Kernel. *)

(* Mutant: the wait for sem_interrupt_routine does not block. *)
InterrupNoEspera ==
    /\ interrup = "espera"
    /\ semRoutine' = semRoutine - 1
    /\ interrup' = "copia"
    /\ UNCHANGED <<readyVars, despVars, hiloVars, semAlg, globalPid, localPid, canalInt,
                   redVars, cpuVars, flagVars, turnoVars, avisada, enCamino>>

InterrupEspera ==
    /\ interrup = "espera"
    /\ semRoutine > 0
    /\ semRoutine' = semRoutine - 1
    /\ interrup' = "copia"
    /\ UNCHANGED <<readyVars, despVars, hiloVars, semAlg, globalPid, localPid, canalInt,
                   redVars, cpuVars, flagVars, turnoVars, avisada, enCamino>>

InterrupCopia ==
    /\ interrup = "copia"
    /\ localPid' = globalPid
    /\ semAlg' = semAlg + 1
    /\ interrup' = "envia"
    /\ UNCHANGED <<readyVars, despVars, hiloVars, semRoutine, globalPid, canalInt, redVars,
                   cpuVars, flagVars, turnoVars, avisada, enCamino>>

InterrupEnvia ==
    /\ interrup = "envia"
    /\ Len(canalInt) < MaxAvisos
    /\ canalInt' = Append(canalInt, localPid)
    /\ interrup' = "espera"
    /\ UNCHANGED <<readyVars, despVars, hiloVars, buzonVars, localPid, redVars, cpuVars,
                   flagVars, turnoVars, avisada, enCamino>>

-----------------------------------------------------------------------------
(* The CPU. *)

(* Mutant: a notice is not taken while another one is pending. *)
InterrumpeSiLibre ==
    /\ canalInt # <<>>
    /\ IF flag THEN UNCHANGED flagVars ELSE pidInt' = Head(canalInt) /\ flag' = TRUE
    /\ canalInt' = Tail(canalInt)
    /\ enCamino' = Tail(enCamino)
    /\ avisada' = (cpu = "espera" /\ Head(canalInt) = ctx)
    /\ UNCHANGED <<readyVars, despVars, hiloVars, buzonVars, interrup, localPid, redVars,
                   cpuVars, turnoVars>>

(* interrupt_routine: a notice takes the place of the previous one. *)
Interrumpe ==
    /\ canalInt # <<>>
    /\ pidInt' = Head(canalInt)
    /\ flag' = TRUE
    /\ canalInt' = Tail(canalInt)
    /\ enCamino' = Tail(enCamino)
    /\ avisada' = (cpu = "espera" /\ Head(canalInt) = ctx)
    /\ UNCHANGED <<readyVars, despVars, hiloVars, buzonVars, interrup, localPid, redVars,
                   cpuVars, turnoVars>>

(* dispatch_routine receives a context. *)
CpuRecibe ==
    /\ cpu = "recibe"
    /\ canalPcb # Nulo
    /\ operacion' = "PROXIMO_PCB"
    /\ ctx' = canalPcb
    /\ canalPcb' = Nulo
    /\ cpu' = "limpia"
    /\ UNCHANGED <<readyVars, despVars, hiloVars, buzonVars, intVars, canalCtx, semCiclo,
                   semEnvio, ciclo, flagVars, turnoVars, avisada, enCamino>>

(* Mutant: the flag of the previous context stays. *)
CpuNoLimpia ==
    /\ cpu = "limpia"
    /\ semCiclo' = semCiclo + 1
    /\ cpu' = "espera"
    /\ UNCHANGED <<readyVars, despVars, hiloVars, buzonVars, intVars, redVars, ctx, operacion,
                   semEnvio, ciclo, flagVars, turnoVars, avisada, enCamino>>

(* It forgets the interruption that was pending and wakes the cycle. *)
CpuLimpia ==
    /\ cpu = "limpia"
    /\ pidInt' = Nulo
    /\ flag' = FALSE
    /\ semCiclo' = semCiclo + 1
    /\ cpu' = "espera"
    /\ UNCHANGED <<readyVars, despVars, hiloVars, buzonVars, intVars, redVars, ctx, operacion,
                   semEnvio, ciclo, turnoVars, avisada, enCamino>>

(* It returns the context. *)
CpuDevuelve ==
    /\ cpu = "espera"
    /\ semEnvio > 0
    /\ semEnvio' = semEnvio - 1
    /\ canalCtx' = [pid |-> ctx, op |-> operacion]
    /\ cpu' = "recibe"
    /\ UNCHANGED <<readyVars, despVars, hiloVars, buzonVars, intVars, canalPcb, ctx, operacion,
                   semCiclo, ciclo, flagVars, turnoVars, avisada, enCamino>>

CicloEspera ==
    /\ ciclo = "espera"
    /\ semCiclo > 0
    /\ semCiclo' = semCiclo - 1
    /\ ciclo' = "ejecuta"
    /\ UNCHANGED <<readyVars, despVars, hiloVars, buzonVars, intVars, redVars, cpu, ctx,
                   operacion, semEnvio, flagVars, turnoVars, avisada, enCamino>>

(* An instruction that goes on, or that returns the context after the check. *)
CicloEjecuta(op) ==
    /\ ciclo = "ejecuta"
    /\ operacion' = op
    /\ ciclo' = "chequea"
    /\ UNCHANGED <<readyVars, despVars, hiloVars, buzonVars, intVars, redVars, cpu, ctx,
                   semCiclo, semEnvio, flagVars, turnoVars, avisada, enCamino>>

(* Mutant: after a fault the cycle does not wait for the next context. *)
CicloFaltaSigue(op) ==
    /\ ciclo = "ejecuta"
    /\ operacion' = op
    /\ semEnvio' = semEnvio + 1
    /\ UNCHANGED <<readyVars, despVars, hiloVars, buzonVars, intVars, redVars, cpu, ctx, ciclo,
                   semCiclo, flagVars, turnoVars, avisada, enCamino>>

(* An instruction that faults returns the context without the check. *)
CicloFalta(op) ==
    /\ ciclo = "ejecuta"
    /\ operacion' = op
    /\ semEnvio' = semEnvio + 1
    /\ ciclo' = "espera"
    /\ UNCHANGED <<readyVars, despVars, hiloVars, buzonVars, intVars, redVars, cpu, ctx,
                   semCiclo, flagVars, turnoVars, avisada, enCamino>>

(* check_interrupt evicts the process: the notice is for it and it is not leaving anyway. *)
Desaloja == flag /\ pidInt = ctx /\ operacion = "PROXIMO_PCB"

(* check_interrupt, and the return of the context when there is a reason.  *)
(* A notice for another process is dropped.                                *)
CicloChequea ==
    /\ ciclo = "chequea"
    /\ operacion' = IF Desaloja THEN "DESALOJO_PROCESO" ELSE operacion
    /\ flag' = (flag /\ pidInt = ctx /\ ~Desaloja)
    /\ IF operacion' = "PROXIMO_PCB"
       THEN ciclo' = "ejecuta" /\ UNCHANGED semEnvio
       ELSE ciclo' = "espera" /\ semEnvio' = semEnvio + 1
    /\ UNCHANGED <<readyVars, despVars, hiloVars, buzonVars, intVars, redVars, cpu, ctx,
                   semCiclo, pidInt, turnoVars, avisada, enCamino>>

-----------------------------------------------------------------------------
Despacho == \/ \E k \in Hilos : ObtieneConReloj(k)
            \/ ObtieneSinReloj \/ EnviaPcb \/ RecibeContexto \/ SaleDeExec \/ Deriva
Interrup == InterrupEspera \/ InterrupCopia \/ InterrupEnvia
Ejecuta  == \/ \E op \in {"PROXIMO_PCB", "BLOQUEO_PROCESO", "EXIT_PROCESO"} : CicloEjecuta(op)
            \/ \E op \in Faltas : CicloFalta(op)
Cpu      == CpuRecibe \/ CpuLimpia \/ CpuDevuelve
Ciclo    == CicloEspera \/ Ejecuta \/ CicloChequea
Externos == \/ \E p \in Procesos : EntraAReady(p)
            \/ \E k \in Hilos : NaceHilo(k) \/ TerminaHilo(k)

Next == Despacho \/ (\E k \in Hilos : Reloj(k)) \/ Interrup \/ Interrumpe \/ Cpu \/ Ciclo \/ Externos

Spec == Init /\ [][Next]_vars

(* Every thread that can go on does; a device or a page wakes its process, *)
(* and threads that are not clocks end.  No program has to end or block.   *)
SpecJusta ==
    /\ Spec
    /\ WF_vars(Despacho) /\ WF_vars(Interrup) /\ WF_vars(Interrumpe) /\ WF_vars(Cpu) /\ WF_vars(Ciclo)
    /\ \A k \in Hilos : WF_vars(Reloj(k)) /\ WF_vars(TerminaHilo(k))
    /\ \A p \in Procesos : WF_vars(EntraAReady(p))
=============================================================================
