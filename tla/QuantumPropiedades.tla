------------------------ MODULE QuantumPropiedades -------------------------
(***************************************************************************)
(* The properties of the quantum: no notice is lost or takes the place of  *)
(* another before the CPU gets it, clocks belong to turns, a process loses *)
(* the CPU for its own quantum only, and obeys a notice it gets in time.   *)
(***************************************************************************)
EXTENDS Quantum

Uno(b) == IF b THEN 1 ELSE 0

-----------------------------------------------------------------------------
(* mi_contexto has no mutex: the dispatch thread of the CPU, which fills   *)
(* it, and the cycle, which changes it, take turns by two semaphores, so   *)
(* never work on it at the same time, whatever the way an instruction ends. *)
ContextoExclusivo ==
    Uno(cpu # "espera") + semCiclo + Uno(ciclo # "espera") + semEnvio = 1

(* The global that carries a notice is in the hands of one thread at a     *)
(* time: the clock between its wait and its post, the interruption thread  *)
(* between its own, or nobody; cancelling clocks neither takes the mailbox *)
(* away for ever nor frees it twice.                                       *)
BuzonExclusivo ==
    semAlg + semRoutine + Uno(interrup = "copia")
        + Cardinality({k \in Hilos : hilo[k] = "escribe"}) = 1

(* Notices reach the CPU all, once and in the order the clocks gave them,  *)
(* through the global, the local copy and the socket.                      *)
AvisosEnOrden ==
    enCamino = canalInt
               \o (IF interrup = "envia" THEN <<localPid>> ELSE <<>>)
               \o (IF semRoutine > 0 \/ interrup = "copia" THEN <<globalPid>> ELSE <<>>)

(* A clock that runs in time is that of the process the dispatcher sent to *)
(* the CPU, the one that last_clock_id names; and a process with a quantum *)
(* that is not back has its clock running, unless it went off.  So no turn *)
(* is left without its clock, and none ends with it running.               *)
EnTurno == despacho \in {"envia", "recibe", "sale"}
RelojDelTurno ==
    /\ \A k \in Hilos : hilo[k] \in {"duerme", "espera"} =>
           EnTurno /\ isRR /\ k = ultimo /\ hiloPid[k] = enExec
    /\ EnTurno /\ isRR => vencido \/ hilo[ultimo] \in {"duerme", "espera"}

(* A process is evicted because the clock of its turn went off, or because *)
(* a notice for it, of an earlier turn, was still under way when the turn  *)
(* began; never for the quantum of another process, and never for one that *)
(* the CPU had received before the context.                                *)
DesalojoJustificado ==
    [][operacion' = "DESALOJO_PROCESO" /\ operacion # "DESALOJO_PROCESO"
         => vencido \/ heredado]_vars

(* Once the CPU has a notice for the process it runs, and no other notice  *)
(* took its place, the process starts no other instruction.                *)
ObedeceAviso ==
    [][ciclo = "chequea" /\ ciclo' = "ejecuta" => ~avisada]_vars

(* The cancellation of sale_de_exec stops no thread but the clock of the   *)
(* turn, unless that clock went off: then its pthread_t may have been      *)
(* given to a console, blocked or page-fault thread, which is killed.      *)
CancelaSuReloj ==
    [][\A k \in Hilos : despacho = "sale" /\ despacho' # "sale" /\ hilo'[k] # hilo[k]
         => vencido \/ (hilo[k] \in {"duerme", "espera"} /\ hiloPid[k] = enExec)]_vars

(* With a quantum that outlasts the trip of a context and of a notice, round *)
(* robin leaves nobody waiting: a process in READY gets the CPU even if the  *)
(* others never end or block.                                                *)
NadieEspera ==
    \A p \in Procesos : (\E i \in DOMAIN colaRR : colaRR[i] = p) ~> enExec = p
=============================================================================
