--------------------------- MODULE EstadosProceso ---------------------------
(***************************************************************************)
(* What the Kernel promises to whoever reads its log: the five-state       *)
(* process diagram.  Every transition below is one that some routine of    *)
(* the Kernel announces ("-> NEW", "NEW -> READY", "READY -> EXEC",        *)
(* "EXEC -> READY", "EXEC -> BLOCKED", "EXEC -> EXIT"), and nothing is     *)
(* said of threads, semaphores or queues.  Kernel.tla implements it.       *)
(***************************************************************************)
EXTENDS Naturals, FiniteSets

CONSTANTS Procesos,  \* the processes, one per console
          Grado      \* GRADO_MAX_MULTIPROGRAMACION

VARIABLE estado

EstadosPosibles == {"INICIO", "NEW", "READY", "EXEC", "BLOCKED", "EXIT"}

(* The processes that take part in the multiprogramming degree. *)
Activos == {p \in Procesos : estado[p] \in {"READY", "EXEC", "BLOCKED"}}

Init == estado = [p \in Procesos |-> "INICIO"]

Pasa(p, desde, hasta) ==
    /\ estado[p] = desde
    /\ estado' = [estado EXCEPT ![p] = hasta]

(* planificador_routine.c: ingresar_a_new *)
Crear(p) == Pasa(p, "INICIO", "NEW")

(* planificador_routine.c: new_a_ready, under the multiprogramming degree *)
Admitir(p) ==
    /\ Cardinality(Activos) < Grado
    /\ Pasa(p, "NEW", "READY")

(* cpu_dispatch_routine.c: give_cpu_next_pcb; there is one CPU *)
Despachar(p) ==
    /\ \A q \in Procesos : estado[q] # "EXEC"
    /\ Pasa(p, "READY", "EXEC")

(* cpu_dispatch_routine.c: the cases of cpu_dispatch_routine *)
Desalojar(p) == Pasa(p, "EXEC", "READY")
Bloquear(p)  == Pasa(p, "EXEC", "BLOCKED")
Finalizar(p) == Pasa(p, "EXEC", "EXIT")

(* blocked_routine.c and memoria_routine.c: the thread that woke it *)
Despertar(p) == Pasa(p, "BLOCKED", "READY")

Next == \E p \in Procesos :
            \/ Crear(p) \/ Admitir(p) \/ Despachar(p) \/ Desalojar(p)
            \/ Bloquear(p) \/ Finalizar(p) \/ Despertar(p)

Spec == Init /\ [][Next]_estado

(* Every process that a console brings ends: what the user waits for. *)
TodosTerminan == \A p \in Procesos : <>[](estado[p] = "EXIT")
=============================================================================
