-------------------------- MODULE CicloPropiedades --------------------------
(***************************************************************************)
(* The properties of the instruction cycle: a well-formed program runs as  *)
(* its author expects whatever runs beside it, no process changes another, *)
(* and programs end.                                                       *)
(***************************************************************************)
EXTENDS Ciclo

Registrada(palabra) == palabra \in {r \in DOMAIN Indice : Indice[r] \in Indices}

(* A line with all its words, each of the kind that its operation needs. *)
BienFormada(linea) ==
    \/ linea.op = "SET" /\ Registrada(linea.oper1) /\ linea.oper2 \in DOMAIN Numeral
    \/ linea.op = "ADD" /\ Registrada(linea.oper1) /\ Registrada(linea.oper2)
    \/ linea.op = "MOV_IN" /\ Registrada(linea.oper1) /\ linea.oper2 \in DOMAIN Numeral
    \/ linea.op = "MOV_OUT" /\ linea.oper1 \in DOMAIN Numeral /\ Registrada(linea.oper2)
    \/ linea.op = "I/O" /\ linea.oper1 \in {"TECLADO", "PANTALLA"} /\ Registrada(linea.oper2)
    \/ /\ linea.op = "I/O" /\ linea.oper1 \in Dispositivos \ {"TECLADO", "PANTALLA"}
       /\ linea.oper2 \in DOMAIN Numeral
    \/ linea.op = "EXIT"

(* The processes whose lines are well formed and end with EXIT, and whose  *)
(* segments fit in their tables of pages.                                  *)
BienFormados ==
    {p \in Procesos : /\ Segmentos[p] \in Seq(0..TamMaxSegmento)
                      /\ Len(Programa[p]) > 0
                      /\ \A i \in DOMAIN Programa[p] : BienFormada(Programa[p][i])
                      /\ Programa[p][Len(Programa[p])].op = "EXIT"}

-----------------------------------------------------------------------------
(* Where the registers and the program_counter of a process are: in its    *)
(* PCB, in a message or in the CPU, whose counter advances after the       *)
(* instruction.                                                            *)
EnCpu(p) == lugar[p] = "exec" /\ turno \in {"ejecuta", "cierra", "devuelve"}
Vista(p) ==
    IF EnCpu(p)
    THEN [pc |-> contexto.pc + (IF turno = "cierra" /\ ~falta THEN 1 ELSE 0), regs |-> contexto.regs]
    ELSE IF lugar[p] = "exec" THEN [pc |-> canal.pc, regs |-> canal.regs]
    ELSE pcb[p]

OperacionDe(p) == IF EnCpu(p) \/ turno = "actualiza" THEN operacion ELSE "PROXIMO_PCB"

EstadoDe(p) ==
    IF lugar[p] = "fin" \/ (lugar[p] = "exec" /\ OperacionDe(p) \in Finales) THEN "fin"
    ELSE IF lugar[p] = "dispositivo" \/ (lugar[p] = "exec" /\ OperacionDe(p) = "BLOQUEO_PROCESO")
    THEN "espera"
    ELSE "corre"

(* The addresses that the author of a program may use: the segments follow *)
(* one another every TamMaxSegmento bytes, whatever their pages.           *)
DireccionesDe(p) ==
    {d \in {Numeral[n] : n \in DOMAIN Numeral} \cup {0} :
       \E s \in DOMAIN Segmentos[p] :
          LET base == (s - 1) * TamMaxSegmento
          IN  base <= d /\ d < base + Segmentos[p][s]}

Interprete == INSTANCE Interprete WITH
    Procesos <- BienFormados,
    pc       <- [p \in BienFormados |-> Vista(p).pc],
    regs     <- [p \in BienFormados |-> Vista(p).regs],
    Direcciones <- [p \in BienFormados |-> DireccionesDe(p)],
    mem      <- [p \in BienFormados |-> [d \in DireccionesDe(p) |-> mem[p][Casilla(d)]]],
    estado   <- [p \in BienFormados |-> EstadoDe(p)],
    pantalla <- [p \in BienFormados |-> pantalla[p]],
    servidos <- [p \in BienFormados |-> servidos[p]]

(* A well-formed program runs as if it were alone: the codes that other    *)
(* programs, well formed or not, leave decoded, the interruptions, the     *)
(* page faults, the devices and the trips of its context do not show; an   *)
(* instruction that faults is executed once, and one that blocks or ends   *)
(* is not undone by an interruption.                                       *)
ImplementaInterprete == Interprete!Spec

(* The PCB of a process changes only while it has the CPU or its device    *)
(* answers, and its memory only by its own instructions, also when other   *)
(* programs are not well formed.                                           *)
SoloElPropio ==
    [][\A p \in Procesos :
         /\ pcb'[p] # pcb[p] => lugar[p] \in {"exec", "dispositivo"}
         /\ mem'[p] # mem[p] => lugar[p] = "exec"]_vars

(* When all programs are well formed nothing is read or written outside    *)
(* the lines of a program or the registers, whatever malloc left, and the  *)
(* Kernel is not asked for a device it does not have.                      *)
NadaAfuera == ~caido

(* Every program that is well formed ends, also when it is interrupted,    *)
(* blocked or faults again and again: the counter never goes back.         *)
TodosTerminan == \A p \in Procesos : <>(lugar[p] = "fin")
=============================================================================
