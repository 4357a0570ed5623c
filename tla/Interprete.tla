----------------------------- MODULE Interprete -----------------------------
(***************************************************************************)
(* What the author of a program expects: each process executes its         *)
(* instructions one after another, on registers and a memory of its own,   *)
(* whatever the others do.  Nothing is said of contexts, interruptions,    *)
(* page faults or of how lines are decoded.  Ciclo.tla implements it for   *)
(* the processes whose lines are well formed.                              *)
(***************************************************************************)
EXTENDS Naturals, Sequences

CONSTANTS Procesos,      \* processes with well-formed programs
          Programa,      \* the lines of each one: [op, oper1, oper2]
          CantRegistros, \* AX, BX, CX and DX, or the first of them
          Palabras,      \* the values of a word: 2^32, or fewer
          Numeral,       \* the value of each numeral
          Direcciones,   \* the addresses inside the segments of each one
          Nulo           \* no word

VARIABLES pc,       \* the next line of each process
          regs,     \* its registers
          mem,      \* its memory, by address
          estado,   \* running, waiting for a device, or ended
          pantalla, \* what the last PANTALLA showed
          servidos  \* the uses of devices that were completed
vars == <<pc, regs, mem, estado, pantalla, servidos>>

Indice == [AX |-> 0, BX |-> 1, CX |-> 2, DX |-> 3]
Registros == {r \in DOMAIN Indice : Indice[r] < CantRegistros}
Valores == 0..(Palabras - 1)

Linea(p) == Programa[p][pc[p] + 1]
Anterior(p) == Programa[p][pc[p]]

Init ==
    /\ pc = [p \in Procesos |-> 0]
    /\ regs \in [Procesos -> [0..(CantRegistros - 1) -> Valores]]
    /\ mem \in {m \in [Procesos -> UNION {[Direcciones[p] -> Valores] : p \in Procesos}] :
                \A p \in Procesos : DOMAIN m[p] = Direcciones[p]}
    /\ estado = [p \in Procesos |-> "corre"]
    /\ pantalla = [p \in Procesos |-> Nulo]
    /\ servidos = [p \in Procesos |-> 0]

Pone(p, r, v) == regs' = [regs EXCEPT ![p][Indice[r]] = v]

Ejecuta(p, op) ==
    /\ estado[p] = "corre"
    /\ Linea(p).op = op
    /\ pc' = [pc EXCEPT ![p] = @ + 1]
    /\ UNCHANGED <<pantalla, servidos>>

Set(p) ==
    /\ Ejecuta(p, "SET")
    /\ Pone(p, Linea(p).oper1, Numeral[Linea(p).oper2] % Palabras)
    /\ UNCHANGED <<mem, estado>>

Add(p) ==
    /\ Ejecuta(p, "ADD")
    /\ Pone(p, Linea(p).oper1,
            (regs[p][Indice[Linea(p).oper1]] + regs[p][Indice[Linea(p).oper2]]) % Palabras)
    /\ UNCHANGED <<mem, estado>>

MovIn(p) ==
    /\ Ejecuta(p, "MOV_IN")
    /\ Numeral[Linea(p).oper2] \in Direcciones[p]
    /\ Pone(p, Linea(p).oper1, mem[p][Numeral[Linea(p).oper2]])
    /\ UNCHANGED <<mem, estado>>

MovOut(p) ==
    /\ Ejecuta(p, "MOV_OUT")
    /\ Numeral[Linea(p).oper1] \in Direcciones[p]
    /\ mem' = [mem EXCEPT ![p][Numeral[Linea(p).oper1]] = regs[p][Indice[Linea(p).oper2]]]
    /\ UNCHANGED <<regs, estado>>

IO(p) ==
    /\ Ejecuta(p, "I/O")
    /\ estado' = [estado EXCEPT ![p] = "espera"]
    /\ UNCHANGED <<regs, mem>>

Exit(p) ==
    /\ Ejecuta(p, "EXIT")
    /\ estado' = [estado EXCEPT ![p] = "fin"]
    /\ UNCHANGED <<regs, mem>>

(* An access outside the segments ends the process. *)
FallaDeSegmento(p) ==
    /\ estado[p] = "corre"
    /\ \/ Linea(p).op = "MOV_IN" /\ Numeral[Linea(p).oper2] \notin Direcciones[p]
       \/ Linea(p).op = "MOV_OUT" /\ Numeral[Linea(p).oper1] \notin Direcciones[p]
    /\ estado' = [estado EXCEPT ![p] = "fin"]
    /\ UNCHANGED <<pc, regs, mem, pantalla, servidos>>

(* The device serves the instruction that asked for it. *)
Sirve(p) ==
    /\ estado[p] = "espera"
    /\ estado' = [estado EXCEPT ![p] = "corre"]
    /\ servidos' = [servidos EXCEPT ![p] = @ + 1]
    /\ \/ /\ Anterior(p).oper1 = "TECLADO"
          /\ \E v \in Valores : Pone(p, Anterior(p).oper2, v)
          /\ UNCHANGED pantalla
       \/ /\ Anterior(p).oper1 = "PANTALLA"
          /\ pantalla' = [pantalla EXCEPT ![p] = regs[p][Indice[Anterior(p).oper2]]]
          /\ UNCHANGED regs
       \/ /\ Anterior(p).oper1 \notin {"TECLADO", "PANTALLA"}
          /\ UNCHANGED <<regs, pantalla>>
    /\ UNCHANGED <<pc, mem>>

Next == \E p \in Procesos :
          \/ Set(p) \/ Add(p) \/ MovIn(p) \/ MovOut(p) \/ IO(p) \/ Exit(p)
          \/ FallaDeSegmento(p) \/ Sirve(p)

Spec == Init /\ [][Next]_vars
=============================================================================
