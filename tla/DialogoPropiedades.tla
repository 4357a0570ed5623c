------------------------ MODULE DialogoPropiedades ------------------------
(***************************************************************************)
(* What the accept loop and the protocol of the consoles promise, to every *)
(* connection that no other thread touches.                                *)
(***************************************************************************)
EXTENDS Dialogo

Atendidos == {c \in Consolas : hilo[c] \notin {"nada", "fallo", "nace", "id"}}

(* A connection is disturbed when the loop wrote the parameters of another *)
(* before its thread read them, or the thread of another read its socket   *)
(* or its identifier: two PCBs have then the same one.                     *)
Perturbada(c) ==
    \/ c \in pisados
    \/ \E d \in Consolas \ {c} : leido[d].socket = c
    \/ \E d \in Atendidos \ {c} : leido[d].id = identidad[c]

Terminada(c) == consola[c] \in {"exito", "error", "muerta"}

-----------------------------------------------------------------------------
(* However late a thread reads its parameters, they are not those of a     *)
(* connection accepted before its own.                                     *)
NuncaAnterior ==
    \A c \in Consolas :
        /\ leido[c].socket # Nulo => identidad[leido[c].socket] >= identidad[c]
        /\ c \in Atendidos => leido[c].id >= identidad[c]

(* Only a thread that was overtaken by the next connection before it read  *)
(* its parameters may serve the console of another, and that of a later    *)
(* one; the others have their socket, and no two of them the same          *)
(* identifier.                                                             *)
CadaUnoLoSuyo ==
    /\ NuncaAnterior
    /\ \A c \in Atendidos \ pisados : leido[c].socket = c
    /\ \A c, d \in Atendidos \ pisados : leido[c].id = leido[d].id => c = d

(* The PCB that goes to NEW has the segments and the lines that its        *)
(* console sent, in that order, whatever their number and lengths, and the *)
(* thread never reads one field for another.                               *)
PCBFiel ==
    \A c \in Atendidos : ~Perturbada(c) =>
        /\ hilo[c] # "perdido"
        /\ hilo[c] \in {"espera", "atiende", "responde"} =>
              /\ pcb[c].segmentos = Segmentos[c]
              /\ pcb[c].instrucciones = Lineas[c]

(* What the process receives is what its user typed at this request, and   *)
(* what its user saw is what it sent, unless the connection was reset.     *)
IOFiel ==
    \A c \in Atendidos : ~Perturbada(c) /\ red[c].extremoK # "roto" =>
        /\ pipeline[c].op = CONSOLE_INPUT_RESPUESTA => pipeline[c].valor = tecleado[c]
        /\ pipeline[c].op = CONSOLE_OUTPUT_RESPUESTA => pipeline[c].valor = mostrado[c]

(* Each side of the dialogue takes apart what the other put together, in   *)
(* the first packet and in every request after it.                         *)
DialogoFiel == PCBFiel /\ IOFiel

(* The Kernel goes down because of a console only when one left before its *)
(* process ended or when a thread was overtaken by the accept loop: the    *)
(* dialogue itself never gives an unexpected code.                         *)
CaidaConCausa ==
    caida \in {"codigo", "senal", "perdido"} =>
        \/ \E c \in Consolas : consola[c] = "muerta"
        \/ \E c \in Consolas : Perturbada(c)

(* While the Kernel lives a console fails only if it is killed, and it     *)
(* ends well only after its process ended.                                 *)
ConsolaVeraz ==
    \A c \in Consolas : ~Perturbada(c) /\ caida = "no" =>
        /\ consola[c] # "error"
        /\ consola[c] = "exito" => hilo[c] = "fin"

(* Every console that has a thread ends, with its process or because the   *)
(* Kernel fell, unless a thread was cancelled (round_robin.c, feedback.c)  *)
(* or read the parameters of another: the process of that one may hold the *)
(* screen or the keyboard for ever, so that nothing is promised to others. *)
TodasTerminan ==
    \A c \in Consolas :
        <>(\/ Terminada(c) \/ hilo[c] = "fallo"
           \/ cancelados # {} \/ \E d \in Consolas : Perturbada(d))
=============================================================================
