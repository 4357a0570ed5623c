------------------------------ MODULE Servidor ------------------------------
(***************************************************************************)
(* The accept loop of the library (iniciar_servidor_consolas of            *)
(* tcp_server.c) and the first lines of the threads it creates             *)
(* (consola_routine.c).  Every thread is given the address of the same two *)
(* integers, and reads them one after the other while the loop may already *)
(* write those of the next connection.                                     *)
(*                                                                         *)
(* A connection has the name of the console that opened it: its socket is  *)
(* never closed while the Kernel lives, so sockets are not used again.     *)
(***************************************************************************)
EXTENDS Naturals, Sequences, FiniteSets

CONSTANTS Consolas, \* the programs that connect
          Nulo      \* no socket

ASSUME SupuestosServidor == Nulo \notin Consolas

VARIABLES
    espera,     \* the connections that accept has not taken yet
    servidor,   \* the step of the loop
    clientSock, \* client_sock
    param,      \* aux: the socket and the id, shared by every thread
    acumulador, \* *thread_identificator
    estados,    \* *thread_status
    hilo,       \* the step of the thread of each connection
    leido,      \* socket_cliente and consola_id of each thread
    identidad,  \* history: the id meant for each connection
    pisados,    \* history: the threads whose parameters were written too soon
    caida       \* "no", or why the Kernel ended

servidorVars == <<servidor, clientSock, param, acumulador, estados, identidad, pisados>>

LeyendoParametros == {"nace", "id"}

Aux == [socket : Consolas \cup {Nulo}, id : Nat]

TipoServidor ==
    /\ espera \in Seq(Consolas)
    /\ servidor \in {"acepta", "socket", "id", "registra", "crea"}
    /\ clientSock \in Consolas \cup {Nulo}
    /\ param \in Aux /\ leido \in [Consolas -> Aux]
    /\ acumulador \in Nat \ {0}
    /\ estados \in [0..(acumulador - 1) -> {0, 1}]
    /\ identidad \in [Consolas -> Nat]
    /\ pisados \subseteq Consolas

InitServidor ==
    /\ espera = <<>>
    /\ servidor = "acepta"
    /\ clientSock = Nulo
    /\ param = [socket |-> Nulo, id |-> 0]
    /\ acumulador = 1
    /\ estados = [i \in {0} |-> 0]
    /\ hilo = [c \in Consolas |-> "nada"]
    /\ leido = [c \in Consolas |-> [socket |-> Nulo, id |-> 0]]
    /\ identidad = [c \in Consolas |-> 0]
    /\ pisados = {}
    /\ caida = "no"

-----------------------------------------------------------------------------
(* Mutant: the thread is created before its parameters are written. *)
AceptaYCrea ==
    /\ servidor = "acepta"
    /\ espera # <<>>
    /\ clientSock' = Head(espera)
    /\ espera' = Tail(espera)
    /\ identidad' = [identidad EXCEPT ![clientSock'] = acumulador]
    /\ hilo' = [hilo EXCEPT ![clientSock'] = "nace"]
    /\ servidor' = "socket"
    /\ UNCHANGED <<param, acumulador, estados, pisados, leido, caida>>

Acepta ==
    /\ servidor = "acepta"
    /\ espera # <<>>
    /\ clientSock' = Head(espera)
    /\ espera' = Tail(espera)
    /\ identidad' = [identidad EXCEPT ![clientSock'] = acumulador]
    /\ servidor' = "socket"
    /\ UNCHANGED <<param, acumulador, estados, pisados, hilo, leido, caida>>

(* The threads that have not read both integers when the loop writes them. *)
Pisa == pisados' = pisados \cup {c \in Consolas : hilo[c] \in LeyendoParametros}

EscribeSocket ==
    /\ servidor = "socket"
    /\ param' = [param EXCEPT !.socket = clientSock]
    /\ servidor' = "id"
    /\ Pisa
    /\ UNCHANGED <<espera, clientSock, acumulador, estados, identidad, hilo, leido, caida>>

EscribeId ==
    /\ servidor = "id"
    /\ param' = [param EXCEPT !.id = acumulador]
    /\ servidor' = "registra"
    /\ Pisa
    /\ UNCHANGED <<espera, clientSock, acumulador, estados, identidad, hilo, leido, caida>>

(* Mutant: the counter of threads stays. *)
RegistraSinAvanzar ==
    /\ servidor = "registra"
    /\ estados' = [i \in 0..acumulador |-> IF i = acumulador THEN 1 ELSE estados[i]]
    /\ servidor' = "crea"
    /\ UNCHANGED <<espera, clientSock, param, acumulador, identidad, pisados, hilo, leido, caida>>

Registra ==
    /\ servidor = "registra"
    /\ estados' = [i \in 0..acumulador |-> IF i = acumulador THEN 1 ELSE estados[i]]
    /\ acumulador' = acumulador + 1
    /\ servidor' = "crea"
    /\ UNCHANGED <<espera, clientSock, param, identidad, pisados, hilo, leido, caida>>

CreaHilo ==
    /\ servidor = "crea"
    /\ hilo' = [hilo EXCEPT ![clientSock] = "nace"]
    /\ servidor' = "acepta"
    /\ UNCHANGED <<espera, clientSock, param, acumulador, estados, identidad, pisados, leido, caida>>

(* pthread_create reports an error with a positive number, and the loop    *)
(* looks for a negative one: it goes on, and the connection has no thread. *)
CreaHiloFalla ==
    /\ servidor = "crea"
    /\ hilo' = [hilo EXCEPT ![clientSock] = "fallo"]
    /\ servidor' = "acepta"
    /\ UNCHANGED <<espera, clientSock, param, acumulador, estados, identidad, pisados, leido, caida>>

-----------------------------------------------------------------------------
(* consola_routine: the parameters are read one after the other. *)
LeeSocket(c) ==
    /\ hilo[c] = "nace"
    /\ leido' = [leido EXCEPT ![c].socket = param.socket]
    /\ hilo' = [hilo EXCEPT ![c] = "id"]
    /\ UNCHANGED <<espera, servidorVars, caida>>

LeeId(c) ==
    /\ hilo[c] = "id"
    /\ leido' = [leido EXCEPT ![c].id = param.id]
    /\ hilo' = [hilo EXCEPT ![c] = "encabezado"]
    /\ UNCHANGED <<espera, servidorVars, caida>>

LoopServidor == Acepta \/ EscribeSocket \/ EscribeId \/ Registra \/ CreaHilo

LeeParametros(c) == LeeSocket(c) \/ LeeId(c)
=============================================================================
