--------------------------- MODULE MemoriaLogica ---------------------------
(***************************************************************************)
(* What the virtual memory promises to a program: each process has pages   *)
(* of its own, and MOV_IN gives what its last MOV_OUT to that page left.   *)
(* A page that it has not written has nothing that can be relied on: two   *)
(* reads of it may differ.  Frames, swap, page faults, replacement and the *)
(* TLB are invisible.                                                      *)
(***************************************************************************)
CONSTANTS Procesos, Paginas, Valores,
          Nulo                        \* no MOV in progress; a page never written

VARIABLES contenido,  \* the pages of each process that has memory
          pedido,     \* the page of the MOV in progress
          registro    \* what the last MOV_IN put in a register

Vivos == DOMAIN contenido

Init ==
    /\ contenido = [p \in {} |-> <<>>]
    /\ pedido = Nulo
    /\ registro \in Valores

Crear(p) ==
    /\ contenido' = [q \in Vivos \cup {p} |->
                        IF q = p THEN [g \in Paginas |-> Nulo] ELSE contenido[q]]
    /\ UNCHANGED <<pedido, registro>>

Pedir(p, g) ==
    /\ pedido = Nulo
    /\ pedido' = <<p, g>>
    /\ UNCHANGED <<contenido, registro>>

(* MOV_IN *)
Leer(p, g) ==
    /\ pedido = <<p, g>>
    /\ registro' \in Valores
    /\ contenido[p][g] # Nulo => registro' = contenido[p][g]
    /\ pedido' = Nulo
    /\ UNCHANGED contenido

(* MOV_OUT *)
Escribir(p, g, v) ==
    /\ pedido = <<p, g>>
    /\ contenido' = [contenido EXCEPT ![p][g] = v]
    /\ pedido' = Nulo
    /\ UNCHANGED registro

Destruir(p) ==
    /\ contenido' = [q \in Vivos \ {p} |-> contenido[q]]
    /\ UNCHANGED <<pedido, registro>>

Next ==
    \/ \E p \in Procesos \ Vivos : Crear(p)
    \/ \E p \in Vivos :
         \/ Destruir(p)
         \/ \E g \in Paginas : \/ Pedir(p, g)
                             \/ Leer(p, g)
                             \/ \E v \in Valores : Escribir(p, g, v)

Spec == Init /\ [][Next]_<<contenido, pedido, registro>>
=============================================================================
