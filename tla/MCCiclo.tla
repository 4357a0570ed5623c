------------------------------ MODULE MCCiclo ------------------------------
(* Instances of the instruction cycle for TLC. *)
EXTENDS CicloPropiedades

CONSTANTS p1, p2

Numerales == [x \in {"0", "1", "4", "8", "12"} |->
                CASE x = "0" -> 0 [] x = "1" -> 1 [] x = "4" -> 4 [] x = "8" -> 8 [] x = "12" -> 12]

(* One has a second segment of two pages; the other one of no bytes, or of *)
(* one page.                                                               *)
SinBytes  == [p \in {p1, p2} |-> IF p = p1 THEN <<0, 8>> ELSE <<0>>]
UnaPagina == [p \in {p1, p2} |-> IF p = p1 THEN <<0, 8>> ELSE <<4>>]

L(op, oper1, oper2) == [op |-> op, oper1 |-> oper1, oper2 |-> oper2]
Salida == L("EXIT", Nulo, Nulo)

(* It adds what was typed to a register and reads it back from a page. *)
Suma == << L("I/O", "TECLADO", "AX"), L("ADD", "BX", "AX"), L("MOV_OUT", "8", "BX"),
           L("MOV_OUT", "12", "AX"), L("MOV_IN", "AX", "8"), L("I/O", "PANTALLA", "AX"), Salida >>

(* It sets, shows and waits, and ends at the end of its segment. *)
Falla == << L("SET", "AX", "1"), L("I/O", "DISCO", "4"), L("ADD", "AX", "AX"),
            L("MOV_IN", "BX", "0"), Salida >>

(* Lines that lack words or name things that do not exist, and no EXIT. *)
Floja == << L(Nulo, Nulo, Nulo), L("ADD", "BX", Nulo), L("NOOP", "0", "BX"),
            L("MOV_OUT", "0", "ZX"), L("I/O", "TECLADO", "0"), L(Nulo, Nulo, Nulo) >>

Parejas == [p \in {p1, p2} |-> IF p = p1 THEN Suma ELSE Falla]
ConFloja == [p \in {p1, p2} |-> IF p = p1 THEN Suma ELSE Floja]

CodigoCualquiera == Codigos \cup {Nulo}
IndiceAfuera == {9}
CodigoNulo == {Nulo, "SET"}
IndiceUno == {1}
=============================================================================
