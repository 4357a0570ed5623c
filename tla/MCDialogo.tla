----------------------------- MODULE MCDialogo -----------------------------
(* Instances of the consoles and the accept loop for TLC. *)
EXTENDS DialogoPropiedades

CONSTANTS c1, c2

(* A console with two segments and two lines, one of them empty, and one   *)
(* with no segments and no lines.                                          *)
DosSegmentos == [c \in {c1, c2} |-> IF c = c1 THEN <<64, 3>> ELSE <<>>]
PocasLineas  == [c \in {c1, c2} |-> IF c = c1 THEN <<0, 3>> ELSE <<>>]
(* One process asks twice for the screen or the keyboard. *)
DosPedidos == [c \in {c1, c2} |-> IF c = c1 THEN 2 ELSE 0]
=============================================================================
