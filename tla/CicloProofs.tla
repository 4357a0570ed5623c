----------------------------- MODULE CicloProofs -----------------------------
(***************************************************************************)
(* The instruction cycle, proved for any programs, registers, devices and  *)
(* leftovers of malloc.  Inv says what each turn of the context leaves for *)
(* the next one, and for a well-formed program, where its counter is and   *)
(* what it asked its device for.  On it rest that a process changes only   *)
(* what is its own, that nothing is read outside an array when all         *)
(* programs are well formed, and that each well-formed program runs as     *)
(* Interprete says.                                                        *)
(***************************************************************************)
EXTENDS CicloPropiedades, TraduccionProofs

Contextos == [id : Procesos \cup {Nulo}, pc : Nat, regs : [Indices -> Valores]]

(* auxCiclo has its six fields, whatever they hold. *)
AuxForma ==
    aux = [op |-> aux.op, oper1 |-> aux.oper1, oper2 |-> aux.oper2, codigo |-> aux.codigo,
           register1 |-> aux.register1, register2 |-> aux.register2]

(* What the socket carries in each direction. *)
CanalCoherente ==
    /\ turno = "recibe" => canal \in Contextos /\ canal.id \in Procesos
    /\ turno = "actualiza" =>
         canal = [id |-> contexto.id, pc |-> contexto.pc, regs |-> contexto.regs,
                  op |-> operacion, dispositivo |-> aux.oper1, unidades |-> unidades]

(* The process that has the CPU: it is in EXEC, and no other.              *)
Quien == IF turno = "recibe" THEN canal.id ELSE contexto.id

ExecUnico ==
    /\ turno \notin {"kernel", "recibe"} => contexto.id \in Procesos
    /\ \A p \in Procesos : lugar[p] = "exec" <=> turno # "kernel" /\ p = Quien

(* The flags of the cycle and the operation agree at every turn.           *)
TurnoCoherente ==
    /\ falta => turno = "cierra" /\ ~devolver /\ operacion \in {"PAGE_FAULT", "SEG_FAULT"}
    /\ devolver => turno = "cierra" /\ operacion \in {"BLOQUEO_PROCESO", "EXIT_PROCESO"}
    /\ turno = "ejecuta" => operacion = "PROXIMO_PCB"
    /\ turno = "cierra" /\ ~falta /\ ~devolver => operacion = "PROXIMO_PCB"
    /\ turno \in {"devuelve", "actualiza"} => operacion \in Retornos

(* The device and its parameter are those of the line that was executed.   *)
Pedida(p, n, dispositivo, u) ==
    /\ n \in DOMAIN Programa[p] /\ n < Len(Programa[p])
    /\ Programa[p][n].op = "I/O"
    /\ dispositivo = Programa[p][n].oper1
    /\ dispositivo \in {"TECLADO", "PANTALLA"} => u = Indice[Programa[p][n].oper2]

(* A well-formed program is at one of its lines, until its EXIT.           *)
Sano(p) ==
    /\ lugar[p] \in {"listo", "pagina"} => pcb[p].pc < Len(Programa[p])
    /\ lugar[p] = "dispositivo" => Pedida(p, pcb[p].pc, pedido[p].dispositivo, pedido[p].unidades)
    /\ lugar[p] = "exec" =>
         /\ turno = "recibe" => canal.pc < Len(Programa[p])
         /\ turno \in {"ejecuta", "cierra"} => contexto.pc < Len(Programa[p])
         /\ turno = "cierra" /\ operacion = "PROXIMO_PCB" => contexto.pc + 1 < Len(Programa[p])
         /\ turno = "cierra" /\ operacion = "BLOQUEO_PROCESO" =>
              Pedida(p, contexto.pc + 1, aux.oper1, unidades)
         /\ turno \in {"devuelve", "actualiza"} /\ operacion \in {"DESALOJO_PROCESO", "PAGE_FAULT"} =>
              contexto.pc < Len(Programa[p])
         /\ turno \in {"devuelve", "actualiza"} /\ operacion = "BLOQUEO_PROCESO" =>
              Pedida(p, contexto.pc, aux.oper1, unidades)

Inv ==
    /\ TypeOK /\ AuxForma /\ CanalCoherente /\ ExecUnico /\ TurnoCoherente
    /\ \A p \in BienFormados : Sano(p)

-----------------------------------------------------------------------------
(* Registers, words and messages. *)

LEMMA Constantes ==
  /\ Palabras \in Nat \ {0} /\ CantRegistros \in Nat /\ Indices \subseteq Nat
  /\ 0 \in Valores /\ \A n \in Nat : n % Palabras \in Valores
  /\ \A n : Atoi(n) \in Nat
  /\ DOMAIN Indice = {"AX", "BX", "CX", "DX"} /\ \A r \in DOMAIN Indice : Indice[r] \in Nat
  /\ \A n, r : r \in Nat => IndiceDe(n, r) \in Nat
<1>1. Palabras \in Nat \ {0} /\ CantRegistros \in Nat /\ \A n \in DOMAIN Numeral : Numeral[n] \in Nat
  BY SupuestosCiclo DEF SupuestosCiclo
<1>2. DOMAIN Indice = {"AX", "BX", "CX", "DX"} /\ \A r \in DOMAIN Indice : Indice[r] \in Nat
  BY DEF Indice
<1>3. \A n \in Nat : n % Palabras \in 0..(Palabras - 1)
  BY <1>1, Division
<1>4. Indices \subseteq Nat /\ 0 \in Valores
  BY <1>1 DEF Indices, Valores
<1> QED
  BY <1>1, <1>2, <1>3, <1>4 DEF Valores, Atoi, IndiceDe

LEMMA LugarTrasTipo ==
  /\ LugarTras("DESALOJO_PROCESO") = "listo" /\ LugarTras("BLOQUEO_PROCESO") = "dispositivo"
  /\ LugarTras("PAGE_FAULT") = "pagina"
  /\ LugarTras("EXIT_PROCESO") = "fin" /\ LugarTras("SEG_FAULT") = "fin"
BY DEF LugarTras, Finales

(* sscanf leaves a record of the same fields. *)
LEMMA Campos ==
  ASSUME NEW linea, NEW o, NEW o1, NEW o2, NEW c, NEW r1, NEW r2,
         aux = [op |-> o, oper1 |-> o1, oper2 |-> o2, codigo |-> c,
                register1 |-> r1, register2 |-> r2]
  PROVE  Leida(linea) = [op |-> O(linea.op, o), oper1 |-> O(linea.oper1, o1),
                         oper2 |-> O(linea.oper2, o2), codigo |-> c,
                         register1 |-> r1, register2 |-> r2]
<1>1. aux.op = o /\ aux.oper1 = o1 /\ aux.oper2 = o2
  OBVIOUS
<1> DEFINE a1 == [aux EXCEPT !.op = O(linea.op, aux.op)]
           a2 == [a1 EXCEPT !.oper1 = O(linea.oper1, aux.oper1)]
           a3 == [a2 EXCEPT !.oper2 = O(linea.oper2, aux.oper2)]
<1>2. a1 = [op |-> O(linea.op, o), oper1 |-> o1, oper2 |-> o2, codigo |-> c,
            register1 |-> r1, register2 |-> r2]
  BY <1>1
<1>3. Leida(linea) = a3
  BY DEF Leida
<1> HIDE DEF a1
<1>4. a2 = [op |-> O(linea.op, o), oper1 |-> O(linea.oper1, o1), oper2 |-> o2, codigo |-> c,
            register1 |-> r1, register2 |-> r2]
  BY <1>1, <1>2
<1> HIDE DEF a2
<1>5. a3 = [op |-> O(linea.op, o), oper1 |-> O(linea.oper1, o1), oper2 |-> O(linea.oper2, o2),
            codigo |-> c, register1 |-> r1, register2 |-> r2]
  BY <1>1, <1>4
<1> QED
  BY <1>3, <1>5

(* The words and registers that a line gives to auxCiclo.                  *)
LEMMA Auxiliar ==
  ASSUME AuxForma, TypeOK, NEW linea, NEW a, a = Decodificada(Leida(linea))
  PROVE  /\ a = [op |-> a.op, oper1 |-> a.oper1, oper2 |-> a.oper2, codigo |-> a.codigo,
                 register1 |-> a.register1, register2 |-> a.register2]
         /\ a.op = O(linea.op, aux.op) /\ a.oper1 = O(linea.oper1, aux.oper1)
         /\ a.oper2 = O(linea.oper2, aux.oper2)
         /\ a.codigo = IF a.op \in Codigos THEN a.op ELSE aux.codigo
         /\ a.register1 = IF a.op \in {"SET", "ADD", "MOV_IN"}
                          THEN IndiceDe(a.oper1, aux.register1) ELSE aux.register1
         /\ a.register2 = IF a.op \in {"ADD", "MOV_OUT"}
                          THEN IndiceDe(a.oper2, aux.register2) ELSE aux.register2
         /\ a.codigo \in Codigos \cup {Nulo} /\ {a.register1, a.register2} \subseteq Nat
<1> DEFINE b == Leida(linea)
<1>1. b = [op |-> O(linea.op, aux.op), oper1 |-> O(linea.oper1, aux.oper1),
           oper2 |-> O(linea.oper2, aux.oper2), codigo |-> aux.codigo,
           register1 |-> aux.register1, register2 |-> aux.register2]
  BY Campos DEF AuxForma
<1> HIDE DEF b
<1>2. a = [op |-> b.op, oper1 |-> b.oper1, oper2 |-> b.oper2,
           codigo |-> IF b.op \in Codigos THEN b.op ELSE b.codigo,
           register1 |-> IF b.op \in {"SET", "ADD", "MOV_IN"}
                         THEN IndiceDe(b.oper1, b.register1) ELSE b.register1,
           register2 |-> IF b.op \in {"ADD", "MOV_OUT"}
                         THEN IndiceDe(b.oper2, b.register2) ELSE b.register2]
  <2>1. a = Decodificada(b)
    BY DEF b
  <2> QED
    BY <1>1, <2>1, ZenonT(40) DEF Decodificada
<1>3. /\ a.op = b.op /\ a.oper1 = b.oper1 /\ a.oper2 = b.oper2
      /\ b.codigo = aux.codigo /\ b.register1 = aux.register1 /\ b.register2 = aux.register2
      /\ b.op = O(linea.op, aux.op) /\ b.oper1 = O(linea.oper1, aux.oper1)
      /\ b.oper2 = O(linea.oper2, aux.oper2)
  BY <1>1, <1>2
<1>4. /\ a.codigo = IF a.op \in Codigos THEN a.op ELSE aux.codigo
      /\ a.register1 = IF a.op \in {"SET", "ADD", "MOV_IN"}
                       THEN IndiceDe(a.oper1, aux.register1) ELSE aux.register1
      /\ a.register2 = IF a.op \in {"ADD", "MOV_OUT"}
                       THEN IndiceDe(a.oper2, aux.register2) ELSE aux.register2
  BY <1>2, <1>3
<1>5. aux.codigo \in Codigos \cup {Nulo} /\ aux.register1 \in Nat /\ aux.register2 \in Nat
  BY DEF TypeOK
<1>6. a.register1 \in Nat /\ a.register2 \in Nat
  BY <1>4, <1>5, Constantes
<1> QED
  BY <1>2, <1>3, <1>4, <1>5, <1>6

LEMMA MemoriasTipo ==
  ASSUME NEW m
  PROVE  m \in Memorias <=> /\ m = [p \in Procesos |-> m[p]]
                            /\ \A p \in Procesos : m[p] \in [Casillas(p) -> Valores]
<1> DEFINE U == UNION {[Casillas(p) -> Valores] : p \in Procesos}
<1>1. ASSUME m \in Memorias
      PROVE  /\ m = [p \in Procesos |-> m[p]]
             /\ \A p \in Procesos : m[p] \in [Casillas(p) -> Valores]
  <2>1. m \in [Procesos -> U] /\ \A p \in Procesos : DOMAIN m[p] = Casillas(p)
    BY <1>1 DEF Memorias
  <2>2. \A p \in Procesos : m[p] \in U
    BY <2>1
  <2>3. ASSUME NEW p \in Procesos PROVE m[p] \in [Casillas(p) -> Valores]
    <3>1. PICK q \in Procesos : m[p] \in [Casillas(q) -> Valores]
      BY <2>2
    <3> QED
      BY <2>1, <3>1
  <2>4. m = [p \in Procesos |-> m[p]]
    BY <2>1
  <2> QED
    BY <2>3, <2>4
<1>2. ASSUME m = [p \in Procesos |-> m[p]], \A p \in Procesos : m[p] \in [Casillas(p) -> Valores]
      PROVE  m \in Memorias
  <2>1. \A p \in Procesos : m[p] \in U
    BY <1>2
  <2>2. m \in [Procesos -> U]
    <3> HIDE DEF U
    <3> QED
      BY <1>2, <2>1
  <2>3. \A p \in Procesos : DOMAIN m[p] = Casillas(p)
    BY <1>2
  <2> QED
    BY <2>2, <2>3 DEF Memorias
<1> QED
  BY <1>1, <1>2

(* A register of the context changes, or none. *)
LEMMA Puesto ==
  ASSUME TypeOK, NEW r, NEW v \in Valores, Pone(r, v)
  PROVE  /\ contexto' \in Contextos /\ contexto'.id = contexto.id /\ contexto'.pc = contexto.pc
         /\ r \in Indices => contexto'.regs = [contexto.regs EXCEPT ![r] = v]
<1>1. contexto \in Contextos
  BY DEF TypeOK, Contextos
<1>2. CASE r \in Indices
  <2>1. contexto' = [contexto EXCEPT !.regs = [contexto.regs EXCEPT ![r] = v]]
    BY <1>2 DEF Pone
  <2>2. [contexto.regs EXCEPT ![r] = v] \in [Indices -> Valores]
    BY <1>1, <1>2 DEF Contextos
  <2> QED
    BY <1>1, <2>1, <2>2 DEF Contextos
<1>3. CASE r \notin Indices
  BY <1>1, <1>3 DEF Pone
<1> QED
  BY <1>2, <1>3

LEMMA ValorTipo ==
  ASSUME TypeOK, NEW r
  PROVE  ValorDe(r) \in Valores /\ (r \in Indices => ValorDe(r) = contexto.regs[r])
<1>1. contexto.regs \in [Indices -> Valores]
  BY DEF TypeOK
<1> QED
  BY <1>1, Constantes DEF ValorDe

-----------------------------------------------------------------------------
(* What fetch and decode leave. *)

LEMMA Decodificado ==
  ASSUME Inv, NEW c, Decodifica(c)
  PROVE  /\ AuxForma' /\ aux'.codigo = c /\ aux'.codigo \in Codigos \cup {Nulo}
         /\ aux'.register1 \in Nat /\ aux'.register2 \in Nat
         /\ turno = "ejecuta" /\ turno' = "cierra"
         /\ operacion = "PROXIMO_PCB" /\ ~falta /\ ~devolver
         /\ contexto \in Contextos /\ contexto.id \in Procesos /\ lugar[contexto.id] = "exec"
         /\ contexto.pc + 1 \in DOMAIN Programa[contexto.id]
         /\ UNCHANGED <<pcb, lugar, pedido, pantalla, servidos, canal>>
<1> DEFINE linea == Programa[contexto.id][contexto.pc + 1]
<1>1. TypeOK /\ AuxForma /\ ExecUnico /\ TurnoCoherente
  BY DEF Inv
<1>2. /\ turno = "ejecuta" /\ turno' = "cierra" /\ aux' = Decodificada(Leida(linea))
      /\ aux'.codigo = c /\ contexto.pc < Len(Programa[contexto.id])
      /\ UNCHANGED <<pcb, lugar, pedido, pantalla, servidos, canal>>
  BY DEF Decodifica, DentroDelPrograma, kernelVars
<1>3. AuxForma' /\ aux'.codigo \in Codigos \cup {Nulo} /\ {aux'.register1, aux'.register2} \subseteq Nat
  <2> DEFINE a == aux'
  <2>1. a = Decodificada(Leida(linea))
    BY <1>2
  <2> HIDE DEF a, linea
  <2>2. /\ a = [op |-> a.op, oper1 |-> a.oper1, oper2 |-> a.oper2, codigo |-> a.codigo,
                register1 |-> a.register1, register2 |-> a.register2]
        /\ a.codigo \in Codigos \cup {Nulo} /\ {a.register1, a.register2} \subseteq Nat
    BY <1>1, <2>1, Auxiliar
  <2> QED
    BY <2>2 DEF a, AuxForma
<1>4. contexto \in Contextos /\ contexto.id \in Procesos /\ contexto.pc \in Nat
  BY <1>1, <1>2 DEF TypeOK, Contextos, ExecUnico
<1>5. contexto.pc + 1 \in DOMAIN Programa[contexto.id]
  BY <1>2, <1>4, SupuestosCiclo DEF SupuestosCiclo
<1>6. lugar[contexto.id] = "exec"
  BY <1>1, <1>2, <1>4 DEF ExecUnico, Quien
<1> QED
  BY <1>1, <1>2, <1>3, <1>4, <1>5, <1>6 DEF TurnoCoherente

(* The operands of a well-formed line are its own. *)
LEMMA DecodificadoSano ==
  ASSUME Inv, NEW c, Decodifica(c), contexto.id \in BienFormados,
         NEW linea, linea = Programa[contexto.id][contexto.pc + 1]
  PROVE  /\ BienFormada(linea) /\ c = linea.op
         /\ linea.op \in {"SET", "ADD", "MOV_IN"} =>
              aux'.register1 = Indice[linea.oper1] /\ aux'.register1 \in Indices
         /\ linea.op \in {"ADD", "MOV_OUT"} =>
              aux'.register2 = Indice[linea.oper2] /\ aux'.register2 \in Indices
         /\ linea.op \in {"SET", "MOV_IN"} =>
              aux'.oper2 = linea.oper2 /\ linea.oper2 \in DOMAIN Numeral
         /\ linea.op = "MOV_OUT" => aux'.oper1 = linea.oper1 /\ linea.oper1 \in DOMAIN Numeral
         /\ linea.op = "I/O" => aux'.oper1 = linea.oper1 /\ aux'.oper2 = linea.oper2
         /\ linea.op # "EXIT" => contexto.pc + 1 < Len(Programa[contexto.id])
<1>1. TypeOK /\ AuxForma /\ contexto.id \in Procesos /\ contexto.pc \in Nat
  BY Decodificado DEF Inv, TypeOK
<1>2. contexto.pc + 1 \in DOMAIN Programa[contexto.id]
  BY Decodificado
<1>3. BienFormada(linea)
  BY <1>2 DEF BienFormados
<1>4. linea.op \in Codigos
  BY <1>3 DEF BienFormada, Codigos
<1>5. linea.op # "EXIT" =>
         /\ linea.oper1 # Nulo /\ linea.oper2 # Nulo
  <2>1. \A w : Registrada(w) => w # Nulo
    BY SupuestosCiclo DEF SupuestosCiclo, Registrada
  <2> QED
    BY <1>3, <2>1, SupuestosCiclo DEF SupuestosCiclo, BienFormada
<1>6. linea.op # Nulo
  BY <1>4, SupuestosCiclo DEF SupuestosCiclo
<1>7. aux' = Decodificada(Leida(linea)) /\ aux'.codigo = c
  BY DEF Decodifica
<1>8. /\ aux'.op = linea.op /\ aux'.codigo = linea.op
      /\ linea.op # "EXIT" => aux'.oper1 = linea.oper1 /\ aux'.oper2 = linea.oper2
      /\ linea.op \in {"SET", "ADD", "MOV_IN"} => aux'.register1 = IndiceDe(aux'.oper1, aux.register1)
      /\ linea.op \in {"ADD", "MOV_OUT"} => aux'.register2 = IndiceDe(aux'.oper2, aux.register2)
  <2> DEFINE a == aux'
  <2>1. a = Decodificada(Leida(linea))
    BY <1>7
  <2> HIDE DEF a
  <2>2. /\ a.op = O(linea.op, aux.op) /\ a.oper1 = O(linea.oper1, aux.oper1)
        /\ a.oper2 = O(linea.oper2, aux.oper2)
        /\ a.codigo = IF a.op \in Codigos THEN a.op ELSE aux.codigo
        /\ a.register1 = IF a.op \in {"SET", "ADD", "MOV_IN"}
                         THEN IndiceDe(a.oper1, aux.register1) ELSE aux.register1
        /\ a.register2 = IF a.op \in {"ADD", "MOV_OUT"}
                         THEN IndiceDe(a.oper2, aux.register2) ELSE aux.register2
    BY <1>1, <2>1, Auxiliar
  <2>3. a.op = linea.op /\ (linea.op # "EXIT" => a.oper1 = linea.oper1 /\ a.oper2 = linea.oper2)
    BY <1>5, <1>6, <2>2 DEF O
  <2> QED
    BY <1>4, <2>2, <2>3 DEF a
<1>9. \A w, r : Registrada(w) => IndiceDe(w, r) = Indice[w] /\ Indice[w] \in Indices
  BY DEF Registrada, IndiceDe
<1>10. linea.op # "EXIT" => contexto.pc + 1 < Len(Programa[contexto.id])
  <2>1. /\ Len(Programa[contexto.id]) \in Nat
        /\ DOMAIN Programa[contexto.id] = 1..Len(Programa[contexto.id])
        /\ Programa[contexto.id][Len(Programa[contexto.id])].op = "EXIT"
    BY <1>1, SupuestosCiclo DEF SupuestosCiclo, BienFormados
  <2>2. contexto.pc + 1 <= Len(Programa[contexto.id])
    BY <1>1, <1>2, <2>1
  <2>3. linea.op # "EXIT" => contexto.pc + 1 # Len(Programa[contexto.id])
    BY <2>1
  <2> QED
    BY <1>1, <2>1, <2>2, <2>3
<1>11. /\ linea.op \in {"SET", "ADD", "MOV_IN"} => Registrada(linea.oper1)
       /\ linea.op \in {"ADD", "MOV_OUT"} => Registrada(linea.oper2)
       /\ linea.op \in {"SET", "MOV_IN"} => linea.oper2 \in DOMAIN Numeral
       /\ linea.op = "MOV_OUT" => linea.oper1 \in DOMAIN Numeral
  BY <1>3 DEF BienFormada
<1> DEFINE a == aux'
<1>12. c = a.codigo /\ a.codigo = linea.op
  BY <1>7, <1>8
<1>13. linea.op \in {"SET", "ADD", "MOV_IN"} =>
         a.register1 = Indice[linea.oper1] /\ a.register1 \in Indices
  <2> SUFFICES ASSUME linea.op \in {"SET", "ADD", "MOV_IN"}
               PROVE  a.register1 = Indice[linea.oper1] /\ a.register1 \in Indices
    OBVIOUS
  <2>1. linea.op # "EXIT" /\ Registrada(linea.oper1)
    BY <1>11
  <2>2. a.register1 = IndiceDe(linea.oper1, aux.register1)
    BY <1>8, <2>1
  <2> QED
    BY <1>9, <2>1, <2>2
<1>14. linea.op \in {"ADD", "MOV_OUT"} =>
         a.register2 = Indice[linea.oper2] /\ a.register2 \in Indices
  <2> SUFFICES ASSUME linea.op \in {"ADD", "MOV_OUT"}
               PROVE  a.register2 = Indice[linea.oper2] /\ a.register2 \in Indices
    OBVIOUS
  <2>1. linea.op # "EXIT" /\ Registrada(linea.oper2)
    BY <1>11
  <2>2. a.register2 = IndiceDe(linea.oper2, aux.register2)
    BY <1>8, <2>1
  <2> QED
    BY <1>9, <2>1, <2>2
<1>15. linea.op # "EXIT" => a.oper1 = linea.oper1 /\ a.oper2 = linea.oper2
  BY <1>8
<1> HIDE DEF a
<1>16. /\ linea.op \in {"SET", "MOV_IN"} => a.oper2 = linea.oper2 /\ linea.oper2 \in DOMAIN Numeral
       /\ linea.op = "MOV_OUT" => a.oper1 = linea.oper1 /\ linea.oper1 \in DOMAIN Numeral
       /\ linea.op = "I/O" => a.oper1 = linea.oper1 /\ a.oper2 = linea.oper2
  BY <1>11, <1>15
<1> USE DEF a
<1> QED
  BY <1>3, <1>10, <1>12, <1>13, <1>14, <1>16

-----------------------------------------------------------------------------
(* The invariant, action by action. *)

LEMMA InvInicial == Init => Inv
<1> SUFFICES ASSUME Init PROVE Inv
  OBVIOUS
<1>1. /\ pcb \in [Procesos -> [pc : {0}, regs : [Indices -> Valores]]]
      /\ lugar = [p \in Procesos |-> "listo"] /\ pantalla = [p \in Procesos |-> Nulo]
      /\ servidos = [p \in Procesos |-> 0] /\ turno = "kernel" /\ contexto = Vacio
      /\ pedido = [p \in Procesos |-> [dispositivo |-> Nulo, unidades |-> 0]]
      /\ operacion = "PROXIMO_PCB" /\ unidades \in IndicesBasura
      /\ devolver = FALSE /\ falta = FALSE /\ mem \in Memorias /\ caido = FALSE
  BY DEF Init
<1>2. PICK o \in {Nulo}, o1 \in {Nulo}, o2 \in {Nulo}, c \in CodigosBasura,
           r1 \in IndicesBasura, r2 \in IndicesBasura :
        aux = [op |-> o, oper1 |-> o1, oper2 |-> o2, codigo |-> c,
               register1 |-> r1, register2 |-> r2]
  <2>1. aux \in [op : {Nulo}, oper1 : {Nulo}, oper2 : {Nulo}, codigo : CodigosBasura,
                 register1 : IndicesBasura, register2 : IndicesBasura]
    BY DEF Init
  <2> QED
    BY <2>1
<1>3. IndicesBasura \subseteq Nat /\ CodigosBasura \subseteq Codigos \cup {Nulo}
  BY SupuestosCiclo DEF SupuestosCiclo
<1>4. AuxForma /\ aux.codigo \in Codigos \cup {Nulo} /\ {unidades, aux.register1, aux.register2} \subseteq Nat
  BY <1>1, <1>2, <1>3 DEF AuxForma
<1>5. contexto \in Contextos
  BY <1>1, Constantes DEF Vacio, Contextos
<1>6. pcb \in [Procesos -> [pc : Nat, regs : [Indices -> Valores]]]
  <2>1. [pc : {0}, regs : [Indices -> Valores]] \subseteq [pc : Nat, regs : [Indices -> Valores]]
    OBVIOUS
  <2> QED
    BY <1>1, <2>1
<1>7. TypeOK
  BY <1>1, <1>4, <1>5, <1>6 DEF TypeOK, Contextos
<1>8. CanalCoherente /\ ExecUnico /\ TurnoCoherente
  BY <1>1 DEF CanalCoherente, ExecUnico, TurnoCoherente
<1>9. ASSUME NEW p \in BienFormados PROVE Sano(p)
  <2>1. p \in Procesos /\ Len(Programa[p]) > 0
    BY DEF BienFormados
  <2>2. pcb[p].pc = 0 /\ lugar[p] = "listo"
    BY <1>1, <2>1
  <2> QED
    BY <2>1, <2>2 DEF Sano
<1> QED
  BY <1>4, <1>7, <1>8, <1>9 DEF Inv

LEMMA SanoAjeno ==
  ASSUME NEW p, Sano(p), lugar[p] # "exec", lugar'[p] = lugar[p], pcb'[p] = pcb[p],
         pedido'[p] = pedido[p]
  PROVE  Sano(p)'
BY DEF Sano, Pedida

(* An instruction leaves the context to the end of the iteration.          *)
LEMMA InvEjecuta ==
  ASSUME Inv, NEW c, Decodifica(c),
         contexto' \in Contextos, contexto'.id = contexto.id, contexto'.pc = contexto.pc,
         unidades' \in Nat, caido' \in BOOLEAN, mem' \in Memorias,
         operacion' \in Retornos \cup {"PROXIMO_PCB"}, devolver' \in BOOLEAN, falta' \in BOOLEAN,
         TurnoCoherente',
         contexto.id \in BienFormados =>
            /\ operacion' = "PROXIMO_PCB" => contexto.pc + 1 < Len(Programa[contexto.id])
            /\ operacion' = "BLOQUEO_PROCESO" =>
                 Pedida(contexto.id, contexto.pc + 1, aux'.oper1, unidades')
  PROVE  Inv'
<1>0. TypeOK /\ ExecUnico /\ \A p \in BienFormados : Sano(p)
  BY DEF Inv
<1>1. /\ AuxForma' /\ aux'.codigo \in Codigos \cup {Nulo}
      /\ aux'.register1 \in Nat /\ aux'.register2 \in Nat
      /\ turno = "ejecuta" /\ turno' = "cierra" /\ contexto.id \in Procesos
      /\ UNCHANGED <<pcb, lugar, pedido, pantalla, servidos, canal>>
  BY Decodificado
<1>2. TypeOK'
  BY <1>0, <1>1 DEF TypeOK, Contextos
<1>3. CanalCoherente' /\ ExecUnico'
  BY <1>0, <1>1 DEF CanalCoherente, ExecUnico, Quien
<1>4. ASSUME NEW p \in BienFormados PROVE Sano(p)'
  <2>0. p \in Procesos
    BY DEF BienFormados
  <2>1. CASE lugar[p] = "exec"
    <3>1. p = contexto.id
      BY <1>0, <1>1, <2>0, <2>1 DEF ExecUnico, Quien
    <3>2. contexto.pc < Len(Programa[p])
      BY <1>0, <1>1, <2>1 DEF Sano
    <3> QED
      BY <1>1, <2>1, <3>1, <3>2 DEF Sano, Pedida
  <2>2. CASE lugar[p] # "exec"
    BY <1>0, <1>1, <2>2, SanoAjeno
  <2> QED
    BY <2>1, <2>2
<1> QED
  BY <1>1, <1>2, <1>3, <1>4 DEF Inv

(* One that neither blocks nor ends the process nor faults.                *)
LEMMA InvSigueDerecho ==
  ASSUME Inv, NEW c, Decodifica(c), c # "EXIT",
         contexto' \in Contextos, contexto'.id = contexto.id, contexto'.pc = contexto.pc,
         caido' \in BOOLEAN, mem' \in Memorias,
         UNCHANGED <<operacion, unidades, devolver, falta>>
  PROVE  Inv'
<1>1. TypeOK /\ unidades \in Nat
  BY DEF Inv, TypeOK
<1>0. contexto.id \in BienFormados => contexto.pc + 1 < Len(Programa[contexto.id])
  BY DecodificadoSano
<1>2. turno' = "cierra" /\ operacion = "PROXIMO_PCB" /\ ~falta /\ ~devolver
  BY Decodificado
<1>3. TurnoCoherente'
  BY <1>2 DEF TurnoCoherente
<1> QED
  BY <1>0, <1>1, <1>2, <1>3, InvEjecuta DEF TypeOK

LEMMA PasoEjecuta ==
  ASSUME Inv, Ejecuta
  PROVE  Inv'
<1>0. TypeOK /\ mem \in Memorias /\ contexto \in Contextos /\ unidades \in Nat /\ caido \in BOOLEAN
  BY DEF Inv, TypeOK, Contextos
<1>1. ASSUME NEW c, Decodifica(c)
      PROVE  /\ turno' = "cierra" /\ operacion = "PROXIMO_PCB" /\ falta = FALSE /\ devolver = FALSE
             /\ contexto.id \in BienFormados /\ c # "EXIT"
                  => contexto.pc + 1 < Len(Programa[contexto.id])
  BY <1>0, <1>1, Decodificado, DecodificadoSano DEF TypeOK
<1>2. CASE EjecutaSet
  <2>1. /\ Decodifica("SET") /\ Pone(aux'.register1, Atoi(aux'.oper2) % Palabras) /\ caido' \in BOOLEAN
        /\ UNCHANGED <<operacion, unidades, devolver, falta, mem>>
    BY <1>2 DEF EjecutaSet, Registros
  <2>2. Atoi(aux'.oper2) % Palabras \in Valores
    BY Constantes
  <2>3. contexto' \in Contextos /\ contexto'.id = contexto.id /\ contexto'.pc = contexto.pc
    BY <1>0, <2>1, <2>2, Puesto
  <2> QED
    BY <1>0, <2>1, <2>3, InvSigueDerecho
<1>3. CASE EjecutaAdd
  <2>1. /\ Decodifica("ADD") /\ caido' \in BOOLEAN
        /\ Pone(aux'.register1, (ValorDe(aux'.register1) + ValorDe(aux'.register2)) % Palabras)
        /\ UNCHANGED <<operacion, unidades, devolver, falta, mem>>
    BY <1>3 DEF EjecutaAdd, Registros
  <2>2. (ValorDe(aux'.register1) + ValorDe(aux'.register2)) % Palabras \in Valores
    <3>1. ValorDe(aux'.register1) \in Nat /\ ValorDe(aux'.register2) \in Nat
      BY <1>0, ValorTipo DEF Valores
    <3>2. ValorDe(aux'.register1) + ValorDe(aux'.register2) \in Nat
      BY <3>1
    <3> QED
      BY <3>2, Constantes
  <2>3. contexto' \in Contextos /\ contexto'.id = contexto.id /\ contexto'.pc = contexto.pc
    BY <1>0, <2>1, <2>2, Puesto
  <2> QED
    BY <1>0, <2>1, <2>3, InvSigueDerecho
<1>4. CASE EjecutaMovIn
  <2>1. /\ Decodifica("MOV_IN") /\ caido' \in BOOLEAN /\ EnSegmento
        /\ Pone(aux'.register1, mem[contexto.id][Casilla(DireccionMov)])
        /\ UNCHANGED <<operacion, unidades, devolver, falta, mem>>
    BY <1>4 DEF EjecutaMovIn, Registros
  <2>2. mem[contexto.id][Casilla(DireccionMov)] \in Valores
    <3>1. contexto.id \in Procesos
      BY <2>1, Decodificado
    <3>2. Casilla(DireccionMov) \in Casillas(contexto.id)
      BY <2>1 DEF EnSegmento, DireccionMov, Atoi, Casillas
    <3> QED
      BY <1>0, <3>1, <3>2, MemoriasTipo
  <2>3. contexto' \in Contextos /\ contexto'.id = contexto.id /\ contexto'.pc = contexto.pc
    BY <1>0, <2>1, <2>2, Puesto
  <2> QED
    BY <1>0, <2>1, <2>3, InvSigueDerecho
<1>5. CASE EjecutaMovOut
  <2>1. /\ Decodifica("MOV_OUT") /\ caido' \in BOOLEAN /\ EnSegmento
        /\ mem' = [mem EXCEPT ![contexto.id][Casilla(DireccionMov)] = ValorDe(aux'.register2)]
        /\ UNCHANGED <<contexto, operacion, unidades, devolver, falta>>
    BY <1>5 DEF EjecutaMovOut, Registros
  <2>2. mem' \in Memorias
    <3>1. contexto.id \in Procesos
      BY <2>1, Decodificado
    <3>2. Casilla(DireccionMov) \in Casillas(contexto.id) /\ ValorDe(aux'.register2) \in Valores
      BY <1>0, <2>1, ValorTipo DEF EnSegmento, DireccionMov, Atoi, Casillas
    <3>3. mem = [p \in Procesos |-> mem[p]] /\ \A p \in Procesos : mem[p] \in [Casillas(p) -> Valores]
      BY <1>0, MemoriasTipo
    <3>4. /\ mem' = [p \in Procesos |-> mem'[p]]
          /\ \A p \in Procesos : mem'[p] \in [Casillas(p) -> Valores]
      <4> DEFINE d == Casilla(DireccionMov)
                 v == ValorDe(aux'.register2)
      <4>1. [mem[contexto.id] EXCEPT ![d] = v] \in [Casillas(contexto.id) -> Valores]
        BY <3>1, <3>2, <3>3
      <4>2. mem' = [mem EXCEPT ![contexto.id] = [mem[contexto.id] EXCEPT ![d] = v]]
        BY <2>1
      <4> HIDE DEF d, v
      <4> QED
        BY <3>1, <3>3, <4>1, <4>2
    <3> QED
      BY <3>4, MemoriasTipo
  <2> QED
    BY <1>0, <2>1, <2>2, InvSigueDerecho
<1>6. CASE EjecutaIO
  <2>1. /\ Decodifica("I/O") /\ devolver' = TRUE /\ operacion' = "BLOQUEO_PROCESO"
        /\ unidades' = IF aux'.oper1 \in {"TECLADO", "PANTALLA"}
                       THEN IndiceDe(aux'.oper2, unidades) ELSE Atoi(aux'.oper2)
        /\ UNCHANGED <<contexto, falta, mem, caido>>
    BY <1>6 DEF EjecutaIO
  <2>2. unidades' \in Nat
    BY <1>0, <2>1, Constantes
  <2>3. TurnoCoherente'
    BY <1>1, <2>1 DEF TurnoCoherente
  <2>4. contexto.id \in BienFormados => Pedida(contexto.id, contexto.pc + 1, aux'.oper1, unidades')
    <3> SUFFICES ASSUME contexto.id \in BienFormados
                 PROVE  Pedida(contexto.id, contexto.pc + 1, aux'.oper1, unidades')
      OBVIOUS
    <3> DEFINE linea == Programa[contexto.id][contexto.pc + 1]
    <3>1. /\ BienFormada(linea) /\ linea.op = "I/O"
          /\ aux'.oper1 = linea.oper1 /\ aux'.oper2 = linea.oper2
          /\ contexto.pc + 1 < Len(Programa[contexto.id])
      BY <2>1, DecodificadoSano
    <3>2. linea.oper1 \in {"TECLADO", "PANTALLA"} => Registrada(linea.oper2)
      BY <3>1 DEF BienFormada
    <3>3. contexto.pc + 1 \in DOMAIN Programa[contexto.id]
      BY <2>1, Decodificado
    <3> QED
      BY <2>1, <3>1, <3>2, <3>3 DEF Pedida, Registrada, IndiceDe
  <2> QED
    BY <1>0, <1>1, <2>1, <2>2, <2>3, <2>4, InvEjecuta DEF Retornos
<1>7. CASE EjecutaExit
  <2>1. /\ Decodifica("EXIT") /\ devolver' = TRUE /\ operacion' = "EXIT_PROCESO"
        /\ UNCHANGED <<contexto, unidades, falta, mem, caido>>
    BY <1>7 DEF EjecutaExit
  <2>2. TurnoCoherente'
    BY <1>1, <2>1 DEF TurnoCoherente
  <2> QED
    BY <1>0, <1>1, <2>1, <2>2, InvEjecuta DEF Retornos, Finales
<1>8. CASE EjecutaNada
  <2>1. Decodifica(Nulo) /\ UNCHANGED <<contexto, operacion, unidades, devolver, falta, mem, caido>>
    BY <1>8 DEF EjecutaNada
  <2>2. TurnoCoherente' /\ Nulo # "EXIT"
    BY <1>1, <2>1, SupuestosCiclo DEF TurnoCoherente, SupuestosCiclo, Codigos
  <2> QED
    BY <1>0, <1>1, <2>1, <2>2, InvEjecuta
<1>9. ASSUME NEW c, NEW op \in {"PAGE_FAULT", "SEG_FAULT"}, EjecutaFalla(c, op)
      PROVE  Inv'
  <2>1. /\ Decodifica(c) /\ operacion' = op /\ falta' = TRUE
        /\ UNCHANGED <<contexto, unidades, devolver, mem, caido>>
    BY <1>9 DEF EjecutaFalla
  <2>2. TurnoCoherente'
    BY <1>1, <2>1 DEF TurnoCoherente
  <2> QED
    BY <1>0, <1>1, <2>1, <2>2, InvEjecuta DEF Retornos, Finales
<1> QED
  BY <1>2, <1>3, <1>4, <1>5, <1>6, <1>7, <1>8, <1>9 DEF Ejecuta, Accede

LEMMA PasoRecibe ==
  ASSUME Inv, Recibe
  PROVE  Inv'
<1>1. /\ TypeOK /\ AuxForma /\ CanalCoherente /\ ExecUnico /\ TurnoCoherente
      /\ \A p \in BienFormados : Sano(p)
  BY DEF Inv
<1>2. /\ turno = "recibe" /\ turno' = "ejecuta" /\ operacion' = "PROXIMO_PCB" /\ contexto' = canal
      /\ UNCHANGED <<pcb, lugar, pedido, pantalla, servidos, canal, unidades, aux, devolver,
                     falta, mem, caido>>
  BY DEF Recibe, kernelVars, cicloVars
<1>3. canal \in Contextos /\ canal.id \in Procesos
  BY <1>1, <1>2 DEF CanalCoherente
<1>4. TypeOK'
  BY <1>1, <1>2, <1>3 DEF TypeOK, Contextos
<1>5. AuxForma' /\ CanalCoherente'
  BY <1>1, <1>2 DEF AuxForma, CanalCoherente
<1>6. ExecUnico' /\ TurnoCoherente'
  BY <1>1, <1>2, <1>3 DEF ExecUnico, TurnoCoherente, Quien
<1>7. ASSUME NEW p \in BienFormados PROVE Sano(p)'
  <2>1. CASE lugar[p] = "exec"
    <3>1. p \in Procesos /\ Sano(p)
      BY <1>1 DEF BienFormados
    <3>2. canal.pc < Len(Programa[p])
      BY <1>2, <2>1, <3>1 DEF Sano
    <3> QED
      BY <1>2, <2>1, <3>2 DEF Sano
  <2>2. CASE lugar[p] # "exec"
    BY <1>1, <1>2, <2>2, SanoAjeno
  <2> QED
    BY <2>1, <2>2
<1> QED
  BY <1>4, <1>5, <1>6, <1>7 DEF Inv

LEMMA PasoFetchAfuera ==
  ASSUME Inv, FetchAfuera
  PROVE  Inv'
<1>1. /\ TypeOK /\ AuxForma /\ CanalCoherente /\ ExecUnico /\ TurnoCoherente
      /\ \A p \in BienFormados : Sano(p)
  BY DEF Inv
<1>2. /\ caido' = TRUE
      /\ UNCHANGED <<pcb, lugar, pedido, pantalla, servidos, canal, turno, contexto, operacion,
                     unidades, aux, devolver, falta, mem>>
  BY DEF FetchAfuera, kernelVars, cicloVars
<1>3. TypeOK'
  BY <1>1, <1>2 DEF TypeOK
<1>4. AuxForma' /\ CanalCoherente' /\ ExecUnico' /\ TurnoCoherente'
  BY <1>1, <1>2 DEF AuxForma, CanalCoherente, ExecUnico, TurnoCoherente, Quien
<1>5. ASSUME NEW p \in BienFormados PROVE Sano(p)'
  <2>1. Sano(p)
    BY <1>1
  <2> QED
    BY <1>2, <2>1 DEF Sano, Pedida
<1> QED
  BY <1>3, <1>4, <1>5 DEF Inv

LEMMA PasoCierraFalta ==
  ASSUME Inv, CierraFalta
  PROVE  Inv'
<1>1. /\ TypeOK /\ AuxForma /\ CanalCoherente /\ ExecUnico /\ TurnoCoherente
      /\ \A p \in BienFormados : Sano(p)
  BY DEF Inv
<1>2. /\ turno = "cierra" /\ falta /\ falta' = FALSE /\ turno' = "devuelve"
      /\ UNCHANGED <<pcb, lugar, pedido, pantalla, servidos, canal, contexto, operacion,
                     unidades, aux, devolver, mem, caido>>
  BY DEF CierraFalta, kernelVars
<1>3. operacion \in {"PAGE_FAULT", "SEG_FAULT"} /\ ~devolver
  BY <1>1, <1>2 DEF TurnoCoherente
<1>4. TypeOK'
  BY <1>1, <1>2 DEF TypeOK
<1>5. AuxForma' /\ CanalCoherente'
  BY <1>1, <1>2 DEF AuxForma, CanalCoherente
<1>6. ExecUnico' /\ TurnoCoherente'
  BY <1>1, <1>2, <1>3 DEF ExecUnico, TurnoCoherente, Quien, Retornos, Finales
<1>7. ASSUME NEW p \in BienFormados PROVE Sano(p)'
  <2>1. Sano(p)
    BY <1>1
  <2> QED
    BY <1>2, <1>3, <2>1 DEF Sano, Pedida
<1> QED
  BY <1>4, <1>5, <1>6, <1>7 DEF Inv

LEMMA PasoCierra ==
  ASSUME Inv, NEW interrumpido \in BOOLEAN, Cierra(interrumpido)
  PROVE  Inv'
<1>1. /\ TypeOK /\ AuxForma /\ CanalCoherente /\ ExecUnico /\ TurnoCoherente
      /\ \A p \in BienFormados : Sano(p)
  BY DEF Inv
<1>2. /\ turno = "cierra" /\ ~falta /\ devolver' = FALSE
      /\ contexto' = [contexto EXCEPT !.pc = contexto.pc + 1]
      /\ operacion' = IF interrumpido /\ operacion = "PROXIMO_PCB" THEN "DESALOJO_PROCESO" ELSE operacion
      /\ turno' = IF devolver \/ (interrumpido /\ operacion = "PROXIMO_PCB") THEN "devuelve" ELSE "ejecuta"
      /\ UNCHANGED <<pcb, lugar, pedido, pantalla, servidos, canal, unidades, aux, falta, mem, caido>>
  BY DEF Cierra, Desaloja, kernelVars
<1>3. /\ devolver => operacion \in {"BLOQUEO_PROCESO", "EXIT_PROCESO"}
      /\ ~devolver => operacion = "PROXIMO_PCB"
  BY <1>1, <1>2 DEF TurnoCoherente
<1>4. \/ turno' = "ejecuta" /\ operacion' = "PROXIMO_PCB" /\ operacion = "PROXIMO_PCB"
      \/ turno' = "devuelve" /\ operacion' = "DESALOJO_PROCESO" /\ operacion = "PROXIMO_PCB"
      \/ turno' = "devuelve" /\ operacion' = operacion
         /\ operacion \in {"BLOQUEO_PROCESO", "EXIT_PROCESO"}
  BY <1>2, <1>3
<1>5. contexto' \in Contextos /\ contexto'.id = contexto.id /\ contexto'.pc = contexto.pc + 1
  BY <1>1, <1>2 DEF TypeOK, Contextos
<1>6. TypeOK'
  <2>1. operacion' \in Retornos \cup {"PROXIMO_PCB"} /\ turno' \in {"ejecuta", "devuelve"}
    BY <1>4 DEF Retornos, Finales
  <2> QED
    BY <1>1, <1>2, <1>5, <2>1 DEF TypeOK, Contextos
<1>7. AuxForma' /\ CanalCoherente'
  BY <1>1, <1>2, <1>4 DEF AuxForma, CanalCoherente
<1>8. ExecUnico'
  BY <1>1, <1>2, <1>4, <1>5 DEF ExecUnico, Quien
<1>9. TurnoCoherente'
  BY <1>2, <1>4 DEF TurnoCoherente, Retornos, Finales
<1>10. ASSUME NEW p \in BienFormados PROVE Sano(p)'
  <2>1. CASE lugar[p] = "exec"
    <3>1. Sano(p)
      BY <1>1
    <3>2. /\ operacion = "PROXIMO_PCB" => contexto.pc + 1 < Len(Programa[p])
          /\ operacion = "BLOQUEO_PROCESO" => Pedida(p, contexto.pc + 1, aux.oper1, unidades)
      BY <1>2, <2>1, <3>1 DEF Sano
    <3> QED
      BY <1>2, <1>4, <1>5, <2>1, <3>2 DEF Sano, Pedida
  <2>2. CASE lugar[p] # "exec"
    BY <1>1, <1>2, <2>2, SanoAjeno
  <2> QED
    BY <2>1, <2>2
<1> QED
  BY <1>6, <1>7, <1>8, <1>9, <1>10 DEF Inv

LEMMA PasoDevuelve ==
  ASSUME Inv, Devuelve
  PROVE  Inv'
<1>1. /\ TypeOK /\ AuxForma /\ ExecUnico /\ TurnoCoherente
      /\ \A p \in BienFormados : Sano(p)
  BY DEF Inv
<1>2. /\ turno = "devuelve" /\ turno' = "actualiza"
      /\ canal' = [id |-> contexto.id, pc |-> contexto.pc, regs |-> contexto.regs,
                   op |-> operacion, dispositivo |-> aux.oper1, unidades |-> unidades]
      /\ UNCHANGED <<pcb, lugar, pedido, pantalla, servidos, contexto, operacion, unidades, aux,
                     devolver, falta, mem, caido>>
  BY DEF Devuelve, kernelVars, cicloVars
<1>3. TypeOK'
  BY <1>1, <1>2 DEF TypeOK
<1>4. AuxForma' /\ CanalCoherente'
  BY <1>1, <1>2 DEF AuxForma, CanalCoherente
<1>5. ExecUnico' /\ TurnoCoherente'
  BY <1>1, <1>2 DEF ExecUnico, TurnoCoherente, Quien
<1>6. ASSUME NEW p \in BienFormados PROVE Sano(p)'
  <2>1. Sano(p)
    BY <1>1
  <2> QED
    BY <1>2, <2>1 DEF Sano, Pedida
<1> QED
  BY <1>3, <1>4, <1>5, <1>6 DEF Inv

LEMMA PasoDespacha ==
  ASSUME Inv, NEW p \in Procesos, Despacha(p)
  PROVE  Inv'
<1>1. /\ TypeOK /\ AuxForma /\ ExecUnico /\ TurnoCoherente
      /\ \A q \in BienFormados : Sano(q)
  BY DEF Inv
<1>2. /\ turno = "kernel" /\ turno' = "recibe" /\ lugar[p] = "listo"
      /\ lugar' = [lugar EXCEPT ![p] = "exec"]
      /\ canal' = [id |-> p, pc |-> pcb[p].pc, regs |-> pcb[p].regs]
      /\ UNCHANGED <<pcb, pedido, pantalla, servidos, contexto, operacion, unidades, aux,
                     devolver, falta, mem, caido>>
  BY DEF Despacha, cicloVars
<1>3. /\ lugar'[p] = "exec" /\ \A q \in Procesos \ {p} : lugar'[q] = lugar[q]
      /\ lugar' \in [Procesos -> {"listo", "exec", "dispositivo", "pagina", "fin"}]
  BY <1>1, <1>2 DEF TypeOK
<1>4. TypeOK'
  BY <1>1, <1>2, <1>3 DEF TypeOK
<1>5. canal' \in Contextos /\ canal'.id = p /\ canal'.pc = pcb[p].pc
  <2>1. pcb[p].pc \in Nat /\ pcb[p].regs \in [Indices -> Valores]
    BY <1>1 DEF TypeOK
  <2> QED
    BY <1>2, <2>1 DEF Contextos
<1>6. AuxForma' /\ CanalCoherente' /\ TurnoCoherente'
  BY <1>1, <1>2, <1>5 DEF AuxForma, CanalCoherente, TurnoCoherente
<1>7. ExecUnico'
  BY <1>1, <1>2, <1>3, <1>5 DEF ExecUnico, Quien
<1>8. ASSUME NEW q \in BienFormados PROVE Sano(q)'
  <2>0. q \in Procesos /\ Sano(q)
    BY <1>1 DEF BienFormados
  <2>1. CASE q = p
    <3>1. pcb[p].pc < Len(Programa[p])
      BY <1>2, <2>0, <2>1 DEF Sano
    <3> QED
      BY <1>2, <1>3, <1>5, <2>1, <3>1 DEF Sano
  <2>2. CASE q # p
    <3>1. lugar[q] # "exec" /\ lugar'[q] = lugar[q]
      BY <1>1, <1>2, <1>3, <2>0, <2>2 DEF ExecUnico
    <3> QED
      BY <1>2, <2>0, <3>1, SanoAjeno
  <2> QED
    BY <2>1, <2>2
<1> QED
  BY <1>4, <1>6, <1>7, <1>8 DEF Inv

(* The context that comes back is the one the CPU had.                     *)
LEMMA Vuelto ==
  ASSUME Inv, turno = "actualiza"
  PROVE  /\ contexto.id \in Procesos /\ lugar[contexto.id] = "exec"
         /\ contexto.pc \in Nat /\ contexto.regs \in [Indices -> Valores]
         /\ operacion \in Retornos /\ canal.id = contexto.id /\ canal.pc = contexto.pc
         /\ canal.regs = contexto.regs /\ canal.op = operacion
         /\ canal.dispositivo = aux.oper1 /\ canal.unidades = unidades
<1>1. TypeOK /\ CanalCoherente /\ ExecUnico /\ TurnoCoherente
  BY DEF Inv
<1>2. canal = [id |-> contexto.id, pc |-> contexto.pc, regs |-> contexto.regs,
               op |-> operacion, dispositivo |-> aux.oper1, unidades |-> unidades]
  BY <1>1 DEF CanalCoherente
<1>3. contexto.id \in Procesos /\ lugar[contexto.id] = "exec" /\ operacion \in Retornos
  BY <1>1 DEF ExecUnico, Quien, TurnoCoherente
<1>4. contexto.pc \in Nat /\ contexto.regs \in [Indices -> Valores]
  BY <1>1 DEF TypeOK
<1> QED
  BY <1>2, <1>3, <1>4

LEMMA PasoActualiza ==
  ASSUME Inv, Actualiza
  PROVE  Inv'
<1>1. /\ TypeOK /\ AuxForma /\ ExecUnico /\ TurnoCoherente
      /\ \A p \in BienFormados : Sano(p)
  BY DEF Inv
<1> DEFINE id == contexto.id
<1>2. /\ turno = "actualiza" /\ turno' = "kernel" /\ canal' = Vacio
      /\ pcb' = [pcb EXCEPT ![canal.id] = [pc |-> canal.pc, regs |-> canal.regs]]
      /\ lugar' = [lugar EXCEPT ![canal.id] = LugarTras(canal.op)]
      /\ pedido' = IF canal.op = "BLOQUEO_PROCESO"
                   THEN [pedido EXCEPT ![canal.id] = [dispositivo |-> canal.dispositivo,
                                                      unidades |-> canal.unidades]]
                   ELSE pedido
      /\ UNCHANGED <<pantalla, servidos, contexto, operacion, unidades, aux, devolver, falta,
                     mem, caido>>
  BY DEF Actualiza, cicloVars
<1>3. /\ id \in Procesos /\ lugar[id] = "exec" /\ contexto.pc \in Nat
      /\ contexto.regs \in [Indices -> Valores] /\ operacion \in Retornos
      /\ canal.id = id /\ canal.pc = contexto.pc
      /\ canal.regs = contexto.regs /\ canal.op = operacion
      /\ canal.dispositivo = aux.oper1 /\ canal.unidades = unidades
  BY <1>2, Vuelto
<1> HIDE DEF id
<1> DEFINE s == LugarTras(operacion)
<1>4. /\ s \in {"listo", "dispositivo", "pagina", "fin"}
      /\ s = "listo" <=> operacion = "DESALOJO_PROCESO"
      /\ s = "pagina" <=> operacion = "PAGE_FAULT"
      /\ s = "dispositivo" <=> operacion = "BLOQUEO_PROCESO"
  BY <1>3, LugarTrasTipo DEF Retornos, Finales
<1> HIDE DEF s
<1>5. /\ lugar'[id] = s /\ \A q \in Procesos \ {id} : lugar'[q] = lugar[q]
      /\ lugar' \in [Procesos -> {"listo", "exec", "dispositivo", "pagina", "fin"}]
  BY <1>1, <1>2, <1>3, <1>4 DEF TypeOK, s
<1>6. /\ pcb'[id].pc = contexto.pc /\ \A q \in Procesos \ {id} : pcb'[q] = pcb[q]
      /\ pcb' \in [Procesos -> [pc : Nat, regs : [Indices -> Valores]]]
  <2>1. [pc |-> contexto.pc, regs |-> contexto.regs] \in [pc : Nat, regs : [Indices -> Valores]]
    BY <1>3
  <2>2. pcb' = [pcb EXCEPT ![id] = [pc |-> contexto.pc, regs |-> contexto.regs]]
    BY <1>2, <1>3
  <2>3. pcb \in [Procesos -> [pc : Nat, regs : [Indices -> Valores]]]
    BY <1>1 DEF TypeOK
  <2> QED
    BY <1>3, <2>1, <2>2, <2>3
<1>7. TypeOK'
  BY <1>1, <1>2, <1>5, <1>6 DEF TypeOK
<1>8. AuxForma' /\ CanalCoherente' /\ TurnoCoherente'
  BY <1>1, <1>2 DEF AuxForma, CanalCoherente, TurnoCoherente
<1>9. ExecUnico'
  <2>1. \A q \in Procesos : lugar'[q] # "exec"
    BY <1>1, <1>2, <1>4, <1>5 DEF ExecUnico, Quien, id
  <2> QED
    BY <1>2, <2>1 DEF ExecUnico
<1>10. ASSUME NEW q \in BienFormados PROVE Sano(q)'
  <2>0. q \in Procesos /\ Sano(q)
    BY <1>1 DEF BienFormados
  <2>1. CASE q = id
    <3>1. /\ operacion \in {"DESALOJO_PROCESO", "PAGE_FAULT"} => contexto.pc < Len(Programa[q])
          /\ operacion = "BLOQUEO_PROCESO" => Pedida(q, contexto.pc, aux.oper1, unidades)
      BY <1>2, <1>3, <2>0, <2>1 DEF Sano
    <3>2. CASE operacion = "BLOQUEO_PROCESO"
      <4>1. pedido' = [pedido EXCEPT ![id] = [dispositivo |-> aux.oper1, unidades |-> unidades]]
        BY <1>2, <1>3, <3>2
      <4>2. Pedida(q, pcb'[q].pc, aux.oper1, unidades)
        BY <1>6, <2>1, <3>1, <3>2
      <4>3. pedido'[id].dispositivo = aux.oper1 /\ pedido'[id].unidades = unidades
        BY <1>1, <1>3, <4>1 DEF TypeOK
      <4> QED
        BY <1>4, <1>5, <2>1, <3>2, <4>2, <4>3 DEF Sano, Pedida
    <3>3. CASE operacion # "BLOQUEO_PROCESO"
      BY <1>4, <1>5, <1>6, <2>1, <3>1, <3>3 DEF Sano
    <3> QED
      BY <3>2, <3>3
  <2>2. CASE q # id
    <3>1. lugar[q] # "exec" /\ lugar'[q] = lugar[q] /\ pcb'[q] = pcb[q]
      BY <1>1, <1>2, <1>5, <1>6, <2>0, <2>2 DEF ExecUnico, Quien, id
    <3>2. pedido'[q] = pedido[q]
      BY <1>2, <1>3, <2>2
    <3> QED
      BY <2>0, <3>1, <3>2, SanoAjeno
  <2> QED
    BY <2>1, <2>2
<1> QED
  BY <1>7, <1>8, <1>9, <1>10 DEF Inv

(* A process comes back to READY, from its device or from its page.        *)
LEMMA Vuelve ==
  ASSUME Inv, NEW p \in Procesos, lugar[p] \in {"dispositivo", "pagina"},
         lugar' = [lugar EXCEPT ![p] = "listo"],
         pcb' \in [Procesos -> [pc : Nat, regs : [Indices -> Valores]]],
         pcb'[p].pc = pcb[p].pc, \A q \in Procesos \ {p} : pcb'[q] = pcb[q],
         servidos' \in [Procesos -> Nat], pantalla' \in [Procesos -> Valores \cup {Nulo}],
         caido' \in BOOLEAN,
         UNCHANGED <<pedido, canal, turno, contexto, operacion, unidades, aux, devolver, falta, mem>>
  PROVE  Inv'
<1>1. /\ TypeOK /\ AuxForma /\ CanalCoherente /\ ExecUnico /\ TurnoCoherente
      /\ \A q \in BienFormados : Sano(q)
  BY DEF Inv
<1>2. /\ lugar'[p] = "listo" /\ \A q \in Procesos \ {p} : lugar'[q] = lugar[q]
      /\ lugar' \in [Procesos -> {"listo", "exec", "dispositivo", "pagina", "fin"}]
  BY <1>1 DEF TypeOK
<1>3. TypeOK'
  BY <1>1, <1>2 DEF TypeOK
<1>4. AuxForma' /\ CanalCoherente' /\ TurnoCoherente'
  BY <1>1 DEF AuxForma, CanalCoherente, TurnoCoherente
<1>5. ExecUnico'
  BY <1>1, <1>2 DEF ExecUnico, Quien
<1>6. ASSUME NEW q \in BienFormados PROVE Sano(q)'
  <2>0. q \in Procesos /\ Sano(q)
    BY <1>1 DEF BienFormados
  <2>1. CASE q = p
    <3>1. pcb[p].pc < Len(Programa[p])
      BY <2>0, <2>1 DEF Sano, Pedida
    <3> QED
      BY <1>2, <2>1, <3>1 DEF Sano
  <2>2. CASE q # p /\ lugar[q] # "exec"
    BY <1>2, <2>0, <2>2, SanoAjeno
  <2>3. CASE q # p /\ lugar[q] = "exec"
    BY <1>2, <2>0, <2>3 DEF Sano, Pedida
  <2> QED
    BY <2>1, <2>2, <2>3
<1> QED
  BY <1>3, <1>4, <1>5, <1>6 DEF Inv

LEMMA PasoCargaPagina ==
  ASSUME Inv, NEW p \in Procesos, CargaPagina(p)
  PROVE  Inv'
<1>1. TypeOK
  BY DEF Inv
<1>2. /\ lugar[p] = "pagina" /\ lugar' = [lugar EXCEPT ![p] = "listo"]
      /\ UNCHANGED <<pcb, pedido, pantalla, servidos, canal, turno, contexto, operacion, unidades,
                     aux, devolver, falta, mem, caido>>
  BY DEF CargaPagina, cicloVars
<1>3. /\ pcb' \in [Procesos -> [pc : Nat, regs : [Indices -> Valores]]]
      /\ pcb'[p].pc = pcb[p].pc /\ \A q \in Procesos \ {p} : pcb'[q] = pcb[q]
  BY <1>1, <1>2 DEF TypeOK
<1>4. /\ servidos' \in [Procesos -> Nat] /\ pantalla' \in [Procesos -> Valores \cup {Nulo}]
      /\ caido' \in BOOLEAN
  BY <1>1, <1>2 DEF TypeOK
<1> QED
  BY <1>2, <1>3, <1>4, Vuelve

LEMMA Terminado ==
  ASSUME TypeOK, NEW p \in Procesos, TerminaDispositivo(p)
  PROVE  /\ lugar[p] = "dispositivo" /\ lugar' = [lugar EXCEPT ![p] = "listo"]
         /\ servidos' = [servidos EXCEPT ![p] = servidos[p] + 1] /\ servidos' \in [Procesos -> Nat]
         /\ UNCHANGED <<pedido, canal, turno, contexto, operacion, unidades, aux, devolver, falta, mem>>
BY DEF TypeOK, TerminaDispositivo, cicloVars

LEMMA PasoUsa ==
  ASSUME Inv, NEW p \in Procesos, Usa(p)
  PROVE  Inv'
<1>1. /\ TypeOK /\ pcb \in [Procesos -> [pc : Nat, regs : [Indices -> Valores]]]
      /\ pantalla \in [Procesos -> Valores \cup {Nulo}]
  BY DEF Inv, TypeOK
<1>2. ASSUME NEW v \in Valores, UsaTeclado(p, v)
      PROVE  Inv'
  <2>1. /\ TerminaDispositivo(p) /\ caido' \in BOOLEAN /\ pantalla' = pantalla
        /\ pcb' = IF pedido[p].unidades \in Indices
                  THEN [pcb EXCEPT ![p].regs[pedido[p].unidades] = v] ELSE pcb
    BY <1>2 DEF UsaTeclado, Registros
  <2>2. /\ pcb' \in [Procesos -> [pc : Nat, regs : [Indices -> Valores]]]
        /\ pcb'[p].pc = pcb[p].pc /\ \A q \in Procesos \ {p} : pcb'[q] = pcb[q]
    <3>1. CASE pedido[p].unidades \in Indices
      <4> DEFINE u == pedido[p].unidades
                 rs == [pcb[p].regs EXCEPT ![u] = v]
                 nuevo == [pcb[p] EXCEPT !.regs = rs]
      <4>1. pcb[p] \in [pc : Nat, regs : [Indices -> Valores]]
        BY <1>1
      <4>2. rs \in [Indices -> Valores]
        BY <3>1, <4>1
      <4>3. pcb' = [pcb EXCEPT ![p] = nuevo]
        BY <2>1, <3>1
      <4> HIDE DEF rs
      <4>4. nuevo \in [pc : Nat, regs : [Indices -> Valores]] /\ nuevo.pc = pcb[p].pc
        BY <4>1, <4>2
      <4> HIDE DEF nuevo
      <4> QED
        BY <1>1, <4>3, <4>4
    <3>2. CASE pedido[p].unidades \notin Indices
      BY <1>1, <2>1, <3>2
    <3> QED
      BY <3>1, <3>2
  <2> QED
    BY <1>1, <2>1, <2>2, Terminado, Vuelve
<1>3. CASE UsaPantalla(p)
  <2>1. /\ TerminaDispositivo(p) /\ caido' \in BOOLEAN /\ pcb' = pcb
        /\ pantalla' = IF pedido[p].unidades \in Indices
                       THEN [pantalla EXCEPT ![p] = pcb[p].regs[pedido[p].unidades]] ELSE pantalla
    BY <1>3 DEF UsaPantalla, Registros
  <2>2. pantalla' \in [Procesos -> Valores \cup {Nulo}]
    <3>1. pcb[p].regs \in [Indices -> Valores]
      BY <1>1
    <3> QED
      BY <1>1, <2>1, <3>1
  <2> QED
    BY <1>1, <2>1, <2>2, Terminado, Vuelve
<1>4. CASE UsaDispositivo(p)
  <2>1. TerminaDispositivo(p) /\ caido' \in BOOLEAN /\ pcb' = pcb /\ pantalla' = pantalla
    BY <1>4 DEF UsaDispositivo
  <2> QED
    BY <1>1, <2>1, Terminado, Vuelve
<1> QED
  BY <1>2, <1>3, <1>4 DEF Usa

LEMMA InvSigue == Inv /\ [Next]_vars => Inv'
<1> SUFFICES ASSUME Inv, [Next]_vars PROVE Inv'
  OBVIOUS
<1>1. CASE UNCHANGED vars
  <2>1. UNCHANGED <<pcb, lugar, pedido, pantalla, servidos, canal, turno, contexto, operacion,
                    unidades, aux, devolver, falta, mem, caido>>
    BY <1>1 DEF vars, kernelVars, cicloVars
  <2>2. TypeOK'
    BY <2>1 DEF Inv, TypeOK
  <2>3. AuxForma' /\ CanalCoherente' /\ ExecUnico' /\ TurnoCoherente'
    BY <2>1 DEF Inv, AuxForma, CanalCoherente, ExecUnico, TurnoCoherente, Quien
  <2>4. ASSUME NEW p \in BienFormados PROVE Sano(p)'
    <3>1. Sano(p)
      BY DEF Inv
    <3> QED
      BY <2>1, <3>1 DEF Sano, Pedida
  <2> QED
    BY <2>2, <2>3, <2>4 DEF Inv
<1>2. CASE Next
  <2>1. CASE Cpu
    BY <2>1, PasoRecibe, PasoFetchAfuera, PasoEjecuta, PasoCierraFalta, PasoCierra, PasoDevuelve
       DEF Cpu
  <2>2. CASE Kernel
    BY <2>2, PasoActualiza, PasoDespacha DEF Kernel
  <2>3. CASE \E p \in Procesos : CargaPagina(p) \/ Usa(p)
    BY <2>3, PasoCargaPagina, PasoUsa
  <2> QED
    BY <1>2, <2>1, <2>2, <2>3 DEF Next
<1> QED
  BY <1>1, <1>2

(* Whatever the programs are, Inv holds of every state.                    *)
THEOREM InvSiempre == Spec => []Inv
<1>1. Inv /\ [Next]_vars => Inv'
  BY InvSigue
<1> QED
  BY <1>1, InvInicial, PTL DEF Spec

(* The variables of the cycle, the PCBs and the memory have their types    *)
(* whatever the programs are and whatever malloc left.                     *)
THEOREM TipoCorrecto == Spec => []TypeOK
<1>1. Inv => TypeOK
  BY DEF Inv
<1> QED
  BY <1>1, InvSiempre, PTL

-----------------------------------------------------------------------------
(* No process changes another. *)

LEMMA PasoPropio ==
  ASSUME Inv, [Next]_vars, NEW p \in Procesos
  PROVE  /\ pcb'[p] # pcb[p] => lugar[p] \in {"exec", "dispositivo"}
         /\ mem'[p] # mem[p] => lugar[p] = "exec"
<1>1. TypeOK
  BY DEF Inv
<1>2. CASE UNCHANGED <<pcb, mem>>
  BY <1>2
<1>3. CASE EjecutaMovOut
  <2>1. /\ Decodifica("MOV_OUT")
        /\ mem' = [mem EXCEPT ![contexto.id][Casilla(DireccionMov)] = ValorDe(aux'.register2)]
    BY <1>3 DEF EjecutaMovOut
  <2>2. contexto.id \in Procesos /\ lugar[contexto.id] = "exec" /\ pcb' = pcb
    BY <2>1, Decodificado
  <2>3. p # contexto.id => mem'[p] = mem[p]
    <3>1. mem = [q \in Procesos |-> mem[q]]
      BY <1>1, MemoriasTipo DEF TypeOK
    <3> DEFINE nueva == [mem[contexto.id] EXCEPT ![Casilla(DireccionMov)] = ValorDe(aux'.register2)]
    <3>2. mem' = [mem EXCEPT ![contexto.id] = nueva]
      BY <2>1
    <3> HIDE DEF nueva
    <3> QED
      BY <3>1, <3>2
  <2> QED
    BY <2>2, <2>3
<1>4. CASE Actualiza
  <2>1. /\ turno = "actualiza" /\ mem' = mem
        /\ pcb' = [pcb EXCEPT ![canal.id] = [pc |-> canal.pc, regs |-> canal.regs]]
    BY <1>4 DEF Actualiza
  <2>2. canal.id = contexto.id /\ contexto.id \in Procesos /\ lugar[contexto.id] = "exec"
    BY <2>1, Vuelto
  <2>3. p # contexto.id => pcb'[p] = pcb[p]
    BY <1>1, <2>1, <2>2 DEF TypeOK
  <2> QED
    BY <2>1, <2>2, <2>3
<1>5. ASSUME NEW q \in Procesos, NEW v \in Valores, UsaTeclado(q, v)
      PROVE  /\ pcb'[p] # pcb[p] => lugar[p] \in {"exec", "dispositivo"}
             /\ mem'[p] # mem[p] => lugar[p] = "exec"
  <2>1. /\ lugar[q] = "dispositivo" /\ mem' = mem
        /\ pcb' = IF pedido[q].unidades \in Indices
                  THEN [pcb EXCEPT ![q].regs[pedido[q].unidades] = v] ELSE pcb
    BY <1>5 DEF UsaTeclado, TerminaDispositivo
  <2>2. p # q => pcb'[p] = pcb[p]
    <3> DEFINE nuevo == [pcb[q] EXCEPT !.regs[pedido[q].unidades] = v]
    <3>1. pcb' = pcb \/ pcb' = [pcb EXCEPT ![q] = nuevo]
      BY <2>1
    <3> HIDE DEF nuevo
    <3> QED
      BY <1>1, <3>1 DEF TypeOK
  <2> QED
    BY <2>1, <2>2
<1>6. CASE UNCHANGED vars
  BY <1>2, <1>6 DEF vars, kernelVars
<1>7. CASE Next
  <2>1. CASE Cpu
    <3>1. CASE Ejecuta
      <4>1. ASSUME NEW c, Decodifica(c) PROVE pcb' = pcb
        BY <4>1 DEF Decodifica, kernelVars
      <4>2. UNCHANGED <<pcb, mem>> \/ EjecutaMovOut
        BY <3>1, <4>1 DEF Ejecuta, Accede, EjecutaSet, EjecutaAdd, EjecutaMovIn, EjecutaIO,
           EjecutaExit, EjecutaNada, EjecutaFalla
      <4> QED
        BY <1>2, <1>3, <4>2
    <3>2. CASE Recibe \/ FetchAfuera \/ CierraFalta \/ Devuelve
      BY <1>2, <3>2 DEF Recibe, FetchAfuera, CierraFalta, Devuelve, kernelVars
    <3>3. ASSUME NEW interrumpido, Cierra(interrumpido) PROVE UNCHANGED <<pcb, mem>>
      BY <3>3 DEF Cierra, kernelVars
    <3> QED
      BY <1>2, <2>1, <3>1, <3>2, <3>3 DEF Cpu
  <2>2. CASE Kernel
    BY <1>2, <1>4, <2>2 DEF Kernel, Despacha
  <2>3. CASE \E q \in Procesos : CargaPagina(q) \/ Usa(q)
    <3>1. PICK q \in Procesos : CargaPagina(q) \/ Usa(q)
      BY <2>3
    <3>2. CASE CargaPagina(q) \/ UsaPantalla(q) \/ UsaDispositivo(q)
      BY <1>2, <3>2 DEF CargaPagina, UsaPantalla, UsaDispositivo, TerminaDispositivo
    <3> QED
      BY <1>5, <3>1, <3>2 DEF Usa
  <2> QED
    BY <1>7, <2>1, <2>2, <2>3 DEF Next
<1> QED
  BY <1>6, <1>7

(* The PCB of a process changes only while it has the CPU or its device    *)
(* answers (obtener_y_actualizar_pcb_recibido and the keyboard), and its   *)
(* memory only by its own MOV_OUT, whatever the other programs are.        *)
THEOREM SoloElPropioCorrecto == Spec => SoloElPropio
<1>1. Inv /\ [Next]_vars =>
        [\A p \in Procesos : /\ pcb'[p] # pcb[p] => lugar[p] \in {"exec", "dispositivo"}
                             /\ mem'[p] # mem[p] => lugar[p] = "exec"]_vars
  BY PasoPropio
<1> QED
  BY <1>1, InvSiempre, PTL DEF Spec, SoloElPropio

-----------------------------------------------------------------------------
(* Nothing is read or written outside an array. *)

LEMMA RegistrosAdentro ==
  ASSUME Inv, Ejecuta, ~caido, BienFormados = Procesos
  PROVE  ~caido'
<1>1. ASSUME NEW c, Decodifica(c)
      PROVE  /\ c \in {"SET", "ADD", "MOV_IN"} => aux'.register1 \in Indices
             /\ c \in {"ADD", "MOV_OUT"} => aux'.register2 \in Indices
  <2>1. contexto.id \in BienFormados
    BY <1>1, Decodificado
  <2> QED
    BY <1>1, <2>1, DecodificadoSano
<1>2. EjecutaSet => ~caido'
  BY <1>1 DEF EjecutaSet, Registros
<1>3. EjecutaAdd => ~caido'
  BY <1>1 DEF EjecutaAdd, Registros
<1>4. EjecutaMovIn => ~caido'
  BY <1>1 DEF EjecutaMovIn, Registros
<1>5. EjecutaMovOut => ~caido'
  BY <1>1 DEF EjecutaMovOut, Registros
<1> QED
  BY <1>2, <1>3, <1>4, <1>5
     DEF Ejecuta, Accede, EjecutaIO, EjecutaExit, EjecutaNada, EjecutaFalla

(* What a well-formed line asks of its device. *)
LEMMA PedidoSano ==
  ASSUME Inv, NEW p \in BienFormados, lugar[p] = "dispositivo"
  PROVE  /\ Pedida(p, pcb[p].pc, pedido[p].dispositivo, pedido[p].unidades)
         /\ pedido[p].dispositivo \in {"TECLADO", "PANTALLA"} => pedido[p].unidades \in Indices
         /\ pedido[p].dispositivo \in Dispositivos \cup {"TECLADO", "PANTALLA"}
<1>1. Pedida(p, pcb[p].pc, pedido[p].dispositivo, pedido[p].unidades)
  BY DEF Inv, Sano
<1> DEFINE linea == Programa[p][pcb[p].pc]
<1>2. /\ BienFormada(linea) /\ linea.op = "I/O" /\ pedido[p].dispositivo = linea.oper1
      /\ linea.oper1 \in {"TECLADO", "PANTALLA"} => pedido[p].unidades = Indice[linea.oper2]
  BY <1>1 DEF Pedida, BienFormados
<1> HIDE DEF linea
<1>3. \/ linea.oper1 \in {"TECLADO", "PANTALLA"} /\ Registrada(linea.oper2)
      \/ linea.oper1 \in Dispositivos \ {"TECLADO", "PANTALLA"}
  BY <1>2 DEF BienFormada
<1> QED
  BY <1>1, <1>2, <1>3 DEF Registrada

LEMMA PasoAdentro ==
  ASSUME Inv, ~caido, [Next]_vars, BienFormados = Procesos
  PROVE  ~caido'
<1>1. ~FetchAfuera
  <2> SUFFICES ASSUME FetchAfuera PROVE FALSE
    OBVIOUS
  <2>1. turno = "ejecuta" /\ ~(contexto.pc < Len(Programa[contexto.id]))
    BY DEF FetchAfuera, DentroDelPrograma
  <2>2. contexto.id \in Procesos /\ lugar[contexto.id] = "exec"
    BY <2>1 DEF Inv, ExecUnico, Quien
  <2>3. Sano(contexto.id)
    BY <2>2 DEF Inv
  <2> QED
    BY <2>1, <2>2, <2>3 DEF Sano
<1>2. ASSUME NEW p \in Procesos, Usa(p) PROVE ~caido'
  <2>1. lugar[p] = "dispositivo"
    BY <1>2 DEF Usa, UsaTeclado, UsaPantalla, UsaDispositivo, TerminaDispositivo
  <2>2. /\ pedido[p].dispositivo \in {"TECLADO", "PANTALLA"} => pedido[p].unidades \in Indices
        /\ pedido[p].dispositivo \in Dispositivos \cup {"TECLADO", "PANTALLA"}
    BY <2>1, PedidoSano
  <2> QED
    BY <1>2, <2>2 DEF Usa, UsaTeclado, UsaPantalla, UsaDispositivo, Registros
<1>3. CASE UNCHANGED vars
  BY <1>3 DEF vars
<1>4. CASE Cpu
  BY <1>1, <1>4, RegistrosAdentro DEF Cpu, Recibe, CierraFalta, Devuelve, Cierra
<1>5. CASE Kernel
  BY <1>5 DEF Kernel, Actualiza, Despacha
<1> QED
  BY <1>2, <1>3, <1>4, <1>5 DEF Next, CargaPagina

(* When the lines of all programs are well formed, no line is fetched past *)
(* the end of one, no register outside registros[4] is used, by the CPU or *)
(* by the thread of a device, and no device that the Kernel does not have  *)
(* is asked for, whatever malloc left in auxCiclo.                         *)
THEOREM NadaAfueraCorrecto == BienFormados = Procesos => (Spec => []NadaAfuera)
<1> SUFFICES ASSUME BienFormados = Procesos PROVE Spec => []NadaAfuera
  OBVIOUS
<1>1. Init => ~caido
  BY DEF Init
<1>2. Inv /\ ~caido /\ [Next]_vars => ~caido'
  BY PasoAdentro
<1> QED
  BY <1>1, <1>2, InvSiempre, PTL DEF Spec, NadaAfuera

-----------------------------------------------------------------------------
(* What the author of a well-formed program sees. *)

MPc       == [p \in BienFormados |-> Vista(p).pc]
MRegs     == [p \in BienFormados |-> Vista(p).regs]
MMem      == [p \in BienFormados |-> [d \in DireccionesDe(p) |-> mem[p][Casilla(d)]]]
MEstado   == [p \in BienFormados |-> EstadoDe(p)]
MPantalla == [p \in BienFormados |-> pantalla[p]]
MServidos == [p \in BienFormados |-> servidos[p]]
Mapa      == <<MPc, MRegs, MMem, MEstado, MPantalla, MServidos>>

(* A step that the author of p does not see. *)
Igual(p) ==
    /\ Vista(p)' = Vista(p) /\ EstadoDe(p)' = EstadoDe(p) /\ mem'[p] = mem[p]
    /\ pantalla'[p] = pantalla[p] /\ servidos'[p] = servidos[p]

LEMMA MapaQuieto ==
  ASSUME \A p \in BienFormados : Igual(p)
  PROVE  UNCHANGED Mapa
<1>1. MPc' = MPc /\ MRegs' = MRegs /\ MEstado' = MEstado
  BY DEF Igual, MPc, MRegs, MEstado
<1>2. MMem' = MMem /\ MPantalla' = MPantalla /\ MServidos' = MServidos
  BY DEF Igual, MMem, MPantalla, MServidos
<1> QED
  BY <1>1, <1>2 DEF Mapa

LEMMA MapaPaso ==
  ASSUME NEW p \in BienFormados, \A q \in BienFormados \ {p} : Igual(q)
  PROVE  /\ MPc' = [MPc EXCEPT ![p] = Vista(p)'.pc]
         /\ MRegs' = [MRegs EXCEPT ![p] = Vista(p)'.regs]
         /\ MEstado' = [MEstado EXCEPT ![p] = EstadoDe(p)']
         /\ MMem' = [MMem EXCEPT ![p] = [d \in DireccionesDe(p) |-> mem'[p][Casilla(d)]]]
         /\ MPantalla' = [MPantalla EXCEPT ![p] = pantalla'[p]]
         /\ MServidos' = [MServidos EXCEPT ![p] = servidos'[p]]
<1>1. \A q \in BienFormados \ {p} :
         /\ Vista(q)' = Vista(q) /\ EstadoDe(q)' = EstadoDe(q) /\ mem'[q] = mem[q]
         /\ pantalla'[q] = pantalla[q] /\ servidos'[q] = servidos[q]
  BY DEF Igual
<1>2. MPc' = [MPc EXCEPT ![p] = Vista(p)'.pc]
  BY <1>1 DEF MPc
<1>3. MRegs' = [MRegs EXCEPT ![p] = Vista(p)'.regs]
  BY <1>1 DEF MRegs
<1>4. MEstado' = [MEstado EXCEPT ![p] = EstadoDe(p)']
  BY <1>1 DEF MEstado
<1>5. MMem' = [MMem EXCEPT ![p] = [d \in DireccionesDe(p) |-> mem'[p][Casilla(d)]]]
  BY <1>1 DEF MMem
<1>6. /\ MPantalla' = [MPantalla EXCEPT ![p] = pantalla'[p]]
      /\ MServidos' = [MServidos EXCEPT ![p] = servidos'[p]]
  BY <1>1 DEF MPantalla, MServidos
<1> QED
  BY <1>2, <1>3, <1>4, <1>5, <1>6

LEMMA VistaAjena ==
  ASSUME NEW p, lugar[p] # "exec", lugar'[p] = lugar[p], pcb'[p] = pcb[p]
  PROVE  Vista(p)' = Vista(p) /\ EstadoDe(p)' = EstadoDe(p)
BY DEF Vista, EstadoDe, EnCpu

(* The addresses of a program are places of its memory, one each. *)
LEMMA Direccionada ==
  ASSUME NEW p \in BienFormados
  PROVE  /\ \A n \in DOMAIN Numeral :
              Numeral[n] \in DireccionesDe(p) <=> ~SegFault(Numeral[n], Segmentos[p])
         /\ \A d \in DireccionesDe(p) : d \in Nat /\ Casilla(d) \in Casillas(p)
         /\ \A d, e \in DireccionesDe(p) : Casilla(d) = Casilla(e) => d = e
<1> DEFINE Cuales == {Numeral[n] : n \in DOMAIN Numeral} \cup {0}
<1>1. Segmentos[p] \in Seq(0..TamMaxSegmento)
  BY DEF BienFormados
<1>2. Cuales \subseteq Nat
  BY SupuestosCiclo DEF SupuestosCiclo
<1>3. \A d \in Cuales :
        d \in DireccionesDe(p) <=> \E s \in DOMAIN Segmentos[p] :
                /\ (s - 1) * TamMaxSegmento <= d
                /\ d < (s - 1) * TamMaxSegmento + Segmentos[p][s]
  BY DEF DireccionesDe
<1>4. \A d \in Cuales : d \in DireccionesDe(p) <=> ~SegFault(d, Segmentos[p])
  <2> HIDE DEF Cuales
  <2> TAKE d \in Cuales
  <2>1. ~SegFault(d, Segmentos[p]) <=> \E s \in DOMAIN Segmentos[p] :
                /\ (s - 1) * TamMaxSegmento <= d
                /\ d < (s - 1) * TamMaxSegmento + Segmentos[p][s]
    BY <1>1, <1>2, ChequeoExacto
  <2> QED
    BY <1>3, <2>1
<1>5. DireccionesDe(p) \subseteq Cuales
  BY DEF DireccionesDe
<1>6. \A d \in Cuales : ~SegFault(d, Segmentos[p]) => Casilla(d) \in Casillas(p)
  BY DEF Casillas
<1>7. \A n \in DOMAIN Numeral : Numeral[n] \in Cuales
  OBVIOUS
<1>8. \A d, e \in DireccionesDe(p) : Casilla(d) = Casilla(e) => d = e
  <2> HIDE DEF Cuales
  <2> QED
    BY <1>2, <1>5, CasillaInyectiva
<1> HIDE DEF Cuales
<1> QED
  BY <1>2, <1>4, <1>5, <1>6, <1>7, <1>8

LEMMA Iguales ==
  /\ Interprete!Indice = Indice /\ Interprete!Valores = Valores
BY DEF Interprete!Indice, Indice, Interprete!Valores, Valores

LEMMA InterpreteInicial == Init => Interprete!Init
<1> SUFFICES ASSUME Init PROVE Interprete!Init
  OBVIOUS
<1>1. /\ pcb \in [Procesos -> [pc : {0}, regs : [Indices -> Valores]]]
      /\ lugar = [p \in Procesos |-> "listo"] /\ pantalla = [p \in Procesos |-> Nulo]
      /\ servidos = [p \in Procesos |-> 0] /\ mem \in Memorias
  BY DEF Init
<1>2. \A p \in BienFormados :
         /\ p \in Procesos /\ lugar[p] = "listo" /\ pantalla[p] = Nulo /\ servidos[p] = 0
         /\ pcb[p].pc = 0 /\ pcb[p].regs \in [Indices -> Valores]
         /\ mem[p] \in [Casillas(p) -> Valores]
  BY <1>1, MemoriasTipo DEF BienFormados
<1>3. \A p \in BienFormados : Vista(p) = pcb[p] /\ EstadoDe(p) = "corre"
  BY <1>2 DEF Vista, EstadoDe, EnCpu
<1>4. /\ MPc = [p \in BienFormados |-> 0] /\ MEstado = [p \in BienFormados |-> "corre"]
      /\ MPantalla = [p \in BienFormados |-> Nulo] /\ MServidos = [p \in BienFormados |-> 0]
  BY <1>2, <1>3 DEF MPc, MEstado, MPantalla, MServidos
<1>5. MRegs \in [BienFormados -> [0..(CantRegistros - 1) -> Interprete!Valores]]
  BY <1>2, <1>3, Iguales DEF MRegs, Indices
<1> DEFINE dirs == [p \in BienFormados |-> DireccionesDe(p)]
           U == UNION {[dirs[p] -> Interprete!Valores] : p \in BienFormados}
<1>6. MMem \in {m \in [BienFormados -> U] : \A p \in BienFormados : DOMAIN m[p] = dirs[p]}
  <2>1. \A p \in BienFormados : MMem[p] \in [dirs[p] -> Valores]
    BY <1>2, Direccionada DEF MMem
  <2>2. \A p \in BienFormados : MMem[p] \in U
    BY <2>1, Iguales
  <2>3. MMem = [p \in BienFormados |-> MMem[p]]
    BY DEF MMem
  <2>4. MMem \in [BienFormados -> U]
    <3> HIDE DEF U
    <3> QED
      BY <2>2, <2>3
  <2>5. \A p \in BienFormados : DOMAIN MMem[p] = dirs[p]
    BY <2>1
  <2> HIDE DEF U, dirs
  <2> QED
    BY <2>4, <2>5
<1> QED
  BY <1>4, <1>5, <1>6
     DEF Interprete!Init, MPc, MRegs, MMem, MEstado, MPantalla, MServidos

(* A step of the trip of a context. *)
LEMMA Mudo ==
  ASSUME UNCHANGED <<mem, pantalla, servidos>>,
         \A p \in BienFormados :
            \/ Vista(p)' = Vista(p) /\ EstadoDe(p)' = EstadoDe(p)
            \/ lugar[p] # "exec" /\ lugar'[p] = lugar[p] /\ pcb'[p] = pcb[p]
  PROVE  UNCHANGED Mapa
<1>1. ASSUME NEW p \in BienFormados PROVE Igual(p)
  <2>1. Vista(p)' = Vista(p) /\ EstadoDe(p)' = EstadoDe(p)
    BY VistaAjena
  <2> QED
    BY <2>1 DEF Igual
<1> QED
  BY <1>1, MapaQuieto

LEMMA RefDespacha ==
  ASSUME Inv, NEW p \in Procesos, Despacha(p)
  PROVE  UNCHANGED Mapa
<1>1. TypeOK /\ pcb \in [Procesos -> [pc : Nat, regs : [Indices -> Valores]]]
  BY DEF Inv, TypeOK
<1>2. /\ turno = "kernel" /\ turno' = "recibe" /\ lugar[p] = "listo"
      /\ lugar' = [lugar EXCEPT ![p] = "exec"]
      /\ canal' = [id |-> p, pc |-> pcb[p].pc, regs |-> pcb[p].regs]
      /\ UNCHANGED <<pcb, pantalla, servidos, mem>>
  BY DEF Despacha
<1>3. lugar'[p] = "exec" /\ \A q \in Procesos \ {p} : lugar'[q] = lugar[q]
  BY <1>1, <1>2 DEF TypeOK
<1>4. Vista(p) = pcb[p] /\ EstadoDe(p) = "corre"
  BY <1>2 DEF Vista, EstadoDe, EnCpu
<1>5. Vista(p)' = pcb[p] /\ EstadoDe(p)' = "corre"
  <2>1. Vista(p)' = [pc |-> pcb[p].pc, regs |-> pcb[p].regs]
    BY <1>2, <1>3 DEF Vista, EnCpu
  <2>2. pcb[p] = [pc |-> pcb[p].pc, regs |-> pcb[p].regs]
    BY <1>1
  <2>3. EstadoDe(p)' = "corre"
    BY <1>2, <1>3 DEF EstadoDe, OperacionDe, EnCpu, Finales
  <2> QED
    BY <2>1, <2>2, <2>3
<1>6. ASSUME NEW q \in BienFormados, q # p
      PROVE  lugar[q] # "exec" /\ lugar'[q] = lugar[q] /\ pcb'[q] = pcb[q]
  BY <1>2, <1>3, <1>6 DEF Inv, ExecUnico, BienFormados
<1> QED
  BY <1>2, <1>4, <1>5, <1>6, Mudo

LEMMA RefRecibe ==
  ASSUME Inv, Recibe
  PROVE  UNCHANGED Mapa
<1>1. /\ turno = "recibe" /\ turno' = "ejecuta" /\ operacion' = "PROXIMO_PCB" /\ contexto' = canal
      /\ UNCHANGED <<pcb, lugar, pantalla, servidos, mem>>
  BY DEF Recibe, kernelVars
<1>2. canal \in Contextos
  BY <1>1 DEF Inv, CanalCoherente
<1>3. ASSUME NEW p \in BienFormados, lugar[p] = "exec"
      PROVE  Vista(p)' = Vista(p) /\ EstadoDe(p)' = EstadoDe(p)
  <2>1. canal.pc + 0 = canal.pc
    BY <1>2 DEF Contextos
  <2> QED
    BY <1>1, <1>3, <2>1 DEF Vista, EstadoDe, OperacionDe, EnCpu
<1> QED
  BY <1>1, <1>3, Mudo

LEMMA RefCierraFalta ==
  ASSUME Inv, CierraFalta
  PROVE  UNCHANGED Mapa
<1>1. /\ turno = "cierra" /\ falta /\ falta' = FALSE /\ turno' = "devuelve"
      /\ UNCHANGED <<pcb, lugar, pantalla, servidos, contexto, operacion, mem>>
  BY DEF CierraFalta, kernelVars
<1>3. ASSUME NEW p \in BienFormados, lugar[p] = "exec"
      PROVE  Vista(p)' = Vista(p) /\ EstadoDe(p)' = EstadoDe(p)
  BY <1>1, <1>3 DEF Vista, EstadoDe, OperacionDe, EnCpu
<1> QED
  BY <1>1, <1>3, Mudo

LEMMA RefCierra ==
  ASSUME Inv, NEW interrumpido \in BOOLEAN, Cierra(interrumpido)
  PROVE  UNCHANGED Mapa
<1>1. TypeOK /\ TurnoCoherente
  BY DEF Inv
<1>2. /\ turno = "cierra" /\ ~falta
      /\ contexto' = [contexto EXCEPT !.pc = contexto.pc + 1]
      /\ operacion' = IF interrumpido /\ operacion = "PROXIMO_PCB" THEN "DESALOJO_PROCESO" ELSE operacion
      /\ turno' = IF devolver \/ (interrumpido /\ operacion = "PROXIMO_PCB") THEN "devuelve" ELSE "ejecuta"
      /\ UNCHANGED <<pcb, lugar, pantalla, servidos, mem>>
  BY DEF Cierra, Desaloja, kernelVars
<1>3. /\ contexto.pc + 1 \in Nat /\ contexto'.pc = contexto.pc + 1 /\ contexto'.regs = contexto.regs
      /\ turno' \in {"ejecuta", "devuelve"}
  BY <1>1, <1>2 DEF TypeOK
<1>4. ASSUME NEW p \in BienFormados, lugar[p] = "exec"
      PROVE  Vista(p)' = Vista(p) /\ EstadoDe(p)' = EstadoDe(p)
  <2>1. /\ Vista(p) = [pc |-> contexto.pc + 1, regs |-> contexto.regs]
        /\ OperacionDe(p) = operacion
    BY <1>2, <1>4 DEF Vista, EnCpu, OperacionDe
  <2>2. Vista(p)' = [pc |-> contexto.pc + 1, regs |-> contexto.regs]
    <3>1. Vista(p)' = [pc |-> contexto'.pc + 0, regs |-> contexto'.regs]
      BY <1>2, <1>3, <1>4 DEF Vista, EnCpu
    <3>2. contexto'.pc + 0 = contexto.pc + 1
      BY <1>3
    <3> QED
      BY <1>3, <3>1, <3>2
  <2>3. OperacionDe(p)' = operacion'
    BY <1>2, <1>3, <1>4 DEF OperacionDe, EnCpu
  <2>4. /\ operacion' \in Finales <=> operacion \in Finales
        /\ operacion' = "BLOQUEO_PROCESO" <=> operacion = "BLOQUEO_PROCESO"
    BY <1>2 DEF Finales
  <2>5. EstadoDe(p)' = EstadoDe(p)
    BY <1>2, <1>4, <2>1, <2>3, <2>4 DEF EstadoDe
  <2> QED
    BY <2>1, <2>2, <2>5
<1> QED
  BY <1>2, <1>4, Mudo

LEMMA RefDevuelve ==
  ASSUME Inv, Devuelve
  PROVE  UNCHANGED Mapa
<1>1. /\ turno = "devuelve" /\ turno' = "actualiza"
      /\ canal' = [id |-> contexto.id, pc |-> contexto.pc, regs |-> contexto.regs,
                   op |-> operacion, dispositivo |-> aux.oper1, unidades |-> unidades]
      /\ UNCHANGED <<pcb, lugar, pantalla, servidos, operacion, mem>>
  BY DEF Devuelve, kernelVars
<1>2. contexto.pc \in Nat
  BY DEF Inv, TypeOK
<1>3. ASSUME NEW p \in BienFormados, lugar[p] = "exec"
      PROVE  Vista(p)' = Vista(p) /\ EstadoDe(p)' = EstadoDe(p)
  <2>1. Vista(p) = [pc |-> contexto.pc, regs |-> contexto.regs]
    BY <1>1, <1>2, <1>3 DEF Vista, EnCpu
  <2>2. Vista(p)' = [pc |-> canal'.pc, regs |-> canal'.regs]
    BY <1>1, <1>3 DEF Vista, EnCpu
  <2>3. EstadoDe(p)' = EstadoDe(p)
    BY <1>1, <1>3 DEF EstadoDe, OperacionDe, EnCpu
  <2> QED
    BY <1>1, <2>1, <2>2, <2>3
<1> QED
  BY <1>1, <1>3, Mudo

LEMMA RefActualiza ==
  ASSUME Inv, Actualiza
  PROVE  UNCHANGED Mapa
<1> DEFINE id == contexto.id
<1>1. TypeOK
  BY DEF Inv
<1>2. /\ turno = "actualiza" /\ turno' = "kernel"
      /\ pcb' = [pcb EXCEPT ![canal.id] = [pc |-> canal.pc, regs |-> canal.regs]]
      /\ lugar' = [lugar EXCEPT ![canal.id] = LugarTras(canal.op)]
      /\ UNCHANGED <<pantalla, servidos, mem>>
  BY DEF Actualiza
<1>3. /\ id \in Procesos /\ lugar[id] = "exec" /\ operacion \in Retornos
      /\ canal.id = id /\ canal.op = operacion
  BY <1>2, Vuelto
<1>4. /\ lugar'[id] = LugarTras(operacion) /\ pcb'[id] = [pc |-> canal.pc, regs |-> canal.regs]
      /\ \A q \in Procesos \ {id} : lugar'[q] = lugar[q] /\ pcb'[q] = pcb[q]
  <2> HIDE DEF id
  <2> QED
    BY <1>1, <1>2, <1>3 DEF TypeOK
<1>5. ASSUME NEW p \in BienFormados, p = id
      PROVE  Vista(p)' = Vista(p) /\ EstadoDe(p)' = EstadoDe(p)
  <2>1. /\ Vista(p) = [pc |-> canal.pc, regs |-> canal.regs]
        /\ OperacionDe(p) = operacion
    BY <1>2, <1>3, <1>5 DEF Vista, EnCpu, OperacionDe
  <2>2. LugarTras(operacion) # "exec"
    BY <1>3, LugarTrasTipo DEF Retornos, Finales
  <2>3. Vista(p)' = pcb'[p]
    BY <1>4, <1>5, <2>2 DEF Vista, EnCpu
  <2>4. EstadoDe(p) = IF operacion \in Finales THEN "fin"
                      ELSE IF operacion = "BLOQUEO_PROCESO" THEN "espera" ELSE "corre"
    BY <1>3, <1>5, <2>1 DEF EstadoDe
  <2>5. EstadoDe(p)' = IF LugarTras(operacion) = "fin" THEN "fin"
                       ELSE IF LugarTras(operacion) = "dispositivo" THEN "espera" ELSE "corre"
    BY <1>4, <1>5, <2>2 DEF EstadoDe
  <2>6. EstadoDe(p)' = EstadoDe(p)
    BY <1>3, <2>4, <2>5, LugarTrasTipo DEF Retornos, Finales
  <2> QED
    BY <1>4, <1>5, <2>1, <2>3, <2>6
<1>6. ASSUME NEW p \in BienFormados, p # id
      PROVE  lugar[p] # "exec" /\ lugar'[p] = lugar[p] /\ pcb'[p] = pcb[p]
  BY <1>2, <1>4, <1>6 DEF Inv, ExecUnico, Quien, BienFormados
<1> QED
  BY <1>2, <1>5, <1>6, Mudo

LEMMA RefCargaPagina ==
  ASSUME Inv, NEW p \in Procesos, CargaPagina(p)
  PROVE  UNCHANGED Mapa
<1>1. TypeOK
  BY DEF Inv
<1>2. /\ lugar[p] = "pagina" /\ lugar' = [lugar EXCEPT ![p] = "listo"]
      /\ UNCHANGED <<pcb, pantalla, servidos, canal, turno, contexto, operacion, falta, mem>>
  BY DEF CargaPagina, cicloVars
<1>3. lugar'[p] = "listo" /\ \A q \in Procesos \ {p} : lugar'[q] = lugar[q]
  BY <1>1, <1>2 DEF TypeOK
<1>4. ASSUME NEW q \in BienFormados
      PROVE  Vista(q)' = Vista(q) /\ EstadoDe(q)' = EstadoDe(q)
  <2>1. q \in Procesos
    BY DEF BienFormados
  <2> QED
    BY <1>2, <1>3, <2>1 DEF Vista, EstadoDe, OperacionDe, EnCpu
<1> QED
  BY <1>2, <1>4, Mudo

(* What an instruction changes for its author, and for no other. *)
LEMMA EjecutaAjeno ==
  ASSUME Inv, [Next]_vars, NEW c, Decodifica(c), UNCHANGED <<pantalla, servidos>>,
         NEW p \in BienFormados, p # contexto.id
  PROVE  Igual(p)
<1>1. /\ turno = "ejecuta" /\ UNCHANGED <<pcb, lugar, pantalla, servidos>>
  BY Decodificado
<1>2. p \in Procesos /\ lugar[p] # "exec"
  BY <1>1 DEF Inv, ExecUnico, Quien, BienFormados
<1>3. mem'[p] = mem[p]
  BY <1>2, PasoPropio
<1>4. Vista(p)' = Vista(p) /\ EstadoDe(p)' = EstadoDe(p)
  BY <1>1, <1>2, VistaAjena
<1> QED
  BY <1>1, <1>3, <1>4 DEF Igual

LEMMA EjecutaVisto ==
  ASSUME Inv, [Next]_vars, NEW c, Decodifica(c), NEW p \in BienFormados, p = contexto.id,
         contexto'.pc = contexto.pc
  PROVE  /\ MPc[p] = contexto.pc /\ MRegs[p] = contexto.regs /\ MEstado[p] = "corre"
         /\ Interprete!Linea(p) = Programa[contexto.id][contexto.pc + 1]
         /\ Vista(p) = [pc |-> contexto.pc, regs |-> contexto.regs] /\ EstadoDe(p) = "corre"
         /\ Vista(p)'.pc = (IF falta' THEN contexto.pc ELSE contexto.pc + 1)
         /\ Vista(p)'.regs = contexto'.regs
         /\ EstadoDe(p)' = (IF operacion' \in Finales THEN "fin"
                            ELSE IF operacion' = "BLOQUEO_PROCESO" THEN "espera" ELSE "corre")
         /\ MPantalla' = MPantalla /\ MServidos' = MServidos
         /\ MPc' = [MPc EXCEPT ![p] = Vista(p)'.pc]
         /\ MRegs' = [MRegs EXCEPT ![p] = Vista(p)'.regs]
         /\ MEstado' = [MEstado EXCEPT ![p] = EstadoDe(p)']
         /\ MMem' = [MMem EXCEPT ![p] = [d \in DireccionesDe(p) |-> mem'[p][Casilla(d)]]]
<1>1. /\ turno = "ejecuta" /\ turno' = "cierra" /\ lugar[p] = "exec" /\ contexto.pc \in Nat
      /\ operacion = "PROXIMO_PCB" /\ UNCHANGED <<pcb, lugar, pantalla, servidos>>
  BY Decodificado DEF Contextos
<1>2. Vista(p) = [pc |-> contexto.pc, regs |-> contexto.regs]
  <2>1. contexto.pc + 0 = contexto.pc
    BY <1>1
  <2> QED
    BY <1>1, <2>1 DEF Vista, EnCpu
<1>3. EstadoDe(p) = "corre"
  BY <1>1 DEF EstadoDe, OperacionDe, EnCpu, Finales
<1>4. MPc[p] = contexto.pc /\ MRegs[p] = contexto.regs /\ MEstado[p] = "corre"
  BY <1>2, <1>3 DEF MPc, MRegs, MEstado
<1>5. Interprete!Linea(p) = Programa[contexto.id][contexto.pc + 1]
  BY <1>4 DEF Interprete!Linea, MPc
<1>6. Vista(p)' = [pc |-> contexto.pc + (IF ~falta' THEN 1 ELSE 0), regs |-> contexto'.regs]
  BY <1>1 DEF Vista, EnCpu
<1>7. EstadoDe(p)' = (IF operacion' \in Finales THEN "fin"
                      ELSE IF operacion' = "BLOQUEO_PROCESO" THEN "espera" ELSE "corre")
  <2>1. lugar'[p] = "exec" /\ OperacionDe(p)' = operacion'
    BY <1>1 DEF OperacionDe, EnCpu
  <2> QED
    BY <2>1 DEF EstadoDe
<1>8. \A q \in BienFormados \ {p} : Igual(q)
  BY <1>1, EjecutaAjeno
<1>9. MPantalla' = MPantalla /\ MServidos' = MServidos
  BY <1>1 DEF MPantalla, MServidos
<1>10. Vista(p)'.pc = IF falta' THEN contexto.pc ELSE contexto.pc + 1
  BY <1>1, <1>6
<1>11. Vista(p)'.regs = contexto'.regs
  BY <1>6
<1> HIDE DEF Mapa
<1> QED
  BY <1>2, <1>3, <1>4, <1>5, <1>7, <1>8, <1>9, <1>10, <1>11, MapaPaso

(* The memory that the author sees stays when that of the process stays.   *)
LEMMA MemoriaQuieta ==
  ASSUME UNCHANGED mem
  PROVE  MMem' = MMem
BY DEF MMem

(* The counter advances and the device is not concerned. *)
LEMMA RefAvanza ==
  ASSUME Inv, [Next]_vars, NEW c, Decodifica(c), NEW p \in BienFormados, p = contexto.id,
         contexto'.pc = contexto.pc, ~falta'
  PROVE  Interprete!Ejecuta(p, c)
<1> DEFINE linea == Programa[contexto.id][contexto.pc + 1]
<1>1. linea.op = c
  BY DecodificadoSano
<1> HIDE DEF linea
<1>2. /\ MPc[p] = contexto.pc /\ MEstado[p] = "corre" /\ Interprete!Linea(p) = linea
      /\ Vista(p)'.pc = contexto.pc + 1 /\ MPantalla' = MPantalla /\ MServidos' = MServidos
      /\ MPc' = [MPc EXCEPT ![p] = Vista(p)'.pc]
  BY EjecutaVisto DEF linea
<1>3. MPc' = [MPc EXCEPT ![p] = MPc[p] + 1]
  BY <1>2
<1> QED
  BY <1>1, <1>2, <1>3 DEF Interprete!Ejecuta, MPc, MEstado, MPantalla, MServidos

(* A register of the process takes a value. *)
LEMMA RefPone ==
  ASSUME Inv, [Next]_vars, NEW c, Decodifica(c), NEW p \in BienFormados, p = contexto.id,
         NEW r, NEW v \in Valores, r \in Indices, Pone(r, v), NEW w, r = Indice[w]
  PROVE  Interprete!Pone(p, w, v)
<1>1. TypeOK
  BY DEF Inv
<1>2. /\ contexto'.pc = contexto.pc /\ contexto'.regs = [contexto.regs EXCEPT ![r] = v]
  BY <1>1, Puesto
<1>3. /\ MRegs' = [MRegs EXCEPT ![p] = Vista(p)'.regs] /\ Vista(p)'.regs = contexto'.regs
      /\ MRegs[p] = contexto.regs
  BY <1>2, EjecutaVisto
<1>4. MRegs' = [MRegs EXCEPT ![p] = [MRegs[p] EXCEPT ![r] = v]]
  BY <1>2, <1>3
<1>5. MRegs' = [MRegs EXCEPT ![p][Interprete!Indice[w]] = v]
  BY <1>4, Iguales
<1> QED
  BY <1>5 DEF Interprete!Pone, MRegs

(* The program that executes is well formed: its instruction is the one of *)
(* Interprete, or none when it faulted on a page.                          *)
LEMMA RefSet ==
  ASSUME Inv, [Next]_vars, EjecutaSet, NEW p \in BienFormados, p = contexto.id
  PROVE  Interprete!Set(p)
<1> DEFINE linea == Programa[contexto.id][contexto.pc + 1]
           n == Numeral[linea.oper2] % Palabras
<1>1. /\ Decodifica("SET") /\ Pone(aux'.register1, Atoi(aux'.oper2) % Palabras)
      /\ UNCHANGED <<operacion, falta, mem>>
  BY DEF EjecutaSet
<1>2. /\ aux'.register1 = Indice[linea.oper1] /\ aux'.register1 \in Indices
      /\ aux'.oper2 = linea.oper2 /\ linea.oper2 \in DOMAIN Numeral
  BY <1>1, DecodificadoSano
<1>3. Pone(aux'.register1, n) /\ n \in Valores
  <2>1. Atoi(aux'.oper2) = Numeral[linea.oper2] /\ Atoi(aux'.oper2) \in Nat
    BY <1>2, Constantes DEF Atoi
  <2> QED
    BY <1>1, <2>1, Constantes
<1>4. contexto'.pc = contexto.pc /\ ~falta' /\ operacion' = "PROXIMO_PCB"
  BY <1>1, <1>3, Puesto, Decodificado DEF Inv
<1> HIDE DEF n, linea
<1>5. Interprete!Ejecuta(p, "SET") /\ Interprete!Pone(p, linea.oper1, n)
  BY <1>1, <1>2, <1>3, <1>4, RefAvanza, RefPone
<1>6. /\ Interprete!Linea(p) = linea /\ MEstado[p] = "corre" /\ EstadoDe(p)' = "corre"
      /\ MEstado' = [MEstado EXCEPT ![p] = EstadoDe(p)']
  BY <1>1, <1>4, EjecutaVisto DEF Finales, linea
<1>7. MEstado' = MEstado /\ MMem' = MMem
  BY <1>1, <1>6, MemoriaQuieta DEF MEstado
<1> QED
  BY <1>5, <1>6, <1>7 DEF Interprete!Set, MEstado, MMem, n

LEMMA RefAdd ==
  ASSUME Inv, [Next]_vars, EjecutaAdd, NEW p \in BienFormados, p = contexto.id
  PROVE  Interprete!Add(p)
<1> DEFINE linea == Programa[contexto.id][contexto.pc + 1]
           n == (contexto.regs[Indice[linea.oper1]] + contexto.regs[Indice[linea.oper2]]) % Palabras
<1>1. /\ Decodifica("ADD") /\ UNCHANGED <<operacion, falta, mem>>
      /\ Pone(aux'.register1, (ValorDe(aux'.register1) + ValorDe(aux'.register2)) % Palabras)
  BY DEF EjecutaAdd
<1>2. /\ aux'.register1 = Indice[linea.oper1] /\ aux'.register1 \in Indices
      /\ aux'.register2 = Indice[linea.oper2] /\ aux'.register2 \in Indices
  BY <1>1, DecodificadoSano
<1>3. Pone(aux'.register1, n) /\ n \in Valores
  <2>1. /\ ValorDe(aux'.register1) = contexto.regs[aux'.register1]
        /\ ValorDe(aux'.register2) = contexto.regs[aux'.register2]
        /\ ValorDe(aux'.register1) \in Valores /\ ValorDe(aux'.register2) \in Valores
    BY <1>2, ValorTipo DEF Inv
  <2>2. ValorDe(aux'.register1) + ValorDe(aux'.register2) \in Nat
    BY <2>1 DEF Valores
  <2>3. n = (ValorDe(aux'.register1) + ValorDe(aux'.register2)) % Palabras
    BY <1>2, <2>1
  <2> HIDE DEF n, linea
  <2> QED
    BY <1>1, <2>2, <2>3, Constantes
<1> HIDE DEF n, linea
<1>4. contexto'.pc = contexto.pc /\ ~falta' /\ operacion' = "PROXIMO_PCB"
  BY <1>1, <1>3, Puesto, Decodificado DEF Inv
<1>5. Interprete!Ejecuta(p, "ADD") /\ Interprete!Pone(p, linea.oper1, n)
  BY <1>1, <1>2, <1>3, <1>4, RefAvanza, RefPone
<1>6. /\ Interprete!Linea(p) = linea /\ MEstado[p] = "corre" /\ EstadoDe(p)' = "corre"
      /\ MEstado' = [MEstado EXCEPT ![p] = EstadoDe(p)'] /\ MRegs[p] = contexto.regs
  BY <1>1, <1>4, EjecutaVisto DEF Finales, linea
<1>7. MEstado' = MEstado /\ MMem' = MMem
  BY <1>1, <1>6, MemoriaQuieta DEF MEstado
<1>8. n = (MRegs[p][Interprete!Indice[linea.oper1]] + MRegs[p][Interprete!Indice[linea.oper2]]) % Palabras
  BY <1>6, Iguales DEF n
<1> QED
  BY <1>5, <1>6, <1>7, <1>8 DEF Interprete!Add, MEstado, MMem, MRegs

LEMMA RefMovIn ==
  ASSUME Inv, [Next]_vars, EjecutaMovIn, NEW p \in BienFormados, p = contexto.id
  PROVE  Interprete!MovIn(p)
<1> DEFINE linea == Programa[contexto.id][contexto.pc + 1]
           d == Numeral[linea.oper2]
           n == mem[p][Casilla(d)]
<1>1. /\ Decodifica("MOV_IN") /\ EnSegmento
      /\ Pone(aux'.register1, mem[contexto.id][Casilla(DireccionMov)])
      /\ UNCHANGED <<operacion, falta, mem>>
  BY DEF EjecutaMovIn
<1>2. /\ aux'.register1 = Indice[linea.oper1] /\ aux'.register1 \in Indices
      /\ aux'.oper2 = linea.oper2 /\ linea.oper2 \in DOMAIN Numeral /\ aux'.codigo = "MOV_IN"
  BY <1>1, DecodificadoSano, Decodificado
<1>3. DireccionMov = d
  BY <1>2 DEF DireccionMov, Atoi
<1>4. d \in DireccionesDe(p) /\ Casilla(d) \in Casillas(p)
  BY <1>1, <1>2, <1>3, Direccionada DEF EnSegmento
<1>5. Pone(aux'.register1, n) /\ n \in Valores
  <2>1. mem[p] \in [Casillas(p) -> Valores]
    BY MemoriasTipo DEF Inv, TypeOK, BienFormados
  <2> QED
    BY <1>1, <1>3, <1>4, <2>1
<1>6. MMem[p][d] = n
  BY <1>4 DEF MMem
<1> HIDE DEF n, d, linea
<1>7. contexto'.pc = contexto.pc /\ ~falta' /\ operacion' = "PROXIMO_PCB"
  BY <1>1, <1>5, Puesto, Decodificado DEF Inv
<1>8. Interprete!Ejecuta(p, "MOV_IN") /\ Interprete!Pone(p, linea.oper1, n)
  BY <1>1, <1>2, <1>5, <1>7, RefAvanza, RefPone
<1>9. /\ Interprete!Linea(p) = linea /\ MEstado[p] = "corre" /\ EstadoDe(p)' = "corre"
      /\ MEstado' = [MEstado EXCEPT ![p] = EstadoDe(p)']
  BY <1>1, <1>7, EjecutaVisto DEF Finales, linea
<1>10. MEstado' = MEstado /\ MMem' = MMem
  BY <1>1, <1>9, MemoriaQuieta DEF MEstado
<1>11. [q \in BienFormados |-> DireccionesDe(q)][p] = DireccionesDe(p)
  OBVIOUS
<1>12. d = Numeral[linea.oper2]
  BY DEF d
<1> QED
  BY <1>4, <1>6, <1>8, <1>9, <1>10, <1>11, <1>12 DEF Interprete!MovIn, MEstado, MMem

LEMMA RefMovOut ==
  ASSUME Inv, [Next]_vars, EjecutaMovOut, NEW p \in BienFormados, p = contexto.id
  PROVE  Interprete!MovOut(p)
<1> DEFINE linea == Programa[contexto.id][contexto.pc + 1]
           d == Numeral[linea.oper1]
           n == contexto.regs[Indice[linea.oper2]]
           nueva == [mem[p] EXCEPT ![Casilla(d)] = n]
<1>1. /\ Decodifica("MOV_OUT") /\ EnSegmento
      /\ mem' = [mem EXCEPT ![contexto.id][Casilla(DireccionMov)] = ValorDe(aux'.register2)]
      /\ UNCHANGED <<contexto, operacion, falta>>
  BY DEF EjecutaMovOut
<1>2. /\ aux'.register2 = Indice[linea.oper2] /\ aux'.register2 \in Indices
      /\ aux'.oper1 = linea.oper1 /\ linea.oper1 \in DOMAIN Numeral /\ aux'.codigo = "MOV_OUT"
  BY <1>1, DecodificadoSano, Decodificado
<1>3. DireccionMov = d /\ ValorDe(aux'.register2) = n
  BY <1>2, ValorTipo DEF DireccionMov, Atoi, Inv
<1>4. d \in DireccionesDe(p) /\ Casilla(d) \in Casillas(p)
  BY <1>1, <1>2, <1>3, Direccionada DEF EnSegmento
<1>5. /\ mem = [q \in Procesos |-> mem[q]] /\ mem[p] \in [Casillas(p) -> Valores]
      /\ p \in Procesos
  BY MemoriasTipo DEF Inv, TypeOK, BienFormados
<1>6. mem'[p] = nueva
  <2>1. mem' = [mem EXCEPT ![p] = nueva]
    BY <1>1, <1>3
  <2> HIDE DEF nueva
  <2> QED
    BY <1>5, <2>1
<1>7. \A e \in DireccionesDe(p) : mem'[p][Casilla(e)] = IF e = d THEN n ELSE mem[p][Casilla(e)]
  <2> HIDE DEF d, n
  <2>1. \A e \in DireccionesDe(p) : Casilla(e) \in Casillas(p) /\ (Casilla(e) = Casilla(d) => e = d)
    BY <1>4, Direccionada
  <2> QED
    BY <1>4, <1>5, <1>6, <2>1
<1> HIDE DEF n, d, linea, nueva
<1>8. /\ Interprete!Ejecuta(p, "MOV_OUT") /\ operacion' = "PROXIMO_PCB"
  BY <1>1, Decodificado, RefAvanza
<1>9. /\ Interprete!Linea(p) = linea /\ MEstado[p] = "corre" /\ EstadoDe(p)' = "corre"
      /\ MEstado' = [MEstado EXCEPT ![p] = EstadoDe(p)'] /\ MRegs[p] = contexto.regs
      /\ MRegs' = [MRegs EXCEPT ![p] = Vista(p)'.regs] /\ Vista(p)'.regs = contexto.regs
      /\ MMem' = [MMem EXCEPT ![p] = [e \in DireccionesDe(p) |-> mem'[p][Casilla(e)]]]
  BY <1>1, <1>8, EjecutaVisto DEF Finales, linea
<1>10. MEstado' = MEstado /\ MRegs' = MRegs
  BY <1>9 DEF MEstado, MRegs
<1>11. MMem' = [MMem EXCEPT ![p][d] = n]
  <2>1. MMem[p] = [e \in DireccionesDe(p) |-> mem[p][Casilla(e)]]
    BY DEF MMem
  <2>2. [e \in DireccionesDe(p) |-> mem'[p][Casilla(e)]] = [MMem[p] EXCEPT ![d] = n]
    BY <1>7, <2>1
  <2> QED
    BY <1>9, <2>2
<1>12. /\ d = Numeral[linea.oper1] /\ n = MRegs[p][Interprete!Indice[linea.oper2]]
       /\ [q \in BienFormados |-> DireccionesDe(q)][p] = DireccionesDe(p)
  BY <1>9, Iguales DEF d, n
<1> QED
  BY <1>4, <1>8, <1>9, <1>10, <1>11, <1>12 DEF Interprete!MovOut, MEstado, MMem, MRegs

LEMMA RefSale ==
  ASSUME Inv, [Next]_vars, EjecutaIO \/ EjecutaExit, NEW p \in BienFormados, p = contexto.id
  PROVE  Interprete!IO(p) \/ Interprete!Exit(p)
<1>1. PICK c \in {"I/O", "EXIT"} :
        /\ Decodifica(c) /\ UNCHANGED <<contexto, falta, mem>>
        /\ operacion' = IF c = "I/O" THEN "BLOQUEO_PROCESO" ELSE "EXIT_PROCESO"
  BY DEF EjecutaIO, EjecutaExit
<1>2. Interprete!Ejecuta(p, c) /\ MMem' = MMem
  BY <1>1, Decodificado, RefAvanza, MemoriaQuieta
<1>3. /\ EstadoDe(p)' = (IF c = "I/O" THEN "espera" ELSE "fin")
      /\ MEstado' = [MEstado EXCEPT ![p] = EstadoDe(p)'] /\ MRegs[p] = contexto.regs
      /\ MRegs' = [MRegs EXCEPT ![p] = Vista(p)'.regs] /\ Vista(p)'.regs = contexto.regs
  BY <1>1, EjecutaVisto DEF Finales
<1>4. MRegs' = MRegs
  BY <1>3 DEF MRegs
<1> QED
  BY <1>1, <1>2, <1>3, <1>4 DEF Interprete!IO, Interprete!Exit, MEstado, MRegs, MMem

LEMMA RefFalla ==
  ASSUME Inv, [Next]_vars, NEW c \in {"MOV_IN", "MOV_OUT"}, NEW op \in {"PAGE_FAULT", "SEG_FAULT"},
         EjecutaFalla(c, op), NEW p \in BienFormados, p = contexto.id
  PROVE  Interprete!FallaDeSegmento(p) \/ UNCHANGED Mapa
<1> DEFINE linea == Programa[contexto.id][contexto.pc + 1]
           d == Numeral[IF c = "MOV_IN" THEN linea.oper2 ELSE linea.oper1]
<1>1. /\ Decodifica(c) /\ (EnSegmento <=> (op = "PAGE_FAULT")) /\ operacion' = op /\ falta' = TRUE
      /\ UNCHANGED <<contexto, mem>>
  BY DEF EjecutaFalla
<1>2. /\ linea.op = c /\ aux'.codigo = c
      /\ c = "MOV_IN" => aux'.oper2 = linea.oper2 /\ linea.oper2 \in DOMAIN Numeral
      /\ c = "MOV_OUT" => aux'.oper1 = linea.oper1 /\ linea.oper1 \in DOMAIN Numeral
  BY <1>1, DecodificadoSano, Decodificado
<1>3. DireccionMov = d
  BY <1>2 DEF DireccionMov, Atoi
<1>4. d \in DireccionesDe(p) <=> op = "PAGE_FAULT"
  BY <1>1, <1>2, <1>3, Direccionada DEF EnSegmento
<1> HIDE DEF linea
<1>5. /\ MEstado[p] = "corre" /\ Interprete!Linea(p) = linea
      /\ EstadoDe(p)' = (IF op = "SEG_FAULT" THEN "fin" ELSE "corre")
      /\ MEstado' = [MEstado EXCEPT ![p] = EstadoDe(p)']
      /\ MRegs[p] = contexto.regs /\ MPc[p] = contexto.pc
      /\ MRegs' = [MRegs EXCEPT ![p] = Vista(p)'.regs] /\ Vista(p)'.regs = contexto.regs
      /\ MPc' = [MPc EXCEPT ![p] = Vista(p)'.pc] /\ Vista(p)'.pc = contexto.pc
      /\ MPantalla' = MPantalla /\ MServidos' = MServidos
  BY <1>1, EjecutaVisto DEF Finales, linea
<1>6. MRegs' = MRegs /\ MPc' = MPc /\ MMem' = MMem
  BY <1>1, <1>5, MemoriaQuieta DEF MRegs, MPc
<1>7. CASE op = "PAGE_FAULT"
  <2>1. MEstado' = MEstado
    BY <1>5, <1>7 DEF MEstado
  <2> QED
    BY <1>5, <1>6, <2>1 DEF Mapa
<1>8. CASE op = "SEG_FAULT"
  <2>1. /\ MEstado' = [MEstado EXCEPT ![p] = "fin"] /\ d \notin DireccionesDe(p)
        /\ [q \in BienFormados |-> DireccionesDe(q)][p] = DireccionesDe(p)
    BY <1>4, <1>5, <1>8
  <2>2. \/ linea.op = "MOV_IN" /\ Numeral[linea.oper2] \notin DireccionesDe(p)
        \/ linea.op = "MOV_OUT" /\ Numeral[linea.oper1] \notin DireccionesDe(p)
    BY <1>2, <2>1
  <2> HIDE DEF d
  <2> QED
    BY <1>5, <1>6, <2>1, <2>2 DEF Interprete!FallaDeSegmento, MEstado, MRegs, MPc, MMem,
       MPantalla, MServidos
<1> QED
  BY <1>7, <1>8

LEMMA RefEjecuta ==
  ASSUME Inv, [Next]_vars, Ejecuta
  PROVE  Interprete!Next \/ UNCHANGED Mapa
<1>1. PICK c : Decodifica(c)
  BY DEF Ejecuta, Accede, EjecutaSet, EjecutaAdd, EjecutaMovIn, EjecutaMovOut, EjecutaIO,
     EjecutaExit, EjecutaNada, EjecutaFalla
<1>2. UNCHANGED <<pantalla, servidos>>
  BY <1>1, Decodificado
<1>3. CASE contexto.id \notin BienFormados
  <2>1. \A p \in BienFormados : Igual(p)
    BY <1>1, <1>2, <1>3, EjecutaAjeno
  <2> QED
    BY <2>1, MapaQuieto
<1>4. CASE contexto.id \in BienFormados
  <2>1. ~EjecutaNada
    <3> SUFFICES ASSUME EjecutaNada PROVE FALSE
      OBVIOUS
    <3> DEFINE linea == Programa[contexto.id][contexto.pc + 1]
    <3>1. Decodifica(Nulo)
      BY DEF EjecutaNada
    <3>2. BienFormada(linea) /\ linea.op = Nulo
      BY <1>4, <3>1, DecodificadoSano
    <3> HIDE DEF linea
    <3> QED
      BY <3>2, SupuestosCiclo DEF BienFormada, SupuestosCiclo, Codigos
  <2>2. ASSUME EjecutaSet \/ EjecutaAdd \/ Accede \/ EjecutaIO \/ EjecutaExit
        PROVE  \E p \in BienFormados :
                 \/ Interprete!Set(p) \/ Interprete!Add(p) \/ Interprete!MovIn(p)
                 \/ Interprete!MovOut(p) \/ Interprete!IO(p) \/ Interprete!Exit(p)
    BY <1>4, <2>2, RefSet, RefAdd, RefMovIn, RefMovOut, RefSale DEF Accede
  <2>3. ASSUME NEW c1 \in {"MOV_IN", "MOV_OUT"}, NEW op \in {"PAGE_FAULT", "SEG_FAULT"},
               EjecutaFalla(c1, op)
        PROVE  (\E p \in BienFormados : Interprete!FallaDeSegmento(p)) \/ UNCHANGED Mapa
    BY <1>4, <2>3, RefFalla
  <2> QED
    BY <2>1, <2>2, <2>3 DEF Ejecuta, Interprete!Next
<1> QED
  BY <1>3, <1>4

(* The device of a process answers. *)
LEMMA RefSirve ==
  ASSUME Inv, NEW p \in Procesos, Usa(p)
  PROVE  Interprete!Next \/ UNCHANGED Mapa
<1>0. TypeOK /\ pcb \in [Procesos -> [pc : Nat, regs : [Indices -> Valores]]]
  BY DEF Inv, TypeOK
<1>1. /\ TerminaDispositivo(p)
      /\ \/ /\ pedido[p].dispositivo = "TECLADO" /\ pantalla' = pantalla
            /\ \E v \in Valores : pcb' = IF pedido[p].unidades \in Indices
                                         THEN [pcb EXCEPT ![p].regs[pedido[p].unidades] = v] ELSE pcb
         \/ /\ pedido[p].dispositivo = "PANTALLA" /\ pcb' = pcb
            /\ pantalla' = IF pedido[p].unidades \in Indices
                           THEN [pantalla EXCEPT ![p] = pcb[p].regs[pedido[p].unidades]] ELSE pantalla
         \/ /\ pedido[p].dispositivo \notin {"TECLADO", "PANTALLA"} /\ pcb' = pcb
            /\ pantalla' = pantalla
  BY DEF Usa, UsaTeclado, UsaPantalla, UsaDispositivo
<1>2. /\ lugar[p] = "dispositivo" /\ lugar' = [lugar EXCEPT ![p] = "listo"]
      /\ servidos' = [servidos EXCEPT ![p] = servidos[p] + 1]
      /\ UNCHANGED <<canal, turno, contexto, operacion, falta, mem>>
  BY <1>0, <1>1, Terminado
<1>3. lugar'[p] = "listo" /\ \A q \in Procesos \ {p} : lugar'[q] = lugar[q] /\ servidos'[q] = servidos[q]
  BY <1>0, <1>2 DEF TypeOK
<1>4. \A q \in Procesos \ {p} : pcb'[q] = pcb[q]
  <2>1. CASE pcb' = pcb
    BY <2>1
  <2>2. ASSUME NEW v, pcb' = [pcb EXCEPT ![p].regs[pedido[p].unidades] = v]
        PROVE  \A q \in Procesos \ {p} : pcb'[q] = pcb[q]
    <3> DEFINE nuevo == [pcb[p] EXCEPT !.regs[pedido[p].unidades] = v]
    <3>1. pcb' = [pcb EXCEPT ![p] = nuevo]
      BY <2>2
    <3> HIDE DEF nuevo
    <3> QED
      BY <1>0, <3>1
  <2> QED
    BY <1>1, <2>1, <2>2
<1>5. \A q \in Procesos \ {p} : pantalla'[q] = pantalla[q]
  BY <1>0, <1>1 DEF TypeOK
<1>6. ASSUME NEW q \in BienFormados, q # p PROVE Igual(q)
  <2>1. q \in Procesos
    BY DEF BienFormados
  <2>2. lugar'[q] = lugar[q] /\ servidos'[q] = servidos[q] /\ pcb'[q] = pcb[q] /\ pantalla'[q] = pantalla[q]
    BY <1>3, <1>4, <1>5, <1>6, <2>1
  <2>3. Vista(q)' = Vista(q) /\ EstadoDe(q)' = EstadoDe(q)
    BY <1>2, <2>2 DEF Vista, EstadoDe, OperacionDe, EnCpu
  <2> QED
    BY <1>2, <2>2, <2>3 DEF Igual
<1>7. CASE p \notin BienFormados
  BY <1>6, <1>7, MapaQuieto
<1>8. CASE p \in BienFormados
  <2>1. /\ Vista(p) = pcb[p] /\ EstadoDe(p) = "espera" /\ Vista(p)' = pcb'[p] /\ EstadoDe(p)' = "corre"
    BY <1>2, <1>3 DEF Vista, EstadoDe, EnCpu
  <2>2. /\ MPc[p] = pcb[p].pc /\ MRegs[p] = pcb[p].regs /\ MEstado[p] = "espera"
        /\ MServidos[p] = servidos[p] /\ MPantalla[p] = pantalla[p]
    BY <1>8, <2>1 DEF MPc, MRegs, MEstado, MServidos, MPantalla
  <2>3. /\ MPc' = [MPc EXCEPT ![p] = pcb'[p].pc] /\ MRegs' = [MRegs EXCEPT ![p] = pcb'[p].regs]
        /\ MEstado' = [MEstado EXCEPT ![p] = "corre"]
        /\ MPantalla' = [MPantalla EXCEPT ![p] = pantalla'[p]]
        /\ MServidos' = [MServidos EXCEPT ![p] = servidos'[p]]
    BY <1>6, <1>8, <2>1, MapaPaso
  <2> DEFINE linea == Programa[p][pcb[p].pc]
             u == pedido[p].unidades
  <2>4. /\ pedido[p].dispositivo = linea.oper1
        /\ linea.oper1 \in {"TECLADO", "PANTALLA"} => u \in Indices /\ u = Indice[linea.oper2]
    BY <1>2, <1>8, PedidoSano DEF Pedida
  <2>5. Interprete!Anterior(p) = linea
    BY <2>2 DEF Interprete!Anterior, MPc
  <2> HIDE DEF linea
  <2>6. MMem' = MMem
    BY <1>2, MemoriaQuieta
  <2>7. servidos'[p] = MServidos[p] + 1
    BY <1>0, <1>2, <2>2 DEF TypeOK
  <2>8. /\ pcb'[p].pc = pcb[p].pc
        /\ linea.oper1 # "TECLADO" => pcb'[p] = pcb[p]
        /\ linea.oper1 = "TECLADO" =>
             \E v \in Valores : pcb'[p].regs = [pcb[p].regs EXCEPT ![u] = v]
    <3>1. CASE linea.oper1 = "TECLADO"
      <4>1. PICK v \in Valores : pcb' = [pcb EXCEPT ![p].regs[u] = v]
        BY <1>1, <2>4, <3>1
      <4> DEFINE nuevo == [pcb[p] EXCEPT !.regs = [pcb[p].regs EXCEPT ![u] = v]]
      <4>2. pcb' = [pcb EXCEPT ![p] = nuevo]
        BY <4>1
      <4>3. nuevo.pc = pcb[p].pc /\ nuevo.regs = [pcb[p].regs EXCEPT ![u] = v]
        BY <1>0
      <4> HIDE DEF nuevo
      <4>4. pcb'[p] = nuevo
        BY <1>0, <4>2
      <4> QED
        BY <3>1, <4>3, <4>4
    <3>2. CASE linea.oper1 # "TECLADO"
      BY <1>1, <2>4, <3>2
    <3> QED
      BY <3>1, <3>2
  <2>9. linea.oper1 = "PANTALLA" => pantalla'[p] = pcb[p].regs[u]
    BY <1>0, <1>1, <2>4 DEF TypeOK
  <2>10. linea.oper1 # "PANTALLA" => pantalla'[p] = pantalla[p]
    BY <1>1, <2>4
  <2> HIDE DEF u
  <2>11. MPc' = MPc /\ MServidos' = [MServidos EXCEPT ![p] = MServidos[p] + 1]
    BY <2>2, <2>3, <2>7, <2>8 DEF MPc
  <2>12. \/ /\ linea.oper1 = "TECLADO"
            /\ \E v \in Valores : MRegs' = [MRegs EXCEPT ![p][Indice[linea.oper2]] = v]
            /\ MPantalla' = MPantalla
         \/ /\ linea.oper1 = "PANTALLA"
            /\ MPantalla' = [MPantalla EXCEPT ![p] = MRegs[p][Indice[linea.oper2]]]
            /\ MRegs' = MRegs
         \/ linea.oper1 \notin {"TECLADO", "PANTALLA"} /\ MRegs' = MRegs /\ MPantalla' = MPantalla
    <3>1. linea.oper1 # "PANTALLA" => MPantalla' = MPantalla
      BY <2>2, <2>3, <2>10 DEF MPantalla
    <3>2. linea.oper1 # "TECLADO" => MRegs' = MRegs
      BY <2>2, <2>3, <2>8 DEF MRegs
    <3>3. linea.oper1 = "TECLADO" =>
            \E v \in Valores : MRegs' = [MRegs EXCEPT ![p][Indice[linea.oper2]] = v]
      BY <2>2, <2>3, <2>4, <2>8
    <3>4. linea.oper1 = "PANTALLA" => MPantalla' = [MPantalla EXCEPT ![p] = MRegs[p][Indice[linea.oper2]]]
      BY <2>2, <2>3, <2>4, <2>9
    <3> QED
      BY <3>1, <3>2, <3>3, <3>4
  <2>13. Interprete!Sirve(p)
    BY <2>2, <2>3, <2>5, <2>6, <2>11, <2>12, Iguales, ZenonT(40)
       DEF Interprete!Sirve, Interprete!Pone, MPc, MRegs, MMem, MEstado, MPantalla, MServidos
  <2> QED
    BY <1>8, <2>13 DEF Interprete!Next
<1> QED
  BY <1>7, <1>8

LEMMA RefPaso ==
  ASSUME Inv, [Next]_vars
  PROVE  Interprete!Next \/ UNCHANGED Mapa
<1>1. CASE UNCHANGED vars \/ FetchAfuera
  <2>1. UNCHANGED <<pcb, lugar, canal, turno, contexto, operacion, falta, mem, pantalla, servidos>>
    BY <1>1 DEF vars, kernelVars, cicloVars, FetchAfuera
  <2>2. \A p \in BienFormados : Vista(p)' = Vista(p) /\ EstadoDe(p)' = EstadoDe(p)
    BY <2>1 DEF Vista, EstadoDe, OperacionDe, EnCpu
  <2> QED
    BY <2>1, <2>2, Mudo
<1>2. CASE Cpu
  BY <1>1, <1>2, RefRecibe, RefEjecuta, RefCierraFalta, RefCierra, RefDevuelve DEF Cpu
<1>3. CASE Kernel
  BY <1>3, RefActualiza, RefDespacha DEF Kernel
<1>4. CASE \E p \in Procesos : CargaPagina(p) \/ Usa(p)
  BY <1>4, RefCargaPagina, RefSirve
<1> QED
  BY <1>1, <1>2, <1>3, <1>4 DEF Next

(* Each well-formed program runs as its author expects: its instructions   *)
(* one after another, each once, on registers and memory of its own,       *)
(* whatever other programs, well formed or not, run beside it, and         *)
(* whatever decode leaves of them in auxCiclo.                             *)
THEOREM ImplementaInterpreteCorrecto == Spec => ImplementaInterprete
<1>1. Init => Interprete!Init
  BY InterpreteInicial
<1>2. Inv /\ [Next]_vars
        => [Interprete!Next]_<<[p \in BienFormados |-> Vista(p).pc],
                               [p \in BienFormados |-> Vista(p).regs],
                               [p \in BienFormados |-> [d \in DireccionesDe(p) |-> mem[p][Casilla(d)]]],
                               [p \in BienFormados |-> EstadoDe(p)],
                               [p \in BienFormados |-> pantalla[p]],
                               [p \in BienFormados |-> servidos[p]]>>
  BY RefPaso DEF Mapa, MPc, MRegs, MMem, MEstado, MPantalla, MServidos
<1> QED
  BY <1>1, <1>2, InvSiempre, PTL DEF Spec, ImplementaInterprete, Interprete!Spec, Interprete!vars
=============================================================================
