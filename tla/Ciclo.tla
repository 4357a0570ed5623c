------------------------------- MODULE Ciclo -------------------------------
(***************************************************************************)
(* The instruction cycle of the CPU (ciclo.c) and the way of a context     *)
(* between the PCB and the CPU: give_cpu_next_pcb and                      *)
(* obtener_y_actualizar_pcb_recibido of the Kernel, dispatch_routine of    *)
(* the CPU, and what the threads of blocked processes do to registers      *)
(* (blocked_routine.c).                                                    *)
(*                                                                         *)
(* decode keeps what it does not find: the words that a line lacks, the    *)
(* register of a name it does not know and the code of an operation it     *)
(* does not know are those of the line decoded before, of any process.     *)
(* The codes and registers of the first line, and the registers of a new   *)
(* PCB, come from malloc.                                                  *)
(*                                                                         *)
(* Quantum.tla shows that the context is in one place and the threads that *)
(* hold it take turns: here they are one thread of control, turno.  The    *)
(* interruption is a choice at each check, and so is the page fault of an  *)
(* address inside the segments; the memory is the one of MemoriaLogica, by *)
(* pages.  Words are aligned: none shares a part of another.               *)
(***************************************************************************)
EXTENDS Traduccion

CONSTANTS Procesos,      \* the processes
          Programa,      \* the lines of each one: [op, oper1, oper2], Nulo when missing
          CantRegistros, \* the registers of the instance: 4, or the first of them
          Palabras,      \* the values of a word: 2^32, or fewer
          Numeral,       \* what atoi gives for each numeral; 0 for other words
          Segmentos,     \* the sizes of the segments of each process, in bytes
          Dispositivos,  \* DISPOSITIVOS_IO
          CodigosBasura, \* what malloc may leave as the code of the line decoded before
          IndicesBasura, \* the same, as its registers
          Nulo           \* no word

Indice == [AX |-> 0, BX |-> 1, CX |-> 2, DX |-> 3]
Codigos == {"SET", "ADD", "MOV_IN", "MOV_OUT", "I/O", "EXIT"}
Indices == 0..(CantRegistros - 1)
Valores == 0..(Palabras - 1)

ASSUME SupuestosCiclo ==
    /\ CantRegistros \in Nat /\ Palabras \in Nat \ {0}
    /\ \A p \in Procesos : /\ Len(Programa[p]) \in Nat
                           /\ DOMAIN Programa[p] = 1..Len(Programa[p])
    /\ \A n \in DOMAIN Numeral : Numeral[n] \in Nat
    /\ CodigosBasura \subseteq Codigos \cup {Nulo}
    /\ IndicesBasura \subseteq Nat
    /\ Nulo \notin Procesos \cup Codigos \cup {"TECLADO", "PANTALLA"} \cup Dispositivos
                   \cup DOMAIN Indice \cup DOMAIN Numeral

VARIABLES
    pcb,       \* program_counter and registros of each PCB in the Kernel
    lugar,     \* READY, EXEC, with the thread of a device or of a page, or ended
    pedido,    \* the param of the thread of a device: dispositivo, unidades
    canal,     \* the message in the dispatch socket
    turno,     \* the thread that has the context, and its step
    contexto,  \* mi_contexto: id, program_counter, registros
    operacion, \* mi_contexto->pipeline.operacion
    unidades,  \* mi_contexto->unidades
    aux,       \* auxCiclo; mi_contexto->dispositivo points to its oper1
    devolver,  \* devolverContexto
    falta,     \* flag_segFault or flag_pageFault
    mem,       \* the memory of each process
    pantalla,  \* what the last PANTALLA of each process showed
    servidos,  \* history: the uses of devices that were completed
    caido      \* an access outside an array, or a device the Kernel does not have

kernelVars == <<pcb, lugar, pedido, pantalla, servidos>>
cicloVars  == <<unidades, aux, devolver, falta>>
vars == <<kernelVars, canal, turno, contexto, operacion, cicloVars, mem, caido>>

Finales == {"EXIT_PROCESO", "SEG_FAULT"}
Retornos == Finales \cup {"DESALOJO_PROCESO", "BLOQUEO_PROCESO", "PAGE_FAULT"}

Atoi(palabra) == IF palabra \in DOMAIN Numeral THEN Numeral[palabra] ELSE 0

(* The words in the pages of p that an operand may name. *)
Casillas(p) == {Casilla(d) : d \in {x \in {Numeral[n] : n \in DOMAIN Numeral} \cup {0} :
                                      ~SegFault(x, Segmentos[p])}}

Memorias == {m \in [Procesos -> UNION {[Casillas(p) -> Valores] : p \in Procesos}] :
               \A p \in Procesos : DOMAIN m[p] = Casillas(p)}

TypeOK ==
    /\ pcb \in [Procesos -> [pc : Nat, regs : [Indices -> Valores]]]
    /\ lugar \in [Procesos -> {"listo", "exec", "dispositivo", "pagina", "fin"}]
    /\ DOMAIN pedido = Procesos
    /\ turno \in {"kernel", "recibe", "ejecuta", "cierra", "devuelve", "actualiza"}
    /\ contexto \in [id : Procesos \cup {Nulo}, pc : Nat, regs : [Indices -> Valores]]
    /\ operacion \in Retornos \cup {"PROXIMO_PCB"}
    /\ aux.codigo \in Codigos \cup {Nulo}
    /\ {unidades, aux.register1, aux.register2} \subseteq Nat
    /\ {devolver, falta, caido} \subseteq BOOLEAN
    /\ mem \in Memorias
    /\ pantalla \in [Procesos -> Valores \cup {Nulo}]
    /\ servidos \in [Procesos -> Nat]

Vacio == [id |-> Nulo, pc |-> 0, regs |-> [r \in Indices |-> 0]]

Init ==
    /\ pcb \in [Procesos -> [pc : {0}, regs : [Indices -> Valores]]]
    /\ lugar = [p \in Procesos |-> "listo"]
    /\ pedido = [p \in Procesos |-> [dispositivo |-> Nulo, unidades |-> 0]]
    /\ pantalla = [p \in Procesos |-> Nulo]
    /\ servidos = [p \in Procesos |-> 0]
    /\ canal = Vacio
    /\ turno = "kernel"
    /\ contexto = Vacio
    /\ operacion = "PROXIMO_PCB"
    /\ unidades \in IndicesBasura
    /\ aux \in [op : {Nulo}, oper1 : {Nulo}, oper2 : {Nulo}, codigo : CodigosBasura,
               register1 : IndicesBasura, register2 : IndicesBasura]
    /\ devolver = FALSE
    /\ falta = FALSE
    /\ mem \in Memorias
    /\ caido = FALSE

-----------------------------------------------------------------------------
(* From the Kernel to the CPU. *)

(* give_cpu_next_pcb: the context is a copy of the PCB. *)
Despacha(p) ==
    /\ turno = "kernel"
    /\ lugar[p] = "listo"
    /\ lugar' = [lugar EXCEPT ![p] = "exec"]
    /\ canal' = [id |-> p, pc |-> pcb[p].pc, regs |-> pcb[p].regs]
    /\ turno' = "recibe"
    /\ UNCHANGED <<pcb, pedido, pantalla, servidos, contexto, operacion, cicloVars, mem, caido>>

(* Mutant: the registers of the context are not those received. *)
RecibeSinRegistros ==
    /\ turno = "recibe"
    /\ operacion' = "PROXIMO_PCB"
    /\ contexto' = [canal EXCEPT !.regs = contexto.regs]
    /\ turno' = "ejecuta"
    /\ UNCHANGED <<kernelVars, canal, cicloVars, mem, caido>>

(* Mutant: the id of the context is not updated. *)
RecibeSinId ==
    /\ turno = "recibe"
    /\ operacion' = "PROXIMO_PCB"
    /\ contexto' = [canal EXCEPT !.id = IF contexto.id = Nulo THEN @ ELSE contexto.id]
    /\ turno' = "ejecuta"
    /\ UNCHANGED <<kernelVars, canal, cicloVars, mem, caido>>

(* dispatch_routine: the context takes the place of the previous one. *)
Recibe ==
    /\ turno = "recibe"
    /\ operacion' = "PROXIMO_PCB"
    /\ contexto' = canal
    /\ turno' = "ejecuta"
    /\ UNCHANGED <<kernelVars, canal, cicloVars, mem, caido>>

-----------------------------------------------------------------------------
(* fetch and decode *)

O(palabra, antes) == IF palabra = Nulo THEN antes ELSE palabra

(* sscanf leaves the words that the line does not have. *)
Leida(linea) == [aux EXCEPT !.op = O(linea.op, @), !.oper1 = O(linea.oper1, @),
                            !.oper2 = O(linea.oper2, @)]

IndiceDe(nombre, antes) == IF nombre \in DOMAIN Indice THEN Indice[nombre] ELSE antes

(* Mutant: the second register of ADD is not looked up. *)
DecodificadaSinFuente(a) ==
    [a EXCEPT
        !.codigo = IF a.op \in Codigos THEN a.op ELSE @,
        !.register1 = IF a.op \in {"SET", "ADD", "MOV_IN"} THEN IndiceDe(a.oper1, @) ELSE @,
        !.register2 = IF a.op = "MOV_OUT" THEN IndiceDe(a.oper2, @) ELSE @]

(* The code and the registers that the operation of the line has; the      *)
(* others stay.                                                            *)
Decodificada(a) ==
    [a EXCEPT
        !.codigo = IF a.op \in Codigos THEN a.op ELSE @,
        !.register1 = IF a.op \in {"SET", "ADD", "MOV_IN"} THEN IndiceDe(a.oper1, @) ELSE @,
        !.register2 = IF a.op \in {"ADD", "MOV_OUT"} THEN IndiceDe(a.oper2, @) ELSE @]

DentroDelPrograma == contexto.pc < Len(Programa[contexto.id])

(* The fetch reads past the last line. *)
FetchAfuera ==
    /\ turno = "ejecuta"
    /\ ~DentroDelPrograma
    /\ caido' = TRUE
    /\ UNCHANGED <<kernelVars, canal, turno, contexto, operacion, cicloVars, mem>>

(* fetch and decode of a line whose code is codigo, up to its execution. *)
Decodifica(codigo) ==
    /\ turno = "ejecuta"
    /\ DentroDelPrograma
    /\ aux' = Decodificada(Leida(Programa[contexto.id][contexto.pc + 1]))
    /\ aux'.codigo = codigo
    /\ turno' = "cierra"
    /\ UNCHANGED <<kernelVars, canal>>

-----------------------------------------------------------------------------
(* execute *)

(* A register outside registros[4] is read or written. *)
Registros(rs) == caido' = (\E r \in rs : r \notin Indices)

Pone(r, v) ==
    contexto' = IF r \in Indices THEN [contexto EXCEPT !.regs[r] = v] ELSE contexto

ValorDe(r) == IF r \in Indices THEN contexto.regs[r] ELSE 0

EjecutaSet ==
    /\ Decodifica("SET")
    /\ Registros({aux'.register1})
    /\ Pone(aux'.register1, Atoi(aux'.oper2) % Palabras)
    /\ UNCHANGED <<operacion, unidades, devolver, falta, mem>>

(* Mutant: the sum does not wrap. *)
EjecutaAddAncho ==
    /\ Decodifica("ADD")
    /\ Registros({aux'.register1, aux'.register2})
    /\ Pone(aux'.register1, ValorDe(aux'.register1) + ValorDe(aux'.register2))
    /\ UNCHANGED <<operacion, unidades, devolver, falta, mem>>

(* The sum wraps at the width of a register. *)
EjecutaAdd ==
    /\ Decodifica("ADD")
    /\ Registros({aux'.register1, aux'.register2})
    /\ Pone(aux'.register1, (ValorDe(aux'.register1) + ValorDe(aux'.register2)) % Palabras)
    /\ UNCHANGED <<operacion, unidades, devolver, falta, mem>>

DireccionMov == Atoi(IF aux'.codigo = "MOV_IN" THEN aux'.oper2 ELSE aux'.oper1)

EnSegmento == ~SegFault(DireccionMov, Segmentos[contexto.id])

(* MOV_IN and MOV_OUT whose traducciones gives VALOR_OK. *)
EjecutaMovIn ==
    /\ Decodifica("MOV_IN")
    /\ EnSegmento
    /\ Registros({aux'.register1})
    /\ Pone(aux'.register1, mem[contexto.id][Casilla(DireccionMov)])
    /\ UNCHANGED <<operacion, unidades, devolver, falta, mem>>

EjecutaMovOut ==
    /\ Decodifica("MOV_OUT")
    /\ EnSegmento
    /\ Registros({aux'.register2})
    /\ mem' = [mem EXCEPT ![contexto.id][Casilla(DireccionMov)] = ValorDe(aux'.register2)]
    /\ UNCHANGED <<contexto, operacion, unidades, devolver, falta>>

(* MOV_IN and MOV_OUT whose traducciones gives a fault. *)
EjecutaFalla(codigo, op) ==
    /\ Decodifica(codigo)
    /\ EnSegmento <=> (op = "PAGE_FAULT")
    /\ operacion' = op
    /\ falta' = TRUE
    /\ UNCHANGED <<contexto, unidades, devolver, mem, caido>>

(* I/O: for the screen and the keyboard unidades is a register, or stays   *)
(* what it was when the second word is not one.                            *)
EjecutaIO ==
    /\ Decodifica("I/O")
    /\ unidades' = IF aux'.oper1 \in {"TECLADO", "PANTALLA"}
                   THEN IndiceDe(aux'.oper2, unidades) ELSE Atoi(aux'.oper2)
    /\ devolver' = TRUE
    /\ operacion' = "BLOQUEO_PROCESO"
    /\ UNCHANGED <<contexto, falta, mem, caido>>

EjecutaExit ==
    /\ Decodifica("EXIT")
    /\ devolver' = TRUE
    /\ operacion' = "EXIT_PROCESO"
    /\ UNCHANGED <<contexto, unidades, falta, mem, caido>>

(* No line was decoded yet and this one has no known operation. *)
EjecutaNada ==
    /\ Decodifica(Nulo)
    /\ UNCHANGED <<contexto, operacion, unidades, devolver, falta, mem, caido>>

-----------------------------------------------------------------------------
(* The end of an iteration of the cycle. *)

(* Mutant: a fault does not keep the process on its instruction. *)
CierraFaltaAvanza ==
    /\ turno = "cierra"
    /\ falta
    /\ falta' = FALSE
    /\ contexto' = [contexto EXCEPT !.pc = @ + 1]
    /\ turno' = "devuelve"
    /\ UNCHANGED <<kernelVars, canal, operacion, unidades, aux, devolver, mem, caido>>

(* After a fault the context is returned as it was before the instruction. *)
CierraFalta ==
    /\ turno = "cierra"
    /\ falta
    /\ falta' = FALSE
    /\ turno' = "devuelve"
    /\ UNCHANGED <<kernelVars, canal, contexto, operacion, unidades, aux, devolver, mem, caido>>

(* Mutant: the interruption also evicts a process that was leaving. *)
DesalojaSiempre(interrumpido) == interrumpido

(* check_interrupt evicts the process only when it was going on. *)
Desaloja(interrumpido) == interrumpido /\ operacion = "PROXIMO_PCB"

(* Mutant: an instruction that is interrupted is executed again. *)
CierraSinAvanzar(interrumpido) ==
    /\ turno = "cierra"
    /\ ~falta
    /\ IF Desaloja(interrumpido)
       THEN UNCHANGED contexto
       ELSE contexto' = [contexto EXCEPT !.pc = @ + 1]
    /\ operacion' = IF Desaloja(interrumpido) THEN "DESALOJO_PROCESO" ELSE operacion
    /\ turno' = IF devolver \/ Desaloja(interrumpido) THEN "devuelve" ELSE "ejecuta"
    /\ devolver' = FALSE
    /\ UNCHANGED <<kernelVars, canal, unidades, aux, falta, mem, caido>>

(* Otherwise program_counter advances, interruptions are checked, and the  *)
(* context is returned when there is a reason.                             *)
Cierra(interrumpido) ==
    /\ turno = "cierra"
    /\ ~falta
    /\ contexto' = [contexto EXCEPT !.pc = @ + 1]
    /\ operacion' = IF Desaloja(interrumpido) THEN "DESALOJO_PROCESO" ELSE operacion
    /\ turno' = IF devolver \/ Desaloja(interrumpido) THEN "devuelve" ELSE "ejecuta"
    /\ devolver' = FALSE
    /\ UNCHANGED <<kernelVars, canal, unidades, aux, falta, mem, caido>>

-----------------------------------------------------------------------------
(* From the CPU to the Kernel. *)

(* dispatch_routine: the context and what goes with its operation. *)
Devuelve ==
    /\ turno = "devuelve"
    /\ canal' = [id |-> contexto.id, pc |-> contexto.pc, regs |-> contexto.regs,
                 op |-> operacion, dispositivo |-> aux.oper1, unidades |-> unidades]
    /\ turno' = "actualiza"
    /\ UNCHANGED <<kernelVars, contexto, operacion, cicloVars, mem, caido>>

LugarTras(op) ==
    CASE op = "DESALOJO_PROCESO" -> "listo"
      [] op = "BLOQUEO_PROCESO"  -> "dispositivo"
      [] op = "PAGE_FAULT"       -> "pagina"
      [] op \in Finales          -> "fin"

(* obtener_y_actualizar_pcb_recibido, and the case of the operation. *)
Actualiza ==
    /\ turno = "actualiza"
    /\ pcb' = [pcb EXCEPT ![canal.id] = [pc |-> canal.pc, regs |-> canal.regs]]
    /\ lugar' = [lugar EXCEPT ![canal.id] = LugarTras(canal.op)]
    /\ pedido' = IF canal.op = "BLOQUEO_PROCESO"
                 THEN [pedido EXCEPT ![canal.id] = [dispositivo |-> canal.dispositivo,
                                                    unidades |-> canal.unidades]]
                 ELSE pedido
    /\ canal' = Vacio
    /\ turno' = "kernel"
    /\ UNCHANGED <<pantalla, servidos, contexto, operacion, cicloVars, mem, caido>>

(* page_fault_routine: the page was loaded. *)
CargaPagina(p) ==
    /\ lugar[p] = "pagina"
    /\ lugar' = [lugar EXCEPT ![p] = "listo"]
    /\ UNCHANGED <<pcb, pedido, pantalla, servidos, canal, turno, contexto, operacion, cicloVars,
                   mem, caido>>

TerminaDispositivo(p) ==
    /\ lugar[p] = "dispositivo"
    /\ lugar' = [lugar EXCEPT ![p] = "listo"]
    /\ servidos' = [servidos EXCEPT ![p] = @ + 1]
    /\ UNCHANGED <<pedido, canal, turno, contexto, operacion, cicloVars, mem>>

(* blocked_process_routine: the value typed goes to a register of the PCB. *)
UsaTeclado(p, v) ==
    /\ pedido[p].dispositivo = "TECLADO"
    /\ TerminaDispositivo(p)
    /\ Registros({pedido[p].unidades})
    /\ pcb' = IF pedido[p].unidades \in Indices
              THEN [pcb EXCEPT ![p].regs[pedido[p].unidades] = v] ELSE pcb
    /\ UNCHANGED pantalla

(* The value of a register of the PCB is shown. *)
UsaPantalla(p) ==
    /\ pedido[p].dispositivo = "PANTALLA"
    /\ TerminaDispositivo(p)
    /\ Registros({pedido[p].unidades})
    /\ pantalla' = IF pedido[p].unidades \in Indices
                   THEN [pantalla EXCEPT ![p] = pcb[p].regs[pedido[p].unidades]] ELSE pantalla
    /\ UNCHANGED pcb

(* A device is used for some time; one that is not configured ends the Kernel. *)
UsaDispositivo(p) ==
    /\ pedido[p].dispositivo \notin {"TECLADO", "PANTALLA"}
    /\ TerminaDispositivo(p)
    /\ caido' = (pedido[p].dispositivo \notin Dispositivos)
    /\ UNCHANGED <<pcb, pantalla>>

-----------------------------------------------------------------------------
Accede  == EjecutaMovIn \/ EjecutaMovOut
Ejecuta == \/ EjecutaSet \/ EjecutaAdd \/ Accede \/ EjecutaIO \/ EjecutaExit \/ EjecutaNada
           \/ \E codigo \in {"MOV_IN", "MOV_OUT"}, op \in {"PAGE_FAULT", "SEG_FAULT"} :
                 EjecutaFalla(codigo, op)
Cpu     == \/ Recibe \/ FetchAfuera \/ Ejecuta \/ CierraFalta \/ Devuelve
           \/ \E interrumpido \in BOOLEAN : Cierra(interrumpido)
Usa(p)  == UsaPantalla(p) \/ UsaDispositivo(p) \/ \E v \in Valores : UsaTeclado(p, v)
Kernel  == Actualiza \/ \E p \in Procesos : Despacha(p)

Next ==
    /\ ~caido
    /\ Cpu \/ Kernel \/ \E p \in Procesos : CargaPagina(p) \/ Usa(p)

Spec == Init /\ [][Next]_vars

(* The threads go on; READY is fair to each process; devices and pages     *)
(* answer; and an access is not for ever answered with a page fault        *)
(* (ReintentoNoFalla of MemoriaPropiedades).                               *)
SpecJusta ==
    /\ Spec
    /\ WF_vars(Cpu) /\ WF_vars(Actualiza)
    /\ \A p \in Procesos : /\ SF_vars(Despacha(p)) /\ WF_vars(CargaPagina(p)) /\ WF_vars(Usa(p))
                          /\ SF_vars(Accede /\ contexto.id = p)
=============================================================================
