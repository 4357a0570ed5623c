-------------------------- MODULE KernelSeguridad --------------------------
(***************************************************************************)
(* The safety of the Kernel, proved for every set of processes, degree,    *)
(* device list and algorithm: its threads never meet a NULL or destroyed   *)
(* PCB nor an unexpected code, its semaphores count what they stand for,   *)
(* and each process is in one place.  None of these is inductive alone;    *)
(* Inv below joins them with what relates the PCB, the pipeline and the    *)
(* steps of the threads that share them.  From Inv follows that the Kernel *)
(* implements the process diagram.                                         *)
(***************************************************************************)
EXTENDS KernelProofs, FiniteSetTheorems, FunctionTheorems

(* The thread of p holds the screen or the keyboard. *)
UsaConsola(p) == hilo[p] = "usaRecurso" /\ recurso[p] \notin Dispositivos

(* What the PCB has to say of the step of its console thread. *)
PcbCoherente(p) ==
    /\ pcb[p] = "nada" <=> consola[p] = "conecta"
    /\ pcb[p] = "liberado" <=> consola[p] = "fin"
    /\ consola[p] \in {"pide", "libera", "destruye", "fin"} => pipeline[p] = "EXIT"
    /\ pipeline[p] = "EXIT" => pcb[p] \in {"listado", "liberado"}
    /\ hilo[p] = "usaRecurso" => recurso[p] \in Recursos

(* The two semaphores of a PCB carry one token, and the pipeline tells     *)
(* whose turn it is: the console thread's while its request is there, that *)
(* of the blocked thread when the answer is.                               *)
Conversa(p) ==
    /\ semConsola[p] =
         Uno(\/ pipeline[p] = "EXIT" /\ consola[p] \in {"avisa", "espera"}
             \/ /\ UsaConsola(p) /\ consola[p] # "responde"
                /\ pipeline[p] = PedidoConsola(recurso[p]))
    /\ semEspera[p] = Uno(UsaConsola(p) /\ pipeline[p] = RespuestaConsola(recurso[p]))
    /\ consola[p] = "responde" => UsaConsola(p) /\ pipeline[p] = PedidoConsola(recurso[p])
    /\ UsaConsola(p) =>
         pipeline[p] \in {PedidoConsola(recurso[p]), RespuestaConsola(recurso[p])}

(* Before its admission a process is in NEW or with the planner, ...       *)
LugarPrevio(p) ==
    Veces(colaNew, p) + Uno(planPcb = p /\ plan \in {"pide", "espera", "agrega"})
        = Uno(pcb[p] = "creado")

(* ... and from then to its end in READY, the CPU or the hands of a thread. *)
LugarAdmitido(p) ==
    Uno(planPcb = p /\ plan = "ingresa") + Veces(colaRR, p) + Veces(colaFIFO, p)
        + Uno(enExec = p) + Uno(hilo[p] # "ninguno")
    = Uno(pcb[p] = "listado" /\ pipeline[p] # "EXIT")

(* Memoria has served the request of the region, and nobody read it yet. *)
Atendido == canal = "respuesta" \/ semResolved > 0

(* The processes that Memoria has: the listed ones until their EXIT_PROCESO *)
(* is served, and the one of the planner since its NUEVO_PROCESO was.      *)
Alojado(p) ==
    pcb[p] = "listado" /\ consola[p] # "destruye" /\ ~(consola[p] = "libera" /\ Atendido)
Llegado(p) == planPcb = p /\ (plan = "agrega" \/ (plan = "espera" /\ Atendido))
EnMemoria(p) == p \in enMemoria <=> Alojado(p) \/ Llegado(p)

(* A process that ended before the planner announced it gave its degree    *)
(* back, and the planner has not taken it.                                 *)
GradoVuelve ==
    plan \in {"ingresa", "registra", "avisa"} /\ planPcb \notin Admitidos =>
        semGrado + Uno(despacho = "grado") >= 1

Coherente ==
    \A p \in Procesos :
        PcbCoherente(p) /\ Conversa(p) /\ LugarPrevio(p) /\ LugarAdmitido(p) /\ EnMemoria(p)

Inv ==
    /\ TipoInv /\ AvisosReady /\ NuncaCae
    /\ Coherente
    /\ enExec # Nulo => despacho \in {"recibe", "ingresa"}
    /\ SemaforosExactos /\ MonitorMemoria /\ GradoVuelve

-----------------------------------------------------------------------------
(* Counting. *)

LEMMA UnoTipo == \A b : Uno(b) \in {0, 1} /\ (Uno(b) = 1 <=> b)
  BY DEF Uno

(* The processes that satisfy something are finitely many, and counting    *)
(* them follows the comings and goings of one of them.                     *)
LEMMA Conteo ==
  ASSUME NEW S, S \subseteq Procesos
  PROVE  /\ IsFiniteSet(S) /\ Cardinality(S) \in Nat
         /\ Cardinality(S) = 0 <=> S = {}
         /\ \A p : Cardinality(S \cup {p}) = Cardinality(S) + (IF p \in S THEN 0 ELSE 1)
         /\ \A p : Cardinality(S \ {p}) = Cardinality(S) - (IF p \in S THEN 1 ELSE 0)
         /\ \A p \in S : Cardinality(S) >= 1
<1>1. IsFiniteSet(S)
  BY SupuestosKernel, FS_Subset DEF SupuestosKernel
<1>2. Cardinality(S) \in Nat /\ (Cardinality(S) = 0 <=> S = {})
  BY <1>1, FS_CardinalityType, FS_EmptySet
<1>3. ASSUME NEW p PROVE Cardinality(S \cup {p}) = Cardinality(S) + (IF p \in S THEN 0 ELSE 1)
  <2>1. Cardinality(S \cup {p}) = IF p \in S THEN Cardinality(S) ELSE Cardinality(S) + 1
    BY <1>1, FS_AddElement
  <2> QED
    BY <1>2, <2>1
<1>4. ASSUME NEW p PROVE Cardinality(S \ {p}) = Cardinality(S) - (IF p \in S THEN 1 ELSE 0)
  <2>1. Cardinality(S \ {p}) = IF p \in S THEN Cardinality(S) - 1 ELSE Cardinality(S)
    BY <1>1, FS_RemoveElement
  <2> QED
    BY <1>2, <2>1
<1>5. \A p \in S : Cardinality(S) >= 1
  BY <1>2
<1> QED
  BY <1>1, <1>2, <1>3, <1>4, <1>5

(* The positions of p in a queue. *)
LEMMA VecesTipo ==
  ASSUME NEW s \in Seq(Procesos), NEW p
  PROVE  /\ IsFiniteSet({i \in DOMAIN s : s[i] = p})
         /\ Veces(s, p) \in Nat
         /\ Veces(s, p) > 0 <=> EnCola(s, p)
<1> DEFINE S == {i \in DOMAIN s : s[i] = p}
<1>1. DOMAIN s = 1..Len(s) /\ Len(s) \in Nat
  BY LenProperties
<1>2. IsFiniteSet(DOMAIN s)
  BY <1>1, FS_Interval
<1>3. IsFiniteSet(S)
  BY <1>2, FS_Subset
<1>4. Cardinality(S) \in Nat /\ (Cardinality(S) = 0 <=> S = {})
  BY <1>3, FS_CardinalityType, FS_EmptySet
<1> QED
  BY <1>3, <1>4 DEF Veces, EnCola

LEMMA VecesVacia == \A p : Veces(<<>>, p) = 0
<1> TAKE p
<1>1. {i \in DOMAIN <<>> : <<>>[i] = p} = {}
  OBVIOUS
<1> QED
  BY <1>1, FS_EmptySet DEF Veces

LEMMA VecesAgregar ==
  ASSUME NEW s \in Seq(Procesos), NEW q \in Procesos, NEW p
  PROVE  Veces(Append(s, q), p) = Veces(s, p) + Uno(p = q)
<1> DEFINE S == {i \in DOMAIN s : s[i] = p}
           T == {i \in DOMAIN Append(s, q) : Append(s, q)[i] = p}
           n == Len(s) + 1
<1>1. Len(s) \in Nat /\ DOMAIN s = 1..Len(s)
  BY LenProperties
<1>2. /\ DOMAIN Append(s, q) = 1..n
      /\ \A i \in 1..Len(s) : Append(s, q)[i] = s[i]
      /\ Append(s, q)[n] = q
  BY AppendProperties, LenProperties
<1>3. IsFiniteSet(S) /\ Veces(s, p) \in Nat
  BY VecesTipo
<1>4. n \notin S
  BY <1>1
<1>5. CASE p = q
  <2>1. T = S \cup {n}
    BY <1>1, <1>2, <1>5
  <2>2. Cardinality(T) = Cardinality(S) + 1
    BY <1>3, <1>4, <2>1, FS_AddElement
  <2>3. Veces(Append(s, q), p) = Cardinality(T) /\ Veces(s, p) = Cardinality(S)
    BY DEF Veces
  <2> QED
    BY <1>5, <2>2, <2>3 DEF Uno
<1>6. CASE p # q
  <2>1. T = S
    BY <1>1, <1>2, <1>6
  <2>2. Veces(Append(s, q), p) = Veces(s, p)
    BY <2>1 DEF Veces
  <2> QED
    BY <1>3, <1>6, <2>2 DEF Uno
<1> QED
  BY <1>5, <1>6

LEMMA VecesSacar ==
  ASSUME NEW s \in Seq(Procesos), s # <<>>, NEW p
  PROVE  Veces(s, p) = Veces(Tail(s), p) + Uno(Head(s) = p)
<1> DEFINE n == Len(s)
           S == {i \in DOMAIN s : s[i] = p}
           T == {i \in DOMAIN Tail(s) : Tail(s)[i] = p}
           f == [i \in T |-> i + 1]
<1>1. n \in Nat \ {0} /\ DOMAIN s = 1..n /\ Head(s) = s[1]
  BY LenProperties, EmptySeq
<1>2. /\ Tail(s) \in Seq(Procesos) /\ DOMAIN Tail(s) = 1..(n - 1)
      /\ \A i \in 1..(n - 1) : Tail(s)[i] = s[i + 1]
  BY HeadTailProperties, LenProperties
<1>3. IsFiniteSet(S) /\ IsFiniteSet(T) /\ Veces(Tail(s), p) \in Nat
  BY <1>2, VecesTipo
<1>4. IsFiniteSet(S \ {1})
  BY <1>3, FS_RemoveElement
<1>5. Cardinality(T) = Cardinality(S \ {1})
  <2>1. f \in [T -> S \ {1}]
    BY <1>1, <1>2
  <2>2. \A i, j \in T : f[i] = f[j] => i = j
    BY <1>1, <1>2
  <2>3. \A k \in S \ {1} : \E i \in T : f[i] = k
    <3> TAKE k \in S \ {1}
    <3>1. k - 1 \in T /\ (k - 1) + 1 = k
      BY <1>1, <1>2
    <3> QED
      BY <3>1
  <2>4. f \in Bijection(T, S \ {1})
    BY <2>1, <2>2, <2>3 DEF Bijection, Injection, Surjection, IsInjective
  <2> QED
    BY <1>3, <2>4, FS_Bijection, ZenonT(40) DEF ExistsBijection
<1>6. Cardinality(S \ {1}) = IF 1 \in S THEN Cardinality(S) - 1 ELSE Cardinality(S)
  BY <1>3, FS_RemoveElement
<1>7. Cardinality(S) \in Nat
  BY <1>3, FS_CardinalityType
<1>8. 1 \in S <=> Head(s) = p
  BY <1>1
<1>9. Veces(s, p) = Cardinality(S) /\ Veces(Tail(s), p) = Cardinality(T)
  BY DEF Veces
<1> HIDE DEF S, T
<1> QED
  BY <1>5, <1>6, <1>7, <1>8, <1>9 DEF Uno

(* A push to READY and a pop from it move one process. *)
LEMMA IngresarVeces ==
  ASSUME TipoReady, NEW p \in Procesos, NEW source, IngresarAReady(p, source), NEW q
  PROVE  /\ {Veces(colaRR, q), Veces(colaFIFO, q), Veces(colaRR', q), Veces(colaFIFO', q)}
              \subseteq Nat
         /\ Veces(colaRR', q) + Veces(colaFIFO', q)
              = Veces(colaRR, q) + Veces(colaFIFO, q) + Uno(q = p)
<1>1. Veces(colaRR, q) \in Nat /\ Veces(colaFIFO, q) \in Nat
  BY VecesTipo DEF TipoReady
<1>2. Veces(colaRR', q) \in Nat /\ Veces(colaFIFO', q) \in Nat
  BY VecesTipo, IngresarTipo
<1>3. CASE colaRR' = Append(colaRR, p) /\ colaFIFO' = colaFIFO
  <2>1. Veces(Append(colaRR, p), q) = Veces(colaRR, q) + Uno(q = p)
    BY VecesAgregar DEF TipoReady
  <2> QED
    BY <1>1, <1>3, <2>1, UnoTipo, SMTT(30)
<1>4. CASE colaFIFO' = Append(colaFIFO, p) /\ colaRR' = colaRR
  <2>1. Veces(Append(colaFIFO, p), q) = Veces(colaFIFO, q) + Uno(q = p)
    BY VecesAgregar DEF TipoReady
  <2> QED
    BY <1>1, <1>4, <2>1, UnoTipo
<1>5. \/ colaRR' = Append(colaRR, p) /\ colaFIFO' = colaFIFO
      \/ colaFIFO' = Append(colaFIFO, p) /\ colaRR' = colaRR
  BY DEF IngresarAReady
<1> QED
  BY <1>1, <1>2, <1>3, <1>4, <1>5

LEMMA ObtenerVeces ==
  ASSUME TipoInv, AvisosReady, DespachoObtiene, NEW q
  PROVE  /\ enExec' \in Procesos
         /\ {Veces(colaRR, q), Veces(colaFIFO, q), Veces(colaRR', q), Veces(colaFIFO', q)}
              \subseteq Nat
         /\ Veces(colaRR, q) + Veces(colaFIFO, q)
              = Veces(colaRR', q) + Veces(colaFIFO', q) + Uno(enExec' = q)
<1>1. TipoReady
  BY DEF TipoInv, TipoBase
<1>2. Veces(colaRR, q) \in Nat /\ Veces(colaFIFO, q) \in Nat
  BY <1>1, VecesTipo DEF TipoReady
<1>3. CASE colaRR # <<>>
  <2>1. enExec' = Head(colaRR) /\ colaRR' = Tail(colaRR) /\ colaFIFO' = colaFIFO
    BY <1>3 DEF DespachoObtiene
  <2>2. Veces(colaRR, q) = Veces(Tail(colaRR), q) + Uno(Head(colaRR) = q)
    BY <1>1, <1>3, VecesSacar DEF TipoReady
  <2>3. Head(colaRR) \in Procesos /\ Veces(Tail(colaRR), q) \in Nat
    BY <1>1, <1>3, SacarDeCola, VecesTipo DEF TipoReady
  <2> QED
    BY <1>2, <2>1, <2>2, <2>3, UnoTipo
<1>4. CASE colaRR = <<>>
  <2>1. Len(colaRR) = 0 /\ Len(colaRR) + Len(colaFIFO) >= 1
    BY <1>1, <1>4, LargosReady, EmptySeq DEF DespachoObtiene, AvisosReady, Uno
  <2>2. colaFIFO # <<>>
    BY <1>1, <2>1, EmptySeq DEF TipoReady
  <2>3. enExec' = Head(colaFIFO) /\ colaFIFO' = Tail(colaFIFO) /\ colaRR' = colaRR
    BY <1>4, <2>2 DEF DespachoObtiene
  <2>4. Veces(colaFIFO, q) = Veces(Tail(colaFIFO), q) + Uno(Head(colaFIFO) = q)
    BY <1>1, <2>2, VecesSacar DEF TipoReady
  <2>5. Head(colaFIFO) \in Procesos /\ Veces(Tail(colaFIFO), q) \in Nat
    BY <1>1, <2>2, SacarDeCola, VecesTipo DEF TipoReady
  <2> QED
    BY <1>2, <2>3, <2>4, <2>5, UnoTipo
<1> QED
  BY <1>3, <1>4

-----------------------------------------------------------------------------
(* What the places of a process say of its PCB. *)

LEMMA VecesReady ==
  ASSUME TipoInv, NEW p
  PROVE  Veces(colaNew, p) \in Nat /\ Veces(colaRR, p) \in Nat /\ Veces(colaFIFO, p) \in Nat
  BY VecesTipo DEF TipoInv, TipoBase, TipoPlan, TipoReady

LEMMA PcbAdmitido ==
  ASSUME Inv, NEW p \in Procesos,
         \/ enExec = p \/ hilo[p] # "ninguno" \/ (planPcb = p /\ plan = "ingresa")
         \/ Veces(colaRR, p) > 0 \/ Veces(colaFIFO, p) > 0
  PROVE  pcb[p] = "listado" /\ pipeline[p] # "EXIT"
<1>1. LugarAdmitido(p) /\ TipoInv
  BY DEF Inv, Coherente
<1>2. Veces(colaRR, p) \in Nat /\ Veces(colaFIFO, p) \in Nat
  BY <1>1, VecesReady
<1> DEFINE lugares == Uno(planPcb = p /\ plan = "ingresa") + Veces(colaRR, p) + Veces(colaFIFO, p)
                        + Uno(enExec = p) + Uno(hilo[p] # "ninguno")
<1>3. lugares >= 1
  BY <1>2 DEF Uno
<1>4. lugares = Uno(pcb[p] = "listado" /\ pipeline[p] # "EXIT")
  BY <1>1 DEF LugarAdmitido
<1> QED
  BY <1>3, <1>4 DEF Uno

LEMMA PcbPrevio ==
  ASSUME Inv, NEW p \in Procesos,
         (planPcb = p /\ plan \in {"pide", "espera", "agrega"}) \/ Veces(colaNew, p) > 0
  PROVE  pcb[p] = "creado" /\ pipeline[p] # "EXIT"
<1>1. LugarPrevio(p) /\ PcbCoherente(p) /\ TipoInv
  BY DEF Inv, Coherente
<1>2. pcb[p] = "creado"
  BY <1>1, VecesReady DEF LugarPrevio, Uno
<1> QED
  BY <1>1, <1>2 DEF PcbCoherente

LEMMA PcbVive ==
  ASSUME Inv, NEW p \in Procesos
  PROVE  PcbVivo(p) <=> consola[p] \notin {"conecta", "fin"}
  BY DEF Inv, Coherente, PcbCoherente, PcbVivo, TipoInv, TipoBase, TipoConsola

(* The threads of the memory region, one at most. *)
LEMMA Region ==
  ASSUME Inv
  PROVE  /\ RegionOcupada \in {0, 1}
         /\ semHandlers = 1 - RegionOcupada
         /\ RegionOcupada = 0 => /\ plan # "espera"
                                 /\ \A p \in Procesos : /\ consola[p] # "libera"
                                                        /\ hilo[p] # "esperaPagina"
         /\ RegionOcupada = 1 =>
              \/ plan = "espera"
              \/ \E p \in Procesos : consola[p] = "libera" \/ hilo[p] = "esperaPagina"
<1> DEFINE C == {p \in Procesos : consola[p] = "libera"}
           H == {p \in Procesos : hilo[p] = "esperaPagina"}
<1>1. Cardinality(C) \in Nat /\ (Cardinality(C) = 0 <=> C = {})
  BY Conteo
<1>2. Cardinality(H) \in Nat /\ (Cardinality(H) = 0 <=> H = {})
  BY Conteo
<1>3. RegionOcupada = Cardinality(C) + Cardinality(H) + Uno(plan = "espera")
  BY DEF RegionOcupada, EnRegion
<1>4. semHandlers \in Nat /\ semHandlers + RegionOcupada = 1
  BY DEF Inv, TipoInv, TipoBase, TipoMemoria, MonitorMemoria
<1>5. RegionOcupada = 0 => C = {} /\ H = {} /\ plan # "espera"
  BY <1>1, <1>2, <1>3 DEF Uno
<1>6. RegionOcupada = 1 => C # {} \/ H # {} \/ plan = "espera"
  BY <1>1, <1>2, <1>3 DEF Uno
<1>7. RegionOcupada \in {0, 1} /\ semHandlers = 1 - RegionOcupada
  BY <1>1, <1>2, <1>3, <1>4 DEF Uno
<1> QED
  BY <1>5, <1>6, <1>7

-----------------------------------------------------------------------------
(* No step ends the Kernel. *)

(* The PCB that the globals point to during an exchange with Memoria. *)
LEMMA GlobalVive == Inv /\ RegionOcupada = 1 => PcbVivo(globalPcb)
<1> SUFFICES ASSUME Inv, RegionOcupada = 1 PROVE PcbVivo(globalPcb)
  OBVIOUS
<1>1. MonitorMemoria /\ TipoInv /\ EnManos
  BY DEF Inv, TipoInv
<1>2. CASE plan = "espera"
  <2>1. globalPcb = planPcb /\ planPcb \in Procesos
    BY <1>1, <1>2 DEF MonitorMemoria, EnManos, Inv, NuncaCae, PasosPlan
  <2> QED
    BY <1>2, <2>1, PcbPrevio DEF PcbVivo
<1>3. ASSUME NEW p \in Procesos, consola[p] = "libera" PROVE PcbVivo(globalPcb)
  BY <1>1, <1>3, PcbVive DEF MonitorMemoria
<1>4. ASSUME NEW p \in Procesos, hilo[p] = "esperaPagina" PROVE PcbVivo(globalPcb)
  BY <1>1, <1>4, PcbAdmitido DEF MonitorMemoria, PcbVivo
<1> QED
  BY <1>2, <1>3, <1>4, Region

LEMMA NuncaCaeConsolas == ASSUME Inv, NEW p \in Procesos, Consolas(p) PROVE NuncaCae'
<1>0. NuncaCae /\ Conversa(p) /\ PcbCoherente(p)
  BY DEF Inv, Coherente
<1>1. CASE ConsolaAvisa(p)
  BY <1>1, PcbVive DEF ConsolaAvisa, Exige, NuncaCae
<1>2. CASE ConsolaDespierta(p)
  <2>1. pipeline[p] = "EXIT" \/ pipeline[p] = PedidoConsola(recurso[p])
    BY <1>0, <1>2 DEF ConsolaDespierta, Conversa, Uno
  <2> QED
    BY <1>2, <2>1 DEF ConsolaDespierta, Exige, NuncaCae, PedidoConsola
<1>3. CASE UNCHANGED caido
  BY <1>0, <1>3 DEF NuncaCae
<1> QED
  BY <1>1, <1>2, <1>3 DEF Consolas, ConsolaCrea, ConsolaRecibe, ConsolaPideSalida, ConsolaLibera,
     ConsolaDestruye

LEMMA NuncaCaePlanificador == Inv /\ Planificador => NuncaCae'
<1> SUFFICES ASSUME Inv, Planificador PROVE NuncaCae'
  OBVIOUS
<1>0. NuncaCae /\ AvisosNew /\ TipoPlan
  BY DEF Inv, SemaforosExactos, TipoInv, TipoBase
<1>1. CASE PlanSaca
  <2> DEFINE C == {p \in Procesos : consola[p] = "avisa"}
  <2>1. Cardinality(C) \in Nat
    BY Conteo
  <2>2. Len(colaNew) = semNew + Cardinality(C) + 1
    BY <1>0, <1>1 DEF AvisosNew, PlanSaca, Uno
  <2>3. colaNew # <<>>
    BY <1>0, <2>1, <2>2, EmptySeq DEF TipoPlan
  <2> QED
    BY <1>1, <2>3 DEF PlanSaca, Exige, NuncaCae
<1>2. CASE UNCHANGED caido
  BY <1>0, <1>2 DEF NuncaCae
<1> QED
  BY <1>1, <1>2 DEF Planificador, PlanEsperaNew, PlanEsperaGrado, PlanPideMemoria,
     PlanRecibeMemoria, PlanAgrega, PlanIngresa, PlanRegistra, PlanAvisa

LEMMA NuncaCaeDespacho == Inv /\ Despacho => NuncaCae'
<1> SUFFICES ASSUME Inv, Despacho PROVE NuncaCae'
  OBVIOUS
<1>0. NuncaCae /\ TipoInv /\ AvisosReady
  BY DEF Inv
<1>1. CASE DespachoObtiene
  <2>1. /\ enExec' \in Procesos
        /\ Veces(colaRR, enExec') + Veces(colaFIFO, enExec')
              = Veces(colaRR', enExec') + Veces(colaFIFO', enExec') + 1
        /\ {Veces(colaRR, enExec'), Veces(colaFIFO, enExec'),
            Veces(colaRR', enExec'), Veces(colaFIFO', enExec')} \subseteq Nat
    BY <1>0, <1>1, ObtenerVeces, UnoTipo, ZenonT(40)
  <2>2. Veces(colaRR, enExec') > 0 \/ Veces(colaFIFO, enExec') > 0
    BY <2>1
  <2>3. PcbVivo(enExec')
    BY <2>1, <2>2, PcbAdmitido DEF PcbVivo
  <2> QED
    BY <1>1, <2>3 DEF DespachoObtiene, Exige, NuncaCae
<1>2. CASE UNCHANGED caido
  BY <1>0, <1>2 DEF NuncaCae
<1> QED
  BY <1>1, <1>2 DEF Despacho, DespachoInicia, DespachoIngresa, DespachoAvisa,
     DespachoDevuelveGrado, DespachoEspera

LEMMA NuncaCaeRetorno == ASSUME Inv, NEW p \in Procesos, RetornoCpu(p) PROVE NuncaCae'
<1>1. CpuDevuelve(p)
  BY DEF RetornoCpu, DespachoDesalojo, DespachoFinaliza, DespachoPageFault, DespachoBloquea
<1>2. pcb[p] = "listado"
  BY <1>1, PcbAdmitido DEF CpuDevuelve
<1> QED
  BY <1>1, <1>2 DEF CpuDevuelve, Exige, NuncaCae

LEMMA NuncaCaeHilos == ASSUME Inv, NEW p \in Procesos, Hilos(p) PROVE NuncaCae'
<1>0. NuncaCae /\ Conversa(p)
  BY DEF Inv, Coherente
<1>1. CASE HiloTomaRecurso(p)
  BY <1>1, PcbAdmitido DEF HiloTomaRecurso, Exige, NuncaCae, PcbVivo
<1>2. CASE HiloSueltaConsola(p)
  <2>1. PcbVivo(p)
    BY <1>2, PcbAdmitido DEF HiloSueltaConsola, PcbVivo
  <2>2. pipeline[p] = RespuestaConsola(recurso[p])
    BY <1>0, <1>2 DEF HiloSueltaConsola, Conversa, Uno
  <2> QED
    BY <1>2, <2>1, <2>2 DEF HiloSueltaConsola, Exige, NuncaCae
<1>3. CASE UNCHANGED caido
  BY <1>0, <1>3 DEF NuncaCae
<1> QED
  BY <1>1, <1>2, <1>3 DEF Hilos, HiloPidePagina, HiloRecibePagina, HiloSueltaDispositivo,
     HiloIngresa

LEMMA NuncaCaeRutina == Inv /\ (HiloAvisa \/ RutinaMemoria) => NuncaCae'
<1> SUFFICES ASSUME Inv, HiloAvisa \/ RutinaMemoria PROVE NuncaCae'
  OBVIOUS
<1>0. NuncaCae /\ MonitorMemoria /\ TipoMemoria /\ RegionOcupada \in {0, 1}
  BY Region DEF Inv, TipoInv, TipoBase
<1>1. CASE MemoriaEnvia
  <2>1. RegionOcupada = 1
    BY <1>0, <1>1 DEF MemoriaEnvia, MonitorMemoria, TipoMemoria, Uno
  <2> QED
    BY <1>1, <2>1, GlobalVive DEF MemoriaEnvia, Exige, NuncaCae
<1>2. CASE MemoriaRecibe
  <2>1. RegionOcupada = 1 /\ canalPid = globalPcb
    BY <1>0, <1>2 DEF MemoriaRecibe, MonitorMemoria, TipoMemoria, Uno
  <2> QED
    BY <1>2, <2>1, GlobalVive DEF MemoriaRecibe, Exige, NuncaCae
<1>3. CASE UNCHANGED caido
  BY <1>0, <1>3 DEF NuncaCae
<1> QED
  BY <1>1, <1>2, <1>3 DEF RutinaMemoria, MemoriaAtiende, HiloAvisa

LEMMA NuncaCaePaso == Inv /\ [PasoKernel]_estadoVars => NuncaCae'
<1> SUFFICES ASSUME Inv, [PasoKernel]_estadoVars PROVE NuncaCae'
  OBVIOUS
<1>1. CASE UNCHANGED estadoVars
  BY <1>1 DEF estadoVars, Inv, NuncaCae
<1> QED
  BY <1>1, NuncaCaeConsolas, NuncaCaePlanificador, NuncaCaeDespacho, NuncaCaeRetorno,
     NuncaCaeHilos, NuncaCaeRutina DEF PasoKernel, Paso

-----------------------------------------------------------------------------
(* The PCB, the pipeline and the two threads that share them. *)

(* What the steps of the threads of one process leave alone of another.    *)
IgualDe(q) ==
    /\ consola'[q] = consola[q] /\ pcb'[q] = pcb[q] /\ pipeline'[q] = pipeline[q]
    /\ semConsola'[q] = semConsola[q] /\ semEspera'[q] = semEspera[q]
    /\ hilo'[q] = hilo[q] /\ recurso'[q] = recurso[q]

LEMMA IgualOtro ==
  ASSUME TipoInv, NEW p \in Procesos, NEW q \in Procesos \ {p}
  PROVE  /\ Consolas(p) \/ RetornoCpu(p) \/ Hilos(p) => IgualDe(q)
         /\ UNCHANGED <<consolaVars, hilo, recurso>> => IgualDe(q)
<1> USE DEF IgualDe
<1>0. TipoConsola /\ TipoHilo
  BY DEF TipoInv, TipoBase
<1>1. UNCHANGED <<consolaVars, hilo, recurso>> => IgualDe(q)
  BY DEF consolaVars
<1>2. Consolas(p) => IgualDe(q)
  BY <1>0 DEF Consolas, ConsolaCrea, ConsolaAvisa, ConsolaDespierta, ConsolaRecibe,
     ConsolaPideSalida, ConsolaLibera, ConsolaDestruye, hiloVars, TipoConsola
<1>3. RetornoCpu(p) => IgualDe(q)
  BY <1>0 DEF RetornoCpu, DespachoDesalojo, DespachoFinaliza, DespachoPageFault, DespachoBloquea,
     consolaVars, hiloVars, TipoConsola, TipoHilo
<1>4. Hilos(p) => IgualDe(q)
  BY <1>0 DEF Hilos, HiloPidePagina, HiloRecibePagina, HiloTomaRecurso, HiloSueltaDispositivo,
     HiloSueltaConsola, HiloIngresa, SueltaRecurso, consolaVars, TipoConsola, TipoHilo
<1> QED
  BY <1>1, <1>2, <1>3, <1>4

LEMMA DialogoIgual ==
  ASSUME NEW q, PcbCoherente(q), Conversa(q), IgualDe(q)
  PROVE  PcbCoherente(q)' /\ Conversa(q)'
  BY DEF PcbCoherente, Conversa, UsaConsola, IgualDe

LEMMA DialogoConsolas ==
  ASSUME Inv, NEW p \in Procesos, Consolas(p)
  PROVE  PcbCoherente(p)' /\ Conversa(p)'
<1>0. PcbCoherente(p) /\ Conversa(p) /\ TipoConsola
  BY DEF Inv, Coherente, TipoInv, TipoBase
<1> USE DEF PcbCoherente, UsaConsola
<1>1. CASE ConsolaCrea(p)
  <2>1. hilo[p] = "ninguno" /\ hilo'[p] = "ninguno" /\ pipeline'[p] = "MENSAJE"
    BY <1>0, <1>1, PcbAdmitido DEF ConsolaCrea, hiloVars, TipoConsola
  <2> QED
    BY <1>0, <1>1, <2>1 DEF ConsolaCrea, TipoConsola, Conversa, Uno
<1>2. CASE ConsolaAvisa(p)
  <2>1. consola[p] = "avisa" /\ consola'[p] = "espera"
    BY <1>0, <1>2 DEF ConsolaAvisa, TipoConsola
  <2>2. UNCHANGED <<pcb, pipeline, semConsola, semEspera, hilo, recurso>>
    BY <1>2 DEF ConsolaAvisa, hiloVars
  <2> QED
    BY <1>0, <2>1, <2>2 DEF Conversa, Uno
<1>3. CASE ConsolaDespierta(p)
  <2>1. UNCHANGED <<pcb, pipeline, semEspera, hilo, recurso>>
    BY <1>3 DEF ConsolaDespierta, hiloVars
  <2>2. consola[p] = "espera" /\ semConsola[p] = 1 /\ semConsola'[p] = 0
    BY <1>0, <1>3 DEF ConsolaDespierta, TipoConsola, Conversa, Uno
  <2>3. consola'[p] = IF pipeline[p] = "EXIT" THEN "pide" ELSE "responde"
    BY <1>0, <1>3 DEF ConsolaDespierta, TipoConsola
  <2>4. \/ pipeline[p] = "EXIT"
        \/ UsaConsola(p) /\ pipeline[p] = PedidoConsola(recurso[p])
    BY <1>0, <2>2 DEF Conversa, Uno
  <2>5. CASE pipeline[p] = "EXIT"
    <3>1. ~UsaConsola(p) \/ pipeline[p] # PedidoConsola(recurso[p])
      BY <2>5 DEF PedidoConsola
    <3> QED
      BY <1>0, <2>1, <2>2, <2>3, <2>5, <3>1 DEF Conversa, Uno
  <2>6. CASE pipeline[p] # "EXIT"
    BY <1>0, <2>1, <2>2, <2>3, <2>4, <2>6 DEF Conversa, Uno
  <2> QED
    BY <2>5, <2>6
<1>4. CASE ConsolaRecibe(p)
  <2>1. UNCHANGED <<pcb, semConsola, hilo, recurso>>
    BY <1>4 DEF ConsolaRecibe, hiloVars
  <2>2. consola[p] = "responde" /\ consola'[p] = "espera" /\ semEspera'[p] = semEspera[p] + 1
    BY <1>0, <1>4 DEF ConsolaRecibe, TipoConsola
  <2>3. UsaConsola(p) /\ pipeline[p] = PedidoConsola(recurso[p])
    BY <1>0, <2>2 DEF Conversa
  <2>4. pipeline'[p] = RespuestaConsola(recurso[p])
    BY <1>0, <1>4, <2>3 DEF ConsolaRecibe, TipoConsola, PedidoConsola, RespuestaConsola
  <2>5. semConsola[p] = 0 /\ semEspera[p] = 0
    BY <1>0, <2>2, <2>3 DEF Conversa, Uno, PedidoConsola, RespuestaConsola
  <2> QED
    BY <1>0, <2>1, <2>2, <2>3, <2>4, <2>5 DEF Conversa, Uno, PedidoConsola, RespuestaConsola
<1>5. CASE ConsolaPideSalida(p) \/ ConsolaLibera(p)
  <2>1. UNCHANGED <<pcb, pipeline, semConsola, semEspera, hilo, recurso>>
    BY <1>5 DEF ConsolaPideSalida, ConsolaLibera, hiloVars
  <2>2. /\ consola[p] \in {"pide", "libera"}
        /\ consola'[p] \in {"libera", "destruye"}
    BY <1>0, <1>5 DEF ConsolaPideSalida, ConsolaLibera, TipoConsola
  <2> QED
    BY <1>0, <2>1, <2>2 DEF Conversa, Uno
<1>6. CASE ConsolaDestruye(p)
  <2>1. UNCHANGED <<pipeline, semConsola, semEspera, hilo, recurso>>
    BY <1>6 DEF ConsolaDestruye, hiloVars
  <2>2. /\ consola[p] = "destruye" /\ consola'[p] = "fin"
        /\ pcb'[p] = "liberado"
    BY <1>0, <1>6 DEF ConsolaDestruye, TipoConsola
  <2> QED
    BY <1>0, <2>1, <2>2 DEF Conversa, Uno
<1> QED
  BY <1>1, <1>2, <1>3, <1>4, <1>5, <1>6 DEF Consolas

LEMMA DialogoRetorno ==
  ASSUME Inv, NEW p \in Procesos, RetornoCpu(p)
  PROVE  PcbCoherente(p)' /\ Conversa(p)'
<1>0. PcbCoherente(p) /\ Conversa(p) /\ TipoConsola /\ TipoHilo
  BY DEF Inv, Coherente, TipoInv, TipoBase
<1>1. enExec = p
  BY DEF RetornoCpu, DespachoDesalojo, DespachoFinaliza, DespachoPageFault, DespachoBloquea,
     CpuDevuelve
<1>2. pcb[p] = "listado" /\ pipeline[p] # "EXIT"
  BY <1>1, PcbAdmitido
<1>3. ~UsaConsola(p)
  <2>1. LugarAdmitido(p) /\ Veces(colaRR, p) \in Nat /\ Veces(colaFIFO, p) \in Nat
    BY VecesReady DEF Inv, Coherente
  <2>2. hilo[p] = "ninguno"
    BY <1>1, <1>2, <2>1 DEF LugarAdmitido, Uno
  <2> QED
    BY <2>2 DEF UsaConsola
<1>4. /\ consola[p] \in {"avisa", "espera"}
      /\ semConsola[p] = 0 /\ semEspera[p] = 0
  BY <1>0, <1>2, <1>3 DEF PcbCoherente, Conversa, Uno, TipoConsola, PasosConsola
<1>5. CASE DespachoDesalojo(p)
  BY <1>0, <1>5, DialogoIgual DEF DespachoDesalojo, IgualDe, consolaVars, hiloVars
<1>6. CASE DespachoFinaliza(p)
  <2>1. /\ UNCHANGED <<consola, pcb, semEspera, hilo, recurso>>
        /\ pipeline'[p] = "EXIT" /\ semConsola'[p] = 1
    BY <1>0, <1>4, <1>6 DEF DespachoFinaliza, TipoConsola, hiloVars
  <2> QED
    BY <1>0, <1>2, <1>3, <1>4, <2>1 DEF PcbCoherente, Conversa, UsaConsola, Uno
<1>7. CASE DespachoPageFault(p) \/ \E r \in Solicitudes : DespachoBloquea(p, r)
  <2>1. UNCHANGED consolaVars /\ hilo'[p] \in {"pidePagina", "pideRecurso"}
    BY <1>0, <1>7 DEF DespachoPageFault, DespachoBloquea, TipoHilo
  <2> QED
    BY <1>0, <1>3, <2>1 DEF PcbCoherente, Conversa, UsaConsola, Uno, consolaVars
<1> QED
  BY <1>5, <1>6, <1>7 DEF RetornoCpu

(* A process that a thread has is in no other place. *)
LEMMA SoloHilo ==
  ASSUME Inv, NEW p \in Procesos, hilo[p] # "ninguno"
  PROVE  /\ enExec # p /\ ~(planPcb = p /\ plan = "ingresa")
         /\ Veces(colaRR, p) = 0 /\ Veces(colaFIFO, p) = 0
         /\ pcb[p] = "listado" /\ pipeline[p] # "EXIT"
<1>1. LugarAdmitido(p) /\ Veces(colaRR, p) \in Nat /\ Veces(colaFIFO, p) \in Nat
  BY VecesReady DEF Inv, Coherente
<1>2. pcb[p] = "listado" /\ pipeline[p] # "EXIT"
  BY PcbAdmitido
<1> QED
  BY <1>1, <1>2 DEF LugarAdmitido, Uno

LEMMA DialogoHilos ==
  ASSUME Inv, NEW p \in Procesos, Hilos(p)
  PROVE  PcbCoherente(p)' /\ Conversa(p)'
<1>0. PcbCoherente(p) /\ Conversa(p) /\ TipoConsola /\ TipoHilo
  BY DEF Inv, Coherente, TipoInv, TipoBase
<1>1. hilo[p] # "ninguno"
  BY DEF Hilos, HiloPidePagina, HiloRecibePagina, HiloTomaRecurso, HiloSueltaDispositivo,
     HiloSueltaConsola, HiloIngresa
<1>2. pcb[p] = "listado" /\ pipeline[p] # "EXIT"
  BY <1>1, SoloHilo
<1>3. CASE HiloPidePagina(p) \/ HiloRecibePagina(p) \/ HiloIngresa(p)
  <2>1. /\ UNCHANGED <<consolaVars, recurso>>
        /\ hilo[p] \in {"pidePagina", "esperaPagina", "ingresa"}
        /\ hilo'[p] \in {"esperaPagina", "ingresa", "ninguno"}
    BY <1>0, <1>3 DEF HiloPidePagina, HiloRecibePagina, HiloIngresa, TipoHilo
  <2>2. ~UsaConsola(p) /\ ~UsaConsola(p)'
    BY <2>1 DEF UsaConsola
  <2> QED
    BY <1>0, <2>1, <2>2 DEF PcbCoherente, Conversa, Uno, consolaVars
<1>4. CASE HiloTomaRecurso(p)
  <2>1. ~UsaConsola(p) /\ recurso[p] \in Recursos
    BY <1>0, <1>4 DEF HiloTomaRecurso, UsaConsola, PcbCoherente
  <2>2. consola[p] # "responde" /\ semConsola[p] = 0 /\ semEspera[p] = 0
    BY <1>0, <1>2, <2>1 DEF Conversa, Uno
  <2>3. UNCHANGED <<consola, pcb, semEspera, recurso>> /\ hilo'[p] = "usaRecurso"
    BY <1>0, <1>4 DEF HiloTomaRecurso, TipoHilo
  <2>4. CASE recurso[p] \in Dispositivos
    <3>1. UNCHANGED <<pipeline, semConsola>> /\ ~UsaConsola(p)'
      BY <1>4, <2>3, <2>4 DEF HiloTomaRecurso, UsaConsola
    <3> QED
      BY <1>0, <1>2, <2>1, <2>2, <2>3, <3>1 DEF PcbCoherente, Conversa, Uno
  <2>5. CASE recurso[p] \notin Dispositivos
    <3>1. /\ pipeline'[p] = PedidoConsola(recurso[p]) /\ semConsola'[p] = 1
          /\ UsaConsola(p)'
      BY <1>0, <1>4, <2>2, <2>3, <2>5 DEF HiloTomaRecurso, UsaConsola, TipoConsola
    <3>2. pipeline'[p] # RespuestaConsola(recurso[p]) /\ pipeline'[p] # "EXIT"
      BY <3>1 DEF PedidoConsola, RespuestaConsola
    <3>3. PcbCoherente(p)'
      BY <1>0, <1>2, <2>1, <2>3, <3>2 DEF PcbCoherente
    <3> QED
      BY <2>2, <2>3, <3>1, <3>2, <3>3 DEF Conversa, Uno
  <2> QED
    BY <2>4, <2>5
<1>5. CASE HiloSueltaDispositivo(p)
  <2>1. UNCHANGED consolaVars /\ hilo'[p] = "ingresa" /\ ~UsaConsola(p)
    BY <1>0, <1>5 DEF HiloSueltaDispositivo, SueltaRecurso, TipoHilo, UsaConsola
  <2>2. ~UsaConsola(p)'
    BY <2>1 DEF UsaConsola
  <2> QED
    BY <1>0, <2>1, <2>2 DEF PcbCoherente, Conversa, Uno, consolaVars
<1>6. CASE HiloSueltaConsola(p)
  <2>1. /\ UNCHANGED <<consola, pcb, pipeline, semConsola>> /\ hilo'[p] = "ingresa"
        /\ UsaConsola(p) /\ semEspera[p] > 0 /\ semEspera'[p] = semEspera[p] - 1
    BY <1>0, <1>6 DEF HiloSueltaConsola, SueltaRecurso, TipoHilo, TipoConsola, UsaConsola
  <2>2. semEspera[p] = 1 /\ pipeline[p] = RespuestaConsola(recurso[p])
    BY <1>0, <2>1 DEF Conversa, Uno
  <2>3. pipeline[p] # PedidoConsola(recurso[p]) /\ pipeline[p] # "EXIT"
    BY <2>2 DEF PedidoConsola, RespuestaConsola
  <2>4. consola[p] # "responde" /\ semConsola[p] = 0 /\ ~UsaConsola(p)'
    BY <1>0, <2>1, <2>3 DEF Conversa, Uno, UsaConsola
  <2> QED
    BY <1>0, <2>1, <2>2, <2>3, <2>4 DEF PcbCoherente, Conversa, Uno
<1> QED
  BY <1>3, <1>4, <1>5, <1>6 DEF Hilos

LEMMA DialogoPlanificador ==
  ASSUME Inv, Planificador, NEW q \in Procesos
  PROVE  PcbCoherente(q)' /\ Conversa(q)'
<1>0. PcbCoherente(q) /\ Conversa(q) /\ TipoInv
  BY DEF Inv, Coherente
<1>1. CASE PlanAgrega
  <2>1. planPcb = q => pcb[q] = "creado" /\ pipeline[q] # "EXIT"
    BY <1>1, PcbPrevio DEF PlanAgrega
  <2>2. /\ UNCHANGED <<consola, pipeline, semConsola, semEspera, hilo, recurso>>
        /\ pcb'[q] = IF planPcb = q THEN "listado" ELSE pcb[q]
    BY <1>0, <1>1 DEF PlanAgrega, hiloVars, TipoInv, TipoBase, TipoConsola
  <2>3. PcbCoherente(q)'
    BY <1>0, <2>1, <2>2 DEF PcbCoherente
  <2>4. Conversa(q)'
    BY <1>0, <2>2 DEF Conversa, UsaConsola
  <2> QED
    BY <2>3, <2>4
<1>2. CASE UNCHANGED <<consolaVars, hilo, recurso>>
  BY <1>0, <1>2, DialogoIgual DEF IgualDe, consolaVars
<1> QED
  BY <1>1, <1>2 DEF Planificador, PlanEsperaNew, PlanEsperaGrado, PlanSaca, PlanPideMemoria,
     PlanRecibeMemoria, PlanIngresa, PlanRegistra, PlanAvisa, hiloVars

LEMMA DialogoPaso ==
  ASSUME Inv, [PasoKernel]_estadoVars, NEW q \in Procesos
  PROVE  PcbCoherente(q)' /\ Conversa(q)'
<1>0. PcbCoherente(q) /\ Conversa(q) /\ TipoInv
  BY DEF Inv, Coherente
<1>1. ASSUME NEW p \in Procesos, Consolas(p) \/ RetornoCpu(p) \/ Hilos(p)
      PROVE  PcbCoherente(q)' /\ Conversa(q)'
  <2>1. CASE p = q
    BY <1>1, <2>1, DialogoConsolas, DialogoRetorno, DialogoHilos
  <2>2. CASE p # q
    BY <1>0, <1>1, <2>2, IgualOtro, DialogoIgual
  <2> QED
    BY <2>1, <2>2
<1>2. CASE UNCHANGED <<consolaVars, hilo, recurso>>
  BY <1>0, <1>2, DialogoIgual DEF IgualDe, consolaVars
<1>3. Despacho \/ HiloAvisa \/ RutinaMemoria \/ UNCHANGED estadoVars
        => UNCHANGED <<consolaVars, hilo, recurso>>
  BY DEF Despacho, DespachoInicia, DespachoIngresa, DespachoAvisa, DespachoDevuelveGrado,
     DespachoEspera, DespachoObtiene, HiloAvisa, RutinaMemoria, MemoriaEnvia, MemoriaAtiende,
     MemoriaRecibe, hiloVars, estadoVars
<1> QED
  BY <1>1, <1>2, <1>3, DialogoPlanificador DEF PasoKernel, Paso
-----------------------------------------------------------------------------
(* Where each process is. *)

LEMMA PrevioPaso ==
  ASSUME Inv, [PasoKernel]_estadoVars, NEW q \in Procesos
  PROVE  LugarPrevio(q)'
<1>0. LugarPrevio(q) /\ PcbCoherente(q) /\ TipoInv /\ TipoConsola /\ TipoPlan
  BY DEF Inv, Coherente, TipoInv, TipoBase
<1>n. Veces(colaNew, q) \in Nat
  BY <1>0, VecesReady
<1>a. ASSUME UNCHANGED <<colaNew, planPcb, plan>>, pcb'[q] = pcb[q]
      PROVE  LugarPrevio(q)'
  BY <1>0, <1>a DEF LugarPrevio
<1>1. ASSUME NEW p \in Procesos, Consolas(p) PROVE LugarPrevio(q)'
  <2>1. CASE ConsolaCrea(p) /\ p = q
    <3>1. pcb[q] = "nada" /\ pcb'[q] = "creado" /\ UNCHANGED <<plan, planPcb>>
      BY <1>0, <2>1 DEF ConsolaCrea, PcbCoherente, TipoConsola
    <3>2. Veces(colaNew', q) = Veces(colaNew, q) + 1
      BY <1>0, <2>1, VecesAgregar DEF ConsolaCrea, TipoPlan, Uno
    <3> QED
      BY <1>0, <1>n, <3>1, <3>2 DEF LugarPrevio, Uno
  <2>2. CASE ConsolaCrea(p) /\ p # q
    <3>1. pcb'[q] = pcb[q] /\ UNCHANGED <<plan, planPcb>>
      BY <1>0, <2>2 DEF ConsolaCrea, TipoConsola
    <3>2. Veces(colaNew', q) = Veces(colaNew, q)
      BY <1>0, <1>n, <2>2, VecesAgregar DEF ConsolaCrea, TipoPlan, Uno
    <3> QED
      BY <1>0, <3>1, <3>2 DEF LugarPrevio
  <2>3. CASE ConsolaDestruye(p) /\ p = q
    <3>1. pcb[q] # "creado" /\ pcb'[q] # "creado" /\ UNCHANGED <<colaNew, plan, planPcb>>
      BY <1>0, <2>3 DEF ConsolaDestruye, PcbCoherente, TipoConsola, planVars
    <3> QED
      BY <1>0, <3>1 DEF LugarPrevio, Uno
  <2>4. CASE ConsolaDestruye(p) /\ p # q
    BY <1>0, <1>a, <2>4 DEF ConsolaDestruye, TipoConsola, planVars
  <2>5. CASE UNCHANGED <<colaNew, planPcb, plan, pcb>>
    BY <1>a, <2>5
  <2> QED
    BY <1>1, <2>1, <2>2, <2>3, <2>4, <2>5 DEF Consolas, ConsolaAvisa, ConsolaDespierta,
       ConsolaRecibe, ConsolaPideSalida, ConsolaLibera, planVars
<1>2. ASSUME Planificador PROVE LugarPrevio(q)'
  <2>1. CASE PlanSaca
    <3>1. colaNew # <<>> /\ planPcb' = Head(colaNew) /\ colaNew' = Tail(colaNew)
          /\ plan = "saca" /\ plan' = "pide" /\ UNCHANGED pcb
      BY <2>1, NuncaCaePaso DEF PlanSaca, Exige, NuncaCae, consolaVars
    <3>2. Veces(colaNew, q) = Veces(colaNew', q) + Uno(planPcb' = q)
      BY <1>0, <3>1, VecesSacar DEF TipoPlan
    <3>3. Uno(planPcb = q /\ plan \in {"pide", "espera", "agrega"}) = 0
      BY <3>1 DEF Uno
    <3>4. Uno(planPcb' = q /\ plan' \in {"pide", "espera", "agrega"}) = Uno(planPcb' = q)
      BY <3>1 DEF Uno
    <3>5. Uno(planPcb' = q) \in {0, 1} /\ Veces(colaNew', q) \in Nat
      BY <1>0, <3>1, SacarDeCola, VecesTipo, UnoTipo DEF TipoPlan
    <3> QED
      BY <1>0, <3>1, <3>2, <3>3, <3>4, <3>5 DEF LugarPrevio
  <2>2. CASE PlanPideMemoria \/ PlanRecibeMemoria
    <3>1. UNCHANGED <<colaNew, planPcb, pcb>> /\ plan \in {"pide", "espera", "agrega"}
          /\ plan' \in {"pide", "espera", "agrega"}
      BY <2>2 DEF PlanPideMemoria, PlanRecibeMemoria, consolaVars
    <3> QED
      BY <1>0, <3>1 DEF LugarPrevio
  <2>3. CASE PlanAgrega
    <3>1. /\ UNCHANGED <<colaNew, planPcb>> /\ plan = "agrega" /\ plan' = "ingresa"
          /\ pcb'[q] = IF planPcb = q THEN "listado" ELSE pcb[q]
      BY <1>0, <2>3 DEF PlanAgrega, TipoConsola
    <3>2. planPcb = q => Veces(colaNew, q) = 0
      BY <1>0, <1>n, <3>1 DEF LugarPrevio, Uno
    <3> QED
      BY <1>0, <1>n, <3>1, <3>2 DEF LugarPrevio, Uno
  <2>4. CASE PlanEsperaNew \/ PlanEsperaGrado \/ PlanIngresa \/ PlanRegistra \/ PlanAvisa
    <3>1. UNCHANGED <<colaNew, pcb>> /\ plan \notin {"pide", "espera", "agrega"}
          /\ plan' \notin {"pide", "espera", "agrega"}
      BY <2>4 DEF PlanEsperaNew, PlanEsperaGrado, PlanIngresa, PlanRegistra, PlanAvisa, consolaVars
    <3> QED
      BY <1>0, <3>1 DEF LugarPrevio, Uno
  <2> QED
    BY <1>2, <2>1, <2>2, <2>3, <2>4 DEF Planificador
<1>3. ASSUME Despacho \/ HiloAvisa \/ RutinaMemoria \/ UNCHANGED estadoVars PROVE LugarPrevio(q)'
  BY <1>3, <1>a DEF Despacho, DespachoInicia, DespachoIngresa, DespachoAvisa,
     DespachoDevuelveGrado, DespachoEspera, DespachoObtiene, HiloAvisa, RutinaMemoria,
     MemoriaEnvia, MemoriaAtiende, MemoriaRecibe, consolaVars, planVars, estadoVars
<1>4. ASSUME NEW p \in Procesos, RetornoCpu(p) \/ Hilos(p) PROVE LugarPrevio(q)'
  BY <1>4, <1>a DEF RetornoCpu, DespachoDesalojo, DespachoFinaliza, DespachoPageFault,
     DespachoBloquea, Hilos, HiloPidePagina, HiloRecibePagina, HiloTomaRecurso,
     HiloSueltaDispositivo, HiloSueltaConsola, HiloIngresa, consolaVars, planVars
<1> QED
  BY <1>1, <1>2, <1>3, <1>4 DEF PasoKernel, Paso

(* The places of q, once admitted, add up to the same after a step that    *)
(* changes neither them nor whether it is admitted.                        *)
LEMMA AdmitidoIgual ==
  ASSUME NEW q \in Procesos, LugarAdmitido(q),
         UNCHANGED <<planPcb, colaRR, colaFIFO, enExec>>,
         plan' = "ingresa" <=> plan = "ingresa", hilo'[q] # "ninguno" <=> hilo[q] # "ninguno",
         (pcb'[q] = "listado" /\ pipeline'[q] # "EXIT") <=> (pcb[q] = "listado" /\ pipeline[q] # "EXIT")
  PROVE  LugarAdmitido(q)'
  BY DEF LugarAdmitido, Uno

LEMMA AdmitidoConsolas ==
  ASSUME Inv, NEW p \in Procesos, Consolas(p), NEW q \in Procesos
  PROVE  LugarAdmitido(q)'
<1>0. LugarAdmitido(q) /\ PcbCoherente(p) /\ Conversa(p) /\ TipoConsola
  BY DEF Inv, Coherente, TipoInv, TipoBase
<1>1. UNCHANGED <<planPcb, plan, colaRR, colaFIFO, enExec, hilo>>
  BY DEF Consolas, ConsolaCrea, ConsolaAvisa, ConsolaDespierta, ConsolaRecibe, ConsolaPideSalida,
     ConsolaLibera, ConsolaDestruye, planVars, readyVars, despVars, hiloVars
<1>2. (pcb'[q] = "listado" /\ pipeline'[q] # "EXIT") <=> (pcb[q] = "listado" /\ pipeline[q] # "EXIT")
  <2>1. CASE ConsolaCrea(p)
    BY <1>0, <2>1 DEF ConsolaCrea, PcbCoherente, TipoConsola
  <2>2. CASE ConsolaRecibe(p)
    <3>1. pipeline[p] # "EXIT"
      BY <1>0, <2>2 DEF ConsolaRecibe, Conversa, PedidoConsola
    <3> QED
      BY <1>0, <2>2, <3>1 DEF ConsolaRecibe, TipoConsola
  <2>3. CASE ConsolaDestruye(p)
    BY <1>0, <2>3 DEF ConsolaDestruye, PcbCoherente, TipoConsola
  <2>4. CASE UNCHANGED <<pcb, pipeline>>
    BY <2>4
  <2> QED
    BY <2>1, <2>2, <2>3, <2>4 DEF Consolas, ConsolaAvisa, ConsolaDespierta, ConsolaPideSalida,
       ConsolaLibera
<1> QED
  BY <1>0, <1>1, <1>2, AdmitidoIgual

LEMMA AdmitidoPlanificador ==
  ASSUME Inv, Planificador, NEW q \in Procesos
  PROVE  LugarAdmitido(q)'
<1>0. LugarAdmitido(q) /\ PcbCoherente(q) /\ TipoInv /\ TipoReady /\ TipoConsola /\ TipoPlan
  BY DEF Inv, Coherente, TipoInv, TipoBase
<1>n. Veces(colaRR, q) \in Nat /\ Veces(colaFIFO, q) \in Nat
  BY <1>0, VecesReady
<1>1. CASE PlanAgrega
  <2>1. /\ UNCHANGED <<planPcb, colaRR, colaFIFO, enExec, hilo, pipeline>>
        /\ plan = "agrega" /\ plan' = "ingresa"
        /\ pcb'[q] = IF planPcb = q THEN "listado" ELSE pcb[q]
    BY <1>0, <1>1 DEF PlanAgrega, readyVars, despVars, hiloVars, TipoConsola
  <2>2. CASE planPcb = q
    <3>1. pcb[q] = "creado" /\ pipeline[q] # "EXIT"
      BY <2>1, <2>2, PcbPrevio
    <3> QED
      BY <1>0, <1>n, <2>1, <2>2, <3>1 DEF LugarAdmitido, Uno
  <2>3. CASE planPcb # q
    BY <1>0, <1>n, <2>1, <2>3 DEF LugarAdmitido, Uno
  <2> QED
    BY <2>2, <2>3
<1>2. CASE PlanIngresa
  <2>1. /\ UNCHANGED <<planPcb, enExec, hilo, pipeline, pcb>>
        /\ plan = "ingresa" /\ plan' = "registra" /\ planPcb \in Procesos
        /\ IngresarAReady(planPcb, "NUEVO_PROCESO")
    BY <1>0, <1>2 DEF PlanIngresa, consolaVars, despVars, hiloVars, TipoInv, EnManos, Inv,
       NuncaCae, PasosPlan
  <2>2. /\ Veces(colaRR', q) \in Nat /\ Veces(colaFIFO', q) \in Nat
        /\ Veces(colaRR', q) + Veces(colaFIFO', q)
             = Veces(colaRR, q) + Veces(colaFIFO, q) + Uno(q = planPcb)
    BY <1>0, <2>1, IngresarVeces
  <2>3. Uno(planPcb = q /\ plan = "ingresa") = Uno(q = planPcb)
        /\ Uno(planPcb' = q /\ plan' = "ingresa") = 0
    BY <2>1 DEF Uno
  <2>4. /\ Uno(enExec' = q) = Uno(enExec = q)
        /\ Uno(hilo'[q] # "ninguno") = Uno(hilo[q] # "ninguno")
        /\ Uno(pcb'[q] = "listado" /\ pipeline'[q] # "EXIT")
             = Uno(pcb[q] = "listado" /\ pipeline[q] # "EXIT")
    BY <2>1
  <2> QED
    BY <1>0, <1>n, <2>2, <2>3, <2>4, UnoTipo DEF LugarAdmitido
<1>3. CASE PlanSaca \/ PlanAvisa
  <2>1. /\ UNCHANGED <<colaRR, colaFIFO, enExec, hilo, pipeline, pcb>>
        /\ plan # "ingresa" /\ plan' # "ingresa"
    BY <1>3 DEF PlanSaca, PlanAvisa, consolaVars, readyVars, despVars, hiloVars
  <2> QED
    BY <1>0, <2>1 DEF LugarAdmitido, Uno
<1>4. CASE PlanEsperaNew \/ PlanEsperaGrado \/ PlanPideMemoria \/ PlanRecibeMemoria \/ PlanRegistra
  <2>1. /\ UNCHANGED <<planPcb, colaRR, colaFIFO, enExec, hilo, pipeline, pcb>>
        /\ plan # "ingresa" /\ plan' # "ingresa"
    BY <1>4 DEF PlanEsperaNew, PlanEsperaGrado, PlanPideMemoria, PlanRecibeMemoria, PlanRegistra,
       consolaVars, readyVars, despVars, hiloVars
  <2> QED
    BY <1>0, <2>1, AdmitidoIgual
<1> QED
  BY <1>1, <1>2, <1>3, <1>4 DEF Planificador

LEMMA AdmitidoDespacho ==
  ASSUME Inv, Despacho, NEW q \in Procesos
  PROVE  LugarAdmitido(q)'
<1>0. LugarAdmitido(q) /\ TipoInv /\ TipoReady
  BY DEF Inv, Coherente, TipoInv, TipoBase
<1>n. Veces(colaRR, q) \in Nat /\ Veces(colaFIFO, q) \in Nat
  BY <1>0, VecesReady
<1> DEFINE igual == /\ UNCHANGED <<planPcb, plan, hilo>>
                    /\ pcb'[q] = pcb[q] /\ pipeline'[q] = pipeline[q]
<1>1. CASE DespachoIngresa
  <2>1. enExec \in Procesos /\ enExec' = Nulo /\ IngresarAReady(enExec, "DESALOJO_PROCESO") /\ igual
    BY <1>0, <1>1 DEF DespachoIngresa, TipoInv, EnManos, Inv, NuncaCae, consolaVars, planVars,
       hiloVars
  <2>2. Uno(enExec = q) = Uno(q = enExec) /\ Uno(enExec' = q) = 0
    BY <2>1, SupuestosKernel DEF Uno, SupuestosKernel
  <2>3. /\ Veces(colaRR', q) \in Nat /\ Veces(colaFIFO', q) \in Nat
        /\ Veces(colaRR', q) + Veces(colaFIFO', q)
             = Veces(colaRR, q) + Veces(colaFIFO, q) + Uno(q = enExec)
    BY <1>0, <2>1, IngresarVeces
  <2> QED
    BY <1>0, <1>n, <2>1, <2>2, <2>3, UnoTipo DEF LugarAdmitido
<1>2. CASE DespachoObtiene
  <2>1. enExec = Nulo /\ igual
    BY <1>0, <1>2 DEF DespachoObtiene, Inv, consolaVars, planVars, hiloVars
  <2>2. Uno(enExec = q) = 0
    BY <2>1, SupuestosKernel DEF Uno, SupuestosKernel
  <2>3. /\ Veces(colaRR', q) \in Nat /\ Veces(colaFIFO', q) \in Nat
        /\ Veces(colaRR, q) + Veces(colaFIFO, q)
             = Veces(colaRR', q) + Veces(colaFIFO', q) + Uno(enExec' = q)
    BY <1>0, <1>2, ObtenerVeces DEF Inv
  <2> QED
    BY <1>0, <1>n, <2>1, <2>2, <2>3, UnoTipo DEF LugarAdmitido
<1>3. CASE UNCHANGED <<consolaVars, planVars, colaRR, colaFIFO, enExec, hiloVars>>
  BY <1>0, <1>3, AdmitidoIgual DEF consolaVars, planVars, hiloVars
<1>4. CASE DespachoDevuelveGrado
  BY <1>0, <1>4, AdmitidoIgual DEF DespachoDevuelveGrado, consolaVars, readyVars, hiloVars
<1> QED
  BY <1>1, <1>2, <1>3, <1>4 DEF Despacho, DespachoInicia, DespachoAvisa, DespachoEspera, readyVars

LEMMA AdmitidoRetorno ==
  ASSUME Inv, NEW p \in Procesos, RetornoCpu(p), NEW q \in Procesos
  PROVE  LugarAdmitido(q)'
<1>0. LugarAdmitido(q) /\ LugarAdmitido(p) /\ TipoInv /\ TipoConsola /\ TipoHilo
  BY DEF Inv, Coherente, TipoInv, TipoBase
<1>n. /\ Veces(colaRR, q) \in Nat /\ Veces(colaFIFO, q) \in Nat
      /\ Veces(colaRR, p) \in Nat /\ Veces(colaFIFO, p) \in Nat
  BY <1>0, VecesReady
<1>1. enExec = p /\ UNCHANGED <<planPcb, plan, colaRR, colaFIFO, pcb>>
  BY DEF RetornoCpu, DespachoDesalojo, DespachoFinaliza, DespachoPageFault, DespachoBloquea,
     CpuDevuelve, consolaVars, planVars, readyVars
<1>2. pcb[p] = "listado" /\ pipeline[p] # "EXIT"
  BY <1>1, PcbAdmitido
<1>3. hilo[p] = "ninguno" /\ ~(planPcb = p /\ plan = "ingresa")
      /\ Veces(colaRR, p) = 0 /\ Veces(colaFIFO, p) = 0
  <2> DEFINE enPlan == Uno(planPcb = p /\ plan = "ingresa")
             enHilo == Uno(hilo[p] # "ninguno")
  <2>1. Uno(enExec = p) = 1 /\ Uno(pcb[p] = "listado" /\ pipeline[p] # "EXIT") = 1
    BY <1>1, <1>2 DEF Uno
  <2>2. enPlan + Veces(colaRR, p) + Veces(colaFIFO, p) + 1 + enHilo = 1
    BY <1>0, <2>1 DEF LugarAdmitido
  <2>3. enPlan \in {0, 1} /\ enHilo \in {0, 1}
    BY UnoTipo
  <2>4. enPlan = 0 /\ enHilo = 0 /\ Veces(colaRR, p) = 0 /\ Veces(colaFIFO, p) = 0
    BY <1>n, <2>2, <2>3
  <2> QED
    BY <2>4 DEF Uno
<1>4. Nulo # q /\ Nulo # p
  BY SupuestosKernel DEF SupuestosKernel
<1>5. CASE DespachoDesalojo(p)
  BY <1>0, <1>1, <1>5, AdmitidoIgual DEF DespachoDesalojo, consolaVars, hiloVars
<1>6. CASE DespachoFinaliza(p)
  <2>1. /\ enExec' = Nulo /\ UNCHANGED hilo
        /\ pipeline'[q] = IF p = q THEN "EXIT" ELSE pipeline[q]
    BY <1>0, <1>6 DEF DespachoFinaliza, TipoConsola, hiloVars
  <2>2. CASE p = q
    <3>1. /\ Uno(pcb'[q] = "listado" /\ pipeline'[q] # "EXIT") = 0 /\ Uno(enExec' = q) = 0
          /\ Uno(hilo'[q] # "ninguno") = 0 /\ Uno(planPcb' = q /\ plan' = "ingresa") = 0
      BY <1>1, <1>3, <1>4, <2>1, <2>2 DEF Uno
    <3>2. Veces(colaRR', q) = 0 /\ Veces(colaFIFO', q) = 0
      BY <1>1, <1>3, <2>2
    <3> QED
      BY <3>1, <3>2 DEF LugarAdmitido
  <2>3. CASE p # q
    BY <1>0, <1>1, <1>4, <2>1, <2>3 DEF LugarAdmitido, Uno
  <2> QED
    BY <2>2, <2>3
<1>7. CASE DespachoPageFault(p) \/ \E r \in Solicitudes : DespachoBloquea(p, r)
  <2>1. /\ enExec' = Nulo /\ UNCHANGED <<pipeline>>
        /\ hilo'[p] # "ninguno" /\ (p # q => hilo'[q] = hilo[q])
    BY <1>0, <1>7 DEF DespachoPageFault, DespachoBloquea, TipoHilo, consolaVars
  <2>2. CASE p = q
    <3>1. /\ Uno(enExec' = q) = 0 /\ Uno(hilo'[q] # "ninguno") = 1
          /\ Uno(enExec = q) = 1 /\ Uno(hilo[q] # "ninguno") = 0
      BY <1>1, <1>3, <1>4, <2>1, <2>2 DEF Uno
    <3> QED
      BY <1>0, <1>n, <1>1, <2>1, <3>1, UnoTipo DEF LugarAdmitido
  <2>3. CASE p # q
    BY <1>0, <1>1, <1>4, <2>1, <2>3 DEF LugarAdmitido, Uno
  <2> QED
    BY <2>2, <2>3
<1> QED
  BY <1>5, <1>6, <1>7 DEF RetornoCpu

LEMMA AdmitidoHilos ==
  ASSUME Inv, NEW p \in Procesos, Hilos(p), NEW q \in Procesos
  PROVE  LugarAdmitido(q)'
<1>0. LugarAdmitido(q) /\ TipoInv /\ TipoConsola /\ TipoReady /\ TipoHilo
  BY DEF Inv, Coherente, TipoInv, TipoBase
<1>1. hilo[p] # "ninguno" /\ UNCHANGED <<planPcb, plan, pcb, enExec>>
  BY DEF Hilos, HiloPidePagina, HiloRecibePagina, HiloTomaRecurso, HiloSueltaDispositivo,
     HiloSueltaConsola, HiloIngresa, consolaVars, planVars, despVars
<1>2. pcb[p] = "listado" /\ pipeline[p] # "EXIT"
  BY <1>1, SoloHilo
<1>3. CASE HiloIngresa(p)
  <2>1. /\ UNCHANGED pipeline /\ IngresarAReady(p, "BLOQUEO_PROCESO")
        /\ hilo'[q] = IF p = q THEN "ninguno" ELSE hilo[q]
    BY <1>0, <1>3 DEF HiloIngresa, consolaVars, TipoHilo
  <2>2. /\ Veces(colaRR, q) \in Nat /\ Veces(colaFIFO, q) \in Nat
        /\ Veces(colaRR', q) \in Nat /\ Veces(colaFIFO', q) \in Nat
        /\ Veces(colaRR', q) + Veces(colaFIFO', q)
             = Veces(colaRR, q) + Veces(colaFIFO, q) + Uno(q = p)
    BY <1>0, <2>1, IngresarVeces
  <2>3. Uno(hilo[q] # "ninguno") = Uno(hilo'[q] # "ninguno") + Uno(q = p)
    BY <1>1, <2>1 DEF Uno
  <2>4. /\ Uno(enExec' = q) = Uno(enExec = q)
        /\ Uno(planPcb' = q /\ plan' = "ingresa") = Uno(planPcb = q /\ plan = "ingresa")
        /\ Uno(pcb'[q] = "listado" /\ pipeline'[q] # "EXIT")
             = Uno(pcb[q] = "listado" /\ pipeline[q] # "EXIT")
    BY <1>1, <2>1
  <2>5. /\ Uno(planPcb = q /\ plan = "ingresa") \in {0, 1} /\ Uno(enExec = q) \in {0, 1}
        /\ Uno(hilo'[q] # "ninguno") \in {0, 1} /\ Uno(q = p) \in {0, 1}
    BY DEF Uno
  <2> QED
    BY <1>0, <2>2, <2>3, <2>4, <2>5 DEF LugarAdmitido
<1>4. CASE HiloPidePagina(p) \/ HiloRecibePagina(p) \/ HiloTomaRecurso(p)
             \/ HiloSueltaDispositivo(p) \/ HiloSueltaConsola(p)
  <2>1. UNCHANGED <<colaRR, colaFIFO>> /\ hilo'[p] # "ninguno" /\ (p # q => hilo'[q] = hilo[q])
    BY <1>0, <1>4 DEF HiloPidePagina, HiloRecibePagina, HiloTomaRecurso, HiloSueltaDispositivo,
       HiloSueltaConsola, SueltaRecurso, readyVars, TipoHilo
  <2>2. pipeline'[p] # "EXIT" /\ (p # q => pipeline'[q] = pipeline[q])
    BY <1>0, <1>2, <1>4 DEF HiloPidePagina, HiloRecibePagina, HiloTomaRecurso,
       HiloSueltaDispositivo, HiloSueltaConsola, consolaVars, TipoConsola, PedidoConsola
  <2> QED
    BY <1>0, <1>1, <1>2, <2>1, <2>2, AdmitidoIgual
<1> QED
  BY <1>3, <1>4 DEF Hilos

LEMMA AdmitidoPaso ==
  ASSUME Inv, [PasoKernel]_estadoVars, NEW q \in Procesos
  PROVE  LugarAdmitido(q)'
<1>0. LugarAdmitido(q)
  BY DEF Inv, Coherente
<1>1. CASE HiloAvisa \/ RutinaMemoria \/ UNCHANGED estadoVars
  <2>1. UNCHANGED <<planPcb, plan, colaRR, colaFIFO, enExec, hilo, pcb, pipeline>>
    BY <1>1 DEF HiloAvisa, RutinaMemoria, MemoriaEnvia, MemoriaAtiende, MemoriaRecibe,
       consolaVars, planVars, readyVars, despVars, hiloVars, estadoVars
  <2> QED
    BY <1>0, <2>1, AdmitidoIgual
<1> QED
  BY <1>1, AdmitidoConsolas, AdmitidoPlanificador, AdmitidoDespacho, AdmitidoRetorno,
     AdmitidoHilos DEF PasoKernel, Paso

-----------------------------------------------------------------------------
(* What the semaphores count. *)

(* Two sets that differ in one process at most. *)
LEMMA ConteoCambia ==
  ASSUME NEW S, NEW T, S \subseteq Procesos, T \subseteq Procesos, NEW p \in Procesos,
         \A q \in Procesos \ {p} : q \in S <=> q \in T
  PROVE  /\ Cardinality(S) \in Nat /\ Cardinality(T) \in Nat
         /\ Cardinality(T) + Uno(p \in S) = Cardinality(S) + Uno(p \in T)
<1>1. Cardinality(S) \in Nat /\ Cardinality(T) \in Nat
  BY Conteo
<1>2. CASE p \in S /\ p \notin T
  <2>1. T = S \ {p}
    BY <1>2
  <2>2. Cardinality(S \ {p}) = Cardinality(S) - 1
    BY <1>2, Conteo
  <2> QED
    BY <1>1, <1>2, <2>1, <2>2 DEF Uno
<1>3. CASE p \notin S /\ p \in T
  <2>1. T = S \cup {p}
    BY <1>3
  <2>2. Cardinality(S \cup {p}) = Cardinality(S) + 1
    BY <1>3, Conteo
  <2> QED
    BY <1>1, <1>3, <2>1, <2>2 DEF Uno
<1>4. CASE p \in S <=> p \in T
  <2>1. S = T
    BY <1>4
  <2> QED
    BY <1>1, <2>1
<1> QED
  BY <1>1, <1>2, <1>3, <1>4

LEMMA ManosPaso == Inv /\ [PasoKernel]_estadoVars => (enExec' # Nulo => despacho' \in {"recibe", "ingresa"})
<1> SUFFICES ASSUME Inv, [PasoKernel]_estadoVars, enExec' # Nulo PROVE despacho' \in {"recibe", "ingresa"}
  OBVIOUS
<1>0. enExec # Nulo => despacho \in {"recibe", "ingresa"}
  BY DEF Inv
<1>1. CASE Despacho
  BY <1>0, <1>1 DEF Despacho, DespachoInicia, DespachoIngresa, DespachoAvisa,
     DespachoDevuelveGrado, DespachoEspera, DespachoObtiene
<1>2. ASSUME NEW p \in Procesos, RetornoCpu(p) PROVE despacho' \in {"recibe", "ingresa"}
  BY <1>2 DEF RetornoCpu, DespachoDesalojo, DespachoFinaliza, DespachoPageFault, DespachoBloquea
<1>3. ASSUME NEW p \in Procesos, Consolas(p) \/ Hilos(p)
      PROVE  despacho' \in {"recibe", "ingresa"}
  BY <1>0, <1>3 DEF Consolas, ConsolaCrea, ConsolaAvisa, ConsolaDespierta, ConsolaRecibe,
     ConsolaPideSalida, ConsolaLibera, ConsolaDestruye, Hilos, HiloPidePagina, HiloRecibePagina,
     HiloTomaRecurso, HiloSueltaDispositivo, HiloSueltaConsola, HiloIngresa, despVars
<1>4. CASE Planificador \/ HiloAvisa \/ RutinaMemoria \/ UNCHANGED estadoVars
  BY <1>0, <1>4 DEF Planificador, PlanEsperaNew, PlanEsperaGrado, PlanSaca, PlanPideMemoria,
     PlanRecibeMemoria, PlanAgrega, PlanIngresa, PlanRegistra, PlanAvisa, HiloAvisa, RutinaMemoria,
     MemoriaEnvia, MemoriaAtiende, MemoriaRecibe, despVars, estadoVars
<1> QED
  BY <1>1, <1>2, <1>3, <1>4 DEF PasoKernel, Paso

LEMMA AvisosNewPaso == Inv /\ [PasoKernel]_estadoVars => AvisosNew'
<1> SUFFICES ASSUME Inv, [PasoKernel]_estadoVars PROVE AvisosNew'
  OBVIOUS
<1> DEFINE avisan == {p \in Procesos : consola[p] = "avisa"}
<1>0. AvisosNew /\ TipoConsola /\ TipoPlan
  BY DEF Inv, SemaforosExactos, TipoInv, TipoBase
<1>n. Len(colaNew) \in Nat /\ semNew \in Nat /\ Cardinality(avisan) \in Nat
  BY <1>0, LenProperties, Conteo DEF TipoPlan
<1>1. ASSUME NEW p \in Procesos, Consolas(p) PROVE AvisosNew'
  <2>1. \A q \in Procesos \ {p} : q \in avisan <=> q \in avisan'
    BY <1>0, <1>1 DEF Consolas, ConsolaCrea, ConsolaAvisa, ConsolaDespierta, ConsolaRecibe,
       ConsolaPideSalida, ConsolaLibera, ConsolaDestruye, TipoConsola
  <2>2. /\ Cardinality(avisan') \in Nat
        /\ Cardinality(avisan') + Uno(p \in avisan) = Cardinality(avisan) + Uno(p \in avisan')
    <3> DEFINE despues == avisan'
    <3>1. despues \subseteq Procesos /\ \A q \in Procesos \ {p} : q \in avisan <=> q \in despues
      BY <2>1
    <3> HIDE DEF despues
    <3>2. /\ Cardinality(despues) \in Nat
          /\ Cardinality(despues) + Uno(p \in avisan) = Cardinality(avisan) + Uno(p \in despues)
      BY <3>1, ConteoCambia
    <3> QED
      BY <3>2 DEF despues
  <2>3. p \in avisan <=> consola[p] = "avisa"
    OBVIOUS
  <2>4. p \in avisan' <=> consola'[p] = "avisa"
    OBVIOUS
  <2>5. AvisosNew' <=> Len(colaNew') = semNew' + Cardinality(avisan')
                         + Uno(plan' \in {"esperaGrado", "saca"})
    BY DEF AvisosNew
  <2>6. Len(colaNew) = semNew + Cardinality(avisan) + Uno(plan \in {"esperaGrado", "saca"})
    BY <1>0 DEF AvisosNew
  <2> HIDE DEF avisan
  <2>7. CASE ConsolaCrea(p)
    <3>1. p \notin avisan /\ p \in avisan' /\ UNCHANGED <<semNew, plan>>
          /\ Len(colaNew') = Len(colaNew) + 1
      BY <1>0, <2>3, <2>4, <2>7, AppendProperties DEF ConsolaCrea, TipoConsola, TipoPlan
    <3> QED
      BY <1>n, <2>2, <2>5, <2>6, <3>1 DEF Uno
  <2>8. CASE ConsolaAvisa(p)
    <3>1. p \in avisan /\ p \notin avisan' /\ UNCHANGED <<colaNew, plan>> /\ semNew' = semNew + 1
      BY <1>0, <2>3, <2>4, <2>8 DEF ConsolaAvisa, TipoConsola
    <3> QED
      BY <1>n, <2>2, <2>5, <2>6, <3>1 DEF Uno
  <2>9. CASE ~ConsolaCrea(p) /\ ~ConsolaAvisa(p)
    <3>1. p \notin avisan /\ p \notin avisan' /\ UNCHANGED <<semNew, colaNew, plan>>
      BY <1>0, <1>1, <2>3, <2>4, <2>9 DEF Consolas, ConsolaDespierta, ConsolaRecibe,
         ConsolaPideSalida, ConsolaLibera, ConsolaDestruye, TipoConsola, planVars
    <3> QED
      BY <1>n, <2>2, <2>5, <2>6, <3>1 DEF Uno
  <2> QED
    BY <2>7, <2>8, <2>9
<1>2. CASE Planificador
  <2>0. UNCHANGED consola
    BY <1>2 DEF Planificador, PlanEsperaNew, PlanEsperaGrado, PlanSaca, PlanPideMemoria,
     PlanRecibeMemoria, PlanAgrega, PlanIngresa, PlanRegistra, PlanAvisa, consolaVars
  <2>1. avisan' = avisan
    BY <2>0
  <2>2. AvisosNew' <=> Len(colaNew') = semNew' + Cardinality(avisan)
                         + Uno(plan' \in {"esperaGrado", "saca"})
    BY <2>1 DEF AvisosNew
  <2>3. Len(colaNew) = semNew + Cardinality(avisan) + Uno(plan \in {"esperaGrado", "saca"})
    BY <1>0 DEF AvisosNew
  <2> HIDE DEF avisan
  <2>4. CASE PlanEsperaNew
    <3>1. UNCHANGED colaNew /\ semNew' = semNew - 1 /\ plan = "esperaNew" /\ plan' = "esperaGrado"
      BY <2>4 DEF PlanEsperaNew
    <3> QED
      BY <1>n, <2>2, <2>3, <3>1 DEF Uno
  <2>5. CASE PlanSaca
    <3>1. colaNew # <<>> /\ colaNew' = Tail(colaNew) /\ UNCHANGED semNew
          /\ plan = "saca" /\ plan' = "pide"
      BY <2>5, NuncaCaePaso DEF PlanSaca, Exige, NuncaCae
    <3>2. Len(colaNew') = Len(colaNew) - 1
      BY <1>0, <3>1, SacarDeCola DEF TipoPlan
    <3> QED
      BY <1>n, <2>2, <2>3, <3>1, <3>2 DEF Uno
  <2>6. CASE PlanEsperaGrado
    <3>1. UNCHANGED <<colaNew, semNew>> /\ plan = "esperaGrado" /\ plan' = "saca"
      BY <2>6 DEF PlanEsperaGrado
    <3> QED
      BY <2>2, <2>3, <3>1 DEF Uno
  <2>7. CASE ~PlanEsperaNew /\ ~PlanEsperaGrado /\ ~PlanSaca
    <3>1. /\ UNCHANGED <<colaNew, semNew>>
          /\ plan \notin {"esperaGrado", "saca"} /\ plan' \notin {"esperaGrado", "saca"}
      BY <1>2, <2>7 DEF Planificador, PlanPideMemoria, PlanRecibeMemoria, PlanAgrega, PlanIngresa,
         PlanRegistra, PlanAvisa
    <3> QED
      BY <2>2, <2>3, <3>1 DEF Uno
  <2> QED
    BY <2>4, <2>5, <2>6, <2>7
<1>3. ASSUME NEW p \in Procesos, RetornoCpu(p) \/ Hilos(p) PROVE AvisosNew'
  <2>1. UNCHANGED <<colaNew, semNew, plan, consola>>
    BY <1>3 DEF RetornoCpu, DespachoDesalojo, DespachoFinaliza, DespachoPageFault,
     DespachoBloquea, Hilos, HiloPidePagina, HiloRecibePagina, HiloTomaRecurso,
     HiloSueltaDispositivo, HiloSueltaConsola, HiloIngresa, consolaVars, planVars
  <2> QED
    BY <1>0, <2>1 DEF AvisosNew
<1>4. CASE Despacho \/ HiloAvisa \/ RutinaMemoria \/ UNCHANGED estadoVars
  <2>1. UNCHANGED <<colaNew, semNew, plan, consola>>
    BY <1>4 DEF Despacho, DespachoInicia, DespachoIngresa, DespachoAvisa,
     DespachoDevuelveGrado, DespachoEspera, DespachoObtiene, HiloAvisa, RutinaMemoria,
     MemoriaEnvia, MemoriaAtiende, MemoriaRecibe, consolaVars, planVars, estadoVars
  <2> QED
    BY <1>0, <2>1 DEF AvisosNew
<1> QED
  BY <1>1, <1>2, <1>3, <1>4 DEF PasoKernel, Paso

(* Only the planner admits a process, and only the dispatcher ends one. *)
LEMMA AdmitidosCambia ==
  ASSUME Inv, [PasoKernel]_estadoVars
  PROVE  /\ PlanAgrega => planPcb \in Procesos \ Admitidos /\ Admitidos' = Admitidos \cup {planPcb}
         /\ \A p \in Procesos : DespachoFinaliza(p) => p \in Admitidos /\ Admitidos' = Admitidos \ {p}
         /\ ~PlanAgrega /\ (\A p \in Procesos : ~DespachoFinaliza(p)) => Admitidos' = Admitidos
<1>0. TipoInv /\ TipoConsola
  BY DEF Inv, TipoInv, TipoBase
<1>1. ASSUME PlanAgrega
      PROVE  planPcb \in Procesos \ Admitidos /\ Admitidos' = Admitidos \cup {planPcb}
  <2>1. planPcb \in Procesos /\ plan = "agrega" /\ UNCHANGED pipeline
    BY <1>0, <1>1 DEF PlanAgrega, TipoInv, EnManos, Inv, NuncaCae, PasosPlan
  <2>2. pcb[planPcb] = "creado" /\ pipeline[planPcb] # "EXIT"
    BY <2>1, PcbPrevio
  <2>3. pcb' = [pcb EXCEPT ![planPcb] = "listado"]
    BY <1>1 DEF PlanAgrega
  <2>4. \A q \in Procesos : pcb'[q] = IF q = planPcb THEN "listado" ELSE pcb[q]
    BY <1>0, <2>3 DEF TipoConsola
  <2>5. \A q \in Procesos : q \in Admitidos' <=> q \in Admitidos \/ q = planPcb
    BY <2>1, <2>2, <2>4 DEF Admitidos
  <2> QED
    BY <2>1, <2>2, <2>5 DEF Admitidos
<1>2. ASSUME NEW p \in Procesos, DespachoFinaliza(p)
      PROVE  p \in Admitidos /\ Admitidos' = Admitidos \ {p}
  <2>1. p \in Admitidos
    BY <1>2, PcbAdmitido DEF DespachoFinaliza, CpuDevuelve, Admitidos
  <2>2. UNCHANGED pcb /\ \A q \in Procesos : pipeline'[q] = IF q = p THEN "EXIT" ELSE pipeline[q]
    BY <1>0, <1>2 DEF DespachoFinaliza, TipoConsola
  <2>3. \A q \in Procesos : q \in Admitidos' <=> q \in Admitidos /\ q # p
    BY <2>2 DEF Admitidos
  <2> QED
    BY <2>1, <2>3 DEF Admitidos
<1>3. ASSUME ~PlanAgrega, \A p \in Procesos : ~DespachoFinaliza(p)
      PROVE  Admitidos' = Admitidos
  <2>1. ASSUME NEW q \in Procesos
        PROVE  (pcb'[q] = "listado" /\ pipeline'[q] # "EXIT")
                 <=> (pcb[q] = "listado" /\ pipeline[q] # "EXIT")
    <3>1. CASE UNCHANGED <<pcb, pipeline>>
      BY <3>1
    <3>2. ASSUME NEW p \in Procesos, Consolas(p)
          PROVE  (pcb'[q] = "listado" /\ pipeline'[q] # "EXIT")
                   <=> (pcb[q] = "listado" /\ pipeline[q] # "EXIT")
      <4>0. PcbCoherente(p) /\ Conversa(p)
        BY DEF Inv, Coherente
      <4>1. CASE ConsolaCrea(p)
        BY <1>0, <4>0, <4>1 DEF ConsolaCrea, PcbCoherente, TipoConsola
      <4>2. CASE ConsolaRecibe(p)
        BY <1>0, <4>0, <4>2 DEF ConsolaRecibe, Conversa, PedidoConsola, TipoConsola
      <4>3. CASE ConsolaDestruye(p)
        BY <1>0, <4>0, <4>3 DEF ConsolaDestruye, PcbCoherente, TipoConsola
      <4> QED
        BY <3>1, <3>2, <4>1, <4>2, <4>3 DEF Consolas, ConsolaAvisa, ConsolaDespierta,
           ConsolaPideSalida, ConsolaLibera
    <3>3. ASSUME NEW p \in Procesos, HiloTomaRecurso(p)
          PROVE  (pcb'[q] = "listado" /\ pipeline'[q] # "EXIT")
                   <=> (pcb[q] = "listado" /\ pipeline[q] # "EXIT")
      <4>1. pcb[p] = "listado" /\ pipeline[p] # "EXIT"
        BY <3>3, SoloHilo DEF HiloTomaRecurso
      <4> QED
        BY <1>0, <3>3, <4>1 DEF HiloTomaRecurso, TipoConsola, PedidoConsola
    <3>4. ASSUME NEW p \in Procesos, Hilos(p), ~HiloTomaRecurso(p) PROVE UNCHANGED <<pcb, pipeline>>
      BY <3>4 DEF Hilos, HiloPidePagina, HiloRecibePagina, HiloSueltaDispositivo,
         HiloSueltaConsola, HiloIngresa, consolaVars
    <3>5. ASSUME NEW p \in Procesos, RetornoCpu(p) PROVE UNCHANGED <<pcb, pipeline>>
      BY <1>3, <3>5 DEF RetornoCpu, DespachoDesalojo, DespachoPageFault, DespachoBloquea, consolaVars
    <3>6. Planificador \/ Despacho \/ HiloAvisa \/ RutinaMemoria \/ UNCHANGED estadoVars
            => UNCHANGED <<pcb, pipeline>>
      BY <1>3 DEF Planificador, PlanEsperaNew, PlanEsperaGrado, PlanSaca, PlanPideMemoria,
         PlanRecibeMemoria, PlanIngresa, PlanRegistra, PlanAvisa, Despacho, DespachoInicia,
         DespachoIngresa, DespachoAvisa, DespachoDevuelveGrado, DespachoEspera, DespachoObtiene,
         HiloAvisa, RutinaMemoria, MemoriaEnvia, MemoriaAtiende, MemoriaRecibe, consolaVars, estadoVars
    <3> QED
      BY <3>1, <3>2, <3>3, <3>4, <3>5, <3>6 DEF PasoKernel, Paso
  <2> QED
    BY <2>1 DEF Admitidos
<1> QED
  BY <1>1, <1>2, <1>3

(* What a step does to the degree and to whoever has a unit of it. *)
LEMMA GradoPaso ==
  ASSUME Inv, [PasoKernel]_estadoVars
  PROVE  GradoConservado' /\ GradoVuelve'
<1> DEFINE toma == plan \in {"saca", "pide", "espera", "agrega"}
           devuelve == despacho = "grado"
<1>0. /\ GradoConservado /\ GradoVuelve /\ TipoInv /\ semGrado \in Nat
      /\ Admitidos \subseteq Procesos /\ Cardinality(Admitidos) \in Nat
  BY Conteo DEF Inv, SemaforosExactos, TipoInv, TipoBase, TipoPlan, Admitidos
<1>1. semGrado + Cardinality(Admitidos) + Uno(toma) + Uno(devuelve) = Grado
  BY <1>0 DEF GradoConservado
<1>2. ASSUME semGrado' + Cardinality(Admitidos') + Uno(toma') + Uno(devuelve') = Grado
      PROVE  GradoConservado'
  BY <1>2 DEF GradoConservado
<1>3. CASE PlanEsperaGrado
  <2>1. /\ semGrado' = semGrado - 1 /\ UNCHANGED despacho
        /\ plan = "esperaGrado" /\ plan' = "saca"
    BY <1>3 DEF PlanEsperaGrado, despVars
  <2>2. Admitidos' = Admitidos
    BY <1>3, <2>1, AdmitidosCambia DEF PlanAgrega, DespachoFinaliza, PlanEsperaGrado, CpuDevuelve,
       despVars
  <2>3. GradoConservado'
    BY <1>0, <1>1, <1>2, <2>1, <2>2 DEF Uno
  <2> QED
    BY <2>1, <2>3 DEF GradoVuelve
<1>4. CASE PlanAgrega
  <2>1. UNCHANGED <<semGrado, despacho, planPcb>> /\ plan = "agrega" /\ plan' = "ingresa"
    BY <1>4 DEF PlanAgrega, despVars
  <2>2. planPcb \notin Admitidos /\ Admitidos' = Admitidos \cup {planPcb}
    BY <1>4, AdmitidosCambia
  <2>3. Cardinality(Admitidos') = Cardinality(Admitidos) + 1
    BY <1>0, <2>2, Conteo
  <2>4. GradoConservado'
    BY <1>0, <1>1, <1>2, <2>1, <2>3 DEF Uno
  <2> QED
    BY <2>1, <2>2, <2>4 DEF GradoVuelve
<1>5. ASSUME NEW p \in Procesos, DespachoFinaliza(p) PROVE GradoConservado' /\ GradoVuelve'
  <2>1. /\ UNCHANGED <<semGrado, plan>> /\ despacho = "recibe" /\ despacho' = "grado"
    BY <1>5 DEF DespachoFinaliza, CpuDevuelve, planVars
  <2>2. p \in Admitidos /\ Admitidos' = Admitidos \ {p}
    BY <1>5, AdmitidosCambia
  <2>3. Cardinality(Admitidos') = Cardinality(Admitidos) - 1
    BY <1>0, <2>2, Conteo
  <2>4. GradoConservado'
    BY <1>0, <1>1, <1>2, <2>1, <2>3 DEF Uno
  <2> QED
    BY <1>0, <2>1, <2>4 DEF GradoVuelve, Uno
<1>6. CASE DespachoDevuelveGrado
  <2>1. semGrado' = semGrado + 1 /\ UNCHANGED plan /\ despacho = "grado" /\ despacho' = "espera"
    BY <1>6 DEF DespachoDevuelveGrado
  <2>2. Admitidos' = Admitidos
    BY <1>6, <2>1, AdmitidosCambia DEF PlanAgrega, DespachoFinaliza, DespachoDevuelveGrado
  <2>3. GradoConservado'
    BY <1>0, <1>1, <1>2, <2>1, <2>2 DEF Uno
  <2> QED
    BY <1>0, <2>1, <2>3 DEF GradoVuelve, Uno
<1>7. ASSUME ~PlanEsperaGrado, ~PlanAgrega, ~DespachoDevuelveGrado,
             \A p \in Procesos : ~DespachoFinaliza(p)
      PROVE  GradoConservado' /\ GradoVuelve'
  <2>1. Admitidos' = Admitidos
    BY <1>7, AdmitidosCambia
  <2>2. CASE Planificador
    <3>1. UNCHANGED <<semGrado, despacho>> /\ (toma' <=> toma)
      BY <1>7, <2>2 DEF Planificador, PlanEsperaNew, PlanSaca, PlanPideMemoria, PlanRecibeMemoria,
         PlanIngresa, PlanRegistra, PlanAvisa, despVars
    <3>2. plan' \in {"ingresa", "registra", "avisa"} =>
            plan \in {"ingresa", "registra", "avisa"} /\ UNCHANGED planPcb
      BY <1>7, <2>2 DEF Planificador, PlanEsperaNew, PlanSaca, PlanPideMemoria, PlanRecibeMemoria,
         PlanIngresa, PlanRegistra, PlanAvisa
    <3> QED
      BY <1>0, <1>1, <1>2, <2>1, <3>1, <3>2 DEF GradoVuelve
  <2>3. ASSUME UNCHANGED <<semGrado, plan, planPcb>>, devuelve' <=> devuelve
        PROVE  GradoConservado' /\ GradoVuelve'
    BY <1>0, <1>1, <1>2, <2>1, <2>3 DEF GradoVuelve
  <2>4. CASE Despacho
    BY <1>7, <2>3, <2>4 DEF Despacho, DespachoInicia, DespachoIngresa, DespachoAvisa,
       DespachoEspera, DespachoObtiene, planVars
  <2>5. ASSUME NEW p \in Procesos, Consolas(p) \/ RetornoCpu(p) \/ Hilos(p)
        PROVE  UNCHANGED <<semGrado, plan, planPcb>> /\ (devuelve' <=> devuelve)
    BY <1>7, <2>5 DEF Consolas, ConsolaCrea, ConsolaAvisa, ConsolaDespierta, ConsolaRecibe,
       ConsolaPideSalida, ConsolaLibera, ConsolaDestruye, RetornoCpu, DespachoDesalojo,
       DespachoPageFault, DespachoBloquea, CpuDevuelve, Hilos, HiloPidePagina, HiloRecibePagina,
       HiloTomaRecurso, HiloSueltaDispositivo, HiloSueltaConsola, HiloIngresa, planVars, despVars
  <2>6. HiloAvisa \/ RutinaMemoria \/ UNCHANGED estadoVars
          => UNCHANGED <<semGrado, plan, planPcb, despacho>>
    BY DEF HiloAvisa, RutinaMemoria, MemoriaEnvia, MemoriaAtiende, MemoriaRecibe, planVars,
       despVars, estadoVars
  <2> QED
    BY <2>2, <2>3, <2>4, <2>5, <2>6 DEF PasoKernel, Paso
<1> QED
  BY <1>3, <1>4, <1>5, <1>6, <1>7

(* The users of a device. *)
Usan(r) == {p \in Procesos : hilo[p] = "usaRecurso" /\ recurso[p] = r}

LEMMA DispositivoIgual ==
  ASSUME DispositivoExclusivo, UNCHANGED semDispositivo,
         \A p \in Procesos, r \in Recursos : hilo'[p] = "usaRecurso" /\ recurso'[p] = r
                                               <=> hilo[p] = "usaRecurso" /\ recurso[p] = r
  PROVE  DispositivoExclusivo'
<1> SUFFICES ASSUME NEW r \in Recursos
             PROVE  semDispositivo'[r] + Cardinality(Usan(r)') = 1
  BY DEF DispositivoExclusivo, Usan
<1>1. Usan(r)' = Usan(r)
  BY DEF Usan
<1>2. semDispositivo[r] + Cardinality(Usan(r)) = 1
  BY DEF DispositivoExclusivo, Usan
<1> QED
  BY <1>1, <1>2

LEMMA DispositivoHilos ==
  ASSUME Inv, NEW p \in Procesos, Hilos(p)
  PROVE  DispositivoExclusivo'
<1>0. DispositivoExclusivo /\ PcbCoherente(p) /\ TipoHilo
  BY DEF Inv, Coherente, SemaforosExactos, TipoInv, TipoBase
<1>1. CASE HiloTomaRecurso(p) \/ HiloSueltaDispositivo(p) \/ HiloSueltaConsola(p)
  <2> SUFFICES ASSUME NEW r \in Recursos
               PROVE  semDispositivo'[r] + Cardinality(Usan(r)') = 1
    BY DEF DispositivoExclusivo, Usan
  <2> DEFINE S == Usan(r)
             T == Usan(r)'
  <2>1. recurso[p] \in Recursos
    BY <1>0, <1>1 DEF HiloTomaRecurso, HiloSueltaDispositivo, HiloSueltaConsola, PcbCoherente
  <2>2. semDispositivo[r] + Cardinality(S) = 1 /\ semDispositivo[r] \in Nat
    BY <1>0 DEF DispositivoExclusivo, Usan, TipoHilo
  <2>3. \A q \in Procesos \ {p} : hilo'[q] = hilo[q] /\ recurso'[q] = recurso[q]
    BY <1>0, <1>1 DEF HiloTomaRecurso, HiloSueltaDispositivo, HiloSueltaConsola, SueltaRecurso,
       TipoHilo
  <2>4. S \subseteq Procesos /\ T \subseteq Procesos /\ \A q \in Procesos \ {p} : q \in S <=> q \in T
    BY <2>3 DEF Usan
  <2>5. /\ p \in S <=> hilo[p] = "usaRecurso" /\ recurso[p] = r
        /\ p \in T <=> hilo'[p] = "usaRecurso" /\ recurso'[p] = r
    BY DEF Usan
  <2> HIDE DEF S, T
  <2>6. /\ Cardinality(S) \in Nat /\ Cardinality(T) \in Nat
        /\ Cardinality(T) + Uno(p \in S) = Cardinality(S) + Uno(p \in T)
    BY <2>4, ConteoCambia
  <2>7. semDispositivo'[r] + Cardinality(T) = 1
    <3>1. CASE HiloTomaRecurso(p)
      <4>1. p \notin S /\ (p \in T <=> recurso[p] = r)
            /\ semDispositivo'[r] = semDispositivo[r] - Uno(recurso[p] = r)
        BY <1>0, <2>1, <2>2, <2>5, <3>1 DEF HiloTomaRecurso, TipoHilo, Uno
      <4> QED
        BY <2>2, <2>6, <4>1 DEF Uno
    <3>2. CASE HiloSueltaDispositivo(p) \/ HiloSueltaConsola(p)
      <4>1. p \notin T /\ (p \in S <=> recurso[p] = r)
            /\ semDispositivo'[r] = semDispositivo[r] + Uno(recurso[p] = r)
        BY <1>0, <2>1, <2>2, <2>5, <3>2 DEF HiloSueltaDispositivo, HiloSueltaConsola,
           SueltaRecurso, TipoHilo, Uno
      <4> QED
        BY <2>2, <2>6, <4>1 DEF Uno
    <3> QED
      BY <1>1, <3>1, <3>2
  <2> QED
    BY <2>7 DEF T
<1>2. CASE HiloPidePagina(p) \/ HiloRecibePagina(p) \/ HiloIngresa(p)
  <2>1. /\ UNCHANGED <<recurso, semDispositivo>>
        /\ \A q \in Procesos : hilo'[q] = "usaRecurso" <=> hilo[q] = "usaRecurso"
    BY <1>0, <1>2 DEF HiloPidePagina, HiloRecibePagina, HiloIngresa, TipoHilo
  <2> QED
    BY <1>0, <2>1, DispositivoIgual
<1> QED
  BY <1>1, <1>2 DEF Hilos

LEMMA DispositivoPaso == Inv /\ [PasoKernel]_estadoVars => DispositivoExclusivo'
<1> SUFFICES ASSUME Inv, [PasoKernel]_estadoVars PROVE DispositivoExclusivo'
  OBVIOUS
<1>0. DispositivoExclusivo /\ TipoHilo
  BY DEF Inv, SemaforosExactos, TipoInv, TipoBase
<1>1. ASSUME NEW p \in Procesos, RetornoCpu(p) PROVE DispositivoExclusivo'
  <2>1. CASE DespachoDesalojo(p) \/ DespachoFinaliza(p)
    BY <1>0, <2>1, DispositivoIgual DEF DespachoDesalojo, DespachoFinaliza, hiloVars
  <2>2. CASE DespachoPageFault(p) \/ \E r \in Solicitudes : DespachoBloquea(p, r)
    <3>1. hilo[p] = "ninguno"
      <4>1. LugarAdmitido(p) /\ enExec = p /\ Veces(colaRR, p) \in Nat /\ Veces(colaFIFO, p) \in Nat
        BY <2>2, VecesReady DEF Inv, Coherente, DespachoPageFault, DespachoBloquea, CpuDevuelve
      <4> QED
        BY <4>1, SoloHilo
    <3>2. /\ UNCHANGED semDispositivo
          /\ hilo'[p] # "usaRecurso" /\ hilo[p] # "usaRecurso"
          /\ \A q \in Procesos \ {p} : hilo'[q] = hilo[q] /\ recurso'[q] = recurso[q]
      BY <1>0, <2>2, <3>1 DEF DespachoPageFault, DespachoBloquea, TipoHilo
    <3> QED
      BY <1>0, <3>2, DispositivoIgual
  <2> QED
    BY <1>1, <2>1, <2>2 DEF RetornoCpu
<1>2. CASE UNCHANGED hiloVars
  BY <1>0, <1>2, DispositivoIgual DEF hiloVars
<1>3. ASSUME NEW p \in Procesos, Consolas(p) PROVE UNCHANGED hiloVars
  BY <1>3 DEF Consolas, ConsolaCrea, ConsolaAvisa, ConsolaDespierta, ConsolaRecibe,
     ConsolaPideSalida, ConsolaLibera, ConsolaDestruye
<1>4. Planificador \/ Despacho \/ HiloAvisa \/ RutinaMemoria \/ UNCHANGED estadoVars => UNCHANGED hiloVars
  BY DEF Planificador, PlanEsperaNew, PlanEsperaGrado, PlanSaca, PlanPideMemoria,
     PlanRecibeMemoria, PlanAgrega, PlanIngresa, PlanRegistra, PlanAvisa, Despacho, DespachoInicia,
     DespachoIngresa, DespachoAvisa, DespachoDevuelveGrado, DespachoEspera, DespachoObtiene,
     HiloAvisa, RutinaMemoria, MemoriaEnvia, MemoriaAtiende, MemoriaRecibe, estadoVars
<1> QED
  BY <1>1, <1>2, <1>3, <1>4, DispositivoHilos DEF PasoKernel, Paso

-----------------------------------------------------------------------------
(* The memory region. *)

(* No step but those of the region changes who is in it. *)
LEMMA MonitorIgual ==
  ASSUME Inv, UNCHANGED <<regionVars, canal, canalOp, canalPid>>,
         \A p \in Procesos : /\ consola'[p] = "libera" <=> consola[p] = "libera"
                             /\ hilo'[p] = "esperaPagina" <=> hilo[p] = "esperaPagina",
         plan' = "espera" <=> plan = "espera", plan = "espera" => UNCHANGED planPcb
  PROVE  MonitorMemoria'
<1>0. MonitorMemoria
  BY DEF Inv
<1>1. EnRegion' = EnRegion
  BY DEF EnRegion
<1>2. {p \in Procesos : hilo'[p] = "esperaPagina"} = {p \in Procesos : hilo[p] = "esperaPagina"}
  OBVIOUS
<1>3. RegionOcupada' = RegionOcupada
  BY <1>1, <1>2 DEF RegionOcupada
<1> QED
  BY <1>0, <1>3 DEF MonitorMemoria, regionVars

(* A thread goes in: it was empty, and nothing of an exchange was left. *)
LEMMA MonitorEntra ==
  ASSUME Inv, NEW op, NEW p, PedirAMemoria(op, p),
         RegionOcupada' = RegionOcupada + 1,
         plan' = "espera" /\ plan # "espera" => op = "NUEVO_PROCESO" /\ p = planPcb',
         \A q \in Procesos :
            /\ consola'[q] = "libera" /\ consola[q] # "libera" => op = "EXIT_PROCESO" /\ p = q
            /\ hilo'[q] = "esperaPagina" /\ hilo[q] # "esperaPagina" => op = "PAGE_FAULT" /\ p = q
  PROVE  MonitorMemoria' /\ ~Atendido /\ ~Atendido'
<1>0. /\ semRoutine + Uno(canal # "libre") + semResolved = RegionOcupada
      /\ semRoutine \in Nat /\ semResolved \in Nat /\ semHandlers \in Nat
  BY DEF Inv, MonitorMemoria, TipoInv, TipoBase, TipoMemoria
<1>1. RegionOcupada = 0 /\ semHandlers = 1
  BY <1>0, Region DEF PedirAMemoria
<1>2. semRoutine = 0 /\ semResolved = 0 /\ canal = "libre"
  BY <1>0, <1>1 DEF Uno
<1>3. plan # "espera" /\ \A q \in Procesos : consola[q] # "libera" /\ hilo[q] # "esperaPagina"
  BY <1>1, Region
<1>4. /\ semRoutine' = 1 /\ semHandlers' = 0 /\ semResolved' = 0 /\ canal' = "libre"
      /\ globalOp' = op /\ globalPcb' = p /\ RegionOcupada' = 1
  BY <1>1, <1>2 DEF PedirAMemoria, canalVars
<1> QED
  BY <1>2, <1>3, <1>4 DEF MonitorMemoria, Uno, Atendido

(* A thread leaves: it was the only one, and its answer had come. *)
LEMMA MonitorSale ==
  ASSUME Inv, OperacionResuelta,
         RegionOcupada' = RegionOcupada - 1,
         plan' = "espera" => plan = "espera" /\ UNCHANGED planPcb,
         \A q \in Procesos : /\ consola'[q] = "libera" => consola[q] = "libera"
                             /\ hilo'[q] = "esperaPagina" => hilo[q] = "esperaPagina"
  PROVE  MonitorMemoria' /\ Atendido /\ ~Atendido'
<1>0. /\ semRoutine + Uno(canal # "libre") + semResolved = RegionOcupada
      /\ semRoutine \in Nat /\ semResolved \in Nat /\ semHandlers \in Nat
      /\ MonitorMemoria
  BY DEF Inv, MonitorMemoria, TipoInv, TipoBase, TipoMemoria
<1>1. RegionOcupada = 1 /\ semHandlers = 0
  BY <1>0, Region DEF OperacionResuelta, Uno
<1>2. semRoutine = 0 /\ semResolved = 1 /\ canal = "libre"
  BY <1>0, <1>1 DEF Uno, OperacionResuelta
<1>3. /\ semRoutine' = 0 /\ semHandlers' = 1 /\ semResolved' = 0 /\ canal' = "libre"
      /\ UNCHANGED <<globalOp, globalPcb>> /\ RegionOcupada' = 0
  BY <1>1, <1>2 DEF OperacionResuelta, canalVars
<1> QED
  BY <1>0, <1>2, <1>3, SMTT(30) DEF MonitorMemoria, Uno, Atendido

(* How many are in the region after a step of a console, of the planner or *)
(* of a blocked process.                                                   *)
LEMMA RegionCambia ==
  ASSUME Inv, NEW p \in Procesos
  PROVE  /\ UNCHANGED <<consola, hilo>> =>
              RegionOcupada' + Uno(plan = "espera") = RegionOcupada + Uno(plan' = "espera")
         /\ UNCHANGED <<hilo, plan>> /\ (\A q \in Procesos \ {p} : consola'[q] = consola[q]) =>
              RegionOcupada' + Uno(consola[p] = "libera")
                = RegionOcupada + Uno(consola'[p] = "libera")
         /\ UNCHANGED <<consola, plan>> /\ (\A q \in Procesos \ {p} : hilo'[q] = hilo[q]) =>
              RegionOcupada' + Uno(hilo[p] = "esperaPagina")
                = RegionOcupada + Uno(hilo'[p] = "esperaPagina")
         /\ RegionOcupada' \in Nat
<1> DEFINE C == {q \in Procesos : consola[q] = "libera"}
           D == {q \in Procesos : consola'[q] = "libera"}
           H == {q \in Procesos : hilo[q] = "esperaPagina"}
           J == {q \in Procesos : hilo'[q] = "esperaPagina"}
<1>1. RegionOcupada = Cardinality(C) + Cardinality(H) + Uno(plan = "espera")
  BY DEF RegionOcupada, EnRegion
<1>2. RegionOcupada' = Cardinality(D) + Cardinality(J) + Uno(plan' = "espera")
  BY DEF RegionOcupada, EnRegion
<1>3. /\ p \in C <=> consola[p] = "libera"
      /\ p \in D <=> consola'[p] = "libera"
      /\ p \in H <=> hilo[p] = "esperaPagina"
      /\ p \in J <=> hilo'[p] = "esperaPagina"
      /\ UNCHANGED consola => C = D
      /\ UNCHANGED hilo => H = J
      /\ (\A q \in Procesos \ {p} : consola'[q] = consola[q]) =>
           \A q \in Procesos \ {p} : q \in C <=> q \in D
      /\ (\A q \in Procesos \ {p} : hilo'[q] = hilo[q]) =>
           \A q \in Procesos \ {p} : q \in H <=> q \in J
      /\ C \subseteq Procesos /\ D \subseteq Procesos /\ H \subseteq Procesos /\ J \subseteq Procesos
  OBVIOUS
<1> HIDE DEF C, D, H, J
<1>4. /\ Cardinality(C) \in Nat /\ Cardinality(D) \in Nat
      /\ Cardinality(H) \in Nat /\ Cardinality(J) \in Nat
  BY <1>3, Conteo
<1>5. /\ (\A q \in Procesos \ {p} : q \in C <=> q \in D) =>
           Cardinality(D) + Uno(p \in C) = Cardinality(C) + Uno(p \in D)
      /\ (\A q \in Procesos \ {p} : q \in H <=> q \in J) =>
           Cardinality(J) + Uno(p \in H) = Cardinality(H) + Uno(p \in J)
  BY <1>3, ConteoCambia
<1>6. UNCHANGED <<consola, hilo>> =>
        RegionOcupada' + Uno(plan = "espera") = RegionOcupada + Uno(plan' = "espera")
  BY <1>1, <1>2, <1>3, <1>4, UnoTipo
<1>7. ASSUME UNCHANGED <<hilo, plan>>, \A q \in Procesos \ {p} : consola'[q] = consola[q]
      PROVE  RegionOcupada' + Uno(consola[p] = "libera")
               = RegionOcupada + Uno(consola'[p] = "libera")
  <2>1. Cardinality(D) + Uno(p \in C) = Cardinality(C) + Uno(p \in D)
    BY <1>3, <1>5, <1>7
  <2>2. Cardinality(J) = Cardinality(H) /\ Uno(plan' = "espera") = Uno(plan = "espera")
    BY <1>3, <1>7
  <2> QED
    BY <1>1, <1>2, <1>3, <1>4, <2>1, <2>2 DEF Uno
<1>8. ASSUME UNCHANGED <<consola, plan>>, \A q \in Procesos \ {p} : hilo'[q] = hilo[q]
      PROVE  RegionOcupada' + Uno(hilo[p] = "esperaPagina")
               = RegionOcupada + Uno(hilo'[p] = "esperaPagina")
  <2>1. Cardinality(J) + Uno(p \in H) = Cardinality(H) + Uno(p \in J)
    BY <1>3, <1>5, <1>8
  <2>2. Cardinality(D) = Cardinality(C) /\ Uno(plan' = "espera") = Uno(plan = "espera")
    BY <1>3, <1>8
  <2> QED
    BY <1>1, <1>2, <1>3, <1>4, <2>1, <2>2 DEF Uno
<1>9. RegionOcupada' \in Nat
  BY <1>2, <1>4 DEF Uno
<1> QED
  BY <1>6, <1>7, <1>8, <1>9

LEMMA RegionEntra ==
  ASSUME Inv, NEW p \in Procesos,
         ConsolaPideSalida(p) \/ PlanPideMemoria \/ HiloPidePagina(p)
  PROVE  MonitorMemoria' /\ ~Atendido /\ ~Atendido'
<1>0. TipoConsola /\ TipoHilo /\ RegionOcupada \in {0, 1}
  BY Region DEF Inv, TipoInv, TipoBase
<1>n. RegionOcupada' \in Nat
  BY RegionCambia
<1>1. CASE ConsolaPideSalida(p)
  <2>1. /\ consola[p] = "pide" /\ consola'[p] = "libera" /\ UNCHANGED <<plan, planPcb, hilo>>
        /\ \A q \in Procesos \ {p} : consola'[q] = consola[q]
        /\ PedirAMemoria("EXIT_PROCESO", p)
    BY <1>0, <1>1 DEF ConsolaPideSalida, TipoConsola, planVars, hiloVars
  <2>2. RegionOcupada' + Uno(consola[p] = "libera") = RegionOcupada + Uno(consola'[p] = "libera")
    BY <2>1, RegionCambia
  <2>3. Uno(consola[p] = "libera") = 0 /\ Uno(consola'[p] = "libera") = 1
    BY <2>1 DEF Uno
  <2>4. RegionOcupada' = RegionOcupada + 1
    BY <1>0, <1>n, <2>2, <2>3
  <2> QED
    BY <2>1, <2>4, MonitorEntra
<1>2. CASE PlanPideMemoria
  <2>1. /\ plan = "pide" /\ plan' = "espera" /\ UNCHANGED <<planPcb, hilo, consola>>
        /\ PedirAMemoria("NUEVO_PROCESO", planPcb)
    BY <1>2 DEF PlanPideMemoria, consolaVars, hiloVars
  <2>2. RegionOcupada' + Uno(plan = "espera") = RegionOcupada + Uno(plan' = "espera")
    BY <2>1, RegionCambia
  <2>3. Uno(plan = "espera") = 0 /\ Uno(plan' = "espera") = 1
    BY <2>1 DEF Uno
  <2>4. RegionOcupada' = RegionOcupada + 1
    BY <1>0, <1>n, <2>2, <2>3
  <2> QED
    BY <2>1, <2>4, MonitorEntra
<1>3. CASE HiloPidePagina(p)
  <2>1. /\ hilo[p] = "pidePagina" /\ hilo'[p] = "esperaPagina" /\ UNCHANGED <<plan, planPcb, consola>>
        /\ \A q \in Procesos \ {p} : hilo'[q] = hilo[q]
        /\ PedirAMemoria("PAGE_FAULT", p)
    BY <1>0, <1>3 DEF HiloPidePagina, TipoHilo, planVars, consolaVars
  <2>2. RegionOcupada' + Uno(hilo[p] = "esperaPagina") = RegionOcupada + Uno(hilo'[p] = "esperaPagina")
    BY <2>1, RegionCambia
  <2>3. Uno(hilo[p] = "esperaPagina") = 0 /\ Uno(hilo'[p] = "esperaPagina") = 1
    BY <2>1 DEF Uno
  <2>4. RegionOcupada' = RegionOcupada + 1
    BY <1>0, <1>n, <2>2, <2>3
  <2> QED
    BY <2>1, <2>4, MonitorEntra
<1> QED
  BY <1>1, <1>2, <1>3

LEMMA RegionSale ==
  ASSUME Inv, NEW p \in Procesos,
         ConsolaLibera(p) \/ PlanRecibeMemoria \/ HiloRecibePagina(p)
  PROVE  MonitorMemoria' /\ Atendido /\ ~Atendido'
<1>0. TipoConsola /\ TipoHilo /\ RegionOcupada \in {0, 1}
  BY Region DEF Inv, TipoInv, TipoBase
<1>n. RegionOcupada' \in Nat
  BY RegionCambia
<1>1. CASE ConsolaLibera(p)
  <2>1. /\ consola[p] = "libera" /\ consola'[p] = "destruye" /\ UNCHANGED <<plan, planPcb, hilo>>
        /\ \A q \in Procesos \ {p} : consola'[q] = consola[q]
        /\ OperacionResuelta
    BY <1>0, <1>1 DEF ConsolaLibera, TipoConsola, planVars, hiloVars
  <2>2. RegionOcupada' + Uno(consola[p] = "libera") = RegionOcupada + Uno(consola'[p] = "libera")
    BY <2>1, RegionCambia
  <2>3. Uno(consola[p] = "libera") = 1 /\ Uno(consola'[p] = "libera") = 0
    BY <2>1 DEF Uno
  <2>4. RegionOcupada' = RegionOcupada - 1
    BY <1>0, <1>n, <2>2, <2>3
  <2> QED
    BY <2>1, <2>4, MonitorSale
<1>2. CASE PlanRecibeMemoria
  <2>1. /\ plan = "espera" /\ plan' = "agrega" /\ UNCHANGED <<planPcb, hilo, consola>>
        /\ OperacionResuelta
    BY <1>2 DEF PlanRecibeMemoria, consolaVars, hiloVars
  <2>2. RegionOcupada' + Uno(plan = "espera") = RegionOcupada + Uno(plan' = "espera")
    BY <2>1, RegionCambia
  <2>3. Uno(plan = "espera") = 1 /\ Uno(plan' = "espera") = 0
    BY <2>1 DEF Uno
  <2>4. RegionOcupada' = RegionOcupada - 1
    BY <1>0, <1>n, <2>2, <2>3
  <2> QED
    BY <2>1, <2>4, MonitorSale
<1>3. CASE HiloRecibePagina(p)
  <2>1. /\ hilo[p] = "esperaPagina" /\ hilo'[p] = "ingresa" /\ UNCHANGED <<plan, planPcb, consola>>
        /\ \A q \in Procesos \ {p} : hilo'[q] = hilo[q]
        /\ OperacionResuelta
    BY <1>0, <1>3 DEF HiloRecibePagina, TipoHilo, planVars, consolaVars
  <2>2. RegionOcupada' + Uno(hilo[p] = "esperaPagina") = RegionOcupada + Uno(hilo'[p] = "esperaPagina")
    BY <2>1, RegionCambia
  <2>3. Uno(hilo[p] = "esperaPagina") = 1 /\ Uno(hilo'[p] = "esperaPagina") = 0
    BY <2>1 DEF Uno
  <2>4. RegionOcupada' = RegionOcupada - 1
    BY <1>0, <1>n, <2>2, <2>3
  <2> QED
    BY <2>1, <2>4, MonitorSale
<1> QED
  BY <1>1, <1>2, <1>3

LEMMA MonitorRutina == Inv /\ RutinaMemoria => MonitorMemoria'
<1> SUFFICES ASSUME Inv, RutinaMemoria PROVE MonitorMemoria'
  OBVIOUS
<1>0. MonitorMemoria /\ semRoutine \in Nat /\ semResolved \in Nat
  BY DEF Inv, TipoInv, TipoBase, TipoMemoria
<1>1. UNCHANGED <<consola, hilo, plan, planPcb, semHandlers, globalOp, globalPcb>>
  BY DEF RutinaMemoria, MemoriaEnvia, MemoriaAtiende, MemoriaRecibe, consolaVars, hiloVars,
     planVars, regionVars
<1>2. RegionOcupada' = RegionOcupada
  BY <1>1 DEF RegionOcupada, EnRegion
<1>3. semRoutine' + Uno(canal' # "libre") + semResolved'
        = semRoutine + Uno(canal # "libre") + semResolved
  BY <1>0 DEF RutinaMemoria, MemoriaEnvia, MemoriaAtiende, MemoriaRecibe, regionVars, Uno
<1>4. canal' # "libre" => canalOp' = globalOp' /\ canalPid' = globalPcb'
  BY <1>0, <1>1 DEF RutinaMemoria, MemoriaEnvia, MemoriaAtiende, MemoriaRecibe, MonitorMemoria
<1> QED
  BY <1>0, <1>1, <1>2, <1>3, <1>4 DEF MonitorMemoria

LEMMA MonitorPaso == Inv /\ [PasoKernel]_estadoVars => MonitorMemoria'
<1> SUFFICES ASSUME Inv, [PasoKernel]_estadoVars PROVE MonitorMemoria'
  OBVIOUS
<1>0. TipoConsola /\ TipoHilo
  BY DEF Inv, TipoInv, TipoBase
<1>1. ASSUME NEW p \in Procesos, Consolas(p) PROVE MonitorMemoria'
  <2>1. CASE ConsolaPideSalida(p) \/ ConsolaLibera(p)
    BY <2>1, RegionEntra, RegionSale
  <2>2. CASE ~ConsolaPideSalida(p) /\ ~ConsolaLibera(p)
    <3>1. /\ UNCHANGED <<memVars, hilo, plan, planPcb>>
          /\ \A q \in Procesos : consola'[q] = "libera" <=> consola[q] = "libera"
      BY <1>0, <1>1, <2>2 DEF Consolas, ConsolaCrea, ConsolaAvisa, ConsolaDespierta,
         ConsolaRecibe, ConsolaDestruye, TipoConsola, planVars, hiloVars
    <3> QED
      BY <3>1, MonitorIgual DEF memVars, canalVars
  <2> QED
    BY <2>1, <2>2
<1>2. ASSUME NEW p \in Procesos, Hilos(p) PROVE MonitorMemoria'
  <2>1. CASE HiloPidePagina(p) \/ HiloRecibePagina(p)
    BY <2>1, RegionEntra, RegionSale
  <2>2. CASE ~HiloPidePagina(p) /\ ~HiloRecibePagina(p)
    <3>1. /\ UNCHANGED <<memVars, consola, plan, planPcb>>
          /\ \A q \in Procesos : hilo'[q] = "esperaPagina" <=> hilo[q] = "esperaPagina"
      BY <1>0, <1>2, <2>2 DEF Hilos, HiloTomaRecurso, HiloSueltaDispositivo, HiloSueltaConsola,
         HiloIngresa, SueltaRecurso, TipoHilo, planVars, consolaVars
    <3> QED
      BY <3>1, MonitorIgual DEF memVars, canalVars
  <2> QED
    BY <2>1, <2>2
<1>3. ASSUME NEW p \in Procesos, RetornoCpu(p) PROVE MonitorMemoria'
  <2>0. hilo[p] # "esperaPagina"
    BY <1>3, SoloHilo DEF RetornoCpu, DespachoDesalojo, DespachoFinaliza, DespachoPageFault,
       DespachoBloquea, CpuDevuelve
  <2>1. /\ UNCHANGED <<memVars, consola, plan, planPcb>>
        /\ \A q \in Procesos : hilo'[q] = "esperaPagina" <=> hilo[q] = "esperaPagina"
    BY <1>0, <1>3, <2>0 DEF RetornoCpu, DespachoDesalojo, DespachoFinaliza, DespachoPageFault,
       DespachoBloquea, TipoHilo, planVars, consolaVars, hiloVars
  <2> QED
    BY <2>1, MonitorIgual DEF memVars, canalVars
<1>4. CASE Planificador
  <2>1. CASE PlanPideMemoria \/ PlanRecibeMemoria
    <3>1. plan = "espera" \/ planPcb \in Procesos
      BY <2>1 DEF PlanPideMemoria, PlanRecibeMemoria, Inv, TipoInv, EnManos, NuncaCae, PasosPlan
    <3>2. planPcb \in Procesos
      BY <3>1 DEF Inv, TipoInv, EnManos, NuncaCae, PasosPlan
    <3> QED
      BY <2>1, <3>2, RegionEntra, RegionSale
  <2>2. CASE ~PlanPideMemoria /\ ~PlanRecibeMemoria
    <3>1. /\ UNCHANGED <<memVars, consola, hilo>> /\ plan # "espera" /\ plan' # "espera"
      BY <1>4, <2>2 DEF Planificador, PlanEsperaNew, PlanEsperaGrado, PlanSaca, PlanAgrega,
         PlanIngresa, PlanRegistra, PlanAvisa, consolaVars, hiloVars
    <3> QED
      BY <3>1, MonitorIgual DEF memVars, canalVars
  <2> QED
    BY <2>1, <2>2
<1>5. CASE Despacho \/ HiloAvisa \/ UNCHANGED estadoVars
  <2>1. UNCHANGED <<memVars, consola, hilo, plan, planPcb>>
    BY <1>5 DEF Despacho, DespachoInicia, DespachoIngresa, DespachoAvisa, DespachoDevuelveGrado,
       DespachoEspera, DespachoObtiene, HiloAvisa, consolaVars, hiloVars, planVars, estadoVars
  <2> QED
    BY <2>1, MonitorIgual DEF memVars, canalVars
<1> QED
  BY <1>1, <1>2, <1>3, <1>4, <1>5, MonitorRutina DEF PasoKernel, Paso

(* Whoever waits in the region is alone in it. *)
LEMMA RegionUnica ==
  ASSUME Inv
  PROVE  /\ plan = "espera" \/ (\E p \in Procesos : hilo[p] = "esperaPagina")
              => \A q \in Procesos : consola[q] # "libera"
         /\ plan = "espera" => \A p \in Procesos : hilo[p] # "esperaPagina"
         /\ \A p, q \in Procesos : consola[p] = "libera" /\ consola[q] = "libera" => p = q
  BY DEF Inv, MonitorMemoria

(* What Memoria has follows the pcb_list and the steps of the region. *)
LEMMA EnMemoriaIgual ==
  ASSUME NEW q \in Procesos, EnMemoria(q), UNCHANGED <<enMemoria, Atendido>>,
         pcb'[q] = "listado" /\ consola'[q] # "destruye"
            <=> pcb[q] = "listado" /\ consola[q] # "destruye",
         consola'[q] = "libera" <=> consola[q] = "libera",
         planPcb' = q /\ plan' = "agrega" <=> planPcb = q /\ plan = "agrega",
         planPcb' = q /\ plan' = "espera" <=> planPcb = q /\ plan = "espera"
  PROVE  EnMemoria(q)'
<1>1. Atendido' = Atendido
  OBVIOUS
<1> QED
  BY <1>1 DEF EnMemoria, Alojado, Llegado

LEMMA EnMemoriaConsolas ==
  ASSUME Inv, NEW p \in Procesos, Consolas(p), NEW q \in Procesos
  PROVE  EnMemoria(q)'
<1>0. EnMemoria(q) /\ PcbCoherente(p) /\ TipoConsola
  BY DEF Inv, Coherente, TipoInv, TipoBase
<1>1. UNCHANGED <<plan, planPcb, enMemoria>>
  BY DEF Consolas, ConsolaCrea, ConsolaAvisa, ConsolaDespierta, ConsolaRecibe, ConsolaPideSalida,
     ConsolaLibera, ConsolaDestruye, planVars, memVars, canalVars, PedirAMemoria,
     OperacionResuelta
<1>2. p # q => consola'[q] = consola[q] /\ pcb'[q] = pcb[q]
  BY <1>0, IgualOtro DEF Inv, IgualDe
<1>3. CASE ConsolaPideSalida(p)
  <2>1. ~Atendido /\ ~Atendido'
    BY <1>3, RegionEntra
  <2>2. UNCHANGED pcb /\ consola[p] = "pide" /\ consola'[p] = "libera"
    BY <1>0, <1>3 DEF ConsolaPideSalida, TipoConsola
  <2> QED
    BY <1>0, <1>1, <1>2, <2>1, <2>2 DEF EnMemoria, Alojado, Llegado
<1>4. CASE ConsolaLibera(p)
  <2>1. Atendido /\ ~Atendido'
    BY <1>4, RegionSale
  <2>2. UNCHANGED pcb /\ consola[p] = "libera" /\ consola'[p] = "destruye"
    BY <1>0, <1>4 DEF ConsolaLibera, TipoConsola
  <2>3. plan # "espera" /\ (p # q => consola[q] # "libera")
    BY <2>2, RegionUnica
  <2> QED
    BY <1>0, <1>1, <1>2, <2>1, <2>2, <2>3 DEF EnMemoria, Alojado, Llegado
<1>5. CASE ~ConsolaPideSalida(p) /\ ~ConsolaLibera(p)
  <2>1. Atendido' = Atendido
    BY <1>5 DEF Consolas, ConsolaCrea, ConsolaAvisa, ConsolaDespierta, ConsolaRecibe,
       ConsolaDestruye, memVars, regionVars, canalVars, Atendido
  <2>2. /\ pcb'[p] = "listado" /\ consola'[p] # "destruye"
             <=> pcb[p] = "listado" /\ consola[p] # "destruye"
        /\ consola'[p] = "libera" <=> consola[p] = "libera"
    BY <1>0, <1>5 DEF Consolas, ConsolaCrea, ConsolaAvisa, ConsolaDespierta, ConsolaRecibe,
       ConsolaDestruye, TipoConsola, PcbCoherente
  <2> QED
    BY <1>0, <1>1, <1>2, <2>1, <2>2, EnMemoriaIgual
<1> QED
  BY <1>3, <1>4, <1>5

LEMMA EnMemoriaPlanificador ==
  ASSUME Inv, Planificador, NEW q \in Procesos
  PROVE  EnMemoria(q)'
<1>0. EnMemoria(q) /\ PcbCoherente(q) /\ TipoConsola
  BY DEF Inv, Coherente, TipoInv, TipoBase
<1>1. UNCHANGED <<consola, enMemoria>>
  BY DEF Planificador, PlanEsperaNew, PlanEsperaGrado, PlanSaca, PlanPideMemoria,
     PlanRecibeMemoria, PlanAgrega, PlanIngresa, PlanRegistra, PlanAvisa, consolaVars, memVars,
     canalVars, PedirAMemoria, OperacionResuelta
<1>2. CASE PlanPideMemoria
  <2>1. ~Atendido /\ ~Atendido'
    BY <1>2, RegionEntra
  <2>2. UNCHANGED <<pcb, planPcb>> /\ plan = "pide" /\ plan' = "espera"
    BY <1>2 DEF PlanPideMemoria, consolaVars
  <2> QED
    BY <1>0, <1>1, <2>1, <2>2 DEF EnMemoria, Alojado, Llegado
<1>3. CASE PlanRecibeMemoria
  <2>1. Atendido /\ ~Atendido'
    BY <1>3, RegionSale
  <2>2. UNCHANGED <<pcb, planPcb>> /\ plan = "espera" /\ plan' = "agrega"
    BY <1>3 DEF PlanRecibeMemoria, consolaVars
  <2>3. consola[q] # "libera"
    BY <2>2, RegionUnica
  <2> QED
    BY <1>0, <1>1, <2>1, <2>2, <2>3 DEF EnMemoria, Alojado, Llegado
<1>4. CASE PlanAgrega
  <2>1. /\ UNCHANGED <<planPcb, pipeline>> /\ plan = "agrega" /\ plan' = "ingresa"
        /\ pcb'[q] = IF planPcb = q THEN "listado" ELSE pcb[q]
        /\ Atendido' = Atendido
    BY <1>0, <1>4 DEF PlanAgrega, TipoConsola, memVars, regionVars, canalVars, Atendido
  <2>2. CASE planPcb = q
    <3>1. pipeline[q] # "EXIT"
      BY <2>1, <2>2, PcbPrevio
    <3>2. consola[q] \notin {"libera", "destruye"}
      BY <1>0, <3>1 DEF PcbCoherente
    <3> QED
      BY <1>0, <1>1, <2>1, <2>2, <3>2 DEF EnMemoria, Alojado, Llegado
  <2>3. CASE planPcb # q
    BY <1>0, <1>1, <2>1, <2>3, EnMemoriaIgual
  <2> QED
    BY <2>2, <2>3
<1>5. CASE ~PlanPideMemoria /\ ~PlanRecibeMemoria /\ ~PlanAgrega
  <2>1. /\ UNCHANGED pcb /\ plan \notin {"espera", "agrega"} /\ plan' \notin {"espera", "agrega"}
        /\ Atendido' = Atendido
    BY <1>5 DEF Planificador, PlanEsperaNew, PlanEsperaGrado, PlanSaca, PlanIngresa, PlanRegistra,
       PlanAvisa, consolaVars, memVars, regionVars, canalVars, Atendido
  <2> QED
    BY <1>0, <1>1, <2>1, EnMemoriaIgual
<1> QED
  BY <1>2, <1>3, <1>4, <1>5

(* What Memoria's kernel_routine does with the table of processes. *)
LEMMA AtiendeMemoria ==
  /\ MemoriaAtiende /\ canalOp = "NUEVO_PROCESO" => enMemoria' = enMemoria \cup {canalPid}
  /\ MemoriaAtiende /\ canalOp = "EXIT_PROCESO" => enMemoria' = enMemoria \ {canalPid}
  /\ MemoriaAtiende /\ canalOp = "PAGE_FAULT" => enMemoria' = enMemoria
<1>1. MemoriaAtiende /\ canalOp = "NUEVO_PROCESO" => enMemoria' = enMemoria \cup {canalPid}
  BY Zenon DEF MemoriaAtiende
<1>2. MemoriaAtiende /\ canalOp = "EXIT_PROCESO" => enMemoria' = enMemoria \ {canalPid}
  BY Zenon DEF MemoriaAtiende
<1>3. MemoriaAtiende /\ canalOp = "PAGE_FAULT" => enMemoria' = enMemoria
  BY Zenon DEF MemoriaAtiende
<1> QED
  BY <1>1, <1>2, <1>3

LEMMA EnMemoriaRutina ==
  ASSUME Inv, RutinaMemoria, NEW q \in Procesos
  PROVE  EnMemoria(q)'
<1>0. EnMemoria(q) /\ PcbCoherente(q) /\ TipoInv /\ MonitorMemoria
      /\ semRoutine \in Nat /\ semResolved \in Nat
  BY DEF Inv, Coherente, TipoInv, TipoBase, TipoMemoria
<1>1. UNCHANGED <<consola, pcb, plan, planPcb>>
  BY DEF RutinaMemoria, MemoriaEnvia, MemoriaAtiende, MemoriaRecibe, consolaVars, planVars
<1>2. CASE MemoriaEnvia \/ MemoriaRecibe
  <2>1. UNCHANGED enMemoria
    BY <1>2 DEF MemoriaEnvia, MemoriaRecibe
  <2>2. Atendido' = Atendido
    <3>1. CASE MemoriaEnvia
      BY <3>1 DEF MemoriaEnvia, Atendido
    <3>2. CASE MemoriaRecibe
      <4>1. semResolved' > 0 /\ canal = "respuesta"
        BY <1>0, <3>2 DEF MemoriaRecibe
      <4> QED
        BY <4>1 DEF Atendido
    <3> QED
      BY <1>2, <3>1, <3>2
  <2> QED
    BY <1>0, <1>1, <2>1, <2>2, EnMemoriaIgual
<1>3. CASE MemoriaAtiende
  <2>1. RegionOcupada = 1 /\ semResolved = 0 /\ canal = "pedido" /\ canal' = "respuesta"
    BY <1>0, <1>3, Region DEF MonitorMemoria, MemoriaAtiende, Uno
  <2>2. ~Atendido /\ Atendido'
    BY <2>1 DEF Atendido
  <2>3. canalOp = globalOp /\ canalPid = globalPcb
    BY <1>0, <2>1 DEF MonitorMemoria
  <2>4. CASE plan = "espera"
    <3>1. enMemoria' = enMemoria \cup {planPcb} /\ consola[q] # "libera"
      BY <1>0, <1>3, <2>3, <2>4, AtiendeMemoria, RegionUnica DEF MonitorMemoria
    <3> QED
      BY <1>0, <1>1, <2>2, <2>4, <3>1 DEF EnMemoria, Alojado, Llegado
  <2>5. ASSUME NEW p \in Procesos, consola[p] = "libera" PROVE EnMemoria(q)'
    <3>1. /\ enMemoria' = enMemoria \ {p} /\ plan # "espera"
          /\ (p # q => consola[q] # "libera")
      BY <1>0, <1>3, <2>3, <2>5, AtiendeMemoria, RegionUnica DEF MonitorMemoria
    <3>2. p = q => ~(planPcb = q /\ plan = "agrega")
      BY <1>0, <2>5, PcbPrevio DEF PcbCoherente
    <3> QED
      BY <1>0, <1>1, <2>2, <2>5, <3>1, <3>2 DEF EnMemoria, Alojado, Llegado
  <2>6. ASSUME NEW p \in Procesos, hilo[p] = "esperaPagina" PROVE EnMemoria(q)'
    <3>1. enMemoria' = enMemoria /\ plan # "espera" /\ consola[q] # "libera"
      BY <1>0, <1>3, <2>3, <2>6, AtiendeMemoria, RegionUnica DEF MonitorMemoria
    <3> QED
      BY <1>0, <1>1, <2>2, <3>1 DEF EnMemoria, Alojado, Llegado
  <2> QED
    BY <2>1, <2>4, <2>5, <2>6, Region
<1> QED
  BY <1>2, <1>3 DEF RutinaMemoria

LEMMA EnMemoriaPaso ==
  ASSUME Inv, [PasoKernel]_estadoVars, NEW q \in Procesos
  PROVE  EnMemoria(q)'
<1>0. EnMemoria(q)
  BY DEF Inv, Coherente
<1>1. ASSUME NEW p \in Procesos, Hilos(p) PROVE EnMemoria(q)'
  <2>1. UNCHANGED <<consola, pcb, plan, planPcb, enMemoria>>
    BY <1>1 DEF Hilos, HiloPidePagina, HiloRecibePagina, HiloTomaRecurso, HiloSueltaDispositivo,
       HiloSueltaConsola, HiloIngresa, consolaVars, planVars, memVars, canalVars, PedirAMemoria,
       OperacionResuelta
  <2>2. CASE HiloPidePagina(p)
    <3>1. ~Atendido /\ ~Atendido'
      BY <2>2, RegionEntra
    <3> QED
      BY <1>0, <2>1, <3>1 DEF EnMemoria, Alojado, Llegado
  <2>3. CASE HiloRecibePagina(p)
    <3>1. plan # "espera" /\ consola[q] # "libera"
      BY <2>3, RegionUnica DEF HiloRecibePagina
    <3> QED
      BY <1>0, <2>1, <3>1 DEF EnMemoria, Alojado, Llegado
  <2>4. CASE ~HiloPidePagina(p) /\ ~HiloRecibePagina(p)
    <3>1. Atendido' = Atendido
      BY <1>1, <2>4 DEF Hilos, HiloTomaRecurso, HiloSueltaDispositivo, HiloSueltaConsola,
         HiloIngresa, memVars, regionVars, canalVars, Atendido
    <3> QED
      BY <1>0, <2>1, <3>1, EnMemoriaIgual
  <2> QED
    BY <2>2, <2>3, <2>4
<1>2. CASE UNCHANGED <<consola, pcb, planVars, memVars>>
  <2>1. UNCHANGED <<consola, pcb, plan, planPcb, enMemoria>> /\ Atendido' = Atendido
    BY <1>2 DEF planVars, memVars, regionVars, canalVars, Atendido
  <2> QED
    BY <1>0, <2>1, EnMemoriaIgual
<1>3. ASSUME NEW p \in Procesos, RetornoCpu(p) PROVE UNCHANGED <<consola, pcb, planVars, memVars>>
  BY <1>3 DEF RetornoCpu, DespachoDesalojo, DespachoFinaliza, DespachoPageFault, DespachoBloquea,
     consolaVars
<1>4. CASE DespachoDevuelveGrado
  <2>1. UNCHANGED <<consola, pcb, plan, planPcb, enMemoria>> /\ Atendido' = Atendido
    BY <1>4 DEF DespachoDevuelveGrado, consolaVars, memVars, regionVars, canalVars, Atendido
  <2> QED
    BY <1>0, <2>1, EnMemoriaIgual
<1>5. (Despacho /\ ~DespachoDevuelveGrado) \/ HiloAvisa \/ UNCHANGED estadoVars
        => UNCHANGED <<consola, pcb, planVars, memVars>>
  BY DEF Despacho, DespachoInicia, DespachoIngresa, DespachoAvisa, DespachoEspera,
     DespachoObtiene, HiloAvisa, consolaVars, estadoVars
<1> QED
  BY <1>1, <1>2, <1>3, <1>4, <1>5, EnMemoriaConsolas, EnMemoriaPlanificador,
     EnMemoriaRutina DEF PasoKernel, Paso

-----------------------------------------------------------------------------
(* The invariant, and what it says. *)

LEMMA InvInicial == Init => Inv
<1> SUFFICES ASSUME Init PROVE Inv
  OBVIOUS
<1>1. TipoInv /\ AvisosReady
  BY TipoInicial, AvisosInicial
<1>2. NuncaCae /\ enExec = Nulo
  BY DEF Init, NuncaCae
<1>3. ASSUME NEW p \in Procesos
      PROVE  PcbCoherente(p) /\ Conversa(p) /\ LugarPrevio(p) /\ LugarAdmitido(p) /\ EnMemoria(p)
  <2>1. /\ consola[p] = "conecta" /\ pcb[p] = "nada" /\ pipeline[p] = "MENSAJE"
        /\ semConsola[p] = 0 /\ semEspera[p] = 0 /\ hilo[p] = "ninguno" /\ enMemoria = {}
        /\ plan = "esperaNew" /\ planPcb # p /\ enExec # p
    BY <1>3, SupuestosKernel DEF Init, SupuestosKernel
  <2>2. Veces(colaNew, p) = 0 /\ Veces(colaRR, p) = 0 /\ Veces(colaFIFO, p) = 0
    BY VecesVacia DEF Init
  <2>3. PcbCoherente(p) /\ EnMemoria(p)
    BY <2>1 DEF PcbCoherente, EnMemoria, Alojado, Llegado
  <2>4. Conversa(p)
    BY <2>1 DEF Conversa, UsaConsola, Uno
  <2>5. LugarPrevio(p) /\ LugarAdmitido(p)
    BY <2>1, <2>2 DEF LugarPrevio, LugarAdmitido, Uno
  <2> QED
    BY <2>3, <2>4, <2>5
<1>4. AvisosNew
  <2>1. {p \in Procesos : consola[p] = "avisa"} = {}
    BY DEF Init
  <2>2. Cardinality({p \in Procesos : consola[p] = "avisa"}) = 0 /\ Len(colaNew) = 0
    BY <2>1, FS_EmptySet DEF Init
  <2> QED
    BY <2>2 DEF AvisosNew, Init, Uno
<1>5. GradoConservado
  <2>1. Admitidos = {}
    BY DEF Init, Admitidos
  <2>2. Cardinality(Admitidos) = 0
    BY <2>1, FS_EmptySet
  <2> QED
    BY <2>2, SupuestosKernel DEF GradoConservado, Init, Uno, SupuestosKernel
<1>6. DispositivoExclusivo
  <2> SUFFICES ASSUME NEW r \in Recursos PROVE semDispositivo[r] + Cardinality(Usan(r)) = 1
    BY DEF DispositivoExclusivo, Usan
  <2>1. Usan(r) = {}
    BY DEF Init, Usan
  <2>2. Cardinality(Usan(r)) = 0 /\ semDispositivo[r] = 1
    BY <2>1, FS_EmptySet DEF Init
  <2> QED
    BY <2>2
<1>7. MonitorMemoria
  <2>1. EnRegion = {} /\ {p \in Procesos : hilo[p] = "esperaPagina"} = {}
    BY DEF Init, EnRegion
  <2>2. Cardinality(EnRegion) = 0 /\ Cardinality({p \in Procesos : hilo[p] = "esperaPagina"}) = 0
    BY <2>1, FS_EmptySet
  <2>3. Uno(plan = "espera") = 0
    BY DEF Init, Uno
  <2>4. RegionOcupada = 0
    BY <2>2, <2>3 DEF RegionOcupada
  <2> QED
    BY <2>4 DEF MonitorMemoria, Init, Uno
<1>8. GradoVuelve
  BY DEF Init, GradoVuelve
<1> QED
  BY <1>1, <1>2, <1>3, <1>4, <1>5, <1>6, <1>7, <1>8 DEF Inv, Coherente, SemaforosExactos

LEMMA InvPaso == Inv /\ [PasoKernel]_estadoVars => Inv'
<1> SUFFICES ASSUME Inv, [PasoKernel]_estadoVars PROVE Inv'
  OBVIOUS
<1>1. TipoInv' /\ AvisosReady'
  BY TipoPaso, AvisosPaso DEF Inv
<1>2. Coherente'
  BY DialogoPaso, PrevioPaso, AdmitidoPaso, EnMemoriaPaso DEF Coherente
<1>3. SemaforosExactos' /\ GradoVuelve'
  BY AvisosNewPaso, GradoPaso, DispositivoPaso DEF SemaforosExactos
<1> QED
  BY <1>1, <1>2, <1>3, NuncaCaePaso, ManosPaso, MonitorPaso DEF Inv

LEMMA InvSiempre == Spec => []Inv
<1> QED
  BY InvInicial, InvPaso, PasoDeKernel, PTL DEF Spec

(* The Kernel never brings itself down, whatever devices the programs name *)
(* and whichever threads sale_de_exec cancels: the codes left in the       *)
(* pipeline, the lookups in pcb_list and the answers of Memoria are the    *)
(* expected ones in every interleaving of the threads.                     *)
THEOREM NuncaCaeCorrecto == Spec => [](NuncaCae)
<1>1. Inv => NuncaCae
  BY DEF Inv
<1> QED
  BY <1>1, InvSiempre, PTL

(* The semaphores of NEW, of the multiprogramming degree and of each       *)
(* device count exactly what they stand for.                               *)
THEOREM SemaforosCorrectos == Spec => [](SemaforosExactos)
<1>1. Inv => SemaforosExactos
  BY DEF Inv
<1> QED
  BY <1>1, InvSiempre, PTL

(* One thread at a time is in the region of the memory globals, and the    *)
(* answer of Memoria wakes the thread that asked.                          *)
THEOREM MonitorCorrecto == Spec => [](MonitorMemoria)
<1>1. Inv => MonitorMemoria
  BY DEF Inv
<1> QED
  BY <1>1, InvSiempre, PTL

(* A process is in one queue or in the hands of one thread, from its       *)
(* creation to its end.                                                    *)
THEOREM UnSoloLugarCorrecto == Spec => [](UnSoloLugar)
<1>1. ASSUME Inv PROVE UnSoloLugar
  <2> SUFFICES ASSUME NEW p \in Procesos
               PROVE  Veces(colaNew, p)
                        + Uno(planPcb = p /\ plan \in {"pide", "espera", "agrega", "ingresa"})
                        + Veces(colaRR, p) + Veces(colaFIFO, p) + Uno(enExec = p)
                        + Uno(hilo[p] # "ninguno")
                      = Uno(consola[p] # "conecta" /\ pipeline[p] # "EXIT")
    BY DEF UnSoloLugar
  <2>1. LugarPrevio(p) /\ LugarAdmitido(p) /\ PcbCoherente(p) /\ TipoInv /\ TipoConsola
    BY <1>1 DEF Inv, Coherente, TipoInv, TipoBase
  <2>2. Veces(colaNew, p) \in Nat /\ Veces(colaRR, p) \in Nat /\ Veces(colaFIFO, p) \in Nat
    BY <2>1, VecesReady
  <2>3. Uno(planPcb = p /\ plan \in {"pide", "espera", "agrega", "ingresa"})
          = Uno(planPcb = p /\ plan \in {"pide", "espera", "agrega"})
            + Uno(planPcb = p /\ plan = "ingresa")
    BY DEF Uno
  <2>4. Uno(pcb[p] = "creado") + Uno(pcb[p] = "listado" /\ pipeline[p] # "EXIT")
          = Uno(consola[p] # "conecta" /\ pipeline[p] # "EXIT")
    BY <2>1 DEF PcbCoherente, TipoConsola, Uno
  <2>5. /\ Uno(planPcb = p /\ plan \in {"pide", "espera", "agrega"}) \in {0, 1}
        /\ Uno(planPcb = p /\ plan = "ingresa") \in {0, 1}
        /\ Uno(enExec = p) \in {0, 1} /\ Uno(hilo[p] # "ninguno") \in {0, 1}
    BY DEF Uno
  <2> QED
    BY <2>1, <2>2, <2>3, <2>4, <2>5 DEF LugarPrevio, LugarAdmitido
<1> QED
  BY <1>1, InvSiempre, PTL

(* Memoria has every process that runs, is asked to create one that it has *)
(* not and to serve those that it has, and no more than Grado of those it  *)
(* has are not ending.                                                     *)
THEOREM PedidosAMemoriaCorrectos == Spec => [](PedidosAMemoria)
<1>1. ASSUME Inv PROVE PedidosAMemoria
  <2>0. /\ Coherente /\ MonitorMemoria /\ TipoInv /\ GradoConservado /\ NuncaCae
        /\ semRoutine \in Nat /\ semResolved \in Nat /\ semGrado \in Nat
        /\ Admitidos \subseteq Procesos /\ enMemoria \subseteq Procesos
    BY <1>1 DEF Inv, SemaforosExactos, TipoInv, TipoBase, TipoPlan, TipoMemoria, Admitidos
  <2>1. ASSUME canal = "pedido"
        PROVE  canalPid \in enMemoria <=> canalOp # "NUEVO_PROCESO"
    <3>1. RegionOcupada = 1 /\ ~Atendido
      BY <1>1, <2>0, <2>1, Region DEF MonitorMemoria, Uno, Atendido
    <3>2. canalOp = globalOp /\ canalPid = globalPcb
      BY <2>0, <2>1 DEF MonitorMemoria
    <3>3. CASE plan = "espera"
      <4>1. planPcb \in Procesos /\ canalPid = planPcb /\ canalOp = "NUEVO_PROCESO"
        BY <2>0, <3>2, <3>3 DEF MonitorMemoria, TipoInv, EnManos, NuncaCae, PasosPlan
      <4>2. pcb[planPcb] = "creado"
        BY <1>1, <3>3, <4>1, PcbPrevio
      <4> QED
        BY <2>0, <3>1, <3>3, <4>1, <4>2 DEF Coherente, EnMemoria, Alojado, Llegado
    <3>4. ASSUME NEW p \in Procesos, consola[p] = "libera"
          PROVE  canalPid \in enMemoria <=> canalOp # "NUEVO_PROCESO"
      <4>1. canalPid = p /\ canalOp = "EXIT_PROCESO"
        BY <2>0, <3>2, <3>4 DEF MonitorMemoria
      <4>2. pcb[p] = "listado"
        BY <2>0, <3>4 DEF Coherente, PcbCoherente
      <4> QED
        BY <2>0, <3>1, <3>4, <4>1, <4>2 DEF Coherente, EnMemoria, Alojado
    <3>5. ASSUME NEW p \in Procesos, hilo[p] = "esperaPagina"
          PROVE  canalPid \in enMemoria <=> canalOp # "NUEVO_PROCESO"
      <4>1. canalPid = p /\ canalOp = "PAGE_FAULT"
        BY <2>0, <3>2, <3>5 DEF MonitorMemoria
      <4>2. pcb[p] = "listado" /\ pipeline[p] # "EXIT"
        BY <1>1, <3>5, SoloHilo
      <4>3. consola[p] \notin {"libera", "destruye"}
        BY <2>0, <4>2 DEF Coherente, PcbCoherente
      <4> QED
        BY <2>0, <4>1, <4>2, <4>3 DEF Coherente, EnMemoria, Alojado
    <3> QED
      BY <1>1, <3>1, <3>3, <3>4, <3>5, Region
  <2>2. Admitidos \subseteq enMemoria
    BY <2>0 DEF Coherente, PcbCoherente, EnMemoria, Alojado, Admitidos
  <2>3. Cardinality({p \in enMemoria : pipeline[p] # "EXIT"}) <= Grado
    <3> DEFINE vivos == {p \in enMemoria : pipeline[p] # "EXIT"}
               toma == plan \in {"saca", "pide", "espera", "agrega"}
    <3>0. Cardinality(Admitidos) \in Nat /\ Cardinality(vivos) \in Nat /\ Grado \in Nat
      BY <2>0, Conteo, SupuestosKernel DEF SupuestosKernel
    <3>g. semGrado + Cardinality(Admitidos) + Uno(toma) + Uno(despacho = "grado") = Grado
      BY <2>0 DEF GradoConservado
    <3>1. CASE toma
      <4>1. vivos \subseteq Admitidos \cup {planPcb}
        BY <2>0 DEF Coherente, EnMemoria, Alojado, Llegado, Admitidos
      <4>2. IsFiniteSet(Admitidos)
        BY <2>0, Conteo
      <4>3. /\ IsFiniteSet(Admitidos \cup {planPcb})
            /\ Cardinality(Admitidos \cup {planPcb}) <= Cardinality(Admitidos) + 1
        BY <3>0, <4>2, FS_AddElement, SMTT(30)
      <4>4. Cardinality(vivos) <= Cardinality(Admitidos \cup {planPcb})
        BY <4>1, <4>3, FS_Subset
      <4>5. Cardinality(Admitidos \cup {planPcb}) \in Nat
        BY <4>3, FS_CardinalityType
      <4>6. Uno(toma) = 1 /\ Uno(despacho = "grado") \in {0, 1}
        BY <3>1 DEF Uno
      <4> HIDE DEF vivos, toma
      <4>7. Cardinality(vivos) <= Grado
        BY <2>0, <3>0, <3>g, <4>3, <4>4, <4>5, <4>6
      <4> QED
        BY <4>7 DEF vivos
    <3>2. CASE ~toma
      <4>1. vivos \subseteq Admitidos
        BY <2>0, <3>2 DEF Coherente, EnMemoria, Alojado, Llegado, Admitidos
      <4>2. IsFiniteSet(Admitidos)
        BY <2>0, Conteo
      <4>3. Cardinality(vivos) <= Cardinality(Admitidos)
        BY <4>1, <4>2, FS_Subset
      <4>4. Uno(toma) \in {0, 1} /\ Uno(despacho = "grado") \in {0, 1}
        BY DEF Uno
      <4> HIDE DEF vivos, toma
      <4>5. Cardinality(vivos) <= Grado
        BY <2>0, <3>0, <3>g, <4>3, <4>4
      <4> QED
        BY <4>5 DEF vivos
    <3> QED
      BY <3>1, <3>2
  <2> QED
    BY <2>1, <2>2, <2>3 DEF PedidosAMemoria
<1> QED
  BY <1>1, InvSiempre, PTL

(* The planner's log line may read a destroyed PCB only if there is        *)
(* another admitted process whose token the dispatcher took, and which is  *)
(* still in READY: never when the degree is 1.                             *)
THEOREM RegistroLeeVivoCorrecto == Spec => [](RegistroLeeVivo)
<1>1. ASSUME Inv, plan = "registra", ~PcbVivo(planPcb)
      PROVE  Grado > 1 /\ \E q \in Admitidos \ {planPcb} : Veces(colaRR, q) + Veces(colaFIFO, q) > 0
  <2>0. /\ TipoInv /\ TipoReady /\ GradoConservado /\ AvisosReady /\ NuncaCae
        /\ semReady \in Nat /\ porAvisar \in Nat /\ semGrado \in Nat
        /\ Admitidos \subseteq Procesos
    BY <1>1 DEF Inv, SemaforosExactos, TipoInv, TipoBase, TipoPlan, TipoReady, Admitidos
  <2>1. planPcb \in Procesos \ Admitidos
    BY <1>1, <2>0 DEF TipoInv, EnManos, NuncaCae, PasosPlan, PcbVivo, Admitidos
  <2>2. Len(colaRR) + Len(colaFIFO) >= 1
    BY <1>1, <2>0 DEF AvisosReady, Uno
  <2>3. PICK q \in Procesos : Veces(colaRR, q) > 0 \/ Veces(colaFIFO, q) > 0
    <3>1. CASE Len(colaRR) >= 1
      <4>1. colaRR[1] \in Procesos /\ 1 \in DOMAIN colaRR
        BY <2>0, <3>1, LenProperties, ElementOfSeq DEF TipoReady
      <4>2. EnCola(colaRR, colaRR[1])
        BY <4>1 DEF EnCola
      <4> QED
        BY <2>0, <4>1, <4>2, VecesTipo DEF TipoReady
    <3>2. CASE Len(colaFIFO) >= 1
      <4>1. colaFIFO[1] \in Procesos /\ 1 \in DOMAIN colaFIFO
        BY <2>0, <3>2, LenProperties, ElementOfSeq DEF TipoReady
      <4>2. EnCola(colaFIFO, colaFIFO[1])
        BY <4>1 DEF EnCola
      <4> QED
        BY <2>0, <4>1, <4>2, VecesTipo DEF TipoReady
    <3>3. Len(colaRR) \in Nat /\ Len(colaFIFO) \in Nat
      BY <2>0, LenProperties DEF TipoReady
    <3> QED
      BY <2>2, <3>1, <3>2, <3>3
  <2>4. q \in Admitidos
    BY <1>1, <2>3, PcbAdmitido DEF Admitidos
  <2>5. Veces(colaRR, q) \in Nat /\ Veces(colaFIFO, q) \in Nat
    BY <2>0, VecesReady
  <2>6. Veces(colaRR, q) + Veces(colaFIFO, q) > 0
    BY <2>3, <2>5
  <2>7. Cardinality(Admitidos) >= 1 /\ Cardinality(Admitidos) \in Nat
    BY <2>0, <2>4, Conteo
  <2>8. semGrado + Uno(despacho = "grado") >= 1
    BY <1>1, <2>1 DEF Inv, GradoVuelve
  <2>9. semGrado + Cardinality(Admitidos) + 0 + Uno(despacho = "grado") = Grado
    BY <1>1, <2>0 DEF GradoConservado, Uno
  <2>10. Uno(despacho = "grado") \in {0, 1} /\ Grado \in Nat
    BY SupuestosKernel DEF Uno, SupuestosKernel
  <2>11. Grado > 1
    BY <2>0, <2>7, <2>8, <2>9, <2>10
  <2> QED
    BY <2>1, <2>4, <2>6, <2>11
<1>2. Inv => RegistroLeeVivo
  BY <1>1 DEF RegistroLeeVivo
<1> QED
  BY <1>2, InvSiempre, PTL

-----------------------------------------------------------------------------
(***************************************************************************)
(* The Kernel implements the process diagram of EstadosProceso: each step  *)
(* of each thread is a transition of the diagram, or a stutter, under the  *)
(* mapping EstadoDe of KernelPropiedades.                                  *)
(***************************************************************************)

(* The diagram's variable. *)
Mapa == [p \in Procesos |-> EstadoDe(p)]

EnReady(p) == EnCola(colaRR, p) \/ EnCola(colaFIFO, p)

-----------------------------------------------------------------------------
LEMMA RefInicial == Init => Estados!Init
<1> SUFFICES ASSUME Init, NEW p \in Procesos PROVE EstadoDe(p) = "INICIO"
  BY DEF Estados!Init
<1> QED
  BY DEF Init, EstadoDe

-----------------------------------------------------------------------------
(* The mapping and the diagram's transitions. *)

LEMMA EstadoIgual ==
  ASSUME NEW q,
         consola'[q] = "conecta" <=> consola[q] = "conecta",
         pipeline'[q] = "EXIT" <=> pipeline[q] = "EXIT",
         enExec' = q <=> enExec = q,
         hilo'[q] # "ninguno" <=> hilo[q] # "ninguno",
         EnReady(q)' <=> EnReady(q)
  PROVE  EstadoDe(q)' = EstadoDe(q)
  BY DEF EstadoDe, EnReady

LEMMA MapaPasa ==
  ASSUME NEW p \in Procesos, NEW desde, NEW hasta, EstadoDe(p) = desde, EstadoDe(p)' = hasta,
         \A q \in Procesos \ {p} : EstadoDe(q)' = EstadoDe(q)
  PROVE  Estados!Pasa(p, desde, hasta)
<1>1. \A q \in Procesos : EstadoDe(q)' = [Mapa EXCEPT ![p] = hasta][q]
  BY DEF Mapa
<1>2. Mapa' = [q \in Procesos |-> EstadoDe(q)']
  BY DEF Mapa
<1>3. Mapa' = [Mapa EXCEPT ![p] = hasta]
  BY <1>1, <1>2 DEF Mapa
<1>4. Mapa[p] = desde
  BY DEF Mapa
<1> QED
  BY <1>3, <1>4 DEF Estados!Pasa, Mapa

LEMMA MapaIgual ==
  ASSUME \A q \in Procesos : EstadoDe(q)' = EstadoDe(q)
  PROVE  UNCHANGED Mapa
  BY DEF Mapa

(* READY holds the processes with a place in one of its queues. *)
LEMMA ReadyVeces ==
  ASSUME TipoReady, NEW q
  PROVE  /\ Veces(colaRR, q) \in Nat /\ Veces(colaFIFO, q) \in Nat
         /\ EnReady(q) <=> Veces(colaRR, q) + Veces(colaFIFO, q) > 0
<1>1. /\ Veces(colaRR, q) \in Nat /\ (Veces(colaRR, q) > 0 <=> EnCola(colaRR, q))
      /\ Veces(colaFIFO, q) \in Nat /\ (Veces(colaFIFO, q) > 0 <=> EnCola(colaFIFO, q))
  BY VecesTipo DEF TipoReady
<1> QED
  BY <1>1 DEF EnReady

LEMMA ReadyIngresar ==
  ASSUME TipoReady, NEW p \in Procesos, NEW source, IngresarAReady(p, source), NEW q
  PROVE  EnReady(q)' <=> EnReady(q) \/ q = p
<1>1. /\ Veces(colaRR', q) \in Nat /\ Veces(colaFIFO', q) \in Nat
      /\ Veces(colaRR', q) + Veces(colaFIFO', q) = Veces(colaRR, q) + Veces(colaFIFO, q) + Uno(q = p)
  BY IngresarVeces
<1>2. /\ Veces(colaRR', q) > 0 <=> EnCola(colaRR', q)
      /\ Veces(colaFIFO', q) > 0 <=> EnCola(colaFIFO', q)
  BY IngresarTipo, VecesTipo
<1>3. EnReady(q)' <=> Veces(colaRR', q) + Veces(colaFIFO', q) > 0
  BY <1>1, <1>2 DEF EnReady
<1>4. /\ Veces(colaRR, q) \in Nat /\ Veces(colaFIFO, q) \in Nat
      /\ EnReady(q) <=> Veces(colaRR, q) + Veces(colaFIFO, q) > 0
  BY ReadyVeces
<1>5. Uno(q = p) \in {0, 1} /\ (Uno(q = p) = 1 <=> q = p)
  BY DEF Uno
<1> QED
  BY <1>1, <1>3, <1>4, <1>5

LEMMA ReadyObtener ==
  ASSUME TipoInv, TipoInv', AvisosReady, DespachoObtiene, NEW q
  PROVE  EnReady(q) <=> EnReady(q)' \/ q = enExec'
<1>0. TipoReady
  BY DEF TipoInv, TipoBase
<1>1. /\ Veces(colaRR', q) \in Nat /\ Veces(colaFIFO', q) \in Nat
      /\ Veces(colaRR, q) + Veces(colaFIFO, q)
           = Veces(colaRR', q) + Veces(colaFIFO', q) + Uno(enExec' = q)
  BY ObtenerVeces
<1>2. /\ Veces(colaRR', q) > 0 <=> EnCola(colaRR', q)
      /\ Veces(colaFIFO', q) > 0 <=> EnCola(colaFIFO', q)
  BY VecesTipo DEF TipoInv, TipoBase, TipoReady
<1>3. EnReady(q)' <=> Veces(colaRR', q) + Veces(colaFIFO', q) > 0
  BY <1>1, <1>2 DEF EnReady
<1>4. /\ Veces(colaRR, q) \in Nat /\ Veces(colaFIFO, q) \in Nat
      /\ EnReady(q) <=> Veces(colaRR, q) + Veces(colaFIFO, q) > 0
  BY <1>0, ReadyVeces
<1>5. Uno(enExec' = q) \in {0, 1} /\ (Uno(enExec' = q) = 1 <=> q = enExec')
  BY DEF Uno
<1> QED
  BY <1>1, <1>3, <1>4, <1>5

(* At most one of the summands of a one is not zero. *)
LEMMA UnSumando ==
  \A e, c, h, n \in {0, 1}, a, b \in Nat :
    e + a + b + c + h = n =>
      /\ c = 1 => ~(a + b > 0) /\ h = 0 /\ n = 1
      /\ h = 1 => ~(a + b > 0) /\ c = 0 /\ n = 1
      /\ e = 1 => ~(a + b > 0) /\ c = 0 /\ h = 0 /\ n = 1
      /\ a + b > 0 => c = 0 /\ h = 0 /\ n = 1
OBVIOUS

(* A process with the CPU, with a thread or with the planner is not in     *)
(* READY, nor in another of these places.                                  *)
LEMMA UnLugar ==
  ASSUME Inv, NEW p \in Procesos
  PROVE  /\ enExec = p => /\ EstadoDe(p) = "EXEC" /\ ~EnReady(p) /\ hilo[p] = "ninguno"
                          /\ consola[p] # "conecta" /\ pipeline[p] # "EXIT"
         /\ hilo[p] # "ninguno" => /\ EstadoDe(p) = "BLOCKED" /\ ~EnReady(p) /\ enExec # p
                                   /\ consola[p] # "conecta" /\ pipeline[p] # "EXIT"
         /\ planPcb = p /\ plan = "ingresa" =>
              /\ EstadoDe(p) = "NEW" /\ ~EnReady(p) /\ enExec # p /\ hilo[p] = "ninguno"
              /\ consola[p] # "conecta" /\ pipeline[p] # "EXIT"
         /\ EnReady(p) => /\ EstadoDe(p) = "READY" /\ enExec # p /\ hilo[p] = "ninguno"
                          /\ consola[p] # "conecta" /\ pipeline[p] # "EXIT"
<1> DEFINE enPlan == Uno(planPcb = p /\ plan = "ingresa")
           enCpu == Uno(enExec = p)
           enHilo == Uno(hilo[p] # "ninguno")
           admitido == Uno(pcb[p] = "listado" /\ pipeline[p] # "EXIT")
<1>0. LugarAdmitido(p) /\ PcbCoherente(p) /\ TipoReady
  BY DEF Inv, Coherente, TipoInv, TipoBase
<1>1. /\ enPlan \in {0, 1} /\ enCpu \in {0, 1} /\ enHilo \in {0, 1} /\ admitido \in {0, 1}
      /\ enPlan = 1 <=> planPcb = p /\ plan = "ingresa"
      /\ enCpu = 1 <=> enExec = p
      /\ enHilo = 1 <=> hilo[p] # "ninguno"
      /\ admitido = 1 <=> pcb[p] = "listado" /\ pipeline[p] # "EXIT"
  BY DEF Uno
<1>2. enPlan + Veces(colaRR, p) + Veces(colaFIFO, p) + enCpu + enHilo = admitido
  BY <1>0 DEF LugarAdmitido
<1>3. /\ Veces(colaRR, p) \in Nat /\ Veces(colaFIFO, p) \in Nat
      /\ EnReady(p) <=> Veces(colaRR, p) + Veces(colaFIFO, p) > 0
  BY <1>0, ReadyVeces
<1> HIDE DEF enPlan, enCpu, enHilo, admitido
<1>4. /\ enCpu = 1 => ~EnReady(p) /\ enHilo = 0 /\ admitido = 1
      /\ enHilo = 1 => ~EnReady(p) /\ enCpu = 0 /\ admitido = 1
      /\ enPlan = 1 => ~EnReady(p) /\ enCpu = 0 /\ enHilo = 0 /\ admitido = 1
      /\ EnReady(p) => enCpu = 0 /\ enHilo = 0 /\ admitido = 1
  <2> DEFINE a == Veces(colaRR, p)
             b == Veces(colaFIFO, p)
  <2>1. /\ enCpu = 1 => ~(a + b > 0) /\ enHilo = 0 /\ admitido = 1
        /\ enHilo = 1 => ~(a + b > 0) /\ enCpu = 0 /\ admitido = 1
        /\ enPlan = 1 => ~(a + b > 0) /\ enCpu = 0 /\ enHilo = 0 /\ admitido = 1
        /\ a + b > 0 => enCpu = 0 /\ enHilo = 0 /\ admitido = 1
    BY <1>1, <1>2, <1>3, UnSumando
  <2> QED
    BY <1>3, <2>1
<1>5. admitido = 1 => consola[p] # "conecta" /\ pipeline[p] # "EXIT"
  BY <1>0, <1>1 DEF PcbCoherente
<1> QED
  BY <1>1, <1>4, <1>5 DEF EstadoDe, EnReady

-----------------------------------------------------------------------------
(* Every step is a transition of the diagram or a stutter. *)

LEMMA RefConsolas ==
  ASSUME Inv, NEW p \in Procesos, Consolas(p)
  PROVE  Estados!Next \/ UNCHANGED Mapa
<1>0. PcbCoherente(p) /\ Conversa(p) /\ TipoInv /\ TipoConsola
  BY DEF Inv, Coherente, TipoInv, TipoBase
<1>1. UNCHANGED <<enExec, hilo, colaRR, colaFIFO>>
  BY DEF Consolas, ConsolaCrea, ConsolaAvisa, ConsolaDespierta, ConsolaRecibe, ConsolaPideSalida,
     ConsolaLibera, ConsolaDestruye, readyVars, despVars, hiloVars
<1>2. \A q \in Procesos \ {p} : EstadoDe(q)' = EstadoDe(q)
  BY <1>0, <1>1, IgualOtro, EstadoIgual DEF IgualDe, EnReady
<1>3. CASE ConsolaCrea(p)
  <2>1. /\ consola[p] = "conecta" /\ consola'[p] = "avisa"
        /\ pipeline'[p] = "MENSAJE"
    BY <1>0, <1>3 DEF ConsolaCrea, TipoConsola
  <2>2. enExec # p /\ hilo[p] = "ninguno" /\ ~EnReady(p)
    BY <2>1, UnLugar
  <2>3. EstadoDe(p) = "INICIO" /\ EstadoDe(p)' = "NEW"
    BY <1>1, <2>1, <2>2 DEF EstadoDe, EnReady
  <2>4. Estados!Crear(p)
    BY <1>2, <2>3, MapaPasa DEF Estados!Crear
  <2> QED
    BY <2>4 DEF Estados!Next
<1>4. CASE ~ConsolaCrea(p)
  <2>1. /\ consola'[p] = "conecta" <=> consola[p] = "conecta"
        /\ pipeline'[p] = "EXIT" <=> pipeline[p] = "EXIT"
    <3>1. CASE ConsolaRecibe(p)
      BY <1>0, <3>1 DEF ConsolaRecibe, TipoConsola, Conversa, PedidoConsola
    <3>2. CASE ~ConsolaRecibe(p)
      BY <1>0, <1>4, <3>2 DEF Consolas, ConsolaAvisa, ConsolaDespierta, ConsolaPideSalida,
         ConsolaLibera, ConsolaDestruye, TipoConsola
    <3> QED
      BY <3>1, <3>2
  <2>2. EstadoDe(p)' = EstadoDe(p)
    BY <1>1, <2>1, EstadoIgual DEF EnReady
  <2> QED
    BY <1>2, <2>2, MapaIgual
<1> QED
  BY <1>3, <1>4

LEMMA RefRetorno ==
  ASSUME Inv, NEW p \in Procesos, RetornoCpu(p)
  PROVE  Estados!Next \/ UNCHANGED Mapa
<1>0. TipoInv /\ TipoConsola /\ TipoHilo /\ p # Nulo
  BY SupuestosKernel DEF Inv, TipoInv, TipoBase, SupuestosKernel
<1>1. enExec = p /\ UNCHANGED <<consola, colaRR, colaFIFO>>
  BY DEF RetornoCpu, DespachoDesalojo, DespachoFinaliza, DespachoPageFault, DespachoBloquea,
     CpuDevuelve, consolaVars, readyVars
<1>2. /\ EstadoDe(p) = "EXEC" /\ ~EnReady(p) /\ hilo[p] = "ninguno"
      /\ consola[p] # "conecta" /\ pipeline[p] # "EXIT"
  BY <1>1, UnLugar
<1>3. CASE DespachoDesalojo(p)
  <2>1. UNCHANGED <<enExec, hilo, pipeline>>
    BY <1>3 DEF DespachoDesalojo, hiloVars, consolaVars
  <2> QED
    BY <1>1, <2>1, EstadoIgual, MapaIgual DEF EnReady
<1>4. CASE enExec' = Nulo
  <2>1. \A q \in Procesos \ {p} : EstadoDe(q)' = EstadoDe(q)
    <3> TAKE q \in Procesos \ {p}
    <3>1. IgualDe(q)
      BY <1>0, IgualOtro
    <3>2. enExec' # q /\ enExec # q
      BY <1>1, <1>4, SupuestosKernel DEF SupuestosKernel
    <3> QED
      BY <1>1, <3>1, <3>2, EstadoIgual DEF IgualDe, EnReady
  <2>2. CASE DespachoFinaliza(p)
    <3>1. pipeline'[p] = "EXIT"
      BY <1>0, <2>2 DEF DespachoFinaliza, TipoConsola
    <3>2. EstadoDe(p)' = "EXIT"
      BY <1>1, <1>2, <3>1 DEF EstadoDe
    <3>3. Estados!Finalizar(p)
      BY <1>2, <2>1, <3>2, MapaPasa DEF Estados!Finalizar
    <3> QED
      BY <3>3 DEF Estados!Next
  <2>3. CASE DespachoPageFault(p) \/ \E r \in Solicitudes : DespachoBloquea(p, r)
    <3>1. hilo'[p] # "ninguno" /\ UNCHANGED pipeline
      BY <1>0, <2>3 DEF DespachoPageFault, DespachoBloquea, TipoHilo, consolaVars
    <3>2. EstadoDe(p)' = "BLOCKED"
      BY <1>0, <1>1, <1>2, <1>4, <3>1 DEF EstadoDe
    <3>3. Estados!Bloquear(p)
      BY <1>2, <2>1, <3>2, MapaPasa DEF Estados!Bloquear
    <3> QED
      BY <3>3 DEF Estados!Next
  <2>4. CASE DespachoDesalojo(p)
    BY <1>3, <2>4
  <2> QED
    BY <2>2, <2>3, <2>4 DEF RetornoCpu
<1> QED
  BY <1>3, <1>4 DEF RetornoCpu, DespachoFinaliza, DespachoPageFault, DespachoBloquea

LEMMA RefHilos ==
  ASSUME Inv, NEW p \in Procesos, Hilos(p)
  PROVE  Estados!Next \/ UNCHANGED Mapa
<1>0. TipoInv /\ TipoConsola /\ TipoHilo /\ TipoReady
  BY DEF Inv, TipoInv, TipoBase
<1>1. hilo[p] # "ninguno" /\ UNCHANGED <<consola, enExec>>
  BY DEF Hilos, HiloPidePagina, HiloRecibePagina, HiloTomaRecurso, HiloSueltaDispositivo,
     HiloSueltaConsola, HiloIngresa, consolaVars, despVars
<1>2. /\ EstadoDe(p) = "BLOCKED" /\ ~EnReady(p) /\ enExec # p
      /\ consola[p] # "conecta" /\ pipeline[p] # "EXIT"
  BY <1>1, UnLugar
<1>3. CASE HiloIngresa(p)
  <2>1. IngresarAReady(p, "BLOQUEO_PROCESO") /\ UNCHANGED pipeline /\ hilo'[p] = "ninguno"
    BY <1>0, <1>3 DEF HiloIngresa, consolaVars, TipoHilo
  <2>2. \A q \in Procesos : EnReady(q)' <=> EnReady(q) \/ q = p
    BY <1>0, <2>1, ReadyIngresar
  <2>3. \A q \in Procesos \ {p} : EstadoDe(q)' = EstadoDe(q)
    BY <1>0, <1>1, <2>2, IgualOtro, EstadoIgual DEF IgualDe
  <2>4. EnReady(p)'
    BY <2>2
  <2>5. EstadoDe(p)' = "READY"
    BY <1>1, <1>2, <2>1, <2>4 DEF EstadoDe, EnReady
  <2>6. Estados!Despertar(p)
    BY <1>2, <2>3, <2>5, MapaPasa DEF Estados!Despertar
  <2> QED
    BY <2>6 DEF Estados!Next
<1>4. CASE ~HiloIngresa(p)
  <2>1. UNCHANGED <<colaRR, colaFIFO>> /\ hilo'[p] # "ninguno"
    BY <1>0, <1>4 DEF Hilos, HiloPidePagina, HiloRecibePagina, HiloTomaRecurso,
       HiloSueltaDispositivo, HiloSueltaConsola, SueltaRecurso, readyVars, TipoHilo
  <2>2. pipeline'[p] # "EXIT"
    BY <1>0, <1>2, <1>4 DEF Hilos, HiloPidePagina, HiloRecibePagina, HiloTomaRecurso,
       HiloSueltaDispositivo, HiloSueltaConsola, consolaVars, TipoConsola, PedidoConsola
  <2>3. \A q \in Procesos \ {p} : EstadoDe(q)' = EstadoDe(q)
    BY <1>0, <1>1, <2>1, IgualOtro, EstadoIgual DEF IgualDe, EnReady
  <2>4. EstadoDe(p)' = EstadoDe(p)
    BY <1>1, <1>2, <2>1, <2>2, EstadoIgual DEF EnReady
  <2> QED
    BY <2>3, <2>4, MapaIgual
<1> QED
  BY <1>3, <1>4

LEMMA RefPlanificador ==
  ASSUME Inv, Planificador
  PROVE  Estados!Next \/ UNCHANGED Mapa
<1>0. TipoInv /\ TipoReady /\ GradoConservado /\ NuncaCae /\ semGrado \in Nat
  BY DEF Inv, TipoInv, TipoBase, SemaforosExactos, TipoPlan
<1>1. UNCHANGED <<consola, pipeline, enExec, hilo>>
  BY DEF Planificador, PlanEsperaNew, PlanEsperaGrado, PlanSaca, PlanPideMemoria,
     PlanRecibeMemoria, PlanAgrega, PlanIngresa, PlanRegistra, PlanAvisa, consolaVars, despVars,
     hiloVars
<1>2. CASE PlanIngresa
  <2> DEFINE activos == {q \in Procesos : Mapa[q] \in {"READY", "EXEC", "BLOCKED"}}
  <2>1. PICK p \in Procesos : /\ planPcb = p /\ plan = "ingresa"
                             /\ IngresarAReady(p, "NUEVO_PROCESO")
    BY <1>0, <1>2 DEF PlanIngresa, TipoInv, EnManos, NuncaCae, PasosPlan
  <2>2. /\ EstadoDe(p) = "NEW" /\ ~EnReady(p) /\ enExec # p /\ hilo[p] = "ninguno"
        /\ consola[p] # "conecta" /\ pipeline[p] # "EXIT"
    BY <2>1, UnLugar
  <2>3. \A q \in Procesos : EnReady(q)' <=> EnReady(q) \/ q = p
    BY <1>0, <2>1, ReadyIngresar
  <2>4. \A q \in Procesos \ {p} : EstadoDe(q)' = EstadoDe(q)
    BY <1>1, <2>3, EstadoIgual
  <2>5. EnReady(p)'
    BY <2>1, <2>3
  <2>6. EstadoDe(p)' = "READY"
    BY <1>1, <2>2, <2>5 DEF EstadoDe, EnReady
  <2>7. activos \subseteq Admitidos \ {p}
    <3> SUFFICES ASSUME NEW q \in Procesos, EstadoDe(q) \in {"READY", "EXEC", "BLOCKED"}
                 PROVE  q \in Admitidos /\ q # p
      BY DEF Mapa
    <3>1. EnReady(q) \/ enExec = q \/ hilo[q] # "ninguno"
      BY DEF EstadoDe, EnReady
    <3>2. EnReady(q) => Veces(colaRR, q) > 0 \/ Veces(colaFIFO, q) > 0
      BY <1>0, VecesTipo DEF EnReady, TipoReady
    <3>3. pcb[q] = "listado" /\ pipeline[q] # "EXIT"
      BY <3>1, <3>2, PcbAdmitido
    <3> QED
      BY <2>2, <3>3 DEF Admitidos
  <2>8. p \in Admitidos /\ Admitidos \subseteq Procesos
    BY <2>1, PcbAdmitido DEF Admitidos
  <2>9. Cardinality(activos) < Grado
    <3> HIDE DEF activos
    <3>1. /\ IsFiniteSet(Admitidos \ {p}) /\ Cardinality(Admitidos) \in Nat
          /\ Cardinality(Admitidos \ {p}) = Cardinality(Admitidos) - 1
      BY <2>8, Conteo
    <3>2. Cardinality(activos) <= Cardinality(Admitidos \ {p}) /\ Cardinality(activos) \in Nat
      BY <2>7, <3>1, FS_Subset, FS_CardinalityType
    <3>3. semGrado + Cardinality(Admitidos) + 0 + Uno(despacho = "grado") = Grado
      BY <1>0, <2>1 DEF GradoConservado, Uno
    <3>4. Uno(despacho = "grado") \in {0, 1} /\ Grado \in Nat
      BY SupuestosKernel DEF Uno, SupuestosKernel
    <3> QED
      BY <1>0, <3>1, <3>2, <3>3, <3>4
  <2>10. Estados!Activos = activos
    BY DEF Estados!Activos, Mapa
  <2>11. Estados!Cardinality(activos) = Cardinality(activos)
    BY DEF Estados!Cardinality, Cardinality
  <2>12. Estados!Pasa(p, "NEW", "READY")
    BY <2>2, <2>4, <2>6, MapaPasa
  <2>13. Estados!Admitir(p)
    BY <2>9, <2>10, <2>11, <2>12 DEF Estados!Admitir
  <2> QED
    BY <2>13 DEF Estados!Next
<1>3. CASE ~PlanIngresa
  <2>1. UNCHANGED <<colaRR, colaFIFO>>
    BY <1>3 DEF Planificador, PlanEsperaNew, PlanEsperaGrado, PlanSaca, PlanPideMemoria,
     PlanRecibeMemoria, PlanAgrega, PlanRegistra, PlanAvisa, readyVars
  <2> QED
    BY <1>1, <2>1, EstadoIgual, MapaIgual DEF EnReady
<1> QED
  BY <1>2, <1>3

LEMMA RefDespacho ==
  ASSUME Inv, Despacho
  PROVE  Estados!Next \/ UNCHANGED Mapa
<1>0. TipoInv /\ TipoReady /\ AvisosReady /\ NuncaCae
  BY DEF Inv, TipoInv, TipoBase
<1>1. UNCHANGED <<consola, pipeline, hilo>>
  BY DEF Despacho, DespachoInicia, DespachoIngresa, DespachoAvisa, DespachoDevuelveGrado,
     DespachoEspera, DespachoObtiene, consolaVars, hiloVars
<1>2. CASE DespachoIngresa
  <2>1. PICK p \in Procesos : enExec = p /\ IngresarAReady(p, "DESALOJO_PROCESO") /\ enExec' = Nulo
    BY <1>0, <1>2 DEF DespachoIngresa, TipoInv, EnManos, NuncaCae
  <2>2. /\ EstadoDe(p) = "EXEC" /\ hilo[p] = "ninguno"
        /\ consola[p] # "conecta" /\ pipeline[p] # "EXIT"
    BY <2>1, UnLugar
  <2>3. \A q \in Procesos : EnReady(q)' <=> EnReady(q) \/ q = p
    BY <1>0, <2>1, ReadyIngresar
  <2>4. \A q \in Procesos : enExec' # q
    BY <2>1, SupuestosKernel DEF SupuestosKernel
  <2>5. \A q \in Procesos \ {p} : EstadoDe(q)' = EstadoDe(q)
    BY <1>1, <2>1, <2>3, <2>4, EstadoIgual
  <2>6. EnReady(p)' /\ enExec' # p
    BY <2>1, <2>3, <2>4
  <2>7. EstadoDe(p)' = "READY"
    BY <1>1, <2>2, <2>6 DEF EstadoDe, EnReady
  <2>8. Estados!Desalojar(p)
    BY <2>1, <2>2, <2>5, <2>7, MapaPasa DEF Estados!Desalojar
  <2> QED
    BY <2>1, <2>8 DEF Estados!Next
<1>3. CASE DespachoObtiene
  <2>1. PICK p \in Procesos : enExec = Nulo /\ enExec' = p
    BY <1>0, <1>3, ObtenerVeces DEF DespachoObtiene, Inv
  <2>2. TipoInv'
    BY <1>0, <1>3, TipoPaso DEF PasoKernel, Paso, Despacho, NuncaCae
  <2>3. \A q : EnReady(q) <=> EnReady(q)' \/ q = p
    BY <1>0, <1>3, <2>1, <2>2, ReadyObtener
  <2>4. /\ EstadoDe(p) = "READY" /\ hilo[p] = "ninguno"
        /\ consola[p] # "conecta" /\ pipeline[p] # "EXIT"
    BY <2>1, <2>3, UnLugar
  <2>5. \A q \in Procesos : enExec # q
    BY <2>1, SupuestosKernel DEF SupuestosKernel
  <2>6. \A q \in Procesos \ {p} : EstadoDe(q)' = EstadoDe(q)
    BY <1>1, <2>1, <2>3, <2>5, EstadoIgual
  <2>7. EstadoDe(p)' = "EXEC"
    BY <1>1, <2>1, <2>4 DEF EstadoDe
  <2>8. \A q \in Procesos : Mapa[q] # "EXEC"
    BY <2>5 DEF Mapa, EstadoDe
  <2>9. Estados!Despachar(p)
    BY <2>4, <2>6, <2>7, <2>8, MapaPasa DEF Estados!Despachar, Mapa
  <2> QED
    BY <2>1, <2>9 DEF Estados!Next
<1>4. CASE ~DespachoIngresa /\ ~DespachoObtiene
  <2>1. UNCHANGED <<colaRR, colaFIFO, enExec>>
    BY <1>4 DEF Despacho, DespachoInicia, DespachoAvisa, DespachoDevuelveGrado, DespachoEspera,
       readyVars
  <2> QED
    BY <1>1, <2>1, EstadoIgual, MapaIgual DEF EnReady
<1> QED
  BY <1>2, <1>3, <1>4

LEMMA RefPaso == Inv /\ [PasoKernel]_estadoVars => [Estados!Next]_Mapa
<1> SUFFICES ASSUME Inv, [PasoKernel]_estadoVars PROVE Estados!Next \/ UNCHANGED Mapa
  OBVIOUS
<1>1. CASE HiloAvisa \/ RutinaMemoria \/ UNCHANGED estadoVars
  <2>1. UNCHANGED <<consola, pipeline, hilo, colaRR, colaFIFO, enExec>>
    BY <1>1 DEF HiloAvisa, RutinaMemoria, MemoriaEnvia, MemoriaAtiende, MemoriaRecibe,
       consolaVars, readyVars, despVars, hiloVars, estadoVars
  <2> QED
    BY <2>1, EstadoIgual, MapaIgual DEF EnReady
<1> QED
  BY <1>1, RefConsolas, RefRetorno, RefHilos, RefPlanificador, RefDespacho DEF PasoKernel, Paso

(* The Kernel implements the process diagram: no interleaving of its       *)
(* threads takes a process through a transition that the diagram lacks,    *)
(* puts two in EXEC or admits one beyond the multiprogramming degree.      *)
THEOREM ImplementaEstadosCorrecto == Spec => ImplementaEstados
<1>1. Init => Estados!Init
  BY RefInicial
<1>2. Inv /\ [Next]_vars => [Estados!Next]_[p \in Procesos |-> EstadoDe(p)]
  BY RefPaso, PasoDeKernel DEF Mapa
<1>3. Spec => []Inv
  BY InvSiempre
<1> QED
  BY <1>1, <1>2, <1>3, PTL DEF Spec, ImplementaEstados, Estados!Spec
=============================================================================
