--------------------------- MODULE QuantumProofs ---------------------------
(***************************************************************************)
(* Machine-checked proofs about the quantum, for every set of processes    *)
(* and threads, every algorithm and every length of the quantum.           *)
(***************************************************************************)
EXTENDS QuantumPropiedades, FiniteSetTheorems, SequenceTheorems, TLAPS

(* Which steps have a process in their hands.  Without it TypeOK is not    *)
(* inductive: a clock or a turn without a process could put Nulo in READY  *)
(* or in a notice, and the CPU return a context with no reason.            *)
EnManos ==
    /\ despacho # "obtiene" => enExec \in Procesos
    /\ \A k \in Hilos : hilo[k] \notin {"libre", "otro"} => hiloPid[k] \in Procesos
    /\ semRoutine > 0 \/ interrup = "copia" => globalPid \in Procesos
    /\ interrup = "envia" => localPid \in Procesos
    /\ semEnvio > 0 => operacion \in Retornos
    /\ isRR => ultimo \in Hilos

TipoInv == TypeOK /\ EnManos /\ ContextoExclusivo /\ BuzonExclusivo /\ AvisosEnOrden

LEMMA TipoInicial == Init => TipoInv
<1> SUFFICES ASSUME Init PROVE TipoInv
  OBVIOUS
<1> USE SupuestosQuantum DEF SupuestosQuantum, Init
<1>1. TipoReady
  BY DEF TipoReady
<1>6. TipoDespacho
  BY DEF TipoDespacho
<1>2. TipoHilos
  BY DEF TipoHilos, PasosHilo
<1>3. TipoAvisos
  BY DEF TipoAvisos
<1>7. TipoFlag
  BY DEF TipoFlag
<1>4. TipoRed /\ TipoCpu
  BY DEF TipoRed, TipoCpu, SinPcb, Retornos
<1>5. EnManos
  BY DEF EnManos
<1>8. ContextoExclusivo
  BY DEF ContextoExclusivo, Uno
<1>9. BuzonExclusivo
  <2>1. {k \in Hilos : hilo[k] = "escribe"} = {}
    OBVIOUS
  <2>2. Cardinality({k \in Hilos : hilo[k] = "escribe"}) = 0
    BY <2>1, FS_EmptySet
  <2> QED
    BY <2>2 DEF BuzonExclusivo, Uno
<1>10. AvisosEnOrden
  BY ConcatEmptySeq DEF AvisosEnOrden
<1> QED
  BY <1>1, <1>2, <1>3, <1>4, <1>5, <1>6, <1>7, <1>8, <1>9, <1>10 DEF TipoInv, TypeOK

(* Pushing to, and taking from, a queue of processes. *)
LEMMA Colas ==
  ASSUME NEW s \in Seq(Procesos)
  PROVE  /\ \A p \in Procesos : Append(s, p) \in Seq(Procesos)
         /\ s # <<>> => Head(s) \in Procesos /\ Tail(s) \in Seq(Procesos)
  BY AppendProperties, HeadTailProperties

LEMMA IngresarTipo ==
  ASSUME TipoReady, NEW p \in Procesos, NEW op, IngresarAReady(p, op)
  PROVE  colaRR' \in Seq(Procesos) /\ colaFIFO' \in Seq(Procesos)
<1>1. CASE colaRR' = Append(colaRR, p) /\ UNCHANGED colaFIFO
  BY <1>1, Colas DEF TipoReady
<1>2. CASE colaFIFO' = Append(colaFIFO, p) /\ UNCHANGED colaRR
  BY <1>2, Colas DEF TipoReady
<1> QED
  BY <1>1, <1>2 DEF IngresarAReady

(* What the cancellation of sale_de_exec does to the threads: only the one *)
(* that last_clock_id names changes, and only if it was not in the mailbox. *)
LEMMA Cancelacion ==
  ASSUME TipoHilos, SaleDeExec
  PROVE  /\ hilo' \in [Hilos -> PasosHilo]
         /\ \A k \in Hilos : hilo'[k] # hilo[k] =>
              /\ isRR /\ k = ultimo
              /\ hilo[k] # "escribe"
              /\ hilo'[k] = "libre" \/ (hilo'[k] = "tarde" /\ hilo[k] = "espera")
<1> USE DEF TipoHilos, PasosHilo
<1>1. CASE ~isRR
  BY <1>1 DEF SaleDeExec
<1>2. CASE isRR
  <2>1. PICK paso \in TrasCancelar(hilo[ultimo]) : hilo' = [hilo EXCEPT ![ultimo] = paso]
    BY <1>2 DEF SaleDeExec
  <2>2. /\ paso = "libre" \/ (paso = "tarde" /\ hilo[ultimo] \in {"espera", "tarde"})
           \/ (paso = "escribe" /\ hilo[ultimo] = "escribe")
        /\ hilo[ultimo] = "escribe" => paso = "escribe"
    BY <2>1 DEF TrasCancelar
  <2>3. hilo' \in [Hilos -> PasosHilo]
    BY <2>1, <2>2
  <2>4. \A k \in Hilos : hilo'[k] = IF k = ultimo THEN paso ELSE hilo[k]
    BY <2>1
  <2> QED
    BY <1>2, <2>2, <2>3, <2>4
<1> QED
  BY <1>1, <1>2

(* Whether a notice is under way is a matter of yes or no. *)
LEMMA AvisoBooleano == \A p : AvisoEnVuelo(p) \in BOOLEAN
  BY DEF AvisoEnVuelo

(* Only the CPU and its cycle move the context, and each step of theirs    *)
(* passes it from one hand to another.                                     *)
LEMMA ContextoAjeno ==
  ASSUME Despacho \/ (\E k \in Hilos : Reloj(k)) \/ Interrup \/ Interrumpe \/ Externos
  PROVE  UNCHANGED cpuVars
<1>1. CASE Despacho
  BY <1>1 DEF Despacho, ObtieneConReloj, ObtieneSinReloj, ComienzaTurno, EnviaPcb, RecibeContexto,
              SaleDeExec, Deriva, cpuVars
<1>2. CASE \E k \in Hilos : Reloj(k)
  BY <1>2 DEF Reloj, Despierta, TomaBuzon, Escribe, cpuVars
<1>3. CASE Interrup \/ Interrumpe
  BY <1>3 DEF Interrup, InterrupEspera, InterrupCopia, InterrupEnvia, Interrumpe, cpuVars
<1>4. CASE Externos
  BY <1>4 DEF Externos, EntraAReady, NaceHilo, TerminaHilo, cpuVars
<1> QED
  BY <1>1, <1>2, <1>3, <1>4

LEMMA ContextoPaso ==
  ASSUME TipoCpu, ContextoExclusivo, [Next]_vars
  PROVE  ContextoExclusivo'
<1> USE DEF TipoCpu, ContextoExclusivo, Uno
<1>1. CASE UNCHANGED cpuVars
  BY <1>1 DEF cpuVars
<1>2. CASE Cpu
  BY <1>2 DEF Cpu, CpuRecibe, CpuLimpia, CpuDevuelve
<1>3. CASE Ciclo
  BY <1>3 DEF Ciclo, CicloEspera, Ejecuta, CicloEjecuta, CicloFalta, CicloChequea
<1> QED
  BY <1>1, <1>2, <1>3, ContextoAjeno DEF Next, vars

(* The threads that hold the mailbox. *)
Escritores == {k \in Hilos : hilo[k] = "escribe"}

LEMMA EscritoresFinitos == IsFiniteSet(Escritores) /\ Cardinality(Escritores) \in Nat
  BY SupuestosQuantum, FS_Subset, FS_CardinalityType DEF SupuestosQuantum, Escritores

(* A step that changes neither the mailbox nor the interruption thread,    *)
(* nor who writes, keeps BuzonExclusivo.                                   *)
LEMMA BuzonAjeno ==
  ASSUME TipoHilos,
         \/ Despacho \/ Interrumpe \/ Cpu \/ Ciclo \/ Externos
         \/ \E k \in Hilos : Despierta(k)
  PROVE  UNCHANGED <<semAlg, semRoutine, globalPid, interrup, localPid, Escritores>>
<1> USE DEF TipoHilos, PasosHilo, Escritores, buzonVars, intVars, hiloVars
<1>1. CASE Despacho
  <2>1. ASSUME NEW k \in Hilos, ObtieneConReloj(k)
        PROVE UNCHANGED <<buzonVars, interrup, localPid, Escritores>>
    BY <2>1 DEF ObtieneConReloj, ComienzaTurno
  <2>2. CASE SaleDeExec
    BY <2>2, Cancelacion DEF SaleDeExec
  <2>3. CASE ObtieneSinReloj \/ EnviaPcb \/ RecibeContexto \/ Deriva
    BY <2>3 DEF ObtieneSinReloj, ComienzaTurno, EnviaPcb, RecibeContexto, Deriva
  <2> QED
    BY <1>1, <2>1, <2>2, <2>3 DEF Despacho
<1>2. CASE Interrumpe
  BY <1>2 DEF Interrumpe
<1>3. CASE Cpu \/ Ciclo
  BY <1>3 DEF Cpu, CpuRecibe, CpuLimpia, CpuDevuelve, Ciclo, CicloEspera, Ejecuta, CicloEjecuta,
              CicloFalta, CicloChequea
<1>4. CASE Externos
  BY <1>4 DEF Externos, EntraAReady, NaceHilo, TerminaHilo
<1>5. ASSUME NEW k \in Hilos, Despierta(k)
      PROVE UNCHANGED <<buzonVars, interrup, localPid, Escritores>>
  BY <1>5 DEF Despierta
<1> QED
  BY <1>1, <1>2, <1>3, <1>4, <1>5

LEMMA BuzonPaso ==
  ASSUME TipoHilos, TipoAvisos, BuzonExclusivo, [Next]_vars
  PROVE  BuzonExclusivo'
<1> DEFINE Cuenta == semAlg + semRoutine + Uno(interrup = "copia") + Cardinality(Escritores)
<1>1. Cuenta = 1
  BY DEF BuzonExclusivo, Escritores
<1> SUFFICES Cuenta' = 1
  BY DEF BuzonExclusivo, Escritores
<1> USE DEF TipoHilos, TipoAvisos, PasosHilo, Uno
<1>2. CASE UNCHANGED <<semAlg, semRoutine, globalPid, interrup, localPid, Escritores>>
  BY <1>1, <1>2
<1>3. ASSUME NEW k \in Hilos, TomaBuzon(k) PROVE Cuenta' = 1
  <2>1. Escritores' = Escritores \cup {k} /\ k \notin Escritores
    BY <1>3 DEF TomaBuzon, Escritores
  <2>2. Cardinality(Escritores') = Cardinality(Escritores) + 1
    BY <2>1, EscritoresFinitos, FS_AddElement
  <2>3. semAlg' = semAlg - 1 /\ UNCHANGED <<semRoutine, interrup>>
    BY <1>3 DEF TomaBuzon, intVars
  <2> QED
    BY <1>1, <2>2, <2>3, EscritoresFinitos
<1>4. ASSUME NEW k \in Hilos, Escribe(k) PROVE Cuenta' = 1
  <2>1. Escritores' = Escritores \ {k} /\ k \in Escritores
    BY <1>4 DEF Escribe, Escritores
  <2>2. Cardinality(Escritores') = Cardinality(Escritores) - 1
    BY <2>1, EscritoresFinitos, FS_RemoveElement
  <2>3. semRoutine' = semRoutine + 1 /\ UNCHANGED <<semAlg, interrup>>
    BY <1>4 DEF Escribe, intVars
  <2> QED
    BY <1>1, <2>2, <2>3, EscritoresFinitos
<1>5. CASE Interrup
  <2>1. Escritores' = Escritores
    BY <1>5 DEF Interrup, InterrupEspera, InterrupCopia, InterrupEnvia, Escritores, hiloVars
  <2> QED
    BY <1>1, <1>5, <2>1, EscritoresFinitos
       DEF Interrup, InterrupEspera, InterrupCopia, InterrupEnvia, buzonVars
<1>6. CASE UNCHANGED vars
  BY <1>2, <1>6 DEF vars, hiloVars, buzonVars, intVars, Escritores
<1> QED
  BY <1>2, <1>3, <1>4, <1>5, <1>6, BuzonAjeno DEF Next, Reloj

(* The notices that the interruption thread and the mailbox hold. *)
EnCopia == IF interrup = "envia" THEN <<localPid>> ELSE <<>>
EnBuzon == IF semRoutine > 0 \/ interrup = "copia" THEN <<globalPid>> ELSE <<>>

LEMMA EnManosTipo ==
  ASSUME TipoInv
  PROVE  EnCopia \in Seq(Procesos) /\ EnBuzon \in Seq(Procesos)
  BY DEF TipoInv, EnManos, EnCopia, EnBuzon

(* The first notice under way is the first in the socket, and the others   *)
(* are what is left.                                                       *)
LEMMA PrimerAviso ==
  ASSUME NEW s \in Seq(Procesos), NEW t \in Seq(Procesos), s # <<>>
  PROVE  s \o t # <<>> /\ Head(s \o t) = Head(s) /\ Tail(s \o t) = Tail(s) \o t
<1>1. PICK e \in Procesos, r \in Seq(Procesos) : s = <<e>> \o r
  <2>1. s = <<Head(s)>> \o Tail(s) /\ Head(s) \in Procesos /\ Tail(s) \in Seq(Procesos)
    BY HeadTailProperties
  <2> QED
    BY <2>1
<1> QED
  OBVIOUS

LEMMA Asociativa ==
  ASSUME NEW s \in Seq(Procesos), NEW t \in Seq(Procesos), NEW u \in Seq(Procesos)
  PROVE  (s \o t) \o u = s \o (t \o u)
  BY ConcatAssociative

(* The notices under way, those in the socket apart. *)
LEMMA EnCaminoPartes ==
  ASSUME TipoInv
  PROVE  /\ canalInt \in Seq(Procesos) /\ EnCopia \o EnBuzon \in Seq(Procesos)
         /\ enCamino = canalInt \o (EnCopia \o EnBuzon)
<1>1. canalInt \in Seq(Procesos)
  BY DEF TipoInv, TypeOK, TipoAvisos
<1>2. EnCopia \in Seq(Procesos) /\ EnBuzon \in Seq(Procesos)
  BY EnManosTipo
<1>3. EnCopia \o EnBuzon \in Seq(Procesos)
  BY <1>2, ConcatProperties
<1>4. enCamino = (canalInt \o EnCopia) \o EnBuzon
  BY DEF TipoInv, AvisosEnOrden, EnCopia, EnBuzon
<1>5. (canalInt \o EnCopia) \o EnBuzon = canalInt \o (EnCopia \o EnBuzon)
  <2> QED
    BY <1>1, <1>2, Asociativa
<1> QED
  BY <1>1, <1>3, <1>4, <1>5

(* With a thread writing, or the interruption thread with the notice, the  *)
(* mailbox is nobody else's.                                               *)
LEMMA BuzonVacio ==
  ASSUME TipoHilos, TipoAvisos, BuzonExclusivo
  PROVE  /\ (\E k \in Hilos : hilo[k] = "escribe") => semRoutine = 0 /\ interrup # "copia"
         /\ interrup = "copia" => semRoutine = 0
<1>1. semAlg + semRoutine + Uno(interrup = "copia") + Cardinality(Escritores) = 1
  BY DEF BuzonExclusivo, Escritores
<1>2. ASSUME NEW k \in Hilos, hilo[k] = "escribe" PROVE Cardinality(Escritores) # 0
  <2>1. k \in Escritores
    BY <1>2 DEF Escritores
  <2> QED
    BY <2>1, EscritoresFinitos, FS_EmptySet
<1> QED
  BY <1>1, <1>2, EscritoresFinitos DEF TipoAvisos, Uno

LEMMA AvisosIguales ==
  ASSUME TipoHilos,
         \/ Despacho \/ Cpu \/ Ciclo \/ Externos
         \/ \E k \in Hilos : Despierta(k) \/ TomaBuzon(k)
  PROVE  UNCHANGED <<canalInt, enCamino, semRoutine, globalPid, interrup, localPid>>
<1>1. CASE Despacho
  BY <1>1 DEF Despacho, ObtieneConReloj, ObtieneSinReloj, ComienzaTurno, EnviaPcb, RecibeContexto,
              SaleDeExec, Deriva, buzonVars, intVars
<1>2. CASE Cpu \/ Ciclo
  BY <1>2 DEF Cpu, CpuRecibe, CpuLimpia, CpuDevuelve, Ciclo, CicloEspera, Ejecuta, CicloEjecuta,
              CicloFalta, CicloChequea, buzonVars, intVars
<1>3. CASE Externos
  BY <1>3 DEF Externos, EntraAReady, NaceHilo, TerminaHilo, buzonVars, intVars
<1>4. CASE \E k \in Hilos : Despierta(k) \/ TomaBuzon(k)
  BY <1>4 DEF Despierta, TomaBuzon, buzonVars, intVars
<1> QED
  BY <1>1, <1>2, <1>3, <1>4

LEMMA OrdenPaso ==
  ASSUME TipoInv, [Next]_vars
  PROVE  AvisosEnOrden'
<1> USE DEF TipoInv, TypeOK
<1>1. enCamino = canalInt \o EnCopia \o EnBuzon
  BY DEF AvisosEnOrden, EnCopia, EnBuzon
<1> SUFFICES enCamino' = canalInt' \o EnCopia' \o EnBuzon'
  BY DEF AvisosEnOrden, EnCopia, EnBuzon
<1>2. CASE UNCHANGED <<canalInt, enCamino, semRoutine, globalPid, interrup, localPid>>
  BY <1>1, <1>2 DEF EnCopia, EnBuzon
<1>3. ASSUME NEW k \in Hilos, Escribe(k)
      PROVE  enCamino' = canalInt' \o EnCopia' \o EnBuzon'
  <2>1. EnBuzon = <<>>
    BY <1>3, BuzonVacio DEF Escribe, EnBuzon
  <2>2. EnBuzon' = <<hiloPid[k]>>
    BY <1>3 DEF Escribe, EnBuzon, TipoAvisos
  <2>3. EnCopia' = EnCopia /\ canalInt' = canalInt
    BY <1>3 DEF Escribe, EnCopia, intVars
  <2>4. enCamino' = Append(canalInt \o EnCopia, hiloPid[k])
    BY <1>1, <1>3, <2>1, EnManosTipo, ConcatProperties, ConcatEmptySeq DEF Escribe, TipoAvisos
  <2>5. hiloPid[k] \in Procesos
    BY <1>3 DEF Escribe, EnManos
  <2> QED
    BY <2>2, <2>3, <2>4, <2>5, EnManosTipo, ConcatProperties, AppendIsConcat DEF TipoAvisos
<1>4. CASE InterrupEspera
  <2>1. EnBuzon' = EnBuzon
    BY <1>4 DEF InterrupEspera, EnBuzon
  <2>2. EnCopia' = EnCopia /\ canalInt' = canalInt /\ enCamino' = enCamino
    BY <1>4 DEF InterrupEspera, EnCopia
  <2> QED
    BY <1>1, <2>1, <2>2
<1>5. CASE InterrupCopia
  <2>1. EnCopia = <<>> /\ EnBuzon = <<globalPid>>
    BY <1>5 DEF InterrupCopia, EnCopia, EnBuzon
  <2>2. EnCopia' = <<globalPid>> /\ EnBuzon' = <<>>
    BY <1>5, BuzonVacio DEF InterrupCopia, EnCopia, EnBuzon
  <2>3. canalInt' = canalInt /\ enCamino' = enCamino
    BY <1>5 DEF InterrupCopia
  <2>4. globalPid \in Procesos
    BY <1>5 DEF InterrupCopia, EnManos
  <2> QED
    BY <1>1, <2>1, <2>2, <2>3, <2>4, ConcatEmptySeq, ConcatProperties DEF TipoAvisos
<1>6. CASE InterrupEnvia
  <2>1. EnCopia = <<localPid>> /\ EnCopia' = <<>> /\ EnBuzon' = EnBuzon
    BY <1>6 DEF InterrupEnvia, EnCopia, EnBuzon, buzonVars
  <2>2. localPid \in Procesos
    BY <1>6 DEF InterrupEnvia, EnManos
  <2>3. canalInt' = canalInt \o EnCopia /\ canalInt' \in Seq(Procesos)
    BY <1>6, <2>1, <2>2, AppendIsConcat, AppendProperties DEF InterrupEnvia, TipoAvisos
  <2>4. canalInt' \o EnCopia' = canalInt'
    BY <2>1, <2>3, ConcatEmptySeq
  <2>5. enCamino' = enCamino
    BY <1>6 DEF InterrupEnvia
  <2> QED
    BY <1>1, <2>1, <2>3, <2>4, <2>5
<1>7. CASE Interrumpe
  <2>1. EnCopia' = EnCopia /\ EnBuzon' = EnBuzon
    BY <1>7 DEF Interrumpe, EnCopia, EnBuzon, buzonVars
  <2>2. canalInt # <<>> /\ canalInt' = Tail(canalInt) /\ enCamino' = Tail(enCamino)
    BY <1>7 DEF Interrumpe
  <2>3. enCamino = canalInt \o (EnCopia \o EnBuzon) /\ EnCopia \o EnBuzon \in Seq(Procesos)
    BY EnCaminoPartes
  <2>4. enCamino' = Tail(canalInt) \o (EnCopia \o EnBuzon)
    BY <2>2, <2>3, PrimerAviso DEF TipoAvisos
  <2>5. Tail(canalInt) \in Seq(Procesos)
    BY <2>2, Colas DEF TipoAvisos
  <2>6. Tail(canalInt) \o (EnCopia \o EnBuzon) = (Tail(canalInt) \o EnCopia) \o EnBuzon
    BY <2>5, EnManosTipo, Asociativa, Zenon
  <2> QED
    BY <2>1, <2>2, <2>4, <2>6
<1>8. CASE UNCHANGED vars
  BY <1>2, <1>8 DEF vars, buzonVars, intVars
<1> QED
  BY <1>2, <1>3, <1>4, <1>5, <1>6, <1>7, <1>8, AvisosIguales DEF Next, Reloj, Interrup

LEMMA TipoDespachoInv ==
  ASSUME TipoInv, Despacho
  PROVE  TypeOK' /\ EnManos'
<1> USE SupuestosQuantum DEF SupuestosQuantum, TipoInv, TypeOK, PasosHilo
<1> USE DEF TipoReady, TipoDespacho, TipoHilos, TipoAvisos, TipoRed, TipoCpu, TipoFlag
<1> USE DEF readyVars, despVars, hiloVars, buzonVars, intVars, redVars, cpuVars, flagVars,
     turnoVars
<1>1. ASSUME NEW k \in Hilos, ObtieneConReloj(k) PROVE TypeOK' /\ EnManos'
  <2>1. TipoReady'
    BY <1>1, Colas, AvisoBooleano DEF ObtieneConReloj, ComienzaTurno
  <2>2. TipoDespacho'
    BY <1>1, Colas, AvisoBooleano DEF ObtieneConReloj, ComienzaTurno
  <2>3. TipoHilos'
    BY <1>1, Colas, AvisoBooleano DEF ObtieneConReloj, ComienzaTurno
  <2>4. TipoFlag'
    BY <1>1, Colas, AvisoBooleano DEF ObtieneConReloj, ComienzaTurno
  <2>5. TipoAvisos' /\ TipoRed' /\ TipoCpu'
    BY <1>1, Colas, AvisoBooleano DEF ObtieneConReloj, ComienzaTurno
  <2>6. EnManos'
    BY <1>1, Colas, AvisoBooleano DEF ObtieneConReloj, ComienzaTurno, EnManos
  <2> QED
    BY <2>1, <2>2, <2>3, <2>4, <2>5, <2>6
<1>2. CASE ObtieneSinReloj
  <2>1. TipoReady'
    BY <1>2, Colas, AvisoBooleano DEF ObtieneSinReloj, ComienzaTurno
  <2>2. TipoDespacho'
    BY <1>2, Colas, AvisoBooleano DEF ObtieneSinReloj, ComienzaTurno
  <2>3. TipoFlag'
    BY <1>2, Colas, AvisoBooleano DEF ObtieneSinReloj, ComienzaTurno
  <2>4. TipoHilos' /\ TipoAvisos' /\ TipoRed' /\ TipoCpu'
    BY <1>2, Colas, AvisoBooleano DEF ObtieneSinReloj, ComienzaTurno
  <2>5. EnManos'
    BY <1>2, Colas, AvisoBooleano DEF ObtieneSinReloj, ComienzaTurno, EnManos
  <2> QED
    BY <2>1, <2>2, <2>3, <2>4, <2>5
<1>3. CASE EnviaPcb
  <2>1. TypeOK'
    BY <1>3 DEF EnviaPcb
  <2>2. EnManos'
    BY <1>3 DEF EnviaPcb, EnManos
  <2> QED
    BY <2>1, <2>2
<1>4. CASE RecibeContexto
  <2>1. TypeOK'
    BY <1>4 DEF RecibeContexto
  <2>2. EnManos'
    BY <1>4 DEF RecibeContexto, EnManos
  <2> QED
    BY <2>1, <2>2
<1>5. CASE SaleDeExec
  <2>1. TipoDespacho'
    BY <1>5 DEF SaleDeExec
  <2>2. TipoHilos'
    BY <1>5, Cancelacion DEF SaleDeExec
  <2>3. TipoReady' /\ TipoAvisos' /\ TipoRed' /\ TipoCpu' /\ TipoFlag'
    BY <1>5 DEF SaleDeExec
  <2>4. EnManos'
    BY <1>5, Cancelacion DEF SaleDeExec, EnManos
  <2> QED
    BY <2>1, <2>2, <2>3, <2>4
<1>6. CASE Deriva
  <2>1. TipoReady'
    <3>1. enExec \in Procesos
      BY <1>6 DEF Deriva, EnManos
    <3>2. CASE IngresarAReady(enExec, "DESALOJO_PROCESO") /\ UNCHANGED fuera
      BY <3>1, <3>2, IngresarTipo
    <3>3. CASE fuera' = fuera \cup {enExec} /\ UNCHANGED <<colaRR, colaFIFO>>
      BY <3>1, <3>3
    <3>4. CASE UNCHANGED readyVars
      BY <3>4
    <3> QED
      BY <1>6, <3>2, <3>3, <3>4 DEF Deriva
  <2>2. TipoDespacho'
    BY <1>6 DEF Deriva, Retornos, SinPcb
  <2>3. TipoRed'
    BY <1>6 DEF Deriva, Retornos, SinPcb
  <2>4. TipoHilos' /\ TipoAvisos' /\ TipoCpu' /\ TipoFlag'
    BY <1>6 DEF Deriva, Retornos, SinPcb
  <2>5. EnManos'
    BY <1>6 DEF Deriva, Retornos, SinPcb, EnManos
  <2> QED
    BY <2>1, <2>2, <2>3, <2>4, <2>5
<1> QED
  BY <1>1, <1>2, <1>3, <1>4, <1>5, <1>6 DEF Despacho

LEMMA TipoAvisosInv ==
  ASSUME TipoInv, (\E k \in Hilos : Reloj(k)) \/ Interrup \/ Interrumpe
  PROVE  TypeOK' /\ EnManos'
<1> USE SupuestosQuantum DEF SupuestosQuantum, TipoInv, TypeOK, PasosHilo
<1> USE DEF TipoReady, TipoDespacho, TipoHilos, TipoAvisos, TipoRed, TipoCpu, TipoFlag
<1> USE DEF readyVars, despVars, hiloVars, buzonVars, intVars, redVars, cpuVars, flagVars,
     turnoVars
<1>1. ASSUME NEW k \in Hilos, Despierta(k) PROVE TypeOK' /\ EnManos'
  <2>1. TypeOK'
    BY <1>1 DEF Despierta
  <2>2. EnManos'
    BY <1>1 DEF Despierta, EnManos
  <2> QED
    BY <2>1, <2>2
<1>2. ASSUME NEW k \in Hilos, TomaBuzon(k) PROVE TypeOK' /\ EnManos'
  <2>1. TypeOK'
    BY <1>2 DEF TomaBuzon
  <2>2. EnManos'
    BY <1>2 DEF TomaBuzon, EnManos
  <2> QED
    BY <2>1, <2>2
<1>3. ASSUME NEW k \in Hilos, Escribe(k) PROVE TypeOK' /\ EnManos'
  <2>1. TipoHilos'
    BY <1>3, Colas DEF Escribe
  <2>2. TipoAvisos'
    <3>1. hiloPid[k] \in Procesos
      BY <1>3 DEF Escribe, EnManos
    <3>2. enCamino' \in Seq(Procesos)
      BY <1>3, <3>1, Colas DEF Escribe
    <3> QED
      BY <1>3, <3>1, <3>2 DEF Escribe
  <2>3. TipoReady' /\ TipoDespacho' /\ TipoRed' /\ TipoCpu' /\ TipoFlag'
    BY <1>3, Colas DEF Escribe
  <2>4. EnManos'
    BY <1>3, Colas DEF Escribe, EnManos
  <2> QED
    BY <2>1, <2>2, <2>3, <2>4
<1>4. CASE InterrupEspera
  <2>1. TypeOK'
    BY <1>4 DEF InterrupEspera
  <2>2. EnManos'
    BY <1>4 DEF InterrupEspera, EnManos
  <2> QED
    BY <2>1, <2>2
<1>5. CASE InterrupCopia
  <2>1. TypeOK'
    BY <1>5 DEF InterrupCopia
  <2>2. EnManos'
    BY <1>5 DEF InterrupCopia, EnManos
  <2> QED
    BY <2>1, <2>2
<1>6. CASE InterrupEnvia
  <2>1. TipoAvisos'
    <3>1. localPid \in Procesos
      BY <1>6 DEF InterrupEnvia, EnManos
    <3>2. canalInt' \in Seq(Procesos)
      BY <1>6, <3>1, Colas DEF InterrupEnvia
    <3> QED
      BY <1>6, <3>2 DEF InterrupEnvia
  <2>2. TipoReady' /\ TipoDespacho' /\ TipoHilos' /\ TipoRed' /\ TipoCpu' /\ TipoFlag'
    BY <1>6, Colas DEF InterrupEnvia
  <2>3. EnManos'
    BY <1>6, Colas DEF InterrupEnvia, EnManos
  <2> QED
    BY <2>1, <2>2, <2>3
<1>7. CASE Interrumpe
  <2>1. TipoAvisos'
    <3>1. canalInt' \in Seq(Procesos) /\ enCamino # <<>>
      BY <1>7, Colas, EnManosTipo, ConcatProperties, ConcatEqualIffEmpty
         DEF Interrumpe, AvisosEnOrden, EnCopia, EnBuzon
    <3>2. enCamino' \in Seq(Procesos)
      BY <1>7, <3>1, Colas DEF Interrumpe
    <3> QED
      BY <1>7, <3>1, <3>2 DEF Interrumpe
  <2>2. TipoFlag'
    BY <1>7, Colas DEF Interrumpe
  <2>3. TipoReady' /\ TipoDespacho' /\ TipoHilos' /\ TipoRed' /\ TipoCpu'
    BY <1>7, Colas DEF Interrumpe
  <2>4. EnManos'
    BY <1>7, Colas DEF Interrumpe, EnManos
  <2> QED
    BY <2>1, <2>2, <2>3, <2>4
<1> QED
  BY <1>1, <1>2, <1>3, <1>4, <1>5, <1>6, <1>7 DEF Reloj, Interrup

LEMMA TipoCpuInv ==
  ASSUME TipoInv, Cpu \/ Ciclo
  PROVE  TypeOK' /\ EnManos'
<1> USE SupuestosQuantum DEF SupuestosQuantum, TipoInv, TypeOK, PasosHilo
<1> USE DEF TipoReady, TipoDespacho, TipoHilos, TipoAvisos, TipoRed, TipoCpu, TipoFlag
<1> USE DEF readyVars, despVars, hiloVars, buzonVars, intVars, redVars, cpuVars, flagVars,
     turnoVars
<1>1. CASE CpuRecibe
  <2>1. TypeOK'
    BY <1>1 DEF CpuRecibe
  <2>2. EnManos'
    BY <1>1 DEF CpuRecibe, ContextoExclusivo, Uno, EnManos
  <2> QED
    BY <2>1, <2>2
<1>2. CASE CpuLimpia
  <2>1. TipoCpu'
    BY <1>2 DEF CpuLimpia
  <2>2. TipoFlag'
    BY <1>2 DEF CpuLimpia
  <2>3. TipoReady' /\ TipoDespacho' /\ TipoHilos' /\ TipoAvisos' /\ TipoRed'
    BY <1>2 DEF CpuLimpia
  <2>4. EnManos'
    BY <1>2 DEF CpuLimpia, ContextoExclusivo, Uno, EnManos
  <2> QED
    BY <2>1, <2>2, <2>3, <2>4
<1>3. CASE CpuDevuelve
  <2>1. TipoRed'
    BY <1>3 DEF CpuDevuelve, ContextoExclusivo, Uno, EnManos
  <2>2. TipoCpu'
    BY <1>3 DEF CpuDevuelve, ContextoExclusivo, Uno, EnManos
  <2>3. TipoReady' /\ TipoDespacho' /\ TipoHilos' /\ TipoAvisos' /\ TipoFlag'
    BY <1>3 DEF CpuDevuelve, ContextoExclusivo, Uno, EnManos
  <2>4. EnManos'
    BY <1>3 DEF CpuDevuelve, ContextoExclusivo, Uno, EnManos
  <2> QED
    BY <2>1, <2>2, <2>3, <2>4
<1>4. CASE CicloEspera
  <2>1. TypeOK'
    BY <1>4 DEF CicloEspera
  <2>2. EnManos'
    BY <1>4 DEF CicloEspera, ContextoExclusivo, Uno, EnManos
  <2> QED
    BY <2>1, <2>2
<1>5. CASE Ejecuta
  <2>1. TypeOK'
    <3>1. ASSUME NEW op \in Retornos \cup {"PROXIMO_PCB"}, CicloEjecuta(op) PROVE TypeOK'
      BY <3>1 DEF CicloEjecuta
    <3>2. ASSUME NEW op \in Retornos, CicloFalta(op) PROVE TypeOK'
      BY <3>2 DEF CicloFalta
    <3>3. {"BLOQUEO_PROCESO", "EXIT_PROCESO"} \subseteq Retornos /\ Faltas \subseteq Retornos
      BY DEF Retornos, Faltas
    <3> QED
      BY <1>5, <3>1, <3>2, <3>3 DEF Ejecuta
  <2>2. EnManos'
    BY <1>5 DEF Ejecuta, CicloEjecuta, CicloFalta, Retornos, Faltas, ContextoExclusivo, Uno, EnManos
  <2> QED
    BY <2>1, <2>2
<1>6. CASE CicloChequea
  <2>1. TypeOK'
    BY <1>6 DEF CicloChequea, Desaloja, Retornos
  <2>2. EnManos'
    BY <1>6 DEF CicloChequea, Desaloja, Retornos, ContextoExclusivo, Uno, EnManos
  <2> QED
    BY <2>1, <2>2
<1> QED
  BY <1>1, <1>2, <1>3, <1>4, <1>5, <1>6 DEF Cpu, Ciclo

LEMMA TipoExternosInv ==
  ASSUME TipoInv, Externos
  PROVE  TypeOK' /\ EnManos'
<1> USE SupuestosQuantum DEF SupuestosQuantum, TipoInv, TypeOK, PasosHilo
<1> USE DEF TipoReady, TipoDespacho, TipoHilos, TipoAvisos, TipoRed, TipoCpu, TipoFlag
<1> USE DEF readyVars, despVars, hiloVars, buzonVars, intVars, redVars, cpuVars, flagVars,
     turnoVars
<1>1. ASSUME NEW p \in Procesos, EntraAReady(p) PROVE TypeOK' /\ EnManos'
  <2>1. TipoReady'
    BY <1>1, IngresarTipo DEF EntraAReady
  <2>2. TipoDespacho' /\ TipoHilos' /\ TipoAvisos' /\ TipoRed' /\ TipoCpu' /\ TipoFlag'
    BY <1>1, Colas DEF EntraAReady, IngresarAReady
  <2>3. EnManos'
    BY <1>1, Colas DEF EntraAReady, IngresarAReady, EnManos
  <2> QED
    BY <2>1, <2>2, <2>3
<1>2. ASSUME NEW k \in Hilos, NaceHilo(k) PROVE TypeOK' /\ EnManos'
  <2>1. TypeOK'
    BY <1>2 DEF NaceHilo
  <2>2. EnManos'
    BY <1>2 DEF NaceHilo, EnManos
  <2> QED
    BY <2>1, <2>2
<1>3. ASSUME NEW k \in Hilos, TerminaHilo(k) PROVE TypeOK' /\ EnManos'
  <2>1. TypeOK'
    BY <1>3 DEF TerminaHilo
  <2>2. EnManos'
    BY <1>3 DEF TerminaHilo, EnManos
  <2> QED
    BY <2>1, <2>2
<1> QED
  BY <1>1, <1>2, <1>3 DEF Externos

LEMMA TipoPaso == TipoInv /\ [Next]_vars => TipoInv'
<1> SUFFICES ASSUME TipoInv, [Next]_vars PROVE TipoInv'
  OBVIOUS
<1>1. ContextoExclusivo' /\ BuzonExclusivo' /\ AvisosEnOrden'
  BY ContextoPaso, BuzonPaso, OrdenPaso DEF TipoInv, TypeOK
<1>2. TypeOK' /\ EnManos'
  <2>1. CASE UNCHANGED vars
    BY <2>1 DEF TipoInv, TypeOK, TipoReady, TipoDespacho, TipoHilos, TipoAvisos, TipoRed, TipoCpu,
                TipoFlag, EnManos, vars, readyVars, despVars, hiloVars, buzonVars, intVars,
                redVars, cpuVars, flagVars, turnoVars
  <2> QED
    BY <2>1, TipoDespachoInv, TipoAvisosInv, TipoCpuInv, TipoExternosInv DEF Next
<1> QED
  BY <1>1, <1>2 DEF TipoInv

LEMMA TipoSiempre == Spec => []TipoInv
  BY TipoInicial, TipoPaso, PTL DEF Spec

(* Every variable keeps its type, for every instance: no clock, notice or  *)
(* turn is without its process.                                            *)
THEOREM TipoCorrecto == Spec => []TypeOK
  BY TipoSiempre, PTL DEF TipoInv

(* The CPU and its cycle never work on mi_contexto at the same time.       *)
THEOREM ContextoCorrecto == Spec => []ContextoExclusivo
  BY TipoSiempre, PTL DEF TipoInv

(* The mailbox of the notices has one holder, however many clocks wait for *)
(* it and whatever is cancelled.                                           *)
THEOREM BuzonCorrecto == Spec => []BuzonExclusivo
  BY TipoSiempre, PTL DEF TipoInv

(* No notice is lost, repeated or overtaken on its way to the CPU.         *)
THEOREM AvisosCorrectos == Spec => []AvisosEnOrden
  BY TipoSiempre, PTL DEF TipoInv

-----------------------------------------------------------------------------
(* The turns. *)

(* Where the context is in each step of the dispatcher: it has not left,   *)
(* it goes to the CPU, the CPU has it or it comes back; and it is always   *)
(* that of the process the dispatcher knows.                               *)
Viaje ==
    /\ despacho \in {"obtiene", "envia"} => canalPcb = Nulo /\ cpu = "recibe" /\ canalCtx.pid = Nulo
    /\ despacho = "recibe" =>
          \/ canalPcb = enExec /\ cpu = "recibe" /\ canalCtx.pid = Nulo
          \/ canalPcb = Nulo /\ cpu # "recibe" /\ ctx = enExec /\ canalCtx.pid = Nulo
          \/ canalPcb = Nulo /\ cpu = "recibe" /\ canalCtx.pid = enExec
    /\ despacho \in {"sale", "deriva"} => canalPcb = Nulo /\ cpu = "recibe"

(* In a turn, a notice for its process under way, or obeyed by the CPU, is *)
(* of its clock or of an earlier turn.                                     *)
Motivo ==
    /\ despacho \in {"envia", "recibe"}
    /\ AvisoEnVuelo(enExec) \/ (cpu = "espera" /\ flag /\ pidInt = enExec)
    => vencido \/ heredado

(* A notice for the process that runs keeps the flag up until the context  *)
(* goes back, and none is older than the context.                          *)
Pendiente ==
    /\ despacho = "envia" \/ canalPcb # Nulo \/ cpu = "limpia" => ~avisada
    /\ avisada /\ cpu = "espera" /\ semEnvio = 0 => flag /\ pidInt = ctx

TurnoInv == Viaje /\ RelojDelTurno /\ Motivo /\ Pendiente

LEMMA ViajePaso ==
  ASSUME TipoInv, Viaje, [Next]_vars
  PROVE  Viaje'
<1> USE SupuestosQuantum DEF SupuestosQuantum, TipoInv, TypeOK, EnManos, Viaje
<1> USE DEF TipoDespacho, TipoRed, TipoCpu, despVars, redVars, cpuVars
<1>1. CASE UNCHANGED <<despacho, enExec, canalPcb, canalCtx, cpu, ctx>>
  BY <1>1
<1>2. CASE Despacho
  <2>1. ASSUME NEW k \in Hilos, ObtieneConReloj(k) PROVE Viaje'
    BY <2>1 DEF ObtieneConReloj, ComienzaTurno
  <2>2. CASE ObtieneSinReloj
    BY <2>2 DEF ObtieneSinReloj, ComienzaTurno
  <2>3. CASE EnviaPcb
    BY <2>3 DEF EnviaPcb
  <2>4. CASE RecibeContexto
    BY <2>4 DEF RecibeContexto
  <2>5. CASE SaleDeExec
    BY <2>5 DEF SaleDeExec
  <2>6. CASE Deriva
    BY <2>6 DEF Deriva, SinPcb
  <2> QED
    BY <1>2, <2>1, <2>2, <2>3, <2>4, <2>5, <2>6 DEF Despacho
<1>3. CASE Cpu
  <2>1. CASE CpuRecibe
    BY <2>1 DEF CpuRecibe
  <2>2. CASE CpuLimpia
    BY <2>2 DEF CpuLimpia
  <2>3. CASE CpuDevuelve
    BY <2>3 DEF CpuDevuelve
  <2> QED
    BY <1>3, <2>1, <2>2, <2>3 DEF Cpu
<1>4. CASE Ciclo
  <2>1. UNCHANGED <<despacho, enExec, canalPcb, canalCtx, cpu, ctx>>
    BY <1>4 DEF Ciclo, CicloEspera, Ejecuta, CicloEjecuta, CicloFalta, CicloChequea
  <2> QED
    BY <1>1, <2>1
<1>5. CASE (\E k \in Hilos : Reloj(k)) \/ Interrup \/ Interrumpe
  <2>1. UNCHANGED <<despacho, enExec, canalPcb, canalCtx, cpu, ctx>>
    BY <1>5 DEF Reloj, Despierta, TomaBuzon, Escribe, Interrup, InterrupEspera, InterrupCopia,
                InterrupEnvia, Interrumpe
  <2> QED
    BY <1>1, <2>1
<1>6. CASE Externos
  <2>1. UNCHANGED <<despacho, enExec, canalPcb, canalCtx, cpu, ctx>>
    BY <1>6 DEF Externos, EntraAReady, NaceHilo, TerminaHilo
  <2> QED
    BY <1>1, <2>1
<1> QED
  BY <1>1, <1>2, <1>3, <1>4, <1>5, <1>6 DEF Next, vars

(* Steps that are of no clock and of no turn. *)
LEMMA RelojAjeno ==
  ASSUME EnviaPcb \/ Deriva \/ Interrup \/ Interrumpe \/ Cpu \/ Ciclo
            \/ (\E p \in Procesos : EntraAReady(p))
  PROVE  UNCHANGED <<hilo, hiloPid, ultimo, isRR, vencido>>
<1>1. CASE EnviaPcb \/ Deriva \/ \E p \in Procesos : EntraAReady(p)
  BY <1>1 DEF EnviaPcb, Deriva, EntraAReady, hiloVars, despVars, turnoVars
<1>2. CASE Interrup \/ Interrumpe
  BY <1>2 DEF Interrup, InterrupEspera, InterrupCopia, InterrupEnvia, Interrumpe, hiloVars,
              despVars, turnoVars
<1>3. CASE Cpu \/ Ciclo
  BY <1>3 DEF Cpu, CpuRecibe, CpuLimpia, CpuDevuelve, Ciclo, CicloEspera, Ejecuta, CicloEjecuta,
              CicloFalta, CicloChequea, hiloVars, despVars, turnoVars
<1> QED
  BY <1>1, <1>2, <1>3

LEMMA RelojPaso ==
  ASSUME TipoInv, Viaje, RelojDelTurno, [Next]_vars
  PROVE  RelojDelTurno'
<1> USE DEF TipoInv, TypeOK, RelojDelTurno, EnTurno
<1> USE DEF TipoDespacho, TipoHilos, PasosHilo, despVars, hiloVars, turnoVars
<1>1. CASE UNCHANGED <<hilo, hiloPid, ultimo, isRR, vencido, despacho, enExec>>
  BY <1>1
<1>2. ASSUME NEW k \in Hilos, ObtieneConReloj(k) PROVE RelojDelTurno'
  BY <1>2 DEF ObtieneConReloj, ComienzaTurno
<1>3. CASE ObtieneSinReloj
  BY <1>3 DEF ObtieneSinReloj, ComienzaTurno
<1>4. CASE EnviaPcb
  BY <1>4, RelojAjeno DEF EnviaPcb
<1>5. CASE RecibeContexto
  BY <1>5, SupuestosQuantum DEF RecibeContexto, Viaje, SupuestosQuantum
<1>6. CASE SaleDeExec
  <2>1. despacho = "sale" /\ despacho' = "deriva"
    BY <1>6 DEF SaleDeExec
  <2>2. \A k \in Hilos : hilo'[k] \notin {"duerme", "espera"}
    <3> SUFFICES ASSUME NEW k \in Hilos, hilo'[k] \in {"duerme", "espera"} PROVE FALSE
      OBVIOUS
    <3>1. hilo'[k] = hilo[k]
      BY <1>6, Cancelacion
    <3>2. isRR /\ k = ultimo
      BY <3>1, <2>1
    <3>3. PICK paso \in TrasCancelar(hilo[ultimo]) : hilo' = [hilo EXCEPT ![ultimo] = paso]
      BY <1>6, <3>2 DEF SaleDeExec
    <3>4. hilo'[k] = paso
      BY <3>2, <3>3
    <3> QED
      BY <3>3, <3>4 DEF TrasCancelar
  <2> QED
    BY <2>1, <2>2
<1>7. CASE Deriva
  BY <1>7, RelojAjeno DEF Deriva
<1>8. ASSUME NEW k \in Hilos, Reloj(k) PROVE RelojDelTurno'
  <2>1. CASE Despierta(k)
    BY <2>1 DEF Despierta
  <2>2. CASE TomaBuzon(k)
    BY <2>2 DEF TomaBuzon
  <2>3. CASE Escribe(k)
    BY <2>3 DEF Escribe
  <2> QED
    BY <1>8, <2>1, <2>2, <2>3 DEF Reloj
<1>9. ASSUME NEW k \in Hilos, NaceHilo(k) \/ TerminaHilo(k) PROVE RelojDelTurno'
  <2>1. isRR => ultimo \in Hilos
    BY DEF EnManos
  <2>2. CASE NaceHilo(k)
    BY <2>1, <2>2 DEF NaceHilo
  <2>3. CASE TerminaHilo(k)
    BY <2>1, <2>3 DEF TerminaHilo
  <2> QED
    BY <1>9, <2>2, <2>3
<1>10. CASE Interrup \/ Interrumpe \/ Cpu \/ Ciclo \/ \E p \in Procesos : EntraAReady(p)
  <2>1. UNCHANGED <<despacho, enExec>>
    BY <1>10 DEF Interrup, InterrupEspera, InterrupCopia, InterrupEnvia, Interrumpe, Cpu,
                 CpuRecibe, CpuLimpia, CpuDevuelve, Ciclo, CicloEspera, Ejecuta, CicloEjecuta,
                 CicloFalta, CicloChequea, EntraAReady
  <2> QED
    BY <1>1, <1>10, <2>1, RelojAjeno
<1> QED
  BY <1>1, <1>2, <1>3, <1>4, <1>5, <1>6, <1>7, <1>8, <1>9, <1>10
     DEF Next, Despacho, Externos, vars

(* No step brings a new notice for a process but the end of the quantum of *)
(* the turn, and its cancellation, which may leave a late clock.           *)
LEMMA SinAvisosNuevos ==
  ASSUME TipoInv, NEW p \in Procesos, [Next]_vars, AvisoEnVuelo(p)'
  PROVE  AvisoEnVuelo(p) \/ vencido' \/ SaleDeExec
<1> USE DEF TipoInv, TypeOK, TipoHilos, PasosHilo
<1>1. PICK s \in Seq(Procesos) : s = enCamino
  BY DEF TipoAvisos
<1>2. CASE UNCHANGED <<hilo, hiloPid, enCamino>>
  BY <1>2 DEF AvisoEnVuelo
<1>3. ASSUME NEW k \in Hilos, ObtieneConReloj(k) PROVE AvisoEnVuelo(p)
  BY <1>3 DEF ObtieneConReloj, ComienzaTurno, AvisoEnVuelo
<1>4. CASE ObtieneSinReloj \/ RecibeContexto
  <2>1. UNCHANGED <<hilo, hiloPid, enCamino>>
    BY <1>4 DEF ObtieneSinReloj, ComienzaTurno, RecibeContexto, hiloVars
  <2> QED
    BY <1>2, <2>1
<1>5. ASSUME NEW k \in Hilos, Despierta(k) PROVE AvisoEnVuelo(p)
  BY <1>5 DEF Despierta, AvisoEnVuelo
<1>6. ASSUME NEW k \in Hilos, TomaBuzon(k) PROVE AvisoEnVuelo(p) \/ vencido'
  BY <1>6 DEF TomaBuzon, AvisoEnVuelo
<1>7. ASSUME NEW k \in Hilos, Escribe(k) PROVE AvisoEnVuelo(p)
  <2>1. hilo[k] = "escribe" /\ enCamino' = Append(enCamino, hiloPid[k])
    BY <1>7 DEF Escribe
  <2>2. hiloPid[k] \in Procesos
    BY <2>1 DEF EnManos
  <2>3. CASE \E i \in DOMAIN enCamino' : enCamino'[i] = p
    <3>1. PICK i \in DOMAIN enCamino' : enCamino'[i] = p
      BY <2>3
    <3>2. i \in 1..(Len(s) + 1) /\ Len(s) \in Nat /\ DOMAIN s = 1..Len(s)
      BY <1>1, <2>1, <2>2, <3>1, AppendProperties, LenProperties
    <3>3. CASE i = Len(s) + 1
      <4>1. hiloPid[k] = p
        BY <1>1, <2>1, <2>2, <3>1, <3>3, AppendProperties
      <4> QED
        BY <2>1, <4>1 DEF AvisoEnVuelo
    <3>4. CASE i \in 1..Len(s)
      <4>1. s[i] = p
        BY <1>1, <2>1, <2>2, <3>1, <3>4, AppendProperties
      <4> QED
        BY <1>1, <3>2, <3>4, <4>1 DEF AvisoEnVuelo
    <3> QED
      BY <3>2, <3>3, <3>4
  <2>4. CASE \E j \in Hilos : hilo'[j] \in {"tarde", "escribe"} /\ hiloPid'[j] = p
    BY <1>7, <2>4 DEF Escribe, AvisoEnVuelo
  <2> QED
    BY <2>3, <2>4 DEF AvisoEnVuelo
<1>8. CASE Interrumpe
  <2>1. s # <<>> /\ enCamino' = Tail(s)
    BY <1>1, <1>8, EnManosTipo, ConcatProperties, ConcatEqualIffEmpty
       DEF Interrumpe, AvisosEnOrden, EnCopia, EnBuzon, TipoAvisos
  <2>2. UNCHANGED <<hilo, hiloPid>>
    BY <1>8 DEF Interrumpe, hiloVars
  <2>3. CASE \E i \in DOMAIN enCamino' : enCamino'[i] = p
    <3>1. PICK i \in DOMAIN Tail(s) : Tail(s)[i] = p
      BY <2>1, <2>3
    <3>2. i + 1 \in DOMAIN s /\ s[i + 1] = p
      BY <2>1, <3>1, HeadTailProperties, LenProperties
    <3> QED
      BY <1>1, <3>2 DEF AvisoEnVuelo
  <2>4. CASE \E j \in Hilos : hilo'[j] \in {"tarde", "escribe"} /\ hiloPid'[j] = p
    BY <2>2, <2>4 DEF AvisoEnVuelo
  <2> QED
    BY <2>3, <2>4 DEF AvisoEnVuelo
<1>9. CASE EnviaPcb \/ Deriva \/ Interrup \/ Cpu \/ Ciclo \/ \E q \in Procesos : EntraAReady(q)
  <2>1. enCamino' = enCamino
    BY <1>9 DEF EnviaPcb, Deriva, Interrup, InterrupEspera, InterrupCopia, InterrupEnvia, Cpu,
                CpuRecibe, CpuLimpia, CpuDevuelve, Ciclo, CicloEspera, Ejecuta, CicloEjecuta,
                CicloFalta, CicloChequea, EntraAReady
  <2> QED
    BY <1>2, <1>9, <2>1, RelojAjeno
<1>10. ASSUME NEW k \in Hilos, NaceHilo(k) \/ TerminaHilo(k) PROVE AvisoEnVuelo(p)
  BY <1>10 DEF NaceHilo, TerminaHilo, AvisoEnVuelo
<1>11. CASE UNCHANGED vars
  BY <1>2, <1>11 DEF vars, hiloVars
<1> QED
  BY <1>3, <1>4, <1>5, <1>6, <1>7, <1>8, <1>9, <1>10, <1>11
     DEF Next, Despacho, Reloj, Externos

(* A turn goes on, with its history, or begins. *)
LEMMA TurnoSigue ==
  ASSUME [Next]_vars, despacho' \in {"envia", "recibe"}
  PROVE  \/ \E k \in Hilos : ObtieneConReloj(k)
         \/ ObtieneSinReloj
         \/ /\ despacho \in {"envia", "recibe"}
            /\ enExec' = enExec /\ heredado' = heredado /\ (vencido => vencido')
<1> USE DEF despVars, turnoVars
<1>1. CASE EnviaPcb
  BY <1>1 DEF EnviaPcb
<1>2. CASE RecibeContexto \/ SaleDeExec \/ Deriva
  BY <1>2 DEF RecibeContexto, SaleDeExec, Deriva
<1>3. CASE \E k \in Hilos : Reloj(k)
  BY <1>3 DEF Reloj, Despierta, TomaBuzon, Escribe
<1>4. CASE Interrup \/ Interrumpe
  BY <1>4 DEF Interrup, InterrupEspera, InterrupCopia, InterrupEnvia, Interrumpe
<1>5. CASE Cpu \/ Ciclo
  BY <1>5 DEF Cpu, CpuRecibe, CpuLimpia, CpuDevuelve, Ciclo, CicloEspera, Ejecuta, CicloEjecuta,
              CicloFalta, CicloChequea
<1>6. CASE Externos
  BY <1>6 DEF Externos, EntraAReady, NaceHilo, TerminaHilo
<1>7. CASE UNCHANGED vars
  BY <1>7 DEF vars
<1> QED
  BY <1>1, <1>2, <1>3, <1>4, <1>5, <1>6, <1>7 DEF Next, Despacho

(* Only a notice raises the flag while the CPU has a context. *)
LEMMA BanderaSigue ==
  ASSUME [Next]_vars, cpu' = "espera", flag'
  PROVE  Interrumpe \/ (cpu = "espera" /\ flag /\ pidInt' = pidInt)
<1> USE DEF cpuVars, flagVars
<1>1. CASE Despacho
  BY <1>1 DEF Despacho, ObtieneConReloj, ObtieneSinReloj, ComienzaTurno, EnviaPcb, RecibeContexto,
              SaleDeExec, Deriva
<1>2. CASE \E k \in Hilos : Reloj(k)
  BY <1>2 DEF Reloj, Despierta, TomaBuzon, Escribe
<1>3. CASE Interrup
  BY <1>3 DEF Interrup, InterrupEspera, InterrupCopia, InterrupEnvia
<1>4. CASE Cpu
  BY <1>4 DEF Cpu, CpuRecibe, CpuLimpia, CpuDevuelve
<1>5. CASE Ciclo
  BY <1>5 DEF Ciclo, CicloEspera, Ejecuta, CicloEjecuta, CicloFalta, CicloChequea
<1>6. CASE Externos
  BY <1>6 DEF Externos, EntraAReady, NaceHilo, TerminaHilo
<1>7. CASE UNCHANGED vars
  BY <1>7 DEF vars
<1> QED
  BY <1>1, <1>2, <1>3, <1>4, <1>5, <1>6, <1>7 DEF Next

LEMMA MotivoPaso ==
  ASSUME TipoInv, Viaje, Motivo, [Next]_vars
  PROVE  Motivo'
<1> DEFINE Razon == AvisoEnVuelo(enExec) \/ (cpu = "espera" /\ flag /\ pidInt = enExec)
<1> SUFFICES ASSUME despacho' \in {"envia", "recibe"}, Razon' PROVE vencido' \/ heredado'
  BY DEF Motivo
<1>1. enExec' \in Procesos
  BY TipoPaso DEF TipoInv, EnManos
<1>2. ~SaleDeExec
  BY DEF SaleDeExec
<1>3. AvisoEnVuelo(enExec)' => AvisoEnVuelo(enExec') \/ vencido'
  <2>1. PICK p \in Procesos : p = enExec'
    BY <1>1
  <2>2. AvisoEnVuelo(enExec)' <=> AvisoEnVuelo(p)'
    BY <2>1 DEF AvisoEnVuelo
  <2>3. AvisoEnVuelo(enExec') <=> AvisoEnVuelo(p)
    BY <2>1
  <2> QED
    BY <1>2, <2>2, <2>3, SinAvisosNuevos
<1>4. CASE (\E k \in Hilos : ObtieneConReloj(k)) \/ ObtieneSinReloj
  <2>1. despacho = "obtiene" /\ cpu' = cpu /\ heredado' = AvisoEnVuelo(enExec')
    BY <1>4 DEF ObtieneConReloj, ObtieneSinReloj, ComienzaTurno, cpuVars
  <2>2. cpu' # "espera"
    BY <2>1 DEF Viaje
  <2> QED
    BY <1>3, <2>1, <2>2
<1>5. CASE /\ despacho \in {"envia", "recibe"}
           /\ enExec' = enExec /\ heredado' = heredado /\ (vencido => vencido')
  <2>1. CASE AvisoEnVuelo(enExec)'
    BY <1>3, <1>5, <2>1 DEF Motivo
  <2>2. CASE cpu' = "espera" /\ flag' /\ pidInt' = enExec'
    <3>1. CASE Interrumpe
      <4>1. canalInt # <<>> /\ Head(canalInt) = enExec
        BY <1>5, <2>2, <3>1 DEF Interrumpe
      <4>3. enCamino # <<>> /\ Head(enCamino) = enExec
        BY <4>1, EnCaminoPartes, PrimerAviso
      <4>4. 1 \in DOMAIN enCamino /\ enCamino[1] = enExec
        BY <4>3, LenProperties, HeadTailProperties DEF TipoInv, TypeOK, TipoAvisos
      <4> QED
        BY <1>5, <4>4 DEF AvisoEnVuelo, Motivo
    <3>2. CASE cpu = "espera" /\ flag /\ pidInt' = pidInt
      BY <1>5, <2>2, <3>2 DEF Motivo
    <3> QED
      BY <2>2, <3>1, <3>2, BanderaSigue
  <2> QED
    BY <2>1, <2>2
<1> QED
  BY <1>4, <1>5, TurnoSigue

LEMMA PendientePaso ==
  ASSUME TipoInv, Viaje, Pendiente, [Next]_vars
  PROVE  Pendiente'
<1> USE DEF TipoInv, TypeOK, TipoCpu, Pendiente, cpuVars, flagVars
<1>1. CASE UNCHANGED <<despacho, canalPcb, cpu, avisada, semEnvio, flag, pidInt, ctx>>
  BY <1>1
<1>2. ASSUME NEW k \in Hilos, ObtieneConReloj(k) PROVE Pendiente'
  BY <1>2 DEF ObtieneConReloj, ComienzaTurno
<1>3. CASE ObtieneSinReloj
  BY <1>3 DEF ObtieneSinReloj, ComienzaTurno
<1>4. CASE EnviaPcb \/ RecibeContexto \/ SaleDeExec \/ Deriva
  BY <1>4 DEF EnviaPcb, RecibeContexto, SaleDeExec, Deriva, redVars
<1>5. ASSUME NEW k \in Hilos, Reloj(k) PROVE Pendiente'
  BY <1>1, <1>5 DEF Reloj, Despierta, TomaBuzon, Escribe, despVars, redVars
<1>6. CASE Interrup
  BY <1>1, <1>6 DEF Interrup, InterrupEspera, InterrupCopia, InterrupEnvia, despVars, redVars
<1>7. CASE Interrumpe
  <2>1. cpu = "espera" => canalPcb = Nulo /\ despacho = "recibe"
    BY DEF Viaje, TipoDespacho
  <2> QED
    BY <1>7, <2>1 DEF Interrumpe, despVars, redVars
<1>8. CASE Cpu
  <2>1. CASE CpuRecibe
    BY <2>1 DEF CpuRecibe, SupuestosQuantum
  <2>2. CASE CpuLimpia
    BY <2>2 DEF CpuLimpia, despVars, redVars
  <2>3. CASE CpuDevuelve
    BY <2>3 DEF CpuDevuelve, despVars
  <2> QED
    BY <1>8, <2>1, <2>2, <2>3 DEF Cpu
<1>9. CASE Ciclo
  <2>1. UNCHANGED <<despacho, canalPcb, cpu, avisada, pidInt, ctx>>
    BY <1>9 DEF Ciclo, CicloEspera, Ejecuta, CicloEjecuta, CicloFalta, CicloChequea, despVars,
                redVars
  <2>2. CASE \/ CicloEspera
             \/ \E op \in {"PROXIMO_PCB", "BLOQUEO_PROCESO", "EXIT_PROCESO"} : CicloEjecuta(op)
    BY <2>1, <2>2 DEF CicloEspera, CicloEjecuta
  <2>3. CASE \E op \in Faltas : CicloFalta(op)
    BY <2>1, <2>3 DEF CicloFalta
  <2>4. CASE CicloChequea
    <3>1. semEnvio = 0
      BY <2>4 DEF CicloChequea, ContextoExclusivo, Uno
    <3>2. avisada /\ cpu = "espera" => operacion' # "PROXIMO_PCB"
      BY <2>4, <3>1 DEF CicloChequea, Desaloja
    <3>3. avisada /\ cpu = "espera" => semEnvio' = 1
      BY <2>4, <3>1, <3>2 DEF CicloChequea
    <3> QED
      BY <2>1, <3>3
  <2> QED
    BY <1>9, <2>2, <2>3, <2>4 DEF Ciclo, Ejecuta
<1>10. CASE Externos
  BY <1>1, <1>10 DEF Externos, EntraAReady, NaceHilo, TerminaHilo, despVars, redVars
<1>11. CASE UNCHANGED vars
  BY <1>1, <1>11 DEF vars, despVars, redVars
<1> QED
  BY <1>2, <1>3, <1>4, <1>5, <1>6, <1>7, <1>8, <1>9, <1>10, <1>11 DEF Next, Despacho

LEMMA TurnoInicial == Init => TurnoInv
  BY SupuestosQuantum DEF SupuestosQuantum, Init, TurnoInv, Viaje, RelojDelTurno, EnTurno, Motivo,
     Pendiente, SinPcb

LEMMA TurnoSiempre == Spec => [](TipoInv /\ TurnoInv)
<1>1. TipoInv /\ TurnoInv /\ [Next]_vars => TipoInv' /\ TurnoInv'
  BY TipoPaso, ViajePaso, RelojPaso, MotivoPaso, PendientePaso DEF TurnoInv
<1> QED
  BY <1>1, TipoInicial, TurnoInicial, PTL DEF Spec

(* A clock that runs in time is that of the process that has the CPU, and  *)
(* no turn of the queue with quantum is without one.                       *)
THEOREM RelojCorrecto == Spec => []RelojDelTurno
  BY TurnoSiempre, PTL DEF TurnoInv

(* A process loses the CPU to its own quantum only: that of this turn, or  *)
(* a notice of an earlier one that was still under way when it began.      *)
THEOREM DesalojoCorrecto == Spec => DesalojoJustificado
<1>1. TipoInv /\ TurnoInv /\ [Next]_vars =>
        (operacion' = "DESALOJO_PROCESO" /\ operacion # "DESALOJO_PROCESO" => vencido \/ heredado)
  <2> SUFFICES ASSUME TipoInv, TurnoInv, [Next]_vars,
                      operacion' = "DESALOJO_PROCESO", operacion # "DESALOJO_PROCESO"
               PROVE  vencido \/ heredado
    OBVIOUS
  <2>1. CicloChequea
    <3>1. operacion' # operacion
      OBVIOUS
    <3>2. Cpu \/ Ciclo
      BY <3>1, ContextoAjeno DEF Next, cpuVars, vars
    <3> QED
      BY <3>1, <3>2 DEF Cpu, CpuRecibe, CpuLimpia, CpuDevuelve, Ciclo, CicloEspera, Ejecuta,
                        CicloEjecuta, CicloFalta, Faltas
  <2>2. ciclo = "chequea" /\ flag /\ pidInt = ctx
    BY <2>1 DEF CicloChequea, Desaloja
  <2>3. cpu = "espera"
    BY <2>2 DEF TipoInv, TypeOK, TipoCpu, ContextoExclusivo, Uno
  <2>4. despacho = "recibe" /\ ctx = enExec
    BY <2>3 DEF TurnoInv, Viaje, TipoInv, TypeOK, TipoDespacho
  <2> QED
    BY <2>2, <2>3, <2>4 DEF TurnoInv, Motivo
<1> QED
  BY <1>1, TurnoSiempre, PTL DEF Spec, DesalojoJustificado

(* A process that the CPU was told to evict starts no other instruction.   *)
THEOREM ObedeceCorrecto == Spec => ObedeceAviso
<1>1. TipoInv /\ TurnoInv /\ [Next]_vars => (ciclo = "chequea" /\ ciclo' = "ejecuta" => ~avisada)
  <2> SUFFICES ASSUME TipoInv, TurnoInv, [Next]_vars, ciclo = "chequea", ciclo' = "ejecuta", avisada
               PROVE  FALSE
    OBVIOUS
  <2>1. CicloChequea
    <3>1. Cpu \/ Ciclo
      BY ContextoAjeno DEF Next, cpuVars, vars
    <3> QED
      BY <3>1 DEF Cpu, CpuRecibe, CpuLimpia, CpuDevuelve, Ciclo, CicloEspera, Ejecuta,
                  CicloEjecuta, CicloFalta
  <2>2. cpu = "espera" /\ semEnvio = 0
    BY DEF TipoInv, TypeOK, TipoCpu, ContextoExclusivo, Uno
  <2>3. flag /\ pidInt = ctx
    BY <2>2 DEF TurnoInv, Pendiente
  <2> QED
    BY <2>1, <2>3 DEF CicloChequea, Desaloja
<1> QED
  BY <1>1, TurnoSiempre, PTL DEF Spec, ObedeceAviso

(* sale_de_exec kills no thread but the clock of its turn, unless that     *)
(* clock went off.                                                         *)
THEOREM CancelaCorrecto == Spec => CancelaSuReloj
<1>1. TipoInv /\ TurnoInv /\ [Next]_vars =>
        (\A k \in Hilos : despacho = "sale" /\ despacho' # "sale" /\ hilo'[k] # hilo[k]
            => vencido \/ (hilo[k] \in {"duerme", "espera"} /\ hiloPid[k] = enExec))
  <2> SUFFICES ASSUME TipoInv, TurnoInv, [Next]_vars, NEW k \in Hilos,
                      despacho = "sale", despacho' # "sale", hilo'[k] # hilo[k], ~vencido
               PROVE  hilo[k] \in {"duerme", "espera"} /\ hiloPid[k] = enExec
    OBVIOUS
  <2>1. SaleDeExec
    <3>1. CASE Despacho
      BY <3>1 DEF Despacho, ObtieneConReloj, ObtieneSinReloj, EnviaPcb, RecibeContexto, Deriva
    <3>2. CASE (\E j \in Hilos : Reloj(j)) \/ Interrup \/ Interrumpe
      BY <3>2 DEF Reloj, Despierta, TomaBuzon, Escribe, Interrup, InterrupEspera, InterrupCopia,
                  InterrupEnvia, Interrumpe, despVars
    <3>3. CASE Cpu \/ Ciclo \/ Externos
      BY <3>3 DEF Cpu, CpuRecibe, CpuLimpia, CpuDevuelve, Ciclo, CicloEspera, Ejecuta,
                  CicloEjecuta, CicloFalta, CicloChequea, Externos, EntraAReady, NaceHilo,
                  TerminaHilo, despVars
    <3> QED
      BY <3>1, <3>2, <3>3 DEF Next, vars, despVars
  <2>2. isRR /\ k = ultimo
    BY <2>1, Cancelacion DEF TipoInv, TypeOK
  <2> QED
    BY <2>2 DEF TurnoInv, RelojDelTurno, EnTurno
<1> QED
  BY <1>1, TurnoSiempre, PTL DEF Spec, CancelaSuReloj
=============================================================================
