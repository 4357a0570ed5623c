---------------------------- MODULE KernelProofs ----------------------------
(***************************************************************************)
(* Machine-checked proofs about the Kernel, for every set of processes,    *)
(* degree, device list and algorithm.                                      *)
(***************************************************************************)
EXTENDS KernelPropiedades, SequenceTheorems, TLAPS

(* What the threads have in their hands while the Kernel is up.  Without   *)
(* it TypeOK is not inductive: a NULL pcb could reach a queue or Memoria.  *)
EnManos ==
    ~caido =>
      /\ plan \in PasosPlan \ {"esperaNew", "esperaGrado", "saca"} => planPcb \in Procesos
      /\ despacho \in {"recibe", "ingresa"} => enExec \in Procesos
      /\ canal = "pedido" => canalPid \in Procesos

(* What the state of the threads is; TypeOK adds the exits and the threads *)
(* cancelled, which no step reads.                                         *)
TipoBase ==
    /\ TipoConsola /\ TipoPlan /\ TipoReady /\ TipoDespacho /\ TipoHilo /\ TipoMemoria
    /\ caido \in BOOLEAN

TipoInv == TipoBase /\ EnManos

(* A step of a thread, without sale_de_exec.  The rest of Next changes     *)
(* neither queues, semaphores nor PCBs.                                    *)
PasoKernel == ~caido /\ (Paso \/ \E p \in Procesos : RetornoCpu(p))

LEMMA PasoDeKernel == [Next]_vars => [PasoKernel]_estadoVars
  BY DEF Next, PasoKernel, Retorno, Falla, HiloDesconoce, ConsolaFalla, Ocioso, vars

LEMMA SalidaInicial ==
    Init => salida \in {"no", "dispositivo", "consola"} /\ cancelados \subseteq HilosDelKernel
  BY DEF Init

(* The threads that sale_de_exec may cancel are threads of the Kernel. *)
LEMMA SalidaPaso ==
  ASSUME salida \in {"no", "dispositivo", "consola"}, cancelados \subseteq HilosDelKernel,
         [Next]_vars
  PROVE  salida' \in {"no", "dispositivo", "consola"} /\ cancelados' \subseteq HilosDelKernel
<1>1. CASE UNCHANGED salidaVars
  BY <1>1 DEF salidaVars
<1>2. ASSUME NEW p \in Procesos, Retorno(p), UNCHANGED salida
      PROVE  salida' = salida /\ cancelados' \subseteq HilosDelKernel
  BY <1>2 DEF Retorno, SaleDeExec, HilosVivos, HilosDelKernel
<1>3. ASSUME NEW p \in Procesos, Falla(p)
      PROVE  salida' \in {"no", "dispositivo", "consola"} /\ cancelados' = cancelados
  BY <1>3 DEF Falla, HiloDesconoce, ConsolaFalla
<1> QED
  BY <1>1, <1>2, <1>3 DEF Next, Ocioso, vars

LEMMA TipoInicial == Init => TipoInv
<1> SUFFICES ASSUME Init PROVE TipoInv
  OBVIOUS
<1> USE SupuestosKernel DEF SupuestosKernel, Init
<1>1. TipoConsola
  BY DEF TipoConsola, PasosConsola, Operaciones
<1>2. TipoPlan /\ TipoReady /\ TipoDespacho
  BY DEF TipoPlan, TipoReady, TipoDespacho, PasosPlan, PasosDespacho
<1>3. TipoHilo
  BY DEF TipoHilo, PasosHilo
<1>4. TipoMemoria
  BY DEF TipoMemoria
<1>5. EnManos
  BY DEF EnManos, PasosPlan
<1> QED
  BY <1>1, <1>2, <1>3, <1>4, <1>5 DEF TipoInv, TipoBase

-----------------------------------------------------------------------------
(* A group of variables that a step leaves alone stays well typed. *)
LEMMA TipoIgual ==
    /\ TipoConsola /\ UNCHANGED consolaVars => TipoConsola'
    /\ TipoPlan /\ UNCHANGED planVars => TipoPlan'
    /\ TipoReady /\ UNCHANGED readyVars => TipoReady'
    /\ TipoDespacho /\ UNCHANGED despVars => TipoDespacho'
    /\ TipoHilo /\ UNCHANGED hiloVars => TipoHilo'
    /\ TipoMemoria /\ UNCHANGED memVars => TipoMemoria'
<1>1. TipoConsola /\ UNCHANGED consolaVars => TipoConsola'
  BY DEF TipoConsola, consolaVars
<1>2. TipoPlan /\ UNCHANGED planVars => TipoPlan'
  BY DEF TipoPlan, planVars
<1>3. TipoReady /\ UNCHANGED readyVars => TipoReady'
  BY DEF TipoReady, readyVars
<1>4. TipoDespacho /\ UNCHANGED despVars => TipoDespacho'
  BY DEF TipoDespacho, despVars
<1>5. TipoHilo /\ UNCHANGED hiloVars => TipoHilo'
  BY DEF TipoHilo, hiloVars
<1>6. TipoMemoria /\ UNCHANGED memVars => TipoMemoria'
  BY DEF TipoMemoria, memVars, regionVars, canalVars
<1> QED
  BY <1>1, <1>2, <1>3, <1>4, <1>5, <1>6

(* A pop of a queue that is not empty. *)
LEMMA SacarDeCola ==
  ASSUME NEW s \in Seq(Procesos), s # <<>>
  PROVE  Head(s) \in Procesos /\ Tail(s) \in Seq(Procesos) /\ Len(Tail(s)) = Len(s) - 1
  BY HeadTailProperties

(* A push to READY keeps the queues well typed and makes them one longer.  *)
LEMMA IngresarTipo ==
  ASSUME NEW p \in Procesos, NEW source, TipoReady, IngresarAReady(p, source)
  PROVE  /\ colaRR' \in Seq(Procesos)
         /\ colaFIFO' \in Seq(Procesos)
         /\ Len(colaRR') + Len(colaFIFO') = Len(colaRR) + Len(colaFIFO) + 1
<1> USE DEF TipoReady
<1>1. \A s \in Seq(Procesos) : Append(s, p) \in Seq(Procesos) /\ Len(Append(s, p)) = Len(s) + 1
  BY AppendProperties
<1>2. Len(colaRR) \in Nat /\ Len(colaFIFO) \in Nat
  BY LenProperties
<1>3. CASE colaRR' = Append(colaRR, p) /\ colaFIFO' = colaFIFO
  BY <1>1, <1>2, <1>3
<1>4. CASE colaFIFO' = Append(colaFIFO, p) /\ colaRR' = colaRR
  BY <1>1, <1>2, <1>4
<1> QED
  BY <1>3, <1>4 DEF IngresarAReady

(* A device semaphore that goes up, or down from a positive value. *)
LEMMA SemaforoTipo ==
  ASSUME NEW s \in [Recursos -> Nat], NEW r
  PROVE  /\ [s EXCEPT ![r] = @ + 1] \in [Recursos -> Nat]
         /\ s[r] > 0 => [s EXCEPT ![r] = @ - 1] \in [Recursos -> Nat]
<1>1. CASE r \in Recursos
  BY <1>1
<1>2. CASE r \notin Recursos
  BY <1>2
<1> QED
  BY <1>1, <1>2

(* The two halves of the memory region keep its state well typed. *)
LEMMA RegionTipo ==
  ASSUME TipoMemoria
  PROVE  /\ \A op \in PedidosMemoria, p \in Procesos \cup {Nulo} :
              PedirAMemoria(op, p) => TipoMemoria'
         /\ OperacionResuelta => TipoMemoria'
  BY DEF TipoMemoria, PedirAMemoria, OperacionResuelta, canalVars

LEMMA TipoConsolas ==
  ASSUME TipoInv, ~caido, NEW p \in Procesos, Consolas(p)
  PROVE  TipoInv'
<1> USE DEF TipoInv, TipoBase
<1>1. CASE ConsolaCrea(p)
  <2>1. TipoConsola'
    BY <1>1 DEF ConsolaCrea, TipoConsola, PasosConsola, Operaciones
  <2>2. TipoPlan'
    BY <1>1 DEF ConsolaCrea, TipoPlan, PasosPlan
  <2>3. UNCHANGED <<readyVars, despVars, hiloVars, memVars>>
    BY <1>1 DEF ConsolaCrea
  <2>4. EnManos' /\ caido' \in BOOLEAN
    BY <1>1 DEF ConsolaCrea, EnManos, despVars, memVars, canalVars
  <2> QED
    BY <2>1, <2>2, <2>3, <2>4, TipoIgual
<1>2. CASE ConsolaAvisa(p)
  <2>1. TipoConsola'
    BY <1>2 DEF ConsolaAvisa, TipoConsola, PasosConsola, Operaciones
  <2>2. TipoPlan'
    BY <1>2 DEF ConsolaAvisa, TipoPlan, PasosPlan
  <2>3. UNCHANGED <<readyVars, despVars, hiloVars, memVars>>
    BY <1>2 DEF ConsolaAvisa
  <2>4. EnManos' /\ caido' \in BOOLEAN
    BY <1>2 DEF ConsolaAvisa, EnManos, Exige, despVars, memVars, canalVars
  <2> QED
    BY <2>1, <2>2, <2>3, <2>4, TipoIgual
<1>3. CASE ConsolaDespierta(p)
  <2>1. TipoConsola'
    BY <1>3 DEF ConsolaDespierta, TipoConsola, PasosConsola, Operaciones
  <2>2. UNCHANGED <<planVars, readyVars, despVars, hiloVars, memVars>>
    BY <1>3 DEF ConsolaDespierta
  <2>3. EnManos' /\ caido' \in BOOLEAN
    BY <1>3 DEF ConsolaDespierta, EnManos, Exige, despVars, memVars, planVars, canalVars
  <2> QED
    BY <2>1, <2>2, <2>3, TipoIgual
<1>4. CASE ConsolaRecibe(p)
  <2>1. TipoConsola'
    BY <1>4 DEF ConsolaRecibe, TipoConsola, PasosConsola, Operaciones
  <2>2. UNCHANGED <<planVars, readyVars, despVars, hiloVars, memVars>>
    BY <1>4 DEF ConsolaRecibe
  <2>3. EnManos' /\ caido' \in BOOLEAN
    BY <1>4 DEF ConsolaRecibe, EnManos, despVars, memVars, planVars, canalVars
  <2> QED
    BY <2>1, <2>2, <2>3, TipoIgual
<1>5. CASE ConsolaPideSalida(p)
  <2>1. TipoConsola'
    BY <1>5 DEF ConsolaPideSalida, TipoConsola, PasosConsola, Operaciones
  <2>2. TipoMemoria'
    BY <1>5, RegionTipo DEF ConsolaPideSalida, TipoMemoria, PedidosMemoria
  <2>3. UNCHANGED <<planVars, readyVars, despVars, hiloVars>>
    BY <1>5 DEF ConsolaPideSalida
  <2>4. EnManos' /\ caido' \in BOOLEAN
    BY <1>5 DEF ConsolaPideSalida, EnManos, PedirAMemoria, canalVars, despVars, planVars
  <2> QED
    BY <2>1, <2>2, <2>3, <2>4, TipoIgual
<1>6. CASE ConsolaLibera(p)
  <2>1. TipoConsola'
    BY <1>6 DEF ConsolaLibera, TipoConsola, PasosConsola, Operaciones
  <2>2. TipoMemoria'
    BY <1>6, RegionTipo DEF ConsolaLibera, TipoMemoria, PedidosMemoria
  <2>3. UNCHANGED <<planVars, readyVars, despVars, hiloVars>>
    BY <1>6 DEF ConsolaLibera
  <2>4. EnManos' /\ caido' \in BOOLEAN
    BY <1>6 DEF ConsolaLibera, EnManos, OperacionResuelta, canalVars, despVars, planVars
  <2> QED
    BY <2>1, <2>2, <2>3, <2>4, TipoIgual
<1>7. CASE ConsolaDestruye(p)
  <2>1. TipoConsola'
    BY <1>7 DEF ConsolaDestruye, TipoConsola, PasosConsola, Operaciones
  <2>2. UNCHANGED <<planVars, readyVars, despVars, hiloVars, memVars>>
    BY <1>7 DEF ConsolaDestruye
  <2>3. EnManos' /\ caido' \in BOOLEAN
    BY <1>7 DEF ConsolaDestruye, EnManos, despVars, memVars, planVars, canalVars
  <2> QED
    BY <2>1, <2>2, <2>3, TipoIgual
<1> QED
  BY <1>1, <1>2, <1>3, <1>4, <1>5, <1>6, <1>7 DEF Consolas

LEMMA TipoPlanificador ==
  ASSUME TipoInv, ~caido, Planificador
  PROVE  TipoInv'
<1> USE DEF TipoInv, TipoBase
<1>1. CASE PlanEsperaNew
  <2>1. TipoPlan'
    BY <1>1 DEF PlanEsperaNew, TipoPlan, PasosPlan
  <2>2. UNCHANGED <<consolaVars, readyVars, despVars, hiloVars, memVars>>
    BY <1>1 DEF PlanEsperaNew
  <2>3. EnManos' /\ caido' \in BOOLEAN
    BY <1>1 DEF PlanEsperaNew, EnManos, despVars, memVars, canalVars
  <2> QED
    BY <2>1, <2>2, <2>3, TipoIgual
<1>2. CASE PlanEsperaGrado
  <2>1. TipoPlan'
    BY <1>2 DEF PlanEsperaGrado, TipoPlan, PasosPlan
  <2>2. UNCHANGED <<consolaVars, readyVars, despVars, hiloVars, memVars>>
    BY <1>2 DEF PlanEsperaGrado
  <2>3. EnManos' /\ caido' \in BOOLEAN
    BY <1>2 DEF PlanEsperaGrado, EnManos, despVars, memVars, canalVars
  <2> QED
    BY <2>1, <2>2, <2>3, TipoIgual
<1>3. CASE PlanSaca
  <2>1. TipoPlan'
    BY <1>3, SacarDeCola DEF PlanSaca, TipoPlan, PasosPlan
  <2>2. UNCHANGED <<consolaVars, readyVars, despVars, hiloVars, memVars>>
    BY <1>3 DEF PlanSaca
  <2>3. EnManos' /\ caido' \in BOOLEAN
    BY <1>3, SacarDeCola DEF PlanSaca, EnManos, Exige, TipoPlan, despVars, memVars, canalVars
  <2> QED
    BY <2>1, <2>2, <2>3, TipoIgual
<1>4. CASE PlanPideMemoria
  <2>1. TipoPlan'
    BY <1>4 DEF PlanPideMemoria, TipoPlan, PasosPlan
  <2>2. TipoMemoria'
    BY <1>4, RegionTipo DEF PlanPideMemoria, TipoMemoria, TipoPlan, PedidosMemoria
  <2>3. UNCHANGED <<consolaVars, readyVars, despVars, hiloVars>>
    BY <1>4 DEF PlanPideMemoria
  <2>4. EnManos' /\ caido' \in BOOLEAN
    BY <1>4 DEF PlanPideMemoria, EnManos, PedirAMemoria, PasosPlan, canalVars, despVars
  <2> QED
    BY <2>1, <2>2, <2>3, <2>4, TipoIgual
<1>5. CASE PlanRecibeMemoria
  <2>1. TipoPlan'
    BY <1>5 DEF PlanRecibeMemoria, TipoPlan, PasosPlan
  <2>2. TipoMemoria'
    BY <1>5, RegionTipo DEF PlanRecibeMemoria, TipoMemoria, PedidosMemoria
  <2>3. UNCHANGED <<consolaVars, readyVars, despVars, hiloVars>>
    BY <1>5 DEF PlanRecibeMemoria
  <2>4. EnManos' /\ caido' \in BOOLEAN
    BY <1>5 DEF PlanRecibeMemoria, EnManos, OperacionResuelta, PasosPlan, canalVars, despVars
  <2> QED
    BY <2>1, <2>2, <2>3, <2>4, TipoIgual
<1>6. CASE PlanAgrega
  <2>1. TipoConsola'
    BY <1>6 DEF PlanAgrega, TipoConsola, PasosConsola, Operaciones
  <2>2. TipoPlan'
    BY <1>6 DEF PlanAgrega, TipoPlan, PasosPlan
  <2>3. UNCHANGED <<readyVars, despVars, hiloVars, memVars>>
    BY <1>6 DEF PlanAgrega
  <2>4. EnManos' /\ caido' \in BOOLEAN
    BY <1>6 DEF PlanAgrega, EnManos, PasosPlan, despVars, memVars, canalVars
  <2> QED
    BY <2>1, <2>2, <2>3, <2>4, TipoIgual
<1>7. CASE PlanIngresa
  <2>1. TipoPlan'
    BY <1>7 DEF PlanIngresa, TipoPlan, PasosPlan
  <2>2. TipoReady'
    BY <1>7, IngresarTipo DEF PlanIngresa, TipoReady, EnManos, PasosPlan
  <2>3. UNCHANGED <<consolaVars, despVars, hiloVars, memVars>>
    BY <1>7 DEF PlanIngresa
  <2>4. EnManos' /\ caido' \in BOOLEAN
    BY <1>7 DEF PlanIngresa, EnManos, PasosPlan, despVars, memVars, canalVars
  <2> QED
    BY <2>1, <2>2, <2>3, <2>4, TipoIgual
<1>8. CASE PlanRegistra
  <2>1. TipoPlan'
    BY <1>8 DEF PlanRegistra, TipoPlan, PasosPlan
  <2>2. UNCHANGED <<consolaVars, readyVars, despVars, hiloVars, memVars>>
    BY <1>8 DEF PlanRegistra
  <2>3. EnManos' /\ caido' \in BOOLEAN
    BY <1>8 DEF PlanRegistra, EnManos, PasosPlan, despVars, memVars, canalVars
  <2> QED
    BY <2>1, <2>2, <2>3, TipoIgual
<1>9. CASE PlanAvisa
  <2>1. TipoPlan'
    BY <1>9 DEF PlanAvisa, TipoPlan, PasosPlan
  <2>2. TipoReady'
    BY <1>9 DEF PlanAvisa, TipoReady
  <2>3. UNCHANGED <<consolaVars, despVars, hiloVars, memVars>>
    BY <1>9 DEF PlanAvisa
  <2>4. EnManos' /\ caido' \in BOOLEAN
    BY <1>9 DEF PlanAvisa, EnManos, despVars, memVars, canalVars
  <2> QED
    BY <2>1, <2>2, <2>3, <2>4, TipoIgual
<1> QED
  BY <1>1, <1>2, <1>3, <1>4, <1>5, <1>6, <1>7, <1>8, <1>9 DEF Planificador

LEMMA TipoDespachador ==
  ASSUME TipoInv, ~caido, Despacho
  PROVE  TipoInv'
<1> USE DEF TipoInv, TipoBase
<1>1. CASE DespachoInicia
  <2>1. TipoDespacho'
    BY <1>1 DEF DespachoInicia, TipoDespacho, PasosDespacho
  <2>2. UNCHANGED <<consolaVars, planVars, readyVars, hiloVars, memVars>>
    BY <1>1 DEF DespachoInicia
  <2>3. EnManos' /\ caido' \in BOOLEAN
    BY <1>1 DEF DespachoInicia, EnManos, memVars, planVars, canalVars
  <2> QED
    BY <2>1, <2>2, <2>3, TipoIgual
<1>2. CASE DespachoIngresa
  <2>1. TipoReady'
    BY <1>2, IngresarTipo DEF DespachoIngresa, TipoReady, EnManos
  <2>2. TipoDespacho'
    BY <1>2 DEF DespachoIngresa, TipoDespacho, PasosDespacho
  <2>3. UNCHANGED <<consolaVars, planVars, hiloVars, memVars>>
    BY <1>2 DEF DespachoIngresa
  <2>4. EnManos' /\ caido' \in BOOLEAN
    BY <1>2 DEF DespachoIngresa, EnManos, memVars, planVars, canalVars
  <2> QED
    BY <2>1, <2>2, <2>3, <2>4, TipoIgual
<1>3. CASE DespachoAvisa
  <2>1. TipoReady'
    BY <1>3 DEF DespachoAvisa, TipoReady
  <2>2. TipoDespacho'
    BY <1>3 DEF DespachoAvisa, TipoDespacho, PasosDespacho
  <2>3. UNCHANGED <<consolaVars, planVars, hiloVars, memVars>>
    BY <1>3 DEF DespachoAvisa
  <2>4. EnManos' /\ caido' \in BOOLEAN
    BY <1>3 DEF DespachoAvisa, EnManos, memVars, planVars, canalVars
  <2> QED
    BY <2>1, <2>2, <2>3, <2>4, TipoIgual
<1>4. CASE DespachoDevuelveGrado
  <2>1. TipoPlan'
    BY <1>4 DEF DespachoDevuelveGrado, TipoPlan, PasosPlan
  <2>2. TipoDespacho'
    BY <1>4 DEF DespachoDevuelveGrado, TipoDespacho, PasosDespacho
  <2>3. UNCHANGED <<consolaVars, readyVars, hiloVars, memVars>>
    BY <1>4 DEF DespachoDevuelveGrado
  <2>4. EnManos' /\ caido' \in BOOLEAN
    BY <1>4 DEF DespachoDevuelveGrado, EnManos, memVars, canalVars
  <2> QED
    BY <2>1, <2>2, <2>3, <2>4, TipoIgual
<1>5. CASE DespachoEspera
  <2>1. TipoReady'
    BY <1>5 DEF DespachoEspera, TipoReady
  <2>2. TipoDespacho'
    BY <1>5 DEF DespachoEspera, TipoDespacho, PasosDespacho
  <2>3. UNCHANGED <<consolaVars, planVars, hiloVars, memVars>>
    BY <1>5 DEF DespachoEspera
  <2>4. EnManos' /\ caido' \in BOOLEAN
    BY <1>5 DEF DespachoEspera, EnManos, memVars, planVars, canalVars
  <2> QED
    BY <2>1, <2>2, <2>3, <2>4, TipoIgual
<1>6. CASE DespachoObtiene
  <2>1. TipoReady'
    BY <1>6, SacarDeCola DEF DespachoObtiene, TipoReady
  <2>2. TipoDespacho'
    BY <1>6, SacarDeCola DEF DespachoObtiene, TipoDespacho, PasosDespacho, TipoReady
  <2>3. UNCHANGED <<consolaVars, planVars, hiloVars, memVars>>
    BY <1>6 DEF DespachoObtiene
  <2>4. EnManos' /\ caido' \in BOOLEAN
    BY <1>6 DEF DespachoObtiene, EnManos, Exige, PcbVivo, memVars, planVars, canalVars
  <2> QED
    BY <2>1, <2>2, <2>3, <2>4, TipoIgual
<1> QED
  BY <1>1, <1>2, <1>3, <1>4, <1>5, <1>6 DEF Despacho

LEMMA TipoRetorno ==
  ASSUME TipoInv, ~caido, NEW p \in Procesos, RetornoCpu(p)
  PROVE  TipoInv'
<1> USE DEF TipoInv, TipoBase
<1>1. CASE DespachoDesalojo(p)
  <2>1. TipoDespacho'
    BY <1>1 DEF DespachoDesalojo, TipoDespacho, PasosDespacho
  <2>2. UNCHANGED <<consolaVars, planVars, readyVars, hiloVars, memVars>>
    BY <1>1 DEF DespachoDesalojo
  <2>3. EnManos' /\ caido' \in BOOLEAN
    BY <1>1 DEF DespachoDesalojo, EnManos, CpuDevuelve, Exige, memVars, planVars, canalVars
  <2> QED
    BY <2>1, <2>2, <2>3, TipoIgual
<1>2. CASE DespachoFinaliza(p)
  <2>1. TipoConsola'
    BY <1>2 DEF DespachoFinaliza, TipoConsola, PasosConsola, Operaciones
  <2>2. TipoDespacho'
    BY <1>2 DEF DespachoFinaliza, TipoDespacho, PasosDespacho
  <2>3. UNCHANGED <<planVars, readyVars, hiloVars, memVars>>
    BY <1>2 DEF DespachoFinaliza
  <2>4. EnManos' /\ caido' \in BOOLEAN
    BY <1>2 DEF DespachoFinaliza, EnManos, CpuDevuelve, Exige, memVars, planVars, canalVars
  <2> QED
    BY <2>1, <2>2, <2>3, <2>4, TipoIgual
<1>3. CASE DespachoPageFault(p)
  <2>1. TipoDespacho'
    BY <1>3 DEF DespachoPageFault, TipoDespacho, PasosDespacho
  <2>2. TipoHilo'
    BY <1>3 DEF DespachoPageFault, TipoHilo, PasosHilo
  <2>3. UNCHANGED <<consolaVars, planVars, readyVars, memVars>>
    BY <1>3 DEF DespachoPageFault
  <2>4. EnManos' /\ caido' \in BOOLEAN
    BY <1>3 DEF DespachoPageFault, EnManos, CpuDevuelve, Exige, memVars, planVars, canalVars
  <2> QED
    BY <2>1, <2>2, <2>3, <2>4, TipoIgual
<1>4. CASE \E r \in Solicitudes : DespachoBloquea(p, r)
  <2>1. TipoDespacho'
    BY <1>4 DEF DespachoBloquea, TipoDespacho, PasosDespacho
  <2>2. TipoHilo'
    BY <1>4, SupuestosKernel DEF DespachoBloquea, TipoHilo, PasosHilo, SupuestosKernel
  <2>3. UNCHANGED <<consolaVars, planVars, readyVars, memVars>>
    BY <1>4 DEF DespachoBloquea
  <2>4. EnManos' /\ caido' \in BOOLEAN
    BY <1>4 DEF DespachoBloquea, EnManos, CpuDevuelve, Exige, memVars, planVars, canalVars
  <2> QED
    BY <2>1, <2>2, <2>3, <2>4, TipoIgual
<1> QED
  BY <1>1, <1>2, <1>3, <1>4 DEF RetornoCpu

LEMMA TipoHilos ==
  ASSUME TipoInv, ~caido, NEW p \in Procesos, Hilos(p)
  PROVE  TipoInv'
<1> USE DEF TipoInv, TipoBase
<1>1. CASE HiloPidePagina(p)
  <2>1. TipoHilo'
    BY <1>1 DEF HiloPidePagina, TipoHilo, PasosHilo
  <2>2. TipoMemoria'
    BY <1>1, RegionTipo DEF HiloPidePagina, TipoMemoria, PedidosMemoria
  <2>3. UNCHANGED <<consolaVars, planVars, readyVars, despVars>>
    BY <1>1 DEF HiloPidePagina
  <2>4. EnManos' /\ caido' \in BOOLEAN
    BY <1>1 DEF HiloPidePagina, EnManos, PedirAMemoria, canalVars, despVars, planVars
  <2> QED
    BY <2>1, <2>2, <2>3, <2>4, TipoIgual
<1>2. CASE HiloRecibePagina(p)
  <2>1. TipoHilo'
    BY <1>2 DEF HiloRecibePagina, TipoHilo, PasosHilo
  <2>2. TipoMemoria'
    BY <1>2, RegionTipo DEF HiloRecibePagina, TipoMemoria, PedidosMemoria
  <2>3. UNCHANGED <<consolaVars, planVars, readyVars, despVars>>
    BY <1>2 DEF HiloRecibePagina
  <2>4. EnManos' /\ caido' \in BOOLEAN
    BY <1>2 DEF HiloRecibePagina, EnManos, OperacionResuelta, canalVars, despVars, planVars
  <2> QED
    BY <2>1, <2>2, <2>3, <2>4, TipoIgual
<1>3. CASE HiloTomaRecurso(p)
  <2>1. TipoConsola'
    BY <1>3 DEF HiloTomaRecurso, TipoConsola, PasosConsola, Operaciones, PedidoConsola, Operaciones
  <2>2. TipoHilo'
    BY <1>3, SemaforoTipo DEF HiloTomaRecurso, TipoHilo, PasosHilo
  <2>3. UNCHANGED <<planVars, readyVars, despVars, memVars>>
    BY <1>3 DEF HiloTomaRecurso
  <2>4. EnManos' /\ caido' \in BOOLEAN
    BY <1>3 DEF HiloTomaRecurso, EnManos, Exige, despVars, memVars, planVars, canalVars
  <2> QED
    BY <2>1, <2>2, <2>3, <2>4, TipoIgual
<1>4. CASE HiloSueltaDispositivo(p)
  <2>1. TipoHilo'
    BY <1>4, SemaforoTipo DEF HiloSueltaDispositivo, TipoHilo, PasosHilo, SueltaRecurso
  <2>2. UNCHANGED <<consolaVars, planVars, readyVars, despVars, memVars>>
    BY <1>4 DEF HiloSueltaDispositivo
  <2>3. EnManos' /\ caido' \in BOOLEAN
    BY <1>4 DEF HiloSueltaDispositivo, EnManos, despVars, memVars, planVars, canalVars
  <2> QED
    BY <2>1, <2>2, <2>3, TipoIgual
<1>5. CASE HiloSueltaConsola(p)
  <2>1. TipoConsola'
    BY <1>5 DEF HiloSueltaConsola, TipoConsola, PasosConsola, Operaciones
  <2>2. TipoHilo'
    BY <1>5, SemaforoTipo DEF HiloSueltaConsola, TipoHilo, PasosHilo, SueltaRecurso
  <2>3. UNCHANGED <<planVars, readyVars, despVars, memVars>>
    BY <1>5 DEF HiloSueltaConsola
  <2>4. EnManos' /\ caido' \in BOOLEAN
    BY <1>5 DEF HiloSueltaConsola, EnManos, Exige, despVars, memVars, planVars, canalVars
  <2> QED
    BY <2>1, <2>2, <2>3, <2>4, TipoIgual
<1>6. CASE HiloIngresa(p)
  <2>1. TipoReady'
    BY <1>6, IngresarTipo DEF HiloIngresa, TipoReady
  <2>2. TipoHilo'
    BY <1>6 DEF HiloIngresa, TipoHilo, PasosHilo
  <2>3. UNCHANGED <<consolaVars, planVars, despVars, memVars>>
    BY <1>6 DEF HiloIngresa
  <2>4. EnManos' /\ caido' \in BOOLEAN
    BY <1>6 DEF HiloIngresa, EnManos, despVars, memVars, planVars, canalVars
  <2> QED
    BY <2>1, <2>2, <2>3, <2>4, TipoIgual
<1> QED
  BY <1>1, <1>2, <1>3, <1>4, <1>5, <1>6 DEF Hilos

LEMMA TipoRutina ==
  ASSUME TipoInv, ~caido, HiloAvisa \/ RutinaMemoria
  PROVE  TipoInv'
<1> USE DEF TipoInv, TipoBase
<1>1. CASE HiloAvisa
  <2>1. TipoReady'
    BY <1>1 DEF HiloAvisa, TipoReady
  <2>2. UNCHANGED <<consolaVars, planVars, despVars, hiloVars, memVars>>
    BY <1>1 DEF HiloAvisa
  <2>3. EnManos' /\ caido' \in BOOLEAN
    BY <1>1 DEF HiloAvisa, EnManos, despVars, memVars, planVars, canalVars
  <2> QED
    BY <2>1, <2>2, <2>3, TipoIgual
<1>2. CASE MemoriaEnvia
  <2>1. TipoMemoria'
    BY <1>2 DEF MemoriaEnvia, TipoMemoria
  <2>2. UNCHANGED <<consolaVars, planVars, readyVars, despVars, hiloVars>>
    BY <1>2 DEF MemoriaEnvia
  <2>3. EnManos' /\ caido' \in BOOLEAN
    BY <1>2 DEF MemoriaEnvia, EnManos, Exige, PcbVivo, despVars, planVars
  <2> QED
    BY <2>1, <2>2, <2>3, TipoIgual
<1>3. CASE MemoriaAtiende
  <2>1. TipoMemoria'
    <3>1. canalPid \in Procesos
      BY <1>3 DEF EnManos, MemoriaAtiende
    <3>2. enMemoria' \subseteq Procesos
      BY <1>3, <3>1 DEF MemoriaAtiende, TipoMemoria
    <3> QED
      BY <1>3, <3>2 DEF MemoriaAtiende, TipoMemoria, regionVars
  <2>2. UNCHANGED <<consolaVars, planVars, readyVars, despVars, hiloVars>>
    BY <1>3 DEF MemoriaAtiende
  <2>3. EnManos' /\ caido' \in BOOLEAN
    BY <1>3 DEF MemoriaAtiende, EnManos, despVars, planVars
  <2> QED
    BY <2>1, <2>2, <2>3, TipoIgual
<1>4. CASE MemoriaRecibe
  <2>1. TipoMemoria'
    BY <1>4 DEF MemoriaRecibe, TipoMemoria
  <2>2. UNCHANGED <<consolaVars, planVars, readyVars, despVars, hiloVars>>
    BY <1>4 DEF MemoriaRecibe
  <2>3. EnManos' /\ caido' \in BOOLEAN
    BY <1>4 DEF MemoriaRecibe, EnManos, Exige, despVars, planVars
  <2> QED
    BY <2>1, <2>2, <2>3, TipoIgual
<1> QED
  BY <1>1, <1>2, <1>3, <1>4 DEF RutinaMemoria

LEMMA TipoPaso == TipoInv /\ [PasoKernel]_estadoVars => TipoInv'
<1> SUFFICES ASSUME TipoInv, [PasoKernel]_estadoVars PROVE TipoInv'
  OBVIOUS
<1>1. ASSUME ~caido, Paso PROVE TipoInv'
  BY <1>1, TipoConsolas, TipoPlanificador, TipoDespachador, TipoRetorno, TipoHilos, TipoRutina
     DEF Paso
<1>2. CASE UNCHANGED estadoVars
  BY <1>2, TipoIgual DEF estadoVars, TipoInv, TipoBase, EnManos, planVars, despVars, memVars, canalVars
<1> QED
  BY <1>1, <1>2, TipoRetorno DEF PasoKernel

(* Every variable keeps its type: no thread ever decrements a semaphore    *)
(* below zero, and while the Kernel is up no NULL pcb enters a queue, the  *)
(* CPU or Memoria.                                                         *)
THEOREM TipoCorrecto == Spec => []TypeOK
<1> DEFINE Salidas == /\ salida \in {"no", "dispositivo", "consola"}
                      /\ cancelados \subseteq HilosDelKernel
<1>1. Init => TipoInv /\ Salidas
  BY TipoInicial, SalidaInicial
<1>2. TipoInv /\ Salidas /\ [Next]_vars => TipoInv' /\ Salidas'
  BY TipoPaso, PasoDeKernel, SalidaPaso
<1>3. TipoInv /\ Salidas => TypeOK
  BY DEF TipoInv, TipoBase, TypeOK
<1> QED
  BY <1>1, <1>2, <1>3, PTL DEF Spec

-----------------------------------------------------------------------------
(* The READY tokens. *)

LEMMA AvisosInicial == Init => AvisosReady
  BY DEF Init, AvisosReady, Uno

(* The terms of AvisosReady are natural numbers. *)
LEMMA LargosReady ==
  ASSUME TipoReady
  PROVE  Len(colaRR) \in Nat /\ Len(colaFIFO) \in Nat /\ semReady \in Nat /\ porAvisar \in Nat
  BY LenProperties DEF TipoReady

LEMMA AvisosConsolas ==
  ASSUME NEW p \in Procesos, Consolas(p)
  PROVE  UNCHANGED <<readyVars, plan, despacho>>
  BY DEF Consolas, ConsolaCrea, ConsolaAvisa, ConsolaDespierta, ConsolaRecibe, ConsolaPideSalida,
     ConsolaLibera, ConsolaDestruye, planVars, despVars

LEMMA AvisosPaso == TipoInv /\ AvisosReady /\ [PasoKernel]_estadoVars => AvisosReady'
<1> SUFFICES ASSUME TipoInv, AvisosReady, [PasoKernel]_estadoVars PROVE AvisosReady'
  OBVIOUS
<1> USE LargosReady DEF AvisosReady, Uno
<1>0. TipoReady /\ TipoReady' /\ EnManos /\ TipoPlan /\ TipoDespacho
  BY TipoPaso DEF TipoInv, TipoBase
<1>1. ASSUME UNCHANGED <<readyVars, plan, despacho>> PROVE AvisosReady'
  BY <1>1 DEF readyVars
<1>2. ASSUME ~caido, Planificador PROVE AvisosReady'
  <2>1. CASE PlanIngresa
    <3>1. Len(colaRR') + Len(colaFIFO') = Len(colaRR) + Len(colaFIFO) + 1
      BY <1>0, <1>2, <2>1, IngresarTipo DEF PlanIngresa, EnManos, PasosPlan
    <3> QED
      BY <1>0, <2>1, <3>1 DEF PlanIngresa, despVars
  <2>2. CASE PlanAvisa
    BY <1>0, <2>2 DEF PlanAvisa, despVars
  <2>3. CASE PlanRegistra
    BY <1>0, <2>3 DEF PlanRegistra, readyVars, despVars
  <2>4. CASE PlanEsperaNew \/ PlanEsperaGrado \/ PlanSaca \/ PlanPideMemoria \/ PlanRecibeMemoria
             \/ PlanAgrega
    <3>1. /\ UNCHANGED <<readyVars, despacho>>
          /\ plan \notin {"registra", "avisa"} /\ plan' \notin {"registra", "avisa"}
      BY <2>4 DEF PlanEsperaNew, PlanEsperaGrado, PlanSaca, PlanPideMemoria, PlanRecibeMemoria,
         PlanAgrega, despVars
    <3> QED
      BY <1>0, <3>1 DEF readyVars
  <2> QED
    BY <1>2, <2>1, <2>2, <2>3, <2>4 DEF Planificador
<1>3. ASSUME ~caido, Despacho PROVE AvisosReady'
  <2>1. CASE DespachoIngresa
    <3>1. Len(colaRR') + Len(colaFIFO') = Len(colaRR) + Len(colaFIFO) + 1
      BY <1>0, <1>3, <2>1, IngresarTipo DEF DespachoIngresa, EnManos
    <3> QED
      BY <1>0, <2>1, <3>1 DEF DespachoIngresa, planVars
  <2>2. CASE DespachoAvisa
    BY <1>0, <2>2 DEF DespachoAvisa, planVars
  <2>3. CASE DespachoEspera
    BY <1>0, <2>3 DEF DespachoEspera, planVars
  <2>4. CASE DespachoObtiene
    <3>1. CASE colaRR # <<>>
      <4>1. Len(colaRR') = Len(colaRR) - 1 /\ colaFIFO' = colaFIFO
        BY <1>0, <2>4, <3>1, SacarDeCola DEF DespachoObtiene, TipoReady
      <4> QED
        BY <1>0, <2>4, <4>1 DEF DespachoObtiene, planVars
    <3>2. CASE colaRR = <<>>
      <4>1. colaFIFO # <<>>
        BY <1>0, <2>4, <3>2, EmptySeq DEF DespachoObtiene, TipoReady
      <4>2. Len(colaFIFO') = Len(colaFIFO) - 1 /\ colaRR' = colaRR
        BY <1>0, <2>4, <3>2, <4>1, SacarDeCola DEF DespachoObtiene, TipoReady
      <4> QED
        BY <1>0, <2>4, <4>2 DEF DespachoObtiene, planVars
    <3> QED
      BY <3>1, <3>2
  <2>5. CASE DespachoInicia \/ DespachoDevuelveGrado
    BY <1>0, <2>5 DEF DespachoInicia, DespachoDevuelveGrado, readyVars, planVars
  <2> QED
    BY <1>3, <2>1, <2>2, <2>3, <2>4, <2>5 DEF Despacho
<1>4. ASSUME NEW p \in Procesos, RetornoCpu(p) PROVE AvisosReady'
  <2>1. /\ UNCHANGED <<readyVars, plan>>
        /\ despacho \notin {"avisa", "obtiene"} /\ despacho' \notin {"avisa", "obtiene"}
    BY <1>4 DEF RetornoCpu, DespachoDesalojo, DespachoFinaliza, DespachoPageFault, DespachoBloquea,
       CpuDevuelve, planVars
  <2> QED
    BY <1>0, <2>1 DEF readyVars
<1>5. ASSUME NEW p \in Procesos, Hilos(p) PROVE AvisosReady'
  <2>1. CASE HiloIngresa(p)
    <3>1. Len(colaRR') + Len(colaFIFO') = Len(colaRR) + Len(colaFIFO) + 1
      BY <1>0, <2>1, IngresarTipo DEF HiloIngresa
    <3> QED
      BY <1>0, <2>1, <3>1 DEF HiloIngresa, planVars, despVars
  <2>2. CASE ~HiloIngresa(p)
    BY <1>1, <1>5, <2>2 DEF Hilos, HiloPidePagina, HiloRecibePagina, HiloTomaRecurso,
       HiloSueltaDispositivo, HiloSueltaConsola, planVars, despVars
  <2> QED
    BY <2>1, <2>2
<1>6. CASE HiloAvisa
  BY <1>0, <1>6 DEF HiloAvisa, planVars, despVars
<1>7. CASE RutinaMemoria
  BY <1>1, <1>7 DEF RutinaMemoria, MemoriaEnvia, MemoriaAtiende, MemoriaRecibe, planVars, despVars
<1>8. CASE UNCHANGED estadoVars
  BY <1>1, <1>8 DEF estadoVars, planVars, despVars
<1> QED
  BY <1>1, <1>2, <1>3, <1>4, <1>5, <1>6, <1>7, <1>8, AvisosConsolas DEF PasoKernel, Paso

(* The dispatcher may take the token of a process for another one, but the *)
(* queues hold as many processes as there are tokens posted or to come:    *)
(* obtener_siguiente_a_exec never pops an empty queue.                     *)
THEOREM AvisosReadyCorrecto == Spec => [](AvisosReady)
<1>1. Init => TipoInv /\ AvisosReady
  BY TipoInicial, AvisosInicial
<1>2. TipoInv /\ AvisosReady /\ [Next]_vars => TipoInv' /\ AvisosReady'
  BY TipoPaso, AvisosPaso, PasoDeKernel
<1> QED
  BY <1>1, <1>2, PTL DEF Spec

=============================================================================
