------------------------------ MODULE Dialogo ------------------------------
(***************************************************************************)
(* The consoles (consola.c) and the threads that serve them in the Kernel  *)
(* (consola_routine.c), over the packets of the library                    *)
(* (tcp_serializacion.c).  Each thread serves the socket that it read in   *)
(* Servidor, which may be that of another console.                         *)
(*                                                                         *)
(* A packet is smaller than the buffer of a socket: send puts it there     *)
(* whole.  What travels is a sequence of fields; recv takes one of them    *)
(* when it asks for its number of bytes, and otherwise what it gives is    *)
(* not known: the thread is "perdido".  A text is its length, so that the  *)
(* texts of a program differ in it; codes are numbers, as in op_code.      *)
(*                                                                         *)
(* The process behind a thread asks for the screen or the keyboard a few   *)
(* times and ends: the rest of the Kernel is in Kernel.tla.                *)
(***************************************************************************)
EXTENDS Servidor, Integers

CONSTANTS Segmentos,   \* SEGMENTOS of the configuration of each console
          Lineas,      \* the lengths of the lines of its program
          Valores,     \* the words that users type
          Salidas,     \* the words that processes show
          MaxPedidos,  \* bound: the screen and keyboard requests of each process
          Cancelables  \* bound: the threads that sale_de_exec may hit; none with FIFO

ASSUME SupuestosDialogo ==
    /\ \A c \in Consolas : Segmentos[c] \in Seq(Int) /\ Lineas[c] \in Seq(Nat)
    /\ Valores \subseteq Int /\ Salidas \subseteq Int
    /\ \A c \in Consolas : MaxPedidos[c] \in Nat
    /\ Cancelables \subseteq Consolas

VARIABLES
    red,       \* each connection: what each end has not read yet, and how it ends for it
    consola,   \* the step of each console
    tecleado,  \* *input of each console
    mostrado,  \* *output of each console
    pcb,       \* the PCB that each thread builds, with its tamanio_restante
    pipeline,  \* pipeline of each PCB
    pedidos,   \* bound: the requests of each process so far
    cancelados \* the threads that sale_de_exec cancelled

consolaVars == <<consola, tecleado, mostrado>>
procesoVars == <<pcb, pipeline, pedidos>>
estadoVars == <<espera, servidorVars, hilo, leido, caida, red, consolaVars, procesoVars>>
vars == <<estadoVars, cancelados>>

(* op_code *)
NUEVO_PROCESO            == 2
CONSOLE_INPUT            == 3
CONSOLE_INPUT_RESPUESTA  == 4
CONSOLE_OUTPUT           == 5
CONSOLE_OUTPUT_RESPUESTA == 6
EXIT                     == 12
Codigos == {NUEVO_PROCESO, CONSOLE_INPUT, CONSOLE_INPUT_RESPUESTA, CONSOLE_OUTPUT,
            CONSOLE_OUTPUT_RESPUESTA, EXIT}

Basura == -2

Campos   == [bytes : Int, valor : Int, texto : BOOLEAN]
Extremos == {"viva", "fin", "rst", "roto"}

TypeOK ==
    /\ TipoServidor
    /\ hilo \in [Consolas -> {"nada", "fallo", "nace", "id", "encabezado", "cantidad", "segmentos",
                              "lineas", "espera", "atiende", "responde", "perdido", "fin"}]
    /\ caida \in {"no", "accept", "codigo", "senal", "perdido"}
    /\ consola \in [Consolas -> {"conecta", "envia", "espera", "teclea", "muestra",
                                 "exito", "error", "muerta"}]
    /\ red \in [Consolas -> [alKernel : Seq(Campos), alConsola : Seq(Campos),
                             extremoK : Extremos, extremoC : Extremos]]
    /\ tecleado \in [Consolas -> Valores \cup {Basura}]
    /\ mostrado \in [Consolas -> Int]
    /\ pcb \in [Consolas -> [cant : Int, segmentos : Seq(Int), instrucciones : Seq(Int),
                             restante : Int]]
    /\ pipeline \in [Consolas -> [op : Codigos \cup {0}, valor : Int]]
    /\ pedidos \in [Consolas -> Nat]
    /\ \A c \in Consolas : pedidos[c] <= MaxPedidos[c]
    /\ cancelados \subseteq Cancelables

SinPCB == [cant |-> 0, segmentos |-> <<>>, instrucciones |-> <<>>, restante |-> 0]

PipelineVacia == [op |-> 0, valor |-> 0]

Init ==
    /\ InitServidor
    /\ red = [c \in Consolas |-> [alKernel |-> <<>>, alConsola |-> <<>>,
                                  extremoK |-> "viva", extremoC |-> "viva"]]
    /\ consola = [c \in Consolas |-> "conecta"]
    /\ tecleado = [c \in Consolas |-> Basura]
    /\ mostrado = [c \in Consolas |-> Basura]
    /\ pcb = [c \in Consolas |-> SinPCB]
    /\ pipeline = [c \in Consolas |-> PipelineVacia]
    /\ pedidos = [c \in Consolas |-> 0]
    /\ cancelados = {}

-----------------------------------------------------------------------------
(* tcp_serializacion.c: what is sent *)

Entero(n) == [bytes |-> 4, valor |-> n, texto |-> FALSE]
Texto(n)  == [bytes |-> n + 1, valor |-> n, texto |-> TRUE]

(* The bytes of a stream, each by its field and its place in it: a field   *)
(* comes after the four of its size.                                       *)
BytesDe(campos) == UNION {{i} \X (1 .. (4 + campos[i].bytes)) : i \in DOMAIN campos}

(* crear_paquete, and agregar_a_paquete for each of the fields.            *)
Paquete(op, campos) ==
    [codigo |-> op,
     size   |-> Cardinality(BytesDe(campos)),
     stream |-> [i \in 1 .. (2 * Len(campos)) |->
                    IF i % 2 = 1 THEN Entero(campos[(i + 1) \div 2].bytes) ELSE campos[i \div 2]]]

(* enviar_paquete and serializar_paquete *)
Serializado(paquete) == <<Entero(paquete.codigo), Entero(paquete.size)>> \o paquete.stream

Vacio(op)        == Serializado(Paquete(op, <<>>))
ConEntero(op, n) == Serializado(Paquete(op, <<Entero(n)>>))

(* The first packet of a console: its segments and its lines.              *)
CamposIniciales(c) ==
    <<Entero(Len(Segmentos[c]))>>
      \o [i \in 1 .. Len(Segmentos[c]) |-> Entero(Segmentos[c][i])]
      \o [i \in 1 .. Len(Lineas[c]) |-> Texto(Lineas[c][i])]

PaqueteInicial(c) == Paquete(NUEVO_PROCESO, CamposIniciales(c))

Desde(s, n) == SubSeq(s, n, Len(s))

-----------------------------------------------------------------------------
(* The two ends of a connection.  A process that ends closes its sockets:  *)
(* the other end sees the end of the stream, or a reset when something was *)
(* left unread.  After a reset recv fails once, or send does; later recv   *)
(* gives the end of the stream and send is a SIGPIPE.                      *)
Cierre(sinLeer) == IF sinLeer = <<>> THEN "fin" ELSE "rst"

TrasEnviar(extremo) == IF extremo = "rst" THEN "roto" ELSE extremo

Agotada(s, extremo) == s = <<>> /\ extremo \in {"fin", "roto"}

Aceptada(c) == \A i \in DOMAIN espera : espera[i] # c

(* The Kernel ends, and with it every connection. *)
CaeKernel(causa) ==
    /\ caida' = causa
    /\ red' = [c \in Consolas |-> [red[c] EXCEPT
                 !.extremoC = IF @ # "viva" THEN @
                              ELSE IF Aceptada(c) THEN Cierre(red[c].alKernel) ELSE "rst"]]

EnviaKernel(c, campos) ==
    IF red[c].extremoK = "roto" THEN CaeKernel("senal")
    ELSE /\ red' = [red EXCEPT ![c].extremoK = TrasEnviar(@),
                              ![c].alConsola = IF red[c].extremoK = "viva" THEN @ \o campos ELSE @]
         /\ UNCHANGED caida

(* The console c ends, with what it has left unread. *)
TerminaConsola(c, resultado, sinLeer) ==
    /\ consola' = [consola EXCEPT ![c] = resultado]
    /\ red' = [red EXCEPT ![c].alConsola = sinLeer,
                          ![c].extremoK = IF @ = "viva" THEN Cierre(sinLeer) ELSE @]

EnviaConsola(c, campos) ==
    IF red[c].extremoC = "roto" THEN TerminaConsola(c, "muerta", <<>>)
    ELSE /\ red' = [red EXCEPT ![c].extremoC = TrasEnviar(@),
                              ![c].alKernel = IF red[c].extremoC = "viva" THEN @ \o campos ELSE @]
         /\ consola' = [consola EXCEPT ![c] = "espera"]

-----------------------------------------------------------------------------
(* consola.c *)

kernelVars == <<servidorVars, hilo, leido, caida, procesoVars>>

Conecta(c) ==
    /\ consola[c] = "conecta"
    /\ caida = "no"
    /\ consola' = [consola EXCEPT ![c] = "envia"]
    /\ espera' = Append(espera, c)
    /\ UNCHANGED <<kernelVars, red, tecleado, mostrado>>

(* crear_conexion ignores that connect failed: the send is a SIGPIPE. *)
NoConecta(c) ==
    /\ consola[c] = "conecta"
    /\ caida # "no"
    /\ consola' = [consola EXCEPT ![c] = "muerta"]
    /\ UNCHANGED <<espera, kernelVars, red, tecleado, mostrado>>

EnviaPrograma(c) ==
    /\ consola[c] = "envia"
    /\ EnviaConsola(c, Serializado(PaqueteInicial(c)))
    /\ UNCHANGED <<espera, kernelVars, tecleado, mostrado>>

(* recibir_operacion: -1 when the Kernel closed the connection. *)
Operacion(c) == IF red[c].alConsola = <<>> THEN -1 ELSE Head(red[c].alConsola).valor

RecibeOperacion(c, ops) ==
    /\ consola[c] = "espera"
    /\ red[c].alConsola # <<>> \/ Agotada(red[c].alConsola, red[c].extremoC)
    /\ Operacion(c) \in ops

RecibeInput(c) ==
    /\ RecibeOperacion(c, {CONSOLE_INPUT})
    /\ red' = [red EXCEPT ![c].alConsola = Desde(@, 3)]
    /\ consola' = [consola EXCEPT ![c] = "teclea"]
    /\ UNCHANGED <<espera, kernelVars, tecleado, mostrado>>

(* Mutant: the length of the packet is not read. *)
RecibeOutputSinLargo(c) ==
    /\ RecibeOperacion(c, {CONSOLE_OUTPUT})
    /\ mostrado' = [mostrado EXCEPT ![c] = red[c].alConsola[3].valor]
    /\ red' = [red EXCEPT ![c].alConsola = Desde(@, 4)]
    /\ consola' = [consola EXCEPT ![c] = "muestra"]
    /\ UNCHANGED <<espera, kernelVars, tecleado>>

RecibeOutput(c) ==
    /\ RecibeOperacion(c, {CONSOLE_OUTPUT})
    /\ mostrado' = [mostrado EXCEPT ![c] = red[c].alConsola[4].valor]
    /\ red' = [red EXCEPT ![c].alConsola = Desde(@, 5)]
    /\ consola' = [consola EXCEPT ![c] = "muestra"]
    /\ UNCHANGED <<espera, kernelVars, tecleado>>

RecibeExit(c) ==
    /\ RecibeOperacion(c, {EXIT})
    /\ TerminaConsola(c, "exito", Desde(red[c].alConsola, 3))
    /\ UNCHANGED <<espera, kernelVars, tecleado, mostrado>>

(* The Kernel closed the connection, or sent another code. *)
RecibeError(c) ==
    /\ RecibeOperacion(c, Int \ {CONSOLE_INPUT, CONSOLE_OUTPUT, EXIT})
    /\ TerminaConsola(c, "error", <<>>)
    /\ UNCHANGED <<espera, kernelVars, tecleado, mostrado>>

(* recv failed: recibir_operacion gives what cod_op had, never written. *)
RecibeReset(c) ==
    /\ consola[c] = "espera"
    /\ red[c].alConsola = <<>> /\ red[c].extremoC = "rst"
    /\ red' = [red EXCEPT ![c].extremoC = "roto"]
    /\ \E paso \in {"teclea", "muestra", "exito", "error", "muerta"} :
          /\ consola' = [consola EXCEPT ![c] = paso]
          /\ mostrado' = [mostrado EXCEPT ![c] = IF paso = "muestra" THEN Basura ELSE @]
    /\ UNCHANGED <<espera, kernelVars, tecleado>>

(* readline, atoi and the answer. *)
Teclea(c, v) ==
    /\ consola[c] = "teclea"
    /\ tecleado' = [tecleado EXCEPT ![c] = v]
    /\ EnviaConsola(c, ConEntero(CONSOLE_INPUT_RESPUESTA, v))
    /\ UNCHANGED <<espera, kernelVars, mostrado>>

(* The answer, after the delay of the screen. *)
Muestra(c) ==
    /\ consola[c] = "muestra"
    /\ EnviaConsola(c, Vacio(CONSOLE_OUTPUT_RESPUESTA))
    /\ UNCHANGED <<espera, kernelVars, tecleado, mostrado>>

(* The console is killed, or fails: no program, or no more to type. *)
Muere(c) ==
    /\ consola[c] \in {"envia", "espera", "teclea", "muestra"}
    /\ TerminaConsola(c, "muerta", red[c].alConsola)
    /\ UNCHANGED <<espera, kernelVars, tecleado, mostrado>>

NextConsola(c) ==
    \/ Conecta(c) \/ NoConecta(c) \/ EnviaPrograma(c)
    \/ RecibeInput(c) \/ RecibeOutput(c) \/ RecibeExit(c) \/ RecibeError(c) \/ RecibeReset(c)
    \/ \E v \in Valores : Teclea(c, v)
    \/ Muestra(c)

-----------------------------------------------------------------------------
(* consola_routine.c: the thread h, which serves the socket Toma(h).       *)

Toma(h)    == leido[h].socket
Llega(h)   == red[Toma(h)].alKernel
Extremo(h) == red[Toma(h)].extremoK

Pasa(h, paso) == hilo' = [hilo EXCEPT ![h] = paso]

Consume(h, n) == red' = [red EXCEPT ![Toma(h)].alKernel = Desde(@, n + 1)] /\ UNCHANGED caida

ajenas == <<espera, servidorVars, leido, consolaVars>>

(* recibir_operacion and largo_paquete *)
RecibeEncabezado(h) ==
    /\ hilo[h] = "encabezado"
    /\ Len(Llega(h)) >= 2 /\ Head(Llega(h)) = Entero(NUEVO_PROCESO)
    /\ pcb' = [pcb EXCEPT ![h].restante = Llega(h)[2].valor]
    /\ Consume(h, 2)
    /\ Pasa(h, "cantidad")
    /\ UNCHANGED <<ajenas, pipeline, pedidos>>

(* What the next recibir of h is for. *)
PideTexto(h) == hilo[h] = "lineas"
Falta(h) ==
    \/ hilo[h] = "cantidad"
    \/ hilo[h] = "segmentos" /\ Len(pcb[h].segmentos) < pcb[h].cant
    \/ hilo[h] = "lineas" /\ pcb[h].restante > 0

(* recibir takes the size of a field, and then that many bytes. *)
CampoSano(h) ==
    /\ Head(Llega(h)) = Entero(Llega(h)[2].bytes)
    /\ Llega(h)[2].texto = PideTexto(h)

Recibir(h) == Falta(h) /\ Len(Llega(h)) >= 2 /\ CampoSano(h) /\ Consume(h, 2)

Recibido(h) == Llega(h)[2].valor

(* The number of segments, and the bytes that it and they take. *)
RecibeCantidad(h) ==
    /\ hilo[h] = "cantidad"
    /\ Recibir(h)
    /\ pcb' = [pcb EXCEPT ![h].cant = Recibido(h),
                          ![h].restante = @ - (Recibido(h) + 1) * 8]
    /\ Pasa(h, "segmentos")
    /\ UNCHANGED <<ajenas, pipeline, pedidos>>

RecibeSegmento(h) ==
    /\ hilo[h] = "segmentos"
    /\ Recibir(h)
    /\ pcb' = [pcb EXCEPT ![h].segmentos = Append(@, Recibido(h))]
    /\ UNCHANGED <<ajenas, hilo, pipeline, pedidos>>

(* Mutant: the end of the text is not counted. *)
RecibeLineaSinFin(h) ==
    /\ hilo[h] = "lineas"
    /\ Recibir(h)
    /\ pcb' = [pcb EXCEPT ![h].instrucciones = Append(@, Recibido(h)),
                          ![h].restante = @ - (Recibido(h) + 4)]
    /\ UNCHANGED <<ajenas, hilo, pipeline, pedidos>>

RecibeLinea(h) ==
    /\ hilo[h] = "lineas"
    /\ Recibir(h)
    /\ pcb' = [pcb EXCEPT ![h].instrucciones = Append(@, Recibido(h)),
                          ![h].restante = @ - (Recibido(h) + 1 + 4)]
    /\ UNCHANGED <<ajenas, hilo, pipeline, pedidos>>

(* No segment is left; or no line: the PCB goes to NEW, and the thread     *)
(* waits for its process.                                                  *)
Completa(h) ==
    /\ hilo[h] \in {"segmentos", "lineas"}
    /\ ~Falta(h)
    /\ Pasa(h, IF hilo[h] = "segmentos" THEN "lineas" ELSE "espera")
    /\ pipeline' = [pipeline EXCEPT ![h] = PipelineVacia]
    /\ UNCHANGED <<ajenas, pcb, pedidos, red, caida>>

(* recv gives bytes that are not those of a field, or none: the thread     *)
(* goes on with any value, and may use it outside its arrays.              *)
SePierde(h) ==
    /\ \/ Falta(h) /\ Len(Llega(h)) >= 2 /\ ~CampoSano(h)
       \/ Falta(h) /\ Len(Llega(h)) < 2 /\ Extremo(h) # "viva"
       \/ hilo[h] = "encabezado" /\ Llega(h) = <<>> /\ Extremo(h) = "rst"
    /\ Pasa(h, "perdido")
    /\ UNCHANGED <<ajenas, procesoVars, red, caida>>

CaePerdido(h) ==
    /\ hilo[h] = "perdido"
    /\ CaeKernel("perdido")
    /\ Pasa(h, "fin")
    /\ UNCHANGED <<ajenas, procesoVars>>

-----------------------------------------------------------------------------
(* The process behind the thread: its dispatcher and the threads of its    *)
(* blocked states write pipeline and post console_semaphore.               *)
Pide(h, op, v) ==
    /\ hilo[h] = "espera"
    /\ op # EXIT => pedidos[h] < MaxPedidos[h]
    /\ pipeline' = [pipeline EXCEPT ![h].op = op,
                                    ![h].valor = IF op = CONSOLE_OUTPUT THEN v ELSE @]
    /\ pedidos' = [pedidos EXCEPT ![h] = IF op = EXIT THEN @ ELSE @ + 1]
    /\ Pasa(h, "atiende")
    /\ UNCHANGED <<ajenas, pcb, red, caida>>

(* Mutant: the packet of a request is not sent. *)
AtiendeIOSinEnviar(h) ==
    /\ hilo[h] = "atiende"
    /\ pipeline[h].op # EXIT
    /\ Pasa(h, "responde")
    /\ UNCHANGED <<ajenas, procesoVars, red, caida>>

AtiendeIO(h) ==
    /\ hilo[h] = "atiende"
    /\ pipeline[h].op # EXIT
    /\ EnviaKernel(Toma(h), IF pipeline[h].op = CONSOLE_INPUT THEN Vacio(CONSOLE_INPUT)
                            ELSE ConEntero(CONSOLE_OUTPUT, pipeline[h].valor))
    /\ Pasa(h, "responde")
    /\ UNCHANGED <<ajenas, procesoVars>>

LiberaPCB(h) ==
    /\ pcb' = [pcb EXCEPT ![h] = SinPCB]
    /\ pipeline' = [pipeline EXCEPT ![h] = PipelineVacia]
    /\ pedidos' = [pedidos EXCEPT ![h] = 0]

(* The PCB is freed; the socket is not closed. *)
AtiendeExit(h) ==
    /\ hilo[h] = "atiende"
    /\ pipeline[h].op = EXIT
    /\ LiberaPCB(h)
    /\ EnviaKernel(Toma(h), Vacio(EXIT))
    /\ Pasa(h, "fin")
    /\ UNCHANGED ajenas

Respuesta(op) == IF op = CONSOLE_INPUT THEN CONSOLE_INPUT_RESPUESTA ELSE CONSOLE_OUTPUT_RESPUESTA

Responde(h, op) ==
    hilo[h] = "responde" /\ pipeline[h].op = op /\ Llega(h) # <<>> /\ Head(Llega(h)) = Entero(Respuesta(op))

RecibeTecla(h) ==
    /\ Responde(h, CONSOLE_INPUT)
    /\ Len(Llega(h)) >= 4
    /\ pipeline' = [pipeline EXCEPT ![h].op = Respuesta(@), ![h].valor = Llega(h)[4].valor]
    /\ Consume(h, 4)
    /\ Pasa(h, "espera")
    /\ UNCHANGED <<ajenas, pcb, pedidos>>

(* Mutant: the length of the confirmation is not read. *)
RecibeConfirmacionSinLargo(h) ==
    /\ Responde(h, CONSOLE_OUTPUT)
    /\ Len(Llega(h)) >= 2
    /\ pipeline' = [pipeline EXCEPT ![h].op = Respuesta(@)]
    /\ Consume(h, 1)
    /\ Pasa(h, "espera")
    /\ UNCHANGED <<ajenas, pcb, pedidos>>

RecibeConfirmacion(h) ==
    /\ Responde(h, CONSOLE_OUTPUT)
    /\ Len(Llega(h)) >= 2
    /\ pipeline' = [pipeline EXCEPT ![h].op = Respuesta(@)]
    /\ Consume(h, 2)
    /\ Pasa(h, "espera")
    /\ UNCHANGED <<ajenas, pcb, pedidos>>

(* recv failed and what cod_op had was the code expected: the thread goes  *)
(* on, with any value.                                                     *)
RecibeRespuestaBasura(h) ==
    /\ hilo[h] = "responde"
    /\ Llega(h) = <<>> /\ Extremo(h) = "rst"
    /\ red' = [red EXCEPT ![Toma(h)].extremoK = "roto"]
    /\ pipeline' = [pipeline EXCEPT ![h].op = Respuesta(@),
                                    ![h].valor = IF pipeline[h].op = CONSOLE_INPUT THEN Basura ELSE @]
    /\ Pasa(h, "espera")
    /\ UNCHANGED <<ajenas, pcb, pedidos, caida>>

(* The same, and the length that it gave is one that malloc cannot serve:  *)
(* the word is read from no address.                                       *)
RecibeRespuestaNula(h) ==
    /\ hilo[h] = "responde"
    /\ pipeline[h].op = CONSOLE_INPUT
    /\ Llega(h) = <<>> /\ Extremo(h) = "rst"
    /\ CaeKernel("senal")
    /\ Pasa(h, "fin")
    /\ UNCHANGED <<ajenas, procesoVars>>

CodigoEsperado(h) == IF hilo[h] = "encabezado" THEN NUEVO_PROCESO ELSE Respuesta(pipeline[h].op)

(* Another code, or -1 because the console left: exit. *)
RecibeInesperado(h) ==
    /\ hilo[h] \in {"encabezado", "responde"}
    /\ IF Llega(h) = <<>> THEN Extremo(h) # "viva" ELSE Head(Llega(h)) # Entero(CodigoEsperado(h))
    /\ CaeKernel("codigo")
    /\ Pasa(h, "fin")
    /\ UNCHANGED <<ajenas, procesoVars>>

(* accept fails: exit. *)
AceptaFalla ==
    /\ servidor = "acepta"
    /\ CaeKernel("accept")
    /\ UNCHANGED <<ajenas, hilo, procesoVars>>

-----------------------------------------------------------------------------
NextServidor ==
    /\ caida = "no"
    /\ LoopServidor
    /\ UNCHANGED <<red, consolaVars, procesoVars>>

NextHilo(h) ==
    /\ caida = "no"
    /\ \/ LeeParametros(h) /\ UNCHANGED <<red, consolaVars, procesoVars>>
       \/ RecibeEncabezado(h) \/ RecibeCantidad(h) \/ RecibeSegmento(h) \/ RecibeLinea(h)
       \/ Completa(h) \/ AtiendeIO(h) \/ AtiendeExit(h) \/ RecibeTecla(h) \/ RecibeConfirmacion(h)
       \/ RecibeInesperado(h) \/ RecibeRespuestaBasura(h) \/ RecibeRespuestaNula(h)
       \/ SePierde(h) \/ CaePerdido(h)

NextProceso(h) ==
    /\ caida = "no"
    /\ \/ Pide(h, CONSOLE_INPUT, 0)
       \/ \E v \in Salidas : Pide(h, CONSOLE_OUTPUT, v)
       \/ Pide(h, EXIT, 0)

(* What may go wrong from outside: the system refuses a thread or a        *)
(* connection, or a console is killed.                                     *)
NextFallas ==
    \/ caida = "no" /\ CreaHiloFalla /\ UNCHANGED <<red, consolaVars, procesoVars>>
    \/ caida = "no" /\ AceptaFalla
    \/ \E c \in Consolas : Muere(c)

PasoDialogo ==
    \/ NextServidor
    \/ \E c \in Consolas : NextConsola(c) \/ NextHilo(c) \/ NextProceso(c)
    \/ NextFallas

(* sale_de_exec cancels the thread of last_clock_id; when that clock ended *)
(* its identifier may be that of a thread of a console.  The thread ends   *)
(* at its next cancellation point: it may go on, and has no obligation to. *)
CancelaHilo(h) ==
    /\ caida = "no"
    /\ h \in Cancelables
    /\ hilo[h] \notin {"nada", "fallo", "fin"}
    /\ cancelados' = cancelados \cup {h}
    /\ UNCHANGED estadoVars

Next ==
    \/ PasoDialogo /\ UNCHANGED cancelados
    \/ \E h \in Consolas : CancelaHilo(h)

Spec == Init /\ [][Next]_vars

(* The threads of the Kernel that nobody cancelled and the consoles go on, *)
(* and the program of each process asks for something or ends; nothing has *)
(* to fail.                                                                *)
SpecJusta ==
    /\ Spec
    /\ WF_vars(NextServidor /\ UNCHANGED cancelados)
    /\ \A c \in Consolas :
          /\ WF_vars(NextConsola(c) /\ UNCHANGED cancelados)
          /\ WF_vars(c \notin cancelados /\ NextHilo(c) /\ UNCHANGED cancelados)
          /\ WF_vars(NextProceso(c) /\ UNCHANGED cancelados)
=============================================================================
