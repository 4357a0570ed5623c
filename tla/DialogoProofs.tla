---------------------------- MODULE DialogoProofs ----------------------------
(***************************************************************************)
(* The consoles and the threads that serve them, proved for any number of  *)
(* consoles, any segments, lines and words.  First who serves whom: what   *)
(* the accept loop, the two shared parameters and each thread have of the  *)
(* identifiers.  Then, for each connection that no other thread touches,   *)
(* what is in each direction of it at each step of its thread and of its   *)
(* console.                                                                *)
(***************************************************************************)
EXTENDS DialogoPropiedades, FiniteSetTheorems, FunctionTheorems, SequenceTheorems, TLAPS

(* The type of everything but the threads that were cancelled.             *)
TipoBase ==
    /\ TipoServidor
    /\ hilo \in [Consolas -> {"nada", "fallo", "nace", "id", "encabezado", "cantidad", "segmentos",
                              "lineas", "espera", "atiende", "responde", "perdido", "fin"}]
    /\ caida \in {"no", "accept", "codigo", "senal", "perdido"}
    /\ consola \in [Consolas -> {"conecta", "envia", "espera", "teclea", "muestra",
                                 "exito", "error", "muerta"}]
    /\ red \in [Consolas -> [alKernel : Seq(Campos), alConsola : Seq(Campos),
                             extremoK : Extremos, extremoC : Extremos]]
    /\ tecleado \in [Consolas -> Valores \cup {Basura}]
    /\ mostrado \in [Consolas -> Int]
    /\ pcb \in [Consolas -> [cant : Int, segmentos : Seq(Int), instrucciones : Seq(Int),
                             restante : Int]]
    /\ pipeline \in [Consolas -> [op : Codigos \cup {0}, valor : Int]]
    /\ pedidos \in [Consolas -> Nat]
    /\ \A c \in Consolas : pedidos[c] <= MaxPedidos[c]

SinHilo   == {"nada", "fallo", "nace"}

(* A console connects once: it waits to be accepted before it has an       *)
(* identifier, and in one place.                                           *)
EsperaCoherente ==
    /\ \A i, j \in DOMAIN espera : espera[i] = espera[j] => i = j
    /\ \A i \in DOMAIN espera : identidad[espera[i]] = 0 /\ consola[espera[i]] # "conecta"
    /\ \A c \in Consolas : consola[c] = "conecta" => identidad[c] = 0

(* Identifiers are given in order, and the last one may still be without   *)
(* a thread.                                                               *)
IdentidadUnica ==
    /\ \A c \in Consolas : identidad[c] <= acumulador
    /\ \A c \in Consolas : hilo[c] # "nada" => identidad[c] \in 1 .. (acumulador - 1)
    /\ \A c \in Consolas : identidad[c] = acumulador =>
                             servidor \in {"socket", "id", "registra"} /\ c = clientSock
    /\ \A c, d \in Consolas : identidad[c] = identidad[d] /\ identidad[c] # 0 => c = d

LoopCoherente ==
    /\ servidor # "acepta" =>
         /\ clientSock \in Consolas /\ hilo[clientSock] = "nada"
         /\ identidad[clientSock] = (IF servidor = "crea" THEN acumulador - 1 ELSE acumulador)
    /\ servidor = "crea" => acumulador > 1

(* The parameters are those of the last connection that was accepted, each *)
(* since it was written.                                                   *)
ParamCoherente ==
    /\ param.socket = Nulo <=> acumulador = 1 /\ servidor \in {"acepta", "socket"}
    /\ param.socket # Nulo =>
         identidad[param.socket] = (IF servidor \in {"id", "registra"} THEN acumulador ELSE acumulador - 1)
    /\ param.id = (IF servidor = "registra" THEN acumulador ELSE acumulador - 1)

(* A thread that nobody overtook has read, or will read, what is its own.  *)
LeidoCoherente(c) ==
    /\ leido[c].socket = Nulo <=> hilo[c] \in SinHilo
    /\ c \notin pisados =>
         /\ hilo[c] \in LeyendoParametros =>
              servidor \in {"acepta", "socket"} /\ param = [socket |-> c, id |-> identidad[c]]
         /\ hilo[c] \notin SinHilo => leido[c].socket = c
         /\ c \in Atendidos => leido[c].id = identidad[c]

Parametros ==
    /\ EsperaCoherente /\ IdentidadUnica /\ LoopCoherente /\ ParamCoherente
    /\ \A c \in Consolas : LeidoCoherente(c)
    /\ NuncaAnterior

(* What the Kernel sends to a console are whole packets: K are the places  *)
(* where they begin.                                                       *)
LargoDe(codigo) == IF codigo = CONSOLE_OUTPUT THEN 4 ELSE 2

EnPaquetes(s) ==
    \E K \in SUBSET (DOMAIN s) :
        /\ s # <<>> => 1 \in K
        /\ \A k \in K : LET sig == k + LargoDe(s[k].valor)
                        IN  sig = Len(s) + 1 \/ sig \in K

(* The ends of each connection.                                            *)
ExtremosCoherentes ==
    caida = "no" => \A c \in Consolas :
        /\ red[c].extremoC = "viva"
        /\ red[c].extremoK # "viva" <=> Terminada(c)

Base ==
    /\ TipoBase
    /\ Parametros
    /\ \A c \in Consolas : EnPaquetes(red[c].alConsola)
    /\ ExtremosCoherentes

-----------------------------------------------------------------------------
(* A connection that is not disturbed. *)

(* The first packet of c, and the bytes of it after its first n fields.    *)
Programa(c) == Serializado(PaqueteInicial(c))
Resto(c, n) == Cardinality({b \in BytesDe(CamposIniciales(c)) : b[1] > n})

EsPrefijo(s, t) == Len(s) <= Len(t) /\ \A i \in 1 .. Len(s) : s[i] = t[i]

Cargando == {"cantidad", "segmentos", "lineas"}

(* How many fields the thread has taken. *)
Tomados(c) ==
    IF hilo[c] = "cantidad" THEN 0
    ELSE 1 + Len(pcb[c].segmentos) + Len(pcb[c].instrucciones)

(* The PCB holds what was taken, and restante counts what was not.         *)
PcbParcial(c) ==
    /\ hilo[c] \in {"nada", "fallo", "nace", "id", "encabezado", "cantidad"} =>
         pcb[c].segmentos = <<>> /\ pcb[c].instrucciones = <<>>
    /\ hilo[c] = "cantidad" => pcb[c].restante = Resto(c, 0)
    /\ hilo[c] = "segmentos" =>
         /\ pcb[c].cant = Len(Segmentos[c]) /\ EsPrefijo(pcb[c].segmentos, Segmentos[c])
         /\ pcb[c].instrucciones = <<>>
         /\ pcb[c].restante = Resto(c, 1 + Len(Segmentos[c]))
    /\ hilo[c] = "lineas" =>
         /\ pcb[c].segmentos = Segmentos[c] /\ EsPrefijo(pcb[c].instrucciones, Lineas[c])
         /\ pcb[c].restante = Resto(c, Tomados(c))
    /\ hilo[c] \in {"espera", "atiende", "responde"} =>
         pcb[c].segmentos = Segmentos[c] /\ pcb[c].instrucciones = Lineas[c]

Respuestas == {CONSOLE_INPUT_RESPUESTA, CONSOLE_OUTPUT_RESPUESTA}

(* The mailbox says what the thread is doing. *)
BuzonCoherente(c) ==
    /\ pipeline[c].op \in Respuestas => hilo[c] = "espera"
    /\ hilo[c] = "atiende" => pipeline[c].op \in {CONSOLE_INPUT, CONSOLE_OUTPUT, EXIT}
    /\ hilo[c] = "responde" => pipeline[c].op \in {CONSOLE_INPUT, CONSOLE_OUTPUT}

HiloFiel(c) == hilo[c] # "perdido" /\ PcbParcial(c) /\ BuzonCoherente(c)

(* The word of the mailbox is the one typed, or the one on the screen.     *)
PalabraFiel(c) ==
    /\ pipeline[c].op = CONSOLE_INPUT_RESPUESTA => pipeline[c].valor = tecleado[c]
    /\ pipeline[c].op = CONSOLE_OUTPUT_RESPUESTA => pipeline[c].valor = mostrado[c]

(* The request of the process, and the answer of its console. *)
Pedido(c) ==
    IF pipeline[c].op = CONSOLE_INPUT THEN Vacio(CONSOLE_INPUT)
    ELSE ConEntero(CONSOLE_OUTPUT, pipeline[c].valor)
Contesta(c) ==
    \/ pipeline[c].op = CONSOLE_INPUT /\ red[c].alKernel = ConEntero(CONSOLE_INPUT_RESPUESTA, tecleado[c])
    \/ /\ pipeline[c].op = CONSOLE_OUTPUT /\ red[c].alKernel = Vacio(CONSOLE_OUTPUT_RESPUESTA)
       /\ pipeline[c].valor = mostrado[c]

(* Nothing of the program was taken. *)
Previo(c) ==
    /\ red[c].alConsola = <<>> /\ red[c].extremoK \in {"viva", "fin"}
    /\ \/ consola[c] \in {"conecta", "envia"} /\ red[c].alKernel = <<>>
       \/ consola[c] = "espera" /\ red[c].alKernel = Programa(c)
       \/ consola[c] = "muerta" /\ red[c].alKernel \in {<<>>, Programa(c)}

Carga(c) ==
    /\ red[c].alConsola = <<>> /\ red[c].extremoK \in {"viva", "fin"}
    /\ consola[c] \in {"espera", "muerta"}
    /\ red[c].alKernel = Desde(Programa(c), 3 + 2 * Tomados(c))

(* The process runs, or its request was not sent yet. *)
Calla(c) ==
    /\ red[c].alKernel = <<>> /\ red[c].extremoK # "rst"
    /\ consola[c] = "muerta" \/ (consola[c] = "espera" /\ red[c].alConsola = <<>>)
    /\ red[c].extremoK # "roto" => PalabraFiel(c)

(* The request goes, is attended and comes back answered. *)
Conversa(c) ==
    \/ consola[c] = "espera" /\ red[c].alConsola = Pedido(c) /\ red[c].alKernel = <<>>
    \/ /\ red[c].alConsola = <<>> /\ red[c].alKernel = <<>>
       /\ \/ consola[c] = "teclea" /\ pipeline[c].op = CONSOLE_INPUT
          \/ /\ consola[c] = "muestra" /\ pipeline[c].op = CONSOLE_OUTPUT
             /\ pipeline[c].valor = mostrado[c]
    \/ consola[c] = "espera" /\ red[c].alConsola = <<>> /\ Contesta(c)
    \/ /\ consola[c] = "muerta" /\ red[c].extremoK \in {"fin", "rst"}
       /\ red[c].alKernel = <<>> \/ (red[c].extremoK = "fin" /\ Contesta(c))

Despide(c) ==
    /\ red[c].alKernel = <<>>
    /\ consola[c] \in {"exito", "muerta"} \/ (consola[c] = "espera" /\ red[c].alConsola = Vacio(EXIT))

Dialoga(c) ==
    /\ hilo[c] \in {"nada", "fallo", "nace", "id", "encabezado"} => Previo(c)
    /\ hilo[c] \in Cargando => Carga(c)
    /\ hilo[c] \in {"espera", "atiende"} => Calla(c)
    /\ hilo[c] = "responde" => Conversa(c)
    /\ hilo[c] = "fin" => Despide(c)

(* After the Kernel fell the console finds the end of the connection.      *)
Abandonada(c) ==
    pipeline[c].op \in Respuestas /\ red[c].extremoK # "roto" =>
        /\ PalabraFiel(c)
        /\ \/ consola[c] \in {"error", "muerta"}
           \/ consola[c] = "espera" /\ red[c].alConsola = <<>> /\ red[c].extremoC = "fin"

Conexion(c) ==
    ~Perturbada(c) =>
        /\ HiloFiel(c)
        /\ caida = "no" => Dialoga(c)
        /\ caida # "no" => Abandonada(c)

Inv ==
    /\ Base
    /\ \A c \in Consolas : Conexion(c)
    /\ CaidaConCausa

-----------------------------------------------------------------------------
(* Streams. *)

LEMMA DesdeTipo ==
  ASSUME NEW S, NEW s \in Seq(S), NEW n \in 1 .. (Len(s) + 1)
  PROVE  /\ Desde(s, n) \in Seq(S)
         /\ Len(Desde(s, n)) = Len(s) - n + 1
         /\ \A i \in 1 .. (Len(s) - n + 1) : Desde(s, n)[i] = s[n + i - 1]
<1>1. Len(s) \in Nat /\ \A i \in n .. Len(s) : s[i] \in S
  BY LenProperties, ElementOfSeq
<1>2. /\ SubSeq(s, n, Len(s)) \in Seq(S)
      /\ Len(SubSeq(s, n, Len(s))) = IF n <= Len(s) THEN Len(s) - n + 1 ELSE 0
      /\ \A i \in 1 .. (Len(s) - n + 1) : SubSeq(s, n, Len(s))[i] = s[n + i - 1]
  BY <1>1, SubSeqProperties
<1> QED
  BY <1>1, <1>2 DEF Desde

LEMMA DesdeTodo ==
  ASSUME NEW S, NEW s \in Seq(S), NEW n \in Nat \ {0}
  PROVE  Desde(s, n) \in Seq(S)
<1>1. Len(s) \in Nat
  BY LenProperties
<1>2. CASE n <= Len(s) + 1
  BY <1>1, <1>2, DesdeTipo
<1>3. CASE n > Len(s) + 1
  <2>1. SubSeq(s, n, Len(s)) = <<>>
    BY <1>1, <1>3, SubSeqEmpty
  <2> QED
    BY <2>1, EmptySeq DEF Desde
<1> QED
  BY <1>1, <1>2, <1>3

LEMMA DesdeDesde ==
  ASSUME NEW S, NEW s \in Seq(S), NEW n \in 1 .. (Len(s) + 1), NEW m \in 1 .. (Len(s) - n + 2)
  PROVE  Desde(Desde(s, n), m) = Desde(s, n + m - 1)
<1> DEFINE t == Desde(s, n)
           u == Desde(t, m)
           v == Desde(s, n + m - 1)
<1>0. Len(s) \in Nat
  BY LenProperties
<1>1. /\ t \in Seq(S) /\ Len(t) = Len(s) - n + 1
      /\ \A i \in 1 .. (Len(s) - n + 1) : t[i] = s[n + i - 1]
  BY DesdeTipo
<1> HIDE DEF t
<1>2. m \in 1 .. (Len(t) + 1)
  BY <1>0, <1>1
<1>3. /\ u \in Seq(S) /\ Len(u) = Len(t) - m + 1
      /\ \A i \in 1 .. (Len(t) - m + 1) : u[i] = t[m + i - 1]
  BY <1>1, <1>2, DesdeTipo, ZenonT(40)
<1>4. n + m - 1 \in 1 .. (Len(s) + 1)
  BY <1>0
<1>5. /\ v \in Seq(S) /\ Len(v) = Len(s) - (n + m - 1) + 1
      /\ \A i \in 1 .. (Len(s) - (n + m - 1) + 1) : v[i] = s[(n + m - 1) + i - 1]
  BY <1>4, DesdeTipo
<1> HIDE DEF u, v
<1>6. Len(u) = Len(v)
  BY <1>0, <1>1, <1>3, <1>5
<1>7. ASSUME NEW i \in 1 .. Len(u) PROVE u[i] = v[i]
  <2>1. u[i] = t[m + i - 1] /\ m + i - 1 \in 1 .. (Len(s) - n + 1)
    BY <1>0, <1>1, <1>3
  <2>2. t[m + i - 1] = s[n + (m + i - 1) - 1]
    BY <1>1, <2>1
  <2>3. v[i] = s[(n + m - 1) + i - 1]
    BY <1>5, <1>6
  <2>4. n + (m + i - 1) - 1 = (n + m - 1) + i - 1
    BY <1>0
  <2> QED
    BY <2>1, <2>2, <2>3, <2>4
<1>8. u = v
  BY <1>3, <1>5, <1>6, <1>7, SeqEqual
<1> QED
  BY <1>8 DEF u, v, t

LEMMA LargoCero ==
  ASSUME NEW S, NEW s \in Seq(S)
  PROVE  s = <<>> <=> Len(s) = 0
BY EmptySeq

-----------------------------------------------------------------------------
(* Packets. *)

LEMMA Dos ==
  ASSUME NEW S, NEW a \in S, NEW b \in S
  PROVE  /\ <<a, b>> \in Seq(S) /\ Len(<<a, b>>) = 2 /\ <<a, b>> # <<>>
         /\ Head(<<a, b>>) = a /\ <<a, b>>[1] = a /\ <<a, b>>[2] = b
OBVIOUS

LEMMA Cuatro ==
  ASSUME NEW S, NEW a \in S, NEW b \in S, NEW c \in S, NEW d \in S, NEW s, s = <<a, b, c, d>>
  PROVE  s \in Seq(S) /\ Len(s) = 4 /\ s # <<>> /\ Head(s) = a /\ s[1] = a /\ s[4] = d
OBVIOUS

LEMMA DosYDos == \A a, b, c, d : <<a, b>> \o <<c, d>> = <<a, b, c, d>>
<1>1. ASSUME NEW a, NEW b, NEW c, NEW d PROVE <<a, b>> \o <<c, d>> = <<a, b, c, d>>
  <2> DEFINE S == {a, b, c, d}
             x == <<a, b>>
             y == <<c, d>>
             z == <<a, b, c, d>>
  <2>1. x \in Seq(S) /\ y \in Seq(S) /\ z \in Seq(S) /\ Len(x) = 2 /\ Len(y) = 2 /\ Len(z) = 4
    OBVIOUS
  <2>2. /\ x \o y \in Seq(S) /\ Len(x \o y) = 4
        /\ \A i \in 1 .. 4 : (x \o y)[i] = IF i <= 2 THEN x[i] ELSE y[i - 2]
    BY <2>1, ConcatProperties
  <2>3. (x \o y)[1] = a /\ (x \o y)[2] = b /\ (x \o y)[3] = c /\ (x \o y)[4] = d
    BY <2>2
  <2>4. \A i \in 1 .. 4 : i = 1 \/ i = 2 \/ i = 3 \/ i = 4
    OBVIOUS
  <2>5. \A i \in 1 .. 4 : (x \o y)[i] = z[i]
    BY <2>3, <2>4
  <2> HIDE DEF S
  <2>6. x \o y = z
    BY <2>1, <2>2, <2>5, SeqEqual
  <2> QED
    BY <2>6
<1> QED
  BY <1>1

LEMMA EnteroTipo == \A n \in Int : Entero(n) \in Campos /\ Entero(n).valor = n /\ Entero(n).bytes = 4
BY DEF Entero, Campos

LEMMA VacioEs == \A op : Vacio(op) = <<Entero(op), Entero(0)>>
<1> TAKE op
<1>1. BytesDe(<<>>) = {}
  BY DEF BytesDe
<1>2. Cardinality(BytesDe(<<>>)) = 0
  BY <1>1, FS_EmptySet
<1>3. Len(<<>>) = 0 /\ 1 .. (2 * 0) = {}
  OBVIOUS
<1>4. Paquete(op, <<>>).stream = <<>>
  BY <1>3 DEF Paquete
<1>5. Paquete(op, <<>>).codigo = op /\ Paquete(op, <<>>).size = 0
  BY <1>2 DEF Paquete
<1>6. <<Entero(op), Entero(0)>> \o <<>> = <<Entero(op), Entero(0)>>
  OBVIOUS
<1> QED
  BY <1>4, <1>5, <1>6 DEF Vacio, Serializado

LEMMA ConEnteroEs == \A op, n : ConEntero(op, n) = <<Entero(op), Entero(8), Entero(4), Entero(n)>>
<1> TAKE op, n
<1> DEFINE campos == <<Entero(n)>>
           B == {1} \X (1 .. 8)
           stream == [i \in 1 .. 2 |-> IF i % 2 = 1 THEN Entero(campos[(i + 1) \div 2].bytes)
                                      ELSE campos[i \div 2]]
<1>1. Entero(n).bytes = 4
  BY DEF Entero
<1>2. DOMAIN campos = {1} /\ campos[1].bytes = 4 /\ Len(campos) = 1
  BY <1>1
<1>3. BytesDe(campos) = {1} \X (1 .. (4 + 4))
  BY <1>2 DEF BytesDe
<1>4. IsFiniteSet(1 .. 8) /\ Cardinality(1 .. 8) = 8
  <2>1. 1 \in Int /\ 8 \in Int /\ ~(1 > 8) /\ 8 - 1 + 1 = 8
    OBVIOUS
  <2> QED
    BY <2>1, FS_Interval
<1>5. IsFiniteSet({1}) /\ Cardinality({1}) = 1
  BY FS_Singleton
<1>6. Cardinality(BytesDe(campos)) = 8
  BY <1>3, <1>4, <1>5, FS_Product
<1>7. stream[1] = Entero(4) /\ stream[2] = Entero(n)
  BY <1>2
<1>8. stream = <<Entero(4), Entero(n)>>
  BY <1>7
<1>9. Paquete(op, campos).stream = stream
  BY <1>2 DEF Paquete
<1>10. Paquete(op, campos).codigo = op /\ Paquete(op, campos).size = 8
  BY <1>6 DEF Paquete
<1>11. <<Entero(op), Entero(8)>> \o <<Entero(4), Entero(n)>> = <<Entero(op), Entero(8), Entero(4), Entero(n)>>
  BY DosYDos
<1> HIDE DEF campos, stream
<1> QED
  BY <1>8, <1>9, <1>10, <1>11 DEF ConEntero, Serializado, campos

LEMMA CodigosDistintos ==
  /\ CONSOLE_INPUT # CONSOLE_OUTPUT /\ EXIT # CONSOLE_OUTPUT /\ EXIT # CONSOLE_INPUT
  /\ CONSOLE_INPUT_RESPUESTA \notin {CONSOLE_INPUT, CONSOLE_OUTPUT, EXIT, CONSOLE_OUTPUT_RESPUESTA, 0}
  /\ CONSOLE_OUTPUT_RESPUESTA \notin {CONSOLE_INPUT, CONSOLE_OUTPUT, EXIT, 0}
  /\ 0 \notin {CONSOLE_INPUT, CONSOLE_OUTPUT, EXIT}
  /\ Codigos \subseteq Nat
BY DEF Codigos, NUEVO_PROCESO, CONSOLE_INPUT, CONSOLE_INPUT_RESPUESTA, CONSOLE_OUTPUT,
     CONSOLE_OUTPUT_RESPUESTA, EXIT

LEMMA PaquetesTipo ==
  /\ \A op \in Int : /\ Vacio(op) \in Seq(Campos) /\ Len(Vacio(op)) = 2
                     /\ Vacio(op) # <<>> /\ Head(Vacio(op)) = Entero(op)
                     /\ Vacio(op)[1] = Entero(op)
  /\ \A op, n \in Int : /\ ConEntero(op, n) \in Seq(Campos) /\ Len(ConEntero(op, n)) = 4
                        /\ ConEntero(op, n) # <<>> /\ Head(ConEntero(op, n)) = Entero(op)
                        /\ ConEntero(op, n)[1] = Entero(op) /\ ConEntero(op, n)[4] = Entero(n)
<1>1. \A n \in Int : Entero(n) \in Campos
  BY EnteroTipo
<1>2. ASSUME NEW op \in Int
      PROVE  /\ Vacio(op) \in Seq(Campos) /\ Len(Vacio(op)) = 2
             /\ Vacio(op) # <<>> /\ Head(Vacio(op)) = Entero(op)
             /\ Vacio(op)[1] = Entero(op)
  <2>1. Entero(op) \in Campos /\ Entero(0) \in Campos
    BY <1>1
  <2> QED
    BY <2>1, VacioEs, Dos
<1>3. ASSUME NEW op \in Int, NEW n \in Int
      PROVE  /\ ConEntero(op, n) \in Seq(Campos) /\ Len(ConEntero(op, n)) = 4
             /\ ConEntero(op, n) # <<>> /\ Head(ConEntero(op, n)) = Entero(op)
             /\ ConEntero(op, n)[1] = Entero(op) /\ ConEntero(op, n)[4] = Entero(n)
  <2>1. Entero(op) \in Campos /\ Entero(8) \in Campos /\ Entero(4) \in Campos /\ Entero(n) \in Campos
    BY <1>1
  <2> QED
    BY <2>1, ConEnteroEs, Cuatro
<1> QED
  BY <1>2, <1>3

-----------------------------------------------------------------------------
(* Whole packets. *)

LEMMA EnPaquetesVacia == EnPaquetes(<<>>)
BY DEF EnPaquetes

LEMMA EnPaquetesUno ==
  ASSUME NEW s \in Seq(Campos), s # <<>>, Len(s) = LargoDe(s[1].valor)
  PROVE  EnPaquetes(s)
<1>1. 1 \in DOMAIN s
  <2>1. Len(s) \in Nat /\ Len(s) # 0 /\ DOMAIN s = 1 .. Len(s)
    BY LenProperties, LargoCero
  <2> QED
    BY <2>1
<1>2. \A k \in {1} : k + LargoDe(s[k].valor) = Len(s) + 1
  <2>1. 1 + LargoDe(s[1].valor) = Len(s) + 1
    BY DEF LargoDe
  <2> QED
    BY <2>1
<1>3. {1} \in SUBSET (DOMAIN s) /\ 1 \in {1}
  BY <1>1
<1> QED
  BY <1>2, <1>3 DEF EnPaquetes

LEMMA EnPaquetesJunta ==
  ASSUME NEW s \in Seq(Campos), NEW t \in Seq(Campos), EnPaquetes(s), EnPaquetes(t)
  PROVE  EnPaquetes(s \o t)
<1> DEFINE u == s \o t
           n == Len(s)
           m == Len(t)
<1>1. /\ n \in Nat /\ m \in Nat /\ DOMAIN s = 1 .. n /\ DOMAIN t = 1 .. m
      /\ (s = <<>> <=> n = 0) /\ (t = <<>> <=> m = 0)
  BY LenProperties, LargoCero
<1>2. /\ u \in Seq(Campos) /\ Len(u) = n + m
      /\ \A i \in 1 .. (n + m) : u[i] = IF i <= n THEN s[i] ELSE t[i - n]
  BY ConcatProperties
<1>3. DOMAIN u = 1 .. (n + m) /\ (u = <<>> <=> n + m = 0)
  BY <1>2, LenProperties, LargoCero
<1>4. PICK K \in SUBSET (1 .. n) :
        /\ s # <<>> => 1 \in K
        /\ \A k \in K : k + LargoDe(s[k].valor) = n + 1 \/ k + LargoDe(s[k].valor) \in K
  BY <1>1 DEF EnPaquetes
<1>5. PICK J \in SUBSET (1 .. m) :
        /\ t # <<>> => 1 \in J
        /\ \A k \in J : k + LargoDe(t[k].valor) = m + 1 \/ k + LargoDe(t[k].valor) \in J
  BY <1>1 DEF EnPaquetes
<1> HIDE DEF u, n, m
<1> DEFINE L == K \cup {n + k : k \in J}
<1>6. \A k \in K : k \in 1 .. (n + m) /\ u[k] = s[k]
  BY <1>1, <1>2
<1>7. \A k \in J : n + k \in 1 .. (n + m) /\ u[n + k] = t[k]
  <2> SUFFICES ASSUME NEW k \in J PROVE n + k \in 1 .. (n + m) /\ u[n + k] = t[k]
    OBVIOUS
  <2>1. k \in 1 .. m /\ n + k \in 1 .. (n + m) /\ ~(n + k <= n) /\ (n + k) - n = k
    BY <1>1
  <2> QED
    BY <1>2, <2>1
<1>8. L \in SUBSET (1 .. (n + m))
  BY <1>6, <1>7
<1>9. u # <<>> => 1 \in L
  <2>1. CASE n = 0
    <3>1. u # <<>> => 1 \in J
      BY <1>1, <1>3, <1>5, <2>1
    <3>2. n + 1 = 1
      BY <2>1
    <3> QED
      BY <3>1, <3>2
  <2>2. CASE n # 0
    BY <1>1, <1>4, <2>2
  <2> QED
    BY <2>1, <2>2
<1>10. \A l \in Nat : LargoDe(l) \in Nat
  BY DEF LargoDe
<1>11. ASSUME NEW k \in L
       PROVE  k + LargoDe(u[k].valor) = (n + m) + 1 \/ k + LargoDe(u[k].valor) \in L
  <2>1. CASE k \in K
    <3> DEFINE sig == k + LargoDe(u[k].valor)
    <3>1. sig = n + 1 \/ sig \in K
      BY <1>4, <1>6, <2>1
    <3>2. CASE sig = n + 1
      <4>1. CASE m = 0
        BY <1>1, <3>2, <4>1
      <4>2. CASE m # 0
        BY <1>1, <1>5, <3>2, <4>2
      <4> QED
        BY <4>1, <4>2
    <3> QED
      BY <3>1, <3>2
  <2>2. ASSUME NEW j \in J, k = n + j
        PROVE  k + LargoDe(u[k].valor) = (n + m) + 1 \/ k + LargoDe(u[k].valor) \in L
    <3> DEFINE a == LargoDe(t[j].valor)
    <3>1. u[k] = t[j] /\ j \in Nat /\ a \in Nat
      BY <1>7, <2>2 DEF LargoDe
    <3>2. j + a = m + 1 \/ j + a \in J
      BY <1>5
    <3> HIDE DEF a
    <3>3. k + a = n + (j + a)
      BY <1>1, <2>2, <3>1
    <3>4. k + a = (n + m) + 1 \/ k + a \in L
      <4>1. CASE j + a = m + 1
        BY <1>1, <3>3, <4>1
      <4>2. CASE j + a \in J
        BY <3>3, <4>2
      <4> QED
        BY <3>2, <4>1, <4>2
    <3> QED
      BY <3>1, <3>4 DEF a
  <2> QED
    BY <2>1, <2>2
<1> HIDE DEF L
<1> QED
  BY <1>2, <1>3, <1>8, <1>9, <1>11 DEF EnPaquetes, u

LEMMA EnPaquetesSigue ==
  ASSUME NEW s \in Seq(Campos), EnPaquetes(s), s # <<>>, NEW n, n = LargoDe(Head(s).valor)
  PROVE  /\ n \in Nat \ {0} /\ n <= Len(s) /\ Desde(s, n + 1) \in Seq(Campos)
         /\ EnPaquetes(Desde(s, n + 1))
<1> DEFINE N == Len(s)
           t == Desde(s, n + 1)
<1>1. N \in Nat \ {0} /\ DOMAIN s = 1 .. N /\ Head(s) = s[1] /\ n \in Nat \ {0}
  BY LenProperties, LargoCero DEF LargoDe
<1>2. PICK K \in SUBSET (1 .. N) :
        /\ 1 \in K
        /\ \A k \in K : k + LargoDe(s[k].valor) = N + 1 \/ k + LargoDe(s[k].valor) \in K
  BY <1>1 DEF EnPaquetes
<1>3. n <= N
  BY <1>1, <1>2
<1>4. /\ t \in Seq(Campos) /\ Len(t) = N - n
      /\ \A i \in 1 .. (N - n) : t[i] = s[n + i]
  <2>1. n + 1 \in 1 .. (N + 1)
    BY <1>1, <1>3
  <2>2. /\ t \in Seq(Campos) /\ Len(t) = N - (n + 1) + 1
        /\ \A i \in 1 .. (N - (n + 1) + 1) : t[i] = s[(n + 1) + i - 1]
    BY <2>1, DesdeTipo
  <2>3. N - (n + 1) + 1 = N - n /\ \A i \in 1 .. (N - n) : (n + 1) + i - 1 = n + i
    BY <1>1
  <2> QED
    BY <2>2, <2>3
<1>5. DOMAIN t = 1 .. (N - n) /\ (t = <<>> <=> N - n = 0)
  BY <1>4, LenProperties, LargoCero
<1> HIDE DEF t, N
<1>6. t # <<>> => 1 \in 1 .. (N - n) /\ n + 1 \in K
  <2>1. 1 + n = N + 1 \/ 1 + n \in K
    BY <1>1, <1>2
  <2> QED
    BY <1>1, <1>3, <1>5, <2>1
<1>7. ASSUME NEW k \in 1 .. (N - n), n + k \in K, NEW a, a = LargoDe(t[k].valor)
      PROVE  k + a = (N - n) + 1 \/ (k + a \in 1 .. (N - n) /\ n + (k + a) \in K)
  <2>1. a \in Nat \ {0} /\ t[k] = s[n + k]
    BY <1>4, <1>7 DEF LargoDe
  <2>2. (n + k) + a = N + 1 \/ (n + k) + a \in K
    BY <1>2, <1>7, <2>1
  <2>3. (n + k) + a = N + 1 \/ (n + (k + a) \in K /\ n + (k + a) \in 1 .. N)
    BY <1>1, <1>2, <2>1, <2>2
  <2>4. n \in Nat /\ N \in Nat /\ k \in Nat /\ a \in Nat \ {0}
    BY <1>1, <2>1
  <2>5. /\ (n + k) + a = N + 1 => k + a = (N - n) + 1
        /\ n + (k + a) \in 1 .. N => k + a <= N - n
    BY <2>4, SMTT(30)
  <2>6. k + a \in Nat \ {0}
    BY <2>4
  <2> QED
    BY <1>1, <2>3, <2>4, <2>5, <2>6
<1> DEFINE J == {k \in 1 .. (N - n) : n + k \in K}
<1>8. J \in SUBSET (DOMAIN t)
  BY <1>5
<1> HIDE DEF J
<1>9. EnPaquetes(t)
  <2>1. t # <<>> => 1 \in J
    BY <1>6 DEF J
  <2>2. \A k \in J : \/ k + LargoDe(t[k].valor) = (N - n) + 1
                     \/ k + LargoDe(t[k].valor) \in J
    BY <1>7 DEF J
  <2> QED
    BY <1>4, <1>8, <2>1, <2>2 DEF EnPaquetes
<1> QED
  BY <1>1, <1>3, <1>4, <1>9 DEF N, t

LEMMA PaquetesEnteros ==
  /\ EnPaquetes(Vacio(CONSOLE_INPUT)) /\ EnPaquetes(Vacio(EXIT))
  /\ \A n \in Int : EnPaquetes(ConEntero(CONSOLE_OUTPUT, n))
<1>1. CONSOLE_INPUT \in Int /\ EXIT \in Int /\ CONSOLE_OUTPUT \in Int
  BY DEF CONSOLE_INPUT, EXIT, CONSOLE_OUTPUT
<1>2. LargoDe(CONSOLE_INPUT) = 2 /\ LargoDe(EXIT) = 2 /\ LargoDe(CONSOLE_OUTPUT) = 4
  BY CodigosDistintos DEF LargoDe
<1>3. EnPaquetes(Vacio(CONSOLE_INPUT)) /\ EnPaquetes(Vacio(EXIT))
  BY <1>1, <1>2, PaquetesTipo, EnteroTipo, EnPaquetesUno
<1>4. ASSUME NEW n \in Int PROVE EnPaquetes(ConEntero(CONSOLE_OUTPUT, n))
  BY <1>1, <1>2, PaquetesTipo, EnteroTipo, EnPaquetesUno
<1> QED
  BY <1>3, <1>4

-----------------------------------------------------------------------------
(* The accept loop and the parameters. *)

LEMMA ParametrosInicial == Init => Parametros
<1> SUFFICES ASSUME Init PROVE Parametros
  OBVIOUS
<1> USE DEF Init, InitServidor
<1>1. EsperaCoherente
  BY DEF EsperaCoherente
<1>2. IdentidadUnica /\ LoopCoherente /\ ParamCoherente
  BY SupuestosServidor DEF SupuestosServidor, IdentidadUnica, LoopCoherente, ParamCoherente
<1>3. ASSUME NEW c \in Consolas PROVE LeidoCoherente(c)
  BY DEF LeidoCoherente, SinHilo, LeyendoParametros, Atendidos
<1>4. NuncaAnterior
  BY DEF NuncaAnterior, Atendidos
<1> QED
  BY <1>1, <1>2, <1>3, <1>4 DEF Parametros

(* What is done once a thread knows whom it serves leaves all that alone.  *)
LEMMA ParametrosIgual ==
  ASSUME TipoBase, Parametros, UNCHANGED <<espera, servidorVars, leido>>,
         \A c \in Consolas : hilo'[c] = hilo[c] \/ (c \in Atendidos /\ c \in Atendidos'),
         \A c \in Consolas : consola'[c] = "conecta" => consola[c] = "conecta"
  PROVE  Parametros'
<1>1. UNCHANGED <<servidor, clientSock, param, acumulador, identidad, pisados, espera, leido>>
  BY DEF servidorVars
<1>2. /\ \A c \in Consolas : hilo'[c] \in SinHilo <=> hilo[c] \in SinHilo
      /\ \A c \in Consolas : hilo'[c] \in LeyendoParametros <=> hilo[c] \in LeyendoParametros
      /\ \A c \in Consolas : hilo'[c] = "nada" <=> hilo[c] = "nada"
      /\ Atendidos' = Atendidos
  BY DEF Atendidos, SinHilo, LeyendoParametros
<1>3. \A i \in DOMAIN espera : espera[i] \in Consolas
  BY LenProperties, ElementOfSeq DEF TipoBase, TipoServidor
<1>4. EsperaCoherente'
  BY <1>1, <1>3 DEF Parametros, EsperaCoherente
<1>5. IdentidadUnica' /\ ParamCoherente'
  BY <1>1, <1>2 DEF Parametros, IdentidadUnica, ParamCoherente
<1>6. LoopCoherente'
  BY <1>1, <1>2 DEF Parametros, LoopCoherente
<1>7. ASSUME NEW c \in Consolas PROVE LeidoCoherente(c)'
  BY <1>1, <1>2 DEF Parametros, LeidoCoherente
<1>8. NuncaAnterior'
  BY <1>1, <1>2 DEF Parametros, NuncaAnterior
<1> QED
  BY <1>4, <1>5, <1>6, <1>7, <1>8 DEF Parametros

LEMMA AceptaPaso ==
  ASSUME TipoBase, Parametros, Acepta, UNCHANGED consola
  PROVE  TipoServidor' /\ Parametros'
<1> DEFINE c0 == Head(espera)
<1>0. UNCHANGED <<param, acumulador, estados, pisados, hilo, leido, consola>>
  BY DEF Acepta
<1>1. /\ servidor = "acepta" /\ servidor' = "socket" /\ espera # <<>>
      /\ clientSock' = c0 /\ espera' = Tail(espera)
      /\ identidad' = [identidad EXCEPT ![c0] = acumulador]
  BY DEF Acepta
<1>2. espera \in Seq(Consolas) /\ identidad \in [Consolas -> Nat] /\ acumulador \in Nat \ {0}
  BY DEF TipoBase, TipoServidor
<1>3. /\ c0 \in Consolas /\ c0 = espera[1] /\ Len(espera) \in Nat \ {0}
      /\ Tail(espera) \in Seq(Consolas) /\ Len(Tail(espera)) = Len(espera) - 1
      /\ \A i \in 1 .. (Len(espera) - 1) : Tail(espera)[i] = espera[i + 1]
      /\ DOMAIN espera = 1 .. Len(espera) /\ DOMAIN Tail(espera) = 1 .. (Len(espera) - 1)
  BY <1>1, <1>2, HeadTailProperties, LenProperties, LargoCero
<1>4. identidad[c0] = 0 /\ consola[c0] # "conecta"
  BY <1>3 DEF Parametros, EsperaCoherente
<1>5. hilo[c0] = "nada"
  BY <1>2, <1>3, <1>4 DEF Parametros, IdentidadUnica
<1> HIDE DEF c0
<1>6. \A d \in Consolas : identidad'[d] = IF d = c0 THEN acumulador ELSE identidad[d]
  BY <1>1, <1>2, <1>3
<1>7. \A d \in Consolas : identidad[d] # acumulador
  BY <1>1 DEF Parametros, IdentidadUnica
<1>8. EsperaCoherente'
  <2>1. \A i, j \in DOMAIN espera : espera[i] = espera[j] => i = j
    BY DEF Parametros, EsperaCoherente
  <2>2. \A i \in DOMAIN espera' : i + 1 \in DOMAIN espera /\ espera'[i] = espera[i + 1] /\ i \in Nat
    BY <1>1, <1>3
  <2>3. \A i, j \in DOMAIN espera' : espera'[i] = espera'[j] => i = j
    <3> SUFFICES ASSUME NEW i \in DOMAIN espera', NEW j \in DOMAIN espera', espera'[i] = espera'[j]
                 PROVE  i = j
      OBVIOUS
    <3>1. i + 1 = j + 1
      BY <2>1, <2>2
    <3> QED
      BY <2>2, <3>1
  <2>4. \A i \in DOMAIN espera' : espera'[i] \in Consolas /\ espera'[i] # c0
    <3> TAKE i \in DOMAIN espera'
    <3>1. i + 1 # 1 /\ 1 \in DOMAIN espera
      BY <1>3, <2>2
    <3>2. espera[i + 1] # espera[1]
      BY <2>1, <2>2, <3>1
    <3>3. espera[i + 1] \in Consolas
      BY <1>2, <1>3, <2>2, ElementOfSeq
    <3> QED
      BY <1>3, <2>2, <3>2, <3>3
  <2>5. \A i \in DOMAIN espera' : identidad'[espera'[i]] = 0 /\ consola'[espera'[i]] # "conecta"
    BY <1>0, <1>6, <2>2, <2>4 DEF Parametros, EsperaCoherente
  <2>6. \A d \in Consolas : consola'[d] = "conecta" => identidad'[d] = 0
    BY <1>0, <1>4, <1>6 DEF Parametros, EsperaCoherente
  <2> QED
    BY <2>3, <2>5, <2>6 DEF EsperaCoherente
<1>9. IdentidadUnica'
  BY <1>0, <1>1, <1>2, <1>5, <1>6, <1>7 DEF Parametros, IdentidadUnica
<1>10. LoopCoherente'
  BY <1>0, <1>1, <1>2, <1>3, <1>5, <1>6 DEF Parametros, LoopCoherente
<1>11. ParamCoherente'
  <2>1. param.socket # Nulo => param.socket \in Consolas /\ param.socket # c0
    <3> SUFFICES ASSUME param.socket # Nulo PROVE param.socket \in Consolas /\ param.socket # c0
      OBVIOUS
    <3>1. param.socket \in Consolas
      BY DEF TipoBase, TipoServidor, Aux
    <3>2. identidad[param.socket] = acumulador - 1 /\ acumulador # 1
      BY <1>1 DEF Parametros, ParamCoherente
    <3> QED
      BY <1>2, <1>4, <3>1, <3>2
  <2> QED
    BY <1>0, <1>1, <1>6, <2>1 DEF Parametros, ParamCoherente
<1>12. ASSUME NEW c \in Consolas PROVE LeidoCoherente(c)'
  <2>1. Atendidos' = Atendidos
    BY <1>0 DEF Atendidos
  <2>2. c # c0 => identidad'[c] = identidad[c]
    BY <1>6
  <2>3. c = c0 => hilo[c] \in SinHilo /\ c \notin Atendidos /\ hilo[c] \notin LeyendoParametros
    BY <1>5 DEF SinHilo, Atendidos, LeyendoParametros
  <2> QED
    BY <1>0, <1>1, <2>1, <2>2, <2>3 DEF Parametros, LeidoCoherente
<1>13. NuncaAnterior'
  <2> SUFFICES ASSUME NEW c \in Consolas
               PROVE  /\ leido[c].socket # Nulo => identidad'[leido[c].socket] >= identidad'[c]
                      /\ c \in Atendidos => leido[c].id >= identidad'[c]
    BY <1>0 DEF NuncaAnterior, Atendidos
  <2>1. leido[c].socket # Nulo => leido[c].socket \in Consolas
    BY DEF TipoBase, TipoServidor, Aux
  <2>2. c = c0 => c \notin Atendidos /\ leido[c].socket = Nulo
    BY <1>3, <1>5 DEF Atendidos, Parametros, LeidoCoherente, SinHilo
  <2>3. \A d \in Consolas : identidad[d] <= acumulador /\ identidad[d] \in Nat
    BY <1>2 DEF Parametros, IdentidadUnica
  <2> QED
    BY <1>2, <1>6, <2>1, <2>2, <2>3 DEF Parametros, NuncaAnterior
<1>14. TipoServidor'
  <2>1. espera' \in Seq(Consolas) /\ clientSock' \in Consolas
    BY <1>1, <1>3 DEF c0
  <2>2. identidad' \in [Consolas -> Nat]
    BY <1>1, <1>2, <1>3
  <2> QED
    BY <1>0, <1>1, <2>1, <2>2 DEF TipoBase, TipoServidor
<1> QED
  BY <1>8, <1>9, <1>10, <1>11, <1>12, <1>13, <1>14 DEF Parametros

(* A step of the loop or of the reading of the parameters that leaves the  *)
(* identifiers where they are.                                             *)
LEMMA EsperaIgual ==
  ASSUME EsperaCoherente, UNCHANGED <<espera, identidad, consola>>
  PROVE  EsperaCoherente'
BY DEF EsperaCoherente

LEMMA EscribeSocketPaso ==
  ASSUME TipoBase, Parametros, EscribeSocket, UNCHANGED consola
  PROVE  TipoServidor' /\ Parametros'
<1>1. /\ servidor = "socket" /\ servidor' = "id"
      /\ param' = [param EXCEPT !.socket = clientSock]
      /\ pisados' = pisados \cup {c \in Consolas : hilo[c] \in LeyendoParametros}
      /\ UNCHANGED <<espera, clientSock, acumulador, estados, identidad, hilo, leido, consola>>
  BY DEF EscribeSocket, Pisa
<1>2. clientSock \in Consolas /\ identidad[clientSock] = acumulador /\ clientSock # Nulo
  BY <1>1, SupuestosServidor DEF Parametros, LoopCoherente, SupuestosServidor
<1>3. param' = [socket |-> clientSock, id |-> param.id] /\ param.id \in Nat
  BY <1>1 DEF TipoBase, TipoServidor, Aux
<1>4. EsperaCoherente'
  BY <1>1, EsperaIgual DEF Parametros
<1>5. IdentidadUnica' /\ LoopCoherente'
  BY <1>1 DEF Parametros, IdentidadUnica, LoopCoherente
<1>6. ParamCoherente'
  BY <1>1, <1>2, <1>3 DEF Parametros, ParamCoherente
<1>7. Atendidos' = Atendidos
  BY <1>1 DEF Atendidos
<1>8. ASSUME NEW c \in Consolas PROVE LeidoCoherente(c)'
  BY <1>1, <1>7 DEF Parametros, LeidoCoherente
<1>9. NuncaAnterior'
  BY <1>1, <1>7 DEF Parametros, NuncaAnterior
<1>10. TipoServidor'
  BY <1>1, <1>2, <1>3 DEF TipoBase, TipoServidor, Aux
<1> QED
  BY <1>4, <1>5, <1>6, <1>8, <1>9, <1>10 DEF Parametros

LEMMA EscribeIdPaso ==
  ASSUME TipoBase, Parametros, EscribeId, UNCHANGED consola
  PROVE  TipoServidor' /\ Parametros'
<1>1. /\ servidor = "id" /\ servidor' = "registra"
      /\ param' = [param EXCEPT !.id = acumulador]
      /\ pisados' = pisados \cup {c \in Consolas : hilo[c] \in LeyendoParametros}
      /\ UNCHANGED <<espera, clientSock, acumulador, estados, identidad, hilo, leido, consola>>
  BY DEF EscribeId, Pisa
<1>2. param' = [socket |-> param.socket, id |-> acumulador] /\ acumulador \in Nat \ {0}
  BY <1>1 DEF TipoBase, TipoServidor, Aux
<1>3. EsperaCoherente'
  BY <1>1, EsperaIgual DEF Parametros
<1>4. IdentidadUnica' /\ LoopCoherente'
  BY <1>1 DEF Parametros, IdentidadUnica, LoopCoherente
<1>5. ParamCoherente'
  BY <1>1, <1>2 DEF Parametros, ParamCoherente
<1>6. Atendidos' = Atendidos
  BY <1>1 DEF Atendidos
<1>7. ASSUME NEW c \in Consolas PROVE LeidoCoherente(c)'
  BY <1>1, <1>6 DEF Parametros, LeidoCoherente
<1>8. NuncaAnterior'
  BY <1>1, <1>6 DEF Parametros, NuncaAnterior
<1>9. TipoServidor'
  BY <1>1, <1>2 DEF TipoBase, TipoServidor, Aux
<1> QED
  BY <1>3, <1>4, <1>5, <1>7, <1>8, <1>9 DEF Parametros

LEMMA RegistraPaso ==
  ASSUME TipoBase, Parametros, Registra, UNCHANGED consola
  PROVE  TipoServidor' /\ Parametros'
<1>1. /\ servidor = "registra" /\ servidor' = "crea"
      /\ estados' = [i \in 0..acumulador |-> IF i = acumulador THEN 1 ELSE estados[i]]
      /\ acumulador' = acumulador + 1
      /\ UNCHANGED <<espera, clientSock, param, identidad, pisados, hilo, leido, consola>>
  BY DEF Registra
<1>2. /\ acumulador \in Nat \ {0} /\ identidad \in [Consolas -> Nat]
      /\ estados \in [0..(acumulador - 1) -> {0, 1}]
  BY DEF TipoBase, TipoServidor
<1>3. acumulador' \in Nat \ {0} /\ acumulador' - 1 = acumulador /\ acumulador' > 1
  BY <1>1, <1>2
<1>4. EsperaCoherente'
  BY <1>1, EsperaIgual DEF Parametros
<1>5. IdentidadUnica'
  <2>1. \A c \in Consolas : identidad[c] <= acumulador /\ identidad[c] # acumulador'
    BY <1>1, <1>2 DEF Parametros, IdentidadUnica
  <2>2. ASSUME NEW c \in Consolas, hilo[c] # "nada" PROVE identidad[c] \in 1 .. acumulador
    BY <1>2, <2>2 DEF Parametros, IdentidadUnica
  <2>3. \A c, d \in Consolas : identidad[c] = identidad[d] /\ identidad[c] # 0 => c = d
    BY DEF Parametros, IdentidadUnica
  <2>4. \A c \in Consolas : identidad[c] <= acumulador'
    BY <1>1, <1>2, <2>1
  <2> QED
    BY <1>1, <1>3, <2>1, <2>2, <2>3, <2>4 DEF IdentidadUnica
<1>6. LoopCoherente'
  BY <1>1, <1>3 DEF Parametros, LoopCoherente
<1>7. ParamCoherente'
  BY <1>1, <1>3 DEF Parametros, ParamCoherente
<1>8. Atendidos' = Atendidos
  BY <1>1 DEF Atendidos
<1>9. ASSUME NEW c \in Consolas PROVE LeidoCoherente(c)'
  BY <1>1, <1>8 DEF Parametros, LeidoCoherente
<1>10. NuncaAnterior'
  BY <1>1, <1>8 DEF Parametros, NuncaAnterior
<1>11. TipoServidor'
  <2>1. estados' \in [0..(acumulador' - 1) -> {0, 1}]
    <3>1. ASSUME NEW i \in 0..acumulador, i # acumulador PROVE i \in 0..(acumulador - 1)
      BY <1>2, <3>1
    <3>2. \A i \in 0..acumulador : (IF i = acumulador THEN 1 ELSE estados[i]) \in {0, 1}
      BY <1>2, <3>1
    <3> QED
      BY <1>1, <1>3, <3>2
  <2> QED
    BY <1>1, <1>3, <2>1 DEF TipoBase, TipoServidor
<1> QED
  BY <1>4, <1>5, <1>6, <1>7, <1>9, <1>10, <1>11 DEF Parametros

(* The thread is created, or could not be. *)
LEMMA CreaPaso ==
  ASSUME TipoBase, Parametros, CreaHilo \/ CreaHiloFalla, UNCHANGED consola
  PROVE  TipoServidor' /\ Parametros'
<1>1. PICK paso \in {"nace", "fallo"} : hilo' = [hilo EXCEPT ![clientSock] = paso]
  BY DEF CreaHilo, CreaHiloFalla
<1>2. /\ servidor = "crea" /\ servidor' = "acepta"
      /\ UNCHANGED <<espera, clientSock, param, acumulador, estados, identidad, pisados, leido, consola>>
  BY DEF CreaHilo, CreaHiloFalla
<1>3. /\ clientSock \in Consolas /\ hilo[clientSock] = "nada"
      /\ identidad[clientSock] = acumulador - 1 /\ acumulador > 1 /\ acumulador \in Nat
  BY <1>2 DEF Parametros, LoopCoherente, TipoBase, TipoServidor
<1>4. DOMAIN hilo = Consolas
  BY DEF TipoBase
<1>5. \A c \in Consolas : hilo'[c] = IF c = clientSock THEN paso ELSE hilo[c]
  BY <1>1, <1>3, <1>4
<1>6. Atendidos' = Atendidos /\ clientSock \notin Atendidos
  BY <1>3, <1>5 DEF Atendidos
<1>7. EsperaCoherente'
  BY <1>2, EsperaIgual DEF Parametros
<1>8. IdentidadUnica'
  <2>1. \A c \in Consolas : hilo'[c] # "nada" => identidad[c] \in 1 .. (acumulador - 1)
    <3>1. identidad[clientSock] \in 1 .. (acumulador - 1)
      BY <1>3
    <3> QED
      BY <1>5, <3>1 DEF Parametros, IdentidadUnica
  <2>2. \A c \in Consolas : identidad[c] # acumulador
    BY <1>2 DEF Parametros, IdentidadUnica
  <2> QED
    BY <1>2, <2>1, <2>2 DEF Parametros, IdentidadUnica
<1>9. LoopCoherente' /\ ParamCoherente'
  BY <1>2 DEF Parametros, LoopCoherente, ParamCoherente
<1>10. param = [socket |-> clientSock, id |-> identidad[clientSock]]
  <2>1. param.socket # Nulo /\ param.id = acumulador - 1
    BY <1>2, <1>3 DEF Parametros, ParamCoherente
  <2>2. identidad[param.socket] = acumulador - 1
    BY <1>2, <2>1 DEF Parametros, ParamCoherente
  <2>3. param.socket \in Consolas /\ param = [socket |-> param.socket, id |-> param.id]
    BY <2>1 DEF TipoBase, TipoServidor, Aux
  <2>4. param.socket = clientSock
    BY <1>3, <2>2, <2>3 DEF Parametros, IdentidadUnica
  <2> QED
    BY <1>3, <2>1, <2>3, <2>4
<1>11. ASSUME NEW c \in Consolas PROVE LeidoCoherente(c)'
  <2>1. CASE c = clientSock
    <3>1. hilo'[c] = paso /\ paso \in SinHilo /\ hilo[c] \in SinHilo /\ c \notin Atendidos'
      BY <1>3, <1>5, <1>6, <2>1 DEF SinHilo
    <3> QED
      BY <1>2, <1>10, <2>1, <3>1 DEF Parametros, LeidoCoherente
  <2>2. CASE c # clientSock
    BY <1>2, <1>5, <1>6, <2>2 DEF Parametros, LeidoCoherente
  <2> QED
    BY <2>1, <2>2
<1>12. NuncaAnterior'
  BY <1>2, <1>6 DEF Parametros, NuncaAnterior
<1>13. TipoServidor'
  BY <1>2 DEF TipoBase, TipoServidor
<1> QED
  BY <1>7, <1>8, <1>9, <1>11, <1>12, <1>13 DEF Parametros

LEMMA LeePaso ==
  ASSUME TipoBase, Parametros, NEW h \in Consolas, LeeParametros(h), UNCHANGED consola
  PROVE  TipoServidor' /\ Parametros'
<1> DEFINE nuevo == IF hilo[h] = "nace" THEN [socket |-> param.socket, id |-> leido[h].id]
                    ELSE [socket |-> leido[h].socket, id |-> param.id]
           paso == IF hilo[h] = "nace" THEN "id" ELSE "encabezado"
<1>0. /\ leido \in [Consolas -> Aux] /\ param \in Aux /\ DOMAIN hilo = Consolas
      /\ identidad \in [Consolas -> Nat] /\ acumulador \in Nat \ {0}
  BY DEF TipoBase, TipoServidor
<1>1. /\ hilo[h] \in LeyendoParametros
      /\ UNCHANGED <<espera, servidor, clientSock, param, acumulador, estados, identidad, pisados, consola>>
      /\ hilo' = [hilo EXCEPT ![h] = paso]
  BY DEF LeeParametros, LeeSocket, LeeId, servidorVars, LeyendoParametros
<1>2. leido' = [leido EXCEPT ![h] = nuevo]
  <2>1. CASE LeeSocket(h)
    <3>1. hilo[h] = "nace" /\ leido' = [leido EXCEPT ![h].socket = param.socket]
      BY <2>1 DEF LeeSocket
    <3>2. [leido[h] EXCEPT !.socket = param.socket] = [socket |-> param.socket, id |-> leido[h].id]
      BY <1>0 DEF Aux
    <3> QED
      BY <3>1, <3>2
  <2>2. CASE LeeId(h)
    <3>1. hilo[h] = "id" /\ leido' = [leido EXCEPT ![h].id = param.id]
      BY <2>2 DEF LeeId
    <3>2. [leido[h] EXCEPT !.id = param.id] = [socket |-> leido[h].socket, id |-> param.id]
      BY <1>0 DEF Aux
    <3> QED
      BY <3>1, <3>2
  <2> QED
    BY <2>1, <2>2 DEF LeeParametros
<1>3. nuevo \in Aux
  BY <1>0 DEF Aux
<1>4. hilo[h] \in {"nace", "id"} /\ hilo[h] # "nada" /\ identidad[h] \in 1 .. (acumulador - 1)
  BY <1>1 DEF LeyendoParametros, Parametros, IdentidadUnica
<1>5. /\ param.socket \in Consolas /\ param.socket # Nulo /\ identidad[param.socket] >= identidad[h]
      /\ param.id >= identidad[h]
  <2>1. acumulador # 1
    BY <1>0, <1>4
  <2>2. param.socket # Nulo
    BY <2>1 DEF Parametros, ParamCoherente
  <2>3. param.socket \in Consolas
    BY <1>0, <2>2 DEF Aux
  <2>4. identidad[param.socket] >= acumulador - 1 /\ param.id >= acumulador - 1
    BY <1>0, <2>2 DEF Parametros, ParamCoherente
  <2>5. /\ identidad[param.socket] \in Nat /\ identidad[h] \in Nat /\ param.id \in Nat
        /\ acumulador - 1 >= identidad[h]
    BY <1>0, <1>4, <2>3 DEF Aux
  <2> QED
    BY <1>0, <2>2, <2>3, <2>4, <2>5
<1>6. /\ \A c \in Consolas : hilo'[c] = IF c = h THEN paso ELSE hilo[c]
      /\ \A c \in Consolas : leido'[c] = IF c = h THEN nuevo ELSE leido[c]
  BY <1>0, <1>1, <1>2
<1>7. EsperaCoherente'
  BY <1>1, EsperaIgual DEF Parametros
<1>8. IdentidadUnica' /\ LoopCoherente' /\ ParamCoherente'
  <2>1. \A c \in Consolas : hilo'[c] = "nada" <=> hilo[c] = "nada"
    BY <1>4, <1>6
  <2>2. IdentidadUnica'
    BY <1>1, <2>1 DEF Parametros, IdentidadUnica
  <2>3. LoopCoherente'
    BY <1>1, <2>1 DEF Parametros, LoopCoherente
  <2>4. ParamCoherente'
    BY <1>1 DEF Parametros, ParamCoherente
  <2> QED
    BY <2>2, <2>3, <2>4
<1>9. \A c \in Consolas : c # h => (c \in Atendidos' <=> c \in Atendidos)
  BY <1>6 DEF Atendidos
<1>10. /\ hilo[h] = "nace" => hilo'[h] = "id" /\ h \notin Atendidos'
       /\ hilo[h] = "id" => hilo'[h] = "encabezado" /\ h \in Atendidos'
  BY <1>4, <1>6 DEF Atendidos
<1>11. ASSUME NEW c \in Consolas PROVE LeidoCoherente(c)'
  <2>1. CASE c # h
    BY <1>1, <1>6, <1>9, <2>1 DEF Parametros, LeidoCoherente
  <2>2. CASE c = h /\ hilo[h] = "nace"
    <3>1. leido'[h].socket = param.socket
      BY <1>6, <2>2
    <3>2. h \notin pisados =>
            servidor \in {"acepta", "socket"} /\ param = [socket |-> h, id |-> identidad[h]]
      BY <1>1 DEF Parametros, LeidoCoherente
    <3> QED
      BY <1>1, <1>5, <1>10, <2>2, <3>1, <3>2 DEF LeidoCoherente, SinHilo, LeyendoParametros
  <2>3. CASE c = h /\ hilo[h] = "id"
    <3>1. leido'[h].socket = leido[h].socket /\ leido'[h].id = param.id
      BY <1>6, <2>3
    <3>2. h \notin pisados => param.id = identidad[h] /\ leido[h].socket = h
      <4>1. h \notin pisados => param = [socket |-> h, id |-> identidad[h]]
        BY <1>1 DEF Parametros, LeidoCoherente
      <4>2. h \notin pisados => leido[h].socket = h
        BY <2>3 DEF Parametros, LeidoCoherente, SinHilo
      <4> QED
        BY <4>1, <4>2
    <3>3. leido[h].socket # Nulo
      BY <2>3 DEF Parametros, LeidoCoherente, SinHilo
    <3> QED
      BY <1>1, <1>10, <2>3, <3>1, <3>2, <3>3 DEF LeidoCoherente, SinHilo, LeyendoParametros
  <2> QED
    BY <1>4, <2>1, <2>2, <2>3
<1>12. NuncaAnterior'
  <2> SUFFICES ASSUME NEW c \in Consolas
               PROVE  /\ leido'[c].socket # Nulo => identidad[leido'[c].socket] >= identidad[c]
                      /\ c \in Atendidos' => leido'[c].id >= identidad[c]
    BY <1>1 DEF NuncaAnterior
  <2>1. CASE c # h
    BY <1>6, <1>9, <2>1 DEF Parametros, NuncaAnterior
  <2>2. CASE c = h /\ hilo[h] = "nace"
    BY <1>5, <1>6, <1>10, <2>2
  <2>3. CASE c = h /\ hilo[h] = "id"
    <3>1. leido'[h].socket = leido[h].socket /\ leido'[h].id = param.id
      BY <1>6, <2>3
    <3> QED
      BY <1>5, <2>3, <3>1 DEF Parametros, NuncaAnterior
  <2> QED
    BY <1>4, <2>1, <2>2, <2>3
<1>13. TipoServidor'
  BY <1>0, <1>1, <1>2, <1>3 DEF TipoBase, TipoServidor
<1> QED
  BY <1>7, <1>8, <1>11, <1>12, <1>13 DEF Parametros

(* Who serves whom. *)
LEMMA SuyoDeParametros ==
  ASSUME TipoBase, Parametros
  PROVE  CadaUnoLoSuyo
<1>1. ASSUME NEW c \in Atendidos \ pisados
      PROVE  leido[c].socket = c /\ leido[c].id = identidad[c] /\ identidad[c] # 0 /\ c \in Consolas
  BY <1>1 DEF Parametros, LeidoCoherente, IdentidadUnica, Atendidos, SinHilo, TipoBase, TipoServidor
<1>2. ASSUME NEW c \in Atendidos \ pisados, NEW d \in Atendidos \ pisados, leido[c].id = leido[d].id
      PROVE  c = d
  BY <1>1, <1>2 DEF Parametros, IdentidadUnica
<1> QED
  BY <1>1, <1>2 DEF CadaUnoLoSuyo, Parametros

-----------------------------------------------------------------------------
(* The two directions of a connection. *)

Canal(k, a, ek, ec) == [alKernel |-> k, alConsola |-> a, extremoK |-> ek, extremoC |-> ec]

Canales == [alKernel : Seq(Campos), alConsola : Seq(Campos), extremoK : Extremos, extremoC : Extremos]

LEMMA CanalDe ==
  ASSUME TipoBase, NEW c \in Consolas
  PROVE  /\ red \in [Consolas -> Canales] /\ red[c] \in Canales
         /\ red[c].alKernel \in Seq(Campos) /\ red[c].alConsola \in Seq(Campos)
         /\ red[c].extremoK \in Extremos /\ red[c].extremoC \in Extremos
         /\ red[c] = Canal(red[c].alKernel, red[c].alConsola, red[c].extremoK, red[c].extremoC)
<1>1. red \in [Consolas -> Canales]
  BY DEF TipoBase, Canales
<1>2. red[c] \in Canales
  BY <1>1
<1> QED
  BY <1>1, <1>2 DEF Canales, Canal

LEMMA CanalCampos ==
  ASSUME NEW k, NEW a, NEW ek, NEW ec, NEW r, r = Canal(k, a, ek, ec)
  PROVE  /\ r.alKernel = k /\ r.alConsola = a /\ r.extremoK = ek /\ r.extremoC = ec
         /\ (k \in Seq(Campos) /\ a \in Seq(Campos) /\ ek \in Extremos /\ ec \in Extremos) =>
              r \in Canales
BY DEF Canal, Canales

LEMMA CambiaRed ==
  ASSUME TipoBase, NEW c \in Consolas, NEW k, NEW a, NEW ek, NEW ec,
         red' = [red EXCEPT ![c] = Canal(k, a, ek, ec)]
  PROVE  /\ red'[c].alKernel = k /\ red'[c].alConsola = a
         /\ red'[c].extremoK = ek /\ red'[c].extremoC = ec
         /\ \A d \in Consolas \ {c} : red'[d] = red[d]
         /\ (k \in Seq(Campos) /\ a \in Seq(Campos) /\ ek \in Extremos /\ ec \in Extremos) =>
              red' \in [Consolas -> Canales]
<1>1. red \in [Consolas -> Canales]
  BY DEF TipoBase, Canales
<1>2. red'[c] = Canal(k, a, ek, ec) /\ \A d \in Consolas \ {c} : red'[d] = red[d]
  BY <1>1
<1>3. /\ red'[c].alKernel = k /\ red'[c].alConsola = a
      /\ red'[c].extremoK = ek /\ red'[c].extremoC = ec
  BY <1>2 DEF Canal
<1>4. ASSUME k \in Seq(Campos), a \in Seq(Campos), ek \in Extremos, ec \in Extremos
      PROVE  red' \in [Consolas -> Canales]
  <2>1. Canal(k, a, ek, ec) \in Canales
    BY <1>4 DEF Canal, Canales
  <2> QED
    BY <1>1, <2>1
<1> QED
  BY <1>2, <1>3, <1>4

LEMMA ConsumeEs ==
  ASSUME TipoBase, NEW h \in Consolas, Toma(h) \in Consolas, NEW n, Consume(h, n)
  PROVE  /\ red' = [red EXCEPT ![Toma(h)] =
                      Canal(Desde(Llega(h), n + 1), red[Toma(h)].alConsola,
                            red[Toma(h)].extremoK, red[Toma(h)].extremoC)]
         /\ caida' = caida
<1> DEFINE c == Toma(h)
<1>1. red[c] = Canal(red[c].alKernel, red[c].alConsola, red[c].extremoK, red[c].extremoC)
  BY CanalDe
<1>2. /\ red' = [red EXCEPT ![c].alKernel = Desde(red[c].alKernel, n + 1)]
      /\ caida' = caida
  BY DEF Consume
<1> HIDE DEF c
<1>3. red' = [red EXCEPT ![c] = Canal(Desde(red[c].alKernel, n + 1), red[c].alConsola,
                                      red[c].extremoK, red[c].extremoC)]
  <2>1. [red[c] EXCEPT !.alKernel = Desde(red[c].alKernel, n + 1)]
          = Canal(Desde(red[c].alKernel, n + 1), red[c].alConsola, red[c].extremoK, red[c].extremoC)
    <3> DEFINE k == red[c].alKernel
               a == red[c].alConsola
               ek == red[c].extremoK
               ec == red[c].extremoC
               k2 == Desde(k, n + 1)
    <3>1. red[c] = Canal(k, a, ek, ec)
      BY <1>1
    <3> HIDE DEF k, a, ek, ec, k2
    <3>2. [red[c] EXCEPT !.alKernel = k2] = Canal(k2, a, ek, ec)
      BY <3>1 DEF Canal
    <3> QED
      BY <3>2 DEF k, a, ek, ec, k2
  <2> QED
    BY <1>2, <2>1
<1> QED
  BY <1>2, <1>3 DEF c, Llega

LEMMA EnviaKernelEs ==
  ASSUME TipoBase, NEW c \in Consolas, NEW campos, EnviaKernel(c, campos)
  PROVE  IF red[c].extremoK = "roto" THEN CaeKernel("senal")
         ELSE /\ red' = [red EXCEPT ![c] =
                           Canal(red[c].alKernel,
                                 IF red[c].extremoK = "viva" THEN red[c].alConsola \o campos
                                 ELSE red[c].alConsola,
                                 TrasEnviar(red[c].extremoK), red[c].extremoC)]
              /\ caida' = caida
<1>1. CASE red[c].extremoK = "roto"
  BY <1>1 DEF EnviaKernel
<1>2. CASE red[c].extremoK # "roto"
  <2> DEFINE k == red[c].alKernel
             a == red[c].alConsola
             ek == red[c].extremoK
             ec == red[c].extremoC
             a2 == IF ek = "viva" THEN a \o campos ELSE a
             ek2 == TrasEnviar(ek)
             r == [red EXCEPT ![c].extremoK = ek2]
  <2>1. red[c] = Canal(k, a, ek, ec) /\ DOMAIN red = Consolas
    BY CanalDe
  <2>2. red' = [r EXCEPT ![c].alConsola = a2] /\ caida' = caida
    <3>1. red' = [red EXCEPT ![c].extremoK = TrasEnviar(@),
                             ![c].alConsola = IF red[c].extremoK = "viva" THEN @ \o campos ELSE @]
      BY <1>2 DEF EnviaKernel
    <3>2. r[c].alConsola = a
      BY <2>1 DEF Canal
    <3> QED
      BY <1>2, <3>1, <3>2 DEF EnviaKernel
  <2> HIDE DEF k, a, ek, ec, a2, ek2
  <2>3. r = [red EXCEPT ![c] = Canal(k, a, ek2, ec)]
    <3>1. [red[c] EXCEPT !.extremoK = ek2] = Canal(k, a, ek2, ec)
      BY <2>1 DEF Canal
    <3> QED
      BY <3>1
  <2>4. r[c] = Canal(k, a, ek2, ec)
    BY <2>1, <2>3
  <2>5. [r[c] EXCEPT !.alConsola = a2] = Canal(k, a2, ek2, ec)
    BY <2>4 DEF Canal
  <2>6. red' = [r EXCEPT ![c] = Canal(k, a2, ek2, ec)]
    BY <2>2, <2>5
  <2> HIDE DEF r
  <2>7. red' = [red EXCEPT ![c] = Canal(k, a2, ek2, ec)]
    BY <2>3, <2>6
  <2> QED
    BY <1>2, <2>2, <2>7 DEF k, a, ek, ec, a2, ek2
<1> QED
  BY <1>1, <1>2

LEMMA TerminaConsolaEs ==
  ASSUME TipoBase, NEW c \in Consolas, NEW resultado, NEW sinLeer,
         TerminaConsola(c, resultado, sinLeer)
  PROVE  /\ red' = [red EXCEPT ![c] =
                      Canal(red[c].alKernel, sinLeer,
                            IF red[c].extremoK = "viva" THEN Cierre(sinLeer) ELSE red[c].extremoK,
                            red[c].extremoC)]
         /\ consola' = [consola EXCEPT ![c] = resultado]
<1> DEFINE k == red[c].alKernel
           a == red[c].alConsola
           ek == red[c].extremoK
           ec == red[c].extremoC
           ek2 == IF ek = "viva" THEN Cierre(sinLeer) ELSE ek
           r == [red EXCEPT ![c].alConsola = sinLeer]
<1>1. red[c] = Canal(k, a, ek, ec) /\ DOMAIN red = Consolas
  BY CanalDe
<1>2. red' = [r EXCEPT ![c].extremoK = ek2] /\ consola' = [consola EXCEPT ![c] = resultado]
  <2>1. red' = [red EXCEPT ![c].alConsola = sinLeer,
                           ![c].extremoK = IF @ = "viva" THEN Cierre(sinLeer) ELSE @]
    BY DEF TerminaConsola
  <2>2. r[c].extremoK = ek
    BY <1>1 DEF Canal
  <2> QED
    BY <2>1, <2>2 DEF TerminaConsola
<1> HIDE DEF k, a, ek, ec, ek2
<1>3. r = [red EXCEPT ![c] = Canal(k, sinLeer, ek, ec)]
  <2>1. [red[c] EXCEPT !.alConsola = sinLeer] = Canal(k, sinLeer, ek, ec)
    BY <1>1 DEF Canal
  <2> QED
    BY <2>1
<1>4. r[c] = Canal(k, sinLeer, ek, ec)
  BY <1>1, <1>3
<1>5. [r[c] EXCEPT !.extremoK = ek2] = Canal(k, sinLeer, ek2, ec)
  BY <1>4 DEF Canal
<1>6. red' = [r EXCEPT ![c] = Canal(k, sinLeer, ek2, ec)]
  BY <1>2, <1>5
<1> HIDE DEF r
<1>7. red' = [red EXCEPT ![c] = Canal(k, sinLeer, ek2, ec)]
  BY <1>3, <1>6
<1> QED
  BY <1>2, <1>7 DEF k, a, ek, ec, ek2

LEMMA EnviaConsolaEs ==
  ASSUME TipoBase, NEW c \in Consolas, NEW campos, EnviaConsola(c, campos)
  PROVE  IF red[c].extremoC = "roto" THEN TerminaConsola(c, "muerta", <<>>)
         ELSE /\ red' = [red EXCEPT ![c] =
                           Canal(IF red[c].extremoC = "viva" THEN red[c].alKernel \o campos
                                 ELSE red[c].alKernel,
                                 red[c].alConsola, red[c].extremoK, TrasEnviar(red[c].extremoC))]
              /\ consola' = [consola EXCEPT ![c] = "espera"]
<1>1. CASE red[c].extremoC = "roto"
  BY <1>1 DEF EnviaConsola
<1>2. CASE red[c].extremoC # "roto"
  <2> DEFINE k == red[c].alKernel
             a == red[c].alConsola
             ek == red[c].extremoK
             ec == red[c].extremoC
             k2 == IF ec = "viva" THEN k \o campos ELSE k
             ec2 == TrasEnviar(ec)
             r == [red EXCEPT ![c].extremoC = ec2]
  <2>1. red[c] = Canal(k, a, ek, ec) /\ DOMAIN red = Consolas
    BY CanalDe
  <2>2. red' = [r EXCEPT ![c].alKernel = k2] /\ consola' = [consola EXCEPT ![c] = "espera"]
    <3>1. red' = [red EXCEPT ![c].extremoC = TrasEnviar(@),
                             ![c].alKernel = IF red[c].extremoC = "viva" THEN @ \o campos ELSE @]
      BY <1>2 DEF EnviaConsola
    <3>2. r[c].alKernel = k
      BY <2>1 DEF Canal
    <3> QED
      BY <1>2, <3>1, <3>2 DEF EnviaConsola
  <2> HIDE DEF k, a, ek, ec, k2, ec2
  <2>3. r = [red EXCEPT ![c] = Canal(k, a, ek, ec2)]
    <3>1. [red[c] EXCEPT !.extremoC = ec2] = Canal(k, a, ek, ec2)
      BY <2>1 DEF Canal
    <3> QED
      BY <3>1
  <2>4. r[c] = Canal(k, a, ek, ec2)
    BY <2>1, <2>3
  <2>5. [r[c] EXCEPT !.alKernel = k2] = Canal(k2, a, ek, ec2)
    BY <2>4 DEF Canal
  <2>6. red' = [r EXCEPT ![c] = Canal(k2, a, ek, ec2)]
    BY <2>2, <2>5
  <2> HIDE DEF r
  <2>7. red' = [red EXCEPT ![c] = Canal(k2, a, ek, ec2)]
    BY <2>3, <2>6
  <2> QED
    BY <1>2, <2>2, <2>7 DEF k, a, ek, ec, k2, ec2
<1> QED
  BY <1>1, <1>2

(* When the Kernel falls only one thing changes, in every connection.      *)
LEMMA CaeKernelEs ==
  ASSUME TipoBase, NEW causa, CaeKernel(causa)
  PROVE  /\ caida' = causa /\ red' \in [Consolas -> Canales]
         /\ \A c \in Consolas :
              /\ red'[c].alKernel = red[c].alKernel /\ red'[c].alConsola = red[c].alConsola
              /\ red'[c].extremoK = red[c].extremoK
              /\ red'[c].extremoC = IF red[c].extremoC # "viva" THEN red[c].extremoC
                                    ELSE IF Aceptada(c) THEN Cierre(red[c].alKernel) ELSE "rst"
<1> DEFINE ec2(c) == IF red[c].extremoC # "viva" THEN red[c].extremoC
                     ELSE IF Aceptada(c) THEN Cierre(red[c].alKernel) ELSE "rst"
<1>1. /\ caida' = causa
      /\ red' = [c \in Consolas |-> [red[c] EXCEPT !.extremoC = ec2(c)]]
  BY DEF CaeKernel
<1>2. ASSUME NEW c \in Consolas
      PROVE  /\ red'[c] = Canal(red[c].alKernel, red[c].alConsola, red[c].extremoK, ec2(c))
             /\ red'[c] \in Canales
  <2>1. red[c] = Canal(red[c].alKernel, red[c].alConsola, red[c].extremoK, red[c].extremoC)
    BY CanalDe
  <2>2. red'[c] = [red[c] EXCEPT !.extremoC = ec2(c)]
    BY <1>1
  <2>3. ec2(c) \in Extremos
    BY CanalDe DEF Cierre, Extremos
  <2> HIDE DEF ec2
  <2>4. red'[c] = Canal(red[c].alKernel, red[c].alConsola, red[c].extremoK, ec2(c))
    BY <2>1, <2>2 DEF Canal
  <2>5. /\ red[c].alKernel \in Seq(Campos) /\ red[c].alConsola \in Seq(Campos)
        /\ red[c].extremoK \in Extremos
    BY CanalDe
  <2>6. red'[c] \in Canales
    BY <2>3, <2>4, <2>5, CanalCampos
  <2> QED
    BY <2>4, <2>6
<1>3. red' \in [Consolas -> Canales]
  BY <1>1, <1>2
<1>4. ASSUME NEW c \in Consolas
      PROVE  /\ red'[c].alKernel = red[c].alKernel /\ red'[c].alConsola = red[c].alConsola
             /\ red'[c].extremoK = red[c].extremoK /\ red'[c].extremoC = ec2(c)
  <2> HIDE DEF ec2
  <2>1. red'[c] = Canal(red[c].alKernel, red[c].alConsola, red[c].extremoK, ec2(c))
    BY <1>2
  <2> QED
    BY <2>1, CanalCampos
<1> QED
  BY <1>1, <1>3, <1>4

-----------------------------------------------------------------------------
(* What holds of every connection, disturbed or not. *)

RedBuena ==
    /\ red \in [Consolas -> Canales]
    /\ \A c \in Consolas : EnPaquetes(red[c].alConsola)
    /\ ExtremosCoherentes

LEMMA RedInicial ==
  ASSUME Base
  PROVE  RedBuena
BY DEF RedBuena, Base, TipoBase, Canales

LEMMA RedIgual ==
  ASSUME Base, UNCHANGED <<red, caida, consola>>
  PROVE  RedBuena'
<1>1. RedBuena
  BY RedInicial
<1> QED
  BY <1>1 DEF RedBuena, ExtremosCoherentes, Terminada

LEMMA RedUna ==
  ASSUME Base, NEW c \in Consolas, NEW k \in Seq(Campos), NEW a \in Seq(Campos),
         NEW ek \in Extremos, NEW ec \in Extremos, EnPaquetes(a),
         red' = [red EXCEPT ![c] = Canal(k, a, ek, ec)],
         \A d \in Consolas \ {c} : consola'[d] = consola[d],
         caida' = caida,
         caida = "no" => ec = "viva" /\ (ek # "viva" <=> consola'[c] \in {"exito", "error", "muerta"})
  PROVE  RedBuena'
<1>1. RedBuena /\ TipoBase
  BY RedInicial DEF Base
<1>2. /\ red'[c].alConsola = a /\ red'[c].extremoK = ek /\ red'[c].extremoC = ec
      /\ \A d \in Consolas \ {c} : red'[d] = red[d]
      /\ red' \in [Consolas -> Canales]
  BY <1>1, CambiaRed, ZenonT(40)
<1>3. ASSUME NEW d \in Consolas PROVE EnPaquetes(red'[d].alConsola)
  BY <1>1, <1>2 DEF RedBuena
<1>4. ExtremosCoherentes'
  BY <1>1, <1>2 DEF RedBuena, ExtremosCoherentes, Terminada
<1> QED
  BY <1>2, <1>3, <1>4 DEF RedBuena

LEMMA RedCae ==
  ASSUME Base, NEW causa \in {"accept", "codigo", "senal", "perdido"}, CaeKernel(causa)
  PROVE  RedBuena' /\ caida' = causa
<1>1. RedBuena /\ TipoBase
  BY RedInicial DEF Base
<1>2. /\ caida' = causa /\ red' \in [Consolas -> Canales]
      /\ \A c \in Consolas : red'[c].alConsola = red[c].alConsola
  BY <1>1, CaeKernelEs
<1> QED
  BY <1>1, <1>2 DEF RedBuena, ExtremosCoherentes

LEMMA BaseDe ==
  ASSUME TipoServidor', Parametros', RedBuena',
         hilo' \in [Consolas -> {"nada", "fallo", "nace", "id", "encabezado", "cantidad", "segmentos",
                                 "lineas", "espera", "atiende", "responde", "perdido", "fin"}],
         caida' \in {"no", "accept", "codigo", "senal", "perdido"},
         consola' \in [Consolas -> {"conecta", "envia", "espera", "teclea", "muestra",
                                    "exito", "error", "muerta"}],
         tecleado' \in [Consolas -> Valores \cup {Basura}],
         mostrado' \in [Consolas -> Int],
         pcb' \in [Consolas -> [cant : Int, segmentos : Seq(Int), instrucciones : Seq(Int),
                                restante : Int]],
         pipeline' \in [Consolas -> [op : Codigos \cup {0}, valor : Int]],
         pedidos' \in [Consolas -> Nat],
         \A c \in Consolas : pedidos'[c] <= MaxPedidos[c]
  PROVE  Base'
<1>1. TipoBase'
  BY DEF TipoBase, RedBuena, Canales
<1> QED
  BY <1>1 DEF Base, RedBuena

PasosAtendidos == {"encabezado", "cantidad", "segmentos", "lineas", "espera", "atiende", "responde",
                   "perdido", "fin"}

LEMMA AtendidoEs ==
  ASSUME TipoBase, NEW h \in Consolas
  PROVE  h \in Atendidos <=> hilo[h] \in PasosAtendidos
BY DEF TipoBase, Atendidos, PasosAtendidos

(* A step of a thread that knows whom it serves. *)
LEMMA BaseHilo ==
  ASSUME Base, NEW h \in Consolas, UNCHANGED ajenas, h \in Atendidos, RedBuena',
         NEW paso \in PasosAtendidos, hilo' = [hilo EXCEPT ![h] = paso],
         caida' \in {"no", "accept", "codigo", "senal", "perdido"},
         pcb' \in [Consolas -> [cant : Int, segmentos : Seq(Int), instrucciones : Seq(Int),
                                restante : Int]],
         pipeline' \in [Consolas -> [op : Codigos \cup {0}, valor : Int]],
         pedidos' \in [Consolas -> Nat],
         \A c \in Consolas : pedidos'[c] <= MaxPedidos[c]
  PROVE  Base'
<1>1. TipoBase /\ Parametros
  BY DEF Base
<1>2. UNCHANGED <<espera, servidorVars, leido, consola, tecleado, mostrado>>
  BY DEF ajenas, consolaVars
<1>3. hilo' \in [Consolas -> {"nada", "fallo", "nace", "id", "encabezado", "cantidad", "segmentos",
                              "lineas", "espera", "atiende", "responde", "perdido", "fin"}]
  BY <1>1 DEF TipoBase, PasosAtendidos
<1>4. \A c \in Consolas : hilo'[c] = hilo[c] \/ (c \in Atendidos /\ c \in Atendidos')
  BY <1>1 DEF TipoBase, Atendidos, PasosAtendidos
<1>5. Parametros'
  BY <1>1, <1>2, <1>4, ParametrosIgual
<1>6. TipoServidor'
  BY <1>1, <1>2 DEF TipoBase, TipoServidor, servidorVars
<1>7. /\ consola' \in [Consolas -> {"conecta", "envia", "espera", "teclea", "muestra",
                                    "exito", "error", "muerta"}]
      /\ tecleado' \in [Consolas -> Valores \cup {Basura}]
      /\ mostrado' \in [Consolas -> Int]
  BY <1>1, <1>2 DEF TipoBase
<1> QED
  BY <1>3, <1>5, <1>6, <1>7, BaseDe

(* A step of a console. *)
LEMMA BaseConsola ==
  ASSUME Base, NEW c \in Consolas, UNCHANGED kernelVars, UNCHANGED espera, RedBuena',
         NEW paso \in {"espera", "teclea", "muestra", "exito", "error", "muerta"},
         consola' = [consola EXCEPT ![c] = paso],
         tecleado' \in [Consolas -> Valores \cup {Basura}],
         mostrado' \in [Consolas -> Int]
  PROVE  Base'
<1>1. TipoBase /\ Parametros
  BY DEF Base
<1>2. UNCHANGED <<espera, servidorVars, leido, hilo, caida, pcb, pipeline, pedidos>>
  BY DEF kernelVars, procesoVars
<1>3. \A d \in Consolas : consola'[d] = "conecta" => consola[d] = "conecta"
  BY <1>1 DEF TipoBase
<1>4. Parametros'
  BY <1>1, <1>2, <1>3, ParametrosIgual
<1>5. TipoServidor'
  BY <1>1, <1>2 DEF TipoBase, TipoServidor, servidorVars
<1>6. consola' \in [Consolas -> {"conecta", "envia", "espera", "teclea", "muestra",
                                 "exito", "error", "muerta"}]
  BY <1>1 DEF TipoBase
<1>7. /\ hilo' \in [Consolas -> {"nada", "fallo", "nace", "id", "encabezado", "cantidad", "segmentos",
                                 "lineas", "espera", "atiende", "responde", "perdido", "fin"}]
      /\ caida' \in {"no", "accept", "codigo", "senal", "perdido"}
      /\ pcb' \in [Consolas -> [cant : Int, segmentos : Seq(Int), instrucciones : Seq(Int),
                                restante : Int]]
      /\ pipeline' \in [Consolas -> [op : Codigos \cup {0}, valor : Int]]
      /\ pedidos' \in [Consolas -> Nat]
      /\ \A d \in Consolas : pedidos'[d] <= MaxPedidos[d]
  BY <1>1, <1>2 DEF TipoBase
<1> QED
  BY <1>4, <1>5, <1>6, <1>7, BaseDe

LEMMA BaseInicial == Init => Base
<1> SUFFICES ASSUME Init PROVE Base
  OBVIOUS
<1>1. Parametros
  BY ParametrosInicial
<1>2. TipoServidor
  BY DEF Init, InitServidor, TipoServidor, Aux
<1>3. TipoBase
  <2>1. red \in [Consolas -> [alKernel : Seq(Campos), alConsola : Seq(Campos),
                              extremoK : Extremos, extremoC : Extremos]]
    <3>1. <<>> \in Seq(Campos)
      OBVIOUS
    <3> QED
      BY <3>1 DEF Init, Extremos
  <2>2. pcb \in [Consolas -> [cant : Int, segmentos : Seq(Int), instrucciones : Seq(Int),
                              restante : Int]]
    <3>1. <<>> \in Seq(Int)
      OBVIOUS
    <3> QED
      BY <3>1 DEF Init, SinPCB
  <2>3. pipeline \in [Consolas -> [op : Codigos \cup {0}, valor : Int]]
    BY DEF Init, PipelineVacia
  <2>4. /\ pedidos \in [Consolas -> Nat] /\ \A c \in Consolas : pedidos[c] <= MaxPedidos[c]
        /\ tecleado \in [Consolas -> Valores \cup {Basura}] /\ mostrado \in [Consolas -> Int]
    BY SupuestosDialogo DEF Init, Basura, SupuestosDialogo
  <2> QED
    BY <1>2, <2>1, <2>2, <2>3, <2>4 DEF TipoBase, Init, InitServidor
<1>4. /\ \A c \in Consolas : EnPaquetes(red[c].alConsola)
      /\ ExtremosCoherentes
  BY EnPaquetesVacia DEF Init, ExtremosCoherentes, Terminada
<1> QED
  BY <1>1, <1>3, <1>4 DEF Base

LEMMA BaseServidor ==
  ASSUME Base, LoopServidor \/ CreaHiloFalla, UNCHANGED <<red, consolaVars, procesoVars>>
  PROVE  Base'
<1>1. TipoBase /\ Parametros /\ UNCHANGED <<consola, tecleado, mostrado, pcb, pipeline, pedidos>>
  BY DEF Base, consolaVars, procesoVars
<1>2. TipoServidor' /\ Parametros'
  BY <1>1, AceptaPaso, EscribeSocketPaso, EscribeIdPaso, RegistraPaso, CreaPaso DEF LoopServidor
<1>3. caida' = caida
  BY DEF LoopServidor, Acepta, EscribeSocket, EscribeId, Registra, CreaHilo, CreaHiloFalla
<1>4. hilo' = hilo \/ \E paso \in {"nace", "fallo"} : hilo' = [hilo EXCEPT ![clientSock] = paso]
  BY DEF LoopServidor, Acepta, EscribeSocket, EscribeId, Registra, CreaHilo, CreaHiloFalla
<1>5. hilo' \in [Consolas -> {"nada", "fallo", "nace", "id", "encabezado", "cantidad", "segmentos",
                              "lineas", "espera", "atiende", "responde", "perdido", "fin"}]
  BY <1>1, <1>4 DEF TipoBase
<1>6. RedBuena'
  BY <1>1, <1>3, RedIgual
<1> QED
  BY <1>1, <1>2, <1>3, <1>5, <1>6, BaseDe DEF TipoBase

LEMMA BaseLee ==
  ASSUME Base, NEW h \in Consolas, LeeParametros(h), UNCHANGED <<red, consolaVars, procesoVars>>
  PROVE  Base'
<1>1. TipoBase /\ Parametros /\ UNCHANGED <<consola, tecleado, mostrado, pcb, pipeline, pedidos>>
  BY DEF Base, consolaVars, procesoVars
<1>2. TipoServidor' /\ Parametros'
  BY <1>1, LeePaso
<1>3. caida' = caida /\ \E paso \in {"id", "encabezado"} : hilo' = [hilo EXCEPT ![h] = paso]
  BY DEF LeeParametros, LeeSocket, LeeId
<1>4. hilo' \in [Consolas -> {"nada", "fallo", "nace", "id", "encabezado", "cantidad", "segmentos",
                              "lineas", "espera", "atiende", "responde", "perdido", "fin"}]
  BY <1>1, <1>3 DEF TipoBase
<1>5. RedBuena'
  BY <1>1, <1>3, RedIgual
<1> QED
  BY <1>1, <1>2, <1>3, <1>4, <1>5, BaseDe DEF TipoBase

-----------------------------------------------------------------------------
(* The first packet. *)

LEMMA BytesFinitos ==
  ASSUME NEW campos \in Seq(Campos)
  PROVE  IsFiniteSet(BytesDe(campos)) /\ Cardinality(BytesDe(campos)) \in Nat
<1> DEFINE D == 1 .. Len(campos)
           P(i) == {i} \X (1 .. (4 + campos[i].bytes))
           T == {P(i) : i \in D}
           f == [i \in D |-> P(i)]
<1>1. Len(campos) \in Nat /\ DOMAIN campos = D
  BY LenProperties
<1>2. IsFiniteSet(D)
  BY <1>1, FS_Interval
<1>3. \A S \in T : IsFiniteSet(S)
  <2> SUFFICES ASSUME NEW i \in D PROVE IsFiniteSet(P(i))
    OBVIOUS
  <2>1. campos[i] \in Campos
    BY ElementOfSeq
  <2> DEFINE m == 4 + campos[i].bytes
  <2>2. m \in Int
    BY <2>1 DEF Campos
  <2> HIDE DEF m
  <2>3. IsFiniteSet(1 .. m)
    <3>1. 1 \in Int
      OBVIOUS
    <3> QED
      BY <2>2, <3>1, FS_Interval
  <2>4. IsFiniteSet({i}) /\ IsFiniteSet(1 .. (4 + campos[i].bytes))
    BY <2>3, FS_Singleton DEF m
  <2> QED
    BY <2>4, FS_Product
<1>4. f \in Surjection(D, T)
  <2> HIDE DEF P
  <2>1. f \in [D -> T] /\ \A t \in T : \E i \in D : f[i] = t
    OBVIOUS
  <2> QED
    BY <2>1, Fun_IsSurj
<1>5. IsFiniteSet(T)
  BY <1>2, <1>4, FS_Surjection
<1>6. BytesDe(campos) = UNION T
  BY <1>1 DEF BytesDe
<1> HIDE DEF T
<1>7. IsFiniteSet(BytesDe(campos))
  BY <1>3, <1>5, <1>6, FS_UNION
<1> QED
  BY <1>7, FS_CardinalityType

(* The fields of the first packet of c. *)
LEMMA CamposInicialesSon ==
  ASSUME NEW c \in Consolas
  PROVE  /\ CamposIniciales(c) \in Seq(Campos)
         /\ Len(CamposIniciales(c)) = 1 + Len(Segmentos[c]) + Len(Lineas[c])
         /\ Len(Segmentos[c]) \in Nat /\ Len(Lineas[c]) \in Nat
         /\ CamposIniciales(c)[1] = Entero(Len(Segmentos[c]))
         /\ \A i \in 1 .. Len(Segmentos[c]) :
              /\ Segmentos[c][i] \in Int
              /\ CamposIniciales(c)[1 + i] = Entero(Segmentos[c][i])
         /\ \A i \in 1 .. Len(Lineas[c]) :
              /\ Lineas[c][i] \in Nat
              /\ CamposIniciales(c)[1 + Len(Segmentos[c]) + i] = Texto(Lineas[c][i])
<1> DEFINE ns == Len(Segmentos[c])
           nl == Len(Lineas[c])
           uno == <<Entero(ns)>>
           ss == [i \in 1 .. ns |-> Entero(Segmentos[c][i])]
           ls == [i \in 1 .. nl |-> Texto(Lineas[c][i])]
           us == uno \o ss
<1>1. Segmentos[c] \in Seq(Int) /\ Lineas[c] \in Seq(Nat)
  BY SupuestosDialogo DEF SupuestosDialogo
<1>2. ns \in Nat /\ nl \in Nat
  BY <1>1, LenProperties
<1>3. \A i \in 1 .. ns : Segmentos[c][i] \in Int
  BY <1>1, ElementOfSeq
<1>4. \A i \in 1 .. nl : Lineas[c][i] \in Nat
  BY <1>1, ElementOfSeq
<1>5. \A n \in Int : Entero(n) \in Campos /\ Texto(n) \in Campos
  BY DEF Entero, Texto, Campos
<1>6. uno \in Seq(Campos) /\ Len(uno) = 1 /\ uno[1] = Entero(ns)
  BY <1>2, <1>5
<1>7. \A i \in 1 .. ns : ss[i] \in Campos
  BY <1>3, <1>5
<1>8. \A i \in 1 .. nl : ls[i] \in Campos
  BY <1>4, <1>5
<1>9. /\ ss \in Seq(Campos) /\ Len(ss) = ns
      /\ ls \in Seq(Campos) /\ Len(ls) = nl
  <2>1. ss \in [1 .. ns -> Campos] /\ ls \in [1 .. nl -> Campos]
    BY <1>7, <1>8
  <2> HIDE DEF ss, ls, ns, nl
  <2>2. ss \in Seq(Campos) /\ ls \in Seq(Campos) /\ DOMAIN ss = 1 .. ns /\ DOMAIN ls = 1 .. nl
    BY <1>2, <2>1, SeqDef
  <2> QED
    BY <1>2, <2>2
<1>10. \A i \in 1 .. ns : ss[i] = Entero(Segmentos[c][i])
  OBVIOUS
<1>11. \A i \in 1 .. nl : ls[i] = Texto(Lineas[c][i])
  OBVIOUS
<1> HIDE DEF ns, nl, uno, ss, ls
<1>12. /\ us \in Seq(Campos) /\ Len(us) = 1 + ns
       /\ \A i \in 1 .. (1 + ns) : us[i] = IF i <= 1 THEN uno[i] ELSE ss[i - 1]
  <2>1. /\ uno \o ss \in Seq(Campos) /\ Len(uno \o ss) = Len(uno) + Len(ss)
        /\ \A i \in 1 .. Len(uno) + Len(ss) :
             (uno \o ss)[i] = IF i <= Len(uno) THEN uno[i] ELSE ss[i - Len(uno)]
    BY <1>6, <1>9, ConcatProperties
  <2> QED
    BY <1>6, <1>9, <2>1
<1> HIDE DEF us
<1>13. /\ us \o ls \in Seq(Campos) /\ Len(us \o ls) = 1 + ns + nl
       /\ \A i \in 1 .. (1 + ns + nl) : (us \o ls)[i] = IF i <= 1 + ns THEN us[i] ELSE ls[i - (1 + ns)]
  <2>1. /\ us \o ls \in Seq(Campos) /\ Len(us \o ls) = Len(us) + Len(ls)
        /\ \A i \in 1 .. Len(us) + Len(ls) :
             (us \o ls)[i] = IF i <= Len(us) THEN us[i] ELSE ls[i - Len(us)]
    BY <1>9, <1>12, ConcatProperties
  <2> QED
    BY <1>9, <1>12, <2>1
<1>14. CamposIniciales(c) = us \o ls
  BY DEF CamposIniciales, us, uno, ss, ls, ns, nl
<1>15. (us \o ls)[1] = Entero(ns)
  BY <1>2, <1>6, <1>12, <1>13
<1>16. ASSUME NEW i \in 1 .. ns PROVE (us \o ls)[1 + i] = Entero(Segmentos[c][i])
  <2>1. 1 + i \in 1 .. (1 + ns) /\ 1 + i \in 1 .. (1 + ns + nl) /\ ~(1 + i <= 1) /\ (1 + i) - 1 = i
    BY <1>2
  <2> QED
    BY <1>10, <1>12, <1>13, <2>1
<1>17. ASSUME NEW i \in 1 .. nl PROVE (us \o ls)[1 + ns + i] = Texto(Lineas[c][i])
  <2>1. 1 + ns + i \in 1 .. (1 + ns + nl) /\ ~(1 + ns + i <= 1 + ns) /\ (1 + ns + i) - (1 + ns) = i
    BY <1>2
  <2> QED
    BY <1>11, <1>13, <2>1
<1> QED
  BY <1>2, <1>3, <1>4, <1>13, <1>14, <1>15, <1>16, <1>17 DEF ns, nl

(* The stream of it. *)
LEMMA ProgramaSon ==
  ASSUME NEW c \in Consolas
  PROVE  /\ Programa(c) \in Seq(Campos)
         /\ Len(Programa(c)) = 2 + 2 * Len(CamposIniciales(c))
         /\ Programa(c)[1] = Entero(NUEVO_PROCESO)
         /\ Programa(c)[2] = Entero(Cardinality(BytesDe(CamposIniciales(c))))
         /\ \A i \in 1 .. Len(CamposIniciales(c)) :
              /\ Programa(c)[2 * i + 1] = Entero(CamposIniciales(c)[i].bytes)
              /\ Programa(c)[2 * i + 2] = CamposIniciales(c)[i]
<1> DEFINE campos == CamposIniciales(c)
           n == Len(campos)
           a == Entero(NUEVO_PROCESO)
           b == Entero(Cardinality(BytesDe(campos)))
           st == [i \in 1 .. (2 * n) |->
                    IF i % 2 = 1 THEN Entero(campos[(i + 1) \div 2].bytes) ELSE campos[i \div 2]]
<1>1. campos \in Seq(Campos)
  BY CamposInicialesSon
<1>2. n \in Nat
  BY <1>1, LenProperties
<1>3. Cardinality(BytesDe(campos)) \in Nat
  BY <1>1, BytesFinitos
<1>4. a \in Campos /\ b \in Campos
  BY <1>3, EnteroTipo DEF NUEVO_PROCESO
<1>5. \A i \in 1 .. n : campos[i] \in Campos /\ Entero(campos[i].bytes) \in Campos
  BY <1>1, ElementOfSeq, EnteroTipo DEF Campos
<1> HIDE DEF campos, n, a, b
<1>6. \A i \in 1 .. (2 * n) : st[i] \in Campos
  <2> SUFFICES ASSUME NEW i \in 1 .. (2 * n)
               PROVE  (IF i % 2 = 1 THEN Entero(campos[(i + 1) \div 2].bytes) ELSE campos[i \div 2]) \in Campos
    OBVIOUS
  <2>1. CASE i % 2 = 1
    <3>1. (i + 1) \div 2 \in 1 .. n
      BY <1>2, <2>1
    <3> QED
      BY <1>5, <2>1, <3>1
  <2>2. CASE i % 2 # 1
    <3>1. i \div 2 \in 1 .. n
      BY <1>2, <2>2
    <3> QED
      BY <1>5, <2>2, <3>1
  <2> QED
    BY <2>1, <2>2
<1>7. st \in Seq(Campos) /\ Len(st) = 2 * n
  <2>1. 2 * n \in Nat
    BY <1>2
  <2> QED
    BY <1>6, <2>1
<1>8. ASSUME NEW i \in 1 .. n
      PROVE  st[2 * i - 1] = Entero(campos[i].bytes) /\ st[2 * i] = campos[i]
  <2>1. /\ 2 * i - 1 \in 1 .. (2 * n) /\ (2 * i - 1) % 2 = 1 /\ ((2 * i - 1) + 1) \div 2 = i
        /\ 2 * i \in 1 .. (2 * n) /\ (2 * i) % 2 # 1 /\ (2 * i) \div 2 = i
    BY <1>2
  <2> QED
    BY <2>1
<1> HIDE DEF st
<1>9. <<a, b>> \in Seq(Campos) /\ Len(<<a, b>>) = 2 /\ <<a, b>>[1] = a /\ <<a, b>>[2] = b
  BY <1>4, Dos
<1> DEFINE ab == <<a, b>>
<1> HIDE DEF ab
<1>10. /\ ab \o st \in Seq(Campos) /\ Len(ab \o st) = 2 + 2 * n
       /\ \A i \in 1 .. (2 + 2 * n) : (ab \o st)[i] = IF i <= 2 THEN ab[i] ELSE st[i - 2]
  BY <1>7, <1>9, ConcatProperties DEF ab
<1>11. Programa(c) = ab \o st
  BY DEF Programa, Serializado, PaqueteInicial, Paquete, ab, a, b, st, n, campos
<1>12. Programa(c)[1] = a /\ Programa(c)[2] = b
  <2>1. 1 \in 1 .. (2 + 2 * n) /\ 2 \in 1 .. (2 + 2 * n)
    BY <1>2
  <2> QED
    BY <1>9, <1>10, <1>11, <2>1 DEF ab
<1>13. ASSUME NEW i \in 1 .. n
       PROVE  Programa(c)[2 * i + 1] = Entero(campos[i].bytes) /\ Programa(c)[2 * i + 2] = campos[i]
  <2>1. /\ 2 * i + 1 \in 1 .. (2 + 2 * n) /\ ~(2 * i + 1 <= 2) /\ (2 * i + 1) - 2 = 2 * i - 1
        /\ 2 * i + 2 \in 1 .. (2 + 2 * n) /\ ~(2 * i + 2 <= 2) /\ (2 * i + 2) - 2 = 2 * i
    BY <1>2
  <2> QED
    BY <1>8, <1>10, <1>11, <2>1
<1> QED
  BY <1>10, <1>11, <1>12, <1>13 DEF a, b, n, campos

-----------------------------------------------------------------------------
(* The steps of a console keep what holds of every connection. *)

LEMMA CodigosEnteros ==
  /\ \A op \in {NUEVO_PROCESO, CONSOLE_INPUT, CONSOLE_OUTPUT, EXIT} \cup Respuestas : op \in Int
  /\ Basura \in Int
BY DEF NUEVO_PROCESO, CONSOLE_INPUT, CONSOLE_INPUT_RESPUESTA, CONSOLE_OUTPUT,
       CONSOLE_OUTPUT_RESPUESTA, EXIT, Respuestas, Basura

(* Who is connecting has no connection that another could see. *)
LEMMA ConectaBase ==
  ASSUME Base, NEW c \in Consolas, Conecta(c)
  PROVE  Base'
<1>1. TipoBase /\ Parametros /\ EsperaCoherente
  BY DEF Base, Parametros
<1>2. /\ consola[c] = "conecta" /\ consola' = [consola EXCEPT ![c] = "envia"]
      /\ espera' = Append(espera, c)
      /\ UNCHANGED <<servidorVars, hilo, leido, caida, red, tecleado, mostrado, pcb, pipeline, pedidos>>
  BY DEF Conecta, kernelVars, procesoVars
<1>3. UNCHANGED <<servidor, clientSock, param, acumulador, identidad, pisados>>
  BY <1>2 DEF servidorVars
<1>4. /\ espera \in Seq(Consolas) /\ Len(espera) \in Nat /\ DOMAIN espera = 1 .. Len(espera)
      /\ \A i \in DOMAIN espera : espera[i] \in Consolas
  BY <1>1, LenProperties, ElementOfSeq DEF TipoBase, TipoServidor
<1>5. /\ espera' \in Seq(Consolas) /\ Len(espera') = Len(espera) + 1
      /\ \A i \in 1 .. Len(espera) : espera'[i] = espera[i]
      /\ espera'[Len(espera) + 1] = c
  BY <1>2, <1>4, AppendProperties
<1>6. DOMAIN espera' = 1 .. (Len(espera) + 1)
  BY <1>5, LenProperties
<1>7. identidad[c] = 0 /\ \A i \in DOMAIN espera : espera[i] # c
  BY <1>1, <1>2 DEF EsperaCoherente
<1>8. \A d \in Consolas : consola'[d] = IF d = c THEN "envia" ELSE consola[d]
  BY <1>1, <1>2 DEF TipoBase
<1>9. \A i \in 1 .. (Len(espera) + 1) :
        espera'[i] = (IF i = Len(espera) + 1 THEN c ELSE espera[i])
  BY <1>4, <1>5
<1>10. EsperaCoherente'
  <2>1. ASSUME NEW i \in DOMAIN espera', NEW j \in DOMAIN espera', espera'[i] = espera'[j]
        PROVE  i = j
    BY <1>1, <1>4, <1>6, <1>7, <1>9, <2>1 DEF EsperaCoherente
  <2>2. ASSUME NEW i \in DOMAIN espera'
        PROVE  identidad'[espera'[i]] = 0 /\ consola'[espera'[i]] # "conecta"
    BY <1>1, <1>3, <1>4, <1>6, <1>7, <1>8, <1>9 DEF EsperaCoherente
  <2>3. \A d \in Consolas : consola'[d] = "conecta" => identidad'[d] = 0
    BY <1>1, <1>3, <1>8 DEF EsperaCoherente
  <2> QED
    BY <2>1, <2>2, <2>3 DEF EsperaCoherente
<1>11. /\ IdentidadUnica' /\ LoopCoherente' /\ ParamCoherente'
       /\ \A d \in Consolas : LeidoCoherente(d)'
       /\ NuncaAnterior'
  BY <1>1, <1>2, <1>3 DEF Parametros, IdentidadUnica, LoopCoherente, ParamCoherente, LeidoCoherente,
       NuncaAnterior, Atendidos
<1>12. TipoServidor'
  BY <1>1, <1>2, <1>3, <1>5 DEF TipoBase, TipoServidor, servidorVars
<1>13. RedBuena'
  <2>1. RedBuena
    BY RedInicial
  <2>2. \A d \in Consolas : consola'[d] \in {"exito", "error", "muerta"}
                              <=> consola[d] \in {"exito", "error", "muerta"}
    BY <1>2, <1>8
  <2> QED
    BY <1>2, <2>1, <2>2 DEF RedBuena, ExtremosCoherentes, Terminada
<1>14. consola' \in [Consolas -> {"conecta", "envia", "espera", "teclea", "muestra",
                                  "exito", "error", "muerta"}]
  BY <1>1, <1>2 DEF TipoBase
<1> QED
  BY <1>1, <1>2, <1>10, <1>11, <1>12, <1>13, <1>14, BaseDe DEF TipoBase, Parametros

(* A console that sends. *)
LEMMA EnviaConsolaBase ==
  ASSUME Base, NEW c \in Consolas, NEW campos \in Seq(Campos), EnviaConsola(c, campos),
         consola[c] \notin {"exito", "error", "muerta"},
         UNCHANGED kernelVars, UNCHANGED espera,
         tecleado' \in [Consolas -> Valores \cup {Basura}],
         mostrado' \in [Consolas -> Int]
  PROVE  Base'
<1>1. TipoBase /\ ExtremosCoherentes /\ caida' = caida
  BY DEF Base, kernelVars
<1> DEFINE k == red[c].alKernel
           a == red[c].alConsola
           ek == red[c].extremoK
           ec == red[c].extremoC
<1>2. k \in Seq(Campos) /\ a \in Seq(Campos) /\ ek \in Extremos /\ ec \in Extremos
  BY <1>1, CanalDe
<1>3. EnPaquetes(a)
  BY DEF Base
<1>4. caida = "no" => ec = "viva" /\ ek = "viva"
  BY <1>1 DEF ExtremosCoherentes, Terminada
<1>5. CASE ec = "roto"
  <2>1. /\ red' = [red EXCEPT ![c] = Canal(k, <<>>, IF ek = "viva" THEN Cierre(<<>>) ELSE ek, ec)]
        /\ consola' = [consola EXCEPT ![c] = "muerta"]
    BY <1>1, <1>5, EnviaConsolaEs, TerminaConsolaEs
  <2> DEFINE ek2 == IF ek = "viva" THEN Cierre(<<>>) ELSE ek
  <2>2. ek2 \in Extremos /\ caida # "no"
    BY <1>2, <1>4, <1>5 DEF Cierre, Extremos
  <2>3. <<>> \in Seq(Campos) /\ EnPaquetes(<<>>)
    BY EmptySeq, EnPaquetesVacia
  <2>4. \A d \in Consolas \ {c} : consola'[d] = consola[d]
    BY <2>1
  <2> HIDE DEF k, a, ek, ec, ek2
  <2>5. red' = [red EXCEPT ![c] = Canal(k, <<>>, ek2, ec)]
    BY <2>1 DEF ek2
  <2>6. RedBuena'
    BY <1>1, <1>2, <2>2, <2>3, <2>4, <2>5, RedUna
  <2> QED
    BY <2>1, <2>6, BaseConsola
<1>6. CASE ec # "roto"
  <2> DEFINE k2 == IF ec = "viva" THEN k \o campos ELSE k
             ec2 == TrasEnviar(ec)
  <2>1. /\ red' = [red EXCEPT ![c] = Canal(k2, a, ek, ec2)]
        /\ consola' = [consola EXCEPT ![c] = "espera"]
    BY <1>1, <1>6, EnviaConsolaEs
  <2>2. k2 \in Seq(Campos)
    BY <1>2, ConcatProperties
  <2>3. ec2 \in Extremos /\ (caida = "no" => ec2 = "viva")
    BY <1>2, <1>4 DEF TrasEnviar, Extremos
  <2>4. \A d \in Consolas \ {c} : consola'[d] = consola[d]
    BY <2>1
  <2>5. consola'[c] = "espera"
    BY <1>1, <2>1 DEF TipoBase
  <2> HIDE DEF k, a, ek, ec, k2, ec2
  <2>6. caida = "no" => ec2 = "viva" /\ (ek # "viva" <=> consola'[c] \in {"exito", "error", "muerta"})
    BY <1>4, <2>3, <2>5
  <2>7. RedBuena'
    BY <1>1, <1>2, <1>3, <2>1, <2>2, <2>3, <2>4, <2>6, RedUna
  <2> QED
    BY <2>1, <2>7, BaseConsola
<1> QED
  BY <1>5, <1>6

(* A console that ends. *)
LEMMA TerminaConsolaBase ==
  ASSUME Base, NEW c \in Consolas, NEW resultado \in {"exito", "error", "muerta"},
         NEW sinLeer \in Seq(Campos), EnPaquetes(sinLeer), TerminaConsola(c, resultado, sinLeer),
         consola[c] \notin {"exito", "error", "muerta"},
         UNCHANGED kernelVars, UNCHANGED <<espera, tecleado, mostrado>>
  PROVE  Base'
<1>1. TipoBase /\ ExtremosCoherentes /\ caida' = caida
  BY DEF Base, kernelVars
<1> DEFINE k == red[c].alKernel
           ek == red[c].extremoK
           ec == red[c].extremoC
           ek2 == IF ek = "viva" THEN Cierre(sinLeer) ELSE ek
<1>2. k \in Seq(Campos) /\ ek \in Extremos /\ ec \in Extremos
  BY <1>1, CanalDe
<1>3. ek2 \in Extremos /\ ek2 # "viva"
  BY <1>2 DEF Cierre, Extremos
<1>4. caida = "no" => ec = "viva"
  BY <1>1 DEF ExtremosCoherentes
<1>5. /\ red' = [red EXCEPT ![c] = Canal(k, sinLeer, ek2, ec)]
      /\ consola' = [consola EXCEPT ![c] = resultado]
  BY <1>1, TerminaConsolaEs
<1>6. consola'[c] = resultado /\ \A d \in Consolas \ {c} : consola'[d] = consola[d]
  BY <1>1, <1>5 DEF TipoBase
<1> HIDE DEF k, ek, ec, ek2
<1>7. RedBuena'
  BY <1>1, <1>2, <1>3, <1>4, <1>5, <1>6, RedUna
<1>8. tecleado' \in [Consolas -> Valores \cup {Basura}] /\ mostrado' \in [Consolas -> Int]
  BY <1>1 DEF TipoBase
<1> QED
  BY <1>5, <1>7, <1>8, BaseConsola

(* One field of a connection. *)
LEMMA UnCampo ==
  ASSUME TipoBase, NEW c \in Consolas, NEW x
  PROVE  /\ [red EXCEPT ![c].alConsola = x]
              = [red EXCEPT ![c] = Canal(red[c].alKernel, x, red[c].extremoK, red[c].extremoC)]
         /\ [red EXCEPT ![c].extremoK = x]
              = [red EXCEPT ![c] = Canal(red[c].alKernel, red[c].alConsola, x, red[c].extremoC)]
         /\ [red EXCEPT ![c].extremoC = x]
              = [red EXCEPT ![c] = Canal(red[c].alKernel, red[c].alConsola, red[c].extremoK, x)]
<1> DEFINE k == red[c].alKernel
           a == red[c].alConsola
           ek == red[c].extremoK
           ec == red[c].extremoC
<1>1. red[c] = Canal(k, a, ek, ec)
  BY CanalDe
<1> HIDE DEF k, a, ek, ec
<1>2. [red[c] EXCEPT !.alConsola = x] = Canal(k, x, ek, ec)
  BY <1>1 DEF Canal
<1>3. [red[c] EXCEPT !.extremoK = x] = Canal(k, a, x, ec)
  BY <1>1 DEF Canal
<1>4. [red[c] EXCEPT !.extremoC = x] = Canal(k, a, ek, x)
  BY <1>1 DEF Canal
<1> QED
  BY <1>2, <1>3, <1>4 DEF k, a, ek, ec

(* A console that takes a request: all of it, and no more. *)
LEMMA RecibeConsolaBase ==
  ASSUME Base, NEW c \in Consolas, NEW paso \in {"teclea", "muestra"},
         NEW k, k = red[c].alKernel, NEW a \in Seq(Campos), EnPaquetes(a),
         NEW ek, ek = red[c].extremoK, NEW ec, ec = red[c].extremoC,
         red' = [red EXCEPT ![c] = Canal(k, a, ek, ec)],
         consola' = [consola EXCEPT ![c] = paso],
         consola[c] = "espera",
         UNCHANGED kernelVars, UNCHANGED <<espera, tecleado>>,
         mostrado' \in [Consolas -> Int]
  PROVE  Base'
<1>1. TipoBase /\ ExtremosCoherentes /\ caida' = caida
  BY DEF Base, kernelVars
<1>2. k \in Seq(Campos) /\ ek \in Extremos /\ ec \in Extremos
  BY <1>1, CanalDe
<1>4. consola'[c] = paso /\ \A d \in Consolas \ {c} : consola'[d] = consola[d]
  BY <1>1 DEF TipoBase
<1>5. caida = "no" => ec = "viva" /\ (ek # "viva" <=> consola'[c] \in {"exito", "error", "muerta"})
  BY <1>1, <1>4 DEF ExtremosCoherentes, Terminada
<1>6. RedBuena'
  BY <1>1, <1>2, <1>4, <1>5, RedUna
<1>7. tecleado' \in [Consolas -> Valores \cup {Basura}]
  BY <1>1 DEF TipoBase
<1> QED
  BY <1>6, <1>7, BaseConsola

LEMMA ConsolaBase ==
  ASSUME Base, NEW c \in Consolas, NextConsola(c) \/ Muere(c)
  PROVE  Base'
<1>1. TipoBase /\ caida \in {"no", "accept", "codigo", "senal", "perdido"}
  BY DEF Base, TipoBase
<1>2. /\ tecleado \in [Consolas -> Valores \cup {Basura}] /\ mostrado \in [Consolas -> Int]
      /\ red[c].alConsola \in Seq(Campos) /\ EnPaquetes(red[c].alConsola)
      /\ red[c].alKernel \in Seq(Campos)
      /\ red[c].extremoK \in Extremos /\ red[c].extremoC \in Extremos
  BY <1>1, CanalDe DEF Base, TipoBase
<1>3. Valores \subseteq Int
  BY SupuestosDialogo DEF SupuestosDialogo
<1>4. CASE Conecta(c)
  BY <1>4, ConectaBase
<1>5. CASE NoConecta(c)
  <2>1. /\ consola[c] = "conecta" /\ caida # "no" /\ consola' = [consola EXCEPT ![c] = "muerta"]
        /\ UNCHANGED kernelVars /\ UNCHANGED <<espera, red, tecleado, mostrado>>
    BY <1>5 DEF NoConecta
  <2>2. caida' = caida
    BY <2>1 DEF kernelVars
  <2>3. RedBuena
    BY RedInicial
  <2>4. RedBuena'
    BY <2>1, <2>2, <2>3 DEF RedBuena, ExtremosCoherentes
  <2> QED
    BY <1>2, <2>1, <2>4, BaseConsola
<1>6. CASE EnviaPrograma(c)
  <2>1. Programa(c) \in Seq(Campos)
    BY ProgramaSon
  <2>2. EnviaConsola(c, Programa(c)) /\ consola[c] = "envia"
    BY <1>6 DEF EnviaPrograma, Programa
  <2>3. UNCHANGED kernelVars /\ UNCHANGED <<espera, tecleado, mostrado>>
    BY <1>6 DEF EnviaPrograma
  <2> QED
    BY <1>2, <2>1, <2>2, <2>3, EnviaConsolaBase
<1>7. CASE RecibeInput(c)
  <2>1. /\ RecibeOperacion(c, {CONSOLE_INPUT}) /\ consola' = [consola EXCEPT ![c] = "teclea"]
        /\ red' = [red EXCEPT ![c].alConsola = Desde(red[c].alConsola, 3)]
        /\ UNCHANGED kernelVars /\ UNCHANGED <<espera, tecleado, mostrado>>
    BY <1>7 DEF RecibeInput
  <2>2. /\ consola[c] = "espera" /\ red[c].alConsola # <<>>
        /\ LargoDe(Head(red[c].alConsola).valor) = 2
    BY <2>1 DEF RecibeOperacion, Operacion, LargoDe, CONSOLE_INPUT, CONSOLE_OUTPUT
  <2> DEFINE x == Desde(red[c].alConsola, 3)
  <2>3. red' = [red EXCEPT ![c] = Canal(red[c].alKernel, x, red[c].extremoK, red[c].extremoC)]
    <3>1. red' = [red EXCEPT ![c].alConsola = x]
      BY <2>1
    <3> HIDE DEF x
    <3> QED
      BY <1>1, <3>1, UnCampo
  <2>4. mostrado' \in [Consolas -> Int]
    BY <1>2, <2>1
  <2>5. x \in Seq(Campos) /\ EnPaquetes(x)
    <3>1. 2 + 1 = 3
      OBVIOUS
    <3> QED
      BY <1>2, <2>2, <3>1, EnPaquetesSigue
  <2>6. /\ consola[c] = "espera" /\ consola' = [consola EXCEPT ![c] = "teclea"]
        /\ UNCHANGED kernelVars /\ UNCHANGED <<espera, tecleado>>
    BY <2>1, <2>2
  <2> HIDE DEF x
  <2> QED
    BY <2>3, <2>4, <2>5, <2>6, RecibeConsolaBase
<1>8. CASE RecibeOutput(c)
  <2>1. /\ RecibeOperacion(c, {CONSOLE_OUTPUT}) /\ consola' = [consola EXCEPT ![c] = "muestra"]
        /\ red' = [red EXCEPT ![c].alConsola = Desde(red[c].alConsola, 5)]
        /\ mostrado' = [mostrado EXCEPT ![c] = red[c].alConsola[4].valor]
        /\ UNCHANGED kernelVars /\ UNCHANGED <<espera, tecleado>>
    BY <1>8 DEF RecibeOutput
  <2>2. /\ consola[c] = "espera" /\ red[c].alConsola # <<>>
        /\ LargoDe(Head(red[c].alConsola).valor) = 4
    BY <2>1 DEF RecibeOperacion, Operacion, LargoDe, CONSOLE_OUTPUT
  <2> DEFINE x == Desde(red[c].alConsola, 5)
  <2>3. red' = [red EXCEPT ![c] = Canal(red[c].alKernel, x, red[c].extremoK, red[c].extremoC)]
    <3>1. red' = [red EXCEPT ![c].alConsola = x]
      BY <2>1
    <3> HIDE DEF x
    <3> QED
      BY <1>1, <3>1, UnCampo
  <2>4. mostrado' \in [Consolas -> Int]
    <3>1. 4 \in Nat /\ 4 <= Len(red[c].alConsola)
      BY <1>2, <2>2, EnPaquetesSigue
    <3>2. 4 \in 1 .. Len(red[c].alConsola)
      <4>1. Len(red[c].alConsola) \in Nat
        BY <1>2, LenProperties
      <4> QED
        BY <3>1, <4>1
    <3>3. red[c].alConsola[4] \in Campos
      BY <1>2, <3>2, ElementOfSeq
    <3>4. red[c].alConsola[4].valor \in Int
      BY <3>3 DEF Campos
    <3> QED
      BY <1>2, <2>1, <3>4
  <2>5. x \in Seq(Campos) /\ EnPaquetes(x)
    <3>1. 4 + 1 = 5
      OBVIOUS
    <3> QED
      BY <1>2, <2>2, <3>1, EnPaquetesSigue
  <2>6. /\ consola[c] = "espera" /\ consola' = [consola EXCEPT ![c] = "muestra"]
        /\ UNCHANGED kernelVars /\ UNCHANGED <<espera, tecleado>>
    BY <2>1, <2>2
  <2> HIDE DEF x
  <2> QED
    BY <2>3, <2>4, <2>5, <2>6, RecibeConsolaBase
<1>9. CASE RecibeExit(c)
  <2>1. /\ RecibeOperacion(c, {EXIT}) /\ TerminaConsola(c, "exito", Desde(red[c].alConsola, 3))
        /\ UNCHANGED kernelVars /\ UNCHANGED <<espera, tecleado, mostrado>>
    BY <1>9 DEF RecibeExit
  <2>2. /\ consola[c] = "espera" /\ red[c].alConsola # <<>>
        /\ LargoDe(Head(red[c].alConsola).valor) = 2
    BY <2>1 DEF RecibeOperacion, Operacion, LargoDe, EXIT, CONSOLE_OUTPUT
  <2>3. Desde(red[c].alConsola, 2 + 1) \in Seq(Campos) /\ EnPaquetes(Desde(red[c].alConsola, 2 + 1))
    BY <1>2, <2>2, EnPaquetesSigue
  <2>4. 2 + 1 = 3
    OBVIOUS
  <2> QED
    BY <2>1, <2>2, <2>3, <2>4, TerminaConsolaBase
<1>10. CASE RecibeError(c)
  <2>1. /\ consola[c] = "espera" /\ TerminaConsola(c, "error", <<>>)
        /\ UNCHANGED kernelVars /\ UNCHANGED <<espera, tecleado, mostrado>>
    BY <1>10 DEF RecibeError, RecibeOperacion
  <2>2. <<>> \in Seq(Campos) /\ EnPaquetes(<<>>)
    BY EmptySeq, EnPaquetesVacia
  <2> QED
    BY <2>1, <2>2, TerminaConsolaBase
<1>11. CASE RecibeReset(c)
  <2> DEFINE k == red[c].alKernel
             a == red[c].alConsola
             ek == red[c].extremoK
             ec == red[c].extremoC
  <2>1. PICK paso \in {"teclea", "muestra", "exito", "error", "muerta"} :
          /\ consola' = [consola EXCEPT ![c] = paso]
          /\ mostrado' = [mostrado EXCEPT ![c] = IF paso = "muestra" THEN Basura ELSE @]
    BY <1>11 DEF RecibeReset
  <2>2. /\ ec = "rst" /\ red' = [red EXCEPT ![c].extremoC = "roto"]
        /\ UNCHANGED kernelVars /\ UNCHANGED <<espera, tecleado>>
    BY <1>11 DEF RecibeReset
  <2>3. caida' = caida /\ caida # "no"
    BY <2>2 DEF kernelVars, Base, ExtremosCoherentes
  <2>5. mostrado' \in [Consolas -> Int]
    <3>1. CASE paso = "muestra"
      BY <1>2, <2>1, <3>1, CodigosEnteros
    <3>2. CASE paso # "muestra"
      BY <1>2, <2>1, <3>2
    <3> QED
      BY <3>1, <3>2
  <2>6. \A d \in Consolas \ {c} : consola'[d] = consola[d]
    BY <2>1
  <2>7. "roto" \in Extremos
    BY DEF Extremos
  <2>8. /\ k \in Seq(Campos) /\ a \in Seq(Campos) /\ ek \in Extremos /\ EnPaquetes(a)
    BY <1>2
  <2>10. red' = [red EXCEPT ![c] = Canal(k, a, ek, "roto")]
    BY <1>1, <2>2, UnCampo
  <2> HIDE DEF k, a, ek, ec
  <2>11. RedBuena'
    BY <2>3, <2>6, <2>7, <2>8, <2>10, RedUna
  <2>12. tecleado' \in [Consolas -> Valores \cup {Basura}]
    BY <1>2, <2>2
  <2>13. UNCHANGED kernelVars /\ UNCHANGED espera
    BY <2>2
  <2> QED
    BY <2>1, <2>5, <2>11, <2>12, <2>13, BaseConsola
<1>12. CASE \E v \in Valores : Teclea(c, v)
  <2>1. PICK v \in Valores : Teclea(c, v)
    BY <1>12
  <2>2. /\ consola[c] = "teclea" /\ tecleado' = [tecleado EXCEPT ![c] = v]
        /\ EnviaConsola(c, ConEntero(CONSOLE_INPUT_RESPUESTA, v))
        /\ UNCHANGED kernelVars /\ UNCHANGED <<espera, mostrado>>
    BY <2>1 DEF Teclea
  <2>3. ConEntero(CONSOLE_INPUT_RESPUESTA, v) \in Seq(Campos)
    BY <1>3, CodigosEnteros, PaquetesTipo DEF Respuestas
  <2>4. tecleado' \in [Consolas -> Valores \cup {Basura}] /\ mostrado' \in [Consolas -> Int]
    BY <1>2, <2>2
  <2> QED
    BY <2>2, <2>3, <2>4, EnviaConsolaBase
<1>13. CASE Muestra(c)
  <2>1. /\ consola[c] = "muestra" /\ EnviaConsola(c, Vacio(CONSOLE_OUTPUT_RESPUESTA))
        /\ UNCHANGED kernelVars /\ UNCHANGED <<espera, tecleado, mostrado>>
    BY <1>13 DEF Muestra
  <2>2. Vacio(CONSOLE_OUTPUT_RESPUESTA) \in Seq(Campos)
    BY CodigosEnteros, PaquetesTipo DEF Respuestas
  <2>3. tecleado' \in [Consolas -> Valores \cup {Basura}] /\ mostrado' \in [Consolas -> Int]
    BY <1>2, <2>1
  <2> QED
    BY <2>1, <2>2, <2>3, EnviaConsolaBase
<1>14. CASE Muere(c)
  <2>1. /\ consola[c] \in {"envia", "espera", "teclea", "muestra"}
        /\ TerminaConsola(c, "muerta", red[c].alConsola)
        /\ UNCHANGED kernelVars /\ UNCHANGED <<espera, tecleado, mostrado>>
    BY <1>14 DEF Muere
  <2> QED
    BY <1>2, <2>1, TerminaConsolaBase
<1> QED
  BY <1>4, <1>5, <1>6, <1>7, <1>8, <1>9, <1>10, <1>11, <1>12, <1>13, <1>14 DEF NextConsola

-----------------------------------------------------------------------------
(* The steps of a thread keep it too. *)

(* Whom a thread serves. *)
LEMMA TomaEs ==
  ASSUME TipoBase, Parametros, NEW h \in Atendidos
  PROVE  /\ h \in Consolas /\ Toma(h) \in Consolas
         /\ ~Perturbada(h) => Toma(h) = h
         /\ \A c \in Consolas \ {h} : ~Perturbada(c) => Toma(h) # c
<1>1. h \in Consolas /\ hilo[h] \notin SinHilo
  BY DEF Atendidos, SinHilo
<1>2. leido[h].socket \in Consolas
  BY <1>1 DEF TipoBase, TipoServidor, Aux, Parametros, LeidoCoherente
<1>3. ~Perturbada(h) => leido[h].socket = h
  BY <1>1 DEF Parametros, LeidoCoherente, Perturbada
<1> QED
  BY <1>1, <1>2, <1>3 DEF Toma, Perturbada

LEMMA ConsumeBase ==
  ASSUME Base, NEW h \in Atendidos, NEW n \in Nat, Consume(h, n), UNCHANGED consola
  PROVE  RedBuena' /\ caida' = caida
<1>1. TipoBase /\ Parametros /\ ExtremosCoherentes /\ \A c \in Consolas : EnPaquetes(red[c].alConsola)
  BY DEF Base
<1> DEFINE c == Toma(h)
           k == Desde(Llega(h), n + 1)
           a == red[c].alConsola
           ek == red[c].extremoK
           ec == red[c].extremoC
<1>2. h \in Consolas /\ c \in Consolas
  BY <1>1, TomaEs
<1>3. red' = [red EXCEPT ![c] = Canal(k, a, ek, ec)] /\ caida' = caida
  BY <1>1, <1>2, ConsumeEs
<1>4. Llega(h) \in Seq(Campos) /\ a \in Seq(Campos) /\ ek \in Extremos /\ ec \in Extremos
  BY <1>1, <1>2, CanalDe DEF Llega
<1>5. k \in Seq(Campos)
  <2>1. n + 1 \in Nat \ {0}
    OBVIOUS
  <2> QED
    BY <1>4, <2>1, DesdeTodo
<1>6. EnPaquetes(a)
  BY <1>1, <1>2
<1>7. caida = "no" => ec = "viva" /\ (ek # "viva" <=> consola'[c] \in {"exito", "error", "muerta"})
  BY <1>1, <1>2 DEF ExtremosCoherentes, Terminada
<1> HIDE DEF c, k, a, ek, ec
<1>8. \A d \in Consolas \ {c} : consola'[d] = consola[d]
  OBVIOUS
<1> QED
  BY <1>2, <1>3, <1>4, <1>5, <1>6, <1>7, <1>8, RedUna

LEMMA EnviaKernelBase ==
  ASSUME Base, NEW c \in Consolas, NEW campos \in Seq(Campos), EnPaquetes(campos),
         EnviaKernel(c, campos), UNCHANGED consola
  PROVE  RedBuena' /\ (caida' = caida \/ caida' = "senal")
<1>1. TipoBase /\ ExtremosCoherentes /\ EnPaquetes(red[c].alConsola)
  BY DEF Base
<1>2. CASE red[c].extremoK = "roto"
  <2>1. CaeKernel("senal")
    BY <1>1, <1>2, EnviaKernelEs
  <2> QED
    BY <2>1, RedCae
<1>3. CASE red[c].extremoK # "roto"
  <2> DEFINE k == red[c].alKernel
             a == IF red[c].extremoK = "viva" THEN red[c].alConsola \o campos ELSE red[c].alConsola
             ek == TrasEnviar(red[c].extremoK)
             ec == red[c].extremoC
  <2>1. red' = [red EXCEPT ![c] = Canal(k, a, ek, ec)] /\ caida' = caida
    BY <1>1, <1>3, EnviaKernelEs
  <2>2. /\ k \in Seq(Campos) /\ red[c].alConsola \in Seq(Campos)
        /\ red[c].extremoK \in Extremos /\ ec \in Extremos
    BY <1>1, CanalDe
  <2>3. ek \in Extremos /\ (ek # "viva" <=> red[c].extremoK # "viva")
    BY <2>2 DEF TrasEnviar, Extremos
  <2>4. a \in Seq(Campos) /\ EnPaquetes(a)
    <3>1. CASE red[c].extremoK = "viva"
      BY <1>1, <2>2, <3>1, ConcatProperties, EnPaquetesJunta
    <3>2. CASE red[c].extremoK # "viva"
      BY <1>1, <2>2, <3>2
    <3> QED
      BY <3>1, <3>2
  <2>5. caida = "no" => ec = "viva" /\ (ek # "viva" <=> consola'[c] \in {"exito", "error", "muerta"})
    BY <1>1, <2>3 DEF ExtremosCoherentes, Terminada
  <2> HIDE DEF k, a, ek, ec
  <2>6. \A d \in Consolas \ {c} : consola'[d] = consola[d]
    OBVIOUS
  <2> QED
    BY <2>1, <2>2, <2>3, <2>4, <2>5, <2>6, RedUna
<1> QED
  BY <1>2, <1>3

(* What the threads send. *)
LEMMA EnviosEnPaquetes ==
  /\ \A op \in {CONSOLE_INPUT, EXIT} : Vacio(op) \in Seq(Campos) /\ EnPaquetes(Vacio(op))
  /\ \A v \in Int : /\ ConEntero(CONSOLE_OUTPUT, v) \in Seq(Campos)
                    /\ EnPaquetes(ConEntero(CONSOLE_OUTPUT, v))
<1>1. ASSUME NEW op \in {CONSOLE_INPUT, EXIT}
      PROVE  Vacio(op) \in Seq(Campos) /\ EnPaquetes(Vacio(op))
  <2>1. op \in Int /\ LargoDe(op) = 2
    BY CodigosEnteros DEF LargoDe, CONSOLE_INPUT, CONSOLE_OUTPUT, EXIT
  <2>2. /\ Vacio(op) \in Seq(Campos) /\ Len(Vacio(op)) = 2 /\ Vacio(op) # <<>>
        /\ Vacio(op)[1] = Entero(op) /\ Entero(op).valor = op
    BY <2>1, PaquetesTipo, EnteroTipo
  <2>3. Len(Vacio(op)) = LargoDe(Vacio(op)[1].valor)
    BY <2>1, <2>2
  <2> QED
    BY <2>2, <2>3, EnPaquetesUno
<1>2. ASSUME NEW v \in Int
      PROVE  ConEntero(CONSOLE_OUTPUT, v) \in Seq(Campos) /\ EnPaquetes(ConEntero(CONSOLE_OUTPUT, v))
  <2> DEFINE p == ConEntero(CONSOLE_OUTPUT, v)
  <2>1. CONSOLE_OUTPUT \in Int /\ LargoDe(CONSOLE_OUTPUT) = 4
    BY CodigosEnteros DEF LargoDe
  <2>2. /\ p \in Seq(Campos) /\ Len(p) = 4 /\ p # <<>>
        /\ p[1] = Entero(CONSOLE_OUTPUT) /\ Entero(CONSOLE_OUTPUT).valor = CONSOLE_OUTPUT
    BY <2>1, PaquetesTipo, EnteroTipo
  <2> HIDE DEF p
  <2>3. Len(p) = LargoDe(p[1].valor)
    BY <2>1, <2>2
  <2>4. EnPaquetes(p)
    BY <2>2, <2>3, EnPaquetesUno
  <2> QED
    BY <2>2, <2>4 DEF p
<1> QED
  BY <1>1, <1>2

PCBs   == [cant : Int, segmentos : Seq(Int), instrucciones : Seq(Int), restante : Int]
Buzones == [op : Codigos \cup {0}, valor : Int]

LEMMA CamposLlegan ==
  ASSUME TipoBase, NEW h \in Consolas, Toma(h) \in Consolas, NEW i \in Nat \ {0}, i <= Len(Llega(h))
  PROVE  Llega(h)[i] \in Campos /\ Llega(h)[i].valor \in Int /\ Llega(h)[i].bytes \in Int
<1>1. Llega(h) \in Seq(Campos)
  BY CanalDe DEF Llega
<1>2. i \in 1 .. Len(Llega(h))
  BY <1>1, LenProperties
<1>3. Llega(h)[i] \in Campos
  BY <1>1, <1>2, ElementOfSeq
<1> QED
  BY <1>3 DEF Campos

LEMMA PCBTipo ==
  ASSUME TipoBase, NEW h \in Consolas, NEW m \in Int, NEW n \in Int
  PROVE  /\ pcb[h].cant \in Int /\ pcb[h].restante \in Int
         /\ pcb[h].segmentos \in Seq(Int) /\ pcb[h].instrucciones \in Seq(Int)
         /\ [pcb EXCEPT ![h].restante = n] \in [Consolas -> PCBs]
         /\ [pcb EXCEPT ![h].cant = m, ![h].restante = n] \in [Consolas -> PCBs]
         /\ [pcb EXCEPT ![h].segmentos = Append(@, m)] \in [Consolas -> PCBs]
         /\ [pcb EXCEPT ![h].instrucciones = Append(@, m), ![h].restante = n] \in [Consolas -> PCBs]
<1>1. pcb \in [Consolas -> PCBs]
  BY DEF TipoBase, PCBs
<1>2. /\ pcb[h].cant \in Int /\ pcb[h].restante \in Int
      /\ pcb[h].segmentos \in Seq(Int) /\ pcb[h].instrucciones \in Seq(Int)
  BY <1>1 DEF PCBs
<1>3. Append(pcb[h].segmentos, m) \in Seq(Int) /\ Append(pcb[h].instrucciones, m) \in Seq(Int)
  BY <1>2, AppendProperties
<1>4. [pcb EXCEPT ![h].restante = n] \in [Consolas -> PCBs]
  BY <1>1 DEF PCBs
<1>5. [pcb EXCEPT ![h].cant = m, ![h].restante = n] \in [Consolas -> PCBs]
  BY <1>1 DEF PCBs
<1>6. [pcb EXCEPT ![h].segmentos = Append(@, m)] \in [Consolas -> PCBs]
  BY <1>1, <1>3 DEF PCBs
<1>7. [pcb EXCEPT ![h].instrucciones = Append(@, m), ![h].restante = n] \in [Consolas -> PCBs]
  BY <1>1, <1>3 DEF PCBs
<1> QED
  BY <1>2, <1>4, <1>5, <1>6, <1>7

LEMMA BuzonTipo ==
  ASSUME TipoBase, NEW h \in Consolas, NEW op \in Codigos \cup {0}, NEW v \in Int
  PROVE  /\ pipeline[h].op \in Codigos \cup {0} /\ pipeline[h].valor \in Int
         /\ [pipeline EXCEPT ![h] = PipelineVacia] \in [Consolas -> Buzones]
         /\ [pipeline EXCEPT ![h].op = op] \in [Consolas -> Buzones]
         /\ [pipeline EXCEPT ![h].op = op, ![h].valor = v] \in [Consolas -> Buzones]
<1>1. pipeline \in [Consolas -> Buzones]
  BY DEF TipoBase, Buzones
<1>2. pipeline[h].op \in Codigos \cup {0} /\ pipeline[h].valor \in Int
  BY <1>1 DEF Buzones
<1>3. [pipeline EXCEPT ![h] = PipelineVacia] \in [Consolas -> Buzones]
  BY <1>1 DEF Buzones, PipelineVacia
<1>4. [pipeline EXCEPT ![h].op = op] \in [Consolas -> Buzones]
  BY <1>1 DEF Buzones
<1>5. [pipeline EXCEPT ![h].op = op, ![h].valor = v] \in [Consolas -> Buzones]
  BY <1>1 DEF Buzones
<1> QED
  BY <1>2, <1>3, <1>4, <1>5

LEMMA RespuestaTipo == \A op : Respuesta(op) \in Respuestas /\ Respuestas \subseteq Codigos
BY DEF Respuesta, Respuestas, Codigos

LEMMA HiloBase ==
  ASSUME Base, caida = "no", NEW h \in Consolas, NextHilo(h)
  PROVE  Base'
<1>1. TipoBase /\ Parametros
  BY DEF Base
<1>2. /\ hilo \in [Consolas -> {"nada", "fallo", "nace", "id", "encabezado", "cantidad", "segmentos",
                                "lineas", "espera", "atiende", "responde", "perdido", "fin"}]
      /\ pcb \in [Consolas -> PCBs] /\ pipeline \in [Consolas -> Buzones]
      /\ pedidos \in [Consolas -> Nat] /\ \A c \in Consolas : pedidos[c] <= MaxPedidos[c]
  BY <1>1 DEF TipoBase, PCBs, Buzones
<1>3. ASSUME UNCHANGED ajenas, hilo[h] \in PasosAtendidos, RedBuena',
             NEW paso \in PasosAtendidos, hilo' = [hilo EXCEPT ![h] = paso],
             caida' \in {"no", "accept", "codigo", "senal", "perdido"},
             pcb' \in [Consolas -> PCBs], pipeline' \in [Consolas -> Buzones],
             pedidos' \in [Consolas -> Nat], \A c \in Consolas : pedidos'[c] <= MaxPedidos[c]
      PROVE  Base'
  BY <1>1, <1>3, AtendidoEs, BaseHilo DEF PCBs, Buzones
<1>4. ASSUME hilo[h] \in PasosAtendidos PROVE h \in Atendidos /\ Toma(h) \in Consolas
  BY <1>1, <1>4, AtendidoEs, TomaEs
<1>5. ASSUME NEW n \in Nat, hilo[h] \in PasosAtendidos, Consume(h, n), UNCHANGED ajenas
      PROVE  RedBuena' /\ caida' = caida
  <2>1. UNCHANGED consola
    BY <1>5 DEF ajenas, consolaVars
  <2> QED
    BY <1>4, <1>5, <2>1, ConsumeBase
<1>6. CASE LeeParametros(h) /\ UNCHANGED <<red, consolaVars, procesoVars>>
  BY <1>6, BaseLee
<1>7. CASE RecibeEncabezado(h)
  <2>1. /\ hilo[h] = "encabezado" /\ Len(Llega(h)) >= 2
        /\ pcb' = [pcb EXCEPT ![h].restante = Llega(h)[2].valor]
        /\ Consume(h, 2) /\ hilo' = [hilo EXCEPT ![h] = "cantidad"]
        /\ UNCHANGED ajenas /\ UNCHANGED <<pipeline, pedidos>>
    BY <1>7 DEF RecibeEncabezado, Pasa
  <2>2. hilo[h] \in PasosAtendidos /\ "cantidad" \in PasosAtendidos
    BY <2>1 DEF PasosAtendidos
  <2>3. Llega(h)[2].valor \in Int
    BY <1>1, <1>4, <2>1, <2>2, CamposLlegan
  <2>4. pcb' \in [Consolas -> PCBs]
    BY <1>1, <2>1, <2>3, PCBTipo
  <2>5. RedBuena' /\ caida' = caida
    BY <1>5, <2>1, <2>2
  <2> QED
    BY <1>2, <1>3, <2>1, <2>2, <2>4, <2>5
<1>8. CASE RecibeCantidad(h)
  <2>1. /\ hilo[h] = "cantidad" /\ Len(Llega(h)) >= 2
        /\ pcb' = [pcb EXCEPT ![h].cant = Recibido(h), ![h].restante = @ - (Recibido(h) + 1) * 8]
        /\ Consume(h, 2) /\ hilo' = [hilo EXCEPT ![h] = "segmentos"]
        /\ UNCHANGED ajenas /\ UNCHANGED <<pipeline, pedidos>>
    BY <1>8 DEF RecibeCantidad, Recibir, Pasa
  <2>2. hilo[h] \in PasosAtendidos /\ "segmentos" \in PasosAtendidos
    BY <2>1 DEF PasosAtendidos
  <2>3. Recibido(h) \in Int
    BY <1>1, <1>4, <2>1, <2>2, CamposLlegan DEF Recibido
  <2> DEFINE n == pcb[h].restante - (Recibido(h) + 1) * 8
  <2>4. n \in Int
    BY <1>2, <2>3 DEF PCBs
  <2>5. pcb' = [pcb EXCEPT ![h].cant = Recibido(h), ![h].restante = n]
    <3>1. [pcb EXCEPT ![h].cant = Recibido(h)][h].restante = pcb[h].restante
      BY <1>2 DEF PCBs
    <3> QED
      BY <2>1, <3>1
  <2> HIDE DEF n
  <2>6. pcb' \in [Consolas -> PCBs]
    BY <1>1, <2>3, <2>4, <2>5, PCBTipo
  <2>7. RedBuena' /\ caida' = caida
    BY <1>5, <2>1, <2>2
  <2> QED
    BY <1>2, <1>3, <2>1, <2>2, <2>6, <2>7
<1>9. CASE RecibeSegmento(h)
  <2>1. /\ hilo[h] = "segmentos" /\ Len(Llega(h)) >= 2
        /\ pcb' = [pcb EXCEPT ![h].segmentos = Append(@, Recibido(h))]
        /\ Consume(h, 2) /\ UNCHANGED ajenas /\ UNCHANGED <<hilo, pipeline, pedidos>>
    BY <1>9 DEF RecibeSegmento, Recibir
  <2>2. /\ hilo[h] \in PasosAtendidos /\ "segmentos" \in PasosAtendidos
        /\ hilo' = [hilo EXCEPT ![h] = "segmentos"]
    BY <1>2, <2>1 DEF PasosAtendidos
  <2>3. Recibido(h) \in Int
    BY <1>1, <1>4, <2>1, <2>2, CamposLlegan DEF Recibido
  <2>4. pcb' \in [Consolas -> PCBs]
    BY <1>1, <2>1, <2>3, PCBTipo
  <2>5. RedBuena' /\ caida' = caida
    BY <1>5, <2>1, <2>2
  <2> QED
    BY <1>2, <1>3, <2>1, <2>2, <2>4, <2>5
<1>10. CASE RecibeLinea(h)
  <2>1. /\ hilo[h] = "lineas" /\ Len(Llega(h)) >= 2
        /\ pcb' = [pcb EXCEPT ![h].instrucciones = Append(@, Recibido(h)),
                              ![h].restante = @ - (Recibido(h) + 1 + 4)]
        /\ Consume(h, 2) /\ UNCHANGED ajenas /\ UNCHANGED <<hilo, pipeline, pedidos>>
    BY <1>10 DEF RecibeLinea, Recibir
  <2>2. /\ hilo[h] \in PasosAtendidos /\ "lineas" \in PasosAtendidos
        /\ hilo' = [hilo EXCEPT ![h] = "lineas"]
    BY <1>2, <2>1 DEF PasosAtendidos
  <2>3. Recibido(h) \in Int
    BY <1>1, <1>4, <2>1, <2>2, CamposLlegan DEF Recibido
  <2> DEFINE n == pcb[h].restante - (Recibido(h) + 1 + 4)
  <2>4. n \in Int
    BY <1>2, <2>3 DEF PCBs
  <2>5. pcb' = [pcb EXCEPT ![h].instrucciones = Append(@, Recibido(h)), ![h].restante = n]
    <3>1. [pcb EXCEPT ![h].instrucciones = Append(@, Recibido(h))][h].restante = pcb[h].restante
      BY <1>2 DEF PCBs
    <3> QED
      BY <2>1, <3>1
  <2> HIDE DEF n
  <2>6. pcb' \in [Consolas -> PCBs]
    BY <1>1, <2>3, <2>4, <2>5, PCBTipo
  <2>7. RedBuena' /\ caida' = caida
    BY <1>5, <2>1, <2>2
  <2> QED
    BY <1>2, <1>3, <2>1, <2>2, <2>6, <2>7
<1>11. CASE Completa(h)
  <2>1. PICK paso \in {"lineas", "espera"} : hilo' = [hilo EXCEPT ![h] = paso]
    BY <1>11 DEF Completa, Pasa
  <2>2. /\ hilo[h] \in {"segmentos", "lineas"} /\ pipeline' = [pipeline EXCEPT ![h] = PipelineVacia]
        /\ UNCHANGED ajenas /\ UNCHANGED <<pcb, pedidos, red, caida>>
    BY <1>11 DEF Completa
  <2>3. hilo[h] \in PasosAtendidos /\ paso \in PasosAtendidos
    BY <2>1, <2>2 DEF PasosAtendidos
  <2>4. pipeline' \in [Consolas -> Buzones]
    BY <1>2, <2>2 DEF Buzones, PipelineVacia
  <2>5. RedBuena'
    BY <2>2, RedIgual DEF ajenas, consolaVars
  <2> QED
    BY <1>2, <1>3, <2>1, <2>2, <2>3, <2>4, <2>5
<1>12. CASE AtiendeIO(h)
  <2> DEFINE campos == IF pipeline[h].op = CONSOLE_INPUT THEN Vacio(CONSOLE_INPUT)
                       ELSE ConEntero(CONSOLE_OUTPUT, pipeline[h].valor)
  <2>1. /\ hilo[h] = "atiende" /\ EnviaKernel(Toma(h), campos)
        /\ hilo' = [hilo EXCEPT ![h] = "responde"]
        /\ UNCHANGED ajenas /\ UNCHANGED <<pcb, pipeline, pedidos>>
    BY <1>12 DEF AtiendeIO, Pasa, procesoVars
  <2>2. hilo[h] \in PasosAtendidos /\ "responde" \in PasosAtendidos
    BY <2>1 DEF PasosAtendidos
  <2>3. pipeline[h].valor \in Int
    BY <1>2 DEF Buzones
  <2>4. campos \in Seq(Campos) /\ EnPaquetes(campos)
    BY <2>3, EnviosEnPaquetes
  <2> HIDE DEF campos
  <2>5. RedBuena' /\ (caida' = caida \/ caida' = "senal")
    BY <1>4, <2>1, <2>2, <2>4, EnviaKernelBase DEF ajenas, consolaVars
  <2> QED
    BY <1>2, <1>3, <2>1, <2>2, <2>5
<1>13. CASE AtiendeExit(h)
  <2>1. /\ hilo[h] = "atiende" /\ EnviaKernel(Toma(h), Vacio(EXIT))
        /\ hilo' = [hilo EXCEPT ![h] = "fin"]
        /\ pcb' = [pcb EXCEPT ![h] = SinPCB] /\ pipeline' = [pipeline EXCEPT ![h] = PipelineVacia]
        /\ pedidos' = [pedidos EXCEPT ![h] = 0]
        /\ UNCHANGED ajenas
    BY <1>13 DEF AtiendeExit, LiberaPCB, Pasa
  <2>2. hilo[h] \in PasosAtendidos /\ "fin" \in PasosAtendidos
    BY <2>1 DEF PasosAtendidos
  <2>3. pcb' \in [Consolas -> PCBs]
    <3>1. SinPCB \in PCBs
      <4>1. <<>> \in Seq(Int)
        OBVIOUS
      <4> QED
        BY <4>1 DEF SinPCB, PCBs
    <3> QED
      BY <1>2, <2>1, <3>1
  <2>4. pipeline' \in [Consolas -> Buzones]
    BY <1>2, <2>1 DEF Buzones, PipelineVacia
  <2>5. pedidos' \in [Consolas -> Nat] /\ \A c \in Consolas : pedidos'[c] <= MaxPedidos[c]
    <3>1. \A c \in Consolas : MaxPedidos[c] \in Nat
      BY SupuestosDialogo DEF SupuestosDialogo
    <3> QED
      BY <1>2, <2>1, <3>1
  <2>6. RedBuena' /\ (caida' = caida \/ caida' = "senal")
    BY <1>4, <2>1, <2>2, EnviosEnPaquetes, EnviaKernelBase DEF ajenas, consolaVars
  <2> QED
    BY <1>3, <2>1, <2>2, <2>3, <2>4, <2>5, <2>6
<1>14. CASE RecibeTecla(h)
  <2>1. /\ hilo[h] = "responde" /\ Len(Llega(h)) >= 4
        /\ pipeline' = [pipeline EXCEPT ![h].op = Respuesta(pipeline[h].op),
                                        ![h].valor = Llega(h)[4].valor]
        /\ Consume(h, 4) /\ hilo' = [hilo EXCEPT ![h] = "espera"]
        /\ UNCHANGED ajenas /\ UNCHANGED <<pcb, pedidos>>
    BY <1>14 DEF RecibeTecla, Responde, Pasa
  <2>2. hilo[h] \in PasosAtendidos /\ "espera" \in PasosAtendidos
    BY <2>1 DEF PasosAtendidos
  <2>3. Llega(h)[4].valor \in Int
    BY <1>1, <1>4, <2>1, <2>2, CamposLlegan
  <2>4. pipeline' \in [Consolas -> Buzones]
    BY <1>1, <2>1, <2>3, BuzonTipo, RespuestaTipo
  <2>5. RedBuena' /\ caida' = caida
    BY <1>5, <2>1, <2>2
  <2> QED
    BY <1>2, <1>3, <2>1, <2>2, <2>4, <2>5
<1>15. CASE RecibeConfirmacion(h)
  <2>1. /\ hilo[h] = "responde"
        /\ pipeline' = [pipeline EXCEPT ![h].op = Respuesta(pipeline[h].op)]
        /\ Consume(h, 2) /\ hilo' = [hilo EXCEPT ![h] = "espera"]
        /\ UNCHANGED ajenas /\ UNCHANGED <<pcb, pedidos>>
    BY <1>15 DEF RecibeConfirmacion, Responde, Pasa
  <2>2. hilo[h] \in PasosAtendidos /\ "espera" \in PasosAtendidos
    BY <2>1 DEF PasosAtendidos
  <2>3. pipeline' \in [Consolas -> Buzones]
    <3>1. Respuesta(pipeline[h].op) \in Codigos \cup {0} /\ 0 \in Int
      BY RespuestaTipo
    <3> QED
      BY <1>1, <2>1, <3>1, BuzonTipo
  <2>4. RedBuena' /\ caida' = caida
    BY <1>5, <2>1, <2>2
  <2> QED
    BY <1>2, <1>3, <2>1, <2>2, <2>3, <2>4
<1>16. CASE RecibeInesperado(h)
  <2>1. /\ hilo[h] \in {"encabezado", "responde"} /\ CaeKernel("codigo")
        /\ hilo' = [hilo EXCEPT ![h] = "fin"]
        /\ UNCHANGED ajenas /\ UNCHANGED <<pcb, pipeline, pedidos>>
    BY <1>16 DEF RecibeInesperado, Pasa, procesoVars
  <2>2. hilo[h] \in PasosAtendidos /\ "fin" \in PasosAtendidos
    BY <2>1 DEF PasosAtendidos
  <2>3. RedBuena' /\ caida' = "codigo"
    BY <2>1, RedCae
  <2> QED
    BY <1>2, <1>3, <2>1, <2>2, <2>3
<1>17. CASE RecibeRespuestaBasura(h)
  <2>1. /\ hilo[h] = "responde" /\ Extremo(h) = "rst"
        /\ red' = [red EXCEPT ![Toma(h)].extremoK = "roto"]
        /\ pipeline' = [pipeline EXCEPT ![h].op = Respuesta(pipeline[h].op),
                          ![h].valor = IF pipeline[h].op = CONSOLE_INPUT THEN Basura ELSE @]
        /\ hilo' = [hilo EXCEPT ![h] = "espera"]
        /\ UNCHANGED ajenas /\ UNCHANGED <<pcb, pedidos, caida>>
    BY <1>17 DEF RecibeRespuestaBasura, Pasa
  <2>2. hilo[h] \in PasosAtendidos /\ "espera" \in PasosAtendidos
    BY <2>1 DEF PasosAtendidos
  <2>3. pipeline' \in [Consolas -> Buzones]
    <3> DEFINE v == IF pipeline[h].op = CONSOLE_INPUT THEN Basura ELSE pipeline[h].valor
    <3>1. v \in Int
      BY <1>1, BuzonTipo, CodigosEnteros
    <3>2. [pipeline EXCEPT ![h].op = Respuesta(pipeline[h].op)][h].valor = pipeline[h].valor
      BY <1>2 DEF Buzones
    <3>3. pipeline' = [pipeline EXCEPT ![h].op = Respuesta(pipeline[h].op), ![h].valor = v]
      BY <2>1, <3>2
    <3> HIDE DEF v
    <3> QED
      BY <1>1, <3>1, <3>3, BuzonTipo, RespuestaTipo
  <2>4. RedBuena' /\ caida' = caida
    <3> DEFINE c == Toma(h)
               k == red[c].alKernel
               a == red[c].alConsola
               ec == red[c].extremoC
    <3>1. c \in Consolas
      BY <1>4, <2>2
    <3>2. k \in Seq(Campos) /\ a \in Seq(Campos) /\ ec \in Extremos /\ EnPaquetes(a)
      BY <1>1, <3>1, CanalDe DEF Base
    <3>3. red' = [red EXCEPT ![c] = Canal(k, a, "roto", ec)]
      BY <1>1, <2>1, <3>1, UnCampo
    <3>4. UNCHANGED <<consola, caida>>
      BY <2>1 DEF ajenas, consolaVars
    <3>5. caida = "no" => ec = "viva" /\ ("roto" # "viva" <=> consola'[c] \in {"exito", "error", "muerta"})
      BY <2>1, <3>1, <3>4 DEF Base, ExtremosCoherentes, Terminada, Extremo
    <3>6. "roto" \in Extremos
      BY DEF Extremos
    <3> HIDE DEF c, k, a, ec
    <3>7. \A d \in Consolas \ {c} : consola'[d] = consola[d]
      BY <3>4
    <3> QED
      BY <3>1, <3>2, <3>3, <3>4, <3>5, <3>6, <3>7, RedUna
  <2> QED
    BY <1>2, <1>3, <2>1, <2>2, <2>3, <2>4
<1>18. CASE SePierde(h)
  <2>1. /\ hilo[h] \in {"encabezado", "cantidad", "segmentos", "lineas"}
        /\ hilo' = [hilo EXCEPT ![h] = "perdido"]
        /\ UNCHANGED ajenas /\ UNCHANGED <<pcb, pipeline, pedidos, red, caida>>
    BY <1>18 DEF SePierde, Falta, Pasa, procesoVars
  <2>2. hilo[h] \in PasosAtendidos /\ "perdido" \in PasosAtendidos
    BY <2>1 DEF PasosAtendidos
  <2>3. RedBuena'
    BY <2>1, RedIgual DEF ajenas, consolaVars
  <2> QED
    BY <1>2, <1>3, <2>1, <2>2, <2>3
<1>19. CASE CaePerdido(h)
  <2>1. /\ hilo[h] = "perdido" /\ CaeKernel("perdido")
        /\ hilo' = [hilo EXCEPT ![h] = "fin"]
        /\ UNCHANGED ajenas /\ UNCHANGED <<pcb, pipeline, pedidos>>
    BY <1>19 DEF CaePerdido, Pasa, procesoVars
  <2>2. hilo[h] \in PasosAtendidos /\ "fin" \in PasosAtendidos
    BY <2>1 DEF PasosAtendidos
  <2>3. RedBuena' /\ caida' = "perdido"
    BY <2>1, RedCae
  <2> QED
    BY <1>2, <1>3, <2>1, <2>2, <2>3
<1>20. CASE RecibeRespuestaNula(h)
  <2>1. /\ hilo[h] = "responde" /\ CaeKernel("senal")
        /\ hilo' = [hilo EXCEPT ![h] = "fin"]
        /\ UNCHANGED ajenas /\ UNCHANGED <<pcb, pipeline, pedidos>>
    BY <1>20 DEF RecibeRespuestaNula, Pasa, procesoVars
  <2>2. hilo[h] \in PasosAtendidos /\ "fin" \in PasosAtendidos
    BY <2>1 DEF PasosAtendidos
  <2>3. RedBuena' /\ caida' = "senal"
    BY <2>1, RedCae
  <2> QED
    BY <1>2, <1>3, <2>1, <2>2, <2>3
<1> QED
  BY <1>6, <1>7, <1>8, <1>9, <1>10, <1>11, <1>12, <1>13, <1>14, <1>15, <1>16, <1>17, <1>18, <1>19,
     <1>20 DEF NextHilo

LEMMA ProcesoBase ==
  ASSUME Base, caida = "no", NEW h \in Consolas, NEW op \in {CONSOLE_INPUT, CONSOLE_OUTPUT, EXIT},
         NEW v \in Int, Pide(h, op, v)
  PROVE  Base'
<1>1. TipoBase /\ pedidos \in [Consolas -> Nat] /\ \A c \in Consolas : pedidos[c] <= MaxPedidos[c]
  BY DEF Base, TipoBase
<1>2. /\ hilo[h] = "espera" /\ hilo' = [hilo EXCEPT ![h] = "atiende"]
      /\ op # EXIT => pedidos[h] < MaxPedidos[h]
      /\ pipeline' = [pipeline EXCEPT ![h].op = op, ![h].valor = IF op = CONSOLE_OUTPUT THEN v ELSE @]
      /\ pedidos' = [pedidos EXCEPT ![h] = IF op = EXIT THEN @ ELSE @ + 1]
      /\ UNCHANGED ajenas /\ UNCHANGED <<pcb, red, caida>>
  BY DEF Pide, Pasa
<1>3. hilo[h] \in PasosAtendidos /\ "atiende" \in PasosAtendidos
  BY <1>2 DEF PasosAtendidos
<1>4. pipeline' \in [Consolas -> Buzones]
  <2>1. pipeline \in [Consolas -> Buzones]
    BY <1>1 DEF TipoBase, Buzones
  <2> DEFINE w == IF op = CONSOLE_OUTPUT THEN v ELSE pipeline[h].valor
  <2>2. w \in Int
    BY <2>1 DEF Buzones
  <2>3. [pipeline EXCEPT ![h].op = op][h].valor = pipeline[h].valor
    BY <2>1 DEF Buzones
  <2>4. pipeline' = [pipeline EXCEPT ![h].op = op, ![h].valor = w]
    BY <1>2, <2>3
  <2>5. op \in Codigos \cup {0}
    BY DEF Codigos
  <2> HIDE DEF w
  <2> QED
    BY <1>1, <2>2, <2>4, <2>5, BuzonTipo
<1>5. pedidos' \in [Consolas -> Nat] /\ \A c \in Consolas : pedidos'[c] <= MaxPedidos[c]
  <2>1. MaxPedidos[h] \in Nat
    BY SupuestosDialogo DEF SupuestosDialogo
  <2>2. CASE op = EXIT
    BY <1>1, <1>2, <2>2
  <2>3. CASE op # EXIT
    <3>1. pedidos' = [pedidos EXCEPT ![h] = pedidos[h] + 1] /\ pedidos[h] + 1 <= MaxPedidos[h]
      BY <1>1, <1>2, <2>1, <2>3
    <3>2. \A c \in Consolas : pedidos'[c] = IF c = h THEN pedidos[h] + 1 ELSE pedidos[c]
      BY <1>1, <3>1
    <3> QED
      BY <1>1, <3>1, <3>2
  <2> QED
    BY <2>2, <2>3
<1>6. RedBuena'
  BY <1>2, RedIgual DEF ajenas, consolaVars
<1>7. h \in Atendidos /\ pcb' \in [Consolas -> PCBs] /\ caida' \in {"no", "accept", "codigo", "senal", "perdido"}
  BY <1>1, <1>2, <1>3, AtendidoEs DEF TipoBase, PCBs
<1> QED
  BY <1>2, <1>3, <1>4, <1>5, <1>6, <1>7, BaseHilo DEF PCBs, Buzones

LEMMA AceptaFallaBase ==
  ASSUME Base, caida = "no", AceptaFalla
  PROVE  Base'
<1>1. TipoBase /\ Parametros
  BY DEF Base
<1>2. /\ CaeKernel("accept") /\ UNCHANGED <<espera, servidorVars, leido>>
      /\ UNCHANGED <<consola, tecleado, mostrado, hilo, pcb, pipeline, pedidos>>
  BY DEF AceptaFalla, ajenas, consolaVars, procesoVars
<1>3. RedBuena' /\ caida' = "accept"
  BY <1>2, RedCae
<1>4. Parametros'
  BY <1>1, <1>2, ParametrosIgual
<1>5. TipoServidor'
  BY <1>1, <1>2 DEF TipoBase, TipoServidor, servidorVars
<1> QED
  BY <1>1, <1>2, <1>3, <1>4, <1>5, BaseDe DEF TipoBase

(* A cancellation leaves everything else as it was. *)
LEMMA PasoDeDialogo == [Next]_vars => [PasoDialogo]_estadoVars
BY DEF Next, CancelaHilo, vars

LEMMA BaseIgual ==
  ASSUME Base, UNCHANGED estadoVars
  PROVE  Base'
<1>1. TipoBase /\ Parametros
  BY DEF Base
<1>2. /\ UNCHANGED <<espera, servidorVars, leido>> /\ UNCHANGED <<hilo, caida, red>>
      /\ UNCHANGED <<consola, tecleado, mostrado, pcb, pipeline, pedidos>>
  BY DEF estadoVars, consolaVars, procesoVars
<1>3. RedBuena'
  BY <1>2, RedIgual
<1>4. Parametros'
  BY <1>1, <1>2, ParametrosIgual
<1>5. TipoServidor'
  BY <1>1, <1>2 DEF TipoBase, TipoServidor, servidorVars
<1> QED
  BY <1>1, <1>2, <1>3, <1>4, <1>5, BaseDe DEF TipoBase

LEMMA PideAlguno ==
  ASSUME NEW h \in Consolas, NextProceso(h)
  PROVE  /\ caida = "no"
         /\ \E op \in {CONSOLE_INPUT, CONSOLE_OUTPUT, EXIT}, v \in Int : Pide(h, op, v)
<1>1. Salidas \subseteq Int
  BY SupuestosDialogo DEF SupuestosDialogo
<1> QED
  BY <1>1 DEF NextProceso

LEMMA BasePaso == Base /\ [PasoDialogo]_estadoVars => Base'
<1> SUFFICES ASSUME Base, [PasoDialogo]_estadoVars PROVE Base'
  OBVIOUS
<1>1. CASE NextServidor
  BY <1>1, BaseServidor DEF NextServidor
<1>2. ASSUME NEW c \in Consolas, NextConsola(c) \/ Muere(c) PROVE Base'
  BY <1>2, ConsolaBase
<1>3. ASSUME NEW c \in Consolas, NextHilo(c) PROVE Base'
  <2>1. caida = "no"
    BY <1>3 DEF NextHilo
  <2> QED
    BY <1>3, <2>1, HiloBase
<1>4. ASSUME NEW c \in Consolas, NextProceso(c) PROVE Base'
  BY <1>4, PideAlguno, ProcesoBase
<1>5. CASE NextFallas
  BY <1>2, <1>5, BaseServidor, AceptaFallaBase DEF NextFallas
<1>6. CASE UNCHANGED estadoVars
  BY <1>6, BaseIgual
<1> QED
  BY <1>1, <1>2, <1>3, <1>4, <1>5, <1>6 DEF PasoDialogo

(* Whatever the consoles, their programs and how each connection ends, no  *)
(* field is read for another of another kind, and no queue, record or      *)
(* mailbox leaves its type.                                                *)
THEOREM TipoCorrecto == Spec => []TypeOK
<1> DEFINE C == cancelados \subseteq Cancelables
<1>1. Init => Base /\ C
  BY BaseInicial DEF Init
<1>2. Base /\ C /\ [Next]_vars => (Base /\ C)'
  <2>1. C /\ [Next]_vars => C'
    BY DEF Next, CancelaHilo, vars
  <2> QED
    BY <2>1, BasePaso, PasoDeDialogo
<1>3. Base /\ C => TypeOK
  BY DEF Base, TipoBase, TypeOK
<1> QED
  BY <1>1, <1>2, <1>3, PTL DEF Spec

(* However the loop that accepts and the threads it creates take turns on  *)
(* the two shared parameters, only a thread that was overtaken serves the  *)
(* console of another, and never that of an earlier one.                   *)
THEOREM CadaUnoCorrecto == Spec => []CadaUnoLoSuyo
<1>1. Base => CadaUnoLoSuyo
  BY SuyoDeParametros DEF Base
<1> QED
  BY <1>1, BaseInicial, BasePaso, PasoDeDialogo, PTL DEF Spec

-----------------------------------------------------------------------------
(* The bytes of the first packet that the thread has not taken. *)

LEMMA BytesDelCampo ==
  ASSUME NEW c \in Consolas, NEW i \in 1 .. Len(CamposIniciales(c))
  PROVE  /\ CamposIniciales(c)[i].bytes \in Nat
         /\ 4 + CamposIniciales(c)[i].bytes \in Nat \ {0}
<1> DEFINE campos == CamposIniciales(c)
           ns == Len(Segmentos[c])
           nl == Len(Lineas[c])
<1>1. /\ Len(campos) = 1 + ns + nl /\ ns \in Nat /\ nl \in Nat
      /\ campos[1] = Entero(ns)
      /\ \A j \in 1 .. ns : Segmentos[c][j] \in Int /\ campos[1 + j] = Entero(Segmentos[c][j])
      /\ \A j \in 1 .. nl : Lineas[c][j] \in Nat /\ campos[1 + ns + j] = Texto(Lineas[c][j])
  BY CamposInicialesSon
<1> HIDE DEF campos, ns, nl
<1>2. CASE i = 1
  BY <1>1, <1>2, EnteroTipo DEF campos
<1>3. CASE i \in 2 .. (1 + ns)
  <2>1. i - 1 \in 1 .. ns /\ 1 + (i - 1) = i
    BY <1>1, <1>3
  <2>2. campos[i] = Entero(Segmentos[c][i - 1]) /\ Segmentos[c][i - 1] \in Int
    BY <1>1, <2>1
  <2> QED
    BY <2>2, EnteroTipo DEF campos
<1>4. CASE i \in (2 + ns) .. Len(campos)
  <2>1. i - 1 - ns \in 1 .. nl /\ 1 + ns + (i - 1 - ns) = i
    BY <1>1, <1>4
  <2>2. campos[i] = Texto(Lineas[c][i - 1 - ns]) /\ Lineas[c][i - 1 - ns] \in Nat
    BY <1>1, <2>1
  <2>3. campos[i].bytes = Lineas[c][i - 1 - ns] + 1
    BY <2>2 DEF Texto
  <2> QED
    BY <2>2, <2>3, SMTT(30) DEF campos
<1>5. i \in Int /\ (i = 1 \/ i \in 2 .. (1 + ns) \/ i \in (2 + ns) .. Len(campos))
  BY <1>1 DEF campos
<1> QED
  BY <1>2, <1>3, <1>4, <1>5

(* Fields of w bytes, with those of their sizes, one after the other.      *)
LEMMA RestoTramo ==
  ASSUME NEW c \in Consolas, NEW n \in Nat, NEW m \in Nat, n <= m, m <= Len(CamposIniciales(c)),
         NEW w \in Nat, \A i \in (n + 1) .. m : 4 + CamposIniciales(c)[i].bytes = w
  PROVE  Resto(c, n) \in Nat /\ Resto(c, m) \in Nat /\ Resto(c, n) = Resto(c, m) + (m - n) * w
<1> DEFINE campos == CamposIniciales(c)
           B == BytesDe(campos)
           A(k) == {b \in B : b[1] > k}
           P == ((n + 1) .. m) \X (1 .. w)
<1>1. campos \in Seq(Campos)
  BY CamposInicialesSon
<1>2. Len(campos) \in Nat /\ DOMAIN campos = 1 .. Len(campos) /\ IsFiniteSet(B)
  BY <1>1, LenProperties, BytesFinitos
<1>3. IsFiniteSet(A(m)) /\ IsFiniteSet(A(n)) /\ Cardinality(A(m)) \in Nat /\ Cardinality(A(n)) \in Nat
  <2> HIDE DEF B
  <2>1. A(m) \in SUBSET B /\ A(n) \in SUBSET B
    OBVIOUS
  <2> QED
    BY <1>2, <2>1, FS_Subset, FS_CardinalityType
<1>4. \A b : b \in B <=> \E i \in 1 .. Len(campos) : b \in {i} \X (1 .. (4 + campos[i].bytes))
  <2> HIDE DEF campos
  <2> QED
    BY <1>2 DEF BytesDe
<1> HIDE DEF B
<1>5. A(n) = A(m) \cup P
  <2>1. ASSUME NEW b \in A(n) PROVE b \in A(m) \cup P
    <3>1. PICK i \in 1 .. Len(campos) : b \in {i} \X (1 .. (4 + campos[i].bytes))
      BY <1>4
    <3>2. b[1] = i /\ i > n
      BY <3>1
    <3>3. CASE i > m
      BY <3>2, <3>3
    <3>4. CASE i <= m
      <4>1. i \in (n + 1) .. m
        BY <3>2, <3>4
      <4>2. 4 + campos[i].bytes = w
        BY <4>1
      <4> QED
        BY <3>1, <4>1, <4>2
    <3> QED
      BY <3>3, <3>4
  <2>2. ASSUME NEW b \in A(m) PROVE b \in A(n)
    <3>1. PICK i \in 1 .. Len(campos) : b \in {i} \X (1 .. (4 + campos[i].bytes))
      BY <1>4
    <3>2. b[1] = i
      BY <3>1
    <3> QED
      BY <3>2
  <2>3. ASSUME NEW b \in P PROVE b \in A(n)
    <3>1. PICK i \in (n + 1) .. m, j \in 1 .. w : b = <<i, j>>
      OBVIOUS
    <3>2. i \in 1 .. Len(campos) /\ i > n /\ 4 + campos[i].bytes = w
      BY <1>2, <3>1
    <3>3. b \in {i} \X (1 .. (4 + campos[i].bytes)) /\ b[1] = i
      BY <3>1, <3>2
    <3>4. b \in B
      BY <1>4, <3>2, <3>3
    <3> QED
      BY <3>2, <3>3, <3>4
  <2> HIDE DEF A, P
  <2> QED
    BY <2>1, <2>2, <2>3
<1>6. A(m) \cap P = {}
  OBVIOUS
<1>7. IsFiniteSet(P) /\ Cardinality(P) = (m - n) * w
  <2> DEFINE I == (n + 1) .. m
             J == 1 .. w
  <2>1. n + 1 \in Int /\ m \in Int /\ 1 \in Int /\ w \in Int
    OBVIOUS
  <2>2. IsFiniteSet(I) /\ Cardinality(I) = IF n + 1 > m THEN 0 ELSE m - (n + 1) + 1
    BY <2>1, FS_Interval
  <2>3. IsFiniteSet(J) /\ Cardinality(J) = IF 1 > w THEN 0 ELSE w - 1 + 1
    BY <2>1, FS_Interval
  <2>4. Cardinality(I) = m - n
    BY <2>2
  <2>5. Cardinality(J) = w
    BY <2>3
  <2> HIDE DEF I, J
  <2>6. IsFiniteSet(I \X J) /\ Cardinality(I \X J) = Cardinality(I) * Cardinality(J)
    BY <2>2, <2>3, FS_Product
  <2> QED
    BY <2>4, <2>5, <2>6 DEF I, J
<1> DEFINE p == (m - n) * w
<1>8. p \in Nat
  <2>1. m - n \in Nat
    OBVIOUS
  <2> QED
    BY <2>1
<1> HIDE DEF A, P, p
<1>9. Cardinality(A(m) \cup P) = Cardinality(A(m)) + Cardinality(P) - Cardinality(A(m) \cap P)
  BY <1>3, <1>7, FS_Union
<1>10. Cardinality(A(m) \cap P) = 0
  BY <1>6, FS_EmptySet
<1>11. Cardinality(A(n)) = Cardinality(A(m)) + p
  BY <1>3, <1>5, <1>7, <1>8, <1>9, <1>10 DEF p
<1> QED
  BY <1>3, <1>11 DEF A, B, campos, p, Resto

(* One field; the segments; and nothing else.                              *)
LEMMA RestoCampo ==
  ASSUME NEW c \in Consolas, NEW n \in Nat, n < Len(CamposIniciales(c))
  PROVE  /\ Resto(c, n) \in Nat \ {0} /\ Resto(c, n + 1) \in Nat
         /\ Resto(c, n) = Resto(c, n + 1) + (4 + CamposIniciales(c)[n + 1].bytes)
<1> DEFINE w == 4 + CamposIniciales(c)[n + 1].bytes
<1>1. n + 1 \in Nat /\ Len(CamposIniciales(c)) \in Nat
  BY CamposInicialesSon, LenProperties
<1>2. n + 1 \in 1 .. Len(CamposIniciales(c)) /\ n <= n + 1 /\ n + 1 <= Len(CamposIniciales(c))
  BY <1>1
<1>3. w \in Nat \ {0}
  BY <1>2, BytesDelCampo
<1>4. \A i \in (n + 1) .. (n + 1) : 4 + CamposIniciales(c)[i].bytes = w
  OBVIOUS
<1> HIDE DEF w
<1>5. /\ Resto(c, n) \in Nat /\ Resto(c, n + 1) \in Nat
      /\ Resto(c, n) = Resto(c, n + 1) + ((n + 1) - n) * w
  BY <1>1, <1>2, <1>3, <1>4, RestoTramo
<1>6. (n + 1) - n = 1 /\ 1 * w = w
  BY <1>3
<1> QED
  BY <1>3, <1>5, <1>6, SMTT(30) DEF w

LEMMA RestoSegmentos ==
  ASSUME NEW c \in Consolas
  PROVE  /\ Resto(c, 0) \in Nat /\ Resto(c, 1 + Len(Segmentos[c])) \in Nat
         /\ Resto(c, 0) - (Len(Segmentos[c]) + 1) * 8 = Resto(c, 1 + Len(Segmentos[c]))
<1> DEFINE campos == CamposIniciales(c)
           ns == Len(Segmentos[c])
           nl == Len(Lineas[c])
<1>1. /\ Len(campos) = 1 + ns + nl /\ ns \in Nat /\ nl \in Nat
      /\ campos[1] = Entero(ns)
      /\ \A j \in 1 .. ns : Segmentos[c][j] \in Int /\ campos[1 + j] = Entero(Segmentos[c][j])
  BY CamposInicialesSon
<1> HIDE DEF campos, ns, nl
<1>2. ASSUME NEW i \in (0 + 1) .. (1 + ns) PROVE 4 + campos[i].bytes = 8
  <2>1. CASE i = 1
    <3>1. campos[i] = Entero(ns) /\ ns \in Int
      BY <1>1, <2>1
    <3> QED
      BY <3>1, EnteroTipo
  <2>2. CASE i # 1
    <3>1. i - 1 \in 1 .. ns /\ 1 + (i - 1) = i
      BY <1>1, <2>2
    <3>2. campos[i] = Entero(Segmentos[c][i - 1]) /\ Segmentos[c][i - 1] \in Int
      BY <1>1, <3>1
    <3> QED
      BY <3>2, EnteroTipo
  <2> QED
    BY <2>1, <2>2
<1>3. 0 <= 1 + ns /\ 1 + ns \in Nat /\ 1 + ns <= Len(campos) /\ 8 \in Nat /\ 0 \in Nat
  BY <1>1
<1>4. /\ Resto(c, 0) \in Nat /\ Resto(c, 1 + ns) \in Nat
      /\ Resto(c, 0) = Resto(c, 1 + ns) + ((1 + ns) - 0) * 8
  BY <1>2, <1>3, RestoTramo DEF campos
<1>5. Resto(c, 0) - (ns + 1) * 8 = Resto(c, 1 + ns)
  BY <1>1, <1>4
<1> QED
  BY <1>4, <1>5 DEF ns

-----------------------------------------------------------------------------
(* A connection that is not disturbed: who else may touch it. *)

LEMMA LeidoQueda ==
  ASSUME Base, [PasoDialogo]_estadoVars
  PROVE  /\ pisados \subseteq pisados'
         /\ \A d \in Consolas : leido[d].socket # Nulo => leido'[d].socket = leido[d].socket
<1>1. TipoBase /\ Parametros
  BY DEF Base
<1>2. ASSUME UNCHANGED leido, UNCHANGED servidorVars
      PROVE  /\ pisados \subseteq pisados'
             /\ \A d \in Consolas : leido[d].socket # Nulo => leido'[d].socket = leido[d].socket
  BY <1>2 DEF servidorVars
<1>3. CASE LoopServidor \/ CreaHiloFalla
  <2>1. UNCHANGED leido
    BY <1>3 DEF LoopServidor, Acepta, EscribeSocket, EscribeId, Registra, CreaHilo, CreaHiloFalla
  <2>2. pisados \subseteq pisados'
    BY <1>3 DEF LoopServidor, Acepta, EscribeSocket, EscribeId, Registra, CreaHilo, CreaHiloFalla, Pisa
  <2> QED
    BY <2>1, <2>2
<1>4. ASSUME NEW h \in Consolas, LeeParametros(h)
      PROVE  /\ pisados \subseteq pisados'
             /\ \A d \in Consolas : leido[d].socket # Nulo => leido'[d].socket = leido[d].socket
  <2>1. pisados' = pisados
    BY <1>4 DEF LeeParametros, LeeSocket, LeeId, servidorVars
  <2>2. leido \in [Consolas -> Aux]
    BY <1>1 DEF TipoBase, TipoServidor
  <2>3. CASE LeeSocket(h)
    <3>1. hilo[h] = "nace" /\ leido' = [leido EXCEPT ![h].socket = param.socket]
      BY <2>3 DEF LeeSocket
    <3>2. leido[h].socket = Nulo
      BY <1>1, <3>1 DEF Parametros, LeidoCoherente, SinHilo
    <3>3. \A d \in Consolas \ {h} : leido'[d] = leido[d]
      BY <2>2, <3>1
    <3> QED
      BY <2>1, <3>2, <3>3
  <2>4. CASE LeeId(h)
    <3>1. leido' = [leido EXCEPT ![h].id = param.id]
      BY <2>4 DEF LeeId
    <3>2. \A d \in Consolas : leido'[d].socket = leido[d].socket
      BY <2>2, <3>1 DEF Aux
    <3> QED
      BY <2>1, <3>2
  <2> QED
    BY <1>4, <2>3, <2>4 DEF LeeParametros
<1>5. ASSUME NEW h \in Consolas, NextConsola(h) \/ Muere(h)
      PROVE  UNCHANGED leido /\ UNCHANGED servidorVars
  BY <1>5 DEF NextConsola, Muere, Conecta, NoConecta, EnviaPrograma, RecibeInput, RecibeOutput,
       RecibeExit, RecibeError, RecibeReset, Teclea, Muestra, kernelVars
<1>6. ASSUME NEW h \in Consolas, NextHilo(h), ~LeeParametros(h)
      PROVE  UNCHANGED leido /\ UNCHANGED servidorVars
  BY <1>6 DEF NextHilo, RecibeEncabezado, RecibeCantidad, RecibeSegmento, RecibeLinea, Completa,
       AtiendeIO, AtiendeExit, RecibeTecla, RecibeConfirmacion, RecibeInesperado,
       RecibeRespuestaBasura, RecibeRespuestaNula, SePierde, CaePerdido, ajenas
<1>7. ASSUME NEW h \in Consolas, NextProceso(h)
      PROVE  UNCHANGED leido /\ UNCHANGED servidorVars
  BY <1>7 DEF NextProceso, Pide, ajenas
<1>8. ASSUME AceptaFalla
      PROVE  UNCHANGED leido /\ UNCHANGED servidorVars
  BY <1>8 DEF AceptaFalla, ajenas
<1>9. ASSUME UNCHANGED estadoVars
      PROVE  UNCHANGED leido /\ UNCHANGED servidorVars
  BY <1>9 DEF estadoVars
<1>10. CASE NextServidor
  BY <1>3, <1>10 DEF NextServidor
<1>11. CASE NextFallas
  BY <1>2, <1>3, <1>5, <1>8, <1>11 DEF NextFallas
<1> QED
  BY <1>2, <1>4, <1>5, <1>6, <1>7, <1>9, <1>10, <1>11 DEF PasoDialogo

(* A thread that has read its identifier does not read another. *)
LEMMA AtendidosQueda ==
  ASSUME Base, [PasoDialogo]_estadoVars, NEW d \in Atendidos
  PROVE  d \in Atendidos' /\ leido'[d].id = leido[d].id
<1>1. /\ d \in Consolas /\ DOMAIN hilo = Consolas /\ DOMAIN leido = Consolas
      /\ hilo[d] \notin {"nada", "fallo", "nace", "id"}
  BY DEF Atendidos, Base, TipoBase, TipoServidor
<1>2. ASSUME UNCHANGED leido, hilo'[d] = hilo[d] \/ hilo'[d] \in PasosAtendidos
      PROVE  d \in Atendidos' /\ leido'[d].id = leido[d].id
  BY <1>1, <1>2 DEF Atendidos, PasosAtendidos
<1>3. CASE LoopServidor \/ CreaHiloFalla
  <2>1. UNCHANGED leido
    BY <1>3 DEF LoopServidor, Acepta, EscribeSocket, EscribeId, Registra, CreaHilo, CreaHiloFalla
  <2>2. servidor = "crea" => hilo[clientSock] = "nada"
    BY DEF Base, Parametros, LoopCoherente
  <2>3. hilo'[d] = hilo[d]
    BY <1>1, <1>3, <2>2
       DEF LoopServidor, Acepta, EscribeSocket, EscribeId, Registra, CreaHilo, CreaHiloFalla
  <2> QED
    BY <1>2, <2>1, <2>3
<1>4. ASSUME NEW h \in Consolas, LeeParametros(h)
      PROVE  d \in Atendidos' /\ leido'[d].id = leido[d].id
  <2>1. h # d
    BY <1>1, <1>4 DEF LeeParametros, LeeSocket, LeeId
  <2>2. hilo'[d] = hilo[d] /\ leido'[d] = leido[d]
    BY <1>1, <1>4, <2>1 DEF LeeParametros, LeeSocket, LeeId
  <2> QED
    BY <1>1, <2>2 DEF Atendidos
<1>5. ASSUME NEW h \in Consolas, NextConsola(h) \/ Muere(h)
      PROVE  UNCHANGED <<leido, hilo>>
  BY <1>5 DEF NextConsola, Muere, Conecta, NoConecta, EnviaPrograma, RecibeInput, RecibeOutput,
       RecibeExit, RecibeError, RecibeReset, Teclea, Muestra, kernelVars
<1>6. ASSUME NEW h \in Consolas, NextHilo(h), ~LeeParametros(h)
      PROVE  d \in Atendidos' /\ leido'[d].id = leido[d].id
  <2>1. UNCHANGED leido
    BY <1>6 DEF NextHilo, RecibeEncabezado, RecibeCantidad, RecibeSegmento, RecibeLinea, Completa,
         AtiendeIO, AtiendeExit, RecibeTecla, RecibeConfirmacion, RecibeInesperado,
         RecibeRespuestaBasura, RecibeRespuestaNula, SePierde, CaePerdido, ajenas
  <2>2. hilo' = hilo \/ \E paso \in PasosAtendidos : hilo' = [hilo EXCEPT ![h] = paso]
    <3>1. {"cantidad", "segmentos", "lineas", "espera", "responde", "fin", "perdido"}
            \subseteq PasosAtendidos
      BY DEF PasosAtendidos
    <3> QED
      BY <1>6, <3>1
         DEF NextHilo, RecibeEncabezado, RecibeCantidad, RecibeSegmento, RecibeLinea, Completa,
         AtiendeIO, AtiendeExit, RecibeTecla, RecibeConfirmacion, RecibeInesperado,
         RecibeRespuestaBasura, RecibeRespuestaNula, SePierde, CaePerdido, Pasa
  <2> QED
    BY <1>1, <1>2, <2>1, <2>2
<1>7. ASSUME NEW h \in Consolas, NextProceso(h)
      PROVE  d \in Atendidos' /\ leido'[d].id = leido[d].id
  <2>1. UNCHANGED leido /\ hilo' = [hilo EXCEPT ![h] = "atiende"]
    BY <1>7 DEF NextProceso, Pide, Pasa, ajenas
  <2> QED
    BY <1>1, <1>2, <2>1 DEF PasosAtendidos
<1>8. ASSUME AceptaFalla PROVE UNCHANGED <<leido, hilo>>
  BY <1>8 DEF AceptaFalla, ajenas
<1>9. CASE UNCHANGED estadoVars
  BY <1>2, <1>9 DEF estadoVars
<1>10. CASE NextServidor
  BY <1>3, <1>10 DEF NextServidor
<1>11. CASE NextFallas
  BY <1>2, <1>3, <1>5, <1>8, <1>11 DEF NextFallas
<1> QED
  BY <1>2, <1>4, <1>5, <1>6, <1>7, <1>9, <1>10, <1>11 DEF PasoDialogo

(* Nor is a connection given another identifier. *)
LEMMA IdentidadQueda ==
  ASSUME Base, [PasoDialogo]_estadoVars, NEW c \in Consolas, identidad[c] # 0
  PROVE  identidad'[c] = identidad[c]
<1>1. DOMAIN identidad = Consolas /\ espera \in Seq(Consolas)
  BY DEF Base, TipoBase, TipoServidor
<1>2. CASE Acepta
  <2>1. espera # <<>> /\ clientSock' = Head(espera)
        /\ identidad' = [identidad EXCEPT ![clientSock'] = acumulador]
    BY <1>2 DEF Acepta
  <2>2. 1 \in DOMAIN espera /\ Head(espera) = espera[1]
    BY <1>1, <2>1, LenProperties
  <2>3. identidad[Head(espera)] = 0
    BY <2>2 DEF Base, Parametros, EsperaCoherente
  <2> QED
    BY <1>1, <2>1, <2>3
<1>3. ASSUME LoopServidor \/ CreaHiloFalla, ~Acepta PROVE UNCHANGED identidad
  BY <1>3 DEF LoopServidor, EscribeSocket, EscribeId, Registra, CreaHilo, CreaHiloFalla
<1>4. ASSUME NEW h \in Consolas, NextConsola(h) \/ Muere(h) PROVE UNCHANGED identidad
  BY <1>4 DEF NextConsola, Muere, Conecta, NoConecta, EnviaPrograma, RecibeInput, RecibeOutput,
       RecibeExit, RecibeError, RecibeReset, Teclea, Muestra, kernelVars, servidorVars
<1>5. ASSUME NEW h \in Consolas, NextHilo(h) PROVE UNCHANGED identidad
  BY <1>5 DEF NextHilo, LeeParametros, LeeSocket, LeeId, RecibeEncabezado, RecibeCantidad,
       RecibeSegmento, RecibeLinea, Completa, AtiendeIO, AtiendeExit, RecibeTecla,
       RecibeConfirmacion, RecibeInesperado, RecibeRespuestaBasura, RecibeRespuestaNula, SePierde,
       CaePerdido, ajenas, servidorVars
<1>6. ASSUME NEW h \in Consolas, NextProceso(h) PROVE UNCHANGED identidad
  BY <1>6 DEF NextProceso, Pide, ajenas, servidorVars
<1>7. ASSUME AceptaFalla PROVE UNCHANGED identidad
  BY <1>7 DEF AceptaFalla, ajenas, servidorVars
<1>8. CASE UNCHANGED estadoVars
  BY <1>8 DEF estadoVars, servidorVars
<1> QED
  BY <1>2, <1>3, <1>4, <1>5, <1>6, <1>7, <1>8 DEF PasoDialogo, NextServidor, NextFallas

LEMMA PerturbadaQueda ==
  ASSUME Base, [PasoDialogo]_estadoVars, NEW c \in Consolas, Perturbada(c)
  PROVE  Perturbada(c)'
<1>1. /\ pisados \subseteq pisados'
      /\ \A d \in Consolas : leido[d].socket # Nulo => leido'[d].socket = leido[d].socket
  BY LeidoQueda
<1>2. c # Nulo
  BY SupuestosServidor DEF SupuestosServidor
<1>3. ASSUME NEW d \in Atendidos \ {c}, leido[d].id = identidad[c]
      PROVE  d \in Atendidos' \ {c} /\ leido'[d].id = identidad'[c]
  <2>1. d \in Consolas /\ hilo[d] # "nada"
    BY DEF Atendidos
  <2>2. identidad[d] \in 1 .. (acumulador - 1) /\ leido[d].id >= identidad[d]
    BY <2>1 DEF Base, Parametros, IdentidadUnica, NuncaAnterior
  <2>3. leido[d].id \in Nat /\ identidad[d] \in Nat /\ acumulador \in Nat
    BY <2>1 DEF Base, TipoBase, TipoServidor, Aux
  <2>4. identidad[c] # 0
    BY <1>3, <2>2, <2>3
  <2> QED
    BY <1>3, <2>4, AtendidosQueda, IdentidadQueda
<1> QED
  BY <1>1, <1>2, <1>3 DEF Perturbada

Previos == {"nada", "fallo", "nace", "id", "encabezado"}

(* What does not touch the connection, nor what its thread has of it.      *)
LEMMA ConexionIgual ==
  ASSUME NEW c \in Consolas, Conexion(c), ~Perturbada(c),
         hilo'[c] = hilo[c] \/ (hilo[c] \in Previos /\ hilo'[c] \in Previos),
         pcb'[c] = pcb[c], pipeline'[c] = pipeline[c], red'[c] = red[c],
         consola'[c] = consola[c], tecleado'[c] = tecleado[c], mostrado'[c] = mostrado[c],
         caida' = caida
  PROVE  Conexion(c)'
<1>1. HiloFiel(c) /\ (caida = "no" => Dialoga(c)) /\ (caida # "no" => Abandonada(c))
  BY DEF Conexion
<1>2. HiloFiel(c)'
  <2>1. PcbParcial(c)'
    BY <1>1 DEF HiloFiel, PcbParcial, Previos, Tomados
  <2>2. BuzonCoherente(c)'
    BY <1>1 DEF HiloFiel, BuzonCoherente, Previos
  <2> QED
    BY <1>1, <2>1, <2>2 DEF HiloFiel, Previos
<1>3. ASSUME caida = "no" PROVE Dialoga(c)'
  <2>1. Dialoga(c)
    BY <1>1, <1>3
  <2>2. ASSUME hilo[c] \in Previos PROVE Previo(c)'
    BY <2>1, <2>2 DEF Dialoga, Previos, Previo
  <2>3. ASSUME hilo[c] \in Cargando, hilo'[c] = hilo[c] PROVE Carga(c)'
    BY <2>1, <2>3 DEF Dialoga, Carga, Tomados
  <2>4. ASSUME hilo[c] \in {"espera", "atiende"} PROVE Calla(c)'
    BY <2>1, <2>4 DEF Dialoga, Calla, PalabraFiel
  <2>5. ASSUME hilo[c] = "responde" PROVE Conversa(c)'
    BY <2>1, <2>5 DEF Dialoga, Conversa, Contesta, Pedido
  <2>6. ASSUME hilo[c] = "fin" PROVE Despide(c)'
    BY <2>1, <2>6 DEF Dialoga, Despide
  <2> QED
    BY <2>2, <2>3, <2>4, <2>5, <2>6 DEF Dialoga, Previos, Cargando
<1>4. ASSUME caida # "no" PROVE Abandonada(c)'
  BY <1>1, <1>4 DEF Abandonada, PalabraFiel
<1> QED
  BY <1>2, <1>3, <1>4 DEF Conexion

LEMMA Aceptados ==
  ASSUME Base, NEW c \in Atendidos
  PROVE  c \in Consolas /\ Aceptada(c)
<1>1. c \in Consolas /\ identidad[c] # 0
  BY DEF Base, Parametros, IdentidadUnica, Atendidos
<1> QED
  BY <1>1 DEF Base, Parametros, EsperaCoherente, Aceptada

(* The Kernel falls, by this thread or by any other.                       *)
LEMMA ConexionCae ==
  ASSUME Base, NEW c \in Consolas, Conexion(c), ~Perturbada(c), caida = "no",
         NEW causa, causa # "no", CaeKernel(causa), UNCHANGED <<consola, tecleado, mostrado>>,
         \/ hilo'[c] = hilo[c]
         \/ hilo[c] # "espera" /\ hilo'[c] = "fin"
         \/ hilo[c] = "atiende" /\ pipeline[c].op # EXIT /\ hilo'[c] = "responde",
         hilo'[c] = "fin" \/ (pcb'[c] = pcb[c] /\ pipeline'[c] = pipeline[c]),
         pipeline'[c] = pipeline[c] \/ pipeline'[c] = PipelineVacia
  PROVE  Conexion(c)'
<1>1. HiloFiel(c) /\ Dialoga(c) /\ TipoBase /\ ExtremosCoherentes
  BY DEF Conexion, Base
<1>2. /\ caida' = causa
      /\ red'[c].alKernel = red[c].alKernel /\ red'[c].alConsola = red[c].alConsola
      /\ red'[c].extremoK = red[c].extremoK
      /\ red'[c].extremoC = IF red[c].extremoC # "viva" THEN red[c].extremoC
                            ELSE IF Aceptada(c) THEN Cierre(red[c].alKernel) ELSE "rst"
  BY <1>1, CaeKernelEs
<1>3. red[c].extremoC = "viva"
  BY <1>1 DEF ExtremosCoherentes
<1>4. 0 \notin Respuestas
  BY DEF Respuestas, CONSOLE_INPUT_RESPUESTA, CONSOLE_OUTPUT_RESPUESTA
<1>5. HiloFiel(c)'
  <2>1. CASE hilo'[c] = "fin"
    <3>1. pipeline'[c].op \notin Respuestas
      BY <1>1, <1>4, <2>1 DEF HiloFiel, BuzonCoherente, PipelineVacia
    <3> QED
      BY <2>1, <3>1 DEF HiloFiel, PcbParcial, BuzonCoherente
  <2>2. CASE hilo'[c] # "fin"
    <3>1. pcb'[c] = pcb[c] /\ pipeline'[c] = pipeline[c]
      BY <2>2
    <3>2. CASE hilo'[c] = hilo[c]
      BY <1>1, <3>1, <3>2 DEF HiloFiel, PcbParcial, BuzonCoherente, Tomados
    <3>3. CASE hilo[c] = "atiende" /\ pipeline[c].op # EXIT /\ hilo'[c] = "responde"
      <4>1. PcbParcial(c)'
        BY <1>1, <3>1, <3>3 DEF HiloFiel, PcbParcial
      <4>2. BuzonCoherente(c)'
        BY <1>1, <3>1, <3>3, CodigosDistintos DEF HiloFiel, BuzonCoherente, Respuestas
      <4> QED
        BY <3>3, <4>1, <4>2 DEF HiloFiel
    <3> QED
      BY <2>2, <3>2, <3>3
  <2> QED
    BY <2>1, <2>2
<1>6. Abandonada(c)'
  <2> SUFFICES ASSUME pipeline'[c].op \in Respuestas, red'[c].extremoK # "roto"
               PROVE  /\ PalabraFiel(c)'
                      /\ \/ consola'[c] \in {"error", "muerta"}
                         \/ /\ consola'[c] = "espera" /\ red'[c].alConsola = <<>>
                            /\ red'[c].extremoC = "fin"
    BY DEF Abandonada
  <2>1. hilo'[c] = "espera"
    BY <1>5 DEF HiloFiel, BuzonCoherente
  <2>2. hilo[c] = "espera" /\ pipeline'[c] = pipeline[c]
    BY <2>1
  <2>3. Calla(c)
    BY <1>1, <2>2 DEF Dialoga
  <2>4. red[c].alKernel = <<>> /\ PalabraFiel(c)
    BY <1>2, <2>3 DEF Calla
  <2>5. consola[c] = "muerta" \/ (consola[c] = "espera" /\ red[c].alConsola = <<>>)
    BY <2>3 DEF Calla
  <2>6. PalabraFiel(c)'
    BY <2>2, <2>4 DEF PalabraFiel
  <2>7. Aceptada(c)
    <3>1. c \in Atendidos
      BY <2>2 DEF Atendidos
    <3> QED
      BY <3>1, Aceptados
  <2>8. red'[c].extremoC = "fin"
    BY <1>2, <1>3, <2>4, <2>7 DEF Cierre
  <2> QED
    BY <1>2, <2>5, <2>6, <2>8
<1> QED
  BY <1>2, <1>5, <1>6 DEF Conexion

(* What a thread does to the connections that it does not serve.           *)
LEMMA HiloAjeno ==
  ASSUME Base, NEW c \in Consolas, NEW h \in Consolas \ {c}, NextHilo(h), ~Perturbada(c)
  PROVE  /\ hilo'[c] = hilo[c] /\ pcb'[c] = pcb[c] /\ pipeline'[c] = pipeline[c]
         /\ UNCHANGED <<consola, tecleado, mostrado>>
         /\ \/ red'[c] = red[c] /\ caida' = caida
            \/ \E causa \in {"codigo", "senal", "perdido"} : CaeKernel(causa)
<1>1. /\ TipoBase /\ Parametros /\ c # h /\ h \in Consolas
      /\ DOMAIN hilo = Consolas /\ DOMAIN pcb = Consolas /\ DOMAIN pipeline = Consolas
      /\ DOMAIN red = Consolas
  BY DEF Base, TipoBase
<1>2. ASSUME hilo[h] \in PasosAtendidos PROVE Toma(h) # c
  <2>1. h \in Atendidos
    BY <1>1, <1>2, AtendidoEs
  <2> QED
    BY <1>1, <2>1, TomaEs
<1>3. UNCHANGED <<consola, tecleado, mostrado>>
  BY DEF NextHilo, RecibeEncabezado, RecibeCantidad, RecibeSegmento, RecibeLinea, Completa,
       AtiendeIO, AtiendeExit, RecibeTecla, RecibeConfirmacion, RecibeInesperado,
       RecibeRespuestaBasura, RecibeRespuestaNula, SePierde, CaePerdido, ajenas, consolaVars
<1>4. hilo'[c] = hilo[c]
  BY <1>1 DEF NextHilo, LeeParametros, LeeSocket, LeeId, RecibeEncabezado, RecibeCantidad,
       RecibeSegmento, RecibeLinea, Completa, AtiendeIO, AtiendeExit, RecibeTecla,
       RecibeConfirmacion, RecibeInesperado, RecibeRespuestaBasura, RecibeRespuestaNula,
       SePierde, CaePerdido, Pasa
<1>5. pcb'[c] = pcb[c] /\ pipeline'[c] = pipeline[c]
  BY <1>1 DEF NextHilo, procesoVars, RecibeEncabezado, RecibeCantidad, RecibeSegmento, RecibeLinea,
       Completa, AtiendeIO, AtiendeExit, LiberaPCB, RecibeTecla, RecibeConfirmacion,
       RecibeInesperado, RecibeRespuestaBasura, RecibeRespuestaNula, SePierde, CaePerdido
<1>6. ASSUME NEW n, Consume(h, n), hilo[h] \in PasosAtendidos
      PROVE  red'[c] = red[c] /\ caida' = caida
  BY <1>1, <1>2, <1>6 DEF Consume
<1>7. ASSUME NEW campos, EnviaKernel(Toma(h), campos), hilo[h] \in PasosAtendidos
      PROVE  (red'[c] = red[c] /\ caida' = caida) \/ CaeKernel("senal")
  BY <1>1, <1>2, <1>7 DEF EnviaKernel
<1>8. CASE LeeParametros(h) /\ UNCHANGED <<red, consolaVars, procesoVars>>
  <2>1. red'[c] = red[c] /\ caida' = caida
    BY <1>8 DEF LeeParametros, LeeSocket, LeeId
  <2> QED
    BY <1>3, <1>4, <1>5, <2>1
<1>9. CASE RecibeEncabezado(h) \/ RecibeCantidad(h) \/ RecibeSegmento(h) \/ RecibeLinea(h)
  <2>1. Consume(h, 2) /\ hilo[h] \in PasosAtendidos
    BY <1>9 DEF RecibeEncabezado, RecibeCantidad, RecibeSegmento, RecibeLinea, Recibir, PasosAtendidos
  <2> QED
    BY <1>3, <1>4, <1>5, <1>6, <2>1
<1>10. CASE Completa(h) \/ SePierde(h)
  BY <1>3, <1>4, <1>5, <1>10 DEF Completa, SePierde
<1>11. CASE AtiendeIO(h) \/ AtiendeExit(h)
  <2>1. hilo[h] \in PasosAtendidos
    BY <1>11 DEF AtiendeIO, AtiendeExit, PasosAtendidos
  <2>2. \E campos : EnviaKernel(Toma(h), campos)
    BY <1>11 DEF AtiendeIO, AtiendeExit
  <2> QED
    BY <1>3, <1>4, <1>5, <1>7, <2>1, <2>2
<1>12. CASE RecibeTecla(h) \/ RecibeConfirmacion(h)
  <2>1. hilo[h] \in PasosAtendidos /\ (Consume(h, 4) \/ Consume(h, 2))
    BY <1>12 DEF RecibeTecla, RecibeConfirmacion, Responde, PasosAtendidos
  <2> QED
    BY <1>3, <1>4, <1>5, <1>6, <2>1
<1>13. CASE RecibeInesperado(h) \/ RecibeRespuestaNula(h) \/ CaePerdido(h)
  BY <1>3, <1>4, <1>5, <1>13 DEF RecibeInesperado, RecibeRespuestaNula, CaePerdido
<1>14. CASE RecibeRespuestaBasura(h)
  <2>1. hilo[h] \in PasosAtendidos
    BY <1>14 DEF RecibeRespuestaBasura, PasosAtendidos
  <2>2. red'[c] = red[c] /\ caida' = caida
    BY <1>1, <1>2, <1>14, <2>1 DEF RecibeRespuestaBasura
  <2> QED
    BY <1>3, <1>4, <1>5, <2>2
<1> QED
  BY <1>8, <1>9, <1>10, <1>11, <1>12, <1>13, <1>14 DEF NextHilo

LEMMA ConexionHiloAjeno ==
  ASSUME Base, NEW c \in Consolas, NEW h \in Consolas \ {c}, NextHilo(h), ~Perturbada(c), Conexion(c)
  PROVE  Conexion(c)'
<1>1. /\ hilo'[c] = hilo[c] /\ pcb'[c] = pcb[c] /\ pipeline'[c] = pipeline[c]
      /\ UNCHANGED <<consola, tecleado, mostrado>>
      /\ \/ red'[c] = red[c] /\ caida' = caida
         \/ \E causa \in {"codigo", "senal", "perdido"} : CaeKernel(causa)
  BY HiloAjeno
<1>2. CASE red'[c] = red[c] /\ caida' = caida
  BY <1>1, <1>2, ConexionIgual
<1>3. ASSUME NEW causa \in {"codigo", "senal", "perdido"}, CaeKernel(causa) PROVE Conexion(c)'
  <2>1. caida = "no" /\ causa # "no"
    BY DEF NextHilo
  <2> QED
    BY <1>1, <1>3, <2>1, ConexionCae
<1> QED
  BY <1>1, <1>2, <1>3

(* The accept loop, the reading of the parameters, and the other consoles. *)
LEMMA ConexionServidor ==
  ASSUME Base, NEW c \in Consolas, LoopServidor \/ CreaHiloFalla,
         UNCHANGED <<red, consolaVars, procesoVars>>, ~Perturbada(c), Conexion(c)
  PROVE  Conexion(c)'
<1>1. UNCHANGED <<red, consola, tecleado, mostrado, pcb, pipeline>>
  BY DEF consolaVars, procesoVars
<1>2. caida' = caida
  BY DEF LoopServidor, Acepta, EscribeSocket, EscribeId, Registra, CreaHilo, CreaHiloFalla
<1>3. CASE hilo' = hilo
  BY <1>1, <1>2, <1>3, ConexionIgual
<1>4. CASE CreaHilo \/ CreaHiloFalla
  <2>1. servidor = "crea" /\ \E paso \in {"nace", "fallo"} : hilo' = [hilo EXCEPT ![clientSock] = paso]
    BY <1>4 DEF CreaHilo, CreaHiloFalla
  <2>2. hilo[clientSock] = "nada" /\ clientSock \in Consolas /\ DOMAIN hilo = Consolas
    BY <2>1 DEF Base, Parametros, LoopCoherente, TipoBase
  <2>3. hilo'[c] = hilo[c] \/ (hilo[c] \in Previos /\ hilo'[c] \in Previos)
    BY <2>1, <2>2 DEF Previos
  <2> QED
    BY <1>1, <1>2, <2>3, ConexionIgual
<1> QED
  BY <1>3, <1>4 DEF LoopServidor, Acepta, EscribeSocket, EscribeId, Registra

LEMMA ConexionLee ==
  ASSUME Base, NEW c \in Consolas, LeeParametros(c),
         UNCHANGED <<red, consolaVars, procesoVars>>, ~Perturbada(c), Conexion(c)
  PROVE  Conexion(c)'
<1>1. UNCHANGED <<red, consola, tecleado, mostrado, pcb, pipeline>>
  BY DEF consolaVars, procesoVars
<1>2. caida' = caida /\ hilo[c] \in Previos /\ \E paso \in Previos : hilo' = [hilo EXCEPT ![c] = paso]
  BY DEF LeeParametros, LeeSocket, LeeId, Previos
<1>3. hilo'[c] \in Previos
  BY <1>2 DEF Base, TipoBase
<1> QED
  BY <1>1, <1>2, <1>3, ConexionIgual

LEMMA ConexionConsolaAjena ==
  ASSUME Base, NEW c \in Consolas, NEW d \in Consolas \ {c}, NextConsola(d) \/ Muere(d),
         ~Perturbada(c), Conexion(c)
  PROVE  Conexion(c)'
<1>1. /\ c # d /\ DOMAIN consola = Consolas /\ DOMAIN red = Consolas
      /\ DOMAIN tecleado = Consolas /\ DOMAIN mostrado = Consolas
  BY DEF Base, TipoBase
<1>2. UNCHANGED kernelVars
  BY DEF NextConsola, Muere, Conecta, NoConecta, EnviaPrograma, RecibeInput, RecibeOutput,
       RecibeExit, RecibeError, RecibeReset, Teclea, Muestra
<1>3. UNCHANGED <<hilo, caida, pcb, pipeline>>
  BY <1>2 DEF kernelVars, procesoVars
<1>4. tecleado'[c] = tecleado[c] /\ mostrado'[c] = mostrado[c]
  BY <1>1 DEF NextConsola, Muere, Conecta, NoConecta, EnviaPrograma, RecibeInput, RecibeOutput,
       RecibeExit, RecibeError, RecibeReset, Teclea, Muestra
<1>5. consola'[c] = consola[c] /\ red'[c] = red[c]
  <2>1. ASSUME NEW campos, EnviaConsola(d, campos)
        PROVE  consola'[c] = consola[c] /\ red'[c] = red[c]
    BY <1>1, <2>1 DEF EnviaConsola, TerminaConsola
  <2>2. ASSUME NEW r, NEW s, TerminaConsola(d, r, s)
        PROVE  consola'[c] = consola[c] /\ red'[c] = red[c]
    BY <1>1, <2>2 DEF TerminaConsola
  <2>3. CASE Conecta(d) \/ NoConecta(d) \/ RecibeInput(d) \/ RecibeOutput(d) \/ RecibeReset(d)
    BY <1>1, <2>3 DEF Conecta, NoConecta, RecibeInput, RecibeOutput, RecibeReset
  <2>4. CASE \/ EnviaPrograma(d) \/ Muestra(d) \/ \E v \in Valores : Teclea(d, v)
    BY <2>1, <2>4 DEF EnviaPrograma, Muestra, Teclea
  <2>5. CASE RecibeExit(d) \/ RecibeError(d) \/ Muere(d)
    BY <2>2, <2>5 DEF RecibeExit, RecibeError, Muere
  <2> QED
    BY <2>3, <2>4, <2>5 DEF NextConsola
<1> QED
  BY <1>3, <1>4, <1>5, ConexionIgual

LEMMA ConexionProcesoAjeno ==
  ASSUME Base, NEW c \in Consolas, NEW h \in Consolas \ {c}, NEW op, NEW v, Pide(h, op, v),
         ~Perturbada(c), Conexion(c)
  PROVE  Conexion(c)'
<1>1. /\ c # h /\ DOMAIN hilo = Consolas /\ DOMAIN pipeline = Consolas
  BY DEF Base, TipoBase
<1>2. UNCHANGED <<consola, tecleado, mostrado, pcb, red, caida>>
  BY DEF Pide, ajenas, consolaVars
<1>3. hilo'[c] = hilo[c] /\ pipeline'[c] = pipeline[c]
  BY <1>1 DEF Pide, Pasa
<1> QED
  BY <1>2, <1>3, ConexionIgual

-----------------------------------------------------------------------------
(* The process asks. *)

LEMMA ConexionProceso ==
  ASSUME Base, NEW c \in Consolas, NEW op \in {CONSOLE_INPUT, CONSOLE_OUTPUT, EXIT}, NEW v,
         Pide(c, op, v), caida = "no", ~Perturbada(c), Conexion(c)
  PROVE  Conexion(c)'
<1>1. /\ DOMAIN hilo = Consolas /\ pipeline \in [Consolas -> Buzones]
      /\ HiloFiel(c) /\ Dialoga(c)
  BY DEF Base, TipoBase, Buzones, Conexion
<1>2. /\ hilo[c] = "espera" /\ hilo' = [hilo EXCEPT ![c] = "atiende"]
      /\ pipeline' = [pipeline EXCEPT ![c].op = op, ![c].valor = IF op = CONSOLE_OUTPUT THEN v ELSE @]
      /\ UNCHANGED <<consola, tecleado, mostrado, pcb, red, caida>>
  BY DEF Pide, Pasa, ajenas, consolaVars
<1>3. hilo'[c] = "atiende" /\ pipeline'[c].op = op
  BY <1>1, <1>2 DEF Buzones
<1>4. op \notin Respuestas
  BY DEF Respuestas, CONSOLE_INPUT, CONSOLE_OUTPUT, EXIT, CONSOLE_INPUT_RESPUESTA,
       CONSOLE_OUTPUT_RESPUESTA
<1>5. HiloFiel(c)'
  <2>1. pcb'[c].segmentos = Segmentos[c] /\ pcb'[c].instrucciones = Lineas[c]
    BY <1>1, <1>2 DEF HiloFiel, PcbParcial
  <2>2. PcbParcial(c)'
    BY <1>3, <2>1 DEF PcbParcial
  <2> QED
    BY <1>3, <1>4, <2>2 DEF HiloFiel, BuzonCoherente
<1>6. Calla(c)'
  <2>1. Calla(c)
    BY <1>1, <1>2 DEF Dialoga
  <2>2. PalabraFiel(c)'
    BY <1>3, <1>4 DEF PalabraFiel, Respuestas
  <2> QED
    BY <1>2, <2>1, <2>2 DEF Calla
<1>7. Dialoga(c)'
  BY <1>3, <1>6 DEF Dialoga, Cargando
<1> QED
  BY <1>2, <1>5, <1>7 DEF Conexion

-----------------------------------------------------------------------------
(* The console of the connection, while the Kernel lives. *)

(* Where each step of the console may find its thread.                     *)
LEMMA DondeEsta ==
  ASSUME Base, NEW c \in Consolas, caida = "no", ~Perturbada(c), Conexion(c)
  PROVE  /\ red[c].extremoC = "viva" /\ (red[c].extremoK # "viva" <=> Terminada(c))
         /\ hilo[c] \in Previos \cup Cargando \cup {"espera", "atiende", "responde", "fin"}
         /\ consola[c] \in {"conecta", "envia"} => hilo[c] \in Previos
         /\ consola[c] \in {"teclea", "muestra"} => hilo[c] = "responde"
         /\ consola[c] = "espera" /\ red[c].alConsola # <<>> => hilo[c] \in {"responde", "fin"}
         /\ consola[c] # "error"
         /\ consola[c] = "exito" => hilo[c] = "fin"
<1>1. HiloFiel(c) /\ Dialoga(c)
  BY DEF Conexion
<1>2. red[c].extremoC = "viva" /\ (red[c].extremoK # "viva" <=> Terminada(c))
  BY DEF Base, ExtremosCoherentes
<1>3. hilo[c] \in Previos \cup Cargando \cup {"espera", "atiende", "responde", "fin"}
  BY <1>1 DEF Base, TipoBase, HiloFiel, Previos, Cargando
<1>4. CASE hilo[c] \in Previos
  <2>1. Previo(c)
    BY <1>1, <1>4 DEF Dialoga, Previos
  <2> QED
    BY <1>2, <1>3, <1>4, <2>1 DEF Previo
<1>5. CASE hilo[c] \in Cargando
  <2>1. Carga(c)
    BY <1>1, <1>5 DEF Dialoga
  <2> QED
    BY <1>2, <1>3, <1>5, <2>1 DEF Carga
<1>6. CASE hilo[c] \in {"espera", "atiende"}
  <2>1. Calla(c)
    BY <1>1, <1>6 DEF Dialoga
  <2> QED
    BY <1>2, <1>3, <1>6, <2>1 DEF Calla
<1>7. CASE hilo[c] = "responde"
  <2>1. Conversa(c)
    BY <1>1, <1>7 DEF Dialoga
  <2> QED
    BY <1>2, <1>3, <1>7, <2>1 DEF Conversa
<1>8. CASE hilo[c] = "fin"
  <2>1. Despide(c)
    BY <1>1, <1>8 DEF Dialoga
  <2> QED
    BY <1>2, <1>3, <1>8, <2>1 DEF Despide
<1> QED
  BY <1>3, <1>4, <1>5, <1>6, <1>7, <1>8

LEMMA EnviaConsolaDeja ==
  ASSUME TipoBase, NEW c \in Consolas, NEW campos \in Seq(Campos), EnviaConsola(c, campos),
         red[c].extremoC = "viva", red[c].alKernel = <<>>
  PROVE  /\ red'[c].alKernel = campos /\ red'[c].alConsola = red[c].alConsola
         /\ red'[c].extremoK = red[c].extremoK /\ consola'[c] = "espera"
<1> DEFINE a == red[c].alConsola
           ek == red[c].extremoK
<1>1. /\ red' = [red EXCEPT ![c] = Canal(<<>> \o campos, a, ek, TrasEnviar("viva"))]
      /\ consola' = [consola EXCEPT ![c] = "espera"]
  BY EnviaConsolaEs
<1>2. <<>> \o campos = campos
  BY ConcatEmptySeq
<1>3. DOMAIN consola = Consolas
  BY DEF TipoBase
<1> DEFINE ec == TrasEnviar("viva")
<1> HIDE DEF a, ek, ec
<1>4. red' = [red EXCEPT ![c] = Canal(campos, a, ek, ec)]
  BY <1>1, <1>2 DEF ec
<1>5. red'[c].alKernel = campos /\ red'[c].alConsola = a /\ red'[c].extremoK = ek
  BY <1>4, CambiaRed
<1> QED
  BY <1>1, <1>3, <1>5 DEF a, ek

LEMMA TerminaConsolaDeja ==
  ASSUME TipoBase, NEW c \in Consolas, NEW r, NEW s, TerminaConsola(c, r, s),
         red[c].extremoK = "viva"
  PROVE  /\ red'[c].alKernel = red[c].alKernel /\ red'[c].alConsola = s
         /\ red'[c].extremoK = Cierre(s) /\ consola'[c] = r
<1> DEFINE k == red[c].alKernel
           ek == Cierre(s)
           ec == red[c].extremoC
<1>1. /\ red' = [red EXCEPT ![c] = Canal(k, s, ek, ec)]
      /\ consola' = [consola EXCEPT ![c] = r]
  BY TerminaConsolaEs
<1>2. DOMAIN consola = Consolas
  BY DEF TipoBase
<1> HIDE DEF k, ek, ec
<1>3. red'[c].alKernel = k /\ red'[c].alConsola = s /\ red'[c].extremoK = ek
  BY <1>1, CambiaRed, ZenonT(40)
<1> QED
  BY <1>1, <1>2, <1>3 DEF k, ek

LEMMA LeeConsolaDeja ==
  ASSUME TipoBase, NEW c \in Consolas, NEW s, red' = [red EXCEPT ![c].alConsola = s]
  PROVE  /\ red'[c].alKernel = red[c].alKernel /\ red'[c].alConsola = s
         /\ red'[c].extremoK = red[c].extremoK
<1> DEFINE k == red[c].alKernel
           ek == red[c].extremoK
           ec == red[c].extremoC
<1>1. red' = [red EXCEPT ![c] = Canal(k, s, ek, ec)]
  BY UnCampo
<1> HIDE DEF k, ek, ec
<1>2. DOMAIN red = Consolas
  BY DEF TipoBase
<1>3. red'[c] = Canal(k, s, ek, ec)
  BY <1>1, <1>2
<1> QED
  BY <1>3, CanalCampos DEF k, ek

(* What is left of a packet that was read. *)
LEMMA NadaQueda ==
  ASSUME NEW S, NEW s \in Seq(S), NEW n \in Nat, n = Len(s) + 1
  PROVE  Desde(s, n) = <<>>
<1>1. Len(s) \in Nat
  BY LenProperties
<1>2. n \in 1 .. (Len(s) + 1) /\ Len(s) - n + 1 = 0
  BY <1>1
<1>3. Desde(s, n) \in Seq(S) /\ Len(Desde(s, n)) = Len(s) - n + 1
  BY <1>2, DesdeTipo
<1> HIDE DEF Desde
<1> QED
  BY <1>2, <1>3, LargoCero

(* The thread does nothing.                                                *)
LEMMA ConexionConsolaDe ==
  ASSUME NEW c \in Consolas, UNCHANGED kernelVars, ~Perturbada(c), Conexion(c), Dialoga(c)',
         caida = "no"
  PROVE  Conexion(c)'
<1>1. UNCHANGED <<hilo, pcb, pipeline, caida>>
  BY DEF kernelVars, procesoVars
<1>2. HiloFiel(c)
  BY DEF Conexion
<1>3. HiloFiel(c)'
  BY <1>1, <1>2 DEF HiloFiel, PcbParcial, BuzonCoherente, Tomados
<1> QED
  BY <1>1, <1>3 DEF Conexion

(* What a console that waits may find.                                     *)
LEMMA LoPedido ==
  ASSUME Base, NEW c \in Consolas, caida = "no", ~Perturbada(c), Conexion(c),
         consola[c] = "espera", red[c].alConsola # <<>>
  PROVE  /\ red[c].alKernel = <<>>
         /\ \/ /\ hilo[c] = "responde" /\ pipeline[c].op = CONSOLE_INPUT
               /\ red[c].alConsola = Vacio(CONSOLE_INPUT) /\ Operacion(c) = CONSOLE_INPUT
            \/ /\ hilo[c] = "responde" /\ pipeline[c].op = CONSOLE_OUTPUT
               /\ red[c].alConsola = ConEntero(CONSOLE_OUTPUT, pipeline[c].valor)
               /\ Operacion(c) = CONSOLE_OUTPUT
            \/ /\ hilo[c] = "fin" /\ red[c].alConsola = Vacio(EXIT) /\ Operacion(c) = EXIT
<1>1. /\ HiloFiel(c) /\ Dialoga(c) /\ hilo[c] \in {"responde", "fin"}
      /\ pipeline[c].valor \in Int
  <2>1. hilo[c] \in {"responde", "fin"}
    BY DondeEsta
  <2>2. pipeline[c].valor \in Int
    BY DEF Base, TipoBase
  <2> QED
    BY <2>1, <2>2 DEF Conexion
<1>2. CONSOLE_INPUT \in Int /\ CONSOLE_OUTPUT \in Int /\ EXIT \in Int
  BY CodigosEnteros
<1>3. /\ Head(Vacio(CONSOLE_INPUT)).valor = CONSOLE_INPUT /\ Head(Vacio(EXIT)).valor = EXIT
      /\ Head(ConEntero(CONSOLE_OUTPUT, pipeline[c].valor)).valor = CONSOLE_OUTPUT
  BY <1>1, <1>2, PaquetesTipo, EnteroTipo
<1>4. Operacion(c) = Head(red[c].alConsola).valor
  BY DEF Operacion
<1>5. CASE hilo[c] = "responde"
  <2>1. Conversa(c)
    BY <1>1, <1>5 DEF Dialoga
  <2>2. red[c].alConsola = Pedido(c) /\ red[c].alKernel = <<>>
    BY <2>1 DEF Conversa
  <2>3. pipeline[c].op \in {CONSOLE_INPUT, CONSOLE_OUTPUT}
    BY <1>1, <1>5 DEF HiloFiel, BuzonCoherente
  <2>4. CASE pipeline[c].op = CONSOLE_INPUT
    <3>1. red[c].alConsola = Vacio(CONSOLE_INPUT)
      BY <2>2, <2>4 DEF Pedido
    <3> QED
      BY <1>3, <1>4, <1>5, <2>2, <2>4, <3>1
  <2>5. CASE pipeline[c].op = CONSOLE_OUTPUT
    <3>1. red[c].alConsola = ConEntero(CONSOLE_OUTPUT, pipeline[c].valor)
      BY <2>2, <2>5, CodigosDistintos DEF Pedido
    <3> QED
      BY <1>3, <1>4, <1>5, <2>2, <2>5, <3>1
  <2> QED
    BY <2>3, <2>4, <2>5
<1>6. CASE hilo[c] = "fin"
  <2>1. Despide(c)
    BY <1>1, <1>6 DEF Dialoga
  <2>2. red[c].alConsola = Vacio(EXIT) /\ red[c].alKernel = <<>>
    BY <2>1 DEF Despide
  <2> QED
    BY <1>3, <1>4, <1>6, <2>2
<1> QED
  BY <1>1, <1>5, <1>6

(* A console that leaves. *)
LEMMA ConexionMuere ==
  ASSUME Base, NEW c \in Consolas, caida = "no", ~Perturbada(c), Conexion(c), Muere(c)
  PROVE  Conexion(c)'
<1>1. /\ TipoBase /\ Dialoga(c) /\ red[c].extremoC = "viva"
      /\ (red[c].extremoK # "viva" <=> Terminada(c))
      /\ hilo[c] \in Previos \cup Cargando \cup {"espera", "atiende", "responde", "fin"}
      /\ consola[c] \in {"envia"} => hilo[c] \in Previos
      /\ consola[c] \in {"teclea", "muestra"} => hilo[c] = "responde"
  BY DondeEsta DEF Base, Conexion
<1>2. /\ consola[c] \in {"envia", "espera", "teclea", "muestra"}
      /\ TerminaConsola(c, "muerta", red[c].alConsola)
      /\ UNCHANGED kernelVars /\ UNCHANGED <<tecleado, mostrado>>
  BY DEF Muere
<1>3. UNCHANGED <<hilo, pcb, pipeline, caida>>
  BY <1>2 DEF kernelVars, procesoVars
<1>4. red[c].extremoK = "viva"
  BY <1>1, <1>2 DEF Terminada
<1>5. /\ red'[c].alKernel = red[c].alKernel /\ red'[c].alConsola = red[c].alConsola
      /\ red'[c].extremoK = Cierre(red[c].alConsola) /\ consola'[c] = "muerta"
  BY <1>1, <1>2, <1>4, TerminaConsolaDeja
<1>6. /\ red[c].alConsola = <<>> => red'[c].extremoK = "fin"
      /\ red'[c].extremoK \in {"fin", "rst"}
  BY <1>5 DEF Cierre
<1>7. Dialoga(c)'
  <2>1. CASE hilo[c] \in Previos
    <3>1. Previo(c)
      BY <1>1, <2>1 DEF Dialoga, Previos
    <3>2. Previo(c)'
      BY <1>2, <1>5, <1>6, <3>1 DEF Previo
    <3> QED
      BY <1>3, <2>1, <3>2 DEF Dialoga, Previos, Cargando
  <2>2. CASE hilo[c] \in Cargando
    <3>1. Carga(c)
      BY <1>1, <2>2 DEF Dialoga
    <3>2. Carga(c)'
      BY <1>3, <1>5, <1>6, <3>1 DEF Carga, Tomados
    <3> QED
      BY <1>3, <2>2, <3>2 DEF Dialoga, Cargando
  <2>3. CASE hilo[c] \in {"espera", "atiende"}
    <3>1. Calla(c)
      BY <1>1, <2>3 DEF Dialoga
    <3>2. red[c].alConsola = <<>>
      BY <1>2, <3>1 DEF Calla
    <3>3. Calla(c)'
      BY <1>2, <1>3, <1>4, <1>5, <1>6, <3>1, <3>2 DEF Calla, PalabraFiel
    <3> QED
      BY <1>3, <2>3, <3>3 DEF Dialoga, Cargando
  <2>4. CASE hilo[c] = "responde"
    <3>1. Conversa(c)
      BY <1>1, <2>4 DEF Dialoga
    <3>2. Conversa(c)'
      BY <1>2, <1>3, <1>5, <1>6, <3>1 DEF Conversa, Contesta
    <3> QED
      BY <1>3, <2>4, <3>2 DEF Dialoga, Cargando
  <2>5. CASE hilo[c] = "fin"
    <3>1. Despide(c)
      BY <1>1, <2>5 DEF Dialoga
    <3>2. Despide(c)'
      BY <1>5, <3>1 DEF Despide
    <3> QED
      BY <1>3, <2>5, <3>2 DEF Dialoga, Cargando
  <2> QED
    BY <1>1, <2>1, <2>2, <2>3, <2>4, <2>5
<1> QED
  BY <1>2, <1>7, ConexionConsolaDe

LEMMA ConexionConsola ==
  ASSUME Base, NEW c \in Consolas, caida = "no", ~Perturbada(c), Conexion(c), NextConsola(c)
  PROVE  Conexion(c)'
<1>1. /\ TipoBase /\ HiloFiel(c) /\ Dialoga(c) /\ red[c].extremoC = "viva"
      /\ (red[c].extremoK # "viva" <=> Terminada(c))
      /\ consola[c] \in {"conecta", "envia"} => hilo[c] \in Previos
      /\ consola[c] \in {"teclea", "muestra"} => hilo[c] = "responde"
      /\ DOMAIN consola = Consolas /\ DOMAIN tecleado = Consolas /\ DOMAIN mostrado = Consolas
  BY DondeEsta DEF Base, Conexion, TipoBase
<1>2. UNCHANGED kernelVars
  BY DEF NextConsola, Conecta, NoConecta, EnviaPrograma, RecibeInput, RecibeOutput,
       RecibeExit, RecibeError, RecibeReset, Teclea, Muestra
<1>3. UNCHANGED <<hilo, pcb, pipeline, caida>>
  BY <1>2 DEF kernelVars, procesoVars
<1>4. SUFFICES Dialoga(c)'
  BY <1>2, ConexionConsolaDe
<1>5. ASSUME hilo[c] \in Previos, Previo(c)' PROVE Dialoga(c)'
  BY <1>3, <1>5 DEF Dialoga, Previos, Cargando
<1>6. ASSUME hilo[c] = "responde", Conversa(c)' PROVE Dialoga(c)'
  BY <1>3, <1>6 DEF Dialoga, Cargando
<1>7. ASSUME hilo[c] = "fin", Despide(c)' PROVE Dialoga(c)'
  BY <1>3, <1>7 DEF Dialoga, Cargando
<1>8. ASSUME hilo[c] \in Previos PROVE Previo(c)
  BY <1>1, <1>8 DEF Dialoga, Previos
<1>9. ASSUME hilo[c] = "responde"
      PROVE  Conversa(c) /\ pipeline[c].op \in {CONSOLE_INPUT, CONSOLE_OUTPUT}
  BY <1>1, <1>9 DEF Dialoga, HiloFiel, BuzonCoherente
<1>10. CASE Conecta(c)
  <2>1. consola[c] = "conecta" /\ consola'[c] = "envia" /\ red' = red
    BY <1>1, <1>10 DEF Conecta
  <2>2. Previo(c)'
    BY <1>1, <1>8, <2>1 DEF Previo
  <2> QED
    BY <1>1, <1>5, <2>1, <2>2
<1>11. CASE NoConecta(c)
  BY <1>11 DEF NoConecta
<1>12. CASE EnviaPrograma(c)
  <2>1. consola[c] = "envia" /\ EnviaConsola(c, Programa(c)) /\ Programa(c) \in Seq(Campos)
    BY <1>12, ProgramaSon DEF EnviaPrograma, Programa
  <2>2. Previo(c)
    BY <1>1, <1>8, <2>1
  <2>3. red[c].alKernel = <<>>
    BY <2>1, <2>2 DEF Previo
  <2>4. /\ red'[c].alKernel = Programa(c) /\ red'[c].alConsola = red[c].alConsola
        /\ red'[c].extremoK = red[c].extremoK /\ consola'[c] = "espera"
    BY <1>1, <2>1, <2>3, EnviaConsolaDeja
  <2>5. Previo(c)'
    BY <2>2, <2>4 DEF Previo
  <2> QED
    BY <1>1, <1>5, <2>1, <2>5
<1>13. CASE RecibeInput(c) \/ RecibeOutput(c) \/ RecibeExit(c) \/ RecibeError(c)
  <2>1. consola[c] = "espera" /\ red[c].alConsola # <<>>
    BY <1>1, <1>13 DEF RecibeInput, RecibeOutput, RecibeExit, RecibeError, RecibeOperacion, Agotada
  <2>2. /\ red[c].alKernel = <<>>
        /\ \/ /\ hilo[c] = "responde" /\ pipeline[c].op = CONSOLE_INPUT
              /\ red[c].alConsola = Vacio(CONSOLE_INPUT) /\ Operacion(c) = CONSOLE_INPUT
           \/ /\ hilo[c] = "responde" /\ pipeline[c].op = CONSOLE_OUTPUT
              /\ red[c].alConsola = ConEntero(CONSOLE_OUTPUT, pipeline[c].valor)
              /\ Operacion(c) = CONSOLE_OUTPUT
           \/ /\ hilo[c] = "fin" /\ red[c].alConsola = Vacio(EXIT) /\ Operacion(c) = EXIT
    BY <2>1, LoPedido
  <2>3. pipeline[c].valor \in Int /\ CONSOLE_INPUT \in Int /\ CONSOLE_OUTPUT \in Int /\ EXIT \in Int
    BY <1>1, BuzonTipo, CodigosEnteros DEF Codigos
  <2>4. /\ Desde(Vacio(CONSOLE_INPUT), 3) = <<>> /\ Desde(Vacio(EXIT), 3) = <<>>
        /\ Desde(ConEntero(CONSOLE_OUTPUT, pipeline[c].valor), 5) = <<>>
    <3>1. ASSUME NEW op \in {CONSOLE_INPUT, EXIT} PROVE Desde(Vacio(op), 3) = <<>>
      <4>1. Vacio(op) \in Seq(Campos) /\ Len(Vacio(op)) = 2
        BY <2>3, PaquetesTipo
      <4>2. 3 \in Nat /\ 3 = Len(Vacio(op)) + 1
        BY <4>1
      <4> QED
        BY <4>1, <4>2, NadaQueda
    <3>2. Desde(ConEntero(CONSOLE_OUTPUT, pipeline[c].valor), 5) = <<>>
      <4> DEFINE p == ConEntero(CONSOLE_OUTPUT, pipeline[c].valor)
      <4>1. p \in Seq(Campos) /\ Len(p) = 4
        BY <2>3, PaquetesTipo
      <4>2. 5 \in Nat /\ 5 = Len(p) + 1
        BY <4>1
      <4> QED
        BY <4>1, <4>2, NadaQueda
    <3> QED
      BY <3>1, <3>2
  <2>5. CASE RecibeInput(c)
    <3>1. /\ Operacion(c) = CONSOLE_INPUT /\ consola'[c] = "teclea"
          /\ red' = [red EXCEPT ![c].alConsola = Desde(red[c].alConsola, 3)]
      BY <1>1, <2>5 DEF RecibeInput, RecibeOperacion
    <3>2. /\ hilo[c] = "responde" /\ pipeline[c].op = CONSOLE_INPUT
          /\ red[c].alConsola = Vacio(CONSOLE_INPUT)
      BY <2>2, <3>1, CodigosDistintos
    <3>3. red'[c].alKernel = red[c].alKernel /\ red'[c].alConsola = Desde(red[c].alConsola, 3)
      BY <1>1, <3>1, LeeConsolaDeja
    <3>4. red'[c].alKernel = <<>> /\ red'[c].alConsola = <<>>
      BY <2>2, <2>4, <3>2, <3>3
    <3>5. Conversa(c)'
      BY <1>3, <3>1, <3>2, <3>4 DEF Conversa
    <3> QED
      BY <1>6, <3>2, <3>5
  <2>6. CASE RecibeOutput(c)
    <3>1. /\ Operacion(c) = CONSOLE_OUTPUT /\ consola'[c] = "muestra"
          /\ red' = [red EXCEPT ![c].alConsola = Desde(red[c].alConsola, 5)]
          /\ mostrado'[c] = red[c].alConsola[4].valor
      BY <1>1, <2>6 DEF RecibeOutput, RecibeOperacion
    <3>2. /\ hilo[c] = "responde" /\ pipeline[c].op = CONSOLE_OUTPUT
          /\ red[c].alConsola = ConEntero(CONSOLE_OUTPUT, pipeline[c].valor)
      BY <2>2, <3>1, CodigosDistintos
    <3>3. red'[c].alKernel = red[c].alKernel /\ red'[c].alConsola = Desde(red[c].alConsola, 5)
      BY <1>1, <3>1, LeeConsolaDeja
    <3>4. red'[c].alKernel = <<>> /\ red'[c].alConsola = <<>>
      BY <2>2, <2>4, <3>2, <3>3
    <3>5. mostrado'[c] = pipeline[c].valor
      BY <2>3, <3>1, <3>2, PaquetesTipo, EnteroTipo
    <3>6. Conversa(c)'
      BY <1>3, <3>1, <3>2, <3>4, <3>5 DEF Conversa
    <3> QED
      BY <1>6, <3>2, <3>6
  <2>7. CASE RecibeExit(c)
    <3>1. Operacion(c) = EXIT /\ TerminaConsola(c, "exito", Desde(red[c].alConsola, 3))
      BY <2>7 DEF RecibeExit, RecibeOperacion
    <3>2. hilo[c] = "fin" /\ red[c].alConsola = Vacio(EXIT)
      BY <2>2, <3>1, CodigosDistintos
    <3>3. red[c].extremoK = "viva"
      BY <1>1, <2>1 DEF Terminada
    <3>4. red'[c].alKernel = <<>> /\ consola'[c] = "exito"
      BY <1>1, <2>2, <3>1, <3>3, TerminaConsolaDeja
    <3>5. Despide(c)'
      BY <3>4 DEF Despide
    <3> QED
      BY <1>7, <3>2, <3>5
  <2>8. CASE RecibeError(c)
    BY <2>2, <2>8 DEF RecibeError, RecibeOperacion
  <2> QED
    BY <1>13, <2>5, <2>6, <2>7, <2>8
<1>14. CASE RecibeReset(c)
  BY <1>1, <1>14 DEF RecibeReset
<1>15. ASSUME NEW v \in Valores, Teclea(c, v) PROVE Dialoga(c)'
  <2>1. /\ consola[c] = "teclea" /\ tecleado'[c] = v
        /\ EnviaConsola(c, ConEntero(CONSOLE_INPUT_RESPUESTA, v))
    BY <1>1, <1>15 DEF Teclea
  <2>2. hilo[c] = "responde" /\ Conversa(c)
    BY <1>1, <1>9, <2>1
  <2>3. /\ red[c].alKernel = <<>> /\ red[c].alConsola = <<>> /\ pipeline[c].op = CONSOLE_INPUT
    BY <2>1, <2>2 DEF Conversa
  <2>4. ConEntero(CONSOLE_INPUT_RESPUESTA, v) \in Seq(Campos)
    BY SupuestosDialogo, CodigosEnteros, PaquetesTipo DEF SupuestosDialogo, Respuestas
  <2> DEFINE p == ConEntero(CONSOLE_INPUT_RESPUESTA, v)
  <2>5. red'[c].alKernel = p /\ red'[c].alConsola = <<>> /\ consola'[c] = "espera"
    <3> HIDE DEF p
    <3> QED
      BY <1>1, <2>1, <2>3, <2>4, EnviaConsolaDeja DEF p
  <2>6. Contesta(c)'
    BY <1>3, <2>1, <2>3, <2>5 DEF Contesta
  <2>7. Conversa(c)'
    BY <2>5, <2>6 DEF Conversa
  <2> QED
    BY <1>6, <2>2, <2>7
<1>16. CASE Muestra(c)
  <2>1. /\ consola[c] = "muestra" /\ UNCHANGED mostrado
        /\ EnviaConsola(c, Vacio(CONSOLE_OUTPUT_RESPUESTA))
    BY <1>16 DEF Muestra
  <2>2. hilo[c] = "responde" /\ Conversa(c)
    BY <1>1, <1>9, <2>1
  <2>3. /\ red[c].alKernel = <<>> /\ red[c].alConsola = <<>> /\ pipeline[c].op = CONSOLE_OUTPUT
        /\ pipeline[c].valor = mostrado[c]
    BY <2>1, <2>2 DEF Conversa
  <2>4. Vacio(CONSOLE_OUTPUT_RESPUESTA) \in Seq(Campos)
    BY CodigosEnteros, PaquetesTipo DEF Respuestas
  <2> DEFINE p == Vacio(CONSOLE_OUTPUT_RESPUESTA)
  <2>5. red'[c].alKernel = p /\ red'[c].alConsola = <<>> /\ consola'[c] = "espera"
    <3> HIDE DEF p
    <3> QED
      BY <1>1, <2>1, <2>3, <2>4, EnviaConsolaDeja DEF p
  <2>6. Contesta(c)'
    BY <1>3, <2>1, <2>3, <2>5 DEF Contesta
  <2>7. Conversa(c)'
    BY <2>5, <2>6 DEF Conversa
  <2> QED
    BY <1>6, <2>2, <2>7
<1> QED
  BY <1>10, <1>11, <1>12, <1>13, <1>14, <1>15, <1>16 DEF NextConsola

-----------------------------------------------------------------------------
(* The console of the connection, once the Kernel fell. *)

LEMMA RotoQueda ==
  ASSUME TipoBase, NEW c \in Consolas, NextConsola(c) \/ Muere(c), red[c].extremoK = "roto"
  PROVE  red'[c].extremoK = "roto"
<1> DEFINE k == red[c].alKernel
           a == red[c].alConsola
           ec == red[c].extremoC
<1>1. red \in [Consolas -> Canales] /\ DOMAIN red = Consolas
  BY CanalDe
<1>2. ASSUME NEW r, NEW s, TerminaConsola(c, r, s) PROVE red'[c].extremoK = "roto"
  <2>1. red' = [red EXCEPT ![c] = Canal(k, s, "roto", ec)]
    BY <1>2, TerminaConsolaEs
  <2> HIDE DEF k, ec
  <2> QED
    BY <2>1, CambiaRed
<1>3. ASSUME NEW campos, EnviaConsola(c, campos) PROVE red'[c].extremoK = "roto"
  <2>1. CASE ec = "roto"
    <3>1. TerminaConsola(c, "muerta", <<>>)
      BY <1>3, <2>1, EnviaConsolaEs
    <3> QED
      BY <1>2, <3>1
  <2>2. CASE ec # "roto"
    <3> DEFINE k2 == IF ec = "viva" THEN k \o campos ELSE k
               ec2 == TrasEnviar(ec)
    <3>1. red' = [red EXCEPT ![c] = Canal(k2, a, "roto", ec2)]
      BY <1>3, <2>2, EnviaConsolaEs
    <3> HIDE DEF k2, a, ec2
    <3> QED
      BY <3>1, CambiaRed
  <2> QED
    BY <2>1, <2>2
<1>4. CASE Conecta(c) \/ NoConecta(c)
  BY <1>4 DEF Conecta, NoConecta
<1>5. CASE RecibeInput(c) \/ RecibeOutput(c)
  <2>1. \E s : red' = [red EXCEPT ![c].alConsola = s]
    BY <1>5 DEF RecibeInput, RecibeOutput
  <2> QED
    BY <2>1, LeeConsolaDeja
<1>6. CASE RecibeReset(c)
  <2>1. red' = [red EXCEPT ![c].extremoC = "roto"]
    BY <1>6 DEF RecibeReset
  <2>2. red[c] = Canal(k, a, "roto", ec)
    BY CanalDe
  <2> HIDE DEF k, a, ec
  <2>3. red'[c] = [red[c] EXCEPT !.extremoC = "roto"]
    BY <1>1, <2>1
  <2>4. red'[c] = Canal(k, a, "roto", "roto")
    BY <2>2, <2>3 DEF Canal
  <2> QED
    BY <2>4, CanalCampos
<1>7. CASE EnviaPrograma(c) \/ Muestra(c) \/ \E v \in Valores : Teclea(c, v)
  BY <1>3, <1>7 DEF EnviaPrograma, Muestra, Teclea
<1>8. CASE RecibeExit(c) \/ RecibeError(c) \/ Muere(c)
  BY <1>2, <1>8 DEF RecibeExit, RecibeError, Muere
<1> QED
  BY <1>4, <1>5, <1>6, <1>7, <1>8 DEF NextConsola

LEMMA ConexionSinKernel ==
  ASSUME Base, NEW c \in Consolas, caida # "no", ~Perturbada(c), Conexion(c),
         NextConsola(c) \/ Muere(c)
  PROVE  Conexion(c)'
<1>1. TipoBase /\ HiloFiel(c) /\ Abandonada(c) /\ DOMAIN consola = Consolas
  BY DEF Base, Conexion, TipoBase
<1>2. UNCHANGED kernelVars
  BY DEF NextConsola, Muere, Conecta, NoConecta, EnviaPrograma, RecibeInput, RecibeOutput,
       RecibeExit, RecibeError, RecibeReset, Teclea, Muestra
<1>3. UNCHANGED <<hilo, pcb, pipeline, caida>>
  BY <1>2 DEF kernelVars, procesoVars
<1>4. HiloFiel(c)'
  BY <1>1, <1>3 DEF HiloFiel, PcbParcial, BuzonCoherente, Tomados
<1>5. Abandonada(c)'
  <2> SUFFICES ASSUME pipeline'[c].op \in Respuestas, red'[c].extremoK # "roto"
               PROVE  PalabraFiel(c)' /\ consola'[c] \in {"error", "muerta"}
    BY DEF Abandonada
  <2>1. /\ PalabraFiel(c)
        /\ \/ consola[c] \in {"error", "muerta"}
           \/ consola[c] = "espera" /\ red[c].alConsola = <<>> /\ red[c].extremoC = "fin"
    BY <1>1, <1>3, RotoQueda DEF Abandonada
  <2>2. consola[c] \notin {"error", "muerta"}
    BY DEF NextConsola, Muere, Conecta, NoConecta, EnviaPrograma, RecibeInput, RecibeOutput,
         RecibeExit, RecibeError, RecibeReset, Teclea, Muestra, RecibeOperacion
  <2>3. consola[c] = "espera" /\ red[c].alConsola = <<>> /\ red[c].extremoC = "fin"
    BY <2>1, <2>2
  <2>4. Operacion(c) = -1 /\ -1 \notin {CONSOLE_INPUT, CONSOLE_OUTPUT, EXIT}
    BY <2>3, CodigosDistintos DEF Operacion, CONSOLE_INPUT, CONSOLE_OUTPUT, EXIT
  <2>5. RecibeError(c) \/ Muere(c)
    <3>1. ~Conecta(c) /\ ~NoConecta(c) /\ ~EnviaPrograma(c) /\ ~Muestra(c)
      BY <2>3 DEF Conecta, NoConecta, EnviaPrograma, Muestra
    <3>2. \A v \in Valores : ~Teclea(c, v)
      BY <2>3 DEF Teclea
    <3>3. ~RecibeInput(c) /\ ~RecibeOutput(c) /\ ~RecibeExit(c)
      BY <2>4 DEF RecibeInput, RecibeOutput, RecibeExit, RecibeOperacion
    <3>4. ~RecibeReset(c)
      BY <2>3 DEF RecibeReset
    <3> QED
      BY <3>1, <3>2, <3>3, <3>4 DEF NextConsola
  <2>6. UNCHANGED <<tecleado, mostrado>>
    BY <2>5 DEF RecibeError, Muere
  <2>7. \E r \in {"error", "muerta"} : consola' = [consola EXCEPT ![c] = r]
    BY <2>5 DEF RecibeError, Muere, TerminaConsola
  <2>8. PalabraFiel(c)'
    BY <1>3, <2>1, <2>6 DEF PalabraFiel
  <2> QED
    BY <1>1, <2>7, <2>8
<1> QED
  BY <1>3, <1>4, <1>5 DEF Conexion

-----------------------------------------------------------------------------
(* The thread of the connection takes the first packet apart. *)

LEMMA RestoFin ==
  ASSUME NEW c \in Consolas
  PROVE  Resto(c, Len(CamposIniciales(c))) = 0
<1> DEFINE campos == CamposIniciales(c)
           n == Len(campos)
           A == {b \in BytesDe(campos) : b[1] > n}
<1>1. campos \in Seq(Campos)
  BY CamposInicialesSon
<1>2. n \in Nat /\ DOMAIN campos = 1 .. n
  BY <1>1, LenProperties
<1>3. ASSUME NEW b \in BytesDe(campos) PROVE ~(b[1] > n)
  <2> HIDE DEF campos, n
  <2>1. PICK i \in 1 .. n : b \in {i} \X (1 .. (4 + campos[i].bytes))
    BY <1>2 DEF BytesDe
  <2>2. b[1] = i
    BY <2>1
  <2> QED
    BY <1>2, <2>2
<1>4. A = {}
  BY <1>3
<1>5. Cardinality(A) = 0
  BY <1>4, FS_EmptySet
<1> QED
  BY <1>5 DEF Resto

(* The stream after n fields. *)
LEMMA CampoQueSigue ==
  ASSUME NEW c \in Consolas, NEW n \in Nat, n <= Len(CamposIniciales(c)),
         NEW k, k = Desde(Programa(c), 3 + 2 * n)
  PROVE  /\ k \in Seq(Campos) /\ Len(k) = 2 * (Len(CamposIniciales(c)) - n)
         /\ n = Len(CamposIniciales(c)) => k = <<>>
         /\ n < Len(CamposIniciales(c)) =>
              /\ Len(k) >= 2 /\ Head(k) = Entero(CamposIniciales(c)[n + 1].bytes)
              /\ k[2] = CamposIniciales(c)[n + 1]
              /\ Desde(k, 3) = Desde(Programa(c), 3 + 2 * (n + 1))
<1> DEFINE campos == CamposIniciales(c)
           l == Len(campos)
           p == Programa(c)
           m == 3 + 2 * n
<1>1. /\ p \in Seq(Campos) /\ Len(p) = 2 + 2 * l
      /\ \A i \in 1 .. l : p[2 * i + 1] = Entero(campos[i].bytes) /\ p[2 * i + 2] = campos[i]
  BY ProgramaSon
<1>2. l \in Nat /\ n <= l
  BY CamposInicialesSon, LenProperties
<1> HIDE DEF campos, l, p
<1>3. m \in 1 .. (Len(p) + 1) /\ Len(p) - m + 1 = 2 * (l - n)
  BY <1>1, <1>2
<1>4. k = Desde(p, m)
  BY DEF p
<1>5. /\ k \in Seq(Campos) /\ Len(k) = Len(p) - m + 1
      /\ \A i \in 1 .. (Len(p) - m + 1) : k[i] = p[m + i - 1]
  <2> HIDE DEF m
  <2>1. /\ Desde(p, m) \in Seq(Campos) /\ Len(Desde(p, m)) = Len(p) - m + 1
        /\ \A i \in 1 .. (Len(p) - m + 1) : Desde(p, m)[i] = p[m + i - 1]
    BY <1>1, <1>3, DesdeTipo
  <2> QED
    BY <1>4, <2>1
<1>6. ASSUME n = l PROVE k = <<>>
  <2>1. Len(k) = 0
    BY <1>2, <1>3, <1>5, <1>6
  <2> QED
    BY <1>5, <2>1, LargoCero
<1>7. ASSUME n < l
      PROVE  /\ Len(k) >= 2 /\ Head(k) = Entero(campos[n + 1].bytes) /\ k[2] = campos[n + 1]
             /\ Desde(k, 3) = Desde(p, 3 + 2 * (n + 1))
  <2>1. Len(k) >= 2 /\ n + 1 \in 1 .. l /\ 1 \in 1 .. (Len(p) - m + 1) /\ 2 \in 1 .. (Len(p) - m + 1)
    BY <1>2, <1>3, <1>5, <1>7, SMTT(30)
  <2>2. k[1] = p[m + 1 - 1] /\ k[2] = p[m + 2 - 1]
    BY <1>5, <2>1
  <2>3. m + 1 - 1 = 2 * (n + 1) + 1 /\ m + 2 - 1 = 2 * (n + 1) + 2
    BY <1>2
  <2>4. k[1] = Entero(campos[n + 1].bytes) /\ k[2] = campos[n + 1]
    BY <1>1, <2>1, <2>2, <2>3
  <2>5. k # <<>>
    BY <1>5, <2>1, LargoCero
  <2>6. Head(k) = k[1]
    BY <1>5, <2>5, HeadTailProperties
  <2>7. 3 \in 1 .. (Len(p) - m + 2) /\ m + 3 - 1 = 3 + 2 * (n + 1)
    BY <1>2, <1>3, <1>5, <2>1
  <2>8. Desde(Desde(p, m), 3) = Desde(p, m + 3 - 1)
    BY <1>1, <1>3, <2>7, DesdeDesde
  <2> QED
    BY <1>4, <2>1, <2>4, <2>6, <2>7, <2>8
<1> QED
  BY <1>3, <1>5, <1>6, <1>7 DEF p, l, campos

(* Where a thread that is taking the packet apart is.                      *)
LEMMA CargaSabe ==
  ASSUME Base, NEW c \in Consolas, caida = "no", ~Perturbada(c), Conexion(c), hilo[c] \in Cargando
  PROVE  /\ Tomados(c) \in Nat /\ Tomados(c) <= Len(CamposIniciales(c))
         /\ red[c].alKernel = Desde(Programa(c), 3 + 2 * Tomados(c))
         /\ hilo[c] = "cantidad" => Tomados(c) = 0
         /\ hilo[c] # "cantidad" => /\ Len(pcb[c].segmentos) \in Nat /\ Len(pcb[c].instrucciones) \in Nat
                                    /\ Tomados(c) = 1 + Len(pcb[c].segmentos) + Len(pcb[c].instrucciones)
         /\ hilo[c] = "segmentos" =>
              /\ pcb[c].instrucciones = <<>>
              /\ Len(pcb[c].segmentos) <= Len(Segmentos[c])
              /\ Falta(c) => Len(pcb[c].segmentos) < Len(Segmentos[c])
              /\ ~Falta(c) => pcb[c].segmentos = Segmentos[c]
         /\ hilo[c] = "lineas" =>
              /\ pcb[c].segmentos = Segmentos[c] /\ Len(pcb[c].instrucciones) <= Len(Lineas[c])
              /\ Falta(c) => Len(pcb[c].instrucciones) < Len(Lineas[c])
              /\ ~Falta(c) => pcb[c].instrucciones = Lineas[c]
         /\ Falta(c) => Tomados(c) < Len(CamposIniciales(c))
<1> DEFINE seg == pcb[c].segmentos
           ins == pcb[c].instrucciones
           ns == Len(Segmentos[c])
           nl == Len(Lineas[c])
           n == Tomados(c)
           l == Len(CamposIniciales(c))
<1>1. /\ HiloFiel(c) /\ Carga(c) /\ PcbParcial(c)
  BY DEF Conexion, Dialoga, HiloFiel
<1>2. seg \in Seq(Int) /\ ins \in Seq(Int) /\ pcb[c].cant \in Int /\ pcb[c].restante \in Int
  BY DEF Base, TipoBase
<1>3. Len(seg) \in Nat /\ Len(ins) \in Nat
  BY <1>2, LenProperties
<1>4. l = 1 + ns + nl /\ ns \in Nat /\ nl \in Nat /\ Segmentos[c] \in Seq(Int) /\ Lineas[c] \in Seq(Nat)
  BY CamposInicialesSon, SupuestosDialogo DEF SupuestosDialogo
<1>5. red[c].alKernel = Desde(Programa(c), 3 + 2 * n)
  BY <1>1 DEF Carga
<1>6. CASE hilo[c] = "cantidad"
  <2>1. n = 0
    BY <1>6 DEF Tomados
  <2> HIDE DEF n, l, ns, nl
  <2>2. n \in Nat /\ n <= l /\ n < l
    BY <1>4, <2>1
  <2> QED
    BY <1>5, <1>6, <2>1, <2>2 DEF n, l
<1>7. CASE hilo[c] = "segmentos"
  <2>1. n = 1 + Len(seg) + Len(ins)
    BY <1>7 DEF Tomados
  <2>2. ins = <<>> /\ Len(ins) = 0 /\ pcb[c].cant = ns /\ EsPrefijo(seg, Segmentos[c])
    <3>1. ins = <<>> /\ pcb[c].cant = ns /\ EsPrefijo(seg, Segmentos[c])
      BY <1>1, <1>7 DEF PcbParcial
    <3> QED
      BY <1>2, <3>1, LargoCero
  <2>3. Len(seg) <= ns /\ \A i \in 1 .. Len(seg) : seg[i] = Segmentos[c][i]
    BY <2>2 DEF EsPrefijo
  <2>4. Falta(c) <=> Len(seg) < ns
    BY <1>7, <2>2 DEF Falta
  <2>5. ASSUME ~Falta(c) PROVE seg = Segmentos[c]
    <3>1. Len(seg) = ns
      BY <1>3, <1>4, <2>3, <2>4, <2>5
    <3>2. Segmentos[c] \in Seq(Int) /\ \A i \in 1 .. Len(seg) : seg[i] = Segmentos[c][i]
      BY <1>4, <2>3
    <3> QED
      BY <1>2, <3>1, <3>2, SeqEqual
  <2> HIDE DEF n, l, ns, nl, seg, ins
  <2>6. n \in Nat /\ n <= l /\ (Falta(c) => n < l)
    BY <1>3, <1>4, <2>1, <2>2, <2>3, <2>4
  <2> QED
    BY <1>3, <1>5, <1>7, <2>1, <2>2, <2>3, <2>4, <2>5, <2>6 DEF n, l, ns, seg, ins
<1>8. CASE hilo[c] = "lineas"
  <2>1. n = 1 + Len(seg) + Len(ins)
    BY <1>8 DEF Tomados
  <2>2. seg = Segmentos[c] /\ EsPrefijo(ins, Lineas[c]) /\ pcb[c].restante = Resto(c, n)
    BY <1>1, <1>8 DEF PcbParcial
  <2>3. Len(ins) <= nl /\ (\A i \in 1 .. Len(ins) : ins[i] = Lineas[c][i]) /\ Len(seg) = ns
    BY <2>2 DEF EsPrefijo
  <2>4. Falta(c) <=> Resto(c, n) > 0
    BY <1>8, <2>2 DEF Falta
  <2>5. n \in Nat /\ n <= l /\ (n = l <=> Len(ins) = nl) /\ (n < l <=> Len(ins) < nl) /\ (n < l \/ n = l)
    <3>1. n = 1 + ns + Len(ins) /\ l = 1 + ns + nl /\ Len(ins) <= nl
      BY <1>4, <2>1, <2>3
    <3> DEFINE x == Len(ins)
    <3>2. x \in Nat /\ ns \in Nat /\ nl \in Nat
      BY <1>3, <1>4
    <3> HIDE DEF n, l, ns, nl, x
    <3>3. n = 1 + ns + x /\ l = 1 + ns + nl /\ x <= nl
      BY <3>1 DEF x
    <3>4. n \in Nat /\ n <= l /\ (n = l <=> x = nl) /\ (n < l <=> x < nl) /\ (n < l \/ n = l)
      BY <3>2, <3>3
    <3> QED
      BY <3>4 DEF x
  <2>6. n < l => Resto(c, n) > 0
    <3> SUFFICES ASSUME n < l PROVE Resto(c, n) > 0
      OBVIOUS
    <3> HIDE DEF n
    <3>1. Resto(c, n) \in Nat \ {0}
      BY <2>5, RestoCampo
    <3> QED
      BY <3>1
  <2>7. n = l => ~(Resto(c, n) > 0)
    BY RestoFin
  <2>8. Falta(c) <=> n < l
    BY <2>4, <2>5, <2>6, <2>7
  <2>9. ASSUME ~Falta(c) PROVE ins = Lineas[c]
    <3>1. Len(ins) = nl
      BY <2>5, <2>8, <2>9
    <3>2. Lineas[c] \in Seq(Int) /\ \A i \in 1 .. Len(ins) : ins[i] = Lineas[c][i]
      BY <1>4, <2>3
    <3> QED
      BY <1>2, <3>1, <3>2, SeqEqual
  <2> HIDE DEF n, l, ns, nl, seg, ins
  <2> QED
    BY <1>3, <1>5, <1>8, <2>1, <2>2, <2>3, <2>5, <2>8, <2>9 DEF n, l, ns, nl, seg, ins
<1> QED
  BY <1>6, <1>7, <1>8 DEF Cargando

LEMMA RestoTodo ==
  ASSUME NEW c \in Consolas
  PROVE  Resto(c, 0) = Cardinality(BytesDe(CamposIniciales(c)))
<1> DEFINE campos == CamposIniciales(c)
           n == Len(campos)
           B == BytesDe(campos)
<1>1. campos \in Seq(Campos)
  BY CamposInicialesSon
<1>2. n \in Nat /\ DOMAIN campos = 1 .. n
  BY <1>1, LenProperties
<1>3. ASSUME NEW b \in B PROVE b[1] > 0
  <2> HIDE DEF campos, n
  <2>1. PICK i \in 1 .. n : b \in {i} \X (1 .. (4 + campos[i].bytes))
    BY <1>2 DEF BytesDe
  <2>2. b[1] = i
    BY <2>1
  <2> QED
    BY <1>2, <2>2
<1> HIDE DEF B
<1>4. {b \in B : b[1] > 0} = B
  BY <1>3
<1> QED
  BY <1>4 DEF Resto, B, campos

LEMMA PrefijoSigue ==
  ASSUME NEW s \in Seq(Int), NEW t, Len(t) \in Nat, EsPrefijo(s, t), Len(s) < Len(t),
         NEW x, x \in Int, x = t[Len(s) + 1]
  PROVE  EsPrefijo(Append(s, x), t) /\ Len(Append(s, x)) = Len(s) + 1
<1>1. Len(s) \in Nat /\ \A i \in 1 .. Len(s) : s[i] = t[i]
  BY LenProperties DEF EsPrefijo
<1>2. /\ Len(Append(s, x)) = Len(s) + 1
      /\ \A i \in 1 .. Len(s) : Append(s, x)[i] = s[i]
      /\ Append(s, x)[Len(s) + 1] = x
  BY AppendProperties
<1> DEFINE n == Len(s)
           u == Append(s, x)
<1> HIDE DEF n, u
<1>3. ASSUME NEW i \in 1 .. (n + 1) PROVE u[i] = t[i]
  <2>1. CASE i = n + 1
    BY <1>2, <2>1 DEF n, u
  <2>2. CASE i # n + 1
    <3>1. i \in 1 .. n
      BY <1>1, <2>2 DEF n
    <3> QED
      BY <1>1, <1>2, <3>1 DEF n, u
  <2> QED
    BY <2>1, <2>2
<1>4. Len(u) = n + 1 /\ n + 1 <= Len(t)
  BY <1>1, <1>2 DEF n, u
<1> QED
  BY <1>2, <1>3, <1>4 DEF EsPrefijo, n, u

LEMMA HiloPropio ==
  ASSUME Base, NEW c \in Consolas, hilo[c] \in PasosAtendidos, ~Perturbada(c)
  PROVE  Toma(c) = c /\ Llega(c) = red[c].alKernel /\ Extremo(c) = red[c].extremoK
<1>1. c \in Atendidos
  BY AtendidoEs DEF Base
<1>2. Toma(c) = c
  BY <1>1, TomaEs DEF Base
<1> QED
  BY <1>2 DEF Llega, Extremo

LEMMA ConsumeDeja ==
  ASSUME TipoBase, NEW c \in Consolas, Toma(c) = c, NEW n, Consume(c, n)
  PROVE  /\ red'[c].alKernel = Desde(red[c].alKernel, n + 1)
         /\ red'[c].alConsola = red[c].alConsola /\ red'[c].extremoK = red[c].extremoK
         /\ caida' = caida
<1> DEFINE k == Desde(red[c].alKernel, n + 1)
           a == red[c].alConsola
           ek == red[c].extremoK
           ec == red[c].extremoC
<1>1. red' = [red EXCEPT ![c] = Canal(k, a, ek, ec)] /\ caida' = caida
  BY ConsumeEs DEF Llega
<1> HIDE DEF k, a, ek, ec
<1>2. red'[c].alKernel = k /\ red'[c].alConsola = a /\ red'[c].extremoK = ek
  BY <1>1, CambiaRed
<1> QED
  BY <1>1, <1>2 DEF k, a, ek

(* The whole packet is there. *)
LEMMA ConexionEncabezado ==
  ASSUME Base, NEW c \in Consolas, caida = "no", ~Perturbada(c), Conexion(c), RecibeEncabezado(c)
  PROVE  Conexion(c)'
<1>1. /\ hilo[c] = "encabezado" /\ Len(Llega(c)) >= 2
      /\ pcb' = [pcb EXCEPT ![c].restante = Llega(c)[2].valor]
      /\ Consume(c, 2) /\ hilo' = [hilo EXCEPT ![c] = "cantidad"]
      /\ UNCHANGED <<consola, pipeline>>
  BY DEF RecibeEncabezado, Pasa, ajenas, consolaVars
<1>2. TipoBase /\ DOMAIN hilo = Consolas /\ pcb \in [Consolas -> PCBs]
  BY DEF Base, TipoBase, PCBs
<1>3. Toma(c) = c /\ Llega(c) = red[c].alKernel
  BY <1>1, HiloPropio DEF PasosAtendidos
<1>4. HiloFiel(c) /\ Previo(c)
  BY <1>1 DEF Conexion, Dialoga
<1>5. /\ red'[c].alKernel = Desde(red[c].alKernel, 2 + 1)
      /\ red'[c].alConsola = red[c].alConsola /\ red'[c].extremoK = red[c].extremoK
      /\ caida' = caida
  BY <1>1, <1>2, <1>3, ConsumeDeja
<1>6. red[c].alKernel = Programa(c) /\ consola[c] \in {"espera", "muerta"}
  <2>1. red[c].alKernel # <<>>
    BY <1>1, <1>3
  <2> QED
    BY <1>4, <2>1 DEF Previo
<1>7. hilo'[c] = "cantidad"
  BY <1>1, <1>2
<1>8. /\ pcb'[c].restante = Llega(c)[2].valor /\ pcb'[c].segmentos = pcb[c].segmentos
      /\ pcb'[c].instrucciones = pcb[c].instrucciones
  BY <1>1, <1>2 DEF PCBs
<1>9. Llega(c)[2].valor = Resto(c, 0)
  <2>1. BytesDe(CamposIniciales(c)) = BytesDe(CamposIniciales(c)) /\ CamposIniciales(c) \in Seq(Campos)
    BY CamposInicialesSon
  <2>2. Cardinality(BytesDe(CamposIniciales(c))) \in Int
    BY <2>1, BytesFinitos
  <2>3. Programa(c)[2] = Entero(Cardinality(BytesDe(CamposIniciales(c))))
    BY ProgramaSon
  <2> QED
    BY <1>3, <1>6, <2>2, <2>3, EnteroTipo, RestoTodo
<1>10. HiloFiel(c)'
  <2>1. pcb[c].segmentos = <<>> /\ pcb[c].instrucciones = <<>>
    BY <1>1, <1>4 DEF HiloFiel, PcbParcial
  <2>2. PcbParcial(c)'
    BY <1>7, <1>8, <1>9, <2>1 DEF PcbParcial
  <2>3. BuzonCoherente(c)'
    BY <1>1, <1>4, <1>7 DEF HiloFiel, BuzonCoherente
  <2> QED
    BY <1>7, <2>2, <2>3 DEF HiloFiel
<1>11. Carga(c)'
  <2>1. Tomados(c)' = 0
    BY <1>7 DEF Tomados
  <2>2. 3 + 2 * 0 = 3 /\ 2 + 1 = 3
    OBVIOUS
  <2>3. red'[c].alKernel = Desde(Programa(c), 3 + 2 * 0)
    BY <1>5, <1>6, <2>2
  <2>4. red[c].alConsola = <<>> /\ red[c].extremoK \in {"viva", "fin"}
    BY <1>4 DEF Previo
  <2> QED
    BY <1>1, <1>5, <1>6, <2>1, <2>3, <2>4 DEF Carga
<1>12. Dialoga(c)'
  BY <1>7, <1>11 DEF Dialoga
<1> QED
  BY <1>5, <1>10, <1>12 DEF Conexion

(* One field more.                                                         *)
LEMMA CargaSigue ==
  ASSUME Base, NEW c \in Consolas, caida = "no", ~Perturbada(c), Conexion(c),
         hilo[c] \in Cargando, Recibir(c), UNCHANGED consola
  PROVE  /\ Tomados(c) \in Nat /\ Tomados(c) + 1 \in Nat
         /\ Tomados(c) < Len(CamposIniciales(c))
         /\ Recibido(c) = CamposIniciales(c)[Tomados(c) + 1].valor
         /\ red'[c].alKernel = Desde(Programa(c), 3 + 2 * (Tomados(c) + 1))
         /\ red'[c].alConsola = <<>> /\ red'[c].extremoK \in {"viva", "fin"}
         /\ consola'[c] \in {"espera", "muerta"} /\ caida' = caida
<1> DEFINE n == Tomados(c)
           k == red[c].alKernel
<1>1. Falta(c) /\ Consume(c, 2)
  BY DEF Recibir
<1>2. n \in Nat /\ n < Len(CamposIniciales(c)) /\ k = Desde(Programa(c), 3 + 2 * n)
  BY <1>1, CargaSabe
<1>3. Toma(c) = c /\ Llega(c) = k
  BY HiloPropio DEF PasosAtendidos, Cargando
<1>4. Carga(c)
  BY DEF Conexion, Dialoga
<1>5. /\ red'[c].alKernel = Desde(k, 2 + 1)
      /\ red'[c].alConsola = red[c].alConsola /\ red'[c].extremoK = red[c].extremoK
      /\ caida' = caida
  BY <1>1, <1>3, ConsumeDeja DEF Base
<1>6. 2 + 1 = 3 /\ n <= Len(CamposIniciales(c)) /\ n + 1 \in Nat
  <2>1. Len(CamposIniciales(c)) \in Nat
    BY CamposInicialesSon, LenProperties
  <2> HIDE DEF n
  <2> QED
    BY <1>2, <2>1
<1> HIDE DEF n, k
<1>7. k[2] = CamposIniciales(c)[n + 1] /\ Desde(k, 3) = Desde(Programa(c), 3 + 2 * (n + 1))
  BY <1>2, <1>6, CampoQueSigue
<1>8. Recibido(c) = CamposIniciales(c)[n + 1].valor
  BY <1>3, <1>7 DEF Recibido
<1>9. /\ red[c].alConsola = <<>> /\ red[c].extremoK \in {"viva", "fin"}
      /\ consola[c] \in {"espera", "muerta"}
  BY <1>4 DEF Carga
<1> QED
  BY <1>2, <1>5, <1>6, <1>7, <1>8, <1>9 DEF n

LEMMA ConexionCantidad ==
  ASSUME Base, NEW c \in Consolas, caida = "no", ~Perturbada(c), Conexion(c), RecibeCantidad(c)
  PROVE  Conexion(c)'
<1> DEFINE ns == Len(Segmentos[c])
           r == pcb[c].restante - (Recibido(c) + 1) * 8
<1>1. /\ hilo[c] = "cantidad" /\ Recibir(c)
      /\ pcb' = [pcb EXCEPT ![c].cant = Recibido(c), ![c].restante = @ - (Recibido(c) + 1) * 8]
      /\ hilo' = [hilo EXCEPT ![c] = "segmentos"] /\ UNCHANGED <<consola, pipeline>>
  BY DEF RecibeCantidad, Pasa, ajenas, consolaVars
<1>2. DOMAIN hilo = Consolas /\ pcb \in [Consolas -> PCBs] /\ HiloFiel(c)
  BY DEF Base, TipoBase, PCBs, Conexion
<1>3. /\ Recibido(c) = CamposIniciales(c)[Tomados(c) + 1].valor
      /\ red'[c].alKernel = Desde(Programa(c), 3 + 2 * (Tomados(c) + 1))
      /\ red'[c].alConsola = <<>> /\ red'[c].extremoK \in {"viva", "fin"}
      /\ consola'[c] \in {"espera", "muerta"} /\ caida' = caida
  BY <1>1, CargaSigue DEF Cargando
<1>4. Tomados(c) = 0
  BY <1>1 DEF Tomados
<1>5. Recibido(c) = ns
  <2>1. CamposIniciales(c)[1] = Entero(ns) /\ ns \in Nat
    BY CamposInicialesSon
  <2>2. Tomados(c) + 1 = 1
    BY <1>4
  <2> HIDE DEF ns
  <2>3. ns \in Int
    BY <2>1
  <2> QED
    BY <1>3, <2>1, <2>2, <2>3, EnteroTipo
<1>6. hilo'[c] = "segmentos"
  BY <1>1, <1>2
<1>7. /\ pcb'[c].cant = ns /\ pcb'[c].restante = r
      /\ pcb'[c].segmentos = pcb[c].segmentos /\ pcb'[c].instrucciones = pcb[c].instrucciones
  <2> DEFINE p == [pcb EXCEPT ![c].cant = Recibido(c)]
  <2>1. p \in [Consolas -> [cant : {Recibido(c)} \cup Int, segmentos : Seq(Int),
                            instrucciones : Seq(Int), restante : Int]]
    BY <1>2 DEF PCBs
  <2>2. /\ p[c].cant = Recibido(c) /\ p[c].restante = pcb[c].restante
        /\ p[c].segmentos = pcb[c].segmentos /\ p[c].instrucciones = pcb[c].instrucciones
    BY <1>2 DEF PCBs
  <2>3. pcb' = [p EXCEPT ![c].restante = r]
    BY <1>1, <2>2
  <2> HIDE DEF p, r, ns
  <2>4. /\ pcb'[c].restante = r /\ pcb'[c].cant = p[c].cant
        /\ pcb'[c].segmentos = p[c].segmentos /\ pcb'[c].instrucciones = p[c].instrucciones
    BY <2>1, <2>3
  <2> QED
    BY <1>5, <2>2, <2>4
<1>8. /\ pcb[c].segmentos = <<>> /\ pcb[c].instrucciones = <<>> /\ pcb[c].restante = Resto(c, 0)
  BY <1>1, <1>2 DEF HiloFiel, PcbParcial
<1>9. r = Resto(c, 1 + ns)
  BY <1>5, <1>8, RestoSegmentos
<1> HIDE DEF ns, r
<1>10. EsPrefijo(<<>>, Segmentos[c])
  <2>1. Len(Segmentos[c]) \in Nat /\ Len(<<>>) = 0
    BY CamposInicialesSon
  <2> QED
    BY <2>1 DEF EsPrefijo
<1>11. HiloFiel(c)'
  <2>1. PcbParcial(c)'
    BY <1>6, <1>7, <1>8, <1>9, <1>10 DEF PcbParcial, ns
  <2>2. BuzonCoherente(c)'
    BY <1>1, <1>2, <1>6 DEF HiloFiel, BuzonCoherente
  <2> QED
    BY <1>6, <2>1, <2>2 DEF HiloFiel
<1>12. Carga(c)'
  <2>1. Tomados(c)' = 1 + Len(pcb'[c].segmentos) + Len(pcb'[c].instrucciones)
    BY <1>6 DEF Tomados
  <2>2. Len(<<>>) = 0 /\ 1 + 0 + 0 = 0 + 1
    OBVIOUS
  <2>3. Tomados(c)' = Tomados(c) + 1
    BY <1>4, <1>7, <1>8, <2>1, <2>2
  <2> QED
    BY <1>3, <2>3 DEF Carga
<1>13. Dialoga(c)'
  BY <1>6, <1>12 DEF Dialoga
<1> QED
  BY <1>3, <1>11, <1>13 DEF Conexion

LEMMA ConexionSegmento ==
  ASSUME Base, NEW c \in Consolas, caida = "no", ~Perturbada(c), Conexion(c), RecibeSegmento(c)
  PROVE  Conexion(c)'
<1> DEFINE s == pcb[c].segmentos
           ns == Len(Segmentos[c])
<1>1. /\ hilo[c] = "segmentos" /\ Recibir(c)
      /\ pcb' = [pcb EXCEPT ![c].segmentos = Append(@, Recibido(c))]
      /\ UNCHANGED <<consola, pipeline, hilo>>
  BY DEF RecibeSegmento, ajenas, consolaVars
<1>2. pcb \in [Consolas -> PCBs] /\ s \in Seq(Int) /\ HiloFiel(c)
  <2>1. pcb \in [Consolas -> PCBs] /\ HiloFiel(c)
    BY DEF Base, TipoBase, PCBs, Conexion
  <2> QED
    BY <2>1 DEF PCBs
<1>3. /\ Recibido(c) = CamposIniciales(c)[Tomados(c) + 1].valor
      /\ red'[c].alKernel = Desde(Programa(c), 3 + 2 * (Tomados(c) + 1))
      /\ red'[c].alConsola = <<>> /\ red'[c].extremoK \in {"viva", "fin"}
      /\ consola'[c] \in {"espera", "muerta"} /\ caida' = caida
  BY <1>1, CargaSigue DEF Cargando
<1>4. /\ Len(s) \in Nat /\ Len(pcb[c].instrucciones) \in Nat /\ pcb[c].instrucciones = <<>>
      /\ Tomados(c) = 1 + Len(s) + Len(pcb[c].instrucciones)
      /\ Len(s) < ns
  BY <1>1, CargaSabe DEF Cargando, Recibir
<1>5. /\ pcb[c].cant = ns /\ EsPrefijo(s, Segmentos[c])
      /\ pcb[c].restante = Resto(c, 1 + ns)
  BY <1>1, <1>2 DEF HiloFiel, PcbParcial
<1>6. Recibido(c) \in Int /\ Recibido(c) = Segmentos[c][Len(s) + 1]
  <2>1. Len(s) + 1 \in 1 .. ns /\ Tomados(c) + 1 = 1 + (Len(s) + 1)
    <3>1. ns \in Nat /\ Len(pcb[c].instrucciones) = 0
      BY <1>4, CamposInicialesSon
    <3> HIDE DEF s, ns
    <3> QED
      BY <1>4, <3>1
  <2> DEFINE i == Len(s) + 1
  <2>2. i \in 1 .. ns
    BY <2>1
  <2> HIDE DEF i
  <2>3. Segmentos[c][i] \in Int /\ CamposIniciales(c)[1 + i] = Entero(Segmentos[c][i])
    BY <2>2, CamposInicialesSon
  <2>4. CamposIniciales(c)[Tomados(c) + 1] = Entero(Segmentos[c][i])
    BY <2>1, <2>3 DEF i
  <2> QED
    BY <1>3, <2>3, <2>4, EnteroTipo DEF i
<1>7. /\ pcb'[c].segmentos = Append(s, Recibido(c)) /\ pcb'[c].cant = pcb[c].cant
      /\ pcb'[c].instrucciones = pcb[c].instrucciones /\ pcb'[c].restante = pcb[c].restante
  BY <1>1, <1>2 DEF PCBs
<1>8. /\ EsPrefijo(Append(s, Recibido(c)), Segmentos[c])
      /\ Len(Append(s, Recibido(c))) = Len(s) + 1
  <2>1. Len(Segmentos[c]) \in Nat
    BY CamposInicialesSon
  <2> HIDE DEF s
  <2> QED
    BY <1>2, <1>4, <1>5, <1>6, <2>1, PrefijoSigue
<1> HIDE DEF s, ns
<1>9. HiloFiel(c)'
  <2>1. hilo'[c] = "segmentos"
    BY <1>1
  <2>2. PcbParcial(c)'
    BY <1>4, <1>5, <1>7, <1>8, <2>1 DEF PcbParcial, ns
  <2>3. BuzonCoherente(c)'
    BY <1>1, <1>2 DEF HiloFiel, BuzonCoherente
  <2> QED
    BY <2>1, <2>2, <2>3 DEF HiloFiel
<1>10. Carga(c)'
  <2>1. Tomados(c)' = 1 + Len(pcb'[c].segmentos) + Len(pcb'[c].instrucciones)
    BY <1>1 DEF Tomados
  <2>2. Tomados(c)' = 1 + (Len(s) + 1) + Len(pcb[c].instrucciones)
    BY <1>7, <1>8, <2>1
  <2>3. Tomados(c)' = Tomados(c) + 1
    BY <1>4, <2>2
  <2> QED
    BY <1>3, <2>3 DEF Carga
<1>11. Dialoga(c)'
  BY <1>1, <1>10 DEF Dialoga
<1> QED
  BY <1>3, <1>9, <1>11 DEF Conexion

LEMMA ConexionLinea ==
  ASSUME Base, NEW c \in Consolas, caida = "no", ~Perturbada(c), Conexion(c), RecibeLinea(c)
  PROVE  Conexion(c)'
<1> DEFINE s == pcb[c].instrucciones
           ns == Len(Segmentos[c])
           nl == Len(Lineas[c])
           n == Tomados(c)
           r == pcb[c].restante - (Recibido(c) + 1 + 4)
<1>1. /\ hilo[c] = "lineas" /\ Recibir(c)
      /\ pcb' = [pcb EXCEPT ![c].instrucciones = Append(@, Recibido(c)),
                            ![c].restante = @ - (Recibido(c) + 1 + 4)]
      /\ UNCHANGED <<consola, pipeline, hilo>>
  BY DEF RecibeLinea, ajenas, consolaVars
<1>2. pcb \in [Consolas -> PCBs] /\ s \in Seq(Int) /\ HiloFiel(c)
  <2>1. pcb \in [Consolas -> PCBs] /\ HiloFiel(c)
    BY DEF Base, TipoBase, PCBs, Conexion
  <2> QED
    BY <2>1 DEF PCBs
<1>3. /\ Recibido(c) = CamposIniciales(c)[n + 1].valor
      /\ red'[c].alKernel = Desde(Programa(c), 3 + 2 * (n + 1))
      /\ red'[c].alConsola = <<>> /\ red'[c].extremoK \in {"viva", "fin"}
      /\ consola'[c] \in {"espera", "muerta"} /\ caida' = caida
      /\ n \in Nat /\ n < Len(CamposIniciales(c))
  BY <1>1, CargaSigue DEF Cargando
<1>4. /\ Len(s) \in Nat /\ pcb[c].segmentos = Segmentos[c]
      /\ n = 1 + Len(pcb[c].segmentos) + Len(s)
      /\ Len(s) < nl
  BY <1>1, CargaSabe DEF Cargando, Recibir
<1>5. EsPrefijo(s, Lineas[c]) /\ pcb[c].restante = Resto(c, n)
  BY <1>1, <1>2 DEF HiloFiel, PcbParcial
<1>6. ns \in Nat /\ nl \in Nat
  BY CamposInicialesSon
<1>7. /\ Recibido(c) \in Int /\ Recibido(c) = Lineas[c][Len(s) + 1]
      /\ CamposIniciales(c)[n + 1].bytes = Recibido(c) + 1
  <2>1. Len(s) + 1 \in 1 .. nl /\ n + 1 = 1 + ns + (Len(s) + 1)
    <3>1. n = 1 + ns + Len(s)
      BY <1>4
    <3> HIDE DEF s, ns, nl, n
    <3> QED
      BY <1>4, <1>6, <3>1
  <2> DEFINE i == Len(s) + 1
  <2>2. i \in 1 .. nl
    BY <2>1
  <2> HIDE DEF i
  <2>3. Lineas[c][i] \in Nat /\ CamposIniciales(c)[1 + ns + i] = Texto(Lineas[c][i])
    BY <2>2, CamposInicialesSon
  <2>4. CamposIniciales(c)[n + 1] = Texto(Lineas[c][i])
    BY <2>1, <2>3 DEF i
  <2>5. Texto(Lineas[c][i]).valor = Lineas[c][i] /\ Texto(Lineas[c][i]).bytes = Lineas[c][i] + 1
    BY DEF Texto
  <2>6. Recibido(c) = Lineas[c][i]
    BY <1>3, <2>4, <2>5
  <2> QED
    BY <2>3, <2>4, <2>5, <2>6 DEF i
<1>8. /\ pcb'[c].instrucciones = Append(s, Recibido(c)) /\ pcb'[c].restante = r
      /\ pcb'[c].segmentos = pcb[c].segmentos
  <2> DEFINE p == [pcb EXCEPT ![c].instrucciones = Append(s, Recibido(c))]
             t == Append(s, Recibido(c))
  <2>1. t \in Seq(Int)
    BY <1>2, <1>7, AppendProperties
  <2> HIDE DEF t
  <2>2. p = [pcb EXCEPT ![c].instrucciones = t]
    BY DEF t
  <2>3. p \in [Consolas -> PCBs]
    BY <1>2, <2>1, <2>2 DEF PCBs
  <2>4. /\ p[c].instrucciones = t /\ p[c].restante = pcb[c].restante
        /\ p[c].segmentos = pcb[c].segmentos
    BY <1>2, <2>2 DEF PCBs
  <2>5. pcb' = [p EXCEPT ![c].restante = r]
    BY <1>1, <2>4
  <2> HIDE DEF p, r, s
  <2>6. /\ pcb'[c].restante = r /\ pcb'[c].segmentos = p[c].segmentos
        /\ pcb'[c].instrucciones = p[c].instrucciones
    BY <2>3, <2>5 DEF PCBs
  <2> QED
    BY <2>4, <2>6 DEF t
<1>9. /\ EsPrefijo(Append(s, Recibido(c)), Lineas[c])
      /\ Len(Append(s, Recibido(c))) = Len(s) + 1
  <2>1. Len(Lineas[c]) \in Nat
    BY CamposInicialesSon
  <2> HIDE DEF s
  <2> QED
    BY <1>2, <1>4, <1>5, <1>7, <2>1, PrefijoSigue
<1>10. Tomados(c)' = n + 1
  <2>1. Tomados(c)' = 1 + Len(pcb'[c].segmentos) + Len(pcb'[c].instrucciones)
    BY <1>1 DEF Tomados
  <2>2. Tomados(c)' = 1 + Len(pcb[c].segmentos) + (Len(s) + 1)
    BY <1>8, <1>9, <2>1
  <2> DEFINE x == Len(pcb[c].segmentos)
             y == Len(s)
  <2>3. x \in Nat /\ y \in Nat /\ n = 1 + x + y
    BY <1>4, <1>6
  <2>4. Tomados(c)' = 1 + x + (y + 1)
    BY <2>2
  <2> HIDE DEF n, x, y
  <2> QED
    BY <2>3, <2>4
<1>11. r = Resto(c, n + 1)
  <2> HIDE DEF n
  <2>1. /\ Resto(c, n) \in Nat /\ Resto(c, n + 1) \in Nat
        /\ Resto(c, n) = Resto(c, n + 1) + (4 + CamposIniciales(c)[n + 1].bytes)
    BY <1>3, RestoCampo
  <2> QED
    BY <1>5, <1>7, <2>1
<1> HIDE DEF s, ns, nl, n, r
<1>12. HiloFiel(c)'
  <2>1. hilo'[c] = "lineas"
    BY <1>1
  <2>2. PcbParcial(c)'
    BY <1>4, <1>8, <1>9, <1>10, <1>11, <2>1 DEF PcbParcial
  <2>3. BuzonCoherente(c)'
    BY <1>1, <1>2 DEF HiloFiel, BuzonCoherente
  <2> QED
    BY <2>1, <2>2, <2>3 DEF HiloFiel
<1>13. Carga(c)'
  BY <1>3, <1>10 DEF Carga
<1>14. Dialoga(c)'
  BY <1>1, <1>13 DEF Dialoga
<1> QED
  BY <1>3, <1>12, <1>14 DEF Conexion

(* No segment is left, or no line.                                         *)
LEMMA ConexionCompleta ==
  ASSUME Base, NEW c \in Consolas, caida = "no", ~Perturbada(c), Conexion(c), Completa(c)
  PROVE  Conexion(c)'
<1>1. /\ hilo[c] \in {"segmentos", "lineas"} /\ ~Falta(c)
      /\ hilo' = [hilo EXCEPT ![c] = IF hilo[c] = "segmentos" THEN "lineas" ELSE "espera"]
      /\ pipeline' = [pipeline EXCEPT ![c] = PipelineVacia]
      /\ UNCHANGED <<consola, pcb, red, caida, tecleado, mostrado>>
  BY DEF Completa, Pasa, ajenas, consolaVars
<1>2. /\ DOMAIN hilo = Consolas /\ DOMAIN pipeline = Consolas /\ HiloFiel(c) /\ Carga(c)
      /\ pcb[c].segmentos \in Seq(Int) /\ pcb[c].instrucciones \in Seq(Int)
  BY <1>1 DEF Base, TipoBase, Conexion, Dialoga, Cargando
<1>3. pipeline'[c].op = 0 /\ 0 \notin Respuestas
  BY <1>1, <1>2 DEF PipelineVacia, Respuestas, CONSOLE_INPUT_RESPUESTA, CONSOLE_OUTPUT_RESPUESTA
<1>4. CASE hilo[c] = "segmentos"
  <2>1. /\ pcb[c].segmentos = Segmentos[c] /\ pcb[c].instrucciones = <<>>
        /\ Len(pcb[c].instrucciones) \in Nat
        /\ Tomados(c) = 1 + Len(pcb[c].segmentos) + Len(pcb[c].instrucciones)
    BY <1>1, <1>4, CargaSabe DEF Cargando
  <2>2. hilo'[c] = "lineas"
    BY <1>1, <1>2, <1>4
  <2>3. Tomados(c)' = Tomados(c)
    BY <1>1, <1>4, <2>2 DEF Tomados
  <2>4. Carga(c)'
    BY <1>1, <1>2, <2>3 DEF Carga
  <2>5. EsPrefijo(<<>>, Lineas[c])
    <3>1. Len(Lineas[c]) \in Nat /\ Len(<<>>) = 0
      BY CamposInicialesSon
    <3> QED
      BY <3>1 DEF EsPrefijo
  <2>6. pcb[c].restante = Resto(c, Tomados(c))
    <3>1. pcb[c].restante = Resto(c, 1 + Len(Segmentos[c]))
      BY <1>2, <1>4 DEF HiloFiel, PcbParcial
    <3>2. Len(pcb[c].instrucciones) = 0 /\ Len(Segmentos[c]) \in Nat
      BY <2>1, CamposInicialesSon
    <3>3. Tomados(c) = 1 + Len(Segmentos[c])
      BY <2>1, <3>2
    <3> QED
      BY <3>1, <3>3
  <2>7. HiloFiel(c)'
    <3>1. PcbParcial(c)'
      BY <1>1, <2>1, <2>2, <2>3, <2>5, <2>6 DEF PcbParcial
    <3> QED
      BY <1>3, <2>2, <3>1 DEF HiloFiel, BuzonCoherente
  <2>8. Dialoga(c)'
    BY <2>2, <2>4 DEF Dialoga
  <2> QED
    BY <1>1, <2>7, <2>8 DEF Conexion
<1>5. CASE hilo[c] = "lineas"
  <2>1. /\ pcb[c].segmentos = Segmentos[c] /\ pcb[c].instrucciones = Lineas[c]
        /\ Tomados(c) = 1 + Len(pcb[c].segmentos) + Len(pcb[c].instrucciones)
        /\ red[c].alKernel = Desde(Programa(c), 3 + 2 * Tomados(c))
        /\ Tomados(c) \in Nat
    BY <1>1, <1>5, CargaSabe DEF Cargando
  <2>2. hilo'[c] = "espera"
    BY <1>1, <1>2, <1>5
  <2>3. Tomados(c) = Len(CamposIniciales(c)) /\ Tomados(c) <= Len(CamposIniciales(c))
    <3>1. /\ Len(CamposIniciales(c)) = 1 + Len(Segmentos[c]) + Len(Lineas[c])
          /\ Len(CamposIniciales(c)) \in Nat
      BY CamposInicialesSon, LenProperties
    <3> DEFINE x == Len(Segmentos[c])
               y == Len(Lineas[c])
               n == Tomados(c)
               l == Len(CamposIniciales(c))
    <3>2. n = 1 + x + y
      BY <2>1
    <3>3. l = 1 + x + y /\ l \in Nat
      BY <3>1
    <3> HIDE DEF x, y, n, l
    <3>4. n = l /\ n <= l
      BY <3>2, <3>3
    <3> QED
      BY <3>4 DEF n, l
  <2>4. red[c].alKernel = <<>>
    BY <2>1, <2>3, CampoQueSigue
  <2>5. Calla(c)'
    <3>1. PalabraFiel(c)'
      BY <1>3 DEF PalabraFiel, Respuestas
    <3> QED
      BY <1>1, <1>2, <2>4, <3>1 DEF Carga, Calla
  <2>6. HiloFiel(c)'
    <3>1. PcbParcial(c)'
      BY <1>1, <2>1, <2>2 DEF PcbParcial
    <3> QED
      BY <1>3, <2>2, <3>1 DEF HiloFiel, BuzonCoherente
  <2>7. Dialoga(c)'
    BY <2>2, <2>5 DEF Dialoga, Cargando
  <2> QED
    BY <1>1, <2>6, <2>7 DEF Conexion
<1> QED
  BY <1>1, <1>4, <1>5

(* What arrives is always the field that the thread expects.               *)
LEMMA NoSePierde ==
  ASSUME Base, NEW c \in Consolas, caida = "no", ~Perturbada(c), Conexion(c)
  PROVE  ~SePierde(c)
<1> SUFFICES ASSUME SePierde(c) PROVE FALSE
  OBVIOUS
<1>1. \/ Falta(c) /\ Len(Llega(c)) >= 2 /\ ~CampoSano(c)
      \/ Falta(c) /\ Len(Llega(c)) < 2
      \/ hilo[c] = "encabezado" /\ Extremo(c) = "rst"
  BY DEF SePierde
<1>2. CASE hilo[c] = "encabezado" /\ Extremo(c) = "rst"
  <2>1. Previo(c) /\ Extremo(c) = red[c].extremoK
    BY <1>2, HiloPropio DEF Conexion, Dialoga, PasosAtendidos
  <2> QED
    BY <1>2, <2>1 DEF Previo
<1>3. CASE Falta(c)
  <2> DEFINE n == Tomados(c)
             k == red[c].alKernel
             f == CamposIniciales(c)[n + 1]
  <2>1. hilo[c] \in Cargando
    BY <1>3 DEF Falta, Cargando
  <2>2. Llega(c) = k
    BY <2>1, HiloPropio DEF Cargando, PasosAtendidos
  <2>3. n \in Nat /\ n < Len(CamposIniciales(c)) /\ k = Desde(Programa(c), 3 + 2 * n)
    BY <1>3, <2>1, CargaSabe
  <2>4. Len(CamposIniciales(c)) \in Nat
    BY CamposInicialesSon, LenProperties
  <2>5. Len(k) >= 2 /\ Head(k) = Entero(f.bytes) /\ k[2] = f
    <3> HIDE DEF n, k
    <3>1. n <= Len(CamposIniciales(c))
      BY <2>3, <2>4
    <3> QED
      BY <2>3, <3>1, CampoQueSigue
  <2>6. Len(Llega(c)) \in Nat
    BY <2>2, CanalDe, LenProperties DEF Base
  <2>7. f.texto = PideTexto(c)
    <3>1. CASE hilo[c] = "cantidad"
      <4>1. n = 0
        BY <2>1, <3>1, CargaSabe
      <4>2. f = Entero(Len(Segmentos[c]))
        <5>1. n + 1 = 1
          BY <4>1
        <5> QED
          BY <5>1, CamposInicialesSon
      <4>3. f.texto = FALSE
        BY <4>2 DEF Entero
      <4>4. PideTexto(c) = FALSE
        BY <3>1 DEF PideTexto
      <4> HIDE DEF f
      <4> QED
        BY <4>3, <4>4
    <3>2. CASE hilo[c] = "segmentos"
      <4> DEFINE x == Len(pcb[c].segmentos)
                 i == x + 1
                 ns == Len(Segmentos[c])
      <4>1. /\ x \in Nat /\ Len(pcb[c].instrucciones) \in Nat /\ pcb[c].instrucciones = <<>>
            /\ n = 1 + x + Len(pcb[c].instrucciones)
            /\ x < ns
        BY <1>3, <2>1, <3>2, CargaSabe
      <4>2. Len(pcb[c].instrucciones) = 0 /\ ns \in Nat
        BY <4>1, CamposInicialesSon
      <4>3. i \in 1 .. ns /\ n + 1 = 1 + i
        <5> HIDE DEF x, n, ns
        <5> QED
          BY <4>1, <4>2
      <4> HIDE DEF i
      <4>4. f = Entero(Segmentos[c][i])
        BY <4>3, CamposInicialesSon
      <4>5. f.texto = FALSE
        BY <4>4 DEF Entero
      <4>6. PideTexto(c) = FALSE
        BY <3>2 DEF PideTexto
      <4> HIDE DEF f
      <4> QED
        BY <4>5, <4>6
    <3>3. CASE hilo[c] = "lineas"
      <4> DEFINE y == Len(pcb[c].instrucciones)
                 i == y + 1
                 ns == Len(Segmentos[c])
                 nl == Len(Lineas[c])
      <4>1. /\ y \in Nat /\ pcb[c].segmentos = Segmentos[c] /\ n = 1 + Len(pcb[c].segmentos) + y
            /\ y < nl
        BY <1>3, <2>1, <3>3, CargaSabe
      <4>2. ns \in Nat /\ nl \in Nat /\ n = 1 + ns + y
        BY <4>1, CamposInicialesSon
      <4>3. i \in 1 .. nl /\ n + 1 = 1 + ns + i
        <5> HIDE DEF y, n, ns, nl
        <5> QED
          BY <4>1, <4>2
      <4> HIDE DEF i
      <4>4. f = Texto(Lineas[c][i])
        BY <4>3, CamposInicialesSon
      <4>5. f.texto = TRUE
        BY <4>4 DEF Texto
      <4>6. PideTexto(c) = TRUE
        BY <3>3 DEF PideTexto
      <4> HIDE DEF f
      <4> QED
        BY <4>5, <4>6
    <3> QED
      BY <2>1, <3>1, <3>2, <3>3 DEF Cargando
  <2> HIDE DEF k, f
  <2>8. CampoSano(c)
    BY <2>2, <2>5, <2>7 DEF CampoSano
  <2> QED
    BY <1>1, <1>2, <2>2, <2>5, <2>6, <2>8
<1> QED
  BY <1>1, <1>2, <1>3

-----------------------------------------------------------------------------
(* The thread of the connection attends its process. *)

LEMMA EnviaKernelDeja ==
  ASSUME TipoBase, NEW c \in Consolas, NEW campos \in Seq(Campos), EnviaKernel(c, campos),
         red[c].extremoK \in {"viva", "fin"}
  PROVE  /\ red'[c].alKernel = red[c].alKernel /\ red'[c].extremoK = red[c].extremoK
         /\ red[c].extremoK = "viva" /\ red[c].alConsola = <<>> => red'[c].alConsola = campos
         /\ caida' = caida
<1> DEFINE k == red[c].alKernel
           ek == red[c].extremoK
           ec == red[c].extremoC
           a2 == IF ek = "viva" THEN red[c].alConsola \o campos ELSE red[c].alConsola
           ek2 == TrasEnviar(ek)
<1>1. red' = [red EXCEPT ![c] = Canal(k, a2, ek2, ec)] /\ caida' = caida
  BY EnviaKernelEs
<1>2. ek2 = ek
  BY DEF TrasEnviar
<1>3. <<>> \o campos = campos
  BY ConcatEmptySeq
<1>4. ek = "viva" /\ red[c].alConsola = <<>> => a2 = campos
  BY <1>3
<1> HIDE DEF k, ek, ec, a2, ek2
<1>5. red'[c].alKernel = k /\ red'[c].alConsola = a2 /\ red'[c].extremoK = ek2
  BY <1>1, CambiaRed, ZenonT(40)
<1>6. red'[c].extremoK = ek
  BY <1>2, <1>5
<1> QED
  BY <1>1, <1>4, <1>5, <1>6 DEF k, ek

(* What it sends arrives alone, unless the console is not there.           *)
LEMMA EnviaCallado ==
  ASSUME Base, NEW c \in Consolas, caida = "no", ~Perturbada(c), Conexion(c),
         hilo[c] = "atiende", NEW campos \in Seq(Campos), EnviaKernel(Toma(c), campos)
  PROVE  \/ consola[c] = "muerta" /\ CaeKernel("senal")
         \/ /\ red'[c].alKernel = <<>> /\ caida' = caida
            /\ \/ consola[c] = "espera" /\ red'[c].alConsola = campos
               \/ consola[c] = "muerta" /\ red'[c].extremoK = "fin"
<1>1. Toma(c) = c
  BY HiloPropio DEF PasosAtendidos
<1>2. TipoBase /\ Calla(c) /\ (red[c].extremoK # "viva" <=> Terminada(c))
  BY DondeEsta DEF Base, Conexion, Dialoga
<1>3. red[c].extremoK \in {"viva", "fin", "roto"}
  BY <1>2, CanalDe DEF Calla, Extremos
<1>4. CASE red[c].extremoK = "roto"
  <2>1. consola[c] = "muerta"
    BY <1>2, <1>4 DEF Calla, Terminada
  <2> QED
    BY <1>1, <1>4, <2>1 DEF EnviaKernel
<1>5. CASE red[c].extremoK = "viva"
  <2>1. consola[c] = "espera" /\ red[c].alConsola = <<>> /\ red[c].alKernel = <<>>
    BY <1>2, <1>5 DEF Calla, Terminada
  <2>2. red'[c].alKernel = <<>> /\ red'[c].alConsola = campos /\ caida' = caida
    BY <1>1, <1>2, <1>5, <2>1, EnviaKernelDeja
  <2> QED
    BY <2>1, <2>2
<1>6. CASE red[c].extremoK = "fin"
  <2>1. consola[c] = "muerta" /\ red[c].alKernel = <<>>
    BY <1>2, <1>6 DEF Calla, Terminada
  <2>2. red'[c].alKernel = <<>> /\ red'[c].extremoK = "fin" /\ caida' = caida
    BY <1>1, <1>2, <1>6, <2>1, EnviaKernelDeja
  <2> QED
    BY <2>1, <2>2
<1> QED
  BY <1>3, <1>4, <1>5, <1>6

LEMMA ConexionAtiendeIO ==
  ASSUME Base, NEW c \in Consolas, caida = "no", ~Perturbada(c), Conexion(c), AtiendeIO(c)
  PROVE  Conexion(c)'
<1>1. /\ hilo[c] = "atiende" /\ pipeline[c].op # EXIT
      /\ EnviaKernel(Toma(c), IF pipeline[c].op = CONSOLE_INPUT THEN Vacio(CONSOLE_INPUT)
                              ELSE ConEntero(CONSOLE_OUTPUT, pipeline[c].valor))
      /\ hilo' = [hilo EXCEPT ![c] = "responde"]
      /\ UNCHANGED <<consola, tecleado, mostrado, pcb, pipeline>>
  BY DEF AtiendeIO, Pasa, ajenas, consolaVars, procesoVars
<1>2. /\ DOMAIN hilo = Consolas /\ HiloFiel(c) /\ pipeline[c].valor \in Int
  BY DEF Base, TipoBase, Conexion
<1>3. hilo'[c] = "responde"
  BY <1>1, <1>2
<1>4. pipeline[c].op \in {CONSOLE_INPUT, CONSOLE_OUTPUT}
  BY <1>1, <1>2 DEF HiloFiel, BuzonCoherente
<1>5. Pedido(c) \in Seq(Campos)
  <2>1. CONSOLE_INPUT \in Int /\ CONSOLE_OUTPUT \in Int
    BY CodigosEnteros
  <2> QED
    BY <1>2, <2>1, PaquetesTipo DEF Pedido
<1>6. EnviaKernel(Toma(c), Pedido(c))
  BY <1>1 DEF Pedido
<1>7. \/ consola[c] = "muerta" /\ CaeKernel("senal")
      \/ /\ red'[c].alKernel = <<>> /\ caida' = caida
         /\ \/ consola[c] = "espera" /\ red'[c].alConsola = Pedido(c)
            \/ consola[c] = "muerta" /\ red'[c].extremoK = "fin"
  BY <1>1, <1>5, <1>6, EnviaCallado
<1>8. CASE CaeKernel("senal")
  BY <1>1, <1>3, <1>8, ConexionCae
<1>9. CASE /\ red'[c].alKernel = <<>> /\ caida' = caida
           /\ \/ consola[c] = "espera" /\ red'[c].alConsola = Pedido(c)
              \/ consola[c] = "muerta" /\ red'[c].extremoK = "fin"
  <2>1. PcbParcial(c)'
    BY <1>1, <1>2, <1>3 DEF HiloFiel, PcbParcial
  <2>2. BuzonCoherente(c)'
    BY <1>1, <1>3, <1>4, CodigosDistintos DEF BuzonCoherente, Respuestas
  <2>3. HiloFiel(c)'
    BY <1>3, <2>1, <2>2 DEF HiloFiel
  <2>4. Pedido(c)' = Pedido(c)
    BY <1>1 DEF Pedido
  <2>5. Conversa(c)'
    BY <1>1, <1>9, <2>4 DEF Conversa
  <2>6. Dialoga(c)'
    BY <1>3, <2>5 DEF Dialoga, Cargando
  <2> QED
    BY <1>9, <2>3, <2>6 DEF Conexion
<1> QED
  BY <1>7, <1>8, <1>9

LEMMA ConexionAtiendeExit ==
  ASSUME Base, NEW c \in Consolas, caida = "no", ~Perturbada(c), Conexion(c), AtiendeExit(c)
  PROVE  Conexion(c)'
<1>1. /\ hilo[c] = "atiende" /\ EnviaKernel(Toma(c), Vacio(EXIT))
      /\ hilo' = [hilo EXCEPT ![c] = "fin"]
      /\ pipeline' = [pipeline EXCEPT ![c] = PipelineVacia]
      /\ UNCHANGED <<consola, tecleado, mostrado>>
  BY DEF AtiendeExit, LiberaPCB, Pasa, ajenas, consolaVars
<1>2. DOMAIN hilo = Consolas /\ DOMAIN pipeline = Consolas
  BY DEF Base, TipoBase
<1>3. hilo'[c] = "fin" /\ pipeline'[c] = PipelineVacia
  BY <1>1, <1>2
<1>4. Vacio(EXIT) \in Seq(Campos)
  BY CodigosEnteros, PaquetesTipo
<1>5. \/ consola[c] = "muerta" /\ CaeKernel("senal")
      \/ /\ red'[c].alKernel = <<>> /\ caida' = caida
         /\ \/ consola[c] = "espera" /\ red'[c].alConsola = Vacio(EXIT)
            \/ consola[c] = "muerta" /\ red'[c].extremoK = "fin"
  BY <1>1, <1>4, EnviaCallado
<1>6. CASE CaeKernel("senal")
  BY <1>1, <1>3, <1>6, ConexionCae
<1>7. CASE /\ red'[c].alKernel = <<>> /\ caida' = caida
           /\ \/ consola[c] = "espera" /\ red'[c].alConsola = Vacio(EXIT)
              \/ consola[c] = "muerta"
  <2>1. pipeline'[c].op = 0 /\ 0 \notin Respuestas
    BY <1>3, CodigosDistintos DEF PipelineVacia, Respuestas
  <2>2. HiloFiel(c)'
    BY <1>3, <2>1 DEF HiloFiel, PcbParcial, BuzonCoherente
  <2>3. Despide(c)'
    BY <1>1, <1>7 DEF Despide
  <2>4. Dialoga(c)'
    BY <1>3, <2>3 DEF Dialoga, Cargando
  <2> QED
    BY <1>7, <2>2, <2>4 DEF Conexion
<1> QED
  BY <1>5, <1>6, <1>7

(* The answer is that of the request. *)
LEMMA LoContestado ==
  ASSUME Base, NEW c \in Consolas, caida = "no", ~Perturbada(c), Conexion(c),
         hilo[c] = "responde", red[c].alKernel # <<>>
  PROVE  /\ Contesta(c) /\ red[c].extremoK \in {"viva", "fin"}
         /\ consola[c] = "muerta" \/ (consola[c] = "espera" /\ red[c].alConsola = <<>>)
         /\ Head(red[c].alKernel) = Entero(Respuesta(pipeline[c].op))
         /\ pipeline[c].op = CONSOLE_INPUT =>
              Len(red[c].alKernel) = 4 /\ red[c].alKernel[4].valor = tecleado[c]
         /\ pipeline[c].op = CONSOLE_OUTPUT =>
              Len(red[c].alKernel) = 2 /\ pipeline[c].valor = mostrado[c]
<1>1. Conversa(c) /\ (red[c].extremoK # "viva" <=> Terminada(c))
  BY DondeEsta DEF Conexion, Dialoga
<1>2. \/ consola[c] = "espera" /\ red[c].alConsola = <<>> /\ Contesta(c)
      \/ consola[c] = "muerta" /\ red[c].extremoK = "fin" /\ Contesta(c)
  BY <1>1 DEF Conversa
<1>3. /\ Contesta(c) /\ red[c].extremoK \in {"viva", "fin"}
      /\ consola[c] = "muerta" \/ (consola[c] = "espera" /\ red[c].alConsola = <<>>)
  BY <1>1, <1>2 DEF Terminada
<1>4. tecleado[c] \in Int
  <2>1. tecleado[c] \in Valores \cup {-2}
    BY DEF Base, TipoBase, Basura
  <2>2. Valores \subseteq Int /\ -2 \in Int
    BY SupuestosDialogo DEF SupuestosDialogo
  <2> HIDE DEF Conexion, Base, Perturbada
  <2> QED
    BY <2>1, <2>2
<1>5. CONSOLE_INPUT_RESPUESTA \in Int /\ CONSOLE_OUTPUT_RESPUESTA \in Int
  BY DEF CONSOLE_INPUT_RESPUESTA, CONSOLE_OUTPUT_RESPUESTA
<1>6. CASE pipeline[c].op = CONSOLE_INPUT
  <2>1. red[c].alKernel = ConEntero(CONSOLE_INPUT_RESPUESTA, tecleado[c])
    BY <1>3, <1>6, CodigosDistintos DEF Contesta
  <2>2. Respuesta(pipeline[c].op) = CONSOLE_INPUT_RESPUESTA
    BY <1>6 DEF Respuesta
  <2>3. /\ Head(red[c].alKernel) = Entero(CONSOLE_INPUT_RESPUESTA)
        /\ Len(red[c].alKernel) = 4 /\ red[c].alKernel[4] = Entero(tecleado[c])
    <3> HIDE DEF Base, Conexion, Perturbada
    <3>1. \A op, n \in Int : /\ Head(ConEntero(op, n)) = Entero(op)
                            /\ Len(ConEntero(op, n)) = 4 /\ ConEntero(op, n)[4] = Entero(n)
      BY PaquetesTipo
    <3>2. LET p == ConEntero(CONSOLE_INPUT_RESPUESTA, tecleado[c])
          IN  Head(p) = Entero(CONSOLE_INPUT_RESPUESTA) /\ Len(p) = 4 /\ p[4] = Entero(tecleado[c])
      BY <1>4, <1>5, <3>1
    <3> QED
      BY <2>1, <3>2
  <2>4. red[c].alKernel[4].valor = tecleado[c]
    BY <1>4, <2>3, EnteroTipo
  <2> QED
    BY <1>3, <1>6, <2>2, <2>3, <2>4, CodigosDistintos
<1>7. CASE pipeline[c].op = CONSOLE_OUTPUT
  <2>1. red[c].alKernel = Vacio(CONSOLE_OUTPUT_RESPUESTA) /\ pipeline[c].valor = mostrado[c]
    BY <1>3, <1>7, CodigosDistintos DEF Contesta
  <2>2. Respuesta(pipeline[c].op) = CONSOLE_OUTPUT_RESPUESTA
    BY <1>7, CodigosDistintos DEF Respuesta
  <2>3. Head(red[c].alKernel) = Entero(CONSOLE_OUTPUT_RESPUESTA) /\ Len(red[c].alKernel) = 2
    BY <1>5, <2>1, PaquetesTipo
  <2> QED
    BY <1>3, <1>7, <2>1, <2>2, <2>3, CodigosDistintos
<1> QED
  BY <1>3, <1>6, <1>7 DEF Contesta

(* The thread has the answer and waits again.                              *)
LEMMA Vuelve ==
  ASSUME Base, NEW c \in Consolas, caida = "no", ~Perturbada(c), Conexion(c),
         hilo[c] = "responde", hilo'[c] = "espera",
         UNCHANGED <<consola, tecleado, mostrado, pcb, caida>>,
         Calla(c)'
  PROVE  Conexion(c)'
<1>1. HiloFiel(c)
  BY DEF Conexion
<1>2. PcbParcial(c)'
  BY <1>1 DEF HiloFiel, PcbParcial
<1>3. HiloFiel(c)'
  BY <1>2 DEF HiloFiel, BuzonCoherente
<1>4. Dialoga(c)'
  BY DEF Dialoga, Cargando
<1> QED
  BY <1>3, <1>4 DEF Conexion

LEMMA ConexionTecla ==
  ASSUME Base, NEW c \in Consolas, caida = "no", ~Perturbada(c), Conexion(c), RecibeTecla(c)
  PROVE  Conexion(c)'
<1>1. /\ hilo[c] = "responde" /\ pipeline[c].op = CONSOLE_INPUT /\ Llega(c) # <<>>
      /\ pipeline' = [pipeline EXCEPT ![c].op = Respuesta(@), ![c].valor = Llega(c)[4].valor]
      /\ Consume(c, 4) /\ hilo' = [hilo EXCEPT ![c] = "espera"]
      /\ UNCHANGED <<consola, tecleado, mostrado, pcb>>
  BY DEF RecibeTecla, Responde, Pasa, ajenas, consolaVars
<1>2. TipoBase /\ DOMAIN hilo = Consolas /\ pipeline \in [Consolas -> Buzones]
  BY DEF Base, TipoBase, Buzones
<1>3. Toma(c) = c /\ Llega(c) = red[c].alKernel
  BY <1>1, HiloPropio DEF PasosAtendidos
<1>4. /\ red[c].extremoK \in {"viva", "fin"}
      /\ consola[c] = "muerta" \/ (consola[c] = "espera" /\ red[c].alConsola = <<>>)
      /\ Len(red[c].alKernel) = 4 /\ red[c].alKernel[4].valor = tecleado[c]
  BY <1>1, <1>3, LoContestado
<1>5. /\ red'[c].alKernel = Desde(red[c].alKernel, 4 + 1)
      /\ red'[c].alConsola = red[c].alConsola /\ red'[c].extremoK = red[c].extremoK
      /\ caida' = caida
  BY <1>1, <1>2, <1>3, ConsumeDeja
<1>6. Desde(red[c].alKernel, 4 + 1) = <<>>
  <2>1. red[c].alKernel \in Seq(Campos)
    BY <1>2, CanalDe
  <2>2. 4 + 1 \in Nat /\ 4 + 1 = Len(red[c].alKernel) + 1
    BY <1>4
  <2> QED
    BY <2>1, <2>2, NadaQueda
<1>7. pipeline'[c].op = CONSOLE_INPUT_RESPUESTA /\ pipeline'[c].valor = tecleado[c]
  <2> DEFINE v == Llega(c)[4].valor
             o == Respuesta(pipeline[c].op)
  <2>1. v = tecleado[c] /\ o = CONSOLE_INPUT_RESPUESTA
    BY <1>1, <1>3, <1>4 DEF Respuesta
  <2>2. pipeline' = [pipeline EXCEPT ![c].op = o, ![c].valor = v]
    BY <1>1
  <2> HIDE DEF v, o
  <2>3. pipeline'[c].op = o /\ pipeline'[c].valor = v
    BY <1>2, <2>2 DEF Buzones
  <2> QED
    BY <2>1, <2>3
<1>8. PalabraFiel(c)'
  BY <1>1, <1>7, CodigosDistintos DEF PalabraFiel
<1>9. Calla(c)'
  BY <1>1, <1>4, <1>5, <1>6, <1>8 DEF Calla
<1>10. hilo'[c] = "espera"
  BY <1>1, <1>2
<1> QED
  BY <1>1, <1>5, <1>9, <1>10, Vuelve

LEMMA ConexionConfirmacion ==
  ASSUME Base, NEW c \in Consolas, caida = "no", ~Perturbada(c), Conexion(c),
         RecibeConfirmacion(c)
  PROVE  Conexion(c)'
<1>1. /\ hilo[c] = "responde" /\ pipeline[c].op = CONSOLE_OUTPUT /\ Llega(c) # <<>>
      /\ pipeline' = [pipeline EXCEPT ![c].op = Respuesta(@)]
      /\ Consume(c, 2) /\ hilo' = [hilo EXCEPT ![c] = "espera"]
      /\ UNCHANGED <<consola, tecleado, mostrado, pcb>>
  BY DEF RecibeConfirmacion, Responde, Pasa, ajenas, consolaVars
<1>2. TipoBase /\ DOMAIN hilo = Consolas /\ pipeline \in [Consolas -> Buzones]
  BY DEF Base, TipoBase, Buzones
<1>3. Toma(c) = c /\ Llega(c) = red[c].alKernel
  BY <1>1, HiloPropio DEF PasosAtendidos
<1>4. /\ red[c].extremoK \in {"viva", "fin"}
      /\ consola[c] = "muerta" \/ (consola[c] = "espera" /\ red[c].alConsola = <<>>)
      /\ Len(red[c].alKernel) = 2 /\ pipeline[c].valor = mostrado[c]
  BY <1>1, <1>3, LoContestado
<1>5. /\ red'[c].alKernel = Desde(red[c].alKernel, 2 + 1)
      /\ red'[c].alConsola = red[c].alConsola /\ red'[c].extremoK = red[c].extremoK
      /\ caida' = caida
  BY <1>1, <1>2, <1>3, ConsumeDeja
<1>6. Desde(red[c].alKernel, 2 + 1) = <<>>
  <2>1. red[c].alKernel \in Seq(Campos)
    BY <1>2, CanalDe
  <2>2. 2 + 1 \in Nat /\ 2 + 1 = Len(red[c].alKernel) + 1
    BY <1>4
  <2> QED
    BY <2>1, <2>2, NadaQueda
<1>7. pipeline'[c].op = CONSOLE_OUTPUT_RESPUESTA /\ pipeline'[c].valor = mostrado[c]
  <2> DEFINE o == Respuesta(pipeline[c].op)
  <2>1. o = CONSOLE_OUTPUT_RESPUESTA
    BY <1>1, CodigosDistintos DEF Respuesta
  <2>2. pipeline' = [pipeline EXCEPT ![c].op = o]
    BY <1>1
  <2> HIDE DEF o
  <2>3. pipeline'[c].op = o /\ pipeline'[c].valor = pipeline[c].valor
    BY <1>2, <2>2 DEF Buzones
  <2> QED
    BY <1>4, <2>1, <2>3
<1>8. PalabraFiel(c)'
  BY <1>1, <1>7, CodigosDistintos DEF PalabraFiel
<1>9. Calla(c)'
  BY <1>1, <1>4, <1>5, <1>6, <1>8 DEF Calla
<1>10. hilo'[c] = "espera"
  BY <1>1, <1>2
<1> QED
  BY <1>1, <1>5, <1>9, <1>10, Vuelve

(* The reset of a console that died: the word is any.                      *)
LEMMA ConexionBasura ==
  ASSUME Base, NEW c \in Consolas, caida = "no", ~Perturbada(c), Conexion(c),
         RecibeRespuestaBasura(c)
  PROVE  Conexion(c)'
<1>1. /\ hilo[c] = "responde" /\ Llega(c) = <<>> /\ Extremo(c) = "rst"
      /\ red' = [red EXCEPT ![Toma(c)].extremoK = "roto"]
      /\ hilo' = [hilo EXCEPT ![c] = "espera"]
      /\ UNCHANGED <<consola, tecleado, mostrado, pcb, caida>>
  BY DEF RecibeRespuestaBasura, Pasa, ajenas, consolaVars
<1>2. TipoBase /\ DOMAIN hilo = Consolas /\ DOMAIN red = Consolas
  BY DEF Base, TipoBase
<1>3. Toma(c) = c /\ Llega(c) = red[c].alKernel /\ Extremo(c) = red[c].extremoK
  BY <1>1, HiloPropio DEF PasosAtendidos
<1>4. Conversa(c) /\ Terminada(c)
  BY <1>1, <1>3, DondeEsta DEF Conexion, Dialoga
<1>5. consola[c] = "muerta"
  BY <1>4 DEF Conversa, Terminada
<1>6. red'[c].alKernel = <<>> /\ red'[c].extremoK = "roto"
  <2> DEFINE k == red[c].alKernel
             a == red[c].alConsola
             ek == red[c].extremoK
             ec == red[c].extremoC
  <2>1. red[c] = Canal(k, a, ek, ec)
    BY <1>2, CanalDe
  <2>2. red'[c] = [red[c] EXCEPT !.extremoK = "roto"] /\ k = <<>>
    BY <1>1, <1>2, <1>3
  <2> HIDE DEF k, a, ek, ec
  <2>3. red'[c] = Canal(k, a, "roto", ec)
    BY <2>1, <2>2 DEF Canal
  <2>4. red'[c].alKernel = k /\ red'[c].extremoK = "roto"
    BY <2>3, CanalCampos
  <2> QED
    BY <2>2, <2>4
<1>7. Calla(c)'
  BY <1>1, <1>5, <1>6 DEF Calla
<1>8. hilo'[c] = "espera"
  BY <1>1, <1>2
<1> QED
  BY <1>1, <1>7, <1>8, Vuelve

LEMMA ConexionInesperado ==
  ASSUME Base, NEW c \in Consolas, caida = "no", ~Perturbada(c), Conexion(c),
         RecibeInesperado(c)
  PROVE  Conexion(c)'
<1>1. /\ hilo[c] \in {"encabezado", "responde"} /\ CaeKernel("codigo")
      /\ hilo' = [hilo EXCEPT ![c] = "fin"]
      /\ UNCHANGED <<consola, tecleado, mostrado, pcb, pipeline>>
  BY DEF RecibeInesperado, Pasa, ajenas, consolaVars, procesoVars
<1>2. hilo'[c] = "fin"
  BY <1>1 DEF Base, TipoBase
<1> QED
  BY <1>1, <1>2, ConexionCae

LEMMA ConexionNula ==
  ASSUME Base, NEW c \in Consolas, caida = "no", ~Perturbada(c), Conexion(c),
         RecibeRespuestaNula(c)
  PROVE  Conexion(c)'
<1>1. /\ hilo[c] = "responde" /\ CaeKernel("senal")
      /\ hilo' = [hilo EXCEPT ![c] = "fin"]
      /\ UNCHANGED <<consola, tecleado, mostrado, pcb, pipeline>>
  BY DEF RecibeRespuestaNula, Pasa, ajenas, consolaVars, procesoVars
<1>2. hilo'[c] = "fin"
  BY <1>1 DEF Base, TipoBase
<1> QED
  BY <1>1, <1>2, ConexionCae

(* The thread of the connection, in each of its steps.                     *)
LEMMA ConexionHilo ==
  ASSUME Base, NEW c \in Consolas, ~Perturbada(c), Conexion(c), NextHilo(c)
  PROVE  Conexion(c)'
<1>1. caida = "no"
  BY DEF NextHilo
<1>2. CASE LeeParametros(c) /\ UNCHANGED <<red, consolaVars, procesoVars>>
  BY <1>2, ConexionLee
<1>3. CASE RecibeEncabezado(c)
  BY <1>1, <1>3, ConexionEncabezado
<1>4. CASE RecibeCantidad(c)
  BY <1>1, <1>4, ConexionCantidad
<1>5. CASE RecibeSegmento(c)
  BY <1>1, <1>5, ConexionSegmento
<1>6. CASE RecibeLinea(c)
  BY <1>1, <1>6, ConexionLinea
<1>7. CASE Completa(c)
  BY <1>1, <1>7, ConexionCompleta
<1>8. CASE AtiendeIO(c)
  BY <1>1, <1>8, ConexionAtiendeIO
<1>9. CASE AtiendeExit(c)
  BY <1>1, <1>9, ConexionAtiendeExit
<1>10. CASE RecibeTecla(c)
  BY <1>1, <1>10, ConexionTecla
<1>11. CASE RecibeConfirmacion(c)
  BY <1>1, <1>11, ConexionConfirmacion
<1>12. CASE RecibeRespuestaBasura(c)
  BY <1>1, <1>12, ConexionBasura
<1>13. CASE RecibeInesperado(c)
  BY <1>1, <1>13, ConexionInesperado
<1>14. CASE SePierde(c)
  BY <1>1, <1>14, NoSePierde
<1>15. CASE CaePerdido(c)
  BY <1>15 DEF CaePerdido, Conexion, HiloFiel
<1>16. CASE RecibeRespuestaNula(c)
  BY <1>1, <1>16, ConexionNula
<1> QED
  BY <1>2, <1>3, <1>4, <1>5, <1>6, <1>7, <1>8, <1>9, <1>10, <1>11, <1>12, <1>13, <1>14, <1>15,
     <1>16 DEF NextHilo

-----------------------------------------------------------------------------
(* Every connection, in every step. *)

LEMMA ConexionInicial ==
  ASSUME Init, NEW c \in Consolas
  PROVE  Conexion(c)
<1>1. /\ hilo[c] = "nada" /\ consola[c] = "conecta" /\ caida = "no"
      /\ pcb[c] = SinPCB /\ pipeline[c] = PipelineVacia
      /\ red[c] = [alKernel |-> <<>>, alConsola |-> <<>>, extremoK |-> "viva", extremoC |-> "viva"]
  BY DEF Init, InitServidor
<1>2. HiloFiel(c)
  <2>1. PcbParcial(c)
    BY <1>1 DEF PcbParcial, SinPCB
  <2>2. BuzonCoherente(c)
    BY <1>1, CodigosDistintos DEF BuzonCoherente, PipelineVacia, Respuestas
  <2> QED
    BY <1>1, <2>1, <2>2 DEF HiloFiel
<1>3. Dialoga(c)
  BY <1>1 DEF Dialoga, Previo, Cargando
<1> QED
  BY <1>1, <1>2, <1>3 DEF Conexion

LEMMA ConexionPaso ==
  ASSUME Base, [PasoDialogo]_estadoVars, NEW c \in Consolas, Conexion(c)
  PROVE  Conexion(c)'
<1>1. CASE Perturbada(c)'
  BY <1>1 DEF Conexion
<1>2. CASE ~Perturbada(c)'
  <2>1. ~Perturbada(c)
    BY <1>2, PerturbadaQueda
  <2>2. CASE NextServidor
    <3>1. LoopServidor /\ UNCHANGED <<red, consolaVars, procesoVars>>
      BY <2>2 DEF NextServidor
    <3> QED
      BY <2>1, <3>1, ConexionServidor
  <2>3. CASE caida = "no" /\ CreaHiloFalla /\ UNCHANGED <<red, consolaVars, procesoVars>>
    BY <2>1, <2>3, ConexionServidor
  <2>4. CASE caida = "no" /\ AceptaFalla
    <3>1. /\ CaeKernel("accept")
          /\ UNCHANGED <<consola, tecleado, mostrado, hilo, pcb, pipeline>>
      BY <2>4 DEF AceptaFalla, ajenas, consolaVars, procesoVars
    <3>2. hilo'[c] = hilo[c] /\ pcb'[c] = pcb[c] /\ pipeline'[c] = pipeline[c]
      BY <3>1
    <3> QED
      BY <2>1, <2>4, <3>1, <3>2, ConexionCae
  <2>5. ASSUME NEW d \in Consolas, NextConsola(d) \/ Muere(d) PROVE Conexion(c)'
    <3>1. CASE d # c
      BY <2>1, <2>5, <3>1, ConexionConsolaAjena
    <3>2. CASE d = c /\ caida # "no"
      BY <2>1, <2>5, <3>2, ConexionSinKernel
    <3>3. CASE d = c /\ caida = "no" /\ NextConsola(c)
      BY <2>1, <3>3, ConexionConsola
    <3>4. CASE d = c /\ caida = "no" /\ Muere(c)
      BY <2>1, <3>4, ConexionMuere
    <3> QED
      BY <2>5, <3>1, <3>2, <3>3, <3>4
  <2>6. ASSUME NEW h \in Consolas, NextHilo(h) PROVE Conexion(c)'
    <3>1. CASE h # c
      BY <2>1, <2>6, <3>1, ConexionHiloAjeno
    <3>2. CASE h = c
      BY <2>1, <2>6, <3>2, ConexionHilo
    <3> QED
      BY <3>1, <3>2
  <2>7. ASSUME NEW h \in Consolas, NextProceso(h) PROVE Conexion(c)'
    <3>1. PICK op \in {CONSOLE_INPUT, CONSOLE_OUTPUT, EXIT}, v \in Int : Pide(h, op, v)
      BY <2>7, PideAlguno
    <3>2. caida = "no"
      BY <2>7 DEF NextProceso
    <3>3. CASE h # c
      BY <2>1, <3>1, <3>3, ConexionProcesoAjeno
    <3>4. CASE h = c
      BY <2>1, <3>1, <3>2, <3>4, ConexionProceso
    <3> QED
      BY <3>3, <3>4
  <2>8. CASE UNCHANGED estadoVars
    <3>1. UNCHANGED <<hilo, pcb, pipeline, red, consola, tecleado, mostrado, caida>>
      BY <2>8 DEF estadoVars, consolaVars, procesoVars
    <3>2. /\ hilo'[c] = hilo[c] /\ pcb'[c] = pcb[c] /\ pipeline'[c] = pipeline[c]
          /\ red'[c] = red[c] /\ consola'[c] = consola[c] /\ tecleado'[c] = tecleado[c]
          /\ mostrado'[c] = mostrado[c] /\ caida' = caida
      BY <3>1
    <3> QED
      BY <2>1, <3>2, ConexionIgual
  <2> QED
    BY <2>2, <2>3, <2>4, <2>5, <2>6, <2>7, <2>8 DEF PasoDialogo, NextFallas
<1> QED
  BY <1>1, <1>2

(* A console that died stays so. *)
LEMMA MuertaQueda ==
  ASSUME Base, [PasoDialogo]_estadoVars, NEW c \in Consolas, consola[c] = "muerta"
  PROVE  consola'[c] = "muerta"
<1>1. DOMAIN consola = Consolas
  BY DEF Base, TipoBase
<1>2. ASSUME NEW d \in Consolas, NextConsola(d) \/ Muere(d) PROVE consola'[c] = "muerta"
  <2>1. d # c
    BY <1>2 DEF NextConsola, Muere, Conecta, NoConecta, EnviaPrograma, RecibeInput, RecibeOutput,
         RecibeExit, RecibeError, RecibeReset, Teclea, Muestra, RecibeOperacion
  <2>2. \E r : consola' = [consola EXCEPT ![d] = r]
    BY <1>2 DEF NextConsola, Muere, Conecta, NoConecta, EnviaPrograma, RecibeInput, RecibeOutput,
         RecibeExit, RecibeError, RecibeReset, Teclea, Muestra, EnviaConsola, TerminaConsola
  <2> QED
    BY <1>1, <2>1, <2>2
<1>3. CASE NextServidor \/ (CreaHiloFalla /\ UNCHANGED <<red, consolaVars, procesoVars>>)
  BY <1>3 DEF NextServidor, consolaVars
<1>4. CASE AceptaFalla
  BY <1>4 DEF AceptaFalla, ajenas, consolaVars
<1>5. ASSUME NEW h \in Consolas, NextHilo(h) PROVE consola'[c] = "muerta"
  BY <1>5 DEF NextHilo, RecibeEncabezado, RecibeCantidad, RecibeSegmento, RecibeLinea, Completa,
       AtiendeIO, AtiendeExit, RecibeTecla, RecibeConfirmacion, RecibeInesperado,
       RecibeRespuestaBasura, RecibeRespuestaNula, SePierde, CaePerdido, ajenas, consolaVars
<1>6. ASSUME NEW h \in Consolas, NextProceso(h) PROVE consola'[c] = "muerta"
  BY <1>6 DEF NextProceso, Pide, ajenas, consolaVars
<1>7. CASE UNCHANGED estadoVars
  BY <1>7 DEF estadoVars, consolaVars
<1> QED
  BY <1>2, <1>3, <1>4, <1>5, <1>6, <1>7 DEF PasoDialogo, NextFallas

(* A thread that ends the Kernel finds that its console died.              *)
LEMMA CaeConCausa ==
  ASSUME Base, NEW h \in Consolas, Conexion(h), NextHilo(h), ~Perturbada(h)
  PROVE  caida' = "no" \/ consola[h] = "muerta"
<1>1. caida = "no"
  BY DEF NextHilo
<1>2. CASE LeeParametros(h) \/ Completa(h) \/ RecibeRespuestaBasura(h)
  BY <1>1, <1>2 DEF LeeParametros, LeeSocket, LeeId, Completa, RecibeRespuestaBasura
<1>3. CASE RecibeEncabezado(h) \/ RecibeCantidad(h) \/ RecibeSegmento(h) \/ RecibeLinea(h)
  BY <1>1, <1>3 DEF RecibeEncabezado, RecibeCantidad, RecibeSegmento, RecibeLinea, Recibir, Consume
<1>4. CASE RecibeTecla(h) \/ RecibeConfirmacion(h)
  BY <1>1, <1>4 DEF RecibeTecla, RecibeConfirmacion, Consume
<1>5. CASE AtiendeIO(h) \/ AtiendeExit(h)
  <2>1. PICK campos \in Seq(Campos) : hilo[h] = "atiende" /\ EnviaKernel(Toma(h), campos)
    <3>1. /\ CONSOLE_INPUT \in Int /\ CONSOLE_OUTPUT \in Int /\ EXIT \in Int
          /\ pipeline[h].valor \in Int
      BY CodigosEnteros DEF Base, TipoBase
    <3>2. /\ Vacio(CONSOLE_INPUT) \in Seq(Campos) /\ Vacio(EXIT) \in Seq(Campos)
          /\ ConEntero(CONSOLE_OUTPUT, pipeline[h].valor) \in Seq(Campos)
      BY <3>1, PaquetesTipo
    <3> QED
      BY <1>5, <3>2 DEF AtiendeIO, AtiendeExit
  <2> QED
    BY <1>1, <2>1, EnviaCallado
<1>6. CASE RecibeInesperado(h)
  <2>1. /\ hilo[h] \in {"encabezado", "responde"}
        /\ IF Llega(h) = <<>> THEN Extremo(h) # "viva" ELSE Head(Llega(h)) # Entero(CodigoEsperado(h))
    BY <1>6 DEF RecibeInesperado
  <2>2. Llega(h) = red[h].alKernel /\ Extremo(h) = red[h].extremoK
    BY <2>1, HiloPropio DEF PasosAtendidos
  <2>3. red[h].extremoK # "viva" <=> Terminada(h)
    BY <1>1, DondeEsta
  <2>4. CASE hilo[h] = "encabezado"
    <3>1. Previo(h)
      BY <1>1, <2>4 DEF Conexion, Dialoga
    <3>2. CASE red[h].alKernel = <<>>
      BY <2>1, <2>2, <2>3, <3>1, <3>2 DEF Previo, Terminada
    <3>3. CASE red[h].alKernel # <<>>
      <4>1. red[h].alKernel = Programa(h)
        BY <3>1, <3>3 DEF Previo
      <4>2. Head(red[h].alKernel) = Entero(NUEVO_PROCESO)
        BY <4>1, ProgramaSon
      <4> QED
        BY <2>1, <2>2, <2>4, <3>3, <4>2 DEF CodigoEsperado
    <3> QED
      BY <3>2, <3>3
  <2>5. CASE hilo[h] = "responde"
    <3>1. Conversa(h)
      BY <1>1, <2>5 DEF Conexion, Dialoga
    <3>2. CASE red[h].alKernel = <<>>
      BY <2>1, <2>2, <2>3, <3>1, <3>2 DEF Conversa, Terminada
    <3>3. CASE red[h].alKernel # <<>>
      <4>1. Head(red[h].alKernel) = Entero(Respuesta(pipeline[h].op))
        BY <1>1, <2>5, <3>3, LoContestado
      <4> QED
        BY <2>1, <2>2, <2>5, <3>3, <4>1 DEF CodigoEsperado
    <3> QED
      BY <3>2, <3>3
  <2> QED
    BY <2>1, <2>4, <2>5
<1>7. CASE SePierde(h)
  BY <1>1, <1>7, NoSePierde
<1>8. CASE CaePerdido(h)
  BY <1>8 DEF CaePerdido, Conexion, HiloFiel
<1>9. CASE RecibeRespuestaNula(h)
  <2>1. hilo[h] = "responde" /\ Extremo(h) = "rst"
    BY <1>9 DEF RecibeRespuestaNula
  <2>2. Extremo(h) = red[h].extremoK
    BY <2>1, HiloPropio DEF PasosAtendidos
  <2>3. Conversa(h) /\ Terminada(h)
    BY <1>1, <2>1, <2>2, DondeEsta DEF Conexion, Dialoga
  <2> QED
    BY <2>3 DEF Conversa, Terminada
<1> QED
  BY <1>2, <1>3, <1>4, <1>5, <1>6, <1>7, <1>8, <1>9 DEF NextHilo

LEMMA CausaPaso ==
  ASSUME Base, [PasoDialogo]_estadoVars, \A c \in Consolas : Conexion(c), CaidaConCausa
  PROVE  CaidaConCausa'
<1>1. ASSUME NEW c \in Consolas, consola[c] = "muerta" \/ Perturbada(c) PROVE CaidaConCausa'
  BY <1>1, MuertaQueda, PerturbadaQueda DEF CaidaConCausa
<1>2. SUFFICES ASSUME \A c \in Consolas : consola[c] # "muerta" /\ ~Perturbada(c)
               PROVE  caida' \notin {"codigo", "senal", "perdido"}
  BY <1>1 DEF CaidaConCausa
<1>3. caida \notin {"codigo", "senal", "perdido"}
  BY <1>2 DEF CaidaConCausa
<1>4. CASE caida' = caida
  BY <1>3, <1>4
<1>5. CASE AceptaFalla
  BY <1>5 DEF AceptaFalla, CaeKernel
<1>6. ASSUME NEW h \in Consolas, NextHilo(h) PROVE caida' = "no"
  BY <1>2, <1>6, CaeConCausa
<1>7. ASSUME NEW d \in Consolas, NextConsola(d) \/ Muere(d) PROVE caida' = caida
  BY <1>7 DEF NextConsola, Muere, Conecta, NoConecta, EnviaPrograma, RecibeInput, RecibeOutput,
       RecibeExit, RecibeError, RecibeReset, Teclea, Muestra, kernelVars
<1>8. ASSUME NEW h \in Consolas, NextProceso(h) PROVE caida' = caida
  BY <1>8 DEF NextProceso, Pide
<1>9. CASE NextServidor \/ CreaHiloFalla
  <2>1. caida' = caida
    BY <1>9 DEF NextServidor, LoopServidor, Acepta, EscribeSocket, EscribeId, Registra, CreaHilo,
         CreaHiloFalla
  <2> QED
    BY <1>3, <2>1
<1>10. CASE UNCHANGED estadoVars
  <2>1. caida' = caida
    BY <1>10 DEF estadoVars
  <2> QED
    BY <1>3, <2>1
<1> QED
  BY <1>3, <1>4, <1>5, <1>6, <1>7, <1>8, <1>9, <1>10 DEF PasoDialogo, NextFallas

LEMMA InvInicial == Init => Inv
<1> SUFFICES ASSUME Init PROVE Inv
  OBVIOUS
<1>1. Base /\ \A c \in Consolas : Conexion(c)
  BY BaseInicial, ConexionInicial
<1>2. CaidaConCausa
  BY DEF Init, InitServidor, CaidaConCausa
<1> QED
  BY <1>1, <1>2 DEF Inv

LEMMA InvPaso == Inv /\ [PasoDialogo]_estadoVars => Inv'
<1> SUFFICES ASSUME Inv, [PasoDialogo]_estadoVars PROVE Inv'
  OBVIOUS
<1>1. Base /\ (\A c \in Consolas : Conexion(c)) /\ CaidaConCausa
  BY DEF Inv
<1>2. Base'
  BY <1>1, BasePaso
<1>3. \A c \in Consolas : Conexion(c)'
  BY <1>1, ConexionPaso
<1>4. CaidaConCausa'
  BY <1>1, CausaPaso
<1> QED
  BY <1>2, <1>3, <1>4 DEF Inv

LEMMA FielDeInv ==
  ASSUME Inv
  PROVE  DialogoFiel
<1>1. Base /\ \A c \in Consolas : Conexion(c)
  BY DEF Inv
<1>2. PCBFiel
  BY <1>1 DEF PCBFiel, Atendidos, Conexion, HiloFiel, PcbParcial
<1>3. IOFiel
  <2> SUFFICES ASSUME NEW c \in Atendidos, ~Perturbada(c), red[c].extremoK # "roto",
                      pipeline[c].op \in Respuestas
               PROVE  PalabraFiel(c)
    BY DEF IOFiel, PalabraFiel, Respuestas
  <2>1. c \in Consolas /\ Conexion(c)
    BY <1>1 DEF Atendidos
  <2>2. hilo[c] = "espera"
    BY <2>1 DEF Conexion, HiloFiel, BuzonCoherente
  <2>3. CASE caida = "no"
    BY <2>1, <2>2, <2>3 DEF Conexion, Dialoga, Calla
  <2>4. CASE caida # "no"
    BY <2>1, <2>4 DEF Conexion, Abandonada
  <2> QED
    BY <2>3, <2>4
<1> QED
  BY <1>2, <1>3 DEF DialogoFiel

LEMMA VerazDeInv ==
  ASSUME Inv
  PROVE  ConsolaVeraz
BY DondeEsta DEF Inv, ConsolaVeraz

LEMMA InvSiempre == Spec => []Inv
<1>1. Init => Inv
  BY InvInicial
<1>2. Inv /\ [Next]_vars => Inv'
  BY InvPaso, PasoDeDialogo
<1> QED
  BY <1>1, <1>2, PTL DEF Spec

(* Whatever the number of consoles, of segments and of lines, and however  *)
(* the threads interleave: a connection that no other thread touches gives *)
(* the Kernel the program that the console read, and each word gets to the *)
(* process as it was typed and to the screen as it was sent.               *)
THEOREM DialogoCorrecto == Spec => []DialogoFiel
<1>1. Inv => DialogoFiel
  BY FielDeInv
<1> QED
  BY <1>1, InvSiempre, PTL

(* A thread of the Kernel ends it, because of a code, of a signal or of    *)
(* bytes that are not those of a field, only after a console died or a     *)
(* thread was overtaken by the accept loop.                                *)
THEOREM CaidaCorrecta == Spec => []CaidaConCausa
<1>1. Inv => CaidaConCausa
  BY DEF Inv
<1> QED
  BY <1>1, InvSiempre, PTL

(* While the Kernel lives, a console that nobody killed and that no other  *)
(* thread touches does not report an error, and it reports success only    *)
(* when the thread of its process was done.                                *)
THEOREM ConsolaCorrecta == Spec => []ConsolaVeraz
<1>1. Inv => ConsolaVeraz
  BY VerazDeInv
<1> QED
  BY <1>1, InvSiempre, PTL

=============================================================================
