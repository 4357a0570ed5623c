--------------------------- MODULE MemoriaProofs ---------------------------
(***************************************************************************)
(* The safety of the virtual memory, proved for every number of processes, *)
(* pages, frames and slots, both replacement algorithms, both policies and *)
(* any size of the TLB, and bitmaps that start with anything.  Inv joins   *)
(* the properties of MemoriaPropiedades, which lean on each other, with    *)
(* what relates the phase of a process, its fault and the routine that     *)
(* solves it.                                                              *)
(***************************************************************************)
EXTENDS MemoriaPropiedades, FiniteSetTheorems, FunctionTheorems, SequenceTheorems, TLAPS

(* What the Kernel's view of a process says of its pages.                  *)
FaseCoherente(p) ==
    /\ p \in alojados <=> fase[p] \notin {"nuevo", "fin"}
    /\ p \notin alojados => presente[p] = {}
    /\ fase[p] = "nuevo" => falta[p] = Nulo
    /\ fase[p] \in {"falla", "cargando"} => falta[p] \in Paginas \ presente[p]
    /\ fase[p] = "cargando" <=> rutina # "libre" /\ pedida[1] = p
    /\ enCpu = p => fase[p] = "listo"

(* Pages in memory have a frame, and whole pages, and no other, a slot.    *)
PaginasUbicadas ==
    /\ \A p \in Procesos : \A g \in presente[p] : marco[p][g] \in Marcos
    /\ \A p \in alojados : \A g \in PaginasEnteras : slot[p][g] \in Slots
    /\ \A p \in Procesos : \A g \in Paginas \ PaginasEnteras : slot[p][g] = Nulo

(* A replacement loads the page that its process asked for, because there  *)
(* was no frame for it.                                                    *)
RutinaCoherente ==
    /\ rutina = "libre" <=> pedida = Nulo
    /\ rutina # "libre" => falta[pedida[1]] = pedida[2]
    /\ rutina = "elige" => MemoriaEstaLlena \/ Len(presentes[pedida[1]]) = MarcosPorProceso

(* The MOV in progress is for a frame of the process that runs, ...        *)
AccesoPropio ==
    acceso # Nulo =>
        /\ acceso.pid = enCpu
        /\ tablaFrames[acceso.marco] # Nulo
        /\ tablaFrames[acceso.marco][1] = enCpu

(* ... and the frame that is still to be marked was freed only if its      *)
(* process ended.                                                          *)
MarcaConEntrada ==
    marca # Nulo =>
        tablaFrames[marca.marco] # Nulo \/ \E p \in Procesos : fase[p] = "fin"

(* The tables of the pages, which do not know of the CPU.                  *)
Tablas ==
    /\ PaginasUbicadas /\ RutinaCoherente
    /\ MarcosCoherentes /\ SlotsExclusivos /\ ColaCoherente

Inv ==
    /\ TypeOK
    /\ \A p \in Procesos : FaseCoherente(p)
    /\ Tablas
    /\ AccesoPropio /\ MarcaConEntrada /\ TLBPropia /\ ReintentoNoFalla

-----------------------------------------------------------------------------
(* Numbers and their order. *)

(* The numbers below m are fewer than those below a greater one.           *)
LEMMA MenoresTipo ==
  ASSUME NEW S, S \subseteq Nat, IsFiniteSet(S), NEW n \in Nat
  PROVE  Menores(S, n) \in 0 .. Cardinality(S)
<1> DEFINE T == {t \in S : t < n}
<1>1. IsFiniteSet(T) /\ Cardinality(T) <= Cardinality(S)
  BY FS_Subset, T \subseteq S
<1>2. Cardinality(T) \in Nat /\ Cardinality(S) \in Nat
  BY <1>1, FS_CardinalityType
<1> QED
  BY <1>1, <1>2 DEF Menores

LEMMA MenoresCrece ==
  ASSUME NEW S, S \subseteq Nat, IsFiniteSet(S), NEW m \in S, NEW n \in Nat, m < n
  PROVE  Menores(S, m) < Menores(S, n)
<1> DEFINE A == {t \in S : t < m}
           B == {t \in S : t < n}
<1>1. IsFiniteSet(A) /\ IsFiniteSet(B)
  BY FS_Subset, A \subseteq S, B \subseteq S
<1>0. \A t \in S : t \in Nat
  OBVIOUS
<1>2. m \notin A /\ A \cup {m} \subseteq B
  <2>1. ~(m < m) /\ \A t \in S : t < m => t < n
    BY <1>0
  <2> QED
    BY <2>1
<1>3. IsFiniteSet(A \cup {m}) /\ Cardinality(A \cup {m}) = Cardinality(A) + 1
  BY <1>1, <1>2, FS_AddElement
<1>4. Cardinality(A \cup {m}) <= Cardinality(B)
  BY <1>1, <1>2, FS_Subset
<1>5. Cardinality(A) \in Nat /\ Cardinality(B) \in Nat
  BY <1>1, FS_CardinalityType
<1>6. Cardinality(A) < Cardinality(B)
  BY <1>3, <1>4, <1>5
<1> QED
  BY <1>6 DEF Menores

LEMMA MenoresPropio ==
  ASSUME NEW S, S \subseteq Nat, IsFiniteSet(S), NEW n \in S
  PROVE  Menores(S, n) \in 0 .. (Cardinality(S) - 1)
<1>1. n \in Nat
  OBVIOUS
<1>2. Menores(S, n) \in 0 .. Cardinality(S)
  BY <1>1, MenoresTipo
<1>3. {t \in S : t < n} \subseteq S \ {n}
  BY <1>1
<1>4. IsFiniteSet(S \ {n}) /\ Cardinality(S \ {n}) = Cardinality(S) - 1
  BY FS_RemoveElement
<1>5. Menores(S, n) <= Cardinality(S) - 1
  BY <1>3, <1>4, FS_Subset DEF Menores
<1>6. Cardinality(S) \in Nat
  BY FS_CardinalityType
<1> QED
  BY <1>2, <1>5, <1>6

(* So each rank below the size of the set is that of one of its numbers.   *)
LEMMA EnesimoExiste ==
  ASSUME NEW S, S \subseteq Nat, IsFiniteSet(S), NEW k \in Nat, k < Cardinality(S)
  PROVE  Enesimo(S, k) \in S /\ Menores(S, Enesimo(S, k)) = k
<1> DEFINE N == Cardinality(S)
           T == 0 .. (N - 1)
           f == [n \in S |-> Menores(S, n)]
<1>1. N \in Nat
  BY FS_CardinalityType
<1>2. IsFiniteSet(T) /\ Cardinality(T) = N
  <2>1. 0 \in Int /\ N - 1 \in Int
    BY <1>1
  <2>2. IsFiniteSet(0 .. (N - 1)) /\ Cardinality(0 .. (N - 1)) = IF 0 > N - 1 THEN 0 ELSE (N - 1) - 0 + 1
    BY <2>1, FS_Interval
  <2> QED
    BY <1>1, <2>2
<1>3. \A n \in S : Menores(S, n) \in T
  BY <1>1, MenoresPropio
<1>4. \A m, n \in S : Menores(S, m) = Menores(S, n) => m = n
  <2> SUFFICES ASSUME NEW m \in S, NEW n \in S, m # n
               PROVE  Menores(S, m) # Menores(S, n)
    OBVIOUS
  <2>0. m \in Nat /\ n \in Nat
    OBVIOUS
  <2>1. Menores(S, m) \in Nat /\ Menores(S, n) \in Nat
    BY <1>3
  <2>2. CASE m < n
    <3>1. Menores(S, m) < Menores(S, n)
      BY <2>0, <2>2, MenoresCrece
    <3> QED
      BY <2>1, <3>1
  <2>3. CASE n < m
    <3>1. Menores(S, n) < Menores(S, m)
      BY <2>0, <2>3, MenoresCrece
    <3> QED
      BY <2>1, <3>1
  <2> QED
    BY <2>0, <2>2, <2>3
<1>5. f \in Injection(S, T)
  BY <1>3, <1>4 DEF Injection, IsInjective
<1>6. f \in Surjection(S, T)
  BY <1>2, <1>5, FS_Injection
<1>7. k \in T
  BY <1>1
<1>8. PICK n \in S : Menores(S, n) = k
  BY <1>6, <1>7 DEF Surjection
<1> QED
  BY <1>8 DEF Enesimo

(* A map with a free position has a first one.                             *)
LEMMA LibreExiste ==
  ASSUME NEW posiciones, posiciones \subseteq Nat, IsFiniteSet(posiciones),
         NEW mapa, ~(posiciones \subseteq mapa)
  PROVE  PosicionLibre(mapa, posiciones) \in posiciones \ mapa
<1> DEFINE S == posiciones \ mapa
           n == Enesimo(S, 0)
<1>1. S \subseteq Nat /\ IsFiniteSet(S) /\ S # {}
  BY FS_Subset
<1>2. Cardinality(S) \in Nat /\ Cardinality(S) # 0
  BY <1>1, FS_CardinalityType, FS_EmptySet
<1>3. n \in S /\ Menores(S, n) = 0
  BY <1>1, <1>2, EnesimoExiste
<1>4. \A k \in S : n <= k
  <2> SUFFICES ASSUME NEW k \in S, k < n PROVE FALSE
    BY <1>1, <1>3
  <2>1. Menores(S, k) < 0 /\ Menores(S, k) \in Nat
    BY <1>1, <1>3, MenoresCrece, MenoresTipo
  <2> QED
    BY <2>1
<1> HIDE DEF n
<1> QED
  BY <1>3, <1>4 DEF PosicionLibre

-----------------------------------------------------------------------------
(* Queues without repetitions. *)

LEMMA Repetidos ==
  ASSUME NEW s \in Seq(Paginas)
  PROVE  /\ Len(s) \in Nat /\ DOMAIN s = 1 .. Len(s)
         /\ Elementos(s) \subseteq Paginas /\ IsFiniteSet(Elementos(s))
         /\ Cardinality(Elementos(s)) \in Nat
         /\ SinRepetidos(s) <=> \A i, j \in DOMAIN s : s[i] = s[j] => i = j
<1> DEFINE D == DOMAIN s
           E == Elementos(s)
<1>1. Len(s) \in Nat /\ D = 1 .. Len(s) /\ s \in [D -> Paginas]
  BY LenProperties
<1>2. IsFiniteSet(D) /\ Cardinality(D) = Len(s)
  <2>1. 1 \in Int /\ Len(s) \in Int
    BY <1>1
  <2>2. IsFiniteSet(1 .. Len(s)) /\ Cardinality(1 .. Len(s)) = IF 1 > Len(s) THEN 0 ELSE Len(s) - 1 + 1
    BY <2>1, FS_Interval
  <2> QED
    BY <1>1, <2>2
<1>3. E \subseteq Paginas /\ s \in Surjection(D, E)
  BY <1>1 DEF Elementos, Surjection
<1>4. IsFiniteSet(E) /\ (Cardinality(E) = Cardinality(D) <=> s \in Injection(D, E))
  BY <1>2, <1>3, FS_Surjection
<1>5. s \in Injection(D, E) <=> \A i, j \in D : s[i] = s[j] => i = j
  BY <1>3 DEF Injection, IsInjective, Surjection
<1> QED
  BY <1>1, <1>2, <1>3, <1>4, <1>5, FS_CardinalityType DEF SinRepetidos

LEMMA ColaVacia ==
  Elementos(<<>>) = {} /\ SinRepetidos(<<>>) /\ Cardinality({}) <= MarcosPorProceso
<1>1. Elementos(<<>>) = {}
  BY DEF Elementos
<1>2. Len(<<>>) = 0
  OBVIOUS
<1>3. Cardinality({}) = 0
  BY FS_EmptySet
<1>4. Cardinality(Elementos(<<>>)) = Len(<<>>)
  BY <1>1, <1>2, <1>3, Zenon
<1>5. MarcosPorProceso \in Nat
  BY SupuestosMemoria DEF SupuestosMemoria
<1>6. Cardinality({}) <= MarcosPorProceso
  BY <1>3, <1>5
<1> QED
  BY <1>1, <1>4, <1>6 DEF SinRepetidos

(* A page that was not in the queue goes to its end, ...                   *)
LEMMA ColaAgregar ==
  ASSUME NEW s \in Seq(Paginas), SinRepetidos(s), NEW g \in Paginas \ Elementos(s)
  PROVE  /\ Append(s, g) \in Seq(Paginas) /\ Len(Append(s, g)) = Len(s) + 1
         /\ SinRepetidos(Append(s, g))
         /\ Elementos(Append(s, g)) = Elementos(s) \cup {g}
<1> DEFINE t == Append(s, g)
           n == Len(s) + 1
<1>1. Len(s) \in Nat /\ DOMAIN s = 1 .. Len(s)
  BY LenProperties
<1>2. /\ t \in Seq(Paginas) /\ Len(t) = n /\ DOMAIN t = 1 .. n
      /\ \A i \in 1 .. Len(s) : t[i] = s[i]
      /\ t[n] = g
  BY AppendProperties, LenProperties
<1>3. \A i, j \in DOMAIN s : s[i] = s[j] => i = j
  BY Repetidos
<1>4. \A i \in DOMAIN s : s[i] # g
  BY DEF Elementos
<1>5. 1 .. n = DOMAIN s \cup {n}
  BY <1>1
<1> HIDE DEF t
<1>6. \A i, j \in DOMAIN t : t[i] = t[j] => i = j
  BY <1>1, <1>2, <1>3, <1>4, <1>5
<1>7. Elementos(t) = Elementos(s) \cup {g}
  BY <1>1, <1>2, <1>5 DEF Elementos
<1> QED
  BY <1>2, <1>6, <1>7, Repetidos DEF t

(* ... and the one at the head leaves.                                     *)
LEMMA ColaSacar ==
  ASSUME NEW s \in Seq(Paginas), s # <<>>, SinRepetidos(s)
  PROVE  /\ Tail(s) \in Seq(Paginas) /\ Len(Tail(s)) = Len(s) - 1
         /\ SinRepetidos(Tail(s))
         /\ Head(s) \in Elementos(s) /\ Head(s) \in Paginas
         /\ Elementos(Tail(s)) = Elementos(s) \ {Head(s)}
<1> DEFINE t == Tail(s)
           n == Len(s)
<1>1. n \in Nat \ {0} /\ DOMAIN s = 1 .. n /\ Head(s) = s[1] /\ s[1] \in Paginas
  BY LenProperties, EmptySeq, ElementOfSeq
<1>2. /\ t \in Seq(Paginas) /\ Len(t) = n - 1 /\ DOMAIN t = 1 .. (n - 1)
      /\ \A i \in 1 .. (n - 1) : t[i] = s[i + 1]
  BY HeadTailProperties, LenProperties
<1>3. \A i, j \in DOMAIN s : s[i] = s[j] => i = j
  BY Repetidos
<1> HIDE DEF t
<1>a. \A i \in DOMAIN t : i + 1 \in DOMAIN s /\ i + 1 # 1 /\ t[i] = s[i + 1]
  BY <1>1, <1>2
<1>4. \A i, j \in DOMAIN t : t[i] = t[j] => i = j
  <2> SUFFICES ASSUME NEW i \in DOMAIN t, NEW j \in DOMAIN t, t[i] = t[j] PROVE i = j
    OBVIOUS
  <2>1. i + 1 = j + 1
    BY <1>3, <1>a
  <2> QED
    BY <1>1, <1>2, <2>1
<1>5. Elementos(t) \subseteq Elementos(s) \ {Head(s)}
  <2> SUFFICES ASSUME NEW i \in DOMAIN t PROVE t[i] \in Elementos(s) \ {s[1]}
    BY <1>1 DEF Elementos
  <2>1. i + 1 \in DOMAIN s /\ i + 1 # 1 /\ t[i] = s[i + 1] /\ 1 \in DOMAIN s
    BY <1>1, <1>a
  <2>2. s[i + 1] # s[1]
    BY <1>3, <2>1
  <2> QED
    BY <2>1, <2>2 DEF Elementos
<1>6. Elementos(s) \ {Head(s)} \subseteq Elementos(t)
  <2> SUFFICES ASSUME NEW i \in 1 .. n, s[i] # s[1] PROVE s[i] \in Elementos(t)
    BY <1>1 DEF Elementos
  <2>1. i - 1 \in 1 .. (n - 1) /\ (i - 1) + 1 = i
    BY <1>1
  <2>2. t[i - 1] = s[i]
    BY <1>2, <2>1
  <2> QED
    BY <1>2, <2>1, <2>2 DEF Elementos
<1>7. SinRepetidos(t)
  BY <1>2, <1>4, Repetidos
<1>8. Head(s) \in Elementos(s)
  BY <1>1 DEF Elementos
<1> QED
  BY <1>1, <1>2, <1>5, <1>6, <1>7, <1>8 DEF t
-----------------------------------------------------------------------------
(* The TLB: what its operations leave in it was in it, but for the entry   *)
(* that is added.                                                          *)

LEMMA Entradas ==
  ASSUME NEW s \in Seq(Entrada)
  PROVE  /\ Len(s) \in Nat /\ DOMAIN s = 1 .. Len(s)
         /\ \A i \in DOMAIN s : s[i] \in Entrada /\ s[i] \in Elementos(s)
         /\ \A e \in Elementos(s) : e \in Entrada
BY LenProperties, ElementOfSeq DEF Elementos

LEMMA TLBAgregar ==
  ASSUME NEW s \in Seq(Entrada), NEW e \in Entrada
  PROVE  /\ Append(s, e) \in Seq(Entrada) /\ Len(Append(s, e)) = Len(s) + 1
         /\ Elementos(Append(s, e)) = Elementos(s) \cup {e}
<1> DEFINE t == Append(s, e)
           n == Len(s) + 1
<1>1. Len(s) \in Nat /\ DOMAIN s = 1 .. Len(s)
  BY LenProperties
<1>2. /\ t \in Seq(Entrada) /\ Len(t) = n /\ DOMAIN t = 1 .. n
      /\ \A i \in 1 .. Len(s) : t[i] = s[i]
      /\ t[n] = e
  BY AppendProperties, LenProperties
<1>3. 1 .. n = DOMAIN s \cup {n}
  BY <1>1
<1> HIDE DEF t
<1>4. Elementos(t) = Elementos(s) \cup {e}
  BY <1>1, <1>2, <1>3 DEF Elementos
<1> QED
  BY <1>2, <1>4 DEF t

LEMMA TLBSacar ==
  ASSUME NEW s \in Seq(Entrada), s # <<>>
  PROVE  /\ Tail(s) \in Seq(Entrada) /\ Len(Tail(s)) = Len(s) - 1
         /\ Elementos(Tail(s)) \subseteq Elementos(s)
<1> DEFINE t == Tail(s)
           n == Len(s)
<1>1. n \in Nat \ {0} /\ DOMAIN s = 1 .. n
  BY LenProperties, EmptySeq
<1>2. /\ t \in Seq(Entrada) /\ Len(t) = n - 1 /\ DOMAIN t = 1 .. (n - 1)
      /\ \A i \in 1 .. (n - 1) : t[i] = s[i + 1]
  BY HeadTailProperties, LenProperties
<1> HIDE DEF t
<1>3. \A i \in DOMAIN t : i + 1 \in DOMAIN s /\ t[i] = s[i + 1]
  BY <1>1, <1>2
<1>4. Elementos(t) \subseteq Elementos(s)
  BY <1>3 DEF Elementos
<1> QED
  BY <1>2, <1>4 DEF t

LEMMA TLBQuitar ==
  ASSUME NEW s \in Seq(Entrada), NEW i \in DOMAIN s
  PROVE  /\ Quitar(s, i) \in Seq(Entrada) /\ Len(Quitar(s, i)) = Len(s) - 1
         /\ Elementos(Quitar(s, i)) \subseteq Elementos(s)
<1> DEFINE n == Len(s)
           a == SubSeq(s, 1, i - 1)
           b == SubSeq(s, i + 1, n)
<1>1. n \in Nat /\ DOMAIN s = 1 .. n /\ i \in 1 .. n
  BY LenProperties
<1>2. \A k \in 1 .. n : s[k] \in Entrada /\ s[k] \in Elementos(s)
  BY <1>1, Entradas
<1>3. a = [k \in 1 .. (i - 1) |-> s[k]]
  BY <1>1, <1>2
<1>4. b = [k \in 1 .. (n - i) |-> s[k + i]]
  BY <1>1, <1>2, SMTT(30)
<1>5. /\ a \in Seq(Entrada) /\ Len(a) = i - 1
      /\ b \in Seq(Entrada) /\ Len(b) = n - i
  BY <1>1, <1>2, <1>3, <1>4, IsASeq, LenProperties
<1> HIDE DEF a, b
<1>6. /\ a \o b \in Seq(Entrada) /\ Len(a \o b) = n - 1
      /\ DOMAIN (a \o b) = 1 .. (n - 1)
      /\ \A k \in 1 .. (n - 1) : (a \o b)[k] = IF k <= i - 1 THEN a[k] ELSE b[k - (i - 1)]
  <2>1. /\ a \o b \in Seq(Entrada) /\ Len(a \o b) = Len(a) + Len(b)
        /\ \A k \in 1 .. Len(a) + Len(b) :
             (a \o b)[k] = IF k <= Len(a) THEN a[k] ELSE b[k - Len(a)]
    BY <1>5, ConcatProperties
  <2>2. DOMAIN (a \o b) = 1 .. Len(a \o b)
    BY <2>1, LenProperties
  <2>3. Len(a) = i - 1 /\ Len(a) + Len(b) = n - 1
    BY <1>1, <1>5
  <2> QED
    BY <2>1, <2>2, <2>3
<1>7. ASSUME NEW k \in 1 .. (n - 1) PROVE (a \o b)[k] \in Elementos(s)
  <2>1. CASE k <= i - 1
    BY <1>1, <1>2, <1>3, <1>6, <2>1
  <2>2. CASE ~(k <= i - 1)
    <3>1. k - (i - 1) \in 1 .. (n - i) /\ (k - (i - 1)) + i \in 1 .. n
      BY <1>1, <2>2
    <3>2. (a \o b)[k] = s[(k - (i - 1)) + i]
      BY <1>4, <1>6, <2>2, <3>1
    <3> QED
      BY <1>2, <3>1, <3>2
  <2> QED
    BY <2>1, <2>2
<1>8. Elementos(a \o b) \subseteq Elementos(s)
  BY <1>6, <1>7 DEF Elementos
<1> QED
  BY <1>6, <1>8 DEF Quitar, a, b

LEMMA TLBLimpia ==
  ASSUME tlb \in Seq(Entrada), NEW p
  PROVE  /\ SinEntradasDe(p) \in Seq(Entrada) /\ Len(SinEntradasDe(p)) <= Len(tlb)
         /\ Elementos(SinEntradasDe(p)) \subseteq {e \in Elementos(tlb) : e.pid # p}
<1> DEFINE quedan == {i \in DOMAIN tlb : tlb[i].pid # p}
           n == Cardinality(quedan)
           t == SinEntradasDe(p)
<1>1. Len(tlb) \in Nat /\ DOMAIN tlb = 1 .. Len(tlb)
  BY LenProperties
<1>2. IsFiniteSet(DOMAIN tlb) /\ Cardinality(DOMAIN tlb) = Len(tlb)
  <2>1. 1 \in Int /\ Len(tlb) \in Int
    BY <1>1
  <2>2. /\ IsFiniteSet(1 .. Len(tlb))
        /\ Cardinality(1 .. Len(tlb)) = IF 1 > Len(tlb) THEN 0 ELSE Len(tlb) - 1 + 1
    BY <2>1, FS_Interval
  <2> QED
    BY <1>1, <2>2
<1>3. IsFiniteSet(quedan) /\ n <= Len(tlb) /\ n \in Nat
  BY <1>2, FS_Subset, FS_CardinalityType
<1>4. quedan \subseteq Nat
  BY <1>1
<1>5. ASSUME NEW k \in 1 .. n PROVE Enesimo(quedan, k - 1) \in quedan
  <2>1. k - 1 \in Nat /\ k - 1 < n
    BY <1>3
  <2> HIDE DEF quedan
  <2> QED
    BY <1>3, <1>4, <2>1, EnesimoExiste
<1>6. t = [k \in 1 .. n |-> tlb[Enesimo(quedan, k - 1)]]
  BY DEF SinEntradasDe
<1> HIDE DEF t
<1>7. \A k \in 1 .. n : t[k] \in {e \in Elementos(tlb) : e.pid # p}
  <2> TAKE k \in 1 .. n
  <2>1. PICK i \in quedan : t[k] = tlb[i]
    BY <1>5, <1>6
  <2> QED
    BY <2>1, Entradas
<1>8. t \in Seq(Entrada) /\ Len(t) = n /\ DOMAIN t = 1 .. n
  <2>1. \A k \in 1 .. n : t[k] \in Entrada
    BY <1>7, Entradas
  <2>2. t = [k \in 1 .. n |-> t[k]]
    BY <1>6
  <2> QED
    <3> HIDE DEF n
    <3>1. t \in Seq(Entrada)
      BY <1>3, <2>1, <2>2, IsASeq
    <3>2. DOMAIN t = 1 .. n /\ DOMAIN t = 1 .. Len(t) /\ Len(t) \in Nat
      BY <2>2, <3>1, LenProperties
    <3> QED
      BY <1>3, <3>1, <3>2
<1>9. Elementos(t) \subseteq {e \in Elementos(tlb) : e.pid # p}
  BY <1>7, <1>8 DEF Elementos
<1> QED
  BY <1>3, <1>8, <1>9 DEF t

(* What the three operations of tlb.c leave, in the terms of the invariant. *)
LEMMA TLBOperaciones ==
  ASSUME TypeOK
  PROVE  /\ \A e \in Entrada : /\ Agregada(e) \in Seq(Entrada) /\ Len(Agregada(e)) <= EntradasTLB
                             /\ Elementos(Agregada(e)) \subseteq Elementos(tlb) \cup {e}
         /\ \A i \in DOMAIN tlb : /\ Consultada(i) \in Seq(Entrada)
                                  /\ Len(Consultada(i)) <= EntradasTLB
                                  /\ Elementos(Consultada(i)) \subseteq Elementos(tlb)
         /\ \A p : /\ SinEntradasDe(p) \in Seq(Entrada) /\ Len(SinEntradasDe(p)) <= EntradasTLB
                   /\ Elementos(SinEntradasDe(p)) \subseteq {e \in Elementos(tlb) : e.pid # p}
<1>1. tlb \in Seq(Entrada) /\ Len(tlb) <= EntradasTLB /\ Len(tlb) \in Nat /\ EntradasTLB \in Nat
  BY SupuestosTLB, LenProperties DEF TypeOK, SupuestosTLB
<1>2. ASSUME NEW e \in Entrada
      PROVE  /\ Agregada(e) \in Seq(Entrada) /\ Len(Agregada(e)) <= EntradasTLB
             /\ Elementos(Agregada(e)) \subseteq Elementos(tlb) \cup {e}
  <2>1. CASE EntradasTLB = 0
    BY <1>1, <2>1 DEF Agregada
  <2>2. CASE EntradasTLB # 0 /\ Len(tlb) = EntradasTLB
    <3>1. tlb # <<>>
      BY <1>1, <2>2, EmptySeq
    <3>2. /\ Tail(tlb) \in Seq(Entrada) /\ Len(Tail(tlb)) = Len(tlb) - 1
          /\ Elementos(Tail(tlb)) \subseteq Elementos(tlb)
      BY <1>1, <3>1, TLBSacar
    <3>3. /\ Append(Tail(tlb), e) \in Seq(Entrada)
          /\ Len(Append(Tail(tlb), e)) = Len(Tail(tlb)) + 1
          /\ Elementos(Append(Tail(tlb), e)) = Elementos(Tail(tlb)) \cup {e}
      BY <3>2, TLBAgregar
    <3>4. Agregada(e) = Append(Tail(tlb), e)
      BY <2>2 DEF Agregada
    <3> QED
      BY <1>1, <3>2, <3>3, <3>4
  <2>3. CASE EntradasTLB # 0 /\ Len(tlb) # EntradasTLB
    <3>1. /\ Append(tlb, e) \in Seq(Entrada) /\ Len(Append(tlb, e)) = Len(tlb) + 1
          /\ Elementos(Append(tlb, e)) = Elementos(tlb) \cup {e}
      BY <1>1, TLBAgregar
    <3>2. Agregada(e) = Append(tlb, e)
      BY <2>3 DEF Agregada
    <3> QED
      BY <1>1, <2>3, <3>1, <3>2
  <2> QED
    BY <2>1, <2>2, <2>3
<1>3. ASSUME NEW i \in DOMAIN tlb
      PROVE  /\ Consultada(i) \in Seq(Entrada) /\ Len(Consultada(i)) <= EntradasTLB
             /\ Elementos(Consultada(i)) \subseteq Elementos(tlb)
  <2>1. /\ Quitar(tlb, i) \in Seq(Entrada) /\ Len(Quitar(tlb, i)) = Len(tlb) - 1
        /\ Elementos(Quitar(tlb, i)) \subseteq Elementos(tlb)
    BY <1>1, TLBQuitar
  <2>2. tlb[i] \in Entrada /\ tlb[i] \in Elementos(tlb)
    BY <1>1, Entradas
  <2>3. /\ Append(Quitar(tlb, i), tlb[i]) \in Seq(Entrada)
        /\ Len(Append(Quitar(tlb, i), tlb[i])) = Len(Quitar(tlb, i)) + 1
        /\ Elementos(Append(Quitar(tlb, i), tlb[i])) = Elementos(Quitar(tlb, i)) \cup {tlb[i]}
    BY <2>1, <2>2, TLBAgregar
  <2>4. CASE ReemplazoTLB = "LRU"
    <3>1. Consultada(i) = Append(Quitar(tlb, i), tlb[i])
      BY <2>4 DEF Consultada
    <3>2. Len(Append(Quitar(tlb, i), tlb[i])) = Len(tlb)
      BY <1>1, <2>1, <2>3
    <3> QED
      BY <1>1, <2>1, <2>2, <2>3, <3>1, <3>2
  <2>5. CASE ReemplazoTLB # "LRU"
    BY <1>1, <2>5 DEF Consultada
  <2> QED
    BY <2>4, <2>5
<1>4. ASSUME NEW p
      PROVE  /\ SinEntradasDe(p) \in Seq(Entrada) /\ Len(SinEntradasDe(p)) <= EntradasTLB
             /\ Elementos(SinEntradasDe(p)) \subseteq {e \in Elementos(tlb) : e.pid # p}
  <2>1. SinEntradasDe(p) \in Seq(Entrada) /\ Len(SinEntradasDe(p)) <= Len(tlb)
    BY <1>1, TLBLimpia
  <2>2. Len(SinEntradasDe(p)) \in Nat
    BY <2>1, LenProperties
  <2> QED
    BY <1>1, <2>1, <2>2, TLBLimpia
<1> QED
  BY <1>2, <1>3, <1>4
-----------------------------------------------------------------------------
(* The initial states, and the steps that change few of the parts of Inv.  *)

LEMMA InvInicial == Init => Inv
<1> SUFFICES ASSUME Init PROVE Inv
  OBVIOUS
<1> USE DEF Init, InitMemoria
<1>1. Nulo \notin Nat /\ Nulo \notin Valores /\ Nulo \notin Procesos
  BY SupuestosMemoria DEF SupuestosMemoria
<1>2. TypeOK
  <2>1. mapaFrames \subseteq Marcos /\ mapaSwap \subseteq Slots
    BY SupuestosMemoria DEF SupuestosMemoria
  <2>2. 0 \in Valores /\ 0 \in 0 .. MarcosPorProceso
    BY SupuestosMemoria DEF SupuestosMemoria
  <2>3. swap \in [Slots \cup {Nulo} -> Valores \cup {Nulo}]
    BY DEF ArchivoVacio
  <2>4. TipoMemoria
    BY <2>1, <2>2, <2>3 DEF TipoMemoria
  <2>5. tlb \in Seq(Entrada) /\ Len(tlb) <= EntradasTLB
    BY SupuestosTLB, EmptySeq DEF SupuestosTLB
  <2> QED
    BY <2>2, <2>4, <2>5 DEF TypeOK
<1>3. ASSUME NEW p \in Procesos PROVE FaseCoherente(p)
  BY <1>1, <1>3 DEF FaseCoherente
<1>4. PaginasUbicadas /\ RutinaCoherente
  BY DEF PaginasUbicadas, RutinaCoherente
<1>5. Ocupados = {}
  BY DEF Ocupados
<1>6. MarcosCoherentes
  BY <1>5 DEF MarcosCoherentes
<1>7. SlotsExclusivos
  <2>1. SlotsEnUso = {}
    BY DEF SlotsEnUso
  <2> QED
    BY <2>1 DEF SlotsExclusivos
<1>8. ColaCoherente
  BY ColaVacia DEF ColaCoherente
<1>9. AccesoPropio /\ MarcaConEntrada /\ TLBPropia /\ ReintentoNoFalla
  BY DEF AccesoPropio, MarcaConEntrada, TLBPropia, ReintentoNoFalla
<1> QED
  BY <1>2, <1>3, <1>4, <1>6, <1>7, <1>8, <1>9 DEF Inv, Tablas

(* What a step leaves alone of the tables.                                 *)
LEMMA TablasIguales ==
  ASSUME Tablas,
         UNCHANGED <<alojados, presente, marco, slot, presentes, mapaFrames, mapaSwap, tablaFrames,
                     rutinaVars>>,
         rutina # "libre" => falta'[pedida[1]] = falta[pedida[1]]
  PROVE  Tablas'
<1> USE DEF rutinaVars
<1>1. PaginasUbicadas'
  BY DEF Tablas, PaginasUbicadas
<1>2. RutinaCoherente'
  BY DEF Tablas, RutinaCoherente, MemoriaEstaLlena
<1>3. MarcosCoherentes'
  BY DEF Tablas, MarcosCoherentes, Ocupados
<1>4. SlotsExclusivos'
  BY DEF Tablas, SlotsExclusivos, SlotsEnUso
<1>5. ColaCoherente'
  BY DEF Tablas, ColaCoherente
<1> QED
  BY <1>1, <1>2, <1>3, <1>4, <1>5 DEF Tablas

(* The process of a replacement is not the one in the CPU.                 *)
LEMMA PedidaAfuera ==
  ASSUME Inv, rutina # "libre"
  PROVE  /\ pedida \in Procesos \X Paginas
         /\ pedida[1] \in Procesos /\ pedida[2] \in Paginas
         /\ fase[pedida[1]] = "cargando" /\ pedida[1] \in alojados
         /\ pedida[2] = falta[pedida[1]] /\ pedida[2] \notin presente[pedida[1]]
<1>1. pedida \in Procesos \X Paginas
  BY DEF Inv, Tablas, RutinaCoherente, TypeOK, TipoMemoria
<1>2. pedida[1] \in Procesos /\ pedida[2] \in Paginas
  BY <1>1
<1>3. FaseCoherente(pedida[1])
  BY <1>2 DEF Inv
<1> QED
  BY <1>1, <1>2, <1>3 DEF Inv, Tablas, FaseCoherente, RutinaCoherente
-----------------------------------------------------------------------------
(* The CPU.  What it does to the phases, the TLB and the access.           *)

LEMMA PasoCpu ==
  ASSUME Inv, caida = "no", NEW p \in Procesos, Cpu(p)
  PROVE  Inv'
<1> USE DEF TerminaInstruccion
<1>0. /\ TypeOK /\ TipoMemoria /\ Tablas /\ AccesoPropio /\ MarcaConEntrada /\ TLBPropia
      /\ ReintentoNoFalla /\ \A q \in Procesos : FaseCoherente(q)
  BY DEF Inv, TypeOK
<1>a. Nulo \notin Nat /\ Nulo \notin Procesos /\ Nulo \notin Entrada
  BY SupuestosMemoria, SupuestosTLB DEF SupuestosMemoria, SupuestosTLB
<1>1. UNCHANGED memoriaVars
  BY DEF Cpu, Despachar, Desalojar, Salir, TraducirAcierto, TraducirFallo
<1>b. /\ UNCHANGED <<alojados, presente, marco, slot, presentes, mapaFrames, mapaSwap, tablaFrames,
                     rutinaVars>>
      /\ UNCHANGED <<usado, modificado, espacio, swap, marca, caida>>
  BY <1>1 DEF memoriaVars, tablaVars, marcosVars
<1>2. TipoMemoria'
  BY <1>0, <1>b DEF TipoMemoria, rutinaVars
<1>c. ASSUME fase'[p] # "fin", \A q \in Procesos \ {p} : fase'[q] = fase[q], fase[p] # "fin",
             rutina # "libre" => pedida[1] # p,
             \A q \in Procesos \ {p} : falta'[q] = falta[q],
             FaseCoherente(p)', enCpu' \in {p, Nulo}, enCpu \in {p, Nulo},
             (fase[p] # fase'[p]) => fase'[p] \notin {"listo", "cargando"},
             fase'[p] = "listo" /\ falta'[p] # Nulo => falta'[p] \in presente[p]
      PROVE  Tablas' /\ MarcaConEntrada' /\ ReintentoNoFalla' /\ \A q \in Procesos : FaseCoherente(q)'
  <2>1. Tablas'
    BY <1>0, <1>b, <1>c, TablasIguales, PedidaAfuera
  <2>2. MarcaConEntrada'
    BY <1>0, <1>b, <1>c DEF MarcaConEntrada
  <2>3. ReintentoNoFalla'
    BY <1>0, <1>b, <1>c DEF ReintentoNoFalla
  <2>4. ASSUME NEW q \in Procesos \ {p} PROVE FaseCoherente(q)'
    <3>1. enCpu' # q
      BY <1>a, <1>c
    <3> QED
      BY <1>0, <1>b, <1>c, <2>4, <3>1 DEF FaseCoherente, rutinaVars
  <2> QED
    BY <1>c, <2>1, <2>2, <2>3, <2>4
<1>d. \A e \in Elementos(tlb) : /\ e \in Entrada
                                /\ fase[e.pid] \in {"listo", "falla", "cargando"}
                                /\ tablaFrames[e.marco] # Nulo
                                /\ tablaFrames[e.marco][1] = e.pid
  BY <1>0, Entradas DEF TypeOK, TLBPropia, Elementos
<1>e. FaseCoherente(p) /\ (fase[p] = "listo" /\ rutina # "libre" => pedida[1] # p)
  BY <1>0 DEF FaseCoherente
<1>3. CASE Despachar(p)
  <2>0. enCpu = Nulo /\ enCpu' = p /\ fase[p] = "listo" /\ UNCHANGED <<tlb, fase, falta, acceso, registro>>
    BY <1>3 DEF Despachar
  <2>1. FaseCoherente(p)'
    BY <1>b, <1>e, <2>0 DEF FaseCoherente, rutinaVars
  <2>2. Tablas' /\ MarcaConEntrada' /\ ReintentoNoFalla' /\ \A q \in Procesos : FaseCoherente(q)'
    BY <1>0, <1>c, <1>e, <2>0, <2>1 DEF ReintentoNoFalla
  <2>3. TypeOK'
    BY <1>0, <1>2, <2>0 DEF TypeOK
  <2>4. acceso = Nulo
    BY <1>0, <1>a, <2>0 DEF AccesoPropio, TypeOK, Entrada
  <2>5. AccesoPropio' /\ TLBPropia'
    BY <1>0, <1>b, <2>0, <2>4 DEF AccesoPropio, TLBPropia
  <2> QED
    BY <2>2, <2>3, <2>5 DEF Inv
<1>4. CASE Desalojar(p)
  <2>0. enCpu = p /\ enCpu' = Nulo /\ acceso = Nulo /\ UNCHANGED <<tlb, fase, falta, acceso, registro>>
    BY <1>4 DEF Desalojar
  <2>1. FaseCoherente(p)' /\ fase[p] = "listo"
    BY <1>a, <1>b, <1>e, <2>0 DEF FaseCoherente, rutinaVars
  <2>2. Tablas' /\ MarcaConEntrada' /\ ReintentoNoFalla' /\ \A q \in Procesos : FaseCoherente(q)'
    BY <1>0, <1>c, <1>e, <2>0, <2>1 DEF ReintentoNoFalla
  <2>3. TypeOK'
    BY <1>0, <1>2, <2>0 DEF TypeOK
  <2>5. AccesoPropio' /\ TLBPropia'
    BY <1>0, <1>b, <2>0 DEF AccesoPropio, TLBPropia
  <2> QED
    BY <2>2, <2>3, <2>5 DEF Inv
<1>5. CASE Salir(p)
  <2>0. /\ enCpu = p /\ enCpu' = Nulo /\ acceso = Nulo /\ falta[p] = Nulo
        /\ tlb' = SinEntradasDe(p) /\ fase' = [fase EXCEPT ![p] = "sale"]
        /\ UNCHANGED <<falta, acceso, registro>>
    BY <1>5 DEF Salir
  <2>1. fase[p] = "listo" /\ fase'[p] = "sale" /\ \A q \in Procesos \ {p} : fase'[q] = fase[q]
    BY <1>0, <1>e, <2>0 DEF FaseCoherente, TypeOK
  <2>a. FaseCoherente(p)'
    BY <1>a, <1>b, <1>e, <2>0, <2>1 DEF FaseCoherente, rutinaVars
  <2>2. Tablas' /\ MarcaConEntrada' /\ ReintentoNoFalla' /\ \A q \in Procesos : FaseCoherente(q)'
    BY <1>c, <1>e, <2>0, <2>1, <2>a
  <2>b. /\ tlb' \in Seq(Entrada) /\ Len(tlb') <= EntradasTLB
        /\ Elementos(tlb') \subseteq {e \in Elementos(tlb) : e.pid # p}
    BY <1>0, <2>0, TLBOperaciones
  <2>3. TypeOK'
    BY <1>0, <1>2, <2>0, <2>b DEF TypeOK
  <2>4. AccesoPropio'
    BY <2>0 DEF AccesoPropio
  <2>5. TLBPropia'
    <3> SUFFICES ASSUME NEW i \in DOMAIN tlb'
                 PROVE  /\ fase'[tlb'[i].pid] \in {"listo", "falla", "cargando"}
                        /\ tablaFrames[tlb'[i].marco] # Nulo
                        /\ tablaFrames[tlb'[i].marco][1] = tlb'[i].pid
      BY <1>b DEF TLBPropia
    <3>1. tlb'[i] \in Elementos(tlb) /\ tlb'[i].pid # p
      BY <2>b DEF Elementos
    <3>2. tlb'[i].pid \in Procesos
      BY <1>d, <3>1 DEF Entrada
    <3> QED
      BY <1>d, <2>1, <3>1, <3>2
  <2> QED
    BY <2>2, <2>3, <2>4, <2>5 DEF Inv
<1>6. ASSUME NEW g \in Paginas, TraducirAcierto(p, g)
      PROVE  Inv'
  <2>0. PICK i \in Aciertos(p, g) :
          /\ enCpu = p /\ acceso = Nulo /\ acceso' = tlb[i] /\ tlb' = Consultada(i)
          /\ falta' = [falta EXCEPT ![p] = Nulo] /\ UNCHANGED <<enCpu, fase, registro>>
    BY <1>6 DEF TraducirAcierto
  <2>1. i \in DOMAIN tlb /\ tlb[i].pid = p
    BY DEF Aciertos
  <2>b. /\ tlb' \in Seq(Entrada) /\ Len(tlb') <= EntradasTLB
        /\ Elementos(tlb') \subseteq Elementos(tlb)
    BY <1>0, <2>0, <2>1, TLBOperaciones
  <2>c. tlb[i] \in Elementos(tlb)
    BY <2>1 DEF Elementos
  <2>d. /\ falta'[p] = Nulo /\ \A q \in Procesos \ {p} : falta'[q] = falta[q]
        /\ falta' \in [Procesos -> Paginas \cup {Nulo}]
    BY <1>0, <2>0 DEF TypeOK
  <2>a. FaseCoherente(p)' /\ fase[p] = "listo"
    BY <1>a, <1>b, <1>e, <2>0, <2>d DEF FaseCoherente, rutinaVars
  <2>2. Tablas' /\ MarcaConEntrada' /\ ReintentoNoFalla' /\ \A q \in Procesos : FaseCoherente(q)'
    BY <1>c, <1>e, <2>0, <2>a, <2>d
  <2>3. TypeOK'
    BY <1>0, <1>2, <1>d, <2>0, <2>b, <2>c, <2>d DEF TypeOK
  <2>4. AccesoPropio'
    BY <1>b, <1>d, <2>0, <2>1, <2>c DEF AccesoPropio
  <2>5. TLBPropia'
    BY <1>b, <1>d, <2>0, <2>b DEF TLBPropia, Elementos
  <2> QED
    BY <2>2, <2>3, <2>4, <2>5 DEF Inv
<1>7. ASSUME NEW g \in Paginas, TraducirFallo(p, g)
      PROVE  Inv'
  <2> DEFINE f == ObtenerMarco(p, g)
             e == [pid |-> p, pag |-> g, marco |-> f]
  <2>0. enCpu = p /\ acceso = Nulo /\ UNCHANGED registro /\ fase[p] = "listo"
    BY <1>7, <1>e DEF TraducirFallo, FaseCoherente
  <2>1. CASE f = Nulo
    <3>0. /\ fase' = [fase EXCEPT ![p] = "falla"] /\ falta' = [falta EXCEPT ![p] = g]
          /\ enCpu' = Nulo /\ UNCHANGED <<tlb, acceso>>
      BY <1>7, <2>1 DEF TraducirFallo
    <3>1. g \notin presente[p]
      <4>1. g \in presente[p] => marco[p][g] \in Marcos
        BY <1>0 DEF Tablas, PaginasUbicadas
      <4> QED
        BY <1>a, <2>1, <4>1 DEF ObtenerMarco, Marcos
    <3>2. /\ fase'[p] = "falla" /\ \A q \in Procesos \ {p} : fase'[q] = fase[q]
          /\ falta'[p] = g /\ \A q \in Procesos \ {p} : falta'[q] = falta[q]
          /\ fase' \in [Procesos -> {"nuevo", "listo", "falla", "cargando", "sale", "fin"}]
          /\ falta' \in [Procesos -> Paginas \cup {Nulo}]
      BY <1>0, <3>0 DEF TypeOK
    <3>a. FaseCoherente(p)'
      BY <1>a, <1>b, <1>e, <2>0, <3>0, <3>1, <3>2 DEF FaseCoherente, rutinaVars
    <3>3. Tablas' /\ MarcaConEntrada' /\ ReintentoNoFalla' /\ \A q \in Procesos : FaseCoherente(q)'
      BY <1>c, <1>e, <2>0, <3>0, <3>2, <3>a
    <3>4. TypeOK'
      BY <1>0, <1>2, <2>0, <3>0, <3>2 DEF TypeOK
    <3>5. AccesoPropio'
      BY <2>0, <3>0 DEF AccesoPropio
    <3>6. TLBPropia'
      <4> SUFFICES ASSUME NEW i \in DOMAIN tlb
                   PROVE  /\ fase'[tlb[i].pid] \in {"listo", "falla", "cargando"}
                          /\ tablaFrames[tlb[i].marco] # Nulo
                          /\ tablaFrames[tlb[i].marco][1] = tlb[i].pid
        BY <1>b, <3>0 DEF TLBPropia
      <4>1. tlb[i] \in Elementos(tlb)
        BY DEF Elementos
      <4>2. tlb[i].pid \in Procesos
        BY <1>d, <4>1 DEF Entrada
      <4> QED
        BY <1>d, <3>2, <4>1, <4>2
    <3> QED
      BY <3>3, <3>4, <3>5, <3>6 DEF Inv
  <2>2. CASE f # Nulo
    <3>0. /\ acceso' = e /\ tlb' = Agregada(e) /\ falta' = [falta EXCEPT ![p] = Nulo]
          /\ UNCHANGED <<enCpu, fase>>
      BY <1>7, <2>2 DEF TraducirFallo
    <3>1. /\ g \in presente[p] /\ f = marco[p][g]
      BY <2>2 DEF ObtenerMarco
    <3>2. f \in Marcos /\ tablaFrames[f] = <<p, g>> /\ tablaFrames[f] # Nulo
      <4>1. f \in Marcos /\ tablaFrames[f] = <<p, g>>
        BY <1>0, <3>1 DEF Tablas, PaginasUbicadas, MarcosCoherentes
      <4>2. <<p, g>> # Nulo
        BY SupuestosMemoria DEF SupuestosMemoria
      <4> QED
        BY <4>1, <4>2
    <3>3. e \in Entrada /\ e.pid = p /\ e.marco = f
      BY <3>2 DEF Entrada
    <3> HIDE DEF e, f
    <3>d. /\ falta'[p] = Nulo /\ \A q \in Procesos \ {p} : falta'[q] = falta[q]
          /\ falta' \in [Procesos -> Paginas \cup {Nulo}]
      BY <1>0, <3>0 DEF TypeOK
    <3>a. FaseCoherente(p)'
      BY <1>a, <1>b, <1>e, <2>0, <3>0, <3>d DEF FaseCoherente, rutinaVars
    <3>4. Tablas' /\ MarcaConEntrada' /\ ReintentoNoFalla' /\ \A q \in Procesos : FaseCoherente(q)'
      BY <1>c, <1>e, <2>0, <3>0, <3>a, <3>d
    <3>b. /\ tlb' \in Seq(Entrada) /\ Len(tlb') <= EntradasTLB
          /\ Elementos(tlb') \subseteq Elementos(tlb) \cup {e}
      BY <1>0, <3>0, <3>3, TLBOperaciones
    <3>5. TypeOK'
      BY <1>0, <1>2, <2>0, <3>0, <3>3, <3>b, <3>d DEF TypeOK
    <3>6. AccesoPropio'
      BY <1>b, <2>0, <3>0, <3>2, <3>3 DEF AccesoPropio
    <3>7. TLBPropia'
      <4> SUFFICES ASSUME NEW i \in DOMAIN tlb'
                   PROVE  /\ fase[tlb'[i].pid] \in {"listo", "falla", "cargando"}
                          /\ tablaFrames[tlb'[i].marco] # Nulo
                          /\ tablaFrames[tlb'[i].marco][1] = tlb'[i].pid
        BY <1>b, <3>0 DEF TLBPropia
      <4>1. tlb'[i] \in Elementos(tlb) \/ tlb'[i] = e
        BY <3>b DEF Elementos
      <4> QED
        BY <1>d, <2>0, <3>2, <3>3, <4>1
    <3> QED
      BY <3>4, <3>5, <3>6, <3>7 DEF Inv
  <2> QED
    BY <2>1, <2>2
<1> QED
  BY <1>3, <1>4, <1>5, <1>6, <1>7 DEF Cpu
(* The MOV and its mark: what the frames hold and the bits of a page.      *)
LEMMA PasoAcceso ==
  ASSUME Inv, RutinaCpu
  PROVE  Inv'
<1>0. /\ TypeOK /\ TipoMemoria /\ Tablas /\ AccesoPropio /\ MarcaConEntrada /\ TLBPropia
      /\ ReintentoNoFalla /\ \A q \in Procesos : FaseCoherente(q)
  BY DEF Inv, TypeOK
<1>1. /\ UNCHANGED <<alojados, presente, marco, slot, presentes, mapaFrames, mapaSwap, tablaFrames>>
      /\ UNCHANGED <<rutina, pedida, victima, paso, vuelta>>
      /\ UNCHANGED <<tlb, enCpu, fase, falta>>
  BY DEF RutinaCpu, Leer, Escribir, Marcar, MovIn, MovOut, MarcarPaginaUsada, tablaVars, marcosVars,
         rutinaVars, cpuVars
<1>2. Tablas'
  BY <1>0, <1>1, TablasIguales DEF rutinaVars
<1>3. TLBPropia' /\ ReintentoNoFalla' /\ \A q \in Procesos : FaseCoherente(q)'
  BY <1>0, <1>1 DEF TLBPropia, ReintentoNoFalla, FaseCoherente
<1>4. ASSUME usado' \in [Procesos -> SUBSET Paginas], modificado' \in [Procesos -> SUBSET Paginas],
             espacio' \in [Marcos -> Valores], swap' = swap, registro' \in Valores,
             marca' \in [marco : Marcos, escritura : BOOLEAN] \cup {Nulo}, acceso' \in {acceso, Nulo},
             caida' \in {"no", "sin slot", "sin marco", "sin victima", "sin entrada"},
             MarcaConEntrada'
      PROVE  Inv'
  <2>1. TipoMemoria'
    BY <1>0, <1>1, <1>4 DEF TipoMemoria
  <2>2. TypeOK'
    BY <1>0, <1>1, <1>4, <2>1 DEF TypeOK
  <2>3. AccesoPropio'
    BY <1>0, <1>1, <1>4 DEF AccesoPropio
  <2> QED
    BY <1>2, <1>3, <1>4, <2>2, <2>3 DEF Inv
<1>5. acceso # Nulo => acceso \in Entrada /\ acceso.marco \in Marcos /\ tablaFrames[acceso.marco] # Nulo
  BY <1>0 DEF TypeOK, AccesoPropio, Entrada
<1>6. CASE Leer
  <2>1. /\ acceso # Nulo /\ marca' = [marco |-> acceso.marco, escritura |-> FALSE]
        /\ registro' = espacio[acceso.marco] /\ acceso' = Nulo
        /\ UNCHANGED <<usado, modificado, espacio, swap, caida>>
    BY <1>6 DEF Leer, MovIn, tablaVars, marcosVars
  <2>2. MarcaConEntrada'
    BY <1>1, <1>5, <2>1 DEF MarcaConEntrada
  <2> QED
    BY <1>0, <1>4, <1>5, <2>1, <2>2 DEF TipoMemoria
<1>7. ASSUME NEW v \in Valores, Escribir(v) PROVE Inv'
  <2>1. /\ acceso # Nulo /\ marca' = [marco |-> acceso.marco, escritura |-> TRUE]
        /\ espacio' = [espacio EXCEPT ![acceso.marco] = v] /\ acceso' = Nulo
        /\ UNCHANGED <<usado, modificado, swap, caida, registro>>
    BY <1>7 DEF Escribir, MovOut, tablaVars
  <2>2. MarcaConEntrada'
    BY <1>1, <1>5, <2>1 DEF MarcaConEntrada
  <2>3. espacio' \in [Marcos -> Valores] /\ marca' \in [marco : Marcos, escritura : BOOLEAN]
    BY <1>0, <1>5, <2>1 DEF TipoMemoria
  <2> QED
    BY <1>0, <1>4, <2>1, <2>2, <2>3 DEF TipoMemoria, TypeOK
<1>8. CASE Marcar
  <2> DEFINE d == tablaFrames[marca.marco]
  <2>0. /\ marca # Nulo /\ marca' = Nulo
        /\ UNCHANGED <<espacio, swap, registro, acceso>>
    BY <1>8 DEF Marcar, MarcarPaginaUsada, cpuVars, marcosVars
  <2>1. marca.marco \in Marcos /\ MarcaConEntrada'
    BY <1>0, <2>0 DEF TipoMemoria, MarcaConEntrada
  <2>2. CASE d = Nulo
    <3>1. caida' = "sin entrada" /\ UNCHANGED <<usado, modificado>>
      BY <1>8, <2>2 DEF Marcar, MarcarPaginaUsada
    <3> QED
      BY <1>0, <1>4, <2>0, <2>1, <3>1 DEF TipoMemoria, TypeOK
  <2>3. CASE d # Nulo
    <3>0. d \in Procesos \X Paginas
      BY <1>0, <2>1, <2>3 DEF TipoMemoria
    <3>1. d[1] \in Procesos /\ d[2] \in Paginas
      BY <3>0
    <3>2. /\ usado' = [usado EXCEPT ![d[1]] = @ \cup {d[2]}] /\ UNCHANGED caida
          /\ modificado' \in {modificado, [modificado EXCEPT ![d[1]] = @ \cup {d[2]}]}
      BY <1>8, <2>3 DEF Marcar, MarcarPaginaUsada
    <3> HIDE DEF d
    <3>3. usado' \in [Procesos -> SUBSET Paginas] /\ modificado' \in [Procesos -> SUBSET Paginas]
      <4>1. PICK q \in Procesos, g \in Paginas : d[1] = q /\ d[2] = g
        BY <3>1
      <4>2. usado[q] \cup {g} \in SUBSET Paginas /\ modificado[q] \cup {g} \in SUBSET Paginas
        BY <1>0 DEF TipoMemoria
      <4>3. usado' = [usado EXCEPT ![q] = usado[q] \cup {g}]
        BY <3>2, <4>1
      <4>4. modificado' = modificado \/ modificado' = [modificado EXCEPT ![q] = modificado[q] \cup {g}]
        BY <3>2, <4>1
      <4>5. usado \in [Procesos -> SUBSET Paginas] /\ modificado \in [Procesos -> SUBSET Paginas]
        BY <1>0 DEF TipoMemoria
      <4> QED
        BY <4>2, <4>3, <4>4, <4>5
    <3> QED
      BY <1>0, <1>4, <2>0, <2>1, <3>2, <3>3 DEF TipoMemoria, TypeOK
  <2> QED
    BY <2>2, <2>3
<1> QED
  BY <1>6, <1>7, <1>8 DEF RutinaCpu

-----------------------------------------------------------------------------
(* The search for a victim: only the queue of its process turns.           *)

LEMMA PasoEmpezar ==
  ASSUME Inv, caida = "no", NEW p \in Procesos, AtenderFaltaReemplazo(p)
  PROVE  Inv'
<1>0. /\ TypeOK /\ TipoMemoria /\ Tablas /\ AccesoPropio /\ MarcaConEntrada /\ TLBPropia
      /\ ReintentoNoFalla /\ \A q \in Procesos : FaseCoherente(q)
  BY DEF Inv, TypeOK
<1>a. Nulo \notin Procesos \X Paginas /\ Nulo \notin Procesos /\ MarcosPorProceso \in Nat
  BY SupuestosMemoria DEF SupuestosMemoria
<1>1. /\ UNCHANGED <<alojados, presente, marco, slot, presentes, mapaFrames, mapaSwap, tablaFrames>>
      /\ UNCHANGED <<victima, usado, modificado, espacio, swap, marca, caida>>
      /\ UNCHANGED <<tlb, enCpu, falta, acceso, registro>>
      /\ rutina = "libre" /\ rutina' = "elige" /\ pedida' = <<p, falta[p]>> /\ paso' = 1 /\ vuelta' = 0
      /\ MemoriaEstaLlena \/ ProcesoAlcanzoMaxMarcos(p)
      /\ fase[p] = "falla" /\ fase' = [fase EXCEPT ![p] = "cargando"]
  BY DEF AtenderFaltaReemplazo, EmpezarReemplazo, tablaVars, marcosVars
<1>2. falta[p] \in Paginas /\ falta[p] \notin presente[p]
  BY <1>0, <1>1 DEF FaseCoherente
<1>3. pedida' \in Procesos \X Paginas /\ pedida'[1] = p /\ pedida'[2] = falta[p]
  BY <1>1, <1>2
<1>4. /\ fase'[p] = "cargando" /\ \A q \in Procesos \ {p} : fase'[q] = fase[q]
      /\ fase' \in [Procesos -> {"nuevo", "listo", "falla", "cargando", "sale", "fin"}]
  BY <1>0, <1>1 DEF TypeOK
<1>5. TypeOK'
  <2>1. TipoMemoria'
    BY <1>0, <1>a, <1>1, <1>3 DEF TipoMemoria
  <2> QED
    BY <1>0, <1>1, <1>4, <2>1 DEF TypeOK
<1>6. ASSUME NEW q \in Procesos PROVE FaseCoherente(q)'
  <2>1. FaseCoherente(q) /\ FaseCoherente(p)
    BY <1>0
  <2>2. CASE q = p
    BY <1>1, <1>2, <1>3, <1>4, <2>1, <2>2 DEF FaseCoherente
  <2>3. CASE q # p
    BY <1>1, <1>3, <1>4, <2>1, <2>3 DEF FaseCoherente
  <2> QED
    BY <2>2, <2>3
<1>7. Tablas'
  <2>1. PaginasUbicadas'
    BY <1>0, <1>1 DEF Tablas, PaginasUbicadas
  <2>2. RutinaCoherente'
    BY <1>a, <1>1, <1>3 DEF RutinaCoherente, MemoriaEstaLlena, ProcesoAlcanzoMaxMarcos
  <2>3. MarcosCoherentes'
    BY <1>0, <1>1 DEF Tablas, MarcosCoherentes, Ocupados
  <2>4. SlotsExclusivos'
    BY <1>0, <1>1 DEF Tablas, SlotsExclusivos, SlotsEnUso
  <2>5. ColaCoherente'
    BY <1>0, <1>1 DEF Tablas, ColaCoherente
  <2> QED
    BY <2>1, <2>2, <2>3, <2>4, <2>5 DEF Tablas
<1>8. AccesoPropio' /\ ReintentoNoFalla'
  BY <1>0, <1>1, <1>4 DEF AccesoPropio, ReintentoNoFalla
<1>9. MarcaConEntrada'
  BY <1>0, <1>1, <1>4 DEF MarcaConEntrada
<1>10. TLBPropia'
  <2>1. \A i \in DOMAIN tlb : tlb[i].pid \in Procesos
    BY <1>0, Entradas DEF TypeOK, Entrada
  <2> QED
    BY <1>0, <1>1, <1>4, <2>1 DEF TLBPropia
<1> QED
  BY <1>5, <1>6, <1>7, <1>8, <1>9, <1>10 DEF Inv
LEMMA PasoElegir ==
  ASSUME Inv, ElegirVictima
  PROVE  Inv'
<1>0. /\ TypeOK /\ TipoMemoria /\ Tablas /\ AccesoPropio /\ MarcaConEntrada /\ TLBPropia
      /\ ReintentoNoFalla /\ \A q \in Procesos : FaseCoherente(q)
  BY DEF Inv, TypeOK
<1>a. MarcosPorProceso \in Nat \ {0}
  BY SupuestosMemoria DEF SupuestosMemoria
<1>1. /\ UNCHANGED <<alojados, presente, modificado, marco, slot, mapaFrames, mapaSwap, tablaFrames>>
      /\ UNCHANGED <<espacio, swap, pedida, marca>>
      /\ UNCHANGED <<tlb, enCpu, fase, falta, acceso, registro>>
      /\ rutina = "elige"
  BY DEF ElegirVictima, Clock, ClockMejorado, QuedarSinVictima, tablaVars, marcosVars, rutinaVars,
         cpuVars
<1>p. PICK p \in Procesos : p = pedida[1]
  BY <1>1, PedidaAfuera
<1>2. AccesoPropio' /\ MarcaConEntrada' /\ TLBPropia' /\ ReintentoNoFalla'
  BY <1>0, <1>1 DEF AccesoPropio, MarcaConEntrada, TLBPropia, ReintentoNoFalla
<1>3. PaginasUbicadas' /\ MarcosCoherentes' /\ SlotsExclusivos'
  BY <1>0, <1>1 DEF Tablas, PaginasUbicadas, MarcosCoherentes, SlotsExclusivos, Ocupados, SlotsEnUso
<1>4. ASSUME rutina' \in {"elige", "reemplaza"}, victima' \in Paginas \cup {Nulo},
             paso' \in {1, 2}, vuelta' \in 0 .. MarcosPorProceso,
             usado' \in [Procesos -> SUBSET Paginas], presentes' \in [Procesos -> Seq(Paginas)],
             caida' \in {"no", "sin slot", "sin marco", "sin victima", "sin entrada"},
             rutina' = "elige" => Len(presentes'[p]) = Len(presentes[p]),
             ColaCoherente'
      PROVE  Inv'
  <2>1. TipoMemoria'
    BY <1>0, <1>1, <1>4 DEF TipoMemoria
  <2>2. TypeOK'
    BY <1>0, <1>1, <2>1 DEF TypeOK
  <2>3. \A q \in Procesos : FaseCoherente(q)'
    BY <1>0, <1>1, <1>4 DEF FaseCoherente
  <2>4. RutinaCoherente'
    BY <1>0, <1>1, <1>4, <1>p DEF Tablas, RutinaCoherente, MemoriaEstaLlena
  <2> QED
    BY <1>2, <1>3, <1>4, <2>2, <2>3, <2>4 DEF Inv, Tablas
<1>5. CASE QuedarSinVictima
  <2>1. UNCHANGED <<rutina, victima, paso, vuelta, usado, presentes>> /\ caida' = "sin victima"
    BY <1>5 DEF QuedarSinVictima, tablaVars, rutinaVars
  <2>2. ColaCoherente'
    BY <1>0, <1>1, <2>1 DEF Tablas, ColaCoherente
  <2> QED
    BY <1>0, <1>1, <1>4, <2>1, <2>2 DEF TipoMemoria
<1> DEFINE s == presentes[p]
           h == Head(s)
<1>6. /\ s \in Seq(Paginas) /\ SinRepetidos(s) /\ Elementos(s) = presente[p]
      /\ Cardinality(presente[p]) <= MarcosPorProceso
  BY <1>0, <1>1 DEF Tablas, ColaCoherente, TipoMemoria
<1>7. s # <<>> =>
        /\ Tail(s) \in Seq(Paginas) /\ Len(Tail(s)) = Len(s) - 1 /\ SinRepetidos(Tail(s))
        /\ h \in presente[p] /\ h \in Paginas /\ Elementos(Tail(s)) = presente[p] \ {h}
  BY <1>6, ColaSacar
<1>8. ASSUME NEW q \in Procesos \ {p}, presentes'[q] = presentes[q]
      PROVE  LET sacada == IF rutina' = "reemplaza" /\ pedida'[1] = q THEN {victima'} ELSE {}
             IN  /\ SinRepetidos(presentes'[q])
                 /\ Elementos(presentes'[q]) = presente'[q] \ sacada
                 /\ sacada \subseteq presente'[q]
                 /\ Cardinality(presente'[q]) <= MarcosPorProceso
  BY <1>0, <1>1, <1>8, <1>p DEF Tablas, ColaCoherente
<1>9. ASSUME s # <<>>, Elegir(p), paso' \in {1, 2}, vuelta' \in 0 .. MarcosPorProceso, caida' = caida
      PROVE  Inv'
  <2>1. /\ victima' = h /\ rutina' = "reemplaza" /\ usado' = usado
        /\ presentes' = [presentes EXCEPT ![p] = Tail(s)]
    BY <1>9 DEF Elegir
  <2>2. presentes'[p] = Tail(s) /\ \A q \in Procesos \ {p} : presentes'[q] = presentes[q]
    BY <1>0, <2>1 DEF TipoMemoria
  <2>3. presentes' \in [Procesos -> Seq(Paginas)]
    BY <1>0, <1>7, <1>9, <2>1 DEF TipoMemoria
  <2>4. LET sacada == IF rutina' = "reemplaza" /\ pedida'[1] = p THEN {victima'} ELSE {}
        IN  /\ SinRepetidos(presentes'[p])
            /\ Elementos(presentes'[p]) = presente'[p] \ sacada
            /\ sacada \subseteq presente'[p]
            /\ Cardinality(presente'[p]) <= MarcosPorProceso
    BY <1>1, <1>6, <1>7, <1>9, <1>p, <2>1, <2>2
  <2>5. ColaCoherente'
    BY <1>8, <2>2, <2>4 DEF ColaCoherente
  <2> HIDE DEF s, h
  <2> QED
    BY <1>0, <1>4, <1>7, <1>9, <2>1, <2>3, <2>5 DEF TipoMemoria
<1>10. ASSUME s # <<>>, NEW limpia \in BOOLEAN, Devolver(p, limpia), paso' \in {1, 2},
              vuelta' \in 0 .. MarcosPorProceso, caida' = caida
       PROVE  Inv'
  <2> DEFINE t == Append(Tail(s), h)
  <2>1. /\ UNCHANGED <<victima, rutina>>
        /\ presentes' = [presentes EXCEPT ![p] = t]
    BY <1>10 DEF Devolver
  <2>a. usado' \in [Procesos -> SUBSET Paginas]
    <3>1. usado' \in {usado, [usado EXCEPT ![p] = usado[p] \ {h}]}
      BY <1>10 DEF Devolver
    <3>2. usado \in [Procesos -> SUBSET Paginas] /\ usado[p] \ {h} \in SUBSET Paginas
      BY <1>0 DEF TipoMemoria
    <3> QED
      BY <3>1, <3>2
  <2>b. /\ t \in Seq(Paginas) /\ Len(t) = Len(Tail(s)) + 1 /\ SinRepetidos(t)
        /\ Elementos(t) = (presente[p] \ {h}) \cup {h}
    BY <1>7, <1>10, ColaAgregar
  <2> HIDE DEF t
  <2>c. Len(t) = Len(s) /\ Elementos(t) = presente[p]
    <3>1. Len(s) \in Nat
      BY <1>6, LenProperties
    <3> QED
      BY <1>7, <1>10, <2>b, <3>1
  <2>2. presentes'[p] = t /\ \A q \in Procesos \ {p} : presentes'[q] = presentes[q]
    BY <1>0, <2>1 DEF TipoMemoria
  <2>3. presentes' \in [Procesos -> Seq(Paginas)]
    BY <1>0, <2>1, <2>b DEF TipoMemoria
  <2>4. LET sacada == IF rutina' = "reemplaza" /\ pedida'[1] = p THEN {victima'} ELSE {}
        IN  /\ SinRepetidos(presentes'[p])
            /\ Elementos(presentes'[p]) = presente'[p] \ sacada
            /\ sacada \subseteq presente'[p]
            /\ Cardinality(presente'[p]) <= MarcosPorProceso
    BY <1>1, <1>6, <2>1, <2>2, <2>b, <2>c
  <2>5. ColaCoherente'
    BY <1>8, <2>2, <2>4 DEF ColaCoherente
  <2> QED
    BY <1>0, <1>1, <1>4, <1>10, <2>1, <2>2, <2>3, <2>5, <2>a, <2>c DEF TipoMemoria
<1>t. paso \in {1, 2} /\ vuelta \in 0 .. MarcosPorProceso
  BY <1>0 DEF TipoMemoria
<1>11. CASE Clock
  <2>1. s # <<>> /\ (Devolver(p, TRUE) \/ Elegir(p)) /\ UNCHANGED <<paso, vuelta, caida>>
    BY <1>11, <1>p DEF Clock
  <2> QED
    BY <1>9, <1>10, <1>t, <2>1
<1>12. CASE ClockMejorado
  <2>1. /\ s # <<>> /\ UNCHANGED caida
        /\ \/ Elegir(p) /\ UNCHANGED <<paso, vuelta>>
           \/ /\ Devolver(p, paso = 2)
              /\ IF vuelta + 1 < MarcosPorProceso
                 THEN vuelta' = vuelta + 1 /\ UNCHANGED paso
                 ELSE vuelta' = 0 /\ paso' = 3 - paso
    BY <1>12, <1>p DEF ClockMejorado
  <2>2. CASE Elegir(p) /\ UNCHANGED <<paso, vuelta>>
    BY <1>9, <1>t, <2>1, <2>2
  <2>3. CASE /\ Devolver(p, paso = 2)
             /\ IF vuelta + 1 < MarcosPorProceso
                THEN vuelta' = vuelta + 1 /\ UNCHANGED paso
                ELSE vuelta' = 0 /\ paso' = 3 - paso
    <3>1. paso' \in {1, 2} /\ vuelta' \in 0 .. MarcosPorProceso
      BY <1>a, <1>t, <2>3
    <3> HIDE DEF s
    <3>2. CASE paso = 2
      <4>1. Devolver(p, TRUE)
        BY <2>3, <3>2 DEF Devolver
      <4> QED
        BY <1>10, <2>1, <3>1, <4>1
    <3>3. CASE paso # 2
      <4>1. Devolver(p, FALSE)
        BY <2>3, <3>3 DEF Devolver
      <4> QED
        BY <1>10, <2>1, <3>1, <4>1
    <3> QED
      BY <3>2, <3>3
  <2> QED
    BY <2>1, <2>2, <2>3
<1> QED
  BY <1>5, <1>11, <1>12 DEF ElegirVictima
(* Pages are finitely many, so those of a process can be counted.          *)
LEMMA PaginasContadas ==
  ASSUME NEW S, S \subseteq Paginas
  PROVE  /\ IsFiniteSet(S) /\ Cardinality(S) \in Nat
         /\ \A g : IsFiniteSet(S \ {g}) /\ (g \in S => Cardinality(S \ {g}) = Cardinality(S) - 1)
         /\ \A g : g \notin S => Cardinality(S \cup {g}) = Cardinality(S) + 1
<1>1. 0 \in Int /\ CantPaginas - 1 \in Int
  BY SupuestosMemoria DEF SupuestosMemoria
<1>2. IsFiniteSet(Paginas)
  BY <1>1, FS_Interval DEF Paginas
<1>3. IsFiniteSet(S) /\ Cardinality(S) \in Nat
  BY <1>2, FS_Subset, FS_CardinalityType
<1>4. ASSUME NEW g
      PROVE  IsFiniteSet(S \ {g}) /\ (g \in S => Cardinality(S \ {g}) = Cardinality(S) - 1)
  BY <1>3, FS_RemoveElement
<1>5. ASSUME NEW g, g \notin S PROVE Cardinality(S \cup {g}) = Cardinality(S) + 1
  BY <1>3, <1>5, FS_AddElement
<1> QED
  BY <1>3, <1>4, <1>5

(* What fread may leave in a frame.                                        *)
LEMMA LeidoTipo ==
  ASSUME NEW archivo \in [Slots \cup {Nulo} -> Valores \cup {Nulo}], NEW s \in Slots \cup {Nulo}
  PROVE  Leido(archivo, s) \subseteq Valores
BY DEF Leido

(* What fwrite may leave in the file.                                      *)
LEMMA GuardadoTipo ==
  ASSUME NEW archivo \in [Slots \cup {Nulo} -> Valores \cup {Nulo}],
         NEW s \in Slots \cup {Nulo}, NEW v \in Valores
  PROVE  Guardado(archivo, s, v) \in [Slots \cup {Nulo} -> Valores \cup {Nulo}]
<1>1. 0 \in Valores
  BY SupuestosMemoria DEF SupuestosMemoria
<1>2. ASSUME NEW t \in Slots \cup {Nulo}
      PROVE  (IF t = s THEN v
              ELSE IF archivo[t] = Nulo /\ t # Nulo /\ (s = Nulo \/ t < s) THEN 0
              ELSE archivo[t]) \in Valores \cup {Nulo}
  <2> DEFINE antes == archivo[t] = Nulo /\ t # Nulo /\ (s = Nulo \/ t < s)
  <2>1. archivo[t] \in Valores \cup {Nulo}
    OBVIOUS
  <2> HIDE DEF antes
  <2>2. (IF t = s THEN v ELSE IF antes THEN 0 ELSE archivo[t]) \in Valores \cup {Nulo}
    BY <1>1, <2>1
  <2> QED
    BY <2>2 DEF antes
<1>3. DOMAIN archivo = Slots \cup {Nulo}
  OBVIOUS
<1> QED
  BY <1>2, <1>3, Zenon DEF Guardado

(* A page enters the frame of the victim.                                  *)
LEMMA PasoReemplazar ==
  ASSUME Inv, Reemplazar
  PROVE  Inv'
<1>0. /\ TypeOK /\ TipoMemoria /\ Tablas /\ AccesoPropio /\ MarcaConEntrada /\ TLBPropia
      /\ ReintentoNoFalla /\ \A q \in Procesos : FaseCoherente(q)
  BY DEF Inv, TypeOK
<1>a. /\ MarcosPorProceso \in Nat \ {0} /\ Nulo \notin Procesos \X Paginas /\ Nulo \notin Procesos
      /\ Nulo \notin Nat /\ Nulo \notin Paginas
  BY SupuestosMemoria DEF SupuestosMemoria, Paginas
<1>1. rutina = "reemplaza"
  BY DEF Reemplazar, ReemplazarPagina
<1>2. PICK p \in Procesos, g \in Paginas :
        /\ p = pedida[1] /\ g = pedida[2] /\ fase[p] = "cargando" /\ p \in alojados
        /\ g = falta[p] /\ g \notin presente[p]
  BY <1>1, PedidaAfuera
<1>3. /\ SinRepetidos(presentes[p]) /\ Elementos(presentes[p]) = presente[p] \ {victima}
      /\ victima \in presente[p] /\ Cardinality(presente[p]) <= MarcosPorProceso
  BY <1>0, <1>1, <1>2 DEF Tablas, ColaCoherente
<1>4. PICK v \in Paginas : v = victima /\ v \in presente[p]
  BY <1>0, <1>3 DEF TipoMemoria
<1>5. PICK f \in Marcos : f = marco[p][v] /\ tablaFrames[f] = <<p, v>>
  BY <1>0, <1>4 DEF Tablas, PaginasUbicadas, MarcosCoherentes
<1>6. slot[p][v] \in Slots \cup {Nulo} /\ slot[p][g] \in Slots \cup {Nulo}
  <2>1. slot \in [Procesos -> [Paginas -> Slots \cup {Nulo}]]
    BY <1>0 DEF TipoMemoria
  <2> QED
    BY <2>1
<1>7. /\ swap' \in {swap, Guardado(swap, slot[p][v], espacio[f])}
      /\ \E x \in Leido(swap', slot[p][g]) : espacio' = [espacio EXCEPT ![f] = x]
      /\ marco' = [marco EXCEPT ![p][g] = f]
      /\ tablaFrames' = [tablaFrames EXCEPT ![f] = <<p, g>>]
      /\ presente' = [presente EXCEPT ![p] = (presente[p] \ {v}) \cup {g}]
      /\ usado' = [usado EXCEPT ![p] = usado[p] \ {v}]
      /\ modificado' = [modificado EXCEPT ![p] = modificado[p] \ {v}]
      /\ presentes' = [presentes EXCEPT ![p] = Append(presentes[p], g)]
      /\ rutina' = "libre" /\ pedida' = Nulo /\ victima' = Nulo /\ paso' = 1 /\ vuelta' = 0
      /\ UNCHANGED <<alojados, slot, mapaFrames, mapaSwap, marca, caida>>
      /\ fase' = [fase EXCEPT ![p] = "listo"]
      /\ UNCHANGED <<tlb, enCpu, falta, acceso, registro>>
  BY <1>2, <1>4, <1>5 DEF Reemplazar, ReemplazarPagina, OcuparMarco
<1>8. /\ fase'[p] = "listo" /\ \A q \in Procesos \ {p} : fase'[q] = fase[q]
      /\ fase' \in [Procesos -> {"nuevo", "listo", "falla", "cargando", "sale", "fin"}]
  BY <1>0, <1>7 DEF TypeOK
<1>9. /\ tablaFrames'[f] = <<p, g>> /\ \A m \in Marcos \ {f} : tablaFrames'[m] = tablaFrames[m]
      /\ tablaFrames' \in [Marcos -> (Procesos \X Paginas) \cup {Nulo}]
  BY <1>0, <1>7 DEF TipoMemoria
<1>10. /\ marco'[p][g] = f /\ \A h \in Paginas \ {g} : marco'[p][h] = marco[p][h]
       /\ \A q \in Procesos \ {p} : marco'[q] = marco[q]
       /\ marco' \in [Procesos -> [Paginas -> Marcos \cup {Nulo}]]
  <2>1. marco \in [Procesos -> [Paginas -> Marcos \cup {Nulo}]]
    BY <1>0 DEF TipoMemoria
  <2> QED
    BY <1>7, <2>1
<1>11. /\ presente'[p] = (presente[p] \ {v}) \cup {g}
       /\ \A q \in Procesos \ {p} : presente'[q] = presente[q]
       /\ presente' \in [Procesos -> SUBSET Paginas]
  <2>1. (presente[p] \ {v}) \cup {g} \in SUBSET Paginas
    BY <1>0 DEF TipoMemoria
  <2> QED
    BY <1>0, <1>7, <2>1 DEF TipoMemoria
<1>12. /\ presentes[p] \in Seq(Paginas) /\ presentes'[p] = Append(presentes[p], g)
       /\ presentes'[p] \in Seq(Paginas) /\ SinRepetidos(presentes'[p])
       /\ Elementos(presentes'[p]) = presente'[p]
  <2>1. presentes[p] \in Seq(Paginas) /\ presentes'[p] = Append(presentes[p], g)
    BY <1>0, <1>7 DEF TipoMemoria
  <2>2. g \in Paginas \ Elementos(presentes[p])
    BY <1>2, <1>3
  <2>3. /\ Append(presentes[p], g) \in Seq(Paginas) /\ SinRepetidos(Append(presentes[p], g))
        /\ Elementos(Append(presentes[p], g)) = Elementos(presentes[p]) \cup {g}
    BY <1>3, <2>1, <2>2, ColaAgregar
  <2> QED
    BY <1>3, <1>4, <1>11, <2>1, <2>3
<1>13. \A q \in Procesos \ {p} : presentes'[q] = presentes[q]
  BY <1>0, <1>7 DEF TipoMemoria
<1>14. \A m \in Marcos : /\ tablaFrames'[m] # Nulo <=> tablaFrames[m] # Nulo
                         /\ tablaFrames[m] # Nulo => tablaFrames'[m][1] = tablaFrames[m][1]
  <2>1. <<p, g>> # Nulo /\ <<p, v>> # Nulo /\ <<p, g>>[1] = p /\ <<p, v>>[1] = p
    BY <1>a
  <2> QED
    BY <1>5, <1>9, <2>1
<1>15. TypeOK'
  <2>1. swap' \in [Slots \cup {Nulo} -> Valores \cup {Nulo}]
    <3>1. espacio[f] \in Valores /\ swap \in [Slots \cup {Nulo} -> Valores \cup {Nulo}]
      BY <1>0 DEF TipoMemoria
    <3>2. Guardado(swap, slot[p][v], espacio[f]) \in [Slots \cup {Nulo} -> Valores \cup {Nulo}]
      BY <1>6, <3>1, GuardadoTipo
    <3> QED
      BY <1>7, <3>1, <3>2
  <2>2. espacio' \in [Marcos -> Valores]
    <3>1. PICK x \in Leido(swap', slot[p][g]) : espacio' = [espacio EXCEPT ![f] = x]
      BY <1>7
    <3>2. x \in Valores
      BY <1>6, <2>1, LeidoTipo
    <3> QED
      BY <1>0, <3>1, <3>2 DEF TipoMemoria
  <2>3. usado' \in [Procesos -> SUBSET Paginas] /\ modificado' \in [Procesos -> SUBSET Paginas]
    <3>1. usado[p] \ {v} \in SUBSET Paginas /\ modificado[p] \ {v} \in SUBSET Paginas
      BY <1>0 DEF TipoMemoria
    <3>2. usado \in [Procesos -> SUBSET Paginas] /\ modificado \in [Procesos -> SUBSET Paginas]
      BY <1>0 DEF TipoMemoria
    <3> QED
      BY <1>7, <3>1, <3>2
  <2>4. presentes' \in [Procesos -> Seq(Paginas)]
    <3>1. Append(presentes[p], g) \in Seq(Paginas)
      BY <1>12
    <3> QED
      BY <1>0, <1>7, <3>1 DEF TipoMemoria
  <2>5. TipoMemoria'
    <3>1. 0 \in 0 .. MarcosPorProceso
      BY <1>a
    <3> QED
      BY <1>0, <1>7, <1>9, <1>10, <1>11, <2>1, <2>2, <2>3, <2>4, <3>1 DEF TipoMemoria
  <2> QED
    BY <1>0, <1>7, <1>8, <2>5 DEF TypeOK
<1>16. ASSUME NEW q \in Procesos PROVE FaseCoherente(q)'
  <2>1. FaseCoherente(q) /\ FaseCoherente(p)
    BY <1>0
  <2>2. CASE q = p
    BY <1>2, <1>7, <1>8, <2>1, <2>2 DEF FaseCoherente
  <2>3. CASE q # p
    BY <1>2, <1>7, <1>8, <1>11, <2>1, <2>3 DEF FaseCoherente
  <2> QED
    BY <2>2, <2>3
<1>17. PaginasUbicadas'
  <2>1. ASSUME NEW q \in Procesos, NEW h \in presente'[q] PROVE marco'[q][h] \in Marcos
    <3>0. h \in Paginas
      BY <1>11
    <3>1. CASE q = p /\ h = g
      BY <1>10, <3>1
    <3>2. CASE ~(q = p /\ h = g)
      <4>1. h \in presente[q] /\ marco'[q][h] = marco[q][h]
        BY <1>10, <1>11, <3>0, <3>2
      <4> QED
        BY <1>0, <4>1 DEF Tablas, PaginasUbicadas
    <3> QED
      BY <3>1, <3>2
  <2> QED
    BY <1>0, <1>7, <2>1 DEF Tablas, PaginasUbicadas
<1>18. RutinaCoherente'
  BY <1>7 DEF RutinaCoherente
<1>19. MarcosCoherentes'
  <2>1. ASSUME NEW q \in Procesos, NEW h \in presente'[q]
        PROVE  tablaFrames'[marco'[q][h]] = <<q, h>>
    <3>0. h \in Paginas
      BY <1>11
    <3>1. CASE q = p /\ h = g
      BY <1>9, <1>10, <3>1
    <3>2. CASE ~(q = p /\ h = g)
      <4>1. h \in presente[q] /\ marco'[q][h] = marco[q][h] /\ ~(q = p /\ h = v)
        BY <1>2, <1>4, <1>10, <1>11, <3>0, <3>2
      <4>2. marco[q][h] \in Marcos /\ tablaFrames[marco[q][h]] = <<q, h>>
        BY <1>0, <4>1 DEF Tablas, PaginasUbicadas, MarcosCoherentes
      <4>3. marco[q][h] # f
        BY <1>5, <4>1, <4>2
      <4> QED
        BY <1>9, <4>1, <4>2, <4>3
    <3> QED
      BY <3>1, <3>2
  <2>2. Ocupados' = Ocupados
    BY <1>14 DEF Ocupados
  <2>3. ASSUME NEW m \in Ocupados
        PROVE  LET q == tablaFrames'[m][1]
                   h == tablaFrames'[m][2]
               IN  q \in alojados' /\ h \in presente'[q] /\ marco'[q][h] = m
    <3>1. CASE m = f
      BY <1>2, <1>7, <1>9, <1>10, <1>11, <3>1
    <3>2. CASE m # f
      <4>0. m \in Marcos /\ tablaFrames'[m] = tablaFrames[m] /\ tablaFrames[m] \in Procesos \X Paginas
        BY <1>0, <1>9, <3>2 DEF Ocupados, TipoMemoria
      <4>1. PICK q \in Procesos, h \in Paginas : tablaFrames[m] = <<q, h>>
        BY <4>0
      <4>2. q \in alojados /\ h \in presente[q] /\ marco[q][h] = m
        BY <1>0, <4>1 DEF Tablas, MarcosCoherentes
      <4>3. ~(q = p /\ h = v) /\ ~(q = p /\ h = g)
        BY <1>2, <1>5, <3>2, <4>2
      <4>4. h \in presente'[q] /\ marco'[q][h] = m
        BY <1>10, <1>11, <4>2, <4>3
      <4> QED
        BY <1>7, <4>0, <4>1, <4>2, <4>4
    <3> QED
      BY <3>1, <3>2
  <2> QED
    BY <1>0, <1>7, <2>1, <2>2, <2>3 DEF Tablas, MarcosCoherentes
<1>20. SlotsExclusivos'
  BY <1>0, <1>7 DEF Tablas, SlotsExclusivos, SlotsEnUso
<1>21. ColaCoherente'
  <2>1. Cardinality(presente'[p]) <= MarcosPorProceso
    <3>0. presente[p] \subseteq Paginas /\ presente[p] \ {v} \subseteq Paginas
      BY <1>0 DEF TipoMemoria
    <3>1. /\ Cardinality(presente[p]) \in Nat
          /\ Cardinality(presente[p] \ {v}) = Cardinality(presente[p]) - 1
      BY <1>4, <3>0, PaginasContadas
    <3>2. g \notin presente[p] \ {v}
      BY <1>2
    <3>3. Cardinality((presente[p] \ {v}) \cup {g}) = Cardinality(presente[p] \ {v}) + 1
      BY <3>0, <3>2, PaginasContadas
    <3> QED
      BY <1>3, <1>11, <3>1, <3>3
  <2>2. ASSUME NEW q \in Procesos
        PROVE  /\ SinRepetidos(presentes'[q]) /\ Elementos(presentes'[q]) = presente'[q]
               /\ Cardinality(presente'[q]) <= MarcosPorProceso
    <3>1. CASE q = p
      BY <1>12, <2>1, <3>1
    <3>2. CASE q # p
      <4>1. ~(rutina = "reemplaza" /\ pedida[1] = q)
        BY <1>2, <3>2
      <4>2. /\ SinRepetidos(presentes[q]) /\ Elementos(presentes[q]) = presente[q]
            /\ Cardinality(presente[q]) <= MarcosPorProceso
        BY <1>0, <4>1 DEF Tablas, ColaCoherente
      <4>3. presentes'[q] = presentes[q] /\ presente'[q] = presente[q]
        BY <1>11, <1>13, <3>2
      <4> QED
        BY <4>2, <4>3 DEF SinRepetidos, Elementos
    <3> QED
      BY <3>1, <3>2
  <2> QED
    BY <1>7, <2>2 DEF ColaCoherente
<1>22. AccesoPropio'
  <2>1. acceso # Nulo => acceso.marco \in Marcos
    BY <1>0 DEF TypeOK, Entrada
  <2> QED
    BY <1>0, <1>7, <1>14, <2>1 DEF AccesoPropio
<1>23. MarcaConEntrada'
  <2>1. marca # Nulo => marca.marco \in Marcos
    BY <1>0 DEF TipoMemoria
  <2>2. \A q \in Procesos : fase[q] = "fin" => fase'[q] = "fin"
    BY <1>2, <1>8
  <2> QED
    BY <1>0, <1>7, <1>14, <2>1, <2>2 DEF MarcaConEntrada
<1>24. TLBPropia'
  <2>1. \A i \in DOMAIN tlb : tlb[i].pid \in Procesos /\ tlb[i].marco \in Marcos
    BY <1>0, Entradas DEF TypeOK, Entrada
  <2> QED
    BY <1>0, <1>7, <1>8, <1>14, <2>1 DEF TLBPropia
<1>25. ReintentoNoFalla'
  BY <1>0, <1>2, <1>7, <1>8, <1>11 DEF ReintentoNoFalla
<1> QED
  BY <1>15, <1>16, <1>17, <1>18, <1>19, <1>20, <1>21, <1>22, <1>23, <1>24, <1>25 DEF Inv, Tablas
-----------------------------------------------------------------------------
(* The slots that a new process gets are free, and one for each page.      *)

LEMMA SlotsNuevos ==
  ASSUME TypeOK, Cardinality(PaginasEnteras) <= Cardinality(Slots \ mapaSwap)
  PROVE  /\ \A g \in PaginasEnteras : SlotNuevo(g) \in Slots \ mapaSwap
         /\ \A g, h \in PaginasEnteras : SlotNuevo(g) = SlotNuevo(h) => g = h
         /\ \A g \in Paginas \ PaginasEnteras : SlotNuevo(g) = Nulo
<1> DEFINE L == Slots \ mapaSwap
           E == PaginasEnteras
<1>1. E \subseteq Paginas /\ CantPaginas \in Nat /\ CantSlots \in Nat
  BY SupuestosMemoria DEF SupuestosMemoria
<1>2. IsFiniteSet(E) /\ E \subseteq Nat /\ Cardinality(E) \in Nat
  <2>1. IsFiniteSet(E) /\ Cardinality(E) \in Nat
    BY <1>1, PaginasContadas
  <2>2. E \subseteq Nat
    BY <1>1 DEF Paginas
  <2> QED
    BY <2>1, <2>2
<1>3. IsFiniteSet(L) /\ L \subseteq Nat /\ Cardinality(L) \in Nat
  <2>1. 0 \in Int /\ CantSlots - 1 \in Int
    BY <1>1
  <2>2. IsFiniteSet(Slots)
    BY <2>1, FS_Interval DEF Slots
  <2>3. IsFiniteSet(L)
    BY <2>2, FS_Subset, L \subseteq Slots
  <2>4. Cardinality(L) \in Nat
    BY <2>3, FS_CardinalityType
  <2>5. L \subseteq Nat
    BY <1>1 DEF Slots
  <2> QED
    BY <2>3, <2>4, <2>5
<1> HIDE DEF L, E
<1>4. ASSUME NEW g \in E
      PROVE  /\ Enesimo(L, Menores(E, g)) \in L
             /\ Menores(L, Enesimo(L, Menores(E, g))) = Menores(E, g)
  <2>1. Menores(E, g) \in 0 .. (Cardinality(E) - 1)
    BY <1>2, MenoresPropio
  <2>2. Menores(E, g) \in Nat /\ Menores(E, g) < Cardinality(L)
    BY <1>2, <1>3, <2>1 DEF L, E
  <2> QED
    BY <1>3, <2>2, EnesimoExiste
<1>5. ASSUME NEW g \in E, NEW h \in E, Menores(E, g) = Menores(E, h)
      PROVE  g = h
  <2>1. g \in Nat /\ h \in Nat
    BY <1>2
  <2>2. Menores(E, g) \in Nat /\ Menores(E, h) \in Nat
    <3>1. Menores(E, g) \in 0 .. Cardinality(E) /\ Menores(E, h) \in 0 .. Cardinality(E)
      BY <1>2, <2>1, MenoresTipo
    <3> QED
      BY <1>2, <3>1
  <2>3. ~(g < h)
    <3>1. g < h => Menores(E, g) < Menores(E, h)
      BY <1>2, <2>1, MenoresCrece
    <3> QED
      BY <1>5, <2>2, <3>1
  <2>4. ~(h < g)
    <3>1. h < g => Menores(E, h) < Menores(E, g)
      BY <1>2, <2>1, MenoresCrece
    <3> QED
      BY <1>5, <2>2, <3>1
  <2> QED
    BY <2>1, <2>3, <2>4
<1>6. \A g \in E : SlotNuevo(g) = Enesimo(L, Menores(E, g))
  BY DEF SlotNuevo, L, E
<1>7. \A g \in Paginas \ E : SlotNuevo(g) = Nulo
  BY DEF SlotNuevo, E
<1>8. \A g \in E : SlotNuevo(g) \in L
  BY <1>4, <1>6
<1>9. \A g, h \in E : SlotNuevo(g) = SlotNuevo(h) => g = h
  BY <1>4, <1>5, <1>6
<1> QED
  BY <1>7, <1>8, <1>9 DEF L, E

(* The slots in use, one by one.                                           *)
LEMMA EnUso ==
  \A s : s \in SlotsEnUso <=> \E p \in alojados, g \in PaginasEnteras : s = slot[p][g]
BY DEF SlotsEnUso

LEMMA PasoCrear ==
  ASSUME Inv, caida = "no", NEW p \in Procesos, Crear(p)
  PROVE  Inv'
<1>0. /\ TypeOK /\ TipoMemoria /\ Tablas /\ AccesoPropio /\ MarcaConEntrada /\ TLBPropia
      /\ ReintentoNoFalla /\ \A q \in Procesos : FaseCoherente(q)
  BY DEF Inv, TypeOK
<1>a. Nulo \notin Paginas /\ Nulo \notin Slots /\ PaginasEnteras \subseteq Paginas
  BY SupuestosMemoria DEF SupuestosMemoria, Paginas, Slots
<1>1. /\ UNCHANGED <<presente, usado, modificado, marco, presentes, mapaFrames, tablaFrames>>
      /\ UNCHANGED <<espacio, swap, rutina, pedida, victima, paso, vuelta, marca>>
      /\ UNCHANGED <<tlb, enCpu, falta, acceso, registro>>
      /\ fase[p] = "nuevo" /\ rutina = "libre"
      /\ Responde(p, "listo")
  BY DEF Crear, NuevoProceso, rutinaVars
<1>2. CASE Cardinality(PaginasEnteras) > Cardinality(Slots \ mapaSwap)
  <2>1. caida' = "sin slot" /\ UNCHANGED <<alojados, slot, mapaSwap>>
    BY <1>2 DEF Crear, NuevoProceso
  <2>2. fase' = fase
    BY <1>1, <2>1 DEF Responde
  <2>3. Tablas'
    BY <1>0, <1>1, <2>1, TablasIguales DEF rutinaVars
  <2>4. TipoMemoria'
    BY <1>0, <1>1, <2>1 DEF TipoMemoria
  <2>5. TypeOK'
    BY <1>0, <1>1, <2>2, <2>4 DEF TypeOK
  <2>6. \A q \in Procesos : FaseCoherente(q)'
    BY <1>0, <1>1, <2>1, <2>2 DEF FaseCoherente
  <2>7. AccesoPropio' /\ MarcaConEntrada' /\ TLBPropia' /\ ReintentoNoFalla'
    BY <1>0, <1>1, <2>2 DEF AccesoPropio, MarcaConEntrada, TLBPropia, ReintentoNoFalla
  <2> QED
    BY <2>3, <2>5, <2>6, <2>7 DEF Inv
<1>3. CASE ~(Cardinality(PaginasEnteras) > Cardinality(Slots \ mapaSwap))
  <2>0. Cardinality(PaginasEnteras) <= Cardinality(Slots \ mapaSwap)
    <3>1. Cardinality(PaginasEnteras) \in Nat
      BY <1>a, PaginasContadas
    <3>2. Cardinality(Slots \ mapaSwap) \in Nat
      <4>1. 0 \in Int /\ CantSlots - 1 \in Int
        BY SupuestosMemoria DEF SupuestosMemoria
      <4>2. IsFiniteSet(Slots)
        BY <4>1, FS_Interval DEF Slots
      <4> QED
        BY <4>2, FS_Subset, FS_CardinalityType, Slots \ mapaSwap \subseteq Slots
    <3> QED
      BY <1>3, <3>1, <3>2
  <2>1. /\ alojados' = alojados \cup {p}
        /\ slot' = [slot EXCEPT ![p] = [g \in Paginas |-> SlotNuevo(g)]]
        /\ mapaSwap' = mapaSwap \cup {SlotNuevo(g) : g \in PaginasEnteras}
        /\ UNCHANGED caida
    BY <1>3 DEF Crear, NuevoProceso
  <2>n. /\ \A g \in PaginasEnteras : SlotNuevo(g) \in Slots \ mapaSwap
        /\ \A g, h \in PaginasEnteras : SlotNuevo(g) = SlotNuevo(h) => g = h
        /\ \A g \in Paginas \ PaginasEnteras : SlotNuevo(g) = Nulo
    BY <1>0, <2>0, SlotsNuevos
  <2>2. /\ fase' = [fase EXCEPT ![p] = "listo"]
        /\ fase'[p] = "listo" /\ \A q \in Procesos \ {p} : fase'[q] = fase[q]
        /\ fase' \in [Procesos -> {"nuevo", "listo", "falla", "cargando", "sale", "fin"}]
    BY <1>0, <1>1, <2>1 DEF Responde, TypeOK
  <2>3. slot \in [Procesos -> [Paginas -> Slots \cup {Nulo}]]
    BY <1>0 DEF TipoMemoria
  <2>4. [g \in Paginas |-> SlotNuevo(g)] \in [Paginas -> Slots \cup {Nulo}]
    BY <2>n
  <2>5. /\ slot' \in [Procesos -> [Paginas -> Slots \cup {Nulo}]]
        /\ slot'[p] = [g \in Paginas |-> SlotNuevo(g)]
        /\ \A q \in Procesos \ {p} : slot'[q] = slot[q]
    BY <2>1, <2>3, <2>4
  <2>6. \A g \in PaginasEnteras : slot'[p][g] = SlotNuevo(g)
    BY <1>a, <2>5
  <2>p. p \notin alojados /\ alojados \subseteq Procesos
    BY <1>0, <1>1 DEF FaseCoherente, TipoMemoria
  <2>7. TypeOK'
    <3>1. mapaSwap' \subseteq Slots
      BY <1>0, <2>1, <2>n DEF TipoMemoria
    <3>2. TipoMemoria'
      BY <1>0, <1>1, <2>1, <2>5, <3>1 DEF TipoMemoria
    <3> QED
      BY <1>0, <1>1, <2>2, <3>2 DEF TypeOK
  <2>8. ASSUME NEW q \in Procesos PROVE FaseCoherente(q)'
    <3>1. FaseCoherente(q) /\ FaseCoherente(p)
      BY <1>0
    <3>2. CASE q = p
      BY <1>1, <2>1, <2>2, <3>1, <3>2 DEF FaseCoherente
    <3>3. CASE q # p
      BY <1>1, <2>1, <2>2, <3>1, <3>3 DEF FaseCoherente
    <3> QED
      BY <3>2, <3>3
  <2>9. PaginasUbicadas'
    <3>1. ASSUME NEW q \in alojados', NEW g \in PaginasEnteras PROVE slot'[q][g] \in Slots
      <4>1. CASE q = p
        BY <2>6, <2>n, <4>1
      <4>2. CASE q # p
        BY <1>0, <2>1, <2>5, <2>p, <4>2 DEF Tablas, PaginasUbicadas
      <4> QED
        BY <4>1, <4>2
    <3>2. ASSUME NEW q \in Procesos, NEW g \in Paginas \ PaginasEnteras PROVE slot'[q][g] = Nulo
      <4>1. CASE q = p
        BY <2>5, <2>n, <4>1
      <4>2. CASE q # p
        BY <1>0, <2>5, <4>2 DEF Tablas, PaginasUbicadas
      <4> QED
        BY <4>1, <4>2
    <3> QED
      BY <1>0, <1>1, <3>1, <3>2 DEF Tablas, PaginasUbicadas
  <2>10. RutinaCoherente' /\ ColaCoherente'
    BY <1>0, <1>1 DEF Tablas, RutinaCoherente, ColaCoherente, MemoriaEstaLlena
  <2>11. MarcosCoherentes'
    BY <1>0, <1>1, <2>1 DEF Tablas, MarcosCoherentes, Ocupados
  <2>12. SlotsExclusivos'
    <3>0. /\ \A x, y \in alojados \X PaginasEnteras : slot[x[1]][x[2]] = slot[y[1]][y[2]] => x = y
          /\ SlotsEnUso \subseteq mapaSwap /\ mapaSwap \ SlotsEnUso \subseteq UNION BasuraSwap
      BY <1>0 DEF Tablas, SlotsExclusivos
    <3>1. \A q \in alojados : slot'[q] = slot[q] /\ q # p
      BY <2>5, <2>p
    <3>2. ASSUME NEW q \in alojados', NEW g \in PaginasEnteras, NEW r \in alojados',
                 NEW h \in PaginasEnteras, slot'[q][g] = slot'[r][h]
          PROVE  q = r /\ g = h
      <4>1. CASE q = p /\ r = p
        BY <2>6, <2>n, <3>2, <4>1
      <4>2. CASE q # p /\ r # p
        <5>1. q \in alojados /\ r \in alojados /\ slot[q][g] = slot[r][h]
          BY <2>1, <3>1, <3>2, <4>2
        <5>2. /\ <<q, g>> \in alojados \X PaginasEnteras /\ <<r, h>> \in alojados \X PaginasEnteras
              /\ <<q, g>>[1] = q /\ <<q, g>>[2] = g /\ <<r, h>>[1] = r /\ <<r, h>>[2] = h
          BY <5>1
        <5>3. <<q, g>> = <<r, h>>
          BY <3>0, <5>1, <5>2
        <5> QED
          BY <5>3
      <4>3. CASE q = p /\ r # p
        <5>1. r \in alojados /\ slot'[r][h] = slot[r][h]
          BY <2>1, <3>1, <4>3
        <5>2. slot[r][h] \in mapaSwap
          BY <3>0, <5>1, EnUso
        <5> QED
          BY <2>6, <2>n, <3>2, <4>3, <5>1, <5>2
      <4>4. CASE q # p /\ r = p
        <5>1. q \in alojados /\ slot'[q][g] = slot[q][g]
          BY <2>1, <3>1, <4>4
        <5>2. slot[q][g] \in mapaSwap
          BY <3>0, <5>1, EnUso
        <5> QED
          BY <2>6, <2>n, <3>2, <4>4, <5>1, <5>2
      <4> QED
        BY <4>1, <4>2, <4>3, <4>4
    <3>3. SlotsEnUso' = SlotsEnUso \cup {SlotNuevo(g) : g \in PaginasEnteras}
      <4>1. \A s : s \in SlotsEnUso' <=> \E q \in alojados', g \in PaginasEnteras : s = slot'[q][g]
        BY DEF SlotsEnUso
      <4>2. ASSUME NEW q \in alojados', NEW g \in PaginasEnteras
            PROVE  slot'[q][g] \in SlotsEnUso \cup {SlotNuevo(h) : h \in PaginasEnteras}
        BY <2>1, <2>6, <3>1, EnUso
      <4>3. \A q \in alojados, g \in PaginasEnteras : slot[q][g] \in SlotsEnUso'
        BY <2>1, <3>1, <4>1
      <4>4. \A g \in PaginasEnteras : SlotNuevo(g) \in SlotsEnUso'
        BY <2>1, <2>6, <4>1
      <4>5. SlotsEnUso' \subseteq SlotsEnUso \cup {SlotNuevo(g) : g \in PaginasEnteras}
        BY <4>1, <4>2
      <4>6. SlotsEnUso \subseteq SlotsEnUso'
        BY <4>3, EnUso
      <4> QED
        BY <4>4, <4>5, <4>6
    <3>4. \A x, y \in alojados' \X PaginasEnteras : slot'[x[1]][x[2]] = slot'[y[1]][y[2]] => x = y
      BY <3>2
    <3>5. SlotsEnUso' \subseteq mapaSwap' /\ mapaSwap' \ SlotsEnUso' \subseteq UNION BasuraSwap
      BY <2>1, <3>0, <3>3
    <3> QED
      BY <3>4, <3>5 DEF SlotsExclusivos
  <2>13. AccesoPropio' /\ ReintentoNoFalla'
    BY <1>0, <1>1, <2>2 DEF AccesoPropio, ReintentoNoFalla, FaseCoherente
  <2>14. MarcaConEntrada'
    BY <1>0, <1>1, <2>2 DEF MarcaConEntrada
  <2>15. TLBPropia'
    <3>1. \A i \in DOMAIN tlb : tlb[i].pid \in Procesos
      BY <1>0, Entradas DEF TypeOK, Entrada
    <3> QED
      BY <1>0, <1>1, <2>2, <3>1 DEF TLBPropia
  <2> QED
    BY <2>7, <2>8, <2>9, <2>10, <2>11, <2>12, <2>13, <2>14, <2>15 DEF Inv, Tablas
<1> QED
  BY <1>2, <1>3
-----------------------------------------------------------------------------
(* A page enters a free frame. *)

LEMMA MarcoLibre ==
  ASSUME ~(Marcos \subseteq mapaFrames)
  PROVE  PosicionLibre(mapaFrames, Marcos) \in Marcos \ mapaFrames
<1>1. CantMarcos \in Nat /\ 0 \in Int /\ CantMarcos - 1 \in Int
  BY SupuestosMemoria DEF SupuestosMemoria
<1>2. IsFiniteSet(Marcos)
  BY <1>1, FS_Interval DEF Marcos
<1>3. Marcos \subseteq Nat
  BY <1>1 DEF Marcos
<1> QED
  BY <1>2, <1>3, LibreExiste

LEMMA PasoCargar ==
  ASSUME Inv, caida = "no", NEW p \in Procesos, AtenderFaltaLibre(p)
  PROVE  Inv'
<1>0. /\ TypeOK /\ TipoMemoria /\ Tablas /\ AccesoPropio /\ MarcaConEntrada /\ TLBPropia
      /\ ReintentoNoFalla /\ \A q \in Procesos : FaseCoherente(q)
  BY DEF Inv, TypeOK
<1>a. /\ MarcosPorProceso \in Nat \ {0} /\ Nulo \notin Procesos \X Paginas /\ Nulo \notin Procesos
      /\ Nulo \notin Nat /\ Nulo \notin Paginas
  BY SupuestosMemoria DEF SupuestosMemoria, Paginas
<1>1. /\ UNCHANGED <<alojados, usado, modificado, slot, mapaSwap, swap, marca>>
      /\ UNCHANGED <<rutina, pedida, victima, paso, vuelta>>
      /\ UNCHANGED <<tlb, enCpu, falta, acceso, registro>>
      /\ fase[p] = "falla" /\ rutina = "libre" /\ ~ProcesoAlcanzoMaxMarcos(p)
      /\ Responde(p, "listo")
  BY DEF AtenderFaltaLibre, CargarEnMarcoLibre, rutinaVars
<1>2. CASE Marcos \subseteq mapaFrames
  <2>1. caida' = "sin marco"
        /\ UNCHANGED <<presente, marco, presentes, mapaFrames, tablaFrames, espacio>>
    BY <1>2 DEF AtenderFaltaLibre, CargarEnMarcoLibre
  <2>2. fase' = fase
    BY <1>1, <2>1 DEF Responde
  <2>3. Tablas'
    BY <1>0, <1>1, <2>1, TablasIguales DEF rutinaVars
  <2>4. TipoMemoria'
    BY <1>0, <1>1, <2>1 DEF TipoMemoria
  <2>5. TypeOK'
    BY <1>0, <1>1, <2>2, <2>4 DEF TypeOK
  <2>6. \A q \in Procesos : FaseCoherente(q)'
    BY <1>0, <1>1, <2>1, <2>2 DEF FaseCoherente
  <2>7. AccesoPropio' /\ MarcaConEntrada' /\ TLBPropia' /\ ReintentoNoFalla'
    BY <1>0, <1>1, <2>1, <2>2 DEF AccesoPropio, MarcaConEntrada, TLBPropia, ReintentoNoFalla
  <2> QED
    BY <2>3, <2>5, <2>6, <2>7 DEF Inv
<1>3. CASE ~(Marcos \subseteq mapaFrames)
  <2>0. PICK g \in Paginas : g = falta[p] /\ g \notin presente[p]
    BY <1>0, <1>1 DEF FaseCoherente
  <2>1. PICK f \in Marcos \ mapaFrames : f = PosicionLibre(mapaFrames, Marcos)
    BY <1>3, MarcoLibre
  <2>2. /\ marco' = [marco EXCEPT ![p][g] = f]
        /\ tablaFrames' = [tablaFrames EXCEPT ![f] = <<p, g>>]
        /\ mapaFrames' = mapaFrames \cup {f}
        /\ \E x \in Leido(swap, slot[p][g]) : espacio' = [espacio EXCEPT ![f] = x]
        /\ presente' = [presente EXCEPT ![p] = presente[p] \cup {g}]
        /\ presentes' = [presentes EXCEPT ![p] = Append(presentes[p], g)]
        /\ UNCHANGED caida
    BY <1>3, <2>0, <2>1 DEF AtenderFaltaLibre, CargarEnMarcoLibre, OcuparMarco
  <2>3. f \in Marcos /\ f \notin Ocupados /\ tablaFrames[f] = Nulo
    <3>1. Ocupados \subseteq mapaFrames
      BY <1>0 DEF Tablas, MarcosCoherentes
    <3> QED
      BY <2>1, <3>1 DEF Ocupados
  <2>4. /\ fase' = [fase EXCEPT ![p] = "listo"]
        /\ fase'[p] = "listo" /\ \A q \in Procesos \ {p} : fase'[q] = fase[q]
        /\ fase' \in [Procesos -> {"nuevo", "listo", "falla", "cargando", "sale", "fin"}]
    BY <1>0, <1>1, <2>2 DEF Responde, TypeOK
  <2>5. /\ tablaFrames'[f] = <<p, g>> /\ \A m \in Marcos \ {f} : tablaFrames'[m] = tablaFrames[m]
        /\ tablaFrames' \in [Marcos -> (Procesos \X Paginas) \cup {Nulo}]
    BY <1>0, <2>2, <2>3 DEF TipoMemoria
  <2>6. /\ marco'[p][g] = f /\ \A h \in Paginas \ {g} : marco'[p][h] = marco[p][h]
        /\ \A q \in Procesos \ {p} : marco'[q] = marco[q]
        /\ marco' \in [Procesos -> [Paginas -> Marcos \cup {Nulo}]]
    <3>1. marco \in [Procesos -> [Paginas -> Marcos \cup {Nulo}]]
      BY <1>0 DEF TipoMemoria
    <3> QED
      BY <2>2, <2>3, <3>1
  <2>7. /\ presente'[p] = presente[p] \cup {g}
        /\ \A q \in Procesos \ {p} : presente'[q] = presente[q]
        /\ presente' \in [Procesos -> SUBSET Paginas]
    <3>1. presente[p] \cup {g} \in SUBSET Paginas
      BY <1>0 DEF TipoMemoria
    <3> QED
      BY <1>0, <2>2, <3>1 DEF TipoMemoria
  <2>c. ASSUME NEW q \in Procesos
        PROVE  /\ SinRepetidos(presentes[q]) /\ Elementos(presentes[q]) = presente[q]
               /\ Cardinality(presente[q]) <= MarcosPorProceso
    BY <1>0, <1>1 DEF Tablas, ColaCoherente
  <2>8. /\ presentes[p] \in Seq(Paginas) /\ presentes'[p] = Append(presentes[p], g)
        /\ presentes'[p] \in Seq(Paginas) /\ SinRepetidos(presentes'[p])
        /\ Elementos(presentes'[p]) = presente'[p]
    <3>1. presentes[p] \in Seq(Paginas) /\ presentes'[p] = Append(presentes[p], g)
      BY <1>0, <2>2 DEF TipoMemoria
    <3>2. g \in Paginas \ Elementos(presentes[p])
      BY <2>0, <2>c
    <3>3. /\ Append(presentes[p], g) \in Seq(Paginas) /\ SinRepetidos(Append(presentes[p], g))
          /\ Elementos(Append(presentes[p], g)) = Elementos(presentes[p]) \cup {g}
      BY <2>c, <3>1, <3>2, ColaAgregar
    <3> QED
      BY <2>7, <2>c, <3>1, <3>3
  <2>9. \A q \in Procesos \ {p} : presentes'[q] = presentes[q]
    BY <1>0, <2>2 DEF TipoMemoria
  <2>10. \A m \in Marcos : tablaFrames[m] # Nulo => m # f /\ tablaFrames'[m] = tablaFrames[m]
    BY <2>3, <2>5
  <2>11. TypeOK'
    <3>1. espacio' \in [Marcos -> Valores]
      <4>1. PICK x \in Leido(swap, slot[p][g]) : espacio' = [espacio EXCEPT ![f] = x]
        BY <2>2
      <4>2. /\ swap \in [Slots \cup {Nulo} -> Valores \cup {Nulo}]
            /\ slot \in [Procesos -> [Paginas -> Slots \cup {Nulo}]]
            /\ espacio \in [Marcos -> Valores]
        BY <1>0 DEF TipoMemoria
      <4>3. slot[p][g] \in Slots \cup {Nulo}
        BY <4>2
      <4>4. x \in Valores
        BY <4>1, <4>2, <4>3, LeidoTipo
      <4> QED
        BY <4>1, <4>2, <4>4
    <3>2. presentes' \in [Procesos -> Seq(Paginas)]
      <4>1. Append(presentes[p], g) \in Seq(Paginas)
        BY <2>8
      <4> QED
        BY <1>0, <2>2, <4>1 DEF TipoMemoria
    <3>3. mapaFrames' \subseteq Marcos
      BY <1>0, <2>2 DEF TipoMemoria
    <3>4. TipoMemoria'
      BY <1>0, <1>1, <2>2, <2>5, <2>6, <2>7, <3>1, <3>2, <3>3 DEF TipoMemoria
    <3> QED
      BY <1>0, <1>1, <2>4, <3>4 DEF TypeOK
  <2>12. ASSUME NEW q \in Procesos PROVE FaseCoherente(q)'
    <3>1. FaseCoherente(q) /\ FaseCoherente(p)
      BY <1>0
    <3>2. CASE q = p
      BY <1>1, <2>4, <3>1, <3>2 DEF FaseCoherente
    <3>3. CASE q # p
      BY <1>1, <2>4, <2>7, <3>1, <3>3 DEF FaseCoherente
    <3> QED
      BY <3>2, <3>3
  <2>13. PaginasUbicadas'
    <3>1. ASSUME NEW q \in Procesos, NEW h \in presente'[q] PROVE marco'[q][h] \in Marcos
      <4>0. h \in Paginas
        BY <2>7
      <4>1. CASE q = p /\ h = g
        BY <2>3, <2>6, <4>1
      <4>2. CASE ~(q = p /\ h = g)
        <5>1. h \in presente[q] /\ marco'[q][h] = marco[q][h]
          BY <2>6, <2>7, <4>0, <4>2
        <5> QED
          BY <1>0, <5>1 DEF Tablas, PaginasUbicadas
      <4> QED
        BY <4>1, <4>2
    <3> QED
      BY <1>0, <1>1, <3>1 DEF Tablas, PaginasUbicadas
  <2>14. RutinaCoherente'
    BY <1>0, <1>1 DEF Tablas, RutinaCoherente
  <2>15. MarcosCoherentes'
    <3>0. /\ \A q \in Procesos : \A h \in presente[q] :
               marco[q][h] \in Marcos /\ tablaFrames[marco[q][h]] = <<q, h>>
          /\ Ocupados \subseteq mapaFrames /\ mapaFrames \ Ocupados \subseteq UNION BasuraMarcos
      BY <1>0 DEF Tablas, PaginasUbicadas, MarcosCoherentes
    <3>1. ASSUME NEW q \in Procesos, NEW h \in presente'[q]
          PROVE  tablaFrames'[marco'[q][h]] = <<q, h>>
      <4>0. h \in Paginas
        BY <2>7
      <4>1. CASE q = p /\ h = g
        BY <2>5, <2>6, <4>1
      <4>2. CASE ~(q = p /\ h = g)
        <5>1. h \in presente[q] /\ marco'[q][h] = marco[q][h]
          BY <2>6, <2>7, <4>0, <4>2
        <5>2. <<q, h>> # Nulo
          BY <1>a, <4>0
        <5> QED
          BY <2>10, <3>0, <5>1, <5>2
      <4> QED
        BY <4>1, <4>2
    <3>2. Ocupados' = Ocupados \cup {f}
      <4>1. <<p, g>> # Nulo
        BY <1>a
      <4> QED
        BY <2>3, <2>5, <4>1 DEF Ocupados
    <3>3. ASSUME NEW m \in Ocupados'
          PROVE  LET q == tablaFrames'[m][1]
                     h == tablaFrames'[m][2]
                 IN  q \in alojados' /\ h \in presente'[q] /\ marco'[q][h] = m
      <4>1. CASE m = f
        <5>1. p \in alojados
          BY <1>0, <1>1 DEF FaseCoherente
        <5> QED
          BY <1>1, <2>5, <2>6, <2>7, <4>1, <5>1
      <4>2. CASE m # f
        <5>0. /\ m \in Ocupados /\ m \in Marcos /\ tablaFrames'[m] = tablaFrames[m]
              /\ tablaFrames[m] \in Procesos \X Paginas
          BY <1>0, <2>5, <3>2, <4>2 DEF Ocupados, TipoMemoria
        <5>1. PICK q \in Procesos, h \in Paginas : tablaFrames[m] = <<q, h>>
          BY <5>0
        <5>2. q \in alojados /\ h \in presente[q] /\ marco[q][h] = m
          BY <1>0, <5>0, <5>1 DEF Tablas, MarcosCoherentes
        <5>3. ~(q = p /\ h = g)
          BY <2>0, <5>2
        <5>4. h \in presente'[q] /\ marco'[q][h] = m
          BY <2>6, <2>7, <5>2, <5>3
        <5> QED
          BY <1>1, <5>0, <5>1, <5>2, <5>4
      <4> QED
        BY <4>1, <4>2
    <3>4. Ocupados' \subseteq mapaFrames' /\ mapaFrames' \ Ocupados' \subseteq UNION BasuraMarcos
      BY <2>2, <3>0, <3>2
    <3> QED
      BY <3>1, <3>3, <3>4 DEF MarcosCoherentes
  <2>16. SlotsExclusivos'
    BY <1>0, <1>1 DEF Tablas, SlotsExclusivos, SlotsEnUso
  <2>17. ColaCoherente'
    <3>1. Cardinality(presente'[p]) <= MarcosPorProceso
      <4>0. presente[p] \subseteq Paginas
        BY <1>0 DEF TipoMemoria
      <4>1. /\ Cardinality(presente[p]) \in Nat
            /\ Cardinality(presente[p] \cup {g}) = Cardinality(presente[p]) + 1
        BY <2>0, <4>0, PaginasContadas
      <4>2. Cardinality(presente[p]) # MarcosPorProceso
        BY <1>1, <2>c DEF SinRepetidos, ProcesoAlcanzoMaxMarcos
      <4> QED
        BY <1>a, <2>7, <2>c, <4>1, <4>2
    <3>2. ASSUME NEW q \in Procesos
          PROVE  /\ SinRepetidos(presentes'[q]) /\ Elementos(presentes'[q]) = presente'[q]
                 /\ Cardinality(presente'[q]) <= MarcosPorProceso
      <4>1. CASE q = p
        BY <2>8, <3>1, <4>1
      <4>2. CASE q # p
        BY <2>7, <2>9, <2>c, <4>2
      <4> QED
        BY <4>1, <4>2
    <3> QED
      BY <1>1, <3>2 DEF ColaCoherente
  <2>18. AccesoPropio'
    <3>1. acceso # Nulo => acceso.marco \in Marcos
      BY <1>0 DEF TypeOK, Entrada
    <3> QED
      BY <1>0, <1>1, <2>10, <3>1 DEF AccesoPropio
  <2>19. MarcaConEntrada'
    <3>1. marca # Nulo => marca.marco \in Marcos
      BY <1>0 DEF TipoMemoria
    <3>2. \A q \in Procesos : fase[q] = "fin" => fase'[q] = "fin"
      BY <1>1, <2>4
    <3> QED
      BY <1>0, <1>1, <2>10, <3>1, <3>2 DEF MarcaConEntrada
  <2>20. TLBPropia'
    <3>1. \A i \in DOMAIN tlb : tlb[i].pid \in Procesos /\ tlb[i].marco \in Marcos
      BY <1>0, Entradas DEF TypeOK, Entrada
    <3> QED
      BY <1>0, <1>1, <2>4, <2>10, <3>1 DEF TLBPropia
  <2>21. ReintentoNoFalla'
    BY <1>0, <1>1, <2>0, <2>4, <2>7 DEF ReintentoNoFalla
  <2> QED
    BY <2>11, <2>12, <2>13, <2>14, <2>15, <2>16, <2>17, <2>18, <2>19, <2>20, <2>21 DEF Inv, Tablas
<1> QED
  BY <1>2, <1>3
-----------------------------------------------------------------------------
(* A process ends: its frames and slots, and no others, are free.          *)

LEMMA PasoDestruir ==
  ASSUME Inv, NEW p \in Procesos, Destruir(p)
  PROVE  Inv'
<1> DEFINE propios == {marco[p][g] : g \in presente[p]}
<1>0. /\ TypeOK /\ TipoMemoria /\ Tablas /\ AccesoPropio /\ MarcaConEntrada /\ TLBPropia
      /\ ReintentoNoFalla /\ \A q \in Procesos : FaseCoherente(q)
  BY DEF Inv, TypeOK
<1>a. /\ MarcosPorProceso \in Nat \ {0} /\ Nulo \notin Procesos \X Paginas /\ Nulo \notin Procesos
      /\ Nulo \notin Slots /\ PaginasEnteras \subseteq Paginas
  BY SupuestosMemoria DEF SupuestosMemoria, Slots
<1>1. /\ fase[p] = "sale" /\ rutina = "libre"
      /\ alojados' = alojados \ {p}
      /\ mapaFrames' = mapaFrames \ propios
      /\ tablaFrames' = [m \in Marcos |-> IF m \in propios THEN Nulo ELSE tablaFrames[m]]
      /\ mapaSwap' = mapaSwap \ {slot[p][g] : g \in Paginas}
      /\ presente' = [presente EXCEPT ![p] = {}]
      /\ usado' = [usado EXCEPT ![p] = {}]
      /\ modificado' = [modificado EXCEPT ![p] = {}]
      /\ marco' = [marco EXCEPT ![p] = [g \in Paginas |-> Nulo]]
      /\ slot' = [slot EXCEPT ![p] = [g \in Paginas |-> Nulo]]
      /\ presentes' = [presentes EXCEPT ![p] = <<>>]
      /\ UNCHANGED <<espacio, swap, rutina, pedida, victima, paso, vuelta, marca, caida>>
      /\ fase' = [fase EXCEPT ![p] = "fin"]
      /\ UNCHANGED <<tlb, enCpu, falta, acceso, registro>>
  BY DEF Destruir, LiberarProceso, rutinaVars
<1>2. /\ fase'[p] = "fin" /\ \A q \in Procesos \ {p} : fase'[q] = fase[q]
      /\ fase' \in [Procesos -> {"nuevo", "listo", "falla", "cargando", "sale", "fin"}]
  BY <1>0, <1>1 DEF TypeOK
<1>3. /\ presente'[p] = {} /\ \A q \in Procesos \ {p} : presente'[q] = presente[q]
      /\ presente' \in [Procesos -> SUBSET Paginas]
  BY <1>0, <1>1 DEF TipoMemoria
<1>4. /\ \A q \in Procesos \ {p} : marco'[q] = marco[q]
      /\ marco' \in [Procesos -> [Paginas -> Marcos \cup {Nulo}]]
  <2>1. marco \in [Procesos -> [Paginas -> Marcos \cup {Nulo}]]
    BY <1>0 DEF TipoMemoria
  <2>2. [g \in Paginas |-> Nulo] \in [Paginas -> Marcos \cup {Nulo}]
    OBVIOUS
  <2> QED
    BY <1>1, <2>1, <2>2
<1>5. /\ \A g \in Paginas : slot'[p][g] = Nulo
      /\ \A q \in Procesos \ {p} : slot'[q] = slot[q]
      /\ slot' \in [Procesos -> [Paginas -> Slots \cup {Nulo}]]
  <2>1. slot \in [Procesos -> [Paginas -> Slots \cup {Nulo}]]
    BY <1>0 DEF TipoMemoria
  <2>2. [g \in Paginas |-> Nulo] \in [Paginas -> Slots \cup {Nulo}]
    OBVIOUS
  <2> QED
    BY <1>1, <2>1, <2>2
<1>6. /\ presentes'[p] = <<>> /\ \A q \in Procesos \ {p} : presentes'[q] = presentes[q]
      /\ presentes' \in [Procesos -> Seq(Paginas)]
  <2>1. <<>> \in Seq(Paginas)
    BY EmptySeq
  <2> QED
    BY <1>0, <1>1, <2>1 DEF TipoMemoria
<1>7. \A q \in Procesos : \A g \in presente[q] :
         marco[q][g] \in Marcos /\ tablaFrames[marco[q][g]] = <<q, g>>
  BY <1>0 DEF Tablas, PaginasUbicadas, MarcosCoherentes
<1>8. \A m \in Marcos : m \in propios <=> tablaFrames[m] # Nulo /\ tablaFrames[m][1] = p
  <2> TAKE m \in Marcos
  <2>1. m \in propios => tablaFrames[m] # Nulo /\ tablaFrames[m][1] = p
    <3> SUFFICES ASSUME NEW g \in presente[p], m = marco[p][g]
                 PROVE  tablaFrames[m] # Nulo /\ tablaFrames[m][1] = p
      OBVIOUS
    <3>1. g \in Paginas
      BY <1>0 DEF TipoMemoria
    <3>2. <<p, g>> \in Procesos \X Paginas
      BY <3>1
    <3> QED
      BY <1>7, <1>a, <3>2
  <2>2. tablaFrames[m] # Nulo /\ tablaFrames[m][1] = p => m \in propios
    <3> SUFFICES ASSUME tablaFrames[m] # Nulo, tablaFrames[m][1] = p PROVE m \in propios
      OBVIOUS
    <3>1. LET g == tablaFrames[m][2] IN g \in presente[p] /\ marco[p][g] = m
      BY <1>0 DEF Tablas, MarcosCoherentes, Ocupados
    <3> QED
      BY <3>1
  <2> QED
    BY <2>1, <2>2
<1> HIDE DEF propios
<1>9. /\ \A m \in Marcos \ propios : tablaFrames'[m] = tablaFrames[m]
      /\ \A m \in Marcos \cap propios : tablaFrames'[m] = Nulo
      /\ tablaFrames' \in [Marcos -> (Procesos \X Paginas) \cup {Nulo}]
  BY <1>0, <1>1 DEF TipoMemoria
<1>10. TypeOK'
  <2>1. alojados' \subseteq Procesos /\ mapaFrames' \subseteq Marcos /\ mapaSwap' \subseteq Slots
    BY <1>0, <1>1 DEF TipoMemoria
  <2>2. usado' \in [Procesos -> SUBSET Paginas] /\ modificado' \in [Procesos -> SUBSET Paginas]
    BY <1>0, <1>1 DEF TipoMemoria
  <2>3. TipoMemoria'
    BY <1>0, <1>1, <1>3, <1>4, <1>5, <1>6, <1>9, <2>1, <2>2 DEF TipoMemoria
  <2> QED
    BY <1>0, <1>1, <1>2, <2>3 DEF TypeOK
<1>11. ASSUME NEW q \in Procesos PROVE FaseCoherente(q)'
  <2>1. FaseCoherente(q) /\ FaseCoherente(p)
    BY <1>0
  <2>2. CASE q = p
    BY <1>1, <1>2, <1>3, <2>1, <2>2 DEF FaseCoherente
  <2>3. CASE q # p
    BY <1>1, <1>2, <1>3, <2>1, <2>3 DEF FaseCoherente
  <2> QED
    BY <2>2, <2>3
<1>12. PaginasUbicadas'
  <2>1. ASSUME NEW q \in Procesos, NEW h \in presente'[q] PROVE marco'[q][h] \in Marcos
    BY <1>3, <1>4, <1>7
  <2>2. ASSUME NEW q \in alojados', NEW h \in PaginasEnteras PROVE slot'[q][h] \in Slots
    <3>1. q \in alojados /\ q # p /\ q \in Procesos
      BY <1>0, <1>1 DEF TipoMemoria
    <3> QED
      BY <1>0, <1>5, <3>1 DEF Tablas, PaginasUbicadas
  <2>3. ASSUME NEW q \in Procesos, NEW h \in Paginas \ PaginasEnteras PROVE slot'[q][h] = Nulo
    BY <1>0, <1>5 DEF Tablas, PaginasUbicadas
  <2> QED
    BY <2>1, <2>2, <2>3 DEF PaginasUbicadas
<1>13. RutinaCoherente'
  BY <1>0, <1>1 DEF Tablas, RutinaCoherente
<1>14. MarcosCoherentes'
  <2>1. ASSUME NEW q \in Procesos, NEW h \in presente'[q]
        PROVE  tablaFrames'[marco'[q][h]] = <<q, h>>
    <3>1. q # p /\ h \in presente[q] /\ marco'[q][h] = marco[q][h]
      BY <1>3, <1>4
    <3>2. marco[q][h] \in Marcos /\ tablaFrames[marco[q][h]] = <<q, h>>
      BY <1>7, <3>1
    <3>3. marco[q][h] \notin propios
      BY <1>8, <3>1, <3>2
    <3> QED
      BY <1>9, <3>1, <3>2, <3>3
  <2>2. Ocupados' = Ocupados \ propios
    BY <1>9 DEF Ocupados
  <2>3. ASSUME NEW m \in Ocupados'
        PROVE  LET q == tablaFrames'[m][1]
                   h == tablaFrames'[m][2]
               IN  q \in alojados' /\ h \in presente'[q] /\ marco'[q][h] = m
    <3>0. /\ m \in Ocupados /\ m \in Marcos \ propios /\ tablaFrames'[m] = tablaFrames[m]
          /\ tablaFrames[m] \in Procesos \X Paginas /\ tablaFrames[m] # Nulo
      BY <1>0, <1>9, <2>2 DEF Ocupados, TipoMemoria
    <3>1. PICK q \in Procesos, h \in Paginas : tablaFrames[m] = <<q, h>>
      BY <3>0
    <3>2. q # p
      BY <1>8, <3>0, <3>1
    <3>3. q \in alojados /\ h \in presente[q] /\ marco[q][h] = m
      BY <1>0, <3>0, <3>1 DEF Tablas, MarcosCoherentes
    <3> QED
      BY <1>1, <1>3, <1>4, <3>0, <3>1, <3>2, <3>3
  <2>4. Ocupados' \subseteq mapaFrames' /\ mapaFrames' \ Ocupados' \subseteq UNION BasuraMarcos
    <3>1. Ocupados \subseteq mapaFrames /\ mapaFrames \ Ocupados \subseteq UNION BasuraMarcos
      BY <1>0 DEF Tablas, MarcosCoherentes
    <3> QED
      BY <1>1, <2>2, <3>1
  <2> QED
    BY <2>1, <2>3, <2>4 DEF MarcosCoherentes
<1>15. SlotsExclusivos'
  <2>0. /\ \A x, y \in alojados \X PaginasEnteras : slot[x[1]][x[2]] = slot[y[1]][y[2]] => x = y
        /\ SlotsEnUso \subseteq mapaSwap /\ mapaSwap \ SlotsEnUso \subseteq UNION BasuraSwap
    BY <1>0 DEF Tablas, SlotsExclusivos
  <2>p. p \in alojados
    BY <1>0, <1>1 DEF FaseCoherente
  <2>1. ASSUME NEW q \in alojados'
        PROVE  q \in alojados /\ q # p /\ q \in Procesos /\ slot'[q] = slot[q]
    BY <1>0, <1>1, <1>5 DEF TipoMemoria
  <2>2. \A x, y \in alojados' \X PaginasEnteras : slot'[x[1]][x[2]] = slot'[y[1]][y[2]] => x = y
    <3> SUFFICES ASSUME NEW x \in alojados' \X PaginasEnteras, NEW y \in alojados' \X PaginasEnteras,
                        slot'[x[1]][x[2]] = slot'[y[1]][y[2]]
                 PROVE  x = y
      OBVIOUS
    <3>1. x \in alojados \X PaginasEnteras /\ y \in alojados \X PaginasEnteras
      BY <1>1
    <3>2. slot'[x[1]] = slot[x[1]] /\ slot'[y[1]] = slot[y[1]]
      BY <2>1
    <3> QED
      BY <2>0, <3>1, <3>2
  <2>3. \A s : s \in SlotsEnUso' <=> \E q \in alojados', g \in PaginasEnteras : s = slot[q][g]
    <3>1. \A s : s \in SlotsEnUso' <=> \E q \in alojados', g \in PaginasEnteras : s = slot'[q][g]
      BY DEF SlotsEnUso
    <3> QED
      BY <2>1, <3>1
  <2>4. ASSUME NEW q \in alojados', NEW g \in PaginasEnteras, NEW h \in Paginas
        PROVE  slot[q][g] # slot[p][h]
    <3>1. q \in alojados /\ q # p /\ slot[q][g] \in Slots
      BY <1>0, <2>1 DEF Tablas, PaginasUbicadas
    <3>2. CASE h \in PaginasEnteras
      <4>1. /\ <<q, g>> \in alojados \X PaginasEnteras /\ <<p, h>> \in alojados \X PaginasEnteras
            /\ <<q, g>>[1] = q /\ <<q, g>>[2] = g /\ <<p, h>>[1] = p /\ <<p, h>>[2] = h
            /\ <<q, g>> # <<p, h>>
        BY <2>p, <3>1, <3>2
      <4> QED
        BY <2>0, <4>1
    <3>3. CASE h \notin PaginasEnteras
      <4>1. slot[p][h] = Nulo
        BY <1>0, <3>3 DEF Tablas, PaginasUbicadas
      <4> QED
        BY <1>a, <3>1, <4>1
    <3> QED
      BY <3>2, <3>3
  <2>5. SlotsEnUso' \subseteq mapaSwap'
    <3> SUFFICES ASSUME NEW q \in alojados', NEW g \in PaginasEnteras PROVE slot[q][g] \in mapaSwap'
      BY <2>3
    <3>1. slot[q][g] \in mapaSwap
      BY <2>0, <2>1, EnUso
    <3>2. slot[q][g] \notin {slot[p][h] : h \in Paginas}
      BY <2>4
    <3> QED
      BY <1>1, <3>1, <3>2
  <2>6. mapaSwap' \ SlotsEnUso' \subseteq UNION BasuraSwap
    <3> SUFFICES ASSUME NEW s \in mapaSwap', s \notin SlotsEnUso' PROVE s \in UNION BasuraSwap
      OBVIOUS
    <3>1. s \in mapaSwap /\ s \notin {slot[p][h] : h \in Paginas}
      BY <1>1
    <3>2. s \notin SlotsEnUso
      <4> SUFFICES ASSUME NEW q \in alojados, NEW g \in PaginasEnteras, s = slot[q][g] PROVE FALSE
        BY EnUso
      <4>1. q # p
        BY <1>a, <3>1
      <4>2. q \in alojados'
        BY <1>1, <4>1
      <4> QED
        BY <2>3, <4>2
    <3> QED
      BY <2>0, <3>1, <3>2
  <2> QED
    BY <2>2, <2>5, <2>6 DEF SlotsExclusivos
<1>16. ColaCoherente'
  <2>1. ASSUME NEW q \in Procesos
        PROVE  /\ SinRepetidos(presentes'[q]) /\ Elementos(presentes'[q]) = presente'[q]
               /\ Cardinality(presente'[q]) <= MarcosPorProceso
    <3>1. CASE q = p
      BY <1>3, <1>6, <3>1, ColaVacia
    <3>2. CASE q # p
      <4>1. /\ SinRepetidos(presentes[q]) /\ Elementos(presentes[q]) = presente[q]
            /\ Cardinality(presente[q]) <= MarcosPorProceso
        BY <1>0, <1>1 DEF Tablas, ColaCoherente
      <4> QED
        BY <1>3, <1>6, <3>2, <4>1
    <3> QED
      BY <3>1, <3>2
  <2> QED
    BY <1>1, <2>1 DEF ColaCoherente
<1>17. AccesoPropio'
  <2> SUFFICES ASSUME acceso # Nulo
               PROVE  /\ tablaFrames'[acceso.marco] # Nulo
                      /\ tablaFrames'[acceso.marco][1] = enCpu /\ acceso.pid = enCpu
    BY <1>1 DEF AccesoPropio
  <2>1. /\ acceso.marco \in Marcos /\ acceso.pid \in Procesos /\ acceso.pid = enCpu
        /\ tablaFrames[acceso.marco] # Nulo /\ tablaFrames[acceso.marco][1] = enCpu
    BY <1>0 DEF TypeOK, Entrada, AccesoPropio
  <2>2. enCpu # p
    BY <1>0, <1>1 DEF FaseCoherente
  <2>3. acceso.marco \notin propios
    BY <1>8, <2>1, <2>2
  <2> QED
    BY <1>9, <2>1, <2>3
<1>18. MarcaConEntrada'
  BY <1>1, <1>2 DEF MarcaConEntrada
<1>19. TLBPropia'
  <2> SUFFICES ASSUME NEW i \in DOMAIN tlb
               PROVE  /\ fase'[tlb[i].pid] \in {"listo", "falla", "cargando"}
                      /\ tablaFrames'[tlb[i].marco] # Nulo
                      /\ tablaFrames'[tlb[i].marco][1] = tlb[i].pid
    BY <1>1 DEF TLBPropia
  <2>1. /\ tlb[i].pid \in Procesos /\ tlb[i].marco \in Marcos
        /\ fase[tlb[i].pid] \in {"listo", "falla", "cargando"}
        /\ tablaFrames[tlb[i].marco] # Nulo /\ tablaFrames[tlb[i].marco][1] = tlb[i].pid
    BY <1>0, Entradas DEF TypeOK, Entrada, TLBPropia
  <2>2. tlb[i].pid # p
    BY <1>1, <2>1
  <2>3. tlb[i].marco \notin propios
    BY <1>8, <2>1, <2>2
  <2> QED
    BY <1>2, <1>9, <2>1, <2>2, <2>3
<1>20. ReintentoNoFalla'
  BY <1>0, <1>1, <1>2, <1>3 DEF ReintentoNoFalla
<1> QED
  BY <1>10, <1>11, <1>12, <1>13, <1>14, <1>15, <1>16, <1>17, <1>18, <1>19, <1>20 DEF Inv, Tablas
-----------------------------------------------------------------------------
(* Every step. *)

LEMMA SinPasos ==
  ASSUME Inv, UNCHANGED vars
  PROVE  Inv'
<1>1. /\ UNCHANGED <<alojados, presente, usado, modificado, marco, slot, presentes>>
      /\ UNCHANGED <<mapaFrames, mapaSwap, tablaFrames, espacio, swap>>
      /\ UNCHANGED <<rutina, pedida, victima, paso, vuelta, marca, caida>>
      /\ UNCHANGED <<tlb, enCpu, fase, falta, acceso, registro>>
  BY DEF vars, memoriaVars, cpuVars, tablaVars, marcosVars, rutinaVars
<1>2. TypeOK'
  <2>1. TypeOK
    BY DEF Inv
  <2> HIDE DEF Inv
  <2>2. TipoMemoria'
    BY <1>1, <2>1, Zenon DEF TypeOK, TipoMemoria
  <2>3. tlb' = tlb /\ enCpu' = enCpu /\ fase' = fase /\ falta' = falta
        /\ acceso' = acceso /\ registro' = registro
    BY <1>1
  <2> QED
    BY <2>1, <2>2, <2>3 DEF TypeOK
<1>3. \A p \in Procesos : FaseCoherente(p)'
  BY <1>1 DEF Inv, FaseCoherente
<1>4. Tablas'
  BY <1>1, TablasIguales DEF Inv, rutinaVars
<1>5. AccesoPropio' /\ MarcaConEntrada' /\ TLBPropia' /\ ReintentoNoFalla'
  BY <1>1 DEF Inv, AccesoPropio, MarcaConEntrada, TLBPropia, ReintentoNoFalla
<1> QED
  BY <1>2, <1>3, <1>4, <1>5 DEF Inv

LEMMA InvSigue == Inv /\ [Next]_vars => Inv'
<1> SUFFICES ASSUME Inv, [Next]_vars PROVE Inv'
  OBVIOUS
<1>1. CASE UNCHANGED vars
  BY <1>1, SinPasos
<1>2. CASE Next
  <2>1. CASE caida = "no" /\ \E p \in Procesos : Cpu(p) \/ PedidosKernel(p)
    <3>1. PICK p \in Procesos : Cpu(p) \/ PedidosKernel(p)
      BY <2>1
    <3> QED
      BY <2>1, <3>1, PasoCpu, PasoCrear, PasoCargar, PasoEmpezar, PasoDestruir DEF PedidosKernel
  <2>2. CASE caida = "no" /\ RutinaKernel
    BY <2>2, PasoElegir, PasoReemplazar DEF RutinaKernel
  <2>3. CASE caida = "no" /\ RutinaCpu
    BY <2>3, PasoAcceso
  <2>4. CASE Detenido
    BY <2>4, SinPasos DEF Detenido
  <2> QED
    BY <1>2, <2>1, <2>2, <2>3, <2>4 DEF Next
<1> QED
  BY <1>1, <1>2

LEMMA InvSiempre == Spec => []Inv
BY InvInicial, InvSigue, PTL DEF Spec

(* Type correctness: in particular the TLB is never longer than            *)
(* ENTRADAS_TLB, and what a MOV reads is always a value.                   *)
THEOREM TipoCorrecto == Spec => []TypeOK
<1>1. Inv => TypeOK
  BY DEF Inv
<1> QED
  BY <1>1, InvSiempre, PTL

(* Page tables, TablaFrames, the bitmaps and the slots tell the same story *)
(* after any sequence of creations, faults, replacements and exits.        *)
THEOREM TablasCorrectas == Spec => []TablasCoherentes
<1>1. Inv => TablasCoherentes
  BY DEF Inv, Tablas, TablasCoherentes
<1> QED
  BY <1>1, InvSiempre, PTL

(* The queue of the clock holds each page in memory once, and no process   *)
(* has more frames than MARCOS_POR_PROCESO.                                *)
THEOREM ColaCorrecta == Spec => []ColaCoherente
<1>1. Inv => ColaCoherente
  BY DEF Inv, Tablas
<1> QED
  BY <1>1, InvSiempre, PTL

(* A stale entry of the TLB names a frame of the process it was made for.  *)
THEOREM TLBCorrecta == Spec => []TLBPropia
<1>1. Inv => TLBPropia
  BY DEF Inv
<1> QED
  BY <1>1, InvSiempre, PTL

(* The page of a fault is in memory when its process runs again.           *)
THEOREM ReintentoCorrecto == Spec => []ReintentoNoFalla
<1>1. Inv => ReintentoNoFalla
  BY DEF Inv
<1> QED
  BY <1>1, InvSiempre, PTL

-----------------------------------------------------------------------------
(* Why Memoria stops.  The processes with memory are finitely many.        *)

LEMMA AlojadosContados ==
  ASSUME Inv
  PROVE  /\ IsFiniteSet(alojados) /\ Cardinality(alojados) \in Nat
         /\ \A p \in alojados : /\ IsFiniteSet(alojados \ {p})
                                /\ Cardinality(alojados \ {p}) = Cardinality(alojados) - 1
<1>1. IsFiniteSet(alojados)
  BY SupuestosMemoria, FS_Subset DEF SupuestosMemoria, Inv, TypeOK, TipoMemoria
<1>2. Cardinality(alojados) \in Nat
  BY <1>1, FS_CardinalityType
<1>3. ASSUME NEW p \in alojados
      PROVE  IsFiniteSet(alojados \ {p}) /\ Cardinality(alojados \ {p}) = Cardinality(alojados) - 1
  BY <1>1, FS_RemoveElement
<1> QED
  BY <1>1, <1>2, <1>3

LEMMA Rangos ==
  /\ IsFiniteSet(Slots) /\ Cardinality(Slots) = CantSlots
  /\ IsFiniteSet(Marcos) /\ Cardinality(Marcos) = CantMarcos
  /\ IsFiniteSet(1 .. MarcosPorProceso) /\ Cardinality(1 .. MarcosPorProceso) = MarcosPorProceso
<1>1. ASSUME NEW n \in Nat
      PROVE  /\ IsFiniteSet(0 .. (n - 1)) /\ Cardinality(0 .. (n - 1)) = n
             /\ IsFiniteSet(1 .. n) /\ Cardinality(1 .. n) = n
  <2>1. 0 \in Int /\ 1 \in Int /\ n \in Int /\ n - 1 \in Int
    OBVIOUS
  <2>2. IsFiniteSet(0 .. (n - 1)) /\ Cardinality(0 .. (n - 1)) = IF 0 > n - 1 THEN 0 ELSE (n - 1) - 0 + 1
    BY <2>1, FS_Interval
  <2>3. IsFiniteSet(1 .. n) /\ Cardinality(1 .. n) = IF 1 > n THEN 0 ELSE n - 1 + 1
    BY <2>1, FS_Interval
  <2> QED
    BY <2>2, <2>3
<1>2. CantSlots \in Nat /\ CantMarcos \in Nat /\ MarcosPorProceso \in Nat
  BY SupuestosMemoria DEF SupuestosMemoria
<1> QED
  BY <1>1, <1>2 DEF Slots, Marcos

(* A process finds too few free slots only if those of the live ones and   *)
(* of the bitmap of malloc leave too few.                                  *)
LEMMA FaltaSlot ==
  ASSUME Inv, Cardinality(PaginasEnteras) > Cardinality(Slots \ mapaSwap)
  PROVE  CantSlots < (Cardinality(alojados) + 1) * Cardinality(PaginasEnteras)
                       + Cardinality(UNION BasuraSwap)
<1> DEFINE E == PaginasEnteras
           B == UNION BasuraSwap
           X == alojados \X E
           f == [x \in X |-> slot[x[1]][x[2]]]
<1>1. /\ IsFiniteSet(E) /\ Cardinality(E) \in Nat /\ CantSlots \in Nat
      /\ Cardinality(Slots) = CantSlots /\ IsFiniteSet(Slots)
  <2>1. IsFiniteSet(E) /\ Cardinality(E) \in Nat
    BY PaginasContadas, SupuestosMemoria DEF SupuestosMemoria
  <2> QED
    BY <2>1, Rangos, SupuestosMemoria DEF SupuestosMemoria
<1>2. IsFiniteSet(alojados) /\ Cardinality(alojados) \in Nat
  BY AlojadosContados
<1>3. IsFiniteSet(X) /\ Cardinality(X) = Cardinality(alojados) * Cardinality(E)
  BY <1>1, <1>2, FS_Product
<1>4. f \in Surjection(X, SlotsEnUso)
  <2>1. ASSUME NEW x \in X PROVE f[x] \in SlotsEnUso
    BY EnUso
  <2>2. ASSUME NEW s \in SlotsEnUso PROVE \E x \in X : f[x] = s
    <3>1. PICK p \in alojados, g \in E : s = slot[p][g]
      BY EnUso
    <3>2. <<p, g>> \in X /\ f[<<p, g>>] = s
      BY <3>1
    <3> QED
      BY <3>2
  <2> QED
    BY <2>1, <2>2 DEF Surjection
<1>5. IsFiniteSet(SlotsEnUso) /\ Cardinality(SlotsEnUso) <= Cardinality(X)
  BY <1>3, <1>4, FS_Surjection
<1>6. B \subseteq Slots /\ mapaSwap \subseteq Slots /\ mapaSwap \subseteq SlotsEnUso \cup B
  BY SupuestosMemoria DEF SupuestosMemoria, Inv, TypeOK, TipoMemoria, Tablas, SlotsExclusivos
<1>7. IsFiniteSet(B) /\ IsFiniteSet(mapaSwap)
  BY <1>1, <1>6, FS_Subset
<1> HIDE DEF X, f, B
<1>8. IsFiniteSet(SlotsEnUso \cap B) /\ IsFiniteSet(SlotsEnUso \cup B)
      /\ Cardinality(SlotsEnUso \cup B)
           = Cardinality(SlotsEnUso) + Cardinality(B) - Cardinality(SlotsEnUso \cap B)
  <2>1. IsFiniteSet(SlotsEnUso \cap B)
    BY <1>5, FS_Subset, SlotsEnUso \cap B \subseteq SlotsEnUso
  <2> QED
    BY <1>5, <1>7, <2>1, FS_Union
<1>9. Cardinality(mapaSwap) <= Cardinality(SlotsEnUso \cup B)
  BY <1>6, <1>8, FS_Subset
<1>10. Cardinality(Slots \ mapaSwap) = CantSlots - Cardinality(mapaSwap)
  <2>1. Slots \cap mapaSwap = mapaSwap
    BY <1>6
  <2>2. Cardinality(Slots \ mapaSwap) = Cardinality(Slots) - Cardinality(Slots \cap mapaSwap)
    BY <1>1, FS_Difference
  <2> QED
    BY <1>1, <2>1, <2>2
<1>11. /\ Cardinality(SlotsEnUso) \in Nat /\ Cardinality(B) \in Nat /\ Cardinality(mapaSwap) \in Nat
       /\ Cardinality(SlotsEnUso \cap B) \in Nat /\ Cardinality(X) \in Nat
       /\ Cardinality(SlotsEnUso \cup B) \in Nat
  BY <1>3, <1>5, <1>7, <1>8, FS_CardinalityType
<1>12. CantSlots < Cardinality(X) + Cardinality(E) + Cardinality(B)
  BY <1>1, <1>5, <1>8, <1>9, <1>10, <1>11
<1>13. (Cardinality(alojados) + 1) * Cardinality(E) = Cardinality(X) + Cardinality(E)
  <2>1. \A a, b \in Nat : (a + 1) * b = a * b + b
    OBVIOUS
  <2> QED
    BY <1>1, <1>2, <1>3, <2>1
<1> QED
  BY <1>12, <1>13 DEF B

(* A process with no page to give finds the frames full of those of the    *)
(* others, who have no more than their maximum.                            *)
LEMMA FaltaVictima ==
  ASSUME Inv, rutina = "elige", presentes[pedida[1]] = <<>>
  PROVE  CantMarcos <= (Cardinality(alojados) - 1) * MarcosPorProceso
<1> DEFINE L(q) == Len(presentes[q])
<1>0. /\ TypeOK /\ TipoMemoria /\ Tablas /\ MarcosPorProceso \in Nat \ {0}
  BY SupuestosMemoria DEF Inv, TypeOK, SupuestosMemoria
<1>1. PICK p \in Procesos : p = pedida[1] /\ p \in alojados
  BY PedidaAfuera
<1>2. MemoriaEstaLlena
  <2>1. Len(presentes[p]) = 0
    BY <1>1
  <2> QED
    BY <1>0, <1>1, <2>1 DEF Tablas, RutinaCoherente
<1>3. ASSUME NEW q \in Procesos
      PROVE  /\ presentes[q] \in Seq(Paginas) /\ Elementos(presentes[q]) = presente[q]
             /\ Len(presentes[q]) <= MarcosPorProceso
             /\ DOMAIN presentes[q] = 1 .. Len(presentes[q]) /\ Len(presentes[q]) \in Nat
  <2>1. /\ SinRepetidos(presentes[q]) /\ Elementos(presentes[q]) = presente[q]
        /\ Cardinality(presente[q]) <= MarcosPorProceso
    BY <1>0 DEF Tablas, ColaCoherente
  <2>2. presentes[q] \in Seq(Paginas)
    BY <1>0 DEF TipoMemoria
  <2> QED
    BY <2>1, <2>2, LenProperties DEF SinRepetidos
<1>4. presente[p] = {}
  <2>1. Elementos(<<>>) = {}
    BY ColaVacia
  <2> QED
    BY <1>1, <1>3, <2>1
<1> DEFINE A == alojados \ {p}
           X == A \X (1 .. MarcosPorProceso)
           lugar(m) == CHOOSE i \in DOMAIN presentes[tablaFrames[m][1]] :
                         presentes[tablaFrames[m][1]][i] = tablaFrames[m][2]
           f == [m \in Marcos |-> <<tablaFrames[m][1], lugar(m)>>]
<1>5. ASSUME NEW m \in Marcos
      PROVE  /\ tablaFrames[m][1] \in A
             /\ lugar(m) \in 1 .. MarcosPorProceso
             /\ presentes[tablaFrames[m][1]][lugar(m)] = tablaFrames[m][2]
             /\ marco[tablaFrames[m][1]][tablaFrames[m][2]] = m
  <2>1. tablaFrames[m] # Nulo /\ m \in Ocupados
    BY <1>2 DEF MemoriaEstaLlena, Ocupados
  <2>2. PICK q \in Procesos, g \in Paginas : tablaFrames[m][1] = q /\ tablaFrames[m][2] = g
    BY <1>0, <2>1 DEF TipoMemoria
  <2>3. q \in alojados /\ g \in presente[q] /\ marco[q][g] = m
    BY <1>0, <2>1, <2>2 DEF Tablas, MarcosCoherentes
  <2>4. \E i \in DOMAIN presentes[q] : presentes[q][i] = g
    BY <1>3, <2>3 DEF Elementos
  <2>5. lugar(m) \in DOMAIN presentes[q] /\ presentes[q][lugar(m)] = g
    BY <2>2, <2>4
  <2> HIDE DEF lugar
  <2>6. lugar(m) \in 1 .. MarcosPorProceso
    BY <1>0, <1>3, <2>5
  <2> QED
    BY <1>4, <2>2, <2>3, <2>5, <2>6
<1> HIDE DEF lugar, A
<1>6. f \in Injection(Marcos, X)
  <2>1. f \in [Marcos -> X]
    BY <1>5
  <2>2. ASSUME NEW m \in Marcos, NEW n \in Marcos, f[m] = f[n] PROVE m = n
    <3>1. tablaFrames[m][1] = tablaFrames[n][1] /\ lugar(m) = lugar(n)
      BY <2>2
    <3>2. tablaFrames[m][2] = tablaFrames[n][2]
      BY <1>5, <3>1
    <3> QED
      BY <1>5, <3>1, <3>2
  <2> QED
    BY <2>1, <2>2 DEF Injection, IsInjective
<1>7. IsFiniteSet(A) /\ Cardinality(A) = Cardinality(alojados) - 1
  BY <1>1, AlojadosContados DEF A
<1>8. IsFiniteSet(X) /\ Cardinality(X) = Cardinality(A) * MarcosPorProceso
  BY <1>7, Rangos, FS_Product
<1>9. Cardinality(Marcos) <= Cardinality(X)
  BY <1>6, <1>8, FS_Injection
<1> QED
  BY <1>7, <1>8, <1>9, Rangos

(* No frame is free in the bitmap, and one is in the table: the bitmap     *)
(* marks more frames than there are in use.                                *)
LEMMA FaltaMarco ==
  ASSUME Inv, Marcos \subseteq mapaFrames, ~MemoriaEstaLlena
  PROVE  Cardinality(Ocupados) < Cardinality(mapaFrames)
<1>1. mapaFrames = Marcos /\ Ocupados \subseteq Marcos /\ Ocupados # Marcos
  BY DEF Inv, TypeOK, TipoMemoria, MemoriaEstaLlena, Ocupados
<1>2. /\ IsFiniteSet(Ocupados) /\ Cardinality(Ocupados) <= Cardinality(Marcos)
      /\ Cardinality(Ocupados) # Cardinality(Marcos)
  BY <1>1, Rangos, FS_Subset
<1>3. Cardinality(Ocupados) \in Nat /\ Cardinality(Marcos) \in Nat
  BY <1>2, Rangos, FS_CardinalityType
<1> QED
  BY <1>1, <1>2, <1>3

(* Memoria stops only when the processes it has need more slots or frames  *)
(* than there are, or malloc left marks in a bitmap, or a process ended    *)
(* before its last access was marked.                                      *)
THEOREM CausasCorrectas == Spec => []CausasDeCaida
<1>1. Init => CausasDeCaida
  BY DEF Init, InitMemoria, CausasDeCaida
<1>2. Inv /\ CausasDeCaida /\ [Next]_vars => CausasDeCaida'
  <2> SUFFICES ASSUME Inv, CausasDeCaida, [Next]_vars PROVE CausasDeCaida'
    OBVIOUS
  <2>1. CASE UNCHANGED vars
    BY <2>1 DEF CausasDeCaida, Ocupados, vars, memoriaVars, cpuVars, tablaVars, marcosVars
  <2>2. CASE caida = "no" /\ UNCHANGED caida
    BY <2>2 DEF CausasDeCaida
  <2>3. ASSUME caida = "no", NEW p \in Procesos, Crear(p) PROVE CausasDeCaida'
    <3>1. CASE Cardinality(PaginasEnteras) > Cardinality(Slots \ mapaSwap)
      <4>1. caida' = "sin slot" /\ alojados' = alojados
        BY <2>3, <3>1 DEF Crear, NuevoProceso
      <4> QED
        BY <3>1, <4>1, FaltaSlot DEF CausasDeCaida
    <3>2. CASE ~(Cardinality(PaginasEnteras) > Cardinality(Slots \ mapaSwap))
      BY <2>2, <2>3, <3>2 DEF Crear, NuevoProceso
    <3> QED
      BY <3>1, <3>2
  <2>4. ASSUME caida = "no", NEW p \in Procesos, AtenderFaltaLibre(p) PROVE CausasDeCaida'
    <3>1. CASE Marcos \subseteq mapaFrames
      <4>1. /\ caida' = "sin marco" /\ ~MemoriaEstaLlena
            /\ mapaFrames' = mapaFrames /\ tablaFrames' = tablaFrames
        BY <2>4, <3>1 DEF AtenderFaltaLibre, CargarEnMarcoLibre
      <4>2. Cardinality(Ocupados) < Cardinality(mapaFrames)
        BY <3>1, <4>1, FaltaMarco
      <4>3. Ocupados' = Ocupados
        BY <4>1 DEF Ocupados
      <4> QED
        BY <4>1, <4>2, <4>3 DEF CausasDeCaida
    <3>2. CASE ~(Marcos \subseteq mapaFrames)
      BY <2>2, <2>4, <3>2 DEF AtenderFaltaLibre, CargarEnMarcoLibre
    <3> QED
      BY <3>1, <3>2
  <2>5. CASE caida = "no" /\ QuedarSinVictima
    <3>1. caida' = "sin victima" /\ alojados' = alojados
      BY <2>5 DEF QuedarSinVictima, tablaVars
    <3>2. CantMarcos <= (Cardinality(alojados) - 1) * MarcosPorProceso
      BY <2>5, FaltaVictima DEF QuedarSinVictima
    <3> QED
      BY <3>1, <3>2 DEF CausasDeCaida
  <2>6. CASE caida = "no" /\ Marcar
    <3>1. CASE tablaFrames[marca.marco] = Nulo
      <4>1. caida' = "sin entrada" /\ fase' = fase /\ marca # Nulo
        BY <2>6, <3>1 DEF Marcar, MarcarPaginaUsada, cpuVars
      <4>2. \E q \in Procesos : fase[q] = "fin"
        BY <3>1, <4>1 DEF Inv, MarcaConEntrada
      <4> QED
        BY <4>1, <4>2 DEF CausasDeCaida
    <3>2. CASE tablaFrames[marca.marco] # Nulo
      BY <2>2, <2>6, <3>2 DEF Marcar, MarcarPaginaUsada
    <3> QED
      BY <3>1, <3>2
  <2>7. ASSUME NEW p \in Procesos, Cpu(p) \/ AtenderFaltaReemplazo(p) \/ Destruir(p)
        PROVE  UNCHANGED caida
    BY <2>7 DEF Cpu, Despachar, Desalojar, Salir, TraducirAcierto, TraducirFallo, memoriaVars,
                AtenderFaltaReemplazo, EmpezarReemplazo, Destruir, LiberarProceso
  <2>8. ASSUME Clock \/ ClockMejorado \/ Reemplazar \/ Leer \/ \E v \in Valores : Escribir(v)
        PROVE  UNCHANGED caida
    BY <2>8 DEF Clock, ClockMejorado, Reemplazar, ReemplazarPagina, Leer, MovIn, Escribir, MovOut
  <2>9. CASE Next
    BY <2>1, <2>2, <2>3, <2>4, <2>5, <2>6, <2>7, <2>8, <2>9
       DEF Next, PedidosKernel, RutinaKernel, ElegirVictima, RutinaCpu, Detenido
  <2> QED
    BY <2>1, <2>9
<1> QED
  BY <1>1, <1>2, InvSiempre, PTL DEF Spec
=============================================================================
