-------------------------- MODULE TraduccionProofs --------------------------
(***************************************************************************)
(* Facts about the addresses of the MMU for every size of page and number  *)
(* of entries of a table: the translation loses nothing, the check of the  *)
(* segment is exact, and aligned words stay in their frame.                *)
(***************************************************************************)
EXTENDS Traduccion, Integers, TLAPS

-----------------------------------------------------------------------------
(* Arithmetic. *)

(* What the quotient and the remainder are. *)

LEMMA Division ==
    ASSUME NEW a \in Nat, NEW b \in Nat \ {0}
    PROVE  /\ a \div b \in Nat
           /\ a % b \in 0..(b - 1)
           /\ a = b * (a \div b) + (a % b)
  OBVIOUS

(* A number whose remainder is 0 is a multiple. *)
LEMMA Multiplo ==
    ASSUME NEW a \in Nat, NEW b \in Nat \ {0}, a % b = 0
    PROVE  \E q \in Nat : a = b * q
<1>1. a \div b \in Nat /\ a = b * (a \div b) + (a % b)
  BY Division
<1> QED
  BY <1>1

(* One multiple more is at least b more. *)
LEMMA Orden ==
    ASSUME NEW b \in Nat \ {0}, NEW q \in Nat, NEW n \in Nat, q < n
    PROVE  b * q + b <= b * n
<1>1. q + 1 <= n
  OBVIOUS
<1>2. PICK k \in Nat : n = q + 1 + k
  <2>1. n - (q + 1) \in Nat /\ n = q + 1 + (n - (q + 1))
    BY <1>1
  <2> QED
    BY <2>1
<1>3. b * n = b * q + b + b * k /\ b * k \in Nat
  BY <1>2
<1> QED
  BY <1>3

(* The quotient and the remainder are determined by the number. *)
LEMMA Unica ==
    ASSUME NEW b \in Nat \ {0}, NEW q1 \in Nat, NEW q2 \in Nat,
           NEW r1 \in 0..(b - 1), NEW r2 \in 0..(b - 1),
           b * q1 + r1 = b * q2 + r2
    PROVE  q1 = q2 /\ r1 = r2
<1>0. b * q1 \in Nat /\ b * q2 \in Nat
  OBVIOUS
<1>1. ~(q1 < q2)
  <2> SUFFICES ASSUME q1 < q2 PROVE FALSE
    OBVIOUS
  <2>1. b * q1 + b <= b * q2
    BY Orden
  <2> QED
    BY <2>1, <1>0
<1>2. ~(q2 < q1)
  <2> SUFFICES ASSUME q2 < q1 PROVE FALSE
    OBVIOUS
  <2>1. b * q2 + b <= b * q1
    BY Orden
  <2> QED
    BY <2>1, <1>0
<1>3. q1 = q2
  BY <1>1, <1>2
<1> QED
  BY <1>3, <1>0

-----------------------------------------------------------------------------
(* Addresses. *)

(* The sizes are positive. *)
LEMMA Tamanios ==
    /\ TamPagina \in Nat \ {0} /\ EntradasTabla \in Nat \ {0}
    /\ TamMaxSegmento \in Nat \ {0}
    /\ TamMaxSegmento = TamPagina * EntradasTabla
  BY SupuestosTraduccion DEF TamMaxSegmento

(* An address is its segment and offset, and an offset its page and offset. *)
LEMMA Descomposicion ==
    ASSUME NEW d \in Nat
    PROVE  /\ NumSegmento(d) \in Nat /\ NumPagina(d) \in Nat
           /\ DespSegmento(d) \in 0..(TamMaxSegmento - 1)
           /\ DespPagina(d) \in 0..(TamPagina - 1)
           /\ d = TamMaxSegmento * NumSegmento(d) + DespSegmento(d)
           /\ DespSegmento(d) = TamPagina * NumPagina(d) + DespPagina(d)
<1>1. /\ d \div TamMaxSegmento \in Nat
      /\ d % TamMaxSegmento \in 0..(TamMaxSegmento - 1)
      /\ d = TamMaxSegmento * (d \div TamMaxSegmento) + (d % TamMaxSegmento)
  BY Division, Tamanios
<1>2. DespSegmento(d) \in Nat
  BY <1>1, Tamanios DEF DespSegmento
<1>3. /\ DespSegmento(d) \div TamPagina \in Nat
      /\ DespSegmento(d) % TamPagina \in 0..(TamPagina - 1)
      /\ DespSegmento(d) = TamPagina * (DespSegmento(d) \div TamPagina)
                              + (DespSegmento(d) % TamPagina)
  BY <1>2, Division, Tamanios
<1>4. /\ NumSegmento(d) \in Nat /\ DespSegmento(d) \in 0..(TamMaxSegmento - 1)
      /\ d = TamMaxSegmento * NumSegmento(d) + DespSegmento(d)
  BY <1>1 DEF NumSegmento, DespSegmento
<1>5. /\ NumPagina(d) \in Nat /\ DespPagina(d) \in 0..(TamPagina - 1)
      /\ DespSegmento(d) = TamPagina * NumPagina(d) + DespPagina(d)
  BY <1>3 DEF NumPagina, DespPagina
<1> QED
  BY <1>4, <1>5

(* The elements of a sequence. *)
LEMMA Sucesion ==
    ASSUME NEW S, NEW s \in Seq(S)
    PROVE  /\ Len(s) \in Nat /\ DOMAIN s = 1..Len(s)
           /\ \A i \in 1..Len(s) : s[i] \in S
  OBVIOUS

-----------------------------------------------------------------------------
(* Results. *)

(* traducciones never computes a page beyond the table of its segment, nor *)
(* an offset beyond the page, whatever the address of the instruction.     *)
THEOREM PartesDeDireccion ==
    ASSUME NEW d \in Nat
    PROVE  /\ NumSegmento(d) \in Nat
           /\ DespSegmento(d) \in 0..(TamMaxSegmento - 1)
           /\ NumPagina(d) \in 0..(EntradasTabla - 1)
           /\ DespPagina(d) \in 0..(TamPagina - 1)
<1>1. DespSegmento(d) \in 0..(TamMaxSegmento - 1)
  BY Descomposicion
<1>3. /\ NumPagina(d) \in Nat /\ DespPagina(d) \in 0..(TamPagina - 1)
      /\ DespSegmento(d) = TamPagina * NumPagina(d) + DespPagina(d)
  BY Descomposicion
<1>4. ~(EntradasTabla <= NumPagina(d))
  <2> SUFFICES ASSUME EntradasTabla <= NumPagina(d) PROVE FALSE
    OBVIOUS
  <2>1. TamPagina * EntradasTabla <= TamPagina * NumPagina(d)
    <3>1. CASE EntradasTabla = NumPagina(d)
      BY <3>1, <1>3, Tamanios
    <3>2. CASE EntradasTabla < NumPagina(d)
      <4>1. TamPagina * EntradasTabla + TamPagina <= TamPagina * NumPagina(d)
        BY <3>2, <1>3, Orden, Tamanios
      <4>2. TamPagina * EntradasTabla \in Nat /\ TamPagina * NumPagina(d) \in Nat
        BY <1>3, Tamanios
      <4> QED
        BY <4>1, <4>2, Tamanios
    <3> QED
      BY <3>1, <3>2, <1>3, Tamanios
  <2>2. TamPagina * NumPagina(d) \in Nat
    BY <1>3, Tamanios
  <2> QED
    BY <2>1, <2>2, <1>1, <1>3, Tamanios
<1> QED
  BY <1>3, <1>4, Descomposicion, Tamanios

(* Two addresses never name the same place of the same page of a segment:  *)
(* what a program writes at one is not found at another.                   *)
THEOREM CasillaInyectiva ==
    ASSUME NEW d \in Nat, NEW e \in Nat, Casilla(d) = Casilla(e)
    PROVE  d = e
<1>1. /\ NumSegmento(d) = NumSegmento(e) /\ NumPagina(d) = NumPagina(e)
      /\ DespPagina(d) = DespPagina(e)
  BY DEF Casilla
<1>2. DespSegmento(d) = DespSegmento(e)
  BY <1>1, Descomposicion
<1> QED
  BY <1>1, <1>2, Descomposicion

(* The check of traducciones lets through exactly the addresses of the     *)
(* segments, which follow one another every TamMaxSegmento bytes; segments *)
(* are not longer than that.                                               *)
THEOREM ChequeoExacto ==
    ASSUME NEW d \in Nat, NEW tamanios \in Seq(0..TamMaxSegmento)
    PROVE  ~SegFault(d, tamanios) <=>
             \E s \in DOMAIN tamanios :
                /\ (s - 1) * TamMaxSegmento <= d
                /\ d < (s - 1) * TamMaxSegmento + tamanios[s]
<1>1. PICK n \in Nat, r \in 0..(TamMaxSegmento - 1) :
         /\ n = NumSegmento(d) /\ r = DespSegmento(d)
         /\ d = TamMaxSegmento * n + r
  BY Descomposicion
<1>2. /\ Len(tamanios) \in Nat /\ DOMAIN tamanios = 1..Len(tamanios)
      /\ \A s \in 1..Len(tamanios) : tamanios[s] \in 0..TamMaxSegmento
  BY Sucesion
<1>3. SegFault(d, tamanios) <=> n >= Len(tamanios) \/ r >= tamanios[n + 1]
  BY <1>1 DEF SegFault
<1>4. ASSUME ~SegFault(d, tamanios)
      PROVE  \E s \in DOMAIN tamanios :
                /\ (s - 1) * TamMaxSegmento <= d
                /\ d < (s - 1) * TamMaxSegmento + tamanios[s]
  <2>1. n < Len(tamanios)
    BY <1>2, <1>3, <1>4
  <2>2. n + 1 \in 1..Len(tamanios)
    BY <2>1, <1>2
  <2>3. PICK tam \in Nat : tam = tamanios[n + 1]
    BY <2>2, <1>2, Tamanios
  <2>4. r < tam
    BY <2>3, <1>3, <1>4, Tamanios
  <2>5. PICK m \in Nat : m = TamMaxSegmento * n /\ m = ((n + 1) - 1) * TamMaxSegmento
    <3>1. TamMaxSegmento * n \in Nat /\ (n + 1) - 1 = n /\ TamMaxSegmento * n = n * TamMaxSegmento
      BY Tamanios
    <3> QED
      BY <3>1
  <2>6. d = m + r /\ r \in Nat
    BY <2>5, <1>1, Tamanios
  <2>7. m <= d /\ d < m + tam
    BY <2>4, <2>6
  <2> QED
    BY <2>2, <2>3, <2>5, <2>7, <1>2
<1>5. ASSUME NEW s \in DOMAIN tamanios,
             (s - 1) * TamMaxSegmento <= d, d < (s - 1) * TamMaxSegmento + tamanios[s]
      PROVE  ~SegFault(d, tamanios)
  <2>1. PICK q \in Nat : s = q + 1
    <3>1. s - 1 \in Nat /\ s = (s - 1) + 1
      BY <1>2
    <3> QED
      BY <3>1
  <2>2. PICK tam \in 0..TamMaxSegmento : tam = tamanios[s]
    BY <1>2
  <2>3. PICK m \in Nat : m = TamMaxSegmento * q /\ m = (s - 1) * TamMaxSegmento
    <3>1. TamMaxSegmento * q \in Nat /\ s - 1 = q /\ TamMaxSegmento * q = q * TamMaxSegmento
      BY <2>1, Tamanios
    <3> QED
      BY <3>1
  <2>4. m <= d /\ d < m + tam
    BY <1>5, <2>2, <2>3
  <2>5. PICK t \in Nat : d = m + t /\ t < tam
    <3>1. d - m \in Nat /\ d = m + (d - m) /\ d - m < tam
      BY <2>4, Tamanios
    <3> QED
      BY <3>1
  <2>6. t \in 0..(TamMaxSegmento - 1)
    BY <2>5, Tamanios
  <2>7. n = q /\ r = t
    <3>1. TamMaxSegmento * n + r = m + t
      BY <2>5, <1>1
    <3>2. TamMaxSegmento * n + r = TamMaxSegmento * q + t
      BY <3>1, <2>3
    <3>3. TamMaxSegmento \in Nat \ {0}
      BY Tamanios
    <3>4. n \in Nat /\ r \in 0..(TamMaxSegmento - 1)
      BY <1>1
    <3> QED
      BY <3>2, <3>3, <3>4, <2>1, <2>6, Unica
  <2>8. q < Len(tamanios)
    BY <2>1, <1>2
  <2> QED
    BY <2>1, <2>2, <2>5, <2>7, <2>8, <1>2, <1>3, Tamanios
<1> QED
  BY <1>4, <1>5

(* calcularDirecFisica gives two places of the memory the same physical    *)
(* address only if they are the same place of the same frame.              *)
THEOREM MarcosDisjuntos ==
    ASSUME NEW m1 \in Nat, NEW m2 \in Nat,
           NEW d1 \in 0..(TamPagina - 1), NEW d2 \in 0..(TamPagina - 1),
           DirecFisica(m1, d1) = DirecFisica(m2, d2)
    PROVE  m1 = m2 /\ d1 = d2
<1>1. TamPagina * m1 + d1 = TamPagina * m2 + d2
  BY Tamanios DEF DirecFisica
<1> QED
  BY <1>1, Unica, Tamanios

(* A word of w bytes (4 in MOV_IN and MOV_OUT) at an address that is a     *)
(* multiple of w does not cross to the next frame, when the size of a page *)
(* is a multiple of w too.  Nothing in mmu.c checks either.                *)
THEOREM PalabraEnMarco ==
    ASSUME NEW d \in Nat, NEW w \in Nat \ {0}, d % w = 0, TamPagina % w = 0
    PROVE  DespPagina(d) + w <= TamPagina
<1>1. PICK p \in Nat : TamPagina = w * p
  BY Multiplo, Tamanios
<1>2. PICK k \in Nat : d = w * k
  BY Multiplo
<1>3. /\ NumSegmento(d) \in Nat /\ NumPagina(d) \in Nat /\ DespPagina(d) \in 0..(TamPagina - 1)
      /\ d = TamMaxSegmento * NumSegmento(d) + (TamPagina * NumPagina(d) + DespPagina(d))
  BY Descomposicion
<1> DEFINE a == EntradasTabla * NumSegmento(d) + NumPagina(d)
<1>4. a \in Nat /\ d = TamPagina * a + DespPagina(d)
  BY <1>3, Tamanios
<1>5. w * k = w * (p * a) + DespPagina(d) /\ p * a \in Nat
  BY <1>1, <1>2, <1>4
<1>6. PICK j \in Int : DespPagina(d) = w * j
  <2> HIDE DEF a
  <2>1. DespPagina(d) = w * k - w * (p * a) /\ p * a \in Nat
    BY <1>5, <1>3, Tamanios
  <2>2. k - p * a \in Int /\ w * (k - p * a) = w * k - w * (p * a)
    BY <1>5
  <2> QED
    BY <2>1, <2>2
<1>7. j < p
  <2> SUFFICES ASSUME p <= j PROVE FALSE
    OBVIOUS
  <2>1. PICK i \in Nat : j = p + i
    <3>1. j - p \in Nat /\ j = p + (j - p)
      OBVIOUS
    <3> QED BY <3>1
  <2>2. w * j = w * p + w * i /\ w * i \in Nat /\ w * p \in Nat
    BY <2>1
  <2> QED
    BY <2>2, <1>1, <1>3, <1>6, Tamanios
<1>8. PICK i \in Nat : p = j + 1 + i
  <2>1. p - (j + 1) \in Nat /\ p = j + 1 + (p - (j + 1))
    BY <1>7
  <2> QED BY <2>1
<1>9. w * p = w * j + w + w * i /\ w * i \in Nat
  BY <1>8
<1> QED
  BY <1>9, <1>1, <1>6
=============================================================================
