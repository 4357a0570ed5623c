------------------------- MODULE MemoriaAislamiento -------------------------
(***************************************************************************)
(* What a program finds in its pages, proved for every size of the         *)
(* virtual memory when its segments are whole numbers of pages.  First     *)
(* that only the process itself changes what it wrote in its pages,        *)
(* whatever the TLB names; then that, without a TLB, programs, frames and  *)
(* swap are an implementation of the memory of MemoriaLogica.  The tables  *)
(* of MemoriaProofs keep the pages apart: this invariant says where the    *)
(* last value of each page that was written is.                            *)
(***************************************************************************)
EXTENDS MemoriaProofs, MemoriaEscrituras

EscritasVivas == escritas \subseteq alojados \X Paginas

(* The file reaches the slot of a page that was written and is not in      *)
(* memory; it may not reach those of the other pages.                      *)
Guardadas ==
    \A p \in alojados : \A g \in Paginas \ presente[p] :
        <<p, g>> \in escritas => swap[slot[p][g]] # Nulo

(* A page whose slot is out of date is known to be modified, or will be as *)
(* soon as cpu_routine marks the write that it has answered.               *)
PorMarcar(f) == marca # Nulo /\ marca.escritura /\ marca.marco = f

CopiasAlDia ==
    \A p \in alojados : \A g \in presente[p] : <<p, g>> \in escritas =>
        \/ g \in modificado[p]
        \/ espacio[marco[p][g]] = swap[slot[p][g]]
        \/ PorMarcar(marco[p][g])

(* That mark comes before any fault of the process that wrote, since the   *)
(* CPU asks for the frame of a page through the same thread.               *)
MarcaSinFalta ==
    marca # Nulo /\ tablaFrames[marca.marco] # Nulo =>
        fase[tablaFrames[marca.marco][1]] \in {"listo", "sale"}

Contenidos == EscritasVivas /\ Guardadas /\ CopiasAlDia /\ MarcaSinFalta

(* What a step leaves in the pages of those that are there before and      *)
(* after it.                                                               *)
Intacto == \A p \in alojados \cap alojados' : ContenidoDe(p)' = ContenidoDe(p)

(* Without a TLB the CPU goes to the frame that it was just given.         *)
AccesoDirecto == tlb = <<>> /\ AccesoVigente

-----------------------------------------------------------------------------
(* Where the pages of live processes are, and that none shares its place.  *)

LEMMA Lugares ==
  ASSUME PaginasEnteras = Paginas, Inv
  PROVE  /\ alojados \subseteq Procesos /\ Nulo \notin Valores
         /\ \A p \in alojados : \A g \in Paginas : slot[p][g] \in Slots
         /\ \A p \in alojados : \A g \in presente[p] :
              /\ g \in Paginas /\ marco[p][g] \in Marcos /\ espacio[marco[p][g]] \in Valores
              /\ tablaFrames[marco[p][g]] = <<p, g>> /\ tablaFrames[marco[p][g]] # Nulo
<1>0. TipoMemoria /\ PaginasUbicadas /\ MarcosCoherentes
  BY DEF Inv, TypeOK, Tablas
<1>1. alojados \subseteq Procesos /\ Nulo \notin Valores
  BY <1>0, SupuestosMemoria DEF TipoMemoria, SupuestosMemoria
<1>2. \A p \in alojados : \A g \in Paginas : slot[p][g] \in Slots
  BY <1>0 DEF PaginasUbicadas
<1>3. \A p \in alojados : \A g \in presente[p] : g \in Paginas /\ marco[p][g] \in Marcos
  <2>1. presente \in [Procesos -> SUBSET Paginas]
    BY <1>0 DEF TipoMemoria
  <2> QED
    BY <1>0, <1>1, <2>1 DEF PaginasUbicadas
<1>4. \A p \in alojados : \A g \in presente[p] : tablaFrames[marco[p][g]] = <<p, g>>
  BY <1>0, <1>1 DEF MarcosCoherentes
<1>5. \A p \in Procesos, g \in Paginas : <<p, g>> # Nulo
  BY SupuestosMemoria DEF SupuestosMemoria
<1>6. espacio \in [Marcos -> Valores]
  BY <1>0 DEF TipoMemoria
<1> QED
  BY <1>1, <1>2, <1>3, <1>4, <1>5, <1>6

LEMMA MarcosPropios ==
  ASSUME PaginasEnteras = Paginas, Inv,
         NEW p \in alojados, NEW g \in presente[p], NEW q \in alojados, NEW h \in presente[q],
         marco[p][g] = marco[q][h]
  PROVE  p = q /\ g = h
<1>1. tablaFrames[marco[p][g]] = <<p, g>> /\ tablaFrames[marco[q][h]] = <<q, h>>
  BY Lugares
<1> QED
  BY <1>1

LEMMA SlotsPropios ==
  ASSUME PaginasEnteras = Paginas, Inv,
         NEW p \in alojados, NEW g \in Paginas, NEW q \in alojados, NEW h \in Paginas,
         slot[p][g] = slot[q][h]
  PROVE  p = q /\ g = h
<1> DEFINE x == <<p, g>>
           y == <<q, h>>
<1>1. x \in alojados \X PaginasEnteras /\ y \in alojados \X PaginasEnteras
  OBVIOUS
<1>2. slot[x[1]][x[2]] = slot[y[1]][y[2]]
  OBVIOUS
<1>3. x = y
  BY <1>1, <1>2 DEF Inv, Tablas, SlotsExclusivos
<1> QED
  BY <1>3

(* A step that moves no page and writes none leaves all as it was.         *)
LEMMA SinMover ==
  ASSUME Contenidos, MarcaSinFalta',
         UNCHANGED <<alojados, presente, modificado, marco, slot, espacio, swap, marca, escritas>>
  PROVE  Contenidos' /\ Intacto
<1>1. EscritasVivas' /\ Guardadas' /\ CopiasAlDia'
  BY DEF Contenidos, EscritasVivas, Guardadas, CopiasAlDia, PorMarcar
<1>2. Intacto
  BY DEF Intacto, ContenidoDe, Contenido
<1> QED
  BY <1>1, <1>2 DEF Contenidos

(* It is enough to look at each page that was written. *)
LEMMA PorPagina ==
  ASSUME escritas' = escritas,
         \A p \in alojados \cap alojados' : \A g \in Paginas :
            <<p, g>> \in escritas => Contenido(p, g)' = Contenido(p, g)
  PROVE  Intacto
BY DEF Intacto, ContenidoDe

-----------------------------------------------------------------------------
(* The steps, one by one. *)

LEMMA ContenidosInicial == InitE => Contenidos
<1> SUFFICES ASSUME InitE PROVE Contenidos
  OBVIOUS
<1>1. alojados = {} /\ marca = Nulo /\ escritas = {}
  BY DEF InitE, Init, InitMemoria
<1> QED
  BY <1>1 DEF Contenidos, EscritasVivas, Guardadas, CopiasAlDia, MarcaSinFalta

(* The CPU asks for no page before the last access is marked.              *)
LEMMA AisladoCpu ==
  ASSUME Inv, Contenidos, NEW p \in Procesos, Cpu(p), escritas' = escritas
  PROVE  Contenidos' /\ Intacto
<1>0. TypeOK /\ FaseCoherente(p)
  BY DEF Inv
<1>1. /\ UNCHANGED <<alojados, presente, modificado, marco, slot, espacio, swap, marca>>
      /\ UNCHANGED tablaFrames
  BY DEF Cpu, Despachar, Desalojar, Salir, TraducirAcierto, TraducirFallo, TerminaInstruccion,
         memoriaVars, tablaVars, marcosVars
<1>2. \A q \in Procesos : fase'[q] = fase[q] \/ fase'[q] = "sale" \/ marca = Nulo
  <2>1. fase \in [Procesos -> {"nuevo", "listo", "falla", "cargando", "sale", "fin"}]
    BY <1>0 DEF TypeOK
  <2> QED
    BY <2>1 DEF Cpu, Despachar, Desalojar, Salir, TraducirAcierto, TraducirFallo
<1>3. MarcaSinFalta'
  <2> SUFFICES ASSUME marca # Nulo, tablaFrames[marca.marco] # Nulo
               PROVE  fase'[tablaFrames[marca.marco][1]] \in {"listo", "sale"}
    BY <1>1 DEF MarcaSinFalta
  <2>1. marca.marco \in Marcos
    BY <1>0 DEF TypeOK, TipoMemoria
  <2>2. tablaFrames[marca.marco] \in Procesos \X Paginas
    BY <1>0, <2>1 DEF TypeOK, TipoMemoria
  <2>3. tablaFrames[marca.marco][1] \in Procesos
    BY <2>2
  <2> QED
    BY <1>2, <2>3 DEF Contenidos, MarcaSinFalta
<1> QED
  BY <1>1, <1>3, SinMover

LEMMA AisladoLeer ==
  ASSUME Inv, Contenidos, Leer, escritas' = escritas
  PROVE  Contenidos' /\ Intacto
<1>1. /\ acceso # Nulo /\ marca = Nulo
      /\ marca' = [marco |-> acceso.marco, escritura |-> FALSE]
      /\ UNCHANGED <<alojados, presente, modificado, marco, slot, espacio, swap, tablaFrames, fase>>
  BY DEF Leer, MovIn, tablaVars, marcosVars
<1>2. MarcaSinFalta'
  <2>0. TypeOK /\ AccesoPropio
    BY DEF Inv
  <2>1. tablaFrames[acceso.marco][1] = enCpu /\ enCpu = acceso.pid
    BY <1>1, <2>0 DEF AccesoPropio
  <2>2. acceso.pid \in Procesos
    BY <1>1, <2>0 DEF TypeOK, Entrada
  <2>3. FaseCoherente(acceso.pid)
    BY <2>2 DEF Inv
  <2> QED
    BY <1>1, <2>1, <2>3 DEF MarcaSinFalta, FaseCoherente
<1>3. CopiasAlDia'
  BY <1>1 DEF Contenidos, CopiasAlDia, PorMarcar
<1>4. EscritasVivas' /\ Guardadas' /\ Intacto
  BY <1>1 DEF Contenidos, EscritasVivas, Guardadas, Intacto, ContenidoDe, Contenido
<1> QED
  BY <1>2, <1>3, <1>4 DEF Contenidos

(* A write changes the frame of one page of the process that writes, which *)
(* counts as written from then on.                                         *)
LEMMA AisladoEscribir ==
  ASSUME PaginasEnteras = Paginas, Inv, Contenidos, NEW v \in Valores, Escribir(v),
         escritas' = escritas \cup ({tablaFrames[acceso.marco]} \ {Nulo})
  PROVE  /\ Contenidos' /\ acceso # Nulo /\ acceso' = Nulo
         /\ alojados' = alojados
         /\ \E q \in alojados, h \in Paginas :
              /\ tablaFrames[acceso.marco] = <<q, h>> /\ q = acceso.pid
              /\ escritas' = escritas \cup {<<q, h>>}
              /\ \A p \in alojados : \A g \in Paginas :
                   Contenido(p, g)' = IF p = q /\ g = h THEN v ELSE Contenido(p, g)
<1>0. TypeOK /\ AccesoPropio /\ EscritasVivas /\ Guardadas
  BY DEF Inv, Contenidos
<1>1. /\ acceso # Nulo /\ acceso' = Nulo /\ marca = Nulo
      /\ marca' = [marco |-> acceso.marco, escritura |-> TRUE]
      /\ espacio' = [espacio EXCEPT ![acceso.marco] = v]
      /\ UNCHANGED <<alojados, presente, modificado, marco, slot, swap, tablaFrames, fase>>
  BY DEF Escribir, MovOut, tablaVars
<1>2. acceso \in Entrada /\ acceso.pid \in Procesos /\ acceso.marco \in Marcos
  BY <1>0, <1>1 DEF TypeOK, Entrada
<1>3. MarcaSinFalta'
  <2>1. tablaFrames[acceso.marco][1] = enCpu /\ enCpu = acceso.pid
    BY <1>0, <1>1 DEF AccesoPropio
  <2>2. FaseCoherente(acceso.pid)
    BY <1>2 DEF Inv
  <2> QED
    BY <1>1, <2>1, <2>2 DEF MarcaSinFalta, FaseCoherente
<1>4. \A f \in Marcos : espacio'[f] = IF f = acceso.marco THEN v ELSE espacio[f]
  <2>1. espacio \in [Marcos -> Valores]
    BY <1>0 DEF TypeOK, TipoMemoria
  <2> QED
    BY <1>1, <2>1
<1>5. PICK q \in alojados, h \in Paginas :
        /\ h \in presente[q] /\ marco[q][h] = acceso.marco /\ q = acceso.pid
        /\ tablaFrames[acceso.marco] = <<q, h>> /\ escritas' = escritas \cup {<<q, h>>}
  <2> DEFINE d == tablaFrames[acceso.marco]
  <2>1. d # Nulo /\ d \in Procesos \X Paginas /\ d[1] = acceso.pid
    BY <1>0, <1>1, <1>2 DEF AccesoPropio, TypeOK, TipoMemoria
  <2>2. acceso.marco \in Ocupados
    BY <1>2, <2>1 DEF Ocupados
  <2>3. d[1] \in alojados /\ d[2] \in presente[d[1]] /\ marco[d[1]][d[2]] = acceso.marco
    BY <2>2 DEF Inv, Tablas, MarcosCoherentes
  <2>4. d[2] \in Paginas /\ d = <<d[1], d[2]>>
    BY <2>1
  <2>5. {d} \ {Nulo} = {d}
    BY <2>1
  <2> QED
    BY <2>1, <2>3, <2>4, <2>5
<1>6. ASSUME NEW p \in alojados, NEW g \in presente[p]
      PROVE  marco[p][g] \in Marcos /\ (marco[p][g] = acceso.marco => p = q /\ g = h)
  BY <1>5, Lugares, MarcosPropios
<1>7. CopiasAlDia'
  <2> SUFFICES ASSUME NEW p \in alojados, NEW g \in presente[p], <<p, g>> \in escritas'
               PROVE  \/ g \in modificado[p]
                      \/ espacio'[marco[p][g]] = swap[slot[p][g]]
                      \/ PorMarcar(marco[p][g])'
    BY <1>1 DEF CopiasAlDia, PorMarcar
  <2>1. CASE marco[p][g] = acceso.marco
    <3>0. marca' \in [marco : Marcos, escritura : BOOLEAN]
      BY <1>1, <1>2
    <3>1. marca' # Nulo
      BY <3>0, SupuestosMemoria DEF SupuestosMemoria
    <3> QED
      BY <1>1, <2>1, <3>1 DEF PorMarcar
  <2>2. CASE marco[p][g] # acceso.marco
    <3>1. <<p, g>> \in escritas
      BY <1>5, <2>2
    <3>2. g \in modificado[p] \/ espacio[marco[p][g]] = swap[slot[p][g]]
      BY <1>1, <3>1 DEF Contenidos, CopiasAlDia, PorMarcar
    <3> QED
      BY <1>4, <1>6, <2>2, <3>2
  <2> QED
    BY <2>1, <2>2
<1>8. EscritasVivas' /\ Guardadas'
  <2>1. ASSUME NEW p \in alojados, NEW g \in Paginas \ presente[p], <<p, g>> \in escritas'
        PROVE  swap[slot[p][g]] # Nulo
    <3>1. <<p, g>> \in escritas
      BY <1>5, <2>1
    <3> QED
      BY <1>0, <3>1 DEF Guardadas
  <2> QED
    BY <1>0, <1>1, <1>5, <2>1 DEF EscritasVivas, Guardadas
<1>9. ASSUME NEW p \in alojados, NEW g \in Paginas
      PROVE  Contenido(p, g)' = IF p = q /\ g = h THEN v ELSE Contenido(p, g)
  <2>1. CASE g \in presente[p]
    <3>1. Contenido(p, g)' = espacio'[marco[p][g]] /\ Contenido(p, g) = espacio[marco[p][g]]
      BY <1>1, <2>1 DEF Contenido
    <3> QED
      BY <1>4, <1>5, <1>6, <2>1, <3>1
  <2>2. CASE g \notin presente[p]
    BY <1>1, <1>5, <2>2 DEF Contenido
  <2> QED
    BY <2>1, <2>2
<1>10. Contenidos'
  BY <1>3, <1>7, <1>8 DEF Contenidos
<1> QED
  BY <1>1, <1>5, <1>9, <1>10

(* The mark that was owed falls on the page that its frame holds.          *)
LEMMA AisladoMarcar ==
  ASSUME PaginasEnteras = Paginas, Inv, Contenidos, Marcar, escritas' = escritas
  PROVE  Contenidos' /\ Intacto
<1> DEFINE d == tablaFrames[marca.marco]
<1>0. TypeOK
  BY DEF Inv
<1>1. /\ marca # Nulo /\ marca' = Nulo
      /\ UNCHANGED <<alojados, presente, marco, slot, espacio, swap, tablaFrames, fase>>
  BY DEF Marcar, MarcarPaginaUsada, marcosVars, cpuVars
<1>2. EscritasVivas' /\ Guardadas' /\ MarcaSinFalta' /\ Intacto
  BY <1>1 DEF Contenidos, EscritasVivas, Guardadas, MarcaSinFalta, Intacto, ContenidoDe, Contenido
<1>3. modificado \in [Procesos -> SUBSET Paginas] /\ marca.marco \in Marcos
  BY <1>0, <1>1 DEF TypeOK, TipoMemoria
<1>4. CopiasAlDia'
  <2> SUFFICES ASSUME NEW p \in alojados, NEW g \in presente[p], <<p, g>> \in escritas
               PROVE  \/ g \in modificado'[p]
                      \/ espacio[marco[p][g]] = swap[slot[p][g]]
    BY <1>1 DEF CopiasAlDia
  <2>0. p \in Procesos
    BY <1>0, Lugares
  <2>1. g \in modificado[p] => g \in modificado'[p]
    <3>1. CASE d = Nulo
      BY <3>1 DEF Marcar, MarcarPaginaUsada
    <3>2. CASE d # Nulo
      <4>1. d \in Procesos \X Paginas
        BY <1>0, <1>3, <3>2 DEF TypeOK, TipoMemoria
      <4>2. PICK q \in Procesos, h \in Paginas : d[1] = q /\ d[2] = h
        BY <4>1
      <4>3. modificado' \in {modificado, [modificado EXCEPT ![q] = modificado[q] \cup {h}]}
        BY <3>2, <4>2 DEF Marcar, MarcarPaginaUsada
      <4> QED
        BY <1>3, <2>0, <4>3
    <3> QED
      BY <3>1, <3>2
  <2>2. CASE PorMarcar(marco[p][g])
    <3>1. d = <<p, g>> /\ d # Nulo /\ marca.escritura /\ g \in Paginas
      BY <1>0, <2>2, Lugares DEF PorMarcar
    <3>2. d[1] = p /\ d[2] = g
      BY <3>1
    <3>3. modificado' = [modificado EXCEPT ![p] = modificado[p] \cup {g}]
      BY <3>1, <3>2 DEF Marcar, MarcarPaginaUsada
    <3> QED
      BY <1>3, <2>0, <3>3
  <2> QED
    BY <2>1, <2>2 DEF Contenidos, CopiasAlDia
<1> QED
  BY <1>2, <1>4 DEF Contenidos

(* The search for a victim moves no page. *)
LEMMA AisladoElegir ==
  ASSUME Inv, Contenidos, escritas' = escritas,
         ElegirVictima \/ (\E p \in Procesos : AtenderFaltaReemplazo(p))
  PROVE  Contenidos' /\ Intacto
<1>0. TypeOK
  BY DEF Inv
<1>1. UNCHANGED <<alojados, presente, modificado, marco, slot, espacio, swap, marca, tablaFrames>>
  BY DEF ElegirVictima, Clock, ClockMejorado, QuedarSinVictima, AtenderFaltaReemplazo,
         EmpezarReemplazo, tablaVars, marcosVars
<1>2. \A q \in Procesos : fase[q] \in {"listo", "sale"} => fase'[q] = fase[q]
  <2>1. CASE ElegirVictima
    BY <2>1 DEF ElegirVictima, cpuVars
  <2>2. ASSUME NEW p \in Procesos, AtenderFaltaReemplazo(p)
        PROVE  \A q \in Procesos : fase[q] \in {"listo", "sale"} => fase'[q] = fase[q]
    BY <1>0, <2>2 DEF AtenderFaltaReemplazo, TypeOK
  <2> QED
    BY <2>1, <2>2
<1>3. MarcaSinFalta'
  <2> SUFFICES ASSUME marca # Nulo, tablaFrames[marca.marco] # Nulo
               PROVE  fase'[tablaFrames[marca.marco][1]] \in {"listo", "sale"}
    BY <1>1 DEF MarcaSinFalta
  <2>1. tablaFrames[marca.marco] \in Procesos \X Paginas
    BY <1>0 DEF TypeOK, TipoMemoria
  <2>2. tablaFrames[marca.marco][1] \in Procesos
    BY <2>1
  <2> QED
    BY <1>2, <2>2 DEF Contenidos, MarcaSinFalta
<1> QED
  BY <1>1, <1>3, SinMover

(* A new process has its pages in swap, and takes nobody's slot.           *)
LEMMA AisladoCrear ==
  ASSUME PaginasEnteras = Paginas, Inv, Contenidos, NEW p \in Procesos, Crear(p),
         escritas' = escritas
  PROVE  Contenidos' /\ Intacto
<1>0. TypeOK /\ FaseCoherente(p) /\ EscritasVivas /\ Guardadas
  BY DEF Inv, Contenidos
<1>1. /\ UNCHANGED <<presente, modificado, marco, espacio, swap, marca, tablaFrames>>
      /\ fase[p] = "nuevo"
      /\ \/ UNCHANGED <<alojados, slot>>
         \/ /\ alojados' = alojados \cup {p}
            /\ slot' = [slot EXCEPT ![p] = [g \in Paginas |-> SlotNuevo(g)]]
  BY DEF Crear, NuevoProceso
<1>2. p \notin alojados /\ presente[p] = {}
  BY <1>0, <1>1 DEF FaseCoherente
<1>3. \A q \in alojados : q \in Procesos /\ q # p /\ slot'[q] = slot[q]
  <2>1. slot \in [Procesos -> [Paginas -> Slots \cup {Nulo}]] /\ alojados \subseteq Procesos
    BY <1>0 DEF TypeOK, TipoMemoria
  <2> QED
    BY <1>1, <1>2, <2>1
<1>4. CopiasAlDia'
  <2> SUFFICES ASSUME NEW q \in alojados', NEW g \in presente[q], <<q, g>> \in escritas
               PROVE  \/ g \in modificado[q]
                      \/ espacio[marco[q][g]] = swap[slot'[q][g]]
                      \/ PorMarcar(marco[q][g])
    BY <1>1 DEF CopiasAlDia, PorMarcar
  <2>1. q \in alojados
    BY <1>1, <1>2
  <2> QED
    BY <1>3, <2>1 DEF Contenidos, CopiasAlDia
<1>5. MarcaSinFalta'
  <2> SUFFICES ASSUME marca # Nulo, tablaFrames[marca.marco] # Nulo
               PROVE  fase'[tablaFrames[marca.marco][1]] \in {"listo", "sale"}
    BY <1>1 DEF MarcaSinFalta
  <2>1. tablaFrames[marca.marco] \in Procesos \X Paginas
    BY <1>0 DEF TypeOK, TipoMemoria
  <2>2. tablaFrames[marca.marco][1] \in Procesos
    BY <2>1
  <2>3. fase[tablaFrames[marca.marco][1]] \in {"listo", "sale"}
    BY DEF Contenidos, MarcaSinFalta
  <2>4. \A q \in Procesos \ {p} : fase'[q] = fase[q]
    BY <1>0 DEF Crear, Responde, TypeOK
  <2> QED
    BY <1>1, <2>2, <2>3, <2>4
<1>6. EscritasVivas'
  BY <1>0, <1>1 DEF EscritasVivas
<1>7. Guardadas'
  <2> SUFFICES ASSUME NEW q \in alojados', NEW g \in Paginas \ presente[q], <<q, g>> \in escritas
               PROVE  swap[slot'[q][g]] # Nulo
    BY <1>1 DEF Guardadas
  <2>1. q \in alojados
    BY <1>0 DEF EscritasVivas
  <2> QED
    BY <1>0, <1>3, <2>1 DEF Guardadas
<1>8. Intacto
  BY <1>1, <1>3 DEF Intacto, ContenidoDe, Contenido
<1> QED
  BY <1>4, <1>5, <1>6, <1>7, <1>8 DEF Contenidos

(* A page comes to a frame that is nobody's with what its slot has, if the *)
(* file reaches it.                                                        *)
LEMMA AisladoCargar ==
  ASSUME PaginasEnteras = Paginas, Inv, Contenidos, caida = "no",
         NEW p \in Procesos, AtenderFaltaLibre(p), escritas' = escritas
  PROVE  Contenidos' /\ Intacto
<1> DEFINE g == falta[p]
           f == PosicionLibre(mapaFrames, Marcos)
<1>0. TypeOK /\ FaseCoherente(p) /\ EscritasVivas /\ Guardadas
  BY DEF Inv, Contenidos
<1>1. /\ UNCHANGED <<alojados, modificado, slot, swap, marca>> /\ fase[p] = "falla"
      /\ g \in Paginas \ presente[p] /\ p \in alojados
  BY <1>0 DEF AtenderFaltaLibre, CargarEnMarcoLibre, FaseCoherente
<1>2. \A q \in Procesos \ {p} : fase'[q] = fase[q]
  BY <1>0 DEF AtenderFaltaLibre, Responde, TypeOK
<1>3. ASSUME marca # Nulo, tablaFrames[marca.marco] # Nulo
      PROVE  fase'[tablaFrames[marca.marco][1]] \in {"listo", "sale"}
  <2>1. tablaFrames[marca.marco] \in Procesos \X Paginas
    BY <1>0, <1>3 DEF TypeOK, TipoMemoria
  <2>2. tablaFrames[marca.marco][1] \in Procesos
    BY <2>1
  <2>3. fase[tablaFrames[marca.marco][1]] \in {"listo", "sale"}
    BY <1>3 DEF Contenidos, MarcaSinFalta
  <2> QED
    BY <1>1, <1>2, <2>2, <2>3
<1>4. CASE Marcos \subseteq mapaFrames
  <2>1. UNCHANGED <<presente, marco, tablaFrames, espacio>>
    BY <1>4 DEF AtenderFaltaLibre, CargarEnMarcoLibre
  <2>2. MarcaSinFalta'
    BY <1>1, <1>3, <2>1 DEF MarcaSinFalta
  <2> QED
    BY <1>1, <2>1, <2>2, SinMover
<1>5. CASE ~(Marcos \subseteq mapaFrames)
  <2>0. f \in Marcos /\ f \notin mapaFrames /\ tablaFrames[f] = Nulo
    <3>1. f \in Marcos \ mapaFrames
      BY <1>5, MarcoLibre
    <3>2. Ocupados \subseteq mapaFrames
      BY DEF Inv, Tablas, MarcosCoherentes
    <3> QED
      BY <3>1, <3>2 DEF Ocupados
  <2>1. /\ OcuparMarco(p, g, f)
        /\ \E v \in Leido(swap, slot[p][g]) : espacio' = [espacio EXCEPT ![f] = v]
        /\ presente' = [presente EXCEPT ![p] = @ \cup {g}]
        /\ caida' = caida
    BY <1>5 DEF AtenderFaltaLibre, CargarEnMarcoLibre
  <2>2. PICK x \in Leido(swap, slot[p][g]) : espacio' = [espacio EXCEPT ![f] = x]
    BY <2>1
  <2>a. <<p, g>> \in escritas => x = swap[slot[p][g]]
    <3> SUFFICES ASSUME <<p, g>> \in escritas PROVE x = swap[slot[p][g]]
      OBVIOUS
    <3>1. swap[slot[p][g]] # Nulo
      BY <1>0, <1>1 DEF Guardadas
    <3> QED
      BY <2>2, <3>1 DEF Leido
  <2> HIDE DEF f, g
  <2>3. /\ presente'[p] = presente[p] \cup {g} /\ marco'[p][g] = f
        /\ tablaFrames' = [tablaFrames EXCEPT ![f] = <<p, g>>]
        /\ \A h \in Paginas \ {g} : marco'[p][h] = marco[p][h]
        /\ \A q \in Procesos \ {p} : presente'[q] = presente[q] /\ marco'[q] = marco[q]
    <3>1. /\ presente \in [Procesos -> SUBSET Paginas]
          /\ marco \in [Procesos -> [Paginas -> Marcos \cup {Nulo}]]
      BY <1>0 DEF TypeOK, TipoMemoria
    <3> QED
      BY <1>1, <2>1, <3>1 DEF OcuparMarco
  <2>4. espacio'[f] = x /\ \A m \in Marcos \ {f} : espacio'[m] = espacio[m]
    <3>1. espacio \in [Marcos -> Valores]
      BY <1>0 DEF TypeOK, TipoMemoria
    <3> QED
      BY <2>0, <2>2, <3>1
  <2>5. \A q \in alojados : \A h \in presente[q] :
          /\ q \in Procesos /\ h \in Paginas
          /\ marco[q][h] \in Marcos \ {f} /\ <<q, h>> # <<p, g>>
          /\ marco'[q][h] = marco[q][h] /\ h \in presente'[q]
    <3> SUFFICES ASSUME NEW q \in alojados, NEW h \in presente[q]
                 PROVE  /\ q \in Procesos /\ h \in Paginas
                        /\ marco[q][h] \in Marcos \ {f} /\ <<q, h>> # <<p, g>>
                        /\ marco'[q][h] = marco[q][h] /\ h \in presente'[q]
      OBVIOUS
    <3>1. /\ q \in Procesos /\ h \in Paginas /\ marco[q][h] \in Marcos
          /\ tablaFrames[marco[q][h]] # Nulo
      BY <1>0, Lugares
    <3>2. q # p \/ h # g
      BY <1>1 DEF g
    <3>3. marco[q][h] # f
      BY <2>0, <3>1
    <3> QED
      BY <2>3, <3>1, <3>2, <3>3
  <2>6. \A q \in alojados : \A h \in presente'[q] : h \in presente[q] \/ (q = p /\ h = g)
    <3>1. \A q \in alojados : q \in Procesos
      BY <1>0 DEF TypeOK, TipoMemoria
    <3> QED
      BY <2>3, <3>1
  <2>7. CopiasAlDia'
    <3> SUFFICES ASSUME NEW q \in alojados, NEW h \in presente'[q], <<q, h>> \in escritas
                 PROVE  \/ h \in modificado[q]
                        \/ espacio'[marco'[q][h]] = swap[slot[q][h]]
                        \/ PorMarcar(marco'[q][h])
      BY <1>1 DEF CopiasAlDia, PorMarcar
    <3>1. CASE h \in presente[q]
      <4>1. marco'[q][h] = marco[q][h] /\ espacio'[marco[q][h]] = espacio[marco[q][h]]
        BY <2>4, <2>5, <3>1
      <4> QED
        BY <3>1, <4>1 DEF Contenidos, CopiasAlDia
    <3>2. CASE q = p /\ h = g
      BY <2>3, <2>4, <2>a, <3>2
    <3> QED
      BY <2>6, <3>1, <3>2
  <2>8. Intacto
    <3> SUFFICES ASSUME NEW q \in alojados, NEW h \in Paginas, <<q, h>> \in escritas
                 PROVE  Contenido(q, h)' = Contenido(q, h)
      BY PorPagina
    <3>1. CASE h \in presente[q]
      BY <2>4, <2>5, <3>1 DEF Contenido
    <3>2. CASE q = p /\ h = g
      <4>1. h \notin presente[q] /\ h \in presente'[q]
        BY <1>1, <2>3, <3>2 DEF g
      <4> QED
        BY <2>3, <2>4, <2>a, <3>2, <4>1 DEF Contenido
    <3>3. CASE h \notin presente[q] /\ ~(q = p /\ h = g)
      <4>1. h \notin presente'[q]
        BY <2>6, <3>3
      <4> QED
        BY <1>1, <3>3, <4>1 DEF Contenido
    <3> QED
      BY <3>1, <3>2, <3>3
  <2>9. MarcaSinFalta'
    <3> SUFFICES ASSUME marca # Nulo, tablaFrames'[marca.marco] # Nulo
                 PROVE  fase'[tablaFrames'[marca.marco][1]] \in {"listo", "sale"}
      BY <1>1 DEF MarcaSinFalta
    <3>0. marca.marco \in Marcos /\ tablaFrames \in [Marcos -> (Procesos \X Paginas) \cup {Nulo}]
      BY <1>0 DEF TypeOK, TipoMemoria
    <3>1. CASE marca.marco = f
      <4>1. tablaFrames'[marca.marco] = <<p, g>>
        BY <2>3, <3>0, <3>1
      <4>2. tablaFrames'[marca.marco][1] = p
        BY <4>1
      <4>3. fase'[p] = "listo"
        BY <1>0, <2>1 DEF AtenderFaltaLibre, Responde, TypeOK
      <4> QED
        BY <4>2, <4>3
    <3>2. CASE marca.marco # f
      <4>1. tablaFrames'[marca.marco] = tablaFrames[marca.marco]
        BY <2>3, <3>0, <3>2
      <4> QED
        BY <1>3, <4>1
    <3> QED
      BY <3>1, <3>2
  <2>10. EscritasVivas'
    BY <1>0, <1>1 DEF EscritasVivas
  <2>11. Guardadas'
    <3> SUFFICES ASSUME NEW q \in alojados, NEW h \in Paginas \ presente'[q], <<q, h>> \in escritas
                 PROVE  swap[slot[q][h]] # Nulo
      BY <1>1 DEF Guardadas
    <3>1. h \notin presente[q]
      BY <2>5
    <3> QED
      BY <1>0, <3>1 DEF Guardadas
  <2> QED
    BY <2>7, <2>8, <2>9, <2>10, <2>11 DEF Contenidos
<1> QED
  BY <1>4, <1>5

(* What a page leaves in the file, and what it does not touch.             *)
LEMMA GuardadoDeja ==
  ASSUME NEW archivo \in [Slots \cup {Nulo} -> Valores \cup {Nulo}], NEW s \in Slots, NEW x
  PROVE  /\ Guardado(archivo, s, x)[s] = x
         /\ \A r \in Slots \ {s} : archivo[r] # Nulo => Guardado(archivo, s, x)[r] = archivo[r]
BY DEF Guardado

(* A victim leaves its contents in its slot, where they were if it was not *)
(* modified; the page that takes its frame brings its own.                 *)
LEMMA AisladoReemplazar ==
  ASSUME PaginasEnteras = Paginas, Inv, Contenidos, Reemplazar, escritas' = escritas
  PROVE  Contenidos' /\ Intacto
<1>0. TypeOK /\ TipoMemoria /\ EscritasVivas /\ Guardadas
  BY DEF Inv, Contenidos, TypeOK
<1>1. rutina = "reemplaza" /\ rutina # "libre"
  BY DEF Reemplazar, ReemplazarPagina
<1>2. PICK p \in Procesos, g \in Paginas :
        /\ p = pedida[1] /\ g = pedida[2] /\ fase[p] = "cargando" /\ p \in alojados
        /\ g \notin presente[p]
  BY <1>1, PedidaAfuera
<1>3. PICK v \in Paginas : v = victima /\ v \in presente[p] /\ v # g
  <2>1. {victima} \subseteq presente[p]
    BY <1>1, <1>2 DEF Inv, Tablas, ColaCoherente
  <2> QED
    BY <1>2, <2>1, <1>0 DEF TipoMemoria
<1> DEFINE f == marco[p][v]
           s == slot[p][v]
           t == slot[p][g]
<1>4. /\ f \in Marcos /\ s \in Slots /\ t \in Slots /\ s # t
      /\ tablaFrames[f] = <<p, v>> /\ tablaFrames[f] # Nulo
      /\ espacio[f] \in Valores
  BY <1>0, <1>2, <1>3, Lugares, SlotsPropios
<1>5. \A q \in alojados : \A h \in presente[q] :
        /\ q \in Procesos /\ h \in Paginas /\ marco[q][h] \in Marcos
        /\ marco[q][h] = f => q = p /\ h = v
  BY <1>0, <1>2, <1>3, Lugares, MarcosPropios
<1>6. \A q \in alojados : \A h \in Paginas :
        /\ q \in Procesos /\ slot[q][h] \in Slots
        /\ slot[q][h] = s => q = p /\ h = v
  BY <1>0, <1>2, <1>3, Lugares, SlotsPropios
<1> DEFINE guardado == IF v \in modificado[p] THEN Guardado(swap, s, espacio[f]) ELSE swap
<1>7. /\ swap' = guardado
      /\ \E x \in Leido(guardado, t) : espacio' = [espacio EXCEPT ![f] = x]
      /\ OcuparMarco(p, g, f)
      /\ presente' = [presente EXCEPT ![p] = (@ \ {v}) \cup {g}]
      /\ modificado' = [modificado EXCEPT ![p] = @ \ {v}]
      /\ UNCHANGED <<alojados, slot, marca>>
      /\ fase' = [fase EXCEPT ![p] = "listo"]
  BY <1>2, <1>3 DEF Reemplazar, ReemplazarPagina
<1>8. /\ <<p, v>> \in escritas => guardado[s] = espacio[f]
      /\ \A r \in Slots \ {s} : swap[r] # Nulo => guardado[r] = swap[r]
  <2>1. CASE v \in modificado[p]
    <3>1. swap \in [Slots \cup {Nulo} -> Valores \cup {Nulo}]
      BY <1>0 DEF TipoMemoria
    <3> QED
      BY <1>4, <2>1, <3>1, GuardadoDeja, SMTT(30)
  <2>2. CASE v \notin modificado[p]
    <3>1. ~PorMarcar(f)
      <4>1. tablaFrames[f][1] = p
        BY <1>4
      <4> QED
        BY <1>2, <1>4, <4>1 DEF PorMarcar, Contenidos, MarcaSinFalta
    <3>2. <<p, v>> \in escritas => espacio[f] = swap[s]
      BY <1>2, <1>3, <2>2, <3>1 DEF Contenidos, CopiasAlDia
    <3> QED
      BY <2>2, <3>2
  <2> QED
    BY <2>1, <2>2
<1>9. PICK x \in Leido(guardado, t) : espacio' = [espacio EXCEPT ![f] = x]
  BY <1>7
<1>a. <<p, g>> \in escritas => swap[t] # Nulo /\ guardado[t] = swap[t] /\ x = swap[t]
  <2> SUFFICES ASSUME <<p, g>> \in escritas
               PROVE  swap[t] # Nulo /\ guardado[t] = swap[t] /\ x = swap[t]
    OBVIOUS
  <2>1. swap[t] # Nulo
    BY <1>0, <1>2 DEF Guardadas
  <2>2. guardado[t] = swap[t]
    BY <1>4, <1>8, <2>1
  <2>3. Leido(guardado, t) = {swap[t]}
    BY <2>1, <2>2 DEF Leido
  <2> QED
    BY <1>9, <2>1, <2>2, <2>3
<1>10. /\ <<p, v>> \in escritas => swap'[s] = espacio[f]
       /\ \A r \in Slots \ {s} : swap[r] # Nulo => swap'[r] = swap[r]
  BY <1>7, <1>8
<1> HIDE DEF guardado, f, s, t
<1>11. espacio'[f] = x /\ \A m \in Marcos \ {f} : espacio'[m] = espacio[m]
  <2>1. espacio \in [Marcos -> Valores]
    BY <1>0 DEF TipoMemoria
  <2> QED
    BY <1>4, <1>9, <2>1
<1>12. /\ presente'[p] = (presente[p] \ {v}) \cup {g} /\ marco'[p][g] = f
       /\ modificado'[p] = modificado[p] \ {v}
       /\ \A h \in Paginas \ {g} : marco'[p][h] = marco[p][h]
       /\ \A q \in Procesos \ {p} : /\ presente'[q] = presente[q] /\ marco'[q] = marco[q]
                                    /\ modificado'[q] = modificado[q]
  <2>1. /\ presente \in [Procesos -> SUBSET Paginas]
        /\ modificado \in [Procesos -> SUBSET Paginas]
        /\ marco \in [Procesos -> [Paginas -> Marcos \cup {Nulo}]]
    BY <1>0 DEF TipoMemoria
  <2> QED
    BY <1>7, <2>1 DEF OcuparMarco
<1>13. \A q \in alojados : q \in Procesos /\ presente[q] \subseteq Paginas
  BY <1>0 DEF TipoMemoria
(* The pages that stay in memory. *)
<1>14. \A q \in alojados : \A h \in presente[q] :
         (q = p /\ h = v) \/ /\ h \in presente'[q] /\ marco'[q][h] = marco[q][h]
                             /\ marco[q][h] # f /\ slot[q][h] # s
                             /\ espacio'[marco[q][h]] = espacio[marco[q][h]]
                             /\ swap[slot[q][h]] # Nulo => swap'[slot[q][h]] = swap[slot[q][h]]
                             /\ h \in modificado[q] => h \in modificado'[q]
  <2> SUFFICES ASSUME NEW q \in alojados, NEW h \in presente[q], ~(q = p /\ h = v)
               PROVE  /\ h \in presente'[q] /\ marco'[q][h] = marco[q][h]
                      /\ marco[q][h] # f /\ slot[q][h] # s
                      /\ espacio'[marco[q][h]] = espacio[marco[q][h]]
                      /\ swap[slot[q][h]] # Nulo => swap'[slot[q][h]] = swap[slot[q][h]]
                      /\ h \in modificado[q] => h \in modificado'[q]
    OBVIOUS
  <2>1. q \in Procesos /\ h \in Paginas /\ (q = p => h # g)
    BY <1>2, <1>13
  <2>2. h \in presente'[q] /\ marco'[q][h] = marco[q][h] /\ (h \in modificado[q] => h \in modificado'[q])
    BY <1>12, <2>1
  <2>3. marco[q][h] \in Marcos \ {f} /\ slot[q][h] \in Slots \ {s}
    BY <1>5, <1>6, <2>1
  <2> QED
    BY <1>10, <1>11, <2>2, <2>3
<1>15. \A q \in alojados : \A h \in presente'[q] : (q = p /\ h = g) \/ (h \in presente[q] /\ ~(q = p /\ h = v))
  BY <1>3, <1>12, <1>13
<1>16. CopiasAlDia'
  <2> SUFFICES ASSUME NEW q \in alojados, NEW h \in presente'[q], <<q, h>> \in escritas
               PROVE  \/ h \in modificado'[q]
                      \/ espacio'[marco'[q][h]] = swap'[slot[q][h]]
                      \/ PorMarcar(marco'[q][h])
    BY <1>7 DEF CopiasAlDia, PorMarcar
  <2>1. CASE q = p /\ h = g
    <3>1. slot[q][h] \in Slots \ {s} /\ swap[slot[q][h]] # Nulo /\ x = swap[slot[q][h]]
      BY <1>4, <1>a, <2>1 DEF t
    <3> QED
      BY <1>10, <1>11, <1>12, <2>1, <3>1
  <2>2. CASE h \in presente[q] /\ ~(q = p /\ h = v)
    <3>1. espacio[marco[q][h]] \in Valores /\ Nulo \notin Valores
      BY <2>2, Lugares
    <3>2. \/ h \in modificado[q]
          \/ espacio[marco[q][h]] = swap[slot[q][h]]
          \/ PorMarcar(marco[q][h])
      BY <2>2 DEF Contenidos, CopiasAlDia
    <3> QED
      BY <1>7, <1>14, <2>2, <3>1, <3>2 DEF PorMarcar
  <2> QED
    BY <1>15, <2>1, <2>2
<1>17. Intacto
  <2> SUFFICES ASSUME NEW q \in alojados, NEW h \in Paginas, <<q, h>> \in escritas
               PROVE  Contenido(q, h)' = Contenido(q, h)
    BY PorPagina
  <2>1. CASE h \in presente[q] /\ ~(q = p /\ h = v)
    BY <1>14, <2>1 DEF Contenido
  <2>2. CASE q = p /\ h = v
    <3>1. v \in presente[p] /\ v \notin presente'[p]
      BY <1>3, <1>12
    <3> QED
      BY <1>4, <1>7, <1>10, <2>2, <3>1 DEF Contenido, f, s
  <2>3. CASE q = p /\ h = g
    <3>1. g \notin presente[p] /\ g \in presente'[p]
      BY <1>2, <1>12
    <3> QED
      BY <1>11, <1>12, <1>a, <2>3, <3>1 DEF Contenido, t
  <2>4. CASE h \notin presente[q] /\ ~(q = p /\ h = g)
    <3>1. h \notin presente'[q] /\ slot[q][h] # s
      BY <1>3, <1>6, <1>15, <2>4
    <3>2. swap'[slot[q][h]] = swap[slot[q][h]]
      BY <1>0, <1>6, <1>10, <2>4, <3>1 DEF Guardadas
    <3> QED
      BY <1>7, <2>4, <3>1, <3>2 DEF Contenido
  <2> QED
    BY <2>1, <2>2, <2>3, <2>4
<1>18. EscritasVivas' /\ Guardadas'
  <2>1. ASSUME NEW q \in alojados, NEW h \in Paginas \ presente'[q], <<q, h>> \in escritas
        PROVE  swap'[slot[q][h]] # Nulo
    <3>1. CASE q = p /\ h = v
      <4>1. Nulo \notin Valores /\ slot[q][h] = s /\ <<p, v>> \in escritas
        BY <2>1, <3>1, Lugares DEF s
      <4> QED
        BY <1>4, <1>10, <4>1
    <3>2. CASE ~(q = p /\ h = v)
      <4>1. h \notin presente[q] /\ slot[q][h] \in Slots \ {s}
        BY <1>6, <1>14, <2>1, <3>2
      <4>2. swap[slot[q][h]] # Nulo
        BY <1>0, <2>1, <4>1 DEF Guardadas
      <4> QED
        BY <1>10, <4>1, <4>2
    <3> QED
      BY <3>1, <3>2
  <2> QED
    BY <1>0, <1>7, <2>1 DEF EscritasVivas, Guardadas
<1>19. MarcaSinFalta'
  <2> SUFFICES ASSUME marca # Nulo, tablaFrames'[marca.marco] # Nulo
               PROVE  fase'[tablaFrames'[marca.marco][1]] \in {"listo", "sale"}
    BY <1>7 DEF MarcaSinFalta
  <2>0. /\ marca.marco \in Marcos /\ tablaFrames \in [Marcos -> (Procesos \X Paginas) \cup {Nulo}]
        /\ tablaFrames' = [tablaFrames EXCEPT ![f] = <<p, g>>]
    BY <1>0, <1>7 DEF TipoMemoria, OcuparMarco, f
  <2>1. CASE marca.marco = f
    <3>1. tablaFrames'[marca.marco] = <<p, g>>
      BY <2>0, <2>1
    <3>2. tablaFrames'[marca.marco][1] = p
      BY <3>1
    <3>3. fase'[p] = "listo"
      BY <1>0, <1>7 DEF TypeOK
    <3> QED
      BY <3>2, <3>3
  <2>2. CASE marca.marco # f
    <3>1. tablaFrames'[marca.marco] = tablaFrames[marca.marco]
      BY <2>0, <2>2
    <3>2. tablaFrames[marca.marco] \in Procesos \X Paginas
      BY <2>0, <3>1
    <3>3. tablaFrames[marca.marco][1] \in Procesos
      BY <3>2
    <3>4. fase[tablaFrames[marca.marco][1]] \in {"listo", "sale"}
      BY <3>1 DEF Contenidos, MarcaSinFalta
    <3> QED
      BY <1>0, <1>7, <3>1, <3>3, <3>4 DEF TypeOK
  <2> QED
    BY <2>1, <2>2
<1> QED
  BY <1>16, <1>17, <1>18, <1>19 DEF Contenidos

(* The pages of a process that ends go with it, and no other.              *)
LEMMA AisladoDestruir ==
  ASSUME PaginasEnteras = Paginas, Inv, Contenidos, NEW p \in Procesos, Destruir(p),
         escritas' = {x \in escritas : x[1] # p}
  PROVE  Contenidos' /\ Intacto
<1>0. TypeOK /\ TipoMemoria /\ EscritasVivas /\ Guardadas
  BY DEF Inv, Contenidos, TypeOK
<1>1. /\ alojados' = alojados \ {p}
      /\ presente' = [presente EXCEPT ![p] = {}]
      /\ modificado' = [modificado EXCEPT ![p] = {}]
      /\ marco' = [marco EXCEPT ![p] = [g \in Paginas |-> Nulo]]
      /\ slot' = [slot EXCEPT ![p] = [g \in Paginas |-> Nulo]]
      /\ \E propios : tablaFrames' = [m \in Marcos |-> IF m \in propios THEN Nulo ELSE tablaFrames[m]]
      /\ fase' = [fase EXCEPT ![p] = "fin"]
      /\ UNCHANGED <<espacio, swap, marca>>
  BY DEF Destruir, LiberarProceso
<1>2. \A q \in alojados' : /\ q \in alojados /\ q # p /\ q \in Procesos /\ presente'[q] = presente[q]
                           /\ modificado'[q] = modificado[q] /\ marco'[q] = marco[q]
                           /\ slot'[q] = slot[q]
  <2>1. alojados \subseteq Procesos
    BY <1>0 DEF TipoMemoria
  <2>2. /\ presente \in [Procesos -> SUBSET Paginas]
        /\ modificado \in [Procesos -> SUBSET Paginas]
        /\ marco \in [Procesos -> [Paginas -> Marcos \cup {Nulo}]]
        /\ slot \in [Procesos -> [Paginas -> Slots \cup {Nulo}]]
    BY <1>0 DEF TipoMemoria
  <2> QED
    BY <1>1, <2>1, <2>2
<1>a. \A q \in alojados' : \A h : <<q, h>> \in escritas' <=> <<q, h>> \in escritas
  BY <1>2
<1>3. EscritasVivas' /\ Guardadas' /\ CopiasAlDia'
  <2>1. EscritasVivas'
    <3> SUFFICES ASSUME NEW x \in escritas, x[1] # p PROVE x \in alojados' \X Paginas
      BY DEF EscritasVivas
    <3>1. x \in alojados \X Paginas
      BY <1>0 DEF EscritasVivas
    <3> QED
      BY <1>1, <3>1
  <2>2. Guardadas'
    BY <1>0, <1>1, <1>2, <1>a DEF Guardadas
  <2>3. CopiasAlDia'
    BY <1>1, <1>2, <1>a DEF Contenidos, CopiasAlDia, PorMarcar
  <2> QED
    BY <2>1, <2>2, <2>3
<1>4. Intacto
  BY <1>1, <1>2, <1>a DEF Intacto, ContenidoDe, Contenido
<1>5. MarcaSinFalta'
  <2> SUFFICES ASSUME marca # Nulo, tablaFrames'[marca.marco] # Nulo
               PROVE  fase'[tablaFrames'[marca.marco][1]] \in {"listo", "sale"}
    BY <1>1 DEF MarcaSinFalta
  <2>0. marca.marco \in Marcos /\ tablaFrames \in [Marcos -> (Procesos \X Paginas) \cup {Nulo}]
    BY <1>0 DEF TipoMemoria
  <2> DEFINE f == marca.marco
             q == tablaFrames[f][1]
             h == tablaFrames[f][2]
  <2>1. tablaFrames'[f] = tablaFrames[f] /\ tablaFrames[f] \in Procesos \X Paginas
    BY <1>1, <2>0
  <2>2. q \in Procesos /\ f \in Ocupados
    BY <2>0, <2>1 DEF Ocupados
  <2>3. q \in alojados /\ h \in presente[q] /\ marco[q][h] = f
    BY <2>2 DEF Inv, Tablas, MarcosCoherentes
  <2>4. q # p
    <3> SUFFICES ASSUME q = p PROVE FALSE
      OBVIOUS
    <3>1. f \in {marco[p][i] : i \in presente[p]}
      BY <2>3
    <3>2. tablaFrames' = [m \in Marcos |-> IF m \in {marco[p][i] : i \in presente[p]} THEN Nulo
                                           ELSE tablaFrames[m]]
      BY DEF Destruir, LiberarProceso
    <3> QED
      BY <2>0, <3>1, <3>2
  <2>5. fase[q] \in {"listo", "sale"}
    BY <2>1 DEF Contenidos, MarcaSinFalta
  <2> QED
    BY <1>0, <1>1, <2>1, <2>2, <2>4, <2>5 DEF TypeOK
<1> QED
  BY <1>3, <1>4, <1>5 DEF Contenidos

-----------------------------------------------------------------------------
(* The history does not meddle: it is the system that makes the steps.     *)
LEMMA PasoDeEscrituras == [NextE]_varsE => [Next]_vars
BY DEF NextE, varsE, EscribirE, DestruirE, OtroPaso, Next, PedidosKernel, RutinaCpu, Detenido

LEMMA InvConHistoria == SpecE => []Inv
<1>1. InitE => Init
  BY DEF InitE
<1> QED
  BY <1>1, InvInicial, InvSigue, PasoDeEscrituras, PTL DEF SpecE

(* A step of the whole system: who may change the pages of whom.           *)
LEMMA Aislado ==
  ASSUME PaginasEnteras = Paginas, Inv, Contenidos, [NextE]_varsE
  PROVE  /\ Contenidos'
         /\ \A p \in alojados \cap alojados' :
              ContenidoDe(p)' # ContenidoDe(p)
                => acceso # Nulo /\ acceso.pid = p /\ acceso' = Nulo
<1>1. ASSUME UNCHANGED vars, escritas' = escritas
      PROVE  Contenidos' /\ Intacto
  <2>1. /\ UNCHANGED <<alojados, presente, modificado, marco, slot, espacio, swap, marca>>
        /\ UNCHANGED <<tablaFrames, fase>>
    BY <1>1 DEF vars, memoriaVars, tablaVars, marcosVars, cpuVars
  <2>2. MarcaSinFalta'
    BY <2>1 DEF Contenidos, MarcaSinFalta
  <2> QED
    BY <1>1, <2>1, <2>2, SinMover
<1>2. ASSUME caida = "no", OtroPaso, escritas' = escritas
      PROVE  Contenidos' /\ Intacto
  <2>1. ASSUME NEW p \in Procesos,
               Cpu(p) \/ Crear(p) \/ AtenderFaltaLibre(p) \/ AtenderFaltaReemplazo(p)
        PROVE  Contenidos' /\ Intacto
    BY <1>2, <2>1, AisladoCpu, AisladoCrear, AisladoCargar, AisladoElegir
  <2>2. CASE RutinaKernel
    BY <1>2, <2>2, AisladoElegir, AisladoReemplazar DEF RutinaKernel
  <2>3. CASE Leer \/ Marcar
    BY <1>2, <2>3, AisladoLeer, AisladoMarcar
  <2> QED
    BY <1>2, <2>1, <2>2, <2>3 DEF OtroPaso
<1>3. ASSUME NEW p \in Procesos, DestruirE(p)
      PROVE  Contenidos' /\ Intacto
  BY <1>3, AisladoDestruir DEF DestruirE
<1>4. ASSUME EscribirE
      PROVE  /\ Contenidos' /\ acceso # Nulo /\ acceso' = Nulo
             /\ \A p \in alojados : p # acceso.pid => ContenidoDe(p)' = ContenidoDe(p)
  <2>1. PICK v \in Valores : Escribir(v)
    BY <1>4 DEF EscribirE
  <2>2. /\ Contenidos' /\ acceso # Nulo /\ acceso' = Nulo
        /\ \E q \in alojados, h \in Paginas :
             /\ q = acceso.pid /\ escritas' = escritas \cup {<<q, h>>}
             /\ \A p \in alojados : \A g \in Paginas :
                  Contenido(p, g)' = IF p = q /\ g = h THEN v ELSE Contenido(p, g)
    BY <1>4, <2>1, AisladoEscribir DEF EscribirE
  <2>3. PICK q \in alojados, h \in Paginas :
          /\ q = acceso.pid /\ escritas' = escritas \cup {<<q, h>>}
          /\ \A p \in alojados : \A g \in Paginas :
               Contenido(p, g)' = IF p = q /\ g = h THEN v ELSE Contenido(p, g)
    BY <2>2
  <2>4. ASSUME NEW p \in alojados, p # acceso.pid, NEW g \in Paginas
        PROVE  /\ Contenido(p, g)' = Contenido(p, g)
               /\ <<p, g>> \in escritas' <=> <<p, g>> \in escritas
    BY <2>3, <2>4
  <2> QED
    BY <2>2, <2>4 DEF ContenidoDe
<1> QED
  BY <1>1, <1>2, <1>3, <1>4 DEF NextE, varsE, Detenido, Intacto

LEMMA ContenidosSiempre == PaginasEnteras = Paginas => (SpecE => []Contenidos)
<1> SUFFICES ASSUME PaginasEnteras = Paginas PROVE SpecE => []Contenidos
  OBVIOUS
<1>1. Inv /\ Contenidos /\ [NextE]_varsE => Contenidos'
  BY Aislado
<1> QED
  BY <1>1, ContenidosInicial, InvConHistoria, PTL DEF SpecE

(* When segments are whole numbers of pages, what a process wrote in its   *)
(* pages changes only when it executes another MOV_OUT: not when Memoria   *)
(* loads, saves or replaces pages, in a file that starts empty, not when   *)
(* others run, write, fault, start or end, and not through a TLB entry     *)
(* that is stale.                                                          *)
THEOREM AislamientoCorrecto == PaginasEnteras = Paginas => (SpecE => AislamientoContenido)
<1> SUFFICES ASSUME PaginasEnteras = Paginas PROVE SpecE => AislamientoContenido
  OBVIOUS
<1>1. Inv /\ Contenidos /\ [NextE]_varsE
        => [\A p \in alojados \cap alojados' :
              ContenidoDe(p)' # ContenidoDe(p)
                => acceso # Nulo /\ acceso.pid = p /\ acceso' = Nulo]_varsE
  BY Aislado
<1> QED
  BY <1>1, InvConHistoria, ContenidosSiempre, PTL DEF SpecE, AislamientoContenido

-----------------------------------------------------------------------------
(* Without a TLB. *)

LEMMA DirectoInicial == Init => AccesoDirecto
BY DEF Init, AccesoDirecto, AccesoVigente

(* The frame of the MOV in progress is given to no other page.             *)
LEMMA DirectoSigue ==
  ASSUME EntradasTLB = 0, Inv, AccesoDirecto, [Next]_vars
  PROVE  AccesoDirecto'
<1>0. TypeOK /\ TipoMemoria /\ AccesoPropio
  BY DEF Inv, TypeOK
<1>1. acceso # Nulo => /\ acceso.pid = enCpu /\ acceso.pid \in Procesos /\ acceso.pag \in Paginas
                       /\ acceso.marco \in Marcos /\ fase[enCpu] = "listo"
                       /\ tablaFrames[acceso.marco] = <<acceso.pid, acceso.pag>>
                       /\ acceso.marco \in Ocupados
  <2> SUFFICES ASSUME acceso # Nulo
               PROVE  /\ acceso.pid = enCpu /\ acceso.pid \in Procesos /\ acceso.pag \in Paginas
                      /\ acceso.marco \in Marcos /\ fase[enCpu] = "listo"
                      /\ tablaFrames[acceso.marco] = <<acceso.pid, acceso.pag>>
                      /\ acceso.marco \in Ocupados
    OBVIOUS
  <2>1. acceso \in Entrada
    BY <1>0 DEF TypeOK
  <2>2. acceso.pid \in Procesos /\ acceso.pag \in Paginas /\ acceso.marco \in Marcos
    BY <2>1 DEF Entrada
  <2>3. acceso.pid = enCpu /\ tablaFrames[acceso.marco] # Nulo
    BY <1>0 DEF AccesoPropio
  <2>4. FaseCoherente(enCpu)
    BY <2>2, <2>3 DEF Inv
  <2> QED
    BY <2>2, <2>3, <2>4 DEF FaseCoherente, AccesoDirecto, AccesoVigente, Ocupados
<1>2. ASSUME UNCHANGED <<tlb, acceso>>, acceso # Nulo => tablaFrames'[acceso.marco] = tablaFrames[acceso.marco]
      PROVE  AccesoDirecto'
  BY <1>2 DEF AccesoDirecto, AccesoVigente
<1>3. ASSUME tlb' = tlb, acceso' = Nulo
      PROVE  AccesoDirecto'
  BY <1>3 DEF AccesoDirecto, AccesoVigente
<1>4. CASE UNCHANGED vars
  BY <1>2, <1>4 DEF vars, memoriaVars, marcosVars, cpuVars
<1>5. CASE RutinaCpu
  <2>1. Leer \/ (\E v \in Valores : Escribir(v)) => tlb' = tlb /\ acceso' = Nulo
    BY DEF Leer, Escribir
  <2>2. Marcar => UNCHANGED <<tlb, acceso, tablaFrames>>
    BY DEF Marcar, MarcarPaginaUsada, cpuVars, marcosVars
  <2> QED
    BY <1>2, <1>3, <1>5, <2>1, <2>2 DEF RutinaCpu
<1>6. CASE ElegirVictima
  <2>1. UNCHANGED <<tlb, acceso, tablaFrames>>
    BY <1>6 DEF ElegirVictima, Clock, ClockMejorado, QuedarSinVictima, cpuVars, marcosVars
  <2> QED
    BY <1>2, <2>1
<1>7. CASE Reemplazar
  <2>1. rutina = "reemplaza" /\ rutina # "libre"
    BY <1>7 DEF Reemplazar, ReemplazarPagina
  <2>2. PICK p \in Procesos : p = pedida[1] /\ fase[p] = "cargando"
    BY <2>1, PedidaAfuera
  <2>3. victima \in presente[p]
    BY <2>1, <2>2 DEF Inv, Tablas, ColaCoherente
  <2>4. tablaFrames[marco[p][victima]] = <<p, victima>>
    BY <2>2, <2>3 DEF Inv, Tablas, MarcosCoherentes
  <2>5. /\ UNCHANGED <<tlb, acceso>>
        /\ tablaFrames' = [tablaFrames EXCEPT ![marco[p][victima]] = <<p, pedida[2]>>]
    BY <1>7, <2>2 DEF Reemplazar, ReemplazarPagina, OcuparMarco
  <2>6. acceso # Nulo => acceso.marco # marco[p][victima]
    <3>1. acceso # Nulo => enCpu # p
      BY <1>1, <2>2
    <3> QED
      BY <1>1, <2>4, <3>1
  <2>7. acceso # Nulo => tablaFrames'[acceso.marco] = tablaFrames[acceso.marco]
    BY <1>0, <1>1, <2>5, <2>6 DEF TipoMemoria
  <2> QED
    BY <1>2, <2>5, <2>7
<1>8. ASSUME NEW p \in Procesos, Crear(p) \/ AtenderFaltaReemplazo(p)
      PROVE  AccesoDirecto'
  <2>1. UNCHANGED <<tlb, acceso, tablaFrames>>
    BY <1>8 DEF Crear, NuevoProceso, AtenderFaltaReemplazo, EmpezarReemplazo, marcosVars
  <2> QED
    BY <1>2, <2>1
<1>9. ASSUME NEW p \in Procesos, AtenderFaltaLibre(p)
      PROVE  AccesoDirecto'
  <2>1. UNCHANGED <<tlb, acceso>>
    BY <1>9 DEF AtenderFaltaLibre
  <2>2. CASE Marcos \subseteq mapaFrames
    <3>1. UNCHANGED tablaFrames
      BY <1>9, <2>2 DEF AtenderFaltaLibre, CargarEnMarcoLibre
    <3> QED
      BY <1>2, <2>1, <3>1
  <2>3. CASE ~(Marcos \subseteq mapaFrames)
    <3> DEFINE f == PosicionLibre(mapaFrames, Marcos)
    <3>1. tablaFrames' = [tablaFrames EXCEPT ![f] = <<p, falta[p]>>]
      BY <1>9, <2>3 DEF AtenderFaltaLibre, CargarEnMarcoLibre, OcuparMarco
    <3>2. f \notin Ocupados
      BY <2>3, MarcoLibre DEF Inv, Tablas, MarcosCoherentes
    <3> HIDE DEF f
    <3>3. acceso # Nulo => tablaFrames'[acceso.marco] = tablaFrames[acceso.marco]
      BY <1>0, <1>1, <3>1, <3>2 DEF TipoMemoria
    <3> QED
      BY <1>2, <2>1, <3>3
  <2> QED
    BY <2>2, <2>3
<1>10. ASSUME NEW p \in Procesos, Destruir(p)
       PROVE  AccesoDirecto'
  <2> DEFINE propios == {marco[p][g] : g \in presente[p]}
  <2>1. /\ UNCHANGED <<tlb, acceso>> /\ fase[p] = "sale"
        /\ tablaFrames' = [m \in Marcos |-> IF m \in propios THEN Nulo ELSE tablaFrames[m]]
    BY <1>10 DEF Destruir, LiberarProceso
  <2>2. \A m \in propios : tablaFrames[m][1] = p
    <3>1. \A g \in presente[p] : tablaFrames[marco[p][g]] = <<p, g>>
      BY DEF Inv, Tablas, MarcosCoherentes
    <3> QED
      BY <3>1
  <2> HIDE DEF propios
  <2>3. acceso # Nulo => acceso.marco \notin propios
    <3>1. acceso # Nulo => enCpu # p /\ tablaFrames[acceso.marco][1] = enCpu
      BY <1>1, <2>1
    <3> QED
      BY <2>2, <3>1
  <2>4. acceso # Nulo => tablaFrames'[acceso.marco] = tablaFrames[acceso.marco]
    BY <1>1, <2>1, <2>3
  <2> QED
    BY <1>2, <2>1, <2>4
<1>11. ASSUME NEW p \in Procesos, Cpu(p)
       PROVE  AccesoDirecto'
  <2>0. tlb = <<>>
    BY DEF AccesoDirecto
  <2>1. ASSUME Despachar(p) \/ Desalojar(p)
        PROVE  AccesoDirecto'
    BY <1>2, <2>1 DEF Despachar, Desalojar, memoriaVars, marcosVars
  <2>2. CASE Salir(p)
    <3>1. acceso' = Nulo /\ tlb' = SinEntradasDe(p)
      BY <2>2 DEF Salir, TerminaInstruccion
    <3>2. tlb' \in Seq(Entrada) /\ Len(tlb') <= 0
      BY <1>0, <2>2, <3>1, TLBOperaciones DEF TypeOK
    <3>3. tlb' = <<>>
      BY <3>2, EmptySeq, LenProperties
    <3> QED
      BY <3>1, <3>3 DEF AccesoDirecto, AccesoVigente
  <2>3. ASSUME NEW g \in Paginas, TraducirAcierto(p, g)
        PROVE  FALSE
    BY <2>0, <2>3 DEF TraducirAcierto, Aciertos
  <2>4. ASSUME NEW g \in Paginas, TraducirFallo(p, g)
        PROVE  AccesoDirecto'
    <3> DEFINE f == ObtenerMarco(p, g)
    <3>1. CASE f = Nulo
      <4>1. UNCHANGED <<tlb, acceso, tablaFrames>>
        BY <2>4, <3>1 DEF TraducirFallo, memoriaVars, marcosVars
      <4> QED
        BY <1>2, <4>1
    <3>2. CASE f # Nulo
      <4>1. /\ acceso' = [pid |-> p, pag |-> g, marco |-> f]
            /\ tlb' = Agregada([pid |-> p, pag |-> g, marco |-> f])
            /\ UNCHANGED tablaFrames
        BY <2>4, <3>2 DEF TraducirFallo, memoriaVars, marcosVars
      <4>2. g \in presente[p] /\ f = marco[p][g]
        BY <3>2 DEF ObtenerMarco
      <4>3. tablaFrames[f] = <<p, g>>
        BY <4>2 DEF Inv, Tablas, MarcosCoherentes
      <4>4. tlb' = <<>>
        BY <2>0, <4>1 DEF Agregada
      <4> QED
        BY <4>1, <4>3, <4>4 DEF AccesoDirecto, AccesoVigente
    <3> QED
      BY <3>1, <3>2
  <2> QED
    BY <1>11, <2>1, <2>2, <2>3, <2>4 DEF Cpu
<1> QED
  BY <1>4, <1>5, <1>6, <1>7, <1>8, <1>9, <1>10, <1>11 DEF Next, PedidosKernel, RutinaKernel, Detenido

(* Without a TLB, the frame that a MOV uses still holds the page that the  *)
(* program named: what the comment of cpu_routine expects of every access. *)
THEOREM VigenteCorrecto == EntradasTLB = 0 => (Spec => []AccesoVigente)
<1> SUFFICES ASSUME EntradasTLB = 0 PROVE Spec => []AccesoVigente
  OBVIOUS
<1>1. Inv /\ AccesoDirecto /\ [Next]_vars => AccesoDirecto'
  BY DirectoSigue
<1>2. AccesoDirecto => AccesoVigente
  BY DEF AccesoDirecto
<1> QED
  BY <1>1, <1>2, DirectoInicial, InvSiempre, PTL DEF Spec

-----------------------------------------------------------------------------
(* The memory that the program expects. *)

(* What MemoriaLogica calls contenido and pedido. *)
Paginado == [p \in alojados |-> ContenidoDe(p)]
Pedido   == IF acceso = Nulo THEN Nulo ELSE <<acceso.pid, acceso.pag>>

Logico == Inv /\ Contenidos /\ AccesoDirecto

LEMMA LogicaInicial == InitE => Logica!Init
<1> SUFFICES ASSUME InitE PROVE Logica!Init
  OBVIOUS
<1>1. alojados = {} /\ acceso = Nulo /\ registro = 0
  BY DEF InitE, Init, InitMemoria
<1>2. 0 \in Valores
  BY SupuestosMemoria DEF SupuestosMemoria
<1> QED
  BY <1>1, <1>2 DEF Logica!Init

LEMMA LogicaQuieta ==
  ASSUME Intacto, UNCHANGED <<alojados, acceso, registro>>
  PROVE  UNCHANGED <<Paginado, Pedido, registro>>
<1>1. Paginado' = Paginado
  BY DEF Paginado, Intacto
<1> QED
  BY <1>1 DEF Pedido

(* A translation asks for a page of a live process. *)
LEMMA LogicaCpu ==
  ASSUME PaginasEnteras = Paginas, Logico, NEW p \in Procesos, Cpu(p), escritas' = escritas
  PROVE  Logica!Next \/ UNCHANGED <<Paginado, Pedido, registro>>
<1>0. Intacto /\ tlb = <<>> /\ FaseCoherente(p)
  BY AisladoCpu DEF Logico, Inv, AccesoDirecto
<1>1. UNCHANGED <<alojados, registro>>
  BY DEF Cpu, Despachar, Desalojar, Salir, TraducirAcierto, TraducirFallo, TerminaInstruccion,
         memoriaVars, tablaVars
<1>2. CASE acceso' = acceso
  BY <1>0, <1>1, <1>2, LogicaQuieta
<1>3. CASE acceso' # acceso
  <2>1. PICK g \in Paginas : TraducirFallo(p, g) /\ ObtenerMarco(p, g) # Nulo
    <3>1. \A g \in Paginas : ~TraducirAcierto(p, g)
      BY <1>0 DEF TraducirAcierto, Aciertos
    <3> QED
      BY <1>3, <3>1 DEF Cpu, Despachar, Desalojar, Salir, TraducirFallo
  <2>2. /\ acceso = Nulo /\ enCpu = p
        /\ acceso' = [pid |-> p, pag |-> g, marco |-> ObtenerMarco(p, g)]
    BY <2>1 DEF TraducirFallo
  <2>3. acceso' # Nulo
    <3>1. g \in presente[p] /\ ObtenerMarco(p, g) = marco[p][g]
      BY <2>1 DEF ObtenerMarco
    <3>2. marco[p][g] \in Marcos
      BY <3>1 DEF Logico, Inv, Tablas, PaginasUbicadas
    <3>3. acceso' \in Entrada
      BY <2>2, <3>1, <3>2 DEF Entrada
    <3> QED
      BY <3>3, SupuestosTLB DEF SupuestosTLB
  <2>4. p \in alojados
    BY <1>0, <2>2 DEF FaseCoherente
  <2>5. Pedido = Nulo /\ Pedido' = <<p, g>>
    BY <2>2, <2>3 DEF Pedido
  <2>6. Paginado' = Paginado
    BY <1>0, <1>1 DEF Paginado, Intacto
  <2>7. Logica!Pedir(p, g)
    BY <1>1, <2>5, <2>6 DEF Logica!Pedir, Pedido, Paginado
  <2>8. p \in Logica!Vivos
    BY <2>4 DEF Logica!Vivos
  <2> QED
    BY <2>7, <2>8 DEF Logica!Next
<1> QED
  BY <1>2, <1>3

(* The frame of a MOV is that of the page that the program named.          *)
LEMMA AccesoPedido ==
  ASSUME PaginasEnteras = Paginas, Logico, acceso # Nulo
  PROVE  /\ acceso.pid \in alojados /\ acceso.pid \in Procesos /\ acceso.pag \in Paginas
         /\ acceso.pag \in presente[acceso.pid] /\ acceso.marco \in Marcos
         /\ marco[acceso.pid][acceso.pag] = acceso.marco
         /\ Pedido = <<acceso.pid, acceso.pag>>
<1>1. acceso \in Entrada
  BY DEF Logico, Inv, TypeOK
<1>2. acceso.pid \in Procesos /\ acceso.pag \in Paginas /\ acceso.marco \in Marcos
  BY <1>1 DEF Entrada
<1>3. tablaFrames[acceso.marco] = <<acceso.pid, acceso.pag>> /\ tablaFrames[acceso.marco] # Nulo
  BY DEF Logico, Inv, AccesoPropio, AccesoDirecto, AccesoVigente
<1>4. acceso.marco \in Ocupados
  BY <1>2, <1>3 DEF Ocupados
<1>5. tablaFrames[acceso.marco][1] = acceso.pid /\ tablaFrames[acceso.marco][2] = acceso.pag
  BY <1>3
<1> QED
  BY <1>2, <1>4, <1>5 DEF Logico, Inv, Tablas, MarcosCoherentes, Pedido

LEMMA LogicaLeer ==
  ASSUME PaginasEnteras = Paginas, Logico, Leer, escritas' = escritas
  PROVE  Logica!Next
<1>1. acceso # Nulo /\ acceso' = Nulo /\ registro' = espacio[acceso.marco] /\ alojados' = alojados
  BY DEF Leer, MovIn, tablaVars
<1>2. PICK p \in alojados, g \in Paginas : p = acceso.pid /\ g = acceso.pag
  BY <1>1, AccesoPedido
<1>3. /\ g \in presente[p] /\ marco[p][g] = acceso.marco /\ p \in Procesos
      /\ Pedido = <<p, g>> /\ Pedido' = Nulo
  BY <1>1, <1>2, AccesoPedido DEF Pedido
<1>4. registro' \in Valores /\ (Paginado[p][g] # Nulo => registro' = Paginado[p][g])
  <2>1. registro' \in Valores
    BY <1>1, AccesoPedido DEF Logico, Inv, TypeOK, TipoMemoria
  <2>2. Contenido(p, g) = registro'
    BY <1>1, <1>2, <1>3 DEF Contenido
  <2>3. Paginado[p][g] = IF <<p, g>> \in escritas THEN Contenido(p, g) ELSE Nulo
    BY DEF Paginado, ContenidoDe
  <2> QED
    BY <2>1, <2>2, <2>3
<1>5. Paginado' = Paginado
  <2>1. Intacto
    BY AisladoLeer DEF Logico
  <2> QED
    BY <1>1, <2>1 DEF Paginado, Intacto
<1>6. Logica!Leer(p, g)
  BY <1>3, <1>4, <1>5 DEF Logica!Leer, Pedido, Paginado
<1>7. p \in Logica!Vivos
  BY DEF Logica!Vivos
<1> QED
  BY <1>3, <1>6, <1>7 DEF Logica!Next

LEMMA LogicaEscribir ==
  ASSUME PaginasEnteras = Paginas, Logico, EscribirE
  PROVE  Logica!Next
<1>1. PICK v \in Valores : Escribir(v)
  BY DEF EscribirE
<1>2. /\ acceso # Nulo /\ acceso' = Nulo /\ alojados' = alojados
      /\ \E q \in alojados, h \in Paginas :
           /\ tablaFrames[acceso.marco] = <<q, h>>
           /\ escritas' = escritas \cup {<<q, h>>}
           /\ \A p \in alojados : \A g \in Paginas :
                Contenido(p, g)' = IF p = q /\ g = h THEN v ELSE Contenido(p, g)
  BY <1>1, AisladoEscribir DEF Logico, EscribirE
<1>3. PICK p \in alojados, g \in Paginas :
        /\ tablaFrames[acceso.marco] = <<p, g>>
        /\ escritas' = escritas \cup {<<p, g>>}
        /\ \A q \in alojados : \A h \in Paginas :
             Contenido(q, h)' = IF q = p /\ h = g THEN v ELSE Contenido(q, h)
  BY <1>2
<1>4. Pedido = <<p, g>> /\ Pedido' = Nulo /\ p \in Procesos
  <2>1. tablaFrames[acceso.marco] = <<acceso.pid, acceso.pag>>
    BY <1>2 DEF Logico, AccesoDirecto, AccesoVigente
  <2>2. p = acceso.pid /\ g = acceso.pag
    BY <1>3, <2>1
  <2> QED
    BY <1>2, <2>2, AccesoPedido DEF Pedido
<1>5. Paginado' = [Paginado EXCEPT ![p][g] = v]
  <2>1. \A q \in alojados : \A h \in Paginas :
          <<q, h>> \in escritas' <=> <<q, h>> \in escritas \/ (q = p /\ h = g)
    BY <1>3
  <2>2. \A q \in alojados : ContenidoDe(q)' = IF q = p THEN [ContenidoDe(p) EXCEPT ![g] = v]
                                               ELSE ContenidoDe(q)
    BY <1>3, <2>1 DEF ContenidoDe
  <2> QED
    BY <1>2, <2>2 DEF Paginado
<1>6. registro' = registro
  BY <1>1 DEF Escribir
<1>7. Logica!Escribir(p, g, v)
  BY <1>4, <1>5, <1>6 DEF Logica!Escribir, Pedido, Paginado
<1>8. p \in Logica!Vivos
  BY DEF Logica!Vivos
<1> QED
  BY <1>7, <1>8 DEF Logica!Next

LEMMA LogicaCrear ==
  ASSUME PaginasEnteras = Paginas, Logico, NEW p \in Procesos, Crear(p), escritas' = escritas
  PROVE  Logica!Next \/ UNCHANGED <<Paginado, Pedido, registro>>
<1>0. Contenidos' /\ Intacto
  BY AisladoCrear DEF Logico
<1>1. UNCHANGED <<acceso, registro>> /\ fase[p] = "nuevo"
  BY DEF Crear
<1>2. CASE alojados' = alojados
  BY <1>0, <1>1, <1>2, LogicaQuieta
<1>3. CASE alojados' = alojados \cup {p}
  <2>1. p \notin alojados
    BY <1>1 DEF Logico, Inv, FaseCoherente
  <2>2. ContenidoDe(p)' = [g \in Paginas |-> Nulo]
    <3>1. \A g \in Paginas : <<p, g>> \notin escritas
      BY <2>1 DEF Logico, Contenidos, EscritasVivas
    <3> QED
      BY <3>1 DEF ContenidoDe
  <2>3. Paginado' = [q \in alojados \cup {p} |->
                      IF q = p THEN [g \in Paginas |-> Nulo] ELSE Paginado[q]]
    <3>1. \A q \in alojados : ContenidoDe(q)' = Paginado[q] /\ q # p
      BY <1>0, <1>3, <2>1 DEF Intacto, Paginado
    <3> QED
      BY <1>3, <2>2, <3>1 DEF Paginado
  <2>4. Logica!Vivos = alojados
    BY DEF Logica!Vivos
  <2>5. Logica!Crear(p)
    BY <1>1, <2>3, <2>4 DEF Logica!Crear, Paginado
  <2> QED
    BY <2>1, <2>4, <2>5 DEF Logica!Next
<1> QED
  BY <1>2, <1>3 DEF Crear, NuevoProceso

LEMMA LogicaDestruir ==
  ASSUME PaginasEnteras = Paginas, Logico, NEW p \in Procesos, DestruirE(p)
  PROVE  Logica!Next
<1>0. Intacto
  BY AisladoDestruir DEF Logico, DestruirE
<1>1. /\ UNCHANGED <<acceso, registro>> /\ fase[p] = "sale" /\ alojados' = alojados \ {p}
  BY DEF DestruirE, Destruir, LiberarProceso
<1>2. p \in alojados
  BY <1>1 DEF Logico, Inv, FaseCoherente
<1>3. Logica!Vivos = alojados
  BY DEF Logica!Vivos
<1>4. Paginado' = [q \in alojados \ {p} |-> Paginado[q]]
  BY <1>0, <1>1 DEF Paginado, Intacto
<1>5. Logica!Destruir(p)
  BY <1>1, <1>3, <1>4 DEF Logica!Destruir, Paginado
<1> QED
  BY <1>2, <1>3, <1>5 DEF Logica!Next

LEMMA LogicaPaso ==
  ASSUME PaginasEnteras = Paginas, Logico, [NextE]_varsE
  PROVE  Logica!Next \/ UNCHANGED <<Paginado, Pedido, registro>>
<1>1. ASSUME caida = "no", escritas' = escritas,
             NEW p \in Procesos, AtenderFaltaLibre(p) \/ AtenderFaltaReemplazo(p)
      PROVE  UNCHANGED <<Paginado, Pedido, registro>>
  <2>1. Intacto
    BY <1>1, AisladoCargar, AisladoElegir DEF Logico
  <2>2. UNCHANGED <<alojados, acceso, registro>>
    BY <1>1 DEF AtenderFaltaLibre, CargarEnMarcoLibre, AtenderFaltaReemplazo, EmpezarReemplazo,
               tablaVars
  <2> QED
    BY <2>1, <2>2, LogicaQuieta
<1>2. ASSUME RutinaKernel, escritas' = escritas
      PROVE  UNCHANGED <<Paginado, Pedido, registro>>
  <2>1. Intacto
    BY <1>2, AisladoElegir, AisladoReemplazar DEF Logico, RutinaKernel
  <2>2. UNCHANGED <<alojados, acceso, registro>>
    BY <1>2 DEF RutinaKernel, ElegirVictima, Clock, ClockMejorado, QuedarSinVictima, Reemplazar,
               ReemplazarPagina, tablaVars, cpuVars
  <2> QED
    BY <2>1, <2>2, LogicaQuieta
<1>3. ASSUME Marcar, escritas' = escritas
      PROVE  UNCHANGED <<Paginado, Pedido, registro>>
  <2>1. Intacto
    BY <1>3, AisladoMarcar DEF Logico
  <2>2. UNCHANGED <<alojados, acceso, registro>>
    BY <1>3 DEF Marcar, MarcarPaginaUsada, cpuVars
  <2> QED
    BY <2>1, <2>2, LogicaQuieta
<1>4. ASSUME UNCHANGED vars, escritas' = escritas
      PROVE  UNCHANGED <<Paginado, Pedido, registro>>
  <2>1. UNCHANGED <<alojados, presente, marco, slot, espacio, swap, acceso, registro>>
    BY <1>4 DEF vars, memoriaVars, tablaVars, marcosVars, cpuVars
  <2>2. Intacto
    BY <1>4, <2>1 DEF Intacto, ContenidoDe, Contenido
  <2> QED
    BY <2>1, <2>2, LogicaQuieta
<1> QED
  BY <1>1, <1>2, <1>3, <1>4, LogicaCpu, LogicaLeer, LogicaEscribir, LogicaCrear, LogicaDestruir
  DEF NextE, varsE, OtroPaso, Detenido

(* Without a TLB, and with segments of whole pages, a program cannot tell  *)
(* the paged, swapped and replaced memory from one that just keeps what    *)
(* was written in each page, and promises nothing of a page before that:   *)
(* the system implements MemoriaLogica.                                    *)
THEOREM ImplementaLogicaCorrecto ==
  PaginasEnteras = Paginas /\ EntradasTLB = 0 => (SpecE => ImplementaLogica)
<1> SUFFICES ASSUME PaginasEnteras = Paginas, EntradasTLB = 0 PROVE SpecE => ImplementaLogica
  OBVIOUS
<1>1. InitE => Logica!Init
  BY LogicaInicial
<1>2. Logico /\ [NextE]_varsE
        => [Logica!Next]_<<[p \in alojados |-> ContenidoDe(p)],
                           IF acceso = Nulo THEN Nulo ELSE <<acceso.pid, acceso.pag>>, registro>>
  BY LogicaPaso DEF Paginado, Pedido
<1>3. SpecE => []Logico
  <2>1. Inv /\ AccesoDirecto /\ [NextE]_varsE => AccesoDirecto'
    BY DirectoSigue, PasoDeEscrituras
  <2>2. SpecE => []Contenidos
    BY ContenidosSiempre
  <2>3. InitE => Init
    BY DEF InitE
  <2> QED
    BY <2>1, <2>2, <2>3, DirectoInicial, InvConHistoria, PTL DEF SpecE, Logico
<1> QED
  BY <1>1, <1>2, <1>3, PTL DEF SpecE, ImplementaLogica, Logica!Spec
=============================================================================
