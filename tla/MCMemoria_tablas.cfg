\* Three processes over two frames and slots for two, with bitmaps that may be dirty.
SPECIFICATION Spec
CONSTANTS
    Procesos = {p1, p2, p3}
    CantPaginas = 2
    PaginasEnteras <- DosPaginas
    CantMarcos = 2
    CantSlots = 4
    MarcosPorProceso = 2
    AlgoritmoReemplazo = "CLOCK-M"
    Valores = {0}
    BasuraMarcos <- Sucio
    BasuraSwap <- SlotSucio
    EntradasTLB = 2
    ReemplazoTLB = "LRU"
    Nulo = Nulo
SYMMETRY Simetria
INVARIANTS
    TypeOK
    TablasCoherentes
    ColaCoherente
    TLBPropia
    ReintentoNoFalla
    CausasDeCaida
