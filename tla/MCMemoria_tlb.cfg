\* Two processes with one frame each and a TLB of two entries.
SPECIFICATION Spec
CONSTANTS
    Procesos = {p1, p2}
    CantPaginas = 2
    PaginasEnteras <- DosPaginas
    CantMarcos = 2
    CantSlots = 4
    MarcosPorProceso = 1
    AlgoritmoReemplazo = "CLOCK"
    Valores = {0}
    BasuraMarcos <- Limpio
    BasuraSwap <- Limpio
    EntradasTLB = 2
    ReemplazoTLB = "LRU"
    Nulo = Nulo
SYMMETRY Simetria
INVARIANTS
    AccesoVigente
