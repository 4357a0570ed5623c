\* Two processes that read and write, with one frame each and a TLB of one entry.
SPECIFICATION SpecE
CONSTANTS
    Procesos = {p1, p2}
    CantPaginas = 2
    PaginasEnteras <- DosPaginas
    CantMarcos = 2
    CantSlots = 4
    MarcosPorProceso = 1
    AlgoritmoReemplazo = "CLOCK"
    Valores = {0, 1}
    BasuraMarcos <- Limpio
    BasuraSwap <- Limpio
    EntradasTLB = 1
    ReemplazoTLB = "FIFO"
    Nulo = Nulo
SYMMETRY Simetria
PROPERTIES
    AislamientoContenido
