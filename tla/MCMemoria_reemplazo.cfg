\* Two processes over three frames: one of them has to replace its only page.
SPECIFICATION SpecJusta
CONSTANTS
    Procesos = {p1, p2}
    CantPaginas = 2
    PaginasEnteras <- DosPaginas
    CantMarcos = 3
    CantSlots = 4
    MarcosPorProceso = 2
    AlgoritmoReemplazo = "CLOCK-M"
    Valores = {0}
    BasuraMarcos <- Limpio
    BasuraSwap <- Limpio
    EntradasTLB = 0
    ReemplazoTLB = "FIFO"
    Nulo = Nulo
PROPERTIES
    ReemplazoTermina
