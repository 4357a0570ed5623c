\* Two consoles; the process of one asks twice for the screen or the keyboard.
CONSTANTS
  c1 = c1
  c2 = c2
  Nulo = Nulo
  Consolas = {c1, c2}
  Segmentos <- DosSegmentos
  Lineas <- PocasLineas
  Valores = {4, 6}
  Salidas = {6}
  MaxPedidos <- DosPedidos
  Cancelables = {c2}
SPECIFICATION SpecJusta
INVARIANTS
  TypeOK
  CadaUnoLoSuyo
  DialogoFiel
  CaidaConCausa
  ConsolaVeraz
PROPERTY TodasTerminan
CHECK_DEADLOCK FALSE
