\* Two well-formed programs, any code, and registers outside the array from malloc, with fairness.
CONSTANTS
  p1 = p1
  p2 = p2
  Nulo = Nulo
  Procesos = {p1, p2}
  Programa <- Parejas
  CantRegistros = 2
  Palabras = 2
  Numeral <- Numerales
  Segmentos <- SinBytes
  TamPagina = 4
  EntradasTabla = 2
  Dispositivos = {"DISCO"}
  CodigosBasura <- CodigoCualquiera
  IndicesBasura <- IndiceAfuera
SPECIFICATION SpecJusta
INVARIANTS
  TypeOK
  NadaAfuera
PROPERTIES
  ImplementaInterprete
  TodosTerminan
CHECK_DEADLOCK FALSE
