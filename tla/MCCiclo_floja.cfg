\* A well-formed program beside one that is not.
CONSTANTS
  p1 = p1
  p2 = p2
  Nulo = Nulo
  Procesos = {p1, p2}
  Programa <- ConFloja
  CantRegistros = 2
  Palabras = 2
  Numeral <- Numerales
  Segmentos <- UnaPagina
  TamPagina = 4
  EntradasTabla = 2
  Dispositivos = {"DISCO"}
  CodigosBasura <- CodigoNulo
  IndicesBasura <- IndiceUno
SPECIFICATION Spec
PROPERTIES
  ImplementaInterprete
  SoloElPropio
CHECK_DEADLOCK FALSE
