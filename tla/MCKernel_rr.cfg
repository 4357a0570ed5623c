\* Three processes for two places, with a quantum whose clocks are cancelled in time.
CONSTANTS
  p1 = p1
  p2 = p2
  p3 = p3
  Nulo = Nulo
  Procesos = {p1, p2, p3}
  Grado = 2
  Dispositivos = {"DISCO"}
  Solicitudes = {"TECLADO", "DISCO", "IMPRESORA"}
  MaxCancelados = 0
  Algoritmo = "RR"
SPECIFICATION SpecJusta
PROPERTY TodosTerminan
