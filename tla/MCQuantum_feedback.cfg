\* Two processes in the two feedback queues and two threads: quanta of any length.
CONSTANTS
  p1 = p1
  p2 = p2
  p3 = p3
  k1 = k1
  k2 = k2
  k3 = k3
  Nulo = Nulo
  Procesos = {p1, p2}
  Hilos = {k1, k2}
  MaxOtros = 1
  MaxAvisos = 1
  Algoritmo = "FEEDBACK"
  QuantumLargo = FALSE
SYMMETRY Simetria
SPECIFICATION Spec
INVARIANTS
  TypeOK
  ContextoExclusivo
  BuzonExclusivo
  AvisosEnOrden
  RelojDelTurno
PROPERTIES
  DesalojoJustificado
  ObedeceAviso
  CancelaSuReloj
