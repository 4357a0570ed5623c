\* Round robin with a quantum that outlasts the exchanges.
CONSTANTS
  p1 = p1
  p2 = p2
  p3 = p3
  k1 = k1
  k2 = k2
  k3 = k3
  Nulo = Nulo
  Procesos = {p1, p2}
  Hilos = {k1, k2}
  MaxOtros = 1
  MaxAvisos = 1
  Algoritmo = "RR"
  QuantumLargo = TRUE
SPECIFICATION SpecJusta
PROPERTY NadieEspera
