\* Two processes admitted out of three, two READY queues, a device and the screen.
CONSTANTS
  p1 = p1
  p2 = p2
  p3 = p3
  Nulo = Nulo
  Procesos = {p1, p2, p3}
  Grado = 2
  Dispositivos = {"DISCO"}
  Solicitudes = {"PANTALLA", "DISCO", "IMPRESORA"}
  MaxCancelados = 1
  Algoritmo = "FEEDBACK"
SYMMETRY Simetria
SPECIFICATION Spec
INVARIANTS
  TypeOK
  NuncaCae
  AvisosReady
  SemaforosExactos
  MonitorMemoria
  UnSoloLugar
  PedidosAMemoria
  RegistroLeeVivo
PROPERTY ImplementaEstados
