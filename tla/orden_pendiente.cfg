\* One order, clients that follow the signing flow, one thing at a time.
SPECIFICATION SpecOrden
CONSTANTS
  Centavo = 1
  NaN = NaN
  Maestro = Maestro
  Modificatorio = Modificatorio
  Radio = Radio
  Fondos <- DosFondos
  Servicios = {Radio}
  Servicio = Radio
  Techo <- TechoDeDos
  Tareas <- Entregas
  Eventos <- EventosDeOrden
  Llamadas <- LlamadasMC
  Reservas <- ReservasMC
  Serial = TRUE
  ConFallos = FALSE
  MaxInicios = 7
  Extensiones <- UnaExtension
  MontoMaximo = 2
  Ordenes = {o1}
  Totales = {1, 3}
  Hilos = {h1}
  MaxEnvios = 1
  MaxEntregas = 1
  Operaciones = {"crear", "quitar", "firmar"}
  ClienteRegular = TRUE
INVARIANT PendienteSinActivar
CHECK_DEADLOCK FALSE
