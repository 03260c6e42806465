\* Two requests at once, every query settles.
SPECIFICATION FairSpecOrden
CONSTANTS
  Centavo = 1
  NaN = NaN
  Maestro = Maestro
  Modificatorio = Modificatorio
  Radio = Radio
  Fondos <- UnFondo
  Servicios = {Radio}
  Servicio = Radio
  Techo <- TechoDeDos
  Tareas <- Entregas
  Eventos <- EventosDeOrden
  Llamadas <- LlamadasMC
  Reservas <- ReservasMC
  Serial = FALSE
  ConFallos = FALSE
  MaxInicios = 4
  Extensiones <- SinExtension
  MontoMaximo = 1
  Ordenes = {o1}
  Totales = {1, 2}
  Hilos = {h1, h2}
  MaxEnvios = 1
  MaxEntregas = 1
  Operaciones = {"crear", "quitar", "actualizar", "firmar"}
  ClienteRegular = FALSE
PROPERTIES TodoTermina NotificacionSurteEfecto
CHECK_DEADLOCK FALSE
