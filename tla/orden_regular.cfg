\* One request or notification at a time, clients that follow the signing flow,
\* a master and one amendment.
SPECIFICATION SpecOrden
CONSTANTS
  Centavo = 1
  NaN = NaN
  Maestro = Maestro
  Modificatorio = Modificatorio
  Radio = Radio
  Fondos <- DosFondos
  Servicios = {Radio}
  Servicio = Radio
  Techo <- TechoDeDos
  Tareas <- Entregas
  Eventos <- EventosDeOrden
  Llamadas <- LlamadasMC
  Reservas <- ReservasMC
  Serial = TRUE
  ConFallos = FALSE
  MaxInicios = 10
  Extensiones <- UnaExtension
  MontoMaximo = 2
  Ordenes = {o1, o2}
  Totales = {1, 3}
  Hilos = {h1}
  MaxEnvios = 1
  MaxEntregas = 1
  Operaciones = {"crear", "quitar", "firmar"}
  ClienteRegular = TRUE
INVARIANTS TypeOKOrden ReservaCuadra SinSobregiro EstatusSegunFirmas
PROPERTY OrdenesEnLibros
CHECK_DEADLOCK FALSE
