\* Requests and notifications overlap, are repeated, reject and stop half way.
SPECIFICATION SpecOrden
CONSTANTS
  Centavo = 1
  NaN = NaN
  Maestro = Maestro
  Modificatorio = Modificatorio
  Radio = Radio
  Fondos <- UnFondo
  Servicios = {Radio}
  Servicio = Radio
  Techo <- TechoDeDos
  Tareas <- Entregas
  Eventos <- EventosDeOrden
  Llamadas <- LlamadasMC
  Reservas <- ReservasMC
  Serial = FALSE
  ConFallos = TRUE
  MaxInicios = 4
  Extensiones <- SinExtension
  MontoMaximo = 1
  Ordenes = {o1, o2}
  Totales = {2}
  Hilos = {h1, h2}
  MaxEnvios = 1
  MaxEntregas = 2
  Operaciones = {"crear", "quitar", "actualizar", "firmar", "cancelar"}
  ClienteRegular = FALSE
SYMMETRY Simetria
INVARIANTS ActivoConFirma ActivaConFirma
CHECK_DEADLOCK FALSE
