\* One invoice, signed, paid by files and cancelled, with overlaps and failures.
SPECIFICATION FairSpecFactura
CONSTANTS
  Centavo = 1
  NaN = NaN
  Maestro = Maestro
  Modificatorio = Modificatorio
  Radio = Radio
  Folio = Folio
  f1 = f1
  o1 = o1
  o2 = o2
  Fondos <- DosFondos
  Servicios = {Radio}
  Servicio = Radio
  Techo <- TechoDeTres
  Tareas <- TareasMC
  Eventos <- EventosDeFactura
  Llamadas <- LlamadasMC
  Reservas <- ReservasMC
  Serial = FALSE
  ConFallos = TRUE
  MaxInicios = 7
  Facturas = {f1, f2}
  Folios = {Folio}
  Ordenes = {o1, o2}
  CargosDe <- CargosMC
  Totales = {3}
  Antes <- AntesMC
  Archivos <- ArchivosMC
  Hilos = {h1, h2}
  MaxEnvios = 1
  MaxAvisos = 2
  MaxIncidentes = 1
INVARIANTS PagadaCubierta PagoSinDuplicado PagosConAprobacion LibroSegunFacturas
PROPERTY TodoAcaba
CHECK_DEADLOCK FALSE
