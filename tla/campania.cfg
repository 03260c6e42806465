\* One campaign and its renewal, another one created, orders, signatures,
\* closings and matches, with one overlap, failure or irregular request.
SPECIFICATION FairSpecCampania
CONSTANTS
  Centavo = 1
  NaN = NaN
  Maestro = Maestro
  Modificatorio = Modificatorio
  Fondos <- DosFondos
  Servicios = {Radio}
  Servicio = Radio
  Techo <- TechoMC
  Tareas <- TareasMC
  Eventos <- EventosDeOrden
  Llamadas <- LlamadasMC
  Reservas = {}
  Serial = FALSE
  ConFallos = TRUE
  MaxInicios = 6
  Campanias = {c1, c2}
  Existentes = {c1}
  Extensiones <- ExtensionesMC
  Ordenes = {o1, o2}
  Totales = {2}
  o1 = o1
  o2 = o2
  Pendientes <- PendientesMC
  Hilos = {1, 2}
  Envios = {1, 2}
  MaxAvisos = 1
  EventosPartida = {"ORDER_APPROVED", "ORDER_CANCELLED", "INVOICE_REVIEWED", "INVOICE_PAID", "INVOICE_CANCELLED"}
  Cobros = {1, 2}
  MaxActivaciones = 3
  MaxIncidentes = 1
  Coste = 3
INVARIANTS TypeOKCampania UnaVigente AprobadaConFirma CampaniaConDocumento ReservaDeCampania PartidaCuadra
PROPERTIES PartidaCerrada TodoAcaba
CHECK_DEADLOCK FALSE
