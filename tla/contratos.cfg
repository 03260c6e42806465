\* One provider with two stations, three contracts, two amendments and two
\* nights, with one overlap, failure or irregular request.
SPECIFICATION FairSpecContratos
CONSTANTS
  m1 = m1
  m2 = m2
  m3 = m3
  Radio = Radio
  Prensa = Prensa
  s1 = s1
  s2 = s2
  Tipos = {Radio, Prensa}
  Maestros = {m1, m2, m3}
  TiposDe <- TiposDeMC
  Vence <- VenceMC
  Existentes = {m1}
  Estatus = {"PENDIENTE", "ADJUDICADO"}
  MaxModificatorios = 2
  Extensiones = {"TIME", "BOTH"}
  Prorrogas = {1}
  Estaciones = {e1, e2}
  Servicios = {s1, s2, s3}
  Iniciales <- InicialesMC
  Hilos = {1, 2}
  Dias = 2
  MaxInicios = 4
  MaxIncidentes = 1
  Coste = 2
INVARIANTS TypeOKContratos ServiciosSegunContratos UnSoloContratoPorServicio CanceladoCompleto VencidosTerminados UnaUltimaRenovacion
PROPERTIES TodoAcaba
CHECK_DEADLOCK FALSE
