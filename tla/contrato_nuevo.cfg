\* A provider with no contract yet and one that is created.
SPECIFICATION SpecContratos
CONSTANTS
  m1 = m1
  m2 = m2
  m3 = m3
  Radio = Radio
  Prensa = Prensa
  s1 = s1
  s2 = s2
  Tipos = {Radio, Prensa}
  Maestros = {m1, m2, m3}
  TiposDe <- TiposDeMC
  Vence <- VenceMC
  Existentes = {}
  Estatus = {"PENDIENTE", "ADJUDICADO"}
  MaxModificatorios = 1
  Extensiones = {"TIME"}
  Prorrogas = {1}
  Estaciones = {e1}
  Servicios = {s1, s2}
  Iniciales <- InicialesMC
  Hilos = {1}
  Dias = 1
  MaxInicios = 2
  MaxIncidentes = 0
  Coste = 2
INVARIANT NuevoContratoHabilita
CHECK_DEADLOCK FALSE
