\* Two handlers interleave at every await, queries reject, the process stops.
\* INVOICE_CANCELLED moves money between the pairs and is left out; with it no fund
\* is FondoSeguro. INVOICE_APPROVED leaves only the master FondoSeguro.
SPECIFICATION Spec
CONSTANTS
  Centavo = 1
  NaN = NaN
  Maestro = Maestro
  Modificatorio = Modificatorio
  Radio = Radio
  Television = Television
  Fondos <- DosFondos
  Servicios = {Radio}
  Techo <- TechoDeCuatro
  Tareas = {t1, t2}
  Eventos = {"ORDER_APPROVED", "ORDER_CANCELLED", "INVOICE_APPROVED", "INVOICE_PAID"}
  Importes = {1, 2}
  Llamadas <- LlamadasMC
  Reservas <- ReservasMC
  Serial = FALSE
  ConFallos = TRUE
  MaxInicios = 3
SYMMETRY Simetria
INVARIANTS TypeOK ParesConservados
CHECK_DEADLOCK FALSE
