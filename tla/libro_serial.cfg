\* Every event a handler can be sent, one handler at a time and to its end.
SPECIFICATION Spec
CONSTANTS
  Centavo = 1
  NaN = NaN
  Maestro = Maestro
  Modificatorio = Modificatorio
  Radio = Radio
  Television = Television
  Fondos <- DosFondos
  Servicios = {Radio, Television}
  Techo <- TechoDeCuatro
  Tareas = {t1}
  Eventos = {"ORDER_APPROVED", "ORDER_CANCELLED", "INVOICE_APPROVED", "INVOICE_CANCELLED", "INVOICE_PAID"}
  Importes = {1, 2}
  Llamadas <- LlamadasMC
  Reservas <- ReservasMC
  Serial = TRUE
  ConFallos = FALSE
  MaxInicios = 2
INVARIANT TechoConservado
PROPERTY ImplementaLibro
CHECK_DEADLOCK FALSE
