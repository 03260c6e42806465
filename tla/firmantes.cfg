\* Users and their documents: two requests or notifications at once.
SPECIFICATION SpecFirmantes
CONSTANTS
  ana = ana
  beto = beto
  eva = eva
  d1 = d1
  d2 = d2
  Nulo = Nulo
  Personas = {ana, beto, eva}
  FilasIniciales <- FilasMC
  Claves = {"c1", "c2"}
  Servicios = {"Radio"}
  Altas <- AltasMC
  Cambios <- CambiosMC
  Administran = {beto}
  Hilos = {h1, h2}
  Documentos = {d1, d2}
  Hechos = {d1}
  Papeles <- PapelesMC
  Copias = {k1, k2}
  Listas <- ListasMC
  MaxCambios = 2
  MaxLlegadas = 3
  MaxIncidentes = 1
SYMMETRY Simetria
INVARIANTS FirmadoConCopia CopiaSellada CopiaDeSuDocumento
PROPERTY ContrasenaConservada
CHECK_DEADLOCK FALSE
