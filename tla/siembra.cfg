\* Endpoints that seed, and clients: two at once, three in all, one failure.
SPECIFICATION Spec
CONSTANTS
  Nada = Nada
  Filas <- FilasMC
  Iniciales <- InicialesMC
  Nuevas <- NuevasMC
  Editables <- EditablesMC
  Hilos = {h1, h2}
  Cuantas <- CuantasMC
  MaxLlegadas = 3
  MaxNombra = 1
  MaxIncidentes = 1
SYMMETRY Simetria
INVARIANTS SiembraSinHuecos UnColorPrimario UnidadLegible
CHECK_DEADLOCK FALSE
