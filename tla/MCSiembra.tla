------------------------------- MODULE MCSiembra -------------------------------
(***************************************************************************)
(* Instances of Siembra for TLC.                                           *)
(***************************************************************************)
EXTENDS Siembra

\* Lists with more than one row where a row in the middle matters.
CuantasMC ==
  [tabla \in DOMAIN De |->
     CASE tabla \in {"caracteristicas", "contactos", "estaciones"} -> 0
       [] tabla \in {"colores", "proveedores", "carteleras"} -> 2
       [] OTHER -> 1]

UnidadesDeClientes == {<<"tiempos", 2>>, <<"longitudes", 2>>, <<"longitudes", 3>>}

FilasMC ==
  UNION {{<<tabla, i>> : i \in 1..CuantasMC[tabla]} : tabla \in DOMAIN De}
    \cup {<<"caracteristicas", 1>>, <<"contactos", 1>>, <<"estaciones", 1>>}
    \cup UnidadesDeClientes

\* Clients were there before: units that are in no list, and a characteristic
\* with no unit yet.
InicialesMC == {<<"estaciones", 1>>, <<"caracteristicas", 1>>} \cup UnidadesDeClientes

NuevasMC ==
  {<<"longitudes", 1>>, <<"caracteristicas", 1>>, <<"contactos", 1>>,
   <<"colores", 2>>}

EditablesMC ==
  {<<"departamentos", 1>>, <<"longitudes", 1>>, <<"impresiones", 1>>,
   <<"caracteristicas", 1>>, <<"contactos", 1>>}

Simetria == Permutations(Hilos)
=============================================================================
