------------------------------- MODULE Siembra -------------------------------
(***************************************************************************)
(* The first data of the system: the endpoints of seed.controller.ts, which*)
(* insert lists of rows through the services of Catalogos and of other     *)
(* modules, one row at a time and with no transaction, while clients use   *)
(* those services.                                                         *)
(*                                                                         *)
(* No endpoint asks for a token: each may be called at any time, twice at  *)
(* once, and again after it failed half way. A list is known by its length *)
(* and by what its rows refer to.                                          *)
(***************************************************************************)
EXTENDS Catalogos

CONSTANTS Cuantas,        \* length of the list of each table
          MaxLlegadas,    \* bound on calls of the endpoints and requests of clients
          MaxNombra,      \* bound on the relations that a request names
          MaxIncidentes   \* bound on failures and stops

ASSUME SiembraAssumption ==
  /\ Cuantas \in [DOMAIN De -> Nat]
  /\ \A tabla \in DOMAIN De : \A i \in 1..Cuantas[tabla] : <<tabla, i>> \in Filas
  /\ MaxLlegadas \in Nat /\ MaxNombra \in Nat
  /\ MaxIncidentes \in Nat

VARIABLES
  siembra,     \* the calls of the endpoints in flight
  respuesta,   \* the last answer of each endpoint
  llegadas,    \* calls of the endpoints and requests so far
  incidentes   \* failures and stops so far

varsSiembra == <<siembra, respuesta>>
vars == <<varsCatalogos, varsSiembra, llegadas, incidentes>>

----
(* The lists.                                                              *)

Lista(tabla) == [i \in 1..Cuantas[tabla] |-> <<tabla, i>>]
Ultima(tabla) == <<tabla, Cuantas[tabla]>>

departamentosData == Lista("departamentos")
puestosData == Lista("puestos")
usuariosData == Lista("usuarios")
tiemposData == Lista("tiempos")
longitudData == Lista("longitudes")
medidaDeImpresionData == Lista("impresiones")
formatoData == Lista("formatos")
dimensionesData == Lista("dimensiones")
coloresData == Lista("colores")
camposTextoData == Lista("textos")
ivaData == Lista("iva")
proveedoresData == Lista("proveedores")
municipiosData == Lista("municipios")
DependenciasData == Lista("dependencias")
contratosData == Lista("contratos")
cartelerasData == Lista("carteleras")

\* The first colour of the palette is the primary one.
SembradosPrimarios == {<<"colores", 1>>}

\* One RFC of the list of providers has eleven characters, which create refuses
\* and which ends that list: no row after it counts, so it is the last one here.
DatosInvalidos == {Ultima("proveedores")}

\* The queries that find what a row refers to. The unit of a dimension is found
\* by its name but handed to create under another name, so that create looks
\* for the row with id undefined. findByRfc never finds the provider of a
\* contract: it compares the RFC with the names.
Busca(f) ==
  CASE Tabla(f) = "usuarios"    -> <<{Ultima("departamentos")}, {Ultima("puestos")}>>
    [] Tabla(f) = "dimensiones" -> <<{Ultima("longitudes")}, FilasDe("longitudes")>>
    [] Tabla(f) = "contratos"   -> <<{}>>
    [] OTHER                    -> <<>>

\* What each endpoint inserts, in order.
seedAdministracion == departamentosData \o puestosData \o usuariosData
seedCatalogos ==
  tiemposData \o longitudData \o medidaDeImpresionData \o formatoData \o dimensionesData
seedConfiguracion == coloresData \o camposTextoData \o ivaData
seedProveedores == proveedoresData \o municipiosData
seedContratos == contratosData
seedCampanias == DependenciasData
seedCarteleras == cartelerasData
seedDb == seedAdministracion \o seedCatalogos \o seedConfiguracion

Programa ==
  [db |-> seedDb, administracion |-> seedAdministracion, catalogos |-> seedCatalogos,
   configuracion |-> seedConfiguracion, proveedores |-> seedProveedores,
   contratos |-> seedContratos, campanias |-> seedCampanias, carteleras |-> seedCarteleras]
Programas == DOMAIN Programa

\* Endpoints that stop at the first row that cannot be inserted.
Estrictos == {"db", "administracion", "catalogos", "configuracion", "campanias"}

----
(* An endpoint at work.                                                    *)

SinSiembra == [programa |-> "-", i |-> 0, busca |-> <<>>, halla |-> {}]

\* The row in hand: the i-th of what the endpoint inserts.
EnMano(s) == Programa[s.programa][s.i]

InitSiembra ==
  /\ InitCatalogos
  /\ siembra = [h \in Hilos |-> SinSiembra]
  /\ respuesta = [p \in Programas |-> "-"]
  /\ llegadas = 0 /\ incidentes = 0

Sembrando(h) == siembra[h].programa # "-"
Libre(h) == peticion[h].en = "libre" /\ ~Sembrando(h)
Quieto == \A h \in Hilos : Libre(h)

Desde(programa, i) ==
  [programa |-> programa, i |-> i, busca |-> Busca(Programa[programa][i]), halla |-> {}]

Sembrar(h, programa) ==
  /\ siembra' = [siembra EXCEPT ![h] = Desde(programa, 1)]
  /\ UNCHANGED <<varsFilas, peticion, agregado, quitado, respuesta>>

\* On to row i, or the answer.
Seguir(h, i) ==
  LET programa == siembra[h].programa
  IN  IF i > Len(Programa[programa])
        THEN /\ siembra' = [siembra EXCEPT ![h] = SinSiembra]
             /\ respuesta' = [respuesta EXCEPT ![programa] = "bien"]
        ELSE /\ siembra' = [siembra EXCEPT ![h] = Desde(programa, i)]
             /\ UNCHANGED respuesta

\* Where the next list of the endpoint begins.
OtraLista(s) ==
  s.i + Cardinality({j \in s.i..Len(Programa[s.programa]) :
                       Tabla(Programa[s.programa][j]) = Tabla(EnMano(s))})

\* Wrong form: every endpoint swallows the error, as that of the providers does.
SaltarSiempre(h) ==
  /\ Seguir(h, OtraLista(siembra[h]))
  /\ UNCHANGED <<varsFilas, peticion, agregado, quitado>>

\* The endpoint answers with an error; what it inserted stays.
Negar(h) ==
  /\ siembra' = [siembra EXCEPT ![h] = SinSiembra]
  /\ respuesta' = [respuesta EXCEPT ![siembra[h].programa] = "mal"]

\* A row cannot be inserted. The strict endpoints answer with the error; the
\* list of providers is left where it is, and a contract or a billboard is
\* passed over, and the answer is the same as if nothing had happened.
Saltar(h) ==
  LET s == siembra[h]
  IN  /\ IF s.programa \in Estrictos \/ Tabla(EnMano(s)) = "municipios" THEN Negar(h)
         ELSE IF s.programa = "proveedores" THEN Seguir(h, OtraLista(s))
         ELSE Seguir(h, s.i + 1)
      /\ UNCHANGED <<varsFilas, peticion, agregado, quitado>>

BuscarDato(h) ==
  LET s == siembra[h]
  IN  /\ Sembrando(h) /\ s.busca # <<>>
      /\ IF Hallados(Head(s.busca)) = {} THEN Saltar(h)
         ELSE /\ \E hallado \in Hallados(Head(s.busca)) :
                   siembra' = [siembra EXCEPT ![h].busca = Tail(@),
                                 ![h].halla = ConHallado(Tabla(EnMano(s)), @, hallado)]
              /\ UNCHANGED <<varsFilas, peticion, agregado, quitado, respuesta>>

InsertarDato(h) ==
  LET s == siembra[h]
      f == EnMano(s)
  IN  /\ Sembrando(h) /\ s.busca = <<>>
      /\ IF f \in DatosInvalidos \/ ~Admite(f, s.halla) THEN Saltar(h)
         ELSE /\ ConFila(f, s.halla, SinUnidad)
              /\ primarios' = primarios \cup ({f} \cap SembradosPrimarios)
              /\ Seguir(h, s.i + 1)
              /\ UNCHANGED <<peticion, agregado, quitado>>

\* A query rejects. The one that looks for the provider of a contract is not in
\* the try that passes contracts over.
FallarDato(h) ==
  /\ Sembrando(h)
  /\ IF siembra[h].programa = "contratos"
       THEN Negar(h) /\ UNCHANGED <<varsFilas, peticion, agregado, quitado>>
       ELSE Saltar(h)

\* The process stops.
Caer ==
  /\ ~Quieto
  /\ peticion' = [h \in Hilos |-> SinPeticion]
  /\ siembra' = [h \in Hilos |-> SinSiembra]
  /\ UNCHANGED <<varsFilas, agregado, quitado, respuesta>>

----
(* The clients.                                                            *)

\* The rows that a request may name: at most one of each relation, and a
\* dimension is not created without its unit.
Nombres(tabla) ==
  {R \in SUBSET UNION {FilasDe(t) \cap hay : t \in De[tabla].refs} :
     /\ Cardinality(R) <= MaxNombra
     /\ \A f, g \in R : Tabla(f) = Tabla(g) => f = g}

Unidades(tabla) ==
  IF tabla # "caracteristicas" THEN {SinUnidad}
  ELSE [tipo : TipoUnidad \cup {Nada},
        fila : {f \in Filas : Tabla(f) \in TipoUnidad} \cup {Nada}]

Pedidos(tabla) == [nombra : Nombres(tabla), unidad : Unidades(tabla), primario : {Nada}]

PedirCatalogo(h) ==
  \/ \E f \in Nuevas : \E dto \in Pedidos(Tabla(f)) :
       /\ Tabla(f) # "colores"
       /\ Tabla(f) = "dimensiones" => dto.nombra # {}
       /\ PedirAlta(h, f, dto)
  \/ \E f \in Nuevas, primario \in BOOLEAN :
       /\ Tabla(f) = "colores"
       /\ PedirAlta(h, f, [SinDatos EXCEPT !.primario = primario])
  \/ \E f \in Editables : \E dto \in Pedidos(Tabla(f)) : Pedir(h, "cambio", f, dto)
  \/ \E f \in Editables : De[Tabla(f)].borra /\ Pedir(h, "baja", f, SinDatos)
  \/ \E f \in FilasDe("colores"), primario \in BOOLEAN \cup {Nada} : PedirColor(h, f, primario)

----
(* What undoes the rules about colours and units.                          *)

EscribeColores(h) ==
  \/ peticion[h].op = "color"
  \/ peticion[h].op = "alta" /\ Tabla(peticion[h].fila) = "colores"
  \/ siembra[h].programa \in {"db", "configuracion"}

\* A request that writes the unit of a characteristic at work.
EscribeUnidad(h) ==
  peticion[h].op \in {"alta", "cambio"} /\ Tabla(peticion[h].fila) = "caracteristicas"

\* A change of the primary colour at work.
CambiaPrimario(h) == peticion[h].op = "color"

Accidente(a) ==
  CASE a = "colores a la vez" ->
         \/ \E g, h \in Hilos : g # h /\ CambiaPrimario(g)' /\ EscribeColores(h)'
         \/ \E h \in Hilos : peticion'[h].op = "alta" /\ peticion'[h].dto.primario = TRUE
         \/ /\ primarios' # {} /\ <<"colores", 1>> \notin hay'
            /\ \E h \in Hilos : Sembrando(h)' /\ EscribeColores(h)'
    [] a = "sin primario" ->
         \E h \in Hilos : CambiaPrimario(h) /\ ~CambiaPrimario(h)' /\
           (peticion[h].en # "escribirColor" \/ primarios' # {peticion[h].fila})
    [] a = "tipo sin unidad" ->
         \E h \in Hilos : /\ peticion'[h].op = "cambio" /\ peticion'[h].dto.unidad.tipo # Nada
                          /\ peticion'[h].dto.unidad.fila = Nada
    [] a = "cambios a la vez" ->
         \E g, h \in Hilos : /\ g # h /\ EscribeUnidad(g)' /\ EscribeUnidad(h)'
                             /\ peticion'[g].fila = peticion'[h].fila

Accidentes == {"colores a la vez", "sin primario", "tipo sin unidad", "cambios a la vez"}

----

Llegar == llegadas < MaxLlegadas /\ llegadas' = llegadas + 1
Incidente == incidentes < MaxIncidentes /\ incidentes' = incidentes + 1

Paso ==
  \/ \E h \in Hilos :
       \/ /\ Libre(h) /\ Llegar /\ UNCHANGED incidentes
          /\ \/ PedirCatalogo(h) /\ UNCHANGED varsSiembra
             \/ \E programa \in Programas : Sembrar(h, programa)
       \/ AtenderCatalogo(h) /\ UNCHANGED <<varsSiembra, llegadas, incidentes>>
       \/ (BuscarDato(h) \/ InsertarDato(h)) /\ UNCHANGED <<llegadas, incidentes>>
       \/ FallarCatalogo(h) /\ Incidente /\ UNCHANGED <<varsSiembra, llegadas>>
       \/ FallarDato(h) /\ Incidente /\ UNCHANGED llegadas
  \/ Caer /\ Incidente /\ UNCHANGED llegadas

Next == Paso /\ accidentes' = accidentes \cup {a \in Accidentes : Accidente(a)}

Spec == InitSiembra /\ [][Next]_vars
----
(* Properties.                                                             *)

TablasDe(cola) == {Tabla(cola[i]) : i \in DOMAIN cola}

\* The rows of a list that are there are its first ones.
SinHueco(cola) == \A i \in 2..Len(cola) : cola[i] \in hay => cola[i - 1] \in hay

\* Whatever calls of the endpoints overlap, fail, are lost or repeated, there is
\* no gap: while clients leave its tables alone, what an endpoint that stops at
\* the first error inserted is the beginning of its lists; if it ever answered
\* that all is inserted and no client removed a row, every row is there, those
\* that clients created before it among them; and providers never go past the
\* one that is refused (seed.service.ts 101-183, 264-269, 376-392).
SiembraSinHuecos ==
  /\ \A p \in Estrictos \ {"db"} :
       SinHueco(Programa[p]) \/ TablasDe(Programa[p]) \cap (agregado \cup quitado) # {}
  /\ \A p \in Estrictos : respuesta[p] = "bien" =>
       (\A i \in DOMAIN Programa[p] : Programa[p][i] \in hay)
         \/ TablasDe(Programa[p]) \cap quitado # {}
  /\ "proveedores" \notin agregado => SinHueco(proveedoresData) /\ Ultima("proveedores") \notin hay

\* There is at most one primary colour unless two requests change it at once, a
\* client creates another, or the palette is inserted after a client chose one;
\* and exactly one once the palette is there, with every change of it answered,
\* unless one failed, stopped half way or did not name a colour to be the primary
\* one: there is no transaction around the UPDATE that turns the old one off
\* (colores.service.ts 46-69).
UnColorPrimario ==
  "colores a la vez" \notin accidentes =>
    /\ Cardinality(primarios) <= 1
    /\ (/\ <<"colores", 1>> \in hay /\ "colores" \notin agregado
        /\ "sin primario" \notin accidentes /\ \A h \in Hilos : ~CambiaPrimario(h))
         => primarios # {}

\* The unit of a characteristic is a uuid that no foreign key guards. Whatever
\* overlaps, is saved from an old read or comes back after its removal, it is a
\* unit there is, unless clients remove units or give a kind alone; and it is of
\* the kind the characteristic says, unless two requests write one at once: save
\* updates the columns that differ, so that each may leave one of them
\* (caracteristicas.service.ts 30-81, 121-167).
UnidadLegible ==
  (quitado \cap TipoUnidad = {} /\ "tipo sin unidad" \notin accidentes) =>
    \A f \in hay \cap DOMAIN unidad : (unidad[f].tipo # Nada /\ unidad[f].fila # Nada) =>
      /\ unidad[f].fila \in hay
      /\ "cambios a la vez" \notin accidentes => unidad[f].fila \in FilasDe(unidad[f].tipo)
=============================================================================
