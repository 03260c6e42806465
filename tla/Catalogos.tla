------------------------------ MODULE Catalogos ------------------------------
(***************************************************************************)
(* The tables that the rest of the system chooses from (departments,       *)
(* positions, units, formats, dimensions, prints, characteristics, texts,  *)
(* taxes, municipalities, agencies, contacts, billboards) and the palette  *)
(* of colours, with the requests of their services, query by query and     *)
(* with no transaction.                                                    *)
(*                                                                         *)
(* A row is <<table, number>>; the number stands for the columns that      *)
(* identify it, and no request changes them (a rename is seen as a removal *)
(* and a creation). What rows refer to is kept: the foreign keys, which    *)
(* the database guards, and the unit of a characteristic, which it does    *)
(* not.                                                                    *)
(***************************************************************************)
EXTENDS Integers, Sequences, FiniteSets, SequencesExt

CONSTANTS Filas,      \* rows the tables can have
          Iniciales,  \* the rows at the start: stations and providers of other modules
          Nuevas,     \* rows that clients create: a bound
          Editables,  \* rows that clients change and remove: a bound
          Hilos,      \* requests in flight at once
          Nada        \* null

Tabla(f) == f[1]
FilasDe(tabla) == {f \in Filas : Tabla(f) = tabla}

\* What a service does beyond reading: the relations it looks up, whether a
\* second row with the same data is refused, how it updates a row (by "update" of
\* its columns, or by "save" of the row that it read), what an update makes of the
\* relations that it was not given, and whether rows can be removed.
Servicio(relaciones, unica, cambio, sinRef, borra) ==
  [refs |-> relaciones, unica |-> unica, cambio |-> cambio, sinRef |-> sinRef, borra |-> borra]

DepartamentosService == Servicio({}, TRUE, "save", "conserva", TRUE)
PuestosService == Servicio({}, TRUE, "save", "conserva", TRUE)
UsuariosService == Servicio({"departamentos", "puestos"}, TRUE, "save", "conserva", FALSE)
TiemposService == Servicio({}, TRUE, "update", "conserva", TRUE)
LongitudesService == Servicio({}, TRUE, "update", "conserva", TRUE)
FormatosService == Servicio({}, TRUE, "update", "conserva", TRUE)
ImpresionesService == Servicio({"dimensiones"}, TRUE, "update", "borra", TRUE)
DimensionesService == Servicio({"longitudes"}, FALSE, "update", "cualquiera", TRUE)
CaracteristicasService ==
  Servicio({"formatos", "impresiones", "dimensiones"}, FALSE, "save", "conserva", TRUE)
ColoresService == Servicio({}, TRUE, "update", "conserva", FALSE)
TextosService == Servicio({}, TRUE, "update", "conserva", FALSE)
IvaService == Servicio({}, TRUE, "update", "conserva", FALSE)
MunicipioService == Servicio({}, TRUE, "update", "conserva", TRUE)
DependenciaService == Servicio({}, TRUE, "save", "conserva", TRUE)
ContactoService == Servicio({"proveedores", "estaciones"}, FALSE, "update", "borra", TRUE)
CarteleraGobiernoService == Servicio({}, TRUE, "update", "conserva", TRUE)

\* Rows of these are only created here; the other modules change them.
ServicioAjeno == Servicio({}, TRUE, "update", "conserva", FALSE)

De ==
  [departamentos |-> DepartamentosService, puestos |-> PuestosService,
   usuarios |-> UsuariosService, tiempos |-> TiemposService,
   longitudes |-> LongitudesService, formatos |-> FormatosService,
   impresiones |-> ImpresionesService, dimensiones |-> DimensionesService,
   caracteristicas |-> CaracteristicasService, colores |-> ColoresService,
   textos |-> TextosService, iva |-> IvaService, municipios |-> MunicipioService,
   dependencias |-> DependenciaService, contactos |-> ContactoService,
   carteleras |-> CarteleraGobiernoService, proveedores |-> ServicioAjeno,
   estaciones |-> ServicioAjeno, contratos |-> ServicioAjeno]

ASSUME CatalogosAssumption ==
  /\ \A f \in Filas : Tabla(f) \in DOMAIN De
  /\ Iniciales \subseteq Filas /\ Nuevas \subseteq Filas /\ Editables \subseteq Filas
  /\ Nada \notin Filas

VARIABLES
  hay,         \* the rows there are
  refs,        \* <<f, g>>: a foreign key of f refers to g
  unidad,      \* the kind of unit and the unit of each characteristic
  primarios,   \* the colours whose column primario is true
  peticion,    \* the requests of clients in flight
  agregado,    \* tables in which clients created a row
  quitado,     \* tables from which clients removed a row
  accidentes   \* what happened to colours and units that undoes their rules

varsFilas == <<hay, refs, unidad, primarios>>
varsCatalogos == <<varsFilas, peticion, agregado, quitado, accidentes>>

\* TipoUnidad: the table that the unit of a characteristic is in.
TipoUnidad == {"longitudes", "tiempos"}
SinUnidad == [tipo |-> Nada, fila |-> Nada]

\* The data of a request: the rows it names, the unit, and the column primario.
SinDatos == [nombra |-> {}, unidad |-> SinUnidad, primario |-> Nada]
SinPeticion == [op |-> "-", en |-> "libre", fila |-> Nada, dto |-> SinDatos,
                busca |-> <<>>, halla |-> {}, leida |-> SinUnidad, columnas |-> {}, primario |-> Nada]

InitCatalogos ==
  /\ hay = Iniciales
  /\ refs = {}
  /\ unidad = [f \in FilasDe("caracteristicas") |-> SinUnidad]
  /\ primarios = {}
  /\ peticion = [h \in Hilos |-> SinPeticion]
  /\ agregado = {} /\ quitado = {} /\ accidentes = {}

Responder(h) == peticion' = [peticion EXCEPT ![h] = SinPeticion]

----
(* Looking up.                                                             *)

\* dimensiones.findOne does not wait for its query before it tests the result:
\* a dimension that is missing comes back as null, where the other services
\* answer that it was not found.
PuedeFaltar(donde) == donde # {} /\ \A f \in donde : Tabla(f) = "dimensiones"

\* One row of donde is found, or none; findOne(undefined) finds any row of the
\* table. Only what is a relation of the row that is worked on is kept.
Hallados(donde) ==
  IF donde \cap hay = {} /\ PuedeFaltar(donde) THEN {{}} ELSE {{f} : f \in donde \cap hay}

ConHallado(tabla, antes, hallado) ==
  LET nuevos == {f \in hallado : Tabla(f) \in De[tabla].refs}
  IN  {f \in antes : \A g \in nuevos : Tabla(g) # Tabla(f)} \cup nuevos

\* The rows that a request names, one by one.
BuscaRelaciones(nombra) == SetToSeq({{f} : f \in nombra})

\* The unit is looked up in the table that its kind says.
BuscaUnidad(u) ==
  <<IF u.fila = Nada THEN FilasDe(u.tipo) ELSE {u.fila} \cap FilasDe(u.tipo)>>

\* create looks for a unit as soon as its kind is given, update when both are.
BuscaDeAlta(dto) ==
  BuscaRelaciones(dto.nombra) \o
    (IF dto.unidad.tipo = Nada THEN <<>> ELSE BuscaUnidad(dto.unidad))

BuscaDeCambio(tabla, dto) ==
  BuscaRelaciones(dto.nombra) \o
    (IF dto.unidad.tipo = Nada \/ dto.unidad.fila = Nada THEN <<>> ELSE BuscaUnidad(dto.unidad))
  \o (IF De[tabla].sinRef = "cualquiera" /\ dto.nombra = {} THEN <<FilasDe("longitudes")>>
      ELSE <<>>)

Buscar(h) ==
  LET p == peticion[h]
  IN  /\ p.en = "buscar" /\ p.busca # <<>>
      /\ IF Hallados(Head(p.busca)) = {} THEN Responder(h)
         ELSE \E hallado \in Hallados(Head(p.busca)) :
                peticion' = [peticion EXCEPT ![h].busca = Tail(@),
                               ![h].halla = ConHallado(Tabla(p.fila), @, hallado)]
      /\ UNCHANGED <<varsFilas, agregado, quitado>>

\* Every relation is found: the row is written next.
Listo(h) == peticion[h].en = "buscar" /\ peticion[h].busca = <<>>

----
(* Creating.                                                               *)

\* UNIQUE columns and foreign keys; rows with the same data in a table that
\* allows them are one row of the model.
Admite(f, halla) == (De[Tabla(f)].unica => f \notin hay) /\ halla \subseteq hay

RefsDe(f) == {g \in Filas : <<f, g>> \in refs}
ConRefs(f, nuevas) == {r \in refs : r[1] # f} \cup ({f} \X nuevas)

UnidadDe(f) == IF f \in DOMAIN unidad THEN unidad[f] ELSE SinUnidad
ConUnidad(f, u) == [g \in DOMAIN unidad |-> IF g = f THEN u ELSE unidad[g]]

ConFila(f, halla, u) ==
  /\ hay' = hay \cup {f}
  /\ refs' = IF f \in hay THEN refs ELSE ConRefs(f, halla)
  /\ unidad' = IF f \in hay THEN unidad ELSE ConUnidad(f, u)

PedirAlta(h, f, dto) ==
  /\ f \in Nuevas
  /\ De[Tabla(f)].unica \/ f \notin hay
  /\ peticion' = [peticion EXCEPT ![h] =
       [SinPeticion EXCEPT !.op = "alta", !.en = "buscar", !.fila = f, !.dto = dto,
                           !.busca = BuscaDeAlta(dto)]]
  /\ UNCHANGED <<varsFilas, agregado, quitado>>

Insertar(h) ==
  LET p == peticion[h]
  IN  /\ p.op = "alta" /\ Listo(h)
      /\ IF Admite(p.fila, p.halla)
           THEN /\ ConFila(p.fila, p.halla, p.dto.unidad)
                /\ primarios' = IF p.dto.primario = TRUE THEN primarios \cup {p.fila}
                                 ELSE primarios
                /\ agregado' = agregado \cup {Tabla(p.fila)}
           ELSE UNCHANGED <<varsFilas, agregado>>
      /\ Responder(h)
      /\ UNCHANGED quitado

----
(* Changing and removing.                                                  *)

Pedir(h, op, f, dto) ==
  /\ f \in Editables \cap hay
  /\ Tabla(f) # "colores"
  /\ peticion' = [peticion EXCEPT ![h] =
       [SinPeticion EXCEPT !.op = op, !.en = "leer", !.fila = f, !.dto = dto]]
  /\ UNCHANGED <<varsFilas, agregado, quitado>>

\* The row is read first; without it the answer is an error.
Leer(h) ==
  LET p == peticion[h]
  IN  /\ p.en = "leer"
      /\ IF p.fila \notin hay THEN Responder(h)
         ELSE peticion' = [peticion EXCEPT ![h].en = IF p.op = "baja" THEN "borrar" ELSE "buscar",
                             ![h].busca = BuscaDeCambio(Tabla(p.fila), p.dto),
                             ![h].leida = UnidadDe(p.fila)]
      /\ UNCHANGED <<varsFilas, agregado, quitado>>

\* Wrong form: the unit of the request is written although it was not looked up.
UnidadSinBuscar(p) ==
  [tipo |-> IF p.dto.unidad.tipo # Nada THEN p.dto.unidad.tipo ELSE p.leida.tipo,
   fila |-> IF p.dto.unidad.fila # Nada THEN p.dto.unidad.fila ELSE p.leida.fila]

\* The unit counts when its kind came with it; the kind counts alone.
UnidadNueva(p) ==
  [tipo |-> IF p.dto.unidad.tipo # Nada THEN p.dto.unidad.tipo ELSE p.leida.tipo,
   fila |-> IF p.dto.unidad.tipo # Nada /\ p.dto.unidad.fila # Nada
              THEN p.dto.unidad.fila ELSE p.leida.fila]

\* Relations that an update was not given, or that came back as null.
RefsNuevas(p) ==
  IF De[Tabla(p.fila)].sinRef = "conserva"
    THEN ConHallado(Tabla(p.fila), RefsDe(p.fila), p.halla) ELSE p.halla

\* The row of a request gets these relations and this unit, if they are there.
Escribir(h, relaciones, u) ==
  LET f == peticion[h].fila
  IN  /\ IF relaciones \subseteq hay
           THEN /\ hay' = hay \cup {f}
                /\ refs' = ConRefs(f, relaciones)
                /\ unidad' = ConUnidad(f, u)
                /\ agregado' = IF f \in hay THEN agregado ELSE agregado \cup {Tabla(f)}
                /\ UNCHANGED primarios
           ELSE UNCHANGED <<varsFilas, agregado>>
      /\ Responder(h)
      /\ UNCHANGED quitado

\* An UPDATE touches no row when the row is gone.
NadaQueEscribir(h) == Responder(h) /\ UNCHANGED <<varsFilas, agregado, quitado>>

\* update: the columns of the request, at once.
Actualizar(h) ==
  LET p == peticion[h]
  IN  /\ p.op = "cambio" /\ Listo(h) /\ De[Tabla(p.fila)].cambio = "update"
      /\ IF p.fila \in hay THEN Escribir(h, RefsNuevas(p), UnidadNueva(p))
         ELSE NadaQueEscribir(h)

\* The columns of the row in hand that differ from those of the row there is;
\* all of them when there is none.
Distintas(p) ==
  IF p.fila \notin hay THEN {"todas"}
  ELSE {Tabla(g) : g \in p.halla \ RefsDe(p.fila)}
         \cup {c \in {"tipo", "fila"} : UnidadNueva(p)[c] # UnidadDe(p.fila)[c]}

\* save: it selects the row as it is now ...
Comparar(h) ==
  LET p == peticion[h]
  IN  /\ p.op = "cambio" /\ Listo(h) /\ De[Tabla(p.fila)].cambio = "save"
      /\ peticion' = [peticion EXCEPT ![h].en = "escribir", ![h].columnas = Distintas(p)]
      /\ UNCHANGED <<varsFilas, agregado, quitado>>

\* ... and updates the columns that differed, or inserts the row that was gone.
Guardar(h) ==
  LET p == peticion[h]
      u == UnidadNueva(p)
      actual == UnidadDe(p.fila)
      Distinta(c) == c \in p.columnas
      cambiadas == {g \in p.halla : Distinta(Tabla(g))}
  IN  /\ p.en = "escribir"
      /\ IF Distinta("todas") = (p.fila \in hay) THEN NadaQueEscribir(h)
         ELSE IF Distinta("todas") THEN Escribir(h, p.halla, u)
         ELSE Escribir(h, ConHallado(Tabla(p.fila), RefsDe(p.fila), cambiadas),
                       [tipo |-> IF Distinta("tipo") THEN u.tipo ELSE actual.tipo,
                        fila |-> IF Distinta("fila") THEN u.fila ELSE actual.fila])

\* A row that another one refers to is not removed.
Borrar(h) ==
  LET f == peticion[h].fila
  IN  /\ peticion[h].en = "borrar"
      /\ IF f \in hay /\ \A g \in hay : <<g, f>> \notin refs
           THEN /\ hay' = hay \ {f}
                /\ refs' = ConRefs(f, {})
                /\ unidad' = ConUnidad(f, SinUnidad)
                /\ quitado' = quitado \cup {Tabla(f)}
                /\ UNCHANGED primarios
           ELSE UNCHANGED <<varsFilas, quitado>>
      /\ Responder(h)
      /\ UNCHANGED agregado

----
(* The palette: one colour is the primary one.                             *)

\* A colour whose id was never given touches no row.
PedirColor(h, f, primario) ==
  /\ f \in FilasDe("colores")
  /\ peticion' = [peticion EXCEPT ![h] =
       [SinPeticion EXCEPT !.op = "color", !.en = "leerPrimario", !.fila = f,
                           !.dto.primario = primario]]
  /\ UNCHANGED <<varsFilas, agregado, quitado>>

\* desactivarColorPrimario reads the primary colour ...
LeerPrimario(h) ==
  /\ peticion[h].en = "leerPrimario"
  /\ \/ /\ primarios = {}
        /\ peticion' = [peticion EXCEPT ![h].en = "escribirColor"]
     \/ \E f \in primarios :
          peticion' = [peticion EXCEPT ![h].en = "apagar", ![h].primario = f]
  /\ UNCHANGED <<varsFilas, agregado, quitado>>

\* Wrong form: the colour that was the primary one stays so.
ApagarNada(h) ==
  /\ peticion[h].en = "apagar"
  /\ peticion' = [peticion EXCEPT ![h].en = "escribirColor"]
  /\ UNCHANGED <<varsFilas, agregado, quitado>>

\* ... and writes it back as one more colour.
Apagar(h) ==
  /\ peticion[h].en = "apagar"
  /\ primarios' = primarios \ {peticion[h].primario}
  /\ peticion' = [peticion EXCEPT ![h].en = "escribirColor"]
  /\ UNCHANGED <<hay, refs, unidad, agregado, quitado>>

EscribirColor(h) ==
  LET p == peticion[h]
  IN  /\ p.en = "escribirColor"
      /\ primarios' = CASE p.dto.primario = TRUE  -> primarios \cup ({p.fila} \cap hay)
                        [] p.dto.primario = FALSE -> primarios \ {p.fila}
                        [] OTHER                  -> primarios
      /\ Responder(h)
      /\ UNCHANGED <<hay, refs, unidad, agregado, quitado>>

----

AtenderCatalogo(h) ==
  \/ Buscar(h) \/ Insertar(h) \/ Leer(h) \/ Actualizar(h) \/ Comparar(h) \/ Guardar(h)
  \/ Borrar(h) \/ LeerPrimario(h) \/ Apagar(h) \/ EscribirColor(h)

\* A query rejects and the request is answered with an error.
FallarCatalogo(h) ==
  /\ peticion[h].en # "libre"
  /\ Responder(h)
  /\ UNCHANGED <<varsFilas, agregado, quitado>>
=============================================================================
