----------------------------- MODULE Proveedor -----------------------------
(***************************************************************************)
(* A provider with the tables of its contracts, stations, services and     *)
(* renewals, the requests and the events that change them, and what        *)
(* proveedor.service.ts itself does. Estaciones extends this module with  *)
(* the network of the provider, ContratosProveedor with its contracts.     *)
(*                                                                         *)
(* A request awaits one query after another. The events it emits are       *)
(* handlers of the same process that nobody waits for.                     *)
(***************************************************************************)
EXTENDS Integers, Sequences, FiniteSets, SequencesExt, FiniteSetsExt

CONSTANTS Tipos,          \* service types
          Maestros,       \* master contracts, each with a number of its own
          TiposDe,        \* the types a client asks for with each one
          Vence,          \* the day that each one ends
          Existentes,     \* the ones that may exist when the behaviour starts
          Estatus,        \* the statuses that clients write
          MaxModificatorios,
          Extensiones,    \* what amendments extend
          Prorrogas,      \* the days that an amendment may extend a contract to
          Estaciones, Servicios,
          Iniciales,      \* services of the first station, with their types
          Hilos,          \* requests in flight at once
          Dias,           \* the last day
          MaxInicios,     \* bound on what arrives
          MaxIncidentes,  \* bound on overlaps, failures and irregular requests
          Coste           \* arrivals that the bound takes off for each of those

Vivos == {"PENDIENTE", "ADJUDICADO", "LIBERADO"}
Cancelables == {"ADJUDICADO", "LIBERADO"}
ESTATUS_DE_CONTRATO == Vivos \cup {"TERMINADO", "CANCELADO"}
EXTENSION_TYPE_ENUM == {"AMOUNTS", "TIME", "BOTH"}

ASSUME ProveedorAssumption ==
  /\ TiposDe \in [Maestros -> SUBSET Tipos]
  /\ IsFiniteSet(Maestros)
  /\ Vence \in [Maestros -> Nat]
  /\ Existentes \subseteq Maestros
  /\ Estatus \subseteq ESTATUS_DE_CONTRATO /\ Extensiones \subseteq EXTENSION_TYPE_ENUM
  /\ DOMAIN Iniciales \subseteq Servicios
  /\ \A s \in DOMAIN Iniciales : Iniciales[s] \in Tipos
  /\ DOMAIN Iniciales # {} => Estaciones # {}
  /\ "-" \notin Estaciones
  /\ Prorrogas \subseteq Nat /\ Hilos \subseteq Nat /\ IsFiniteSet(Hilos)
  /\ {MaxModificatorios, Dias, MaxInicios, MaxIncidentes, Coste} \subseteq Nat

\* verifyServiceExistsOnce let the contracts through that already exist.
ASSUME ExistentesAparte ==
  \A m, n \in Existentes : m # n => TiposDe[m] \cap TiposDe[n] = {}

VARIABLES
  proveedor,     \* is the provider enabled?
  maestro,       \* status and service types (rows of contratos) of each master
  modificatorio, \* rows of the amendments, in the order they were inserted
  hoy,           \* the day
  revisado,      \* the daily job ended and nothing arrived since
  estacion,      \* status of each station
  servicio,      \* rows of the services
  renovacion,    \* rows of the renewals of each service
  peticion,      \* requests in flight
  eventos,       \* handlers of the events emitted, in the order of emission
  inicios,       \* arrivals so far
  incidentes,    \* overlaps and irregular requests so far
  fallos         \* failures so far

contratos == <<maestro, modificatorio>>
red == <<estacion, servicio, renovacion>>
dia == <<hoy, revisado>>
cuentas == <<inicios, incidentes, fallos>>
todo == <<proveedor, contratos, dia, red, peticion, eventos, cuentas>>

SinMaestro == [estatus |-> "NO_EXISTE", tipos |-> {}]
Modificatorio == [maestro : Maestros, extension : EXTENSION_TYPE_ENUM, vence : Prorrogas,
                  estatus : ESTATUS_DE_CONTRATO \cup {"BORRADO"}]
SinServicio == [estacion |-> "-", tipo |-> "-", estatus |-> FALSE]
Servicio == [estacion : Estaciones, tipo : Tipos, estatus : BOOLEAN]
Renovacion == [existe : BOOLEAN, ultima : BOOLEAN, estatus : BOOLEAN]
NuevaRenovacion == [existe |-> TRUE, ultima |-> TRUE, estatus |-> TRUE]

\* What a request holds: ids, what the client sent and what it has read.
SinPeticion == [op |-> "-", en |-> "libre", m |-> "-", i |-> 0, e |-> "-", s |-> "-",
                estatus |-> "-", extension |-> "-", vence |-> 0, tipo |-> "-",
                habilitado |-> FALSE, cuenta |-> 0, tipos |-> {}, lista |-> {}]
Evento == [clase |-> "-", en |-> "inicio", tipos |-> {}, servicios |-> {}, estaciones |-> {},
           e |-> "-", s |-> "-", i |-> 0]

Clases == {"enable-provider", "disable-provider", "enable-stations", "disable-stations",
           "enable-multiple-services", "disable-multiple-services", "servicio.activado"}

TypeOKContratos ==
  /\ proveedor \in BOOLEAN
  /\ maestro \in [Maestros -> [estatus : ESTATUS_DE_CONTRATO \cup {"NO_EXISTE", "BORRADO"},
                               tipos : SUBSET Tipos]]
  /\ \A m \in Maestros : maestro[m].tipos # {} => maestro[m].estatus \in ESTATUS_DE_CONTRATO
  /\ modificatorio \in Seq(Modificatorio) /\ Len(modificatorio) <= MaxModificatorios
  /\ hoy \in 0..Dias /\ revisado \in BOOLEAN
  /\ estacion \in [Estaciones -> {"NO_EXISTE", "ACTIVA", "INACTIVA", "BORRADA"}]
  /\ servicio \in [Servicios -> Servicio \cup {SinServicio}]
  /\ renovacion \in [Servicios -> Seq(Renovacion)]
  /\ \A s \in Servicios : servicio[s] = SinServicio => renovacion[s] = <<>>
  /\ \A h \in Hilos : DOMAIN peticion[h] = DOMAIN SinPeticion
  /\ \A k \in DOMAIN eventos :
       DOMAIN eventos[k] = DOMAIN Evento /\ eventos[k].clase \in Clases
  /\ inicios \in 0..MaxInicios /\ incidentes + fallos \in 0..MaxIncidentes

----
(* Helpers.                                                                *)

HayMaestro(m) == maestro[m].estatus \in ESTATUS_DE_CONTRATO
MaestrosVivos == {m \in Maestros : maestro[m].estatus \in Vivos}
HayModificatorio(i) == modificatorio[i].estatus # "BORRADO"
HayEstacion(e) == estacion[e] \in {"ACTIVA", "INACTIVA"}
HayServicio(s) == servicio[s] # SinServicio
ServiciosDe(e) == {s \in Servicios : servicio[s].estacion = e}

countActiveContracts == Cardinality(MaestrosVivos)

\* Nothing is in progress.
Quieto == eventos = <<>> /\ \A h \in Hilos : peticion[h].en = "libre"

DentroDeCotas ==
  /\ inicios' + Coste * (incidentes' + fallos') <= MaxInicios
  /\ incidentes' + fallos' <= MaxIncidentes

\* Something arrives. It is an incident while another one is being served, or
\* when it is not what clients regularly ask for.
Llegar(regular) ==
  /\ inicios' = inicios + 1
  /\ incidentes' = IF Quieto /\ regular THEN incidentes ELSE incidentes + 1
  /\ revisado' = FALSE
  /\ UNCHANGED fallos
  /\ DentroDeCotas

Fallo ==
  /\ fallos' = fallos + 1
  /\ UNCHANGED <<inicios, incidentes>>
  /\ DentroDeCotas

\* The free request with the least id takes what arrives.
Pedir(h, regular, nueva) ==
  /\ h = Min({g \in Hilos : peticion[g].en = "libre"} \cup {Max(Hilos) + 1})
  /\ Llegar(regular)
  /\ peticion' = [peticion EXCEPT ![h] = nueva]
  /\ UNCHANGED <<proveedor, contratos, hoy, red, eventos>>

Responder(h) == peticion' = [peticion EXCEPT ![h] = SinPeticion]
Seguir(h, en) == peticion' = [peticion EXCEPT ![h].en = en]
SeguirSi(condicion, h, en) == IF condicion THEN Seguir(h, en) ELSE Responder(h)

DeTipos(clase, tipos) == [Evento EXCEPT !.clase = clase, !.tipos = tipos]
DeProveedor(clase) == [Evento EXCEPT !.clase = clase]
Emitir(nuevos) == eventos' = eventos \o nuevos
Despachado(k) == eventos' = RemoveAt(eventos, k)

----
(* activateProvider and desactivateProvider, asked for by a client or by   *)
(* an event: both count the contracts that are live first.                 *)

Habilita == {"activar", "enable-provider"}

Permitido(clase) == clase \in Habilita <=> countActiveContracts > 0

PedirProveedor(h, op) ==
  /\ op \in {"activar", "desactivar"}
  /\ Pedir(h, TRUE, [SinPeticion EXCEPT !.op = op, !.en = "contarVivos"])

\* PATCH of the provider, which may bring a status.
PedirParche(h, habilitado) ==
  Pedir(h, FALSE, [SinPeticion EXCEPT !.op = "parche", !.en = "escribirProveedor",
                                      !.habilitado = habilitado])

ContarVivos(h) ==
  /\ peticion[h].en = "contarVivos"
  /\ SeguirSi(Permitido(peticion[h].op), h, "escribirProveedor")
  /\ UNCHANGED <<proveedor, contratos, dia, red, eventos, cuentas>>

EscribirProveedor(h) ==
  /\ peticion[h].en = "escribirProveedor"
  /\ proveedor' = IF peticion[h].op = "parche" THEN peticion[h].habilitado
                  ELSE peticion[h].op \in Habilita
  /\ Responder(h)
  /\ UNCHANGED <<contratos, dia, red, eventos, cuentas>>

ManejarProveedor(k) ==
  LET clase == eventos[k].clase
  IN  /\ clase \in {"enable-provider", "disable-provider"}
      /\ \/ /\ eventos[k].en = "inicio"
            /\ IF Permitido(clase) THEN eventos' = [eventos EXCEPT ![k].en = "escribir"]
               ELSE Despachado(k)
            /\ UNCHANGED proveedor
         \/ /\ eventos[k].en = "escribir"
            /\ proveedor' = (clase \in Habilita)
            /\ Despachado(k)
      /\ UNCHANGED <<contratos, dia, red, peticion, cuentas>>
=============================================================================
