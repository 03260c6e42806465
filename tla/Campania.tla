------------------------------ MODULE Campania ------------------------------
(***************************************************************************)
(* The life of the campaigns (campañas.service.ts), their activations      *)
(* (activacion.service.ts) and the matches that keep the money of each     *)
(* activation (partida.service.ts), composed with the ledger of the        *)
(* contract that their orders are charged to. A campaign is signed as a    *)
(* whole: the notification that its document was completed starts one      *)
(* handler for its status and one that charges and activates its orders.   *)
(*                                                                         *)
(* Requests and handlers await query after query. save of a campaign that  *)
(* was read with its activations writes all of them: those that it does    *)
(* not know of lose their campaign.                                        *)
(***************************************************************************)
EXTENDS LibroContrato, FondosDelContrato, FiniteSetsExt

CONSTANTS Campanias,       \* ids
          Existentes,      \* campaigns created before the behaviour starts
          Extensiones,     \* the amendments that extend the amount, in order
          Servicio,        \* the service type of the orders
          Ordenes,         \* ids
          Pendientes,      \* the charges of those created before, for the first campaign
          Totales,         \* totals of orders and invoices
          Hilos,           \* requests in flight at once
          Envios,          \* ids of signature documents
          MaxAvisos,       \* bound on the notifications per document
          EventosPartida,  \* events that match handlers are started with
          Cobros,          \* ids of those handlers
          MaxActivaciones, \* bound on the matches and activations created
          MaxIncidentes,   \* bound on overlaps, failures and irregular requests
          Coste            \* arrivals that the bound takes off for each of those

Acciones == {"APPROVE", "CANCEL"}

\* The n-th time that the provider notifies a document as completed.
Avisos == Envios \X (1..MaxAvisos)
Doc(e) == e[1]

ASSUME CampaniasAssumption ==
  /\ Tareas = Avisos
  /\ Existentes \subseteq Campanias /\ IsFiniteSet(Existentes) /\ "-" \notin Campanias
  /\ Cardinality(Existentes) <= MaxActivaciones
  /\ DOMAIN Pendientes \subseteq Ordenes /\ Range(Pendientes) \subseteq Seq(Cargo) \ {<<>>}
  /\ DOMAIN Pendientes # {} => Existentes # {}
  /\ Servicio \in Servicios
  /\ Extensiones \in Seq(Fondos \ {Maestro})
  /\ \A i, j \in DOMAIN Extensiones : Extensiones[i] = Extensiones[j] => i = j
  /\ Totales \subseteq Nat \ {0}
  /\ EventosPartida \subseteq TYPE_EVENT
  /\ MaxAvisos \in Nat /\ MaxActivaciones \in Nat /\ MaxIncidentes \in Nat
  /\ Coste \in Nat
  /\ Hilos \subseteq Nat /\ Envios \subseteq Nat /\ Cobros \subseteq Nat
  /\ \A ids \in {Hilos, Envios, Cobros, Ordenes} : IsFiniteSet(ids)

VARIABLES
  campania,    \* status of each campaign
  activacion,  \* rows of the activations, in the order they were inserted
  partida,     \* rows of the matches, in the order they were inserted
  orden,       \* rows of the orders of the campaigns
  documento,   \* signature documents
  peticion,    \* requests in flight
  aviso,       \* what is left of each notification
  cobro,       \* handlers that charge an order or an invoice to a match
  incidentes   \* overlaps, failures and irregular requests so far

filas == <<campania, activacion, partida, orden, documento>>
varsCampania == <<filas, peticion, aviso, cobro>>
varsLibro == <<fondo, contrato, paso, llamada, visto>>
todas == <<vars, varsCampania, incidentes>>

CAMPAIGN_STATUS ==
  {"CREADA", "COTIZANDO", "PENDIENTE", "APROBADA", "INACTIVA", "REACTIVADA", "CANCELADA"}
Editables == {"CREADA", "COTIZANDO", "REACTIVADA"}
Removibles == {"CREADA", "COTIZANDO"}
Cerrables == {"APROBADA", "CANCELADA", "REACTIVADA", "CREADA", "COTIZANDO"}
Renovables == {"INACTIVA", "CANCELADA"}

\* Row 0 of the activations and of the matches is the one a null refers to.
IdsActivacion == 0..MaxActivaciones
Activacion == [campania : Campanias \cup {"-"}, numero : 0..MaxActivaciones + 1,
               partida : IdsActivacion, status : BOOLEAN, aprobada : BOOLEAN]
SinActivacion == [campania |-> "-", numero |-> 0, partida |-> 0, status |-> FALSE,
                  aprobada |-> FALSE]

Montos == [activo : Int, ejercido : Int, pagado : Int]
Cero == [activo |-> 0, ejercido |-> 0, pagado |-> 0]
Partida == [existe : BOOLEAN, estatus : BOOLEAN, montos : Montos]
NuevaPartida == [existe |-> TRUE, estatus |-> TRUE, montos |-> Cero]

Orden == [campania : Campanias, partida : IdsActivacion,
          estatus : {"PENDIENTE", "ACTIVA", "CANCELADA"}, cargos : Seq(Cargo)]
SinOrden == [estatus |-> "NO_EXISTE"]

\* A campaign in memory, with the activations that were read with it, if any.
SinFila == [status |-> "NO_EXISTE", conActivaciones |-> FALSE, activaciones |-> <<>>]
SinDocumento == [estatus |-> "NO_EXISTE", campania |-> "-", activacion |-> 0,
                 accion |-> "APPROVE"]
SinPeticion == [op |-> "-", en |-> "libre", campania |-> "-", activacion |-> 0, partida |-> 0,
                doc |-> 0, accion |-> "-", fila |-> SinFila, ordenes |-> {}, orden |-> "-",
                total |-> 0, cargos |-> <<>>, escrituras |-> <<>>, leido |-> 0]
SinAviso == [recibido |-> FALSE, guardar |-> FALSE, status |-> "no", activacion |-> 0,
             montos |-> "no", partida |-> 0, ordenes |-> {}, orden |-> "-"]
SinCobro == [en |-> "nuevo", evento |-> "-", orden |-> "-", total |-> 0, partida |-> 0,
             montos |-> Cero]

Esperas ==
  {"guardarNueva", "partida", "numerar", "guardarActivacion", "limpiar", "borrar", "leer",
   "activaciones", "guardar", "otraVez", "ultima", "documento", "desactivar", "baja",
   "bajaPartida", "buscar", "maestro", "devolver", "modificatorio", "borrarOrden", "fondos",
   "comprometer", "guardarOrden"}

TypeOKCampania ==
  /\ TypeOK
  /\ campania \in [Campanias -> CAMPAIGN_STATUS \cup {"NO_EXISTE", "BORRADA"}]
  /\ activacion \in Seq(Activacion) /\ Len(activacion) <= MaxActivaciones
  /\ partida \in Seq(Partida) /\ Len(partida) <= MaxActivaciones
  /\ orden \in [Ordenes -> Orden \cup {SinOrden}]
  /\ \A d \in Envios :
       documento[d] = SinDocumento \/
       /\ documento[d].campania \in Campanias /\ documento[d].activacion \in DOMAIN activacion
       /\ documento[d].accion \in Acciones
       /\ documento[d].estatus \in {"PENDIENTE_DE_FIRMA", "enviado", "APROBADA"}
  /\ \A h \in Hilos :
       peticion[h] = SinPeticion \/
       /\ peticion[h].en \in Esperas
       /\ peticion[h].partida \in 0..Len(partida)
       /\ \A x \in peticion[h].ordenes : x[1] \in Ordenes /\ x[2] \in Seq(Cargo)
  /\ \A e \in Avisos :
       /\ aviso[e].status \in {"no", "leer", "escribir", "aprobar"}
       /\ aviso[e].montos \in {"no", "activacion", "ordenes", "siguiente", "cargos"}
       /\ aviso[e].activacion \in 0..Len(activacion)
       /\ \A x \in aviso[e].ordenes : x[1] \in Ordenes /\ x[2] \in Seq(Cargo)
  /\ \A k \in Cobros : cobro[k].en \in {"nuevo", "leer", "escribir", "rechazado", "hecho"}
  /\ incidentes \in 0..MaxIncidentes

----
(* The existing campaigns have just been created, one activation each, and *)
(* the first one may have orders.                                          *)

CampaniasIniciales ==
  /\ campania = [c \in Campanias |-> IF c \in Existentes THEN "CREADA" ELSE "NO_EXISTE"]
  /\ \E ids \in {s \in [1..Cardinality(Existentes) -> Existentes] : IsInjective(s)} :
       activacion = [i \in DOMAIN ids |->
                       [SinActivacion EXCEPT !.campania = ids[i], !.numero = 1,
                                             !.partida = i, !.status = TRUE]]
  /\ partida = [i \in DOMAIN activacion |-> NuevaPartida]

InitCampania ==
  /\ CampaniasIniciales
  /\ orden = [o \in Ordenes |->
       IF o \in DOMAIN Pendientes
         THEN [campania |-> activacion[1].campania, partida |-> 1, estatus |-> "PENDIENTE",
               cargos |-> Pendientes[o]]
         ELSE SinOrden]
  /\ fondo = [f \in Fondos |->
       [FilaFondoCero EXCEPT !["montoDisponible"] = Techo[f],
          !["committedAmount"] =
            SumFunction([o \in DOMAIN Pendientes |-> ImporteA(Pendientes[o], f)])]]
  /\ contrato = [s \in Servicios |-> FilaServicioCero]
  /\ paso = [t \in Tareas |-> "libre"]
  /\ llamada = [t \in Tareas |-> SinLlamada]
  /\ visto = [t \in Tareas |-> NadaVisto]
  /\ inicios = 0
  /\ documento = [d \in Envios |-> SinDocumento]
  /\ peticion = [h \in Hilos |-> SinPeticion]
  /\ aviso = [e \in Avisos |-> SinAviso]
  /\ cobro = [k \in Cobros |-> SinCobro]
  /\ incidentes = 0

----
(* Helpers.                                                                *)

Existe(c) == campania[c] \in CAMPAIGN_STATUS
HayOrden(o) == orden[o] # SinOrden
HayActivacion(a) == a \in DOMAIN activacion /\ activacion[a] # SinActivacion
HayPartida(p) == p \in DOMAIN partida /\ partida[p].existe
ActivacionesDe(c) == {a \in DOMAIN activacion : activacion[a].campania = c}

OrdenesDe(c, p) == {o \in Ordenes : HayOrden(o) /\ orden[o].campania = c /\ orden[o].partida = p}

\* getLastActivation: the last one created, or null.
UltimaActivacion(c) == Max(ActivacionesDe(c) \cup {0})

EnCurso(e) == aviso[e].guardar \/ aviso[e].status # "no" \/ aviso[e].montos # "no"
Cobrando(k) == cobro[k].en \in {"leer", "escribir"}

\* No request and no handler is in progress.
Quieto ==
  /\ \A h \in Hilos : peticion[h].en = "libre"
  /\ \A e \in Avisos : ~EnCurso(e)
  /\ \A k \in Cobros : ~Cobrando(k)

\* Free ids are interchangeable: the first one is taken.
Primero(x, libres) == x = Min(libres)

DentroDeCotas ==
  /\ inicios' + Coste * incidentes' <= MaxInicios
  /\ incidentes' <= MaxIncidentes

\* Something arrives. It is an incident while another one is being served, or
\* when it is not what clients and the provider regularly do.
Llegar(regular) ==
  /\ inicios' = inicios + 1
  /\ incidentes' = IF Quieto /\ regular THEN incidentes ELSE incidentes + 1
  /\ DentroDeCotas

Incidente ==
  /\ ConFallos
  /\ incidentes' = incidentes + 1
  /\ inicios + Coste * incidentes' <= MaxInicios /\ incidentes' <= MaxIncidentes

\* There is an id for one more match and activation.
Creadores == {h \in Hilos : peticion[h].op \in {"crear", "renovar", "activar"}}
HayCupo ==
  Max({Len(partida), Len(activacion)}) + Cardinality(Creadores) < MaxActivaciones

Responder(h) == peticion' = [peticion EXCEPT ![h] = SinPeticion]
Seguir(h, en) == peticion' = [peticion EXCEPT ![h].en = en]

\* The campaign as findOne returns it, with its activations or without.
LeerFila(c, conActivaciones) ==
  [status |-> campania[c], conActivaciones |-> conActivaciones,
   activaciones |-> [a \in IF conActivaciones THEN ActivacionesDe(c) ELSE {} |-> activacion[a]]]

\* save of the activations of a row in memory, alone or with their campaign.
ConActivaciones(fila) ==
  [a \in DOMAIN activacion |->
     IF a \in DOMAIN fila.activaciones THEN fila.activaciones[a] ELSE activacion[a]]

\* save of a campaign: its cascade detaches the activations it does not hold.
ConFila(c, fila) ==
  [a \in DOMAIN activacion |->
     IF fila.conActivaciones /\ a \notin DOMAIN fila.activaciones /\ activacion[a].campania = c
       THEN [activacion[a] EXCEPT !.campania = "-"] ELSE ConActivaciones(fila)[a]]

----
(* Requests arrive.                                                        *)

Pedir(h, regular, nueva) ==
  /\ peticion[h].en = "libre" /\ Primero(h, {g \in Hilos : peticion[g].en = "libre"})
  /\ nueva.op \in {"crear", "renovar", "activar"} => HayCupo
  /\ Llegar(regular)
  /\ peticion' = [peticion EXCEPT ![h] = nueva]
  /\ UNCHANGED <<varsLibro, filas, aviso, cobro>>

\* create: an unknown agency makes it fail before it writes anything.
PedirCrear(h, c) ==
  /\ campania[c] = "NO_EXISTE"
  /\ \A g \in Hilos : peticion[g].campania # c
  /\ \E en \in {"guardarNueva", "limpiar"} :
       Pedir(h, TRUE, [SinPeticion EXCEPT !.op = "crear", !.en = en, !.campania = c])

\* update, remove, createRenovation; POST of an activation is irregular.
PedirSobre(h, op, c) ==
  /\ campania[c] # "NO_EXISTE"
  /\ op \in {"actualizar", "quitar", "renovar", "activar"}
  /\ Pedir(h, op # "activar",
           [SinPeticion EXCEPT !.op = op, !.campania = c,
                               !.en = IF op = "activar" THEN "partida" ELSE "leer"])

\* closeCampaign: the client names the activation to disable.
PedirCerrar(h, c, a) ==
  /\ campania[c] # "NO_EXISTE"
  /\ HayActivacion(a)
  /\ Pedir(h, a = UltimaActivacion(c),
           [SinPeticion EXCEPT !.op = "cerrar", !.en = "leer", !.campania = c,
                               !.activacion = a])

\* disableActivation on its own leaves the campaign as it is.
PedirDesactivar(h, a) ==
  /\ HayActivacion(a)
  /\ Pedir(h, FALSE, [SinPeticion EXCEPT !.op = "desactivar", !.en = "desactivar",
                                         !.activacion = a])

PedirFirma(h, c, accion, d) ==
  /\ campania[c] # "NO_EXISTE"
  /\ Primero(d, {x \in Envios : /\ documento[x] = SinDocumento
                                /\ \A g \in Hilos : peticion[g].doc # x} \cup {Max(Envios) + 1})
  /\ Pedir(h, TRUE, [SinPeticion EXCEPT !.op = "firmar", !.en = "leer", !.campania = c,
                                        !.accion = accion, !.doc = d])

\* What is in progress names the order.
Nombrada(o) ==
  \/ \E h \in Hilos : peticion[h].orden = o \/ \E x \in peticion[h].ordenes : x[1] = o
  \/ \E e \in Avisos : aviso[e].orden = o \/ \E x \in aviso[e].ordenes : x[1] = o
  \/ \E k \in Cobros : Cobrando(k) /\ cobro[k].orden = o

\* create of the orders: regular clients add them before the campaign is signed.
\* The id is new.
PedirOrden(h, c, o, total) ==
  /\ ~HayOrden(o) /\ ~Nombrada(o)
  /\ Pedir(h, campania[c] \in Editables,
           [SinPeticion EXCEPT !.op = "ordenar", !.en = "leer", !.campania = c,
                               !.orden = o, !.total = total])

----
(* create, createRenovation and create of the activations.                 *)

\* A query of a request rejects. create of a campaign then removes the one
\* with the id error.campaniaId: undefined, which findOne takes for any.
Rechazar(h) ==
  IF peticion[h].op = "crear" /\ peticion[h].en \notin {"limpiar", "borrar"}
    THEN Seguir(h, "limpiar") ELSE Responder(h)

GuardarNueva(h) ==
  /\ peticion[h].en = "guardarNueva"
  /\ campania' = [campania EXCEPT ![peticion[h].campania] = "CREADA"]
  /\ Seguir(h, "partida")
  /\ UNCHANGED <<vars, activacion, partida, orden, documento, aviso, cobro, incidentes>>

GuardarPartida(h) ==
  /\ peticion[h].en = "partida"
  /\ partida' = Append(partida, NuevaPartida)
  /\ peticion' = [peticion EXCEPT ![h].partida = Len(partida'),
                    ![h].en = IF peticion[h].op = "renovar" THEN "activaciones" ELSE "numerar"]
  /\ UNCHANGED <<vars, campania, activacion, orden, documento, aviso, cobro, incidentes>>

\* Wrong form: the older activations of a renewed campaign stay active.
ApagarActivacionesNo(h) ==
  /\ peticion[h].en = "activaciones"
  /\ Seguir(h, "guardar")
  /\ UNCHANGED <<vars, filas, aviso, cobro, incidentes>>

\* createRenovation: the activations it read are saved as not active.
ApagarActivaciones(h) ==
  LET fila == peticion[h].fila
      apagada == [fila EXCEPT !.status = "REACTIVADA",
                    !.activaciones = [a \in DOMAIN @ |-> [@[a] EXCEPT !.status = FALSE]]]
  IN  /\ peticion[h].en = "activaciones"
      /\ activacion' = ConActivaciones(apagada)
      /\ peticion' = [peticion EXCEPT ![h].en = "guardar", ![h].fila = apagada]
      /\ UNCHANGED <<vars, campania, partida, orden, documento, aviso, cobro, incidentes>>

\* create of an activation: campaign, match and the last activation.
Numerar(h) ==
  LET c == peticion[h].campania
      ultima == UltimaActivacion(c)
  IN  /\ peticion[h].en = "numerar"
      /\ IF Existe(c) /\ HayPartida(peticion[h].partida)
           THEN peticion' = [peticion EXCEPT ![h].en = "guardarActivacion",
                               ![h].leido = IF ultima = 0 THEN 0 ELSE activacion[ultima].numero]
           ELSE Rechazar(h)
      /\ UNCHANGED <<vars, filas, aviso, cobro, incidentes>>

\* The INSERT needs its campaign and its match.
GuardarActivacion(h) ==
  LET c == peticion[h].campania
      p == peticion[h].partida
  IN  /\ peticion[h].en = "guardarActivacion"
      /\ IF Existe(c) /\ HayPartida(p)
           THEN /\ activacion' = Append(activacion,
                     [campania |-> c, numero |-> peticion[h].leido + 1, partida |-> p,
                      status |-> TRUE, aprobada |-> FALSE])
                /\ Responder(h)
           ELSE Rechazar(h) /\ UNCHANGED activacion
      /\ UNCHANGED <<vars, campania, partida, orden, documento, aviso, cobro, incidentes>>

\* Wrong form: remove takes a campaign whatever its status.
RemovibleSiempre(c) == TRUE

Removible(c) == campania[c] \in Removibles

\* remove(undefined), after a create that failed.
LeerPorLimpiar(h) ==
  /\ peticion[h].en = "limpiar"
  /\ \/ /\ \A c \in Campanias : ~Existe(c)
        /\ Responder(h)
     \/ \E c \in Campanias :
          /\ Existe(c)
          /\ IF Removible(c)
               THEN peticion' = [peticion EXCEPT ![h].en = "borrar", ![h].campania = c]
               ELSE Responder(h)
  /\ UNCHANGED <<vars, filas, aviso, cobro, incidentes>>

----
(* update, remove, closeCampaign and sendToSigningCampaign.                *)

Admite(op, c, accion) ==
  CASE op = "quitar"     -> Removible(c)
    [] op = "renovar"    -> campania[c] \in Renovables
    [] op = "cerrar"     -> campania[c] \in Cerrables
    [] op = "actualizar" -> campania[c] \in Editables
    [] op = "firmar"     -> campania[c] \in IF accion = "CANCEL" THEN {"APROBADA"} ELSE Editables

TrasLeerFila ==
  [quitar |-> "borrar", renovar |-> "partida", cerrar |-> "guardar", actualizar |-> "guardar",
   firmar |-> "ultima"]

\* Wrong form: a campaign that is sent to be signed is approved already.
StatusGuardadoAprobado(op, status) ==
  CASE op = "cerrar" -> "INACTIVA" [] op = "firmar" -> "APROBADA" [] OTHER -> status

\* What each request saves as the status of the row it read.
StatusGuardado(op, status) ==
  CASE op = "cerrar" -> "INACTIVA" [] op = "firmar" -> "PENDIENTE" [] OTHER -> status

LeerCampania(h) ==
  LET c == peticion[h].campania
      op == peticion[h].op
  IN  /\ peticion[h].en = "leer" /\ op # "ordenar"
      /\ IF Existe(c) /\ Admite(op, c, peticion[h].accion)
           THEN peticion' = [peticion EXCEPT ![h].en = TrasLeerFila[op],
                  ![h].fila = [LeerFila(c, op \in {"renovar", "actualizar"})
                                 EXCEPT !.status = StatusGuardado(op, @)]]
           ELSE Responder(h)
      /\ UNCHANGED <<vars, filas, aviso, cobro, incidentes>>

\* The DELETE cascades to the activations; an order of the campaign forbids it.
BorrarCampania(h) ==
  LET c == peticion[h].campania
  IN  /\ peticion[h].en = "borrar"
      /\ IF \E o \in Ordenes : HayOrden(o) /\ orden[o].campania = c
           THEN UNCHANGED <<campania, activacion>>
           ELSE /\ campania' = [campania EXCEPT ![c] = "BORRADA"]
                /\ activacion' = [a \in DOMAIN activacion |->
                     IF activacion[a].campania = c THEN SinActivacion ELSE activacion[a]]
      /\ Responder(h)
      /\ UNCHANGED <<vars, partida, orden, documento, aviso, cobro, incidentes>>

\* getLastActivation, for the document of a campaign.
LeerUltima(h) ==
  LET ultima == UltimaActivacion(peticion[h].campania)
  IN  /\ peticion[h].en = "ultima"
      /\ IF ultima = 0 THEN Responder(h)
         ELSE peticion' = [peticion EXCEPT ![h].en = "documento", ![h].activacion = ultima]
      /\ UNCHANGED <<vars, filas, aviso, cobro, incidentes>>

\* firma.create: the campaign itself is not looked at.
GuardarDocumento(h) ==
  /\ peticion[h].en = "documento"
  /\ documento' = [documento EXCEPT ![peticion[h].doc] =
       [estatus |-> "PENDIENTE_DE_FIRMA", campania |-> peticion[h].campania,
        activacion |-> peticion[h].activacion, accion |-> peticion[h].accion]]
  /\ Seguir(h, "guardar")
  /\ UNCHANGED <<vars, campania, activacion, partida, orden, aviso, cobro, incidentes>>

\* The status that save writes: a campaign removed meanwhile is inserted again.
TrasGuardar(c, fila, op) == fila.status

\* Wrong form: update retries its second save for ever.
TrasGuardadaOtraVez(op, en) ==
  CASE op = "renovar" -> "numerar"
    [] op = "cerrar" -> "desactivar"
    [] op = "actualizar" -> "otraVez"
    [] OTHER -> "libre"

\* update saves its row twice, createRenovation goes on to its activation and
\* closeCampaign to disable the one it was given.
TrasGuardada(op, en) ==
  CASE op = "renovar" -> "numerar"
    [] op = "cerrar" -> "desactivar"
    [] op = "actualizar" /\ en = "guardar" -> "otraVez"
    [] OTHER -> "libre"

GuardarCampania(h) ==
  LET c == peticion[h].campania
      fila == peticion[h].fila
      op == peticion[h].op
  IN  /\ peticion[h].en \in {"guardar", "otraVez"}
      /\ campania' = [campania EXCEPT ![c] = TrasGuardar(c, fila, op)]
      /\ activacion' = ConFila(c, fila)
      /\ LET en == TrasGuardada(op, peticion[h].en)
         IN  IF en = "libre" THEN Responder(h) ELSE Seguir(h, en)
      /\ UNCHANGED <<vars, partida, orden, documento, aviso, cobro, incidentes>>

----
(* disableActivation.                                                      *)

LeerActivacion(h) ==
  /\ peticion[h].en = "desactivar"
  /\ IF HayActivacion(peticion[h].activacion)
       THEN peticion' = [peticion EXCEPT ![h].en = "baja",
              ![h].partida = activacion[peticion[h].activacion].partida,
              ![h].campania = activacion[peticion[h].activacion].campania]
       ELSE Responder(h)
  /\ UNCHANGED <<vars, filas, aviso, cobro, incidentes>>

BajaActivacion(h) ==
  LET a == peticion[h].activacion
  IN  /\ peticion[h].en = "baja"
      /\ activacion' = IF HayActivacion(a) THEN [activacion EXCEPT ![a].status = FALSE]
                       ELSE activacion
      /\ Seguir(h, "bajaPartida")
      /\ UNCHANGED <<vars, campania, partida, orden, documento, aviso, cobro, incidentes>>

\* An activation that lost its campaign makes the next query throw.
BajaPartida(h) ==
  LET p == peticion[h].partida
  IN  /\ peticion[h].en = "bajaPartida"
      /\ partida' = IF HayPartida(p) THEN [partida EXCEPT ![p].estatus = FALSE] ELSE partida
      /\ IF peticion[h].campania = "-" THEN Responder(h) ELSE Seguir(h, "buscar")
      /\ UNCHANGED <<vars, campania, activacion, orden, documento, aviso, cobro, incidentes>>

\* The orders still waiting for a signature, with all their columns.
BuscarPendientes(h) ==
  /\ peticion[h].en = "buscar"
  /\ peticion' = [peticion EXCEPT ![h].en = "maestro",
       ![h].ordenes = {<<o, orden[o].cargos>> :
                         o \in {x \in OrdenesDe(peticion[h].campania, peticion[h].partida) :
                                  orden[x].estatus = "PENDIENTE"}}]
  /\ UNCHANGED <<vars, filas, aviso, cobro, incidentes>>

\* The next charge to give back: the committed amount of an amendment is read
\* first, the master's was read when its order began. A plan visits the master
\* first, so its charge is never after one of an amendment and the last amount
\* read is the one that is needed.
Devolver(cargos) ==
  IF cargos = <<>> THEN "borrarOrden"
  ELSE IF Head(cargos).fondo = Maestro THEN "devolver" ELSE "modificatorio"

\* Wrong form: only the master is given back its part of an order.
CargosDelMaestro(cargos) == SelectSeq(cargos, LAMBDA cargo : cargo.fondo = Maestro)

CargosDevueltos(cargos) == cargos

\* One order after another, as they were found: its contract is read once.
LeerMaestroDeOrden(h) ==
  /\ peticion[h].en = "maestro"
  /\ \/ peticion[h].ordenes = {} /\ Responder(h)
     \/ \E x \in peticion[h].ordenes :
          LET cargos == CargosDevueltos(x[2])
          IN  peticion' = [peticion EXCEPT ![h].en = Devolver(cargos), ![h].ordenes = @ \ {x},
                             ![h].orden = x[1], ![h].cargos = cargos,
                             ![h].leido = fondo[Maestro]["committedAmount"]]
  /\ UNCHANGED <<vars, filas, aviso, cobro, incidentes>>

LeerModificatorioDeOrden(h) ==
  /\ peticion[h].en = "modificatorio"
  /\ peticion' = [peticion EXCEPT ![h].en = "devolver",
       ![h].leido = fondo[Head(peticion[h].cargos).fondo]["committedAmount"]]
  /\ UNCHANGED <<vars, filas, aviso, cobro, incidentes>>

DevolverCargo(h) ==
  LET cargo == Head(peticion[h].cargos)
      resto == Tail(peticion[h].cargos)
  IN  /\ peticion[h].en = "devolver"
      /\ EscribirComprometido(cargo.fondo, Redondear(Menos(peticion[h].leido, cargo.monto)))
      /\ peticion' = [peticion EXCEPT ![h].en = Devolver(resto), ![h].cargos = resto]
      /\ UNCHANGED <<inicios, filas, aviso, cobro, incidentes>>

BorrarOrden(h) ==
  /\ peticion[h].en = "borrarOrden"
  /\ orden' = [orden EXCEPT ![peticion[h].orden] = SinOrden]
  /\ Seguir(h, "maestro")
  /\ UNCHANGED <<vars, campania, activacion, partida, documento, aviso, cobro, incidentes>>

----
(* create of the orders, for a campaign.                                   *)

\* The match of the last of the active activations that findOne joins, in the
\* order the query gives them, or none; and what the contract has to cover it.
LeerParaOrden(h) ==
  LET c == peticion[h].campania
      activas == {a \in ActivacionesDe(c) : activacion[a].status}
  IN  /\ peticion[h].en = "leer" /\ peticion[h].op = "ordenar"
      /\ \/ /\ Existe(c)
            /\ \E p \in IF activas = {} THEN {0} ELSE {activacion[a].partida : a \in activas} :
                 peticion' = [peticion EXCEPT ![h].en = "fondos", ![h].partida = p]
         \/ ~Existe(c) /\ Responder(h)
      /\ UNCHANGED <<vars, filas, aviso, cobro, incidentes>>

CargosDelPlan(plan, total) ==
  IF Desglose(plan, Maestro) = <<>> THEN <<[fondo |-> Maestro, monto |-> total]>>
  ELSE Desglose(plan, Maestro)

LeerFondos(h) ==
  LET plan == PlanDeFondos(fondo, Maestro, Extensiones, peticion[h].total)
  IN  /\ peticion[h].en = "fondos"
      /\ IF PlanCubierto(plan)
           THEN peticion' = [peticion EXCEPT ![h].en = "comprometer",
                  ![h].cargos = CargosDelPlan(plan, peticion[h].total),
                  ![h].escrituras = plan.escrituras]
           ELSE Responder(h)
      /\ UNCHANGED <<vars, filas, aviso, cobro, incidentes>>

EscribirReserva(h) ==
  LET e == Head(peticion[h].escrituras)
      resto == Tail(peticion[h].escrituras)
  IN  /\ peticion[h].en = "comprometer"
      /\ EscribirComprometido(e.fondo, e.valor)
      /\ peticion' = [peticion EXCEPT ![h].escrituras = resto,
                        ![h].en = IF resto = <<>> THEN "guardarOrden" ELSE "comprometer"]
      /\ UNCHANGED <<inicios, filas, aviso, cobro, incidentes>>

\* The INSERT needs the campaign and the match.
GuardarOrden(h) ==
  LET c == peticion[h].campania
      p == peticion[h].partida
  IN  /\ peticion[h].en = "guardarOrden"
      /\ orden' = IF Existe(c) /\ (p # 0 => HayPartida(p))
                    THEN [orden EXCEPT ![peticion[h].orden] =
                            [campania |-> c, partida |-> p, estatus |-> "PENDIENTE",
                             cargos |-> peticion[h].cargos]]
                    ELSE orden
      /\ Responder(h)
      /\ UNCHANGED <<vars, campania, activacion, partida, documento, aviso, cobro, incidentes>>

----
(* Notifications and their handlers.                                       *)

\* documentSigning.
EnviarAFirmamex(d) ==
  /\ documento[d].estatus = "PENDIENTE_DE_FIRMA"
  /\ Llegar(TRUE)
  /\ documento' = [documento EXCEPT ![d].estatus = "enviado"]
  /\ UNCHANGED <<varsLibro, campania, activacion, partida, orden, peticion, aviso, cobro>>

\* document_completed, emitted again by a provider that repeats it. Rejected
\* documents and first signatures change nothing that is modelled.
Recibir(e) ==
  /\ documento[Doc(e)].estatus \in {"enviado", "APROBADA"}
  /\ ~aviso[e].recibido
  /\ \A n \in 1..MaxAvisos : n < e[2] => aviso[<<Doc(e), n>>].recibido
  /\ Llegar(e[2] = 1)
  /\ aviso' = [aviso EXCEPT ![e].recibido = TRUE, ![e].guardar = TRUE, ![e].status = "leer",
                            ![e].montos = "activacion"]
  /\ UNCHANGED <<varsLibro, filas, peticion, cobro>>

GuardarFirma(e) ==
  /\ aviso[e].guardar
  /\ documento' = [documento EXCEPT ![Doc(e)].estatus = "APROBADA"]
  /\ aviso' = [aviso EXCEPT ![e].guardar = FALSE]
  /\ UNCHANGED <<vars, campania, activacion, partida, orden, peticion, cobro, incidentes>>

CampaniaDe(e) == documento[Doc(e)].campania
Aprueba(e) == documento[Doc(e)].accion = "APPROVE"

\* updateCampaignStatus: the campaign and its last activation ...
LeerStatus(e) ==
  /\ aviso[e].status = "leer"
  /\ aviso' = [aviso EXCEPT ![e].status = IF Existe(CampaniaDe(e)) THEN "escribir" ELSE "no",
                            ![e].activacion = UltimaActivacion(CampaniaDe(e))]
  /\ UNCHANGED <<vars, filas, peticion, cobro, incidentes>>

\* The status that a signed document gives its campaign.
StatusDe(e) == IF Aprueba(e) THEN "APROBADA" ELSE "CANCELADA"

\* ... then the status and, when it is approved, the date on the activation.
EscribirStatus(e) ==
  LET c == CampaniaDe(e)
  IN  /\ aviso[e].status = "escribir"
      /\ campania' = IF Existe(c) THEN [campania EXCEPT ![c] = StatusDe(e)] ELSE campania
      /\ aviso' = [aviso EXCEPT ![e].status =
                     IF Aprueba(e) /\ aviso[e].activacion # 0 THEN "aprobar" ELSE "no"]
      /\ UNCHANGED <<vars, activacion, partida, orden, documento, peticion, cobro, incidentes>>

FecharActivacion(e) ==
  LET a == aviso[e].activacion
  IN  /\ aviso[e].status = "aprobar"
      /\ activacion' = IF HayActivacion(a) THEN [activacion EXCEPT ![a].aprobada = TRUE]
                       ELSE activacion
      /\ aviso' = [aviso EXCEPT ![e].status = "no"]
      /\ UNCHANGED <<vars, campania, partida, orden, documento, peticion, cobro, incidentes>>

\* campaignContractAmountsUpdated: the orders of the last activation ...
LeerActivacionDeAviso(e) ==
  LET ultima == UltimaActivacion(CampaniaDe(e))
  IN  /\ aviso[e].montos = "activacion"
      /\ aviso' = IF ultima = 0 THEN [aviso EXCEPT ![e].montos = "no"]
                  ELSE [aviso EXCEPT ![e].montos = "ordenes",
                                     ![e].partida = activacion[ultima].partida]
      /\ UNCHANGED <<vars, filas, peticion, cobro, incidentes>>

LeerOrdenes(e) ==
  /\ aviso[e].montos = "ordenes"
  /\ aviso' = [aviso EXCEPT ![e].montos = "siguiente",
       ![e].ordenes = {<<o, orden[o].cargos>> :
                         o \in OrdenesDe(CampaniaDe(e), aviso[e].partida)}]
  /\ UNCHANGED <<vars, filas, peticion, cobro, incidentes>>

\* ... each one is charged to the ledger ...
CargarOrden(e) ==
  /\ aviso[e].montos = "siguiente"
  /\ \/ /\ aviso[e].ordenes = {}
        /\ aviso' = [aviso EXCEPT ![e].montos = "no", ![e].partida = 0, ![e].orden = "-"]
        /\ UNCHANGED vars
     \/ \E x \in aviso[e].ordenes :
          /\ Arrancar(e, [evento |-> IF Aprueba(e) THEN "ORDER_APPROVED" ELSE "ORDER_CANCELLED",
                          servicio |-> Servicio, cargos |-> x[2]])
          /\ aviso' = [aviso EXCEPT ![e].montos = "cargos", ![e].ordenes = @ \ {x},
                                    ![e].orden = x[1]]
          /\ UNCHANGED inicios
  /\ UNCHANGED <<filas, peticion, cobro, incidentes>>

\* ... and given its status; with no such order the handler throws.
EscribirOrden(e) ==
  LET o == aviso[e].orden
  IN  /\ aviso[e].montos = "cargos" /\ paso[e] = "libre"
      /\ IF HayOrden(o)
           THEN /\ orden' = [orden EXCEPT ![o].estatus =
                               IF Aprueba(e) THEN "ACTIVA" ELSE "CANCELADA"]
                /\ aviso' = [aviso EXCEPT ![e].montos = "siguiente"]
           ELSE /\ aviso' = [aviso EXCEPT ![e].montos = "no", ![e].ordenes = {}]
                /\ UNCHANGED orden
      /\ UNCHANGED <<vars, campania, activacion, partida, documento, peticion, cobro, incidentes>>

AvanzarLibro(e) == Avanzar(e) /\ UNCHANGED <<varsCampania, incidentes>>

----
(* The matches: updateAmounts for an order or an invoice of a campaign.    *)

\* Started by the notifications and files that OrdenContrato and FacturaFirma
\* model, for orders that are signed alone and for invoices of any order.
PedirCobro(k, evento, o, total) ==
  /\ cobro[k].en = "nuevo" /\ Primero(k, {x \in Cobros : cobro[x].en = "nuevo"})
  /\ HayOrden(o)
  /\ Llegar(TRUE)
  /\ cobro' = [cobro EXCEPT ![k] = [SinCobro EXCEPT !.en = "leer", !.evento = evento,
                                                    !.orden = o, !.total = total]]
  /\ UNCHANGED <<varsLibro, filas, peticion, aviso>>

\* Wrong form: a match that was closed is charged all the same.
CobrableSiempre(p) == TRUE

Cobrable(p) == partida[p].estatus

\* The query gives the activations of the campaign in no order: the match is
\* that of whichever comes last.
LeerPartida(k) ==
  LET o == cobro[k].orden
      acts == IF HayOrden(o) THEN ActivacionesDe(orden[o].campania) ELSE {}
  IN  /\ cobro[k].en = "leer"
      /\ \/ acts = {} /\ cobro' = [cobro EXCEPT ![k].en = "rechazado"]
         \/ \E a \in acts :
              LET p == activacion[a].partida
              IN  cobro' = IF Cobrable(p)
                             THEN [cobro EXCEPT ![k].en = "escribir", ![k].partida = p,
                                                ![k].montos = partida[p].montos]
                             ELSE [cobro EXCEPT ![k].en = "rechazado"]
      /\ UNCHANGED <<vars, filas, peticion, aviso, incidentes>>

\* Wrong form: an invoice that was reviewed leaves what is active.
MontosSinActivo(evento, montos, total) ==
  CASE evento = "ORDER_APPROVED"  -> [montos EXCEPT !.activo = @ + total]
    [] evento = "ORDER_CANCELLED" -> [montos EXCEPT !.activo = @ - total]
    [] evento \in {"INVOICE_REVIEWED", "INVOICE_CANCELLED"} ->
         [montos EXCEPT !.ejercido = @ + total]
    [] evento = "INVOICE_PAID" -> [montos EXCEPT !.ejercido = @ - total, !.pagado = @ + total]
    [] OTHER -> montos

\* handlerAmounts of the matches, rounded: a cancelled invoice is executed.
MontosDe(evento, montos, total) ==
  LET nuevos == CASE evento = "ORDER_APPROVED"  -> [montos EXCEPT !.activo = @ + total]
                  [] evento = "ORDER_CANCELLED" -> [montos EXCEPT !.activo = @ - total]
                  [] evento \in {"INVOICE_REVIEWED", "INVOICE_CANCELLED"} ->
                       [montos EXCEPT !.activo = @ - total, !.ejercido = @ + total]
                  [] evento = "INVOICE_PAID" ->
                       [montos EXCEPT !.ejercido = @ - total, !.pagado = @ + total]
                  [] OTHER -> montos
  IN  [c \in DOMAIN montos |-> Redondear(nuevos[c])]

\* An invoice that is only approved writes nothing.
ColumnasDe(evento) ==
  IF evento \in TYPE_EVENT_ORDER THEN {"activo"}
  ELSE IF evento \in {"INVOICE_REVIEWED", "INVOICE_CANCELLED"} THEN {"activo", "ejercido"}
  ELSE IF evento = "INVOICE_PAID" THEN {"ejercido", "pagado"} ELSE {}

EscribirPartida(k) ==
  LET p == cobro[k].partida
      nuevos == MontosDe(cobro[k].evento, cobro[k].montos, cobro[k].total)
  IN  /\ cobro[k].en = "escribir"
      /\ partida' = IF HayPartida(p)
                      THEN [partida EXCEPT ![p].montos =
                              escribir(@, nuevos, ColumnasDe(cobro[k].evento))]
                      ELSE partida
      /\ cobro' = [cobro EXCEPT ![k].en = "hecho", ![k].partida = 0, ![k].montos = Cero]
      /\ UNCHANGED <<vars, campania, activacion, orden, documento, peticion, aviso, incidentes>>

----
(* Failures and irregular requests of one query.                           *)

FallarPeticion(h) ==
  /\ peticion[h].en # "libre"
  /\ Incidente
  /\ Rechazar(h)
  /\ UNCHANGED <<vars, filas, aviso, cobro>>

FallarAviso(e) ==
  /\ Incidente
  /\ \/ /\ aviso[e].guardar
        /\ aviso' = [aviso EXCEPT ![e].guardar = FALSE]
        /\ UNCHANGED vars
     \/ /\ aviso[e].status # "no"
        /\ aviso' = [aviso EXCEPT ![e].status = "no"]
        /\ UNCHANGED vars
     \/ /\ aviso[e].montos # "no"
        /\ aviso' = [aviso EXCEPT ![e].montos = "no", ![e].ordenes = {}]
        /\ IF paso[e] # "libre" THEN Fallar(e) ELSE UNCHANGED vars
  /\ UNCHANGED <<filas, peticion, cobro>>

FallarCobro(k) ==
  /\ Cobrando(k)
  /\ Incidente
  /\ cobro' = [cobro EXCEPT ![k].en = "rechazado"]
  /\ UNCHANGED <<vars, filas, peticion, aviso>>

\* The process stops: requests and events are lost, the rows are not.
CaerServidor ==
  /\ ~Quieto
  /\ Incidente
  /\ PerderActivaciones
  /\ peticion' = [h \in Hilos |-> SinPeticion]
  /\ aviso' = [e \in Avisos |-> [SinAviso EXCEPT !.recibido = aviso[e].recibido]]
  /\ cobro' = [k \in Cobros |-> IF Cobrando(k) THEN [cobro[k] EXCEPT !.en = "rechazado"]
                                ELSE cobro[k]]
  /\ UNCHANGED filas

\* DELETE of an activation; its match stays.
QuitarActivacion(a) ==
  /\ HayActivacion(a)
  /\ Llegar(FALSE)
  /\ activacion' = [activacion EXCEPT ![a] = SinActivacion]
  /\ UNCHANGED <<varsLibro, campania, partida, orden, documento, peticion, aviso, cobro>>

\* DELETE of a match that no order refers to, and with it its activation.
QuitarPartida(p) ==
  /\ HayPartida(p)
  /\ \A o \in Ordenes : HayOrden(o) => orden[o].partida # p
  /\ Llegar(FALSE)
  /\ partida' = [partida EXCEPT ![p].existe = FALSE]
  /\ activacion' = [a \in DOMAIN activacion |->
                      IF activacion[a].partida = p THEN SinActivacion ELSE activacion[a]]
  /\ UNCHANGED <<varsLibro, campania, orden, documento, peticion, aviso, cobro>>

\* PATCH of a match: the client gives the amounts.
ActualizarPartida(p, montos) ==
  /\ HayPartida(p)
  /\ Llegar(FALSE)
  /\ partida' = [partida EXCEPT ![p].montos = montos]
  /\ UNCHANGED <<varsLibro, campania, activacion, orden, documento, peticion, aviso, cobro>>

----

Atender(h) ==
  \/ GuardarNueva(h) \/ GuardarPartida(h) \/ ApagarActivaciones(h) \/ Numerar(h)
  \/ GuardarActivacion(h) \/ LeerPorLimpiar(h) \/ LeerCampania(h) \/ BorrarCampania(h)
  \/ LeerUltima(h) \/ GuardarDocumento(h) \/ GuardarCampania(h) \/ LeerActivacion(h)
  \/ BajaActivacion(h) \/ BajaPartida(h) \/ BuscarPendientes(h) \/ LeerMaestroDeOrden(h)
  \/ LeerModificatorioDeOrden(h) \/ DevolverCargo(h) \/ BorrarOrden(h) \/ LeerParaOrden(h)
  \/ LeerFondos(h) \/ EscribirReserva(h) \/ GuardarOrden(h)

Manejar(e) ==
  \/ GuardarFirma(e) \/ LeerStatus(e) \/ EscribirStatus(e) \/ FecharActivacion(e)
  \/ LeerActivacionDeAviso(e) \/ LeerOrdenes(e) \/ CargarOrden(e) \/ EscribirOrden(e)
  \/ AvanzarLibro(e)

Cobrar(k) == LeerPartida(k) \/ EscribirPartida(k)

Solicitar(h) ==
  \E c \in Campanias :
    \/ PedirCrear(h, c)
    \/ \E op \in {"actualizar", "quitar", "renovar", "activar"} : PedirSobre(h, op, c)
    \/ \E a \in DOMAIN activacion : PedirCerrar(h, c, a)
    \/ \E accion \in Acciones, d \in Envios : PedirFirma(h, c, accion, d)
    \/ \E o \in Ordenes, total \in Totales : PedirOrden(h, c, o, total)

NextCampania ==
  \/ \E h \in Hilos : Solicitar(h) \/ Atender(h) \/ FallarPeticion(h)
  \/ \E h \in Hilos, a \in DOMAIN activacion : PedirDesactivar(h, a)
  \/ \E d \in Envios : EnviarAFirmamex(d)
  \/ \E e \in Avisos : Recibir(e) \/ Manejar(e) \/ FallarAviso(e)
  \/ \E k \in Cobros :
       \/ \E evento \in EventosPartida, o \in Ordenes, total \in Totales :
            PedirCobro(k, evento, o, total)
       \/ Cobrar(k) \/ FallarCobro(k)
  \/ \E a \in DOMAIN activacion : QuitarActivacion(a)
  \/ \E p \in DOMAIN partida : QuitarPartida(p) \/ ActualizarPartida(p, Cero)
  \/ CaerServidor

SpecCampania == InitCampania /\ [][NextCampania]_todas

\* A step of a request or of a handler that is in progress.
Progreso ==
  \/ \E h \in Hilos : Atender(h)
  \/ \E e \in Avisos : Manejar(e)
  \/ \E k \in Cobros : Cobrar(k)

\* The driver settles every query and the event loop runs what was emitted:
\* while something is in progress, some of it goes on.
FairSpecCampania == SpecCampania /\ WF_todas(Progreso)
----
(* Properties.                                                             *)

\* Nothing is in progress, and nothing overlapped, failed or was irregular.
Tranquilo == incidentes = 0 /\ Quieto

\* Undisturbed, a campaign that is not closed has one active activation, the
\* last, whose match can be charged; a closed one has none; and the numbers of
\* its activations count them, through any sequence of closings and renewals.
UnaVigente ==
  Tranquilo => \A c \in Campanias : Existe(c) =>
    LET acts == ActivacionesDe(c)
        ultima == UltimaActivacion(c)
    IN  /\ ultima # 0
        /\ {a \in acts : activacion[a].status} =
             IF campania[c] = "INACTIVA" THEN {} ELSE {ultima}
        /\ partida[activacion[ultima].partida].estatus <=> campania[c] # "INACTIVA"
        /\ \A a \in acts : activacion[a].numero = Cardinality({b \in acts : b <= a})

\* The document d was notified as completed.
Notificado(d) == \E e \in Avisos : aviso[e].recibido /\ Doc(e) = d

Firmada(c, accion) ==
  \E d \in Envios : Notificado(d) /\ documento[d].campania = c /\ documento[d].accion = accion

\* Whatever overlaps or fails, a campaign and its orders are approved, or
\* cancelled, only when a document asking for it was signed; undisturbed, it is
\* the document of the activation that is now the last.
AprobadaConFirma ==
  \A c \in Campanias :
    /\ campania[c] = "APROBADA" => Firmada(c, "APPROVE")
    /\ campania[c] = "CANCELADA" => Firmada(c, "CANCEL")
    /\ \A o \in Ordenes : HayOrden(o) /\ orden[o].campania = c =>
         /\ orden[o].estatus = "ACTIVA" => Firmada(c, "APPROVE")
         /\ orden[o].estatus = "CANCELADA" => Firmada(c, "CANCEL")
    /\ Tranquilo /\ campania[c] = "APROBADA" =>
         /\ activacion[UltimaActivacion(c)].aprobada
         /\ \E d \in Envios : /\ Notificado(d) /\ documento[d].accion = "APPROVE"
                              /\ documento[d].activacion = UltimaActivacion(c)

\* Undisturbed, a campaign waits for signatures, which no request takes it out
\* of, exactly while a document of its last activation is still to be
\* completed; and no campaign with a document is ever removed, neither by a
\* request nor by a create that failed and cleans up after itself.
CampaniaConDocumento ==
  incidentes = 0 =>
    /\ \A d \in Envios : documento[d] # SinDocumento => Existe(documento[d].campania)
    /\ Quieto => \A c \in Campanias :
         campania[c] = "PENDIENTE" <=>
           \E d \in Envios : /\ documento[d].campania = c /\ ~Notificado(d)
                             /\ documento[d].activacion = UltimaActivacion(c)

\* What the orders in a status take from a fund.
SumaDe(estatus, f) ==
  SumFunctionOnSet([o \in Ordenes |-> ImporteA(orden[o].cargos, f)],
                   {o \in Ordenes : orden[o].estatus = estatus})

\* Undisturbed, the committed amount of every fund is that of the orders that
\* wait for their campaign and the active amount that of its active ones: the
\* approval of a campaign, its cancellation and its closing settle every order.
ReservaDeCampania ==
  Tranquilo => \A f \in Fondos :
    /\ fondo[f]["committedAmount"] = SumaDe("PENDIENTE", f)
    /\ fondo[f]["montoActivo"] = SumaDe("ACTIVA", f)

\* The amounts of the charges of some events that a match took.
Cargado(eventos) ==
  SumFunctionOnSet([k \in Cobros |-> cobro[k].total],
                   {k \in Cobros : cobro[k].en = "hecho" /\ cobro[k].evento \in eventos})
EnPartidas(c) == SumFunction([p \in DOMAIN partida |-> partida[p].montos[c]])

\* Undisturbed, the matches keep what orders brought and invoices moved, in
\* whatever activation each charge landed.
PartidaCuadra ==
  Tranquilo =>
    /\ EnPartidas("activo") + EnPartidas("ejercido") + EnPartidas("pagado") =
         Cargado({"ORDER_APPROVED"}) - Cargado({"ORDER_CANCELLED"})
    /\ EnPartidas("pagado") = Cargado({"INVOICE_PAID"})
    /\ EnPartidas("ejercido") + EnPartidas("pagado") =
         Cargado({"INVOICE_REVIEWED", "INVOICE_CANCELLED"})

\* Undisturbed, the money of a match is final once its activation was closed:
\* orders and invoices settled after that do not reach it.
PartidaCerrada ==
  [][incidentes' = 0 => \A p \in DOMAIN partida :
       ~partida[p].estatus => partida'[p].montos = partida[p].montos]_todas

\* Every request and handler ends: no loop over orders, activations or charges
\* goes round for ever, and nothing waits for anything else.
TodoAcaba == []<>Quieto
=============================================================================
