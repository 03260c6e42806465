---------------------------- MODULE OrdenContrato ----------------------------
(***************************************************************************)
(* The life of the service orders of a master contract, composed with its  *)
(* ledger: the requests of the order service that reserve money and save   *)
(* orders (orden.service.ts), the signature documents (firma.service.ts),  *)
(* the notifications of the signing provider (webhooks.service.ts) and the *)
(* two handlers each notification starts: the ledger's and the status's.   *)
(*                                                                         *)
(* A request is a process that awaits query after query: en is the query   *)
(* it will do next. The rows it has read stay in its memory and may be old *)
(* when it writes them. A delivery of a notification is a pair of a        *)
(* document and its number; its parts, once emitted, run in any order.     *)
(***************************************************************************)
EXTENDS LibroContrato, FondosDelContrato, FiniteSetsExt

CONSTANTS Extensiones,     \* the amendments that extend the amount, in order
          MontoMaximo,     \* montoMaximoContratado: the master's money before tax
          Servicio,        \* the service type of the orders
          Ordenes,         \* ids
          Totales,         \* totals an order can have
          Hilos,           \* requests in flight at once
          MaxEnvios,       \* bound on the documents per order and action
          MaxEntregas,     \* bound on the notifications per document
          Operaciones,     \* requests that clients make
          ClienteRegular   \* clients only follow the signing flow

Acciones == {"APPROVE", "CANCEL"}
Documentos == Ordenes \X Acciones \X (1..MaxEnvios)
OrdenDe(d) == d[1]
AccionDe(d) == d[2]

Solicitudes == {"crear", "quitar", "actualizar", "firmar", "cancelar"}

\* A delivery: the n-th time that the provider notifies document d.
Entregas == Documentos \X (1..MaxEntregas)

ASSUME EntregasAssumption == Tareas = Entregas
ASSUME OrdenesAssumption ==
  /\ Servicio \in Servicios
  /\ Extensiones \in Seq(Fondos \ {Maestro})
  /\ \A i, j \in DOMAIN Extensiones : Extensiones[i] = Extensiones[j] => i = j
  /\ IsFiniteSet(Ordenes)
  /\ Totales \subseteq Nat \ {0}
  /\ MontoMaximo \in Nat
  /\ Operaciones \subseteq Solicitudes
  /\ MaxEnvios \in Nat /\ MaxEntregas \in Nat /\ ClienteRegular \in BOOLEAN

VARIABLES
  orden,    \* rows of the orders
  pedido,   \* requests in flight
  firma,    \* rows of the signature documents
  entrega   \* what is left of each delivery

varsOrden == <<orden, pedido, firma, entrega>>
varsLibro == <<fondo, contrato, paso, llamada, visto>>
todas == <<vars, varsOrden>>

Estatus == {"PENDIENTE", "ACTIVA", "CANCELADA"}
FilaOrden == [existe : {"nunca", "si", "borrada"}, estatus : Estatus, total : Int,
              desglose : Seq(Cargo), folio : Nat]
Consultas == {"libre", "fondos", "comprometer", "folio", "guardarNueva", "servicios",
              "orden", "contrato", "borrar", "guardar", "firmantes", "documento", "estatus"}
EstatusDeFirma == {"NO_EXISTE", "PENDIENTE_DE_FIRMA", "APROBADA", "CANCELADA"}

SinOrden == [existe |-> "nunca", estatus |-> "PENDIENTE", total |-> 0,
             desglose |-> <<>>, folio |-> 0]
SinPedido == [op |-> "-", en |-> "libre", orden |-> "-", docs |-> {}, total |-> 0,
              fila |-> SinOrden, escrituras |-> <<>>]
SinEntrega == [recibida |-> FALSE, monto |-> FALSE, estatus |-> 0, guardar |-> FALSE]

TypeOKOrden ==
  /\ TypeOK
  /\ orden \in [Ordenes -> FilaOrden]
  /\ pedido \in [Hilos -> [op : Solicitudes, en : Consultas \ {"libre"}, orden : Ordenes,
                           docs : SUBSET Documentos, total : Totales \cup {0}, fila : FilaOrden,
                           escrituras : Seq(Escritura)] \cup {SinPedido}]
  /\ firma \in [Documentos -> [estatus : EstatusDeFirma, ticket : BOOLEAN]]
  /\ entrega \in [Entregas -> [recibida : BOOLEAN, monto : BOOLEAN, estatus : 0..2,
                               guardar : BOOLEAN]]

InitOrden ==
  /\ Init
  /\ orden = [o \in Ordenes |-> SinOrden]
  /\ pedido = [h \in Hilos |-> SinPedido]
  /\ firma = [d \in Documentos |-> [estatus |-> "NO_EXISTE", ticket |-> FALSE]]
  /\ entrega = [e \in Entregas |-> SinEntrega]

----
(* Helpers.                                                                *)

Existe(o) == orden[o].existe = "si"

\* The charges of an order to the funds: its breakdown, or its total.
Cargos(fila) ==
  IF fila.desglose = <<>> THEN <<[fondo |-> Maestro, monto |-> fila.total]>>
  ELSE fila.desglose

Emitida(e) == entrega[e].monto \/ entrega[e].estatus > 0 \/ entrega[e].guardar

\* No request and no delivery is in progress.
Quieto ==
  /\ Reposo
  /\ \A h \in Hilos : pedido[h].en = "libre"
  /\ \A e \in Entregas : ~Emitida(e)

Abierto ==
  /\ Serial => Quieto
  /\ inicios < MaxInicios

\* The request answers, or throws: what it wrote stays.
Responder(h) == pedido' = [pedido EXCEPT ![h] = SinPedido]
Seguir(h, en) == pedido' = [pedido EXCEPT ![h].en = en]
SeguirCon(h, en, fila, escrituras) ==
  pedido' = [pedido EXCEPT ![h].en = en, ![h].fila = fila, ![h].escrituras = escrituras]

EnviadoAFirma(d) == firma[d].estatus # "NO_EXISTE"
Enviados(o, accion) ==
  {d \in Documentos : OrdenDe(d) = o /\ AccionDe(d) = accion /\ EnviadoAFirma(d)}
SinFirmas(o) == \A accion \in Acciones : Enviados(o, accion) = {}

\* Clients that follow the signing flow remove only orders never sent to
\* signing, approve an order once and cancel it once it is active.
EnvioRegular(o, accion) ==
  IF accion = "APPROVE" THEN SinFirmas(o)
  ELSE orden[o].estatus = "ACTIVA" /\ Enviados(o, "CANCEL") = {}

----
(* Requests arrive.                                                        *)

Pedir(h, op, en, o, docs, total) ==
  /\ Abierto
  /\ pedido[h].en = "libre"
  /\ op \in Operaciones
  /\ pedido' = [pedido EXCEPT ![h] = [op |-> op, en |-> en, orden |-> o, docs |-> docs,
                                      total |-> total, fila |-> SinOrden,
                                      escrituras |-> <<>>]]
  /\ inicios' = inicios + 1
  /\ UNCHANGED <<varsLibro, orden, firma, entrega>>

\* create: the id is new.
PedirCrear(h, o, total) ==
  /\ orden[o].existe = "nunca"
  /\ \A g \in Hilos : pedido[g].orden # o
  /\ Pedir(h, "crear", "fondos", o, {}, total)

\* remove, update and cancelarOrden of an order that was created.
PedirSobre(h, op, o, total) ==
  /\ op \in {"quitar", "actualizar", "cancelar"}
  /\ orden[o].existe # "nunca"
  /\ ClienteRegular => SinFirmas(o)
  /\ Pedir(h, op, "orden", o, {}, total)

\* sendToSigningOrder: the row of its document will be a new one.
PedirFirma(h, d) ==
  /\ orden[OrdenDe(d)].existe # "nunca"
  /\ ~EnviadoAFirma(d)
  /\ \A g \in Hilos : d \notin pedido[g].docs
  /\ ClienteRegular => EnvioRegular(OrdenDe(d), AccionDe(d))
  /\ Pedir(h, "firmar", "orden", OrdenDe(d), {d}, 0)

----
(* create.                                                                 *)

\* getAllAvailableAmounts, in one read of the contract and its amendments.
LeerFondos(h) ==
  LET plan == PlanDeFondos(fondo, Maestro, Extensiones, pedido[h].total)
  IN  /\ pedido[h].en = "fondos"
      /\ IF PlanCubierto(plan)
           THEN SeguirCon(h, "comprometer",
                          [SinOrden EXCEPT !.existe = "si", !.total = pedido[h].total,
                                           !.desglose = Desglose(plan, Maestro)],
                          plan.escrituras)
           ELSE Responder(h)
      /\ UNCHANGED <<vars, orden, firma, entrega>>

\* Wrong form: the loop writes its first fund again and again.
EscribirReservaRepetida(h) ==
  /\ pedido[h].en = "comprometer"
  /\ EscribirComprometido(Head(pedido[h].escrituras).fondo, Head(pedido[h].escrituras).valor)
  /\ UNCHANGED <<inicios, varsOrden>>

\* One UPDATE of a committed amount, of create, remove or update.
EscribirReserva(h) ==
  LET e == Head(pedido[h].escrituras)
      resto == Tail(pedido[h].escrituras)
  IN  /\ pedido[h].en = "comprometer"
      /\ EscribirComprometido(e.fondo, e.valor)
      /\ SeguirCon(h, IF resto # <<>> THEN "comprometer"
                      ELSE CASE pedido[h].op = "crear"      -> "folio"
                             [] pedido[h].op = "quitar"     -> "borrar"
                             [] pedido[h].op = "actualizar" -> "servicios",
                   pedido[h].fila, resto)
      /\ UNCHANGED <<inicios, orden, firma, entrega>>

Folios == {orden[o].folio : o \in {x \in Ordenes : Existe(x)}}

\* getCurrentFolio: the largest one in use, plus one.
LeerFolio(h) ==
  /\ pedido[h].en = "folio"
  /\ SeguirCon(h, "guardarNueva",
               [pedido[h].fila EXCEPT !.folio = Max(Folios \cup {0}) + 1], <<>>)
  /\ UNCHANGED <<vars, orden, firma, entrega>>

\* save of the new order: the folio is UNIQUE.
GuardarNueva(h) ==
  /\ pedido[h].en = "guardarNueva"
  /\ IF pedido[h].fila.folio \in Folios
       THEN Responder(h) /\ UNCHANGED orden
       ELSE /\ orden' = [orden EXCEPT ![pedido[h].orden] = pedido[h].fila]
            /\ Seguir(h, "servicios")
  /\ UNCHANGED <<vars, firma, entrega>>

\* The services need their order; when one of them fails create removes it.
QuitarTrasFallo(h) ==
  pedido' = [pedido EXCEPT ![h].op = "quitar", ![h].en = "orden"]

CrearServicios(h) ==
  /\ pedido[h].en = "servicios" /\ pedido[h].op = "crear"
  /\ IF Existe(pedido[h].orden) THEN Responder(h) ELSE QuitarTrasFallo(h)
  /\ UNCHANGED <<vars, orden, firma, entrega>>

----
(* remove, update, sendToSigningOrder and cancelarOrden.                   *)

\* Each begins by reading the order, and all but one test its status.
LeerOrden(h) ==
  LET o == pedido[h].orden
      op == pedido[h].op
      sigue == /\ Existe(o)
               /\ op = "quitar" => orden[o].estatus = "PENDIENTE"
               /\ op = "cancelar" => orden[o].estatus # "PENDIENTE"
  IN  /\ pedido[h].en = "orden"
      /\ IF sigue
           THEN SeguirCon(h, CASE op \in {"quitar", "actualizar"} -> "contrato"
                               [] op = "firmar"   -> "firmantes"
                               [] op = "cancelar" -> "estatus", orden[o], <<>>)
           ELSE Responder(h)
      /\ UNCHANGED <<vars, orden, firma, entrega>>

\* Wrong form: remove gives the whole total back to the master.
DevolucionesDelTotal(fila) ==
  <<[fondo |-> Maestro,
     valor |-> Redondear(Menos(fondo[Maestro]["committedAmount"], fila.total))]>>

\* remove gives back every charge, from one read of the contract.
Devoluciones(fila) ==
  [i \in DOMAIN Cargos(fila) |->
     LET cargo == Cargos(fila)[i]
     IN  [fondo |-> cargo.fondo,
          valor |-> Redondear(Menos(fondo[cargo.fondo]["committedAmount"], cargo.monto))]]

\* update moves the master's committed amount by the change of the total. Its
\* guard compares what the other orders have committed with the contract's
\* maximum amount before tax; it does not look at the breakdown of the order.
LeerContratoDeOrden(h) ==
  LET fila == pedido[h].fila
      sinOrden == Menos(fondo[Maestro]["committedAmount"], fila.total)
  IN  /\ pedido[h].en = "contrato"
      /\ \/ /\ pedido[h].op = "quitar"
            /\ SeguirCon(h, "comprometer", fila, Devoluciones(fila))
         \/ /\ pedido[h].op = "actualizar"
            /\ IF sinOrden # NaN /\ sinOrden < MontoMaximo
                 THEN SeguirCon(h, "comprometer", [fila EXCEPT !.total = pedido[h].total],
                                <<[fondo |-> Maestro,
                                   valor |-> sinOrden + pedido[h].total]>>)
                 ELSE Responder(h)
      /\ UNCHANGED <<vars, orden, firma, entrega>>

\* The DELETE of remove.
Borrar(h) ==
  /\ pedido[h].en = "borrar"
  /\ orden' = IF Existe(pedido[h].orden)
                THEN [orden EXCEPT ![pedido[h].orden].existe = "borrada"] ELSE orden
  /\ Responder(h)
  /\ UNCHANGED <<vars, firma, entrega>>

\* update replaces the services, which need their order.
CambiarServicios(h) ==
  /\ pedido[h].en = "servicios" /\ pedido[h].op = "actualizar"
  /\ IF Existe(pedido[h].orden) THEN Seguir(h, "guardar") ELSE Responder(h)
  /\ UNCHANGED <<vars, orden, firma, entrega>>

\* firma.create: the signers, if the order may be signed as it is now.
LeerFirmantes(h) ==
  LET o == pedido[h].orden
  IN  /\ pedido[h].en = "firmantes"
      /\ IF Existe(o) /\ orden[o].estatus \in {"PENDIENTE", "ACTIVA"}
           THEN Seguir(h, "documento") ELSE Responder(h)
      /\ UNCHANGED <<vars, orden, firma, entrega>>

GuardarDocumento(h) ==
  /\ pedido[h].en = "documento"
  /\ firma' = [d \in Documentos |->
                 IF d \in pedido[h].docs
                   THEN [estatus |-> "PENDIENTE_DE_FIRMA", ticket |-> FALSE]
                   ELSE firma[d]]
  /\ SeguirCon(h, "guardar", [pedido[h].fila EXCEPT !.estatus = "PENDIENTE"], <<>>)
  /\ UNCHANGED <<vars, orden, entrega>>

\* save of the whole row that the request read: columns that changed since are
\* overwritten, and a row that was removed since is inserted again.
Guardar(h) ==
  LET o == pedido[h].orden
      fila == pedido[h].fila
      otros == {orden[x].folio : x \in {x \in Ordenes \ {o} : Existe(x)}}
  IN  /\ pedido[h].en = "guardar"
      /\ orden' = IF fila.folio \in otros THEN orden ELSE [orden EXCEPT ![o] = fila]
      /\ Responder(h)
      /\ UNCHANGED <<vars, firma, entrega>>

EscribirCancelada(h) ==
  /\ pedido[h].en = "estatus"
  /\ orden' = IF Existe(pedido[h].orden)
                THEN [orden EXCEPT ![pedido[h].orden].estatus = "CANCELADA"] ELSE orden
  /\ Responder(h)
  /\ UNCHANGED <<vars, firma, entrega>>

----
(* Signatures.                                                             *)

\* documentSigning: the document of an order that exists gets its ticket.
EnviarAFirmamex(d) ==
  /\ Serial => Quieto
  /\ firma[d].estatus = "PENDIENTE_DE_FIRMA" /\ ~firma[d].ticket
  /\ Existe(OrdenDe(d))
  /\ firma' = [firma EXCEPT ![d].ticket = TRUE]
  /\ UNCHANGED <<vars, orden, pedido, entrega>>

\* document_completed: the provider may notify it more than once. The webhook
\* emits the two events and then saves the document.
RecibirCompletado(e) ==
  LET d == e[1]
  IN  /\ Abierto
      /\ firma[d].ticket /\ firma[d].estatus # "CANCELADA"
      /\ ~entrega[e].recibida
      /\ \A n \in 1..MaxEntregas : n < e[2] => entrega[<<d, n>>].recibida
      /\ entrega' = [entrega EXCEPT ![e] =
           [recibida |-> TRUE, monto |-> TRUE, guardar |-> TRUE,
            estatus |-> IF AccionDe(d) = "APPROVE" THEN 2 ELSE 1]]
      /\ inicios' = inicios + 1
      /\ UNCHANGED <<varsLibro, orden, pedido, firma>>

\* document_rejected: only the document changes.
RecibirRechazo(d) ==
  /\ Abierto
  /\ firma[d].ticket /\ firma[d].estatus = "PENDIENTE_DE_FIRMA"
  /\ \A n \in 1..MaxEntregas : ~entrega[<<d, n>>].recibida
  /\ firma' = [firma EXCEPT ![d].estatus = "CANCELADA"]
  /\ inicios' = inicios + 1
  /\ UNCHANGED <<varsLibro, orden, pedido, entrega>>

GuardarFirma(e) ==
  /\ entrega[e].guardar
  /\ firma' = [firma EXCEPT ![e[1]].estatus = "APROBADA"]
  /\ entrega' = [entrega EXCEPT ![e].guardar = FALSE]
  /\ UNCHANGED <<vars, orden, pedido>>

\* Wrong form: a signed cancellation is taken for an approval.
EventoSiempreAprobado(d) == "ORDER_APPROVED"

EventoDe(d) == IF AccionDe(d) = "APPROVE" THEN "ORDER_APPROVED" ELSE "ORDER_CANCELLED"

\* updateContractAmountsFromOrder reads the order and enters its loop; with no
\* order it throws and ends.
LeerOrdenDeEntrega(e) ==
  LET o == OrdenDe(e[1])
  IN  /\ entrega[e].monto
      /\ IF Existe(o)
           THEN Arrancar(e, [evento |-> EventoDe(e[1]), servicio |-> Servicio,
                             cargos |-> Cargos(orden[o])])
           ELSE UNCHANGED varsLibro
      /\ entrega' = [entrega EXCEPT ![e].monto = FALSE]
      /\ UNCHANGED <<inicios, orden, pedido, firma>>

\* Wrong form: every notification makes the order active.
EstatusSiempreActiva(d) == "ACTIVA"

\* The status that a signed document gives its order.
EstatusDe(d) == IF AccionDe(d) = "APPROVE" THEN "ACTIVA" ELSE "CANCELADA"

\* updateOrderStatus: one UPDATE, or two of them when the order is approved.
EscribirEstatus(e) ==
  LET o == OrdenDe(e[1])
  IN  /\ entrega[e].estatus > 0
      /\ orden' = IF Existe(o) THEN [orden EXCEPT ![o].estatus = EstatusDe(e[1])] ELSE orden
      /\ entrega' = [entrega EXCEPT ![e].estatus = IF Existe(o) THEN @ - 1 ELSE 0]
      /\ UNCHANGED <<vars, pedido, firma>>

\* A step of the activation that a delivery started.
AvanzarLibro(e) == Avanzar(e) /\ UNCHANGED varsOrden

----
(* Failures.                                                               *)

\* A query of a request rejects; create undoes the order it has saved.
FallarPedido(h) ==
  /\ ConFallos
  /\ pedido[h].en # "libre"
  /\ IF pedido[h].op = "crear" /\ pedido[h].en = "servicios"
       THEN QuitarTrasFallo(h) ELSE Responder(h)
  /\ UNCHANGED <<vars, orden, firma, entrega>>

\* A query of one of the handlers of a delivery rejects.
FallarEntrega(e) ==
  /\ ConFallos
  /\ \/ Fallar(e) /\ UNCHANGED entrega
     \/ /\ Emitida(e)
        /\ \/ entrega' = [entrega EXCEPT ![e].monto = FALSE]
           \/ entrega' = [entrega EXCEPT ![e].estatus = 0]
           \/ entrega' = [entrega EXCEPT ![e].guardar = FALSE]
        /\ UNCHANGED vars
  /\ UNCHANGED <<orden, pedido, firma>>

\* The process stops: requests and events are lost, the rows are not.
CaerServidor ==
  /\ ConFallos
  /\ ~Quieto
  /\ PerderActivaciones
  /\ pedido' = [h \in Hilos |-> SinPedido]
  /\ entrega' = [e \in Entregas |-> [SinEntrega EXCEPT !.recibida = entrega[e].recibida]]
  /\ UNCHANGED <<orden, firma>>

----

Atender(h) ==
  \/ LeerFondos(h) \/ EscribirReserva(h) \/ LeerFolio(h) \/ GuardarNueva(h)
  \/ CrearServicios(h) \/ LeerOrden(h) \/ LeerContratoDeOrden(h) \/ Borrar(h)
  \/ CambiarServicios(h) \/ LeerFirmantes(h) \/ GuardarDocumento(h) \/ Guardar(h)
  \/ EscribirCancelada(h)

NextOrden ==
  \/ \E h \in Hilos :
       \/ \E o \in Ordenes, total \in Totales :
            \/ PedirCrear(h, o, total)
            \/ \E op \in Operaciones : PedirSobre(h, op, o, total)
       \/ \E d \in Documentos : PedirFirma(h, d)
       \/ Atender(h)
       \/ FallarPedido(h)
  \/ \E d \in Documentos : EnviarAFirmamex(d) \/ RecibirRechazo(d)
  \/ \E e \in Entregas :
       \/ RecibirCompletado(e) \/ GuardarFirma(e) \/ LeerOrdenDeEntrega(e)
       \/ EscribirEstatus(e) \/ AvanzarLibro(e) \/ FallarEntrega(e)
  \/ CaerServidor

SpecOrden == InitOrden /\ [][NextOrden]_todas

\* The driver settles every query and the event loop runs every handler that
\* was emitted. Clients and the signing provider need not do anything.
FairSpecOrden ==
  /\ SpecOrden
  /\ \A h \in Hilos : WF_todas(Atender(h))
  /\ \A e \in Entregas :
       /\ WF_todas(LeerOrdenDeEntrega(e)) /\ WF_todas(EscribirEstatus(e))
       /\ WF_todas(GuardarFirma(e)) /\ WF_todas(AvanzarLibro(e))
----
(* Properties.                                                             *)

\* What an order takes from a fund, and what some orders take.
Parte(fila, f) == ImporteA(Cargos(fila), f)
SumaDe(os, f) == SumFunctionOnSet([o \in os |-> Parte(orden[o], f)], os)

\* A document of this order and action that the provider notified as signed.
Firmada(o, accion) ==
  \E e \in Entregas : /\ entrega[e].recibida
                      /\ OrdenDe(e[1]) = o /\ AccionDe(e[1]) = accion

Reservadas == {o \in Ordenes : Existe(o) /\ ~Firmada(o, "APPROVE")}
Activas == {o \in Ordenes : Firmada(o, "APPROVE") /\ ~Firmada(o, "CANCEL")}

\* With nothing in flight, the committed amount of every fund is what the
\* orders waiting for a signature took from it when they were created, and its
\* active amount is what the signed and not cancelled ones took: create,
\* remove and the handlers of the signatures agree on every charge.
ReservaCuadra ==
  (Serial /\ ClienteRegular /\ ~ConFallos /\ Quieto) =>
    \A f \in Fondos : /\ fondo[f]["committedAmount"] = SumaDe(Reservadas, f)
                      /\ fondo[f]["montoActivo"] = SumaDe(Activas, f)

\* No order is given money that a fund does not have: what is committed is
\* still available, between the steps of a request or of a handler too.
SinSobregiro ==
  (Serial /\ ClienteRegular /\ ~ConFallos) =>
    \A f \in Fondos : /\ fondo[f]["committedAmount"] \in Nat
                      /\ fondo[f]["committedAmount"] <= fondo[f]["montoDisponible"]

\* The status of an order is what its signatures say, whatever order the
\* handlers of a notification run in, unless a cancellation waits for its own.
EstatusSegunFirmas ==
  (Serial /\ ClienteRegular /\ Quieto /\ ~ConFallos) =>
    \A o \in Ordenes : Existe(o) =>
      /\ Firmada(o, "CANCEL") => orden[o].estatus = "CANCELADA"
      /\ Enviados(o, "CANCEL") = {} =>
           orden[o].estatus = IF Firmada(o, "APPROVE") THEN "ACTIVA" ELSE "PENDIENTE"

EstatusEsperado(accion) == IF accion = "APPROVE" THEN "ACTIVA" ELSE "CANCELADA"

Entregadas(accion) ==
  Cardinality({e \in Entregas : entrega[e].recibida /\ AccionDe(e[1]) = accion})

\* Whatever requests race, fail or are repeated, money becomes active only
\* with a signature: a fund has no more active than the notified approvals can
\* have given it, and owes no more than the notified cancellations.
ActivoConFirma ==
  LET tope == Max(Totales)
  IN  \A f \in Fondos : /\ fondo[f]["montoActivo"] <= tope * Entregadas("APPROVE")
                        /\ - fondo[f]["montoActivo"] <= tope * Entregadas("CANCEL")

\* An order is active only when a document approving it was signed, also when
\* a request saves a row that it read long before.
ActivaConFirma ==
  \A o \in Ordenes : Existe(o) /\ orden[o].estatus = "ACTIVA" => Firmada(o, "APPROVE")

\* Every request is answered and every handler of a notification ends, however
\* the requests and the handlers interleave.
TodoTermina ==
  /\ \A h \in Hilos : pedido[h].en # "libre" ~> pedido[h].en = "libre"
  /\ \A e \in Entregas : Emitida(e) \/ paso[e] # "libre" ~> ~Emitida(e) /\ paso[e] = "libre"

\* A notified approval makes the order active at some moment, and a notified
\* cancellation makes it cancelled, unless the order is removed meanwhile.
NotificacionSurteEfecto ==
  \A e \in Entregas : entrega[e].estatus > 0 ~>
    ~Existe(OrdenDe(e[1])) \/ orden[OrdenDe(e[1])].estatus = EstatusEsperado(AccionDe(e[1]))

\* estatus-orden-de-servicio.ts says that an order that is PENDIENTE has been
\* created and not yet activated.
PendienteSinActivar ==
  Quieto => \A o \in Ordenes :
    Existe(o) /\ orden[o].estatus = "PENDIENTE" => o \notin Activas
=============================================================================
