----------------------------- MODULE FacturaFirma -----------------------------
(***************************************************************************)
(* The life of the invoices of a contract, composed with its ledger: the   *)
(* requests of factura.service.ts, the signature documents of the invoices *)
(* (firma.service.ts), the notifications of the signing provider           *)
(* (webhooks.service.ts), the handlers that these start                    *)
(* (factura.events.service.ts) and the file with the payments.             *)
(*                                                                         *)
(* An invoice has one order: create reads the list of ids it is given as   *)
(* one id. Requests and handlers await query after query, and hold rows    *)
(* that may be old when they write them. update() of a row that was read   *)
(* writes all of it; save() selects the row again and writes only the      *)
(* columns that differ from what it finds.                                 *)
(***************************************************************************)
EXTENDS LibroContrato, FiniteSetsExt

CONSTANTS Facturas,      \* ids
          Folios,        \* folios: not unique
          Ordenes,       \* orders that were active at the start
          CargosDe,      \* the charges of each order to the funds
          Servicio,      \* the service type of the orders
          Totales,       \* totals an invoice can have, from its XML
          Antes,         \* sets of invoices that may be approved at the start
          Archivos,      \* payment files: sequences of rows, one at least
          Hilos,         \* requests in flight at once
          MaxEnvios,     \* bound on the documents per invoice and action
          MaxAvisos,     \* bound on the notifications per document and kind
          MaxIncidentes  \* bound on overlapping arrivals and failures

Acciones == {"APPROVE", "CANCEL"}
Documentos == Facturas \X Acciones \X (1..MaxEnvios)
FacturaDe(d) == d[1]
AccionDe(d) == d[2]

\* original_signed and document_completed, the n-th time for a document.
Avisos == Documentos \X {"original", "completado"} \X (1..MaxAvisos)
Doc(e) == e[1]
EsCompletado(e) == e[2] = "completado"

\* A row of the payments file.
Renglon == [folio : Folios, monto : Int, cheque : Nat]

ASSUME FacturasAssumption ==
  /\ Tareas = Avisos \cup Hilos /\ Avisos \cap Hilos = {}
  /\ IsFiniteSet(Facturas) /\ IsFiniteSet(Ordenes) /\ IsFiniteSet(Fondos)
  /\ Servicio \in Servicios
  /\ CargosDe \in [Ordenes -> Seq(Cargo) \ {<<>>}]
  /\ Totales \subseteq Nat
  /\ Archivos \subseteq Seq(Renglon) \ {<<>>}
  /\ Antes \subseteq SUBSET Facturas
  /\ MaxEnvios \in Nat \ {0} /\ MaxAvisos \in Nat \ {0} /\ MaxIncidentes \in Nat

VARIABLES
  factura,      \* rows of the invoices
  estatusOrden, \* status of each order
  documento,    \* signature documents
  peticion,     \* requests in flight
  aviso,        \* what is left of each notification
  cobro,        \* the invoice.paid handler that the file of a request started
  incidentes,   \* overlapping arrivals and failures so far
  mezcladas     \* history: invoices of which a save has mixed two rows

varsFactura == <<factura, estatusOrden, documento, peticion, aviso, cobro, mezcladas>>
varsLibro == <<fondo, contrato, paso, llamada, visto>>
todas == <<vars, varsFactura, incidentes>>

INVOICE_STATUS == {"RECIBIDA", "CONTEJADA", "APROBADA", "PARTIAL_PAY", "PAGADA", "CANCELADA"}
ESTATUS_ORDEN == {"ACTIVA", "PAGO_APROBADO", "PARTIAL_PAY", "PAGADA", "CANCELADA"}

\* A payment as it is registered.
PaymentRegister == [monto : Int, cheque : Nat]
Factura == [folio : Folios, total : Totales, orden : Ordenes, status : INVOICE_STATUS,
            pagos : Seq(PaymentRegister)]
SinFactura == [status |-> "NO_EXISTE", pagos |-> <<>>]
Existe(f) == factura[f] # SinFactura

SinPeticion == [op |-> "-", en |-> "libre", factura |-> "-", docs |-> {}, fila |-> SinFactura,
                columnas |-> {}, renglones |-> <<>>, pagadas |-> <<>>]
SinAviso == [recibido |-> FALSE, doc |-> FALSE, status |-> "no", fila |-> SinFactura,
             montos |-> "no"]
SinCobro == [facturas |-> <<>>, en |-> "no"]

\* What an order takes from a fund.
Parte(o, f) == ImporteA(CargosDe[o], f)

\* The orders of the instance were approved: their money is active.
ActivoInicial(f) == SumFunction([o \in Ordenes |-> Parte(o, f)])

\* The row of an invoice, new or approved.
FilaFactura(folio, total, o, status) ==
  [folio |-> folio, total |-> total, orden |-> o, status |-> status, pagos |-> <<>>]

\* Some invoices were created, sent to be signed and notified as completed
\* before the behaviour starts; one order may have several of them.
InitFacturas ==
  \E ya \in Antes :
    /\ factura \in [Facturas -> {SinFactura} \cup
                      {FilaFactura(folio, total, o, "APROBADA") :
                         folio \in Folios, total \in Totales, o \in Ordenes}]
    /\ {f \in Facturas : Existe(f)} = ya
    /\ estatusOrden = [o \in Ordenes |->
                         IF \E f \in ya : factura[f].orden = o THEN "PAGO_APROBADO"
                         ELSE "ACTIVA"]
    /\ documento = [d \in Documentos |->
                      IF d \in ya \X {"APPROVE"} \X {1} THEN "APROBADA" ELSE "no"]
    /\ aviso = [e \in Avisos |->
                  [SinAviso EXCEPT !.recibido =
                     EsCompletado(e) /\ e[3] = 1 /\ Doc(e) \in ya \X {"APPROVE"} \X {1}]]
    /\ inicios = 3 * Cardinality(ya)

InitFactura ==
  /\ InitFacturas
  /\ fondo = [f \in Fondos |->
                [FilaFondoCero EXCEPT !["montoActivo"] = ActivoInicial(f),
                                      !["montoDisponible"] = Techo[f] - ActivoInicial(f)]]
  /\ contrato = [s \in Servicios |->
                   [FilaServicioCero EXCEPT !["montoActivo"] =
                      IF s = Servicio THEN SumFunction([f \in Fondos |-> ActivoInicial(f)])
                      ELSE 0]]
  /\ paso = [t \in Tareas |-> "libre"]
  /\ llamada = [t \in Tareas |-> SinLlamada]
  /\ visto = [t \in Tareas |-> NadaVisto]
  /\ peticion = [h \in Hilos |-> SinPeticion]
  /\ cobro = [h \in Hilos |-> SinCobro]
  /\ incidentes = 0 /\ mezcladas = {}

----
(* Helpers.                                                                *)

EnCurso(e) == aviso[e].doc \/ aviso[e].status # "no" \/ aviso[e].montos # "no"

\* No request and no handler is in progress.
Quieto ==
  /\ \A h \in Hilos : peticion[h].en = "libre" /\ cobro[h].en = "no"
  /\ \A e \in Avisos : ~EnCurso(e)

\* A request or a notification arrives; it is an incident when another one is
\* still being served.
Llegar ==
  /\ inicios < MaxInicios
  /\ inicios' = inicios + 1
  /\ IF Quieto THEN UNCHANGED incidentes
     ELSE incidentes < MaxIncidentes /\ incidentes' = incidentes + 1

Incidente ==
  ConFallos /\ incidentes < MaxIncidentes /\ incidentes' = incidentes + 1

Responder(h) == peticion' = [peticion EXCEPT ![h] = SinPeticion]
Seguir(h, en) == peticion' = [peticion EXCEPT ![h].en = en]
SeguirCon(h, en, fila) == peticion' = [peticion EXCEPT ![h].en = en, ![h].fila = fila]

SumaPagos(pagos) == SumFunction([i \in DOMAIN pagos |-> pagos[i].monto])

----
(* Requests.                                                               *)

Pedir(h, nueva) ==
  /\ peticion[h].en = "libre" /\ cobro[h].en = "no"
  /\ Llegar
  /\ peticion' = [peticion EXCEPT ![h] = nueva]
  /\ UNCHANGED <<varsLibro, factura, mezcladas, estatusOrden, documento, aviso, cobro>>

\* create: the controller makes a new id; the rest comes with the request.
PedirCrear(h, f, fila) ==
  /\ ~Existe(f)
  /\ \A g \in Hilos : peticion[g].factura # f
  /\ Pedir(h, [SinPeticion EXCEPT !.op = "crear", !.en = "orden", !.factura = f,
                                  !.fila = fila])

\* checkInvoice and sendInvoiceToCancelSigning: each makes a new document.
PedirFirma(h, d) ==
  LET op == IF AccionDe(d) = "APPROVE" THEN "cotejar" ELSE "cancelar"
  IN  /\ Existe(FacturaDe(d))
      /\ documento[d] = "no"
      /\ \A g \in Hilos : d \notin peticion[g].docs
      /\ Pedir(h, [SinPeticion EXCEPT !.op = op, !.factura = FacturaDe(d), !.docs = {d},
                     !.en = IF op = "cotejar" THEN "firmantes" ELSE "leer"])

PedirArchivo(h, a) ==
  Pedir(h, [SinPeticion EXCEPT !.op = "archivo", !.en = "renglon", !.renglones = a])

\* create: only active orders are invoiced.
LeerOrden(h) ==
  /\ peticion[h].en = "orden"
  /\ IF estatusOrden[peticion[h].fila.orden] = "ACTIVA"
       THEN Seguir(h, "guardarNueva") ELSE Responder(h)
  /\ UNCHANGED <<vars, factura, mezcladas, estatusOrden, documento, aviso, cobro, incidentes>>

GuardarNueva(h) ==
  /\ peticion[h].en = "guardarNueva"
  /\ factura' = [factura EXCEPT ![peticion[h].factura] = peticion[h].fila]
  /\ Responder(h)
  /\ UNCHANGED <<vars, mezcladas, estatusOrden, documento, aviso, cobro, incidentes>>

\* firma.create: the signers of an invoice, whatever its status.
LeerFirmantes(h) ==
  /\ peticion[h].en = "firmantes"
  /\ Seguir(h, "documento")
  /\ UNCHANGED <<vars, factura, mezcladas, estatusOrden, documento, aviso, cobro, incidentes>>

GuardarDocumento(h) ==
  /\ peticion[h].en = "documento"
  /\ documento' = [d \in Documentos |->
                    IF d \in peticion[h].docs THEN "sinTicket" ELSE documento[d]]
  /\ IF peticion[h].op = "cotejar" THEN Seguir(h, "ticket") ELSE Responder(h)
  /\ UNCHANGED <<vars, factura, mezcladas, estatusOrden, aviso, cobro, incidentes>>

\* checkInvoice sends the document at once; documentSigning answers with an
\* error instead of throwing, and checkInvoice goes on.
EnviarAlCotejar(h) ==
  /\ peticion[h].en = "ticket"
  /\ \/ \E d \in peticion[h].docs :
          documento[d] = "sinTicket" /\ documento' = [documento EXCEPT ![d] = "enviado"]
     \/ UNCHANGED documento
  /\ Seguir(h, "leer")
  /\ UNCHANGED <<vars, factura, mezcladas, estatusOrden, aviso, cobro, incidentes>>

LeerFactura(h) ==
  /\ peticion[h].en = "leer"
  /\ SeguirCon(h, "guardar", factura[peticion[h].factura])
  /\ UNCHANGED <<vars, factura, mezcladas, estatusOrden, documento, aviso, cobro, incidentes>>

\* save of the row that was read, with its new witness or reason: it selects
\* the row as it is now, to find the columns that differ ...
Comparar(h) ==
  LET fila == peticion[h].fila
      actual == factura[peticion[h].factura]
  IN  /\ peticion[h].en = "guardar"
      /\ peticion' = [peticion EXCEPT ![h].en = "escribir",
                                      ![h].columnas = {c \in {"status", "pagos"} :
                                                         fila[c] # actual[c]}]
      /\ UNCHANGED <<vars, factura, estatusOrden, documento, aviso, cobro, incidentes, mezcladas>>

\* Wrong form: saving the row empties its payments.
GuardadaSinPagos(h) == [factura[peticion[h].factura] EXCEPT !.pagos = <<>>]

\* The row with those columns as they are held, the others as they are there.
Guardada(h) ==
  LET fila == peticion[h].fila
      columnas == peticion[h].columnas
  IN  [factura[peticion[h].factura] EXCEPT
         !.status = IF "status" \in columnas THEN fila.status ELSE @,
         !.pagos = IF "pagos" \in columnas THEN fila.pagos ELSE @]

\* ... and updates these only. A row that changed in between may keep the
\* status of one writer with the payments of another.
Guardar(h) ==
  LET f == peticion[h].factura
  IN  /\ peticion[h].en = "escribir"
      /\ factura' = [factura EXCEPT ![f] = Guardada(h)]
      /\ mezcladas' = IF Guardada(h) \in {factura[f], peticion[h].fila} THEN mezcladas
                      ELSE mezcladas \cup {f}
      /\ IF peticion[h].op = "cotejar" THEN Responder(h) ELSE Seguir(h, "firmantes")
      /\ UNCHANGED <<vars, estatusOrden, documento, aviso, cobro, incidentes>>

----
(* The payments file.                                                      *)

\* Wrong form: a payment that was registered before is registered again.
YaRegistradoNunca(fila, r) == FALSE

YaRegistrado(fila, r) ==
  \E i \in DOMAIN fila.pagos : fila.pagos[i] = [monto |-> r.monto, cheque |-> r.cheque]

SePaga(fila, r) ==
  /\ fila.status \in {"APROBADA", "PARTIAL_PAY"}
  /\ SumaPagos(fila.pagos) < fila.total
  /\ ~YaRegistrado(fila, r)

\* Wrong form: only the new payment is compared with the total.
ConPagoSuelto(fila, r) ==
  LET pagos == Append(fila.pagos, [monto |-> r.monto, cheque |-> r.cheque])
  IN  [fila EXCEPT !.pagos = pagos,
                   !.status = IF r.monto < fila.total THEN "PARTIAL_PAY" ELSE "PAGADA"]

\* The invoice with one more payment.
ConPago(fila, r) ==
  LET pagos == Append(fila.pagos, [monto |-> r.monto, cheque |-> r.cheque])
  IN  [fila EXCEPT !.pagos = pagos,
                   !.status = IF SumaPagos(pagos) >= fila.total THEN "PAGADA"
                              ELSE "PARTIAL_PAY"]

\* Wrong form: the loop looks at its row again and again.
SiguienteRenglonRepetido(h, pagadas) ==
  /\ peticion' = [peticion EXCEPT ![h].en = "renglon", ![h].pagadas = pagadas]
  /\ UNCHANGED cobro

\* On to the next row; after the last one the paid invoices are emitted.
SiguienteRenglon(h, pagadas) ==
  LET resto == Tail(peticion[h].renglones)
  IN  IF resto # <<>>
        THEN /\ peticion' = [peticion EXCEPT ![h].en = "renglon", ![h].renglones = resto,
                                             ![h].pagadas = pagadas]
             /\ UNCHANGED cobro
        ELSE /\ Responder(h)
             /\ cobro' = IF pagadas = <<>> THEN cobro
                         ELSE [cobro EXCEPT ![h] = [facturas |-> pagadas, en |-> "leer"]]

\* findOne by folio: any of the invoices that have it.
LeerRenglon(h) ==
  LET r == Head(peticion[h].renglones)
      deFolio == {f \in Facturas : Existe(f) /\ factura[f].folio = r.folio}
  IN  /\ peticion[h].en = "renglon"
      /\ \/ /\ deFolio = {} \/ \E f \in deFolio : ~SePaga(factura[f], r)
            /\ SiguienteRenglon(h, peticion[h].pagadas)
         \/ \E f \in deFolio :
              /\ SePaga(factura[f], r)
              /\ peticion' = [peticion EXCEPT ![h].en = "pago", ![h].factura = f,
                                              ![h].fila = ConPago(factura[f], r)]
              /\ UNCHANGED cobro
      /\ UNCHANGED <<vars, factura, mezcladas, estatusOrden, documento, aviso, incidentes>>

\* The UPDATE of the payments and the status.
EscribirPago(h) ==
  LET f == peticion[h].factura
      fila == peticion[h].fila
  IN  /\ peticion[h].en = "pago"
      /\ factura' = [factura EXCEPT ![f].pagos = fila.pagos, ![f].status = fila.status]
      /\ Seguir(h, "ordenes")
      /\ UNCHANGED <<vars, mezcladas, estatusOrden, documento, aviso, cobro, incidentes>>

\* The order is paid as its invoice is, whatever its status.
MarcarOrden(h) ==
  LET f == peticion[h].factura
      fila == peticion[h].fila
  IN  /\ peticion[h].en = "ordenes"
      /\ estatusOrden' = [estatusOrden EXCEPT ![fila.orden] = fila.status]
      /\ SiguienteRenglon(h, IF fila.status = "PAGADA"
                               THEN Append(peticion[h].pagadas, f) ELSE peticion[h].pagadas)
      /\ UNCHANGED <<vars, factura, mezcladas, documento, aviso, incidentes>>

----
(* The handler of invoice.paid.                                            *)

\* getOrdersRelatedToInvoice, and the charge of its order.
CobrarFactura(h) ==
  /\ cobro[h].en = "leer"
  /\ Arrancar(h, [evento |-> "INVOICE_PAID", servicio |-> Servicio,
                  cargos |-> CargosDe[factura[Head(cobro[h].facturas)].orden]])
  /\ cobro' = [cobro EXCEPT ![h].en = "cargos"]
  /\ UNCHANGED <<inicios, factura, mezcladas, estatusOrden, documento, peticion, aviso,
                 incidentes>>

\* The order is PAGADA; updateStatus(PAGADA) writes nothing on the invoice.
TerminarCobro(h) ==
  LET resto == Tail(cobro[h].facturas)
  IN  /\ cobro[h].en = "cargos" /\ paso[h] = "libre"
      /\ estatusOrden' =
           [estatusOrden EXCEPT ![factura[Head(cobro[h].facturas)].orden] = "PAGADA"]
      /\ cobro' = [cobro EXCEPT ![h] = [facturas |-> resto,
                                        en |-> IF resto = <<>> THEN "no" ELSE "leer"]]
      /\ UNCHANGED <<vars, factura, mezcladas, documento, peticion, aviso, incidentes>>

----
(* Notifications and their handlers.                                       *)

\* documentSigning of a document that has no ticket yet.
EnviarAFirmamex(d) ==
  /\ documento[d] = "sinTicket"
  /\ Llegar
  /\ documento' = [documento EXCEPT ![d] = "enviado"]
  /\ UNCHANGED <<varsLibro, factura, mezcladas, estatusOrden, peticion, aviso, cobro>>

\* The provider notifies, once or more, that a document was signed by its
\* first signer or by all; document_completed emits its events, saves after.
Recibir(e) ==
  /\ documento[Doc(e)] \notin {"no", "sinTicket"}
  /\ ~aviso[e].recibido
  /\ \A n \in 1..MaxAvisos : n < e[3] => aviso[<<Doc(e), e[2], n>>].recibido
  /\ Llegar
  /\ aviso' = [aviso EXCEPT ![e].recibido = TRUE, ![e].doc = TRUE,
                            ![e].status = IF EsCompletado(e) THEN "leer" ELSE "no",
                            ![e].montos = IF EsCompletado(e) THEN "leer" ELSE "no"]
  /\ UNCHANGED <<varsLibro, factura, mezcladas, estatusOrden, documento, peticion, cobro>>

\* original_signed saves the document first and emits its events then.
GuardarFirma(e) ==
  /\ aviso[e].doc
  /\ documento' = [documento EXCEPT ![Doc(e)] =
                     IF EsCompletado(e) THEN "APROBADA" ELSE "SIGNED_REVIEW"]
  /\ aviso' = IF EsCompletado(e) THEN [aviso EXCEPT ![e].doc = FALSE]
              ELSE [aviso EXCEPT ![e].doc = FALSE, ![e].status = "leer",
                                 ![e].montos = "orden"]
  /\ UNCHANGED <<vars, factura, mezcladas, estatusOrden, peticion, cobro, incidentes>>

\* Wrong form: the first signature approves the invoice.
StatusDeAprobada(e) ==
  IF EsCompletado(e) /\ AccionDe(Doc(e)) = "CANCEL" THEN "CANCELADA" ELSE "APROBADA"

\* The status that a notification gives the invoice.
StatusDe(e) ==
  IF ~EsCompletado(e) THEN "CONTEJADA"
  ELSE IF AccionDe(Doc(e)) = "APPROVE" THEN "APROBADA" ELSE "CANCELADA"

\* updateStatus reads the invoice ...
LeerStatus(e) ==
  /\ aviso[e].status = "leer"
  /\ aviso' = [aviso EXCEPT ![e].status = "escribir",
                            ![e].fila = factura[FacturaDe(Doc(e))]]
  /\ UNCHANGED <<vars, factura, mezcladas, estatusOrden, documento, peticion, cobro, incidentes>>

\* ... and writes all of it back.
EscribirStatus(e) ==
  /\ aviso[e].status = "escribir"
  /\ factura' = [factura EXCEPT ![FacturaDe(Doc(e))] =
                   [aviso[e].fila EXCEPT !.status = StatusDe(e)]]
  /\ aviso' = [aviso EXCEPT ![e].status = "no", ![e].fila = SinFactura]
  /\ UNCHANGED <<vars, mezcladas, estatusOrden, documento, peticion, cobro, incidentes>>

EventoDe(d) == IF AccionDe(d) = "APPROVE" THEN "INVOICE_APPROVED" ELSE "INVOICE_CANCELLED"

\* invoiceContractAmountsUpdated: the charges of the order ...
CargarAviso(e) ==
  LET d == Doc(e)
  IN  /\ aviso[e].montos = "leer"
      /\ Arrancar(e, [evento |-> EventoDe(d), servicio |-> Servicio,
                      cargos |-> CargosDe[factura[FacturaDe(d)].orden]])
      /\ aviso' = [aviso EXCEPT ![e].montos = "cargos"]
      /\ UNCHANGED <<inicios, factura, mezcladas, estatusOrden, documento, peticion, cobro,
                     incidentes>>

\* ... and its status. invoiceOrderStatusUpdated, the handler of
\* original_signed, finds no eventType and leaves the order as it is.
EscribirOrden(e) ==
  LET o == factura[FacturaDe(Doc(e))].orden
      orden == IF AccionDe(Doc(e)) = "APPROVE" THEN "PAGO_APROBADO" ELSE "CANCELADA"
  IN  /\ \/ aviso[e].montos = "cargos" /\ paso[e] = "libre"
         \/ aviso[e].montos = "orden"
      /\ estatusOrden' = IF EsCompletado(e) THEN [estatusOrden EXCEPT ![o] = orden]
                         ELSE estatusOrden
      /\ aviso' = [aviso EXCEPT ![e].montos = "no"]
      /\ UNCHANGED <<vars, factura, mezcladas, documento, peticion, cobro, incidentes>>

\* A step of the ledger for a handler of a notification or of a file.
AvanzarLibro(t) == Avanzar(t) /\ UNCHANGED <<varsFactura, incidentes>>
----
(* Failures.                                                               *)

\* A query of a request rejects: what it wrote stays, and a file whose later
\* row fails emits nothing for the invoices it has already paid.
FallarPeticion(h) ==
  /\ peticion[h].en # "libre"
  /\ Incidente
  /\ Responder(h)
  /\ UNCHANGED <<vars, factura, mezcladas, estatusOrden, documento, aviso, cobro>>

\* A query of a handler rejects.
FallarAviso(e) ==
  /\ Incidente
  /\ \/ /\ aviso[e].doc
        /\ aviso' = [aviso EXCEPT ![e].doc = FALSE]
        /\ UNCHANGED vars
     \/ /\ aviso[e].status # "no"
        /\ aviso' = [aviso EXCEPT ![e].status = "no", ![e].fila = SinFactura]
        /\ UNCHANGED vars
     \/ /\ aviso[e].montos # "no"
        /\ aviso' = [aviso EXCEPT ![e].montos = "no"]
        /\ IF paso[e] # "libre" THEN Fallar(e) ELSE UNCHANGED vars
  /\ UNCHANGED <<factura, mezcladas, estatusOrden, documento, peticion, cobro>>

FallarCobro(h) ==
  /\ Incidente
  /\ cobro[h].en # "no"
  /\ cobro' = [cobro EXCEPT ![h] = SinCobro]
  /\ IF paso[h] # "libre" THEN Fallar(h) ELSE UNCHANGED vars
  /\ UNCHANGED <<factura, mezcladas, estatusOrden, documento, peticion, aviso>>

\* The process stops: requests and events are lost, the rows are not.
CaerServidor ==
  /\ ~Quieto
  /\ Incidente
  /\ PerderActivaciones
  /\ peticion' = [h \in Hilos |-> SinPeticion]
  /\ cobro' = [h \in Hilos |-> SinCobro]
  /\ aviso' = [e \in Avisos |-> [SinAviso EXCEPT !.recibido = aviso[e].recibido]]
  /\ UNCHANGED <<factura, mezcladas, estatusOrden, documento>>

----

Atender(h) ==
  \/ LeerOrden(h) \/ GuardarNueva(h) \/ LeerFirmantes(h) \/ GuardarDocumento(h)
  \/ EnviarAlCotejar(h) \/ LeerFactura(h) \/ Comparar(h) \/ Guardar(h)
  \/ LeerRenglon(h) \/ EscribirPago(h) \/ MarcarOrden(h)

Cobrar(h) == CobrarFactura(h) \/ TerminarCobro(h)
ManejarStatus(e) == LeerStatus(e) \/ EscribirStatus(e)
ManejarMontos(e) == CargarAviso(e) \/ EscribirOrden(e)

NextFactura ==
  \/ \E h \in Hilos :
       \/ \E f \in Facturas, folio \in Folios, total \in Totales, o \in Ordenes :
            PedirCrear(h, f, FilaFactura(folio, total, o, "RECIBIDA"))
       \/ \E d \in Documentos : PedirFirma(h, d)
       \/ \E a \in Archivos : PedirArchivo(h, a)
       \/ Atender(h) \/ Cobrar(h) \/ FallarPeticion(h) \/ FallarCobro(h)
  \/ \E d \in Documentos : EnviarAFirmamex(d)
  \/ \E e \in Avisos :
       Recibir(e) \/ GuardarFirma(e) \/ ManejarStatus(e) \/ ManejarMontos(e) \/ FallarAviso(e)
  \/ \E t \in Tareas : AvanzarLibro(t)
  \/ CaerServidor

SpecFactura == InitFactura /\ [][NextFactura]_todas

\* A step of a request or of a handler that is in progress.
Progreso ==
  \/ \E h \in Hilos : Atender(h) \/ Cobrar(h)
  \/ \E e \in Avisos : GuardarFirma(e) \/ ManejarStatus(e) \/ ManejarMontos(e)
  \/ \E t \in Tareas : AvanzarLibro(t)

\* The driver settles every query and the event loop runs what was emitted:
\* while something is in progress, some of it goes on. Clients and the signing
\* provider need not do anything.
FairSpecFactura == SpecFactura /\ WF_todas(Progreso)
----
(* Properties.                                                             *)

Cubierta(fila) == SumaPagos(fila.pagos) >= fila.total

\* However files, requests and status handlers overlap, fail and write rows that
\* they read long before, an invoice is paid only with payments for its total,
\* and partially paid only with payments for less, until a save leaves it with
\* columns of two rows, the one it held and one written after its SELECT: of
\* those invoices nothing is said. When nothing overlapped or failed, an order
\* is paid only if one of its invoices is covered.
PagadaCubierta ==
  /\ \A f \in Facturas \ mezcladas : Existe(f) =>
       /\ factura[f].status = "PAGADA" => Cubierta(factura[f])
       /\ factura[f].status = "PARTIAL_PAY" =>
            ~Cubierta(factura[f]) /\ factura[f].pagos # <<>>
  /\ (incidentes = 0 /\ Quieto) => \A o \in Ordenes :
       estatusOrden[o] = "PAGADA" =>
         \E f \in Facturas : Existe(f) /\ factura[f].orden = o /\ Cubierta(factura[f])

\* No invoice registers one payment twice, also when two files with the same
\* payment are read at once or a file is sent again.
PagoSinDuplicado ==
  \A f \in Facturas : \A i, j \in DOMAIN factura[f].pagos :
    i # j => factura[f].pagos[i] # factura[f].pagos[j]

\* A document of this invoice and action that was notified as completed.
Firmada(f, accion) ==
  \E e \in Avisos : /\ aviso[e].recibido /\ EsCompletado(e)
                    /\ FacturaDe(Doc(e)) = f /\ AccionDe(Doc(e)) = accion

\* Whatever overlaps, an invoice is approved, and is given payments, only
\* after a document that approves it was signed by all.
PagosConAprobacion ==
  \A f \in Facturas :
    (factura[f].status \in {"APROBADA", "PARTIAL_PAY", "PAGADA"} \/ factura[f].pagos # <<>>)
      => Firmada(f, "APPROVE")

Canceladas(f) ==
  Cardinality({e \in Avisos : /\ aviso[e].recibido /\ EsCompletado(e)
                              /\ FacturaDe(Doc(e)) = f /\ AccionDe(Doc(e)) = "CANCEL"})

\* When nothing overlapped or failed, the paid amount of every fund is what
\* the orders of the covered invoices took from it: once each, also when files
\* and notifications are repeated. Every notified cancellation made their
\* money active again and took it from what was executed.
LibroSegunFacturas ==
  (incidentes = 0 /\ Quieto) => \A fd \in Fondos :
    LET cubiertas == {f \in Facturas : Existe(f) /\ Cubierta(factura[f])}
        existentes == {f \in Facturas : Existe(f)}
        pagado == SumFunction([f \in cubiertas |-> Parte(factura[f].orden, fd)])
        cancelado == SumFunction([f \in existentes |->
                                    Canceladas(f) * Parte(factura[f].orden, fd)])
    IN  /\ fondo[fd]["montoPagado"] = pagado
        /\ fondo[fd]["montoActivo"] = ActivoInicial(fd) + cancelado
        /\ fondo[fd]["montoEjercido"] = - (pagado + cancelado)

\* Requests and handlers never wait for each other, and no loop over rows,
\* invoices or charges goes round for ever: everything that arrives ends.
TodoAcaba == []<>Quieto
=============================================================================
