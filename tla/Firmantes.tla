------------------------------ MODULE Firmantes ------------------------------
(***************************************************************************)
(* Who signs: the users that a signature document names when it is made    *)
(* (obtenerUsuariosFirmantes), the copy that is sent to the signing        *)
(* provider when somebody opens the document, or checks an invoice         *)
(* (documentSigning), with the seals it carries, and what the              *)
(* notifications of the provider write on the document                     *)
(* (webhooks.service.ts), while the users themselves change (Usuarios).    *)
(* The lists of pending documents only read; nothing else looks at them,   *)
(* and documentSigning opens any document for any user.                    *)
(*                                                                         *)
(* What a notification does to orders, invoices and campaigns is in        *)
(* OrdenContrato, FacturaFirma and Campania. Here a notification of a copy *)
(* that no document names matters: its handler rejects, nobody awaits it,  *)
(* and the process stops.                                                  *)
(***************************************************************************)
EXTENDS Usuarios, Sequences

CONSTANTS Documentos,    \* ids of signature documents
          Hechos,        \* those that may be waiting at the start
          Papeles,       \* types and actions of the documents that are made
          Copias,        \* documents at the provider
          Listas,        \* lists of documents that a user opens at once
          MaxCambios,    \* bound on the requests about users
          MaxLlegadas,   \* bound on these, the requests about documents and the notifications
          MaxIncidentes  \* bound on overlaps, failures, repeated and late notifications

Acciones == {"APPROVE", "CANCEL"}
Clases == {"original", "completado", "rechazado"}

ASSUME FirmantesAssumption ==
  /\ Papeles \subseteq TIPO_DE_DOCUMENTO \X Acciones
  /\ Listas \subseteq Seq(Documentos) \ {<<>>}
  /\ Nulo \notin Documentos \cup Copias

VARIABLES
  documento,   \* signature documents
  copia,       \* what the provider has
  tramite,     \* requests about documents, and notifications, in flight
  llegadas,    \* how many requests of each kind have arrived
  incidentes   \* overlapping arrivals, failures and irregular notifications

varsFirma == <<documento, copia, tramite>>
todas == <<varsUsuarios, varsFirma, llegadas, incidentes>>

\* A row of documentos_firma, with the users of its join table.
Firma == [tipo : TIPO_DE_DOCUMENTO, accion : Acciones, servicio : Servicios,
          usuariosFirmadores : SUBSET Personas, isSigned : BOOLEAN,
          signatureStatus : {"PENDIENTE_DE_FIRMA", "SIGNED_REVIEW", "APROBADA", "CANCELADA"},
          ticket : Copias \cup {Nulo}, url : Copias \cup {Nulo}]
SinDocumento == [tipo |-> "-", usuariosFirmadores |-> {}, isSigned |-> FALSE, url |-> Nulo]
Hay(d) == documento[d] # SinDocumento

\* A document at the provider: what it is a copy of, who is to seal it, what
\* was notified of it.
SinCopia == [de |-> Nulo, sellos |-> {}, avisos |-> {}, borrada |-> FALSE]

SinTramite == [op |-> "-", en |-> "libre", quien |-> Nulo, docs |-> <<>>,
               fila |-> SinDocumento, sellos |-> {}]

Libre(h) == peticion[h].en = "libre" /\ tramite[h].en = "libre"
Quieto == \A h \in Hilos : Libre(h)

Contar(clase) ==
  /\ llegadas.cambios + llegadas.tramites < MaxLlegadas
  /\ llegadas' = [llegadas EXCEPT ![clase] = @ + 1]
  /\ llegadas'.cambios <= MaxCambios

\* It is an incident to arrive while something else is being served.
Llegar ==
  IF Quieto THEN UNCHANGED incidentes
  ELSE incidentes < MaxIncidentes /\ incidentes' = incidentes + 1

Incidente == incidentes < MaxIncidentes /\ incidentes' = incidentes + 1

Acabar(h) == tramite' = [tramite EXCEPT ![h] = SinTramite]
Pasar(h, en) == tramite' = [tramite EXCEPT ![h].en = en]

----
(* Making a document.                                                      *)

\* The active users that may sign a document; for orders, only those of its
\* service type, for invoices, without asking for the permission to sign.
Puede(p, tipo, servicio) ==
  LET fila == usuario[p]
      firma == fila.permisos # Nulo /\ "FIRMA" \in fila.permisos
  IN  /\ fila.estatus
      /\ \/ /\ tipo = "ORDEN_DE_SERVICIO" /\ firma
            /\ tipo \in fila.documentosDeFirma
            /\ fila.tipoOrdenDeServicio \cap {servicio, "TODOS_LOS_SERVICIOS"} # {}
         \/ /\ tipo = "APROBACION_DE_FACTURA"
            /\ fila.documentosDeFirma \cap {"APROBACION_DE_FACTURA", "COTEJAR_FACTURA"} # {}
         \/ /\ tipo = "CAMPANIA" /\ firma
            /\ tipo \in fila.documentosDeFirma

FirmaNueva(tipo, accion, servicio, firmantes) ==
  [tipo |-> tipo, accion |-> accion, servicio |-> servicio, usuariosFirmadores |-> firmantes,
   isSigned |-> FALSE, signatureStatus |-> "PENDIENTE_DE_FIRMA", ticket |-> Nulo, url |-> Nulo]

\* Documents made before the behaviour starts.
EnEspera ==
  {FirmaNueva(papel[1], papel[2], s, {p \in Personas : Puede(p, papel[1], s)}) :
     papel \in Papeles, s \in Servicios}

InitFirmantes ==
  /\ InitUsuarios
  /\ documento \in [Documentos -> {SinDocumento} \cup EnEspera]
  /\ \A d \in Documentos \ Hechos : ~Hay(d)
  /\ copia = [k \in Copias |-> SinCopia]
  /\ tramite = [h \in Hilos |-> SinTramite]
  /\ llegadas = [cambios |-> 0, tramites |-> 0]
  /\ incidentes = 0

PedirTramite(h, op, quien, docs, fila) ==
  /\ Libre(h) /\ quien \in sesion
  /\ tramite' = [tramite EXCEPT ![h] =
       [SinTramite EXCEPT !.op = op, !.en = "autorizar", !.quien = quien, !.docs = docs,
                          !.fila = fila]]
  /\ UNCHANGED <<varsUsuarios, documento, copia>>

\* The services of orders, invoices and campaigns, and POST /firma ("crear"),
\* or checkInvoice, which opens the document that it makes ("cotejar").
PedirNuevo(h, op, quien, d, tipo, accion, servicio) ==
  /\ ~Hay(d) /\ \A g \in Hilos : d \notin {tramite[g].docs[i] : i \in DOMAIN tramite[g].docs}
  /\ op = "cotejar" => tipo = "APROBACION_DE_FACTURA" /\ accion = "APPROVE"
  /\ PedirTramite(h, op, quien, <<d>>, FirmaNueva(tipo, accion, servicio, {}))

AutorizarTramite(h) ==
  LET t == tramite[h]
  IN  /\ t.en = "autorizar"
      /\ IF Autorizado(t.quien)
           THEN Pasar(h, IF t.op = "abrir" THEN "abrir" ELSE "firmantes")
           ELSE Acabar(h)
      /\ UNCHANGED <<varsUsuarios, documento, copia>>

\* The users are read now; an order that is neither PENDIENTE nor ACTIVA gets
\* no document.
LeerFirmantes(h) ==
  LET fila == tramite[h].fila
  IN  /\ tramite[h].en = "firmantes"
      /\ \/ fila.tipo = "ORDEN_DE_SERVICIO" /\ Acabar(h)
         \/ tramite' = [tramite EXCEPT ![h].en = "guardarNuevo", ![h].fila.usuariosFirmadores =
                          {p \in Personas : Puede(p, fila.tipo, fila.servicio)}]
      /\ UNCHANGED <<varsUsuarios, documento, copia>>

\* checkInvoice calls documentSigning at once, for its caller.
GuardarDocumento(h) ==
  /\ tramite[h].en = "guardarNuevo"
  /\ documento' = [documento EXCEPT ![tramite[h].docs[1]] = tramite[h].fila]
  /\ IF tramite[h].op = "cotejar"
       THEN tramite' = [tramite EXCEPT ![h].en = "abrir", ![h].fila = SinDocumento]
       ELSE Acabar(h)
  /\ UNCHANGED <<varsUsuarios, copia>>

----
(* Opening documents: documentSigning.                                     *)

\* Wrong form: who approves invoices now, named by the document or not.
AprobadoresDeHoy(d) ==
  {p \in Personas : usuario[p].estatus /\ "APROBACION_DE_FACTURA" \in usuario[p].documentosDeFirma}

\* Those among its signers who approve invoices now.
Aprobadores(d) ==
  {p \in documento[d].usuariosFirmadores :
     "APROBACION_DE_FACTURA" \in usuario[p].documentosDeFirma}

\* createStickers: one for who opens the document; on invoices, one before for
\* the first approver that the query returns, and only that one to cancel.
Sellos(d, quien) ==
  IF documento[d].tipo # "APROBACION_DE_FACTURA" THEN {{quien}}
  ELSE {{a} \cup (IF documento[d].accion = "CANCEL" THEN {} ELSE {quien}) : a \in Aprobadores(d)}

\* On to the next document of the list, or the urls are returned.
SiguienteDocumento(h) ==
  IF Len(tramite[h].docs) = 1 THEN Acabar(h)
  ELSE tramite' = [tramite EXCEPT ![h].en = "abrir", ![h].docs = Tail(@),
                                  ![h].fila = SinDocumento, ![h].sellos = {}]

\* Wrong form: a document is sent again each time that it is opened.
YaEnviadoNunca(fila) == FALSE

\* A document with an url is not sent again.
YaEnviado(fila) == fila.url # Nulo

\* The document with its signers; without it, or without an approver, the rest
\* of the list is given up.
LeerDocumento(h) ==
  LET d == Head(tramite[h].docs)
  IN  /\ tramite[h].en = "abrir"
      /\ IF ~Hay(d) THEN Acabar(h)
         ELSE IF YaEnviado(documento[d]) THEN SiguienteDocumento(h)
         ELSE IF Sellos(d, tramite[h].quien) = {} THEN Acabar(h)
         ELSE \E s \in Sellos(d, tramite[h].quien) :
                tramite' = [tramite EXCEPT ![h].en = "enviar", ![h].fila = documento[d],
                                           ![h].sellos = s]
      /\ UNCHANGED <<varsUsuarios, documento, copia>>

\* The provider makes a document and answers with its ticket and its url.
NuevaCopia(h, k) ==
  /\ copia[k] = SinCopia
  /\ copia' = [copia EXCEPT ![k].de = Head(tramite[h].docs), ![k].sellos = tramite[h].sellos]

Enviar(h, k) ==
  /\ tramite[h].en = "enviar"
  /\ NuevaCopia(h, k)
  /\ tramite' = [tramite EXCEPT ![h].en = "guardarCopia", ![h].fila.ticket = k,
                                ![h].fila.url = k]
  /\ UNCHANGED <<varsUsuarios, documento>>

\* The row is saved as it was before it was sent, with its ticket and its url.
\* save writes the columns that differ from a SELECT of its own. Both are one
\* step here: the ticket and the url of two copies differ together, and no
\* property relates other columns of two writers.
GuardarCopia(h) ==
  /\ tramite[h].en = "guardarCopia"
  /\ documento' = [documento EXCEPT ![Head(tramite[h].docs)] = tramite[h].fila]
  /\ SiguienteDocumento(h)
  /\ UNCHANGED <<varsUsuarios, copia>>

----
(* Notifications of the provider.                                          *)

\* What was in progress is lost; tokens and rows are not.
Perder ==
  /\ tramite' = [h \in Hilos |-> SinTramite]
  /\ peticion' = [h \in Hilos |-> SinPeticion]

\* A notification that follows its copy's order: first signature, then the
\* last one or a rejection, each once.
EnOrden(k, clase) ==
  /\ clase \notin copia[k].avisos
  /\ copia[k].avisos \cap {"completado", "rechazado"} = {}

ConTicket(k) == {d \in Documentos : Hay(d) /\ documento[d].url = k}

\* The provider notifies of a copy that still exists; one that is repeated or
\* late is an incident. findOneBy({ticket}) may give nothing: the process
\* stops with everything it was serving.
Recibir(h, k, clase) ==
  /\ Libre(h)
  /\ copia[k] # SinCopia /\ ~copia[k].borrada
  /\ ~({"completado", "rechazado"} \subseteq copia[k].avisos \cup {clase})
  /\ IF EnOrden(k, clase) THEN Llegar ELSE Incidente
  /\ copia' = [copia EXCEPT ![k].avisos = @ \cup {clase}]
  /\ \/ /\ ConTicket(k) = {}
        /\ Perder
     \/ \E d \in ConTicket(k) :
          /\ tramite' = [tramite EXCEPT ![h] =
               [SinTramite EXCEPT !.op = clase, !.en = "guardarAviso", !.docs = <<d>>,
                                  !.fila = documento[d]]]
          /\ UNCHANGED peticion
  /\ UNCHANGED <<usuario, sesion, documento>>

\* Wrong form: the first signature on an invoice signs its document.
AnotadaConLaPrimera(clase, fila) ==
  IF clase = "rechazado" THEN fila
  ELSE [fila EXCEPT !.isSigned = TRUE, !.signatureStatus = "APROBADA"]

\* What each notification writes on the row: a completed document is approved,
\* also one that cancels; the first signature only counts on invoices, and a
\* rejection only on orders.
Anotada(clase, fila) ==
  CASE clase = "completado" ->
         [fila EXCEPT !.isSigned = TRUE, !.signatureStatus = "APROBADA"]
    [] clase = "original" /\ fila.tipo = "APROBACION_DE_FACTURA" ->
         [fila EXCEPT !.isSigned = FALSE, !.signatureStatus = "SIGNED_REVIEW"]
    [] clase = "rechazado" /\ fila.tipo = "ORDEN_DE_SERVICIO" ->
         [fila EXCEPT !.isSigned = TRUE, !.signatureStatus = "CANCELADA"]
    [] OTHER -> fila

\* The row that was read is saved, as by GuardarCopia; the first signature on a
\* campaign is an UPDATE of another column.
GuardarAviso(h) ==
  LET t == tramite[h]
      d == Head(t.docs)
  IN  /\ t.en = "guardarAviso"
      /\ documento' = IF t.op = "original" /\ t.fila.tipo # "APROBACION_DE_FACTURA"
                        THEN documento
                      ELSE [documento EXCEPT ![d] = Anotada(t.op, t.fila)]
      /\ Acabar(h)
      /\ UNCHANGED <<varsUsuarios, copia>>

----
(* Other writers.                                                          *)

\* eliminar-de-firmamex: the provider forgets the copy, the document does not.
BorrarCopia(k) ==
  /\ \E quien \in sesion : Autorizado(quien)
  /\ copia[k] # SinCopia /\ ~copia[k].borrada
  /\ copia' = [copia EXCEPT ![k].borrada = TRUE]
  /\ UNCHANGED <<varsUsuarios, documento, tramite>>

\* A query rejects, or the answer of the provider is lost after it made a copy.
FallarTramite(h) ==
  /\ tramite[h].en # "libre"
  /\ Acabar(h)
  /\ \/ UNCHANGED copia
     \/ tramite[h].en = "enviar" /\ \E k \in Copias : NuevaCopia(h, k)
  /\ UNCHANGED <<varsUsuarios, documento>>

\* The process stops.
CaerServidor ==
  /\ ~Quieto
  /\ Perder
  /\ UNCHANGED <<usuario, sesion, documento, copia>>

----

AtenderTramite(h) ==
  \/ AutorizarTramite(h) \/ LeerFirmantes(h) \/ GuardarDocumento(h)
  \/ LeerDocumento(h) \/ (\E k \in Copias : Enviar(h, k)) \/ GuardarCopia(h)
  \/ GuardarAviso(h)

LlegaTramite(h) ==
  \E quien \in Personas :
    \/ \E op \in {"crear", "cotejar"}, d \in Documentos, papel \in Papeles, s \in Servicios :
         PedirNuevo(h, op, quien, d, papel[1], papel[2], s)
    \/ \E docs \in Listas : PedirTramite(h, "abrir", quien, docs, SinDocumento)

NextFirmantes ==
  \/ \E h \in Hilos :
       \/ /\ Libre(h) /\ PedirUsuario(h)
          /\ Contar("cambios") /\ Llegar /\ UNCHANGED varsFirma
       \/ LlegaTramite(h) /\ Contar("tramites") /\ Llegar
       \/ /\ \E k \in Copias, clase \in Clases : Recibir(h, k, clase)
          /\ Contar("tramites")
       \/ AtenderUsuario(h) /\ UNCHANGED <<varsFirma, llegadas, incidentes>>
       \/ AtenderTramite(h) /\ UNCHANGED <<llegadas, incidentes>>
       \/ FallarUsuario(h) /\ Incidente /\ UNCHANGED <<varsFirma, llegadas>>
       \/ FallarTramite(h) /\ Incidente /\ UNCHANGED llegadas
  \/ \E p \in Personas :
       /\ Caducar(p) \/ \E c \in Claves : Entrar(p, c)
       /\ Contar("cambios") /\ UNCHANGED <<varsFirma, incidentes>>
  \/ (\E k \in Copias : BorrarCopia(k)) /\ Contar("tramites") /\ Llegar
  \/ CaerServidor /\ Incidente /\ UNCHANGED llegadas

SpecFirmantes == InitFirmantes /\ [][NextFirmantes]_todas
----
(* Properties.                                                             *)

\* Whatever overlaps, is lost, repeated or saved from an old row, a document is
\* signed only if the provider said of a copy of it that all signed or that it
\* was rejected; and undisturbed, what the provider said is on the document.
FirmadoConCopia ==
  /\ \A d \in Documentos : documento[d].isSigned =>
       \E k \in Copias : copia[k].de = d /\ copia[k].avisos \cap {"completado", "rechazado"} # {}
  /\ (incidentes = 0 /\ Quieto) => \A k \in Copias :
       "completado" \in copia[k].avisos =>
         /\ documento[copia[k].de].isSigned
         /\ documento[copia[k].de].signatureStatus = "APROBADA"

\* Users are created, change what they sign and lose permissions while their
\* documents wait. Whatever overlaps or fails, every copy of an invoice bears
\* the seal of a user that its document named when it was made, and a copy to
\* cancel no other seal: there the code does not compare who opens it, or
\* checks the invoice, with the signers. And undisturbed each copy is the one
\* whose url its document has, so that no notification is of a copy that no
\* document knows, which stops the process (firma.service.ts 345-389, 446-487).
CopiaSellada ==
  /\ \A k \in Copias :
       LET d == documento[copia[k].de]
       IN  (copia[k] # SinCopia /\ d.tipo = "APROBACION_DE_FACTURA") =>
             /\ copia[k].sellos \cap d.usuariosFirmadores # {}
             /\ d.accion = "CANCEL" => copia[k].sellos \subseteq d.usuariosFirmadores
  /\ (incidentes = 0 /\ Quieto) =>
       \A k \in Copias : copia[k] # SinCopia => documento[copia[k].de].url = k

\* The ticket that notifications look for and the url that users are given are
\* of one copy, made of that document, whatever overlaps or fails; and
\* undisturbed no document is at the provider twice.
CopiaDeSuDocumento ==
  /\ \A d \in Documentos : documento[d].url # Nulo =>
       documento[d].ticket = documento[d].url /\ copia[documento[d].url].de = d
  /\ incidentes = 0 => \A k, l \in Copias :
       (copia[k] # SinCopia /\ copia[k].de = copia[l].de) => k = l
=============================================================================
