-------------------------- MODULE OrdenSerialProofs --------------------------
(***************************************************************************)
(* Proofs about OrdenContrato when requests and notifications take turns,  *)
(* nothing fails, clients follow the signing flow and the provider         *)
(* notifies each document once: the status of an order is what its         *)
(* signatures say, and the amounts of every fund are what the orders took. *)
(***************************************************************************)
EXTENDS OrdenContratoProofs

\* How the theorems of this module assume that the system is used.
Regular == Serial /\ ClienteRegular /\ ~ConFallos /\ MaxEntregas <= 1

----
(* The signing flow of an order.                                           *)

\* Some handler of a notification is not over.
EnMarcha(e) == Emitida(e) \/ paso[e] # "libre"

\* Requests and notifications take turns.
Turnos ==
  /\ \A g, h \in Hilos : pedido[g].en # "libre" /\ pedido[h].en # "libre" => g = h
  /\ \A h \in Hilos, e \in Entregas : ~ (pedido[h].en # "libre" /\ EnMarcha(e))
  /\ \A c, e \in Entregas : EnMarcha(c) /\ EnMarcha(e) => c = e

\* The status of an order is what its signatures say, unless a cancellation
\* waits for its own.
EstatusBien(o) ==
  /\ Firmada(o, "CANCEL") => orden[o].estatus = "CANCELADA"
  /\ Enviados(o, "CANCEL") = {} =>
       orden[o].estatus = IF Firmada(o, "APPROVE") THEN "ACTIVA" ELSE "PENDIENTE"

\* Only orders that exist go to signing, and only active ones to be cancelled;
\* between notifications their status is right.
OrdenReg(o) ==
  /\ ~Existe(o) => SinFirmas(o)
  /\ Enviados(o, "CANCEL") # {} => Firmada(o, "APPROVE")
  /\ (\A e \in Entregas : OrdenDe(e[1]) = o => entrega[e].estatus = 0) => EstatusBien(o)
OrdenesReg == \A o \in Ordenes : OrdenReg(o)

\* An order has one document per action; what is notified was sent, and no
\* cancellation is sent while an approval is being applied.
FirmasReg ==
  /\ \A c, d \in Documentos : EnviadoAFirma(c) /\ EnviadoAFirma(d) /\ OrdenDe(c) = OrdenDe(d)
                              /\ AccionDe(c) = AccionDe(d) => c = d
  /\ \A d \in Documentos : firma[d].ticket => EnviadoAFirma(d)
  /\ \A e \in Entregas :
       /\ entrega[e].recibida => EnviadoAFirma(e[1])
       /\ EnMarcha(e) => entrega[e].recibida
       /\ entrega[e].estatus > 0 /\ AccionDe(e[1]) = "APPROVE" =>
            Enviados(OrdenDe(e[1]), "CANCEL") = {}

\* A request to sign has its new document until it saves it, and will save the
\* order as PENDIENTE, which the order is or is about to be cancelled.
FirmarReg(q) ==
  /\ q.en # "guardar" =>
       \E d \in Documentos : /\ q.docs = {d} /\ OrdenDe(d) = q.orden
                             /\ ~EnviadoAFirma(d) /\ EnvioRegular(q.orden, AccionDe(d))
  /\ q.en = "guardar" =>
       /\ q.fila.estatus = "PENDIENTE" /\ ~Firmada(q.orden, "CANCEL")
       /\ Firmada(q.orden, "APPROVE") => Enviados(q.orden, "CANCEL") # {}

\* The other requests are about orders that were never sent to signing.
PedidoReg(q) ==
  /\ q.en = "servicios" => q.op \in {"crear", "actualizar"}
  /\ q.en = "borrar" => q.op = "quitar"
  /\ q.en \in {"firmantes", "documento"} => q.op = "firmar"
  /\ q.en = "guardar" => q.op \in {"firmar", "actualizar"}
  /\ q.en = "estatus" => q.op = "cancelar"
  /\ q.op # "firmar" => SinFirmas(q.orden) /\ q.fila.estatus = "PENDIENTE"
  /\ q.op = "cancelar" => q.en = "orden"
  /\ q.op = "crear" /\ q.en # "servicios" => ~Existe(q.orden)
  /\ q.op = "crear" /\ q.en # "fondos" => q.fila.existe = "si"
  /\ q.op = "crear" /\ q.en = "servicios" => Existe(q.orden)
  /\ q.op # "crear" /\ q.en # "orden" => Existe(q.orden) /\ q.fila.existe = "si"
  /\ q.op = "firmar" => FirmarReg(q)
PedidosReg == \A h \in Hilos : pedido[h].en # "libre" => PedidoReg(pedido[h])

RegularInv == Turnos /\ OrdenesReg /\ FirmasReg /\ PedidosReg

\* While a request is at work, or nothing is, no handler is.
LEMMA NadaEnMarcha ==
  ASSUME TipoInv, Turnos, Quieto \/ \E h \in Hilos : pedido[h].en # "libre", NEW e \in Entregas
  PROVE  /\ ~EnMarcha(e) /\ paso[e] = "libre" /\ entrega[e].estatus = 0
         /\ ~entrega[e].monto /\ ~entrega[e].guardar
<1>1. ~EnMarcha(e)
  <2>1. CASE Quieto BY <2>1, EntregasAssumption DEF Quieto, Reposo, EnMarcha
  <2>2. CASE \E h \in Hilos : pedido[h].en # "libre" BY <2>2 DEF Turnos
  <2> QED BY <2>1, <2>2
<1>2. entrega[e].estatus \in 0..2 BY DEF TipoInv, EntregasBien
<1> QED BY <1>1, <1>2 DEF EnMarcha, Emitida

\* While a handler is at work, no request is.
LEMMA NadaEnPedidos ==
  ASSUME Turnos, Quieto \/ \E e \in Entregas : EnMarcha(e), NEW h \in Hilos
  PROVE  pedido[h].en = "libre"
BY DEF Turnos, Quieto

\* An order that nothing was sent for has no signatures.
LEMMA SinFirmada ==
  ASSUME FirmasReg, NEW o, NEW accion, Enviados(o, accion) = {}
  PROVE  ~Firmada(o, accion)
<1> SUFFICES ASSUME NEW e \in Entregas, entrega[e].recibida,
                    OrdenDe(e[1]) = o, AccionDe(e[1]) = accion
             PROVE  FALSE
  BY DEF Firmada
<1>1. e[1] \in Documentos BY DEF Entregas
<1>2. e[1] \in Enviados(o, accion) BY <1>1 DEF FirmasReg, Enviados
<1> QED BY <1>2

\* What is the status of an order that nothing was sent for.
LEMMA SinFirmasPendiente ==
  ASSUME TipoInv, RegularInv, Quieto \/ \E h \in Hilos : pedido[h].en # "libre",
         NEW o \in Ordenes, SinFirmas(o)
  PROVE  /\ orden[o].estatus = "PENDIENTE" /\ Enviados(o, "APPROVE") = {}
         /\ Enviados(o, "CANCEL") = {} /\ ~Firmada(o, "APPROVE") /\ ~Firmada(o, "CANCEL")
<1>1. Enviados(o, "APPROVE") = {} /\ Enviados(o, "CANCEL") = {} BY DEF SinFirmas, Acciones
<1>2. ~Firmada(o, "APPROVE") /\ ~Firmada(o, "CANCEL") BY <1>1, SinFirmada DEF RegularInv
<1>3. EstatusBien(o) BY NadaEnMarcha DEF RegularInv, OrdenesReg, OrdenReg
<1> QED BY <1>1, <1>2, <1>3 DEF EstatusBien

\* A step of a request leaves the handlers at rest and the other requests idle.
LEMMA TurnosPedido ==
  ASSUME TipoInv, Turnos, NEW h \in Hilos, Quieto \/ pedido[h].en # "libre",
         \A g \in Hilos \ {h} : pedido'[g] = pedido[g], UNCHANGED <<entrega, paso>>
  PROVE  Turnos'
<1>1. \A e \in Entregas : ~EnMarcha(e)' BY NadaEnMarcha DEF EnMarcha, Emitida
<1>2. \A g \in Hilos \ {h} : pedido'[g].en = "libre" BY DEF Turnos, Quieto
<1> QED BY <1>1, <1>2 DEF Turnos

\* So does a step of a handler.
LEMMA TurnosEntrega ==
  ASSUME TipoInv, Turnos, NEW c \in Entregas, Quieto \/ EnMarcha(c), UNCHANGED pedido,
         \A e \in Entregas \ {c} : entrega'[e] = entrega[e] /\ paso'[e] = paso[e]
  PROVE  Turnos'
<1>1. ASSUME NEW e \in Entregas, e # c PROVE ~EnMarcha(e)'
  <2>1. ~EnMarcha(e) BY <1>1, NadaEnMarcha DEF Turnos
  <2> QED BY <1>1, <2>1 DEF EnMarcha, Emitida
<1>2. \A h \in Hilos : pedido'[h].en = "libre" BY NadaEnPedidos
<1> QED BY <1>1, <1>2 DEF Turnos

\* A request goes on: what is left to see is what it will do next.
LEMMA RegPedido ==
  ASSUME TipoInv, RegularInv, NEW h \in Hilos, Quieto \/ pedido[h].en # "libre",
         \A g \in Hilos \ {h} : pedido'[g] = pedido[g],
         UNCHANGED <<orden, firma, entrega, paso>>,
         pedido'[h].en # "libre" => PedidoReg(pedido[h])'
  PROVE  RegularInv'
<1>1. Turnos' BY TurnosPedido DEF RegularInv
<1>2. OrdenesReg'
  BY DEF RegularInv, OrdenesReg, OrdenReg, Existe, SinFirmas, Enviados, EnviadoAFirma, Firmada,
         EstatusBien
<1>3. FirmasReg' BY DEF RegularInv, FirmasReg, EnMarcha, Emitida, Enviados, EnviadoAFirma
<1>4. PedidosReg'
  <2> SUFFICES ASSUME NEW g \in Hilos, pedido'[g].en # "libre" PROVE PedidoReg(pedido[g])'
    BY DEF PedidosReg
  <2>1. g = h BY DEF Turnos, RegularInv, Quieto
  <2> QED BY <2>1
<1> QED BY <1>1, <1>2, <1>3, <1>4 DEF RegularInv

\* A request saves or removes an order whose status is right.
LEMMA RegOrden ==
  ASSUME TipoInv, RegularInv, NEW h \in Hilos, pedido[h].en # "libre",
         \A g \in Hilos \ {h} : pedido'[g] = pedido[g],
         UNCHANGED <<firma, entrega, paso>>, NEW o \in Ordenes,
         \A x \in Ordenes \ {o} : orden'[x] = orden[x],
         Existe(o)' \/ SinFirmas(o), EstatusBien(o)',
         pedido'[h].en # "libre" => PedidoReg(pedido[h])'
  PROVE  RegularInv'
<1>1. Turnos' BY TurnosPedido DEF RegularInv
<1>2. OrdenesReg'
  <2> SUFFICES ASSUME NEW x \in Ordenes PROVE OrdenReg(x)' BY DEF OrdenesReg
  <2>1. CASE x = o
    <3>1. Enviados(o, "CANCEL")' # {} => Firmada(o, "APPROVE")'
      BY DEF RegularInv, OrdenesReg, OrdenReg, Enviados, EnviadoAFirma, Firmada
    <3>2. ~Existe(o)' => SinFirmas(o)' BY DEF SinFirmas, Enviados, EnviadoAFirma
    <3> QED BY <2>1, <3>1, <3>2 DEF OrdenReg
  <2>2. CASE x # o
    <3>1. orden'[x] = orden[x] /\ OrdenReg(x) BY <2>2 DEF RegularInv, OrdenesReg
    <3> QED BY <3>1 DEF OrdenReg, Existe, SinFirmas, Enviados, EnviadoAFirma, Firmada, EstatusBien
  <2> QED BY <2>1, <2>2
<1>3. FirmasReg' BY DEF RegularInv, FirmasReg, EnMarcha, Emitida, Enviados, EnviadoAFirma
<1>4. PedidosReg'
  <2> SUFFICES ASSUME NEW g \in Hilos, pedido'[g].en # "libre" PROVE PedidoReg(pedido[g])'
    BY DEF PedidosReg
  <2>1. g = h BY DEF Turnos, RegularInv, Quieto
  <2> QED BY <2>1
<1> QED BY <1>1, <1>2, <1>3, <1>4 DEF RegularInv

\* A request arrives, to create an order ...
LEMMA RegCrear ==
  ASSUME TipoInv, RegularInv, Serial, NEW h \in Hilos, NEW o \in Ordenes, NEW total,
         PedirCrear(h, o, total)
  PROVE  RegularInv'
<1> DEFINE nada == {}
<1> HIDE DEF nada
<1>1. Pedir(h, "crear", "fondos", o, nada, total) /\ orden[o].existe = "nunca"
  BY DEF PedirCrear, nada
<1>2. Quieto /\ UNCHANGED <<orden, firma, entrega, paso>>
  BY <1>1 DEF Pedir, Abierto, varsLibro
<1>3. /\ pedido'[h].op = "crear" /\ pedido'[h].en = "fondos" /\ pedido'[h].orden = o
      /\ pedido'[h].fila = SinOrden /\ \A g \in Hilos \ {h} : pedido'[g] = pedido[g]
  BY <1>1, PedirHace DEF TipoInv
<1>4. ~Existe(o) /\ SinFirmas(o) BY <1>1 DEF Existe, RegularInv, OrdenesReg, OrdenReg
<1>5. ~Existe(o)' /\ SinFirmas(o)'
  BY <1>2, <1>4 DEF Existe, SinFirmas, Enviados, EnviadoAFirma
<1>6. PedidoReg(pedido[h])' BY <1>3, <1>5 DEF PedidoReg, SinOrden
<1> QED BY <1>2, <1>3, <1>6, RegPedido

\* ... to remove, change or cancel an order ...
LEMMA RegSobre ==
  ASSUME TipoInv, RegularInv, Serial, ClienteRegular, NEW h \in Hilos, NEW op, NEW o \in Ordenes,
         NEW total, PedirSobre(h, op, o, total)
  PROVE  RegularInv'
<1> DEFINE nada == {}
<1> HIDE DEF nada
<1>1. Pedir(h, op, "orden", o, nada, total) /\ SinFirmas(o) /\ op \in {"quitar", "actualizar", "cancelar"}
  BY DEF PedirSobre, nada
<1>2. Quieto /\ UNCHANGED <<orden, firma, entrega, paso>>
  BY <1>1 DEF Pedir, Abierto, varsLibro
<1>3. /\ pedido'[h].op = op /\ pedido'[h].en = "orden" /\ pedido'[h].orden = o
      /\ pedido'[h].fila = SinOrden /\ \A g \in Hilos \ {h} : pedido'[g] = pedido[g]
  BY <1>1, PedirHace DEF TipoInv
<1>4. SinFirmas(o)' BY <1>1, <1>2 DEF SinFirmas, Enviados, EnviadoAFirma
<1>5. PedidoReg(pedido[h])' BY <1>1, <1>3, <1>4 DEF PedidoReg, SinOrden
<1> QED BY <1>2, <1>3, <1>5, RegPedido

\* ... or to sign a document.
LEMMA RegFirma ==
  ASSUME TipoInv, RegularInv, Serial, ClienteRegular, NEW h \in Hilos, NEW d \in Documentos,
         PedirFirma(h, d)
  PROVE  RegularInv'
<1> DEFINE ds == {d}
<1>0. d \in ds /\ ds = {d} OBVIOUS
<1> HIDE DEF ds
<1>1. /\ Pedir(h, "firmar", "orden", OrdenDe(d), ds, 0)
      /\ ~EnviadoAFirma(d) /\ EnvioRegular(OrdenDe(d), AccionDe(d))
  BY <1>0 DEF PedirFirma
<1>2. Quieto /\ UNCHANGED <<orden, firma, entrega, paso>>
  BY <1>1 DEF Pedir, Abierto, varsLibro
<1>3. /\ pedido'[h].op = "firmar" /\ pedido'[h].en = "orden" /\ pedido'[h].orden = OrdenDe(d)
      /\ pedido'[h].docs = ds /\ \A g \in Hilos \ {h} : pedido'[g] = pedido[g]
  BY <1>1, PedirHace DEF TipoInv
<1>4. ~EnviadoAFirma(d)' /\ EnvioRegular(pedido[h].orden, AccionDe(d))'
  BY <1>1, <1>2, <1>3 DEF EnvioRegular, SinFirmas, Enviados, EnviadoAFirma
<1>5. FirmarReg(pedido[h])'
  <2>1. \E x \in Documentos : /\ pedido'[h].docs = {x} /\ OrdenDe(x) = pedido'[h].orden
                              /\ ~EnviadoAFirma(x)' /\ EnvioRegular(pedido[h].orden, AccionDe(x))'
    BY <1>0, <1>3, <1>4
  <2> QED BY <1>3, <2>1 DEF FirmarReg
<1>6. PedidoReg(pedido[h])' BY <1>3, <1>5 DEF PedidoReg
<1> QED BY <1>2, <1>3, <1>6, RegPedido

\* What a request that goes on needs, when nothing it depends on has changed.
LEMMA MismasFirmas ==
  ASSUME UNCHANGED <<orden, firma, entrega>>, NEW o, NEW d, NEW accion
  PROVE  /\ (SinFirmas(o)' <=> SinFirmas(o)) /\ (Existe(o)' <=> Existe(o))
         /\ (EnviadoAFirma(d)' <=> EnviadoAFirma(d))
         /\ (EnvioRegular(o, accion)' <=> EnvioRegular(o, accion))
BY DEF SinFirmas, Existe, Enviados, EnviadoAFirma, EnvioRegular

\* The requests other than those to sign: what they keep from query to query.
LEMMA RegSigue ==
  ASSUME TipoInv, RegularInv, NEW h \in Hilos, pedido[h].en # "libre", pedido[h].op # "firmar",
         \A g \in Hilos \ {h} : pedido'[g] = pedido[g],
         UNCHANGED <<orden, firma, entrega, paso>>, pedido'[h].orden = pedido[h].orden,
         pedido'[h].en # "libre" =>
           /\ pedido'[h].op = pedido[h].op /\ pedido'[h].fila.estatus = "PENDIENTE"
           /\ \/ pedido[h].en # "orden" /\ pedido'[h].fila.existe = pedido[h].fila.existe
              \/ pedido'[h].fila.existe = "si"
           /\ pedido[h].op = "crear" /\ pedido[h].en # "servicios" =>
                /\ pedido'[h].en \in {"comprometer", "folio", "guardarNueva"}
                /\ pedido[h].en # "fondos" \/ pedido'[h].fila.existe = "si"
           /\ pedido[h].op = "crear" => pedido[h].en # "servicios"
           /\ pedido[h].op # "crear" =>
                /\ Existe(pedido[h].orden) /\ pedido[h].op # "cancelar"
                /\ pedido[h].op = "quitar" => pedido'[h].en \in {"contrato", "comprometer", "borrar"}
                /\ pedido[h].op = "actualizar" =>
                     pedido'[h].en \in {"contrato", "comprometer", "servicios", "guardar"}
  PROVE  RegularInv'
<1>1. PICK o \in Ordenes : o = pedido[h].orden BY PedidoTipo DEF TipoInv
<1>2. PedidoReg(pedido[h]) /\ pedido[h].op \in Solicitudes
  BY PedidoTipo DEF RegularInv, PedidosReg, TipoInv
<1>3. (SinFirmas(o)' <=> SinFirmas(o)) /\ (Existe(o)' <=> Existe(o)) /\ SinFirmas(o)
  BY <1>1, <1>2, MismasFirmas DEF PedidoReg
<1>4. ASSUME pedido'[h].en # "libre" PROVE PedidoReg(pedido[h])'
  <2>1. pedido'[h].op = pedido[h].op /\ pedido'[h].fila.estatus = "PENDIENTE" /\ pedido'[h].orden = o
    BY <1>1, <1>4
  <2>2. CASE pedido[h].op = "crear" BY <1>1, <1>2, <1>3, <1>4, <2>1, <2>2 DEF PedidoReg
  <2>3. CASE pedido[h].op # "crear"
    BY <1>1, <1>2, <1>3, <1>4, <2>1, <2>3 DEF PedidoReg, Solicitudes
  <2> QED BY <2>2, <2>3
<1> QED BY <1>4, RegPedido

\* A request that is answered leaves everything as it was.
LEMMA RegResponde ==
  ASSUME TipoInv, RegularInv, NEW h \in Hilos, pedido[h].en # "libre", Responder(h),
         UNCHANGED <<orden, firma, entrega, paso>>
  PROVE  RegularInv'
<1>1. pedido'[h].en = "libre" /\ \A g \in Hilos \ {h} : pedido'[g] = pedido[g]
  BY ResponderHace DEF TipoInv
<1> QED BY <1>1, RegPedido

\* create reads the contract, writes its reservations and reads the folio.
LEMMA RegLeerFondos ==
  ASSUME TipoInv, RegularInv, NEW h \in Hilos, LeerFondos(h)
  PROVE  RegularInv'
<1> DEFINE t == pedido[h].total
           plan == PlanDeFondos(fondo, Maestro, Extensiones, t)
           d == Desglose(plan, Maestro)
           fila == [SinOrden EXCEPT !.existe = "si", !.total = t, !.desglose = d]
<1>1. pedido[h].en = "fondos" /\ UNCHANGED <<orden, firma, entrega, paso>>
      /\ (Responder(h) \/ SeguirCon(h, "comprometer", fila, plan.escrituras))
  BY DEF LeerFondos, vars
<1>2. fila.existe = "si" /\ fila.estatus = "PENDIENTE"
  <2> HIDE DEF t, d
  <2> QED BY DEF SinOrden
<1>3. pedido[h].op = "crear" BY <1>1, PedidoTipo DEF EnSuSitio, TipoInv
<1> HIDE DEF fila, plan
<1>4. CASE Responder(h) BY <1>1, <1>4, RegResponde
<1>5. CASE SeguirCon(h, "comprometer", fila, plan.escrituras)
  <2>1. /\ pedido'[h].op = pedido[h].op /\ pedido'[h].orden = pedido[h].orden
        /\ pedido'[h].en = "comprometer" /\ pedido'[h].fila = fila
        /\ \A g \in Hilos \ {h} : pedido'[g] = pedido[g]
    BY <1>1, <1>5, SeguirConHace DEF TipoInv
  <2> QED BY <1>1, <1>2, <1>3, <2>1, RegSigue
<1> QED BY <1>1, <1>4, <1>5

\* The writes of the committed amounts.
LEMMA RegEscribirReserva ==
  ASSUME TipoInv, RegularInv, NEW h \in Hilos, EscribirReserva(h)
  PROVE  RegularInv'
<1> DEFINE resto == Tail(pedido[h].escrituras)
           en == IF resto # <<>> THEN "comprometer"
                 ELSE CASE pedido[h].op = "crear"      -> "folio"
                        [] pedido[h].op = "quitar"     -> "borrar"
                        [] pedido[h].op = "actualizar" -> "servicios"
<1>1. /\ pedido[h].en = "comprometer" /\ UNCHANGED <<orden, firma, entrega, paso>>
      /\ SeguirCon(h, en, pedido[h].fila, resto)
  BY DEF EscribirReserva, EscribirComprometido
<1>2. pedido[h].op \in {"crear", "quitar", "actualizar"}
  BY <1>1, PedidoTipo DEF EnSuSitio, TipoInv
<1>3. /\ pedido[h].op = "crear" => en \in {"comprometer", "folio"}
      /\ pedido[h].op = "quitar" => en \in {"comprometer", "borrar"}
      /\ pedido[h].op = "actualizar" => en \in {"comprometer", "servicios"}
  <2> HIDE DEF resto
  <2> QED OBVIOUS
<1>4. PedidoReg(pedido[h]) BY <1>1 DEF RegularInv, PedidosReg
<1> HIDE DEF en, resto
<1>5. /\ pedido'[h].op = pedido[h].op /\ pedido'[h].orden = pedido[h].orden
      /\ pedido'[h].en = en /\ pedido'[h].fila = pedido[h].fila
      /\ \A g \in Hilos \ {h} : pedido'[g] = pedido[g]
  BY <1>1, SeguirConHace DEF TipoInv
<1>6. pedido[h].fila.estatus = "PENDIENTE" /\ (pedido[h].op # "crear" => Existe(pedido[h].orden))
  BY <1>1, <1>2, <1>4 DEF PedidoReg
<1> QED BY <1>1, <1>2, <1>3, <1>5, <1>6, RegSigue

\* The folio of the new order.
LEMMA RegLeerFolio ==
  ASSUME TipoInv, RegularInv, NEW h \in Hilos, LeerFolio(h)
  PROVE  RegularInv'
<1> DEFINE n == Max(Folios \cup {0}) + 1
           fila == [pedido[h].fila EXCEPT !.folio = n]
           nada == <<>>
<1>1. /\ pedido[h].en = "folio" /\ UNCHANGED <<orden, firma, entrega, paso>>
      /\ SeguirCon(h, "guardarNueva", fila, nada)
  BY DEF LeerFolio, vars
<1>2. pedido[h].op = "crear" /\ pedido[h].fila \in FilaOrden /\ PedidoReg(pedido[h])
  BY <1>1, PedidoTipo DEF EnSuSitio, TipoInv, RegularInv, PedidosReg
<1>3. fila.estatus = pedido[h].fila.estatus /\ fila.existe = pedido[h].fila.existe
  <2> HIDE DEF n
  <2> QED BY <1>2 DEF FilaOrden
<1> HIDE DEF fila, nada
<1>4. /\ pedido'[h].op = pedido[h].op /\ pedido'[h].orden = pedido[h].orden
      /\ pedido'[h].en = "guardarNueva" /\ pedido'[h].fila = fila
      /\ \A g \in Hilos \ {h} : pedido'[g] = pedido[g]
  BY <1>1, SeguirConHace DEF TipoInv
<1>5. pedido[h].fila.estatus = "PENDIENTE" BY <1>2 DEF PedidoReg
<1> QED BY <1>1, <1>2, <1>3, <1>4, <1>5, RegSigue

\* An order that was never sent to signing may be saved as PENDIENTE.
LEMMA PendienteBien ==
  ASSUME TipoInv, RegularInv, NEW h \in Hilos, pedido[h].en # "libre", NEW o \in Ordenes,
         SinFirmas(o), orden'[o].estatus = "PENDIENTE", UNCHANGED <<firma, entrega>>
  PROVE  EstatusBien(o)'
<1>1. ~Firmada(o, "APPROVE") /\ ~Firmada(o, "CANCEL") BY SinFirmasPendiente
<1>2. ~Firmada(o, "APPROVE")' /\ ~Firmada(o, "CANCEL")' BY <1>1 DEF Firmada
<1> QED BY <1>2 DEF EstatusBien

\* The new order is saved.
LEMMA RegGuardarNueva ==
  ASSUME TipoInv, RegularInv, NEW h \in Hilos, GuardarNueva(h)
  PROVE  RegularInv'
<1>1. pedido[h].en = "guardarNueva" /\ UNCHANGED <<firma, entrega, paso>>
  BY DEF GuardarNueva, vars
<1>2. pedido[h].op = "crear" /\ pedido[h].fila \in FilaOrden /\ PedidoReg(pedido[h])
  BY <1>1, PedidoTipo DEF EnSuSitio, TipoInv, RegularInv, PedidosReg
<1>3. PICK o \in Ordenes : o = pedido[h].orden BY <1>1, PedidoTipo DEF TipoInv
<1>4. PICK fila \in FilaOrden : fila = pedido[h].fila BY <1>2
<1>5. SinFirmas(o) /\ fila.estatus = "PENDIENTE" /\ fila.existe = "si"
  BY <1>1, <1>2, <1>3, <1>4 DEF PedidoReg
<1>6. CASE Responder(h) /\ UNCHANGED orden BY <1>1, <1>6, RegResponde
<1>7. CASE orden' = [orden EXCEPT ![o] = fila] /\ Seguir(h, "servicios")
  <2>1. /\ pedido'[h].op = "crear" /\ pedido'[h].orden = o /\ pedido'[h].en = "servicios"
        /\ pedido'[h].fila = fila /\ \A g \in Hilos \ {h} : pedido'[g] = pedido[g]
    BY <1>1, <1>2, <1>3, <1>4, <1>7, SeguirHace DEF TipoInv
  <2>2. orden'[o] = fila /\ \A x \in Ordenes \ {o} : orden'[x] = orden[x]
    BY <1>7 DEF TipoInv, OrdenesBien
  <2>3. Existe(o)' /\ EstatusBien(o)' BY <1>1, <1>5, <2>2, PendienteBien DEF Existe
  <2>4. SinFirmas(o)' BY <1>1, <1>5 DEF SinFirmas, Enviados, EnviadoAFirma
  <2>5. PedidoReg(pedido[h])' BY <1>5, <2>1, <2>3, <2>4 DEF PedidoReg
  <2> QED BY <1>1, <2>1, <2>2, <2>3, <2>5, RegOrden
<1> QED BY <1>3, <1>4, <1>6, <1>7 DEF GuardarNueva

\* The new order has its services.
LEMMA RegCrearServicios ==
  ASSUME TipoInv, RegularInv, NEW h \in Hilos, CrearServicios(h)
  PROVE  RegularInv'
<1>1. /\ pedido[h].en = "servicios" /\ pedido[h].op = "crear"
      /\ UNCHANGED <<orden, firma, entrega, paso>>
  BY DEF CrearServicios, vars
<1>2. Existe(pedido[h].orden) BY <1>1 DEF RegularInv, PedidosReg, PedidoReg
<1>3. Responder(h) BY <1>2 DEF CrearServicios
<1> QED BY <1>1, <1>3, RegResponde

\* A request to sign that goes on keeps its document.
LEMMA RegFirmaSigue ==
  ASSUME TipoInv, RegularInv, NEW h \in Hilos, pedido[h].op = "firmar",
         pedido[h].en \in {"orden", "firmantes"}, UNCHANGED <<orden, firma, entrega, paso>>,
         \A g \in Hilos \ {h} : pedido'[g] = pedido[g],
         pedido'[h].op = "firmar", pedido'[h].orden = pedido[h].orden,
         pedido'[h].docs = pedido[h].docs, pedido'[h].en \in {"firmantes", "documento"},
         Existe(pedido[h].orden), pedido'[h].fila.existe = "si"
  PROVE  RegularInv'
<1>1. PICK o \in Ordenes : o = pedido[h].orden BY PedidoTipo DEF TipoInv
<1>2. PedidoReg(pedido[h]) BY DEF RegularInv, PedidosReg
<1>3. PICK d \in Documentos : /\ pedido[h].docs = {d} /\ OrdenDe(d) = o
                              /\ ~EnviadoAFirma(d) /\ EnvioRegular(o, AccionDe(d))
  BY <1>1, <1>2 DEF PedidoReg, FirmarReg
<1>4. PICK accion : accion = AccionDe(d) OBVIOUS
<1>5. ~EnviadoAFirma(d)' /\ EnvioRegular(o, accion)' /\ Existe(o)'
  BY <1>1, <1>3, <1>4, MismasFirmas
<1>6. FirmarReg(pedido[h])'
  <2>1. \E x \in Documentos : /\ pedido'[h].docs = {x} /\ OrdenDe(x) = pedido'[h].orden
                              /\ ~EnviadoAFirma(x)' /\ EnvioRegular(pedido[h].orden, AccionDe(x))'
    BY <1>1, <1>3, <1>4, <1>5
  <2> QED BY <2>1 DEF FirmarReg
<1>7. PedidoReg(pedido[h])' BY <1>1, <1>5, <1>6 DEF PedidoReg
<1> QED BY <1>7, RegPedido

\* A request reads its order.
LEMMA RegLeerOrden ==
  ASSUME TipoInv, RegularInv, NEW h \in Hilos, LeerOrden(h)
  PROVE  RegularInv'
<1> DEFINE en == CASE pedido[h].op \in {"quitar", "actualizar"} -> "contrato"
                   [] pedido[h].op = "firmar"   -> "firmantes"
                   [] pedido[h].op = "cancelar" -> "estatus"
           nada == <<>>
<1>1. PICK o \in Ordenes : o = pedido[h].orden BY PedidoTipo DEF TipoInv, LeerOrden
<1>2. PICK fila \in FilaOrden : fila = orden[o] BY DEF TipoInv, OrdenesBien
<1>3. /\ pedido[h].en = "orden" /\ UNCHANGED <<orden, firma, entrega, paso>>
      /\ \/ Responder(h)
         \/ /\ SeguirCon(h, en, fila, nada) /\ Existe(o)
            /\ pedido[h].op = "cancelar" => orden[o].estatus # "PENDIENTE"
  BY <1>1, <1>2 DEF LeerOrden, vars
<1>4. PedidoReg(pedido[h]) /\ pedido[h].op \in {"quitar", "actualizar", "cancelar", "firmar"}
  BY <1>3, PedidoTipo DEF EnSuSitio, TipoInv, RegularInv, PedidosReg
<1>5. /\ pedido[h].op \in {"quitar", "actualizar"} => en = "contrato"
      /\ pedido[h].op = "firmar" => en = "firmantes"
  OBVIOUS
<1> HIDE DEF en, nada
<1>6. CASE Responder(h) BY <1>3, <1>6, RegResponde
<1>7. CASE /\ SeguirCon(h, en, fila, nada) /\ Existe(o)
           /\ pedido[h].op = "cancelar" => orden[o].estatus # "PENDIENTE"
  <2>1. /\ pedido'[h].op = pedido[h].op /\ pedido'[h].orden = pedido[h].orden
        /\ pedido'[h].docs = pedido[h].docs /\ pedido'[h].en = en /\ pedido'[h].fila = fila
        /\ \A g \in Hilos \ {h} : pedido'[g] = pedido[g]
    BY <1>3, <1>7, SeguirConHace DEF TipoInv
  <2>2. fila.existe = "si" /\ Existe(pedido[h].orden) BY <1>1, <1>2, <1>7 DEF Existe
  <2>3. CASE pedido[h].op = "firmar" BY <1>3, <1>5, <2>1, <2>2, <2>3, RegFirmaSigue
  <2>4. CASE pedido[h].op # "firmar"
    <3>1. fila.estatus = "PENDIENTE"
      <4>1. SinFirmas(o) BY <1>1, <1>4, <2>4 DEF PedidoReg
      <4> QED BY <1>2, <1>3, <4>1, SinFirmasPendiente
    <3>2. pedido[h].op \in {"quitar", "actualizar"} BY <1>2, <1>4, <1>7, <2>4, <3>1
    <3> QED BY <1>3, <1>5, <2>1, <2>2, <3>1, <3>2, RegSigue
  <2> QED BY <2>3, <2>4
<1> QED BY <1>3, <1>6, <1>7

\* remove and update read the contract.
LEMMA RegLeerContrato ==
  ASSUME TipoInv, RegularInv, NEW h \in Hilos, LeerContratoDeOrden(h)
  PROVE  RegularInv'
<1>1. pedido[h].en = "contrato" /\ UNCHANGED <<orden, firma, entrega, paso>>
  BY DEF LeerContratoDeOrden, vars
<1>2. /\ PedidoReg(pedido[h]) /\ pedido[h].op \in {"quitar", "actualizar"}
      /\ pedido[h].fila \in FilaOrden
  BY <1>1, PedidoTipo DEF EnSuSitio, TipoInv, RegularInv, PedidosReg
<1>3. \/ Responder(h)
      \/ \E fila, es : /\ SeguirCon(h, "comprometer", fila, es)
                       /\ fila = pedido[h].fila \/ fila = [pedido[h].fila EXCEPT !.total = pedido[h].total]
  BY DEF LeerContratoDeOrden
<1>4. ASSUME NEW fila, NEW es, SeguirCon(h, "comprometer", fila, es),
             fila = pedido[h].fila \/ fila = [pedido[h].fila EXCEPT !.total = pedido[h].total]
      PROVE  RegularInv'
  <2>1. fila.estatus = pedido[h].fila.estatus /\ fila.existe = pedido[h].fila.existe
    BY <1>2, <1>4 DEF FilaOrden
  <2>2. /\ pedido'[h].op = pedido[h].op /\ pedido'[h].orden = pedido[h].orden
        /\ pedido'[h].en = "comprometer" /\ pedido'[h].fila = fila
        /\ \A g \in Hilos \ {h} : pedido'[g] = pedido[g]
    BY <1>1, <1>4, SeguirConHace DEF TipoInv
  <2>3. Existe(pedido[h].orden) /\ pedido[h].fila.estatus = "PENDIENTE" /\ pedido[h].fila.existe = "si"
    BY <1>1, <1>2 DEF PedidoReg
  <2> QED BY <1>1, <1>2, <2>1, <2>2, <2>3, RegSigue
<1>5. CASE Responder(h) BY <1>1, <1>5, RegResponde
<1> QED BY <1>3, <1>4, <1>5

\* remove deletes an order that was never sent to signing.
LEMMA RegBorrar ==
  ASSUME TipoInv, RegularInv, NEW h \in Hilos, Borrar(h)
  PROVE  RegularInv'
<1>1. pedido[h].en = "borrar" /\ UNCHANGED <<firma, entrega, paso>> /\ Responder(h)
  BY DEF Borrar, vars
<1>2. PICK o \in Ordenes : o = pedido[h].orden BY <1>1, PedidoTipo DEF TipoInv
<1>3. SinFirmas(o) BY <1>1, <1>2 DEF RegularInv, PedidosReg, PedidoReg
<1>4. orden' = orden \/ orden' = [orden EXCEPT ![o].existe = "borrada"] BY <1>2 DEF Borrar
<1>5. /\ orden'[o].estatus = orden[o].estatus
      /\ \A x \in Ordenes \ {o} : orden'[x] = orden[x]
  BY <1>4 DEF TipoInv, OrdenesBien, FilaOrden
<1>6. EstatusBien(o)'
  <2>1. orden[o].estatus = "PENDIENTE" BY <1>1, <1>3, SinFirmasPendiente
  <2> QED BY <1>1, <1>3, <1>5, <2>1, PendienteBien
<1>7. pedido'[h].en = "libre" /\ \A g \in Hilos \ {h} : pedido'[g] = pedido[g]
  BY <1>1, ResponderHace DEF TipoInv
<1> QED BY <1>1, <1>3, <1>5, <1>6, <1>7, RegOrden

\* update changes the services.
LEMMA RegCambiarServicios ==
  ASSUME TipoInv, RegularInv, NEW h \in Hilos, CambiarServicios(h)
  PROVE  RegularInv'
<1>1. pedido[h].en = "servicios" /\ pedido[h].op = "actualizar"
      /\ UNCHANGED <<orden, firma, entrega, paso>> /\ (Seguir(h, "guardar") \/ Responder(h))
  BY DEF CambiarServicios, vars
<1>2. Existe(pedido[h].orden) /\ pedido[h].fila.existe = "si" /\ pedido[h].fila.estatus = "PENDIENTE"
  BY <1>1 DEF RegularInv, PedidosReg, PedidoReg
<1>3. CASE Responder(h) BY <1>1, <1>3, RegResponde
<1>4. CASE Seguir(h, "guardar")
  <2>1. /\ pedido'[h].op = pedido[h].op /\ pedido'[h].orden = pedido[h].orden
        /\ pedido'[h].en = "guardar" /\ pedido'[h].fila = pedido[h].fila
        /\ \A g \in Hilos \ {h} : pedido'[g] = pedido[g]
    BY <1>1, <1>4, SeguirHace DEF TipoInv
  <2> QED BY <1>1, <1>2, <2>1, RegSigue
<1> QED BY <1>1, <1>3, <1>4

\* The signers of the document.
LEMMA RegLeerFirmantes ==
  ASSUME TipoInv, RegularInv, NEW h \in Hilos, LeerFirmantes(h)
  PROVE  RegularInv'
<1>1. pedido[h].en = "firmantes" /\ UNCHANGED <<orden, firma, entrega, paso>>
      /\ (Seguir(h, "documento") \/ Responder(h))
  BY DEF LeerFirmantes, vars
<1>2. pedido[h].op = "firmar" /\ Existe(pedido[h].orden) /\ pedido[h].fila.existe = "si"
  BY <1>1 DEF RegularInv, PedidosReg, PedidoReg
<1>3. CASE Responder(h) BY <1>1, <1>3, RegResponde
<1>4. CASE Seguir(h, "documento")
  <2>1. /\ pedido'[h].op = pedido[h].op /\ pedido'[h].orden = pedido[h].orden
        /\ pedido'[h].docs = pedido[h].docs
        /\ pedido'[h].en = "documento" /\ pedido'[h].fila = pedido[h].fila
        /\ \A g \in Hilos \ {h} : pedido'[g] = pedido[g]
    BY <1>1, <1>4, SeguirHace DEF TipoInv
  <2> QED BY <1>1, <1>2, <2>1, RegFirmaSigue
<1> QED BY <1>1, <1>3, <1>4

\* The document is saved: it is the only one of its order and action.
LEMMA RegGuardarDocumento ==
  ASSUME TipoInv, RegularInv, NEW h \in Hilos, GuardarDocumento(h)
  PROVE  RegularInv'
<1> DEFINE r == [pedido[h].fila EXCEPT !.estatus = "PENDIENTE"]
           nada == <<>>
<1>1. /\ pedido[h].en = "documento" /\ UNCHANGED <<orden, entrega, paso>>
      /\ SeguirCon(h, "guardar", r, nada)
  BY DEF GuardarDocumento, vars
<1>2. PICK o \in Ordenes : o = pedido[h].orden BY <1>1, PedidoTipo DEF TipoInv
<1>3. /\ PedidoReg(pedido[h]) /\ pedido[h].op = "firmar" /\ Existe(o)
      /\ pedido[h].fila \in FilaOrden /\ pedido[h].fila.existe = "si"
  BY <1>1, <1>2, PedidoTipo DEF RegularInv, PedidosReg, PedidoReg, TipoInv
<1>4. PICK d \in Documentos : /\ pedido[h].docs = {d} /\ OrdenDe(d) = o
                              /\ ~EnviadoAFirma(d) /\ EnvioRegular(o, AccionDe(d))
  BY <1>1, <1>2, <1>3 DEF PedidoReg, FirmarReg
<1>5. r.existe = "si" /\ r.estatus = "PENDIENTE" BY <1>3 DEF FilaOrden
<1> HIDE DEF r, nada
<1>6. /\ pedido'[h].op = "firmar" /\ pedido'[h].orden = o /\ pedido'[h].en = "guardar"
      /\ pedido'[h].fila = r /\ \A g \in Hilos \ {h} : pedido'[g] = pedido[g]
  BY <1>1, <1>2, <1>3, SeguirConHace DEF TipoInv
<1>7. \A x \in Documentos : /\ x # d => firma'[x] = firma[x]
                            /\ firma'[d] = [estatus |-> "PENDIENTE_DE_FIRMA", ticket |-> FALSE]
  BY <1>4 DEF GuardarDocumento
<1>8. EnviadoAFirma(d)' /\ \A x \in Documentos : x # d => (EnviadoAFirma(x)' <=> EnviadoAFirma(x))
  BY <1>7 DEF EnviadoAFirma
<1>9. AccionDe(d) \in Acciones /\ (AccionDe(d) = "APPROVE" \/ AccionDe(d) = "CANCEL")
  BY DEF Documentos, AccionDe, Acciones
\* What the client saw of its order.
<1>10. /\ Enviados(o, "CANCEL") = {} /\ Enviados(o, AccionDe(d)) = {} /\ ~Firmada(o, "CANCEL")
       /\ AccionDe(d) = "APPROVE" => ~Firmada(o, "APPROVE")
       /\ AccionDe(d) = "CANCEL" => Firmada(o, "APPROVE")
  <2>1. CASE AccionDe(d) = "APPROVE"
    <3>1. SinFirmas(o) BY <1>4, <2>1 DEF EnvioRegular
    <3> QED BY <1>1, <2>1, <3>1, SinFirmasPendiente
  <2>2. CASE AccionDe(d) = "CANCEL"
    <3>1. orden[o].estatus = "ACTIVA" /\ Enviados(o, "CANCEL") = {}
      BY <1>4, <2>2 DEF EnvioRegular
    <3>2. EstatusBien(o) BY <1>1, NadaEnMarcha DEF RegularInv, OrdenesReg, OrdenReg
    <3>3. Firmada(o, "APPROVE") BY <3>1, <3>2 DEF EstatusBien
    <3>4. ~Firmada(o, "CANCEL") BY <3>1, SinFirmada DEF RegularInv
    <3> QED BY <2>2, <3>1, <3>3, <3>4
  <2> QED BY <1>9, <2>1, <2>2
<1>11. Turnos' BY <1>1, <1>6, TurnosPedido DEF RegularInv
<1>12. ASSUME NEW x, NEW accion PROVE Firmada(x, accion)' <=> Firmada(x, accion)
  BY <1>1 DEF Firmada
<1>13. ASSUME NEW x \in Ordenes, x # o, NEW accion PROVE Enviados(x, accion)' = Enviados(x, accion)
  BY <1>4, <1>8, <1>13 DEF Enviados
<1>14. OrdenesReg'
  <2> SUFFICES ASSUME NEW x \in Ordenes PROVE OrdenReg(x)' BY DEF OrdenesReg
  <2>1. CASE x # o
    <3>1. OrdenReg(x) /\ orden'[x] = orden[x] BY <1>1 DEF RegularInv, OrdenesReg
    <3>2. /\ Enviados(x, "CANCEL")' = Enviados(x, "CANCEL")
          /\ Enviados(x, "APPROVE")' = Enviados(x, "APPROVE")
      BY <1>13, <2>1
    <3>3. SinFirmas(x)' <=> SinFirmas(x) BY <3>2 DEF SinFirmas, Acciones
    <3> QED BY <1>1, <1>12, <3>1, <3>2, <3>3 DEF OrdenReg, EstatusBien, Existe
  <2>2. CASE x = o
    <3>1. Existe(o)' BY <1>1, <1>3 DEF Existe
    <3>2. Enviados(o, "CANCEL")' # {} => Firmada(o, "APPROVE")'
      <4>1. CASE AccionDe(d) = "CANCEL" BY <1>10, <1>12, <4>1
      <4>2. CASE AccionDe(d) # "CANCEL"
        <5>1. Enviados(o, "CANCEL")' = Enviados(o, "CANCEL") BY <1>8, <4>2 DEF Enviados
        <5> QED BY <1>10, <5>1
      <4> QED BY <4>1, <4>2
    <3>3. EstatusBien(o)'
      <4>1. EstatusBien(o) BY <1>1, NadaEnMarcha DEF RegularInv, OrdenesReg, OrdenReg
      <4>2. orden'[o].estatus = IF Firmada(o, "APPROVE") THEN "ACTIVA" ELSE "PENDIENTE"
        BY <1>1, <1>10, <4>1 DEF EstatusBien
      <4> QED BY <1>10, <1>12, <4>2 DEF EstatusBien
    <3> QED BY <2>2, <3>1, <3>2, <3>3 DEF OrdenReg
  <2> QED BY <2>1, <2>2
<1>15. FirmasReg'
  <2>1. ASSUME NEW c \in Documentos, NEW x \in Documentos, EnviadoAFirma(c)', EnviadoAFirma(x)',
               OrdenDe(c) = OrdenDe(x), AccionDe(c) = AccionDe(x)
        PROVE  c = x
    <3>1. CASE c # d /\ x # d BY <1>8, <2>1, <3>1 DEF RegularInv, FirmasReg
    <3>2. ASSUME NEW y \in Documentos, y # d, EnviadoAFirma(y)', OrdenDe(y) = OrdenDe(d),
                 AccionDe(y) = AccionDe(d)
          PROVE  FALSE
      <4>1. y \in Enviados(o, AccionDe(d)) BY <1>4, <1>8, <3>2 DEF Enviados
      <4> QED BY <1>10, <4>1
    <3> QED BY <2>1, <3>1, <3>2
  <2>2. ASSUME NEW x \in Documentos, firma'[x].ticket PROVE EnviadoAFirma(x)'
    <3>1. x # d BY <1>7, <2>2
    <3>2. EnviadoAFirma(x) BY <1>7, <2>2, <3>1 DEF RegularInv, FirmasReg
    <3> QED BY <1>8, <3>1, <3>2
  <2>3. ASSUME NEW e \in Entregas
        PROVE  /\ entrega'[e].recibida => EnviadoAFirma(e[1])'
               /\ ~EnMarcha(e)' /\ ~ (entrega'[e].estatus > 0)
    <3>1. ~EnMarcha(e) /\ entrega[e].estatus = 0 BY <1>1, NadaEnMarcha DEF RegularInv
    <3>2. e[1] \in Documentos /\ (entrega[e].recibida => EnviadoAFirma(e[1]))
      BY DEF Entregas, RegularInv, FirmasReg
    <3>3. ~EnMarcha(e)' BY <1>1, <3>1 DEF EnMarcha, Emitida
    <3>4. entrega'[e].recibida => EnviadoAFirma(e[1])' BY <1>1, <1>8, <3>2
    <3> QED BY <1>1, <3>1, <3>3, <3>4
  <2> QED BY <2>1, <2>2, <2>3 DEF FirmasReg
<1>16. PedidosReg'
  <2> SUFFICES ASSUME NEW g \in Hilos, pedido'[g].en # "libre" PROVE PedidoReg(pedido[g])'
    BY DEF PedidosReg
  <2>1. g = h BY <1>1, <1>6 DEF Turnos, RegularInv
  <2>2. ~Firmada(o, "CANCEL")' /\ (Firmada(o, "APPROVE")' => Enviados(o, "CANCEL")' # {})
    <3>1. CASE AccionDe(d) = "APPROVE" BY <1>10, <1>12, <3>1
    <3>2. CASE AccionDe(d) = "CANCEL"
      <4>1. d \in Enviados(o, "CANCEL")' BY <1>4, <1>8, <3>2 DEF Enviados
      <4> QED BY <1>10, <1>12, <4>1
    <3> QED BY <1>9, <3>1, <3>2
  <2>3. FirmarReg(pedido[h])' BY <1>5, <1>6, <2>2 DEF FirmarReg
  <2>4. Existe(o)' BY <1>1, <1>3 DEF Existe
  <2> QED BY <1>5, <1>6, <2>1, <2>3, <2>4 DEF PedidoReg
<1> QED BY <1>11, <1>14, <1>15, <1>16 DEF RegularInv

\* update, or the request to sign, saves the row it read.
LEMMA RegGuardar ==
  ASSUME TipoInv, RegularInv, NEW h \in Hilos, Guardar(h)
  PROVE  RegularInv'
<1>1. pedido[h].en = "guardar" /\ UNCHANGED <<firma, entrega, paso>> /\ Responder(h)
  BY DEF Guardar, vars
<1>2. PICK o \in Ordenes : o = pedido[h].orden BY <1>1, PedidoTipo DEF TipoInv
<1>3. PICK fila \in FilaOrden : fila = pedido[h].fila BY <1>1, PedidoTipo DEF TipoInv
<1>4. PedidoReg(pedido[h]) /\ pedido[h].op \in {"firmar", "actualizar"}
  BY <1>1 DEF RegularInv, PedidosReg, PedidoReg
<1>5. fila.existe = "si" /\ Existe(o) /\ fila.estatus = "PENDIENTE"
  BY <1>1, <1>2, <1>3, <1>4 DEF PedidoReg, FirmarReg
<1>6. orden' = orden \/ orden' = [orden EXCEPT ![o] = fila] BY <1>2, <1>3 DEF Guardar
<1>7. \A x \in Ordenes \ {o} : orden'[x] = orden[x] BY <1>6 DEF TipoInv, OrdenesBien
<1>8. Existe(o)' BY <1>5, <1>6 DEF TipoInv, OrdenesBien, Existe
<1>9. EstatusBien(o)'
  <2>1. CASE orden' = orden
    <3>1. EstatusBien(o) BY <1>1, NadaEnMarcha DEF RegularInv, OrdenesReg, OrdenReg
    <3> QED BY <1>1, <2>1, <3>1 DEF EstatusBien, Firmada, Enviados, EnviadoAFirma
  <2>2. CASE orden' = [orden EXCEPT ![o] = fila]
    <3>1. orden'[o].estatus = "PENDIENTE" BY <1>5, <2>2 DEF TipoInv, OrdenesBien
    <3>2. CASE pedido[h].op = "actualizar"
      <4>1. SinFirmas(o) BY <1>2, <1>4, <3>2 DEF PedidoReg
      <4> QED BY <1>1, <3>1, <4>1, PendienteBien
    <3>3. CASE pedido[h].op = "firmar"
      <4>1. ~Firmada(o, "CANCEL") /\ (Firmada(o, "APPROVE") => Enviados(o, "CANCEL") # {})
        BY <1>1, <1>2, <1>4, <3>3 DEF PedidoReg, FirmarReg
      <4> QED BY <1>1, <3>1, <4>1 DEF EstatusBien, Firmada, Enviados, EnviadoAFirma
    <3> QED BY <1>4, <3>2, <3>3
  <2> QED BY <1>6, <2>1, <2>2
<1>10. pedido'[h].en = "libre" /\ \A g \in Hilos \ {h} : pedido'[g] = pedido[g]
  BY <1>1, ResponderHace DEF TipoInv
<1> QED BY <1>1, <1>7, <1>8, <1>9, <1>10, RegOrden

\* Every query of a request.
LEMMA RegAtender ==
  ASSUME TipoInv, RegularInv, NEW h \in Hilos, Atender(h)
  PROVE  RegularInv'
<1>1. ~EscribirCancelada(h) BY DEF EscribirCancelada, RegularInv, PedidosReg, PedidoReg
<1> QED BY <1>1, RegLeerFondos, RegEscribirReserva, RegLeerFolio, RegGuardarNueva, RegCrearServicios,
           RegLeerOrden, RegLeerContrato, RegBorrar, RegCambiarServicios, RegLeerFirmantes,
           RegGuardarDocumento, RegGuardar DEF Atender

\* Between requests, a document gets its ticket or is rejected, or a handler
\* saves it: it stays sent.
LEMMA RegDocumento ==
  ASSUME TipoInv, RegularInv, Turnos', \A h \in Hilos : pedido[h].en = "libre",
         UNCHANGED <<orden, pedido, paso>>,
         \A d \in Documentos : EnviadoAFirma(d)' <=> EnviadoAFirma(d),
         \A d \in Documentos : firma'[d].ticket => EnviadoAFirma(d),
         \A e \in Entregas : /\ entrega'[e].recibida = entrega[e].recibida
                             /\ entrega'[e].estatus = entrega[e].estatus
                             /\ entrega'[e].monto = entrega[e].monto
                             /\ entrega'[e].guardar => entrega[e].guardar
  PROVE  RegularInv'
<1>2. ASSUME NEW x, NEW accion
      PROVE  Enviados(x, accion)' = Enviados(x, accion) /\ (Firmada(x, accion)' <=> Firmada(x, accion))
  BY DEF Enviados, Firmada
<1>3. ASSUME NEW x \in Ordenes PROVE OrdenReg(x)'
  <2>1. OrdenReg(x) BY DEF RegularInv, OrdenesReg
  <2>2. SinFirmas(x)' <=> SinFirmas(x) BY <1>2 DEF SinFirmas
  <2>3. EstatusBien(x)' <=> EstatusBien(x) BY <1>2 DEF EstatusBien
  <2>4. Existe(x)' <=> Existe(x) BY DEF Existe
  <2>5. /\ Enviados(x, "CANCEL")' = Enviados(x, "CANCEL")
        /\ Firmada(x, "APPROVE")' <=> Firmada(x, "APPROVE")
    BY <1>2
  <2> QED BY <2>1, <2>2, <2>3, <2>4, <2>5 DEF OrdenReg
<1>4. FirmasReg'
  <2>1. ASSUME NEW e \in Entregas
        PROVE  /\ entrega'[e].recibida => EnviadoAFirma(e[1])'
               /\ EnMarcha(e)' => entrega'[e].recibida
               /\ entrega'[e].estatus > 0 /\ AccionDe(e[1]) = "APPROVE" =>
                    Enviados(OrdenDe(e[1]), "CANCEL")' = {}
    <3>1. EnMarcha(e)' => EnMarcha(e) BY DEF EnMarcha, Emitida
    <3>2. e[1] \in Documentos BY DEF Entregas
    <3>3. PICK x : x = OrdenDe(e[1]) OBVIOUS
    <3>4. Enviados(x, "CANCEL")' = Enviados(x, "CANCEL") BY <1>2
    <3> QED BY <3>1, <3>2, <3>3, <3>4 DEF RegularInv, FirmasReg
  <2>2. \A e \in Entregas : entrega'[e].estatus > 0 /\ AccionDe(e[1]) = "APPROVE" =>
          Enviados(OrdenDe(e[1]), "CANCEL")' = {}
    BY <2>1
  <2>3. \A d \in Documentos : firma'[d].ticket => EnviadoAFirma(d)' OBVIOUS
  <2>4. \A x, d \in Documentos : EnviadoAFirma(x)' /\ EnviadoAFirma(d)' /\ OrdenDe(x) = OrdenDe(d)
                                 /\ AccionDe(x) = AccionDe(d) => x = d
    BY DEF RegularInv, FirmasReg
  <2> QED BY <2>1, <2>2, <2>3, <2>4 DEF FirmasReg
<1>5. PedidosReg' BY DEF PedidosReg
<1> QED BY <1>3, <1>4, <1>5 DEF RegularInv, OrdenesReg

\* The provider gives the ticket, and may reject the document.
LEMMA RegProveedor ==
  ASSUME TipoInv, RegularInv, Serial, NEW d \in Documentos, EnviarAFirmamex(d) \/ RecibirRechazo(d)
  PROVE  RegularInv'
<1>1. /\ Quieto /\ UNCHANGED <<orden, pedido, paso, entrega>>
      /\ firma[d].estatus = "PENDIENTE_DE_FIRMA"
      /\ \/ firma' = [firma EXCEPT ![d].ticket = TRUE]
         \/ firma' = [firma EXCEPT ![d].estatus = "CANCELADA"]
  BY DEF EnviarAFirmamex, RecibirRechazo, Abierto, vars, varsLibro
<1>2. /\ \A x \in Documentos : x # d => firma'[x] = firma[x]
      /\ firma'[d].estatus \in {"PENDIENTE_DE_FIRMA", "CANCELADA"}
  BY <1>1 DEF TipoInv, FirmasBien
<1>3. \A x \in Documentos : EnviadoAFirma(x)' <=> EnviadoAFirma(x)
  BY <1>1, <1>2 DEF EnviadoAFirma
<1>4. \A x \in Documentos : firma'[x].ticket => EnviadoAFirma(x)
  BY <1>1, <1>2 DEF EnviadoAFirma, RegularInv, FirmasReg
<1>5. Turnos' BY <1>1 DEF RegularInv, Turnos, EnMarcha, Emitida
<1>6. \A h \in Hilos : pedido[h].en = "libre" BY <1>1, NadaEnPedidos DEF RegularInv
<1> QED BY <1>1, <1>3, <1>4, <1>5, <1>6, RegDocumento

\* A notification arrives: nothing else is at work, and it is the first one of
\* its order and action.
LEMMA RegRecibir ==
  ASSUME TipoInv, RegularInv, Serial, MaxEntregas <= 1, NEW c \in Entregas, RecibirCompletado(c)
  PROVE  RegularInv'
<1> DEFINE estatus == IF AccionDe(c[1]) = "APPROVE" THEN 2 ELSE 1
           r == [recibida |-> TRUE, monto |-> TRUE, guardar |-> TRUE, estatus |-> estatus]
<1>1. /\ Quieto /\ UNCHANGED <<orden, pedido, firma, paso>>
      /\ firma[c[1]].ticket /\ ~entrega[c].recibida /\ entrega' = [entrega EXCEPT ![c] = r]
  BY DEF RecibirCompletado, Abierto, varsLibro
<1>2. /\ entrega'[c].recibida /\ entrega'[c].estatus > 0
      /\ \A e \in Entregas \ {c} : entrega'[e] = entrega[e]
  <2>1. r.recibida /\ r.estatus > 0 OBVIOUS
  <2> HIDE DEF r
  <2> QED BY <1>1, <2>1 DEF TipoInv, EntregasBien
<1> HIDE DEF r
<1>3. Turnos' BY <1>1, <1>2, TurnosEntrega DEF RegularInv
<1>4. c[1] \in Documentos /\ EnviadoAFirma(c[1])
  BY <1>1 DEF Entregas, RegularInv, FirmasReg
<1>5. ASSUME NEW x, NEW accion
      PROVE  /\ Enviados(x, accion)' = Enviados(x, accion)
             /\ Firmada(x, accion) => Firmada(x, accion)'
             /\ ~ (x = OrdenDe(c[1]) /\ accion = AccionDe(c[1])) =>
                  (Firmada(x, accion)' <=> Firmada(x, accion))
  BY <1>1, <1>2 DEF Enviados, EnviadoAFirma, Firmada
<1>6. ASSUME NEW x \in Ordenes PROVE OrdenReg(x)'
  <2>1. OrdenReg(x) BY DEF RegularInv, OrdenesReg
  <2>2. (SinFirmas(x)' <=> SinFirmas(x)) /\ (Existe(x)' <=> Existe(x))
    BY <1>1, <1>5 DEF SinFirmas, Existe
  <2>3. /\ Enviados(x, "CANCEL")' = Enviados(x, "CANCEL")
        /\ Firmada(x, "APPROVE") => Firmada(x, "APPROVE")'
    BY <1>5
  <2>4. ASSUME \A e \in Entregas : OrdenDe(e[1]) = x => entrega'[e].estatus = 0
        PROVE  EstatusBien(x)'
    <3>1. x # OrdenDe(c[1]) BY <1>2, <2>4
    <3>2. EstatusBien(x) BY <1>1, <2>1, NadaEnMarcha DEF OrdenReg, RegularInv
    <3>3. /\ Firmada(x, "APPROVE")' <=> Firmada(x, "APPROVE")
          /\ Firmada(x, "CANCEL")' <=> Firmada(x, "CANCEL")
      BY <1>5, <3>1
    <3> QED BY <1>1, <2>3, <3>2, <3>3 DEF EstatusBien
  <2> QED BY <2>1, <2>2, <2>3, <2>4 DEF OrdenReg
<1>7. FirmasReg'
  <2>1. ASSUME NEW e \in Entregas, e # c
        PROVE  /\ entrega'[e].recibida => EnviadoAFirma(e[1])'
               /\ ~EnMarcha(e)' /\ ~ (entrega'[e].estatus > 0)
    <3>1. ~EnMarcha(e) /\ entrega[e].estatus = 0 BY <1>1, NadaEnMarcha DEF RegularInv
    <3>2. ~EnMarcha(e)' BY <1>1, <1>2, <2>1, <3>1 DEF EnMarcha, Emitida
    <3> QED BY <1>1, <1>2, <2>1, <3>1, <3>2 DEF RegularInv, FirmasReg, EnviadoAFirma
  <2>2. EnviadoAFirma(c[1])' BY <1>1, <1>4 DEF EnviadoAFirma
  <2>3. AccionDe(c[1]) = "APPROVE" => Enviados(OrdenDe(c[1]), "CANCEL") = {}
    <3> SUFFICES ASSUME AccionDe(c[1]) = "APPROVE", Enviados(OrdenDe(c[1]), "CANCEL") # {}
                 PROVE  FALSE
      OBVIOUS
    <3>1. PICK o : o = OrdenDe(c[1]) OBVIOUS
    <3>2. o \in Ordenes BY <1>4, <3>1 DEF Documentos, OrdenDe
    <3>3. Firmada(o, "APPROVE") BY <3>1, <3>2 DEF RegularInv, OrdenesReg, OrdenReg
    <3>4. PICK e \in Entregas : /\ entrega[e].recibida
                                /\ OrdenDe(e[1]) = o /\ AccionDe(e[1]) = "APPROVE"
      BY <3>3 DEF Firmada
    <3>5. e[1] \in Documentos /\ EnviadoAFirma(e[1])
      BY <3>4 DEF Entregas, RegularInv, FirmasReg
    <3>6. e[1] = c[1] BY <1>4, <3>1, <3>4, <3>5 DEF RegularInv, FirmasReg
    <3>7. e[2] = c[2]
      <4>1. e[2] \in 1..MaxEntregas /\ c[2] \in 1..MaxEntregas /\ MaxEntregas \in Nat
        BY OrdenesAssumption DEF Entregas
      <4> QED BY <4>1
    <3>8. e = c BY <3>6, <3>7 DEF Entregas
    <3> QED BY <1>1, <3>4, <3>8
  <2>4. PICK o : o = OrdenDe(c[1]) OBVIOUS
  <2>5. AccionDe(c[1]) = "APPROVE" => Enviados(o, "CANCEL")' = {} BY <1>5, <2>3, <2>4
  <2>6. \A x, d \in Documentos : EnviadoAFirma(x)' /\ EnviadoAFirma(d)' /\ OrdenDe(x) = OrdenDe(d)
                                 /\ AccionDe(x) = AccionDe(d) => x = d
    BY <1>1 DEF RegularInv, FirmasReg, EnviadoAFirma
  <2>7. \A d \in Documentos : firma'[d].ticket => EnviadoAFirma(d)'
    BY <1>1 DEF RegularInv, FirmasReg, EnviadoAFirma
  <2>8. ASSUME NEW e \in Entregas
        PROVE  /\ entrega'[e].recibida => EnviadoAFirma(e[1])'
               /\ EnMarcha(e)' => entrega'[e].recibida
               /\ entrega'[e].estatus > 0 /\ AccionDe(e[1]) = "APPROVE" =>
                    Enviados(OrdenDe(e[1]), "CANCEL")' = {}
    BY <1>2, <2>1, <2>2, <2>4, <2>5
  <2> QED BY <2>6, <2>7, <2>8 DEF FirmasReg
<1>8. PedidosReg' BY <1>1, NadaEnPedidos DEF PedidosReg, RegularInv
<1> QED BY <1>3, <1>6, <1>7, <1>8 DEF RegularInv, OrdenesReg

\* The handler saves its document.
LEMMA RegGuardarFirma ==
  ASSUME TipoInv, RegularInv, NEW c \in Entregas, GuardarFirma(c)
  PROVE  RegularInv'
<1>1. /\ entrega[c].guardar /\ UNCHANGED <<orden, pedido, paso>>
      /\ firma' = [firma EXCEPT ![c[1]].estatus = "APROBADA"]
      /\ entrega' = [entrega EXCEPT ![c].guardar = FALSE]
  BY DEF GuardarFirma, vars
<1>2. EnMarcha(c) /\ c[1] \in Documentos BY <1>1 DEF EnMarcha, Emitida, Entregas
<1>3. entrega[c].recibida /\ EnviadoAFirma(c[1]) BY <1>2 DEF RegularInv, FirmasReg
<1>4. /\ firma'[c[1]].estatus = "APROBADA" /\ firma'[c[1]].ticket = firma[c[1]].ticket
      /\ \A x \in Documentos : x # c[1] => firma'[x] = firma[x]
  BY <1>1, <1>2 DEF TipoInv, FirmasBien
<1>5. \A x \in Documentos : EnviadoAFirma(x)' <=> EnviadoAFirma(x)
  BY <1>3, <1>4 DEF EnviadoAFirma
<1>6. \A x \in Documentos : firma'[x].ticket => EnviadoAFirma(x)
  BY <1>3, <1>4 DEF RegularInv, FirmasReg
<1>7. /\ \A e \in Entregas \ {c} : entrega'[e] = entrega[e]
      /\ entrega'[c].recibida = entrega[c].recibida /\ entrega'[c].estatus = entrega[c].estatus
      /\ entrega'[c].monto = entrega[c].monto /\ ~entrega'[c].guardar
  BY <1>1 DEF TipoInv, EntregasBien
<1>8. Turnos' BY <1>1, <1>2, <1>7, TurnosEntrega DEF RegularInv
<1>9. \A h \in Hilos : pedido[h].en = "libre" BY <1>2, NadaEnPedidos DEF RegularInv
<1> QED BY <1>1, <1>5, <1>6, <1>7, <1>8, <1>9, RegDocumento

\* A handler reads its order, or a step of its activation: neither changes what
\* the orders and the documents are.
LEMMA RegLibro ==
  ASSUME TipoInv, RegularInv, NEW c \in Entregas, EnMarcha(c), UNCHANGED <<orden, pedido, firma>>,
         \A e \in Entregas : /\ entrega'[e].recibida = entrega[e].recibida
                             /\ entrega'[e].estatus = entrega[e].estatus
                             /\ e # c => entrega'[e] = entrega[e] /\ paso'[e] = paso[e]
  PROVE  RegularInv'
<1>1. Turnos' BY TurnosEntrega DEF RegularInv
<1>2. ASSUME NEW x, NEW accion
      PROVE  Enviados(x, accion)' = Enviados(x, accion) /\ (Firmada(x, accion)' <=> Firmada(x, accion))
  BY DEF Enviados, EnviadoAFirma, Firmada
<1>3. ASSUME NEW x \in Ordenes PROVE OrdenReg(x)'
  <2>1. OrdenReg(x) BY DEF RegularInv, OrdenesReg
  <2>2. (SinFirmas(x)' <=> SinFirmas(x)) /\ (Existe(x)' <=> Existe(x))
    BY <1>2 DEF SinFirmas, Existe
  <2>3. EstatusBien(x)' <=> EstatusBien(x) BY <1>2 DEF EstatusBien
  <2>4. /\ Enviados(x, "CANCEL")' = Enviados(x, "CANCEL")
        /\ Firmada(x, "APPROVE")' <=> Firmada(x, "APPROVE")
    BY <1>2
  <2> QED BY <2>1, <2>2, <2>3, <2>4 DEF OrdenReg
<1>4. FirmasReg'
  <2>1. ASSUME NEW e \in Entregas
        PROVE  /\ entrega'[e].recibida => EnviadoAFirma(e[1])'
               /\ EnMarcha(e)' => entrega'[e].recibida
               /\ entrega'[e].estatus > 0 /\ AccionDe(e[1]) = "APPROVE" =>
                    Enviados(OrdenDe(e[1]), "CANCEL")' = {}
    <3>1. EnMarcha(e)' => EnMarcha(e) BY DEF EnMarcha, Emitida
    <3>2. PICK x : x = OrdenDe(e[1]) OBVIOUS
    <3>3. Enviados(x, "CANCEL")' = Enviados(x, "CANCEL") BY <1>2
    <3>4. EnviadoAFirma(e[1])' <=> EnviadoAFirma(e[1]) BY DEF EnviadoAFirma
    <3> QED BY <3>1, <3>2, <3>3, <3>4 DEF RegularInv, FirmasReg
  <2>2. \A x, d \in Documentos : EnviadoAFirma(x)' /\ EnviadoAFirma(d)' /\ OrdenDe(x) = OrdenDe(d)
                                 /\ AccionDe(x) = AccionDe(d) => x = d
    BY DEF RegularInv, FirmasReg, EnviadoAFirma
  <2>3. \A d \in Documentos : firma'[d].ticket => EnviadoAFirma(d)'
    BY DEF RegularInv, FirmasReg, EnviadoAFirma
  <2> QED BY <2>1, <2>2, <2>3 DEF FirmasReg
<1>5. PedidosReg' BY NadaEnPedidos DEF PedidosReg, RegularInv
<1> QED BY <1>1, <1>3, <1>4, <1>5 DEF RegularInv, OrdenesReg

\* The ledger's handler reads the order.
LEMMA RegLeerOrdenDeEntrega ==
  ASSUME TipoInv, RegularInv, NEW c \in Entregas, LeerOrdenDeEntrega(c)
  PROVE  RegularInv'
<1>0. Entregas = Tareas BY EntregasAssumption
<1>1. /\ entrega[c].monto /\ UNCHANGED <<orden, pedido, firma>>
      /\ entrega' = [entrega EXCEPT ![c].monto = FALSE]
      /\ UNCHANGED varsLibro \/ \E ll : Arrancar(c, ll)
  BY DEF LeerOrdenDeEntrega
<1>2. EnMarcha(c) BY <1>1 DEF EnMarcha, Emitida
<1>3. \A e \in Entregas : /\ entrega'[e].recibida = entrega[e].recibida
                          /\ entrega'[e].estatus = entrega[e].estatus
                          /\ e # c => entrega'[e] = entrega[e]
  BY <1>1 DEF TipoInv, EntregasBien
<1>4. \A e \in Entregas : e # c => paso'[e] = paso[e]
  <2>1. CASE UNCHANGED varsLibro BY <2>1 DEF varsLibro
  <2>2. CASE \E ll : Arrancar(c, ll) BY <1>0, <2>2 DEF Arrancar, TipoInv, TypeOK
  <2> QED BY <1>1, <2>1, <2>2
<1> QED BY <1>1, <1>2, <1>3, <1>4, RegLibro

\* A step of the activation.
LEMMA RegAvanzar ==
  ASSUME TipoInv, RegularInv, NEW c \in Entregas, AvanzarLibro(c)
  PROVE  RegularInv'
<1>0. Entregas = Tareas BY EntregasAssumption
<1>1. Avanzar(c) /\ UNCHANGED <<orden, pedido, firma, entrega>>
  BY DEF AvanzarLibro, varsOrden
<1>2. paso[c] # "libre" /\ \A e \in Entregas : e # c => paso'[e] = paso[e]
  BY <1>0, <1>1 DEF Avanzar, LeerMaestro, LeerContratos, LeerModificatorio, EscribirContrato,
                    EscribirFondo, TrasLeer, SiguienteCargo, Terminar, TipoInv, TypeOK
<1>3. EnMarcha(c) BY <1>2 DEF EnMarcha
<1> QED BY <1>1, <1>2, <1>3, RegLibro

\* The status's handler writes the status: after its last UPDATE it is right.
LEMMA RegEscribirEstatus ==
  ASSUME TipoInv, RegularInv, NEW c \in Entregas, EscribirEstatus(c)
  PROVE  RegularInv'
<1> DEFINE r == [orden EXCEPT ![OrdenDe(c[1])].estatus = EstatusDe(c[1])]
<1>1. PICK o \in Ordenes : o = OrdenDe(c[1]) BY DEF Entregas, Documentos, OrdenDe
<1>2. entrega[c].estatus > 0 /\ UNCHANGED <<paso, pedido, firma>>
  BY DEF EscribirEstatus, vars
<1>3. EnMarcha(c) /\ entrega[c].recibida /\ c[1] \in Documentos
  BY <1>2 DEF EnMarcha, Emitida, RegularInv, FirmasReg, Entregas
<1>4. EnviadoAFirma(c[1]) /\ c[1] \in Enviados(o, AccionDe(c[1]))
  BY <1>1, <1>3 DEF RegularInv, FirmasReg, Enviados
<1>5. AccionDe(c[1]) = "APPROVE" \/ AccionDe(c[1]) = "CANCEL"
  BY <1>3 DEF Documentos, AccionDe, Acciones
<1>6. Existe(o)
  <2>1. OrdenReg(o) BY DEF RegularInv, OrdenesReg
  <2> QED BY <1>4, <1>5, <2>1 DEF OrdenReg, SinFirmas, Acciones
<1>7. /\ orden' = [orden EXCEPT ![o].estatus = EstatusDe(c[1])]
      /\ entrega' = [entrega EXCEPT ![c].estatus = @ - 1]
  BY <1>1, <1>6 DEF EscribirEstatus
<1>8. /\ orden'[o].estatus = EstatusDe(c[1]) /\ orden'[o].existe = orden[o].existe
      /\ \A x \in Ordenes : x # o => orden'[x] = orden[x]
  BY <1>7 DEF TipoInv, OrdenesBien, FilaOrden
<1>9. /\ \A e \in Entregas : e # c => entrega'[e] = entrega[e]
      /\ entrega'[c].recibida = entrega[c].recibida
      /\ entrega'[c].estatus > 0 => entrega[c].estatus > 0
  BY <1>7 DEF TipoInv, EntregasBien
<1>10. Turnos' BY <1>2, <1>3, <1>9, TurnosEntrega DEF RegularInv
<1>11. ASSUME NEW x, NEW accion
       PROVE  Enviados(x, accion)' = Enviados(x, accion) /\ (Firmada(x, accion)' <=> Firmada(x, accion))
  BY <1>2, <1>9 DEF Enviados, EnviadoAFirma, Firmada
<1>12. Firmada(o, AccionDe(c[1])) BY <1>1, <1>3 DEF Firmada
<1>13. EstatusBien(o)'
  <2>1. CASE AccionDe(c[1]) = "APPROVE"
    <3>1. Enviados(o, "CANCEL") = {} BY <1>1, <1>2, <2>1 DEF RegularInv, FirmasReg
    <3>2. ~Firmada(o, "CANCEL") /\ Firmada(o, "APPROVE")
      BY <1>12, <2>1, <3>1, SinFirmada DEF RegularInv
    <3>3. orden'[o].estatus = "ACTIVA" BY <1>8, <2>1 DEF EstatusDe
    <3>4. ~Firmada(o, "CANCEL")' /\ Firmada(o, "APPROVE")' BY <1>11, <3>2
    <3> QED BY <3>3, <3>4 DEF EstatusBien
  <2>2. CASE AccionDe(c[1]) = "CANCEL"
    <3>1. orden'[o].estatus = "CANCELADA" BY <1>8, <2>2 DEF EstatusDe
    <3>2. Enviados(o, "CANCEL")' # {} BY <1>4, <1>11, <2>2
    <3> QED BY <3>1, <3>2 DEF EstatusBien
  <2> QED BY <1>5, <2>1, <2>2
<1>14. ASSUME NEW x \in Ordenes PROVE OrdenReg(x)'
  <2>1. OrdenReg(x) BY DEF RegularInv, OrdenesReg
  <2>2. (SinFirmas(x)' <=> SinFirmas(x)) /\ (Existe(x)' <=> Existe(x))
    BY <1>8, <1>11 DEF SinFirmas, Existe
  <2>3. /\ Enviados(x, "CANCEL")' = Enviados(x, "CANCEL")
        /\ Firmada(x, "APPROVE")' <=> Firmada(x, "APPROVE")
        /\ Firmada(x, "CANCEL")' <=> Firmada(x, "CANCEL")
    BY <1>11
  <2>4. ASSUME \A e \in Entregas : OrdenDe(e[1]) = x => entrega'[e].estatus = 0
        PROVE  EstatusBien(x)'
    <3>1. CASE x = o BY <1>13, <3>1
    <3>2. CASE x # o
      <4>1. \A e \in Entregas : OrdenDe(e[1]) = x => entrega[e].estatus = 0
        BY <1>1, <1>9, <2>4, <3>2
      <4>2. EstatusBien(x) BY <2>1, <4>1 DEF OrdenReg
      <4> QED BY <1>8, <2>3, <3>2, <4>2 DEF EstatusBien
    <3> QED BY <3>1, <3>2
  <2> QED BY <2>1, <2>2, <2>3, <2>4 DEF OrdenReg
<1>15. FirmasReg'
  <2>1. ASSUME NEW e \in Entregas
        PROVE  /\ entrega'[e].recibida => EnviadoAFirma(e[1])'
               /\ EnMarcha(e)' => entrega'[e].recibida
               /\ entrega'[e].estatus > 0 /\ AccionDe(e[1]) = "APPROVE" =>
                    Enviados(OrdenDe(e[1]), "CANCEL")' = {}
    <3>1. EnMarcha(e)' => EnMarcha(e) BY <1>2, <1>3, <1>9 DEF EnMarcha, Emitida
    <3>2. PICK x : x = OrdenDe(e[1]) OBVIOUS
    <3>3. Enviados(x, "CANCEL")' = Enviados(x, "CANCEL") BY <1>11
    <3>4. EnviadoAFirma(e[1])' <=> EnviadoAFirma(e[1]) BY <1>2 DEF EnviadoAFirma
    <3>5. entrega'[e].recibida = entrega[e].recibida BY <1>9
    <3>6. entrega'[e].estatus > 0 => entrega[e].estatus > 0 BY <1>9
    <3> QED BY <3>1, <3>2, <3>3, <3>4, <3>5, <3>6 DEF RegularInv, FirmasReg
  <2>2. \A x, d \in Documentos : EnviadoAFirma(x)' /\ EnviadoAFirma(d)' /\ OrdenDe(x) = OrdenDe(d)
                                 /\ AccionDe(x) = AccionDe(d) => x = d
    BY <1>2 DEF RegularInv, FirmasReg, EnviadoAFirma
  <2>3. \A d \in Documentos : firma'[d].ticket => EnviadoAFirma(d)'
    BY <1>2 DEF RegularInv, FirmasReg, EnviadoAFirma
  <2> QED BY <2>1, <2>2, <2>3 DEF FirmasReg
<1>16. PedidosReg' BY <1>2, <1>3, NadaEnPedidos DEF PedidosReg, RegularInv
<1> QED BY <1>10, <1>14, <1>15, <1>16 DEF RegularInv, OrdenesReg

\* Every step keeps the signing flow.
LEMMA RegSiguiente ==
  ASSUME Regular, TipoInv, RegularInv, [NextOrden]_todas
  PROVE  RegularInv'
<1>1. Serial /\ ClienteRegular /\ ~ConFallos /\ MaxEntregas <= 1 BY DEF Regular
<1>2. CASE UNCHANGED todas
  <2>1. UNCHANGED <<orden, pedido, firma, entrega, paso>>
    BY <1>2 DEF todas, vars, varsOrden
  <2>2. Turnos' BY <2>1 DEF RegularInv, Turnos, EnMarcha, Emitida
  <2>3. OrdenesReg'
    BY <2>1 DEF RegularInv, OrdenesReg, OrdenReg, Existe, SinFirmas, Enviados, EnviadoAFirma, Firmada,
                EstatusBien
  <2>4. FirmasReg'
    BY <2>1 DEF RegularInv, FirmasReg, EnMarcha, Emitida, Enviados, EnviadoAFirma
  <2>5. PedidosReg'
    BY <2>1 DEF RegularInv, PedidosReg, PedidoReg, FirmarReg, Existe, SinFirmas, Enviados,
                EnviadoAFirma, EnvioRegular, Firmada
  <2> QED BY <2>2, <2>3, <2>4, <2>5 DEF RegularInv
<1>3. ~CaerServidor /\ (\A h \in Hilos : ~FallarPedido(h)) /\ (\A e \in Entregas : ~FallarEntrega(e))
  BY <1>1 DEF CaerServidor, FallarPedido, FallarEntrega
<1> QED BY <1>1, <1>2, <1>3, RegCrear, RegSobre, RegFirma, RegAtender, RegProveedor, RegRecibir,
           RegGuardarFirma, RegLeerOrdenDeEntrega, RegEscribirEstatus, RegAvanzar DEF NextOrden

\* It holds of an empty contract.
LEMMA RegInicial == ASSUME InitOrden PROVE RegularInv
<1>1. /\ \A h \in Hilos : pedido[h].en = "libre"
      /\ \A e \in Entregas : /\ ~EnMarcha(e) /\ ~entrega[e].recibida /\ entrega[e].estatus = 0
      /\ \A d \in Documentos : ~EnviadoAFirma(d) /\ ~firma[d].ticket
      /\ \A o \in Ordenes : orden[o].estatus = "PENDIENTE"
  BY EntregasAssumption DEF InitOrden, Init, SinPedido, SinEntrega, SinOrden, EnMarcha, Emitida,
                            EnviadoAFirma
<1>2. \A o, accion : Enviados(o, accion) = {} /\ ~Firmada(o, accion)
  BY <1>1 DEF Enviados, Firmada
<1>3. OrdenesReg BY <1>1, <1>2 DEF OrdenesReg, OrdenReg, EstatusBien, SinFirmas
<1>4. FirmasReg /\ PedidosReg /\ Turnos BY <1>1 DEF FirmasReg, PedidosReg, Turnos
<1> QED BY <1>3, <1>4 DEF RegularInv

\* The signing flow is kept.
LEMMA RegularSiempre == ASSUME Regular PROVE SpecOrden => []RegularInv
<1>1. InitOrden => RegularInv BY RegInicial
<1>2. TipoInv /\ RegularInv /\ [NextOrden]_todas => RegularInv' BY RegSiguiente
<1> QED BY <1>1, <1>2, TipoInvSiempre, PTL DEF SpecOrden

\* When requests and notifications take turns and each document is notified
\* once, the status of an order is what its signatures say, in whatever order
\* the handlers of a notification run, unless a cancellation waits for its own.
THEOREM EstatusSiempre == ASSUME Regular PROVE SpecOrden => []EstatusSegunFirmas
<1>1. TipoInv /\ RegularInv => EstatusSegunFirmas
  <2> SUFFICES ASSUME TipoInv, RegularInv, Quieto, NEW o \in Ordenes
               PROVE  EstatusBien(o)
    BY DEF EstatusSegunFirmas, EstatusBien
  <2> QED BY NadaEnMarcha DEF RegularInv, OrdenesReg, OrdenReg
<1> QED BY <1>1, TipoInvSiempre, RegularSiempre, PTL

----
(* What charges and orders add up to. *)

\* Charges that are not negative add up to what is not negative.
LEMMA ImporteNatural ==
  ASSUME NEW cs \in Seq(Cargo), CargosBien(cs, Nat), NEW f
  PROVE  ImporteA(cs, f) \in Nat
<1> DEFINE m == [j \in DOMAIN cs |-> cs[j].monto]
           cero == [j \in DOMAIN cs |-> 0]
           I == {j \in DOMAIN cs : cs[j].fondo = f}
<1>1. IsFiniteSet(I) BY IndicesDeCargos, FS_Subset
<1>2. \A j \in I : cero[j] \in Int /\ m[j] \in Int /\ cero[j] <= m[j] /\ cero[j] = 0
  BY DEF CargosBien
<1>3. ImporteA(cs, f) = SumFunctionOnSet(m, I) /\ ImporteA(cs, f) \in Int
  BY ImporteEntero DEF ImporteA
<1> HIDE DEF m, cero, I
<1>4. SumFunctionOnSet(cero, I) = 0 /\ SumFunctionOnSet(cero, I) <= SumFunctionOnSet(m, I)
  BY <1>1, <1>2, SumaCeros, SumaMenor
<1> QED BY <1>3, <1>4

\* What an order takes from a fund.
LEMMA ParteNatural ==
  ASSUME NEW fila \in FilaOrden, FilaBien(fila, Nat), NEW f
  PROVE  /\ Parte(fila, f) \in Nat /\ Cargos(fila) \in Seq(Cargo) /\ CargosBien(Cargos(fila), Nat)
<1>1. Cargos(fila) \in Seq(Cargo) BY CargosTipo
<1>2. CargosBien(Cargos(fila), Nat) BY CargosDeFila
<1> QED BY <1>1, <1>2, ImporteNatural DEF Parte

\* What orders take, for any rows r of the orders.
SumaEn(r, os, f) == SumFunctionOnSet([o \in os |-> Parte(r[o], f)], os)

\* The same orders with the same charges.
LEMMA SumaMisma ==
  ASSUME NEW os, os \subseteq Ordenes, NEW r, NEW q, NEW f,
         \A o \in os : Parte(q[o], f) = Parte(r[o], f)
  PROVE  SumaEn(q, os, f) = SumaEn(r, os, f)
<1> DEFINE a == [o \in os |-> Parte(r[o], f)]
           b == [o \in os |-> Parte(q[o], f)]
<1>1. IsFiniteSet(os) BY OrdenesAssumption, FS_Subset
<1>2. \A o \in os : b[o] = a[o] OBVIOUS
<1>3. SumaEn(r, os, f) = SumFunctionOnSet(a, os) /\ SumaEn(q, os, f) = SumFunctionOnSet(b, os)
  BY DEF SumaEn
<1> HIDE DEF a, b
<1> QED BY <1>1, <1>2, <1>3, SumaIgual

\* Orders take nothing negative.
LEMMA SumaNatural ==
  ASSUME NEW os, os \subseteq Ordenes, NEW r, NEW f, \A o \in os : Parte(r[o], f) \in Nat
  PROVE  SumaEn(r, os, f) \in Nat
<1> DEFINE a == [o \in os |-> Parte(r[o], f)]
           cero == [o \in os |-> 0]
<1>1. IsFiniteSet(os) BY OrdenesAssumption, FS_Subset
<1>2. \A o \in os : cero[o] = 0 /\ cero[o] \in Int /\ a[o] \in Int /\ cero[o] <= a[o]
  OBVIOUS
<1>3. SumaEn(r, os, f) = SumFunctionOnSet(a, os) BY DEF SumaEn
<1> HIDE DEF a, cero
<1>4. /\ SumFunctionOnSet(cero, os) = 0 /\ SumFunctionOnSet(cero, os) <= SumFunctionOnSet(a, os)
      /\ SumFunctionOnSet(a, os) \in Int
  BY <1>1, <1>2, SumaCeros, SumaMenor, SumaEntera
<1> QED BY <1>3, <1>4

\* One more order.
LEMMA SumaConOtra ==
  ASSUME NEW os, os \subseteq Ordenes, NEW r, NEW q, NEW f, NEW x \in Ordenes, x \notin os,
         \A o \in os : Parte(q[o], f) = Parte(r[o], f) /\ Parte(r[o], f) \in Nat,
         Parte(q[x], f) \in Nat
  PROVE  SumaEn(q, os \cup {x}, f) = SumaEn(r, os, f) + Parte(q[x], f)
<1> DEFINE a == [o \in os |-> Parte(r[o], f)]
           t == os \cup {x}
           b == [o \in t |-> Parte(q[o], f)]
<1>1. IsFiniteSet(os) BY OrdenesAssumption, FS_Subset
<1>2. /\ \A o \in os : a[o] = b[o] /\ b[o] \in Int
      /\ b[x] = Parte(q[x], f) /\ b[x] \in Int
  OBVIOUS
<1>3. SumaEn(r, os, f) = SumFunctionOnSet(a, os) /\ SumaEn(q, t, f) = SumFunctionOnSet(b, t)
  BY DEF SumaEn
<1> HIDE DEF a, b
<1>4. SumFunctionOnSet(b, t) = SumFunctionOnSet(a, os) + b[x] BY <1>1, <1>2, SumaDeMas
<1> QED BY <1>2, <1>3, <1>4

----
(* The amounts of the funds. *)

\* What the theorems about amounts assume besides: amounts in cents, funds that
\* start with something to give, and no change of the total of an order, which
\* does not follow its breakdown.
Dinero ==
  /\ Regular /\ Centavo = 1 /\ "actualizar" \notin Operaciones
  /\ \A f \in Fondos : Techo[f] \in Nat

\* What the orders that wait for a signature, and the active ones, took.
Reservado(f) == SumaDe(Reservadas, f)
Activado(f) == SumaDe(Activas, f)

\* A create adds its order to the reservations, a remove takes it out; while it
\* writes the funds, those that it has written are ahead of the orders.
ConSigno(q, f) == IF q.op = "crear" THEN Parte(q.fila, f) ELSE - Parte(q.fila, f)
EnCurso(q, f) ==
  IF q.en \in {"comprometer", "folio", "guardarNueva", "borrar"} /\
     \A i \in DOMAIN q.escrituras : q.escrituras[i].fondo # f
  THEN ConSigno(q, f) ELSE 0

\* What the handler of a notification has not yet moved, from committed to
\* active when it is an approval and from active when it is a cancellation.
PorAplicar(e, f) ==
  IF entrega[e].monto THEN Parte(orden[OrdenDe(e[1])], f)
  ELSE IF paso[e] # "libre" THEN ImporteA(llamada[e].cargos, f) ELSE 0

\* Committed and active are what the orders say but for r and s.
Cuadra(f, r, s) ==
  /\ fondo[f]["committedAmount"] = Reservado(f) + r
  /\ fondo[f]["montoActivo"] = Activado(f) + s

CuadraEntrega(e, f) ==
  IF AccionDe(e[1]) = "APPROVE" THEN Cuadra(f, PorAplicar(e, f), - PorAplicar(e, f))
  ELSE Cuadra(f, 0, PorAplicar(e, f))

\* What a request is about to write is what the orders will say.
EscriturasBien(q) ==
  /\ Distintos(q.escrituras)
  /\ \A i \in DOMAIN q.escrituras :
       LET f == q.escrituras[i].fondo
       IN  /\ q.escrituras[i].valor = Reservado(f) + ConSigno(q, f)
           /\ q.escrituras[i].valor \in 0..fondo[f]["montoDisponible"]

PedidoLibro(q) ==
  /\ q.op # "actualizar"
  /\ q.en = "comprometer" => EscriturasBien(q)
  /\ q.en \in {"folio", "guardarNueva", "borrar"} => q.escrituras = <<>>
  /\ q.en = "guardarNueva" => q.fila.folio \notin Folios
  /\ q.op # "crear" /\ q.en # "orden" => Cargos(q.fila) = Cargos(orden[q.orden])

FondosBien ==
  \A f \in Fondos : /\ fondo[f]["committedAmount"] \in Nat
                    /\ fondo[f]["committedAmount"] <= fondo[f]["montoDisponible"]

LibroInv ==
  /\ FondosBien
  /\ Quieto => \A f \in Fondos : Cuadra(f, 0, 0)
  /\ \A h \in Hilos : pedido[h].en # "libre" =>
       PedidoLibro(pedido[h]) /\ \A f \in Fondos : Cuadra(f, EnCurso(pedido[h], f), 0)
  /\ \A e \in Entregas : EnMarcha(e) =>
       /\ \A f \in Fondos : CuadraEntrega(e, f)
       /\ paso[e] \in {"escribirContrato", "escribirFondo"} =>
            visto[e].fondo = fondo[CargoDe(e).fondo]

\* The sums are of amounts that are not negative.
LEMMA SumasBien ==
  ASSUME TipoInv, CargadoInv(Nat), NEW f
  PROVE  /\ \A o \in Ordenes : Parte(orden[o], f) \in Nat
         /\ Reservado(f) \in Nat /\ Activado(f) \in Nat
         /\ Reservado(f) = SumaEn(orden, Reservadas, f) /\ Activado(f) = SumaEn(orden, Activas, f)
         /\ Reservadas \subseteq Ordenes /\ Activas \subseteq Ordenes
<1>1. \A o \in Ordenes : Parte(orden[o], f) \in Nat
  BY ParteNatural DEF TipoInv, OrdenesBien, CargadoInv
<1>2. Reservadas \subseteq Ordenes /\ Activas \subseteq Ordenes BY DEF Reservadas, Activas
<1>3. Reservado(f) = SumaEn(orden, Reservadas, f) /\ Activado(f) = SumaEn(orden, Activas, f)
  BY DEF Reservado, Activado, SumaDe, SumaEn
<1>4. SumaEn(orden, Reservadas, f) \in Nat /\ SumaEn(orden, Activas, f) \in Nat
  BY <1>1, <1>2, SumaNatural
<1> QED BY <1>1, <1>2, <1>3, <1>4

\* The orders take the same when their charges, whether they exist and their
\* signatures stay as they were.
LEMMA MismasSumas ==
  ASSUME TipoInv, CargadoInv(Nat), NEW f,
         \A o \in Ordenes : Cargos(orden'[o]) = Cargos(orden[o]) /\ (Existe(o)' <=> Existe(o)),
         \A o \in Ordenes, accion \in Acciones : Firmada(o, accion)' <=> Firmada(o, accion)
  PROVE  Reservado(f)' = Reservado(f) /\ Activado(f)' = Activado(f)
<1>1. Reservadas' = Reservadas /\ Activas' = Activas BY DEF Reservadas, Activas, Acciones
<1>2. \A o \in Ordenes : Parte(orden'[o], f) = Parte(orden[o], f) BY DEF Parte
<1>3. /\ SumaEn(orden', Reservadas, f) = SumaEn(orden, Reservadas, f)
      /\ SumaEn(orden', Activas, f) = SumaEn(orden, Activas, f)
  BY <1>2, SumasBien, SumaMisma
<1>4. Reservado(f)' = SumaEn(orden', Reservadas', f) /\ Activado(f)' = SumaEn(orden', Activas', f)
  BY DEF Reservado, Activado, SumaDe, SumaEn
<1> QED BY <1>1, <1>3, <1>4, SumasBien

\* An order that waits for its signature is part of what is reserved.
LEMMA ReservadoConParte ==
  ASSUME TipoInv, CargadoInv(Nat), NEW f, NEW o \in Reservadas
  PROVE  Parte(orden[o], f) <= Reservado(f)
<1> DEFINE os == Reservadas \ {o}
<1>1. os \subseteq Ordenes /\ o \notin os /\ o \in Ordenes /\ Reservadas = os \cup {o}
  BY DEF Reservadas
<1>2. \A x \in Ordenes : Parte(orden[x], f) \in Nat BY SumasBien
<1>3. Reservado(f) = SumaEn(orden, Reservadas, f) BY SumasBien
<1> HIDE DEF os
<1>4. SumaEn(orden, os, f) \in Nat BY <1>1, <1>2, SumaNatural
<1>5. SumaEn(orden, os \cup {o}, f) = SumaEn(orden, os, f) + Parte(orden[o], f)
  BY <1>1, <1>2, SumaConOtra
<1> QED BY <1>1, <1>2, <1>3, <1>4, <1>5

\* A step of a request: the books are as its progress says.
LEMMA LibroPedido ==
  ASSUME TipoInv, RegularInv, RegularInv', NEW h \in Hilos, Quieto \/ pedido[h].en # "libre",
         \A g \in Hilos \ {h} : pedido'[g] = pedido[g], UNCHANGED <<entrega, paso>>,
         FondosBien', \A f \in Fondos : Cuadra(f, EnCurso(pedido[h], f), 0)',
         pedido'[h].en # "libre" => PedidoLibro(pedido[h])'
  PROVE  LibroInv'
<1>1. \A e \in Entregas : ~EnMarcha(e)' BY NadaEnMarcha DEF EnMarcha, Emitida, RegularInv
<1>2. ASSUME NEW g \in Hilos, pedido'[g].en # "libre"
      PROVE  g = h
  BY <1>2 DEF Turnos, Quieto, RegularInv
<1>3. Quieto' => \A f \in Fondos : Cuadra(f, 0, 0)'
  <2> SUFFICES ASSUME Quieto', NEW f \in Fondos PROVE Cuadra(f, 0, 0)' OBVIOUS
  <2>1. pedido'[h].en = "libre" BY DEF Quieto
  <2>2. EnCurso(pedido[h], f)' = 0 BY <2>1 DEF EnCurso
  <2> QED BY <2>2 DEF Cuadra
<1> QED BY <1>1, <1>2, <1>3 DEF LibroInv

\* What the books of a request say, also when it is about to arrive.
LEMMA CuadraPedido ==
  ASSUME LibroInv, NEW h \in Hilos, Quieto \/ pedido[h].en # "libre", NEW f \in Fondos
  PROVE  Cuadra(f, EnCurso(pedido[h], f), 0)
<1>1. CASE Quieto
  <2>1. pedido[h].en = "libre" /\ Cuadra(f, 0, 0) BY <1>1 DEF Quieto, LibroInv
  <2>2. EnCurso(pedido[h], f) = 0 BY <2>1 DEF EnCurso
  <2> QED BY <2>1, <2>2
<1>2. CASE pedido[h].en # "libre" BY <1>2 DEF LibroInv
<1> QED BY <1>1, <1>2

\* A request goes on without touching the books.
LEMMA LibroSigue ==
  ASSUME TipoInv, CargadoInv(Nat), RegularInv, RegularInv', LibroInv,
         NEW h \in Hilos, Quieto \/ pedido[h].en # "libre",
         \A g \in Hilos \ {h} : pedido'[g] = pedido[g], UNCHANGED <<fondo, entrega, paso>>,
         \A o \in Ordenes : Cargos(orden'[o]) = Cargos(orden[o]) /\ (Existe(o)' <=> Existe(o)),
         \A f \in Fondos : EnCurso(pedido'[h], f) = EnCurso(pedido[h], f),
         pedido'[h].en # "libre" => PedidoLibro(pedido[h])'
  PROVE  LibroInv'
<1>1. \A o \in Ordenes, accion \in Acciones : Firmada(o, accion)' <=> Firmada(o, accion)
  BY DEF Firmada
<1>2. ASSUME NEW f \in Fondos PROVE Cuadra(f, EnCurso(pedido[h], f), 0)'
  <2>1. Reservado(f)' = Reservado(f) /\ Activado(f)' = Activado(f) BY <1>1, MismasSumas
  <2>2. Cuadra(f, EnCurso(pedido[h], f), 0) BY CuadraPedido
  <2> QED BY <2>1, <2>2 DEF Cuadra
<1>3. FondosBien' BY DEF LibroInv, FondosBien
<1> QED BY <1>2, <1>3, LibroPedido

\* A request that is answered, having nothing under way.
LEMMA LibroResponde ==
  ASSUME TipoInv, CargadoInv(Nat), RegularInv, RegularInv', LibroInv,
         NEW h \in Hilos, pedido[h].en # "libre", Responder(h), UNCHANGED <<fondo, entrega, paso>>,
         \A o \in Ordenes : Cargos(orden'[o]) = Cargos(orden[o]) /\ (Existe(o)' <=> Existe(o)),
         pedido[h].en \notin {"comprometer", "folio", "guardarNueva", "borrar"}
  PROVE  LibroInv'
<1>1. pedido'[h].en = "libre" /\ \A g \in Hilos \ {h} : pedido'[g] = pedido[g]
  BY ResponderHace DEF TipoInv
<1>2. \A f \in Fondos : EnCurso(pedido'[h], f) = EnCurso(pedido[h], f) BY <1>1 DEF EnCurso
<1> QED BY <1>1, <1>2, LibroSigue

\* Nothing that the books are about changes.
LEMMA LibroMismo ==
  ASSUME TipoInv, CargadoInv(Nat), LibroInv,
         UNCHANGED <<fondo, orden, pedido, entrega, paso, llamada, visto>>
  PROVE  LibroInv'
<1>1. \A o \in Ordenes, accion \in Acciones : Firmada(o, accion)' <=> Firmada(o, accion)
  BY DEF Firmada
<1>2. \A o \in Ordenes : Cargos(orden'[o]) = Cargos(orden[o]) /\ (Existe(o)' <=> Existe(o))
  BY DEF Existe
<1>3. \A f : Reservado(f)' = Reservado(f) /\ Activado(f)' = Activado(f)
  BY <1>1, <1>2, MismasSumas
<1>4. \A f, r, s : Cuadra(f, r, s)' <=> Cuadra(f, r, s) BY <1>3 DEF Cuadra
<1>5. FondosBien' BY DEF LibroInv, FondosBien
<1>6. Quieto' => \A f \in Fondos : Cuadra(f, 0, 0)'
  <2>1. Quieto' <=> Quieto BY DEF Quieto, Reposo, Emitida
  <2> QED BY <1>4, <2>1 DEF LibroInv
<1>7. ASSUME NEW h \in Hilos, pedido'[h].en # "libre"
      PROVE  PedidoLibro(pedido[h])' /\ \A f \in Fondos : Cuadra(f, EnCurso(pedido[h], f), 0)'
  <2>1. PedidoLibro(pedido[h]) /\ \A f \in Fondos : Cuadra(f, EnCurso(pedido[h], f), 0)
    BY <1>7 DEF LibroInv
  <2>2. \A f \in Fondos : Cuadra(f, EnCurso(pedido[h], f), 0)' BY <1>3, <2>1 DEF Cuadra
  <2>3. Folios' = Folios BY DEF Folios, Existe
  <2>4. EscriturasBien(pedido[h]) => EscriturasBien(pedido[h])' BY <1>3 DEF EscriturasBien
  <2> QED BY <2>1, <2>2, <2>3, <2>4 DEF PedidoLibro
<1>8. ASSUME NEW e \in Entregas, EnMarcha(e)'
      PROVE  /\ \A f \in Fondos : CuadraEntrega(e, f)'
             /\ paso'[e] \in {"escribirContrato", "escribirFondo"} =>
                  visto'[e].fondo = fondo'[CargoDe(e).fondo]
  <2>1. EnMarcha(e) BY <1>8 DEF EnMarcha, Emitida
  <2>2. ASSUME NEW f \in Fondos PROVE CuadraEntrega(e, f)'
    <3>1. PorAplicar(e, f)' = PorAplicar(e, f) BY DEF PorAplicar
    <3>2. CuadraEntrega(e, f) BY <2>1 DEF LibroInv
    <3> QED BY <1>3, <3>1, <3>2 DEF CuadraEntrega, Cuadra
  <2> QED BY <2>1, <2>2 DEF LibroInv
<1>9. \A e \in Entregas : CargoDe(e)' = CargoDe(e) BY DEF CargoDe
<1> QED BY <1>5, <1>6, <1>7, <1>8, <1>9 DEF LibroInv

\* A request arrives: the books are in order, and it has done nothing yet.
LEMMA LibroPide ==
  ASSUME Serial, TipoInv, CargadoInv(Nat), RegularInv, RegularInv', LibroInv, NEW h \in Hilos,
         NEW op, op # "actualizar", NEW en \in {"fondos", "orden"}, en = "fondos" => op = "crear",
         NEW o, NEW docs, NEW total, Pedir(h, op, en, o, docs, total)
  PROVE  LibroInv'
<1>1. Quieto /\ pedido[h].en = "libre" /\ UNCHANGED <<fondo, orden, entrega, paso>>
  BY DEF Pedir, Abierto, varsLibro
<1>2. /\ pedido'[h].op = op /\ pedido'[h].en = en /\ pedido'[h].escrituras = <<>>
      /\ \A g \in Hilos \ {h} : pedido'[g] = pedido[g]
  BY PedirHace DEF TipoInv
<1>3. PedidoLibro(pedido[h])' BY <1>2 DEF PedidoLibro
<1>4. \A f \in Fondos : EnCurso(pedido'[h], f) = EnCurso(pedido[h], f)
  BY <1>1, <1>2 DEF EnCurso
<1>5. \A x \in Ordenes : Cargos(orden'[x]) = Cargos(orden[x]) /\ (Existe(x)' <=> Existe(x))
  BY <1>1 DEF Existe
<1> QED BY <1>1, <1>2, <1>3, <1>4, <1>5, LibroSigue

\* The requests that clients may make arrive.
LEMMA LibroPedir ==
  ASSUME Dinero, TipoInv, CargadoInv(Nat), RegularInv, RegularInv', LibroInv, NEW h \in Hilos,
         \/ \E o \in Ordenes, total \in Totales :
              PedirCrear(h, o, total) \/ \E op \in Operaciones : PedirSobre(h, op, o, total)
         \/ \E d \in Documentos : PedirFirma(h, d)
  PROVE  LibroInv'
<1> DEFINE nada == {}
<1> HIDE DEF nada
<1>1. Serial /\ "actualizar" \notin Operaciones BY DEF Dinero, Regular
<1>2. ASSUME NEW o \in Ordenes, NEW total \in Totales, PedirCrear(h, o, total)
      PROVE  LibroInv'
  <2>1. Pedir(h, "crear", "fondos", o, nada, total) BY <1>2 DEF PedirCrear, nada
  <2> QED BY <1>1, <2>1, LibroPide
<1>3. ASSUME NEW o \in Ordenes, NEW total \in Totales, NEW op \in Operaciones,
             PedirSobre(h, op, o, total)
      PROVE  LibroInv'
  <2>1. Pedir(h, op, "orden", o, nada, total) /\ op # "actualizar"
    BY <1>1, <1>3 DEF PedirSobre, nada
  <2> QED BY <1>1, <2>1, LibroPide
<1>4. ASSUME NEW d \in Documentos, PedirFirma(h, d)
      PROVE  LibroInv'
  <2> DEFINE ds == {d}
  <2>1. Pedir(h, "firmar", "orden", OrdenDe(d), ds, 0) BY <1>4 DEF PedirFirma
  <2> HIDE DEF ds
  <2> QED BY <1>1, <2>1, LibroPide
<1> QED BY <1>2, <1>3, <1>4

\* The row that create will save takes from every fund what its plan says.
LEMMA CargosDelPlan ==
  ASSUME NEW total \in Nat \ {0}, NEW plan, PlanBien(plan, total, Fondos), PlanCubierto(plan),
         NEW fila \in FilaOrden, fila.total = total, fila.desglose = Desglose(plan, Maestro)
  PROVE  Cargos(fila) = plan.usos
<1> DEFINE cs == plan.usos
<1>1. cs \in Seq(Cargo) /\ plan.resto = 0 /\ cs # <<>> /\ Distintos(cs)
      /\ (Len(cs) = 1 => plan.resto = total - cs[1].monto)
  <2>1. plan.resto \in 0..total BY DEF PlanBien
  <2>2. plan.resto = 0 BY <2>1 DEF PlanCubierto
  <2> QED BY <2>2 DEF PlanBien
<1>2. CASE \E i \in DOMAIN cs : cs[i].fondo # Maestro
  <2>1. fila.desglose = cs BY <1>2 DEF Desglose
  <2> QED BY <1>1, <2>1 DEF Cargos
<1>3. CASE \A i \in DOMAIN cs : cs[i].fondo = Maestro
  <2>1. fila.desglose = <<>> BY <1>3 DEF Desglose
  <2>2. Len(cs) = 1 /\ 1 \in DOMAIN cs
    <3>1. DOMAIN cs = 1..Len(cs) /\ Len(cs) \in Nat \ {0} BY <1>1
    <3>2. \A i, j \in DOMAIN cs : i = j BY <1>1, <1>3 DEF Distintos
    <3>3. Len(cs) >= 2 => 1 \in DOMAIN cs /\ 2 \in DOMAIN cs BY <3>1
    <3>4. ~ (Len(cs) >= 2) BY <3>2, <3>3
    <3>5. Len(cs) = 1
      <4>1. PICK n \in Nat : n = Len(cs) /\ n # 0 BY <3>1
      <4>2. ~ (n >= 2) BY <3>4, <4>1
      <4> HIDE DEF cs
      <4> QED BY <4>1, <4>2
    <3>6. 1 \in 1..Len(cs) BY <3>5
    <3> QED BY <3>1, <3>5, <3>6
  <2>3. cs[1].fondo = Maestro /\ cs[1].monto = total /\ cs[1] \in Cargo
    <3>1. cs[1] \in Cargo BY <1>1, <2>2
    <3>2. cs[1].monto \in Int BY <3>1 DEF Cargo
    <3>3. 0 = total - cs[1].monto BY <1>1, <2>2
    <3> QED BY <1>3, <2>2, <3>1, <3>2, <3>3
  <2>4. cs[1] = [fondo |-> Maestro, monto |-> total] BY <2>3 DEF Cargo
  <2>5. cs = <<cs[1]>> BY <1>1, <2>2
  <2> QED BY <2>1, <2>4, <2>5 DEF Cargos
<1> QED BY <1>2, <1>3

\* A request is going to write what its order will have taken, or given back:
\* the amounts it read were right, and it writes the funds of every charge.
LEMMA LibroComprometera ==
  ASSUME TipoInv, CargadoInv(Nat), RegularInv, RegularInv', LibroInv,
         NEW h \in Hilos, pedido[h].en \notin {"libre", "comprometer", "folio", "guardarNueva", "borrar"},
         UNCHANGED <<fondo, orden, entrega, paso>>, NEW fila \in FilaOrden, NEW es,
         SeguirCon(h, "comprometer", fila, es), pedido[h].op \in {"crear", "quitar"},
         pedido[h].op = "quitar" => Cargos(fila) = Cargos(orden[pedido[h].orden]),
         Distintos(es),
         \A i \in DOMAIN es :
           /\ es[i].fondo \in Fondos /\ es[i].valor \in 0..fondo[es[i].fondo]["montoDisponible"]
           /\ es[i].valor = fondo[es[i].fondo]["committedAmount"] +
                (IF pedido[h].op = "crear" THEN Parte(fila, es[i].fondo) ELSE - Parte(fila, es[i].fondo)),
         \A f \in Fondos : (\A i \in DOMAIN es : es[i].fondo # f) => Parte(fila, f) = 0
  PROVE  LibroInv'
<1>1. /\ pedido'[h].op = pedido[h].op /\ pedido'[h].en = "comprometer" /\ pedido'[h].fila = fila
      /\ pedido'[h].escrituras = es /\ pedido'[h].orden = pedido[h].orden
      /\ \A g \in Hilos \ {h} : pedido'[g] = pedido[g]
  BY SeguirConHace DEF TipoInv
<1>2. PICK q : q = pedido'[h] OBVIOUS
<1>3. \A o \in Ordenes : Cargos(orden'[o]) = Cargos(orden[o]) /\ (Existe(o)' <=> Existe(o))
  BY DEF Existe
<1>4. \A f \in Fondos : EnCurso(q, f) = 0 /\ EnCurso(pedido[h], f) = 0
  <2> SUFFICES ASSUME NEW f \in Fondos PROVE EnCurso(q, f) = 0 /\ EnCurso(pedido[h], f) = 0
    OBVIOUS
  <2>1. EnCurso(pedido[h], f) = 0 BY DEF EnCurso
  <2>2. CASE \A i \in DOMAIN es : es[i].fondo # f
    <3>1. Parte(fila, f) = 0 BY <2>2
    <3>2. ConSigno(q, f) = 0 BY <1>1, <1>2, <3>1 DEF ConSigno
    <3> QED BY <2>1, <3>2 DEF EnCurso
  <2>3. CASE ~ \A i \in DOMAIN es : es[i].fondo # f BY <1>1, <1>2, <2>1, <2>3 DEF EnCurso
  <2> QED BY <2>2, <2>3
<1>5. ASSUME NEW i \in DOMAIN es, NEW f \in Fondos, f = es[i].fondo
      PROVE  /\ es[i].valor = Reservado(f)' + ConSigno(q, f)
             /\ es[i].valor \in 0..fondo'[f]["montoDisponible"]
  <2>1. Cuadra(f, EnCurso(pedido[h], f), 0) BY CuadraPedido
  <2>2. \A o \in Ordenes, accion \in Acciones : Firmada(o, accion)' <=> Firmada(o, accion)
    BY DEF Firmada
  <2>3. Reservado(f)' = Reservado(f) /\ Reservado(f) \in Nat
    BY <1>3, <2>2, MismasSumas, SumasBien
  <2>4. fondo[f]["committedAmount"] = Reservado(f) BY <1>4, <2>1, <2>3 DEF Cuadra
  <2>5. ConSigno(q, f) = IF pedido[h].op = "crear" THEN Parte(fila, f) ELSE - Parte(fila, f)
    BY <1>1, <1>2 DEF ConSigno
  <2> QED BY <1>5, <2>3, <2>4, <2>5
<1>6. EscriturasBien(pedido[h])'
  <2>1. \A i \in DOMAIN es :
          /\ es[i].valor = Reservado(es[i].fondo)' + ConSigno(q, es[i].fondo)
          /\ es[i].valor \in 0..fondo'[es[i].fondo]["montoDisponible"]
    BY <1>5
  <2> QED BY <1>1, <1>2, <2>1 DEF EscriturasBien
<1>7. PedidoLibro(pedido[h])' BY <1>1, <1>6 DEF PedidoLibro
<1> QED BY <1>1, <1>2, <1>3, <1>4, <1>7, LibroSigue

\* create reads what the funds have.
LEMMA LibroLeerFondos ==
  ASSUME TipoInv, CargadoInv(Nat), RegularInv, RegularInv', LibroInv, NEW h \in Hilos, LeerFondos(h)
  PROVE  LibroInv'
<1> DEFINE total == pedido[h].total
           plan == PlanDeFondos(fondo, Maestro, Extensiones, total)
           fila == [SinOrden EXCEPT !.existe = "si", !.total = total, !.desglose = Desglose(plan, Maestro)]
<1>1. /\ pedido[h].en = "fondos" /\ UNCHANGED <<fondo, orden, entrega, paso>>
      /\ \/ PlanCubierto(plan) /\ SeguirCon(h, "comprometer", fila, plan.escrituras)
         \/ Responder(h)
  BY DEF LeerFondos, vars
<1>2. pedido[h].op = "crear" /\ total \in Nat \ {0} /\ fondo \in [Fondos -> FundRow]
  BY <1>1, PedidoTipo, OrdenesAssumption DEF TipoInv, EnSuSitio, TypeOK
<1>3. Solvente(fondo) BY DEF Solvente, LibroInv, FondosBien
<1>4. PlanBien(plan, total, Fondos) /\ PlanExacto(plan, fondo)
  <2> HIDE DEF total, plan
  <2>1. PlanBien(PlanDeFondos(fondo, Maestro, Extensiones, total), total, Fondos)
        /\ (Solvente(fondo) => PlanExacto(PlanDeFondos(fondo, Maestro, Extensiones, total), fondo))
    BY <1>2, PlanDeFondosBien, OrdenesAssumption
  <2> QED BY <1>3, <2>1 DEF plan
<1>5. CASE Responder(h) BY <1>1, <1>5, LibroResponde DEF Existe
<1>6. CASE PlanCubierto(plan) /\ SeguirCon(h, "comprometer", fila, plan.escrituras)
  <2> DEFINE usos == plan.usos
             es == plan.escrituras
             d == Desglose(plan, Maestro)
  <2>1. usos \in Seq(Cargo) /\ d \in Seq(Cargo) /\ Distintos(usos) /\ es \in Seq(Escritura)
    BY <1>4 DEF PlanBien, Desglose
  <2>2. fila \in FilaOrden /\ fila.total = total /\ fila.desglose = d
    <3>1. fila = [SinOrden EXCEPT !.existe = "si", !.total = total, !.desglose = d]
      OBVIOUS
    <3>2. total \in Int BY <1>2
    <3> HIDE DEF d, total, fila
    <3>3. fila \in FilaOrden BY <2>1, <3>1, <3>2, FilaNuevaTipo
    <3>4. fila.total = total BY <2>1, <3>1, <3>2, FilaNuevaTipo
    <3>5. fila.desglose = d BY <3>1 DEF SinOrden
    <3> QED BY <3>3, <3>4, <3>5
  <2> HIDE DEF fila, total, plan
  <2>3. Cargos(fila) = usos BY <1>2, <1>4, <1>6, <2>2, CargosDelPlan
  <2>4. Len(es) = Len(usos) BY <1>4 DEF PlanExacto
  <2>5. DOMAIN es = DOMAIN usos BY <2>1, <2>4
  <2>6. ASSUME NEW k \in DOMAIN usos
        PROVE  /\ usos[k].fondo \in Fondos /\ es[k].fondo = usos[k].fondo
               /\ es[k].valor = fondo[usos[k].fondo]["committedAmount"] + Parte(fila, usos[k].fondo)
               /\ es[k].valor \in 0..fondo[usos[k].fondo]["montoDisponible"]
    <3>1. PICK f \in Fondos : f = usos[k].fondo BY <1>4 DEF PlanBien
    <3>2. PICK m \in Nat : m = usos[k].monto BY <1>2, <1>4 DEF PlanBien
    <3>3. Parte(fila, f) = m
      <4> HIDE DEF usos
      <4> QED BY <2>1, <2>3, <3>1, <3>2, ImporteDeCargo DEF Parte
    <3>4. PICK c \in Nat : c = fondo[f]["committedAmount"] BY DEF LibroInv, FondosBien
    <3>5. es[k] = [fondo |-> f, valor |-> c + m] /\ c + m <= fondo[f]["montoDisponible"]
      BY <1>4, <3>1, <3>2, <3>4 DEF PlanExacto
    <3>6. es[k].fondo = f /\ es[k].valor = c + m BY <3>5
    <3>7. fondo[f]["montoDisponible"] \in Int
      BY <1>2 DEF FundRow, FundColumns, ServiceColumns
    <3>8. c + m \in 0..fondo[f]["montoDisponible"] BY <3>5, <3>7
    <3> QED BY <3>1, <3>3, <3>4, <3>6, <3>8
  <2>7. Distintos(es) BY <2>1, <2>5, <2>6 DEF Distintos
  <2>8. ASSUME NEW f \in Fondos, \A i \in DOMAIN es : es[i].fondo # f
        PROVE  Parte(fila, f) = 0
    <3>1. \A i \in DOMAIN usos : usos[i].fondo # f BY <2>5, <2>6, <2>8
    <3> HIDE DEF usos
    <3> QED BY <2>3, <3>1, ImporteAjeno DEF Parte
  <2> HIDE DEF usos, es
  <2>9. \A i \in DOMAIN es :
           /\ es[i].fondo \in Fondos /\ es[i].valor \in 0..fondo[es[i].fondo]["montoDisponible"]
           /\ es[i].valor = fondo[es[i].fondo]["committedAmount"] + Parte(fila, es[i].fondo)
    BY <2>5, <2>6
  <2>10. SeguirCon(h, "comprometer", fila, es) BY <1>6 DEF es
  <2> QED BY <1>1, <1>2, <2>2, <2>7, <2>8, <2>9, <2>10, LibroComprometera
<1> QED BY <1>1, <1>5, <1>6

\* A request writes a committed amount: that fund is ahead of the orders.
LEMMA LibroEscribirReserva ==
  ASSUME TipoInv, CargadoInv(Nat), RegularInv, RegularInv', LibroInv, NEW h \in Hilos,
         EscribirReserva(h)
  PROVE  LibroInv'
<1> DEFINE es == pedido[h].escrituras
           en == IF Tail(es) # <<>> THEN "comprometer"
                 ELSE CASE pedido[h].op = "crear"      -> "folio"
                        [] pedido[h].op = "quitar"     -> "borrar"
                        [] pedido[h].op = "actualizar" -> "servicios"
<1>1. pedido[h].en = "comprometer" /\ EscribirComprometido(Head(es).fondo, Head(es).valor)
      /\ SeguirCon(h, en, pedido[h].fila, Tail(es)) /\ UNCHANGED <<orden, entrega, paso>>
  BY DEF EscribirReserva, EscribirComprometido
<1>2. PedidoLibro(pedido[h]) /\ pedido[h].op \in {"crear", "quitar", "actualizar"}
      /\ es \in Seq(Escritura) /\ es # <<>> /\ fondo \in [Fondos -> FundRow]
  BY <1>1, PedidoTipo DEF LibroInv, TipoInv, EnSuSitio, TypeOK
<1>3. EscriturasBien(pedido[h]) /\ pedido[h].op \in {"crear", "quitar"} /\ Distintos(es)
  BY <1>1, <1>2 DEF PedidoLibro, EscriturasBien
<1>4. en \in {"comprometer", "folio", "borrar"} /\ (Tail(es) = <<>> \/ en = "comprometer")
      /\ (en = "comprometer" <=> Tail(es) # <<>>)
  BY <1>3
<1> HIDE DEF en
<1>5. /\ pedido'[h].op = pedido[h].op /\ pedido'[h].en = en /\ pedido'[h].fila = pedido[h].fila
      /\ pedido'[h].escrituras = Tail(es) /\ pedido'[h].orden = pedido[h].orden
      /\ \A g \in Hilos \ {h} : pedido'[g] = pedido[g]
  BY <1>1, SeguirConHace DEF TipoInv
<1>6. /\ Distintos(Tail(es)) /\ Tail(es) \in Seq(Escritura)
      /\ Head(es) = es[1] /\ 1 \in DOMAIN es /\ Head(es).fondo \in Fondos
      /\ \A i \in DOMAIN Tail(es) : /\ Tail(es)[i].fondo # Head(es).fondo
                                    /\ Tail(es)[i].fondo \in Fondos
                                    /\ \E j \in DOMAIN es : Tail(es)[i] = es[j]
      /\ \A f : f # Head(es).fondo =>
           ((\A i \in DOMAIN Tail(es) : Tail(es)[i].fondo # f) <=> \A i \in DOMAIN es : es[i].fondo # f)
  <2> HIDE DEF es
  <2> QED BY <1>2, <1>3, EscrituraDeCola
<1>7. PICK x \in Fondos : x = Head(es).fondo BY <1>6
<1>8. PICK v : v = Head(es).valor OBVIOUS
<1>9. ASSUME NEW i \in DOMAIN es, NEW f \in Fondos, f = es[i].fondo
      PROVE  /\ es[i].valor = Reservado(f) + ConSigno(pedido[h], f)
             /\ es[i].valor \in 0..fondo[f]["montoDisponible"]
  BY <1>3, <1>9 DEF EscriturasBien
<1>10. v = Reservado(x) + ConSigno(pedido[h], x) /\ v \in 0..fondo[x]["montoDisponible"]
  BY <1>6, <1>7, <1>8, <1>9
<1>11. PICK r : r = pedido'[h] OBVIOUS
<1>12. \A f \in Fondos : ConSigno(r, f) = ConSigno(pedido[h], f)
  BY <1>5, <1>11 DEF ConSigno
<1>13. \A f \in Fondos : Reservado(f)' = Reservado(f) /\ Activado(f)' = Activado(f)
  <2>1. \A o \in Ordenes : Cargos(orden'[o]) = Cargos(orden[o]) /\ (Existe(o)' <=> Existe(o))
    BY <1>1 DEF Existe
  <2>2. \A o \in Ordenes, accion \in Acciones : Firmada(o, accion)' <=> Firmada(o, accion)
    BY <1>1 DEF Firmada
  <2> QED BY <2>1, <2>2, MismasSumas
<1>14. fondo' = [fondo EXCEPT ![x]["committedAmount"] = v]
  BY <1>1, <1>7, <1>8 DEF EscribirComprometido
<1>15. /\ fondo'[x]["committedAmount"] = v
       /\ \A f \in Fondos : f # x => fondo'[f] = fondo[f]
       /\ \A f \in Fondos : /\ fondo'[f]["montoDisponible"] = fondo[f]["montoDisponible"]
                            /\ fondo'[f]["montoActivo"] = fondo[f]["montoActivo"]
  BY <1>2, <1>14 DEF FundRow, FundColumns, ServiceColumns
<1>16. FondosBien'
  <2> SUFFICES ASSUME NEW f \in Fondos
               PROVE  /\ fondo'[f]["committedAmount"] \in Nat
                      /\ fondo'[f]["committedAmount"] <= fondo'[f]["montoDisponible"]
    BY DEF FondosBien
  <2>1. CASE f = x
    <3>1. fondo[x]["montoDisponible"] \in Int
      BY <1>2 DEF FundRow, FundColumns, ServiceColumns
    <3>2. v \in Nat /\ v <= fondo[x]["montoDisponible"] BY <1>10, <3>1
    <3> QED BY <1>15, <2>1, <3>2
  <2>2. CASE f # x BY <1>15, <2>2 DEF LibroInv, FondosBien
  <2> QED BY <2>1, <2>2
<1>17. ASSUME NEW f \in Fondos PROVE Cuadra(f, EnCurso(pedido[h], f), 0)'
  <2>1. Cuadra(f, EnCurso(pedido[h], f), 0) BY <1>1, CuadraPedido
  <2>2. fondo'[f]["montoActivo"] = Activado(f)' + 0 BY <1>13, <1>15, <2>1 DEF Cuadra
  <2>3. CASE f = x
    <3>1. EnCurso(r, f) = ConSigno(r, f)
      BY <1>4, <1>5, <1>6, <1>7, <1>11, <2>3 DEF EnCurso
    <3>2. fondo'[f]["committedAmount"] = Reservado(f)' + EnCurso(r, f)
      BY <1>10, <1>12, <1>13, <1>15, <2>3, <3>1
    <3> QED BY <1>11, <2>2, <3>2 DEF Cuadra
  <2>4. CASE f # x
    <3>1. (\A i \in DOMAIN Tail(es) : Tail(es)[i].fondo # f) <=> \A i \in DOMAIN es : es[i].fondo # f
      BY <1>6, <1>7, <2>4
    <3>2. EnCurso(r, f) = EnCurso(pedido[h], f)
      BY <1>1, <1>4, <1>5, <1>11, <1>12, <3>1 DEF EnCurso
    <3>3. fondo'[f]["committedAmount"] = Reservado(f)' + EnCurso(r, f)
      BY <1>13, <1>15, <2>1, <2>4, <3>2 DEF Cuadra
    <3> QED BY <1>11, <2>2, <3>3 DEF Cuadra
  <2> QED BY <2>3, <2>4
<1>18. EscriturasBien(pedido[h])'
  <2>0. PICK resto : resto = Tail(es) OBVIOUS
  <2>1. /\ Distintos(resto) /\ pedido'[h].escrituras = resto
        /\ \A i \in DOMAIN resto : resto[i].fondo \in Fondos /\ \E j \in DOMAIN es : resto[i] = es[j]
    BY <1>5, <1>6, <2>0
  <2> HIDE DEF es
  <2>2. ASSUME NEW i \in DOMAIN resto
        PROVE  /\ resto[i].valor = Reservado(resto[i].fondo)' + ConSigno(r, resto[i].fondo)
               /\ resto[i].valor \in 0..fondo'[resto[i].fondo]["montoDisponible"]
    <3>1. PICK j \in DOMAIN es : resto[i] = es[j] BY <2>1
    <3>2. PICK f \in Fondos : f = resto[i].fondo BY <2>1
    <3>3. es[j].valor = Reservado(f) + ConSigno(pedido[h], f)
          /\ es[j].valor \in 0..fondo[f]["montoDisponible"]
      BY <1>9, <3>1, <3>2
    <3>4. Reservado(f)' = Reservado(f) /\ ConSigno(r, f) = ConSigno(pedido[h], f)
          /\ fondo'[f]["montoDisponible"] = fondo[f]["montoDisponible"]
      BY <1>12, <1>13, <1>15
    <3>5. resto[i].valor = Reservado(f)' + ConSigno(r, f)
          /\ resto[i].valor \in 0..fondo'[f]["montoDisponible"]
      BY <3>1, <3>3, <3>4
    <3> QED BY <3>2, <3>5
  <2> QED BY <1>11, <2>1, <2>2 DEF EscriturasBien
<1>19. PedidoLibro(pedido[h])'
  <2>1. pedido'[h].op # "crear" => Cargos(pedido'[h].fila) = Cargos(orden'[pedido'[h].orden])
    BY <1>1, <1>2, <1>5 DEF PedidoLibro
  <2> QED BY <1>3, <1>4, <1>5, <1>18, <2>1 DEF PedidoLibro
<1> QED BY <1>1, <1>5, <1>16, <1>17, <1>19, LibroPedido

\* A row with another folio, or another status, charges the same.
LEMMA MismosCargos ==
  ASSUME NEW fila \in FilaOrden, NEW q, q.total = fila.total, q.desglose = fila.desglose
  PROVE  Cargos(q) = Cargos(fila) /\ \A f : Parte(q, f) = Parte(fila, f)
BY DEF Cargos, Parte

\* create takes the next folio, which no order has.
LEMMA LibroLeerFolio ==
  ASSUME TipoInv, CargadoInv(Nat), RegularInv, RegularInv', LibroInv, NEW h \in Hilos, LeerFolio(h)
  PROVE  LibroInv'
<1> DEFINE fila == [pedido[h].fila EXCEPT !.folio = Max(Folios \cup {0}) + 1]
<1>1. /\ pedido[h].en = "folio" /\ UNCHANGED <<fondo, orden, entrega, paso>>
      /\ SeguirCon(h, "guardarNueva", fila, <<>>)
  BY DEF LeerFolio, vars
<1>2. PedidoLibro(pedido[h]) /\ pedido[h].op = "crear" /\ pedido[h].fila \in FilaOrden
  BY <1>1, PedidoTipo DEF LibroInv, TipoInv, EnSuSitio
<1>3. /\ fila.folio = Max(Folios \cup {0}) + 1 /\ fila.total = pedido[h].fila.total
      /\ fila.desglose = pedido[h].fila.desglose
  BY <1>2 DEF FilaOrden
<1>4. fila.folio \notin Folios BY <1>3, FoliosTipo DEF TipoInv
<1>5. PICK r : r = fila OBVIOUS
<1>6. \A f : Parte(r, f) = Parte(pedido[h].fila, f) BY <1>2, <1>3, <1>5, MismosCargos
<1> DEFINE nada == <<>>
<1> HIDE DEF fila, nada
<1>7. /\ pedido'[h].op = "crear" /\ pedido'[h].en = "guardarNueva" /\ pedido'[h].fila = r
      /\ pedido'[h].escrituras = nada
      /\ \A g \in Hilos \ {h} : pedido'[g] = pedido[g]
  <2>1. SeguirCon(h, "guardarNueva", r, nada) BY <1>1, <1>5 DEF nada
  <2> QED BY <1>1, <1>2, <2>1, SeguirConHace DEF TipoInv
<1>8. \A f \in Fondos : EnCurso(pedido'[h], f) = EnCurso(pedido[h], f)
  <2>1. pedido[h].escrituras = nada BY <1>1, <1>2 DEF PedidoLibro, nada
  <2> QED BY <1>1, <1>2, <1>6, <1>7, <2>1 DEF EnCurso, ConSigno
<1>9. PedidoLibro(pedido[h])'
  <2>1. Folios' = Folios BY <1>1 DEF Folios, Existe
  <2> QED BY <1>4, <1>5, <1>7, <2>1 DEF PedidoLibro, nada
<1>10. \A o \in Ordenes : Cargos(orden'[o]) = Cargos(orden[o]) /\ (Existe(o)' <=> Existe(o))
  BY <1>1 DEF Existe
<1> QED BY <1>1, <1>7, <1>8, <1>9, <1>10, LibroSigue

\* The order is saved: what the request had reserved is its.
LEMMA LibroGuardarNueva ==
  ASSUME TipoInv, CargadoInv(Nat), CargadoInv(Nat)', TipoInv', RegularInv, RegularInv', LibroInv,
         NEW h \in Hilos, GuardarNueva(h)
  PROVE  LibroInv'
<1>1. PICK o \in Ordenes : o = pedido[h].orden BY PedidoTipo DEF GuardarNueva, TipoInv
<1>2. PICK fila \in FilaOrden : fila = pedido[h].fila
  BY PedidoTipo DEF GuardarNueva, TipoInv
<1>3. pedido[h].en = "guardarNueva" /\ UNCHANGED <<fondo, entrega, paso>>
  BY DEF GuardarNueva, vars
<1>4. PedidoLibro(pedido[h]) /\ PedidoReg(pedido[h]) /\ pedido[h].op = "crear"
  BY <1>3, PedidoTipo DEF LibroInv, RegularInv, PedidosReg, TipoInv, EnSuSitio
<1>5. orden' = [orden EXCEPT ![o] = fila] /\ Seguir(h, "servicios")
  BY <1>1, <1>2, <1>3, <1>4 DEF GuardarNueva, PedidoLibro
<1>6. ~Existe(o) /\ SinFirmas(o) /\ fila.existe = "si" /\ pedido[h].escrituras = <<>>
  BY <1>1, <1>2, <1>3, <1>4 DEF PedidoReg, PedidoLibro
<1>7. /\ pedido'[h].op = "crear" /\ pedido'[h].en = "servicios"
      /\ \A g \in Hilos \ {h} : pedido'[g] = pedido[g]
  BY <1>3, <1>4, <1>5, SeguirHace DEF TipoInv
<1>8. orden'[o] = fila /\ \A x \in Ordenes : x # o => orden'[x] = orden[x]
  BY <1>5 DEF TipoInv, OrdenesBien
<1>9. \A x, accion : Firmada(x, accion)' <=> Firmada(x, accion) BY <1>3 DEF Firmada
<1>10. ~Firmada(o, "APPROVE") BY <1>6, SinFirmada DEF RegularInv, SinFirmas, Acciones
<1>11. Reservadas' = Reservadas \cup {o} /\ o \notin Reservadas /\ Activas' = Activas /\ o \notin Activas
  BY <1>6, <1>8, <1>9, <1>10 DEF Reservadas, Activas, Existe
<1>12. ASSUME NEW f \in Fondos PROVE Cuadra(f, EnCurso(pedido[h], f), 0)'
  <2> DEFINE R == Reservadas
             A == Activas
             q == orden'
             t == R \cup {o}
  <2>1. /\ Reservado(f) = SumaEn(orden, R, f) /\ Activado(f) = SumaEn(orden, A, f)
        /\ R \subseteq Ordenes /\ A \subseteq Ordenes /\ \A x \in Ordenes : Parte(orden[x], f) \in Nat
    BY SumasBien
  <2>2. Reservado(f)' = SumaEn(q, t, f) /\ Activado(f)' = SumaEn(q, A, f)
    BY <1>11 DEF Reservado, Activado, SumaDe, SumaEn
  <2>3. /\ \A x \in R : Parte(q[x], f) = Parte(orden[x], f) /\ Parte(orden[x], f) \in Nat
        /\ \A x \in A : Parte(q[x], f) = Parte(orden[x], f)
        /\ Parte(q[o], f) = Parte(fila, f)
    BY <1>8, <1>11, <2>1
  <2>4. Parte(fila, f) \in Nat
    <3>1. FilaBien(fila, Nat) BY <1>2, <1>3 DEF CargadoInv
    <3> QED BY <3>1, ParteNatural
  <2>5. o \notin R BY <1>11
  <2> HIDE DEF R, A, q, t
  <2>6. SumaEn(q, R \cup {o}, f) = SumaEn(orden, R, f) + Parte(q[o], f)
    BY <2>1, <2>3, <2>4, <2>5, SumaConOtra
  <2>7. SumaEn(q, A, f) = SumaEn(orden, A, f) BY <2>1, <2>3, SumaMisma
  <2>8. Reservado(f)' = Reservado(f) + Parte(fila, f) /\ Activado(f)' = Activado(f)
    BY <2>1, <2>2, <2>3, <2>6, <2>7 DEF t
  <2>9. EnCurso(pedido[h], f) = Parte(fila, f)
    BY <1>2, <1>3, <1>4, <1>6 DEF EnCurso, ConSigno
  <2>10. EnCurso(pedido[h], f)' = 0 BY <1>7 DEF EnCurso
  <2>11. Cuadra(f, EnCurso(pedido[h], f), 0) BY <1>3, CuadraPedido
  <2>12. Reservado(f) \in Nat /\ Activado(f) \in Nat BY SumasBien
  <2> QED BY <1>3, <2>4, <2>8, <2>9, <2>10, <2>11, <2>12 DEF Cuadra
<1>13. PedidoLibro(pedido[h])' BY <1>7 DEF PedidoLibro
<1>14. FondosBien' BY <1>3 DEF LibroInv, FondosBien
<1> QED BY <1>3, <1>7, <1>12, <1>13, <1>14, LibroPedido

\* The order is deleted: what the request has given back was its.
LEMMA LibroBorrar ==
  ASSUME TipoInv, CargadoInv(Nat), CargadoInv(Nat)', TipoInv', RegularInv, RegularInv', LibroInv,
         NEW h \in Hilos, Borrar(h)
  PROVE  LibroInv'
<1>1. PICK o \in Ordenes : o = pedido[h].orden BY PedidoTipo DEF Borrar, TipoInv
<1>2. pedido[h].en = "borrar" /\ UNCHANGED <<fondo, entrega, paso>> /\ Responder(h)
  BY DEF Borrar, vars
<1>3. PedidoLibro(pedido[h]) /\ PedidoReg(pedido[h])
  BY <1>2 DEF LibroInv, RegularInv, PedidosReg
<1>4. /\ pedido[h].op = "quitar" /\ Existe(o) /\ SinFirmas(o) /\ pedido[h].escrituras = <<>>
      /\ Cargos(pedido[h].fila) = Cargos(orden[o])
  BY <1>1, <1>2, <1>3 DEF PedidoReg, PedidoLibro
<1>5. pedido'[h].en = "libre" /\ \A g \in Hilos \ {h} : pedido'[g] = pedido[g]
  BY <1>2, ResponderHace DEF TipoInv
<1>6. orden' = [orden EXCEPT ![o].existe = "borrada"] BY <1>1, <1>4 DEF Borrar
<1>7. /\ orden'[o].existe = "borrada" /\ orden'[o].total = orden[o].total
      /\ orden'[o].desglose = orden[o].desglose
      /\ \A x \in Ordenes : x # o => orden'[x] = orden[x]
  BY <1>6 DEF TipoInv, OrdenesBien, FilaOrden
<1>8. \A x, accion : Firmada(x, accion)' <=> Firmada(x, accion) BY <1>2 DEF Firmada
<1>9. ~Firmada(o, "APPROVE") BY <1>4, SinFirmada DEF RegularInv, SinFirmas, Acciones
<1>10. Reservadas = Reservadas' \cup {o} /\ o \notin Reservadas' /\ Activas' = Activas /\ o \notin Activas
  BY <1>4, <1>7, <1>8, <1>9 DEF Reservadas, Activas, Existe
<1>11. \A x \in Ordenes : \A f : Parte(orden'[x], f) = Parte(orden[x], f)
  <2>1. orden[o] \in FilaOrden BY DEF TipoInv, OrdenesBien
  <2>2. \A f : Parte(orden'[o], f) = Parte(orden[o], f) BY <1>7, <2>1, MismosCargos
  <2> QED BY <1>7, <2>2
<1>12. ASSUME NEW f \in Fondos PROVE Cuadra(f, EnCurso(pedido[h], f), 0)'
  <2> DEFINE R == Reservadas'
             A == Activas
             q == orden'
             t == R \cup {o}
  <2>1. /\ Reservado(f) = SumaEn(orden, t, f) /\ Activado(f) = SumaEn(orden, A, f)
        /\ t \subseteq Ordenes /\ A \subseteq Ordenes /\ \A x \in Ordenes : Parte(orden[x], f) \in Nat
    BY <1>10, SumasBien
  <2>2. Reservado(f)' = SumaEn(q, R, f) /\ Activado(f)' = SumaEn(q, A, f)
    BY <1>10 DEF Reservado, Activado, SumaDe, SumaEn
  <2>3. /\ R \subseteq Ordenes /\ o \notin R
        /\ \A x \in Ordenes : Parte(q[x], f) = Parte(orden[x], f)
    BY <1>10, <1>11, <2>1
  <2> HIDE DEF R, A, q, t
  <2>4. SumaEn(orden, R \cup {o}, f) = SumaEn(q, R, f) + Parte(orden[o], f)
    <3>1. /\ \A x \in R : Parte(orden[x], f) = Parte(q[x], f) /\ Parte(q[x], f) \in Nat
          /\ Parte(orden[o], f) \in Nat
      BY <2>1, <2>3
    <3> QED BY <2>3, <3>1, SumaConOtra
  <2>5. SumaEn(q, A, f) = SumaEn(orden, A, f)
    <3>1. \A x \in A : Parte(q[x], f) = Parte(orden[x], f) BY <2>1, <2>3
    <3> QED BY <2>1, <3>1, SumaMisma
  <2>6. Reservado(f) = Reservado(f)' + Parte(orden[o], f) /\ Activado(f)' = Activado(f)
    BY <2>1, <2>2, <2>4, <2>5 DEF t
  <2>7. EnCurso(pedido[h], f) = - Parte(orden[o], f)
    BY <1>2, <1>4 DEF EnCurso, ConSigno, Parte
  <2>8. EnCurso(pedido[h], f)' = 0 BY <1>5 DEF EnCurso
  <2>9. Cuadra(f, EnCurso(pedido[h], f), 0) BY <1>2, CuadraPedido
  <2>10. SumaEn(q, R, f) \in Nat /\ Parte(orden[o], f) \in Nat /\ Activado(f) \in Nat
    <3>1. \A x \in R : Parte(q[x], f) \in Nat BY <2>1, <2>3
    <3> QED BY <2>1, <2>3, <3>1, SumaNatural, SumasBien
  <2> QED BY <1>2, <2>2, <2>6, <2>7, <2>8, <2>9, <2>10 DEF Cuadra
<1>13. FondosBien' BY <1>2 DEF LibroInv, FondosBien
<1> QED BY <1>2, <1>5, <1>12, <1>13, LibroPedido

\* A request about an order, other than to remove it, goes on with its charges.
LEMMA LibroConCargos ==
  ASSUME TipoInv, CargadoInv(Nat), RegularInv, RegularInv', LibroInv, NEW h \in Hilos,
         pedido[h].en \notin {"libre", "comprometer", "folio", "guardarNueva", "borrar"},
         pedido[h].op # "crear", UNCHANGED <<fondo, orden, entrega, paso>>,
         \A g \in Hilos \ {h} : pedido'[g] = pedido[g], pedido'[h].op = pedido[h].op,
         pedido'[h].orden = pedido[h].orden,
         pedido'[h].en \notin {"libre", "comprometer", "folio", "guardarNueva", "borrar"},
         Cargos(pedido'[h].fila) = Cargos(orden[pedido[h].orden])
  PROVE  LibroInv'
<1>1. \A f \in Fondos : EnCurso(pedido'[h], f) = EnCurso(pedido[h], f) BY DEF EnCurso
<1>2. \A o \in Ordenes : Cargos(orden'[o]) = Cargos(orden[o]) /\ (Existe(o)' <=> Existe(o))
  BY DEF Existe
<1>3. PedidoLibro(pedido[h])' BY DEF PedidoLibro, LibroInv
<1> QED BY <1>1, <1>2, <1>3, LibroSigue

\* A request reads its order.
LEMMA LibroLeerOrden ==
  ASSUME TipoInv, CargadoInv(Nat), RegularInv, RegularInv', LibroInv, NEW h \in Hilos, LeerOrden(h)
  PROVE  LibroInv'
<1>1. PICK o \in Ordenes : o = pedido[h].orden BY PedidoTipo DEF LeerOrden, TipoInv
<1>2. /\ pedido[h].en = "orden" /\ UNCHANGED <<fondo, orden, entrega, paso>>
      /\ \/ Responder(h)
         \/ \E en : SeguirCon(h, en, orden[o], <<>>) /\ en \in {"contrato", "firmantes", "estatus"}
  <2>1. pedido[h].en = "orden" /\ UNCHANGED <<fondo, orden, entrega, paso>>
    BY DEF LeerOrden, vars
  <2>2. pedido[h].op \in {"quitar", "actualizar", "firmar", "cancelar"}
    BY <2>1, PedidoTipo DEF TipoInv, EnSuSitio
  <2> DEFINE en == CASE pedido[h].op \in {"quitar", "actualizar"} -> "contrato"
                     [] pedido[h].op = "firmar"   -> "firmantes"
                     [] pedido[h].op = "cancelar" -> "estatus"
  <2>3. en \in {"contrato", "firmantes", "estatus"} BY <2>2
  <2>4. Responder(h) \/ SeguirCon(h, en, orden[o], <<>>) BY <1>1 DEF LeerOrden
  <2> HIDE DEF en
  <2> QED BY <2>1, <2>3, <2>4
<1>3. CASE Responder(h) BY <1>2, <1>3, LibroResponde DEF Existe
<1>4. ASSUME NEW en \in {"contrato", "firmantes", "estatus"}, SeguirCon(h, en, orden[o], <<>>)
      PROVE  LibroInv'
  <2>1. /\ pedido'[h].op = pedido[h].op /\ pedido'[h].orden = o /\ pedido'[h].en = en
        /\ pedido'[h].fila = orden[o] /\ \A g \in Hilos \ {h} : pedido'[g] = pedido[g]
    BY <1>1, <1>2, <1>4, SeguirConHace DEF TipoInv
  <2>2. pedido[h].op # "crear" BY <1>2, PedidoTipo DEF TipoInv, EnSuSitio
  <2> QED BY <1>1, <1>2, <2>1, <2>2, LibroConCargos
<1> QED BY <1>2, <1>3, <1>4

\* remove reads the contract: it will give back every charge, which is part of
\* what every fund has reserved.
LEMMA LibroLeerContrato ==
  ASSUME Centavo = 1, TipoInv, CargadoInv(Nat), RegularInv, RegularInv', LibroInv, NEW h \in Hilos,
         LeerContratoDeOrden(h)
  PROVE  LibroInv'
<1>1. PICK o \in Ordenes : o = pedido[h].orden
  BY PedidoTipo DEF LeerContratoDeOrden, TipoInv
<1>2. PICK fila \in FilaOrden : fila = pedido[h].fila
  BY PedidoTipo DEF LeerContratoDeOrden, TipoInv
<1>3. pedido[h].en = "contrato" /\ UNCHANGED <<fondo, orden, entrega, paso>>
  BY DEF LeerContratoDeOrden, vars
<1>4. PedidoLibro(pedido[h]) /\ PedidoReg(pedido[h]) /\ pedido[h].op \in {"quitar", "actualizar"}
  BY <1>3, PedidoTipo DEF LibroInv, RegularInv, PedidosReg, TipoInv, EnSuSitio
<1>5. /\ pedido[h].op = "quitar" /\ Existe(o) /\ SinFirmas(o)
      /\ Cargos(fila) = Cargos(orden[o])
  BY <1>1, <1>2, <1>3, <1>4 DEF PedidoReg, PedidoLibro
<1>6. o \in Reservadas BY <1>5, SinFirmada DEF RegularInv, SinFirmas, Acciones, Reservadas
<1> DEFINE d == Devoluciones(fila)
           cs == Cargos(fila)
<1>7. /\ d \in Seq(Escritura) /\ Len(d) = Len(cs)
      /\ \A i \in 1..Len(cs) :
           /\ cs[i] \in Cargo /\ d[i].fondo = cs[i].fondo
           /\ d[i].valor = Redondear(Menos(fondo[cs[i].fondo]["committedAmount"], cs[i].monto))
  BY DevolucionesTipo DEF TipoInv
<1>8. cs \in Seq(Cargo) /\ CargosBien(cs, Nat) /\ Distintos(cs)
  <2>1. FilaBien(fila, Nat) BY <1>2, <1>3 DEF CargadoInv
  <2> QED BY <2>1, ParteNatural DEF CargosBien
<1>9. SeguirCon(h, "comprometer", fila, d) BY <1>2, <1>5 DEF LeerContratoDeOrden
<1> HIDE DEF d, cs
<1>10. DOMAIN d = 1..Len(cs) /\ DOMAIN cs = 1..Len(cs) BY <1>7, <1>8
<1>11. ASSUME NEW i \in DOMAIN d
       PROVE  /\ d[i].fondo \in Fondos /\ d[i].fondo = cs[i].fondo
              /\ d[i].valor = fondo[d[i].fondo]["committedAmount"] - Parte(fila, d[i].fondo)
              /\ d[i].valor \in 0..fondo[d[i].fondo]["montoDisponible"]
  <2>1. cs[i] \in Cargo /\ d[i].fondo = cs[i].fondo /\ i \in DOMAIN cs BY <1>7, <1>10
  <2>2. PICK f \in Fondos : f = cs[i].fondo BY <2>1 DEF Cargo
  <2>3. PICK m \in Nat : m = cs[i].monto BY <1>8, <2>1 DEF CargosBien
  <2>4. Parte(fila, f) = m BY <1>8, <2>1, <2>2, <2>3, ImporteDeCargo DEF Parte, cs
  <2>5. PICK c \in Nat : c = fondo[f]["committedAmount"] /\ c <= fondo[f]["montoDisponible"]
    BY DEF LibroInv, FondosBien
  <2>6. d[i].valor = c - m
    <3>1. d[i].valor = Redondear(Menos(c, m)) BY <1>7, <1>10, <2>2, <2>3, <2>5
    <3>2. c \in Int \cup {NaN} /\ c \in Int /\ m \in Int OBVIOUS
    <3>3. Redondear(Menos(c, m)) = c - m BY <3>2, RestaTipo
    <3> QED BY <3>1, <3>3
  <2>7. Parte(orden[o], f) <= Reservado(f) /\ Reservado(f) \in Nat
    BY <1>6, ReservadoConParte, SumasBien
  <2>8. Parte(orden[o], f) = m BY <1>5, <2>4 DEF Parte
  <2>9. c = Reservado(f)
    <3>1. Cuadra(f, EnCurso(pedido[h], f), 0) /\ EnCurso(pedido[h], f) = 0
      BY <1>3, CuadraPedido DEF EnCurso
    <3> QED BY <2>5, <2>7, <3>1 DEF Cuadra
  <2>10. fondo[f]["montoDisponible"] \in Int
    BY DEF TipoInv, TypeOK, FundRow, FundColumns, ServiceColumns
  <2>11. c - m \in 0..fondo[f]["montoDisponible"] BY <2>5, <2>7, <2>8, <2>9, <2>10
  <2> QED BY <2>1, <2>2, <2>4, <2>5, <2>6, <2>11
<1>12. Distintos(d) BY <1>8, <1>10, <1>11 DEF Distintos
<1>13. \A f \in Fondos : (\A i \in DOMAIN d : d[i].fondo # f) => Parte(fila, f) = 0
  <2> SUFFICES ASSUME NEW f \in Fondos, \A i \in DOMAIN d : d[i].fondo # f
               PROVE  Parte(fila, f) = 0
    OBVIOUS
  <2>1. \A i \in DOMAIN cs : cs[i].fondo # f BY <1>10, <1>11
  <2> QED BY <2>1, ImporteAjeno DEF Parte, cs
<1>14. ASSUME NEW i \in DOMAIN d
       PROVE  d[i].valor = fondo[d[i].fondo]["committedAmount"] + (- Parte(fila, d[i].fondo))
  <2>1. PICK f \in Fondos : f = d[i].fondo BY <1>11
  <2>2. Parte(fila, f) \in Int /\ fondo[f]["committedAmount"] \in Int
    BY <1>8, ImporteEntero DEF LibroInv, FondosBien, Parte, cs
  <2> QED BY <1>11, <2>1, <2>2
<1> QED BY <1>1, <1>2, <1>3, <1>5, <1>9, <1>11, <1>12, <1>13, <1>14, LibroComprometera

\* sendToSigningOrder saves its document and then the row it had read.
LEMMA LibroFirmar ==
  ASSUME TipoInv, CargadoInv(Nat), RegularInv, RegularInv', LibroInv, NEW h \in Hilos,
         LeerFirmantes(h) \/ GuardarDocumento(h) \/ Guardar(h)
  PROVE  LibroInv'
<1>0. pedido[h].en \in {"firmantes", "documento", "guardar"} /\ UNCHANGED <<fondo, entrega, paso>>
  BY DEF LeerFirmantes, GuardarDocumento, Guardar, vars
<1>1. PICK o \in Ordenes : o = pedido[h].orden BY <1>0, PedidoTipo DEF TipoInv
<1>2. PICK fila \in FilaOrden : fila = pedido[h].fila BY <1>0, PedidoTipo DEF TipoInv
<1>3. PedidoLibro(pedido[h]) /\ PedidoReg(pedido[h])
  BY <1>0 DEF LibroInv, RegularInv, PedidosReg
<1>4. /\ pedido[h].op = "firmar" /\ Existe(o) /\ Cargos(fila) = Cargos(orden[o])
      /\ fila.existe = "si"
  BY <1>0, <1>1, <1>2, <1>3 DEF PedidoReg, PedidoLibro
<1>5. CASE LeerFirmantes(h)
  <2>1. UNCHANGED <<orden, firma>> /\ (Responder(h) \/ Seguir(h, "documento"))
    BY <1>5 DEF LeerFirmantes
  <2>2. CASE Responder(h) BY <1>0, <2>1, <2>2, LibroResponde DEF Existe
  <2>3. CASE Seguir(h, "documento")
    <3>1. /\ pedido'[h].op = pedido[h].op /\ pedido'[h].orden = o /\ pedido'[h].en = "documento"
          /\ pedido'[h].fila = fila /\ \A g \in Hilos \ {h} : pedido'[g] = pedido[g]
      BY <1>0, <1>1, <1>2, <2>3, SeguirHace DEF TipoInv
    <3> QED BY <1>0, <1>1, <1>4, <2>1, <3>1, LibroConCargos
  <2> QED BY <2>1, <2>2, <2>3
<1>6. CASE GuardarDocumento(h)
  <2> DEFINE nueva == [fila EXCEPT !.estatus = "PENDIENTE"]
  <2>1. UNCHANGED orden /\ SeguirCon(h, "guardar", nueva, <<>>)
    BY <1>2, <1>6 DEF GuardarDocumento
  <2>2. nueva.total = fila.total /\ nueva.desglose = fila.desglose BY DEF FilaOrden
  <2> HIDE DEF nueva
  <2>3. /\ pedido'[h].op = pedido[h].op /\ pedido'[h].orden = o /\ pedido'[h].en = "guardar"
        /\ pedido'[h].fila = nueva /\ \A g \in Hilos \ {h} : pedido'[g] = pedido[g]
    BY <1>0, <1>1, <2>1, SeguirConHace DEF TipoInv
  <2>4. Cargos(nueva) = Cargos(orden[o]) BY <1>4, <2>2, MismosCargos
  <2> QED BY <1>0, <1>1, <1>4, <2>1, <2>3, <2>4, LibroConCargos
<1>7. CASE Guardar(h)
  <2>1. Responder(h) /\ (orden' = orden \/ orden' = [orden EXCEPT ![o] = fila])
    BY <1>1, <1>2, <1>7 DEF Guardar
  <2>2. \A x \in Ordenes : Cargos(orden'[x]) = Cargos(orden[x]) /\ (Existe(x)' <=> Existe(x))
    <3>1. CASE orden' = orden BY <3>1 DEF Existe
    <3>2. CASE orden' = [orden EXCEPT ![o] = fila]
      <4>1. orden'[o] = fila /\ \A x \in Ordenes : x # o => orden'[x] = orden[x]
        BY <3>2 DEF TipoInv, OrdenesBien
      <4> QED BY <1>4, <4>1 DEF Existe
    <3> QED BY <2>1, <3>1, <3>2
  <2> QED BY <1>0, <2>1, <2>2, LibroResponde
<1> QED BY <1>5, <1>6, <1>7

\* A step of a request keeps the books.
LEMMA LibroAtender ==
  ASSUME Centavo = 1, TipoInv, TipoInv', CargadoInv(Nat), CargadoInv(Nat)', RegularInv, RegularInv',
         LibroInv, NEW h \in Hilos, Atender(h)
  PROVE  LibroInv'
<1>1. CASE CrearServicios(h)
  <2>1. pedido[h].en = "servicios" /\ pedido[h].op = "crear" /\ UNCHANGED <<fondo, orden, entrega, paso>>
    BY <1>1 DEF CrearServicios, vars
  <2>2. Existe(pedido[h].orden) BY <2>1 DEF RegularInv, PedidosReg, PedidoReg
  <2>3. Responder(h) BY <1>1, <2>2 DEF CrearServicios
  <2> QED BY <2>1, <2>3, LibroResponde DEF Existe
<1>2. ~CambiarServicios(h)
  <2> SUFFICES ASSUME CambiarServicios(h) PROVE FALSE OBVIOUS
  <2>1. pedido[h].en # "libre" /\ pedido[h].op = "actualizar" BY DEF CambiarServicios
  <2> QED BY <2>1 DEF LibroInv, PedidoLibro
<1>3. ~EscribirCancelada(h)
  <2> SUFFICES ASSUME EscribirCancelada(h) PROVE FALSE OBVIOUS
  <2>1. pedido[h].en = "estatus" BY DEF EscribirCancelada
  <2> QED BY <2>1 DEF RegularInv, PedidosReg, PedidoReg
<1> QED BY <1>1, <1>2, <1>3, LibroLeerFondos, LibroEscribirReserva, LibroLeerFolio, LibroGuardarNueva,
           LibroLeerOrden, LibroLeerContrato, LibroBorrar, LibroFirmar DEF Atender

\* A handler at work, or about to be: the books are as its progress says.
LEMMA CuadraHandler ==
  ASSUME TipoInv, RegularInv, LibroInv, NEW c \in Entregas, Quieto \/ EnMarcha(c), NEW f \in Fondos
  PROVE  CuadraEntrega(c, f)
<1>1. CASE EnMarcha(c) BY <1>1 DEF LibroInv
<1>2. CASE Quieto
  <2>1. PorAplicar(c, f) = 0 BY <1>2, NadaEnMarcha DEF PorAplicar, RegularInv
  <2>2. Cuadra(f, 0, 0) BY <1>2 DEF LibroInv
  <2>3. Cuadra(f, 0, - 0) BY <2>2
  <2> QED BY <2>1, <2>2, <2>3 DEF CuadraEntrega
<1> QED BY <1>1, <1>2

\* A step of a handler: the books are as its progress says.
LEMMA LibroHandler ==
  ASSUME TipoInv, RegularInv, RegularInv', NEW c \in Entregas, Quieto \/ EnMarcha(c),
         UNCHANGED pedido,
         \A e \in Entregas \ {c} : entrega'[e] = entrega[e] /\ paso'[e] = paso[e],
         FondosBien', \A f \in Fondos : CuadraEntrega(c, f)',
         paso'[c] \in {"escribirContrato", "escribirFondo"} =>
           visto'[c].fondo = fondo'[CargoDe(c)'.fondo]
  PROVE  LibroInv'
<1>1. \A h \in Hilos : pedido'[h].en = "libre" BY NadaEnPedidos DEF RegularInv
<1>2. ASSUME NEW e \in Entregas, EnMarcha(e)' PROVE e = c
  <2> SUFFICES ASSUME e # c PROVE FALSE OBVIOUS
  <2>1. ~EnMarcha(e) BY NadaEnMarcha DEF Turnos, RegularInv
  <2> QED BY <1>2, <2>1 DEF EnMarcha, Emitida
<1>3. Quieto' => \A f \in Fondos : Cuadra(f, 0, 0)'
  <2> SUFFICES ASSUME Quieto', NEW f \in Fondos PROVE Cuadra(f, 0, 0)' OBVIOUS
  <2>1. ~Emitida(c)' /\ paso'[c] = "libre" BY EntregasAssumption DEF Quieto, Reposo
  <2>2. PorAplicar(c, f)' = 0 BY <2>1 DEF PorAplicar, Emitida
  <2>3. CuadraEntrega(c, f)' OBVIOUS
  <2> QED BY <2>2, <2>3 DEF CuadraEntrega, Cuadra
<1>4. ASSUME NEW e \in Entregas, EnMarcha(e)'
      PROVE  /\ \A f \in Fondos : CuadraEntrega(e, f)'
             /\ paso'[e] \in {"escribirContrato", "escribirFondo"} =>
                  visto'[e].fondo = fondo'[CargoDe(e)'.fondo]
  BY <1>2, <1>4
<1> QED BY <1>1, <1>3, <1>4 DEF LibroInv

\* A handler goes on without touching the books or what it has to apply.
LEMMA LibroHandlerSigue ==
  ASSUME TipoInv, CargadoInv(Nat), RegularInv, RegularInv', LibroInv,
         NEW c \in Entregas, EnMarcha(c), UNCHANGED <<pedido, fondo>>,
         \A e \in Entregas \ {c} : entrega'[e] = entrega[e] /\ paso'[e] = paso[e],
         entrega'[c].recibida = entrega[c].recibida,
         \A o \in Ordenes : Cargos(orden'[o]) = Cargos(orden[o]) /\ (Existe(o)' <=> Existe(o)),
         \A f \in Fondos : PorAplicar(c, f)' = PorAplicar(c, f),
         paso'[c] \in {"escribirContrato", "escribirFondo"} =>
           visto'[c].fondo = fondo'[CargoDe(c)'.fondo]
  PROVE  LibroInv'
<1>1. \A o \in Ordenes, accion \in Acciones : Firmada(o, accion)' <=> Firmada(o, accion)
  BY DEF Firmada
<1>2. ASSUME NEW f \in Fondos PROVE CuadraEntrega(c, f)'
  <2>1. Reservado(f)' = Reservado(f) /\ Activado(f)' = Activado(f) BY <1>1, MismasSumas
  <2>2. CuadraEntrega(c, f) BY CuadraHandler
  <2>3. PorAplicar(c, f)' = PorAplicar(c, f) OBVIOUS
  <2> QED BY <2>1, <2>2, <2>3 DEF CuadraEntrega, Cuadra
<1>3. FondosBien' BY DEF LibroInv, FondosBien
<1> QED BY <1>2, <1>3, LibroHandler

\* Each document is notified once.
LEMMA UnaEntrega ==
  ASSUME RegularInv, MaxEntregas <= 1, NEW c \in Entregas, EnviadoAFirma(c[1]), ~entrega[c].recibida
  PROVE  ~Firmada(OrdenDe(c[1]), AccionDe(c[1]))
<1> SUFFICES ASSUME NEW e \in Entregas, entrega[e].recibida, OrdenDe(e[1]) = OrdenDe(c[1]),
                    AccionDe(e[1]) = AccionDe(c[1])
             PROVE  FALSE
  BY DEF Firmada
<1>1. e[1] \in Documentos /\ c[1] \in Documentos /\ EnviadoAFirma(e[1])
  BY DEF Entregas, RegularInv, FirmasReg
<1>2. e[1] = c[1] BY <1>1 DEF RegularInv, FirmasReg
<1>3. e[2] = c[2]
  <2>1. e[2] \in 1..MaxEntregas /\ c[2] \in 1..MaxEntregas /\ MaxEntregas \in Nat
    BY OrdenesAssumption DEF Entregas
  <2> QED BY <2>1
<1>4. e = c BY <1>2, <1>3 DEF Entregas
<1> QED BY <1>4

\* A notification arrives: its order changes sides, and the ledger does not yet.
LEMMA LibroRecibir ==
  ASSUME Serial, MaxEntregas <= 1, TipoInv, CargadoInv(Nat), RegularInv, RegularInv', LibroInv,
         NEW c \in Entregas, RecibirCompletado(c)
  PROVE  LibroInv'
<1> DEFINE estatus == IF AccionDe(c[1]) = "APPROVE" THEN 2 ELSE 1
           r == [recibida |-> TRUE, monto |-> TRUE, guardar |-> TRUE, estatus |-> estatus]
<1>1. /\ Quieto /\ UNCHANGED <<orden, pedido, firma, paso, fondo, visto, llamada>>
      /\ firma[c[1]].ticket /\ ~entrega[c].recibida /\ entrega' = [entrega EXCEPT ![c] = r]
  BY DEF RecibirCompletado, Abierto, varsLibro
<1>2. /\ entrega'[c].recibida /\ entrega'[c].monto
      /\ \A e \in Entregas \ {c} : entrega'[e] = entrega[e]
  <2>1. r.recibida /\ r.monto OBVIOUS
  <2> HIDE DEF r
  <2> QED BY <1>1, <2>1 DEF TipoInv, EntregasBien
<1> HIDE DEF r
<1>3. PICK o \in Ordenes : o = OrdenDe(c[1]) BY DEF Entregas, Documentos, OrdenDe
<1>4. c[1] \in Documentos /\ EnviadoAFirma(c[1]) /\ c[1] \in Enviados(o, AccionDe(c[1]))
      /\ (AccionDe(c[1]) = "APPROVE" \/ AccionDe(c[1]) = "CANCEL")
  BY <1>1, <1>3 DEF Entregas, RegularInv, FirmasReg, Enviados, Documentos, AccionDe, Acciones
<1>5. Existe(o) /\ (Enviados(o, "CANCEL") # {} => Firmada(o, "APPROVE"))
  <2>1. OrdenReg(o) BY DEF RegularInv, OrdenesReg
  <2> QED BY <1>4, <2>1 DEF OrdenReg, SinFirmas, Acciones
<1>6. ~Firmada(o, AccionDe(c[1])) BY <1>1, <1>3, <1>4, UnaEntrega
<1>7. ASSUME NEW x, NEW accion
      PROVE  Firmada(x, accion)' <=> Firmada(x, accion) \/ (x = o /\ accion = AccionDe(c[1]))
  BY <1>1, <1>2, <1>3 DEF Firmada
<1>8. Existe(o)' <=> Existe(o) BY <1>1 DEF Existe
<1>9. \A x : Existe(x)' <=> Existe(x) BY <1>1 DEF Existe
<1>10. FondosBien' BY <1>1 DEF LibroInv, FondosBien
<1>11. paso'[c] = "libre" BY <1>1, NadaEnMarcha DEF RegularInv
<1>12. \A f \in Fondos : /\ fondo[f]["committedAmount"] = Reservado(f)
                         /\ fondo[f]["montoActivo"] = Activado(f)
                         /\ Reservado(f) \in Nat /\ Activado(f) \in Nat
                         /\ Parte(orden[o], f) \in Nat
                         /\ PorAplicar(c, f)' = Parte(orden[o], f)
  <2> SUFFICES ASSUME NEW f \in Fondos
               PROVE  /\ fondo[f]["committedAmount"] = Reservado(f)
                      /\ fondo[f]["montoActivo"] = Activado(f)
                      /\ Reservado(f) \in Nat /\ Activado(f) \in Nat
                      /\ Parte(orden[o], f) \in Nat
                      /\ PorAplicar(c, f)' = Parte(orden[o], f)
    OBVIOUS
  <2>1. Reservado(f) \in Nat /\ Activado(f) \in Nat /\ Parte(orden[o], f) \in Nat
    BY SumasBien
  <2>2. Cuadra(f, 0, 0) BY <1>1 DEF LibroInv
  <2>3. PorAplicar(c, f)' = Parte(orden[o], f) BY <1>1, <1>2, <1>3 DEF PorAplicar
  <2> QED BY <2>1, <2>2, <2>3 DEF Cuadra
<1>13. CASE AccionDe(c[1]) = "APPROVE"
  <2>1. Enviados(o, "CANCEL") = {} /\ ~Firmada(o, "APPROVE") BY <1>5, <1>6, <1>13
  <2>2. ~Firmada(o, "CANCEL") BY <2>1, SinFirmada DEF RegularInv
  <2>3. /\ Reservadas = Reservadas' \cup {o} /\ o \notin Reservadas'
        /\ Activas' = Activas \cup {o} /\ o \notin Activas
    BY <1>5, <1>7, <1>9, <1>13, <2>1, <2>2 DEF Reservadas, Activas
  <2>4. ASSUME NEW f \in Fondos PROVE CuadraEntrega(c, f)'
    <3> DEFINE A == Activas
               S == Reservadas'
               q == orden'
               t == A \cup {o}
               s == S \cup {o}
    <3>1. /\ Reservado(f) = SumaEn(orden, s, f) /\ Activado(f) = SumaEn(orden, A, f)
          /\ s \subseteq Ordenes /\ A \subseteq Ordenes /\ \A x \in Ordenes : Parte(orden[x], f) \in Nat
      BY <2>3, SumasBien
    <3>2. Reservado(f)' = SumaEn(q, S, f) /\ Activado(f)' = SumaEn(q, t, f)
      BY <2>3 DEF Reservado, Activado, SumaDe, SumaEn
    <3>3. q = orden /\ S \subseteq Ordenes /\ o \notin S /\ o \notin A BY <1>1, <2>3, <3>1
    <3> HIDE DEF A, S, q, t, s
    <3>4. SumaEn(orden, S \cup {o}, f) = SumaEn(orden, S, f) + Parte(orden[o], f)
      <4>1. \A x \in S : Parte(orden[x], f) = Parte(orden[x], f) /\ Parte(orden[x], f) \in Nat
        BY <3>1, <3>3
      <4> QED BY <3>1, <3>3, <4>1, SumaConOtra
    <3>5. SumaEn(orden, A \cup {o}, f) = SumaEn(orden, A, f) + Parte(orden[o], f)
      <4>1. \A x \in A : Parte(orden[x], f) = Parte(orden[x], f) /\ Parte(orden[x], f) \in Nat
        BY <3>1
      <4> QED BY <3>1, <3>3, <4>1, SumaConOtra
    <3>6. PICK m \in Nat : m = Parte(orden[o], f) BY <1>12
    <3>7. SumaEn(orden, S, f) \in Nat
      <4>1. \A x \in S : Parte(orden[x], f) \in Nat BY <3>1, <3>3
      <4> QED BY <3>3, <4>1, SumaNatural
    <3>8. Reservado(f) = Reservado(f)' + m /\ Activado(f)' = Activado(f) + m
      BY <3>1, <3>2, <3>3, <3>4, <3>5, <3>6 DEF s, t
    <3>9. fondo'[f]["committedAmount"] = Reservado(f)' + m BY <1>1, <1>12, <3>8
    <3>10. fondo'[f]["montoActivo"] = Activado(f)' + (- m) BY <1>1, <1>12, <3>6, <3>8
    <3>11. PorAplicar(c, f)' = m BY <1>12, <3>6
    <3> QED BY <1>13, <3>9, <3>10, <3>11 DEF CuadraEntrega, Cuadra
  <2> QED BY <1>1, <1>2, <1>10, <1>11, <2>4, LibroHandler
<1>14. CASE AccionDe(c[1]) = "CANCEL"
  <2>1. Firmada(o, "APPROVE") /\ ~Firmada(o, "CANCEL") BY <1>4, <1>5, <1>6, <1>14
  <2>2. /\ Reservadas' = Reservadas /\ Activas = Activas' \cup {o} /\ o \notin Activas'
    BY <1>5, <1>7, <1>9, <1>14, <2>1 DEF Reservadas, Activas
  <2>3. ASSUME NEW f \in Fondos PROVE CuadraEntrega(c, f)'
    <3> DEFINE A == Activas'
               S == Reservadas
               q == orden'
               t == A \cup {o}
    <3>1. /\ Reservado(f) = SumaEn(orden, S, f) /\ Activado(f) = SumaEn(orden, t, f)
          /\ t \subseteq Ordenes /\ \A x \in Ordenes : Parte(orden[x], f) \in Nat
      BY <2>2, SumasBien
    <3>2. Reservado(f)' = SumaEn(q, S, f) /\ Activado(f)' = SumaEn(q, A, f)
      BY <2>2 DEF Reservado, Activado, SumaDe, SumaEn
    <3>3. q = orden /\ A \subseteq Ordenes /\ o \notin A BY <1>1, <2>2, <3>1
    <3> HIDE DEF A, S, q, t
    <3>4. SumaEn(orden, A \cup {o}, f) = SumaEn(orden, A, f) + Parte(orden[o], f)
      <4>1. \A x \in A : Parte(orden[x], f) = Parte(orden[x], f) /\ Parte(orden[x], f) \in Nat
        BY <3>1, <3>3
      <4> QED BY <3>1, <3>3, <4>1, SumaConOtra
    <3>5. PICK m \in Nat : m = Parte(orden[o], f) BY <1>12
    <3>6. Reservado(f)' = Reservado(f) /\ Activado(f) = Activado(f)' + m
      BY <3>1, <3>2, <3>3, <3>4, <3>5 DEF t
    <3>7. fondo'[f]["committedAmount"] = Reservado(f)' + 0 /\ fondo'[f]["montoActivo"] = Activado(f)' + m
      BY <1>1, <1>12, <3>6
    <3>8. PorAplicar(c, f)' = m BY <1>12, <3>5
    <3> QED BY <1>14, <3>7, <3>8 DEF CuadraEntrega, Cuadra
  <2> QED BY <1>1, <1>2, <1>10, <1>11, <2>3, LibroHandler
<1> QED BY <1>4, <1>13, <1>14

\* What a handler has to apply is not negative, and there is nothing left of an
\* activation that is over.
LEMMA PorAplicarPaso ==
  ASSUME TipoInv, CargadoInv(Nat), NEW c \in Entregas, paso[c] # "libre", NEW f
  PROVE  /\ ~entrega[c].monto /\ PorAplicar(c, f) = ImporteA(llamada[c].cargos, f)
         /\ llamada[c].cargos \in Seq(Cargo) /\ llamada[c].cargos # <<>>
         /\ CargosBien(llamada[c].cargos, Nat)
         /\ ImporteA(llamada[c].cargos, f) \in Nat
<1>1. llamada[c].cargos \in Seq(Cargo) /\ llamada[c].cargos # <<>>
  BY EntregasAssumption DEF TipoInv, TypeOK, Llamada
<1>2. CargosBien(llamada[c].cargos, Nat) /\ ~entrega[c].monto BY DEF CargadoInv
<1> QED BY <1>1, <1>2, ImporteNatural DEF PorAplicar

\* The handlers that save the document and the status leave the books alone.
LEMMA LibroGuardarFirma ==
  ASSUME TipoInv, CargadoInv(Nat), RegularInv, RegularInv', LibroInv, NEW c \in Entregas,
         GuardarFirma(c) \/ EscribirEstatus(c)
  PROVE  LibroInv'
<1>1. /\ EnMarcha(c) /\ UNCHANGED <<pedido, fondo, paso, llamada, visto>>
      /\ \/ orden' = orden
         \/ orden' = [orden EXCEPT ![OrdenDe(c[1])].estatus = EstatusDe(c[1])]
      /\ \/ entrega' = [entrega EXCEPT ![c].guardar = FALSE]
         \/ \E n : entrega' = [entrega EXCEPT ![c].estatus = n]
  BY DEF GuardarFirma, EscribirEstatus, EnMarcha, Emitida, vars
<1>2. /\ \A e \in Entregas \ {c} : entrega'[e] = entrega[e]
      /\ entrega'[c].recibida = entrega[c].recibida /\ entrega'[c].monto = entrega[c].monto
  BY <1>1 DEF TipoInv, EntregasBien
<1>3. PICK o \in Ordenes : o = OrdenDe(c[1]) BY DEF Entregas, Documentos, OrdenDe
<1>4. /\ \A x \in Ordenes : x # o => orden'[x] = orden[x]
      /\ orden'[o].total = orden[o].total /\ orden'[o].desglose = orden[o].desglose
      /\ orden'[o].existe = orden[o].existe
  BY <1>1, <1>3 DEF TipoInv, OrdenesBien, FilaOrden
<1>5. Cargos(orden'[o]) = Cargos(orden[o])
  <2>1. orden[o] \in FilaOrden BY DEF TipoInv, OrdenesBien
  <2> QED BY <1>4, <2>1, MismosCargos
<1>6. \A x \in Ordenes : Cargos(orden'[x]) = Cargos(orden[x]) /\ (Existe(x)' <=> Existe(x))
  BY <1>4, <1>5 DEF Existe
<1>7. \A f \in Fondos : PorAplicar(c, f)' = PorAplicar(c, f)
  BY <1>1, <1>2, <1>3, <1>5 DEF PorAplicar, Parte
<1>8. ASSUME paso'[c] \in {"escribirContrato", "escribirFondo"}
      PROVE  visto'[c].fondo = fondo'[CargoDe(c)'.fondo]
  <2>1. CargoDe(c)' = CargoDe(c) BY <1>1 DEF CargoDe
  <2>2. visto[c].fondo = fondo[CargoDe(c).fondo] BY <1>1, <1>8 DEF LibroInv
  <2> QED BY <1>1, <2>1, <2>2
<1> QED BY <1>1, <1>2, <1>6, <1>7, <1>8, LibroHandlerSigue

\* The ledger's handler reads its order: it has to apply what the order took.
LEMMA LibroLeerOrdenDeEntrega ==
  ASSUME TipoInv, CargadoInv(Nat), RegularInv, RegularInv', LibroInv, NEW c \in Entregas,
         LeerOrdenDeEntrega(c)
  PROVE  LibroInv'
<1>0. Entregas = Tareas /\ entrega[c].monto BY EntregasAssumption DEF LeerOrdenDeEntrega
<1>1. PICK o \in Ordenes : o = OrdenDe(c[1]) BY DEF Entregas, Documentos, OrdenDe
<1>2. EnMarcha(c) /\ entrega[c].recibida BY <1>0 DEF EnMarcha, Emitida, CargadoInv
<1>3. Existe(o)
  <2>1. c[1] \in Documentos /\ EnviadoAFirma(c[1])
    BY <1>2 DEF Entregas, RegularInv, FirmasReg
  <2>2. c[1] \in Enviados(o, AccionDe(c[1])) /\ AccionDe(c[1]) \in Acciones
    BY <1>1, <2>1 DEF Enviados, Documentos, AccionDe
  <2>3. OrdenReg(o) BY DEF RegularInv, OrdenesReg
  <2> QED BY <2>2, <2>3 DEF OrdenReg, SinFirmas
<1> DEFINE ll == [evento |-> EventoDe(c[1]), servicio |-> Servicio, cargos |-> Cargos(orden[o])]
<1>4. /\ Arrancar(c, ll) /\ UNCHANGED <<orden, pedido, firma>>
      /\ entrega' = [entrega EXCEPT ![c].monto = FALSE]
  BY <1>1, <1>3 DEF LeerOrdenDeEntrega
<1>5. ll.cargos = Cargos(orden[o]) OBVIOUS
<1> HIDE DEF ll
<1>6. /\ paso' = [paso EXCEPT ![c] = "leer"] /\ llamada' = [llamada EXCEPT ![c] = ll]
      /\ UNCHANGED <<fondo, visto>>
  BY <1>4 DEF Arrancar
<1>7. paso'[c] = "leer" /\ llamada'[c].cargos = Cargos(orden[o])
      /\ \A e \in Entregas \ {c} : paso'[e] = paso[e]
  BY <1>0, <1>5, <1>6 DEF TipoInv, TypeOK
<1>8. /\ \A e \in Entregas \ {c} : entrega'[e] = entrega[e]
      /\ entrega'[c].recibida = entrega[c].recibida /\ ~entrega'[c].monto
  BY <1>4 DEF TipoInv, EntregasBien
<1>9. \A f \in Fondos : PorAplicar(c, f)' = PorAplicar(c, f)
  BY <1>0, <1>1, <1>7, <1>8 DEF PorAplicar, Parte
<1>10. \A x \in Ordenes : Cargos(orden'[x]) = Cargos(orden[x]) /\ (Existe(x)' <=> Existe(x))
  BY <1>4 DEF Existe
<1> QED BY <1>2, <1>4, <1>6, <1>7, <1>8, <1>9, <1>10, LibroHandlerSigue

\* The activation writes a fund: the charge is moved.
LEMMA LibroEscribirFondo ==
  ASSUME Centavo = 1, TipoInv, CargadoInv(Nat), RegularInv, RegularInv', LibroInv,
         NEW c \in Entregas, EscribirFondo(c), UNCHANGED varsOrden
  PROVE  LibroInv'
<1>0. Entregas = Tareas /\ Cubre(Nat) BY EntregasAssumption, OrdenesAssumption DEF Cubre
<1>1. paso[c] = "escribirFondo" /\ SiguienteCargo(c) /\ UNCHANGED <<orden, pedido, entrega>>
  BY DEF EscribirFondo, varsOrden
<1>2. /\ CargoDe(c).fondo \in Fondos /\ CargoDe(c).monto \in Nat
      /\ llamada[c].evento = EventoDe(c[1]) /\ llamada[c].evento \in TYPE_EVENT_ORDER
      /\ llamada[c].cargos \in Seq(Cargo) /\ llamada[c].cargos # <<>>
  BY <1>0, <1>1, CargoDeEntrega DEF TipoInv
<1>3. PICK x \in Fondos : x = CargoDe(c).fondo BY <1>2
<1>4. PICK m \in Nat : m = CargoDe(c).monto BY <1>2
<1>5. PICK cs \in Seq(Cargo) : cs = llamada[c].cargos /\ cs # <<>> BY <1>2
<1>6. EnMarcha(c) /\ visto[c].fondo = fondo[x] BY <1>1, <1>3 DEF EnMarcha, LibroInv
<1>7. PICK fila \in FundRow : fila = fondo[x] BY DEF TipoInv, TypeOK
<1>8. PICK r : r = escribir(fila, handlerAmounts(llamada[c].evento, fila, m), Escribe(x, llamada[c].evento))
  OBVIOUS
<1>9. fondo' = [fondo EXCEPT ![x] = r]
  BY <1>3, <1>4, <1>6, <1>7, <1>8 DEF EscribirFondo, Columnas, TipoInv, TypeOK
<1>10. fondo'[x] = r /\ \A f \in Fondos : f # x => fondo'[f] = fondo[f]
  BY <1>9 DEF TipoInv, TypeOK
<1>11. PICK ev \in TYPE_EVENT_ORDER : ev = llamada[c].evento BY <1>2
<1>12. fila["committedAmount"] \in Nat /\ fila["committedAmount"] <= fila["montoDisponible"]
       /\ fila["montoDisponible"] \in Int /\ fila["montoActivo"] \in Int
  BY <1>7 DEF LibroInv, FondosBien, FundRow, FundColumns, ServiceColumns
<1>13. /\ r["montoActivo"] = IF ev = "ORDER_APPROVED" THEN fila["montoActivo"] + m
                             ELSE fila["montoActivo"] - m
       /\ r["montoDisponible"] = IF ev = "ORDER_APPROVED" THEN fila["montoDisponible"] - m
                                 ELSE fila["montoDisponible"] + m
       /\ r["committedAmount"] = IF ev = "ORDER_APPROVED" THEN fila["committedAmount"] - m
                                 ELSE fila["committedAmount"]
  <2>1. r = escribir(fila, handlerAmounts(ev, fila, m), Escribe(x, ev)) BY <1>8, <1>11
  <2>2. /\ r["montoActivo"] = IF ev = "ORDER_APPROVED" THEN fila["montoActivo"] + m
                              ELSE fila["montoActivo"] - m
        /\ r["montoDisponible"] = IF ev = "ORDER_APPROVED" THEN fila["montoDisponible"] - m
                                  ELSE fila["montoDisponible"] + m
        /\ fila["committedAmount"] \in Int =>
             r["committedAmount"] = IF ev = "ORDER_APPROVED" THEN fila["committedAmount"] - m
                                    ELSE fila["committedAmount"]
    <3>1. m \in Int OBVIOUS
    <3> QED BY <2>1, <3>1, OrdenAplicada
  <2>3. fila["committedAmount"] \in Int BY <1>12
  <2> QED BY <2>2, <2>3
<1>14. \A f \in Fondos : /\ ImporteA(cs, f) = (IF x = f THEN m ELSE 0) + ImporteA(Tail(cs), f)
                         /\ ImporteA(Tail(cs), f) \in Nat
                         /\ PorAplicar(c, f) = ImporteA(cs, f)
                         /\ PorAplicar(c, f)' = ImporteA(Tail(cs), f)
  <2> SUFFICES ASSUME NEW f \in Fondos
               PROVE  /\ ImporteA(cs, f) = (IF x = f THEN m ELSE 0) + ImporteA(Tail(cs), f)
                      /\ ImporteA(Tail(cs), f) \in Nat
                      /\ PorAplicar(c, f) = ImporteA(cs, f)
                      /\ PorAplicar(c, f)' = ImporteA(Tail(cs), f)
    OBVIOUS
  <2>1. CargosBien(cs, Nat) /\ PorAplicar(c, f) = ImporteA(cs, f) /\ ~entrega[c].monto
    BY <1>1, <1>5, PorAplicarPaso
  <2>2. Head(cs).fondo = x /\ Head(cs).monto = m BY <1>3, <1>4, <1>5 DEF CargoDe
  <2>3. ImporteA(cs, f) = (IF x = f THEN m ELSE 0) + ImporteA(Tail(cs), f)
    BY <1>5, <2>2, ImporteDeCola
  <2>4. ImporteA(Tail(cs), f) \in Nat
    <3>1. CargosBien(Tail(cs), Nat) BY <1>5, <2>1, ColaBien
    <3>2. Tail(cs) \in Seq(Cargo) BY <1>5
    <3> QED BY <3>1, <3>2, ImporteNatural
  <2>5. PorAplicar(c, f)' = ImporteA(Tail(cs), f)
    <3>1. ~entrega'[c].monto BY <1>1, <2>1
    <3>2. CASE Tail(cs) = <<>>
      <4>1. paso'[c] = "libre"
        BY <1>0, <1>1, <1>5, <3>2 DEF SiguienteCargo, Terminar, TipoInv, TypeOK
      <4>2. ImporteA(Tail(cs), f) = 0 BY <3>2, ImporteNulo
      <4> QED BY <3>1, <4>1, <4>2 DEF PorAplicar
    <3>3. CASE Tail(cs) # <<>>
      <4> DEFINE ll == [llamada[c] EXCEPT !.cargos = Tail(cs)]
      <4>1. paso' = [paso EXCEPT ![c] = "leer"] /\ llamada' = [llamada EXCEPT ![c] = ll]
        BY <1>0, <1>1, <1>5, <3>3 DEF SiguienteCargo, TipoInv, TypeOK
      <4>2. ll.cargos = Tail(cs)
        <5>1. llamada[c] \in Llamada BY <1>0, <1>1, CargoDeEntrega DEF TipoInv
        <5> QED BY <5>1 DEF Llamada
      <4> HIDE DEF ll
      <4>3. paso'[c] = "leer" /\ llamada'[c].cargos = Tail(cs)
        BY <1>0, <4>1, <4>2 DEF TipoInv, TypeOK
      <4> QED BY <3>1, <4>3 DEF PorAplicar
    <3> QED BY <3>2, <3>3
  <2> QED BY <2>1, <2>3, <2>4, <2>5
<1>15. \A f \in Fondos : /\ Reservado(f)' = Reservado(f) /\ Activado(f)' = Activado(f)
                         /\ Reservado(f) \in Nat /\ Activado(f) \in Nat
  <2>1. \A o \in Ordenes : Cargos(orden'[o]) = Cargos(orden[o]) /\ (Existe(o)' <=> Existe(o))
    BY <1>1 DEF Existe
  <2>2. \A o \in Ordenes, accion \in Acciones : Firmada(o, accion)' <=> Firmada(o, accion)
    BY <1>1 DEF Firmada
  <2> QED BY <2>1, <2>2, MismasSumas, SumasBien
<1>16. ev = "ORDER_APPROVED" <=> AccionDe(c[1]) = "APPROVE" BY <1>2, <1>11 DEF EventoDe
<1>17. ASSUME NEW f \in Fondos PROVE CuadraEntrega(c, f)'
  <2>1. CuadraEntrega(c, f) BY <1>6, CuadraHandler
  <2>2. PICK k \in Nat : k = ImporteA(Tail(cs), f) BY <1>14
  <2>3. PorAplicar(c, f)' = k /\ PorAplicar(c, f) = (IF x = f THEN m ELSE 0) + k
    BY <1>14, <2>2
  <2>4. PICK a \in Nat : a = Reservado(f) BY <1>15
  <2>5. PICK b \in Nat : b = Activado(f) BY <1>15
  <2>6. Reservado(f)' = a /\ Activado(f)' = b BY <1>15, <2>4, <2>5
  <2>7. CASE AccionDe(c[1]) = "APPROVE"
    <3>1. /\ fondo[f]["committedAmount"] = a + ((IF x = f THEN m ELSE 0) + k)
          /\ fondo[f]["montoActivo"] = b + (- ((IF x = f THEN m ELSE 0) + k))
      BY <2>1, <2>3, <2>4, <2>5, <2>7 DEF CuadraEntrega, Cuadra
    <3>2. fondo'[f]["committedAmount"] = a + k /\ fondo'[f]["montoActivo"] = b + (- k)
      BY <1>7, <1>10, <1>13, <1>16, <2>7, <3>1
    <3> QED BY <2>3, <2>6, <2>7, <3>2 DEF CuadraEntrega, Cuadra
  <2>8. CASE AccionDe(c[1]) # "APPROVE"
    <3>1. /\ fondo[f]["committedAmount"] = a + 0
          /\ fondo[f]["montoActivo"] = b + ((IF x = f THEN m ELSE 0) + k)
      BY <2>1, <2>3, <2>4, <2>5, <2>8 DEF CuadraEntrega, Cuadra
    <3>2. fondo'[f]["committedAmount"] = a + 0 /\ fondo'[f]["montoActivo"] = b + k
      BY <1>7, <1>10, <1>13, <1>16, <2>8, <3>1
    <3> QED BY <2>3, <2>6, <2>8, <3>2 DEF CuadraEntrega, Cuadra
  <2> QED BY <2>7, <2>8
<1>18. FondosBien'
  <2> SUFFICES ASSUME NEW f \in Fondos
               PROVE  /\ fondo'[f]["committedAmount"] \in Nat
                      /\ fondo'[f]["committedAmount"] <= fondo'[f]["montoDisponible"]
    BY DEF FondosBien
  <2>1. CASE f # x BY <1>10, <2>1 DEF LibroInv, FondosBien
  <2>2. CASE f = x /\ ev = "ORDER_APPROVED"
    <3>1. PICK k \in Nat : k = ImporteA(Tail(cs), x) BY <1>14
    <3>2. CuadraEntrega(c, x) /\ PorAplicar(c, x) = m + k
      BY <1>6, <1>14, <3>1, CuadraHandler
    <3>3. PICK a \in Nat : a = Reservado(x) BY <1>15
    <3>4. fila["committedAmount"] = a + (m + k)
      BY <1>7, <1>16, <2>2, <3>2, <3>3 DEF CuadraEntrega, Cuadra
    <3> QED BY <1>10, <1>12, <1>13, <2>2, <3>4
  <2>3. CASE f = x /\ ev # "ORDER_APPROVED" BY <1>10, <1>12, <1>13, <2>3
  <2> QED BY <2>1, <2>2, <2>3
<1>19. /\ \A e \in Entregas \ {c} : paso'[e] = paso[e]
       /\ paso'[c] \notin {"escribirContrato", "escribirFondo"}
  BY <1>0, <1>1 DEF SiguienteCargo, Terminar, TipoInv, TypeOK
<1> QED BY <1>1, <1>6, <1>17, <1>18, <1>19, LibroHandler

\* Every step of an activation keeps the books.
LEMMA LibroAvanzar ==
  ASSUME Centavo = 1, TipoInv, CargadoInv(Nat), RegularInv, RegularInv', LibroInv,
         NEW c \in Entregas, AvanzarLibro(c)
  PROVE  LibroInv'
<1>0. Entregas = Tareas /\ Cubre(Nat) BY EntregasAssumption, OrdenesAssumption DEF Cubre
<1>1. Avanzar(c) /\ UNCHANGED <<orden, pedido, firma, entrega>>
  BY DEF AvanzarLibro, varsOrden
<1>2. CASE EscribirFondo(c) BY <1>2, LibroEscribirFondo DEF AvanzarLibro
<1>3. CASE ~EscribirFondo(c)
  <2>1. paso[c] # "libre" /\ EnMarcha(c)
    BY <1>1, <1>3 DEF Avanzar, LeerMaestro, LeerContratos, LeerModificatorio, EscribirContrato, EnMarcha
  <2>2. Columnas(c) # {} BY <1>0, <2>1, CargoDeEntrega DEF TipoInv
  <2>3. /\ paso'[c] # "libre" /\ UNCHANGED <<fondo, llamada>>
        /\ \A e \in Entregas \ {c} : paso'[e] = paso[e]
    BY <1>0, <1>1, <1>3, <2>2 DEF Avanzar, LeerMaestro, LeerContratos, LeerModificatorio,
                                  EscribirContrato, TrasLeer, TipoInv, TypeOK
  <2>4. CargoDe(c)' = CargoDe(c) BY <2>3 DEF CargoDe
  <2>5. ASSUME paso'[c] \in {"escribirContrato", "escribirFondo"}
        PROVE  visto'[c].fondo = fondo[CargoDe(c).fondo]
    <3>1. CASE EscribirContrato(c)
      <4>1. visto[c].fondo = fondo[CargoDe(c).fondo]
        BY <2>1, <3>1 DEF EscribirContrato, LibroInv
      <4> QED BY <3>1, <4>1 DEF EscribirContrato
    <3>2. CASE LeerContratos(c) BY <1>0, <2>5, <3>2 DEF LeerContratos, TipoInv, TypeOK
    <3>3. CASE LeerMaestro(c) \/ LeerModificatorio(c)
      <4>1. PICK servicio : TrasLeer(c, servicio, fondo[CargoDe(c).fondo])
        BY <3>3 DEF LeerMaestro, LeerModificatorio
      <4> DEFINE v == [servicio |-> servicio, fondo |-> fondo[CargoDe(c).fondo]]
      <4>2. visto' = [visto EXCEPT ![c] = v] BY <2>2, <4>1 DEF TrasLeer
      <4>3. visto'[c] = v
        <5> HIDE DEF v
        <5> QED BY <1>0, <4>2 DEF TipoInv, TypeOK
      <4> QED BY <4>3
    <3> QED BY <1>1, <1>3, <3>1, <3>2, <3>3 DEF Avanzar
  <2>6. \A f \in Fondos : PorAplicar(c, f)' = PorAplicar(c, f)
    <3>1. (paso'[c] = "libre") <=> (paso[c] = "libre") BY <2>1, <2>3
    <3> QED BY <1>1, <2>3, <3>1 DEF PorAplicar
  <2>7. \A o \in Ordenes : Cargos(orden'[o]) = Cargos(orden[o]) /\ (Existe(o)' <=> Existe(o))
    BY <1>1 DEF Existe
  <2>8. paso'[c] \in {"escribirContrato", "escribirFondo"} =>
          visto'[c].fondo = fondo'[CargoDe(c)'.fondo]
    BY <2>3, <2>4, <2>5
  <2> QED BY <1>1, <2>1, <2>3, <2>6, <2>7, <2>8, LibroHandlerSigue
<1> QED BY <1>2, <1>3

\* Every step keeps the books.
LEMMA LibroSiguiente ==
  ASSUME Dinero, TipoInv, TipoInv', CargadoInv(Nat), CargadoInv(Nat)', RegularInv, RegularInv',
         LibroInv, [NextOrden]_todas
  PROVE  LibroInv'
<1>1. Serial /\ ~ConFallos /\ MaxEntregas <= 1 /\ Centavo = 1 BY DEF Dinero, Regular
<1>2. CASE UNCHANGED todas
  <2>1. UNCHANGED <<fondo, orden, pedido, entrega, paso, llamada, visto>>
    BY <1>2 DEF todas, vars, varsOrden
  <2> QED BY <2>1, LibroMismo
<1>3. ASSUME NEW d \in Documentos, EnviarAFirmamex(d) \/ RecibirRechazo(d) PROVE LibroInv'
  <2>1. UNCHANGED <<fondo, orden, pedido, entrega, paso, llamada, visto>>
    BY <1>3 DEF EnviarAFirmamex, RecibirRechazo, vars, varsLibro
  <2> QED BY <2>1, LibroMismo
<1>4. ~CaerServidor /\ (\A h \in Hilos : ~FallarPedido(h)) /\ (\A e \in Entregas : ~FallarEntrega(e))
  BY <1>1 DEF CaerServidor, FallarPedido, FallarEntrega
<1> QED BY <1>1, <1>2, <1>3, <1>4, LibroPedir, LibroAtender, LibroRecibir, LibroGuardarFirma,
           LibroLeerOrdenDeEntrega, LibroAvanzar DEF NextOrden

\* The books of an empty contract.
LEMMA LibroInicial ==
  ASSUME Dinero, InitOrden
  PROVE  LibroInv
<1>1. /\ \A h \in Hilos : pedido[h].en = "libre"
      /\ \A e \in Entregas : ~EnMarcha(e) /\ ~entrega[e].recibida
      /\ \A o \in Ordenes : ~Existe(o)
  BY EntregasAssumption DEF InitOrden, Init, SinPedido, SinEntrega, SinOrden, EnMarcha, Emitida, Existe
<1>2. Reservadas = {} /\ Activas = {} BY <1>1 DEF Reservadas, Activas, Firmada
<1>3. \A f \in Fondos : Reservado(f) = 0 /\ Activado(f) = 0
  BY <1>2, SumaVacia DEF Reservado, Activado, SumaDe
<1>4. \A f \in Fondos : /\ fondo[f]["committedAmount"] = 0 /\ fondo[f]["montoActivo"] = 0
                        /\ fondo[f]["montoDisponible"] = Techo[f] /\ Techo[f] \in Nat
  BY DEF InitOrden, Init, FilaFondoCero, FundColumns, ServiceColumns, Dinero
<1>5. FondosBien BY <1>4 DEF FondosBien
<1>6. \A f \in Fondos : Cuadra(f, 0, 0) BY <1>3, <1>4 DEF Cuadra
<1> QED BY <1>1, <1>5, <1>6 DEF LibroInv

\* The books are kept.
LEMMA LibroSiempre ==
  ASSUME Dinero
  PROVE  SpecOrden => [](TipoInv /\ CargadoInv(Nat) /\ LibroInv)
<1> DEFINE Carga == CargadoInv(Nat)
<1>0. Cubre(Nat) /\ Regular BY OrdenesAssumption DEF Cubre, Dinero
<1>1. InitOrden => Carga /\ LibroInv BY <1>0, CargadoInicial, LibroInicial
<1>2. TipoInv /\ Carga /\ [NextOrden]_todas => Carga'
  <2> SUFFICES ASSUME TipoInv, Carga, [NextOrden]_todas PROVE Carga' OBVIOUS
  <2> QED BY <1>0, CargadoSiguiente
<1>3. TipoInv /\ TipoInv' /\ Carga /\ Carga' /\ RegularInv /\ RegularInv' /\ LibroInv /\ [NextOrden]_todas
        => LibroInv'
  <2> SUFFICES ASSUME TipoInv, TipoInv', Carga, Carga', RegularInv, RegularInv', LibroInv, [NextOrden]_todas
               PROVE  LibroInv'
    OBVIOUS
  <2> QED BY LibroSiguiente
<1>4. SpecOrden => []RegularInv BY <1>0, RegularSiempre
<1> HIDE DEF Carga
<1>5. SpecOrden => [](TipoInv /\ Carga /\ LibroInv)
  BY <1>1, <1>2, <1>3, <1>4, TipoInvSiempre, PTL DEF SpecOrden
<1> QED BY <1>5 DEF Carga

\* Requests and handlers in turns, with nothing lost: with nothing in flight the
\* committed amount of every fund is what the orders waiting for a signature
\* took from it, and the active one what the signed and not cancelled ones took.
\* create, remove and the handlers of the signatures agree on every charge,
\* however many funds, orders and amounts there are.
THEOREM ReservaSiempre == ASSUME Dinero PROVE SpecOrden => []ReservaCuadra
<1>1. TipoInv /\ CargadoInv(Nat) /\ LibroInv => ReservaCuadra
  <2> SUFFICES ASSUME TipoInv, CargadoInv(Nat), LibroInv, Quieto, NEW f \in Fondos
               PROVE  /\ fondo[f]["committedAmount"] = SumaDe(Reservadas, f)
                      /\ fondo[f]["montoActivo"] = SumaDe(Activas, f)
    BY DEF ReservaCuadra
  <2>1. Cuadra(f, 0, 0) BY DEF LibroInv
  <2>2. Reservado(f) \in Nat /\ Activado(f) \in Nat BY SumasBien
  <2> QED BY <2>1, <2>2 DEF Cuadra, Reservado, Activado
<1> QED BY <1>1, LibroSiempre, PTL

\* Under the same conditions no order is given money that a fund does not have:
\* what is committed is never negative and is always still available.
THEOREM SobregiroSiempre == ASSUME Dinero PROVE SpecOrden => []SinSobregiro
<1>1. TipoInv /\ CargadoInv(Nat) /\ LibroInv => SinSobregiro
  BY DEF LibroInv, FondosBien, SinSobregiro
<1> QED BY <1>1, LibroSiempre, PTL
=============================================================================
