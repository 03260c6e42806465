------------------------- MODULE OrdenContratoProofs -------------------------
(***************************************************************************)
(* Proofs about OrdenContrato for every set of orders, funds, amendments,  *)
(* requests and notifications.                                             *)
(***************************************************************************)
EXTENDS OrdenContrato, LibroContratoProofs

----
(* Type correctness.                                                       *)

\* A request in flight.
PedidoActivo == [op : Solicitudes, en : Consultas \ {"libre"}, orden : Ordenes,
                 docs : SUBSET Documentos, total : Totales \cup {0}, fila : FilaOrden,
                 escrituras : Seq(Escritura)]

\* A request does only the queries of its operation, and has something to write
\* when it writes.
EnSuSitio(q) ==
  /\ q.en \in {"fondos", "folio", "guardarNueva"} => q.op = "crear"
  /\ q.en = "comprometer" => q.op \in {"crear", "quitar", "actualizar"} /\ q.escrituras # <<>>
  /\ q.en = "orden" => q.op \in {"quitar", "actualizar", "cancelar", "firmar"}
  /\ q.en = "contrato" => q.op \in {"quitar", "actualizar"}
  /\ q.op \in {"crear", "actualizar"} => q.total \in Totales

\* The inductive form of TypeOKOrden: without EnSuSitio a request could write
\* the head of an empty list.
PedidosBien ==
  /\ pedido \in [Hilos -> PedidoActivo \cup {SinPedido}]
  /\ \A h \in Hilos : pedido[h].en # "libre" => EnSuSitio(pedido[h])
FirmasBien == firma \in [Documentos -> [estatus : EstatusDeFirma, ticket : BOOLEAN]]
EntregasBien == entrega \in [Entregas -> [recibida : BOOLEAN, monto : BOOLEAN, estatus : 0..2,
                                          guardar : BOOLEAN]]
OrdenesBien == orden \in [Ordenes -> FilaOrden]
TipoInv == TypeOK /\ OrdenesBien /\ PedidosBien /\ FirmasBien /\ EntregasBien

\* An order that was never created, and no request, are well typed.
LEMMA SinOrdenTipo == SinOrden \in FilaOrden
BY DEF SinOrden, FilaOrden, Estatus

\* A request in flight is one.
LEMMA PedidoTipo ==
  ASSUME PedidosBien, NEW h \in Hilos, pedido[h].en # "libre"
  PROVE  /\ pedido[h] \in PedidoActivo /\ EnSuSitio(pedido[h])
         /\ pedido[h].op \in Solicitudes /\ pedido[h].orden \in Ordenes
         /\ pedido[h].docs \in SUBSET Documentos /\ pedido[h].total \in Totales \cup {0}
         /\ pedido[h].fila \in FilaOrden /\ pedido[h].escrituras \in Seq(Escritura)
<1>1. pedido[h] \in PedidoActivo /\ EnSuSitio(pedido[h]) BY DEF PedidosBien, SinPedido
<1> QED BY <1>1 DEF PedidoActivo

\* A request that is replaced by another one, or by none.
LEMMA PedidoNuevoTipo ==
  ASSUME PedidosBien, NEW h \in Hilos, NEW q, q = SinPedido \/ (q \in PedidoActivo /\ EnSuSitio(q)),
         pedido' = [pedido EXCEPT ![h] = q]
  PROVE  PedidosBien'
<1>1. pedido' \in [Hilos -> PedidoActivo \cup {SinPedido}] BY DEF PedidosBien
<1>2. ASSUME NEW g \in Hilos, pedido'[g].en # "libre" PROVE EnSuSitio(pedido'[g])
  <2>1. CASE g = h
    <3>1. pedido'[g] = q /\ q # SinPedido BY <1>2, <2>1 DEF PedidosBien, SinPedido
    <3> QED BY <3>1
  <2>2. CASE g # h
    <3>1. pedido'[g] = pedido[g] BY <2>2 DEF PedidosBien
    <3> QED BY <1>2, <3>1 DEF PedidosBien
  <2> QED BY <2>1, <2>2
<1> QED BY <1>1, <1>2 DEF PedidosBien, EnSuSitio

\* The answer to a request.
LEMMA ResponderTipo ==
  ASSUME PedidosBien, NEW h \in Hilos, Responder(h)
  PROVE  PedidosBien'
BY PedidoNuevoTipo DEF Responder

\* The next query of a request, with the row and the writes it keeps.
LEMMA SeguirConTipo ==
  ASSUME PedidosBien, NEW h \in Hilos, pedido[h].en # "libre",
         NEW en \in Consultas \ {"libre"}, NEW fila \in FilaOrden, NEW es \in Seq(Escritura),
         EnSuSitio([pedido[h] EXCEPT !.en = en, !.fila = fila, !.escrituras = es]),
         SeguirCon(h, en, fila, es)
  PROVE  PedidosBien'
<1> DEFINE q == [pedido[h] EXCEPT !.en = en, !.fila = fila, !.escrituras = es]
<1>1. q \in PedidoActivo BY PedidoTipo DEF PedidoActivo
<1>2. pedido' = [pedido EXCEPT ![h] = q] BY DEF SeguirCon, PedidosBien
<1> HIDE DEF q
<1>3. EnSuSitio(q) BY DEF q
<1> QED BY <1>1, <1>2, <1>3, PedidoNuevoTipo

\* The next query of a request that keeps what it has.
LEMMA SeguirTipo ==
  ASSUME PedidosBien, NEW h \in Hilos, pedido[h].en # "libre",
         NEW en \in Consultas \ {"libre"}, EnSuSitio([pedido[h] EXCEPT !.en = en]),
         Seguir(h, en)
  PROVE  PedidosBien'
<1> DEFINE q == [pedido[h] EXCEPT !.en = en]
<1>1. q \in PedidoActivo BY PedidoTipo DEF PedidoActivo
<1>2. pedido' = [pedido EXCEPT ![h] = q] BY DEF Seguir, PedidosBien
<1> HIDE DEF q
<1>3. EnSuSitio(q) BY DEF q
<1> QED BY <1>1, <1>2, <1>3, PedidoNuevoTipo

\* create undoes its order.
LEMMA QuitarTrasFalloTipo ==
  ASSUME PedidosBien, NEW h \in Hilos, pedido[h].en # "libre", QuitarTrasFallo(h)
  PROVE  PedidosBien'
<1> DEFINE q == [pedido[h] EXCEPT !.op = "quitar", !.en = "orden"]
<1>1. q \in PedidoActivo BY PedidoTipo DEF PedidoActivo, Solicitudes, Consultas
<1>2. pedido' = [pedido EXCEPT ![h] = q] BY DEF QuitarTrasFallo, PedidosBien
<1>3. EnSuSitio(q) BY PedidoTipo DEF PedidoActivo, EnSuSitio
<1> HIDE DEF q
<1> QED BY <1>1, <1>2, <1>3, PedidoNuevoTipo

\* The request that arrives.
LEMMA PedirTipo ==
  ASSUME TipoInv, NEW h \in Hilos, NEW op \in Solicitudes, NEW en \in Consultas \ {"libre"},
         NEW o \in Ordenes, NEW docs \in SUBSET Documentos, NEW total \in Totales \cup {0},
         en = "fondos" => op = "crear" /\ total \in Totales,
         en \in {"fondos", "orden"}, en = "orden" => op # "crear",
         op = "actualizar" => total \in Totales,
         Pedir(h, op, en, o, docs, total)
  PROVE  TipoInv'
<1> DEFINE q == [op |-> op, en |-> en, orden |-> o, docs |-> docs, total |-> total,
                 fila |-> SinOrden, escrituras |-> <<>>]
<1>1. q \in PedidoActivo /\ EnSuSitio(q)
  BY SinOrdenTipo DEF PedidoActivo, EnSuSitio, Solicitudes
<1>2. pedido' = [pedido EXCEPT ![h] = q] BY DEF Pedir
<1> HIDE DEF q
<1>3. PedidosBien' BY <1>1, <1>2, PedidoNuevoTipo DEF TipoInv
<1>4. TypeOK' BY DEF TipoInv, TypeOK, Pedir, varsLibro
<1>5. OrdenesBien' /\ FirmasBien' /\ EntregasBien'
  BY DEF TipoInv, OrdenesBien, FirmasBien, EntregasBien, Pedir
<1> QED BY <1>3, <1>4, <1>5 DEF TipoInv

\* A row of the ledger that stays as it was.
LEMMA LibroQuietoTipo == ASSUME TypeOK, UNCHANGED vars PROVE TypeOK'
BY DEF TypeOK, vars

\* The charges of an order.
LEMMA CargosTipo ==
  ASSUME NEW fila \in FilaOrden
  PROVE  /\ Cargos(fila) \in Seq(Cargo) /\ Cargos(fila) # <<>>
         /\ fila.desglose \in Seq(Cargo) /\ fila.total \in Int
<1>1. fila.desglose \in Seq(Cargo) /\ fila.total \in Int BY DEF FilaOrden
<1>2. [fondo |-> Maestro, monto |-> fila.total] \in Cargo
  BY <1>1, FondosAssumption DEF Cargo
<1> QED BY <1>1, <1>2 DEF Cargos

\* The row of an order that create makes.
LEMMA FilaNuevaTipo ==
  ASSUME NEW total \in Int, NEW d \in Seq(Cargo)
  PROVE  LET fila == [SinOrden EXCEPT !.existe = "si", !.total = total, !.desglose = d]
         IN  /\ fila \in FilaOrden
             /\ fila.existe = "si" /\ fila.total = total /\ fila.desglose = d
             /\ fila.estatus = "PENDIENTE"
<1>1. PICK r \in FilaOrden : r = SinOrden /\ r.estatus = "PENDIENTE"
  BY SinOrdenTipo DEF SinOrden
<1> DEFINE fila == [r EXCEPT !.existe = "si", !.total = total, !.desglose = d]
<1>2. fila \in FilaOrden BY DEF FilaOrden
<1>3. /\ fila.existe = "si" /\ fila.total = total /\ fila.desglose = d
      /\ fila.estatus = "PENDIENTE"
  BY <1>1 DEF FilaOrden
<1> QED BY <1>1, <1>2, <1>3

\* create reads what the funds have.
LEMMA LeerFondosTipo ==
  ASSUME TipoInv, NEW h \in Hilos, LeerFondos(h)
  PROVE  TipoInv'
<1> DEFINE plan == PlanDeFondos(fondo, Maestro, Extensiones, pedido[h].total)
           fila == [SinOrden EXCEPT !.existe = "si", !.total = pedido[h].total,
                                    !.desglose = Desglose(plan, Maestro)]
<1>1. pedido[h].en = "fondos" /\ UNCHANGED <<vars, orden, firma, entrega>>
  BY DEF LeerFondos
<1>2. PedidosBien /\ pedido[h].en # "libre" /\ pedido[h].op = "crear"
      /\ pedido[h].total \in Totales /\ pedido[h].total \in Nat \ {0}
      /\ pedido[h] \in PedidoActivo
  BY <1>1, PedidoTipo, OrdenesAssumption DEF TipoInv, EnSuSitio
<1>3. PlanBien(plan, pedido[h].total, Fondos)
  BY <1>2, PlanDeFondosBien, OrdenesAssumption DEF TipoInv, TypeOK
<1>4. CASE PlanCubierto(plan)
  <2>1. SeguirCon(h, "comprometer", fila, plan.escrituras) BY <1>4 DEF LeerFondos
  <2> HIDE DEF plan
  <2>2. plan.escrituras \in Seq(Escritura) /\ plan.escrituras # <<>> /\ plan.usos \in Seq(Cargo)
    <3>1. plan.resto # pedido[h].total BY <1>2, <1>4 DEF PlanCubierto
    <3>2. plan.usos # <<>> /\ plan.usos \in Seq(Cargo) /\ plan.escrituras \in Seq(Escritura)
          /\ Len(plan.usos) <= Len(plan.escrituras)
      BY <1>3, <3>1 DEF PlanBien
    <3>3. Len(plan.usos) > 0 BY <3>2
    <3> QED BY <3>2, <3>3
  <2>3. fila \in FilaOrden
    <3> DEFINE d == Desglose(plan, Maestro)
               t == pedido[h].total
    <3>1. d \in Seq(Cargo) BY <2>2 DEF Desglose
    <3>2. t \in Int BY <1>2
    <3>3. fila = [SinOrden EXCEPT !.existe = "si", !.total = t, !.desglose = d] OBVIOUS
    <3> HIDE DEF d, t, fila
    <3> QED BY <3>1, <3>2, <3>3, FilaNuevaTipo
  <2> HIDE DEF fila
  <2>4. EnSuSitio([pedido[h] EXCEPT !.en = "comprometer", !.fila = fila,
                                    !.escrituras = plan.escrituras])
    BY <1>2, <2>2 DEF EnSuSitio, PedidoActivo
  <2>5. PedidosBien' BY <1>2, <2>1, <2>2, <2>3, <2>4, SeguirConTipo DEF Consultas
  <2> QED BY <1>1, <2>5, LibroQuietoTipo DEF TipoInv, OrdenesBien, FirmasBien, EntregasBien
<1>5. CASE ~PlanCubierto(plan)
  <2>1. PedidosBien' BY <1>2, <1>5, ResponderTipo DEF LeerFondos
  <2> QED BY <1>1, <2>1, LibroQuietoTipo DEF TipoInv, OrdenesBien, FirmasBien, EntregasBien
<1> QED BY <1>4, <1>5

\* A request writes a committed amount.
LEMMA EscribirReservaTipo ==
  ASSUME TipoInv, NEW h \in Hilos, EscribirReserva(h)
  PROVE  TipoInv'
<1> DEFINE es == pedido[h].escrituras
           en == IF Tail(es) # <<>> THEN "comprometer"
                 ELSE CASE pedido[h].op = "crear"      -> "folio"
                        [] pedido[h].op = "quitar"     -> "borrar"
                        [] pedido[h].op = "actualizar" -> "servicios"
<1>1. pedido[h].en = "comprometer" /\ EscribirComprometido(Head(es).fondo, Head(es).valor)
      /\ SeguirCon(h, en, pedido[h].fila, Tail(es)) /\ UNCHANGED <<inicios, orden, firma, entrega>>
  BY DEF EscribirReserva
<1>2. PedidosBien /\ pedido[h].en # "libre" /\ pedido[h].op \in {"crear", "quitar", "actualizar"}
      /\ pedido[h] \in PedidoActivo /\ pedido[h].fila \in FilaOrden
      /\ es \in Seq(Escritura) /\ es # <<>>
      /\ (pedido[h].op \in {"crear", "actualizar"} => pedido[h].total \in Totales)
  BY <1>1, PedidoTipo DEF TipoInv, EnSuSitio
<1>3. Head(es) \in Escritura /\ Tail(es) \in Seq(Escritura) BY <1>2
<1>4. Head(es).fondo \in Fondos /\ Head(es).valor \in Int \cup {NaN} BY <1>3 DEF Escritura
<1>5. TypeOK'
  <2>1. inicios' \in Nat BY <1>1 DEF TipoInv, TypeOK
  <2> QED BY <1>1, <1>4, <2>1, ComprometidoTipo DEF TipoInv
<1>6. en \in Consultas \ {"libre"} BY <1>2 DEF Consultas
<1>7. EnSuSitio([pedido[h] EXCEPT !.en = en, !.fila = pedido[h].fila, !.escrituras = Tail(es)])
  BY <1>2 DEF EnSuSitio, PedidoActivo
<1> HIDE DEF en, es
<1>8. PedidosBien' BY <1>1, <1>2, <1>3, <1>6, <1>7, SeguirConTipo
<1> QED BY <1>1, <1>5, <1>8 DEF TipoInv, OrdenesBien, FirmasBien, EntregasBien

\* The folios in use, and the largest of them.
LEMMA FoliosTipo ==
  ASSUME OrdenesBien
  PROVE  Folios \subseteq Nat /\ Max(Folios \cup {0}) \in Nat
         /\ \A k \in Folios : k <= Max(Folios \cup {0})
<1> DEFINE X == {x \in Ordenes : Existe(x)}
           g == [x \in X |-> orden[x].folio]
           S == Folios \cup {0}
<1>1. Folios \subseteq Nat BY DEF Folios, OrdenesBien, FilaOrden
<1>2. IsFiniteSet(Folios)
  <2>1. IsFiniteSet(X) BY OrdenesAssumption, FS_Subset
  <2>2. g \in Surjection(X, Folios) BY DEF Surjection, Folios
  <2> HIDE DEF X, g
  <2> QED BY <2>1, <2>2, FS_Surjection
<1>3. IsFiniteSet(S) /\ S # {} /\ \A x \in S : x \in Int BY <1>1, <1>2, FS_AddElement
<1> HIDE DEF S
<1>4. \E x \in S : \A y \in S : x >= y BY <1>3, MaximoHay
<1>5. Max(S) \in S /\ \A y \in S : Max(S) >= y BY <1>4 DEF Max
<1>6. S \subseteq Nat /\ Folios \subseteq S BY <1>1 DEF S
<1>7. Max(S) \in Nat /\ \A k \in Folios : k <= Max(S)
  <2> HIDE DEF S
  <2> QED BY <1>5, <1>6
<1> QED BY <1>1, <1>7 DEF S

\* create reads the largest folio.
LEMMA LeerFolioTipo ==
  ASSUME TipoInv, NEW h \in Hilos, LeerFolio(h)
  PROVE  TipoInv'
<1> DEFINE fila == [pedido[h].fila EXCEPT !.folio = Max(Folios \cup {0}) + 1]
<1>1. pedido[h].en = "folio" /\ SeguirCon(h, "guardarNueva", fila, <<>>)
      /\ UNCHANGED <<vars, orden, firma, entrega>>
  BY DEF LeerFolio
<1>2. PedidosBien /\ pedido[h].en # "libre" /\ pedido[h].op = "crear"
      /\ pedido[h].total \in Totales /\ pedido[h] \in PedidoActivo /\ pedido[h].fila \in FilaOrden
  BY <1>1, PedidoTipo DEF TipoInv, EnSuSitio
<1>3. fila \in FilaOrden BY <1>2, FoliosTipo DEF TipoInv, FilaOrden
<1> HIDE DEF fila
<1>4. EnSuSitio([pedido[h] EXCEPT !.en = "guardarNueva", !.fila = fila, !.escrituras = <<>>])
  BY <1>2 DEF EnSuSitio, PedidoActivo
<1>5. "guardarNueva" \in Consultas \ {"libre"} /\ <<>> \in Seq(Escritura) BY DEF Consultas
<1>6. PedidosBien' BY <1>1, <1>2, <1>3, <1>4, <1>5, SeguirConTipo
<1> QED BY <1>1, <1>6, LibroQuietoTipo DEF TipoInv, OrdenesBien, FirmasBien, EntregasBien

\* A step that changes only the requests.
LEMMA SoloPedidosTipo ==
  ASSUME TipoInv, UNCHANGED <<vars, orden, firma, entrega>>, PedidosBien'
  PROVE  TipoInv'
BY LibroQuietoTipo DEF TipoInv, OrdenesBien, FirmasBien, EntregasBien

\* A row of an order that is replaced.
LEMMA FilaCambiadaTipo ==
  ASSUME OrdenesBien, NEW o \in Ordenes, NEW fila \in FilaOrden,
         orden' = [orden EXCEPT ![o] = fila]
  PROVE  OrdenesBien'
BY DEF OrdenesBien

\* create saves its order.
LEMMA GuardarNuevaTipo ==
  ASSUME TipoInv, NEW h \in Hilos, GuardarNueva(h)
  PROVE  TipoInv'
<1> DEFINE o == pedido[h].orden
           fila == pedido[h].fila
<1>1. pedido[h].en = "guardarNueva" /\ UNCHANGED <<vars, firma, entrega>>
  BY DEF GuardarNueva
<1>2. PedidosBien /\ OrdenesBien /\ pedido[h].en # "libre" /\ pedido[h].op = "crear" /\ o \in Ordenes
      /\ fila \in FilaOrden /\ pedido[h] \in PedidoActivo /\ pedido[h].total \in Totales
  BY <1>1, PedidoTipo DEF TipoInv, EnSuSitio
<1>3. (Responder(h) /\ UNCHANGED orden)
      \/ (orden' = [orden EXCEPT ![o] = fila] /\ Seguir(h, "servicios"))
  BY DEF GuardarNueva
<1>4. EnSuSitio([pedido[h] EXCEPT !.en = "servicios"]) /\ "servicios" \in Consultas \ {"libre"}
  BY <1>2 DEF EnSuSitio, PedidoActivo, Consultas
<1> HIDE DEF o, fila
<1>5. OrdenesBien' BY <1>2, <1>3, FilaCambiadaTipo DEF OrdenesBien
<1>6. PedidosBien' BY <1>2, <1>3, <1>4, ResponderTipo, SeguirTipo
<1> QED BY <1>1, <1>5, <1>6, LibroQuietoTipo DEF TipoInv, FirmasBien, EntregasBien

\* create saves the services of its order, or undoes it.
LEMMA CrearServiciosTipo ==
  ASSUME TipoInv, NEW h \in Hilos, CrearServicios(h)
  PROVE  TipoInv'
<1>1. pedido[h].en = "servicios" /\ UNCHANGED <<vars, orden, firma, entrega>>
      /\ (Responder(h) \/ QuitarTrasFallo(h))
  BY DEF CrearServicios
<1>2. PedidosBien' BY <1>1, ResponderTipo, QuitarTrasFalloTipo DEF TipoInv
<1> QED BY <1>1, <1>2, SoloPedidosTipo

\* A request reads its order.
LEMMA LeerOrdenTipo ==
  ASSUME TipoInv, NEW h \in Hilos, LeerOrden(h)
  PROVE  TipoInv'
<1> DEFINE o == pedido[h].orden
           en == CASE pedido[h].op \in {"quitar", "actualizar"} -> "contrato"
                   [] pedido[h].op = "firmar"   -> "firmantes"
                   [] pedido[h].op = "cancelar" -> "estatus"
           fila == orden[o]
           nada == <<>>
<1>1. pedido[h].en = "orden" /\ UNCHANGED <<vars, orden, firma, entrega>>
      /\ (Responder(h) \/ SeguirCon(h, en, fila, nada))
  BY DEF LeerOrden
<1>2. PedidosBien /\ pedido[h].en # "libre" /\ o \in Ordenes /\ pedido[h] \in PedidoActivo
      /\ pedido[h].op \in {"quitar", "actualizar", "cancelar", "firmar"}
      /\ (pedido[h].op = "actualizar" => pedido[h].total \in Totales)
  BY <1>1, PedidoTipo DEF TipoInv, EnSuSitio
<1>3. fila \in FilaOrden BY <1>2 DEF TipoInv, OrdenesBien
<1>4. nada \in Seq(Escritura) /\ en \in Consultas \ {"libre"} BY <1>2 DEF Consultas
<1>5. EnSuSitio([pedido[h] EXCEPT !.en = en, !.fila = fila, !.escrituras = nada])
  BY <1>2 DEF EnSuSitio, PedidoActivo
<1> HIDE DEF en, fila, nada
<1>6. PedidosBien' BY <1>1, <1>2, <1>3, <1>4, <1>5, ResponderTipo, SeguirConTipo
<1> QED BY <1>1, <1>6, SoloPedidosTipo

\* Taking from an amount leaves an amount, or NaN when it already was; exactly
\* the difference when there are no fractions of a cent.
LEMMA RestaTipo ==
  ASSUME NEW v \in Int \cup {NaN}, NEW m \in Int
  PROVE  /\ Redondear(Menos(v, m)) \in Int \cup {NaN}
         /\ v \in Int /\ Centavo = 1 => Redondear(Menos(v, m)) = v - m
<1>1. Menos(v, m) \in Int \cup {NaN} /\ (v \in Int => Menos(v, m) \in Int /\ Menos(v, m) = v - m)
  BY NaNAssumption DEF Menos
<1>2. ASSUME NEW x \in Int \cup {NaN}
      PROVE  Redondear(x) \in Int \cup {NaN} /\ (x \in Int /\ Centavo = 1 => Redondear(x) = x)
  <2>1. CASE x \in Int
    <3>1. Redondear(x) = toDecimalPlaces(x) /\ toDecimalPlaces(x) \in Int
      BY <2>1, NaNAssumption, RedondeoAcotado DEF Redondear
    <3>2. Centavo = 1 => EsCentavo(x) BY <2>1 DEF EsCentavo
    <3> QED BY <2>1, <3>1, <3>2, RedondeoEntero
  <2>2. CASE x = NaN BY <2>2, NaNAssumption DEF Redondear
  <2> QED BY <2>1, <2>2
<1> QED BY <1>1, <1>2

\* What remove gives back: one write per charge.
LEMMA DevolucionesTipo ==
  ASSUME TypeOK, NEW fila \in FilaOrden
  PROVE  /\ Devoluciones(fila) \in Seq(Escritura) /\ Devoluciones(fila) # <<>>
         /\ Len(Devoluciones(fila)) = Len(Cargos(fila))
         /\ \A i \in 1..Len(Cargos(fila)) :
              /\ Cargos(fila)[i] \in Cargo
              /\ Devoluciones(fila)[i].fondo = Cargos(fila)[i].fondo
              /\ Devoluciones(fila)[i].valor =
                   Redondear(Menos(fondo[Cargos(fila)[i].fondo]["committedAmount"],
                                   Cargos(fila)[i].monto))
<1> DEFINE c == Cargos(fila)
           n == Len(c)
           d == [i \in 1..n |->
                   [fondo |-> c[i].fondo,
                    valor |-> Redondear(Menos(fondo[c[i].fondo]["committedAmount"], c[i].monto))]]
<1>1. c \in Seq(Cargo) /\ c # <<>> /\ n \in Nat /\ n # 0 /\ DOMAIN c = 1..n BY CargosTipo
<1>2. Devoluciones(fila) = d BY <1>1 DEF Devoluciones
<1> HIDE DEF c
<1>3. \A i \in 1..n : c[i] \in Cargo /\ c[i].fondo \in Fondos /\ c[i].monto \in Int
  <2>1. \A i \in 1..n : c[i] \in Cargo BY <1>1
  <2> QED BY <2>1 DEF Cargo
<1>4. ASSUME NEW i \in 1..n PROVE d[i] \in Escritura
  <2> DEFINE f == c[i].fondo
             m == c[i].monto
             v == fondo[f]["committedAmount"]
  <2>1. f \in Fondos /\ m \in Int BY <1>3
  <2>2. v \in Int \cup {NaN} BY <2>1 DEF TypeOK, FundRow, FundColumns
  <2>3. Redondear(Menos(v, m)) \in Int \cup {NaN}
    <3> HIDE DEF v, m
    <3> QED BY <2>1, <2>2, RestaTipo
  <2> HIDE DEF f, v, m
  <2>4. d[i] = [fondo |-> f, valor |-> Redondear(Menos(v, m))] BY DEF f, v, m
  <2> QED BY <2>1, <2>3, <2>4 DEF Escritura
<1>5. d \in Seq(Escritura) /\ Len(d) = n /\ d # <<>>
  <2>1. d \in [1..n -> Escritura] BY <1>4
  <2>2. d \in Seq(Escritura) /\ Len(d) = n
    <3> HIDE DEF d
    <3> QED BY <1>1, <2>1, SeqDef, LenProperties
  <2> HIDE DEF d
  <2> QED BY <1>1, <2>2
<1>6. \A i \in 1..n : /\ d[i].fondo = c[i].fondo
                      /\ d[i].valor = Redondear(Menos(fondo[c[i].fondo]["committedAmount"], c[i].monto))
  OBVIOUS
<1> HIDE DEF d
<1> QED BY <1>2, <1>3, <1>5, <1>6 DEF c

\* remove and update read the contract.
LEMMA LeerContratoDeOrdenTipo ==
  ASSUME TipoInv, NEW h \in Hilos, LeerContratoDeOrden(h)
  PROVE  TipoInv'
<1> DEFINE fila == pedido[h].fila
<1>1. pedido[h].en = "contrato" /\ UNCHANGED <<vars, orden, firma, entrega>>
  BY DEF LeerContratoDeOrden
<1>2. PedidosBien /\ pedido[h].en # "libre" /\ pedido[h].op \in {"quitar", "actualizar"}
      /\ fila \in FilaOrden /\ pedido[h] \in PedidoActivo /\ TypeOK
      /\ (pedido[h].op = "actualizar" => pedido[h].total \in Totales)
      /\ "comprometer" \in Consultas \ {"libre"}
  BY <1>1, PedidoTipo DEF TipoInv, EnSuSitio, Consultas
<1>3. CASE pedido[h].op = "quitar"
  <2> DEFINE es == Devoluciones(fila)
  <2>1. SeguirCon(h, "comprometer", fila, es) BY <1>3 DEF LeerContratoDeOrden
  <2>2. es \in Seq(Escritura) /\ es # <<>> BY <1>2, DevolucionesTipo
  <2> HIDE DEF es, fila
  <2>3. EnSuSitio([pedido[h] EXCEPT !.en = "comprometer", !.fila = fila, !.escrituras = es])
    BY <1>2, <1>3, <2>2 DEF EnSuSitio, PedidoActivo
  <2>4. PedidosBien' BY <1>2, <2>1, <2>2, <2>3, SeguirConTipo
  <2> QED BY <1>1, <2>4, SoloPedidosTipo
<1>4. CASE pedido[h].op = "actualizar"
  <2> DEFINE sinOrden == Menos(fondo[Maestro]["committedAmount"], fila.total)
             t == pedido[h].total
             nueva == [fila EXCEPT !.total = t]
             e == [fondo |-> Maestro, valor |-> sinOrden + t]
             es == <<e>>
             cabe == sinOrden # NaN /\ sinOrden < MontoMaximo
  <2>1. (cabe /\ SeguirCon(h, "comprometer", nueva, es)) \/ Responder(h)
    BY <1>4 DEF LeerContratoDeOrden
  <2>2. t \in Int BY <1>2, <1>4, OrdenesAssumption
  <2>3. nueva \in FilaOrden BY <1>2, <2>2 DEF FilaOrden
  <2>4. sinOrden \in Int \cup {NaN}
    <3>1. fondo[Maestro]["committedAmount"] \in Int \cup {NaN}
      BY <1>2, FondosAssumption DEF TypeOK, FundRow, FundColumns
    <3>2. fila.total \in Int BY <1>2 DEF FilaOrden
    <3> QED BY <3>1, <3>2, NaNAssumption DEF Menos
  <2>5. cabe => es \in Seq(Escritura) /\ es # <<>>
    <3> SUFFICES ASSUME sinOrden # NaN PROVE es \in Seq(Escritura) /\ es # <<>> OBVIOUS
    <3> HIDE DEF sinOrden, t
    <3>1. sinOrden + t \in Int BY <2>2, <2>4
    <3>2. e \in Escritura BY <3>1, FondosAssumption DEF Escritura
    <3> HIDE DEF e
    <3> QED BY <3>2
  <2> HIDE DEF nueva, es, cabe, sinOrden, e, t, fila
  <2>6. cabe => EnSuSitio([pedido[h] EXCEPT !.en = "comprometer", !.fila = nueva, !.escrituras = es])
    BY <1>2, <1>4, <2>5 DEF EnSuSitio, PedidoActivo
  <2>7. PedidosBien' BY <1>2, <2>1, <2>3, <2>5, <2>6, SeguirConTipo, ResponderTipo
  <2> QED BY <1>1, <2>7, SoloPedidosTipo
<1> QED BY <1>2, <1>3, <1>4

\* An order that changes while its request is answered.
LEMMA OrdenYRespuestaTipo ==
  ASSUME TipoInv, NEW h \in Hilos, NEW o \in Ordenes, NEW fila \in FilaOrden,
         orden' = [orden EXCEPT ![o] = fila] \/ orden' = orden,
         Responder(h), UNCHANGED <<vars, firma, entrega>>
  PROVE  TipoInv'
<1>1. OrdenesBien' BY FilaCambiadaTipo DEF OrdenesBien, TipoInv
<1>2. PedidosBien' BY ResponderTipo DEF TipoInv
<1> QED BY <1>1, <1>2, LibroQuietoTipo DEF TipoInv, FirmasBien, EntregasBien

\* remove deletes the row.
LEMMA BorrarTipo ==
  ASSUME TipoInv, NEW h \in Hilos, Borrar(h)
  PROVE  TipoInv'
<1> DEFINE o == pedido[h].orden
           fila == [orden[o] EXCEPT !.existe = "borrada"]
<1>1. o \in Ordenes BY PedidoTipo DEF TipoInv, Borrar
<1>2. fila \in FilaOrden
  <2>1. orden[o] \in FilaOrden BY <1>1 DEF TipoInv, OrdenesBien
  <2> QED BY <2>1 DEF FilaOrden
<1>3. orden' = [orden EXCEPT ![o] = fila] \/ orden' = orden
  BY <1>1 DEF Borrar, TipoInv, OrdenesBien
<1>4. Responder(h) /\ UNCHANGED <<vars, firma, entrega>> BY DEF Borrar
<1> HIDE DEF o, fila
<1> QED BY <1>1, <1>2, <1>3, <1>4, OrdenYRespuestaTipo

\* update replaces the services.
LEMMA CambiarServiciosTipo ==
  ASSUME TipoInv, NEW h \in Hilos, CambiarServicios(h)
  PROVE  TipoInv'
<1>1. pedido[h].en = "servicios" /\ pedido[h].op = "actualizar"
      /\ UNCHANGED <<vars, orden, firma, entrega>> /\ (Seguir(h, "guardar") \/ Responder(h))
  BY DEF CambiarServicios
<1>2. PedidosBien /\ "guardar" \in Consultas \ {"libre"} /\ pedido[h] \in PedidoActivo
      /\ pedido[h].total \in Totales
  BY <1>1, PedidoTipo DEF TipoInv, Consultas, EnSuSitio
<1>3. EnSuSitio([pedido[h] EXCEPT !.en = "guardar"])
  BY <1>1, <1>2 DEF EnSuSitio, PedidoActivo
<1>4. PedidosBien' BY <1>1, <1>2, <1>3, ResponderTipo, SeguirTipo
<1> QED BY <1>1, <1>4, SoloPedidosTipo

\* A document looks up its signers.
LEMMA LeerFirmantesTipo ==
  ASSUME TipoInv, NEW h \in Hilos, LeerFirmantes(h)
  PROVE  TipoInv'
<1>1. pedido[h].en = "firmantes" /\ UNCHANGED <<vars, orden, firma, entrega>>
      /\ (Seguir(h, "documento") \/ Responder(h))
  BY DEF LeerFirmantes
<1>2. PedidosBien /\ "documento" \in Consultas \ {"libre"} /\ pedido[h] \in PedidoActivo
      /\ (pedido[h].op \in {"crear", "actualizar"} => pedido[h].total \in Totales)
  BY <1>1, PedidoTipo DEF TipoInv, Consultas, EnSuSitio
<1>3. EnSuSitio([pedido[h] EXCEPT !.en = "documento"])
  BY <1>1, <1>2 DEF EnSuSitio, PedidoActivo
<1>4. PedidosBien' BY <1>1, <1>2, <1>3, ResponderTipo, SeguirTipo
<1> QED BY <1>1, <1>4, SoloPedidosTipo

\* The document is saved.
LEMMA GuardarDocumentoTipo ==
  ASSUME TipoInv, NEW h \in Hilos, GuardarDocumento(h)
  PROVE  TipoInv'
<1> DEFINE r == pedido[h].fila
           fila == [r EXCEPT !.estatus = "PENDIENTE"]
           nada == <<>>
<1>1. pedido[h].en = "documento" /\ UNCHANGED <<vars, orden, entrega>>
      /\ SeguirCon(h, "guardar", fila, nada)
  BY DEF GuardarDocumento
<1>2. PedidosBien /\ "guardar" \in Consultas \ {"libre"} /\ pedido[h] \in PedidoActivo
      /\ (pedido[h].op \in {"crear", "actualizar"} => pedido[h].total \in Totales)
      /\ pedido[h].en # "libre" /\ r \in FilaOrden /\ nada \in Seq(Escritura)
  BY <1>1, PedidoTipo DEF TipoInv, Consultas, EnSuSitio
<1>3. fila \in FilaOrden BY <1>2 DEF FilaOrden, Estatus
<1> HIDE DEF r, fila
<1>4. EnSuSitio([pedido[h] EXCEPT !.en = "guardar", !.fila = fila, !.escrituras = nada])
  BY <1>1, <1>2 DEF EnSuSitio, PedidoActivo
<1> HIDE DEF nada
<1>5. PedidosBien' BY <1>1, <1>2, <1>3, <1>4, SeguirConTipo
<1>6. FirmasBien' BY DEF TipoInv, FirmasBien, GuardarDocumento, EstatusDeFirma
<1> QED BY <1>1, <1>5, <1>6, LibroQuietoTipo DEF TipoInv, OrdenesBien, EntregasBien

\* A request saves the row it read.
LEMMA GuardarTipo ==
  ASSUME TipoInv, NEW h \in Hilos, Guardar(h)
  PROVE  TipoInv'
<1> DEFINE o == pedido[h].orden
           fila == pedido[h].fila
<1>1. o \in Ordenes /\ fila \in FilaOrden BY PedidoTipo DEF TipoInv, Guardar
<1>2. orden' = [orden EXCEPT ![o] = fila] \/ orden' = orden BY DEF Guardar
<1>3. Responder(h) /\ UNCHANGED <<vars, firma, entrega>> BY DEF Guardar
<1> HIDE DEF o, fila
<1> QED BY <1>1, <1>2, <1>3, OrdenYRespuestaTipo

\* The order with a status of its own.
LEMMA EstatusTipo ==
  ASSUME OrdenesBien, NEW o \in Ordenes, NEW s \in Estatus
  PROVE  [orden[o] EXCEPT !.estatus = s] \in FilaOrden
<1>1. orden[o] \in FilaOrden BY DEF OrdenesBien
<1> QED BY <1>1 DEF FilaOrden

\* cancelarOrden writes the status.
LEMMA EscribirCanceladaTipo ==
  ASSUME TipoInv, NEW h \in Hilos, EscribirCancelada(h)
  PROVE  TipoInv'
<1> DEFINE o == pedido[h].orden
           fila == [orden[o] EXCEPT !.estatus = "CANCELADA"]
<1>1. o \in Ordenes BY PedidoTipo DEF TipoInv, EscribirCancelada
<1>2. fila \in FilaOrden BY <1>1, EstatusTipo DEF TipoInv, Estatus
<1>3. orden' = [orden EXCEPT ![o] = fila] \/ orden' = orden
  BY <1>1 DEF EscribirCancelada, TipoInv, OrdenesBien
<1>4. Responder(h) /\ UNCHANGED <<vars, firma, entrega>> BY DEF EscribirCancelada
<1> HIDE DEF o, fila
<1> QED BY <1>1, <1>2, <1>3, <1>4, OrdenYRespuestaTipo

\* A document gets its ticket.
LEMMA EnviarTipo ==
  ASSUME TipoInv, NEW d \in Documentos, EnviarAFirmamex(d)
  PROVE  TipoInv'
<1>1. FirmasBien' BY DEF EnviarAFirmamex, TipoInv, FirmasBien
<1> QED BY <1>1, LibroQuietoTipo
        DEF EnviarAFirmamex, TipoInv, OrdenesBien, PedidosBien, EntregasBien, EnSuSitio

\* A new start is counted.
LEMMA LibroContadoTipo ==
  ASSUME TypeOK, UNCHANGED varsLibro, inicios' \in Nat PROVE TypeOK'
BY DEF TypeOK, varsLibro

\* A delivery is replaced by another one.
LEMMA EntregaNuevaTipo ==
  ASSUME EntregasBien, NEW e \in Entregas,
         NEW r \in [recibida : BOOLEAN, monto : BOOLEAN, estatus : 0..2, guardar : BOOLEAN],
         entrega' = [entrega EXCEPT ![e] = r]
  PROVE  EntregasBien'
BY DEF EntregasBien

\* A delivery, and the document it is about.
LEMMA EntregaTipo ==
  ASSUME EntregasBien, NEW e \in Entregas
  PROVE  /\ entrega[e] \in [recibida : BOOLEAN, monto : BOOLEAN, estatus : 0..2,
                            guardar : BOOLEAN]
         /\ entrega[e].estatus \in 0..2 /\ entrega[e].monto \in BOOLEAN
         /\ entrega[e].recibida \in BOOLEAN
         /\ e[1] \in Documentos /\ OrdenDe(e[1]) \in Ordenes /\ AccionDe(e[1]) \in Acciones
<1>1. entrega[e] \in [recibida : BOOLEAN, monto : BOOLEAN, estatus : 0..2, guardar : BOOLEAN]
  BY DEF EntregasBien
<1>2. e[1] \in Documentos BY DEF Entregas
<1>3. OrdenDe(e[1]) \in Ordenes /\ AccionDe(e[1]) \in Acciones
  BY <1>2 DEF Documentos, OrdenDe, AccionDe
<1> QED BY <1>1, <1>2, <1>3

\* The provider notifies a signature.
LEMMA RecibirCompletadoTipo ==
  ASSUME TipoInv, NEW e \in Entregas, RecibirCompletado(e)
  PROVE  TipoInv'
<1> DEFINE s == IF AccionDe(e[1]) = "APPROVE" THEN 2 ELSE 1
           r == [recibida |-> TRUE, monto |-> TRUE, guardar |-> TRUE, estatus |-> s]
<1>1. entrega' = [entrega EXCEPT ![e] = r] BY DEF RecibirCompletado
<1>2. r \in [recibida : BOOLEAN, monto : BOOLEAN, estatus : 0..2, guardar : BOOLEAN]
  OBVIOUS
<1> HIDE DEF r
<1>3. EntregasBien' BY <1>1, <1>2, EntregaNuevaTipo DEF TipoInv
<1>4. inicios' \in Nat BY DEF RecibirCompletado, TipoInv, TypeOK
<1>5. UNCHANGED <<varsLibro, orden, pedido, firma>> BY DEF RecibirCompletado
<1> QED BY <1>3, <1>4, <1>5, LibroContadoTipo
        DEF TipoInv, OrdenesBien, PedidosBien, FirmasBien, EnSuSitio

\* The provider notifies a rejection.
LEMMA RecibirRechazoTipo ==
  ASSUME TipoInv, NEW d \in Documentos, RecibirRechazo(d)
  PROVE  TipoInv'
<1>1. FirmasBien' BY DEF RecibirRechazo, TipoInv, FirmasBien, EstatusDeFirma
<1>2. inicios' \in Nat BY DEF RecibirRechazo, TipoInv, TypeOK
<1>3. UNCHANGED <<varsLibro, orden, pedido, entrega>> BY DEF RecibirRechazo
<1> QED BY <1>1, <1>2, <1>3, LibroContadoTipo
        DEF TipoInv, OrdenesBien, PedidosBien, EntregasBien, EnSuSitio

\* The webhook saves its document.
LEMMA GuardarFirmaTipo ==
  ASSUME TipoInv, NEW e \in Entregas, GuardarFirma(e)
  PROVE  TipoInv'
<1>1. FirmasBien'
  <2>1. e[1] \in Documentos BY EntregaTipo DEF TipoInv
  <2> QED BY <2>1 DEF GuardarFirma, TipoInv, FirmasBien, EstatusDeFirma
<1>2. EntregasBien' BY DEF GuardarFirma, TipoInv, EntregasBien
<1> QED BY <1>1, <1>2, LibroQuietoTipo
        DEF GuardarFirma, TipoInv, OrdenesBien, PedidosBien, EnSuSitio

\* The charges handler of a delivery reads its order.
LEMMA LeerOrdenDeEntregaTipo ==
  ASSUME TipoInv, NEW e \in Entregas, LeerOrdenDeEntrega(e)
  PROVE  TipoInv'
<1> DEFINE o == OrdenDe(e[1])
           ll == [evento |-> EventoDe(e[1]), servicio |-> Servicio, cargos |-> Cargos(orden[o])]
<1>1. o \in Ordenes /\ e \in Tareas BY EntregaTipo, EntregasAssumption DEF TipoInv
<1>2. Cargos(orden[o]) \in Seq(Cargo) /\ Cargos(orden[o]) # <<>>
  BY <1>1, CargosTipo DEF TipoInv, OrdenesBien
<1>3. ll \in Llamada /\ ll.cargos # <<>>
  <2>1. EventoDe(e[1]) \in TYPE_EVENT BY DEF EventoDe, TYPE_EVENT, TYPE_EVENT_ORDER
  <2> QED BY <1>2, <2>1, OrdenesAssumption DEF Llamada
<1>4. inicios' \in Nat /\ UNCHANGED <<inicios, orden, pedido, firma>>
  BY DEF LeerOrdenDeEntrega, TipoInv, TypeOK
<1>5. Arrancar(e, ll) \/ UNCHANGED varsLibro BY DEF LeerOrdenDeEntrega
<1> HIDE DEF ll
<1>6. TypeOK' BY <1>1, <1>3, <1>4, <1>5, ArrancarTipo, LibroContadoTipo DEF TipoInv
<1>7. EntregasBien' BY DEF LeerOrdenDeEntrega, TipoInv, EntregasBien
<1> QED BY <1>4, <1>6, <1>7 DEF TipoInv, OrdenesBien, PedidosBien, FirmasBien, EnSuSitio

\* The status handler of a delivery writes.
LEMMA EscribirEstatusTipo ==
  ASSUME TipoInv, NEW e \in Entregas, EscribirEstatus(e)
  PROVE  TipoInv'
<1> DEFINE o == OrdenDe(e[1])
           fila == [orden[o] EXCEPT !.estatus = EstatusDe(e[1])]
           s == IF Existe(o) THEN entrega[e].estatus - 1 ELSE 0
           r == [entrega[e] EXCEPT !.estatus = s]
<1>1. o \in Ordenes /\ entrega[e].estatus \in 0..2 /\ entrega[e].estatus > 0
      /\ entrega[e] \in [recibida : BOOLEAN, monto : BOOLEAN, estatus : 0..2, guardar : BOOLEAN]
  BY EntregaTipo DEF TipoInv, EscribirEstatus
<1>2. fila \in FilaOrden BY <1>1, EstatusTipo DEF TipoInv, EstatusDe, Estatus
<1>3. orden' = [orden EXCEPT ![o] = fila] \/ orden' = orden
  BY <1>1 DEF EscribirEstatus, TipoInv, OrdenesBien
<1>4. entrega' = [entrega EXCEPT ![e] = r] /\ UNCHANGED <<vars, pedido, firma>>
  BY DEF EscribirEstatus, TipoInv, EntregasBien
<1>5. r \in [recibida : BOOLEAN, monto : BOOLEAN, estatus : 0..2, guardar : BOOLEAN]
  <2>1. s \in 0..2 BY <1>1
  <2> HIDE DEF s
  <2> QED BY <1>1, <2>1
<1> HIDE DEF o, fila, s, r
<1>6. OrdenesBien' BY <1>1, <1>2, <1>3, FilaCambiadaTipo DEF OrdenesBien, TipoInv
<1>7. EntregasBien' BY <1>4, <1>5, EntregaNuevaTipo DEF TipoInv
<1> QED BY <1>4, <1>6, <1>7, LibroQuietoTipo DEF TipoInv, PedidosBien, FirmasBien, EnSuSitio

\* A step of the activation of a delivery.
LEMMA AvanzarLibroTipo ==
  ASSUME TipoInv, NEW e \in Entregas, AvanzarLibro(e)
  PROVE  TipoInv'
BY AvanzarTipo, EntregasAssumption
   DEF AvanzarLibro, varsOrden, TipoInv, OrdenesBien, PedidosBien, FirmasBien, EntregasBien,
       EnSuSitio

\* A query of a request rejects.
LEMMA FallarPedidoTipo ==
  ASSUME TipoInv, NEW h \in Hilos, FallarPedido(h)
  PROVE  TipoInv'
<1>1. pedido[h].en # "libre" /\ UNCHANGED <<vars, orden, firma, entrega>>
      /\ (QuitarTrasFallo(h) \/ Responder(h))
  BY DEF FallarPedido
<1>2. PedidosBien' BY <1>1, ResponderTipo, QuitarTrasFalloTipo DEF TipoInv
<1> QED BY <1>1, <1>2, SoloPedidosTipo

\* A query of a handler of a delivery rejects.
LEMMA FallarEntregaTipo ==
  ASSUME TipoInv, NEW e \in Entregas, FallarEntrega(e)
  PROVE  TipoInv'
<1>1. TypeOK'
  BY FallarTipo, LibroQuietoTipo, EntregasAssumption DEF FallarEntrega, TipoInv
<1>2. EntregasBien'
  <2>1. entrega[e] \in [recibida : BOOLEAN, monto : BOOLEAN, estatus : 0..2, guardar : BOOLEAN]
    BY EntregaTipo DEF TipoInv
  <2>2. [entrega[e] EXCEPT !.estatus = 0]
          \in [recibida : BOOLEAN, monto : BOOLEAN, estatus : 0..2, guardar : BOOLEAN]
    BY <2>1
  <2>3. [entrega[e] EXCEPT !.monto = FALSE]
          \in [recibida : BOOLEAN, monto : BOOLEAN, estatus : 0..2, guardar : BOOLEAN]
    BY <2>1
  <2>4. [entrega[e] EXCEPT !.guardar = FALSE]
          \in [recibida : BOOLEAN, monto : BOOLEAN, estatus : 0..2, guardar : BOOLEAN]
    BY <2>1
  <2>5. \/ entrega' = entrega
        \/ entrega' = [entrega EXCEPT ![e] = [entrega[e] EXCEPT !.estatus = 0]]
        \/ entrega' = [entrega EXCEPT ![e] = [entrega[e] EXCEPT !.monto = FALSE]]
        \/ entrega' = [entrega EXCEPT ![e] = [entrega[e] EXCEPT !.guardar = FALSE]]
    BY DEF FallarEntrega, TipoInv, EntregasBien
  <2> QED BY <2>2, <2>3, <2>4, <2>5, EntregaNuevaTipo DEF TipoInv, EntregasBien
<1> QED BY <1>1, <1>2
        DEF FallarEntrega, TipoInv, OrdenesBien, PedidosBien, FirmasBien, EnSuSitio

\* The process stops.
LEMMA CaerServidorTipo ==
  ASSUME TipoInv, CaerServidor
  PROVE  TipoInv'
<1>1. TypeOK' BY PerderTipo DEF CaerServidor, TipoInv
<1>2. EntregasBien'
  <2>1. ASSUME NEW e \in Entregas
        PROVE  [SinEntrega EXCEPT !.recibida = entrega[e].recibida]
                 \in [recibida : BOOLEAN, monto : BOOLEAN, estatus : 0..2, guardar : BOOLEAN]
    <3>1. entrega[e].recibida \in BOOLEAN BY EntregaTipo DEF TipoInv
    <3>2. SinEntrega \in [recibida : BOOLEAN, monto : BOOLEAN, estatus : 0..2, guardar : BOOLEAN]
      BY DEF SinEntrega
    <3> QED BY <3>1, <3>2
  <2> QED BY <2>1 DEF CaerServidor, EntregasBien
<1>3. PedidosBien' BY DEF CaerServidor, PedidosBien, SinPedido
<1> QED BY <1>1, <1>2, <1>3
        DEF CaerServidor, TipoInv, OrdenesBien, FirmasBien

\* Every step keeps the types.
LEMMA TipoSiguiente ==
  ASSUME TipoInv, [NextOrden]_todas
  PROVE  TipoInv'
<1>1. CASE UNCHANGED todas BY <1>1, LibroQuietoTipo
     DEF todas, varsOrden, TipoInv, OrdenesBien, PedidosBien, FirmasBien, EntregasBien, EnSuSitio
<1>2. ASSUME NEW h \in Hilos, NEW o \in Ordenes, NEW total \in Totales, PedirCrear(h, o, total)
      PROVE  TipoInv'
  <2> DEFINE nada == {}
  <2>1. nada \in SUBSET Documentos /\ Pedir(h, "crear", "fondos", o, nada, total)
    BY <1>2 DEF PedirCrear
  <2> HIDE DEF nada
  <2> QED BY <2>1, PedirTipo DEF Solicitudes, Consultas
<1>3. ASSUME NEW h \in Hilos, NEW o \in Ordenes, NEW total \in Totales, NEW op,
             PedirSobre(h, op, o, total)
      PROVE  TipoInv'
  <2> DEFINE nada == {}
  <2>1. nada \in SUBSET Documentos /\ Pedir(h, op, "orden", o, nada, total)
        /\ op \in Solicitudes /\ op # "crear"
    BY <1>3 DEF PedirSobre, Solicitudes
  <2> HIDE DEF nada
  <2> QED BY <2>1, PedirTipo DEF Consultas
<1>4. ASSUME NEW h \in Hilos, NEW d \in Documentos, PedirFirma(h, d)
      PROVE  TipoInv'
  <2> DEFINE ds == {d}
             o == OrdenDe(d)
  <2>1. ds \in SUBSET Documentos /\ Pedir(h, "firmar", "orden", o, ds, 0) /\ o \in Ordenes
    BY <1>4 DEF PedirFirma, Documentos, OrdenDe
  <2>2. 0 \in Totales \cup {0} /\ "firmar" \in Solicitudes /\ "orden" \in Consultas \ {"libre"}
    BY DEF Solicitudes, Consultas
  <2> HIDE DEF ds, o
  <2> QED BY <2>1, <2>2, PedirTipo
<1>5. ASSUME NEW h \in Hilos, Atender(h) PROVE TipoInv'
  BY <1>5, LeerFondosTipo, EscribirReservaTipo, LeerFolioTipo, GuardarNuevaTipo,
     CrearServiciosTipo, LeerOrdenTipo, LeerContratoDeOrdenTipo, BorrarTipo,
     CambiarServiciosTipo, LeerFirmantesTipo, GuardarDocumentoTipo, GuardarTipo,
     EscribirCanceladaTipo DEF Atender
<1>6. ASSUME NEW h \in Hilos, FallarPedido(h) PROVE TipoInv' BY <1>6, FallarPedidoTipo
<1>7. ASSUME NEW d \in Documentos, EnviarAFirmamex(d) \/ RecibirRechazo(d) PROVE TipoInv'
  BY <1>7, EnviarTipo, RecibirRechazoTipo
<1>8. ASSUME NEW e \in Entregas, RecibirCompletado(e) \/ GuardarFirma(e)
             \/ LeerOrdenDeEntrega(e) \/ EscribirEstatus(e) \/ AvanzarLibro(e) \/ FallarEntrega(e)
      PROVE  TipoInv'
  BY <1>8, RecibirCompletadoTipo, GuardarFirmaTipo, LeerOrdenDeEntregaTipo,
     EscribirEstatusTipo, AvanzarLibroTipo, FallarEntregaTipo
<1>9. CASE CaerServidor BY <1>9, CaerServidorTipo
<1> QED BY <1>1, <1>2, <1>3, <1>4, <1>5, <1>6, <1>7, <1>8, <1>9 DEF NextOrden

\* The contract as it is created is well typed.
LEMMA LibroInicialTipo == ASSUME Init PROVE TypeOK
<1>1. ASSUME NEW f \in Fondos
      PROVE  [FilaFondoCero EXCEPT !["montoDisponible"] = Techo[f]] \in FundRow
  BY FilasCero, FondosAssumption DEF FundRow, FundColumns
<1> QED BY <1>1, FilasCero DEF Init, TypeOK, Pasos

\* So is everything when the service starts.
LEMMA TipoInicial == ASSUME InitOrden PROVE TipoInv
<1>1. TypeOK BY LibroInicialTipo DEF InitOrden
<1>2. OrdenesBien BY SinOrdenTipo DEF InitOrden, OrdenesBien
<1>3. PedidosBien BY DEF InitOrden, PedidosBien, SinPedido
<1>4. FirmasBien /\ EntregasBien
  BY DEF InitOrden, FirmasBien, EntregasBien, EstatusDeFirma, SinEntrega
<1> QED BY <1>1, <1>2, <1>3, <1>4 DEF TipoInv

\* Types, in every state.
LEMMA TipoInvSiempre == SpecOrden => []TipoInv
BY TipoInicial, TipoSiguiente, PTL DEF SpecOrden

\* Orders, requests, documents and deliveries are well typed in every state,
\* whatever requests race, fail or are lost: no handler reads the head of an
\* empty list and no query writes a row that the columns cannot hold.
THEOREM TipoOrden == SpecOrden => []TypeOKOrden
<1>1. TipoInv => TypeOKOrden
  BY DEF TipoInv, TypeOKOrden, OrdenesBien, PedidosBien, PedidoActivo, FirmasBien, EntregasBien
<1> QED BY <1>1, TipoInvSiempre, PTL

----
(* What a step leaves of the requests. *)

\* A request that goes on keeps what it is about; the others are not touched.
LEMMA SeguirConHace ==
  ASSUME PedidosBien, NEW h \in Hilos, pedido[h].en # "libre", NEW en, NEW fila, NEW es,
         SeguirCon(h, en, fila, es)
  PROVE  /\ pedido'[h].op = pedido[h].op /\ pedido'[h].orden = pedido[h].orden
         /\ pedido'[h].docs = pedido[h].docs /\ pedido'[h].total = pedido[h].total
         /\ pedido'[h].en = en /\ pedido'[h].fila = fila /\ pedido'[h].escrituras = es
         /\ \A g \in Hilos \ {h} : pedido'[g] = pedido[g]
<1> DEFINE q == [pedido[h] EXCEPT !.en = en, !.fila = fila, !.escrituras = es]
<1>1. pedido' = [pedido EXCEPT ![h] = q] BY DEF SeguirCon, PedidosBien
<1>2. /\ q.op = pedido[h].op /\ q.orden = pedido[h].orden /\ q.docs = pedido[h].docs
      /\ q.total = pedido[h].total /\ q.en = en /\ q.fila = fila /\ q.escrituras = es
  BY PedidoTipo DEF PedidoActivo
<1> HIDE DEF q
<1>3. pedido'[h] = q /\ \A g \in Hilos \ {h} : pedido'[g] = pedido[g]
  BY <1>1 DEF PedidosBien
<1> QED BY <1>2, <1>3

\* So does one that keeps what it has.
LEMMA SeguirHace ==
  ASSUME PedidosBien, NEW h \in Hilos, pedido[h].en # "libre", NEW en, Seguir(h, en)
  PROVE  /\ pedido'[h].op = pedido[h].op /\ pedido'[h].orden = pedido[h].orden
         /\ pedido'[h].docs = pedido[h].docs /\ pedido'[h].total = pedido[h].total
         /\ pedido'[h].en = en /\ pedido'[h].fila = pedido[h].fila
         /\ pedido'[h].escrituras = pedido[h].escrituras
         /\ \A g \in Hilos \ {h} : pedido'[g] = pedido[g]
<1> DEFINE q == [pedido[h] EXCEPT !.en = en]
<1>1. pedido' = [pedido EXCEPT ![h] = q] BY DEF Seguir, PedidosBien
<1>2. /\ q.op = pedido[h].op /\ q.orden = pedido[h].orden /\ q.docs = pedido[h].docs
      /\ q.total = pedido[h].total /\ q.en = en /\ q.fila = pedido[h].fila
      /\ q.escrituras = pedido[h].escrituras
  BY PedidoTipo DEF PedidoActivo
<1> HIDE DEF q
<1>3. pedido'[h] = q /\ \A g \in Hilos \ {h} : pedido'[g] = pedido[g]
  BY <1>1 DEF PedidosBien
<1> QED BY <1>2, <1>3

\* create that undoes its order goes on as a remove.
LEMMA QuitarTrasFalloHace ==
  ASSUME PedidosBien, NEW h \in Hilos, pedido[h].en # "libre", QuitarTrasFallo(h)
  PROVE  /\ pedido'[h].op = "quitar" /\ pedido'[h].orden = pedido[h].orden
         /\ pedido'[h].en = "orden" /\ pedido'[h].fila = pedido[h].fila
         /\ \A g \in Hilos \ {h} : pedido'[g] = pedido[g]
<1> DEFINE q == [pedido[h] EXCEPT !.op = "quitar", !.en = "orden"]
<1>1. pedido' = [pedido EXCEPT ![h] = q] BY DEF QuitarTrasFallo, PedidosBien
<1>2. /\ q.op = "quitar" /\ q.orden = pedido[h].orden /\ q.en = "orden"
      /\ q.fila = pedido[h].fila
  BY PedidoTipo DEF PedidoActivo
<1> HIDE DEF q
<1>3. pedido'[h] = q /\ \A g \in Hilos \ {h} : pedido'[g] = pedido[g]
  BY <1>1 DEF PedidosBien
<1> QED BY <1>2, <1>3

\* A request that is answered is over.
LEMMA ResponderHace ==
  ASSUME PedidosBien, NEW h \in Hilos, Responder(h)
  PROVE  /\ pedido'[h] = SinPedido /\ pedido'[h].en = "libre"
         /\ \A g \in Hilos \ {h} : pedido'[g] = pedido[g]
BY DEF Responder, PedidosBien, SinPedido

\* The request that arrives has read nothing.
LEMMA PedirHace ==
  ASSUME PedidosBien, NEW h \in Hilos, NEW op, NEW en, NEW o, NEW docs, NEW total,
         Pedir(h, op, en, o, docs, total)
  PROVE  /\ pedido'[h].op = op /\ pedido'[h].en = en /\ pedido'[h].orden = o
         /\ pedido'[h].docs = docs /\ pedido'[h].total = total
         /\ pedido'[h].fila = SinOrden /\ pedido'[h].escrituras = <<>>
         /\ \A g \in Hilos \ {h} : pedido'[g] = pedido[g]
BY DEF Pedir, PedidosBien

\* What arrives is a create, a request about an order or a document to sign.
LEMMA PedirCasos ==
  ASSUME NEW h \in Hilos, NEW o \in Ordenes, NEW total \in Totales,
         PedirCrear(h, o, total) \/ (\E op \in Operaciones : PedirSobre(h, op, o, total))
  PROVE  \E op \in Solicitudes, en \in {"fondos", "orden"}, docs \in {{}} :
           Pedir(h, op, en, o, docs, total)
<1> DEFINE nada == {}
<1> HIDE DEF nada
<1>1. CASE PedirCrear(h, o, total)
  <2>1. Pedir(h, "crear", "fondos", o, nada, total) BY <1>1 DEF PedirCrear, nada
  <2> QED BY <2>1 DEF Solicitudes, nada
<1>2. ASSUME NEW op \in Operaciones, PedirSobre(h, op, o, total)
      PROVE  \E op2 \in Solicitudes, en \in {"fondos", "orden"}, docs \in {{}} :
               Pedir(h, op2, en, o, docs, total)
  <2>1. Pedir(h, op, "orden", o, nada, total) /\ op \in Solicitudes
    BY <1>2, OrdenesAssumption DEF PedirSobre, nada
  <2> QED BY <2>1 DEF nada
<1> QED BY <1>1, <1>2

----
(* No order is active without a signature. *)

\* The orders, the rows that requests keep and the handlers that write the
\* status: a request may save an old row, so that the rows it has read must have
\* their signature too.
ActivaInv ==
  /\ \A o \in Ordenes : orden[o].estatus = "ACTIVA" => Firmada(o, "APPROVE")
  /\ \A h \in Hilos : pedido[h].en # "libre" /\ pedido[h].fila.estatus = "ACTIVA" =>
       Firmada(pedido[h].orden, "APPROVE")
  /\ \A e \in Entregas : entrega[e].estatus > 0 => entrega[e].recibida

\* A signature that was notified stays notified.
LEMMA FirmadaSigue ==
  ASSUME \A e \in Entregas : entrega[e].recibida => entrega'[e].recibida, NEW o, NEW accion,
         Firmada(o, accion)
  PROVE  Firmada(o, accion)'
BY DEF Firmada

\* A step that makes no row active but with a signature keeps the invariant.
LEMMA ActivaPaso ==
  ASSUME ActivaInv,
         \A e \in Entregas : entrega[e].recibida => entrega'[e].recibida,
         \A e \in Entregas : entrega'[e].estatus > 0 => entrega'[e].recibida,
         \A o \in Ordenes : orden'[o].estatus = "ACTIVA" =>
           orden[o].estatus = "ACTIVA" \/ Firmada(o, "APPROVE") \/ Firmada(o, "APPROVE")',
         \A h \in Hilos : pedido'[h].en # "libre" /\ pedido'[h].fila.estatus = "ACTIVA" =>
           Firmada(pedido'[h].orden, "APPROVE")
  PROVE  ActivaInv'
<1>1. \A o : Firmada(o, "APPROVE") => Firmada(o, "APPROVE")' BY FirmadaSigue
<1>2. \A o \in Ordenes : orden'[o].estatus = "ACTIVA" => Firmada(o, "APPROVE")'
  BY <1>1 DEF ActivaInv
<1>3. \A h \in Hilos : pedido'[h].en # "libre" /\ pedido'[h].fila.estatus = "ACTIVA" =>
        Firmada(pedido[h].orden, "APPROVE")'
  <2> SUFFICES ASSUME NEW h \in Hilos, pedido'[h].en # "libre", pedido'[h].fila.estatus = "ACTIVA"
               PROVE  Firmada(pedido[h].orden, "APPROVE")'
    OBVIOUS
  <2>1. Firmada(pedido'[h].orden, "APPROVE") OBVIOUS
  <2> DEFINE o == pedido'[h].orden
  <2>2. PICK e \in Entregas : entrega[e].recibida /\ OrdenDe(e[1]) = o
                              /\ AccionDe(e[1]) = "APPROVE"
    BY <2>1 DEF Firmada
  <2> QED BY <2>2 DEF Firmada
<1> QED BY <1>2, <1>3 DEF ActivaInv

\* A step of a request that touches neither orders nor deliveries.
LEMMA ActivaPedido ==
  ASSUME ActivaInv, PedidosBien, NEW h \in Hilos, pedido[h].en # "libre",
         UNCHANGED <<orden, entrega>>,
         \/ Responder(h) \/ QuitarTrasFallo(h)
         \/ \E en : Seguir(h, en)
         \/ \E en, fila, es : /\ SeguirCon(h, en, fila, es)
                              /\ fila.estatus = "ACTIVA" => Firmada(pedido[h].orden, "APPROVE")
  PROVE  ActivaInv'
<1>1. ASSUME NEW g \in Hilos, pedido'[g].en # "libre", pedido'[g].fila.estatus = "ACTIVA"
      PROVE  Firmada(pedido'[g].orden, "APPROVE")
  <2>1. CASE g # h
    <3>1. pedido'[g] = pedido[g]
      BY <2>1, SeguirConHace, SeguirHace, ResponderHace, QuitarTrasFalloHace
    <3> QED BY <1>1, <3>1 DEF ActivaInv
  <2>2. CASE g = h
    <3>1. CASE Responder(h) BY <1>1, <2>2, <3>1, ResponderHace
    <3>2. CASE QuitarTrasFallo(h) BY <1>1, <2>2, <3>2, QuitarTrasFalloHace DEF ActivaInv
    <3>3. ASSUME NEW en, Seguir(h, en) PROVE Firmada(pedido'[g].orden, "APPROVE")
      BY <1>1, <2>2, <3>3, SeguirHace DEF ActivaInv
    <3>4. ASSUME NEW en, NEW fila, NEW es, SeguirCon(h, en, fila, es),
                 fila.estatus = "ACTIVA" => Firmada(pedido[h].orden, "APPROVE")
          PROVE  Firmada(pedido'[g].orden, "APPROVE")
      BY <1>1, <2>2, <3>4, SeguirConHace
    <3> QED BY <3>1, <3>2, <3>3, <3>4
  <2> QED BY <2>1, <2>2
<1> QED BY <1>1, ActivaPaso DEF ActivaInv

\* A step that touches neither orders nor requests, and starts no handler of a
\* status but with its notification.
LEMMA ActivaEntrega ==
  ASSUME ActivaInv, UNCHANGED <<orden, pedido>>,
         \A e \in Entregas : entrega[e].recibida => entrega'[e].recibida,
         \A e \in Entregas : entrega'[e].estatus > 0 => entrega'[e].recibida
  PROVE  ActivaInv'
BY ActivaPaso DEF ActivaInv

\* A request reads, saves and answers.
LEMMA ActivaAtender ==
  ASSUME TipoInv, ActivaInv, NEW h \in Hilos, Atender(h)
  PROVE  ActivaInv'
<1>0. PedidosBien /\ OrdenesBien /\ EntregasBien BY DEF TipoInv
<1>1. CASE LeerFondos(h)
  <2> DEFINE plan == PlanDeFondos(fondo, Maestro, Extensiones, pedido[h].total)
             fila == [SinOrden EXCEPT !.existe = "si", !.total = pedido[h].total,
                                      !.desglose = Desglose(plan, Maestro)]
  <2>1. pedido[h].en # "libre" /\ UNCHANGED <<orden, entrega>>
        /\ (Responder(h) \/ SeguirCon(h, "comprometer", fila, plan.escrituras))
    BY <1>1 DEF LeerFondos
  <2>2. fila.estatus # "ACTIVA" BY DEF SinOrden
  <2> HIDE DEF fila, plan
  <2> QED BY <1>0, <2>1, <2>2, ActivaPedido
<1>2. CASE EscribirReserva(h)
  <2>1. pedido[h].en # "libre" /\ UNCHANGED <<orden, entrega>>
        /\ \E en, es : SeguirCon(h, en, pedido[h].fila, es)
    BY <1>2 DEF EscribirReserva
  <2>2. pedido[h].fila.estatus = "ACTIVA" => Firmada(pedido[h].orden, "APPROVE")
    BY <2>1 DEF ActivaInv
  <2> QED BY <1>0, <2>1, <2>2, ActivaPedido
<1>3. CASE LeerFolio(h)
  <2> DEFINE fila == [pedido[h].fila EXCEPT !.folio = Max(Folios \cup {0}) + 1]
             nada == <<>>
  <2>1. pedido[h].en # "libre" /\ UNCHANGED <<orden, entrega>>
        /\ SeguirCon(h, "guardarNueva", fila, nada)
    BY <1>3 DEF LeerFolio
  <2>2. fila.estatus = pedido[h].fila.estatus BY <1>0, <2>1, PedidoTipo DEF FilaOrden
  <2>3. fila.estatus = "ACTIVA" => Firmada(pedido[h].orden, "APPROVE")
    BY <2>1, <2>2 DEF ActivaInv
  <2> HIDE DEF fila, nada
  <2> QED BY <1>0, <2>1, <2>3, ActivaPedido
<1>4. ASSUME pedido[h].en # "libre", UNCHANGED entrega, Responder(h) \/ (\E en : Seguir(h, en)),
             \A o \in Ordenes : orden'[o].estatus = "ACTIVA" =>
               orden[o].estatus = "ACTIVA" \/ Firmada(o, "APPROVE")
      PROVE  ActivaInv'
  <2>1. ASSUME NEW g \in Hilos, pedido'[g].en # "libre", pedido'[g].fila.estatus = "ACTIVA"
        PROVE  Firmada(pedido'[g].orden, "APPROVE")
    <3>1. CASE g # h
      <4>1. pedido'[g] = pedido[g] BY <1>0, <1>4, <3>1, SeguirHace, ResponderHace
      <4> QED BY <2>1, <4>1 DEF ActivaInv
    <3>2. CASE g = h
      <4>1. CASE Responder(h) BY <1>0, <2>1, <3>2, <4>1, ResponderHace
      <4>2. ASSUME NEW en, Seguir(h, en) PROVE Firmada(pedido'[g].orden, "APPROVE")
        BY <1>0, <1>4, <2>1, <3>2, <4>2, SeguirHace DEF ActivaInv
      <4> QED BY <1>4, <4>1, <4>2
    <3> QED BY <3>1, <3>2
  <2> QED BY <1>4, <2>1, ActivaPaso DEF ActivaInv
<1>5. ASSUME NEW o \in Ordenes, NEW fila \in FilaOrden, orden' = orden \/ orden' = [orden EXCEPT ![o] = fila],
             fila.estatus = "ACTIVA" => orden[o].estatus = "ACTIVA" \/ Firmada(o, "APPROVE"),
             NEW x \in Ordenes, orden'[x].estatus = "ACTIVA"
      PROVE  orden[x].estatus = "ACTIVA" \/ Firmada(x, "APPROVE")
  BY <1>0, <1>5 DEF OrdenesBien
<1>6. CASE GuardarNueva(h)
  <2> DEFINE o == pedido[h].orden
             fila == pedido[h].fila
  <2>1. pedido[h].en # "libre" /\ UNCHANGED entrega
        /\ (Responder(h) \/ (\E en : Seguir(h, en)))
        /\ (orden' = orden \/ orden' = [orden EXCEPT ![o] = fila])
    BY <1>6 DEF GuardarNueva
  <2>2. o \in Ordenes /\ fila \in FilaOrden /\ (fila.estatus = "ACTIVA" => Firmada(o, "APPROVE"))
    BY <1>0, <2>1, PedidoTipo DEF ActivaInv
  <2> HIDE DEF o, fila
  <2> QED BY <1>4, <1>5, <2>1, <2>2
<1>7. CASE CrearServicios(h)
  <2>1. pedido[h].en # "libre" /\ UNCHANGED <<orden, entrega>>
        /\ (Responder(h) \/ QuitarTrasFallo(h))
    BY <1>7 DEF CrearServicios
  <2> QED BY <1>0, <2>1, ActivaPedido
<1>8. CASE LeerOrden(h)
  <2> DEFINE fila == orden[pedido[h].orden]
  <2>1. pedido[h].en # "libre" /\ UNCHANGED <<orden, entrega>>
        /\ (Responder(h) \/ \E en, es : SeguirCon(h, en, fila, es))
    BY <1>8 DEF LeerOrden
  <2>2. fila.estatus = "ACTIVA" => Firmada(pedido[h].orden, "APPROVE")
    BY <1>0, <2>1, PedidoTipo DEF ActivaInv
  <2> HIDE DEF fila
  <2> QED BY <1>0, <2>1, <2>2, ActivaPedido
<1>9. CASE LeerContratoDeOrden(h)
  <2> DEFINE r == pedido[h].fila
             nueva == [r EXCEPT !.total = pedido[h].total]
  <2>1. pedido[h].en # "libre" /\ UNCHANGED <<orden, entrega>>
        /\ \/ Responder(h)
           \/ \E en, es : SeguirCon(h, en, r, es)
           \/ \E en, es : SeguirCon(h, en, nueva, es)
    BY <1>9 DEF LeerContratoDeOrden
  <2>2. r \in FilaOrden /\ (r.estatus = "ACTIVA" => Firmada(pedido[h].orden, "APPROVE"))
    BY <1>0, <2>1, PedidoTipo DEF ActivaInv
  <2>3. nueva.estatus = r.estatus BY <2>2 DEF FilaOrden
  <2> HIDE DEF r, nueva
  <2> QED BY <1>0, <2>1, <2>2, <2>3, ActivaPedido
<1>10. CASE Borrar(h)
  <2> DEFINE o == pedido[h].orden
             fila == [orden[o] EXCEPT !.existe = "borrada"]
  <2>1. pedido[h].en # "libre" /\ UNCHANGED entrega /\ Responder(h) BY <1>10 DEF Borrar
  <2>2. o \in Ordenes BY <1>0, <2>1, PedidoTipo
  <2>3. orden[o] \in FilaOrden BY <1>0, <2>2 DEF OrdenesBien
  <2>4. fila \in FilaOrden /\ fila.estatus = orden[o].estatus BY <2>3 DEF FilaOrden
  <2>5. orden' = orden \/ orden' = [orden EXCEPT ![o] = fila]
    BY <1>0, <1>10, <2>2 DEF Borrar, OrdenesBien
  <2> HIDE DEF o, fila
  <2> QED BY <1>4, <1>5, <2>1, <2>2, <2>4, <2>5
<1>11. CASE CambiarServicios(h) \/ LeerFirmantes(h)
  <2>1. pedido[h].en # "libre" /\ UNCHANGED <<orden, entrega>>
        /\ (Responder(h) \/ \E en : Seguir(h, en))
    BY <1>11 DEF CambiarServicios, LeerFirmantes
  <2> QED BY <1>0, <2>1, ActivaPedido
<1>12. CASE GuardarDocumento(h)
  <2> DEFINE r == pedido[h].fila
             fila == [r EXCEPT !.estatus = "PENDIENTE"]
             nada == <<>>
  <2>1. pedido[h].en # "libre" /\ UNCHANGED <<orden, entrega>>
        /\ SeguirCon(h, "guardar", fila, nada)
    BY <1>12 DEF GuardarDocumento
  <2>2. r \in FilaOrden BY <1>0, <2>1, PedidoTipo
  <2>3. fila.estatus = "PENDIENTE" BY <2>2 DEF FilaOrden
  <2> HIDE DEF fila, nada
  <2> QED BY <1>0, <2>1, <2>3, ActivaPedido
<1>13. CASE Guardar(h)
  <2> DEFINE o == pedido[h].orden
             fila == pedido[h].fila
  <2>1. pedido[h].en # "libre" /\ UNCHANGED entrega /\ Responder(h)
        /\ (orden' = orden \/ orden' = [orden EXCEPT ![o] = fila])
    BY <1>13 DEF Guardar
  <2>2. o \in Ordenes /\ fila \in FilaOrden /\ (fila.estatus = "ACTIVA" => Firmada(o, "APPROVE"))
    BY <1>0, <2>1, PedidoTipo DEF ActivaInv
  <2> HIDE DEF o, fila
  <2> QED BY <1>4, <1>5, <2>1, <2>2
<1>14. CASE EscribirCancelada(h)
  <2> DEFINE o == pedido[h].orden
             fila == [orden[o] EXCEPT !.estatus = "CANCELADA"]
  <2>1. pedido[h].en # "libre" /\ UNCHANGED entrega /\ Responder(h)
    BY <1>14 DEF EscribirCancelada
  <2>2. o \in Ordenes BY <1>0, <2>1, PedidoTipo
  <2>3. orden[o] \in FilaOrden BY <1>0, <2>2 DEF OrdenesBien
  <2>4. fila \in FilaOrden /\ fila.estatus = "CANCELADA" BY <2>3 DEF FilaOrden, Estatus
  <2>5. orden' = orden \/ orden' = [orden EXCEPT ![o] = fila]
    BY <1>0, <1>14, <2>2 DEF EscribirCancelada, OrdenesBien
  <2> HIDE DEF o, fila
  <2> QED BY <1>4, <1>5, <2>1, <2>2, <2>4, <2>5
<1> QED BY <1>1, <1>2, <1>3, <1>6, <1>7, <1>8, <1>9, <1>10, <1>11, <1>12, <1>13, <1>14 DEF Atender

\* So does every step.
LEMMA ActivaSiguiente ==
  ASSUME TipoInv, ActivaInv, [NextOrden]_todas
  PROVE  ActivaInv'
<1>0. PedidosBien /\ OrdenesBien /\ EntregasBien BY DEF TipoInv
<1>1. CASE UNCHANGED todas BY <1>1, ActivaEntrega DEF todas, varsOrden, ActivaInv
<1>2. ASSUME NEW h \in Hilos, NEW op, NEW en, NEW o, NEW docs, NEW total,
             Pedir(h, op, en, o, docs, total)
      PROVE  ActivaInv'
  <2>1. UNCHANGED <<orden, entrega>> BY <1>2 DEF Pedir
  <2>2. ASSUME NEW g \in Hilos, pedido'[g].en # "libre", pedido'[g].fila.estatus = "ACTIVA"
        PROVE  Firmada(pedido'[g].orden, "APPROVE")
    <3>1. CASE g # h
      <4>1. pedido'[g] = pedido[g] BY <1>0, <1>2, <3>1, PedirHace
      <4> QED BY <2>2, <4>1 DEF ActivaInv
    <3>2. CASE g = h BY <1>0, <1>2, <2>2, <3>2, PedirHace DEF SinOrden
    <3> QED BY <3>1, <3>2
  <2> QED BY <2>1, <2>2, ActivaPaso DEF ActivaInv
<1>3. ASSUME NEW h \in Hilos, NEW o \in Ordenes, NEW total \in Totales,
             PedirCrear(h, o, total) \/ (\E op \in Operaciones : PedirSobre(h, op, o, total))
      PROVE  ActivaInv'
  BY <1>2, <1>3, PedirCasos
<1>4. ASSUME NEW h \in Hilos, NEW d \in Documentos, PedirFirma(h, d) PROVE ActivaInv'
  <2>1. \E ds : Pedir(h, "firmar", "orden", OrdenDe(d), ds, 0) BY <1>4 DEF PedirFirma
  <2> QED BY <1>2, <2>1
<1>5. ASSUME NEW h \in Hilos, FallarPedido(h) PROVE ActivaInv'
  <2>1. pedido[h].en # "libre" /\ UNCHANGED <<orden, entrega>>
        /\ (Responder(h) \/ QuitarTrasFallo(h))
    BY <1>5 DEF FallarPedido
  <2> QED BY <1>0, <2>1, ActivaPedido
<1>6. ASSUME NEW d \in Documentos, EnviarAFirmamex(d) \/ RecibirRechazo(d) PROVE ActivaInv'
  BY <1>6, ActivaEntrega DEF EnviarAFirmamex, RecibirRechazo, ActivaInv
<1>7. ASSUME NEW e \in Entregas, RecibirCompletado(e) PROVE ActivaInv'
  <2>1. UNCHANGED <<orden, pedido>> /\ entrega'[e].recibida
        /\ \A c \in Entregas \ {e} : entrega'[c] = entrega[c]
    BY <1>0, <1>7 DEF RecibirCompletado, EntregasBien
  <2> QED BY <2>1, ActivaEntrega DEF ActivaInv
<1>8. ASSUME NEW e \in Entregas, NEW r, entrega' = entrega \/ entrega' = [entrega EXCEPT ![e] = r],
             r.recibida = entrega[e].recibida, r.estatus > 0 => entrega[e].estatus > 0
      PROVE  /\ \A c \in Entregas : entrega[c].recibida => entrega'[c].recibida
             /\ \A c \in Entregas : entrega'[c].estatus > 0 => entrega'[c].recibida
  BY <1>0, <1>8 DEF EntregasBien, ActivaInv
<1>9. ASSUME NEW e \in Entregas, GuardarFirma(e) \/ LeerOrdenDeEntrega(e) PROVE ActivaInv'
  <2> DEFINE r == IF GuardarFirma(e) THEN [entrega[e] EXCEPT !.guardar = FALSE]
                  ELSE [entrega[e] EXCEPT !.monto = FALSE]
  <2>1. UNCHANGED <<orden, pedido>> /\ entrega' = [entrega EXCEPT ![e] = r]
    BY <1>0, <1>9 DEF GuardarFirma, LeerOrdenDeEntrega, EntregasBien
  <2>2. r.recibida = entrega[e].recibida /\ r.estatus = entrega[e].estatus
    BY <1>0, EntregaTipo
  <2> HIDE DEF r
  <2> QED BY <1>8, <2>1, <2>2, ActivaEntrega
<1>10. ASSUME NEW e \in Entregas, EscribirEstatus(e) PROVE ActivaInv'
  <2> DEFINE s == IF Existe(OrdenDe(e[1])) THEN entrega[e].estatus - 1 ELSE 0
             r == [entrega[e] EXCEPT !.estatus = s]
             o == OrdenDe(e[1])
             fila == [orden[o] EXCEPT !.estatus = EstatusDe(e[1])]
  <2>1. entrega' = [entrega EXCEPT ![e] = r] /\ entrega[e].estatus > 0 /\ pedido' = pedido
    BY <1>0, <1>10 DEF EscribirEstatus, EntregasBien
  <2>2. r.recibida = entrega[e].recibida BY <1>0, EntregaTipo
  <2> HIDE DEF r
  <2>3. (\A c \in Entregas : entrega[c].recibida => entrega'[c].recibida)
        /\ \A c \in Entregas : entrega'[c].estatus > 0 => entrega'[c].recibida
    BY <1>8, <2>1, <2>2
  <2>4. o \in Ordenes /\ orden[o] \in FilaOrden BY <1>0, EntregaTipo DEF OrdenesBien
  <2>5. fila.estatus = EstatusDe(e[1]) BY <2>4 DEF FilaOrden
  <2>6. orden' = orden \/ orden' = [orden EXCEPT ![o] = fila]
    BY <1>0, <1>10, <2>4 DEF EscribirEstatus, OrdenesBien
  <2>7. fila.estatus = "ACTIVA" => Firmada(o, "APPROVE")
    <3> SUFFICES ASSUME fila.estatus = "ACTIVA" PROVE Firmada(o, "APPROVE") OBVIOUS
    <3>1. AccionDe(e[1]) = "APPROVE" BY <2>5 DEF EstatusDe
    <3>2. entrega[e].recibida BY <2>1 DEF ActivaInv
    <3> QED BY <3>1, <3>2 DEF Firmada
  <2> HIDE DEF o, fila
  <2>8. \A x \in Ordenes : orden'[x].estatus = "ACTIVA" =>
          orden[x].estatus = "ACTIVA" \/ Firmada(x, "APPROVE")
    BY <1>0, <2>4, <2>6, <2>7 DEF OrdenesBien
  <2> QED BY <2>1, <2>3, <2>8, ActivaPaso DEF ActivaInv
<1>11. ASSUME NEW e \in Entregas, AvanzarLibro(e) PROVE ActivaInv'
  BY <1>11, ActivaEntrega DEF AvanzarLibro, varsOrden, ActivaInv
<1>12. ASSUME NEW e \in Entregas, FallarEntrega(e) PROVE ActivaInv'
  <2>1. UNCHANGED <<orden, pedido>>
        /\ \/ entrega' = entrega
           \/ entrega' = [entrega EXCEPT ![e] = [entrega[e] EXCEPT !.monto = FALSE]]
           \/ entrega' = [entrega EXCEPT ![e] = [entrega[e] EXCEPT !.estatus = 0]]
           \/ entrega' = [entrega EXCEPT ![e] = [entrega[e] EXCEPT !.guardar = FALSE]]
    BY <1>0, <1>12 DEF FallarEntrega, EntregasBien
  <2>2. ASSUME NEW r \in {[entrega[e] EXCEPT !.monto = FALSE], [entrega[e] EXCEPT !.estatus = 0],
                          [entrega[e] EXCEPT !.guardar = FALSE]}
        PROVE  r.recibida = entrega[e].recibida /\ (r.estatus > 0 => entrega[e].estatus > 0)
    BY <1>0, EntregaTipo
  <2>3. (\A c \in Entregas : entrega[c].recibida => entrega'[c].recibida)
        /\ \A c \in Entregas : entrega'[c].estatus > 0 => entrega'[c].recibida
    <3>1. PICK r \in {[entrega[e] EXCEPT !.monto = FALSE], [entrega[e] EXCEPT !.estatus = 0],
                      [entrega[e] EXCEPT !.guardar = FALSE]} :
            entrega' = entrega \/ entrega' = [entrega EXCEPT ![e] = r]
      BY <2>1
    <3>2. r.recibida = entrega[e].recibida /\ (r.estatus > 0 => entrega[e].estatus > 0)
      BY <2>2
    <3> QED BY <1>8, <3>1, <3>2
  <2> QED BY <2>1, <2>3, ActivaEntrega
<1>13. CASE CaerServidor
  <2>1. \A e \in Entregas : entrega'[e].recibida = entrega[e].recibida /\ entrega'[e].estatus = 0
    BY <1>13 DEF CaerServidor, SinEntrega
  <2>2. orden' = orden /\ \A h \in Hilos : pedido'[h].en = "libre"
    BY <1>13 DEF CaerServidor, SinPedido
  <2> QED BY <2>1, <2>2, ActivaPaso DEF ActivaInv
<1> QED BY <1>1, <1>3, <1>4, <1>5, <1>6, <1>7, <1>9, <1>10, <1>11, <1>12, <1>13, ActivaAtender
        DEF NextOrden

\* An order is active only when a document approving it was signed and notified,
\* whatever requests race, save rows they read long before, fail or are lost.
THEOREM ActivaSiempre == SpecOrden => []ActivaConFirma
<1>1. InitOrden => ActivaInv BY DEF InitOrden, ActivaInv, SinOrden, SinPedido, SinEntrega
<1>2. TipoInv /\ ActivaInv /\ [NextOrden]_todas => ActivaInv' BY ActivaSiguiente
<1>3. ActivaInv => ActivaConFirma BY DEF ActivaInv, ActivaConFirma
<1> QED BY <1>1, <1>2, <1>3, TipoInvSiempre, PTL DEF SpecOrden

----
(* What orders charge. *)

\* Charges to different funds, each of one of some amounts; and an order whose
\* total and breakdown are so.
CargosBien(cs, S) == Distintos(cs) /\ \A i \in DOMAIN cs : cs[i].monto \in S
FilaBien(fila, S) == fila.total \in S /\ CargosBien(fila.desglose, S)

\* The amounts that an order of the given totals can charge.
Cubre(S) == 0 \in S /\ (\A x \in S : x \in Nat) /\ \A t \in Totales : \A n \in 0..t : n \in S

\* Every order, every row that a request keeps and every activation charges such
\* amounts, and an activation applies the event of a notified document.
CargadoInv(S) ==
  /\ \A o \in Ordenes : FilaBien(orden[o], S)
  /\ \A h \in Hilos : pedido[h].en # "libre" => FilaBien(pedido[h].fila, S)
  /\ \A e \in Entregas : paso[e] # "libre" =>
       /\ CargosBien(llamada[e].cargos, S)
       /\ llamada[e].evento = EventoDe(e[1])
       /\ entrega[e].recibida /\ ~entrega[e].monto
  /\ \A e \in Entregas : entrega[e].monto => entrega[e].recibida

\* An order that was never created charges nothing.
LEMMA SinOrdenCarga == ASSUME NEW S, Cubre(S) PROVE FilaBien(SinOrden, S)
BY DEF Cubre, FilaBien, CargosBien, Distintos, SinOrden

\* Rows with the same charges.
LEMMA MismaCarga ==
  ASSUME NEW S, NEW r, NEW q, FilaBien(r, S), q.total = r.total, q.desglose = r.desglose
  PROVE  FilaBien(q, S)
BY DEF FilaBien

\* The charges of such an order are such charges.
LEMMA CargosDeFila ==
  ASSUME NEW S, NEW fila \in FilaOrden, FilaBien(fila, S)
  PROVE  CargosBien(Cargos(fila), S)
<1> DEFINE c == [fondo |-> Maestro, monto |-> fila.total]
           cs == <<c>>
<1>1. CASE fila.desglose = <<>>
  <2>1. Cargos(fila) = cs BY <1>1 DEF Cargos
  <2>2. c.monto \in S BY DEF FilaBien
  <2> HIDE DEF c
  <2>3. DOMAIN cs = {1} /\ cs[1] = c OBVIOUS
  <2> HIDE DEF cs
  <2> QED BY <2>1, <2>2, <2>3 DEF CargosBien, Distintos
<1>2. CASE fila.desglose # <<>> BY <1>2 DEF Cargos, FilaBien
<1> QED BY <1>1, <1>2

\* What is left of such charges.
LEMMA ColaBien ==
  ASSUME NEW S, NEW cs \in Seq(Cargo), cs # <<>>, CargosBien(cs, S)
  PROVE  /\ CargosBien(Tail(cs), S) /\ Head(cs).monto \in S
         /\ \A i \in DOMAIN Tail(cs) : Tail(cs)[i].fondo # Head(cs).fondo
         /\ Head(cs) = cs[1] /\ 1 \in DOMAIN cs
<1> DEFINE r == Tail(cs)
<1>1. /\ DOMAIN r = 1..(Len(cs) - 1) /\ DOMAIN cs = 1..Len(cs) /\ Len(cs) \in Nat \ {0}
      /\ \A i \in 1..(Len(cs) - 1) : r[i] = cs[i + 1]
      /\ Head(cs) = cs[1]
  OBVIOUS
<1> HIDE DEF r
<1>2. Distintos(r) BY <1>1 DEF CargosBien, Distintos
<1>3. \A i \in DOMAIN r : r[i].monto \in S BY <1>1 DEF CargosBien
<1>4. \A i \in DOMAIN r : r[i].fondo # Head(cs).fondo BY <1>1 DEF CargosBien, Distintos
<1>5. 1 \in DOMAIN cs /\ Head(cs).monto \in S BY <1>1 DEF CargosBien
<1> QED BY <1>1, <1>2, <1>3, <1>4, <1>5 DEF CargosBien, r

\* What create charges.
LEMMA DesgloseBien ==
  ASSUME NEW S, Cubre(S), NEW total \in Totales, NEW plan, PlanBien(plan, total, Fondos)
  PROVE  total \in S /\ CargosBien(Desglose(plan, Maestro), S)
<1>1. total \in Nat /\ total \in S /\ \A n \in 1..total : n \in S
  BY OrdenesAssumption DEF Cubre
<1>2. CargosBien(plan.usos, S) BY <1>1 DEF PlanBien, CargosBien
<1>3. CargosBien(<<>>, S) BY DEF CargosBien, Distintos
<1> QED BY <1>1, <1>2, <1>3 DEF Desglose

\* A step of a request that touches neither orders nor handlers.
LEMMA CargadoPedido ==
  ASSUME NEW S, CargadoInv(S), PedidosBien, NEW h \in Hilos, pedido[h].en # "libre",
         UNCHANGED <<orden, entrega, paso, llamada>>,
         \/ Responder(h) \/ QuitarTrasFallo(h)
         \/ \E en : Seguir(h, en)
         \/ \E en, fila, es : SeguirCon(h, en, fila, es) /\ FilaBien(fila, S)
  PROVE  CargadoInv(S)'
<1>1. ASSUME NEW g \in Hilos, pedido'[g].en # "libre" PROVE FilaBien(pedido'[g].fila, S)
  <2>1. CASE g # h
    <3>1. pedido'[g] = pedido[g]
      BY <2>1, SeguirConHace, SeguirHace, ResponderHace, QuitarTrasFalloHace
    <3> QED BY <1>1, <3>1 DEF CargadoInv
  <2>2. CASE g = h
    <3>1. CASE Responder(h) BY <1>1, <2>2, <3>1, ResponderHace
    <3>2. CASE QuitarTrasFallo(h) BY <1>1, <2>2, <3>2, QuitarTrasFalloHace DEF CargadoInv
    <3>3. ASSUME NEW en, Seguir(h, en) PROVE FilaBien(pedido'[g].fila, S)
      BY <1>1, <2>2, <3>3, SeguirHace DEF CargadoInv
    <3>4. ASSUME NEW en, NEW fila, NEW es, SeguirCon(h, en, fila, es), FilaBien(fila, S)
          PROVE  FilaBien(pedido'[g].fila, S)
      BY <1>1, <2>2, <3>4, SeguirConHace
    <3> QED BY <3>1, <3>2, <3>3, <3>4
  <2> QED BY <2>1, <2>2
<1> QED BY <1>1 DEF CargadoInv, FilaBien

\* An order that is saved with such charges, by a request that goes on or ends.
LEMMA CargadoOrden ==
  ASSUME NEW S, CargadoInv(S), PedidosBien, OrdenesBien, NEW h \in Hilos,
         pedido[h].en # "libre", UNCHANGED <<entrega, paso, llamada>>,
         Responder(h) \/ \E en : Seguir(h, en),
         NEW o \in Ordenes, NEW fila, FilaBien(fila, S),
         orden' = orden \/ orden' = [orden EXCEPT ![o] = fila]
  PROVE  CargadoInv(S)'
<1>1. ASSUME NEW g \in Hilos, pedido'[g].en # "libre" PROVE FilaBien(pedido'[g].fila, S)
  <2>1. CASE g # h
    <3>1. pedido'[g] = pedido[g] BY <2>1, SeguirHace, ResponderHace
    <3> QED BY <1>1, <3>1 DEF CargadoInv
  <2>2. CASE g = h
    <3>1. CASE Responder(h) BY <1>1, <2>2, <3>1, ResponderHace
    <3>2. ASSUME NEW en, Seguir(h, en) PROVE FilaBien(pedido'[g].fila, S)
      BY <1>1, <2>2, <3>2, SeguirHace DEF CargadoInv
    <3> QED BY <3>1, <3>2
  <2> QED BY <2>1, <2>2
<1>2. \A x \in Ordenes : FilaBien(orden'[x], S) BY DEF CargadoInv, OrdenesBien
<1> QED BY <1>1, <1>2 DEF CargadoInv, FilaBien

\* A request reads, saves and answers.
LEMMA CargadoAtender ==
  ASSUME TipoInv, NEW S, Cubre(S), CargadoInv(S), NEW h \in Hilos, Atender(h)
  PROVE  CargadoInv(S)'
<1>0. PedidosBien /\ OrdenesBien /\ EntregasBien BY DEF TipoInv
<1>1. CASE LeerFondos(h)
  <2> DEFINE t == pedido[h].total
             plan == PlanDeFondos(fondo, Maestro, Extensiones, t)
             d == Desglose(plan, Maestro)
             fila == [SinOrden EXCEPT !.existe = "si", !.total = t, !.desglose = d]
  <2>1. pedido[h].en = "fondos" /\ UNCHANGED <<orden, entrega, paso, llamada>>
        /\ (Responder(h) \/ SeguirCon(h, "comprometer", fila, plan.escrituras))
    BY <1>1 DEF LeerFondos, vars
  <2>2. t \in Totales /\ t \in Nat \ {0}
    BY <1>0, <2>1, PedidoTipo, OrdenesAssumption DEF EnSuSitio
  <2>3. PlanBien(plan, t, Fondos)
    BY <2>2, PlanDeFondosBien, OrdenesAssumption DEF TipoInv, TypeOK
  <2>4. fila.total = t /\ fila.desglose = d BY DEF SinOrden
  <2> HIDE DEF plan
  <2>5. t \in S /\ CargosBien(d, S) BY <2>2, <2>3, DesgloseBien
  <2> HIDE DEF fila, t, d
  <2>6. FilaBien(fila, S) BY <2>4, <2>5 DEF FilaBien
  <2> QED BY <1>0, <2>1, <2>6, CargadoPedido
<1>2. CASE EscribirReserva(h)
  <2>1. pedido[h].en # "libre" /\ UNCHANGED <<orden, entrega, paso, llamada>>
        /\ \E en, es : SeguirCon(h, en, pedido[h].fila, es)
    BY <1>2 DEF EscribirReserva, EscribirComprometido
  <2>2. FilaBien(pedido[h].fila, S) BY <2>1 DEF CargadoInv
  <2> QED BY <1>0, <2>1, <2>2, CargadoPedido
<1>3. CASE LeerFolio(h)
  <2> DEFINE r == pedido[h].fila
             fila == [r EXCEPT !.folio = Max(Folios \cup {0}) + 1]
             nada == <<>>
  <2>1. pedido[h].en # "libre" /\ UNCHANGED <<orden, entrega, paso, llamada>>
        /\ SeguirCon(h, "guardarNueva", fila, nada)
    BY <1>3 DEF LeerFolio, vars
  <2>2. r \in FilaOrden /\ FilaBien(r, S) BY <1>0, <2>1, PedidoTipo DEF CargadoInv
  <2>3. fila.total = r.total /\ fila.desglose = r.desglose BY <2>2 DEF FilaOrden
  <2> HIDE DEF r, fila, nada
  <2>4. FilaBien(fila, S) BY <2>2, <2>3, MismaCarga
  <2> QED BY <1>0, <2>1, <2>4, CargadoPedido
<1>4. CASE GuardarNueva(h) \/ Guardar(h)
  <2> DEFINE o == pedido[h].orden
             fila == pedido[h].fila
  <2>1. pedido[h].en # "libre" /\ UNCHANGED <<entrega, paso, llamada>>
        /\ (Responder(h) \/ (\E en : Seguir(h, en)))
        /\ (orden' = orden \/ orden' = [orden EXCEPT ![o] = fila])
    BY <1>4 DEF GuardarNueva, Guardar, vars
  <2>2. o \in Ordenes /\ FilaBien(fila, S) BY <1>0, <2>1, PedidoTipo DEF CargadoInv
  <2> HIDE DEF o, fila
  <2> QED BY <1>0, <2>1, <2>2, CargadoOrden
<1>5. CASE CrearServicios(h) \/ CambiarServicios(h) \/ LeerFirmantes(h)
  <2>1. pedido[h].en # "libre" /\ UNCHANGED <<orden, entrega, paso, llamada>>
        /\ (Responder(h) \/ QuitarTrasFallo(h) \/ \E en : Seguir(h, en))
    BY <1>5 DEF CrearServicios, CambiarServicios, LeerFirmantes, vars
  <2> QED BY <1>0, <2>1, CargadoPedido
<1>6. CASE LeerOrden(h)
  <2> DEFINE fila == orden[pedido[h].orden]
  <2>1. pedido[h].en # "libre" /\ UNCHANGED <<orden, entrega, paso, llamada>>
        /\ (Responder(h) \/ \E en, es : SeguirCon(h, en, fila, es))
    BY <1>6 DEF LeerOrden, vars
  <2>2. FilaBien(fila, S) BY <1>0, <2>1, PedidoTipo DEF CargadoInv
  <2> HIDE DEF fila
  <2> QED BY <1>0, <2>1, <2>2, CargadoPedido
<1>7. CASE LeerContratoDeOrden(h)
  <2> DEFINE r == pedido[h].fila
             t == pedido[h].total
             nueva == [r EXCEPT !.total = t]
  <2>1. pedido[h].en = "contrato" /\ UNCHANGED <<orden, entrega, paso, llamada>>
        /\ \/ Responder(h)
           \/ \E en, es : SeguirCon(h, en, r, es)
           \/ pedido[h].op = "actualizar" /\ \E en, es : SeguirCon(h, en, nueva, es)
    BY <1>7 DEF LeerContratoDeOrden, vars
  <2>2. r \in FilaOrden /\ FilaBien(r, S) BY <1>0, <2>1, PedidoTipo DEF CargadoInv
  <2>3. nueva.total = t /\ nueva.desglose = r.desglose BY <2>2 DEF FilaOrden
  <2>4. pedido[h].op = "actualizar" => t \in S
    <3>1. pedido[h].op = "actualizar" => t \in Totales /\ t \in 0..t
      BY <1>0, <2>1, PedidoTipo, OrdenesAssumption DEF EnSuSitio
    <3> QED BY <3>1 DEF Cubre
  <2> HIDE DEF r, nueva, t
  <2>5. pedido[h].op = "actualizar" => FilaBien(nueva, S) BY <2>2, <2>3, <2>4 DEF FilaBien
  <2> QED BY <1>0, <2>1, <2>2, <2>5, CargadoPedido
<1>8. CASE Borrar(h) \/ EscribirCancelada(h)
  <2> DEFINE o == pedido[h].orden
             r == orden[o]
             fila == IF Borrar(h) THEN [r EXCEPT !.existe = "borrada"]
                     ELSE [r EXCEPT !.estatus = "CANCELADA"]
  <2>1. pedido[h].en # "libre" /\ UNCHANGED <<entrega, paso, llamada>> /\ Responder(h)
    BY <1>8 DEF Borrar, EscribirCancelada, vars
  <2>2. o \in Ordenes BY <1>0, <2>1, PedidoTipo
  <2>3. r \in FilaOrden /\ FilaBien(r, S) BY <1>0, <2>2 DEF OrdenesBien, CargadoInv
  <2>4. fila.total = r.total /\ fila.desglose = r.desglose BY <2>3 DEF FilaOrden
  <2>5. orden' = orden \/ orden' = [orden EXCEPT ![o] = fila]
    BY <1>0, <1>8, <2>2 DEF Borrar, EscribirCancelada, OrdenesBien
  <2> HIDE DEF o, fila, r
  <2>6. FilaBien(fila, S) BY <2>3, <2>4, MismaCarga
  <2> QED BY <1>0, <2>1, <2>2, <2>5, <2>6, CargadoOrden
<1>9. CASE GuardarDocumento(h)
  <2> DEFINE r == pedido[h].fila
             fila == [r EXCEPT !.estatus = "PENDIENTE"]
             nada == <<>>
  <2>1. pedido[h].en # "libre" /\ UNCHANGED <<orden, entrega, paso, llamada>>
        /\ SeguirCon(h, "guardar", fila, nada)
    BY <1>9 DEF GuardarDocumento, vars
  <2>2. r \in FilaOrden /\ FilaBien(r, S) BY <1>0, <2>1, PedidoTipo DEF CargadoInv
  <2>3. fila.total = r.total /\ fila.desglose = r.desglose BY <2>2 DEF FilaOrden
  <2> HIDE DEF r, fila, nada
  <2>4. FilaBien(fila, S) BY <2>2, <2>3, MismaCarga
  <2> QED BY <1>0, <2>1, <2>4, CargadoPedido
<1> QED BY <1>1, <1>2, <1>3, <1>4, <1>5, <1>6, <1>7, <1>8, <1>9 DEF Atender

\* What an activation still has to do shrinks, charge by charge, and the other
\* activations are not touched.
LEMMA AvanzarLlamada ==
  ASSUME TypeOK, NEW t \in Tareas, Avanzar(t)
  PROVE  /\ paso[t] # "libre" /\ llamada[t].cargos \in Seq(Cargo) /\ llamada[t].cargos # <<>>
         /\ \A u \in Tareas \ {t} : /\ paso'[u] = paso[u] /\ llamada'[u] = llamada[u]
                                    /\ visto'[u] = visto[u]
         /\ \/ paso'[t] = "libre"
            \/ llamada'[t] = llamada[t]
            \/ /\ llamada'[t].evento = llamada[t].evento
               /\ llamada'[t].cargos = Tail(llamada[t].cargos)
<1>1. /\ paso[t] # "libre"
      /\ \/ SiguienteCargo(t)
         \/ /\ llamada' = llamada
            /\ \E p : paso' = [paso EXCEPT ![t] = p]
            /\ visto' = visto \/ \E v : visto' = [visto EXCEPT ![t] = v]
  <2>1. ASSUME NEW s, NEW f, TrasLeer(t, s, f)
        PROVE  \/ SiguienteCargo(t)
               \/ /\ llamada' = llamada
                  /\ \E p : paso' = [paso EXCEPT ![t] = p]
                  /\ visto' = visto \/ \E v : visto' = [visto EXCEPT ![t] = v]
    BY <2>1 DEF TrasLeer
  <2>2. CASE LeerMaestro(t) BY <2>1, <2>2 DEF LeerMaestro
  <2>3. CASE LeerContratos(t)
    <3>1. \E v : visto' = [visto EXCEPT ![t] = v] BY <2>3 DEF LeerContratos, TypeOK
    <3> QED BY <2>3, <3>1 DEF LeerContratos
  <2>4. CASE LeerModificatorio(t) BY <2>1, <2>4 DEF LeerModificatorio
  <2>5. CASE EscribirContrato(t) BY <2>5 DEF EscribirContrato
  <2>6. CASE EscribirFondo(t) BY <2>6 DEF EscribirFondo
  <2> QED BY <2>2, <2>3, <2>4, <2>5, <2>6 DEF Avanzar
<1>2. llamada[t] \in Llamada /\ llamada[t].cargos # <<>> /\ llamada[t].cargos \in Seq(Cargo)
  BY <1>1 DEF TypeOK, Llamada
<1>3. CASE SiguienteCargo(t)
  <2>1. CASE Tail(llamada[t].cargos) = <<>>
    BY <1>1, <1>2, <1>3, <2>1 DEF SiguienteCargo, Terminar, TypeOK
  <2>2. CASE Tail(llamada[t].cargos) # <<>>
    <3> DEFINE ll == [llamada[t] EXCEPT !.cargos = Tail(llamada[t].cargos)]
    <3>1. llamada' = [llamada EXCEPT ![t] = ll]
          /\ paso' = [paso EXCEPT ![t] = "leer"] /\ visto' = [visto EXCEPT ![t] = NadaVisto]
      BY <1>3, <2>2 DEF SiguienteCargo, TypeOK
    <3>2. ll.evento = llamada[t].evento /\ ll.cargos = Tail(llamada[t].cargos)
      BY <1>2 DEF Llamada
    <3> HIDE DEF ll
    <3> QED BY <1>1, <1>2, <3>1, <3>2 DEF TypeOK
  <2> QED BY <2>1, <2>2
<1>4. CASE ~SiguienteCargo(t) BY <1>1, <1>2, <1>4 DEF TypeOK
<1> QED BY <1>3, <1>4

\* An activation charges what its order does when it starts, and what is left of
\* it afterwards; so does every step.
LEMMA CargadoSiguiente ==
  ASSUME TipoInv, NEW S, Cubre(S), CargadoInv(S), [NextOrden]_todas
  PROVE  CargadoInv(S)'
<1>0. PedidosBien /\ OrdenesBien /\ EntregasBien /\ TypeOK /\ Entregas = Tareas
  BY EntregasAssumption DEF TipoInv
<1>1. CASE UNCHANGED todas BY <1>1 DEF todas, vars, varsOrden, CargadoInv, FilaBien
<1>2. ASSUME NEW h \in Hilos, NEW op, NEW en, NEW o, NEW docs, NEW total,
             Pedir(h, op, en, o, docs, total)
      PROVE  CargadoInv(S)'
  <2>1. UNCHANGED <<orden, entrega, paso, llamada>> BY <1>2 DEF Pedir, varsLibro
  <2>2. ASSUME NEW g \in Hilos, pedido'[g].en # "libre" PROVE FilaBien(pedido'[g].fila, S)
    <3>1. CASE g # h
      <4>1. pedido'[g] = pedido[g] BY <1>0, <1>2, <3>1, PedirHace
      <4> QED BY <2>2, <4>1 DEF CargadoInv
    <3>2. CASE g = h BY <1>0, <1>2, <2>2, <3>2, PedirHace, SinOrdenCarga
    <3> QED BY <3>1, <3>2
  <2> QED BY <2>1, <2>2 DEF CargadoInv, FilaBien
<1>3. ASSUME NEW h \in Hilos, NEW o \in Ordenes, NEW total \in Totales,
             PedirCrear(h, o, total) \/ (\E op \in Operaciones : PedirSobre(h, op, o, total))
      PROVE  CargadoInv(S)'
  BY <1>2, <1>3, PedirCasos
<1>4. ASSUME NEW h \in Hilos, NEW d \in Documentos, PedirFirma(h, d) PROVE CargadoInv(S)'
  <2>1. \E ds : Pedir(h, "firmar", "orden", OrdenDe(d), ds, 0) BY <1>4 DEF PedirFirma
  <2> QED BY <1>2, <2>1
<1>5. ASSUME NEW h \in Hilos, FallarPedido(h) PROVE CargadoInv(S)'
  <2>1. pedido[h].en # "libre" /\ UNCHANGED <<orden, entrega, paso, llamada>>
        /\ (Responder(h) \/ QuitarTrasFallo(h))
    BY <1>5 DEF FallarPedido, vars
  <2> QED BY <1>0, <2>1, CargadoPedido
<1>6. ASSUME NEW d \in Documentos, EnviarAFirmamex(d) \/ RecibirRechazo(d) PROVE CargadoInv(S)'
  BY <1>6 DEF EnviarAFirmamex, RecibirRechazo, CargadoInv, FilaBien, vars, varsLibro
<1>7. ASSUME UNCHANGED <<orden, pedido>>,
             \A e \in Entregas : paso'[e] # "libre" =>
               /\ CargosBien(llamada'[e].cargos, S) /\ llamada'[e].evento = EventoDe(e[1])
               /\ entrega'[e].recibida /\ ~entrega'[e].monto,
             \A e \in Entregas : entrega'[e].monto => entrega'[e].recibida
      PROVE  CargadoInv(S)'
  BY <1>7 DEF CargadoInv, FilaBien, CargosBien
<1>8. ASSUME NEW e \in Entregas, RecibirCompletado(e) PROVE CargadoInv(S)'
  <2>1. UNCHANGED <<orden, pedido, paso, llamada>> /\ entrega'[e].recibida /\ ~entrega[e].recibida
        /\ \A c \in Entregas \ {e} : entrega'[c] = entrega[c]
    BY <1>0, <1>8 DEF RecibirCompletado, EntregasBien, varsLibro
  <2>2. paso[e] = "libre" BY <2>1 DEF CargadoInv
  <2>3. \A c \in Entregas : entrega'[c].monto => entrega'[c].recibida
    BY <2>1 DEF CargadoInv
  <2>4. \A c \in Entregas : paso'[c] # "libre" =>
               /\ CargosBien(llamada'[c].cargos, S) /\ llamada'[c].evento = EventoDe(c[1])
               /\ entrega'[c].recibida /\ ~entrega'[c].monto
    BY <2>1, <2>2 DEF CargadoInv
  <2> QED BY <1>7, <2>1, <2>3, <2>4
<1>9. ASSUME NEW e \in Entregas, LeerOrdenDeEntrega(e) PROVE CargadoInv(S)'
  <2> DEFINE o == OrdenDe(e[1])
             cs == Cargos(orden[o])
             ll == [evento |-> EventoDe(e[1]), servicio |-> Servicio, cargos |-> cs]
             r == [entrega[e] EXCEPT !.monto = FALSE]
  <2>1. UNCHANGED <<orden, pedido>> /\ entrega' = [entrega EXCEPT ![e] = r] /\ entrega[e].monto
        /\ (Arrancar(e, ll) \/ UNCHANGED <<paso, llamada>>)
    BY <1>0, <1>9 DEF LeerOrdenDeEntrega, EntregasBien, varsLibro
  <2>2. r.recibida = entrega[e].recibida /\ ~r.monto BY <1>0, EntregaTipo
  <2> HIDE DEF r
  <2>3. entrega'[e] = r /\ \A c \in Entregas \ {e} : entrega'[c] = entrega[c]
    BY <1>0, <2>1 DEF EntregasBien
  <2>4. CargosBien(cs, S) /\ ll.cargos = cs /\ ll.evento = EventoDe(e[1])
    BY <1>0, EntregaTipo, CargosDeFila DEF OrdenesBien, CargadoInv
  <2> HIDE DEF ll, cs
  <2>5. entrega[e].recibida /\ paso[e] = "libre" BY <2>1 DEF CargadoInv
  <2>6. \A c \in Entregas : paso'[c] # "libre" =>
          \/ paso[c] # "libre" /\ llamada'[c] = llamada[c] /\ c # e
          \/ c = e /\ llamada'[c] = ll
    BY <1>0, <2>1, <2>5 DEF Arrancar, TypeOK
  <2>7. \A c \in Entregas : paso'[c] # "libre" =>
               /\ CargosBien(llamada'[c].cargos, S) /\ llamada'[c].evento = EventoDe(c[1])
               /\ entrega'[c].recibida /\ ~entrega'[c].monto
    BY <2>2, <2>3, <2>4, <2>5, <2>6 DEF CargadoInv
  <2>8. \A c \in Entregas : entrega'[c].monto => entrega'[c].recibida
    BY <2>2, <2>3 DEF CargadoInv
  <2> QED BY <1>7, <2>1, <2>7, <2>8
<1>10. ASSUME NEW e \in Entregas, AvanzarLibro(e) PROVE CargadoInv(S)'
  <2>1. UNCHANGED <<orden, pedido, entrega>> /\ Avanzar(e)
    BY <1>10 DEF AvanzarLibro, varsOrden
  <2>2. paso[e] # "libre" /\ llamada[e].cargos \in Seq(Cargo) /\ llamada[e].cargos # <<>>
    BY <1>0, <2>1, AvanzarLlamada
  <2>3. CargosBien(Tail(llamada[e].cargos), S) BY <2>2, ColaBien DEF CargadoInv
  <2>4. \A c \in Entregas : paso'[c] # "libre" =>
          /\ paso[c] # "libre" /\ llamada'[c].evento = llamada[c].evento
          /\ llamada'[c].cargos = llamada[c].cargos
             \/ (c = e /\ llamada'[c].cargos = Tail(llamada[c].cargos))
    BY <1>0, <2>1, AvanzarLlamada
  <2>5. \A c \in Entregas : paso'[c] # "libre" =>
               /\ CargosBien(llamada'[c].cargos, S) /\ llamada'[c].evento = EventoDe(c[1])
               /\ entrega'[c].recibida /\ ~entrega'[c].monto
    BY <2>1, <2>3, <2>4 DEF CargadoInv
  <2> QED BY <1>7, <2>1, <2>5 DEF CargadoInv
<1>11. ASSUME NEW e \in Entregas, GuardarFirma(e) PROVE CargadoInv(S)'
  <2> DEFINE r == [entrega[e] EXCEPT !.guardar = FALSE]
  <2>1. UNCHANGED <<orden, pedido, paso, llamada>> /\ entrega' = [entrega EXCEPT ![e] = r]
    BY <1>0, <1>11 DEF GuardarFirma, EntregasBien, vars
  <2>2. r.recibida = entrega[e].recibida /\ r.monto = entrega[e].monto
    BY <1>0, EntregaTipo
  <2> HIDE DEF r
  <2>3. \A c \in Entregas : entrega'[c].recibida = entrega[c].recibida
                            /\ entrega'[c].monto = entrega[c].monto
    BY <1>0, <2>1, <2>2 DEF EntregasBien
  <2> QED BY <1>7, <2>1, <2>3 DEF CargadoInv
<1>12. ASSUME NEW e \in Entregas, EscribirEstatus(e) PROVE CargadoInv(S)'
  <2> DEFINE o == OrdenDe(e[1])
             fila == [orden[o] EXCEPT !.estatus = EstatusDe(e[1])]
             s == IF Existe(o) THEN entrega[e].estatus - 1 ELSE 0
             r == [entrega[e] EXCEPT !.estatus = s]
  <2>1. UNCHANGED <<pedido, paso, llamada>> /\ entrega' = [entrega EXCEPT ![e] = r]
    BY <1>0, <1>12 DEF EscribirEstatus, EntregasBien, vars
  <2>2. r.recibida = entrega[e].recibida /\ r.monto = entrega[e].monto
    BY <1>0, EntregaTipo
  <2> HIDE DEF r
  <2>3. \A c \in Entregas : entrega'[c].recibida = entrega[c].recibida
                            /\ entrega'[c].monto = entrega[c].monto
    BY <1>0, <2>1, <2>2 DEF EntregasBien
  <2>4. o \in Ordenes /\ orden[o] \in FilaOrden BY <1>0, EntregaTipo DEF OrdenesBien
  <2>5. fila.total = orden[o].total /\ fila.desglose = orden[o].desglose
    BY <2>4 DEF FilaOrden
  <2>6. orden' = orden \/ orden' = [orden EXCEPT ![o] = fila]
    BY <1>0, <1>12, <2>4 DEF EscribirEstatus, OrdenesBien
  <2> HIDE DEF o, fila
  <2>7. FilaBien(fila, S) BY <2>4, <2>5, MismaCarga DEF CargadoInv
  <2>8. \A x \in Ordenes : FilaBien(orden'[x], S)
    BY <1>0, <2>6, <2>7 DEF CargadoInv, OrdenesBien
  <2> QED BY <2>1, <2>3, <2>8 DEF CargadoInv, FilaBien
<1>13. ASSUME NEW e \in Entregas, FallarEntrega(e) PROVE CargadoInv(S)'
  <2>1. CASE Fallar(e)
    <3>1. UNCHANGED <<orden, pedido>> /\ Terminar(e)
      BY <1>13, <2>1 DEF FallarEntrega, Fallar
    <3>2. paso'[e] = "libre"
          /\ \A c \in Entregas \ {e} : paso'[c] = paso[c] /\ llamada'[c] = llamada[c]
      BY <1>0, <3>1 DEF Terminar, TypeOK
    <3>3. \A c \in Entregas : entrega'[c].recibida = entrega[c].recibida
                              /\ (entrega'[c].monto => entrega[c].monto)
      BY <1>0, <1>13, EntregaTipo DEF FallarEntrega, EntregasBien
    <3> QED BY <1>7, <3>1, <3>2, <3>3 DEF CargadoInv
  <2>2. CASE UNCHANGED vars
    <3>1. UNCHANGED <<orden, pedido, paso, llamada>>
      BY <1>13, <2>2 DEF FallarEntrega, vars
    <3>2. \A c \in Entregas : entrega'[c].recibida = entrega[c].recibida
                              /\ (entrega'[c].monto => entrega[c].monto)
      BY <1>0, <1>13, EntregaTipo DEF FallarEntrega, EntregasBien
    <3> QED BY <1>7, <3>1, <3>2 DEF CargadoInv
  <2> QED BY <1>13, <2>1, <2>2 DEF FallarEntrega
<1>14. CASE CaerServidor
  <2>1. UNCHANGED orden /\ (\A h \in Hilos : pedido'[h].en = "libre")
        /\ \A e \in Entregas : paso'[e] = "libre" /\ ~entrega'[e].monto
    BY <1>0, <1>14 DEF CaerServidor, PerderActivaciones, SinPedido, SinEntrega
  <2> QED BY <2>1 DEF CargadoInv, FilaBien
<1> QED BY <1>1, <1>3, <1>4, <1>5, <1>6, <1>8, <1>9, <1>10, <1>11, <1>12, <1>13, <1>14,
           CargadoAtender DEF NextOrden

\* An empty contract has no charges.
LEMMA CargadoInicial ==
  ASSUME NEW S, Cubre(S), InitOrden
  PROVE  CargadoInv(S)
BY SinOrdenCarga, EntregasAssumption DEF InitOrden, Init, CargadoInv, SinPedido, SinEntrega

----
(* Money becomes active only with a signature. *)

\* There are finitely many deliveries.
LEMMA EntregasFinitas == IsFiniteSet(Entregas)
<1> DEFINE A == Acciones \X (1..MaxEnvios)
           P == Ordenes \X A
           g == [p \in P |-> <<p[1], p[2][1], p[2][2]>>]
<1>1. IsFiniteSet(Acciones)
  <2> DEFINE uno == {} \cup {"APPROVE"}
  <2>1. IsFiniteSet(uno) BY FS_EmptySet, FS_AddElement
  <2>2. Acciones = uno \cup {"CANCEL"} BY DEF Acciones
  <2> HIDE DEF uno
  <2> QED BY <2>1, <2>2, FS_AddElement
<1>2. IsFiniteSet(1..MaxEnvios) /\ IsFiniteSet(1..MaxEntregas)
  BY OrdenesAssumption, FS_Interval
<1>3. IsFiniteSet(P) BY <1>1, <1>2, FS_Product, OrdenesAssumption
<1>4. g \in Surjection(P, Documentos)
  <2>1. g \in [P -> Documentos] BY DEF Documentos
  <2>2. ASSUME NEW d \in Documentos PROVE \E p \in P : g[p] = d
    <3> DEFINE p == <<d[1], <<d[2], d[3]>>>>
    <3>1. p \in P /\ g[p] = d BY DEF Documentos
    <3> QED BY <3>1
  <2> HIDE DEF g
  <2> QED BY <2>1, <2>2 DEF Surjection
<1>5. IsFiniteSet(Documentos) BY <1>3, <1>4, FS_Surjection
<1> QED BY <1>2, <1>5, FS_Product DEF Entregas

\* The largest total that an order can have ...
Tope == Max(Totales)

\* ... is one, when there are finitely many, and no charge exceeds it.
LEMMA TopeBien ==
  ASSUME IsFiniteSet(Totales), Totales # {}
  PROVE  Tope \in Nat /\ Cubre(0..Tope)
<1>1. \A x \in Totales : x \in Int /\ x \in Nat BY OrdenesAssumption
<1>2. \E x \in Totales : \A y \in Totales : x >= y BY <1>1, MaximoHay
<1>3. Tope \in Totales /\ \A y \in Totales : Tope >= y BY <1>2 DEF Tope, Max
<1> HIDE DEF Tope
<1> QED BY <1>1, <1>3 DEF Cubre

\* A delivery can still charge a fund: it is to come, its handler has not read
\* the order, or the charge is among those the activation has left.
Puede(e, f) ==
  \/ ~entrega[e].recibida \/ entrega[e].monto
  \/ paso[e] # "libre" /\ \E i \in DOMAIN llamada[e].cargos : llamada[e].cargos[i].fondo = f

\* The deliveries that are done with a fund, and an amount that they can explain.
Hechas(f, accion) == {e \in Entregas : AccionDe(e[1]) = accion /\ ~Puede(e, f)}
ActivoHasta(m, f) ==
  /\ m <= Tope * Cardinality(Hechas(f, "APPROVE"))
  /\ - m <= Tope * Cardinality(Hechas(f, "CANCEL"))

\* What is active in a fund, in its row and in the rows that activations have
\* read, is explained by the deliveries that were done with it by then: the
\* activation that writes is not one of them, and afterwards it is.
ActivoInv ==
  /\ \A f \in Fondos : ActivoHasta(fondo[f]["montoActivo"], f)
  /\ \A e \in Entregas : paso[e] \in {"escribirContrato", "escribirFondo"} =>
       ActivoHasta(visto[e].fondo["montoActivo"], CargoDe(e).fondo)

\* A product with a larger factor.
LEMMA Producto ==
  ASSUME NEW t \in Nat, NEW a \in Nat, NEW b \in Nat, a <= b
  PROVE  t * a <= t * b /\ t * a \in Nat /\ t * b \in Nat
OBVIOUS

\* What a sum of charges can be grows with the number of them.
LEMMA ProductoMas ==
  ASSUME NEW t \in Nat, NEW a \in Nat, NEW b \in Nat, a + 1 <= b
  PROVE  t * a + t <= t * b
<1>1. t * (a + 1) <= t * b BY Producto
<1>2. t * (a + 1) = t * a + t OBVIOUS
<1> QED BY <1>1, <1>2

\* Deliveries that are done stay done, so that what they explain they explain.
LEMMA HastaCrece ==
  ASSUME IsFiniteSet(Totales), Totales # {}, NEW f,
         \A e \in Entregas : ~Puede(e, f) => ~Puede(e, f)', NEW m \in Int, ActivoHasta(m, f)
  PROVE  /\ m <= Tope * Cardinality(Hechas(f, "APPROVE")')
         /\ - m <= Tope * Cardinality(Hechas(f, "CANCEL")')
<1>1. ASSUME NEW accion
      PROVE  /\ Cardinality(Hechas(f, accion)) \in Nat /\ Cardinality(Hechas(f, accion)') \in Nat
             /\ Cardinality(Hechas(f, accion)) <= Cardinality(Hechas(f, accion)')
  <2> DEFINE H == Hechas(f, accion)
             K == Hechas(f, accion)'
  <2>1. H \subseteq K /\ K \subseteq Entregas BY DEF Hechas
  <2> HIDE DEF H, K
  <2>2. IsFiniteSet(K) /\ IsFiniteSet(H) /\ Cardinality(H) <= Cardinality(K)
    BY <2>1, EntregasFinitas, FS_Subset
  <2>3. Cardinality(H) \in Nat /\ Cardinality(K) \in Nat BY <2>2, FS_CardinalityType
  <2> QED BY <2>2, <2>3 DEF H, K
<1> DEFINE a == Cardinality(Hechas(f, "APPROVE"))
           b == Cardinality(Hechas(f, "APPROVE")')
           c == Cardinality(Hechas(f, "CANCEL"))
           d == Cardinality(Hechas(f, "CANCEL")')
<1>2. a \in Nat /\ b \in Nat /\ a <= b /\ c \in Nat /\ d \in Nat /\ c <= d BY <1>1
<1>3. m <= Tope * a /\ - m <= Tope * c BY DEF ActivoHasta
<1> HIDE DEF a, b, c, d
<1>4. Tope * a <= Tope * b /\ Tope * c <= Tope * d /\ Tope * a \in Int /\ Tope * b \in Int
      /\ Tope * c \in Int /\ Tope * d \in Int
  <2>1. Tope \in Nat BY TopeBien
  <2>2. Tope * a <= Tope * b /\ Tope * a \in Nat /\ Tope * b \in Nat
    BY <1>2, <2>1, Producto
  <2>3. Tope * c <= Tope * d /\ Tope * c \in Nat /\ Tope * d \in Nat
    BY <1>2, <2>1, Producto
  <2> QED BY <2>2, <2>3
<1>5. m <= Tope * b /\ - m <= Tope * d BY <1>3, <1>4
<1> QED BY <1>5 DEF b, d

\* Every step leaves done the deliveries that are.
LEMMA HechaSigue ==
  ASSUME TipoInv, NEW S, CargadoInv(S), [NextOrden]_todas,
         NEW e \in Entregas, NEW f, ~Puede(e, f)
  PROVE  ~Puede(e, f)'
<1>0. PedidosBien /\ OrdenesBien /\ EntregasBien /\ TypeOK /\ Entregas = Tareas
  BY EntregasAssumption DEF TipoInv
<1>1. entrega[e].recibida /\ ~entrega[e].monto
      /\ (paso[e] # "libre" => \A i \in DOMAIN llamada[e].cargos : llamada[e].cargos[i].fondo # f)
  BY DEF Puede
<1>2. ASSUME UNCHANGED <<paso, llamada>>, entrega'[e].recibida, ~entrega'[e].monto
      PROVE  ~Puede(e, f)'
  BY <1>1, <1>2 DEF Puede
<1>3. CASE UNCHANGED todas BY <1>1, <1>2, <1>3 DEF todas, vars, varsOrden
<1>4. ASSUME NEW h \in Hilos, NEW op, NEW en, NEW o, NEW docs, NEW total,
             Pedir(h, op, en, o, docs, total)
      PROVE  ~Puede(e, f)'
  BY <1>1, <1>2, <1>4 DEF Pedir, varsLibro
<1>5. ASSUME NEW h \in Hilos, NEW o \in Ordenes, NEW total \in Totales,
             PedirCrear(h, o, total) \/ (\E op \in Operaciones : PedirSobre(h, op, o, total))
      PROVE  ~Puede(e, f)'
  BY <1>4, <1>5, PedirCasos
<1>6. ASSUME NEW h \in Hilos, NEW d \in Documentos, PedirFirma(h, d) PROVE ~Puede(e, f)'
  <2>1. \E ds : Pedir(h, "firmar", "orden", OrdenDe(d), ds, 0) BY <1>6 DEF PedirFirma
  <2> QED BY <1>4, <2>1
<1>7. ASSUME NEW h \in Hilos, Atender(h) \/ FallarPedido(h) PROVE ~Puede(e, f)'
  <2>1. UNCHANGED <<paso, llamada, entrega>>
    BY <1>7 DEF Atender, FallarPedido, vars, LeerFondos, EscribirReserva, EscribirComprometido,
                LeerFolio, GuardarNueva, CrearServicios, LeerOrden, LeerContratoDeOrden, Borrar,
                CambiarServicios, LeerFirmantes, GuardarDocumento, Guardar, EscribirCancelada
  <2> QED BY <1>1, <1>2, <2>1
<1>8. ASSUME NEW d \in Documentos, EnviarAFirmamex(d) \/ RecibirRechazo(d) PROVE ~Puede(e, f)'
  BY <1>1, <1>2, <1>8 DEF EnviarAFirmamex, RecibirRechazo, vars, varsLibro
<1>9. ASSUME NEW c \in Entregas, RecibirCompletado(c) PROVE ~Puede(e, f)'
  <2>1. UNCHANGED <<paso, llamada>> /\ e # c /\ entrega'[e] = entrega[e]
    BY <1>0, <1>1, <1>9 DEF RecibirCompletado, EntregasBien, varsLibro
  <2> QED BY <1>1, <1>2, <2>1
<1>10. ASSUME NEW c \in Entregas, GuardarFirma(c) \/ EscribirEstatus(c) PROVE ~Puede(e, f)'
  <2>1. UNCHANGED <<paso, llamada>> BY <1>10 DEF GuardarFirma, EscribirEstatus, vars
  <2>2. entrega'[e].recibida = entrega[e].recibida /\ entrega'[e].monto = entrega[e].monto
    BY <1>0, <1>10, EntregaTipo DEF GuardarFirma, EscribirEstatus, EntregasBien
  <2> QED BY <1>1, <1>2, <2>1, <2>2
<1>11. ASSUME NEW c \in Entregas, LeerOrdenDeEntrega(c) PROVE ~Puede(e, f)'
  <2>1. e # c /\ entrega'[e] = entrega[e] /\ paso'[e] = paso[e] /\ llamada'[e] = llamada[e]
    BY <1>0, <1>1, <1>11 DEF LeerOrdenDeEntrega, Arrancar, EntregasBien, TypeOK, varsLibro
  <2> QED BY <1>1, <2>1 DEF Puede
<1>12. ASSUME NEW c \in Entregas, AvanzarLibro(c) PROVE ~Puede(e, f)'
  <2>1. UNCHANGED entrega /\ Avanzar(c) BY <1>12 DEF AvanzarLibro, varsOrden
  <2>2. paso'[e] # "libre" =>
          /\ paso[e] # "libre"
          /\ \/ llamada'[e].cargos = llamada[e].cargos
             \/ /\ llamada'[e].cargos = Tail(llamada[e].cargos)
                /\ llamada[e].cargos \in Seq(Cargo) /\ llamada[e].cargos # <<>>
    BY <1>0, <2>1, AvanzarLlamada
  <2>3. ASSUME paso'[e] # "libre", NEW i \in DOMAIN llamada'[e].cargos
        PROVE  llamada'[e].cargos[i].fondo # f
    <3>1. CASE llamada'[e].cargos = llamada[e].cargos BY <1>1, <2>2, <2>3, <3>1
    <3>2. CASE llamada'[e].cargos # llamada[e].cargos
      <4> DEFINE cs == llamada[e].cargos
      <4>1. cs \in Seq(Cargo) /\ cs # <<>> /\ llamada'[e].cargos = Tail(cs)
        BY <2>2, <2>3, <3>2
      <4>2. \A k \in DOMAIN cs : cs[k].fondo # f BY <1>1, <2>2, <2>3
      <4> HIDE DEF cs
      <4>3. i \in DOMAIN Tail(cs) BY <2>3, <4>1
      <4>4. i + 1 \in DOMAIN cs /\ Tail(cs)[i] = cs[i + 1] BY <4>1, <4>3
      <4> QED BY <4>1, <4>2, <4>4
    <3> QED BY <3>1, <3>2
  <2> QED BY <1>1, <2>1, <2>3 DEF Puede
<1>13. ASSUME NEW c \in Entregas, FallarEntrega(c) PROVE ~Puede(e, f)'
  <2>1. entrega'[e].recibida = entrega[e].recibida /\ (entrega'[e].monto => entrega[e].monto)
    BY <1>0, <1>13, EntregaTipo DEF FallarEntrega, EntregasBien
  <2>2. paso'[e] = "libre" \/ (paso'[e] = paso[e] /\ llamada'[e] = llamada[e])
    BY <1>0, <1>13 DEF FallarEntrega, Fallar, Terminar, TypeOK, vars
  <2> QED BY <1>1, <2>1, <2>2 DEF Puede
<1>14. CASE CaerServidor
  <2>1. paso'[e] = "libre" /\ entrega'[e].recibida /\ ~entrega'[e].monto
    BY <1>0, <1>1, <1>14 DEF CaerServidor, PerderActivaciones, SinEntrega
  <2> QED BY <2>1 DEF Puede
<1> QED BY <1>3, <1>5, <1>6, <1>7, <1>8, <1>9, <1>10, <1>11, <1>12, <1>13, <1>14 DEF NextOrden

\* A step that moves no active money, and in which an activation reads only what
\* a fund has, keeps the invariant.
LEMMA ActivoPaso ==
  ASSUME IsFiniteSet(Totales), Totales # {}, TypeOK, ActivoInv,
         \A e \in Entregas, f \in Fondos : ~Puede(e, f) => ~Puede(e, f)',
         \A f \in Fondos : fondo'[f]["montoActivo"] = fondo[f]["montoActivo"],
         \A e \in Entregas : paso'[e] \in {"escribirContrato", "escribirFondo"} =>
           /\ CargoDe(e)' = CargoDe(e) /\ CargoDe(e).fondo \in Fondos
           /\ \/ visto'[e].fondo = fondo[CargoDe(e).fondo]
              \/ paso[e] \in {"escribirContrato", "escribirFondo"} /\ visto'[e] = visto[e]
  PROVE  ActivoInv'
<1>1. ASSUME NEW f \in Fondos
      PROVE  /\ fondo'[f]["montoActivo"] <= Tope * Cardinality(Hechas(f, "APPROVE")')
             /\ - fondo'[f]["montoActivo"] <= Tope * Cardinality(Hechas(f, "CANCEL")')
  <2>1. PICK m \in Int : m = fondo[f]["montoActivo"]
    BY DEF TypeOK, FundRow, FundColumns, ServiceColumns
  <2>2. ActivoHasta(m, f) BY <2>1 DEF ActivoInv
  <2> QED BY <2>1, <2>2, HastaCrece
<1>2. ASSUME NEW e \in Entregas, paso'[e] \in {"escribirContrato", "escribirFondo"},
             NEW f \in Fondos, f = CargoDe(e).fondo
      PROVE  /\ visto'[e].fondo["montoActivo"] <= Tope * Cardinality(Hechas(f, "APPROVE")')
             /\ - visto'[e].fondo["montoActivo"] <= Tope * Cardinality(Hechas(f, "CANCEL")')
  <2>1. f = CargoDe(e).fondo /\ f = CargoDe(e)'.fondo BY <1>2
  <2>2. CASE visto'[e].fondo = fondo[CargoDe(e).fondo]
    <3>1. PICK m \in Int : m = fondo[f]["montoActivo"]
      BY DEF TypeOK, FundRow, FundColumns, ServiceColumns
    <3>2. ActivoHasta(m, f) BY <3>1 DEF ActivoInv
    <3> QED BY <2>1, <2>2, <3>1, <3>2, HastaCrece
  <2>3. CASE paso[e] \in {"escribirContrato", "escribirFondo"} /\ visto'[e] = visto[e]
    <3>1. PICK m \in Int : m = visto[e].fondo["montoActivo"]
      BY EntregasAssumption DEF TypeOK, FundRow, FundColumns, ServiceColumns
    <3>2. ActivoHasta(m, f) BY <2>1, <2>3, <3>1 DEF ActivoInv
    <3> QED BY <2>1, <2>3, <3>1, <3>2, HastaCrece
  <2> QED BY <1>2, <2>2, <2>3
<1> QED BY <1>1, <1>2 DEF ActivoInv, ActivoHasta, Tope

\* The charge that an activation is at.
LEMMA CargoDeEntrega ==
  ASSUME TypeOK, NEW S, Cubre(S), CargadoInv(S), NEW e \in Entregas, paso[e] # "libre"
  PROVE  /\ llamada[e] \in Llamada /\ llamada[e].cargos \in Seq(Cargo) /\ llamada[e].cargos # <<>>
         /\ CargoDe(e) = llamada[e].cargos[1] /\ 1 \in DOMAIN llamada[e].cargos
         /\ CargoDe(e).fondo \in Fondos /\ CargoDe(e).monto \in S /\ CargoDe(e).monto \in Nat
         /\ llamada[e].evento = EventoDe(e[1]) /\ llamada[e].evento \in TYPE_EVENT_ORDER
         /\ \A i \in DOMAIN Tail(llamada[e].cargos) :
              Tail(llamada[e].cargos)[i].fondo # CargoDe(e).fondo
         /\ Columnas(e) # {}
<1> DEFINE cs == llamada[e].cargos
<1>1. llamada[e] \in Llamada /\ cs \in Seq(Cargo) /\ cs # <<>>
  BY EntregasAssumption DEF TypeOK, Llamada
<1>2. CargosBien(cs, S) /\ llamada[e].evento = EventoDe(e[1]) BY DEF CargadoInv
<1>3. CargoDe(e) = Head(cs) BY DEF CargoDe
<1> HIDE DEF cs
<1>4. /\ Head(cs) = cs[1] /\ 1 \in DOMAIN cs /\ Head(cs).monto \in S
      /\ \A i \in DOMAIN Tail(cs) : Tail(cs)[i].fondo # Head(cs).fondo
  BY <1>1, <1>2, ColaBien
<1>5. Head(cs).fondo \in Fondos
  <2>1. cs[1] \in Cargo BY <1>1, <1>4
  <2> QED BY <1>4, <2>1 DEF Cargo
<1>6. EventoDe(e[1]) \in TYPE_EVENT_ORDER BY DEF EventoDe, TYPE_EVENT_ORDER
<1>7. Escribe(CargoDe(e).fondo, EventoDe(e[1])) # {} BY <1>6, EscribeOrden
<1>8. Columnas(e) # {} BY <1>2, <1>7 DEF Columnas
<1> QED BY <1>1, <1>2, <1>3, <1>4, <1>5, <1>6, <1>8 DEF Cubre, cs

\* An activation that has written a charge of its order is done with that fund.
LEMMA HechaAhora ==
  ASSUME TypeOK, NEW S, Cubre(S), CargadoInv(S), NEW e \in Entregas, paso[e] # "libre",
         SiguienteCargo(e), UNCHANGED entrega, NEW f, f = CargoDe(e).fondo
  PROVE  Puede(e, f) /\ ~Puede(e, f)'
<1> DEFINE cs == llamada[e].cargos
<1>0. Entregas = Tareas BY EntregasAssumption
<1>1. Puede(e, f) BY CargoDeEntrega DEF Puede
<1>2. entrega'[e].recibida /\ ~entrega'[e].monto BY DEF CargadoInv
<1>3. paso'[e] = "libre" \/ llamada'[e].cargos = Tail(cs)
  <2>1. CASE Tail(cs) = <<>> BY <1>0, <2>1 DEF SiguienteCargo, Terminar, TypeOK
  <2>2. CASE Tail(cs) # <<>>
    <3>1. llamada' = [llamada EXCEPT ![e].cargos = Tail(cs)] BY <2>2 DEF SiguienteCargo
    <3>2. llamada[e] \in Llamada BY CargoDeEntrega
    <3> HIDE DEF cs
    <3>3. llamada'[e].cargos = Tail(cs) BY <1>0, <3>1, <3>2 DEF TypeOK, Llamada
    <3> QED BY <3>3
  <2> QED BY <2>1, <2>2
<1>4. \A i \in DOMAIN Tail(cs) : Tail(cs)[i].fondo # f BY CargoDeEntrega
<1>5. ~Puede(e, f)'
  <2> HIDE DEF cs
  <2> QED BY <1>2, <1>3, <1>4 DEF Puede
<1> QED BY <1>1, <1>5

\* A delivery that becomes done with a fund is one more.
LEMMA HechaMas ==
  ASSUME NEW f, \A e \in Entregas : ~Puede(e, f) => ~Puede(e, f)',
         NEW c \in Entregas, Puede(c, f), ~Puede(c, f)', NEW accion, accion = AccionDe(c[1])
  PROVE  /\ Cardinality(Hechas(f, accion)) \in Nat /\ Cardinality(Hechas(f, accion)') \in Nat
         /\ Cardinality(Hechas(f, accion)) + 1 <= Cardinality(Hechas(f, accion)')
<1> DEFINE H == Hechas(f, accion)
           K == Hechas(f, accion)'
           J == H \cup {c}
<1>1. H \subseteq K /\ K \subseteq Entregas /\ c \in K /\ c \notin H BY DEF Hechas
<1> HIDE DEF H, K
<1>2. J \subseteq K BY <1>1
<1>3. IsFiniteSet(K) /\ IsFiniteSet(H) BY <1>1, EntregasFinitas, FS_Subset
<1>4. Cardinality(H) \in Nat /\ Cardinality(K) \in Nat /\ Cardinality(J) = Cardinality(H) + 1
  BY <1>1, <1>3, FS_CardinalityType, FS_AddElement
<1>5. Cardinality(J) <= Cardinality(K)
  <2> HIDE DEF J
  <2> QED BY <1>2, <1>3, FS_Subset
<1> QED BY <1>4, <1>5 DEF H, K

\* A step after which no activation has read a fund that had not before.
LEMMA ActivoQuieto ==
  ASSUME IsFiniteSet(Totales), Totales # {}, TypeOK, NEW S, Cubre(S), CargadoInv(S), ActivoInv,
         \A e \in Entregas, f \in Fondos : ~Puede(e, f) => ~Puede(e, f)',
         \A f \in Fondos : fondo'[f]["montoActivo"] = fondo[f]["montoActivo"],
         \A e \in Entregas :
           \/ paso'[e] \in {"libre", "leer", "leerModificatorio"}
           \/ paso'[e] = paso[e] /\ llamada'[e] = llamada[e] /\ visto'[e] = visto[e]
  PROVE  ActivoInv'
<1>1. ASSUME NEW e \in Entregas, paso'[e] \in {"escribirContrato", "escribirFondo"}
      PROVE  /\ CargoDe(e)' = CargoDe(e) /\ CargoDe(e).fondo \in Fondos
             /\ paso[e] \in {"escribirContrato", "escribirFondo"} /\ visto'[e] = visto[e]
  <2>1. paso'[e] = paso[e] /\ llamada'[e] = llamada[e] /\ visto'[e] = visto[e] BY <1>1
  <2>2. CargoDe(e).fondo \in Fondos BY <1>1, <2>1, CargoDeEntrega
  <2> QED BY <1>1, <2>1, <2>2 DEF CargoDe
<1> QED BY <1>1, ActivoPaso

\* The activation c reads the fund of its charge.
LEMMA ActivoLeido ==
  ASSUME IsFiniteSet(Totales), Totales # {}, TypeOK, NEW S, Cubre(S), CargadoInv(S), ActivoInv,
         \A e \in Entregas, f \in Fondos : ~Puede(e, f) => ~Puede(e, f)',
         NEW c \in Entregas, paso[c] \in {"leer", "leerModificatorio"}, NEW servicio,
         TrasLeer(c, servicio, fondo[CargoDe(c).fondo]), UNCHANGED fondo
  PROVE  ActivoInv'
<1>0. Entregas = Tareas BY EntregasAssumption
<1>1. Columnas(c) # {} /\ CargoDe(c).fondo \in Fondos BY CargoDeEntrega
<1>2. /\ visto' = [visto EXCEPT ![c] = [servicio |-> servicio, fondo |-> fondo[CargoDe(c).fondo]]]
      /\ UNCHANGED llamada /\ paso' = [paso EXCEPT ![c] = "escribirContrato"]
  BY <1>1 DEF TrasLeer
<1>3. visto'[c].fondo = fondo[CargoDe(c).fondo] BY <1>0, <1>2 DEF TypeOK
<1>4. ASSUME NEW e \in Entregas, paso'[e] \in {"escribirContrato", "escribirFondo"}
      PROVE  /\ CargoDe(e)' = CargoDe(e) /\ CargoDe(e).fondo \in Fondos
             /\ \/ visto'[e].fondo = fondo[CargoDe(e).fondo]
                \/ paso[e] \in {"escribirContrato", "escribirFondo"} /\ visto'[e] = visto[e]
  <2>1. CargoDe(e)' = CargoDe(e) BY <1>2 DEF CargoDe
  <2>2. CASE e = c BY <1>1, <1>3, <2>1, <2>2
  <2>3. CASE e # c
    <3>1. paso'[e] = paso[e] /\ visto'[e] = visto[e] BY <1>0, <1>2, <2>3 DEF TypeOK
    <3>2. CargoDe(e).fondo \in Fondos BY <1>4, <3>1, CargoDeEntrega
    <3> QED BY <1>4, <2>1, <3>1, <3>2
  <2> QED BY <2>2, <2>3
<1>5. \A f \in Fondos : fondo'[f]["montoActivo"] = fondo[f]["montoActivo"] OBVIOUS
<1> QED BY <1>4, <1>5, ActivoPaso

\* An activation that writes a fund is done with it, and explains its charge.
LEMMA ActivoEscrito ==
  ASSUME Centavo = 1, IsFiniteSet(Totales), Totales # {}, TypeOK, CargadoInv(0..Tope), ActivoInv,
         \A e \in Entregas, f \in Fondos : ~Puede(e, f) => ~Puede(e, f)',
         NEW c \in Entregas, EscribirFondo(c), UNCHANGED entrega
  PROVE  ActivoInv'
<1> DEFINE S == 0..Tope
<1>0. Entregas = Tareas /\ Cubre(S) /\ Tope \in Nat BY EntregasAssumption, TopeBien
<1>1. paso[c] = "escribirFondo" /\ SiguienteCargo(c) /\ CargadoInv(S) BY DEF EscribirFondo
<1>2. CargoDe(c).fondo \in Fondos /\ CargoDe(c).monto \in S
      /\ llamada[c].evento = EventoDe(c[1]) /\ llamada[c].evento \in TYPE_EVENT_ORDER
  <2> HIDE DEF S
  <2> QED BY <1>0, <1>1, CargoDeEntrega
<1>3. PICK f \in Fondos : f = CargoDe(c).fondo BY <1>2
<1>4. Puede(c, f) /\ ~Puede(c, f)'
  <2> HIDE DEF S
  <2> QED BY <1>0, <1>1, <1>3, HechaAhora
<1>5. PICK m \in 0..Tope : m = CargoDe(c).monto BY <1>2
<1>6. PICK l \in Int : l = visto[c].fondo["montoActivo"]
  BY <1>0 DEF TypeOK, FundRow, FundColumns, ServiceColumns
<1>7. ActivoHasta(l, f) BY <1>1, <1>3, <1>6 DEF ActivoInv
<1>8. fondo' = [fondo EXCEPT ![f] =
         escribir(@, handlerAmounts(llamada[c].evento, visto[c].fondo, m), Escribe(f, llamada[c].evento))]
  BY <1>3, <1>5 DEF EscribirFondo, Columnas
<1>9. fondo'[f]["montoActivo"] = IF llamada[c].evento = "ORDER_APPROVED" THEN l + m ELSE l - m
  <2>1. fondo'[f] = escribir(fondo[f], handlerAmounts(llamada[c].evento, visto[c].fondo, m),
                             Escribe(f, llamada[c].evento))
    BY <1>8 DEF TypeOK
  <2>2. PICK fila \in FundRow : fila = fondo[f] BY DEF TypeOK
  <2>3. PICK leida \in FundRow : leida = visto[c].fondo BY <1>0 DEF TypeOK
  <2>4. PICK ev \in TYPE_EVENT_ORDER : ev = llamada[c].evento BY <1>2
  <2>5. PICK r : r = escribir(fila, handlerAmounts(ev, leida, m), Escribe(f, ev)) OBVIOUS
  <2>6. r["montoActivo"] = IF ev = "ORDER_APPROVED" THEN leida["montoActivo"] + m
                           ELSE leida["montoActivo"] - m
    BY <2>5, OrdenAplicada
  <2>7. fondo'[f] = r BY <2>1, <2>2, <2>3, <2>4, <2>5
  <2> QED BY <1>6, <2>3, <2>4, <2>6, <2>7
<1>10. /\ fondo'[f]["montoActivo"] <= Tope * Cardinality(Hechas(f, "APPROVE")')
       /\ - fondo'[f]["montoActivo"] <= Tope * Cardinality(Hechas(f, "CANCEL")')
  <2> DEFINE a == Cardinality(Hechas(f, "APPROVE"))
             b == Cardinality(Hechas(f, "APPROVE")')
             k == Cardinality(Hechas(f, "CANCEL"))
             d == Cardinality(Hechas(f, "CANCEL")')
  <2>1. l <= Tope * a /\ - l <= Tope * k BY <1>7 DEF ActivoHasta
  <2>2. l <= Tope * b /\ - l <= Tope * d BY <1>7, HastaCrece
  <2>3. AccionDe(c[1]) \in Acciones BY DEF Entregas, Documentos, AccionDe
  <2>4. CASE AccionDe(c[1]) = "APPROVE"
    <3>1. a \in Nat /\ b \in Nat /\ a + 1 <= b BY <1>4, <2>4, HechaMas
    <3>2. fondo'[f]["montoActivo"] = l + m BY <1>2, <1>9, <2>4 DEF EventoDe
    <3>3. d \in Nat BY EntregasFinitas, FS_Subset, FS_CardinalityType DEF Hechas
    <3> HIDE DEF a, b, k, d
    <3>4. Tope * a + Tope <= Tope * b BY <1>0, <3>1, ProductoMas
    <3>5. Tope * a \in Int /\ Tope * b \in Int /\ Tope * d \in Int BY <1>0, <3>1, <3>3
    <3>6. l + m <= Tope * b /\ - (l + m) <= Tope * d BY <1>0, <2>1, <2>2, <3>4, <3>5
    <3> QED BY <3>2, <3>6 DEF b, d
  <2>5. CASE AccionDe(c[1]) # "APPROVE"
    <3>1. AccionDe(c[1]) = "CANCEL" BY <2>3, <2>5 DEF Acciones
    <3>2. k \in Nat /\ d \in Nat /\ k + 1 <= d BY <1>4, <3>1, HechaMas
    <3>3. fondo'[f]["montoActivo"] = l - m BY <1>2, <1>9, <2>5 DEF EventoDe
    <3>4. b \in Nat BY EntregasFinitas, FS_Subset, FS_CardinalityType DEF Hechas
    <3> HIDE DEF a, b, k, d
    <3>5. Tope * k + Tope <= Tope * d BY <1>0, <3>2, ProductoMas
    <3>6. Tope * k \in Int /\ Tope * b \in Int /\ Tope * d \in Int BY <1>0, <3>2, <3>4
    <3>7. l - m <= Tope * b /\ - (l - m) <= Tope * d BY <1>0, <2>1, <2>2, <3>5, <3>6
    <3> QED BY <3>3, <3>7 DEF b, d
  <2> QED BY <2>4, <2>5
<1>11. ASSUME NEW g \in Fondos
       PROVE  /\ fondo'[g]["montoActivo"] <= Tope * Cardinality(Hechas(g, "APPROVE")')
              /\ - fondo'[g]["montoActivo"] <= Tope * Cardinality(Hechas(g, "CANCEL")')
  <2>1. CASE g = f BY <1>10, <2>1
  <2>2. CASE g # f
    <3>1. fondo'[g] = fondo[g] BY <1>8, <2>2 DEF TypeOK
    <3>2. PICK n \in Int : n = fondo[g]["montoActivo"]
      BY DEF TypeOK, FundRow, FundColumns, ServiceColumns
    <3>3. ActivoHasta(n, g) BY <3>2 DEF ActivoInv
    <3> QED BY <3>1, <3>2, <3>3, HastaCrece
  <2> QED BY <2>1, <2>2
<1>12. ASSUME NEW e \in Entregas, paso'[e] \in {"escribirContrato", "escribirFondo"},
              NEW g \in Fondos, g = CargoDe(e)'.fondo
       PROVE  /\ visto'[e].fondo["montoActivo"] <= Tope * Cardinality(Hechas(g, "APPROVE")')
              /\ - visto'[e].fondo["montoActivo"] <= Tope * Cardinality(Hechas(g, "CANCEL")')
  <2>1. e # c /\ paso'[e] = paso[e] /\ llamada'[e] = llamada[e] /\ visto'[e] = visto[e]
    BY <1>0, <1>1, <1>12 DEF SiguienteCargo, Terminar, TypeOK
  <2>2. g = CargoDe(e).fondo BY <1>12, <2>1 DEF CargoDe
  <2>3. PICK n \in Int : n = visto[e].fondo["montoActivo"]
    BY <1>0 DEF TypeOK, FundRow, FundColumns, ServiceColumns
  <2>4. ActivoHasta(n, g) BY <1>12, <2>1, <2>2, <2>3 DEF ActivoInv
  <2> QED BY <2>1, <2>3, <2>4, HastaCrece
<1>13. \A e \in Entregas : paso'[e] \in {"escribirContrato", "escribirFondo"} => CargoDe(e)'.fondo \in Fondos
  <2>1. ASSUME NEW e \in Entregas, paso'[e] \in {"escribirContrato", "escribirFondo"}
        PROVE  paso'[e] = paso[e] /\ CargoDe(e)' = CargoDe(e)
    BY <1>0, <1>1, <2>1 DEF SiguienteCargo, Terminar, TypeOK, CargoDe
  <2> HIDE DEF S
  <2> QED BY <1>0, <1>1, <2>1, CargoDeEntrega
<1> QED BY <1>11, <1>12, <1>13 DEF ActivoInv, ActivoHasta, Tope

\* Every step keeps the active money within what the signatures explain.
LEMMA ActivoSiguiente ==
  ASSUME Centavo = 1, IsFiniteSet(Totales), Totales # {}, TipoInv, CargadoInv(0..Tope), ActivoInv,
         [NextOrden]_todas
  PROVE  ActivoInv'
<1> DEFINE S == 0..Tope
<1>0. /\ TypeOK /\ Entregas = Tareas /\ Cubre(S) /\ CargadoInv(S)
      /\ PedidosBien
  BY TopeBien, EntregasAssumption DEF TipoInv
<1> HIDE DEF S
<1>1. \A e \in Entregas, f \in Fondos : ~Puede(e, f) => ~Puede(e, f)' BY <1>0, HechaSigue
<1>2. ASSUME \A f \in Fondos : fondo'[f]["montoActivo"] = fondo[f]["montoActivo"],
             \A e \in Entregas :
               \/ paso'[e] \in {"libre", "leer", "leerModificatorio"}
               \/ paso'[e] = paso[e] /\ llamada'[e] = llamada[e] /\ visto'[e] = visto[e]
      PROVE  ActivoInv'
  BY <1>0, <1>1, <1>2, ActivoQuieto
<1>3. ASSUME UNCHANGED varsLibro PROVE ActivoInv' BY <1>2, <1>3 DEF varsLibro
<1>4. CASE UNCHANGED todas BY <1>3, <1>4 DEF todas, vars, varsLibro
<1>5. ASSUME NEW h \in Hilos, NEW o \in Ordenes, NEW total \in Totales,
             PedirCrear(h, o, total) \/ (\E op \in Operaciones : PedirSobre(h, op, o, total))
      PROVE  ActivoInv'
  <2>1. UNCHANGED varsLibro BY <1>5 DEF PedirCrear, PedirSobre, Pedir
  <2> QED BY <1>3, <2>1
<1>6. ASSUME NEW h \in Hilos, NEW d \in Documentos, PedirFirma(h, d) PROVE ActivoInv'
  <2>1. UNCHANGED varsLibro BY <1>6 DEF PedirFirma, Pedir
  <2> QED BY <1>3, <2>1
<1>7. ASSUME NEW h \in Hilos, EscribirReserva(h) PROVE ActivoInv'
  <2>1. PICK g, v : EscribirComprometido(g, v) BY <1>7 DEF EscribirReserva
  <2>2. \A f \in Fondos : fondo'[f]["montoActivo"] = fondo[f]["montoActivo"]
    BY <1>0, <2>1 DEF EscribirComprometido, TypeOK, FundRow, FundColumns, ServiceColumns
  <2> QED BY <1>2, <2>1, <2>2 DEF EscribirComprometido
<1>8. ASSUME NEW h \in Hilos, Atender(h) \/ FallarPedido(h) PROVE ActivoInv'
  <2>1. CASE EscribirReserva(h) BY <1>7, <2>1
  <2>2. CASE ~EscribirReserva(h)
    <3>1. UNCHANGED vars
      BY <1>8, <2>2 DEF Atender, FallarPedido, LeerFondos, LeerFolio, GuardarNueva, CrearServicios,
                        LeerOrden, LeerContratoDeOrden, Borrar, CambiarServicios, LeerFirmantes,
                        GuardarDocumento, Guardar, EscribirCancelada
    <3> QED BY <1>3, <3>1 DEF vars, varsLibro
  <2> QED BY <2>1, <2>2
<1>9. ASSUME NEW d \in Documentos, EnviarAFirmamex(d) \/ RecibirRechazo(d) PROVE ActivoInv'
  <2>1. UNCHANGED varsLibro BY <1>9 DEF EnviarAFirmamex, RecibirRechazo, vars, varsLibro
  <2> QED BY <1>3, <2>1
<1>10. ASSUME NEW c \in Entregas, RecibirCompletado(c) \/ GuardarFirma(c) \/ EscribirEstatus(c)
       PROVE  ActivoInv'
  <2>1. UNCHANGED varsLibro
    BY <1>10 DEF RecibirCompletado, GuardarFirma, EscribirEstatus, vars, varsLibro
  <2> QED BY <1>3, <2>1
<1>11. ASSUME NEW c \in Entregas, LeerOrdenDeEntrega(c) PROVE ActivoInv'
  <2>1. CASE UNCHANGED varsLibro BY <1>3, <2>1
  <2>2. CASE ~UNCHANGED varsLibro
    <3>1. \E ll : Arrancar(c, ll) BY <1>11, <2>2 DEF LeerOrdenDeEntrega
    <3>2. UNCHANGED fondo BY <3>1 DEF Arrancar
    <3>3. ASSUME NEW e \in Entregas
          PROVE  \/ paso'[e] \in {"libre", "leer", "leerModificatorio"}
                 \/ paso'[e] = paso[e] /\ llamada'[e] = llamada[e] /\ visto'[e] = visto[e]
      BY <1>0, <3>1 DEF Arrancar, TypeOK
    <3> QED BY <1>2, <3>2, <3>3
  <2> QED BY <2>1, <2>2
<1>12. ASSUME NEW c \in Entregas, AvanzarLibro(c) PROVE ActivoInv'
  <2>0. UNCHANGED entrega /\ Avanzar(c) BY <1>12 DEF AvanzarLibro, varsOrden
  <2>1. CASE LeerMaestro(c)
    <3>1. /\ paso[c] \in {"leer", "leerModificatorio"} /\ UNCHANGED fondo
          /\ TrasLeer(c, contrato[llamada[c].servicio], fondo[CargoDe(c).fondo])
      BY <2>1 DEF LeerMaestro
    <3>2. PICK s : s = contrato[llamada[c].servicio] OBVIOUS
    <3> QED BY <1>0, <1>1, <3>1, <3>2, ActivoLeido
  <2>2. CASE LeerModificatorio(c)
    <3>1. /\ paso[c] \in {"leer", "leerModificatorio"} /\ UNCHANGED fondo
          /\ TrasLeer(c, visto[c].servicio, fondo[CargoDe(c).fondo])
      BY <2>2 DEF LeerModificatorio
    <3>2. PICK s : s = visto[c].servicio OBVIOUS
    <3> QED BY <1>0, <1>1, <3>1, <3>2, ActivoLeido
  <2>3. CASE LeerContratos(c)
    <3>1. ASSUME NEW e \in Entregas
          PROVE  \/ paso'[e] \in {"libre", "leer", "leerModificatorio"}
                 \/ paso'[e] = paso[e] /\ llamada'[e] = llamada[e] /\ visto'[e] = visto[e]
      BY <1>0, <2>3 DEF LeerContratos, TypeOK
    <3>2. UNCHANGED fondo BY <2>3 DEF LeerContratos
    <3> QED BY <1>2, <3>1, <3>2
  <2>4. CASE EscribirContrato(c)
    <3>1. /\ UNCHANGED <<fondo, llamada, visto>> /\ paso[c] = "escribirContrato"
          /\ paso' = [paso EXCEPT ![c] = "escribirFondo"]
      BY <2>4 DEF EscribirContrato
    <3>2. ASSUME NEW e \in Entregas, paso'[e] \in {"escribirContrato", "escribirFondo"}
          PROVE  /\ CargoDe(e)' = CargoDe(e) /\ CargoDe(e).fondo \in Fondos
                 /\ paso[e] \in {"escribirContrato", "escribirFondo"} /\ visto'[e] = visto[e]
      <4>1. paso[e] \in {"escribirContrato", "escribirFondo"}
        BY <1>0, <3>1, <3>2 DEF TypeOK
      <4>2. CargoDe(e).fondo \in Fondos BY <1>0, <4>1, CargoDeEntrega
      <4> QED BY <3>1, <4>1, <4>2 DEF CargoDe
    <3> QED BY <1>0, <1>1, <3>1, <3>2, ActivoPaso
  <2>5. CASE EscribirFondo(c) BY <1>0, <1>1, <2>0, <2>5, ActivoEscrito
  <2> QED BY <2>0, <2>1, <2>2, <2>3, <2>4, <2>5 DEF Avanzar
<1>13. ASSUME NEW c \in Entregas, FallarEntrega(c) PROVE ActivoInv'
  <2>1. CASE UNCHANGED vars BY <1>3, <2>1 DEF vars, varsLibro
  <2>2. CASE ~UNCHANGED vars
    <3>1. Terminar(c) /\ UNCHANGED fondo BY <1>13, <2>2 DEF FallarEntrega, Fallar
    <3>2. ASSUME NEW e \in Entregas
          PROVE  \/ paso'[e] \in {"libre", "leer", "leerModificatorio"}
                 \/ paso'[e] = paso[e] /\ llamada'[e] = llamada[e] /\ visto'[e] = visto[e]
      BY <1>0, <3>1 DEF Terminar, TypeOK
    <3> QED BY <1>2, <3>1, <3>2
  <2> QED BY <2>1, <2>2
<1>14. CASE CaerServidor
  <2>1. UNCHANGED fondo /\ \A e \in Entregas : paso'[e] = "libre"
    BY <1>0, <1>14 DEF CaerServidor, PerderActivaciones
  <2> QED BY <1>2, <2>1
<1> QED BY <1>4, <1>5, <1>6, <1>8, <1>9, <1>10, <1>11, <1>12, <1>13, <1>14 DEF NextOrden

\* What has been applied was notified.
LEMMA HechasRecibidas ==
  ASSUME IsFiniteSet(Totales), Totales # {}, NEW f, NEW accion
  PROVE  /\ Tope * Cardinality(Hechas(f, accion)) <= Tope * Entregadas(accion)
         /\ Tope * Cardinality(Hechas(f, accion)) \in Nat /\ Tope * Entregadas(accion) \in Nat
<1> DEFINE H == Hechas(f, accion)
           K == {e \in Entregas : entrega[e].recibida /\ AccionDe(e[1]) = accion}
<1>1. H \subseteq K /\ K \subseteq Entregas BY DEF Hechas, Puede
<1>2. Entregadas(accion) = Cardinality(K) BY DEF Entregadas
<1> HIDE DEF H, K
<1>3. IsFiniteSet(K) /\ IsFiniteSet(H) /\ Cardinality(H) <= Cardinality(K)
  BY <1>1, EntregasFinitas, FS_Subset
<1>4. Cardinality(H) \in Nat /\ Cardinality(K) \in Nat BY <1>3, FS_CardinalityType
<1>5. Tope * Cardinality(H) <= Tope * Cardinality(K)
      /\ Tope * Cardinality(H) \in Nat /\ Tope * Cardinality(K) \in Nat
  BY <1>3, <1>4, TopeBien, Producto
<1> QED BY <1>2, <1>5 DEF H

\* Whatever requests race, fail, are repeated or are lost in a crash, and in
\* whatever order the handlers of the notifications run, a fund has no more
\* active money than the notified approvals can have given it, and owes no more
\* than the notified cancellations.
THEOREM ActivoSiempre ==
  ASSUME Centavo = 1, IsFiniteSet(Totales), Totales # {}
  PROVE  SpecOrden => []ActivoConFirma
<1>1. InitOrden => ActivoInv
  <2> SUFFICES ASSUME InitOrden PROVE ActivoInv OBVIOUS
  <2>1. \A e \in Entregas : paso[e] = "libre" BY EntregasAssumption DEF InitOrden, Init
  <2>2. \A f \in Fondos : fondo[f]["montoActivo"] = 0
    BY DEF InitOrden, Init, FilaFondoCero, FundColumns, ServiceColumns
  <2>3. ASSUME NEW f \in Fondos, NEW accion
        PROVE  Tope * Cardinality(Hechas(f, accion)) \in Nat
    BY HechasRecibidas
  <2>4. ASSUME NEW f \in Fondos PROVE ActivoHasta(fondo[f]["montoActivo"], f)
    <3>1. Tope * Cardinality(Hechas(f, "APPROVE")) \in Nat
          /\ Tope * Cardinality(Hechas(f, "CANCEL")) \in Nat
      BY <2>3
    <3> QED BY <2>2, <3>1 DEF ActivoHasta
  <2> QED BY <2>1, <2>4 DEF ActivoInv
<1>2. TipoInv /\ CargadoInv(0..Tope) /\ ActivoInv /\ [NextOrden]_todas => ActivoInv'
  BY ActivoSiguiente
<1>3. TipoInv /\ ActivoInv => ActivoConFirma
  <2> SUFFICES ASSUME TipoInv, ActivoInv, NEW f \in Fondos
               PROVE  /\ fondo[f]["montoActivo"] <= Tope * Entregadas("APPROVE")
                      /\ - fondo[f]["montoActivo"] <= Tope * Entregadas("CANCEL")
    BY DEF ActivoConFirma, Tope
  <2>1. PICK m \in Int : m = fondo[f]["montoActivo"]
    BY DEF TipoInv, TypeOK, FundRow, FundColumns, ServiceColumns
  <2>2. m <= Tope * Cardinality(Hechas(f, "APPROVE")) /\ - m <= Tope * Cardinality(Hechas(f, "CANCEL"))
    BY <2>1 DEF ActivoInv, ActivoHasta
  <2>3. /\ Tope * Cardinality(Hechas(f, "APPROVE")) <= Tope * Entregadas("APPROVE")
        /\ Tope * Cardinality(Hechas(f, "APPROVE")) \in Nat /\ Tope * Entregadas("APPROVE") \in Nat
    BY HechasRecibidas
  <2>4. /\ Tope * Cardinality(Hechas(f, "CANCEL")) <= Tope * Entregadas("CANCEL")
        /\ Tope * Cardinality(Hechas(f, "CANCEL")) \in Nat /\ Tope * Entregadas("CANCEL") \in Nat
    BY HechasRecibidas
  <2> QED BY <2>1, <2>2, <2>3, <2>4
<1>4. InitOrden => CargadoInv(0..Tope) BY TopeBien, CargadoInicial
<1>5. TipoInv /\ CargadoInv(0..Tope) /\ [NextOrden]_todas => CargadoInv(0..Tope)'
  <2> SUFFICES ASSUME TipoInv, CargadoInv(0..Tope), [NextOrden]_todas
               PROVE  CargadoInv(0..Tope)'
    OBVIOUS
  <2> DEFINE S == 0..Tope
  <2>1. Cubre(S) /\ CargadoInv(S) BY TopeBien
  <2> HIDE DEF S
  <2>2. CargadoInv(S)' BY <2>1, CargadoSiguiente
  <2> QED BY <2>2 DEF S
<1> QED BY <1>1, <1>2, <1>3, <1>4, <1>5, TipoInvSiempre, PTL DEF SpecOrden
=============================================================================
