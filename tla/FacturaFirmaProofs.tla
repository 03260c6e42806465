-------------------------- MODULE FacturaFirmaProofs --------------------------
(***************************************************************************)
(* Proofs about FacturaFirma: an invoice is approved and paid only with a  *)
(* signature, it is paid only with payments for its total, and it never    *)
(* registers one payment twice, whatever overlaps, fails or is repeated.   *)
(* An order is paid only when one of its invoices is, as long as nothing   *)
(* overlaps.                                                               *)
(***************************************************************************)
EXTENDS FacturaFirma, LibroContratoProofs

----
(* Types.                                                                  *)

Consultas == {"libre", "orden", "guardarNueva", "firmantes", "documento", "ticket", "leer",
              "guardar", "escribir", "renglon", "pago", "ordenes"}
Peticion == [op : {"-", "crear", "cotejar", "cancelar", "archivo"}, en : Consultas,
             factura : Facturas \cup {"-"}, docs : SUBSET Documentos,
             fila : Factura \cup {SinFactura}, columnas : SUBSET {"status", "pagos"},
             renglones : Seq(Renglon), pagadas : Seq(Facturas)]
Aviso == [recibido : BOOLEAN, doc : BOOLEAN, status : {"no", "leer", "escribir"},
          fila : Factura \cup {SinFactura}, montos : {"no", "leer", "cargos", "orden"}]
Cobro == [facturas : Seq(Facturas) \ {<<>>}, en : {"leer", "cargos"}] \cup {SinCobro}

Tipos ==
  /\ factura \in [Facturas -> Factura \cup {SinFactura}]
  /\ peticion \in [Hilos -> Peticion]
  /\ aviso \in [Avisos -> Aviso]
  /\ cobro \in [Hilos -> Cobro]
  /\ incidentes \in Nat

----
(* Rows, wherever they are held. *)

SinRepetir(pagos) == \A i, j \in DOMAIN pagos : i # j => pagos[i] # pagos[j]

\* A row is paid when its payments cover it.
Cuadra(fila) ==
  /\ fila.status = "PAGADA" => Cubierta(fila)
  /\ fila.status = "PARTIAL_PAY" => ~Cubierta(fila) /\ fila.pagos # <<>>

\* It is approved, or has payments, only when invoice f was signed.
Aprobable(fila, f) ==
  fila.status \in {"APROBADA", "PARTIAL_PAY", "PAGADA"} \/ fila.pagos # <<>>
    => Firmada(f, "APPROVE")

\* A row that was read from invoice f, perhaps long ago: it registers each
\* payment once, and unless a save has mixed rows of f its status is right.
DeFactura(fila, f) ==
  /\ fila \in Factura /\ SinRepetir(fila.pagos) /\ Aprobable(fila, f)
  /\ f \notin mezcladas => Cuadra(fila)
  /\ Existe(f) /\ fila.total = factura[f].total /\ fila.orden = factura[f].orden

\* A create is the only request about its invoice; all others have one.
PeticionBien(h) ==
  LET q == peticion[h]
  IN  /\ q.en = "libre" => q = SinPeticion
      /\ q.en \in {"orden", "guardarNueva"} =>
           /\ q.factura \in Facturas \ {"-"} /\ ~Existe(q.factura)
           /\ q.fila \in Factura /\ q.fila.status = "RECIBIDA" /\ q.fila.pagos = <<>>
           /\ \A g \in Hilos \ {h} : peticion[g].factura # q.factura
      /\ \A d \in q.docs : q.factura = FacturaDe(d)
      /\ q.en \in {"firmantes", "documento", "ticket", "leer", "guardar", "escribir", "pago", "ordenes"} =>
           q.factura \in Facturas /\ Existe(q.factura)
      /\ q.en \in {"guardar", "escribir", "pago", "ordenes"} => DeFactura(q.fila, q.factura)
      /\ q.en \in {"pago", "ordenes"} =>
           q.fila.status \in {"PARTIAL_PAY", "PAGADA"} /\ Cuadra(q.fila)
      /\ q.en \in {"renglon", "pago", "ordenes"} => q.renglones # <<>> /\ q.docs = {}

\* Only invoices that exist are notified.
AvisoBien(e) ==
  /\ aviso[e].recibido => Existe(FacturaDe(Doc(e)))
  /\ EnCurso(e) => aviso[e].recibido
  /\ aviso[e].status = "escribir" => DeFactura(aviso[e].fila, FacturaDe(Doc(e)))

FacturasBien == \A f \in Facturas : Existe(f) => DeFactura(factura[f], f)
PeticionesBien == \A h \in Hilos : PeticionBien(h)
AvisosBien == \A e \in Avisos : AvisoBien(e)
DocumentosBien == \A d \in Documentos : documento[d] # "no" => Existe(FacturaDe(d))

FilasInv == Tipos /\ FacturasBien /\ PeticionesBien /\ AvisosBien /\ DocumentosBien

\* Invoices are not removed, keep their total and order, and a notification is
\* not forgotten.
Crece ==
  /\ \A f \in Facturas : Existe(f) => /\ Existe(f)'
                                      /\ factura'[f].total = factura[f].total
                                      /\ factura'[f].orden = factura[f].orden
  /\ \A e \in Avisos : aviso[e].recibido => aviso'[e].recibido

\* And a row that was mixed is remembered.
MezclasSiguen == mezcladas \subseteq mezcladas'

\* A row that was read stays a row of its invoice.
LEMMA DeFacturaSigue ==
  ASSUME Crece, MezclasSiguen, NEW f \in Facturas, NEW fila, DeFactura(fila, f)
  PROVE  DeFactura(fila, f)'
<1>1. Firmada(f, "APPROVE") => Firmada(f, "APPROVE")' BY DEF Crece, Firmada
<1> QED BY <1>1 DEF Crece, MezclasSiguen, DeFactura, Aprobable

\* An invoice that does not exist is not a row.
LEMMA NoExiste == SinFactura \notin Factura
BY DEF SinFactura, Factura, INVOICE_STATUS

\* The documents and notifications are of invoices.
LEMMA DeDocumento ==
  /\ \A d \in Documentos : FacturaDe(d) \in Facturas /\ AccionDe(d) \in Acciones
  /\ \A e \in Avisos : Doc(e) \in Documentos /\ FacturaDe(Doc(e)) \in Facturas
BY DEF Documentos, FacturaDe, AccionDe, Avisos, Doc

\* What a step does not touch of the requests stays right, unless it makes the
\* invoice of a create.
LEMMA PeticionSigue ==
  ASSUME FilasInv, MezclasSiguen, Crece, NEW g \in Hilos, peticion'[g] = peticion[g],
         peticion[g].en \in {"orden", "guardarNueva"} =>
           /\ ~Existe(peticion[g].factura)'
           /\ \A k \in Hilos \ {g} : peticion'[k].factura # peticion[g].factura
  PROVE  PeticionBien(g)'
<1>1. PeticionBien(g) BY DEF FilasInv, PeticionesBien
<1>2. peticion[g].factura \in Facturas /\ Existe(peticion[g].factura) => Existe(peticion[g].factura)'
  BY DEF Crece
<1>3. ASSUME peticion[g].en \in {"guardar", "escribir", "pago", "ordenes"}
      PROVE  DeFactura(peticion[g].fila, peticion[g].factura)'
  <2>1. peticion[g].factura \in Facturas /\ DeFactura(peticion[g].fila, peticion[g].factura)
    BY <1>1, <1>3 DEF PeticionBien
  <2>2. PICK f \in Facturas, fila \in Factura : f = peticion[g].factura /\ fila = peticion[g].fila
    BY <2>1 DEF DeFactura
  <2>3. DeFactura(fila, f)' BY <2>1, <2>2, DeFacturaSigue
  <2> QED BY <2>2, <2>3
<1> QED BY <1>1, <1>2, <1>3 DEF PeticionBien

\* What a request does not touch of the others stays right.
LEMMA PeticionesSiguen ==
  ASSUME FilasInv, MezclasSiguen, Crece, NEW h \in Hilos, PeticionBien(h)',
         \A g \in Hilos \ {h} : peticion'[g] = peticion[g],
         \/ peticion'[h].factura \in {peticion[h].factura, "-"}
         \/ peticion'[h].factura \in Facturas /\ Existe(peticion'[h].factura)
         \/ \A g \in Hilos \ {h} : peticion[g].factura # peticion'[h].factura,
         \A f \in Facturas : Existe(f)' => Existe(f) \/ f = peticion[h].factura
  PROVE  PeticionesBien'
<1> SUFFICES ASSUME NEW g \in Hilos \ {h} PROVE PeticionBien(g)' BY DEF PeticionesBien
<1>1. PeticionBien(g) /\ peticion'[g] = peticion[g] BY DEF FilasInv, PeticionesBien
<1>2. ASSUME peticion[g].en \in {"orden", "guardarNueva"}
      PROVE  /\ ~Existe(peticion[g].factura)'
             /\ \A k \in Hilos \ {g} : peticion'[k].factura # peticion[g].factura
  <2>1. /\ peticion[g].factura \in Facturas \ {"-"} /\ ~Existe(peticion[g].factura)
        /\ \A k \in Hilos \ {g} : peticion[k].factura # peticion[g].factura
    BY <1>1, <1>2 DEF PeticionBien
  <2> QED BY <2>1
<1> QED BY <1>1, <1>2, PeticionSigue

\* No request changes, and no invoice is new.
LEMMA PeticionesQuietas ==
  ASSUME FilasInv, MezclasSiguen, Crece, UNCHANGED peticion, \A f \in Facturas : Existe(f)' => Existe(f)
  PROVE  PeticionesBien'
<1> SUFFICES ASSUME NEW g \in Hilos PROVE PeticionBien(g)' BY DEF PeticionesBien
<1>1. PeticionBien(g) BY DEF FilasInv, PeticionesBien
<1>2. ASSUME peticion[g].en \in {"orden", "guardarNueva"}
      PROVE  /\ ~Existe(peticion[g].factura)'
             /\ \A k \in Hilos \ {g} : peticion'[k].factura # peticion[g].factura
  BY <1>1, <1>2 DEF PeticionBien
<1> QED BY <1>2, PeticionSigue

\* The rows of the invoices stay right.
LEMMA FacturasSiguen ==
  ASSUME FilasInv, MezclasSiguen, Crece,
         \A f \in Facturas : factura'[f] = factura[f] \/ DeFactura(factura[f], f)'
  PROVE  FacturasBien'
<1> SUFFICES ASSUME NEW f \in Facturas, Existe(f)', factura'[f] = factura[f]
             PROVE  DeFactura(factura[f], f)'
  BY DEF FacturasBien
<1>1. PICK fila : fila = factura[f] OBVIOUS
<1>2. DeFactura(fila, f) BY <1>1 DEF FilasInv, FacturasBien, Existe
<1>3. DeFactura(fila, f)' BY <1>2, DeFacturaSigue
<1> QED BY <1>1, <1>3

\* So do the notifications that a step does not touch, and what it received.
LEMMA AvisosSiguen ==
  ASSUME FilasInv, MezclasSiguen, Crece,
         \A e \in Avisos : aviso'[e] = aviso[e] \/ AvisoBien(e)'
  PROVE  AvisosBien'
<1> SUFFICES ASSUME NEW e \in Avisos, aviso'[e] = aviso[e] PROVE AvisoBien(e)'
  BY DEF AvisosBien
<1>1. AvisoBien(e) BY DEF FilasInv, AvisosBien
<1>2. PICK f \in Facturas, fila \in Factura \cup {SinFactura} : f = FacturaDe(Doc(e)) /\ fila = aviso[e].fila
  BY DeDocumento DEF FilasInv, Tipos, Aviso
<1>3. Existe(f) => Existe(f)' BY DEF Crece
<1>4. DeFactura(fila, f) => DeFactura(fila, f)' BY DeFacturaSigue
<1> QED BY <1>1, <1>2, <1>3, <1>4 DEF AvisoBien, EnCurso

----
(* Requests. *)

\* How a request goes on.
LEMMA SeguirHace ==
  ASSUME Tipos, NEW h \in Hilos, NEW en \in Consultas, Seguir(h, en)
  PROVE  /\ peticion' \in [Hilos -> Peticion]
         /\ \A g \in Hilos \ {h} : peticion'[g] = peticion[g]
         /\ peticion'[h].en = en /\ peticion'[h].op = peticion[h].op
         /\ peticion'[h].factura = peticion[h].factura /\ peticion'[h].docs = peticion[h].docs
         /\ peticion'[h].fila = peticion[h].fila /\ peticion'[h].renglones = peticion[h].renglones
         /\ peticion'[h].pagadas = peticion[h].pagadas
<1>1. PICK q \in Peticion : q = peticion[h] BY DEF Tipos
<1> DEFINE r == [q EXCEPT !.en = en]
<1>2. /\ r \in Peticion /\ r.en = en /\ r.op = q.op /\ r.factura = q.factura /\ r.docs = q.docs
      /\ r.fila = q.fila /\ r.renglones = q.renglones /\ r.pagadas = q.pagadas
  BY DEF Peticion
<1>3. peticion' = [peticion EXCEPT ![h] = r] BY <1>1 DEF Seguir, Tipos
<1> HIDE DEF r
<1> QED BY <1>1, <1>2, <1>3 DEF Tipos

\* How it goes on with a row.
LEMMA SeguirConHace ==
  ASSUME Tipos, NEW h \in Hilos, NEW en \in Consultas, NEW fila \in Factura \cup {SinFactura},
         SeguirCon(h, en, fila)
  PROVE  /\ peticion' \in [Hilos -> Peticion]
         /\ \A g \in Hilos \ {h} : peticion'[g] = peticion[g]
         /\ peticion'[h].en = en /\ peticion'[h].op = peticion[h].op
         /\ peticion'[h].factura = peticion[h].factura /\ peticion'[h].docs = peticion[h].docs
         /\ peticion'[h].fila = fila /\ peticion'[h].renglones = peticion[h].renglones
         /\ peticion'[h].pagadas = peticion[h].pagadas
<1>1. PICK q \in Peticion : q = peticion[h] BY DEF Tipos
<1> DEFINE r == [q EXCEPT !.en = en, !.fila = fila]
<1>2. /\ r \in Peticion /\ r.en = en /\ r.op = q.op /\ r.factura = q.factura /\ r.docs = q.docs
      /\ r.fila = fila /\ r.renglones = q.renglones /\ r.pagadas = q.pagadas
  BY DEF Peticion
<1>3. peticion' = [peticion EXCEPT ![h] = r] BY <1>1 DEF SeguirCon, Tipos
<1> HIDE DEF r
<1> QED BY <1>1, <1>2, <1>3 DEF Tipos

\* A request that is not there holds nothing.
LEMMA PeticionVacia ==
  /\ SinPeticion \in Peticion /\ SinPeticion.en = "libre" /\ SinPeticion.docs = {}
  /\ SinPeticion.factura = "-"
<1> DEFINE nada == <<>>
           vacio == {}
<1>1. nada \in Seq(Renglon) /\ nada \in Seq(Facturas) 
      /\ vacio \in SUBSET Documentos /\ vacio \in SUBSET {"status", "pagos"}
  OBVIOUS
<1> HIDE DEF nada, vacio
<1> DEFINE q == [op |-> "-", en |-> "libre", factura |-> "-", docs |-> vacio, fila |-> SinFactura,
                 columnas |-> vacio, renglones |-> nada, pagadas |-> nada]
<1>2. q \in Peticion /\ q.en = "libre" /\ q.docs = vacio /\ q.factura = "-"
  BY <1>1 DEF Peticion, Consultas
<1>3. SinPeticion = q BY DEF SinPeticion, nada, vacio
<1> QED BY <1>2, <1>3 DEF vacio

\* How it ends.
LEMMA ResponderHace ==
  ASSUME Tipos, NEW h \in Hilos, Responder(h)
  PROVE  /\ peticion' \in [Hilos -> Peticion] /\ peticion'[h] = SinPeticion
         /\ \A g \in Hilos \ {h} : peticion'[g] = peticion[g]
         /\ PeticionBien(h)'
<1>1. /\ peticion' \in [Hilos -> Peticion] /\ peticion'[h] = SinPeticion
      /\ \A g \in Hilos \ {h} : peticion'[g] = peticion[g]
  BY PeticionVacia DEF Responder, Tipos
<1>2. PeticionBien(h)' BY <1>1, PeticionVacia DEF PeticionBien
<1> QED BY <1>1, <1>2

\* Invoices that do not change.
LEMMA MismaCrece ==
  ASSUME UNCHANGED factura, \A e \in Avisos : aviso[e].recibido => aviso'[e].recibido
  PROVE  Crece
BY DEF Crece, Existe

\* A step of a request keeps every row right.
LEMMA FilasPeticion ==
  ASSUME FilasInv, MezclasSiguen, Crece, NEW h \in Hilos, PeticionBien(h)', UNCHANGED aviso,
         peticion' \in [Hilos -> Peticion], factura' \in [Facturas -> Factura \cup {SinFactura}],
         cobro' \in [Hilos -> Cobro], incidentes' \in Nat,
         \A g \in Hilos \ {h} : peticion'[g] = peticion[g],
         \/ peticion'[h].factura \in {peticion[h].factura, "-"}
         \/ peticion'[h].factura \in Facturas /\ Existe(peticion'[h].factura)
         \/ \A g \in Hilos \ {h} : peticion[g].factura # peticion'[h].factura,
         \A f \in Facturas : Existe(f)' => Existe(f) \/ f = peticion[h].factura,
         \A f \in Facturas : factura'[f] = factura[f] \/ DeFactura(factura[f], f)',
         \A d \in Documentos : documento'[d] # "no" => documento[d] # "no" \/ Existe(FacturaDe(d))
  PROVE  FilasInv'
<1>1. PeticionesBien' BY PeticionesSiguen
<1>2. FacturasBien' /\ AvisosBien' BY FacturasSiguen, AvisosSiguen
<1>3. DocumentosBien' BY DeDocumento DEF FilasInv, DocumentosBien, Crece
<1> QED BY <1>1, <1>2, <1>3 DEF FilasInv, Tipos

\* In particular one that writes no invoice.
LEMMA FilasSoloPeticion ==
  ASSUME FilasInv, MezclasSiguen, NEW h \in Hilos, PeticionBien(h)', UNCHANGED <<factura, aviso>>,
         peticion' \in [Hilos -> Peticion], cobro' \in [Hilos -> Cobro], incidentes' \in Nat,
         \A g \in Hilos \ {h} : peticion'[g] = peticion[g],
         \/ peticion'[h].factura \in {peticion[h].factura, "-"}
         \/ peticion'[h].factura \in Facturas /\ Existe(peticion'[h].factura)
         \/ \A g \in Hilos \ {h} : peticion[g].factura # peticion'[h].factura,
         \A d \in Documentos : documento'[d] # "no" => documento[d] # "no" \/ Existe(FacturaDe(d))
  PROVE  FilasInv'
<1>1. Crece BY MismaCrece
<1>2. factura' \in [Facturas -> Factura \cup {SinFactura}] BY DEF FilasInv, Tipos
<1>3. \A f \in Facturas : (Existe(f)' => Existe(f)) /\ factura'[f] = factura[f]
  BY DEF Existe
<1> QED BY <1>1, <1>2, <1>3, FilasPeticion

\* A request ends.
LEMMA FilasResponde ==
  ASSUME FilasInv, MezclasSiguen, NEW h \in Hilos, Responder(h), UNCHANGED <<factura, aviso>>,
         cobro' \in [Hilos -> Cobro], incidentes' \in Nat,
         \A d \in Documentos : documento'[d] # "no" => documento[d] # "no" \/ Existe(FacturaDe(d))
  PROVE  FilasInv'
<1>1. /\ peticion' \in [Hilos -> Peticion] /\ peticion'[h] = SinPeticion
      /\ \A g \in Hilos \ {h} : peticion'[g] = peticion[g]
      /\ PeticionBien(h)'
  BY ResponderHace DEF FilasInv
<1>2. peticion'[h].factura \in {peticion[h].factura, "-"} BY <1>1, PeticionVacia
<1> QED BY <1>1, <1>2, FilasSoloPeticion

\* Or goes on, still about its invoice.
LEMMA FilasSigue ==
  ASSUME FilasInv, MezclasSiguen, NEW h \in Hilos, NEW en \in Consultas, Seguir(h, en),
         UNCHANGED <<factura, aviso, cobro, incidentes>>, peticion[h].en # "libre",
         \/ peticion[h].en = "orden" /\ en = "guardarNueva"
         \/ /\ peticion[h].factura \in Facturas /\ Existe(peticion[h].factura)
            /\ en \in {"firmantes", "documento", "ticket", "leer"},
         \A d \in Documentos : documento'[d] # "no" => documento[d] # "no" \/ Existe(FacturaDe(d))
  PROVE  FilasInv'
<1>1. /\ peticion' \in [Hilos -> Peticion]
      /\ \A g \in Hilos \ {h} : peticion'[g] = peticion[g]
      /\ peticion'[h].en = en /\ peticion'[h].op = peticion[h].op
      /\ peticion'[h].factura = peticion[h].factura /\ peticion'[h].docs = peticion[h].docs
      /\ peticion'[h].fila = peticion[h].fila /\ peticion'[h].renglones = peticion[h].renglones
      /\ peticion'[h].pagadas = peticion[h].pagadas
  BY SeguirHace DEF FilasInv
<1>2. PeticionBien(h) BY DEF FilasInv, PeticionesBien
<1>3. PeticionBien(h)'
  <2>1. \A f : Existe(f)' <=> Existe(f) BY DEF Existe
  <2>2. CASE peticion[h].en = "orden" /\ en = "guardarNueva"
    BY <1>1, <1>2, <2>1, <2>2 DEF PeticionBien
  <2>3. CASE /\ peticion[h].factura \in Facturas /\ Existe(peticion[h].factura)
             /\ en \in {"firmantes", "documento", "ticket", "leer"}
    BY <1>1, <1>2, <2>1, <2>3 DEF PeticionBien
  <2> QED BY <2>2, <2>3
<1>4. cobro' \in [Hilos -> Cobro] /\ incidentes' \in Nat BY DEF FilasInv, Tipos
<1> QED BY <1>1, <1>3, <1>4, FilasSoloPeticion

\* A request arrives.
LEMMA FilasPedir ==
  ASSUME FilasInv, MezclasSiguen, NEW h \in Hilos, NEW q \in Peticion, Pedir(h, q),
         \/ /\ q.en = "orden" /\ q.factura \in Facturas /\ q.docs = {}
            /\ q.fila \in Factura /\ q.fila.status = "RECIBIDA" /\ q.fila.pagos = <<>>
            /\ ~Existe(q.factura) /\ \A g \in Hilos : peticion[g].factura # q.factura
         \/ /\ q.en \in {"firmantes", "leer"} /\ q.factura \in Facturas /\ Existe(q.factura)
            /\ \A d \in q.docs : q.factura = FacturaDe(d)
         \/ q.en = "renglon" /\ q.factura = "-" /\ q.docs = {} /\ q.renglones # <<>>
  PROVE  FilasInv'
<1>1. /\ peticion' \in [Hilos -> Peticion] /\ peticion'[h] = q
      /\ \A g \in Hilos \ {h} : peticion'[g] = peticion[g]
      /\ UNCHANGED <<factura, documento, aviso, cobro>>
  BY DEF Pedir, FilasInv, Tipos
<1>2. incidentes' \in Nat /\ cobro' \in [Hilos -> Cobro]
  BY <1>1 DEF Pedir, Llegar, FilasInv, Tipos
<1>3. \A f : Existe(f)' <=> Existe(f) BY <1>1 DEF Existe
<1>4. peticion[h].factura = "-"
  BY PeticionVacia DEF Pedir, FilasInv, PeticionesBien, PeticionBien
<1>5. PeticionBien(h)' BY <1>1, <1>3, <1>4 DEF PeticionBien
<1> QED BY <1>1, <1>2, <1>5, FilasSoloPeticion

\* The requests that clients make arrive.
LEMMA FilasPedidas ==
  ASSUME FilasInv, MezclasSiguen, NEW h \in Hilos,
         \/ \E f \in Facturas, folio \in Folios, total \in Totales, o \in Ordenes :
              PedirCrear(h, f, FilaFactura(folio, total, o, "RECIBIDA"))
         \/ \E d \in Documentos : PedirFirma(h, d)
         \/ \E a \in Archivos : PedirArchivo(h, a)
  PROVE  FilasInv'
<1>0. /\ SinPeticion \in Peticion /\ SinPeticion.docs = {} /\ SinPeticion.factura = "-"
  BY PeticionVacia
<1>1. ASSUME NEW f \in Facturas, NEW folio \in Folios, NEW total \in Totales, NEW o \in Ordenes,
             PedirCrear(h, f, FilaFactura(folio, total, o, "RECIBIDA"))
      PROVE  FilasInv'
  <2> DEFINE fila == FilaFactura(folio, total, o, "RECIBIDA")
  <2>1. fila \in Factura /\ fila.status = "RECIBIDA" /\ fila.pagos = <<>>
    <3> DEFINE nada == <<>>
    <3>1. nada \in Seq(PaymentRegister) OBVIOUS
    <3> HIDE DEF nada
    <3> DEFINE r == [folio |-> folio, total |-> total, orden |-> o, status |-> "RECIBIDA",
                     pagos |-> nada]
    <3>2. r \in Factura /\ r.status = "RECIBIDA" /\ r.pagos = nada
      BY <3>1 DEF Factura, INVOICE_STATUS
    <3>3. fila = r BY DEF FilaFactura, nada
    <3> HIDE DEF r, fila
    <3> QED BY <3>2, <3>3 DEF nada
  <2> HIDE DEF fila
  <2> DEFINE q == [SinPeticion EXCEPT !.op = "crear", !.en = "orden", !.factura = f, !.fila = fila]
  <2>2. /\ q \in Peticion /\ q.en = "orden" /\ q.factura = f /\ q.docs = {} /\ q.fila = fila
    BY <1>0, <2>1 DEF Peticion, Consultas
  <2>3. /\ Pedir(h, q) /\ ~Existe(f) /\ \A g \in Hilos : peticion[g].factura # f
    BY <1>1 DEF PedirCrear, fila
  <2> HIDE DEF q
  <2> QED BY <2>1, <2>2, <2>3, FilasPedir
<1>2. ASSUME NEW d \in Documentos, PedirFirma(h, d)
      PROVE  FilasInv'
  <2> DEFINE op == IF AccionDe(d) = "APPROVE" THEN "cotejar" ELSE "cancelar"
             en == IF op = "cotejar" THEN "firmantes" ELSE "leer"
             f == FacturaDe(d)
             ds == {d}
             q == [SinPeticion EXCEPT !.op = op, !.factura = f, !.docs = ds, !.en = en]
  <2>1. Pedir(h, q) /\ Existe(f) BY <1>2 DEF PedirFirma
  <2>2. /\ op \in {"cotejar", "cancelar"} /\ en \in {"firmantes", "leer"} /\ f \in Facturas
        /\ ds \in SUBSET Documentos /\ \A x \in ds : f = FacturaDe(x)
    BY DeDocumento
  <2> HIDE DEF op, en, f, ds
  <2>3. /\ q \in Peticion /\ q.en = en /\ q.factura = f /\ q.docs = ds
    BY <1>0, <2>2 DEF Peticion, Consultas
  <2> HIDE DEF q
  <2> QED BY <2>1, <2>2, <2>3, FilasPedir
<1>3. ASSUME NEW a \in Archivos, PedirArchivo(h, a)
      PROVE  FilasInv'
  <2> DEFINE q == [SinPeticion EXCEPT !.op = "archivo", !.en = "renglon", !.renglones = a]
  <2>1. a \in Seq(Renglon) /\ a # <<>> BY FacturasAssumption
  <2>2. /\ q \in Peticion /\ q.en = "renglon" /\ q.factura = "-" /\ q.docs = {} /\ q.renglones = a
    BY <1>0, <2>1 DEF Peticion, Consultas
  <2>3. Pedir(h, q) BY <1>3 DEF PedirArchivo
  <2> HIDE DEF q
  <2> QED BY <2>1, <2>2, <2>3, FilasPedir
<1> QED BY <1>1, <1>2, <1>3

\* create saves its row: the invoice is new.
LEMMA FilasGuardarNueva ==
  ASSUME FilasInv, MezclasSiguen, NEW h \in Hilos, GuardarNueva(h)
  PROVE  FilasInv'
<1>1. PeticionBien(h) /\ Tipos BY DEF FilasInv, PeticionesBien
<1>2. PICK f \in Facturas, fila \in Factura :
        /\ f = peticion[h].factura /\ fila = peticion[h].fila /\ ~Existe(f)
        /\ fila.status = "RECIBIDA" /\ fila.pagos = <<>>
  BY <1>1 DEF GuardarNueva, PeticionBien
<1>3. /\ factura' = [factura EXCEPT ![f] = fila] /\ Responder(h)
      /\ UNCHANGED <<documento, aviso, cobro, incidentes>>
  BY <1>2 DEF GuardarNueva
<1>4. /\ factura'[f] = fila /\ \A g \in Facturas : g # f => factura'[g] = factura[g]
      /\ factura' \in [Facturas -> Factura \cup {SinFactura}]
  BY <1>1, <1>3 DEF Tipos
<1>5. Existe(f)' /\ \A g \in Facturas : g # f => (Existe(g)' <=> Existe(g))
  BY <1>4, NoExiste DEF Existe
<1>6. Crece BY <1>2, <1>3, <1>4, <1>5 DEF Crece
<1>7. DeFactura(factura[f], f)'
  <2>1. Cuadra(fila) /\ SinRepetir(fila.pagos) BY <1>2 DEF Cuadra, SinRepetir
  <2>2. Aprobable(fila, f)' BY <1>2 DEF Aprobable
  <2> QED BY <1>4, <1>5, <2>1, <2>2 DEF DeFactura, Cuadra, Aprobable
<1>8. /\ peticion' \in [Hilos -> Peticion] /\ peticion'[h] = SinPeticion
      /\ \A g \in Hilos \ {h} : peticion'[g] = peticion[g]
      /\ PeticionBien(h)' /\ peticion'[h].factura = "-"
  BY <1>1, <1>3, ResponderHace, PeticionVacia
<1>9. cobro' \in [Hilos -> Cobro] /\ incidentes' \in Nat BY <1>1, <1>3 DEF Tipos
<1>10. \A g \in Facturas : Existe(g)' => Existe(g) \/ g = peticion[h].factura
  BY <1>2, <1>5
<1>11. \A g \in Facturas : factura'[g] = factura[g] \/ DeFactura(factura[g], g)'
  BY <1>4, <1>7
<1> QED BY <1>3, <1>4, <1>6, <1>8, <1>9, <1>10, <1>11, FilasPeticion

\* The requests that make documents.
LEMMA FilasFirma ==
  ASSUME FilasInv, MezclasSiguen, NEW h \in Hilos,
         LeerOrden(h) \/ LeerFirmantes(h) \/ GuardarDocumento(h) \/ EnviarAlCotejar(h)
  PROVE  FilasInv'
<1>1. PeticionBien(h) /\ Tipos /\ DocumentosBien BY DEF FilasInv, PeticionesBien
<1>2. CASE LeerOrden(h)
  BY <1>1, <1>2, FilasSigue, FilasResponde DEF LeerOrden, Tipos, Consultas
<1>3. CASE LeerFirmantes(h)
  BY <1>1, <1>3, FilasSigue DEF LeerFirmantes, PeticionBien, Consultas
<1>4. CASE GuardarDocumento(h)
  <2>1. peticion[h].factura \in Facturas /\ Existe(peticion[h].factura)
    BY <1>1, <1>4 DEF GuardarDocumento, PeticionBien
  <2>2. \A d \in Documentos : documento'[d] # "no" => documento[d] # "no" \/ Existe(FacturaDe(d))
    BY <1>1, <1>4, <2>1 DEF GuardarDocumento, PeticionBien
  <2> QED BY <1>1, <1>4, <2>1, <2>2, FilasSigue, FilasResponde DEF GuardarDocumento, Tipos, Consultas
<1>5. CASE EnviarAlCotejar(h)
  <2>1. peticion[h].factura \in Facturas /\ Existe(peticion[h].factura)
    BY <1>1, <1>5 DEF EnviarAlCotejar, PeticionBien
  <2>2. \A d \in Documentos : documento'[d] # "no" => documento[d] # "no" \/ Existe(FacturaDe(d))
    <3>1. CASE UNCHANGED documento BY <3>1
    <3>2. ASSUME NEW x \in peticion[h].docs, documento' = [documento EXCEPT ![x] = "enviado"]
          PROVE  \A d \in Documentos : documento'[d] # "no" => documento[d] # "no" \/ Existe(FacturaDe(d))
      <4>1. Existe(FacturaDe(x)) BY <1>1, <2>1 DEF PeticionBien
      <4> QED BY <3>2, <4>1
    <3> QED BY <1>5, <3>1, <3>2 DEF EnviarAlCotejar
  <2> QED BY <1>1, <1>5, <2>1, <2>2, FilasSigue DEF EnviarAlCotejar, Consultas
<1> QED BY <1>2, <1>3, <1>4, <1>5

\* A request reads its invoice.
LEMMA FilasLeerFactura ==
  ASSUME FilasInv, MezclasSiguen, NEW h \in Hilos, LeerFactura(h)
  PROVE  FilasInv'
<1>1. PeticionBien(h) /\ Tipos /\ FacturasBien BY DEF FilasInv, PeticionesBien
<1>2. PICK f \in Facturas : f = peticion[h].factura /\ Existe(f)
  BY <1>1 DEF LeerFactura, PeticionBien
<1>3. PICK fila \in Factura : fila = factura[f] /\ DeFactura(fila, f)
  BY <1>1, <1>2 DEF FacturasBien, DeFactura
<1>4. SeguirCon(h, "guardar", fila) /\ UNCHANGED <<factura, documento, aviso, cobro, incidentes>>
  BY <1>2, <1>3 DEF LeerFactura
<1>5. /\ peticion' \in [Hilos -> Peticion] /\ \A g \in Hilos \ {h} : peticion'[g] = peticion[g]
      /\ peticion'[h].en = "guardar" /\ peticion'[h].factura = f /\ peticion'[h].fila = fila
      /\ peticion'[h].docs = peticion[h].docs
  BY <1>1, <1>2, <1>4, SeguirConHace DEF Consultas
<1>6. Existe(f)' /\ DeFactura(fila, f)'
  <2>1. Crece BY <1>4, MismaCrece
  <2> QED BY <1>2, <1>3, <2>1, DeFacturaSigue DEF Crece
<1>7. PeticionBien(h)' BY <1>1, <1>2, <1>5, <1>6 DEF PeticionBien
<1>8. cobro' \in [Hilos -> Cobro] /\ incidentes' \in Nat BY <1>1, <1>4 DEF Tipos
<1> QED BY <1>2, <1>4, <1>5, <1>7, <1>8, FilasSoloPeticion

\* A write of an invoice that exists, with a row that is right.
LEMMA FilasEscribe ==
  ASSUME FilasInv, MezclasSiguen, NEW f \in Facturas, Existe(f), NEW fila \in Factura,
         fila.total = factura[f].total, fila.orden = factura[f].orden,
         f \notin mezcladas' => Cuadra(fila), SinRepetir(fila.pagos), Aprobable(fila, f),
         factura' = [factura EXCEPT ![f] = fila],
         \A e \in Avisos : aviso[e].recibido => aviso'[e].recibido
  PROVE  /\ Crece /\ factura' \in [Facturas -> Factura \cup {SinFactura}]
         /\ \A g \in Facturas : /\ Existe(g)' => Existe(g)
                                /\ factura'[g] = factura[g] \/ DeFactura(factura[g], g)'
<1>1. /\ factura'[f] = fila /\ \A g \in Facturas : g # f => factura'[g] = factura[g]
      /\ factura' \in [Facturas -> Factura \cup {SinFactura}]
  BY DEF FilasInv, Tipos
<1>2. Existe(f)' /\ \A g \in Facturas : g # f => (Existe(g)' <=> Existe(g))
  BY <1>1, NoExiste DEF Existe
<1>3. Crece BY <1>1, <1>2 DEF Crece
<1>4. Firmada(f, "APPROVE") => Firmada(f, "APPROVE")' BY <1>3 DEF Crece, Firmada
<1>5. DeFactura(factura[f], f)' BY <1>1, <1>2, <1>4 DEF DeFactura, Cuadra, Aprobable
<1> QED BY <1>1, <1>2, <1>3, <1>5

\* It compares the row with the one that is there ...
LEMMA CompararHace ==
  ASSUME Tipos, NEW h \in Hilos, Comparar(h)
  PROVE  /\ peticion' \in [Hilos -> Peticion]
         /\ \A g \in Hilos \ {h} : peticion'[g] = peticion[g]
         /\ peticion'[h].en = "escribir" /\ peticion'[h].factura = peticion[h].factura
         /\ peticion'[h].docs = peticion[h].docs /\ peticion'[h].fila = peticion[h].fila
<1>1. PICK q \in Peticion : q = peticion[h] BY DEF Tipos
<1>2. PICK cs \in SUBSET {"status", "pagos"} :
        peticion' = [peticion EXCEPT ![h].en = "escribir", ![h].columnas = cs]
  BY DEF Comparar
<1> DEFINE r == [q EXCEPT !.en = "escribir", !.columnas = cs]
<1>3. r \in Peticion /\ r.en = "escribir" /\ r.factura = q.factura /\ r.docs = q.docs /\ r.fila = q.fila
  BY DEF Peticion, Consultas
<1>4. peticion' = [peticion EXCEPT ![h] = r] BY <1>1, <1>2 DEF Tipos
<1> HIDE DEF r
<1> QED BY <1>1, <1>3, <1>4 DEF Tipos

LEMMA FilasComparar ==
  ASSUME FilasInv, MezclasSiguen, NEW h \in Hilos, Comparar(h)
  PROVE  FilasInv'
<1>1. Tipos /\ PeticionBien(h) BY DEF FilasInv, PeticionesBien
<1>2. PICK f \in Facturas, fila \in Factura :
        f = peticion[h].factura /\ fila = peticion[h].fila /\ DeFactura(fila, f)
  BY <1>1 DEF Comparar, PeticionBien, DeFactura
<1>3. UNCHANGED <<factura, documento, aviso, cobro, incidentes>> /\ peticion[h].en = "guardar"
  BY DEF Comparar
<1>4. Existe(f)' /\ DeFactura(fila, f)'
  <2>1. Crece BY <1>3, MismaCrece
  <2> QED BY <1>2, <2>1, DeFacturaSigue DEF Crece, DeFactura
<1>5. PeticionBien(h)' BY <1>1, <1>2, <1>3, <1>4, CompararHace DEF PeticionBien
<1>6. cobro' \in [Hilos -> Cobro] /\ incidentes' \in Nat BY <1>1, <1>3 DEF Tipos
<1> QED BY <1>1, <1>3, <1>5, <1>6, CompararHace, FilasSoloPeticion

\* ... and saves what differed: each column is of the row that it read or of
\* the one that is there.
LEMMA GuardarHace ==
  ASSUME FilasInv, NEW h \in Hilos, Guardar(h)
  PROVE  \E f \in Facturas, fila, vieja, r \in Factura :
           /\ f = peticion[h].factura /\ fila = peticion[h].fila /\ vieja = factura[f]
           /\ DeFactura(fila, f) /\ DeFactura(vieja, f)
           /\ r.total = vieja.total /\ r.orden = vieja.orden
           /\ r.status \in {fila.status, vieja.status} /\ r.pagos \in {fila.pagos, vieja.pagos}
           /\ factura' = [factura EXCEPT ![f] = r]
           /\ mezcladas' = IF r \in {vieja, fila} THEN mezcladas ELSE mezcladas \cup {f}
<1>1. PeticionBien(h) /\ Tipos /\ FacturasBien BY DEF FilasInv, PeticionesBien
<1>2. PICK f \in Facturas, fila \in Factura :
        f = peticion[h].factura /\ fila = peticion[h].fila /\ DeFactura(fila, f)
  BY <1>1 DEF Guardar, PeticionBien, DeFactura
<1>3. PICK vieja \in Factura : vieja = factura[f] /\ DeFactura(vieja, f)
  BY <1>1, <1>2 DEF FacturasBien, DeFactura
<1>4. PICK st \in {fila.status, vieja.status}, ps \in {fila.pagos, vieja.pagos} :
        Guardada(h) = [vieja EXCEPT !.status = st, !.pagos = ps]
  <2> DEFINE st == IF "status" \in peticion[h].columnas THEN fila.status ELSE vieja.status
             ps == IF "pagos" \in peticion[h].columnas THEN fila.pagos ELSE vieja.pagos
  <2>1. Guardada(h) = [vieja EXCEPT !.status = st, !.pagos = ps]
    BY <1>2, <1>3 DEF Guardada, Factura
  <2> QED BY <2>1
<1> DEFINE r == [vieja EXCEPT !.status = st, !.pagos = ps]
<1>5. /\ r \in Factura /\ r.total = vieja.total /\ r.orden = vieja.orden
      /\ r.status = st /\ r.pagos = ps
  BY DEF Factura
<1>6. Guardada(h) = r BY <1>4
<1> HIDE DEF r
<1> QED BY <1>2, <1>3, <1>5, <1>6 DEF Guardar

LEMMA FilasGuardar ==
  ASSUME FilasInv, MezclasSiguen, NEW h \in Hilos, Guardar(h)
  PROVE  FilasInv'
<1>1. PeticionBien(h) /\ Tipos BY DEF FilasInv, PeticionesBien
<1>2. PICK f \in Facturas, fila \in Factura, vieja \in Factura, r \in Factura :
        /\ f = peticion[h].factura /\ fila = peticion[h].fila /\ vieja = factura[f]
        /\ DeFactura(fila, f) /\ DeFactura(vieja, f)
        /\ r.total = vieja.total /\ r.orden = vieja.orden
        /\ r.status \in {fila.status, vieja.status} /\ r.pagos \in {fila.pagos, vieja.pagos}
        /\ factura' = [factura EXCEPT ![f] = r]
        /\ mezcladas' = IF r \in {vieja, fila} THEN mezcladas ELSE mezcladas \cup {f}
  BY GuardarHace
<1>3. /\ UNCHANGED <<documento, aviso, cobro, incidentes>>
      /\ Responder(h) \/ Seguir(h, "firmantes")
  BY DEF Guardar
<1>4. /\ Crece /\ factura' \in [Facturas -> Factura \cup {SinFactura}]
      /\ \A g \in Facturas : /\ Existe(g)' => Existe(g)
                             /\ factura'[g] = factura[g] \/ DeFactura(factura[g], g)'
  <2>1. f \notin mezcladas' => Cuadra(r) BY <1>2 DEF DeFactura
  <2>2. SinRepetir(r.pagos) /\ Aprobable(r, f) BY <1>2 DEF DeFactura, Aprobable
  <2> QED BY <1>2, <1>3, <2>1, <2>2, FilasEscribe DEF DeFactura
<1>5. cobro' \in [Hilos -> Cobro] /\ incidentes' \in Nat BY <1>1, <1>3 DEF Tipos
<1>6. CASE Responder(h)
  <2>1. /\ peticion' \in [Hilos -> Peticion] /\ peticion'[h].factura = "-"
        /\ \A g \in Hilos \ {h} : peticion'[g] = peticion[g]
        /\ PeticionBien(h)'
    BY <1>1, <1>6, ResponderHace, PeticionVacia
  <2> QED BY <1>3, <1>4, <1>5, <2>1, FilasPeticion
<1>7. CASE Seguir(h, "firmantes")
  <2>1. /\ peticion' \in [Hilos -> Peticion] /\ \A g \in Hilos \ {h} : peticion'[g] = peticion[g]
        /\ peticion'[h].en = "firmantes" /\ peticion'[h].factura = f
        /\ peticion'[h].docs = peticion[h].docs
    BY <1>1, <1>2, <1>7, SeguirHace DEF Consultas
  <2>2. Existe(f)' BY <1>2, <1>4 DEF Crece, DeFactura
  <2>3. PeticionBien(h)' BY <1>1, <1>2, <2>1, <2>2 DEF PeticionBien
  <2> QED BY <1>2, <1>3, <1>4, <1>5, <2>1, <2>3, FilasPeticion
<1> QED BY <1>3, <1>6, <1>7

----
(* The payments file. *)

\* A payment that is not registered is one more, and the invoice is paid when
\* they cover it.
LEMMA PagoBueno ==
  ASSUME NEW f \in Facturas, NEW fila \in Factura, DeFactura(fila, f), NEW r \in Renglon,
         SePaga(fila, r)
  PROVE  /\ DeFactura(ConPago(fila, r), f) /\ Cuadra(ConPago(fila, r))
         /\ ConPago(fila, r).status \in {"PARTIAL_PAY", "PAGADA"}
<1> DEFINE p == [monto |-> r.monto, cheque |-> r.cheque]
<1>1. p \in PaymentRegister BY DEF Renglon, PaymentRegister
<1>2. PICK ps \in Seq(PaymentRegister) : ps = fila.pagos BY DEF Factura
<1>3. \A i \in DOMAIN ps : ps[i] # p BY <1>2 DEF SePaga, YaRegistrado
<1> DEFINE pagos == Append(ps, p)
           st == IF SumaPagos(pagos) >= fila.total THEN "PAGADA" ELSE "PARTIAL_PAY"
           q == [fila EXCEPT !.pagos = pagos, !.status = st]
<1>4. ConPago(fila, r) = q BY <1>2 DEF ConPago
<1>5. pagos \in Seq(PaymentRegister) /\ pagos # <<>> /\ SinRepetir(pagos)
  <2> HIDE DEF p
  <2>1. pagos \in Seq(PaymentRegister) BY <1>1
  <2>2. PICK n \in Nat : n = Len(ps) BY <1>2
  <2>3. /\ DOMAIN pagos = 1..(n + 1) /\ pagos[n + 1] = p /\ DOMAIN ps = 1..n
        /\ \A i \in 1..n : pagos[i] = ps[i]
    BY <1>1, <2>2
  <2>4. SinRepetir(ps) BY <1>2 DEF DeFactura
  <2> HIDE DEF pagos
  <2>6. pagos # <<>>
    <3>1. n + 1 \in DOMAIN pagos BY <2>3
    <3> QED BY <3>1
  <2>5. ASSUME NEW i \in DOMAIN pagos, NEW j \in DOMAIN pagos, i # j PROVE pagos[i] # pagos[j]
    <3>1. i \in 1..n \/ i = n + 1 BY <2>3
    <3>2. j \in 1..n \/ j = n + 1 BY <2>3
    <3> QED BY <1>3, <2>3, <2>4, <2>5, <3>1, <3>2 DEF SinRepetir
  <2> QED BY <2>1, <2>5, <2>6 DEF SinRepetir
<1>6. st \in {"PARTIAL_PAY", "PAGADA"} /\ st \in INVOICE_STATUS BY DEF INVOICE_STATUS
<1>7. /\ q \in Factura /\ q.pagos = pagos /\ q.status = st /\ q.total = fila.total
      /\ q.orden = fila.orden
  <2> HIDE DEF pagos, st
  <2> QED BY <1>5, <1>6 DEF Factura
<1>8. Cuadra(q) /\ SinRepetir(q.pagos)
  <2>1. st = "PAGADA" => SumaPagos(pagos) >= fila.total OBVIOUS
  <2>2. st = "PARTIAL_PAY" => ~(SumaPagos(pagos) >= fila.total) OBVIOUS
  <2> HIDE DEF pagos, st, q
  <2> QED BY <1>5, <1>7, <2>1, <2>2 DEF Cuadra, Cubierta
<1>9. Firmada(f, "APPROVE") BY DEF SePaga, DeFactura, Aprobable
<1> HIDE DEF q
<1> QED BY <1>4, <1>6, <1>7, <1>8, <1>9 DEF DeFactura, Aprobable

\* A request has the rows of the file that it has not read.
LEMMA RenglonesDe ==
  ASSUME Tipos, NEW h \in Hilos, peticion[h].renglones # <<>>
  PROVE  Head(peticion[h].renglones) \in Renglon /\ Tail(peticion[h].renglones) \in Seq(Renglon)
<1>1. PICK rs \in Seq(Renglon) : rs = peticion[h].renglones BY DEF Tipos, Peticion
<1> QED BY <1>1

\* On to the next row, or the end.
LEMMA FilasSiguienteRenglon ==
  ASSUME FilasInv, MezclasSiguen, NEW h \in Hilos, peticion[h].en \in {"renglon", "ordenes"},
         UNCHANGED <<factura, documento, aviso, incidentes>>, NEW pagadas \in Seq(Facturas),
         SiguienteRenglon(h, pagadas)
  PROVE  FilasInv'
<1>1. PeticionBien(h) /\ Tipos BY DEF FilasInv, PeticionesBien
<1>2. PICK resto \in Seq(Renglon) : resto = Tail(peticion[h].renglones)
  BY <1>1, RenglonesDe DEF PeticionBien
<1>3. CASE resto # <<>>
  <2>1. PICK q \in Peticion : q = peticion[h] BY <1>1 DEF Tipos
  <2> DEFINE r == [q EXCEPT !.en = "renglon", !.renglones = resto, !.pagadas = pagadas]
  <2>2. /\ r \in Peticion /\ r.en = "renglon" /\ r.factura = q.factura /\ r.docs = q.docs
        /\ r.renglones = resto
    BY DEF Peticion, Consultas
  <2>3. peticion' = [peticion EXCEPT ![h] = r] /\ UNCHANGED cobro
    BY <1>1, <1>2, <1>3, <2>1 DEF SiguienteRenglon, Tipos
  <2> HIDE DEF r
  <2>4. /\ peticion' \in [Hilos -> Peticion] /\ \A g \in Hilos \ {h} : peticion'[g] = peticion[g]
        /\ peticion'[h] = r /\ cobro' \in [Hilos -> Cobro] /\ incidentes' \in Nat
    BY <1>1, <2>2, <2>3 DEF Tipos
  <2>5. PeticionBien(h)' BY <1>1, <1>3, <2>1, <2>2, <2>4 DEF PeticionBien
  <2> QED BY <2>1, <2>2, <2>4, <2>5, FilasSoloPeticion
<1>4. CASE resto = <<>>
  <2>1. /\ Responder(h)
        /\ cobro' = IF pagadas = <<>> THEN cobro
                    ELSE [cobro EXCEPT ![h] = [facturas |-> pagadas, en |-> "leer"]]
    BY <1>2, <1>4 DEF SiguienteRenglon
  <2>2. cobro' \in [Hilos -> Cobro] /\ incidentes' \in Nat
    <3>1. pagadas # <<>> => [facturas |-> pagadas, en |-> "leer"] \in Cobro BY DEF Cobro
    <3> QED BY <1>1, <2>1, <3>1 DEF Tipos
  <2> QED BY <2>1, <2>2, FilasResponde
<1> QED BY <1>3, <1>4

\* A row of the file is read, with the invoice that it pays.
LEMMA FilasLeerRenglon ==
  ASSUME FilasInv, MezclasSiguen, NEW h \in Hilos, LeerRenglon(h)
  PROVE  FilasInv'
<1>1. PeticionBien(h) /\ Tipos /\ FacturasBien BY DEF FilasInv, PeticionesBien
<1>2. /\ peticion[h].en = "renglon" /\ peticion[h].renglones # <<>>
      /\ UNCHANGED <<factura, documento, aviso, incidentes>>
  BY <1>1 DEF LeerRenglon, PeticionBien
<1>3. PICK r \in Renglon : r = Head(peticion[h].renglones) BY <1>1, <1>2, RenglonesDe
<1>4. CASE SiguienteRenglon(h, peticion[h].pagadas)
  <2>1. PICK pagadas \in Seq(Facturas) : pagadas = peticion[h].pagadas
    BY <1>1 DEF Tipos, Peticion
  <2>2. SiguienteRenglon(h, pagadas) BY <1>4, <2>1
  <2> QED BY <1>2, <2>2, FilasSiguienteRenglon
<1>5. ASSUME NEW f \in Facturas, Existe(f), SePaga(factura[f], r), UNCHANGED cobro,
             peticion' = [peticion EXCEPT ![h].en = "pago", ![h].factura = f,
                                          ![h].fila = ConPago(factura[f], r)]
      PROVE  FilasInv'
  <2>1. PICK fila \in Factura : fila = factura[f] /\ DeFactura(fila, f)
    BY <1>1, <1>5 DEF FacturasBien, DeFactura
  <2>2. PICK nueva \in Factura : /\ nueva = ConPago(fila, r) /\ DeFactura(nueva, f) /\ Cuadra(nueva)
                                 /\ nueva.status \in {"PARTIAL_PAY", "PAGADA"}
    BY <1>5, <2>1, PagoBueno DEF DeFactura
  <2>3. PICK q \in Peticion : q = peticion[h] BY <1>1 DEF Tipos
  <2> DEFINE p == [q EXCEPT !.en = "pago", !.factura = f, !.fila = nueva]
  <2>4. /\ p \in Peticion /\ p.en = "pago" /\ p.factura = f /\ p.docs = q.docs
        /\ p.fila = nueva /\ p.renglones = q.renglones
    BY DEF Peticion, Consultas
  <2>5. peticion' = [peticion EXCEPT ![h] = p] BY <1>1, <1>5, <2>1, <2>2, <2>3 DEF Tipos
  <2> HIDE DEF p
  <2>6. /\ peticion' \in [Hilos -> Peticion] /\ \A g \in Hilos \ {h} : peticion'[g] = peticion[g]
        /\ peticion'[h] = p /\ cobro' \in [Hilos -> Cobro] /\ incidentes' \in Nat
    BY <1>1, <1>2, <1>5, <2>4, <2>5 DEF Tipos
  <2>7. Existe(f)' /\ DeFactura(nueva, f)'
    <3>1. Crece BY <1>2, MismaCrece
    <3> QED BY <1>5, <2>2, <3>1, DeFacturaSigue DEF Crece
  <2>8. PeticionBien(h)'
    <3>1. \A d \in q.docs : FALSE BY <1>1, <1>2, <2>3 DEF PeticionBien
    <3> QED BY <1>1, <1>2, <2>2, <2>3, <2>4, <2>6, <2>7, <3>1 DEF PeticionBien
  <2> QED BY <1>2, <1>5, <2>4, <2>6, <2>8, FilasSoloPeticion
<1> QED BY <1>2, <1>3, <1>4, <1>5 DEF LeerRenglon

\* The UPDATE of the payments and the status: the rest of the row may be newer.
LEMMA FilasEscribirPago ==
  ASSUME FilasInv, MezclasSiguen, NEW h \in Hilos, EscribirPago(h)
  PROVE  FilasInv'
<1>1. PeticionBien(h) /\ Tipos /\ FacturasBien BY DEF FilasInv, PeticionesBien
<1>2. PICK f \in Facturas, fila \in Factura :
        /\ f = peticion[h].factura /\ fila = peticion[h].fila /\ DeFactura(fila, f) /\ Existe(f)
        /\ Cuadra(fila)
  BY <1>1 DEF EscribirPago, PeticionBien, DeFactura
<1>3. PICK vieja \in Factura : vieja = factura[f]
  BY <1>1, <1>2 DEF FacturasBien, DeFactura
<1> DEFINE r == [vieja EXCEPT !.pagos = fila.pagos, !.status = fila.status]
<1>4. /\ r \in Factura /\ r.pagos = fila.pagos /\ r.status = fila.status
      /\ r.total = vieja.total /\ r.orden = vieja.orden
  BY DEF Factura
<1>5. factura' = [factura EXCEPT ![f] = r] BY <1>1, <1>2, <1>3 DEF EscribirPago, Tipos
<1> HIDE DEF r
<1>6. Seguir(h, "ordenes") /\ UNCHANGED <<documento, aviso, cobro, incidentes>>
  BY DEF EscribirPago
<1>7. Cuadra(r) /\ SinRepetir(r.pagos) /\ Aprobable(r, f)
  BY <1>2, <1>3, <1>4 DEF DeFactura, Cuadra, Aprobable, Cubierta
<1>8. /\ Crece /\ factura' \in [Facturas -> Factura \cup {SinFactura}]
      /\ \A g \in Facturas : /\ Existe(g)' => Existe(g)
                             /\ factura'[g] = factura[g] \/ DeFactura(factura[g], g)'
  BY <1>2, <1>3, <1>4, <1>5, <1>6, <1>7, FilasEscribe
<1>9. /\ peticion' \in [Hilos -> Peticion] /\ \A g \in Hilos \ {h} : peticion'[g] = peticion[g]
      /\ peticion'[h].en = "ordenes" /\ peticion'[h].factura = f /\ peticion'[h].fila = fila
      /\ peticion'[h].docs = peticion[h].docs /\ peticion'[h].renglones = peticion[h].renglones
  BY <1>1, <1>2, <1>6, SeguirHace DEF Consultas
<1>10. Existe(f)' /\ DeFactura(fila, f)' BY <1>2, <1>8, DeFacturaSigue DEF Crece
<1>11. PeticionBien(h)' BY <1>1, <1>2, <1>9, <1>10 DEF PeticionBien, EscribirPago
<1>12. cobro' \in [Hilos -> Cobro] /\ incidentes' \in Nat BY <1>1, <1>6 DEF Tipos
<1> QED BY <1>2, <1>6, <1>8, <1>9, <1>11, <1>12, FilasPeticion

\* The order is marked as its invoice.
LEMMA FilasMarcarOrden ==
  ASSUME FilasInv, MezclasSiguen, NEW h \in Hilos, MarcarOrden(h)
  PROVE  FilasInv'
<1>1. PeticionBien(h) /\ Tipos BY DEF FilasInv, PeticionesBien
<1>2. PICK f \in Facturas : f = peticion[h].factura BY <1>1 DEF MarcarOrden, PeticionBien
<1>3. PICK ps \in Seq(Facturas) : ps = peticion[h].pagadas BY <1>1 DEF Tipos, Peticion
<1>4. Append(ps, f) \in Seq(Facturas) OBVIOUS
<1>5. PICK pagadas \in Seq(Facturas) : SiguienteRenglon(h, pagadas)
  BY <1>2, <1>3, <1>4 DEF MarcarOrden
<1> QED BY <1>5, FilasSiguienteRenglon DEF MarcarOrden

\* A request in progress.
LEMMA FilasAtender ==
  ASSUME FilasInv, MezclasSiguen, NEW h \in Hilos, Atender(h)
  PROVE  FilasInv'
BY FilasGuardarNueva, FilasFirma, FilasLeerFactura, FilasComparar, FilasGuardar,
   FilasLeerRenglon, FilasEscribirPago, FilasMarcarOrden DEF Atender

----
(* Notifications, their handlers and failures. *)

\* A step that leaves the requests alone keeps every row right.
LEMMA FilasAviso ==
  ASSUME FilasInv, MezclasSiguen, Crece, UNCHANGED peticion, aviso' \in [Avisos -> Aviso],
         factura' \in [Facturas -> Factura \cup {SinFactura}], cobro' \in [Hilos -> Cobro],
         incidentes' \in Nat,
         \A e \in Avisos : aviso'[e] = aviso[e] \/ AvisoBien(e)',
         \A f \in Facturas : /\ Existe(f)' => Existe(f)
                             /\ factura'[f] = factura[f] \/ DeFactura(factura[f], f)',
         \A d \in Documentos : documento'[d] # "no" => documento[d] # "no" \/ Existe(FacturaDe(d))
  PROVE  FilasInv'
<1>1. PeticionesBien' /\ FacturasBien' /\ AvisosBien'
  BY PeticionesQuietas, FacturasSiguen, AvisosSiguen
<1>2. DocumentosBien' BY DeDocumento DEF FilasInv, DocumentosBien, Crece
<1> QED BY <1>1, <1>2 DEF FilasInv, Tipos

\* In particular one that writes no invoice.
LEMMA FilasSoloAviso ==
  ASSUME FilasInv, MezclasSiguen, UNCHANGED <<factura, peticion>>, cobro' \in [Hilos -> Cobro],
         incidentes' \in Nat, NEW e \in Avisos, NEW r \in Aviso,
         aviso' = [aviso EXCEPT ![e] = r], aviso[e].recibido => r.recibido, AvisoBien(e)',
         \A d \in Documentos : documento'[d] # "no" => documento[d] # "no" \/ Existe(FacturaDe(d))
  PROVE  FilasInv'
<1>1. /\ aviso' \in [Avisos -> Aviso] /\ aviso'[e] = r
      /\ \A c \in Avisos : c # e => aviso'[c] = aviso[c]
  BY DEF FilasInv, Tipos
<1>2. Crece BY <1>1, MismaCrece
<1>3. factura' \in [Facturas -> Factura \cup {SinFactura}] BY DEF FilasInv, Tipos
<1>4. \A f \in Facturas : (Existe(f)' => Existe(f)) /\ factura'[f] = factura[f]
  BY DEF Existe
<1>5. \A c \in Avisos : aviso'[c] = aviso[c] \/ AvisoBien(c)' BY <1>1
<1> QED BY <1>1, <1>2, <1>3, <1>4, <1>5, FilasAviso

\* And one that touches no notification either.
LEMMA FilasMismas ==
  ASSUME FilasInv, MezclasSiguen, UNCHANGED <<factura, peticion, aviso>>, cobro' \in [Hilos -> Cobro],
         incidentes' \in Nat,
         \A d \in Documentos : documento'[d] # "no" => documento[d] # "no" \/ Existe(FacturaDe(d))
  PROVE  FilasInv'
<1>1. Crece BY MismaCrece
<1>2. factura' \in [Facturas -> Factura \cup {SinFactura}] /\ aviso' \in [Avisos -> Aviso]
  BY DEF FilasInv, Tipos
<1>3. \A f \in Facturas : (Existe(f)' => Existe(f)) /\ factura'[f] = factura[f]
  BY DEF Existe
<1> QED BY <1>1, <1>2, <1>3, FilasAviso

\* The provider notifies, and the document is saved.
LEMMA FilasRecibir ==
  ASSUME FilasInv, MezclasSiguen, NEW e \in Avisos, Recibir(e) \/ GuardarFirma(e)
  PROVE  FilasInv'
<1>1. Tipos /\ AvisoBien(e) /\ DocumentosBien /\ Doc(e) \in Documentos
  BY DeDocumento DEF FilasInv, AvisosBien
<1>2. PICK a \in Aviso : a = aviso[e] BY <1>1 DEF Tipos
<1>3. Existe(FacturaDe(Doc(e)))
  BY <1>1, <1>2 DEF Recibir, GuardarFirma, AvisoBien, EnCurso, DocumentosBien
<1>4. UNCHANGED <<factura, peticion, cobro>> /\ incidentes' \in Nat
  BY <1>1 DEF Recibir, GuardarFirma, Llegar, Tipos
<1>5. PICK doc \in BOOLEAN, status \in {"no", "leer"}, montos \in {"no", "leer", "cargos", "orden"} :
        \/ aviso' = [aviso EXCEPT ![e].recibido = TRUE, ![e].doc = doc, ![e].status = status,
                                  ![e].montos = montos]
        \/ a.recibido /\ aviso' = [aviso EXCEPT ![e].doc = doc]
        \/ a.recibido /\ aviso' = [aviso EXCEPT ![e].doc = doc, ![e].status = status,
                                                ![e].montos = montos]
  <2>1. CASE Recibir(e) BY <2>1 DEF Recibir
  <2>2. CASE GuardarFirma(e)
    <3>1. a.recibido BY <1>1, <1>2, <2>2 DEF GuardarFirma, AvisoBien, EnCurso
    <3> QED BY <2>2, <3>1 DEF GuardarFirma
  <2> QED BY <2>1, <2>2
<1>6. PICK r \in Aviso : /\ aviso' = [aviso EXCEPT ![e] = r] /\ r.recibido
                         /\ r.status = "escribir" => a.status = "escribir"
                         /\ r.fila = a.fila
  <2> DEFINE r1 == [a EXCEPT !.recibido = TRUE, !.doc = doc, !.status = status, !.montos = montos]
             r2 == [a EXCEPT !.doc = doc]
             r3 == [a EXCEPT !.doc = doc, !.status = status, !.montos = montos]
  <2>1. /\ r1 \in Aviso /\ r1.recibido /\ r1.status # "escribir" /\ r1.fila = a.fila
        /\ r2 \in Aviso /\ r2.recibido = a.recibido /\ r2.status = a.status /\ r2.fila = a.fila
        /\ r3 \in Aviso /\ r3.recibido = a.recibido /\ r3.status # "escribir" /\ r3.fila = a.fila
    BY DEF Aviso
  <2>2. \/ aviso' = [aviso EXCEPT ![e] = r1]
        \/ a.recibido /\ aviso' = [aviso EXCEPT ![e] = r2]
        \/ a.recibido /\ aviso' = [aviso EXCEPT ![e] = r3]
    BY <1>1, <1>2, <1>5 DEF Tipos
  <2> HIDE DEF r1, r2, r3
  <2> QED BY <2>1, <2>2
<1>7. aviso'[e] = r BY <1>1, <1>6 DEF Tipos
<1>8. AvisoBien(e)'
  <2>1. Existe(FacturaDe(Doc(e)))' BY <1>3, <1>4 DEF Existe
  <2>2. PICK f \in Facturas, fila \in Factura \cup {SinFactura} : f = FacturaDe(Doc(e)) /\ fila = a.fila
    BY DeDocumento DEF Aviso
  <2>3. Crece BY <1>1, <1>4, <1>6, MismaCrece DEF Tipos
  <2>4. DeFactura(fila, f) => DeFactura(fila, f)' BY <2>3, DeFacturaSigue
  <2> QED BY <1>1, <1>2, <1>6, <1>7, <2>1, <2>2, <2>4 DEF AvisoBien, EnCurso
<1>9. \A d \in Documentos : documento'[d] # "no" => documento[d] # "no" \/ Existe(FacturaDe(d))
  <2>1. CASE Recibir(e) BY <2>1 DEF Recibir
  <2>2. CASE GuardarFirma(e)
    <3>1. PICK d \in Documentos, s \in {"APROBADA", "SIGNED_REVIEW"} :
            d = Doc(e) /\ documento' = [documento EXCEPT ![d] = s]
      BY <1>1, <2>2 DEF GuardarFirma
    <3>2. Existe(FacturaDe(d)) BY <1>3, <3>1
    <3> QED BY <3>1, <3>2
  <2> QED BY <2>1, <2>2
<1> QED BY <1>1, <1>4, <1>6, <1>8, <1>9, FilasSoloAviso DEF Tipos

\* A status handler reads its invoice.
LEMMA FilasLeerStatus ==
  ASSUME FilasInv, MezclasSiguen, NEW e \in Avisos, LeerStatus(e)
  PROVE  FilasInv'
<1>1. Tipos /\ AvisoBien(e) /\ FacturasBien BY DEF FilasInv, AvisosBien
<1>2. PICK a \in Aviso : a = aviso[e] BY <1>1 DEF Tipos
<1>3. PICK f \in Facturas : f = FacturaDe(Doc(e)) /\ Existe(f)
  BY <1>1, DeDocumento DEF LeerStatus, AvisoBien, EnCurso
<1>4. PICK fila \in Factura : fila = factura[f] /\ DeFactura(fila, f)
  BY <1>1, <1>3 DEF FacturasBien, DeFactura
<1> DEFINE r == [a EXCEPT !.status = "escribir", !.fila = fila]
<1>5. /\ r \in Aviso /\ r.fila = fila /\ r.recibido = a.recibido /\ r.doc = a.doc
      /\ r.montos = a.montos /\ r.status = "escribir"
  BY DEF Aviso
<1>6. /\ aviso' = [aviso EXCEPT ![e] = r]
      /\ UNCHANGED <<factura, documento, peticion, cobro, incidentes>>
  BY <1>1, <1>2, <1>3, <1>4 DEF LeerStatus, Tipos
<1> HIDE DEF r
<1>7. aviso'[e] = r BY <1>1, <1>6 DEF Tipos
<1>8. Existe(f)' /\ DeFactura(fila, f)'
  <2>1. Crece BY <1>1, <1>2, <1>5, <1>6, MismaCrece DEF Tipos
  <2> QED BY <1>3, <1>4, <2>1, DeFacturaSigue DEF Crece
<1>9. a.recibido BY <1>1, <1>2 DEF LeerStatus, AvisoBien, EnCurso
<1>10. AvisoBien(e)' BY <1>3, <1>5, <1>7, <1>8, <1>9 DEF AvisoBien
<1> QED BY <1>1, <1>2, <1>5, <1>6, <1>9, <1>10, FilasSoloAviso DEF Tipos

\* It writes all of it back, with its status.
LEMMA FilasEscribirStatus ==
  ASSUME FilasInv, MezclasSiguen, NEW e \in Avisos, EscribirStatus(e)
  PROVE  FilasInv'
<1>1. Tipos /\ AvisoBien(e) BY DEF FilasInv, AvisosBien
<1>2. PICK a \in Aviso : a = aviso[e] BY <1>1 DEF Tipos
<1>3. PICK f \in Facturas, fila \in Factura :
        f = FacturaDe(Doc(e)) /\ fila = a.fila /\ DeFactura(fila, f)
  BY <1>1, <1>2, DeDocumento DEF EscribirStatus, AvisoBien, DeFactura
<1>4. PICK st \in {"CONTEJADA", "APROBADA", "CANCELADA"} :
        st = StatusDe(e) /\ (st = "APROBADA" => EsCompletado(e) /\ AccionDe(Doc(e)) = "APPROVE")
  BY DEF StatusDe
<1> DEFINE q == [fila EXCEPT !.status = st]
           r == [a EXCEPT !.status = "no", !.fila = SinFactura]
<1>5. /\ q \in Factura /\ q.status = st /\ q.pagos = fila.pagos /\ q.total = fila.total
      /\ q.orden = fila.orden
  BY DEF Factura, INVOICE_STATUS
<1>6. /\ r \in Aviso /\ r.recibido = a.recibido /\ r.doc = a.doc /\ r.montos = a.montos
      /\ r.status = "no"
  BY DEF Aviso
<1>7. /\ factura' = [factura EXCEPT ![f] = q] /\ aviso' = [aviso EXCEPT ![e] = r]
      /\ UNCHANGED <<documento, peticion, cobro, incidentes>>
  BY <1>1, <1>2, <1>3, <1>4 DEF EscribirStatus, Tipos
<1> HIDE DEF q, r
<1>8. a.recibido BY <1>1, <1>2 DEF EscribirStatus, AvisoBien, EnCurso
<1>9. st = "APROBADA" => Firmada(f, "APPROVE") BY <1>2, <1>3, <1>4, <1>8 DEF Firmada
<1>10. Cuadra(q) /\ SinRepetir(q.pagos) /\ Aprobable(q, f)
  BY <1>3, <1>5, <1>9 DEF DeFactura, Cuadra, Aprobable
<1>11. /\ aviso' \in [Avisos -> Aviso] /\ aviso'[e] = r
       /\ \A c \in Avisos : c # e => aviso'[c] = aviso[c]
  BY <1>1, <1>6, <1>7 DEF Tipos
<1>12. \A c \in Avisos : aviso[c].recibido => aviso'[c].recibido BY <1>2, <1>6, <1>11
<1>13. /\ Crece /\ factura' \in [Facturas -> Factura \cup {SinFactura}]
       /\ \A g \in Facturas : /\ Existe(g)' => Existe(g)
                              /\ factura'[g] = factura[g] \/ DeFactura(factura[g], g)'
  BY <1>3, <1>5, <1>7, <1>10, <1>12, FilasEscribe DEF DeFactura
<1>14. AvisoBien(e)'
  <2>1. Existe(f)' BY <1>3, <1>13 DEF Crece, DeFactura
  <2> QED BY <1>3, <1>6, <1>8, <1>11, <2>1 DEF AvisoBien
<1>15. \A c \in Avisos : aviso'[c] = aviso[c] \/ AvisoBien(c)' BY <1>11, <1>14
<1>16. cobro' \in [Hilos -> Cobro] /\ incidentes' \in Nat BY <1>1, <1>7 DEF Tipos
<1> QED BY <1>7, <1>11, <1>13, <1>15, <1>16, FilasAviso

\* A notification whose parts end or go on without its row.
LEMMA FilasAvisoSigue ==
  ASSUME FilasInv, MezclasSiguen, UNCHANGED <<factura, documento, peticion>>, cobro' \in [Hilos -> Cobro],
         incidentes' \in Nat, NEW e \in Avisos, EnCurso(e),
         \/ aviso' = [aviso EXCEPT ![e].doc = FALSE]
         \/ aviso' = [aviso EXCEPT ![e].status = "no", ![e].fila = SinFactura]
         \/ \E m \in {"no", "cargos"} : aviso' = [aviso EXCEPT ![e].montos = m]
  PROVE  FilasInv'
<1>1. Tipos /\ AvisoBien(e) BY DEF FilasInv, AvisosBien
<1>2. PICK a \in Aviso : a = aviso[e] /\ a.recibido BY <1>1 DEF Tipos, AvisoBien
<1>3. PICK r \in Aviso : /\ aviso' = [aviso EXCEPT ![e] = r] /\ r.recibido
                         /\ r.status = "no" \/ (r.status = a.status /\ r.fila = a.fila)
  <2>1. CASE aviso' = [aviso EXCEPT ![e].doc = FALSE]
    <3> DEFINE r == [a EXCEPT !.doc = FALSE]
    <3>1. r \in Aviso /\ r.recibido /\ r.status = a.status /\ r.fila = a.fila
      BY <1>2 DEF Aviso
    <3>2. aviso' = [aviso EXCEPT ![e] = r] BY <1>1, <1>2, <2>1 DEF Tipos
    <3> HIDE DEF r
    <3> QED BY <3>1, <3>2
  <2>2. CASE aviso' = [aviso EXCEPT ![e].status = "no", ![e].fila = SinFactura]
    <3> DEFINE r == [a EXCEPT !.status = "no", !.fila = SinFactura]
    <3>1. r \in Aviso /\ r.recibido /\ r.status = "no" BY <1>2 DEF Aviso
    <3>2. aviso' = [aviso EXCEPT ![e] = r] BY <1>1, <1>2, <2>2 DEF Tipos
    <3> HIDE DEF r
    <3> QED BY <3>1, <3>2
  <2>3. ASSUME NEW m \in {"no", "cargos"}, aviso' = [aviso EXCEPT ![e].montos = m]
        PROVE  \E r \in Aviso : /\ aviso' = [aviso EXCEPT ![e] = r] /\ r.recibido
                                /\ r.status = "no" \/ (r.status = a.status /\ r.fila = a.fila)
    <3> DEFINE r == [a EXCEPT !.montos = m]
    <3>1. r \in Aviso /\ r.recibido /\ r.status = a.status /\ r.fila = a.fila
      BY <1>2 DEF Aviso
    <3>2. aviso' = [aviso EXCEPT ![e] = r] BY <1>1, <1>2, <2>3 DEF Tipos
    <3> HIDE DEF r
    <3> QED BY <3>1, <3>2
  <2> QED BY <2>1, <2>2, <2>3
<1>4. aviso'[e] = r BY <1>1, <1>3 DEF Tipos
<1>5. PICK f \in Facturas, fila \in Factura \cup {SinFactura} : f = FacturaDe(Doc(e)) /\ fila = a.fila
  BY DeDocumento DEF Aviso
<1>6. Crece BY <1>1, <1>3, MismaCrece DEF Tipos
<1>7. (Existe(f) => Existe(f)') /\ (DeFactura(fila, f) => DeFactura(fila, f)')
  BY <1>6, DeFacturaSigue DEF Crece
<1>8. AvisoBien(e)' BY <1>1, <1>2, <1>3, <1>4, <1>5, <1>7 DEF AvisoBien
<1> QED BY <1>1, <1>3, <1>8, FilasSoloAviso DEF Tipos

\* The handlers of the amounts, and those of the orders.
LEMMA FilasMontos ==
  ASSUME FilasInv, MezclasSiguen, NEW e \in Avisos, ManejarMontos(e)
  PROVE  FilasInv'
<1>1. Tipos BY DEF FilasInv
<1>2. EnCurso(e) /\ UNCHANGED <<factura, documento, peticion, cobro, incidentes>>
  BY DEF ManejarMontos, CargarAviso, EscribirOrden, EnCurso
<1>3. \E m \in {"no", "cargos"} : aviso' = [aviso EXCEPT ![e].montos = m]
  BY DEF ManejarMontos, CargarAviso, EscribirOrden
<1>4. cobro' \in [Hilos -> Cobro] /\ incidentes' \in Nat BY <1>1, <1>2 DEF Tipos
<1> QED BY <1>2, <1>3, <1>4, FilasAvisoSigue

\* The handler of the paid invoices.
LEMMA FilasCobrar ==
  ASSUME FilasInv, MezclasSiguen, NEW h \in Hilos, Cobrar(h)
  PROVE  FilasInv'
<1>1. Tipos BY DEF FilasInv
<1>2. UNCHANGED <<factura, documento, peticion, aviso, incidentes>>
  BY DEF Cobrar, CobrarFactura, TerminarCobro
<1>3. PICK fs \in Seq(Facturas) : fs = cobro[h].facturas /\ fs # <<>> /\ cobro[h].en # "no"
  BY <1>1 DEF Cobrar, CobrarFactura, TerminarCobro, Tipos, Cobro, SinCobro
<1>4. PICK c \in Cobro : cobro' = [cobro EXCEPT ![h] = c]
  <2>1. CASE CobrarFactura(h)
    <3> DEFINE c == [facturas |-> fs, en |-> "cargos"]
    <3>1. c \in Cobro BY <1>3 DEF Cobro
    <3>2. [cobro[h] EXCEPT !.en = "cargos"] = c BY <1>1, <1>3 DEF Tipos, Cobro, SinCobro
    <3>3. cobro' = [cobro EXCEPT ![h] = c] BY <1>1, <2>1, <3>2 DEF CobrarFactura, Tipos
    <3> QED BY <3>1, <3>3
  <2>2. CASE TerminarCobro(h)
    <3>1. PICK resto \in Seq(Facturas) : resto = Tail(fs)
      <4>1. Tail(fs) \in Seq(Facturas) BY <1>3
      <4> QED BY <4>1
    <3>2. cobro' = [cobro EXCEPT ![h] = [facturas |-> resto,
                                         en |-> IF resto = <<>> THEN "no" ELSE "leer"]]
      BY <1>3, <2>2, <3>1 DEF TerminarCobro
    <3>3. [facturas |-> resto, en |-> IF resto = <<>> THEN "no" ELSE "leer"] \in Cobro
      BY DEF Cobro, SinCobro
    <3> QED BY <3>2, <3>3
  <2> QED BY <2>1, <2>2 DEF Cobrar
<1>5. cobro' \in [Hilos -> Cobro] /\ incidentes' \in Nat BY <1>1, <1>2, <1>4 DEF Tipos
<1> QED BY <1>2, <1>5, FilasMismas

\* A document gets its ticket.
LEMMA FilasTicket ==
  ASSUME FilasInv, MezclasSiguen, NEW d \in Documentos, EnviarAFirmamex(d)
  PROVE  FilasInv'
<1>1. Tipos /\ DocumentosBien BY DEF FilasInv
<1>2. UNCHANGED <<factura, peticion, aviso, cobro>> /\ incidentes' \in Nat
  BY <1>1 DEF EnviarAFirmamex, Llegar, Tipos
<1>3. documento' = [documento EXCEPT ![d] = "enviado"] /\ Existe(FacturaDe(d))
  BY <1>1 DEF EnviarAFirmamex, DocumentosBien
<1>4. \A x \in Documentos : documento'[x] # "no" => documento[x] # "no" \/ Existe(FacturaDe(x))
  BY <1>3
<1>5. cobro' \in [Hilos -> Cobro] BY <1>1, <1>2 DEF Tipos
<1> QED BY <1>2, <1>4, <1>5, FilasMismas

\* A query rejects.
LEMMA FilasFallar ==
  ASSUME FilasInv, MezclasSiguen, MezclasSiguen,
         \/ \E h \in Hilos : FallarPeticion(h) \/ FallarCobro(h)
         \/ \E e \in Avisos : FallarAviso(e)
  PROVE  FilasInv'
<1>1. Tipos BY DEF FilasInv
<1>2. ASSUME NEW h \in Hilos, FallarPeticion(h) PROVE FilasInv'
  BY <1>1, <1>2, FilasResponde DEF FallarPeticion, Incidente, Tipos
<1>3. ASSUME NEW h \in Hilos, FallarCobro(h) PROVE FilasInv'
  <2>1. /\ cobro' = [cobro EXCEPT ![h] = SinCobro] /\ UNCHANGED <<factura, documento, peticion, aviso>>
        /\ incidentes' = incidentes + 1
    BY <1>3 DEF FallarCobro, Incidente
  <2>2. cobro' \in [Hilos -> Cobro] /\ incidentes' \in Nat BY <1>1, <2>1 DEF Tipos, Cobro
  <2> QED BY <2>1, <2>2, FilasMismas
<1>4. ASSUME NEW e \in Avisos, FallarAviso(e) PROVE FilasInv'
  <2>1. /\ UNCHANGED <<factura, documento, peticion, cobro>> /\ incidentes' \in Nat
        /\ cobro' \in [Hilos -> Cobro]
    BY <1>1, <1>4 DEF FallarAviso, Incidente, Tipos
  <2>2. /\ EnCurso(e)
        /\ \/ aviso' = [aviso EXCEPT ![e].doc = FALSE]
           \/ aviso' = [aviso EXCEPT ![e].status = "no", ![e].fila = SinFactura]
           \/ \E m \in {"no", "cargos"} : aviso' = [aviso EXCEPT ![e].montos = m]
    BY <1>4 DEF FallarAviso, EnCurso
  <2> QED BY <2>1, <2>2, FilasAvisoSigue
<1> QED BY <1>2, <1>3, <1>4

\* The process stops: the rows are kept, and the notifications were received.
LEMMA FilasCaer ==
  ASSUME FilasInv, MezclasSiguen, CaerServidor
  PROVE  FilasInv'
<1>1. Tipos /\ AvisosBien /\ DocumentosBien BY DEF FilasInv
<1>2. /\ peticion' = [h \in Hilos |-> SinPeticion] /\ cobro' = [h \in Hilos |-> SinCobro]
      /\ UNCHANGED <<factura, documento>> /\ incidentes' = incidentes + 1
  BY DEF CaerServidor, Incidente
<1>3. ASSUME NEW e \in Avisos
      PROVE  /\ aviso'[e] \in Aviso /\ aviso'[e].recibido = aviso[e].recibido
             /\ ~EnCurso(e)' /\ aviso'[e].status = "no"
  <2>1. PICK b \in BOOLEAN : b = aviso[e].recibido BY <1>1 DEF Tipos, Aviso
  <2> DEFINE r == [SinAviso EXCEPT !.recibido = b]
  <2>2. /\ r \in Aviso /\ r.recibido = b /\ r.doc = FALSE /\ r.status = "no" /\ r.montos = "no"
    BY DEF SinAviso, Aviso
  <2>3. aviso'[e] = r BY <2>1 DEF CaerServidor
  <2> HIDE DEF r
  <2> QED BY <2>1, <2>2, <2>3 DEF EnCurso
<1>4. aviso' \in [Avisos -> Aviso] BY <1>3 DEF CaerServidor
<1>5. Crece BY <1>2, <1>3, MismaCrece
<1>6. FacturasBien' BY <1>2, <1>5, FacturasSiguen
<1>7. PeticionesBien' BY <1>2, PeticionVacia DEF PeticionesBien, PeticionBien
<1>8. AvisosBien'
  <2>1. \A f : Existe(f)' <=> Existe(f) BY <1>2 DEF Existe
  <2> QED BY <1>1, <1>3, <2>1 DEF AvisosBien, AvisoBien
<1>9. DocumentosBien' BY <1>1, <1>2 DEF DocumentosBien, Existe
<1>10. Tipos' BY <1>1, <1>2, <1>4, PeticionVacia DEF Tipos, Cobro
<1> QED BY <1>6, <1>7, <1>8, <1>9, <1>10 DEF FilasInv

\* Only saves mix rows, and no step forgets that.
LEMMA MezclasCrecen ==
  ASSUME [NextFactura]_todas
  PROVE  MezclasSiguen
<1> USE DEF MezclasSiguen
<1>1. UNCHANGED varsFactura => MezclasSiguen BY DEF varsFactura
<1>2. ASSUME NEW h \in Hilos, Atender(h) PROVE MezclasSiguen
  BY <1>2 DEF Atender, LeerOrden, GuardarNueva, LeerFirmantes, GuardarDocumento, EnviarAlCotejar,
              LeerFactura, Comparar, Guardar, LeerRenglon, EscribirPago, MarcarOrden
<1>3. ASSUME NEW h \in Hilos, Cobrar(h) \/ FallarPeticion(h) \/ FallarCobro(h) PROVE MezclasSiguen
  BY <1>3 DEF Cobrar, CobrarFactura, TerminarCobro, FallarPeticion, FallarCobro
<1>4. \A h, q : Pedir(h, q) => MezclasSiguen BY DEF Pedir
<1>5. ASSUME NEW e \in Avisos, \/ Recibir(e) \/ GuardarFirma(e) \/ ManejarStatus(e)
                              \/ ManejarMontos(e) \/ FallarAviso(e)
      PROVE  MezclasSiguen
  BY <1>5 DEF Recibir, GuardarFirma, ManejarStatus, LeerStatus, EscribirStatus, ManejarMontos,
              CargarAviso, EscribirOrden, FallarAviso
<1>6. \A d : EnviarAFirmamex(d) => MezclasSiguen BY DEF EnviarAFirmamex
<1>7. CaerServidor => MezclasSiguen BY DEF CaerServidor
<1>8. \A t : AvanzarLibro(t) => MezclasSiguen BY <1>1 DEF AvanzarLibro
<1>9. UNCHANGED todas => MezclasSiguen BY <1>1 DEF todas
<1> QED BY <1>2, <1>3, <1>4, <1>5, <1>6, <1>7, <1>8, <1>9
        DEF NextFactura, PedirCrear, PedirFirma, PedirArchivo

\* Every step keeps every row right.
LEMMA FilasSiguiente ==
  ASSUME FilasInv, [NextFactura]_todas
  PROVE  FilasInv'
<1>0. MezclasSiguen BY MezclasCrecen
<1>1. ASSUME UNCHANGED <<varsFactura, incidentes>> PROVE FilasInv'
  <2>1. UNCHANGED <<factura, documento, peticion, aviso, cobro, incidentes>>
    BY <1>1 DEF varsFactura
  <2>2. cobro' \in [Hilos -> Cobro] /\ incidentes' \in Nat BY <2>1 DEF FilasInv, Tipos
  <2> QED BY <1>0, <2>1, <2>2, FilasMismas
<1>2. UNCHANGED todas => UNCHANGED <<varsFactura, incidentes>> BY DEF todas
<1>3. \A t : AvanzarLibro(t) => UNCHANGED <<varsFactura, incidentes>> BY DEF AvanzarLibro
<1>4. \A e \in Avisos : ManejarStatus(e) => FilasInv'
  BY <1>0, FilasLeerStatus, FilasEscribirStatus DEF ManejarStatus
<1> QED BY <1>0, <1>1, <1>2, <1>3, <1>4, FilasPedidas, FilasAtender, FilasCobrar, FilasFallar, FilasTicket,
           FilasRecibir, FilasMontos, FilasCaer DEF NextFactura

\* They are right at the start: what is approved was signed.
LEMMA FilasInicial ==
  ASSUME InitFactura
  PROVE  FilasInv
<1>1. PICK ya \in Antes :
        /\ factura \in [Facturas -> {SinFactura} \cup
                          {FilaFactura(folio, total, o, "APROBADA") :
                             folio \in Folios, total \in Totales, o \in Ordenes}]
        /\ {f \in Facturas : Existe(f)} = ya
        /\ estatusOrden = [o \in Ordenes |->
                             IF \E f \in ya : factura[f].orden = o THEN "PAGO_APROBADO"
                             ELSE "ACTIVA"]
        /\ documento = [d \in Documentos |->
                          IF d \in ya \X {"APPROVE"} \X {1} THEN "APROBADA" ELSE "no"]
        /\ aviso = [e \in Avisos |->
                      [SinAviso EXCEPT !.recibido =
                         EsCompletado(e) /\ e[3] = 1 /\ Doc(e) \in ya \X {"APPROVE"} \X {1}]]
        /\ inicios = 3 * Cardinality(ya)
  BY DEF InitFactura, InitFacturas
<1>2. /\ peticion = [h \in Hilos |-> SinPeticion] /\ cobro = [h \in Hilos |-> SinCobro]
      /\ incidentes = 0
  BY DEF InitFactura
<1>3. ASSUME NEW f \in Facturas, Existe(f)
      PROVE  factura[f] \in Factura /\ factura[f].status = "APROBADA" /\ factura[f].pagos = <<>>
  <2>1. PICK folio \in Folios, total \in Totales, o \in Ordenes :
          factura[f] = FilaFactura(folio, total, o, "APROBADA")
    BY <1>1, <1>3 DEF Existe
  <2> DEFINE nada == <<>>
             r == [folio |-> folio, total |-> total, orden |-> o, status |-> "APROBADA",
                   pagos |-> nada]
  <2>2. nada \in Seq(PaymentRegister) OBVIOUS
  <2>3. factura[f] = r BY <2>1 DEF FilaFactura
  <2> HIDE DEF nada
  <2>4. r \in Factura /\ r.status = "APROBADA" /\ r.pagos = nada
    BY <2>2 DEF Factura, INVOICE_STATUS
  <2> HIDE DEF r
  <2> QED BY <2>3, <2>4 DEF nada
<1>4. ASSUME NEW e \in Avisos
      PROVE  /\ aviso[e] \in Aviso /\ ~EnCurso(e) /\ aviso[e].status = "no"
             /\ aviso[e].recibido => Existe(FacturaDe(Doc(e)))
  <2> DEFINE b == EsCompletado(e) /\ e[3] = 1 /\ Doc(e) \in ya \X {"APPROVE"} \X {1}
             r == [SinAviso EXCEPT !.recibido = b]
  <2>1. b \in BOOLEAN /\ (b => FacturaDe(Doc(e)) \in ya) BY DEF FacturaDe
  <2>2. aviso[e] = r BY <1>1
  <2> HIDE DEF b
  <2>3. r \in Aviso /\ r.recibido = b /\ r.doc = FALSE /\ r.status = "no" /\ r.montos = "no"
    BY <2>1 DEF SinAviso, Aviso
  <2> HIDE DEF r
  <2> QED BY <1>1, <2>1, <2>2, <2>3 DEF EnCurso
<1>5. ASSUME NEW f \in Facturas, Existe(f) PROVE Firmada(f, "APPROVE")
  <2> DEFINE d == <<f, "APPROVE", 1>>
             e == <<d, "completado", 1>>
  <2>1. 1 \in 1..MaxEnvios /\ 1 \in 1..MaxAvisos BY FacturasAssumption
  <2>2. d \in Documentos /\ d \in ya \X {"APPROVE"} \X {1}
    BY <1>1, <1>5, <2>1 DEF Documentos, Acciones
  <2>3. FacturaDe(d) = f /\ AccionDe(d) = "APPROVE" BY DEF FacturaDe, AccionDe
  <2> HIDE DEF d
  <2>4. e \in Avisos /\ Doc(e) = d /\ EsCompletado(e) /\ e[3] = 1
    BY <2>1, <2>2 DEF Avisos, Doc, EsCompletado
  <2> HIDE DEF e
  <2>5. aviso[e].recibido
    <3> DEFINE b == EsCompletado(e) /\ e[3] = 1 /\ Doc(e) \in ya \X {"APPROVE"} \X {1}
    <3>1. b BY <2>2, <2>4
    <3>2. aviso[e] = [SinAviso EXCEPT !.recibido = b] BY <1>1, <2>4
    <3> HIDE DEF b
    <3> QED BY <3>1, <3>2 DEF SinAviso
  <2> QED BY <2>3, <2>4, <2>5 DEF Firmada
<1>6. Tipos
  <2>1. factura \in [Facturas -> Factura \cup {SinFactura}] BY <1>1, <1>3 DEF Existe
  <2> QED BY <1>1, <1>2, <1>4, <2>1, PeticionVacia DEF Tipos, Cobro
<1>7. FacturasBien
  BY <1>3, <1>5 DEF FacturasBien, DeFactura, Cuadra, Aprobable, SinRepetir
<1>8. PeticionesBien BY <1>2, PeticionVacia DEF PeticionesBien, PeticionBien
<1>9. AvisosBien BY <1>4 DEF AvisosBien, AvisoBien
<1>10. DocumentosBien BY <1>1 DEF DocumentosBien, FacturaDe
<1> QED BY <1>6, <1>7, <1>8, <1>9, <1>10 DEF FilasInv

\* Rows are right in every state, wherever they are held.
LEMMA FilasSiempre == SpecFactura => []FilasInv
BY FilasInicial, FilasSiguiente, PTL DEF SpecFactura

\* No invoice registers one payment twice, also when two files with the same
\* payment are read at once, a file is sent again or a save writes a row that
\* was read before the payment.
THEOREM SinDuplicadoSiempre == SpecFactura => []PagoSinDuplicado
<1>1. FilasInv => PagoSinDuplicado
  <2> SUFFICES ASSUME FilasInv, NEW f \in Facturas PROVE SinRepetir(factura[f].pagos)
    BY DEF PagoSinDuplicado, SinRepetir
  <2>1. CASE Existe(f) BY <2>1 DEF FilasInv, FacturasBien, DeFactura
  <2>2. CASE ~Existe(f) BY <2>2 DEF Existe, SinFactura, SinRepetir
  <2> QED BY <2>1, <2>2
<1> QED BY <1>1, FilasSiempre, PTL

\* Whatever overlaps, an invoice is approved, and is given payments, only after
\* a document that approves it was signed by all.
THEOREM AprobacionSiempre == SpecFactura => []PagosConAprobacion
<1>1. FilasInv => PagosConAprobacion
  <2> SUFFICES ASSUME FilasInv, NEW f \in Facturas PROVE Aprobable(factura[f], f)
    BY DEF PagosConAprobacion, Aprobable
  <2>1. CASE Existe(f) BY <2>1 DEF FilasInv, FacturasBien, DeFactura
  <2>2. CASE ~Existe(f) BY <2>2 DEF Existe, SinFactura, Aprobable
  <2> QED BY <2>1, <2>2
<1> QED BY <1>1, FilasSiempre, PTL

----
(* When nothing overlaps and nothing fails. *)

\* A request, or the handler that its file started, is not over.
Activo(h) == peticion[h].en # "libre" \/ cobro[h].en # "no"

\* Requests and notifications take turns.
Turnos ==
  /\ \A g, h \in Hilos : Activo(g) /\ Activo(h) => g = h
  /\ \A h \in Hilos : peticion[h].en # "libre" => cobro[h].en = "no"
  /\ \A h \in Hilos, e \in Avisos : ~ (Activo(h) /\ EnCurso(e))
  /\ \A c, e \in Avisos : EnCurso(c) /\ EnCurso(e) => c = e

\* An invoice whose payments cover it.
Cubre(f) == f \in Facturas /\ Existe(f) /\ Cubierta(factura[f])
Cubiertas(fs) == \A i \in DOMAIN fs : Cubre(fs[i])

\* The payments that a request holds are those of the invoice, until it writes
\* the one that it found missing.
HiloAlDia(h) ==
  LET q == peticion[h]
  IN  /\ q.en \in {"guardar", "escribir", "ordenes"} => q.fila.pagos = factura[q.factura].pagos
      /\ q.en = "pago" => ~Cubierta(factura[q.factura])
      /\ q.en \in {"renglon", "pago", "ordenes"} => Cubiertas(q.pagadas)
      /\ cobro[h].en # "no" => Cubiertas(cobro[h].facturas)

\* So are those that a status handler holds.
AvisoAlDia(e) ==
  aviso[e].status = "escribir" => aviso[e].fila.pagos = factura[FacturaDe(Doc(e))].pagos

\* An order is paid only if one of its invoices is covered.
OrdenesPagadas ==
  /\ estatusOrden \in [Ordenes -> ESTATUS_ORDEN]
  /\ \A o \in Ordenes : estatusOrden[o] = "PAGADA" =>
       \E f \in Facturas : Cubre(f) /\ factura[f].orden = o

EnTurno ==
  /\ Turnos /\ OrdenesPagadas
  /\ \A h \in Hilos : HiloAlDia(h)
  /\ \A e \in Avisos : AvisoAlDia(e)

\* The payments of an invoice add up to an integer.
LEMMA SumaPagosEntera ==
  ASSUME NEW pagos \in Seq(PaymentRegister)
  PROVE  SumaPagos(pagos) \in Int
<1> DEFINE m == [i \in DOMAIN pagos |-> pagos[i].monto]
           I == 1..Len(pagos)
<1>1. IsFiniteSet(I) /\ DOMAIN m = I BY FS_Interval
<1>2. \A i \in I : m[i] \in Int
  <2>1. \A i \in DOMAIN pagos : pagos[i] \in PaymentRegister OBVIOUS
  <2> QED BY <2>1 DEF PaymentRegister
<1>3. SumaPagos(pagos) = SumFunctionOnSet(m, DOMAIN m) BY DEF SumaPagos, SumFunction
<1> HIDE DEF m, I
<1> QED BY <1>1, <1>2, <1>3, SumaEntera

\* A covered invoice stays covered when its payments stay.
LEMMA CubreSigue ==
  ASSUME Crece, \A f \in Facturas : Cubre(f) => factura'[f].pagos = factura[f].pagos
  PROVE  /\ \A f : Cubre(f) => Cubre(f)' /\ factura'[f].orden = factura[f].orden
         /\ \A fs : Cubiertas(fs) => Cubiertas(fs)'
<1>1. ASSUME NEW f, Cubre(f) PROVE Cubre(f)' /\ factura'[f].orden = factura[f].orden
  <2>1. f \in Facturas /\ Existe(f) /\ Cubierta(factura[f]) BY <1>1 DEF Cubre
  <2>2. Existe(f)' /\ factura'[f].total = factura[f].total /\ factura'[f].orden = factura[f].orden
        /\ factura'[f].pagos = factura[f].pagos
    BY <1>1, <2>1 DEF Crece
  <2> QED BY <2>1, <2>2 DEF Cubre, Cubierta
<1> QED BY <1>1 DEF Cubiertas

\* The same orders are paid.
LEMMA OrdenesSiguen ==
  ASSUME Crece, \A f \in Facturas : Cubre(f) => factura'[f].pagos = factura[f].pagos,
         OrdenesPagadas, estatusOrden' \in [Ordenes -> ESTATUS_ORDEN],
         \A o \in Ordenes : estatusOrden'[o] = "PAGADA" =>
           \/ estatusOrden[o] = "PAGADA"
           \/ \E f \in Facturas : Cubre(f) /\ factura[f].orden = o
  PROVE  OrdenesPagadas'
<1> SUFFICES ASSUME NEW o \in Ordenes, estatusOrden'[o] = "PAGADA"
             PROVE  \E f \in Facturas : Cubre(f)' /\ factura'[f].orden = o
  BY DEF OrdenesPagadas
<1>1. PICK f \in Facturas : Cubre(f) /\ factura[f].orden = o BY DEF OrdenesPagadas
<1> QED BY <1>1, CubreSigue

\* A step of a request, or of the handler of its file.
LEMMA TurnoDeHilo ==
  ASSUME FilasInv, FilasInv', EnTurno, NEW h \in Hilos, Quieto \/ Activo(h), UNCHANGED aviso,
         \A g \in Hilos \ {h} : peticion'[g] = peticion[g] /\ cobro'[g] = cobro[g],
         peticion'[h].en # "libre" => cobro'[h].en = "no", HiloAlDia(h)', OrdenesPagadas'
  PROVE  EnTurno'
<1>1. /\ \A g \in Hilos \ {h} : ~Activo(g) /\ ~Activo(g)'
      /\ \A e \in Avisos : ~EnCurso(e) /\ ~EnCurso(e)'
  BY DEF EnTurno, Turnos, Activo, Quieto, EnCurso
<1>2. Turnos' BY <1>1 DEF Turnos, EnTurno, Activo
<1>3. \A g \in Hilos : HiloAlDia(g)' BY <1>1 DEF Activo, HiloAlDia
<1>4. \A e \in Avisos : AvisoAlDia(e)' BY <1>1 DEF EnCurso, AvisoAlDia
<1> QED BY <1>2, <1>3, <1>4 DEF EnTurno

\* A step of a notification or of its handlers.
LEMMA TurnoDeAviso ==
  ASSUME FilasInv, FilasInv', EnTurno, NEW e \in Avisos, Quieto \/ EnCurso(e),
         UNCHANGED <<peticion, cobro>>, \A c \in Avisos \ {e} : aviso'[c] = aviso[c],
         AvisoAlDia(e)', OrdenesPagadas'
  PROVE  EnTurno'
<1>1. /\ \A g \in Hilos : ~Activo(g) /\ ~Activo(g)'
      /\ \A c \in Avisos \ {e} : ~EnCurso(c) /\ ~EnCurso(c)'
  BY DEF EnTurno, Turnos, Activo, Quieto, EnCurso
<1>2. Turnos' BY <1>1 DEF Turnos, EnTurno, Activo
<1>3. \A g \in Hilos : HiloAlDia(g)' BY <1>1 DEF Activo, HiloAlDia
<1>4. \A c \in Avisos : AvisoAlDia(c)' BY <1>1 DEF EnCurso, AvisoAlDia
<1> QED BY <1>2, <1>3, <1>4 DEF EnTurno

\* A step that touches neither.
LEMMA TurnoMismo ==
  ASSUME EnTurno, UNCHANGED <<factura, estatusOrden, peticion, cobro, aviso>>
  PROVE  EnTurno'
<1>1. \A f : Existe(f)' <=> Existe(f) BY DEF Existe
<1>2. Turnos' BY DEF EnTurno, Turnos, Activo, EnCurso
<1>3. OrdenesPagadas' BY <1>1 DEF EnTurno, OrdenesPagadas, Cubre
<1>4. \A fs : Cubiertas(fs) => Cubiertas(fs)' BY <1>1 DEF Cubiertas, Cubre
<1>5. \A h \in Hilos : HiloAlDia(h)' BY <1>4 DEF EnTurno, HiloAlDia
<1>6. \A e \in Avisos : AvisoAlDia(e)' BY DEF EnTurno, AvisoAlDia
<1> QED BY <1>2, <1>3, <1>5, <1>6 DEF EnTurno

\* Where no invoice and no order changes, what was paid is paid.
LEMMA PagadasMismas ==
  ASSUME EnTurno, UNCHANGED <<factura, estatusOrden>>
  PROVE  OrdenesPagadas' /\ \A fs : Cubiertas(fs) => Cubiertas(fs)'
<1>1. \A f : Cubre(f) => Cubre(f)' BY DEF Cubre, Existe, Cubierta
<1> QED BY <1>1 DEF EnTurno, OrdenesPagadas, Cubiertas

\* The requests of the clients are of a few kinds, and have paid nothing yet.
LEMMA PedidaEs ==
  ASSUME NEW h \in Hilos,
         \/ \E f \in Facturas, folio \in Folios, total \in Totales, o \in Ordenes :
              PedirCrear(h, f, FilaFactura(folio, total, o, "RECIBIDA"))
         \/ \E d \in Documentos : PedirFirma(h, d)
         \/ \E a \in Archivos : PedirArchivo(h, a)
  PROVE  \E q : Pedir(h, q) /\ q.en \in {"orden", "firmantes", "leer", "renglon"} /\ q.pagadas = <<>>
<1> DEFINE nada == <<>>
<1>1. SinPeticion = [op |-> "-", en |-> "libre", factura |-> "-", docs |-> {}, fila |-> SinFactura,
                     columnas |-> {}, renglones |-> nada, pagadas |-> nada]
  BY DEF SinPeticion
<1> HIDE DEF nada
<1>2. ASSUME NEW f \in Facturas, NEW fila, PedirCrear(h, f, fila)
      PROVE  \E q : Pedir(h, q) /\ q.en \in {"orden", "firmantes", "leer", "renglon"} /\ q.pagadas = nada
  <2> DEFINE q == [SinPeticion EXCEPT !.op = "crear", !.en = "orden", !.factura = f, !.fila = fila]
  <2>1. q.en = "orden" /\ q.pagadas = nada BY <1>1
  <2>2. Pedir(h, q) BY <1>2 DEF PedirCrear
  <2> HIDE DEF q
  <2> QED BY <2>1, <2>2
<1>3. ASSUME NEW d \in Documentos, PedirFirma(h, d)
      PROVE  \E q : Pedir(h, q) /\ q.en \in {"orden", "firmantes", "leer", "renglon"} /\ q.pagadas = nada
  <2> DEFINE op == IF AccionDe(d) = "APPROVE" THEN "cotejar" ELSE "cancelar"
             en == IF op = "cotejar" THEN "firmantes" ELSE "leer"
             f == FacturaDe(d)
             ds == {d}
             q == [SinPeticion EXCEPT !.op = op, !.factura = f, !.docs = ds, !.en = en]
  <2>1. Pedir(h, q) BY <1>3 DEF PedirFirma
  <2>2. en \in {"firmantes", "leer"} OBVIOUS
  <2> HIDE DEF op, en, f, ds
  <2>3. q.en = en /\ q.pagadas = nada BY <1>1
  <2> HIDE DEF q
  <2> QED BY <2>1, <2>2, <2>3
<1>4. ASSUME NEW a \in Archivos, PedirArchivo(h, a)
      PROVE  \E q : Pedir(h, q) /\ q.en \in {"orden", "firmantes", "leer", "renglon"} /\ q.pagadas = nada
  <2> DEFINE q == [SinPeticion EXCEPT !.op = "archivo", !.en = "renglon", !.renglones = a]
  <2>1. q.en = "renglon" /\ q.pagadas = nada BY <1>1
  <2>2. Pedir(h, q) BY <1>4 DEF PedirArchivo
  <2> HIDE DEF q
  <2> QED BY <2>1, <2>2
<1>5. \E q : Pedir(h, q) /\ q.en \in {"orden", "firmantes", "leer", "renglon"} /\ q.pagadas = nada
  BY <1>2, <1>3, <1>4
<1> QED BY <1>5 DEF nada

\* A request arrives when nothing is in progress.
LEMMA TurnoPedir ==
  ASSUME FilasInv, FilasInv', EnTurno, incidentes' = 0, NEW h \in Hilos, NEW q \in Peticion,
         Pedir(h, q), q.en \in {"orden", "firmantes", "leer", "renglon"}, q.pagadas = <<>>
  PROVE  EnTurno'
<1>1. Quieto BY DEF Pedir, Llegar, FilasInv, Tipos
<1>2. /\ peticion'[h] = q /\ \A g \in Hilos \ {h} : peticion'[g] = peticion[g]
      /\ UNCHANGED <<factura, estatusOrden, aviso, cobro>> /\ cobro'[h].en = "no"
  BY DEF Pedir, FilasInv, Tipos
<1>3. Cubiertas(<<>>)' BY DEF Cubiertas
<1>4. HiloAlDia(h)' BY <1>2, <1>3 DEF HiloAlDia
<1>5. OrdenesPagadas' BY <1>2, PagadasMismas
<1> QED BY <1>1, <1>2, <1>4, <1>5, TurnoDeHilo

\* So do the requests of the clients.
LEMMA TurnoPedidas ==
  ASSUME FilasInv, FilasInv', EnTurno, incidentes' = 0, NEW h \in Hilos,
         \/ \E f \in Facturas, folio \in Folios, total \in Totales, o \in Ordenes :
              PedirCrear(h, f, FilaFactura(folio, total, o, "RECIBIDA"))
         \/ \E d \in Documentos : PedirFirma(h, d)
         \/ \E a \in Archivos : PedirArchivo(h, a)
  PROVE  EnTurno'
<1>1. PICK q : Pedir(h, q) /\ q.en \in {"orden", "firmantes", "leer", "renglon"} /\ q.pagadas = <<>>
  BY PedidaEs
<1>2. q \in Peticion BY <1>1 DEF Pedir, FilasInv, Tipos
<1> QED BY <1>1, <1>2, TurnoPedir

\* A request goes on, or ends, without a row.
LEMMA TurnoFirma ==
  ASSUME FilasInv, FilasInv', EnTurno, NEW h \in Hilos,
         LeerOrden(h) \/ LeerFirmantes(h) \/ GuardarDocumento(h) \/ EnviarAlCotejar(h)
  PROVE  EnTurno'
<1>1. Tipos /\ UNCHANGED <<factura, estatusOrden, aviso, cobro>> /\ peticion[h].en # "libre"
  BY DEF FilasInv, LeerOrden, LeerFirmantes, GuardarDocumento, EnviarAlCotejar
<1>2. Responder(h) \/ \E en \in {"guardarNueva", "documento", "ticket", "leer"} : Seguir(h, en)
  BY DEF LeerOrden, LeerFirmantes, GuardarDocumento, EnviarAlCotejar
<1>3. /\ \A g \in Hilos \ {h} : peticion'[g] = peticion[g]
      /\ peticion'[h].en \in {"libre", "guardarNueva", "documento", "ticket", "leer"}
  <2>1. CASE Responder(h) BY <1>1, <2>1, ResponderHace, PeticionVacia
  <2>2. ASSUME NEW en \in {"guardarNueva", "documento", "ticket", "leer"}, Seguir(h, en)
        PROVE  /\ \A g \in Hilos \ {h} : peticion'[g] = peticion[g]
               /\ peticion'[h].en = en
    <3>1. en \in Consultas BY DEF Consultas
    <3> QED BY <1>1, <2>2, <3>1, SeguirHace
  <2> QED BY <1>2, <2>1, <2>2
<1>4. Activo(h) /\ cobro'[h].en = "no" BY <1>1 DEF EnTurno, Turnos, Activo
<1>5. HiloAlDia(h)' BY <1>3, <1>4 DEF HiloAlDia
<1> QED BY <1>1, <1>3, <1>4, <1>5, PagadasMismas, TurnoDeHilo

\* It reads its invoice.
LEMMA TurnoLeerFactura ==
  ASSUME FilasInv, FilasInv', EnTurno, NEW h \in Hilos, LeerFactura(h)
  PROVE  EnTurno'
<1>1. Tipos /\ PeticionBien(h) /\ FacturasBien BY DEF FilasInv, PeticionesBien
<1>2. PICK f \in Facturas : f = peticion[h].factura /\ Existe(f)
  BY <1>1 DEF LeerFactura, PeticionBien
<1>3. PICK fila \in Factura : fila = factura[f] BY <1>1, <1>2 DEF FacturasBien, DeFactura
<1>4. /\ peticion[h].en = "leer" /\ SeguirCon(h, "guardar", fila)
      /\ UNCHANGED <<factura, estatusOrden, aviso, cobro>>
  BY <1>2, <1>3 DEF LeerFactura
<1>5. /\ \A g \in Hilos \ {h} : peticion'[g] = peticion[g]
      /\ peticion'[h].en = "guardar" /\ peticion'[h].factura = f /\ peticion'[h].fila = fila
  BY <1>1, <1>2, <1>4, SeguirConHace DEF Consultas
<1>6. Activo(h) /\ cobro'[h].en = "no" BY <1>4 DEF EnTurno, Turnos, Activo
<1>7. HiloAlDia(h)' BY <1>3, <1>4, <1>5, <1>6 DEF HiloAlDia
<1> QED BY <1>4, <1>5, <1>6, <1>7, PagadasMismas, TurnoDeHilo

\* It compares it with the row that is there.
LEMMA TurnoComparar ==
  ASSUME FilasInv, FilasInv', EnTurno, NEW h \in Hilos, Comparar(h)
  PROVE  EnTurno'
<1>1. Tipos /\ HiloAlDia(h) /\ Turnos BY DEF FilasInv, EnTurno
<1>2. UNCHANGED <<factura, estatusOrden, aviso, cobro>> /\ peticion[h].en = "guardar"
  BY DEF Comparar
<1>3. Activo(h) /\ cobro'[h].en = "no" BY <1>1, <1>2 DEF Turnos, Activo
<1>4. HiloAlDia(h)' BY <1>1, <1>2, <1>3, CompararHace DEF HiloAlDia
<1> QED BY <1>1, <1>2, <1>3, <1>4, CompararHace, PagadasMismas, TurnoDeHilo

\* A write of an invoice, new or with the payments that it had.
LEMMA TurnoEscribe ==
  ASSUME FilasInv, FilasInv', EnTurno, NEW f \in Facturas, NEW fila \in Factura,
         factura' = [factura EXCEPT ![f] = fila],
         \/ ~Existe(f) \/ ~Cubierta(factura[f])
         \/ fila.pagos = factura[f].pagos,
         Existe(f) => fila.total = factura[f].total /\ fila.orden = factura[f].orden,
         UNCHANGED <<aviso, estatusOrden>>
  PROVE  OrdenesPagadas' /\ \A fs : Cubiertas(fs) => Cubiertas(fs)'
<1>1. factura'[f] = fila /\ \A g \in Facturas : g # f => factura'[g] = factura[g]
  BY DEF FilasInv, Tipos
<1>2. Crece BY <1>1, NoExiste DEF Crece, Existe
<1>3. \A g \in Facturas : Cubre(g) => factura'[g].pagos = factura[g].pagos
  BY <1>1 DEF Cubre
<1>4. OrdenesPagadas BY DEF EnTurno
<1>5. /\ estatusOrden' \in [Ordenes -> ESTATUS_ORDEN]
      /\ \A o \in Ordenes : estatusOrden'[o] = "PAGADA" => estatusOrden[o] = "PAGADA"
  BY <1>4 DEF OrdenesPagadas
<1> QED BY <1>2, <1>3, <1>4, <1>5, CubreSigue, OrdenesSiguen

\* create saves its row.
LEMMA TurnoGuardarNueva ==
  ASSUME FilasInv, FilasInv', EnTurno, NEW h \in Hilos, GuardarNueva(h)
  PROVE  EnTurno'
<1>1. Tipos /\ PeticionBien(h) BY DEF FilasInv, PeticionesBien
<1>2. PICK f \in Facturas, fila \in Factura :
        f = peticion[h].factura /\ fila = peticion[h].fila /\ ~Existe(f)
  BY <1>1 DEF GuardarNueva, PeticionBien
<1>3. /\ factura' = [factura EXCEPT ![f] = fila] /\ Responder(h)
      /\ UNCHANGED <<estatusOrden, aviso, cobro>> /\ peticion[h].en # "libre"
  BY <1>2 DEF GuardarNueva
<1>4. OrdenesPagadas' BY <1>2, <1>3, TurnoEscribe
<1>5. /\ peticion'[h].en = "libre" /\ \A g \in Hilos \ {h} : peticion'[g] = peticion[g]
  BY <1>1, <1>3, ResponderHace, PeticionVacia
<1>6. Activo(h) /\ cobro'[h].en = "no" BY <1>3 DEF EnTurno, Turnos, Activo
<1>7. HiloAlDia(h)' BY <1>5, <1>6 DEF HiloAlDia
<1> QED BY <1>3, <1>4, <1>5, <1>6, <1>7, TurnoDeHilo

\* The row that a request saves has the payments of the invoice.
LEMMA TurnoGuardar ==
  ASSUME FilasInv, FilasInv', EnTurno, NEW h \in Hilos, Guardar(h)
  PROVE  EnTurno'
<1>1. Tipos /\ PeticionBien(h) /\ HiloAlDia(h) BY DEF FilasInv, PeticionesBien, EnTurno
<1>2. PICK f \in Facturas, r \in Factura :
        /\ f = peticion[h].factura /\ Existe(f) /\ r.pagos = factura[f].pagos
        /\ r.total = factura[f].total /\ r.orden = factura[f].orden
        /\ factura' = [factura EXCEPT ![f] = r]
  <2>1. peticion[h].fila.pagos = factura[peticion[h].factura].pagos
    BY <1>1 DEF Guardar, HiloAlDia
  <2> QED BY <2>1, GuardarHace DEF DeFactura
<1>3. /\ Responder(h) \/ Seguir(h, "firmantes")
      /\ UNCHANGED <<estatusOrden, aviso, cobro>> /\ peticion[h].en = "escribir"
  BY DEF Guardar
<1>5. OrdenesPagadas' BY <1>2, <1>3, TurnoEscribe
<1>6. /\ \A g \in Hilos \ {h} : peticion'[g] = peticion[g]
      /\ peticion'[h].en \in {"libre", "firmantes"}
  BY <1>1, <1>3, ResponderHace, PeticionVacia, SeguirHace DEF Consultas
<1>7. Activo(h) /\ cobro'[h].en = "no" BY <1>3 DEF EnTurno, Turnos, Activo
<1>8. HiloAlDia(h)' BY <1>6, <1>7 DEF HiloAlDia
<1> QED BY <1>3, <1>5, <1>6, <1>7, <1>8, TurnoDeHilo

\* On to the next row of the file, or the handler of the invoices it paid.
LEMMA TurnoSiguienteRenglon ==
  ASSUME FilasInv, FilasInv', EnTurno, NEW h \in Hilos, peticion[h].en \in {"renglon", "ordenes"},
         UNCHANGED aviso, NEW pagadas \in Seq(Facturas), Cubiertas(pagadas)',
         SiguienteRenglon(h, pagadas), OrdenesPagadas'
  PROVE  EnTurno'
<1>1. Tipos /\ Activo(h) /\ cobro[h].en = "no" BY DEF FilasInv, EnTurno, Turnos, Activo
<1>2. PICK resto : resto = Tail(peticion[h].renglones) OBVIOUS
<1>3. CASE resto # <<>>
  <2>1. PICK q \in Peticion : q = peticion[h] BY <1>1 DEF Tipos
  <2> DEFINE r == [q EXCEPT !.en = "renglon", !.renglones = resto, !.pagadas = pagadas]
  <2>2. r.en = "renglon" /\ r.pagadas = pagadas BY DEF Peticion
  <2>3. peticion' = [peticion EXCEPT ![h] = r] /\ UNCHANGED cobro
    BY <1>1, <1>2, <1>3, <2>1 DEF SiguienteRenglon, Tipos
  <2> HIDE DEF r
  <2>4. peticion'[h] = r /\ \A g \in Hilos \ {h} : peticion'[g] = peticion[g]
    BY <1>1, <2>3 DEF Tipos
  <2>5. HiloAlDia(h)' BY <1>1, <2>2, <2>3, <2>4 DEF HiloAlDia
  <2> QED BY <1>1, <2>3, <2>4, <2>5, TurnoDeHilo
<1>4. CASE resto = <<>>
  <2>1. /\ Responder(h)
        /\ cobro' = IF pagadas = <<>> THEN cobro
                    ELSE [cobro EXCEPT ![h] = [facturas |-> pagadas, en |-> "leer"]]
    BY <1>2, <1>4 DEF SiguienteRenglon
  <2>2. /\ peticion'[h].en = "libre" /\ \A g \in Hilos \ {h} : peticion'[g] = peticion[g]
    BY <1>1, <2>1, ResponderHace, PeticionVacia
  <2>3. /\ \A g \in Hilos \ {h} : cobro'[g] = cobro[g]
        /\ cobro'[h].en # "no" => cobro'[h].facturas = pagadas
    BY <1>1, <2>1 DEF Tipos
  <2>4. HiloAlDia(h)' BY <2>2, <2>3 DEF HiloAlDia
  <2> QED BY <1>1, <2>2, <2>3, <2>4, TurnoDeHilo
<1> QED BY <1>3, <1>4

\* The payment of a row is missing only where the others do not cover.
LEMMA TurnoLeerRenglon ==
  ASSUME FilasInv, FilasInv', EnTurno, NEW h \in Hilos, LeerRenglon(h)
  PROVE  EnTurno'
<1>1. Tipos /\ PeticionBien(h) /\ HiloAlDia(h) /\ FacturasBien
  BY DEF FilasInv, PeticionesBien, EnTurno
<1>2. /\ peticion[h].en = "renglon" /\ UNCHANGED <<factura, estatusOrden, aviso>>
  BY DEF LeerRenglon
<1>3. OrdenesPagadas' /\ \A fs : Cubiertas(fs) => Cubiertas(fs)' BY <1>2, PagadasMismas
<1>4. PICK pagadas \in Seq(Facturas) : pagadas = peticion[h].pagadas /\ Cubiertas(pagadas)
  BY <1>1, <1>2 DEF Tipos, Peticion, HiloAlDia
<1>5. CASE SiguienteRenglon(h, pagadas) BY <1>2, <1>3, <1>4, <1>5, TurnoSiguienteRenglon
<1>6. ASSUME NEW f \in Facturas, NEW r, Existe(f), SePaga(factura[f], r), UNCHANGED cobro,
             peticion' = [peticion EXCEPT ![h].en = "pago", ![h].factura = f,
                                          ![h].fila = ConPago(factura[f], r)]
      PROVE  EnTurno'
  <2>1. PICK q \in Peticion : q = peticion[h] BY <1>1 DEF Tipos
  <2>2. PICK nueva : nueva = ConPago(factura[f], r) OBVIOUS
  <2> DEFINE p == [q EXCEPT !.en = "pago", !.factura = f, !.fila = nueva]
  <2>3. p.en = "pago" /\ p.factura = f /\ p.pagadas = q.pagadas BY DEF Peticion
  <2>4. peticion' = [peticion EXCEPT ![h] = p] BY <1>1, <1>6, <2>1, <2>2 DEF Tipos
  <2> HIDE DEF p
  <2>5. peticion'[h] = p /\ \A g \in Hilos \ {h} : peticion'[g] = peticion[g]
    BY <1>1, <2>4 DEF Tipos
  <2>6. PICK fila \in Factura : fila = factura[f]
    BY <1>1, <1>6 DEF FacturasBien, DeFactura
  <2>7. fila.pagos \in Seq(PaymentRegister) /\ fila.total \in Int
    <3>1. fila.pagos \in Seq(PaymentRegister) /\ fila.total \in Totales BY DEF Factura
    <3>2. \A n \in Nat : n \in Int OBVIOUS
    <3>3. Totales \subseteq Nat BY FacturasAssumption
    <3> QED BY <3>1, <3>2, <3>3
  <2>8. SumaPagos(fila.pagos) \in Int BY <2>7, SumaPagosEntera
  <2>9. SumaPagos(fila.pagos) < fila.total BY <1>6, <2>6 DEF SePaga
  <2>10. ~Cubierta(fila) BY <2>7, <2>8, <2>9 DEF Cubierta
  <2>11. Activo(h) /\ cobro'[h].en = "no" BY <1>2, <1>6 DEF EnTurno, Turnos, Activo
  <2>12. HiloAlDia(h)'
    BY <1>2, <1>3, <1>4, <2>1, <2>3, <2>5, <2>6, <2>10, <2>11 DEF HiloAlDia
  <2> QED BY <1>2, <1>3, <1>6, <2>5, <2>11, <2>12, TurnoDeHilo
<1> QED BY <1>4, <1>5, <1>6 DEF LeerRenglon

\* The payment is written: what was covered did not miss it.
LEMMA TurnoEscribirPago ==
  ASSUME FilasInv, FilasInv', EnTurno, NEW h \in Hilos, EscribirPago(h)
  PROVE  EnTurno'
<1>1. Tipos /\ PeticionBien(h) /\ HiloAlDia(h) /\ FacturasBien
  BY DEF FilasInv, PeticionesBien, EnTurno
<1>2. PICK f \in Facturas, fila \in Factura :
        /\ f = peticion[h].factura /\ fila = peticion[h].fila /\ Existe(f)
  BY <1>1 DEF EscribirPago, PeticionBien, DeFactura
<1>3. PICK vieja \in Factura : vieja = factura[f]
  BY <1>1, <1>2 DEF FacturasBien, DeFactura
<1> DEFINE r == [vieja EXCEPT !.pagos = fila.pagos, !.status = fila.status]
<1>4. r \in Factura /\ r.pagos = fila.pagos /\ r.total = vieja.total /\ r.orden = vieja.orden
  BY DEF Factura
<1>5. factura' = [factura EXCEPT ![f] = r] BY <1>1, <1>2, <1>3 DEF EscribirPago, Tipos
<1> HIDE DEF r
<1>6. /\ Seguir(h, "ordenes") /\ UNCHANGED <<estatusOrden, aviso, cobro>>
      /\ peticion[h].en = "pago"
  BY DEF EscribirPago
<1>7. ~Cubierta(factura[f]) /\ Cubiertas(peticion[h].pagadas)
  BY <1>1, <1>2, <1>6 DEF HiloAlDia
<1>8. OrdenesPagadas' /\ \A fs : Cubiertas(fs) => Cubiertas(fs)'
  BY <1>2, <1>3, <1>4, <1>5, <1>6, <1>7, TurnoEscribe
<1>9. /\ \A g \in Hilos \ {h} : peticion'[g] = peticion[g]
      /\ peticion'[h].en = "ordenes" /\ peticion'[h].factura = f /\ peticion'[h].fila = fila
      /\ peticion'[h].pagadas = peticion[h].pagadas
  BY <1>1, <1>2, <1>6, SeguirHace DEF Consultas
<1>10. factura'[f] = r BY <1>1, <1>5 DEF Tipos
<1>11. Activo(h) /\ cobro'[h].en = "no" BY <1>6 DEF EnTurno, Turnos, Activo
<1>12. HiloAlDia(h)' BY <1>4, <1>7, <1>8, <1>9, <1>10, <1>11 DEF HiloAlDia
<1> QED BY <1>6, <1>8, <1>9, <1>11, <1>12, TurnoDeHilo

\* The order is marked paid with the invoice that covers it.
LEMMA TurnoMarcarOrden ==
  ASSUME FilasInv, FilasInv', EnTurno, NEW h \in Hilos, MarcarOrden(h)
  PROVE  EnTurno'
<1>1. Tipos /\ PeticionBien(h) /\ HiloAlDia(h) /\ FacturasBien /\ OrdenesPagadas
  BY DEF FilasInv, PeticionesBien, EnTurno
<1>2. PICK f \in Facturas, fila \in Factura :
        /\ f = peticion[h].factura /\ fila = peticion[h].fila /\ Existe(f) /\ DeFactura(fila, f)
  BY <1>1 DEF MarcarOrden, PeticionBien, DeFactura
<1>3. /\ peticion[h].en = "ordenes" /\ UNCHANGED <<factura, aviso>>
      /\ estatusOrden' = [estatusOrden EXCEPT ![fila.orden] = fila.status]
  BY <1>2 DEF MarcarOrden
<1>4. fila.status = "PAGADA" => Cubre(f)
  <2>1. fila.pagos = factura[f].pagos /\ fila.total = factura[f].total
    BY <1>1, <1>2, <1>3 DEF HiloAlDia, DeFactura
  <2>2. fila.status = "PAGADA" => Cubierta(fila)
    BY <1>1, <1>2, <1>3 DEF PeticionBien, Cuadra
  <2> QED BY <1>2, <2>1, <2>2 DEF Cubre, Cubierta
<1>5. fila.orden \in Ordenes /\ fila.orden = factura[f].orden /\ fila.status \in ESTATUS_ORDEN
  <2>1. fila.status \in {"PARTIAL_PAY", "PAGADA"} BY <1>1, <1>2, <1>3 DEF PeticionBien
  <2> QED BY <1>2, <2>1 DEF Factura, DeFactura, ESTATUS_ORDEN
<1>6. /\ Crece /\ \A g \in Facturas : Cubre(g) => factura'[g].pagos = factura[g].pagos
  BY <1>3, MismaCrece
<1>7. /\ estatusOrden' \in [Ordenes -> ESTATUS_ORDEN]
      /\ \A o \in Ordenes : estatusOrden'[o] = "PAGADA" =>
           estatusOrden[o] = "PAGADA" \/ \E g \in Facturas : Cubre(g) /\ factura[g].orden = o
  BY <1>1, <1>2, <1>3, <1>4, <1>5 DEF OrdenesPagadas
<1>8. OrdenesPagadas' /\ \A fs : Cubiertas(fs) => Cubiertas(fs)'
  BY <1>1, <1>6, <1>7, CubreSigue, OrdenesSiguen
<1>9. PICK ps \in Seq(Facturas) : ps = peticion[h].pagadas /\ Cubiertas(ps)
  BY <1>1, <1>3 DEF Tipos, Peticion, HiloAlDia
<1>10. Append(ps, f) \in Seq(Facturas) /\ (Cubre(f) => Cubiertas(Append(ps, f)))
  <2>1. PICK n \in Nat : n = Len(ps) OBVIOUS
  <2> DEFINE qs == Append(ps, f)
  <2>2. /\ qs \in Seq(Facturas) /\ DOMAIN qs = 1..(n + 1) /\ DOMAIN ps = 1..n
        /\ \A i \in 1..n : qs[i] = ps[i]
    BY <2>1
  <2>3. qs[n + 1] = f BY <2>1
  <2> HIDE DEF qs
  <2>4. \A i \in DOMAIN qs : i \in 1..n \/ i = n + 1 BY <2>2
  <2>5. Cubre(f) => Cubiertas(qs) BY <1>9, <2>2, <2>3, <2>4 DEF Cubiertas
  <2> QED BY <2>2, <2>5 DEF qs
<1>11. PICK pagadas \in Seq(Facturas) : SiguienteRenglon(h, pagadas) /\ Cubiertas(pagadas)
  BY <1>2, <1>4, <1>9, <1>10 DEF MarcarOrden
<1> QED BY <1>3, <1>8, <1>11, TurnoSiguienteRenglon

\* A request in progress.
LEMMA TurnoAtender ==
  ASSUME FilasInv, FilasInv', EnTurno, NEW h \in Hilos, Atender(h)
  PROVE  EnTurno'
BY TurnoFirma, TurnoGuardarNueva, TurnoLeerFactura, TurnoComparar, TurnoGuardar, TurnoLeerRenglon,
   TurnoEscribirPago, TurnoMarcarOrden DEF Atender

\* The handler of invoice.paid has covered invoices only.
LEMMA TurnoCobrar ==
  ASSUME FilasInv, FilasInv', EnTurno, NEW h \in Hilos, Cobrar(h)
  PROVE  EnTurno'
<1>1. Tipos /\ HiloAlDia(h) /\ OrdenesPagadas /\ FacturasBien BY DEF FilasInv, EnTurno
<1>2. /\ cobro[h].en # "no" /\ UNCHANGED <<factura, peticion, aviso>>
  BY DEF Cobrar, CobrarFactura, TerminarCobro
<1>3. PICK fs \in Seq(Facturas) \ {<<>>}, en \in {"leer", "cargos"} :
        cobro[h] = [facturas |-> fs, en |-> en]
  BY <1>1, <1>2 DEF Tipos, Cobro, SinCobro
<1>4. Cubiertas(fs) BY <1>1, <1>2, <1>3 DEF HiloAlDia
<1>5. Activo(h) /\ peticion[h].en = "libre" BY <1>2 DEF EnTurno, Turnos, Activo
<1>6. /\ Crece /\ \A g \in Facturas : Cubre(g) => factura'[g].pagos = factura[g].pagos
  BY <1>2, MismaCrece
<1>7. CASE CobrarFactura(h)
  <2> DEFINE r == [facturas |-> fs, en |-> "cargos"]
  <2>1. UNCHANGED estatusOrden /\ cobro' = [cobro EXCEPT ![h] = r]
    <3>1. PICK c : c = cobro[h] OBVIOUS
    <3>2. [c EXCEPT !.en = "cargos"] = r BY <1>3, <3>1
    <3>3. cobro' = [cobro EXCEPT ![h].en = "cargos"] /\ UNCHANGED estatusOrden
      BY <1>7 DEF CobrarFactura
    <3>4. cobro' = [cobro EXCEPT ![h] = [c EXCEPT !.en = "cargos"]]
      BY <1>1, <3>1, <3>3 DEF Tipos
    <3> QED BY <3>2, <3>3, <3>4
  <2>2. cobro'[h].facturas = fs /\ \A g \in Hilos \ {h} : cobro'[g] = cobro[g]
    BY <1>1, <2>1 DEF Tipos
  <2>3. OrdenesPagadas' /\ \A gs : Cubiertas(gs) => Cubiertas(gs)'
    BY <1>2, <2>1, PagadasMismas
  <2>4. HiloAlDia(h)' BY <1>2, <1>4, <1>5, <2>2, <2>3 DEF HiloAlDia
  <2> QED BY <1>2, <1>5, <2>2, <2>3, <2>4, TurnoDeHilo
<1>8. CASE TerminarCobro(h)
  <2>1. PICK f \in Facturas : f = Head(fs) /\ Cubre(f)
    <3>1. Len(fs) \in Nat \ {0} /\ Head(fs) = fs[1] /\ Head(fs) \in Facturas OBVIOUS
    <3>2. 1 \in DOMAIN fs BY <3>1
    <3> QED BY <1>4, <3>1, <3>2 DEF Cubiertas
  <2>2. PICK o \in Ordenes : o = factura[f].orden
    BY <1>1, <2>1 DEF Cubre, FacturasBien, DeFactura, Factura
  <2>3. PICK resto : resto = Tail(fs) OBVIOUS
  <2>4. Cubiertas(resto)
    <3>1. PICK n \in Nat : n = Len(fs) /\ n # 0 OBVIOUS
    <3>2. DOMAIN fs = 1..n /\ DOMAIN resto = 1..(n - 1) /\ \A i \in 1..(n - 1) : resto[i] = fs[i + 1]
      BY <2>3, <3>1
    <3>3. \A i \in DOMAIN resto : i + 1 \in DOMAIN fs /\ resto[i] = fs[i + 1]
      BY <3>1, <3>2
    <3> QED BY <1>4, <3>3 DEF Cubiertas
  <2> DEFINE r == [facturas |-> resto, en |-> IF resto = <<>> THEN "no" ELSE "leer"]
  <2>5. /\ estatusOrden' = [estatusOrden EXCEPT ![o] = "PAGADA"]
        /\ cobro' = [cobro EXCEPT ![h] = r]
    BY <1>3, <1>8, <2>1, <2>2, <2>3 DEF TerminarCobro
  <2>6. r.facturas = resto OBVIOUS
  <2> HIDE DEF r
  <2>7. cobro'[h].facturas = resto /\ \A g \in Hilos \ {h} : cobro'[g] = cobro[g]
    BY <1>1, <2>5, <2>6 DEF Tipos
  <2>8. /\ estatusOrden' \in [Ordenes -> ESTATUS_ORDEN]
        /\ \A p \in Ordenes : estatusOrden'[p] = "PAGADA" =>
             estatusOrden[p] = "PAGADA" \/ \E g \in Facturas : Cubre(g) /\ factura[g].orden = p
    BY <1>1, <2>1, <2>2, <2>5 DEF OrdenesPagadas, ESTATUS_ORDEN
  <2>9. OrdenesPagadas' /\ \A gs : Cubiertas(gs) => Cubiertas(gs)'
    BY <1>1, <1>6, <2>8, CubreSigue, OrdenesSiguen
  <2>10. HiloAlDia(h)' BY <1>2, <1>5, <2>4, <2>7, <2>9 DEF HiloAlDia
  <2> QED BY <1>2, <1>5, <2>7, <2>9, <2>10, TurnoDeHilo
<1> QED BY <1>7, <1>8 DEF Cobrar

\* A notification arrives when nothing is in progress, and its document is saved.
LEMMA TurnoRecibir ==
  ASSUME FilasInv, FilasInv', EnTurno, incidentes' = 0, NEW e \in Avisos,
         Recibir(e) \/ GuardarFirma(e)
  PROVE  EnTurno'
<1>1. Tipos /\ AvisoAlDia(e) BY DEF FilasInv, EnTurno
<1>2. Quieto \/ EnCurso(e) BY <1>1 DEF Recibir, GuardarFirma, Llegar, EnCurso, Tipos
<1>3. PICK a \in Aviso : a = aviso[e] BY <1>1 DEF Tipos
<1>4. PICK doc \in BOOLEAN, status \in {"no", "leer"}, montos \in {"no", "leer", "cargos", "orden"} :
        \/ aviso' = [aviso EXCEPT ![e].recibido = TRUE, ![e].doc = doc, ![e].status = status,
                                  ![e].montos = montos]
        \/ aviso' = [aviso EXCEPT ![e].doc = doc]
        \/ aviso' = [aviso EXCEPT ![e].doc = doc, ![e].status = status, ![e].montos = montos]
  <2>1. CASE Recibir(e) BY <2>1 DEF Recibir
  <2>2. CASE GuardarFirma(e) BY <2>2 DEF GuardarFirma
  <2> QED BY <2>1, <2>2
<1>5. PICK r \in Aviso : /\ aviso' = [aviso EXCEPT ![e] = r]
                         /\ r.status = "escribir" => a.status = "escribir"
                         /\ r.fila = a.fila
  <2> DEFINE r1 == [a EXCEPT !.recibido = TRUE, !.doc = doc, !.status = status, !.montos = montos]
             r2 == [a EXCEPT !.doc = doc]
             r3 == [a EXCEPT !.doc = doc, !.status = status, !.montos = montos]
  <2>1. /\ r1.status # "escribir" /\ r1.fila = a.fila
        /\ r2.status = a.status /\ r2.fila = a.fila
        /\ r3.status # "escribir" /\ r3.fila = a.fila
    BY <1>4 DEF Aviso
  <2>2. \/ aviso' = [aviso EXCEPT ![e] = r1]
        \/ aviso' = [aviso EXCEPT ![e] = r2]
        \/ aviso' = [aviso EXCEPT ![e] = r3]
    BY <1>1, <1>3, <1>4 DEF Tipos
  <2> HIDE DEF r1, r2, r3
  <2>3. \A x : aviso' = [aviso EXCEPT ![e] = x] => x \in Aviso BY <1>1 DEF Tipos, FilasInv
  <2> QED BY <2>1, <2>2, <2>3
<1>6. aviso'[e] = r /\ \A c \in Avisos \ {e} : aviso'[c] = aviso[c]
  BY <1>1, <1>5 DEF Tipos
<1>7. UNCHANGED <<factura, estatusOrden, peticion, cobro>> BY DEF Recibir, GuardarFirma
<1>8. AvisoAlDia(e)' BY <1>1, <1>3, <1>5, <1>6, <1>7 DEF AvisoAlDia
<1> QED BY <1>2, <1>6, <1>7, <1>8, PagadasMismas, TurnoDeAviso

\* The row that a status handler reads and writes back has the payments of the
\* invoice.
LEMMA TurnoStatus ==
  ASSUME FilasInv, FilasInv', EnTurno, NEW e \in Avisos, ManejarStatus(e)
  PROVE  EnTurno'
<1>1. Tipos /\ AvisoBien(e) /\ AvisoAlDia(e) /\ FacturasBien
  BY DEF FilasInv, EnTurno, AvisosBien
<1>2. EnCurso(e) /\ UNCHANGED <<estatusOrden, peticion, cobro>>
  BY DEF ManejarStatus, LeerStatus, EscribirStatus, EnCurso
<1>3. PICK a \in Aviso : a = aviso[e] BY <1>1 DEF Tipos
<1>4. PICK f \in Facturas : f = FacturaDe(Doc(e)) /\ Existe(f)
  BY <1>1, <1>2, DeDocumento DEF AvisoBien
<1>5. PICK fila \in Factura : fila = factura[f] BY <1>1, <1>4 DEF FacturasBien, DeFactura
<1>6. CASE LeerStatus(e)
  <2> DEFINE r == [a EXCEPT !.status = "escribir", !.fila = fila]
  <2>1. r.fila = fila BY DEF Aviso
  <2>2. aviso' = [aviso EXCEPT ![e] = r] /\ UNCHANGED factura
    BY <1>1, <1>3, <1>4, <1>5, <1>6 DEF LeerStatus, Tipos
  <2> HIDE DEF r
  <2>3. aviso'[e] = r /\ \A c \in Avisos \ {e} : aviso'[c] = aviso[c]
    BY <1>1, <2>2 DEF Tipos
  <2>4. AvisoAlDia(e)' BY <1>4, <1>5, <2>1, <2>2, <2>3 DEF AvisoAlDia
  <2> QED BY <1>2, <2>2, <2>3, <2>4, PagadasMismas, TurnoDeAviso
<1>7. CASE EscribirStatus(e)
  <2>1. PICK leida \in Factura : leida = a.fila /\ DeFactura(leida, f)
    BY <1>1, <1>3, <1>4, <1>7 DEF EscribirStatus, AvisoBien, DeFactura
  <2>2. leida.pagos = factura[f].pagos
    BY <1>1, <1>3, <1>4, <1>7, <2>1 DEF EscribirStatus, AvisoAlDia
  <2>3. PICK st \in {"CONTEJADA", "APROBADA", "CANCELADA"} : st = StatusDe(e)
    BY DEF StatusDe
  <2> DEFINE q == [leida EXCEPT !.status = st]
             r == [a EXCEPT !.status = "no", !.fila = SinFactura]
  <2>4. /\ q \in Factura /\ q.pagos = leida.pagos /\ q.total = leida.total /\ q.orden = leida.orden
    BY DEF Factura, INVOICE_STATUS
  <2>5. r.status = "no" BY DEF Aviso
  <2>6. factura' = [factura EXCEPT ![f] = q] /\ aviso' = [aviso EXCEPT ![e] = r]
    BY <1>1, <1>3, <1>4, <1>7, <2>1, <2>3 DEF EscribirStatus, Tipos
  <2> HIDE DEF q, r
  <2>7. aviso'[e] = r /\ \A c \in Avisos \ {e} : aviso'[c] = aviso[c]
    BY <1>1, <2>6 DEF Tipos
  <2>8. AvisoAlDia(e)' BY <2>5, <2>7 DEF AvisoAlDia
  <2>9. Crece
    <3>1. \A c \in Avisos : aviso[c].recibido => aviso'[c].recibido
      <4>1. r.recibido = a.recibido BY DEF r, Aviso
      <4> QED BY <1>3, <2>7, <4>1
    <3>2. factura'[f] = q /\ \A g \in Facturas : g # f => factura'[g] = factura[g]
      BY <1>1, <2>6 DEF Tipos
    <3>3. q.total = factura[f].total /\ q.orden = factura[f].orden
      BY <2>1, <2>4 DEF DeFactura
    <3> QED BY <2>4, <3>1, <3>2, <3>3, NoExiste DEF Crece, Existe
  <2>10. \A g \in Facturas : Cubre(g) => factura'[g].pagos = factura[g].pagos
    <3>1. factura'[f] = q /\ \A g \in Facturas : g # f => factura'[g] = factura[g]
      BY <1>1, <2>6 DEF Tipos
    <3> QED BY <2>2, <2>4, <3>1
  <2>11. OrdenesPagadas'
    <3>1. OrdenesPagadas BY DEF EnTurno
    <3>2. /\ estatusOrden' \in [Ordenes -> ESTATUS_ORDEN]
          /\ \A o \in Ordenes : estatusOrden'[o] = "PAGADA" => estatusOrden[o] = "PAGADA"
      BY <1>2, <3>1 DEF OrdenesPagadas
    <3> QED BY <2>9, <2>10, <3>1, <3>2, OrdenesSiguen
  <2> QED BY <1>2, <2>7, <2>8, <2>11, TurnoDeAviso
<1> QED BY <1>6, <1>7 DEF ManejarStatus

\* The handlers of the amounts and of the orders never mark an order paid.
LEMMA TurnoMontos ==
  ASSUME FilasInv, FilasInv', EnTurno, NEW e \in Avisos, ManejarMontos(e)
  PROVE  EnTurno'
<1>1. Tipos /\ AvisoBien(e) /\ AvisoAlDia(e) /\ FacturasBien /\ OrdenesPagadas
  BY DEF FilasInv, EnTurno, AvisosBien
<1>2. EnCurso(e) /\ UNCHANGED <<factura, peticion, cobro>>
  BY DEF ManejarMontos, CargarAviso, EscribirOrden, EnCurso
<1>3. PICK m \in {"no", "cargos"} : aviso' = [aviso EXCEPT ![e].montos = m]
  BY DEF ManejarMontos, CargarAviso, EscribirOrden
<1>4. PICK a \in Aviso : a = aviso[e] BY <1>1 DEF Tipos
<1> DEFINE r == [a EXCEPT !.montos = m]
<1>5. r.status = a.status /\ r.fila = a.fila /\ r.recibido = a.recibido BY DEF Aviso
<1>6. aviso' = [aviso EXCEPT ![e] = r] BY <1>1, <1>3, <1>4 DEF Tipos
<1> HIDE DEF r
<1>7. aviso'[e] = r /\ \A c \in Avisos \ {e} : aviso'[c] = aviso[c]
  BY <1>1, <1>6 DEF Tipos
<1>8. AvisoAlDia(e)' BY <1>1, <1>2, <1>4, <1>5, <1>7 DEF AvisoAlDia
<1>9. PICK f \in Facturas : f = FacturaDe(Doc(e)) /\ Existe(f)
  BY <1>1, <1>2, DeDocumento DEF AvisoBien
<1>10. PICK o \in Ordenes : o = factura[f].orden
  BY <1>1, <1>9 DEF FacturasBien, DeFactura, Factura
<1>11. PICK st \in {"PAGO_APROBADO", "CANCELADA"} :
         UNCHANGED estatusOrden \/ estatusOrden' = [estatusOrden EXCEPT ![o] = st]
  <2>1. CASE CargarAviso(e) BY <2>1 DEF CargarAviso
  <2>2. CASE EscribirOrden(e) BY <1>9, <1>10, <2>2 DEF EscribirOrden
  <2> QED BY <2>1, <2>2 DEF ManejarMontos
<1>12. /\ estatusOrden' \in [Ordenes -> ESTATUS_ORDEN]
       /\ \A p \in Ordenes : estatusOrden'[p] = "PAGADA" => estatusOrden[p] = "PAGADA"
  BY <1>1, <1>11 DEF OrdenesPagadas, ESTATUS_ORDEN
<1>13. Crece /\ \A g \in Facturas : Cubre(g) => factura'[g].pagos = factura[g].pagos
  <2>1. \A c \in Avisos : aviso[c].recibido => aviso'[c].recibido BY <1>4, <1>5, <1>7
  <2> QED BY <1>2, <2>1, MismaCrece
<1>14. OrdenesPagadas' BY <1>1, <1>12, <1>13, OrdenesSiguen
<1> QED BY <1>2, <1>7, <1>8, <1>14, TurnoDeAviso

\* A step after which nothing overlapped or failed follows another such state,
\* and keeps the turns.
LEMMA TurnoSiguiente ==
  ASSUME FilasInv, FilasInv', incidentes = 0 => EnTurno, [NextFactura]_todas
  PROVE  incidentes' = 0 => EnTurno'
<1> SUFFICES ASSUME incidentes' = 0 PROVE EnTurno' OBVIOUS
<1>1. incidentes \in Nat BY DEF FilasInv, Tipos
<1>2. ~Incidente BY <1>1 DEF Incidente
<1>3. incidentes = 0 \/ ~ (UNCHANGED incidentes \/ Llegar) BY <1>1 DEF Llegar
<1>4. ASSUME NEW h \in Hilos,
             \/ \E f \in Facturas, folio \in Folios, total \in Totales, o \in Ordenes :
                  PedirCrear(h, f, FilaFactura(folio, total, o, "RECIBIDA"))
             \/ \E d \in Documentos : PedirFirma(h, d)
             \/ \E a \in Archivos : PedirArchivo(h, a)
      PROVE  EnTurno'
  <2>1. Llegar BY <1>4 DEF PedirCrear, PedirFirma, PedirArchivo, Pedir
  <2> QED BY <1>3, <1>4, <2>1, TurnoPedidas
<1>5. ASSUME NEW h \in Hilos, Atender(h) PROVE EnTurno'
  <2>1. UNCHANGED incidentes
    BY <1>5 DEF Atender, LeerOrden, GuardarNueva, LeerFirmantes, GuardarDocumento,
                EnviarAlCotejar, LeerFactura, Comparar, Guardar, LeerRenglon, EscribirPago, MarcarOrden
  <2> QED BY <1>3, <1>5, <2>1, TurnoAtender
<1>6. ASSUME NEW h \in Hilos, Cobrar(h) PROVE EnTurno'
  <2>1. UNCHANGED incidentes BY <1>6 DEF Cobrar, CobrarFactura, TerminarCobro
  <2> QED BY <1>3, <1>6, <2>1, TurnoCobrar
<1>7. ASSUME NEW e \in Avisos, Recibir(e) \/ GuardarFirma(e) PROVE EnTurno'
  <2>1. UNCHANGED incidentes \/ Llegar BY <1>7 DEF Recibir, GuardarFirma
  <2> QED BY <1>3, <1>7, <2>1, TurnoRecibir
<1>8. ASSUME NEW e \in Avisos, ManejarStatus(e) \/ ManejarMontos(e) PROVE EnTurno'
  <2>1. UNCHANGED incidentes
    BY <1>8 DEF ManejarStatus, LeerStatus, EscribirStatus, ManejarMontos, CargarAviso, EscribirOrden
  <2> QED BY <1>3, <1>8, <2>1, TurnoStatus, TurnoMontos
<1>9. ASSUME NEW d \in Documentos, EnviarAFirmamex(d) PROVE EnTurno'
  <2>1. Llegar /\ UNCHANGED <<factura, estatusOrden, peticion, cobro, aviso>>
    BY <1>9 DEF EnviarAFirmamex
  <2> QED BY <1>3, <2>1, TurnoMismo
<1>10. ASSUME UNCHANGED <<varsFactura, incidentes>> PROVE EnTurno'
  <2>1. UNCHANGED <<factura, estatusOrden, peticion, cobro, aviso, incidentes>>
    BY <1>10 DEF varsFactura
  <2> QED BY <1>3, <2>1, TurnoMismo
<1>11. UNCHANGED todas => UNCHANGED <<varsFactura, incidentes>> BY DEF todas
<1>12. \A t : AvanzarLibro(t) => UNCHANGED <<varsFactura, incidentes>> BY DEF AvanzarLibro
<1>13. /\ \A h : ~FallarPeticion(h) /\ ~FallarCobro(h)
       /\ \A e : ~FallarAviso(e) /\ ~CaerServidor
  BY <1>2 DEF FallarPeticion, FallarCobro, FallarAviso, CaerServidor
<1> QED BY <1>4, <1>5, <1>6, <1>7, <1>8, <1>9, <1>10, <1>11, <1>12, <1>13 DEF NextFactura

\* Nothing is in progress at the start, and no order is paid.
LEMMA TurnoInicial ==
  ASSUME InitFactura
  PROVE  EnTurno
<1>1. PICK ya \in Antes :
        /\ factura \in [Facturas -> {SinFactura} \cup
                          {FilaFactura(folio, total, o, "APROBADA") :
                             folio \in Folios, total \in Totales, o \in Ordenes}]
        /\ {f \in Facturas : Existe(f)} = ya
        /\ estatusOrden = [o \in Ordenes |->
                             IF \E f \in ya : factura[f].orden = o THEN "PAGO_APROBADO"
                             ELSE "ACTIVA"]
        /\ documento = [d \in Documentos |->
                          IF d \in ya \X {"APPROVE"} \X {1} THEN "APROBADA" ELSE "no"]
        /\ aviso = [e \in Avisos |->
                      [SinAviso EXCEPT !.recibido =
                         EsCompletado(e) /\ e[3] = 1 /\ Doc(e) \in ya \X {"APPROVE"} \X {1}]]
        /\ inicios = 3 * Cardinality(ya)
  BY DEF InitFactura, InitFacturas
<1>2. \A h \in Hilos : peticion[h] = SinPeticion /\ cobro[h] = SinCobro BY DEF InitFactura
<1>3. \A h \in Hilos : peticion[h].en = "libre" /\ cobro[h].en = "no"
  BY <1>2, PeticionVacia DEF SinCobro
<1>4. ASSUME NEW e \in Avisos PROVE aviso[e].status = "no" /\ ~EnCurso(e)
  <2> DEFINE b == EsCompletado(e) /\ e[3] = 1 /\ Doc(e) \in ya \X {"APPROVE"} \X {1}
  <2>1. aviso[e] = [SinAviso EXCEPT !.recibido = b] BY <1>1
  <2> HIDE DEF b
  <2> QED BY <2>1 DEF SinAviso, EnCurso
<1>5. OrdenesPagadas
  <2>1. \A o \in Ordenes : estatusOrden[o] \in {"PAGO_APROBADO", "ACTIVA"} BY <1>1
  <2> QED BY <1>1, <2>1 DEF OrdenesPagadas, ESTATUS_ORDEN
<1>6. \A h \in Hilos : HiloAlDia(h) BY <1>3 DEF HiloAlDia
<1> QED BY <1>3, <1>4, <1>5, <1>6 DEF EnTurno, Turnos, Activo, AvisoAlDia

\* As long as nothing overlapped or failed, requests and notifications take
\* turns and what they hold is up to date.
LEMMA TurnosSiempre == SpecFactura => [](FilasInv /\ (incidentes = 0 => EnTurno))
<1>1. InitFactura => FilasInv /\ (incidentes = 0 => EnTurno) BY FilasInicial, TurnoInicial
<1>2. FilasInv /\ (incidentes = 0 => EnTurno) /\ [NextFactura]_todas
        => (FilasInv /\ (incidentes = 0 => EnTurno))'
  BY FilasSiguiente, TurnoSiguiente
<1> QED BY <1>1, <1>2, PTL DEF SpecFactura

\* An invoice is paid only with payments for its total, whatever overlaps,
\* fails or writes an old row, until a save mixes two of its rows; an order is
\* paid only when one of its invoices is covered, if nothing overlaps or fails.
THEOREM PagadaSiempre == SpecFactura => []PagadaCubierta
<1>1. FilasInv /\ (incidentes = 0 => EnTurno) => PagadaCubierta
  <2> SUFFICES ASSUME FilasInv, incidentes = 0 => EnTurno PROVE PagadaCubierta OBVIOUS
  <2>1. ASSUME NEW f \in Facturas \ mezcladas, Existe(f) PROVE Cuadra(factura[f])
    BY <2>1 DEF FilasInv, FacturasBien, DeFactura
  <2>2. ASSUME incidentes = 0, NEW o \in Ordenes, estatusOrden[o] = "PAGADA"
        PROVE  \E f \in Facturas : Existe(f) /\ factura[f].orden = o /\ Cubierta(factura[f])
    BY <2>2 DEF EnTurno, OrdenesPagadas, Cubre
  <2> QED BY <2>1, <2>2 DEF PagadaCubierta, Cuadra
<1> QED BY <1>1, TurnosSiempre, PTL

----
(* The ledger: when nothing overlaps or fails, what the funds have paid and *)
(* executed is what the orders of the covered invoices, and of the          *)
(* cancelled ones, take from them.                                          *)
(*                                                                          *)
(* A request or a notification in progress owes the ledger what it has      *)
(* written on the invoices and not charged yet. The invariant is that the   *)
(* books balance with that debt.                                            *)

----
(* What the invoices say of a fund, and what is still to be charged to it. *)

\* What the order of an invoice takes from the fund.
ParteDe(f, fd) == Parte(factura[f].orden, fd)

\* The paid and the cancelled money of an invoice.
PagadoDe(f, fd) == IF Cubre(f) THEN ParteDe(f, fd) ELSE 0
CanceladoDe(f, fd) == IF Existe(f) THEN Canceladas(f) * ParteDe(f, fd) ELSE 0

\* Of all of them.
Pagado(fd) == SumFunctionOnSet([f \in Facturas |-> PagadoDe(f, fd)], Facturas)
Cancelado(fd) == SumFunctionOnSet([f \in Facturas |-> CanceladoDe(f, fd)], Facturas)

\* What some paid invoices owe to the ledger.
Adeudo(fs, fd) == SumFunctionOnSet([i \in DOMAIN fs |-> ParteDe(fs[i], fd)], DOMAIN fs)

\* What a payments file and its handler owe: the orders of the invoices that
\* were covered and not charged.
DebeHilo(h, fd) ==
  LET q == peticion[h]
      c == cobro[h]
  IN  IF q.en \in {"renglon", "pago"} THEN Adeudo(q.pagadas, fd)
      ELSE IF q.en = "ordenes"
        THEN Adeudo(q.pagadas, fd) + (IF q.fila.status = "PAGADA" THEN Parte(q.fila.orden, fd) ELSE 0)
      ELSE IF c.en = "leer" THEN Adeudo(c.facturas, fd)
      ELSE IF c.en = "cargos" THEN Adeudo(Tail(c.facturas), fd) + Pendiente(h, fd)
      ELSE 0

\* What a notified cancellation owes.
DebeAviso(e, fd) ==
  IF AccionDe(Doc(e)) # "CANCEL" THEN 0
  ELSE IF aviso[e].montos = "leer" THEN ParteDe(FacturaDe(Doc(e)), fd)
  ELSE IF aviso[e].montos = "cargos" THEN Pendiente(e, fd)
  ELSE 0

\* The books of a fund balance with debt x of payments and y of cancellations.
Cuentas(fd, x, y) ==
  /\ x \in Int /\ y \in Int /\ Pagado(fd) \in Int /\ Cancelado(fd) \in Int
  /\ fondo[fd]["montoPagado"] = Pagado(fd) - x
  /\ fondo[fd]["montoActivo"] = ActivoInicial(fd) + Cancelado(fd) - y
  /\ fondo[fd]["montoEjercido"] = x + y - (Pagado(fd) + Cancelado(fd))

CuentasDeHilo(h) == \A fd \in Fondos : Cuentas(fd, DebeHilo(h, fd), 0)
CuentasDeAviso(e) == \A fd \in Fondos : Cuentas(fd, 0, DebeAviso(e, fd))
CuentasClaras == \A fd \in Fondos : Cuentas(fd, 0, 0)

\* They balance with the debt of what is in progress.
LibroBien ==
  /\ \A h \in Hilos : Activo(h) => CuentasDeHilo(h)
  /\ \A e \in Avisos : EnCurso(e) => CuentasDeAviso(e)
  /\ Quieto => CuentasClaras

\* An activation belongs to the handler that waits for it, and is up to date.
LibroEnTurno ==
  /\ \A e \in Avisos : aviso[e].montos \in {"leer", "cargos"} => EsCompletado(e)
  /\ \A h \in Hilos : paso[h] # "libre" =>
       cobro[h].en = "cargos" /\ llamada[h].evento = "INVOICE_PAID"
  /\ \A e \in Avisos : paso[e] # "libre" =>
       aviso[e].montos = "cargos" /\ llamada[e].evento = EventoDe(Doc(e))
  /\ \A t \in Tareas : LeidoAlDia(t)

LibroAlDia == TypeOK /\ LibroEnTurno /\ LibroBien

\* The whole invariant.
LibroInv == FilasInv /\ (incidentes = 0 => EnTurno /\ LibroAlDia)

----
(* Sums over invoices. *)

\* What an order takes from a fund is an integer, and what the orders of the
\* start take is too.
LEMMA ParteEntera ==
  /\ \A o \in Ordenes : \A fd : Parte(o, fd) \in Int
  /\ \A fd : ActivoInicial(fd) \in Int
<1>1. \A o \in Ordenes : \A fd : Parte(o, fd) \in Int
  BY FacturasAssumption, ImporteEntero DEF Parte
<1>2. ASSUME NEW fd PROVE ActivoInicial(fd) \in Int
  <2> DEFINE p == [o \in Ordenes |-> Parte(o, fd)]
  <2>1. IsFiniteSet(Ordenes) /\ DOMAIN p = Ordenes /\ \A o \in Ordenes : p[o] \in Int
    BY <1>1, FacturasAssumption
  <2>2. ActivoInicial(fd) = SumFunctionOnSet(p, DOMAIN p)
    BY DEF ActivoInicial, SumFunction
  <2> HIDE DEF p
  <2> QED BY <2>1, <2>2, SumaEntera
<1> QED BY <1>1, <1>2

\* The order of an invoice that exists takes an integer.
LEMMA ParteDeEntera ==
  ASSUME FilasInv
  PROVE  \A f \in Facturas : Existe(f) =>
           /\ factura[f] \in Factura /\ factura[f].orden \in Ordenes
           /\ \A fd : ParteDe(f, fd) \in Int
BY ParteEntera DEF FilasInv, FacturasBien, DeFactura, Factura, ParteDe

\* The same invoices are covered: the same is paid.
LEMMA PagadoMismo ==
  ASSUME Crece, \A f \in Facturas : Cubre(f)' <=> Cubre(f)
  PROVE  \A fd : Pagado(fd)' = Pagado(fd)
<1> SUFFICES ASSUME NEW fd PROVE Pagado(fd)' = Pagado(fd) OBVIOUS
<1>1. \A f \in Facturas : PagadoDe(f, fd)' = PagadoDe(f, fd)
  <2> SUFFICES ASSUME NEW f \in Facturas PROVE PagadoDe(f, fd)' = PagadoDe(f, fd) OBVIOUS
  <2>1. CASE Cubre(f)
    <3>1. factura'[f].orden = factura[f].orden BY <2>1 DEF Crece, Cubre
    <3> QED BY <2>1, <3>1 DEF PagadoDe, ParteDe
  <2>2. CASE ~Cubre(f) BY <2>2 DEF PagadoDe
  <2> QED BY <2>1, <2>2
<1>2. [f \in Facturas |-> PagadoDe(f, fd)'] = [f \in Facturas |-> PagadoDe(f, fd)] BY <1>1
<1> QED BY <1>2 DEF Pagado

\* The same cancellations were notified: the same is cancelled, also when an
\* invoice is new.
LEMMA CanceladoMismo ==
  ASSUME FilasInv, FilasInv', Crece,
         \A e \in Avisos : EsCompletado(e) /\ AccionDe(Doc(e)) = "CANCEL" =>
                             aviso'[e].recibido = aviso[e].recibido
  PROVE  \A fd : Cancelado(fd)' = Cancelado(fd)
<1> SUFFICES ASSUME NEW fd PROVE Cancelado(fd)' = Cancelado(fd) OBVIOUS
<1>1. ASSUME NEW f \in Facturas PROVE CanceladoDe(f, fd)' = CanceladoDe(f, fd)
  <2>1. Canceladas(f)' = Canceladas(f) BY DEF Canceladas
  <2>2. CASE Existe(f)
    <3>1. Existe(f)' /\ factura'[f].orden = factura[f].orden BY <2>2 DEF Crece
    <3> QED BY <2>1, <2>2, <3>1 DEF CanceladoDe, ParteDe
  <2>3. CASE ~Existe(f) /\ Existe(f)'
    <3>1. \A e \in Avisos : FacturaDe(Doc(e)) = f => ~aviso[e].recibido
      BY <2>3 DEF FilasInv, AvisosBien, AvisoBien
    <3>2. {e \in Avisos : /\ aviso[e].recibido /\ EsCompletado(e)
                          /\ FacturaDe(Doc(e)) = f /\ AccionDe(Doc(e)) = "CANCEL"} = {}
      BY <3>1
    <3>3. Canceladas(f) = 0 BY <3>2, FS_EmptySet DEF Canceladas
    <3>4. PICK p \in Int : p = ParteDe(f, fd)'
      <4>1. factura'[f].orden \in Ordenes
        BY <2>3 DEF FilasInv, FacturasBien, DeFactura, Factura
      <4> QED BY <4>1, ParteEntera DEF ParteDe
    <3>5. CanceladoDe(f, fd)' = 0 * p BY <2>1, <2>3, <3>3, <3>4 DEF CanceladoDe
    <3>6. CanceladoDe(f, fd) = 0 BY <2>3 DEF CanceladoDe
    <3> QED BY <3>5, <3>6
  <2>4. CASE ~Existe(f) /\ ~Existe(f)' BY <2>4 DEF CanceladoDe
  <2> QED BY <2>2, <2>3, <2>4
<1>2. [f \in Facturas |-> CanceladoDe(f, fd)'] = [f \in Facturas |-> CanceladoDe(f, fd)]
  BY <1>1
<1> QED BY <1>2 DEF Cancelado

\* An invoice is covered that was not.
LEMMA PagadoMas ==
  ASSUME FilasInv, FilasInv', Crece, NEW f \in Facturas, Existe(f), ~Cubre(f), Cubre(f)',
         \A g \in Facturas : g # f => (Cubre(g)' <=> Cubre(g)), NEW fd
  PROVE  Pagado(fd)' = Pagado(fd) + ParteDe(f, fd)
<1> DEFINE a == [g \in Facturas |-> PagadoDe(g, fd)]
           b == [g \in Facturas |-> PagadoDe(g, fd)']
<1>1. factura'[f].orden = factura[f].orden /\ ParteDe(f, fd)' = ParteDe(f, fd)
  BY DEF Crece, ParteDe
<1>2. \A g \in Facturas : a[g] \in Int BY ParteDeEntera DEF PagadoDe, Cubre
<1>3. a[f] = 0 /\ b[f] = ParteDe(f, fd) /\ ParteDe(f, fd) \in Int
  BY <1>1, ParteDeEntera DEF PagadoDe
<1>4. \A g \in Facturas \ {f} : b[g] = a[g]
  <2> SUFFICES ASSUME NEW g \in Facturas \ {f} PROVE PagadoDe(g, fd)' = PagadoDe(g, fd)
    OBVIOUS
  <2>1. CASE Cubre(g)
    <3>1. factura'[g].orden = factura[g].orden BY <2>1 DEF Crece, Cubre
    <3> QED BY <2>1, <3>1 DEF PagadoDe, ParteDe
  <2>2. CASE ~Cubre(g) BY <2>2 DEF PagadoDe
  <2> QED BY <2>1, <2>2
<1>5. Pagado(fd) = SumFunctionOnSet(a, Facturas) /\ Pagado(fd)' = SumFunctionOnSet(b, Facturas)
  BY DEF Pagado
<1> HIDE DEF a, b
<1>6. IsFiniteSet(Facturas) /\ \A g \in Facturas : a[g] \in Int /\ b[g] \in Int
  BY <1>2, <1>3, <1>4, FacturasAssumption
<1>7. Pagado(fd)' = Pagado(fd) + b[f] - a[f] BY <1>4, <1>5, <1>6, SumaCambio
<1>8. Pagado(fd) \in Int BY <1>5, <1>6, SumaEntera
<1> QED BY <1>3, <1>7, <1>8

\* Finitely many triples can be made of three finite sets.
LEMMA TriosFinitos ==
  ASSUME NEW A, NEW B, NEW C, IsFiniteSet(A), IsFiniteSet(B), IsFiniteSet(C)
  PROVE  IsFiniteSet(A \X B \X C)
<1> DEFINE P == (A \X B) \X C
           m == [p \in P |-> <<p[1][1], p[1][2], p[2]>>]
<1>1. IsFiniteSet(P) BY FS_Product
<1>2. m \in Surjection(P, A \X B \X C)
  <2>1. \A p \in P : m[p] \in A \X B \X C OBVIOUS
  <2>2. ASSUME NEW q \in A \X B \X C PROVE \E p \in P : m[p] = q
    <3>1. PICK a \in A, b \in B, c \in C : q = <<a, b, c>> OBVIOUS
    <3>2. <<<<a, b>>, c>> \in P /\ m[<<<<a, b>>, c>>] = <<a, b, c>> OBVIOUS
    <3> QED BY <3>1, <3>2
  <2>3. m \in [P -> A \X B \X C]
    <3>1. m = [p \in P |-> m[p]] OBVIOUS
    <3> HIDE DEF m, P
    <3> QED BY <2>1, <3>1
  <2> HIDE DEF m, P
  <2> QED BY <2>2, <2>3 DEF Surjection
<1> HIDE DEF m, P
<1> QED BY <1>1, <1>2, FS_Surjection

\* There are finitely many notifications.
LEMMA AvisosFinitos == IsFiniteSet(Avisos)
<1>1. IsFiniteSet(Facturas) /\ IsFiniteSet(1..MaxEnvios) /\ IsFiniteSet(1..MaxAvisos)
  BY FacturasAssumption, FS_Interval
<1>2. \A x, y : IsFiniteSet({x, y})
  <2> SUFFICES ASSUME NEW x, NEW y PROVE IsFiniteSet({x, y}) OBVIOUS
  <2>1. IsFiniteSet({x}) BY FS_Singleton
  <2>2. {x, y} = {x} \cup {y} OBVIOUS
  <2> QED BY <2>1, <2>2, FS_AddElement
<1>3. IsFiniteSet(Documentos)
  <2>1. IsFiniteSet(Acciones) BY <1>2 DEF Acciones
  <2> QED BY <1>1, <2>1, TriosFinitos DEF Documentos
<1>4. IsFiniteSet({"original", "completado"}) BY <1>2
<1> QED BY <1>1, <1>3, <1>4, TriosFinitos DEF Avisos

\* A cancellation of an invoice is notified.
LEMMA CanceladoMas ==
  ASSUME FilasInv, UNCHANGED factura, NEW c \in Avisos, ~aviso[c].recibido, aviso'[c].recibido,
         \A e \in Avisos \ {c} : aviso'[e].recibido = aviso[e].recibido, Existe(FacturaDe(Doc(c))),
         EsCompletado(c), AccionDe(Doc(c)) = "CANCEL", NEW fd
  PROVE  Cancelado(fd)' = Cancelado(fd) + ParteDe(FacturaDe(Doc(c)), fd)
<1> DEFINE f == FacturaDe(Doc(c))
           de(g) == {e \in Avisos : /\ aviso[e].recibido /\ EsCompletado(e)
                                    /\ FacturaDe(Doc(e)) = g /\ AccionDe(Doc(e)) = "CANCEL"}
           a == [g \in Facturas |-> CanceladoDe(g, fd)]
           b == [g \in Facturas |-> CanceladoDe(g, fd)']
<1>1. f \in Facturas BY DeDocumento
<1>2. \A g : Existe(g)' = Existe(g) /\ ParteDe(g, fd)' = ParteDe(g, fd)
  BY DEF Existe, ParteDe
<1>3. \A g \in Facturas : IsFiniteSet(de(g)) /\ Canceladas(g) = Cardinality(de(g)) /\ Canceladas(g) \in Nat
  <2>1. IsFiniteSet(Avisos) BY AvisosFinitos
  <2>2. ASSUME NEW g \in Facturas PROVE IsFiniteSet(de(g)) /\ Cardinality(de(g)) \in Nat
    <3>1. de(g) \subseteq Avisos OBVIOUS
    <3> HIDE DEF de
    <3> QED BY <2>1, <3>1, FS_Subset, FS_CardinalityType
  <2> QED BY <2>2 DEF Canceladas
<1>4. Canceladas(f)' = Canceladas(f) + 1
  <2>1. de(f)' = de(f) \cup {c} /\ c \notin de(f) OBVIOUS
  <2>2. Canceladas(f)' = Cardinality(de(f)') BY DEF Canceladas
  <2>3. IsFiniteSet(de(f)) /\ Canceladas(f) = Cardinality(de(f)) BY <1>1, <1>3
  <2> HIDE DEF de, f
  <2> QED BY <2>1, <2>2, <2>3, FS_AddElement
<1>5. \A g \in Facturas \ {f} : Canceladas(g)' = Canceladas(g)
  <2> SUFFICES ASSUME NEW g \in Facturas \ {f} PROVE Canceladas(g)' = Canceladas(g)
    OBVIOUS
  <2>1. de(g)' = de(g) OBVIOUS
  <2> QED BY <2>1 DEF Canceladas
<1>6. \A g \in Facturas \ {f} : b[g] = a[g] BY <1>2, <1>5 DEF CanceladoDe
<1>7. PICK p \in Int, n \in Nat : p = ParteDe(f, fd) /\ n = Canceladas(f)
  BY <1>1, <1>3, ParteDeEntera
<1>8. a[f] = n * p /\ b[f] = (n + 1) * p BY <1>1, <1>2, <1>4, <1>7 DEF CanceladoDe
<1>9. \A g \in Facturas : a[g] \in Int
  <2> SUFFICES ASSUME NEW g \in Facturas, Existe(g) PROVE Canceladas(g) * ParteDe(g, fd) \in Int
    BY DEF CanceladoDe
  <2>1. PICK q \in Int, m \in Nat : q = ParteDe(g, fd) /\ m = Canceladas(g)
    BY <1>3, ParteDeEntera
  <2> QED BY <2>1
<1>10. Cancelado(fd) = SumFunctionOnSet(a, Facturas) /\ Cancelado(fd)' = SumFunctionOnSet(b, Facturas)
  BY DEF Cancelado
<1> HIDE DEF a, b
<1>11. b[f] \in Int /\ a[f] \in Int /\ b[f] - a[f] = p BY <1>7, <1>8
<1>12. IsFiniteSet(Facturas) /\ \A g \in Facturas : a[g] \in Int /\ b[g] \in Int
  BY <1>6, <1>9, <1>11, FacturasAssumption
<1>13. Cancelado(fd)' = Cancelado(fd) + b[f] - a[f]
  BY <1>1, <1>6, <1>10, <1>12, SumaCambio
<1>14. Cancelado(fd) \in Int BY <1>10, <1>12, SumaEntera
<1> QED BY <1>7, <1>11, <1>13, <1>14

----
(* What the paid invoices of a file owe. *)

\* It is the same while the invoices keep their orders.
LEMMA AdeudoMismo ==
  ASSUME NEW fs, \A i \in DOMAIN fs : factura'[fs[i]].orden = factura[fs[i]].orden
  PROVE  \A fd : Adeudo(fs, fd)' = Adeudo(fs, fd)
<1> SUFFICES ASSUME NEW fd PROVE Adeudo(fs, fd)' = Adeudo(fs, fd) OBVIOUS
<1>1. [i \in DOMAIN fs |-> ParteDe(fs[i], fd)'] = [i \in DOMAIN fs |-> ParteDe(fs[i], fd)]
  BY DEF ParteDe
<1> QED BY <1>1 DEF Adeudo

\* Nothing owes nothing.
LEMMA AdeudoNulo == \A fd : Adeudo(<<>>, fd) = 0
<1> SUFFICES ASSUME NEW fd PROVE Adeudo(<<>>, fd) = 0 OBVIOUS
<1>1. DOMAIN <<>> = {} OBVIOUS
<1> QED BY <1>1, SumaVacia DEF Adeudo

\* Covered invoices owe an integer.
LEMMA AdeudoEntero ==
  ASSUME FilasInv, NEW fs \in Seq(Facturas), Cubiertas(fs), NEW fd
  PROVE  /\ IsFiniteSet(DOMAIN fs) /\ \A i \in DOMAIN fs : ParteDe(fs[i], fd) \in Int
         /\ Adeudo(fs, fd) \in Int
<1>1. IsFiniteSet(DOMAIN fs)
  <2>1. Len(fs) \in Int /\ DOMAIN fs = 1..Len(fs) OBVIOUS
  <2> QED BY <2>1, FS_Interval
<1>2. \A i \in DOMAIN fs : ParteDe(fs[i], fd) \in Int
  BY ParteDeEntera DEF Cubiertas, Cubre
<1> DEFINE m == [i \in DOMAIN fs |-> ParteDe(fs[i], fd)]
<1>3. \A i \in DOMAIN fs : m[i] \in Int BY <1>2
<1>4. Adeudo(fs, fd) = SumFunctionOnSet(m, DOMAIN fs) BY DEF Adeudo
<1> HIDE DEF m
<1> QED BY <1>1, <1>2, <1>3, <1>4, SumaEntera

\* One more invoice owes its part.
LEMMA AdeudoDeMas ==
  ASSUME FilasInv, NEW fs \in Seq(Facturas), Cubiertas(fs), NEW f \in Facturas, Cubre(f), NEW fd
  PROVE  Adeudo(Append(fs, f), fd) = Adeudo(fs, fd) + ParteDe(f, fd)
<1>1. PICK n \in Nat : n = Len(fs) OBVIOUS
<1> DEFINE gs == Append(fs, f)
<1>2. /\ DOMAIN gs = 1..(n + 1) /\ DOMAIN fs = 1..n /\ gs[n + 1] = f
      /\ \A i \in 1..n : gs[i] = fs[i]
  BY <1>1
<1> HIDE DEF gs
<1> DEFINE a == [i \in DOMAIN fs |-> ParteDe(fs[i], fd)]
           b == [i \in DOMAIN gs |-> ParteDe(gs[i], fd)]
<1>3. b[n + 1] = ParteDe(f, fd) /\ \A i \in 1..n : b[i] = a[i] BY <1>1, <1>2
<1>4. IsFiniteSet(1..n) /\ n + 1 \notin 1..n /\ 1..(n + 1) = (1..n) \cup {n + 1}
  <2>1. 1 \in Int /\ n \in Int OBVIOUS
  <2>2. IsFiniteSet(1..n) BY <2>1, FS_Interval
  <2> QED BY <2>2
<1>5. ParteDe(f, fd) \in Int /\ \A i \in 1..n : a[i] \in Int
  BY <1>2, AdeudoEntero, ParteDeEntera DEF Cubre
<1>6. Adeudo(fs, fd) = SumFunctionOnSet(a, 1..n) /\ Adeudo(gs, fd) = SumFunctionOnSet(b, 1..(n + 1))
  BY <1>2 DEF Adeudo
<1> HIDE DEF a, b
<1>7. SumFunctionOnSet(b, (1..n) \cup {n + 1}) = SumFunctionOnSet(a, 1..n) + b[n + 1]
  <2> DEFINE I == 1..n
             k == n + 1
  <2>1. /\ b[k] \in Int /\ \A i \in I : a[i] = b[i] /\ b[i] \in Int
        /\ IsFiniteSet(I) /\ k \notin I
    BY <1>3, <1>4, <1>5
  <2> HIDE DEF I, k
  <2>2. SumFunctionOnSet(b, I \cup {k}) = SumFunctionOnSet(a, I) + b[k] BY <2>1, SumaDeMas
  <2> QED BY <2>2 DEF I, k
<1> QED BY <1>3, <1>4, <1>6, <1>7 DEF gs

\* The first invoice and the rest.
LEMMA AdeudoDeCola ==
  ASSUME FilasInv, NEW fs \in Seq(Facturas), fs # <<>>, Cubiertas(fs), NEW fd
  PROVE  /\ Cubre(Head(fs)) /\ Tail(fs) \in Seq(Facturas) /\ Cubiertas(Tail(fs))
         /\ Adeudo(fs, fd) = ParteDe(Head(fs), fd) + Adeudo(Tail(fs), fd)
<1>1. PICK n \in Nat : n = Len(fs) /\ n # 0 OBVIOUS
<1> DEFINE gs == Tail(fs)
<1>2. /\ DOMAIN gs = 1..(n - 1) /\ DOMAIN fs = 1..n /\ Head(fs) = fs[1] /\ gs \in Seq(Facturas)
      /\ \A i \in 1..(n - 1) : gs[i] = fs[i + 1]
  BY <1>1
<1> HIDE DEF gs
<1>3. Cubre(Head(fs)) /\ Cubiertas(gs)
  <2>1. \A i \in 1..(n - 1) : i + 1 \in 1..n BY <1>1
  <2>2. 1 \in 1..n BY <1>1
  <2> QED BY <1>2, <2>1, <2>2 DEF Cubiertas
<1> DEFINE a == [i \in DOMAIN fs |-> ParteDe(fs[i], fd)]
           b == [i \in DOMAIN gs |-> ParteDe(gs[i], fd)]
           s == [i \in 1..(n - 1) |-> i + 1]
<1>4. IsFiniteSet(1..n) /\ IsFiniteSet(1..(n - 1)) /\ 1 \in 1..n /\ \A i \in 1..n : a[i] \in Int
  <2>1. 1 \in Int /\ n \in Int /\ n - 1 \in Int /\ 1 \in 1..n BY <1>1
  <2>2. IsFiniteSet(1..n) /\ IsFiniteSet(1..(n - 1)) BY <2>1, FS_Interval
  <2>3. \A i \in 1..n : a[i] \in Int BY <1>2, AdeudoEntero
  <2> QED BY <2>1, <2>2, <2>3
<1>5. /\ \A i \in 1..(n - 1) : b[i] = a[s[i]] /\ b[i] \in Int
      /\ \A i, j \in 1..(n - 1) : s[i] = s[j] => i = j
      /\ {s[i] : i \in 1..(n - 1)} = (1..n) \ {1}
  <2>1. \A i \in 1..(n - 1) : s[i] = i + 1 /\ s[i] \in 1..n /\ b[i] = a[s[i]]
    BY <1>1, <1>2
  <2>2. \A i \in 1..(n - 1) : b[i] \in Int BY <1>4, <2>1
  <2>3. \A j \in (1..n) \ {1} : j - 1 \in 1..(n - 1) /\ s[j - 1] = j BY <1>1
  <2>4. \A i \in 1..(n - 1) : s[i] # 1 BY <1>1, <2>1
  <2> HIDE DEF a, b, s
  <2>5. \A i, j \in 1..(n - 1) : s[i] = s[j] => i = j BY <2>1
  <2> QED BY <2>1, <2>2, <2>3, <2>4, <2>5
<1>6. a[1] = ParteDe(Head(fs), fd) BY <1>2, <1>4
<1>7. Adeudo(fs, fd) = SumFunctionOnSet(a, 1..n) /\ Adeudo(gs, fd) = SumFunctionOnSet(b, 1..(n - 1))
  BY <1>2 DEF Adeudo
<1> HIDE DEF a, b, s
<1>8. SumFunctionOnSet(b, 1..(n - 1)) = SumFunctionOnSet(a, (1..n) \ {1})
  <2>1. SumFunctionOnSet(b, 1..(n - 1)) = SumFunctionOnSet(a, {s[i] : i \in 1..(n - 1)})
    <3> DEFINE I == 1..(n - 1)
    <3>1. /\ IsFiniteSet(I) /\ \A i, j \in I : s[i] = s[j] => i = j
          /\ \A i \in I : b[i] = a[s[i]] /\ b[i] \in Int
      BY <1>4, <1>5
    <3> HIDE DEF I
    <3>2. SumFunctionOnSet(b, I) = SumFunctionOnSet(a, {s[i] : i \in I})
      BY <3>1, SumaReindexada
    <3> QED BY <3>2 DEF I
  <2> QED BY <1>5, <2>1
<1>9. SumFunctionOnSet(a, 1..n) = a[1] + SumFunctionOnSet(a, (1..n) \ {1})
  BY <1>4, SumaDeUno
<1> QED BY <1>2, <1>3, <1>6, <1>7, <1>8, <1>9 DEF gs

----
(* Steps of requests. *)

\* Where no invoice changes and no notification arrives, nothing of this moves.
LEMMA FacturasMismas ==
  ASSUME FilasInv, FilasInv', UNCHANGED factura,
         \A e \in Avisos : aviso'[e].recibido = aviso[e].recibido
  PROVE  /\ \A fd : Pagado(fd)' = Pagado(fd) /\ Cancelado(fd)' = Cancelado(fd)
         /\ \A fs, fd : Adeudo(fs, fd)' = Adeudo(fs, fd)
<1>1. Crece BY MismaCrece
<1>2. \A f \in Facturas : Cubre(f)' <=> Cubre(f) BY DEF Cubre, Existe, Cubierta
<1> QED BY <1>1, <1>2, PagadoMismo, CanceladoMismo, AdeudoMismo

\* While a request is served, or nothing is, no activation is at work.
LEMMA LibroReposo ==
  ASSUME EnTurno, LibroEnTurno, \/ Quieto \/ \E h \in Hilos : peticion[h].en # "libre"
  PROVE  \A t \in Tareas : paso[t] = "libre"
<1>1. \A h \in Hilos : cobro[h].en = "no" BY DEF Quieto, EnTurno, Turnos, Activo
<1>2. \A e \in Avisos : ~EnCurso(e) BY DEF Quieto, EnTurno, Turnos, Activo
<1>3. \A h \in Hilos : paso[h] = "libre" BY <1>1 DEF LibroEnTurno
<1>4. \A e \in Avisos : paso[e] = "libre" BY <1>2 DEF LibroEnTurno, EnCurso
<1> QED BY <1>3, <1>4, FacturasAssumption

\* A file that is not over, or that has not come, has the debt of its request.
LEMMA CuentasAntes ==
  ASSUME LibroBien, NEW h \in Hilos, Quieto \/ Activo(h)
  PROVE  CuentasDeHilo(h)
<1>1. CASE Activo(h) BY <1>1 DEF LibroBien
<1>2. CASE Quieto
  <2>1. \A fd : DebeHilo(h, fd) = 0 BY <1>2 DEF Quieto, DebeHilo
  <2> QED BY <1>2, <2>1 DEF LibroBien, CuentasClaras, CuentasDeHilo
<1> QED BY <1>1, <1>2

\* A step of a request, or of the handler of its file, only has to see to its
\* own debt.
LEMMA LibroDeHilo ==
  ASSUME EnTurno, NEW h \in Hilos, Quieto \/ Activo(h), UNCHANGED aviso,
         \A g \in Hilos \ {h} : peticion'[g] = peticion[g] /\ cobro'[g] = cobro[g],
         TypeOK', LibroEnTurno', CuentasDeHilo(h)'
  PROVE  LibroAlDia'
<1>1. /\ \A g \in Hilos \ {h} : ~Activo(g)'
      /\ \A e \in Avisos : ~EnCurso(e)'
  BY DEF EnTurno, Turnos, Activo, Quieto, EnCurso
<1>2. Quieto' => CuentasClaras'
  <2> SUFFICES ASSUME Quieto' PROVE CuentasClaras' OBVIOUS
  <2>1. \A fd : DebeHilo(h, fd)' = 0 BY DEF Quieto, DebeHilo
  <2> QED BY <2>1 DEF CuentasClaras, CuentasDeHilo
<1> QED BY <1>1, <1>2 DEF LibroAlDia, LibroBien

\* The books balance again when the debt grows with what is paid.
LEMMA CuentasSiguen ==
  ASSUME NEW fd \in Fondos, NEW x, NEW y, Cuentas(fd, x, y), UNCHANGED fondo,
         NEW p \in Int, NEW c \in Int,
         Pagado(fd)' = Pagado(fd) + p, Cancelado(fd)' = Cancelado(fd) + c
  PROVE  Cuentas(fd, x + p, y + c)'
BY ParteEntera DEF Cuentas

\* A step of a request makes its debt grow by what it covers.
LEMMA LibroDePeticion ==
  ASSUME EnTurno, LibroAlDia, NEW h \in Hilos, Quieto \/ peticion[h].en # "libre",
         UNCHANGED <<varsLibro, aviso>>, inicios' \in Nat,
         \A g \in Hilos \ {h} : peticion'[g] = peticion[g] /\ cobro'[g] = cobro[g],
         \A fd \in Fondos : \E p \in Int : /\ Pagado(fd)' = Pagado(fd) + p
                                           /\ Cancelado(fd)' = Cancelado(fd)
                                           /\ DebeHilo(h, fd)' = DebeHilo(h, fd) + p
  PROVE  LibroAlDia'
<1>1. Quieto \/ Activo(h) BY DEF Activo
<1>2. \A t \in Tareas : paso[t] = "libre" BY LibroReposo DEF LibroAlDia
<1>3. UNCHANGED <<fondo, contrato, paso, llamada, visto>> BY DEF varsLibro
<1>4. TypeOK' BY <1>3 DEF TypeOK, LibroAlDia
<1>5. LibroEnTurno'
  <2>1. \A t \in Tareas : paso'[t] = "libre" BY <1>2, <1>3
  <2>2. \A t \in Tareas : LeidoAlDia(t)' BY <2>1 DEF LeidoAlDia
  <2> QED BY <2>1, <2>2, FacturasAssumption DEF LibroAlDia, LibroEnTurno
<1>6. CuentasDeHilo(h)'
  <2> SUFFICES ASSUME NEW fd \in Fondos PROVE Cuentas(fd, DebeHilo(h, fd), 0)'
    BY DEF CuentasDeHilo
  <2>1. PICK x \in Int : x = DebeHilo(h, fd) /\ Cuentas(fd, x, 0)
    BY <1>1, CuentasAntes DEF LibroAlDia, CuentasDeHilo, Cuentas
  <2>2. PICK p \in Int : /\ Pagado(fd)' = Pagado(fd) + p
                         /\ Cancelado(fd)' = Cancelado(fd)
                         /\ DebeHilo(h, fd)' = DebeHilo(h, fd) + p
    OBVIOUS
  <2>3. Cancelado(fd)' = Cancelado(fd) + 0 BY <2>1, <2>2 DEF Cuentas
  <2>4. Cuentas(fd, x + p, 0 + 0)' BY <1>3, <2>1, <2>2, <2>3, CuentasSiguen
  <2>5. DebeHilo(h, fd)' = x + p /\ 0 + 0 = 0 BY <2>1, <2>2
  <2> QED BY <2>4, <2>5
<1> QED BY <1>1, <1>4, <1>5, <1>6, LibroDeHilo

\* Most steps cover nothing.
LEMMA LibroSinPago ==
  ASSUME EnTurno, LibroAlDia, NEW h \in Hilos, Quieto \/ peticion[h].en # "libre",
         UNCHANGED <<varsLibro, aviso>>, inicios' \in Nat,
         \A g \in Hilos \ {h} : peticion'[g] = peticion[g] /\ cobro'[g] = cobro[g],
         \A fd \in Fondos : /\ Pagado(fd)' = Pagado(fd) /\ Cancelado(fd)' = Cancelado(fd)
                            /\ DebeHilo(h, fd)' = DebeHilo(h, fd)
  PROVE  LibroAlDia'
<1>1. \A fd \in Fondos : Pagado(fd) \in Int /\ DebeHilo(h, fd) \in Int
  BY CuentasAntes DEF Activo, LibroAlDia, CuentasDeHilo, Cuentas
<1>2. \A fd \in Fondos : /\ Pagado(fd)' = Pagado(fd) + 0 /\ Cancelado(fd)' = Cancelado(fd)
                         /\ DebeHilo(h, fd)' = DebeHilo(h, fd) + 0
  BY <1>1
<1>3. 0 \in Int OBVIOUS
<1> QED BY <1>2, <1>3, LibroDePeticion

\* A request arrives: it owes nothing.
LEMMA LibroPedir ==
  ASSUME FilasInv, FilasInv', EnTurno, LibroAlDia, incidentes' = 0, NEW h \in Hilos, NEW q \in Peticion,
         Pedir(h, q), q.en \in {"orden", "firmantes", "leer", "renglon"}, q.pagadas = <<>>
  PROVE  LibroAlDia'
<1>1. Quieto /\ inicios' \in Nat BY DEF Pedir, Llegar, FilasInv, Tipos, LibroAlDia, TypeOK
<1>2. /\ peticion'[h] = q /\ \A g \in Hilos \ {h} : peticion'[g] = peticion[g]
      /\ UNCHANGED <<varsLibro, factura, aviso, cobro>> /\ cobro'[h].en = "no"
      /\ cobro[h].en = "no" /\ peticion[h].en = "libre"
  BY DEF Pedir, FilasInv, Tipos
<1>3. \A fd : DebeHilo(h, fd) = 0 /\ DebeHilo(h, fd)' = 0
  <2>1. \A fd : Adeudo(<<>>, fd)' = 0 BY <1>2, FacturasMismas, AdeudoNulo
  <2> QED BY <1>2, <2>1 DEF DebeHilo
<1>4. \A fd : Pagado(fd)' = Pagado(fd) /\ Cancelado(fd)' = Cancelado(fd)
  BY <1>2, FacturasMismas
<1> QED BY <1>1, <1>2, <1>3, <1>4, LibroSinPago

\* A request that holds no payments goes on, or ends.
LEMMA LibroFirma ==
  ASSUME FilasInv, FilasInv', EnTurno, LibroAlDia, NEW h \in Hilos,
         \/ LeerOrden(h) \/ LeerFirmantes(h) \/ GuardarDocumento(h) \/ EnviarAlCotejar(h)
         \/ LeerFactura(h) \/ Comparar(h)
  PROVE  LibroAlDia'
<1>1. /\ Tipos /\ UNCHANGED <<varsLibro, factura, aviso, cobro>> /\ inicios' \in Nat
      /\ peticion[h].en \in {"orden", "firmantes", "documento", "ticket", "leer", "guardar"}
  BY DEF FilasInv, LeerOrden, LeerFirmantes, GuardarDocumento, EnviarAlCotejar, LeerFactura,
         Comparar, vars, varsLibro, LibroAlDia, TypeOK
<1>2. /\ \A g \in Hilos \ {h} : peticion'[g] = peticion[g]
      /\ peticion'[h].en \in {"libre", "guardarNueva", "documento", "ticket", "leer", "guardar", "escribir"}
  <2>1. CASE Responder(h) BY <1>1, <2>1, ResponderHace, PeticionVacia
  <2>2. ASSUME NEW en \in {"guardarNueva", "documento", "ticket", "leer"}, Seguir(h, en)
        PROVE  /\ \A g \in Hilos \ {h} : peticion'[g] = peticion[g]
               /\ peticion'[h].en = en
    <3>1. en \in Consultas BY DEF Consultas
    <3> QED BY <1>1, <2>2, <3>1, SeguirHace
  <2>3. CASE LeerFactura(h)
    <3>1. PICK q \in Peticion : q = peticion[h] BY <1>1 DEF Tipos
    <3> DEFINE r == [q EXCEPT !.en = "guardar", !.fila = factura[q.factura]]
    <3>2. r.en = "guardar" BY DEF Peticion
    <3>3. peticion' = [peticion EXCEPT ![h] = r]
      BY <1>1, <2>3, <3>1 DEF LeerFactura, SeguirCon, Tipos
    <3> HIDE DEF r
    <3> QED BY <1>1, <3>2, <3>3 DEF Tipos
  <2>4. CASE Comparar(h) BY <1>1, <2>4, CompararHace
  <2> QED BY <2>1, <2>2, <2>3, <2>4 DEF LeerOrden, LeerFirmantes, GuardarDocumento, EnviarAlCotejar
<1>3. cobro[h].en = "no" /\ cobro'[h].en = "no" /\ \A g \in Hilos : cobro'[g] = cobro[g]
  BY <1>1 DEF EnTurno, Turnos
<1>4. \A fd : DebeHilo(h, fd) = 0 /\ DebeHilo(h, fd)' = 0 BY <1>1, <1>2, <1>3 DEF DebeHilo
<1>5. \A fd : Pagado(fd)' = Pagado(fd) /\ Cancelado(fd)' = Cancelado(fd)
  BY <1>1, FacturasMismas
<1> QED BY <1>1, <1>2, <1>3, <1>4, <1>5, LibroSinPago

\* A write of a row that exists with the payments that it had.
LEMMA PagosMismos ==
  ASSUME FilasInv, NEW f \in Facturas, Existe(f), NEW fila \in Factura,
         factura' = [factura EXCEPT ![f] = fila], fila.pagos = factura[f].pagos,
         fila.total = factura[f].total, fila.orden = factura[f].orden,
         \A e \in Avisos : aviso'[e].recibido = aviso[e].recibido
  PROVE  Crece /\ \A g \in Facturas : Cubre(g)' <=> Cubre(g)
<1>1. factura'[f] = fila /\ \A g \in Facturas : g # f => factura'[g] = factura[g]
  BY DEF FilasInv, Tipos
<1>2. Existe(f)' /\ \A g \in Facturas : g # f => (Existe(g)' <=> Existe(g))
  BY <1>1, NoExiste DEF Existe
<1>3. Crece BY <1>1, <1>2 DEF Crece
<1>4. Cubierta(factura[f])' <=> Cubierta(factura[f]) BY <1>1 DEF Cubierta
<1>5. \A g \in Facturas : g # f => (Cubre(g)' <=> Cubre(g))
  BY <1>1, <1>2 DEF Cubre, Cubierta
<1> QED BY <1>2, <1>3, <1>4, <1>5 DEF Cubre

\* A request saves the row that it read.
LEMMA LibroGuardar ==
  ASSUME FilasInv, FilasInv', EnTurno, LibroAlDia, NEW h \in Hilos, Guardar(h)
  PROVE  LibroAlDia'
<1>1. Tipos /\ PeticionBien(h) /\ HiloAlDia(h) BY DEF FilasInv, PeticionesBien, EnTurno
<1>2. PICK f \in Facturas, r \in Factura :
        /\ f = peticion[h].factura /\ Existe(f) /\ r.pagos = factura[f].pagos
        /\ r.total = factura[f].total /\ r.orden = factura[f].orden
        /\ factura' = [factura EXCEPT ![f] = r]
  <2>1. peticion[h].fila.pagos = factura[peticion[h].factura].pagos
    BY <1>1 DEF Guardar, HiloAlDia
  <2> QED BY <2>1, GuardarHace DEF DeFactura
<1>3. /\ Responder(h) \/ Seguir(h, "firmantes")
      /\ UNCHANGED <<varsLibro, aviso, cobro>> /\ peticion[h].en = "escribir" /\ inicios' \in Nat
  BY DEF Guardar, vars, varsLibro, LibroAlDia, TypeOK
<1>5. Crece /\ \A g \in Facturas : Cubre(g)' <=> Cubre(g) BY <1>2, <1>3, PagosMismos
<1>6. \A fd : Pagado(fd)' = Pagado(fd) /\ Cancelado(fd)' = Cancelado(fd)
  BY <1>3, <1>5, PagadoMismo, CanceladoMismo
<1>7. /\ \A g \in Hilos \ {h} : peticion'[g] = peticion[g]
      /\ peticion'[h].en \in {"libre", "firmantes"}
  BY <1>1, <1>3, ResponderHace, PeticionVacia, SeguirHace DEF Consultas
<1>8. cobro[h].en = "no" /\ cobro'[h].en = "no" /\ \A g \in Hilos : cobro'[g] = cobro[g]
  BY <1>3 DEF EnTurno, Turnos
<1>9. \A fd : DebeHilo(h, fd) = 0 /\ DebeHilo(h, fd)' = 0 BY <1>3, <1>7, <1>8 DEF DebeHilo
<1> QED BY <1>3, <1>6, <1>7, <1>8, <1>9, LibroSinPago

\* With no payments an invoice for something is not covered.
LEMMA SinPagosNoCubre ==
  ASSUME 0 \notin Totales, NEW fila \in Factura, fila.pagos = <<>>
  PROVE  ~Cubierta(fila)
<1>1. fila.total \in Nat \ {0} BY FacturasAssumption DEF Factura
<1>2. SumaPagos(fila.pagos) = 0
  <2> DEFINE m == [i \in DOMAIN <<>> |-> (<<>>)[i].monto]
  <2>1. DOMAIN m = {} OBVIOUS
  <2>2. SumaPagos(<<>>) = SumFunctionOnSet(m, DOMAIN m) BY DEF SumaPagos, SumFunction
  <2> HIDE DEF m
  <2> QED BY <2>1, <2>2, SumaVacia
<1> QED BY <1>1, <1>2 DEF Cubierta

\* A new invoice has no payments: it is not covered.
LEMMA LibroGuardarNueva ==
  ASSUME 0 \notin Totales,
         FilasInv, FilasInv', EnTurno, LibroAlDia, NEW h \in Hilos, GuardarNueva(h)
  PROVE  LibroAlDia'
<1>1. Tipos /\ PeticionBien(h) BY DEF FilasInv, PeticionesBien
<1>2. PICK f \in Facturas, fila \in Factura :
        /\ f = peticion[h].factura /\ fila = peticion[h].fila /\ ~Existe(f) /\ fila.pagos = <<>>
  BY <1>1 DEF GuardarNueva, PeticionBien
<1>3. /\ factura' = [factura EXCEPT ![f] = fila] /\ Responder(h)
      /\ UNCHANGED <<varsLibro, aviso, cobro>> /\ peticion[h].en = "guardarNueva" /\ inicios' \in Nat
  BY <1>2 DEF GuardarNueva, vars, varsLibro, LibroAlDia, TypeOK
<1>4. factura'[f] = fila /\ \A g \in Facturas : g # f => factura'[g] = factura[g]
  BY <1>1, <1>3 DEF Tipos
<1>5. Crece BY <1>2, <1>3, <1>4 DEF Crece, Existe
<1>6. \A g \in Facturas : Cubre(g)' <=> Cubre(g)
  <2>1. ~Cubierta(fila) BY <1>2, SinPagosNoCubre
  <2>2. ~Cubre(f)' /\ ~Cubre(f) BY <1>2, <1>4, <2>1 DEF Cubre, Cubierta
  <2>3. \A g \in Facturas : g # f => (Cubre(g)' <=> Cubre(g))
    BY <1>4 DEF Cubre, Existe, Cubierta
  <2> QED BY <2>2, <2>3
<1>7. \A fd : Pagado(fd)' = Pagado(fd) /\ Cancelado(fd)' = Cancelado(fd)
  BY <1>3, <1>5, <1>6, PagadoMismo, CanceladoMismo
<1>8. /\ \A g \in Hilos \ {h} : peticion'[g] = peticion[g]
      /\ peticion'[h].en = "libre"
  BY <1>1, <1>3, ResponderHace, PeticionVacia
<1>9. cobro[h].en = "no" /\ cobro'[h].en = "no" /\ \A g \in Hilos : cobro'[g] = cobro[g]
  BY <1>3 DEF EnTurno, Turnos
<1>10. \A fd : DebeHilo(h, fd) = 0 /\ DebeHilo(h, fd)' = 0
  BY <1>3, <1>8, <1>9 DEF DebeHilo
<1> QED BY <1>3, <1>7, <1>8, <1>9, <1>10, LibroSinPago

----
(* Steps of the payments file. *)

\* On to the next row, or to the handler of the invoices that were paid: they
\* owe the same in both.
LEMMA LibroSiguienteRenglon ==
  ASSUME FilasInv, FilasInv', EnTurno, LibroAlDia, NEW h \in Hilos,
         peticion[h].en \in {"renglon", "ordenes"}, UNCHANGED <<varsLibro, factura, aviso>>,
         inicios' \in Nat, NEW pagadas \in Seq(Facturas), SiguienteRenglon(h, pagadas),
         \A fd \in Fondos : DebeHilo(h, fd) = Adeudo(pagadas, fd)
  PROVE  LibroAlDia'
<1>1. Tipos /\ cobro[h].en = "no" BY DEF FilasInv, EnTurno, Turnos
<1>2. PICK resto : resto = Tail(peticion[h].renglones) OBVIOUS
<1>3. \A fd : Adeudo(pagadas, fd)' = Adeudo(pagadas, fd) BY FacturasMismas
<1>4. \A fd : Pagado(fd)' = Pagado(fd) /\ Cancelado(fd)' = Cancelado(fd) BY FacturasMismas
<1>5. CASE resto # <<>>
  <2>1. PICK q \in Peticion : q = peticion[h] BY <1>1 DEF Tipos
  <2> DEFINE r == [q EXCEPT !.en = "renglon", !.renglones = resto, !.pagadas = pagadas]
  <2>2. r.en = "renglon" /\ r.pagadas = pagadas BY DEF Peticion
  <2>3. peticion' = [peticion EXCEPT ![h] = r] /\ UNCHANGED cobro
    BY <1>1, <1>2, <1>5, <2>1 DEF SiguienteRenglon, Tipos
  <2> HIDE DEF r
  <2>4. peticion'[h] = r /\ \A g \in Hilos \ {h} : peticion'[g] = peticion[g] /\ cobro'[g] = cobro[g]
    BY <1>1, <2>3 DEF Tipos
  <2>5. \A fd \in Fondos : DebeHilo(h, fd)' = DebeHilo(h, fd)
    BY <1>3, <2>2, <2>4 DEF DebeHilo
  <2> QED BY <1>4, <2>4, <2>5, LibroSinPago
<1>6. CASE resto = <<>>
  <2>1. /\ Responder(h)
        /\ cobro' = IF pagadas = <<>> THEN cobro
                    ELSE [cobro EXCEPT ![h] = [facturas |-> pagadas, en |-> "leer"]]
    BY <1>2, <1>6 DEF SiguienteRenglon
  <2>2. /\ peticion'[h].en = "libre" /\ \A g \in Hilos \ {h} : peticion'[g] = peticion[g]
    BY <1>1, <2>1, ResponderHace, PeticionVacia
  <2>3. /\ \A g \in Hilos \ {h} : cobro'[g] = cobro[g]
        /\ \/ pagadas = <<>> /\ cobro'[h].en = "no"
           \/ cobro'[h].en = "leer" /\ cobro'[h].facturas = pagadas
    BY <1>1, <2>1 DEF Tipos
  <2>4. \A fd \in Fondos : DebeHilo(h, fd)' = DebeHilo(h, fd)
    BY <1>3, <2>2, <2>3, AdeudoNulo DEF DebeHilo
  <2> QED BY <1>4, <2>2, <2>3, <2>4, LibroSinPago
<1> QED BY <1>5, <1>6

\* A row of the file is read.
LEMMA LibroLeerRenglon ==
  ASSUME FilasInv, FilasInv', EnTurno, LibroAlDia, NEW h \in Hilos, LeerRenglon(h)
  PROVE  LibroAlDia'
<1>1. Tipos BY DEF FilasInv
<1>2. /\ peticion[h].en = "renglon" /\ UNCHANGED <<varsLibro, factura, aviso>> /\ inicios' \in Nat
  BY DEF LeerRenglon, vars, varsLibro, LibroAlDia, TypeOK
<1>3. PICK pagadas \in Seq(Facturas) : pagadas = peticion[h].pagadas
  BY <1>1 DEF Tipos, Peticion
<1>4. \A fd : DebeHilo(h, fd) = Adeudo(pagadas, fd) BY <1>2, <1>3 DEF DebeHilo
<1>5. CASE SiguienteRenglon(h, pagadas) BY <1>2, <1>4, <1>5, LibroSiguienteRenglon
<1>6. ASSUME NEW f \in Facturas, NEW nueva, UNCHANGED cobro,
             peticion' = [peticion EXCEPT ![h].en = "pago", ![h].factura = f, ![h].fila = nueva]
      PROVE  LibroAlDia'
  <2>1. PICK q \in Peticion : q = peticion[h] BY <1>1 DEF Tipos
  <2> DEFINE p == [q EXCEPT !.en = "pago", !.factura = f, !.fila = nueva]
  <2>2. p.en = "pago" /\ p.pagadas = q.pagadas BY DEF Peticion
  <2>3. peticion' = [peticion EXCEPT ![h] = p] BY <1>1, <1>6, <2>1 DEF Tipos
  <2> HIDE DEF p
  <2>4. peticion'[h] = p /\ \A g \in Hilos \ {h} : peticion'[g] = peticion[g] /\ cobro'[g] = cobro[g]
    BY <1>1, <1>6, <2>3 DEF Tipos
  <2>5. \A fd : Adeudo(pagadas, fd)' = Adeudo(pagadas, fd) BY <1>2, FacturasMismas
  <2>6. \A fd : DebeHilo(h, fd)' = DebeHilo(h, fd)
    BY <1>3, <1>4, <2>1, <2>2, <2>4, <2>5 DEF DebeHilo
  <2>7. \A fd : Pagado(fd)' = Pagado(fd) /\ Cancelado(fd)' = Cancelado(fd)
    BY <1>2, FacturasMismas
  <2> QED BY <1>2, <2>4, <2>6, <2>7, LibroSinPago
<1> QED BY <1>3, <1>5, <1>6 DEF LeerRenglon

\* The payment is written: when it covers the invoice, its order is owed.
LEMMA LibroEscribirPago ==
  ASSUME FilasInv, FilasInv', EnTurno, LibroAlDia, NEW h \in Hilos, EscribirPago(h)
  PROVE  LibroAlDia'
<1>1. Tipos /\ PeticionBien(h) /\ HiloAlDia(h) /\ FacturasBien
  BY DEF FilasInv, PeticionesBien, EnTurno
<1>2. PICK f \in Facturas, fila \in Factura :
        /\ f = peticion[h].factura /\ fila = peticion[h].fila /\ Existe(f) /\ DeFactura(fila, f)
        /\ fila.status \in {"PARTIAL_PAY", "PAGADA"} /\ Cuadra(fila)
  BY <1>1 DEF EscribirPago, PeticionBien, DeFactura
<1>3. PICK vieja \in Factura : vieja = factura[f]
  BY <1>1, <1>2 DEF FacturasBien, DeFactura
<1> DEFINE r == [vieja EXCEPT !.pagos = fila.pagos, !.status = fila.status]
<1>4. r \in Factura /\ r.pagos = fila.pagos /\ r.total = vieja.total /\ r.orden = vieja.orden
  BY DEF Factura
<1>5. factura' = [factura EXCEPT ![f] = r] BY <1>1, <1>2, <1>3 DEF EscribirPago, Tipos
<1> HIDE DEF r
<1>6. /\ Seguir(h, "ordenes") /\ UNCHANGED <<varsLibro, aviso, cobro>>
      /\ peticion[h].en = "pago" /\ inicios' \in Nat
  BY DEF EscribirPago, vars, varsLibro, LibroAlDia, TypeOK
<1>7. ~Cubre(f) /\ Cubiertas(peticion[h].pagadas) BY <1>1, <1>2, <1>6 DEF HiloAlDia, Cubre
<1>8. factura'[f] = r /\ \A g \in Facturas : g # f => factura'[g] = factura[g]
  BY <1>1, <1>5 DEF Tipos
<1>9. Existe(f)' /\ \A g \in Facturas : g # f => (Existe(g)' <=> Existe(g))
  BY <1>4, <1>8, NoExiste DEF Existe
<1>10. Crece BY <1>3, <1>4, <1>6, <1>8, <1>9 DEF Crece
<1>11. /\ \A g \in Facturas : g # f => (Cubre(g)' <=> Cubre(g))
       /\ Cubre(f)' <=> fila.status = "PAGADA"
  <2>1. \A g \in Facturas : g # f => (Cubre(g)' <=> Cubre(g))
    BY <1>8, <1>9 DEF Cubre, Cubierta
  <2>2. Cubierta(r) <=> Cubierta(fila) BY <1>2, <1>3, <1>4 DEF Cubierta, DeFactura
  <2>3. Cubierta(fila) <=> fila.status = "PAGADA" BY <1>2 DEF Cuadra
  <2>4. Cubre(f)' <=> Cubierta(r) BY <1>8, <1>9 DEF Cubre, Cubierta
  <2> QED BY <2>1, <2>2, <2>3, <2>4
<1>12. /\ \A g \in Hilos \ {h} : peticion'[g] = peticion[g] /\ cobro'[g] = cobro[g]
       /\ peticion'[h].en = "ordenes" /\ peticion'[h].fila = fila
       /\ peticion'[h].pagadas = peticion[h].pagadas
  BY <1>1, <1>2, <1>6, SeguirHace DEF Consultas
<1>13. PICK ps \in Seq(Facturas) : ps = peticion[h].pagadas /\ Cubiertas(ps)
  BY <1>1, <1>7 DEF Tipos, Peticion
<1>14. \A fd : Cancelado(fd)' = Cancelado(fd) BY <1>6, <1>10, CanceladoMismo
<1>15. \A fd : Adeudo(ps, fd)' = Adeudo(ps, fd) /\ Adeudo(ps, fd) \in Int
  <2>1. \A i \in DOMAIN ps : factura'[ps[i]].orden = factura[ps[i]].orden
    BY <1>10, <1>13 DEF Cubiertas, Cubre, Crece
  <2> QED BY <1>13, <2>1, AdeudoMismo, AdeudoEntero
<1>16. ASSUME NEW fd \in Fondos
       PROVE  \E p \in Int : /\ Pagado(fd)' = Pagado(fd) + p /\ Cancelado(fd)' = Cancelado(fd)
                             /\ DebeHilo(h, fd)' = DebeHilo(h, fd) + p
  <2>1. PICK x \in Int : x = Adeudo(ps, fd) /\ DebeHilo(h, fd) = x
    BY <1>6, <1>13, <1>15 DEF DebeHilo
  <2>2. Pagado(fd) \in Int
    BY <1>6, CuentasAntes DEF Activo, LibroAlDia, CuentasDeHilo, Cuentas
  <2>3. PICK k \in Int : k = ParteDe(f, fd) /\ k = Parte(fila.orden, fd)
    BY <1>2, ParteDeEntera DEF ParteDe, DeFactura
  <2>4. CASE fila.status = "PAGADA"
    <3>1. Pagado(fd)' = Pagado(fd) + k BY <1>2, <1>7, <1>10, <1>11, <2>3, <2>4, PagadoMas
    <3>2. DebeHilo(h, fd)' = x + k BY <1>12, <1>13, <1>15, <2>1, <2>3, <2>4 DEF DebeHilo
    <3> QED BY <1>14, <2>1, <3>1, <3>2
  <2>5. CASE fila.status # "PAGADA"
    <3>1. Pagado(fd)' = Pagado(fd) BY <1>7, <1>10, <1>11, <2>5, PagadoMismo
    <3>2. DebeHilo(h, fd)' = x + 0 BY <1>12, <1>13, <1>15, <2>1, <2>5 DEF DebeHilo
    <3>3. Pagado(fd)' = Pagado(fd) + 0 /\ 0 \in Int BY <2>2, <3>1
    <3> QED BY <1>14, <2>1, <3>2, <3>3
  <2> QED BY <2>4, <2>5
<1> QED BY <1>6, <1>12, <1>16, LibroDePeticion

\* The order is marked, and its invoice joins the ones that the file has paid.
LEMMA LibroMarcarOrden ==
  ASSUME FilasInv, FilasInv', EnTurno, LibroAlDia, NEW h \in Hilos, MarcarOrden(h)
  PROVE  LibroAlDia'
<1>1. Tipos /\ PeticionBien(h) /\ HiloAlDia(h) BY DEF FilasInv, PeticionesBien, EnTurno
<1>2. PICK f \in Facturas, fila \in Factura :
        /\ f = peticion[h].factura /\ fila = peticion[h].fila /\ Existe(f) /\ DeFactura(fila, f)
  BY <1>1 DEF MarcarOrden, PeticionBien, DeFactura
<1>3. /\ peticion[h].en = "ordenes" /\ UNCHANGED <<varsLibro, factura, aviso>> /\ inicios' \in Nat
  BY DEF MarcarOrden, vars, varsLibro, LibroAlDia, TypeOK
<1>4. fila.status = "PAGADA" => Cubre(f)
  <2>1. fila.pagos = factura[f].pagos /\ fila.total = factura[f].total
    BY <1>1, <1>2, <1>3 DEF HiloAlDia, DeFactura
  <2>2. fila.status = "PAGADA" => Cubierta(fila)
    BY <1>1, <1>2, <1>3 DEF PeticionBien, Cuadra
  <2> QED BY <1>2, <2>1, <2>2 DEF Cubre, Cubierta
<1>5. PICK ps \in Seq(Facturas) : ps = peticion[h].pagadas /\ Cubiertas(ps)
  BY <1>1, <1>3 DEF Tipos, Peticion, HiloAlDia
<1>6. CASE fila.status = "PAGADA"
  <2>1. Append(ps, f) \in Seq(Facturas) /\ SiguienteRenglon(h, Append(ps, f))
    BY <1>2, <1>5, <1>6 DEF MarcarOrden
  <2>2. \A fd : DebeHilo(h, fd) = Adeudo(Append(ps, f), fd)
    <3>1. \A fd : Adeudo(Append(ps, f), fd) = Adeudo(ps, fd) + ParteDe(f, fd)
      BY <1>4, <1>5, <1>6, AdeudoDeMas
    <3>2. fila.orden = factura[f].orden BY <1>2 DEF DeFactura
    <3> QED BY <1>2, <1>3, <1>5, <1>6, <3>1, <3>2 DEF DebeHilo, ParteDe
  <2> QED BY <1>3, <2>1, <2>2, LibroSiguienteRenglon
<1>7. CASE fila.status # "PAGADA"
  <2>1. SiguienteRenglon(h, ps) BY <1>2, <1>5, <1>7 DEF MarcarOrden
  <2>2. \A fd : DebeHilo(h, fd) = Adeudo(ps, fd)
    <3>1. \A fd : DebeHilo(h, fd) = Adeudo(ps, fd) + 0
      BY <1>2, <1>3, <1>5, <1>7 DEF DebeHilo
    <3> QED BY <1>5, <3>1, AdeudoEntero
  <2> QED BY <1>3, <2>1, <2>2, LibroSiguienteRenglon
<1> QED BY <1>6, <1>7

\* A request in progress.
LEMMA LibroAtender ==
  ASSUME 0 \notin Totales, FilasInv, FilasInv', EnTurno, LibroAlDia, NEW h \in Hilos, Atender(h)
  PROVE  LibroAlDia'
BY LibroFirma, LibroGuardarNueva, LibroGuardar, LibroLeerRenglon, LibroEscribirPago,
   LibroMarcarOrden DEF Atender

----
(* Steps of the handlers. *)

\* A handler in progress is the only one with an activation at work.
LEMMA LibroUnico ==
  ASSUME EnTurno, LibroEnTurno
  PROVE  /\ \A h \in Hilos : Activo(h) => \A t \in Tareas \ {h} : paso[t] = "libre"
         /\ \A e \in Avisos : EnCurso(e) => \A t \in Tareas \ {e} : paso[t] = "libre"
<1>1. ASSUME NEW h \in Hilos, Activo(h), NEW t \in Tareas \ {h} PROVE paso[t] = "libre"
  <2>1. CASE t \in Hilos BY <1>1, <2>1 DEF EnTurno, Turnos, Activo, LibroEnTurno
  <2>2. CASE t \in Avisos BY <1>1, <2>2 DEF EnTurno, Turnos, EnCurso, LibroEnTurno
  <2> QED BY <2>1, <2>2, FacturasAssumption
<1>2. ASSUME NEW e \in Avisos, EnCurso(e), NEW t \in Tareas \ {e} PROVE paso[t] = "libre"
  <2>1. CASE t \in Hilos BY <1>2, <2>1 DEF EnTurno, Turnos, Activo, LibroEnTurno
  <2>2. CASE t \in Avisos BY <1>2, <2>2 DEF EnTurno, Turnos, EnCurso, LibroEnTurno
  <2> QED BY <2>1, <2>2, FacturasAssumption
<1> QED BY <1>1, <1>2

\* An activation that starts is up to date: it has not read.
LEMMA LibroArrancar ==
  ASSUME TypeOK, LibroEnTurno, NEW t \in Tareas, NEW ll \in Llamada, ll.cargos # <<>>,
         Arrancar(t, ll), UNCHANGED inicios
  PROVE  /\ TypeOK' /\ UNCHANGED fondo /\ \A u \in Tareas : LeidoAlDia(u)'
         /\ paso'[t] = "leer" /\ llamada'[t] = ll
         /\ \A u \in Tareas \ {t} : paso'[u] = paso[u] /\ llamada'[u] = llamada[u]
         /\ \A fd : Pendiente(t, fd)' = ImporteA(ll.cargos, fd)
<1>1. TypeOK' BY ArrancarTipo DEF TypeOK
<1>2. /\ paso'[t] = "leer" /\ llamada'[t] = ll /\ UNCHANGED <<fondo, visto>>
      /\ \A u \in Tareas \ {t} : paso'[u] = paso[u] /\ llamada'[u] = llamada[u]
  BY DEF Arrancar, TypeOK
<1>3. \A u \in Tareas \ {t} : LeidoAlDia(u)' BY <1>2 DEF LibroEnTurno, LeidoAlDia, CargoDe
<1>4. LeidoAlDia(t)' BY <1>2 DEF LeidoAlDia
<1>5. \A fd : Pendiente(t, fd)' = ImporteA(ll.cargos, fd) BY <1>2 DEF Pendiente
<1> QED BY <1>1, <1>2, <1>3, <1>4, <1>5

\* The charges of the order of an invoice.
LEMMA CargosDeFactura ==
  ASSUME FilasInv, NEW f \in Facturas, Existe(f), NEW ev \in TYPE_EVENT
  PROVE  LET ll == [evento |-> ev, servicio |-> Servicio, cargos |-> CargosDe[factura[f].orden]]
         IN  /\ ll \in Llamada /\ ll.cargos # <<>> /\ ll.evento = ev
             /\ \A fd : ImporteA(ll.cargos, fd) = ParteDe(f, fd)
<1>1. PICK cs \in Seq(Cargo) : cs # <<>> /\ cs = CargosDe[factura[f].orden]
  BY ParteDeEntera, FacturasAssumption
<1>2. Servicio \in Servicios BY FacturasAssumption
<1> DEFINE ll == [evento |-> ev, servicio |-> Servicio, cargos |-> cs]
<1>3. ll \in Llamada /\ ll.cargos = cs /\ ll.evento = ev BY <1>2 DEF Llamada
<1> QED BY <1>1, <1>3 DEF ParteDe, Parte

\* The handler of invoice.paid begins to charge the order of its first invoice.
LEMMA LibroCobrarFactura ==
  ASSUME FilasInv, FilasInv', EnTurno, LibroAlDia, NEW h \in Hilos, CobrarFactura(h)
  PROVE  LibroAlDia'
<1>1. Tipos /\ HiloAlDia(h) /\ TypeOK /\ LibroEnTurno /\ h \in Tareas
  BY FacturasAssumption DEF FilasInv, EnTurno, LibroAlDia
<1>2. cobro[h].en = "leer" /\ UNCHANGED <<inicios, factura, peticion, aviso>>
  BY DEF CobrarFactura
<1>3. PICK fs \in Seq(Facturas) \ {<<>>} :
        cobro[h] = [facturas |-> fs, en |-> "leer"] /\ Cubiertas(fs)
  BY <1>1, <1>2 DEF Tipos, Cobro, SinCobro, HiloAlDia
<1>4. PICK f \in Facturas : f = Head(fs) /\ Cubre(f) BY <1>3, AdeudoDeCola DEF Cubre
<1> DEFINE ll == [evento |-> "INVOICE_PAID", servicio |-> Servicio,
                  cargos |-> CargosDe[factura[f].orden]]
<1>5. /\ ll \in Llamada /\ ll.cargos # <<>> /\ ll.evento = "INVOICE_PAID"
      /\ \A fd : ImporteA(ll.cargos, fd) = ParteDe(f, fd)
  <2>1. "INVOICE_PAID" \in TYPE_EVENT BY DEF TYPE_EVENT, TYPE_EVENT_INVOICE
  <2> QED BY <1>4, <2>1, CargosDeFactura DEF Cubre
<1>6. Arrancar(h, ll) BY <1>3, <1>4 DEF CobrarFactura
<1> HIDE DEF ll
<1>7. /\ TypeOK' /\ UNCHANGED fondo /\ \A u \in Tareas : LeidoAlDia(u)'
      /\ paso'[h] = "leer" /\ llamada'[h] = ll
      /\ \A u \in Tareas \ {h} : paso'[u] = paso[u] /\ llamada'[u] = llamada[u]
      /\ \A fd : Pendiente(h, fd)' = ParteDe(f, fd)
  BY <1>1, <1>2, <1>5, <1>6, LibroArrancar
<1> DEFINE r == [facturas |-> fs, en |-> "cargos"]
<1>8. cobro' = [cobro EXCEPT ![h] = r]
  <2>1. PICK c : c = cobro[h] OBVIOUS
  <2>2. [c EXCEPT !.en = "cargos"] = r BY <1>3, <2>1
  <2>3. cobro' = [cobro EXCEPT ![h].en = "cargos"] BY DEF CobrarFactura
  <2>4. cobro' = [cobro EXCEPT ![h] = [c EXCEPT !.en = "cargos"]]
    BY <1>1, <2>1, <2>3 DEF Tipos
  <2> QED BY <2>2, <2>4
<1>9. /\ cobro'[h].en = "cargos" /\ cobro'[h].facturas = fs
      /\ \A g \in Hilos \ {h} : cobro'[g] = cobro[g]
  BY <1>1, <1>8 DEF Tipos
<1>10. Activo(h) /\ peticion[h].en = "libre" BY <1>2 DEF Activo, EnTurno, Turnos
<1>11. \A t \in Tareas \ {h} : paso'[t] = "libre" BY <1>1, <1>7, <1>10, LibroUnico
<1>12. LibroEnTurno'
  <2>1. h \notin Avisos BY FacturasAssumption
  <2> QED BY <1>1, <1>2, <1>5, <1>7, <1>9, <1>11, <2>1, FacturasAssumption DEF LibroEnTurno
<1>13. CuentasDeHilo(h)'
  <2> SUFFICES ASSUME NEW fd \in Fondos PROVE Cuentas(fd, DebeHilo(h, fd), 0)'
    BY DEF CuentasDeHilo
  <2>1. Cuentas(fd, DebeHilo(h, fd), 0) BY <1>10 DEF LibroAlDia, LibroBien, CuentasDeHilo
  <2>2. DebeHilo(h, fd) = Adeudo(fs, fd) BY <1>3, <1>10 DEF DebeHilo
  <2>3. Tail(fs) \in Seq(Facturas) /\ Cubiertas(Tail(fs)) BY <1>3, AdeudoDeCola
  <2>4. PICK a \in Int, b \in Int : a = ParteDe(f, fd) /\ b = Adeudo(Tail(fs), fd)
    BY <1>4, <2>3, ParteDeEntera, AdeudoEntero DEF Cubre
  <2>5. Adeudo(fs, fd) = a + b BY <1>3, <1>4, <2>4, AdeudoDeCola
  <2>6. /\ Adeudo(Tail(fs), fd)' = Adeudo(Tail(fs), fd)
        /\ Pagado(fd)' = Pagado(fd) /\ Cancelado(fd)' = Cancelado(fd)
    BY <1>2, FacturasMismas
  <2>7. DebeHilo(h, fd)' = b + a BY <1>2, <1>7, <1>9, <1>10, <2>4, <2>6 DEF DebeHilo
  <2>8. DebeHilo(h, fd)' = DebeHilo(h, fd) BY <2>2, <2>4, <2>5, <2>7
  <2> QED BY <1>7, <2>1, <2>6, <2>8 DEF Cuentas
<1> QED BY <1>2, <1>7, <1>9, <1>10, <1>12, <1>13, LibroDeHilo

\* All of it is charged: on to the next invoice.
LEMMA LibroTerminarCobro ==
  ASSUME FilasInv, FilasInv', EnTurno, LibroAlDia, NEW h \in Hilos, TerminarCobro(h)
  PROVE  LibroAlDia'
<1>1. Tipos /\ HiloAlDia(h) /\ TypeOK /\ LibroEnTurno BY DEF FilasInv, EnTurno, LibroAlDia
<1>2. /\ cobro[h].en = "cargos" /\ paso[h] = "libre"
      /\ UNCHANGED <<fondo, contrato, paso, llamada, visto, inicios, factura, peticion, aviso>>
  BY DEF TerminarCobro, vars
<1>3. PICK fs \in Seq(Facturas) \ {<<>>} : cobro[h] = [facturas |-> fs, en |-> "cargos"]
  BY <1>1, <1>2 DEF Tipos, Cobro, SinCobro
<1>4. PICK resto : resto = Tail(fs) OBVIOUS
<1> DEFINE r == [facturas |-> resto, en |-> IF resto = <<>> THEN "no" ELSE "leer"]
<1>5. cobro' = [cobro EXCEPT ![h] = r] BY <1>3, <1>4 DEF TerminarCobro
<1>6. r.facturas = resto /\ r.en = IF resto = <<>> THEN "no" ELSE "leer" OBVIOUS
<1> HIDE DEF r
<1>7. cobro'[h] = r /\ \A g \in Hilos \ {h} : cobro'[g] = cobro[g] BY <1>1, <1>5 DEF Tipos
<1>8. Activo(h) /\ peticion[h].en = "libre" BY <1>2 DEF Activo, EnTurno, Turnos
<1>9. TypeOK' BY <1>1, <1>2 DEF TypeOK
<1>10. LibroEnTurno'
  <2>1. \A t \in Tareas : paso'[t] = "libre" BY <1>1, <1>2, <1>8, LibroUnico
  <2> QED BY <1>1, <1>2, <2>1, FacturasAssumption DEF LibroEnTurno, LeidoAlDia
<1>11. CuentasDeHilo(h)'
  <2> SUFFICES ASSUME NEW fd \in Fondos PROVE Cuentas(fd, DebeHilo(h, fd), 0)'
    BY DEF CuentasDeHilo
  <2>1. Cuentas(fd, DebeHilo(h, fd), 0) BY <1>8 DEF LibroAlDia, LibroBien, CuentasDeHilo
  <2>2. Cubiertas(fs) BY <1>1, <1>2, <1>3 DEF HiloAlDia
  <2>3. PICK b \in Int : b = Adeudo(resto, fd)
    BY <1>3, <1>4, <2>2, AdeudoDeCola, AdeudoEntero
  <2>4. DebeHilo(h, fd) = b + 0 BY <1>2, <1>3, <1>4, <1>8, <2>3 DEF DebeHilo, Pendiente
  <2>5. /\ Adeudo(resto, fd)' = Adeudo(resto, fd)
        /\ Pagado(fd)' = Pagado(fd) /\ Cancelado(fd)' = Cancelado(fd)
    BY <1>2, FacturasMismas
  <2>6. DebeHilo(h, fd)' = b
    BY <1>2, <1>6, <1>7, <1>8, <2>3, <2>5, AdeudoNulo DEF DebeHilo
  <2> QED BY <1>2, <2>1, <2>3, <2>4, <2>5, <2>6 DEF Cuentas
<1> QED BY <1>2, <1>7, <1>8, <1>9, <1>10, <1>11, LibroDeHilo

\* The handler of invoice.paid.
LEMMA LibroCobrar ==
  ASSUME FilasInv, FilasInv', EnTurno, LibroAlDia, NEW h \in Hilos, Cobrar(h)
  PROVE  LibroAlDia'
BY LibroCobrarFactura, LibroTerminarCobro DEF Cobrar

\* The columns that the handlers of the invoices write.
LEMMA ColumnasDe ==
  ASSUME NEW t \in Tareas
  PROVE  /\ llamada[t].evento = "INVOICE_PAID" => Columnas(t) = {"montoPagado", "montoEjercido"}
         /\ llamada[t].evento = "INVOICE_CANCELLED" => Columnas(t) = {"montoEjercido", "montoActivo"}
         /\ llamada[t].evento = "INVOICE_APPROVED" => Columnas(t) \in {{}, {"montoEjercido", "montoActivo"}}
<1>1. /\ EscribeMaestro["INVOICE_PAID"] = {"montoPagado", "montoEjercido"}
      /\ EscribeMaestro["INVOICE_CANCELLED"] = {"montoEjercido", "montoActivo"}
      /\ EscribeMaestro["INVOICE_APPROVED"] = {}
  BY DEF EscribeMaestro
<1>2. DOMAIN EscribeMaestro = TYPE_EVENT
  BY DEF EscribeMaestro, TYPE_EVENT, TYPE_EVENT_INVOICE, TYPE_EVENT_ORDER
<1>3. PICK m : m = EscribeMaestro OBVIOUS
<1>4. /\ EscribeModificatorio["INVOICE_PAID"] = m["INVOICE_PAID"]
      /\ EscribeModificatorio["INVOICE_CANCELLED"] = m["INVOICE_CANCELLED"]
      /\ EscribeModificatorio["INVOICE_APPROVED"] = {"montoEjercido", "montoActivo"}
  BY <1>2, <1>3 DEF EscribeModificatorio, TYPE_EVENT, TYPE_EVENT_INVOICE, TYPE_EVENT_ORDER
<1>5. Columnas(t) \in {EscribeMaestro[llamada[t].evento], EscribeModificatorio[llamada[t].evento]}
  BY DEF Columnas, Escribe
<1> QED BY <1>1, <1>3, <1>4, <1>5

\* A step of the ledger keeps the activations apart and up to date.
LEMMA LibroAvanza ==
  ASSUME FilasInv, EnTurno, LibroAlDia, NEW t \in Tareas, AvanzarLibro(t)
  PROVE  /\ TypeOK' /\ LibroEnTurno' /\ paso[t] # "libre"
         /\ UNCHANGED <<factura, peticion, aviso, cobro>>
<1>1. TypeOK /\ LibroEnTurno /\ LeidoAlDia(t) /\ Avanzar(t)
  BY DEF LibroAlDia, LibroEnTurno, AvanzarLibro
<1>2. UNCHANGED <<factura, peticion, aviso, cobro>> BY DEF AvanzarLibro, varsFactura
<1>3. TypeOK' BY <1>1, AvanzarTipo
<1>4. /\ paso[t] # "libre" /\ LeidoAlDia(t)'
      /\ \A u \in Tareas \ {t} :
           paso'[u] = paso[u] /\ llamada'[u] = llamada[u] /\ visto'[u] = visto[u]
      /\ paso'[t] # "libre" => llamada'[t].evento = llamada[t].evento
  BY <1>1, AvanzarSolo
<1>5. \A u \in Tareas \ {t} : paso'[u] = "libre"
  <2>1. (t \in Hilos /\ Activo(t)) \/ (t \in Avisos /\ EnCurso(t))
    BY <1>1, <1>4, FacturasAssumption DEF LibroEnTurno, Activo, EnCurso
  <2> QED BY <1>1, <1>4, <2>1, LibroUnico
<1>6. LibroEnTurno'
  BY <1>1, <1>2, <1>4, <1>5, FacturasAssumption DEF LibroEnTurno, LeidoAlDia
<1> QED BY <1>2, <1>3, <1>4, <1>6

\* A step of the ledger for a payments file moves what was executed to what is
\* paid, and the debt goes down by as much.
LEMMA LibroAvanzarHilo ==
  ASSUME Centavo = 1, FilasInv, FilasInv', EnTurno, LibroAlDia, NEW h \in Hilos, AvanzarLibro(h)
  PROVE  LibroAlDia'
<1>1. /\ TypeOK' /\ LibroEnTurno' /\ paso[h] # "libre" /\ h \in Tareas
      /\ UNCHANGED <<factura, peticion, aviso, cobro>>
  BY LibroAvanza, FacturasAssumption
<1>2. /\ cobro[h].en = "cargos" /\ llamada[h].evento = "INVOICE_PAID" /\ TypeOK
      /\ LeidoAlDia(h) /\ Avanzar(h) /\ HiloAlDia(h)
  BY <1>1 DEF LibroAlDia, LibroEnTurno, AvanzarLibro, EnTurno
<1>3. Activo(h) /\ peticion[h].en = "libre" BY <1>2 DEF Activo, EnTurno, Turnos
<1>4. CuentasDeHilo(h)'
  <2> SUFFICES ASSUME NEW fd \in Fondos PROVE Cuentas(fd, DebeHilo(h, fd), 0)'
    BY DEF CuentasDeHilo
  <2>1. PICK fs \in Seq(Facturas) : fs = Tail(cobro[h].facturas) /\ Cubiertas(fs)
    <3>1. PICK gs \in Seq(Facturas) \ {<<>>} : gs = cobro[h].facturas
      BY <1>2 DEF FilasInv, Tipos, Cobro, SinCobro
    <3> QED BY <1>2, <3>1, AdeudoDeCola DEF HiloAlDia
  <2>2. PICK b \in Int, m \in Int, n \in Int :
          b = Adeudo(fs, fd) /\ m = Pendiente(h, fd) /\ n = Pendiente(h, fd)'
    BY <1>1, <1>2, <2>1, AdeudoEntero, PendienteEnteros
  <2>3. Cuentas(fd, b + m, 0)
    <3>1. DebeHilo(h, fd) = b + m BY <1>2, <1>3, <2>1, <2>2 DEF DebeHilo
    <3> QED BY <1>3, <3>1 DEF LibroAlDia, LibroBien, CuentasDeHilo
  <2>4. /\ Adeudo(fs, fd)' = Adeudo(fs, fd)
        /\ Pagado(fd)' = Pagado(fd) /\ Cancelado(fd)' = Cancelado(fd)
    BY <1>1, FacturasMismas
  <2>5. DebeHilo(h, fd)' = b + n BY <1>1, <1>2, <1>3, <2>1, <2>2, <2>4 DEF DebeHilo
  <2>6. /\ fondo'[fd]["montoPagado"] = fondo[fd]["montoPagado"] + (m - n)
        /\ fondo'[fd]["montoEjercido"] = fondo[fd]["montoEjercido"] - (m - n)
        /\ fondo'[fd]["montoActivo"] = fondo[fd]["montoActivo"]
    <3>1. Columnas(h) = {"montoPagado", "montoEjercido"} BY <1>1, <1>2, ColumnasDe
    <3>2. \A c \in {"montoPagado", "montoEjercido", "montoActivo"} :
            fondo'[fd][c] = IF c \notin Columnas(h) THEN fondo[fd][c]
                            ELSE IF c \in Suma[llamada[h].evento] THEN fondo[fd][c] + (m - n)
                            ELSE IF c \in Resta[llamada[h].evento] THEN fondo[fd][c] - (m - n)
                            ELSE fondo[fd][c]
      BY <1>1, <1>2, <2>2, <3>1, AvanzarAlDia DEF FundColumns, ServiceColumns
    <3> QED BY <1>2, <3>1, <3>2 DEF Suma, Resta
  <2>7. Cuentas(fd, b + n, 0)'
    <3>1. PICK p \in Int, c \in Int, a \in Int :
            p = Pagado(fd) /\ c = Cancelado(fd) /\ a = ActivoInicial(fd)
      BY <2>3, ParteEntera DEF Cuentas
    <3>2. /\ fondo[fd]["montoPagado"] = p - (b + m)
          /\ fondo[fd]["montoActivo"] = a + c - 0
          /\ fondo[fd]["montoEjercido"] = b + m + 0 - (p + c)
      BY <2>3, <3>1 DEF Cuentas
    <3>3. /\ fondo'[fd]["montoPagado"] = p - (b + n)
          /\ fondo'[fd]["montoEjercido"] = b + n + 0 - (p + c)
          /\ fondo'[fd]["montoActivo"] = a + c - 0
      BY <2>2, <2>6, <3>1, <3>2
    <3> QED BY <2>2, <2>4, <3>1, <3>3 DEF Cuentas
  <2> QED BY <2>5, <2>7
<1> QED BY <1>1, <1>3, <1>4, LibroDeHilo

----
(* Steps of the notifications. *)

\* A notification in progress, or that has not come, has its own debt.
LEMMA CuentasAntesAviso ==
  ASSUME LibroBien, NEW e \in Avisos, Quieto \/ EnCurso(e)
  PROVE  CuentasDeAviso(e)
<1>1. CASE EnCurso(e) BY <1>1 DEF LibroBien
<1>2. CASE Quieto
  <2>1. \A fd : DebeAviso(e, fd) = 0 BY <1>2 DEF Quieto, EnCurso, DebeAviso
  <2> QED BY <1>2, <2>1 DEF LibroBien, CuentasClaras, CuentasDeAviso
<1> QED BY <1>1, <1>2

\* A step of a notification, or of its handlers, only has to see to its own
\* debt.
LEMMA LibroDeAviso ==
  ASSUME EnTurno, NEW e \in Avisos, Quieto \/ EnCurso(e), UNCHANGED <<peticion, cobro>>,
         \A c \in Avisos \ {e} : aviso'[c] = aviso[c],
         TypeOK', LibroEnTurno', CuentasDeAviso(e)'
  PROVE  LibroAlDia'
<1>1. /\ \A h \in Hilos : ~Activo(h)'
      /\ \A c \in Avisos \ {e} : ~EnCurso(c)'
  BY DEF EnTurno, Turnos, Activo, Quieto, EnCurso
<1>2. Quieto' => CuentasClaras'
  <2> SUFFICES ASSUME Quieto' PROVE CuentasClaras' OBVIOUS
  <2>1. \A fd : DebeAviso(e, fd)' = 0 BY DEF Quieto, EnCurso, DebeAviso
  <2> QED BY <2>1 DEF CuentasClaras, CuentasDeAviso
<1> QED BY <1>1, <1>2 DEF LibroAlDia, LibroBien

\* A step that charges nothing makes the debt grow by what it cancels.
LEMMA LibroSinCargo ==
  ASSUME EnTurno, LibroAlDia, NEW e \in Avisos, Quieto \/ EnCurso(e),
         UNCHANGED <<varsLibro, peticion, cobro>>, inicios' \in Nat,
         \A c \in Avisos \ {e} : aviso'[c] = aviso[c],
         aviso'[e].montos \in {"leer", "cargos"} => EsCompletado(e),
         paso[e] # "libre" => aviso'[e].montos = "cargos",
         \A fd \in Fondos : \E c \in Int : /\ Pagado(fd)' = Pagado(fd)
                                           /\ Cancelado(fd)' = Cancelado(fd) + c
                                           /\ DebeAviso(e, fd)' = DebeAviso(e, fd) + c
  PROVE  LibroAlDia'
<1>1. UNCHANGED <<fondo, contrato, paso, llamada, visto>> BY DEF varsLibro
<1>2. TypeOK' BY <1>1 DEF TypeOK, LibroAlDia
<1>3. LibroEnTurno'
  <2>1. \A c \in Avisos : aviso'[c].montos \in {"leer", "cargos"} => EsCompletado(c)
    BY DEF LibroAlDia, LibroEnTurno
  <2>2. \A c \in Avisos : paso'[c] # "libre" =>
          aviso'[c].montos = "cargos" /\ llamada'[c].evento = EventoDe(Doc(c))
    BY <1>1 DEF LibroAlDia, LibroEnTurno
  <2>3. \A h \in Hilos : paso'[h] # "libre" =>
          cobro'[h].en = "cargos" /\ llamada'[h].evento = "INVOICE_PAID"
    BY <1>1 DEF LibroAlDia, LibroEnTurno
  <2>4. \A t \in Tareas : LeidoAlDia(t)'
    BY <1>1 DEF LibroAlDia, LibroEnTurno, LeidoAlDia, CargoDe
  <2> QED BY <2>1, <2>2, <2>3, <2>4 DEF LibroEnTurno
<1>4. CuentasDeAviso(e)'
  <2> SUFFICES ASSUME NEW fd \in Fondos PROVE Cuentas(fd, 0, DebeAviso(e, fd))'
    BY DEF CuentasDeAviso
  <2>1. PICK y \in Int : y = DebeAviso(e, fd) /\ Cuentas(fd, 0, y)
    BY CuentasAntesAviso DEF LibroAlDia, CuentasDeAviso, Cuentas
  <2>2. PICK c \in Int : /\ Pagado(fd)' = Pagado(fd)
                         /\ Cancelado(fd)' = Cancelado(fd) + c
                         /\ DebeAviso(e, fd)' = DebeAviso(e, fd) + c
    OBVIOUS
  <2>3. Pagado(fd)' = Pagado(fd) + 0 BY <2>1, <2>2 DEF Cuentas
  <2>4. Cuentas(fd, 0 + 0, y + c)' BY <1>1, <2>1, <2>2, <2>3, CuentasSiguen
  <2>5. DebeAviso(e, fd)' = y + c /\ 0 + 0 = 0 BY <2>1, <2>2
  <2> QED BY <2>4, <2>5
<1> QED BY <1>2, <1>3, <1>4, LibroDeAviso

\* Most steps cancel nothing.
LEMMA LibroSinCancelar ==
  ASSUME EnTurno, LibroAlDia, NEW e \in Avisos, Quieto \/ EnCurso(e),
         UNCHANGED <<varsLibro, peticion, cobro>>, inicios' \in Nat,
         \A c \in Avisos \ {e} : aviso'[c] = aviso[c],
         aviso'[e].montos \in {"leer", "cargos"} => EsCompletado(e),
         paso[e] # "libre" => aviso'[e].montos = "cargos",
         \A fd \in Fondos : /\ Pagado(fd)' = Pagado(fd) /\ Cancelado(fd)' = Cancelado(fd)
                            /\ DebeAviso(e, fd)' = DebeAviso(e, fd)
  PROVE  LibroAlDia'
<1>1. \A fd \in Fondos : Cancelado(fd) \in Int /\ DebeAviso(e, fd) \in Int
  BY CuentasAntesAviso DEF LibroAlDia, CuentasDeAviso, Cuentas
<1>2. \A fd \in Fondos : /\ Pagado(fd)' = Pagado(fd) /\ Cancelado(fd)' = Cancelado(fd) + 0
                         /\ DebeAviso(e, fd)' = DebeAviso(e, fd) + 0
  BY <1>1
<1>3. 0 \in Int OBVIOUS
<1> QED BY <1>2, <1>3, LibroSinCargo

\* A notification arrives. A completed cancellation is counted at once and
\* charged later.
LEMMA LibroRecibir ==
  ASSUME FilasInv, FilasInv', EnTurno, LibroAlDia, incidentes' = 0, NEW e \in Avisos, Recibir(e)
  PROVE  LibroAlDia'
<1>1. Tipos /\ DocumentosBien /\ Doc(e) \in Documentos /\ FacturaDe(Doc(e)) \in Facturas
  BY DeDocumento DEF FilasInv
<1>2. Quieto /\ inicios' \in Nat /\ UNCHANGED <<varsLibro, factura, peticion, cobro>>
  BY <1>1 DEF Recibir, Llegar, Tipos, LibroAlDia, TypeOK
<1>3. Existe(FacturaDe(Doc(e))) /\ ~aviso[e].recibido BY <1>1 DEF Recibir, DocumentosBien
<1>4. PICK a \in Aviso : a = aviso[e] BY <1>1 DEF Tipos
<1>5. PICK m : m = IF EsCompletado(e) THEN "leer" ELSE "no" OBVIOUS
<1> DEFINE r == [a EXCEPT !.recibido = TRUE, !.doc = TRUE, !.status = m, !.montos = m]
<1>6. r.recibido /\ r.montos = m BY DEF Aviso
<1>7. aviso' = [aviso EXCEPT ![e] = r] BY <1>1, <1>4, <1>5 DEF Recibir, Tipos
<1> HIDE DEF r
<1>8. aviso'[e] = r /\ \A c \in Avisos \ {e} : aviso'[c] = aviso[c]
  BY <1>1, <1>7 DEF Tipos
<1>9. paso[e] = "libre" BY <1>2, LibroReposo, FacturasAssumption DEF LibroAlDia
<1>10. aviso[e].montos = "no" BY <1>2 DEF Quieto, EnCurso
<1>11. aviso'[e].montos \in {"leer", "cargos"} => EsCompletado(e) BY <1>5, <1>6, <1>8
<1>12. Crece /\ \A g \in Facturas : Cubre(g)' <=> Cubre(g)
  <2>1. \A c \in Avisos : aviso[c].recibido => aviso'[c].recibido BY <1>6, <1>8
  <2> QED BY <1>2, <2>1, MismaCrece DEF Cubre, Existe, Cubierta
<1>13. \A fd : Pagado(fd)' = Pagado(fd) BY <1>12, PagadoMismo
<1>14. CASE EsCompletado(e) /\ AccionDe(Doc(e)) = "CANCEL"
  <2>1. ASSUME NEW fd \in Fondos
        PROVE  \E c \in Int : /\ Pagado(fd)' = Pagado(fd)
                              /\ Cancelado(fd)' = Cancelado(fd) + c
                              /\ DebeAviso(e, fd)' = DebeAviso(e, fd) + c
    <3>1. PICK k \in Int : k = ParteDe(FacturaDe(Doc(e)), fd) BY <1>1, <1>3, ParteDeEntera
    <3>2. Cancelado(fd)' = Cancelado(fd) + k
      BY <1>2, <1>3, <1>6, <1>8, <1>14, <3>1, CanceladoMas
    <3>3. DebeAviso(e, fd) = 0 BY <1>10 DEF DebeAviso
    <3>4. ParteDe(FacturaDe(Doc(e)), fd)' = k BY <1>2, <3>1 DEF ParteDe
    <3>5. DebeAviso(e, fd)' = k BY <1>5, <1>6, <1>8, <1>14, <3>4 DEF DebeAviso
    <3> QED BY <1>13, <3>2, <3>3, <3>5
  <2> QED BY <1>2, <1>8, <1>9, <1>11, <2>1, LibroSinCargo
<1>15. CASE ~ (EsCompletado(e) /\ AccionDe(Doc(e)) = "CANCEL")
  <2>1. \A c \in Avisos : EsCompletado(c) /\ AccionDe(Doc(c)) = "CANCEL" =>
                            aviso'[c].recibido = aviso[c].recibido
    BY <1>8, <1>15
  <2>2. \A fd : Cancelado(fd)' = Cancelado(fd) BY <1>12, <2>1, CanceladoMismo
  <2>3. \A fd : DebeAviso(e, fd) = 0 /\ DebeAviso(e, fd)' = 0
    BY <1>5, <1>6, <1>8, <1>10, <1>15 DEF DebeAviso
  <2> QED BY <1>2, <1>8, <1>9, <1>11, <1>13, <2>2, <2>3, LibroSinCancelar
<1> QED BY <1>14, <1>15

\* A handler that does not come to the charges leaves the debt as it is.
LEMMA DebeAvisoMismo ==
  ASSUME UNCHANGED varsLibro, NEW e \in Avisos, aviso'[e].montos = aviso[e].montos,
         factura'[FacturaDe(Doc(e))].orden = factura[FacturaDe(Doc(e))].orden
  PROVE  \A fd : DebeAviso(e, fd)' = DebeAviso(e, fd)
<1> SUFFICES ASSUME NEW fd PROVE DebeAviso(e, fd)' = DebeAviso(e, fd) OBVIOUS
<1>1. Pendiente(e, fd)' = Pendiente(e, fd) BY DEF varsLibro, Pendiente
<1>2. ParteDe(FacturaDe(Doc(e)), fd)' = ParteDe(FacturaDe(Doc(e)), fd) BY DEF ParteDe
<1> QED BY <1>1, <1>2 DEF DebeAviso

\* The document is saved.
LEMMA LibroGuardarFirma ==
  ASSUME FilasInv, FilasInv', EnTurno, LibroAlDia, NEW e \in Avisos, GuardarFirma(e)
  PROVE  LibroAlDia'
<1>1. Tipos /\ LibroEnTurno BY DEF FilasInv, LibroAlDia
<1>2. /\ EnCurso(e) /\ inicios' \in Nat /\ UNCHANGED <<varsLibro, factura, peticion, cobro>>
  BY DEF GuardarFirma, EnCurso, vars, varsLibro, LibroAlDia, TypeOK
<1>3. PICK a \in Aviso : a = aviso[e] BY <1>1 DEF Tipos
<1> DEFINE r1 == [a EXCEPT !.doc = FALSE]
           r2 == [a EXCEPT !.doc = FALSE, !.status = "leer", !.montos = "orden"]
<1>4. /\ r1.montos = a.montos /\ r1.recibido = a.recibido
      /\ r2.montos = "orden" /\ r2.recibido = a.recibido
  BY DEF Aviso
<1>5. aviso' = [aviso EXCEPT ![e] = IF EsCompletado(e) THEN r1 ELSE r2]
  BY <1>1, <1>3 DEF GuardarFirma, Tipos
<1> HIDE DEF r1, r2
<1>6. /\ aviso'[e] = IF EsCompletado(e) THEN r1 ELSE r2
      /\ \A c \in Avisos \ {e} : aviso'[c] = aviso[c]
  BY <1>1, <1>5 DEF Tipos
<1>7. \A c \in Avisos : aviso'[c].recibido = aviso[c].recibido BY <1>3, <1>4, <1>6
<1>8. \A fd : Pagado(fd)' = Pagado(fd) /\ Cancelado(fd)' = Cancelado(fd)
  BY <1>2, <1>7, FacturasMismas
<1>9. \A fd : DebeAviso(e, fd)' = DebeAviso(e, fd)
  <2>1. CASE EsCompletado(e) BY <1>2, <1>3, <1>4, <1>6, <2>1, DebeAvisoMismo
  <2>2. CASE ~EsCompletado(e)
    <3>1. aviso[e].montos \notin {"leer", "cargos"} /\ aviso'[e].montos = "orden"
      BY <1>1, <1>4, <1>6, <2>2 DEF LibroEnTurno
    <3> QED BY <3>1 DEF DebeAviso
  <2> QED BY <2>1, <2>2
<1>10. /\ aviso'[e].montos \in {"leer", "cargos"} => EsCompletado(e)
       /\ paso[e] # "libre" => aviso'[e].montos = "cargos"
  BY <1>1, <1>3, <1>4, <1>6 DEF LibroEnTurno
<1> QED BY <1>2, <1>6, <1>8, <1>9, <1>10, LibroSinCancelar

\* updateStatus reads the invoice and writes it back with its payments.
LEMMA LibroStatus ==
  ASSUME FilasInv, FilasInv', EnTurno, LibroAlDia, NEW e \in Avisos, ManejarStatus(e)
  PROVE  LibroAlDia'
<1>1. Tipos /\ AvisoBien(e) /\ AvisoAlDia(e) /\ FacturasBien /\ LibroEnTurno
  BY DEF FilasInv, EnTurno, AvisosBien, LibroAlDia
<1>2. EnCurso(e) /\ inicios' \in Nat /\ UNCHANGED <<varsLibro, peticion, cobro>>
  BY DEF ManejarStatus, LeerStatus, EscribirStatus, EnCurso, vars, varsLibro, LibroAlDia, TypeOK
<1>3. PICK a \in Aviso : a = aviso[e] BY <1>1 DEF Tipos
<1>4. PICK f \in Facturas : f = FacturaDe(Doc(e)) /\ Existe(f)
  BY <1>1, <1>2, DeDocumento DEF AvisoBien
<1>5. PICK s, leida : aviso' = [aviso EXCEPT ![e].status = s, ![e].fila = leida]
  BY DEF ManejarStatus, LeerStatus, EscribirStatus
<1> DEFINE r == [a EXCEPT !.status = s, !.fila = leida]
<1>6. r.montos = a.montos /\ r.recibido = a.recibido BY DEF Aviso
<1>7. aviso' = [aviso EXCEPT ![e] = r] BY <1>1, <1>3, <1>5 DEF Tipos
<1> HIDE DEF r
<1>8. aviso'[e] = r /\ \A c \in Avisos \ {e} : aviso'[c] = aviso[c]
  BY <1>1, <1>7 DEF Tipos
<1>9. \A c \in Avisos : aviso'[c].recibido = aviso[c].recibido BY <1>3, <1>6, <1>8
<1>10. Crece /\ \A g \in Facturas : Cubre(g)' <=> Cubre(g)
  <2>1. CASE LeerStatus(e)
    <3>1. UNCHANGED factura BY <2>1 DEF LeerStatus
    <3> QED BY <1>9, <3>1, MismaCrece DEF Cubre, Existe, Cubierta
  <2>2. CASE EscribirStatus(e)
    <3>1. PICK fila \in Factura : fila = a.fila /\ DeFactura(fila, f)
      BY <1>1, <1>3, <1>4, <2>2 DEF EscribirStatus, AvisoBien, DeFactura
    <3>2. fila.pagos = factura[f].pagos
      BY <1>1, <1>3, <1>4, <2>2, <3>1 DEF EscribirStatus, AvisoAlDia
    <3>3. PICK st \in {"CONTEJADA", "APROBADA", "CANCELADA"} : st = StatusDe(e)
      BY DEF StatusDe
    <3> DEFINE q == [fila EXCEPT !.status = st]
    <3>4. /\ q \in Factura /\ q.pagos = fila.pagos /\ q.total = fila.total /\ q.orden = fila.orden
      BY DEF Factura, INVOICE_STATUS
    <3>5. factura' = [factura EXCEPT ![f] = q]
      BY <1>3, <1>4, <2>2, <3>1, <3>3 DEF EscribirStatus
    <3> HIDE DEF q
    <3>6. q.pagos = factura[f].pagos /\ q.total = factura[f].total /\ q.orden = factura[f].orden
      BY <3>1, <3>2, <3>4 DEF DeFactura
    <3> QED BY <1>4, <1>9, <3>4, <3>5, <3>6, PagosMismos
  <2> QED BY <2>1, <2>2 DEF ManejarStatus
<1>11. \A fd : Pagado(fd)' = Pagado(fd) /\ Cancelado(fd)' = Cancelado(fd)
  BY <1>9, <1>10, PagadoMismo, CanceladoMismo
<1>12. aviso'[e].montos = aviso[e].montos BY <1>3, <1>6, <1>8
<1>13. \A fd : DebeAviso(e, fd)' = DebeAviso(e, fd)
  <2>1. factura'[f].orden = factura[f].orden BY <1>4, <1>10 DEF Crece
  <2> QED BY <1>2, <1>4, <1>12, <2>1, DebeAvisoMismo
<1>14. /\ aviso'[e].montos \in {"leer", "cargos"} => EsCompletado(e)
       /\ paso[e] # "libre" => aviso'[e].montos = "cargos"
  BY <1>1, <1>12 DEF LibroEnTurno
<1> QED BY <1>2, <1>8, <1>11, <1>13, <1>14, LibroSinCancelar

\* The order of a notified invoice is written when its charges are made.
LEMMA LibroEscribirOrden ==
  ASSUME FilasInv, FilasInv', EnTurno, LibroAlDia, NEW e \in Avisos, EscribirOrden(e)
  PROVE  LibroAlDia'
<1>1. Tipos /\ LibroEnTurno BY DEF FilasInv, LibroAlDia
<1>2. /\ EnCurso(e) /\ inicios' \in Nat /\ UNCHANGED <<varsLibro, factura, peticion, cobro>>
  BY DEF EscribirOrden, EnCurso, vars, varsLibro, LibroAlDia, TypeOK
<1>3. PICK a \in Aviso : a = aviso[e] BY <1>1 DEF Tipos
<1> DEFINE r == [a EXCEPT !.montos = "no"]
<1>4. r.montos = "no" /\ r.recibido = a.recibido BY DEF Aviso
<1>5. aviso' = [aviso EXCEPT ![e] = r] BY <1>1, <1>3 DEF EscribirOrden, Tipos
<1> HIDE DEF r
<1>6. aviso'[e] = r /\ \A c \in Avisos \ {e} : aviso'[c] = aviso[c]
  BY <1>1, <1>5 DEF Tipos
<1>7. \A c \in Avisos : aviso'[c].recibido = aviso[c].recibido BY <1>3, <1>4, <1>6
<1>8. \A fd : Pagado(fd)' = Pagado(fd) /\ Cancelado(fd)' = Cancelado(fd)
  BY <1>2, <1>7, FacturasMismas
<1>9. paso[e] = "libre" /\ aviso[e].montos # "leer"
  BY <1>1 DEF EscribirOrden, LibroEnTurno
<1>10. \A fd : DebeAviso(e, fd) = 0 /\ DebeAviso(e, fd)' = 0
  BY <1>4, <1>6, <1>9 DEF DebeAviso, Pendiente
<1> QED BY <1>2, <1>4, <1>6, <1>8, <1>9, <1>10, LibroSinCancelar

\* The handler of the amounts begins to charge the order of the invoice: what
\* a cancellation owes is what is pending.
LEMMA LibroCargarAviso ==
  ASSUME FilasInv, FilasInv', EnTurno, LibroAlDia, NEW e \in Avisos, CargarAviso(e)
  PROVE  LibroAlDia'
<1>1. /\ Tipos /\ AvisoBien(e) /\ TypeOK /\ LibroEnTurno /\ e \in Tareas
      /\ EsCompletado(e)
  BY FacturasAssumption DEF FilasInv, AvisosBien, LibroAlDia, LibroEnTurno, CargarAviso
<1>2. /\ EnCurso(e) /\ aviso[e].montos = "leer" /\ UNCHANGED <<inicios, factura, peticion, cobro>>
  BY DEF CargarAviso, EnCurso
<1>3. PICK a \in Aviso : a = aviso[e] BY <1>1 DEF Tipos
<1>4. PICK f \in Facturas : f = FacturaDe(Doc(e)) /\ Existe(f)
  BY <1>1, <1>2, DeDocumento DEF AvisoBien
<1>5. PICK ev \in {"INVOICE_APPROVED", "INVOICE_CANCELLED"} : ev = EventoDe(Doc(e))
  BY DEF EventoDe
<1> DEFINE ll == [evento |-> ev, servicio |-> Servicio, cargos |-> CargosDe[factura[f].orden]]
<1>6. /\ ll \in Llamada /\ ll.cargos # <<>> /\ ll.evento = ev
      /\ \A fd : ImporteA(ll.cargos, fd) = ParteDe(f, fd)
  <2>1. ev \in TYPE_EVENT BY DEF TYPE_EVENT, TYPE_EVENT_INVOICE
  <2> QED BY <1>4, <2>1, CargosDeFactura
<1>7. Arrancar(e, ll) BY <1>4, <1>5 DEF CargarAviso
<1> HIDE DEF ll
<1>8. /\ TypeOK' /\ UNCHANGED fondo /\ \A u \in Tareas : LeidoAlDia(u)'
      /\ paso'[e] = "leer" /\ llamada'[e] = ll
      /\ \A u \in Tareas \ {e} : paso'[u] = paso[u] /\ llamada'[u] = llamada[u]
      /\ \A fd : Pendiente(e, fd)' = ParteDe(f, fd)
  BY <1>1, <1>2, <1>6, <1>7, LibroArrancar
<1> DEFINE r == [a EXCEPT !.montos = "cargos"]
<1>9. r.montos = "cargos" /\ r.recibido = a.recibido BY DEF Aviso
<1>10. aviso' = [aviso EXCEPT ![e] = r] BY <1>1, <1>3 DEF CargarAviso, Tipos
<1> HIDE DEF r
<1>11. aviso'[e] = r /\ \A c \in Avisos \ {e} : aviso'[c] = aviso[c]
  BY <1>1, <1>10 DEF Tipos
<1>12. \A c \in Avisos : aviso'[c].recibido = aviso[c].recibido BY <1>3, <1>9, <1>11
<1>13. \A t \in Tareas \ {e} : paso'[t] = "libre" BY <1>1, <1>2, <1>8, LibroUnico
<1>14. LibroEnTurno'
  <2>1. e \notin Hilos BY FacturasAssumption
  <2>2. \A c \in Avisos : aviso'[c].montos \in {"leer", "cargos"} => EsCompletado(c)
    BY <1>1, <1>11 DEF LibroEnTurno
  <2>3. \A c \in Avisos : paso'[c] # "libre" =>
          aviso'[c].montos = "cargos" /\ llamada'[c].evento = EventoDe(Doc(c))
    BY <1>5, <1>6, <1>8, <1>9, <1>11, <1>13, FacturasAssumption
  <2>4. \A h \in Hilos : paso'[h] = "libre" BY <1>13, <2>1, FacturasAssumption
  <2> QED BY <1>8, <2>2, <2>3, <2>4 DEF LibroEnTurno
<1>15. CuentasDeAviso(e)'
  <2> SUFFICES ASSUME NEW fd \in Fondos PROVE Cuentas(fd, 0, DebeAviso(e, fd))'
    BY DEF CuentasDeAviso
  <2>1. Cuentas(fd, 0, DebeAviso(e, fd)) BY <1>2 DEF LibroAlDia, LibroBien, CuentasDeAviso
  <2>2. Pagado(fd)' = Pagado(fd) /\ Cancelado(fd)' = Cancelado(fd)
    BY <1>2, <1>12, FacturasMismas
  <2>3. DebeAviso(e, fd)' = DebeAviso(e, fd)
    BY <1>2, <1>4, <1>8, <1>9, <1>11 DEF DebeAviso
  <2> QED BY <1>8, <2>1, <2>2, <2>3 DEF Cuentas
<1> QED BY <1>2, <1>8, <1>11, <1>14, <1>15, LibroDeAviso

\* A step of the ledger for a notification: a cancellation makes what was
\* executed active again, and its debt goes down by as much; an approval
\* writes no column, or writes the values that it has.
LEMMA LibroAvanzarAviso ==
  ASSUME Centavo = 1, FilasInv, FilasInv', EnTurno, LibroAlDia, NEW e \in Avisos, AvanzarLibro(e)
  PROVE  LibroAlDia'
<1>1. /\ TypeOK' /\ LibroEnTurno' /\ paso[e] # "libre" /\ e \in Tareas
      /\ UNCHANGED <<factura, peticion, aviso, cobro>>
  BY LibroAvanza, FacturasAssumption
<1>2. /\ aviso[e].montos = "cargos" /\ llamada[e].evento = EventoDe(Doc(e)) /\ TypeOK
      /\ LeidoAlDia(e) /\ Avanzar(e)
  BY <1>1 DEF LibroAlDia, LibroEnTurno, AvanzarLibro
<1>3. EnCurso(e) BY <1>2 DEF EnCurso
<1>4. AccionDe(Doc(e)) \in {"APPROVE", "CANCEL"} BY DeDocumento DEF Acciones
<1>5. CuentasDeAviso(e)'
  <2> SUFFICES ASSUME NEW fd \in Fondos PROVE Cuentas(fd, 0, DebeAviso(e, fd))'
    BY DEF CuentasDeAviso
  <2>1. Cuentas(fd, 0, DebeAviso(e, fd)) BY <1>3 DEF LibroAlDia, LibroBien, CuentasDeAviso
  <2>2. Pagado(fd)' = Pagado(fd) /\ Cancelado(fd)' = Cancelado(fd) BY <1>1, FacturasMismas
  <2>3. PICK m \in Int, n \in Int : m = Pendiente(e, fd) /\ n = Pendiente(e, fd)'
    BY <1>1, <1>2, PendienteEnteros
  <2>4. PICK p \in Int, c \in Int, a \in Int :
          p = Pagado(fd) /\ c = Cancelado(fd) /\ a = ActivoInicial(fd)
    BY <2>1, ParteEntera DEF Cuentas
  <2>5. CASE AccionDe(Doc(e)) = "CANCEL"
    <3>1. DebeAviso(e, fd) = m /\ DebeAviso(e, fd)' = n
      BY <1>1, <1>2, <2>3, <2>5 DEF DebeAviso
    <3>2. llamada[e].evento = "INVOICE_CANCELLED" /\ Columnas(e) = {"montoEjercido", "montoActivo"}
      BY <1>1, <1>2, <2>5, ColumnasDe DEF EventoDe
    <3>3. \A k \in {"montoPagado", "montoEjercido", "montoActivo"} :
            fondo'[fd][k] = IF k \notin Columnas(e) THEN fondo[fd][k]
                            ELSE IF k \in Suma[llamada[e].evento] THEN fondo[fd][k] + (m - n)
                            ELSE IF k \in Resta[llamada[e].evento] THEN fondo[fd][k] - (m - n)
                            ELSE fondo[fd][k]
      BY <1>1, <1>2, <2>3, <3>2, AvanzarAlDia DEF FundColumns, ServiceColumns
    <3>4. /\ fondo'[fd]["montoPagado"] = fondo[fd]["montoPagado"]
          /\ fondo'[fd]["montoActivo"] = fondo[fd]["montoActivo"] + (m - n)
          /\ fondo'[fd]["montoEjercido"] = fondo[fd]["montoEjercido"] - (m - n)
      BY <3>2, <3>3 DEF Suma, Resta
    <3>5. /\ fondo[fd]["montoPagado"] = p - 0
          /\ fondo[fd]["montoActivo"] = a + c - m
          /\ fondo[fd]["montoEjercido"] = 0 + m - (p + c)
      BY <2>1, <2>4, <3>1 DEF Cuentas
    <3>6. /\ fondo'[fd]["montoPagado"] = p - 0
          /\ fondo'[fd]["montoActivo"] = a + c - n
          /\ fondo'[fd]["montoEjercido"] = 0 + n - (p + c)
      BY <2>3, <2>4, <3>4, <3>5
    <3> QED BY <2>2, <2>3, <2>4, <3>1, <3>6 DEF Cuentas
  <2>6. CASE AccionDe(Doc(e)) = "APPROVE"
    <3>1. DebeAviso(e, fd) = 0 /\ DebeAviso(e, fd)' = 0 BY <2>6 DEF DebeAviso
    <3>2. /\ llamada[e].evento = "INVOICE_APPROVED"
          /\ Columnas(e) \in {{}, {"montoEjercido", "montoActivo"}}
      BY <1>1, <1>2, <2>6, ColumnasDe DEF EventoDe
    <3>3. Suma["INVOICE_APPROVED"] = {} /\ Resta["INVOICE_APPROVED"] = {}
      BY DEF Suma, Resta
    <3>4. \A k \in {"montoPagado", "montoEjercido", "montoActivo"} : fondo'[fd][k] = fondo[fd][k]
      <4>1. CASE Columnas(e) = {} BY <1>1, <1>2, <4>1, AvanzarSolo
      <4>2. CASE Columnas(e) # {}
        BY <1>1, <1>2, <3>2, <3>3, <4>2, AvanzarAlDia DEF FundColumns, ServiceColumns
      <4> QED BY <4>1, <4>2
    <3> QED BY <2>1, <2>2, <3>1, <3>4 DEF Cuentas
  <2> QED BY <1>4, <2>5, <2>6
<1> QED BY <1>1, <1>3, <1>5, LibroDeAviso

----
(* Every step. *)

\* A step that touches neither rows nor handlers keeps the books.
LEMMA LibroMismo ==
  ASSUME FilasInv, FilasInv', LibroAlDia, inicios' \in Nat,
         UNCHANGED <<varsLibro, factura, peticion, cobro, aviso>>
  PROVE  LibroAlDia'
<1>1. UNCHANGED <<fondo, contrato, paso, llamada, visto>> BY DEF varsLibro
<1>2. TypeOK' BY <1>1 DEF LibroAlDia, TypeOK
<1>3. LibroEnTurno' BY <1>1 DEF LibroAlDia, LibroEnTurno, LeidoAlDia, CargoDe
<1>4. /\ \A fd : Pagado(fd)' = Pagado(fd) /\ Cancelado(fd)' = Cancelado(fd)
      /\ \A fs, fd : Adeudo(fs, fd)' = Adeudo(fs, fd)
  BY FacturasMismas
<1>5. \A t, fd : Pendiente(t, fd)' = Pendiente(t, fd) BY <1>1 DEF Pendiente
<1>6. \A h \in Hilos : \A fd : DebeHilo(h, fd)' = DebeHilo(h, fd)
  BY <1>4, <1>5 DEF DebeHilo
<1>7. \A e \in Avisos : \A fd : DebeAviso(e, fd)' = DebeAviso(e, fd)
  BY <1>5 DEF DebeAviso, ParteDe
<1>8. \A fd, x, y : Cuentas(fd, x, y) => Cuentas(fd, x, y)' BY <1>1, <1>4 DEF Cuentas
<1>9. \A h \in Hilos : CuentasDeHilo(h) => CuentasDeHilo(h)'
  BY <1>6, <1>8 DEF CuentasDeHilo
<1>10. \A e \in Avisos : CuentasDeAviso(e) => CuentasDeAviso(e)'
  BY <1>7, <1>8 DEF CuentasDeAviso
<1>11. CuentasClaras => CuentasClaras' BY <1>8 DEF CuentasClaras
<1>12. /\ \A h \in Hilos : Activo(h)' <=> Activo(h)
       /\ \A e \in Avisos : EnCurso(e)' <=> EnCurso(e)
       /\ Quieto' <=> Quieto
  BY DEF Activo, EnCurso, Quieto
<1>13. LibroBien' BY <1>9, <1>10, <1>11, <1>12 DEF LibroAlDia, LibroBien
<1> QED BY <1>2, <1>3, <1>13 DEF LibroAlDia

\* The requests of the clients.
LEMMA LibroPedidas ==
  ASSUME FilasInv, FilasInv', EnTurno, LibroAlDia, incidentes' = 0, NEW h \in Hilos,
         \/ \E f \in Facturas, folio \in Folios, total \in Totales, o \in Ordenes :
              PedirCrear(h, f, FilaFactura(folio, total, o, "RECIBIDA"))
         \/ \E d \in Documentos : PedirFirma(h, d)
         \/ \E a \in Archivos : PedirArchivo(h, a)
  PROVE  LibroAlDia'
<1>1. PICK q : Pedir(h, q) /\ q.en \in {"orden", "firmantes", "leer", "renglon"} /\ q.pagadas = <<>>
  BY PedidaEs
<1>2. q \in Peticion BY <1>1 DEF Pedir, FilasInv, Tipos
<1> QED BY <1>1, <1>2, LibroPedir

\* A step after which nothing overlapped or failed keeps the books.
LEMMA LibroSiguiente ==
  ASSUME Centavo = 1, 0 \notin Totales, FilasInv, FilasInv',
         incidentes = 0 => EnTurno /\ LibroAlDia, [NextFactura]_todas
  PROVE  incidentes' = 0 => LibroAlDia'
<1> SUFFICES ASSUME incidentes' = 0 PROVE LibroAlDia' OBVIOUS
<1>1. incidentes \in Nat BY DEF FilasInv, Tipos
<1>2. ~Incidente BY <1>1 DEF Incidente
<1>3. UNCHANGED incidentes \/ Llegar => EnTurno /\ LibroAlDia BY <1>1 DEF Llegar
<1>4. ASSUME NEW h \in Hilos,
             \/ \E f \in Facturas, folio \in Folios, total \in Totales, o \in Ordenes :
                  PedirCrear(h, f, FilaFactura(folio, total, o, "RECIBIDA"))
             \/ \E d \in Documentos : PedirFirma(h, d)
             \/ \E a \in Archivos : PedirArchivo(h, a)
      PROVE  LibroAlDia'
  <2>1. Llegar BY <1>4 DEF PedirCrear, PedirFirma, PedirArchivo, Pedir
  <2> QED BY <1>3, <1>4, <2>1, LibroPedidas
<1>5. ASSUME NEW h \in Hilos, Atender(h) PROVE LibroAlDia'
  <2>1. UNCHANGED incidentes
    BY <1>5 DEF Atender, LeerOrden, GuardarNueva, LeerFirmantes, GuardarDocumento,
                EnviarAlCotejar, LeerFactura, Comparar, Guardar, LeerRenglon, EscribirPago, MarcarOrden
  <2> QED BY <1>3, <1>5, <2>1, LibroAtender
<1>6. ASSUME NEW h \in Hilos, Cobrar(h) PROVE LibroAlDia'
  <2>1. UNCHANGED incidentes BY <1>6 DEF Cobrar, CobrarFactura, TerminarCobro
  <2> QED BY <1>3, <1>6, <2>1, LibroCobrar
<1>7. ASSUME NEW e \in Avisos, Recibir(e) \/ GuardarFirma(e) PROVE LibroAlDia'
  <2>1. UNCHANGED incidentes \/ Llegar BY <1>7 DEF Recibir, GuardarFirma
  <2> QED BY <1>3, <1>7, <2>1, LibroRecibir, LibroGuardarFirma
<1>8. ASSUME NEW e \in Avisos, ManejarStatus(e) \/ ManejarMontos(e) PROVE LibroAlDia'
  <2>1. UNCHANGED incidentes
    BY <1>8 DEF ManejarStatus, LeerStatus, EscribirStatus, ManejarMontos, CargarAviso, EscribirOrden
  <2>2. EnTurno /\ LibroAlDia BY <1>3, <2>1
  <2>3. CASE ManejarStatus(e) BY <2>2, <2>3, LibroStatus
  <2>4. CASE ManejarMontos(e)
    BY <2>2, <2>4, LibroCargarAviso, LibroEscribirOrden DEF ManejarMontos
  <2> QED BY <1>8, <2>3, <2>4
<1>9. ASSUME NEW d \in Documentos, EnviarAFirmamex(d) PROVE LibroAlDia'
  <2>1. Llegar /\ UNCHANGED <<varsLibro, factura, peticion, cobro, aviso>>
    BY <1>9 DEF EnviarAFirmamex
  <2>2. EnTurno /\ LibroAlDia BY <1>3, <2>1
  <2>3. inicios' \in Nat BY <2>1, <2>2 DEF Llegar, LibroAlDia, TypeOK
  <2> QED BY <2>1, <2>2, <2>3, LibroMismo
<1>10. ASSUME NEW t \in Tareas, AvanzarLibro(t) PROVE LibroAlDia'
  <2>1. UNCHANGED incidentes BY <1>10 DEF AvanzarLibro
  <2>2. EnTurno /\ LibroAlDia BY <1>3, <2>1
  <2>3. t \in Hilos \/ t \in Avisos BY FacturasAssumption
  <2> QED BY <1>10, <2>2, <2>3, LibroAvanzarHilo, LibroAvanzarAviso
<1>11. ASSUME UNCHANGED todas PROVE LibroAlDia'
  <2>1. /\ UNCHANGED <<factura, peticion, cobro, aviso, incidentes>>
        /\ UNCHANGED <<varsLibro, inicios>>
    BY <1>11 DEF todas, varsFactura, vars, varsLibro
  <2>2. EnTurno /\ LibroAlDia BY <1>3, <2>1
  <2>3. inicios' \in Nat BY <2>1, <2>2 DEF LibroAlDia, TypeOK
  <2> QED BY <2>1, <2>2, <2>3, LibroMismo
<1>12. /\ \A h : ~FallarPeticion(h) /\ ~FallarCobro(h)
       /\ \A e : ~FallarAviso(e) /\ ~CaerServidor
  BY <1>2 DEF FallarPeticion, FallarCobro, FallarAviso, CaerServidor
<1> QED BY <1>4, <1>5, <1>6, <1>7, <1>8, <1>9, <1>10, <1>11, <1>12 DEF NextFactura

----
(* The beginning. *)

\* What the invoices and the notifications are at the start: no payments, and
\* no cancellation.
LEMMA FacturasAlInicio ==
  ASSUME InitFactura
  PROVE  /\ \A f \in Facturas : Existe(f) => factura[f].pagos = <<>>
         /\ \A e \in Avisos : aviso[e].recibido => AccionDe(Doc(e)) = "APPROVE"
         /\ \A e \in Avisos : ~EnCurso(e)
         /\ inicios \in Nat
<1>1. PICK ya \in Antes :
        /\ factura \in [Facturas -> {SinFactura} \cup
                          {FilaFactura(folio, total, o, "APROBADA") :
                             folio \in Folios, total \in Totales, o \in Ordenes}]
        /\ aviso = [e \in Avisos |->
                      [SinAviso EXCEPT !.recibido =
                         EsCompletado(e) /\ e[3] = 1 /\ Doc(e) \in ya \X {"APPROVE"} \X {1}]]
        /\ inicios = 3 * Cardinality(ya)
  BY DEF InitFactura, InitFacturas
<1>2. ASSUME NEW f \in Facturas, Existe(f) PROVE factura[f].pagos = <<>>
  <2>1. PICK folio \in Folios, total \in Totales, o \in Ordenes :
          factura[f] = FilaFactura(folio, total, o, "APROBADA")
    BY <1>1, <1>2 DEF Existe
  <2> QED BY <2>1 DEF FilaFactura
<1>3. ASSUME NEW e \in Avisos
      PROVE  (aviso[e].recibido => AccionDe(Doc(e)) = "APPROVE") /\ ~EnCurso(e)
  <2> DEFINE b == EsCompletado(e) /\ e[3] = 1 /\ Doc(e) \in ya \X {"APPROVE"} \X {1}
  <2>1. b => AccionDe(Doc(e)) = "APPROVE" BY DEF AccionDe
  <2>2. aviso[e] = [SinAviso EXCEPT !.recibido = b] BY <1>1
  <2> HIDE DEF b
  <2> QED BY <2>1, <2>2 DEF SinAviso, EnCurso
<1>4. inicios \in Nat
  <2>1. IsFiniteSet(ya) BY FacturasAssumption, FS_Subset
  <2> QED BY <1>1, <2>1, FS_CardinalityType
<1> QED BY <1>2, <1>3, <1>4

\* The funds are typed at the start, and the money of the orders is active.
LEMMA FondosAlInicio ==
  ASSUME InitFactura
  PROVE  /\ fondo \in [Fondos -> FundRow] /\ contrato \in [Servicios -> ServiceRow]
         /\ \A fd \in Fondos : /\ fondo[fd]["montoPagado"] = 0 /\ fondo[fd]["montoEjercido"] = 0
                               /\ fondo[fd]["montoActivo"] = ActivoInicial(fd)
<1>1. ASSUME NEW fd \in Fondos
      PROVE  /\ fondo[fd] \in FundRow
             /\ fondo[fd]["montoPagado"] = 0 /\ fondo[fd]["montoEjercido"] = 0
             /\ fondo[fd]["montoActivo"] = ActivoInicial(fd)
  <2>1. PICK a \in Int, d \in Int : a = ActivoInicial(fd) /\ d = Techo[fd] - ActivoInicial(fd)
    BY ParteEntera, FondosAssumption
  <2>2. fondo[fd] = [FilaFondoCero EXCEPT !["montoActivo"] = a, !["montoDisponible"] = d]
    BY <2>1 DEF InitFactura
  <2>3. PICK cero \in FundRow : cero = FilaFondoCero BY FilasCero
  <2>4. /\ [cero EXCEPT !["montoActivo"] = a, !["montoDisponible"] = d] \in FundRow
        /\ [cero EXCEPT !["montoActivo"] = a, !["montoDisponible"] = d]["montoActivo"] = a
        /\ [cero EXCEPT !["montoActivo"] = a, !["montoDisponible"] = d]["montoPagado"] = cero["montoPagado"]
        /\ [cero EXCEPT !["montoActivo"] = a, !["montoDisponible"] = d]["montoEjercido"] = cero["montoEjercido"]
    BY DEF FundRow, FundColumns, ServiceColumns
  <2>5. cero["montoPagado"] = 0 /\ cero["montoEjercido"] = 0
    BY <2>3 DEF FilaFondoCero, FundColumns, ServiceColumns
  <2> QED BY <2>1, <2>2, <2>3, <2>4, <2>5
<1>2. fondo \in [Fondos -> FundRow]
  <2>1. PICK F : F = [f \in Fondos |-> fondo[f]] OBVIOUS
  <2>2. fondo = F BY <2>1 DEF InitFactura
  <2> QED BY <1>1, <2>1, <2>2
<1>3. contrato \in [Servicios -> ServiceRow]
  <2> DEFINE A == [f \in Fondos |-> ActivoInicial(f)]
  <2>1. PICK n : n = SumFunction(A) OBVIOUS
  <2>2. n \in Int
    <3>1. \A f \in Fondos : A[f] \in Int BY ParteEntera
    <3>2. n = SumFunctionOnSet(A, Fondos)
      <4>1. DOMAIN A = Fondos OBVIOUS
      <4> HIDE DEF A
      <4> QED BY <2>1, <4>1 DEF SumFunction
    <3> HIDE DEF A
    <3> QED BY <3>1, <3>2, FacturasAssumption, SumaEntera
  <2>3. contrato = [s \in Servicios |->
                      [FilaServicioCero EXCEPT !["montoActivo"] = IF s = Servicio THEN n ELSE 0]]
    BY <2>1 DEF InitFactura
  <2>4. PICK cero \in ServiceRow : cero = FilaServicioCero BY FilasCero
  <2>5. \A m \in Int : [cero EXCEPT !["montoActivo"] = m] \in ServiceRow BY DEF ServiceRow
  <2> QED BY <2>2, <2>3, <2>4, <2>5
<1> QED BY <1>1, <1>2, <1>3

\* The books balance at the start, with no debt.
LEMMA LibroInicial ==
  ASSUME 0 \notin Totales, InitFactura
  PROVE  LibroAlDia
<1>1. FilasInv /\ EnTurno BY FilasInicial, TurnoInicial
<1>2. /\ paso = [t \in Tareas |-> "libre"] /\ llamada = [t \in Tareas |-> SinLlamada]
      /\ visto = [t \in Tareas |-> NadaVisto]
      /\ peticion = [h \in Hilos |-> SinPeticion] /\ cobro = [h \in Hilos |-> SinCobro]
  BY DEF InitFactura
<1>3. TypeOK BY <1>2, FacturasAlInicio, FondosAlInicio, FilasCero DEF TypeOK, Pasos
<1>4. LibroEnTurno
  BY <1>2, FacturasAlInicio, FacturasAssumption DEF LibroEnTurno, LeidoAlDia, EnCurso
<1>5. /\ \A h \in Hilos : ~Activo(h)
      /\ \A e \in Avisos : ~EnCurso(e)
  <2>1. \A h \in Hilos : peticion[h] = SinPeticion /\ cobro[h] = SinCobro BY <1>2
  <2>2. \A h \in Hilos : ~Activo(h) BY <2>1, PeticionVacia DEF Activo, SinCobro
  <2> QED BY <2>2, FacturasAlInicio
<1>6. \A fd : Pagado(fd) = 0
  <2> SUFFICES ASSUME NEW fd PROVE Pagado(fd) = 0 OBVIOUS
  <2> DEFINE a == [f \in Facturas |-> PagadoDe(f, fd)]
  <2>1. \A f \in Facturas : ~Cubre(f)
    <3>1. \A f \in Facturas : Existe(f) => factura[f] \in Factura /\ factura[f].pagos = <<>>
      BY <1>1, FacturasAlInicio, ParteDeEntera
    <3> QED BY <3>1, SinPagosNoCubre DEF Cubre
  <2>2. \A f \in Facturas : a[f] = 0 BY <2>1 DEF PagadoDe
  <2> HIDE DEF a
  <2>3. SumFunctionOnSet(a, Facturas) = 0 BY <2>2, FacturasAssumption, SumaCeros
  <2> QED BY <2>3 DEF Pagado, a
<1>7. \A fd : Cancelado(fd) = 0
  <2> SUFFICES ASSUME NEW fd PROVE Cancelado(fd) = 0 OBVIOUS
  <2> DEFINE a == [f \in Facturas |-> CanceladoDe(f, fd)]
  <2>1. ASSUME NEW f \in Facturas PROVE a[f] = 0
    <3>1. {e \in Avisos : /\ aviso[e].recibido /\ EsCompletado(e)
                          /\ FacturaDe(Doc(e)) = f /\ AccionDe(Doc(e)) = "CANCEL"} = {}
      BY FacturasAlInicio
    <3>2. Canceladas(f) = 0 BY <3>1, FS_EmptySet DEF Canceladas
    <3>3. Existe(f) => ParteDe(f, fd) \in Int BY <1>1, ParteDeEntera
    <3> QED BY <3>2, <3>3 DEF CanceladoDe
  <2> HIDE DEF a
  <2>2. SumFunctionOnSet(a, Facturas) = 0 BY <2>1, FacturasAssumption, SumaCeros
  <2> QED BY <2>2 DEF Cancelado, a
<1>8. CuentasClaras
  <2> SUFFICES ASSUME NEW fd \in Fondos PROVE Cuentas(fd, 0, 0) BY DEF CuentasClaras
  <2>1. PICK n \in Int : n = ActivoInicial(fd) BY ParteEntera
  <2>2. /\ fondo[fd]["montoPagado"] = 0 - 0 /\ fondo[fd]["montoActivo"] = n + 0 - 0
        /\ fondo[fd]["montoEjercido"] = 0 + 0 - (0 + 0)
    BY <2>1, FondosAlInicio
  <2> QED BY <1>6, <1>7, <2>1, <2>2 DEF Cuentas
<1>9. LibroBien BY <1>5, <1>8 DEF LibroBien
<1> QED BY <1>3, <1>4, <1>9 DEF LibroAlDia

----
(* The result. *)

\* As long as nothing overlapped or failed, the books balance with the debt of
\* what is in progress.
LEMMA LibroSiempre ==
  ASSUME Centavo = 1, 0 \notin Totales
  PROVE  SpecFactura => []LibroInv
<1>1. InitFactura => LibroInv BY FilasInicial, TurnoInicial, LibroInicial DEF LibroInv
<1>2. LibroInv /\ [NextFactura]_todas => LibroInv'
  BY FilasSiguiente, TurnoSiguiente, LibroSiguiente DEF LibroInv
<1> QED BY <1>1, <1>2, PTL DEF SpecFactura

\* The sums of the property are those of the invariant.
LEMMA SumasDeFacturas ==
  ASSUME FilasInv, NEW fd
  PROVE  LET cubiertas == {f \in Facturas : Existe(f) /\ Cubierta(factura[f])}
             existentes == {f \in Facturas : Existe(f)}
         IN  /\ SumFunction([f \in cubiertas |-> Parte(factura[f].orden, fd)]) = Pagado(fd)
             /\ SumFunction([f \in existentes |->
                               Canceladas(f) * Parte(factura[f].orden, fd)]) = Cancelado(fd)
<1> DEFINE C == {f \in Facturas : Existe(f) /\ Cubierta(factura[f])}
           E == {f \in Facturas : Existe(f)}
           p == [f \in Facturas |-> PagadoDe(f, fd)]
           q == [f \in C |-> Parte(factura[f].orden, fd)]
           r == [f \in Facturas |-> CanceladoDe(f, fd)]
           s == [f \in E |-> Canceladas(f) * Parte(factura[f].orden, fd)]
<1>1. SumFunction(q) = Pagado(fd)
  <2>1. C \in SUBSET Facturas /\ DOMAIN q = C OBVIOUS
  <2>2. \A f \in C : p[f] = q[f] /\ q[f] \in Int
    BY ParteDeEntera DEF PagadoDe, Cubre, ParteDe
  <2>3. \A f \in Facturas \ C : p[f] = 0 BY DEF PagadoDe, Cubre
  <2>4. SumFunction(q) = SumFunctionOnSet(q, DOMAIN q) BY DEF SumFunction
  <2>5. Pagado(fd) = SumFunctionOnSet(p, Facturas) BY DEF Pagado
  <2> HIDE DEF C, p, q
  <2> QED BY <2>1, <2>2, <2>3, <2>4, <2>5, FacturasAssumption, SumaSoporte
<1>2. SumFunction(s) = Cancelado(fd)
  <2>1. E \in SUBSET Facturas /\ DOMAIN s = E OBVIOUS
  <2>2. \A f \in E : r[f] = s[f] /\ s[f] \in Int
    <3> SUFFICES ASSUME NEW f \in E PROVE r[f] = s[f] /\ s[f] \in Int OBVIOUS
    <3>1. Canceladas(f) \in Nat
      <4> DEFINE A == {e \in Avisos : /\ aviso[e].recibido /\ EsCompletado(e)
                                      /\ FacturaDe(Doc(e)) = f /\ AccionDe(Doc(e)) = "CANCEL"}
      <4>1. IsFiniteSet(A) BY AvisosFinitos, FS_Subset
      <4> HIDE DEF A
      <4>2. Cardinality(A) \in Nat BY <4>1, FS_CardinalityType
      <4> QED BY <4>2 DEF A, Canceladas
    <3>2. PICK k \in Int, n \in Nat : k = Parte(factura[f].orden, fd) /\ n = Canceladas(f)
      BY <3>1, ParteDeEntera DEF ParteDe
    <3>3. s[f] = n * k BY <3>2
    <3>4. r[f] = n * k BY <3>2 DEF CanceladoDe, ParteDe
    <3> QED BY <3>3, <3>4
  <2>3. \A f \in Facturas \ E : r[f] = 0 BY DEF CanceladoDe
  <2>4. SumFunction(s) = SumFunctionOnSet(s, DOMAIN s) BY DEF SumFunction
  <2>5. Cancelado(fd) = SumFunctionOnSet(r, Facturas) BY DEF Cancelado
  <2> HIDE DEF E, r, s
  <2> QED BY <2>1, <2>2, <2>3, <2>4, <2>5, FacturasAssumption, SumaSoporte
<1> QED BY <1>1, <1>2

\* When nothing overlapped or failed and nothing is in progress, every fund has
\* paid what the orders of the covered invoices take from it, once each, and
\* every notified cancellation made the money of its order active again: in
\* amounts of whole cents, of invoices that are for something (an invoice for
\* nothing would be covered without a payment and never charged).
THEOREM LibroFacturas ==
  ASSUME Centavo = 1, 0 \notin Totales
  PROVE  SpecFactura => []LibroSegunFacturas
<1>1. LibroInv => LibroSegunFacturas
  <2> SUFFICES ASSUME LibroInv, incidentes = 0, Quieto, NEW fd \in Fondos
               PROVE  LET cubiertas == {f \in Facturas : Existe(f) /\ Cubierta(factura[f])}
                          existentes == {f \in Facturas : Existe(f)}
                          pagado == SumFunction([f \in cubiertas |-> Parte(factura[f].orden, fd)])
                          cancelado == SumFunction([f \in existentes |->
                                          Canceladas(f) * Parte(factura[f].orden, fd)])
                      IN  /\ fondo[fd]["montoPagado"] = pagado
                          /\ fondo[fd]["montoActivo"] = ActivoInicial(fd) + cancelado
                          /\ fondo[fd]["montoEjercido"] = - (pagado + cancelado)
    BY DEF LibroSegunFacturas
  <2>1. Cuentas(fd, 0, 0) BY DEF LibroInv, LibroAlDia, LibroBien, CuentasClaras
  <2>2. PICK p \in Int, c \in Int, n \in Int :
          p = Pagado(fd) /\ c = Cancelado(fd) /\ n = ActivoInicial(fd)
    BY <2>1, ParteEntera DEF Cuentas
  <2>3. /\ fondo[fd]["montoPagado"] = p - 0 /\ fondo[fd]["montoActivo"] = n + c - 0
        /\ fondo[fd]["montoEjercido"] = 0 + 0 - (p + c)
    BY <2>1, <2>2 DEF Cuentas
  <2>4. /\ fondo[fd]["montoPagado"] = p /\ fondo[fd]["montoActivo"] = n + c
        /\ fondo[fd]["montoEjercido"] = - (p + c)
    BY <2>2, <2>3
  <2>5. FilasInv BY DEF LibroInv
  <2> QED BY <2>2, <2>4, <2>5, SumasDeFacturas
<1> QED BY <1>1, LibroSiempre, PTL
=============================================================================
