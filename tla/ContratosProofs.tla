----------------------------- MODULE ContratosProofs -----------------------------
(***************************************************************************)
(* Proofs about ContratosProveedor, with Proveedor and Estaciones under    *)
(* it, for every set of contracts, types, stations, services and requests. *)
(***************************************************************************)
EXTENDS ContratosProveedor, SequenceTheorems, FiniteSetTheorems, TLAPS

(* Types. *)

Campos == {"op", "en", "m", "i", "e", "s", "estatus", "extension", "vence", "tipo",
           "habilitado", "cuenta", "tipos", "lista"}
CamposDeEvento == {"clase", "en", "tipos", "servicios", "estaciones", "e", "s", "i"}

DeModificatorios == {"corregir", "modificarEstatus", "descartar", "revocar"}

\* What a request holds that it is going to write.
PeticionBien(q) ==
  /\ DOMAIN q = Campos
  /\ q.habilitado \in BOOLEAN
  /\ q.op \in {"crear", "actualizar", "extender"} \cup DeModificatorios =>
       q.estatus \in ESTATUS_DE_CONTRATO
  /\ q.op \in {"extender"} \cup DeModificatorios => q.extension \in EXTENSION_TYPE_ENUM
  /\ q.op \in {"extender"} \cup DeModificatorios => q.vence \in Prorrogas
  /\ q.op = "extender" => q.m \in Maestros
  /\ q.en = "insertar" => q.op = "extender"
  /\ q.en = "corregir" => q.op \in DeModificatorios
  /\ q.en \in {"buscarEstacion", "guardarServicio", "leerServicio", "escribirServicio"} =>
       q.tipo \in Tipos
  /\ q.en = "guardarServicio" => q.e \in Estaciones
  /\ q.en \in {"leerServicio", "escribirServicio"} =>
       q.op \in {"apagarServicio", "tipoServicio", "activarServicio"}
  /\ q.en \in {"primera", "anterior", "baja", "nueva", "leerServicio", "escribirServicio"} =>
       q.s \in Servicios /\ HayServicio(q.s)

EventoBien(v) ==
  /\ DOMAIN v = CamposDeEvento
  /\ v.clase \in Clases
  /\ \A s \in v.servicios : s \in Servicios /\ HayServicio(s)

TablasBien ==
  /\ proveedor \in BOOLEAN
  /\ maestro \in [Maestros -> [estatus : ESTATUS_DE_CONTRATO \cup {"NO_EXISTE", "BORRADO"},
                               tipos : SUBSET Tipos]]
  /\ \A m \in Maestros : maestro[m].tipos # {} => maestro[m].estatus \in ESTATUS_DE_CONTRATO
  /\ modificatorio \in Seq(Modificatorio)
  /\ hoy \in 0..Dias /\ revisado \in BOOLEAN
  /\ estacion \in [Estaciones -> {"NO_EXISTE", "ACTIVA", "INACTIVA", "BORRADA"}]
  /\ servicio \in [Servicios -> Servicio \cup {SinServicio}]
  /\ renovacion \in [Servicios -> Seq(Renovacion)]
  /\ \A s \in Servicios : ~HayServicio(s) => renovacion[s] = <<>>

PeticionesBien ==
  /\ DOMAIN peticion = Hilos
  /\ \A h \in Hilos : PeticionBien(peticion[h])

\* Some set has every event of the queue: that is what makes it a sequence.
EventosBien ==
  /\ \E V : eventos \in Seq(V)
  /\ \A k \in DOMAIN eventos : EventoBien(eventos[k])

\* The requests that may still insert an amendment.
PorInsertar == {h \in Hilos : peticion[h].op = "extender" /\ peticion[h].en \in {"leer", "insertar"}}

CuentasBien ==
  /\ Len(modificatorio) + Cardinality(PorInsertar) <= MaxModificatorios
  /\ inicios \in 0..MaxInicios /\ incidentes \in Nat /\ fallos \in Nat
  /\ incidentes + fallos \in 0..MaxIncidentes

\* The inductive form of TypeOKContratos.
TipoInv == TablasBien /\ PeticionesBien /\ EventosBien /\ CuentasBien

LEMMA TipoBasta == TipoInv => TypeOKContratos
<1>1. DOMAIN SinPeticion = Campos /\ DOMAIN Evento = CamposDeEvento
  BY DEF SinPeticion, Campos, Evento, CamposDeEvento
<1> SUFFICES ASSUME TipoInv PROVE TypeOKContratos OBVIOUS
<1>2. Len(modificatorio) <= MaxModificatorios
  <2>1. IsFiniteSet(PorInsertar) BY ProveedorAssumption, FS_Subset DEF PorInsertar
  <2>2. Cardinality(PorInsertar) \in Nat BY <2>1, FS_CardinalityType
  <2>3. Len(modificatorio) \in Nat /\ MaxModificatorios \in Nat
    BY ProveedorAssumption DEF TipoInv, TablasBien
  <2> QED BY <2>2, <2>3 DEF TipoInv, CuentasBien
<1> QED BY <1>1, <1>2 DEF TipoInv, TypeOKContratos, TablasBien, PeticionesBien, EventosBien,
                          CuentasBien, PeticionBien, EventoBien, HayServicio

\* An idle request.
LEMMA SinPeticionBien == PeticionBien(SinPeticion)
BY DEF PeticionBien, SinPeticion, Campos, DeModificatorios

----
(* The queue of events. *)

LEMMA UnoMenos ==
  ASSUME NEW V, NEW q \in Seq(V), NEW k \in DOMAIN q
  PROVE  /\ RemoveAt(q, k) \in Seq(V)
         /\ Len(RemoveAt(q, k)) = Len(q) - 1
         /\ \A j \in 1..(Len(q) - 1) :
              RemoveAt(q, k)[j] = IF j < k THEN q[j] ELSE q[j + 1]
<1> DEFINE a == SubSeq(q, 1, k - 1)
           b == SubSeq(q, k + 1, Len(q))
<1>1. Len(q) \in Nat /\ k \in 1..Len(q) /\ k \in Int /\ \A i \in 1..Len(q) : q[i] \in V
  OBVIOUS
<1>2. a \in Seq(V) /\ Len(a) = k - 1 /\ \A i \in 1..(k - 1) : a[i] = q[i]
  <2>1. \A i \in 1..(k - 1) : q[i] \in V BY <1>1
  <2> QED BY <1>1, <2>1, SubSeqProperties
<1>3. b \in Seq(V) /\ Len(b) = Len(q) - k /\ \A i \in 1..(Len(q) - k) : b[i] = q[i + k]
  <2>1. \A i \in (k + 1)..Len(q) : q[i] \in V BY <1>1
  <2>2. k + 1 \in Int /\ Len(q) \in Int BY <1>1
  <2>3. /\ b \in Seq(V) /\ Len(b) = IF k + 1 <= Len(q) THEN Len(q) - (k + 1) + 1 ELSE 0
        /\ \A i \in 1..(Len(q) - (k + 1) + 1) : b[i] = q[k + 1 + i - 1]
    BY <2>1, <2>2, SubSeqProperties
  <2>4. \A i \in 1..(Len(q) - k) : i \in 1..(Len(q) - (k + 1) + 1) /\ k + 1 + i - 1 = i + k
    BY <1>1
  <2> QED BY <1>1, <2>3, <2>4
<1> HIDE DEF a, b
<1>4. RemoveAt(q, k) = a \o b BY DEF RemoveAt, a, b
<1>5. /\ a \o b \in Seq(V) /\ Len(a \o b) = Len(q) - 1
      /\ \A i \in 1..(Len(q) - 1) : (a \o b)[i] = IF i <= k - 1 THEN a[i] ELSE b[i - (k - 1)]
  <2>1. Len(a) + Len(b) = Len(q) - 1 BY <1>1, <1>2, <1>3
  <2>2. /\ a \o b \in Seq(V) /\ Len(a \o b) = Len(a) + Len(b)
        /\ \A i \in 1..(Len(a) + Len(b)) :
             (a \o b)[i] = IF i <= Len(a) THEN a[i] ELSE b[i - Len(a)]
    BY <1>2, <1>3, ConcatProperties
  <2> QED BY <1>2, <2>1, <2>2
<1>6. ASSUME NEW j \in 1..(Len(q) - 1)
      PROVE  (a \o b)[j] = IF j < k THEN q[j] ELSE q[j + 1]
  <2>1. CASE j < k
    <3>1. j <= k - 1 /\ j \in 1..(k - 1) BY <1>1, <2>1
    <3> QED BY <1>2, <1>5, <2>1, <3>1
  <2>2. CASE ~(j < k)
    <3>1. ~(j <= k - 1) /\ j - (k - 1) \in 1..(Len(q) - k) /\ j - (k - 1) + k = j + 1
      BY <1>1, <2>2
    <3> QED BY <1>1, <1>3, <1>5, <2>2, <3>1
  <2> QED BY <2>1, <2>2
<1> QED BY <1>4, <1>5, <1>6

\* What events are left of a queue, and what new ones join it.
Cola == \E V : eventos \in Seq(V)
LEMMA QuedanEventos ==
  ASSUME Cola, NEW k \in DOMAIN eventos, Despachado(k)
  PROVE  /\ Cola'
         /\ \A j \in DOMAIN eventos' : \E i \in DOMAIN eventos : i # k /\ eventos'[j] = eventos[i]
         /\ \A i \in DOMAIN eventos : i # k => \E j \in DOMAIN eventos' : eventos'[j] = eventos[i]
<1>1. PICK V : eventos \in Seq(V) BY DEF Cola
<1>2. /\ eventos' \in Seq(V) /\ Len(eventos') = Len(eventos) - 1
      /\ \A j \in 1..(Len(eventos) - 1) :
           eventos'[j] = IF j < k THEN eventos[j] ELSE eventos[j + 1]
  BY <1>1, UnoMenos DEF Despachado
<1>3. DOMAIN eventos' = 1..(Len(eventos) - 1) /\ DOMAIN eventos = 1..Len(eventos)
      /\ Len(eventos) \in Nat
  BY <1>1, <1>2
<1>4. ASSUME NEW j \in DOMAIN eventos'
      PROVE  \E i \in DOMAIN eventos : i # k /\ eventos'[j] = eventos[i]
  <2>1. CASE j < k BY <1>2, <1>3, <2>1
  <2>2. CASE ~(j < k)
    <3>1. j + 1 \in DOMAIN eventos /\ j + 1 # k BY <1>3, <2>2
    <3> QED BY <1>2, <1>3, <2>2, <3>1
  <2> QED BY <2>1, <2>2
<1>5. ASSUME NEW i \in DOMAIN eventos, i # k
      PROVE  \E j \in DOMAIN eventos' : eventos'[j] = eventos[i]
  <2>1. CASE i < k
    <3>1. i \in DOMAIN eventos' /\ eventos'[i] = eventos[i] BY <1>2, <1>3, <2>1
    <3> QED BY <3>1
  <2>2. CASE ~(i < k)
    <3>1. i - 1 \in DOMAIN eventos' /\ eventos'[i - 1] = eventos[i]
      BY <1>2, <1>3, <1>5, <2>2
    <3> QED BY <3>1
  <2> QED BY <2>1, <2>2
<1> QED BY <1>2, <1>4, <1>5 DEF Cola

LEMMA SeSumanEventos ==
  ASSUME Cola, NEW nuevos, NEW W, nuevos \in Seq(W), Emitir(nuevos)
  PROVE  /\ Cola' /\ Len(eventos') = Len(eventos) + Len(nuevos)
         /\ \A j \in DOMAIN eventos' : \/ \E i \in DOMAIN eventos : eventos'[j] = eventos[i]
                                       \/ \E i \in DOMAIN nuevos : eventos'[j] = nuevos[i]
         /\ \A i \in DOMAIN eventos : i \in DOMAIN eventos' /\ eventos'[i] = eventos[i]
         /\ \A i \in DOMAIN nuevos : \E j \in DOMAIN eventos' : eventos'[j] = nuevos[i]
<1>1. PICK V : eventos \in Seq(V) BY DEF Cola
<1> DEFINE U == V \cup W
<1>2. eventos \in Seq(U) /\ nuevos \in Seq(U) BY <1>1
<1> HIDE DEF U
<1>3. /\ eventos' \in Seq(U) /\ Len(eventos') = Len(eventos) + Len(nuevos)
      /\ \A i \in 1..(Len(eventos) + Len(nuevos)) :
           eventos'[i] = IF i <= Len(eventos) THEN eventos[i] ELSE nuevos[i - Len(eventos)]
  BY <1>2, ConcatProperties DEF Emitir
<1>4. /\ DOMAIN eventos' = 1..(Len(eventos) + Len(nuevos)) /\ Len(eventos) \in Nat
      /\ DOMAIN eventos = 1..Len(eventos) /\ DOMAIN nuevos = 1..Len(nuevos) /\ Len(nuevos) \in Nat
  BY <1>2, <1>3
<1>5. ASSUME NEW j \in DOMAIN eventos'
      PROVE  \/ \E i \in DOMAIN eventos : eventos'[j] = eventos[i]
             \/ \E i \in DOMAIN nuevos : eventos'[j] = nuevos[i]
  <2>1. CASE j <= Len(eventos) BY <1>3, <1>4, <2>1
  <2>2. CASE ~(j <= Len(eventos))
    <3>1. j - Len(eventos) \in DOMAIN nuevos BY <1>4, <2>2
    <3> QED BY <1>3, <1>4, <2>2, <3>1
  <2> QED BY <2>1, <2>2
<1>6. ASSUME NEW i \in DOMAIN nuevos PROVE \E j \in DOMAIN eventos' : eventos'[j] = nuevos[i]
  <2>1. /\ Len(eventos) + i \in DOMAIN eventos' /\ ~(Len(eventos) + i <= Len(eventos))
        /\ Len(eventos) + i - Len(eventos) = i
    BY <1>4
  <2> QED BY <1>3, <1>4, <2>1
<1> QED BY <1>3, <1>4, <1>5, <1>6 DEF Cola

----
(* Requests. *)

\* The request h moves, and no other.
Mueve(h) == DOMAIN peticion' = Hilos /\ \A g \in Hilos : g # h => peticion'[g] = peticion[g]

\* Nothing else changes.
SoloPeticiones == UNCHANGED <<proveedor, contratos, dia, red, eventos, cuentas>>

\* No service goes away.
ServiciosQuedan == \A s \in Servicios : HayServicio(s) => HayServicio(s)'

LEMMA MueveResponder ==
  ASSUME PeticionesBien, NEW h \in Hilos, Responder(h)
  PROVE  /\ Mueve(h) /\ peticion'[h] = SinPeticion /\ peticion'[h].en = "libre"
         /\ peticion'[h].op = "-" /\ PeticionBien(peticion'[h])
<1>1. SinPeticion.en = "libre" /\ SinPeticion.op = "-" BY DEF SinPeticion
<1> QED BY <1>1, SinPeticionBien DEF Responder, Mueve, PeticionesBien

LEMMA MueveSeguir ==
  ASSUME PeticionesBien, NEW h \in Hilos, NEW en, Seguir(h, en)
  PROVE  /\ Mueve(h) /\ peticion'[h] = [peticion[h] EXCEPT !.en = en]
         /\ peticion'[h].en = en
BY DEF Seguir, Mueve, PeticionesBien, PeticionBien, Campos

\* Requests keep holding what they may write.
LEMMA TipoPeticiones ==
  ASSUME TipoInv, NEW h \in Hilos, Mueve(h), PeticionBien(peticion'[h]), ServiciosQuedan,
         peticion'[h].op = "extender" /\ peticion'[h].en \in {"leer", "insertar"} =>
           h \in PorInsertar
  PROVE  /\ PeticionesBien'
         /\ Cardinality(PorInsertar') <= Cardinality(PorInsertar)
         /\ Cardinality(PorInsertar') \in Nat
<1>1. \A g \in Hilos : PeticionBien(peticion'[g]) BY DEF Mueve, TipoInv, PeticionesBien
<1>2. ASSUME NEW g \in Hilos PROVE PeticionBien(peticion[g])'
  BY <1>1 DEF PeticionBien, ServiciosQuedan
<1>3. PorInsertar' \subseteq PorInsertar BY DEF PorInsertar, Mueve
<1>4. IsFiniteSet(PorInsertar) BY ProveedorAssumption, FS_Subset DEF PorInsertar
<1> QED BY <1>2, <1>3, <1>4, FS_Subset, FS_CardinalityType DEF PeticionesBien, Mueve

LEMMA TipoSoloPeticiones ==
  ASSUME TipoInv, NEW h \in Hilos, Mueve(h), PeticionBien(peticion'[h]), SoloPeticiones,
         peticion'[h].op = "extender" /\ peticion'[h].en \in {"leer", "insertar"} =>
           h \in PorInsertar
  PROVE  TipoInv'
<1>1. UNCHANGED <<proveedor, maestro, modificatorio, hoy, revisado, estacion, servicio,
                  renovacion, eventos, inicios, incidentes, fallos>>
  BY DEF SoloPeticiones, contratos, dia, red, cuentas
<1>2. ServiciosQuedan BY <1>1 DEF ServiciosQuedan, HayServicio
<1>3. PeticionesBien' /\ Cardinality(PorInsertar') <= Cardinality(PorInsertar)
      /\ Cardinality(PorInsertar') \in Nat
  BY <1>2, TipoPeticiones
<1>4. TablasBien' /\ EventosBien'
  BY <1>1 DEF TipoInv, TablasBien, EventosBien, EventoBien, HayServicio
<1>5. CuentasBien'
  <2>1. Cardinality(PorInsertar) \in Nat
    BY ProveedorAssumption, FS_Subset, FS_CardinalityType DEF PorInsertar
  <2>2. Len(modificatorio) \in Nat /\ MaxModificatorios \in Nat
    BY ProveedorAssumption DEF TipoInv, TablasBien
  <2> QED BY <1>1, <1>3, <2>1, <2>2 DEF TipoInv, CuentasBien
<1> QED BY <1>3, <1>4, <1>5 DEF TipoInv

\* The steps of a request that only read.
Lee(h) ==
  \/ ContarVivos(h) \/ ContarEstacion(h) \/ LeerEstacion(h) \/ BuscarEstacion(h)
  \/ LeerServicio(h) \/ isFirstRenovation(h) \/ LeerAnterior(h) \/ LeerRenovacion(h)
  \/ ExisteNumero(h) \/ LeerProveedor(h) \/ Verificar(h) \/ LeerMaestro(h) \/ BuscarFila(h)
  \/ BuscarModificatorios(h) \/ LeerParaExtender(h) \/ LeerModificatorio(h)
  \/ LeerMaestroExtendido(h) \/ ContarPorTermino(h) \/ LeerParaCambiar(h)
  \/ LeerVencidos(h) \/ LeerProveedores(h)

\* What the row of a request says after one column of it changed.
LEMMA TipoLee ==
  ASSUME TipoInv, NEW h \in Hilos, Lee(h)
  PROVE  /\ SoloPeticiones /\ Mueve(h) /\ PeticionBien(peticion'[h])
         /\ peticion'[h].op = "extender" /\ peticion'[h].en \in {"leer", "insertar"} =>
              h \in PorInsertar
<1> DEFINE q == peticion[h]
           bien == /\ SoloPeticiones /\ Mueve(h) /\ PeticionBien(peticion'[h])
                   /\ peticion'[h].op = "extender" /\ peticion'[h].en \in {"leer", "insertar"} =>
                        h \in PorInsertar
<1>1. PeticionesBien /\ PeticionBien(q) /\ DOMAIN q = Campos /\ DOMAIN peticion = Hilos
  BY DEF TipoInv, PeticionesBien, PeticionBien
<1>r. ASSUME Responder(h), SoloPeticiones PROVE bien BY <1>1, <1>r, MueveResponder
<1>s. ASSUME NEW en, Seguir(h, en), SoloPeticiones, PeticionBien([q EXCEPT !.en = en]),
             q.op = "extender" => en \notin {"leer", "insertar"}
      PROVE  bien
  <2>1. [q EXCEPT !.en = en].op = q.op /\ "op" \in DOMAIN q BY <1>1 DEF Campos
  <2>2. /\ Mueve(h) /\ peticion'[h] = [q EXCEPT !.en = en] /\ peticion'[h].en = en
    BY <1>1, <1>s, MueveSeguir
  <2> QED BY <1>s, <2>1, <2>2
<1>p. ASSUME NEW r, peticion' = [peticion EXCEPT ![h] = r], SoloPeticiones, PeticionBien(r),
             r.op = "extender" =>
               r.en \notin {"leer", "insertar"} \/ (q.en = "leer" /\ q.op = "extender")
      PROVE  bien
  BY <1>1, <1>p DEF Mueve, PorInsertar
<1>2. ASSUME ContarVivos(h) PROVE bien
  <2>1. PeticionBien([q EXCEPT !.en = "escribirProveedor"])
    BY <1>1 DEF PeticionBien, Campos, DeModificatorios
  <2> QED BY <1>2, <1>r, <1>s, <2>1 DEF ContarVivos, SeguirSi, SoloPeticiones
<1>3. ASSUME ContarEstacion(h) PROVE bien
  <2> DEFINE r == [q EXCEPT !.en = "guardarEstacion", !.habilitado = countActiveContracts > 0]
  <2>1. PeticionBien(r) /\ r.op = q.op /\ r.en = "guardarEstacion"
    BY <1>1 DEF PeticionBien, Campos, DeModificatorios
  <2>2. peticion' = [peticion EXCEPT ![h] = r] /\ SoloPeticiones
    BY <1>3 DEF ContarEstacion, SoloPeticiones
  <2> HIDE DEF r
  <2> QED BY <1>p, <2>1, <2>2
<1>4. ASSUME LeerEstacion(h) PROVE bien
  <2>1. PeticionBien([q EXCEPT !.en = "guardarEstacion"])
    BY <1>1 DEF PeticionBien, Campos, DeModificatorios
  <2>2. SoloPeticiones /\ (Seguir(h, "guardarEstacion") \/ Responder(h))
    BY <1>4 DEF LeerEstacion, SeguirSi, SoloPeticiones
  <2> QED BY <1>r, <1>s, <2>1, <2>2
<1>5. ASSUME BuscarEstacion(h) PROVE bien
  <2>1. SoloPeticiones /\ q.en = "buscarEstacion"
    BY <1>5 DEF BuscarEstacion, SoloPeticiones
  <2>2. CASE Responder(h) BY <1>r, <2>1, <2>2
  <2>3. CASE \E e \in Estaciones :
               peticion' = [peticion EXCEPT ![h].en = "guardarServicio", ![h].e = e]
    <3>1. PICK e \in Estaciones :
            peticion' = [peticion EXCEPT ![h].en = "guardarServicio", ![h].e = e]
      BY <2>3
    <3> DEFINE r == [q EXCEPT !.en = "guardarServicio", !.e = e]
    <3>2. PeticionBien(r) /\ r.en = "guardarServicio"
      BY <1>1, <2>1 DEF PeticionBien, Campos, DeModificatorios
    <3>3. peticion' = [peticion EXCEPT ![h] = r] BY <3>1
    <3> HIDE DEF r
    <3> QED BY <1>p, <2>1, <3>2, <3>3
  <2> QED BY <1>5, <2>2, <2>3 DEF BuscarEstacion
<1>6. ASSUME LeerServicio(h) PROVE bien
  <2> DEFINE r == [q EXCEPT !.en = "escribirServicio", !.tipo = servicio[q.s].tipo]
  <2>1. peticion' = [peticion EXCEPT ![h] = r] /\ SoloPeticiones /\ q.en = "leerServicio"
    BY <1>6 DEF LeerServicio, SoloPeticiones
  <2>2. servicio[q.s] \in Servicio
    BY <1>1, <2>1 DEF PeticionBien, TipoInv, TablasBien, HayServicio
  <2>3. PeticionBien(r) /\ r.en = "escribirServicio"
    BY <1>1, <2>1, <2>2 DEF PeticionBien, Campos, DeModificatorios, Servicio
  <2> HIDE DEF r
  <2> QED BY <1>p, <2>1, <2>3
<1>7. ASSUME isFirstRenovation(h) PROVE bien
  <2>1. SoloPeticiones /\ q.en = "primera" /\ (Seguir(h, "nueva") \/ Seguir(h, "anterior"))
    BY <1>7 DEF isFirstRenovation, SoloPeticiones
  <2>2. PeticionBien([q EXCEPT !.en = "nueva"]) /\ PeticionBien([q EXCEPT !.en = "anterior"])
    BY <1>1, <2>1 DEF PeticionBien, Campos, DeModificatorios
  <2> QED BY <1>s, <2>1, <2>2
<1>8. ASSUME LeerAnterior(h) PROVE bien
  <2>1. SoloPeticiones /\ q.en = "anterior" BY <1>8 DEF LeerAnterior, SoloPeticiones
  <2>2. CASE Responder(h) BY <1>r, <2>1, <2>2
  <2>3. ASSUME NEW n, peticion' = [peticion EXCEPT ![h].en = "baja", ![h].i = n] PROVE bien
    <3> DEFINE r == [q EXCEPT !.en = "baja", !.i = n]
    <3>1. PeticionBien(r) /\ r.en = "baja" /\ peticion' = [peticion EXCEPT ![h] = r]
      BY <1>1, <2>1, <2>3 DEF PeticionBien, Campos, DeModificatorios
    <3> HIDE DEF r
    <3> QED BY <1>p, <2>1, <3>1
  <2> QED BY <1>8, <2>2, <2>3 DEF LeerAnterior
<1>9. ASSUME LeerRenovacion(h) PROVE bien
  <2>1. PeticionBien([q EXCEPT !.en = "borrarRenovacion"])
    BY <1>1 DEF PeticionBien, Campos, DeModificatorios
  <2> QED BY <1>9, <1>r, <1>s, <2>1 DEF LeerRenovacion, SeguirSi, SoloPeticiones
<1>10. ASSUME NEW en \in {"leerProveedor", "contar", "modificatorios", "guardar", "leerEstatus",
                          "cambiarEstatus"},
              SoloPeticiones, Seguir(h, en) \/ Responder(h)
       PROVE  bien
  <2>1. PeticionBien([q EXCEPT !.en = en])
    BY <1>1 DEF PeticionBien, Campos, DeModificatorios
  <2> QED BY <1>10, <1>r, <1>s, <2>1
<1>11. ASSUME ExisteNumero(h) PROVE bien
  BY <1>10, <1>11 DEF ExisteNumero, SeguirSi, SoloPeticiones
<1>12. ASSUME LeerProveedor(h) PROVE bien
  <2> DEFINE r == [q EXCEPT !.en = "verificar", !.habilitado = proveedor]
  <2>1. proveedor \in BOOLEAN BY DEF TipoInv, TablasBien
  <2>2. PeticionBien(r) /\ r.en = "verificar"
    BY <1>1, <2>1 DEF PeticionBien, Campos, DeModificatorios
  <2>3. peticion' = [peticion EXCEPT ![h] = r] /\ SoloPeticiones
    BY <1>12 DEF LeerProveedor, SoloPeticiones
  <2> HIDE DEF r
  <2> QED BY <1>p, <2>2, <2>3
<1>13. ASSUME Verificar(h) PROVE bien
  BY <1>10, <1>13 DEF Verificar, SeguirSi, SoloPeticiones
<1>14. ASSUME LeerMaestro(h) PROVE bien
  BY <1>10, <1>14 DEF LeerMaestro, SeguirSi, SoloPeticiones
<1>15. ASSUME LeerParaCambiar(h) PROVE bien
  BY <1>10, <1>15 DEF LeerParaCambiar, SeguirSi, SoloPeticiones
<1>16. ASSUME BuscarFila(h) PROVE bien
  <2>1. SoloPeticiones BY <1>16 DEF BuscarFila, SoloPeticiones
  <2>2. CASE Responder(h) BY <1>r, <2>1, <2>2
  <2>3. ASSUME NEW t, peticion' = [peticion EXCEPT ![h].en = "borrarFila", ![h].tipo = t]
        PROVE  bien
    <3> DEFINE r == [q EXCEPT !.en = "borrarFila", !.tipo = t]
    <3>1. PeticionBien(r) /\ r.en = "borrarFila" /\ peticion' = [peticion EXCEPT ![h] = r]
      BY <1>1, <2>3 DEF PeticionBien, Campos, DeModificatorios
    <3> HIDE DEF r
    <3> QED BY <1>p, <2>1, <3>1
  <2> QED BY <1>16, <2>2, <2>3 DEF BuscarFila
<1>17. ASSUME BuscarModificatorios(h) PROVE bien
  <2> DEFINE halladas == ModificatoriosVivos(q.m)
             r == [q EXCEPT !.lista = halladas,
                     !.en = IF halladas = {} THEN "cancelarMaestro" ELSE "cancelarModificatorio"]
  <2>1. peticion' = [peticion EXCEPT ![h] = r] /\ SoloPeticiones
    BY <1>17 DEF BuscarModificatorios, SoloPeticiones
  <2>2. PeticionBien(r) /\ r.en \in {"cancelarMaestro", "cancelarModificatorio"}
    <3> HIDE DEF halladas
    <3> QED BY <1>1 DEF PeticionBien, Campos, DeModificatorios
  <2> HIDE DEF r
  <2> QED BY <1>p, <2>1, <2>2
<1>18. ASSUME LeerParaExtender(h) PROVE bien
  <2>1. SoloPeticiones /\ q.en = "leer" /\ q.op = "extender"
    BY <1>18 DEF LeerParaExtender, SoloPeticiones
  <2>2. CASE Responder(h) BY <1>r, <2>1, <2>2
  <2>3. ASSUME NEW t, peticion' = [peticion EXCEPT ![h].en = "insertar",
                                     ![h].habilitado = proveedor, ![h].tipo = t]
        PROVE  bien
    <3> DEFINE r == [q EXCEPT !.en = "insertar", !.habilitado = proveedor, !.tipo = t]
    <3>1. proveedor \in BOOLEAN BY DEF TipoInv, TablasBien
    <3>2. PeticionBien(r) /\ peticion' = [peticion EXCEPT ![h] = r]
      BY <1>1, <2>1, <2>3, <3>1 DEF PeticionBien, Campos, DeModificatorios
    <3> HIDE DEF r
    <3> QED BY <1>p, <2>1, <3>2
  <2> QED BY <1>18, <2>2, <2>3 DEF LeerParaExtender
<1>19. ASSUME LeerModificatorio(h) PROVE bien
  <2> DEFINE r == [q EXCEPT !.en = "corregir", !.tipo = modificatorio[q.i].extension]
  <2>1. SoloPeticiones /\ q.op \in {"corregir", "descartar", "revocar"}
        /\ (peticion' = [peticion EXCEPT ![h] = r] \/ Responder(h))
    BY <1>19 DEF LeerModificatorio, SoloPeticiones
  <2>2. PeticionBien(r) /\ r.op # "extender"
    BY <1>1, <2>1 DEF PeticionBien, Campos, DeModificatorios
  <2> HIDE DEF r
  <2> QED BY <1>r, <1>p, <2>1, <2>2
<1>20. ASSUME LeerMaestroExtendido(h) PROVE bien
  <2>1. SoloPeticiones BY <1>20 DEF LeerMaestroExtendido, SoloPeticiones
  <2>2. CASE Responder(h) BY <1>r, <2>1, <2>2
  <2>3. CASE peticion' = [peticion EXCEPT ![h].en = "contar", ![h].habilitado = proveedor]
    <3> DEFINE r == [q EXCEPT !.en = "contar", !.habilitado = proveedor]
    <3>1. proveedor \in BOOLEAN BY DEF TipoInv, TablasBien
    <3>2. PeticionBien(r) /\ r.en = "contar" /\ peticion' = [peticion EXCEPT ![h] = r]
      BY <1>1, <2>3, <3>1 DEF PeticionBien, Campos, DeModificatorios
    <3> HIDE DEF r
    <3> QED BY <1>p, <2>1, <3>2
  <2> QED BY <1>20, <2>2, <2>3 DEF LeerMaestroExtendido
<1>21. ASSUME ContarPorTermino(h) PROVE bien
  <2> DEFINE r == [q EXCEPT !.en = "tipos", !.cuenta = countActiveContracts]
  <2>1. PeticionBien(r) /\ r.en = "tipos"
    BY <1>1 DEF PeticionBien, Campos, DeModificatorios
  <2>2. peticion' = [peticion EXCEPT ![h] = r] /\ SoloPeticiones
    BY <1>21 DEF ContarPorTermino, SoloPeticiones
  <2> HIDE DEF r
  <2> QED BY <1>p, <2>1, <2>2
<1>22. ASSUME LeerVencidos(h) PROVE bien
  <2> DEFINE vencidos == {m \in Maestros : Vencido(m)}
             porTerminar == {m \in vencidos : maestro[m].estatus \in Vivos}
             delFinal == UNION {maestro[m].tipos : m \in porTerminar}
             sigue == IF porTerminar # {} THEN "terminar"
                      ELSE IF \E m \in Maestros : HayMaestro(m) /\ Vence[m] < hoy THEN "vigentes"
                      ELSE "proveedores"
             r(en) == [q EXCEPT !.lista = porTerminar, !.tipos = delFinal, !.en = en]
  <2>1. /\ SoloPeticiones
        /\ \E en \in {"terminar", "vigentes", "proveedores"} :
             peticion' = [peticion EXCEPT ![h] = r(en)]
    <3>1. /\ SoloPeticiones
          /\ peticion' = [peticion EXCEPT ![h].lista = porTerminar, ![h].tipos = delFinal,
                                          ![h].en = sigue]
      BY <1>22 DEF LeerVencidos, SoloPeticiones
    <3>2. sigue \in {"terminar", "vigentes", "proveedores"}
      <4> HIDE DEF porTerminar
      <4> QED OBVIOUS
    <3> HIDE DEF sigue, delFinal, porTerminar
    <3>3. peticion' = [peticion EXCEPT ![h] = r(sigue)] BY <1>1, <3>1
    <3> HIDE DEF r
    <3> QED BY <3>1, <3>2, <3>3
  <2>2. ASSUME NEW en \in {"terminar", "vigentes", "proveedores"}
        PROVE  PeticionBien(r(en)) /\ r(en).en = en
    <3> HIDE DEF porTerminar, delFinal
    <3> QED BY <1>1 DEF PeticionBien, Campos, DeModificatorios
  <2> HIDE DEF r
  <2> QED BY <1>p, <2>1, <2>2
<1>23. ASSUME LeerProveedores(h) PROVE bien
  <2> DEFINE r == [q EXCEPT !.en = "contarDeProveedor", !.habilitado = proveedor]
  <2>1. proveedor \in BOOLEAN BY DEF TipoInv, TablasBien
  <2>2. PeticionBien(r) /\ r.en = "contarDeProveedor"
    BY <1>1, <2>1 DEF PeticionBien, Campos, DeModificatorios
  <2>3. peticion' = [peticion EXCEPT ![h] = r] /\ SoloPeticiones
    BY <1>23 DEF LeerProveedores, SoloPeticiones
  <2> HIDE DEF r
  <2> QED BY <1>p, <2>2, <2>3
<1> HIDE DEF bien
<1>24. bien
  BY <1>2, <1>3, <1>4, <1>5, <1>6, <1>7, <1>8, <1>9, <1>11, <1>12, <1>13, <1>14, <1>15, <1>16,
     <1>17, <1>18, <1>19, <1>20, <1>21, <1>22, <1>23 DEF Lee
<1> QED BY <1>24 DEF bien

----
(* Events that are emitted, changed or done with. *)

\* A new event asks for no service yet.
EventoNuevo(v) == DOMAIN v = CamposDeEvento /\ v.clase \in Clases /\ v.servicios = {}

LEMMA EventosNuevos ==
  /\ \A clase \in Clases : \A tipos : EventoNuevo(DeTipos(clase, tipos))
  /\ \A clase \in Clases : EventoNuevo(DeProveedor(clase))
  /\ \A s : EventoNuevo([Evento EXCEPT !.clase = "servicio.activado", !.s = s])
BY DEF EventoNuevo, DeTipos, DeProveedor, Evento, CamposDeEvento, Clases

Nuevos(nuevos) == \E W : nuevos \in Seq(W) /\ \A v \in W : EventoNuevo(v)

LEMMA NuevosSon ==
  /\ Nuevos(<<>>)
  /\ \A v : EventoNuevo(v) => Nuevos(<<v>>)
  /\ \A u, v : EventoNuevo(u) /\ EventoNuevo(v) => Nuevos(<<u, v>>)
<1>1. Nuevos(<<>>)
  <2> DEFINE W == {}
  <2>1. <<>> \in Seq(W) /\ \A v \in W : EventoNuevo(v) OBVIOUS
  <2> HIDE DEF W
  <2> QED BY <2>1 DEF Nuevos
<1>2. ASSUME NEW v, EventoNuevo(v) PROVE Nuevos(<<v>>)
  <2> DEFINE W == {v}
  <2>1. <<v>> \in Seq(W) /\ \A u \in W : EventoNuevo(u) BY <1>2
  <2> HIDE DEF W
  <2> QED BY <2>1 DEF Nuevos
<1>3. ASSUME NEW u, NEW v, EventoNuevo(u), EventoNuevo(v) PROVE Nuevos(<<u, v>>)
  <2> DEFINE W == {u, v}
  <2>1. <<u, v>> \in Seq(W) /\ \A w \in W : EventoNuevo(w) BY <1>3
  <2> HIDE DEF W
  <2> QED BY <2>1 DEF Nuevos
<1> QED BY <1>1, <1>2, <1>3

LEMMA TipoEmitir ==
  ASSUME EventosBien, ServiciosQuedan, NEW nuevos, Nuevos(nuevos), Emitir(nuevos)
  PROVE  EventosBien'
<1>1. Cola BY DEF EventosBien, Cola
<1>2. PICK W : nuevos \in Seq(W) /\ \A v \in W : EventoNuevo(v) BY DEF Nuevos
<1>3. /\ Cola'
      /\ \A j \in DOMAIN eventos' : \/ \E i \in DOMAIN eventos : eventos'[j] = eventos[i]
                                    \/ \E i \in DOMAIN nuevos : eventos'[j] = nuevos[i]
  BY <1>1, <1>2, SeSumanEventos
<1>4. ASSUME NEW j \in DOMAIN eventos' PROVE EventoBien(eventos[j])'
  <2>1. CASE \E i \in DOMAIN eventos : eventos'[j] = eventos[i]
    BY <2>1 DEF EventosBien, EventoBien, ServiciosQuedan
  <2>2. CASE \E i \in DOMAIN nuevos : eventos'[j] = nuevos[i]
    <3>1. PICK i \in DOMAIN nuevos : eventos'[j] = nuevos[i] BY <2>2
    <3>2. nuevos[i] \in W BY <1>2
    <3> QED BY <1>2, <3>1, <3>2 DEF EventoNuevo, EventoBien
  <2> QED BY <1>3, <2>1, <2>2
<1> QED BY <1>3, <1>4 DEF EventosBien, Cola

\* What create of a contract emits.
LEMMA HabilitarEs ==
  ASSUME NEW cuenta, NEW habilitado, NEW tipos
  PROVE  Habilitar(cuenta, habilitado, tipos) =
           IF cuenta = 0 /\ ~habilitado
             THEN <<DeProveedor("enable-provider"), DeTipos("enable-stations", tipos)>>
             ELSE <<DeTipos("enable-stations", tipos)>>
<1> DEFINE a == DeProveedor("enable-provider")
           b == DeTipos("enable-stations", tipos)
<1> HIDE DEF a, b
<1>1. <<a>> \o <<b>> = <<a, b>> /\ <<>> \o <<b>> = <<b>>
  <2>1. <<a>> \in Seq({a, b}) /\ <<b>> \in Seq({a, b}) /\ b \in {a, b} OBVIOUS
  <2>2. Append(<<a>>, b) = <<a, b>>
    <3> DEFINE S == {a, b}
               s == Append(<<a>>, b)
               t == <<a, b>>
    <3>1. s \in Seq(S) /\ Len(s) = 2 /\ s[1] = a /\ s[2] = b OBVIOUS
    <3>2. t \in Seq(S) /\ Len(t) = 2 /\ t[1] = a /\ t[2] = b OBVIOUS
    <3> HIDE DEF s, t, S
    <3>3. \A i \in 1..Len(s) : s[i] = t[i] BY <3>1, <3>2
    <3>4. s = t BY <3>1, <3>2, <3>3, SeqEqual
    <3> QED BY <3>4 DEF s, t
  <2> QED BY <2>1, <2>2, AppendIsConcat, ConcatEmptySeq
<1> QED BY <1>1 DEF Habilitar, a, b

LEMMA NuevosHabilitar ==
  ASSUME NEW cuenta, NEW habilitado, NEW tipos
  PROVE  Nuevos(Habilitar(cuenta, habilitado, tipos))
<1>1. EventoNuevo(DeProveedor("enable-provider")) /\ EventoNuevo(DeTipos("enable-stations", tipos))
  BY EventosNuevos DEF Clases
<1> QED BY <1>1, HabilitarEs, NuevosSon

\* A handler that is done.
LEMMA TipoDespachado ==
  ASSUME EventosBien, ServiciosQuedan, NEW k \in DOMAIN eventos, Despachado(k)
  PROVE  EventosBien'
<1>1. Cola'
      /\ \A j \in DOMAIN eventos' : \E i \in DOMAIN eventos : i # k /\ eventos'[j] = eventos[i]
  BY QuedanEventos DEF EventosBien, Cola
<1> QED BY <1>1 DEF EventosBien, Cola, EventoBien, ServiciosQuedan

\* A handler that goes on.
LEMMA TipoSigueEvento ==
  ASSUME EventosBien, ServiciosQuedan, NEW k \in DOMAIN eventos, NEW v,
         DOMAIN v = CamposDeEvento, v.clase \in Clases,
         \A s \in v.servicios : s \in Servicios /\ HayServicio(s),
         eventos' = [eventos EXCEPT ![k] = v]
  PROVE  EventosBien'
<1>1. PICK V : eventos \in Seq(V) BY DEF EventosBien
<1> DEFINE U == V \cup {v}
<1>2. eventos \in Seq(U) /\ v \in U BY <1>1
<1> HIDE DEF U
<1>3. eventos' \in Seq(U) /\ DOMAIN eventos' = DOMAIN eventos BY <1>2
<1>4. ASSUME NEW j \in DOMAIN eventos' PROVE EventoBien(eventos[j])'
  <2>1. CASE j = k
    <3>1. eventos'[j] = v BY <1>3, <2>1
    <3> QED BY <3>1 DEF EventoBien, ServiciosQuedan
  <2>2. CASE j # k
    <3>1. eventos'[j] = eventos[j] /\ j \in DOMAIN eventos BY <1>3, <2>2
    <3> QED BY <3>1 DEF EventosBien, EventoBien, ServiciosQuedan
  <2> QED BY <2>1, <2>2
<1> QED BY <1>3, <1>4 DEF EventosBien

----
(* The steps of a request that write. *)

LEMMA TipoEventosIguales ==
  ASSUME EventosBien, ServiciosQuedan, eventos' = eventos
  PROVE  EventosBien'
BY DEF EventosBien, EventoBien, ServiciosQuedan

LEMMA TipoEscribe ==
  ASSUME TipoInv, NEW h \in Hilos, Mueve(h), PeticionBien(peticion'[h]), ServiciosQuedan,
         peticion'[h].op = "extender" /\ peticion'[h].en \in {"leer", "insertar"} =>
           h \in PorInsertar,
         TablasBien', EventosBien', Len(modificatorio') = Len(modificatorio), UNCHANGED cuentas
  PROVE  TipoInv'
<1>1. PeticionesBien' /\ Cardinality(PorInsertar') <= Cardinality(PorInsertar)
      /\ Cardinality(PorInsertar') \in Nat
  BY TipoPeticiones
<1>2. CuentasBien'
  <2>1. Cardinality(PorInsertar) \in Nat
    BY ProveedorAssumption, FS_Subset, FS_CardinalityType DEF PorInsertar
  <2>2. Len(modificatorio) \in Nat /\ MaxModificatorios \in Nat
    BY ProveedorAssumption DEF TipoInv, TablasBien
  <2>3. UNCHANGED <<inicios, incidentes, fallos>> BY DEF cuentas
  <2>4. Len(modificatorio') + Cardinality(PorInsertar') <= MaxModificatorios
    BY <1>1, <2>1, <2>2 DEF TipoInv, CuentasBien
  <2> QED BY <2>3, <2>4 DEF TipoInv, CuentasBien
<1> QED BY <1>1, <1>2 DEF TipoInv

\* A request that only changes tables other than the services.
LEMMA ServiciosIguales ==
  ASSUME servicio' = servicio PROVE ServiciosQuedan
BY DEF ServiciosQuedan, HayServicio

\* Writing a status, or the types, of a master.
LEMMA TipoMaestro ==
  ASSUME TablasBien, NEW m, NEW r,
         m \in Maestros =>
           /\ r \in [estatus : ESTATUS_DE_CONTRATO \cup {"NO_EXISTE", "BORRADO"},
                     tipos : SUBSET Tipos]
           /\ r.tipos # {} => r.estatus \in ESTATUS_DE_CONTRATO,
         maestro' = [maestro EXCEPT ![m] = r],
         proveedor' \in BOOLEAN,
         UNCHANGED <<modificatorio, hoy, revisado, estacion, servicio, renovacion>>
  PROVE  TablasBien'
BY DEF TablasBien, HayServicio

\* A status, among those of a contract.
LEMMA TipoConEstatus ==
  ASSUME TablasBien, NEW m, NEW estatus \in ESTATUS_DE_CONTRATO,
         maestro' = ConEstatus(m, estatus),
         UNCHANGED <<proveedor, modificatorio, hoy, revisado, estacion, servicio, renovacion>>
  PROVE  TablasBien'
<1>1. CASE maestro' = maestro BY <1>1 DEF TablasBien, HayServicio
<1>2. CASE maestro' = [maestro EXCEPT ![m].estatus = estatus]
  <2> DEFINE r == [maestro[m] EXCEPT !.estatus = estatus]
             E == ESTATUS_DE_CONTRATO \cup {"NO_EXISTE", "BORRADO"}
  <2>1. maestro' = [maestro EXCEPT ![m] = r] BY <1>2
  <2>2. ASSUME m \in Maestros
        PROVE  r \in [estatus : E, tipos : SUBSET Tipos] /\ r.estatus \in ESTATUS_DE_CONTRATO
    <3>1. maestro[m] \in [estatus : E, tipos : SUBSET Tipos] /\ estatus \in E
      BY <2>2 DEF TablasBien
    <3> HIDE DEF E
    <3> QED BY <3>1
  <2>3. proveedor' \in BOOLEAN BY DEF TablasBien
  <2> HIDE DEF r
  <2> QED BY <2>1, <2>2, <2>3, TipoMaestro
<1> QED BY <1>1, <1>2 DEF ConEstatus

\* Changing one element, or none, of a sequence.
LEMMA SeqExcept ==
  ASSUME NEW S, NEW s \in Seq(S), NEW i, NEW v, i \in DOMAIN s => v \in S
  PROVE  /\ [s EXCEPT ![i] = v] \in Seq(S) /\ Len([s EXCEPT ![i] = v]) = Len(s)
         /\ DOMAIN [s EXCEPT ![i] = v] = DOMAIN s
<1>1. CASE i \in DOMAIN s
  <2>1. i \in 1..Len(s) /\ v \in S BY <1>1
  <2> QED BY <2>1, ExceptSeq
<1>2. CASE i \notin DOMAIN s
  <2>1. [s EXCEPT ![i] = v] = s BY <1>2
  <2> QED BY <2>1
<1> QED BY <1>1, <1>2

\* A row of the amendments.
LEMMA TipoModificatorio ==
  ASSUME TablasBien, NEW i, NEW r, i \in DOMAIN modificatorio => r \in Modificatorio,
         modificatorio' = [modificatorio EXCEPT ![i] = r],
         UNCHANGED <<proveedor, maestro, hoy, revisado, estacion, servicio, renovacion>>
  PROVE  TablasBien' /\ Len(modificatorio') = Len(modificatorio)
<1>1. modificatorio' \in Seq(Modificatorio) /\ Len(modificatorio') = Len(modificatorio)
  <2>1. modificatorio \in Seq(Modificatorio) BY DEF TablasBien
  <2> DEFINE s == [modificatorio EXCEPT ![i] = r]
  <2>2. s \in Seq(Modificatorio) /\ Len(s) = Len(modificatorio) BY <2>1, SeqExcept
  <2>3. modificatorio' = s OBVIOUS
  <2> QED BY <2>2, <2>3
<1> QED BY <1>1 DEF TablasBien, HayServicio

\* The renewals of a service.
LEMMA TipoRenovacion ==
  ASSUME TablasBien, NEW s, NEW r,
         s \in Servicios => r \in Seq(Renovacion) /\ (~HayServicio(s) => r = <<>>),
         renovacion' = [renovacion EXCEPT ![s] = r],
         UNCHANGED <<proveedor, maestro, modificatorio, hoy, revisado, estacion, servicio>>
  PROVE  TablasBien'
BY DEF TablasBien, HayServicio

\* The row of a service.
LEMMA TipoServicio ==
  ASSUME TablasBien, NEW s, NEW r \in Servicio, servicio' = [servicio EXCEPT ![s] = r],
         UNCHANGED <<proveedor, maestro, modificatorio, hoy, revisado, estacion, renovacion>>
  PROVE  TablasBien' /\ ServiciosQuedan
<1>1. r # SinServicio BY ProveedorAssumption DEF Servicio, SinServicio
<1> QED BY <1>1 DEF TablasBien, HayServicio, ServiciosQuedan

LEMMA TipoRed ==
  ASSUME TipoInv, NEW h \in Hilos,
         EscribirProveedor(h) \/ GuardarEstacion(h) \/ GuardarServicio(h) \/ EscribirServicio(h)
         \/ BajaAnterior(h) \/ GuardarRenovacion(h) \/ BorrarRenovacion(h)
  PROVE  TipoInv'
<1> DEFINE q == peticion[h]
<1>1. /\ PeticionBien(q) /\ DOMAIN q = Campos /\ PeticionesBien /\ TablasBien /\ EventosBien
  BY DEF TipoInv, PeticionesBien, PeticionBien
<1>r. ASSUME Responder(h), TablasBien', EventosBien', ServiciosQuedan,
             UNCHANGED <<modificatorio, cuentas>>
      PROVE  TipoInv'
  <2>1. Mueve(h) /\ peticion'[h].op = "-" /\ PeticionBien(peticion'[h])
    BY <1>1, <1>r, MueveResponder
  <2> QED BY <1>r, <2>1, TipoEscribe
<1>2. ASSUME EscribirProveedor(h) PROVE TipoInv'
  <2>1. /\ Responder(h)
        /\ UNCHANGED <<maestro, modificatorio, hoy, revisado, estacion, servicio, renovacion,
                       eventos, cuentas>>
    BY <1>2 DEF EscribirProveedor, contratos, dia, red
  <2>2. proveedor' \in BOOLEAN
    <3>1. CASE q.op = "parche" BY <1>1, <1>2, <3>1 DEF EscribirProveedor, PeticionBien
    <3>2. CASE q.op # "parche"
      <4>1. proveedor' = (q.op \in Habilita) BY <1>2, <3>2 DEF EscribirProveedor
      <4> QED BY <4>1
    <3> QED BY <3>1, <3>2
  <2>3. TablasBien' /\ ServiciosQuedan
    BY <1>1, <2>1, <2>2 DEF TablasBien, HayServicio, ServiciosQuedan
  <2> QED BY <1>1, <1>r, <2>1, <2>3, TipoEventosIguales
<1>3. ASSUME GuardarEstacion(h) PROVE TipoInv'
  <2>1. /\ Responder(h)
        /\ UNCHANGED <<proveedor, maestro, modificatorio, hoy, revisado, servicio, renovacion,
                       eventos, cuentas>>
    BY <1>3 DEF GuardarEstacion, contratos, dia
  <2>2. estacion' \in [Estaciones -> {"NO_EXISTE", "ACTIVA", "INACTIVA", "BORRADA"}]
    BY <1>1, <1>3 DEF GuardarEstacion, Encendida, TablasBien
  <2>3. TablasBien' /\ ServiciosQuedan
    BY <1>1, <2>1, <2>2 DEF TablasBien, HayServicio, ServiciosQuedan
  <2> QED BY <1>1, <1>r, <2>1, <2>3, TipoEventosIguales
<1>4. ASSUME GuardarServicio(h) PROVE TipoInv'
  <2> DEFINE r == [estacion |-> q.e, tipo |-> q.tipo, estatus |-> TRUE]
  <2>1. /\ Responder(h) /\ r \in Servicio
        /\ UNCHANGED <<proveedor, maestro, modificatorio, hoy, revisado, estacion, renovacion,
                       eventos, cuentas>>
        /\ servicio' = servicio \/ servicio' = [servicio EXCEPT ![q.s] = r]
    BY <1>1, <1>4 DEF GuardarServicio, contratos, dia, PeticionBien, Servicio
  <2>2. TablasBien' /\ ServiciosQuedan
    <3>1. CASE servicio' = servicio
      BY <1>1, <2>1, <3>1 DEF TablasBien, HayServicio, ServiciosQuedan
    <3>2. CASE servicio' = [servicio EXCEPT ![q.s] = r]
      <4> HIDE DEF r
      <4> QED BY <1>1, <2>1, <3>2, TipoServicio
    <3> QED BY <2>1, <3>1, <3>2
  <2> QED BY <1>1, <1>r, <2>1, <2>2, TipoEventosIguales
<1>5. ASSUME EscribirServicio(h) PROVE TipoInv'
  <2>1. /\ q.s \in Servicios /\ servicio[q.s] \in Servicio /\ q.tipo \in Tipos
        /\ q.op \in {"apagarServicio", "tipoServicio", "activarServicio"}
    BY <1>1, <1>5 DEF EscribirServicio, PeticionBien, TablasBien, HayServicio
  <2>2. /\ Responder(h)
        /\ UNCHANGED <<proveedor, maestro, modificatorio, hoy, revisado, estacion, renovacion,
                       cuentas>>
    BY <1>5 DEF EscribirServicio, contratos, dia
  <2>3. \E r \in Servicio : servicio' = [servicio EXCEPT ![q.s] = r]
    <3>1. CASE q.op = "apagarServicio"
      <4> DEFINE r == [servicio[q.s] EXCEPT !.estatus = FALSE]
      <4>1. r \in Servicio /\ servicio' = [servicio EXCEPT ![q.s] = r]
        BY <1>5, <2>1, <3>1 DEF EscribirServicio, Servicio
      <4> QED BY <4>1
    <3>2. CASE q.op = "tipoServicio"
      <4> DEFINE r == [servicio[q.s] EXCEPT !.tipo = q.tipo]
      <4>1. r \in Servicio /\ servicio' = [servicio EXCEPT ![q.s] = r]
        BY <1>5, <2>1, <3>2 DEF EscribirServicio, Servicio
      <4> QED BY <4>1
    <3>3. CASE q.op = "activarServicio"
      <4> DEFINE r == [servicio[q.s] EXCEPT !.estatus = TRUE, !.tipo = q.tipo]
      <4>1. r \in Servicio /\ servicio' = [servicio EXCEPT ![q.s] = r]
        BY <1>5, <2>1, <3>3 DEF EscribirServicio, Servicio
      <4> QED BY <4>1
    <3> QED BY <2>1, <3>1, <3>2, <3>3
  <2>4. TablasBien' /\ ServiciosQuedan BY <1>1, <2>2, <2>3, TipoServicio
  <2>5. \E nuevos : Nuevos(nuevos) /\ Emitir(nuevos)
    BY <1>5, EventosNuevos, NuevosSon DEF EscribirServicio
  <2> QED BY <1>1, <1>r, <2>2, <2>4, <2>5, TipoEmitir
<1>6. ASSUME BajaAnterior(h) PROVE TipoInv'
  <2> DEFINE r == [renovacion[q.s] EXCEPT ![q.i] = Anterior]
  <2>1. /\ Seguir(h, "nueva") /\ q.en = "baja" /\ renovacion' = [renovacion EXCEPT ![q.s] = r]
        /\ UNCHANGED <<proveedor, maestro, modificatorio, hoy, revisado, estacion, servicio,
                       eventos, cuentas>>
    BY <1>6 DEF BajaAnterior, contratos, dia
  <2>2. q.s \in Servicios /\ HayServicio(q.s) /\ r \in Seq(Renovacion)
    <3>1. q.s \in Servicios /\ HayServicio(q.s) /\ renovacion[q.s] \in Seq(Renovacion)
      BY <1>1, <2>1 DEF PeticionBien, TablasBien
    <3>2. Anterior \in Renovacion BY DEF Anterior, Renovacion
    <3> QED BY <3>1, <3>2, SeqExcept
  <2> HIDE DEF r
  <2>3. TablasBien' /\ ServiciosQuedan
    BY <1>1, <2>1, <2>2, TipoRenovacion, ServiciosIguales
  <2>4. /\ Mueve(h) /\ peticion'[h] = [q EXCEPT !.en = "nueva"] /\ peticion'[h].en = "nueva"
        /\ PeticionBien(peticion'[h])
    <3>1. PeticionBien([q EXCEPT !.en = "nueva"])
      BY <1>1, <2>2 DEF PeticionBien, Campos, DeModificatorios
    <3> QED BY <1>1, <2>1, <3>1, MueveSeguir
  <2>5. EventosBien' BY <1>1, <2>1, <2>3, TipoEventosIguales
  <2> QED BY <2>1, <2>3, <2>4, <2>5, TipoEscribe
<1>7. ASSUME GuardarRenovacion(h) PROVE TipoInv'
  <2> DEFINE r == Append(renovacion[q.s], NuevaRenovacion)
  <2>1. /\ Responder(h) /\ q.en = "nueva"
        /\ UNCHANGED <<proveedor, maestro, modificatorio, hoy, revisado, estacion, servicio,
                       eventos, cuentas>>
        /\ renovacion' = [renovacion EXCEPT ![q.s] = r]
    BY <1>7 DEF GuardarRenovacion, contratos, dia
  <2>2. q.s \in Servicios /\ HayServicio(q.s) /\ r \in Seq(Renovacion)
    BY <1>1, <2>1 DEF PeticionBien, TablasBien, NuevaRenovacion, Renovacion
  <2> HIDE DEF r
  <2>3. TablasBien' /\ ServiciosQuedan
    BY <1>1, <2>1, <2>2, TipoRenovacion, ServiciosIguales
  <2> QED BY <1>1, <1>r, <2>1, <2>3, TipoEventosIguales
<1>8. ASSUME BorrarRenovacion(h) PROVE TipoInv'
  <2> DEFINE x == [existe |-> FALSE, ultima |-> FALSE, estatus |-> FALSE]
             r == [renovacion[q.s] EXCEPT ![q.i] = x]
  <2>1. /\ Responder(h)
        /\ UNCHANGED <<proveedor, maestro, modificatorio, hoy, revisado, estacion, servicio,
                       eventos, cuentas>>
        /\ renovacion' = [renovacion EXCEPT ![q.s] = r]
    BY <1>8 DEF BorrarRenovacion, contratos, dia
  <2>2. q.s \in Servicios => r \in Seq(Renovacion) /\ (~HayServicio(q.s) => r = <<>>)
    <3>1. x \in Renovacion BY DEF Renovacion
    <3> HIDE DEF x
    <3>2. ASSUME q.s \in Servicios PROVE r \in Seq(Renovacion)
      BY <1>1, <3>1, <3>2, SeqExcept DEF TablasBien
    <3>3. ASSUME q.s \in Servicios, renovacion[q.s] = <<>> PROVE r = <<>> BY <3>3
    <3> QED BY <1>1, <3>2, <3>3 DEF TablasBien
  <2> HIDE DEF r
  <2>3. TablasBien' /\ ServiciosQuedan
    BY <1>1, <2>1, <2>2, TipoRenovacion, ServiciosIguales
  <2> QED BY <1>1, <1>r, <2>1, <2>3, TipoEventosIguales
<1> QED BY <1>2, <1>3, <1>4, <1>5, <1>6, <1>7, <1>8

LEMMA TipoMaestros ==
  ASSUME TipoInv, NEW h \in Hilos,
         ContarYEmitir(h) \/ GuardarMaestro(h) \/ GuardarSecundarios(h) \/ ActualizarMaestro(h)
         \/ LeerBaja(h) \/ BorrarFila(h) \/ BorrarMaestro(h) \/ CancelarMaestro(h)
         \/ AvisarBaja(h) \/ TerminarMaestro(h) \/ LeerVigentes(h) \/ ContarDeProveedor(h)
         \/ LeerTipos(h) \/ changeStatus(h)
  PROVE  TipoInv'
<1> DEFINE q == peticion[h]
           sinRed == UNCHANGED <<modificatorio, hoy, estacion, servicio, renovacion, cuentas>>
<1>b. /\ PeticionBien(q) /\ DOMAIN q = Campos /\ PeticionesBien /\ TablasBien /\ EventosBien
  BY DEF TipoInv, PeticionesBien, PeticionBien
<1>e. ASSUME sinRed PROVE ServiciosQuedan /\ Len(modificatorio') = Len(modificatorio)
  BY <1>e, ServiciosIguales
<1>r. ASSUME Responder(h), TablasBien', EventosBien', sinRed PROVE TipoInv'
  <2>1. Mueve(h) /\ peticion'[h].op = "-" /\ PeticionBien(peticion'[h])
    BY <1>b, <1>r, MueveResponder
  <2> QED BY <1>e, <1>r, <2>1, TipoEscribe
<1>p. ASSUME NEW r, peticion' = [peticion EXCEPT ![h] = r], PeticionBien(r),
             r.en \notin {"leer", "insertar"}, TablasBien', EventosBien', sinRed
      PROVE  TipoInv'
  <2>1. Mueve(h) /\ peticion'[h] = r BY <1>b, <1>p DEF Mueve, PeticionesBien
  <2> QED BY <1>e, <1>p, <2>1, TipoEscribe
<1>s. ASSUME NEW en \in {"guardar", "secundarios", "leerBaja", "avisarBaja"}, Seguir(h, en),
             TablasBien', EventosBien', sinRed
      PROVE  TipoInv'
  <2> DEFINE r == [q EXCEPT !.en = en]
  <2>1. PeticionBien(r) /\ r.en = en BY <1>b DEF PeticionBien, Campos, DeModificatorios
  <2>2. peticion' = [peticion EXCEPT ![h] = r] BY <1>s DEF Seguir
  <2> HIDE DEF r
  <2> QED BY <1>p, <1>s, <2>1, <2>2
<1>t. ASSUME sinRed, UNCHANGED <<proveedor, maestro>>, revisado' \in BOOLEAN
      PROVE  TablasBien' /\ ServiciosQuedan
  BY <1>b, <1>t DEF TablasBien, HayServicio, ServiciosQuedan
<1>c. ASSUME NEW m, NEW estatus \in ESTATUS_DE_CONTRATO, maestro' = ConEstatus(m, estatus),
             sinRed, UNCHANGED <<proveedor, revisado, eventos>>
      PROVE  TablasBien' /\ EventosBien'
  <2>1. TablasBien' BY <1>b, <1>c, TipoConEstatus
  <2> QED BY <1>b, <1>c, <1>e, <2>1, TipoEventosIguales
<1>1. ASSUME ContarYEmitir(h) PROVE TipoInv'
  <2>1. /\ Seguir(h, "guardar") /\ sinRed /\ UNCHANGED <<proveedor, maestro, revisado>>
        /\ Emitir(Habilitar(countActiveContracts, q.habilitado, TiposDe[q.m]))
    BY <1>1 DEF ContarYEmitir, contratos, dia, red
  <2>2. TablasBien' /\ ServiciosQuedan BY <1>b, <1>t, <2>1 DEF TablasBien
  <2>3. EventosBien' BY <1>b, <2>1, <2>2, NuevosHabilitar, TipoEmitir
  <2> QED BY <1>s, <2>1, <2>2, <2>3
<1>2. ASSUME GuardarMaestro(h) PROVE TipoInv'
  <2>1. sinRed /\ UNCHANGED <<revisado, eventos>> /\ q.op = "crear"
    BY <1>2 DEF GuardarMaestro, dia, red
  <2>2. EventosBien' BY <1>b, <1>e, <2>1, TipoEventosIguales
  <2>3. CASE maestro[q.m] # SinMaestro
    <3>1. Responder(h) /\ UNCHANGED <<proveedor, maestro>>
      BY <1>2, <2>3 DEF GuardarMaestro
    <3> QED BY <1>b, <1>r, <1>t, <2>1, <2>2, <3>1 DEF TablasBien
  <2>4. CASE maestro[q.m] = SinMaestro
    <3> DEFINE r == [maestro[q.m] EXCEPT !.estatus = q.estatus]
               E == ESTATUS_DE_CONTRATO \cup {"NO_EXISTE", "BORRADO"}
    <3>1. /\ maestro' = [maestro EXCEPT ![q.m] = r] /\ proveedor' = q.habilitado
          /\ Seguir(h, "secundarios")
      BY <1>2, <2>4 DEF GuardarMaestro
    <3>2. ASSUME q.m \in Maestros
          PROVE  r \in [estatus : E, tipos : SUBSET Tipos] /\ r.estatus \in ESTATUS_DE_CONTRATO
      <4>1. q.estatus \in ESTATUS_DE_CONTRATO /\ q.estatus \in E
        BY <1>b, <2>1 DEF PeticionBien
      <4>2. maestro[q.m] \in [estatus : E, tipos : SUBSET Tipos]
        BY <1>b, <3>2 DEF TablasBien
      <4> HIDE DEF E
      <4> QED BY <4>1, <4>2
    <3>3. proveedor' \in BOOLEAN BY <1>b, <3>1 DEF PeticionBien
    <3> HIDE DEF r
    <3>4. TablasBien' BY <1>b, <2>1, <3>1, <3>2, <3>3, TipoMaestro
    <3> QED BY <1>s, <2>1, <2>2, <3>1, <3>4
  <2> QED BY <2>3, <2>4
<1>3. ASSUME GuardarSecundarios(h) PROVE TipoInv'
  <2>1. sinRed /\ UNCHANGED <<proveedor, revisado, eventos>>
    BY <1>3 DEF GuardarSecundarios, dia, red
  <2>2. EventosBien' BY <1>b, <1>e, <2>1, TipoEventosIguales
  <2>3. CASE ~HayMaestro(q.m)
    <3>1. Seguir(h, "leerBaja") /\ UNCHANGED maestro BY <1>3, <2>3 DEF GuardarSecundarios
    <3> QED BY <1>b, <1>s, <1>t, <2>1, <2>2, <3>1 DEF TablasBien
  <2>4. CASE HayMaestro(q.m)
    <3> DEFINE r == [maestro[q.m] EXCEPT !.tipos = TiposDe[q.m]]
               E == ESTATUS_DE_CONTRATO \cup {"NO_EXISTE", "BORRADO"}
    <3>1. maestro' = [maestro EXCEPT ![q.m] = r] /\ Responder(h)
      BY <1>3, <2>4 DEF GuardarSecundarios
    <3>2. ASSUME q.m \in Maestros
          PROVE  r \in [estatus : E, tipos : SUBSET Tipos] /\ r.estatus \in ESTATUS_DE_CONTRATO
      <4>1. maestro[q.m] \in [estatus : E, tipos : SUBSET Tipos]
        BY <1>b, <3>2 DEF TablasBien
      <4>2. TiposDe[q.m] \in SUBSET Tipos /\ maestro[q.m].estatus \in ESTATUS_DE_CONTRATO
        BY <2>4, <3>2, ProveedorAssumption DEF HayMaestro
      <4> HIDE DEF E
      <4> QED BY <4>1, <4>2
    <3>3. proveedor' \in BOOLEAN BY <1>b, <2>1 DEF TablasBien
    <3> HIDE DEF r
    <3>4. TablasBien' BY <1>b, <2>1, <3>1, <3>2, <3>3, TipoMaestro
    <3> QED BY <1>r, <2>1, <2>2, <3>1, <3>4
  <2> QED BY <2>3, <2>4
<1>4. ASSUME ActualizarMaestro(h) PROVE TipoInv'
  <2>1. /\ sinRed /\ UNCHANGED <<proveedor, revisado, eventos>> /\ Responder(h)
        /\ maestro' = ConEstatus(q.m, q.estatus) /\ q.op = "actualizar"
    BY <1>4 DEF ActualizarMaestro, dia, red
  <2>2. q.estatus \in ESTATUS_DE_CONTRATO BY <1>b, <2>1 DEF PeticionBien
  <2> QED BY <1>c, <1>r, <2>1, <2>2
<1>5. ASSUME LeerBaja(h) PROVE TipoInv'
  <2>1. sinRed /\ UNCHANGED <<proveedor, maestro, revisado>>
    BY <1>5 DEF LeerBaja, contratos, dia, red
  <2>2. TablasBien' /\ ServiciosQuedan BY <1>b, <1>t, <2>1 DEF TablasBien
  <2>3. CASE maestro[q.m].estatus # "PENDIENTE"
    <3>1. Responder(h) /\ UNCHANGED eventos BY <1>5, <2>3 DEF LeerBaja
    <3> QED BY <1>b, <1>r, <2>1, <2>2, <3>1, TipoEventosIguales
  <2>4. CASE maestro[q.m].estatus = "PENDIENTE"
    <3> DEFINE t == maestro[q.m].tipos
               en == IF t = {} THEN "borrarMaestro" ELSE "buscarFila"
               r == [q EXCEPT !.lista = t, !.en = en]
    <3>1. /\ peticion' = [peticion EXCEPT ![h].lista = t, ![h].en = en]
          /\ Emitir(<<DeTipos("disable-stations", t)>>)
      BY <1>5, <2>4 DEF LeerBaja
    <3>2. en \in {"borrarMaestro", "buscarFila"} OBVIOUS
    <3>3. Nuevos(<<DeTipos("disable-stations", t)>>)
      BY EventosNuevos, NuevosSon DEF Clases
    <3> HIDE DEF t, en
    <3>4. peticion' = [peticion EXCEPT ![h] = r] BY <3>1
    <3>5. PeticionBien(r) /\ r.en = en
      BY <1>b, <3>2 DEF PeticionBien, Campos, DeModificatorios
    <3>6. EventosBien' BY <1>b, <2>2, <3>1, <3>3, TipoEmitir
    <3> HIDE DEF r
    <3> QED BY <1>p, <2>1, <2>2, <3>2, <3>4, <3>5, <3>6
  <2> QED BY <2>3, <2>4
<1>6. ASSUME BorrarFila(h) PROVE TipoInv'
  <2> DEFINE quedan == q.lista \ {q.tipo}
             en == IF quedan = {} THEN "borrarMaestro" ELSE "buscarFila"
             r == [q EXCEPT !.lista = quedan, !.en = en]
             f == [maestro[q.m] EXCEPT !.tipos = @ \ {q.tipo}]
             E == ESTATUS_DE_CONTRATO \cup {"NO_EXISTE", "BORRADO"}
  <2>1. /\ sinRed /\ UNCHANGED <<proveedor, revisado, eventos>>
        /\ peticion' = [peticion EXCEPT ![h].lista = quedan, ![h].en = en]
        /\ maestro' = [maestro EXCEPT ![q.m] = f]
    BY <1>6 DEF BorrarFila, dia, red
  <2>2. en \in {"borrarMaestro", "buscarFila"} OBVIOUS
  <2>3. ASSUME q.m \in Maestros
        PROVE  /\ f \in [estatus : E, tipos : SUBSET Tipos]
               /\ f.tipos # {} => f.estatus \in ESTATUS_DE_CONTRATO
    <3>1. /\ maestro[q.m] \in [estatus : E, tipos : SUBSET Tipos]
          /\ maestro[q.m].tipos # {} => maestro[q.m].estatus \in ESTATUS_DE_CONTRATO
      BY <1>b, <2>3 DEF TablasBien
    <3> HIDE DEF E
    <3> QED BY <3>1
  <2> HIDE DEF quedan, en, f
  <2>4. peticion' = [peticion EXCEPT ![h] = r] BY <2>1
  <2>5. PeticionBien(r) /\ r.en = en
    BY <1>b, <2>2 DEF PeticionBien, Campos, DeModificatorios
  <2>6. proveedor' \in BOOLEAN BY <1>b, <2>1 DEF TablasBien
  <2>7. TablasBien' BY <1>b, <2>1, <2>3, <2>6, TipoMaestro
  <2>8. EventosBien' BY <1>b, <1>e, <2>1, TipoEventosIguales
  <2> HIDE DEF r
  <2> QED BY <1>p, <2>1, <2>2, <2>4, <2>5, <2>7, <2>8
<1>7. ASSUME BorrarMaestro(h) PROVE TipoInv'
  <2>1. sinRed /\ UNCHANGED <<proveedor, revisado>> /\ Responder(h)
    BY <1>7 DEF BorrarMaestro, dia, red
  <2>2. \E nuevos : Nuevos(nuevos) /\ Emitir(nuevos)
    <3>1. Nuevos(<<DeProveedor("disable-provider")>>) /\ Nuevos(<<>>)
      BY EventosNuevos, NuevosSon DEF Clases
    <3> QED BY <1>7, <3>1 DEF BorrarMaestro
  <2>3. CASE Retenido(q.m)
    <3>1. TablasBien' BY <1>b, <1>7, <1>t, <2>1, <2>3 DEF BorrarMaestro, TablasBien
    <3> QED BY <1>b, <1>e, <1>r, <2>1, <2>2, <3>1, TipoEmitir
  <2>4. CASE ~Retenido(q.m)
    <3> DEFINE f == [maestro[q.m] EXCEPT !.estatus = "BORRADO"]
               E == ESTATUS_DE_CONTRATO \cup {"NO_EXISTE", "BORRADO"}
    <3>1. maestro' = [maestro EXCEPT ![q.m] = f] BY <1>7, <2>4 DEF BorrarMaestro
    <3>2. ASSUME q.m \in Maestros
          PROVE  f \in [estatus : E, tipos : SUBSET Tipos] /\ f.tipos = {}
      <4>1. maestro[q.m] \in [estatus : E, tipos : SUBSET Tipos] /\ maestro[q.m].tipos = {}
            /\ "BORRADO" \in E
        BY <1>b, <2>4, <3>2 DEF TablasBien, Retenido
      <4> HIDE DEF E
      <4> QED BY <4>1
    <3>3. proveedor' \in BOOLEAN BY <1>b, <2>1 DEF TablasBien
    <3> HIDE DEF f
    <3>4. TablasBien' BY <1>b, <2>1, <3>1, <3>2, <3>3, TipoMaestro
    <3> QED BY <1>b, <1>e, <1>r, <2>1, <2>2, <3>4, TipoEmitir
  <2> QED BY <2>3, <2>4
<1>8. ASSUME CancelarMaestro(h) PROVE TipoInv'
  <2>1. /\ sinRed /\ UNCHANGED <<proveedor, revisado, eventos>>
        /\ maestro' = ConEstatus(q.m, "CANCELADO")
        /\ Seguir(h, "avisarBaja") \/ Responder(h)
    BY <1>8 DEF CancelarMaestro, SeguirSi, dia, red
  <2>2. "CANCELADO" \in ESTATUS_DE_CONTRATO BY DEF ESTATUS_DE_CONTRATO
  <2> QED BY <1>c, <1>r, <1>s, <2>1, <2>2
<1>9. ASSUME AvisarBaja(h) PROVE TipoInv'
  <2>1. sinRed /\ UNCHANGED <<proveedor, maestro, revisado>> /\ Responder(h)
    BY <1>9 DEF AvisarBaja, contratos, dia, red
  <2>2. TablasBien' /\ ServiciosQuedan BY <1>b, <1>t, <2>1 DEF TablasBien
  <2>3. \E nuevos : Nuevos(nuevos) /\ Emitir(nuevos)
    <3>1. Nuevos(<<DeTipos("disable-stations", maestro[q.m].tipos)>>) /\ Nuevos(<<>>)
      BY EventosNuevos, NuevosSon DEF Clases
    <3> QED BY <1>9, <3>1 DEF AvisarBaja
  <2> QED BY <1>b, <1>r, <2>1, <2>2, <2>3, TipoEmitir
<1>10. ASSUME TerminarMaestro(h) PROVE TipoInv'
  <2>1. PICK m \in q.lista :
          /\ maestro' = ConEstatus(m, "TERMINADO")
          /\ peticion' = [peticion EXCEPT ![h].lista = @ \ {m},
               ![h].en = IF q.lista = {m} THEN "vigentes" ELSE @]
    BY <1>10 DEF TerminarMaestro
  <2>2. sinRed /\ UNCHANGED <<proveedor, revisado, eventos>> /\ q.en = "terminar"
    BY <1>10 DEF TerminarMaestro, dia, red
  <2> DEFINE r == [q EXCEPT !.lista = @ \ {m},
                            !.en = IF q.lista = {m} THEN "vigentes" ELSE @]
  <2>3. peticion' = [peticion EXCEPT ![h] = r] BY <2>1
  <2>4. PeticionBien(r) /\ r.en \notin {"leer", "insertar"}
    BY <1>b, <2>2 DEF PeticionBien, Campos, DeModificatorios
  <2>5. "TERMINADO" \in ESTATUS_DE_CONTRATO BY DEF ESTATUS_DE_CONTRATO
  <2> HIDE DEF r
  <2> QED BY <1>c, <1>p, <2>1, <2>2, <2>3, <2>4, <2>5
<1>11. ASSUME LeerVigentes(h) PROVE TipoInv'
  <2> DEFINE r == [q EXCEPT !.en = "proveedores", !.tipos = {}]
  <2>1. /\ sinRed /\ UNCHANGED <<proveedor, maestro, revisado>>
        /\ peticion' = [peticion EXCEPT ![h] = r]
    BY <1>11 DEF LeerVigentes, contratos, dia, red
  <2>2. TablasBien' /\ ServiciosQuedan BY <1>b, <1>t, <2>1 DEF TablasBien
  <2>3. \E nuevos : Nuevos(nuevos) /\ Emitir(nuevos)
    <3>1. Nuevos(<<DeTipos("disable-stations", PorApagar(q.tipos))>>) /\ Nuevos(<<>>)
      BY EventosNuevos, NuevosSon DEF Clases
    <3> QED BY <1>11, <3>1 DEF LeerVigentes
  <2>4. PeticionBien(r) /\ r.en = "proveedores"
    BY <1>b DEF PeticionBien, Campos, DeModificatorios
  <2> HIDE DEF r
  <2>5. EventosBien' BY <1>b, <2>2, <2>3, TipoEmitir
  <2> QED BY <1>p, <2>1, <2>2, <2>4, <2>5
<1>12. ASSUME ContarDeProveedor(h) PROVE TipoInv'
  <2>1. sinRed /\ UNCHANGED <<proveedor, maestro>> /\ Responder(h) /\ revisado' = TRUE
    BY <1>12 DEF ContarDeProveedor, contratos, red
  <2>2. TablasBien' /\ ServiciosQuedan BY <1>t, <2>1
  <2>3. \E nuevos : Nuevos(nuevos) /\ Emitir(nuevos)
    <3>1. Nuevos(<<DeProveedor("disable-provider")>>) /\ Nuevos(<<>>)
      BY EventosNuevos, NuevosSon DEF Clases
    <3> QED BY <1>12, <3>1 DEF ContarDeProveedor
  <2> QED BY <1>b, <1>r, <2>1, <2>2, <2>3, TipoEmitir
<1>13. ASSUME LeerTipos(h) PROVE TipoInv'
  <2> DEFINE t == maestro[q.m].tipos
             r == [q EXCEPT !.en = "leerEstatus", !.tipos = t]
  <2>1. sinRed /\ UNCHANGED <<proveedor, maestro, revisado>>
    BY <1>13 DEF LeerTipos, contratos, dia, red
  <2>2. TablasBien' /\ ServiciosQuedan BY <1>b, <1>t, <2>1 DEF TablasBien
  <2>3. CASE Responder(h) /\ Emitir(<<DeTipos("disable-stations", t)>>)
    <3>1. Nuevos(<<DeTipos("disable-stations", t)>>)
      BY EventosNuevos, NuevosSon DEF Clases
    <3> HIDE DEF t
    <3> QED BY <1>b, <1>r, <2>1, <2>2, <2>3, <3>1, TipoEmitir
  <2>4. CASE peticion' = [peticion EXCEPT ![h] = r] /\ UNCHANGED eventos
    <3> HIDE DEF t
    <3>1. PeticionBien(r) /\ r.en = "leerEstatus"
      BY <1>b DEF PeticionBien, Campos, DeModificatorios
    <3>2. EventosBien' BY <1>b, <2>2, <2>4, TipoEventosIguales
    <3> HIDE DEF r
    <3> QED BY <1>p, <2>1, <2>2, <2>4, <3>1, <3>2
  <2> QED BY <1>13, <2>3, <2>4 DEF LeerTipos
<1>14. ASSUME changeStatus(h) PROVE TipoInv'
  <2> DEFINE e == IF q.op = "extender" THEN "ADJUDICADO" ELSE "TERMINADO"
             f == [maestro[q.m] EXCEPT !.estatus = e]
             E == ESTATUS_DE_CONTRATO \cup {"NO_EXISTE", "BORRADO"}
  <2>1. /\ sinRed /\ UNCHANGED <<proveedor, revisado>> /\ Responder(h)
        /\ maestro' = [maestro EXCEPT ![q.m] = f]
    BY <1>14 DEF changeStatus, dia, red
  <2>2. ASSUME q.m \in Maestros
        PROVE  f \in [estatus : E, tipos : SUBSET Tipos] /\ f.estatus \in ESTATUS_DE_CONTRATO
    <3>1. e \in ESTATUS_DE_CONTRATO BY DEF ESTATUS_DE_CONTRATO, Vivos
    <3>2. maestro[q.m] \in [estatus : E, tipos : SUBSET Tipos] /\ e \in E
      BY <1>b, <2>2, <3>1 DEF TablasBien
    <3> HIDE DEF E, e
    <3> QED BY <3>1, <3>2
  <2>3. \E nuevos : Nuevos(nuevos) /\ Emitir(nuevos)
    <3>1. Nuevos(<<DeProveedor("disable-provider"), DeTipos("disable-stations", q.tipos)>>)
      BY EventosNuevos, NuevosSon DEF Clases
    <3> QED BY <1>14, <3>1, NuevosHabilitar DEF changeStatus
  <2>4. proveedor' \in BOOLEAN BY <1>b, <2>1 DEF TablasBien
  <2> HIDE DEF f
  <2>5. TablasBien' BY <1>b, <2>1, <2>2, <2>4, TipoMaestro
  <2> QED BY <1>b, <1>e, <1>r, <2>1, <2>3, <2>5, TipoEmitir
<1> QED BY <1>1, <1>2, <1>3, <1>4, <1>5, <1>6, <1>7, <1>8, <1>9, <1>10, <1>11, <1>12, <1>13,
           <1>14

LEMMA TipoModificatorios ==
  ASSUME TipoInv, NEW h \in Hilos,
         CancelarModificatorio(h) \/ InsertarModificatorio(h) \/ CorregirModificatorio(h)
  PROVE  TipoInv'
<1> DEFINE q == peticion[h]
           resto == UNCHANGED <<proveedor, maestro, hoy, revisado, estacion, servicio, renovacion,
                                eventos, cuentas>>
<1>1. /\ PeticionBien(q) /\ DOMAIN q = Campos /\ PeticionesBien /\ TablasBien /\ EventosBien
      /\ modificatorio \in Seq(Modificatorio)
  BY DEF TipoInv, PeticionesBien, PeticionBien, TablasBien
<1>2. ASSUME resto PROVE ServiciosQuedan /\ EventosBien'
  BY <1>1, <1>2, ServiciosIguales, TipoEventosIguales
<1>i. ASSUME NEW i, NEW r, modificatorio' = [modificatorio EXCEPT ![i] = r], resto,
             i \in DOMAIN modificatorio => r \in Modificatorio
      PROVE  TablasBien' /\ Len(modificatorio') = Len(modificatorio)
  BY <1>1, <1>i, TipoModificatorio
<1>3. ASSUME CancelarModificatorio(h) PROVE TipoInv'
  <2>1. PICK i \in q.lista :
          /\ modificatorio' = IF HayModificatorio(i)
                                THEN [modificatorio EXCEPT ![i].estatus = "CANCELADO"]
                                ELSE modificatorio
          /\ peticion' = [peticion EXCEPT ![h].lista = @ \ {i},
               ![h].en = IF q.lista = {i} THEN "cancelarMaestro" ELSE @]
    BY <1>3 DEF CancelarModificatorio
  <2>2. resto /\ q.en = "cancelarModificatorio"
    BY <1>3 DEF CancelarModificatorio, dia, red
  <2> DEFINE r == [q EXCEPT !.lista = @ \ {i},
                            !.en = IF q.lista = {i} THEN "cancelarMaestro" ELSE @]
             f == [modificatorio[i] EXCEPT !.estatus = "CANCELADO"]
  <2>3. peticion' = [peticion EXCEPT ![h] = r] BY <2>1
  <2>4. PeticionBien(r) /\ r.en \notin {"leer", "insertar"}
    BY <1>1, <2>2 DEF PeticionBien, Campos, DeModificatorios
  <2>5. TablasBien' /\ Len(modificatorio') = Len(modificatorio)
    <3>1. CASE modificatorio' = modificatorio
      BY <1>1, <2>2, <3>1 DEF TablasBien, HayServicio
    <3>2. CASE modificatorio' = [modificatorio EXCEPT ![i].estatus = "CANCELADO"]
      <4>1. modificatorio' = [modificatorio EXCEPT ![i] = f] BY <3>2
      <4>2. ASSUME i \in DOMAIN modificatorio PROVE f \in Modificatorio
        <5>1. modificatorio[i] \in Modificatorio BY <1>1, <4>2
        <5> QED BY <5>1 DEF Modificatorio, ESTATUS_DE_CONTRATO
      <4> HIDE DEF f
      <4> QED BY <1>i, <2>2, <4>1, <4>2
    <3> QED BY <2>1, <3>1, <3>2
  <2> HIDE DEF r
  <2>6. Mueve(h) /\ peticion'[h] = r BY <1>1, <2>3 DEF Mueve, PeticionesBien
  <2> QED BY <1>2, <2>2, <2>4, <2>5, <2>6, TipoEscribe
<1>4. ASSUME CorregirModificatorio(h) PROVE TipoInv'
  <2> DEFINE f == Corregido(modificatorio[q.i], q)
  <2>1. /\ resto /\ q.en = "corregir" /\ q.op \in DeModificatorios
        /\ q.extension \in EXTENSION_TYPE_ENUM /\ q.estatus \in ESTATUS_DE_CONTRATO
        /\ q.vence \in Prorrogas
    BY <1>1, <1>4 DEF CorregirModificatorio, PeticionBien, dia, red
  <2>2. \/ modificatorio' = modificatorio
        \/ modificatorio' = [modificatorio EXCEPT ![q.i] = f]
    BY <1>4 DEF CorregirModificatorio
  <2>3. TablasBien' /\ Len(modificatorio') = Len(modificatorio)
    <3>1. CASE modificatorio' = modificatorio
      BY <1>1, <2>1, <3>1 DEF TablasBien, HayServicio
    <3>2. CASE modificatorio' = [modificatorio EXCEPT ![q.i] = f]
      <4>1. ASSUME q.i \in DOMAIN modificatorio PROVE f \in Modificatorio
        <5>1. modificatorio[q.i] \in Modificatorio BY <1>1, <2>1, <4>1
        <5> QED BY <2>1, <5>1 DEF Modificatorio, Corregido
      <4> HIDE DEF f
      <4> QED BY <1>i, <2>1, <3>2, <4>1
    <3> QED BY <2>2, <3>1, <3>2
  <2>4. Responder(h) \/ Seguir(h, "leerMaestro")
    BY <1>4 DEF CorregirModificatorio, SeguirSi
  <2>5. Mueve(h) /\ PeticionBien(peticion'[h]) /\ peticion'[h].en \notin {"leer", "insertar"}
    <3>1. PeticionBien([q EXCEPT !.en = "leerMaestro"])
      BY <1>1 DEF PeticionBien, Campos, DeModificatorios
    <3> QED BY <1>1, <2>4, <3>1, MueveResponder, MueveSeguir
  <2> QED BY <1>2, <2>1, <2>3, <2>5, TipoEscribe
<1>5. ASSUME InsertarModificatorio(h) PROVE TipoInv'
  <2> DEFINE f == [maestro |-> q.m, extension |-> q.extension, vence |-> q.vence,
                   estatus |-> q.estatus]
  <2>1. resto /\ q.en = "insertar" /\ q.op = "extender"
    BY <1>1, <1>5 DEF InsertarModificatorio, PeticionBien, dia, red
  <2>2. f \in Modificatorio BY <1>1, <2>1 DEF PeticionBien, Modificatorio
  <2> HIDE DEF f
  <2>3. CASE Responder(h) /\ UNCHANGED modificatorio
    <3>1. TablasBien' /\ Len(modificatorio') = Len(modificatorio)
      BY <1>1, <2>1, <2>3 DEF TablasBien, HayServicio
    <3>2. Mueve(h) /\ peticion'[h].op = "-" /\ PeticionBien(peticion'[h])
      BY <1>1, <2>3, MueveResponder
    <3> QED BY <1>2, <2>1, <3>1, <3>2, TipoEscribe
  <2>4. CASE modificatorio' = Append(modificatorio, f) /\ (Responder(h) \/ Seguir(h, "contar"))
    <3>1. modificatorio' \in Seq(Modificatorio) /\ Len(modificatorio') = Len(modificatorio) + 1
          /\ Len(modificatorio) \in Nat
      BY <1>1, <2>2, <2>4
    <3>2. TablasBien' BY <1>1, <2>1, <3>1 DEF TablasBien, HayServicio
    <3>3. Mueve(h) /\ PeticionBien(peticion'[h]) /\ peticion'[h].en \notin {"leer", "insertar"}
      <4>1. PeticionBien([q EXCEPT !.en = "contar"])
        BY <1>1 DEF PeticionBien, Campos, DeModificatorios
      <4> QED BY <1>1, <2>4, <4>1, MueveResponder, MueveSeguir
    <3>4. h \in PorInsertar /\ PorInsertar' \subseteq PorInsertar \ {h}
      BY <2>1, <3>3 DEF PorInsertar, Mueve
    <3>5. /\ Cardinality(PorInsertar') <= Cardinality(PorInsertar) - 1
          /\ Cardinality(PorInsertar') \in Nat /\ Cardinality(PorInsertar) \in Nat
      <4>1. IsFiniteSet(PorInsertar) BY ProveedorAssumption, FS_Subset DEF PorInsertar
      <4>2. IsFiniteSet(PorInsertar \ {h})
            /\ Cardinality(PorInsertar \ {h}) = Cardinality(PorInsertar) - 1
        BY <3>4, <4>1, FS_RemoveElement
      <4>3. Cardinality(PorInsertar') <= Cardinality(PorInsertar \ {h})
            /\ IsFiniteSet(PorInsertar')
        BY <3>4, <4>2, FS_Subset
      <4> QED BY <4>1, <4>2, <4>3, FS_CardinalityType
    <3>6. PeticionesBien' BY <1>2, <2>1, <3>3, TipoPeticiones
    <3>7. CuentasBien'
      <4>1. UNCHANGED <<inicios, incidentes, fallos>> /\ MaxModificatorios \in Nat
        BY <2>1, ProveedorAssumption DEF cuentas
      <4>2. Len(modificatorio') + Cardinality(PorInsertar') <= MaxModificatorios
        BY <3>1, <3>5, <4>1 DEF TipoInv, CuentasBien
      <4> QED BY <4>1, <4>2 DEF TipoInv, CuentasBien
    <3> QED BY <1>2, <2>1, <3>2, <3>6, <3>7 DEF TipoInv
  <2> QED BY <1>5, <2>3, <2>4 DEF InsertarModificatorio, SeguirSi, f
<1> QED BY <1>3, <1>4, <1>5

----
(* What arrives. *)

\* The counts of arrivals and of incidents stay within their bounds.
LEMMA CuentasLlegan ==
  ASSUME NEW a \in Nat, NEW n \in Nat, a + Coste * n <= MaxInicios, n <= MaxIncidentes
  PROVE  a \in 0..MaxInicios /\ n \in 0..MaxIncidentes
<1>1. {MaxInicios, MaxIncidentes, Coste} \subseteq Nat BY ProveedorAssumption
<1> DEFINE p == Coste * n
<1>2. p \in Nat /\ a + p <= MaxInicios BY <1>1
<1> HIDE DEF p
<1> QED BY <1>1, <1>2

\* The other tables, when a request arrives or the day changes.
LEMMA TipoLlegar ==
  ASSUME TipoInv, NEW h \in Hilos, NEW regular, NEW r, PeticionBien(r), Llegar(regular),
         peticion' = [peticion EXCEPT ![h] = r],
         r.op = "extender" =>
           Len(modificatorio) + Cardinality({g \in Hilos : peticion[g].op = "extender"})
             < MaxModificatorios,
         hoy' \in 0..Dias, UNCHANGED <<proveedor, contratos, red, eventos>>
  PROVE  TipoInv'
<1>1. UNCHANGED <<proveedor, maestro, modificatorio, estacion, servicio, renovacion, eventos>>
      /\ revisado' \in BOOLEAN
  BY DEF Llegar, contratos, red
<1>2. ServiciosQuedan /\ TablasBien'
  BY <1>1 DEF TipoInv, TablasBien, HayServicio, ServiciosQuedan
<1>3. EventosBien' BY <1>1, <1>2, TipoEventosIguales DEF TipoInv
<1>4. PeticionesBien'
  <2>1. DOMAIN peticion' = Hilos /\ \A g \in Hilos : PeticionBien(peticion'[g])
    BY DEF TipoInv, PeticionesBien
  <2>2. ASSUME NEW g \in Hilos PROVE PeticionBien(peticion[g])'
    BY <1>2, <2>1 DEF PeticionBien, ServiciosQuedan
  <2> QED BY <2>1, <2>2 DEF PeticionesBien
<1>5. /\ Len(modificatorio') + Cardinality(PorInsertar') <= MaxModificatorios
  <2> DEFINE E == {g \in Hilos : peticion[g].op = "extender"}
  <2>1. IsFiniteSet(PorInsertar) /\ IsFiniteSet(E)
    BY ProveedorAssumption, FS_Subset DEF PorInsertar
  <2>2. Cardinality(PorInsertar) \in Nat /\ Cardinality(E) \in Nat
        /\ Len(modificatorio) \in Nat /\ MaxModificatorios \in Nat
    <3> HIDE DEF E
    <3> QED BY <2>1, FS_CardinalityType, ProveedorAssumption DEF TipoInv, TablasBien
  <2>3. CASE r.op # "extender"
    <3>1. PorInsertar' \subseteq PorInsertar
      BY <2>3 DEF PorInsertar, TipoInv, PeticionesBien
    <3>2. Cardinality(PorInsertar') <= Cardinality(PorInsertar) /\ IsFiniteSet(PorInsertar')
      BY <2>1, <3>1, FS_Subset
    <3>3. Cardinality(PorInsertar') \in Nat BY <3>2, FS_CardinalityType
    <3> QED BY <1>1, <2>2, <3>2, <3>3 DEF TipoInv, CuentasBien
  <2>4. CASE r.op = "extender"
    <3>1. PorInsertar' \subseteq E \cup {h} BY DEF PorInsertar, TipoInv, PeticionesBien
    <3>2. Len(modificatorio) + Cardinality(E) < MaxModificatorios BY <2>4
    <3> HIDE DEF E
    <3>3. IsFiniteSet(E \cup {h}) /\ Cardinality(E \cup {h}) <= Cardinality(E) + 1
          /\ Cardinality(E \cup {h}) \in Nat
      <4>1. /\ IsFiniteSet(E \cup {h})
            /\ Cardinality(E \cup {h}) = IF h \in E THEN Cardinality(E) ELSE Cardinality(E) + 1
        BY <2>1, FS_AddElement
      <4> QED BY <2>2, <4>1
    <3>4. Cardinality(PorInsertar') <= Cardinality(E \cup {h}) /\ IsFiniteSet(PorInsertar')
      BY <3>1, <3>3, FS_Subset
    <3>5. Cardinality(PorInsertar') \in Nat BY <3>4, FS_CardinalityType
    <3> QED BY <1>1, <2>2, <3>2, <3>3, <3>4, <3>5
  <2> QED BY <2>3, <2>4
<1>6. CuentasBien'
  <2>1. inicios' = inicios + 1 /\ incidentes' \in Nat /\ fallos' \in Nat /\ DentroDeCotas
    BY DEF Llegar, TipoInv, CuentasBien
  <2>2. inicios' \in Nat /\ incidentes' + fallos' \in Nat
    <3>1. \A a, b \in Nat : a + b \in Nat OBVIOUS
    <3>2. inicios \in Nat BY ProveedorAssumption DEF TipoInv, CuentasBien
    <3> QED BY <2>1, <3>1, <3>2
  <2>3. inicios' \in 0..MaxInicios /\ incidentes' + fallos' \in 0..MaxIncidentes
    BY <2>1, <2>2, CuentasLlegan DEF DentroDeCotas
  <2> QED BY <1>5, <2>1, <2>3 DEF CuentasBien
<1> QED BY <1>2, <1>3, <1>4, <1>6 DEF TipoInv

LEMMA TipoPedir ==
  ASSUME TipoInv, NEW h \in Hilos, NEW regular, NEW r, PeticionBien(r), Pedir(h, regular, r),
         r.op # "extender"
  PROVE  TipoInv'
<1>1. /\ Llegar(regular) /\ peticion' = [peticion EXCEPT ![h] = r]
      /\ UNCHANGED <<proveedor, contratos, hoy, red, eventos>>
  BY DEF Pedir
<1>2. hoy' \in 0..Dias BY <1>1 DEF TipoInv, TablasBien
<1> QED BY <1>1, <1>2, TipoLlegar

\* What each request holds when it arrives.
LEMMA TipoLlegaRed ==
  ASSUME TipoInv, NEW h \in Hilos, PedirRed(h)
  PROVE  TipoInv'
<1>1. ASSUME NEW op \in {"activar", "desactivar"}, PedirProveedor(h, op) PROVE TipoInv'
  <2> DEFINE r == [SinPeticion EXCEPT !.op = op, !.en = "contarVivos"]
  <2>1. PeticionBien(r) /\ r.op = op
    BY DEF PeticionBien, SinPeticion, Campos, DeModificatorios
  <2>2. Pedir(h, TRUE, r) BY <1>1 DEF PedirProveedor
  <2> HIDE DEF r
  <2> QED BY <2>1, <2>2, TipoPedir
<1>2. ASSUME NEW v \in BOOLEAN, PedirParche(h, v) PROVE TipoInv'
  <2> DEFINE r == [SinPeticion EXCEPT !.op = "parche", !.en = "escribirProveedor",
                                      !.habilitado = v]
  <2>1. PeticionBien(r) /\ r.op = "parche"
    BY DEF PeticionBien, SinPeticion, Campos, DeModificatorios
  <2>2. Pedir(h, FALSE, r) BY <1>2 DEF PedirParche
  <2> HIDE DEF r
  <2> QED BY <2>1, <2>2, TipoPedir
<1>3. ASSUME NEW e \in Estaciones, PedirEstacion(h, e) PROVE TipoInv'
  <2> DEFINE r == [SinPeticion EXCEPT !.op = "estacion", !.en = "contarEstacion", !.e = e]
  <2>1. PeticionBien(r) /\ r.op = "estacion"
    BY DEF PeticionBien, SinPeticion, Campos, DeModificatorios
  <2>2. Pedir(h, TRUE, r) BY <1>3 DEF PedirEstacion
  <2> HIDE DEF r
  <2> QED BY <2>1, <2>2, TipoPedir
<1>4. ASSUME NEW e \in Estaciones, NEW v \in BOOLEAN,
             NEW op \in {"cambiarEstacion", "borrarEstacion", "parcheEstacion"},
             PedirSobreEstacion(h, op, e, v)
      PROVE  TipoInv'
  <2> DEFINE r == [SinPeticion EXCEPT !.op = op, !.en = "leerEstacion", !.e = e,
                                      !.habilitado = v]
  <2>1. PeticionBien(r) /\ r.op = op
    BY DEF PeticionBien, SinPeticion, Campos, DeModificatorios
  <2>2. Pedir(h, FALSE, r) BY <1>4 DEF PedirSobreEstacion
  <2> HIDE DEF r
  <2> QED BY <2>1, <2>2, TipoPedir
<1>5. ASSUME NEW s \in Servicios, NEW e \in Estaciones \cup {"-"}, NEW tipo \in Tipos,
             PedirServicio(h, s, e, tipo)
      PROVE  TipoInv'
  <2> DEFINE r == [SinPeticion EXCEPT !.op = "servicio", !.en = "buscarEstacion", !.s = s,
                                      !.e = e, !.tipo = tipo]
  <2>1. PeticionBien(r) /\ r.op = "servicio"
    BY DEF PeticionBien, SinPeticion, Campos, DeModificatorios
  <2>2. Pedir(h, FALSE, r) BY <1>5 DEF PedirServicio
  <2> HIDE DEF r
  <2> QED BY <2>1, <2>2, TipoPedir
<1>6. ASSUME NEW s \in Servicios, NEW tipo \in Tipos,
             NEW op \in {"apagarServicio", "activarServicio", "tipoServicio"},
             PedirSobreServicio(h, op, s, tipo)
      PROVE  TipoInv'
  <2> DEFINE r == [SinPeticion EXCEPT !.op = op, !.s = s, !.tipo = tipo,
                     !.en = IF op = "activarServicio" THEN "leerServicio" ELSE "escribirServicio"]
  <2>1. Pedir(h, FALSE, r) /\ HayServicio(s) BY <1>6 DEF PedirSobreServicio
  <2>2. PeticionBien(r) /\ r.op = op
    BY <2>1 DEF PeticionBien, SinPeticion, Campos, DeModificatorios
  <2> HIDE DEF r
  <2> QED BY <2>1, <2>2, TipoPedir
<1>7. ASSUME NEW s \in Servicios, PedirRenovacion(h, s) PROVE TipoInv'
  <2> DEFINE r == [SinPeticion EXCEPT !.op = "renovacion", !.en = "primera", !.s = s]
  <2>1. Pedir(h, TRUE, r) /\ HayServicio(s) BY <1>7 DEF PedirRenovacion
  <2>2. PeticionBien(r) /\ r.op = "renovacion"
    BY <2>1 DEF PeticionBien, SinPeticion, Campos, DeModificatorios
  <2> HIDE DEF r
  <2> QED BY <2>1, <2>2, TipoPedir
<1>8. ASSUME NEW s \in Servicios, NEW n, PedirQuitarRenovacion(h, s, n) PROVE TipoInv'
  <2> DEFINE r == [SinPeticion EXCEPT !.op = "quitarRenovacion", !.en = "leerRenovacion",
                                      !.s = s, !.i = n]
  <2>1. PeticionBien(r) /\ r.op = "quitarRenovacion"
    BY DEF PeticionBien, SinPeticion, Campos, DeModificatorios
  <2>2. Pedir(h, FALSE, r) BY <1>8 DEF PedirQuitarRenovacion
  <2> HIDE DEF r
  <2> QED BY <2>1, <2>2, TipoPedir
<1> QED BY <1>1, <1>2, <1>3, <1>4, <1>5, <1>6, <1>7, <1>8 DEF PedirRed

LEMMA TipoLlegaContrato ==
  ASSUME TipoInv, NEW h \in Hilos, PedirContrato(h)
  PROVE  TipoInv'
<1>0. Estatus \subseteq ESTATUS_DE_CONTRATO /\ Extensiones \subseteq EXTENSION_TYPE_ENUM
      /\ "CANCELADO" \in ESTATUS_DE_CONTRATO
  BY ProveedorAssumption DEF ESTATUS_DE_CONTRATO
<1>1. ASSUME NEW m \in Maestros, PedirQuitarMaestro(h, m) PROVE TipoInv'
  <2> DEFINE r == [SinPeticion EXCEPT !.op = "quitar", !.en = "leerBaja", !.m = m]
  <2>1. PeticionBien(r) /\ r.op = "quitar"
    BY DEF PeticionBien, SinPeticion, Campos, DeModificatorios
  <2>2. Pedir(h, TRUE, r) BY <1>1 DEF PedirQuitarMaestro
  <2> HIDE DEF r
  <2> QED BY <2>1, <2>2, TipoPedir
<1>2. ASSUME NEW m \in Maestros, NEW estatus \in Estatus, PedirMaestro(h, m, estatus)
      PROVE  TipoInv'
  <2> DEFINE r == [SinPeticion EXCEPT !.op = "crear", !.en = "existe", !.m = m,
                                      !.estatus = estatus]
  <2>1. PeticionBien(r) /\ r.op = "crear"
    BY <1>0 DEF PeticionBien, SinPeticion, Campos, DeModificatorios
  <2>2. Pedir(h, estatus \in Vivos, r) BY <1>2 DEF PedirMaestro
  <2> HIDE DEF r
  <2> QED BY <2>1, <2>2, TipoPedir
<1>3. ASSUME NEW m \in Maestros, NEW estatus \in Estatus \cup {"CANCELADO"},
             NEW op \in {"actualizar", "cancelar"}, PedirSobreMaestro(h, op, m, estatus)
      PROVE  TipoInv'
  <2> DEFINE r == [SinPeticion EXCEPT !.op = op, !.en = "leer", !.m = m, !.estatus = estatus]
  <2>1. PeticionBien(r) /\ r.op = op
    BY <1>0 DEF PeticionBien, SinPeticion, Campos, DeModificatorios
  <2>2. \E regular : Pedir(h, regular, r) BY <1>3 DEF PedirSobreMaestro
  <2> HIDE DEF r
  <2> QED BY <2>1, <2>2, TipoPedir
<1>4. ASSUME NEW m \in Maestros, NEW estatus \in Estatus, NEW extension \in Extensiones,
             NEW vence \in Prorrogas, PedirModificatorio(h, m, extension, vence, estatus)
      PROVE  TipoInv'
  <2> DEFINE r == [SinPeticion EXCEPT !.op = "extender", !.en = "leer", !.m = m, !.vence = vence,
                                      !.extension = extension, !.estatus = estatus]
  <2>1. PeticionBien(r) BY <1>0 DEF PeticionBien, SinPeticion, Campos, DeModificatorios
  <2>2. /\ Pedir(h, estatus \in Vivos, r)
        /\ Len(modificatorio) + Cardinality({g \in Hilos : peticion[g].op = "extender"})
             < MaxModificatorios
    BY <1>4 DEF PedirModificatorio
  <2>3. /\ Llegar(estatus \in Vivos) /\ peticion' = [peticion EXCEPT ![h] = r]
        /\ UNCHANGED <<proveedor, contratos, hoy, red, eventos>>
    BY <2>2 DEF Pedir
  <2>4. hoy' \in 0..Dias BY <2>3 DEF TipoInv, TablasBien
  <2> HIDE DEF r
  <2> QED BY <2>1, <2>2, <2>3, <2>4, TipoLlegar
<1>5. ASSUME NEW i \in DOMAIN modificatorio, NEW extension \in Extensiones,
             NEW vence \in Prorrogas, NEW estatus \in Estatus \cup {"CANCELADO"},
             NEW op \in DeModificatorios,
             PedirSobreModificatorio(h, op, i, extension, vence, estatus)
      PROVE  TipoInv'
  <2> DEFINE fila == modificatorio[i]
             nueva == [SinPeticion EXCEPT !.op = op, !.i = i, !.estatus = estatus,
                                          !.extension = extension, !.vence = vence]
  <2>1. \E regular, r : /\ Pedir(h, regular, r)
                        /\ r \in {[nueva EXCEPT !.en = "leer"], [nueva EXCEPT !.en = "corregir"],
                                  [nueva EXCEPT !.en = "leer", !.m = fila.maestro]}
    BY <1>5 DEF PedirSobreModificatorio
  <2>2. ASSUME NEW r \in {[nueva EXCEPT !.en = "leer"], [nueva EXCEPT !.en = "corregir"],
                          [nueva EXCEPT !.en = "leer", !.m = fila.maestro]}
        PROVE  PeticionBien(r) /\ r.op # "extender"
    <3> HIDE DEF fila
    <3>1. DOMAIN nueva = Campos /\ nueva.op = op /\ nueva.estatus = estatus
          /\ nueva.extension = extension /\ nueva.habilitado = FALSE /\ nueva.vence = vence
      BY DEF SinPeticion, Campos
    <3> HIDE DEF nueva
    <3>2. DOMAIN r = Campos /\ r.op = op /\ r.estatus = estatus /\ r.extension = extension
          /\ r.vence = vence /\ r.habilitado = FALSE /\ r.en \in {"leer", "corregir"}
      BY <3>1 DEF Campos
    <3> QED BY <1>0, <3>2 DEF PeticionBien, DeModificatorios
  <2> HIDE DEF nueva, fila
  <2> QED BY <2>1, <2>2, TipoPedir
<1> QED BY <1>1, <1>2, <1>3, <1>4, <1>5 DEF PedirContrato, DeModificatorios

----
(* The handlers of events. *)

\* What a handler leaves when it has no station to switch.
DeServicios(evento) ==
  [Evento EXCEPT !.servicios = evento.servicios,
     !.clase = IF Enciende(evento.clase) THEN "enable-multiple-services"
               ELSE "disable-multiple-services"]

LEMMA TrasEstacionesEs ==
  ASSUME Cola, NEW k \in DOMAIN eventos, NEW evento, TrasEstaciones(k, evento)
  PROVE  /\ Cola'
         /\ \A j \in DOMAIN eventos' :
              \/ \E i \in DOMAIN eventos : i # k /\ eventos'[j] = eventos[i]
              \/ eventos'[j] \in {evento, DeServicios(evento)}
         /\ \A i \in DOMAIN eventos : i # k => \E j \in DOMAIN eventos' : eventos'[j] = eventos[i]
<1> DEFINE v == DeServicios(evento)
           quedan == RemoveAt(eventos, k)
<1>1. PICK V : eventos \in Seq(V) BY DEF Cola
<1>2. /\ quedan \in Seq(V) /\ Len(quedan) = Len(eventos) - 1
      /\ \A j \in 1..(Len(eventos) - 1) :
           quedan[j] = IF j < k THEN eventos[j] ELSE eventos[j + 1]
  BY <1>1, UnoMenos
<1>3. DOMAIN eventos = 1..Len(eventos) /\ DOMAIN quedan = 1..(Len(eventos) - 1)
      /\ Len(eventos) \in Nat
  BY <1>1, <1>2
<1>4. /\ \A j \in DOMAIN quedan : \E i \in DOMAIN eventos : i # k /\ quedan[j] = eventos[i]
      /\ \A i \in DOMAIN eventos : i # k => \E j \in DOMAIN quedan : quedan[j] = eventos[i]
  <2>1. ASSUME NEW j \in DOMAIN quedan
        PROVE  \E i \in DOMAIN eventos : i # k /\ quedan[j] = eventos[i]
    <3>1. CASE j < k BY <1>2, <1>3, <3>1
    <3>2. CASE ~(j < k)
      <4>1. j + 1 \in DOMAIN eventos /\ j + 1 # k BY <1>3, <3>2
      <4> QED BY <1>2, <1>3, <3>2, <4>1
    <3> QED BY <3>1, <3>2
  <2>2. ASSUME NEW i \in DOMAIN eventos, i # k
        PROVE  \E j \in DOMAIN quedan : quedan[j] = eventos[i]
    <3>1. CASE i < k
      <4>1. i \in DOMAIN quedan /\ quedan[i] = eventos[i] BY <1>2, <1>3, <3>1
      <4> QED BY <4>1
    <3>2. CASE ~(i < k)
      <4>1. i - 1 \in DOMAIN quedan /\ quedan[i - 1] = eventos[i]
        BY <1>2, <1>3, <2>2, <3>2
      <4> QED BY <4>1
    <3> QED BY <3>1, <3>2
  <2> QED BY <2>1, <2>2
<1>5. CASE eventos' = [eventos EXCEPT ![k] = evento]
  <2> DEFINE U == V \cup {evento}
  <2>1. eventos \in Seq(U) /\ evento \in U BY <1>1
  <2> HIDE DEF U
  <2>2. eventos' \in Seq(U) /\ DOMAIN eventos' = DOMAIN eventos BY <1>5, <2>1
  <2> QED BY <1>5, <2>2 DEF Cola
<1>6. CASE eventos' = quedan \o <<>>
  <2>1. eventos' = quedan BY <1>2, <1>6, ConcatEmptySeq
  <2> QED BY <1>2, <1>4, <2>1 DEF Cola
<1>7. CASE eventos' = quedan \o <<v>>
  <2> DEFINE U == V \cup {v}
             uno == <<v>>
  <2>1. quedan \in Seq(U) /\ uno \in Seq(U) /\ Len(uno) = 1 /\ uno[1] = v BY <1>2
  <2> HIDE DEF U, quedan, uno, v
  <2>2. /\ eventos' \in Seq(U) /\ Len(eventos') = Len(quedan) + 1
        /\ \A i \in 1..(Len(quedan) + 1) :
             eventos'[i] = IF i <= Len(quedan) THEN quedan[i] ELSE uno[i - Len(quedan)]
    <3>1. eventos' = quedan \o uno BY <1>7 DEF uno
    <3>2. /\ quedan \o uno \in Seq(U) /\ Len(quedan \o uno) = Len(quedan) + Len(uno)
          /\ \A i \in 1..(Len(quedan) + Len(uno)) :
               (quedan \o uno)[i] = IF i <= Len(quedan) THEN quedan[i] ELSE uno[i - Len(quedan)]
      BY <2>1, ConcatProperties
    <3> QED BY <2>1, <3>1, <3>2
  <2>3. DOMAIN eventos' = 1..(Len(quedan) + 1) /\ DOMAIN quedan = 1..Len(quedan)
        /\ Len(quedan) \in Nat
    BY <2>1, <2>2
  <2>4. ASSUME NEW j \in DOMAIN eventos'
        PROVE  (j \in DOMAIN quedan /\ eventos'[j] = quedan[j]) \/ eventos'[j] = v
    <3>1. CASE j <= Len(quedan) BY <2>2, <2>3, <3>1
    <3>2. CASE ~(j <= Len(quedan))
      <4>1. j - Len(quedan) = 1 BY <2>3, <3>2
      <4> QED BY <2>1, <2>2, <2>3, <3>2, <4>1
    <3> QED BY <3>1, <3>2
  <2>5. \A j \in DOMAIN quedan : j \in DOMAIN eventos' /\ eventos'[j] = quedan[j]
    BY <2>2, <2>3
  <2>6. /\ \A j \in DOMAIN eventos' :
             (\E i \in DOMAIN eventos : i # k /\ eventos'[j] = eventos[i]) \/ eventos'[j] = v
        /\ \A i \in DOMAIN eventos : i # k => \E j \in DOMAIN eventos' : eventos'[j] = eventos[i]
    BY <1>4, <2>4, <2>5
  <2> QED BY <2>2, <2>6 DEF Cola, v
<1> QED BY <1>5, <1>6, <1>7 DEF TrasEstaciones, DeServicios

\* What a handler does, for every handler: the queue loses or changes one event,
\* and only services, stations, renewals and the provider are written.
LEMMA TipoTras ==
  ASSUME EventosBien, ServiciosQuedan, NEW k \in DOMAIN eventos, NEW evento,
         DOMAIN evento = CamposDeEvento, evento.clase \in Clases,
         \A s \in evento.servicios : s \in Servicios /\ HayServicio(s),
         TrasEstaciones(k, evento)
  PROVE  EventosBien'
<1> DEFINE v == DeServicios(evento)
<1>1. /\ DOMAIN v = CamposDeEvento /\ v.clase \in Clases /\ v.servicios = evento.servicios
  BY DEF DeServicios, Evento, CamposDeEvento, Clases
<1> HIDE DEF v
<1>2. /\ Cola'
      /\ \A j \in DOMAIN eventos' :
           \/ \E i \in DOMAIN eventos : i # k /\ eventos'[j] = eventos[i]
           \/ eventos'[j] \in {evento, v}
  BY TrasEstacionesEs DEF EventosBien, Cola, v
<1>3. ASSUME NEW j \in DOMAIN eventos' PROVE EventoBien(eventos[j])'
  <2>1. CASE eventos'[j] \in {evento, v} BY <1>1, <2>1 DEF EventoBien, ServiciosQuedan
  <2>2. CASE \E i \in DOMAIN eventos : i # k /\ eventos'[j] = eventos[i]
    BY <2>2 DEF EventosBien, EventoBien, ServiciosQuedan
  <2> QED BY <1>2, <2>1, <2>2
<1> QED BY <1>2, <1>3 DEF EventosBien, Cola

LEMMA TipoTrasManejar ==
  ASSUME TipoInv, TablasBien', EventosBien', ServiciosQuedan,
         UNCHANGED <<modificatorio, peticion, cuentas>>
  PROVE  TipoInv'
<1>1. PeticionesBien' BY DEF TipoInv, PeticionesBien, PeticionBien, ServiciosQuedan
<1>2. PorInsertar' = PorInsertar BY DEF PorInsertar
<1>3. CuentasBien' BY <1>2 DEF TipoInv, CuentasBien, cuentas
<1> QED BY <1>1, <1>3 DEF TipoInv

LEMMA TipoManejar ==
  ASSUME TipoInv, NEW k \in DOMAIN eventos, Manejar(k)
  PROVE  TipoInv'
<1> DEFINE v == eventos[k]
<1>1. TablasBien /\ EventosBien /\ DOMAIN v = CamposDeEvento /\ v.clase \in Clases
      /\ \A s \in v.servicios : s \in Servicios /\ HayServicio(s)
  BY DEF TipoInv, EventosBien, EventoBien
<1>2. ASSUME ManejarProveedor(k) PROVE TipoInv'
  <2>1. /\ UNCHANGED <<maestro, modificatorio, hoy, revisado, estacion, servicio, renovacion,
                       peticion, cuentas>>
    BY <1>2 DEF ManejarProveedor, contratos, dia, red
  <2>2. proveedor' \in BOOLEAN
    <3>1. CASE UNCHANGED proveedor BY <1>1, <3>1 DEF TablasBien
    <3>2. CASE proveedor' = (v.clase \in Habilita) BY <3>2
    <3> QED BY <1>2, <3>1, <3>2 DEF ManejarProveedor
  <2>3. TablasBien' /\ ServiciosQuedan
    BY <1>1, <2>1, <2>2 DEF TablasBien, HayServicio, ServiciosQuedan
  <2>4. CASE Despachado(k) BY <1>1, <2>1, <2>3, <2>4, TipoDespachado, TipoTrasManejar
  <2>5. CASE eventos' = [eventos EXCEPT ![k].en = "escribir"]
    <3> DEFINE w == [v EXCEPT !.en = "escribir"]
    <3>1. DOMAIN w = CamposDeEvento /\ w.clase = v.clase /\ w.servicios = v.servicios
          /\ eventos' = [eventos EXCEPT ![k] = w]
      BY <1>1, <2>5 DEF CamposDeEvento
    <3> HIDE DEF w
    <3> QED BY <1>1, <2>1, <2>3, <3>1, TipoSigueEvento, TipoTrasManejar
  <2> QED BY <1>2, <2>4, <2>5 DEF ManejarProveedor
<1>3. ASSUME ManejarRenovacion(k) PROVE TipoInv'
  <2>1. /\ UNCHANGED <<proveedor, maestro, modificatorio, hoy, revisado, estacion, servicio,
                       peticion, cuentas>>
    BY <1>3 DEF ManejarRenovacion, contratos, dia
  <2>2. TablasBien' /\ ServiciosQuedan
    <3>1. CASE UNCHANGED renovacion
      BY <1>1, <2>1, <3>1 DEF TablasBien, HayServicio, ServiciosQuedan
    <3>2. CASE renovacion' = [renovacion EXCEPT ![v.s][v.i] = NuevaRenovacion]
      <4> DEFINE r == [renovacion[v.s] EXCEPT ![v.i] = NuevaRenovacion]
      <4>1. renovacion' = [renovacion EXCEPT ![v.s] = r] BY <3>2
      <4>2. ASSUME v.s \in Servicios PROVE r \in Seq(Renovacion)
        <5>1. NuevaRenovacion \in Renovacion /\ renovacion[v.s] \in Seq(Renovacion)
          BY <1>1, <4>2 DEF TablasBien, NuevaRenovacion, Renovacion
        <5> QED BY <5>1, SeqExcept
      <4>3. ASSUME v.s \in Servicios, ~HayServicio(v.s) PROVE r = <<>>
        <5>1. renovacion[v.s] = <<>> BY <1>1, <4>3 DEF TablasBien
        <5> QED BY <5>1
      <4> HIDE DEF r
      <4> QED BY <1>1, <2>1, <4>1, <4>2, <4>3, TipoRenovacion, ServiciosIguales
    <3> QED BY <1>3, <3>1, <3>2 DEF ManejarRenovacion
  <2>3. CASE Despachado(k) BY <1>1, <2>1, <2>2, <2>3, TipoDespachado, TipoTrasManejar
  <2>4. ASSUME NEW n, eventos' = [eventos EXCEPT ![k].en = "escribir", ![k].i = n]
        PROVE  TipoInv'
    <3> DEFINE w == [v EXCEPT !.en = "escribir", !.i = n]
    <3>1. DOMAIN w = CamposDeEvento /\ w.clase = v.clase /\ w.servicios = v.servicios
          /\ eventos' = [eventos EXCEPT ![k] = w]
      BY <1>1, <2>4 DEF CamposDeEvento
    <3> HIDE DEF w
    <3> QED BY <1>1, <2>1, <2>2, <3>1, TipoSigueEvento, TipoTrasManejar
  <2> QED BY <1>3, <2>3, <2>4 DEF ManejarRenovacion
<1>t. ASSUME UNCHANGED <<proveedor, contratos, dia, red, peticion, cuentas>>
      PROVE  TablasBien' /\ ServiciosQuedan /\ UNCHANGED <<modificatorio, peticion, cuentas>>
  BY <1>1, <1>t DEF TablasBien, HayServicio, ServiciosQuedan, contratos, dia, red
<1>4. ASSUME LeerRed(k) PROVE TipoInv'
  <2> DEFINE cambian == PorCambiar(v.clase, v.tipos)
             e == PorConmutar(v.clase, cambian)
             w == [v EXCEPT !.en = "buscar", !.servicios = cambian, !.estaciones = e]
  <2>1. TrasEstaciones(k, w) /\ UNCHANGED <<proveedor, contratos, dia, red, peticion, cuentas>>
    BY <1>4 DEF LeerRed
  <2>2. \A s \in cambian : s \in Servicios /\ HayServicio(s) BY DEF PorCambiar
  <2> HIDE DEF cambian, e
  <2>3. DOMAIN w = CamposDeEvento /\ w.clase = v.clase /\ w.servicios = cambian
    BY <1>1 DEF CamposDeEvento
  <2> HIDE DEF w
  <2> QED BY <1>1, <1>t, <2>1, <2>2, <2>3, TipoTras, TipoTrasManejar
<1>5. ASSUME BuscarPorConmutar(k) PROVE TipoInv'
  <2>1. UNCHANGED <<proveedor, contratos, dia, red, peticion, cuentas>>
    BY <1>5 DEF BuscarPorConmutar
  <2>2. CASE Despachado(k) BY <1>1, <1>t, <2>1, <2>2, TipoDespachado, TipoTrasManejar
  <2>3. ASSUME NEW e, eventos' = [eventos EXCEPT ![k].en = "conmutar", ![k].e = e]
        PROVE  TipoInv'
    <3> DEFINE w == [v EXCEPT !.en = "conmutar", !.e = e]
    <3>1. DOMAIN w = CamposDeEvento /\ w.clase = v.clase /\ w.servicios = v.servicios
          /\ eventos' = [eventos EXCEPT ![k] = w]
      BY <1>1, <2>3 DEF CamposDeEvento
    <3> HIDE DEF w
    <3> QED BY <1>1, <1>t, <2>1, <3>1, TipoSigueEvento, TipoTrasManejar
  <2> QED BY <1>5, <2>2, <2>3 DEF BuscarPorConmutar
<1>6. ASSUME Conmutar(k) PROVE TipoInv'
  <2>1. UNCHANGED <<proveedor, maestro, modificatorio, hoy, revisado, servicio, renovacion,
                    peticion, cuentas>>
    BY <1>6 DEF Conmutar, contratos, dia
  <2>2. estacion' \in [Estaciones -> {"NO_EXISTE", "ACTIVA", "INACTIVA", "BORRADA"}]
    BY <1>1, <1>6 DEF Conmutar, Encendida, TablasBien
  <2>3. TablasBien' /\ ServiciosQuedan
    BY <1>1, <2>1, <2>2 DEF TablasBien, HayServicio, ServiciosQuedan
  <2> DEFINE w == [v EXCEPT !.en = "releer"]
  <2>4. DOMAIN w = CamposDeEvento /\ w.clase = v.clase /\ w.servicios = v.servicios
        /\ eventos' = [eventos EXCEPT ![k] = w]
    BY <1>1, <1>6 DEF Conmutar, CamposDeEvento
  <2> HIDE DEF w
  <2> QED BY <1>1, <2>1, <2>3, <2>4, TipoSigueEvento, TipoTrasManejar
<1>7. ASSUME Releer(k) PROVE TipoInv'
  <2>1. UNCHANGED <<proveedor, contratos, dia, red, peticion, cuentas>> BY <1>7 DEF Releer
  <2>2. CASE Despachado(k) BY <1>1, <1>t, <2>1, <2>2, TipoDespachado, TipoTrasManejar
  <2> DEFINE w == [v EXCEPT !.en = "buscar", !.e = "-", !.estaciones = @ \ {v.e}]
  <2>3. CASE TrasEstaciones(k, w)
    <3>1. DOMAIN w = CamposDeEvento /\ w.clase = v.clase /\ w.servicios = v.servicios
      BY <1>1 DEF CamposDeEvento
    <3> HIDE DEF w
    <3> QED BY <1>1, <1>t, <2>1, <2>3, <3>1, TipoTras, TipoTrasManejar
  <2> QED BY <1>7, <2>2, <2>3 DEF Releer
<1>8. ASSUME CambiarServicio(k) PROVE TipoInv'
  <2>1. UNCHANGED <<proveedor, maestro, modificatorio, hoy, revisado, estacion, renovacion,
                    peticion, cuentas>>
    BY <1>8 DEF CambiarServicio, contratos, dia
  <2>2. PICK s \in v.servicios :
          /\ servicio' = [servicio EXCEPT ![s].estatus = Enciende(v.clase)]
          /\ \/ Despachado(k)
             \/ eventos' = [eventos EXCEPT ![k].servicios = Pendientes(v.servicios, s)]
    BY <1>8 DEF CambiarServicio
  <2> DEFINE r == [servicio[s] EXCEPT !.estatus = Enciende(v.clase)]
  <2>3. r \in Servicio
    <3>1. servicio[s] \in Servicio BY <1>1 DEF TablasBien, HayServicio
    <3>2. Enciende(v.clase) \in BOOLEAN BY DEF Enciende
    <3> QED BY <3>1, <3>2 DEF Servicio
  <2>4. servicio' = [servicio EXCEPT ![s] = r] BY <2>2
  <2> HIDE DEF r
  <2>5. TablasBien' /\ ServiciosQuedan BY <1>1, <2>1, <2>3, <2>4, TipoServicio
  <2>6. CASE Despachado(k) BY <1>1, <2>1, <2>5, <2>6, TipoDespachado, TipoTrasManejar
  <2>7. CASE eventos' = [eventos EXCEPT ![k].servicios = Pendientes(v.servicios, s)]
    <3> DEFINE w == [v EXCEPT !.servicios = Pendientes(v.servicios, s)]
    <3>1. /\ DOMAIN w = CamposDeEvento /\ w.clase = v.clase
          /\ w.servicios \subseteq v.servicios
          /\ eventos' = [eventos EXCEPT ![k] = w]
      BY <1>1, <2>7 DEF CamposDeEvento, Pendientes
    <3>2. \A x \in w.servicios : x \in Servicios /\ HayServicio(x) BY <1>1, <3>1
    <3> HIDE DEF w
    <3> QED BY <1>1, <2>1, <2>5, <3>1, <3>2, TipoSigueEvento, TipoTrasManejar
  <2> QED BY <2>2, <2>6, <2>7
<1> QED BY <1>2, <1>3, <1>4, <1>5, <1>6, <1>7, <1>8 DEF Manejar

----
(* Nights and failures. *)

\* A failure counts.
LEMMA FalloCuenta ==
  ASSUME CuentasBien, Fallo
  PROVE  /\ inicios' \in 0..MaxInicios /\ incidentes' \in Nat /\ fallos' \in Nat
         /\ incidentes' + fallos' \in 0..MaxIncidentes
<1>1. \A a, b \in Nat : a + b \in Nat OBVIOUS
<1>2. inicios' = inicios /\ incidentes' = incidentes /\ fallos' = fallos + 1 /\ DentroDeCotas
  BY DEF Fallo
<1>3. inicios \in Nat /\ incidentes \in Nat /\ fallos \in Nat
  BY ProveedorAssumption DEF CuentasBien
<1>4. inicios' \in Nat /\ incidentes' \in Nat /\ fallos' \in Nat /\ incidentes' + fallos' \in Nat
  BY <1>1, <1>2, <1>3
<1> QED BY <1>2, <1>4, CuentasLlegan DEF DentroDeCotas

LEMMA TipoNoche ==
  ASSUME TipoInv,
         MedianocheSinServidor \/ \E h \in Hilos : Medianoche(h)
  PROVE  TipoInv'
<1>0. hoy < Dias => hoy + 1 \in 0..Dias BY ProveedorAssumption DEF TipoInv, TablasBien
<1>1. ASSUME NEW h \in Hilos, Medianoche(h) PROVE TipoInv'
  <2> DEFINE r == [SinPeticion EXCEPT !.op = "diario", !.en = "vencidos"]
  <2>1. PeticionBien(r) /\ r.op = "diario"
    BY DEF PeticionBien, SinPeticion, Campos, DeModificatorios
  <2>2. /\ Llegar(TRUE) /\ peticion' = [peticion EXCEPT ![h] = r] /\ hoy' \in 0..Dias
        /\ UNCHANGED <<proveedor, contratos, red, eventos>>
    BY <1>0, <1>1 DEF Medianoche
  <2> HIDE DEF r
  <2> QED BY <2>1, <2>2, TipoLlegar
<1>2. ASSUME MedianocheSinServidor PROVE TipoInv'
  <2>1. /\ UNCHANGED <<proveedor, maestro, modificatorio, revisado, estacion, servicio,
                       renovacion, peticion, eventos>>
        /\ hoy' \in 0..Dias /\ Fallo
    BY <1>0, <1>2 DEF MedianocheSinServidor, contratos, red
  <2>2. TablasBien' /\ ServiciosQuedan
    BY <2>1 DEF TipoInv, TablasBien, HayServicio, ServiciosQuedan
  <2>3. EventosBien' /\ PeticionesBien' BY <2>1, <2>2, TipoEventosIguales
       DEF TipoInv, PeticionesBien, PeticionBien, ServiciosQuedan
  <2>4. PorInsertar' = PorInsertar BY <2>1 DEF PorInsertar
  <2>5. inicios' \in 0..MaxInicios /\ incidentes' \in Nat /\ fallos' \in Nat
        /\ incidentes' + fallos' \in 0..MaxIncidentes
    BY <2>1, FalloCuenta DEF TipoInv
  <2> QED BY <2>1, <2>2, <2>3, <2>4, <2>5 DEF TipoInv, CuentasBien
<1> QED BY <1>1, <1>2

LEMMA TipoFallos ==
  ASSUME TipoInv,
         \/ \E h \in Hilos : FallarPeticion(h)
         \/ \E k \in DOMAIN eventos : FallarEvento(k)
         \/ CaerServidor
  PROVE  TipoInv'
<1> DEFINE sin == UNCHANGED <<proveedor, contratos, dia, red>>
<1>t. ASSUME sin, Fallo
      PROVE  TablasBien' /\ ServiciosQuedan /\ modificatorio' = modificatorio
  BY <1>t DEF TipoInv, TablasBien, HayServicio, ServiciosQuedan, contratos, dia, red
<1>c. ASSUME sin, Fallo, Cardinality(PorInsertar') <= Cardinality(PorInsertar),
             Cardinality(PorInsertar') \in Nat
      PROVE  CuentasBien'
  <2>1. inicios' \in 0..MaxInicios /\ incidentes' \in Nat /\ fallos' \in Nat
        /\ incidentes' + fallos' \in 0..MaxIncidentes
    BY <1>c, FalloCuenta DEF TipoInv
  <2>2. Cardinality(PorInsertar) \in Nat
    BY ProveedorAssumption, FS_Subset, FS_CardinalityType DEF PorInsertar
  <2>3. Len(modificatorio) \in Nat /\ MaxModificatorios \in Nat
    BY ProveedorAssumption DEF TipoInv, TablasBien
  <2>4. Len(modificatorio') + Cardinality(PorInsertar') <= MaxModificatorios
    BY <1>c, <1>t, <2>2, <2>3 DEF TipoInv, CuentasBien
  <2> QED BY <2>1, <2>4 DEF CuentasBien
<1>1. ASSUME NEW h \in Hilos, FallarPeticion(h) PROVE TipoInv'
  <2>1. sin /\ Fallo /\ eventos' = eventos /\ (Seguir(h, "leerBaja") \/ Responder(h))
    BY <1>1 DEF FallarPeticion
  <2>2. Mueve(h) /\ PeticionBien(peticion'[h]) /\ peticion'[h].en \notin {"leer", "insertar"}
    <3>1. PeticionBien([peticion[h] EXCEPT !.en = "leerBaja"])
      BY DEF TipoInv, PeticionesBien, PeticionBien, Campos, DeModificatorios
    <3> QED BY <2>1, <3>1, MueveResponder, MueveSeguir DEF TipoInv
  <2>3. /\ PeticionesBien' /\ Cardinality(PorInsertar') <= Cardinality(PorInsertar)
        /\ Cardinality(PorInsertar') \in Nat
    BY <1>t, <2>1, <2>2, TipoPeticiones
  <2>4. EventosBien' BY <1>t, <2>1, TipoEventosIguales DEF TipoInv
  <2> QED BY <1>c, <1>t, <2>1, <2>3, <2>4 DEF TipoInv
<1>2. ASSUME NEW k \in DOMAIN eventos, FallarEvento(k) PROVE TipoInv'
  <2>1. sin /\ Fallo /\ Despachado(k) /\ peticion' = peticion BY <1>2 DEF FallarEvento
  <2>2. EventosBien' BY <1>t, <2>1, TipoDespachado DEF TipoInv
  <2>3. PeticionesBien' /\ PorInsertar' = PorInsertar
    BY <1>t, <2>1 DEF TipoInv, PeticionesBien, PeticionBien, ServiciosQuedan, PorInsertar
  <2>4. Cardinality(PorInsertar) \in Nat
    BY ProveedorAssumption, FS_Subset, FS_CardinalityType DEF PorInsertar
  <2> QED BY <1>c, <1>t, <2>1, <2>2, <2>3, <2>4 DEF TipoInv
<1>3. ASSUME CaerServidor PROVE TipoInv'
  <2>1. sin /\ Fallo /\ eventos' = <<>> /\ peticion' = [h \in Hilos |-> SinPeticion]
    BY <1>3 DEF CaerServidor
  <2>2. EventosBien'
    <3>1. eventos' \in Seq({}) /\ DOMAIN eventos' = {} BY <2>1
    <3> QED BY <3>1 DEF EventosBien
  <2>3. PeticionesBien'
    <3>1. DOMAIN peticion' = Hilos /\ \A h \in Hilos : PeticionBien(peticion'[h])
      BY <2>1, SinPeticionBien
    <3>2. ASSUME NEW h \in Hilos PROVE PeticionBien(peticion[h])'
      BY <1>t, <2>1, <3>1 DEF PeticionBien, ServiciosQuedan
    <3> QED BY <3>1, <3>2 DEF PeticionesBien
  <2>4. PorInsertar' = {}
    <3>1. SinPeticion.op = "-" BY DEF SinPeticion
    <3> QED BY <2>1, <3>1 DEF PorInsertar
  <2>5. Cardinality(PorInsertar') = 0 /\ Cardinality(PorInsertar) \in Nat
    BY <2>4, ProveedorAssumption, FS_EmptySet, FS_Subset, FS_CardinalityType DEF PorInsertar
  <2> QED BY <1>c, <1>t, <2>1, <2>2, <2>3, <2>5 DEF TipoInv
<1> QED BY <1>1, <1>2, <1>3

LEMMA TipoAtender ==
  ASSUME TipoInv, NEW h \in Hilos, Atender(h)
  PROVE  TipoInv'
<1>1. CASE Lee(h) BY <1>1, TipoLee, TipoSoloPeticiones
<1>2. CASE ~Lee(h)
  <2>1. \/ EscribirProveedor(h) \/ GuardarEstacion(h) \/ GuardarServicio(h)
        \/ EscribirServicio(h) \/ BajaAnterior(h) \/ GuardarRenovacion(h) \/ BorrarRenovacion(h)
        \/ ContarYEmitir(h) \/ GuardarMaestro(h) \/ GuardarSecundarios(h) \/ ActualizarMaestro(h)
        \/ LeerBaja(h) \/ BorrarFila(h) \/ BorrarMaestro(h) \/ CancelarMaestro(h)
        \/ AvisarBaja(h) \/ TerminarMaestro(h) \/ LeerVigentes(h) \/ ContarDeProveedor(h)
        \/ LeerTipos(h) \/ changeStatus(h)
        \/ CancelarModificatorio(h) \/ InsertarModificatorio(h) \/ CorregirModificatorio(h)
    BY <1>2 DEF Atender, Lee
  <2> QED BY <2>1, TipoRed, TipoMaestros, TipoModificatorios
<1> QED BY <1>1, <1>2

LEMMA TipoInit ==
  ASSUME InitContratos
  PROVE  TipoInv
<1>1. PICK vivos \in SUBSET Existentes :
        /\ maestro = [m \in Maestros |->
             IF m \in vivos THEN [estatus |-> "ADJUDICADO", tipos |-> TiposDe[m]] ELSE SinMaestro]
        /\ proveedor = (vivos # {})
        /\ LET cubiertos == UNION {TiposDe[m] : m \in vivos}
               primera == CHOOSE e \in Estaciones : TRUE
           IN  /\ servicio = [s \in Servicios |->
                    IF s \in DOMAIN Iniciales
                      THEN [estacion |-> primera, tipo |-> Iniciales[s],
                            estatus |-> Iniciales[s] \in cubiertos]
                      ELSE SinServicio]
               /\ estacion = [e \in Estaciones |->
                    IF e # primera THEN "NO_EXISTE"
                    ELSE Encendida(\E s \in DOMAIN Iniciales : Iniciales[s] \in cubiertos)]
  BY DEF InitContratos
<1>2. /\ renovacion = [s \in Servicios |->
           IF s \in DOMAIN Iniciales THEN <<NuevaRenovacion>> ELSE <<>>]
      /\ modificatorio = <<>> /\ hoy = 0 /\ revisado = FALSE
      /\ peticion = [h \in Hilos |-> SinPeticion] /\ eventos = <<>>
      /\ inicios = 0 /\ incidentes = 0 /\ fallos = 0
  BY DEF InitContratos
<1>3. proveedor \in BOOLEAN BY <1>1
<1>4. /\ maestro \in [Maestros -> [estatus : ESTATUS_DE_CONTRATO \cup {"NO_EXISTE", "BORRADO"},
                                   tipos : SUBSET Tipos]]
      /\ \A m \in Maestros : maestro[m].tipos # {} => maestro[m].estatus \in ESTATUS_DE_CONTRATO
  <2> DEFINE E == ESTATUS_DE_CONTRATO \cup {"NO_EXISTE", "BORRADO"}
             r(m) == IF m \in vivos THEN [estatus |-> "ADJUDICADO", tipos |-> TiposDe[m]]
                     ELSE SinMaestro
  <2>1. ASSUME NEW m \in Maestros
        PROVE  /\ r(m) \in [estatus : E, tipos : SUBSET Tipos]
               /\ r(m).tipos # {} => r(m).estatus \in ESTATUS_DE_CONTRATO
    <3>1. "ADJUDICADO" \in ESTATUS_DE_CONTRATO /\ "ADJUDICADO" \in E /\ "NO_EXISTE" \in E
      BY DEF ESTATUS_DE_CONTRATO, Vivos
    <3>2. TiposDe[m] \in SUBSET Tipos BY ProveedorAssumption
    <3> HIDE DEF E
    <3> QED BY <3>1, <3>2 DEF SinMaestro
  <2>2. maestro = [m \in Maestros |-> r(m)] BY <1>1
  <2> HIDE DEF r
  <2> QED BY <2>1, <2>2
<1>5. servicio \in [Servicios -> Servicio \cup {SinServicio}]
  <2> DEFINE cubiertos == UNION {TiposDe[m] : m \in vivos}
             primera == CHOOSE e \in Estaciones : TRUE
             r(s) == [estacion |-> primera, tipo |-> Iniciales[s],
                      estatus |-> Iniciales[s] \in cubiertos]
  <2>1. ASSUME NEW s \in Servicios, s \in DOMAIN Iniciales PROVE r(s) \in Servicio
    <3>1. Iniciales[s] \in Tipos /\ Estaciones # {} BY <2>1, ProveedorAssumption
    <3>2. primera \in Estaciones BY <3>1
    <3>3. (Iniciales[s] \in cubiertos) \in BOOLEAN OBVIOUS
    <3> HIDE DEF primera, cubiertos
    <3> QED BY <3>1, <3>2, <3>3 DEF Servicio
  <2>2. servicio = [s \in Servicios |-> IF s \in DOMAIN Iniciales THEN r(s) ELSE SinServicio]
    BY <1>1
  <2> HIDE DEF r
  <2> QED BY <2>1, <2>2
<1>6. estacion \in [Estaciones -> {"NO_EXISTE", "ACTIVA", "INACTIVA", "BORRADA"}]
  BY <1>1 DEF Encendida
<1>7. /\ renovacion \in [Servicios -> Seq(Renovacion)]
      /\ \A s \in Servicios : ~HayServicio(s) => renovacion[s] = <<>>
  <2> DEFINE uno == <<NuevaRenovacion>>
             nada == <<>>
  <2>1. uno \in Seq(Renovacion) /\ nada \in Seq(Renovacion)
    BY DEF Renovacion, NuevaRenovacion
  <2>2. renovacion = [s \in Servicios |-> IF s \in DOMAIN Iniciales THEN uno ELSE nada]
    BY <1>2
  <2>3. ASSUME NEW s \in Servicios, s \in DOMAIN Iniciales PROVE HayServicio(s)
    <3>1. servicio[s].estatus = (Iniciales[s] \in UNION {TiposDe[m] : m \in vivos})
          /\ servicio[s].tipo = Iniciales[s]
          /\ servicio[s].estacion = CHOOSE e \in Estaciones : TRUE
      BY <1>1, <2>3
    <3>2. (CHOOSE e \in Estaciones : TRUE) \in Estaciones BY <2>3, ProveedorAssumption
    <3>3. servicio[s].estacion # "-" BY <3>1, <3>2, ProveedorAssumption
    <3> QED BY <3>3 DEF HayServicio, SinServicio
  <2> HIDE DEF uno
  <2> QED BY <2>1, <2>2, <2>3
<1>8. modificatorio \in Seq(Modificatorio) /\ Len(modificatorio) = 0 BY <1>2
<1>9. TablasBien
  <2>1. hoy \in 0..Dias /\ revisado \in BOOLEAN
    <3>1. Dias \in Nat BY ProveedorAssumption
    <3>2. hoy = 0 /\ revisado = FALSE BY <1>2
    <3>3. hoy \in 0..Dias BY <3>1, <3>2
    <3> QED BY <3>2, <3>3
  <2> QED BY <1>3, <1>4, <1>5, <1>6, <1>7, <1>8, <2>1 DEF TablasBien
<1>10. PeticionesBien BY <1>2, SinPeticionBien DEF PeticionesBien
<1>11. EventosBien
  <2>1. eventos \in Seq({}) /\ DOMAIN eventos = {} BY <1>2
  <2> QED BY <2>1 DEF EventosBien
<1>12. CuentasBien
  <2>1. PorInsertar = {}
    <3>1. SinPeticion.op = "-" BY DEF SinPeticion
    <3> QED BY <1>2, <3>1 DEF PorInsertar
  <2>2. Cardinality(PorInsertar) = 0 BY <2>1, FS_EmptySet
  <2> QED BY <1>2, <1>8, <2>2, ProveedorAssumption DEF CuentasBien
<1> QED BY <1>9, <1>10, <1>11, <1>12 DEF TipoInv

LEMMA TipoNext ==
  ASSUME TipoInv, [NextContratos]_todo
  PROVE  TipoInv'
<1>1. ASSUME NEW h \in Hilos, PedirContrato(h) \/ PedirRed(h) PROVE TipoInv'
  BY <1>1, TipoLlegaContrato, TipoLlegaRed
<1>2. ASSUME NEW h \in Hilos, Medianoche(h) PROVE TipoInv' BY <1>2, TipoNoche
<1>3. ASSUME NEW h \in Hilos, Atender(h) PROVE TipoInv' BY <1>3, TipoAtender
<1>4. ASSUME NEW k \in DOMAIN eventos, Manejar(k) PROVE TipoInv' BY <1>4, TipoManejar
<1>5. CASE UNCHANGED todo
  <2>1. UNCHANGED <<proveedor, maestro, modificatorio, hoy, revisado, estacion, servicio,
                    renovacion, peticion, eventos, inicios, incidentes, fallos>>
    BY <1>5 DEF todo, contratos, dia, red, cuentas
  <2>2. TablasBien' /\ PeticionesBien' /\ EventosBien'
    BY <2>1 DEF TipoInv, TablasBien, PeticionesBien, PeticionBien, EventosBien, EventoBien,
                HayServicio
  <2>3. CuentasBien' BY <2>1 DEF TipoInv, CuentasBien, PorInsertar
  <2> QED BY <2>2, <2>3 DEF TipoInv
<1> QED BY <1>1, <1>2, <1>3, <1>4, <1>5, TipoNoche, TipoFallos DEF NextContratos

\* Tables, requests, events and counts keep their types, whatever arrives,
\* overlaps, fails or stops.
THEOREM TipoContratos == SpecContratos => []TypeOKContratos
<1>1. InitContratos => TipoInv BY TipoInit
<1>2. TipoInv /\ [NextContratos]_todo => TipoInv' BY TipoNext
<1>3. TipoInv => TypeOKContratos BY TipoBasta
<1> QED BY <1>1, <1>2, <1>3, PTL DEF SpecContratos

----
(* How a request goes on. *)

\* The request h answers, or goes on in one of these phases with what the client
\* sent.
Va(h, fases) ==
  /\ peticion[h].en # "libre" /\ Mueve(h)
  /\ \/ peticion'[h] = SinPeticion
     \/ /\ peticion'[h].en \in fases
        /\ peticion'[h].op = peticion[h].op /\ peticion'[h].m = peticion[h].m
        /\ peticion'[h].estatus = peticion[h].estatus
        /\ peticion'[h].extension = peticion[h].extension
        /\ peticion'[h].s = peticion[h].s

LEMMA VaResponder ==
  ASSUME PeticionesBien, NEW h \in Hilos, peticion[h].en # "libre", Responder(h), NEW fases
  PROVE  Va(h, fases)
BY MueveResponder DEF Va

LEMMA VaCambia ==
  ASSUME PeticionesBien, NEW h \in Hilos, peticion[h].en # "libre", NEW r, NEW fases,
         peticion' = [peticion EXCEPT ![h] = r], r.en \in fases,
         r.op = peticion[h].op, r.m = peticion[h].m, r.estatus = peticion[h].estatus,
         r.extension = peticion[h].extension, r.s = peticion[h].s
  PROVE  Va(h, fases)
BY DEF Va, Mueve, PeticionesBien

LEMMA VaSeguir ==
  ASSUME PeticionesBien, NEW h \in Hilos, peticion[h].en # "libre", NEW fases, NEW en \in fases,
         Seguir(h, en)
  PROVE  Va(h, fases)
<1> DEFINE r == [peticion[h] EXCEPT !.en = en]
<1>1. /\ peticion' = [peticion EXCEPT ![h] = r] /\ r.en = en
      /\ r.op = peticion[h].op /\ r.m = peticion[h].m /\ r.estatus = peticion[h].estatus
      /\ r.extension = peticion[h].extension /\ r.s = peticion[h].s
  BY DEF Seguir, PeticionesBien, PeticionBien, Campos
<1> HIDE DEF r
<1> QED BY <1>1, VaCambia

\* The phases that each step goes on to.
Pasos(h) ==
  /\ ContarVivos(h) => Va(h, {"escribirProveedor"})
  /\ EscribirProveedor(h) => Va(h, {})
  /\ ContarEstacion(h) => Va(h, {"guardarEstacion"})
  /\ LeerEstacion(h) => Va(h, {"guardarEstacion"})
  /\ GuardarEstacion(h) => Va(h, {})
  /\ BuscarEstacion(h) => Va(h, {"guardarServicio"})
  /\ GuardarServicio(h) => Va(h, {})
  /\ LeerServicio(h) => Va(h, {"escribirServicio"})
  /\ EscribirServicio(h) => Va(h, {})
  /\ isFirstRenovation(h) => Va(h, {"nueva", "anterior"})
  /\ LeerAnterior(h) => Va(h, {"baja"})
  /\ BajaAnterior(h) => Va(h, {"nueva"})
  /\ GuardarRenovacion(h) => Va(h, {})
  /\ LeerRenovacion(h) => Va(h, {"borrarRenovacion"})
  /\ BorrarRenovacion(h) => Va(h, {})
  /\ ExisteNumero(h) => Va(h, {"leerProveedor"})
  /\ LeerProveedor(h) => Va(h, {"verificar"})
  /\ Verificar(h) => Va(h, {"contar"})
  /\ ContarYEmitir(h) => Va(h, {"guardar"})
  /\ GuardarMaestro(h) => Va(h, {"secundarios"})
  /\ GuardarSecundarios(h) => Va(h, {"leerBaja"})
  /\ LeerMaestro(h) => Va(h, {"modificatorios", "guardar"})
  /\ ActualizarMaestro(h) => Va(h, {})
  /\ LeerBaja(h) => Va(h, {"borrarMaestro", "buscarFila"})
  /\ BuscarFila(h) => Va(h, {"borrarFila"})
  /\ BorrarFila(h) => Va(h, {"borrarMaestro", "buscarFila"})
  /\ BorrarMaestro(h) => Va(h, {})
  /\ BuscarModificatorios(h) => Va(h, {"cancelarMaestro", "cancelarModificatorio"})
  /\ CancelarModificatorio(h) => Va(h, {"cancelarMaestro", "cancelarModificatorio"})
  /\ CancelarMaestro(h) => Va(h, {"avisarBaja"})
  /\ AvisarBaja(h) => Va(h, {})
  /\ LeerParaExtender(h) => Va(h, {"insertar"})
  /\ InsertarModificatorio(h) => Va(h, {"contar"})
  /\ LeerModificatorio(h) => Va(h, {"corregir"})
  /\ CorregirModificatorio(h) => Va(h, {"leerMaestro"})
  /\ LeerMaestroExtendido(h) => Va(h, {"contar"})
  /\ ContarPorTermino(h) => Va(h, {"tipos"})
  /\ LeerTipos(h) => Va(h, {"leerEstatus"})
  /\ LeerParaCambiar(h) => Va(h, {"cambiarEstatus"})
  /\ changeStatus(h) => Va(h, {})
  /\ LeerVencidos(h) => Va(h, {"terminar", "vigentes", "proveedores"})
  /\ TerminarMaestro(h) => Va(h, {"terminar", "vigentes"})
  /\ LeerVigentes(h) => Va(h, {"proveedores"})
  /\ LeerProveedores(h) => Va(h, {"contarDeProveedor"})
  /\ ContarDeProveedor(h) => Va(h, {})

LEMMA PasosDeAtender ==
  ASSUME PeticionesBien, NEW h \in Hilos
  PROVE  Pasos(h)
<1> DEFINE q == peticion[h]
<1>q. DOMAIN q = Campos BY DEF PeticionesBien, PeticionBien
<1>1. ASSUME ContarVivos(h) PROVE Va(h, {"escribirProveedor"})
  <2>1. q.en # "libre" /\ (Responder(h) \/ Seguir(h, "escribirProveedor"))
    BY <1>1 DEF ContarVivos, SeguirSi
  <2> QED BY <2>1, VaResponder, VaSeguir
<1>2. ASSUME EscribirProveedor(h) PROVE Va(h, {})
  BY <1>2, VaResponder DEF EscribirProveedor
<1>3. ASSUME ContarEstacion(h) PROVE Va(h, {"guardarEstacion"})
  <2> DEFINE r == [q EXCEPT !.en = "guardarEstacion", !.habilitado = countActiveContracts > 0]
  <2>1. /\ r.en = "guardarEstacion" /\ r.op = q.op /\ r.m = q.m /\ r.estatus = q.estatus
        /\ r.extension = q.extension /\ r.s = q.s
    BY <1>q DEF Campos
  <2>2. q.en # "libre" /\ (peticion' = [peticion EXCEPT ![h] = r])
    BY <1>3 DEF ContarEstacion
  <2> HIDE DEF r
  <2> QED BY <2>1, <2>2, VaCambia
<1>4. ASSUME LeerEstacion(h) PROVE Va(h, {"guardarEstacion"})
  <2>1. q.en # "libre" /\ (Responder(h) \/ Seguir(h, "guardarEstacion"))
    BY <1>4 DEF LeerEstacion, SeguirSi
  <2> QED BY <2>1, VaResponder, VaSeguir
<1>5. ASSUME GuardarEstacion(h) PROVE Va(h, {}) BY <1>5, VaResponder DEF GuardarEstacion
<1>6. ASSUME BuscarEstacion(h) PROVE Va(h, {"guardarServicio"})
  <2>1. q.en # "libre" BY <1>6 DEF BuscarEstacion
  <2>2. ASSUME NEW e, peticion' = [peticion EXCEPT ![h].en = "guardarServicio", ![h].e = e]
        PROVE  Va(h, {"guardarServicio"})
    <3> DEFINE r == [q EXCEPT !.en = "guardarServicio", !.e = e]
    <3>1. /\ r.en = "guardarServicio" /\ r.op = q.op /\ r.m = q.m /\ r.estatus = q.estatus
          /\ r.extension = q.extension /\ r.s = q.s /\ peticion' = [peticion EXCEPT ![h] = r]
      BY <1>q, <2>2 DEF Campos
    <3> HIDE DEF r
    <3> QED BY <2>1, <3>1, VaCambia
  <2> QED BY <1>6, <2>1, <2>2, VaResponder DEF BuscarEstacion
<1>7. ASSUME GuardarServicio(h) PROVE Va(h, {}) BY <1>7, VaResponder DEF GuardarServicio
<1>8. ASSUME LeerServicio(h) PROVE Va(h, {"escribirServicio"})
  <2> DEFINE r == [q EXCEPT !.en = "escribirServicio", !.tipo = servicio[q.s].tipo]
  <2>1. /\ r.en = "escribirServicio" /\ r.op = q.op /\ r.m = q.m /\ r.estatus = q.estatus
        /\ r.extension = q.extension /\ r.s = q.s
    BY <1>q DEF Campos
  <2>2. q.en # "libre" /\ (peticion' = [peticion EXCEPT ![h] = r])
    BY <1>8 DEF LeerServicio
  <2> HIDE DEF r
  <2> QED BY <2>1, <2>2, VaCambia
<1>9. ASSUME EscribirServicio(h) PROVE Va(h, {}) BY <1>9, VaResponder DEF EscribirServicio
<1>10. ASSUME isFirstRenovation(h) PROVE Va(h, {"nueva", "anterior"})
  <2>1. q.en # "libre" /\ (Responder(h) \/ Seguir(h, "nueva") \/ Seguir(h, "anterior"))
    BY <1>10 DEF isFirstRenovation, SeguirSi
  <2> QED BY <2>1, VaResponder, VaSeguir
<1>11. ASSUME LeerAnterior(h) PROVE Va(h, {"baja"})
  <2>1. q.en # "libre" BY <1>11 DEF LeerAnterior
  <2>2. ASSUME NEW n, peticion' = [peticion EXCEPT ![h].en = "baja", ![h].i = n]
        PROVE  Va(h, {"baja"})
    <3> DEFINE r == [q EXCEPT !.en = "baja", !.i = n]
    <3>1. /\ r.en = "baja" /\ r.op = q.op /\ r.m = q.m /\ r.estatus = q.estatus
          /\ r.extension = q.extension /\ r.s = q.s /\ peticion' = [peticion EXCEPT ![h] = r]
      BY <1>q, <2>2 DEF Campos
    <3> HIDE DEF r
    <3> QED BY <2>1, <3>1, VaCambia
  <2> QED BY <1>11, <2>1, <2>2, VaResponder DEF LeerAnterior
<1>12. ASSUME BajaAnterior(h) PROVE Va(h, {"nueva"})
  <2>1. q.en # "libre" /\ (Responder(h) \/ Seguir(h, "nueva"))
    BY <1>12 DEF BajaAnterior, SeguirSi
  <2> QED BY <2>1, VaResponder, VaSeguir
<1>13. ASSUME GuardarRenovacion(h) PROVE Va(h, {})
  BY <1>13, VaResponder DEF GuardarRenovacion
<1>14. ASSUME LeerRenovacion(h) PROVE Va(h, {"borrarRenovacion"})
  <2>1. q.en # "libre" /\ (Responder(h) \/ Seguir(h, "borrarRenovacion"))
    BY <1>14 DEF LeerRenovacion, SeguirSi
  <2> QED BY <2>1, VaResponder, VaSeguir
<1>15. ASSUME BorrarRenovacion(h) PROVE Va(h, {})
  BY <1>15, VaResponder DEF BorrarRenovacion
<1>16. ASSUME ExisteNumero(h) PROVE Va(h, {"leerProveedor"})
  <2>1. q.en # "libre" /\ (Responder(h) \/ Seguir(h, "leerProveedor"))
    BY <1>16 DEF ExisteNumero, SeguirSi
  <2> QED BY <2>1, VaResponder, VaSeguir
<1>17. ASSUME LeerProveedor(h) PROVE Va(h, {"verificar"})
  <2> DEFINE r == [q EXCEPT !.en = "verificar", !.habilitado = proveedor]
  <2>1. /\ r.en = "verificar" /\ r.op = q.op /\ r.m = q.m /\ r.estatus = q.estatus
        /\ r.extension = q.extension /\ r.s = q.s
    BY <1>q DEF Campos
  <2>2. q.en # "libre" /\ (peticion' = [peticion EXCEPT ![h] = r])
    BY <1>17 DEF LeerProveedor
  <2> HIDE DEF r
  <2> QED BY <2>1, <2>2, VaCambia
<1>18. ASSUME Verificar(h) PROVE Va(h, {"contar"})
  <2>1. q.en # "libre" /\ (Responder(h) \/ Seguir(h, "contar"))
    BY <1>18 DEF Verificar, SeguirSi
  <2> QED BY <2>1, VaResponder, VaSeguir
<1>19. ASSUME ContarYEmitir(h) PROVE Va(h, {"guardar"})
  <2>1. q.en # "libre" /\ (Responder(h) \/ Seguir(h, "guardar"))
    BY <1>19 DEF ContarYEmitir, SeguirSi
  <2> QED BY <2>1, VaResponder, VaSeguir
<1>20. ASSUME GuardarMaestro(h) PROVE Va(h, {"secundarios"})
  <2>1. q.en # "libre" /\ (Responder(h) \/ Seguir(h, "secundarios"))
    BY <1>20 DEF GuardarMaestro, SeguirSi
  <2> QED BY <2>1, VaResponder, VaSeguir
<1>21. ASSUME GuardarSecundarios(h) PROVE Va(h, {"leerBaja"})
  <2>1. q.en # "libre" /\ (Responder(h) \/ Seguir(h, "leerBaja"))
    BY <1>21 DEF GuardarSecundarios, SeguirSi
  <2> QED BY <2>1, VaResponder, VaSeguir
<1>22. ASSUME LeerMaestro(h) PROVE Va(h, {"modificatorios", "guardar"})
  <2>1. q.en # "libre" /\ (Responder(h) \/ Seguir(h, "modificatorios") \/ Seguir(h, "guardar"))
    BY <1>22 DEF LeerMaestro, SeguirSi
  <2> QED BY <2>1, VaResponder, VaSeguir
<1>23. ASSUME ActualizarMaestro(h) PROVE Va(h, {})
  BY <1>23, VaResponder DEF ActualizarMaestro
<1>24. ASSUME LeerBaja(h) PROVE Va(h, {"borrarMaestro", "buscarFila"})
  <2> DEFINE A == maestro[q.m].tipos
             en == IF A = {} THEN "borrarMaestro" ELSE "buscarFila"
             r == [q EXCEPT !.lista = A, !.en = en]
  <2>1. q.en # "libre" /\ (Responder(h) \/ peticion' = [peticion EXCEPT ![h].lista = A, ![h].en = en])
    BY <1>24 DEF LeerBaja
  <2>2. en \in {"borrarMaestro", "buscarFila"} OBVIOUS
  <2> HIDE DEF A, en
  <2>3. /\ r.en = en /\ r.op = q.op /\ r.m = q.m /\ r.estatus = q.estatus
        /\ r.extension = q.extension /\ r.s = q.s
    BY <1>q DEF Campos
  <2>4. Responder(h) \/ peticion' = [peticion EXCEPT ![h] = r] BY <2>1
  <2> HIDE DEF r
  <2> QED BY <2>1, <2>2, <2>3, <2>4, VaCambia, VaResponder
<1>25. ASSUME BuscarFila(h) PROVE Va(h, {"borrarFila"})
  <2>1. q.en # "libre" BY <1>25 DEF BuscarFila
  <2>2. ASSUME NEW t, peticion' = [peticion EXCEPT ![h].en = "borrarFila", ![h].tipo = t]
        PROVE  Va(h, {"borrarFila"})
    <3> DEFINE r == [q EXCEPT !.en = "borrarFila", !.tipo = t]
    <3>1. /\ r.en = "borrarFila" /\ r.op = q.op /\ r.m = q.m /\ r.estatus = q.estatus
          /\ r.extension = q.extension /\ r.s = q.s /\ peticion' = [peticion EXCEPT ![h] = r]
      BY <1>q, <2>2 DEF Campos
    <3> HIDE DEF r
    <3> QED BY <2>1, <3>1, VaCambia
  <2> QED BY <1>25, <2>1, <2>2, VaResponder DEF BuscarFila
<1>26. ASSUME BorrarFila(h) PROVE Va(h, {"borrarMaestro", "buscarFila"})
  <2> DEFINE A == q.lista \ {q.tipo}
             en == IF A = {} THEN "borrarMaestro" ELSE "buscarFila"
             r == [q EXCEPT !.lista = A, !.en = en]
  <2>1. q.en # "libre" /\ (peticion' = [peticion EXCEPT ![h].lista = A, ![h].en = en])
    BY <1>26 DEF BorrarFila
  <2>2. en \in {"borrarMaestro", "buscarFila"} OBVIOUS
  <2> HIDE DEF A, en
  <2>3. /\ r.en = en /\ r.op = q.op /\ r.m = q.m /\ r.estatus = q.estatus
        /\ r.extension = q.extension /\ r.s = q.s
    BY <1>q DEF Campos
  <2>4. Responder(h) \/ peticion' = [peticion EXCEPT ![h] = r] BY <2>1
  <2> HIDE DEF r
  <2> QED BY <2>1, <2>2, <2>3, <2>4, VaCambia, VaResponder
<1>27. ASSUME BorrarMaestro(h) PROVE Va(h, {}) BY <1>27, VaResponder DEF BorrarMaestro
<1>28. ASSUME BuscarModificatorios(h) PROVE Va(h, {"cancelarMaestro", "cancelarModificatorio"})
  <2> DEFINE A == ModificatoriosVivos(q.m)
             en == IF A = {} THEN "cancelarMaestro" ELSE "cancelarModificatorio"
             r == [q EXCEPT !.lista = A, !.en = en]
  <2>1. q.en # "libre" /\ (peticion' = [peticion EXCEPT ![h].lista = A, ![h].en = en])
    BY <1>28 DEF BuscarModificatorios
  <2>2. en \in {"cancelarMaestro", "cancelarModificatorio"} OBVIOUS
  <2> HIDE DEF A, en
  <2>3. /\ r.en = en /\ r.op = q.op /\ r.m = q.m /\ r.estatus = q.estatus
        /\ r.extension = q.extension /\ r.s = q.s
    BY <1>q DEF Campos
  <2>4. Responder(h) \/ peticion' = [peticion EXCEPT ![h] = r] BY <2>1
  <2> HIDE DEF r
  <2> QED BY <2>1, <2>2, <2>3, <2>4, VaCambia, VaResponder
<1>29. ASSUME CancelarModificatorio(h) PROVE Va(h, {"cancelarMaestro", "cancelarModificatorio"})
  <2>1. PICK i \in q.lista :
          peticion' = [peticion EXCEPT ![h].lista = @ \ {i},
                         ![h].en = IF q.lista = {i} THEN "cancelarMaestro" ELSE @]
    BY <1>29 DEF CancelarModificatorio
  <2> DEFINE r == [q EXCEPT !.lista = @ \ {i},
                            !.en = IF q.lista = {i} THEN "cancelarMaestro" ELSE @]
  <2>2. q.en = "cancelarModificatorio" BY <1>29 DEF CancelarModificatorio
  <2>3. /\ r.en \in {"cancelarMaestro", "cancelarModificatorio"} /\ r.op = q.op /\ r.m = q.m /\ r.estatus = q.estatus
        /\ r.extension = q.extension /\ r.s = q.s
    BY <1>q, <2>2 DEF Campos
  <2>4. peticion' = [peticion EXCEPT ![h] = r] BY <2>1
  <2> HIDE DEF r
  <2> QED BY <2>2, <2>3, <2>4, VaCambia
<1>30. ASSUME CancelarMaestro(h) PROVE Va(h, {"avisarBaja"})
  <2>1. q.en # "libre" /\ (Responder(h) \/ Seguir(h, "avisarBaja"))
    BY <1>30 DEF CancelarMaestro, SeguirSi
  <2> QED BY <2>1, VaResponder, VaSeguir
<1>31. ASSUME AvisarBaja(h) PROVE Va(h, {}) BY <1>31, VaResponder DEF AvisarBaja
<1>32. ASSUME LeerParaExtender(h) PROVE Va(h, {"insertar"})
  <2>1. q.en # "libre" BY <1>32 DEF LeerParaExtender
  <2>2. ASSUME NEW t, peticion' = [peticion EXCEPT ![h].en = "insertar", ![h].habilitado = proveedor, ![h].tipo = t]
        PROVE  Va(h, {"insertar"})
    <3> DEFINE r == [q EXCEPT !.en = "insertar", !.habilitado = proveedor, !.tipo = t]
    <3>1. /\ r.en = "insertar" /\ r.op = q.op /\ r.m = q.m /\ r.estatus = q.estatus
          /\ r.extension = q.extension /\ r.s = q.s /\ peticion' = [peticion EXCEPT ![h] = r]
      BY <1>q, <2>2 DEF Campos
    <3> HIDE DEF r
    <3> QED BY <2>1, <3>1, VaCambia
  <2> QED BY <1>32, <2>1, <2>2, VaResponder DEF LeerParaExtender
<1>33. ASSUME InsertarModificatorio(h) PROVE Va(h, {"contar"})
  <2>1. q.en # "libre" /\ (Responder(h) \/ Seguir(h, "contar"))
    BY <1>33 DEF InsertarModificatorio, SeguirSi
  <2> QED BY <2>1, VaResponder, VaSeguir
<1>34. ASSUME LeerModificatorio(h) PROVE Va(h, {"corregir"})
  <2> DEFINE r == [q EXCEPT !.en = "corregir", !.tipo = modificatorio[q.i].extension]
  <2>1. /\ r.en = "corregir" /\ r.op = q.op /\ r.m = q.m /\ r.estatus = q.estatus
        /\ r.extension = q.extension /\ r.s = q.s
    BY <1>q DEF Campos
  <2>2. q.en # "libre" /\ (Responder(h) \/ peticion' = [peticion EXCEPT ![h] = r])
    BY <1>34 DEF LeerModificatorio
  <2> HIDE DEF r
  <2> QED BY <2>1, <2>2, VaCambia, VaResponder
<1>35. ASSUME CorregirModificatorio(h) PROVE Va(h, {"leerMaestro"})
  <2>1. q.en # "libre" /\ (Responder(h) \/ Seguir(h, "leerMaestro"))
    BY <1>35 DEF CorregirModificatorio, SeguirSi
  <2> QED BY <2>1, VaResponder, VaSeguir
<1>36. ASSUME LeerMaestroExtendido(h) PROVE Va(h, {"contar"})
  <2> DEFINE r == [q EXCEPT !.en = "contar", !.habilitado = proveedor]
  <2>1. /\ r.en = "contar" /\ r.op = q.op /\ r.m = q.m /\ r.estatus = q.estatus
        /\ r.extension = q.extension /\ r.s = q.s
    BY <1>q DEF Campos
  <2>2. q.en # "libre" /\ (Responder(h) \/ peticion' = [peticion EXCEPT ![h] = r])
    BY <1>36 DEF LeerMaestroExtendido
  <2> HIDE DEF r
  <2> QED BY <2>1, <2>2, VaCambia, VaResponder
<1>37. ASSUME ContarPorTermino(h) PROVE Va(h, {"tipos"})
  <2> DEFINE r == [q EXCEPT !.en = "tipos", !.cuenta = countActiveContracts]
  <2>1. /\ r.en = "tipos" /\ r.op = q.op /\ r.m = q.m /\ r.estatus = q.estatus
        /\ r.extension = q.extension /\ r.s = q.s
    BY <1>q DEF Campos
  <2>2. q.en # "libre" /\ (peticion' = [peticion EXCEPT ![h] = r])
    BY <1>37 DEF ContarPorTermino
  <2> HIDE DEF r
  <2> QED BY <2>1, <2>2, VaCambia
<1>38. ASSUME LeerTipos(h) PROVE Va(h, {"leerEstatus"})
  <2> DEFINE r == [q EXCEPT !.en = "leerEstatus", !.tipos = maestro[q.m].tipos]
  <2>1. /\ r.en = "leerEstatus" /\ r.op = q.op /\ r.m = q.m /\ r.estatus = q.estatus
        /\ r.extension = q.extension /\ r.s = q.s
    BY <1>q DEF Campos
  <2>2. q.en # "libre" /\ (Responder(h) \/ peticion' = [peticion EXCEPT ![h] = r])
    BY <1>38 DEF LeerTipos
  <2> HIDE DEF r
  <2> QED BY <2>1, <2>2, VaCambia, VaResponder
<1>39. ASSUME LeerParaCambiar(h) PROVE Va(h, {"cambiarEstatus"})
  <2>1. q.en # "libre" /\ (Responder(h) \/ Seguir(h, "cambiarEstatus"))
    BY <1>39 DEF LeerParaCambiar, SeguirSi
  <2> QED BY <2>1, VaResponder, VaSeguir
<1>40. ASSUME changeStatus(h) PROVE Va(h, {}) BY <1>40, VaResponder DEF changeStatus
<1>41. ASSUME LeerVencidos(h) PROVE Va(h, {"terminar", "vigentes", "proveedores"})
  <2> DEFINE X == {m \in Maestros : Vencido(m)}
             A == {m \in X : maestro[m].estatus \in Vivos}
             B == UNION {maestro[m].tipos : m \in A}
             en == IF A # {} THEN "terminar"
                   ELSE IF \E m \in Maestros : HayMaestro(m) /\ Vence[m] < hoy THEN "vigentes"
                   ELSE "proveedores"
             r == [q EXCEPT !.lista = A, !.tipos = B, !.en = en]
  <2>1. q.en # "libre" /\ (peticion' = [peticion EXCEPT ![h].lista = A, ![h].tipos = B, ![h].en = en])
    BY <1>41 DEF LeerVencidos
  <2>2. en \in {"terminar", "vigentes", "proveedores"} OBVIOUS
  <2> HIDE DEF A, B, en
  <2>3. /\ r.en = en /\ r.op = q.op /\ r.m = q.m /\ r.estatus = q.estatus
        /\ r.extension = q.extension /\ r.s = q.s
    BY <1>q DEF Campos
  <2>4. Responder(h) \/ peticion' = [peticion EXCEPT ![h] = r] BY <2>1
  <2> HIDE DEF r
  <2> QED BY <2>1, <2>2, <2>3, <2>4, VaCambia, VaResponder
<1>42. ASSUME TerminarMaestro(h) PROVE Va(h, {"terminar", "vigentes"})
  <2>1. PICK m \in q.lista :
          peticion' = [peticion EXCEPT ![h].lista = @ \ {m},
                         ![h].en = IF q.lista = {m} THEN "vigentes" ELSE @]
    BY <1>42 DEF TerminarMaestro
  <2> DEFINE r == [q EXCEPT !.lista = @ \ {m},
                            !.en = IF q.lista = {m} THEN "vigentes" ELSE @]
  <2>2. q.en = "terminar" BY <1>42 DEF TerminarMaestro
  <2>3. /\ r.en \in {"terminar", "vigentes"} /\ r.op = q.op /\ r.m = q.m /\ r.estatus = q.estatus
        /\ r.extension = q.extension /\ r.s = q.s
    BY <1>q, <2>2 DEF Campos
  <2>4. peticion' = [peticion EXCEPT ![h] = r] BY <2>1
  <2> HIDE DEF r
  <2> QED BY <2>2, <2>3, <2>4, VaCambia
<1>43. ASSUME LeerVigentes(h) PROVE Va(h, {"proveedores"})
  <2> DEFINE r == [q EXCEPT !.en = "proveedores", !.tipos = {}]
  <2>1. /\ r.en = "proveedores" /\ r.op = q.op /\ r.m = q.m /\ r.estatus = q.estatus
        /\ r.extension = q.extension /\ r.s = q.s
    BY <1>q DEF Campos
  <2>2. q.en # "libre" /\ (peticion' = [peticion EXCEPT ![h] = r])
    BY <1>43 DEF LeerVigentes
  <2> HIDE DEF r
  <2> QED BY <2>1, <2>2, VaCambia
<1>44. ASSUME LeerProveedores(h) PROVE Va(h, {"contarDeProveedor"})
  <2> DEFINE r == [q EXCEPT !.en = "contarDeProveedor", !.habilitado = proveedor]
  <2>1. /\ r.en = "contarDeProveedor" /\ r.op = q.op /\ r.m = q.m /\ r.estatus = q.estatus
        /\ r.extension = q.extension /\ r.s = q.s
    BY <1>q DEF Campos
  <2>2. q.en # "libre" /\ (peticion' = [peticion EXCEPT ![h] = r])
    BY <1>44 DEF LeerProveedores
  <2> HIDE DEF r
  <2> QED BY <2>1, <2>2, VaCambia
<1>45. ASSUME ContarDeProveedor(h) PROVE Va(h, {})
  BY <1>45, VaResponder DEF ContarDeProveedor
<1> QED BY <1>1, <1>2, <1>3, <1>4, <1>5, <1>6, <1>7, <1>8, <1>9, <1>10, <1>11, <1>12, <1>13,
     <1>14, <1>15, <1>16, <1>17, <1>18, <1>19, <1>20, <1>21, <1>22, <1>23, <1>24, <1>25, <1>26,
     <1>27, <1>28, <1>29, <1>30, <1>31, <1>32, <1>33, <1>34, <1>35, <1>36, <1>37, <1>38, <1>39,
     <1>40, <1>41, <1>42, <1>43, <1>44, <1>45 DEF Pasos

\* The tables that each step of a request writes.
Escriben(h) ==
  /\ UNCHANGED <<hoy, cuentas>>
  /\ proveedor' = proveedor \/ EscribirProveedor(h) \/ GuardarMaestro(h)
  /\ maestro' = maestro \/ GuardarMaestro(h) \/ GuardarSecundarios(h) \/ ActualizarMaestro(h) \/
        BorrarFila(h) \/ BorrarMaestro(h) \/ CancelarMaestro(h) \/ changeStatus(h) \/
        TerminarMaestro(h)
  /\ modificatorio' = modificatorio \/ CancelarModificatorio(h) \/ InsertarModificatorio(h) \/
        CorregirModificatorio(h)
  /\ renovacion' = renovacion \/ BajaAnterior(h) \/ GuardarRenovacion(h) \/ BorrarRenovacion(h)
  /\ eventos' = eventos \/ EscribirServicio(h) \/ ContarYEmitir(h) \/ LeerBaja(h) \/
        BorrarMaestro(h) \/ AvisarBaja(h) \/ LeerTipos(h) \/ changeStatus(h) \/ LeerVigentes(h) \/
        ContarDeProveedor(h)
  /\ revisado' = revisado \/ ContarDeProveedor(h)

LEMMA EscribenEnAtender ==
  ASSUME TipoInv, NEW h \in Hilos, Atender(h)
  PROVE  Escriben(h)
<1>0. CASE Lee(h)
  <2>1. UNCHANGED <<proveedor, maestro, modificatorio, renovacion, eventos, revisado, hoy, cuentas>>
    BY <1>0, TipoLee DEF SoloPeticiones, contratos, dia, red
  <2> QED BY <2>1 DEF Escriben
<1>1. CASE EscribirProveedor(h)
  <2>1. UNCHANGED <<maestro, modificatorio, renovacion, eventos, revisado, hoy, cuentas>>
    BY <1>1 DEF EscribirProveedor, contratos, dia, red
  <2> QED BY <1>1, <2>1 DEF Escriben
<1>2. CASE GuardarEstacion(h)
  <2>1. UNCHANGED <<proveedor, maestro, modificatorio, renovacion, eventos, revisado, hoy, cuentas>>
    BY <1>2 DEF GuardarEstacion, contratos, dia, red
  <2> QED BY <1>2, <2>1 DEF Escriben
<1>3. CASE GuardarServicio(h)
  <2>1. UNCHANGED <<proveedor, maestro, modificatorio, renovacion, eventos, revisado, hoy, cuentas>>
    BY <1>3 DEF GuardarServicio, contratos, dia, red
  <2> QED BY <1>3, <2>1 DEF Escriben
<1>4. CASE EscribirServicio(h)
  <2>1. UNCHANGED <<proveedor, maestro, modificatorio, renovacion, revisado, hoy, cuentas>>
    BY <1>4 DEF EscribirServicio, contratos, dia, red
  <2> QED BY <1>4, <2>1 DEF Escriben
<1>5. CASE BajaAnterior(h)
  <2>1. UNCHANGED <<proveedor, maestro, modificatorio, eventos, revisado, hoy, cuentas>>
    BY <1>5 DEF BajaAnterior, contratos, dia, red
  <2> QED BY <1>5, <2>1 DEF Escriben
<1>6. CASE GuardarRenovacion(h)
  <2>1. UNCHANGED <<proveedor, maestro, modificatorio, eventos, revisado, hoy, cuentas>>
    BY <1>6 DEF GuardarRenovacion, contratos, dia, red
  <2> QED BY <1>6, <2>1 DEF Escriben
<1>7. CASE BorrarRenovacion(h)
  <2>1. UNCHANGED <<proveedor, maestro, modificatorio, eventos, revisado, hoy, cuentas>>
    BY <1>7 DEF BorrarRenovacion, contratos, dia, red
  <2> QED BY <1>7, <2>1 DEF Escriben
<1>8. CASE ContarYEmitir(h)
  <2>1. UNCHANGED <<proveedor, maestro, modificatorio, renovacion, revisado, hoy, cuentas>>
    BY <1>8 DEF ContarYEmitir, contratos, dia, red
  <2> QED BY <1>8, <2>1 DEF Escriben
<1>9. CASE GuardarMaestro(h)
  <2>1. UNCHANGED <<modificatorio, renovacion, eventos, revisado, hoy, cuentas>>
    BY <1>9 DEF GuardarMaestro, contratos, dia, red
  <2> QED BY <1>9, <2>1 DEF Escriben
<1>10. CASE GuardarSecundarios(h)
  <2>1. UNCHANGED <<proveedor, modificatorio, renovacion, eventos, revisado, hoy, cuentas>>
    BY <1>10 DEF GuardarSecundarios, contratos, dia, red
  <2> QED BY <1>10, <2>1 DEF Escriben
<1>11. CASE ActualizarMaestro(h)
  <2>1. UNCHANGED <<proveedor, modificatorio, renovacion, eventos, revisado, hoy, cuentas>>
    BY <1>11 DEF ActualizarMaestro, contratos, dia, red
  <2> QED BY <1>11, <2>1 DEF Escriben
<1>12. CASE LeerBaja(h)
  <2>1. UNCHANGED <<proveedor, maestro, modificatorio, renovacion, revisado, hoy, cuentas>>
    BY <1>12 DEF LeerBaja, contratos, dia, red
  <2> QED BY <1>12, <2>1 DEF Escriben
<1>13. CASE BorrarFila(h)
  <2>1. UNCHANGED <<proveedor, modificatorio, renovacion, eventos, revisado, hoy, cuentas>>
    BY <1>13 DEF BorrarFila, contratos, dia, red
  <2> QED BY <1>13, <2>1 DEF Escriben
<1>14. CASE BorrarMaestro(h)
  <2>1. UNCHANGED <<proveedor, modificatorio, renovacion, revisado, hoy, cuentas>>
    BY <1>14 DEF BorrarMaestro, contratos, dia, red
  <2> QED BY <1>14, <2>1 DEF Escriben
<1>15. CASE CancelarModificatorio(h)
  <2>1. UNCHANGED <<proveedor, maestro, renovacion, eventos, revisado, hoy, cuentas>>
    BY <1>15 DEF CancelarModificatorio, contratos, dia, red
  <2> QED BY <1>15, <2>1 DEF Escriben
<1>16. CASE CancelarMaestro(h)
  <2>1. UNCHANGED <<proveedor, modificatorio, renovacion, eventos, revisado, hoy, cuentas>>
    BY <1>16 DEF CancelarMaestro, contratos, dia, red
  <2> QED BY <1>16, <2>1 DEF Escriben
<1>17. CASE AvisarBaja(h)
  <2>1. UNCHANGED <<proveedor, maestro, modificatorio, renovacion, revisado, hoy, cuentas>>
    BY <1>17 DEF AvisarBaja, contratos, dia, red
  <2> QED BY <1>17, <2>1 DEF Escriben
<1>18. CASE InsertarModificatorio(h)
  <2>1. UNCHANGED <<proveedor, maestro, renovacion, eventos, revisado, hoy, cuentas>>
    BY <1>18 DEF InsertarModificatorio, contratos, dia, red
  <2> QED BY <1>18, <2>1 DEF Escriben
<1>19. CASE CorregirModificatorio(h)
  <2>1. UNCHANGED <<proveedor, maestro, renovacion, eventos, revisado, hoy, cuentas>>
    BY <1>19 DEF CorregirModificatorio, contratos, dia, red
  <2> QED BY <1>19, <2>1 DEF Escriben
<1>20. CASE LeerTipos(h)
  <2>1. UNCHANGED <<proveedor, maestro, modificatorio, renovacion, revisado, hoy, cuentas>>
    BY <1>20 DEF LeerTipos, contratos, dia, red
  <2> QED BY <1>20, <2>1 DEF Escriben
<1>21. CASE changeStatus(h)
  <2>1. UNCHANGED <<proveedor, modificatorio, renovacion, revisado, hoy, cuentas>>
    BY <1>21 DEF changeStatus, contratos, dia, red
  <2> QED BY <1>21, <2>1 DEF Escriben
<1>22. CASE TerminarMaestro(h)
  <2>1. UNCHANGED <<proveedor, modificatorio, renovacion, eventos, revisado, hoy, cuentas>>
    BY <1>22 DEF TerminarMaestro, contratos, dia, red
  <2> QED BY <1>22, <2>1 DEF Escriben
<1>23. CASE LeerVigentes(h)
  <2>1. UNCHANGED <<proveedor, maestro, modificatorio, renovacion, revisado, hoy, cuentas>>
    BY <1>23 DEF LeerVigentes, contratos, dia, red
  <2> QED BY <1>23, <2>1 DEF Escriben
<1>24. CASE ContarDeProveedor(h)
  <2>1. UNCHANGED <<proveedor, maestro, modificatorio, renovacion, hoy, cuentas>>
    BY <1>24 DEF ContarDeProveedor, contratos, dia, red
  <2> QED BY <1>24, <2>1 DEF Escriben
<1> QED BY <1>0, <1>1, <1>2, <1>3, <1>4, <1>5, <1>6, <1>7, <1>8, <1>9, <1>10, <1>11, <1>12, <1>13,
     <1>14, <1>15, <1>16, <1>17, <1>18, <1>19, <1>20, <1>21, <1>22, <1>23, <1>24 DEF Atender, Lee

----
(* What may arrive, one request at a time. *)

\* What a client regularly asks for a contract, as it arrives: created or
\* updated to a live status, cancelled as such, extended, corrected while live.
PideContrato(r) ==
  \/ \E m \in Maestros :
       \/ r.op = "quitar" /\ r.en = "leerBaja" /\ r.m = m
       \/ /\ r.op = "crear" /\ r.en = "existe" /\ r.m = m /\ r.estatus \in Vivos
          /\ maestro[m].estatus # "BORRADO"
       \/ r.op = "actualizar" /\ r.en = "leer" /\ r.m = m /\ r.estatus \in Vivos
       \/ r.op = "cancelar" /\ r.en = "leer" /\ r.m = m /\ r.estatus = "CANCELADO"
       \/ r.op = "extender" /\ r.en = "leer" /\ r.m = m
  \/ \E i \in DOMAIN modificatorio :
       /\ r.i = i /\ r.extension = modificatorio[i].extension
       /\ \/ r.op = "corregir" /\ r.en = "leer" /\ r.estatus \in Vivos
          \/ /\ r.op = "modificarEstatus" /\ r.en = "corregir"
             /\ {r.estatus, modificatorio[i].estatus} \subseteq Vivos
          \/ /\ r.op \in {"descartar", "revocar"} /\ r.en = "leer" /\ r.estatus = "CANCELADO"
             /\ r.m = modificatorio[i].maestro

PideRed(r) ==
  \/ r.op \in {"activar", "desactivar"} /\ r.en = "contarVivos"
  \/ /\ r.op = "estacion" /\ r.en = "contarEstacion"
     /\ r.e \in Estaciones /\ estacion[r.e] = "NO_EXISTE"
  \/ r.op = "renovacion" /\ r.en = "primera" /\ r.s \in Servicios

LlegaUna(h) == \E regular, r : /\ Pedir(h, regular, r)
                               /\ regular => PideContrato(r) \/ PideRed(r)

LEMMA LlegaRed ==
  ASSUME NEW h \in Hilos, PedirRed(h)
  PROVE  LlegaUna(h)
<1>a. DOMAIN SinPeticion = Campos BY DEF SinPeticion, Campos
<1>1. ASSUME NEW op \in {"activar", "desactivar"},
             PedirProveedor(h, op)
      PROVE  LlegaUna(h)
  <2> DEFINE r == [SinPeticion EXCEPT !.op = op, !.en = "contarVivos"]
  <2>1. Pedir(h, TRUE, r) BY <1>1 DEF PedirProveedor
  <2>2. PideRed(r) BY <1>1, <1>a DEF PideRed, Campos
  <2> HIDE DEF r
  <2> QED BY <2>1, <2>2 DEF LlegaUna
<1>2. ASSUME NEW v \in BOOLEAN,
             PedirParche(h, v)
      PROVE  LlegaUna(h)
  <2> DEFINE r == [SinPeticion EXCEPT !.op = "parche", !.en = "escribirProveedor", !.habilitado = v]
  <2>1. Pedir(h, FALSE, r) BY <1>2 DEF PedirParche
  <2> HIDE DEF r
  <2> QED BY <2>1 DEF LlegaUna
<1>3. ASSUME NEW e \in Estaciones,
             PedirEstacion(h, e)
      PROVE  LlegaUna(h)
  <2> DEFINE r == [SinPeticion EXCEPT !.op = "estacion", !.en = "contarEstacion", !.e = e]
  <2>1. Pedir(h, TRUE, r) /\ estacion[e] = "NO_EXISTE" BY <1>3 DEF PedirEstacion
  <2>2. r.op = "estacion" /\ r.en = "contarEstacion" /\ r.e = e BY <1>a DEF Campos
  <2>3. PideRed(r) BY <2>1, <2>2 DEF PideRed
  <2> HIDE DEF r
  <2> QED BY <2>1, <2>3 DEF LlegaUna
<1>4. ASSUME NEW e \in Estaciones, NEW v \in BOOLEAN,
             NEW op \in {"cambiarEstacion", "borrarEstacion", "parcheEstacion"},
             PedirSobreEstacion(h, op, e, v)
      PROVE  LlegaUna(h)
  <2> DEFINE r == [SinPeticion EXCEPT !.op = op, !.en = "leerEstacion", !.e = e, !.habilitado = v]
  <2>1. Pedir(h, FALSE, r) BY <1>4 DEF PedirSobreEstacion
  <2> HIDE DEF r
  <2> QED BY <2>1 DEF LlegaUna
<1>5. ASSUME NEW s \in Servicios, NEW e \in Estaciones \cup {"-"}, NEW tipo \in Tipos,
             PedirServicio(h, s, e, tipo)
      PROVE  LlegaUna(h)
  <2> DEFINE r == [SinPeticion EXCEPT !.op = "servicio", !.en = "buscarEstacion", !.s = s, !.e = e,
                                      !.tipo = tipo]
  <2>1. Pedir(h, FALSE, r) BY <1>5 DEF PedirServicio
  <2> HIDE DEF r
  <2> QED BY <2>1 DEF LlegaUna
<1>6. ASSUME NEW s \in Servicios, NEW tipo \in Tipos,
             NEW op \in {"apagarServicio", "activarServicio", "tipoServicio"},
             PedirSobreServicio(h, op, s, tipo)
      PROVE  LlegaUna(h)
  <2> DEFINE r == [SinPeticion EXCEPT !.op = op, !.s = s, !.tipo = tipo,
                     !.en = IF op = "activarServicio" THEN "leerServicio" ELSE "escribirServicio"]
  <2>1. Pedir(h, FALSE, r) BY <1>6 DEF PedirSobreServicio
  <2> HIDE DEF r
  <2> QED BY <2>1 DEF LlegaUna
<1>7. ASSUME NEW s \in Servicios,
             PedirRenovacion(h, s)
      PROVE  LlegaUna(h)
  <2> DEFINE r == [SinPeticion EXCEPT !.op = "renovacion", !.en = "primera", !.s = s]
  <2>1. Pedir(h, TRUE, r) BY <1>7 DEF PedirRenovacion
  <2>2. PideRed(r) BY <1>7, <1>a DEF PideRed, Campos
  <2> HIDE DEF r
  <2> QED BY <2>1, <2>2 DEF LlegaUna
<1>8. ASSUME NEW s \in Servicios, NEW n,
             PedirQuitarRenovacion(h, s, n)
      PROVE  LlegaUna(h)
  <2> DEFINE r == [SinPeticion EXCEPT !.op = "quitarRenovacion", !.en = "leerRenovacion", !.s = s,
                                      !.i = n]
  <2>1. Pedir(h, FALSE, r) BY <1>8 DEF PedirQuitarRenovacion
  <2> HIDE DEF r
  <2> QED BY <2>1 DEF LlegaUna
<1> QED BY <1>1, <1>2, <1>3, <1>4, <1>5, <1>6, <1>7, <1>8 DEF PedirRed

LEMMA LlegaContrato ==
  ASSUME NEW h \in Hilos, PedirContrato(h)
  PROVE  LlegaUna(h)
<1>a. DOMAIN SinPeticion = Campos BY DEF SinPeticion, Campos
<1>1. ASSUME NEW m \in Maestros, PedirQuitarMaestro(h, m) PROVE LlegaUna(h)
  <2> DEFINE r == [SinPeticion EXCEPT !.op = "quitar", !.en = "leerBaja", !.m = m]
  <2>1. Pedir(h, TRUE, r) BY <1>1 DEF PedirQuitarMaestro
  <2>2. PideContrato(r) BY <1>a DEF PideContrato, Campos
  <2> HIDE DEF r
  <2> QED BY <2>1, <2>2 DEF LlegaUna
<1>2. ASSUME NEW m \in Maestros, NEW estatus \in Estatus, PedirMaestro(h, m, estatus)
      PROVE  LlegaUna(h)
  <2> DEFINE r == [SinPeticion EXCEPT !.op = "crear", !.en = "existe", !.m = m,
                                      !.estatus = estatus]
  <2>1. Pedir(h, estatus \in Vivos, r) /\ maestro[m].estatus # "BORRADO"
    BY <1>2 DEF PedirMaestro
  <2>2. r.op = "crear" /\ r.en = "existe" /\ r.m = m /\ r.estatus = estatus
    BY <1>a DEF Campos
  <2> HIDE DEF r
  <2>3. estatus \in Vivos => PideContrato(r) BY <2>1, <2>2 DEF PideContrato
  <2> QED BY <2>1, <2>3 DEF LlegaUna
<1>3. ASSUME NEW m \in Maestros, NEW estatus, NEW op \in {"actualizar", "cancelar"},
             PedirSobreMaestro(h, op, m, estatus)
      PROVE  LlegaUna(h)
  <2> DEFINE r == [SinPeticion EXCEPT !.op = op, !.en = "leer", !.m = m, !.estatus = estatus]
  <2>1. \/ op = "actualizar" /\ Pedir(h, estatus \in Vivos, r)
        \/ op = "cancelar" /\ Pedir(h, estatus = "CANCELADO", r)
    BY <1>3 DEF PedirSobreMaestro
  <2>2. r.op = op /\ r.en = "leer" /\ r.m = m /\ r.estatus = estatus BY <1>a DEF Campos
  <2> HIDE DEF r
  <2>3. CASE op = "actualizar" /\ Pedir(h, estatus \in Vivos, r)
    <3>1. estatus \in Vivos => PideContrato(r) BY <2>2, <2>3 DEF PideContrato
    <3> QED BY <2>3, <3>1 DEF LlegaUna
  <2>4. CASE op = "cancelar" /\ Pedir(h, estatus = "CANCELADO", r)
    <3>1. estatus = "CANCELADO" => PideContrato(r) BY <2>2, <2>4 DEF PideContrato
    <3> QED BY <2>4, <3>1 DEF LlegaUna
  <2> QED BY <2>1, <2>3, <2>4
<1>4. ASSUME NEW m \in Maestros, NEW estatus, NEW extension, NEW vence,
             PedirModificatorio(h, m, extension, vence, estatus)
      PROVE  LlegaUna(h)
  <2> DEFINE r == [SinPeticion EXCEPT !.op = "extender", !.en = "leer", !.m = m, !.vence = vence,
                                      !.extension = extension, !.estatus = estatus]
  <2>1. Pedir(h, estatus \in Vivos, r) BY <1>4 DEF PedirModificatorio
  <2>2. r.op = "extender" /\ r.en = "leer" /\ r.m = m BY <1>a DEF Campos
  <2> HIDE DEF r
  <2> QED BY <2>1, <2>2 DEF LlegaUna, PideContrato
<1>5. ASSUME NEW i \in DOMAIN modificatorio, NEW extension, NEW vence, NEW estatus,
             NEW op \in DeModificatorios,
             PedirSobreModificatorio(h, op, i, extension, vence, estatus)
      PROVE  LlegaUna(h)
  <2> DEFINE fila == modificatorio[i]
             nueva == [SinPeticion EXCEPT !.op = op, !.i = i, !.estatus = estatus,
                                          !.extension = extension, !.vence = vence]
             una == [nueva EXCEPT !.en = "leer"]
             otra == [nueva EXCEPT !.en = "corregir"]
             baja == [nueva EXCEPT !.en = "leer", !.m = fila.maestro]
  <2>1. /\ op # "corregir" => extension = fila.extension
        /\ op \in {"descartar", "revocar"} => estatus = "CANCELADO"
        /\ \/ op = "corregir"
              /\ Pedir(h, estatus \in Vivos /\ extension = fila.extension /\ vence = fila.vence,
                       una)
           \/ op = "modificarEstatus" /\ Pedir(h, {estatus, fila.estatus} \subseteq Vivos, otra)
           \/ op \in {"descartar", "revocar"} /\ Pedir(h, TRUE, baja)
    BY <1>5 DEF PedirSobreModificatorio
  <2> HIDE DEF fila
  <2>2. /\ DOMAIN nueva = Campos /\ nueva.op = op /\ nueva.i = i /\ nueva.estatus = estatus
        /\ nueva.extension = extension
    BY <1>a DEF Campos
  <2> HIDE DEF nueva
  <2>3. /\ una.op = op /\ una.i = i /\ una.estatus = estatus /\ una.extension = extension
        /\ una.en = "leer"
        /\ otra.op = op /\ otra.i = i /\ otra.estatus = estatus /\ otra.extension = extension
        /\ otra.en = "corregir"
        /\ baja.op = op /\ baja.i = i /\ baja.estatus = estatus /\ baja.extension = extension
        /\ baja.en = "leer" /\ baja.m = fila.maestro
    BY <2>2 DEF Campos
  <2> HIDE DEF una, otra, baja
  <2>4. CASE op = "corregir"
    <3>1. estatus \in Vivos /\ extension = fila.extension => PideContrato(una)
      BY <2>3, <2>4 DEF PideContrato, fila
    <3>2. Pedir(h, estatus \in Vivos /\ extension = fila.extension /\ vence = fila.vence, una)
      BY <2>1, <2>4
    <3> QED BY <3>1, <3>2 DEF LlegaUna
  <2>5. CASE op = "modificarEstatus"
    <3>1. {estatus, fila.estatus} \subseteq Vivos => PideContrato(otra)
      BY <2>1, <2>3, <2>5 DEF PideContrato, fila
    <3>2. Pedir(h, {estatus, fila.estatus} \subseteq Vivos, otra) BY <2>1, <2>5
    <3> QED BY <3>1, <3>2 DEF LlegaUna
  <2>6. CASE op \in {"descartar", "revocar"}
    <3>1. PideContrato(baja) BY <2>1, <2>3, <2>6 DEF PideContrato, fila
    <3>2. Pedir(h, TRUE, baja) BY <2>1, <2>6
    <3> QED BY <3>1, <3>2 DEF LlegaUna
  <2> QED BY <2>4, <2>5, <2>6 DEF DeModificatorios
<1> QED BY <1>1, <1>2, <1>3, <1>4, <1>5 DEF PedirContrato, DeModificatorios

----
(* One request at a time, when nothing overlaps. *)

Ocupada(h) == peticion[h].en # "libre"

Turno == incidentes = 0 => \A g, h \in Hilos : Ocupada(g) /\ Ocupada(h) => g = h

\* Incidents are never taken back.
LEMMA IncidentesSuben ==
  ASSUME TipoInv, [NextContratos]_todo, incidentes' = 0
  PROVE  incidentes = 0
<1>0. incidentes \in Nat BY DEF TipoInv, CuentasBien
<1>1. ASSUME NEW regular, Llegar(regular) PROVE incidentes = 0 BY <1>0, <1>1 DEF Llegar
<1>2. CASE Fallo BY <1>2 DEF Fallo
<1>3. CASE UNCHANGED cuentas BY <1>3 DEF cuentas
<1>4. ASSUME NEW h, NEW regular, NEW r, Pedir(h, regular, r) PROVE incidentes = 0
  BY <1>1, <1>4 DEF Pedir
<1>5. ASSUME NEW h \in Hilos, PedirContrato(h) \/ PedirRed(h) PROVE incidentes = 0
  <2>1. \E regular, r : Pedir(h, regular, r) BY <1>5, LlegaContrato, LlegaRed DEF LlegaUna
  <2> QED BY <1>4, <2>1
<1>6. ASSUME NEW h \in Hilos, Medianoche(h) PROVE incidentes = 0
  BY <1>1, <1>6 DEF Medianoche
<1>7. ASSUME NEW h \in Hilos, Atender(h) PROVE incidentes = 0
  BY <1>3, <1>7, EscribenEnAtender DEF Escriben
<1>8. ASSUME NEW k \in DOMAIN eventos, Manejar(k) PROVE incidentes = 0
  BY <1>3, <1>8 DEF Manejar, ManejarProveedor, ManejarRenovacion, LeerRed, BuscarPorConmutar,
                    Conmutar, Releer, CambiarServicio
<1>9. ASSUME \/ \E h \in Hilos : FallarPeticion(h)
             \/ \E k \in DOMAIN eventos : FallarEvento(k)
             \/ MedianocheSinServidor \/ CaerServidor
      PROVE  incidentes = 0
  BY <1>2, <1>9 DEF FallarPeticion, FallarEvento, MedianocheSinServidor, CaerServidor
<1>10. CASE UNCHANGED todo BY <1>3, <1>10 DEF todo
<1> QED BY <1>5, <1>6, <1>7, <1>8, <1>9, <1>10 DEF NextContratos

\* Only this request is in progress.
Sola(h) == Ocupada(h) /\ \A g \in Hilos : g # h => ~Ocupada(g)

\* A request arrives, or the daily job starts, while nothing is in progress.
LlegaSola(h) ==
  /\ Quieto
  /\ UNCHANGED <<proveedor, maestro, modificatorio, estacion, servicio, renovacion, eventos,
                 incidentes, fallos>>
  /\ revisado' = FALSE
  /\ \E r : /\ peticion' = [peticion EXCEPT ![h] = r]
            /\ \/ hoy' = hoy /\ (PideContrato(r) \/ PideRed(r))
               \/ r.op = "diario" /\ r.en = "vencidos"

\* The handlers of the events leave the contracts and the requests alone.
Maneja(k) == Manejar(k) /\ UNCHANGED <<maestro, modificatorio, hoy, revisado, peticion, cuentas>>

\* A request or a handler ends early, the server stops, or a night is missed.
Falla ==
  /\ UNCHANGED <<proveedor, maestro, modificatorio, renovacion, revisado, incidentes>>
  /\ fallos' = fallos + 1
  /\ \A h \in Hilos : \/ peticion'[h] \in {peticion[h], SinPeticion}
                      \/ /\ peticion[h].en = "secundarios"
                         /\ peticion'[h] = [peticion[h] EXCEPT !.en = "leerBaja"]
  /\ \A j \in DOMAIN eventos' : \E i \in DOMAIN eventos : eventos'[j] = eventos[i]

LEMMA LlegarSerie ==
  ASSUME TipoInv, NEW regular, Llegar(regular), incidentes' = 0
  PROVE  Quieto /\ regular /\ revisado' = FALSE /\ UNCHANGED <<incidentes, fallos>>
<1>1. incidentes + 1 # 0 BY DEF TipoInv, CuentasBien
<1> QED BY <1>1 DEF Llegar

LEMMA FallaSi ==
  ASSUME TipoInv,
         \/ \E h \in Hilos : FallarPeticion(h)
         \/ \E k \in DOMAIN eventos : FallarEvento(k)
         \/ MedianocheSinServidor \/ CaerServidor
  PROVE  Falla
<1>1. ASSUME NEW h \in Hilos, FallarPeticion(h) PROVE Falla
  <2>1. /\ UNCHANGED <<proveedor, contratos, dia, red, eventos>> /\ Fallo
        /\ \/ peticion[h].en = "secundarios" /\ Seguir(h, "leerBaja")
           \/ Responder(h)
    BY <1>1 DEF FallarPeticion
  <2>2. ASSUME NEW g \in Hilos
        PROVE  \/ peticion'[g] \in {peticion[g], SinPeticion}
               \/ /\ peticion[g].en = "secundarios"
                  /\ peticion'[g] = [peticion[g] EXCEPT !.en = "leerBaja"]
    BY <2>1, MueveResponder, MueveSeguir DEF TipoInv, Mueve
  <2> QED BY <2>1, <2>2 DEF Falla, Fallo, contratos, dia, red
<1>2. ASSUME NEW k \in DOMAIN eventos, FallarEvento(k) PROVE Falla
  <2>1. /\ UNCHANGED <<proveedor, contratos, dia, red, peticion>> /\ Fallo /\ Despachado(k)
    BY <1>2 DEF FallarEvento
  <2>2. \A j \in DOMAIN eventos' : \E i \in DOMAIN eventos : eventos'[j] = eventos[i]
    BY <2>1, QuedanEventos DEF TipoInv, EventosBien, Cola
  <2> QED BY <2>1, <2>2 DEF Falla, Fallo, contratos, dia, red
<1>3. CASE MedianocheSinServidor
  BY <1>3 DEF MedianocheSinServidor, Falla, Fallo, contratos, red
<1>4. CASE CaerServidor
  <2>1. /\ UNCHANGED <<proveedor, contratos, dia, red>> /\ Fallo /\ eventos' = <<>>
        /\ peticion' = [h \in Hilos |-> SinPeticion]
    BY <1>4 DEF CaerServidor
  <2>2. DOMAIN eventos' = {} /\ \A h \in Hilos : peticion'[h] = SinPeticion BY <2>1
  <2> QED BY <2>1, <2>2 DEF Falla, Fallo, contratos, dia, red
<1> QED BY <1>1, <1>2, <1>3, <1>4

LEMMA ManejaSi ==
  ASSUME NEW k \in DOMAIN eventos, Manejar(k)
  PROVE  Maneja(k)
<1>1. UNCHANGED <<contratos, dia, peticion, cuentas>>
  BY DEF Manejar, ManejarProveedor, ManejarRenovacion, LeerRed, BuscarPorConmutar,
         Conmutar, Releer, CambiarServicio
<1> QED BY <1>1 DEF Maneja, contratos, dia

\* The step of an undisturbed system.
EnSerie ==
  \/ \E h \in Hilos : LlegaSola(h)
  \/ \E h \in Hilos : Atender(h) /\ Sola(h)
  \/ \E k \in DOMAIN eventos : Maneja(k)
  \/ Falla
  \/ UNCHANGED todo

LEMMA PasoEnSerie ==
  ASSUME TipoInv, Turno, [NextContratos]_todo, incidentes' = 0
  PROVE  EnSerie
<1>0. incidentes = 0 BY IncidentesSuben
<1>1. ASSUME NEW h \in Hilos, PedirContrato(h) \/ PedirRed(h) PROVE EnSerie
  <2>1. PICK regular, r : Pedir(h, regular, r) /\ (regular => PideContrato(r) \/ PideRed(r))
    BY <1>1, LlegaContrato, LlegaRed DEF LlegaUna
  <2>2. Llegar(regular) BY <2>1 DEF Pedir
  <2>3. Quieto /\ regular /\ revisado' = FALSE /\ UNCHANGED <<incidentes, fallos>>
    BY <2>2, LlegarSerie
  <2>4. /\ peticion' = [peticion EXCEPT ![h] = r]
        /\ UNCHANGED <<proveedor, contratos, hoy, red, eventos>>
    BY <2>1 DEF Pedir
  <2>5. PideContrato(r) \/ PideRed(r) BY <2>1, <2>3
  <2>6. LlegaSola(h) BY <2>3, <2>4, <2>5 DEF LlegaSola, contratos, red
  <2> QED BY <2>6 DEF EnSerie
<1>2. ASSUME NEW h \in Hilos, Medianoche(h) PROVE EnSerie
  <2> DEFINE r == [SinPeticion EXCEPT !.op = "diario", !.en = "vencidos"]
  <2>1. /\ peticion' = [peticion EXCEPT ![h] = r]
        /\ UNCHANGED <<proveedor, contratos, red, eventos>> /\ Llegar(TRUE)
    BY <1>2 DEF Medianoche
  <2>2. r.op = "diario" /\ r.en = "vencidos" BY DEF SinPeticion
  <2>3. Quieto /\ revisado' = FALSE /\ UNCHANGED <<incidentes, fallos>>
    BY <2>1, LlegarSerie
  <2> HIDE DEF r
  <2>4. LlegaSola(h) BY <2>1, <2>2, <2>3 DEF LlegaSola, contratos, red
  <2> QED BY <2>4 DEF EnSerie
<1>3. ASSUME NEW h \in Hilos, Atender(h) PROVE EnSerie
  <2>1. Ocupada(h)
    BY <1>3 DEF Ocupada, Atender, ContarVivos, EscribirProveedor, ContarEstacion, LeerEstacion,
       GuardarEstacion, BuscarEstacion, GuardarServicio, LeerServicio, EscribirServicio,
       isFirstRenovation, LeerAnterior, BajaAnterior, GuardarRenovacion, LeerRenovacion,
       BorrarRenovacion, ExisteNumero, LeerProveedor, Verificar, ContarYEmitir, GuardarMaestro,
       GuardarSecundarios, LeerMaestro, ActualizarMaestro, LeerBaja, BuscarFila, BorrarFila,
       BorrarMaestro, BuscarModificatorios, CancelarModificatorio, CancelarMaestro, AvisarBaja,
       LeerParaExtender, InsertarModificatorio, LeerModificatorio, CorregirModificatorio,
       LeerMaestroExtendido, ContarPorTermino, LeerTipos, LeerParaCambiar, changeStatus,
       LeerVencidos, TerminarMaestro, LeerVigentes, LeerProveedores, ContarDeProveedor
  <2>2. Sola(h) BY <1>0, <2>1 DEF Turno, Sola
  <2> QED BY <1>3, <2>2 DEF EnSerie
<1> QED BY <1>1, <1>2, <1>3, FallaSi, ManejaSi DEF NextContratos, EnSerie

LEMMA TurnoInit == InitContratos => Turno
<1>1. SinPeticion.en = "libre" BY DEF SinPeticion
<1> QED BY <1>1 DEF InitContratos, Turno, Ocupada

LEMMA MueveAtender ==
  ASSUME TipoInv, NEW h \in Hilos, Atender(h)
  PROVE  Mueve(h)
<1>1. Pasos(h) BY PasosDeAtender DEF TipoInv
<1> QED BY <1>1 DEF Pasos, Va, Atender

LEMMA TurnoNext ==
  ASSUME TipoInv, Turno, [NextContratos]_todo
  PROVE  Turno'
<1> SUFFICES ASSUME incidentes' = 0, NEW a \in Hilos, NEW b \in Hilos, Ocupada(a)', Ocupada(b)'
             PROVE  a = b
  BY DEF Turno
<1>0. incidentes = 0 /\ EnSerie BY IncidentesSuben, PasoEnSerie
<1>a. ASSUME Ocupada(a), Ocupada(b) PROVE a = b BY <1>0, <1>a DEF Turno
<1>1. ASSUME NEW h \in Hilos, LlegaSola(h) PROVE a = b
  BY <1>1 DEF LlegaSola, Quieto, Ocupada, TipoInv, PeticionesBien
<1>2. ASSUME NEW h \in Hilos, Atender(h), Sola(h) PROVE a = b
  BY <1>2, MueveAtender DEF Mueve, Sola, Ocupada
<1>3. ASSUME NEW k \in DOMAIN eventos, Maneja(k) PROVE a = b
  BY <1>3, <1>a DEF Maneja, Ocupada
<1>4. CASE Falla
  <2>1. SinPeticion.en = "libre" BY DEF SinPeticion
  <2>2. Ocupada(a) /\ Ocupada(b) BY <1>4, <2>1 DEF Falla, Ocupada
  <2> QED BY <1>a, <2>2
<1>5. CASE UNCHANGED todo BY <1>5, <1>a DEF todo, Ocupada
<1> QED BY <1>0, <1>1, <1>2, <1>3, <1>4, <1>5 DEF EnSerie

\* Which step leads to each phase, of those that the invariants are about.
Sigue(h) ==
  \/ peticion'[h] = SinPeticion
  \/ /\ peticion'[h].op = peticion[h].op /\ peticion'[h].m = peticion[h].m
     /\ peticion'[h].estatus = peticion[h].estatus
     /\ peticion'[h].extension = peticion[h].extension
     /\ peticion'[h].s = peticion[h].s
     /\ peticion'[h].en \notin {"leer", "leerServicio", "leerRenovacion", "existe", "vencidos"}
     /\ peticion'[h].en = "leerProveedor" => ExisteNumero(h)
     /\ peticion'[h].en = "verificar" => LeerProveedor(h)
     /\ peticion'[h].en = "leerMaestro" => CorregirModificatorio(h)
     /\ peticion'[h].en = "cancelarModificatorio" =>
          BuscarModificatorios(h) \/ CancelarModificatorio(h)
     /\ peticion'[h].en = "cancelarMaestro" => BuscarModificatorios(h) \/ CancelarModificatorio(h)
     /\ peticion'[h].en = "insertar" => LeerParaExtender(h)
     /\ peticion'[h].en = "corregir" => LeerModificatorio(h)
     /\ peticion'[h].en = "contar" =>
          Verificar(h) \/ InsertarModificatorio(h) \/ LeerMaestroExtendido(h)
     /\ peticion'[h].en = "guardar" => ContarYEmitir(h) \/ LeerMaestro(h)
     /\ peticion'[h].en = "secundarios" => GuardarMaestro(h)
     /\ peticion'[h].en = "tipos" => ContarPorTermino(h)
     /\ peticion'[h].en = "leerEstatus" => LeerTipos(h)
     /\ peticion'[h].en = "cambiarEstatus" => LeerParaCambiar(h)
     /\ peticion'[h].en = "baja" => LeerAnterior(h)
     /\ peticion'[h].en = "nueva" => isFirstRenovation(h) \/ BajaAnterior(h)
     /\ peticion'[h].en = "escribirServicio" => LeerServicio(h)
     /\ peticion'[h].en = "borrarRenovacion" => LeerRenovacion(h)
     /\ peticion'[h].en = "terminar" => LeerVencidos(h) \/ TerminarMaestro(h)
     /\ peticion'[h].en = "vigentes" => LeerVencidos(h) \/ TerminarMaestro(h)
     /\ peticion'[h].en = "proveedores" => LeerVencidos(h) \/ LeerVigentes(h)
     /\ peticion'[h].en = "contarDeProveedor" => LeerProveedores(h)

LEMMA SigueAtender ==
  ASSUME TipoInv, NEW h \in Hilos, Atender(h)
  PROVE  Sigue(h)
<1>1. Pasos(h) BY PasosDeAtender DEF TipoInv
<1>2. ASSUME NEW fases, Va(h, fases), peticion'[h] # SinPeticion
      PROVE  /\ peticion'[h].en \in fases
             /\ peticion'[h].op = peticion[h].op /\ peticion'[h].m = peticion[h].m
             /\ peticion'[h].estatus = peticion[h].estatus
             /\ peticion'[h].extension = peticion[h].extension
             /\ peticion'[h].s = peticion[h].s
  BY <1>2 DEF Va
<1> SUFFICES ASSUME peticion'[h] # SinPeticion PROVE Sigue(h) BY DEF Sigue
<1> DEFINE p == peticion[h]
           r == peticion'[h]
           igual == /\ r.op = p.op /\ r.m = p.m /\ r.estatus = p.estatus
                    /\ r.extension = p.extension /\ r.s = p.s
<1>3. igual
  <2>1. \E fases : Va(h, fases) BY <1>1 DEF Pasos, Atender
  <2> QED BY <1>2, <2>1
<1>4. \A fases : Va(h, fases) => r.en \in fases BY <1>2
<1> HIDE DEF r, p, igual
<1>5. /\ r.en \notin {"leer", "leerServicio", "leerRenovacion", "existe", "vencidos"}
      /\ r.en = "leerProveedor" => ExisteNumero(h)
      /\ r.en = "verificar" => LeerProveedor(h)
      /\ r.en = "leerMaestro" => CorregirModificatorio(h)
      /\ r.en = "cancelarModificatorio" => BuscarModificatorios(h) \/ CancelarModificatorio(h)
      /\ r.en = "cancelarMaestro" => BuscarModificatorios(h) \/ CancelarModificatorio(h)
      /\ r.en = "insertar" => LeerParaExtender(h)
      /\ r.en = "corregir" => LeerModificatorio(h)
      /\ r.en = "contar" => Verificar(h) \/ InsertarModificatorio(h) \/ LeerMaestroExtendido(h)
      /\ r.en = "guardar" => ContarYEmitir(h) \/ LeerMaestro(h)
      /\ r.en = "secundarios" => GuardarMaestro(h)
      /\ r.en = "tipos" => ContarPorTermino(h)
      /\ r.en = "leerEstatus" => LeerTipos(h)
      /\ r.en = "cambiarEstatus" => LeerParaCambiar(h)
      /\ r.en = "baja" => LeerAnterior(h)
      /\ r.en = "nueva" => isFirstRenovation(h) \/ BajaAnterior(h)
      /\ r.en = "escribirServicio" => LeerServicio(h)
      /\ r.en = "borrarRenovacion" => LeerRenovacion(h)
      /\ r.en = "terminar" => LeerVencidos(h) \/ TerminarMaestro(h)
      /\ r.en = "vigentes" => LeerVencidos(h) \/ TerminarMaestro(h)
      /\ r.en = "proveedores" => LeerVencidos(h) \/ LeerVigentes(h)
      /\ r.en = "contarDeProveedor" => LeerProveedores(h)
  BY <1>1, <1>4, SMTT(120) DEF Pasos, Atender
<1> QED BY <1>3, <1>5 DEF Sigue, r, p, igual

(* Cancelled contracts. *)

\* What a request in progress knows of the contract that it is going to change.
SabeDeBajas(q) ==
  /\ q.op \in {"crear", "actualizar"} => q.estatus \in Vivos
  /\ q.op \in {"descartar", "revocar"} => q.estatus = "CANCELADO"
  /\ q.en = "cancelarModificatorio" => ModificatoriosVivos(q.m) \subseteq q.lista
  /\ q.en = "cancelarMaestro" => ModificatoriosVivos(q.m) = {}
  /\ q.en = "insertar" => maestro[q.m].estatus # "CANCELADO"
  /\ q.en = "corregir" /\ q.op \in {"corregir", "modificarEstatus"} =>
       modificatorio[q.i].estatus \in Vivos

\* Every cancelled contract has its amendments cancelled with it.
BajasCompletas ==
  \A m \in Maestros : maestro[m].estatus = "CANCELADO" =>
    \A i \in DOMAIN modificatorio :
      modificatorio[i].maestro = m => modificatorio[i].estatus \notin Vivos

CancelaInv ==
  incidentes = 0 => /\ BajasCompletas
                    /\ \A h \in Hilos : Ocupada(h) => SabeDeBajas(peticion[h])

LEMMA BorradoNoVive == /\ "BORRADO" \notin Vivos /\ "CANCELADO" \notin Vivos
                       /\ "TERMINADO" \notin Vivos
BY DEF Vivos

\* The steps that write the contracts leave every cancelled one complete.
LEMMA CancelaTablas ==
  ASSUME TipoInv, BajasCompletas, NEW h \in Hilos, Atender(h), SabeDeBajas(peticion[h])
  PROVE  BajasCompletas'
<1> DEFINE q == peticion[h]
<1>0. Escriben(h) BY EscribenEnAtender
<1>t. /\ DOMAIN maestro = Maestros
      /\ \A m \in Maestros : DOMAIN maestro[m] = {"estatus", "tipos"}
      /\ modificatorio \in Seq(Modificatorio)
  BY DEF TipoInv, TablasBien
<1>a. ASSUME UNCHANGED modificatorio,
             \A m \in Maestros : maestro'[m].estatus = "CANCELADO" =>
                                   maestro[m].estatus = "CANCELADO"
      PROVE  BajasCompletas'
  BY <1>a DEF BajasCompletas
<1>b. ASSUME UNCHANGED maestro, DOMAIN modificatorio' = DOMAIN modificatorio,
             \A i \in DOMAIN modificatorio :
               /\ modificatorio'[i].maestro = modificatorio[i].maestro
               /\ modificatorio'[i].estatus \in Vivos => modificatorio[i].estatus \in Vivos
      PROVE  BajasCompletas'
  BY <1>b DEF BajasCompletas
<1>1. CASE GuardarMaestro(h)
  <2>1. q.op = "crear" /\ q.estatus # "CANCELADO" /\ UNCHANGED modificatorio
    BY <1>1, BorradoNoVive DEF GuardarMaestro, SabeDeBajas
  <2>2. maestro' = [maestro EXCEPT ![q.m].estatus = q.estatus] \/ UNCHANGED maestro
    BY <1>1 DEF GuardarMaestro
  <2> QED BY <1>a, <1>t, <2>1, <2>2
<1>2. CASE GuardarSecundarios(h) BY <1>2, <1>a, <1>t DEF GuardarSecundarios
<1>3. CASE ActualizarMaestro(h)
  <2>1. q.op = "actualizar" /\ q.estatus # "CANCELADO" /\ UNCHANGED modificatorio
    BY <1>3, BorradoNoVive DEF ActualizarMaestro, SabeDeBajas
  <2>2. maestro' = [maestro EXCEPT ![q.m].estatus = q.estatus] \/ UNCHANGED maestro
    BY <1>3 DEF ActualizarMaestro, ConEstatus
  <2> QED BY <1>a, <1>t, <2>1, <2>2
<1>4. CASE BorrarFila(h) BY <1>4, <1>a, <1>t DEF BorrarFila
<1>5. CASE BorrarMaestro(h) BY <1>5, <1>a, <1>t DEF BorrarMaestro
<1>6. CASE CancelarMaestro(h)
  <2>1. ModificatoriosVivos(q.m) = {} /\ UNCHANGED modificatorio
    BY <1>6 DEF CancelarMaestro, SabeDeBajas
  <2>2. maestro' = [maestro EXCEPT ![q.m].estatus = "CANCELADO"] \/ UNCHANGED maestro
    BY <1>6 DEF CancelarMaestro, ConEstatus
  <2>3. \A i \in DOMAIN modificatorio : modificatorio[i].maestro = q.m =>
          modificatorio[i].estatus \notin Vivos
    BY <2>1, BorradoNoVive DEF ModificatoriosVivos, ModificatoriosDe, HayModificatorio
  <2> QED BY <1>t, <2>1, <2>2, <2>3 DEF BajasCompletas
<1>7. CASE changeStatus(h) BY <1>7, <1>a, <1>t DEF changeStatus
<1>8. CASE TerminarMaestro(h) BY <1>8, <1>a, <1>t DEF TerminarMaestro, ConEstatus
<1>9. CASE CancelarModificatorio(h)
  BY <1>9, <1>b, <1>t, BorradoNoVive DEF CancelarModificatorio
<1>10. CASE InsertarModificatorio(h)
  <2> DEFINE nuevo == [maestro |-> q.m, extension |-> q.extension,
                       vence |-> q.vence, estatus |-> q.estatus]
  <2>1. /\ UNCHANGED maestro /\ maestro[q.m].estatus # "CANCELADO"
        /\ modificatorio' = Append(modificatorio, nuevo) \/ UNCHANGED modificatorio
    BY <1>10 DEF InsertarModificatorio, SabeDeBajas
  <2>2. nuevo.maestro = q.m OBVIOUS
  <2> HIDE DEF nuevo
  <2>3. ASSUME modificatorio' = Append(modificatorio, nuevo) PROVE BajasCompletas'
    <3>1. /\ DOMAIN modificatorio' = 1..(Len(modificatorio) + 1)
          /\ DOMAIN modificatorio = 1..Len(modificatorio) /\ Len(modificatorio) \in Nat
          /\ \A i \in DOMAIN modificatorio : modificatorio'[i] = modificatorio[i]
          /\ modificatorio'[Len(modificatorio) + 1] = nuevo
      BY <1>t, <2>3
    <3>2. \A i \in DOMAIN modificatorio' :
            i \in DOMAIN modificatorio \/ i = Len(modificatorio) + 1
      BY <3>1
    <3> QED BY <2>1, <2>2, <3>1, <3>2 DEF BajasCompletas
  <2> QED BY <1>a, <2>1, <2>3
<1>11. CASE CorregirModificatorio(h)
  <2>1. /\ UNCHANGED maestro /\ q.en = "corregir" /\ q.op \in DeModificatorios
        /\ \/ modificatorio' = modificatorio
           \/ modificatorio' = [modificatorio EXCEPT ![q.i] = Corregido(@, q)]
    BY <1>11 DEF CorregirModificatorio, TipoInv, PeticionesBien, PeticionBien
  <2>2. \/ q.op \in {"corregir", "modificarEstatus"} /\ modificatorio[q.i].estatus \in Vivos
        \/ q.op \in {"descartar", "revocar"} /\ q.estatus \notin Vivos
    BY <2>1, BorradoNoVive DEF SabeDeBajas, DeModificatorios
  <2>3. \A i \in DOMAIN modificatorio :
          DOMAIN modificatorio[i] = {"maestro", "extension", "vence", "estatus"}
    <3>1. \A i \in DOMAIN modificatorio : modificatorio[i] \in Modificatorio BY <1>t
    <3> QED BY <3>1 DEF Modificatorio
  <2>4. DOMAIN modificatorio' = DOMAIN modificatorio BY <2>1
  <2>5. ASSUME NEW i \in DOMAIN modificatorio
        PROVE  /\ modificatorio'[i].maestro = modificatorio[i].maestro
               /\ modificatorio'[i].estatus \in Vivos => modificatorio[i].estatus \in Vivos
    <3> DEFINE f == Corregido(modificatorio[i], q)
    <3>1. f.maestro = modificatorio[i].maestro BY <2>3 DEF Corregido
    <3>2. i = q.i => (f.estatus \in Vivos => modificatorio[i].estatus \in Vivos)
      BY <2>2, <2>3, BorradoNoVive DEF Corregido
    <3>3. modificatorio'[i] = modificatorio[i] \/ (i = q.i /\ modificatorio'[i] = f)
      BY <2>1
    <3> QED BY <3>1, <3>2, <3>3
  <2> QED BY <1>b, <2>1, <2>4, <2>5
<1> QED BY <1>0, <1>1, <1>2, <1>3, <1>4, <1>5, <1>6, <1>7, <1>8, <1>9, <1>10, <1>11
        DEF Escriben, BajasCompletas

\* A request that goes on still knows what it needs to know.
LEMMA CancelaSabe ==
  ASSUME TipoInv, NEW h \in Hilos, Atender(h), SabeDeBajas(peticion[h]), Ocupada(h)'
  PROVE  SabeDeBajas(peticion[h])'
<1> DEFINE q == peticion[h]
           r == peticion'[h]
<1>0. SinPeticion.en = "libre" BY DEF SinPeticion
<1>1. Sigue(h) /\ peticion'[h] # SinPeticion BY <1>0, SigueAtender DEF Ocupada
<1>2. DOMAIN q = Campos /\ DOMAIN peticion = Hilos
  BY DEF TipoInv, PeticionesBien, PeticionBien
<1>m. PICK m : m = q.m OBVIOUS
<1>3. ASSUME r.en = "cancelarModificatorio"
      PROVE  ModificatoriosVivos(m)' \subseteq r.lista
  <2>1. CASE BuscarModificatorios(h)
    <3>1. /\ UNCHANGED modificatorio /\ r.lista = ModificatoriosVivos(m)
      BY <1>2, <1>m, <2>1 DEF BuscarModificatorios, contratos, Campos
    <3> QED BY <3>1 DEF ModificatoriosVivos, ModificatoriosDe, HayModificatorio
  <2>2. CASE CancelarModificatorio(h)
    <3>1. PICK i \in q.lista :
            /\ modificatorio' = IF HayModificatorio(i)
                                  THEN [modificatorio EXCEPT ![i].estatus = "CANCELADO"]
                                  ELSE modificatorio
            /\ peticion' = [peticion EXCEPT ![h].lista = @ \ {i},
                 ![h].en = IF peticion[h].lista = {i} THEN "cancelarMaestro" ELSE @]
      BY <2>2 DEF CancelarModificatorio
    <3>2. r.lista = q.lista \ {i} BY <1>2, <3>1 DEF Campos
    <3>3. ModificatoriosVivos(m) \subseteq q.lista
      BY <1>m, <2>2 DEF CancelarModificatorio, SabeDeBajas
    <3>4. ModificatoriosVivos(m)' \subseteq ModificatoriosVivos(m) \ {i}
      BY <3>1, BorradoNoVive DEF ModificatoriosVivos, ModificatoriosDe, HayModificatorio
    <3> QED BY <3>2, <3>3, <3>4
  <2> QED BY <1>1, <1>3, <2>1, <2>2 DEF Sigue
<1>4. ASSUME r.en = "cancelarMaestro"
      PROVE  ModificatoriosVivos(m)' = {}
  <2>1. CASE BuscarModificatorios(h)
    <3>1. /\ UNCHANGED modificatorio
          /\ r.en = IF ModificatoriosVivos(m) = {} THEN "cancelarMaestro"
                    ELSE "cancelarModificatorio"
      BY <1>2, <1>m, <2>1 DEF BuscarModificatorios, contratos, Campos
    <3> QED BY <1>4, <3>1 DEF ModificatoriosVivos, ModificatoriosDe, HayModificatorio
  <2>2. CASE CancelarModificatorio(h)
    <3>1. PICK i \in q.lista :
            /\ modificatorio' = IF HayModificatorio(i)
                                  THEN [modificatorio EXCEPT ![i].estatus = "CANCELADO"]
                                  ELSE modificatorio
            /\ peticion' = [peticion EXCEPT ![h].lista = @ \ {i},
                 ![h].en = IF peticion[h].lista = {i} THEN "cancelarMaestro" ELSE @]
      BY <2>2 DEF CancelarModificatorio
    <3>2. q.lista = {i} BY <1>2, <1>4, <2>2, <3>1 DEF Campos, CancelarModificatorio
    <3>3. ModificatoriosVivos(m) \subseteq q.lista
      BY <1>m, <2>2 DEF CancelarModificatorio, SabeDeBajas
    <3>4. ModificatoriosVivos(m)' \subseteq ModificatoriosVivos(m) \ {i}
      BY <3>1, BorradoNoVive DEF ModificatoriosVivos, ModificatoriosDe, HayModificatorio
    <3> QED BY <3>2, <3>3, <3>4
  <2> QED BY <1>1, <1>4, <2>1, <2>2 DEF Sigue
<1>5. ASSUME r.en = "insertar"
      PROVE  maestro'[r.m].estatus # "CANCELADO"
  <2>1. LeerParaExtender(h) /\ r.m = q.m BY <1>1, <1>5 DEF Sigue
  <2>2. UNCHANGED maestro BY <2>1 DEF LeerParaExtender, contratos
  <2>3. maestro[q.m].estatus # "CANCELADO" \/ Responder(h) BY <2>1 DEF LeerParaExtender
  <2> QED BY <1>1, <2>1, <2>2, <2>3, MueveResponder DEF TipoInv
<1>6. ASSUME r.en = "corregir", r.op \in {"corregir", "modificarEstatus"}
      PROVE  modificatorio'[r.i].estatus \in Vivos
  <2>1. LeerModificatorio(h) /\ r.op = q.op BY <1>1, <1>6 DEF Sigue
  <2>2. UNCHANGED modificatorio /\ q.op = "corregir"
    BY <1>6, <2>1 DEF LeerModificatorio, contratos
  <2> DEFINE s == [q EXCEPT !.en = "corregir", !.tipo = modificatorio[q.i].extension]
  <2>3. \/ modificatorio[q.i].estatus \in Vivos /\ peticion' = [peticion EXCEPT ![h] = s]
        \/ Responder(h)
    BY <2>1, <2>2 DEF LeerModificatorio
  <2>4. peticion' = [peticion EXCEPT ![h] = s] => r.i = q.i BY <1>2 DEF Campos
  <2> QED BY <1>1, <2>2, <2>3, <2>4, MueveResponder DEF TipoInv
<1>7. /\ r.op \in {"crear", "actualizar"} => r.estatus \in Vivos
      /\ r.op \in {"descartar", "revocar"} => r.estatus = "CANCELADO"
  BY <1>1 DEF Sigue, SabeDeBajas
<1>8. r.m = m BY <1>1, <1>m DEF Sigue
<1>9. /\ r.en = "cancelarModificatorio" => ModificatoriosVivos(peticion[h].m)' \subseteq r.lista
      /\ r.en = "cancelarMaestro" => ModificatoriosVivos(peticion[h].m)' = {}
  BY <1>3, <1>4, <1>8 DEF ModificatoriosVivos, ModificatoriosDe, HayModificatorio
<1> QED BY <1>5, <1>6, <1>7, <1>9 DEF SabeDeBajas

LEMMA CancelaNext ==
  ASSUME TipoInv, Turno, CancelaInv, [NextContratos]_todo
  PROVE  CancelaInv'
<1> SUFFICES ASSUME incidentes' = 0
             PROVE  /\ BajasCompletas'
                    /\ \A h \in Hilos : Ocupada(h)' => SabeDeBajas(peticion[h])'
  BY DEF CancelaInv
<1>0. incidentes = 0 /\ EnSerie BY IncidentesSuben, PasoEnSerie
<1>i. BajasCompletas /\ \A h \in Hilos : Ocupada(h) => SabeDeBajas(peticion[h])
  BY <1>0 DEF CancelaInv
<1>a. ASSUME UNCHANGED <<maestro, modificatorio>> PROVE BajasCompletas'
  BY <1>a, <1>i DEF BajasCompletas
<1>b. ASSUME UNCHANGED <<maestro, modificatorio>>, NEW g \in Hilos, peticion'[g] = peticion[g],
             Ocupada(g)'
      PROVE  SabeDeBajas(peticion[g])'
  <2>1. SabeDeBajas(peticion[g]) BY <1>b, <1>i DEF Ocupada
  <2> QED BY <1>b, <2>1
          DEF SabeDeBajas, ModificatoriosVivos, ModificatoriosDe, HayModificatorio
<1>1. ASSUME NEW h \in Hilos, LlegaSola(h)
      PROVE  /\ BajasCompletas'
             /\ \A g \in Hilos : Ocupada(g)' => SabeDeBajas(peticion[g])'
  <2>1. /\ UNCHANGED <<maestro, modificatorio>> /\ Quieto
        /\ \E r : /\ peticion' = [peticion EXCEPT ![h] = r]
                  /\ PideContrato(r) \/ PideRed(r) \/ (r.op = "diario" /\ r.en = "vencidos")
    BY <1>1 DEF LlegaSola
  <2>2. PICK r : /\ peticion' = [peticion EXCEPT ![h] = r]
                 /\ PideContrato(r) \/ PideRed(r) \/ (r.op = "diario" /\ r.en = "vencidos")
    BY <2>1
  <2>3. peticion'[h] = r /\ \A g \in Hilos : g # h => ~Ocupada(g)'
    BY <2>1, <2>2 DEF Quieto, Ocupada, TipoInv, PeticionesBien
  <2>4. SabeDeBajas(peticion[h])'
    <3>1. /\ r.op \in {"crear", "actualizar"} => r.estatus \in Vivos
          /\ r.op \in {"descartar", "revocar"} => r.estatus = "CANCELADO"
          /\ r.en \notin {"cancelarModificatorio", "cancelarMaestro", "insertar"}
      BY <2>2 DEF PideContrato, PideRed
    <3>2. r.en = "corregir" => modificatorio[r.i].estatus \in Vivos
      BY <2>2 DEF PideContrato, PideRed
    <3> QED BY <2>1, <2>3, <3>1, <3>2 DEF SabeDeBajas
  <2> QED BY <1>a, <2>1, <2>3, <2>4
<1>2. ASSUME NEW h \in Hilos, Atender(h), Sola(h)
      PROVE  /\ BajasCompletas'
             /\ \A g \in Hilos : Ocupada(g)' => SabeDeBajas(peticion[g])'
  <2>1. SabeDeBajas(peticion[h]) BY <1>2, <1>i DEF Sola
  <2>2. \A g \in Hilos : g # h => ~Ocupada(g)'
    BY <1>2, MueveAtender DEF Mueve, Sola, Ocupada
  <2> QED BY <1>2, <1>i, <2>1, <2>2, CancelaTablas, CancelaSabe
<1>3. ASSUME NEW k \in DOMAIN eventos, Maneja(k)
      PROVE  /\ BajasCompletas'
             /\ \A g \in Hilos : Ocupada(g)' => SabeDeBajas(peticion[g])'
  BY <1>3, <1>a, <1>b DEF Maneja
<1>4. ASSUME Falla
      PROVE  /\ BajasCompletas'
             /\ \A g \in Hilos : Ocupada(g)' => SabeDeBajas(peticion[g])'
  <2>1. UNCHANGED <<maestro, modificatorio>> BY <1>4 DEF Falla
  <2>2. ASSUME NEW g \in Hilos, Ocupada(g)', peticion'[g] # peticion[g]
        PROVE  SabeDeBajas(peticion[g])'
    <3>1. SinPeticion.en = "libre" BY DEF SinPeticion
    <3>2. /\ peticion[g].en = "secundarios"
          /\ peticion'[g] = [peticion[g] EXCEPT !.en = "leerBaja"]
      BY <1>4, <2>2, <3>1 DEF Falla, Ocupada
    <3>3. SabeDeBajas(peticion[g]) /\ DOMAIN peticion[g] = Campos
      BY <1>i, <3>2 DEF Ocupada, TipoInv, PeticionesBien, PeticionBien
    <3>4. /\ peticion'[g].op = peticion[g].op /\ peticion'[g].estatus = peticion[g].estatus
          /\ peticion'[g].en = "leerBaja"
      BY <3>2, <3>3 DEF Campos
    <3> QED BY <3>3, <3>4 DEF SabeDeBajas
  <2> QED BY <1>a, <1>b, <2>1, <2>2
<1>5. ASSUME UNCHANGED todo
      PROVE  /\ BajasCompletas'
             /\ \A g \in Hilos : Ocupada(g)' => SabeDeBajas(peticion[g])'
  BY <1>5, <1>a, <1>b DEF todo, contratos
<1> QED BY <1>0, <1>1, <1>2, <1>3, <1>4, <1>5 DEF EnSerie

LEMMA CancelaInit == InitContratos => CancelaInv
<1> SUFFICES ASSUME InitContratos PROVE CancelaInv OBVIOUS
<1>1. modificatorio = <<>> /\ peticion = [h \in Hilos |-> SinPeticion]
  BY DEF InitContratos
<1>2. SinPeticion.en = "libre" /\ DOMAIN modificatorio = {} BY <1>1 DEF SinPeticion
<1> QED BY <1>1, <1>2 DEF CancelaInv, BajasCompletas, Ocupada

\* Without overlaps, and whatever fails or stops halfway, a cancelled contract
\* has no amendment that is still live: the cancellation takes the amendments
\* first, and no amendment is added to a cancelled contract or made live again.
THEOREM ContratosCancelados == SpecContratos => []CanceladoCompleto
<1> DEFINE Inv == TipoInv /\ Turno /\ CancelaInv
<1>1. InitContratos => Inv BY TipoInit, TurnoInit, CancelaInit
<1>2. Inv /\ [NextContratos]_todo => Inv' BY TipoNext, TurnoNext, CancelaNext
<1>3. Inv => CanceladoCompleto BY DEF CancelaInv, BajasCompletas, CanceladoCompleto
<1> QED BY <1>1, <1>2, <1>3, PTL DEF SpecContratos

(* One contract for a service. *)

\* What a request in progress knows of the terms, and of the status it updates.
SabeDeTerminos(q) ==
  /\ q.en \in {"leer", "corregir"} /\ q.op \in DeModificatorios =>
       q.extension = modificatorio[q.i].extension
  /\ q.en = "corregir" /\ q.op \in {"descartar", "revocar"} =>
       q.tipo = modificatorio[q.i].extension
  /\ q.en = "insertar" /\ q.tipo = "reabre" => q.extension = "TIME"
  /\ q.op = "extender" /\ q.en \in {"contar", "tipos", "leerEstatus", "cambiarEstatus"} =>
       ~SinProrrogas
  /\ q.op = "actualizar" /\ q.en = "guardar" => maestro[q.m].estatus \in Vivos
  /\ q.en \in {"existe", "leerProveedor", "verificar"} => q.op = "crear"
  /\ q.en = "leerMaestro" => q.op \in {"descartar", "revocar"}

\* The contract that is being created has no type of a live one.
SabeDeTipos(q) ==
  (q.op = "crear" /\ q.en \in {"contar", "guardar"}) \/ q.en = "secundarios" =>
    \A n \in MaestrosVivos : n # q.m => TiposDe[q.m] \cap maestro[n].tipos = {}

VivosAparte ==
  \A m, n \in MaestrosVivos : m # n => maestro[m].tipos \cap maestro[n].tipos = {}

AparteInv ==
  incidentes = 0 =>
    /\ \A h \in Hilos : Ocupada(h) => SabeDeTerminos(peticion[h])
    /\ SinProrrogas => /\ VivosAparte
                       /\ \A h \in Hilos : Ocupada(h) => SabeDeTipos(peticion[h])

\* No step of a regular request makes an extension of the term something else.
LEMMA ProrrogasQuedan ==
  ASSUME TipoInv, NEW h \in Hilos, Atender(h), SabeDeTerminos(peticion[h])
  PROVE  /\ \A i \in DOMAIN modificatorio :
              i \in DOMAIN modificatorio' /\ modificatorio'[i].extension = modificatorio[i].extension
         /\ SinProrrogas' => SinProrrogas
<1> DEFINE q == peticion[h]
<1>0. Escriben(h) BY EscribenEnAtender
<1>t. /\ modificatorio \in Seq(Modificatorio)
      /\ \A i \in DOMAIN modificatorio :
           DOMAIN modificatorio[i] = {"maestro", "extension", "vence", "estatus"}
  <2>1. modificatorio \in Seq(Modificatorio) BY DEF TipoInv, TablasBien
  <2>2. \A i \in DOMAIN modificatorio : modificatorio[i] \in Modificatorio BY <2>1
  <2> QED BY <2>1, <2>2 DEF Modificatorio
<1>1. CASE CancelarModificatorio(h) BY <1>1, <1>t DEF CancelarModificatorio, SinProrrogas
<1>2. CASE InsertarModificatorio(h)
  <2> DEFINE nuevo == [maestro |-> q.m, extension |-> q.extension,
                       vence |-> q.vence, estatus |-> q.estatus]
  <2>1. modificatorio' = Append(modificatorio, nuevo) \/ UNCHANGED modificatorio
    BY <1>2 DEF InsertarModificatorio
  <2> HIDE DEF nuevo
  <2>2. modificatorio' = Append(modificatorio, nuevo) =>
          \A i \in DOMAIN modificatorio :
            i \in DOMAIN modificatorio' /\ modificatorio'[i] = modificatorio[i]
    BY <1>t
  <2> QED BY <2>1, <2>2 DEF SinProrrogas
<1>3. CASE CorregirModificatorio(h)
  <2>1. q.en = "corregir" /\ q.op \in DeModificatorios
    BY <1>3 DEF CorregirModificatorio, TipoInv, PeticionesBien, PeticionBien
  <2>2. q.extension = modificatorio[q.i].extension BY <2>1 DEF SabeDeTerminos
  <2>3. \/ modificatorio' = modificatorio
        \/ modificatorio' = [modificatorio EXCEPT ![q.i] = Corregido(@, q)]
    BY <1>3 DEF CorregirModificatorio
  <2>4. \A i \in DOMAIN modificatorio :
          i \in DOMAIN modificatorio' /\ modificatorio'[i].extension = modificatorio[i].extension
    BY <1>t, <2>2, <2>3 DEF Corregido
  <2> QED BY <2>3, <2>4 DEF SinProrrogas
<1> QED BY <1>0, <1>1, <1>2, <1>3 DEF Escriben, SinProrrogas

LEMMA AparteSabe ==
  ASSUME TipoInv, NEW h \in Hilos, Atender(h), SabeDeTerminos(peticion[h]), Ocupada(h)'
  PROVE  SabeDeTerminos(peticion[h])'
<1> DEFINE q == peticion[h]
           r == peticion'[h]
<1>0. SinPeticion.en = "libre" BY DEF SinPeticion
<1>1. Sigue(h) /\ peticion'[h] # SinPeticion BY <1>0, SigueAtender DEF Ocupada
<1>2. DOMAIN q = Campos /\ DOMAIN peticion = Hilos
  BY DEF TipoInv, PeticionesBien, PeticionBien
<1>p. SinProrrogas' => SinProrrogas BY ProrrogasQuedan
<1>3. ASSUME r.en \in {"leer", "corregir"}, r.op \in DeModificatorios
      PROVE  /\ r.extension = modificatorio'[r.i].extension
             /\ r.en = "corregir" /\ r.op \in {"descartar", "revocar"} =>
                  r.tipo = modificatorio'[r.i].extension
  <2>1. LeerModificatorio(h) /\ r.op = q.op /\ r.extension = q.extension
    BY <1>1, <1>3 DEF Sigue
  <2>2. UNCHANGED modificatorio /\ q.en = "leer" /\ q.op \in DeModificatorios
    BY <1>3, <2>1 DEF LeerModificatorio, contratos
  <2> DEFINE s == [q EXCEPT !.en = "corregir", !.tipo = modificatorio[q.i].extension]
  <2>3. peticion' = [peticion EXCEPT ![h] = s] \/ Responder(h)
    BY <2>1 DEF LeerModificatorio
  <2>4. peticion' = [peticion EXCEPT ![h] = s] =>
          r.i = q.i /\ r.tipo = modificatorio[q.i].extension
    BY <1>2 DEF Campos
  <2> QED BY <1>1, <2>1, <2>2, <2>3, <2>4, MueveResponder DEF TipoInv, SabeDeTerminos
<1>4. ASSUME r.en = "insertar", r.tipo = "reabre"
      PROVE  r.extension = "TIME"
  <2>1. LeerParaExtender(h) /\ r.extension = q.extension BY <1>1, <1>4 DEF Sigue
  <2>2. \/ Responder(h)
        \/ peticion' = [peticion EXCEPT ![h].en = "insertar", ![h].habilitado = proveedor,
             ![h].tipo = IF maestro[q.m].estatus = "TERMINADO" /\ q.extension = "TIME"
                           THEN "reabre" ELSE "-"]
    BY <2>1 DEF LeerParaExtender
  <2>3. \/ Responder(h)
        \/ r.tipo = IF maestro[q.m].estatus = "TERMINADO" /\ q.extension = "TIME"
                      THEN "reabre" ELSE "-"
    BY <1>2, <2>2 DEF Campos
  <2> QED BY <1>1, <1>4, <2>1, <2>3, MueveResponder DEF TipoInv
<1>5. ASSUME r.op = "extender", r.en = "contar" PROVE ~SinProrrogas'
  <2>1. /\ q.op = "extender" /\ r.m = q.m /\ r.extension = q.extension
        /\ Verificar(h) \/ InsertarModificatorio(h) \/ LeerMaestroExtendido(h)
    BY <1>1, <1>5 DEF Sigue
  <2>2. CASE InsertarModificatorio(h)
    <3> DEFINE nuevo == [maestro |-> q.m, extension |-> q.extension,
                         vence |-> q.vence, estatus |-> q.estatus]
    <3>1. /\ q.en = "insertar"
          /\ \/ /\ modificatorio' = Append(modificatorio, nuevo)
                /\ q.tipo = "reabre" \/ Responder(h)
             \/ Responder(h)
      BY <2>2 DEF InsertarModificatorio, SeguirSi
    <3>2. nuevo.extension = q.extension OBVIOUS
    <3> HIDE DEF nuevo
    <3>3. modificatorio' = Append(modificatorio, nuevo) /\ q.tipo = "reabre"
      BY <1>1, <3>1, MueveResponder DEF TipoInv
    <3>4. q.extension = "TIME" BY <3>1, <3>3 DEF SabeDeTerminos
    <3>5. modificatorio \in Seq(Modificatorio) BY DEF TipoInv, TablasBien
    <3>6. /\ Len(modificatorio) + 1 \in DOMAIN modificatorio'
          /\ modificatorio'[Len(modificatorio) + 1] = nuevo
      BY <3>3, <3>5
    <3> QED BY <3>2, <3>4, <3>6 DEF SinProrrogas
  <2>3. CASE Verificar(h) \/ LeerMaestroExtendido(h)
    BY <2>1, <2>3 DEF Verificar, LeerMaestroExtendido, SabeDeTerminos
  <2> QED BY <2>1, <2>2, <2>3
<1>6. ASSUME r.op = "extender", r.en \in {"tipos", "leerEstatus", "cambiarEstatus"}
      PROVE  ~SinProrrogas'
  <2>1. /\ q.op = "extender"
        /\ ContarPorTermino(h) \/ LeerTipos(h) \/ LeerParaCambiar(h)
    BY <1>1, <1>6 DEF Sigue
  <2>2. q.en \in {"contar", "tipos", "leerEstatus"}
    BY <2>1 DEF ContarPorTermino, LeerTipos, LeerParaCambiar
  <2> QED BY <1>p, <2>1, <2>2 DEF SabeDeTerminos
<1>7. ASSUME r.op = "actualizar", r.en = "guardar"
      PROVE  maestro'[r.m].estatus \in Vivos
  <2>1. /\ q.op = "actualizar" /\ r.m = q.m
        /\ ContarYEmitir(h) \/ LeerMaestro(h)
    BY <1>1, <1>7 DEF Sigue
  <2>2. LeerMaestro(h) /\ UNCHANGED maestro
    BY <2>1 DEF ContarYEmitir, LeerMaestro, contratos
  <2>3. maestro[q.m].estatus \in Vivos \/ Responder(h)
    BY <2>1, <2>2 DEF LeerMaestro, SeguirSi
  <2>4. Responder(h) => peticion'[h] = SinPeticion BY MueveResponder DEF TipoInv
  <2>5. maestro[q.m].estatus \in Vivos BY <1>1, <2>3, <2>4
  <2> QED BY <2>1, <2>2, <2>5
<1>8. ASSUME r.en \in {"existe", "leerProveedor", "verificar"} PROVE r.op = "crear"
  BY <1>1, <1>8 DEF Sigue, SabeDeTerminos, ExisteNumero, LeerProveedor
<1>9. ASSUME r.en = "leerMaestro" PROVE r.op \in {"descartar", "revocar"}
  <2>1. CorregirModificatorio(h) /\ r.op = q.op BY <1>1, <1>9 DEF Sigue
  <2>2. q.op \in {"descartar", "revocar"} \/ Responder(h)
    BY <2>1 DEF CorregirModificatorio, SeguirSi
  <2> QED BY <1>1, <2>1, <2>2, MueveResponder DEF TipoInv
<1> HIDE DEF q, r
<1>10. SabeDeTerminos(peticion[h])' <=>
         /\ r.en \in {"leer", "corregir"} /\ r.op \in DeModificatorios =>
              r.extension = modificatorio'[r.i].extension
         /\ r.en = "corregir" /\ r.op \in {"descartar", "revocar"} =>
              r.tipo = modificatorio'[r.i].extension
         /\ r.en = "insertar" /\ r.tipo = "reabre" => r.extension = "TIME"
         /\ r.op = "extender" /\ r.en \in {"contar", "tipos", "leerEstatus", "cambiarEstatus"} =>
              ~SinProrrogas'
         /\ r.op = "actualizar" /\ r.en = "guardar" => maestro'[r.m].estatus \in Vivos
         /\ r.en \in {"existe", "leerProveedor", "verificar"} => r.op = "crear"
         /\ r.en = "leerMaestro" => r.op \in {"descartar", "revocar"}
  BY DEF SabeDeTerminos, r
<1> QED BY <1>3, <1>4, <1>5, <1>6, <1>7, <1>8, <1>9, <1>10 DEF DeModificatorios

\* The steps that write the contracts keep the live ones apart.
LEMMA AparteTablas ==
  ASSUME TipoInv, NEW h \in Hilos, Atender(h), SabeDeTerminos(peticion[h]),
         SabeDeTipos(peticion[h]), SinProrrogas, VivosAparte
  PROVE  VivosAparte'
<1> DEFINE q == peticion[h]
<1>0. Escriben(h) BY EscribenEnAtender
<1>t. /\ DOMAIN maestro = Maestros
      /\ \A m \in Maestros : DOMAIN maestro[m] = {"estatus", "tipos"}
  BY DEF TipoInv, TablasBien
<1>a. ASSUME \A m \in Maestros :
               /\ maestro'[m].estatus \in Vivos => maestro[m].estatus \in Vivos
               /\ maestro'[m].tipos \subseteq maestro[m].tipos
      PROVE  VivosAparte'
  <2>1. MaestrosVivos' \subseteq MaestrosVivos /\ MaestrosVivos' \subseteq Maestros
    BY <1>a DEF MaestrosVivos
  <2>2. ASSUME NEW m \in MaestrosVivos', NEW n \in MaestrosVivos', m # n
        PROVE  maestro'[m].tipos \cap maestro'[n].tipos = {}
    <3>1. maestro[m].tipos \cap maestro[n].tipos = {} BY <2>1, <2>2 DEF VivosAparte
    <3> QED BY <1>a, <2>1, <3>1
  <2> QED BY <2>2 DEF VivosAparte
<1>1. CASE GuardarMaestro(h)
  <2>1. \/ /\ maestro[q.m] = SinMaestro
           /\ maestro' = [maestro EXCEPT ![q.m].estatus = q.estatus]
        \/ maestro' = maestro
    BY <1>1 DEF GuardarMaestro
  <2>2. ASSUME maestro[q.m] = SinMaestro,
               maestro' = [maestro EXCEPT ![q.m].estatus = q.estatus]
        PROVE  VivosAparte'
    <3>1. SinMaestro.tipos = {} BY DEF SinMaestro
    <3>2. /\ \A n \in Maestros : n # q.m => maestro'[n] = maestro[n]
          /\ q.m \in Maestros => maestro'[q.m].tipos = {}
      BY <1>t, <2>2, <3>1
    <3>3. ASSUME NEW m \in MaestrosVivos', NEW n \in MaestrosVivos', m # n
          PROVE  maestro'[m].tipos \cap maestro'[n].tipos = {}
      <4>1. /\ m \in Maestros /\ n \in Maestros
            /\ m # q.m => m \in MaestrosVivos
            /\ n # q.m => n \in MaestrosVivos
        BY <3>2 DEF MaestrosVivos
      <4>2. m \in MaestrosVivos /\ n \in MaestrosVivos =>
              maestro[m].tipos \cap maestro[n].tipos = {}
        BY <3>3 DEF VivosAparte
      <4> QED BY <3>2, <4>1, <4>2
    <3> QED BY <3>3 DEF VivosAparte
  <2> QED BY <1>a, <2>1, <2>2
<1>2. CASE GuardarSecundarios(h)
  <2>1. /\ q.en = "secundarios"
        /\ \/ maestro' = [maestro EXCEPT ![q.m].tipos = TiposDe[q.m]]
           \/ maestro' = maestro
    BY <1>2 DEF GuardarSecundarios
  <2>2. ASSUME maestro' = [maestro EXCEPT ![q.m].tipos = TiposDe[q.m]]
        PROVE  VivosAparte'
    <3>1. /\ \A n \in Maestros : maestro'[n].estatus = maestro[n].estatus
          /\ \A n \in Maestros : n # q.m => maestro'[n] = maestro[n]
          /\ q.m \in Maestros => maestro'[q.m].tipos = TiposDe[q.m]
      BY <1>t, <2>2
    <3>2. MaestrosVivos' = MaestrosVivos /\ MaestrosVivos \subseteq Maestros
      BY <3>1 DEF MaestrosVivos
    <3>3. \A n \in MaestrosVivos : n # q.m => TiposDe[q.m] \cap maestro[n].tipos = {}
      BY <2>1 DEF SabeDeTipos
    <3>4. ASSUME NEW m \in MaestrosVivos', NEW n \in MaestrosVivos', m # n
          PROVE  maestro'[m].tipos \cap maestro'[n].tipos = {}
      <4>1. m \in Maestros /\ n \in Maestros /\ m \in MaestrosVivos /\ n \in MaestrosVivos
        BY <3>2
      <4>2. maestro[m].tipos \cap maestro[n].tipos = {} BY <3>4, <4>1 DEF VivosAparte
      <4>3. CASE m = q.m BY <3>1, <3>3, <3>4, <4>1, <4>3
      <4>4. CASE n = q.m BY <3>1, <3>3, <3>4, <4>1, <4>4
      <4> QED BY <3>1, <4>1, <4>2, <4>3, <4>4
    <3> QED BY <3>4 DEF VivosAparte
  <2> QED BY <1>a, <2>1, <2>2
<1>3. CASE ActualizarMaestro(h)
  <2>1. /\ q.op = "actualizar" /\ q.en = "guardar"
        /\ \/ maestro' = [maestro EXCEPT ![q.m].estatus = q.estatus]
           \/ maestro' = maestro
    BY <1>3 DEF ActualizarMaestro, ConEstatus
  <2>2. maestro[q.m].estatus \in Vivos BY <2>1 DEF SabeDeTerminos
  <2> QED BY <1>a, <1>t, <2>1, <2>2
<1>4. CASE BorrarFila(h) BY <1>4, <1>a, <1>t DEF BorrarFila
<1>5. CASE BorrarMaestro(h) BY <1>5, <1>a, <1>t, BorradoNoVive DEF BorrarMaestro
<1>6. CASE CancelarMaestro(h)
  BY <1>6, <1>a, <1>t, BorradoNoVive DEF CancelarMaestro, ConEstatus
<1>7. CASE changeStatus(h)
  <2>1. q.en = "cambiarEstatus" /\ maestro' =
          [maestro EXCEPT ![q.m].estatus = IF q.op = "extender" THEN "ADJUDICADO" ELSE "TERMINADO"]
    BY <1>7 DEF changeStatus
  <2>2. q.op # "extender" BY <2>1 DEF SabeDeTerminos
  <2> QED BY <1>a, <1>t, <2>1, <2>2, BorradoNoVive
<1>8. CASE TerminarMaestro(h)
  BY <1>8, <1>a, <1>t, BorradoNoVive DEF TerminarMaestro, ConEstatus
<1> QED BY <1>0, <1>1, <1>2, <1>3, <1>4, <1>5, <1>6, <1>7, <1>8
        DEF Escriben, VivosAparte, MaestrosVivos

LEMMA AparteSabeTipos ==
  ASSUME TipoInv, NEW h \in Hilos, Atender(h), SabeDeTerminos(peticion[h]),
         SabeDeTipos(peticion[h]), Ocupada(h)'
  PROVE  SabeDeTipos(peticion[h])'
<1> DEFINE q == peticion[h]
           r == peticion'[h]
<1>0. SinPeticion.en = "libre" BY DEF SinPeticion
<1>1. Sigue(h) /\ peticion'[h] # SinPeticion BY <1>0, SigueAtender DEF Ocupada
<1>t. /\ DOMAIN maestro = Maestros
      /\ \A m \in Maestros : DOMAIN maestro[m] = {"estatus", "tipos"}
  BY DEF TipoInv, TablasBien
<1> SUFFICES ASSUME (r.op = "crear" /\ r.en \in {"contar", "guardar"}) \/ r.en = "secundarios",
                    NEW n \in MaestrosVivos', n # r.m
             PROVE  TiposDe[r.m] \cap maestro'[n].tipos = {}
  BY DEF SabeDeTipos
<1>2. r.m = q.m /\ r.op = q.op /\ n \in Maestros BY <1>1 DEF Sigue, MaestrosVivos
<1>a. ASSUME UNCHANGED maestro, \A k \in MaestrosVivos : k # q.m =>
                                   TiposDe[q.m] \cap maestro[k].tipos = {}
      PROVE  TiposDe[r.m] \cap maestro'[n].tipos = {}
  BY <1>2, <1>a DEF MaestrosVivos
<1>3. CASE r.op = "crear" /\ r.en = "contar"
  <2>1. Verificar(h) \/ InsertarModificatorio(h) \/ LeerMaestroExtendido(h)
    BY <1>1, <1>3 DEF Sigue
  <2>2. Verificar(h)
    BY <1>2, <1>3, <2>1 DEF InsertarModificatorio, LeerMaestroExtendido, SabeDeTerminos,
                            TipoInv, PeticionesBien, PeticionBien
  <2>3. UNCHANGED maestro /\ (~verifyServiceExistsOnce(TiposDe[q.m]) \/ Responder(h))
    BY <2>2 DEF Verificar, SeguirSi, contratos
  <2>4. ~verifyServiceExistsOnce(TiposDe[q.m]) BY <1>1, <2>3, MueveResponder DEF TipoInv
  <2> QED BY <1>a, <2>3, <2>4 DEF verifyServiceExistsOnce
<1>4. CASE r.op = "crear" /\ r.en = "guardar"
  <2>1. ContarYEmitir(h) BY <1>1, <1>2, <1>4 DEF Sigue, LeerMaestro
  <2>2. UNCHANGED maestro /\ q.op = "crear" /\ q.en = "contar"
    BY <2>1 DEF ContarYEmitir, contratos
  <2> QED BY <1>a, <2>2 DEF SabeDeTipos
<1>5. CASE r.en = "secundarios"
  <2>1. GuardarMaestro(h) BY <1>1, <1>5 DEF Sigue
  <2>2. /\ q.op = "crear" /\ q.en = "guardar"
        /\ \/ maestro' = [maestro EXCEPT ![q.m].estatus = q.estatus]
           \/ maestro' = maestro
    BY <2>1 DEF GuardarMaestro
  <2>3. maestro'[n] = maestro[n] BY <1>2, <1>t, <2>2
  <2>4. n \in MaestrosVivos BY <1>2, <2>3 DEF MaestrosVivos
  <2> QED BY <1>2, <2>2, <2>3, <2>4 DEF SabeDeTipos
<1> QED BY <1>3, <1>4, <1>5

LEMMA AparteNext ==
  ASSUME TipoInv, Turno, AparteInv, [NextContratos]_todo
  PROVE  AparteInv'
<1> DEFINE bien == /\ \A h \in Hilos : Ocupada(h)' => SabeDeTerminos(peticion[h])'
                   /\ SinProrrogas' =>
                        /\ VivosAparte'
                        /\ \A h \in Hilos : Ocupada(h)' => SabeDeTipos(peticion[h])'
<1> SUFFICES ASSUME incidentes' = 0 PROVE bien BY DEF AparteInv
<1>0. incidentes = 0 /\ EnSerie BY IncidentesSuben, PasoEnSerie
<1>i. /\ \A h \in Hilos : Ocupada(h) => SabeDeTerminos(peticion[h])
      /\ SinProrrogas => VivosAparte /\ \A h \in Hilos : Ocupada(h) => SabeDeTipos(peticion[h])
  BY <1>0 DEF AparteInv
<1>l. SinPeticion.en = "libre" BY DEF SinPeticion
<1>a. ASSUME UNCHANGED <<maestro, modificatorio>>
      PROVE  /\ SinProrrogas' => SinProrrogas
             /\ SinProrrogas' => VivosAparte'
  BY <1>a, <1>i DEF SinProrrogas, VivosAparte, MaestrosVivos
<1>b. ASSUME UNCHANGED <<maestro, modificatorio>>, NEW g \in Hilos, peticion'[g] = peticion[g],
             Ocupada(g)'
      PROVE  /\ SabeDeTerminos(peticion[g])'
             /\ SinProrrogas' => SabeDeTipos(peticion[g])'
  <2>1. /\ SabeDeTerminos(peticion[g])
        /\ SinProrrogas => SabeDeTipos(peticion[g])
    BY <1>b, <1>i DEF Ocupada
  <2>2. SabeDeTerminos(peticion[g])' BY <1>b, <2>1 DEF SabeDeTerminos, SinProrrogas
  <2>3. SabeDeTipos(peticion[g]) => SabeDeTipos(peticion[g])'
    BY <1>b DEF SabeDeTipos, MaestrosVivos
  <2> QED BY <1>a, <1>b, <2>1, <2>2, <2>3
<1>1. ASSUME NEW h \in Hilos, LlegaSola(h) PROVE bien
  <2>1. /\ UNCHANGED <<maestro, modificatorio>> /\ Quieto
        /\ \E r : /\ peticion' = [peticion EXCEPT ![h] = r]
                  /\ PideContrato(r) \/ PideRed(r) \/ (r.op = "diario" /\ r.en = "vencidos")
    BY <1>1 DEF LlegaSola
  <2>2. PICK r : /\ peticion' = [peticion EXCEPT ![h] = r]
                 /\ PideContrato(r) \/ PideRed(r) \/ (r.op = "diario" /\ r.en = "vencidos")
    BY <2>1
  <2>3. peticion'[h] = r /\ \A g \in Hilos : g # h => ~Ocupada(g)'
    BY <2>1, <2>2 DEF Quieto, Ocupada, TipoInv, PeticionesBien
  <2>4. SabeDeTerminos(peticion[h])' /\ SabeDeTipos(peticion[h])'
    <3>1. /\ r.op # "extender" \/ r.en = "leer"
          /\ r.op # "actualizar" \/ r.en = "leer"
          /\ r.op # "crear" \/ r.en = "existe"
          /\ r.en = "existe" => r.op = "crear"
          /\ r.en \notin {"insertar", "secundarios", "leerProveedor", "verificar", "leerMaestro"}
          /\ r.en = "corregir" => r.op = "modificarEstatus"
      BY <2>2 DEF PideContrato, PideRed
    <3>2. r.op \in DeModificatorios => r.extension = modificatorio[r.i].extension
      BY <2>2 DEF PideContrato, PideRed, DeModificatorios
    <3> QED BY <2>1, <2>3, <3>1, <3>2 DEF SabeDeTerminos, SabeDeTipos
  <2> QED BY <1>a, <2>1, <2>3, <2>4
<1>2. ASSUME NEW h \in Hilos, Atender(h), Sola(h) PROVE bien
  <2>1. SabeDeTerminos(peticion[h]) /\ Ocupada(h) BY <1>2, <1>i DEF Sola
  <2>2. \A g \in Hilos : g # h => ~Ocupada(g)'
    BY <1>2, MueveAtender DEF Mueve, Sola, Ocupada
  <2>3. Ocupada(h)' => SabeDeTerminos(peticion[h])' BY <1>2, <2>1, AparteSabe
  <2>4. ASSUME SinProrrogas'
        PROVE  VivosAparte' /\ (Ocupada(h)' => SabeDeTipos(peticion[h])')
    <3>1. SinProrrogas BY <1>2, <2>1, <2>4, ProrrogasQuedan
    <3>2. VivosAparte /\ SabeDeTipos(peticion[h]) BY <1>i, <2>1, <3>1
    <3> QED BY <1>2, <2>1, <3>1, <3>2, AparteTablas, AparteSabeTipos
  <2> QED BY <2>2, <2>3, <2>4
<1>3. ASSUME NEW k \in DOMAIN eventos, Maneja(k) PROVE bien
  <2>1. UNCHANGED <<maestro, modificatorio, peticion>> BY <1>3 DEF Maneja
  <2>2. \A g \in Hilos : peticion'[g] = peticion[g] BY <2>1
  <2> QED BY <1>a, <1>b, <2>1, <2>2
<1>4. ASSUME Falla PROVE bien
  <2>1. UNCHANGED <<maestro, modificatorio>> BY <1>4 DEF Falla
  <2>2. ASSUME NEW g \in Hilos, Ocupada(g)', peticion'[g] # peticion[g]
        PROVE  SabeDeTerminos(peticion[g])' /\ SabeDeTipos(peticion[g])'
    <3>1. /\ peticion[g].en = "secundarios"
          /\ peticion'[g] = [peticion[g] EXCEPT !.en = "leerBaja"]
      BY <1>4, <1>l, <2>2 DEF Falla, Ocupada
    <3>2. DOMAIN peticion[g] = Campos BY DEF TipoInv, PeticionesBien, PeticionBien
    <3>3. peticion'[g].en = "leerBaja" BY <3>1, <3>2 DEF Campos
    <3> QED BY <3>3 DEF SabeDeTerminos, SabeDeTipos
  <2> QED BY <1>a, <1>b, <2>1, <2>2
<1>5. ASSUME UNCHANGED todo PROVE bien
  <2>1. UNCHANGED <<maestro, modificatorio, peticion>> BY <1>5 DEF todo, contratos
  <2>2. \A g \in Hilos : peticion'[g] = peticion[g] BY <2>1
  <2> QED BY <1>a, <1>b, <2>1, <2>2
<1> QED BY <1>0, <1>1, <1>2, <1>3, <1>4, <1>5 DEF EnSerie

LEMMA AparteInit == InitContratos => AparteInv
<1> SUFFICES ASSUME InitContratos PROVE AparteInv OBVIOUS
<1>1. /\ modificatorio = <<>> /\ peticion = [h \in Hilos |-> SinPeticion]
      /\ \E vivos \in SUBSET Existentes :
           maestro = [m \in Maestros |->
             IF m \in vivos THEN [estatus |-> "ADJUDICADO", tipos |-> TiposDe[m]] ELSE SinMaestro]
  BY DEF InitContratos
<1>2. SinPeticion.en = "libre" /\ SinMaestro.tipos = {} BY DEF SinPeticion, SinMaestro
<1>3. PICK vivos \in SUBSET Existentes : maestro = [m \in Maestros |->
        IF m \in vivos THEN [estatus |-> "ADJUDICADO", tipos |-> TiposDe[m]] ELSE SinMaestro]
  BY <1>1
<1>4. ASSUME NEW m \in MaestrosVivos, NEW n \in MaestrosVivos, m # n
      PROVE  maestro[m].tipos \cap maestro[n].tipos = {}
  <2>1. m \in Maestros /\ n \in Maestros BY DEF MaestrosVivos
  <2>2. \A k \in Maestros : maestro[k].tipos = IF k \in vivos THEN TiposDe[k] ELSE {}
    BY <1>2, <1>3
  <2> QED BY <1>4, <2>1, <2>2, ExistentesAparte
<1> QED BY <1>1, <1>2, <1>4 DEF AparteInv, VivosAparte, Ocupada

\* Without overlaps and extensions of the term, and whatever fails or stops
\* halfway, no service type is in two live contracts: the create that tests the
\* types is the one that writes them.
THEOREM ServiciosAparte == SpecContratos => []UnSoloContratoPorServicio
<1> DEFINE Inv == TipoInv /\ Turno /\ AparteInv
<1>1. InitContratos => Inv BY TipoInit, TurnoInit, AparteInit
<1>2. Inv /\ [NextContratos]_todo => Inv' BY TipoNext, TurnoNext, AparteNext
<1>3. Inv => UnSoloContratoPorServicio
  BY DEF AparteInv, VivosAparte, UnSoloContratoPorServicio
<1> QED BY <1>1, <1>2, <1>3, PTL DEF SpecContratos

(* What becomes of the events. *)

\* The events stay, and those that are added are of these classes.
Suma(clases) ==
  /\ \A i \in DOMAIN eventos : i \in DOMAIN eventos' /\ eventos'[i] = eventos[i]
  /\ \A j \in DOMAIN eventos' : \/ \E i \in DOMAIN eventos : eventos'[j] = eventos[i]
                                \/ eventos'[j].clase \in clases /\ eventos'[j].en = "inicio"

DeClases(nuevos, clases) ==
  \E W : nuevos \in Seq(W) /\ \A v \in W : v.clase \in clases /\ v.en = "inicio"

LEMMA SumaNada ==
  ASSUME eventos' = eventos, NEW clases PROVE Suma(clases)
BY DEF Suma

LEMMA DeClasesSon ==
  ASSUME NEW clases
  PROVE  /\ DeClases(<<>>, clases)
         /\ \A v : v.clase \in clases /\ v.en = "inicio" => DeClases(<<v>>, clases)
         /\ \A u, v : {u.clase, v.clase} \subseteq clases /\ u.en = "inicio" /\ v.en = "inicio" =>
                        DeClases(<<u, v>>, clases)
<1>1. DeClases(<<>>, clases)
  <2> DEFINE W == {}
  <2>1. <<>> \in Seq(W) /\ \A v \in W : v.clase \in clases /\ v.en = "inicio" OBVIOUS
  <2> HIDE DEF W
  <2> QED BY <2>1 DEF DeClases
<1>2. ASSUME NEW v, v.clase \in clases, v.en = "inicio" PROVE DeClases(<<v>>, clases)
  <2> DEFINE W == {v}
  <2>1. <<v>> \in Seq(W) /\ \A u \in W : u.clase \in clases /\ u.en = "inicio" BY <1>2
  <2> HIDE DEF W
  <2> QED BY <2>1 DEF DeClases
<1>3. ASSUME NEW u, NEW v, {u.clase, v.clase} \subseteq clases, u.en = "inicio", v.en = "inicio"
      PROVE DeClases(<<u, v>>, clases)
  <2> DEFINE W == {u, v}
  <2>1. <<u, v>> \in Seq(W) /\ \A w \in W : w.clase \in clases /\ w.en = "inicio" BY <1>3
  <2> HIDE DEF W
  <2> QED BY <2>1 DEF DeClases
<1> QED BY <1>1, <1>2, <1>3

LEMMA SumaEmitir ==
  ASSUME Cola, NEW clases, NEW nuevos, DeClases(nuevos, clases), Emitir(nuevos)
  PROVE  Suma(clases)
<1>1. PICK W : nuevos \in Seq(W) /\ \A v \in W : v.clase \in clases /\ v.en = "inicio"
  BY DEF DeClases
<1>2. \A i \in DOMAIN nuevos : nuevos[i] \in W BY <1>1
<1>3. /\ \A j \in DOMAIN eventos' : \/ \E i \in DOMAIN eventos : eventos'[j] = eventos[i]
                                    \/ \E i \in DOMAIN nuevos : eventos'[j] = nuevos[i]
      /\ \A i \in DOMAIN eventos : i \in DOMAIN eventos' /\ eventos'[i] = eventos[i]
  BY <1>1, SeSumanEventos
<1> QED BY <1>1, <1>2, <1>3 DEF Suma

LEMMA ClasesDeEventos ==
  ASSUME NEW clase
  PROVE  /\ \A tipos : DeTipos(clase, tipos).clase = clase /\ DeTipos(clase, tipos).en = "inicio"
         /\ DeProveedor(clase).clase = clase /\ DeProveedor(clase).en = "inicio"
         /\ \A s : LET v == [Evento EXCEPT !.clase = clase, !.s = s]
                   IN  v.clase = clase /\ v.en = "inicio"
BY DEF DeTipos, DeProveedor, Evento

\* The classes that each step of a request emits.
LEMMA SumanEnAtender ==
  ASSUME TipoInv, NEW h \in Hilos
  PROVE  /\ EscribirServicio(h) => Suma({"servicio.activado"})
         /\ ContarYEmitir(h) => Suma({"enable-provider", "enable-stations"})
         /\ LeerBaja(h) => Suma({"disable-stations"})
         /\ BorrarMaestro(h) => Suma({"disable-provider"})
         /\ AvisarBaja(h) => Suma({"disable-stations"})
         /\ LeerTipos(h) => Suma({"disable-stations"})
         /\ changeStatus(h) => Suma({"enable-provider", "enable-stations", "disable-provider",
                                     "disable-stations"})
         /\ LeerVigentes(h) => Suma({"disable-stations"})
         /\ ContarDeProveedor(h) => Suma({"disable-provider"})
<1>0. Cola BY DEF TipoInv, EventosBien, Cola
<1>1. ASSUME NEW clases, NEW v, v.clase \in clases, v.en = "inicio", NEW c,
             Emitir(IF c THEN <<v>> ELSE <<>>)
      PROVE  Suma(clases)
  <2>1. Emitir(<<v>>) \/ Emitir(<<>>) BY <1>1
  <2> QED BY <1>0, <1>1, <2>1, DeClasesSon, SumaEmitir
<1>2. ASSUME NEW clases, NEW v, v.clase \in clases, v.en = "inicio", Emitir(<<v>>)
      PROVE  Suma(clases)
  BY <1>0, <1>2, DeClasesSon, SumaEmitir
<1>3. ASSUME NEW clases, {"enable-provider", "enable-stations"} \subseteq clases,
             NEW cuenta, NEW habilitado, NEW tipos, Emitir(Habilitar(cuenta, habilitado, tipos))
      PROVE  Suma(clases)
  <2> DEFINE a == DeProveedor("enable-provider")
             b == DeTipos("enable-stations", tipos)
  <2>1. Emitir(<<a, b>>) \/ Emitir(<<b>>) BY <1>3, HabilitarEs
  <2>2. a.clase = "enable-provider" /\ b.clase = "enable-stations" /\ a.en = "inicio"
        /\ b.en = "inicio"
    BY ClasesDeEventos
  <2> HIDE DEF a, b
  <2>3. DeClases(<<a, b>>, clases) /\ DeClases(<<b>>, clases) BY <1>3, <2>2, DeClasesSon
  <2> QED BY <1>0, <2>1, <2>3, SumaEmitir
<1>4. ASSUME EscribirServicio(h) PROVE Suma({"servicio.activado"})
  <2> DEFINE v == [Evento EXCEPT !.clase = "servicio.activado", !.s = peticion[h].s]
  <2>1. Emitir(IF peticion[h].op = "activarServicio" THEN <<v>> ELSE <<>>)
    BY <1>4 DEF EscribirServicio
  <2>2. v.clase \in {"servicio.activado"} /\ v.en = "inicio" BY ClasesDeEventos
  <2> HIDE DEF v
  <2> QED BY <1>1, <2>1, <2>2
<1>5. ASSUME ContarYEmitir(h) PROVE Suma({"enable-provider", "enable-stations"})
  BY <1>3, <1>5 DEF ContarYEmitir
<1>6. ASSUME LeerBaja(h) PROVE Suma({"disable-stations"})
  <2> DEFINE v == DeTipos("disable-stations", maestro[peticion[h].m].tipos)
  <2>1. Emitir(<<v>>) \/ eventos' = eventos BY <1>6 DEF LeerBaja
  <2>2. v.clase \in {"disable-stations"} /\ v.en = "inicio" BY ClasesDeEventos
  <2> HIDE DEF v
  <2> QED BY <1>2, <2>1, <2>2, SumaNada
<1>7. ASSUME BorrarMaestro(h) PROVE Suma({"disable-provider"})
  <2> DEFINE v == DeProveedor("disable-provider")
  <2>1. Emitir(IF peticion[h].op = "crear" /\ ~Retenido(peticion[h].m) THEN <<v>> ELSE <<>>)
    BY <1>7 DEF BorrarMaestro
  <2>2. v.clase \in {"disable-provider"} /\ v.en = "inicio" BY ClasesDeEventos
  <2> HIDE DEF v
  <2> QED BY <1>1, <2>1, <2>2
<1>8. ASSUME AvisarBaja(h) PROVE Suma({"disable-stations"})
  <2> DEFINE v == DeTipos("disable-stations", maestro[peticion[h].m].tipos)
  <2>1. Emitir(IF HayMaestro(peticion[h].m) THEN <<v>> ELSE <<>>) BY <1>8 DEF AvisarBaja
  <2>2. v.clase \in {"disable-stations"} /\ v.en = "inicio" BY ClasesDeEventos
  <2> HIDE DEF v
  <2> QED BY <1>1, <2>1, <2>2
<1>9. ASSUME LeerTipos(h) PROVE Suma({"disable-stations"})
  <2> DEFINE v == DeTipos("disable-stations", maestro[peticion[h].m].tipos)
  <2>1. Emitir(<<v>>) \/ eventos' = eventos BY <1>9 DEF LeerTipos
  <2>2. v.clase \in {"disable-stations"} /\ v.en = "inicio" BY ClasesDeEventos
  <2> HIDE DEF v
  <2> QED BY <1>2, <2>1, <2>2, SumaNada
<1>10. ASSUME changeStatus(h)
       PROVE  Suma({"enable-provider", "enable-stations", "disable-provider", "disable-stations"})
  <2> DEFINE a == DeProveedor("disable-provider")
             b == DeTipos("disable-stations", peticion[h].tipos)
             clases == {"enable-provider", "enable-stations", "disable-provider",
                        "disable-stations"}
  <2>1. \/ Emitir(Habilitar(peticion[h].cuenta, peticion[h].habilitado, peticion[h].tipos))
        \/ Emitir(<<a, b>>)
    BY <1>10 DEF changeStatus
  <2>2. /\ a.clase \in clases /\ a.en = "inicio" /\ b.clase \in clases /\ b.en = "inicio"
        /\ {"enable-provider", "enable-stations"} \subseteq clases
    BY ClasesDeEventos
  <2> HIDE DEF a, b, clases
  <2>3. DeClases(<<a, b>>, clases) BY <2>2, DeClasesSon
  <2>4. Suma(clases) BY <1>0, <1>3, <2>1, <2>2, <2>3, SumaEmitir
  <2> QED BY <2>4 DEF clases
<1>11. ASSUME LeerVigentes(h) PROVE Suma({"disable-stations"})
  <2> DEFINE v == DeTipos("disable-stations", PorApagar(peticion[h].tipos))
  <2>1. Emitir(IF PorApagar(peticion[h].tipos) = {} THEN <<>> ELSE <<v>>)
    BY <1>11 DEF LeerVigentes
  <2>2. v.clase \in {"disable-stations"} /\ v.en = "inicio" BY ClasesDeEventos
  <2> HIDE DEF v
  <2>3. Emitir(<<v>>) \/ Emitir(<<>>) BY <2>1
  <2> QED BY <1>0, <1>2, <2>2, <2>3, DeClasesSon, SumaEmitir
<1>12. ASSUME ContarDeProveedor(h) PROVE Suma({"disable-provider"})
  <2> DEFINE v == DeProveedor("disable-provider")
  <2>1. Emitir(IF countActiveContracts = 0 /\ peticion[h].habilitado THEN <<v>> ELSE <<>>)
    BY <1>12 DEF ContarDeProveedor
  <2>2. v.clase \in {"disable-provider"} /\ v.en = "inicio" BY ClasesDeEventos
  <2> HIDE DEF v
  <2> QED BY <1>1, <2>1, <2>2
<1> QED BY <1>4, <1>5, <1>6, <1>7, <1>8, <1>9, <1>10, <1>11, <1>12

\* A handler leaves the other events, and at most one of its class or one that
\* changes services.
SigueEvento(k) ==
  /\ \A i \in DOMAIN eventos : i # k => \E j \in DOMAIN eventos' : eventos'[j] = eventos[i]
  /\ \A j \in DOMAIN eventos' :
       \/ \E i \in DOMAIN eventos : i # k /\ eventos'[j] = eventos[i]
       \/ /\ eventos'[j].clase = eventos[k].clase
          /\ ManejarProveedor(k) => eventos'[j].en = "escribir"
       \/ eventos'[j].clase \in {"enable-multiple-services", "disable-multiple-services"}

LEMMA SigueManejar ==
  ASSUME TipoInv, NEW k \in DOMAIN eventos, Manejar(k)
  PROVE  SigueEvento(k)
<1> DEFINE v == eventos[k]
<1>0. Cola /\ DOMAIN v = CamposDeEvento BY DEF TipoInv, EventosBien, EventoBien, Cola
<1>p. ASSUME ManejarProveedor(k)
      PROVE  ~(LeerRed(k) \/ CambiarServicio(k) \/ ManejarRenovacion(k) \/ BuscarPorConmutar(k)
               \/ Conmutar(k) \/ Releer(k))
  BY <1>p DEF ManejarProveedor, LeerRed, CambiarServicio, ManejarRenovacion, BuscarPorConmutar,
              Conmutar, Releer
<1>1. ASSUME Despachado(k) PROVE SigueEvento(k)
  BY <1>0, <1>1, QuedanEventos DEF SigueEvento
<1>2. ASSUME NEW w, eventos' = [eventos EXCEPT ![k] = w], w.clase = v.clase,
             ManejarProveedor(k) => w.en = "escribir"
      PROVE  SigueEvento(k)
  <2>1. DOMAIN eventos' = DOMAIN eventos /\ eventos'[k] = w
        /\ \A i \in DOMAIN eventos : i # k => eventos'[i] = eventos[i]
    BY <1>2
  <2> QED BY <1>2, <2>1 DEF SigueEvento
<1>3. ASSUME NEW w, TrasEstaciones(k, w), w.clase = v.clase, ~ManejarProveedor(k)
      PROVE  SigueEvento(k)
  <2>1. DeServicios(w).clase \in {"enable-multiple-services", "disable-multiple-services"}
    BY DEF DeServicios, Evento
  <2> QED BY <1>0, <1>3, <2>1, TrasEstacionesEs DEF SigueEvento
<1>4. CASE ManejarProveedor(k)
  <2> DEFINE w == [v EXCEPT !.en = "escribir"]
  <2>1. Despachado(k) \/ eventos' = [eventos EXCEPT ![k] = w] BY <1>4 DEF ManejarProveedor
  <2>2. w.clase = v.clase /\ w.en = "escribir" BY <1>0 DEF CamposDeEvento
  <2> HIDE DEF w
  <2> QED BY <1>1, <1>2, <2>1, <2>2
<1>5. CASE ManejarRenovacion(k)
  <2>1. ASSUME NEW n, eventos' = [eventos EXCEPT ![k].en = "escribir", ![k].i = n]
        PROVE  SigueEvento(k)
    <3> DEFINE w == [v EXCEPT !.en = "escribir", !.i = n]
    <3>1. eventos' = [eventos EXCEPT ![k] = w] /\ w.clase = v.clase /\ w.en = "escribir"
      BY <1>0, <2>1 DEF CamposDeEvento
    <3> HIDE DEF w
    <3> QED BY <1>2, <3>1
  <2> QED BY <1>1, <1>5, <2>1 DEF ManejarRenovacion
<1>6. CASE LeerRed(k)
  <2> DEFINE cambian == PorCambiar(v.clase, v.tipos)
             e == PorConmutar(v.clase, cambian)
             w == [v EXCEPT !.en = "buscar", !.servicios = cambian, !.estaciones = e]
  <2>1. TrasEstaciones(k, w) BY <1>6 DEF LeerRed
  <2> HIDE DEF cambian, e
  <2>2. w.clase = v.clase BY <1>0 DEF CamposDeEvento
  <2> HIDE DEF w
  <2> QED BY <1>3, <1>6, <1>p, <2>1, <2>2
<1>7. CASE BuscarPorConmutar(k)
  <2>1. ASSUME NEW e, eventos' = [eventos EXCEPT ![k].en = "conmutar", ![k].e = e]
        PROVE  SigueEvento(k)
    <3> DEFINE w == [v EXCEPT !.en = "conmutar", !.e = e]
    <3>1. eventos' = [eventos EXCEPT ![k] = w] /\ w.clase = v.clase
      BY <1>0, <2>1 DEF CamposDeEvento
    <3> HIDE DEF w
    <3> QED BY <1>2, <1>7, <1>p, <3>1
  <2> QED BY <1>1, <1>7, <2>1 DEF BuscarPorConmutar
<1>8. CASE Conmutar(k)
  <2> DEFINE w == [v EXCEPT !.en = "releer"]
  <2>1. eventos' = [eventos EXCEPT ![k] = w] /\ w.clase = v.clase
    BY <1>0, <1>8 DEF CamposDeEvento, Conmutar
  <2> HIDE DEF w
  <2> QED BY <1>2, <1>8, <1>p, <2>1
<1>9. CASE Releer(k)
  <2> DEFINE w == [v EXCEPT !.en = "buscar", !.e = "-", !.estaciones = @ \ {v.e}]
  <2>1. Despachado(k) \/ TrasEstaciones(k, w) BY <1>9 DEF Releer
  <2>2. w.clase = v.clase BY <1>0 DEF CamposDeEvento
  <2> HIDE DEF w
  <2> QED BY <1>1, <1>3, <1>9, <1>p, <2>1, <2>2
<1>10. CASE CambiarServicio(k)
  <2>1. \E s \in v.servicios :
          \/ Despachado(k)
          \/ eventos' = [eventos EXCEPT ![k].servicios = Pendientes(v.servicios, s)]
    BY <1>10 DEF CambiarServicio
  <2>2. ASSUME NEW s, eventos' = [eventos EXCEPT ![k].servicios = Pendientes(v.servicios, s)]
        PROVE  SigueEvento(k)
    <3> DEFINE w == [v EXCEPT !.servicios = Pendientes(v.servicios, s)]
    <3>1. eventos' = [eventos EXCEPT ![k] = w] /\ w.clase = v.clase
      BY <1>0, <2>2 DEF CamposDeEvento
    <3> HIDE DEF w
    <3> QED BY <1>2, <1>10, <1>p, <3>1
  <2> QED BY <1>1, <2>1, <2>2
<1> QED BY <1>4, <1>5, <1>6, <1>7, <1>8, <1>9, <1>10 DEF Manejar

(* The last renewal. *)

\* No renewal was removed, and only the latest one may be the last one.
UltimaAlFinal(s) ==
  \A n \in DOMAIN renovacion[s] :
    /\ renovacion[s][n].existe
    /\ renovacion[s][n].ultima => n = Len(renovacion[s]) /\ renovacion[s][n].estatus

SabeDeRenovaciones(q) ==
  /\ q.en \notin {"leerServicio", "escribirServicio", "leerRenovacion", "borrarRenovacion"}
  /\ q.en = "baja" => q.i \in DOMAIN renovacion[q.s] /\ q.i = Len(renovacion[q.s])
  /\ q.en = "nueva" => \A n \in DOMAIN renovacion[q.s] : ~renovacion[q.s][n].ultima

\* The latest one is the last one, unless the next one is about to be saved.
ConUltima(s) ==
  \/ renovacion[s] = <<>>
  \/ renovacion[s][Len(renovacion[s])].ultima
  \/ \E h \in Hilos : peticion[h].en = "nueva" /\ peticion[h].s = s

SinActivados == \A k \in DOMAIN eventos : eventos[k].clase # "servicio.activado"

RenuevaInv ==
  incidentes = 0 =>
    /\ \A h \in Hilos : Ocupada(h) => SabeDeRenovaciones(peticion[h])
    /\ SinActivados
    /\ \A s \in Servicios : UltimaAlFinal(s)
    /\ fallos = 0 => \A s \in Servicios : ConUltima(s)

\* What the two steps that write renewals do.
LEMMA RenuevaTablas ==
  ASSUME TipoInv, NEW h \in Hilos, Atender(h), Sola(h), SabeDeRenovaciones(peticion[h]),
         \A s \in Servicios : UltimaAlFinal(s)
  PROVE  /\ \A s \in Servicios : UltimaAlFinal(s)'
         /\ ~GuardarRenovacion(h) =>
              \A s \in Servicios : s = peticion[h].s \/ renovacion'[s] = renovacion[s]
         /\ BajaAnterior(h) =>
              \A n \in DOMAIN renovacion'[peticion[h].s] : ~renovacion'[peticion[h].s][n].ultima
         /\ renovacion' = renovacion \/ BajaAnterior(h) \/ GuardarRenovacion(h)
<1> DEFINE q == peticion[h]
<1>0. renovacion' = renovacion \/ BajaAnterior(h) \/ GuardarRenovacion(h)
  <2>1. Escriben(h) BY EscribenEnAtender
  <2>2. ~BorrarRenovacion(h) BY DEF BorrarRenovacion, SabeDeRenovaciones
  <2> QED BY <2>1, <2>2 DEF Escriben
<1>t. /\ DOMAIN renovacion = Servicios
      /\ \A s \in Servicios : renovacion[s] \in Seq(Renovacion)
  BY DEF TipoInv, TablasBien
<1>1. CASE ~BajaAnterior(h) /\ ~GuardarRenovacion(h)
  <2>1. renovacion' = renovacion BY <1>0, <1>1
  <2> QED BY <1>1, <2>1 DEF UltimaAlFinal
<1>2. CASE BajaAnterior(h)
  <2> DEFINE r == [renovacion[q.s] EXCEPT ![q.i] = Anterior]
  <2>1. /\ renovacion' = [renovacion EXCEPT ![q.s] = r] /\ q.en = "baja"
    BY <1>2 DEF BajaAnterior
  <2>2. q.s \in Servicios /\ q.i \in DOMAIN renovacion[q.s] /\ q.i = Len(renovacion[q.s])
    BY <2>1 DEF SabeDeRenovaciones, TipoInv, PeticionesBien, PeticionBien
  <2>3. Anterior.existe /\ ~Anterior.ultima BY DEF Anterior
  <2>4. /\ DOMAIN r = DOMAIN renovacion[q.s]
        /\ r[q.i] = Anterior
        /\ \A n \in DOMAIN r : n # q.i => r[n] = renovacion[q.s][n]
    BY <2>2
  <2> HIDE DEF r
  <2>5. renovacion'[q.s] = r /\ \A s \in Servicios : s # q.s => renovacion'[s] = renovacion[s]
    BY <1>t, <2>1, <2>2
  <2>6. \A n \in DOMAIN r : r[n].existe /\ ~r[n].ultima
    BY <2>2, <2>3, <2>4 DEF UltimaAlFinal
  <2>7. ASSUME NEW s \in Servicios PROVE UltimaAlFinal(s)' BY <2>5, <2>6 DEF UltimaAlFinal
  <2> QED BY <1>0, <1>2, <2>5, <2>6, <2>7
<1>3. CASE GuardarRenovacion(h)
  <2> DEFINE r == Append(renovacion[q.s], NuevaRenovacion)
             k == Len(renovacion[q.s])
  <2>1. renovacion' = [renovacion EXCEPT ![q.s] = r] /\ q.en = "nueva"
    BY <1>3 DEF GuardarRenovacion
  <2>2. q.s \in Servicios /\ renovacion[q.s] \in Seq(Renovacion)
    BY <1>t, <2>1 DEF TipoInv, PeticionesBien, PeticionBien
  <2>3. NuevaRenovacion.existe /\ NuevaRenovacion.ultima /\ NuevaRenovacion.estatus
    BY DEF NuevaRenovacion
  <2>4. /\ DOMAIN r = 1..(k + 1) /\ k \in Nat /\ DOMAIN renovacion[q.s] = 1..k
        /\ Len(r) = k + 1 /\ r[k + 1] = NuevaRenovacion
        /\ \A n \in 1..k : r[n] = renovacion[q.s][n]
    BY <2>2
  <2> HIDE DEF r, k
  <2>5. renovacion'[q.s] = r /\ \A s \in Servicios : s # q.s => renovacion'[s] = renovacion[s]
    BY <1>t, <2>1, <2>2
  <2>6. \A n \in 1..(k + 1) : n \in 1..k \/ n = k + 1 BY <2>4
  <2>7. \A n \in 1..k : renovacion[q.s][n].existe /\ ~renovacion[q.s][n].ultima
    BY <2>1, <2>2, <2>4 DEF SabeDeRenovaciones, UltimaAlFinal
  <2>8. ASSUME NEW s \in Servicios PROVE UltimaAlFinal(s)'
    BY <2>3, <2>4, <2>5, <2>6, <2>7 DEF UltimaAlFinal
  <2>9. ~BajaAnterior(h) BY <2>1 DEF BajaAnterior
  <2> QED BY <1>0, <1>3, <2>8, <2>9
<1> QED BY <1>0, <1>1, <1>2, <1>3

LEMMA RenuevaSabe ==
  ASSUME TipoInv, NEW h \in Hilos, Atender(h), Sola(h), SabeDeRenovaciones(peticion[h]),
         \A s \in Servicios : UltimaAlFinal(s), Ocupada(h)'
  PROVE  SabeDeRenovaciones(peticion[h])'
<1> DEFINE q == peticion[h]
           r == peticion'[h]
<1>0. SinPeticion.en = "libre" BY DEF SinPeticion
<1>1. Sigue(h) /\ peticion'[h] # SinPeticion BY <1>0, SigueAtender DEF Ocupada
<1>2. DOMAIN q = Campos /\ DOMAIN peticion = Hilos
  BY DEF TipoInv, PeticionesBien, PeticionBien
<1>3. r.en \notin {"leerServicio", "escribirServicio", "leerRenovacion", "borrarRenovacion"}
  BY <1>1 DEF Sigue, SabeDeRenovaciones, LeerServicio, LeerRenovacion
<1>4. ASSUME r.en = "baja"
      PROVE  r.i \in DOMAIN renovacion'[r.s] /\ r.i = Len(renovacion'[r.s])
  <2>1. LeerAnterior(h) /\ r.s = q.s BY <1>1, <1>4 DEF Sigue
  <2>2. UNCHANGED renovacion /\ q.s \in Servicios
    BY <2>1 DEF LeerAnterior, red, TipoInv, PeticionesBien, PeticionBien
  <2>3. Responder(h) \/ \E n \in Ultimas(q.s) : peticion' =
                                   [peticion EXCEPT ![h].en = "baja", ![h].i = n]
    BY <2>1 DEF LeerAnterior
  <2>4. Responder(h) => r = SinPeticion BY MueveResponder DEF TipoInv
  <2>5. PICK n \in Ultimas(q.s) : peticion' = [peticion EXCEPT ![h].en = "baja", ![h].i = n]
    BY <1>1, <2>3, <2>4
  <2>6. r.i = n BY <1>2, <2>5 DEF Campos
  <2>7. n \in DOMAIN renovacion[q.s] /\ n = Len(renovacion[q.s])
    BY <2>2 DEF Ultimas, UltimaAlFinal
  <2> QED BY <2>1, <2>2, <2>6, <2>7
<1>5. ASSUME r.en = "nueva"
      PROVE  \A n \in DOMAIN renovacion'[r.s] : ~renovacion'[r.s][n].ultima
  <2>1. (isFirstRenovation(h) \/ BajaAnterior(h)) /\ r.s = q.s BY <1>1, <1>5 DEF Sigue
  <2>2. CASE isFirstRenovation(h)
    <3>1. /\ Seguir(h, IF Renovaciones(q.s) = {} THEN "nueva" ELSE "anterior")
          /\ UNCHANGED renovacion /\ q.s \in Servicios
      BY <2>2 DEF isFirstRenovation, red, TipoInv, PeticionesBien, PeticionBien
    <3>a. Seguir(h, "anterior") => r.en = "anterior" BY MueveSeguir DEF TipoInv
    <3>2. Renovaciones(q.s) = {} BY <1>5, <3>1, <3>a
    <3>3. DOMAIN renovacion[q.s] = {} BY <3>1, <3>2 DEF Renovaciones, UltimaAlFinal
    <3> QED BY <2>1, <3>1, <3>3
  <2>3. CASE BajaAnterior(h) BY <2>1, <2>3, RenuevaTablas
  <2> QED BY <2>1, <2>2, <2>3
<1> QED BY <1>3, <1>4, <1>5 DEF SabeDeRenovaciones

LEMMA RenuevaNext ==
  ASSUME TipoInv, Turno, RenuevaInv, [NextContratos]_todo
  PROVE  RenuevaInv'
<1> DEFINE bien == /\ \A h \in Hilos : Ocupada(h)' => SabeDeRenovaciones(peticion[h])'
                   /\ SinActivados'
                   /\ \A s \in Servicios : UltimaAlFinal(s)'
                   /\ fallos' = 0 => \A s \in Servicios : ConUltima(s)'
<1> SUFFICES ASSUME incidentes' = 0 PROVE bien BY DEF RenuevaInv
<1>0. incidentes = 0 /\ EnSerie BY IncidentesSuben, PasoEnSerie
<1>i. /\ \A h \in Hilos : Ocupada(h) => SabeDeRenovaciones(peticion[h])
      /\ SinActivados
      /\ \A s \in Servicios : UltimaAlFinal(s)
      /\ fallos = 0 => \A s \in Servicios : ConUltima(s)
  BY <1>0 DEF RenuevaInv
<1>l. SinPeticion.en = "libre" BY DEF SinPeticion
<1>a. ASSUME UNCHANGED renovacion PROVE \A s \in Servicios : UltimaAlFinal(s)'
  BY <1>a, <1>i DEF UltimaAlFinal
<1>b. ASSUME UNCHANGED renovacion, NEW g \in Hilos, peticion'[g] = peticion[g], Ocupada(g)'
      PROVE  SabeDeRenovaciones(peticion[g])'
  <2>1. SabeDeRenovaciones(peticion[g]) BY <1>b, <1>i DEF Ocupada
  <2> QED BY <1>b, <2>1 DEF SabeDeRenovaciones
<1>c. ASSUME UNCHANGED <<renovacion, peticion, fallos>>
      PROVE  fallos' = 0 => \A s \in Servicios : ConUltima(s)'
  BY <1>c, <1>i DEF ConUltima
<1>1. ASSUME NEW h \in Hilos, LlegaSola(h) PROVE bien
  <2>1. /\ UNCHANGED <<renovacion, eventos, fallos>> /\ Quieto
        /\ \E r : /\ peticion' = [peticion EXCEPT ![h] = r]
                  /\ PideContrato(r) \/ PideRed(r) \/ (r.op = "diario" /\ r.en = "vencidos")
    BY <1>1 DEF LlegaSola
  <2>2. PICK r : /\ peticion' = [peticion EXCEPT ![h] = r]
                 /\ PideContrato(r) \/ PideRed(r) \/ (r.op = "diario" /\ r.en = "vencidos")
    BY <2>1
  <2>3. peticion'[h] = r /\ \A g \in Hilos : g # h => ~Ocupada(g)'
    BY <2>1, <2>2 DEF Quieto, Ocupada, TipoInv, PeticionesBien
  <2>4. SabeDeRenovaciones(peticion[h])'
    <3>1. r.en \notin {"leerServicio", "escribirServicio", "leerRenovacion", "borrarRenovacion",
                       "baja", "nueva"}
      BY <2>2 DEF PideContrato, PideRed
    <3> QED BY <2>3, <3>1 DEF SabeDeRenovaciones
  <2>5. SinActivados' BY <1>i, <2>1 DEF SinActivados
  <2>6. ASSUME fallos' = 0, NEW s \in Servicios PROVE ConUltima(s)'
    <3>1. ConUltima(s) /\ \A g \in Hilos : peticion[g].en = "libre"
      BY <1>i, <2>1, <2>6 DEF Quieto
    <3>2. renovacion[s] = <<>> \/ renovacion[s][Len(renovacion[s])].ultima
      BY <3>1 DEF ConUltima
    <3> QED BY <2>1, <3>2 DEF ConUltima
  <2> QED BY <1>a, <2>1, <2>3, <2>4, <2>5, <2>6
<1>2. ASSUME NEW h \in Hilos, Atender(h), Sola(h) PROVE bien
  <2>1. SabeDeRenovaciones(peticion[h]) /\ Ocupada(h) /\ Escriben(h) /\ Mueve(h)
    BY <1>2, <1>i, EscribenEnAtender, MueveAtender DEF Sola
  <2>2. \A g \in Hilos : g # h => ~Ocupada(g)' /\ ~Ocupada(g)
    BY <1>2, <2>1 DEF Mueve, Sola, Ocupada
  <2>3. Ocupada(h)' => SabeDeRenovaciones(peticion[h])' BY <1>2, <1>i, <2>1, RenuevaSabe
  <2>4. \A s \in Servicios : UltimaAlFinal(s)' BY <1>2, <1>i, <2>1, RenuevaTablas
  <2>5. SinActivados'
    <3>1. eventos' = eventos \/ Suma({"enable-provider", "enable-stations", "disable-provider",
                                     "disable-stations"})
      <4>1. ~EscribirServicio(h) BY <2>1 DEF EscribirServicio, SabeDeRenovaciones
      <4> QED BY <2>1, <4>1, SumanEnAtender DEF Escriben, Suma
    <3> QED BY <1>i, <3>1 DEF SinActivados, Suma
  <2>6. ASSUME fallos' = 0, NEW s \in Servicios PROVE ConUltima(s)'
    <3>1. fallos = 0 /\ ConUltima(s) BY <1>i, <2>1, <2>6 DEF Escriben, cuentas
    <3>2. CASE GuardarRenovacion(h)
      <4> DEFINE q == peticion[h]
                 r == Append(renovacion[q.s], NuevaRenovacion)
      <4>1. renovacion' = [renovacion EXCEPT ![q.s] = r] /\ q.en = "nueva"
        BY <3>2 DEF GuardarRenovacion
      <4>2. /\ DOMAIN renovacion = Servicios /\ q.s \in Servicios
            /\ renovacion[q.s] \in Seq(Renovacion) /\ NuevaRenovacion.ultima
        BY <4>1 DEF TipoInv, PeticionesBien, PeticionBien, TablasBien, NuevaRenovacion
      <4>3. r[Len(r)].ultima BY <4>2
      <4>4. s = q.s => renovacion'[s] = r BY <4>1, <4>2
      <4>5. s # q.s => renovacion'[s] = renovacion[s] BY <4>1, <4>2
      <4>6. s # q.s => \A g \in Hilos : ~(peticion[g].en = "nueva" /\ peticion[g].s = s)
        BY <2>2, <4>1 DEF Ocupada
      <4> HIDE DEF r, q
      <4>7. s # q.s => renovacion[s] = <<>> \/ renovacion[s][Len(renovacion[s])].ultima
        BY <3>1, <4>6 DEF ConUltima
      <4>8. renovacion'[s] = <<>> \/ renovacion'[s][Len(renovacion'[s])].ultima
        BY <4>3, <4>4, <4>5, <4>7
      <4> QED BY <4>8 DEF ConUltima
    <3>3. CASE BajaAnterior(h)
      <4>1. s = peticion[h].s \/ renovacion'[s] = renovacion[s]
        <5>1. ~GuardarRenovacion(h) BY <3>3 DEF BajaAnterior, GuardarRenovacion
        <5> QED BY <1>2, <1>i, <2>1, <5>1, RenuevaTablas
      <4>2. peticion'[h].en = "nueva" /\ peticion'[h].s = peticion[h].s
            /\ peticion[h].en = "baja"
        <5>1. Seguir(h, "nueva") /\ peticion[h].en = "baja" BY <3>3 DEF BajaAnterior
        <5>2. peticion'[h] = [peticion[h] EXCEPT !.en = "nueva"]
          BY <5>1, MueveSeguir DEF TipoInv
        <5>3. DOMAIN peticion[h] = Campos BY DEF TipoInv, PeticionesBien, PeticionBien
        <5> QED BY <5>1, <5>2, <5>3 DEF Campos
      <4>3. CASE s = peticion[h].s BY <4>2, <4>3 DEF ConUltima
      <4>4. CASE s # peticion[h].s
        <5>1. \A g \in Hilos : ~(peticion[g].en = "nueva" /\ peticion[g].s = s)
          BY <2>2, <4>2 DEF Ocupada
        <5>2. renovacion[s] = <<>> \/ renovacion[s][Len(renovacion[s])].ultima
          BY <3>1, <5>1 DEF ConUltima
        <5> QED BY <4>1, <4>4, <5>2 DEF ConUltima
      <4> QED BY <4>3, <4>4
    <3>4. CASE renovacion' = renovacion /\ ~GuardarRenovacion(h)
      <4>1. ~(peticion[h].en = "nueva")
        BY <1>2, <3>4 DEF Atender, ContarVivos, EscribirProveedor, ContarEstacion, LeerEstacion,
       GuardarEstacion, BuscarEstacion, GuardarServicio, LeerServicio, EscribirServicio,
       isFirstRenovation, LeerAnterior, BajaAnterior, LeerRenovacion,
       BorrarRenovacion, ExisteNumero, LeerProveedor, Verificar, ContarYEmitir, GuardarMaestro,
       GuardarSecundarios, LeerMaestro, ActualizarMaestro, LeerBaja, BuscarFila, BorrarFila,
       BorrarMaestro, BuscarModificatorios, CancelarModificatorio, CancelarMaestro, AvisarBaja,
       LeerParaExtender, InsertarModificatorio, LeerModificatorio, CorregirModificatorio,
       LeerMaestroExtendido, ContarPorTermino, LeerTipos, LeerParaCambiar, changeStatus,
       LeerVencidos, TerminarMaestro, LeerVigentes, LeerProveedores, ContarDeProveedor
      <4>2. renovacion[s] = <<>> \/ renovacion[s][Len(renovacion[s])].ultima
        BY <2>2, <3>1, <4>1 DEF ConUltima, Ocupada
      <4> QED BY <3>4, <4>2 DEF ConUltima
    <3> QED BY <1>2, <1>i, <2>1, <3>2, <3>3, <3>4, RenuevaTablas
  <2> QED BY <2>2, <2>3, <2>4, <2>5, <2>6
<1>3. ASSUME NEW k \in DOMAIN eventos, Maneja(k) PROVE bien
  <2>1. UNCHANGED <<peticion, fallos>> /\ SigueEvento(k)
    BY <1>3, SigueManejar DEF Maneja, cuentas
  <2>2. eventos[k].clase # "servicio.activado" BY <1>i DEF SinActivados
  <2>3. UNCHANGED renovacion
    BY <1>3, <2>2 DEF Maneja, Manejar, ManejarProveedor, ManejarRenovacion, LeerRed,
                      BuscarPorConmutar, Conmutar, Releer, CambiarServicio, red
  <2>4. SinActivados' BY <1>i, <2>1, <2>2 DEF SinActivados, SigueEvento
  <2>5. \A g \in Hilos : peticion'[g] = peticion[g] BY <2>1
  <2> QED BY <1>a, <1>b, <1>c, <2>1, <2>3, <2>4, <2>5
<1>4. ASSUME Falla PROVE bien
  <2>1. UNCHANGED renovacion /\ fallos' = fallos + 1 /\ SinActivados'
    BY <1>4, <1>i DEF Falla, SinActivados
  <2>2. fallos' # 0
    <3>1. fallos \in Nat BY DEF TipoInv, CuentasBien
    <3> QED BY <2>1, <3>1
  <2>3. ASSUME NEW g \in Hilos, Ocupada(g)', peticion'[g] # peticion[g]
        PROVE  SabeDeRenovaciones(peticion[g])'
    <3>1. /\ peticion[g].en = "secundarios"
          /\ peticion'[g] = [peticion[g] EXCEPT !.en = "leerBaja"]
      BY <1>4, <1>l, <2>3 DEF Falla, Ocupada
    <3>2. DOMAIN peticion[g] = Campos BY DEF TipoInv, PeticionesBien, PeticionBien
    <3>3. peticion'[g].en = "leerBaja" BY <3>1, <3>2 DEF Campos
    <3> QED BY <3>3 DEF SabeDeRenovaciones
  <2> QED BY <1>a, <1>b, <2>1, <2>2, <2>3
<1>5. ASSUME UNCHANGED todo PROVE bien
  <2>1. UNCHANGED <<renovacion, eventos, peticion, fallos>> BY <1>5 DEF todo, red, cuentas
  <2>2. \A g \in Hilos : peticion'[g] = peticion[g] BY <2>1
  <2>3. SinActivados' BY <1>i, <2>1 DEF SinActivados
  <2> QED BY <1>a, <1>b, <1>c, <2>1, <2>2, <2>3
<1> QED BY <1>0, <1>1, <1>2, <1>3, <1>4, <1>5 DEF EnSerie

LEMMA RenuevaInit == InitContratos => RenuevaInv
<1> SUFFICES ASSUME InitContratos PROVE RenuevaInv OBVIOUS
<1>1. /\ eventos = <<>> /\ peticion = [h \in Hilos |-> SinPeticion]
      /\ renovacion = [s \in Servicios |->
           IF s \in DOMAIN Iniciales THEN <<NuevaRenovacion>> ELSE <<>>]
  BY DEF InitContratos
<1>2. /\ SinPeticion.en = "libre" /\ DOMAIN eventos = {}
      /\ NuevaRenovacion.existe /\ NuevaRenovacion.ultima /\ NuevaRenovacion.estatus
  BY <1>1 DEF SinPeticion, NuevaRenovacion
<1>3. ASSUME NEW s \in Servicios PROVE UltimaAlFinal(s) /\ ConUltima(s)
  <2> DEFINE una == <<NuevaRenovacion>>
  <2>1. DOMAIN una = 1..1 /\ Len(una) = 1 /\ una[1] = NuevaRenovacion OBVIOUS
  <2>2. \A n \in 1..1 : n = 1 OBVIOUS
  <2>3. renovacion[s] = una \/ renovacion[s] = <<>> BY <1>1
  <2> HIDE DEF una
  <2>4. CASE renovacion[s] = una BY <1>2, <2>1, <2>2, <2>4 DEF UltimaAlFinal, ConUltima
  <2>5. CASE renovacion[s] = <<>>
    <3>1. DOMAIN renovacion[s] = {} BY <2>5
    <3> QED BY <2>5, <3>1 DEF UltimaAlFinal, ConUltima
  <2> QED BY <2>3, <2>4, <2>5
<1> QED BY <1>1, <1>2, <1>3 DEF RenuevaInv, SinActivados, Ocupada

LEMMA RenuevaBasta ==
  ASSUME TipoInv, RenuevaInv
  PROVE  UnaUltimaRenovacion
<1> SUFFICES ASSUME incidentes = 0, NEW s \in Servicios
             PROVE  /\ Cardinality(Ultimas(s)) <= 1
                    /\ Tranquilo /\ Renovaciones(s) # {} =>
                         \E n \in Ultimas(s) : n = Max(Renovaciones(s)) /\ renovacion[s][n].estatus
  BY DEF UnaUltimaRenovacion
<1> DEFINE k == Len(renovacion[s])
<1>1. UltimaAlFinal(s) /\ (fallos = 0 => ConUltima(s)) BY DEF RenuevaInv
<1>2. k \in Nat /\ DOMAIN renovacion[s] = 1..k BY DEF TipoInv, TablasBien
<1>3. Cardinality(Ultimas(s)) <= 1
  <2>1. Ultimas(s) \subseteq {k} BY <1>1 DEF Ultimas, UltimaAlFinal
  <2>2. IsFiniteSet({k}) /\ Cardinality({k}) = 1 BY FS_Singleton
  <2> QED BY <2>1, <2>2, FS_Subset
<1>4. ASSUME Tranquilo, Renovaciones(s) # {}
      PROVE  \E n \in Ultimas(s) : n = Max(Renovaciones(s)) /\ renovacion[s][n].estatus
  <2>1. Renovaciones(s) = 1..k BY <1>1, <1>2 DEF Renovaciones, UltimaAlFinal
  <2>2. k \in 1..k BY <1>2, <1>4, <2>1
  <2>3. Max(1..k) = k BY <1>2, <2>2 DEF Max
  <2>4. renovacion[s][k].ultima
    <3>1. fallos = 0 /\ \A h \in Hilos : peticion[h].en = "libre"
      BY <1>4 DEF Tranquilo, Quieto, TipoInv, CuentasBien
    <3>2. renovacion[s] # <<>> BY <1>2, <2>2
    <3> QED BY <1>1, <3>1, <3>2 DEF ConUltima
  <2> QED BY <1>1, <1>2, <2>1, <2>2, <2>3, <2>4 DEF Ultimas, UltimaAlFinal
<1> QED BY <1>3, <1>4

\* Without overlaps a service never has two last renewals, and when nothing
\* failed the latest of its renewals is the last one: the former one is retired
\* before the next is inserted, and only the request that retired it inserts it.
THEOREM RenovacionesUnicas == SpecContratos => []UnaUltimaRenovacion
<1> DEFINE Inv == TipoInv /\ Turno /\ RenuevaInv
<1>1. InitContratos => Inv BY TipoInit, TurnoInit, RenuevaInit
<1>2. Inv /\ [NextContratos]_todo => Inv' BY TipoNext, TurnoNext, RenuevaNext
<1>3. Inv => UnaUltimaRenovacion BY RenuevaBasta
<1> QED BY <1>1, <1>2, <1>3, PTL DEF SpecContratos

(* The daily job. *)

FasesDelDia == {"vencidos", "terminar", "vigentes", "proveedores", "contarDeProveedor"}
DeProveedores == {"enable-provider", "disable-provider"}

SinVencidos == \A m \in MaestrosVivos : ~Vencido(m)

SabeDelDia(q) ==
  /\ q.en = "terminar" => \A m \in MaestrosVivos : Vencido(m) => m \in q.lista
  /\ q.en \in {"vigentes", "proveedores", "contarDeProveedor"} => SinVencidos
  /\ q.en = "contarDeProveedor" => q.habilitado = proveedor
  /\ q.en \in FasesDelDia => \A k \in DOMAIN eventos : eventos[k].clase \notin DeProveedores

\* The job did all that it had to, or asked for it.
DiaRevisado ==
  /\ \A h \in Hilos : ~Ocupada(h)
  /\ SinVencidos
  /\ \A k \in DOMAIN eventos : eventos[k].clase # "enable-provider"
  /\ proveedor /\ MaestrosVivos = {} =>
       \E k \in DOMAIN eventos : eventos[k].clase = "disable-provider"

\* The handlers of the provider have two steps.
DosPasos ==
  \A k \in DOMAIN eventos : eventos[k].clase \in DeProveedores =>
                              eventos[k].en \in {"inicio", "escribir"}

VenceInv ==
  incidentes = 0 /\ fallos = 0 =>
    /\ \A h \in Hilos : Ocupada(h) => SabeDelDia(peticion[h])
    /\ DosPasos
    /\ revisado => DiaRevisado

\* Nothing that Vencido looks at changes, for the contracts that stay live.
LEMMA VencidoIgual ==
  ASSUME UNCHANGED <<modificatorio, hoy>>, NEW m, HayMaestro(m), HayMaestro(m)'
  PROVE  Vencido(m)' <=> Vencido(m)
<1>1. ProrrogasDe(m)' = ProrrogasDe(m)
  BY DEF ProrrogasDe, ModificatoriosDe, HayModificatorio
<1> QED BY <1>1 DEF Vencido

LEMMA VivosHay == \A m \in MaestrosVivos : m \in Maestros /\ HayMaestro(m)
BY DEF MaestrosVivos, HayMaestro, ESTATUS_DE_CONTRATO

LEMMA SinVencidosIgual ==
  ASSUME UNCHANGED <<modificatorio, hoy, maestro>>
  PROVE  /\ SinVencidos' <=> SinVencidos
         /\ MaestrosVivos' = MaestrosVivos
         /\ \A m \in Maestros : Vencido(m)' <=> Vencido(m)
<1>1. MaestrosVivos' = MaestrosVivos /\ \A m \in Maestros : HayMaestro(m)' <=> HayMaestro(m)
  BY DEF MaestrosVivos, HayMaestro
<1>2. ASSUME NEW m \in Maestros PROVE Vencido(m)' <=> Vencido(m)
  <2>1. CASE HayMaestro(m) BY <1>1, <2>1, VencidoIgual
  <2>2. CASE ~HayMaestro(m)
    <3>1. ~HayMaestro(m)' BY <1>1, <2>2
    <3> QED BY <2>2, <3>1 DEF Vencido
  <2> QED BY <2>1, <2>2
<1>3. \A m \in MaestrosVivos : m \in Maestros BY DEF MaestrosVivos
<1> QED BY <1>1, <1>2, <1>3 DEF SinVencidos

LEMMA VenceSabe ==
  ASSUME TipoInv, NEW h \in Hilos, Atender(h), SabeDelDia(peticion[h]), Ocupada(h)'
  PROVE  SabeDelDia(peticion[h])'
<1> DEFINE q == peticion[h]
           r == peticion'[h]
<1>0. SinPeticion.en = "libre" BY DEF SinPeticion
<1>1. Sigue(h) /\ r # SinPeticion BY <1>0, SigueAtender DEF Ocupada
<1>2. DOMAIN q = Campos /\ DOMAIN peticion = Hilos
  BY DEF TipoInv, PeticionesBien, PeticionBien
<1>3. ASSUME r.en \in FasesDelDia
      PROVE  SabeDelDia(peticion[h])'
  <2>1. /\ r.en # "vencidos"
        /\ LeerVencidos(h) \/ TerminarMaestro(h) \/ LeerVigentes(h) \/ LeerProveedores(h)
    BY <1>1, <1>3 DEF Sigue, FasesDelDia
  <2>2. q.en \in FasesDelDia
    BY <2>1 DEF LeerVencidos, TerminarMaestro, LeerVigentes, LeerProveedores, FasesDelDia
  <2>3. \A k \in DOMAIN eventos' : eventos'[k].clase \notin DeProveedores
    <3>1. eventos' = eventos \/ Suma({"disable-stations"})
      BY <2>1, SumanEnAtender DEF LeerVencidos, TerminarMaestro, LeerProveedores
    <3> QED BY <2>2, <3>1 DEF SabeDelDia, Suma, DeProveedores
  <2>4. CASE LeerVencidos(h)
    <3> DEFINE vencidos == {m \in Maestros : Vencido(m)}
               porTerminar == {m \in vencidos : maestro[m].estatus \in Vivos}
               tipos == UNION {maestro[m].tipos : m \in porTerminar}
               quedan == \E m \in Maestros : HayMaestro(m) /\ Vence[m] < hoy
               en == IF porTerminar # {} THEN "terminar"
                     ELSE IF quedan THEN "vigentes" ELSE "proveedores"
    <3>1. /\ peticion' = [peticion EXCEPT ![h].lista = porTerminar, ![h].tipos = tipos,
                                          ![h].en = en]
          /\ UNCHANGED <<maestro, modificatorio, hoy>>
      BY <2>4 DEF LeerVencidos, contratos, dia
    <3>2. \A m \in MaestrosVivos : Vencido(m) => m \in porTerminar BY DEF MaestrosVivos
    <3>3. /\ porTerminar # {} => en = "terminar"
          /\ en \in {"terminar", "vigentes", "proveedores"}
      <4> HIDE DEF porTerminar, quedan
      <4> QED OBVIOUS
    <3> HIDE DEF porTerminar, tipos, en
    <3>4. r.lista = porTerminar /\ r.en = en BY <1>2, <3>1 DEF Campos
    <3>5. r.en \in {"vigentes", "proveedores", "contarDeProveedor"} => SinVencidos
      BY <3>2, <3>3, <3>4 DEF SinVencidos
    <3>6. r.en = "terminar" => \A m \in MaestrosVivos' : Vencido(m)' => m \in r.lista
      BY <3>1, <3>2, <3>4, SinVencidosIgual, VivosHay
    <3>7. SinVencidos' <=> SinVencidos BY <3>1, SinVencidosIgual
    <3> QED BY <2>3, <3>3, <3>4, <3>5, <3>6, <3>7 DEF SabeDelDia
  <2>5. CASE TerminarMaestro(h)
    <3>1. PICK m \in q.lista :
            /\ maestro' = ConEstatus(m, "TERMINADO")
            /\ peticion' = [peticion EXCEPT ![h].lista = @ \ {m},
                 ![h].en = IF peticion[h].lista = {m} THEN "vigentes" ELSE @]
      BY <2>5 DEF TerminarMaestro
    <3>2. UNCHANGED <<modificatorio, hoy>> /\ q.en = "terminar"
      BY <2>5 DEF TerminarMaestro, dia
    <3>3. /\ r.lista = q.lista \ {m} /\ r.en = IF q.lista = {m} THEN "vigentes" ELSE "terminar"
      BY <1>2, <3>1, <3>2 DEF Campos
    <3>4. ASSUME NEW x \in MaestrosVivos', Vencido(x)'
          PROVE  x \in q.lista \ {m}
      <4>1. x \in Maestros /\ HayMaestro(x)'
        BY DEF MaestrosVivos, HayMaestro, ESTATUS_DE_CONTRATO
      <4>2. x # m
        <5>1. ASSUME x = m PROVE FALSE
          <6>1. DOMAIN maestro = Maestros /\ DOMAIN maestro[x] = {"estatus", "tipos"}
            BY <4>1 DEF TipoInv, TablasBien
          <6>2. maestro'[x].estatus \in Vivos BY DEF MaestrosVivos
          <6>3. maestro'[x].estatus = "TERMINADO" \/ (~HayMaestro(x) /\ maestro' = maestro)
            BY <3>1, <4>1, <5>1, <6>1 DEF ConEstatus
          <6> QED BY <6>2, <6>3, BorradoNoVive DEF HayMaestro, ESTATUS_DE_CONTRATO
        <5> QED BY <5>1
      <4>3. maestro'[x] = maestro[x]
        BY <3>1, <4>1, <4>2 DEF ConEstatus, TipoInv, TablasBien
      <4>4. x \in MaestrosVivos /\ HayMaestro(x)
        BY <4>1, <4>3 DEF MaestrosVivos, HayMaestro
      <4>5. Vencido(x) BY <3>2, <3>4, <4>1, <4>4, VencidoIgual
      <4> QED BY <3>2, <4>2, <4>4, <4>5 DEF SabeDelDia
    <3>5. r.en = "vigentes" => SinVencidos' BY <3>3, <3>4 DEF SinVencidos
    <3>6. r.en = "terminar" => \A x \in MaestrosVivos' : Vencido(x)' => x \in r.lista
      BY <3>3, <3>4
    <3> QED BY <2>3, <3>3, <3>5, <3>6 DEF SabeDelDia
  <2>6. CASE LeerVigentes(h)
    <3>1. /\ UNCHANGED <<maestro, modificatorio, hoy>> /\ q.en = "vigentes"
          /\ peticion' = [peticion EXCEPT ![h].en = "proveedores", ![h].tipos = {}]
      BY <2>6 DEF LeerVigentes, contratos, dia
    <3>2. r.en = "proveedores" BY <1>2, <3>1 DEF Campos
    <3>3. SinVencidos' BY <3>1, SinVencidosIgual DEF SabeDelDia
    <3> QED BY <2>3, <3>2, <3>3 DEF SabeDelDia
  <2>7. CASE LeerProveedores(h)
    <3>1. /\ UNCHANGED <<maestro, modificatorio, hoy, proveedor>> /\ q.en = "proveedores"
          /\ peticion' = [peticion EXCEPT ![h].en = "contarDeProveedor",
                                          ![h].habilitado = proveedor]
      BY <2>7 DEF LeerProveedores, contratos, dia
    <3>2. r.en = "contarDeProveedor" /\ r.habilitado = proveedor' BY <1>2, <3>1 DEF Campos
    <3>3. SinVencidos' BY <3>1, SinVencidosIgual DEF SabeDelDia
    <3> QED BY <2>3, <3>2, <3>3 DEF SabeDelDia
  <2> QED BY <2>1, <2>4, <2>5, <2>6, <2>7
<1> QED BY <1>3 DEF SabeDelDia, FasesDelDia

LEMMA VenceAtender ==
  ASSUME TipoInv, NEW h \in Hilos, Atender(h), Sola(h), SabeDelDia(peticion[h]), DosPasos,
         revisado => DiaRevisado
  PROVE  DosPasos' /\ (revisado' => DiaRevisado')
<1>0. Escriben(h) /\ Mueve(h) BY EscribenEnAtender, MueveAtender
<1>1. DosPasos'
  <2> DEFINE clases == {"enable-provider", "enable-stations", "disable-provider",
                        "disable-stations", "servicio.activado"}
  <2>1. eventos' = eventos \/ Suma(clases) BY <1>0, SumanEnAtender DEF Escriben, Suma
  <2> HIDE DEF clases
  <2> QED BY <2>1 DEF DosPasos, Suma
<1>2. ~revisado BY DEF DiaRevisado, Sola
<1>3. ASSUME revisado' PROVE DiaRevisado'
  <2>1. ContarDeProveedor(h) BY <1>0, <1>2, <1>3 DEF Escriben
  <2> DEFINE v == DeProveedor("disable-provider")
             c == countActiveContracts = 0 /\ peticion[h].habilitado
  <2>2. /\ peticion[h].en = "contarDeProveedor" /\ Responder(h)
        /\ Emitir(IF c THEN <<v>> ELSE <<>>)
        /\ UNCHANGED <<proveedor, maestro, modificatorio, hoy>>
    BY <2>1 DEF ContarDeProveedor, contratos
  <2>3. SinVencidos /\ peticion[h].habilitado = proveedor
        /\ \A k \in DOMAIN eventos : eventos[k].clase \notin DeProveedores
    BY <2>2 DEF SabeDelDia, FasesDelDia
  <2>4. \A g \in Hilos : ~Ocupada(g)'
    BY <1>0, <2>2, MueveResponder DEF TipoInv, Sola, Ocupada, Mueve
  <2>5. SinVencidos' /\ MaestrosVivos' = MaestrosVivos BY <2>2, <2>3, SinVencidosIgual
  <2>6. \A k \in DOMAIN eventos' : eventos'[k].clase # "enable-provider"
    <3>1. Suma({"disable-provider"}) BY <2>1, SumanEnAtender
    <3> QED BY <2>3, <3>1 DEF Suma, DeProveedores
  <2>7. ASSUME proveedor', MaestrosVivos' = {}
        PROVE  \E k \in DOMAIN eventos' : eventos'[k].clase = "disable-provider"
    <3>1. c BY <2>2, <2>3, <2>5, <2>7, FS_EmptySet DEF countActiveContracts
    <3> DEFINE uno == <<v>>
    <3>2. Emitir(uno) BY <2>2, <3>1
    <3>3. uno \in Seq({v}) /\ 1 \in DOMAIN uno /\ uno[1] = v OBVIOUS
    <3>4. v.clase = "disable-provider" BY ClasesDeEventos
    <3> HIDE DEF uno, v
    <3>5. \E k \in DOMAIN eventos' : eventos'[k] = uno[1]
      BY <3>2, <3>3, SeSumanEventos DEF TipoInv, EventosBien, Cola
    <3> QED BY <3>3, <3>4, <3>5
  <2> QED BY <2>4, <2>5, <2>6, <2>7 DEF DiaRevisado
<1> QED BY <1>1, <1>3

LEMMA VenceManeja ==
  ASSUME TipoInv, NEW k \in DOMAIN eventos, Maneja(k), DosPasos, revisado => DiaRevisado
  PROVE  /\ DosPasos' /\ (revisado' => DiaRevisado')
         /\ \A h \in Hilos : SabeDelDia(peticion[h]) => SabeDelDia(peticion[h])'
<1>0. SigueEvento(k) /\ Manejar(k) /\ UNCHANGED <<maestro, modificatorio, hoy, revisado, peticion>>
  BY SigueManejar DEF Maneja
<1>1. eventos[k].clase \in DeProveedores => ManejarProveedor(k)
  <2>1. ASSUME eventos[k].clase \in DeProveedores, ~ManejarProveedor(k) PROVE FALSE
    <3>1. eventos[k].en \in {"inicio", "escribir"} BY <2>1 DEF DosPasos
    <3> QED BY <1>0, <2>1, <3>1 DEF Manejar, ManejarRenovacion, LeerRed, BuscarPorConmutar,
                                    Conmutar, Releer, CambiarServicio, DeProveedores
  <2> QED BY <2>1
<1>2. ~ManejarProveedor(k) => proveedor' = proveedor
  BY <1>0 DEF Manejar, ManejarRenovacion, LeerRed, BuscarPorConmutar, Conmutar, Releer,
              CambiarServicio
<1>3. ManejarProveedor(k) => eventos[k].clase \in DeProveedores
  BY DEF ManejarProveedor, DeProveedores
<1>4. DosPasos' BY <1>0, <1>1 DEF DosPasos, SigueEvento, DeProveedores
<1>5. /\ SinVencidos' <=> SinVencidos
      /\ MaestrosVivos' = MaestrosVivos
      /\ \A m \in Maestros : Vencido(m)' <=> Vencido(m)
  BY <1>0, SinVencidosIgual
<1>6. ASSUME revisado' PROVE DiaRevisado'
  <2>1. DiaRevisado BY <1>0, <1>6
  <2>2. /\ \A h \in Hilos : ~Ocupada(h)'
        /\ SinVencidos'
    BY <1>0, <1>5, <2>1 DEF DiaRevisado, Ocupada
  <2>3. \A j \in DOMAIN eventos' : eventos'[j].clase # "enable-provider"
    BY <1>0, <2>1 DEF SigueEvento, DiaRevisado
  <2>4. ASSUME proveedor', MaestrosVivos' = {}
        PROVE  \E j \in DOMAIN eventos' : eventos'[j].clase = "disable-provider"
    <3>1. CASE ManejarProveedor(k)
      <4>1. eventos[k].clase = "disable-provider"
        BY <1>3, <2>1, <3>1 DEF DiaRevisado, DeProveedores
      <4>2. Permitido(eventos[k].clase)
        <5>1. countActiveContracts = 0 BY <1>5, <2>4, FS_EmptySet DEF countActiveContracts
        <5> QED BY <4>1, <5>1 DEF Permitido, Habilita
      <4>3. eventos' = [eventos EXCEPT ![k].en = "escribir"]
        BY <2>4, <3>1, <4>1, <4>2 DEF ManejarProveedor, Habilita
      <4> DEFINE w == [eventos[k] EXCEPT !.en = "escribir"]
      <4>4. w.clase = eventos[k].clase /\ eventos' = [eventos EXCEPT ![k] = w]
        BY <4>3 DEF TipoInv, EventosBien, EventoBien, CamposDeEvento
      <4> HIDE DEF w
      <4>5. k \in DOMAIN eventos' /\ eventos'[k] = w BY <4>4
      <4> QED BY <4>1, <4>4, <4>5
    <3>2. CASE ~ManejarProveedor(k)
      <4>1. proveedor /\ MaestrosVivos = {} BY <1>2, <1>5, <2>4, <3>2
      <4>2. PICK i \in DOMAIN eventos : eventos[i].clase = "disable-provider"
        BY <2>1, <4>1 DEF DiaRevisado
      <4>3. i # k BY <1>1, <3>2, <4>2 DEF DeProveedores
      <4> QED BY <1>0, <4>2, <4>3 DEF SigueEvento
    <3> QED BY <3>1, <3>2
  <2> QED BY <2>2, <2>3, <2>4 DEF DiaRevisado
<1>7. ASSUME NEW h \in Hilos, SabeDelDia(peticion[h]) PROVE SabeDelDia(peticion[h])'
  <2>1. peticion'[h] = peticion[h] BY <1>0
  <2>2. ASSUME peticion[h].en \in FasesDelDia
        PROVE  /\ proveedor' = proveedor
               /\ \A j \in DOMAIN eventos' : eventos'[j].clase \notin DeProveedores
    <3>1. \A i \in DOMAIN eventos : eventos[i].clase \notin DeProveedores
      BY <1>7, <2>2 DEF SabeDelDia
    <3>2. ~ManejarProveedor(k) BY <1>3, <3>1
    <3> QED BY <1>0, <1>2, <3>1, <3>2 DEF SigueEvento, DeProveedores
  <2>3. \A m \in MaestrosVivos' : m \in MaestrosVivos /\ (Vencido(m)' <=> Vencido(m))
    BY <1>5, VivosHay
  <2> QED BY <1>5, <1>7, <2>1, <2>2, <2>3 DEF SabeDelDia, FasesDelDia
<1> QED BY <1>4, <1>6, <1>7

LEMMA VenceNext ==
  ASSUME TipoInv, Turno, VenceInv, [NextContratos]_todo
  PROVE  VenceInv'
<1> DEFINE saben == \A h \in Hilos : Ocupada(h)' => SabeDelDia(peticion[h])'
           bien == saben /\ DosPasos' /\ (revisado' => DiaRevisado')
<1> SUFFICES ASSUME incidentes' = 0, fallos' = 0 PROVE bien BY DEF VenceInv
<1>0. incidentes = 0 /\ EnSerie /\ fallos \in Nat
  BY IncidentesSuben, PasoEnSerie DEF TipoInv, CuentasBien
<1>1. ASSUME NEW h \in Hilos, LlegaSola(h) PROVE bien
  <2>1. /\ Quieto /\ UNCHANGED eventos /\ revisado' = FALSE
        /\ \E r : /\ peticion' = [peticion EXCEPT ![h] = r]
                  /\ PideContrato(r) \/ PideRed(r) \/ (r.op = "diario" /\ r.en = "vencidos")
    BY <1>1 DEF LlegaSola
  <2>2. PICK r : /\ peticion' = [peticion EXCEPT ![h] = r]
                 /\ PideContrato(r) \/ PideRed(r) \/ (r.op = "diario" /\ r.en = "vencidos")
    BY <2>1
  <2>3. peticion'[h] = r /\ \A g \in Hilos : g # h => ~Ocupada(g)'
    BY <2>1, <2>2 DEF Quieto, Ocupada, TipoInv, PeticionesBien
  <2>4. r.en \notin {"terminar", "vigentes", "proveedores", "contarDeProveedor"}
    BY <2>2 DEF PideContrato, PideRed
  <2>5. eventos = <<>> /\ eventos' = <<>> BY <2>1 DEF Quieto
  <2>6. DOMAIN eventos' = {} BY <2>5
  <2>7. saben BY <2>3, <2>4, <2>6 DEF SabeDelDia
  <2>8. DosPasos' BY <2>6 DEF DosPasos
  <2> QED BY <2>1, <2>7, <2>8
<1>2. ASSUME NEW h \in Hilos, Atender(h), Sola(h) PROVE bien
  <2>1. Ocupada(h) /\ Escriben(h) /\ Mueve(h)
    BY <1>2, EscribenEnAtender, MueveAtender DEF Sola
  <2>2. fallos = 0 BY <2>1 DEF Escriben, cuentas
  <2>3. SabeDelDia(peticion[h]) /\ DosPasos /\ (revisado => DiaRevisado)
    BY <1>0, <2>1, <2>2 DEF VenceInv
  <2>4. \A g \in Hilos : g # h => ~Ocupada(g)' BY <1>2, <2>1 DEF Mueve, Sola, Ocupada
  <2>5. Ocupada(h)' => SabeDelDia(peticion[h])' BY <1>2, <2>3, VenceSabe
  <2> QED BY <1>2, <2>3, <2>4, <2>5, VenceAtender
<1>3. ASSUME NEW k \in DOMAIN eventos, Maneja(k) PROVE bien
  <2>1. UNCHANGED <<peticion, fallos>> BY <1>3 DEF Maneja, cuentas
  <2>2. /\ DosPasos /\ (revisado => DiaRevisado)
        /\ \A h \in Hilos : Ocupada(h) => SabeDelDia(peticion[h])
    BY <1>0, <2>1 DEF VenceInv
  <2>3. /\ DosPasos' /\ (revisado' => DiaRevisado')
        /\ \A h \in Hilos : SabeDelDia(peticion[h]) => SabeDelDia(peticion[h])'
    BY <1>3, <2>2, VenceManeja
  <2>4. \A h \in Hilos : Ocupada(h)' => Ocupada(h) BY <2>1 DEF Ocupada
  <2> QED BY <2>2, <2>3, <2>4
<1>4. ASSUME Falla PROVE FALSE
  <2>1. fallos' = fallos + 1 BY <1>4 DEF Falla
  <2> QED BY <1>0, <2>1
<1>5. ASSUME UNCHANGED todo PROVE bien
  <2>1. UNCHANGED <<proveedor, maestro, modificatorio, hoy, revisado, eventos, peticion, fallos>>
    BY <1>5 DEF todo, contratos, dia, cuentas
  <2>2. /\ DosPasos /\ (revisado => DiaRevisado)
        /\ \A h \in Hilos : Ocupada(h) => SabeDelDia(peticion[h])
    BY <1>0, <2>1 DEF VenceInv
  <2>3. /\ SinVencidos' <=> SinVencidos
        /\ MaestrosVivos' = MaestrosVivos
        /\ \A m \in Maestros : Vencido(m)' <=> Vencido(m)
    BY <2>1, SinVencidosIgual
  <2>4. \A m \in MaestrosVivos : m \in Maestros BY DEF MaestrosVivos
  <2>5. saben
    <3>1. ASSUME NEW h \in Hilos, Ocupada(h)' PROVE SabeDelDia(peticion[h])'
      <4>1. Ocupada(h) /\ peticion'[h] = peticion[h] BY <2>1, <3>1 DEF Ocupada
      <4>2. SabeDelDia(peticion[h]) BY <2>2, <4>1
      <4> QED BY <2>1, <2>3, <2>4, <4>1, <4>2 DEF SabeDelDia
    <3> QED BY <3>1
  <2>6. DosPasos' BY <2>1, <2>2 DEF DosPasos
  <2>7. revisado' => DiaRevisado' BY <2>1, <2>2, <2>3 DEF DiaRevisado, Ocupada
  <2> QED BY <2>5, <2>6, <2>7
<1> QED BY <1>0, <1>1, <1>2, <1>3, <1>4, <1>5 DEF EnSerie

LEMMA VenceInit == InitContratos => VenceInv
<1> SUFFICES ASSUME InitContratos PROVE VenceInv OBVIOUS
<1>1. eventos = <<>> /\ peticion = [h \in Hilos |-> SinPeticion] /\ revisado = FALSE
  BY DEF InitContratos
<1>2. SinPeticion.en = "libre" /\ DOMAIN eventos = {} BY <1>1 DEF SinPeticion
<1>3. DosPasos /\ \A h \in Hilos : ~Ocupada(h) BY <1>1, <1>2 DEF DosPasos, Ocupada
<1> QED BY <1>1, <1>3 DEF VenceInv

\* The largest of some numbers up to n is one of them, and none exceeds it.
LEMMA MaximoEsta ==
  ASSUME NEW n \in Nat, NEW S \in SUBSET (1..n), S # {}
  PROVE  Max(S) \in S /\ \A y \in S : Max(S) >= y
<1> DEFINE Mayores(x) == {y \in S : y > x}
           F == {Mayores(x) : x \in S}
           M == {T \in F : TRUE}
<1>1. IsFiniteSet(S)
  <2>1. IsFiniteSet(1..n) BY FS_Interval
  <2> QED BY <2>1, FS_Subset
<1>2. M \in SUBSET SUBSET S /\ M # {} OBVIOUS
<1>3. PICK T \in M : \A U \in M : U \subseteq T => U = T
  <2> HIDE DEF M
  <2>1. IsWellFoundedOn(StrictSubsetOrdering(S), FiniteSubsetsOf(S))
    BY <1>1, FS_StrictSubsetOrderingWellFounded
  <2>2. M \subseteq FiniteSubsetsOf(S) BY <1>1, <1>2, FS_FiniteSubsetsOfFinite
  <2>3. PICK T \in M : \A U \in M : ~(<<U, T>> \in StrictSubsetOrdering(S))
    <3> HIDE DEF FiniteSubsetsOf, StrictSubsetOrdering
    <3> QED BY <1>2, <2>1, <2>2, WFMin
  <2> QED BY <1>2, <2>3 DEF StrictSubsetOrdering
<1>4. PICK x \in S : T = Mayores(x) BY <1>3
<1>5. ASSUME NEW y \in S, y > x PROVE FALSE
  <2>1. Mayores(y) \in M OBVIOUS
  <2>2. Mayores(y) \subseteq T
    <3>1. ASSUME NEW z \in S, z > y PROVE z > x
      <4>1. x \in Int /\ y \in Int /\ z \in Int OBVIOUS
      <4> QED BY <1>5, <3>1, <4>1
    <3> QED BY <1>4, <3>1
  <2>3. Mayores(y) = T
    <3> HIDE DEF M, Mayores
    <3> QED BY <1>3, <2>1, <2>2
  <2> QED BY <1>4, <1>5, <2>3
<1>6. \A y \in S : x >= y BY <1>5
<1> QED BY <1>6 DEF Max

\* Undisturbed, a day whose job is done is as the property says.
LEMMA VenceBasta ==
  ASSUME TipoInv, VenceInv
  PROVE  VencidosTerminados
<1> SUFFICES ASSUME Tranquilo, revisado
             PROVE  /\ proveedor => MaestrosVivos # {}
                    /\ \A m \in MaestrosVivos :
                         \/ Vence[m] >= hoy
                         \/ \E i \in DOMAIN modificatorio :
                              /\ modificatorio[i].maestro = m /\ HayModificatorio(i)
                              /\ modificatorio[i].extension = "TIME"
                              /\ modificatorio[i].vence >= hoy
                              /\ \A j \in DOMAIN modificatorio :
                                   modificatorio[j].maestro = m /\ HayModificatorio(j)
                                     /\ modificatorio[j].extension = "TIME" => j <= i
  BY DEF VencidosTerminados
<1>1. DiaRevisado
  <2>1. incidentes = 0 /\ fallos = 0 BY DEF Tranquilo, TipoInv, CuentasBien
  <2> QED BY <2>1 DEF VenceInv
<1>2. eventos = <<>> /\ DOMAIN eventos = {}
  <2>1. eventos = <<>> BY DEF Tranquilo, Quieto
  <2> QED BY <2>1
<1>3. proveedor => MaestrosVivos # {} BY <1>1, <1>2 DEF DiaRevisado
<1>4. ASSUME NEW m \in MaestrosVivos, ~(Vence[m] >= hoy)
      PROVE  \E i \in DOMAIN modificatorio :
               /\ modificatorio[i].maestro = m /\ HayModificatorio(i)
               /\ modificatorio[i].extension = "TIME" /\ modificatorio[i].vence >= hoy
               /\ \A j \in DOMAIN modificatorio :
                    modificatorio[j].maestro = m /\ HayModificatorio(j)
                      /\ modificatorio[j].extension = "TIME" => j <= i
  <2> DEFINE S == ProrrogasDe(m)
  <2>1. m \in Maestros /\ HayMaestro(m) /\ ~Vencido(m)
    BY <1>1, VivosHay DEF DiaRevisado, SinVencidos
  <2>2. Vence[m] \in Nat /\ hoy \in Nat
    BY <2>1, ProveedorAssumption DEF TipoInv, CuentasBien, TablasBien
  <2>3. Vence[m] < hoy BY <1>4, <2>2
  <2>4. S # {} /\ ~(modificatorio[Max(S)].vence < hoy) BY <2>1, <2>3 DEF Vencido
  <2>5. \A i \in DOMAIN modificatorio : i \in S <=>
          /\ modificatorio[i].maestro = m /\ HayModificatorio(i)
          /\ modificatorio[i].extension = "TIME"
    BY DEF ProrrogasDe, ModificatoriosDe
  <2>6. /\ S \subseteq DOMAIN modificatorio /\ DOMAIN modificatorio = 1..Len(modificatorio)
        /\ Len(modificatorio) \in Nat
    BY DEF ProrrogasDe, ModificatoriosDe, TipoInv, TablasBien
  <2> HIDE DEF S
  <2>7. Max(S) \in S /\ \A y \in S : Max(S) >= y BY <2>4, <2>6, MaximoEsta
  <2> DEFINE i == Max(S)
  <2>8. i \in DOMAIN modificatorio /\ \A j \in S : j <= i BY <2>6, <2>7
  <2>9. modificatorio[i].vence \in Nat
    <3>1. modificatorio[i] \in Modificatorio BY <2>8 DEF TipoInv, TablasBien
    <3> QED BY <3>1, ProveedorAssumption DEF Modificatorio
  <2>10. modificatorio[i].vence >= hoy BY <2>2, <2>4, <2>9
  <2> HIDE DEF i
  <2> QED BY <2>5, <2>7, <2>8, <2>10 DEF i
<1> QED BY <1>3, <1>4

\* checkContractsExpiration and disableProvidersWithoutActiveContracts do what
\* they are for: undisturbed, once the job of the day is done no live contract
\* is past its last date and no provider is enabled without one.
THEOREM DiaTerminado == SpecContratos => []VencidosTerminados
<1> DEFINE Inv == TipoInv /\ Turno /\ VenceInv
<1>1. InitContratos => Inv BY TipoInit, TurnoInit, VenceInit
<1>2. Inv /\ [NextContratos]_todo => Inv' BY TipoNext, TurnoNext, VenceNext
<1>3. Inv => VencidosTerminados BY VenceBasta
<1> QED BY <1>1, <1>2, <1>3, PTL DEF SpecContratos

(* The services of the contracts. *)

\* The events that switch stations and services.
DeEstaciones == {"enable-stations", "disable-stations"}
DeServiciosVarios == {"enable-multiple-services", "disable-multiple-services"}
DeRed == DeEstaciones \cup DeServiciosVarios

\* The one event of those in the queue, or the empty one when there is none.
Unica(v) ==
  \/ v = Evento /\ \A j \in DOMAIN eventos : eventos[j].clase \notin DeRed
  \/ \E k \in DOMAIN eventos :
       /\ eventos[k] = v /\ v.clase \in DeRed
       /\ \A j \in DOMAIN eventos : eventos[j].clase \in DeRed => j = k

\* The one request in progress, or the empty one when there is none.
EnCurso(q) ==
  \/ q = SinPeticion /\ \A h \in Hilos : ~Ocupada(h)
  \/ \E h \in Hilos : Ocupada(h) /\ q = peticion[h]

LEMMA EventoVacio ==
  /\ Evento.clase = "-" /\ Evento.en = "inicio" /\ Evento.tipos = {} /\ Evento.servicios = {}
  /\ Evento.estaciones = {} /\ "-" \notin DeRed /\ "servicio.activado" \notin DeRed
  /\ DeRed \cap DeProveedores = {}
BY DEF Evento, DeRed, DeEstaciones, DeServiciosVarios, DeProveedores

LEMMA UnicaEs ==
  ASSUME NEW v, Unica(v)
  PROVE  /\ v = Evento => \A j \in DOMAIN eventos : eventos[j].clase \notin DeRed
         /\ \A k \in DOMAIN eventos : eventos[k].clase \in DeRed =>
              v = eventos[k] /\ \A j \in DOMAIN eventos : eventos[j].clase \in DeRed => j = k
BY EventoVacio DEF Unica

\* What is left of the queue without one of its events, index by index.
LEMMA SinUno ==
  ASSUME Cola, NEW k \in DOMAIN eventos
  PROVE  LET quedan == RemoveAt(eventos, k)
             i(j) == IF j < k THEN j ELSE j + 1
         IN  /\ \E V : quedan \in Seq(V)
             /\ \A j \in DOMAIN quedan :
                  i(j) \in DOMAIN eventos /\ i(j) # k /\ quedan[j] = eventos[i(j)]
             /\ \A a, b \in DOMAIN quedan : i(a) = i(b) => a = b
             /\ \A n \in DOMAIN eventos : n # k => \E j \in DOMAIN quedan : i(j) = n
<1> DEFINE quedan == RemoveAt(eventos, k)
           i(j) == IF j < k THEN j ELSE j + 1
<1>1. PICK V : eventos \in Seq(V) BY DEF Cola
<1>2. /\ quedan \in Seq(V) /\ Len(quedan) = Len(eventos) - 1
      /\ \A j \in 1..(Len(eventos) - 1) :
           quedan[j] = IF j < k THEN eventos[j] ELSE eventos[j + 1]
  BY <1>1, UnoMenos
<1>3. /\ DOMAIN quedan = 1..(Len(eventos) - 1) /\ DOMAIN eventos = 1..Len(eventos)
      /\ Len(eventos) \in Nat
  BY <1>1, <1>2
<1> HIDE DEF quedan
<1>4. \A j \in DOMAIN quedan :
        i(j) \in DOMAIN eventos /\ i(j) # k /\ quedan[j] = eventos[i(j)]
  BY <1>2, <1>3
<1>5. \A a, b \in DOMAIN quedan : i(a) = i(b) => a = b BY <1>3
<1>6. ASSUME NEW n \in DOMAIN eventos, n # k PROVE \E j \in DOMAIN quedan : i(j) = n
  <2>1. CASE n < k
    <3>1. n \in DOMAIN quedan /\ i(n) = n BY <1>3, <2>1
    <3> QED BY <3>1
  <2>2. CASE ~(n < k)
    <3>1. n - 1 \in DOMAIN quedan /\ i(n - 1) = n BY <1>3, <1>6, <2>2
    <3> QED BY <3>1
  <2> QED BY <2>1, <2>2
<1> QED BY <1>2, <1>4, <1>5, <1>6 DEF quedan

LEMMA UnicaDespachado ==
  ASSUME Cola, NEW k \in DOMAIN eventos, Despachado(k), NEW v, Unica(v)
  PROVE  /\ eventos[k].clase \in DeRed => v = eventos[k] /\ Unica(Evento)'
         /\ eventos[k].clase \notin DeRed => Unica(v)'
<1> DEFINE i(j) == IF j < k THEN j ELSE j + 1
<1>1. /\ \A j \in DOMAIN eventos' :
           i(j) \in DOMAIN eventos /\ i(j) # k /\ eventos'[j] = eventos[i(j)]
      /\ \A a, b \in DOMAIN eventos' : i(a) = i(b) => a = b
      /\ \A n \in DOMAIN eventos : n # k => \E j \in DOMAIN eventos' : i(j) = n
  BY SinUno DEF Despachado
<1> HIDE DEF i
<1>2. ASSUME eventos[k].clase \in DeRed PROVE v = eventos[k] /\ Unica(Evento)'
  <2>1. v = eventos[k] /\ \A j \in DOMAIN eventos : eventos[j].clase \in DeRed => j = k
    BY <1>2, UnicaEs
  <2>2. \A j \in DOMAIN eventos' : eventos'[j].clase \notin DeRed BY <1>1, <2>1
  <2> QED BY <2>1, <2>2 DEF Unica
<1>3. ASSUME eventos[k].clase \notin DeRed PROVE Unica(v)'
  <2>1. CASE v = Evento /\ \A j \in DOMAIN eventos : eventos[j].clase \notin DeRed
    <3>1. \A j \in DOMAIN eventos' : eventos'[j].clase \notin DeRed BY <1>1, <2>1
    <3> QED BY <2>1, <3>1 DEF Unica
  <2>2. ASSUME NEW n \in DOMAIN eventos, eventos[n] = v, v.clase \in DeRed,
               \A j \in DOMAIN eventos : eventos[j].clase \in DeRed => j = n
        PROVE  Unica(v)'
    <3>1. PICK m \in DOMAIN eventos' : i(m) = n BY <1>1, <1>3, <2>2
    <3>2. eventos'[m] = v /\ \A j \in DOMAIN eventos' : eventos'[j].clase \in DeRed => j = m
      BY <1>1, <2>2, <3>1
    <3> QED BY <2>2, <3>2 DEF Unica
  <2> QED BY <2>1, <2>2 DEF Unica
<1> QED BY <1>2, <1>3

LEMMA UnicaCambia ==
  ASSUME NEW k \in DOMAIN eventos, NEW w, eventos' = [eventos EXCEPT ![k] = w], NEW v, Unica(v),
         w.clase = eventos[k].clase
  PROVE  /\ eventos[k].clase \in DeRed => v = eventos[k] /\ Unica(w)'
         /\ eventos[k].clase \notin DeRed => Unica(v)'
<1>1. /\ DOMAIN eventos' = DOMAIN eventos /\ eventos'[k] = w
      /\ \A j \in DOMAIN eventos : eventos'[j].clase = eventos[j].clase
      /\ \A j \in DOMAIN eventos : j # k => eventos'[j] = eventos[j]
  OBVIOUS
<1>2. ASSUME eventos[k].clase \in DeRed PROVE v = eventos[k] /\ Unica(w)'
  <2>1. v = eventos[k] /\ \A j \in DOMAIN eventos : eventos[j].clase \in DeRed => j = k
    BY <1>2, UnicaEs
  <2> QED BY <1>1, <1>2, <2>1 DEF Unica
<1>3. ASSUME eventos[k].clase \notin DeRed PROVE Unica(v)'
  <2>1. CASE v = Evento /\ \A j \in DOMAIN eventos : eventos[j].clase \notin DeRed
    BY <1>1, <2>1 DEF Unica
  <2>2. ASSUME NEW n \in DOMAIN eventos, eventos[n] = v, v.clase \in DeRed,
               \A j \in DOMAIN eventos : eventos[j].clase \in DeRed => j = n
        PROVE  Unica(v)'
    <3>1. n \in DOMAIN eventos' /\ eventos'[n] = v BY <1>1, <1>3, <2>2
    <3> QED BY <1>1, <2>2, <3>1 DEF Unica
  <2> QED BY <2>1, <2>2 DEF Unica
<1> QED BY <1>2, <1>3


LEMMA UnicaConcat ==
  ASSUME NEW V, NEW q \in Seq(V), NEW W, NEW nuevos \in Seq(W), eventos' = q \o nuevos,
         \A j \in DOMAIN q : q[j].clase \notin DeRed
  PROVE  /\ (\A i \in DOMAIN nuevos : nuevos[i].clase \notin DeRed) => Unica(Evento)'
         /\ \A n \in DOMAIN nuevos :
              /\ nuevos[n].clase \in DeRed
              /\ \A i \in DOMAIN nuevos : nuevos[i].clase \in DeRed => i = n
              => Unica(nuevos[n])'
<1> DEFINE U == V \cup W
<1>1. q \in Seq(U) /\ nuevos \in Seq(U) OBVIOUS
<1> HIDE DEF U
<1>2. /\ eventos' \in Seq(U) /\ Len(eventos') = Len(q) + Len(nuevos)
      /\ \A i \in 1..(Len(q) + Len(nuevos)) :
           eventos'[i] = IF i <= Len(q) THEN q[i] ELSE nuevos[i - Len(q)]
  BY <1>1, ConcatProperties
<1>3. /\ DOMAIN eventos' = 1..(Len(q) + Len(nuevos)) /\ DOMAIN q = 1..Len(q) /\ Len(q) \in Nat
      /\ DOMAIN nuevos = 1..Len(nuevos) /\ Len(nuevos) \in Nat
  BY <1>1, <1>2
<1>4. ASSUME NEW j \in DOMAIN eventos', eventos'[j].clase \in DeRed
      PROVE  j - Len(q) \in DOMAIN nuevos /\ eventos'[j] = nuevos[j - Len(q)]
  <2>1. ~(j <= Len(q))
    <3>1. j <= Len(q) => j \in DOMAIN q /\ eventos'[j] = q[j] BY <1>2, <1>3
    <3> QED BY <1>4, <3>1
  <2> QED BY <1>2, <1>3, <2>1
<1>5. ASSUME \A i \in DOMAIN nuevos : nuevos[i].clase \notin DeRed PROVE Unica(Evento)'
  BY <1>4, <1>5 DEF Unica
<1>6. ASSUME NEW n \in DOMAIN nuevos, nuevos[n].clase \in DeRed,
             \A i \in DOMAIN nuevos : nuevos[i].clase \in DeRed => i = n
      PROVE  Unica(nuevos[n])'
  <2>1. Len(q) + n \in DOMAIN eventos' /\ eventos'[Len(q) + n] = nuevos[n]
    <3>1. /\ Len(q) + n \in 1..(Len(q) + Len(nuevos)) /\ ~(Len(q) + n <= Len(q))
          /\ Len(q) + n - Len(q) = n
      BY <1>3
    <3> QED BY <1>2, <1>3, <3>1
  <2>2. ASSUME NEW j \in DOMAIN eventos', eventos'[j].clase \in DeRed PROVE j = Len(q) + n
    <3>1. j - Len(q) \in DOMAIN nuevos /\ eventos'[j] = nuevos[j - Len(q)] BY <1>4, <2>2
    <3>2. j - Len(q) = n BY <1>6, <2>2, <3>1
    <3>3. j \in Int /\ n \in Int /\ Len(q) \in Int BY <1>3
    <3> QED BY <3>2, <3>3
  <2> QED BY <1>6, <2>1, <2>2 DEF Unica
<1> QED BY <1>5, <1>6

\* What becomes of it when something is emitted.
LEMMA EmiteUna ==
  ASSUME Cola, Unica(Evento), NEW w, w.clase \in DeRed
  PROVE  /\ Emitir(<<w>>) => Unica(w)'
         /\ \A u : u.clase \notin DeRed /\ Emitir(<<u, w>>) => Unica(w)'
<1>1. PICK V : eventos \in Seq(V) BY DEF Cola
<1>2. \A j \in DOMAIN eventos : eventos[j].clase \notin DeRed BY UnicaEs
<1>3. ASSUME Emitir(<<w>>) PROVE Unica(w)'
  <2> DEFINE uno == <<w>>
  <2>1. uno \in Seq({w}) /\ DOMAIN uno = 1..1 /\ uno[1] = w OBVIOUS
  <2>2. eventos' = eventos \o uno BY <1>3 DEF Emitir
  <2> HIDE DEF uno
  <2>3. \A i \in DOMAIN uno : i = 1 BY <2>1
  <2>4. 1 \in DOMAIN uno BY <2>1
  <2>5. Unica(uno[1])' BY <1>1, <1>2, <2>1, <2>2, <2>3, <2>4, UnicaConcat
  <2> QED BY <2>1, <2>5
<1>4. ASSUME NEW u, u.clase \notin DeRed, Emitir(<<u, w>>) PROVE Unica(w)'
  <2> DEFINE dos == <<u, w>>
  <2>1. dos \in Seq({u, w}) /\ DOMAIN dos = 1..2 /\ dos[1] = u /\ dos[2] = w OBVIOUS
  <2>2. eventos' = eventos \o dos BY <1>4 DEF Emitir
  <2> HIDE DEF dos
  <2>3. \A i \in DOMAIN dos : i = 1 \/ i = 2 BY <2>1
  <2>4. 2 \in DOMAIN dos /\ \A i \in DOMAIN dos : dos[i].clase \in DeRed => i = 2
    BY <1>4, <2>1, <2>3
  <2>5. Unica(dos[2])' BY <1>1, <1>2, <2>1, <2>2, <2>4, UnicaConcat
  <2> QED BY <2>1, <2>5
<1> QED BY <1>3, <1>4

LEMMA EmiteOtra ==
  ASSUME Cola, NEW v, Unica(v)
  PROVE  /\ Emitir(<<>>) => Unica(v)'
         /\ \A u : u.clase \notin DeRed /\ Emitir(<<u>>) => Unica(v)'
<1>0. Cola OBVIOUS
<1>1. ASSUME Emitir(<<>>) PROVE Unica(v)'
  <2>1. PICK V : eventos \in Seq(V) BY DEF Cola
  <2>2. eventos' = eventos BY <1>1, <2>1, ConcatEmptySeq DEF Emitir
  <2> QED BY <2>2 DEF Unica
<1>2. ASSUME NEW u, u.clase \notin DeRed, Emitir(<<u>>) PROVE Unica(v)'
  <2> DEFINE uno == <<u>>
  <2>1. uno \in Seq({u}) /\ Len(uno) = 1 /\ DOMAIN uno = 1..1 /\ uno[1] = u OBVIOUS
  <2>2. Emitir(uno) BY <1>2
  <2> HIDE DEF uno
  <2>3. \A i \in DOMAIN uno : uno[i] = u BY <2>1
  <2>4. \A i \in DOMAIN eventos : i \in DOMAIN eventos' /\ eventos'[i] = eventos[i]
    BY <2>1, <2>2, SeSumanEventos
  <2>5. \A j \in DOMAIN eventos' : j \in DOMAIN eventos \/ eventos'[j] = u
    <3>1. PICK V : eventos \in Seq(V) BY DEF Cola
    <3> DEFINE U == V \cup {u}
    <3>2. eventos \in Seq(U) /\ uno \in Seq(U) BY <2>1, <3>1
    <3> HIDE DEF U
    <3>3. /\ eventos' \in Seq(U) /\ Len(eventos') = Len(eventos) + 1
          /\ \A i \in 1..(Len(eventos) + 1) :
               eventos'[i] = IF i <= Len(eventos) THEN eventos[i] ELSE uno[i - Len(eventos)]
      <4>1. eventos' = eventos \o uno BY <2>2 DEF Emitir
      <4>2. /\ eventos \o uno \in Seq(U) /\ Len(eventos \o uno) = Len(eventos) + Len(uno)
            /\ \A i \in 1..(Len(eventos) + Len(uno)) :
                 (eventos \o uno)[i] = IF i <= Len(eventos) THEN eventos[i]
                                       ELSE uno[i - Len(eventos)]
        BY <3>2, ConcatProperties
      <4> QED BY <2>1, <4>1, <4>2
    <3>4. /\ DOMAIN eventos' = 1..(Len(eventos) + 1) /\ DOMAIN eventos = 1..Len(eventos)
          /\ Len(eventos) \in Nat
      BY <3>2, <3>3
    <3>5. ASSUME NEW j \in DOMAIN eventos', ~(j <= Len(eventos)) PROVE eventos'[j] = u
      <4>1. j - Len(eventos) = 1 BY <3>4, <3>5
      <4> QED BY <2>1, <3>3, <3>4, <3>5, <4>1
    <3> QED BY <3>4, <3>5
  <2>6. CASE v = Evento /\ \A j \in DOMAIN eventos : eventos[j].clase \notin DeRed
    BY <1>2, <2>4, <2>5, <2>6 DEF Unica
  <2>7. ASSUME NEW n \in DOMAIN eventos, eventos[n] = v, v.clase \in DeRed,
               \A j \in DOMAIN eventos : eventos[j].clase \in DeRed => j = n
        PROVE  Unica(v)'
    <3>1. n \in DOMAIN eventos' /\ eventos'[n] = v BY <2>4, <2>7
    <3>2. \A j \in DOMAIN eventos' : eventos'[j].clase \in DeRed => j = n
      BY <1>2, <2>4, <2>5, <2>7
    <3> QED BY <2>7, <3>1, <3>2 DEF Unica
  <2> QED BY <2>6, <2>7 DEF Unica
<1> QED BY <1>1, <1>2

\* What a handler of stations leaves of itself.
TrasElla(evento) ==
  IF evento.estaciones # {} THEN evento
  ELSE IF evento.servicios = {} THEN Evento ELSE DeServicios(evento)

LEMMA DeServiciosEs ==
  ASSUME NEW evento
  PROVE  LET w == DeServicios(evento)
         IN  /\ w.clase \in DeServiciosVarios /\ w.en = "inicio" /\ w.servicios = evento.servicios
             /\ w.estaciones = {} /\ Enciende(w.clase) = Enciende(evento.clase)
<1> DEFINE w == DeServicios(evento)
<1>1. /\ w.clase = IF Enciende(evento.clase) THEN "enable-multiple-services"
                   ELSE "disable-multiple-services"
      /\ w.en = "inicio" /\ w.servicios = evento.servicios /\ w.estaciones = {}
  BY DEF DeServicios, Evento
<1> HIDE DEF w
<1>2. Enciende("enable-multiple-services") /\ ~Enciende("disable-multiple-services")
  BY DEF Enciende
<1>3. CASE Enciende(evento.clase) BY <1>1, <1>2, <1>3 DEF w, DeServiciosVarios
<1>4. CASE ~Enciende(evento.clase)
  <2>1. Enciende(evento.clase) = FALSE /\ Enciende("disable-multiple-services") = FALSE
    BY <1>4 DEF Enciende
  <2> QED BY <1>1, <1>4, <2>1 DEF w, DeServiciosVarios
<1> QED BY <1>3, <1>4

LEMMA UnicaTras ==
  ASSUME Cola, NEW k \in DOMAIN eventos, eventos[k].clase \in DeRed, NEW evento,
         evento.clase = eventos[k].clase, TrasEstaciones(k, evento), NEW v, Unica(v)
  PROVE  v = eventos[k] /\ Unica(TrasElla(evento))'
<1> DEFINE quedan == RemoveAt(eventos, k)
           w == DeServicios(evento)
<1>1. v = eventos[k] /\ \A j \in DOMAIN eventos : eventos[j].clase \in DeRed => j = k
  BY UnicaEs
<1>2. CASE evento.estaciones # {}
  <2>1. eventos' = [eventos EXCEPT ![k] = evento] BY <1>2 DEF TrasEstaciones
  <2>2. Unica(evento)' BY <2>1, UnicaCambia
  <2>3. TrasElla(evento) = evento BY <1>2 DEF TrasElla
  <2>4. Unica(TrasElla(evento))' BY <2>2, <2>3 DEF Unica
  <2> QED BY <1>1, <2>4
<1>3. CASE evento.estaciones = {}
  <2>1. \E V : quedan \in Seq(V) /\ \A j \in DOMAIN quedan : quedan[j].clase \notin DeRed
    BY <1>1, SinUno
  <2>2. PICK V : quedan \in Seq(V) /\ \A j \in DOMAIN quedan : quedan[j].clase \notin DeRed
    BY <2>1
  <2>3. CASE evento.servicios = {}
    <3>1. eventos' = quedan \o <<>> BY <1>3, <2>3 DEF TrasEstaciones
    <3> HIDE DEF quedan
    <3> DEFINE nada == <<>>
    <3>2. nada \in Seq({}) /\ DOMAIN nada = {} /\ eventos' = quedan \o nada BY <3>1
    <3> HIDE DEF nada
    <3>3. Unica(Evento)' BY <2>2, <3>2, UnicaConcat
    <3>4. TrasElla(evento) = Evento BY <1>3, <2>3 DEF TrasElla
    <3>5. Unica(TrasElla(evento))' BY <3>3, <3>4 DEF Unica
    <3> QED BY <1>1, <3>5
  <2>4. CASE evento.servicios # {}
    <3> DEFINE uno == <<w>>
    <3>1. eventos' = quedan \o uno BY <1>3, <2>4 DEF TrasEstaciones, DeServicios
    <3>2. w.clase \in DeRed BY DeServiciosEs DEF DeRed
    <3> HIDE DEF quedan, w
    <3>3. uno \in Seq({w}) /\ DOMAIN uno = 1..1 /\ uno[1] = w OBVIOUS
    <3> HIDE DEF uno
    <3>4. 1 \in DOMAIN uno /\ \A i \in DOMAIN uno : i = 1 BY <3>3
    <3>5. Unica(uno[1])' BY <2>2, <3>1, <3>2, <3>3, <3>4, UnicaConcat
    <3>6. TrasElla(evento) = w BY <1>3, <2>4 DEF TrasElla, w
    <3>7. Unica(TrasElla(evento))' BY <3>3, <3>5, <3>6 DEF Unica
    <3> QED BY <1>1, <3>7
  <2> QED BY <2>3, <2>4
<1> QED BY <1>2, <1>3


----
(* What the network comes to once the event that is left is handled. *)

Cubiertos == UNION {maestro[m].tipos : m \in MaestrosVivos}

\* The event did not read the network yet.
PorLeer(v) == v.clase \in DeEstaciones /\ v.en = "inicio"

\* The status that a service gets from those that the event chose, and the one
\* that it gets in the end.
Elegido(v, s) == IF s \in v.servicios THEN Enciende(v.clase) ELSE servicio[s].estatus
Futuro(v, s) ==
  IF PorLeer(v) /\ servicio[s].tipo \in v.tipos THEN Enciende(v.clase) ELSE Elegido(v, s)

\* The station is on once the event switched those that it has left.
Conmutada(v, e) == IF e \in v.estaciones THEN Enciende(v.clase) ELSE estacion[e] = "ACTIVA"

Forma(v) ==
  /\ v.clase \in DeEstaciones => v.en \in {"inicio", "buscar", "conmutar", "releer"}
  /\ v.clase \in DeServiciosVarios => v.en = "inicio"
  /\ v.en = "inicio" => v.estaciones = {}
  /\ PorLeer(v) => v.servicios = {}
  /\ v.en \in {"conmutar", "releer"} => v.e \in v.estaciones
  /\ v.en = "releer" => estacion[v.e] = Encendida(Enciende(v.clase))
  /\ \A e \in v.estaciones : e \in Estaciones /\ ServiciosDe(e) # {}
  /\ \A s \in v.servicios : s \in Servicios /\ HayServicio(s)

\* Every service is of a station that is there, and was renewed once at least.
RedEntera ==
  \A s \in Servicios : HayServicio(s) => HayEstacion(servicio[s].estacion) /\ renovacion[s] # <<>>

EstacionesSegun(v) ==
  \A e \in Estaciones : ServiciosDe(e) # {} =>
    (Conmutada(v, e) <=> \E s \in ServiciosDe(e) : Elegido(v, s))

\* The services that will be on have these types, and all of these have theirs on.
Techo(v, tipos) == \A s \in Servicios : HayServicio(s) /\ Futuro(v, s) => servicio[s].tipo \in tipos
Suelo(v, tipos) == \A s \in Servicios : HayServicio(s) /\ servicio[s].tipo \in tipos => Futuro(v, s)

Encontrable == \A e \in Estaciones : ServiciosDe(e) # {} => findOne(e)

LEMMA HayUltimas ==
  ASSUME TipoInv, RedEntera, \A s \in Servicios : UltimaAlFinal(s) /\ ConUltima(s),
         \A h \in Hilos : peticion[h].en # "nueva"
  PROVE  Encontrable
<1>1. ASSUME NEW s \in Servicios, HayServicio(s) PROVE Ultimas(s) # {}
  <2>1. renovacion[s] # <<>> /\ renovacion[s][Len(renovacion[s])].ultima
    BY <1>1 DEF RedEntera, ConUltima
  <2>2. renovacion[s] \in Seq(Renovacion) BY DEF TipoInv, TablasBien
  <2>3. Len(renovacion[s]) \in DOMAIN renovacion[s] BY <2>1, <2>2
  <2> QED BY <2>1, <2>3 DEF UltimaAlFinal, Ultimas
<1>2. ASSUME NEW e \in Estaciones, NEW s \in ServiciosDe(e) PROVE HayServicio(s) /\ s \in Servicios
  BY <1>2, ProveedorAssumption DEF ServiciosDe, HayServicio, SinServicio
<1>3. ASSUME NEW e \in Estaciones, ServiciosDe(e) # {} PROVE findOne(e)
  <2>1. PICK s \in ServiciosDe(e) : TRUE BY <1>3
  <2>2. HayEstacion(e) BY <1>2, <2>1 DEF RedEntera, ServiciosDe
  <2> QED BY <1>1, <1>2, <2>2 DEF findOne
<1> QED BY <1>3 DEF Encontrable

\* The network is as it was, and so is what will become of it.
MismoFuturo(v, w) ==
  \A s \in Servicios : HayServicio(s)' => /\ HayServicio(s) /\ servicio'[s].tipo = servicio[s].tipo
                                          /\ Futuro(w, s)' <=> Futuro(v, s)

LEMMA TechosQuedan ==
  ASSUME NEW v, NEW w, MismoFuturo(v, w), NEW tipos
  PROVE  /\ Techo(v, tipos) => Techo(w, tipos)'
         /\ Suelo(v, tipos) => Suelo(w, tipos)'
BY DEF MismoFuturo, Techo, Suelo

\* What is true of the event that comes after this one.
Relevo(v, w) ==
  /\ Unica(w)' /\ Forma(w)' /\ EstacionesSegun(w)' /\ RedEntera' /\ MismoFuturo(v, w)
  /\ v = Evento => w = Evento

LEMMA RelevoIgual ==
  ASSUME UNCHANGED <<estacion, servicio, renovacion>>, NEW v, Unica(v)', Forma(v),
         EstacionesSegun(v), RedEntera
  PROVE  Relevo(v, v)
<1>1. \A e : ServiciosDe(e)' = ServiciosDe(e) BY DEF ServiciosDe
<1>2. \A s : HayServicio(s)' <=> HayServicio(s) BY DEF HayServicio
<1>3. Forma(v)' BY <1>1, <1>2 DEF Forma, PorLeer
<1>4. EstacionesSegun(v)' BY <1>1 DEF EstacionesSegun, Conmutada, Elegido
<1>5. RedEntera' BY <1>2 DEF RedEntera, HayEstacion
<1>6. MismoFuturo(v, v) BY <1>2 DEF MismoFuturo, Futuro, Elegido, PorLeer
<1> QED BY <1>3, <1>4, <1>5, <1>6 DEF Relevo

\* The event goes on and does not write the network.
LEMMA RelevoSigue ==
  ASSUME UNCHANGED <<estacion, servicio, renovacion>>, NEW v, NEW w, Unica(w)', Forma(w),
         EstacionesSegun(w), RedEntera, v.clase \in DeRed,
         \A s \in Servicios : HayServicio(s) => (Futuro(w, s) <=> Futuro(v, s))
  PROVE  Relevo(v, w)
<1>1. Relevo(w, w) BY RelevoIgual
<1>2. v # Evento BY EventoVacio
<1>3. MismoFuturo(v, w) BY <1>1 DEF Relevo, MismoFuturo
<1> QED BY <1>1, <1>2, <1>3 DEF Relevo


LEMMA TrasEllaIgual ==
  ASSUME NEW evento, Forma(evento), EstacionesSegun(evento), evento.clase \in DeEstaciones,
         evento.en # "inicio"
  PROVE  LET w == TrasElla(evento)
         IN  /\ Forma(w) /\ EstacionesSegun(w)
             /\ \A s \in Servicios : Futuro(w, s) <=> Elegido(evento, s)
<1>1. ASSUME NEW w, w.servicios = evento.servicios, w.estaciones = evento.estaciones,
             w.servicios # {} => Enciende(w.clase) = Enciende(evento.clase),
             w.estaciones # {} => Enciende(w.clase) = Enciende(evento.clase), ~PorLeer(w)
      PROVE  /\ EstacionesSegun(w)
             /\ \A s \in Servicios : Futuro(w, s) <=> Elegido(evento, s)
  <2>1. \A s : Elegido(w, s) = Elegido(evento, s) BY <1>1 DEF Elegido
  <2>2. \A e : Conmutada(w, e) = Conmutada(evento, e) BY <1>1 DEF Conmutada
  <2> QED BY <1>1, <2>1, <2>2 DEF EstacionesSegun, Futuro
<1>2. CASE evento.estaciones # {}
  <2>1. TrasElla(evento) = evento /\ ~PorLeer(evento) BY <1>2 DEF TrasElla, PorLeer
  <2> QED BY <1>1, <2>1
<1>3. CASE evento.estaciones = {} /\ evento.servicios = {}
  <2>1. TrasElla(evento) = Evento BY <1>3 DEF TrasElla
  <2>2. ~PorLeer(Evento) BY EventoVacio DEF PorLeer, DeRed
  <2>3. Forma(Evento) BY EventoVacio, <2>2 DEF Forma, DeRed
  <2>4. /\ EstacionesSegun(Evento)
        /\ \A s \in Servicios : Futuro(Evento, s) <=> Elegido(evento, s)
    BY <1>1, <1>3, <2>2, EventoVacio
  <2> QED BY <2>1, <2>3, <2>4
<1>4. CASE evento.estaciones = {} /\ evento.servicios # {}
  <2> DEFINE w == DeServicios(evento)
  <2>1. TrasElla(evento) = w BY <1>4 DEF TrasElla
  <2>2. /\ w.clase \in DeServiciosVarios /\ w.en = "inicio" /\ w.servicios = evento.servicios
        /\ w.estaciones = {} /\ Enciende(w.clase) = Enciende(evento.clase)
    BY DeServiciosEs
  <2> HIDE DEF w
  <2>3. ~PorLeer(w) BY <2>2 DEF PorLeer, DeEstaciones, DeServiciosVarios
  <2>4. Forma(w)
    <3>1. \A s \in w.servicios : s \in Servicios /\ HayServicio(s) BY <2>2 DEF Forma
    <3>2. w.clase \notin DeEstaciones BY <2>2 DEF DeEstaciones, DeServiciosVarios
    <3> QED BY <2>2, <2>3, <3>1, <3>2 DEF Forma
  <2>5. EstacionesSegun(w) /\ \A s \in Servicios : Futuro(w, s) <=> Elegido(evento, s)
    BY <1>1, <1>4, <2>2, <2>3
  <2> QED BY <2>1, <2>4, <2>5
<1> QED BY <1>2, <1>3, <1>4

\* LeerRed chooses the services that are not yet as they have to be, and the
\* stations whose status follows.
LEMMA RelevoDeLeerRed ==
  ASSUME TipoInv, NEW k \in DOMAIN eventos, LeerRed(k), NEW v, Unica(v), Forma(v),
         EstacionesSegun(v), RedEntera
  PROVE  \E w : Relevo(v, w)
<1>0. Cola /\ eventos[k].clase \in DeEstaciones /\ eventos[k].en = "inicio"
  BY DEF LeerRed, TipoInv, EventosBien, Cola, DeEstaciones
<1>1. v = eventos[k] /\ v.clase \in DeRed /\ PorLeer(v) /\ DOMAIN v = CamposDeEvento
  BY <1>0, UnicaEs DEF DeRed, PorLeer, TipoInv, EventosBien, EventoBien
<1>2. PICK cambian : cambian = PorCambiar(v.clase, v.tipos) OBVIOUS
<1>3. PICK conmutan : conmutan = PorConmutar(v.clase, cambian) OBVIOUS
<1>4. PICK evento : evento = [v EXCEPT !.en = "buscar", !.servicios = cambian,
                                       !.estaciones = conmutan]
  OBVIOUS
<1>5. /\ evento.en = "buscar" /\ evento.servicios = cambian /\ evento.estaciones = conmutan
      /\ evento.clase = v.clase
  BY <1>1, <1>4 DEF CamposDeEvento
<1>6. TrasEstaciones(k, evento) /\ UNCHANGED <<estacion, servicio, renovacion>>
  BY <1>1, <1>2, <1>3, <1>4 DEF LeerRed, red
<1>t. \A s \in Servicios : HayServicio(s) =>
        /\ servicio[s].estacion \in Estaciones /\ servicio[s].estatus \in BOOLEAN
  BY DEF TipoInv, TablasBien, HayServicio, Servicio
<1>d. \A e \in Estaciones : \A s : s \in ServiciosDe(e) <=>
        s \in Servicios /\ HayServicio(s) /\ servicio[s].estacion = e
  BY ProveedorAssumption DEF ServiciosDe, HayServicio, SinServicio
<1>7. PICK prende \in BOOLEAN : prende <=> Enciende(v.clase) BY DEF Enciende
<1>8. \A s : s \in cambian <=> /\ s \in Servicios /\ HayServicio(s) /\ servicio[s].tipo \in v.tipos
                               /\ servicio[s].estatus # prende
  BY <1>2, <1>7 DEF PorCambiar, Enciende
<1>9. ASSUME NEW s \in Servicios, HayServicio(s)
      PROVE  Elegido(evento, s) <=> Futuro(v, s)
  <2>1. v.servicios = {} BY <1>1 DEF Forma
  <2>2. Elegido(evento, s) <=> IF s \in cambian THEN prende ELSE servicio[s].estatus
    BY <1>5, <1>7 DEF Elegido
  <2>3. Futuro(v, s) <=> IF servicio[s].tipo \in v.tipos THEN prende ELSE servicio[s].estatus
    BY <1>1, <1>7, <2>1 DEF Futuro, Elegido
  <2> QED BY <1>8, <1>9, <1>t, <2>2, <2>3
<1>10. ASSUME NEW e \in conmutan
       PROVE  /\ e \in Estaciones /\ \E s \in ServiciosDe(e) : s \in cambian
              /\ prende => \A s \in ServiciosDe(e) : ~servicio[s].estatus
              /\ ~prende => \A s \in ServiciosDe(e) : servicio[s].estatus => s \in cambian
  <2>1. PICK s \in cambian : e = servicio[s].estacion BY <1>3 DEF PorConmutar
  <2>2. e \in Estaciones /\ s \in ServiciosDe(e) BY <1>8, <1>d, <1>t, <2>1
  <2>3. LET activos == {x \in ServiciosDe(e) : servicio[x].estatus}
        IN  IF prende THEN activos = {} ELSE activos \subseteq cambian
    BY <1>3, <1>7 DEF PorConmutar
  <2> QED BY <2>2, <2>3
<1>11. ASSUME NEW e \in Estaciones, e \notin conmutan, NEW s \in ServiciosDe(e), s \in cambian
       PROVE  \E x \in ServiciosDe(e) : servicio[x].estatus /\ (prende \/ x \notin cambian)
  <2>1. e \in {servicio[x].estacion : x \in cambian} BY <1>11, <1>d
  <2>2. LET activos == {x \in ServiciosDe(e) : servicio[x].estatus}
        IN  ~(IF prende THEN activos = {} ELSE activos \subseteq cambian)
    BY <1>3, <1>7, <1>11, <2>1 DEF PorConmutar
  <2> QED BY <2>2
<1>12. Forma(evento)
  <2>1. \A e \in evento.estaciones : e \in Estaciones /\ ServiciosDe(e) # {}
    BY <1>5, <1>10
  <2>2. \A s \in evento.servicios : s \in Servicios /\ HayServicio(s) BY <1>5, <1>8
  <2> QED BY <1>0, <1>1, <1>5, <2>1, <2>2 DEF Forma, PorLeer, DeEstaciones, DeServiciosVarios
<1>13. EstacionesSegun(evento)
  <2>1. SUFFICES ASSUME NEW e \in Estaciones, ServiciosDe(e) # {}
                 PROVE  Conmutada(evento, e) <=> \E s \in ServiciosDe(e) : Elegido(evento, s)
    BY DEF EstacionesSegun
  <2>2. estacion[e] = "ACTIVA" <=> \E s \in ServiciosDe(e) : servicio[s].estatus
    <3>1. v.servicios = {} /\ v.estaciones = {} BY <1>1 DEF Forma, PorLeer
    <3> QED BY <2>1, <3>1 DEF EstacionesSegun, Conmutada, Elegido
  <2>3. \A s \in ServiciosDe(e) : Elegido(evento, s) <=> IF s \in cambian THEN prende
                                                         ELSE servicio[s].estatus
    BY <1>5, <1>7 DEF Elegido
  <2>4. Conmutada(evento, e) <=> IF e \in conmutan THEN prende ELSE estacion[e] = "ACTIVA"
    BY <1>5, <1>7 DEF Conmutada
  <2>5. \A s \in ServiciosDe(e) : servicio[s].estatus \in BOOLEAN BY <1>d, <1>t
  <2>6. CASE e \in conmutan BY <1>10, <2>3, <2>4, <2>5, <2>6
  <2>7. CASE e \notin conmutan
    <3>1. CASE \E s \in ServiciosDe(e) : s \in cambian
      BY <1>11, <2>2, <2>3, <2>4, <2>5, <2>7, <3>1
    <3>2. CASE \A s \in ServiciosDe(e) : s \notin cambian BY <2>2, <2>3, <2>4, <2>7, <3>2
    <3> QED BY <3>1, <3>2
  <2> QED BY <2>6, <2>7
<1>14. PICK w : w = TrasElla(evento) OBVIOUS
<1>15. Unica(w)'
  <2>1. Unica(TrasElla(evento))' BY <1>0, <1>1, <1>5, <1>6, UnicaTras
  <2> QED BY <1>14, <2>1 DEF Unica
<1>16. /\ Forma(w) /\ EstacionesSegun(w)
       /\ \A s \in Servicios : HayServicio(s) => (Futuro(w, s) <=> Futuro(v, s))
  <2>1. evento.clase \in DeEstaciones /\ evento.en # "inicio" BY <1>0, <1>1, <1>5
  <2> QED BY <1>9, <1>12, <1>13, <1>14, <2>1, TrasEllaIgual
<1> QED BY <1>1, <1>6, <1>15, <1>16, RelevoSigue


\* The stations are switched one by one.
LEMMA RelevoDeBuscar ==
  ASSUME TipoInv, NEW k \in DOMAIN eventos, BuscarPorConmutar(k), eventos[k].clase \in DeEstaciones,
         NEW v, Unica(v), Forma(v), EstacionesSegun(v), RedEntera, Encontrable
  PROVE  \E w : Relevo(v, w)
<1>1. /\ v = eventos[k] /\ v.clase \in DeRed /\ v.en = "buscar" /\ DOMAIN v = CamposDeEvento
  BY UnicaEs DEF DeRed, TipoInv, EventosBien, EventoBien, BuscarPorConmutar
<1>2. PICK e \in v.estaciones :
        IF findOne(e) THEN eventos' = [eventos EXCEPT ![k].en = "conmutar", ![k].e = e]
        ELSE Despachado(k)
  BY <1>1 DEF BuscarPorConmutar
<1>3. findOne(e) BY DEF Forma, Encontrable
<1>4. PICK w : w = [v EXCEPT !.en = "conmutar", !.e = e] OBVIOUS
<1>5. /\ w.en = "conmutar" /\ w.e = e /\ w.clase = v.clase /\ w.servicios = v.servicios
      /\ w.estaciones = v.estaciones /\ eventos' = [eventos EXCEPT ![k] = w]
  BY <1>1, <1>2, <1>3, <1>4 DEF CamposDeEvento
<1>6. Unica(w)' BY <1>1, <1>5, UnicaCambia
<1>7. Forma(w) /\ EstacionesSegun(w)
  <2>1. v.clase \in DeEstaciones /\ v.clase \notin DeServiciosVarios
    BY <1>1 DEF DeEstaciones, DeServiciosVarios
  <2>2. Forma(w) BY <1>5, <2>1 DEF Forma, PorLeer
  <2>3. EstacionesSegun(w) BY <1>5 DEF EstacionesSegun, Conmutada, Elegido
  <2> QED BY <2>2, <2>3
<1>8. \A s \in Servicios : Futuro(w, s) <=> Futuro(v, s)
  BY <1>1, <1>5 DEF Futuro, Elegido, PorLeer
<1>9. UNCHANGED <<estacion, servicio, renovacion>> BY DEF BuscarPorConmutar, red
<1> QED BY <1>1, <1>6, <1>7, <1>8, <1>9, RelevoSigue

LEMMA RelevoDeConmutar ==
  ASSUME TipoInv, NEW k \in DOMAIN eventos, Conmutar(k), eventos[k].clase \in DeEstaciones,
         NEW v, Unica(v), Forma(v), EstacionesSegun(v), RedEntera, Encontrable
  PROVE  \E w : Relevo(v, w)
<1>1. /\ v = eventos[k] /\ v.clase \in DeRed /\ v.en = "conmutar" /\ DOMAIN v = CamposDeEvento
  BY UnicaEs DEF DeRed, TipoInv, EventosBien, EventoBien, Conmutar
<1>2. /\ v.e \in v.estaciones /\ v.e \in Estaciones /\ HayEstacion(v.e)
  BY <1>1 DEF Forma, Encontrable, findOne
<1>3. PICK w : w = [v EXCEPT !.en = "releer"] OBVIOUS
<1>4. /\ w.en = "releer" /\ w.e = v.e /\ w.clase = v.clase /\ w.servicios = v.servicios
      /\ w.estaciones = v.estaciones
  BY <1>1, <1>3 DEF CamposDeEvento
<1>5. /\ estacion' = [estacion EXCEPT ![v.e] = Encendida(Enciende(v.clase))]
      /\ eventos' = [eventos EXCEPT ![k] = w] /\ UNCHANGED <<servicio, renovacion>>
  BY <1>1, <1>2, <1>3 DEF Conmutar
<1>6. Unica(w)' BY <1>1, <1>4, <1>5, UnicaCambia
<1>7. /\ DOMAIN estacion = Estaciones
      /\ estacion'[v.e] = Encendida(Enciende(v.clase))
      /\ \A e \in Estaciones : e # v.e => estacion'[e] = estacion[e]
  <2>1. DOMAIN estacion = Estaciones BY DEF TipoInv, TablasBien
  <2> QED BY <1>2, <1>5, <2>1
<1>8. /\ \A e : ServiciosDe(e)' = ServiciosDe(e)
      /\ \A s : HayServicio(s)' <=> HayServicio(s)
  BY <1>5 DEF ServiciosDe, HayServicio
<1>9. Forma(w)'
  <2>1. v.clase \in DeEstaciones /\ v.clase \notin DeServiciosVarios
    BY <1>1 DEF DeEstaciones, DeServiciosVarios
  <2>2. estacion'[w.e] = Encendida(Enciende(w.clase)) BY <1>4, <1>7
  <2> QED BY <1>2, <1>4, <1>8, <2>1, <2>2 DEF Forma, PorLeer
<1>10. EstacionesSegun(w)'
  <2>1. \A e \in Estaciones : Conmutada(w, e)' <=> Conmutada(v, e)
    BY <1>2, <1>4, <1>7 DEF Conmutada
  <2>2. \A s : Elegido(w, s)' <=> Elegido(v, s) BY <1>4, <1>5 DEF Elegido
  <2> QED BY <1>8, <2>1, <2>2 DEF EstacionesSegun
<1>11. RedEntera'
  <2>1. Encendida(Enciende(v.clase)) \in {"ACTIVA", "INACTIVA"} BY DEF Encendida
  <2>2. \A s \in Servicios : HayServicio(s) => servicio[s].estacion \in Estaciones
    BY DEF TipoInv, TablasBien, HayServicio, Servicio
  <2> QED BY <1>5, <1>7, <1>8, <2>1, <2>2 DEF RedEntera, HayEstacion
<1>12. MismoFuturo(v, w)
  BY <1>1, <1>4, <1>5, <1>8 DEF MismoFuturo, Futuro, Elegido, PorLeer
<1> QED BY <1>1, <1>6, <1>9, <1>10, <1>11, <1>12, EventoVacio DEF Relevo

LEMMA RelevoDeReleer ==
  ASSUME TipoInv, NEW k \in DOMAIN eventos, Releer(k), eventos[k].clase \in DeEstaciones,
         NEW v, Unica(v), Forma(v), EstacionesSegun(v), RedEntera, Encontrable
  PROVE  \E w : Relevo(v, w)
<1>0. Cola BY DEF TipoInv, EventosBien, Cola
<1>1. /\ v = eventos[k] /\ v.clase \in DeRed /\ v.en = "releer" /\ DOMAIN v = CamposDeEvento
  BY UnicaEs DEF DeRed, TipoInv, EventosBien, EventoBien, Releer
<1>2. /\ v.e \in v.estaciones /\ v.e \in Estaciones /\ findOne(v.e)
      /\ estacion[v.e] = Encendida(Enciende(v.clase))
  BY <1>1 DEF Forma, Encontrable
<1>3. PICK evento : evento = [v EXCEPT !.en = "buscar", !.e = "-", !.estaciones = @ \ {v.e}]
  OBVIOUS
<1>4. /\ evento.en = "buscar" /\ evento.clase = v.clase /\ evento.servicios = v.servicios
      /\ evento.estaciones = v.estaciones \ {v.e}
  BY <1>1, <1>3 DEF CamposDeEvento
<1>5. TrasEstaciones(k, evento) /\ UNCHANGED <<estacion, servicio, renovacion>>
  BY <1>1, <1>2, <1>3 DEF Releer, red
<1>6. Forma(evento)
  <2>1. v.clase \in DeEstaciones /\ v.clase \notin DeServiciosVarios
    BY <1>1 DEF DeEstaciones, DeServiciosVarios
  <2> QED BY <1>4, <2>1 DEF Forma, PorLeer
<1>7. EstacionesSegun(evento)
  <2>1. estacion[v.e] = "ACTIVA" <=> Enciende(v.clase) BY <1>2 DEF Encendida
  <2>2. \A e : Conmutada(evento, e) <=> Conmutada(v, e) BY <1>2, <1>4, <2>1 DEF Conmutada
  <2>3. \A s : Elegido(evento, s) <=> Elegido(v, s) BY <1>4 DEF Elegido
  <2> QED BY <2>2, <2>3 DEF EstacionesSegun
<1>8. PICK w : w = TrasElla(evento) OBVIOUS
<1>9. Unica(w)'
  <2>1. Unica(TrasElla(evento))' BY <1>0, <1>1, <1>4, <1>5, UnicaTras
  <2> QED BY <1>8, <2>1 DEF Unica
<1>10. /\ Forma(w) /\ EstacionesSegun(w)
       /\ \A s \in Servicios : HayServicio(s) => (Futuro(w, s) <=> Futuro(v, s))
  <2>1. /\ Forma(w) /\ EstacionesSegun(w)
        /\ \A s \in Servicios : Futuro(w, s) <=> Elegido(evento, s)
    BY <1>1, <1>4, <1>6, <1>7, <1>8, TrasEllaIgual
  <2>2. \A s \in Servicios : Elegido(evento, s) <=> Futuro(v, s)
    BY <1>1, <1>4 DEF Elegido, Futuro, PorLeer
  <2> QED BY <2>1, <2>2
<1> QED BY <1>1, <1>5, <1>9, <1>10, RelevoSigue

\* The services are written one by one.
LEMMA RelevoDeCambiar ==
  ASSUME TipoInv, NEW k \in DOMAIN eventos, CambiarServicio(k), NEW v, Unica(v), Forma(v),
         EstacionesSegun(v), RedEntera
  PROVE  \E w : Relevo(v, w)
<1>0. Cola BY DEF TipoInv, EventosBien, Cola
<1>1. /\ v = eventos[k] /\ v.clase \in DeRed /\ v.clase \in DeServiciosVarios
      /\ DOMAIN v = CamposDeEvento
  BY UnicaEs DEF DeRed, DeServiciosVarios, TipoInv, EventosBien, EventoBien, CambiarServicio
<1>2. v.estaciones = {} /\ v.en = "inicio" /\ v.clase \notin DeEstaciones /\ ~PorLeer(v)
  BY <1>1 DEF Forma, DeEstaciones, DeServiciosVarios, PorLeer
<1>3. PICK s \in v.servicios :
        LET quedan == Pendientes(v.servicios, s)
        IN  /\ servicio' = [servicio EXCEPT ![s].estatus = Enciende(v.clase)]
            /\ IF quedan = {} THEN Despachado(k)
               ELSE eventos' = [eventos EXCEPT ![k].servicios = quedan]
  BY <1>1 DEF CambiarServicio
<1>4. UNCHANGED <<estacion, renovacion>> BY DEF CambiarServicio
<1>5. s \in Servicios /\ HayServicio(s) BY DEF Forma
<1>6. /\ DOMAIN servicio = Servicios
      /\ \A x \in Servicios : HayServicio(x) =>
           DOMAIN servicio[x] = {"estacion", "tipo", "estatus"} /\ servicio[x].estacion \in Estaciones
  BY DEF TipoInv, TablasBien, HayServicio, Servicio
<1>7. /\ servicio'[s].estatus = Enciende(v.clase)
      /\ servicio'[s].tipo = servicio[s].tipo /\ servicio'[s].estacion = servicio[s].estacion
      /\ \A x \in Servicios : x # s => servicio'[x] = servicio[x]
  BY <1>3, <1>5, <1>6
<1>8. \A x \in Servicios : servicio'[x].tipo = servicio[x].tipo
                           /\ servicio'[x].estacion = servicio[x].estacion
  BY <1>7
<1>9. \A x \in Servicios : HayServicio(x)' <=> HayServicio(x)
  <2>1. HayServicio(s)'
    BY <1>5, <1>6, <1>7, ProveedorAssumption DEF HayServicio, SinServicio
  <2> QED BY <1>5, <1>7, <2>1 DEF HayServicio
<1>10. \A e : ServiciosDe(e)' = ServiciosDe(e) BY <1>8 DEF ServiciosDe
<1>11. PICK quedan : quedan = v.servicios \ {s} OBVIOUS
<1>12. PICK w : w = IF quedan = {} THEN Evento ELSE [v EXCEPT !.servicios = quedan]
  OBVIOUS
<1>13. /\ w.servicios = quedan /\ w.estaciones = {} /\ w.en = "inicio" /\ ~PorLeer(w)
       /\ quedan # {} => w.clase = v.clase
       /\ Unica(w)'
  <2>1. CASE quedan = {}
    <3>1. Despachado(k) BY <1>3, <1>11, <2>1 DEF Pendientes
    <3>2. w = Evento BY <1>12, <2>1
    <3>3. Unica(w)' BY <1>0, <1>1, <3>1, <3>2, UnicaDespachado
    <3> QED BY <2>1, <3>2, <3>3, EventoVacio DEF PorLeer, DeRed
  <2>2. CASE quedan # {}
    <3>1. eventos' = [eventos EXCEPT ![k].servicios = quedan]
      BY <1>3, <1>11, <2>2 DEF Pendientes
    <3>2. w = [v EXCEPT !.servicios = quedan] BY <1>12, <2>2
    <3>3. /\ w.servicios = quedan /\ w.estaciones = {} /\ w.en = "inicio" /\ w.clase = v.clase
      BY <1>1, <1>2, <3>2 DEF CamposDeEvento
    <3>4. eventos' = [eventos EXCEPT ![k] = w] BY <1>1, <3>1, <3>2
    <3>5. Unica(w)' BY <1>1, <3>3, <3>4, UnicaCambia
    <3> QED BY <1>2, <3>3, <3>5 DEF PorLeer
  <2> QED BY <2>1, <2>2
<1>14. \A x \in Servicios : Elegido(w, x)' <=> Elegido(v, x)
  <2>1. ASSUME NEW x \in Servicios PROVE Elegido(w, x)' <=> Elegido(v, x)
    <3>1. CASE x = s
      <4>1. x \in v.servicios /\ x \notin w.servicios BY <1>11, <1>13, <3>1
      <4> QED BY <1>7, <3>1, <4>1 DEF Elegido
    <3>2. CASE x # s /\ x \in v.servicios
      <4>1. x \in w.servicios /\ w.clase = v.clase BY <1>11, <1>13, <3>2
      <4> QED BY <3>2, <4>1 DEF Elegido
    <3>3. CASE x # s /\ x \notin v.servicios
      <4>1. x \notin w.servicios /\ servicio'[x] = servicio[x] BY <1>7, <1>11, <1>13, <3>3
      <4> QED BY <3>3, <4>1 DEF Elegido
    <3> QED BY <3>1, <3>2, <3>3
  <2> QED BY <2>1
<1>15. Forma(w)'
  <2>1. w.clase \notin DeEstaciones BY <1>13 DEF PorLeer
  <2>2. \A x \in w.servicios : x \in Servicios /\ HayServicio(x)'
    BY <1>9, <1>11, <1>13 DEF Forma
  <2> QED BY <1>13, <2>1, <2>2 DEF Forma, PorLeer
<1>16. EstacionesSegun(w)'
  <2>1. \A e : Conmutada(w, e)' <=> Conmutada(v, e) BY <1>2, <1>4, <1>13 DEF Conmutada
  <2>2. \A e : \A x \in ServiciosDe(e) : x \in Servicios BY DEF ServiciosDe
  <2> QED BY <1>10, <1>14, <2>1, <2>2 DEF EstacionesSegun
<1>17. RedEntera' BY <1>4, <1>8, <1>9 DEF RedEntera, HayEstacion
<1>18. MismoFuturo(v, w)
  <2>1. ~PorLeer(w)' BY <1>13 DEF PorLeer
  <2> QED BY <1>2, <1>8, <1>9, <1>14, <2>1 DEF MismoFuturo, Futuro
<1>19. v # Evento BY <1>1, EventoVacio
<1> QED BY <1>13, <1>15, <1>16, <1>17, <1>18, <1>19 DEF Relevo

LEMMA RelevoDeManejar ==
  ASSUME TipoInv, NEW k \in DOMAIN eventos, Maneja(k), DosPasos, SinActivados, NEW v, Unica(v),
         Forma(v), EstacionesSegun(v), RedEntera, v # Evento => Encontrable
  PROVE  \E w : Relevo(v, w)
<1>0. Cola /\ eventos[k].clase \in Clases /\ Manejar(k) /\ DOMAIN eventos[k] = CamposDeEvento
  BY DEF TipoInv, EventosBien, EventoBien, Cola, Maneja
<1>1. CASE eventos[k].clase \in DeRed
  <2>1. v = eventos[k] /\ v # Evento BY <1>1, UnicaEs, EventoVacio
  <2>2. ~ManejarProveedor(k) /\ ~ManejarRenovacion(k)
    BY <1>1 DEF ManejarProveedor, ManejarRenovacion, DeRed, DeEstaciones, DeServiciosVarios
  <2>3. CASE CambiarServicio(k) BY <2>3, RelevoDeCambiar
  <2>4. CASE LeerRed(k) BY <2>4, RelevoDeLeerRed
  <2>5. ASSUME BuscarPorConmutar(k) \/ Conmutar(k) \/ Releer(k) PROVE \E w : Relevo(v, w)
    <3>1. v.en # "inicio" BY <2>1, <2>5 DEF BuscarPorConmutar, Conmutar, Releer
    <3>2. v.clase \in DeEstaciones BY <1>1, <2>1, <3>1 DEF Forma, DeRed
    <3> QED BY <2>1, <2>5, <3>2, RelevoDeBuscar, RelevoDeConmutar, RelevoDeReleer
  <2> QED BY <1>0, <2>2, <2>3, <2>4, <2>5 DEF Manejar
<1>2. CASE eventos[k].clase \notin DeRed
  <2>1. eventos[k].clase \in DeProveedores
    BY <1>0, <1>2 DEF SinActivados, Clases, DeRed, DeEstaciones, DeServiciosVarios, DeProveedores
  <2>2. ManejarProveedor(k)
    <3>1. eventos[k].en \in {"inicio", "escribir"} BY <2>1 DEF DosPasos
    <3> QED BY <1>0, <2>1, <3>1 DEF Manejar, ManejarRenovacion, LeerRed, BuscarPorConmutar,
                                    Conmutar, Releer, CambiarServicio, DeProveedores
  <2>3. UNCHANGED <<estacion, servicio, renovacion>> BY <2>2 DEF ManejarProveedor, red
  <2>4. Unica(v)'
    <3>1. CASE Despachado(k) BY <1>0, <1>2, <3>1, UnicaDespachado
    <3>2. CASE eventos' = [eventos EXCEPT ![k].en = "escribir"]
      <4> DEFINE w == [eventos[k] EXCEPT !.en = "escribir"]
      <4>1. w.clase = eventos[k].clase /\ eventos' = [eventos EXCEPT ![k] = w]
        BY <1>0, <3>2 DEF CamposDeEvento
      <4> HIDE DEF w
      <4> QED BY <1>2, <4>1, UnicaCambia
    <3> QED BY <2>2, <3>1, <3>2 DEF ManejarProveedor
  <2> QED BY <2>3, <2>4, RelevoIgual
<1> QED BY <1>1, <1>2


----
(* What the request in progress knows. *)

\* A create has a number that was never used, until it saves it with no types.
SabeDeAltas(q) ==
  /\ q.op \in {"crear", "actualizar", "cancelar", "quitar"} => q.m \in Maestros
  /\ q.en \in {"existe", "leerProveedor", "verificar"} => q.op = "crear"
  /\ q.en = "existe" => maestro[q.m].estatus # "BORRADO"
  /\ q.op = "crear" /\ q.en \in {"leerProveedor", "verificar", "contar", "guardar"} =>
       maestro[q.m] = SinMaestro
  /\ q.en = "secundarios" =>
       q.op = "crear" /\ maestro[q.m].estatus \in Vivos /\ maestro[q.m].tipos = {}
  /\ q.en = "leerBaja" => q.op = "quitar"

\* A removal lists the types that the contract still has; a cancellation starts
\* with a live contract, and leaves one whose types no other live one has.
SabeDeQuitas(q) ==
  /\ q.en \in {"buscarFila", "borrarFila"} => q.m \in MaestrosVivos /\ maestro[q.m].tipos = q.lista
  /\ q.en = "borrarFila" => q.tipo \in q.lista
  /\ q.op = "cancelar" => q.estatus = "CANCELADO"
  /\ q.en \in {"modificatorios", "cancelarModificatorio", "cancelarMaestro"} =>
       q.op = "cancelar" /\ q.m \in MaestrosVivos
  /\ q.en = "avisarBaja" =>
       HayMaestro(q.m) /\ (SinProrrogas => maestro[q.m].tipos \cap Cubiertos = {})

\* What ends or reopens a contract has its types, and an extension of the term
\* is there; a station is added without services.
SabeDePlazos(q) ==
  /\ q.en = "terminar" => \A m \in q.lista : m \in Maestros /\ maestro[m].tipos \subseteq q.tipos
  /\ q.en \in {"leerEstatus", "cambiarEstatus"} => q.tipos = maestro[q.m].tipos
  /\ q.en \in {"leerMaestro", "tipos", "leerEstatus", "cambiarEstatus"} \/
       (q.en = "contar" /\ q.op # "crear") => ~SinProrrogas
  /\ q.op \in {"descartar", "revocar"} /\ q.en \in {"leer", "corregir"} =>
       q.i \in DOMAIN modificatorio
  /\ q.en \in {"contarEstacion", "guardarEstacion"} => q.op = "estacion" /\ ServiciosDe(q.e) = {}
  /\ q.en \notin {"leerEstacion", "buscarEstacion", "guardarServicio", "leerServicio",
                  "escribirServicio"}

SabeDeRed(q) == SabeDeAltas(q) /\ SabeDeQuitas(q) /\ SabeDePlazos(q)

\* Which step leads to each of the other phases.
SigueRed(r, h) ==
  /\ r.en = "leerBaja" => GuardarSecundarios(h)
  /\ r.en = "buscarFila" => LeerBaja(h) \/ BorrarFila(h)
  /\ r.en = "borrarFila" => BuscarFila(h)
  /\ r.en = "modificatorios" => LeerMaestro(h)
  /\ r.en = "avisarBaja" => CancelarMaestro(h)
  /\ r.en = "guardarEstacion" => ContarEstacion(h) \/ LeerEstacion(h)
  /\ r.en = "guardarServicio" => BuscarEstacion(h)
  /\ r.en \notin {"contarEstacion", "leerEstacion", "buscarEstacion", "contarVivos", "primera"}

LEMMA SigueRedAtender ==
  ASSUME TipoInv, NEW h \in Hilos, Atender(h), NEW r, r = peticion'[h], r # SinPeticion
  PROVE  SigueRed(r, h)
<1>1. Pasos(h) BY PasosDeAtender DEF TipoInv
<1>2. \A fases : Va(h, fases) => r.en \in fases BY DEF Va
<1> QED BY <1>1, <1>2, SMTT(120) DEF Pasos, Atender, SigueRed

\* The step of a request that only changes what it holds in these columns.
LEMMA TrasSeguir ==
  ASSUME TipoInv, NEW h \in Hilos, NEW en, NEW r, r = peticion'[h], r # SinPeticion, NEW c,
         SeguirSi(c, h, en)
  PROVE  c /\ r = [peticion[h] EXCEPT !.en = en] /\ r.en = en
<1>1. Responder(h) => r = SinPeticion BY MueveResponder DEF TipoInv
<1>2. c /\ Seguir(h, en) BY <1>1 DEF SeguirSi
<1> QED BY <1>2, MueveSeguir DEF TipoInv

LEMMA SabenDeAltas ==
  ASSUME TipoInv, NEW h \in Hilos, Atender(h), SabeDeAltas(peticion[h]),
         SabeDeTerminos(peticion[h]), SabeDeBajas(peticion[h]),
         NEW r, r = peticion'[h], r # SinPeticion
  PROVE  SabeDeAltas(r)'
<1> DEFINE q == peticion[h]
<1>1. Sigue(h) /\ SigueRed(r, h) BY SigueAtender, SigueRedAtender
<1>2. /\ r.op = q.op /\ r.m = q.m /\ r.estatus = q.estatus /\ r.en # "existe"
  BY <1>1 DEF Sigue
<1>3. DOMAIN q = Campos BY DEF TipoInv, PeticionesBien, PeticionBien
<1>t. /\ DOMAIN maestro = Maestros
      /\ \A m \in Maestros :
           /\ maestro[m] \in [estatus : ESTATUS_DE_CONTRATO \cup {"NO_EXISTE", "BORRADO"},
                              tipos : SUBSET Tipos]
           /\ maestro[m].tipos # {} => maestro[m].estatus \in ESTATUS_DE_CONTRATO
  BY DEF TipoInv, TablasBien
<1>4. r.op \in {"crear", "actualizar", "cancelar", "quitar"} => r.m \in Maestros
  BY <1>2 DEF SabeDeAltas
<1>5. r.en \in {"leerProveedor", "verificar"} => r.op = "crear"
  BY <1>1, <1>2 DEF Sigue, ExisteNumero, LeerProveedor, SabeDeAltas
<1>6. ASSUME r.op = "crear", r.en \in {"leerProveedor", "verificar", "contar", "guardar"}
      PROVE  maestro'[r.m] = SinMaestro
  <2>1. CASE r.en = "leerProveedor"
    <3>1. ExisteNumero(h) BY <1>1, <2>1 DEF Sigue
    <3>2. ~HayMaestro(q.m) /\ maestro' = maestro /\ q.en = "existe"
      BY <3>1, TrasSeguir DEF ExisteNumero, contratos
    <3>3. maestro[q.m].estatus # "BORRADO" /\ q.m \in Maestros
      BY <1>2, <1>4, <1>6, <3>2 DEF SabeDeAltas
    <3>4. maestro[q.m].estatus = "NO_EXISTE" /\ maestro[q.m].tipos = {}
      BY <1>t, <3>2, <3>3 DEF HayMaestro
    <3>5. maestro[q.m] = SinMaestro BY <1>t, <3>3, <3>4 DEF SinMaestro
    <3> QED BY <1>2, <3>2, <3>5
  <2>2. CASE r.en = "verificar"
    <3>1. LeerProveedor(h) BY <1>1, <2>2 DEF Sigue
    <3> QED BY <1>2, <1>6, <3>1 DEF LeerProveedor, contratos, SabeDeAltas
  <2>3. CASE r.en = "contar"
    <3>1. Verificar(h) \/ InsertarModificatorio(h) \/ LeerMaestroExtendido(h)
      BY <1>1, <2>3 DEF Sigue
    <3>2. Verificar(h)
      BY <1>2, <1>6, <3>1 DEF InsertarModificatorio, LeerMaestroExtendido, SabeDeTerminos,
                              TipoInv, PeticionesBien, PeticionBien
    <3> QED BY <1>2, <1>6, <3>2 DEF Verificar, contratos, SabeDeAltas
  <2>4. CASE r.en = "guardar"
    <3>1. ContarYEmitir(h) BY <1>1, <1>2, <1>6, <2>4 DEF Sigue, LeerMaestro
    <3> QED BY <1>2, <1>6, <3>1 DEF ContarYEmitir, contratos, SabeDeAltas
  <2> QED BY <1>6, <2>1, <2>2, <2>3, <2>4
<1>7. ASSUME r.en = "secundarios"
      PROVE  r.op = "crear" /\ maestro'[r.m].estatus \in Vivos /\ maestro'[r.m].tipos = {}
  <2>1. GuardarMaestro(h) BY <1>1, <1>7 DEF Sigue
  <2>2. q.op = "crear" /\ q.en = "guardar" /\ q.m \in Maestros /\ maestro[q.m] = SinMaestro
    BY <2>1 DEF GuardarMaestro, SabeDeAltas
  <2>3. maestro' = [maestro EXCEPT ![q.m].estatus = q.estatus]
    BY <2>1, <2>2 DEF GuardarMaestro
  <2>4. maestro'[q.m].estatus = q.estatus /\ maestro'[q.m].tipos = {}
    BY <1>t, <2>2, <2>3 DEF SinMaestro
  <2> QED BY <1>2, <2>2, <2>4 DEF SabeDeBajas
<1>8. r.en # "leerBaja"
  <2>1. ASSUME r.en = "leerBaja" PROVE FALSE
    <3>1. GuardarSecundarios(h) BY <1>1, <2>1 DEF SigueRed
    <3>2. maestro[q.m].estatus \in Vivos BY <3>1 DEF GuardarSecundarios, SabeDeAltas
    <3>3. HayMaestro(q.m) BY <3>2 DEF HayMaestro, ESTATUS_DE_CONTRATO
    <3>4. Responder(h) BY <3>1, <3>3 DEF GuardarSecundarios
    <3> QED BY <3>4, MueveResponder DEF TipoInv
  <2> QED BY <2>1
<1>9. r.en = "verificar" \/ r.en = "leerProveedor" => r.op = "crear" BY <1>5
<1> QED BY <1>2, <1>4, <1>6, <1>7, <1>8, <1>9 DEF SabeDeAltas


LEMMA SabenDeQuitas ==
  ASSUME TipoInv, NEW h \in Hilos, Atender(h), SabeDeAltas(peticion[h]), SabeDeQuitas(peticion[h]),
         SabeDeTerminos(peticion[h]), SinProrrogas => VivosAparte,
         NEW r, r = peticion'[h], r # SinPeticion
  PROVE  SabeDeQuitas(r)'
<1> DEFINE q == peticion[h]
<1>1. Sigue(h) /\ SigueRed(r, h) BY SigueAtender, SigueRedAtender
<1>2. /\ r.op = q.op /\ r.m = q.m /\ r.estatus = q.estatus BY <1>1 DEF Sigue
<1>3. DOMAIN q = Campos /\ DOMAIN peticion = Hilos
  BY DEF TipoInv, PeticionesBien, PeticionBien
<1>t. /\ DOMAIN maestro = Maestros
      /\ \A m \in Maestros : DOMAIN maestro[m] = {"estatus", "tipos"}
  BY DEF TipoInv, TablasBien
<1>r. ~Responder(h) BY MueveResponder DEF TipoInv
<1>m. PICK m0 : m0 = q.m OBVIOUS
<1>4. ASSUME r.en = "buscarFila" PROVE r.m \in MaestrosVivos' /\ maestro'[r.m].tipos = r.lista
  <2>1. CASE LeerBaja(h)
    <3>1. /\ q.en = "leerBaja" /\ maestro[q.m].estatus = "PENDIENTE" /\ maestro' = maestro
          /\ \E en : peticion' = [peticion EXCEPT ![h].lista = maestro[q.m].tipos, ![h].en = en]
      BY <1>r, <2>1 DEF LeerBaja, contratos
    <3>2. r.lista = maestro[q.m].tipos BY <1>3, <3>1 DEF Campos
    <3>3. q.m \in Maestros BY <3>1 DEF SabeDeAltas
    <3> QED BY <1>2, <3>1, <3>2, <3>3 DEF MaestrosVivos, Vivos
  <2>2. CASE BorrarFila(h)
    <3>1. /\ q.en = "borrarFila"
          /\ maestro' = [maestro EXCEPT ![q.m].tipos = @ \ {q.tipo}]
          /\ \E en : peticion' = [peticion EXCEPT ![h].lista = q.lista \ {q.tipo}, ![h].en = en]
      BY <2>2 DEF BorrarFila
    <3>2. r.lista = q.lista \ {q.tipo} BY <1>3, <3>1 DEF Campos
    <3>3. q.m \in Maestros /\ maestro[q.m].estatus \in Vivos /\ maestro[q.m].tipos = q.lista
      BY <3>1 DEF SabeDeQuitas, MaestrosVivos
    <3>4. maestro'[q.m].estatus = maestro[q.m].estatus /\ maestro'[q.m].tipos = q.lista \ {q.tipo}
      BY <1>t, <3>1, <3>3
    <3> QED BY <1>2, <3>2, <3>3, <3>4 DEF MaestrosVivos
  <2> QED BY <1>1, <1>4, <2>1, <2>2 DEF SigueRed
<1>5. ASSUME r.en = "borrarFila"
      PROVE  r.m \in MaestrosVivos' /\ maestro'[r.m].tipos = r.lista /\ r.tipo \in r.lista
  <2>1. BuscarFila(h) BY <1>1, <1>5 DEF SigueRed
  <2>2. PICK t \in q.lista :
          peticion' = [peticion EXCEPT ![h].en = "borrarFila", ![h].tipo = t]
    BY <1>r, <2>1 DEF BuscarFila
  <2>3. r.lista = q.lista /\ r.tipo = t BY <1>3, <2>2 DEF Campos
  <2>4. q.m \in MaestrosVivos /\ maestro[q.m].tipos = q.lista /\ maestro' = maestro
    BY <2>1 DEF BuscarFila, SabeDeQuitas, contratos
  <2> QED BY <1>2, <2>3, <2>4 DEF MaestrosVivos
<1>6. r.op = "cancelar" => r.estatus = "CANCELADO" BY <1>2 DEF SabeDeQuitas
<1>7. ASSUME r.en \in {"modificatorios", "cancelarModificatorio", "cancelarMaestro"}
      PROVE  r.op = "cancelar" /\ r.m \in MaestrosVivos'
  <2>1. CASE r.en = "modificatorios"
    <3>1. LeerMaestro(h) BY <1>1, <2>1 DEF SigueRed
    <3>2. /\ q.op \in {"actualizar", "cancelar"} /\ q.en = "leer" /\ maestro' = maestro
          /\ LET c == maestro[q.m].estatus \in IF q.op = "cancelar" THEN Cancelables ELSE Vivos
             IN  SeguirSi(c, h, IF q.op = "cancelar" THEN "modificatorios" ELSE "guardar")
      BY <3>1 DEF LeerMaestro, contratos
    <3>3. /\ maestro[q.m].estatus \in IF q.op = "cancelar" THEN Cancelables ELSE Vivos
          /\ r.en = IF q.op = "cancelar" THEN "modificatorios" ELSE "guardar"
      BY <1>r, <3>2, MueveSeguir DEF SeguirSi, TipoInv
    <3>4. q.op = "cancelar" /\ q.m \in Maestros /\ maestro[q.m].estatus \in Cancelables
      BY <2>1, <3>2, <3>3 DEF SabeDeAltas
    <3> QED BY <1>2, <3>2, <3>4 DEF MaestrosVivos, Vivos, Cancelables
  <2>2. CASE r.en \in {"cancelarModificatorio", "cancelarMaestro"}
    <3>1. BuscarModificatorios(h) \/ CancelarModificatorio(h) BY <1>1, <2>2 DEF Sigue
    <3>2. /\ q.en \in {"modificatorios", "cancelarModificatorio"} /\ maestro' = maestro
      BY <3>1 DEF BuscarModificatorios, CancelarModificatorio, contratos
    <3> QED BY <1>2, <3>2 DEF SabeDeQuitas, MaestrosVivos
  <2> QED BY <1>7, <2>1, <2>2
<1>8. ASSUME r.en = "avisarBaja"
      PROVE  HayMaestro(r.m)' /\ (SinProrrogas' => maestro'[r.m].tipos \cap Cubiertos' = {})
  <2>1. CancelarMaestro(h) BY <1>1, <1>8 DEF SigueRed
  <2>2. q.en = "cancelarMaestro" /\ maestro' = ConEstatus(q.m, "CANCELADO")
    BY <2>1 DEF CancelarMaestro
  <2>3. q.m \in MaestrosVivos /\ q.m \in Maestros /\ HayMaestro(q.m)
    BY <2>2, VivosHay DEF SabeDeQuitas
  <2>4. /\ maestro'[q.m].estatus = "CANCELADO"
        /\ \A m \in Maestros : maestro'[m].tipos = maestro[m].tipos
        /\ \A m \in Maestros : m # q.m => maestro'[m] = maestro[m]
    BY <1>t, <2>2, <2>3 DEF ConEstatus
  <2>5. HayMaestro(m0)' BY <1>m, <2>4 DEF HayMaestro, ESTATUS_DE_CONTRATO
  <2>6. \A m \in MaestrosVivos' : m \in MaestrosVivos /\ m # q.m
    BY <2>4, BorradoNoVive DEF MaestrosVivos
  <2>7. SinProrrogas' => VivosAparte BY ProrrogasQuedan
  <2>8. ASSUME VivosAparte PROVE maestro'[q.m].tipos \cap Cubiertos' = {}
    <3>1. \A m \in MaestrosVivos' : maestro'[q.m].tipos \cap maestro'[m].tipos = {}
      <4>1. \A m \in MaestrosVivos' : maestro[q.m].tipos \cap maestro[m].tipos = {}
        BY <2>3, <2>6, <2>8 DEF VivosAparte
      <4> QED BY <2>3, <2>4, <4>1 DEF MaestrosVivos
    <3> QED BY <3>1 DEF Cubiertos
  <2>9. HayMaestro(r.m)' BY <1>2, <1>m, <2>5 DEF HayMaestro
  <2> QED BY <1>2, <2>7, <2>8, <2>9
<1> QED BY <1>4, <1>5, <1>6, <1>7, <1>8 DEF SabeDeQuitas


LEMMA SabenDePlazos ==
  ASSUME TipoInv, NEW h \in Hilos, Atender(h), SabeDeAltas(peticion[h]), SabeDePlazos(peticion[h]),
         SabeDeTerminos(peticion[h]), NEW r, r = peticion'[h], r # SinPeticion
  PROVE  SabeDePlazos(r)'
<1> DEFINE q == peticion[h]
<1>1. Sigue(h) /\ SigueRed(r, h) BY SigueAtender, SigueRedAtender
<1>2. /\ r.op = q.op /\ r.m = q.m BY <1>1 DEF Sigue
<1>3. DOMAIN q = Campos /\ DOMAIN peticion = Hilos
  BY DEF TipoInv, PeticionesBien, PeticionBien
<1>t. /\ DOMAIN maestro = Maestros
      /\ \A m \in Maestros : DOMAIN maestro[m] = {"estatus", "tipos"}
  BY DEF TipoInv, TablasBien
<1>r. ~Responder(h) BY MueveResponder DEF TipoInv
<1>p. ~SinProrrogas => ~SinProrrogas' BY ProrrogasQuedan
<1>4. ASSUME r.en = "terminar"
      PROVE  \A m \in r.lista : m \in Maestros /\ maestro'[m].tipos \subseteq r.tipos
  <2>1. CASE LeerVencidos(h)
    <3> DEFINE porTerminar == {m \in {n \in Maestros : Vencido(n)} : maestro[m].estatus \in Vivos}
               suyos == UNION {maestro[m].tipos : m \in porTerminar}
    <3>1. /\ maestro' = maestro
          /\ \E en : peticion' = [peticion EXCEPT ![h].lista = porTerminar, ![h].tipos = suyos,
                                                  ![h].en = en]
      BY <2>1 DEF LeerVencidos, contratos
    <3>2. \A m \in porTerminar : m \in Maestros /\ maestro[m].tipos \subseteq suyos
      OBVIOUS
    <3> HIDE DEF porTerminar, suyos
    <3>3. r.lista = porTerminar /\ r.tipos = suyos BY <1>3, <3>1 DEF Campos
    <3> QED BY <3>1, <3>2, <3>3
  <2>2. CASE TerminarMaestro(h)
    <3>1. /\ q.en = "terminar"
          /\ \E m \in q.lista : \E en :
               /\ maestro' = ConEstatus(m, "TERMINADO")
               /\ peticion' = [peticion EXCEPT ![h].lista = q.lista \ {m}, ![h].en = en]
      BY <2>2 DEF TerminarMaestro
    <3>2. PICK m \in q.lista : \E en :
               /\ maestro' = ConEstatus(m, "TERMINADO")
               /\ peticion' = [peticion EXCEPT ![h].lista = q.lista \ {m}, ![h].en = en]
      BY <3>1
    <3>3. r.lista = q.lista \ {m} /\ r.tipos = q.tipos BY <1>3, <3>2 DEF Campos
    <3>4. \A n \in Maestros : maestro'[n].tipos = maestro[n].tipos
      BY <1>t, <3>2 DEF ConEstatus
    <3> QED BY <3>1, <3>3, <3>4 DEF SabeDePlazos
  <2> QED BY <1>1, <1>4, <2>1, <2>2 DEF Sigue
<1>5. ASSUME r.en \in {"leerEstatus", "cambiarEstatus"}
      PROVE  r.tipos = maestro'[r.m].tipos /\ ~SinProrrogas'
  <2>1. CASE r.en = "leerEstatus"
    <3>1. LeerTipos(h) BY <1>1, <2>1 DEF Sigue
    <3>2. /\ q.en = "tipos" /\ maestro' = maestro
          /\ peticion' = [peticion EXCEPT ![h].en = "leerEstatus", ![h].tipos = maestro[q.m].tipos]
      BY <1>r, <3>1 DEF LeerTipos, contratos
    <3>3. r.tipos = maestro[q.m].tipos BY <1>3, <3>2 DEF Campos
    <3> QED BY <1>2, <1>p, <3>2, <3>3 DEF SabeDePlazos
  <2>2. CASE r.en = "cambiarEstatus"
    <3>1. LeerParaCambiar(h) BY <1>1, <2>2 DEF Sigue
    <3>2. /\ q.en = "leerEstatus" /\ maestro' = maestro /\ Seguir(h, "cambiarEstatus")
      BY <1>r, <3>1 DEF LeerParaCambiar, SeguirSi, contratos
    <3>3. r.tipos = q.tipos BY <1>3, <3>2 DEF Seguir, Campos
    <3> QED BY <1>2, <1>p, <3>2, <3>3 DEF SabeDePlazos
  <2> QED BY <1>5, <2>1, <2>2
<1>6. ASSUME r.en = "leerMaestro" PROVE ~SinProrrogas'
  <2>1. CorregirModificatorio(h) BY <1>1, <1>6 DEF Sigue
  <2>2. q.en = "corregir" /\ q.op \in {"descartar", "revocar"} /\ q.tipo = "TIME"
    BY <1>r, <2>1 DEF CorregirModificatorio, SeguirSi
  <2>3. q.i \in DOMAIN modificatorio /\ modificatorio[q.i].extension = "TIME"
    BY <2>2 DEF SabeDePlazos, SabeDeTerminos
  <2> QED BY <1>p, <2>3 DEF SinProrrogas
<1>7. ASSUME r.en = "tipos" PROVE ~SinProrrogas'
  <2>1. ContarPorTermino(h) BY <1>1, <1>7 DEF Sigue
  <2> QED BY <1>p, <2>1 DEF ContarPorTermino, SabeDePlazos
<1>8. ASSUME r.en = "contar", r.op # "crear" PROVE ~SinProrrogas'
  <2>1. Verificar(h) \/ InsertarModificatorio(h) \/ LeerMaestroExtendido(h)
    BY <1>1, <1>8 DEF Sigue
  <2>2. ~Verificar(h) BY <1>2, <1>8 DEF Verificar, SabeDeAltas
  <2>3. CASE LeerMaestroExtendido(h) BY <1>p, <2>3 DEF LeerMaestroExtendido, SabeDePlazos
  <2>4. CASE InsertarModificatorio(h)
    <3>1. q.op = "extender"
      BY <2>4 DEF InsertarModificatorio, TipoInv, PeticionesBien, PeticionBien
    <3>2. Ocupada(h)' BY <1>8 DEF Ocupada
    <3>3. SabeDeTerminos(peticion[h])' BY <3>2, AparteSabe
    <3> QED BY <1>2, <1>8, <3>1, <3>3 DEF SabeDeTerminos
  <2> QED BY <2>1, <2>2, <2>3, <2>4
<1>9. ASSUME r.op \in {"descartar", "revocar"}, r.en \in {"leer", "corregir"}
      PROVE  r.i \in DOMAIN modificatorio'
  <2>1. LeerModificatorio(h) BY <1>1, <1>9 DEF Sigue
  <2>2. /\ q.en = "leer" /\ modificatorio' = modificatorio
        /\ \E tipo : peticion' = [peticion EXCEPT ![h].en = "corregir", ![h].tipo = tipo]
    BY <1>r, <2>1 DEF LeerModificatorio, contratos
  <2>3. r.i = q.i BY <1>3, <2>2 DEF Campos
  <2> QED BY <1>2, <1>9, <2>2, <2>3 DEF SabeDePlazos
<1>10. ASSUME r.en \in {"contarEstacion", "guardarEstacion"}
       PROVE  r.op = "estacion" /\ ServiciosDe(r.e)' = {}
  <2>1. ContarEstacion(h) \/ LeerEstacion(h) BY <1>1, <1>10 DEF SigueRed
  <2>2. ~LeerEstacion(h) BY DEF LeerEstacion, SabeDePlazos
  <2>3. /\ q.en = "contarEstacion" /\ servicio' = servicio
        /\ \E c : peticion' = [peticion EXCEPT ![h].en = "guardarEstacion", ![h].habilitado = c]
    BY <2>1, <2>2 DEF ContarEstacion, red
  <2>4. r.e = q.e BY <1>3, <2>3 DEF Campos
  <2> QED BY <1>2, <2>3, <2>4 DEF SabeDePlazos, ServiciosDe
<1>11. r.en \notin {"leerEstacion", "buscarEstacion", "guardarServicio", "leerServicio",
                    "escribirServicio"}
  BY <1>1 DEF Sigue, SigueRed, BuscarEstacion, LeerServicio, SabeDePlazos
<1> QED BY <1>4, <1>5, <1>6, <1>7, <1>8, <1>9, <1>10, <1>11 DEF SabeDePlazos


----
(* The types that the contracts cover, while a request is about to change      *)
(* them or to tell the stations that it did.                                   *)

\* The most types that may be on: a create told the stations before it saves
\* the types, a removal before it removes them, and the ends of a contract after.
Alto(q) ==
  CASE q.op = "crear" /\ q.en \in {"guardar", "secundarios"} -> Cubiertos \cup TiposDe[q.m]
    [] q.en \in {"buscarFila", "borrarFila"} -> Cubiertos \ q.lista
    [] q.en = "avisarBaja" -> Cubiertos \cup maestro[q.m].tipos
    [] q.en \in {"terminar", "vigentes"} -> Cubiertos \cup q.tipos
    [] OTHER -> Cubiertos

\* The types that have to be on.
Bajo(q) ==
  CASE q.op = "crear" /\ q.en \in {"guardar", "secundarios"} -> Cubiertos \cup TiposDe[q.m]
    [] q.en \in {"buscarFila", "borrarFila"} -> Cubiertos \ q.lista
    [] OTHER -> Cubiertos

\* The phases of a request that may have told the stations already.
YaAviso == {"guardar", "secundarios", "buscarFila", "borrarFila", "borrarMaestro", "proveedores",
            "contarDeProveedor", "libre"}

RedBien(v, q) ==
  /\ Forma(v) /\ EstacionesSegun(v) /\ SabeDeRed(q)
  /\ Techo(v, Alto(q)) /\ (SinProrrogas => Suelo(v, Bajo(q)))
  /\ q.en \notin YaAviso => v = Evento

RedInv ==
  incidentes = 0 /\ fallos = 0 =>
    RedEntera /\ \E v, q : Unica(v) /\ EnCurso(q) /\ RedBien(v, q)

\* A step leaves the network so that the request r may go on.
RedSigue(r) == RedEntera' /\ \E w : Unica(w)' /\ RedBien(w, r)'

LEMMA AltoYBajo ==
  ASSUME NEW q
  PROVE  /\ /\ q.en \notin {"guardar", "secundarios", "buscarFila", "borrarFila", "avisarBaja",
                            "terminar", "vigentes"}
            => Alto(q) = Cubiertos /\ Bajo(q) = Cubiertos
         /\ q.en = "guardar" /\ q.op # "crear" => Alto(q) = Cubiertos /\ Bajo(q) = Cubiertos
         /\ q.en \in {"guardar", "secundarios"} /\ q.op = "crear" =>
              Alto(q) = Cubiertos \cup TiposDe[q.m] /\ Bajo(q) = Cubiertos \cup TiposDe[q.m]
         /\ q.en \in {"buscarFila", "borrarFila"} =>
              Alto(q) = Cubiertos \ q.lista /\ Bajo(q) = Cubiertos \ q.lista
         /\ q.en = "avisarBaja" =>
              Alto(q) = Cubiertos \cup maestro[q.m].tipos /\ Bajo(q) = Cubiertos
         /\ q.en \in {"terminar", "vigentes"} =>
              Alto(q) = Cubiertos \cup q.tipos /\ Bajo(q) = Cubiertos
BY DEF Alto, Bajo

\* The event is what it was, or goes on.
LEMMA RedSigueIgual ==
  ASSUME NEW v, NEW w, Relevo(v, w), NEW q, RedBien(v, q), NEW r, SabeDeRed(r)',
         Alto(q) \subseteq Alto(r)', SinProrrogas' => SinProrrogas /\ Bajo(r)' \subseteq Bajo(q),
         v = Evento \/ (q.en \in YaAviso => r.en \in YaAviso)
  PROVE  RedSigue(r)
<1>1. PICK a : a = Alto(q) OBVIOUS
<1>2. PICK b : b = Bajo(q) OBVIOUS
<1>3. Techo(w, a)' /\ (SinProrrogas' => Suelo(w, b)')
  <2>1. Techo(v, a) /\ (SinProrrogas => Suelo(v, b)) /\ MismoFuturo(v, w)
    BY <1>1, <1>2 DEF RedBien, Relevo
  <2> QED BY <2>1, TechosQuedan
<1>4. Techo(w, Alto(r))' BY <1>1, <1>3 DEF Techo
<1>5. SinProrrogas' => Suelo(w, Bajo(r))' BY <1>2, <1>3 DEF Suelo
<1>6. r.en \notin YaAviso => w = Evento BY DEF RedBien, Relevo
<1>7. RedBien(w, r)' BY <1>4, <1>5, <1>6 DEF RedBien, Relevo, YaAviso, Evento
<1> QED BY <1>7 DEF RedSigue, Relevo

\* The stations are told.
LEMMA RedAvisada ==
  ASSUME TipoInv, UNCHANGED <<estacion, servicio, renovacion>>, RedEntera, EstacionesSegun(Evento),
         NEW clase \in DeEstaciones, NEW T, NEW w, w = DeTipos(clase, T)
  PROVE  /\ Forma(w)' /\ EstacionesSegun(w)' /\ RedEntera'
         /\ \A s \in Servicios :
              /\ HayServicio(s)' <=> HayServicio(s)
              /\ servicio'[s].tipo = servicio[s].tipo
              /\ Futuro(w, s)' <=> IF servicio[s].tipo \in T THEN Enciende(clase)
                                   ELSE Futuro(Evento, s)
<1>1. /\ w.clase = clase /\ w.tipos = T /\ w.en = "inicio" /\ w.servicios = {}
      /\ w.estaciones = {} /\ w.clase \in DeEstaciones /\ w.clase \notin DeServiciosVarios
  BY DEF DeTipos, Evento, DeEstaciones, DeServiciosVarios
<1>2. Evento.servicios = {} /\ Evento.estaciones = {} /\ ~PorLeer(Evento)
  BY EventoVacio DEF PorLeer, DeRed
<1>3. \A s : HayServicio(s)' <=> HayServicio(s) BY DEF HayServicio
<1>4. \A e : ServiciosDe(e)' = ServiciosDe(e) BY DEF ServiciosDe
<1>5. Forma(w)' BY <1>1 DEF Forma
<1>6. EstacionesSegun(w)' BY <1>1, <1>2, <1>4 DEF EstacionesSegun, Conmutada, Elegido
<1>7. RedEntera' BY <1>3 DEF RedEntera, HayEstacion
<1>8. ASSUME NEW s \in Servicios
      PROVE  Futuro(w, s)' <=> IF servicio[s].tipo \in T THEN Enciende(clase)
                               ELSE Futuro(Evento, s)
  BY <1>1, <1>2 DEF Futuro, Elegido, PorLeer
<1> QED BY <1>3, <1>5, <1>6, <1>7, <1>8

LEMMA RedSigueAviso ==
  ASSUME TipoInv, UNCHANGED <<estacion, servicio, renovacion>>, RedEntera, NEW q,
         RedBien(Evento, q), NEW clase \in DeEstaciones, NEW T, Unica(DeTipos(clase, T))',
         NEW r, SabeDeRed(r)', r.en \in YaAviso, SinProrrogas' => SinProrrogas,
         clase = "enable-stations" =>
           /\ Alto(q) \cup T \subseteq Alto(r)'
           /\ SinProrrogas => Bajo(r)' \subseteq Bajo(q) \cup T,
         clase = "disable-stations" =>
           /\ Alto(q) \ T \subseteq Alto(r)'
           /\ SinProrrogas => Bajo(r)' \subseteq Bajo(q) \ T
  PROVE  RedSigue(r)
<1>1. PICK w : w = DeTipos(clase, T) OBVIOUS
<1>2. /\ Forma(w)' /\ EstacionesSegun(w)' /\ RedEntera'
      /\ \A s \in Servicios :
           /\ HayServicio(s)' <=> HayServicio(s)
           /\ servicio'[s].tipo = servicio[s].tipo
           /\ Futuro(w, s)' <=> IF servicio[s].tipo \in T THEN Enciende(clase)
                                ELSE Futuro(Evento, s)
  BY <1>1, RedAvisada DEF RedBien
<1>3. /\ \A s \in Servicios : HayServicio(s) /\ Futuro(Evento, s) => servicio[s].tipo \in Alto(q)
      /\ SinProrrogas => \A s \in Servicios :
           HayServicio(s) /\ servicio[s].tipo \in Bajo(q) => Futuro(Evento, s)
  BY DEF RedBien, Techo, Suelo
<1>4. \/ clase = "enable-stations" /\ Enciende(clase)
      \/ clase = "disable-stations" /\ ~Enciende(clase)
  BY DEF DeEstaciones, Enciende
<1>5. Techo(w, Alto(r))'
  <2>1. ASSUME NEW s \in Servicios, HayServicio(s)', Futuro(w, s)'
        PROVE  servicio'[s].tipo \in Alto(r)'
    <3>1. CASE clase = "enable-stations" BY <1>2, <1>3, <2>1, <3>1
    <3>2. CASE clase = "disable-stations" /\ ~Enciende(clase) BY <1>2, <1>3, <2>1, <3>2
    <3> QED BY <1>4, <3>1, <3>2
  <2> QED BY <2>1 DEF Techo
<1>6. ASSUME SinProrrogas' PROVE Suelo(w, Bajo(r))'
  <2>1. ASSUME NEW s \in Servicios, HayServicio(s)', servicio'[s].tipo \in Bajo(r)'
        PROVE  Futuro(w, s)'
    <3>1. CASE clase = "enable-stations" /\ Enciende(clase)
      BY <1>2, <1>3, <1>6, <2>1, <3>1
    <3>2. CASE clase = "disable-stations" BY <1>2, <1>3, <1>6, <2>1, <3>2
    <3> QED BY <1>4, <3>1, <3>2
  <2> QED BY <2>1 DEF Suelo
<1>7. RedBien(w, r)' BY <1>2, <1>5, <1>6 DEF RedBien
<1>8. Unica(w)' BY <1>1 DEF Unica
<1> QED BY <1>2, <1>7, <1>8 DEF RedSigue


\* The request h goes from q to r, and v is the event that there is.
EnPaso(h, v, q, r) ==
  /\ Atender(h) /\ q = peticion[h] /\ r = peticion'[h]
  /\ Unica(v) /\ RedBien(v, q) /\ RedEntera /\ SabeDeRed(r)' /\ (SinProrrogas' => SinProrrogas)

\* The steps that leave the masters, the network and the events alone.
Sencilla(h) ==
  \/ ContarVivos(h) \/ EscribirProveedor(h) \/ ContarEstacion(h) \/ LeerEstacion(h)
  \/ BuscarEstacion(h) \/ LeerServicio(h) \/ isFirstRenovation(h) \/ LeerAnterior(h)
  \/ LeerRenovacion(h) \/ ExisteNumero(h) \/ LeerProveedor(h) \/ Verificar(h) \/ LeerMaestro(h)
  \/ BuscarModificatorios(h) \/ CancelarModificatorio(h) \/ LeerParaExtender(h)
  \/ InsertarModificatorio(h) \/ LeerModificatorio(h) \/ CorregirModificatorio(h)
  \/ LeerMaestroExtendido(h) \/ ContarPorTermino(h) \/ LeerParaCambiar(h) \/ LeerVencidos(h)
  \/ LeerProveedores(h)

LEMMA SencillaEs ==
  ASSUME NEW h \in Hilos, Sencilla(h)
  PROVE  /\ UNCHANGED <<maestro, estacion, servicio, renovacion, eventos>>
         /\ peticion[h].en \in
              {"contarVivos", "escribirProveedor", "contarEstacion", "leerEstacion",
               "buscarEstacion", "leerServicio", "primera", "anterior", "leerRenovacion", "existe",
               "leerProveedor", "verificar", "leer", "modificatorios", "cancelarModificatorio",
               "insertar", "corregir", "leerMaestro", "contar", "leerEstatus", "vencidos",
               "proveedores"}
         /\ peticion[h].en = "contar" => peticion[h].op # "crear"
         /\ peticion[h].en = "proveedores" => LeerProveedores(h)
<1>1. CASE ContarVivos(h) \/ EscribirProveedor(h) \/ ContarEstacion(h) \/ LeerEstacion(h) \/
           BuscarEstacion(h) \/ LeerServicio(h)
  BY <1>1 DEF ContarVivos, EscribirProveedor, ContarEstacion, LeerEstacion, BuscarEstacion,
              LeerServicio, contratos, red
<1>2. CASE isFirstRenovation(h) \/ LeerAnterior(h) \/ LeerRenovacion(h) \/ ExisteNumero(h) \/
           LeerProveedor(h) \/ Verificar(h)
  BY <1>2 DEF isFirstRenovation, LeerAnterior, LeerRenovacion, ExisteNumero, LeerProveedor,
              Verificar, contratos, red
<1>3. CASE LeerMaestro(h) \/ BuscarModificatorios(h) \/ CancelarModificatorio(h) \/
           LeerParaExtender(h) \/ InsertarModificatorio(h) \/ LeerModificatorio(h)
  BY <1>3 DEF LeerMaestro, BuscarModificatorios, CancelarModificatorio, LeerParaExtender,
              InsertarModificatorio, LeerModificatorio, contratos, red
<1>4. CASE CorregirModificatorio(h) \/ LeerMaestroExtendido(h) \/ ContarPorTermino(h) \/
           LeerParaCambiar(h) \/ LeerVencidos(h) \/ LeerProveedores(h)
  BY <1>4 DEF CorregirModificatorio, LeerMaestroExtendido, ContarPorTermino, LeerParaCambiar,
              LeerVencidos, LeerProveedores, contratos, red
<1> QED BY <1>1, <1>2, <1>3, <1>4 DEF Sencilla

LEMMA RedSencilla ==
  ASSUME TipoInv, NEW h \in Hilos, NEW v, NEW q, NEW r, EnPaso(h, v, q, r), Sencilla(h)
  PROVE  RedSigue(r)
<1>1. /\ UNCHANGED <<maestro, estacion, servicio, renovacion, eventos>>
      /\ q.en \notin {"guardar", "secundarios", "buscarFila", "borrarFila", "avisarBaja", "terminar",
                      "vigentes", "leerBaja", "cancelarMaestro", "libre", "borrarMaestro",
                      "contarDeProveedor"}
      /\ q.en = "contar" => q.op # "crear"
      /\ q.en = "proveedores" => LeerProveedores(h)
  BY SencillaEs DEF EnPaso
<1>2. Relevo(v, v)
  <2>1. Unica(v)' BY <1>1 DEF Unica, EnPaso
  <2> QED BY <1>1, <2>1, RelevoIgual DEF EnPaso, RedBien
<1>3. Alto(q) = Cubiertos /\ Bajo(q) = Cubiertos BY <1>1, AltoYBajo
<1>4. Cubiertos' = Cubiertos BY <1>1 DEF Cubiertos, MaestrosVivos
<1>5. /\ Cubiertos' \subseteq Alto(r)' /\ Bajo(r)' \subseteq Cubiertos'
      /\ q.en \in YaAviso => r.en \in YaAviso
  <2>1. CASE r = SinPeticion
    <3>1. r.en = "libre" BY <2>1 DEF SinPeticion
    <3>2. Alto(r)' = Cubiertos' /\ Bajo(r)' = Cubiertos' BY <3>1 DEF Alto, Bajo
    <3> QED BY <3>1, <3>2 DEF YaAviso
  <2>2. CASE r # SinPeticion
    <3>1. Sigue(h) /\ SigueRed(r, h) /\ r.op = q.op
      <4>1. Sigue(h) /\ SigueRed(r, h) BY <2>2, SigueAtender, SigueRedAtender DEF EnPaso
      <4> QED BY <2>2, <4>1 DEF Sigue, EnPaso
    <3>2. ~(r.op = "crear" /\ r.en = "guardar")
      BY <1>1, <2>2, <3>1 DEF Sigue, EnPaso, ContarYEmitir, LeerMaestro
    <3>3. r.en # "secundarios" BY <1>1, <2>2, <3>1 DEF Sigue, EnPaso, GuardarMaestro
    <3>4. r.en \notin {"buscarFila", "borrarFila", "avisarBaja"}
      BY <1>1, <3>1 DEF SigueRed, EnPaso, LeerBaja, BorrarFila, BuscarFila, CancelarMaestro
    <3>5. /\ Alto(r)' = Cubiertos' \/ Alto(r)' = Cubiertos' \cup r.tipos
          /\ Bajo(r)' = Cubiertos'
      BY <3>2, <3>3, <3>4 DEF Alto, Bajo
    <3>6. q.en \in YaAviso => r.en \in YaAviso
      <4>1. q.en \in YaAviso => LeerProveedores(h) BY <1>1 DEF YaAviso
      <4>2. ASSUME LeerProveedores(h) PROVE r.en = "contarDeProveedor"
        BY <4>2 DEF LeerProveedores, EnPaso, TipoInv, PeticionesBien, PeticionBien, Campos
      <4> QED BY <4>1, <4>2 DEF YaAviso
    <3> QED BY <3>5, <3>6
  <2> QED BY <2>1, <2>2
<1> QED BY <1>2, <1>3, <1>4, <1>5, RedSigueIgual DEF EnPaso


\* The steps that write the network while no event switches it.
LEMMA RelevoDeEstacion ==
  ASSUME TipoInv, NEW h \in Hilos, GuardarEstacion(h), SabeDePlazos(peticion[h]), Unica(Evento),
         EstacionesSegun(Evento), RedEntera
  PROVE  Relevo(Evento, Evento)
<1>1. PICK e : e = peticion[h].e OBVIOUS
<1>2. PICK nueva : nueva = Encendida(peticion[h].habilitado) OBVIOUS
<1>3. /\ peticion[h].en = "guardarEstacion" /\ UNCHANGED <<servicio, renovacion, eventos>>
  BY DEF GuardarEstacion
<1>4. peticion[h].op = "estacion" /\ ServiciosDe(e) = {} BY <1>1, <1>3 DEF SabeDePlazos
<1>5. estacion' = [estacion EXCEPT ![e] = nueva] BY <1>1, <1>2, <1>4 DEF GuardarEstacion
<1>6. DOMAIN estacion = Estaciones /\ \A x \in Estaciones : x # e => estacion'[x] = estacion[x]
  BY <1>5 DEF TipoInv, TablasBien
<1>7. /\ \A x : ServiciosDe(x)' = ServiciosDe(x)
      /\ \A s : HayServicio(s)' <=> HayServicio(s)
  BY <1>3 DEF ServiciosDe, HayServicio
<1>8. Evento.servicios = {} /\ Evento.estaciones = {} /\ Evento.en = "inicio" /\ ~PorLeer(Evento)
      /\ Evento.clase \notin DeEstaciones
  BY EventoVacio DEF PorLeer, DeRed
<1>9. Forma(Evento)' BY <1>8 DEF Forma, PorLeer
<1>10. EstacionesSegun(Evento)'
  BY <1>3, <1>4, <1>6, <1>7, <1>8 DEF EstacionesSegun, Conmutada, Elegido
<1>11. RedEntera'
  <2>1. ASSUME NEW s \in Servicios, HayServicio(s)
        PROVE  servicio[s].estacion \in Estaciones /\ servicio[s].estacion # e
    BY <1>4, <2>1 DEF ServiciosDe, TipoInv, TablasBien, HayServicio, Servicio
  <2> QED BY <1>3, <1>6, <1>7, <2>1 DEF RedEntera, HayEstacion
<1>12. MismoFuturo(Evento, Evento)
  BY <1>3, <1>7, <1>8 DEF MismoFuturo, Futuro, Elegido, PorLeer
<1>13. Unica(Evento)' BY <1>3 DEF Unica
<1> QED BY <1>9, <1>10, <1>11, <1>12, <1>13 DEF Relevo

LEMMA RelevoDeRenovar ==
  ASSUME TipoInv, NEW h \in Hilos, BajaAnterior(h) \/ GuardarRenovacion(h), Unica(Evento),
         Forma(Evento), EstacionesSegun(Evento), RedEntera
  PROVE  Relevo(Evento, Evento)
<1>1. UNCHANGED <<estacion, servicio, eventos>> BY DEF BajaAnterior, GuardarRenovacion
<1>2. renovacion \in [Servicios -> Seq(Renovacion)] BY DEF TipoInv, TablasBien
<1>3. \A s \in Servicios : renovacion[s] # <<>> => renovacion'[s] # <<>>
  <2> SUFFICES ASSUME NEW s \in Servicios, renovacion[s] # <<>> PROVE renovacion'[s] # <<>>
    OBVIOUS
  <2>1. DOMAIN renovacion[s] # {}
    <3> DEFINE filas == renovacion[s]
    <3>1. filas \in Seq(Renovacion) /\ filas # <<>> BY <1>2
    <3> HIDE DEF filas
    <3>2. Len(filas) \in Nat /\ Len(filas) # 0 /\ DOMAIN filas = 1..Len(filas)
      BY <3>1, EmptySeq
    <3>3. 1 \in DOMAIN filas BY <3>2
    <3> QED BY <3>3 DEF filas
  <2>2. CASE BajaAnterior(h)
    <3>1. renovacion' = [renovacion EXCEPT ![peticion[h].s][peticion[h].i] = Anterior]
      BY <2>2 DEF BajaAnterior
    <3>2. DOMAIN renovacion'[s] = DOMAIN renovacion[s] BY <1>2, <3>1
    <3> QED BY <2>1, <3>2
  <2>3. CASE GuardarRenovacion(h)
    <3>1. renovacion' = [renovacion EXCEPT ![peticion[h].s] = Append(@, NuevaRenovacion)]
      BY <2>3 DEF GuardarRenovacion
    <3>2. CASE s = peticion[h].s
      <4>1. renovacion'[s] = Append(renovacion[s], NuevaRenovacion) BY <1>2, <3>1, <3>2
      <4>2. NuevaRenovacion \in Renovacion BY DEF NuevaRenovacion, Renovacion
      <4>3. Len(renovacion'[s]) = Len(renovacion[s]) + 1 /\ Len(renovacion[s]) \in Nat
        BY <1>2, <4>1, <4>2
      <4> QED BY <4>3
    <3>3. CASE s # peticion[h].s BY <1>2, <3>1, <3>3
    <3> QED BY <3>2, <3>3
  <2> QED BY <2>2, <2>3
<1>4. /\ \A x : ServiciosDe(x)' = ServiciosDe(x)
      /\ \A s : HayServicio(s)' <=> HayServicio(s)
  BY <1>1 DEF ServiciosDe, HayServicio
<1>5. Forma(Evento)' BY <1>1, <1>4 DEF Forma, PorLeer
<1>6. EstacionesSegun(Evento)' BY <1>1, <1>4 DEF EstacionesSegun, Conmutada, Elegido
<1>7. RedEntera' BY <1>1, <1>3, <1>4 DEF RedEntera, HayEstacion
<1>8. MismoFuturo(Evento, Evento) BY <1>1, <1>4 DEF MismoFuturo, Futuro, Elegido, PorLeer
<1>9. Unica(Evento)' BY <1>1 DEF Unica
<1> QED BY <1>5, <1>6, <1>7, <1>8, <1>9 DEF Relevo

LEMMA RedDeLaRed ==
  ASSUME TipoInv, NEW h \in Hilos, NEW v, NEW q, NEW r, EnPaso(h, v, q, r),
         GuardarEstacion(h) \/ BajaAnterior(h) \/ GuardarRenovacion(h)
  PROVE  RedSigue(r)
<1>1. UNCHANGED maestro /\ q.en \in {"guardarEstacion", "baja", "nueva"}
  BY DEF GuardarEstacion, BajaAnterior, GuardarRenovacion, contratos, EnPaso
<1>2. v = Evento BY <1>1 DEF EnPaso, RedBien, YaAviso
<1>3. Relevo(Evento, Evento)
  BY <1>2, RelevoDeEstacion, RelevoDeRenovar DEF EnPaso, RedBien, SabeDeRed
<1>4. r.en \in {"libre", "nueva"} BY MueveResponder, MueveSeguir
     DEF GuardarEstacion, BajaAnterior, GuardarRenovacion, EnPaso, TipoInv
<1>5. Cubiertos' = Cubiertos BY <1>1 DEF Cubiertos, MaestrosVivos
<1>6. Alto(q) = Cubiertos /\ Bajo(q) = Cubiertos BY <1>1, AltoYBajo
<1>7. Alto(r)' = Cubiertos' /\ Bajo(r)' = Cubiertos' BY <1>4 DEF Alto, Bajo
<1>8. q.en \notin YaAviso BY <1>1 DEF YaAviso
<1> QED BY <1>2, <1>3, <1>5, <1>6, <1>7, <1>8, RedSigueIgual DEF EnPaso


\* The types that are covered, one by one.
LEMMA CubiertosSon ==
  /\ \A t : t \in Cubiertos <=>
       \E m \in Maestros : maestro[m].estatus \in Vivos /\ t \in maestro[m].tipos
  /\ \A t : t \in Cubiertos' <=>
       \E m \in Maestros : maestro'[m].estatus \in Vivos /\ t \in maestro'[m].tipos
BY DEF Cubiertos, MaestrosVivos

LEMMA CubiertosIguales ==
  ASSUME \A m \in Maestros :
           /\ maestro'[m].tipos = maestro[m].tipos
           /\ maestro[m].tipos # {} =>
                (maestro'[m].estatus \in Vivos <=> maestro[m].estatus \in Vivos)
  PROVE  Cubiertos' = Cubiertos
<1>1. \A t : t \in Cubiertos' <=> t \in Cubiertos BY CubiertosSon
<1> QED BY <1>1

\* The steps that write the masters after the stations were told, or before.
Escribe(h) ==
  \/ GuardarMaestro(h) \/ GuardarSecundarios(h) \/ ActualizarMaestro(h) \/ BuscarFila(h)
  \/ BorrarFila(h) \/ BorrarMaestro(h) \/ CancelarMaestro(h) \/ TerminarMaestro(h)
  \/ ContarDeProveedor(h)

LEMMA RelevoDeEscribir ==
  ASSUME TipoInv, NEW h \in Hilos, NEW v, NEW q, NEW r, EnPaso(h, v, q, r), Escribe(h)
  PROVE  Relevo(v, v)
<1>1. UNCHANGED <<estacion, servicio, renovacion>>
  BY DEF Escribe, GuardarMaestro, GuardarSecundarios, ActualizarMaestro, BuscarFila, BorrarFila,
         BorrarMaestro, CancelarMaestro, TerminarMaestro, ContarDeProveedor, red
<1>2. Cola BY DEF TipoInv, EventosBien, Cola
<1>3. Unica(v)'
  <2>1. CASE UNCHANGED eventos BY <2>1 DEF Unica, EnPaso
  <2>2. DeProveedor("disable-provider").clase \notin DeRed
    BY DEF DeProveedor, Evento, DeRed, DeEstaciones, DeServiciosVarios
  <2>3. CASE Emitir(<<>>) \/ Emitir(<<DeProveedor("disable-provider")>>)
    BY <1>2, <2>2, <2>3, EmiteOtra DEF EnPaso
  <2>4. CASE BorrarMaestro(h)
    <3> DEFINE u == DeProveedor("disable-provider")
               c == peticion[h].op = "crear" /\ ~Retenido(peticion[h].m)
    <3>1. Emitir(IF c THEN <<u>> ELSE <<>>) BY <2>4 DEF BorrarMaestro
    <3> HIDE DEF c
    <3> QED BY <2>3, <3>1
  <2>5. CASE ContarDeProveedor(h)
    <3> DEFINE u == DeProveedor("disable-provider")
               c == countActiveContracts = 0 /\ peticion[h].habilitado
    <3>1. Emitir(IF c THEN <<u>> ELSE <<>>) BY <2>5 DEF ContarDeProveedor
    <3> HIDE DEF c
    <3> QED BY <2>3, <3>1
  <2>6. CASE ~BorrarMaestro(h) /\ ~ContarDeProveedor(h)
    <3>1. UNCHANGED eventos
      BY <2>6 DEF Escribe, GuardarMaestro, GuardarSecundarios, ActualizarMaestro, BuscarFila,
                  BorrarFila, CancelarMaestro, TerminarMaestro
    <3> QED BY <2>1, <3>1
  <2> QED BY <2>4, <2>5, <2>6
<1> QED BY <1>1, <1>3, RelevoIgual DEF EnPaso, RedBien

\* A create saves a live master without types, then its types.
LEMMA RedDeGuardar ==
  ASSUME TipoInv, NEW h \in Hilos, NEW v, NEW q, NEW r, EnPaso(h, v, q, r), GuardarMaestro(h)
  PROVE  RedSigue(r)
<1>1. Relevo(v, v) BY RelevoDeEscribir DEF Escribe
<1>2. DOMAIN q = Campos /\ DOMAIN peticion = Hilos
  BY DEF TipoInv, PeticionesBien, PeticionBien, EnPaso
<1>3. q.op = "crear" /\ q.en = "guardar" /\ q.m \in Maestros /\ maestro[q.m] = SinMaestro
  BY DEF GuardarMaestro, EnPaso, RedBien, SabeDeRed, SabeDeAltas
<1>4. maestro' = [maestro EXCEPT ![q.m].estatus = q.estatus] /\ Seguir(h, "secundarios")
  BY <1>3 DEF GuardarMaestro, EnPaso
<1>5. r.en = "secundarios" /\ r.op = "crear" /\ r.m = q.m
  BY <1>2, <1>3, <1>4 DEF Seguir, Campos, EnPaso
<1>6. Cubiertos' = Cubiertos
  <2>1. /\ DOMAIN maestro = Maestros
        /\ \A m \in Maestros : DOMAIN maestro[m] = {"estatus", "tipos"}
    BY DEF TipoInv, TablasBien
  <2>2. maestro'[q.m].tipos = {} /\ maestro[q.m].tipos = {}
    BY <1>3, <1>4, <2>1 DEF SinMaestro
  <2>3. \A m \in Maestros : m # q.m => maestro'[m] = maestro[m] BY <1>4, <2>1
  <2> QED BY <2>2, <2>3, CubiertosIguales
<1>7. /\ Alto(q) = Cubiertos \cup TiposDe[q.m] /\ Bajo(q) = Cubiertos \cup TiposDe[q.m]
      /\ Alto(r)' = Cubiertos' \cup TiposDe[r.m] /\ Bajo(r)' = Cubiertos' \cup TiposDe[r.m]
  BY <1>3, <1>5 DEF Alto, Bajo
<1>8. r.en \in YaAviso BY <1>5 DEF YaAviso
<1> QED BY <1>1, <1>5, <1>6, <1>7, <1>8, RedSigueIgual DEF EnPaso

LEMMA RedDeSecundarios ==
  ASSUME TipoInv, NEW h \in Hilos, NEW v, NEW q, NEW r, EnPaso(h, v, q, r), GuardarSecundarios(h)
  PROVE  RedSigue(r)
<1>1. Relevo(v, v) BY RelevoDeEscribir DEF Escribe
<1>3. /\ q.en = "secundarios" /\ q.op = "crear" /\ q.m \in Maestros
      /\ maestro[q.m].estatus \in Vivos /\ maestro[q.m].tipos = {}
  BY DEF GuardarSecundarios, EnPaso, RedBien, SabeDeRed, SabeDeAltas
<1>4. maestro' = [maestro EXCEPT ![q.m].tipos = TiposDe[q.m]] /\ Responder(h)
  BY <1>3 DEF GuardarSecundarios, EnPaso, HayMaestro, ESTATUS_DE_CONTRATO
<1>5. r.en = "libre" BY <1>4, MueveResponder DEF EnPaso, TipoInv
<1>6. Cubiertos' = Cubiertos \cup TiposDe[q.m]
  <2>1. /\ DOMAIN maestro = Maestros
        /\ \A m \in Maestros : DOMAIN maestro[m] = {"estatus", "tipos"}
    BY DEF TipoInv, TablasBien
  <2>2. maestro'[q.m].tipos = TiposDe[q.m] /\ maestro'[q.m].estatus \in Vivos
    BY <1>3, <1>4, <2>1
  <2>3. \A m \in Maestros : m # q.m => maestro'[m] = maestro[m] BY <1>4, <2>1
  <2>4. \A t : t \in Cubiertos' <=> t \in Cubiertos \/ t \in TiposDe[q.m]
    BY <1>3, <2>2, <2>3, CubiertosSon
  <2> QED BY <2>4
<1>7. /\ Alto(q) = Cubiertos \cup TiposDe[q.m] /\ Bajo(q) = Cubiertos \cup TiposDe[q.m]
      /\ Alto(r)' = Cubiertos' /\ Bajo(r)' = Cubiertos'
  BY <1>3, <1>5 DEF Alto, Bajo
<1>8. r.en \in YaAviso BY <1>5 DEF YaAviso
<1> QED BY <1>1, <1>6, <1>7, <1>8, RedSigueIgual DEF EnPaso

\* An update goes from a live status to another one.
LEMMA RedDeActualizar ==
  ASSUME TipoInv, NEW h \in Hilos, NEW v, NEW q, NEW r, EnPaso(h, v, q, r), ActualizarMaestro(h),
         SabeDeTerminos(q), SabeDeBajas(q)
  PROVE  RedSigue(r)
<1>1. Relevo(v, v) BY RelevoDeEscribir DEF Escribe
<1>3. /\ q.op = "actualizar" /\ q.en = "guardar" /\ q.m \in Maestros
      /\ maestro[q.m].estatus \in Vivos /\ q.estatus \in Vivos
  BY DEF ActualizarMaestro, EnPaso, RedBien, SabeDeRed, SabeDeAltas, SabeDeTerminos, SabeDeBajas
<1>4. maestro' = ConEstatus(q.m, q.estatus) /\ Responder(h)
  BY DEF ActualizarMaestro, EnPaso
<1>5. r.en = "libre" BY <1>4, MueveResponder DEF EnPaso, TipoInv
<1>6. Cubiertos' = Cubiertos
  <2>1. /\ DOMAIN maestro = Maestros
        /\ \A m \in Maestros : DOMAIN maestro[m] = {"estatus", "tipos"}
    BY DEF TipoInv, TablasBien
  <2>2. maestro' = [maestro EXCEPT ![q.m].estatus = q.estatus]
    BY <1>3, <1>4 DEF ConEstatus, HayMaestro, ESTATUS_DE_CONTRATO
  <2>3. maestro'[q.m].tipos = maestro[q.m].tipos /\ maestro'[q.m].estatus \in Vivos
    BY <1>3, <2>1, <2>2
  <2>4. \A m \in Maestros : m # q.m => maestro'[m] = maestro[m] BY <2>1, <2>2
  <2> QED BY <1>3, <2>3, <2>4, CubiertosIguales
<1>7. /\ Alto(q) = Cubiertos /\ Bajo(q) = Cubiertos
      /\ Alto(r)' = Cubiertos' /\ Bajo(r)' = Cubiertos'
  BY <1>3, <1>5 DEF Alto, Bajo
<1>8. r.en \in YaAviso BY <1>5 DEF YaAviso
<1> QED BY <1>1, <1>6, <1>7, <1>8, RedSigueIgual DEF EnPaso


\* A contract that is no longer live takes no more than its own types with it.
LEMMA CubiertosSinUno ==
  ASSUME TipoInv, NEW m \in Maestros, NEW x, x \notin Vivos, maestro' = ConEstatus(m, x)
  PROVE  /\ Cubiertos \subseteq Cubiertos' \cup maestro[m].tipos /\ Cubiertos' \subseteq Cubiertos
         /\ \A n \in Maestros : maestro'[n].tipos = maestro[n].tipos
<1>1. /\ DOMAIN maestro = Maestros
      /\ \A n \in Maestros : DOMAIN maestro[n] = {"estatus", "tipos"}
  BY DEF TipoInv, TablasBien
<1>2. \A n \in Maestros :
        /\ maestro'[n].tipos = maestro[n].tipos
        /\ n # m => maestro'[n] = maestro[n]
        /\ maestro'[n].estatus = maestro[n].estatus \/ maestro'[n].estatus = x
  <2>1. CASE HayMaestro(m) BY <1>1, <2>1 DEF ConEstatus
  <2>2. CASE ~HayMaestro(m) BY <2>2 DEF ConEstatus
  <2> QED BY <2>1, <2>2
<1>3. \A t \in Cubiertos : t \in Cubiertos' \cup maestro[m].tipos BY <1>2, CubiertosSon
<1>4. \A t \in Cubiertos' : t \in Cubiertos BY <1>2, CubiertosSon
<1> QED BY <1>2, <1>3, <1>4

LEMMA RedDeBuscarFila ==
  ASSUME TipoInv, NEW h \in Hilos, NEW v, NEW q, NEW r, EnPaso(h, v, q, r), BuscarFila(h)
  PROVE  RedSigue(r)
<1>1. Relevo(v, v) BY RelevoDeEscribir DEF Escribe
<1>2. DOMAIN q = Campos /\ DOMAIN peticion = Hilos
  BY DEF TipoInv, PeticionesBien, PeticionBien, EnPaso
<1>3. q.en = "buscarFila" /\ maestro[q.m].tipos = q.lista /\ maestro' = maestro
  BY DEF BuscarFila, EnPaso, RedBien, SabeDeRed, SabeDeQuitas, contratos
<1>4. PICK t \in q.lista : peticion' = [peticion EXCEPT ![h].en = "borrarFila", ![h].tipo = t]
  BY <1>3 DEF BuscarFila, EnPaso
<1>5. r.en = "borrarFila" /\ r.lista = q.lista BY <1>2, <1>4 DEF Campos, EnPaso
<1>6. Cubiertos' = Cubiertos BY <1>3 DEF Cubiertos, MaestrosVivos
<1>7. /\ Alto(q) = Cubiertos \ q.lista /\ Bajo(q) = Cubiertos \ q.lista
      /\ Alto(r)' = Cubiertos' \ r.lista /\ Bajo(r)' = Cubiertos' \ r.lista
  BY <1>3, <1>5 DEF Alto, Bajo
<1>8. r.en \in YaAviso BY <1>5 DEF YaAviso
<1> QED BY <1>1, <1>5, <1>6, <1>7, <1>8, RedSigueIgual DEF EnPaso

\* Each type that a removal takes away was turned off before.
LEMMA RedDeBorrarFila ==
  ASSUME TipoInv, NEW h \in Hilos, NEW v, NEW q, NEW r, EnPaso(h, v, q, r), BorrarFila(h),
         SinProrrogas => VivosAparte
  PROVE  RedSigue(r)
<1>1. Relevo(v, v) BY RelevoDeEscribir DEF Escribe
<1>2. DOMAIN q = Campos /\ DOMAIN peticion = Hilos
  BY DEF TipoInv, PeticionesBien, PeticionBien, EnPaso
<1>3. /\ q.en = "borrarFila" /\ q.m \in MaestrosVivos /\ q.m \in Maestros
      /\ maestro[q.m].tipos = q.lista /\ q.tipo \in q.lista
  BY DEF BorrarFila, EnPaso, RedBien, SabeDeRed, SabeDeQuitas, MaestrosVivos
<1> DEFINE en == IF q.lista \ {q.tipo} = {} THEN "borrarMaestro" ELSE "buscarFila"
<1>4. /\ maestro' = [maestro EXCEPT ![q.m].tipos = @ \ {q.tipo}]
      /\ peticion' = [peticion EXCEPT ![h].lista = q.lista \ {q.tipo}, ![h].en = en]
  BY DEF BorrarFila, EnPaso
<1>5. r.en = en /\ r.lista = q.lista \ {q.tipo}
  <2> HIDE DEF en
  <2> QED BY <1>2, <1>4 DEF Campos, EnPaso
<1>6. /\ Alto(q) = Cubiertos \ q.lista /\ Bajo(q) = Cubiertos \ q.lista
      /\ Alto(r)' = Cubiertos' \ r.lista /\ Bajo(r)' = Cubiertos' \ r.lista
  <2>1. CASE r.lista = {}
    <3>1. r.en = "borrarMaestro" BY <1>5, <2>1
    <3>2. Alto(r)' = Cubiertos' /\ Bajo(r)' = Cubiertos' BY <3>1 DEF Alto, Bajo
    <3> QED BY <1>3, <2>1, <3>2, AltoYBajo
  <2>2. CASE r.lista # {}
    <3>1. r.en = "buscarFila" BY <1>5, <2>2
    <3> QED BY <1>3, <3>1 DEF Alto, Bajo
  <2> QED BY <2>1, <2>2
<1>7. /\ DOMAIN maestro = Maestros
      /\ \A m \in Maestros : DOMAIN maestro[m] = {"estatus", "tipos"}
  BY DEF TipoInv, TablasBien
<1>8. /\ maestro'[q.m].tipos = q.lista \ {q.tipo}
      /\ \A m \in Maestros : maestro'[m].estatus = maestro[m].estatus
      /\ \A m \in Maestros : m # q.m => maestro'[m] = maestro[m]
  BY <1>3, <1>4, <1>7
<1>9. Alto(q) \subseteq Alto(r)'
  <2>1. \A t \in Cubiertos : t \notin q.lista => t \in Cubiertos'
    BY <1>3, <1>8, CubiertosSon
  <2> QED BY <1>5, <1>6, <2>1
<1>10. ASSUME SinProrrogas' PROVE Bajo(r)' \subseteq Bajo(q)
  <2>1. \A m \in MaestrosVivos : m # q.m => maestro[m].tipos \cap q.lista = {}
    BY <1>3, <1>10 DEF VivosAparte, EnPaso
  <2>2. \A t \in Cubiertos' : t \in Cubiertos
    <3>1. \A m \in Maestros : maestro'[m].tipos \subseteq maestro[m].tipos BY <1>3, <1>8
    <3> QED BY <1>8, <3>1, CubiertosSon
  <2>3. q.tipo \notin Cubiertos'
    <3>1. ASSUME NEW m \in Maestros, maestro'[m].estatus \in Vivos PROVE q.tipo \notin maestro'[m].tipos
      <4>1. m \in MaestrosVivos BY <1>8, <3>1 DEF MaestrosVivos
      <4>2. CASE m = q.m BY <1>8, <4>2
      <4>3. CASE m # q.m BY <1>3, <1>8, <2>1, <4>1, <4>3
      <4> QED BY <4>2, <4>3
    <3> QED BY <3>1, CubiertosSon
  <2> QED BY <1>5, <1>6, <2>2, <2>3
<1>11. r.en \in YaAviso BY <1>5 DEF YaAviso
<1> QED BY <1>1, <1>9, <1>10, <1>11, RedSigueIgual DEF EnPaso

LEMMA RedDeBorrarMaestro ==
  ASSUME TipoInv, NEW h \in Hilos, NEW v, NEW q, NEW r, EnPaso(h, v, q, r),
         BorrarMaestro(h) \/ ContarDeProveedor(h)
  PROVE  RedSigue(r)
<1>1. Relevo(v, v) BY RelevoDeEscribir DEF Escribe
<1>2. q.en \in {"borrarMaestro", "contarDeProveedor"} /\ Responder(h)
  BY DEF BorrarMaestro, ContarDeProveedor, EnPaso
<1>3. r.en = "libre" BY <1>2, MueveResponder DEF EnPaso, TipoInv
<1>4. Cubiertos' = Cubiertos
  <2>1. CASE UNCHANGED maestro BY <2>1 DEF Cubiertos, MaestrosVivos
  <2>2. ASSUME BorrarMaestro(h), ~Retenido(q.m) PROVE Cubiertos' = Cubiertos
    <3>1. maestro' = [maestro EXCEPT ![q.m].estatus = "BORRADO"]
      BY <2>2 DEF BorrarMaestro, EnPaso
    <3>2. /\ DOMAIN maestro = Maestros
          /\ \A m \in Maestros : DOMAIN maestro[m] = {"estatus", "tipos"}
      BY DEF TipoInv, TablasBien
    <3>3. maestro[q.m].tipos = {} BY <2>2 DEF Retenido
    <3>4. \A m \in Maestros : maestro'[m].tipos = maestro[m].tipos /\
                               (m # q.m => maestro'[m] = maestro[m])
      BY <3>1, <3>2
    <3> QED BY <3>3, <3>4, CubiertosIguales
  <2> QED BY <2>1, <2>2 DEF BorrarMaestro, ContarDeProveedor, contratos, EnPaso
<1>5. Alto(q) = Cubiertos /\ Bajo(q) = Cubiertos BY <1>2, AltoYBajo
<1>6. Alto(r)' = Cubiertos' /\ Bajo(r)' = Cubiertos' BY <1>3 DEF Alto, Bajo
<1>7. r.en \in YaAviso BY <1>3 DEF YaAviso
<1> QED BY <1>1, <1>4, <1>5, <1>6, <1>7, RedSigueIgual DEF EnPaso

\* The stations of a contract that ended stay on until they are told.
LEMMA RedDeCancelar ==
  ASSUME TipoInv, NEW h \in Hilos, NEW v, NEW q, NEW r, EnPaso(h, v, q, r), CancelarMaestro(h)
  PROVE  RedSigue(r)
<1>1. Relevo(v, v) BY RelevoDeEscribir DEF Escribe
<1>2. DOMAIN q = Campos /\ DOMAIN peticion = Hilos
  BY DEF TipoInv, PeticionesBien, PeticionBien, EnPaso
<1>3. q.en = "cancelarMaestro" /\ q.m \in Maestros /\ q.estatus = "CANCELADO"
  BY DEF CancelarMaestro, EnPaso, RedBien, SabeDeRed, SabeDeQuitas, MaestrosVivos
<1>4. maestro' = ConEstatus(q.m, "CANCELADO") /\ Seguir(h, "avisarBaja")
  BY <1>3 DEF CancelarMaestro, EnPaso, SeguirSi
<1>5. r.en = "avisarBaja" /\ r.m = q.m BY <1>2, <1>4 DEF Seguir, Campos, EnPaso
<1>6. /\ Cubiertos \subseteq Cubiertos' \cup maestro[q.m].tipos /\ Cubiertos' \subseteq Cubiertos
      /\ maestro'[q.m].tipos = maestro[q.m].tipos
  BY <1>3, <1>4, BorradoNoVive, CubiertosSinUno
<1>7. /\ Alto(q) = Cubiertos /\ Bajo(q) = Cubiertos
      /\ Alto(r)' = Cubiertos' \cup maestro'[r.m].tipos /\ Bajo(r)' = Cubiertos'
  BY <1>3, <1>5 DEF Alto, Bajo
<1>8. q.en \notin YaAviso BY <1>3 DEF YaAviso
<1> QED BY <1>1, <1>5, <1>6, <1>7, <1>8, RedSigueIgual DEF EnPaso

LEMMA RedDeTerminar ==
  ASSUME TipoInv, NEW h \in Hilos, NEW v, NEW q, NEW r, EnPaso(h, v, q, r), TerminarMaestro(h)
  PROVE  RedSigue(r)
<1>1. Relevo(v, v) BY RelevoDeEscribir DEF Escribe
<1>2. DOMAIN q = Campos /\ DOMAIN peticion = Hilos
  BY DEF TipoInv, PeticionesBien, PeticionBien, EnPaso
<1>3. PICK m \in q.lista :
        /\ q.en = "terminar" /\ maestro' = ConEstatus(m, "TERMINADO")
        /\ \E en \in {"vigentes", "terminar"} :
             peticion' = [peticion EXCEPT ![h].lista = @ \ {m}, ![h].en = en]
  <2>1. q.en = "terminar" BY DEF TerminarMaestro, EnPaso
  <2>2. PICK m \in q.lista :
          /\ maestro' = ConEstatus(m, "TERMINADO")
          /\ peticion' = [peticion EXCEPT ![h].lista = @ \ {m},
               ![h].en = IF q.lista = {m} THEN "vigentes" ELSE @]
    BY DEF TerminarMaestro, EnPaso
  <2>3. peticion' = [peticion EXCEPT ![h].lista = @ \ {m},
               ![h].en = IF q.lista = {m} THEN "vigentes" ELSE "terminar"]
    BY <2>1, <2>2 DEF EnPaso
  <2>4. CASE q.lista = {m} BY <2>1, <2>2, <2>3, <2>4
  <2>5. CASE q.lista # {m} BY <2>1, <2>2, <2>3, <2>5
  <2> QED BY <2>4, <2>5
<1>4. r.en \in {"vigentes", "terminar"} /\ r.tipos = q.tipos
  BY <1>2, <1>3 DEF Campos, EnPaso
<1>5. m \in Maestros /\ maestro[m].tipos \subseteq q.tipos
  BY <1>3 DEF EnPaso, RedBien, SabeDeRed, SabeDePlazos
<1>6. Cubiertos \subseteq Cubiertos' \cup maestro[m].tipos /\ Cubiertos' \subseteq Cubiertos
  <2>1. "TERMINADO" \notin Vivos BY DEF Vivos
  <2> QED BY <1>3, <1>5, <2>1, CubiertosSinUno
<1>7. /\ Alto(q) = Cubiertos \cup q.tipos /\ Bajo(q) = Cubiertos
      /\ Alto(r)' = Cubiertos' \cup r.tipos /\ Bajo(r)' = Cubiertos'
  BY <1>3, <1>4 DEF Alto, Bajo
<1>8. q.en \notin YaAviso BY <1>3 DEF YaAviso
<1> QED BY <1>1, <1>4, <1>5, <1>6, <1>7, <1>8, RedSigueIgual DEF EnPaso


\* The steps that tell the stations.
LEMMA AvisaUna ==
  ASSUME TipoInv, NEW h \in Hilos, NEW v, NEW q, NEW r, EnPaso(h, v, q, r), q.en \notin YaAviso,
         NEW clase \in DeEstaciones, NEW T,
         \/ Emitir(<<DeTipos(clase, T)>>)
         \/ \E u : u.clase \notin DeRed /\ Emitir(<<u, DeTipos(clase, T)>>)
  PROVE  RedBien(Evento, q) /\ Unica(DeTipos(clase, T))'
<1>1. v = Evento BY DEF EnPaso, RedBien
<1>2. Unica(Evento) /\ RedBien(Evento, q) BY <1>1 DEF EnPaso
<1> DEFINE w == DeTipos(clase, T)
<1>3. w.clase = clase /\ clase \in DeRed BY DEF DeTipos, Evento, DeRed
<1>4. Cola BY DEF TipoInv, EventosBien, Cola
<1>5. Emitir(<<w>>) \/ \E u : u.clase \notin DeRed /\ Emitir(<<u, w>>) OBVIOUS
<1> HIDE DEF w
<1>6. PICK z : z = w OBVIOUS
<1>7. Unica(z)' BY <1>2, <1>3, <1>4, <1>5, <1>6, EmiteUna
<1>8. Unica(w)' BY <1>6, <1>7 DEF Unica
<1> QED BY <1>2, <1>8 DEF w, Unica

LEMMA RedDeContar ==
  ASSUME TipoInv, NEW h \in Hilos, NEW v, NEW q, NEW r, EnPaso(h, v, q, r), ContarYEmitir(h)
  PROVE  RedSigue(r)
<1>1. /\ q.op = "crear" /\ q.en = "contar" /\ q.en \notin YaAviso
      /\ UNCHANGED <<maestro, estacion, servicio, renovacion>> /\ Seguir(h, "guardar")
      /\ Emitir(Habilitar(countActiveContracts, q.habilitado, TiposDe[q.m]))
  BY DEF ContarYEmitir, EnPaso, contratos, red, YaAviso
<1> DEFINE T == TiposDe[q.m]
           u == DeProveedor("enable-provider")
           c == countActiveContracts = 0 /\ ~q.habilitado
<1>2. u.clase \notin DeRed
  BY DEF DeProveedor, Evento, DeRed, DeEstaciones, DeServiciosVarios
<1>3. Emitir(IF c THEN <<u, DeTipos("enable-stations", T)>> ELSE <<DeTipos("enable-stations", T)>>)
  BY <1>1, HabilitarEs
<1> HIDE DEF T, u, c
<1>4. "enable-stations" \in DeEstaciones BY DEF DeEstaciones
<1>5. RedBien(Evento, q) /\ Unica(DeTipos("enable-stations", T))'
  <2>1. CASE c BY <1>1, <1>2, <1>3, <1>4, <2>1, AvisaUna
  <2>2. CASE ~c BY <1>1, <1>3, <1>4, <2>2, AvisaUna
  <2> QED BY <2>1, <2>2
<1>6. DOMAIN q = Campos /\ DOMAIN peticion = Hilos
  BY DEF TipoInv, PeticionesBien, PeticionBien, EnPaso
<1>7. r.en = "guardar" /\ r.op = "crear" /\ r.m = q.m
  BY <1>1, <1>6 DEF Seguir, Campos, EnPaso
<1>8. Cubiertos' = Cubiertos BY <1>1 DEF Cubiertos, MaestrosVivos
<1>9. /\ Alto(q) = Cubiertos /\ Bajo(q) = Cubiertos
      /\ Alto(r)' = Cubiertos' \cup T /\ Bajo(r)' = Cubiertos' \cup T
  BY <1>1, <1>7 DEF Alto, Bajo, T
<1>10. r.en \in YaAviso BY <1>7 DEF YaAviso
<1> QED BY <1>1, <1>4, <1>5, <1>8, <1>9, <1>10, RedSigueAviso DEF EnPaso

LEMMA RedDeLeerBaja ==
  ASSUME TipoInv, NEW h \in Hilos, NEW v, NEW q, NEW r, EnPaso(h, v, q, r), LeerBaja(h)
  PROVE  RedSigue(r)
<1>1. /\ q.en = "leerBaja" /\ q.en \notin YaAviso
      /\ UNCHANGED <<maestro, estacion, servicio, renovacion>>
  BY DEF LeerBaja, EnPaso, contratos, red, YaAviso
<1>2. DOMAIN q = Campos /\ DOMAIN peticion = Hilos
  BY DEF TipoInv, PeticionesBien, PeticionBien, EnPaso
<1>3. Cubiertos' = Cubiertos BY <1>1 DEF Cubiertos, MaestrosVivos
<1>4. Alto(q) = Cubiertos /\ Bajo(q) = Cubiertos BY <1>1, AltoYBajo
<1>5. CASE Responder(h) /\ UNCHANGED eventos
  <2>1. Unica(v)' BY <1>5 DEF Unica, EnPaso
  <2>2. Relevo(v, v) BY <1>1, <2>1, RelevoIgual DEF EnPaso, RedBien
  <2>3. r.en = "libre" BY <1>5, MueveResponder DEF EnPaso, TipoInv
  <2>4. Alto(r)' = Cubiertos' /\ Bajo(r)' = Cubiertos' BY <2>3 DEF Alto, Bajo
  <2> QED BY <1>1, <1>3, <1>4, <2>2, <2>4, RedSigueIgual DEF EnPaso
<1>6. CASE maestro[q.m].estatus = "PENDIENTE"
  <2>t. PICK T : T = maestro[q.m].tipos OBVIOUS
  <2> DEFINE en == IF T = {} THEN "borrarMaestro" ELSE "buscarFila"
  <2>1. /\ peticion' = [peticion EXCEPT ![h].lista = T, ![h].en = en]
        /\ Emitir(<<DeTipos("disable-stations", T)>>)
    BY <1>6, <2>t DEF LeerBaja, EnPaso
  <2>2. "disable-stations" \in DeEstaciones BY DEF DeEstaciones
  <2>3. RedBien(Evento, q) /\ Unica(DeTipos("disable-stations", T))'
    BY <1>1, <2>1, <2>2, AvisaUna
  <2>4. r.lista = T /\ r.en = en
    <3> HIDE DEF en
    <3> QED BY <1>2, <2>1 DEF EnPaso, Campos
  <2>5. Alto(r)' = Cubiertos' \ T /\ Bajo(r)' = Cubiertos' \ T
    <3>1. CASE T = {}
      <4>1. r.en = "borrarMaestro" BY <2>4, <3>1
      <4>2. Alto(r)' = Cubiertos' /\ Bajo(r)' = Cubiertos' BY <4>1 DEF Alto, Bajo
      <4> QED BY <3>1, <4>2
    <3>2. CASE T # {}
      <4>1. r.en = "buscarFila" BY <2>4, <3>2
      <4> QED BY <2>4, <4>1 DEF Alto, Bajo
    <3> QED BY <3>1, <3>2
  <2>6. r.en \in YaAviso BY <2>4 DEF YaAviso
  <2> QED BY <1>1, <1>3, <1>4, <2>2, <2>3, <2>5, <2>6, RedSigueAviso DEF EnPaso
<1> QED BY <1>5, <1>6 DEF LeerBaja, EnPaso

LEMMA RedDeAvisarBaja ==
  ASSUME TipoInv, NEW h \in Hilos, NEW v, NEW q, NEW r, EnPaso(h, v, q, r), AvisarBaja(h)
  PROVE  RedSigue(r)
<1>t. PICK T : T = maestro[q.m].tipos OBVIOUS
<1>1. /\ q.en = "avisarBaja" /\ q.en \notin YaAviso
      /\ UNCHANGED <<maestro, estacion, servicio, renovacion>> /\ Responder(h)
  BY DEF AvisarBaja, EnPaso, contratos, red, YaAviso
<1>2. HayMaestro(q.m) /\ (SinProrrogas => T \cap Cubiertos = {})
  BY <1>1, <1>t DEF EnPaso, RedBien, SabeDeRed, SabeDeQuitas
<1>3. Emitir(<<DeTipos("disable-stations", T)>>) BY <1>2, <1>t DEF AvisarBaja, EnPaso
<1>4. Alto(q) = Cubiertos \cup T /\ Bajo(q) = Cubiertos BY <1>1, <1>t, AltoYBajo
<1>5. "disable-stations" \in DeEstaciones BY DEF DeEstaciones
<1>6. RedBien(Evento, q) /\ Unica(DeTipos("disable-stations", T))'
  BY <1>1, <1>3, <1>5, AvisaUna
<1>7. r.en = "libre" BY <1>1, MueveResponder DEF EnPaso, TipoInv
<1>8. Alto(r)' = Cubiertos' /\ Bajo(r)' = Cubiertos' BY <1>7 DEF Alto, Bajo
<1>9. Cubiertos' = Cubiertos BY <1>1 DEF Cubiertos, MaestrosVivos
<1>10. r.en \in YaAviso BY <1>7 DEF YaAviso
<1> QED BY <1>1, <1>2, <1>4, <1>5, <1>6, <1>8, <1>9, <1>10, RedSigueAviso DEF EnPaso

LEMMA RedDeLeerTipos ==
  ASSUME TipoInv, NEW h \in Hilos, NEW v, NEW q, NEW r, EnPaso(h, v, q, r), LeerTipos(h)
  PROVE  RedSigue(r)
<1>t. PICK T : T = maestro[q.m].tipos OBVIOUS
<1> DEFINE c == \/ q.op = "extender"
                \/ q.cuenta = 1 /\ q.habilitado
<1>1. /\ q.en = "tipos" /\ q.en \notin YaAviso
      /\ UNCHANGED <<maestro, estacion, servicio, renovacion>>
      /\ IF c THEN /\ peticion' = [peticion EXCEPT ![h].en = "leerEstatus", ![h].tipos = T]
                   /\ UNCHANGED eventos
         ELSE Responder(h) /\ Emitir(<<DeTipos("disable-stations", T)>>)
  BY <1>t DEF LeerTipos, EnPaso, contratos, red, YaAviso
<1>2. ~SinProrrogas BY <1>1 DEF EnPaso, RedBien, SabeDeRed, SabeDePlazos
<1> HIDE DEF c
<1>3. DOMAIN q = Campos /\ DOMAIN peticion = Hilos
  BY DEF TipoInv, PeticionesBien, PeticionBien, EnPaso
<1>4. Cubiertos' = Cubiertos BY <1>1 DEF Cubiertos, MaestrosVivos
<1>5. Alto(q) = Cubiertos /\ Bajo(q) = Cubiertos BY <1>1, AltoYBajo
<1>6. CASE c
  <2>1. Unica(v)' BY <1>1, <1>6 DEF Unica, EnPaso
  <2>2. Relevo(v, v) BY <1>1, <2>1, RelevoIgual DEF EnPaso, RedBien
  <2>3. r.en = "leerEstatus" BY <1>1, <1>3, <1>6 DEF EnPaso, Campos
  <2>4. Alto(r)' = Cubiertos' /\ Bajo(r)' = Cubiertos' BY <2>3 DEF Alto, Bajo
  <2> QED BY <1>1, <1>4, <1>5, <2>2, <2>4, RedSigueIgual DEF EnPaso
<1>7. CASE ~c
  <2>1. Responder(h) /\ Emitir(<<DeTipos("disable-stations", T)>>) BY <1>1, <1>7
  <2>2. "disable-stations" \in DeEstaciones BY DEF DeEstaciones
  <2>3. RedBien(Evento, q) /\ Unica(DeTipos("disable-stations", T))'
    BY <1>1, <2>1, <2>2, AvisaUna
  <2>4. r.en = "libre" BY <2>1, MueveResponder DEF EnPaso, TipoInv
  <2>5. Alto(r)' = Cubiertos' /\ Bajo(r)' = Cubiertos' BY <2>4 DEF Alto, Bajo
  <2>6. r.en \in YaAviso BY <2>4 DEF YaAviso
  <2> QED BY <1>1, <1>2, <1>4, <1>5, <2>2, <2>3, <2>5, <2>6, RedSigueAviso DEF EnPaso
<1> QED BY <1>6, <1>7


\* A contract that an amendment reopens, or ends, and the stations it has.
LEMMA RedDeCambiar ==
  ASSUME TipoInv, NEW h \in Hilos, NEW v, NEW q, NEW r, EnPaso(h, v, q, r), changeStatus(h)
  PROVE  RedSigue(r)
<1> DEFINE abre == q.op = "extender"
           nuevo == IF abre THEN "ADJUDICADO" ELSE "TERMINADO"
<1>t. PICK T : T = q.tipos OBVIOUS
<1>1. /\ q.en = "cambiarEstatus" /\ q.en \notin YaAviso
      /\ UNCHANGED <<estacion, servicio, renovacion>> /\ Responder(h)
      /\ maestro' = [maestro EXCEPT ![q.m].estatus = nuevo]
      /\ Emitir(IF abre THEN Habilitar(q.cuenta, q.habilitado, T)
                ELSE <<DeProveedor("disable-provider"), DeTipos("disable-stations", T)>>)
  BY <1>t DEF changeStatus, EnPaso, red, YaAviso
<1>2. ~SinProrrogas /\ maestro[q.m].tipos = T
  BY <1>1, <1>t DEF EnPaso, RedBien, SabeDeRed, SabeDePlazos
<1>3. /\ DOMAIN maestro = Maestros
      /\ \A m \in Maestros : DOMAIN maestro[m] = {"estatus", "tipos"}
  BY DEF TipoInv, TablasBien
<1>4. \A m \in Maestros : /\ maestro'[m].tipos = maestro[m].tipos
                          /\ m # q.m => maestro'[m] = maestro[m]
                          /\ m = q.m => maestro'[m].estatus = nuevo
  <2> HIDE DEF nuevo
  <2> QED BY <1>1, <1>3
<1>5. Alto(q) = Cubiertos /\ Bajo(q) = Cubiertos BY <1>1, AltoYBajo
<1>6. r.en = "libre" BY <1>1, MueveResponder DEF EnPaso, TipoInv
<1>7. Alto(r)' = Cubiertos' /\ Bajo(r)' = Cubiertos' /\ r.en \in YaAviso
  BY <1>6 DEF Alto, Bajo, YaAviso
<1>8. "enable-stations" \in DeEstaciones /\ "disable-stations" \in DeEstaciones
  BY DEF DeEstaciones
<1>9. /\ DeProveedor("enable-provider").clase \notin DeRed
      /\ DeProveedor("disable-provider").clase \notin DeRed
  BY DEF DeProveedor, Evento, DeRed, DeEstaciones, DeServiciosVarios
<1>10. CASE abre
  <2>1. Emitir(IF q.cuenta = 0 /\ ~q.habilitado
                 THEN <<DeProveedor("enable-provider"), DeTipos("enable-stations", T)>>
                 ELSE <<DeTipos("enable-stations", T)>>)
    <3>1. Emitir(Habilitar(q.cuenta, q.habilitado, T)) BY <1>1, <1>10
    <3> QED BY <3>1, HabilitarEs
  <2>2. RedBien(Evento, q) /\ Unica(DeTipos("enable-stations", T))'
    <3> DEFINE c == q.cuenta = 0 /\ ~q.habilitado
               u == DeProveedor("enable-provider")
    <3>1. Emitir(IF c THEN <<u, DeTipos("enable-stations", T)>>
                 ELSE <<DeTipos("enable-stations", T)>>) /\ u.clase \notin DeRed
      BY <1>9, <2>1
    <3> HIDE DEF c, u
    <3>2. CASE c BY <1>1, <1>8, <3>1, <3>2, AvisaUna
    <3>3. CASE ~c BY <1>1, <1>8, <3>1, <3>3, AvisaUna
    <3> QED BY <3>2, <3>3
  <2>3. q.m \in Maestros BY <1>10 DEF EnPaso, TipoInv, PeticionesBien, PeticionBien
  <2>4. Alto(q) \cup T \subseteq Alto(r)'
    <3>1. maestro'[q.m].estatus \in Vivos /\ maestro'[q.m].tipos = T
      BY <1>2, <1>4, <1>10, <2>3 DEF Vivos
    <3>2. \A t : t \in Cubiertos \cup T => t \in Cubiertos'
      BY <1>2, <1>4, <2>3, <3>1, CubiertosSon
    <3> QED BY <1>5, <1>7, <3>2
  <2> QED BY <1>1, <1>2, <1>7, <1>8, <2>2, <2>4, RedSigueAviso DEF EnPaso
<1>11. CASE ~abre
  <2>1. Emitir(<<DeProveedor("disable-provider"), DeTipos("disable-stations", T)>>)
    BY <1>1, <1>11
  <2>2. RedBien(Evento, q) /\ Unica(DeTipos("disable-stations", T))'
    <3> DEFINE u == DeProveedor("disable-provider")
    <3>1. Emitir(<<u, DeTipos("disable-stations", T)>>) /\ u.clase \notin DeRed
      BY <1>9, <2>1
    <3> HIDE DEF u
    <3> QED BY <1>1, <1>8, <3>1, AvisaUna
  <2>3. Alto(q) \ T \subseteq Alto(r)'
    <3>1. \A t : t \in Cubiertos /\ t \notin T => t \in Cubiertos'
      BY <1>2, <1>4, CubiertosSon
    <3> QED BY <1>5, <1>7, <3>1
  <2> QED BY <1>1, <1>2, <1>7, <1>8, <2>2, <2>3, RedSigueAviso DEF EnPaso
<1> QED BY <1>10, <1>11

\* The job tells the stations of the types that no live contract has any more.
LEMMA RedDeVigentes ==
  ASSUME TipoInv, NEW h \in Hilos, NEW v, NEW q, NEW r, EnPaso(h, v, q, r), LeerVigentes(h)
  PROVE  RedSigue(r)
<1>t. PICK T : T = q.tipos \ Cubiertos OBVIOUS
<1>1. /\ q.en = "vigentes" /\ q.en \notin YaAviso
      /\ UNCHANGED <<maestro, estacion, servicio, renovacion>>
      /\ Emitir(IF T = {} THEN <<>> ELSE <<DeTipos("disable-stations", T)>>)
      /\ peticion' = [peticion EXCEPT ![h].en = "proveedores", ![h].tipos = {}]
  BY <1>t DEF LeerVigentes, PorApagar, Cubiertos, EnPaso, contratos, red, YaAviso
<1>2. DOMAIN q = Campos /\ DOMAIN peticion = Hilos
  BY DEF TipoInv, PeticionesBien, PeticionBien, EnPaso
<1>3. r.en = "proveedores" BY <1>1, <1>2 DEF EnPaso, Campos
<1>4. Cubiertos' = Cubiertos BY <1>1 DEF Cubiertos, MaestrosVivos
<1>5. Alto(q) = Cubiertos \cup q.tipos /\ Bajo(q) = Cubiertos BY <1>1, AltoYBajo
<1>6. Alto(r)' = Cubiertos' /\ Bajo(r)' = Cubiertos' /\ r.en \in YaAviso
  BY <1>3 DEF Alto, Bajo, YaAviso
<1>7. CASE T = {}
  <2>1. Cola BY DEF TipoInv, EventosBien, Cola
  <2>2. Unica(v)' BY <1>1, <1>7, <2>1, EmiteOtra DEF EnPaso
  <2>3. Relevo(v, v) BY <1>1, <2>2, RelevoIgual DEF EnPaso, RedBien
  <2>4. Alto(q) \subseteq Alto(r)' BY <1>t, <1>4, <1>5, <1>6, <1>7
  <2> QED BY <1>1, <1>4, <1>5, <1>6, <2>3, <2>4, RedSigueIgual DEF EnPaso
<1>8. CASE T # {}
  <2>1. Emitir(<<DeTipos("disable-stations", T)>>) BY <1>1, <1>8
  <2>2. "disable-stations" \in DeEstaciones BY DEF DeEstaciones
  <2>3. RedBien(Evento, q) /\ Unica(DeTipos("disable-stations", T))'
    BY <1>1, <2>1, <2>2, AvisaUna
  <2>4. /\ Alto(q) \ T \subseteq Alto(r)'
        /\ Bajo(r)' \subseteq Bajo(q) \ T
    BY <1>t, <1>4, <1>5, <1>6
  <2> QED BY <1>1, <1>6, <2>2, <2>3, <2>4, RedSigueAviso DEF EnPaso
<1> QED BY <1>7, <1>8

LEMMA RedAtender ==
  ASSUME TipoInv, NEW h \in Hilos, NEW v, NEW q, NEW r, EnPaso(h, v, q, r), SabeDeTerminos(q),
         SabeDeBajas(q), SabeDeRenovaciones(q), SinProrrogas => VivosAparte
  PROVE  RedSigue(r)
<1>1. ~(GuardarServicio(h) \/ EscribirServicio(h) \/ BorrarRenovacion(h))
  BY DEF GuardarServicio, EscribirServicio, BorrarRenovacion, EnPaso, RedBien, SabeDeRed,
         SabeDePlazos, SabeDeRenovaciones
<1>2. CASE Sencilla(h) BY <1>2, RedSencilla
<1>3. CASE GuardarEstacion(h) \/ BajaAnterior(h) \/ GuardarRenovacion(h)
  BY <1>3, RedDeLaRed
<1>4. CASE GuardarMaestro(h) \/ GuardarSecundarios(h) \/ ActualizarMaestro(h)
  BY <1>4, RedDeGuardar, RedDeSecundarios, RedDeActualizar
<1>5. CASE BuscarFila(h) \/ BorrarFila(h) \/ BorrarMaestro(h) \/ ContarDeProveedor(h)
  BY <1>5, RedDeBuscarFila, RedDeBorrarFila, RedDeBorrarMaestro
<1>6. CASE CancelarMaestro(h) \/ TerminarMaestro(h) BY <1>6, RedDeCancelar, RedDeTerminar
<1>7. CASE ContarYEmitir(h) \/ LeerBaja(h) \/ AvisarBaja(h)
  BY <1>7, RedDeContar, RedDeLeerBaja, RedDeAvisarBaja
<1>8. CASE LeerTipos(h) \/ changeStatus(h) \/ LeerVigentes(h)
  BY <1>8, RedDeLeerTipos, RedDeCambiar, RedDeVigentes
<1>9. Atender(h) BY DEF EnPaso
<1> QED BY <1>1, <1>2, <1>3, <1>4, <1>5, <1>6, <1>7, <1>8, <1>9 DEF Atender, Sencilla


----
(* Every step of an undisturbed system. *)

LEMMA SabeIgual ==
  ASSUME UNCHANGED <<maestro, modificatorio>>, \A e : ServiciosDe(e)' = ServiciosDe(e),
         NEW q, SabeDeRed(q)
  PROVE  SabeDeRed(q)' /\ Alto(q)' = Alto(q) /\ Bajo(q)' = Bajo(q) /\ (SinProrrogas' <=> SinProrrogas)
<1>1. Cubiertos' = Cubiertos /\ MaestrosVivos' = MaestrosVivos
  BY DEF Cubiertos, MaestrosVivos
<1>2. SinProrrogas' <=> SinProrrogas BY DEF SinProrrogas
<1>3. Alto(q)' = Alto(q) /\ Bajo(q)' = Bajo(q) BY <1>1 DEF Alto, Bajo
<1>4. SabeDeAltas(q)' BY DEF SabeDeRed, SabeDeAltas
<1>5. SabeDeQuitas(q)' BY <1>1, <1>2 DEF SabeDeRed, SabeDeQuitas, HayMaestro
<1>6. SabeDePlazos(q)' BY <1>2 DEF SabeDeRed, SabeDePlazos
<1> QED BY <1>2, <1>3, <1>4, <1>5, <1>6 DEF SabeDeRed

\* While nothing is in progress there is no event and no request.
LEMMA QuietoSolo ==
  ASSUME Quieto
  PROVE  /\ \A v : Unica(v) => v = Evento
         /\ \A q : EnCurso(q) => q = SinPeticion
         /\ \A q : q = SinPeticion => q.en = "libre" /\ Alto(q) = Cubiertos /\ Bajo(q) = Cubiertos
<1>1. DOMAIN eventos = {}
  <2>1. eventos = <<>> BY DEF Quieto
  <2> QED BY <2>1
<1>2. \A h \in Hilos : ~Ocupada(h) BY DEF Quieto, Ocupada
<1>3. ASSUME NEW q, q = SinPeticion
      PROVE  q.en = "libre" /\ Alto(q) = Cubiertos /\ Bajo(q) = Cubiertos
  <2>1. q.en = "libre" BY <1>3 DEF SinPeticion
  <2> QED BY <2>1, AltoYBajo
<1> QED BY <1>1, <1>2, <1>3 DEF Unica, EnCurso

LEMMA RedLlega ==
  ASSUME TipoInv, NEW h \in Hilos, LlegaSola(h), RedEntera, NEW v, NEW q, Unica(v), EnCurso(q),
         RedBien(v, q)
  PROVE  \E r : RedSigue(r) /\ EnCurso(r)'
<1>1. /\ Quieto /\ UNCHANGED <<maestro, modificatorio, estacion, servicio, renovacion, eventos>>
      /\ \E r : /\ peticion' = [peticion EXCEPT ![h] = r]
                /\ PideContrato(r) \/ PideRed(r) \/ (r.op = "diario" /\ r.en = "vencidos")
  BY DEF LlegaSola
<1>2. PICK r : /\ peticion' = [peticion EXCEPT ![h] = r]
               /\ PideContrato(r) \/ PideRed(r) \/ (r.op = "diario" /\ r.en = "vencidos")
  BY <1>1
<1>3. v = Evento /\ Alto(q) = Cubiertos /\ Bajo(q) = Cubiertos BY <1>1, QuietoSolo
<1>4. Relevo(v, v)
  <2>1. Unica(v)' BY <1>1 DEF Unica
  <2> QED BY <1>1, <2>1, RelevoIgual DEF RedBien
<1>5. r.en \in {"leerBaja", "existe", "leer", "corregir", "contarVivos", "contarEstacion", "primera",
                "vencidos"}
  BY <1>2 DEF PideContrato, PideRed
<1>6. EnCurso(r)'
  <2>1. peticion'[h] = r BY <1>2 DEF TipoInv, PeticionesBien
  <2>2. Ocupada(h)' BY <1>5, <2>1 DEF Ocupada
  <2> QED BY <2>1, <2>2 DEF EnCurso
<1>7. SabeDeAltas(r)' BY <1>1, <1>2, <1>5 DEF PideContrato, PideRed, SabeDeAltas
<1>8. SabeDeQuitas(r)' BY <1>1, <1>2, <1>5 DEF PideContrato, PideRed, SabeDeQuitas
<1>9. SabeDePlazos(r)'
  <2>1. ASSUME r.en = "contarEstacion" PROVE r.op = "estacion" /\ ServiciosDe(r.e)' = {}
    <3>1. r.op = "estacion" /\ r.e \in Estaciones /\ estacion[r.e] = "NO_EXISTE"
      BY <1>2, <2>1 DEF PideContrato, PideRed
    <3>2. ASSUME NEW s \in Servicios, servicio[s].estacion = r.e PROVE FALSE
      <4>1. HayServicio(s) BY <3>1, <3>2, ProveedorAssumption DEF HayServicio, SinServicio
      <4>2. HayEstacion(r.e) BY <3>2, <4>1 DEF RedEntera
      <4> QED BY <3>1, <4>2 DEF HayEstacion
    <3> QED BY <1>1, <3>1, <3>2 DEF ServiciosDe
  <2>2. ASSUME r.op \in {"descartar", "revocar"} PROVE r.i \in DOMAIN modificatorio'
    BY <1>1, <1>2, <2>2 DEF PideContrato, PideRed
  <2> QED BY <1>5, <2>1, <2>2 DEF SabeDePlazos
<1>10. SinProrrogas' => SinProrrogas BY <1>1 DEF SinProrrogas
<1>11. Cubiertos' = Cubiertos BY <1>1 DEF Cubiertos, MaestrosVivos
<1>12. Alto(r)' = Cubiertos' /\ Bajo(r)' = Cubiertos' BY <1>5 DEF Alto, Bajo
<1>13. RedSigue(r)
  <2>1. SabeDeRed(r)' BY <1>7, <1>8, <1>9 DEF SabeDeRed
  <2> QED BY <1>3, <1>4, <1>10, <1>11, <1>12, <2>1, RedSigueIgual
<1> QED BY <1>6, <1>13

LEMMA RedAtendida ==
  ASSUME TipoInv, NEW h \in Hilos, Atender(h), Sola(h), RedEntera, NEW v, NEW q, Unica(v),
         EnCurso(q), RedBien(v, q), SabeDeTerminos(peticion[h]), SabeDeBajas(peticion[h]),
         SabeDeRenovaciones(peticion[h]), SinProrrogas => VivosAparte
  PROVE  \E r : RedSigue(r) /\ EnCurso(r)'
<1>1. q = peticion[h] BY DEF EnCurso, Sola
<1>2. PICK r : r = peticion'[h] OBVIOUS
<1>3. Mueve(h) /\ Pasos(h) BY MueveAtender, PasosDeAtender DEF TipoInv
<1>4. \A g \in Hilos : g # h => ~Ocupada(g)' BY <1>3 DEF Mueve, Sola, Ocupada
<1>5. SinPeticion.en = "libre" /\ SinPeticion.op = "-" BY DEF SinPeticion
<1>6. r # SinPeticion => r.en # "libre"
  <2>1. \A fases : Va(h, fases) => r = SinPeticion \/ r.en \in fases BY <1>2 DEF Va
  <2> QED BY <1>3, <2>1, SMTT(120) DEF Pasos, Atender
<1>7. EnCurso(r)'
  <2>1. CASE r = SinPeticion
    <3>1. ~Ocupada(h)' BY <1>2, <1>5, <2>1 DEF Ocupada
    <3>2. \A g \in Hilos : ~Ocupada(g)' BY <1>4, <3>1
    <3> QED BY <2>1, <3>2 DEF EnCurso, SinPeticion
  <2>2. CASE r # SinPeticion
    <3>1. Ocupada(h)' BY <1>2, <1>6, <2>2 DEF Ocupada
    <3> QED BY <1>2, <3>1 DEF EnCurso
  <2> QED BY <2>1, <2>2
<1>8. SinProrrogas' => SinProrrogas BY ProrrogasQuedan
<1>9. SabeDeRed(r)'
  <2>1. CASE r = SinPeticion
    <3>1. r.en = "libre" /\ r.op = "-" BY <1>5, <2>1
    <3> QED BY <3>1 DEF SabeDeRed, SabeDeAltas, SabeDeQuitas, SabeDePlazos
  <2>2. CASE r # SinPeticion
    BY <1>1, <1>2, <2>2, SabenDeAltas, SabenDeQuitas, SabenDePlazos DEF RedBien, SabeDeRed
  <2> QED BY <2>1, <2>2
<1>10. EnPaso(h, v, q, r) BY <1>1, <1>2, <1>8, <1>9 DEF EnPaso
<1>11. RedSigue(r) BY <1>1, <1>10, RedAtender
<1> QED BY <1>7, <1>11

LEMMA RedManejada ==
  ASSUME TipoInv, Turno, incidentes = 0, NEW k \in DOMAIN eventos, Maneja(k), DosPasos,
         SinActivados, \A s \in Servicios : UltimaAlFinal(s) /\ ConUltima(s), RedEntera,
         NEW v, NEW q, Unica(v), EnCurso(q), RedBien(v, q)
  PROVE  \E r : RedSigue(r) /\ EnCurso(r)'
<1>1. UNCHANGED <<maestro, modificatorio, peticion>> /\ Manejar(k) BY DEF Maneja
<1>2. v # Evento => Encontrable
  <2>1. ASSUME v # Evento PROVE \A h \in Hilos : peticion[h].en # "nueva"
    <3>1. q.en # "nueva" BY <2>1 DEF RedBien, YaAviso
    <3>2. ASSUME NEW h \in Hilos, peticion[h].en = "nueva" PROVE FALSE
      <4>1. Ocupada(h) BY <3>2 DEF Ocupada
      <4>2. q = peticion[h] BY <4>1 DEF EnCurso, Turno
      <4> QED BY <3>1, <3>2, <4>2
    <3> QED BY <3>2
  <2> QED BY <2>1, HayUltimas
<1>3. PICK w : Relevo(v, w) BY <1>2, RelevoDeManejar DEF RedBien
<1>4. \A e : ServiciosDe(e)' = ServiciosDe(e)
  <2>1. CASE UNCHANGED servicio BY <2>1 DEF ServiciosDe
  <2>2. CASE CambiarServicio(k)
    <3>1. PICK s \in eventos[k].servicios :
            servicio' = [servicio EXCEPT ![s].estatus = Enciende(eventos[k].clase)]
      BY <2>2 DEF CambiarServicio
    <3>2. /\ DOMAIN servicio = Servicios
          /\ \A x \in Servicios : DOMAIN servicio[x] = {"estacion", "tipo", "estatus"}
      BY DEF TipoInv, TablasBien, Servicio, SinServicio
    <3>3. \A x \in Servicios : servicio'[x].estacion = servicio[x].estacion BY <3>1, <3>2
    <3> QED BY <3>3 DEF ServiciosDe
  <2>3. UNCHANGED servicio \/ CambiarServicio(k)
    BY <1>1 DEF Manejar, ManejarProveedor, ManejarRenovacion, LeerRed, BuscarPorConmutar, Conmutar,
                Releer, red
  <2> QED BY <2>1, <2>2, <2>3
<1>5. SabeDeRed(q)' /\ Alto(q)' = Alto(q) /\ Bajo(q)' = Bajo(q) /\ (SinProrrogas' <=> SinProrrogas)
  BY <1>1, <1>4, SabeIgual DEF RedBien
<1>6. RedSigue(q) BY <1>3, <1>5, RedSigueIgual
<1>7. EnCurso(q)' BY <1>1 DEF EnCurso, Ocupada
<1> QED BY <1>6, <1>7


LEMMA RedNext ==
  ASSUME TipoInv, Turno, CancelaInv, AparteInv, RenuevaInv, VenceInv, RedInv,
         [NextContratos]_todo
  PROVE  RedInv'
<1> DEFINE bien == \E r : RedSigue(r) /\ EnCurso(r)'
<1> SUFFICES ASSUME incidentes' = 0, fallos' = 0 PROVE bien BY DEF RedInv, RedSigue
<1>0. incidentes = 0 /\ EnSerie /\ fallos \in Nat
  BY IncidentesSuben, PasoEnSerie DEF TipoInv, CuentasBien
<1>a. ASSUME fallos = 0
      PROVE  /\ RedEntera /\ \E v, q : Unica(v) /\ EnCurso(q) /\ RedBien(v, q)
             /\ DosPasos /\ SinActivados
             /\ \A s \in Servicios : UltimaAlFinal(s) /\ ConUltima(s)
  BY <1>0, <1>a DEF RedInv, VenceInv, RenuevaInv
<1>1. ASSUME NEW h \in Hilos, LlegaSola(h) PROVE bien
  <2>1. fallos = 0 BY <1>1 DEF LlegaSola
  <2> QED BY <1>1, <1>a, <2>1, RedLlega
<1>2. ASSUME NEW h \in Hilos, Atender(h), Sola(h) PROVE bien
  <2>1. fallos = 0 /\ Ocupada(h) BY <1>2, EscribenEnAtender DEF Escriben, cuentas, Sola
  <2>2. /\ SabeDeTerminos(peticion[h]) /\ SabeDeBajas(peticion[h])
        /\ SabeDeRenovaciones(peticion[h]) /\ (SinProrrogas => VivosAparte)
    BY <1>0, <2>1 DEF AparteInv, CancelaInv, RenuevaInv
  <2> QED BY <1>2, <1>a, <2>1, <2>2, RedAtendida
<1>3. ASSUME NEW k \in DOMAIN eventos, Maneja(k) PROVE bien
  <2>1. fallos = 0 BY <1>3 DEF Maneja, cuentas
  <2> QED BY <1>0, <1>3, <1>a, <2>1, RedManejada
<1>4. ASSUME Falla PROVE FALSE
  <2>1. fallos' = fallos + 1 BY <1>4 DEF Falla
  <2> QED BY <1>0, <2>1
<1>5. ASSUME UNCHANGED todo PROVE bien
  <2>1. UNCHANGED <<maestro, modificatorio, estacion, servicio, renovacion, eventos, peticion, fallos>>
    BY <1>5 DEF todo, contratos, red, cuentas
  <2>2. RedEntera BY <1>a, <2>1
  <2>3. PICK v, q : Unica(v) /\ EnCurso(q) /\ RedBien(v, q) BY <1>a, <2>1
  <2>4. Relevo(v, v)
    <3>1. Unica(v)' BY <2>1, <2>3 DEF Unica
    <3> QED BY <2>1, <2>2, <2>3, <3>1, RelevoIgual DEF RedBien
  <2>5. \A e : ServiciosDe(e)' = ServiciosDe(e) BY <2>1 DEF ServiciosDe
  <2>6. SabeDeRed(q)' /\ Alto(q)' = Alto(q) /\ Bajo(q)' = Bajo(q) /\ (SinProrrogas' <=> SinProrrogas)
    BY <2>1, <2>3, <2>5, SabeIgual DEF RedBien
  <2>7. RedSigue(q) BY <2>3, <2>4, <2>6, RedSigueIgual
  <2>8. EnCurso(q)' BY <2>1, <2>3 DEF EnCurso, Ocupada
  <2> QED BY <2>7, <2>8
<1> QED BY <1>0, <1>1, <1>2, <1>3, <1>4, <1>5 DEF EnSerie

LEMMA RedInit == InitContratos => RedInv
<1> SUFFICES ASSUME InitContratos PROVE RedInv OBVIOUS
<1> DEFINE primera == CHOOSE e \in Estaciones : TRUE
<1>1. PICK vivos \in SUBSET Existentes :
        /\ maestro = [m \in Maestros |->
             IF m \in vivos THEN [estatus |-> "ADJUDICADO", tipos |-> TiposDe[m]] ELSE SinMaestro]
        /\ proveedor = (vivos # {})
        /\ servicio = [s \in Servicios |->
             IF s \in DOMAIN Iniciales
               THEN [estacion |-> primera, tipo |-> Iniciales[s],
                     estatus |-> Iniciales[s] \in UNION {TiposDe[m] : m \in vivos}]
               ELSE SinServicio]
        /\ estacion = [e \in Estaciones |->
             IF e # primera THEN "NO_EXISTE"
             ELSE Encendida(\E s \in DOMAIN Iniciales :
                              Iniciales[s] \in UNION {TiposDe[m] : m \in vivos})]
  BY DEF InitContratos
<1>2. /\ renovacion = [s \in Servicios |->
           IF s \in DOMAIN Iniciales THEN <<NuevaRenovacion>> ELSE <<>>]
      /\ peticion = [h \in Hilos |-> SinPeticion] /\ eventos = <<>>
  BY DEF InitContratos
<1>3. PICK cubiertos : cubiertos = UNION {TiposDe[m] : m \in vivos} OBVIOUS
<1>4. Cubiertos = cubiertos
  <2>1. vivos \subseteq Maestros /\ \A m \in Maestros : m \in vivos <=> m \in MaestrosVivos
    BY <1>1, ProveedorAssumption DEF MaestrosVivos, Vivos, SinMaestro
  <2>2. MaestrosVivos = vivos /\ \A m \in vivos : maestro[m].tipos = TiposDe[m]
    BY <1>1, <2>1 DEF MaestrosVivos
  <2>3. \A t : t \in Cubiertos <=> t \in cubiertos BY <1>3, <2>2 DEF Cubiertos
  <2> QED BY <2>3
<1>5. \A s \in Servicios :
        /\ s \in DOMAIN Iniciales => /\ servicio[s].estacion = primera
                                     /\ servicio[s].tipo = Iniciales[s]
                                     /\ servicio[s].estatus = (Iniciales[s] \in cubiertos)
                                     /\ renovacion[s] # <<>>
        /\ s \notin DOMAIN Iniciales => servicio[s] = SinServicio
  <2> HIDE DEF primera
  <2>1. \A s \in Servicios : s \in DOMAIN Iniciales =>
          servicio[s] = [estacion |-> primera, tipo |-> Iniciales[s],
                         estatus |-> Iniciales[s] \in cubiertos]
    BY <1>1, <1>3
  <2>2. \A s \in Servicios : s \in DOMAIN Iniciales => renovacion[s] # <<>>
    <3> DEFINE uno == <<NuevaRenovacion>>
    <3>1. uno # <<>> OBVIOUS
    <3> HIDE DEF uno
    <3>2. renovacion = [s \in Servicios |-> IF s \in DOMAIN Iniciales THEN uno ELSE <<>>]
      BY <1>2 DEF uno
    <3> QED BY <3>1, <3>2
  <2> QED BY <1>1, <2>1, <2>2
<1>6. DOMAIN Iniciales # {} => primera \in Estaciones BY ProveedorAssumption
<1> HIDE DEF primera
<1>7. \A s \in Servicios : HayServicio(s) <=> s \in DOMAIN Iniciales
  BY <1>5, <1>6, ProveedorAssumption DEF HayServicio, SinServicio
<1>8. PICK prende \in BOOLEAN : prende <=> \E s \in DOMAIN Iniciales : Iniciales[s] \in cubiertos
  OBVIOUS
<1>9. primera \in Estaciones => estacion[primera] = Encendida(prende)
  <2>1. Encendida(\E s \in DOMAIN Iniciales : Iniciales[s] \in cubiertos) = Encendida(prende)
    BY <1>8 DEF Encendida
  <2> QED BY <1>1, <1>3, <2>1
<1>10. RedEntera
  <2>1. ASSUME NEW s \in Servicios, HayServicio(s)
        PROVE  HayEstacion(servicio[s].estacion) /\ renovacion[s] # <<>>
    <3>1. s \in DOMAIN Iniciales /\ servicio[s].estacion = primera /\ primera \in Estaciones
      BY <1>5, <1>6, <1>7, <2>1
    <3> QED BY <1>5, <1>9, <3>1 DEF HayEstacion, Encendida
  <2> QED BY <2>1 DEF RedEntera
<1>11. /\ Evento.servicios = {} /\ Evento.estaciones = {} /\ ~PorLeer(Evento) /\ Evento.en = "inicio"
       /\ Evento.clase \notin DeEstaciones
  BY EventoVacio DEF PorLeer, DeRed
<1>12. Forma(Evento) BY <1>11 DEF Forma
<1>13. EstacionesSegun(Evento)
  <2>1. ASSUME NEW e \in Estaciones, ServiciosDe(e) # {}
        PROVE  Conmutada(Evento, e) <=> \E s \in ServiciosDe(e) : Elegido(Evento, s)
    <3>1. PICK x \in Servicios : servicio[x].estacion = e BY <2>1 DEF ServiciosDe
    <3>2. x \in DOMAIN Iniciales /\ e = primera
      BY <1>5, <3>1, ProveedorAssumption DEF SinServicio
    <3>3. \A s : s \in ServiciosDe(e) <=> s \in DOMAIN Iniciales
      BY <1>5, <3>2, ProveedorAssumption DEF ServiciosDe, SinServicio
    <3>4. Conmutada(Evento, e) <=> prende BY <1>9, <1>11, <3>2 DEF Conmutada, Encendida
    <3>5. \A s \in ServiciosDe(e) : Elegido(Evento, s) <=> Iniciales[s] \in cubiertos
      BY <1>5, <1>11, <3>3, ProveedorAssumption DEF Elegido
    <3> QED BY <1>8, <3>3, <3>4, <3>5
  <2> QED BY <2>1 DEF EstacionesSegun
<1>14. \A s \in Servicios : HayServicio(s) => (Futuro(Evento, s) <=> servicio[s].tipo \in Cubiertos)
  BY <1>4, <1>5, <1>7, <1>11 DEF Futuro, Elegido
<1>15. Quieto /\ Unica(Evento) /\ EnCurso(SinPeticion)
  <2>1. SinPeticion.en = "libre" /\ DOMAIN eventos = {} BY <1>2 DEF SinPeticion
  <2> QED BY <1>2, <2>1 DEF Quieto, Unica, EnCurso, Ocupada
<1>16. /\ SinPeticion.en = "libre" /\ SinPeticion.op = "-"
       /\ Alto(SinPeticion) = Cubiertos /\ Bajo(SinPeticion) = Cubiertos
  BY <1>15, QuietoSolo DEF SinPeticion
<1>17. SabeDeRed(SinPeticion)
  BY <1>16 DEF SabeDeRed, SabeDeAltas, SabeDeQuitas, SabeDePlazos
<1>18. RedBien(Evento, SinPeticion)
  BY <1>12, <1>13, <1>14, <1>16, <1>17 DEF RedBien, Techo, Suelo
<1> QED BY <1>10, <1>15, <1>18 DEF RedInv

LEMMA RedBasta ==
  ASSUME TipoInv, RedInv
  PROVE  ServiciosSegunContratos
<1> SUFFICES ASSUME Tranquilo PROVE ServiciosSegunContratos BY DEF ServiciosSegunContratos
<1>1. incidentes = 0 /\ fallos = 0 /\ Quieto BY DEF Tranquilo, TipoInv, CuentasBien
<1>2. /\ EstacionesSegun(Evento) /\ Techo(Evento, Cubiertos)
      /\ SinProrrogas => Suelo(Evento, Cubiertos)
  BY <1>1, QuietoSolo DEF RedInv, RedBien
<1>3. Evento.servicios = {} /\ Evento.estaciones = {} /\ ~PorLeer(Evento)
  BY EventoVacio DEF PorLeer, DeRed
<1>4. \A s \in Servicios : HayServicio(s) =>
        /\ servicio[s].estatus => servicio[s].tipo \in Cubiertos
        /\ SinProrrogas /\ servicio[s].tipo \in Cubiertos => servicio[s].estatus
  BY <1>2, <1>3 DEF Techo, Suelo, Futuro, Elegido
<1>5. \A e \in Estaciones : ServiciosDe(e) # {} =>
        (estacion[e] = "ACTIVA" <=> \E s \in ServiciosDe(e) : servicio[s].estatus)
  BY <1>2, <1>3 DEF EstacionesSegun, Conmutada, Elegido
<1> QED BY <1>4, <1>5 DEF ServiciosSegunContratos, Cubiertos

\* The events of contratos.service.ts and of its amendments switch exactly what
\* they should: undisturbed, a service is on only while a live contract has its
\* type, and then it is, unless a term was extended; and a station is enabled
\* exactly while one of its services is on.
THEOREM ServiciosDeContratos == SpecContratos => []ServiciosSegunContratos
<1> DEFINE Inv == TipoInv /\ Turno /\ CancelaInv /\ AparteInv /\ RenuevaInv /\ VenceInv /\ RedInv
<1>1. InitContratos => Inv
  BY TipoInit, TurnoInit, CancelaInit, AparteInit, RenuevaInit, VenceInit, RedInit
<1>2. Inv /\ [NextContratos]_todo => Inv'
  BY TipoNext, TurnoNext, CancelaNext, AparteNext, RenuevaNext, VenceNext, RedNext
<1>3. Inv => ServiciosSegunContratos BY RedBasta
<1> QED BY <1>1, <1>2, <1>3, PTL DEF SpecContratos
=============================================================================
