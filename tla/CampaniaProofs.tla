--------------------------- MODULE CampaniaProofs ---------------------------
(***************************************************************************)
(* Proofs about Campania for every set of campaigns, orders, requests,     *)
(* documents, notifications and charges of the matches.                    *)
(***************************************************************************)
EXTENDS Campania, LibroContratoProofs

----
(* Type correctness.                                                       *)

Campos == {"op", "en", "campania", "activacion", "partida", "doc", "accion", "fila", "ordenes",
           "orden", "total", "cargos", "escrituras", "leido"}
CamposDeFila == {"status", "conActivaciones", "activaciones"}
CamposDeAviso == {"recibido", "guardar", "status", "activacion", "montos", "partida", "ordenes",
                  "orden"}
CamposDeCobro == {"en", "evento", "orden", "total", "partida", "montos"}

CreaActivacion == {"crear", "renovar", "activar"}
DeBaja == {"desactivar", "baja", "bajaPartida", "buscar", "maestro", "modificatorio", "devolver",
           "borrarOrden"}
Guardables == CAMPAIGN_STATUS \ {"APROBADA", "CANCELADA"}

\* An order and its charges.
ParBien(x) == x[1] \in Ordenes /\ x[2] \in Seq(Cargo) /\ x[2] # <<>>

\* A row for the activation with the id a, while there are np matches.
RenglonBien(r, a, np) ==
  r \in Activacion /\ r.numero <= a /\ r.partida <= np /\ (r.campania # "-" => r.partida # 0)

\* A campaign in memory, while there are na activations.
FilaBien(f, na, np) ==
  /\ DOMAIN f = CamposDeFila
  /\ DOMAIN f.activaciones \subseteq 1..na
  /\ \A a \in DOMAIN f.activaciones : RenglonBien(f.activaciones[a], a, np)

\* What a request holds ...
PeticionBien(q, na, np) ==
  /\ DOMAIN q = Campos
  /\ q.campania \in Campanias \cup {"-"}
  /\ q.activacion \in 0..na /\ q.partida \in 0..np
  /\ FilaBien(q.fila, na, np)
  /\ \A x \in q.ordenes : ParBien(x)
  /\ q.cargos \in Seq(Cargo) /\ q.escrituras \in Seq(Escritura)
  /\ q.leido \in Int \cup {NaN}

\* ... and what it needs at each query.
EnSuSitio(q, na) ==
  /\ q.en \in Esperas
  /\ q.en \in {"guardarNueva", "limpiar"} => q.op = "crear"
  /\ q.en \in {"partida", "numerar", "guardarActivacion"} => q.op \in CreaActivacion
  /\ q.en = "activaciones" => q.op = "renovar"
  /\ q.en = "borrar" => q.op \in {"crear", "quitar"}
  /\ q.en = "leer" =>
       q.op \in {"actualizar", "quitar", "renovar", "cerrar", "firmar", "ordenar"}
  /\ q.en = "guardar" => q.op \in {"renovar", "cerrar", "actualizar", "firmar"}
  /\ q.en = "otraVez" => q.op = "actualizar"
  /\ q.en \in {"ultima", "documento"} => q.op = "firmar"
  /\ q.en \in DeBaja => q.op \in {"cerrar", "desactivar"}
  /\ q.en \in {"fondos", "comprometer", "guardarOrden"} => q.op = "ordenar"
  /\ q.en \notin DeBaja \cup {"limpiar"} => q.campania \in Campanias
  /\ q.op = "firmar" => q.doc \in Envios /\ q.accion \in Acciones
  /\ q.op = "ordenar" => q.orden \in Ordenes /\ q.total \in Totales
  /\ q.en \in {"ultima", "documento", "guardar", "otraVez"} => q.fila.status \in Guardables
  /\ q.en = "documento" => q.activacion # 0
  /\ q.en = "guardarActivacion" => q.leido \in 0..na
  /\ q.en \in {"devolver", "modificatorio", "comprometer", "guardarOrden"} => q.cargos # <<>>
  /\ q.en = "comprometer" => q.escrituras # <<>>

AvisoBien(a, na, np) ==
  /\ DOMAIN a = CamposDeAviso
  /\ a.recibido \in BOOLEAN /\ a.guardar \in BOOLEAN
  /\ a.status \in {"no", "leer", "escribir", "aprobar"}
  /\ a.montos \in {"no", "activacion", "ordenes", "siguiente", "cargos"}
  /\ a.activacion \in 0..na /\ a.partida \in 0..np
  /\ \A x \in a.ordenes : ParBien(x)
  /\ a.guardar \/ a.status # "no" \/ a.montos # "no" => a.recibido

CobroBien(c, np) ==
  /\ DOMAIN c = CamposDeCobro
  /\ c.en \in {"nuevo", "leer", "escribir", "rechazado", "hecho"}
  /\ c.partida \in 0..np /\ c.montos \in Montos
  /\ c.en # "nuevo" => c.evento \in EventosPartida /\ c.total \in Totales /\ c.orden \in Ordenes

DocumentoBien(d, na) ==
  \/ d = SinDocumento
  \/ /\ DOMAIN d = {"estatus", "campania", "activacion", "accion"}
     /\ d.campania \in Campanias /\ d.activacion \in 1..na /\ d.accion \in Acciones
     /\ d.estatus \in {"PENDIENTE_DE_FIRMA", "enviado", "APROBADA"}

CampaniasBien == campania \in [Campanias -> CAMPAIGN_STATUS \cup {"NO_EXISTE", "BORRADA"}]
ActivacionesBien ==
  /\ activacion \in Seq(Activacion)
  /\ \A a \in 1..Len(activacion) : RenglonBien(activacion[a], a, Len(partida))
PartidasBien == partida \in Seq(Partida)
OrdenesBien ==
  /\ orden \in [Ordenes -> Orden \cup {SinOrden}]
  /\ \A o \in Ordenes : HayOrden(o) => orden[o].cargos # <<>>
DocumentosBien ==
  /\ DOMAIN documento = Envios
  /\ \A d \in Envios : DocumentoBien(documento[d], Len(activacion))
PeticionesBien ==
  /\ DOMAIN peticion = Hilos
  /\ \A h \in Hilos :
       \/ peticion[h] = SinPeticion
       \/ /\ PeticionBien(peticion[h], Len(activacion), Len(partida))
          /\ EnSuSitio(peticion[h], Len(activacion))
AvisosBien ==
  /\ DOMAIN aviso = Avisos
  /\ \A e \in Avisos :
       /\ AvisoBien(aviso[e], Len(activacion), Len(partida))
       /\ aviso[e].recibido => documento[Doc(e)] # SinDocumento
CobrosBien ==
  DOMAIN cobro = Cobros /\ \A k \in Cobros : CobroBien(cobro[k], Len(partida))

\* The requests that still have to insert their match, and their activation.
PorPartir ==
  {h \in Hilos : peticion[h].op \in CreaActivacion /\
                 peticion[h].en \in {"guardarNueva", "leer", "partida"}}
PorActivar ==
  {h \in Hilos : peticion[h].op \in CreaActivacion /\
                 peticion[h].en \in {"guardarNueva", "leer", "partida", "activaciones", "guardar",
                                     "numerar", "guardarActivacion"}}
CuposBien ==
  /\ Len(partida) + Cardinality(PorPartir) <= MaxActivaciones
  /\ Len(activacion) + Cardinality(PorActivar) <= MaxActivaciones
  /\ incidentes \in 0..MaxIncidentes

\* The inductive form of TypeOKCampania: a request has at each query what the
\* query needs, and there is room for the rows that requests still insert.
TipoInv ==
  /\ TypeOK /\ CampaniasBien /\ ActivacionesBien /\ PartidasBien /\ OrdenesBien /\ DocumentosBien
  /\ PeticionesBien /\ AvisosBien /\ CobrosBien /\ CuposBien

LEMMA SinNada ==
  /\ SinPeticion.en = "libre" /\ SinPeticion.op = "-"
  /\ DOMAIN SinPeticion = Campos
  /\ \A na, np \in Nat : PeticionBien(SinPeticion, na, np)
  /\ \A na, np \in Nat : AvisoBien(SinAviso, na, np)
  /\ \A np \in Nat : CobroBien(SinCobro, np)
<1>1. SinPeticion.en = "libre" /\ SinPeticion.op = "-" /\ DOMAIN SinPeticion = Campos
  BY DEF SinPeticion, Campos
<1>2. ASSUME NEW na \in Nat, NEW np \in Nat
      PROVE  /\ PeticionBien(SinPeticion, na, np)
             /\ AvisoBien(SinAviso, na, np)
  <2>1. FilaBien(SinFila, na, np) BY DEF FilaBien, SinFila, CamposDeFila
  <2>2. PeticionBien(SinPeticion, na, np)
    BY <2>1, NaNAssumption DEF PeticionBien, SinPeticion, Campos
  <2>3. AvisoBien(SinAviso, na, np) BY DEF AvisoBien, SinAviso, CamposDeAviso
  <2> QED BY <2>2, <2>3
<1>3. ASSUME NEW np \in Nat PROVE CobroBien(SinCobro, np)
  BY DEF CobroBien, SinCobro, CamposDeCobro, Cero, Montos
<1> QED BY <1>1, <1>2, <1>3

----
(* Tables that grow, and what a step leaves alone. *)

Creciente ==
  /\ Len(activacion) \in Nat /\ Len(partida) \in Nat
  /\ Len(activacion)' \in Nat /\ Len(partida)' \in Nat
  /\ Len(activacion) <= Len(activacion)' /\ Len(partida) <= Len(partida)'

\* What was good with some rows is good with more.
LEMMA ConMasFilas ==
  ASSUME NEW na \in Nat, NEW np \in Nat, NEW ma \in Nat, NEW mp \in Nat, na <= ma, np <= mp
  PROVE  /\ \A r, a : RenglonBien(r, a, np) => RenglonBien(r, a, mp)
         /\ \A f : FilaBien(f, na, np) => FilaBien(f, ma, mp)
         /\ \A q : PeticionBien(q, na, np) => PeticionBien(q, ma, mp)
         /\ \A q : EnSuSitio(q, na) => EnSuSitio(q, ma)
         /\ \A a : AvisoBien(a, na, np) => AvisoBien(a, ma, mp)
         /\ \A c : CobroBien(c, np) => CobroBien(c, mp)
         /\ \A d : DocumentoBien(d, na) => DocumentoBien(d, ma)
<1>1. 0..na \subseteq 0..ma /\ 1..na \subseteq 1..ma /\ 0..np \subseteq 0..mp OBVIOUS
<1>2. \A r, a : RenglonBien(r, a, np) => RenglonBien(r, a, mp)
  <2> SUFFICES ASSUME NEW r, NEW a, RenglonBien(r, a, np) PROVE r.partida <= mp
    BY DEF RenglonBien
  <2>1. r.partida \in Int /\ r.partida <= np
    BY CampaniasAssumption DEF RenglonBien, Activacion, IdsActivacion
  <2> QED BY <2>1
<1>3. \A f : FilaBien(f, na, np) => FilaBien(f, ma, mp) BY <1>1, <1>2 DEF FilaBien
<1>4. \A q : PeticionBien(q, na, np) => PeticionBien(q, ma, mp)
  BY <1>1, <1>3 DEF PeticionBien
<1>5. \A q : EnSuSitio(q, na) => EnSuSitio(q, ma) BY <1>1 DEF EnSuSitio
<1>6. \A a : AvisoBien(a, na, np) => AvisoBien(a, ma, mp) BY <1>1 DEF AvisoBien
<1>7. \A c : CobroBien(c, np) => CobroBien(c, mp) BY <1>1 DEF CobroBien
<1>8. \A d : DocumentoBien(d, na) => DocumentoBien(d, ma) BY <1>1 DEF DocumentoBien
<1> QED BY <1>2, <1>3, <1>4, <1>5, <1>6, <1>7, <1>8

LEMMA Longitudes ==
  ASSUME ActivacionesBien, PartidasBien
  PROVE  /\ Len(activacion) \in Nat /\ Len(partida) \in Nat
         /\ DOMAIN activacion = 1..Len(activacion) /\ DOMAIN partida = 1..Len(partida)
BY DEF ActivacionesBien, PartidasBien

\* The rows that a step leaves alone.
LEMMA FilasQuietas ==
  ASSUME TipoInv, UNCHANGED <<activacion, partida>>
  PROVE  ActivacionesBien' /\ PartidasBien' /\ Creciente
<1>1. Len(activacion) \in Nat /\ Len(partida) \in Nat BY Longitudes DEF TipoInv
<1> QED BY <1>1 DEF TipoInv, ActivacionesBien, PartidasBien, Creciente

LEMMA LibroQuietoTipo ==
  ASSUME TypeOK, UNCHANGED vars
  PROVE  TypeOK'
BY DEF TypeOK, vars

LEMMA OrdenesQuietas ==
  ASSUME TipoInv, UNCHANGED orden
  PROVE  OrdenesBien'
BY DEF TipoInv, OrdenesBien, HayOrden

LEMMA DocumentosQuietos ==
  ASSUME TipoInv, Creciente, UNCHANGED documento
  PROVE  DocumentosBien'
BY ConMasFilas DEF TipoInv, DocumentosBien, Creciente

LEMMA PeticionesQuietas ==
  ASSUME TipoInv, Creciente, UNCHANGED peticion
  PROVE  PeticionesBien'
BY ConMasFilas DEF TipoInv, PeticionesBien, Creciente

LEMMA AvisosQuietos ==
  ASSUME TipoInv, Creciente, UNCHANGED aviso,
         \A d \in Envios : documento[d] # SinDocumento => documento'[d] # SinDocumento
  PROVE  AvisosBien'
<1>1. \A e \in Avisos : Doc(e) \in Envios BY DEF Avisos, Doc
<1> QED BY <1>1, ConMasFilas DEF TipoInv, AvisosBien, Creciente

LEMMA CobrosQuietos ==
  ASSUME TipoInv, Creciente, UNCHANGED cobro
  PROVE  CobrosBien'
BY ConMasFilas DEF TipoInv, CobrosBien, Creciente

\* One of them changes.
LEMMA PeticionCambia ==
  ASSUME TipoInv, Creciente, NEW h \in Hilos, NEW r, peticion' = [peticion EXCEPT ![h] = r],
         r = SinPeticion \/ (PeticionBien(r, Len(activacion)', Len(partida)')
                             /\ EnSuSitio(r, Len(activacion)'))
  PROVE  PeticionesBien'
BY ConMasFilas DEF TipoInv, PeticionesBien, Creciente

LEMMA AvisoCambia ==
  ASSUME TipoInv, Creciente, NEW e \in Avisos, NEW r, aviso' = [aviso EXCEPT ![e] = r],
         AvisoBien(r, Len(activacion)', Len(partida)'),
         r.recibido => documento'[Doc(e)] # SinDocumento,
         \A d \in Envios : documento[d] # SinDocumento => documento'[d] # SinDocumento
  PROVE  AvisosBien'
<1>1. \A n \in Avisos : Doc(n) \in Envios BY DEF Avisos, Doc
<1>2. DOMAIN aviso' = Avisos /\ \A n \in Avisos : aviso'[n] = IF n = e THEN r ELSE aviso[n]
  BY DEF TipoInv, AvisosBien
<1> QED BY <1>1, <1>2, ConMasFilas DEF TipoInv, AvisosBien, Creciente

LEMMA CobroCambia ==
  ASSUME TipoInv, Creciente, NEW k \in Cobros, NEW r, cobro' = [cobro EXCEPT ![k] = r],
         CobroBien(r, Len(partida)')
  PROVE  CobrosBien'
BY ConMasFilas DEF TipoInv, CobrosBien, Creciente

----
(* Requests. *)

EnPartir == {"guardarNueva", "leer", "partida"}
EnActivar == {"guardarNueva", "leer", "partida", "activaciones", "guardar", "numerar",
              "guardarActivacion"}

\* What a request may become: it does not begin to insert rows.
Puede(h, r) ==
  /\ r.op \in CreaActivacion /\ r.en \in EnPartir => h \in PorPartir
  /\ r.op \in CreaActivacion /\ r.en \in EnActivar => h \in PorActivar

LEMMA PeticionTipo ==
  ASSUME TipoInv, NEW h \in Hilos, peticion[h].en # "libre"
  PROVE  /\ PeticionBien(peticion[h], Len(activacion), Len(partida))
         /\ EnSuSitio(peticion[h], Len(activacion))
         /\ DOMAIN peticion[h] = Campos /\ DOMAIN peticion = Hilos
<1>1. peticion[h] # SinPeticion BY SinNada
<1> QED BY <1>1 DEF TipoInv, PeticionesBien, PeticionBien

LEMMA PorInsertarFinitos ==
  /\ IsFiniteSet(PorPartir) /\ Cardinality(PorPartir) \in Nat
  /\ IsFiniteSet(PorActivar) /\ Cardinality(PorActivar) \in Nat
<1>1. IsFiniteSet(Hilos) BY CampaniasAssumption
<1>2. PorPartir \in SUBSET Hilos /\ PorActivar \in SUBSET Hilos
  BY DEF PorPartir, PorActivar
<1> QED BY <1>1, <1>2, FS_Subset, FS_CardinalityType

\* The room for rows, when no request begins to insert them.
LEMMA CuposMenos ==
  ASSUME TipoInv, PorPartir' \subseteq PorPartir, PorActivar' \subseteq PorActivar,
         Len(activacion)' = Len(activacion), Len(partida)' = Len(partida),
         incidentes' \in 0..MaxIncidentes
  PROVE  CuposBien'
<1>1. /\ Cardinality(PorPartir') <= Cardinality(PorPartir) /\ Cardinality(PorPartir') \in Nat
      /\ Cardinality(PorActivar') <= Cardinality(PorActivar) /\ Cardinality(PorActivar') \in Nat
  BY PorInsertarFinitos, FS_Subset, FS_CardinalityType
<1>2. Len(activacion) \in Nat /\ Len(partida) \in Nat /\ MaxActivaciones \in Nat
  BY Longitudes, CampaniasAssumption DEF TipoInv
<1> QED BY <1>1, <1>2, PorInsertarFinitos DEF TipoInv, CuposBien

LEMMA NoEmpieza ==
  ASSUME TipoInv, NEW h \in Hilos, NEW r, peticion' = [peticion EXCEPT ![h] = r], Puede(h, r)
  PROVE  PorPartir' \subseteq PorPartir /\ PorActivar' \subseteq PorActivar
<1>1. peticion'[h] = r /\ \A g \in Hilos : g # h => peticion'[g] = peticion[g]
  BY DEF TipoInv, PeticionesBien
<1>2. PorPartir' \subseteq PorPartir BY <1>1 DEF PorPartir, Puede, EnPartir
<1>3. PorActivar' \subseteq PorActivar BY <1>1 DEF PorActivar, Puede, EnActivar
<1> QED BY <1>2, <1>3

\* A step of a request.
LEMMA PasoDePeticion ==
  ASSUME TipoInv, NEW h \in Hilos, NEW r, peticion' = [peticion EXCEPT ![h] = r],
         r = SinPeticion \/ (PeticionBien(r, Len(activacion)', Len(partida)')
                             /\ EnSuSitio(r, Len(activacion)')),
         Creciente, TypeOK', CampaniasBien', ActivacionesBien', PartidasBien', OrdenesBien',
         DocumentosBien', \A d \in Envios : documento[d] # SinDocumento => documento'[d] # SinDocumento,
         CuposBien', UNCHANGED <<aviso, cobro>>
  PROVE  TipoInv'
<1>1. PeticionesBien' BY PeticionCambia
<1>2. AvisosBien' /\ CobrosBien' BY AvisosQuietos, CobrosQuietos
<1> QED BY <1>1, <1>2 DEF TipoInv

\* One that writes no row of the campaigns but may write the ledger's.
LEMMA PasoQueLee ==
  ASSUME TipoInv, NEW h \in Hilos, NEW r, peticion' = [peticion EXCEPT ![h] = r],
         r = SinPeticion \/ (PeticionBien(r, Len(activacion), Len(partida))
                             /\ EnSuSitio(r, Len(activacion))),
         Puede(h, r), TypeOK', UNCHANGED <<filas, aviso, cobro, incidentes>>
  PROVE  TipoInv'
<1>1. UNCHANGED <<campania, activacion, partida, orden, documento, aviso, cobro, incidentes>>
  BY DEF filas
<1>2. ActivacionesBien' /\ PartidasBien' /\ Creciente BY <1>1, FilasQuietas
<1>3. CampaniasBien' /\ OrdenesBien' /\ DocumentosBien'
  BY <1>1, <1>2, OrdenesQuietas, DocumentosQuietos DEF TipoInv, CampaniasBien
<1>4. CuposBien' BY <1>1, NoEmpieza, CuposMenos DEF TipoInv, CuposBien
<1>5. Len(activacion)' = Len(activacion) /\ Len(partida)' = Len(partida) BY <1>1
<1> QED BY <1>1, <1>2, <1>3, <1>4, <1>5, PasoDePeticion

\* Responding.
LEMMA PuedeNada == ASSUME NEW h PROVE Puede(h, SinPeticion)
BY SinNada DEF Puede, CreaActivacion

LEMMA ResponderTipo ==
  ASSUME TipoInv, NEW h \in Hilos, Responder(h), TypeOK',
         UNCHANGED <<filas, aviso, cobro, incidentes>>
  PROVE  TipoInv'
BY PasoQueLee, PuedeNada DEF Responder

\* A query that rejects leaves a request that still may be.
LEMMA RechazarBien ==
  ASSUME TipoInv, NEW h \in Hilos, peticion[h].en # "libre", Rechazar(h)
  PROVE  \E r : /\ peticion' = [peticion EXCEPT ![h] = r] /\ Puede(h, r)
                /\ r = SinPeticion \/ (PeticionBien(r, Len(activacion), Len(partida))
                                       /\ EnSuSitio(r, Len(activacion)))
                /\ r = SinPeticion \/ r = [peticion[h] EXCEPT !.en = "limpiar"]
<1> DEFINE q == peticion[h]
           r == [q EXCEPT !.en = "limpiar"]
<1>1. PeticionBien(q, Len(activacion), Len(partida)) /\ EnSuSitio(q, Len(activacion))
      /\ DOMAIN q = Campos
  BY PeticionTipo
<1>2. CASE peticion' = [peticion EXCEPT ![h] = SinPeticion] BY <1>2, PuedeNada
<1>3. CASE q.op = "crear" /\ peticion' = [peticion EXCEPT ![h].en = "limpiar"]
  <2>1. peticion' = [peticion EXCEPT ![h] = r] BY <1>3
  <2>2. PeticionBien(r, Len(activacion), Len(partida)) BY <1>1 DEF PeticionBien, Campos
  <2>3. EnSuSitio(r, Len(activacion)) /\ Puede(h, r)
    BY <1>1, <1>3 DEF EnSuSitio, Puede, Campos, EnPartir, EnActivar, Esperas, CreaActivacion, DeBaja
  <2> HIDE DEF r
  <2> QED BY <2>1, <2>2, <2>3 DEF r
<1> QED BY <1>2, <1>3 DEF Rechazar, Responder, Seguir

LEMMA RechazarTipo ==
  ASSUME TipoInv, NEW h \in Hilos, peticion[h].en # "libre", Rechazar(h), TypeOK',
         UNCHANGED <<filas, aviso, cobro, incidentes>>
  PROVE  TipoInv'
<1>1. PICK r : /\ peticion' = [peticion EXCEPT ![h] = r] /\ Puede(h, r)
               /\ r = SinPeticion \/ (PeticionBien(r, Len(activacion), Len(partida))
                                       /\ EnSuSitio(r, Len(activacion)))
  BY RechazarBien
<1> QED BY <1>1, PasoQueLee

----
(* Requests arrive. *)

LEMMA LlegarTipo ==
  ASSUME TipoInv, NEW regular, Llegar(regular)
  PROVE  inicios' \in Nat /\ incidentes' \in 0..MaxIncidentes
<1>1. inicios \in Nat /\ incidentes \in 0..MaxIncidentes /\ MaxIncidentes \in Nat
  BY CampaniasAssumption DEF TipoInv, TypeOK, CuposBien
<1>2. inicios' = inicios + 1 /\ (incidentes' = incidentes \/ incidentes' = incidentes + 1)
      /\ incidentes' <= MaxIncidentes
  BY DEF Llegar, DentroDeCotas
<1> QED BY <1>1, <1>2

LEMMA LlegarLibro ==
  ASSUME TipoInv, NEW regular, Llegar(regular), UNCHANGED varsLibro
  PROVE  TypeOK'
BY LlegarTipo DEF varsLibro, TypeOK, TipoInv

LEMMA MayorDeDos ==
  ASSUME NEW i \in Int, NEW j \in Int
  PROVE  Max({i, j}) \in Int /\ i <= Max({i, j}) /\ j <= Max({i, j})
<1>1. \E x \in {i, j} : \A y \in {i, j} : x >= y OBVIOUS
<1> QED BY <1>1 DEF Max

\* There is room for what a new request is going to insert.
LEMMA PedirCupos ==
  ASSUME TipoInv, NEW h \in Hilos, NEW regular, NEW nueva, Pedir(h, regular, nueva)
  PROVE  CuposBien'
<1>1. UNCHANGED <<activacion, partida>> /\ peticion' = [peticion EXCEPT ![h] = nueva]
      /\ incidentes' \in 0..MaxIncidentes
  BY LlegarTipo DEF Pedir, filas
<1>2. CASE nueva.op \notin CreaActivacion
  <2>1. Puede(h, nueva) BY <1>2 DEF Puede
  <2> QED BY <1>1, <2>1, NoEmpieza, CuposMenos
<1>3. CASE nueva.op \in CreaActivacion
  <2>1. HayCupo BY <1>3 DEF Pedir, CreaActivacion
  <2>2. IsFiniteSet(Creadores) /\ Cardinality(Creadores) \in Nat
    BY CampaniasAssumption, FS_Subset, FS_CardinalityType DEF Creadores
  <2>3. IsFiniteSet(Creadores \cup {h}) /\ Cardinality(Creadores \cup {h}) <= Cardinality(Creadores) + 1
        /\ Cardinality(Creadores \cup {h}) \in Nat
    BY <2>2, FS_AddElement, FS_CardinalityType
  <2>4. peticion'[h] = nueva /\ \A g \in Hilos : g # h => peticion'[g] = peticion[g]
    BY <1>1 DEF TipoInv, PeticionesBien
  <2>5. PorPartir' \in SUBSET (Creadores \cup {h}) /\ PorActivar' \in SUBSET (Creadores \cup {h})
    BY <2>4 DEF PorPartir, PorActivar, Creadores, CreaActivacion
  <2>6. Cardinality(PorPartir') <= Cardinality(Creadores) + 1 /\ Cardinality(PorPartir') \in Nat
        /\ Cardinality(PorActivar') <= Cardinality(Creadores) + 1
        /\ Cardinality(PorActivar') \in Nat
    BY <2>2, <2>3, <2>5, FS_Subset, FS_CardinalityType
  <2>7. Len(activacion) \in Nat /\ Len(partida) \in Nat /\ MaxActivaciones \in Nat
    BY Longitudes, CampaniasAssumption DEF TipoInv
  <2>8. Len(activacion) + Cardinality(Creadores) < MaxActivaciones
        /\ Len(partida) + Cardinality(Creadores) < MaxActivaciones
    <3> DEFINE m == Max({Len(partida), Len(activacion)})
    <3>0. Len(activacion) \in Int /\ Len(partida) \in Int BY <2>7
    <3>1. m \in Int /\ Len(activacion) <= m /\ Len(partida) <= m BY ONLY <3>0, MayorDeDos
    <3>2. m + Cardinality(Creadores) < MaxActivaciones BY <2>1 DEF HayCupo
    <3> HIDE DEF m
    <3> QED BY <2>2, <2>7, <3>1, <3>2
  <2>9. Len(activacion)' = Len(activacion) /\ Len(partida)' = Len(partida) BY <1>1
  <2> QED BY <1>1, <2>2, <2>6, <2>7, <2>8, <2>9 DEF CuposBien
<1> QED BY <1>2, <1>3

LEMMA PedirTipo ==
  ASSUME TipoInv, NEW h \in Hilos, NEW regular, NEW nueva, Pedir(h, regular, nueva),
         PeticionBien(nueva, Len(activacion), Len(partida)), EnSuSitio(nueva, Len(activacion))
  PROVE  TipoInv'
<1>1. UNCHANGED <<campania, activacion, partida, orden, documento, aviso, cobro>>
      /\ peticion' = [peticion EXCEPT ![h] = nueva]
  BY DEF Pedir, filas
<1>2. ActivacionesBien' /\ PartidasBien' /\ Creciente BY <1>1, FilasQuietas
<1>3. CampaniasBien' /\ OrdenesBien' /\ DocumentosBien'
  BY <1>1, <1>2, OrdenesQuietas, DocumentosQuietos DEF TipoInv, CampaniasBien
<1>4. CuposBien' /\ TypeOK' BY PedirCupos, LlegarLibro DEF Pedir
<1>5. Len(activacion)' = Len(activacion) /\ Len(partida)' = Len(partida) BY <1>1
<1> QED BY <1>1, <1>2, <1>3, <1>4, <1>5, PasoDePeticion

\* A request that has just arrived.
Nueva(r, na) ==
  /\ DOMAIN r = Campos
  /\ r.campania \in Campanias \cup {"-"} /\ r.activacion \in 0..na
  /\ r.partida = 0 /\ r.fila = SinFila /\ r.ordenes = {} /\ r.cargos = <<>>
  /\ r.escrituras = <<>> /\ r.leido = 0

LEMMA NuevaBien ==
  ASSUME NEW na \in Nat, NEW np \in Nat, NEW r, Nueva(r, na)
  PROVE  PeticionBien(r, na, np)
<1>1. FilaBien(SinFila, na, np) BY DEF FilaBien, SinFila, CamposDeFila
<1> QED BY <1>1 DEF PeticionBien, Nueva

LEMMA SolicitarTipo ==
  ASSUME TipoInv, NEW h \in Hilos, Solicitar(h)
  PROVE  TipoInv'
<1>n. Len(activacion) \in Nat /\ Len(partida) \in Nat
      /\ DOMAIN activacion = 1..Len(activacion)
  BY Longitudes DEF TipoInv
<1>1. ASSUME NEW c \in Campanias, PedirCrear(h, c) PROVE TipoInv'
  <2>1. PICK en \in {"guardarNueva", "limpiar"} :
          Pedir(h, TRUE, [SinPeticion EXCEPT !.op = "crear", !.en = en, !.campania = c])
    BY <1>1 DEF PedirCrear
  <2> DEFINE r == [SinPeticion EXCEPT !.op = "crear", !.en = en, !.campania = c]
  <2>2. Nueva(r, Len(activacion)) BY <1>n DEF Nueva, SinPeticion, Campos
  <2>3. EnSuSitio(r, Len(activacion))
    BY <1>n DEF EnSuSitio, SinPeticion, Esperas, DeBaja, CreaActivacion
  <2> HIDE DEF r
  <2>4. Pedir(h, TRUE, r) BY <2>1 DEF r
  <2> QED BY <1>n, <2>2, <2>3, <2>4, NuevaBien, PedirTipo
<1>2. ASSUME NEW c \in Campanias, NEW op \in {"actualizar", "quitar", "renovar", "activar"},
             PedirSobre(h, op, c)
      PROVE  TipoInv'
  <2> DEFINE r == [SinPeticion EXCEPT !.op = op, !.campania = c,
                               !.en = IF op = "activar" THEN "partida" ELSE "leer"]
  <2>2. Nueva(r, Len(activacion)) BY <1>n DEF Nueva, SinPeticion, Campos
  <2>3. EnSuSitio(r, Len(activacion))
    BY <1>n DEF EnSuSitio, SinPeticion, Esperas, DeBaja, CreaActivacion
  <2>4. Pedir(h, op # "activar", r) BY <1>2 DEF PedirSobre
  <2> HIDE DEF r
  <2> QED BY <1>n, <2>2, <2>3, <2>4, NuevaBien, PedirTipo
<1>3. ASSUME NEW c \in Campanias, NEW a \in DOMAIN activacion, PedirCerrar(h, c, a)
      PROVE  TipoInv'
  <2> DEFINE r == [SinPeticion EXCEPT !.op = "cerrar", !.en = "leer", !.campania = c,
                               !.activacion = a]
  <2>2. Nueva(r, Len(activacion)) BY <1>n DEF Nueva, SinPeticion, Campos
  <2>3. EnSuSitio(r, Len(activacion))
    BY <1>n DEF EnSuSitio, SinPeticion, Esperas, DeBaja, CreaActivacion
  <2>4. Pedir(h, a = UltimaActivacion(c), r) BY <1>3 DEF PedirCerrar
  <2> HIDE DEF r
  <2> QED BY <1>n, <2>2, <2>3, <2>4, NuevaBien, PedirTipo
<1>4. ASSUME NEW c \in Campanias, NEW accion \in Acciones, NEW d \in Envios,
             PedirFirma(h, c, accion, d)
      PROVE  TipoInv'
  <2> DEFINE r == [SinPeticion EXCEPT !.op = "firmar", !.en = "leer", !.campania = c,
                                        !.accion = accion, !.doc = d]
  <2>2. Nueva(r, Len(activacion)) BY <1>n DEF Nueva, SinPeticion, Campos
  <2>3. EnSuSitio(r, Len(activacion))
    BY <1>n DEF EnSuSitio, SinPeticion, Esperas, DeBaja, CreaActivacion
  <2>4. Pedir(h, TRUE, r) BY <1>4 DEF PedirFirma
  <2> HIDE DEF r
  <2> QED BY <1>n, <2>2, <2>3, <2>4, NuevaBien, PedirTipo
<1>5. ASSUME NEW c \in Campanias, NEW o \in Ordenes, NEW total \in Totales,
             PedirOrden(h, c, o, total)
      PROVE  TipoInv'
  <2> DEFINE r == [SinPeticion EXCEPT !.op = "ordenar", !.en = "leer", !.campania = c,
                               !.orden = o, !.total = total]
  <2>2. Nueva(r, Len(activacion)) BY <1>n DEF Nueva, SinPeticion, Campos
  <2>3. EnSuSitio(r, Len(activacion))
    BY <1>n DEF EnSuSitio, SinPeticion, Esperas, DeBaja, CreaActivacion
  <2>4. Pedir(h, campania[c] \in Editables, r) BY <1>5 DEF PedirOrden
  <2> HIDE DEF r
  <2> QED BY <1>n, <2>2, <2>3, <2>4, NuevaBien, PedirTipo
<1> QED BY <1>1, <1>2, <1>3, <1>4, <1>5 DEF Solicitar

LEMMA PedirDesactivarTipo ==
  ASSUME TipoInv, NEW h \in Hilos, NEW a \in DOMAIN activacion, PedirDesactivar(h, a)
  PROVE  TipoInv'
<1>n. Len(activacion) \in Nat /\ Len(partida) \in Nat
      /\ DOMAIN activacion = 1..Len(activacion)
  BY Longitudes DEF TipoInv
<1> DEFINE r == [SinPeticion EXCEPT !.op = "desactivar", !.en = "desactivar", !.activacion = a]
<1>2. Nueva(r, Len(activacion)) BY <1>n DEF Nueva, SinPeticion, Campos
<1>3. EnSuSitio(r, Len(activacion))
  BY <1>n DEF EnSuSitio, SinPeticion, Esperas, DeBaja, CreaActivacion
<1>4. Pedir(h, FALSE, r) BY DEF PedirDesactivar
<1> HIDE DEF r
<1> QED BY <1>n, <1>2, <1>3, <1>4, NuevaBien, PedirTipo

----
(* What requests read. *)

\* The last activation of a campaign.
LEMMA UltimaEs ==
  ASSUME ActivacionesBien, NEW c
  PROVE  /\ UltimaActivacion(c) \in 0..Len(activacion)
         /\ ActivacionesDe(c) \subseteq 1..Len(activacion)
         /\ IsFiniteSet(ActivacionesDe(c))
         /\ \A a \in ActivacionesDe(c) : a <= UltimaActivacion(c) /\ UltimaActivacion(c) # 0
         /\ UltimaActivacion(c) # 0 => UltimaActivacion(c) \in ActivacionesDe(c)
<1> DEFINE S == ActivacionesDe(c) \cup {0}
<1>1. Len(activacion) \in Nat /\ DOMAIN activacion = 1..Len(activacion)
  BY DEF ActivacionesBien
<1>2. ActivacionesDe(c) \subseteq 1..Len(activacion) BY <1>1 DEF ActivacionesDe
<1>3. IsFiniteSet(ActivacionesDe(c))
  <2>1. IsFiniteSet(1..Len(activacion)) BY <1>1, FS_Interval
  <2> QED BY <1>2, <2>1, FS_Subset
<1>4. IsFiniteSet(S) /\ S # {} /\ \A x \in S : x \in Int
  BY <1>1, <1>2, <1>3, FS_AddElement
<1>5. \E x \in S : \A y \in S : x >= y
  <2> HIDE DEF S
  <2> QED BY <1>4, MaximoHay
<1>6. UltimaActivacion(c) \in S /\ \A y \in S : UltimaActivacion(c) >= y
  <2>1. UltimaActivacion(c) = Max(S) BY DEF UltimaActivacion
  <2> HIDE DEF S
  <2> QED BY <1>5, <2>1 DEF Max
<1>7. \A a \in ActivacionesDe(c) : a >= 1 /\ a \in Int BY <1>1, <1>2
<1>8. UltimaActivacion(c) \in Int BY <1>4, <1>6
<1>9. \A a \in ActivacionesDe(c) : a <= UltimaActivacion(c) /\ UltimaActivacion(c) # 0
  BY <1>6, <1>7, <1>8
<1>10. UltimaActivacion(c) # 0 => UltimaActivacion(c) \in ActivacionesDe(c) BY <1>6
<1>11. UltimaActivacion(c) \in 0..Len(activacion) BY <1>1, <1>2, <1>6
<1> QED BY <1>2, <1>3, <1>9, <1>10, <1>11

LEMMA NumerarTipo ==
  ASSUME TipoInv, NEW h \in Hilos, Numerar(h)
  PROVE  TipoInv'
<1> DEFINE q == peticion[h]
           c == q.campania
           ultima == UltimaActivacion(c)
           v == IF ultima = 0 THEN 0 ELSE activacion[ultima].numero
           r == [q EXCEPT !.en = "guardarActivacion", !.leido = v]
<1>1. q.en = "numerar" /\ UNCHANGED <<vars, filas, aviso, cobro, incidentes>>
  BY DEF Numerar
<1>2. TypeOK' BY <1>1, LibroQuietoTipo DEF TipoInv
<1>3. PeticionBien(q, Len(activacion), Len(partida)) /\ EnSuSitio(q, Len(activacion))
      /\ DOMAIN q = Campos
  BY <1>1, PeticionTipo
<1>4. CASE Existe(c) /\ HayPartida(q.partida)
  <2>1. peticion' = [peticion EXCEPT ![h].en = "guardarActivacion", ![h].leido = v]
    BY <1>4 DEF Numerar
  <2>2. peticion' = [peticion EXCEPT ![h] = r]
    BY <1>3, <2>1, PeticionTipo DEF TipoInv, PeticionesBien, Campos
  <2>3. v \in 0..Len(activacion)
    <3>1. ultima \in 0..Len(activacion) /\ Len(activacion) \in Nat
      BY UltimaEs, Longitudes DEF TipoInv
    <3> HIDE DEF ultima
    <3>2. CASE ultima # 0
      <4>1. RenglonBien(activacion[ultima], ultima, Len(partida))
        BY <3>1, <3>2 DEF TipoInv, ActivacionesBien
      <4>2. activacion[ultima].numero \in Nat /\ activacion[ultima].numero <= ultima
        BY <4>1, CampaniasAssumption DEF RenglonBien, Activacion
      <4> QED BY <3>1, <3>2, <4>2
    <3> QED BY <3>1, <3>2
  <2> HIDE DEF v
  <2>4. v \in Int BY <2>3
  <2>5. PeticionBien(r, Len(activacion), Len(partida))
    BY <1>3, <2>3, <2>4 DEF PeticionBien, Campos
  <2>6. EnSuSitio(r, Len(activacion)) /\ Puede(h, r)
    BY <1>1, <1>3, <2>3 DEF EnSuSitio, Campos, Puede, Esperas, DeBaja, EnPartir, EnActivar, PorActivar
  <2> HIDE DEF r
  <2> QED BY <1>1, <1>2, <2>2, <2>5, <2>6, PasoQueLee
<1>5. CASE ~(Existe(c) /\ HayPartida(q.partida))
  <2>1. Rechazar(h) BY <1>5 DEF Numerar
  <2> QED BY <1>1, <1>2, <2>1, RechazarTipo
<1> QED BY <1>4, <1>5

LEMMA LeerPorLimpiarTipo ==
  ASSUME TipoInv, NEW h \in Hilos, LeerPorLimpiar(h)
  PROVE  TipoInv'
<1> DEFINE q == peticion[h]
<1>1. q.en = "limpiar" /\ UNCHANGED <<vars, filas, aviso, cobro, incidentes>>
  BY DEF LeerPorLimpiar
<1>2. TypeOK' BY <1>1, LibroQuietoTipo DEF TipoInv
<1>3. PeticionBien(q, Len(activacion), Len(partida)) /\ EnSuSitio(q, Len(activacion))
      /\ DOMAIN q = Campos /\ DOMAIN peticion = Hilos
  BY <1>1, PeticionTipo
<1>4. ASSUME NEW c \in Campanias,
             peticion' = [peticion EXCEPT ![h].en = "borrar", ![h].campania = c]
      PROVE  TipoInv'
  <2> DEFINE r == [q EXCEPT !.en = "borrar", !.campania = c]
  <2>2. peticion' = [peticion EXCEPT ![h] = r] BY <1>3, <1>4 DEF Campos
  <2>5. PeticionBien(r, Len(activacion), Len(partida)) BY <1>3 DEF PeticionBien, Campos
  <2>6. EnSuSitio(r, Len(activacion)) /\ Puede(h, r)
    BY <1>1, <1>3 DEF EnSuSitio, Campos, Puede, Esperas, DeBaja, EnPartir, EnActivar
  <2> HIDE DEF r
  <2> QED BY <1>1, <1>2, <2>2, <2>5, <2>6, PasoQueLee
<1>5. CASE Responder(h) BY <1>1, <1>2, <1>5, ResponderTipo
<1> QED BY <1>4, <1>5 DEF LeerPorLimpiar

\* A row as it is read.
LEMMA LeerFilaBien ==
  ASSUME TipoInv, NEW c \in Campanias, NEW con \in BOOLEAN
  PROVE  FilaBien(LeerFila(c, con), Len(activacion), Len(partida))
<1>1. ActivacionesDe(c) \subseteq 1..Len(activacion) BY UltimaEs DEF TipoInv
<1>2. DOMAIN LeerFila(c, con) = CamposDeFila
      /\ DOMAIN LeerFila(c, con).activaciones = (IF con THEN ActivacionesDe(c) ELSE {})
      /\ \A a \in DOMAIN LeerFila(c, con).activaciones :
           LeerFila(c, con).activaciones[a] = activacion[a]
  BY DEF LeerFila, CamposDeFila
<1> QED BY <1>1, <1>2 DEF FilaBien, TipoInv, ActivacionesBien

LEMMA LeerCampaniaTipo ==
  ASSUME TipoInv, NEW h \in Hilos, LeerCampania(h)
  PROVE  TipoInv'
<1> DEFINE q == peticion[h]
           c == q.campania
           op == q.op
           leida == LeerFila(c, op \in {"renovar", "actualizar"})
           fila == [leida EXCEPT !.status = StatusGuardado(op, @)]
           r == [q EXCEPT !.en = TrasLeerFila[op], !.fila = fila]
<1>1. q.en = "leer" /\ op # "ordenar" /\ UNCHANGED <<vars, filas, aviso, cobro, incidentes>>
  BY DEF LeerCampania
<1>2. TypeOK' BY <1>1, LibroQuietoTipo DEF TipoInv
<1>3. PeticionBien(q, Len(activacion), Len(partida)) /\ EnSuSitio(q, Len(activacion))
      /\ DOMAIN q = Campos /\ DOMAIN peticion = Hilos
  BY <1>1, PeticionTipo
<1>4. op \in {"actualizar", "quitar", "renovar", "cerrar", "firmar"} /\ c \in Campanias
  BY <1>1, <1>3 DEF EnSuSitio, DeBaja
<1>5. CASE Existe(c) /\ Admite(op, c, q.accion)
  <2>1. peticion' = [peticion EXCEPT ![h].en = TrasLeerFila[op], ![h].fila = fila]
    BY <1>5 DEF LeerCampania
  <2>2. peticion' = [peticion EXCEPT ![h] = r] BY <1>3, <2>1 DEF Campos
  <2>3. FilaBien(leida, Len(activacion), Len(partida)) /\ leida.status = campania[c]
    <3>1. (op \in {"renovar", "actualizar"}) \in BOOLEAN OBVIOUS
    <3>2. FilaBien(leida, Len(activacion), Len(partida)) BY <1>4, <3>1, LeerFilaBien
    <3> QED BY <3>2 DEF LeerFila
  <2>4. fila.status = StatusGuardado(op, campania[c])
        /\ FilaBien(fila, Len(activacion), Len(partida))
    <3> HIDE DEF leida
    <3> QED BY <2>3 DEF FilaBien, CamposDeFila
  <2> HIDE DEF leida, fila
  <2>5. PeticionBien(r, Len(activacion), Len(partida))
    BY <1>3, <2>4 DEF PeticionBien, Campos
  <2>6. r.op = op /\ r.en = TrasLeerFila[op] /\ r.fila = fila /\ r.campania = c
        /\ r.doc = q.doc /\ r.accion = q.accion
    BY <1>3 DEF Campos
  <2>7. /\ TrasLeerFila[op] = "borrar" => op = "quitar"
        /\ TrasLeerFila[op] = "partida" => op = "renovar"
        /\ TrasLeerFila[op] = "ultima" => op = "firmar"
        /\ TrasLeerFila[op] = "guardar" => op \in {"cerrar", "actualizar"}
        /\ TrasLeerFila[op] \in {"borrar", "partida", "ultima", "guardar"}
    BY <1>4 DEF TrasLeerFila
  <2>8. TrasLeerFila[op] \in {"guardar", "ultima"} => fila.status \in Guardables
    <3>1. op = "actualizar" => campania[c] \in Editables BY <1>5 DEF Admite
    <3> QED BY <2>4, <2>7, <3>1 DEF StatusGuardado, Guardables, Editables, CAMPAIGN_STATUS
  <2>9. EnSuSitio(r, Len(activacion))
    <3> HIDE DEF r
    <3> QED BY <1>3, <1>4, <2>6, <2>7, <2>8 DEF EnSuSitio, Esperas, DeBaja, CreaActivacion
  <2>10. Puede(h, r)
    <3> HIDE DEF r
    <3> QED BY <1>1, <2>6 DEF Puede, PorPartir, PorActivar
  <2> HIDE DEF r
  <2> QED BY <1>1, <1>2, <2>2, <2>5, <2>9, <2>10, PasoQueLee
<1>6. CASE ~(Existe(c) /\ Admite(op, c, q.accion))
  <2>1. Responder(h) BY <1>6 DEF LeerCampania
  <2> QED BY <1>1, <1>2, <2>1, ResponderTipo
<1> QED BY <1>5, <1>6

LEMMA LeerUltimaTipo ==
  ASSUME TipoInv, NEW h \in Hilos, LeerUltima(h)
  PROVE  TipoInv'
<1> DEFINE q == peticion[h]
           ultima == UltimaActivacion(q.campania)
           r == [q EXCEPT !.en = "documento", !.activacion = ultima]
<1>1. q.en = "ultima" /\ UNCHANGED <<vars, filas, aviso, cobro, incidentes>>
  BY DEF LeerUltima
<1>2. TypeOK' BY <1>1, LibroQuietoTipo DEF TipoInv
<1>3. PeticionBien(q, Len(activacion), Len(partida)) /\ EnSuSitio(q, Len(activacion))
      /\ DOMAIN q = Campos /\ DOMAIN peticion = Hilos
  BY <1>1, PeticionTipo
<1>4. ultima \in 0..Len(activacion) BY UltimaEs DEF TipoInv
<1>5. CASE ultima # 0
  <2>1. peticion' = [peticion EXCEPT ![h].en = "documento", ![h].activacion = ultima]
    BY <1>5 DEF LeerUltima
  <2> HIDE DEF ultima
  <2>2. peticion' = [peticion EXCEPT ![h] = r] BY <1>3, <2>1 DEF Campos
  <2>5. PeticionBien(r, Len(activacion), Len(partida))
    BY <1>3, <1>4 DEF PeticionBien, Campos
  <2>6. EnSuSitio(r, Len(activacion)) /\ Puede(h, r)
    BY <1>1, <1>3, <1>5 DEF EnSuSitio, Campos, Puede, Esperas, DeBaja, CreaActivacion
  <2> HIDE DEF r
  <2> QED BY <1>1, <1>2, <2>2, <2>5, <2>6, PasoQueLee
<1>6. CASE ultima = 0
  <2>1. Responder(h) BY <1>6 DEF LeerUltima
  <2> QED BY <1>1, <1>2, <2>1, ResponderTipo
<1> QED BY <1>5, <1>6

LEMMA LeerActivacionTipo ==
  ASSUME TipoInv, NEW h \in Hilos, LeerActivacion(h)
  PROVE  TipoInv'
<1> DEFINE q == peticion[h]
           a == q.activacion
           p == activacion[a].partida
           c == activacion[a].campania
           r == [q EXCEPT !.en = "baja", !.partida = p, !.campania = c]
<1>1. q.en = "desactivar" /\ UNCHANGED <<vars, filas, aviso, cobro, incidentes>>
  BY DEF LeerActivacion
<1>2. TypeOK' BY <1>1, LibroQuietoTipo DEF TipoInv
<1>3. PeticionBien(q, Len(activacion), Len(partida)) /\ EnSuSitio(q, Len(activacion))
      /\ DOMAIN q = Campos /\ DOMAIN peticion = Hilos
  BY <1>1, PeticionTipo
<1>4. CASE HayActivacion(a)
  <2>1. peticion' = [peticion EXCEPT ![h].en = "baja", ![h].partida = p, ![h].campania = c]
    BY <1>4 DEF LeerActivacion
  <2>3. p \in 0..Len(partida) /\ c \in Campanias \cup {"-"}
    <3>1. a \in 1..Len(activacion) /\ Len(partida) \in Nat
      BY <1>4, Longitudes DEF TipoInv, HayActivacion
    <3>2. RenglonBien(activacion[a], a, Len(partida))
      BY <3>1 DEF TipoInv, ActivacionesBien
    <3> QED BY <3>1, <3>2, CampaniasAssumption DEF RenglonBien, Activacion, IdsActivacion
  <2> HIDE DEF p, c
  <2>2. peticion' = [peticion EXCEPT ![h] = r] BY <1>3, <2>1 DEF Campos
  <2>5. PeticionBien(r, Len(activacion), Len(partida))
    BY <1>3, <2>3 DEF PeticionBien, Campos
  <2>6. EnSuSitio(r, Len(activacion)) /\ Puede(h, r)
    BY <1>1, <1>3 DEF EnSuSitio, Campos, Puede, Esperas, DeBaja, CreaActivacion
  <2> HIDE DEF r
  <2> QED BY <1>1, <1>2, <2>2, <2>5, <2>6, PasoQueLee
<1>5. CASE ~HayActivacion(a)
  <2>1. Responder(h) BY <1>5 DEF LeerActivacion
  <2> QED BY <1>1, <1>2, <2>1, ResponderTipo
<1> QED BY <1>4, <1>5

LEMMA ParesDeOrdenes ==
  ASSUME TipoInv, NEW S, S \subseteq Ordenes, \A o \in S : HayOrden(o)
  PROVE  \A x \in {<<o, orden[o].cargos>> : o \in S} : ParBien(x)
<1> SUFFICES ASSUME NEW o \in S PROVE ParBien(<<o, orden[o].cargos>>) OBVIOUS
<1>1. orden[o] \in Orden /\ orden[o].cargos # <<>> BY DEF TipoInv, OrdenesBien, HayOrden
<1> QED BY <1>1 DEF ParBien, Orden

LEMMA BuscarPendientesTipo ==
  ASSUME TipoInv, NEW h \in Hilos, BuscarPendientes(h)
  PROVE  TipoInv'
<1> DEFINE q == peticion[h]
           S == {x \in OrdenesDe(q.campania, q.partida) : orden[x].estatus = "PENDIENTE"}
           T == {<<o, orden[o].cargos>> : o \in S}
           r == [q EXCEPT !.en = "maestro", !.ordenes = T]
<1>1. q.en = "buscar" /\ UNCHANGED <<vars, filas, aviso, cobro, incidentes>>
  BY DEF BuscarPendientes
<1>2. TypeOK' BY <1>1, LibroQuietoTipo DEF TipoInv
<1>3. PeticionBien(q, Len(activacion), Len(partida)) /\ EnSuSitio(q, Len(activacion))
      /\ DOMAIN q = Campos /\ DOMAIN peticion = Hilos
  BY <1>1, PeticionTipo
<1>4. \A x \in T : ParBien(x)
  <2>1. S \subseteq Ordenes /\ \A o \in S : HayOrden(o) BY DEF OrdenesDe
  <2> HIDE DEF S
  <2> QED BY <2>1, ParesDeOrdenes
<1>5. peticion' = [peticion EXCEPT ![h].en = "maestro", ![h].ordenes = T]
  BY DEF BuscarPendientes
<1> HIDE DEF T
<1>6. peticion' = [peticion EXCEPT ![h] = r] BY <1>3, <1>5 DEF Campos
<1>7. PeticionBien(r, Len(activacion), Len(partida))
  BY <1>3, <1>4 DEF PeticionBien, Campos
<1>8. EnSuSitio(r, Len(activacion)) /\ Puede(h, r)
  BY <1>1, <1>3 DEF EnSuSitio, Campos, Puede, Esperas, DeBaja, CreaActivacion
<1> HIDE DEF r
<1> QED BY <1>1, <1>2, <1>6, <1>7, <1>8, PasoQueLee

----
(* What requests give back to the funds and take from them. *)

LEMMA ComprometidoBien ==
  ASSUME TipoInv, NEW f \in Fondos
  PROVE  fondo[f]["committedAmount"] \in Int \cup {NaN}
BY DEF TipoInv, TypeOK, FundRow, FundColumns

LEMMA DevolverBien ==
  ASSUME NEW cargos \in Seq(Cargo)
  PROVE  /\ Devolver(cargos) \in {"borrarOrden", "devolver", "modificatorio"}
         /\ Devolver(cargos) = "borrarOrden" <=> cargos = <<>>
BY DEF Devolver

LEMMA LeerMaestroDeOrdenTipo ==
  ASSUME TipoInv, NEW h \in Hilos, LeerMaestroDeOrden(h)
  PROVE  TipoInv'
<1> DEFINE q == peticion[h]
<1>1. q.en = "maestro" /\ UNCHANGED <<vars, filas, aviso, cobro, incidentes>>
  BY DEF LeerMaestroDeOrden
<1>2. TypeOK' BY <1>1, LibroQuietoTipo DEF TipoInv
<1>3. PeticionBien(q, Len(activacion), Len(partida)) /\ EnSuSitio(q, Len(activacion))
      /\ DOMAIN q = Campos /\ DOMAIN peticion = Hilos
  BY <1>1, PeticionTipo
<1>4. CASE Responder(h) BY <1>1, <1>2, <1>4, ResponderTipo
<1>5. ASSUME NEW x \in q.ordenes,
             peticion' = [peticion EXCEPT ![h].en = Devolver(x[2]), ![h].ordenes = @ \ {x},
                             ![h].orden = x[1], ![h].cargos = x[2],
                             ![h].leido = fondo[Maestro]["committedAmount"]]
      PROVE  TipoInv'
  <2> DEFINE v == fondo[Maestro]["committedAmount"]
             o == x[1]
             cs == x[2]
             en == Devolver(cs)
             T == q.ordenes \ {x}
             r == [q EXCEPT !.en = en, !.ordenes = T, !.orden = o, !.cargos = cs, !.leido = v]
  <2>1. ParBien(x) /\ \A y \in T : ParBien(y) BY <1>3 DEF PeticionBien
  <2>2. cs \in Seq(Cargo) /\ cs # <<>> /\ v \in Int \cup {NaN}
    BY <2>1, ComprometidoBien, FondosAssumption DEF ParBien
  <2>3. en \in {"devolver", "modificatorio"} BY <2>2, DevolverBien
  <2>4. peticion' = [peticion EXCEPT ![h] = r] BY <1>3, <1>5 DEF Campos
  <2> HIDE DEF v, o, cs, en, T
  <2>5. PeticionBien(r, Len(activacion), Len(partida))
    BY <1>3, <2>1, <2>2 DEF PeticionBien, Campos
  <2>6. EnSuSitio(r, Len(activacion)) /\ Puede(h, r)
    <3>1. r.en = en /\ r.op = q.op /\ r.campania = q.campania /\ r.cargos = cs
      BY <1>3 DEF Campos
    <3>2. q.op \in {"cerrar", "desactivar"} BY <1>1, <1>3 DEF EnSuSitio, DeBaja
    <3> HIDE DEF r
    <3> QED BY <2>2, <2>3, <3>1, <3>2 DEF EnSuSitio, Puede, Esperas, DeBaja, CreaActivacion
  <2> HIDE DEF r
  <2> QED BY <1>1, <1>2, <2>4, <2>5, <2>6, PasoQueLee
<1> QED BY <1>4, <1>5 DEF LeerMaestroDeOrden, CargosDevueltos

LEMMA LeerModificatorioDeOrdenTipo ==
  ASSUME TipoInv, NEW h \in Hilos, LeerModificatorioDeOrden(h)
  PROVE  TipoInv'
<1> DEFINE q == peticion[h]
           v == fondo[Head(q.cargos).fondo]["committedAmount"]
           r == [q EXCEPT !.en = "devolver", !.leido = v]
<1>1. q.en = "modificatorio" /\ UNCHANGED <<vars, filas, aviso, cobro, incidentes>>
  BY DEF LeerModificatorioDeOrden
<1>2. TypeOK' BY <1>1, LibroQuietoTipo DEF TipoInv
<1>3. PeticionBien(q, Len(activacion), Len(partida)) /\ EnSuSitio(q, Len(activacion))
      /\ DOMAIN q = Campos /\ DOMAIN peticion = Hilos
  BY <1>1, PeticionTipo
<1>4. v \in Int \cup {NaN}
  <2>1. q.cargos \in Seq(Cargo) /\ q.cargos # <<>>
    BY <1>1, <1>3 DEF PeticionBien, EnSuSitio
  <2>2. Head(q.cargos) \in Cargo BY <2>1
  <2>3. Head(q.cargos).fondo \in Fondos BY <2>2 DEF Cargo
  <2> QED BY <2>3, ComprometidoBien
<1>5. peticion' = [peticion EXCEPT ![h].en = "devolver", ![h].leido = v]
  BY DEF LeerModificatorioDeOrden
<1> HIDE DEF v
<1>6. peticion' = [peticion EXCEPT ![h] = r] BY <1>3, <1>5 DEF Campos
<1>7. PeticionBien(r, Len(activacion), Len(partida))
  BY <1>3, <1>4 DEF PeticionBien, Campos
<1>8. EnSuSitio(r, Len(activacion)) /\ Puede(h, r)
  BY <1>1, <1>3 DEF EnSuSitio, Campos, Puede, Esperas, DeBaja, CreaActivacion
<1> HIDE DEF r
<1> QED BY <1>1, <1>2, <1>6, <1>7, <1>8, PasoQueLee

LEMMA DevolverCargoTipo ==
  ASSUME TipoInv, NEW h \in Hilos, DevolverCargo(h)
  PROVE  TipoInv'
<1> DEFINE q == peticion[h]
           cargo == Head(q.cargos)
           resto == Tail(q.cargos)
           v == Redondear(Menos(q.leido, cargo.monto))
           en == Devolver(resto)
           r == [q EXCEPT !.en = en, !.cargos = resto]
<1>1. q.en = "devolver" /\ UNCHANGED <<inicios, filas, aviso, cobro, incidentes>>
      /\ EscribirComprometido(cargo.fondo, v)
  BY DEF DevolverCargo
<1>3. PeticionBien(q, Len(activacion), Len(partida)) /\ EnSuSitio(q, Len(activacion))
      /\ DOMAIN q = Campos /\ DOMAIN peticion = Hilos
  BY <1>1, PeticionTipo
<1>4. q.cargos \in Seq(Cargo) /\ q.cargos # <<>> /\ q.leido \in Int \cup {NaN}
  BY <1>1, <1>3 DEF PeticionBien, EnSuSitio
<1>5. cargo \in Cargo /\ resto \in Seq(Cargo) BY <1>4
<1>2. TypeOK'
  <2>1. cargo.fondo \in Fondos /\ cargo.monto \in Int BY <1>5 DEF Cargo
  <2>2. Menos(q.leido, cargo.monto) \in Int \cup {NaN} BY <1>4, <2>1 DEF Menos
  <2>3. v \in Int \cup {NaN} BY <2>2, RedondeoAcotado DEF Redondear
  <2>4. inicios' \in Nat BY <1>1 DEF TipoInv, TypeOK
  <2> HIDE DEF cargo, v
  <2> QED BY <1>1, <2>1, <2>3, <2>4, ComprometidoTipo DEF TipoInv
<1>6. en \in {"borrarOrden", "devolver", "modificatorio"} /\ (en # "borrarOrden" => resto # <<>>)
  BY <1>5, DevolverBien
<1>7. peticion' = [peticion EXCEPT ![h].en = en, ![h].cargos = resto] BY DEF DevolverCargo
<1> HIDE DEF resto, en
<1>8. peticion' = [peticion EXCEPT ![h] = r] BY <1>3, <1>7 DEF Campos
<1>9. PeticionBien(r, Len(activacion), Len(partida))
  BY <1>3, <1>5 DEF PeticionBien, Campos
<1>10. EnSuSitio(r, Len(activacion)) /\ Puede(h, r)
  <2>1. r.en = en /\ r.op = q.op /\ r.campania = q.campania /\ r.cargos = resto
    BY <1>3 DEF Campos
  <2>2. q.op \in {"cerrar", "desactivar"} BY <1>1, <1>3 DEF EnSuSitio, DeBaja
  <2> HIDE DEF r
  <2> QED BY <1>6, <2>1, <2>2 DEF EnSuSitio, Puede, Esperas, DeBaja, CreaActivacion
<1> HIDE DEF r
<1> QED BY <1>1, <1>2, <1>8, <1>9, <1>10, PasoQueLee

LEMMA LeerParaOrdenTipo ==
  ASSUME TipoInv, NEW h \in Hilos, LeerParaOrden(h)
  PROVE  TipoInv'
<1> DEFINE q == peticion[h]
           c == q.campania
           activas == {a \in ActivacionesDe(c) : activacion[a].status}
<1>1. q.en = "leer" /\ q.op = "ordenar" /\ UNCHANGED <<vars, filas, aviso, cobro, incidentes>>
  BY DEF LeerParaOrden
<1>2. TypeOK' BY <1>1, LibroQuietoTipo DEF TipoInv
<1>3. PeticionBien(q, Len(activacion), Len(partida)) /\ EnSuSitio(q, Len(activacion))
      /\ DOMAIN q = Campos /\ DOMAIN peticion = Hilos
  BY <1>1, PeticionTipo
<1>4. CASE Responder(h) BY <1>1, <1>2, <1>4, ResponderTipo
<1>5. ASSUME NEW p \in IF activas = {} THEN {0} ELSE {activacion[a].partida : a \in activas},
             peticion' = [peticion EXCEPT ![h].en = "fondos", ![h].partida = p]
      PROVE  TipoInv'
  <2> DEFINE r == [q EXCEPT !.en = "fondos", !.partida = p]
  <2>1. p \in 0..Len(partida)
    <3>1. Len(partida) \in Nat BY Longitudes DEF TipoInv
    <3>2. CASE p = 0 BY <3>1, <3>2
    <3>3. CASE activas # {}
      <4>1. PICK a \in activas : p = activacion[a].partida BY <3>3
      <4>2. a \in 1..Len(activacion) BY UltimaEs DEF TipoInv
      <4>3. RenglonBien(activacion[a], a, Len(partida))
        BY <4>2 DEF TipoInv, ActivacionesBien
      <4> QED BY <3>1, <4>1, <4>3, CampaniasAssumption DEF RenglonBien, Activacion, IdsActivacion
    <3> QED BY <3>2, <3>3
  <2>2. peticion' = [peticion EXCEPT ![h] = r] BY <1>3, <1>5 DEF Campos
  <2>5. PeticionBien(r, Len(activacion), Len(partida))
    BY <1>3, <2>1 DEF PeticionBien, Campos
  <2>6. EnSuSitio(r, Len(activacion)) /\ Puede(h, r)
    BY <1>1, <1>3 DEF EnSuSitio, Campos, Puede, Esperas, DeBaja, CreaActivacion
  <2> HIDE DEF r
  <2> QED BY <1>1, <1>2, <2>2, <2>5, <2>6, PasoQueLee
<1> QED BY <1>4, <1>5 DEF LeerParaOrden

\* What the plan of funds asks to write for an order that it covers.
LEMMA PlanCubiertoBien ==
  ASSUME TipoInv, NEW total \in Totales,
         PlanCubierto(PlanDeFondos(fondo, Maestro, Extensiones, total))
  PROVE  LET plan == PlanDeFondos(fondo, Maestro, Extensiones, total)
         IN  /\ plan.escrituras \in Seq(Escritura) /\ plan.escrituras # <<>>
             /\ CargosDelPlan(plan, total) \in Seq(Cargo) /\ CargosDelPlan(plan, total) # <<>>
             /\ PlanBien(plan, total, Fondos)
<1> DEFINE plan == PlanDeFondos(fondo, Maestro, Extensiones, total)
<1>1. total \in Nat \ {0} BY CampaniasAssumption
<1>2. PlanBien(plan, total, Fondos)
  BY <1>1, PlanDeFondosBien, CampaniasAssumption DEF TipoInv, TypeOK
<1>3. PlanCubierto(plan) OBVIOUS
<1> HIDE DEF plan
<1>4. plan.resto # total BY <1>1, <1>3 DEF PlanCubierto
<1>5. plan.usos # <<>> /\ plan.usos \in Seq(Cargo) /\ plan.escrituras \in Seq(Escritura)
      /\ Len(plan.usos) <= Len(plan.escrituras)
  BY <1>2, <1>4 DEF PlanBien
<1>6. plan.escrituras # <<>>
  <2>1. Len(plan.usos) > 0 BY <1>5
  <2> QED BY <1>5, <2>1
<1>7. CargosDelPlan(plan, total) \in Seq(Cargo) /\ CargosDelPlan(plan, total) # <<>>
  <2> DEFINE uno == [fondo |-> Maestro, monto |-> total]
             d == Desglose(plan, Maestro)
  <2>1. uno \in Cargo BY <1>1, FondosAssumption DEF Cargo
  <2>2. d \in Seq(Cargo) BY <1>5 DEF Desglose
  <2>3. CargosDelPlan(plan, total) = IF d = <<>> THEN <<uno>> ELSE d BY DEF CargosDelPlan
  <2> HIDE DEF uno, d
  <2>4. <<uno>> \in Seq(Cargo) /\ <<uno>> # <<>> BY <2>1
  <2> QED BY <2>2, <2>3, <2>4
<1> QED BY <1>2, <1>5, <1>6, <1>7 DEF plan

LEMMA LeerFondosTipo ==
  ASSUME TipoInv, NEW h \in Hilos, LeerFondos(h)
  PROVE  TipoInv'
<1> DEFINE q == peticion[h]
           plan == PlanDeFondos(fondo, Maestro, Extensiones, q.total)
           cs == CargosDelPlan(plan, q.total)
           es == plan.escrituras
           r == [q EXCEPT !.en = "comprometer", !.cargos = cs, !.escrituras = es]
<1>1. q.en = "fondos" /\ UNCHANGED <<vars, filas, aviso, cobro, incidentes>>
  BY DEF LeerFondos
<1>2. TypeOK' BY <1>1, LibroQuietoTipo DEF TipoInv
<1>3. PeticionBien(q, Len(activacion), Len(partida)) /\ EnSuSitio(q, Len(activacion))
      /\ DOMAIN q = Campos /\ DOMAIN peticion = Hilos
  BY <1>1, PeticionTipo
<1>4. q.op = "ordenar" /\ q.total \in Totales /\ q.campania \in Campanias
      /\ q.orden \in Ordenes
  BY <1>1, <1>3 DEF EnSuSitio, DeBaja
<1>5. CASE PlanCubierto(plan)
  <2>1. es \in Seq(Escritura) /\ es # <<>> /\ cs \in Seq(Cargo) /\ cs # <<>>
    BY <1>4, <1>5, PlanCubiertoBien
  <2>2. peticion' = [peticion EXCEPT ![h].en = "comprometer", ![h].cargos = cs,
                                     ![h].escrituras = es]
    BY <1>5 DEF LeerFondos
  <2> HIDE DEF cs, es
  <2>3. peticion' = [peticion EXCEPT ![h] = r] BY <1>3, <2>2 DEF Campos
  <2>5. PeticionBien(r, Len(activacion), Len(partida))
    BY <1>3, <2>1 DEF PeticionBien, Campos
  <2>6. EnSuSitio(r, Len(activacion)) /\ Puede(h, r)
    BY <1>3, <1>4, <2>1 DEF EnSuSitio, Campos, Puede, Esperas, DeBaja, CreaActivacion
  <2> HIDE DEF r
  <2> QED BY <1>1, <1>2, <2>3, <2>5, <2>6, PasoQueLee
<1>6. CASE ~PlanCubierto(plan)
  <2>1. Responder(h) BY <1>6 DEF LeerFondos
  <2> QED BY <1>1, <1>2, <2>1, ResponderTipo
<1> QED BY <1>5, <1>6

LEMMA EscribirReservaTipo ==
  ASSUME TipoInv, NEW h \in Hilos, EscribirReserva(h)
  PROVE  TipoInv'
<1> DEFINE q == peticion[h]
           e == Head(q.escrituras)
           resto == Tail(q.escrituras)
           en == IF resto = <<>> THEN "guardarOrden" ELSE "comprometer"
           r == [q EXCEPT !.escrituras = resto, !.en = en]
<1>1. q.en = "comprometer" /\ UNCHANGED <<inicios, filas, aviso, cobro, incidentes>>
      /\ EscribirComprometido(e.fondo, e.valor)
  BY DEF EscribirReserva
<1>3. PeticionBien(q, Len(activacion), Len(partida)) /\ EnSuSitio(q, Len(activacion))
      /\ DOMAIN q = Campos /\ DOMAIN peticion = Hilos
  BY <1>1, PeticionTipo
<1>4. q.escrituras \in Seq(Escritura) /\ q.escrituras # <<>>
  BY <1>1, <1>3 DEF PeticionBien, EnSuSitio
<1>5. e \in Escritura /\ resto \in Seq(Escritura) BY <1>4
<1>2. TypeOK'
  <2>1. e.fondo \in Fondos /\ e.valor \in Int \cup {NaN} BY <1>5 DEF Escritura
  <2>4. inicios' \in Nat BY <1>1 DEF TipoInv, TypeOK
  <2> HIDE DEF e
  <2> QED BY <1>1, <2>1, <2>4, ComprometidoTipo DEF TipoInv
<1>7. peticion' = [peticion EXCEPT ![h].escrituras = resto, ![h].en = en]
  BY DEF EscribirReserva
<1>6. en \in {"guardarOrden", "comprometer"} /\ (en = "comprometer" => resto # <<>>)
  OBVIOUS
<1> HIDE DEF resto, en
<1>8. peticion' = [peticion EXCEPT ![h] = r] BY <1>3, <1>7 DEF Campos
<1>9. PeticionBien(r, Len(activacion), Len(partida))
  BY <1>3, <1>5 DEF PeticionBien, Campos
<1>10. EnSuSitio(r, Len(activacion)) /\ Puede(h, r)
  <2>1. /\ r.en = en /\ r.op = q.op /\ r.campania = q.campania /\ r.cargos = q.cargos
        /\ r.escrituras = resto /\ r.orden = q.orden /\ r.total = q.total
    BY <1>3 DEF Campos
  <2>2. /\ q.op = "ordenar" /\ q.campania \in Campanias /\ q.orden \in Ordenes
        /\ q.total \in Totales /\ q.cargos # <<>>
    BY <1>1, <1>3 DEF EnSuSitio, DeBaja
  <2> HIDE DEF r
  <2> QED BY <1>6, <2>1, <2>2 DEF EnSuSitio, Puede, Esperas, DeBaja, CreaActivacion
<1> HIDE DEF r
<1> QED BY <1>1, <1>2, <1>8, <1>9, <1>10, PasoQueLee

----
(* What requests write. *)

\* Activations that are written in their places.
LEMMA RenglonesBien ==
  ASSUME TipoInv, NEW g, activacion' = [a \in DOMAIN activacion |-> g[a]],
         \A a \in 1..Len(activacion) : RenglonBien(g[a], a, Len(partida)),
         UNCHANGED partida
  PROVE  ActivacionesBien' /\ PartidasBien' /\ Creciente
         /\ Len(activacion)' = Len(activacion) /\ Len(partida)' = Len(partida)
<1>1. Len(activacion) \in Nat /\ Len(partida) \in Nat /\ DOMAIN activacion = 1..Len(activacion)
  BY Longitudes DEF TipoInv
<1>2. \A a \in 1..Len(activacion) : g[a] \in Activacion /\ activacion'[a] = g[a]
  BY <1>1 DEF RenglonBien
<1>3. activacion' \in Seq(Activacion) /\ Len(activacion') = Len(activacion) BY <1>1, <1>2
<1>4. \A a \in 1..Len(activacion)' : RenglonBien(activacion'[a], a, Len(partida)')
  BY <1>2, <1>3
<1>5. PartidasBien' BY DEF TipoInv, PartidasBien
<1> QED BY <1>1, <1>3, <1>4, <1>5 DEF ActivacionesBien, Creciente

\* Rows without a campaign.
LEMMA SinCampania ==
  /\ \A a \in Nat, np \in Nat : RenglonBien(SinActivacion, a, np)
  /\ \A r, a, np : RenglonBien(r, a, np) => RenglonBien([r EXCEPT !.campania = "-"], a, np)
  /\ \A r, a, np : RenglonBien(r, a, np) => RenglonBien([r EXCEPT !.status = FALSE], a, np)
  /\ \A r, a, np : RenglonBien(r, a, np) => RenglonBien([r EXCEPT !.aprobada = TRUE], a, np)
<1>1. \A a \in Nat, np \in Nat : RenglonBien(SinActivacion, a, np)
  BY CampaniasAssumption DEF RenglonBien, SinActivacion, Activacion, IdsActivacion
<1>2. ASSUME NEW r, NEW a, NEW np, RenglonBien(r, a, np)
      PROVE  /\ RenglonBien([r EXCEPT !.campania = "-"], a, np)
             /\ RenglonBien([r EXCEPT !.status = FALSE], a, np)
             /\ RenglonBien([r EXCEPT !.aprobada = TRUE], a, np)
  BY <1>2 DEF RenglonBien, Activacion
<1> QED BY <1>1, <1>2

\* What save of a campaign leaves in the activations.
LEMMA ConFilaBien ==
  ASSUME TipoInv, NEW fila, FilaBien(fila, Len(activacion), Len(partida)), NEW c
  PROVE  \A a \in 1..Len(activacion) : /\ RenglonBien(ConActivaciones(fila)[a], a, Len(partida))
                                       /\ RenglonBien(ConFila(c, fila)[a], a, Len(partida))
<1>1. DOMAIN activacion = 1..Len(activacion) BY Longitudes DEF TipoInv
<1>2. \A a \in 1..Len(activacion) : RenglonBien(activacion[a], a, Len(partida))
  BY DEF TipoInv, ActivacionesBien
<1>3. ASSUME NEW a \in 1..Len(activacion)
      PROVE  RenglonBien(ConActivaciones(fila)[a], a, Len(partida))
  BY <1>1, <1>2 DEF ConActivaciones, FilaBien
<1>4. ASSUME NEW a \in 1..Len(activacion)
      PROVE  RenglonBien(ConFila(c, fila)[a], a, Len(partida))
  <2>1. ConFila(c, fila)[a] \in {[activacion[a] EXCEPT !.campania = "-"], ConActivaciones(fila)[a]}
    BY <1>1 DEF ConFila
  <2> QED BY <1>2, <1>3, <2>1, SinCampania
<1> QED BY <1>3, <1>4

LEMMA GuardarNuevaTipo ==
  ASSUME TipoInv, NEW h \in Hilos, GuardarNueva(h)
  PROVE  TipoInv'
<1> DEFINE q == peticion[h]
           r == [q EXCEPT !.en = "partida"]
<1>1. q.en = "guardarNueva" /\ campania' = [campania EXCEPT ![q.campania] = "CREADA"]
      /\ UNCHANGED <<vars, activacion, partida, orden, documento, aviso, cobro, incidentes>>
      /\ peticion' = [peticion EXCEPT ![h].en = "partida"]
  BY DEF GuardarNueva, Seguir
<1>3. PeticionBien(q, Len(activacion), Len(partida)) /\ EnSuSitio(q, Len(activacion))
      /\ DOMAIN q = Campos /\ DOMAIN peticion = Hilos
  BY <1>1, PeticionTipo
<1>4. peticion' = [peticion EXCEPT ![h] = r] BY <1>1, <1>3 DEF Campos
<1>5. PeticionBien(r, Len(activacion), Len(partida)) BY <1>3 DEF PeticionBien, Campos
<1>6. EnSuSitio(r, Len(activacion)) /\ Puede(h, r)
  BY <1>1, <1>3 DEF EnSuSitio, Campos, Puede, Esperas, DeBaja, CreaActivacion, PorPartir, PorActivar
<1> HIDE DEF r
<1>7. ActivacionesBien' /\ PartidasBien' /\ Creciente /\ OrdenesBien' /\ TypeOK'
      /\ Len(activacion)' = Len(activacion) /\ Len(partida)' = Len(partida)
  BY <1>1, FilasQuietas, OrdenesQuietas, LibroQuietoTipo DEF TipoInv
<1>8. DocumentosBien' /\ CampaniasBien'
  BY <1>1, <1>7, DocumentosQuietos DEF TipoInv, CampaniasBien, CAMPAIGN_STATUS
<1>9. CuposBien' BY <1>1, <1>4, <1>6, <1>7, NoEmpieza, CuposMenos DEF TipoInv, CuposBien
<1> QED BY <1>1, <1>4, <1>5, <1>6, <1>7, <1>8, <1>9, PasoDePeticion

LEMMA GuardarPartidaTipo ==
  ASSUME TipoInv, NEW h \in Hilos, GuardarPartida(h)
  PROVE  TipoInv'
<1> DEFINE q == peticion[h]
           en == IF q.op = "renovar" THEN "activaciones" ELSE "numerar"
           p == Len(partida')
           r == [q EXCEPT !.partida = p, !.en = en]
<1>1. q.en = "partida" /\ partida' = Append(partida, NuevaPartida)
      /\ UNCHANGED <<vars, campania, activacion, orden, documento, aviso, cobro, incidentes>>
      /\ peticion' = [peticion EXCEPT ![h].partida = p, ![h].en = en]
  BY DEF GuardarPartida
<1>2. Len(activacion) \in Nat /\ Len(partida) \in Nat BY Longitudes DEF TipoInv
<1>3. PeticionBien(q, Len(activacion), Len(partida)) /\ EnSuSitio(q, Len(activacion))
      /\ DOMAIN q = Campos /\ DOMAIN peticion = Hilos
  BY <1>1, PeticionTipo
<1>4. p = Len(partida) + 1 /\ PartidasBien'
  <2>1. NuevaPartida \in Partida BY DEF NuevaPartida, Partida, Cero, Montos
  <2> QED BY <1>1, <2>1 DEF TipoInv, PartidasBien
<1>5. Creciente BY <1>1, <1>2, <1>4 DEF Creciente
<1>6. ActivacionesBien'
  BY <1>1, <1>2, <1>5, ConMasFilas DEF TipoInv, ActivacionesBien, Creciente
<1>7. PeticionBien(q, Len(activacion)', Len(partida)')
  BY <1>3, <1>5, ConMasFilas DEF Creciente
<1>8. Len(partida)' = p OBVIOUS
<1> HIDE DEF p, en
<1>9. peticion' = [peticion EXCEPT ![h] = r] BY <1>1, <1>3 DEF Campos
<1>10. PeticionBien(r, Len(activacion)', Len(partida)')
  <2>1. p \in 0..Len(partida)' BY <1>2, <1>4, <1>8
  <2> QED BY <1>3, <1>7, <2>1 DEF PeticionBien, Campos
<1>11. EnSuSitio(r, Len(activacion)) /\ r.en = en /\ r.op = q.op /\ q.op \in CreaActivacion
       /\ en \in {"activaciones", "numerar"}
  BY <1>1, <1>3 DEF EnSuSitio, Campos, Esperas, DeBaja, CreaActivacion, en
<1>12. EnSuSitio(r, Len(activacion)') BY <1>1, <1>11
<1> HIDE DEF r
<1>13. CuposBien'
  <2>1. peticion'[h] = r /\ \A g \in Hilos : g # h => peticion'[g] = peticion[g]
    BY <1>3, <1>9
  <2>2. h \in PorPartir /\ h \in PorActivar BY <1>1, <1>11 DEF PorPartir, PorActivar
  <2>3. PorPartir' \in SUBSET (PorPartir \ {h}) BY <1>11, <2>1 DEF PorPartir
  <2>4. PorActivar' \in SUBSET PorActivar BY <2>1, <2>2 DEF PorActivar
  <2>5. IsFiniteSet(PorPartir \ {h}) /\ Cardinality(PorPartir \ {h}) = Cardinality(PorPartir) - 1
    BY <2>2, PorInsertarFinitos, FS_RemoveElement
  <2>6. Cardinality(PorPartir') <= Cardinality(PorPartir) - 1 /\ Cardinality(PorPartir') \in Nat
        /\ Cardinality(PorActivar') <= Cardinality(PorActivar) /\ Cardinality(PorActivar') \in Nat
    BY <2>3, <2>4, <2>5, PorInsertarFinitos, FS_Subset, FS_CardinalityType
  <2>7. MaxActivaciones \in Nat BY CampaniasAssumption
  <2>8. Len(activacion)' = Len(activacion) BY <1>1
  <2> QED BY <1>1, <1>2, <1>4, <1>8, <2>6, <2>7, <2>8, PorInsertarFinitos DEF TipoInv, CuposBien
<1>14. OrdenesBien' /\ TypeOK' /\ DocumentosBien' /\ CampaniasBien'
  BY <1>1, <1>5, OrdenesQuietas, LibroQuietoTipo, DocumentosQuietos DEF TipoInv, CampaniasBien
<1> QED BY <1>1, <1>4, <1>5, <1>6, <1>9, <1>10, <1>12, <1>13, <1>14, PasoDePeticion

LEMMA ApagarActivacionesTipo ==
  ASSUME TipoInv, NEW h \in Hilos, ApagarActivaciones(h)
  PROVE  TipoInv'
<1> DEFINE q == peticion[h]
           fila == q.fila
           acts == [a \in DOMAIN fila.activaciones |->
                      [fila.activaciones[a] EXCEPT !.status = FALSE]]
           apagada == [fila EXCEPT !.status = "REACTIVADA", !.activaciones = acts]
           r == [q EXCEPT !.en = "guardar", !.fila = apagada]
<1>1. q.en = "activaciones"
      /\ UNCHANGED <<vars, campania, partida, orden, documento, aviso, cobro, incidentes>>
  BY DEF ApagarActivaciones
<1>3. PeticionBien(q, Len(activacion), Len(partida)) /\ EnSuSitio(q, Len(activacion))
      /\ DOMAIN q = Campos /\ DOMAIN peticion = Hilos
      /\ FilaBien(fila, Len(activacion), Len(partida))
  BY <1>1, PeticionTipo DEF PeticionBien
<1>2. activacion' = ConActivaciones(apagada)
      /\ peticion' = [peticion EXCEPT ![h].en = "guardar", ![h].fila = apagada]
  <2>1. apagada = [fila EXCEPT !.status = "REACTIVADA",
                    !.activaciones = [a \in DOMAIN @ |-> [@[a] EXCEPT !.status = FALSE]]]
    BY <1>3 DEF FilaBien, CamposDeFila
  <2> HIDE DEF apagada
  <2> QED BY <2>1 DEF ApagarActivaciones
<1>4. DOMAIN acts = DOMAIN fila.activaciones
      /\ \A a \in DOMAIN acts : RenglonBien(acts[a], a, Len(partida))
  BY <1>3, SinCampania DEF FilaBien
<1> HIDE DEF acts
<1>5. FilaBien(apagada, Len(activacion), Len(partida)) /\ apagada.status = "REACTIVADA"
  BY <1>3, <1>4 DEF FilaBien, CamposDeFila
<1> HIDE DEF apagada
<1>6. peticion' = [peticion EXCEPT ![h] = r] BY <1>2, <1>3 DEF Campos
<1>7. PeticionBien(r, Len(activacion), Len(partida))
  BY <1>3, <1>5 DEF PeticionBien, Campos
<1>8. EnSuSitio(r, Len(activacion)) /\ Puede(h, r)
  BY <1>1, <1>3, <1>5 DEF EnSuSitio, Campos, Puede, Esperas, DeBaja, CreaActivacion, PorActivar,
     EnPartir, Guardables, CAMPAIGN_STATUS
<1> HIDE DEF r
<1>9. ActivacionesBien' /\ PartidasBien' /\ Creciente
      /\ Len(activacion)' = Len(activacion) /\ Len(partida)' = Len(partida)
  <2> DEFINE g == ConActivaciones(apagada)
  <2>1. g = [a \in DOMAIN activacion |-> g[a]] BY DEF ConActivaciones
  <2>2. \A a \in 1..Len(activacion) : RenglonBien(g[a], a, Len(partida))
    BY <1>5, ConFilaBien
  <2>3. activacion' = g BY <1>2
  <2> HIDE DEF g
  <2>4. activacion' = [a \in DOMAIN activacion |-> g[a]] BY <2>1, <2>3
  <2> QED BY <1>1, <2>2, <2>4, RenglonesBien
<1>10. OrdenesBien' /\ TypeOK' /\ DocumentosBien' /\ CampaniasBien'
  BY <1>1, <1>9, OrdenesQuietas, LibroQuietoTipo, DocumentosQuietos DEF TipoInv, CampaniasBien
<1>11. CuposBien' BY <1>1, <1>6, <1>8, <1>9, NoEmpieza, CuposMenos DEF TipoInv, CuposBien
<1> QED BY <1>1, <1>6, <1>7, <1>8, <1>9, <1>10, <1>11, PasoDePeticion


LEMMA GuardarActivacionTipo ==
  ASSUME TipoInv, NEW h \in Hilos, GuardarActivacion(h)
  PROVE  TipoInv'
<1> DEFINE q == peticion[h]
           c == q.campania
           p == q.partida
           n == q.leido + 1
           una == [campania |-> c, numero |-> n, partida |-> p, status |-> TRUE, aprobada |-> FALSE]
<1>1. q.en = "guardarActivacion"
      /\ UNCHANGED <<vars, campania, partida, orden, documento, aviso, cobro, incidentes>>
  BY DEF GuardarActivacion
<1>2. Len(activacion) \in Nat /\ Len(partida) \in Nat /\ MaxActivaciones \in Nat
  BY Longitudes, CampaniasAssumption DEF TipoInv
<1>3. PeticionBien(q, Len(activacion), Len(partida)) /\ EnSuSitio(q, Len(activacion))
      /\ DOMAIN q = Campos /\ DOMAIN peticion = Hilos
  BY <1>1, PeticionTipo
<1>4. TypeOK' BY <1>1, LibroQuietoTipo DEF TipoInv
<1>5. CASE Existe(c) /\ HayPartida(p)
  <2>1. activacion' = Append(activacion, una) /\ peticion' = [peticion EXCEPT ![h] = SinPeticion]
    BY <1>5 DEF GuardarActivacion, Responder
  <2>2. h \in PorActivar /\ c \in Campanias /\ q.leido \in 0..Len(activacion)
    BY <1>1, <1>3 DEF EnSuSitio, PorActivar, DeBaja
  <2>3. Cardinality(PorActivar \ {h}) = Cardinality(PorActivar) - 1 /\ IsFiniteSet(PorActivar \ {h})
        /\ Cardinality(PorActivar \ {h}) \in Nat
    BY <2>2, PorInsertarFinitos, FS_RemoveElement, FS_CardinalityType
  <2>4. Len(activacion) + 1 <= MaxActivaciones /\ Len(partida) <= MaxActivaciones
    BY <1>2, <2>3, PorInsertarFinitos DEF TipoInv, CuposBien
  <2>5. p \in 1..Len(partida) BY <1>5, Longitudes DEF HayPartida, TipoInv
  <2>6. RenglonBien(una, Len(activacion) + 1, Len(partida))
    <3>1. n \in 0..MaxActivaciones + 1 /\ n <= Len(activacion) + 1 BY <1>2, <2>2, <2>4
    <3>2. p \in IdsActivacion /\ p # 0 /\ p <= Len(partida)
      BY <1>2, <2>4, <2>5 DEF IdsActivacion
    <3> HIDE DEF n, p
    <3> QED BY <2>2, <3>1, <3>2 DEF RenglonBien, Activacion
  <2> HIDE DEF una
  <2>7. /\ activacion' \in Seq(Activacion) /\ Len(activacion') = Len(activacion) + 1
        /\ \A a \in 1..(Len(activacion) + 1) :
             activacion'[a] = IF a = Len(activacion) + 1 THEN una ELSE activacion[a]
    <3>1. una \in Activacion /\ activacion \in Seq(Activacion)
      BY <2>6 DEF RenglonBien, TipoInv, ActivacionesBien
    <3> QED BY <2>1, <3>1, AppendProperties
  <2>8. Creciente BY <1>1, <1>2, <2>7 DEF Creciente
  <2>9. ActivacionesBien'
    <3>1. \A a \in 1..Len(activacion)' : RenglonBien(activacion'[a], a, Len(partida)')
      <4> SUFFICES ASSUME NEW a \in 1..(Len(activacion) + 1)
                   PROVE  RenglonBien(activacion'[a], a, Len(partida))
        BY <1>1, <2>7
      <4>1. CASE a = Len(activacion) + 1 BY <2>6, <2>7, <4>1
      <4>2. CASE a \in 1..Len(activacion)
        <5>1. activacion'[a] = activacion[a] BY <1>2, <2>7, <4>2
        <5> QED BY <4>2, <5>1 DEF TipoInv, ActivacionesBien
      <4> QED BY <1>2, <4>1, <4>2
    <3> QED BY <2>7, <3>1 DEF ActivacionesBien
  <2>10. CuposBien'
    <3>1. peticion'[h] = SinPeticion /\ \A g \in Hilos : g # h => peticion'[g] = peticion[g]
      BY <1>3, <2>1
    <3>2. SinPeticion.op \notin CreaActivacion BY SinNada DEF CreaActivacion
    <3>3. PorPartir' \in SUBSET PorPartir /\ PorActivar' \in SUBSET (PorActivar \ {h})
      BY <3>1, <3>2 DEF PorPartir, PorActivar
    <3>4. Cardinality(PorPartir') <= Cardinality(PorPartir) /\ Cardinality(PorPartir') \in Nat
          /\ Cardinality(PorActivar') <= Cardinality(PorActivar) - 1
          /\ Cardinality(PorActivar') \in Nat
      BY <2>3, <3>3, PorInsertarFinitos, FS_Subset, FS_CardinalityType
    <3>5. Len(partida)' = Len(partida) BY <1>1
    <3> QED BY <1>1, <1>2, <2>7, <3>4, <3>5, PorInsertarFinitos DEF TipoInv, CuposBien
  <2>11. OrdenesBien' /\ DocumentosBien' /\ CampaniasBien' /\ PartidasBien'
    BY <1>1, <2>8, OrdenesQuietas, DocumentosQuietos DEF TipoInv, CampaniasBien, PartidasBien
  <2> QED BY <1>1, <1>4, <2>1, <2>8, <2>9, <2>10, <2>11, PasoDePeticion
<1>6. CASE ~(Existe(c) /\ HayPartida(p))
  <2>1. Rechazar(h) /\ UNCHANGED activacion BY <1>6 DEF GuardarActivacion
  <2>2. UNCHANGED filas BY <1>1, <2>1 DEF filas
  <2> QED BY <1>1, <1>4, <2>1, <2>2, RechazarTipo
<1> QED BY <1>5, <1>6

\* A step that writes the campaigns, and the activations in their places.
LEMMA PasoDeCampanias ==
  ASSUME TipoInv, NEW h \in Hilos, NEW r, peticion' = [peticion EXCEPT ![h] = r],
         r = SinPeticion \/ (PeticionBien(r, Len(activacion), Len(partida))
                             /\ EnSuSitio(r, Len(activacion))),
         Puede(h, r), CampaniasBien',
         NEW g, activacion' = [a \in DOMAIN activacion |-> g[a]],
         \A a \in 1..Len(activacion) : RenglonBien(g[a], a, Len(partida)),
         UNCHANGED <<vars, partida, orden, documento, aviso, cobro, incidentes>>
  PROVE  TipoInv'
<1>1. ActivacionesBien' /\ PartidasBien' /\ Creciente
      /\ Len(activacion)' = Len(activacion) /\ Len(partida)' = Len(partida)
  BY RenglonesBien
<1>2. OrdenesBien' /\ TypeOK' /\ DocumentosBien'
  BY <1>1, OrdenesQuietas, LibroQuietoTipo, DocumentosQuietos DEF TipoInv
<1>3. CuposBien' BY <1>1, NoEmpieza, CuposMenos DEF TipoInv, CuposBien
<1> QED BY <1>1, <1>2, <1>3, PasoDePeticion

LEMMA BorrarCampaniaTipo ==
  ASSUME TipoInv, NEW h \in Hilos, BorrarCampania(h)
  PROVE  TipoInv'
<1> DEFINE q == peticion[h]
           c == q.campania
           g == [a \in DOMAIN activacion |->
                   IF activacion[a].campania = c THEN SinActivacion ELSE activacion[a]]
<1>1. q.en = "borrar" /\ peticion' = [peticion EXCEPT ![h] = SinPeticion]
      /\ UNCHANGED <<vars, partida, orden, documento, aviso, cobro, incidentes>>
  BY DEF BorrarCampania, Responder
<1>2. CASE UNCHANGED <<campania, activacion>>
  <2>1. UNCHANGED filas /\ TypeOK' BY <1>1, <1>2, LibroQuietoTipo DEF filas, TipoInv
  <2> QED BY <1>1, <2>1, ResponderTipo DEF Responder
<1>3. CASE campania' = [campania EXCEPT ![c] = "BORRADA"] /\ activacion' = g
  <2>1. \A a \in 1..Len(activacion) : RenglonBien(g[a], a, Len(partida))
    <3>1. Len(partida) \in Nat /\ DOMAIN activacion = 1..Len(activacion)
      BY Longitudes DEF TipoInv
    <3> QED BY <3>1, SinCampania DEF TipoInv, ActivacionesBien
  <2>2. activacion' = [a \in DOMAIN activacion |-> g[a]] BY <1>3
  <2> HIDE DEF g
  <2>3. CampaniasBien' BY <1>3 DEF TipoInv, CampaniasBien
  <2> QED BY <1>1, <2>1, <2>2, <2>3, PuedeNada, PasoDeCampanias
<1> QED BY <1>2, <1>3 DEF BorrarCampania

LEMMA GuardarCampaniaTipo ==
  ASSUME TipoInv, NEW h \in Hilos, GuardarCampania(h)
  PROVE  TipoInv'
<1> DEFINE q == peticion[h]
           c == q.campania
           fila == q.fila
           g == ConFila(c, fila)
           en == TrasGuardada(q.op, q.en)
           r == [q EXCEPT !.en = en]
<1>1. q.en \in {"guardar", "otraVez"} /\ campania' = [campania EXCEPT ![c] = fila.status]
      /\ activacion' = g
      /\ UNCHANGED <<vars, partida, orden, documento, aviso, cobro, incidentes>>
  BY DEF GuardarCampania, TrasGuardar
<1>2. peticion' = IF en = "libre" THEN [peticion EXCEPT ![h] = SinPeticion]
                  ELSE [peticion EXCEPT ![h].en = en]
  BY DEF GuardarCampania, Responder, Seguir
<1>3. PeticionBien(q, Len(activacion), Len(partida)) /\ EnSuSitio(q, Len(activacion))
      /\ DOMAIN q = Campos /\ DOMAIN peticion = Hilos
      /\ FilaBien(fila, Len(activacion), Len(partida))
  BY <1>1, PeticionTipo DEF PeticionBien
<1>4. \A a \in 1..Len(activacion) : RenglonBien(g[a], a, Len(partida))
  BY <1>3, ConFilaBien
<1>5. activacion' = [a \in DOMAIN activacion |-> g[a]]
  <2>1. g = [a \in DOMAIN activacion |-> g[a]] BY DEF ConFila
  <2> QED BY <1>1, <2>1
<1>6. CampaniasBien'
  <2>1. fila.status \in CAMPAIGN_STATUS BY <1>1, <1>3 DEF EnSuSitio, Guardables
  <2> HIDE DEF fila, c
  <2> QED BY <1>1, <2>1 DEF TipoInv, CampaniasBien
<1>7. /\ q.en = "guardar" => q.op \in {"renovar", "cerrar", "actualizar", "firmar"}
      /\ q.en = "otraVez" => q.op = "actualizar"
      /\ c \in Campanias
  BY <1>1, <1>3 DEF EnSuSitio, DeBaja
<1>8. /\ en \in {"numerar", "desactivar", "otraVez", "libre"}
      /\ en = "numerar" => q.op = "renovar" /\ q.en = "guardar"
      /\ en = "desactivar" => q.op = "cerrar"
      /\ en = "otraVez" => q.op = "actualizar" /\ q.en = "guardar"
  BY <1>1, <1>7 DEF TrasGuardada
<1> HIDE DEF g, en
<1>9. CASE en = "libre" BY <1>1, <1>2, <1>4, <1>5, <1>6, <1>9, PuedeNada, PasoDeCampanias
<1>10. CASE en # "libre"
  <2>1. peticion' = [peticion EXCEPT ![h] = r] BY <1>2, <1>3, <1>10 DEF Campos
  <2>2. PeticionBien(r, Len(activacion), Len(partida)) BY <1>3 DEF PeticionBien, Campos
  <2>3. r.en = en /\ r.op = q.op /\ r.campania = c /\ r.fila = fila /\ r.doc = q.doc
        /\ r.accion = q.accion
    BY <1>3 DEF Campos
  <2>4. EnSuSitio(r, Len(activacion)) /\ Puede(h, r)
    <3>1. fila.status \in Guardables BY <1>1, <1>3 DEF EnSuSitio
    <3> HIDE DEF r, fila
    <3>2. EnSuSitio(r, Len(activacion))
      BY <1>7, <1>8, <1>10, <2>3, <3>1 DEF EnSuSitio, Esperas, DeBaja, CreaActivacion
    <3>3. Puede(h, r)
      BY <1>8, <1>10, <2>3 DEF Puede, EnPartir, EnActivar, PorActivar, CreaActivacion
    <3> QED BY <3>2, <3>3
  <2> HIDE DEF r
  <2> QED BY <1>1, <1>4, <1>5, <1>6, <2>1, <2>2, <2>4, PasoDeCampanias
<1> QED BY <1>9, <1>10

LEMMA BajaActivacionTipo ==
  ASSUME TipoInv, NEW h \in Hilos, BajaActivacion(h)
  PROVE  TipoInv'
<1> DEFINE q == peticion[h]
           b == q.activacion
           g == [a \in DOMAIN activacion |->
                   IF a = b /\ HayActivacion(b) THEN [activacion[a] EXCEPT !.status = FALSE]
                   ELSE activacion[a]]
           r == [q EXCEPT !.en = "bajaPartida"]
<1>1. q.en = "baja" /\ peticion' = [peticion EXCEPT ![h].en = "bajaPartida"]
      /\ UNCHANGED <<vars, campania, partida, orden, documento, aviso, cobro, incidentes>>
  BY DEF BajaActivacion, Seguir
<1>2. DOMAIN activacion = 1..Len(activacion)
      /\ activacion = [a \in DOMAIN activacion |-> activacion[a]]
  BY Longitudes DEF TipoInv, ActivacionesBien
<1>3. PeticionBien(q, Len(activacion), Len(partida)) /\ EnSuSitio(q, Len(activacion))
      /\ DOMAIN q = Campos /\ DOMAIN peticion = Hilos
  BY <1>1, PeticionTipo
<1>4. activacion' = g
  <2>1. activacion' = IF HayActivacion(b) THEN [activacion EXCEPT ![b].status = FALSE]
                      ELSE activacion
    BY DEF BajaActivacion
  <2>2. CASE HayActivacion(b) BY <1>2, <2>1, <2>2 DEF HayActivacion
  <2>3. CASE ~HayActivacion(b) BY <1>2, <2>1, <2>3
  <2> QED BY <2>2, <2>3
<1>5. \A a \in 1..Len(activacion) : RenglonBien(g[a], a, Len(partida))
  BY <1>2, SinCampania DEF TipoInv, ActivacionesBien
<1>6. activacion' = [a \in DOMAIN activacion |-> g[a]] BY <1>4
<1> HIDE DEF g
<1>7. peticion' = [peticion EXCEPT ![h] = r] BY <1>1, <1>3 DEF Campos
<1>8. PeticionBien(r, Len(activacion), Len(partida)) BY <1>3 DEF PeticionBien, Campos
<1>9. EnSuSitio(r, Len(activacion)) /\ Puede(h, r)
  BY <1>1, <1>3 DEF EnSuSitio, Campos, Puede, Esperas, DeBaja, CreaActivacion
<1> HIDE DEF r
<1>10. CampaniasBien' BY <1>1 DEF TipoInv, CampaniasBien
<1> QED BY <1>1, <1>5, <1>6, <1>7, <1>8, <1>9, <1>10, PasoDeCampanias


\* A step that leaves the activations as they are.
LEMMA PasoDeOtras ==
  ASSUME TipoInv, NEW h \in Hilos, NEW r, peticion' = [peticion EXCEPT ![h] = r],
         r = SinPeticion \/ (PeticionBien(r, Len(activacion), Len(partida))
                             /\ EnSuSitio(r, Len(activacion))),
         Puede(h, r), PartidasBien', Len(partida)' = Len(partida), OrdenesBien', DocumentosBien',
         \A d \in Envios : documento[d] # SinDocumento => documento'[d] # SinDocumento,
         UNCHANGED <<vars, campania, activacion, aviso, cobro, incidentes>>
  PROVE  TipoInv'
<1>1. Len(activacion) \in Nat /\ Len(partida) \in Nat /\ Len(activacion)' = Len(activacion)
  BY Longitudes DEF TipoInv
<1>2. Creciente BY <1>1 DEF Creciente
<1>3. ActivacionesBien' /\ TypeOK' /\ CampaniasBien'
  BY LibroQuietoTipo DEF TipoInv, ActivacionesBien, CampaniasBien
<1>4. CuposBien' BY <1>1, NoEmpieza, CuposMenos DEF TipoInv, CuposBien
<1> QED BY <1>1, <1>2, <1>3, <1>4, PasoDePeticion

LEMMA GuardarDocumentoTipo ==
  ASSUME TipoInv, NEW h \in Hilos, GuardarDocumento(h)
  PROVE  TipoInv'
<1> DEFINE q == peticion[h]
           uno == [estatus |-> "PENDIENTE_DE_FIRMA", campania |-> q.campania,
                   activacion |-> q.activacion, accion |-> q.accion]
           r == [q EXCEPT !.en = "guardar"]
<1>1. q.en = "documento" /\ peticion' = [peticion EXCEPT ![h].en = "guardar"]
      /\ documento' = [documento EXCEPT ![q.doc] = uno]
      /\ UNCHANGED <<vars, campania, activacion, partida, orden, aviso, cobro, incidentes>>
  BY DEF GuardarDocumento, Seguir
<1>2. Len(activacion) \in Nat /\ Len(partida)' = Len(partida)
      /\ Len(activacion)' = Len(activacion)
  BY <1>1, Longitudes DEF TipoInv
<1>3. PeticionBien(q, Len(activacion), Len(partida)) /\ EnSuSitio(q, Len(activacion))
      /\ DOMAIN q = Campos /\ DOMAIN peticion = Hilos
  BY <1>1, PeticionTipo
<1>4. peticion' = [peticion EXCEPT ![h] = r] BY <1>1, <1>3 DEF Campos
<1>5. PeticionBien(r, Len(activacion), Len(partida)) BY <1>3 DEF PeticionBien, Campos
<1>6. EnSuSitio(r, Len(activacion)) /\ Puede(h, r)
  <2>1. q.op = "firmar" /\ r.en = "guardar" /\ r.op = q.op /\ r.fila = q.fila
        /\ r.campania = q.campania /\ r.doc = q.doc /\ r.accion = q.accion
    BY <1>1, <1>3 DEF EnSuSitio, Campos
  <2>2. q.fila.status \in Guardables BY <1>1, <1>3, <2>1 DEF EnSuSitio
  <2> HIDE DEF r
  <2> QED BY <1>1, <1>3, <2>1, <2>2 DEF EnSuSitio, Puede, Esperas, DeBaja, CreaActivacion
<1> HIDE DEF r
<1>7. DocumentoBien(uno, Len(activacion)) /\ uno # SinDocumento /\ q.doc \in Envios
  <2>1. q.op = "firmar" /\ q.doc \in Envios /\ q.accion \in Acciones /\ q.campania \in Campanias
        /\ q.activacion # 0 /\ q.activacion \in 0..Len(activacion)
    BY <1>1, <1>3 DEF EnSuSitio, PeticionBien, DeBaja
  <2> QED BY <1>2, <2>1 DEF DocumentoBien, SinDocumento
<1> HIDE DEF uno
<1>8. DocumentosBien' /\ \A d \in Envios : documento[d] # SinDocumento => documento'[d] # SinDocumento
  BY <1>1, <1>2, <1>7 DEF TipoInv, DocumentosBien
<1>9. PartidasBien' /\ OrdenesBien' BY <1>1, OrdenesQuietas DEF TipoInv, PartidasBien
<1> QED BY <1>1, <1>2, <1>4, <1>5, <1>6, <1>8, <1>9, PasoDeOtras


LEMMA BajaPartidaTipo ==
  ASSUME TipoInv, NEW h \in Hilos, BajaPartida(h)
  PROVE  TipoInv'
<1> DEFINE q == peticion[h]
           p == q.partida
           r == IF q.campania = "-" THEN SinPeticion ELSE [q EXCEPT !.en = "buscar"]
<1>1. q.en = "bajaPartida"
      /\ partida' = (IF HayPartida(p) THEN [partida EXCEPT ![p].estatus = FALSE] ELSE partida)
      /\ UNCHANGED <<vars, campania, activacion, orden, documento, aviso, cobro, incidentes>>
  BY DEF BajaPartida
<1>2. Len(activacion) \in Nat /\ Len(partida) \in Nat /\ Len(activacion)' = Len(activacion)
  BY <1>1, Longitudes DEF TipoInv
<1>3. PeticionBien(q, Len(activacion), Len(partida)) /\ EnSuSitio(q, Len(activacion))
      /\ DOMAIN q = Campos /\ DOMAIN peticion = Hilos
  BY <1>1, PeticionTipo
<1>4. peticion' = [peticion EXCEPT ![h] = r]
  BY <1>3 DEF BajaPartida, Responder, Seguir, Campos
<1>5. r = SinPeticion \/ (PeticionBien(r, Len(activacion), Len(partida))
                          /\ EnSuSitio(r, Len(activacion)))
  <2> DEFINE s == [q EXCEPT !.en = "buscar"]
  <2>1. PeticionBien(s, Len(activacion), Len(partida)) BY <1>3 DEF PeticionBien, Campos
  <2>2. EnSuSitio(s, Len(activacion)) BY <1>1, <1>3 DEF EnSuSitio, Campos, Esperas, DeBaja
  <2> QED BY <2>1, <2>2
<1>6. Puede(h, r)
  <2>1. r.op \notin CreaActivacion
    BY <1>1, <1>3, SinNada DEF EnSuSitio, Campos, DeBaja, CreaActivacion
  <2> QED BY <2>1 DEF Puede
<1> HIDE DEF r
<1>7. PartidasBien' /\ Len(partida)' = Len(partida)
  <2>1. partida \in Seq(Partida) BY DEF TipoInv, PartidasBien
  <2>2. CASE HayPartida(p)
    <3>0. partida[p] \in Partida BY <2>1, <2>2 DEF HayPartida
    <3>1. [partida[p] EXCEPT !.estatus = FALSE] \in Partida BY <3>0 DEF Partida
    <3> DEFINE s == [partida[p] EXCEPT !.estatus = FALSE]
    <3>2. partida' = [partida EXCEPT ![p] = s] BY <1>1, <2>2
    <3> HIDE DEF s
    <3> QED BY <2>1, <2>2, <3>1, <3>2 DEF HayPartida, PartidasBien, s
  <2>3. CASE ~HayPartida(p) BY <1>1, <2>1, <2>3 DEF PartidasBien
  <2> QED BY <2>2, <2>3
<1>8. OrdenesBien' /\ DocumentosBien'
  <2>1. Creciente BY <1>2, <1>7 DEF Creciente
  <2> QED BY <1>1, <2>1, OrdenesQuietas, DocumentosQuietos
<1> QED BY <1>1, <1>4, <1>5, <1>6, <1>7, <1>8, PasoDeOtras

LEMMA BorrarOrdenTipo ==
  ASSUME TipoInv, NEW h \in Hilos, BorrarOrden(h)
  PROVE  TipoInv'
<1> DEFINE q == peticion[h]
           r == [q EXCEPT !.en = "maestro"]
<1>1. q.en = "borrarOrden" /\ peticion' = [peticion EXCEPT ![h].en = "maestro"]
      /\ orden' = [orden EXCEPT ![q.orden] = SinOrden]
      /\ UNCHANGED <<vars, campania, activacion, partida, documento, aviso, cobro, incidentes>>
  BY DEF BorrarOrden, Seguir
<1>2. PartidasBien' /\ Len(partida)' = Len(partida) BY <1>1 DEF TipoInv, PartidasBien
<1>3. PeticionBien(q, Len(activacion), Len(partida)) /\ EnSuSitio(q, Len(activacion))
      /\ DOMAIN q = Campos /\ DOMAIN peticion = Hilos
  BY <1>1, PeticionTipo
<1>4. peticion' = [peticion EXCEPT ![h] = r] BY <1>1, <1>3 DEF Campos
<1>5. PeticionBien(r, Len(activacion), Len(partida)) BY <1>3 DEF PeticionBien, Campos
<1>6. EnSuSitio(r, Len(activacion)) /\ Puede(h, r)
  BY <1>1, <1>3 DEF EnSuSitio, Campos, Puede, Esperas, DeBaja, CreaActivacion
<1> HIDE DEF r
<1>7. OrdenesBien'
  <2>1. orden' \in [Ordenes -> Orden \cup {SinOrden}] BY <1>1 DEF TipoInv, OrdenesBien
  <2>2. \A o \in Ordenes : orden'[o] # SinOrden => orden'[o] = orden[o]
    BY <1>1 DEF TipoInv, OrdenesBien
  <2> QED BY <2>1, <2>2 DEF TipoInv, OrdenesBien, HayOrden
<1>8. DocumentosBien' BY <1>1, FilasQuietas, DocumentosQuietos
<1> QED BY <1>1, <1>2, <1>4, <1>5, <1>6, <1>7, <1>8, PasoDeOtras

LEMMA GuardarOrdenTipo ==
  ASSUME TipoInv, NEW h \in Hilos, GuardarOrden(h)
  PROVE  TipoInv'
<1> DEFINE q == peticion[h]
           c == q.campania
           p == q.partida
           una == [campania |-> c, partida |-> p, estatus |-> "PENDIENTE", cargos |-> q.cargos]
<1>1. q.en = "guardarOrden" /\ peticion' = [peticion EXCEPT ![h] = SinPeticion]
      /\ orden' = (IF Existe(c) /\ (p # 0 => HayPartida(p)) THEN [orden EXCEPT ![q.orden] = una]
                   ELSE orden)
      /\ UNCHANGED <<vars, campania, activacion, partida, documento, aviso, cobro, incidentes>>
  BY DEF GuardarOrden, Responder
<1>2. PartidasBien' /\ Len(partida)' = Len(partida) BY <1>1 DEF TipoInv, PartidasBien
<1>3. PeticionBien(q, Len(activacion), Len(partida)) /\ EnSuSitio(q, Len(activacion))
      /\ DOMAIN q = Campos /\ DOMAIN peticion = Hilos
  BY <1>1, PeticionTipo
<1>4. una \in Orden /\ una.cargos # <<>>
  <2>1. c \in Campanias /\ q.cargos # <<>> /\ q.cargos \in Seq(Cargo) /\ p \in 0..Len(partida)
    BY <1>1, <1>3 DEF EnSuSitio, PeticionBien, DeBaja
  <2>2. Len(partida) <= MaxActivaciones /\ Len(partida) \in Nat /\ MaxActivaciones \in Nat
    BY PorInsertarFinitos, Longitudes, CampaniasAssumption DEF TipoInv, CuposBien
  <2>3. p \in IdsActivacion BY <2>1, <2>2 DEF IdsActivacion
  <2> QED BY <2>1, <2>3 DEF Orden
<1>7. OrdenesBien'
  <2> HIDE DEF una
  <2>1. orden' \in [Ordenes -> Orden \cup {SinOrden}]
    BY <1>1, <1>4 DEF TipoInv, OrdenesBien
  <2>2. \A o \in Ordenes : orden'[o] = orden[o] \/ orden'[o] = una
    BY <1>1 DEF TipoInv, OrdenesBien
  <2> QED BY <1>4, <2>1, <2>2 DEF TipoInv, OrdenesBien, HayOrden
<1>8. DocumentosBien' BY <1>1, FilasQuietas, DocumentosQuietos
<1> QED BY <1>1, <1>2, <1>7, <1>8, PuedeNada, PasoDeOtras

\* Every query of a request.
LEMMA AtenderTipo ==
  ASSUME TipoInv, NEW h \in Hilos, Atender(h)
  PROVE  TipoInv'
BY GuardarNuevaTipo, GuardarPartidaTipo, ApagarActivacionesTipo, NumerarTipo,
   GuardarActivacionTipo, LeerPorLimpiarTipo, LeerCampaniaTipo, BorrarCampaniaTipo,
   LeerUltimaTipo, GuardarDocumentoTipo, GuardarCampaniaTipo, LeerActivacionTipo,
   BajaActivacionTipo, BajaPartidaTipo, BuscarPendientesTipo, LeerMaestroDeOrdenTipo,
   LeerModificatorioDeOrdenTipo, DevolverCargoTipo, BorrarOrdenTipo, LeerParaOrdenTipo,
   LeerFondosTipo, EscribirReservaTipo, GuardarOrdenTipo
   DEF Atender

LEMMA FallarPeticionTipo ==
  ASSUME TipoInv, NEW h \in Hilos, FallarPeticion(h)
  PROVE  TipoInv'
<1>1. peticion[h].en # "libre" /\ Rechazar(h) /\ UNCHANGED <<vars, filas, aviso, cobro>>
      /\ incidentes' = incidentes + 1 /\ incidentes' <= MaxIncidentes
  BY DEF FallarPeticion, Incidente
<1>2. PICK r : /\ peticion' = [peticion EXCEPT ![h] = r] /\ Puede(h, r)
               /\ r = SinPeticion \/ (PeticionBien(r, Len(activacion), Len(partida))
                                       /\ EnSuSitio(r, Len(activacion)))
  BY <1>1, RechazarBien
<1>3. UNCHANGED <<campania, activacion, partida, orden, documento, aviso, cobro>>
  BY <1>1 DEF filas
<1>4. ActivacionesBien' /\ PartidasBien' /\ Creciente BY <1>3, FilasQuietas
<1>5. CampaniasBien' /\ OrdenesBien' /\ DocumentosBien' /\ TypeOK'
  BY <1>1, <1>3, <1>4, OrdenesQuietas, DocumentosQuietos, LibroQuietoTipo DEF TipoInv, CampaniasBien
<1>6. Len(activacion)' = Len(activacion) /\ Len(partida)' = Len(partida) BY <1>3
<1>7. CuposBien'
  <2>1. incidentes' \in 0..MaxIncidentes
    BY <1>1, CampaniasAssumption DEF TipoInv, CuposBien
  <2> QED BY <1>2, <1>6, <2>1, NoEmpieza, CuposMenos
<1> QED BY <1>2, <1>3, <1>4, <1>5, <1>6, <1>7, PasoDePeticion

----
(* Notifications and their handlers. *)

LEMMA AvisoTipo ==
  ASSUME TipoInv, NEW e \in Avisos
  PROVE  /\ AvisoBien(aviso[e], Len(activacion), Len(partida))
         /\ DOMAIN aviso[e] = CamposDeAviso /\ DOMAIN aviso = Avisos
         /\ Doc(e) \in Envios /\ DOMAIN documento = Envios
         /\ DocumentoBien(documento[Doc(e)], Len(activacion))
         /\ aviso[e].recibido => documento[Doc(e)] # SinDocumento
         /\ EnCurso(e) => aviso[e].recibido /\ documento[Doc(e)] # SinDocumento
                          /\ CampaniaDe(e) \in Campanias
<1>1. Doc(e) \in Envios BY DEF Avisos, Doc
<1>2. /\ AvisoBien(aviso[e], Len(activacion), Len(partida)) /\ DOMAIN aviso = Avisos
      /\ aviso[e].recibido => documento[Doc(e)] # SinDocumento
  BY DEF TipoInv, AvisosBien
<1>3. DOMAIN aviso[e] = CamposDeAviso /\ (EnCurso(e) => aviso[e].recibido)
  BY <1>2 DEF AvisoBien, EnCurso
<1>4. DocumentoBien(documento[Doc(e)], Len(activacion)) /\ DOMAIN documento = Envios
  BY <1>1 DEF TipoInv, DocumentosBien
<1> QED BY <1>1, <1>2, <1>3, <1>4 DEF DocumentoBien, CampaniaDe

\* No request moves.
LEMMA CuposIguales ==
  ASSUME TipoInv, UNCHANGED peticion, Len(activacion)' = Len(activacion),
         Len(partida)' = Len(partida), incidentes' \in 0..MaxIncidentes
  PROVE  CuposBien'
<1>1. PorPartir' \subseteq PorPartir /\ PorActivar' \subseteq PorActivar
  BY DEF PorPartir, PorActivar
<1> QED BY <1>1, CuposMenos

LEMMA PasoDeAviso ==
  ASSUME TipoInv, NEW e \in Avisos, NEW r, aviso' = [aviso EXCEPT ![e] = r],
         AvisoBien(r, Len(activacion), Len(partida)),
         r.recibido => documento'[Doc(e)] # SinDocumento,
         \A d \in Envios : documento[d] # SinDocumento => documento'[d] # SinDocumento,
         TypeOK', CampaniasBien', ActivacionesBien', Len(activacion)' = Len(activacion),
         OrdenesBien', DocumentosBien', incidentes' \in 0..MaxIncidentes,
         UNCHANGED <<partida, peticion, cobro>>
  PROVE  TipoInv'
<1>1. Len(activacion) \in Nat /\ Len(partida) \in Nat /\ Len(partida)' = Len(partida)
  BY Longitudes DEF TipoInv
<1>2. Creciente BY <1>1 DEF Creciente
<1>3. PartidasBien' /\ PeticionesBien' /\ CobrosBien'
  BY <1>2, PeticionesQuietas, CobrosQuietos DEF TipoInv, PartidasBien
<1>4. CuposBien' /\ AvisosBien' BY <1>1, <1>2, CuposIguales, AvisoCambia
<1> QED BY <1>3, <1>4 DEF TipoInv

LEMMA AvisoQueLee ==
  ASSUME TipoInv, NEW e \in Avisos, NEW r, aviso' = [aviso EXCEPT ![e] = r],
         AvisoBien(r, Len(activacion), Len(partida)),
         r.recibido => documento[Doc(e)] # SinDocumento, TypeOK', incidentes' \in 0..MaxIncidentes,
         UNCHANGED <<filas, peticion, cobro>>
  PROVE  TipoInv'
<1>1. UNCHANGED <<campania, activacion, partida, orden, documento>> BY DEF filas
<1>2. ActivacionesBien' /\ Creciente /\ Len(activacion)' = Len(activacion)
  BY <1>1, FilasQuietas
<1>3. CampaniasBien' /\ OrdenesBien' /\ DocumentosBien'
  BY <1>1, <1>2, OrdenesQuietas, DocumentosQuietos DEF TipoInv, CampaniasBien
<1> QED BY <1>1, <1>2, <1>3, PasoDeAviso

LEMMA IncidentesBien ==
  ASSUME TipoInv
  PROVE  /\ incidentes \in 0..MaxIncidentes
         /\ Incidente => incidentes' \in 0..MaxIncidentes
BY CampaniasAssumption DEF TipoInv, CuposBien, Incidente

LEMMA RecibirTipo ==
  ASSUME TipoInv, NEW e \in Avisos, Recibir(e)
  PROVE  TipoInv'
<1> DEFINE r == [aviso[e] EXCEPT !.recibido = TRUE, !.guardar = TRUE, !.status = "leer",
                            !.montos = "activacion"]
<1>0. documento[Doc(e)] # SinDocumento
  <2>1. SinDocumento.estatus = "NO_EXISTE" BY DEF SinDocumento
  <2> QED BY <2>1 DEF Recibir
<1>1. aviso' = [aviso EXCEPT ![e] = r] /\ UNCHANGED <<varsLibro, filas, peticion, cobro>>
      /\ Llegar(e[2] = 1) /\ documento[Doc(e)] # SinDocumento
  BY <1>0, AvisoTipo DEF Recibir, CamposDeAviso
<1>2. AvisoBien(r, Len(activacion), Len(partida))
  BY AvisoTipo DEF AvisoBien, CamposDeAviso
<1>3. TypeOK' /\ incidentes' \in 0..MaxIncidentes BY <1>1, LlegarTipo, LlegarLibro
<1> HIDE DEF r
<1> QED BY <1>1, <1>2, <1>3, AvisoQueLee

\* A document that only changes its own status.
LEMMA DocumentoFirmado ==
  ASSUME TipoInv, NEW d \in Envios, documento[d] # SinDocumento,
         NEW estatus \in {"PENDIENTE_DE_FIRMA", "enviado", "APROBADA"},
         documento' = [documento EXCEPT ![d].estatus = estatus], UNCHANGED activacion
  PROVE  /\ DocumentosBien'
         /\ \A x \in Envios : /\ documento[x] # SinDocumento => documento'[x] # SinDocumento
                              /\ documento'[x].campania = documento[x].campania
                              /\ documento'[x].activacion = documento[x].activacion
                              /\ documento'[x].accion = documento[x].accion
                              /\ documento[x] = SinDocumento => documento'[x] = SinDocumento
<1> DEFINE r == [documento[d] EXCEPT !.estatus = estatus]
<1>1. DOMAIN documento = Envios /\ DocumentoBien(documento[d], Len(activacion))
  BY DEF TipoInv, DocumentosBien
<1>2. documento' = [documento EXCEPT ![d] = r] OBVIOUS
<1>3. DocumentoBien(r, Len(activacion)) /\ r # SinDocumento
      /\ r.campania = documento[d].campania /\ r.activacion = documento[d].activacion
      /\ r.accion = documento[d].accion
  BY <1>1 DEF DocumentoBien, SinDocumento
<1> HIDE DEF r
<1> QED BY <1>1, <1>2, <1>3 DEF TipoInv, DocumentosBien

LEMMA EnviarTipo ==
  ASSUME TipoInv, NEW d \in Envios, EnviarAFirmamex(d)
  PROVE  TipoInv'
<1>0. documento[d] # SinDocumento
  <2>1. SinDocumento.estatus = "NO_EXISTE" BY DEF SinDocumento
  <2> QED BY <2>1 DEF EnviarAFirmamex
<1>1. documento[d] # SinDocumento /\ documento' = [documento EXCEPT ![d].estatus = "enviado"]
      /\ Llegar(TRUE)
      /\ UNCHANGED <<varsLibro, campania, activacion, partida, orden, peticion, aviso, cobro>>
  BY <1>0 DEF EnviarAFirmamex
<1>2. DocumentosBien'
      /\ \A x \in Envios : documento[x] # SinDocumento => documento'[x] # SinDocumento
  BY <1>1, DocumentoFirmado
<1>3. TypeOK' /\ incidentes' \in 0..MaxIncidentes BY <1>1, LlegarTipo, LlegarLibro
<1>4. ActivacionesBien' /\ PartidasBien' /\ Creciente
      /\ Len(activacion)' = Len(activacion) /\ Len(partida)' = Len(partida)
  BY <1>1, FilasQuietas
<1>5. CampaniasBien' /\ OrdenesBien' BY <1>1, OrdenesQuietas DEF TipoInv, CampaniasBien
<1>6. PeticionesBien' /\ AvisosBien' /\ CobrosBien' /\ CuposBien'
  BY <1>1, <1>2, <1>3, <1>4, PeticionesQuietas, AvisosQuietos, CobrosQuietos, CuposIguales
<1> QED BY <1>2, <1>3, <1>4, <1>5, <1>6 DEF TipoInv

LEMMA GuardarFirmaTipo ==
  ASSUME TipoInv, NEW e \in Avisos, GuardarFirma(e)
  PROVE  TipoInv'
<1> DEFINE r == [aviso[e] EXCEPT !.guardar = FALSE]
           d == Doc(e)
<1>1. aviso[e].guardar /\ documento' = [documento EXCEPT ![d].estatus = "APROBADA"]
      /\ aviso' = [aviso EXCEPT ![e] = r]
      /\ UNCHANGED <<vars, campania, activacion, partida, orden, peticion, cobro, incidentes>>
  BY AvisoTipo DEF GuardarFirma, CamposDeAviso
<1>2. d \in Envios /\ documento[d] # SinDocumento BY <1>1, AvisoTipo DEF EnCurso
<1>3. DocumentosBien'
      /\ \A x \in Envios : documento[x] # SinDocumento => documento'[x] # SinDocumento
  BY <1>1, <1>2, DocumentoFirmado
<1>4. AvisoBien(r, Len(activacion), Len(partida))
  BY AvisoTipo DEF AvisoBien, CamposDeAviso
<1>5. TypeOK' /\ incidentes' \in 0..MaxIncidentes
  BY <1>1, LibroQuietoTipo, IncidentesBien DEF TipoInv
<1>6. ActivacionesBien' /\ CampaniasBien' /\ OrdenesBien' /\ Len(activacion)' = Len(activacion)
  BY <1>1, FilasQuietas, OrdenesQuietas DEF TipoInv, CampaniasBien
<1> HIDE DEF r
<1> QED BY <1>1, <1>2, <1>3, <1>4, <1>5, <1>6, PasoDeAviso

LEMMA LeerStatusTipo ==
  ASSUME TipoInv, NEW e \in Avisos, LeerStatus(e)
  PROVE  TipoInv'
<1> DEFINE u == UltimaActivacion(CampaniaDe(e))
           st == IF Existe(CampaniaDe(e)) THEN "escribir" ELSE "no"
           r == [aviso[e] EXCEPT !.status = st, !.activacion = u]
<1>1. aviso[e].status = "leer" /\ aviso' = [aviso EXCEPT ![e].status = st, ![e].activacion = u]
      /\ UNCHANGED <<vars, filas, peticion, cobro, incidentes>>
  BY DEF LeerStatus
<1>2. u \in 0..Len(activacion) /\ st \in {"escribir", "no"} BY UltimaEs DEF TipoInv
<1>3. TypeOK' /\ incidentes' \in 0..MaxIncidentes
  BY <1>1, LibroQuietoTipo, IncidentesBien DEF TipoInv
<1> HIDE DEF u, st
<1>4. aviso' = [aviso EXCEPT ![e] = r] BY <1>1, AvisoTipo DEF CamposDeAviso
<1>5. AvisoBien(r, Len(activacion), Len(partida)) /\ r.recibido /\ documento[Doc(e)] # SinDocumento
  BY <1>1, <1>2, AvisoTipo DEF AvisoBien, CamposDeAviso, EnCurso
<1> HIDE DEF r
<1> QED BY <1>1, <1>3, <1>4, <1>5, AvisoQueLee

LEMMA EscribirStatusTipo ==
  ASSUME TipoInv, NEW e \in Avisos, EscribirStatus(e)
  PROVE  TipoInv'
<1> DEFINE c == CampaniaDe(e)
           st == IF Aprueba(e) /\ aviso[e].activacion # 0 THEN "aprobar" ELSE "no"
           r == [aviso[e] EXCEPT !.status = st]
<1>1. /\ aviso[e].status = "escribir" /\ aviso' = [aviso EXCEPT ![e].status = st]
      /\ UNCHANGED <<vars, activacion, partida, orden, documento, peticion, cobro, incidentes>>
      /\ campania' = IF Existe(c) THEN [campania EXCEPT ![c] = StatusDe(e)] ELSE campania
  BY DEF EscribirStatus
<1>2. st \in {"aprobar", "no"} OBVIOUS
<1>3. TypeOK' /\ incidentes' \in 0..MaxIncidentes
  BY <1>1, LibroQuietoTipo, IncidentesBien DEF TipoInv
<1> HIDE DEF st
<1>4. aviso' = [aviso EXCEPT ![e] = r] BY <1>1, AvisoTipo DEF CamposDeAviso
<1>5. AvisoBien(r, Len(activacion), Len(partida)) /\ r.recibido /\ documento[Doc(e)] # SinDocumento
  BY <1>1, <1>2, AvisoTipo DEF AvisoBien, CamposDeAviso, EnCurso
<1>6. CampaniasBien' BY <1>1 DEF TipoInv, CampaniasBien, StatusDe, CAMPAIGN_STATUS
<1>7. ActivacionesBien' /\ Creciente /\ OrdenesBien' /\ Len(activacion)' = Len(activacion)
  BY <1>1, FilasQuietas, OrdenesQuietas
<1>8. DocumentosBien' BY <1>1, <1>7, DocumentosQuietos
<1> HIDE DEF r
<1> QED BY <1>1, <1>3, <1>4, <1>5, <1>6, <1>7, <1>8, PasoDeAviso

LEMMA FecharActivacionTipo ==
  ASSUME TipoInv, NEW e \in Avisos, FecharActivacion(e)
  PROVE  TipoInv'
<1> DEFINE b == aviso[e].activacion
           g == [a \in DOMAIN activacion |->
                   IF a = b /\ HayActivacion(b) THEN [activacion[a] EXCEPT !.aprobada = TRUE]
                   ELSE activacion[a]]
           r == [aviso[e] EXCEPT !.status = "no"]
<1>1. /\ aviso[e].status = "aprobar" /\ aviso' = [aviso EXCEPT ![e].status = "no"]
      /\ UNCHANGED <<vars, campania, partida, orden, documento, peticion, cobro, incidentes>>
      /\ activacion' = IF HayActivacion(b) THEN [activacion EXCEPT ![b].aprobada = TRUE]
                       ELSE activacion
  BY DEF FecharActivacion
<1>2. DOMAIN activacion = 1..Len(activacion)
      /\ activacion = [a \in DOMAIN activacion |-> activacion[a]]
  BY Longitudes DEF TipoInv, ActivacionesBien
<1>3. TypeOK' /\ incidentes' \in 0..MaxIncidentes
  BY <1>1, LibroQuietoTipo, IncidentesBien DEF TipoInv
<1>4. aviso' = [aviso EXCEPT ![e] = r] BY <1>1, AvisoTipo DEF CamposDeAviso
<1>5. AvisoBien(r, Len(activacion), Len(partida)) /\ r.recibido /\ documento[Doc(e)] # SinDocumento
  BY <1>1, AvisoTipo DEF AvisoBien, CamposDeAviso, EnCurso
<1>6. activacion' = g
  <2>1. CASE HayActivacion(b) BY <1>1, <1>2, <2>1 DEF HayActivacion
  <2>2. CASE ~HayActivacion(b) BY <1>1, <1>2, <2>2
  <2> QED BY <2>1, <2>2
<1>7. \A a \in 1..Len(activacion) : RenglonBien(g[a], a, Len(partida))
  BY <1>2, SinCampania DEF TipoInv, ActivacionesBien
<1>8. activacion' = [a \in DOMAIN activacion |-> g[a]] BY <1>6
<1> HIDE DEF g, r
<1>9. ActivacionesBien' /\ Creciente /\ Len(activacion)' = Len(activacion)
  BY <1>1, <1>7, <1>8, RenglonesBien
<1>10. DocumentosBien' /\ OrdenesBien' /\ CampaniasBien'
  BY <1>1, <1>9, DocumentosQuietos, OrdenesQuietas DEF TipoInv, CampaniasBien
<1> QED BY <1>1, <1>3, <1>4, <1>5, <1>9, <1>10, PasoDeAviso


LEMMA LeerActivacionDeAvisoTipo ==
  ASSUME TipoInv, NEW e \in Avisos, LeerActivacionDeAviso(e)
  PROVE  TipoInv'
<1> DEFINE u == UltimaActivacion(CampaniaDe(e))
           p == IF u = 0 THEN aviso[e].partida ELSE activacion[u].partida
           m == IF u = 0 THEN "no" ELSE "ordenes"
           r == [aviso[e] EXCEPT !.montos = m, !.partida = p]
<1>1. /\ aviso[e].montos = "activacion"
      /\ aviso' = (IF u = 0 THEN [aviso EXCEPT ![e].montos = "no"]
                   ELSE [aviso EXCEPT ![e].montos = "ordenes",
                                      ![e].partida = activacion[u].partida])
      /\ UNCHANGED <<vars, filas, peticion, cobro, incidentes>>
  BY DEF LeerActivacionDeAviso
<1>2. u \in 0..Len(activacion) /\ Len(activacion) \in Nat /\ Len(partida) \in Nat
  BY UltimaEs, Longitudes DEF TipoInv
<1>3. AvisoBien(aviso[e], Len(activacion), Len(partida)) /\ DOMAIN aviso[e] = CamposDeAviso
      /\ aviso[e].recibido /\ documento[Doc(e)] # SinDocumento /\ DOMAIN aviso = Avisos
  BY <1>1, AvisoTipo DEF EnCurso
<1> HIDE DEF u
<1>4. p \in 0..Len(partida)
  <2>1. CASE u = 0 BY <1>3, <2>1 DEF AvisoBien
  <2>2. CASE u # 0
    <3>1. RenglonBien(activacion[u], u, Len(partida))
      BY <1>2, <2>2 DEF TipoInv, ActivacionesBien
    <3>2. activacion[u].partida \in Nat /\ activacion[u].partida <= Len(partida)
      BY <3>1, CampaniasAssumption DEF RenglonBien, Activacion, IdsActivacion
    <3> QED BY <1>2, <2>2, <3>2
  <2> QED BY <2>1, <2>2
<1>5. aviso' = [aviso EXCEPT ![e] = r]
  <2>1. CASE u = 0
    <3>1. r = [aviso[e] EXCEPT !.montos = "no"] BY <1>3, <2>1 DEF CamposDeAviso
    <3> QED BY <1>1, <2>1, <3>1
  <2>2. CASE u # 0 BY <1>1, <2>2
  <2> QED BY <2>1, <2>2
<1>6. m \in {"no", "ordenes"} OBVIOUS
<1> HIDE DEF p, m
<1>7. AvisoBien(r, Len(activacion), Len(partida))
  BY <1>3, <1>4, <1>6 DEF AvisoBien, CamposDeAviso
<1>8. r.recibido => documento[Doc(e)] # SinDocumento BY <1>3
<1>9. TypeOK' /\ incidentes' \in 0..MaxIncidentes
  BY <1>1, LibroQuietoTipo, IncidentesBien DEF TipoInv
<1> HIDE DEF r
<1> QED BY <1>1, <1>5, <1>7, <1>8, <1>9, AvisoQueLee

LEMMA LeerOrdenesTipo ==
  ASSUME TipoInv, NEW e \in Avisos, LeerOrdenes(e)
  PROVE  TipoInv'
<1> DEFINE S == OrdenesDe(CampaniaDe(e), aviso[e].partida)
           os == {<<o, orden[o].cargos>> : o \in S}
           r == [aviso[e] EXCEPT !.montos = "siguiente", !.ordenes = os]
<1>1. /\ aviso[e].montos = "ordenes"
      /\ aviso' = [aviso EXCEPT ![e].montos = "siguiente", ![e].ordenes = os]
      /\ UNCHANGED <<vars, filas, peticion, cobro, incidentes>>
  BY DEF LeerOrdenes
<1>2. AvisoBien(aviso[e], Len(activacion), Len(partida)) /\ DOMAIN aviso[e] = CamposDeAviso
      /\ aviso[e].recibido /\ documento[Doc(e)] # SinDocumento /\ DOMAIN aviso = Avisos
  BY <1>1, AvisoTipo DEF EnCurso
<1>3. \A x \in os : ParBien(x)
  <2>1. S \subseteq Ordenes /\ \A o \in S : HayOrden(o) BY DEF OrdenesDe
  <2> HIDE DEF S
  <2> QED BY <2>1, ParesDeOrdenes
<1> HIDE DEF os
<1>4. aviso' = [aviso EXCEPT ![e] = r] BY <1>1, <1>2 DEF CamposDeAviso
<1>5. AvisoBien(r, Len(activacion), Len(partida)) /\ r.recibido = aviso[e].recibido
  BY <1>2, <1>3 DEF AvisoBien, CamposDeAviso
<1>6. TypeOK' /\ incidentes' \in 0..MaxIncidentes
  BY <1>1, LibroQuietoTipo, IncidentesBien DEF TipoInv
<1> HIDE DEF r
<1> QED BY <1>1, <1>2, <1>4, <1>5, <1>6, AvisoQueLee

LEMMA CargarOrdenTipo ==
  ASSUME TipoInv, NEW e \in Avisos, CargarOrden(e)
  PROVE  TipoInv'
<1>1. aviso[e].montos = "siguiente" /\ UNCHANGED <<filas, peticion, cobro, incidentes>>
  BY DEF CargarOrden
<1>2. AvisoBien(aviso[e], Len(activacion), Len(partida)) /\ DOMAIN aviso[e] = CamposDeAviso
      /\ aviso[e].recibido /\ documento[Doc(e)] # SinDocumento /\ DOMAIN aviso = Avisos
  BY <1>1, AvisoTipo DEF EnCurso
<1>3. incidentes' \in 0..MaxIncidentes /\ Len(partida) \in Nat
  BY <1>1, IncidentesBien, Longitudes DEF TipoInv
<1>4. CASE aviso[e].ordenes = {} /\ UNCHANGED vars
           /\ aviso' = [aviso EXCEPT ![e].montos = "no", ![e].partida = 0, ![e].orden = "-"]
  <2> DEFINE r == [aviso[e] EXCEPT !.montos = "no", !.partida = 0, !.orden = "-"]
  <2>1. aviso' = [aviso EXCEPT ![e] = r] BY <1>2, <1>4 DEF CamposDeAviso
  <2>2. AvisoBien(r, Len(activacion), Len(partida)) /\ r.recibido = aviso[e].recibido
    <3>1. 0 \in 0..Len(partida) BY <1>3
    <3> QED BY <1>2, <3>1 DEF AvisoBien, CamposDeAviso
  <2>3. TypeOK' BY <1>4, LibroQuietoTipo DEF TipoInv
  <2> HIDE DEF r
  <2> QED BY <1>1, <1>2, <1>3, <2>1, <2>2, <2>3, AvisoQueLee
<1>5. ASSUME NEW x \in aviso[e].ordenes,
             Arrancar(e, [evento |-> IF Aprueba(e) THEN "ORDER_APPROVED" ELSE "ORDER_CANCELLED",
                          servicio |-> Servicio, cargos |-> x[2]]),
             aviso' = [aviso EXCEPT ![e].montos = "cargos", ![e].ordenes = @ \ {x},
                                    ![e].orden = x[1]],
             UNCHANGED inicios
      PROVE  TipoInv'
  <2> DEFINE os == aviso[e].ordenes \ {x}
             r == [aviso[e] EXCEPT !.montos = "cargos", !.ordenes = os, !.orden = x[1]]
             evento == IF Aprueba(e) THEN "ORDER_APPROVED" ELSE "ORDER_CANCELLED"
             ll == [evento |-> evento, servicio |-> Servicio, cargos |-> x[2]]
  <2>1. aviso' = [aviso EXCEPT ![e] = r] BY <1>2, <1>5 DEF CamposDeAviso
  <2>2. AvisoBien(r, Len(activacion), Len(partida)) /\ r.recibido = aviso[e].recibido
    BY <1>2 DEF AvisoBien, CamposDeAviso
  <2>3. TypeOK'
    <3>1. ParBien(x) BY <1>2 DEF AvisoBien
    <3>2. evento \in TYPE_EVENT BY DEF TYPE_EVENT, TYPE_EVENT_ORDER
    <3>3. Arrancar(e, ll) /\ e \in Tareas BY <1>5, CampaniasAssumption
    <3> HIDE DEF evento
    <3>4. ll \in Llamada /\ ll.cargos # <<>>
      BY <3>1, <3>2, CampaniasAssumption DEF ParBien, Llamada
    <3>5. TypeOK /\ inicios' \in Nat BY <1>5 DEF TipoInv, TypeOK
    <3> HIDE DEF ll
    <3> QED BY <3>3, <3>4, <3>5, ArrancarTipo
  <2> HIDE DEF r
  <2> QED BY <1>1, <1>2, <1>3, <2>1, <2>2, <2>3, AvisoQueLee
<1> QED BY <1>4, <1>5 DEF CargarOrden

LEMMA EscribirOrdenTipo ==
  ASSUME TipoInv, NEW e \in Avisos, EscribirOrden(e)
  PROVE  TipoInv'
<1> DEFINE o == aviso[e].orden
           st == IF Aprueba(e) THEN "ACTIVA" ELSE "CANCELADA"
<1>1. /\ aviso[e].montos = "cargos"
      /\ UNCHANGED <<vars, campania, activacion, partida, documento, peticion, cobro, incidentes>>
  BY DEF EscribirOrden
<1>2. AvisoBien(aviso[e], Len(activacion), Len(partida)) /\ DOMAIN aviso[e] = CamposDeAviso
      /\ aviso[e].recibido /\ documento[Doc(e)] # SinDocumento /\ DOMAIN aviso = Avisos
  BY <1>1, AvisoTipo DEF EnCurso
<1>3. TypeOK' /\ incidentes' \in 0..MaxIncidentes
  BY <1>1, LibroQuietoTipo, IncidentesBien DEF TipoInv
<1>4. ActivacionesBien' /\ CampaniasBien' /\ Creciente /\ Len(activacion)' = Len(activacion)
  BY <1>1, FilasQuietas DEF TipoInv, CampaniasBien
<1>5. DocumentosBien' BY <1>1, <1>4, DocumentosQuietos
<1>6. OrdenesBien'
  <2>1. CASE UNCHANGED orden BY <2>1, OrdenesQuietas
  <2>2. CASE orden' = [orden EXCEPT ![o].estatus = st] /\ HayOrden(o)
    <3>1. CASE o \in Ordenes
      <4> DEFINE r == [orden[o] EXCEPT !.estatus = st]
      <4>1. orden[o] \in Orden /\ orden[o].cargos # <<>> /\ orden \in [Ordenes -> Orden \cup {SinOrden}]
        BY <2>2, <3>1 DEF TipoInv, OrdenesBien, HayOrden
      <4>2. r \in Orden /\ r.cargos # <<>> BY <4>1 DEF Orden
      <4>3. orden' = [orden EXCEPT ![o] = r] BY <2>2
      <4> HIDE DEF r, o
      <4>4. orden' \in [Ordenes -> Orden \cup {SinOrden}] BY <4>1, <4>2, <4>3
      <4>5. \A x \in Ordenes : orden'[x] # SinOrden => orden'[x].cargos # <<>>
        BY <4>1, <4>2, <4>3 DEF TipoInv, OrdenesBien, HayOrden
      <4> QED BY <4>4, <4>5 DEF OrdenesBien, HayOrden
    <3>2. CASE o \notin Ordenes
      <4>1. UNCHANGED orden BY <2>2, <3>2 DEF TipoInv, OrdenesBien
      <4> QED BY <4>1, OrdenesQuietas
    <3> QED BY <3>1, <3>2
  <2> QED BY <2>1, <2>2 DEF EscribirOrden
<1>7. ASSUME NEW m \in {"no", "siguiente"}, NEW os \in SUBSET aviso[e].ordenes,
             aviso' = [aviso EXCEPT ![e].montos = m, ![e].ordenes = os]
      PROVE  TipoInv'
  <2> DEFINE r == [aviso[e] EXCEPT !.montos = m, !.ordenes = os]
  <2>1. aviso' = [aviso EXCEPT ![e] = r] BY <1>2, <1>7 DEF CamposDeAviso
  <2>2. AvisoBien(r, Len(activacion), Len(partida)) /\ r.recibido = aviso[e].recibido
    BY <1>2 DEF AvisoBien, CamposDeAviso
  <2> HIDE DEF r
  <2> QED BY <1>1, <1>2, <1>3, <1>4, <1>5, <1>6, <2>1, <2>2, PasoDeAviso
<1>8. CASE HayOrden(o)
  <2>1. aviso' = [aviso EXCEPT ![e].montos = "siguiente"] BY <1>8 DEF EscribirOrden
  <2>2. aviso' = [aviso EXCEPT ![e].montos = "siguiente", ![e].ordenes = aviso[e].ordenes]
    BY <1>2, <2>1 DEF CamposDeAviso
  <2> QED BY <1>7, <2>2
<1>9. CASE ~HayOrden(o)
  <2>1. aviso' = [aviso EXCEPT ![e].montos = "no", ![e].ordenes = {}]
    BY <1>9 DEF EscribirOrden
  <2>2. {} \in SUBSET aviso[e].ordenes /\ "no" \in {"no", "siguiente"} OBVIOUS
  <2> QED BY <1>7, <2>1, <2>2
<1> QED BY <1>8, <1>9

\* A step that leaves everything but the ledger.
LEMMA SoloLibroTipo ==
  ASSUME TipoInv, TypeOK', incidentes' \in 0..MaxIncidentes, UNCHANGED <<varsCampania>>
  PROVE  TipoInv'
<1>1. UNCHANGED <<campania, activacion, partida, orden, documento, peticion, aviso, cobro>>
  BY DEF varsCampania, filas
<1>2. ActivacionesBien' /\ PartidasBien' /\ Creciente
      /\ Len(activacion)' = Len(activacion) /\ Len(partida)' = Len(partida)
  BY <1>1, FilasQuietas
<1>3. CampaniasBien' /\ OrdenesBien' /\ DocumentosBien'
  BY <1>1, <1>2, OrdenesQuietas, DocumentosQuietos DEF TipoInv, CampaniasBien
<1>4. PeticionesBien' /\ AvisosBien' /\ CobrosBien' /\ CuposBien'
  BY <1>1, <1>2, PeticionesQuietas, AvisosQuietos, CobrosQuietos, CuposIguales
<1> QED BY <1>2, <1>3, <1>4 DEF TipoInv

LEMMA AvanzarLibroTipo ==
  ASSUME TipoInv, NEW e \in Avisos, AvanzarLibro(e)
  PROVE  TipoInv'
<1>1. Avanzar(e) /\ UNCHANGED <<varsCampania, incidentes>> /\ e \in Tareas /\ TypeOK
  BY CampaniasAssumption DEF AvanzarLibro, TipoInv
<1>2. TypeOK' BY <1>1, AvanzarTipo
<1>3. incidentes' \in 0..MaxIncidentes BY <1>1, IncidentesBien
<1> QED BY <1>1, <1>2, <1>3, SoloLibroTipo

\* Every step of the handlers of a notification.
LEMMA ManejarTipo ==
  ASSUME TipoInv, NEW e \in Avisos, Manejar(e)
  PROVE  TipoInv'
BY GuardarFirmaTipo, LeerStatusTipo, EscribirStatusTipo, FecharActivacionTipo,
   LeerActivacionDeAvisoTipo, LeerOrdenesTipo, CargarOrdenTipo, EscribirOrdenTipo,
   AvanzarLibroTipo DEF Manejar

LEMMA FallarAvisoTipo ==
  ASSUME TipoInv, NEW e \in Avisos, FallarAviso(e)
  PROVE  TipoInv'
<1>1. incidentes' \in 0..MaxIncidentes /\ UNCHANGED <<filas, peticion, cobro>>
  BY IncidentesBien DEF FallarAviso
<1>2. AvisoBien(aviso[e], Len(activacion), Len(partida)) /\ DOMAIN aviso[e] = CamposDeAviso
      /\ DOMAIN aviso = Avisos /\ (aviso[e].recibido => documento[Doc(e)] # SinDocumento)
  BY AvisoTipo
<1>3. TypeOK'
  <2>1. UNCHANGED vars \/ Fallar(e) BY DEF FallarAviso
  <2>2. e \in Tareas /\ TypeOK BY CampaniasAssumption DEF TipoInv
  <2> QED BY <2>1, <2>2, LibroQuietoTipo, FallarTipo
<1>4. ASSUME NEW r, aviso' = [aviso EXCEPT ![e] = r], AvisoBien(r, Len(activacion), Len(partida)),
             r.recibido = aviso[e].recibido
      PROVE  TipoInv'
  BY <1>1, <1>2, <1>3, <1>4, AvisoQueLee
<1>5. CASE aviso' = [aviso EXCEPT ![e].guardar = FALSE]
  <2> DEFINE r == [aviso[e] EXCEPT !.guardar = FALSE]
  <2>1. AvisoBien(r, Len(activacion), Len(partida)) /\ r.recibido = aviso[e].recibido
    BY <1>2 DEF AvisoBien, CamposDeAviso
  <2>2. aviso' = [aviso EXCEPT ![e] = r] BY <1>5
  <2> HIDE DEF r
  <2> QED BY <1>4, <2>1, <2>2
<1>6. CASE aviso' = [aviso EXCEPT ![e].status = "no"]
  <2> DEFINE r == [aviso[e] EXCEPT !.status = "no"]
  <2>1. AvisoBien(r, Len(activacion), Len(partida)) /\ r.recibido = aviso[e].recibido
    BY <1>2 DEF AvisoBien, CamposDeAviso
  <2>2. aviso' = [aviso EXCEPT ![e] = r] BY <1>6
  <2> HIDE DEF r
  <2> QED BY <1>4, <2>1, <2>2
<1>7. CASE aviso' = [aviso EXCEPT ![e].montos = "no", ![e].ordenes = {}]
  <2> DEFINE r == [aviso[e] EXCEPT !.montos = "no", !.ordenes = {}]
  <2>1. AvisoBien(r, Len(activacion), Len(partida)) /\ r.recibido = aviso[e].recibido
    BY <1>2 DEF AvisoBien, CamposDeAviso
  <2>2. aviso' = [aviso EXCEPT ![e] = r] BY <1>2, <1>7 DEF CamposDeAviso
  <2> HIDE DEF r
  <2> QED BY <1>4, <2>1, <2>2
<1> QED BY <1>5, <1>6, <1>7 DEF FallarAviso


----
(* The matches, and what comes from outside. *)

LEMMA CobroTipo ==
  ASSUME TipoInv, NEW k \in Cobros
  PROVE  CobroBien(cobro[k], Len(partida)) /\ DOMAIN cobro[k] = CamposDeCobro /\ DOMAIN cobro = Cobros
BY DEF TipoInv, CobrosBien, CobroBien

LEMMA PasoDeCobro ==
  ASSUME TipoInv, NEW k \in Cobros, NEW r, cobro' = [cobro EXCEPT ![k] = r],
         CobroBien(r, Len(partida)), TypeOK', PartidasBien', Len(partida)' = Len(partida),
         incidentes' \in 0..MaxIncidentes,
         UNCHANGED <<campania, activacion, orden, documento, peticion, aviso>>
  PROVE  TipoInv'
<1>1. Len(activacion) \in Nat /\ Len(partida) \in Nat /\ Len(activacion)' = Len(activacion)
  BY Longitudes DEF TipoInv
<1>2. Creciente BY <1>1 DEF Creciente
<1>3. ActivacionesBien' /\ CampaniasBien' /\ OrdenesBien' /\ DocumentosBien'
  BY <1>2, OrdenesQuietas, DocumentosQuietos DEF TipoInv, ActivacionesBien, CampaniasBien
<1>4. PeticionesBien' /\ AvisosBien' /\ CuposBien' /\ CobrosBien'
  BY <1>1, <1>2, PeticionesQuietas, AvisosQuietos, CuposIguales, CobroCambia
<1> QED BY <1>3, <1>4 DEF TipoInv

LEMMA PedirCobroTipo ==
  ASSUME TipoInv, NEW k \in Cobros, NEW evento \in EventosPartida, NEW o \in Ordenes,
         NEW total \in Totales, PedirCobro(k, evento, o, total)
  PROVE  TipoInv'
<1> DEFINE r == [SinCobro EXCEPT !.en = "leer", !.evento = evento, !.orden = o, !.total = total]
<1>1. cobro' = [cobro EXCEPT ![k] = r] /\ Llegar(TRUE)
      /\ UNCHANGED <<varsLibro, campania, activacion, partida, orden, documento, peticion, aviso>>
  BY DEF PedirCobro, filas
<1>2. CobroBien(r, Len(partida))
  <2>1. CobroBien(SinCobro, Len(partida)) BY SinNada, Longitudes DEF TipoInv
  <2> QED BY <2>1 DEF CobroBien, CamposDeCobro
<1>3. TypeOK' /\ incidentes' \in 0..MaxIncidentes BY <1>1, LlegarTipo, LlegarLibro
<1>4. PartidasBien' /\ Len(partida)' = Len(partida) BY <1>1 DEF TipoInv, PartidasBien
<1> HIDE DEF r
<1> QED BY <1>1, <1>2, <1>3, <1>4, PasoDeCobro

LEMMA CobroQueFalla ==
  ASSUME TipoInv, NEW k \in Cobros, cobro' = [cobro EXCEPT ![k].en = "rechazado"],
         cobro[k].en # "nuevo", incidentes' \in 0..MaxIncidentes,
         UNCHANGED <<vars, filas, peticion, aviso>>
  PROVE  TipoInv'
<1> DEFINE r == [cobro[k] EXCEPT !.en = "rechazado"]
<1>1. CobroBien(r, Len(partida)) BY CobroTipo DEF CobroBien, CamposDeCobro
<1>2. cobro' = [cobro EXCEPT ![k] = r] OBVIOUS
<1>3. UNCHANGED <<campania, activacion, partida, orden, documento, peticion, aviso>> /\ TypeOK'
  BY LibroQuietoTipo DEF filas, TipoInv
<1>4. PartidasBien' /\ Len(partida)' = Len(partida) BY <1>3 DEF TipoInv, PartidasBien
<1> HIDE DEF r
<1> QED BY <1>1, <1>2, <1>3, <1>4, PasoDeCobro

LEMMA LeerPartidaTipo ==
  ASSUME TipoInv, NEW k \in Cobros, LeerPartida(k)
  PROVE  TipoInv'
<1> DEFINE acts == IF HayOrden(cobro[k].orden) THEN ActivacionesDe(orden[cobro[k].orden].campania)
                   ELSE {}
<1>1. cobro[k].en = "leer" /\ UNCHANGED <<vars, filas, peticion, aviso, incidentes>>
  BY DEF LeerPartida
<1>2. incidentes' \in 0..MaxIncidentes BY <1>1, IncidentesBien
<1>3. CASE cobro' = [cobro EXCEPT ![k].en = "rechazado"]
  BY <1>1, <1>2, <1>3, CobroQueFalla
<1>4. ASSUME NEW a \in acts, Cobrable(activacion[a].partida),
             cobro' = [cobro EXCEPT ![k].en = "escribir", ![k].partida = activacion[a].partida,
                                    ![k].montos = partida[activacion[a].partida].montos]
      PROVE  TipoInv'
  <2> DEFINE p == activacion[a].partida
             m == partida[p].montos
             r == [cobro[k] EXCEPT !.en = "escribir", !.partida = p, !.montos = m]
  <2>1. a \in 1..Len(activacion) /\ activacion[a].campania \in Campanias
    <3>1. acts \subseteq ActivacionesDe(orden[cobro[k].orden].campania) /\ HayOrden(cobro[k].orden)
      BY <1>4
    <3>2. cobro[k].orden \in Ordenes BY <1>1, CobroTipo DEF CobroBien
    <3>3. orden[cobro[k].orden].campania \in Campanias
      BY <3>1, <3>2 DEF TipoInv, OrdenesBien, Orden, HayOrden
    <3> QED BY <1>4, <3>1, <3>3, Longitudes DEF ActivacionesDe, TipoInv
  <2>2. p \in 1..Len(partida)
    <3>1. RenglonBien(activacion[a], a, Len(partida)) /\ activacion[a].campania # "-"
      BY <2>1, CampaniasAssumption DEF TipoInv, ActivacionesBien
    <3>2. p \in Nat /\ p <= Len(partida) /\ p # 0 /\ Len(partida) \in Nat
      BY <3>1, CampaniasAssumption, Longitudes
         DEF RenglonBien, Activacion, IdsActivacion, TipoInv
    <3> QED BY <3>2
  <2>3. m \in Montos /\ p \in 0..Len(partida)
    <3>1. partida[p] \in Partida BY <2>2 DEF TipoInv, PartidasBien
    <3>2. p \in 0..Len(partida) BY <2>2, Longitudes DEF TipoInv
    <3> QED BY <3>1, <3>2 DEF Partida
  <2> HIDE DEF p, m
  <2>4. cobro' = [cobro EXCEPT ![k] = r] BY <1>4, CobroTipo DEF CamposDeCobro, p, m
  <2>5. CobroBien(r, Len(partida)) BY <1>1, <2>3, CobroTipo DEF CobroBien, CamposDeCobro
  <2>6. UNCHANGED <<campania, activacion, partida, orden, documento, peticion, aviso>> /\ TypeOK'
    BY <1>1, LibroQuietoTipo DEF filas, TipoInv
  <2>7. PartidasBien' /\ Len(partida)' = Len(partida) BY <2>6 DEF TipoInv, PartidasBien
  <2> HIDE DEF r
  <2> QED BY <1>2, <2>4, <2>5, <2>6, <2>7, PasoDeCobro
<1> QED BY <1>3, <1>4 DEF LeerPartida

\* What an event makes of the amounts of a match are amounts.
LEMMA MontosDeTipo ==
  ASSUME NEW m \in Montos, NEW total \in Int, NEW evento
  PROVE  MontosDe(evento, m, total) \in Montos
<1> DEFINE n == CASE evento = "ORDER_APPROVED"  -> [m EXCEPT !.activo = @ + total]
                  [] evento = "ORDER_CANCELLED" -> [m EXCEPT !.activo = @ - total]
                  [] evento \in {"INVOICE_REVIEWED", "INVOICE_CANCELLED"} ->
                       [m EXCEPT !.activo = @ - total, !.ejercido = @ + total]
                  [] evento = "INVOICE_PAID" ->
                       [m EXCEPT !.ejercido = @ - total, !.pagado = @ + total]
                  [] OTHER -> m
<1>1. DOMAIN m = {"activo", "ejercido", "pagado"}
      /\ m.activo \in Int /\ m.ejercido \in Int /\ m.pagado \in Int
  BY DEF Montos
<1>2. n.activo \in Int /\ n.ejercido \in Int /\ n.pagado \in Int
  <2>1. CASE evento = "ORDER_APPROVED" BY <1>1, <2>1
  <2>2. CASE evento = "ORDER_CANCELLED" BY <1>1, <2>2
  <2>3. CASE evento \in {"INVOICE_REVIEWED", "INVOICE_CANCELLED"}
    <3>1. evento # "ORDER_APPROVED" /\ evento # "ORDER_CANCELLED" /\ evento # "INVOICE_PAID"
      BY <2>3
    <3>2. n = [m EXCEPT !.activo = @ - total, !.ejercido = @ + total] BY <2>3, <3>1
    <3> HIDE DEF n
    <3> QED BY <1>1, <3>2
  <2>4. CASE evento = "INVOICE_PAID"
    <3>1. evento # "ORDER_APPROVED" /\ evento # "ORDER_CANCELLED"
          /\ evento \notin {"INVOICE_REVIEWED", "INVOICE_CANCELLED"}
      BY <2>4
    <3>2. n = [m EXCEPT !.ejercido = @ - total, !.pagado = @ + total] BY <2>4, <3>1
    <3> HIDE DEF n
    <3> QED BY <1>1, <3>2
  <2>5. CASE /\ evento # "ORDER_APPROVED" /\ evento # "ORDER_CANCELLED"
             /\ evento \notin {"INVOICE_REVIEWED", "INVOICE_CANCELLED"} /\ evento # "INVOICE_PAID"
    <3>1. n = m BY <2>5
    <3> HIDE DEF n
    <3> QED BY <1>1, <3>1
  <2> HIDE DEF n
  <2> QED BY <2>1, <2>2, <2>3, <2>4, <2>5
<1>3. MontosDe(evento, m, total) = [c \in DOMAIN m |-> Redondear(n[c])] BY DEF MontosDe
<1> HIDE DEF n
<1>4. \A x \in Int : Redondear(x) \in Int BY RedondeoAcotado, NaNAssumption DEF Redondear
<1> QED BY <1>1, <1>2, <1>3, <1>4 DEF Montos

LEMMA PartidaConMontos ==
  ASSUME TipoInv, NEW p, HayPartida(p), NEW m \in Montos
  PROVE  LET otra == [partida EXCEPT ![p].montos = m]
         IN  otra \in Seq(Partida) /\ Len(otra) = Len(partida)
<1>1. partida \in Seq(Partida) /\ p \in DOMAIN partida
  BY DEF TipoInv, PartidasBien, HayPartida
<1> DEFINE s == [partida[p] EXCEPT !.montos = m]
<1>2. s \in Partida
  <2>1. partida[p] \in Partida BY <1>1
  <2> QED BY <2>1 DEF Partida
<1> HIDE DEF s
<1>3. [partida EXCEPT ![p] = s] \in Seq(Partida) /\ Len([partida EXCEPT ![p] = s]) = Len(partida)
  BY <1>1, <1>2
<1> QED BY <1>3 DEF s

LEMMA EscribirPartidaTipo ==
  ASSUME TipoInv, NEW k \in Cobros, EscribirPartida(k)
  PROVE  TipoInv'
<1> DEFINE p == cobro[k].partida
           nuevos == MontosDe(cobro[k].evento, cobro[k].montos, cobro[k].total)
           m == escribir(partida[p].montos, nuevos, ColumnasDe(cobro[k].evento))
           r == [cobro[k] EXCEPT !.en = "hecho", !.partida = 0, !.montos = Cero]
<1>1. /\ cobro[k].en = "escribir"
      /\ partida' = (IF HayPartida(p) THEN [partida EXCEPT ![p].montos = m] ELSE partida)
      /\ cobro' = [cobro EXCEPT ![k].en = "hecho", ![k].partida = 0, ![k].montos = Cero]
      /\ UNCHANGED <<vars, campania, activacion, orden, documento, peticion, aviso, incidentes>>
  BY DEF EscribirPartida
<1>2. CobroBien(cobro[k], Len(partida)) /\ DOMAIN cobro[k] = CamposDeCobro /\ DOMAIN cobro = Cobros
      /\ Len(partida) \in Nat
  BY CobroTipo, Longitudes DEF TipoInv
<1>3. cobro' = [cobro EXCEPT ![k] = r] BY <1>1, <1>2 DEF CamposDeCobro
<1>4. CobroBien(r, Len(partida))
  <2>1. 0 \in 0..Len(partida) /\ Cero \in Montos BY <1>2 DEF Cero, Montos
  <2> QED BY <1>1, <1>2, <2>1 DEF CobroBien, CamposDeCobro
<1>5. nuevos \in Montos
  <2>1. cobro[k].total \in Int /\ cobro[k].montos \in Montos
    BY <1>1, <1>2, CampaniasAssumption DEF CobroBien
  <2> QED BY <2>1, MontosDeTipo
<1>6. PartidasBien' /\ Len(partida)' = Len(partida)
  <2>1. CASE HayPartida(p)
    <3>0. partida[p] \in Partida BY <2>1 DEF TipoInv, PartidasBien, HayPartida
    <3>1. partida[p].montos \in Montos BY <3>0 DEF Partida
    <3> HIDE DEF nuevos, p
    <3>2. m \in Montos BY <1>5, <3>1 DEF escribir, Montos
    <3> HIDE DEF m
    <3> QED BY <1>1, <2>1, <3>2, PartidaConMontos DEF PartidasBien
  <2>2. CASE ~HayPartida(p) BY <1>1, <2>2 DEF TipoInv, PartidasBien
  <2> QED BY <2>1, <2>2
<1>7. TypeOK' /\ incidentes' \in 0..MaxIncidentes
  BY <1>1, LibroQuietoTipo, IncidentesBien DEF TipoInv
<1> HIDE DEF r, m
<1> QED BY <1>1, <1>3, <1>4, <1>6, <1>7, PasoDeCobro

LEMMA FallarCobroTipo ==
  ASSUME TipoInv, NEW k \in Cobros, FallarCobro(k)
  PROVE  TipoInv'
BY IncidentesBien, CobroQueFalla DEF FallarCobro, Cobrando

\* The process stops.
LEMMA CaerTipo ==
  ASSUME TipoInv, CaerServidor
  PROVE  TipoInv'
<1>1. /\ PerderActivaciones /\ Incidente /\ UNCHANGED <<campania, activacion, partida, orden, documento>>
      /\ peticion' = [h \in Hilos |-> SinPeticion]
      /\ aviso' = [e \in Avisos |-> [SinAviso EXCEPT !.recibido = aviso[e].recibido]]
      /\ cobro' = [k \in Cobros |-> IF Cobrando(k) THEN [cobro[k] EXCEPT !.en = "rechazado"]
                                    ELSE cobro[k]]
  BY DEF CaerServidor, filas
<1>2. ActivacionesBien' /\ PartidasBien' /\ Creciente
      /\ Len(activacion)' = Len(activacion) /\ Len(partida)' = Len(partida)
  BY <1>1, FilasQuietas
<1>3. CampaniasBien' /\ OrdenesBien' /\ DocumentosBien' /\ TypeOK' /\ incidentes' \in 0..MaxIncidentes
  BY <1>1, <1>2, OrdenesQuietas, DocumentosQuietos, PerderTipo, IncidentesBien
     DEF TipoInv, CampaniasBien
<1>4. PeticionesBien' BY <1>1 DEF PeticionesBien
<1>5. AvisosBien'
  <2>1. ASSUME NEW e \in Avisos
        PROVE  AvisoBien(aviso'[e], Len(activacion), Len(partida))
               /\ aviso'[e].recibido = aviso[e].recibido
    <3>1. AvisoBien(SinAviso, Len(activacion), Len(partida)) /\ aviso[e].recibido \in BOOLEAN
      BY SinNada, Longitudes, AvisoTipo DEF TipoInv, AvisoBien
    <3>2. ~SinAviso.guardar /\ SinAviso.status = "no" /\ SinAviso.montos = "no"
      BY DEF SinAviso
    <3>3. aviso'[e] = [SinAviso EXCEPT !.recibido = aviso[e].recibido] BY <1>1
    <3> DEFINE b == aviso[e].recibido
               r == [SinAviso EXCEPT !.recibido = b]
    <3>4. b \in BOOLEAN BY <3>1
    <3> HIDE DEF b
    <3>5. AvisoBien(r, Len(activacion), Len(partida)) /\ r.recibido = b
      BY <3>1, <3>2, <3>4 DEF AvisoBien, CamposDeAviso
    <3> QED BY <3>3, <3>5 DEF b
  <2>2. ASSUME NEW e \in Avisos
        PROVE  aviso'[e].recibido => documento'[Doc(e)] # SinDocumento
    BY <1>1, <2>1 DEF TipoInv, AvisosBien
  <2>3. DOMAIN aviso' = Avisos BY <1>1
  <2> QED BY <1>2, <2>1, <2>2, <2>3 DEF AvisosBien
<1>6. CobrosBien'
  <2>1. ASSUME NEW k \in Cobros PROVE CobroBien(cobro'[k], Len(partida))
    <3>1. CASE Cobrando(k)
      <4> DEFINE r == [cobro[k] EXCEPT !.en = "rechazado"]
      <4>1. cobro'[k] = r BY <1>1, <3>1
      <4>2. CobroBien(r, Len(partida))
        BY <3>1, CobroTipo DEF CobroBien, CamposDeCobro, Cobrando
      <4> QED BY <4>1, <4>2
    <3>2. CASE ~Cobrando(k) BY <1>1, <3>2, CobroTipo
    <3> QED BY <3>1, <3>2
  <2> QED BY <1>1, <1>2, <2>1 DEF CobrosBien
<1>7. CuposBien'
  <2>1. PorPartir' = {} /\ PorActivar' = {}
    BY <1>1, SinNada DEF PorPartir, PorActivar, CreaActivacion
  <2> QED BY <1>2, <1>3, <2>1, CuposMenos
<1> QED BY <1>2, <1>3, <1>4, <1>5, <1>6, <1>7 DEF TipoInv

\* The rows change, by a request that is over at once.
LEMMA PasoDeFilas ==
  ASSUME TipoInv, NEW regular, Llegar(regular), ActivacionesBien', PartidasBien',
         Len(activacion)' = Len(activacion), Len(partida)' = Len(partida),
         UNCHANGED <<varsLibro, campania, orden, documento, peticion, aviso, cobro>>
  PROVE  TipoInv'
<1>1. Len(activacion) \in Nat /\ Len(partida) \in Nat BY Longitudes DEF TipoInv
<1>2. Creciente BY <1>1 DEF Creciente
<1>3. TypeOK' /\ incidentes' \in 0..MaxIncidentes BY LlegarTipo, LlegarLibro
<1>4. CampaniasBien' /\ OrdenesBien' /\ DocumentosBien'
  BY <1>2, OrdenesQuietas, DocumentosQuietos DEF TipoInv, CampaniasBien
<1>5. PeticionesBien' /\ AvisosBien' /\ CobrosBien' /\ CuposBien'
  BY <1>2, <1>3, PeticionesQuietas, AvisosQuietos, CobrosQuietos, CuposIguales
<1> QED BY <1>3, <1>4, <1>5 DEF TipoInv

LEMMA QuitarActivacionTipo ==
  ASSUME TipoInv, NEW b, QuitarActivacion(b)
  PROVE  TipoInv'
<1> DEFINE g == [a \in DOMAIN activacion |-> IF a = b THEN SinActivacion ELSE activacion[a]]
<1>1. Len(partida) \in Nat /\ DOMAIN activacion = 1..Len(activacion)
  BY Longitudes DEF TipoInv
<1>2. \A a \in 1..Len(activacion) : RenglonBien(g[a], a, Len(partida))
  BY <1>1, SinCampania DEF TipoInv, ActivacionesBien
<1>3. activacion' = [a \in DOMAIN activacion |-> g[a]] /\ Llegar(FALSE)
      /\ UNCHANGED <<varsLibro, campania, partida, orden, documento, peticion, aviso, cobro>>
  BY DEF QuitarActivacion
<1> HIDE DEF g
<1> QED BY <1>2, <1>3, RenglonesBien, PasoDeFilas

LEMMA QuitarPartidaTipo ==
  ASSUME TipoInv, NEW p, QuitarPartida(p)
  PROVE  TipoInv'
<1> DEFINE g == [a \in DOMAIN activacion |->
                   IF activacion[a].partida = p THEN SinActivacion ELSE activacion[a]]
           s == [partida[p] EXCEPT !.existe = FALSE]
<1>1. Len(partida) \in Nat /\ Len(activacion) \in Nat /\ DOMAIN activacion = 1..Len(activacion)
  BY Longitudes DEF TipoInv
<1>2. \A a \in 1..Len(activacion) : RenglonBien(g[a], a, Len(partida))
  BY <1>1, SinCampania DEF TipoInv, ActivacionesBien
<1>3. activacion' = [a \in DOMAIN activacion |-> g[a]] /\ Llegar(FALSE)
      /\ partida' = [partida EXCEPT ![p] = s] /\ p \in DOMAIN partida
      /\ UNCHANGED <<varsLibro, campania, orden, documento, peticion, aviso, cobro>>
  BY DEF QuitarPartida, HayPartida
<1>4. partida \in Seq(Partida) BY DEF TipoInv, PartidasBien
<1>5. s \in Partida
  <2>1. partida[p] \in Partida BY <1>3, <1>4
  <2> QED BY <2>1 DEF Partida
<1> HIDE DEF g, s
<1>6. PartidasBien' /\ Len(partida)' = Len(partida) BY <1>3, <1>4, <1>5 DEF PartidasBien
<1>7. \A a \in 1..Len(activacion) : g[a] \in Activacion BY <1>2 DEF RenglonBien
<1>8. activacion' \in Seq(Activacion) /\ Len(activacion)' = Len(activacion)
      /\ \A a \in 1..Len(activacion) : activacion'[a] = g[a]
  BY <1>1, <1>3, <1>7
<1>9. ActivacionesBien' BY <1>2, <1>6, <1>8 DEF ActivacionesBien
<1> QED BY <1>3, <1>6, <1>8, <1>9, PasoDeFilas

LEMMA ActualizarPartidaTipo ==
  ASSUME TipoInv, NEW p, ActualizarPartida(p, Cero)
  PROVE  TipoInv'
<1>1. HayPartida(p) /\ Llegar(FALSE) /\ partida' = [partida EXCEPT ![p].montos = Cero]
      /\ UNCHANGED <<varsLibro, campania, activacion, orden, documento, peticion, aviso, cobro>>
  BY DEF ActualizarPartida
<1>2. Cero \in Montos BY DEF Cero, Montos
<1>3. PartidasBien' /\ Len(partida)' = Len(partida)
  BY <1>1, <1>2, PartidaConMontos DEF PartidasBien
<1>4. ActivacionesBien' /\ Len(activacion)' = Len(activacion)
  BY <1>1, <1>3 DEF TipoInv, ActivacionesBien
<1> QED BY <1>1, <1>3, <1>4, PasoDeFilas


----
(* The campaigns as they were created. *)

\* The activations that the behaviour begins with: one for each campaign.
LEMMA ActivacionesIniciales ==
  ASSUME CampaniasIniciales
  PROVE  /\ \E ids \in [1..Cardinality(Existentes) -> Existentes] :
              /\ \A i, j \in DOMAIN ids : ids[i] = ids[j] => i = j
              /\ activacion = [i \in 1..Cardinality(Existentes) |->
                   [SinActivacion EXCEPT !.campania = ids[i], !.numero = 1, !.partida = i,
                                         !.status = TRUE]]
         /\ Cardinality(Existentes) \in Nat /\ Cardinality(Existentes) <= MaxActivaciones
         /\ DOMAIN activacion = 1..Cardinality(Existentes)
         /\ partida = [i \in 1..Cardinality(Existentes) |-> NuevaPartida]
<1>1. PICK ids \in {s \in [1..Cardinality(Existentes) -> Existentes] : IsInjective(s)} :
        activacion = [i \in DOMAIN ids |->
                       [SinActivacion EXCEPT !.campania = ids[i], !.numero = 1,
                                             !.partida = i, !.status = TRUE]]
  BY DEF CampaniasIniciales
<1>2. DOMAIN ids = 1..Cardinality(Existentes) /\ ids \in [1..Cardinality(Existentes) -> Existentes]
      /\ \A i, j \in DOMAIN ids : ids[i] = ids[j] => i = j
  BY <1>1 DEF IsInjective
<1>3. Cardinality(Existentes) \in Nat /\ Cardinality(Existentes) <= MaxActivaciones
  BY CampaniasAssumption, FS_CardinalityType
<1>5. activacion = [i \in 1..Cardinality(Existentes) |->
                   [SinActivacion EXCEPT !.campania = ids[i], !.numero = 1, !.partida = i,
                                         !.status = TRUE]]
  BY <1>1, <1>2
<1>6. DOMAIN activacion = 1..Cardinality(Existentes) BY <1>5
<1>7. partida = [i \in 1..Cardinality(Existentes) |-> NuevaPartida]
  BY <1>6 DEF CampaniasIniciales
<1> QED BY <1>2, <1>3, <1>5, <1>6, <1>7

LEMMA TipoInicial ==
  ASSUME InitCampania
  PROVE  TipoInv
<1> DEFINE n == Cardinality(Existentes)
<1>1. PICK ids \in [1..n -> Existentes] :
        activacion = [i \in 1..n |->
          [SinActivacion EXCEPT !.campania = ids[i], !.numero = 1, !.partida = i, !.status = TRUE]]
  BY ActivacionesIniciales DEF InitCampania
<1>2. n \in Nat /\ n <= MaxActivaciones /\ MaxActivaciones \in Nat
      /\ partida = [i \in 1..n |-> NuevaPartida]
  BY ActivacionesIniciales, CampaniasAssumption DEF InitCampania
<1> HIDE DEF n
<1>3. NuevaPartida \in Partida BY DEF NuevaPartida, Partida, Cero, Montos
<1>4. PartidasBien /\ Len(partida) = n BY <1>2, <1>3 DEF PartidasBien
<1>5. \A i \in 1..n : RenglonBien(activacion[i], i, n)
  <2> SUFFICES ASSUME NEW i \in 1..n PROVE RenglonBien(activacion[i], i, n) OBVIOUS
  <2> DEFINE c == ids[i]
             r == [SinActivacion EXCEPT !.campania = c, !.numero = 1, !.partida = i, !.status = TRUE]
  <2>1. c \in Campanias /\ activacion[i] = r BY <1>1, CampaniasAssumption
  <2>2. i \in 0..MaxActivaciones /\ 1 \in 0..MaxActivaciones + 1 /\ i <= n /\ 1 <= i /\ i # 0
    BY <1>2
  <2>3. SinActivacion \in Activacion
    BY CampaniasAssumption DEF SinActivacion, Activacion, IdsActivacion
  <2> HIDE DEF c
  <2>4. RenglonBien(r, i, n)
    BY <2>1, <2>2, <2>3 DEF RenglonBien, Activacion, IdsActivacion
  <2> QED BY <2>1, <2>4
<1>6. ActivacionesBien /\ Len(activacion) = n
  <2>1. \A i \in 1..n : activacion[i] \in Activacion BY <1>5 DEF RenglonBien
  <2>2. activacion \in Seq(Activacion) /\ Len(activacion) = n
    <3>1. activacion = [i \in 1..n |-> activacion[i]] BY <1>1
    <3> QED BY ONLY <1>2, <2>1, <3>1
  <2> QED BY <1>4, <1>5, <2>2 DEF ActivacionesBien
<1>7. CampaniasBien
  BY DEF InitCampania, CampaniasIniciales, CampaniasBien, CAMPAIGN_STATUS
<1>8. OrdenesBien
  <2>1. ASSUME NEW o \in Ordenes
        PROVE  orden[o] \in Orden \cup {SinOrden} /\ (orden[o] # SinOrden => orden[o].cargos # <<>>)
    <3>1. CASE o \notin DOMAIN Pendientes BY <3>1 DEF InitCampania
    <3>2. CASE o \in DOMAIN Pendientes
      <4> DEFINE c == activacion[1].campania
                 cs == Pendientes[o]
                 r == [campania |-> c, partida |-> 1, estatus |-> "PENDIENTE", cargos |-> cs]
      <4>1. orden[o] = r BY <3>2 DEF InitCampania
      <4>2. cs \in Seq(Cargo) /\ cs # <<>> BY <3>2, CampaniasAssumption DEF Range
      <4>3. Existentes # {} BY <3>2, CampaniasAssumption
      <4>4. n # 0 BY <4>3, CampaniasAssumption, FS_EmptySet DEF n
      <4>5. c \in Campanias /\ 1 \in IdsActivacion
        <5>1. 1 \in 1..n /\ 1 \in 0..MaxActivaciones BY <1>2, <4>4
        <5>2. activacion[1] = [SinActivacion EXCEPT !.campania = ids[1], !.numero = 1,
                                                    !.partida = 1, !.status = TRUE]
          BY <1>1, <5>1
        <5>3. c = ids[1] BY <5>2 DEF SinActivacion
        <5> QED BY <5>1, <5>3, CampaniasAssumption DEF IdsActivacion
      <4> HIDE DEF c, cs
      <4>6. r \in Orden /\ r.cargos # <<>> BY <4>2, <4>5 DEF Orden
      <4> QED BY <4>1, <4>6
    <3> QED BY <3>1, <3>2
  <2>2. DOMAIN orden = Ordenes /\ orden = [o \in DOMAIN orden |-> orden[o]]
    BY DEF InitCampania
  <2>3. orden \in [Ordenes -> Orden \cup {SinOrden}] BY <2>1, <2>2
  <2> QED BY <2>1, <2>3 DEF OrdenesBien, HayOrden
<1>9. TypeOK
  <2>1. ASSUME NEW f \in Fondos
        PROVE  SumFunction([o \in DOMAIN Pendientes |-> ImporteA(Pendientes[o], f)]) \in Int
    <3> DEFINE g == [o \in DOMAIN Pendientes |-> ImporteA(Pendientes[o], f)]
    <3>1. IsFiniteSet(DOMAIN Pendientes) BY CampaniasAssumption, FS_Subset
    <3>2. \A o \in DOMAIN Pendientes : g[o] \in Int
      <4>1. \A o \in DOMAIN Pendientes : Pendientes[o] \in Seq(Cargo)
        BY CampaniasAssumption DEF Range
      <4> QED BY <4>1, ImporteEntero
    <3>3. SumFunction(g) = SumFunctionOnSet(g, DOMAIN Pendientes) BY DEF SumFunction
    <3> HIDE DEF g
    <3>4. SumFunctionOnSet(g, DOMAIN Pendientes) \in Int BY <3>1, <3>2, SumaEntera
    <3> QED BY <3>3, <3>4 DEF g
  <2>2. fondo \in [Fondos -> FundRow]
    <3>1. ASSUME NEW f \in Fondos, NEW v \in Int
          PROVE  [FilaFondoCero EXCEPT !["montoDisponible"] = Techo[f],
                                       !["committedAmount"] = v] \in FundRow
      BY FondosAssumption, FilasCero DEF FundRow
    <3> QED BY <2>1, <3>1 DEF InitCampania
  <2> QED BY <2>2, FilasCero DEF InitCampania, TypeOK, Pasos
<1>10. DocumentosBien /\ PeticionesBien
  BY DEF InitCampania, DocumentosBien, DocumentoBien, PeticionesBien
<1>11. AvisosBien
  <2>1. AvisoBien(SinAviso, n, n) /\ SinAviso.recibido = FALSE
    BY <1>2, SinNada DEF SinAviso
  <2> QED BY <1>4, <1>6, <2>1 DEF InitCampania, AvisosBien
<1>12. CobrosBien
  <2>1. CobroBien(SinCobro, n) BY <1>2, SinNada
  <2> QED BY <1>4, <2>1 DEF InitCampania, CobrosBien
<1>13. CuposBien
  <2>1. PorPartir = {} /\ PorActivar = {} /\ incidentes = 0
    BY SinNada DEF InitCampania, PorPartir, PorActivar, CreaActivacion
  <2> QED BY <1>2, <1>4, <1>6, <2>1, FS_EmptySet, CampaniasAssumption DEF CuposBien
<1> QED BY <1>4, <1>6, <1>7, <1>8, <1>9, <1>10, <1>11, <1>12, <1>13 DEF TipoInv

\* The steps keep it.
LEMMA PasoTipo ==
  ASSUME TipoInv, [NextCampania]_todas
  PROVE  TipoInv'
<1>1. CASE UNCHANGED todas
  <2>1. UNCHANGED <<vars, varsCampania, incidentes>> BY <1>1 DEF todas
  <2> QED BY <2>1, LibroQuietoTipo, IncidentesBien, SoloLibroTipo DEF TipoInv
<1>2. CASE \E h \in Hilos : Solicitar(h) \/ Atender(h) \/ FallarPeticion(h)
  BY <1>2, SolicitarTipo, AtenderTipo, FallarPeticionTipo
<1>3. CASE \E h \in Hilos, a \in DOMAIN activacion : PedirDesactivar(h, a)
  BY <1>3, PedirDesactivarTipo
<1>4. CASE \E d \in Envios : EnviarAFirmamex(d) BY <1>4, EnviarTipo
<1>5. CASE \E e \in Avisos : Recibir(e) \/ Manejar(e) \/ FallarAviso(e)
  BY <1>5, RecibirTipo, ManejarTipo, FallarAvisoTipo
<1>6. CASE \E k \in Cobros :
             \/ \E evento \in EventosPartida, o \in Ordenes, total \in Totales :
                  PedirCobro(k, evento, o, total)
             \/ Cobrar(k) \/ FallarCobro(k)
  BY <1>6, PedirCobroTipo, LeerPartidaTipo, EscribirPartidaTipo, FallarCobroTipo DEF Cobrar
<1>7. CASE \E a \in DOMAIN activacion : QuitarActivacion(a) BY <1>7, QuitarActivacionTipo
<1>8. CASE \E p \in DOMAIN partida : QuitarPartida(p) \/ ActualizarPartida(p, Cero)
  BY <1>8, QuitarPartidaTipo, ActualizarPartidaTipo
<1>9. CASE CaerServidor BY <1>9, CaerTipo
<1> QED BY <1>1, <1>2, <1>3, <1>4, <1>5, <1>6, <1>7, <1>8, <1>9 DEF NextCampania

LEMMA TipoSiempre == SpecCampania => []TipoInv
<1>1. InitCampania => TipoInv BY TipoInicial
<1>2. TipoInv /\ [NextCampania]_todas => TipoInv' BY PasoTipo
<1> QED BY <1>1, <1>2, PTL DEF SpecCampania

\* Type correctness: whatever requests, notifications and charges of the matches
\* do between them, every row, request and handler of the campaigns is well
\* formed and the rows never exceed the ids there are for them.
THEOREM TipoCampania == SpecCampania => []TypeOKCampania
<1>1. TipoInv => TypeOKCampania
  <2> SUFFICES ASSUME TipoInv PROVE TypeOKCampania OBVIOUS
  <2>1. /\ DOMAIN activacion = 1..Len(activacion) /\ Len(activacion) \in Nat
        /\ Len(partida) \in Nat
    BY Longitudes DEF TipoInv
  <2>2. Len(activacion) <= MaxActivaciones /\ Len(partida) <= MaxActivaciones
        /\ incidentes \in 0..MaxIncidentes
    BY <2>1, PorInsertarFinitos, CampaniasAssumption DEF TipoInv, CuposBien
  <2>3. \A d \in Envios :
         documento[d] = SinDocumento \/
         /\ documento[d].campania \in Campanias /\ documento[d].activacion \in DOMAIN activacion
         /\ documento[d].accion \in Acciones
         /\ documento[d].estatus \in {"PENDIENTE_DE_FIRMA", "enviado", "APROBADA"}
    BY <2>1 DEF TipoInv, DocumentosBien, DocumentoBien
  <2>4. \A h \in Hilos :
         peticion[h] = SinPeticion \/
         /\ peticion[h].en \in Esperas
         /\ peticion[h].partida \in 0..Len(partida)
         /\ \A x \in peticion[h].ordenes : x[1] \in Ordenes /\ x[2] \in Seq(Cargo)
    BY DEF TipoInv, PeticionesBien, PeticionBien, EnSuSitio, ParBien
  <2>5. \A e \in Avisos :
         /\ aviso[e].status \in {"no", "leer", "escribir", "aprobar"}
         /\ aviso[e].montos \in {"no", "activacion", "ordenes", "siguiente", "cargos"}
         /\ aviso[e].activacion \in 0..Len(activacion)
         /\ \A x \in aviso[e].ordenes : x[1] \in Ordenes /\ x[2] \in Seq(Cargo)
    BY DEF TipoInv, AvisosBien, AvisoBien, ParBien
  <2>6. \A k \in Cobros : cobro[k].en \in {"nuevo", "leer", "escribir", "rechazado", "hecho"}
    BY DEF TipoInv, CobrosBien, CobroBien
  <2> QED BY <2>2, <2>3, <2>4, <2>5, <2>6
          DEF TipoInv, CampaniasBien, ActivacionesBien, PartidasBien, OrdenesBien, TypeOKCampania
<1> QED BY <1>1, TipoSiempre, PTL


----
(* Whatever overlaps or fails, what is approved was signed: AprobadaConFirma *)
(* but for what holds undisturbed.                                         *)

\* The handlers of e are at the order o, or will come to it.
Lleva(e, o) ==
  \/ aviso[e].montos = "cargos" /\ aviso[e].orden = o
  \/ \E x \in aviso[e].ordenes : x[1] = o

\* A request that has still to insert its document.
Antes == {"leer", "ultima", "documento"}

\* No two requests write the same document, nor one that there was.
DocumentosAparte ==
  \A h \in Hilos : peticion[h].op = "firmar" =>
    /\ peticion[h].en \in Antes => documento[peticion[h].doc] = SinDocumento
    /\ \A g \in Hilos : g # h /\ peticion[g].op = "firmar" => peticion[g].doc # peticion[h].doc

\* Nor the same order, nor one that a handler is at.
OrdenesAparte ==
  \A h \in Hilos : peticion[h].op = "ordenar" =>
    /\ ~HayOrden(peticion[h].orden)
    /\ \A g \in Hilos : g # h /\ peticion[g].op = "ordenar" => peticion[g].orden # peticion[h].orden
    /\ \A e \in Avisos : ~Lleva(e, peticion[h].orden)

\* Handlers have the orders of the campaign whose document they were told of.
OrdenesDelAviso ==
  \A e \in Avisos :
    /\ aviso[e].ordenes # {} => aviso[e].recibido
    /\ \A o \in Ordenes : Lleva(e, o) /\ HayOrden(o) => orden[o].campania = CampaniaDe(e)

LibroEnCurso == \A e \in Avisos : paso[e] # "libre" => aviso[e].montos = "cargos"

ConFirma ==
  \A c \in Campanias :
    /\ campania[c] = "APROBADA" => Firmada(c, "APPROVE")
    /\ campania[c] = "CANCELADA" => Firmada(c, "CANCEL")
    /\ \A o \in Ordenes : HayOrden(o) /\ orden[o].campania = c =>
         /\ orden[o].estatus = "ACTIVA" => Firmada(c, "APPROVE")
         /\ orden[o].estatus = "CANCELADA" => Firmada(c, "CANCEL")

FirmaInv ==
  DocumentosAparte /\ OrdenesAparte /\ OrdenesDelAviso /\ LibroEnCurso /\ ConFirma

\* Documents keep what they are of, and notifications stay received.
Duran ==
  /\ \A d \in Envios : documento[d] # SinDocumento =>
       /\ documento'[d] # SinDocumento
       /\ documento'[d].campania = documento[d].campania
       /\ documento'[d].accion = documento[d].accion
       /\ documento'[d].activacion = documento[d].activacion
  /\ \A e \in Avisos : aviso[e].recibido => aviso'[e].recibido

LEMMA NotificadoEs ==
  ASSUME TipoInv, NEW d \in Envios, Notificado(d)
  PROVE  documento[d] # SinDocumento
BY AvisoTipo DEF Notificado

LEMMA FirmadaDura ==
  ASSUME TipoInv, Duran, NEW c, NEW accion, Firmada(c, accion)
  PROVE  Firmada(c, accion)'
<1>1. PICK d \in Envios : Notificado(d) /\ documento[d].campania = c /\ documento[d].accion = accion
  BY DEF Firmada
<1>2. documento[d] # SinDocumento BY <1>1, NotificadoEs
<1>3. Notificado(d)' BY <1>1 DEF Notificado, Duran
<1> QED BY <1>1, <1>2, <1>3 DEF Firmada, Duran

\* What a step may do to the statuses.
LEMMA ConFirmaSigue ==
  ASSUME TipoInv, ConFirma, Duran,
         \A c \in Campanias :
           \/ campania'[c] = campania[c]
           \/ campania'[c] \notin {"APROBADA", "CANCELADA"}
           \/ campania'[c] = "APROBADA" /\ Firmada(c, "APPROVE")
           \/ campania'[c] = "CANCELADA" /\ Firmada(c, "CANCEL"),
         \A o \in Ordenes : orden'[o] # SinOrden =>
           \/ orden'[o] = orden[o]
           \/ orden'[o].estatus = "PENDIENTE"
           \/ orden'[o].estatus = "ACTIVA" /\ Firmada(orden'[o].campania, "APPROVE")
           \/ orden'[o].estatus = "CANCELADA" /\ Firmada(orden'[o].campania, "CANCEL")
  PROVE  ConFirma'
<1> SUFFICES ASSUME NEW c \in Campanias
             PROVE  /\ campania'[c] = "APROBADA" => Firmada(c, "APPROVE")'
                    /\ campania'[c] = "CANCELADA" => Firmada(c, "CANCEL")'
                    /\ \A o \in Ordenes : orden'[o] # SinOrden /\ orden'[o].campania = c =>
                         /\ orden'[o].estatus = "ACTIVA" => Firmada(c, "APPROVE")'
                         /\ orden'[o].estatus = "CANCELADA" => Firmada(c, "CANCEL")'
  BY DEF ConFirma, HayOrden
<1>1. /\ campania[c] = "APROBADA" => Firmada(c, "APPROVE")
      /\ campania[c] = "CANCELADA" => Firmada(c, "CANCEL")
      /\ \A o \in Ordenes : orden[o] # SinOrden /\ orden[o].campania = c =>
         /\ orden[o].estatus = "ACTIVA" => Firmada(c, "APPROVE")
         /\ orden[o].estatus = "CANCELADA" => Firmada(c, "CANCEL")
  BY DEF ConFirma, HayOrden
<1>2. /\ Firmada(c, "APPROVE") => Firmada(c, "APPROVE")'
      /\ Firmada(c, "CANCEL") => Firmada(c, "CANCEL")'
  BY FirmadaDura
<1>3. /\ campania'[c] = "APROBADA" => Firmada(c, "APPROVE")
      /\ campania'[c] = "CANCELADA" => Firmada(c, "CANCEL")
  BY <1>1
<1>4. ASSUME NEW o \in Ordenes, orden'[o] # SinOrden, orden'[o].campania = c
      PROVE  /\ orden'[o].estatus = "ACTIVA" => Firmada(c, "APPROVE")
             /\ orden'[o].estatus = "CANCELADA" => Firmada(c, "CANCEL")
  BY <1>1, <1>4
<1> QED BY <1>2, <1>3, <1>4

\* A step that takes the requests and the handlers where they may go.
LEMMA FirmaSigue ==
  ASSUME FirmaInv, ConFirma',
         \A h \in Hilos : peticion'[h].op = "firmar" =>
           /\ peticion[h].op = "firmar" /\ peticion'[h].doc = peticion[h].doc
           /\ peticion'[h].en \in Antes => peticion[h].en \in Antes
                                           /\ documento'[peticion[h].doc] = documento[peticion[h].doc],
         \A h \in Hilos : peticion'[h].op = "ordenar" =>
           peticion[h].op = "ordenar" /\ peticion'[h].orden = peticion[h].orden,
         \A h \in Hilos : peticion'[h].op = "ordenar" /\ orden'[peticion[h].orden] # SinOrden =>
           HayOrden(peticion[h].orden),
         \A o : \A e \in Avisos : Lleva(e, o)' => Lleva(e, o),
         OrdenesDelAviso', LibroEnCurso'
  PROVE  FirmaInv'
<1>1. DocumentosAparte' BY DEF FirmaInv, DocumentosAparte
<1>2. OrdenesAparte' BY DEF FirmaInv, OrdenesAparte, HayOrden
<1> QED BY <1>1, <1>2 DEF FirmaInv

\* The handlers stay as they are.
LEMMA AvisosAparte ==
  ASSUME TipoInv, FirmaInv, Duran, UNCHANGED <<aviso, paso>>,
         \A o \in Ordenes : orden'[o] # SinOrden =>
           \/ orden[o] # SinOrden /\ orden'[o].campania = orden[o].campania
           \/ \A e \in Avisos : ~Lleva(e, o)
  PROVE  OrdenesDelAviso' /\ LibroEnCurso' /\ \A o : \A e \in Avisos : Lleva(e, o)' <=> Lleva(e, o)
<1>1. \A o : \A e \in Avisos : Lleva(e, o)' <=> Lleva(e, o) BY DEF Lleva
<1>2. ASSUME NEW e \in Avisos, NEW o \in Ordenes, Lleva(e, o), orden'[o] # SinOrden
      PROVE  orden'[o].campania = CampaniaDe(e)'
  <2>1. orden[o] # SinOrden /\ orden'[o].campania = orden[o].campania BY <1>2
  <2>2. orden[o].campania = CampaniaDe(e)
    BY <1>2, <2>1 DEF FirmaInv, OrdenesDelAviso, HayOrden
  <2>3. aviso[e].recibido BY <1>2, AvisoTipo DEF Lleva, EnCurso, FirmaInv, OrdenesDelAviso
  <2>4. CampaniaDe(e)' = CampaniaDe(e) BY <2>3, AvisoTipo DEF Duran, CampaniaDe
  <2> QED BY <2>1, <2>2, <2>4
<1>3. OrdenesDelAviso' BY <1>1, <1>2 DEF FirmaInv, OrdenesDelAviso, HayOrden
<1>4. LibroEnCurso' BY DEF FirmaInv, LibroEnCurso
<1> QED BY <1>1, <1>3, <1>4

----
(* Requests keep it. *)

LEMMA LibreEs ==
  ASSUME TipoInv, NEW h \in Hilos, peticion[h].en = "libre"
  PROVE  peticion[h] = SinPeticion
BY DEF TipoInv, PeticionesBien, EnSuSitio, Esperas

\* What a query makes of the request it belongs to.
Sigue(q, r) ==
  \/ r = SinPeticion
  \/ /\ r.op = q.op /\ r.doc = q.doc /\ r.accion = q.accion
     /\ q.op = "ordenar" => r.orden = q.orden /\ r.total = q.total
     /\ q.op \in {"firmar", "ordenar"} => r.campania = q.campania
     /\ q.op = "firmar" /\ r.en \in Antes => q.en \in Antes

LEMMA SigueAtender ==
  ASSUME TipoInv, NEW h \in Hilos, Atender(h)
  PROVE  /\ \A g \in Hilos : g # h => peticion'[g] = peticion[g]
         /\ Sigue(peticion[h], peticion'[h])
         /\ peticion[h].en # "libre"
         /\ DOMAIN peticion = Hilos /\ DOMAIN peticion' = Hilos
         /\ UNCHANGED <<aviso, cobro, incidentes, paso, inicios>>
<1> DEFINE q == peticion[h]
<1>0. DOMAIN peticion = Hilos /\ (q.en # "libre" => DOMAIN q = Campos /\ EnSuSitio(q, Len(activacion)))
  BY PeticionTipo DEF TipoInv, PeticionesBien
<1>1. CASE GuardarNueva(h)
  BY <1>0, <1>1 DEF GuardarNueva, Seguir, Campos, Sigue, EnSuSitio, Antes, vars
<1>2. CASE GuardarPartida(h)
  BY <1>0, <1>2 DEF GuardarPartida, Campos, Sigue, EnSuSitio, CreaActivacion, Antes, vars
<1>3. CASE ApagarActivaciones(h)
  BY <1>0, <1>3 DEF ApagarActivaciones, Campos, Sigue, EnSuSitio, Antes, vars
<1>4. CASE Numerar(h)
  BY <1>0, <1>4 DEF Numerar, Rechazar, Responder, Seguir, Campos, Sigue, EnSuSitio, CreaActivacion,
                    Antes, vars
<1>5. CASE GuardarActivacion(h)
  BY <1>0, <1>5 DEF GuardarActivacion, Rechazar, Responder, Seguir, Campos, Sigue, EnSuSitio,
                    CreaActivacion, Antes, vars
<1>6. CASE LeerPorLimpiar(h)
  BY <1>0, <1>6 DEF LeerPorLimpiar, Responder, Campos, Sigue, EnSuSitio, Antes, vars
<1>7. CASE LeerCampania(h)
  BY <1>0, <1>7 DEF LeerCampania, Responder, Campos, Sigue, EnSuSitio, Antes, vars
<1>8. CASE BorrarCampania(h) BY <1>0, <1>8 DEF BorrarCampania, Responder, Sigue, vars
<1>9. CASE LeerUltima(h)
  BY <1>0, <1>9 DEF LeerUltima, Responder, Campos, Sigue, Antes, vars
<1>10. CASE GuardarDocumento(h)
  BY <1>0, <1>10 DEF GuardarDocumento, Seguir, Campos, Sigue, Antes, vars
<1>11. CASE GuardarCampania(h)
  BY <1>0, <1>11 DEF GuardarCampania, TrasGuardada, Seguir, Responder, Campos, Sigue, Antes, vars
<1>12. CASE LeerActivacion(h)
  BY <1>0, <1>12 DEF LeerActivacion, Responder, Campos, Sigue, EnSuSitio, DeBaja, Antes, vars
<1>13. CASE BajaActivacion(h)
  BY <1>0, <1>13 DEF BajaActivacion, Seguir, Campos, Sigue, EnSuSitio, DeBaja, Antes, vars
<1>14. CASE BajaPartida(h)
  BY <1>0, <1>14 DEF BajaPartida, Seguir, Responder, Campos, Sigue, EnSuSitio, DeBaja, Antes, vars
<1>15. CASE BuscarPendientes(h)
  BY <1>0, <1>15 DEF BuscarPendientes, Campos, Sigue, EnSuSitio, DeBaja, Antes, vars
<1>16. CASE LeerMaestroDeOrden(h)
  <2>1. q.en = "maestro" /\ UNCHANGED <<vars, filas, aviso, cobro, incidentes>>
    BY <1>16 DEF LeerMaestroDeOrden
  <2>2. q.op \notin {"firmar", "ordenar"} /\ DOMAIN q = Campos
    BY <1>0, <2>1 DEF EnSuSitio, DeBaja
  <2>3. CASE Responder(h) BY <1>0, <2>1, <2>3 DEF Responder, Sigue, vars
  <2>4. CASE ~Responder(h)
    <3>1. PICK x : peticion' = [peticion EXCEPT ![h].en = Devolver(CargosDevueltos(x[2])),
                     ![h].ordenes = @ \ {x}, ![h].orden = x[1],
                     ![h].cargos = CargosDevueltos(x[2]),
                     ![h].leido = fondo[Maestro]["committedAmount"]]
      BY <1>16, <2>4 DEF LeerMaestroDeOrden
    <3>2. /\ peticion'[h].op = q.op /\ peticion'[h].doc = q.doc /\ peticion'[h].accion = q.accion
          /\ \A g \in Hilos : g # h => peticion'[g] = peticion[g]
          /\ DOMAIN peticion' = Hilos
      BY <1>0, <2>2, <3>1 DEF Campos
    <3> QED BY <1>0, <2>1, <2>2, <3>2 DEF Sigue, vars
  <2> QED BY <2>3, <2>4
<1>17. CASE LeerModificatorioDeOrden(h)
  BY <1>0, <1>17 DEF LeerModificatorioDeOrden, Campos, Sigue, EnSuSitio, DeBaja, Antes, vars
<1>18. CASE DevolverCargo(h)
  BY <1>0, <1>18 DEF DevolverCargo, EscribirComprometido, Campos, Sigue, EnSuSitio, DeBaja, Antes
<1>19. CASE BorrarOrden(h)
  BY <1>0, <1>19 DEF BorrarOrden, Seguir, Campos, Sigue, EnSuSitio, DeBaja, Antes, vars
<1>20. CASE LeerParaOrden(h)
  BY <1>0, <1>20 DEF LeerParaOrden, Responder, Campos, Sigue, Antes, vars
<1>21. CASE LeerFondos(h)
  BY <1>0, <1>21 DEF LeerFondos, Responder, Campos, Sigue, EnSuSitio, Antes, vars
<1>22. CASE EscribirReserva(h)
  BY <1>0, <1>22 DEF EscribirReserva, EscribirComprometido, Campos, Sigue, EnSuSitio, Antes
<1>23. CASE GuardarOrden(h) BY <1>0, <1>23 DEF GuardarOrden, Responder, Sigue, vars
<1> QED BY <1>1, <1>2, <1>3, <1>4, <1>5, <1>6, <1>7, <1>8, <1>9, <1>10, <1>11, <1>12, <1>13,
           <1>14, <1>15, <1>16, <1>17, <1>18, <1>19, <1>20, <1>21, <1>22, <1>23 DEF Atender


\* The rows that each query writes.
LEMMA EscribeAtender ==
  ASSUME NEW h, Atender(h)
  PROVE  /\ UNCHANGED documento \/ GuardarDocumento(h)
         /\ UNCHANGED orden \/ BorrarOrden(h) \/ GuardarOrden(h)
         /\ UNCHANGED campania \/ GuardarNueva(h) \/ BorrarCampania(h) \/ GuardarCampania(h)
         /\ UNCHANGED partida \/ GuardarPartida(h) \/ BajaPartida(h)
         /\ UNCHANGED activacion \/ ApagarActivaciones(h) \/ GuardarActivacion(h)
            \/ BorrarCampania(h) \/ GuardarCampania(h) \/ BajaActivacion(h)
         /\ GuardarDocumento(h) => UNCHANGED <<campania, activacion, partida, orden>>
<1>1. CASE GuardarNueva(h) BY <1>1 DEF GuardarNueva, GuardarDocumento
<1>2. CASE GuardarPartida(h) BY <1>2 DEF GuardarPartida, GuardarDocumento
<1>3. CASE ApagarActivaciones(h) BY <1>3 DEF ApagarActivaciones, GuardarDocumento
<1>4. CASE Numerar(h) \/ LeerPorLimpiar(h) \/ LeerCampania(h) \/ LeerUltima(h) \/ LeerActivacion(h)
  BY <1>4 DEF Numerar, LeerPorLimpiar, LeerCampania, LeerUltima, LeerActivacion, filas
<1>5. CASE GuardarActivacion(h) BY <1>5 DEF GuardarActivacion, GuardarDocumento
<1>6. CASE BorrarCampania(h) BY <1>6 DEF BorrarCampania, GuardarDocumento
<1>7. CASE GuardarDocumento(h) BY <1>7 DEF GuardarDocumento
<1>8. CASE GuardarCampania(h) BY <1>8 DEF GuardarCampania, GuardarDocumento
<1>9. CASE BajaActivacion(h) BY <1>9 DEF BajaActivacion, GuardarDocumento
<1>10. CASE BajaPartida(h) BY <1>10 DEF BajaPartida, GuardarDocumento
<1>11. CASE BuscarPendientes(h) \/ LeerMaestroDeOrden(h) \/ LeerModificatorioDeOrden(h)
            \/ LeerParaOrden(h) \/ LeerFondos(h)
  BY <1>11 DEF BuscarPendientes, LeerMaestroDeOrden, LeerModificatorioDeOrden, LeerParaOrden,
               LeerFondos, filas
<1>12. CASE DevolverCargo(h) \/ EscribirReserva(h)
  BY <1>12 DEF DevolverCargo, EscribirReserva, filas
<1>13. CASE BorrarOrden(h) BY <1>13 DEF BorrarOrden, GuardarDocumento
<1>14. CASE GuardarOrden(h) BY <1>14 DEF GuardarOrden, GuardarDocumento
<1> QED BY <1>1, <1>2, <1>3, <1>4, <1>5, <1>6, <1>7, <1>8, <1>9, <1>10, <1>11, <1>12, <1>13,
           <1>14 DEF Atender

LEMMA GuardarDocumentoEs ==
  ASSUME TipoInv, FirmaInv, NEW h \in Hilos, GuardarDocumento(h)
  PROVE  /\ peticion[h].op = "firmar" /\ peticion[h].doc \in Envios
         /\ documento[peticion[h].doc] = SinDocumento
         /\ \A d \in Envios : d # peticion[h].doc => documento'[d] = documento[d]
         /\ documento'[peticion[h].doc].estatus = "PENDIENTE_DE_FIRMA"
         /\ documento'[peticion[h].doc].campania = peticion[h].campania
         /\ documento'[peticion[h].doc].activacion = peticion[h].activacion
         /\ documento'[peticion[h].doc].accion = peticion[h].accion
         /\ peticion'[h].en = "guardar" /\ DOMAIN documento = Envios
<1>1. peticion[h].en = "documento" BY DEF GuardarDocumento
<1>2. EnSuSitio(peticion[h], Len(activacion)) /\ DOMAIN peticion[h] = Campos /\ DOMAIN peticion = Hilos
  BY <1>1, PeticionTipo
<1>3. peticion[h].op = "firmar" /\ peticion[h].doc \in Envios BY <1>1, <1>2 DEF EnSuSitio
<1>4. documento[peticion[h].doc] = SinDocumento
  BY <1>1, <1>3 DEF FirmaInv, DocumentosAparte, Antes
<1>5. DOMAIN documento = Envios BY DEF TipoInv, DocumentosBien
<1> QED BY <1>2, <1>3, <1>4, <1>5 DEF GuardarDocumento, Seguir, Campos

LEMMA DuranAtender ==
  ASSUME TipoInv, FirmaInv, NEW h \in Hilos, Atender(h)
  PROVE  Duran
<1>1. UNCHANGED aviso BY SigueAtender
<1>2. CASE UNCHANGED documento BY <1>1, <1>2 DEF Duran
<1>3. CASE GuardarDocumento(h) BY <1>1, <1>3, GuardarDocumentoEs DEF Duran
<1> QED BY <1>2, <1>3, EscribeAtender

LEMMA GuardarOrdenEs ==
  ASSUME TipoInv, NEW h \in Hilos, GuardarOrden(h)
  PROVE  /\ peticion[h].op = "ordenar" /\ peticion[h].orden \in Ordenes
         /\ peticion'[h] = SinPeticion
         /\ \A o \in Ordenes : o # peticion[h].orden => orden'[o] = orden[o]
         /\ \/ UNCHANGED orden
            \/ /\ orden'[peticion[h].orden].campania = peticion[h].campania
               /\ orden'[peticion[h].orden].partida = peticion[h].partida
               /\ orden'[peticion[h].orden].estatus = "PENDIENTE"
               /\ orden'[peticion[h].orden].cargos = peticion[h].cargos
               /\ Existe(peticion[h].campania)
<1>1. peticion[h].en = "guardarOrden" BY DEF GuardarOrden
<1>2. EnSuSitio(peticion[h], Len(activacion)) /\ DOMAIN peticion = Hilos
  BY <1>1, PeticionTipo
<1>3. DOMAIN orden = Ordenes BY DEF TipoInv, OrdenesBien
<1>4. peticion[h].op = "ordenar" /\ peticion[h].orden \in Ordenes
  BY <1>1, <1>2 DEF EnSuSitio
<1> QED BY <1>2, <1>3, <1>4 DEF GuardarOrden, Responder

LEMMA BorrarOrdenEs ==
  ASSUME TipoInv, NEW h \in Hilos, BorrarOrden(h)
  PROVE  \A o \in Ordenes : orden'[o] = orden[o] \/ orden'[o] = SinOrden
BY DEF BorrarOrden, TipoInv, OrdenesBien

\* No request approves or cancels a campaign.
LEMMA CampaniaAtender ==
  ASSUME TipoInv, NEW h \in Hilos, Atender(h), NEW c \in Campanias
  PROVE  campania'[c] = campania[c] \/ campania'[c] \notin {"APROBADA", "CANCELADA"}
<1>0. DOMAIN campania = Campanias BY DEF TipoInv, CampaniasBien
<1>1. CASE GuardarNueva(h) BY <1>0, <1>1 DEF GuardarNueva
<1>2. CASE BorrarCampania(h) BY <1>0, <1>2 DEF BorrarCampania
<1>3. CASE GuardarCampania(h)
  <2>1. peticion[h].en \in {"guardar", "otraVez"} BY <1>3 DEF GuardarCampania
  <2>2. peticion[h].fila.status \in Guardables BY <2>1, PeticionTipo DEF EnSuSitio
  <2> QED BY <1>0, <1>3, <2>2 DEF GuardarCampania, TrasGuardar, Guardables
<1> QED BY <1>1, <1>2, <1>3, EscribeAtender

LEMMA FirmaAtender ==
  ASSUME TipoInv, FirmaInv, NEW h \in Hilos, Atender(h)
  PROVE  FirmaInv'
<1> DEFINE q == peticion[h]
<1>1. /\ \A g \in Hilos : g # h => peticion'[g] = peticion[g]
      /\ Sigue(q, peticion'[h])
      /\ UNCHANGED <<aviso, paso>>
  BY SigueAtender
<1>2. Duran BY DuranAtender
<1>3. ASSUME NEW o \in Ordenes, orden'[o] # SinOrden
      PROVE  \/ orden'[o] = orden[o]
             \/ /\ orden'[o].estatus = "PENDIENTE"
                /\ GuardarOrden(h) /\ o = q.orden
  <2>1. CASE UNCHANGED orden BY <2>1
  <2>2. CASE BorrarOrden(h) BY <1>3, <2>2, BorrarOrdenEs
  <2>3. CASE GuardarOrden(h) BY <1>3, <2>3, GuardarOrdenEs
  <2> QED BY <2>1, <2>2, <2>3, EscribeAtender
<1>4. ConFirma'
  <2>1. \A o \in Ordenes : orden'[o] # SinOrden => orden'[o] = orden[o] \/ orden'[o].estatus = "PENDIENTE"
    BY <1>3
  <2> QED BY <1>2, <2>1, CampaniaAtender, ConFirmaSigue DEF FirmaInv
<1>5. \A o \in Ordenes : orden'[o] # SinOrden =>
        \/ orden[o] # SinOrden /\ orden'[o].campania = orden[o].campania
        \/ \A e \in Avisos : ~Lleva(e, o)
  <2> SUFFICES ASSUME NEW o \in Ordenes, GuardarOrden(h), o = q.orden
               PROVE  \A e \in Avisos : ~Lleva(e, o)
    BY <1>3
  <2>1. q.op = "ordenar" BY GuardarOrdenEs
  <2> QED BY <2>1 DEF FirmaInv, OrdenesAparte
<1>6. OrdenesDelAviso' /\ LibroEnCurso' /\ \A o : \A e \in Avisos : Lleva(e, o)' <=> Lleva(e, o)
  BY <1>1, <1>2, <1>5, AvisosAparte
<1>7. ASSUME NEW g \in Hilos, peticion'[g].op = "firmar"
      PROVE  /\ peticion[g].op = "firmar" /\ peticion'[g].doc = peticion[g].doc
             /\ peticion'[g].en \in Antes => peticion[g].en \in Antes
                                             /\ documento'[peticion[g].doc] = documento[peticion[g].doc]
  <2>1. peticion[g].op = "firmar" /\ peticion'[g].doc = peticion[g].doc
        /\ (peticion'[g].en \in Antes => peticion[g].en \in Antes)
    BY <1>1, <1>7, SinNada DEF Sigue
  <2>2. ASSUME peticion'[g].en \in Antes PROVE documento'[peticion[g].doc] = documento[peticion[g].doc]
    <3>1. CASE UNCHANGED documento BY <3>1
    <3>2. CASE GuardarDocumento(h)
      <4>1. g # h BY <2>2, <3>2, GuardarDocumentoEs DEF Antes
      <4>2. peticion[g].doc \in Envios
        <5>1. peticion[g].en # "libre" BY <2>1, <2>2 DEF Antes
        <5> QED BY <2>1, <5>1, PeticionTipo DEF EnSuSitio
      <4>3. peticion[g].doc # q.doc
        BY <2>1, <3>2, <4>1, GuardarDocumentoEs DEF FirmaInv, DocumentosAparte
      <4> QED BY <3>2, <4>2, <4>3, GuardarDocumentoEs
    <3> QED BY <3>1, <3>2, EscribeAtender
  <2> QED BY <2>1, <2>2
<1>8. ASSUME NEW g \in Hilos, peticion'[g].op = "ordenar"
      PROVE  /\ peticion[g].op = "ordenar" /\ peticion'[g].orden = peticion[g].orden
             /\ orden'[peticion[g].orden] # SinOrden => HayOrden(peticion[g].orden)
  <2>1. peticion[g].op = "ordenar" /\ peticion'[g].orden = peticion[g].orden
    BY <1>1, <1>8, SinNada DEF Sigue
  <2>2. peticion[g].orden \in Ordenes
    <3>1. peticion[g].en # "libre" BY <2>1, LibreEs, SinNada
    <3> QED BY <2>1, <3>1, PeticionTipo DEF EnSuSitio
  <2>3. ASSUME orden'[peticion[g].orden] # SinOrden PROVE orden[peticion[g].orden] # SinOrden
    <3> SUFFICES ASSUME GuardarOrden(h), peticion[g].orden = q.orden PROVE FALSE
      BY <1>3, <2>2, <2>3
    <3>1. g # h /\ q.op = "ordenar" BY <1>8, GuardarOrdenEs, SinNada
    <3> QED BY <2>1, <3>1 DEF FirmaInv, OrdenesAparte
  <2> QED BY <2>1, <2>3 DEF HayOrden
<1> QED BY <1>4, <1>6, <1>7, <1>8, FirmaSigue


----
(* Requests that arrive or fail keep it. *)

\* The rows, handlers and charges that a step leaves alone.
LEMMA FirmaQuieta ==
  ASSUME TipoInv, FirmaInv, UNCHANGED <<campania, orden, documento, aviso, paso>>,
         \A h \in Hilos : peticion'[h].op = "firmar" =>
           /\ peticion[h].op = "firmar" /\ peticion'[h].doc = peticion[h].doc
           /\ peticion'[h].en \in Antes => peticion[h].en \in Antes,
         \A h \in Hilos : peticion'[h].op = "ordenar" =>
           peticion[h].op = "ordenar" /\ peticion'[h].orden = peticion[h].orden
  PROVE  FirmaInv'
<1>1. Duran BY DEF Duran
<1>2. ConFirma' BY <1>1, ConFirmaSigue DEF FirmaInv
<1>3. OrdenesDelAviso' /\ LibroEnCurso' /\ \A o : \A e \in Avisos : Lleva(e, o)' <=> Lleva(e, o)
  BY <1>1, AvisosAparte
<1> QED BY <1>2, <1>3, FirmaSigue DEF HayOrden

LEMMA FirmaPedir ==
  ASSUME TipoInv, FirmaInv, NEW h \in Hilos, NEW regular, NEW nueva, Pedir(h, regular, nueva),
         nueva.op = "firmar" => /\ documento[nueva.doc] = SinDocumento
                                /\ \A g \in Hilos : peticion[g].doc # nueva.doc,
         nueva.op = "ordenar" => ~HayOrden(nueva.orden) /\ ~Nombrada(nueva.orden)
  PROVE  FirmaInv'
<1>1. /\ peticion'[h] = nueva /\ \A g \in Hilos : g # h => peticion'[g] = peticion[g]
      /\ UNCHANGED <<campania, orden, documento, aviso, paso>>
  BY DEF Pedir, filas, varsLibro, TipoInv, PeticionesBien
<1>2. Duran BY <1>1 DEF Duran
<1>3. ConFirma' BY <1>1, <1>2, ConFirmaSigue DEF FirmaInv
<1>4. OrdenesDelAviso' /\ LibroEnCurso' /\ \A o : \A e \in Avisos : Lleva(e, o)' <=> Lleva(e, o)
  BY <1>1, <1>2, AvisosAparte
<1>5. DocumentosAparte' BY <1>1 DEF FirmaInv, DocumentosAparte
<1>6. OrdenesAparte'
  <2>1. nueva.op = "ordenar" =>
          /\ \A g \in Hilos : peticion[g].orden # nueva.orden
          /\ \A e \in Avisos : ~Lleva(e, nueva.orden)
    BY DEF Nombrada, Lleva
  <2> QED BY <1>1, <1>4, <2>1 DEF FirmaInv, OrdenesAparte, HayOrden
<1> QED BY <1>3, <1>4, <1>5, <1>6 DEF FirmaInv

\* The document of a new request is one that there is not.
LEMMA DocumentoNuevo ==
  ASSUME NEW h, NEW c, NEW accion, NEW d \in Envios, PedirFirma(h, c, accion, d)
  PROVE  documento[d] = SinDocumento /\ \A g \in Hilos : peticion[g].doc # d
<1> DEFINE S == {x \in Envios : /\ documento[x] = SinDocumento
                                /\ \A g \in Hilos : peticion[g].doc # x}
           m == Max(Envios)
<1>1. m \in Envios /\ \A x \in Envios : m >= x
  <2>1. \A x \in Envios : x \in Int BY CampaniasAssumption
  <2>2. \E x \in Envios : \A y \in Envios : x >= y BY <2>1, CampaniasAssumption, MaximoHay
  <2> QED BY <2>2 DEF Max
<1>2. d = Min(S \cup {m + 1}) BY DEF PedirFirma, Primero
<1> DEFINE T == S \cup {m + 1}
<1>3. T \in SUBSET Nat /\ T # {}
  <2>1. S \in SUBSET Nat /\ m \in Nat BY <1>1, CampaniasAssumption
  <2> HIDE DEF S, m
  <2> QED BY <2>1
<1>4. Min(T) \in T
  <2> HIDE DEF T
  <2>1. \E x \in T : \A y \in T : x <= y BY <1>3, MinimoNat
  <2> QED BY <2>1 DEF Min
<1>5. d # m + 1
  <2>1. d \in Nat /\ m \in Nat /\ m >= d BY <1>1, CampaniasAssumption
  <2> HIDE DEF m
  <2> QED BY <2>1
<1> QED BY <1>2, <1>4, <1>5

LEMMA FirmaSolicitar ==
  ASSUME TipoInv, FirmaInv, NEW h \in Hilos, Solicitar(h)
  PROVE  FirmaInv'
<1>0. DOMAIN SinPeticion = Campos BY SinNada
<1>1. ASSUME NEW c \in Campanias, PedirCrear(h, c) PROVE FirmaInv'
  <2>1. PICK en : Pedir(h, TRUE, [SinPeticion EXCEPT !.op = "crear", !.en = en, !.campania = c])
    BY <1>1 DEF PedirCrear
  <2> DEFINE r == [SinPeticion EXCEPT !.op = "crear", !.en = en, !.campania = c]
  <2>2. r.op = "crear" BY <1>0 DEF Campos
  <2> HIDE DEF r
  <2>3. Pedir(h, TRUE, r) BY <2>1 DEF r
  <2> QED BY <2>2, <2>3, FirmaPedir
<1>2. ASSUME NEW c \in Campanias, NEW op \in {"actualizar", "quitar", "renovar", "activar"},
             PedirSobre(h, op, c)
      PROVE  FirmaInv'
  <2> DEFINE r == [SinPeticion EXCEPT !.op = op, !.campania = c,
                               !.en = IF op = "activar" THEN "partida" ELSE "leer"]
  <2>1. r.op = op BY <1>0 DEF Campos
  <2>2. Pedir(h, op # "activar", r) BY <1>2 DEF PedirSobre
  <2> HIDE DEF r
  <2> QED BY <2>1, <2>2, FirmaPedir
<1>3. ASSUME NEW c \in Campanias, NEW a \in DOMAIN activacion, PedirCerrar(h, c, a)
      PROVE  FirmaInv'
  <2> DEFINE r == [SinPeticion EXCEPT !.op = "cerrar", !.en = "leer", !.campania = c,
                               !.activacion = a]
  <2>1. r.op = "cerrar" BY <1>0 DEF Campos
  <2>2. Pedir(h, a = UltimaActivacion(c), r) BY <1>3 DEF PedirCerrar
  <2> HIDE DEF r
  <2> QED BY <2>1, <2>2, FirmaPedir
<1>4. ASSUME NEW c \in Campanias, NEW accion \in Acciones, NEW d \in Envios,
             PedirFirma(h, c, accion, d)
      PROVE  FirmaInv'
  <2> DEFINE r == [SinPeticion EXCEPT !.op = "firmar", !.en = "leer", !.campania = c,
                                        !.accion = accion, !.doc = d]
  <2>1. r.op = "firmar" /\ r.doc = d BY <1>0 DEF Campos
  <2>2. Pedir(h, TRUE, r) BY <1>4 DEF PedirFirma
  <2> HIDE DEF r
  <2> QED BY <1>4, <2>1, <2>2, DocumentoNuevo, FirmaPedir
<1>5. ASSUME NEW c \in Campanias, NEW o \in Ordenes, NEW total \in Totales,
             PedirOrden(h, c, o, total)
      PROVE  FirmaInv'
  <2> DEFINE r == [SinPeticion EXCEPT !.op = "ordenar", !.en = "leer", !.campania = c,
                               !.orden = o, !.total = total]
  <2>1. r.op = "ordenar" /\ r.orden = o BY <1>0 DEF Campos
  <2>2. Pedir(h, campania[c] \in Editables, r) /\ ~HayOrden(o) /\ ~Nombrada(o)
    BY <1>5 DEF PedirOrden
  <2> HIDE DEF r
  <2> QED BY <2>1, <2>2, FirmaPedir
<1> QED BY <1>1, <1>2, <1>3, <1>4, <1>5 DEF Solicitar

LEMMA FirmaDesactivar ==
  ASSUME TipoInv, FirmaInv, NEW h \in Hilos, NEW a, PedirDesactivar(h, a)
  PROVE  FirmaInv'
<1> DEFINE r == [SinPeticion EXCEPT !.op = "desactivar", !.en = "desactivar", !.activacion = a]
<1>1. r.op = "desactivar" BY SinNada DEF Campos
<1>2. Pedir(h, FALSE, r) BY DEF PedirDesactivar
<1> HIDE DEF r
<1> QED BY <1>1, <1>2, FirmaPedir

LEMMA FirmaFallarPeticion ==
  ASSUME TipoInv, FirmaInv, NEW h \in Hilos, FallarPeticion(h)
  PROVE  FirmaInv'
<1>1. peticion[h].en # "libre" /\ Rechazar(h) /\ UNCHANGED <<campania, orden, documento, aviso, paso>>
  BY DEF FallarPeticion, filas, vars
<1>2. PICK r : /\ peticion' = [peticion EXCEPT ![h] = r]
               /\ r = SinPeticion \/ r = [peticion[h] EXCEPT !.en = "limpiar"]
  BY <1>1, RechazarBien
<1>3. DOMAIN peticion = Hilos /\ DOMAIN peticion[h] = Campos BY <1>1, PeticionTipo
<1>4. r = SinPeticion \/ (/\ r.op = peticion[h].op /\ r.doc = peticion[h].doc
                          /\ r.orden = peticion[h].orden /\ r.en = "limpiar")
  BY <1>2, <1>3 DEF Campos
<1>5. \A g \in Hilos : peticion'[g] = IF g = h THEN r ELSE peticion[g] BY <1>2, <1>3
<1> QED BY <1>1, <1>4, <1>5, SinNada, FirmaQuieta DEF Antes

----
(* The handlers keep it. *)

\* A step of the handlers of e.
LEMMA FirmaDeAviso ==
  ASSUME TipoInv, FirmaInv, NEW e \in Avisos, Duran, UNCHANGED peticion, ConFirma',
         \A d \in Envios : documento[d] = SinDocumento => documento'[d] = SinDocumento,
         \A n \in Avisos : n # e => aviso'[n] = aviso[n] /\ paso'[n] = paso[n],
         paso'[e] # "libre" => aviso'[e].montos = "cargos",
         aviso'[e].ordenes # {} => aviso[e].recibido,
         \A o \in Ordenes : Lleva(e, o)' =>
           Lleva(e, o) \/ (aviso[e].recibido /\ HayOrden(o) /\ orden[o].campania = CampaniaDe(e)),
         \A o \in Ordenes : orden'[o] # SinOrden =>
           orden[o] # SinOrden /\ orden'[o].campania = orden[o].campania
  PROVE  FirmaInv'
<1>1. ASSUME NEW n \in Avisos, aviso[n].recibido PROVE CampaniaDe(n)' = CampaniaDe(n)
  BY <1>1, AvisoTipo DEF Duran, CampaniaDe
<1>2. ASSUME NEW n \in Avisos, NEW o \in Ordenes, Lleva(n, o) PROVE aviso[n].recibido
  BY <1>2, AvisoTipo DEF Lleva, EnCurso, FirmaInv, OrdenesDelAviso
<1>3. ASSUME NEW n \in Avisos, n # e, NEW o
      PROVE  Lleva(n, o)' <=> Lleva(n, o)
  BY <1>3 DEF Lleva
<1>4. OrdenesDelAviso'
  <2>1. ASSUME NEW n \in Avisos, aviso'[n].ordenes # {} PROVE aviso'[n].recibido
    BY <2>1 DEF FirmaInv, OrdenesDelAviso, Duran
  <2>2. ASSUME NEW n \in Avisos, NEW o \in Ordenes, Lleva(n, o)', orden'[o] # SinOrden
        PROVE  orden'[o].campania = CampaniaDe(n)'
    <3>1. orden[o] # SinOrden /\ orden'[o].campania = orden[o].campania BY <2>2
    <3>2. CASE Lleva(n, o)
      BY <1>1, <1>2, <3>1, <3>2 DEF FirmaInv, OrdenesDelAviso, HayOrden
    <3>3. CASE ~Lleva(n, o) BY <1>1, <1>3, <2>2, <3>1, <3>3
    <3> QED BY <3>2, <3>3
  <2> QED BY <2>1, <2>2 DEF OrdenesDelAviso, HayOrden
<1>5. LibroEnCurso' BY DEF FirmaInv, LibroEnCurso
<1>6. OrdenesAparte'
  <2> SUFFICES ASSUME NEW h \in Hilos, peticion[h].op = "ordenar"
               PROVE  /\ orden'[peticion[h].orden] = SinOrden
                      /\ \A e_1 \in Avisos : ~Lleva(e_1, peticion[h].orden)'
    BY DEF FirmaInv, OrdenesAparte, HayOrden
  <2>1. peticion[h].orden \in Ordenes
    <3>1. peticion[h].en # "libre" BY LibreEs, SinNada
    <3> QED BY <3>1, PeticionTipo DEF EnSuSitio
  <2>2. orden[peticion[h].orden] = SinOrden /\ \A n \in Avisos : ~Lleva(n, peticion[h].orden)
    BY DEF FirmaInv, OrdenesAparte, HayOrden
  <2> QED BY <1>3, <2>1, <2>2 DEF HayOrden
<1>7. DocumentosAparte'
  <2> SUFFICES ASSUME NEW h \in Hilos, peticion[h].op = "firmar", peticion[h].en \in Antes
               PROVE  documento'[peticion[h].doc] = SinDocumento
    BY DEF FirmaInv, DocumentosAparte
  <2>1. peticion[h].doc \in Envios BY PeticionTipo DEF EnSuSitio, Antes
  <2> QED BY <2>1 DEF FirmaInv, DocumentosAparte
<1> QED BY <1>4, <1>5, <1>6, <1>7 DEF FirmaInv

\* What a step of the handlers of e writes.
LEMMA EscribeManejar ==
  ASSUME TipoInv, LibroEnCurso, NEW e \in Avisos, Manejar(e)
  PROVE  /\ UNCHANGED <<partida, peticion, cobro, incidentes, inicios>>
         /\ DOMAIN aviso = Avisos /\ DOMAIN aviso' = Avisos
         /\ \A n \in Avisos : n # e => aviso'[n] = aviso[n]
         /\ aviso'[e].recibido = aviso[e].recibido
         /\ EnCurso(e)
         /\ UNCHANGED documento \/ GuardarFirma(e)
         /\ UNCHANGED campania \/ EscribirStatus(e)
         /\ UNCHANGED orden \/ EscribirOrden(e)
         /\ UNCHANGED activacion \/ FecharActivacion(e)
         /\ UNCHANGED vars \/ CargarOrden(e) \/ AvanzarLibro(e)
<1>0. DOMAIN aviso = Avisos /\ DOMAIN aviso[e] = CamposDeAviso BY AvisoTipo
<1>1. CASE GuardarFirma(e) BY <1>0, <1>1 DEF GuardarFirma, EnCurso, CamposDeAviso, vars
<1>2. CASE LeerStatus(e) BY <1>0, <1>2 DEF LeerStatus, EnCurso, CamposDeAviso, vars, filas
<1>3. CASE EscribirStatus(e)
  BY <1>0, <1>3 DEF EscribirStatus, EnCurso, CamposDeAviso, vars
<1>4. CASE FecharActivacion(e)
  BY <1>0, <1>4 DEF FecharActivacion, EnCurso, CamposDeAviso, vars
<1>5. CASE LeerActivacionDeAviso(e)
  BY <1>0, <1>5 DEF LeerActivacionDeAviso, EnCurso, CamposDeAviso, vars, filas
<1>6. CASE LeerOrdenes(e)
  BY <1>0, <1>6 DEF LeerOrdenes, EnCurso, CamposDeAviso, vars, filas
<1>7. CASE CargarOrden(e)
  <2>1. aviso[e].montos = "siguiente" /\ UNCHANGED <<filas, peticion, cobro, incidentes, inicios>>
    BY <1>7 DEF CargarOrden, vars
  <2>2. \/ aviso' = [aviso EXCEPT ![e].montos = "no", ![e].partida = 0, ![e].orden = "-"]
        \/ \E x : aviso' = [aviso EXCEPT ![e].montos = "cargos", ![e].ordenes = @ \ {x},
                                         ![e].orden = x[1]]
    BY <1>7 DEF CargarOrden
  <2>3. CASE aviso' = [aviso EXCEPT ![e].montos = "no", ![e].partida = 0, ![e].orden = "-"]
    BY <1>0, <1>7, <2>1, <2>3 DEF EnCurso, CamposDeAviso, filas
  <2>4. ASSUME NEW x, aviso' = [aviso EXCEPT ![e].montos = "cargos", ![e].ordenes = @ \ {x},
                                             ![e].orden = x[1]]
        PROVE  /\ \A n \in Avisos : n # e => aviso'[n] = aviso[n]
               /\ aviso'[e].recibido = aviso[e].recibido /\ DOMAIN aviso' = Avisos
    BY <1>0, <2>4 DEF CamposDeAviso
  <2> QED BY <1>0, <1>7, <2>1, <2>2, <2>3, <2>4 DEF EnCurso, filas
<1>8. CASE EscribirOrden(e) BY <1>0, <1>8 DEF EscribirOrden, EnCurso, CamposDeAviso, vars
<1>9. CASE AvanzarLibro(e)
  <2>1. UNCHANGED <<campania, activacion, partida, orden, documento, peticion, aviso, cobro,
                    incidentes>>
    BY <1>9 DEF AvanzarLibro, varsCampania, filas
  <2>2. UNCHANGED inicios
    BY <1>9 DEF AvanzarLibro, Avanzar, LeerMaestro, LeerContratos, LeerModificatorio,
                EscribirContrato, EscribirFondo
  <2>3. EnCurso(e)
    <3>1. paso[e] # "libre"
      BY <1>9 DEF AvanzarLibro, Avanzar, LeerMaestro, LeerContratos, LeerModificatorio,
                  EscribirContrato, EscribirFondo
    <3> QED BY <3>1 DEF LibroEnCurso, EnCurso
  <2> QED BY <1>0, <1>9, <2>1, <2>2, <2>3
<1> QED BY <1>1, <1>2, <1>3, <1>4, <1>5, <1>6, <1>7, <1>8, <1>9 DEF Manejar


\* A step of the ledger for e is its own.
LEMMA AvanzarAparte ==
  ASSUME TypeOK, NEW t \in Tareas, Avanzar(t)
  PROVE  paso[t] # "libre" /\ \A u \in Tareas : u # t => paso'[u] = paso[u]
<1>1. ASSUME NEW s, NEW f, TrasLeer(t, s, f)
      PROVE  \A u \in Tareas : u # t => paso'[u] = paso[u]
  BY <1>1, SiguienteCargoSolo DEF TrasLeer, TypeOK
<1>2. CASE LeerMaestro(t) BY <1>1, <1>2 DEF LeerMaestro
<1>3. CASE LeerContratos(t) BY <1>3 DEF LeerContratos, TypeOK
<1>4. CASE LeerModificatorio(t) BY <1>1, <1>4 DEF LeerModificatorio
<1>5. CASE EscribirContrato(t) BY <1>5 DEF EscribirContrato, TypeOK
<1>6. CASE EscribirFondo(t) BY <1>6, SiguienteCargoSolo DEF EscribirFondo
<1> QED BY <1>2, <1>3, <1>4, <1>5, <1>6 DEF Avanzar

LEMMA DuranManejar ==
  ASSUME TipoInv, LibroEnCurso, NEW e \in Avisos, Manejar(e)
  PROVE  Duran /\ \A d \in Envios : documento[d] = SinDocumento => documento'[d] = SinDocumento
<1>1. \A n \in Avisos : aviso'[n].recibido = aviso[n].recibido BY EscribeManejar
<1>2. CASE UNCHANGED documento BY <1>1, <1>2 DEF Duran
<1>3. CASE GuardarFirma(e)
  <2>1. Doc(e) \in Envios /\ documento[Doc(e)] # SinDocumento BY AvisoTipo, EscribeManejar
  <2>2. documento' = [documento EXCEPT ![Doc(e)].estatus = "APROBADA"] /\ UNCHANGED activacion
    BY <1>3 DEF GuardarFirma
  <2> QED BY <1>1, <2>1, <2>2, DocumentoFirmado DEF Duran
<1> QED BY <1>2, <1>3, EscribeManejar

\* The document that a handler runs for was signed.
LEMMA FirmadaDe ==
  ASSUME TipoInv, NEW e \in Avisos, EnCurso(e)
  PROVE  /\ Firmada(CampaniaDe(e), documento[Doc(e)].accion)
         /\ Aprueba(e) => Firmada(CampaniaDe(e), "APPROVE")
         /\ ~Aprueba(e) => Firmada(CampaniaDe(e), "CANCEL")
<1>1. Doc(e) \in Envios /\ Notificado(Doc(e)) /\ documento[Doc(e)].accion \in Acciones
  BY AvisoTipo DEF Notificado, DocumentoBien
<1> QED BY <1>1 DEF Firmada, CampaniaDe, Aprueba, Acciones

\* The orders of the handlers, after a step of theirs.
LEMMA LlevaManejar ==
  ASSUME TipoInv, FirmaInv, NEW e \in Avisos, Manejar(e)
  PROVE  /\ \A o \in Ordenes : Lleva(e, o)' =>
              Lleva(e, o) \/ (HayOrden(o) /\ orden[o].campania = CampaniaDe(e))
         /\ \A n \in Avisos : n # e => paso'[n] = paso[n]
         /\ paso'[e] # "libre" => aviso'[e].montos = "cargos"
<1>0. /\ DOMAIN aviso = Avisos /\ DOMAIN aviso[e] = CamposDeAviso
      /\ Tareas = Avisos /\ TypeOK /\ (paso[e] # "libre" => aviso[e].montos = "cargos")
  BY AvisoTipo, CampaniasAssumption DEF TipoInv, FirmaInv, LibroEnCurso
<1>1. CASE GuardarFirma(e) BY <1>0, <1>1 DEF GuardarFirma, CamposDeAviso, Lleva, vars
<1>2. CASE LeerStatus(e) BY <1>0, <1>2 DEF LeerStatus, CamposDeAviso, Lleva, vars
<1>3. CASE EscribirStatus(e) BY <1>0, <1>3 DEF EscribirStatus, CamposDeAviso, Lleva, vars
<1>4. CASE FecharActivacion(e)
  BY <1>0, <1>4 DEF FecharActivacion, CamposDeAviso, Lleva, vars
<1>5. CASE LeerActivacionDeAviso(e)
  BY <1>0, <1>5 DEF LeerActivacionDeAviso, CamposDeAviso, Lleva, vars
<1>6. CASE LeerOrdenes(e)
  <2> DEFINE S == OrdenesDe(CampaniaDe(e), aviso[e].partida)
             os == {<<o, orden[o].cargos>> : o \in S}
  <2>1. /\ aviso[e].montos = "ordenes" /\ UNCHANGED paso
        /\ aviso' = [aviso EXCEPT ![e].montos = "siguiente", ![e].ordenes = os]
    BY <1>6 DEF LeerOrdenes, vars
  <2>2. \A x \in os : HayOrden(x[1]) /\ orden[x[1]].campania = CampaniaDe(e)
    BY DEF OrdenesDe
  <2> HIDE DEF os
  <2>3. aviso'[e].montos = "siguiente" /\ aviso'[e].ordenes = os
    BY <1>0, <2>1 DEF CamposDeAviso
  <2> QED BY <1>0, <2>1, <2>2, <2>3 DEF Lleva
<1>7. CASE CargarOrden(e)
  <2>0. aviso[e].montos = "siguiente" /\ paso[e] = "libre" BY <1>0, <1>7 DEF CargarOrden
  <2>1. CASE UNCHANGED vars /\ aviso[e].ordenes = {}
             /\ aviso' = [aviso EXCEPT ![e].montos = "no", ![e].partida = 0, ![e].orden = "-"]
    <3>1. aviso'[e].montos = "no" /\ aviso'[e].ordenes = {}
      BY <1>0, <2>1 DEF CamposDeAviso
    <3> QED BY <2>0, <2>1, <3>1 DEF Lleva, vars
  <2>2. ASSUME NEW x \in aviso[e].ordenes, paso' = [paso EXCEPT ![e] = "leer"],
               aviso' = [aviso EXCEPT ![e].montos = "cargos", ![e].ordenes = @ \ {x},
                                      ![e].orden = x[1]]
        PROVE  /\ \A o \in Ordenes : Lleva(e, o)' => Lleva(e, o)
               /\ \A n \in Avisos : n # e => paso'[n] = paso[n]
               /\ aviso'[e].montos = "cargos"
    <3>1. /\ aviso'[e].montos = "cargos" /\ aviso'[e].ordenes \subseteq aviso[e].ordenes
          /\ aviso'[e].orden = x[1]
      BY <1>0, <2>2 DEF CamposDeAviso
    <3>2. \A n \in Avisos : n # e => paso'[n] = paso[n] BY <1>0, <2>2 DEF TypeOK
    <3> QED BY <2>2, <3>1, <3>2 DEF Lleva
  <2> QED BY <1>7, <2>1, <2>2 DEF CargarOrden, Arrancar
<1>8. CASE EscribirOrden(e)
  <2>1. UNCHANGED paso /\ paso[e] = "libre" BY <1>8 DEF EscribirOrden, vars
  <2>2. aviso'[e].montos \in {"siguiente", "no"} /\ aviso'[e].ordenes \subseteq aviso[e].ordenes
    BY <1>0, <1>8 DEF EscribirOrden, CamposDeAviso
  <2> QED BY <2>1, <2>2 DEF Lleva
<1>9. CASE AvanzarLibro(e)
  <2>1. UNCHANGED aviso /\ Avanzar(e) BY <1>9 DEF AvanzarLibro, varsCampania
  <2> QED BY <1>0, <2>1, AvanzarAparte DEF Lleva
<1> QED BY <1>1, <1>2, <1>3, <1>4, <1>5, <1>6, <1>7, <1>8, <1>9 DEF Manejar

\* The status of an order that a handler settles.
LEMMA EscribirOrdenEs ==
  ASSUME TipoInv, FirmaInv, NEW e \in Avisos, EscribirOrden(e), NEW o \in Ordenes
  PROVE  \/ orden'[o] = orden[o]
         \/ /\ HayOrden(o) /\ o = aviso[e].orden /\ orden[o].campania = CampaniaDe(e)
            /\ orden'[o].campania = CampaniaDe(e) /\ orden'[o].partida = orden[o].partida
            /\ orden'[o].cargos = orden[o].cargos
            /\ orden'[o].estatus = IF Aprueba(e) THEN "ACTIVA" ELSE "CANCELADA"
<1>1. aviso[e].montos = "cargos" /\ orden \in [Ordenes -> Orden \cup {SinOrden}]
  BY DEF EscribirOrden, TipoInv, OrdenesBien
<1>2. CASE HayOrden(aviso[e].orden) /\ o = aviso[e].orden
  <2> DEFINE st == IF Aprueba(e) THEN "ACTIVA" ELSE "CANCELADA"
             r == [orden[o] EXCEPT !.estatus = st]
  <2>1. orden[o].campania = CampaniaDe(e)
    BY <1>1, <1>2 DEF FirmaInv, OrdenesDelAviso, Lleva
  <2>2. orden[o] \in Orden BY <1>1, <1>2 DEF HayOrden
  <2>3. orden' = [orden EXCEPT ![o] = r] BY <1>2 DEF EscribirOrden
  <2>4. r.campania = orden[o].campania /\ r.partida = orden[o].partida
        /\ r.cargos = orden[o].cargos /\ r.estatus = st
    BY <2>2 DEF Orden
  <2> HIDE DEF r
  <2> QED BY <1>1, <1>2, <2>1, <2>3, <2>4
<1>3. CASE ~(HayOrden(aviso[e].orden) /\ o = aviso[e].orden)
  BY <1>1, <1>3 DEF EscribirOrden
<1> QED BY <1>2, <1>3

LEMMA FirmaManejar ==
  ASSUME TipoInv, FirmaInv, NEW e \in Avisos, Manejar(e)
  PROVE  FirmaInv'
<1>0. /\ UNCHANGED peticion /\ EnCurso(e) /\ LibroEnCurso
      /\ \A n \in Avisos : n # e => aviso'[n] = aviso[n]
      /\ UNCHANGED campania \/ EscribirStatus(e)
      /\ UNCHANGED orden \/ EscribirOrden(e)
  BY EscribeManejar DEF FirmaInv
<1>1. Duran /\ \A d \in Envios : documento[d] = SinDocumento => documento'[d] = SinDocumento
  BY <1>0, DuranManejar
<1>2. aviso[e].recibido /\ CampaniaDe(e) \in Campanias BY <1>0, AvisoTipo
<1>3. ASSUME NEW o \in Ordenes
      PROVE  \/ orden'[o] = orden[o]
             \/ /\ HayOrden(o) /\ orden'[o].campania = orden[o].campania
                /\ \/ orden'[o].estatus = "ACTIVA" /\ Firmada(orden'[o].campania, "APPROVE")
                   \/ orden'[o].estatus = "CANCELADA" /\ Firmada(orden'[o].campania, "CANCEL")
  <2>1. CASE UNCHANGED orden BY <2>1
  <2>2. CASE EscribirOrden(e) BY <1>0, <2>2, EscribirOrdenEs, FirmadaDe
  <2> QED BY <1>0, <2>1, <2>2
<1>4. ASSUME NEW c \in Campanias
      PROVE  \/ campania'[c] = campania[c]
             \/ campania'[c] = "APROBADA" /\ Firmada(c, "APPROVE")
             \/ campania'[c] = "CANCELADA" /\ Firmada(c, "CANCEL")
  <2>1. CASE UNCHANGED campania BY <2>1
  <2>2. CASE EscribirStatus(e)
    <3>1. DOMAIN campania = Campanias BY DEF TipoInv, CampaniasBien
    <3> QED BY <1>0, <1>2, <2>2, <3>1, FirmadaDe DEF EscribirStatus, StatusDe
  <2> QED BY <1>0, <2>1, <2>2
<1>5. ConFirma'
  <2>1. ConFirma BY DEF FirmaInv
  <2> QED BY <1>1, <1>3, <1>4, <2>1, ConFirmaSigue
<1>6. /\ \A o \in Ordenes : Lleva(e, o)' =>
              Lleva(e, o) \/ (HayOrden(o) /\ orden[o].campania = CampaniaDe(e))
      /\ \A n \in Avisos : n # e => paso'[n] = paso[n]
      /\ paso'[e] # "libre" => aviso'[e].montos = "cargos"
  BY LlevaManejar
<1>7. \A o \in Ordenes : orden'[o] # SinOrden =>
        orden[o] # SinOrden /\ orden'[o].campania = orden[o].campania
  BY <1>3 DEF HayOrden
<1> QED BY <1>0, <1>1, <1>2, <1>5, <1>6, <1>7, FirmaDeAviso


----
(* What comes from outside keeps it, and what fails. *)

LEMMA FirmaEnviar ==
  ASSUME TipoInv, FirmaInv, NEW d \in Envios, EnviarAFirmamex(d)
  PROVE  FirmaInv'
<1>0. documento[d] # SinDocumento
  <2>1. SinDocumento.estatus = "NO_EXISTE" BY DEF SinDocumento
  <2> QED BY <2>1 DEF EnviarAFirmamex
<1>1. /\ documento' = [documento EXCEPT ![d].estatus = "enviado"]
      /\ UNCHANGED <<paso, campania, activacion, orden, peticion, aviso>>
  BY DEF EnviarAFirmamex, varsLibro
<1>2. /\ Duran
      /\ \A x \in Envios : documento[x] = SinDocumento => documento'[x] = SinDocumento
  BY <1>0, <1>1, DocumentoFirmado DEF Duran
<1>3. ConFirma' BY <1>1, <1>2, ConFirmaSigue DEF FirmaInv
<1>4. OrdenesDelAviso' /\ LibroEnCurso' /\ \A o : \A e \in Avisos : Lleva(e, o)' <=> Lleva(e, o)
  BY <1>1, <1>2, AvisosAparte
<1>5. ASSUME NEW h \in Hilos, peticion[h].op = "firmar", peticion[h].en \in Antes
      PROVE  documento'[peticion[h].doc] = documento[peticion[h].doc]
  <2>1. peticion[h].doc \in Envios BY <1>5, PeticionTipo DEF EnSuSitio, Antes
  <2> QED BY <1>2, <1>5, <2>1 DEF FirmaInv, DocumentosAparte
<1> QED BY <1>1, <1>3, <1>4, <1>5, FirmaSigue DEF HayOrden

LEMMA FirmaRecibir ==
  ASSUME TipoInv, FirmaInv, NEW e \in Avisos, Recibir(e)
  PROVE  FirmaInv'
<1>1. /\ ~aviso[e].recibido
      /\ aviso' = [aviso EXCEPT ![e].recibido = TRUE, ![e].guardar = TRUE, ![e].status = "leer",
                                ![e].montos = "activacion"]
      /\ UNCHANGED <<paso, campania, activacion, partida, orden, documento, peticion>>
  BY DEF Recibir, varsLibro, filas
<1>2. DOMAIN aviso = Avisos /\ DOMAIN aviso[e] = CamposDeAviso BY AvisoTipo
<1>3. /\ aviso'[e].recibido /\ aviso'[e].montos = "activacion"
      /\ aviso'[e].ordenes = aviso[e].ordenes
      /\ \A n \in Avisos : n # e => aviso'[n] = aviso[n]
  BY <1>1, <1>2 DEF CamposDeAviso
<1>4. Duran BY <1>1, <1>3 DEF Duran
<1>5. ConFirma' BY <1>1, <1>4, ConFirmaSigue DEF FirmaInv
<1>6. paso[e] = "libre" /\ (aviso[e].ordenes # {} => aviso[e].recibido)
  BY <1>1, AvisoTipo DEF FirmaInv, LibroEnCurso, OrdenesDelAviso, EnCurso
<1>7. \A o \in Ordenes : Lleva(e, o)' => Lleva(e, o) BY <1>3 DEF Lleva
<1> QED BY <1>1, <1>3, <1>4, <1>5, <1>6, <1>7, FirmaDeAviso

LEMMA FirmaFallarAviso ==
  ASSUME TipoInv, FirmaInv, NEW e \in Avisos, FallarAviso(e)
  PROVE  FirmaInv'
<1>0. /\ DOMAIN aviso = Avisos /\ DOMAIN aviso[e] = CamposDeAviso
      /\ Tareas = Avisos /\ TypeOK /\ (paso[e] # "libre" => aviso[e].montos = "cargos")
  BY AvisoTipo, CampaniasAssumption DEF TipoInv, FirmaInv, LibroEnCurso
<1>1. UNCHANGED <<campania, activacion, partida, orden, documento, peticion>>
  BY DEF FallarAviso, filas
<1>2. /\ \A n \in Avisos : n # e => aviso'[n] = aviso[n] /\ paso'[n] = paso[n]
      /\ aviso'[e].recibido = aviso[e].recibido
      /\ aviso'[e].ordenes \subseteq aviso[e].ordenes
      /\ paso'[e] # "libre" => aviso'[e].montos = "cargos"
      /\ aviso'[e].montos = "cargos" => aviso[e].montos = "cargos" /\ aviso'[e].orden = aviso[e].orden
  <2>1. CASE UNCHANGED vars /\ aviso' = [aviso EXCEPT ![e].guardar = FALSE]
    BY <1>0, <2>1 DEF CamposDeAviso, vars
  <2>2. CASE UNCHANGED vars /\ aviso' = [aviso EXCEPT ![e].status = "no"]
    BY <1>0, <2>2 DEF CamposDeAviso, vars
  <2>3. CASE /\ aviso' = [aviso EXCEPT ![e].montos = "no", ![e].ordenes = {}]
             /\ IF paso[e] # "libre" THEN Fallar(e) ELSE UNCHANGED vars
    <3>1. paso'[e] = "libre" /\ \A n \in Avisos : n # e => paso'[n] = paso[n]
      BY <1>0, <2>3 DEF Fallar, Terminar, TypeOK, vars
    <3>2. /\ aviso'[e].montos = "no" /\ aviso'[e].ordenes = {}
          /\ aviso'[e].recibido = aviso[e].recibido
          /\ \A n \in Avisos : n # e => aviso'[n] = aviso[n]
      BY <1>0, <2>3 DEF CamposDeAviso
    <3> QED BY <3>1, <3>2
  <2> QED BY <2>1, <2>2, <2>3 DEF FallarAviso
<1>3. Duran BY <1>1, <1>2 DEF Duran
<1>4. ConFirma' BY <1>1, <1>3, ConFirmaSigue DEF FirmaInv
<1>5. aviso'[e].ordenes # {} => aviso[e].recibido BY <1>2 DEF FirmaInv, OrdenesDelAviso
<1>6. \A o \in Ordenes : Lleva(e, o)' => Lleva(e, o) BY <1>2 DEF Lleva
<1> QED BY <1>1, <1>2, <1>3, <1>4, <1>5, <1>6, FirmaDeAviso

LEMMA FirmaCaer ==
  ASSUME TipoInv, FirmaInv, CaerServidor
  PROVE  FirmaInv'
<1>1. /\ paso' = [t \in Tareas |-> "libre"] /\ UNCHANGED <<campania, orden, documento>>
      /\ peticion' = [h \in Hilos |-> SinPeticion]
      /\ aviso' = [e \in Avisos |-> [SinAviso EXCEPT !.recibido = aviso[e].recibido]]
  BY DEF CaerServidor, PerderActivaciones, filas
<1>2. \A e \in Avisos : /\ aviso'[e].recibido = aviso[e].recibido /\ aviso'[e].montos = "no"
                        /\ aviso'[e].ordenes = {}
  BY <1>1 DEF SinAviso
<1>3. Duran BY <1>1, <1>2 DEF Duran
<1>4. ConFirma' BY <1>1, <1>3, ConFirmaSigue DEF FirmaInv
<1>5. \A h \in Hilos : peticion'[h].op = "-" BY <1>1, SinNada
<1>6. \A e \in Avisos, o \in Ordenes : ~Lleva(e, o)' BY <1>2 DEF Lleva
<1>7. DocumentosAparte' /\ OrdenesAparte' BY <1>5 DEF DocumentosAparte, OrdenesAparte
<1>8. OrdenesDelAviso' BY <1>2, <1>6 DEF OrdenesDelAviso
<1>9. LibroEnCurso' BY <1>1, CampaniasAssumption DEF LibroEnCurso
<1> QED BY <1>4, <1>7, <1>8, <1>9 DEF FirmaInv

LEMMA PasoFirma ==
  ASSUME TipoInv, FirmaInv, [NextCampania]_todas
  PROVE  FirmaInv'
<1>0. UNCHANGED <<campania, orden, documento, aviso, paso, peticion>> => FirmaInv'
  BY FirmaQuieta
<1>1. CASE UNCHANGED todas BY <1>0, <1>1 DEF todas, vars, varsCampania, filas
<1>2. CASE \E h \in Hilos : Solicitar(h) \/ Atender(h) \/ FallarPeticion(h)
  BY <1>2, FirmaSolicitar, FirmaAtender, FirmaFallarPeticion
<1>3. CASE \E h \in Hilos, a \in DOMAIN activacion : PedirDesactivar(h, a)
  BY <1>3, FirmaDesactivar
<1>4. CASE \E d \in Envios : EnviarAFirmamex(d) BY <1>4, FirmaEnviar
<1>5. CASE \E e \in Avisos : Recibir(e) \/ Manejar(e) \/ FallarAviso(e)
  BY <1>5, FirmaRecibir, FirmaManejar, FirmaFallarAviso
<1>6. CASE \E k \in Cobros :
             \/ \E evento \in EventosPartida, o \in Ordenes, total \in Totales :
                  PedirCobro(k, evento, o, total)
             \/ Cobrar(k) \/ FallarCobro(k)
  BY <1>0, <1>6 DEF PedirCobro, Cobrar, LeerPartida, EscribirPartida, FallarCobro, vars, varsLibro,
                    filas
<1>7. CASE \E a \in DOMAIN activacion : QuitarActivacion(a)
  BY <1>0, <1>7 DEF QuitarActivacion, varsLibro
<1>8. CASE \E p \in DOMAIN partida : QuitarPartida(p) \/ ActualizarPartida(p, Cero)
  BY <1>0, <1>8 DEF QuitarPartida, ActualizarPartida, varsLibro
<1>9. CASE CaerServidor BY <1>9, FirmaCaer
<1> QED BY <1>1, <1>2, <1>3, <1>4, <1>5, <1>6, <1>7, <1>8, <1>9 DEF NextCampania

LEMMA FirmaInicial ==
  ASSUME InitCampania
  PROVE  FirmaInv
<1>1. /\ \A h \in Hilos : peticion[h].op = "-"
      /\ \A e \in Avisos : aviso[e].montos = "no" /\ aviso[e].ordenes = {} /\ paso[e] = "libre"
  BY SinNada, CampaniasAssumption DEF InitCampania, SinAviso
<1>2. DocumentosAparte /\ OrdenesAparte BY <1>1 DEF DocumentosAparte, OrdenesAparte
<1>3. OrdenesDelAviso /\ LibroEnCurso BY <1>1 DEF OrdenesDelAviso, LibroEnCurso, Lleva
<1>4. \A c \in Campanias : campania[c] \notin {"APROBADA", "CANCELADA"}
  BY DEF InitCampania, CampaniasIniciales
<1>5. \A o \in Ordenes : orden[o].estatus \notin {"ACTIVA", "CANCELADA"}
  BY DEF InitCampania, SinOrden
<1>6. ConFirma BY <1>4, <1>5 DEF ConFirma
<1> QED BY <1>2, <1>3, <1>6 DEF FirmaInv

LEMMA FirmaSiempre == SpecCampania => [](TipoInv /\ FirmaInv)
<1>1. InitCampania => TipoInv /\ FirmaInv BY TipoInicial, FirmaInicial
<1>2. TipoInv /\ FirmaInv /\ [NextCampania]_todas => TipoInv' /\ FirmaInv'
  BY PasoTipo, PasoFirma
<1> QED BY <1>1, <1>2, PTL DEF SpecCampania


----
(* What holds while nothing overlaps, fails or is irregular: one request,  *)
(* notification or charge at a time.                                       *)

SinAvisos == \A e \in Avisos : ~EnCurso(e)
SinCobros == \A k \in Cobros : ~Cobrando(k)
Solo ==
  /\ \A h \in Hilos : peticion[h].en # "libre" =>
       SinAvisos /\ SinCobros /\ \A g \in Hilos : g # h => peticion[g].en = "libre"
  /\ \A e \in Avisos : EnCurso(e) => SinCobros /\ \A n \in Avisos : n # e => ~EnCurso(n)
  /\ \A k \in Cobros : Cobrando(k) => \A j \in Cobros : j # k => ~Cobrando(j)

\* The request is about to save the campaign of the document it inserted.
Guarda(h, d) == peticion[h].op = "firmar" /\ peticion[h].en = "guardar" /\ peticion[h].doc = d

\* A document is of a campaign that can not be removed any more, and the one
\* that is still to be completed is of its last activation.
DocumentoSerio(d) ==
  LET c == documento[d].campania
  IN  documento[d] # SinDocumento =>
        /\ Existe(c)
        /\ campania[c] \in Removibles => \E h \in Hilos : Guarda(h, d)
        /\ ~Notificado(d) =>
             /\ documento[d].activacion = UltimaActivacion(c)
             /\ campania[c] = "PENDIENTE" \/ \E h \in Hilos : Guarda(h, d)
             /\ \A x \in Envios : documento[x].campania = c /\ ~Notificado(x) => x = d

\* The handlers of e find the campaign as the request for signatures left it.
AvisoSerio(e) ==
  LET c == CampaniaDe(e)
  IN  /\ aviso[e].recibido => e[2] = 1
      /\ aviso[e].status \in {"leer", "escribir"} =>
           /\ campania[c] = "PENDIENTE" /\ documento[Doc(e)].activacion = UltimaActivacion(c)
           /\ \A x \in Envios : documento[x].campania = c => Notificado(x)
      /\ aviso[e].status \in {"escribir", "aprobar"} => aviso[e].activacion = UltimaActivacion(c)

\* A campaign waits for a document or for its handlers, and is approved with a
\* document of its last activation.
CampaniaSeria(c) ==
  /\ campania[c] = "PENDIENTE" =>
       \/ \E d \in Envios : documento[d].campania = c /\ ~Notificado(d)
       \/ \E e \in Avisos : aviso[e].status \in {"leer", "escribir"} /\ CampaniaDe(e) = c
  /\ campania[c] = "APROBADA" =>
       /\ \E d \in Envios : /\ documento[d].campania = c /\ Notificado(d)
                            /\ documento[d].accion = "APPROVE"
                            /\ documento[d].activacion = UltimaActivacion(c)
       /\ \/ activacion[UltimaActivacion(c)].aprobada
          \/ \E e \in Avisos : aviso[e].status = "aprobar" /\ CampaniaDe(e) = c

\* Between its queries a request finds the campaign as it read it.
Renglones(c) == [a \in ActivacionesDe(c) |-> activacion[a]]
CreacionSeria(q) ==
  /\ q.en = "guardarNueva" => campania[q.campania] = "NO_EXISTE"
  /\ q.op = "crear" /\ q.en \in {"partida", "numerar", "guardarActivacion"} =>
       campania[q.campania] = "CREADA"
  /\ q.en = "borrar" => campania[q.campania] \in Removibles
FirmaSeria(q) ==
  q.op = "firmar" /\ q.en \in {"ultima", "documento", "guardar"} =>
    /\ campania[q.campania] \in Editables \cup {"APROBADA"}
    /\ q.fila.status = "PENDIENTE" /\ ~q.fila.conActivaciones /\ DOMAIN q.fila.activaciones = {}
    /\ q.en = "documento" => q.activacion = UltimaActivacion(q.campania)
    /\ q.en = "guardar" => documento[q.doc].campania = q.campania /\ ~Notificado(q.doc)
CierreSerio(q) ==
  q.op = "cerrar" /\ q.en = "guardar" =>
    /\ campania[q.campania] \in Cerrables
    /\ q.fila.status = "INACTIVA" /\ ~q.fila.conActivaciones /\ DOMAIN q.fila.activaciones = {}
ActualizacionSeria(q) ==
  q.op = "actualizar" /\ q.en \in {"guardar", "otraVez"} =>
    /\ campania[q.campania] \in Editables /\ q.fila.status = campania[q.campania]
    /\ q.fila.conActivaciones /\ q.fila.activaciones = Renglones(q.campania)
RenovacionSeria(q) ==
  q.op = "renovar" =>
    /\ q.en \in {"partida", "activaciones", "guardar"} =>
         /\ campania[q.campania] \in Renovables
         /\ q.fila.conActivaciones /\ q.fila.activaciones = Renglones(q.campania)
    /\ q.en = "guardar" => q.fila.status = "REACTIVADA"
    /\ q.en \in {"numerar", "guardarActivacion"} => campania[q.campania] = "REACTIVADA"
PeticionSeria(q) ==
  /\ q.op \notin {"activar", "desactivar"}
  /\ CreacionSeria(q) /\ FirmaSeria(q) /\ CierreSerio(q) /\ ActualizacionSeria(q)
  /\ RenovacionSeria(q)

\* The match that is charged is the one that was read, and it is open.
CobroSerio(k) ==
  LET p == cobro[k].partida
  IN  cobro[k].en = "escribir" =>
        p # 0 /\ partida[p].estatus /\ cobro[k].montos = partida[p].montos

EnSerie ==
  /\ Solo
  /\ \A d \in Envios : DocumentoSerio(d)
  /\ \A e \in Avisos : AvisoSerio(e)
  /\ \A c \in Campanias : CampaniaSeria(c)
  /\ \A h \in Hilos : PeticionSeria(peticion[h])
  /\ \A k \in Cobros : CobroSerio(k)
  /\ \A p \in DOMAIN partida : partida[p].existe

SerieInv == incidentes = 0 => EnSerie


\* Nothing arrives while something is in progress, and nothing fails.
LEMMA LlegarEnSerie ==
  ASSUME TipoInv, NEW regular \in BOOLEAN, Llegar(regular), incidentes' = 0
  PROVE  Quieto /\ regular /\ incidentes = 0
<1>1. incidentes \in Nat BY CampaniasAssumption DEF TipoInv, CuposBien
<1> QED BY <1>1 DEF Llegar

LEMMA IncidenteEnSerie ==
  ASSUME TipoInv, Incidente
  PROVE  incidentes' # 0
<1>1. incidentes \in Nat BY CampaniasAssumption DEF TipoInv, CuposBien
<1> QED BY <1>1 DEF Incidente

\* What it takes for the last activation to stay.
LEMMA UltimaIgual ==
  ASSUME NEW c, DOMAIN activacion' = DOMAIN activacion,
         \A a \in DOMAIN activacion : activacion'[a].campania = activacion[a].campania
  PROVE  ActivacionesDe(c)' = ActivacionesDe(c) /\ UltimaActivacion(c)' = UltimaActivacion(c)
<1>1. ActivacionesDe(c)' = ActivacionesDe(c) BY DEF ActivacionesDe
<1> QED BY <1>1 DEF UltimaActivacion

LEMMA DocumentoQuieto ==
  ASSUME TipoInv, NEW d \in Envios, DocumentoSerio(d), \A h \in Hilos : ~Guarda(h, d),
         documento'[d] # SinDocumento => documento[d] # SinDocumento,
         documento[d] # SinDocumento =>
           /\ documento'[d].campania = documento[d].campania
           /\ documento'[d].activacion = documento[d].activacion
           /\ campania'[documento[d].campania] = campania[documento[d].campania]
           /\ UltimaActivacion(documento[d].campania)' = UltimaActivacion(documento[d].campania),
         Notificado(d) => Notificado(d)',
         \A x \in Envios : documento'[x].campania = documento[d].campania /\ ~Notificado(x)' =>
           documento[x].campania = documento[d].campania /\ ~Notificado(x)
  PROVE  DocumentoSerio(d)'
<1> SUFFICES ASSUME documento'[d] # SinDocumento PROVE DocumentoSerio(d)'
  BY DEF DocumentoSerio
<1> DEFINE c == documento[d].campania
<1>1. /\ Existe(c) /\ campania[c] \notin Removibles
      /\ ~Notificado(d) =>
             /\ documento[d].activacion = UltimaActivacion(c) /\ campania[c] = "PENDIENTE"
             /\ \A x \in Envios : documento[x].campania = c /\ ~Notificado(x) => x = d
  BY DEF DocumentoSerio
<1>2. campania'[c] = campania[c] /\ UltimaActivacion(c)' = UltimaActivacion(c)
      /\ documento'[d].campania = c /\ documento'[d].activacion = documento[d].activacion
  OBVIOUS
<1>3. \A x \in Envios : documento'[x].campania = c /\ ~Notificado(x)' =>
        documento[x].campania = c /\ ~Notificado(x)
  OBVIOUS
<1>5. Existe(c)' BY <1>1, <1>2 DEF Existe
<1>6. UltimaActivacion(documento[d].campania)' = UltimaActivacion(c)
  BY <1>2 DEF UltimaActivacion, ActivacionesDe
<1> HIDE DEF c
<1> QED BY <1>1, <1>2, <1>3, <1>5, <1>6 DEF DocumentoSerio, Existe

LEMMA CampaniaQuieta ==
  ASSUME TipoInv, NEW c \in Campanias, CampaniaSeria(c), SinAvisos, UNCHANGED aviso,
         \A d \in Envios : documento[d].campania = c =>
           /\ documento'[d].campania = c /\ documento'[d].accion = documento[d].accion
           /\ documento'[d].activacion = documento[d].activacion,
         campania'[c] = campania[c], UltimaActivacion(c)' = UltimaActivacion(c),
         campania[c] = "APROBADA" /\ activacion[UltimaActivacion(c)].aprobada =>
           activacion'[UltimaActivacion(c)].aprobada
  PROVE  CampaniaSeria(c)'
<1>1. \A e \in Avisos : aviso[e].status = "no" BY DEF SinAvisos, EnCurso
<1>2. \A d \in Envios : Notificado(d)' <=> Notificado(d) BY DEF Notificado
<1>3. ASSUME campania[c] = "PENDIENTE"
      PROVE  \E d \in Envios : documento'[d].campania = c /\ ~Notificado(d)'
  <2>1. PICK d \in Envios : documento[d].campania = c /\ ~Notificado(d)
    BY <1>1, <1>3 DEF CampaniaSeria
  <2> QED BY <1>2, <2>1
<1>4. ASSUME campania[c] = "APROBADA"
      PROVE  /\ \E d \in Envios : /\ documento'[d].campania = c /\ Notificado(d)'
                                  /\ documento'[d].accion = "APPROVE"
                                  /\ documento'[d].activacion = UltimaActivacion(c)
             /\ activacion'[UltimaActivacion(c)].aprobada
  <2>1. /\ \E d \in Envios : /\ documento[d].campania = c /\ Notificado(d)
                            /\ documento[d].accion = "APPROVE"
                            /\ documento[d].activacion = UltimaActivacion(c)
        /\ activacion[UltimaActivacion(c)].aprobada
    BY <1>1, <1>4 DEF CampaniaSeria
  <2> QED BY <1>2, <1>4, <2>1
<1> QED BY <1>3, <1>4 DEF CampaniaSeria

\* What is of a campaign is there.
LEMMA DocumentoDe ==
  ASSUME TipoInv, NEW c \in Campanias, NEW d \in Envios, documento[d].campania = c
  PROVE  documento[d] # SinDocumento /\ documento[d].activacion \in 1..Len(activacion)
<1>1. documento[d] # SinDocumento BY CampaniasAssumption DEF SinDocumento
<1> QED BY <1>1 DEF TipoInv, DocumentosBien, DocumentoBien

\* A request in progress is the only thing that is.
LEMMA SoloAtender ==
  ASSUME TipoInv, EnSerie, NEW h \in Hilos, Atender(h)
  PROVE  /\ SinAvisos /\ SinCobros /\ Solo'
         /\ \A g \in Hilos : g # h => peticion[g] = SinPeticion /\ peticion'[g] = SinPeticion
         /\ \A e \in Avisos : aviso[e].status = "no"
         /\ UNCHANGED <<aviso, cobro, incidentes>>
         /\ \A d \in Envios : Notificado(d)' <=> Notificado(d)
         /\ PeticionSeria(peticion[h]) /\ EnSuSitio(peticion[h], Len(activacion))
         /\ DOMAIN peticion[h] = Campos /\ DOMAIN peticion = Hilos
         /\ PeticionBien(peticion[h], Len(activacion), Len(partida))
<1>1. /\ \A g \in Hilos : g # h => peticion'[g] = peticion[g]
      /\ peticion[h].en # "libre" /\ UNCHANGED <<aviso, cobro, incidentes>>
  BY SigueAtender
<1>2. SinAvisos /\ SinCobros /\ \A g \in Hilos : g # h => peticion[g].en = "libre"
  BY <1>1 DEF EnSerie, Solo
<1>3. \A g \in Hilos : g # h => peticion[g] = SinPeticion BY <1>2, LibreEs
<1>4. SinAvisos' /\ SinCobros' BY <1>1, <1>2 DEF SinAvisos, SinCobros, EnCurso, Cobrando
<1>5. Solo' BY <1>1, <1>2, <1>4 DEF Solo, SinAvisos, SinCobros
<1>6. \A d \in Envios : Notificado(d)' <=> Notificado(d) BY <1>1 DEF Notificado
<1>7. \A e \in Avisos : aviso[e].status = "no" BY <1>2 DEF SinAvisos, EnCurso
<1> QED BY <1>1, <1>2, <1>3, <1>5, <1>6, <1>7, PeticionTipo DEF EnSerie

LEMMA SerieDePeticion ==
  ASSUME TipoInv, EnSerie, NEW h \in Hilos, Atender(h),
         \A d \in Envios : DocumentoSerio(d)', \A c \in Campanias : CampaniaSeria(c)',
         PeticionSeria(peticion[h])', \A p \in DOMAIN partida' : partida'[p].existe
  PROVE  EnSerie'
<1>1. /\ SinCobros /\ Solo' /\ \A e \in Avisos : aviso[e].status = "no"
      /\ \A g \in Hilos : g # h => peticion'[g] = SinPeticion
      /\ UNCHANGED <<aviso, cobro>>
  BY SoloAtender
<1>2. ASSUME NEW e \in Avisos PROVE AvisoSerio(e)'
  <2>1. aviso[e].recibido => e[2] = 1 BY DEF EnSerie, AvisoSerio
  <2> QED BY <1>1, <2>1 DEF AvisoSerio
<1>3. ASSUME NEW k \in Cobros PROVE CobroSerio(k)'
  BY <1>1 DEF CobroSerio, SinCobros, Cobrando
<1>4. ASSUME NEW g \in Hilos PROVE PeticionSeria(peticion[g])'
  <2>1. CASE g = h BY <2>1
  <2>2. CASE g # h
    BY <1>1, <2>2, SinNada DEF PeticionSeria, CreacionSeria, FirmaSeria, CierreSerio,
                               ActualizacionSeria, RenovacionSeria
  <2> QED BY <2>1, <2>2
<1> QED BY <1>1, <1>2, <1>3, <1>4 DEF EnSerie

\* The documents and the campaigns, when a query leaves their rows as they are.
LEMMA FilasSerias ==
  ASSUME TipoInv, EnSerie, NEW h \in Hilos, Atender(h), peticion[h].en # "guardar",
         UNCHANGED <<campania, documento>>, DOMAIN activacion' = DOMAIN activacion,
         \A a \in DOMAIN activacion : /\ activacion'[a].campania = activacion[a].campania
                                      /\ activacion'[a].aprobada = activacion[a].aprobada
  PROVE  (\A d \in Envios : DocumentoSerio(d)') /\ (\A c \in Campanias : CampaniaSeria(c)')
<1>1. /\ SinAvisos /\ UNCHANGED aviso
      /\ \A g \in Hilos : g # h => peticion[g] = SinPeticion
      /\ \A d \in Envios : Notificado(d)' <=> Notificado(d)
  BY SoloAtender
<1>2. \A c : UltimaActivacion(c)' = UltimaActivacion(c) BY UltimaIgual
<1>3. \A d \in Envios : \A g \in Hilos : ~Guarda(g, d) BY <1>1, SinNada DEF Guarda
<1>4. ASSUME NEW d \in Envios PROVE DocumentoSerio(d)'
  <2>1. DocumentoSerio(d) BY DEF EnSerie
  <2> QED BY <1>1, <1>2, <1>3, <2>1, DocumentoQuieto
<1>5. ASSUME NEW c \in Campanias PROVE CampaniaSeria(c)'
  <2>1. CampaniaSeria(c) BY DEF EnSerie
  <2>2. ASSUME campania[c] = "APROBADA", activacion[UltimaActivacion(c)].aprobada
        PROVE  activacion'[UltimaActivacion(c)].aprobada
    <3>1. PICK d \in Envios : /\ documento[d].campania = c
                              /\ documento[d].activacion = UltimaActivacion(c)
      BY <2>1, <2>2 DEF CampaniaSeria
    <3>2. documento[d] # SinDocumento BY <3>1, DocumentoDe
    <3>3. documento[d].activacion \in 1..Len(activacion)
      BY <3>2 DEF TipoInv, DocumentosBien, DocumentoBien
    <3>4. UltimaActivacion(c) \in DOMAIN activacion BY <3>1, <3>3, Longitudes DEF TipoInv
    <3> QED BY <2>2, <3>4
  <2> QED BY <1>1, <1>2, <2>1, <2>2, CampaniaQuieta
<1> QED BY <1>4, <1>5


\* The queries around which a request relies on what it read.
EnVilo == {"guardarNueva", "partida", "numerar", "guardarActivacion", "borrar", "ultima",
           "documento", "guardar", "otraVez", "activaciones"}

LEMMA SeriaFuera ==
  ASSUME NEW h \in Hilos, peticion'[h].op \notin {"activar", "desactivar"},
         peticion'[h].en \notin EnVilo
  PROVE  PeticionSeria(peticion[h])'
BY DEF EnVilo, PeticionSeria, CreacionSeria, FirmaSeria, CierreSerio, ActualizacionSeria,
       RenovacionSeria

LEMMA SeriaSinNada ==
  ASSUME NEW h \in Hilos, peticion'[h] = SinPeticion
  PROVE  PeticionSeria(peticion[h])'
BY SinNada, SeriaFuera DEF EnVilo

\* The request, after a query that reads, or writes other rows than its own.
LEMMA LecturaSeria ==
  ASSUME TipoInv, EnSerie, NEW h \in Hilos, Atender(h),
         UNCHANGED <<campania, activacion, documento>>
  PROVE  PeticionSeria(peticion[h])' \/ GuardarNueva(h) \/ ApagarActivaciones(h)
         \/ GuardarActivacion(h) \/ BorrarCampania(h) \/ GuardarDocumento(h)
         \/ GuardarCampania(h) \/ BajaActivacion(h)
<1> DEFINE q == peticion[h]
<1>0. /\ PeticionSeria(q) /\ EnSuSitio(q, Len(activacion))
      /\ DOMAIN q = Campos /\ DOMAIN peticion = Hilos
  BY SoloAtender
<1>1. CASE GuardarPartida(h)
  <2> DEFINE n == Len(partida')
             en == IF q.op = "renovar" THEN "activaciones" ELSE "numerar"
  <2>1. peticion' = [peticion EXCEPT ![h].partida = n, ![h].en = en] /\ q.en = "partida"
    BY <1>1 DEF GuardarPartida
  <2> HIDE DEF n
  <2>2. /\ peticion'[h].op = q.op /\ peticion'[h].en = en /\ peticion'[h].campania = q.campania
        /\ peticion'[h].fila = q.fila
    BY <1>0, <2>1 DEF Campos
  <2>3. q.op \in {"crear", "renovar"}
    BY <1>0, <2>1 DEF EnSuSitio, CreaActivacion, PeticionSeria
  <2>5. CASE q.op = "crear"
    BY <1>0, <2>1, <2>2, <2>5 DEF PeticionSeria, CreacionSeria, FirmaSeria, CierreSerio,
                                  ActualizacionSeria, RenovacionSeria
  <2>6. CASE q.op = "renovar"
    BY <1>0, <2>1, <2>2, <2>6 DEF PeticionSeria, CreacionSeria, FirmaSeria, CierreSerio,
                                  ActualizacionSeria, RenovacionSeria, Renglones, ActivacionesDe
  <2> QED BY <2>3, <2>5, <2>6
<1>2. CASE Numerar(h)
  <2>1. q.en = "numerar" /\ q.op \in {"crear", "renovar"}
    BY <1>0, <1>2 DEF Numerar, EnSuSitio, CreaActivacion, PeticionSeria
  <2>2. CASE Rechazar(h)
    <3>1. CASE peticion' = [peticion EXCEPT ![h] = SinPeticion]
      BY <1>0, <3>1, SeriaSinNada
    <3>2. CASE peticion' = [peticion EXCEPT ![h].en = "limpiar"]
      <4>1. peticion'[h].op = q.op /\ peticion'[h].en = "limpiar" BY <1>0, <3>2 DEF Campos
      <4> QED BY <2>1, <4>1, SeriaFuera DEF EnVilo
    <3> QED BY <2>2, <3>1, <3>2 DEF Rechazar, Responder, Seguir
  <2>3. CASE ~Rechazar(h)
    <3>1. PICK v : peticion' = [peticion EXCEPT ![h].en = "guardarActivacion", ![h].leido = v]
      BY <1>2, <2>3 DEF Numerar
    <3>2. /\ peticion'[h].op = q.op /\ peticion'[h].en = "guardarActivacion"
          /\ peticion'[h].campania = q.campania /\ peticion'[h].fila = q.fila
      BY <1>0, <3>1 DEF Campos
    <3> QED BY <1>0, <2>1, <3>2 DEF PeticionSeria, CreacionSeria, FirmaSeria, CierreSerio,
                                    ActualizacionSeria, RenovacionSeria
  <2> QED BY <2>2, <2>3
<1>3. CASE LeerPorLimpiar(h)
  <2>1. q.en = "limpiar" /\ q.op = "crear" BY <1>0, <1>3 DEF LeerPorLimpiar, EnSuSitio
  <2>2. CASE Responder(h) BY <1>0, <2>2, SeriaSinNada DEF Responder
  <2>3. ASSUME NEW c \in Campanias, Removible(c),
               peticion' = [peticion EXCEPT ![h].en = "borrar", ![h].campania = c]
        PROVE  PeticionSeria(peticion[h])'
    <3>1. /\ peticion'[h].op = q.op /\ peticion'[h].en = "borrar" /\ peticion'[h].campania = c
      BY <1>0, <2>3 DEF Campos
    <3> QED BY <2>1, <2>3, <3>1 DEF PeticionSeria, CreacionSeria, FirmaSeria, CierreSerio,
                                    ActualizacionSeria, RenovacionSeria, Removible
  <2> QED BY <1>3, <2>2, <2>3 DEF LeerPorLimpiar
<1>4. CASE LeerUltima(h)
  <2> DEFINE u == UltimaActivacion(q.campania)
  <2>1. q.en = "ultima" /\ q.op = "firmar" BY <1>0, <1>4 DEF LeerUltima, EnSuSitio
  <2>2. CASE Responder(h) BY <1>0, <2>2, SeriaSinNada DEF Responder
  <2>3. CASE peticion' = [peticion EXCEPT ![h].en = "documento", ![h].activacion = u]
    <3> HIDE DEF u
    <3>1. /\ peticion'[h].op = q.op /\ peticion'[h].en = "documento" /\ peticion'[h].activacion = u
          /\ peticion'[h].campania = q.campania /\ peticion'[h].fila = q.fila
      BY <1>0, <2>3 DEF Campos
    <3>2. UltimaActivacion(peticion[h].campania)' = u
      BY <3>1 DEF u, UltimaActivacion, ActivacionesDe
    <3> QED BY <1>0, <2>1, <3>1, <3>2 DEF PeticionSeria, CreacionSeria, FirmaSeria, CierreSerio,
                                          ActualizacionSeria, RenovacionSeria
  <2> QED BY <1>4, <2>2, <2>3 DEF LeerUltima
<1>5. CASE LeerActivacion(h)
  <2>1. q.en = "desactivar" /\ q.op \notin {"activar", "desactivar"}
    BY <1>0, <1>5 DEF LeerActivacion, PeticionSeria
  <2>2. peticion'[h] = SinPeticion \/ (peticion'[h].en = "baja" /\ peticion'[h].op = q.op)
    BY <1>0, <1>5 DEF LeerActivacion, Responder, Campos
  <2> QED BY <2>1, <2>2, SeriaSinNada, SeriaFuera DEF EnVilo
<1>6. CASE BajaPartida(h)
  <2>2. peticion'[h] = SinPeticion \/ (peticion'[h].en = "buscar" /\ peticion'[h].op = q.op)
    BY <1>0, <1>6 DEF BajaPartida, Responder, Seguir, Campos
  <2> QED BY <1>0, <2>2, SeriaSinNada, SeriaFuera DEF EnVilo, PeticionSeria
<1>7. CASE BuscarPendientes(h)
  <2>2. peticion'[h].en = "maestro" /\ peticion'[h].op = q.op
    BY <1>0, <1>7 DEF BuscarPendientes, Campos
  <2> QED BY <1>0, <2>2, SeriaFuera DEF EnVilo, PeticionSeria
<1>8. CASE LeerMaestroDeOrden(h)
  <2>1. CASE Responder(h) BY <1>0, <2>1, SeriaSinNada DEF Responder
  <2>2. CASE ~Responder(h)
    <3>1. PICK x : peticion' = [peticion EXCEPT ![h].en = Devolver(CargosDevueltos(x[2])),
                     ![h].ordenes = @ \ {x}, ![h].orden = x[1],
                     ![h].cargos = CargosDevueltos(x[2]),
                     ![h].leido = fondo[Maestro]["committedAmount"]]
      BY <1>8, <2>2 DEF LeerMaestroDeOrden
    <3>2. peticion'[h].op = q.op /\ peticion'[h].en = Devolver(CargosDevueltos(x[2]))
      BY <1>0, <3>1 DEF Campos
    <3> QED BY <1>0, <3>2, SeriaFuera DEF EnVilo, PeticionSeria, Devolver
  <2> QED BY <2>1, <2>2
<1>9. CASE LeerModificatorioDeOrden(h)
  <2>2. peticion'[h].en = "devolver" /\ peticion'[h].op = q.op
    BY <1>0, <1>9 DEF LeerModificatorioDeOrden, Campos
  <2> QED BY <1>0, <2>2, SeriaFuera DEF EnVilo, PeticionSeria
<1>10. CASE DevolverCargo(h)
  <2>2. peticion'[h].en \in {"borrarOrden", "devolver", "modificatorio"} /\ peticion'[h].op = q.op
    BY <1>0, <1>10 DEF DevolverCargo, Devolver, Campos
  <2> QED BY <1>0, <2>2, SeriaFuera DEF EnVilo, PeticionSeria
<1>11. CASE BorrarOrden(h)
  <2>2. peticion'[h].en = "maestro" /\ peticion'[h].op = q.op
    BY <1>0, <1>11 DEF BorrarOrden, Seguir, Campos
  <2> QED BY <1>0, <2>2, SeriaFuera DEF EnVilo, PeticionSeria
<1>12. CASE LeerParaOrden(h)
  <2>2. peticion'[h] = SinPeticion \/ (peticion'[h].en = "fondos" /\ peticion'[h].op = q.op)
    BY <1>0, <1>12 DEF LeerParaOrden, Responder, Campos
  <2> QED BY <1>0, <2>2, SeriaSinNada, SeriaFuera DEF EnVilo, PeticionSeria
<1>13. CASE LeerFondos(h)
  <2>2. peticion'[h] = SinPeticion \/ (peticion'[h].en = "comprometer" /\ peticion'[h].op = q.op)
    BY <1>0, <1>13 DEF LeerFondos, Responder, Campos
  <2> QED BY <1>0, <2>2, SeriaSinNada, SeriaFuera DEF EnVilo, PeticionSeria
<1>14. CASE EscribirReserva(h)
  <2>2. peticion'[h].en \in {"guardarOrden", "comprometer"} /\ peticion'[h].op = q.op
    BY <1>0, <1>14 DEF EscribirReserva, Campos
  <2> QED BY <1>0, <2>2, SeriaFuera DEF EnVilo, PeticionSeria
<1>15. CASE GuardarOrden(h) BY <1>0, <1>15, SeriaSinNada DEF GuardarOrden, Responder
<1>16. CASE LeerCampania(h)
  <2> DEFINE c == q.campania
             op == q.op
             con == op \in {"renovar", "actualizar"}
             st == StatusGuardado(op, campania[c])
             f == [LeerFila(c, con) EXCEPT !.status = StatusGuardado(op, @)]
  <2>1. q.en = "leer" /\ op \in {"actualizar", "quitar", "renovar", "cerrar", "firmar"}
        /\ c \in Campanias
    BY <1>0, <1>16 DEF LeerCampania, EnSuSitio, DeBaja
  <2>2. CASE Responder(h) BY <1>0, <2>2, SeriaSinNada DEF Responder
  <2>3. CASE Admite(op, c, q.accion)
             /\ peticion' = [peticion EXCEPT ![h].en = TrasLeerFila[op], ![h].fila = f]
    <3>1. f.status = st /\ f.conActivaciones = con
          /\ f.activaciones = [a \in IF con THEN ActivacionesDe(c) ELSE {} |-> activacion[a]]
      BY DEF LeerFila
    <3> HIDE DEF f
    <3>2. peticion'[h].op = op /\ peticion'[h].campania = c /\ peticion'[h].fila = f
          /\ peticion'[h].en = TrasLeerFila[op]
      BY <1>0, <2>3 DEF Campos
    <3>3. CASE op = "quitar"
      BY <2>3, <3>2, <3>3 DEF TrasLeerFila, Admite, Removible, PeticionSeria, CreacionSeria,
                              FirmaSeria, CierreSerio, ActualizacionSeria, RenovacionSeria
    <3>4. CASE op = "cerrar"
      <4>1. TrasLeerFila[op] = "guardar" /\ campania[c] \in Cerrables /\ st = "INACTIVA" /\ ~con
        BY <2>3, <3>4 DEF TrasLeerFila, Admite, StatusGuardado
      <4> QED BY <3>1, <3>2, <3>4, <4>1
              DEF PeticionSeria, CreacionSeria, FirmaSeria, CierreSerio, ActualizacionSeria,
                  RenovacionSeria
    <3>5. CASE op = "firmar"
      <4>1. TrasLeerFila[op] = "ultima" /\ st = "PENDIENTE" /\ ~con
        BY <2>3, <3>5 DEF TrasLeerFila, StatusGuardado
      <4>2. campania[c] \in Editables \cup {"APROBADA"} BY <2>3, <3>5 DEF Admite
      <4> QED BY <3>1, <3>2, <3>5, <4>1, <4>2
              DEF PeticionSeria, CreacionSeria, FirmaSeria, CierreSerio, ActualizacionSeria,
                  RenovacionSeria
    <3>6. CASE op = "actualizar"
      <4>1. TrasLeerFila[op] = "guardar" /\ campania[c] \in Editables /\ st = campania[c] /\ con
        BY <2>3, <3>6 DEF TrasLeerFila, Admite, StatusGuardado
      <4>2. f.activaciones = Renglones(c) BY <3>1, <4>1 DEF Renglones
      <4>3. Renglones(peticion[h].campania)' = Renglones(c)
        BY <3>2 DEF Renglones, ActivacionesDe
      <4> QED BY <3>1, <3>2, <3>6, <4>1, <4>2, <4>3
              DEF PeticionSeria, CreacionSeria, FirmaSeria, CierreSerio, ActualizacionSeria,
                  RenovacionSeria
    <3>7. CASE op = "renovar"
      <4>1. TrasLeerFila[op] = "partida" /\ campania[c] \in Renovables /\ con
        BY <2>3, <3>7 DEF TrasLeerFila, Admite
      <4>2. f.activaciones = Renglones(c) BY <3>1, <4>1 DEF Renglones
      <4>3. Renglones(peticion[h].campania)' = Renglones(c)
        BY <3>2 DEF Renglones, ActivacionesDe
      <4> QED BY <3>1, <3>2, <3>7, <4>1, <4>2, <4>3
              DEF PeticionSeria, CreacionSeria, FirmaSeria, CierreSerio, ActualizacionSeria,
                  RenovacionSeria
    <3> QED BY <2>1, <3>3, <3>4, <3>5, <3>6, <3>7
  <2> QED BY <1>16, <2>2, <2>3 DEF LeerCampania
<1> QED BY <1>1, <1>2, <1>3, <1>4, <1>5, <1>6, <1>7, <1>8, <1>9, <1>10, <1>11, <1>12, <1>13,
           <1>14, <1>15, <1>16 DEF Atender

LEMMA AprobadaTiene ==
  ASSUME TipoInv, NEW c \in Campanias, CampaniaSeria(c), campania[c] = "APROBADA"
  PROVE  UltimaActivacion(c) \in ActivacionesDe(c) /\ UltimaActivacion(c) \in DOMAIN activacion
<1>1. PICK d \in Envios : documento[d].campania = c /\ documento[d].activacion = UltimaActivacion(c)
  BY DEF CampaniaSeria
<1>2. UltimaActivacion(c) \in 1..Len(activacion) BY <1>1, DocumentoDe
<1>3. Len(activacion) \in Nat /\ DOMAIN activacion = 1..Len(activacion)
  BY Longitudes DEF TipoInv
<1>4. UltimaActivacion(c) # 0 BY <1>2, <1>3
<1> QED BY <1>2, <1>3, <1>4, UltimaEs DEF TipoInv

\* The documents and the campaigns, when a query writes the rows of one of
\* them that is not waiting for signatures.
LEMMA FilasDe ==
  ASSUME TipoInv, EnSerie, NEW h \in Hilos, Atender(h), NEW c \in Campanias,
         peticion[h].en # "guardar" \/ peticion[h].op # "firmar",
         UNCHANGED documento, \A x \in Campanias : x # c => campania'[x] = campania[x],
         DOMAIN activacion \subseteq DOMAIN activacion',
         \A a \in DOMAIN activacion : activacion[a].campania # c => activacion'[a] = activacion[a],
         \A a \in DOMAIN activacion' :
           \/ activacion'[a].campania \in {c, "-"}
           \/ a \in DOMAIN activacion /\ activacion'[a] = activacion[a],
         campania[c] # "PENDIENTE", campania'[c] \notin {"PENDIENTE", "APROBADA"},
         Existe(c) /\ campania[c] \notin Removibles =>
           campania'[c] \in CAMPAIGN_STATUS /\ campania'[c] \notin Removibles
  PROVE  (\A d \in Envios : DocumentoSerio(d)') /\ (\A x \in Campanias : CampaniaSeria(x)')
<1>1. /\ SinAvisos /\ UNCHANGED aviso
      /\ \A g \in Hilos : g # h => peticion[g] = SinPeticion
      /\ \A d \in Envios : Notificado(d)' <=> Notificado(d)
  BY SoloAtender
<1>2. \A d \in Envios : \A g \in Hilos : ~Guarda(g, d) BY <1>1, SinNada DEF Guarda
<1>3. ASSUME NEW x \in Campanias, x # c
      PROVE  /\ ActivacionesDe(x)' = ActivacionesDe(x)
             /\ UltimaActivacion(x)' = UltimaActivacion(x)
             /\ \A a \in ActivacionesDe(x) : activacion'[a] = activacion[a]
  <2>1. x # "-" BY CampaniasAssumption
  <2>2. \A a \in ActivacionesDe(x) : activacion'[a] = activacion[a] /\ a \in DOMAIN activacion'
    BY <1>3 DEF ActivacionesDe
  <2>3. ActivacionesDe(x)' = ActivacionesDe(x) BY <1>3, <2>1, <2>2 DEF ActivacionesDe
  <2> QED BY <2>2, <2>3 DEF UltimaActivacion
<1>4. ASSUME NEW d \in Envios PROVE DocumentoSerio(d)'
  <2>1. DocumentoSerio(d) BY DEF EnSerie
  <2>2. CASE documento[d] = SinDocumento BY <2>2 DEF DocumentoSerio
  <2>3. CASE documento[d] # SinDocumento /\ documento[d].campania # c
    <3>1. documento[d].campania \in Campanias
      BY <2>3 DEF TipoInv, DocumentosBien, DocumentoBien
    <3>2. UltimaActivacion(documento[d].campania)' = UltimaActivacion(documento[d].campania)
      BY <1>3, <2>3, <3>1
    <3> QED BY <1>1, <1>2, <2>1, <2>3, <3>1, <3>2, DocumentoQuieto
  <2>4. CASE documento[d] # SinDocumento /\ documento[d].campania = c
    <3>1. Existe(c) /\ campania[c] \notin Removibles /\ Notificado(d)
      BY <1>2, <2>1, <2>4 DEF DocumentoSerio
    <3>2. Existe(c)' /\ campania'[c] \notin Removibles /\ Notificado(d)' /\ documento'[d].campania = c
      BY <1>1, <2>4, <3>1 DEF Existe
    <3> QED BY <3>2 DEF DocumentoSerio, Existe
  <2> QED BY <2>2, <2>3, <2>4
<1>5. ASSUME NEW x \in Campanias PROVE CampaniaSeria(x)'
  <2>1. CampaniaSeria(x) BY DEF EnSerie
  <2>2. CASE x = c BY <2>2 DEF CampaniaSeria
  <2>3. CASE x # c
    <3>1. UltimaActivacion(x)' = UltimaActivacion(x) /\ campania'[x] = campania[x]
      BY <1>3, <2>3
    <3>2. ASSUME campania[x] = "APROBADA", activacion[UltimaActivacion(x)].aprobada
          PROVE  activacion'[UltimaActivacion(x)].aprobada
      BY <1>3, <2>1, <2>3, <3>2, AprobadaTiene
    <3> QED BY <1>1, <2>1, <3>1, <3>2, CampaniaQuieta
  <2> QED BY <2>2, <2>3
<1> QED BY <1>4, <1>5

\* save of a campaign that was read with all its activations, or with none.
LEMMA ConFilaIgual ==
  ASSUME TipoInv, NEW c, NEW fila,
         \/ ~fila.conActivaciones /\ DOMAIN fila.activaciones = {}
         \/ fila.conActivaciones /\ fila.activaciones = Renglones(c)
  PROVE  ConFila(c, fila) = activacion
<1>1. DOMAIN activacion = 1..Len(activacion) /\ activacion = [a \in DOMAIN activacion |-> activacion[a]]
  BY Longitudes DEF TipoInv, ActivacionesBien
<1>2. ASSUME NEW a \in DOMAIN activacion
      PROVE  ConFila(c, fila)[a] = activacion[a]
  <2>1. CASE ~fila.conActivaciones /\ DOMAIN fila.activaciones = {}
    BY <2>1 DEF ConFila, ConActivaciones
  <2>2. CASE fila.conActivaciones /\ fila.activaciones = Renglones(c)
    BY <2>2 DEF ConFila, ConActivaciones, Renglones, ActivacionesDe
  <2> QED BY <2>1, <2>2
<1>3. DOMAIN ConFila(c, fila) = DOMAIN activacion
      /\ ConFila(c, fila) = [a \in DOMAIN activacion |-> ConFila(c, fila)[a]]
  BY DEF ConFila
<1> QED BY <1>1, <1>2, <1>3

\* The activation that is appended.
LEMMA AgregadaEs ==
  ASSUME TipoInv, NEW una, activacion' = Append(activacion, una)
  PROVE  /\ DOMAIN activacion' = 1..(Len(activacion) + 1)
         /\ DOMAIN activacion \subseteq DOMAIN activacion'
         /\ DOMAIN activacion' = DOMAIN activacion \cup {Len(activacion) + 1}
         /\ activacion'[Len(activacion) + 1] = una
         /\ \A a \in DOMAIN activacion : activacion'[a] = activacion[a]
         /\ Len(activacion) + 1 \notin DOMAIN activacion
<1>1. activacion \in Seq(Activacion) /\ Len(activacion) \in Nat /\ DOMAIN activacion = 1..Len(activacion)
  BY Longitudes DEF TipoInv, ActivacionesBien
<1> DEFINE T == Activacion \cup {una}
<1>2. activacion \in Seq(T) /\ una \in T BY <1>1
<1> HIDE DEF T
<1>3. /\ DOMAIN activacion' = 1..(Len(activacion) + 1)
      /\ \A a \in 1..(Len(activacion) + 1) :
             activacion'[a] = IF a = Len(activacion) + 1 THEN una ELSE activacion[a]
  BY <1>2, AppendProperties
<1> QED BY <1>1, <1>3

\* Matches are not removed.
LEMMA ExistenAtender ==
  ASSUME TipoInv, EnSerie, NEW h \in Hilos, Atender(h)
  PROVE  \A p \in DOMAIN partida' : partida'[p].existe
<1>0. (\A p \in DOMAIN partida : partida[p].existe) /\ partida \in Seq(Partida)
  BY DEF EnSerie, TipoInv, PartidasBien
<1>1. CASE UNCHANGED partida BY <1>0, <1>1
<1>2. CASE GuardarPartida(h)
  <2>1. partida' = Append(partida, NuevaPartida) BY <1>2 DEF GuardarPartida
  <2>2. NuevaPartida \in Partida /\ NuevaPartida.existe
    BY DEF NuevaPartida, Partida, Cero, Montos
  <2>3. DOMAIN partida' = 1..(Len(partida) + 1) /\ Len(partida) \in Nat
        /\ DOMAIN partida = 1..Len(partida)
        /\ \A p \in 1..(Len(partida) + 1) :
             partida'[p] = IF p = Len(partida) + 1 THEN NuevaPartida ELSE partida[p]
    BY <1>0, <2>1, <2>2, AppendProperties
  <2> SUFFICES ASSUME NEW p \in DOMAIN partida' PROVE partida'[p].existe OBVIOUS
  <2>4. CASE p = Len(partida) + 1 BY <2>2, <2>3, <2>4
  <2>5. CASE p # Len(partida) + 1
    <3>1. p \in DOMAIN partida /\ partida'[p] = partida[p] BY <2>3, <2>5
    <3> QED BY <1>0, <3>1
  <2> QED BY <2>4, <2>5
<1>3. CASE BajaPartida(h)
  <2>1. partida' = partida \/ partida' = [partida EXCEPT ![peticion[h].partida].estatus = FALSE]
    BY <1>3 DEF BajaPartida
  <2>2. \A p \in DOMAIN partida : DOMAIN partida[p] = {"existe", "estatus", "montos"}
    <3>1. \A p \in DOMAIN partida : partida[p] \in Partida BY <1>0
    <3> QED BY <3>1 DEF Partida
  <2> QED BY <1>0, <2>1, <2>2
<1> QED BY <1>1, <1>2, <1>3, EscribeAtender

LEMMA SerieGuardarNueva ==
  ASSUME TipoInv, EnSerie, NEW h \in Hilos, GuardarNueva(h)
  PROVE  EnSerie'
<1> DEFINE q == peticion[h]
           c == q.campania
<1>0. Atender(h) BY DEF Atender
<1>1. q.en = "guardarNueva" /\ campania' = [campania EXCEPT ![c] = "CREADA"]
      /\ UNCHANGED <<activacion, documento>> /\ peticion' = [peticion EXCEPT ![h].en = "partida"]
  BY DEF GuardarNueva, Seguir
<1>2. PeticionSeria(q) /\ EnSuSitio(q, Len(activacion)) /\ DOMAIN q = Campos /\ DOMAIN peticion = Hilos
  BY <1>0, SoloAtender
<1>3. c \in Campanias /\ q.op = "crear" /\ campania[c] = "NO_EXISTE"
  BY <1>1, <1>2 DEF EnSuSitio, DeBaja, PeticionSeria, CreacionSeria
<1>4. campania'[c] = "CREADA" /\ \A x \in Campanias : x # c => campania'[x] = campania[x]
  BY <1>1, <1>3 DEF TipoInv, CampaniasBien
<1>5. ~Existe(c) BY <1>3 DEF Existe, CAMPAIGN_STATUS
<1>6. (\A d \in Envios : DocumentoSerio(d)') /\ (\A x \in Campanias : CampaniaSeria(x)')
  BY <1>0, <1>1, <1>3, <1>4, <1>5, FilasDe
<1>7. /\ peticion'[h].op = "crear" /\ peticion'[h].en = "partida" /\ peticion'[h].campania = c
  BY <1>1, <1>2, <1>3 DEF Campos
<1>8. PeticionSeria(peticion[h])'
  BY <1>4, <1>7 DEF PeticionSeria, CreacionSeria, FirmaSeria, CierreSerio, ActualizacionSeria,
                    RenovacionSeria
<1> QED BY <1>0, <1>6, <1>8, ExistenAtender, SerieDePeticion

\* A request that fails before it inserts its activation.
LEMMA RechazoSerio ==
  ASSUME TipoInv, EnSerie, NEW h \in Hilos, Atender(h), Rechazar(h)
  PROVE  PeticionSeria(peticion[h])'
<1>0. PeticionSeria(peticion[h]) /\ DOMAIN peticion[h] = Campos /\ DOMAIN peticion = Hilos
  BY SoloAtender
<1>1. CASE peticion' = [peticion EXCEPT ![h] = SinPeticion] BY <1>0, <1>1, SeriaSinNada
<1>2. CASE peticion' = [peticion EXCEPT ![h].en = "limpiar"]
  <2>1. peticion'[h].op = peticion[h].op /\ peticion'[h].en = "limpiar"
    BY <1>0, <1>2 DEF Campos
  <2> QED BY <1>0, <2>1, SeriaFuera DEF EnVilo, PeticionSeria
<1> QED BY <1>1, <1>2 DEF Rechazar, Responder, Seguir

LEMMA SerieGuardarActivacion ==
  ASSUME TipoInv, EnSerie, NEW h \in Hilos, GuardarActivacion(h)
  PROVE  EnSerie'
<1> DEFINE q == peticion[h]
           c == q.campania
           p == q.partida
           una == [campania |-> c, numero |-> q.leido + 1, partida |-> p, status |-> TRUE,
                   aprobada |-> FALSE]
<1>0. Atender(h) BY DEF Atender
<1>1. q.en = "guardarActivacion" /\ UNCHANGED <<campania, documento>>
  BY DEF GuardarActivacion
<1>2. PeticionSeria(q) /\ EnSuSitio(q, Len(activacion)) /\ DOMAIN q = Campos /\ DOMAIN peticion = Hilos
  BY <1>0, SoloAtender
<1>3. c \in Campanias /\ campania[c] \in {"CREADA", "REACTIVADA"}
  BY <1>1, <1>2 DEF EnSuSitio, DeBaja, PeticionSeria, CreacionSeria, RenovacionSeria, CreaActivacion
<1>4. CASE Existe(c) /\ HayPartida(p)
  <2>1. activacion' = Append(activacion, una) /\ peticion' = [peticion EXCEPT ![h] = SinPeticion]
    BY <1>4 DEF GuardarActivacion, Responder
  <2>2. una.campania = c OBVIOUS
  <2> HIDE DEF una
  <2>3. /\ DOMAIN activacion \subseteq DOMAIN activacion'
        /\ \A a \in DOMAIN activacion : activacion'[a] = activacion[a]
        /\ \A a \in DOMAIN activacion' :
             activacion'[a].campania = c \/ (a \in DOMAIN activacion /\ activacion'[a] = activacion[a])
    BY <2>1, <2>2, AgregadaEs
  <2>4. campania'[c] \in CAMPAIGN_STATUS /\ campania'[c] = campania[c]
    BY <1>1, <1>4 DEF Existe
  <2>5. \A x \in Campanias : x # c => campania'[x] = campania[x] BY <1>1
  <2>6. (\A d \in Envios : DocumentoSerio(d)') /\ (\A x \in Campanias : CampaniaSeria(x)')
    BY <1>0, <1>1, <1>3, <2>3, <2>4, <2>5, FilasDe
  <2>7. PeticionSeria(peticion[h])' BY <1>2, <2>1, SeriaSinNada
  <2> QED BY <1>0, <2>6, <2>7, ExistenAtender, SerieDePeticion
<1>5. CASE ~(Existe(c) /\ HayPartida(p))
  <2>1. Rechazar(h) /\ UNCHANGED activacion BY <1>5 DEF GuardarActivacion
  <2>2. (\A d \in Envios : DocumentoSerio(d)') /\ (\A x \in Campanias : CampaniaSeria(x)')
    BY <1>0, <1>1, <2>1, FilasSerias
  <2> QED BY <1>0, <2>1, <2>2, RechazoSerio, ExistenAtender, SerieDePeticion
<1> QED BY <1>4, <1>5

LEMMA SerieBorrarCampania ==
  ASSUME TipoInv, EnSerie, NEW h \in Hilos, BorrarCampania(h)
  PROVE  EnSerie'
<1> DEFINE q == peticion[h]
           c == q.campania
<1>0. Atender(h) BY DEF Atender
<1>1. q.en = "borrar" /\ UNCHANGED documento /\ peticion' = [peticion EXCEPT ![h] = SinPeticion]
  BY DEF BorrarCampania, Responder
<1>2. PeticionSeria(q) /\ EnSuSitio(q, Len(activacion)) /\ DOMAIN peticion = Hilos
  BY <1>0, SoloAtender
<1>3. c \in Campanias /\ campania[c] \in Removibles
  BY <1>1, <1>2 DEF EnSuSitio, DeBaja, PeticionSeria, CreacionSeria
<1>4. PeticionSeria(peticion[h])' BY <1>1, <1>2, SeriaSinNada
<1>5. CASE UNCHANGED <<campania, activacion>>
  <2>1. (\A d \in Envios : DocumentoSerio(d)') /\ (\A x \in Campanias : CampaniaSeria(x)')
    BY <1>0, <1>1, <1>5, FilasSerias
  <2> QED BY <1>0, <1>4, <2>1, ExistenAtender, SerieDePeticion
<1>6. CASE /\ campania' = [campania EXCEPT ![c] = "BORRADA"]
           /\ activacion' = [a \in DOMAIN activacion |->
                     IF activacion[a].campania = c THEN SinActivacion ELSE activacion[a]]
  <2>1. campania'[c] = "BORRADA" /\ \A x \in Campanias : x # c => campania'[x] = campania[x]
    BY <1>3, <1>6 DEF TipoInv, CampaniasBien
  <2>2. SinActivacion.campania = "-" BY DEF SinActivacion
  <2>3. /\ DOMAIN activacion \subseteq DOMAIN activacion'
        /\ \A a \in DOMAIN activacion : activacion[a].campania # c => activacion'[a] = activacion[a]
        /\ \A a \in DOMAIN activacion' :
             activacion'[a].campania = "-" \/ (a \in DOMAIN activacion /\ activacion'[a] = activacion[a])
    BY <1>6, <2>2
  <2>4. (\A d \in Envios : DocumentoSerio(d)') /\ (\A x \in Campanias : CampaniaSeria(x)')
    <3>1. campania[c] # "PENDIENTE" /\ ~(campania[c] \notin Removibles)
      BY <1>3 DEF Removibles
    <3> QED BY <1>0, <1>1, <1>3, <2>1, <2>3, <3>1, FilasDe
  <2> QED BY <1>0, <1>4, <2>4, ExistenAtender, SerieDePeticion
<1> QED BY <1>5, <1>6 DEF BorrarCampania

\* save of a campaign whose document was just inserted: it waits for signatures.
LEMMA SerieGuardarFirmada ==
  ASSUME TipoInv, EnSerie, NEW h \in Hilos, GuardarCampania(h), peticion[h].op = "firmar"
  PROVE  EnSerie'
<1> DEFINE q == peticion[h]
           c == q.campania
           doc == q.doc
<1>0. Atender(h) BY DEF Atender
<1>1. q.en \in {"guardar", "otraVez"} /\ campania' = [campania EXCEPT ![c] = q.fila.status]
      /\ activacion' = ConFila(c, q.fila) /\ UNCHANGED documento
  BY DEF GuardarCampania, TrasGuardar
<1>2. PeticionSeria(q) /\ EnSuSitio(q, Len(activacion)) /\ DOMAIN q = Campos /\ DOMAIN peticion = Hilos
  BY <1>0, SoloAtender
<1>3. q.en = "guardar" /\ c \in Campanias /\ doc \in Envios
  BY <1>1, <1>2 DEF EnSuSitio, DeBaja
<1>4. /\ campania[c] \in Editables \cup {"APROBADA"}
      /\ q.fila.status = "PENDIENTE" /\ ~q.fila.conActivaciones /\ DOMAIN q.fila.activaciones = {}
      /\ documento[doc].campania = c /\ ~Notificado(doc)
  BY <1>2, <1>3 DEF PeticionSeria, FirmaSeria
<1>5. activacion' = activacion
  <2>1. ConFila(c, q.fila) = activacion BY <1>4, ConFilaIgual
  <2> QED BY <1>1, <2>1
<1>6. peticion' = [peticion EXCEPT ![h] = SinPeticion]
  BY DEF GuardarCampania, TrasGuardada, Responder
<1>7. PeticionSeria(peticion[h])' BY <1>2, <1>6, SeriaSinNada
<1>8. campania'[c] = "PENDIENTE" /\ \A x \in Campanias : x # c => campania'[x] = campania[x]
  BY <1>1, <1>3, <1>4 DEF TipoInv, CampaniasBien
<1>9. /\ SinAvisos /\ UNCHANGED aviso
      /\ \A g \in Hilos : g # h => peticion[g] = SinPeticion
      /\ \A d \in Envios : Notificado(d)' <=> Notificado(d)
  BY <1>0, SoloAtender
<1>10. \A x : UltimaActivacion(x)' = UltimaActivacion(x) BY <1>5, UltimaIgual
<1>11. \A d \in Envios : d # doc => \A g \in Hilos : ~Guarda(g, d)
  BY <1>9, SinNada DEF Guarda
<1>12. ASSUME NEW d \in Envios PROVE DocumentoSerio(d)'
  <2>1. DocumentoSerio(d) BY DEF EnSerie
  <2>2. CASE documento[d] = SinDocumento BY <1>1, <2>2 DEF DocumentoSerio
  <2>3. CASE documento[d] # SinDocumento /\ documento[d].campania # c
    <3>1. documento[d].campania \in Campanias /\ d # doc
      BY <1>4, <2>3 DEF TipoInv, DocumentosBien, DocumentoBien
    <3> QED BY <1>1, <1>8, <1>9, <1>10, <1>11, <2>1, <2>3, <3>1, DocumentoQuieto
  <2>4. CASE documento[d] # SinDocumento /\ documento[d].campania = c
    <3> DEFINE k == c
    <3>0. documento'[d].campania = k /\ campania'[k] = "PENDIENTE" BY <1>1, <1>8, <2>4
    <3>1. "PENDIENTE" \in CAMPAIGN_STATUS /\ "PENDIENTE" \notin Removibles
      BY DEF CAMPAIGN_STATUS, Removibles
    <3>2. ~Notificado(d) => /\ documento[d].activacion = UltimaActivacion(k)
                            /\ \A x \in Envios : documento[x].campania = k /\ ~Notificado(x) => x = d
      BY <2>1, <2>4 DEF DocumentoSerio
    <3>3. ~Notificado(d)' => /\ documento'[d].activacion = UltimaActivacion(k)
                            /\ \A x \in Envios : documento'[x].campania = k /\ ~Notificado(x)' => x = d
      BY <1>1, <1>9, <3>2
    <3>4. UltimaActivacion(documento[d].campania)' = UltimaActivacion(k)
      <4>1. UltimaActivacion(documento[d].campania)' = UltimaActivacion(documento[d].campania)
        BY <1>1, <1>5 DEF UltimaActivacion, ActivacionesDe
      <4> QED BY <2>4, <4>1
    <3> HIDE DEF k
    <3> QED BY <3>0, <3>1, <3>3, <3>4 DEF DocumentoSerio, Existe
  <2> QED BY <2>2, <2>3, <2>4
<1>13. ASSUME NEW x \in Campanias PROVE CampaniaSeria(x)'
  <2>1. CampaniaSeria(x) BY DEF EnSerie
  <2>2. CASE x = c
    <3>1. PICK d \in Envios : d = doc BY <1>3
    <3>2. documento'[d].campania = x /\ campania'[x] = "PENDIENTE" /\ ~Notificado(d)'
      BY <1>1, <1>4, <1>8, <1>9, <2>2, <3>1
    <3> QED BY <3>1, <3>2 DEF CampaniaSeria
  <2>3. CASE x # c BY <1>1, <1>5, <1>8, <1>9, <1>10, <2>1, <2>3, CampaniaQuieta
  <2> QED BY <2>2, <2>3
<1> QED BY <1>0, <1>7, <1>12, <1>13, ExistenAtender, SerieDePeticion

\* ... that is renewed, closed or updated.
LEMMA SerieGuardarCampania ==
  ASSUME TipoInv, EnSerie, NEW h \in Hilos, GuardarCampania(h), peticion[h].op # "firmar"
  PROVE  EnSerie'
<1> DEFINE q == peticion[h]
           c == q.campania
           en == TrasGuardada(q.op, q.en)
<1>0. Atender(h) BY DEF Atender
<1>1. q.en \in {"guardar", "otraVez"} /\ campania' = [campania EXCEPT ![c] = q.fila.status]
      /\ activacion' = ConFila(c, q.fila) /\ UNCHANGED documento
      /\ peticion' = IF en = "libre" THEN [peticion EXCEPT ![h] = SinPeticion]
                     ELSE [peticion EXCEPT ![h].en = en]
  BY DEF GuardarCampania, TrasGuardar, Responder, Seguir
<1>2. PeticionSeria(q) /\ EnSuSitio(q, Len(activacion)) /\ DOMAIN q = Campos /\ DOMAIN peticion = Hilos
  BY <1>0, SoloAtender
<1>3. c \in Campanias BY <1>1, <1>2 DEF EnSuSitio, DeBaja
<1>4. \/ /\ q.op = "renovar" /\ en = "numerar" /\ campania[c] \in Renovables
         /\ q.fila.status = "REACTIVADA"
         /\ q.fila.conActivaciones /\ q.fila.activaciones = Renglones(c)
      \/ /\ q.op = "cerrar" /\ en = "desactivar" /\ campania[c] \in Cerrables
         /\ q.fila.status = "INACTIVA" /\ ~q.fila.conActivaciones /\ DOMAIN q.fila.activaciones = {}
      \/ /\ q.op = "actualizar" /\ campania[c] \in Editables /\ q.fila.status = campania[c]
         /\ en = (IF q.en = "guardar" THEN "otraVez" ELSE "libre")
         /\ q.fila.conActivaciones /\ q.fila.activaciones = Renglones(c)
  BY <1>1, <1>2 DEF EnSuSitio, PeticionSeria, CierreSerio, ActualizacionSeria, RenovacionSeria,
                    TrasGuardada
<1>5. activacion' = activacion
  <2>1. ConFila(c, q.fila) = activacion BY <1>4, ConFilaIgual
  <2> QED BY <1>1, <2>1
<1>6. campania'[c] = q.fila.status /\ \A x \in Campanias : x # c => campania'[x] = campania[x]
  BY <1>1, <1>3 DEF TipoInv, CampaniasBien
<1>7. /\ campania[c] # "PENDIENTE" /\ campania'[c] \notin {"PENDIENTE", "APROBADA"}
      /\ campania'[c] \in CAMPAIGN_STATUS
      /\ campania[c] \notin Removibles => campania'[c] \notin Removibles
  BY <1>4, <1>6 DEF CAMPAIGN_STATUS, Removibles, Editables, Cerrables, Renovables
<1>8. (\A d \in Envios : DocumentoSerio(d)') /\ (\A x \in Campanias : CampaniaSeria(x)')
  BY <1>0, <1>1, <1>3, <1>5, <1>6, <1>7, FilasDe
<1>9. PeticionSeria(peticion[h])'
  <2> HIDE DEF en
  <2>1. CASE en = "libre" BY <1>1, <1>2, <2>1, SeriaSinNada
  <2>2. CASE en # "libre"
    <3>1. /\ peticion'[h].op = q.op /\ peticion'[h].en = en /\ peticion'[h].campania = c
          /\ peticion'[h].fila = q.fila
      BY <1>1, <1>2, <2>2 DEF Campos
    <3>2. CASE q.op = "renovar"
      BY <1>4, <1>6, <3>1, <3>2 DEF PeticionSeria, CreacionSeria, FirmaSeria, CierreSerio,
                                    ActualizacionSeria, RenovacionSeria
    <3>3. CASE q.op = "cerrar" BY <1>4, <3>1, <3>3, SeriaFuera DEF EnVilo
    <3>4. CASE q.op = "actualizar"
      <4>1. Renglones(peticion[h].campania)' = Renglones(c)
        BY <1>5, <3>1 DEF Renglones, ActivacionesDe
      <4>2. campania'[c] = campania[c] /\ en = "otraVez" BY <1>4, <1>6, <2>2, <3>4
      <4> QED BY <1>4, <3>1, <3>4, <4>1, <4>2
              DEF PeticionSeria, CreacionSeria, FirmaSeria, CierreSerio, ActualizacionSeria,
                  RenovacionSeria
    <3> QED BY <1>4, <3>2, <3>3, <3>4
  <2> QED BY <2>1, <2>2
<1> QED BY <1>0, <1>8, <1>9, ExistenAtender, SerieDePeticion

LEMMA SerieGuardarDocumento ==
  ASSUME TipoInv, FirmaInv, EnSerie, NEW h \in Hilos, GuardarDocumento(h)
  PROVE  EnSerie'
<1> DEFINE q == peticion[h]
           c == q.campania
           doc == q.doc
<1>0. Atender(h) BY DEF Atender
<1>1. q.en = "documento" /\ UNCHANGED <<campania, activacion>>
      /\ peticion' = [peticion EXCEPT ![h].en = "guardar"]
  BY DEF GuardarDocumento, Seguir
<1>2. PeticionSeria(q) /\ EnSuSitio(q, Len(activacion)) /\ DOMAIN q = Campos /\ DOMAIN peticion = Hilos
  BY <1>0, SoloAtender
<1>3. /\ q.op = "firmar" /\ doc \in Envios /\ documento[doc] = SinDocumento
      /\ \A d \in Envios : d # doc => documento'[d] = documento[d]
      /\ documento'[doc].campania = c /\ documento'[doc].activacion = q.activacion
  BY GuardarDocumentoEs
<1>4. /\ c \in Campanias /\ campania[c] \in Editables \cup {"APROBADA"}
      /\ q.fila.status = "PENDIENTE" /\ ~q.fila.conActivaciones /\ DOMAIN q.fila.activaciones = {}
      /\ q.activacion = UltimaActivacion(c)
  BY <1>1, <1>2, <1>3 DEF EnSuSitio, DeBaja, PeticionSeria, FirmaSeria
<1>5. ~Notificado(doc) BY <1>3, NotificadoEs
<1>6. /\ SinAvisos /\ UNCHANGED aviso
      /\ \A g \in Hilos : g # h => peticion[g] = SinPeticion
      /\ \A d \in Envios : Notificado(d)' <=> Notificado(d)
  BY <1>0, SoloAtender
<1>7. /\ peticion'[h].op = "firmar" /\ peticion'[h].en = "guardar" /\ peticion'[h].doc = doc
      /\ peticion'[h].campania = c /\ peticion'[h].fila = q.fila
  BY <1>1, <1>2, <1>3 DEF Campos
<1>8. \A x : UltimaActivacion(x)' = UltimaActivacion(x) BY <1>1, UltimaIgual
<1>9. \A d \in Envios : \A g \in Hilos : ~Guarda(g, d) BY <1>1, <1>6, SinNada DEF Guarda
<1>10. ASSUME NEW d \in Envios, documento[d].campania = c PROVE Notificado(d) /\ d # doc
  <2>1. documento[d] # SinDocumento BY <1>4, <1>10, DocumentoDe
  <2>2. DocumentoSerio(d) BY DEF EnSerie
  <2>3. campania[c] # "PENDIENTE" BY <1>4 DEF Editables
  <2> QED BY <1>3, <1>9, <1>10, <2>1, <2>2, <2>3 DEF DocumentoSerio
<1>11. ASSUME NEW d \in Envios PROVE DocumentoSerio(d)'
  <2>1. DocumentoSerio(d) BY DEF EnSerie
  <2>2. CASE d = doc
    <3> DEFINE k == c
    <3>1. documento'[d].campania = k /\ campania'[k] \in CAMPAIGN_STATUS /\ documento'[d].activacion = UltimaActivacion(k)
      BY <1>1, <1>3, <1>4, <2>2 DEF CAMPAIGN_STATUS, Editables
    <3>2. \E g \in Hilos : Guarda(g, d)' BY <1>7, <2>2 DEF Guarda
    <3>3. \A x \in Envios : documento'[x].campania = k /\ ~Notificado(x)' => x = d
      BY <1>3, <1>6, <1>10, <2>2
    <3>4. UltimaActivacion(documento[d].campania)' = UltimaActivacion(k)
      BY <1>1, <3>1 DEF UltimaActivacion, ActivacionesDe
    <3> HIDE DEF k
    <3> QED BY <3>1, <3>2, <3>3, <3>4 DEF DocumentoSerio, Existe
  <2>3. CASE d # doc /\ documento[d] = SinDocumento BY <1>3, <2>3 DEF DocumentoSerio
  <2>4. CASE d # doc /\ documento[d] # SinDocumento /\ documento[d].campania # c
    <3>1. \A x \in Envios : documento'[x].campania = documento[d].campania =>
            documento[x].campania = documento[d].campania
      BY <1>3, <2>4
    <3> QED BY <1>1, <1>3, <1>6, <1>8, <1>9, <2>1, <2>4, <3>1, DocumentoQuieto
  <2>5. CASE d # doc /\ documento[d] # SinDocumento /\ documento[d].campania = c
    <3>1. Existe(c) /\ campania[c] \notin Removibles /\ Notificado(d)
      BY <1>9, <1>10, <2>1, <2>5 DEF DocumentoSerio
    <3>2. documento'[d] = documento[d] /\ Notificado(d)' BY <1>3, <1>6, <2>5, <3>1
    <3> QED BY <1>1, <2>5, <3>1, <3>2 DEF DocumentoSerio, Existe
  <2> QED BY <2>2, <2>3, <2>4, <2>5
<1>12. ASSUME NEW x \in Campanias PROVE CampaniaSeria(x)'
  <2>1. CampaniaSeria(x) BY DEF EnSerie
  <2>2. \A d \in Envios : documento[d].campania = x => documento'[d] = documento[d]
    BY <1>3, DocumentoDe
  <2> QED BY <1>1, <1>6, <1>8, <2>1, <2>2, CampaniaQuieta
<1>13. PeticionSeria(peticion[h])'
  <2>1. documento'[doc].campania = c /\ ~Notificado(doc)' /\ campania'[c] = campania[c]
    BY <1>1, <1>3, <1>5, <1>6
  <2>2. (~Notificado(peticion[h].doc))' BY <1>7, <2>1 DEF Notificado
  <2> QED BY <1>4, <1>7, <2>1, <2>2 DEF PeticionSeria, CreacionSeria, FirmaSeria, CierreSerio,
                                        ActualizacionSeria, RenovacionSeria
<1> QED BY <1>0, <1>11, <1>12, <1>13, ExistenAtender, SerieDePeticion

LEMMA SerieApagarActivaciones ==
  ASSUME TipoInv, EnSerie, NEW h \in Hilos, ApagarActivaciones(h)
  PROVE  EnSerie'
<1> DEFINE q == peticion[h]
           c == q.campania
           fila == q.fila
           acts == [a \in DOMAIN fila.activaciones |->
                      [fila.activaciones[a] EXCEPT !.status = FALSE]]
           apagada == [fila EXCEPT !.status = "REACTIVADA", !.activaciones = acts]
<1>0. Atender(h) BY DEF Atender
<1>1. q.en = "activaciones" /\ UNCHANGED <<campania, documento>> BY DEF ApagarActivaciones
<1>2. PeticionSeria(q) /\ EnSuSitio(q, Len(activacion)) /\ DOMAIN q = Campos /\ DOMAIN peticion = Hilos
      /\ DOMAIN fila = CamposDeFila
  BY <1>0, SoloAtender DEF PeticionBien, FilaBien
<1>3. /\ q.op = "renovar" /\ campania[c] \in Renovables
      /\ fila.conActivaciones /\ fila.activaciones = Renglones(c)
  BY <1>1, <1>2 DEF EnSuSitio, PeticionSeria, RenovacionSeria
<1>4. activacion' = ConActivaciones(apagada)
      /\ peticion' = [peticion EXCEPT ![h].en = "guardar", ![h].fila = apagada]
  <2>1. apagada = [fila EXCEPT !.status = "REACTIVADA",
                    !.activaciones = [a \in DOMAIN @ |-> [@[a] EXCEPT !.status = FALSE]]]
    BY <1>2 DEF CamposDeFila
  <2> HIDE DEF apagada
  <2>2. fila = q.fila OBVIOUS
  <2> QED BY <2>1, <2>2 DEF ApagarActivaciones
<1>5. apagada.status = "REACTIVADA" /\ apagada.activaciones = acts /\ apagada.conActivaciones
  BY <1>2, <1>3 DEF CamposDeFila
<1>6. DOMAIN acts = ActivacionesDe(c)
      /\ \A a \in ActivacionesDe(c) : acts[a] = [activacion[a] EXCEPT !.status = FALSE]
  BY <1>3 DEF Renglones
<1> HIDE DEF acts, apagada
<1>7. DOMAIN activacion' = DOMAIN activacion /\ \A a \in DOMAIN activacion :
        activacion'[a] = IF a \in ActivacionesDe(c) THEN [activacion[a] EXCEPT !.status = FALSE]
                         ELSE activacion[a]
  BY <1>4, <1>5, <1>6 DEF ConActivaciones
<1>8. \A a \in DOMAIN activacion : activacion[a] \in Activacion
  BY DEF TipoInv, ActivacionesBien
<1>9. \A a \in DOMAIN activacion : /\ activacion'[a].campania = activacion[a].campania
                                   /\ activacion'[a].aprobada = activacion[a].aprobada
  BY <1>7, <1>8 DEF Activacion
<1>10. (\A d \in Envios : DocumentoSerio(d)') /\ (\A x \in Campanias : CampaniaSeria(x)')
  BY <1>0, <1>1, <1>7, <1>9, FilasSerias
<1>11. PeticionSeria(peticion[h])'
  <2>1. /\ peticion'[h].op = "renovar" /\ peticion'[h].en = "guardar" /\ peticion'[h].campania = c
        /\ peticion'[h].fila = apagada
    BY <1>2, <1>3, <1>4 DEF Campos
  <2>2. Renglones(peticion[h].campania)' = acts
    <3>1. ActivacionesDe(peticion[h].campania)' = ActivacionesDe(c)
      BY <1>7, <1>9, <2>1 DEF ActivacionesDe
    <3>2. \A a \in ActivacionesDe(c) : activacion'[a] = acts[a]
      BY <1>6, <1>7 DEF ActivacionesDe
    <3>3. acts = [a \in ActivacionesDe(c) |-> acts[a]] BY <1>6 DEF acts
    <3> QED BY <3>1, <3>2, <3>3 DEF Renglones
  <2> QED BY <1>1, <1>3, <1>5, <2>1, <2>2
          DEF PeticionSeria, CreacionSeria, FirmaSeria, CierreSerio, ActualizacionSeria,
              RenovacionSeria
<1> QED BY <1>0, <1>10, <1>11, ExistenAtender, SerieDePeticion

LEMMA SerieBajaActivacion ==
  ASSUME TipoInv, EnSerie, NEW h \in Hilos, BajaActivacion(h)
  PROVE  EnSerie'
<1> DEFINE a == peticion[h].activacion
<1>0. Atender(h) BY DEF Atender
<1>1. peticion[h].en = "baja" /\ UNCHANGED <<campania, documento>>
      /\ (activacion' = activacion \/ activacion' = [activacion EXCEPT ![a].status = FALSE])
      /\ peticion' = [peticion EXCEPT ![h].en = "bajaPartida"]
  BY DEF BajaActivacion, Seguir
<1>2. PeticionSeria(peticion[h]) /\ DOMAIN peticion[h] = Campos /\ DOMAIN peticion = Hilos
  BY <1>0, SoloAtender
<1>3. \A b \in DOMAIN activacion : activacion[b] \in Activacion
  BY DEF TipoInv, ActivacionesBien
<1>4. DOMAIN activacion' = DOMAIN activacion /\ \A b \in DOMAIN activacion :
        activacion'[b].campania = activacion[b].campania /\ activacion'[b].aprobada = activacion[b].aprobada
  BY <1>1, <1>3 DEF Activacion
<1>5. (\A d \in Envios : DocumentoSerio(d)') /\ (\A x \in Campanias : CampaniaSeria(x)')
  BY <1>0, <1>1, <1>4, FilasSerias
<1>6. peticion'[h].en = "bajaPartida" /\ peticion'[h].op = peticion[h].op
  BY <1>1, <1>2 DEF Campos
<1>7. PeticionSeria(peticion[h])' BY <1>2, <1>6, SeriaFuera DEF EnVilo, PeticionSeria
<1> QED BY <1>0, <1>5, <1>7, ExistenAtender, SerieDePeticion

LEMMA SerieAtender ==
  ASSUME TipoInv, FirmaInv, EnSerie, NEW h \in Hilos, Atender(h)
  PROVE  EnSerie'
<1>1. CASE GuardarNueva(h) BY <1>1, SerieGuardarNueva
<1>2. CASE ApagarActivaciones(h) BY <1>2, SerieApagarActivaciones
<1>3. CASE GuardarActivacion(h) BY <1>3, SerieGuardarActivacion
<1>4. CASE BorrarCampania(h) BY <1>4, SerieBorrarCampania
<1>5. CASE GuardarDocumento(h) BY <1>5, SerieGuardarDocumento
<1>6. CASE GuardarCampania(h) BY <1>6, SerieGuardarCampania, SerieGuardarFirmada
<1>7. CASE BajaActivacion(h) BY <1>7, SerieBajaActivacion
<1>8. CASE ~(GuardarNueva(h) \/ ApagarActivaciones(h) \/ GuardarActivacion(h) \/ BorrarCampania(h)
             \/ GuardarDocumento(h) \/ GuardarCampania(h) \/ BajaActivacion(h))
  <2>1. UNCHANGED <<campania, activacion, documento>> BY <1>8, EscribeAtender
  <2>2. PeticionSeria(peticion[h])' BY <1>8, <2>1, LecturaSeria
  <2>5. peticion[h].en # "guardar"
    <3> SUFFICES ASSUME peticion[h].en = "guardar" PROVE FALSE OBVIOUS
    <3>1. peticion[h].op # "ordenar" BY PeticionTipo DEF EnSuSitio
    <3> QED BY <1>8 DEF Atender, GuardarPartida, Numerar, LeerPorLimpiar, LeerCampania, LeerUltima,
               LeerActivacion, BajaPartida, BuscarPendientes, LeerMaestroDeOrden,
               LeerModificatorioDeOrden, DevolverCargo, BorrarOrden, LeerParaOrden, LeerFondos,
               EscribirReserva, GuardarOrden
  <2>6. (\A d \in Envios : DocumentoSerio(d)') /\ (\A x \in Campanias : CampaniaSeria(x)')
    BY <2>1, <2>5, FilasSerias
  <2> QED BY <2>2, <2>6, ExistenAtender, SerieDePeticion
<1> QED BY <1>1, <1>2, <1>3, <1>4, <1>5, <1>6, <1>7, <1>8

----
(* The handlers, in series. *)

\* The handlers in progress are the only thing that is.
LEMMA SoloManejar ==
  ASSUME TipoInv, FirmaInv, EnSerie, NEW e \in Avisos, Manejar(e)
  PROVE  /\ SinCobros /\ Solo' /\ UNCHANGED <<peticion, cobro, partida, incidentes>>
         /\ \A h \in Hilos : peticion[h] = SinPeticion
         /\ \A n \in Avisos : n # e => aviso'[n] = aviso[n] /\ aviso[n].status = "no"
         /\ \A n \in Avisos : aviso'[n].recibido = aviso[n].recibido
         /\ \A n \in Avisos : aviso[n].recibido => CampaniaDe(n)' = CampaniaDe(n)
         /\ \A d \in Envios : Notificado(d)' <=> Notificado(d)
         /\ AvisoSerio(e) /\ aviso[e].recibido /\ Notificado(Doc(e))
         /\ CampaniaDe(e) \in Campanias /\ Doc(e) \in Envios
<1>1. LibroEnCurso /\ Solo BY DEF FirmaInv, EnSerie
<1>2. EnCurso(e) /\ UNCHANGED <<peticion, cobro, partida, incidentes>>
      /\ (\A n \in Avisos : n # e => aviso'[n] = aviso[n]) /\ aviso'[e].recibido = aviso[e].recibido
  BY <1>1, EscribeManejar
<1>3. SinCobros /\ (\A n \in Avisos : n # e => ~EnCurso(n)) /\ \A h \in Hilos : peticion[h].en = "libre"
  BY <1>1, <1>2 DEF Solo, SinAvisos
<1>4. (\A n \in Avisos : n # e => ~EnCurso(n)') /\ SinCobros'
  BY <1>2, <1>3 DEF EnCurso, SinCobros, Cobrando
<1>5. Solo' BY <1>2, <1>3, <1>4 DEF Solo, SinCobros
<1>6. \A h \in Hilos : peticion[h] = SinPeticion BY <1>3, LibreEs
<1>7. \A n \in Avisos : n # e => aviso[n].status = "no" BY <1>3 DEF EnCurso
<1>8. \A n \in Avisos : aviso'[n].recibido = aviso[n].recibido BY <1>2
<1>9. ASSUME NEW n \in Avisos, aviso[n].recibido PROVE CampaniaDe(n)' = CampaniaDe(n)
  <2>1. Doc(n) \in Envios /\ documento[Doc(n)] # SinDocumento BY <1>9, AvisoTipo
  <2>2. Duran BY <1>1, DuranManejar
  <2> QED BY <2>1, <2>2 DEF Duran, CampaniaDe
<1>10. aviso[e].recibido /\ CampaniaDe(e) \in Campanias /\ Doc(e) \in Envios
  BY <1>2, AvisoTipo
<1>11. \A d \in Envios : Notificado(d)' <=> Notificado(d) BY <1>8 DEF Notificado
<1>12. AvisoSerio(e) BY DEF EnSerie
<1> QED BY <1>2, <1>3, <1>5, <1>6, <1>7, <1>8, <1>9, <1>10, <1>11, <1>12 DEF Notificado

LEMMA SerieDeAviso ==
  ASSUME TipoInv, FirmaInv, EnSerie, NEW e \in Avisos, Manejar(e),
         \A d \in Envios : DocumentoSerio(d)', \A c \in Campanias : CampaniaSeria(c)',
         AvisoSerio(e)'
  PROVE  EnSerie'
<1>1. /\ SinCobros /\ Solo' /\ UNCHANGED <<peticion, cobro, partida>>
      /\ \A h \in Hilos : peticion[h] = SinPeticion
      /\ \A n \in Avisos : n # e => aviso'[n] = aviso[n] /\ aviso[n].status = "no"
  BY SoloManejar
<1>2. ASSUME NEW n \in Avisos PROVE AvisoSerio(n)'
  <2>1. CASE n = e BY <2>1
  <2>2. CASE n # e
    <3>1. aviso[n].recibido => n[2] = 1 BY DEF EnSerie, AvisoSerio
    <3>2. aviso'[n].recibido = aviso[n].recibido /\ aviso'[n].status = "no" BY <1>1, <2>2
    <3> QED BY <3>1, <3>2 DEF AvisoSerio
  <2> QED BY <2>1, <2>2
<1>3. ASSUME NEW k \in Cobros PROVE CobroSerio(k)'
  BY <1>1 DEF CobroSerio, SinCobros, Cobrando
<1>4. ASSUME NEW h \in Hilos PROVE PeticionSeria(peticion[h])' BY <1>1, SeriaSinNada
<1>5. \A p \in DOMAIN partida' : partida'[p].existe BY <1>1 DEF EnSerie
<1> QED BY <1>1, <1>2, <1>3, <1>4, <1>5 DEF EnSerie

\* What it takes for a campaign to stay as it has to be, with the handlers.
LEMMA CampaniaConAvisos ==
  ASSUME NEW c \in Campanias, CampaniaSeria(c),
         \A d \in Envios : documento[d].campania = c =>
           /\ documento'[d].campania = c /\ documento'[d].accion = documento[d].accion
           /\ documento'[d].activacion = documento[d].activacion,
         \A d \in Envios : Notificado(d)' <=> Notificado(d),
         campania'[c] = campania[c], UltimaActivacion(c)' = UltimaActivacion(c),
         campania[c] = "APROBADA" /\ activacion[UltimaActivacion(c)].aprobada =>
           activacion'[UltimaActivacion(c)].aprobada,
         \A n \in Avisos : aviso[n].status \in {"leer", "escribir"} /\ CampaniaDe(n) = c =>
           aviso'[n].status \in {"leer", "escribir"} /\ CampaniaDe(n)' = c,
         \A n \in Avisos :
           campania[c] = "APROBADA" /\ aviso[n].status = "aprobar" /\ CampaniaDe(n) = c =>
             \/ aviso'[n].status = "aprobar" /\ CampaniaDe(n)' = c
             \/ activacion'[UltimaActivacion(c)].aprobada
  PROVE  CampaniaSeria(c)'
<1>1. ASSUME campania[c] = "PENDIENTE"
      PROVE  \/ \E d \in Envios : documento'[d].campania = c /\ ~Notificado(d)'
             \/ \E n \in Avisos : aviso'[n].status \in {"leer", "escribir"} /\ CampaniaDe(n)' = c
  BY <1>1 DEF CampaniaSeria
<1>2. ASSUME campania[c] = "APROBADA"
      PROVE  /\ \E d \in Envios : /\ documento'[d].campania = c /\ Notificado(d)'
                                  /\ documento'[d].accion = "APPROVE"
                                  /\ documento'[d].activacion = UltimaActivacion(c)
             /\ \/ activacion'[UltimaActivacion(c)].aprobada
                \/ \E n \in Avisos : aviso'[n].status = "aprobar" /\ CampaniaDe(n)' = c
  <2>1. \E d \in Envios : /\ documento'[d].campania = c /\ Notificado(d)'
                          /\ documento'[d].accion = "APPROVE"
                          /\ documento'[d].activacion = UltimaActivacion(c)
    <3>1. PICK d \in Envios : /\ documento[d].campania = c /\ Notificado(d)
                              /\ documento[d].accion = "APPROVE"
                              /\ documento[d].activacion = UltimaActivacion(c)
      BY <1>2 DEF CampaniaSeria
    <3> QED BY <3>1
  <2>2. CASE activacion[UltimaActivacion(c)].aprobada BY <1>2, <2>1, <2>2
  <2>3. CASE \E n \in Avisos : aviso[n].status = "aprobar" /\ CampaniaDe(n) = c
    BY <1>2, <2>1, <2>3
  <2> QED BY <1>2, <2>2, <2>3 DEF CampaniaSeria
<1> QED BY <1>1, <1>2 DEF CampaniaSeria

\* The documents, when the handlers leave the campaigns as they are.
LEMMA DocumentosConAvisos ==
  ASSUME TipoInv, FirmaInv, EnSerie, NEW e \in Avisos, Manejar(e), NEW d \in Envios,
         documento[d] # SinDocumento => campania'[documento[d].campania] = campania[documento[d].campania],
         DOMAIN activacion' = DOMAIN activacion,
         \A a \in DOMAIN activacion : activacion'[a].campania = activacion[a].campania
  PROVE  DocumentoSerio(d)'
<1>1. /\ \A h \in Hilos : peticion[h] = SinPeticion
      /\ \A x \in Envios : Notificado(x)' <=> Notificado(x)
  BY SoloManejar
<1>2. Duran /\ \A x \in Envios : documento[x] = SinDocumento => documento'[x] = SinDocumento
  BY DuranManejar DEF FirmaInv
<1>3. DocumentoSerio(d) BY DEF EnSerie
<1>4. \A g \in Hilos : ~Guarda(g, d) BY <1>1, SinNada DEF Guarda
<1>5. \A c : UltimaActivacion(c)' = UltimaActivacion(c) BY UltimaIgual
<1>6. ASSUME NEW x \in Envios, documento'[x].campania = documento[d].campania,
             documento[d] # SinDocumento
      PROVE  documento[x].campania = documento[d].campania
  <2>1. CASE documento[x] = SinDocumento BY <1>2, <1>6, <2>1
  <2>2. CASE documento[x] # SinDocumento BY <1>2, <1>6, <2>2 DEF Duran
  <2> QED BY <2>1, <2>2
<1>7. CASE documento[d] = SinDocumento BY <1>2, <1>7 DEF DocumentoSerio
<1>8. CASE documento[d] # SinDocumento
  BY <1>1, <1>2, <1>3, <1>4, <1>5, <1>6, <1>8, DocumentoQuieto DEF Duran
<1> QED BY <1>7, <1>8

LEMMA SerieManejarOtros ==
  ASSUME TipoInv, FirmaInv, EnSerie, NEW e \in Avisos, Manejar(e),
         UNCHANGED <<campania, activacion>>,
         aviso'[e].status = aviso[e].status, aviso'[e].activacion = aviso[e].activacion
  PROVE  EnSerie'
<1>1. /\ \A n \in Avisos : n # e => aviso'[n] = aviso[n]
      /\ \A n \in Avisos : aviso'[n].recibido = aviso[n].recibido
      /\ \A n \in Avisos : aviso[n].recibido => CampaniaDe(n)' = CampaniaDe(n)
      /\ \A x \in Envios : Notificado(x)' <=> Notificado(x)
      /\ AvisoSerio(e) /\ aviso[e].recibido /\ CampaniaDe(e) \in Campanias /\ Doc(e) \in Envios
  BY SoloManejar
<1>2. Duran /\ \A x \in Envios : documento[x] = SinDocumento => documento'[x] = SinDocumento
  BY DuranManejar DEF FirmaInv
<1>3. \A c : UltimaActivacion(c)' = UltimaActivacion(c) BY UltimaIgual
<1>4. \A d \in Envios : DocumentoSerio(d)' BY DocumentosConAvisos
<1>5. ASSUME NEW n \in Avisos, aviso[n].status # "no"
      PROVE  CampaniaDe(n)' = CampaniaDe(n) /\ aviso'[n].status = aviso[n].status
  BY <1>1, <1>5, AvisoTipo DEF EnCurso
<1>6. ASSUME NEW c \in Campanias PROVE CampaniaSeria(c)'
  <2>1. CampaniaSeria(c) BY DEF EnSerie
  <2>2. \A d \in Envios : documento[d].campania = c =>
           /\ documento'[d].campania = c /\ documento'[d].accion = documento[d].accion
           /\ documento'[d].activacion = documento[d].activacion
    BY <1>2, DocumentoDe DEF Duran
  <2> QED BY <1>1, <1>3, <1>5, <2>1, <2>2, CampaniaConAvisos
<1>7. AvisoSerio(e)'
  <2> DEFINE c == CampaniaDe(e)
  <2>1. /\ aviso[e].recibido => e[2] = 1
        /\ aviso[e].status \in {"leer", "escribir"} =>
             /\ campania[c] = "PENDIENTE" /\ documento[Doc(e)].activacion = UltimaActivacion(c)
             /\ \A x \in Envios : documento[x].campania = c => Notificado(x)
        /\ aviso[e].status \in {"escribir", "aprobar"} => aviso[e].activacion = UltimaActivacion(c)
    BY <1>1 DEF AvisoSerio
  <2>2. CampaniaDe(e)' = c /\ c \in Campanias BY <1>1
  <2> HIDE DEF c
  <2>3. ASSUME NEW x \in Envios, documento'[x].campania = c PROVE documento[x].campania = c
    <3>1. CASE documento[x] = SinDocumento BY <1>2, <2>3, <3>1
    <3>2. CASE documento[x] # SinDocumento BY <1>2, <2>3, <3>2 DEF Duran
    <3> QED BY <3>1, <3>2
  <2>4. UltimaActivacion(CampaniaDe(e))' = UltimaActivacion(c)
    BY <2>2 DEF UltimaActivacion, ActivacionesDe
  <2>5. documento'[Doc(e)].activacion = documento[Doc(e)].activacion
    BY <1>1, <1>2, AvisoTipo DEF Duran
  <2> QED BY <1>1, <2>1, <2>2, <2>3, <2>4, <2>5 DEF AvisoSerio
<1> QED BY <1>4, <1>6, <1>7, SerieDeAviso

LEMMA SerieLeerStatus ==
  ASSUME TipoInv, FirmaInv, EnSerie, NEW e \in Avisos, LeerStatus(e)
  PROVE  EnSerie'
<1> DEFINE c == CampaniaDe(e)
           u == UltimaActivacion(c)
<1>0. Manejar(e) BY DEF Manejar
<1>1. aviso[e].status = "leer" /\ UNCHANGED <<campania, activacion, documento>>
      /\ aviso' = [aviso EXCEPT ![e].status = IF Existe(c) THEN "escribir" ELSE "no",
                                ![e].activacion = u]
  BY DEF LeerStatus, filas
<1>2. /\ \A n \in Avisos : n # e => aviso'[n] = aviso[n]
      /\ \A n \in Avisos : aviso'[n].recibido = aviso[n].recibido
      /\ \A x \in Envios : Notificado(x)' <=> Notificado(x)
      /\ AvisoSerio(e) /\ aviso[e].recibido /\ c \in Campanias /\ Doc(e) \in Envios
  BY <1>0, SoloManejar
<1>3. campania[c] = "PENDIENTE" /\ documento[Doc(e)].activacion = u
      /\ \A x \in Envios : documento[x].campania = c => Notificado(x)
  BY <1>1, <1>2 DEF AvisoSerio
<1>4. Existe(c) BY <1>3 DEF Existe, CAMPAIGN_STATUS
<1>5. \A x : UltimaActivacion(x)' = UltimaActivacion(x) BY <1>1, UltimaIgual
<1>6. (\A n \in Avisos : CampaniaDe(n)' = CampaniaDe(n)) /\ UltimaActivacion(CampaniaDe(e))' = u
  BY <1>1 DEF CampaniaDe, UltimaActivacion, ActivacionesDe
<1> HIDE DEF u
<1>7. aviso'[e].status = "escribir" /\ aviso'[e].activacion = u
  <2>1. DOMAIN aviso = Avisos /\ DOMAIN aviso[e] = CamposDeAviso BY AvisoTipo
  <2> QED BY <1>1, <1>4, <2>1 DEF CamposDeAviso
<1>8. \A d \in Envios : DocumentoSerio(d)' BY <1>0, <1>1, DocumentosConAvisos
<1>9. ASSUME NEW x \in Campanias PROVE CampaniaSeria(x)'
  <2>1. CampaniaSeria(x) BY DEF EnSerie
  <2>2. \A n \in Avisos : aviso[n].status \in {"leer", "escribir"} => aviso'[n].status \in {"leer", "escribir"}
    BY <1>2, <1>7
  <2>3. \A n \in Avisos : aviso[n].status = "aprobar" => aviso'[n].status = "aprobar"
    BY <1>1, <1>2
  <2> QED BY <1>1, <1>2, <1>5, <1>6, <2>1, <2>2, <2>3, CampaniaConAvisos
<1>10. AvisoSerio(e)'
  <2>1. CampaniaDe(e)' = c /\ documento'[Doc(e)].activacion = u /\ campania'[c] = "PENDIENTE"
    BY <1>1, <1>3, <1>6
  <2>2. \A x \in Envios : documento'[x].campania = c => Notificado(x)' BY <1>1, <1>2, <1>3
  <2>3. aviso'[e].recibido => e[2] = 1 BY <1>2 DEF AvisoSerio
  <2> DEFINE k == c
  <2>4. CampaniaDe(e)' = k /\ documento'[Doc(e)].activacion = u /\ campania'[k] = "PENDIENTE"
        /\ \A x \in Envios : documento'[x].campania = k => Notificado(x)'
    BY <2>1, <2>2
  <2> HIDE DEF k
  <2> QED BY <1>6, <1>7, <2>3, <2>4 DEF AvisoSerio
<1> QED BY <1>0, <1>8, <1>9, <1>10, SerieDeAviso

LEMMA SerieFechar ==
  ASSUME TipoInv, FirmaInv, EnSerie, NEW e \in Avisos, FecharActivacion(e)
  PROVE  EnSerie'
<1> DEFINE c == CampaniaDe(e)
           a == aviso[e].activacion
<1>0. Manejar(e) BY DEF Manejar
<1>1. aviso[e].status = "aprobar" /\ UNCHANGED <<campania, documento>>
      /\ (activacion' = IF HayActivacion(a) THEN [activacion EXCEPT ![a].aprobada = TRUE]
                        ELSE activacion)
      /\ aviso' = [aviso EXCEPT ![e].status = "no"]
  BY DEF FecharActivacion
<1>2. /\ \A n \in Avisos : n # e => aviso'[n] = aviso[n] /\ aviso[n].status = "no"
      /\ \A n \in Avisos : aviso'[n].recibido = aviso[n].recibido
      /\ \A x \in Envios : Notificado(x)' <=> Notificado(x)
      /\ AvisoSerio(e) /\ c \in Campanias
  BY <1>0, SoloManejar
<1>3. a = UltimaActivacion(c) BY <1>1, <1>2 DEF AvisoSerio
<1>4. \A b \in DOMAIN activacion : activacion[b] \in Activacion
  BY DEF TipoInv, ActivacionesBien
<1>5. DOMAIN activacion' = DOMAIN activacion /\ \A b \in DOMAIN activacion :
        /\ activacion'[b].campania = activacion[b].campania
        /\ activacion[b].aprobada => activacion'[b].aprobada
        /\ b = a /\ HayActivacion(a) => activacion'[b].aprobada
  BY <1>1, <1>4 DEF Activacion
<1>6. \A x : UltimaActivacion(x)' = UltimaActivacion(x) BY <1>5, UltimaIgual
<1>8. aviso'[e].status = "no" BY <1>1, AvisoTipo DEF CamposDeAviso
<1>9. \A d \in Envios : DocumentoSerio(d)' BY <1>0, <1>1, <1>5, DocumentosConAvisos
<1>10. ASSUME NEW x \in Campanias PROVE CampaniaSeria(x)'
  <2>1. CampaniaSeria(x) BY DEF EnSerie
  <2>2. ASSUME campania[x] = "APROBADA", activacion[UltimaActivacion(x)].aprobada
        PROVE  activacion'[UltimaActivacion(x)].aprobada
    BY <1>5, <2>1, <2>2, AprobadaTiene
  <2>3. ASSUME campania[x] = "APROBADA", c = x
        PROVE  activacion'[UltimaActivacion(x)].aprobada
    <3>1. a \in DOMAIN activacion /\ activacion[a].campania = x
      BY <1>3, <2>1, <2>3, AprobadaTiene DEF ActivacionesDe
    <3>2. HayActivacion(a) BY <3>1, CampaniasAssumption DEF HayActivacion, SinActivacion
    <3> QED BY <1>3, <1>5, <2>3, <3>1, <3>2
  <2>4. \A n \in Avisos : aviso[n].status \notin {"leer", "escribir"} BY <1>1, <1>2
  <2>5. \A n \in Avisos : aviso[n].status = "aprobar" => n = e BY <1>2
  <2> QED BY <1>1, <1>2, <1>6, <2>1, <2>2, <2>3, <2>4, <2>5, CampaniaConAvisos
<1>11. AvisoSerio(e)' BY <1>2, <1>8 DEF AvisoSerio
<1> QED BY <1>0, <1>9, <1>10, <1>11, SerieDeAviso

LEMMA SerieEscribirStatus ==
  ASSUME TipoInv, FirmaInv, EnSerie, NEW e \in Avisos, EscribirStatus(e)
  PROVE  EnSerie'
<1>0. Manejar(e) BY DEF Manejar
<1> DEFINE d0 == Doc(e)
<1>1. PICK c \in Campanias : c = CampaniaDe(e) BY <1>0, SoloManejar
<1>2. aviso[e].status = "escribir" /\ UNCHANGED <<activacion, documento>>
      /\ campania' = (IF Existe(c) THEN [campania EXCEPT ![c] = StatusDe(e)] ELSE campania)
      /\ aviso' = [aviso EXCEPT ![e].status =
                     IF Aprueba(e) /\ aviso[e].activacion # 0 THEN "aprobar" ELSE "no"]
  BY <1>1 DEF EscribirStatus
<1>3. /\ \A n \in Avisos : n # e => aviso'[n] = aviso[n] /\ aviso[n].status = "no"
      /\ \A n \in Avisos : aviso'[n].recibido = aviso[n].recibido
      /\ \A x \in Envios : Notificado(x)' <=> Notificado(x)
      /\ AvisoSerio(e) /\ Notificado(d0) /\ d0 \in Envios /\ aviso[e].recibido
  BY <1>0, SoloManejar
<1>4. /\ campania[c] = "PENDIENTE" /\ documento[d0].activacion = UltimaActivacion(c)
      /\ \A x \in Envios : documento[x].campania = c => Notificado(x)
      /\ aviso[e].activacion = UltimaActivacion(c)
  BY <1>1, <1>2, <1>3 DEF AvisoSerio
<1>5. /\ campania'[c] = StatusDe(e) /\ \A x \in Campanias : x # c => campania'[x] = campania[x]
  <2>1. Existe(c) BY <1>4 DEF Existe, CAMPAIGN_STATUS
  <2> QED BY <1>2, <2>1 DEF TipoInv, CampaniasBien
<1>6. StatusDe(e) = (IF Aprueba(e) THEN "APROBADA" ELSE "CANCELADA") BY DEF StatusDe
<1>7. \A x : UltimaActivacion(x)' = UltimaActivacion(x) BY <1>2, UltimaIgual
<1>8. /\ \A n \in Avisos : CampaniaDe(n)' = CampaniaDe(n)
      /\ UltimaActivacion(CampaniaDe(e))' = UltimaActivacion(c)
  BY <1>1, <1>2 DEF CampaniaDe, UltimaActivacion, ActivacionesDe
<1>9. aviso'[e].status = (IF Aprueba(e) /\ aviso[e].activacion # 0 THEN "aprobar" ELSE "no")
      /\ aviso'[e].activacion = aviso[e].activacion
  BY <1>2, AvisoTipo DEF CamposDeAviso
<1>10. ASSUME NEW d \in Envios PROVE DocumentoSerio(d)'
  <2>1. CASE documento[d] # SinDocumento /\ documento[d].campania = c
    <3>1. campania'[c] \in CAMPAIGN_STATUS /\ campania'[c] \notin Removibles
      BY <1>5, <1>6 DEF CAMPAIGN_STATUS, Removibles
    <3>2. Notificado(d)' /\ documento'[d].campania = c BY <1>2, <1>3, <1>4, <2>1
    <3> QED BY <3>1, <3>2 DEF DocumentoSerio, Existe
  <2>2. CASE documento[d] = SinDocumento BY <1>2, <2>2 DEF DocumentoSerio
  <2>3. CASE documento[d] # SinDocumento /\ documento[d].campania # c
    <3>1. documento[d].campania \in Campanias
      BY <2>3 DEF TipoInv, DocumentosBien, DocumentoBien
    <3> QED BY <1>0, <1>2, <1>5, <2>3, <3>1, DocumentosConAvisos
  <2> QED BY <2>1, <2>2, <2>3
<1>11. ASSUME NEW x \in Campanias PROVE CampaniaSeria(x)'
  <2>1. CampaniaSeria(x) BY DEF EnSerie
  <2>2. CASE x = c /\ Aprueba(e)
    <3>1. documento[d0].campania = c /\ documento[d0].accion = "APPROVE"
      BY <1>1, <2>2 DEF CampaniaDe, Aprueba
    <3>2. aviso[e].activacion # 0
      <4>1. UltimaActivacion(c) \in 1..Len(activacion) /\ Len(activacion) \in Nat
        BY <1>3, <1>4, <3>1, DocumentoDe, Longitudes DEF TipoInv
      <4> QED BY <1>4, <4>1
    <3>3. aviso'[e].status = "aprobar" /\ CampaniaDe(e)' = c
      BY <1>1, <1>8, <1>9, <2>2, <3>2
    <3>4. \E d \in Envios : /\ documento'[d].campania = c /\ Notificado(d)'
                            /\ documento'[d].accion = "APPROVE"
                            /\ documento'[d].activacion = UltimaActivacion(c)'
      BY <1>2, <1>3, <1>4, <1>7, <3>1
    <3>5. campania'[c] = "APROBADA" BY <1>5, <1>6, <2>2
    <3> QED BY <2>2, <3>3, <3>4, <3>5 DEF CampaniaSeria
  <2>3. CASE x = c /\ ~Aprueba(e)
    <3>1. campania'[x] = "CANCELADA" BY <1>5, <1>6, <2>3
    <3> QED BY <3>1 DEF CampaniaSeria
  <2>4. CASE x # c
    <3>1. \A n \in Avisos : aviso[n].status # "no" => CampaniaDe(n) = c BY <1>1, <1>3
    <3> QED BY <1>2, <1>3, <1>5, <1>7, <2>1, <2>4, <3>1, CampaniaConAvisos
  <2> QED BY <2>2, <2>3, <2>4
<1>12. AvisoSerio(e)'
  <2>1. aviso'[e].status \in {"aprobar", "no"} BY <1>9
  <2>2. aviso'[e].recibido => e[2] = 1 BY <1>3 DEF AvisoSerio
  <2> QED BY <1>4, <1>8, <1>9, <2>1, <2>2 DEF AvisoSerio
<1> QED BY <1>0, <1>10, <1>11, <1>12, SerieDeAviso

LEMMA SerieManejar ==
  ASSUME TipoInv, FirmaInv, EnSerie, NEW e \in Avisos, Manejar(e)
  PROVE  EnSerie'
<1>0. DOMAIN aviso = Avisos /\ DOMAIN aviso[e] = CamposDeAviso BY AvisoTipo
<1>1. CASE LeerStatus(e) BY <1>1, SerieLeerStatus
<1>2. CASE EscribirStatus(e) BY <1>2, SerieEscribirStatus
<1>3. CASE FecharActivacion(e) BY <1>3, SerieFechar
<1>4. CASE ~(LeerStatus(e) \/ EscribirStatus(e) \/ FecharActivacion(e))
  <2>1. UNCHANGED <<campania, activacion>> BY <1>4, EscribeManejar DEF FirmaInv
  <2>2. aviso'[e].status = aviso[e].status /\ aviso'[e].activacion = aviso[e].activacion
    <3>1. CASE GuardarFirma(e) BY <1>0, <3>1 DEF GuardarFirma, CamposDeAviso
    <3>2. CASE LeerActivacionDeAviso(e)
      BY <1>0, <3>2 DEF LeerActivacionDeAviso, CamposDeAviso
    <3>3. CASE LeerOrdenes(e) BY <1>0, <3>3 DEF LeerOrdenes, CamposDeAviso
    <3>4. CASE CargarOrden(e)
      <4>1. \/ aviso' = [aviso EXCEPT ![e].montos = "no", ![e].partida = 0, ![e].orden = "-"]
            \/ \E x : aviso' = [aviso EXCEPT ![e].montos = "cargos", ![e].ordenes = @ \ {x},
                                         ![e].orden = x[1]]
        BY <3>4 DEF CargarOrden
      <4>2. CASE aviso' = [aviso EXCEPT ![e].montos = "no", ![e].partida = 0, ![e].orden = "-"]
        BY <1>0, <4>2 DEF CamposDeAviso
      <4>3. ASSUME NEW x, aviso' = [aviso EXCEPT ![e].montos = "cargos", ![e].ordenes = @ \ {x},
                                             ![e].orden = x[1]]
            PROVE  aviso'[e].status = aviso[e].status /\ aviso'[e].activacion = aviso[e].activacion
        BY <1>0, <4>3 DEF CamposDeAviso
      <4> QED BY <4>1, <4>2, <4>3
    <3>5. CASE EscribirOrden(e) BY <1>0, <3>5 DEF EscribirOrden, CamposDeAviso
    <3>6. CASE AvanzarLibro(e) BY <3>6 DEF AvanzarLibro, varsCampania
    <3> QED BY <1>4, <3>1, <3>2, <3>3, <3>4, <3>5, <3>6 DEF Manejar
  <2> QED BY <2>1, <2>2, SerieManejarOtros
<1> QED BY <1>1, <1>2, <1>3, <1>4

----
(* What arrives, in series. *)

LEMMA NadaEnCurso ==
  ASSUME TipoInv, Quieto
  PROVE  /\ SinAvisos /\ SinCobros /\ \A h \in Hilos : peticion[h] = SinPeticion
         /\ \A e \in Avisos : aviso[e].status = "no"
         /\ \A h \in Hilos : \A d : ~Guarda(h, d)
<1>1. SinAvisos /\ SinCobros /\ \A h \in Hilos : peticion[h] = SinPeticion
  BY LibreEs DEF Quieto, SinAvisos, SinCobros
<1> QED BY <1>1, SinNada DEF SinAvisos, EnCurso, Guarda

\* The rows that a step leaves alone, but for the status of the documents.
LEMMA SerieQuieta ==
  ASSUME TipoInv, EnSerie, SinAvisos, \A h \in Hilos : \A d : ~Guarda(h, d),
         UNCHANGED <<campania, activacion, aviso>>,
         \A d \in Envios : /\ documento[d] = SinDocumento => documento'[d] = SinDocumento
                           /\ documento'[d].campania = documento[d].campania
                           /\ documento'[d].accion = documento[d].accion
                           /\ documento'[d].activacion = documento[d].activacion
  PROVE  /\ \A d \in Envios : DocumentoSerio(d)'
         /\ \A c \in Campanias : CampaniaSeria(c)'
         /\ \A e \in Avisos : AvisoSerio(e)'
<1>1. \A c : UltimaActivacion(c)' = UltimaActivacion(c) BY UltimaIgual
<1>2. \A d \in Envios : Notificado(d)' <=> Notificado(d) BY DEF Notificado
<1>3. ASSUME NEW d \in Envios PROVE DocumentoSerio(d)'
  <2>1. DocumentoSerio(d) BY DEF EnSerie
  <2> QED BY <1>1, <1>2, <2>1, DocumentoQuieto
<1>4. ASSUME NEW c \in Campanias PROVE CampaniaSeria(c)'
  <2>1. CampaniaSeria(c) BY DEF EnSerie
  <2> QED BY <1>1, <2>1, CampaniaQuieta
<1>5. ASSUME NEW e \in Avisos PROVE AvisoSerio(e)'
  <2>1. AvisoSerio(e) /\ aviso[e].status = "no" BY DEF EnSerie, SinAvisos, EnCurso
  <2> QED BY <2>1 DEF AvisoSerio
<1> QED BY <1>3, <1>4, <1>5

LEMMA SeriePedir ==
  ASSUME TipoInv, EnSerie, NEW h \in Hilos, NEW regular \in BOOLEAN, NEW nueva,
         Pedir(h, regular, nueva), incidentes' = 0,
         nueva.op \notin {"activar", "desactivar"},
         nueva.en \in {"guardarNueva", "limpiar", "leer"},
         nueva.en = "guardarNueva" => nueva.op = "crear" /\ campania[nueva.campania] = "NO_EXISTE"
  PROVE  EnSerie'
<1>1. /\ peticion'[h] = nueva /\ \A g \in Hilos : g # h => peticion'[g] = peticion[g]
      /\ UNCHANGED <<campania, activacion, partida, documento, aviso, cobro>> /\ Llegar(regular)
  BY DEF Pedir, filas, TipoInv, PeticionesBien
<1>2. Quieto BY <1>1, LlegarEnSerie
<1>3. SinAvisos /\ SinCobros /\ (\A g \in Hilos : peticion[g] = SinPeticion)
      /\ \A g \in Hilos : \A d : ~Guarda(g, d)
  BY <1>2, NadaEnCurso
<1>4. /\ \A d \in Envios : DocumentoSerio(d)'
      /\ \A c \in Campanias : CampaniaSeria(c)'
      /\ \A e \in Avisos : AvisoSerio(e)'
  BY <1>1, <1>3, SerieQuieta
<1>5. SinAvisos' /\ SinCobros' BY <1>1, <1>3 DEF SinAvisos, SinCobros, EnCurso, Cobrando
<1>6. Solo' BY <1>1, <1>3, <1>5, SinNada DEF Solo, SinAvisos, SinCobros
<1>7. ASSUME NEW g \in Hilos PROVE PeticionSeria(peticion[g])'
  <2>1. CASE g # h BY <1>1, <1>3, <2>1, SeriaSinNada
  <2>2. CASE g = h
    BY <1>1, <2>2 DEF PeticionSeria, CreacionSeria, FirmaSeria, CierreSerio, ActualizacionSeria,
                      RenovacionSeria
  <2> QED BY <2>1, <2>2
<1>8. \A k \in Cobros : CobroSerio(k)' BY <1>5 DEF CobroSerio, SinCobros, Cobrando
<1>9. \A p \in DOMAIN partida' : partida'[p].existe BY <1>1 DEF EnSerie
<1> QED BY <1>4, <1>6, <1>7, <1>8, <1>9 DEF EnSerie

LEMMA SerieSolicitar ==
  ASSUME TipoInv, EnSerie, NEW h \in Hilos, Solicitar(h), incidentes' = 0
  PROVE  EnSerie'
<1>0. DOMAIN SinPeticion = Campos BY SinNada
<1>1. ASSUME NEW c \in Campanias, PedirCrear(h, c) PROVE EnSerie'
  <2>1. PICK en \in {"guardarNueva", "limpiar"} :
          Pedir(h, TRUE, [SinPeticion EXCEPT !.op = "crear", !.en = en, !.campania = c])
    BY <1>1 DEF PedirCrear
  <2> DEFINE r == [SinPeticion EXCEPT !.op = "crear", !.en = en, !.campania = c]
  <2>2. r.op = "crear" /\ r.en = en /\ r.campania = c BY <1>0 DEF Campos
  <2>3. campania[c] = "NO_EXISTE" BY <1>1 DEF PedirCrear
  <2> HIDE DEF r
  <2>4. Pedir(h, TRUE, r) BY <2>1 DEF r
  <2> QED BY <2>2, <2>3, <2>4, SeriePedir
<1>2. ASSUME NEW c \in Campanias, NEW op \in {"actualizar", "quitar", "renovar", "activar"},
             PedirSobre(h, op, c)
      PROVE  EnSerie'
  <2> DEFINE r == [SinPeticion EXCEPT !.op = op, !.campania = c,
                               !.en = IF op = "activar" THEN "partida" ELSE "leer"]
  <2>1. r.op = op /\ r.en = (IF op = "activar" THEN "partida" ELSE "leer")
    BY <1>0 DEF Campos
  <2>2. Pedir(h, op # "activar", r) BY <1>2 DEF PedirSobre
  <2> HIDE DEF r
  <2>3. op # "activar"
    <3>1. Llegar(op # "activar") BY <2>2 DEF Pedir
    <3> QED BY <3>1, LlegarEnSerie
  <2> QED BY <2>1, <2>2, <2>3, SeriePedir
<1>3. ASSUME NEW c \in Campanias, NEW a \in DOMAIN activacion, PedirCerrar(h, c, a)
      PROVE  EnSerie'
  <2> DEFINE r == [SinPeticion EXCEPT !.op = "cerrar", !.en = "leer", !.campania = c,
                               !.activacion = a]
  <2>1. r.op = "cerrar" /\ r.en = "leer" BY <1>0 DEF Campos
  <2>2. Pedir(h, a = UltimaActivacion(c), r) BY <1>3 DEF PedirCerrar
  <2> HIDE DEF r
  <2> QED BY <2>1, <2>2, SeriePedir
<1>4. ASSUME NEW c \in Campanias, NEW accion \in Acciones, NEW d \in Envios,
             PedirFirma(h, c, accion, d)
      PROVE  EnSerie'
  <2> DEFINE r == [SinPeticion EXCEPT !.op = "firmar", !.en = "leer", !.campania = c,
                                        !.accion = accion, !.doc = d]
  <2>1. r.op = "firmar" /\ r.en = "leer" BY <1>0 DEF Campos
  <2>2. Pedir(h, TRUE, r) BY <1>4 DEF PedirFirma
  <2> HIDE DEF r
  <2> QED BY <2>1, <2>2, SeriePedir
<1>5. ASSUME NEW c \in Campanias, NEW o \in Ordenes, NEW total \in Totales,
             PedirOrden(h, c, o, total)
      PROVE  EnSerie'
  <2> DEFINE r == [SinPeticion EXCEPT !.op = "ordenar", !.en = "leer", !.campania = c,
                               !.orden = o, !.total = total]
  <2>1. r.op = "ordenar" /\ r.en = "leer" BY <1>0 DEF Campos
  <2>2. Pedir(h, campania[c] \in Editables, r) BY <1>5 DEF PedirOrden
  <2> HIDE DEF r
  <2>3. campania[c] \in Editables
    <3>1. Llegar(campania[c] \in Editables) /\ incidentes \in Nat
      BY <2>2, CampaniasAssumption DEF Pedir, TipoInv, CuposBien
    <3> QED BY <3>1 DEF Llegar
  <2>4. Pedir(h, TRUE, r) BY <2>2, <2>3 DEF Pedir, Llegar
  <2> QED BY <2>1, <2>4, SeriePedir
<1> QED BY <1>1, <1>2, <1>3, <1>4, <1>5 DEF Solicitar

LEMMA SerieEnviar ==
  ASSUME TipoInv, EnSerie, NEW d \in Envios, EnviarAFirmamex(d), incidentes' = 0
  PROVE  EnSerie'
<1>0. documento[d] # SinDocumento
  <2>1. SinDocumento.estatus = "NO_EXISTE" BY DEF SinDocumento
  <2> QED BY <2>1 DEF EnviarAFirmamex
<1>1. /\ documento' = [documento EXCEPT ![d].estatus = "enviado"] /\ Llegar(TRUE)
      /\ UNCHANGED <<campania, activacion, partida, peticion, aviso, cobro>>
  BY DEF EnviarAFirmamex
<1>2. Quieto BY <1>1, LlegarEnSerie
<1>3. SinAvisos /\ SinCobros /\ (\A g \in Hilos : peticion[g] = SinPeticion)
      /\ \A g \in Hilos : \A x : ~Guarda(g, x)
  BY <1>2, NadaEnCurso
<1>4. /\ \A x \in Envios : DocumentoSerio(x)'
      /\ \A c \in Campanias : CampaniaSeria(c)'
      /\ \A e \in Avisos : AvisoSerio(e)'
  BY <1>0, <1>1, <1>3, DocumentoFirmado, SerieQuieta
<1>5. SinCobros' /\ Solo'
  BY <1>1, <1>3 DEF EnSerie, Solo, SinAvisos, SinCobros, EnCurso, Cobrando
<1>6. \A g \in Hilos : PeticionSeria(peticion[g])' BY <1>1, <1>3, SeriaSinNada
<1>7. \A k \in Cobros : CobroSerio(k)' BY <1>5 DEF CobroSerio, SinCobros, Cobrando
<1>8. \A p \in DOMAIN partida' : partida'[p].existe BY <1>1 DEF EnSerie
<1> QED BY <1>4, <1>5, <1>6, <1>7, <1>8 DEF EnSerie

\* A notification finds the campaign waiting for its document, the only one.
LEMMA SerieRecibir ==
  ASSUME TipoInv, EnSerie, NEW e \in Avisos, Recibir(e), incidentes' = 0
  PROVE  EnSerie'
<1>1. /\ documento[Doc(e)].estatus \in {"enviado", "APROBADA"} /\ ~aviso[e].recibido
      /\ aviso' = [aviso EXCEPT ![e].recibido = TRUE, ![e].guardar = TRUE, ![e].status = "leer",
                            ![e].montos = "activacion"]
      /\ Llegar(e[2] = 1)
      /\ UNCHANGED <<campania, activacion, partida, documento, peticion, cobro>>
  BY DEF Recibir, filas
<1>2. Quieto /\ e[2] = 1
  <2>1. Quieto /\ e[2] = 1
    <3>1. incidentes \in Nat BY CampaniasAssumption DEF TipoInv, CuposBien
    <3> QED BY <1>1, <3>1 DEF Llegar
  <2> QED BY <2>1
<1>3. /\ SinAvisos /\ SinCobros /\ (\A h \in Hilos : peticion[h] = SinPeticion)
      /\ (\A n \in Avisos : aviso[n].status = "no")
      /\ \A h \in Hilos : \A d : ~Guarda(h, d)
  BY <1>2, NadaEnCurso
<1>4. Doc(e) \in Envios /\ documento[Doc(e)] # SinDocumento
  <2>1. Doc(e) \in Envios BY DEF Avisos, Doc
  <2>2. SinDocumento.estatus = "NO_EXISTE" BY DEF SinDocumento
  <2> QED BY <1>1, <2>1, <2>2
<1>5. PICK d0 \in Envios : d0 = Doc(e) BY <1>4
<1>6. PICK c0 \in Campanias : c0 = documento[d0].campania
  BY <1>4, <1>5 DEF TipoInv, DocumentosBien, DocumentoBien
<1>7. /\ \A n \in Avisos : n # e => aviso'[n] = aviso[n]
      /\ aviso'[e].recibido /\ aviso'[e].status = "leer"
  BY <1>1, AvisoTipo DEF CamposDeAviso
<1>8. ~Notificado(d0)
  <2> SUFFICES ASSUME NEW n \in Avisos, aviso[n].recibido, Doc(n) = d0 PROVE FALSE
    BY DEF Notificado
  <2>1. n[2] = 1 BY DEF EnSerie, AvisoSerio
  <2>2. n = e BY <1>2, <1>5, <2>1 DEF Avisos, Doc
  <2> QED BY <1>1, <2>2
<1>9. /\ documento[d0].activacion = UltimaActivacion(c0) /\ campania[c0] = "PENDIENTE"
      /\ \A x \in Envios : documento[x].campania = c0 /\ ~Notificado(x) => x = d0
  <2>1. DocumentoSerio(d0) BY DEF EnSerie
  <2> QED BY <1>3, <1>4, <1>5, <1>6, <1>8, <2>1 DEF DocumentoSerio
<1>10. \A d \in Envios : Notificado(d)' <=> Notificado(d) \/ d = d0
  BY <1>5, <1>7 DEF Notificado
<1>11. \A x : UltimaActivacion(x)' = UltimaActivacion(x) BY <1>1, UltimaIgual
<1>12. ASSUME NEW d \in Envios PROVE DocumentoSerio(d)'
  <2>1. DocumentoSerio(d) BY DEF EnSerie
  <2> QED BY <1>1, <1>3, <1>10, <1>11, <2>1, DocumentoQuieto
<1>13. CampaniaDe(e)' = c0 /\ UltimaActivacion(CampaniaDe(e))' = UltimaActivacion(c0)
  BY <1>1, <1>5, <1>6 DEF CampaniaDe, UltimaActivacion, ActivacionesDe
<1>14. ASSUME NEW c \in Campanias PROVE CampaniaSeria(c)'
  <2>1. CampaniaSeria(c) BY DEF EnSerie
  <2>2. ASSUME campania[c] = "PENDIENTE"
        PROVE  \/ \E d \in Envios : documento'[d].campania = c /\ ~Notificado(d)'
               \/ \E n \in Avisos : aviso'[n].status \in {"leer", "escribir"} /\ CampaniaDe(n)' = c
    <3>1. CASE c = c0 BY <1>7, <1>13, <3>1
    <3>2. CASE c # c0
      <4>1. PICK d \in Envios : documento[d].campania = c /\ ~Notificado(d)
        BY <1>3, <2>1, <2>2 DEF CampaniaSeria
      <4>2. ~Notificado(d)' BY <1>6, <1>10, <3>2, <4>1
      <4> QED BY <1>1, <4>1, <4>2
    <3> QED BY <3>1, <3>2
  <2>3. ASSUME campania[c] = "APROBADA"
        PROVE  /\ \E d \in Envios : /\ documento'[d].campania = c /\ Notificado(d)'
                                    /\ documento'[d].accion = "APPROVE"
                                    /\ documento'[d].activacion = UltimaActivacion(c)
               /\ activacion'[UltimaActivacion(c)].aprobada
    <3>1. /\ \E d \in Envios : /\ documento[d].campania = c /\ Notificado(d)
                              /\ documento[d].accion = "APPROVE"
                              /\ documento[d].activacion = UltimaActivacion(c)
          /\ activacion[UltimaActivacion(c)].aprobada
      BY <1>3, <2>1, <2>3 DEF CampaniaSeria
    <3> QED BY <1>1, <1>10, <3>1
  <2> QED BY <1>1, <1>11, <2>2, <2>3 DEF CampaniaSeria
<1>15. ASSUME NEW n \in Avisos PROVE AvisoSerio(n)'
  <2>1. CASE n # e
    <3>1. aviso[n].recibido => n[2] = 1 BY DEF EnSerie, AvisoSerio
    <3>2. aviso'[n].recibido = aviso[n].recibido /\ aviso'[n].status = "no"
      BY <1>3, <1>7, <2>1
    <3> QED BY <3>1, <3>2 DEF AvisoSerio
  <2>2. CASE n = e
    <3>1. \A x \in Envios : documento'[x].campania = c0 => Notificado(x)'
      BY <1>1, <1>9, <1>10
    <3>2. campania'[c0] = "PENDIENTE" /\ documento'[d0].activacion = UltimaActivacion(c0)
      BY <1>1, <1>9
    <3>3. Doc(e) = d0 BY <1>5
    <3> QED BY <1>2, <1>7, <1>13, <2>2, <3>1, <3>2, <3>3 DEF AvisoSerio
  <2> QED BY <2>1, <2>2
<1>16. SinCobros' /\ Solo'
  <2>1. SinCobros' BY <1>1, <1>3 DEF SinCobros, Cobrando
  <2>2. \A n \in Avisos : n # e => ~EnCurso(n)' BY <1>3, <1>7 DEF SinAvisos, EnCurso
  <2>3. \A h \in Hilos : peticion'[h].en = "libre" BY <1>1, <1>3, SinNada
  <2> QED BY <2>1, <2>2, <2>3 DEF Solo, SinCobros
<1>17. \A g \in Hilos : PeticionSeria(peticion[g])' BY <1>1, <1>3, SeriaSinNada
<1>18. \A k \in Cobros : CobroSerio(k)' BY <1>16 DEF CobroSerio, SinCobros, Cobrando
<1>19. \A p \in DOMAIN partida' : partida'[p].existe BY <1>1 DEF EnSerie
<1> QED BY <1>12, <1>14, <1>15, <1>16, <1>17, <1>18, <1>19 DEF EnSerie

----
(* The charges of the matches, in series. *)

\* A charge that begins, or goes on, is the only thing in progress.
LEMMA SerieDeCobro ==
  ASSUME TipoInv, EnSerie, NEW k \in Cobros, SinAvisos, \A h \in Hilos : peticion[h] = SinPeticion,
         \A j \in Cobros : j # k => ~Cobrando(j) /\ cobro'[j] = cobro[j],
         CobroSerio(k)', \A p \in DOMAIN partida' : partida'[p].existe,
         UNCHANGED <<campania, activacion, documento, peticion, aviso>>
  PROVE  EnSerie'
<1>1. \A h \in Hilos : \A d : ~Guarda(h, d) BY SinNada DEF Guarda
<1>2. /\ \A d \in Envios : DocumentoSerio(d)'
      /\ \A c \in Campanias : CampaniaSeria(c)'
      /\ \A e \in Avisos : AvisoSerio(e)'
  BY <1>1, SerieQuieta
<1>3. SinAvisos' /\ \A h \in Hilos : peticion'[h].en = "libre"
  BY SinNada DEF SinAvisos, EnCurso
<1>4. \A j \in Cobros : j # k => ~Cobrando(j)' BY DEF Cobrando
<1>5. Solo' BY <1>3, <1>4 DEF Solo, SinAvisos
<1>6. \A h \in Hilos : PeticionSeria(peticion[h])' BY SeriaSinNada
<1>7. \A j \in Cobros : CobroSerio(j)' BY <1>4 DEF CobroSerio, Cobrando
<1> QED BY <1>2, <1>5, <1>6, <1>7 DEF EnSerie

LEMMA SeriePedirCobro ==
  ASSUME TipoInv, EnSerie, NEW k \in Cobros, NEW evento, NEW o, NEW total,
         PedirCobro(k, evento, o, total), incidentes' = 0
  PROVE  EnSerie'
<1> DEFINE r == [SinCobro EXCEPT !.en = "leer", !.evento = evento, !.orden = o, !.total = total]
<1>1. cobro' = [cobro EXCEPT ![k] = r] /\ Llegar(TRUE)
      /\ UNCHANGED <<campania, activacion, partida, documento, peticion, aviso>>
  BY DEF PedirCobro, filas
<1>2. r.en = "leer" BY DEF SinCobro
<1> HIDE DEF r
<1>3. Quieto BY <1>1, LlegarEnSerie
<1>4. SinAvisos /\ SinCobros /\ \A g \in Hilos : peticion[g] = SinPeticion
  BY <1>3, NadaEnCurso
<1>5. cobro'[k] = r /\ \A j \in Cobros : j # k => cobro'[j] = cobro[j] BY <1>1, CobroTipo
<1>6. CobroSerio(k)' BY <1>2, <1>5 DEF CobroSerio
<1>7. \A p \in DOMAIN partida' : partida'[p].existe BY <1>1 DEF EnSerie
<1> QED BY <1>1, <1>4, <1>5, <1>6, <1>7, SerieDeCobro DEF SinCobros

LEMMA SoloCobrar ==
  ASSUME TipoInv, EnSerie, NEW k \in Cobros, Cobrar(k)
  PROVE  /\ SinAvisos /\ \A h \in Hilos : peticion[h] = SinPeticion
         /\ \A j \in Cobros : j # k => ~Cobrando(j) /\ cobro'[j] = cobro[j]
         /\ UNCHANGED <<vars, campania, activacion, orden, documento, peticion, aviso, incidentes>>
<1>1. /\ Cobrando(k) /\ \A j \in Cobros : j # k => cobro'[j] = cobro[j]
      /\ UNCHANGED <<vars, campania, activacion, orden, documento, peticion, aviso, incidentes>>
  <2>1. CASE LeerPartida(k)
    <3>1. cobro[k].en = "leer" /\ UNCHANGED <<vars, filas, peticion, aviso, incidentes>>
      BY <2>1 DEF LeerPartida
    <3>2. \A j \in Cobros : j # k => cobro'[j] = cobro[j]
      BY <2>1, CobroTipo DEF LeerPartida
    <3> QED BY <3>1, <3>2 DEF Cobrando, filas
  <2>2. CASE EscribirPartida(k) BY <2>2, CobroTipo DEF EscribirPartida, Cobrando
  <2> QED BY <2>1, <2>2 DEF Cobrar
<1>2. SinAvisos /\ (\A h \in Hilos : peticion[h].en = "libre")
      /\ \A j \in Cobros : j # k => ~Cobrando(j)
  BY <1>1 DEF EnSerie, Solo, SinAvisos, SinCobros
<1> QED BY <1>1, <1>2, LibreEs

LEMMA SerieLeerPartida ==
  ASSUME TipoInv, EnSerie, NEW k \in Cobros, LeerPartida(k)
  PROVE  EnSerie'
<1> DEFINE acts == IF HayOrden(cobro[k].orden) THEN ActivacionesDe(orden[cobro[k].orden].campania)
                   ELSE {}
<1>0. Cobrar(k) BY DEF Cobrar
<1>1. cobro[k].en = "leer" /\ UNCHANGED partida BY DEF LeerPartida, filas
<1>2. CobroSerio(k)'
  <2>1. CASE cobro' = [cobro EXCEPT ![k].en = "rechazado"]
    <3>1. cobro'[k].en = "rechazado" BY <2>1, CobroTipo DEF CamposDeCobro
    <3> QED BY <3>1 DEF CobroSerio
  <2>2. ASSUME NEW a \in acts, Cobrable(activacion[a].partida),
             cobro' = [cobro EXCEPT ![k].en = "escribir", ![k].partida = activacion[a].partida,
                                    ![k].montos = partida[activacion[a].partida].montos]
        PROVE  CobroSerio(k)'
    <3> DEFINE p == activacion[a].partida
               m == partida[p].montos
    <3>1. a \in 1..Len(activacion) /\ activacion[a].campania \in Campanias
      <4>1. acts \subseteq ActivacionesDe(orden[cobro[k].orden].campania) /\ HayOrden(cobro[k].orden)
        BY <2>2
      <4>2. cobro[k].orden \in Ordenes BY <1>1, CobroTipo DEF CobroBien
      <4>3. orden[cobro[k].orden].campania \in Campanias
        BY <4>1, <4>2 DEF TipoInv, OrdenesBien, Orden, HayOrden
      <4> QED BY <2>2, <4>1, <4>3, Longitudes DEF ActivacionesDe, TipoInv
    <3>2. p # 0 /\ partida[p].estatus
      <4>1. RenglonBien(activacion[a], a, Len(partida)) /\ activacion[a].campania # "-"
        BY <3>1, CampaniasAssumption DEF TipoInv, ActivacionesBien
      <4> QED BY <2>2, <4>1 DEF RenglonBien, Cobrable
    <3> HIDE DEF p
    <3> HIDE DEF m
    <3>3. cobro' = [cobro EXCEPT ![k].en = "escribir", ![k].partida = p, ![k].montos = m]
      BY <2>2 DEF p, m
    <3>4. cobro'[k].partida = p /\ cobro'[k].montos = m
      BY <3>3, CobroTipo DEF CamposDeCobro
    <3>5. partida'[p].estatus /\ m = partida'[p].montos BY <1>1, <3>2 DEF m
    <3> QED BY <3>2, <3>4, <3>5 DEF CobroSerio
  <2> QED BY <2>1, <2>2 DEF LeerPartida
<1>3. \A p \in DOMAIN partida' : partida'[p].existe BY <1>1 DEF EnSerie
<1> QED BY <1>0, <1>2, <1>3, SoloCobrar, SerieDeCobro

LEMMA TotalesEnteros == \A t \in Totales : t \in Nat /\ t \in Int
<1>1. Totales \subseteq Nat \ {0} BY CampaniasAssumption
<1> QED BY <1>1

\* What is written to the match that was read, which is still open.
LEMMA EscribirPartidaEs ==
  ASSUME TipoInv, EnSerie, NEW k \in Cobros, EscribirPartida(k),
         NEW p, p = cobro[k].partida,
         NEW m, m = escribir(partida[p].montos,
                             MontosDe(cobro[k].evento, partida[p].montos, cobro[k].total),
                             ColumnasDe(cobro[k].evento))
  PROVE  /\ p \in 1..Len(partida) /\ p \in DOMAIN partida /\ partida[p].estatus
         /\ partida[p].montos \in Montos /\ m \in Montos
         /\ cobro[k].total \in Totales /\ cobro[k].evento \in EventosPartida
         /\ partida' = [partida EXCEPT ![p].montos = m]
         /\ partida'[p].montos = m /\ partida'[p].estatus = partida[p].estatus
         /\ partida'[p].existe = partida[p].existe
         /\ DOMAIN partida' = DOMAIN partida
         /\ \A q \in DOMAIN partida : q # p => partida'[q] = partida[q]
         /\ cobro[k].en = "escribir" /\ cobro'[k].en = "hecho"
         /\ cobro'[k].evento = cobro[k].evento /\ cobro'[k].total = cobro[k].total
<1>1. /\ cobro[k].en = "escribir"
      /\ partida' = (IF HayPartida(p)
            THEN [partida EXCEPT ![p].montos =
                    escribir(@, MontosDe(cobro[k].evento, cobro[k].montos, cobro[k].total),
                             ColumnasDe(cobro[k].evento))]
            ELSE partida)
      /\ cobro' = [cobro EXCEPT ![k].en = "hecho", ![k].partida = 0, ![k].montos = Cero]
  BY DEF EscribirPartida
<1>2. CobroBien(cobro[k], Len(partida)) /\ CobroSerio(k)
      /\ DOMAIN cobro[k] = CamposDeCobro /\ DOMAIN cobro = Cobros
  BY CobroTipo DEF EnSerie
<1>3. p # 0 /\ partida[p].estatus /\ cobro[k].montos = partida[p].montos
  BY <1>1, <1>2 DEF CobroSerio
<1>4. p \in 1..Len(partida) /\ p \in DOMAIN partida
  <2>1. p \in 0..Len(partida) /\ Len(partida) \in Nat /\ DOMAIN partida = 1..Len(partida)
    BY <1>2, Longitudes DEF CobroBien, TipoInv
  <2> QED BY <1>3, <2>1
<1>5. HayPartida(p) BY <1>4 DEF EnSerie, HayPartida
<1>6. cobro[k].total \in Totales /\ cobro[k].evento \in EventosPartida
  BY <1>1, <1>2 DEF CobroBien
<1>7. partida[p] \in Partida BY <1>4 DEF TipoInv, PartidasBien
<1>8. partida[p].montos \in Montos /\ DOMAIN partida[p] = {"existe", "estatus", "montos"}
  BY <1>7 DEF Partida
<1>9. m \in Montos
  <2> DEFINE nuevos == MontosDe(cobro[k].evento, partida[p].montos, cobro[k].total)
  <2>1. nuevos \in Montos
    <3>1. cobro[k].total \in Int BY <1>6, TotalesEnteros
    <3> QED BY <1>8, <3>1, MontosDeTipo
  <2> HIDE DEF nuevos
  <2>2. m = escribir(partida[p].montos, nuevos, ColumnasDe(cobro[k].evento)) BY DEF nuevos
  <2> QED BY <1>8, <2>1, <2>2 DEF escribir, Montos
<1>10. partida' = [partida EXCEPT ![p].montos = m] BY <1>1, <1>3, <1>5
<1>11. /\ partida'[p].montos = m /\ partida'[p].estatus = partida[p].estatus
       /\ partida'[p].existe = partida[p].existe
       /\ DOMAIN partida' = DOMAIN partida
       /\ \A q \in DOMAIN partida : q # p => partida'[q] = partida[q]
  BY <1>4, <1>8, <1>10
<1>12. cobro'[k].en = "hecho" /\ cobro'[k].evento = cobro[k].evento
       /\ cobro'[k].total = cobro[k].total
  BY <1>1, <1>2 DEF CamposDeCobro
<1> QED BY <1>1, <1>3, <1>4, <1>6, <1>8, <1>9, <1>10, <1>11, <1>12

LEMMA SerieEscribirPartida ==
  ASSUME TipoInv, EnSerie, NEW k \in Cobros, EscribirPartida(k)
  PROVE  EnSerie'
<1>1. \E p, m : /\ DOMAIN partida' = DOMAIN partida /\ p \in DOMAIN partida
                /\ partida'[p].existe = partida[p].existe
                /\ \A q \in DOMAIN partida : q # p => partida'[q] = partida[q]
                /\ cobro'[k].en = "hecho"
  BY EscribirPartidaEs
<1>2. \A p \in DOMAIN partida' : partida'[p].existe BY <1>1 DEF EnSerie
<1>3. CobroSerio(k)' BY <1>1 DEF CobroSerio
<1>4. Cobrar(k) BY DEF Cobrar
<1> QED BY <1>2, <1>3, <1>4, SoloCobrar, SerieDeCobro

----
(* From the beginning, and step after step. *)

LEMMA SerieInicial ==
  ASSUME InitCampania
  PROVE  EnSerie
<1>1. /\ \A h \in Hilos : peticion[h] = SinPeticion
      /\ \A e \in Avisos : aviso[e] = SinAviso
      /\ \A k \in Cobros : cobro[k] = SinCobro
      /\ \A d \in Envios : documento[d] = SinDocumento
  BY DEF InitCampania
<1>2. SinAviso.status = "no" /\ SinAviso.montos = "no" /\ ~SinAviso.guardar /\ ~SinAviso.recibido
  BY DEF SinAviso
<1>3. SinCobro.en = "nuevo" BY DEF SinCobro
<1>4. Solo BY <1>1, <1>2, <1>3, SinNada DEF Solo, EnCurso, Cobrando
<1>5. \A d \in Envios : DocumentoSerio(d) BY <1>1 DEF DocumentoSerio
<1>6. \A e \in Avisos : AvisoSerio(e) BY <1>1, <1>2 DEF AvisoSerio
<1>7. \A c \in Campanias : CampaniaSeria(c)
  BY DEF InitCampania, CampaniasIniciales, CampaniaSeria
<1>8. ASSUME NEW h \in Hilos PROVE PeticionSeria(peticion[h])
  <2>1. peticion[h].op = "-" /\ peticion[h].en = "libre" BY <1>1, SinNada
  <2> QED BY <2>1 DEF PeticionSeria, CreacionSeria, FirmaSeria, CierreSerio, ActualizacionSeria,
                      RenovacionSeria
<1>9. \A k \in Cobros : CobroSerio(k) BY <1>1, <1>3 DEF CobroSerio
<1>10. \A p \in DOMAIN partida : partida[p].existe
  <2>1. NuevaPartida.existe BY DEF NuevaPartida
  <2> QED BY <2>1 DEF InitCampania, CampaniasIniciales
<1> QED BY <1>4, <1>5, <1>6, <1>7, <1>8, <1>9, <1>10 DEF EnSerie

LEMMA SerieIgual ==
  ASSUME EnSerie, UNCHANGED <<filas, peticion, aviso, cobro>>
  PROVE  EnSerie'
<1>1. UNCHANGED <<campania, activacion, partida, documento, peticion, aviso, cobro>>
  BY DEF filas
<1>2. Solo' BY <1>1 DEF EnSerie, Solo, SinAvisos, SinCobros, EnCurso, Cobrando
<1>3. \A d \in Envios : DocumentoSerio(d)'
  BY <1>1 DEF EnSerie, DocumentoSerio, Existe, Guarda, Notificado, UltimaActivacion, ActivacionesDe
<1>4. \A e \in Avisos : AvisoSerio(e)'
  BY <1>1 DEF EnSerie, AvisoSerio, CampaniaDe, Notificado, UltimaActivacion, ActivacionesDe
<1>5. \A c \in Campanias : CampaniaSeria(c)'
  BY <1>1 DEF EnSerie, CampaniaSeria, CampaniaDe, Notificado, UltimaActivacion, ActivacionesDe
<1>6. ASSUME NEW h \in Hilos PROVE PeticionSeria(peticion[h])'
  <2>1. PICK q : q = peticion[h] OBVIOUS
  <2>2. PeticionSeria(q) BY <2>1 DEF EnSerie
  <2>5. peticion'[h] = q BY <1>1, <2>1
  <2>6. UltimaActivacion(peticion[h].campania)' = UltimaActivacion(q.campania)
    BY <1>1, <2>1 DEF UltimaActivacion, ActivacionesDe
  <2>7. Renglones(peticion[h].campania)' = Renglones(q.campania)
    BY <1>1, <2>1 DEF Renglones, ActivacionesDe
  <2>8. Notificado(peticion[h].doc)' <=> Notificado(q.doc) BY <1>1, <2>1 DEF Notificado
  <2> QED BY <1>1, <2>2, <2>5, <2>6, <2>7, <2>8
          DEF PeticionSeria, CreacionSeria, FirmaSeria, CierreSerio, ActualizacionSeria,
              RenovacionSeria
<1>7. \A k \in Cobros : CobroSerio(k)' BY <1>1 DEF EnSerie, CobroSerio
<1>8. \A p \in DOMAIN partida' : partida'[p].existe BY <1>1 DEF EnSerie
<1> QED BY <1>2, <1>3, <1>4, <1>5, <1>6, <1>7, <1>8 DEF EnSerie

\* What a step can be while there are no incidents, and that there were none.
LEMMA PasoEnSerie ==
  ASSUME TipoInv, [NextCampania]_todas, incidentes' = 0
  PROVE  /\ incidentes = 0
         /\ \/ UNCHANGED todas
            \/ \E h \in Hilos : Solicitar(h) /\ Quieto
            \/ \E h \in Hilos : Atender(h)
            \/ \E d \in Envios : EnviarAFirmamex(d) /\ Quieto
            \/ \E e \in Avisos : Recibir(e) /\ Quieto
            \/ \E e \in Avisos : Manejar(e)
            \/ \E k \in Cobros : \E evento \in EventosPartida, o \in Ordenes, total \in Totales :
                 PedirCobro(k, evento, o, total) /\ Quieto
            \/ \E k \in Cobros : Cobrar(k)
<1>0. incidentes \in Nat BY CampaniasAssumption DEF TipoInv, CuposBien
<1>1. CASE UNCHANGED todas BY <1>1 DEF todas
<1>2. ASSUME NEW h \in Hilos, Solicitar(h) PROVE Quieto /\ incidentes = 0
  <2>1. \E regular : Llegar(regular)
    BY <1>2 DEF Solicitar, PedirCrear, PedirSobre, PedirCerrar, PedirFirma, PedirOrden, Pedir
  <2> QED BY <1>0, <2>1 DEF Llegar
<1>3. ASSUME NEW h \in Hilos, Atender(h) PROVE incidentes = 0 BY <1>3, SigueAtender
<1>4. ASSUME NEW h \in Hilos, FallarPeticion(h) PROVE FALSE
  BY <1>4, IncidenteEnSerie DEF FallarPeticion
<1>5. ASSUME NEW h \in Hilos, NEW a \in DOMAIN activacion, PedirDesactivar(h, a) PROVE FALSE
  <2>1. Llegar(FALSE) BY <1>5 DEF PedirDesactivar, Pedir
  <2> QED BY <2>1, LlegarEnSerie
<1>6. ASSUME NEW d \in Envios, EnviarAFirmamex(d) PROVE Quieto /\ incidentes = 0
  BY <1>6, LlegarEnSerie DEF EnviarAFirmamex
<1>7. ASSUME NEW e \in Avisos, Recibir(e) PROVE Quieto /\ incidentes = 0
  BY <1>0, <1>7 DEF Recibir, Llegar
<1>8. ASSUME NEW e \in Avisos, Manejar(e) PROVE incidentes = 0
  <2>1. UNCHANGED incidentes
    BY <1>8 DEF Manejar, GuardarFirma, LeerStatus, EscribirStatus, FecharActivacion,
                LeerActivacionDeAviso, LeerOrdenes, CargarOrden, EscribirOrden, AvanzarLibro
  <2> QED BY <2>1
<1>9. ASSUME NEW e \in Avisos, FallarAviso(e) PROVE FALSE
  BY <1>9, IncidenteEnSerie DEF FallarAviso
<1>10. ASSUME NEW k \in Cobros, NEW evento, NEW o, NEW total, PedirCobro(k, evento, o, total)
       PROVE  Quieto /\ incidentes = 0
  BY <1>10, LlegarEnSerie DEF PedirCobro
<1>11. ASSUME NEW k \in Cobros, Cobrar(k) PROVE incidentes = 0
  BY <1>11 DEF Cobrar, LeerPartida, EscribirPartida
<1>12. ASSUME NEW k \in Cobros, FallarCobro(k) PROVE FALSE
  BY <1>12, IncidenteEnSerie DEF FallarCobro
<1>13. ASSUME NEW a \in DOMAIN activacion, QuitarActivacion(a) PROVE FALSE
  BY <1>13, LlegarEnSerie DEF QuitarActivacion
<1>14. ASSUME NEW p \in DOMAIN partida, QuitarPartida(p) \/ ActualizarPartida(p, Cero) PROVE FALSE
  BY <1>14, LlegarEnSerie DEF QuitarPartida, ActualizarPartida
<1>15. ASSUME CaerServidor PROVE FALSE BY <1>15, IncidenteEnSerie DEF CaerServidor
<1> QED BY <1>1, <1>2, <1>3, <1>4, <1>5, <1>6, <1>7, <1>8, <1>9, <1>10, <1>11, <1>12, <1>13, <1>14,
           <1>15 DEF NextCampania

LEMMA PasoSerie ==
  ASSUME TipoInv, FirmaInv, SerieInv, [NextCampania]_todas
  PROVE  SerieInv'
<1> SUFFICES ASSUME incidentes' = 0 PROVE EnSerie' BY DEF SerieInv
<1>0. EnSerie BY PasoEnSerie DEF SerieInv
<1>1. CASE UNCHANGED todas BY <1>0, <1>1, SerieIgual DEF todas, varsCampania
<1>2. ASSUME NEW h \in Hilos, Solicitar(h) \/ Atender(h) PROVE EnSerie'
  BY <1>0, <1>2, SerieSolicitar, SerieAtender
<1>3. ASSUME NEW d \in Envios, EnviarAFirmamex(d) PROVE EnSerie'
  BY <1>0, <1>3, SerieEnviar
<1>4. ASSUME NEW e \in Avisos, Recibir(e) \/ Manejar(e) PROVE EnSerie'
  BY <1>0, <1>4, SerieRecibir, SerieManejar
<1>5. ASSUME NEW k \in Cobros, NEW evento, NEW o, NEW total, PedirCobro(k, evento, o, total)
      PROVE  EnSerie'
  BY <1>0, <1>5, SeriePedirCobro
<1>6. ASSUME NEW k \in Cobros, Cobrar(k) PROVE EnSerie'
  BY <1>0, <1>6, SerieLeerPartida, SerieEscribirPartida DEF Cobrar
<1> QED BY <1>1, <1>2, <1>3, <1>4, <1>5, <1>6, PasoEnSerie

LEMMA SerieSiempre == SpecCampania => [](TipoInv /\ FirmaInv /\ SerieInv)
<1>1. InitCampania => TipoInv /\ FirmaInv /\ SerieInv
  BY TipoInicial, FirmaInicial, SerieInicial DEF SerieInv
<1>2. TipoInv /\ FirmaInv /\ SerieInv /\ [NextCampania]_todas => TipoInv' /\ FirmaInv' /\ SerieInv'
  BY PasoTipo, PasoFirma, PasoSerie
<1> QED BY <1>1, <1>2, PTL DEF SpecCampania

\* Whatever overlaps or fails, no campaign, and no order of one, is approved or
\* cancelled without the signature of a document that asked for it; undisturbed,
\* the document is of the activation that is now the last, which has its date.
THEOREM FirmasDeCampania == SpecCampania => []AprobadaConFirma
<1>1. ASSUME TipoInv, FirmaInv, SerieInv PROVE AprobadaConFirma
  <2> SUFFICES ASSUME NEW c \in Campanias, Tranquilo, campania[c] = "APROBADA"
               PROVE  /\ activacion[UltimaActivacion(c)].aprobada
                      /\ \E d \in Envios : /\ Notificado(d) /\ documento[d].accion = "APPROVE"
                                           /\ documento[d].activacion = UltimaActivacion(c)
    BY <1>1 DEF AprobadaConFirma, FirmaInv, ConFirma
  <2>1. CampaniaSeria(c) BY <1>1 DEF Tranquilo, SerieInv, EnSerie
  <2>2. \A e \in Avisos : aviso[e].status = "no" BY <1>1, NadaEnCurso DEF Tranquilo
  <2>3. activacion[UltimaActivacion(c)].aprobada BY <2>1, <2>2 DEF CampaniaSeria
  <2>4. \E d \in Envios : /\ Notificado(d) /\ documento[d].accion = "APPROVE"
                          /\ documento[d].activacion = UltimaActivacion(c)
    BY <2>1 DEF CampaniaSeria
  <2> QED BY <2>3, <2>4
<1> QED BY <1>1, SerieSiempre, PTL

\* Undisturbed, a campaign waits for signatures exactly while a document of its
\* last activation is still to be completed, and no campaign with a document is
\* removed, neither by a request nor by a create that failed.
THEOREM DocumentosDeCampania == SpecCampania => []CampaniaConDocumento
<1>1. ASSUME TipoInv, FirmaInv, SerieInv PROVE CampaniaConDocumento
  <2> SUFFICES ASSUME incidentes = 0 PROVE CampaniaConDocumento
    BY DEF CampaniaConDocumento
  <2>1. EnSerie BY <1>1 DEF SerieInv
  <2>2. ASSUME NEW d \in Envios, documento[d] # SinDocumento PROVE Existe(documento[d].campania)
    <3>1. DocumentoSerio(d) BY <2>1 DEF EnSerie
    <3> QED BY <2>2, <3>1 DEF DocumentoSerio
  <2>3. ASSUME Quieto, NEW c \in Campanias
        PROVE  campania[c] = "PENDIENTE" <=>
                 \E d \in Envios : /\ documento[d].campania = c /\ ~Notificado(d)
                                   /\ documento[d].activacion = UltimaActivacion(c)
    <3>1. /\ \A e \in Avisos : aviso[e].status = "no"
          /\ \A h \in Hilos : \A d : ~Guarda(h, d)
      BY <1>1, <2>3, NadaEnCurso
    <3>2. ASSUME NEW d \in Envios, documento[d].campania = c, ~Notificado(d)
          PROVE  documento[d].activacion = UltimaActivacion(c) /\ campania[c] = "PENDIENTE"
      <4>1. documento[d] # SinDocumento BY <1>1, <3>2, DocumentoDe
      <4>2. DocumentoSerio(d) BY <2>1 DEF EnSerie
      <4> QED BY <3>1, <3>2, <4>1, <4>2 DEF DocumentoSerio
    <3>3. ASSUME campania[c] = "PENDIENTE"
          PROVE  \E d \in Envios : documento[d].campania = c /\ ~Notificado(d)
      <4>1. CampaniaSeria(c) BY <2>1 DEF EnSerie
      <4> QED BY <3>1, <3>3, <4>1 DEF CampaniaSeria
    <3> QED BY <3>2, <3>3
  <2> QED BY <2>2, <2>3 DEF CampaniaConDocumento
<1> QED BY <1>1, SerieSiempre, PTL

----
(* The money of the matches. *)

\* Requests leave the amounts of the matches as they are, and bring none.
LEMMA MontosAtender ==
  ASSUME TipoInv, NEW h \in Hilos, Atender(h)
  PROVE  /\ DOMAIN partida \subseteq DOMAIN partida'
         /\ \A p \in DOMAIN partida : partida'[p].montos = partida[p].montos
         /\ \/ DOMAIN partida' = DOMAIN partida
            \/ \E p : /\ p \notin DOMAIN partida /\ DOMAIN partida' = DOMAIN partida \cup {p}
                      /\ partida'[p].montos = Cero
<1>0. partida \in Seq(Partida) /\ DOMAIN partida = 1..Len(partida) /\ Len(partida) \in Nat
  BY Longitudes DEF TipoInv, PartidasBien
<1>1. CASE UNCHANGED partida BY <1>1
<1>2. CASE GuardarPartida(h)
  <2>1. partida' = Append(partida, NuevaPartida) BY <1>2 DEF GuardarPartida
  <2>2. NuevaPartida \in Partida /\ NuevaPartida.montos = Cero
    BY DEF NuevaPartida, Partida, Cero, Montos
  <2> DEFINE n == Len(partida) + 1
  <2>3. DOMAIN partida' = 1..n /\ n \in Nat
        /\ \A p \in 1..n : partida'[p] = IF p = n THEN NuevaPartida ELSE partida[p]
    BY <1>0, <2>1, <2>2, AppendProperties
  <2>4. n \notin DOMAIN partida /\ 1..n = DOMAIN partida \cup {n} /\ n \in 1..n BY <1>0
  <2>5. \A p \in DOMAIN partida : p # n /\ p \in 1..n BY <2>4
  <2> HIDE DEF n
  <2> QED BY <2>2, <2>3, <2>4, <2>5
<1>3. CASE BajaPartida(h)
  <2>1. partida' = partida \/ partida' = [partida EXCEPT ![peticion[h].partida].estatus = FALSE]
    BY <1>3 DEF BajaPartida
  <2>2. \A p \in DOMAIN partida : DOMAIN partida[p] = {"existe", "estatus", "montos"}
    <3>1. \A p \in DOMAIN partida : partida[p] \in Partida BY <1>0
    <3> QED BY <3>1 DEF Partida
  <2> QED BY <2>1, <2>2
<1> QED BY <1>1, <1>2, <1>3, EscribeAtender

\* Undisturbed, what is written to a match is written to one that is open: the
\* money of a match is final once its activation was closed, however many orders
\* and invoices are settled after that.
THEOREM PartidasCerradas == SpecCampania => PartidaCerrada
<1>1. ASSUME TipoInv, SerieInv, [NextCampania]_todas, incidentes' = 0,
             NEW p \in DOMAIN partida, ~partida[p].estatus
      PROVE  partida'[p].montos = partida[p].montos
  <2>1. EnSerie BY <1>1, PasoEnSerie DEF SerieInv
  <2>2. CASE UNCHANGED todas BY <2>2 DEF todas, varsCampania, filas
  <2>3. ASSUME NEW h \in Hilos, Solicitar(h) PROVE UNCHANGED partida
    BY <2>3 DEF Solicitar, PedirCrear, PedirSobre, PedirCerrar, PedirFirma, PedirOrden, Pedir, filas
  <2>4. ASSUME NEW h \in Hilos, Atender(h) PROVE partida'[p].montos = partida[p].montos
    BY <1>1, <2>4, MontosAtender
  <2>5. ASSUME NEW d \in Envios, EnviarAFirmamex(d) PROVE UNCHANGED partida
    BY <2>5 DEF EnviarAFirmamex
  <2>6. ASSUME NEW e \in Avisos, Recibir(e) PROVE UNCHANGED partida
    BY <2>6 DEF Recibir, filas
  <2>7. ASSUME NEW e \in Avisos, Manejar(e) PROVE UNCHANGED partida
    BY <2>7 DEF Manejar, GuardarFirma, LeerStatus, EscribirStatus, FecharActivacion,
                LeerActivacionDeAviso, LeerOrdenes, CargarOrden, EscribirOrden, AvanzarLibro, filas,
                varsCampania
  <2>8. ASSUME NEW k \in Cobros, NEW evento, NEW o, NEW total, PedirCobro(k, evento, o, total)
        PROVE  UNCHANGED partida
    BY <2>8 DEF PedirCobro, filas
  <2>9. ASSUME NEW k \in Cobros, LeerPartida(k) PROVE UNCHANGED partida
    BY <2>9 DEF LeerPartida, filas
  <2>10. ASSUME NEW k \in Cobros, EscribirPartida(k)
         PROVE  partida'[p].montos = partida[p].montos
    <3>1. p # cobro[k].partida BY <1>1, <2>1, <2>10, EscribirPartidaEs
    <3> QED BY <1>1, <2>1, <2>10, <3>1, EscribirPartidaEs
  <2> QED BY <1>1, <2>2, <2>3, <2>4, <2>5, <2>6, <2>7, <2>8, <2>9, <2>10, PasoEnSerie DEF Cobrar
<1>2. TipoInv /\ FirmaInv /\ SerieInv /\ [NextCampania]_todas =>
        (incidentes' = 0 => \A p \in DOMAIN partida :
           ~partida[p].estatus => partida'[p].montos = partida[p].montos)
  BY <1>1
<1> QED BY <1>2, SerieSiempre, PTL DEF SpecCampania, PartidaCerrada

\* The totals of orders and invoices are whole cents: so are their columns.
TotalesEnCentavos == \A t \in Totales : EsCentavo(t)

\* Undisturbed, a charge writes what it took in the same step as its end.
CuadraInv ==
  incidentes = 0 =>
    /\ \A p \in DOMAIN partida : \A c \in DOMAIN Cero : EsCentavo(partida[p].montos[c])
    /\ EnPartidas("activo") + EnPartidas("ejercido") + EnPartidas("pagado") =
         Cargado({"ORDER_APPROVED"}) - Cargado({"ORDER_CANCELLED"})
    /\ EnPartidas("pagado") = Cargado({"INVOICE_PAID"})
    /\ EnPartidas("ejercido") + EnPartidas("pagado") =
         Cargado({"INVOICE_REVIEWED", "INVOICE_CANCELLED"})

LEMMA MontosSon ==
  ASSUME TipoInv, NEW p \in DOMAIN partida
  PROVE  /\ partida[p].montos \in Montos /\ DOMAIN partida[p].montos = DOMAIN Cero
         /\ \A c \in DOMAIN Cero : partida[p].montos[c] \in Int
         /\ DOMAIN Cero = {"activo", "ejercido", "pagado"}
<1>1. partida[p] \in Partida BY DEF TipoInv, PartidasBien
<1> QED BY <1>1 DEF Partida, Montos, Cero

\* An event moves its total between the columns of a match.
LEMMA MontosDeEs ==
  ASSUME NEW evento \in TYPE_EVENT, NEW x \in Montos, NEW t \in Int, EsCentavo(t),
         \A c \in DOMAIN Cero : EsCentavo(x[c]),
         NEW m, m = escribir(x, MontosDe(evento, x, t), ColumnasDe(evento))
  PROVE  /\ m["activo"] = CASE evento = "ORDER_APPROVED" -> x["activo"] + t
                            [] evento \in {"ORDER_CANCELLED", "INVOICE_REVIEWED",
                                           "INVOICE_CANCELLED"} -> x["activo"] - t
                            [] OTHER -> x["activo"]
         /\ m["ejercido"] = CASE evento \in {"INVOICE_REVIEWED", "INVOICE_CANCELLED"} ->
                                   x["ejercido"] + t
                              [] evento = "INVOICE_PAID" -> x["ejercido"] - t
                              [] OTHER -> x["ejercido"]
         /\ m["pagado"] = IF evento = "INVOICE_PAID" THEN x["pagado"] + t ELSE x["pagado"]
         /\ \A c \in DOMAIN Cero : EsCentavo(m[c])
<1>1. DOMAIN x = {"activo", "ejercido", "pagado"} /\ DOMAIN Cero = {"activo", "ejercido", "pagado"}
      /\ x["activo"] \in Int /\ x["ejercido"] \in Int /\ x["pagado"] \in Int
  BY DEF Montos, Cero
<1>2. \A c \in {"activo", "ejercido", "pagado"} : EsCentavo(x[c] + t) /\ EsCentavo(x[c] - t)
  BY <1>1, EnterosCerrados
<1>3. \A y \in Int : EsCentavo(y) => Redondear(y) = y
  BY RedondeoEntero, NaNAssumption DEF Redondear
<1>4. /\ Redondear(x["activo"] + t) = x["activo"] + t /\ Redondear(x["activo"] - t) = x["activo"] - t
      /\ Redondear(x["ejercido"] + t) = x["ejercido"] + t
      /\ Redondear(x["ejercido"] - t) = x["ejercido"] - t
      /\ Redondear(x["pagado"] + t) = x["pagado"] + t
  <2>1. /\ x["activo"] + t \in Int /\ x["activo"] - t \in Int /\ x["ejercido"] + t \in Int
        /\ x["ejercido"] - t \in Int /\ x["pagado"] + t \in Int
    BY <1>1
  <2> QED BY <1>2, <1>3, <2>1
<1>5. DOMAIN m = {"activo", "ejercido", "pagado"}
      /\ \A c \in {"activo", "ejercido", "pagado"} :
           m[c] = IF c \in ColumnasDe(evento) THEN MontosDe(evento, x, t)[c] ELSE x[c]
  BY <1>1 DEF escribir
<1>6. CASE evento = "ORDER_APPROVED"
  <2>1. ColumnasDe(evento) = {"activo"} BY <1>6 DEF ColumnasDe, TYPE_EVENT_ORDER
  <2>2. MontosDe(evento, x, t)["activo"] = Redondear(x["activo"] + t)
    BY <1>1, <1>6 DEF MontosDe
  <2> QED BY <1>1, <1>2, <1>4, <1>5, <1>6, <2>1, <2>2
<1>7. CASE evento = "ORDER_CANCELLED"
  <2>1. ColumnasDe(evento) = {"activo"} BY <1>7 DEF ColumnasDe, TYPE_EVENT_ORDER
  <2>2. MontosDe(evento, x, t)["activo"] = Redondear(x["activo"] - t)
    BY <1>1, <1>7 DEF MontosDe
  <2> QED BY <1>1, <1>2, <1>4, <1>5, <1>7, <2>1, <2>2
<1>8. CASE evento \in {"INVOICE_REVIEWED", "INVOICE_CANCELLED"}
  <2>1. ColumnasDe(evento) = {"activo", "ejercido"}
    BY <1>8 DEF ColumnasDe, TYPE_EVENT_ORDER
  <2>2. evento # "ORDER_APPROVED" /\ evento # "ORDER_CANCELLED" /\ evento # "INVOICE_PAID"
    BY <1>8
  <2> DEFINE n == [x EXCEPT !.activo = @ - t, !.ejercido = @ + t]
  <2>3. MontosDe(evento, x, t) = [c \in DOMAIN x |-> Redondear(n[c])]
    BY <1>8, <2>2 DEF MontosDe
  <2>4. n["activo"] = x["activo"] - t /\ n["ejercido"] = x["ejercido"] + t BY <1>1
  <2> HIDE DEF n
  <2>5. /\ MontosDe(evento, x, t)["activo"] = Redondear(x["activo"] - t)
        /\ MontosDe(evento, x, t)["ejercido"] = Redondear(x["ejercido"] + t)
    BY <1>1, <2>3, <2>4
  <2> QED BY <1>1, <1>2, <1>4, <1>5, <1>8, <2>1, <2>2, <2>5
<1>9. CASE evento = "INVOICE_PAID"
  <2>1. ColumnasDe(evento) = {"ejercido", "pagado"}
    BY <1>9 DEF ColumnasDe, TYPE_EVENT_ORDER
  <2> DEFINE n == [x EXCEPT !.ejercido = @ - t, !.pagado = @ + t]
  <2>3. MontosDe(evento, x, t) = [c \in DOMAIN x |-> Redondear(n[c])] BY <1>9 DEF MontosDe
  <2>4. n["ejercido"] = x["ejercido"] - t /\ n["pagado"] = x["pagado"] + t BY <1>1
  <2> HIDE DEF n
  <2>5. /\ MontosDe(evento, x, t)["ejercido"] = Redondear(x["ejercido"] - t)
        /\ MontosDe(evento, x, t)["pagado"] = Redondear(x["pagado"] + t)
    BY <1>1, <2>3, <2>4
  <2> QED BY <1>1, <1>2, <1>4, <1>5, <1>9, <2>1, <2>5
<1>10. CASE evento = "INVOICE_APPROVED"
  <2>1. ColumnasDe(evento) = {} BY <1>10 DEF ColumnasDe, TYPE_EVENT_ORDER
  <2> QED BY <1>1, <1>5, <1>10, <2>1
<1> QED BY <1>6, <1>7, <1>8, <1>9, <1>10 DEF TYPE_EVENT, TYPE_EVENT_ORDER, TYPE_EVENT_INVOICE

\* The sums over the matches and over the charges that were done are integers.
LEMMA SumasEnteras ==
  ASSUME TipoInv
  PROVE  /\ \A c \in DOMAIN Cero : EnPartidas(c) \in Int
         /\ \A E : Cargado(E) \in Int
         /\ IsFiniteSet(DOMAIN partida) /\ IsFiniteSet(Cobros)
<1>1. IsFiniteSet(DOMAIN partida)
  <2>1. DOMAIN partida = 1..Len(partida) /\ Len(partida) \in Nat BY Longitudes DEF TipoInv
  <2> QED BY <2>1, FS_Interval
<1>2. IsFiniteSet(Cobros) BY CampaniasAssumption
<1>3. ASSUME NEW c \in DOMAIN Cero PROVE EnPartidas(c) \in Int
  <2> DEFINE f == [p \in DOMAIN partida |-> partida[p].montos[c]]
  <2>1. \A p \in DOMAIN partida : f[p] \in Int BY MontosSon
  <2>2. DOMAIN f = DOMAIN partida /\ EnPartidas(c) = SumFunctionOnSet(f, DOMAIN f)
    BY DEF EnPartidas, SumFunction
  <2> HIDE DEF f
  <2> QED BY <1>1, <2>1, <2>2, SumaEntera
<1>4. ASSUME NEW E PROVE Cargado(E) \in Int
  <2> DEFINE S == {k \in Cobros : cobro[k].en = "hecho" /\ cobro[k].evento \in E}
             f == [k \in Cobros |-> cobro[k].total]
  <2>1. IsFiniteSet(S) BY <1>2, FS_Subset
  <2>2. ASSUME NEW k \in S PROVE f[k] \in Int
    <3>1. cobro[k].total \in Totales BY <2>2, CobroTipo DEF CobroBien
    <3> QED BY <2>2, <3>1, TotalesEnteros
  <2>3. Cargado(E) = SumFunctionOnSet(f, S) BY DEF Cargado
  <2> HIDE DEF f, S
  <2> QED BY <2>1, <2>2, <2>3, SumaEntera
<1> QED BY <1>1, <1>2, <1>3, <1>4

\* The matches add up to the same when a step leaves them, or adds one at zero.
LEMMA EnPartidasIgual ==
  ASSUME TipoInv, \A p \in DOMAIN partida : partida'[p].montos = partida[p].montos,
         \/ DOMAIN partida' = DOMAIN partida
         \/ \E p : /\ p \notin DOMAIN partida /\ DOMAIN partida' = DOMAIN partida \cup {p}
                   /\ partida'[p].montos = Cero,
         NEW c \in DOMAIN Cero
  PROVE  EnPartidas(c)' = EnPartidas(c)
<1> DEFINE D == DOMAIN partida
           E == DOMAIN partida'
           f == [p \in D |-> partida[p].montos[c]]
           g == [p \in E |-> partida'[p].montos[c]]
<1>1. EnPartidas(c) = SumFunctionOnSet(f, D) /\ EnPartidas(c)' = SumFunctionOnSet(g, E)
  <2>1. DOMAIN f = D /\ DOMAIN g = E OBVIOUS
  <2>2. EnPartidas(c) = SumFunctionOnSet(f, DOMAIN f) BY DEF EnPartidas, SumFunction
  <2>3. EnPartidas(c)' = SumFunctionOnSet(g, DOMAIN g) BY DEF EnPartidas, SumFunction
  <2> QED BY <2>1, <2>2, <2>3
<1>2. IsFiniteSet(D) /\ D \subseteq E BY SumasEnteras
<1>3. \A p \in D : f[p] = g[p] /\ g[p] \in Int BY <1>2, MontosSon
<1>4. CASE E = D
  <2> HIDE DEF D, E, f, g
  <2> QED BY <1>1, <1>2, <1>3, <1>4, SumaIgual
<1>5. ASSUME NEW p, p \notin D, E = D \cup {p}, partida'[p].montos = Cero
      PROVE  EnPartidas(c)' = EnPartidas(c)
  <2>1. g[p] = 0
    <3>1. Cero[c] = 0 BY DEF Cero
    <3> QED BY <1>5, <3>1
  <2>2. SumFunctionOnSet(f, D) \in Int BY <1>1, SumasEnteras
  <2>3. g[p] \in Int BY <2>1
  <2> HIDE DEF D, E, f, g
  <2>4. /\ IsFiniteSet(D) /\ p \notin D /\ g[p] \in Int
        /\ \A y \in D : f[y] = g[y] /\ g[y] \in Int
    BY <1>2, <1>3, <1>5, <2>3
  <2>5. SumFunctionOnSet(g, D \cup {p}) = SumFunctionOnSet(f, D) + g[p]
    BY ONLY <2>4, SumaDeMas
  <2> QED BY <1>1, <1>5, <2>1, <2>2, <2>5
<1> QED BY <1>4, <1>5

\* The charges that were done are the same ones.
LEMMA CargadoIgual ==
  ASSUME TipoInv, NEW E,
         \A k \in Cobros : \/ cobro'[k] = cobro[k]
                           \/ cobro[k].en # "hecho" /\ cobro'[k].en # "hecho"
  PROVE  Cargado(E)' = Cargado(E)
<1> DEFINE S == {k \in Cobros : cobro[k].en = "hecho" /\ cobro[k].evento \in E}
           T == {k \in Cobros : cobro'[k].en = "hecho" /\ cobro'[k].evento \in E}
           f == [k \in Cobros |-> cobro[k].total]
           g == [k \in Cobros |-> cobro'[k].total]
<1>1. Cargado(E) = SumFunctionOnSet(f, S) /\ Cargado(E)' = SumFunctionOnSet(g, T)
  BY DEF Cargado
<1>2. T = S /\ \A k \in S : f[k] = g[k] OBVIOUS
<1>3. IsFiniteSet(S) BY CampaniasAssumption, FS_Subset
<1> HIDE DEF S, T, f, g
<1> QED BY <1>1, <1>2, <1>3, SumaIgual

\* One more charge is done.
LEMMA CargadoDeMas ==
  ASSUME TipoInv, NEW E, NEW k \in Cobros, cobro[k].en = "escribir", cobro'[k].en = "hecho",
         cobro'[k].evento = cobro[k].evento, cobro'[k].total = cobro[k].total,
         \A j \in Cobros : j # k => cobro'[j] = cobro[j]
  PROVE  Cargado(E)' = IF cobro[k].evento \in E THEN Cargado(E) + cobro[k].total ELSE Cargado(E)
<1> DEFINE S == {j \in Cobros : cobro[j].en = "hecho" /\ cobro[j].evento \in E}
           T == {j \in Cobros : cobro'[j].en = "hecho" /\ cobro'[j].evento \in E}
           f == [j \in Cobros |-> cobro[j].total]
           g == [j \in Cobros |-> cobro'[j].total]
<1>1. Cargado(E) = SumFunctionOnSet(f, S) /\ Cargado(E)' = SumFunctionOnSet(g, T)
  BY DEF Cargado
<1>2. IsFiniteSet(S) BY CampaniasAssumption, FS_Subset
<1>3. ASSUME NEW j \in S PROVE g[j] = f[j] /\ g[j] \in Int
  <2>1. cobro[j].total \in Totales /\ j # k BY <1>3, CobroTipo DEF CobroBien
  <2> QED BY <1>3, <2>1, TotalesEnteros
<1>4. k \notin S /\ g[k] = cobro[k].total OBVIOUS
<1>5. g[k] \in Int
  <2>1. cobro[k].total \in Totales BY CobroTipo DEF CobroBien
  <2> QED BY <1>4, <2>1, TotalesEnteros
<1>6. CASE cobro[k].evento \in E
  <2>1. T = S \cup {k} BY <1>6
  <2> HIDE DEF S, T, f, g
  <2>2. /\ IsFiniteSet(S) /\ k \notin S /\ g[k] \in Int
        /\ \A y \in S : f[y] = g[y] /\ g[y] \in Int
    BY <1>2, <1>3, <1>4, <1>5
  <2>3. SumFunctionOnSet(g, S \cup {k}) = SumFunctionOnSet(f, S) + g[k]
    BY ONLY <2>2, SumaDeMas
  <2> QED BY <1>1, <1>4, <1>6, <2>1, <2>3
<1>7. CASE cobro[k].evento \notin E
  <2>1. T = S BY <1>7
  <2> HIDE DEF S, T, f, g
  <2> QED BY <1>1, <1>2, <1>3, <1>7, <2>1, SumaIgual
<1> QED BY <1>6, <1>7

\* One match takes other amounts.
LEMMA EnPartidasCambia ==
  ASSUME TipoInv, DOMAIN partida' = DOMAIN partida, NEW p \in DOMAIN partida,
         partida'[p].montos \in Montos,
         \A q \in DOMAIN partida : q # p => partida'[q] = partida[q],
         NEW c \in DOMAIN Cero
  PROVE  EnPartidas(c)' = EnPartidas(c) + partida'[p].montos[c] - partida[p].montos[c]
<1> DEFINE D == DOMAIN partida
           f == [q \in D |-> partida[q].montos[c]]
           g == [q \in D |-> partida'[q].montos[c]]
<1>1. EnPartidas(c) = SumFunctionOnSet(f, D) /\ EnPartidas(c)' = SumFunctionOnSet(g, D)
  <2>1. DOMAIN f = D /\ DOMAIN g = D OBVIOUS
  <2>2. EnPartidas(c) = SumFunctionOnSet(f, DOMAIN f) BY DEF EnPartidas, SumFunction
  <2>3. EnPartidas(c)' = SumFunctionOnSet(g, DOMAIN g) BY DEF EnPartidas, SumFunction
  <2> QED BY <2>1, <2>2, <2>3
<1>2. g[p] = partida'[p].montos[c] /\ f[p] = partida[p].montos[c] OBVIOUS
<1>3. g[p] \in Int
  <2>1. DOMAIN Cero = {"activo", "ejercido", "pagado"} BY DEF Cero
  <2> QED BY <1>2, <2>1 DEF Montos
<1>4. /\ IsFiniteSet(D) /\ p \in D
      /\ \A y \in D : f[y] \in Int /\ g[y] \in Int
      /\ \A y \in D \ {p} : g[y] = f[y]
  <2>1. \A y \in D : f[y] \in Int BY MontosSon
  <2>2. \A y \in D \ {p} : g[y] = f[y] OBVIOUS
  <2>3. IsFiniteSet(D) BY SumasEnteras
  <2> HIDE DEF f, g
  <2> QED BY <1>3, <2>1, <2>2, <2>3
<1> HIDE DEF D, f, g
<1>5. SumFunctionOnSet(g, D) = SumFunctionOnSet(f, D) + g[p] - f[p]
  BY ONLY <1>4, SumaCambio
<1> QED BY <1>1, <1>2, <1>5

LEMMA CuadraQuieta ==
  ASSUME TipoInv, CuadraInv, incidentes = 0,
         \A p \in DOMAIN partida : partida'[p].montos = partida[p].montos,
         \/ DOMAIN partida' = DOMAIN partida
         \/ \E p : /\ p \notin DOMAIN partida /\ DOMAIN partida' = DOMAIN partida \cup {p}
                   /\ partida'[p].montos = Cero,
         \A k \in Cobros : \/ cobro'[k] = cobro[k]
                           \/ cobro[k].en # "hecho" /\ cobro'[k].en # "hecho"
  PROVE  CuadraInv'
<1>1. \A c \in DOMAIN Cero : EnPartidas(c)' = EnPartidas(c) BY EnPartidasIgual
<1>2. \A E : Cargado(E)' = Cargado(E) BY CargadoIgual
<1>3. DOMAIN Cero = {"activo", "ejercido", "pagado"} /\ \A c \in DOMAIN Cero : EsCentavo(Cero[c])
  BY CentavoAssumption DEF Cero, EsCentavo
<1>4. \A p \in DOMAIN partida' : \A c \in DOMAIN Cero : EsCentavo(partida'[p].montos[c])
  BY <1>3 DEF CuadraInv
<1>5. /\ EnPartidas("activo")' = EnPartidas("activo") /\ EnPartidas("pagado")' = EnPartidas("pagado")
      /\ EnPartidas("ejercido")' = EnPartidas("ejercido")
  BY <1>1, <1>3
<1> QED BY <1>2, <1>4, <1>5 DEF CuadraInv

LEMMA CuadraEscribir ==
  ASSUME TipoInv, EnSerie, TotalesEnCentavos, CuadraInv, incidentes = 0,
         NEW k \in Cobros, EscribirPartida(k)
  PROVE  CuadraInv'
<1>1. PICK p : p = cobro[k].partida OBVIOUS
<1>2. PICK ev : ev = cobro[k].evento OBVIOUS
<1>3. PICK t : t = cobro[k].total OBVIOUS
<1>4. PICK x : x = partida[p].montos OBVIOUS
<1>5. PICK m : m = escribir(x, MontosDe(ev, x, t), ColumnasDe(ev)) OBVIOUS
<1>6. /\ p \in DOMAIN partida /\ x \in Montos /\ m \in Montos
      /\ t \in Totales /\ ev \in EventosPartida
      /\ partida'[p].montos = m /\ DOMAIN partida' = DOMAIN partida
      /\ \A q \in DOMAIN partida : q # p => partida'[q] = partida[q]
      /\ cobro[k].en = "escribir" /\ cobro'[k].en = "hecho"
      /\ cobro'[k].evento = cobro[k].evento /\ cobro'[k].total = cobro[k].total
  BY <1>1, <1>2, <1>3, <1>4, <1>5, EscribirPartidaEs
<1>7. t \in Int /\ EsCentavo(t) /\ ev \in TYPE_EVENT
  BY <1>6, TotalesEnteros, CampaniasAssumption DEF TotalesEnCentavos
<1>8. \A c \in DOMAIN Cero : EsCentavo(x[c]) BY <1>4, <1>6 DEF CuadraInv
<1>9. \A j \in Cobros : j # k => cobro'[j] = cobro[j] BY SoloCobrar DEF Cobrar
<1>10. DOMAIN Cero = {"activo", "ejercido", "pagado"} BY DEF Cero
<1>11. /\ EnPartidas("activo")' = EnPartidas("activo") + m["activo"] - x["activo"]
       /\ EnPartidas("ejercido")' = EnPartidas("ejercido") + m["ejercido"] - x["ejercido"]
       /\ EnPartidas("pagado")' = EnPartidas("pagado") + m["pagado"] - x["pagado"]
  BY <1>4, <1>6, <1>10, EnPartidasCambia
<1>12. \A E : Cargado(E)' = IF ev \in E THEN Cargado(E) + t ELSE Cargado(E)
  BY <1>2, <1>3, <1>6, <1>9, CargadoDeMas
<1> DEFINE CA == Cargado({"ORDER_APPROVED"})
           CC == Cargado({"ORDER_CANCELLED"})
           CP == Cargado({"INVOICE_PAID"})
           CR == Cargado({"INVOICE_REVIEWED", "INVOICE_CANCELLED"})
           PA == EnPartidas("activo")
           PE == EnPartidas("ejercido")
           PP == EnPartidas("pagado")
<1>13. /\ CA \in Int /\ CC \in Int /\ CP \in Int /\ CR \in Int
       /\ PA \in Int /\ PE \in Int /\ PP \in Int
       /\ x["activo"] \in Int /\ x["ejercido"] \in Int /\ x["pagado"] \in Int
  <2>1. x["activo"] \in Int /\ x["ejercido"] \in Int /\ x["pagado"] \in Int
    BY <1>6 DEF Montos
  <2> QED BY <1>10, <2>1, SumasEnteras
<1>14. PA + PE + PP = CA - CC /\ PP = CP /\ PE + PP = CR BY DEF CuadraInv
<1>15. /\ CA' = IF ev = "ORDER_APPROVED" THEN CA + t ELSE CA
       /\ CC' = IF ev = "ORDER_CANCELLED" THEN CC + t ELSE CC
       /\ CP' = IF ev = "INVOICE_PAID" THEN CP + t ELSE CP
       /\ CR' = IF ev \in {"INVOICE_REVIEWED", "INVOICE_CANCELLED"} THEN CR + t ELSE CR
  BY <1>12
<1>16. /\ m["activo"] = CASE ev = "ORDER_APPROVED" -> x["activo"] + t
                            [] ev \in {"ORDER_CANCELLED", "INVOICE_REVIEWED",
                                           "INVOICE_CANCELLED"} -> x["activo"] - t
                            [] OTHER -> x["activo"]
       /\ m["ejercido"] = CASE ev \in {"INVOICE_REVIEWED", "INVOICE_CANCELLED"} ->
                                   x["ejercido"] + t
                              [] ev = "INVOICE_PAID" -> x["ejercido"] - t
                              [] OTHER -> x["ejercido"]
       /\ m["pagado"] = IF ev = "INVOICE_PAID" THEN x["pagado"] + t ELSE x["pagado"]
       /\ \A c \in DOMAIN Cero : EsCentavo(m[c])
  BY <1>5, <1>6, <1>7, <1>8, MontosDeEs
<1>17. /\ PA' = PA + m["activo"] - x["activo"] /\ PE' = PE + m["ejercido"] - x["ejercido"]
       /\ PP' = PP + m["pagado"] - x["pagado"]
  BY <1>11
<1>18. \A q \in DOMAIN partida' : \A c \in DOMAIN Cero : EsCentavo(partida'[q].montos[c])
  BY <1>6, <1>16 DEF CuadraInv
<1>19. (PA + PE + PP = CA - CC /\ PP = CP /\ PE + PP = CR)'
  <2> HIDE DEF CA, CC, CP, CR, PA, PE, PP
  <2>1. CASE ev = "ORDER_APPROVED" BY ONLY <1>7, <1>13, <1>14, <1>15, <1>16, <1>17, <2>1
  <2>2. CASE ev = "ORDER_CANCELLED" BY ONLY <1>7, <1>13, <1>14, <1>15, <1>16, <1>17, <2>2
  <2>3. CASE ev \in {"INVOICE_REVIEWED", "INVOICE_CANCELLED"}
    BY ONLY <1>7, <1>13, <1>14, <1>15, <1>16, <1>17, <2>3
  <2>4. CASE ev = "INVOICE_PAID" BY ONLY <1>7, <1>13, <1>14, <1>15, <1>16, <1>17, <2>4
  <2>5. CASE ev = "INVOICE_APPROVED" BY ONLY <1>7, <1>13, <1>14, <1>15, <1>16, <1>17, <2>5
  <2> QED BY <1>7, <2>1, <2>2, <2>3, <2>4, <2>5 DEF TYPE_EVENT, TYPE_EVENT_ORDER, TYPE_EVENT_INVOICE
<1> QED BY <1>18, <1>19 DEF CuadraInv

LEMMA CuadraPaso ==
  ASSUME TipoInv, SerieInv, TotalesEnCentavos, CuadraInv, [NextCampania]_todas
  PROVE  CuadraInv'
<1> SUFFICES ASSUME incidentes' = 0 PROVE CuadraInv' BY DEF CuadraInv
<1>0. EnSerie /\ incidentes = 0 BY PasoEnSerie DEF SerieInv
<1>1. ASSUME UNCHANGED <<partida, cobro>> PROVE CuadraInv' BY <1>0, <1>1, CuadraQuieta
<1>2. CASE UNCHANGED todas BY <1>1, <1>2 DEF todas, varsCampania, filas
<1>3. ASSUME NEW h \in Hilos, Solicitar(h) PROVE CuadraInv'
  <2>1. UNCHANGED <<partida, cobro>>
    BY <1>3 DEF Solicitar, PedirCrear, PedirSobre, PedirCerrar, PedirFirma, PedirOrden, Pedir, filas
  <2> QED BY <1>1, <2>1
<1>4. ASSUME NEW h \in Hilos, Atender(h) PROVE CuadraInv'
  <2>1. UNCHANGED cobro BY <1>4, SigueAtender
  <2> QED BY <1>0, <1>4, <2>1, MontosAtender, CuadraQuieta
<1>5. ASSUME NEW d \in Envios, EnviarAFirmamex(d) PROVE CuadraInv'
  BY <1>1, <1>5 DEF EnviarAFirmamex
<1>6. ASSUME NEW e \in Avisos, Recibir(e) PROVE CuadraInv'
  BY <1>1, <1>6 DEF Recibir, filas
<1>7. ASSUME NEW e \in Avisos, Manejar(e) PROVE CuadraInv'
  <2>1. UNCHANGED <<partida, cobro>>
    BY <1>7 DEF Manejar, GuardarFirma, LeerStatus, EscribirStatus, FecharActivacion,
                LeerActivacionDeAviso, LeerOrdenes, CargarOrden, EscribirOrden, AvanzarLibro, filas,
                varsCampania
  <2> QED BY <1>1, <2>1
<1>8. ASSUME NEW k \in Cobros, NEW evento, NEW o, NEW total, PedirCobro(k, evento, o, total)
      PROVE  CuadraInv'
  <2>1. UNCHANGED partida BY <1>8 DEF PedirCobro, filas
  <2> DEFINE r == [SinCobro EXCEPT !.en = "leer", !.evento = evento, !.orden = o, !.total = total]
  <2>2. cobro[k].en = "nuevo" /\ cobro' = [cobro EXCEPT ![k] = r] BY <1>8 DEF PedirCobro
  <2>3. r.en = "leer" BY DEF SinCobro
  <2> HIDE DEF r
  <2>4. cobro'[k].en = "leer" /\ \A j \in Cobros : j # k => cobro'[j] = cobro[j]
    BY <2>2, <2>3, CobroTipo
  <2> QED BY <1>0, <2>1, <2>2, <2>4, CuadraQuieta
<1>9. ASSUME NEW k \in Cobros, LeerPartida(k) PROVE CuadraInv'
  <2>1. UNCHANGED partida /\ cobro[k].en = "leer" BY <1>9 DEF LeerPartida, filas
  <2>2. \A j \in Cobros : j # k => cobro'[j] = cobro[j]
    BY <1>0, <1>9, SoloCobrar DEF Cobrar
  <2>3. cobro'[k].en \in {"rechazado", "escribir"}
    BY <1>9, CobroTipo DEF LeerPartida, CamposDeCobro
  <2> QED BY <1>0, <2>1, <2>2, <2>3, CuadraQuieta
<1>10. ASSUME NEW k \in Cobros, EscribirPartida(k) PROVE CuadraInv'
  BY <1>0, <1>10, CuadraEscribir
<1> QED BY <1>2, <1>3, <1>4, <1>5, <1>6, <1>7, <1>8, <1>9, <1>10, PasoEnSerie DEF Cobrar

LEMMA CuadraInicial ==
  ASSUME InitCampania
  PROVE  CuadraInv
<1>0. TipoInv BY TipoInicial
<1>1. \A p \in DOMAIN partida : partida[p].montos = Cero
  <2>1. NuevaPartida.montos = Cero BY DEF NuevaPartida
  <2> QED BY <2>1 DEF InitCampania, CampaniasIniciales
<1>2. DOMAIN Cero = {"activo", "ejercido", "pagado"} /\ \A c \in DOMAIN Cero : Cero[c] = 0
  BY DEF Cero
<1>3. ASSUME NEW c \in DOMAIN Cero PROVE EnPartidas(c) = 0
  <2> DEFINE D == DOMAIN partida
             f == [p \in D |-> partida[p].montos[c]]
             nada == {}
  <2>1. DOMAIN f = D OBVIOUS
  <2>2. EnPartidas(c) = SumFunctionOnSet(f, DOMAIN f) BY DEF EnPartidas, SumFunction
  <2>3. /\ IsFiniteSet(D) /\ nada \in SUBSET D
        /\ \A p \in nada : f[p] = f[p] /\ f[p] \in Int
        /\ \A p \in D \ nada : f[p] = 0
    BY <1>0, <1>1, <1>2, SumasEnteras
  <2> HIDE DEF D, f, nada
  <2>4. SumFunctionOnSet(f, D) = SumFunctionOnSet(f, nada) BY ONLY <2>3, SumaSoporte
  <2> QED BY <2>1, <2>2, <2>4, SumaVacia DEF nada
<1>4. ASSUME NEW E PROVE Cargado(E) = 0
  <2> DEFINE S == {k \in Cobros : cobro[k].en = "hecho" /\ cobro[k].evento \in E}
             f == [k \in Cobros |-> cobro[k].total]
  <2>1. S = {}
    <3>1. SinCobro.en = "nuevo" BY DEF SinCobro
    <3> QED BY <3>1 DEF InitCampania
  <2>2. Cargado(E) = SumFunctionOnSet(f, S) BY DEF Cargado
  <2> HIDE DEF S, f
  <2> QED BY <2>1, <2>2, SumaVacia
<1>5. \A p \in DOMAIN partida : \A c \in DOMAIN Cero : EsCentavo(partida[p].montos[c])
  <2>1. EsCentavo(0) BY CentavoAssumption DEF EsCentavo
  <2> QED BY <1>1, <1>2, <2>1
<1>6. EnPartidas("activo") = 0 /\ EnPartidas("ejercido") = 0 /\ EnPartidas("pagado") = 0
  BY <1>2, <1>3
<1> QED BY <1>4, <1>5, <1>6 DEF CuadraInv

\* With totals in whole cents and undisturbed, no charge is lost or counted
\* twice: the matches keep what the orders brought and the invoices moved,
\* through closings, renewals and the charges that were turned down.
THEOREM PartidasCuadran ==
  ASSUME TotalesEnCentavos
  PROVE  SpecCampania => []PartidaCuadra
<1> DEFINE Inv == TipoInv /\ FirmaInv /\ SerieInv
<1>1. InitCampania => CuadraInv BY CuadraInicial
<1>2. Inv /\ CuadraInv /\ [NextCampania]_todas => CuadraInv' BY CuadraPaso
<1>3. CuadraInv => PartidaCuadra BY DEF CuadraInv, PartidaCuadra, Tranquilo
<1>4. SpecCampania => []Inv BY SerieSiempre
<1> HIDE DEF Inv
<1> QED BY <1>1, <1>2, <1>3, <1>4, PTL DEF SpecCampania
=============================================================================
