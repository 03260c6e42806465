------------------------ MODULE CampaniaSerialProofs ------------------------
(***************************************************************************)
(* Proofs about Campania when nothing overlaps, fails or is irregular: an  *)
(* open campaign has one active activation, its orders have the status     *)
(* that it has given them, and the funds of the contract have what the     *)
(* orders take from them.                                                  *)
(***************************************************************************)
EXTENDS CampaniaProofs

----
(* The activations of a campaign, undisturbed: at most one active, the     *)
(* last, and their numbers.                                                *)

Activas(c) == {a \in ActivacionesDe(c) : activacion[a].status}
NumerosDe(c) ==
  \A a \in ActivacionesDe(c) :
    activacion[a].numero = Cardinality({b \in ActivacionesDe(c) : b <= a})

\* No match is of two activations, and only campaigns that exist have any.
PartidasAparte ==
  \A a, b \in DOMAIN activacion :
    /\ activacion[a].campania # "-" /\ activacion[b].campania # "-"
    /\ activacion[a].partida = activacion[b].partida
    => a = b
SinRestos == \A c \in Campanias : ~Existe(c) => ActivacionesDe(c) = {}

\* The last activation is the active one, and its match the open one.
Vigente(c) ==
  LET u == UltimaActivacion(c)
  IN  /\ u # 0
      /\ Activas(c) = IF campania[c] = "INACTIVA" THEN {} ELSE {u}
      /\ partida[activacion[u].partida].estatus <=> campania[c] # "INACTIVA"

\* Between these queries the campaign of a request is not as it will be left.
Creando(q) == q.op = "crear" /\ q.en \in {"partida", "numerar", "guardarActivacion"}
Renovando(q) == q.op = "renovar" /\ q.en \in {"guardar", "numerar", "guardarActivacion"}
Cerrando(q) == q.op = "cerrar" /\ q.en \in {"desactivar", "baja", "bajaPartida"}
EnObra(q) == Creando(q) \/ Renovando(q) \/ Cerrando(q)
ConPartidaNueva(q) ==
  \/ q.op = "crear" /\ q.en \in {"numerar", "guardarActivacion"}
  \/ q.op = "renovar" /\ q.en \in {"activaciones", "guardar", "numerar", "guardarActivacion"}

\* The match of the activation that is being created: no other has it.
PartidaNueva(p) ==
  /\ p # 0 /\ partida[p].estatus
  /\ \A a \in DOMAIN activacion : activacion[a].campania # "-" => activacion[a].partida # p

Obra(q) ==
  LET c == q.campania
      u == UltimaActivacion(c)
  IN  /\ Creando(q) => ActivacionesDe(c) = {}
      /\ Renovando(q) => u # 0 /\ Activas(c) = {}
      /\ q.op = "cerrar" /\ q.en \in {"leer", "guardar", "desactivar", "baja"} => q.activacion = u
      /\ Cerrando(q) => /\ c \in Campanias /\ campania[c] = "INACTIVA" /\ u # 0
                        /\ Activas(c) \subseteq {u}
      /\ Cerrando(q) /\ q.en = "bajaPartida" => Activas(c) = {}
      /\ Cerrando(q) /\ q.en # "desactivar" => q.partida = activacion[u].partida
      /\ ConPartidaNueva(q) => PartidaNueva(q.partida)
      /\ q.op \in {"crear", "renovar"} /\ q.en = "guardarActivacion" =>
           q.leido = Cardinality(ActivacionesDe(c))

EnVigor ==
  /\ \A c \in Campanias : NumerosDe(c)
  /\ PartidasAparte /\ SinRestos
  /\ \A c \in Campanias : Existe(c) =>
       Vigente(c) \/ \E h \in Hilos : EnObra(peticion[h]) /\ peticion[h].campania = c
  /\ \A h \in Hilos : Obra(peticion[h])

VigenteInv == incidentes = 0 => EnVigor

LEMMA ObraDeNadie == ~EnObra(SinPeticion) /\ Obra(SinPeticion) /\ Obra(SinPeticion)'
BY SinNada DEF EnObra, Creando, Renovando, Cerrando, Obra, ConPartidaNueva

\* The queries at which nothing is being changed.
LEMMA ObraFuera ==
  ASSUME NEW q, q.en \notin {"partida", "numerar", "guardarActivacion", "guardar", "desactivar",
                             "baja", "bajaPartida", "leer", "activaciones"}
                \/ q.op \notin {"crear", "renovar", "cerrar"}
  PROVE  ~EnObra(q) /\ Obra(q) /\ Obra(q)'
BY DEF EnObra, Creando, Renovando, Cerrando, Obra, ConPartidaNueva

\* A row of a campaign.
LEMMA RenglonDe ==
  ASSUME TipoInv, NEW c \in Campanias, NEW a \in ActivacionesDe(c)
  PROVE  /\ a \in DOMAIN activacion /\ activacion[a].campania = c /\ c # "-"
         /\ a \in 1..Len(activacion) /\ activacion[a] \in Activacion
         /\ activacion[a].partida \in DOMAIN partida /\ activacion[a].partida \in 1..Len(partida)
<1>1. a \in DOMAIN activacion /\ activacion[a].campania = c /\ c # "-"
  BY CampaniasAssumption DEF ActivacionesDe
<1>2. Len(activacion) \in Nat /\ Len(partida) \in Nat /\ a \in 1..Len(activacion)
      /\ DOMAIN partida = 1..Len(partida)
  BY <1>1, Longitudes DEF TipoInv
<1>3. RenglonBien(activacion[a], a, Len(partida)) BY <1>2 DEF TipoInv, ActivacionesBien
<1>4. activacion[a] \in Activacion /\ activacion[a].partida <= Len(partida)
      /\ activacion[a].partida # 0
  BY <1>1, <1>3 DEF RenglonBien
<1>5. activacion[a].partida \in Nat
  BY <1>4, CampaniasAssumption DEF Activacion, IdsActivacion
<1> QED BY <1>1, <1>2, <1>4, <1>5

\* A step leaves the rows of the campaign as they are.
Mismas(c) ==
  /\ ActivacionesDe(c)' = ActivacionesDe(c)
  /\ \A a \in ActivacionesDe(c) : /\ activacion'[a].numero = activacion[a].numero
                                  /\ activacion'[a].status = activacion[a].status
                                  /\ activacion'[a].partida = activacion[a].partida

LEMMA ConMismas ==
  ASSUME NEW c, Mismas(c)
  PROVE  /\ NumerosDe(c) => NumerosDe(c)'
         /\ Activas(c)' = Activas(c) /\ UltimaActivacion(c)' = UltimaActivacion(c)
<1>1. NumerosDe(c) => NumerosDe(c)' BY DEF Mismas, NumerosDe
<1>2. Activas(c)' = Activas(c) BY DEF Mismas, Activas
<1>3. UltimaActivacion(c)' = UltimaActivacion(c) BY DEF Mismas, UltimaActivacion
<1> QED BY <1>1, <1>2, <1>3

LEMMA VigenteSigue ==
  ASSUME TipoInv, NEW c \in Campanias, Mismas(c), Vigente(c),
         campania'[c] = "INACTIVA" <=> campania[c] = "INACTIVA",
         \A a \in ActivacionesDe(c) :
           partida'[activacion[a].partida].estatus <=> partida[activacion[a].partida].estatus
  PROVE  Vigente(c)'
<1> DEFINE u == UltimaActivacion(c)
           p == activacion[u].partida
<1>1. u # 0 /\ u \in ActivacionesDe(c) BY UltimaEs DEF Vigente, TipoInv
<1>2. UltimaActivacion(c)' = u /\ Activas(c)' = Activas(c) BY ConMismas
<1>3. (activacion[UltimaActivacion(c)].partida)' = p BY <1>1, <1>2 DEF Mismas
<1>4. (partida[activacion[UltimaActivacion(c)].partida])' = partida'[p] BY <1>3
<1>5. partida'[p].estatus <=> campania'[c] # "INACTIVA" BY <1>1 DEF Vigente
<1>6. Activas(c)' = IF campania'[c] = "INACTIVA" THEN {} ELSE {u} BY <1>2 DEF Vigente
<1> HIDE DEF u, p
<1> QED BY <1>1, <1>2, <1>4, <1>5, <1>6 DEF Vigente


\* What a request leaves once one of its queries was answered.
LEMMA VigorDePeticion ==
  ASSUME TipoInv, EnSerie, NEW h \in Hilos, Atender(h), NEW r, peticion'[h] = r,
         \A c \in Campanias : NumerosDe(c)', PartidasAparte', SinRestos', Obra(r)',
         \A c \in Campanias : Existe(c)' => Vigente(c)' \/ (EnObra(r) /\ r.campania = c)
  PROVE  EnVigor'
<1>1. \A g \in Hilos : g # h => peticion'[g] = SinPeticion BY SoloAtender
<1>2. ASSUME NEW g \in Hilos PROVE Obra(peticion[g])'
  <2>1. PICK q : q = peticion'[g] OBVIOUS
  <2>2. Obra(q)' BY <1>1, <2>1, ObraDeNadie
  <2> QED BY <2>1, <2>2 DEF Obra, UltimaActivacion, ActivacionesDe, Activas, PartidaNueva, EnObra,
                            Creando, Renovando, Cerrando, ConPartidaNueva
<1>3. ASSUME NEW c \in Campanias, Existe(c)', ~Vigente(c)'
      PROVE  \E g \in Hilos : EnObra(peticion'[g]) /\ peticion'[g].campania = c
  BY <1>3
<1>4. \A c \in Campanias : Existe(c)' =>
        Vigente(c)' \/ \E g \in Hilos : (EnObra(peticion[g]) /\ peticion[g].campania = c)'
  BY <1>3 DEF EnObra, Creando, Renovando, Cerrando
<1> QED BY <1>2, <1>4 DEF EnVigor

\* What it finds before.
LEMMA VigorAntes ==
  ASSUME TipoInv, EnSerie, EnVigor, NEW h \in Hilos, Atender(h)
  PROVE  /\ Obra(peticion[h])
         /\ \A c \in Campanias : Existe(c) =>
              Vigente(c) \/ (EnObra(peticion[h]) /\ peticion[h].campania = c)
<1>1. \A g \in Hilos : g # h => peticion[g] = SinPeticion BY SoloAtender
<1>2. \A g \in Hilos : EnObra(peticion[g]) => g = h BY <1>1, ObraDeNadie
<1> QED BY <1>2 DEF EnVigor

LEMMA FilasIguales ==
  ASSUME UNCHANGED <<campania, activacion, partida>>
  PROVE  /\ \A c : NumerosDe(c)' <=> NumerosDe(c)
         /\ PartidasAparte' <=> PartidasAparte
         /\ SinRestos' <=> SinRestos
         /\ \A c : Existe(c)' <=> Existe(c)
         /\ \A c : Vigente(c)' <=> Vigente(c)
         /\ \A q : Obra(q)' <=> Obra(q)
<1>1. \A c : /\ ActivacionesDe(c)' = ActivacionesDe(c)
             /\ UltimaActivacion(c)' = UltimaActivacion(c)
             /\ Activas(c)' = Activas(c) /\ (Existe(c)' <=> Existe(c))
  BY DEF ActivacionesDe, UltimaActivacion, Activas, Existe
<1>2. \A p : PartidaNueva(p)' <=> PartidaNueva(p) BY DEF PartidaNueva
<1>3. \A c : NumerosDe(c)' <=> NumerosDe(c) BY <1>1 DEF NumerosDe
<1>4. PartidasAparte' <=> PartidasAparte BY DEF PartidasAparte
<1>5. SinRestos' <=> SinRestos BY <1>1 DEF SinRestos
<1>6. ASSUME NEW c PROVE Vigente(c)' <=> Vigente(c)
  <2>1. (activacion[UltimaActivacion(c)].partida)' = activacion[UltimaActivacion(c)].partida
    BY <1>1
  <2>2. (partida[activacion[UltimaActivacion(c)].partida])'
          = partida[activacion[UltimaActivacion(c)].partida]
    BY <2>1
  <2> QED BY <1>1, <2>2 DEF Vigente
<1>7. ASSUME NEW q PROVE Obra(q)' <=> Obra(q)
  BY <1>1, <1>2 DEF Obra, EnObra, Creando, Renovando, Cerrando, ConPartidaNueva
<1> QED BY <1>1, <1>3, <1>4, <1>5, <1>6, <1>7

\* After a query that reads, or writes other rows.
LEMMA VigorLectura ==
  ASSUME TipoInv, EnSerie, EnVigor, NEW h \in Hilos, Atender(h),
         UNCHANGED <<campania, activacion, partida>>, NEW r, peticion'[h] = r, Obra(r),
         EnObra(peticion[h]) => EnObra(r) /\ r.campania = peticion[h].campania
  PROVE  EnVigor'
<1>1. \A c \in Campanias : Existe(c)' => Vigente(c)' \/ (EnObra(r) /\ r.campania = c)
  BY VigorAntes, FilasIguales
<1>2. (\A c \in Campanias : NumerosDe(c)') /\ PartidasAparte' /\ SinRestos' /\ Obra(r)'
  BY FilasIguales DEF EnVigor
<1> QED BY <1>1, <1>2, VigorDePeticion

\* ... that has nothing half done, before and after.
LEMMA VigorFuera ==
  ASSUME TipoInv, EnSerie, EnVigor, NEW h \in Hilos, Atender(h),
         UNCHANGED <<campania, activacion, partida>>, ~EnObra(peticion[h]),
         \/ peticion'[h] = SinPeticion
         \/ peticion'[h].en \notin {"partida", "numerar", "guardarActivacion", "guardar",
                                    "desactivar", "baja", "bajaPartida", "leer", "activaciones"}
         \/ peticion'[h].op \notin {"crear", "renovar", "cerrar"}
  PROVE  EnVigor'
<1>1. PICK r : r = peticion'[h] OBVIOUS
<1>2. Obra(r) BY <1>1, ObraDeNadie, ObraFuera
<1> QED BY <1>1, <1>2, VigorLectura


----
(* The queries that read. *)

\* Only requests that create, renew or close are half done, at these queries.
LEMMA NoEnObra ==
  ASSUME NEW q, q.en \notin {"partida", "numerar", "guardarActivacion", "guardar", "desactivar",
                             "baja", "bajaPartida"}
  PROVE  ~EnObra(q)
BY DEF EnObra, Creando, Renovando, Cerrando

\* The last number of a campaign counts its activations.
LEMMA NumeroUltimo ==
  ASSUME TipoInv, NEW c, NumerosDe(c)
  PROVE  /\ UltimaActivacion(c) = 0 => Cardinality(ActivacionesDe(c)) = 0
         /\ UltimaActivacion(c) # 0 =>
              activacion[UltimaActivacion(c)].numero = Cardinality(ActivacionesDe(c))
<1> DEFINE u == UltimaActivacion(c)
<1>1. (u # 0 => u \in ActivacionesDe(c)) /\ \A a \in ActivacionesDe(c) : a <= u /\ u # 0
  BY UltimaEs DEF TipoInv
<1> HIDE DEF u
<1>2. CASE u = 0
  <2>1. ActivacionesDe(c) = {} BY <1>1, <1>2
  <2> QED BY <1>2, <2>1, FS_EmptySet DEF u
<1>3. CASE u # 0
  <2>1. {b \in ActivacionesDe(c) : b <= u} = ActivacionesDe(c) BY <1>1
  <2>2. activacion[u].numero = Cardinality({b \in ActivacionesDe(c) : b <= u})
    BY <1>1, <1>3 DEF NumerosDe
  <2> QED BY <1>3, <2>1, <2>2 DEF u
<1> QED BY <1>2, <1>3

LEMMA VigorNumerar ==
  ASSUME TipoInv, EnSerie, EnVigor, NEW h \in Hilos, Numerar(h)
  PROVE  EnVigor'
<1> DEFINE q == peticion[h]
           c == q.campania
           u == UltimaActivacion(c)
           v == IF u = 0 THEN 0 ELSE activacion[u].numero
<1>0. Atender(h) BY DEF Atender
<1>1. q.en = "numerar" /\ UNCHANGED <<campania, activacion, partida>>
  BY DEF Numerar, filas
<1>2. PeticionSeria(q) /\ EnSuSitio(q, Len(activacion)) /\ DOMAIN q = Campos /\ DOMAIN peticion = Hilos
      /\ q.partida \in 0..Len(partida) /\ Obra(q)
  BY <1>0, SoloAtender, VigorAntes DEF PeticionBien
<1>3. q.op \in {"crear", "renovar"} /\ c \in Campanias
  BY <1>1, <1>2 DEF EnSuSitio, CreaActivacion, PeticionSeria, DeBaja
<1>4. campania[c] \in {"CREADA", "REACTIVADA"}
  BY <1>1, <1>2, <1>3 DEF PeticionSeria, CreacionSeria, RenovacionSeria
<1>5. Existe(c) BY <1>4 DEF Existe, CAMPAIGN_STATUS
<1>6. q.partida # 0 BY <1>1, <1>2, <1>3 DEF Obra, ConPartidaNueva, PartidaNueva
<1>7. HayPartida(q.partida)
  <2>1. DOMAIN partida = 1..Len(partida) /\ Len(partida) \in Nat BY Longitudes DEF TipoInv
  <2>2. q.partida \in DOMAIN partida BY <1>2, <1>6, <2>1
  <2> QED BY <2>2 DEF HayPartida, EnSerie
<1>8. peticion' = [peticion EXCEPT ![h].en = "guardarActivacion", ![h].leido = v]
  BY <1>5, <1>7 DEF Numerar
<1>9. NumerosDe(c) BY <1>3 DEF EnVigor
<1>10. v = Cardinality(ActivacionesDe(c)) BY <1>9, NumeroUltimo
<1> HIDE DEF v
<1>11. PICK r : r = peticion'[h] OBVIOUS
<1>12. /\ r.op = q.op /\ r.en = "guardarActivacion" /\ r.campania = c /\ r.partida = q.partida
       /\ r.leido = v
  BY <1>2, <1>8, <1>11 DEF Campos
<1>13. Obra(r)
  BY <1>1, <1>2, <1>3, <1>10, <1>12 DEF Obra, Creando, Renovando, Cerrando, ConPartidaNueva
<1>14. EnObra(r) BY <1>3, <1>12 DEF EnObra, Creando, Renovando
<1> QED BY <1>0, <1>1, <1>11, <1>12, <1>13, <1>14, VigorLectura

LEMMA VigorLeerCampania ==
  ASSUME TipoInv, EnSerie, EnVigor, NEW h \in Hilos, LeerCampania(h)
  PROVE  EnVigor'
<1> DEFINE q == peticion[h]
           op == q.op
<1>0. Atender(h) BY DEF Atender
<1>1. q.en = "leer" /\ UNCHANGED <<campania, activacion, partida>> /\ op # "ordenar"
  BY DEF LeerCampania, filas
<1>2. EnSuSitio(q, Len(activacion)) /\ DOMAIN q = Campos /\ DOMAIN peticion = Hilos /\ Obra(q)
  BY <1>0, SoloAtender, VigorAntes
<1>3. ~EnObra(q) BY <1>1, NoEnObra
<1>4. CASE peticion'[h] = SinPeticion BY <1>0, <1>1, <1>3, <1>4, VigorFuera
<1>5. CASE peticion'[h] # SinPeticion
  <2>1. PICK f : peticion' = [peticion EXCEPT ![h].en = TrasLeerFila[op], ![h].fila = f]
    BY <1>2, <1>5 DEF LeerCampania, Responder
  <2>2. PICK r : r = peticion'[h] OBVIOUS
  <2>3. /\ r.op = op /\ r.en = TrasLeerFila[op] /\ r.campania = q.campania
        /\ r.activacion = q.activacion
    BY <1>2, <2>1, <2>2 DEF Campos
  <2>4. op \in {"actualizar", "quitar", "renovar", "cerrar", "firmar"}
    BY <1>1, <1>2 DEF EnSuSitio
  <2>5. CASE op = "cerrar"
    <3>1. r.en = "guardar" /\ r.op = "cerrar" BY <2>3, <2>5 DEF TrasLeerFila
    <3>2. r.activacion = UltimaActivacion(r.campania) BY <1>1, <1>2, <2>3, <2>5 DEF Obra
    <3>3. Obra(r) BY <3>1, <3>2 DEF Obra, Creando, Renovando, Cerrando, ConPartidaNueva
    <3> QED BY <1>0, <1>1, <1>3, <2>2, <3>3, VigorLectura
  <2>6. CASE op # "cerrar"
    <3>1. r.en \in {"borrar", "ultima"} \/ r.op = "actualizar"
          \/ (r.op = "renovar" /\ r.en = "partida")
      BY <2>3, <2>4, <2>6 DEF TrasLeerFila
    <3>2. CASE r.en \in {"borrar", "ultima"} \/ r.op = "actualizar"
      BY <1>0, <1>1, <1>3, <2>2, <3>2, VigorFuera
    <3>3. CASE r.op = "renovar" /\ r.en = "partida"
      <4>1. Obra(r) BY <3>3 DEF Obra, Creando, Renovando, Cerrando, ConPartidaNueva
      <4> QED BY <1>0, <1>1, <1>3, <2>2, <4>1, VigorLectura
    <3> QED BY <3>1, <3>2, <3>3
  <2> QED BY <2>5, <2>6
<1> QED BY <1>4, <1>5

LEMMA VigorLeerActivacion ==
  ASSUME TipoInv, EnSerie, EnVigor, NEW h \in Hilos, LeerActivacion(h)
  PROVE  EnVigor'
<1> DEFINE q == peticion[h]
           c == q.campania
           u == UltimaActivacion(c)
           p == activacion[u].partida
<1>0. Atender(h) BY DEF Atender
<1>1. q.en = "desactivar" /\ UNCHANGED <<campania, activacion, partida>>
  BY DEF LeerActivacion, filas
<1>2. PeticionSeria(q) /\ EnSuSitio(q, Len(activacion)) /\ DOMAIN q = Campos /\ DOMAIN peticion = Hilos
      /\ Obra(q)
  BY <1>0, SoloAtender, VigorAntes
<1>3. q.op = "cerrar" BY <1>1, <1>2 DEF EnSuSitio, DeBaja, PeticionSeria
<1>4. /\ q.activacion = u /\ c \in Campanias /\ campania[c] = "INACTIVA" /\ u # 0
      /\ Activas(c) \subseteq {u}
  BY <1>1, <1>2, <1>3 DEF Obra, Cerrando
<1>5. u \in ActivacionesDe(c) BY <1>4, UltimaEs DEF TipoInv
<1>6. u \in DOMAIN activacion /\ activacion[u].campania = c /\ c # "-"
  BY <1>4, <1>5, RenglonDe
<1>7. HayActivacion(u) BY <1>6 DEF HayActivacion, SinActivacion
<1> HIDE DEF u
<1>8. peticion' = [peticion EXCEPT ![h].en = "baja", ![h].partida = p, ![h].campania = c]
  BY <1>4, <1>6, <1>7 DEF LeerActivacion
<1> HIDE DEF p
<1>9. PICK r : r = peticion'[h] OBVIOUS
<1>10. /\ r.op = "cerrar" /\ r.en = "baja" /\ r.campania = c /\ r.partida = p
       /\ r.activacion = u
  BY <1>2, <1>3, <1>4, <1>8, <1>9 DEF Campos
<1>11. Obra(r)
  BY <1>4, <1>10 DEF Obra, Creando, Renovando, Cerrando, ConPartidaNueva, u, p
<1>12. EnObra(r) BY <1>10 DEF EnObra, Cerrando
<1> QED BY <1>0, <1>1, <1>9, <1>10, <1>11, <1>12, VigorLectura


\* The other queries that leave campaigns, activations and matches alone.
LEMMA VigorOtras ==
  ASSUME TipoInv, EnSerie, EnVigor, NEW h \in Hilos,
         \/ LeerPorLimpiar(h) \/ LeerUltima(h) \/ GuardarDocumento(h) \/ BuscarPendientes(h)
         \/ LeerMaestroDeOrden(h) \/ LeerModificatorioDeOrden(h) \/ DevolverCargo(h)
         \/ BorrarOrden(h) \/ LeerParaOrden(h) \/ LeerFondos(h) \/ EscribirReserva(h)
         \/ GuardarOrden(h)
  PROVE  EnVigor'
<1> DEFINE q == peticion[h]
           Fuera == {"limpiar", "ultima", "documento", "buscar", "maestro", "modificatorio",
                     "devolver", "borrarOrden", "fondos", "comprometer", "guardarOrden"}
           Despues == Fuera \cup {"borrar"}
<1>0. Atender(h) BY DEF Atender
<1>1. EnSuSitio(q, Len(activacion)) /\ DOMAIN q = Campos /\ DOMAIN peticion = Hilos
  BY <1>0, SoloAtender
<1>2. ASSUME q.en \in Fuera \/ q.op = "ordenar", UNCHANGED <<campania, activacion, partida>>,
             peticion'[h] = SinPeticion \/ peticion'[h].en \in Despues \/ peticion'[h].op = "firmar"
      PROVE  EnVigor'
  <2>1. ~EnObra(q) BY <1>2, NoEnObra, ObraFuera
  <2> QED BY <1>0, <1>2, <2>1, VigorFuera
<1>3. CASE LeerPorLimpiar(h)
  <2>1. q.en = "limpiar" /\ UNCHANGED <<campania, activacion, partida>>
    BY <1>3 DEF LeerPorLimpiar, filas
  <2>2. peticion'[h] = SinPeticion \/ peticion'[h].en = "borrar"
    BY <1>1, <1>3 DEF LeerPorLimpiar, Responder, Campos
  <2> QED BY <1>2, <2>1, <2>2
<1>4. CASE LeerUltima(h)
  <2>1. q.en = "ultima" /\ UNCHANGED <<campania, activacion, partida>>
    BY <1>4 DEF LeerUltima, filas
  <2>2. peticion'[h] = SinPeticion \/ peticion'[h].en = "documento"
    BY <1>1, <1>4 DEF LeerUltima, Responder, Campos
  <2> QED BY <1>2, <2>1, <2>2
<1>5. CASE GuardarDocumento(h)
  <2>1. q.en = "documento" /\ UNCHANGED <<campania, activacion, partida>>
        /\ peticion' = [peticion EXCEPT ![h].en = "guardar"]
    BY <1>5 DEF GuardarDocumento, Seguir
  <2>2. q.op = "firmar" BY <1>1, <2>1 DEF EnSuSitio
  <2>3. peticion'[h].op = "firmar" BY <1>1, <2>1, <2>2 DEF Campos
  <2> QED BY <1>2, <2>1, <2>3
<1>6. CASE BuscarPendientes(h)
  <2>1. q.en = "buscar" /\ UNCHANGED <<campania, activacion, partida>>
    BY <1>6 DEF BuscarPendientes, filas
  <2>2. peticion'[h].en = "maestro" BY <1>1, <1>6 DEF BuscarPendientes, Campos
  <2> QED BY <1>2, <2>1, <2>2
<1>7. CASE LeerMaestroDeOrden(h)
  <2>1. q.en = "maestro" /\ UNCHANGED <<campania, activacion, partida>>
    BY <1>7 DEF LeerMaestroDeOrden, filas
  <2>2. CASE Responder(h) BY <1>1, <1>2, <2>1, <2>2 DEF Responder
  <2>3. CASE ~Responder(h)
    <3>1. PICK x : peticion' = [peticion EXCEPT ![h].en = Devolver(CargosDevueltos(x[2])),
                     ![h].ordenes = @ \ {x}, ![h].orden = x[1],
                     ![h].cargos = CargosDevueltos(x[2]),
                     ![h].leido = fondo[Maestro]["committedAmount"]]
      BY <1>7, <2>3 DEF LeerMaestroDeOrden
    <3>2. peticion'[h].en = Devolver(CargosDevueltos(x[2])) BY <1>1, <3>1 DEF Campos
    <3>3. peticion'[h].en \in {"borrarOrden", "devolver", "modificatorio"}
      BY <3>2 DEF Devolver
    <3> QED BY <1>2, <2>1, <3>3
  <2> QED BY <2>2, <2>3
<1>8. CASE LeerModificatorioDeOrden(h)
  <2>1. q.en = "modificatorio" /\ UNCHANGED <<campania, activacion, partida>>
    BY <1>8 DEF LeerModificatorioDeOrden, filas
  <2>2. peticion'[h].en = "devolver" BY <1>1, <1>8 DEF LeerModificatorioDeOrden, Campos
  <2> QED BY <1>2, <2>1, <2>2
<1>9. CASE DevolverCargo(h)
  <2>1. q.en = "devolver" /\ UNCHANGED <<campania, activacion, partida>>
    BY <1>9 DEF DevolverCargo, filas
  <2>2. peticion'[h].en \in {"borrarOrden", "devolver", "modificatorio"}
    BY <1>1, <1>9 DEF DevolverCargo, Devolver, Campos
  <2> QED BY <1>2, <2>1, <2>2
<1>10. CASE BorrarOrden(h)
  <2>1. q.en = "borrarOrden" /\ UNCHANGED <<campania, activacion, partida>>
    BY <1>10 DEF BorrarOrden
  <2>2. peticion'[h].en = "maestro" BY <1>1, <1>10 DEF BorrarOrden, Seguir, Campos
  <2> QED BY <1>2, <2>1, <2>2
<1>11. CASE LeerParaOrden(h)
  <2>1. q.op = "ordenar" /\ UNCHANGED <<campania, activacion, partida>>
    BY <1>11 DEF LeerParaOrden, filas
  <2>2. peticion'[h] = SinPeticion \/ peticion'[h].en = "fondos"
    BY <1>1, <1>11 DEF LeerParaOrden, Responder, Campos
  <2> QED BY <1>2, <2>1, <2>2
<1>12. CASE LeerFondos(h)
  <2>1. q.en = "fondos" /\ UNCHANGED <<campania, activacion, partida>>
    BY <1>12 DEF LeerFondos, filas
  <2>2. peticion'[h] = SinPeticion \/ peticion'[h].en = "comprometer"
    BY <1>1, <1>12 DEF LeerFondos, Responder, Campos
  <2> QED BY <1>2, <2>1, <2>2
<1>13. CASE EscribirReserva(h)
  <2>1. q.en = "comprometer" /\ UNCHANGED <<campania, activacion, partida>>
    BY <1>13 DEF EscribirReserva, filas
  <2>2. peticion'[h].en \in {"guardarOrden", "comprometer"}
    BY <1>1, <1>13 DEF EscribirReserva, Campos
  <2> QED BY <1>2, <2>1, <2>2
<1>14. CASE GuardarOrden(h)
  <2>1. q.en = "guardarOrden" /\ UNCHANGED <<campania, activacion, partida>>
    BY <1>14 DEF GuardarOrden
  <2> QED BY <1>1, <1>2, <1>14, <2>1 DEF GuardarOrden, Responder
<1> QED BY <1>3, <1>4, <1>5, <1>6, <1>7, <1>8, <1>9, <1>10, <1>11, <1>12, <1>13, <1>14


----
(* The queries that write campaigns and matches. *)

\* Another status for campaigns.
LEMMA MismosRenglones ==
  ASSUME UNCHANGED activacion
  PROVE  /\ \A c : Mismas(c) /\ (NumerosDe(c)' <=> NumerosDe(c))
         /\ \A c : /\ ActivacionesDe(c)' = ActivacionesDe(c) /\ Activas(c)' = Activas(c)
                   /\ UltimaActivacion(c)' = UltimaActivacion(c)
         /\ PartidasAparte' <=> PartidasAparte
         /\ \A p : UNCHANGED partida => (PartidaNueva(p)' <=> PartidaNueva(p))
<1>1. \A c : /\ ActivacionesDe(c)' = ActivacionesDe(c)
             /\ UltimaActivacion(c)' = UltimaActivacion(c)
             /\ Activas(c)' = Activas(c)
  BY DEF ActivacionesDe, UltimaActivacion, Activas
<1>2. \A c : Mismas(c) /\ (NumerosDe(c)' <=> NumerosDe(c)) BY <1>1 DEF Mismas, NumerosDe
<1>3. PartidasAparte' <=> PartidasAparte BY DEF PartidasAparte
<1>4. \A p : UNCHANGED partida => (PartidaNueva(p)' <=> PartidaNueva(p))
  BY DEF PartidaNueva
<1> QED BY <1>1, <1>2, <1>3, <1>4

LEMMA VigorGuardarNueva ==
  ASSUME TipoInv, EnSerie, EnVigor, NEW h \in Hilos, GuardarNueva(h)
  PROVE  EnVigor'
<1> DEFINE q == peticion[h]
           c == q.campania
<1>0. Atender(h) BY DEF Atender
<1>1. q.en = "guardarNueva" /\ UNCHANGED <<activacion, partida>>
      /\ campania' = [campania EXCEPT ![c] = "CREADA"]
      /\ peticion' = [peticion EXCEPT ![h].en = "partida"]
  BY DEF GuardarNueva, Seguir
<1>2. PeticionSeria(q) /\ EnSuSitio(q, Len(activacion)) /\ DOMAIN q = Campos /\ DOMAIN peticion = Hilos
  BY <1>0, SoloAtender
<1>3. q.op = "crear" /\ c \in Campanias /\ campania[c] = "NO_EXISTE"
  BY <1>1, <1>2 DEF EnSuSitio, DeBaja, PeticionSeria, CreacionSeria
<1>4. campania'[c] = "CREADA" /\ \A x \in Campanias : x # c => campania'[x] = campania[x]
  BY <1>1, <1>3 DEF TipoInv, CampaniasBien
<1>5. ~EnObra(q) BY <1>1, NoEnObra
<1>6. ActivacionesDe(c) = {}
  <2>1. ~Existe(c) BY <1>3 DEF Existe, CAMPAIGN_STATUS
  <2> QED BY <1>3, <2>1 DEF EnVigor, SinRestos
<1>7. PICK r : r = peticion'[h] OBVIOUS
<1>8. r.op = "crear" /\ r.en = "partida" /\ r.campania = c
  BY <1>1, <1>2, <1>3, <1>7 DEF Campos
<1>9. (\A x \in Campanias : NumerosDe(x)') /\ PartidasAparte'
  BY <1>1, MismosRenglones DEF EnVigor
<1>10. ActivacionesDe(r.campania)' = {} BY <1>1, <1>6, <1>8, MismosRenglones
<1>11. Obra(r)' BY <1>8, <1>10 DEF Obra, Creando, Renovando, Cerrando, ConPartidaNueva
<1>12. EnObra(r) BY <1>8 DEF EnObra, Creando
<1>13. SinRestos'
  <2> SUFFICES ASSUME NEW x \in Campanias, ~Existe(x)' PROVE ActivacionesDe(x)' = {}
    BY DEF SinRestos
  <2>1. CASE x = c BY <1>4, <2>1 DEF Existe, CAMPAIGN_STATUS
  <2>2. CASE x # c
    <3>1. ~Existe(x) BY <1>4, <2>2 DEF Existe
    <3> QED BY <1>1, <3>1, MismosRenglones DEF EnVigor, SinRestos
  <2> QED BY <2>1, <2>2
<1>14. ASSUME NEW x \in Campanias, Existe(x)', x # c PROVE Vigente(x)'
  <2>1. campania'[x] = campania[x] BY <1>4, <1>14
  <2>2. Existe(x) BY <1>14, <2>1 DEF Existe
  <2>3. Vigente(x) BY <1>0, <1>5, <2>2, VigorAntes
  <2>4. Mismas(x) BY <1>1, MismosRenglones
  <2> QED BY <1>1, <2>1, <2>3, <2>4, VigenteSigue
<1> QED BY <1>0, <1>7, <1>8, <1>9, <1>11, <1>12, <1>13, <1>14, VigorDePeticion

\* A match for the activation to come.
LEMMA VigorGuardarPartida ==
  ASSUME TipoInv, EnSerie, EnVigor, NEW h \in Hilos, GuardarPartida(h)
  PROVE  EnVigor'
<1> DEFINE q == peticion[h]
           c == q.campania
           n == Len(partida) + 1
           en == IF q.op = "renovar" THEN "activaciones" ELSE "numerar"
<1>0. Atender(h) BY DEF Atender
<1>1. q.en = "partida" /\ UNCHANGED <<campania, activacion>>
      /\ partida' = Append(partida, NuevaPartida)
      /\ peticion' = [peticion EXCEPT ![h].partida = Len(partida'), ![h].en = en]
  BY DEF GuardarPartida
<1>2. PeticionSeria(q) /\ EnSuSitio(q, Len(activacion)) /\ DOMAIN q = Campos /\ DOMAIN peticion = Hilos
      /\ Obra(q)
  BY <1>0, SoloAtender, VigorAntes
<1>3. q.op \in {"crear", "renovar"} /\ c \in Campanias
  BY <1>1, <1>2 DEF EnSuSitio, CreaActivacion, PeticionSeria, DeBaja
<1>4. partida \in Seq(Partida) /\ DOMAIN partida = 1..Len(partida) /\ Len(partida) \in Nat
  BY Longitudes DEF TipoInv, PartidasBien
<1>5. NuevaPartida \in Partida /\ NuevaPartida.estatus = TRUE
  BY DEF NuevaPartida, Partida, Cero, Montos
<1>6. Len(partida') = n /\ \A p \in 1..n : partida'[p] = IF p = n THEN NuevaPartida ELSE partida[p]
  BY <1>1, <1>4, <1>5, AppendProperties
<1>7. n \in 1..n /\ n # 0 /\ n \notin DOMAIN partida /\ \A p \in DOMAIN partida : p \in 1..n /\ p # n
  BY <1>4
<1> HIDE DEF n
<1>8. partida'[n].estatus /\ \A p \in DOMAIN partida : partida'[p] = partida[p]
  BY <1>5, <1>6, <1>7
<1>9. PICK r : r = peticion'[h] OBVIOUS
<1>10. r.op = q.op /\ r.en = en /\ r.campania = c /\ r.partida = n
  BY <1>1, <1>2, <1>6, <1>9 DEF Campos
<1>11. (\A x \in Campanias : NumerosDe(x)') /\ PartidasAparte' /\ SinRestos'
  <2>1. \A x \in Campanias : Existe(x)' <=> Existe(x) BY <1>1 DEF Existe
  <2> QED BY <1>1, <2>1, MismosRenglones DEF EnVigor, SinRestos
<1>12. PartidaNueva(r.partida)'
  <2> SUFFICES ASSUME NEW a \in DOMAIN activacion', activacion'[a].campania # "-"
               PROVE  activacion'[a].partida # n
    BY <1>7, <1>8, <1>10 DEF PartidaNueva
  <2>1. activacion[a].campania # "-" /\ a \in DOMAIN activacion /\ activacion'[a] = activacion[a]
    BY <1>1
  <2>2. activacion[a].campania \in Campanias
    <3>1. activacion[a] \in Activacion BY <2>1 DEF TipoInv, ActivacionesBien
    <3> QED BY <2>1, <3>1 DEF Activacion
  <2>3. a \in ActivacionesDe(activacion[a].campania) BY <2>1 DEF ActivacionesDe
  <2>4. activacion[a].partida \in DOMAIN partida BY <2>2, <2>3, RenglonDe
  <2> QED BY <1>7, <2>1, <2>4
<1>13. Obra(r)'
  <2>1. CASE q.op = "crear"
    <3>1. ActivacionesDe(r.campania) = {} BY <1>1, <1>2, <1>10, <2>1 DEF Obra, Creando
    <3>2. ActivacionesDe(r.campania)' = {} BY <1>1, <3>1, MismosRenglones
    <3> QED BY <1>10, <1>12, <2>1, <3>2 DEF Obra, Creando, Renovando, Cerrando, ConPartidaNueva
  <2>2. CASE q.op = "renovar"
    BY <1>10, <1>12, <2>2 DEF Obra, Creando, Renovando, Cerrando, ConPartidaNueva
  <2> QED BY <1>3, <2>1, <2>2
<1>14. ASSUME NEW x \in Campanias, Existe(x)' PROVE Vigente(x)' \/ (EnObra(r) /\ r.campania = x)
  <2>1. Existe(x) BY <1>1, <1>14 DEF Existe
  <2>2. CASE Vigente(x)
    <3>1. Mismas(x) BY <1>1, MismosRenglones
    <3>2. \A a \in ActivacionesDe(x) : activacion[a].partida \in DOMAIN partida
      BY RenglonDe
    <3> QED BY <1>1, <1>8, <2>2, <3>1, <3>2, VigenteSigue
  <2>3. CASE EnObra(q) /\ c = x
    BY <1>1, <1>3, <1>10, <2>3 DEF EnObra, Creando, Renovando, Cerrando
  <2> QED BY <1>0, <2>1, <2>2, <2>3, VigorAntes
<1> QED BY <1>0, <1>9, <1>11, <1>13, <1>14, VigorDePeticion


\* A campaign that is saved: its activations stay as they are.
LEMMA GuardarCampaniaEs ==
  ASSUME TipoInv, EnSerie, NEW h \in Hilos, GuardarCampania(h), NEW c, c = peticion[h].campania
  PROVE  /\ c \in Campanias /\ UNCHANGED <<activacion, partida>>
         /\ peticion[h].en \in {"guardar", "otraVez"}
         /\ \A x \in Campanias : x # c => campania'[x] = campania[x]
         /\ Existe(c) /\ campania'[c] \in CAMPAIGN_STATUS
         /\ \/ /\ peticion[h].op = "renovar" /\ campania'[c] = "REACTIVADA"
               /\ peticion'[h] = [peticion[h] EXCEPT !.en = "numerar"]
            \/ /\ peticion[h].op = "cerrar" /\ campania'[c] = "INACTIVA"
               /\ peticion'[h] = [peticion[h] EXCEPT !.en = "desactivar"]
            \/ /\ peticion[h].op \in {"actualizar", "firmar"}
               /\ campania'[c] = "INACTIVA" <=> campania[c] = "INACTIVA"
               /\ \/ peticion'[h] = SinPeticion
                  \/ /\ peticion[h].op = "actualizar"
                     /\ peticion'[h] = [peticion[h] EXCEPT !.en = "otraVez"]
<1> DEFINE q == peticion[h]
           en == TrasGuardada(q.op, q.en)
<1>0. Atender(h) BY DEF Atender
<1>1. q.en \in {"guardar", "otraVez"} /\ campania' = [campania EXCEPT ![c] = q.fila.status]
      /\ activacion' = ConFila(c, q.fila) /\ UNCHANGED partida
      /\ peticion' = IF en = "libre" THEN [peticion EXCEPT ![h] = SinPeticion]
                     ELSE [peticion EXCEPT ![h].en = en]
  BY DEF GuardarCampania, TrasGuardar, Responder, Seguir
<1>2. PeticionSeria(q) /\ EnSuSitio(q, Len(activacion)) /\ DOMAIN q = Campos /\ DOMAIN peticion = Hilos
  BY <1>0, SoloAtender
<1>3. c \in Campanias BY <1>1, <1>2 DEF EnSuSitio, DeBaja
<1>4. \/ /\ q.op = "renovar" /\ en = "numerar" /\ campania[c] \in Renovables
         /\ q.fila.status = "REACTIVADA"
         /\ q.fila.conActivaciones /\ q.fila.activaciones = Renglones(c)
      \/ /\ q.op = "cerrar" /\ en = "desactivar" /\ campania[c] \in Cerrables
         /\ q.fila.status = "INACTIVA" /\ ~q.fila.conActivaciones /\ DOMAIN q.fila.activaciones = {}
      \/ /\ q.op = "actualizar" /\ campania[c] \in Editables /\ q.fila.status = campania[c]
         /\ en = (IF q.en = "guardar" THEN "otraVez" ELSE "libre")
         /\ q.fila.conActivaciones /\ q.fila.activaciones = Renglones(c)
      \/ /\ q.op = "firmar" /\ campania[c] \in Editables \cup {"APROBADA"} /\ en = "libre"
         /\ q.fila.status = "PENDIENTE" /\ ~q.fila.conActivaciones /\ DOMAIN q.fila.activaciones = {}
  BY <1>1, <1>2 DEF EnSuSitio, PeticionSeria, CierreSerio, ActualizacionSeria, RenovacionSeria,
                    FirmaSeria, TrasGuardada
<1> HIDE DEF en
<1>5. activacion' = activacion
  <2>1. ConFila(c, q.fila) = activacion BY <1>4, ConFilaIgual
  <2> QED BY <1>1, <2>1
<1>6. campania'[c] = q.fila.status /\ \A x \in Campanias : x # c => campania'[x] = campania[x]
  BY <1>1, <1>3 DEF TipoInv, CampaniasBien
<1>7. Existe(c) /\ campania'[c] \in CAMPAIGN_STATUS
  BY <1>4, <1>6 DEF Existe, CAMPAIGN_STATUS, Editables, Cerrables, Renovables
<1>8. peticion'[h] = IF en = "libre" THEN SinPeticion ELSE [peticion[h] EXCEPT !.en = en]
  BY <1>1, <1>2
<1>9. q.op = "renovar" =>
        /\ campania'[c] = "REACTIVADA" /\ peticion'[h] = [peticion[h] EXCEPT !.en = "numerar"]
  BY <1>4, <1>6, <1>8
<1>10. q.op = "cerrar" =>
        /\ campania'[c] = "INACTIVA" /\ peticion'[h] = [peticion[h] EXCEPT !.en = "desactivar"]
  BY <1>4, <1>6, <1>8
<1>11. q.op \in {"actualizar", "firmar"} =>
         /\ campania'[c] = "INACTIVA" <=> campania[c] = "INACTIVA"
         /\ \/ peticion'[h] = SinPeticion
            \/ /\ peticion[h].op = "actualizar"
               /\ peticion'[h] = [peticion[h] EXCEPT !.en = "otraVez"]
  BY <1>4, <1>6, <1>8 DEF Editables
<1>12. q.op \in {"renovar", "cerrar", "actualizar", "firmar"} BY <1>4
<1> QED BY <1>1, <1>3, <1>5, <1>6, <1>7, <1>9, <1>10, <1>11, <1>12

LEMMA VigorGuardarCampania ==
  ASSUME TipoInv, EnSerie, EnVigor, NEW h \in Hilos, GuardarCampania(h)
  PROVE  EnVigor'
<1> DEFINE q == peticion[h]
<1>0. Atender(h) BY DEF Atender
<1>1. PICK c : c = q.campania OBVIOUS
<1>2. /\ c \in Campanias /\ UNCHANGED <<activacion, partida>> /\ q.en \in {"guardar", "otraVez"}
      /\ \A x \in Campanias : x # c => campania'[x] = campania[x]
      /\ Existe(c) /\ campania'[c] \in CAMPAIGN_STATUS
  BY <1>1, GuardarCampaniaEs
<1>3. Obra(q) /\ DOMAIN q = Campos
      /\ \A x \in Campanias : Existe(x) => Vigente(x) \/ (EnObra(q) /\ q.campania = x)
  BY <1>0, VigorAntes, SoloAtender
<1>4. /\ \A x : /\ ActivacionesDe(x)' = ActivacionesDe(x) /\ Activas(x)' = Activas(x)
                /\ UltimaActivacion(x)' = UltimaActivacion(x) /\ Mismas(x)
      /\ \A p : PartidaNueva(p)' <=> PartidaNueva(p)
      /\ (\A x \in Campanias : NumerosDe(x)') /\ PartidasAparte'
  BY <1>2, MismosRenglones DEF EnVigor
<1>5. SinRestos'
  <2> SUFFICES ASSUME NEW x \in Campanias, ~Existe(x)' PROVE ActivacionesDe(x)' = {}
    BY DEF SinRestos
  <2>1. x # c /\ ~Existe(x) BY <1>2 DEF Existe
  <2> QED BY <1>4, <2>1 DEF EnVigor, SinRestos
<1>6. ASSUME NEW x \in Campanias, Existe(x)', x # c PROVE Vigente(x)'
  <2>1. Existe(x) /\ campania'[x] = campania[x] BY <1>2, <1>6 DEF Existe
  <2>2. Vigente(x) BY <1>1, <1>3, <1>6, <2>1
  <2> QED BY <1>2, <1>4, <2>1, <2>2, VigenteSigue
<1>7. PICK r : r = peticion'[h] OBVIOUS
<1>8. CASE q.op = "renovar"
  <2>1. /\ r.op = "renovar" /\ r.en = "numerar" /\ r.campania = c /\ r.partida = q.partida
    BY <1>1, <1>3, <1>7, <1>8, GuardarCampaniaEs DEF Campos
  <2>2. q.en = "guardar"
    <3>1. EnSuSitio(q, Len(activacion)) BY <1>0, SoloAtender
    <3> QED BY <1>2, <1>8, <3>1 DEF EnSuSitio
  <2>3. UltimaActivacion(c) # 0 /\ Activas(c) = {} /\ PartidaNueva(r.partida)
    BY <1>1, <1>3, <1>8, <2>1, <2>2 DEF Obra, Renovando, ConPartidaNueva
  <2>4. Obra(r)'
    BY <1>4, <2>1, <2>3 DEF Obra, Creando, Renovando, Cerrando, ConPartidaNueva
  <2>5. EnObra(r) BY <2>1 DEF EnObra, Renovando
  <2> QED BY <1>0, <1>4, <1>5, <1>6, <1>7, <2>1, <2>4, <2>5, VigorDePeticion
<1>9. CASE q.op = "cerrar"
  <2>1. /\ r.op = "cerrar" /\ r.en = "desactivar" /\ r.campania = c /\ r.activacion = q.activacion
        /\ campania'[c] = "INACTIVA"
    BY <1>1, <1>3, <1>7, <1>9, GuardarCampaniaEs DEF Campos
  <2>2. ~EnObra(q) BY <1>2, <1>9 DEF EnObra, Creando, Renovando, Cerrando
  <2>3. q.en = "guardar"
    <3>1. EnSuSitio(q, Len(activacion)) BY <1>0, SoloAtender
    <3> QED BY <1>2, <1>9, <3>1 DEF EnSuSitio
  <2>4. Vigente(c) BY <1>2, <1>3, <2>2
  <2>5. UltimaActivacion(c) # 0 /\ Activas(c) \subseteq {UltimaActivacion(c)}
    BY <2>4 DEF Vigente
  <2>6. r.activacion = UltimaActivacion(c) BY <1>1, <1>3, <1>9, <2>1, <2>3 DEF Obra
  <2>7. Obra(r)'
    BY <1>2, <1>4, <2>1, <2>5, <2>6 DEF Obra, Creando, Renovando, Cerrando, ConPartidaNueva
  <2>8. EnObra(r) BY <2>1 DEF EnObra, Cerrando
  <2> QED BY <1>0, <1>4, <1>5, <1>6, <1>7, <2>1, <2>7, <2>8, VigorDePeticion
<1>10. CASE q.op \in {"actualizar", "firmar"}
  <2>1. /\ campania'[c] = "INACTIVA" <=> campania[c] = "INACTIVA"
        /\ r = SinPeticion \/ r.op = "actualizar"
    BY <1>1, <1>3, <1>7, <1>10, GuardarCampaniaEs DEF Campos
  <2>2. ~EnObra(q) /\ Obra(r)' BY <1>10, <2>1, ObraFuera, ObraDeNadie
  <2>3. Vigente(c) BY <1>2, <1>3, <2>2
  <2>4. Vigente(c)' BY <1>2, <1>4, <2>1, <2>3, VigenteSigue
  <2> QED BY <1>0, <1>4, <1>5, <1>6, <1>7, <2>2, <2>4, VigorDePeticion
<1> QED BY <1>1, <1>8, <1>9, <1>10, GuardarCampaniaEs


----
(* The queries that write activations, and the match of one that is closed. *)

\* Rows that keep their campaign, number and match.
LEMMA RenglonesQuietos ==
  ASSUME DOMAIN activacion' = DOMAIN activacion,
         \A a \in DOMAIN activacion : /\ activacion'[a].campania = activacion[a].campania
                                      /\ activacion'[a].numero = activacion[a].numero
                                      /\ activacion'[a].partida = activacion[a].partida
  PROVE  /\ \A c : /\ ActivacionesDe(c)' = ActivacionesDe(c)
                   /\ UltimaActivacion(c)' = UltimaActivacion(c)
                   /\ NumerosDe(c)' <=> NumerosDe(c)
         /\ PartidasAparte' <=> PartidasAparte
         /\ \A p : UNCHANGED partida => (PartidaNueva(p)' <=> PartidaNueva(p))
<1>1. \A c : /\ ActivacionesDe(c)' = ActivacionesDe(c)
             /\ UltimaActivacion(c)' = UltimaActivacion(c)
  BY UltimaIgual
<1>2. \A c : \A a \in ActivacionesDe(c) : a \in DOMAIN activacion BY DEF ActivacionesDe
<1>3. \A c : NumerosDe(c)' <=> NumerosDe(c) BY <1>1, <1>2 DEF NumerosDe
<1>4. PartidasAparte' <=> PartidasAparte BY DEF PartidasAparte
<1>5. \A p : UNCHANGED partida => (PartidaNueva(p)' <=> PartidaNueva(p))
  BY DEF PartidaNueva
<1> QED BY <1>1, <1>3, <1>4, <1>5

LEMMA VigorApagarActivaciones ==
  ASSUME TipoInv, EnSerie, EnVigor, NEW h \in Hilos, ApagarActivaciones(h)
  PROVE  EnVigor'
<1> DEFINE q == peticion[h]
           fila == q.fila
           acts == [a \in DOMAIN fila.activaciones |->
                      [fila.activaciones[a] EXCEPT !.status = FALSE]]
           apagada == [fila EXCEPT !.status = "REACTIVADA", !.activaciones = acts]
<1>0. Atender(h) BY DEF Atender
<1>1. q.en = "activaciones" /\ UNCHANGED <<campania, partida>> BY DEF ApagarActivaciones
<1>2. PeticionSeria(q) /\ EnSuSitio(q, Len(activacion)) /\ DOMAIN q = Campos /\ DOMAIN peticion = Hilos
      /\ DOMAIN fila = CamposDeFila /\ Obra(q)
  BY <1>0, SoloAtender, VigorAntes DEF PeticionBien, FilaBien
<1>c. PICK c \in Campanias : c = q.campania BY <1>1, <1>2 DEF EnSuSitio, DeBaja
<1>3. /\ q.op = "renovar" /\ campania[c] \in Renovables
      /\ fila.conActivaciones /\ fila.activaciones = Renglones(c)
  BY <1>c, <1>1, <1>2 DEF EnSuSitio, PeticionSeria, RenovacionSeria
<1>4. activacion' = ConActivaciones(apagada)
      /\ peticion' = [peticion EXCEPT ![h].en = "guardar", ![h].fila = apagada]
  <2>1. apagada = [fila EXCEPT !.status = "REACTIVADA",
                    !.activaciones = [a \in DOMAIN @ |-> [@[a] EXCEPT !.status = FALSE]]]
    BY <1>2 DEF CamposDeFila
  <2> HIDE DEF apagada
  <2>2. fila = q.fila OBVIOUS
  <2> QED BY <2>1, <2>2 DEF ApagarActivaciones
<1>5. apagada.activaciones = acts BY <1>2, <1>3 DEF CamposDeFila
<1>6. DOMAIN acts = ActivacionesDe(c)
      /\ \A a \in ActivacionesDe(c) : acts[a] = [activacion[a] EXCEPT !.status = FALSE]
  BY <1>3 DEF Renglones
<1> HIDE DEF acts, apagada
<1>7. DOMAIN activacion' = DOMAIN activacion /\ \A a \in DOMAIN activacion :
        activacion'[a] = IF a \in ActivacionesDe(c) THEN [activacion[a] EXCEPT !.status = FALSE]
                         ELSE activacion[a]
  BY <1>4, <1>5, <1>6 DEF ConActivaciones
<1>8. \A a \in DOMAIN activacion : activacion[a] \in Activacion
  BY DEF TipoInv, ActivacionesBien
<1>9. \A a \in DOMAIN activacion : /\ activacion'[a].campania = activacion[a].campania
                                   /\ activacion'[a].numero = activacion[a].numero
                                   /\ activacion'[a].partida = activacion[a].partida
  BY <1>7, <1>8 DEF Activacion
<1>10. \A a \in ActivacionesDe(c) : a \in DOMAIN activacion /\ activacion'[a].status = FALSE
  BY <1>7, <1>8 DEF Activacion, ActivacionesDe
<1>11. /\ \A x : /\ ActivacionesDe(x)' = ActivacionesDe(x)
                 /\ UltimaActivacion(x)' = UltimaActivacion(x)
       /\ \A p : PartidaNueva(p)' <=> PartidaNueva(p)
       /\ (\A x \in Campanias : NumerosDe(x)') /\ PartidasAparte'
  BY <1>1, <1>7, <1>9, RenglonesQuietos DEF EnVigor
<1>12. \A x : Existe(x)' <=> Existe(x) BY <1>1 DEF Existe
<1>13. SinRestos' BY <1>11, <1>12 DEF EnVigor, SinRestos
<1>14. Existe(c) /\ ~EnObra(q)
  BY <1>1, <1>3, NoEnObra DEF Existe, Renovables, CAMPAIGN_STATUS
<1>15. \A x \in Campanias : Existe(x) => Vigente(x) BY <1>0, <1>14, VigorAntes
<1>16. UltimaActivacion(c) # 0 BY <1>14, <1>15 DEF Vigente
<1>17. Activas(c)' = {} BY <1>10, <1>11 DEF Activas
<1>18. PICK r : r = peticion'[h] OBVIOUS
<1>19. r.op = "renovar" /\ r.en = "guardar" /\ r.campania = c /\ r.partida = q.partida
  BY <1>c, <1>2, <1>3, <1>4, <1>18 DEF Campos
<1>20. PartidaNueva(q.partida) BY <1>1, <1>2, <1>3 DEF Obra, ConPartidaNueva
<1>21. PartidaNueva(r.partida)' BY <1>11, <1>19, <1>20
<1>22. Obra(r)'
  BY <1>11, <1>16, <1>17, <1>19, <1>21 DEF Obra, Creando, Renovando, Cerrando, ConPartidaNueva
<1>23. EnObra(r) BY <1>19 DEF EnObra, Renovando
<1>24. ASSUME NEW x \in Campanias, Existe(x)', x # c PROVE Vigente(x)'
  <2>1. Vigente(x) BY <1>12, <1>15, <1>24
  <2>2. \A a \in ActivacionesDe(x) : a \in DOMAIN activacion /\ activacion'[a] = activacion[a]
    BY <1>7, <1>24 DEF ActivacionesDe
  <2>3. Mismas(x) BY <1>11, <2>2 DEF Mismas
  <2> QED BY <1>1, <2>1, <2>3, VigenteSigue
<1> QED BY <1>0, <1>11, <1>13, <1>18, <1>19, <1>22, <1>23, <1>24, VigorDePeticion

\* What closeCampaign disables is the last activation ...
LEMMA VigorBajaActivacion ==
  ASSUME TipoInv, EnSerie, EnVigor, NEW h \in Hilos, BajaActivacion(h)
  PROVE  EnVigor'
<1> DEFINE q == peticion[h]
<1>0. Atender(h) BY DEF Atender
<1>1. q.en = "baja" /\ UNCHANGED <<campania, partida>>
      /\ peticion' = [peticion EXCEPT ![h].en = "bajaPartida"]
  BY DEF BajaActivacion, Seguir
<1>2. PeticionSeria(q) /\ EnSuSitio(q, Len(activacion)) /\ DOMAIN q = Campos /\ DOMAIN peticion = Hilos
      /\ Obra(q)
  BY <1>0, SoloAtender, VigorAntes
<1>3. q.op = "cerrar" BY <1>1, <1>2 DEF EnSuSitio, DeBaja, PeticionSeria
<1>c. PICK c \in Campanias : c = q.campania BY <1>1, <1>2, <1>3 DEF Obra, Cerrando
<1>u. PICK u : u = UltimaActivacion(c) OBVIOUS
<1>4. /\ q.activacion = u /\ campania[c] = "INACTIVA" /\ u # 0 /\ Activas(c) \subseteq {u}
      /\ q.partida = activacion[u].partida
  BY <1>c, <1>u, <1>1, <1>2, <1>3 DEF Obra, Cerrando
<1>5. u \in ActivacionesDe(c) /\ u \in DOMAIN activacion /\ activacion[u].campania = c /\ c # "-"
  <2>1. u \in ActivacionesDe(c) BY <1>u, <1>4, UltimaEs DEF TipoInv
  <2> QED BY <2>1, RenglonDe
<1>6. activacion' = [activacion EXCEPT ![u].status = FALSE]
  <2>1. HayActivacion(u) BY <1>5 DEF HayActivacion, SinActivacion
  <2> QED BY <1>4, <2>1 DEF BajaActivacion
<1>7. \A a \in DOMAIN activacion : activacion[a] \in Activacion
  BY DEF TipoInv, ActivacionesBien
<1>8. DOMAIN activacion' = DOMAIN activacion
      /\ \A a \in DOMAIN activacion : /\ activacion'[a].campania = activacion[a].campania
                                      /\ activacion'[a].numero = activacion[a].numero
                                      /\ activacion'[a].partida = activacion[a].partida
                                      /\ a # u => activacion'[a] = activacion[a]
  BY <1>6, <1>7 DEF Activacion
<1>9. activacion'[u].status = FALSE BY <1>5, <1>6, <1>7 DEF Activacion
<1>10. /\ \A x : /\ ActivacionesDe(x)' = ActivacionesDe(x)
                 /\ UltimaActivacion(x)' = UltimaActivacion(x)
       /\ (\A x \in Campanias : NumerosDe(x)') /\ PartidasAparte'
  BY <1>8, RenglonesQuietos DEF EnVigor
<1>11. \A x : Existe(x)' <=> Existe(x) BY <1>1 DEF Existe
<1>12. SinRestos' BY <1>10, <1>11 DEF EnVigor, SinRestos
<1>13. Activas(c)' = {}
  <2>1. \A a \in ActivacionesDe(c) : a # u => ~activacion[a].status BY <1>4 DEF Activas
  <2>2. \A a \in ActivacionesDe(c) : ~activacion'[a].status
    BY <1>8, <1>9, <2>1 DEF ActivacionesDe
  <2> QED BY <1>10, <2>2 DEF Activas
<1>14. PICK r : r = peticion'[h] OBVIOUS
<1>15. r.op = "cerrar" /\ r.en = "bajaPartida" /\ r.campania = c /\ r.partida = q.partida
  BY <1>c, <1>1, <1>2, <1>3, <1>14 DEF Campos
<1>16. UltimaActivacion(c)' = u /\ activacion'[u].partida = r.partida
  BY <1>u, <1>4, <1>5, <1>8, <1>10, <1>15
<1>17. (activacion[UltimaActivacion(c)].partida)' = r.partida BY <1>16
<1>18. Obra(r)'
  BY <1>1, <1>4, <1>13, <1>15, <1>16, <1>17 DEF Obra, Creando, Renovando, Cerrando, ConPartidaNueva
<1>19. EnObra(r) BY <1>15 DEF EnObra, Cerrando
<1>20. ASSUME NEW x \in Campanias, Existe(x)', x # c PROVE Vigente(x)'
  <2>1. Vigente(x) BY <1>0, <1>c, <1>11, <1>20, VigorAntes
  <2>2. \A a \in ActivacionesDe(x) : a \in DOMAIN activacion /\ activacion'[a] = activacion[a]
    BY <1>5, <1>8, <1>20 DEF ActivacionesDe
  <2>3. Mismas(x) BY <1>10, <2>2 DEF Mismas
  <2> QED BY <1>1, <2>1, <2>3, VigenteSigue
<1> QED BY <1>0, <1>10, <1>12, <1>14, <1>15, <1>18, <1>19, <1>20, VigorDePeticion

\* ... and what it closes, the match of that activation.
LEMMA VigorBajaPartida ==
  ASSUME TipoInv, EnSerie, EnVigor, NEW h \in Hilos, BajaPartida(h)
  PROVE  EnVigor'
<1> DEFINE q == peticion[h]
<1>0. Atender(h) BY DEF Atender
<1>1. q.en = "bajaPartida" /\ UNCHANGED <<campania, activacion>> BY DEF BajaPartida
<1>2. PeticionSeria(q) /\ EnSuSitio(q, Len(activacion)) /\ DOMAIN q = Campos /\ DOMAIN peticion = Hilos
      /\ Obra(q)
  BY <1>0, SoloAtender, VigorAntes
<1>3. q.op = "cerrar" BY <1>1, <1>2 DEF EnSuSitio, DeBaja, PeticionSeria
<1>c. PICK c \in Campanias : c = q.campania BY <1>1, <1>2, <1>3 DEF Obra, Cerrando
<1>u. PICK u : u = UltimaActivacion(c) OBVIOUS
<1>p. PICK p : p = q.partida OBVIOUS
<1>4. /\ campania[c] = "INACTIVA" /\ u # 0 /\ Activas(c) = {} /\ p = activacion[u].partida
  BY <1>c, <1>u, <1>p, <1>1, <1>2, <1>3 DEF Obra, Cerrando
<1>5. u \in ActivacionesDe(c) /\ u \in DOMAIN activacion /\ activacion[u].campania = c /\ c # "-"
      /\ p \in DOMAIN partida
  <2>1. u \in ActivacionesDe(c) BY <1>u, <1>4, UltimaEs DEF TipoInv
  <2> QED BY <1>4, <2>1, RenglonDe
<1>6. partida' = [partida EXCEPT ![p].estatus = FALSE]
      /\ peticion' = [peticion EXCEPT ![h].en = "buscar"]
  <2>1. HayPartida(p) BY <1>5 DEF HayPartida, EnSerie
  <2>2. q.campania # "-" BY <1>c, <1>5
  <2> QED BY <1>p, <2>1, <2>2 DEF BajaPartida, Seguir
<1>7. \A x : partida[x] \in Partida => DOMAIN partida[x] = {"existe", "estatus", "montos"}
  BY DEF Partida
<1>8. partida'[p].estatus = FALSE /\ \A x : x # p => partida'[x] = partida[x]
  <2>1. partida[p] \in Partida BY <1>5 DEF TipoInv, PartidasBien
  <2> QED BY <1>5, <1>6, <1>7, <2>1
<1>9. /\ \A x : /\ ActivacionesDe(x)' = ActivacionesDe(x) /\ Activas(x)' = Activas(x)
                /\ UltimaActivacion(x)' = UltimaActivacion(x) /\ Mismas(x)
      /\ (\A x \in Campanias : NumerosDe(x)') /\ PartidasAparte'
  BY <1>1, MismosRenglones DEF EnVigor
<1>10. \A x : Existe(x)' <=> Existe(x) BY <1>1 DEF Existe
<1>11. SinRestos' BY <1>9, <1>10 DEF EnVigor, SinRestos
<1>12. PICK r : r = peticion'[h] OBVIOUS
<1>13. Obra(r)'
  <2>1. r.en = "buscar" BY <1>2, <1>6, <1>12 DEF Campos
  <2> QED BY <2>1, ObraFuera
<1>14. Vigente(c)'
  <2>1. (activacion[UltimaActivacion(c)].partida)' = p BY <1>u, <1>1, <1>4, <1>9
  <2>2. ~(partida[activacion[UltimaActivacion(c)].partida])'.estatus BY <1>8, <2>1
  <2> QED BY <1>u, <1>1, <1>4, <1>9, <2>2 DEF Vigente
<1>15. ASSUME NEW x \in Campanias, Existe(x)', x # c PROVE Vigente(x)'
  <2>1. Vigente(x) BY <1>0, <1>c, <1>10, <1>15, VigorAntes
  <2>2. ASSUME NEW a \in ActivacionesDe(x)
        PROVE  partida'[activacion[a].partida].estatus <=> partida[activacion[a].partida].estatus
    <3>1. a \in DOMAIN activacion /\ activacion[a].campania = x /\ x # "-" BY RenglonDe
    <3>2. a # u BY <1>5, <1>15, <3>1
    <3>3. activacion[a].partida # p BY <1>4, <1>5, <3>1, <3>2 DEF EnVigor, PartidasAparte
    <3> QED BY <1>8, <3>3
  <2> QED BY <1>1, <1>9, <2>1, <2>2, VigenteSigue
<1> QED BY <1>0, <1>9, <1>11, <1>12, <1>13, <1>14, <1>15, VigorDePeticion


LEMMA MayorEs ==
  ASSUME NEW S, \A x \in S : x \in Int, NEW m \in S, \A x \in S : x <= m
  PROVE  Max(S) = m
<1>1. m \in S /\ m \in Int /\ \A x \in S : m >= x OBVIOUS
<1>2. Max(S) \in S /\ \A x \in S : Max(S) >= x BY <1>1 DEF Max
<1>3. Max(S) \in Int /\ Max(S) >= m /\ Max(S) <= m BY <1>1, <1>2
<1> QED BY <1>1, <1>3

\* The activation that is inserted is the last of its campaign, and active.
LEMMA VigorGuardarActivacion ==
  ASSUME TipoInv, EnSerie, EnVigor, NEW h \in Hilos, GuardarActivacion(h)
  PROVE  EnVigor'
<1> DEFINE q == peticion[h]
           na == Len(activacion)
           n == na + 1
<1>0. Atender(h) BY DEF Atender
<1>1. q.en = "guardarActivacion" /\ UNCHANGED <<campania, partida>>
  BY DEF GuardarActivacion
<1>2. PeticionSeria(q) /\ EnSuSitio(q, Len(activacion)) /\ DOMAIN q = Campos /\ DOMAIN peticion = Hilos
      /\ q.partida \in 0..Len(partida) /\ Obra(q)
  BY <1>0, SoloAtender, VigorAntes DEF PeticionBien
<1>3. q.op \in {"crear", "renovar"} /\ q.campania \in Campanias
  BY <1>1, <1>2 DEF EnSuSitio, CreaActivacion, PeticionSeria, DeBaja
<1>c. PICK c \in Campanias : c = q.campania BY <1>3
<1>p. PICK p : p = q.partida OBVIOUS
<1>4. campania[c] \in {"CREADA", "REACTIVADA"}
  BY <1>c, <1>1, <1>2, <1>3 DEF PeticionSeria, CreacionSeria, RenovacionSeria
<1>5. Existe(c) /\ campania[c] # "INACTIVA" BY <1>4 DEF Existe, CAMPAIGN_STATUS
<1>6. PartidaNueva(p) BY <1>p, <1>1, <1>2, <1>3 DEF Obra, ConPartidaNueva
<1>7. HayPartida(p)
  <2>1. DOMAIN partida = 1..Len(partida) /\ Len(partida) \in Nat BY Longitudes DEF TipoInv
  <2>2. p \in DOMAIN partida BY <1>p, <1>2, <1>6, <2>1 DEF PartidaNueva
  <2> QED BY <2>2 DEF HayPartida, EnSerie
<1>8. PICK una : /\ activacion' = Append(activacion, una)
                 /\ una.campania = c /\ una.numero = q.leido + 1 /\ una.partida = p
                 /\ una.status = TRUE
  <2> DEFINE una == [campania |-> c, numero |-> q.leido + 1, partida |-> p, status |-> TRUE,
                     aprobada |-> FALSE]
  <2>1. activacion' = Append(activacion, una)
    BY <1>c, <1>p, <1>5, <1>7 DEF GuardarActivacion
  <2>2. /\ una.campania = c /\ una.numero = q.leido + 1 /\ una.partida = p /\ una.status = TRUE
    OBVIOUS
  <2> HIDE DEF una
  <2> QED BY <2>1, <2>2
<1>9. peticion' = [peticion EXCEPT ![h] = SinPeticion]
  BY <1>c, <1>p, <1>5, <1>7 DEF GuardarActivacion, Responder
<1>10. na \in Nat /\ DOMAIN activacion = 1..na BY Longitudes DEF TipoInv
<1>11. /\ DOMAIN activacion' = DOMAIN activacion \cup {n} /\ n \notin DOMAIN activacion
       /\ activacion'[n] = una
       /\ \A a \in DOMAIN activacion : activacion'[a] = activacion[a]
  BY <1>8, AgregadaEs
<1>12. /\ n \in Int /\ n # 0 /\ 0 <= n /\ n <= n
       /\ \A a \in DOMAIN activacion : a \in Int /\ a <= n /\ a # n /\ ~(n <= a)
  BY <1>10
<1> HIDE DEF na, n
<1> DEFINE S == ActivacionesDe(c)
<1>13. ActivacionesDe(c)' = S \cup {n} /\ n \notin S /\ \A a \in S : a \in DOMAIN activacion
  BY <1>8, <1>11 DEF ActivacionesDe
<1>14. IsFiniteSet(S) BY UltimaEs DEF TipoInv
<1>15. Cardinality(S) = q.leido /\ Cardinality(S) \in Nat
  <2>1. Cardinality(S) = q.leido BY <1>c, <1>1, <1>2, <1>3 DEF Obra
  <2> QED BY <1>14, <2>1, FS_CardinalityType
<1>16. Activas(c) = {} BY <1>c, <1>1, <1>2, <1>3 DEF Obra, Creando, Renovando, Activas
<1>17. UltimaActivacion(c)' = n
  <2> DEFINE T == S \cup {n} \cup {0}
  <2>1. (\A x \in T : x \in Int /\ x <= n) /\ n \in T
    <3>1. \A x \in S : x \in Int /\ x <= n BY <1>12, <1>13
    <3> HIDE DEF S
    <3> QED BY <1>12, <3>1
  <2>2. UltimaActivacion(c)' = Max(T) BY <1>13 DEF UltimaActivacion
  <2> HIDE DEF T
  <2> QED BY <2>1, <2>2, MayorEs
<1>18. Activas(c)' = {n} BY <1>8, <1>11, <1>13, <1>16 DEF Activas
<1> HIDE DEF S
<1>19. NumerosDe(c)'
  <2> SUFFICES ASSUME NEW a \in S \cup {n}
               PROVE  activacion'[a].numero = Cardinality({b \in S \cup {n} : b <= a})
    BY <1>13 DEF NumerosDe
  <2>1. CASE a = n
    <3>1. {b \in S \cup {n} : b <= a} = S \cup {n}
      <4>1. \A b \in S \cup {n} : b <= a BY <1>12, <1>13, <2>1
      <4> QED BY <4>1
    <3>2. Cardinality(S \cup {n}) = Cardinality(S) + 1 BY <1>13, <1>14, FS_AddElement
    <3> QED BY <1>8, <1>11, <1>15, <2>1, <3>1, <3>2
  <2>2. CASE a \in S
    <3>1. {b \in S \cup {n} : b <= a} = {b \in S : b <= a} BY <1>12, <1>13, <2>2
    <3>2. activacion[a].numero = Cardinality({b \in S : b <= a})
      BY <1>c, <2>2 DEF EnVigor, NumerosDe, S
    <3> QED BY <1>11, <1>13, <2>2, <3>1, <3>2
  <2> QED BY <2>1, <2>2
<1>20. ASSUME NEW x \in Campanias, x # c PROVE Mismas(x)
  BY <1>8, <1>11, <1>20 DEF Mismas, ActivacionesDe
<1>21. \A x \in Campanias : NumerosDe(x)' BY <1>19, <1>20, ConMismas DEF EnVigor
<1>22. PartidasAparte'
  <2> SUFFICES ASSUME NEW a \in DOMAIN activacion', NEW b \in DOMAIN activacion',
                      activacion'[a].campania # "-", activacion'[b].campania # "-",
                      activacion'[a].partida = activacion'[b].partida
               PROVE  a = b
    BY DEF PartidasAparte
  <2>1. CASE a = n /\ b # n BY <1>6, <1>8, <1>11, <2>1 DEF PartidaNueva
  <2>2. CASE a # n /\ b = n BY <1>6, <1>8, <1>11, <2>2 DEF PartidaNueva
  <2>3. CASE a # n /\ b # n BY <1>11, <2>3 DEF EnVigor, PartidasAparte
  <2> QED BY <2>1, <2>2, <2>3
<1>23. \A x : Existe(x)' <=> Existe(x) BY <1>1 DEF Existe
<1>24. SinRestos'
  <2> SUFFICES ASSUME NEW x \in Campanias, ~Existe(x)' PROVE ActivacionesDe(x)' = {}
    BY DEF SinRestos
  <2>1. x # c /\ ~Existe(x) BY <1>5, <1>23
  <2> QED BY <1>20, <2>1 DEF EnVigor, SinRestos, Mismas
<1>25. Vigente(c)'
  <2>1. (activacion[UltimaActivacion(c)].partida)' = p BY <1>8, <1>11, <1>17
  <2>2. (partida[activacion[UltimaActivacion(c)].partida])'.estatus
    BY <1>1, <1>6, <2>1 DEF PartidaNueva
  <2> QED BY <1>1, <1>5, <1>12, <1>17, <1>18, <2>2 DEF Vigente
<1>26. ASSUME NEW x \in Campanias, Existe(x)', x # c PROVE Vigente(x)'
  <2>1. Vigente(x) BY <1>0, <1>c, <1>23, <1>26, VigorAntes
  <2> QED BY <1>1, <1>20, <1>26, <2>1, VigenteSigue
<1>27. PICK r : r = peticion'[h] OBVIOUS
<1>28. Obra(r)' BY <1>2, <1>9, <1>27, ObraDeNadie
<1> QED BY <1>0, <1>21, <1>22, <1>24, <1>25, <1>26, <1>27, <1>28, VigorDePeticion

\* A campaign that is removed takes its activations with it.
LEMMA VigorBorrarCampania ==
  ASSUME TipoInv, EnSerie, EnVigor, NEW h \in Hilos, BorrarCampania(h)
  PROVE  EnVigor'
<1> DEFINE q == peticion[h]
<1>0. Atender(h) BY DEF Atender
<1>1. q.en = "borrar" /\ UNCHANGED partida /\ peticion' = [peticion EXCEPT ![h] = SinPeticion]
  BY DEF BorrarCampania, Responder
<1>2. EnSuSitio(q, Len(activacion)) /\ DOMAIN peticion = Hilos BY <1>0, SoloAtender
<1>c. PICK c \in Campanias : c = q.campania BY <1>1, <1>2 DEF EnSuSitio, DeBaja
<1>3. ~EnObra(q) BY <1>1, NoEnObra
<1>4. PICK r : r = peticion'[h] OBVIOUS
<1>5. r = SinPeticion BY <1>1, <1>2, <1>4
<1>6. CASE UNCHANGED <<campania, activacion>>
  BY <1>0, <1>1, <1>3, <1>4, <1>5, <1>6, VigorFuera
<1>7. CASE /\ campania' = [campania EXCEPT ![c] = "BORRADA"]
           /\ activacion' = [a \in DOMAIN activacion |->
                     IF activacion[a].campania = c THEN SinActivacion ELSE activacion[a]]
  <2>1. campania'[c] = "BORRADA" /\ \A x \in Campanias : x # c => campania'[x] = campania[x]
    BY <1>7 DEF TipoInv, CampaniasBien
  <2>2. SinActivacion.campania = "-" /\ \A x \in Campanias : x # "-"
    BY CampaniasAssumption DEF SinActivacion
  <2>3. DOMAIN activacion' = DOMAIN activacion
        /\ \A a \in DOMAIN activacion :
             \/ activacion[a].campania = c /\ activacion'[a].campania = "-"
             \/ activacion[a].campania # c /\ activacion'[a] = activacion[a]
    BY <1>7, <2>2
  <2>4. ActivacionesDe(c)' = {} BY <2>2, <2>3 DEF ActivacionesDe
  <2>5. ASSUME NEW x \in Campanias, x # c PROVE Mismas(x)
    BY <2>2, <2>3, <2>5 DEF Mismas, ActivacionesDe
  <2>6. \A x \in Campanias : NumerosDe(x)'
    <3>1. NumerosDe(c)' BY <2>4 DEF NumerosDe
    <3> QED BY <2>5, <3>1, ConMismas DEF EnVigor
  <2>7. PartidasAparte' BY <2>3 DEF EnVigor, PartidasAparte
  <2>8. SinRestos'
    <3> SUFFICES ASSUME NEW x \in Campanias, ~Existe(x)', x # c PROVE ActivacionesDe(x)' = {}
      BY <2>4 DEF SinRestos
    <3>1. ~Existe(x) BY <2>1 DEF Existe
    <3> QED BY <2>5, <3>1 DEF EnVigor, SinRestos, Mismas
  <2>9. ~Existe(c)' BY <2>1 DEF Existe, CAMPAIGN_STATUS
  <2>10. ASSUME NEW x \in Campanias, Existe(x)', x # c PROVE Vigente(x)'
    <3>1. Existe(x) /\ campania'[x] = campania[x] BY <2>1, <2>10 DEF Existe
    <3>2. Vigente(x) BY <1>0, <1>3, <3>1, VigorAntes
    <3> QED BY <1>1, <2>5, <2>10, <3>1, <3>2, VigenteSigue
  <2>11. Obra(r)' BY <1>5, ObraDeNadie
  <2> QED BY <1>0, <1>4, <2>6, <2>7, <2>8, <2>9, <2>10, <2>11, VigorDePeticion
<1> QED BY <1>c, <1>6, <1>7 DEF BorrarCampania


LEMMA VigorAtender ==
  ASSUME TipoInv, EnSerie, EnVigor, NEW h \in Hilos, Atender(h)
  PROVE  EnVigor'
<1>1. CASE \/ GuardarNueva(h) \/ GuardarPartida(h) \/ ApagarActivaciones(h) \/ Numerar(h)
           \/ GuardarActivacion(h) \/ LeerCampania(h) \/ BorrarCampania(h)
  BY <1>1, VigorGuardarNueva, VigorGuardarPartida, VigorApagarActivaciones, VigorNumerar,
     VigorGuardarActivacion, VigorLeerCampania, VigorBorrarCampania
<1>2. CASE \/ GuardarCampania(h) \/ LeerActivacion(h) \/ BajaActivacion(h) \/ BajaPartida(h)
  BY <1>2, VigorGuardarCampania, VigorLeerActivacion, VigorBajaActivacion, VigorBajaPartida
<1>3. CASE \/ LeerPorLimpiar(h) \/ LeerUltima(h) \/ GuardarDocumento(h) \/ BuscarPendientes(h)
           \/ LeerMaestroDeOrden(h) \/ LeerModificatorioDeOrden(h) \/ DevolverCargo(h)
           \/ BorrarOrden(h) \/ LeerParaOrden(h) \/ LeerFondos(h) \/ EscribirReserva(h)
           \/ GuardarOrden(h)
  BY <1>3, VigorOtras
<1> QED BY <1>1, <1>2, <1>3 DEF Atender

----
(* The handlers and what arrives. *)

\* A step that begins with no request in progress and keeps what is in force.
LEMMA VigorSinPeticiones ==
  ASSUME TipoInv, EnVigor, \A h \in Hilos : peticion[h] = SinPeticion,
         \A c \in Campanias : Mismas(c), PartidasAparte',
         \A c \in Campanias : /\ Existe(c)' <=> Existe(c)
                              /\ campania'[c] = "INACTIVA" <=> campania[c] = "INACTIVA",
         \A p \in DOMAIN partida : partida'[p].estatus <=> partida[p].estatus,
         \A h \in Hilos : Obra(peticion[h])'
  PROVE  EnVigor'
<1>1. ASSUME NEW c \in Campanias PROVE NumerosDe(c)' BY ConMismas DEF EnVigor
<1>2. SinRestos' BY DEF SinRestos, EnVigor, Mismas
<1>3. ASSUME NEW c \in Campanias, Existe(c)' PROVE Vigente(c)'
  <2>1. Vigente(c) BY <1>3, ObraDeNadie DEF EnVigor
  <2>2. \A a \in ActivacionesDe(c) : activacion[a].partida \in DOMAIN partida BY RenglonDe
  <2> QED BY <2>1, <2>2, VigenteSigue
<1> QED BY <1>1, <1>2, <1>3 DEF EnVigor

\* With no request in progress, nothing is half done after the step either.
LEMMA ObraEnReposo ==
  ASSUME UNCHANGED peticion, \A h \in Hilos : peticion[h] = SinPeticion
  PROVE  \A h \in Hilos : Obra(peticion[h])'
<1> SUFFICES ASSUME NEW h \in Hilos PROVE Obra(peticion[h])' OBVIOUS
<1>1. PICK q : q = peticion'[h] OBVIOUS
<1>2. Obra(q)' BY <1>1, ObraDeNadie
<1> QED BY <1>1, <1>2 DEF Obra, UltimaActivacion, ActivacionesDe, Activas, PartidaNueva, EnObra,
                          Creando, Renovando, Cerrando, ConPartidaNueva

LEMMA VigorEscribirStatus ==
  ASSUME TipoInv, FirmaInv, EnSerie, EnVigor, NEW e \in Avisos, EscribirStatus(e)
  PROVE  EnVigor'
<1>0. Manejar(e) BY DEF Manejar
<1>1. PICK c \in Campanias : c = CampaniaDe(e) BY <1>0, SoloManejar
<1>2. aviso[e].status = "escribir" /\ UNCHANGED <<activacion, partida, peticion>>
      /\ campania' = (IF Existe(c) THEN [campania EXCEPT ![c] = StatusDe(e)] ELSE campania)
  BY <1>1 DEF EscribirStatus
<1>3. AvisoSerio(e) /\ \A h \in Hilos : peticion[h] = SinPeticion BY <1>0, SoloManejar
<1>4. campania[c] = "PENDIENTE" BY <1>1, <1>2, <1>3 DEF AvisoSerio
<1>5. campania'[c] \in {"APROBADA", "CANCELADA"}
      /\ \A x \in Campanias : x # c => campania'[x] = campania[x]
  <2>1. Existe(c) BY <1>4 DEF Existe, CAMPAIGN_STATUS
  <2> QED BY <1>2, <2>1 DEF TipoInv, CampaniasBien, StatusDe
<1>6. ASSUME NEW x \in Campanias
      PROVE  /\ Existe(x)' <=> Existe(x)
             /\ campania'[x] = "INACTIVA" <=> campania[x] = "INACTIVA"
  BY <1>4, <1>5 DEF Existe, CAMPAIGN_STATUS
<1>7. (\A x : Mismas(x)) /\ PartidasAparte' BY <1>2, MismosRenglones DEF EnVigor
<1>8. \A p \in DOMAIN partida : partida'[p].estatus <=> partida[p].estatus BY <1>2
<1>9. \A h \in Hilos : Obra(peticion[h])' BY <1>2, <1>3, ObraEnReposo
<1> QED BY <1>3, <1>6, <1>7, <1>8, <1>9, VigorSinPeticiones

LEMMA VigorFechar ==
  ASSUME TipoInv, FirmaInv, EnSerie, EnVigor, NEW e \in Avisos, FecharActivacion(e)
  PROVE  EnVigor'
<1> DEFINE a == aviso[e].activacion
<1>0. Manejar(e) BY DEF Manejar
<1>1. UNCHANGED <<campania, partida, peticion>>
      /\ (activacion' = IF HayActivacion(a) THEN [activacion EXCEPT ![a].aprobada = TRUE]
                        ELSE activacion)
  BY DEF FecharActivacion
<1>2. \A h \in Hilos : peticion[h] = SinPeticion BY <1>0, SoloManejar
<1>3. \A b \in DOMAIN activacion : activacion[b] \in Activacion
  BY DEF TipoInv, ActivacionesBien
<1>4. DOMAIN activacion' = DOMAIN activacion
      /\ \A b \in DOMAIN activacion : /\ activacion'[b].campania = activacion[b].campania
                                      /\ activacion'[b].numero = activacion[b].numero
                                      /\ activacion'[b].partida = activacion[b].partida
                                      /\ activacion'[b].status = activacion[b].status
  BY <1>1, <1>3 DEF Activacion
<1>5. (\A x : ActivacionesDe(x)' = ActivacionesDe(x)) /\ PartidasAparte'
  BY <1>4, RenglonesQuietos DEF EnVigor
<1>6. \A x \in Campanias : Mismas(x) BY <1>4, <1>5 DEF Mismas, ActivacionesDe
<1>7. \A x \in Campanias : /\ Existe(x)' <=> Existe(x)
                           /\ campania'[x] = "INACTIVA" <=> campania[x] = "INACTIVA"
  BY <1>1 DEF Existe
<1>8. \A p \in DOMAIN partida : partida'[p].estatus <=> partida[p].estatus BY <1>1
<1>9. \A h \in Hilos : Obra(peticion[h])' BY <1>1, <1>2, ObraEnReposo
<1> QED BY <1>2, <1>5, <1>6, <1>7, <1>8, <1>9, VigorSinPeticiones

\* Everything else leaves campaigns, activations, matches and requests alone.
LEMMA VigorIgual ==
  ASSUME EnVigor, UNCHANGED <<campania, activacion, partida, peticion>>
  PROVE  EnVigor'
<1>1. ASSUME NEW h \in Hilos PROVE Obra(peticion[h])'
  <2>1. PICK q : q = peticion[h] OBVIOUS
  <2>2. Obra(q)' BY <2>1, FilasIguales DEF EnVigor
  <2>3. peticion'[h] = q BY <2>1
  <2> QED BY <2>2, <2>3 DEF Obra, UltimaActivacion, ActivacionesDe, Activas, PartidaNueva, EnObra,
                          Creando, Renovando, Cerrando, ConPartidaNueva
<1>2. ASSUME NEW c \in Campanias, Existe(c)', ~Vigente(c)'
      PROVE  \E h \in Hilos : EnObra(peticion'[h]) /\ peticion'[h].campania = c
  BY <1>2, FilasIguales DEF EnVigor
<1>3. \A c \in Campanias : Existe(c)' =>
        Vigente(c)' \/ \E h \in Hilos : (EnObra(peticion[h]) /\ peticion[h].campania = c)'
  BY <1>2 DEF EnObra, Creando, Renovando, Cerrando
<1>4. (\A c \in Campanias : NumerosDe(c)') /\ PartidasAparte' /\ SinRestos'
  BY FilasIguales DEF EnVigor
<1> QED BY <1>1, <1>3, <1>4 DEF EnVigor

LEMMA VigorManejar ==
  ASSUME TipoInv, FirmaInv, EnSerie, EnVigor, NEW e \in Avisos, Manejar(e)
  PROVE  EnVigor'
<1>1. CASE EscribirStatus(e) BY <1>1, VigorEscribirStatus
<1>2. CASE FecharActivacion(e) BY <1>2, VigorFechar
<1>3. CASE ~(EscribirStatus(e) \/ FecharActivacion(e))
  <2>1. UNCHANGED <<campania, activacion, partida, peticion>>
    BY <1>3, EscribeManejar DEF FirmaInv
  <2> QED BY <2>1, VigorIgual
<1> QED BY <1>1, <1>2, <1>3

\* The amounts of a match, not whether it is open.
LEMMA VigorCobrar ==
  ASSUME TipoInv, EnSerie, EnVigor, NEW k \in Cobros, Cobrar(k)
  PROVE  EnVigor'
<1>1. UNCHANGED <<campania, activacion, peticion>> /\ \A h \in Hilos : peticion[h] = SinPeticion
  BY SoloCobrar
<1>2. CASE LeerPartida(k)
  <2>1. UNCHANGED partida BY <1>2 DEF LeerPartida, filas
  <2> QED BY <1>1, <2>1, VigorIgual
<1>3. CASE EscribirPartida(k)
  <2>1. \E p, m : /\ p \in DOMAIN partida /\ partida'[p].estatus = partida[p].estatus
                  /\ \A q \in DOMAIN partida : q # p => partida'[q] = partida[q]
    BY <1>3, EscribirPartidaEs
  <2>2. \A p \in DOMAIN partida : partida'[p].estatus <=> partida[p].estatus BY <2>1
  <2>3. (\A x : Mismas(x)) /\ PartidasAparte' BY <1>1, MismosRenglones DEF EnVigor
  <2>4. \A x \in Campanias : /\ Existe(x)' <=> Existe(x)
                             /\ campania'[x] = "INACTIVA" <=> campania[x] = "INACTIVA"
    BY <1>1 DEF Existe
  <2>5. \A h \in Hilos : Obra(peticion[h])' BY <1>1, ObraEnReposo
  <2> QED BY <1>1, <2>2, <2>3, <2>4, <2>5, VigorSinPeticiones
<1> QED BY <1>2, <1>3 DEF Cobrar


\* A request that has done nothing yet.
LEMMA VigorPedir ==
  ASSUME TipoInv, EnSerie, EnVigor, NEW h \in Hilos, NEW regular \in BOOLEAN, NEW nueva,
         Pedir(h, regular, nueva), incidentes' = 0,
         \/ nueva.en \in {"guardarNueva", "limpiar"}
         \/ nueva.en = "leer" /\ (nueva.op = "cerrar" =>
                                    nueva.activacion = UltimaActivacion(nueva.campania))
  PROVE  EnVigor'
<1>1. /\ peticion'[h] = nueva /\ \A g \in Hilos : g # h => peticion'[g] = peticion[g]
      /\ UNCHANGED <<campania, activacion, partida>> /\ Llegar(regular)
  BY DEF Pedir, filas, TipoInv, PeticionesBien
<1>2. \A g \in Hilos : peticion[g] = SinPeticion BY <1>1, LlegarEnSerie, NadaEnCurso
<1>3. Obra(nueva) BY DEF Obra, Creando, Renovando, Cerrando, ConPartidaNueva
<1>4. ASSUME NEW g \in Hilos PROVE Obra(peticion[g])'
  <2>1. PICK q : q = peticion'[g] OBVIOUS
  <2>2. Obra(q) BY <1>1, <1>2, <1>3, <2>1, ObraDeNadie
  <2>3. Obra(q)' BY <1>1, <2>2, FilasIguales
  <2> QED BY <2>1, <2>3 DEF Obra, UltimaActivacion, ActivacionesDe, Activas, PartidaNueva, EnObra,
                            Creando, Renovando, Cerrando, ConPartidaNueva
<1>5. (\A x : Mismas(x)) /\ PartidasAparte' BY <1>1, MismosRenglones DEF EnVigor
<1>6. \A x \in Campanias : /\ Existe(x)' <=> Existe(x)
                           /\ campania'[x] = "INACTIVA" <=> campania[x] = "INACTIVA"
  BY <1>1 DEF Existe
<1>7. \A p \in DOMAIN partida : partida'[p].estatus <=> partida[p].estatus BY <1>1
<1> QED BY <1>2, <1>4, <1>5, <1>6, <1>7, VigorSinPeticiones

LEMMA VigorSolicitar ==
  ASSUME TipoInv, EnSerie, EnVigor, NEW h \in Hilos, Solicitar(h), incidentes' = 0
  PROVE  EnVigor'
<1>0. DOMAIN SinPeticion = Campos BY SinNada
<1>1. ASSUME NEW c \in Campanias, PedirCrear(h, c) PROVE EnVigor'
  <2>1. PICK en \in {"guardarNueva", "limpiar"} :
          Pedir(h, TRUE, [SinPeticion EXCEPT !.op = "crear", !.en = en, !.campania = c])
    BY <1>1 DEF PedirCrear
  <2> DEFINE r == [SinPeticion EXCEPT !.op = "crear", !.en = en, !.campania = c]
  <2>2. r.en = en BY <1>0 DEF Campos
  <2> HIDE DEF r
  <2>3. Pedir(h, TRUE, r) BY <2>1 DEF r
  <2> QED BY <2>2, <2>3, VigorPedir
<1>2. ASSUME NEW c \in Campanias, NEW op \in {"actualizar", "quitar", "renovar", "activar"},
             PedirSobre(h, op, c)
      PROVE  EnVigor'
  <2> DEFINE r == [SinPeticion EXCEPT !.op = op, !.campania = c,
                               !.en = IF op = "activar" THEN "partida" ELSE "leer"]
  <2>1. r.op = op /\ r.en = (IF op = "activar" THEN "partida" ELSE "leer")
    BY <1>0 DEF Campos
  <2>2. Pedir(h, op # "activar", r) BY <1>2 DEF PedirSobre
  <2> HIDE DEF r
  <2>3. op # "activar"
    <3>1. Llegar(op # "activar") BY <2>2 DEF Pedir
    <3> QED BY <3>1, LlegarEnSerie
  <2> QED BY <2>1, <2>2, <2>3, VigorPedir
<1>3. ASSUME NEW c \in Campanias, NEW a \in DOMAIN activacion, PedirCerrar(h, c, a)
      PROVE  EnVigor'
  <2> DEFINE r == [SinPeticion EXCEPT !.op = "cerrar", !.en = "leer", !.campania = c,
                               !.activacion = a]
  <2>1. r.op = "cerrar" /\ r.en = "leer" /\ r.campania = c /\ r.activacion = a
    BY <1>0 DEF Campos
  <2>2. Pedir(h, a = UltimaActivacion(c), r) BY <1>3 DEF PedirCerrar
  <2> HIDE DEF r
  <2>3. a = UltimaActivacion(c)
    <3>1. Llegar(a = UltimaActivacion(c)) BY <2>2 DEF Pedir
    <3> QED BY <3>1, LlegarEnSerie
  <2> QED BY <2>1, <2>2, <2>3, VigorPedir
<1>4. ASSUME NEW c \in Campanias, NEW accion \in Acciones, NEW d \in Envios,
             PedirFirma(h, c, accion, d)
      PROVE  EnVigor'
  <2> DEFINE r == [SinPeticion EXCEPT !.op = "firmar", !.en = "leer", !.campania = c,
                                        !.accion = accion, !.doc = d]
  <2>1. r.op = "firmar" /\ r.en = "leer" BY <1>0 DEF Campos
  <2>2. Pedir(h, TRUE, r) BY <1>4 DEF PedirFirma
  <2> HIDE DEF r
  <2> QED BY <2>1, <2>2, VigorPedir
<1>5. ASSUME NEW c \in Campanias, NEW o \in Ordenes, NEW total \in Totales,
             PedirOrden(h, c, o, total)
      PROVE  EnVigor'
  <2> DEFINE r == [SinPeticion EXCEPT !.op = "ordenar", !.en = "leer", !.campania = c,
                               !.orden = o, !.total = total]
  <2>1. r.op = "ordenar" /\ r.en = "leer" BY <1>0 DEF Campos
  <2>2. Pedir(h, campania[c] \in Editables, r) BY <1>5 DEF PedirOrden
  <2> HIDE DEF r
  <2>3. campania[c] \in Editables
    <3>1. Llegar(campania[c] \in Editables) /\ incidentes \in Nat
      BY <2>2, CampaniasAssumption DEF Pedir, TipoInv, CuposBien
    <3> QED BY <3>1 DEF Llegar
  <2>4. Pedir(h, TRUE, r) BY <2>2, <2>3 DEF Pedir, Llegar
  <2> QED BY <2>1, <2>4, VigorPedir
<1> QED BY <1>1, <1>2, <1>3, <1>4, <1>5 DEF Solicitar

----
(* From the beginning, and step after step. *)

\* Every campaign that exists at the start has one activation.
LEMMA TodasConUna ==
  ASSUME NEW ids \in [1..Cardinality(Existentes) -> Existentes],
         \A i, j \in DOMAIN ids : ids[i] = ids[j] => i = j
  PROVE  \A c \in Existentes : \E i \in 1..Cardinality(Existentes) : ids[i] = c
<1> DEFINE n == Cardinality(Existentes)
<1>1. IsFiniteSet(Existentes) /\ n \in Nat BY CampaniasAssumption, FS_CardinalityType
<1>2. Cardinality(1..n) = n
  <2>1. 1 \in Int /\ n \in Int BY <1>1
  <2>2. Cardinality(1..n) = IF 1 > n THEN 0 ELSE n - 1 + 1 BY <2>1, FS_Interval
  <2> QED BY <1>1, <2>2
<1>3. ids \in Injection(1..n, Existentes) BY DEF Injection, IsInjective
<1>4. ids \in Surjection(1..n, Existentes) BY <1>1, <1>2, <1>3, FS_Injection
<1> QED BY <1>4 DEF Surjection


LEMMA VigorInicial ==
  ASSUME InitCampania
  PROVE  EnVigor
<1> DEFINE n == Cardinality(Existentes)
<1>1. PICK ids \in [1..n -> Existentes] :
        /\ \A i, j \in DOMAIN ids : ids[i] = ids[j] => i = j
        /\ activacion = [i \in 1..n |->
             [SinActivacion EXCEPT !.campania = ids[i], !.numero = 1, !.partida = i,
                                   !.status = TRUE]]
  BY ActivacionesIniciales DEF InitCampania
<1>2. n \in Nat /\ partida = [i \in 1..n |-> NuevaPartida]
  BY ActivacionesIniciales DEF InitCampania
<1>3. \A c \in Existentes : \E i \in 1..n : ids[i] = c BY <1>1, TodasConUna
<1> HIDE DEF n
<1>4. DOMAIN activacion = 1..n /\ \A i \in 1..n :
        /\ activacion[i].campania = ids[i] /\ activacion[i].numero = 1
        /\ activacion[i].partida = i /\ activacion[i].status = TRUE
  BY <1>1 DEF SinActivacion
<1>5. \A i \in 1..n : partida[i].estatus = TRUE BY <1>2 DEF NuevaPartida
<1>6. campania = [c \in Campanias |-> IF c \in Existentes THEN "CREADA" ELSE "NO_EXISTE"]
  BY DEF InitCampania, CampaniasIniciales
<1>7. \A c \in Campanias : (Existe(c) <=> c \in Existentes)
                           /\ (c \in Existentes => campania[c] = "CREADA")
  BY <1>6 DEF Existe, CAMPAIGN_STATUS
<1>8. ASSUME NEW c \in Campanias, c \notin Existentes PROVE ActivacionesDe(c) = {}
  <2>1. \A i \in 1..n : ids[i] \in Existentes BY <1>1
  <2>2. \A i \in DOMAIN activacion : activacion[i].campania # c BY <1>4, <1>8, <2>1
  <2> QED BY <2>2 DEF ActivacionesDe
<1>9. ASSUME NEW c \in Existentes
      PROVE  \E i \in 1..n : ActivacionesDe(c) = {i}
  <2>1. PICK i \in 1..n : ids[i] = c BY <1>3
  <2>2. \A j \in 1..n : ids[j] = c => j = i BY <1>1, <2>1
  <2>3. \A j \in DOMAIN activacion : activacion[j].campania = c <=> j = i
    BY <1>4, <2>1, <2>2
  <2>4. i \in DOMAIN activacion BY <1>4
  <2>5. ActivacionesDe(c) = {i} BY <2>3, <2>4 DEF ActivacionesDe
  <2> QED BY <2>5
<1>10. ASSUME NEW c \in Campanias PROVE NumerosDe(c)
  <2>1. CASE c \notin Existentes BY <1>8, <2>1 DEF NumerosDe
  <2>2. CASE c \in Existentes
    <3>1. PICK i \in 1..n : ActivacionesDe(c) = {i} BY <1>9, <2>2
    <3>2. {b \in ActivacionesDe(c) : b <= i} = {i} BY <3>1, <1>2
    <3>3. Cardinality({b \in ActivacionesDe(c) : b <= i}) = 1 BY <3>2, FS_Singleton
    <3>4. activacion[i].numero = 1 BY <1>4
    <3> QED BY <3>1, <3>3, <3>4 DEF NumerosDe
  <2> QED BY <2>1, <2>2
<1>11. PartidasAparte BY <1>4 DEF PartidasAparte
<1>12. SinRestos BY <1>7, <1>8 DEF SinRestos
<1>13. ASSUME NEW c \in Campanias, Existe(c) PROVE Vigente(c)
  <2>1. PICK i \in 1..n : ActivacionesDe(c) = {i} BY <1>7, <1>9, <1>13
  <2>2. i \in Int /\ i # 0 /\ 0 <= i BY <1>2
  <2>3. UltimaActivacion(c) = i
    <3>1. Max({i} \cup {0}) = i
      <4> DEFINE S == {i} \cup {0}
      <4>1. i \in S /\ \A x \in S : x \in Int /\ x <= i BY <2>2
      <4> HIDE DEF S
      <4>2. Max(S) = i BY <4>1, MayorEs
      <4> QED BY <4>2 DEF S
    <3> QED BY <2>1, <3>1 DEF UltimaActivacion
  <2>4. Activas(c) = {i} /\ campania[c] # "INACTIVA"
    BY <1>4, <1>7, <1>13, <2>1 DEF Activas
  <2>5. partida[activacion[UltimaActivacion(c)].partida].estatus BY <1>4, <1>5, <2>3
  <2> QED BY <2>2, <2>3, <2>4, <2>5 DEF Vigente
<1>14. ASSUME NEW h \in Hilos PROVE Obra(peticion[h])
  <2>1. peticion[h] = SinPeticion BY DEF InitCampania
  <2> QED BY <2>1, ObraDeNadie
<1> QED BY <1>10, <1>11, <1>12, <1>13, <1>14 DEF EnVigor

LEMMA PasoVigente ==
  ASSUME TipoInv, FirmaInv, SerieInv, VigenteInv, [NextCampania]_todas
  PROVE  VigenteInv'
<1> SUFFICES ASSUME incidentes' = 0 PROVE EnVigor' BY DEF VigenteInv
<1>0. EnSerie /\ EnVigor BY PasoEnSerie DEF SerieInv, VigenteInv
<1>1. CASE UNCHANGED todas BY <1>0, <1>1, VigorIgual DEF todas, varsCampania, filas
<1>2. ASSUME NEW h \in Hilos, Solicitar(h) \/ Atender(h) PROVE EnVigor'
  BY <1>0, <1>2, VigorSolicitar, VigorAtender
<1>3. ASSUME NEW d \in Envios, EnviarAFirmamex(d) PROVE EnVigor'
  BY <1>0, <1>3, VigorIgual DEF EnviarAFirmamex
<1>4. ASSUME NEW e \in Avisos, Recibir(e) PROVE EnVigor'
  BY <1>0, <1>4, VigorIgual DEF Recibir, filas
<1>5. ASSUME NEW e \in Avisos, Manejar(e) PROVE EnVigor' BY <1>0, <1>5, VigorManejar
<1>6. ASSUME NEW k \in Cobros, NEW evento, NEW o, NEW total, PedirCobro(k, evento, o, total)
      PROVE  EnVigor'
  BY <1>0, <1>6, VigorIgual DEF PedirCobro, filas
<1>7. ASSUME NEW k \in Cobros, Cobrar(k) PROVE EnVigor' BY <1>0, <1>7, VigorCobrar
<1> QED BY <1>1, <1>2, <1>3, <1>4, <1>5, <1>6, <1>7, PasoEnSerie

\* Undisturbed, through any sequence of closings, renewals and signatures, a
\* campaign that is not closed has one active activation, the last, and its
\* match is the one that can be charged; a closed one has none, and the numbers
\* of its activations count them (activacion.service.ts, createRenovation and
\* closeCampaign of campañas.service.ts).
THEOREM UnaActivacionVigente == SpecCampania => []UnaVigente
<1> DEFINE Inv == TipoInv /\ FirmaInv /\ SerieInv
<1>1. InitCampania => VigenteInv BY VigorInicial DEF VigenteInv
<1>2. Inv /\ VigenteInv /\ [NextCampania]_todas => VigenteInv' BY PasoVigente
<1>3. ASSUME TipoInv, VigenteInv PROVE UnaVigente
  <2> SUFFICES ASSUME Tranquilo, NEW c \in Campanias, Existe(c)
               PROVE  Vigente(c) /\ NumerosDe(c)
    BY DEF UnaVigente, Vigente, NumerosDe, Activas
  <2>1. EnVigor /\ \A h \in Hilos : peticion[h] = SinPeticion
    BY <1>3, NadaEnCurso DEF Tranquilo, VigenteInv
  <2> QED BY <2>1, ObraDeNadie DEF EnVigor
<1>4. SpecCampania => []Inv BY SerieSiempre
<1>5. Inv /\ VigenteInv => UnaVigente BY <1>3
<1> HIDE DEF Inv
<1> QED BY <1>1, <1>2, <1>4, <1>5, PTL DEF SpecCampania


----
(* The orders of the campaigns, undisturbed: which status they have while  *)
(* their campaign is signed, closed and renewed.                           *)

\* The order is of the last activation of its campaign.
DeUltima(o, c) ==
  LET u == UltimaActivacion(c)
  IN  HayOrden(o) /\ orden[o].campania = c /\ u # 0 /\ orden[o].partida = activacion[u].partida

\* A document for the action was made and is not notified as completed.
PorFirmar(c, accion) ==
  \E d \in Envios : documento[d].campania = c /\ ~Notificado(d) /\ documento[d].accion = accion

\* The orders that a campaign will be approved with wait for it, and those that
\* it was approved with are active.
Asentada(c) ==
  \A o \in Ordenes : DeUltima(o, c) =>
    /\ campania[c] \in Editables \/ PorFirmar(c, "APPROVE") => orden[o].estatus = "PENDIENTE"
    /\ campania[c] = "APROBADA" \/ PorFirmar(c, "CANCEL") => orden[o].estatus = "ACTIVA"

\* The renewed campaign has its new status and not yet its new activation.
Reabierta(q) == q.op = "renovar" /\ q.en \in {"numerar", "guardarActivacion"}

EstatusAntes(e) == IF Aprueba(e) THEN "PENDIENTE" ELSE "ACTIVA"
EstatusTras(e) == IF Aprueba(e) THEN "ACTIVA" ELSE "CANCELADA"

\* What is held of an order is what the order has.
EnMano(x, estatus) ==
  HayOrden(x[1]) /\ orden[x[1]].estatus = estatus /\ x = <<x[1], orden[x[1]].cargos>>

Devolviendo == {"devolver", "modificatorio", "borrarOrden"}

OrdenesDePeticion(q) ==
  LET c == q.campania
      u == UltimaActivacion(c)
  IN  /\ q.op = "ordenar" =>
           /\ campania[c] \in Editables
           /\ q.en \in {"fondos", "comprometer", "guardarOrden"} =>
                u # 0 /\ q.partida = activacion[u].partida
      /\ q.en \in {"maestro"} \cup Devolviendo => \A x \in q.ordenes : EnMano(x, "PENDIENTE")
      /\ q.en \in Devolviendo =>
           /\ HayOrden(q.orden) /\ orden[q.orden].estatus = "PENDIENTE"
           /\ \A x \in q.ordenes : x[1] # q.orden
      /\ q.op = "firmar" /\ q.en \in {"ultima", "documento", "guardar"} =>
           campania[c] \in IF q.accion = "CANCEL" THEN {"APROBADA"} ELSE Editables
      /\ q.op = "firmar" /\ q.en = "guardar" => documento[q.doc].accion = q.accion
      /\ ConPartidaNueva(q) => \A o \in Ordenes : HayOrden(o) => orden[o].partida # q.partida

\* The handlers of e take the orders of the last activation from a status to
\* the next one, one at a time.
AvisoAsentado(e) ==
  LET c == CampaniaDe(e)
      u == UltimaActivacion(c)
  IN  EnCurso(e) =>
        /\ aviso[e].status \in {"no", "aprobar"} => campania[c] = StatusDe(e)
        /\ aviso[e].montos \in {"activacion", "ordenes"} =>
             \A o \in Ordenes : DeUltima(o, c) => orden[o].estatus = EstatusAntes(e)
        /\ aviso[e].montos = "ordenes" => u # 0 /\ aviso[e].partida = activacion[u].partida
        /\ aviso[e].montos \notin {"siguiente", "cargos"} => aviso[e].ordenes = {}
        /\ \A x \in aviso[e].ordenes : EnMano(x, EstatusAntes(e))
        /\ aviso[e].montos = "cargos" =>
             /\ HayOrden(aviso[e].orden) /\ orden[aviso[e].orden].estatus = EstatusAntes(e)
             /\ \A x \in aviso[e].ordenes : x[1] # aviso[e].orden
        /\ aviso[e].montos \in {"siguiente", "cargos", "no"} =>
             \A o \in Ordenes : DeUltima(o, c) => Lleva(e, o) \/ orden[o].estatus = EstatusTras(e)

OrdenesConPartida == \A o \in Ordenes : HayOrden(o) => orden[o].partida <= Len(partida)

EnOrden ==
  /\ OrdenesConPartida
  /\ \A c \in Campanias :
       \/ Asentada(c)
       \/ \E h \in Hilos : Reabierta(peticion[h]) /\ peticion[h].campania = c
       \/ \E e \in Avisos : EnCurso(e) /\ CampaniaDe(e) = c
  /\ \A h \in Hilos : OrdenesDePeticion(peticion[h])
  /\ \A e \in Avisos : AvisoAsentado(e)

OrdenInv == incidentes = 0 => EnOrden

\* Nobody's request has orders.
LEMMA OrdenesDeNadie ==
  ~Reabierta(SinPeticion) /\ OrdenesDePeticion(SinPeticion) /\ OrdenesDePeticion(SinPeticion)'
BY SinNada DEF Reabierta, OrdenesDePeticion, Devolviendo, ConPartidaNueva

\* What is to be signed, while documents and notifications stay.
LEMMA PorFirmarIgual ==
  ASSUME UNCHANGED <<documento, aviso>>
  PROVE  \A c, accion : PorFirmar(c, accion)' <=> PorFirmar(c, accion)
BY DEF PorFirmar, Notificado

\* A campaign that does not wait for signatures has no document to be signed,
\* but the one that a request has just inserted.
LEMMA SinPorFirmar ==
  ASSUME TipoInv, EnSerie, NEW c \in Campanias, campania[c] # "PENDIENTE",
         \A h \in Hilos : ~(peticion[h].op = "firmar" /\ peticion[h].en = "guardar"
                            /\ peticion[h].campania = c)
  PROVE  \A accion : ~PorFirmar(c, accion)
<1> SUFFICES ASSUME NEW d \in Envios, documento[d].campania = c, ~Notificado(d) PROVE FALSE
  BY DEF PorFirmar
<1>1. documento[d] # SinDocumento BY DocumentoDe
<1>2. PICK h \in Hilos : Guarda(h, d) BY <1>1 DEF EnSerie, DocumentoSerio
<1>3. peticion[h].op = "firmar" /\ peticion[h].en = "guardar" /\ peticion[h].doc = d
  BY <1>2 DEF Guarda
<1>4. peticion[h].campania = c BY <1>3 DEF EnSerie, PeticionSeria, FirmaSeria
<1> QED BY <1>3, <1>4

\* The campaign has the activations that it had, with their matches.
MismasPartidas(c) ==
  /\ ActivacionesDe(c)' = ActivacionesDe(c)
  /\ \A a \in ActivacionesDe(c) : activacion'[a].partida = activacion[a].partida

LEMMA ConMismasPartidas ==
  /\ UNCHANGED activacion => \A c : MismasPartidas(c)
  /\ \A c : Mismas(c) => MismasPartidas(c)
BY DEF MismasPartidas, Mismas, ActivacionesDe

\* An order of the last activation stays one.
LEMMA DeUltimaIgual ==
  ASSUME TipoInv, NEW c \in Campanias, MismasPartidas(c), NEW o,
         HayOrden(o)' <=> HayOrden(o),
         HayOrden(o) => /\ orden'[o].campania = orden[o].campania
                        /\ orden'[o].partida = orden[o].partida
  PROVE  DeUltima(o, c)' <=> DeUltima(o, c)
<1> DEFINE u == UltimaActivacion(c)
<1>1. UltimaActivacion(c)' = u BY DEF MismasPartidas, UltimaActivacion
<1>2. u # 0 => u \in ActivacionesDe(c) BY UltimaEs DEF TipoInv
<1>3. u # 0 => (activacion[UltimaActivacion(c)].partida)' = activacion[u].partida
  BY <1>1, <1>2 DEF MismasPartidas
<1> HIDE DEF u
<1> QED BY <1>1, <1>3 DEF DeUltima, u

LEMMA AsentadaSigue ==
  ASSUME TipoInv, NEW c \in Campanias, MismasPartidas(c), Asentada(c),
         \A o \in Ordenes : orden'[o] # SinOrden /\ orden'[o].campania = c => orden'[o] = orden[o],
         campania'[c] \in Editables => campania[c] \in Editables,
         campania'[c] = "APROBADA" => campania[c] = "APROBADA",
         \A accion : PorFirmar(c, accion)' => PorFirmar(c, accion)
  PROVE  Asentada(c)'
<1> SUFFICES ASSUME NEW o \in Ordenes, DeUltima(o, c)'
             PROVE  /\ campania'[c] \in Editables \/ PorFirmar(c, "APPROVE")' =>
                         orden'[o].estatus = "PENDIENTE"
                    /\ campania'[c] = "APROBADA" \/ PorFirmar(c, "CANCEL")' =>
                         orden'[o].estatus = "ACTIVA"
  BY DEF Asentada
<1>1. orden'[o] = orden[o] BY DEF DeUltima, HayOrden
<1>2. DeUltima(o, c) BY <1>1, DeUltimaIgual DEF HayOrden
<1> QED BY <1>1, <1>2 DEF Asentada

\* A campaign with nothing to be signed that is neither open nor approved.
LEMMA AsentadaCerrada ==
  ASSUME NEW c, campania'[c] \notin Editables \cup {"APROBADA"},
         \A accion : ~PorFirmar(c, accion)'
  PROVE  Asentada(c)'
BY DEF Asentada

\* ... or that has no orders in its last activation.
LEMMA AsentadaSinOrdenes ==
  ASSUME NEW c, \A o \in Ordenes : ~DeUltima(o, c)'
  PROVE  Asentada(c)'
BY DEF Asentada

LEMMA EnOrdenIgual ==
  ASSUME UNCHANGED <<campania, activacion, orden, documento, aviso>>
  PROVE  /\ \A c : Asentada(c)' <=> Asentada(c)
         /\ \A q : OrdenesDePeticion(q)' <=> OrdenesDePeticion(q)
<1>1. \A c : UltimaActivacion(c)' = UltimaActivacion(c)
  BY DEF UltimaActivacion, ActivacionesDe
<1>2. \A c : (activacion[UltimaActivacion(c)].partida)' = activacion[UltimaActivacion(c)].partida
  BY <1>1
<1>3. \A o, c : DeUltima(o, c)' <=> DeUltima(o, c) BY <1>1, <1>2 DEF DeUltima, HayOrden
<1>4. \A c, accion : PorFirmar(c, accion)' <=> PorFirmar(c, accion) BY PorFirmarIgual
<1>5. \A c : Asentada(c)' <=> Asentada(c) BY <1>3, <1>4 DEF Asentada
<1>6. \A x, estatus : EnMano(x, estatus)' <=> EnMano(x, estatus) BY DEF EnMano, HayOrden
<1>7. \A q : OrdenesDePeticion(q)' <=> OrdenesDePeticion(q)
  <2> SUFFICES ASSUME NEW q PROVE OrdenesDePeticion(q)' <=> OrdenesDePeticion(q) OBVIOUS
  <2>1. (activacion[UltimaActivacion(q.campania)].partida)'
          = activacion[UltimaActivacion(q.campania)].partida
    BY <1>2
  <2> QED BY <1>1, <1>6, <2>1 DEF OrdenesDePeticion, HayOrden
<1> QED BY <1>5, <1>7

\* What a request finds ...
LEMMA OrdenAntes ==
  ASSUME TipoInv, EnSerie, EnOrden, NEW h \in Hilos, Atender(h)
  PROVE  /\ OrdenesDePeticion(peticion[h]) /\ OrdenesConPartida
         /\ \A c \in Campanias : Asentada(c) \/ (Reabierta(peticion[h]) /\ peticion[h].campania = c)
<1>1. SinAvisos /\ \A g \in Hilos : g # h => peticion[g] = SinPeticion BY SoloAtender
<1>2. \A g \in Hilos : Reabierta(peticion[g]) => g = h BY <1>1, OrdenesDeNadie
<1> QED BY <1>1, <1>2 DEF EnOrden, SinAvisos

\* ... and what it leaves once one of its queries was answered.
LEMMA OrdenDePeticion ==
  ASSUME TipoInv, EnSerie, EnOrden, NEW h \in Hilos, Atender(h), NEW r, peticion'[h] = r,
         OrdenesConPartida', OrdenesDePeticion(r)',
         \A c \in Campanias : Asentada(c)' \/ (Reabierta(r) /\ r.campania = c)
  PROVE  EnOrden'
<1>1. SinAvisos /\ UNCHANGED aviso /\ \A g \in Hilos : g # h => peticion'[g] = SinPeticion
  BY SoloAtender
<1>2. ASSUME NEW g \in Hilos PROVE OrdenesDePeticion(peticion[g])'
  <2>1. PICK q : q = peticion'[g] OBVIOUS
  <2>2. OrdenesDePeticion(q)' BY <1>1, <2>1, OrdenesDeNadie
  <2>3. UltimaActivacion(peticion[g].campania)' = UltimaActivacion(q.campania)'
    BY <2>1 DEF UltimaActivacion, ActivacionesDe
  <2> QED BY <2>1, <2>2, <2>3 DEF OrdenesDePeticion, ConPartidaNueva, EnMano, HayOrden
<1>3. ASSUME NEW c \in Campanias, ~Asentada(c)'
      PROVE  \E g \in Hilos : Reabierta(peticion'[g]) /\ peticion'[g].campania = c
  BY <1>3
<1>4. \A c \in Campanias : Asentada(c)' \/ \E g \in Hilos : (Reabierta(peticion[g])
                                                             /\ peticion[g].campania = c)'
  BY <1>3 DEF Reabierta
<1>5. \A e \in Avisos : AvisoAsentado(e)'
  <2>1. \A e \in Avisos : ~EnCurso(e)' BY <1>1 DEF SinAvisos, EnCurso
  <2> QED BY <2>1 DEF AvisoAsentado
<1> QED BY <1>2, <1>4, <1>5 DEF EnOrden

\* After a query that writes none of these rows.
LEMMA OrdenLectura ==
  ASSUME TipoInv, EnSerie, EnOrden, NEW h \in Hilos, Atender(h),
         UNCHANGED <<campania, activacion, orden, documento>>, UNCHANGED partida \/ OrdenesConPartida',
         NEW r, peticion'[h] = r, OrdenesDePeticion(r),
         Reabierta(peticion[h]) => Reabierta(r) /\ r.campania = peticion[h].campania
  PROVE  EnOrden'
<1>1. UNCHANGED aviso BY SoloAtender
<1>2. OrdenesDePeticion(r)' /\ \A c \in Campanias : Asentada(c)' \/ (Reabierta(r) /\ r.campania = c)
  BY <1>1, OrdenAntes, EnOrdenIgual
<1>3. OrdenesConPartida' BY OrdenAntes DEF OrdenesConPartida, HayOrden
<1> QED BY <1>2, <1>3, OrdenDePeticion


----
(* Requests: the queries that write none of these rows. *)

\* The campaign and the match of an activation that is being created are there.
LEMMA ObraSeria ==
  ASSUME TipoInv, EnSerie, EnVigor, NEW h \in Hilos, Atender(h),
         peticion[h].en \in {"numerar", "guardarActivacion"}
  PROVE  /\ peticion[h].op \in {"crear", "renovar"} /\ peticion[h].campania \in Campanias
         /\ Existe(peticion[h].campania) /\ HayPartida(peticion[h].partida)
         /\ PartidaNueva(peticion[h].partida)
<1> DEFINE q == peticion[h]
           c == q.campania
<1>1. PeticionSeria(q) /\ EnSuSitio(q, Len(activacion)) /\ q.partida \in 0..Len(partida) /\ Obra(q)
  BY SoloAtender, VigorAntes DEF PeticionBien
<1>2. q.op \in {"crear", "renovar"} /\ c \in Campanias
  BY <1>1 DEF EnSuSitio, CreaActivacion, PeticionSeria, DeBaja
<1>3. campania[c] \in {"CREADA", "REACTIVADA"}
  BY <1>1, <1>2 DEF PeticionSeria, CreacionSeria, RenovacionSeria
<1>4. Existe(c) BY <1>3 DEF Existe, CAMPAIGN_STATUS
<1>5. PartidaNueva(q.partida) BY <1>1, <1>2 DEF Obra, ConPartidaNueva
<1>6. DOMAIN partida = 1..Len(partida) /\ Len(partida) \in Nat BY Longitudes DEF TipoInv
<1>7. q.partida \in DOMAIN partida BY <1>1, <1>5, <1>6 DEF PartidaNueva
<1>8. HayPartida(q.partida) BY <1>7 DEF HayPartida, EnSerie
<1> QED BY <1>2, <1>4, <1>5, <1>8

LEMMA OrdenNumerar ==
  ASSUME TipoInv, EnSerie, EnVigor, EnOrden, NEW h \in Hilos, Numerar(h)
  PROVE  EnOrden'
<1> DEFINE q == peticion[h]
<1>0. Atender(h) BY DEF Atender
<1>1. q.en = "numerar" /\ UNCHANGED <<campania, activacion, orden, documento, partida>>
  BY DEF Numerar, filas
<1>2. DOMAIN q = Campos /\ DOMAIN peticion = Hilos /\ OrdenesDePeticion(q)
  BY <1>0, SoloAtender, OrdenAntes
<1>3. q.op \in {"crear", "renovar"} /\ Existe(q.campania) /\ HayPartida(q.partida)
  BY <1>0, <1>1, ObraSeria
<1>4. PICK v : peticion' = [peticion EXCEPT ![h].en = "guardarActivacion", ![h].leido = v]
  BY <1>3 DEF Numerar
<1>5. PICK r : r = peticion'[h] OBVIOUS
<1>6. r.op = q.op /\ r.en = "guardarActivacion" /\ r.campania = q.campania /\ r.partida = q.partida
  BY <1>2, <1>4, <1>5 DEF Campos
<1>7. OrdenesDePeticion(r)
  BY <1>1, <1>2, <1>3, <1>6 DEF OrdenesDePeticion, Devolviendo, ConPartidaNueva
<1>8. Reabierta(q) => Reabierta(r) BY <1>6 DEF Reabierta
<1> QED BY <1>0, <1>1, <1>5, <1>6, <1>7, <1>8, OrdenLectura

LEMMA OrdenLeerCampania ==
  ASSUME TipoInv, EnSerie, EnOrden, NEW h \in Hilos, LeerCampania(h)
  PROVE  EnOrden'
<1> DEFINE q == peticion[h]
           op == q.op
           c == q.campania
<1>0. Atender(h) BY DEF Atender
<1>1. q.en = "leer" /\ UNCHANGED <<campania, activacion, orden, documento, partida>>
      /\ op # "ordenar"
  BY DEF LeerCampania, filas
<1>2. EnSuSitio(q, Len(activacion)) /\ DOMAIN q = Campos /\ DOMAIN peticion = Hilos
  BY <1>0, SoloAtender
<1>3. ~Reabierta(q) BY <1>1 DEF Reabierta
<1>4. PICK r : r = peticion'[h] OBVIOUS
<1>5. OrdenesDePeticion(r)
  <2>1. CASE r = SinPeticion BY <2>1, OrdenesDeNadie
  <2>2. CASE r # SinPeticion
    <3>1. PICK f : peticion' = [peticion EXCEPT ![h].en = TrasLeerFila[op], ![h].fila = f]
      BY <1>2, <1>4, <2>2 DEF LeerCampania, Responder
    <3>2. /\ r.op = op /\ r.en = TrasLeerFila[op] /\ r.campania = c /\ r.accion = q.accion
      BY <1>2, <1>4, <3>1 DEF Campos
    <3>3. op \in {"actualizar", "quitar", "renovar", "cerrar", "firmar"}
      BY <1>1, <1>2 DEF EnSuSitio
    <3>4. op = "firmar" => campania[c] \in IF q.accion = "CANCEL" THEN {"APROBADA"} ELSE Editables
      BY <1>2, <1>4, <2>2 DEF LeerCampania, Responder, Admite
    <3>5. r.en \in {"borrar", "partida", "guardar", "ultima"} /\ (r.op = "firmar" => r.en = "ultima")
          /\ (r.op = "renovar" => r.en = "partida")
      BY <3>2, <3>3 DEF TrasLeerFila
    <3> QED BY <1>1, <3>2, <3>4, <3>5 DEF OrdenesDePeticion, Devolviendo, ConPartidaNueva
  <2> QED BY <2>1, <2>2
<1> QED BY <1>0, <1>1, <1>3, <1>4, <1>5, OrdenLectura

\* The match of an order is that of the last activation.
LEMMA OrdenLeerParaOrden ==
  ASSUME TipoInv, EnSerie, EnVigor, EnOrden, NEW h \in Hilos, LeerParaOrden(h)
  PROVE  EnOrden'
<1> DEFINE q == peticion[h]
           c == q.campania
           u == UltimaActivacion(c)
<1>0. Atender(h) BY DEF Atender
<1>1. q.en = "leer" /\ UNCHANGED <<campania, activacion, orden, documento, partida>>
      /\ q.op = "ordenar"
  BY DEF LeerParaOrden, filas
<1>2. EnSuSitio(q, Len(activacion)) /\ DOMAIN q = Campos /\ DOMAIN peticion = Hilos
      /\ OrdenesDePeticion(q)
  BY <1>0, SoloAtender, OrdenAntes
<1>3. c \in Campanias /\ campania[c] \in Editables
  BY <1>1, <1>2 DEF EnSuSitio, DeBaja, OrdenesDePeticion
<1>4. Existe(c) /\ campania[c] # "INACTIVA" BY <1>3 DEF Existe, Editables, CAMPAIGN_STATUS
<1>5. ~EnObra(q) /\ ~Reabierta(q)
  BY <1>1 DEF EnObra, Creando, Renovando, Cerrando, Reabierta
<1>6. Vigente(c) BY <1>0, <1>3, <1>4, <1>5, VigorAntes
<1>7. u # 0 /\ {a \in ActivacionesDe(c) : activacion[a].status} = {u}
  BY <1>4, <1>6 DEF Vigente, Activas
<1> HIDE DEF u
<1>8. peticion' = [peticion EXCEPT ![h].en = "fondos", ![h].partida = activacion[u].partida]
  BY <1>4, <1>7 DEF LeerParaOrden
<1>9. PICK r : r = peticion'[h] OBVIOUS
<1>10. r.op = "ordenar" /\ r.en = "fondos" /\ r.campania = c /\ r.partida = activacion[u].partida
  BY <1>1, <1>2, <1>8, <1>9 DEF Campos
<1>11. OrdenesDePeticion(r)
  BY <1>3, <1>7, <1>10 DEF OrdenesDePeticion, Devolviendo, ConPartidaNueva, u
<1> QED BY <1>0, <1>1, <1>5, <1>9, <1>11, OrdenLectura

\* The orders of a campaign that is closed: the ones that wait.
LEMMA OrdenBuscarPendientes ==
  ASSUME TipoInv, EnSerie, EnOrden, NEW h \in Hilos, BuscarPendientes(h)
  PROVE  EnOrden'
<1> DEFINE q == peticion[h]
           S == {o \in OrdenesDe(q.campania, q.partida) : orden[o].estatus = "PENDIENTE"}
           os == {<<o, orden[o].cargos>> : o \in S}
<1>0. Atender(h) BY DEF Atender
<1>1. q.en = "buscar" /\ UNCHANGED <<campania, activacion, orden, documento, partida>>
      /\ peticion' = [peticion EXCEPT ![h].en = "maestro", ![h].ordenes = os]
  BY DEF BuscarPendientes, filas
<1>2. EnSuSitio(q, Len(activacion)) /\ DOMAIN q = Campos /\ DOMAIN peticion = Hilos
  BY <1>0, SoloAtender
<1>3. ASSUME NEW x \in os PROVE EnMano(x, "PENDIENTE")
  <2>1. PICK o \in S : x = <<o, orden[o].cargos>> OBVIOUS
  <2>2. HayOrden(o) /\ orden[o].estatus = "PENDIENTE" BY DEF OrdenesDe
  <2>3. x[1] = o BY <2>1
  <2> QED BY <2>1, <2>2, <2>3 DEF EnMano
<1> HIDE DEF os
<1>4. PICK r : r = peticion'[h] OBVIOUS
<1>5. r.op = q.op /\ r.en = "maestro" /\ r.ordenes = os BY <1>1, <1>2, <1>4 DEF Campos
<1>6. r.op \in {"cerrar", "desactivar"} /\ ~Reabierta(q)
  BY <1>1, <1>2, <1>5 DEF EnSuSitio, DeBaja, Reabierta
<1>7. OrdenesDePeticion(r)
  BY <1>3, <1>5, <1>6 DEF OrdenesDePeticion, Devolviendo, ConPartidaNueva
<1> QED BY <1>0, <1>1, <1>4, <1>6, <1>7, OrdenLectura

\* One of them is taken: it is not among the rest.
LEMMA OrdenLeerMaestro ==
  ASSUME TipoInv, EnSerie, EnOrden, NEW h \in Hilos, LeerMaestroDeOrden(h)
  PROVE  EnOrden'
<1> DEFINE q == peticion[h]
<1>0. Atender(h) BY DEF Atender
<1>1. q.en = "maestro" /\ UNCHANGED <<campania, activacion, orden, documento, partida>>
  BY DEF LeerMaestroDeOrden, filas
<1>2. EnSuSitio(q, Len(activacion)) /\ DOMAIN q = Campos /\ DOMAIN peticion = Hilos
      /\ \A x \in q.ordenes : EnMano(x, "PENDIENTE")
  <2>1. OrdenesDePeticion(q) BY <1>0, OrdenAntes
  <2> QED BY <1>0, <1>1, <2>1, SoloAtender DEF OrdenesDePeticion
<1>3. PICK r : r = peticion'[h] OBVIOUS
<1>4. q.op \in {"cerrar", "desactivar"} /\ ~Reabierta(q)
  BY <1>1, <1>2 DEF EnSuSitio, DeBaja, Reabierta
<1>5. OrdenesDePeticion(r)
  <2>1. CASE Responder(h)
    <3>1. r = SinPeticion BY <1>2, <1>3, <2>1 DEF Responder
    <3> QED BY <3>1, OrdenesDeNadie
  <2>2. CASE ~Responder(h)
    <3>1. PICK x \in q.ordenes :
             peticion' = [peticion EXCEPT ![h].en = Devolver(CargosDevueltos(x[2])),
                     ![h].ordenes = @ \ {x}, ![h].orden = x[1],
                     ![h].cargos = CargosDevueltos(x[2]),
                     ![h].leido = fondo[Maestro]["committedAmount"]]
      BY <2>2 DEF LeerMaestroDeOrden
    <3>2. /\ r.op = q.op /\ r.en = Devolver(CargosDevueltos(x[2])) /\ r.orden = x[1]
          /\ r.ordenes = q.ordenes \ {x}
      BY <1>2, <1>3, <3>1 DEF Campos
    <3>3. r.en \in Devolviendo BY <3>2 DEF Devolver, Devolviendo
    <3>4. HayOrden(x[1]) /\ orden[x[1]].estatus = "PENDIENTE" /\ x = <<x[1], orden[x[1]].cargos>>
      BY <1>2 DEF EnMano
    <3>5. ASSUME NEW y \in r.ordenes PROVE EnMano(y, "PENDIENTE") /\ y[1] # x[1]
      <4>1. EnMano(y, "PENDIENTE") /\ y # x BY <1>2, <3>2
      <4>2. y = <<y[1], orden[y[1]].cargos>> BY <4>1 DEF EnMano
      <4> QED BY <3>4, <4>1, <4>2
    <3> QED BY <1>4, <3>2, <3>3, <3>4, <3>5 DEF OrdenesDePeticion, ConPartidaNueva, Devolviendo
  <2> QED BY <2>1, <2>2
<1> QED BY <1>0, <1>1, <1>3, <1>4, <1>5, OrdenLectura

\* The others, that only go on.
LEMMA OrdenOtras ==
  ASSUME TipoInv, EnSerie, EnOrden, NEW h \in Hilos,
         \/ LeerPorLimpiar(h) \/ LeerUltima(h) \/ LeerActivacion(h) \/ LeerModificatorioDeOrden(h)
         \/ DevolverCargo(h) \/ LeerFondos(h) \/ EscribirReserva(h)
  PROVE  EnOrden'
<1> DEFINE q == peticion[h]
<1>0. Atender(h) BY DEF Atender
<1>1. EnSuSitio(q, Len(activacion)) /\ DOMAIN q = Campos /\ DOMAIN peticion = Hilos
      /\ OrdenesDePeticion(q)
  BY <1>0, SoloAtender, OrdenAntes
<1>2. PICK r : r = peticion'[h] OBVIOUS
<1>3. UNCHANGED <<campania, activacion, orden, documento, partida>>
  BY DEF LeerPorLimpiar, LeerUltima, LeerActivacion, LeerModificatorioDeOrden, DevolverCargo,
         LeerFondos, EscribirReserva, filas
<1>4. q.en \in {"limpiar", "ultima", "desactivar", "modificatorio", "devolver", "fondos",
                "comprometer"}
  BY DEF LeerPorLimpiar, LeerUltima, LeerActivacion, LeerModificatorioDeOrden, DevolverCargo,
         LeerFondos, EscribirReserva
<1>5. OrdenesDePeticion(r)
  <2>1. CASE r = SinPeticion BY <2>1, OrdenesDeNadie
  <2>2. CASE r # SinPeticion /\ (LeerPorLimpiar(h) \/ LeerActivacion(h))
    <3>1. r.op = q.op /\ r.en \in {"borrar", "baja"}
      BY <1>1, <1>2, <2>2 DEF LeerPorLimpiar, LeerActivacion, Responder, Campos
    <3>2. r.op \in {"crear", "cerrar", "desactivar"}
      BY <1>1, <2>2, <3>1 DEF LeerPorLimpiar, LeerActivacion, EnSuSitio, DeBaja
    <3> QED BY <3>1, <3>2 DEF OrdenesDePeticion, Devolviendo, ConPartidaNueva
  <2>3. CASE r # SinPeticion /\ LeerUltima(h)
    <3>1. r.op = q.op /\ r.en = "documento" /\ r.campania = q.campania /\ r.accion = q.accion
          /\ q.en = "ultima"
      BY <1>1, <1>2, <2>3 DEF LeerUltima, Responder, Campos
    <3>2. r.op = "firmar" BY <1>1, <3>1 DEF EnSuSitio
    <3> QED BY <1>1, <3>1, <3>2 DEF OrdenesDePeticion, Devolviendo, ConPartidaNueva
  <2>4. CASE r # SinPeticion /\ (LeerFondos(h) \/ EscribirReserva(h))
    <3>1. /\ r.op = q.op /\ r.en \in {"comprometer", "guardarOrden"} /\ r.campania = q.campania
          /\ r.partida = q.partida /\ q.en \in {"fondos", "comprometer"}
      BY <1>1, <1>2, <2>4 DEF LeerFondos, EscribirReserva, Responder, Campos
    <3>2. r.op = "ordenar" BY <1>1, <3>1 DEF EnSuSitio
    <3> QED BY <1>1, <3>1, <3>2 DEF OrdenesDePeticion, Devolviendo, ConPartidaNueva
  <2>5. CASE LeerModificatorioDeOrden(h) \/ DevolverCargo(h)
    <3>1. /\ r.op = q.op /\ r.en \in Devolviendo /\ r.orden = q.orden /\ r.ordenes = q.ordenes
          /\ q.en \in {"modificatorio", "devolver"}
      <4>1. CASE LeerModificatorioDeOrden(h)
        BY <1>1, <1>2, <4>1 DEF LeerModificatorioDeOrden, Campos, Devolviendo
      <4>2. CASE DevolverCargo(h)
        BY <1>1, <1>2, <4>2 DEF DevolverCargo, Devolver, Campos, Devolviendo
      <4> QED BY <2>5, <4>1, <4>2
    <3>2. r.op \in {"cerrar", "desactivar"} BY <1>1, <3>1 DEF EnSuSitio, DeBaja
    <3> QED BY <1>1, <3>1, <3>2 DEF OrdenesDePeticion, Devolviendo, ConPartidaNueva
  <2> QED BY <2>1, <2>2, <2>3, <2>4, <2>5
<1>6. ~Reabierta(q) BY <1>4 DEF Reabierta
<1> QED BY <1>0, <1>2, <1>3, <1>5, <1>6, OrdenLectura


----
(* Requests: the queries that write them. *)

\* A row in the orders has the match that it was inserted with.
LEMMA PartidaDeOrden ==
  ASSUME TipoInv, NEW o \in Ordenes, HayOrden(o)
  PROVE  /\ orden[o] \in Orden /\ orden[o].partida \in Nat /\ orden[o].campania \in Campanias
         /\ orden[o].cargos \in Seq(Cargo) /\ orden[o].cargos # <<>>
<1>1. orden[o] \in Orden /\ orden[o].cargos # <<>> BY DEF TipoInv, OrdenesBien, HayOrden
<1> QED BY <1>1, CampaniasAssumption DEF Orden, IdsActivacion

\* Only the status of a campaign changes, with nothing to be signed in it.
LEMMA OrdenGuardarNueva ==
  ASSUME TipoInv, EnSerie, EnVigor, EnOrden, NEW h \in Hilos, GuardarNueva(h)
  PROVE  EnOrden'
<1> DEFINE q == peticion[h]
<1>0. Atender(h) BY DEF Atender
<1>1. q.en = "guardarNueva" /\ UNCHANGED <<activacion, partida, orden, documento>>
      /\ campania' = [campania EXCEPT ![q.campania] = "CREADA"]
      /\ peticion' = [peticion EXCEPT ![h].en = "partida"]
  BY DEF GuardarNueva, Seguir
<1>2. PeticionSeria(q) /\ EnSuSitio(q, Len(activacion)) /\ DOMAIN q = Campos /\ DOMAIN peticion = Hilos
      /\ UNCHANGED aviso
  BY <1>0, SoloAtender
<1>c. PICK c \in Campanias : c = q.campania BY <1>1, <1>2 DEF EnSuSitio, DeBaja
<1>3. q.op = "crear" /\ campania[c] = "NO_EXISTE"
  BY <1>c, <1>1, <1>2 DEF EnSuSitio, PeticionSeria, CreacionSeria
<1>4. \A x \in Campanias : x # c => campania'[x] = campania[x]
  BY <1>c, <1>1 DEF TipoInv, CampaniasBien
<1>5. UltimaActivacion(c)' = 0
  <2>1. ActivacionesDe(c) = {}
    <3>1. ~Existe(c) BY <1>3 DEF Existe, CAMPAIGN_STATUS
    <3> QED BY <3>1 DEF EnVigor, SinRestos
  <2>2. UltimaActivacion(c) = 0 BY <2>1, UltimaEs DEF TipoInv
  <2> QED BY <1>1, <2>2 DEF UltimaActivacion, ActivacionesDe
<1>6. Asentada(c)'
  <2>1. \A o \in Ordenes : ~DeUltima(o, c)' BY <1>5 DEF DeUltima
  <2> QED BY <2>1, AsentadaSinOrdenes
<1>7. ASSUME NEW x \in Campanias, x # c PROVE Asentada(x)'
  <2>1. Asentada(x) BY <1>0, <1>1, <1>3, OrdenAntes DEF Reabierta
  <2> QED BY <1>1, <1>2, <1>4, <1>7, <2>1, AsentadaSigue, ConMismasPartidas, PorFirmarIgual
<1>8. PICK r : r = peticion'[h] OBVIOUS
<1>9. r.op = "crear" /\ r.en = "partida" BY <1>1, <1>2, <1>3, <1>8 DEF Campos
<1>10. OrdenesDePeticion(r)' BY <1>9 DEF OrdenesDePeticion, Devolviendo, ConPartidaNueva
<1>11. OrdenesConPartida' BY <1>0, <1>1, OrdenAntes DEF OrdenesConPartida, HayOrden
<1> QED BY <1>0, <1>6, <1>7, <1>8, <1>10, <1>11, OrdenDePeticion

\* The match that is inserted is of no order.
LEMMA OrdenGuardarPartida ==
  ASSUME TipoInv, EnSerie, EnOrden, NEW h \in Hilos, GuardarPartida(h)
  PROVE  EnOrden'
<1> DEFINE q == peticion[h]
           n == Len(partida) + 1
<1>0. Atender(h) BY DEF Atender
<1>1. q.en = "partida" /\ UNCHANGED <<campania, activacion, orden, documento>>
      /\ partida' = Append(partida, NuevaPartida)
      /\ \E en \in {"activaciones", "numerar"} :
           peticion' = [peticion EXCEPT ![h].partida = Len(partida'), ![h].en = en]
  BY DEF GuardarPartida
<1>2. EnSuSitio(q, Len(activacion)) /\ DOMAIN q = Campos /\ DOMAIN peticion = Hilos
      /\ OrdenesConPartida
  BY <1>0, SoloAtender, OrdenAntes
<1>3. Len(partida) \in Nat /\ Len(partida') = n
  <2>1. partida \in Seq(Partida) /\ NuevaPartida \in Partida
    BY DEF TipoInv, PartidasBien, NuevaPartida, Partida, Cero, Montos
  <2> QED BY <1>1, <2>1, AppendProperties
<1>4. \A o \in Ordenes : HayOrden(o) => orden[o].partida <= Len(partida) /\ orden[o].partida \in Nat
  BY <1>2, PartidaDeOrden DEF OrdenesConPartida
<1>5. \A o \in Ordenes : HayOrden(o) => orden[o].partida # n /\ orden[o].partida <= n
  BY <1>3, <1>4
<1> HIDE DEF n
<1>6. PICK r : r = peticion'[h] OBVIOUS
<1>7. r.op = q.op /\ r.en \in {"activaciones", "numerar"} /\ r.partida = n
  BY <1>1, <1>2, <1>3, <1>6 DEF Campos
<1>8. r.op \in CreaActivacion BY <1>1, <1>2, <1>7 DEF EnSuSitio
<1>9. OrdenesDePeticion(r)
  BY <1>5, <1>7, <1>8 DEF OrdenesDePeticion, Devolviendo, CreaActivacion
<1>10. OrdenesConPartida' BY <1>1, <1>3, <1>5 DEF OrdenesConPartida, HayOrden
<1>11. ~Reabierta(q) BY <1>1 DEF Reabierta
<1> QED BY <1>0, <1>1, <1>6, <1>9, <1>10, <1>11, OrdenLectura

\* The rows keep their campaign and their match, but not whether they are active.
LEMMA OrdenApagar ==
  ASSUME TipoInv, EnSerie, EnOrden, NEW h \in Hilos, ApagarActivaciones(h) \/ BajaActivacion(h)
  PROVE  EnOrden'
<1> DEFINE q == peticion[h]
<1>0. Atender(h) BY DEF Atender
<1>1. UNCHANGED <<campania, partida, orden, documento>> /\ q.en \in {"activaciones", "baja"}
  BY DEF ApagarActivaciones, BajaActivacion
<1>2. EnSuSitio(q, Len(activacion)) /\ DOMAIN q = Campos /\ DOMAIN peticion = Hilos
      /\ OrdenesConPartida /\ OrdenesDePeticion(q) /\ PeticionSeria(q) /\ UNCHANGED aviso
  BY <1>0, SoloAtender, OrdenAntes
<1>3. PICK r : r = peticion'[h] OBVIOUS
<1>4. \/ r.op = "renovar" /\ r.en = "guardar" /\ r.partida = q.partida /\ q.op = "renovar"
         /\ q.en = "activaciones"
      \/ r.op = "cerrar" /\ r.en = "bajaPartida"
  <2>1. CASE ApagarActivaciones(h)
    <3>1. q.en = "activaciones" /\ \E f : peticion' = [peticion EXCEPT ![h].en = "guardar", ![h].fila = f]
      BY <2>1 DEF ApagarActivaciones
    <3> QED BY <1>2, <1>3, <3>1 DEF Campos, EnSuSitio
  <2>2. CASE BajaActivacion(h)
    <3>1. q.en = "baja" /\ peticion' = [peticion EXCEPT ![h].en = "bajaPartida"]
      BY <2>2 DEF BajaActivacion, Seguir
    <3> QED BY <1>2, <1>3, <3>1 DEF Campos, EnSuSitio, DeBaja, PeticionSeria
  <2> QED BY <2>1, <2>2
<1>5. DOMAIN activacion' = DOMAIN activacion
      /\ \A a \in DOMAIN activacion : /\ activacion'[a].campania = activacion[a].campania
                                      /\ activacion'[a].partida = activacion[a].partida
  <2>1. CASE ApagarActivaciones(h)
    <3> DEFINE act == q.fila.activaciones
               apagadas == [a \in DOMAIN act |-> [act[a] EXCEPT !.status = FALSE]]
    <3>1. q.en = "activaciones" /\ activacion' = [a \in DOMAIN activacion |->
             IF a \in DOMAIN apagadas THEN apagadas[a] ELSE activacion[a]]
      <4> DEFINE apagada == [q.fila EXCEPT !.status = "REACTIVADA",
                    !.activaciones = [a \in DOMAIN @ |-> [@[a] EXCEPT !.status = FALSE]]]
      <4>1. DOMAIN q.fila = CamposDeFila BY <1>0, SoloAtender DEF PeticionBien, FilaBien
      <4>2. apagada.activaciones = apagadas BY <4>1 DEF CamposDeFila
      <4>3. q.en = "activaciones" /\ activacion' = ConActivaciones(apagada)
        BY <2>1 DEF ApagarActivaciones
      <4> HIDE DEF apagada, apagadas
      <4> QED BY <4>2, <4>3 DEF ConActivaciones
    <3>2. act = Renglones(q.campania) /\ q.campania \in Campanias
      BY <1>2, <3>1 DEF EnSuSitio, DeBaja, PeticionSeria, RenovacionSeria
    <3>3. ASSUME NEW a \in DOMAIN act
          PROVE  a \in DOMAIN activacion /\ apagadas[a].campania = activacion[a].campania
                 /\ apagadas[a].partida = activacion[a].partida
      <4>1. a \in ActivacionesDe(q.campania) /\ act[a] = activacion[a]
        BY <3>2, <3>3 DEF Renglones
      <4>2. a \in DOMAIN activacion /\ activacion[a] \in Activacion
        BY <3>2, <4>1, RenglonDe
      <4>3. apagadas[a] = [activacion[a] EXCEPT !.status = FALSE] BY <3>3, <4>1
      <4> HIDE DEF apagadas
      <4> QED BY <4>2, <4>3 DEF Activacion
    <3>4. DOMAIN apagadas = DOMAIN act OBVIOUS
    <3> HIDE DEF apagadas
    <3> QED BY <3>1, <3>3, <3>4
  <2>2. CASE BajaActivacion(h)
    <3>1. activacion \in Seq(Activacion) BY DEF TipoInv, ActivacionesBien
    <3>2. UNCHANGED activacion
          \/ \E a \in DOMAIN activacion : activacion' = [activacion EXCEPT ![a].status = FALSE]
      BY <2>2 DEF BajaActivacion, HayActivacion
    <3>3. ASSUME NEW a \in DOMAIN activacion, activacion' = [activacion EXCEPT ![a].status = FALSE]
          PROVE  DOMAIN activacion' = DOMAIN activacion
                 /\ \A b \in DOMAIN activacion : /\ activacion'[b].campania = activacion[b].campania
                                                 /\ activacion'[b].partida = activacion[b].partida
      <4>1. activacion[a] \in Activacion BY <3>1
      <4> DEFINE s == [activacion[a] EXCEPT !.status = FALSE]
      <4>2. s.campania = activacion[a].campania /\ s.partida = activacion[a].partida
        BY <4>1 DEF Activacion
      <4>3. activacion' = [activacion EXCEPT ![a] = s] BY <3>3
      <4> HIDE DEF s
      <4> QED BY <4>2, <4>3
    <3> QED BY <3>2, <3>3
  <2> QED BY <2>1, <2>2
<1>6. \A x : MismasPartidas(x)
  <2>1. \A x : ActivacionesDe(x)' = ActivacionesDe(x) BY <1>5 DEF ActivacionesDe
  <2> QED BY <1>5, <2>1 DEF MismasPartidas, ActivacionesDe
<1>7. ~Reabierta(q) BY <1>1 DEF Reabierta
<1>8. ASSUME NEW x \in Campanias PROVE Asentada(x)'
  <2>1. Asentada(x) BY <1>0, <1>7, OrdenAntes
  <2> QED BY <1>1, <1>2, <1>6, <2>1, AsentadaSigue, PorFirmarIgual
<1>9. OrdenesDePeticion(r)'
  BY <1>1, <1>2, <1>4 DEF OrdenesDePeticion, Devolviendo, ConPartidaNueva, HayOrden
<1>10. OrdenesConPartida' BY <1>1, <1>2 DEF OrdenesConPartida, HayOrden
<1> QED BY <1>0, <1>3, <1>8, <1>9, <1>10, OrdenDePeticion

\* The new last activation has no orders yet.
LEMMA OrdenGuardarActivacion ==
  ASSUME TipoInv, EnSerie, EnVigor, EnOrden, NEW h \in Hilos, GuardarActivacion(h)
  PROVE  EnOrden'
<1> DEFINE q == peticion[h]
           p == q.partida
           n == Len(activacion) + 1
<1>0. Atender(h) BY DEF Atender
<1>1. q.en = "guardarActivacion" /\ UNCHANGED <<campania, partida, orden, documento>>
  BY DEF GuardarActivacion
<1>2. DOMAIN peticion = Hilos /\ OrdenesConPartida /\ OrdenesDePeticion(q) /\ UNCHANGED aviso
  BY <1>0, SoloAtender, OrdenAntes
<1>3. /\ q.op \in {"crear", "renovar"} /\ q.campania \in Campanias
      /\ Existe(q.campania) /\ HayPartida(p)
  BY <1>0, <1>1, ObraSeria
<1>c. PICK c \in Campanias : c = q.campania BY <1>3
<1>4. PICK una : activacion' = Append(activacion, una) /\ una.campania = c /\ una.partida = p
  <2> DEFINE una == [campania |-> c, numero |-> q.leido + 1, partida |-> p, status |-> TRUE,
                     aprobada |-> FALSE]
  <2>1. activacion' = Append(activacion, una) BY <1>c, <1>3 DEF GuardarActivacion
  <2>2. una.campania = c /\ una.partida = p OBVIOUS
  <2> HIDE DEF una
  <2> QED BY <2>1, <2>2
<1>5. peticion' = [peticion EXCEPT ![h] = SinPeticion]
  BY <1>3 DEF GuardarActivacion, Responder
<1>6. Len(activacion) \in Nat /\ DOMAIN activacion = 1..Len(activacion)
  BY Longitudes DEF TipoInv
<1>7. /\ DOMAIN activacion' = DOMAIN activacion \cup {n} /\ n \notin DOMAIN activacion
      /\ activacion'[n] = una
      /\ \A a \in DOMAIN activacion : activacion'[a] = activacion[a]
  BY <1>4, AgregadaEs
<1>8. /\ n \in Int /\ n # 0 /\ 0 <= n /\ n <= n
      /\ \A a \in DOMAIN activacion : a \in Int /\ a <= n
  BY <1>6
<1> HIDE DEF n
<1> DEFINE S == ActivacionesDe(c)
           T == S \cup {n} \cup {0}
<1>9. ActivacionesDe(c)' = S \cup {n} /\ \A a \in S : a \in DOMAIN activacion
  BY <1>4, <1>7 DEF ActivacionesDe
<1>10. UltimaActivacion(c)' = n
  <2>1. (\A x \in T : x \in Int /\ x <= n) /\ n \in T
    <3>1. \A x \in S : x \in Int /\ x <= n BY <1>8, <1>9
    <3> HIDE DEF S
    <3> QED BY <1>8, <3>1
  <2>2. UltimaActivacion(c)' = Max(T) BY <1>9 DEF UltimaActivacion
  <2> HIDE DEF T
  <2> QED BY <2>1, <2>2, MayorEs
<1> HIDE DEF S
<1>11. \A o \in Ordenes : HayOrden(o) => orden[o].partida # p
  BY <1>1, <1>2, <1>3 DEF OrdenesDePeticion, ConPartidaNueva
<1>12. Asentada(c)'
  <2>1. (activacion[UltimaActivacion(c)].partida)' = p BY <1>4, <1>7, <1>10
  <2>2. \A o \in Ordenes : ~DeUltima(o, c)' BY <1>1, <1>11, <2>1 DEF DeUltima, HayOrden
  <2> QED BY <2>2, AsentadaSinOrdenes
<1>13. ASSUME NEW x \in Campanias, x # c PROVE Asentada(x)'
  <2>1. MismasPartidas(x) BY <1>4, <1>7, <1>13 DEF MismasPartidas, ActivacionesDe
  <2>2. Asentada(x) BY <1>0, <1>c, <1>13, OrdenAntes
  <2> QED BY <1>1, <1>2, <2>1, <2>2, AsentadaSigue, PorFirmarIgual
<1>14. PICK r : r = peticion'[h] OBVIOUS
<1>15. OrdenesDePeticion(r)' BY <1>2, <1>5, <1>14, OrdenesDeNadie
<1>16. OrdenesConPartida' BY <1>1, <1>2 DEF OrdenesConPartida, HayOrden
<1> QED BY <1>0, <1>12, <1>13, <1>14, <1>15, <1>16, OrdenDePeticion


\* A campaign with orders is not removed.
LEMMA OrdenBorrarCampania ==
  ASSUME TipoInv, EnSerie, EnOrden, NEW h \in Hilos, BorrarCampania(h)
  PROVE  EnOrden'
<1> DEFINE q == peticion[h]
<1>0. Atender(h) BY DEF Atender
<1>1. q.en = "borrar" /\ UNCHANGED <<partida, orden, documento>>
      /\ peticion' = [peticion EXCEPT ![h] = SinPeticion]
  BY DEF BorrarCampania, Responder
<1>2. EnSuSitio(q, Len(activacion)) /\ DOMAIN peticion = Hilos /\ OrdenesConPartida
      /\ UNCHANGED aviso
  BY <1>0, SoloAtender, OrdenAntes
<1>c. PICK c \in Campanias : c = q.campania BY <1>1, <1>2 DEF EnSuSitio, DeBaja
<1>3. ~Reabierta(q) BY <1>1 DEF Reabierta
<1>4. PICK r : r = peticion'[h] OBVIOUS
<1>5. r = SinPeticion BY <1>1, <1>2, <1>4
<1>6. CASE UNCHANGED <<campania, activacion>>
  BY <1>0, <1>1, <1>3, <1>4, <1>5, <1>6, OrdenLectura, OrdenesDeNadie
<1>7. CASE /\ ~\E o \in Ordenes : HayOrden(o) /\ orden[o].campania = c
           /\ campania' = [campania EXCEPT ![c] = "BORRADA"]
           /\ activacion' = [a \in DOMAIN activacion |->
                     IF activacion[a].campania = c THEN SinActivacion ELSE activacion[a]]
  <2>1. \A x \in Campanias : x # c => campania'[x] = campania[x]
    BY <1>7 DEF TipoInv, CampaniasBien
  <2>2. SinActivacion.campania = "-" /\ \A x \in Campanias : x # "-"
    BY CampaniasAssumption DEF SinActivacion
  <2>3. DOMAIN activacion' = DOMAIN activacion
        /\ \A a \in DOMAIN activacion :
             \/ activacion[a].campania = c /\ activacion'[a].campania = "-"
             \/ activacion[a].campania # c /\ activacion'[a] = activacion[a]
    BY <1>7, <2>2
  <2>4. Asentada(c)'
    <3>1. \A o \in Ordenes : ~DeUltima(o, c)' BY <1>1, <1>7 DEF DeUltima, HayOrden
    <3> QED BY <3>1, AsentadaSinOrdenes
  <2>5. ASSUME NEW x \in Campanias, x # c PROVE Asentada(x)'
    <3>1. MismasPartidas(x) BY <2>2, <2>3, <2>5 DEF MismasPartidas, ActivacionesDe
    <3>2. Asentada(x) BY <1>0, <1>3, OrdenAntes
    <3> QED BY <1>1, <1>2, <2>1, <2>5, <3>1, <3>2, AsentadaSigue, PorFirmarIgual
  <2>6. OrdenesDePeticion(r)' BY <1>5, OrdenesDeNadie
  <2>7. OrdenesConPartida' BY <1>1, <1>2 DEF OrdenesConPartida, HayOrden
  <2> QED BY <1>0, <1>4, <2>4, <2>5, <2>6, <2>7, OrdenDePeticion
<1> QED BY <1>c, <1>6, <1>7 DEF BorrarCampania

\* The document asks for what the campaign allows.
LEMMA OrdenGuardarDocumento ==
  ASSUME TipoInv, FirmaInv, EnSerie, EnOrden, NEW h \in Hilos, GuardarDocumento(h)
  PROVE  EnOrden'
<1> DEFINE q == peticion[h]
<1>0. Atender(h) BY DEF Atender
<1>c. PICK c : c = q.campania OBVIOUS
<1>1. q.en = "documento" /\ UNCHANGED <<campania, activacion, partida, orden>>
      /\ peticion' = [peticion EXCEPT ![h].en = "guardar"]
  BY DEF GuardarDocumento, Seguir
<1>2. EnSuSitio(q, Len(activacion)) /\ DOMAIN q = Campos /\ DOMAIN peticion = Hilos
      /\ OrdenesConPartida /\ OrdenesDePeticion(q) /\ UNCHANGED aviso
  BY <1>0, SoloAtender, OrdenAntes
<1>3. /\ q.op = "firmar" /\ q.doc \in Envios
      /\ \A d \in Envios : d # q.doc => documento'[d] = documento[d]
      /\ documento'[q.doc].campania = c /\ documento'[q.doc].accion = q.accion
  BY <1>c, GuardarDocumentoEs
<1>4. c \in Campanias /\ q.accion \in Acciones
      /\ campania[c] \in IF q.accion = "CANCEL" THEN {"APROBADA"} ELSE Editables
  BY <1>c, <1>1, <1>2, <1>3 DEF EnSuSitio, DeBaja, OrdenesDePeticion
<1>5. \A x, accion : PorFirmar(x, accion)' =>
        PorFirmar(x, accion) \/ (x = c /\ accion = q.accion)
  BY <1>2, <1>3 DEF PorFirmar, Notificado
<1>6. ~Reabierta(q) BY <1>1 DEF Reabierta
<1>7. ASSUME NEW x \in Campanias PROVE Asentada(x)'
  <2>1. Asentada(x) /\ MismasPartidas(x)
    BY <1>0, <1>1, <1>6, OrdenAntes, ConMismasPartidas
  <2>2. CASE x # c BY <1>1, <1>5, <2>1, <2>2, AsentadaSigue
  <2>3. CASE x = c
    <3> SUFFICES ASSUME NEW o \in Ordenes, DeUltima(o, c)'
                 PROVE  /\ campania[c] \in Editables \/ PorFirmar(c, "APPROVE")' =>
                             orden[o].estatus = "PENDIENTE"
                        /\ campania[c] = "APROBADA" \/ PorFirmar(c, "CANCEL")' =>
                             orden[o].estatus = "ACTIVA"
      BY <1>1, <2>3 DEF Asentada
    <3>1. DeUltima(o, c) BY <1>1, <2>1, <2>3, DeUltimaIgual DEF HayOrden
    <3>2. /\ campania[c] \in Editables \/ PorFirmar(c, "APPROVE") => orden[o].estatus = "PENDIENTE"
          /\ campania[c] = "APROBADA" \/ PorFirmar(c, "CANCEL") => orden[o].estatus = "ACTIVA"
      BY <2>1, <2>3, <3>1 DEF Asentada
    <3>3. PorFirmar(c, "APPROVE")' => PorFirmar(c, "APPROVE") \/ campania[c] \in Editables
      BY <1>4, <1>5
    <3>4. PorFirmar(c, "CANCEL")' => PorFirmar(c, "CANCEL") \/ campania[c] = "APROBADA"
      BY <1>4, <1>5
    <3> QED BY <3>2, <3>3, <3>4
  <2> QED BY <2>2, <2>3
<1>8. PICK r : r = peticion'[h] OBVIOUS
<1>9. /\ r.op = "firmar" /\ r.en = "guardar" /\ r.campania = c /\ r.accion = q.accion
      /\ r.doc = q.doc
  BY <1>c, <1>1, <1>2, <1>3, <1>8 DEF Campos
<1>10. OrdenesDePeticion(r)'
  BY <1>1, <1>3, <1>4, <1>9 DEF OrdenesDePeticion, Devolviendo, ConPartidaNueva
<1>11. OrdenesConPartida' BY <1>1, <1>2 DEF OrdenesConPartida, HayOrden
<1> QED BY <1>0, <1>7, <1>8, <1>10, <1>11, OrdenDePeticion

\* A campaign that is saved: sent to be signed as its orders are, closed with
\* nothing to be signed, or renewed.
LEMMA OrdenGuardarCampania ==
  ASSUME TipoInv, EnSerie, EnOrden, NEW h \in Hilos, GuardarCampania(h)
  PROVE  EnOrden'
<1> DEFINE q == peticion[h]
<1>0. Atender(h) BY DEF Atender
<1>c. PICK c : c = q.campania OBVIOUS
<1>1. /\ c \in Campanias /\ UNCHANGED <<activacion, partida>> /\ q.en \in {"guardar", "otraVez"}
      /\ \A x \in Campanias : x # c => campania'[x] = campania[x]
      /\ UNCHANGED <<orden, documento>>
  <2>1. UNCHANGED <<orden, documento>> BY DEF GuardarCampania
  <2> QED BY <1>c, <2>1, GuardarCampaniaEs
<1>2. EnSuSitio(q, Len(activacion)) /\ DOMAIN q = Campos /\ PeticionSeria(q)
      /\ OrdenesConPartida /\ OrdenesDePeticion(q) /\ UNCHANGED aviso
      /\ \A g \in Hilos : g # h => peticion[g] = SinPeticion
  BY <1>0, SoloAtender, OrdenAntes
<1>3. ~Reabierta(q) BY <1>1 DEF Reabierta
<1>4. /\ \A x \in Campanias : Asentada(x) /\ MismasPartidas(x)
      /\ \A x, accion : PorFirmar(x, accion)' <=> PorFirmar(x, accion)
  BY <1>0, <1>1, <1>2, <1>3, OrdenAntes, ConMismasPartidas, PorFirmarIgual
<1>5. ASSUME NEW x \in Campanias, campania'[x] = campania[x] PROVE Asentada(x)'
  BY <1>1, <1>4, <1>5, AsentadaSigue
<1>6. OrdenesConPartida' BY <1>1, <1>2 DEF OrdenesConPartida, HayOrden
<1>7. PICK r : r = peticion'[h] OBVIOUS
<1>8. CASE q.op = "renovar"
  <2>1. /\ r.op = "renovar" /\ r.en = "numerar" /\ r.campania = c /\ r.partida = q.partida
    BY <1>c, <1>2, <1>7, <1>8, GuardarCampaniaEs DEF Campos
  <2>2. ConPartidaNueva(q) BY <1>1, <1>2, <1>8 DEF ConPartidaNueva, EnSuSitio
  <2>3. OrdenesDePeticion(r)'
    BY <1>1, <1>2, <2>1, <2>2 DEF OrdenesDePeticion, Devolviendo, HayOrden
  <2>4. Reabierta(r) BY <2>1 DEF Reabierta
  <2> QED BY <1>0, <1>1, <1>5, <1>6, <1>7, <2>1, <2>3, <2>4, OrdenDePeticion
<1>9. CASE q.op = "cerrar"
  <2>1. /\ r.op = "cerrar" /\ r.en = "desactivar" /\ campania'[c] = "INACTIVA"
    BY <1>c, <1>2, <1>7, <1>9, GuardarCampaniaEs DEF Campos
  <2>2. campania[c] # "PENDIENTE"
    BY <1>c, <1>1, <1>2, <1>9 DEF PeticionSeria, CierreSerio, Cerrables, EnSuSitio
  <2>3. \A g \in Hilos : peticion[g].op # "firmar" BY <1>2, <1>9, SinNada
  <2>4. Asentada(c)'
    <3>1. \A accion : ~PorFirmar(c, accion) BY <1>1, <2>2, <2>3, SinPorFirmar
    <3> QED BY <1>4, <2>1, <3>1, AsentadaCerrada DEF Editables
  <2>5. OrdenesDePeticion(r)' BY <2>1 DEF OrdenesDePeticion, Devolviendo, ConPartidaNueva
  <2> QED BY <1>0, <1>1, <1>5, <1>6, <1>7, <2>4, <2>5, OrdenDePeticion
<1>10. CASE q.op = "actualizar"
  <2>1. r = SinPeticion \/ (r.op = "actualizar" /\ r.en = "otraVez")
    BY <1>c, <1>2, <1>7, <1>10, GuardarCampaniaEs DEF Campos
  <2>2. campania'[c] = campania[c]
    <3>1. campania' = [campania EXCEPT ![c] = q.fila.status]
      BY <1>c DEF GuardarCampania, TrasGuardar
    <3>2. q.fila.status = campania[c]
      BY <1>c, <1>1, <1>2, <1>10 DEF PeticionSeria, ActualizacionSeria
    <3> QED BY <3>1, <3>2, <1>1 DEF TipoInv, CampaniasBien
  <2>3. OrdenesDePeticion(r)'
    BY <2>1, OrdenesDeNadie DEF OrdenesDePeticion, Devolviendo, ConPartidaNueva
  <2> QED BY <1>0, <1>1, <1>5, <1>6, <1>7, <2>2, <2>3, OrdenDePeticion
<1>11. CASE q.op = "firmar"
  <2>1. r = SinPeticion /\ q.en = "guardar"
    BY <1>c, <1>1, <1>2, <1>7, <1>11, GuardarCampaniaEs DEF EnSuSitio
  <2>2. /\ q.doc \in Envios /\ q.accion \in Acciones /\ q.fila.status = "PENDIENTE"
        /\ documento[q.doc].campania = c /\ ~Notificado(q.doc)
        /\ documento[q.doc].accion = q.accion
        /\ campania[c] \in IF q.accion = "CANCEL" THEN {"APROBADA"} ELSE Editables
    BY <1>c, <1>2, <1>11, <2>1 DEF EnSuSitio, PeticionSeria, FirmaSeria, OrdenesDePeticion
  <2>3. campania'[c] = "PENDIENTE"
    <3>1. campania' = [campania EXCEPT ![c] = q.fila.status]
      BY <1>c DEF GuardarCampania, TrasGuardar
    <3> QED BY <3>1, <2>2, <1>1 DEF TipoInv, CampaniasBien
  <2>4. \A accion : PorFirmar(c, accion) => accion = q.accion
    <3>1. documento[q.doc] # SinDocumento BY <1>1, <2>2, DocumentoDe
    <3>2. \A d \in Envios : documento[d].campania = c /\ ~Notificado(d) => d = q.doc
      BY <2>2, <3>1 DEF EnSerie, DocumentoSerio
    <3> QED BY <2>2, <3>2 DEF PorFirmar
  <2>5. Asentada(c)'
    <3> SUFFICES ASSUME NEW o \in Ordenes, DeUltima(o, c)'
                 PROVE  /\ PorFirmar(c, "APPROVE") => orden[o].estatus = "PENDIENTE"
                        /\ PorFirmar(c, "CANCEL") => orden[o].estatus = "ACTIVA"
      BY <1>1, <1>4, <2>3 DEF Asentada, Editables
    <3>1. DeUltima(o, c) BY <1>1, <1>4, DeUltimaIgual DEF HayOrden
    <3> QED BY <1>1, <1>4, <2>2, <2>4, <3>1 DEF Asentada
  <2>6. OrdenesDePeticion(r)' BY <2>1, OrdenesDeNadie
  <2> QED BY <1>0, <1>1, <1>5, <1>6, <1>7, <2>5, <2>6, OrdenDePeticion
<1> QED BY <1>c, <1>8, <1>9, <1>10, <1>11, GuardarCampaniaEs

LEMMA OrdenBajaPartida ==
  ASSUME TipoInv, EnSerie, EnOrden, NEW h \in Hilos, BajaPartida(h)
  PROVE  EnOrden'
<1> DEFINE q == peticion[h]
<1>0. Atender(h) BY DEF Atender
<1>1. q.en = "bajaPartida" /\ UNCHANGED <<campania, activacion, orden, documento>>
      /\ Len(partida') = Len(partida)
  <2>1. partida \in Seq(Partida) BY DEF TipoInv, PartidasBien
  <2>2. UNCHANGED partida \/ \E p \in DOMAIN partida : partida' = [partida EXCEPT ![p].estatus = FALSE]
    BY DEF BajaPartida, HayPartida
  <2>3. Len(partida') = Len(partida) BY <2>1, <2>2
  <2> QED BY <2>3 DEF BajaPartida
<1>2. EnSuSitio(q, Len(activacion)) /\ DOMAIN q = Campos /\ DOMAIN peticion = Hilos
      /\ OrdenesConPartida
  BY <1>0, SoloAtender, OrdenAntes
<1>3. PICK r : r = peticion'[h] OBVIOUS
<1>4. r = SinPeticion \/ (r.op = q.op /\ r.en = "buscar")
  BY <1>2, <1>3 DEF BajaPartida, Responder, Seguir, Campos
<1>5. q.op \in {"cerrar", "desactivar"} /\ ~Reabierta(q)
  BY <1>1, <1>2 DEF EnSuSitio, DeBaja, Reabierta
<1>6. OrdenesDePeticion(r)
  BY <1>4, <1>5, OrdenesDeNadie DEF OrdenesDePeticion, Devolviendo, ConPartidaNueva
<1>7. OrdenesConPartida' BY <1>1, <1>2 DEF OrdenesConPartida, HayOrden
<1> QED BY <1>0, <1>1, <1>3, <1>5, <1>6, <1>7, OrdenLectura

\* An order less.
LEMMA OrdenBorrarOrden ==
  ASSUME TipoInv, EnSerie, EnOrden, NEW h \in Hilos, BorrarOrden(h)
  PROVE  EnOrden'
<1> DEFINE q == peticion[h]
<1>0. Atender(h) BY DEF Atender
<1>1. q.en = "borrarOrden" /\ UNCHANGED <<campania, activacion, documento, partida>>
      /\ peticion' = [peticion EXCEPT ![h].en = "maestro"]
      /\ orden' = [orden EXCEPT ![q.orden] = SinOrden]
  BY DEF BorrarOrden, Seguir
<1>2. EnSuSitio(q, Len(activacion)) /\ DOMAIN q = Campos /\ DOMAIN peticion = Hilos
      /\ OrdenesConPartida /\ UNCHANGED aviso /\ OrdenesDePeticion(q)
      /\ PeticionBien(q, Len(activacion), Len(partida))
  BY <1>0, SoloAtender, OrdenAntes
<1>3. \A o \in Ordenes : orden'[o] = orden[o] \/ orden'[o] = SinOrden BY BorrarOrdenEs
<1>4. ~Reabierta(q) /\ q.op \in {"cerrar", "desactivar"}
  BY <1>1, <1>2 DEF Reabierta, EnSuSitio, DeBaja
<1>5. ASSUME NEW x \in Campanias PROVE Asentada(x)'
  <2>1. Asentada(x) /\ MismasPartidas(x)
    BY <1>0, <1>1, <1>4, OrdenAntes, ConMismasPartidas
  <2> QED BY <1>1, <1>2, <1>3, <2>1, AsentadaSigue, PorFirmarIgual
<1>6. PICK r : r = peticion'[h] OBVIOUS
<1>7. r.op = q.op /\ r.en = "maestro" /\ r.ordenes = q.ordenes
  BY <1>1, <1>2, <1>6 DEF Campos
<1>8. ASSUME NEW x \in r.ordenes PROVE EnMano(x, "PENDIENTE")'
  <2>1. EnMano(x, "PENDIENTE") /\ x[1] # q.orden
    BY <1>1, <1>2, <1>7 DEF OrdenesDePeticion, Devolviendo
  <2>2. x[1] \in Ordenes BY <1>2, <1>7 DEF PeticionBien, ParBien
  <2>3. orden'[x[1]] = orden[x[1]] BY <1>1, <2>1, <2>2 DEF TipoInv, OrdenesBien
  <2> QED BY <2>1, <2>3 DEF EnMano, HayOrden
<1>9. OrdenesDePeticion(r)'
  BY <1>4, <1>7, <1>8 DEF OrdenesDePeticion, Devolviendo, ConPartidaNueva
<1>10. OrdenesConPartida' BY <1>1, <1>2, <1>3 DEF OrdenesConPartida, HayOrden
<1> QED BY <1>0, <1>5, <1>6, <1>9, <1>10, OrdenDePeticion

\* A new order waits, and so does its campaign.
LEMMA OrdenGuardarOrden ==
  ASSUME TipoInv, EnSerie, EnOrden, NEW h \in Hilos, GuardarOrden(h)
  PROVE  EnOrden'
<1> DEFINE q == peticion[h]
           n == q.orden
<1>0. Atender(h) BY DEF Atender
<1>1. q.en = "guardarOrden" /\ UNCHANGED <<campania, activacion, documento, partida>>
  BY DEF GuardarOrden
<1>2. EnSuSitio(q, Len(activacion)) /\ q.partida \in 0..Len(partida)
      /\ OrdenesConPartida /\ UNCHANGED aviso /\ OrdenesDePeticion(q)
      /\ \A g \in Hilos : g # h => peticion[g] = SinPeticion
  BY <1>0, SoloAtender, OrdenAntes DEF PeticionBien
<1>3. q.op = "ordenar" /\ peticion'[h] = SinPeticion BY GuardarOrdenEs
<1>c. PICK c \in Campanias : c = q.campania BY <1>1, <1>2 DEF EnSuSitio, DeBaja
<1>4. \A o \in Ordenes : \/ orden'[o] = orden[o]
                         \/ /\ o = n /\ orden'[o].campania = c /\ orden'[o].estatus = "PENDIENTE"
                            /\ orden'[o].partida = q.partida
  BY <1>c, GuardarOrdenEs
<1>5. campania[c] \in Editables BY <1>c, <1>2, <1>3 DEF OrdenesDePeticion
<1>6. ~Reabierta(q) BY <1>1 DEF Reabierta
<1>7. ASSUME NEW x \in Campanias PROVE Asentada(x)'
  <2>1. Asentada(x) /\ MismasPartidas(x)
    BY <1>0, <1>1, <1>6, OrdenAntes, ConMismasPartidas
  <2>2. CASE x # c BY <1>1, <1>2, <1>4, <2>1, <2>2, AsentadaSigue, PorFirmarIgual
  <2>3. CASE x = c
    <3>1. \A accion : ~PorFirmar(c, accion)'
      <4>1. \A g \in Hilos : peticion[g].op # "firmar" BY <1>2, <1>3, SinNada
      <4>2. campania[c] # "PENDIENTE" BY <1>5 DEF Editables
      <4> QED BY <1>1, <1>2, <4>1, <4>2, SinPorFirmar, PorFirmarIgual
    <3>2. campania'[c] # "APROBADA" BY <1>1, <1>5 DEF Editables
    <3>3. ASSUME NEW o \in Ordenes, DeUltima(o, c)' PROVE orden'[o].estatus = "PENDIENTE"
      <4>1. CASE orden'[o] = orden[o]
        <5>1. DeUltima(o, c) BY <2>1, <2>3, <3>3, <4>1, DeUltimaIgual DEF HayOrden
        <5> QED BY <1>5, <2>1, <2>3, <4>1, <5>1 DEF Asentada
      <4> QED BY <1>4, <4>1
    <3> QED BY <2>3, <3>1, <3>2, <3>3 DEF Asentada
  <2> QED BY <2>2, <2>3
<1>8. PICK r : r = peticion'[h] OBVIOUS
<1>9. OrdenesDePeticion(r)' BY <1>3, <1>8, OrdenesDeNadie
<1>10. OrdenesConPartida'
  <2>1. Len(partida) \in Nat BY Longitudes DEF TipoInv
  <2> QED BY <1>1, <1>2, <1>4, <2>1 DEF OrdenesConPartida, HayOrden
<1> QED BY <1>0, <1>7, <1>8, <1>9, <1>10, OrdenDePeticion

LEMMA OrdenAtender ==
  ASSUME TipoInv, FirmaInv, EnSerie, EnVigor, EnOrden, NEW h \in Hilos, Atender(h)
  PROVE  EnOrden'
<1>1. CASE \/ GuardarNueva(h) \/ GuardarPartida(h) \/ ApagarActivaciones(h) \/ Numerar(h)
           \/ GuardarActivacion(h) \/ LeerCampania(h) \/ BorrarCampania(h) \/ BajaActivacion(h)
  BY <1>1, OrdenGuardarNueva, OrdenGuardarPartida, OrdenApagar, OrdenNumerar,
     OrdenGuardarActivacion, OrdenLeerCampania, OrdenBorrarCampania
<1>2. CASE \/ GuardarDocumento(h) \/ GuardarCampania(h) \/ BajaPartida(h) \/ BuscarPendientes(h)
           \/ LeerMaestroDeOrden(h) \/ BorrarOrden(h) \/ LeerParaOrden(h) \/ GuardarOrden(h)
  BY <1>2, OrdenGuardarDocumento, OrdenGuardarCampania, OrdenBajaPartida, OrdenBuscarPendientes,
     OrdenLeerMaestro, OrdenBorrarOrden, OrdenLeerParaOrden, OrdenGuardarOrden
<1>3. CASE \/ LeerPorLimpiar(h) \/ LeerUltima(h) \/ LeerActivacion(h)
           \/ LeerModificatorioDeOrden(h) \/ DevolverCargo(h) \/ LeerFondos(h)
           \/ EscribirReserva(h)
  BY <1>3, OrdenOtras
<1> QED BY <1>1, <1>2, <1>3 DEF Atender


----
(* The handlers settle the orders one at a time. *)

\* What a step of a handler leaves as it was.
LEMMA OrdenAviso ==
  ASSUME TipoInv, FirmaInv, EnSerie, EnOrden, NEW e \in Avisos, Manejar(e)
  PROVE  /\ \A x \in Campanias : MismasPartidas(x)
         /\ \A o \in Ordenes : \/ orden'[o] = orden[o]
                               \/ /\ EscribirOrden(e) /\ HayOrden(o) /\ HayOrden(o)'
                                  /\ o = aviso[e].orden
                                  /\ orden'[o].campania = CampaniaDe(e)
                                  /\ orden'[o].campania = orden[o].campania
                                  /\ orden'[o].partida = orden[o].partida
                                  /\ orden'[o].cargos = orden[o].cargos
                                  /\ orden'[o].estatus = EstatusTras(e)
         /\ \A x \in Campanias : x # CampaniaDe(e) => campania'[x] = campania[x]
         /\ \A x \in Campanias : \A accion : PorFirmar(x, accion)' => PorFirmar(x, accion)
         /\ OrdenesConPartida' /\ AvisoAsentado(e) /\ EnCurso(e)
         /\ aviso[e].status \in {"no", "aprobar"} => campania[CampaniaDe(e)] = StatusDe(e)
<1>1. /\ UNCHANGED campania \/ EscribirStatus(e)
      /\ UNCHANGED orden \/ EscribirOrden(e)
      /\ UNCHANGED activacion \/ FecharActivacion(e)
      /\ UNCHANGED partida /\ EnCurso(e)
  BY EscribeManejar DEF FirmaInv
<1>2. ASSUME NEW x \in Campanias PROVE MismasPartidas(x)
  <2>1. CASE UNCHANGED activacion BY <2>1, ConMismasPartidas
  <2>2. CASE FecharActivacion(e)
    <3>1. activacion' = (IF HayActivacion(aviso[e].activacion)
                           THEN [activacion EXCEPT ![aviso[e].activacion].aprobada = TRUE]
                           ELSE activacion)
      BY <2>2 DEF FecharActivacion
    <3>2. \A b \in DOMAIN activacion : activacion[b] \in Activacion
      BY DEF TipoInv, ActivacionesBien
    <3>3. DOMAIN activacion' = DOMAIN activacion
          /\ \A b \in DOMAIN activacion : /\ activacion'[b].campania = activacion[b].campania
                                          /\ activacion'[b].partida = activacion[b].partida
      BY <3>1, <3>2 DEF Activacion
    <3> QED BY <3>3 DEF MismasPartidas, ActivacionesDe
  <2> QED BY <1>1, <2>1, <2>2
<1>3. ASSUME NEW o \in Ordenes
      PROVE  \/ orden'[o] = orden[o]
             \/ /\ EscribirOrden(e) /\ HayOrden(o) /\ HayOrden(o)'
                /\ o = aviso[e].orden
                /\ orden'[o].campania = CampaniaDe(e)
                /\ orden'[o].campania = orden[o].campania
                /\ orden'[o].partida = orden[o].partida
                /\ orden'[o].cargos = orden[o].cargos
                /\ orden'[o].estatus = EstatusTras(e)
  <2>1. CASE UNCHANGED orden BY <2>1
  <2>2. CASE EscribirOrden(e)
    <3>1. SinOrden.estatus = "NO_EXISTE" BY DEF SinOrden
    <3>2. PICK r : r = orden'[o] OBVIOUS
    <3>3. r.estatus \in {"ACTIVA", "CANCELADA"} => r # SinOrden BY <3>1
    <3> QED BY <2>2, <3>2, <3>3, EscribirOrdenEs DEF EstatusTras, HayOrden
  <2> QED BY <1>1, <2>1, <2>2
<1>4. ASSUME NEW x \in Campanias, x # CampaniaDe(e) PROVE campania'[x] = campania[x]
  BY <1>1, <1>4 DEF EscribirStatus, TipoInv, CampaniasBien
<1>5. ASSUME NEW x \in Campanias, NEW accion, PorFirmar(x, accion)' PROVE PorFirmar(x, accion)
  <2>1. PICK d \in Envios : documento'[d].campania = x /\ ~Notificado(d)'
                            /\ documento'[d].accion = accion
    BY <1>5 DEF PorFirmar
  <2>2. Duran /\ (documento[d] = SinDocumento => documento'[d] = SinDocumento)
    BY DuranManejar DEF FirmaInv
  <2>3. documento[d] # SinDocumento BY <2>1, <2>2, CampaniasAssumption DEF SinDocumento
  <2>4. documento[d].campania = x /\ documento[d].accion = accion
    BY <2>1, <2>2, <2>3 DEF Duran
  <2>5. ~Notificado(d) BY <2>1, SoloManejar
  <2> QED BY <2>4, <2>5 DEF PorFirmar
<1>6. OrdenesConPartida' BY <1>1, <1>3 DEF EnOrden, OrdenesConPartida, HayOrden
<1>7. AvisoAsentado(e) BY DEF EnOrden
<1>8. aviso[e].status \in {"no", "aprobar"} => campania[CampaniaDe(e)] = StatusDe(e)
  BY <1>1, <1>7 DEF AvisoAsentado
<1> QED BY <1>1, <1>2, <1>3, <1>4, <1>5, <1>6, <1>7, <1>8

\* Once the handlers run there is nothing of the campaign to be signed.
LEMMA SinFirmasDeAviso ==
  ASSUME TipoInv, FirmaInv, EnSerie, EnOrden, NEW e \in Avisos, Manejar(e)
  PROVE  \A accion : ~PorFirmar(CampaniaDe(e), accion)
<1>1. PICK c \in Campanias : c = CampaniaDe(e) BY SoloManejar
<1>2. AvisoSerio(e) /\ \A h \in Hilos : peticion[h] = SinPeticion BY SoloManejar
<1>3. CASE aviso[e].status \in {"leer", "escribir"}
  BY <1>1, <1>2, <1>3 DEF AvisoSerio, PorFirmar
<1>4. CASE aviso[e].status \notin {"leer", "escribir"}
  <2>1. aviso[e].status \in {"no", "aprobar"} BY <1>4, AvisoTipo DEF AvisoBien
  <2>2. campania[c] # "PENDIENTE" BY <1>1, <2>1, OrdenAviso DEF StatusDe
  <2> QED BY <1>1, <1>2, <2>2, SinPorFirmar, SinNada
<1> QED BY <1>3, <1>4

\* What they leave of the orders of their campaign is enough.
LEMMA AvisoTras ==
  ASSUME TipoInv, FirmaInv, EnSerie, EnOrden, NEW e \in Avisos, Manejar(e),
         NEW a, a = aviso'[e], NEW c \in Campanias, c = CampaniaDe(e),
         NEW u, u = UltimaActivacion(c), NEW antes, antes = EstatusAntes(e),
         a.status \in {"no", "aprobar"} => campania'[c] = StatusDe(e),
         a.montos \in {"activacion", "ordenes"} =>
           \A o \in Ordenes : DeUltima(o, c) => orden'[o].estatus = antes,
         a.montos = "ordenes" => u # 0 /\ a.partida = activacion[u].partida,
         a.montos \notin {"siguiente", "cargos"} => a.ordenes = {},
         \A x \in a.ordenes : EnMano(x, antes)',
         a.montos = "cargos" =>
           /\ orden'[a.orden] # SinOrden /\ orden'[a.orden].estatus = antes
           /\ \A x \in a.ordenes : x[1] # a.orden,
         a.montos \in {"siguiente", "cargos", "no"} =>
           \A o \in Ordenes : DeUltima(o, c) =>
             \/ a.montos = "cargos" /\ a.orden = o
             \/ \E x \in a.ordenes : x[1] = o
             \/ orden'[o].estatus = EstatusTras(e)
  PROVE  EnOrden'
<1>1. /\ \A x \in Campanias : MismasPartidas(x)
      /\ \A o \in Ordenes :
           \/ orden'[o] = orden[o]
           \/ /\ HayOrden(o) /\ HayOrden(o)' /\ orden'[o].campania = c
              /\ orden'[o].campania = orden[o].campania /\ orden'[o].partida = orden[o].partida
      /\ \A x \in Campanias : x # c => campania'[x] = campania[x]
      /\ \A x \in Campanias : \A accion : PorFirmar(x, accion)' => PorFirmar(x, accion)
      /\ OrdenesConPartida' /\ EnCurso(e)
  BY OrdenAviso
<1>2. /\ \A h \in Hilos : peticion[h] = SinPeticion /\ peticion'[h] = SinPeticion
      /\ \A n \in Avisos : n # e => ~EnCurso(n) /\ ~EnCurso(n)'
      /\ CampaniaDe(e)' = c
  <2>1. /\ \A h \in Hilos : peticion[h] = SinPeticion /\ peticion'[h] = SinPeticion
        /\ \A n \in Avisos : n # e => aviso'[n] = aviso[n]
    BY SoloManejar
  <2>2. CampaniaDe(e)' = CampaniaDe(e) BY SoloManejar
  <2>3. \A n \in Avisos : n # e => ~EnCurso(n) BY <1>1 DEF EnSerie, Solo
  <2> QED BY <2>1, <2>2, <2>3 DEF EnCurso
<1>3. \A o \in Ordenes, x \in Campanias : DeUltima(o, x)' <=> DeUltima(o, x)
  <2> SUFFICES ASSUME NEW o \in Ordenes, NEW x \in Campanias
               PROVE  DeUltima(o, x)' <=> DeUltima(o, x)
    OBVIOUS
  <2>1. MismasPartidas(x) BY <1>1
  <2>2. HayOrden(o)' <=> HayOrden(o) BY <1>1 DEF HayOrden
  <2>3. HayOrden(o) => orden'[o].campania = orden[o].campania /\ orden'[o].partida = orden[o].partida
    BY <1>1
  <2> QED BY <2>1, <2>2, <2>3, DeUltimaIgual
<1>4. ASSUME NEW x \in Campanias, x # c PROVE Asentada(x)'
  <2>1. Asentada(x) BY <1>2, <1>4, OrdenesDeNadie DEF EnOrden
  <2>2. \A o \in Ordenes : orden'[o] # SinOrden /\ orden'[o].campania = x => orden'[o] = orden[o]
    BY <1>1, <1>4
  <2> QED BY <1>1, <1>4, <2>1, <2>2, AsentadaSigue
<1>5. Aprueba(e)' <=> Aprueba(e)
  <2>1. Duran /\ documento[Doc(e)] # SinDocumento /\ Doc(e) \in Envios
    BY <1>1, AvisoTipo, DuranManejar DEF FirmaInv
  <2> QED BY <2>1 DEF Duran, Aprueba
<1>6. /\ StatusDe(e)' = StatusDe(e) /\ EstatusAntes(e)' = antes /\ EstatusTras(e)' = EstatusTras(e)
  BY <1>5 DEF StatusDe, EstatusAntes, EstatusTras
<1>7. UltimaActivacion(CampaniaDe(e))' = u
  BY <1>1, <1>2 DEF MismasPartidas, UltimaActivacion
<1>8. a.montos = "ordenes" => activacion'[u].partida = activacion[u].partida
  <2>1. u # 0 => u \in ActivacionesDe(c) BY UltimaEs DEF TipoInv
  <2> QED BY <1>1, <2>1 DEF MismasPartidas
<1>9. AvisoAsentado(e)'
  <2>1. \A o \in Ordenes : DeUltima(o, CampaniaDe(e))' => DeUltima(o, c)
    BY <1>2, <1>3, <1>7 DEF DeUltima
  <2>2. (activacion[UltimaActivacion(CampaniaDe(e))].partida)' = activacion'[u].partida
    BY <1>7
  <2>3. \A o : Lleva(e, o)' <=> \/ a.montos = "cargos" /\ a.orden = o
                                \/ \E x \in a.ordenes : x[1] = o
    BY DEF Lleva
  <2>4. \A x \in a.ordenes : EnMano(x, EstatusAntes(e))' BY <1>6 DEF EnMano
  <2>5. campania'[CampaniaDe(e)'] = campania'[c] BY <1>2
  <2> QED BY <1>6, <1>7, <1>8, <2>1, <2>2, <2>3, <2>4, <2>5 DEF AvisoAsentado, HayOrden
<1>10. ASSUME ~EnCurso(e)' PROVE Asentada(c)'
  <2>1. a.status = "no" /\ a.montos = "no" BY <1>10 DEF EnCurso
  <2>2. \A accion : ~PorFirmar(c, accion)' BY <1>1, SinFirmasDeAviso
  <2>3. campania'[c] = StatusDe(e) /\ \A o \in Ordenes : DeUltima(o, c)' => orden'[o].estatus = EstatusTras(e)
    BY <1>3, <2>1
  <2>4. campania'[c] \notin Editables /\ (campania'[c] = "APROBADA" => EstatusTras(e) = "ACTIVA")
    BY <2>3 DEF StatusDe, EstatusTras, Editables
  <2> QED BY <2>2, <2>3, <2>4 DEF Asentada
<1>11. \A x \in Campanias : Asentada(x)' \/ \E n \in Avisos : (EnCurso(n) /\ CampaniaDe(n) = x)'
  BY <1>2, <1>4, <1>10
<1>12. ASSUME NEW h \in Hilos PROVE OrdenesDePeticion(peticion[h])'
  <2>1. PICK q : q = peticion'[h] OBVIOUS
  <2>2. OrdenesDePeticion(q)' BY <1>2, <2>1, OrdenesDeNadie
  <2>3. UltimaActivacion(peticion[h].campania)' = UltimaActivacion(q.campania)'
    BY <2>1 DEF UltimaActivacion, ActivacionesDe
  <2> QED BY <2>1, <2>2, <2>3 DEF OrdenesDePeticion, ConPartidaNueva, EnMano, HayOrden
<1>13. \A n \in Avisos : AvisoAsentado(n)' BY <1>2, <1>9 DEF AvisoAsentado
<1> QED BY <1>1, <1>11, <1>12, <1>13 DEF EnOrden


\* A step that takes none of them further.
LEMMA AvisoMismo ==
  ASSUME TipoInv, FirmaInv, EnSerie, EnOrden, NEW e \in Avisos, Manejar(e), UNCHANGED orden,
         aviso'[e].montos = aviso[e].montos, aviso'[e].partida = aviso[e].partida,
         aviso'[e].ordenes = aviso[e].ordenes, aviso'[e].orden = aviso[e].orden,
         aviso'[e].status \in {"no", "aprobar"} => campania'[CampaniaDe(e)] = StatusDe(e)
  PROVE  EnOrden'
<1>1. PICK c \in Campanias : c = CampaniaDe(e) BY SoloManejar
<1>2. PICK a : a = aviso'[e] OBVIOUS
<1>3. PICK u : u = UltimaActivacion(c) OBVIOUS
<1>4. PICK antes : antes = EstatusAntes(e) OBVIOUS
<1>5. AvisoAsentado(e) /\ EnCurso(e) BY OrdenAviso
<1>6. \A x \in a.ordenes : EnMano(x, antes)'
  <2>1. \A x \in a.ordenes : EnMano(x, antes) BY <1>2, <1>4, <1>5 DEF AvisoAsentado
  <2> QED BY <2>1 DEF EnMano, HayOrden
<1>7. \A o \in Ordenes : Lleva(e, o) <=> \/ a.montos = "cargos" /\ a.orden = o
                                         \/ \E x \in a.ordenes : x[1] = o
  BY <1>2 DEF Lleva
<1> QED BY <1>1, <1>2, <1>3, <1>4, <1>5, <1>6, <1>7, AvisoTras DEF AvisoAsentado, HayOrden

LEMMA OrdenLeerActivacion ==
  ASSUME TipoInv, FirmaInv, EnSerie, EnOrden, NEW e \in Avisos, LeerActivacionDeAviso(e)
  PROVE  EnOrden'
<1>0. Manejar(e) BY DEF Manejar
<1>1. PICK c \in Campanias : c = CampaniaDe(e) BY <1>0, SoloManejar
<1>2. PICK a : a = aviso'[e] OBVIOUS
<1>3. PICK u : u = UltimaActivacion(c) OBVIOUS
<1>4. PICK antes : antes = EstatusAntes(e) OBVIOUS
<1>5. AvisoAsentado(e) /\ EnCurso(e)
      /\ (aviso[e].status \in {"no", "aprobar"} => campania[c] = StatusDe(e))
  BY <1>0, <1>1, OrdenAviso
<1>6. /\ aviso[e].montos = "activacion" /\ UNCHANGED <<campania, orden>>
      /\ aviso' = (IF u = 0 THEN [aviso EXCEPT ![e].montos = "no"]
                   ELSE [aviso EXCEPT ![e].montos = "ordenes",
                                      ![e].partida = activacion[u].partida])
  BY <1>1, <1>3 DEF LeerActivacionDeAviso, filas
<1>7. a.status = aviso[e].status /\ a.ordenes = aviso[e].ordenes
      /\ (IF u = 0 THEN a.montos = "no"
          ELSE a.montos = "ordenes" /\ a.partida = activacion[u].partida)
  BY <1>2, <1>6, AvisoTipo DEF CamposDeAviso
<1>8. aviso[e].ordenes = {} /\ \A o \in Ordenes : DeUltima(o, c) => orden'[o].estatus = antes
  BY <1>1, <1>4, <1>5, <1>6 DEF AvisoAsentado
<1>9. u = 0 => \A o \in Ordenes : ~DeUltima(o, c) BY <1>3 DEF DeUltima
<1>10. a.ordenes = {} /\ \A x \in a.ordenes : EnMano(x, antes)' BY <1>7, <1>8
<1>11. a.status \in {"no", "aprobar"} => campania'[c] = StatusDe(e) BY <1>5, <1>6, <1>7
<1>12. CASE u = 0
  <2>1. a.montos = "no" /\ \A o \in Ordenes : ~DeUltima(o, c) BY <1>7, <1>9, <1>12
  <2> QED BY <1>0, <1>1, <1>2, <1>3, <1>4, <1>10, <1>11, <2>1, AvisoTras
<1>13. CASE u # 0
  <2>1. a.montos = "ordenes" /\ a.partida = activacion[u].partida BY <1>7, <1>13
  <2> QED BY <1>0, <1>1, <1>2, <1>3, <1>4, <1>8, <1>10, <1>11, <1>13, <2>1, AvisoTras
<1> QED BY <1>12, <1>13

LEMMA OrdenLeerOrdenes ==
  ASSUME TipoInv, FirmaInv, EnSerie, EnOrden, NEW e \in Avisos, LeerOrdenes(e)
  PROVE  EnOrden'
<1>0. Manejar(e) BY DEF Manejar
<1>1. PICK c \in Campanias : c = CampaniaDe(e) BY <1>0, SoloManejar
<1>2. PICK a : a = aviso'[e] OBVIOUS
<1>3. PICK u : u = UltimaActivacion(c) OBVIOUS
<1>4. PICK antes : antes = EstatusAntes(e) OBVIOUS
<1>5. AvisoAsentado(e) /\ EnCurso(e)
      /\ (aviso[e].status \in {"no", "aprobar"} => campania[c] = StatusDe(e))
  BY <1>0, <1>1, OrdenAviso
<1> DEFINE S == OrdenesDe(c, aviso[e].partida)
           os == {<<o, orden[o].cargos>> : o \in S}
<1>6. /\ aviso[e].montos = "ordenes" /\ UNCHANGED <<campania, orden>>
      /\ aviso' = [aviso EXCEPT ![e].montos = "siguiente", ![e].ordenes = os]
  BY <1>1 DEF LeerOrdenes, filas
<1>7. u # 0 /\ aviso[e].partida = activacion[u].partida
      /\ \A o \in Ordenes : DeUltima(o, c) => orden[o].estatus = antes
  BY <1>1, <1>3, <1>4, <1>5, <1>6 DEF AvisoAsentado
<1>8. \A o \in Ordenes : o \in S <=> DeUltima(o, c) BY <1>3, <1>7 DEF OrdenesDe, DeUltima
<1>9. \A x \in os : EnMano(x, antes)'
  <2> SUFFICES ASSUME NEW x \in os PROVE EnMano(x, antes)' OBVIOUS
  <2>1. PICK o \in S : x = <<o, orden[o].cargos>> OBVIOUS
  <2>2. HayOrden(o) /\ orden[o].estatus = antes /\ x[1] = o
    BY <1>7, <1>8, <2>1 DEF OrdenesDe
  <2> QED BY <1>6, <2>1, <2>2 DEF EnMano, HayOrden
<1>10. \A o \in Ordenes : DeUltima(o, c) => \E x \in os : x[1] = o
  <2> SUFFICES ASSUME NEW o \in S PROVE \E x \in os : x[1] = o BY <1>8
  <2>1. <<o, orden[o].cargos>> \in os OBVIOUS
  <2> QED BY <2>1
<1> HIDE DEF os
<1>11. a.status = aviso[e].status /\ a.ordenes = os /\ a.montos = "siguiente"
  BY <1>2, <1>6, AvisoTipo DEF CamposDeAviso
<1>12. a.status \in {"no", "aprobar"} => campania'[c] = StatusDe(e) BY <1>5, <1>6, <1>11
<1>13. \A x \in a.ordenes : EnMano(x, antes)' BY <1>9, <1>11
<1>14. \A o \in Ordenes : DeUltima(o, c) => \E x \in a.ordenes : x[1] = o BY <1>10, <1>11
<1> QED BY <1>0, <1>1, <1>2, <1>3, <1>4, <1>11, <1>12, <1>13, <1>14, AvisoTras

LEMMA OrdenCargarOrden ==
  ASSUME TipoInv, FirmaInv, EnSerie, EnOrden, NEW e \in Avisos, CargarOrden(e)
  PROVE  EnOrden'
<1>0. Manejar(e) BY DEF Manejar
<1>1. PICK c \in Campanias : c = CampaniaDe(e) BY <1>0, SoloManejar
<1>2. PICK a : a = aviso'[e] OBVIOUS
<1>3. PICK u : u = UltimaActivacion(c) OBVIOUS
<1>4. PICK antes : antes = EstatusAntes(e) OBVIOUS
<1>5. AvisoAsentado(e) /\ EnCurso(e)
      /\ (aviso[e].status \in {"no", "aprobar"} => campania[c] = StatusDe(e))
  BY <1>0, <1>1, OrdenAviso
<1>6. aviso[e].montos = "siguiente" /\ UNCHANGED <<campania, orden>>
  BY DEF CargarOrden, filas
<1>7. /\ \A x \in aviso[e].ordenes : EnMano(x, antes)
      /\ \A o \in Ordenes : DeUltima(o, c) =>
           (\E x \in aviso[e].ordenes : x[1] = o) \/ orden[o].estatus = EstatusTras(e)
  BY <1>1, <1>4, <1>5, <1>6 DEF AvisoAsentado, Lleva
<1>8. CASE /\ aviso[e].ordenes = {}
           /\ aviso' = [aviso EXCEPT ![e].montos = "no", ![e].partida = 0, ![e].orden = "-"]
  <2>1. a.status = aviso[e].status /\ a.ordenes = {} /\ a.montos = "no"
    BY <1>2, <1>8, AvisoTipo DEF CamposDeAviso
  <2> QED BY <1>0, <1>1, <1>2, <1>3, <1>4, <1>5, <1>6, <1>7, <1>8, <2>1, AvisoTras
<1>9. ASSUME NEW x \in aviso[e].ordenes,
             aviso' = [aviso EXCEPT ![e].montos = "cargos", ![e].ordenes = @ \ {x},
                                    ![e].orden = x[1]]
      PROVE  EnOrden'
  <2>1. a.status = aviso[e].status /\ a.ordenes = aviso[e].ordenes \ {x} /\ a.montos = "cargos"
        /\ a.orden = x[1]
    BY <1>2, <1>9, AvisoTipo DEF CamposDeAviso
  <2>2. \A y \in a.ordenes : EnMano(y, antes)'
    <3>1. \A y \in a.ordenes : EnMano(y, antes) BY <1>7, <2>1
    <3> QED BY <1>6, <3>1 DEF EnMano, HayOrden
  <2>3. orden'[a.orden] # SinOrden /\ orden'[a.orden].estatus = antes
    BY <1>6, <1>7, <2>1 DEF EnMano, HayOrden
  <2>4. \A y \in a.ordenes : y[1] # a.orden
    <3> SUFFICES ASSUME NEW y \in a.ordenes, y[1] = x[1] PROVE FALSE BY <2>1
    <3>1. EnMano(x, antes) /\ EnMano(y, antes) BY <1>7, <2>1
    <3> QED BY <2>1, <3>1 DEF EnMano
  <2>5. \A o \in Ordenes : DeUltima(o, c) =>
          \/ a.orden = o \/ (\E y \in a.ordenes : y[1] = o) \/ orden'[o].estatus = EstatusTras(e)
    BY <1>6, <1>7, <2>1
  <2> QED BY <1>0, <1>1, <1>2, <1>3, <1>4, <1>5, <1>6, <2>1, <2>2, <2>3, <2>4, <2>5, AvisoTras
<1> QED BY <1>8, <1>9 DEF CargarOrden

LEMMA OrdenEscribirOrden ==
  ASSUME TipoInv, FirmaInv, EnSerie, EnOrden, NEW e \in Avisos, EscribirOrden(e)
  PROVE  EnOrden'
<1>0. Manejar(e) BY DEF Manejar
<1>1. PICK c \in Campanias : c = CampaniaDe(e) BY <1>0, SoloManejar
<1>2. PICK a : a = aviso'[e] OBVIOUS
<1>3. PICK u : u = UltimaActivacion(c) OBVIOUS
<1>4. PICK antes : antes = EstatusAntes(e) OBVIOUS
<1>5. AvisoAsentado(e) /\ EnCurso(e)
      /\ (aviso[e].status \in {"no", "aprobar"} => campania[c] = StatusDe(e))
  BY <1>0, <1>1, OrdenAviso
<1>o. PICK n : n = aviso[e].orden OBVIOUS
<1>6. aviso[e].montos = "cargos" /\ UNCHANGED campania BY DEF EscribirOrden
<1>7. /\ HayOrden(n) /\ orden[n].estatus = antes
      /\ \A x \in aviso[e].ordenes : EnMano(x, antes) /\ x[1] # n
      /\ \A o \in Ordenes : DeUltima(o, c) =>
           o = n \/ (\E x \in aviso[e].ordenes : x[1] = o) \/ orden[o].estatus = EstatusTras(e)
  BY <1>1, <1>4, <1>5, <1>6, <1>o DEF AvisoAsentado, Lleva
<1>8. /\ orden' = [orden EXCEPT ![n].estatus = EstatusTras(e)]
      /\ aviso' = [aviso EXCEPT ![e].montos = "siguiente"]
  BY <1>7, <1>o DEF EscribirOrden, EstatusTras
<1>9. a.status = aviso[e].status /\ a.ordenes = aviso[e].ordenes /\ a.montos = "siguiente"
  BY <1>2, <1>8, AvisoTipo DEF CamposDeAviso
<1>10. \A x \in a.ordenes : EnMano(x, antes)'
  <2> SUFFICES ASSUME NEW x \in a.ordenes PROVE EnMano(x, antes)' OBVIOUS
  <2>1. EnMano(x, antes) /\ x[1] # n BY <1>7, <1>9
  <2>2. orden'[x[1]] = orden[x[1]] BY <1>8, <2>1
  <2> QED BY <2>1, <2>2 DEF EnMano, HayOrden
<1>11. \A o \in Ordenes : DeUltima(o, c) =>
         (\E x \in a.ordenes : x[1] = o) \/ orden'[o].estatus = EstatusTras(e)
  <2> SUFFICES ASSUME NEW o \in Ordenes, DeUltima(o, c), ~\E x \in a.ordenes : x[1] = o
               PROVE  orden'[o].estatus = EstatusTras(e)
    OBVIOUS
  <2>1. CASE o = n
    <3>1. orden[o] \in Orden /\ DOMAIN orden = Ordenes
      BY <1>7, <2>1 DEF TipoInv, OrdenesBien, HayOrden
    <3> QED BY <1>8, <2>1, <3>1 DEF Orden
  <2>2. CASE o # n BY <1>7, <1>8, <1>9, <2>2
  <2> QED BY <2>1, <2>2
<1> QED BY <1>0, <1>1, <1>2, <1>3, <1>4, <1>5, <1>6, <1>9, <1>10, <1>11, AvisoTras

LEMMA OrdenManejar ==
  ASSUME TipoInv, FirmaInv, EnSerie, EnOrden, NEW e \in Avisos, Manejar(e)
  PROVE  EnOrden'
<1>0. DOMAIN aviso = Avisos /\ DOMAIN aviso[e] = CamposDeAviso BY AvisoTipo
<1>c. PICK c \in Campanias : c = CampaniaDe(e) BY SoloManejar
<1>1. aviso[e].status \in {"no", "aprobar"} => campania[c] = StatusDe(e)
  BY <1>c, OrdenAviso
<1>2. aviso[e].status \in {"leer", "escribir"} => Existe(c)
  <2>1. AvisoSerio(e) BY SoloManejar
  <2> QED BY <1>c, <2>1 DEF AvisoSerio, Existe, CAMPAIGN_STATUS
<1>3. CASE GuardarFirma(e)
  <2>1. aviso' = [aviso EXCEPT ![e].guardar = FALSE] /\ UNCHANGED <<campania, orden>>
    BY <1>3 DEF GuardarFirma
  <2>2. /\ aviso'[e].montos = aviso[e].montos /\ aviso'[e].partida = aviso[e].partida
        /\ aviso'[e].ordenes = aviso[e].ordenes /\ aviso'[e].orden = aviso[e].orden
        /\ aviso'[e].status = aviso[e].status
    BY <1>0, <2>1 DEF CamposDeAviso
  <2> QED BY <1>c, <1>1, <2>1, <2>2, AvisoMismo
<1>4. CASE LeerStatus(e)
  <2>1. PICK u : u = UltimaActivacion(c) OBVIOUS
  <2>2. aviso' = [aviso EXCEPT ![e].status = "escribir", ![e].activacion = u] /\ UNCHANGED orden
    BY <1>c, <1>2, <1>4, <2>1 DEF LeerStatus, filas
  <2>3. /\ aviso'[e].montos = aviso[e].montos /\ aviso'[e].partida = aviso[e].partida
        /\ aviso'[e].ordenes = aviso[e].ordenes /\ aviso'[e].orden = aviso[e].orden
        /\ aviso'[e].status = "escribir"
    BY <1>0, <2>2 DEF CamposDeAviso
  <2> QED BY <2>2, <2>3, AvisoMismo
<1>5. CASE EscribirStatus(e)
  <2>1. PICK s : s = IF Aprueba(e) /\ aviso[e].activacion # 0 THEN "aprobar" ELSE "no"
    OBVIOUS
  <2>2. aviso' = [aviso EXCEPT ![e].status = s] /\ UNCHANGED orden
        /\ campania' = [campania EXCEPT ![c] = StatusDe(e)]
    BY <1>c, <1>2, <1>5, <2>1 DEF EscribirStatus
  <2>3. /\ aviso'[e].montos = aviso[e].montos /\ aviso'[e].partida = aviso[e].partida
        /\ aviso'[e].ordenes = aviso[e].ordenes /\ aviso'[e].orden = aviso[e].orden
    BY <1>0, <2>2 DEF CamposDeAviso
  <2>4. campania'[c] = StatusDe(e) BY <2>2 DEF TipoInv, CampaniasBien
  <2> QED BY <1>c, <2>2, <2>3, <2>4, AvisoMismo
<1>6. CASE FecharActivacion(e)
  <2>1. aviso' = [aviso EXCEPT ![e].status = "no"] /\ UNCHANGED <<campania, orden>>
        /\ aviso[e].status = "aprobar"
    BY <1>6 DEF FecharActivacion
  <2>2. /\ aviso'[e].montos = aviso[e].montos /\ aviso'[e].partida = aviso[e].partida
        /\ aviso'[e].ordenes = aviso[e].ordenes /\ aviso'[e].orden = aviso[e].orden
    BY <1>0, <2>1 DEF CamposDeAviso
  <2> QED BY <1>c, <1>1, <2>1, <2>2, AvisoMismo
<1>7. CASE AvanzarLibro(e)
  <2>1. UNCHANGED <<campania, orden, aviso>> BY <1>7 DEF AvanzarLibro, varsCampania, filas
  <2> QED BY <1>c, <1>1, <2>1, AvisoMismo
<1> QED BY <1>3, <1>4, <1>5, <1>6, <1>7, OrdenLeerActivacion, OrdenLeerOrdenes, OrdenCargarOrden,
           OrdenEscribirOrden DEF Manejar


----
(* What arrives, and the charges of the matches. *)

\* A step that begins with nothing in progress.
LEMMA OrdenDesdeReposo ==
  ASSUME TipoInv, EnOrden, Quieto, UNCHANGED <<campania, activacion, partida, orden, aviso>>,
         \A d \in Envios : documento'[d].campania = documento[d].campania
                           /\ documento'[d].accion = documento[d].accion,
         \A h \in Hilos : \E q : q = peticion'[h] /\ OrdenesDePeticion(q)'
  PROVE  EnOrden'
<1>1. SinAvisos /\ \A h \in Hilos : peticion[h] = SinPeticion BY NadaEnCurso
<1>2. \A x, accion : PorFirmar(x, accion)' => PorFirmar(x, accion)
  BY DEF PorFirmar, Notificado
<1>3. ASSUME NEW x \in Campanias PROVE Asentada(x)'
  <2>1. Asentada(x) /\ MismasPartidas(x)
    BY <1>1, OrdenesDeNadie, ConMismasPartidas DEF EnOrden, SinAvisos
  <2> QED BY <1>2, <2>1, AsentadaSigue
<1>4. ASSUME NEW h \in Hilos PROVE OrdenesDePeticion(peticion[h])'
  <2>1. PICK q : q = peticion'[h] /\ OrdenesDePeticion(q)' OBVIOUS
  <2>2. UltimaActivacion(peticion[h].campania)' = UltimaActivacion(q.campania)'
    BY <2>1 DEF UltimaActivacion, ActivacionesDe
  <2> QED BY <2>1, <2>2 DEF OrdenesDePeticion, ConPartidaNueva, EnMano, HayOrden
<1>5. \A e \in Avisos : AvisoAsentado(e)' BY <1>1 DEF AvisoAsentado, SinAvisos, EnCurso
<1>6. OrdenesConPartida' BY DEF EnOrden, OrdenesConPartida, HayOrden
<1> QED BY <1>3, <1>4, <1>5, <1>6 DEF EnOrden

LEMMA OrdenIgual ==
  ASSUME EnOrden, UNCHANGED <<campania, activacion, orden, documento, aviso, peticion>>,
         Len(partida') = Len(partida)
  PROVE  EnOrden'
<1>1. /\ \A c : Asentada(c)' <=> Asentada(c)
      /\ \A q : OrdenesDePeticion(q)' <=> OrdenesDePeticion(q)
  BY EnOrdenIgual
<1>2. ASSUME NEW h \in Hilos PROVE OrdenesDePeticion(peticion[h])'
  <2>1. PICK q : q = peticion[h] OBVIOUS
  <2>2. OrdenesDePeticion(q)' /\ peticion'[h] = q BY <1>1, <2>1 DEF EnOrden
  <2>3. UltimaActivacion(peticion[h].campania)' = UltimaActivacion(q.campania)'
    BY <2>2 DEF UltimaActivacion, ActivacionesDe
  <2> QED BY <2>2, <2>3 DEF OrdenesDePeticion, ConPartidaNueva, EnMano, HayOrden
<1>3. ASSUME NEW c \in Campanias
      PROVE  \/ Asentada(c)'
             \/ \E h \in Hilos : (Reabierta(peticion[h]) /\ peticion[h].campania = c)'
             \/ \E e \in Avisos : (EnCurso(e) /\ CampaniaDe(e) = c)'
  BY <1>1 DEF EnOrden, Reabierta, EnCurso, CampaniaDe
<1>4. ASSUME NEW e \in Avisos PROVE AvisoAsentado(e)'
  <2>1. AvisoAsentado(e) BY DEF EnOrden
  <2>2. \A o, c : DeUltima(o, c)' <=> DeUltima(o, c)
    <3>1. \A c : UltimaActivacion(c)' = UltimaActivacion(c)
      BY DEF UltimaActivacion, ActivacionesDe
    <3>2. \A c : (activacion[UltimaActivacion(c)].partida)' = activacion[UltimaActivacion(c)].partida
      BY <3>1
    <3> QED BY <3>1, <3>2 DEF DeUltima, HayOrden
  <2>3. CampaniaDe(e)' = CampaniaDe(e) /\ UltimaActivacion(CampaniaDe(e))' = UltimaActivacion(CampaniaDe(e))
    BY DEF CampaniaDe, UltimaActivacion, ActivacionesDe
  <2>4. (activacion[UltimaActivacion(CampaniaDe(e))].partida)'
          = activacion[UltimaActivacion(CampaniaDe(e))].partida
    BY <2>3
  <2>5. /\ EstatusAntes(e)' = EstatusAntes(e) /\ EstatusTras(e)' = EstatusTras(e)
        /\ StatusDe(e)' = StatusDe(e) /\ (EnCurso(e)' <=> EnCurso(e))
        /\ \A o : Lleva(e, o)' <=> Lleva(e, o)
    BY DEF EstatusAntes, EstatusTras, StatusDe, Aprueba, EnCurso, Lleva
  <2>6. \A o \in Ordenes : DeUltima(o, CampaniaDe(e))' <=> DeUltima(o, CampaniaDe(e))
    BY <2>2, <2>3 DEF DeUltima, HayOrden
  <2>7. \A x : EnMano(x, EstatusAntes(e))' <=> EnMano(x, EstatusAntes(e))
    BY <2>5 DEF EnMano, HayOrden
  <2> QED BY <2>1, <2>3, <2>4, <2>5, <2>6, <2>7 DEF AvisoAsentado, HayOrden
<1>5. OrdenesConPartida' BY DEF EnOrden, OrdenesConPartida, HayOrden
<1> QED BY <1>2, <1>3, <1>4, <1>5 DEF EnOrden

LEMMA OrdenCobrar ==
  ASSUME TipoInv, EnSerie, EnOrden, NEW k \in Cobros, Cobrar(k)
  PROVE  EnOrden'
<1>1. UNCHANGED <<campania, activacion, orden, documento, aviso, peticion>> BY SoloCobrar
<1>2. Len(partida') = Len(partida)
  <2>1. CASE LeerPartida(k) BY <2>1 DEF LeerPartida, filas
  <2>2. CASE EscribirPartida(k)
    <3> DEFINE p == cobro[k].partida
               m == escribir(partida[p].montos,
                             MontosDe(cobro[k].evento, cobro[k].montos, cobro[k].total),
                             ColumnasDe(cobro[k].evento))
    <3>1. partida' = [partida EXCEPT ![p].montos = m] \/ partida' = partida
      BY <2>2 DEF EscribirPartida
    <3> HIDE DEF p
    <3> HIDE DEF m
    <3> QED BY <3>1 DEF TipoInv, PartidasBien
  <2> QED BY <2>1, <2>2 DEF Cobrar
<1> QED BY <1>1, <1>2, OrdenIgual

LEMMA OrdenEnviar ==
  ASSUME TipoInv, EnOrden, NEW d \in Envios, EnviarAFirmamex(d), Quieto
  PROVE  EnOrden'
<1>0. documento[d] # SinDocumento
  <2>1. SinDocumento.estatus = "NO_EXISTE" BY DEF SinDocumento
  <2> QED BY <2>1 DEF EnviarAFirmamex
<1>1. /\ documento' = [documento EXCEPT ![d].estatus = "enviado"]
      /\ UNCHANGED <<campania, activacion, partida, orden, peticion, aviso>>
  BY DEF EnviarAFirmamex
<1>2. \A x \in Envios : documento'[x].campania = documento[x].campania
                        /\ documento'[x].accion = documento[x].accion
  BY <1>0, <1>1, DocumentoFirmado
<1>3. ASSUME NEW h \in Hilos PROVE \E q : q = peticion'[h] /\ OrdenesDePeticion(q)'
  <2>1. peticion'[h] = SinPeticion BY <1>1, NadaEnCurso
  <2> QED BY <2>1, OrdenesDeNadie
<1> QED BY <1>1, <1>2, <1>3, OrdenDesdeReposo

\* A request that has done nothing yet.
LEMMA OrdenPedir ==
  ASSUME TipoInv, EnOrden, Quieto, NEW h \in Hilos, NEW regular \in BOOLEAN, NEW nueva,
         Pedir(h, regular, nueva), nueva.en \in {"guardarNueva", "limpiar", "leer"},
         nueva.op = "ordenar" => campania[nueva.campania] \in Editables
  PROVE  EnOrden'
<1>1. /\ peticion'[h] = nueva /\ \A g \in Hilos : g # h => peticion'[g] = peticion[g]
      /\ UNCHANGED <<campania, activacion, partida, orden, documento, aviso>>
  BY DEF Pedir, filas, TipoInv, PeticionesBien
<1>2. OrdenesDePeticion(nueva)'
  BY <1>1 DEF OrdenesDePeticion, ConPartidaNueva, Devolviendo
<1>3. ASSUME NEW g \in Hilos PROVE \E q : q = peticion'[g] /\ OrdenesDePeticion(q)'
  <2>1. CASE g = h BY <1>1, <1>2, <2>1
  <2>2. CASE g # h BY <1>1, <2>2, NadaEnCurso, OrdenesDeNadie
  <2> QED BY <2>1, <2>2
<1> QED BY <1>1, <1>3, OrdenDesdeReposo

LEMMA OrdenSolicitar ==
  ASSUME TipoInv, EnOrden, Quieto, NEW h \in Hilos, Solicitar(h), incidentes' = 0
  PROVE  EnOrden'
<1>0. DOMAIN SinPeticion = Campos BY SinNada
<1>1. ASSUME NEW c \in Campanias, PedirCrear(h, c) PROVE EnOrden'
  <2>1. PICK en \in {"guardarNueva", "limpiar"} :
          Pedir(h, TRUE, [SinPeticion EXCEPT !.op = "crear", !.en = en, !.campania = c])
    BY <1>1 DEF PedirCrear
  <2> DEFINE r == [SinPeticion EXCEPT !.op = "crear", !.en = en, !.campania = c]
  <2>2. r.en = en /\ r.op = "crear" BY <1>0 DEF Campos
  <2> HIDE DEF r
  <2>3. Pedir(h, TRUE, r) BY <2>1 DEF r
  <2> QED BY <2>2, <2>3, OrdenPedir
<1>2. ASSUME NEW c \in Campanias, NEW op \in {"actualizar", "quitar", "renovar", "activar"},
             PedirSobre(h, op, c)
      PROVE  EnOrden'
  <2> DEFINE r == [SinPeticion EXCEPT !.op = op, !.campania = c,
                               !.en = IF op = "activar" THEN "partida" ELSE "leer"]
  <2>1. r.op = op /\ r.en = (IF op = "activar" THEN "partida" ELSE "leer")
    BY <1>0 DEF Campos
  <2>2. Pedir(h, op # "activar", r) BY <1>2 DEF PedirSobre
  <2> HIDE DEF r
  <2>3. op # "activar"
    <3>1. Llegar(op # "activar") BY <2>2 DEF Pedir
    <3> QED BY <3>1, LlegarEnSerie
  <2> QED BY <2>1, <2>2, <2>3, OrdenPedir
<1>3. ASSUME NEW c \in Campanias, NEW a \in DOMAIN activacion, PedirCerrar(h, c, a)
      PROVE  EnOrden'
  <2> DEFINE r == [SinPeticion EXCEPT !.op = "cerrar", !.en = "leer", !.campania = c,
                               !.activacion = a]
  <2>1. r.op = "cerrar" /\ r.en = "leer" BY <1>0 DEF Campos
  <2>2. Pedir(h, a = UltimaActivacion(c), r) BY <1>3 DEF PedirCerrar
  <2> HIDE DEF r
  <2> QED BY <2>1, <2>2, OrdenPedir
<1>4. ASSUME NEW c \in Campanias, NEW accion \in Acciones, NEW d \in Envios,
             PedirFirma(h, c, accion, d)
      PROVE  EnOrden'
  <2> DEFINE r == [SinPeticion EXCEPT !.op = "firmar", !.en = "leer", !.campania = c,
                                        !.accion = accion, !.doc = d]
  <2>1. r.op = "firmar" /\ r.en = "leer" BY <1>0 DEF Campos
  <2>2. Pedir(h, TRUE, r) BY <1>4 DEF PedirFirma
  <2> HIDE DEF r
  <2> QED BY <2>1, <2>2, OrdenPedir
<1>5. ASSUME NEW c \in Campanias, NEW o \in Ordenes, NEW total \in Totales,
             PedirOrden(h, c, o, total)
      PROVE  EnOrden'
  <2> DEFINE r == [SinPeticion EXCEPT !.op = "ordenar", !.en = "leer", !.campania = c,
                               !.orden = o, !.total = total]
  <2>1. r.op = "ordenar" /\ r.en = "leer" /\ r.campania = c BY <1>0 DEF Campos
  <2>2. Pedir(h, campania[c] \in Editables, r) BY <1>5 DEF PedirOrden
  <2> HIDE DEF r
  <2>3. campania[c] \in Editables
    <3>1. Llegar(campania[c] \in Editables) /\ incidentes \in Nat
      BY <2>2, CampaniasAssumption DEF Pedir, TipoInv, CuposBien
    <3> QED BY <3>1 DEF Llegar
  <2>4. Pedir(h, TRUE, r) BY <2>2, <2>3 DEF Pedir, Llegar
  <2> QED BY <2>1, <2>3, <2>4, OrdenPedir
<1> QED BY <1>1, <1>2, <1>3, <1>4, <1>5 DEF Solicitar


\* A notification finds the orders as the request for signatures left them.
LEMMA OrdenRecibir ==
  ASSUME TipoInv, FirmaInv, EnSerie, EnOrden, Quieto, NEW e \in Avisos, Recibir(e), incidentes' = 0
  PROVE  EnOrden'
<1>1. /\ documento[Doc(e)].estatus \in {"enviado", "APROBADA"} /\ ~aviso[e].recibido
      /\ aviso' = [aviso EXCEPT ![e].recibido = TRUE, ![e].guardar = TRUE, ![e].status = "leer",
                            ![e].montos = "activacion"]
      /\ Llegar(e[2] = 1)
      /\ UNCHANGED <<campania, activacion, partida, orden, documento, peticion>>
  BY DEF Recibir, filas
<1>2. e[2] = 1
  <2>1. incidentes \in Nat BY CampaniasAssumption DEF TipoInv, CuposBien
  <2> QED BY <1>1, <2>1 DEF Llegar
<1>3. /\ SinAvisos /\ (\A h \in Hilos : peticion[h] = SinPeticion)
      /\ \A h \in Hilos : \A d : ~Guarda(h, d)
  BY NadaEnCurso
<1>4. Doc(e) \in Envios /\ documento[Doc(e)] # SinDocumento
  <2>1. Doc(e) \in Envios BY DEF Avisos, Doc
  <2>2. SinDocumento.estatus = "NO_EXISTE" BY DEF SinDocumento
  <2> QED BY <1>1, <2>1, <2>2
<1>5. PICK d0 \in Envios : d0 = Doc(e) BY <1>4
<1>6. PICK c \in Campanias : c = CampaniaDe(e)
  BY <1>4 DEF TipoInv, DocumentosBien, DocumentoBien, CampaniaDe
<1>7. PICK a : a = aviso'[e] OBVIOUS
<1>8. a.status = "leer" /\ a.montos = "activacion" /\ a.guardar /\ a.ordenes = aviso[e].ordenes
      /\ \A n \in Avisos : n # e => aviso'[n] = aviso[n]
  BY <1>1, <1>7, AvisoTipo DEF CamposDeAviso
<1>9. a.ordenes = {} BY <1>1, <1>8 DEF FirmaInv, OrdenesDelAviso
<1>10. ~Notificado(d0)
  <2> SUFFICES ASSUME NEW n \in Avisos, aviso[n].recibido, Doc(n) = d0 PROVE FALSE
    BY DEF Notificado
  <2>1. n[2] = 1 BY DEF EnSerie, AvisoSerio
  <2>2. n = e BY <1>2, <1>5, <2>1 DEF Avisos, Doc
  <2> QED BY <1>1, <2>2
<1>11. \A x \in Campanias : Asentada(x) BY <1>3, OrdenesDeNadie DEF EnOrden, SinAvisos
<1>12. PICK accion \in Acciones : accion = documento[d0].accion
  BY <1>4, <1>5 DEF TipoInv, DocumentosBien, DocumentoBien
<1>13. PorFirmar(c, accion) BY <1>5, <1>6, <1>10, <1>12 DEF PorFirmar, CampaniaDe
<1>14. \A o \in Ordenes : DeUltima(o, c) => orden[o].estatus = EstatusAntes(e)
  <2>1. Aprueba(e) <=> accion = "APPROVE" BY <1>5, <1>12 DEF Aprueba
  <2> QED BY <1>11, <1>12, <1>13, <2>1 DEF Asentada, EstatusAntes, Acciones
<1>15. /\ EstatusAntes(e)' = EstatusAntes(e) /\ CampaniaDe(e)' = c
  BY <1>1, <1>6 DEF EstatusAntes, Aprueba, CampaniaDe
<1>16. \A o \in Ordenes : DeUltima(o, CampaniaDe(e))' => DeUltima(o, c)
  <2>1. UltimaActivacion(CampaniaDe(e))' = UltimaActivacion(c)
    BY <1>1, <1>15 DEF UltimaActivacion, ActivacionesDe
  <2>2. (activacion[UltimaActivacion(CampaniaDe(e))].partida)' = activacion[UltimaActivacion(c)].partida
    BY <1>1, <2>1
  <2> QED BY <1>1, <1>15, <2>1, <2>2 DEF DeUltima, HayOrden
<1>17. AvisoAsentado(e)' BY <1>1, <1>7, <1>8, <1>9, <1>14, <1>15, <1>16 DEF AvisoAsentado
<1>18. ASSUME NEW n \in Avisos, n # e PROVE AvisoAsentado(n)'
  BY <1>3, <1>8, <1>18 DEF AvisoAsentado, SinAvisos, EnCurso
<1>19. ASSUME NEW x \in Campanias, x # c PROVE Asentada(x)'
  <2>1. MismasPartidas(x) BY <1>1, ConMismasPartidas
  <2>2. \A d \in Envios : Notificado(d) => Notificado(d)'
    <3>1. \A n \in Avisos : aviso[n].recibido => aviso'[n].recibido BY <1>1, <1>8
    <3> QED BY <3>1 DEF Notificado
  <2>3. \A ac : PorFirmar(x, ac)' => PorFirmar(x, ac) BY <1>1, <2>2 DEF PorFirmar
  <2> QED BY <1>1, <1>11, <2>1, <2>3, AsentadaSigue
<1>20. \E n \in Avisos : (EnCurso(n) /\ CampaniaDe(n) = c)'
  BY <1>7, <1>8, <1>15 DEF EnCurso
<1>21. ASSUME NEW h \in Hilos PROVE OrdenesDePeticion(peticion[h])'
  <2>1. PICK q : q = peticion'[h] OBVIOUS
  <2>2. OrdenesDePeticion(q)' BY <1>1, <1>3, <2>1, OrdenesDeNadie
  <2>3. UltimaActivacion(peticion[h].campania)' = UltimaActivacion(q.campania)'
    BY <2>1 DEF UltimaActivacion, ActivacionesDe
  <2> QED BY <2>1, <2>2, <2>3 DEF OrdenesDePeticion, ConPartidaNueva, EnMano, HayOrden
<1>22. OrdenesConPartida' BY <1>1 DEF EnOrden, OrdenesConPartida, HayOrden
<1>23. \A n \in Avisos : AvisoAsentado(n)' BY <1>17, <1>18
<1>24. ASSUME NEW x \in Campanias
       PROVE  Asentada(x)' \/ \E n \in Avisos : (EnCurso(n) /\ CampaniaDe(n) = x)'
  <2>1. CASE x = c BY <1>20, <2>1
  <2>2. CASE x # c BY <1>19, <2>2
  <2> QED BY <2>1, <2>2
<1> QED BY <1>21, <1>22, <1>23, <1>24 DEF EnOrden

LEMMA OrdenInicial ==
  ASSUME InitCampania
  PROVE  EnOrden
<1>1. /\ \A h \in Hilos : peticion[h] = SinPeticion
      /\ \A e \in Avisos : aviso[e] = SinAviso
      /\ \A d \in Envios : documento[d] = SinDocumento
      /\ campania = [c \in Campanias |-> IF c \in Existentes THEN "CREADA" ELSE "NO_EXISTE"]
  BY DEF InitCampania, CampaniasIniciales
<1>2. \A o \in Ordenes : HayOrden(o) => /\ o \in DOMAIN Pendientes /\ orden[o].partida = 1
                                        /\ orden[o].estatus = "PENDIENTE"
  BY DEF InitCampania, HayOrden
<1>3. \A e \in Avisos : ~EnCurso(e) BY <1>1 DEF EnCurso, SinAviso
<1>4. \A c \in Campanias : \A accion : ~PorFirmar(c, accion)
  BY <1>1, CampaniasAssumption DEF PorFirmar, SinDocumento
<1>5. \A c \in Campanias : Asentada(c) BY <1>1, <1>2, <1>4 DEF Asentada, DeUltima
<1>6. OrdenesConPartida
  <2> SUFFICES ASSUME NEW o \in Ordenes, HayOrden(o) PROVE 1 <= Len(partida)
    BY <1>2 DEF OrdenesConPartida
  <2> DEFINE k == Cardinality(Existentes)
  <2>1. Existentes # {} BY <1>2, CampaniasAssumption
  <2>2. k \in Nat /\ partida = [i \in 1..k |-> NuevaPartida]
    BY ActivacionesIniciales DEF InitCampania
  <2>3. k # 0 BY <2>1, CampaniasAssumption, FS_EmptySet
  <2> HIDE DEF k
  <2>4. Len(partida) = k BY <2>2
  <2> QED BY <2>2, <2>3, <2>4
<1>7. \A h \in Hilos : OrdenesDePeticion(peticion[h]) BY <1>1, OrdenesDeNadie
<1>8. \A e \in Avisos : AvisoAsentado(e) BY <1>3 DEF AvisoAsentado
<1> QED BY <1>5, <1>6, <1>7, <1>8 DEF EnOrden

LEMMA PasoOrden ==
  ASSUME TipoInv, FirmaInv, SerieInv, VigenteInv, OrdenInv, [NextCampania]_todas
  PROVE  OrdenInv'
<1> SUFFICES ASSUME incidentes' = 0 PROVE EnOrden' BY DEF OrdenInv
<1>0. EnSerie /\ EnVigor /\ EnOrden BY PasoEnSerie DEF SerieInv, VigenteInv, OrdenInv
<1>1. CASE UNCHANGED todas
  <2>1. UNCHANGED <<campania, activacion, orden, documento, aviso, peticion, partida>>
    BY <1>1 DEF todas, varsCampania, filas
  <2> QED BY <1>0, <2>1, OrdenIgual
<1>2. ASSUME NEW h \in Hilos, Solicitar(h), Quieto PROVE EnOrden'
  BY <1>0, <1>2, OrdenSolicitar
<1>3. ASSUME NEW h \in Hilos, Atender(h) PROVE EnOrden' BY <1>0, <1>3, OrdenAtender
<1>4. ASSUME NEW d \in Envios, EnviarAFirmamex(d), Quieto PROVE EnOrden'
  BY <1>0, <1>4, OrdenEnviar
<1>5. ASSUME NEW e \in Avisos, Recibir(e), Quieto PROVE EnOrden'
  BY <1>0, <1>5, OrdenRecibir
<1>6. ASSUME NEW e \in Avisos, Manejar(e) PROVE EnOrden' BY <1>0, <1>6, OrdenManejar
<1>7. ASSUME NEW k \in Cobros, NEW evento, NEW o, NEW total, PedirCobro(k, evento, o, total)
      PROVE  EnOrden'
  <2>1. UNCHANGED <<campania, activacion, orden, documento, aviso, peticion, partida>>
    BY <1>7 DEF PedirCobro, filas
  <2> QED BY <1>0, <2>1, OrdenIgual
<1>8. ASSUME NEW k \in Cobros, Cobrar(k) PROVE EnOrden' BY <1>0, <1>8, OrdenCobrar
<1> QED BY <1>1, <1>2, <1>3, <1>4, <1>5, <1>6, <1>7, <1>8, PasoEnSerie

LEMMA OrdenSiempre ==
  SpecCampania => [](TipoInv /\ FirmaInv /\ SerieInv /\ VigenteInv /\ OrdenInv)
<1> DEFINE Inv == TipoInv /\ FirmaInv /\ SerieInv
<1>1. InitCampania => VigenteInv /\ OrdenInv
  BY VigorInicial, OrdenInicial DEF VigenteInv, OrdenInv
<1>2. Inv /\ VigenteInv /\ OrdenInv /\ [NextCampania]_todas => VigenteInv' /\ OrdenInv'
  BY PasoVigente, PasoOrden
<1>3. SpecCampania => []Inv BY SerieSiempre
<1> SUFFICES SpecCampania => [](Inv /\ VigenteInv /\ OrdenInv) OBVIOUS
<1> HIDE DEF Inv
<1> QED BY <1>1, <1>2, <1>3, PTL DEF SpecCampania


\* Undisturbed and with nothing in progress, the orders of the last activation
\* of a campaign have the status that their campaign has given them.
OrdenesResueltas ==
  Tranquilo => \A c \in Campanias : \A o \in Ordenes : DeUltima(o, c) =>
    /\ campania[c] \in Editables => orden[o].estatus = "PENDIENTE"
    /\ campania[c] = "APROBADA" => orden[o].estatus = "ACTIVA"

\* With nothing overlapped, failed or irregular, an approval activates every
\* order of the last activation of its campaign and no other event does: while
\* the campaign can still be changed all of them wait, and while it is approved
\* all of them are active, through any sequence of orders, signatures, closings
\* and renewals.
THEOREM OrdenesSegunCampania == SpecCampania => []OrdenesResueltas
<1>1. ASSUME TipoInv, OrdenInv PROVE OrdenesResueltas
  <2> SUFFICES ASSUME Tranquilo, NEW c \in Campanias, NEW o \in Ordenes, DeUltima(o, c)
               PROVE  /\ campania[c] \in Editables => orden[o].estatus = "PENDIENTE"
                      /\ campania[c] = "APROBADA" => orden[o].estatus = "ACTIVA"
    BY DEF OrdenesResueltas
  <2>1. EnOrden /\ \A h \in Hilos : peticion[h] = SinPeticion
    BY <1>1, NadaEnCurso DEF Tranquilo, OrdenInv
  <2>2. \A e \in Avisos : ~EnCurso(e) BY DEF Tranquilo, Quieto
  <2>3. Asentada(c) BY <2>1, <2>2, OrdenesDeNadie DEF EnOrden
  <2> QED BY <2>3 DEF Asentada
<1>2. SpecCampania => [](TipoInv /\ FirmaInv /\ SerieInv /\ VigenteInv /\ OrdenInv)
  BY OrdenSiempre
<1> QED BY <1>1, <1>2, PTL


----
(* What the orders in a status take from a fund. *)

TomaDe(ord, o, estatus, f) ==
  IF ord[o].estatus = estatus THEN ImporteA(ord[o].cargos, f) ELSE 0
SumaEn(ord, estatus, f) ==
  SumFunctionOnSet([o \in Ordenes |-> TomaDe(ord, o, estatus, f)], Ordenes)

LEMMA TomaTipo ==
  ASSUME NEW ord \in [Ordenes -> Orden \cup {SinOrden}], NEW estatus, estatus # "NO_EXISTE",
         NEW f, NEW o \in Ordenes
  PROVE  /\ TomaDe(ord, o, estatus, f) \in Int
         /\ ord[o].estatus = estatus =>
              ord[o] \in Orden /\ TomaDe(ord, o, estatus, f) = ImporteA(ord[o].cargos, f)
         /\ ord[o].estatus # estatus => TomaDe(ord, o, estatus, f) = 0
<1>1. CASE ord[o].estatus = estatus
  <2>1. ord[o] # SinOrden BY <1>1 DEF SinOrden
  <2>2. ord[o] \in Orden BY <2>1
  <2>3. PICK cs \in Seq(Cargo) : cs = ord[o].cargos BY <2>2 DEF Orden
  <2> QED BY <1>1, <2>2, <2>3, ImporteEntero DEF TomaDe
<1>2. CASE ord[o].estatus # estatus BY <1>2 DEF TomaDe
<1> QED BY <1>1, <1>2

LEMMA SumaEnEs ==
  ASSUME NEW ord \in [Ordenes -> Orden \cup {SinOrden}], NEW estatus, estatus # "NO_EXISTE", NEW f
  PROVE  /\ SumFunctionOnSet([o \in Ordenes |-> ImporteA(ord[o].cargos, f)],
                             {o \in Ordenes : ord[o].estatus = estatus}) = SumaEn(ord, estatus, f)
         /\ SumaEn(ord, estatus, f) \in Int
<1> DEFINE T == {o \in Ordenes : ord[o].estatus = estatus}
           g == [o \in Ordenes |-> ImporteA(ord[o].cargos, f)]
           s == [o \in Ordenes |-> TomaDe(ord, o, estatus, f)]
<1>1. IsFiniteSet(Ordenes) /\ T \in SUBSET Ordenes BY CampaniasAssumption
<1>2. \A o \in T : s[o] = g[o] /\ g[o] \in Int BY TomaTipo
<1>3. \A o \in Ordenes \ T : s[o] = 0 BY TomaTipo
<1>4. \A o \in Ordenes : s[o] \in Int BY TomaTipo
<1>5. SumaEn(ord, estatus, f) = SumFunctionOnSet(s, Ordenes) BY DEF SumaEn
<1> HIDE DEF T, g, s
<1>6. SumFunctionOnSet(s, Ordenes) = SumFunctionOnSet(g, T)
  BY <1>1, <1>2, <1>3, SumaSoporte
<1>7. SumFunctionOnSet(s, Ordenes) \in Int BY <1>1, <1>4, SumaEntera
<1> QED BY <1>5, <1>6, <1>7 DEF T, g

\* One order changes, and what they take by what it takes.
LEMMA SumaEnCambia ==
  ASSUME NEW ord \in [Ordenes -> Orden \cup {SinOrden}],
         NEW sig \in [Ordenes -> Orden \cup {SinOrden}], NEW n \in Ordenes,
         \A o \in Ordenes : o # n => sig[o] = ord[o],
         NEW estatus, estatus # "NO_EXISTE", NEW f
  PROVE  SumaEn(sig, estatus, f) =
           SumaEn(ord, estatus, f) + TomaDe(sig, n, estatus, f) - TomaDe(ord, n, estatus, f)
<1> DEFINE a == [o \in Ordenes |-> TomaDe(ord, o, estatus, f)]
           b == [o \in Ordenes |-> TomaDe(sig, o, estatus, f)]
<1>1. IsFiniteSet(Ordenes) /\ \A o \in Ordenes : a[o] \in Int /\ b[o] \in Int
  BY CampaniasAssumption, TomaTipo
<1>2. \A o \in Ordenes \ {n} : b[o] = a[o] BY DEF TomaDe
<1>3. a[n] = TomaDe(ord, n, estatus, f) /\ b[n] = TomaDe(sig, n, estatus, f) OBVIOUS
<1>4. SumaEn(ord, estatus, f) = SumFunctionOnSet(a, Ordenes)
      /\ SumaEn(sig, estatus, f) = SumFunctionOnSet(b, Ordenes)
  BY DEF SumaEn
<1> HIDE DEF a, b
<1>5. SumFunctionOnSet(b, Ordenes) = SumFunctionOnSet(a, Ordenes) + b[n] - a[n]
  BY <1>1, <1>2, SumaCambio
<1> QED BY <1>3, <1>4, <1>5

\* The same of the model's sums.
LEMMA SumasTipo ==
  ASSUME OrdenesBien, NEW estatus, estatus # "NO_EXISTE", NEW f
  PROVE  SumaDe(estatus, f) = SumaEn(orden, estatus, f) /\ SumaDe(estatus, f) \in Int
<1>1. PICK ord \in [Ordenes -> Orden \cup {SinOrden}] : ord = orden BY DEF OrdenesBien
<1>2. SumaDe(estatus, f) = SumFunctionOnSet([o \in Ordenes |-> ImporteA(ord[o].cargos, f)],
                             {o \in Ordenes : ord[o].estatus = estatus})
  BY <1>1 DEF SumaDe
<1> QED BY <1>1, <1>2, SumaEnEs


----
(* The books of the contract, undisturbed: what a fund has committed and   *)
(* active is what its orders take, but for what a request has written, or  *)
(* given back, before its order is inserted, or deleted, and for what a    *)
(* handler has charged of an order before it gives it its status.          *)

\* The master, if it pays, pays first; and no charge is negative.
MaestroPrimero(cs) == \A i \in DOMAIN cs : cs[i].fondo = Maestro => i = 1
Naturales(cs) == \A i \in DOMAIN cs : cs[i].monto \in Nat
CargosLegales(cs) == MaestroPrimero(cs) /\ Naturales(cs)
OrdenesLegales(ord) == \A o \in Ordenes : ord[o] # SinOrden => CargosLegales(ord[o].cargos)

\* A fund has committed r, and active s, beside what the orders take from it.
Cuadra(fd, ord, f, r, s) ==
  /\ fd[f]["committedAmount"] = SumaEn(ord, "PENDIENTE", f) + r
  /\ fd[f]["montoActivo"] = SumaEn(ord, "ACTIVA", f) + s

Reservando == {"comprometer", "guardarOrden"}

\* What a request has written for an order that is not inserted yet, or given
\* back for one that is not deleted yet.
Adelanto(q, ord, f) ==
  IF q.en \in Reservando /\ \A i \in DOMAIN q.escrituras : q.escrituras[i].fondo # f
  THEN ImporteA(q.cargos, f)
  ELSE IF q.en \in Devolviendo
  THEN ImporteA(q.cargos, f) - ImporteA(ord[q.orden].cargos, f)
  ELSE 0

\* What it holds is what its next writes need.
ManosDe(q, fd, ord) ==
  /\ q.en \in Reservando => CargosLegales(q.cargos)
  /\ q.en = "comprometer" =>
       /\ Distintos(q.escrituras)
       /\ \A i \in DOMAIN q.escrituras :
            LET f == q.escrituras[i].fondo
            IN  /\ q.escrituras[i].valor = SumaEn(ord, "PENDIENTE", f) + ImporteA(q.cargos, f)
                /\ q.escrituras[i].valor \in Int
                /\ q.escrituras[i].valor <= fd[f]["montoDisponible"]
  /\ q.en = "guardarOrden" => q.escrituras = <<>>
  /\ q.en \in {"devolver", "modificatorio"} => CargosLegales(q.cargos)
  /\ q.en = "devolver" => q.leido = fd[Head(q.cargos).fondo]["committedAmount"]
  /\ q.en = "modificatorio" => Head(q.cargos).fondo # Maestro
  /\ q.en = "borrarOrden" => q.cargos = <<>>
  /\ q.en \in Devolviendo => q.orden \in Ordenes

LibrosDe(q, fd, ord) ==
  ManosDe(q, fd, ord) /\ \A f \in Fondos : Cuadra(fd, ord, f, Adelanto(q, ord, f), 0)

\* What the handler of e has charged of the order that it is at ...
Aplicado(e, f) ==
  IF aviso[e].montos = "cargos"
  THEN ImporteA(orden[aviso[e].orden].cargos, f) - Pendiente(e, f) ELSE 0

CuadraAviso(e, f) ==
  IF Aprueba(e) THEN Cuadra(fondo, orden, f, - Aplicado(e, f), Aplicado(e, f))
  ELSE Cuadra(fondo, orden, f, 0, - Aplicado(e, f))

\* ... and what it charges.
EventoDe(e) == IF Aprueba(e) THEN "ORDER_APPROVED" ELSE "ORDER_CANCELLED"
CargandoBien(e) ==
  paso[e] # "libre" =>
    llamada[e].evento = EventoDe(e) /\ Naturales(llamada[e].cargos) /\ LeidoAlDia(e)

ConOrden(e) == aviso[e].montos = "cargos" => aviso[e].orden \in Ordenes

LibrosDeAviso(e) == CargandoBien(e) /\ ConOrden(e) /\ \A f \in Fondos : CuadraAviso(e, f)

EnLibros ==
  /\ Solvente(fondo) /\ OrdenesLegales(orden)
  /\ SinAvisos /\ (\A h \in Hilos : peticion[h].en = "libre") =>
       \A f \in Fondos : Cuadra(fondo, orden, f, 0, 0)
  /\ \A h \in Hilos : peticion[h].en # "libre" => LibrosDe(peticion[h], fondo, orden)
  /\ \A e \in Avisos : EnCurso(e) => LibrosDeAviso(e)

LibroInv == incidentes = 0 => EnLibros

\* A request that has written nothing yet.
LEMMA LibrosSinEscribir ==
  ASSUME NEW q, q.en \notin Reservando \cup Devolviendo, NEW fd, NEW ord
  PROVE  LibrosDe(q, fd, ord) <=> \A f \in Fondos : Cuadra(fd, ord, f, 0, 0)
BY DEF LibrosDe, ManosDe, Adelanto, Reservando, Devolviendo

LEMMA LibrosDeNadie ==
  ASSUME NEW fd, NEW ord
  PROVE  LibrosDe(SinPeticion, fd, ord) <=> \A f \in Fondos : Cuadra(fd, ord, f, 0, 0)
BY SinNada, LibrosSinEscribir DEF Reservando, Devolviendo

\* What a request finds ...
LEMMA LibroAntes ==
  ASSUME TipoInv, EnSerie, EnLibros, NEW h \in Hilos, Atender(h)
  PROVE  /\ LibrosDe(peticion[h], fondo, orden) /\ Solvente(fondo) /\ OrdenesLegales(orden)
         /\ peticion[h].en \notin Reservando \cup Devolviendo =>
              \A f \in Fondos : Cuadra(fondo, orden, f, 0, 0)
<1>1. LibrosDe(peticion[h], fondo, orden) /\ Solvente(fondo) /\ OrdenesLegales(orden)
  BY SigueAtender DEF EnLibros
<1> QED BY <1>1, LibrosSinEscribir

\* ... and what it leaves once one of its queries was answered.
LEMMA LibroDePeticion ==
  ASSUME TipoInv, EnSerie, NEW h \in Hilos, Atender(h), NEW r, peticion'[h] = r,
         Solvente(fondo'), OrdenesLegales(orden'), LibrosDe(r, fondo', orden')
  PROVE  EnLibros'
<1>1. SinAvisos /\ UNCHANGED aviso /\ \A g \in Hilos : g # h => peticion'[g] = SinPeticion
  BY SoloAtender
<1>2. \A e \in Avisos : ~EnCurso(e)' BY <1>1 DEF SinAvisos, EnCurso
<1>3. \A g \in Hilos : peticion'[g].en # "libre" => g = h BY <1>1, SinNada
<1>4. r.en = "libre" => \A f \in Fondos : Cuadra(fondo', orden', f, 0, 0)
  BY LibrosSinEscribir DEF Reservando, Devolviendo
<1>5. (\A g \in Hilos : peticion'[g].en = "libre") => r.en = "libre" OBVIOUS
<1> QED BY <1>2, <1>3, <1>4, <1>5 DEF EnLibros

\* After a query that neither reads nor writes the books.
LEMMA LibroLectura ==
  ASSUME TipoInv, EnSerie, EnLibros, NEW h \in Hilos, Atender(h), UNCHANGED <<fondo, orden>>,
         peticion[h].en \notin Reservando \cup Devolviendo,
         peticion'[h].en \notin Reservando \cup Devolviendo
  PROVE  EnLibros'
<1>1. PICK r : r = peticion'[h] OBVIOUS
<1>2. Solvente(fondo) /\ OrdenesLegales(orden) /\ \A f \in Fondos : Cuadra(fondo, orden, f, 0, 0)
  BY LibroAntes
<1>3. LibrosDe(r, fondo, orden) BY <1>1, <1>2, LibrosSinEscribir
<1> QED BY <1>1, <1>2, <1>3, LibroDePeticion

\* What the handlers of a notification find ...
LEMMA LibroAntesDeAviso ==
  ASSUME TipoInv, FirmaInv, EnSerie, EnLibros, NEW e \in Avisos, Manejar(e)
  PROVE  LibrosDeAviso(e) /\ Solvente(fondo) /\ OrdenesLegales(orden)
<1>1. EnCurso(e) BY EscribeManejar DEF FirmaInv
<1> QED BY <1>1 DEF EnLibros

\* ... and what they leave.
LEMMA LibroDeAviso ==
  ASSUME TipoInv, FirmaInv, EnSerie, NEW e \in Avisos, Manejar(e),
         Solvente(fondo'), OrdenesLegales(orden'), LibrosDeAviso(e)'
  PROVE  EnLibros'
<1>1. /\ UNCHANGED peticion /\ \A h \in Hilos : peticion[h] = SinPeticion
      /\ \A n \in Avisos : n # e => aviso'[n] = aviso[n]
  BY SoloManejar
<1>2. \A h \in Hilos : peticion'[h].en = "libre" BY <1>1, SinNada
<1>3. EnCurso(e) /\ (\A n \in Avisos : n # e => ~EnCurso(n))
  <2>1. EnCurso(e) BY EscribeManejar DEF FirmaInv
  <2> QED BY <2>1 DEF EnSerie, Solo, SinAvisos
<1>4. \A n \in Avisos : EnCurso(n)' => n = e BY <1>1, <1>3 DEF EnCurso
<1>5. ASSUME SinAvisos' PROVE \A f \in Fondos : Cuadra(fondo', orden', f, 0, 0)
  <2>1. ~EnCurso(e)' BY <1>5 DEF SinAvisos
  <2>2. aviso'[e].montos = "no" BY <2>1 DEF EnCurso
  <2>3. \A f : Aplicado(e, f)' = 0 BY <2>2 DEF Aplicado
  <2> QED BY <2>3 DEF LibrosDeAviso, CuadraAviso, Cuadra
<1> QED BY <1>2, <1>4, <1>5 DEF EnLibros


----
(* Requests that leave the books alone. *)

LEMMA LibroOtras ==
  ASSUME TipoInv, EnSerie, EnLibros, NEW h \in Hilos, Atender(h),
         \/ GuardarNueva(h) \/ GuardarPartida(h) \/ ApagarActivaciones(h) \/ Numerar(h)
         \/ GuardarActivacion(h) \/ LeerPorLimpiar(h) \/ LeerCampania(h) \/ BorrarCampania(h)
         \/ LeerUltima(h) \/ GuardarDocumento(h) \/ GuardarCampania(h) \/ LeerActivacion(h)
         \/ BajaActivacion(h) \/ BajaPartida(h) \/ BuscarPendientes(h) \/ LeerParaOrden(h)
  PROVE  EnLibros'
<1>0. /\ DOMAIN peticion = Hilos /\ DOMAIN peticion[h] = Campos /\ "en" \in Campos
      /\ EnSuSitio(peticion[h], Len(activacion)) /\ SinPeticion.en = "libre"
  BY SoloAtender, SinNada DEF Campos
<1>1. ASSUME Responder(h) PROVE peticion'[h].en = "libre" BY <1>0, <1>1 DEF Responder
<1>2. ASSUME NEW x, Seguir(h, x) PROVE peticion'[h].en = x BY <1>0, <1>2 DEF Seguir
<1>3. ASSUME Rechazar(h) PROVE peticion'[h].en \in {"libre", "limpiar"}
  BY <1>1, <1>2, <1>3 DEF Rechazar
<1>4. UNCHANGED fondo /\ UNCHANGED orden
      /\ peticion[h].en \notin Reservando \cup Devolviendo
      /\ peticion'[h].en \notin Reservando \cup Devolviendo
  <2>1. CASE GuardarNueva(h) BY <1>2, <2>1 DEF GuardarNueva, vars, Reservando, Devolviendo
  <2>2. CASE GuardarPartida(h)
    <3>1. peticion'[h].en \in {"activaciones", "numerar"} BY <1>0, <2>2 DEF GuardarPartida
    <3> QED BY <2>2, <3>1 DEF GuardarPartida, vars, Reservando, Devolviendo
  <2>3. CASE ApagarActivaciones(h)
    <3>1. peticion'[h].en = "guardar" BY <1>0, <2>3 DEF ApagarActivaciones
    <3> QED BY <2>3, <3>1 DEF ApagarActivaciones, vars, Reservando, Devolviendo
  <2>4. CASE Numerar(h)
    <3>1. peticion'[h].en \in {"guardarActivacion", "libre", "limpiar"}
      BY <1>0, <1>3, <2>4 DEF Numerar
    <3> QED BY <2>4, <3>1 DEF Numerar, vars, filas, Reservando, Devolviendo
  <2>5. CASE GuardarActivacion(h)
    <3>1. peticion'[h].en \in {"libre", "limpiar"}
      BY <1>1, <1>3, <2>5 DEF GuardarActivacion
    <3> QED BY <2>5, <3>1 DEF GuardarActivacion, vars, Reservando, Devolviendo
  <2>6. CASE LeerPorLimpiar(h)
    <3>1. \/ Responder(h)
          \/ \E c : peticion' = [peticion EXCEPT ![h].en = "borrar", ![h].campania = c]
      BY <2>6 DEF LeerPorLimpiar
    <3>2. peticion'[h].en \in {"libre", "borrar"} BY <1>0, <1>1, <3>1
    <3> QED BY <2>6, <3>2 DEF LeerPorLimpiar, vars, filas, Reservando, Devolviendo
  <2>7. CASE LeerCampania(h)
    <3>1. peticion[h].op \in {"actualizar", "quitar", "renovar", "cerrar", "firmar"}
      BY <1>0, <2>7 DEF LeerCampania, EnSuSitio
    <3>2. TrasLeerFila[peticion[h].op] \in {"borrar", "partida", "guardar", "ultima"}
      BY <3>1 DEF TrasLeerFila
    <3>3. \/ Responder(h)
          \/ \E x : peticion' = [peticion EXCEPT ![h].en = TrasLeerFila[peticion[h].op], ![h].fila = x]
      BY <2>7 DEF LeerCampania
    <3>4. peticion'[h].en \in {"libre", "borrar", "partida", "guardar", "ultima"}
      BY <1>0, <1>1, <3>2, <3>3
    <3> QED BY <2>7, <3>4 DEF LeerCampania, vars, filas, Reservando, Devolviendo
  <2>8. CASE BorrarCampania(h)
    BY <1>1, <2>8 DEF BorrarCampania, vars, Reservando, Devolviendo
  <2>9. CASE LeerUltima(h)
    <3>1. peticion'[h].en \in {"libre", "documento"} BY <1>0, <1>1, <2>9 DEF LeerUltima
    <3> QED BY <2>9, <3>1 DEF LeerUltima, vars, filas, Reservando, Devolviendo
  <2>10. CASE GuardarDocumento(h)
    BY <1>2, <2>10 DEF GuardarDocumento, vars, Reservando, Devolviendo
  <2>11. CASE GuardarCampania(h)
    <3>1. TrasGuardada(peticion[h].op, peticion[h].en) \in {"numerar", "desactivar", "otraVez", "libre"}
      BY DEF TrasGuardada
    <3>2. peticion'[h].en \in {"numerar", "desactivar", "otraVez", "libre"}
      BY <1>1, <1>2, <2>11, <3>1 DEF GuardarCampania
    <3> QED BY <2>11, <3>2 DEF GuardarCampania, vars, Reservando, Devolviendo
  <2>12. CASE LeerActivacion(h)
    <3>1. peticion'[h].en \in {"libre", "baja"} BY <1>0, <1>1, <2>12 DEF LeerActivacion
    <3> QED BY <2>12, <3>1 DEF LeerActivacion, vars, filas, Reservando, Devolviendo
  <2>13. CASE BajaActivacion(h)
    BY <1>2, <2>13 DEF BajaActivacion, vars, Reservando, Devolviendo
  <2>14. CASE BajaPartida(h)
    <3>1. peticion'[h].en \in {"libre", "buscar"} BY <1>1, <1>2, <2>14 DEF BajaPartida
    <3> QED BY <2>14, <3>1 DEF BajaPartida, vars, Reservando, Devolviendo
  <2>15. CASE BuscarPendientes(h)
    <3>1. \E x : peticion' = [peticion EXCEPT ![h].en = "maestro", ![h].ordenes = x]
      BY <2>15 DEF BuscarPendientes
    <3>2. peticion'[h].en = "maestro" BY <1>0, <3>1
    <3> QED BY <2>15, <3>2 DEF BuscarPendientes, vars, filas, Reservando, Devolviendo
  <2>16. CASE LeerParaOrden(h)
    <3>1. \/ Responder(h)
          \/ \E p : peticion' = [peticion EXCEPT ![h].en = "fondos", ![h].partida = p]
      BY <2>16 DEF LeerParaOrden
    <3>2. peticion'[h].en \in {"libre", "fondos"} BY <1>0, <1>1, <3>1
    <3> QED BY <2>16, <3>2 DEF LeerParaOrden, vars, filas, Reservando, Devolviendo
  <2> QED BY <2>1, <2>2, <2>3, <2>4, <2>5, <2>6, <2>7, <2>8, <2>9, <2>10, <2>11, <2>12, <2>13,
             <2>14, <2>15, <2>16
<1>5. UNCHANGED <<fondo, orden>> BY <1>4
<1> QED BY <1>4, <1>5, LibroLectura


----
(* Requests that give back what the orders of a closed activation took. *)

\* The next charge to give back.
LEMMA DevolverEs ==
  ASSUME NEW cs \in Seq(Cargo), cs # <<>>
  PROVE  /\ Head(cs).fondo = Maestro => Devolver(cs) = "devolver"
         /\ Head(cs).fondo # Maestro => Devolver(cs) = "modificatorio"
BY DEF Devolver

LEMMA LibroLeerMaestro ==
  ASSUME TipoInv, EnSerie, EnOrden, EnLibros, NEW h \in Hilos, LeerMaestroDeOrden(h)
  PROVE  EnLibros'
<1> DEFINE q == peticion[h]
<1>0. Atender(h) BY DEF Atender
<1>1. q.en = "maestro" /\ UNCHANGED <<fondo, orden>>
  BY DEF LeerMaestroDeOrden, filas, vars
<1>2. /\ DOMAIN q = Campos /\ DOMAIN peticion = Hilos
      /\ \A x \in q.ordenes : EnMano(x, "PENDIENTE") /\ ParBien(x)
  <2>1. OrdenesDePeticion(q) BY <1>0, OrdenAntes
  <2> QED BY <1>0, <1>1, <2>1, SoloAtender DEF OrdenesDePeticion, PeticionBien
<1>3. Solvente(fondo) /\ OrdenesLegales(orden) /\ \A f \in Fondos : Cuadra(fondo, orden, f, 0, 0)
  BY <1>0, <1>1, LibroAntes DEF Reservando, Devolviendo
<1>4. PICK r : r = peticion'[h] OBVIOUS
<1>5. LibrosDe(r, fondo, orden)
  <2>1. CASE Responder(h)
    <3>1. r = SinPeticion BY <1>2, <1>4, <2>1 DEF Responder
    <3> QED BY <1>3, <3>1, LibrosDeNadie
  <2>2. CASE ~Responder(h)
    <3>1. PICK x \in q.ordenes :
             peticion' = [peticion EXCEPT ![h].en = Devolver(CargosDevueltos(x[2])),
                     ![h].ordenes = @ \ {x}, ![h].orden = x[1],
                     ![h].cargos = CargosDevueltos(x[2]),
                     ![h].leido = fondo[Maestro]["committedAmount"]]
      BY <2>2 DEF LeerMaestroDeOrden
    <3>2. PICK o \in Ordenes : o = x[1] BY <1>2 DEF ParBien
    <3>3. PICK cs \in Seq(Cargo) : cs = x[2] /\ cs # <<>> BY <1>2 DEF ParBien
    <3>4. /\ r.en = Devolver(cs) /\ r.orden = o /\ r.cargos = cs
          /\ r.leido = fondo[Maestro]["committedAmount"]
      BY <1>2, <1>4, <3>1, <3>2, <3>3 DEF Campos, CargosDevueltos
    <3>5. HayOrden(o) /\ cs = orden[o].cargos BY <1>2, <3>2, <3>3 DEF EnMano
    <3>6. CargosLegales(cs) BY <1>3, <3>5 DEF OrdenesLegales, HayOrden
    <3>7. ManosDe(r, fondo, orden)
      BY <3>3, <3>4, <3>6, DevolverEs DEF ManosDe, Reservando, Devolviendo
    <3>8. \A f \in Fondos : Adelanto(r, orden, f) = 0
      BY <3>3, <3>4, <3>5, DevolverEs, ImporteEntero DEF Adelanto, Reservando, Devolviendo
    <3> QED BY <1>3, <3>7, <3>8 DEF LibrosDe
  <2> QED BY <2>1, <2>2
<1> QED BY <1>0, <1>1, <1>3, <1>4, <1>5, LibroDePeticion

\* The committed amount of an amendment.
LEMMA LibroLeerModificatorio ==
  ASSUME TipoInv, EnSerie, EnLibros, NEW h \in Hilos, LeerModificatorioDeOrden(h)
  PROVE  EnLibros'
<1> DEFINE q == peticion[h]
<1>0. Atender(h) BY DEF Atender
<1>1. q.en = "modificatorio" /\ UNCHANGED <<fondo, orden>>
  BY DEF LeerModificatorioDeOrden, filas, vars
<1>2. /\ DOMAIN q = Campos /\ DOMAIN peticion = Hilos
      /\ LibrosDe(q, fondo, orden) /\ Solvente(fondo) /\ OrdenesLegales(orden)
  BY <1>0, LibroAntes, SoloAtender
<1>3. PICK r : r = peticion'[h] OBVIOUS
<1>4. /\ r.en = "devolver" /\ r.orden = q.orden /\ r.cargos = q.cargos
      /\ r.leido = fondo[Head(q.cargos).fondo]["committedAmount"]
  BY <1>2, <1>3 DEF LeerModificatorioDeOrden, Campos
<1>5. ManosDe(r, fondo, orden)
  BY <1>1, <1>2, <1>4 DEF LibrosDe, ManosDe, Reservando, Devolviendo
<1>6. \A f \in Fondos : Adelanto(r, orden, f) = Adelanto(q, orden, f)
  BY <1>1, <1>4 DEF Adelanto, Reservando, Devolviendo
<1>7. LibrosDe(r, fondo, orden) BY <1>2, <1>5, <1>6 DEF LibrosDe
<1> QED BY <1>0, <1>1, <1>2, <1>3, <1>7, LibroDePeticion

\* The charges that are left, once the first one was given back.
LEMMA ColaLegal ==
  ASSUME NEW cs \in Seq(Cargo), cs # <<>>, CargosLegales(cs)
  PROVE  /\ Head(cs).fondo \in Fondos /\ Head(cs).monto \in Nat /\ Tail(cs) \in Seq(Cargo)
         /\ CargosLegales(Tail(cs))
         /\ Tail(cs) # <<>> => Head(Tail(cs)).fondo # Maestro
<1>1. /\ DOMAIN cs = 1..Len(cs) /\ Len(cs) \in Nat \ {0} /\ Head(cs) = cs[1]
      /\ \A i \in DOMAIN cs : cs[i] \in Cargo
  OBVIOUS
<1>2. PICK resto \in Seq(Cargo) : resto = Tail(cs)
  <2>1. Tail(cs) \in Seq(Cargo) OBVIOUS
  <2> QED BY <2>1
<1>3. /\ DOMAIN resto = 1..(Len(cs) - 1)
      /\ \A i \in DOMAIN resto : resto[i] = cs[i + 1]
  BY <1>2
<1>4. 1 \in DOMAIN cs BY <1>1
<1>5. ASSUME NEW i \in DOMAIN resto
      PROVE  resto[i].fondo # Maestro /\ resto[i].monto \in Nat
  <2>1. i \in Nat /\ i >= 1 /\ i + 1 \in DOMAIN cs /\ i + 1 # 1 BY <1>1, <1>3
  <2>2. cs[i + 1].fondo # Maestro /\ cs[i + 1].monto \in Nat
    BY <2>1 DEF CargosLegales, MaestroPrimero, Naturales
  <2> QED BY <1>3, <2>2
<1>6. CargosLegales(resto) BY <1>5 DEF CargosLegales, MaestroPrimero, Naturales
<1>7. cs[1].fondo \in Fondos /\ cs[1].monto \in Nat
  BY <1>1, <1>4 DEF CargosLegales, Naturales, Cargo
<1>8. ASSUME resto # <<>> PROVE Head(resto).fondo # Maestro
  <2>1. 1 \in DOMAIN resto /\ Head(resto) = resto[1] BY <1>8
  <2> QED BY <1>5, <2>1
<1> QED BY <1>1, <1>2, <1>6, <1>7, <1>8

\* A charge is given back: its fund has that much less committed.
LEMMA LibroDevolverCargo ==
  ASSUME TipoInv, EnSerie, EnOrden, EnLibros, NEW h \in Hilos, DevolverCargo(h), Centavo = 1
  PROVE  EnLibros'
<1> DEFINE q == peticion[h]
<1>0. Atender(h) BY DEF Atender
<1>1. q.en = "devolver" /\ UNCHANGED orden BY DEF DevolverCargo, filas
<1>2. /\ DOMAIN q = Campos /\ DOMAIN peticion = Hilos
      /\ LibrosDe(q, fondo, orden) /\ Solvente(fondo) /\ OrdenesLegales(orden)
      /\ OrdenesDePeticion(q)
  BY <1>0, LibroAntes, SoloAtender, OrdenAntes
<1>3. PICK cs \in Seq(Cargo) : cs = q.cargos /\ cs # <<>>
  BY <1>0, <1>1, SoloAtender DEF PeticionBien, EnSuSitio
<1>4. CargosLegales(cs) /\ q.leido = fondo[Head(cs).fondo]["committedAmount"] /\ q.orden \in Ordenes
  BY <1>1, <1>2, <1>3 DEF LibrosDe, ManosDe, Devolviendo
<1>5. PICK resto \in Seq(Cargo) : resto = Tail(cs) /\ CargosLegales(resto)
                                  /\ (resto # <<>> => Head(resto).fondo # Maestro)
  BY <1>3, <1>4, ColaLegal
<1>6. PICK x \in Fondos : x = Head(cs).fondo BY <1>3, <1>4, ColaLegal
<1>7. PICK m \in Nat : m = Head(cs).monto BY <1>3, <1>4, ColaLegal
<1>8. PICK v \in Int : v = fondo[x]["committedAmount"] BY <1>2 DEF Solvente
<1>9. Redondear(Menos(v, m)) = v - m
  <2>1. v - m \in Int /\ v # NaN /\ m # NaN /\ v - m # NaN BY NaNAssumption
  <2>2. EsCentavo(v - m) BY <2>1 DEF EsCentavo
  <2> QED BY <2>1, <2>2, RedondeoEntero DEF Redondear, Menos
<1>10. fondo' = [fondo EXCEPT ![x]["committedAmount"] = v - m]
  BY <1>3, <1>4, <1>6, <1>7, <1>8, <1>9 DEF DevolverCargo, EscribirComprometido
<1>11. /\ fondo'[x]["committedAmount"] = v - m
       /\ \A f \in Fondos : f # x => fondo'[f] = fondo[f]
       /\ \A f \in Fondos : /\ fondo'[f]["montoDisponible"] = fondo[f]["montoDisponible"]
                            /\ fondo[f]["montoDisponible"] \in Int
                            /\ fondo'[f]["montoActivo"] = fondo[f]["montoActivo"]
  BY <1>10 DEF TipoInv, TypeOK, FundRow, FundColumns, ServiceColumns
<1>12. PICK r : r = peticion'[h] OBVIOUS
<1>13. r.en = Devolver(resto) /\ r.cargos = resto /\ r.orden = q.orden
  BY <1>2, <1>3, <1>5, <1>12 DEF DevolverCargo, Campos
<1>14. r.en \in {"borrarOrden", "modificatorio"} /\ (r.en = "borrarOrden" => resto = <<>>)
       /\ (r.en = "modificatorio" => Head(resto).fondo # Maestro)
  BY <1>5, <1>13 DEF Devolver
<1>15. ManosDe(r, fondo', orden') BY <1>4, <1>5, <1>13, <1>14 DEF ManosDe, Reservando
<1>16. ASSUME NEW f \in Fondos PROVE Cuadra(fondo', orden', f, Adelanto(r, orden', f), 0)
  <2>1. PICK k : k = ImporteA(orden[q.orden].cargos, f) OBVIOUS
  <2>2. k \in Int
    <3>1. HayOrden(q.orden) BY <1>1, <1>2 DEF OrdenesDePeticion, Devolviendo
    <3>2. PICK c \in Seq(Cargo) : c = orden[q.orden].cargos
      BY <1>4, <3>1 DEF TipoInv, OrdenesBien, HayOrden, Orden
    <3> QED BY <2>1, <3>2, ImporteEntero
  <2>3. PICK a \in Int : a = ImporteA(cs, f) BY ImporteEntero
  <2>4. PICK b \in Int : b = ImporteA(resto, f) BY ImporteEntero
  <2>5. a = (IF x = f THEN m ELSE 0) + b
    BY <1>3, <1>5, <1>6, <1>7, <2>3, <2>4, ImporteDeCola
  <2>6. Adelanto(q, orden, f) = a - k /\ Adelanto(r, orden', f) = b - k
    BY <1>1, <1>3, <1>13, <1>14, <2>1, <2>3, <2>4 DEF Adelanto, Reservando, Devolviendo
  <2>7. PICK s \in Int : s = SumaEn(orden, "PENDIENTE", f)
    BY SumaEnEs DEF TipoInv, OrdenesBien
  <2>8. fondo[f]["committedAmount"] = s + (a - k)
        /\ fondo[f]["montoActivo"] = SumaEn(orden, "ACTIVA", f) + 0
    BY <1>2, <2>6, <2>7 DEF LibrosDe, Cuadra
  <2>9. fondo'[f]["committedAmount"] = s + (b - k)
    <3>1. CASE f = x BY <1>8, <1>11, <2>2, <2>5, <2>8, <3>1
    <3>2. CASE f # x BY <1>11, <2>5, <2>8, <3>2
    <3> QED BY <3>1, <3>2
  <2> QED BY <1>1, <1>11, <2>6, <2>7, <2>8, <2>9 DEF Cuadra
<1>17. Solvente(fondo')
  <2> SUFFICES ASSUME NEW f \in Fondos
               PROVE  /\ fondo'[f]["committedAmount"] \in Int
                      /\ fondo'[f]["committedAmount"] <= fondo'[f]["montoDisponible"]
    BY DEF Solvente
  <2>1. CASE f = x
    <3>1. PICK d \in Int : d = fondo[x]["montoDisponible"] BY <1>11
    <3>2. v <= d BY <1>2, <1>8, <3>1 DEF Solvente
    <3> QED BY <1>11, <2>1, <3>1, <3>2
  <2>2. CASE f # x BY <1>2, <1>11, <2>2 DEF Solvente
  <2> QED BY <2>1, <2>2
<1>18. LibrosDe(r, fondo', orden') BY <1>15, <1>16 DEF LibrosDe
<1> QED BY <1>0, <1>1, <1>2, <1>12, <1>17, <1>18, LibroDePeticion

\* The order goes, that had been given back whole.
LEMMA LibroBorrarOrden ==
  ASSUME TipoInv, EnSerie, EnOrden, EnLibros, NEW h \in Hilos, BorrarOrden(h)
  PROVE  EnLibros'
<1> DEFINE q == peticion[h]
<1>0. Atender(h) BY DEF Atender
<1>1. q.en = "borrarOrden" /\ UNCHANGED fondo /\ peticion' = [peticion EXCEPT ![h].en = "maestro"]
      /\ orden' = [orden EXCEPT ![q.orden] = SinOrden]
  BY DEF BorrarOrden, Seguir, vars
<1>2. /\ DOMAIN q = Campos /\ DOMAIN peticion = Hilos
      /\ LibrosDe(q, fondo, orden) /\ Solvente(fondo) /\ OrdenesLegales(orden)
      /\ OrdenesDePeticion(q)
  BY <1>0, LibroAntes, SoloAtender, OrdenAntes
<1>3. PICK n \in Ordenes : n = q.orden BY <1>1, <1>2 DEF LibrosDe, ManosDe, Devolviendo
<1>4. q.cargos = <<>> BY <1>1, <1>2 DEF LibrosDe, ManosDe
<1>5. PICK ord \in [Ordenes -> Orden \cup {SinOrden}] : ord = orden
  BY DEF TipoInv, OrdenesBien
<1>6. ord[n].estatus = "PENDIENTE"
  BY <1>1, <1>2, <1>3, <1>5 DEF OrdenesDePeticion, Devolviendo
<1>7. PICK sig \in [Ordenes -> Orden \cup {SinOrden}] : sig = [ord EXCEPT ![n] = SinOrden]
  OBVIOUS
<1>8. /\ orden' = sig /\ sig[n] = SinOrden /\ \A o \in Ordenes : o # n => sig[o] = ord[o]
      /\ sig[n].estatus = "NO_EXISTE"
  BY <1>1, <1>3, <1>5, <1>7 DEF SinOrden
<1>9. PICK r : r = peticion'[h] OBVIOUS
<1>10. r.en = "maestro" BY <1>1, <1>2, <1>9 DEF Campos
<1>11. ASSUME NEW f \in Fondos PROVE Cuadra(fondo, sig, f, 0, 0)
  <2>1. PICK s \in Int : s = SumaEn(ord, "PENDIENTE", f) BY SumaEnEs
  <2>2. PICK t \in Int : t = SumaEn(ord, "ACTIVA", f) BY SumaEnEs
  <2>3. PICK k \in Int : k = ImporteA(ord[n].cargos, f) BY <1>6, TomaTipo
  <2>4. /\ TomaDe(ord, n, "PENDIENTE", f) = k /\ TomaDe(sig, n, "PENDIENTE", f) = 0
        /\ TomaDe(ord, n, "ACTIVA", f) = 0 /\ TomaDe(sig, n, "ACTIVA", f) = 0
    BY <1>6, <1>8, <2>3 DEF TomaDe
  <2>5. SumaEn(sig, "PENDIENTE", f) = s + 0 - k BY <1>8, <2>1, <2>4, SumaEnCambia
  <2>6. SumaEn(sig, "ACTIVA", f) = t + 0 - 0 BY <1>8, <2>2, <2>4, SumaEnCambia
  <2>7. Adelanto(q, ord, f) = 0 - k
    BY <1>1, <1>3, <1>4, <2>3, ImporteNulo DEF Adelanto, Reservando, Devolviendo
  <2>8. fondo[f]["committedAmount"] = s + (0 - k) /\ fondo[f]["montoActivo"] = t + 0
    BY <1>2, <1>5, <2>1, <2>2, <2>7 DEF LibrosDe, Cuadra
  <2> QED BY <2>5, <2>6, <2>8 DEF Cuadra
<1>12. OrdenesLegales(orden') BY <1>2, <1>5, <1>8 DEF OrdenesLegales
<1>13. LibrosDe(r, fondo', orden')
  <2>1. \A f \in Fondos : Cuadra(fondo', orden', f, 0, 0) BY <1>1, <1>8, <1>11
  <2> QED BY <1>10, <2>1, LibrosSinEscribir DEF Reservando, Devolviendo
<1> QED BY <1>0, <1>1, <1>2, <1>9, <1>12, <1>13, LibroDePeticion


----
(* Requests that reserve an order and then insert it. *)

\* The order that create will save takes from every fund what its plan says.
LEMMA CargosDelPlanEs ==
  ASSUME NEW total \in Nat \ {0}, NEW plan, PlanBien(plan, total, Fondos), PlanCubierto(plan)
  PROVE  CargosDelPlan(plan, total) = plan.usos /\ CargosLegales(plan.usos)
<1> DEFINE cs == plan.usos
<1>1. cs \in Seq(Cargo) /\ plan.resto = 0 /\ cs # <<>> /\ Distintos(cs)
      /\ (Len(cs) = 1 => plan.resto = total - cs[1].monto)
  <2>1. plan.resto \in 0..total BY DEF PlanBien
  <2>2. plan.resto = 0 BY <2>1 DEF PlanCubierto
  <2> QED BY <2>2 DEF PlanBien
<1>2. CargosLegales(cs)
  <2>1. \A k \in DOMAIN cs : (cs[k].fondo = Maestro => k = 1) /\ cs[k].monto \in 1..total
    BY DEF PlanBien
  <2> QED BY <2>1 DEF CargosLegales, MaestroPrimero, Naturales
<1>3. CASE \E i \in DOMAIN cs : cs[i].fondo # Maestro
  BY <1>1, <1>2, <1>3 DEF CargosDelPlan, Desglose
<1>4. CASE \A i \in DOMAIN cs : cs[i].fondo = Maestro
  <2>1. CargosDelPlan(plan, total) = <<[fondo |-> Maestro, monto |-> total]>>
    BY <1>4 DEF CargosDelPlan, Desglose
  <2>2. PICK n \in Nat : n = Len(cs) /\ n # 0 /\ DOMAIN cs = 1..n BY <1>1
  <2>3. n = 1
    <3>1. \A i \in 1..n : i = 1 BY <1>4, <2>2 DEF PlanBien
    <3> HIDE DEF cs
    <3>2. n \in 1..n BY <2>2
    <3> QED BY <3>1, <3>2
  <2>4. cs[1] \in Cargo /\ cs[1].fondo = Maestro BY <1>1, <1>4, <2>2, <2>3
  <2>5. cs[1].monto = total
    <3>1. cs[1].monto \in Int /\ 0 = total - cs[1].monto
      BY <1>1, <2>2, <2>3, <2>4 DEF Cargo
    <3> QED BY <3>1
  <2>6. cs[1] = [fondo |-> Maestro, monto |-> total] BY <2>4, <2>5 DEF Cargo
  <2>7. cs = <<cs[1]>> BY <1>1, <2>2, <2>3
  <2> QED BY <1>2, <2>1, <2>6, <2>7
<1> QED BY <1>3, <1>4

\* The request reads what the funds have and plans what it will write.
LEMMA LibroLeerFondos ==
  ASSUME TipoInv, EnSerie, EnLibros, NEW h \in Hilos, LeerFondos(h)
  PROVE  EnLibros'
<1> DEFINE q == peticion[h]
           total == q.total
           plan == PlanDeFondos(fondo, Maestro, Extensiones, total)
<1>0. Atender(h) BY DEF Atender
<1>1. q.en = "fondos" /\ UNCHANGED <<fondo, orden>> BY DEF LeerFondos, filas, vars
<1>2. /\ DOMAIN q = Campos /\ DOMAIN peticion = Hilos /\ total \in Nat \ {0}
      /\ fondo \in [Fondos -> FundRow]
  BY <1>0, <1>1, SoloAtender, CampaniasAssumption DEF EnSuSitio, TipoInv, TypeOK
<1>3. Solvente(fondo) /\ OrdenesLegales(orden) /\ \A f \in Fondos : Cuadra(fondo, orden, f, 0, 0)
  BY <1>0, <1>1, LibroAntes DEF Reservando, Devolviendo
<1>4. PlanBien(plan, total, Fondos) /\ PlanExacto(plan, fondo)
  <2>1. PICK x \in Nat \ {0} : x = total BY <1>2
  <2> HIDE DEF total
  <2>2. PlanBien(PlanDeFondos(fondo, Maestro, Extensiones, x), x, Fondos)
        /\ (Solvente(fondo) => PlanExacto(PlanDeFondos(fondo, Maestro, Extensiones, x), fondo))
    BY <1>2, PlanDeFondosBien, CampaniasAssumption
  <2> QED BY <1>3, <2>1, <2>2
<1>5. PICK r : r = peticion'[h] OBVIOUS
<1>6. LibrosDe(r, fondo, orden)
  <2>1. CASE Responder(h)
    <3>1. r = SinPeticion BY <1>2, <1>5, <2>1 DEF Responder
    <3> QED BY <1>3, <3>1, LibrosDeNadie
  <2>2. CASE ~Responder(h)
    <3>1. PlanCubierto(plan)
          /\ peticion' = [peticion EXCEPT ![h].en = "comprometer",
               ![h].cargos = CargosDelPlan(plan, total), ![h].escrituras = plan.escrituras]
      BY <2>2 DEF LeerFondos
    <3>2. CargosDelPlan(plan, total) = plan.usos /\ CargosLegales(plan.usos)
      <4> HIDE DEF total, plan
      <4> QED BY <1>2, <1>4, <3>1, CargosDelPlanEs
    <3>3. r.en = "comprometer" /\ r.cargos = plan.usos /\ r.escrituras = plan.escrituras
      BY <1>2, <1>5, <3>1, <3>2 DEF Campos
    <3>4. plan.usos \in Seq(Cargo) /\ plan.escrituras \in Seq(Escritura)
          /\ Len(plan.escrituras) = Len(plan.usos) /\ Distintos(plan.usos)
      BY <1>4 DEF PlanBien, PlanExacto
    <3>5. PICK cs \in Seq(Cargo) : cs = plan.usos BY <3>4
    <3>6. PICK es \in Seq(Escritura) : es = plan.escrituras BY <3>4
    <3>7. DOMAIN es = DOMAIN cs /\ Distintos(cs) BY <3>4, <3>5, <3>6
    <3>8. ASSUME NEW k \in DOMAIN cs
          PROVE  /\ cs[k].fondo \in Fondos /\ es[k].fondo = cs[k].fondo
                 /\ es[k].valor = SumaEn(orden, "PENDIENTE", cs[k].fondo) + ImporteA(cs, cs[k].fondo)
                 /\ es[k].valor \in Int
                 /\ es[k].valor <= fondo[cs[k].fondo]["montoDisponible"]
      <4>1. PICK f \in Fondos : f = cs[k].fondo BY <1>4, <3>5 DEF PlanBien
      <4>2. PICK m \in Int : m = cs[k].monto BY IndicesDeCargos
      <4>3. ImporteA(cs, f) = m BY <3>7, <4>1, <4>2, ImporteDeCargo
      <4>4. PICK v \in Int : v = fondo[f]["committedAmount"] BY <1>3 DEF Solvente
      <4>5. PICK s \in Int : s = SumaEn(orden, "PENDIENTE", f)
        BY SumaEnEs DEF TipoInv, OrdenesBien
      <4>6. v = s BY <1>3, <4>4, <4>5 DEF Cuadra
      <4>7. es[k] = [fondo |-> f, valor |-> v + m] /\ v + m <= fondo[f]["montoDisponible"]
        BY <1>4, <3>5, <3>6, <4>1, <4>2, <4>4 DEF PlanExacto
      <4> QED BY <4>1, <4>3, <4>5, <4>6, <4>7
    <3>9. Distintos(es) BY <3>7, <3>8 DEF Distintos
    <3>10. ManosDe(r, fondo, orden)
      <4>1. \A i \in DOMAIN es :
               /\ es[i].valor = SumaEn(orden, "PENDIENTE", es[i].fondo) + ImporteA(cs, es[i].fondo)
               /\ es[i].valor \in Int
               /\ es[i].valor <= fondo[es[i].fondo]["montoDisponible"]
        BY <3>7, <3>8
      <4> HIDE DEF total, plan
      <4> QED BY <3>2, <3>3, <3>5, <3>6, <3>9, <4>1 DEF ManosDe, Devolviendo
    <3>11. \A f \in Fondos : Adelanto(r, orden, f) = 0
      <4> SUFFICES ASSUME NEW f \in Fondos PROVE Adelanto(r, orden, f) = 0 OBVIOUS
      <4> HIDE DEF total, plan
      <4>1. CASE \A i \in DOMAIN es : es[i].fondo # f
        <5>1. \A i \in DOMAIN cs : cs[i].fondo # f BY <3>7, <3>8, <4>1
        <5>2. ImporteA(cs, f) = 0 BY <5>1, ImporteAjeno
        <5> QED BY <3>3, <3>5, <3>6, <4>1, <5>2 DEF Adelanto, Reservando
      <4>2. CASE ~ \A i \in DOMAIN es : es[i].fondo # f
        BY <3>3, <3>6, <4>2 DEF Adelanto, Devolviendo
      <4> QED BY <4>1, <4>2
    <3> QED BY <1>3, <3>10, <3>11 DEF LibrosDe
  <2> QED BY <2>1, <2>2
<1> QED BY <1>0, <1>1, <1>3, <1>5, <1>6, LibroDePeticion

\* It writes a committed amount: that fund is ahead of the orders.
LEMMA LibroEscribirReserva ==
  ASSUME TipoInv, EnSerie, EnLibros, NEW h \in Hilos, EscribirReserva(h)
  PROVE  EnLibros'
<1> DEFINE q == peticion[h]
<1>0. Atender(h) BY DEF Atender
<1>1. q.en = "comprometer" /\ UNCHANGED orden BY DEF EscribirReserva, filas
<1>2. /\ DOMAIN q = Campos /\ DOMAIN peticion = Hilos
      /\ LibrosDe(q, fondo, orden) /\ Solvente(fondo) /\ OrdenesLegales(orden)
  BY <1>0, LibroAntes, SoloAtender
<1>3. PICK es \in Seq(Escritura) : es = q.escrituras /\ es # <<>>
  BY <1>0, <1>1, SoloAtender DEF PeticionBien, EnSuSitio
<1>4. PICK cs \in Seq(Cargo) : cs = q.cargos BY <1>0, SoloAtender DEF PeticionBien
<1>5. CargosLegales(cs) /\ Distintos(es)
      /\ \A i \in DOMAIN es :
           /\ es[i].valor = SumaEn(orden, "PENDIENTE", es[i].fondo) + ImporteA(cs, es[i].fondo)
           /\ es[i].valor \in Int
           /\ es[i].valor <= fondo[es[i].fondo]["montoDisponible"]
  BY <1>1, <1>2, <1>3, <1>4 DEF LibrosDe, ManosDe, Reservando
<1>6. PICK resto : /\ resto = Tail(es) /\ Distintos(resto) /\ Head(es) = es[1] /\ 1 \in DOMAIN es
                   /\ Head(es).fondo \in Fondos
                   /\ \A i \in DOMAIN resto : /\ resto[i].fondo # Head(es).fondo
                                              /\ \E j \in DOMAIN es : resto[i] = es[j]
                   /\ \A f : f # Head(es).fondo =>
                        ((\A i \in DOMAIN resto : resto[i].fondo # f)
                         <=> \A i \in DOMAIN es : es[i].fondo # f)
  <2>1. /\ Distintos(Tail(es)) /\ Head(es) = es[1] /\ 1 \in DOMAIN es
        /\ Head(es).fondo \in Fondos
        /\ \A i \in DOMAIN Tail(es) : /\ Tail(es)[i].fondo # Head(es).fondo
                                      /\ \E j \in DOMAIN es : Tail(es)[i] = es[j]
        /\ \A f : f # Head(es).fondo =>
             ((\A i \in DOMAIN Tail(es) : Tail(es)[i].fondo # f)
              <=> \A i \in DOMAIN es : es[i].fondo # f)
    BY <1>3, <1>5, EscrituraDeCola
  <2> QED BY <2>1
<1>7. PICK x \in Fondos : x = Head(es).fondo BY <1>6
<1>8. PICK v \in Int : v = Head(es).valor BY <1>5, <1>6
<1>9. v = SumaEn(orden, "PENDIENTE", x) + ImporteA(cs, x) /\ v <= fondo[x]["montoDisponible"]
  BY <1>5, <1>6, <1>7, <1>8
<1>10. fondo' = [fondo EXCEPT ![x]["committedAmount"] = v]
  BY <1>3, <1>7, <1>8 DEF EscribirReserva, EscribirComprometido
<1>11. /\ fondo'[x]["committedAmount"] = v
       /\ \A f \in Fondos : f # x => fondo'[f] = fondo[f]
       /\ \A f \in Fondos : /\ fondo'[f]["montoDisponible"] = fondo[f]["montoDisponible"]
                            /\ fondo'[f]["montoActivo"] = fondo[f]["montoActivo"]
  BY <1>10 DEF TipoInv, TypeOK, FundRow, FundColumns, ServiceColumns
<1>12. PICK r : r = peticion'[h] OBVIOUS
<1>13. /\ r.en = (IF resto = <<>> THEN "guardarOrden" ELSE "comprometer")
       /\ r.cargos = cs /\ r.escrituras = resto /\ r.orden = q.orden
  BY <1>2, <1>3, <1>4, <1>6, <1>12 DEF EscribirReserva, Campos
<1>14. r.en \in Reservando /\ (r.en = "guardarOrden" => resto = <<>>)
  BY <1>13 DEF Reservando
<1>15. ASSUME NEW i \in DOMAIN resto
       PROVE  /\ resto[i].valor = SumaEn(orden, "PENDIENTE", resto[i].fondo)
                                    + ImporteA(cs, resto[i].fondo)
              /\ resto[i].valor \in Int
              /\ resto[i].valor <= fondo'[resto[i].fondo]["montoDisponible"]
  <2>1. PICK j \in DOMAIN es : resto[i] = es[j] BY <1>6
  <2>2. es[j] \in Escritura OBVIOUS
  <2>3. es[j].fondo \in Fondos BY <2>2 DEF Escritura
  <2> QED BY <1>5, <1>11, <2>1, <2>3
<1>16. ManosDe(r, fondo', orden')
  BY <1>1, <1>5, <1>6, <1>13, <1>14, <1>15 DEF ManosDe, Reservando, Devolviendo
<1>17. ASSUME NEW f \in Fondos PROVE Cuadra(fondo', orden', f, Adelanto(r, orden', f), 0)
  <2>1. fondo[f]["committedAmount"] = SumaEn(orden, "PENDIENTE", f) + Adelanto(q, orden, f)
        /\ fondo[f]["montoActivo"] = SumaEn(orden, "ACTIVA", f) + 0
    BY <1>2 DEF LibrosDe, Cuadra
  <2>2. fondo'[f]["montoActivo"] = SumaEn(orden, "ACTIVA", f) + 0 BY <1>11, <2>1
  <2>3. CASE f = x
    <3>1. \A i \in DOMAIN resto : resto[i].fondo # f BY <1>6, <1>7, <2>3
    <3>2. Adelanto(r, orden', f) = ImporteA(cs, f) BY <1>13, <1>14, <3>1 DEF Adelanto
    <3> QED BY <1>1, <1>9, <1>11, <2>2, <2>3, <3>2 DEF Cuadra
  <2>4. CASE f # x
    <3>1. (\A i \in DOMAIN resto : resto[i].fondo # f) <=> \A i \in DOMAIN es : es[i].fondo # f
      BY <1>6, <1>7, <2>4
    <3>2. Adelanto(r, orden', f) = Adelanto(q, orden, f)
      BY <1>1, <1>3, <1>4, <1>13, <1>14, <3>1 DEF Adelanto, Reservando, Devolviendo
    <3> QED BY <1>1, <1>11, <2>1, <2>4, <3>2 DEF Cuadra
  <2> QED BY <2>3, <2>4
<1>18. Solvente(fondo')
  <2> SUFFICES ASSUME NEW f \in Fondos
               PROVE  /\ fondo'[f]["committedAmount"] \in Int
                      /\ fondo'[f]["committedAmount"] <= fondo'[f]["montoDisponible"]
    BY DEF Solvente
  <2>1. CASE f = x BY <1>8, <1>9, <1>11, <2>1
  <2>2. CASE f # x BY <1>2, <1>11, <2>2 DEF Solvente
  <2> QED BY <2>1, <2>2
<1>19. LibrosDe(r, fondo', orden') BY <1>16, <1>17 DEF LibrosDe
<1> QED BY <1>0, <1>1, <1>2, <1>12, <1>18, <1>19, LibroDePeticion

\* The order is inserted: what was reserved is what it takes.
LEMMA LibroGuardarOrden ==
  ASSUME TipoInv, FirmaInv, EnSerie, EnOrden, EnLibros, NEW h \in Hilos, GuardarOrden(h)
  PROVE  EnLibros'
<1> DEFINE q == peticion[h]
<1>0. Atender(h) BY DEF Atender
<1>1. q.en = "guardarOrden" /\ UNCHANGED fondo BY DEF GuardarOrden, vars
<1>2. /\ DOMAIN q = Campos /\ DOMAIN peticion = Hilos
      /\ LibrosDe(q, fondo, orden) /\ Solvente(fondo) /\ OrdenesLegales(orden)
      /\ OrdenesDePeticion(q) /\ q.partida \in 0..Len(partida)
  BY <1>0, LibroAntes, SoloAtender, OrdenAntes DEF PeticionBien
<1>3. q.op = "ordenar" /\ peticion'[h] = SinPeticion BY GuardarOrdenEs
<1>4. PICK n \in Ordenes : n = q.orden BY GuardarOrdenEs
<1>5. ~HayOrden(n) BY <1>3, <1>4 DEF FirmaInv, OrdenesAparte
<1>6. PICK cs \in Seq(Cargo) : cs = q.cargos BY <1>0, SoloAtender DEF PeticionBien
<1>7. CargosLegales(cs) /\ q.escrituras = <<>>
  BY <1>1, <1>2, <1>6 DEF LibrosDe, ManosDe, Reservando
<1>8. Existe(q.campania) /\ (q.partida # 0 => HayPartida(q.partida))
  <2>1. campania[q.campania] \in Editables BY <1>2, <1>3 DEF OrdenesDePeticion
  <2>2. partida \in Seq(Partida) BY DEF TipoInv, PartidasBien
  <2>3. q.partida # 0 => q.partida \in DOMAIN partida BY <1>2, <2>2
  <2> QED BY <2>1, <2>3 DEF Existe, Editables, CAMPAIGN_STATUS, HayPartida, EnSerie
<1>9. PICK ord \in [Ordenes -> Orden \cup {SinOrden}] : ord = orden
  BY DEF TipoInv, OrdenesBien
<1>10. PICK sig : sig = orden' OBVIOUS
<1>11. /\ sig[n].estatus = "PENDIENTE" /\ sig[n].cargos = cs
       /\ \A o \in Ordenes : o # n => sig[o] = ord[o]
  BY <1>4, <1>6, <1>8, <1>9, <1>10 DEF GuardarOrden
<1>12. sig \in [Ordenes -> Orden \cup {SinOrden}]
  <2>1. TipoInv' BY <1>0, AtenderTipo
  <2> QED BY <1>10, <2>1 DEF TipoInv, OrdenesBien
<1>13. ASSUME NEW f \in Fondos PROVE Cuadra(fondo, sig, f, 0, 0)
  <2>1. PICK s \in Int : s = SumaEn(ord, "PENDIENTE", f) BY SumaEnEs
  <2>2. PICK t \in Int : t = SumaEn(ord, "ACTIVA", f) BY SumaEnEs
  <2>3. PICK k \in Int : k = ImporteA(cs, f) BY ImporteEntero
  <2>4. ord[n].estatus = "NO_EXISTE" BY <1>5, <1>9 DEF HayOrden, SinOrden
  <2>5. /\ TomaDe(ord, n, "PENDIENTE", f) = 0 /\ TomaDe(sig, n, "PENDIENTE", f) = k
        /\ TomaDe(ord, n, "ACTIVA", f) = 0 /\ TomaDe(sig, n, "ACTIVA", f) = 0
    BY <1>11, <2>3, <2>4 DEF TomaDe
  <2>6. SumaEn(sig, "PENDIENTE", f) = s + k - 0 BY <1>11, <1>12, <2>1, <2>5, SumaEnCambia
  <2>7. SumaEn(sig, "ACTIVA", f) = t + 0 - 0 BY <1>11, <1>12, <2>2, <2>5, SumaEnCambia
  <2>8. Adelanto(q, ord, f) = k BY <1>1, <1>6, <1>7, <2>3 DEF Adelanto, Reservando
  <2>9. fondo[f]["committedAmount"] = s + k /\ fondo[f]["montoActivo"] = t + 0
    BY <1>2, <1>9, <2>1, <2>2, <2>8 DEF LibrosDe, Cuadra
  <2> QED BY <2>6, <2>7, <2>9 DEF Cuadra
<1>14. OrdenesLegales(orden') BY <1>2, <1>7, <1>9, <1>10, <1>11 DEF OrdenesLegales
<1>15. LibrosDe(SinPeticion, fondo', orden')
  <2>1. \A f \in Fondos : Cuadra(fondo', orden', f, 0, 0) BY <1>1, <1>10, <1>13
  <2> QED BY <2>1, LibrosDeNadie
<1>16. PICK r : r = SinPeticion OBVIOUS
<1>17. peticion'[h] = r /\ LibrosDe(r, fondo', orden') BY <1>3, <1>15, <1>16
<1> QED BY <1>0, <1>1, <1>2, <1>14, <1>17, LibroDePeticion

LEMMA LibroAtender ==
  ASSUME TipoInv, FirmaInv, EnSerie, EnOrden, EnLibros, NEW h \in Hilos, Atender(h), Centavo = 1
  PROVE  EnLibros'
<1>1. CASE \/ LeerMaestroDeOrden(h) \/ LeerModificatorioDeOrden(h) \/ DevolverCargo(h)
           \/ BorrarOrden(h)
  BY <1>1, LibroLeerMaestro, LibroLeerModificatorio, LibroDevolverCargo, LibroBorrarOrden
<1>2. CASE LeerFondos(h) \/ EscribirReserva(h) \/ GuardarOrden(h)
  BY <1>2, LibroLeerFondos, LibroEscribirReserva, LibroGuardarOrden
<1>3. CASE \/ GuardarNueva(h) \/ GuardarPartida(h) \/ ApagarActivaciones(h) \/ Numerar(h)
           \/ GuardarActivacion(h) \/ LeerPorLimpiar(h) \/ LeerCampania(h) \/ BorrarCampania(h)
           \/ LeerUltima(h) \/ GuardarDocumento(h) \/ GuardarCampania(h) \/ LeerActivacion(h)
           \/ BajaActivacion(h) \/ BajaPartida(h) \/ BuscarPendientes(h) \/ LeerParaOrden(h)
  BY <1>3, LibroOtras
<1> QED BY <1>1, <1>2, <1>3 DEF Atender


----
(* The handlers charge one order after another. *)

LEMMA ApruebaIgual ==
  ASSUME TipoInv, FirmaInv, NEW e \in Avisos, Manejar(e)
  PROVE  (Aprueba(e)' <=> Aprueba(e)) /\ EventoDe(e)' = EventoDe(e)
<1>1. Duran /\ documento[Doc(e)] # SinDocumento /\ Doc(e) \in Envios
  <2>1. EnCurso(e) /\ Duran BY EscribeManejar, DuranManejar DEF FirmaInv
  <2> QED BY <2>1, AvisoTipo
<1>2. Aprueba(e)' <=> Aprueba(e) BY <1>1 DEF Duran, Aprueba
<1> QED BY <1>2 DEF EventoDe

\* After a step that leaves the books and what was charged of them as they were.
LEMMA LibroAvisoIgual ==
  ASSUME TipoInv, FirmaInv, EnSerie, EnLibros, NEW e \in Avisos, Manejar(e),
         UNCHANGED vars, UNCHANGED orden, ConOrden(e)',
         \A f \in Fondos : Aplicado(e, f)' = Aplicado(e, f)
  PROVE  EnLibros'
<1>1. LibrosDeAviso(e) /\ Solvente(fondo) /\ OrdenesLegales(orden) BY LibroAntesDeAviso
<1>2. (Aprueba(e)' <=> Aprueba(e)) /\ EventoDe(e)' = EventoDe(e) BY ApruebaIgual
<1>3. UNCHANGED <<fondo, orden, paso, llamada, visto>> BY DEF vars
<1>4. CargandoBien(e)'
  BY <1>1, <1>2, <1>3 DEF LibrosDeAviso, CargandoBien, LeidoAlDia, CargoDe
<1>5. \A f \in Fondos : CuadraAviso(e, f)'
  <2> SUFFICES ASSUME NEW f \in Fondos PROVE CuadraAviso(e, f)' OBVIOUS
  <2>1. CuadraAviso(e, f) BY <1>1 DEF LibrosDeAviso
  <2>2. Aplicado(e, f)' = Aplicado(e, f) OBVIOUS
  <2> QED BY <1>2, <1>3, <2>1, <2>2 DEF CuadraAviso, Cuadra
<1>6. Solvente(fondo') /\ OrdenesLegales(orden') BY <1>1, <1>3
<1> QED BY <1>4, <1>5, <1>6, LibroDeAviso DEF LibrosDeAviso

LEMMA LibroAvisoOtras ==
  ASSUME TipoInv, FirmaInv, EnSerie, EnLibros, NEW e \in Avisos,
         \/ GuardarFirma(e) \/ LeerStatus(e) \/ EscribirStatus(e) \/ FecharActivacion(e)
         \/ LeerActivacionDeAviso(e) \/ LeerOrdenes(e)
         \/ (CargarOrden(e) /\ aviso[e].ordenes = {})
  PROVE  EnLibros'
<1>0. Manejar(e) BY DEF Manejar
<1>1. DOMAIN aviso = Avisos /\ DOMAIN aviso[e] = CamposDeAviso BY AvisoTipo
<1>2. CASE GuardarFirma(e) \/ LeerStatus(e) \/ EscribirStatus(e) \/ FecharActivacion(e)
  <2>1. UNCHANGED vars /\ UNCHANGED orden
    BY <1>2 DEF GuardarFirma, LeerStatus, EscribirStatus, FecharActivacion, filas
  <2>2. aviso'[e].montos = aviso[e].montos /\ aviso'[e].orden = aviso[e].orden
    <3>1. CASE GuardarFirma(e) BY <1>1, <3>1 DEF GuardarFirma, CamposDeAviso
    <3>2. CASE LeerStatus(e) BY <1>1, <3>2 DEF LeerStatus, CamposDeAviso
    <3>3. CASE EscribirStatus(e) BY <1>1, <3>3 DEF EscribirStatus, CamposDeAviso
    <3>4. CASE FecharActivacion(e) BY <1>1, <3>4 DEF FecharActivacion, CamposDeAviso
    <3> QED BY <1>2, <3>1, <3>2, <3>3, <3>4
  <2>3. \A f \in Fondos : Aplicado(e, f)' = Aplicado(e, f)
    BY <2>1, <2>2 DEF Aplicado, Pendiente, vars
  <2>4. ConOrden(e) BY <1>0, LibroAntesDeAviso DEF LibrosDeAviso
  <2>5. ConOrden(e)' BY <2>2, <2>4 DEF ConOrden
  <2> QED BY <1>0, <2>1, <2>3, <2>5, LibroAvisoIgual
<1>3. CASE LeerActivacionDeAviso(e) \/ LeerOrdenes(e) \/ (CargarOrden(e) /\ aviso[e].ordenes = {})
  <2>1. UNCHANGED vars /\ UNCHANGED orden
    BY <1>3 DEF LeerActivacionDeAviso, LeerOrdenes, CargarOrden, filas
  <2>2. aviso[e].montos # "cargos" /\ aviso'[e].montos # "cargos"
    <3>1. CASE LeerActivacionDeAviso(e)
      BY <1>1, <3>1 DEF LeerActivacionDeAviso, CamposDeAviso
    <3>2. CASE LeerOrdenes(e) BY <1>1, <3>2 DEF LeerOrdenes, CamposDeAviso
    <3>3. CASE CargarOrden(e) /\ aviso[e].ordenes = {}
      BY <1>1, <3>3 DEF CargarOrden, CamposDeAviso
    <3> QED BY <1>3, <3>1, <3>2, <3>3
  <2>3. \A f \in Fondos : Aplicado(e, f)' = Aplicado(e, f) BY <2>2 DEF Aplicado
  <2>4. ConOrden(e)' BY <2>2 DEF ConOrden
  <2> QED BY <1>0, <2>1, <2>3, <2>4, LibroAvisoIgual
<1> QED BY <1>2, <1>3

\* The next order: all of it is still to be charged.
LEMMA LibroCargarOrden ==
  ASSUME TipoInv, FirmaInv, EnSerie, EnOrden, EnLibros, NEW e \in Avisos, CargarOrden(e),
         aviso[e].ordenes # {}
  PROVE  EnLibros'
<1>0. Manejar(e) BY DEF Manejar
<1>1. DOMAIN aviso = Avisos /\ DOMAIN aviso[e] = CamposDeAviso
      /\ AvisoBien(aviso[e], Len(activacion), Len(partida))
  BY AvisoTipo
<1>2. LibrosDeAviso(e) /\ Solvente(fondo) /\ OrdenesLegales(orden)
  BY <1>0, LibroAntesDeAviso
<1>3. (Aprueba(e)' <=> Aprueba(e)) /\ EventoDe(e)' = EventoDe(e) BY <1>0, ApruebaIgual
<1>4. AvisoAsentado(e) /\ EnCurso(e) BY <1>0, OrdenAviso
<1>5. aviso[e].montos = "siguiente" /\ UNCHANGED orden BY DEF CargarOrden, filas
<1>6. PICK x \in aviso[e].ordenes :
        /\ Arrancar(e, [evento |-> EventoDe(e), servicio |-> Servicio, cargos |-> x[2]])
        /\ aviso' = [aviso EXCEPT ![e].montos = "cargos", ![e].ordenes = @ \ {x},
                                  ![e].orden = x[1]]
  BY DEF CargarOrden, EventoDe
<1>7. PICK o \in Ordenes : o = x[1] BY <1>1 DEF AvisoBien, ParBien
<1>8. PICK cs \in Seq(Cargo) : cs = x[2] /\ cs # <<>> BY <1>1 DEF AvisoBien, ParBien
<1>9. HayOrden(o) /\ cs = orden[o].cargos
  <2>1. EnMano(x, EstatusAntes(e)) BY <1>4 DEF AvisoAsentado
  <2> QED BY <1>7, <1>8, <2>1 DEF EnMano
<1>10. CargosLegales(cs) BY <1>2, <1>9 DEF OrdenesLegales, HayOrden
<1>11. PICK ll : ll = [evento |-> EventoDe(e), servicio |-> Servicio, cargos |-> cs]
  OBVIOUS
<1>12. /\ UNCHANGED <<fondo, contrato, visto>> /\ paso[e] = "libre" /\ paso'[e] = "leer"
       /\ llamada'[e] = ll
  <2>1. e \in Tareas /\ DOMAIN paso = Tareas /\ DOMAIN llamada = Tareas
    BY CampaniasAssumption DEF TipoInv, TypeOK
  <2> QED BY <1>6, <1>8, <1>11, <2>1 DEF Arrancar
<1>13. ll.evento = EventoDe(e) /\ ll.cargos = cs BY <1>11
<1>14. aviso'[e].montos = "cargos" /\ aviso'[e].orden = o
  BY <1>1, <1>6, <1>7 DEF CamposDeAviso
<1>15. CargandoBien(e)'
  BY <1>3, <1>10, <1>12, <1>13 DEF CargandoBien, LeidoAlDia, CargosLegales
<1>16. \A f \in Fondos : CuadraAviso(e, f)'
  <2> SUFFICES ASSUME NEW f \in Fondos PROVE CuadraAviso(e, f)' OBVIOUS
  <2>1. Aplicado(e, f) = 0 BY <1>5 DEF Aplicado
  <2>2. PICK k \in Int : k = ImporteA(cs, f) BY ImporteEntero
  <2>3. Pendiente(e, f)' = k BY <1>12, <1>13, <2>2 DEF Pendiente
  <2>4. ImporteA(orden'[o].cargos, f) = k BY <1>5, <1>9, <2>2
  <2>5. Aplicado(e, f)' = k - k BY <1>14, <2>3, <2>4 DEF Aplicado
  <2>6. CuadraAviso(e, f) BY <1>2 DEF LibrosDeAviso
  <2>7. Aplicado(e, f)' = 0 BY <2>2, <2>5
  <2> QED BY <1>3, <1>5, <1>12, <2>1, <2>6, <2>7 DEF CuadraAviso, Cuadra
<1>17. Solvente(fondo') /\ OrdenesLegales(orden') BY <1>2, <1>5, <1>12
<1>18. ConOrden(e)' BY <1>14 DEF ConOrden
<1> QED BY <1>0, <1>15, <1>16, <1>17, <1>18, LibroDeAviso DEF LibrosDeAviso

\* The ledger moves: what is no longer to be charged was charged.
LEMMA LibroAvanzar ==
  ASSUME TipoInv, FirmaInv, EnSerie, EnOrden, EnLibros, NEW e \in Avisos, AvanzarLibro(e), Centavo = 1
  PROVE  EnLibros'
<1>0. Manejar(e) BY DEF Manejar
<1>1. /\ Avanzar(e) /\ UNCHANGED orden /\ UNCHANGED aviso
  BY DEF AvanzarLibro, varsCampania, filas
<1>2. LibrosDeAviso(e) /\ Solvente(fondo) /\ OrdenesLegales(orden)
  BY <1>0, LibroAntesDeAviso
<1>3. (Aprueba(e)' <=> Aprueba(e)) /\ EventoDe(e)' = EventoDe(e) BY <1>0, ApruebaIgual
<1>4. TypeOK /\ TypeOK' /\ e \in Tareas
  <2>1. TipoInv' BY <1>0, ManejarTipo
  <2> QED BY <2>1, CampaniasAssumption DEF TipoInv
<1>5. paso[e] # "libre"
  <2>1. CASE paso[e] = "libre"
    BY <1>1, <2>1 DEF Avanzar, LeerMaestro, LeerContratos, LeerModificatorio, EscribirContrato,
                      EscribirFondo
  <2> QED BY <2>1
<1>6. /\ llamada[e].evento = EventoDe(e) /\ LeidoAlDia(e)
      /\ \A i \in DOMAIN llamada[e].cargos : llamada[e].cargos[i].monto \in Nat
  BY <1>2, <1>5 DEF LibrosDeAviso, CargandoBien, Naturales
<1>7. /\ LeidoAlDia(e)' /\ (paso'[e] # "libre" => llamada'[e].evento = llamada[e].evento)
  BY <1>1, <1>4, <1>6, AvanzarSolo
<1>8. /\ \A f : Pendiente(e, f) - Pendiente(e, f)' \in Nat
      /\ paso'[e] # "libre" =>
           \A i \in DOMAIN llamada'[e].cargos : llamada'[e].cargos[i].monto \in Nat
  BY <1>1, <1>4, <1>6, AvanzarNatural
<1>9. llamada[e].evento \in TYPE_EVENT_ORDER /\ (llamada[e].evento = "ORDER_APPROVED" <=> Aprueba(e))
  BY <1>6 DEF EventoDe, TYPE_EVENT_ORDER
<1>10. \A f \in Fondos : fondo[f]["committedAmount"] \in Int BY <1>2 DEF Solvente
<1>11. CargandoBien(e)' BY <1>3, <1>6, <1>7, <1>8 DEF CargandoBien, Naturales
<1>12. aviso[e].montos = "cargos" BY <1>5 DEF FirmaInv, LibroEnCurso
<1>13. PICK o \in Ordenes : o = aviso[e].orden BY <1>2, <1>12 DEF LibrosDeAviso, ConOrden
<1>14. HayOrden(o)
  <2>1. AvisoAsentado(e) /\ EnCurso(e) BY <1>0, OrdenAviso
  <2> QED BY <1>12, <1>13, <2>1 DEF AvisoAsentado
<1>15. ASSUME NEW f \in Fondos
       PROVE  /\ CuadraAviso(e, f)'
              /\ fondo'[f]["committedAmount"] \in Int
              /\ fondo'[f]["committedAmount"] <= fondo'[f]["montoDisponible"]
  <2>1. PICK p \in Int : p = Pendiente(e, f) BY <1>4, PendienteEnteros
  <2>2. PICK n \in Int : n = Pendiente(e, f)' BY <1>4, PendienteEnteros
  <2>3. p - n \in Nat BY <1>8, <2>1, <2>2
  <2>4. PICK k \in Int : k = ImporteA(orden[o].cargos, f)
    <3>1. PICK cs \in Seq(Cargo) : cs = orden[o].cargos
      BY <1>14 DEF TipoInv, OrdenesBien, HayOrden, Orden
    <3> QED BY <3>1, ImporteEntero
  <2>5. Aplicado(e, f) = k - p /\ Aplicado(e, f)' = k - n
    BY <1>1, <1>12, <1>13, <2>1, <2>2, <2>4 DEF Aplicado
  <2>6. PICK s \in Int : s = SumaEn(orden, "PENDIENTE", f)
    BY SumaEnEs DEF TipoInv, OrdenesBien
  <2>7. PICK t \in Int : t = SumaEn(orden, "ACTIVA", f)
    BY SumaEnEs DEF TipoInv, OrdenesBien
  <2>8. CuadraAviso(e, f) BY <1>2 DEF LibrosDeAviso
  <2>9. PICK d \in Int : d = fondo[f]["montoDisponible"]
    BY <1>4 DEF TypeOK, FundRow, FundColumns, ServiceColumns
  <2>10. fondo[f]["committedAmount"] <= d BY <1>2, <2>9 DEF Solvente
  <2>11. CASE Aprueba(e)
    <3>1. fondo[f]["committedAmount"] = s + (- (k - p)) /\ fondo[f]["montoActivo"] = t + (k - p)
      BY <2>5, <2>6, <2>7, <2>8, <2>11 DEF CuadraAviso, Cuadra
    <3>2. /\ fondo'[f]["committedAmount"] = fondo[f]["committedAmount"] - (p - n)
          /\ fondo'[f]["montoActivo"] = fondo[f]["montoActivo"] + (p - n)
          /\ fondo'[f]["montoDisponible"] = d - (p - n)
      BY <1>1, <1>4, <1>6, <1>9, <1>10, <2>1, <2>2, <2>9, <2>11, AvanzarOrden
    <3>3. fondo'[f]["committedAmount"] = s + (- (k - n)) /\ fondo'[f]["montoActivo"] = t + (k - n)
      BY <3>1, <3>2
    <3>4. CuadraAviso(e, f)'
      BY <1>1, <1>3, <2>5, <2>6, <2>7, <2>11, <3>3 DEF CuadraAviso, Cuadra
    <3> QED BY <2>3, <2>10, <3>1, <3>2, <3>3, <3>4
  <2>12. CASE ~Aprueba(e)
    <3>1. fondo[f]["committedAmount"] = s + 0 /\ fondo[f]["montoActivo"] = t + (- (k - p))
      BY <2>5, <2>6, <2>7, <2>8, <2>12 DEF CuadraAviso, Cuadra
    <3>2. /\ fondo'[f]["committedAmount"] = fondo[f]["committedAmount"]
          /\ fondo'[f]["montoActivo"] = fondo[f]["montoActivo"] - (p - n)
          /\ fondo'[f]["montoDisponible"] = d + (p - n)
      BY <1>1, <1>4, <1>6, <1>9, <1>10, <2>1, <2>2, <2>9, <2>12, AvanzarOrden
    <3>3. fondo'[f]["committedAmount"] = s + 0 /\ fondo'[f]["montoActivo"] = t + (- (k - n))
      BY <3>1, <3>2
    <3>4. CuadraAviso(e, f)'
      BY <1>1, <1>3, <2>5, <2>6, <2>7, <2>12, <3>3 DEF CuadraAviso, Cuadra
    <3> QED BY <2>3, <2>10, <3>1, <3>2, <3>3, <3>4
  <2> QED BY <2>11, <2>12
<1>16. Solvente(fondo') /\ OrdenesLegales(orden') BY <1>1, <1>2, <1>15 DEF Solvente
<1>17. ConOrden(e)' BY <1>1, <1>13 DEF ConOrden
<1> QED BY <1>0, <1>11, <1>15, <1>16, <1>17, LibroDeAviso DEF LibrosDeAviso

\* The order that was charged takes its status: the sums move by what it takes.
LEMMA LibroEscribirOrden ==
  ASSUME TipoInv, FirmaInv, EnSerie, EnOrden, EnLibros, NEW e \in Avisos, EscribirOrden(e)
  PROVE  EnLibros'
<1>0. Manejar(e) BY DEF Manejar
<1>1. DOMAIN aviso = Avisos /\ DOMAIN aviso[e] = CamposDeAviso BY AvisoTipo
<1>2. LibrosDeAviso(e) /\ Solvente(fondo) /\ OrdenesLegales(orden)
  BY <1>0, LibroAntesDeAviso
<1>3. (Aprueba(e)' <=> Aprueba(e)) /\ EventoDe(e)' = EventoDe(e) BY <1>0, ApruebaIgual
<1>4. aviso[e].montos = "cargos" /\ paso[e] = "libre" /\ UNCHANGED vars
  BY DEF EscribirOrden
<1>5. UNCHANGED <<fondo, paso, llamada, visto>> BY <1>4 DEF vars
<1>6. PICK n \in Ordenes : n = aviso[e].orden BY <1>2, <1>4 DEF LibrosDeAviso, ConOrden
<1>7. HayOrden(n) /\ orden[n].estatus = EstatusAntes(e)
  <2>1. AvisoAsentado(e) /\ EnCurso(e) BY <1>0, OrdenAviso
  <2> QED BY <1>4, <1>6, <2>1 DEF AvisoAsentado
<1>8. PICK ord \in [Ordenes -> Orden \cup {SinOrden}] : ord = orden
  BY DEF TipoInv, OrdenesBien
<1>9. PICK sig \in [Ordenes -> Orden \cup {SinOrden}] : sig = orden'
  <2>1. TipoInv' BY <1>0, ManejarTipo
  <2> QED BY <2>1 DEF TipoInv, OrdenesBien
<1>10. PICK fila \in Orden : fila = ord[n] BY <1>7, <1>8 DEF HayOrden
<1>11. sig = [ord EXCEPT ![n].estatus = EstatusTras(e)]
       /\ aviso' = [aviso EXCEPT ![e].montos = "siguiente"]
  BY <1>6, <1>7, <1>8, <1>9 DEF EscribirOrden, EstatusTras
<1>12. /\ sig[n].estatus = EstatusTras(e) /\ sig[n].cargos = fila.cargos
       /\ \A o \in Ordenes : o # n => sig[o] = ord[o]
  BY <1>10, <1>11 DEF Orden
<1>13. aviso'[e].montos = "siguiente" BY <1>1, <1>11 DEF CamposDeAviso
<1>14. CargandoBien(e)' BY <1>4, <1>5 DEF CargandoBien
<1>15. \A f \in Fondos : CuadraAviso(e, f)'
  <2> SUFFICES ASSUME NEW f \in Fondos PROVE CuadraAviso(e, f)' OBVIOUS
  <2>1. PICK s \in Int : s = SumaEn(ord, "PENDIENTE", f) BY SumaEnEs
  <2>2. PICK t \in Int : t = SumaEn(ord, "ACTIVA", f) BY SumaEnEs
  <2>3. PICK k \in Int : k = ImporteA(fila.cargos, f)
    <3>1. PICK cs \in Seq(Cargo) : cs = fila.cargos BY DEF Orden
    <3> QED BY <3>1, ImporteEntero
  <2>4. Aplicado(e, f) = k - 0 /\ Aplicado(e, f)' = 0
    BY <1>4, <1>6, <1>8, <1>10, <1>13, <2>3 DEF Aplicado, Pendiente
  <2>5. CuadraAviso(e, f) BY <1>2 DEF LibrosDeAviso
  <2>6. ord[n].estatus = EstatusAntes(e) /\ ord[n].cargos = fila.cargos
    BY <1>7, <1>8, <1>10
  <2>7. PICK z \in Int : z = Aplicado(e, f)' /\ z = 0 BY <2>4
  <2>8. CASE Aprueba(e)
    <3>1. ord[n].estatus = "PENDIENTE" /\ sig[n].estatus = "ACTIVA"
      BY <1>12, <2>6, <2>8 DEF EstatusAntes, EstatusTras
    <3>2. /\ TomaDe(ord, n, "PENDIENTE", f) = k /\ TomaDe(sig, n, "PENDIENTE", f) = 0
          /\ TomaDe(ord, n, "ACTIVA", f) = 0 /\ TomaDe(sig, n, "ACTIVA", f) = k
      BY <1>12, <2>3, <2>6, <3>1 DEF TomaDe
    <3>3. SumaEn(sig, "PENDIENTE", f) = s + 0 - k BY <1>12, <2>1, <3>2, SumaEnCambia
    <3>4. SumaEn(sig, "ACTIVA", f) = t + k - 0 BY <1>12, <2>2, <3>2, SumaEnCambia
    <3>5. fondo[f]["committedAmount"] = s + (- (k - 0)) /\ fondo[f]["montoActivo"] = t + (k - 0)
      BY <1>8, <2>1, <2>2, <2>4, <2>5, <2>8 DEF CuadraAviso, Cuadra
    <3>6. /\ fondo[f]["committedAmount"] = SumaEn(sig, "PENDIENTE", f) + (- z)
          /\ fondo[f]["montoActivo"] = SumaEn(sig, "ACTIVA", f) + z
      BY <2>7, <3>3, <3>4, <3>5
    <3> QED BY <1>3, <1>5, <1>9, <2>8, <2>7, <3>6 DEF CuadraAviso, Cuadra
  <2>9. CASE ~Aprueba(e)
    <3>1. ord[n].estatus = "ACTIVA" /\ sig[n].estatus = "CANCELADA"
      BY <1>12, <2>6, <2>9 DEF EstatusAntes, EstatusTras
    <3>2. /\ TomaDe(ord, n, "PENDIENTE", f) = 0 /\ TomaDe(sig, n, "PENDIENTE", f) = 0
          /\ TomaDe(ord, n, "ACTIVA", f) = k /\ TomaDe(sig, n, "ACTIVA", f) = 0
      BY <1>12, <2>3, <2>6, <3>1 DEF TomaDe
    <3>3. SumaEn(sig, "PENDIENTE", f) = s + 0 - 0 BY <1>12, <2>1, <3>2, SumaEnCambia
    <3>4. SumaEn(sig, "ACTIVA", f) = t + 0 - k BY <1>12, <2>2, <3>2, SumaEnCambia
    <3>5. fondo[f]["committedAmount"] = s + 0 /\ fondo[f]["montoActivo"] = t + (- (k - 0))
      BY <1>8, <2>1, <2>2, <2>4, <2>5, <2>9 DEF CuadraAviso, Cuadra
    <3>6. /\ fondo[f]["committedAmount"] = SumaEn(sig, "PENDIENTE", f) + 0
          /\ fondo[f]["montoActivo"] = SumaEn(sig, "ACTIVA", f) + (- z)
      BY <2>7, <3>3, <3>4, <3>5
    <3> QED BY <1>3, <1>5, <1>9, <2>9, <2>7, <3>6 DEF CuadraAviso, Cuadra
  <2> QED BY <2>8, <2>9
<1>16. Solvente(fondo') /\ OrdenesLegales(orden')
  <2>1. CargosLegales(fila.cargos) BY <1>2, <1>7, <1>8, <1>10 DEF OrdenesLegales, HayOrden
  <2> QED BY <1>2, <1>5, <1>8, <1>9, <1>12, <2>1 DEF OrdenesLegales
<1>17. ConOrden(e)' BY <1>13 DEF ConOrden
<1> QED BY <1>0, <1>14, <1>15, <1>16, <1>17, LibroDeAviso DEF LibrosDeAviso

LEMMA LibroManejar ==
  ASSUME TipoInv, FirmaInv, EnSerie, EnOrden, EnLibros, NEW e \in Avisos, Manejar(e), Centavo = 1
  PROVE  EnLibros'
<1>1. CASE \/ GuardarFirma(e) \/ LeerStatus(e) \/ EscribirStatus(e) \/ FecharActivacion(e)
           \/ LeerActivacionDeAviso(e) \/ LeerOrdenes(e)
           \/ (CargarOrden(e) /\ aviso[e].ordenes = {})
  BY <1>1, LibroAvisoOtras
<1>2. CASE CargarOrden(e) /\ aviso[e].ordenes # {} BY <1>2, LibroCargarOrden
<1>3. CASE EscribirOrden(e) \/ AvanzarLibro(e) BY <1>3, LibroEscribirOrden, LibroAvanzar
<1> QED BY <1>1, <1>2, <1>3 DEF Manejar

----
(* The other steps, and the theorem. *)

\* Nothing that the books are about changes.
LEMMA LibroIgual ==
  ASSUME EnLibros,
         UNCHANGED <<fondo, orden, peticion, aviso, documento, paso, llamada, visto>>
  PROVE  EnLibros'
<1>2. \A e \in Avisos : LibrosDeAviso(e)' <=> LibrosDeAviso(e)
  <2> SUFFICES ASSUME NEW e \in Avisos PROVE LibrosDeAviso(e)' <=> LibrosDeAviso(e)
    OBVIOUS
  <2>1. (Aprueba(e)' <=> Aprueba(e)) /\ (ConOrden(e)' <=> ConOrden(e))
    BY DEF Aprueba, ConOrden
  <2>2. CargandoBien(e)' <=> CargandoBien(e)
    BY <2>1 DEF CargandoBien, EventoDe, LeidoAlDia, CargoDe
  <2>3. \A f : Aplicado(e, f)' = Aplicado(e, f) BY DEF Aplicado, Pendiente
  <2>4. \A f : CuadraAviso(e, f)' <=> CuadraAviso(e, f)
    BY <2>1, <2>3 DEF CuadraAviso, Cuadra
  <2> QED BY <2>1, <2>2, <2>4 DEF LibrosDeAviso
<1>3. /\ SinAvisos' <=> SinAvisos
      /\ \A e \in Avisos : EnCurso(e)' <=> EnCurso(e)
  BY DEF SinAvisos, EnCurso
<1>4. Solvente(fondo') /\ OrdenesLegales(orden') BY DEF EnLibros
<1>5. \A h \in Hilos : peticion'[h].en # "libre" => LibrosDe(peticion'[h], fondo', orden')
  BY DEF EnLibros
<1>6. SinAvisos' /\ (\A h \in Hilos : peticion'[h].en = "libre") =>
        \A f \in Fondos : Cuadra(fondo', orden', f, 0, 0)
  BY <1>3 DEF EnLibros
<1>7. \A e \in Avisos : EnCurso(e)' => LibrosDeAviso(e)' BY <1>2, <1>3 DEF EnLibros
<1> QED BY <1>4, <1>5, <1>6, <1>7 DEF EnLibros

\* With nothing in progress the books are settled.
LEMMA LibroEnReposo ==
  ASSUME TipoInv, EnLibros, Quieto
  PROVE  /\ Solvente(fondo) /\ OrdenesLegales(orden)
         /\ \A f \in Fondos : Cuadra(fondo, orden, f, 0, 0)
BY DEF EnLibros, Quieto, SinAvisos

\* A request that arrives has not touched them.
LEMMA LibroPedir ==
  ASSUME TipoInv, EnLibros, Quieto, NEW h \in Hilos, NEW regular \in BOOLEAN, NEW nueva,
         Pedir(h, regular, nueva), nueva.en \in {"guardarNueva", "limpiar", "leer"}
  PROVE  EnLibros'
<1>1. /\ peticion'[h] = nueva /\ \A g \in Hilos : g # h => peticion'[g] = peticion[g]
      /\ UNCHANGED <<fondo, orden, aviso>>
  BY DEF Pedir, filas, varsLibro, TipoInv, PeticionesBien
<1>2. /\ Solvente(fondo) /\ OrdenesLegales(orden)
      /\ \A f \in Fondos : Cuadra(fondo, orden, f, 0, 0)
  BY LibroEnReposo
<1>3. \A e \in Avisos : ~EnCurso(e)' BY <1>1 DEF Quieto, EnCurso
<1>4. \A g \in Hilos : peticion'[g].en # "libre" => peticion'[g] = nueva
  BY <1>1 DEF Quieto
<1>5. LibrosDe(nueva, fondo, orden) BY <1>2, LibrosSinEscribir DEF Reservando, Devolviendo
<1>6. \A g \in Hilos : peticion'[g].en # "libre" => LibrosDe(peticion'[g], fondo', orden')
  BY <1>1, <1>4, <1>5
<1> QED BY <1>1, <1>2, <1>3, <1>6 DEF EnLibros

LEMMA LibroSolicitar ==
  ASSUME TipoInv, EnLibros, Quieto, NEW h \in Hilos, Solicitar(h), incidentes' = 0
  PROVE  EnLibros'
<1>0. DOMAIN SinPeticion = Campos BY SinNada
<1>1. ASSUME NEW c \in Campanias, PedirCrear(h, c) PROVE EnLibros'
  <2>1. PICK en \in {"guardarNueva", "limpiar"} :
          Pedir(h, TRUE, [SinPeticion EXCEPT !.op = "crear", !.en = en, !.campania = c])
    BY <1>1 DEF PedirCrear
  <2> DEFINE r == [SinPeticion EXCEPT !.op = "crear", !.en = en, !.campania = c]
  <2>2. r.en = en BY <1>0 DEF Campos
  <2> HIDE DEF r
  <2>3. Pedir(h, TRUE, r) BY <2>1 DEF r
  <2> QED BY <2>2, <2>3, LibroPedir
<1>2. ASSUME NEW c \in Campanias, NEW op \in {"actualizar", "quitar", "renovar", "activar"},
             PedirSobre(h, op, c)
      PROVE  EnLibros'
  <2> DEFINE r == [SinPeticion EXCEPT !.op = op, !.campania = c,
                               !.en = IF op = "activar" THEN "partida" ELSE "leer"]
  <2>1. r.en = (IF op = "activar" THEN "partida" ELSE "leer") BY <1>0 DEF Campos
  <2>2. Pedir(h, op # "activar", r) BY <1>2 DEF PedirSobre
  <2> HIDE DEF r
  <2>3. op # "activar"
    <3>1. Llegar(op # "activar") BY <2>2 DEF Pedir
    <3> QED BY <3>1, LlegarEnSerie
  <2> QED BY <2>1, <2>2, <2>3, LibroPedir
<1>3. ASSUME NEW c \in Campanias, NEW a \in DOMAIN activacion, PedirCerrar(h, c, a)
      PROVE  EnLibros'
  <2> DEFINE r == [SinPeticion EXCEPT !.op = "cerrar", !.en = "leer", !.campania = c,
                               !.activacion = a]
  <2>1. r.en = "leer" BY <1>0 DEF Campos
  <2>2. Pedir(h, a = UltimaActivacion(c), r) BY <1>3 DEF PedirCerrar
  <2> HIDE DEF r
  <2> QED BY <2>1, <2>2, LibroPedir
<1>4. ASSUME NEW c \in Campanias, NEW accion \in Acciones, NEW d \in Envios,
             PedirFirma(h, c, accion, d)
      PROVE  EnLibros'
  <2> DEFINE r == [SinPeticion EXCEPT !.op = "firmar", !.en = "leer", !.campania = c,
                                        !.accion = accion, !.doc = d]
  <2>1. r.en = "leer" BY <1>0 DEF Campos
  <2>2. Pedir(h, TRUE, r) BY <1>4 DEF PedirFirma
  <2> HIDE DEF r
  <2> QED BY <2>1, <2>2, LibroPedir
<1>5. ASSUME NEW c \in Campanias, NEW o \in Ordenes, NEW total \in Totales,
             PedirOrden(h, c, o, total)
      PROVE  EnLibros'
  <2> DEFINE r == [SinPeticion EXCEPT !.op = "ordenar", !.en = "leer", !.campania = c,
                               !.orden = o, !.total = total]
  <2>1. r.en = "leer" BY <1>0 DEF Campos
  <2>2. Pedir(h, campania[c] \in Editables, r) BY <1>5 DEF PedirOrden
  <2> HIDE DEF r
  <2>3. PICK regular \in BOOLEAN : regular <=> campania[c] \in Editables OBVIOUS
  <2>4. Pedir(h, regular, r) BY <2>2, <2>3 DEF Pedir, Llegar
  <2> QED BY <2>1, <2>4, LibroPedir
<1> QED BY <1>1, <1>2, <1>3, <1>4, <1>5 DEF Solicitar

LEMMA LibroEnviar ==
  ASSUME TipoInv, EnLibros, NEW d \in Envios, EnviarAFirmamex(d), Quieto
  PROVE  EnLibros'
<1>1. UNCHANGED <<fondo, orden, peticion, aviso>> BY DEF EnviarAFirmamex, varsLibro
<1>2. /\ Solvente(fondo) /\ OrdenesLegales(orden)
      /\ \A f \in Fondos : Cuadra(fondo, orden, f, 0, 0)
  BY LibroEnReposo
<1>3. \A e \in Avisos : ~EnCurso(e)' BY <1>1 DEF Quieto, EnCurso
<1>4. \A h \in Hilos : peticion'[h].en = "libre" BY <1>1 DEF Quieto
<1> QED BY <1>1, <1>2, <1>3, <1>4 DEF EnLibros

\* The handlers of a notification have charged nothing when they start.
LEMMA LibroRecibir ==
  ASSUME TipoInv, FirmaInv, EnLibros, Quieto, NEW e \in Avisos, Recibir(e)
  PROVE  EnLibros'
<1>1. /\ aviso' = [aviso EXCEPT ![e].recibido = TRUE, ![e].guardar = TRUE, ![e].status = "leer",
                            ![e].montos = "activacion"]
      /\ UNCHANGED <<fondo, orden, paso, llamada, visto, peticion>>
  BY DEF Recibir, filas, varsLibro
<1>2. aviso'[e].montos = "activacion" /\ \A n \in Avisos : n # e => aviso'[n] = aviso[n]
  BY <1>1, AvisoTipo DEF CamposDeAviso
<1>3. /\ Solvente(fondo) /\ OrdenesLegales(orden)
      /\ \A f \in Fondos : Cuadra(fondo, orden, f, 0, 0)
  BY LibroEnReposo
<1>4. paso'[e] = "libre"
  <2>1. aviso[e].montos = "no" BY DEF Quieto, EnCurso
  <2> QED BY <1>1, <2>1 DEF FirmaInv, LibroEnCurso
<1>5. CargandoBien(e)' /\ ConOrden(e)' BY <1>2, <1>4 DEF CargandoBien, ConOrden
<1>6. ASSUME NEW f \in Fondos PROVE CuadraAviso(e, f)'
  <2>1. PICK z \in Int : z = Aplicado(e, f)' /\ z = 0 BY <1>2 DEF Aplicado
  <2>2. Cuadra(fondo', orden', f, 0, 0) BY <1>1, <1>3
  <2>3. (- z) = z
    <3>1. \A x \in Int : x <= 0 /\ x >= 0 => (- x) <= 0 /\ (- x) >= 0 OBVIOUS
    <3>2. \A x, y \in Int : x <= 0 /\ x >= 0 /\ y <= 0 /\ y >= 0 => x = y OBVIOUS
    <3>3. z <= 0 /\ z >= 0 /\ (- z) \in Int BY <2>1
    <3> QED BY ONLY <3>1, <3>2, <3>3
  <2>4. Cuadra(fondo', orden', f, - z, z) /\ Cuadra(fondo', orden', f, 0, - z)
    BY <2>1, <2>2, <2>3
  <2> QED BY <2>1, <2>4 DEF CuadraAviso
<1>7. LibrosDeAviso(e)' BY <1>5, <1>6 DEF LibrosDeAviso
<1>8. \A n \in Avisos : EnCurso(n)' => n = e BY <1>2 DEF Quieto, EnCurso
<1>9. \A h \in Hilos : peticion'[h].en = "libre" BY <1>1 DEF Quieto
<1> QED BY <1>1, <1>3, <1>7, <1>8, <1>9 DEF EnLibros


\* Amounts are whole cents, none is negative, the master pays first, and the
\* orders that exist before were within their contract when they were made.
DineroBien ==
  /\ Centavo = 1
  /\ \A o \in DOMAIN Pendientes : CargosLegales(Pendientes[o])
  /\ \A f \in Fondos :
       SumFunction([o \in DOMAIN Pendientes |-> ImporteA(Pendientes[o], f)]) <= Techo[f]

LEMMA LibroInicial ==
  ASSUME DineroBien, InitCampania
  PROVE  EnLibros
<1>1. /\ \A h \in Hilos : peticion[h].en = "libre"
      /\ \A e \in Avisos : ~EnCurso(e)
  BY SinNada DEF InitCampania, EnCurso, SinAviso
<1>2. \A o \in Ordenes :
        IF o \in DOMAIN Pendientes
          THEN orden[o].estatus = "PENDIENTE" /\ orden[o].cargos = Pendientes[o]
          ELSE orden[o] = SinOrden
  BY DEF InitCampania
<1>3. OrdenesLegales(orden) BY <1>2 DEF OrdenesLegales, DineroBien
<1>4. ASSUME NEW f \in Fondos
      PROVE  /\ fondo[f]["committedAmount"] \in Int
             /\ fondo[f]["committedAmount"] <= fondo[f]["montoDisponible"]
             /\ Cuadra(fondo, orden, f, 0, 0)
  <2> DEFINE g == [o \in DOMAIN Pendientes |-> ImporteA(Pendientes[o], f)]
             p == [o \in Ordenes |-> TomaDe(orden, o, "PENDIENTE", f)]
             a == [o \in Ordenes |-> TomaDe(orden, o, "ACTIVA", f)]
  <2>1. /\ fondo[f]["committedAmount"] = SumFunction(g)
        /\ fondo[f]["montoActivo"] = 0 /\ fondo[f]["montoDisponible"] = Techo[f]
    BY DEF InitCampania, FilaFondoCero, FundColumns, ServiceColumns
  <2>2. SumFunction(g) <= Techo[f] BY DEF DineroBien
  <2>3. SumFunction(g) = SumFunctionOnSet(g, DOMAIN Pendientes) BY DEF SumFunction
  <2>4. /\ IsFiniteSet(Ordenes) /\ DOMAIN Pendientes \in SUBSET Ordenes
        /\ IsFiniteSet(DOMAIN Pendientes)
    BY CampaniasAssumption, FS_Subset
  <2>5. \A o \in DOMAIN Pendientes : g[o] \in Int
    <3>1. \A o \in DOMAIN Pendientes : Pendientes[o] \in Seq(Cargo)
      BY CampaniasAssumption DEF Range
    <3> QED BY <3>1, ImporteEntero
  <2>6. \A o \in DOMAIN Pendientes : p[o] = g[o] /\ g[o] \in Int
    BY <1>2, <2>4, <2>5 DEF TomaDe
  <2>7. \A o \in Ordenes \ DOMAIN Pendientes : p[o] = 0 BY <1>2 DEF TomaDe, SinOrden
  <2>8. \A o \in Ordenes : a[o] = 0 BY <1>2 DEF TomaDe, SinOrden
  <2>9. /\ SumaEn(orden, "PENDIENTE", f) = SumFunctionOnSet(p, Ordenes)
        /\ SumaEn(orden, "ACTIVA", f) = SumFunctionOnSet(a, Ordenes)
    BY DEF SumaEn
  <2> HIDE DEF g, p, a
  <2>10. SumFunctionOnSet(p, Ordenes) = SumFunctionOnSet(g, DOMAIN Pendientes)
    BY <2>4, <2>6, <2>7, SumaSoporte
  <2>11. SumFunctionOnSet(a, Ordenes) = 0 BY <2>4, <2>8, SumaCeros
  <2>12. PICK k \in Int : k = SumFunctionOnSet(g, DOMAIN Pendientes)
    BY <2>4, <2>5, SumaEntera
  <2> QED BY <2>1, <2>2, <2>3, <2>9, <2>10, <2>11, <2>12 DEF Cuadra
<1>5. Solvente(fondo) BY <1>4 DEF Solvente
<1> QED BY <1>1, <1>3, <1>4, <1>5 DEF EnLibros

LEMMA PasoLibro ==
  ASSUME Centavo = 1, TipoInv, FirmaInv, SerieInv, OrdenInv, LibroInv, [NextCampania]_todas
  PROVE  LibroInv'
<1> SUFFICES ASSUME incidentes' = 0 PROVE EnLibros' BY DEF LibroInv
<1>0. EnSerie /\ EnOrden /\ EnLibros BY PasoEnSerie DEF SerieInv, OrdenInv, LibroInv
<1>1. CASE UNCHANGED todas
  <2>1. UNCHANGED <<fondo, orden, peticion, aviso, documento, paso, llamada, visto>>
    BY <1>1 DEF todas, varsCampania, filas, vars
  <2> QED BY <1>0, <2>1, LibroIgual
<1>2. ASSUME NEW h \in Hilos, Solicitar(h), Quieto PROVE EnLibros'
  BY <1>0, <1>2, LibroSolicitar
<1>3. ASSUME NEW h \in Hilos, Atender(h) PROVE EnLibros' BY <1>0, <1>3, LibroAtender
<1>4. ASSUME NEW d \in Envios, EnviarAFirmamex(d), Quieto PROVE EnLibros'
  BY <1>0, <1>4, LibroEnviar
<1>5. ASSUME NEW e \in Avisos, Recibir(e), Quieto PROVE EnLibros'
  BY <1>0, <1>5, LibroRecibir
<1>6. ASSUME NEW e \in Avisos, Manejar(e) PROVE EnLibros' BY <1>0, <1>6, LibroManejar
<1>7. ASSUME NEW k \in Cobros, NEW evento, NEW o, NEW total, PedirCobro(k, evento, o, total)
      PROVE  EnLibros'
  <2>1. UNCHANGED <<fondo, orden, peticion, aviso, documento, paso, llamada, visto>>
    BY <1>7 DEF PedirCobro, filas, varsLibro
  <2> QED BY <1>0, <2>1, LibroIgual
<1>8. ASSUME NEW k \in Cobros, Cobrar(k) PROVE EnLibros'
  <2>1. UNCHANGED <<vars, orden, documento, peticion, aviso>> BY <1>0, <1>8, SoloCobrar
  <2>2. UNCHANGED <<fondo, orden, peticion, aviso, documento, paso, llamada, visto>>
    BY <2>1 DEF vars
  <2> QED BY <1>0, <2>2, LibroIgual
<1> QED BY <1>1, <1>2, <1>3, <1>4, <1>5, <1>6, <1>7, <1>8, PasoEnSerie

LEMMA LibroSiempre ==
  ASSUME DineroBien
  PROVE  SpecCampania => [](TipoInv /\ LibroInv)
<1> DEFINE Inv == TipoInv /\ FirmaInv /\ SerieInv /\ VigenteInv /\ OrdenInv
<1>0. Centavo = 1 BY DEF DineroBien
<1>1. InitCampania => LibroInv BY LibroInicial DEF LibroInv
<1>2. Inv /\ LibroInv /\ [NextCampania]_todas => LibroInv' BY <1>0, PasoLibro
<1>3. SpecCampania => []Inv BY OrdenSiempre
<1>4. Inv => TipoInv OBVIOUS
<1> HIDE DEF Inv
<1> QED BY <1>1, <1>2, <1>3, <1>4, PTL DEF SpecCampania

\* With nothing overlapped, failed or irregular, no cent of a contract is lost
\* or counted twice by its campaigns: whenever nothing is in progress, what a
\* fund has committed is what its waiting orders take and what it has active is
\* what its active orders take, after any sequence of orders, approvals,
\* cancellations, closings that give back an order's reservation, and renewals.
THEOREM ReservasDeCampania ==
  ASSUME DineroBien
  PROVE  SpecCampania => []ReservaDeCampania
<1>1. ASSUME TipoInv, LibroInv PROVE ReservaDeCampania
  <2> SUFFICES ASSUME Tranquilo, NEW f \in Fondos
               PROVE  /\ fondo[f]["committedAmount"] = SumaDe("PENDIENTE", f)
                      /\ fondo[f]["montoActivo"] = SumaDe("ACTIVA", f)
    BY DEF ReservaDeCampania
  <2>1. EnLibros /\ Quieto BY <1>1 DEF Tranquilo, LibroInv
  <2>2. Cuadra(fondo, orden, f, 0, 0) BY <1>1, <2>1, LibroEnReposo
  <2>3. PICK p \in Int : p = SumaDe("PENDIENTE", f) /\ p = SumaEn(orden, "PENDIENTE", f)
    BY <1>1, SumasTipo DEF TipoInv
  <2>4. PICK a \in Int : a = SumaDe("ACTIVA", f) /\ a = SumaEn(orden, "ACTIVA", f)
    BY <1>1, SumasTipo DEF TipoInv
  <2> QED BY <2>2, <2>3, <2>4 DEF Cuadra
<1>2. SpecCampania => [](TipoInv /\ LibroInv) BY LibroSiempre
<1> QED BY <1>1, <1>2, PTL
=============================================================================
