------------------------- MODULE ContratosProveedor -------------------------
(***************************************************************************)
(* The life of the contracts of a provider: masters (contratos.service.ts) *)
(* and amendments (contratos_modificatorios.service.ts) created, signed,   *)
(* cancelled, removed and expired by the daily job, with the events that   *)
(* each of those emits for the provider and its stations.                  *)
(*                                                                         *)
(* The amounts are those of LibroContrato and are left out here, and so    *)
(* are the orders: one that forbids a DELETE is a failure.                 *)
(***************************************************************************)
EXTENDS Estaciones

\* The contracts that may exist from the start are live with all that they
\* bring; without one the provider and its network are off.
InitContratos ==
  \E vivos \in SUBSET Existentes :
    /\ maestro = [m \in Maestros |->
         IF m \in vivos THEN [estatus |-> "ADJUDICADO", tipos |-> TiposDe[m]] ELSE SinMaestro]
    /\ proveedor = (vivos # {})
    /\ LET cubiertos == UNION {TiposDe[m] : m \in vivos}
           primera == CHOOSE e \in Estaciones : TRUE
       IN  /\ servicio = [s \in Servicios |->
                IF s \in DOMAIN Iniciales
                  THEN [estacion |-> primera, tipo |-> Iniciales[s],
                        estatus |-> Iniciales[s] \in cubiertos]
                  ELSE SinServicio]
           /\ estacion = [e \in Estaciones |->
                IF e # primera THEN "NO_EXISTE"
                ELSE Encendida(\E s \in DOMAIN Iniciales : Iniciales[s] \in cubiertos)]
    /\ renovacion = [s \in Servicios |->
         IF s \in DOMAIN Iniciales THEN <<NuevaRenovacion>> ELSE <<>>]
    /\ modificatorio = <<>>
    /\ hoy = 0 /\ revisado = FALSE
    /\ peticion = [h \in Hilos |-> SinPeticion]
    /\ eventos = <<>>
    /\ inicios = 0 /\ incidentes = 0 /\ fallos = 0

\* UPDATE of a status.
ConEstatus(m, estatus) ==
  IF HayMaestro(m) THEN [maestro EXCEPT ![m].estatus = estatus] ELSE maestro

----
(* create of a master.                                                     *)

PedirMaestro(h, m, estatus) ==
  /\ maestro[m].estatus # "BORRADO"
  /\ Pedir(h, estatus \in Vivos, [SinPeticion EXCEPT !.op = "crear", !.en = "existe", !.m = m,
                                                     !.estatus = estatus])

ExisteNumero(h) ==
  /\ peticion[h].en = "existe"
  /\ SeguirSi(~HayMaestro(peticion[h].m), h, "leerProveedor")
  /\ UNCHANGED <<proveedor, contratos, dia, red, eventos, cuentas>>

LeerProveedor(h) ==
  /\ peticion[h].en = "leerProveedor"
  /\ peticion' = [peticion EXCEPT ![h].en = "verificar", ![h].habilitado = proveedor]
  /\ UNCHANGED <<proveedor, contratos, dia, red, eventos, cuentas>>

\* Wrong form: the contracts that wait for their award are not looked at.
verifyServiceExistsOnceAdjudicados(tipos) ==
  \E m \in Maestros : maestro[m].estatus \in Cancelables /\ tipos \cap maestro[m].tipos # {}

verifyServiceExistsOnce(tipos) ==
  \E m \in MaestrosVivos : tipos \cap maestro[m].tipos # {}

Verificar(h) ==
  /\ peticion[h].en = "verificar"
  /\ SeguirSi(~verifyServiceExistsOnce(TiposDe[peticion[h].m]), h, "contar")
  /\ UNCHANGED <<proveedor, contratos, dia, red, eventos, cuentas>>

\* What create of a contract, or of an amendment that reopens one, emits.
Habilitar(cuenta, habilitado, tipos) ==
  (IF cuenta = 0 /\ ~habilitado THEN <<DeProveedor("enable-provider")>> ELSE <<>>)
    \o <<DeTipos("enable-stations", tipos)>>

\* The events are emitted before the contract is saved.
ContarYEmitir(h) ==
  /\ peticion[h].op = "crear" /\ peticion[h].en = "contar"
  /\ Emitir(Habilitar(countActiveContracts, peticion[h].habilitado, TiposDe[peticion[h].m]))
  /\ Seguir(h, "guardar")
  /\ UNCHANGED <<proveedor, contratos, dia, red, cuentas>>

\* The number is UNIQUE. The provider goes with the row, whose cascade saves it
\* as it was read.
GuardarMaestro(h) ==
  LET m == peticion[h].m
  IN  /\ peticion[h].op = "crear" /\ peticion[h].en = "guardar"
      /\ IF maestro[m] = SinMaestro
           THEN /\ maestro' = [maestro EXCEPT ![m].estatus = peticion[h].estatus]
                /\ proveedor' = peticion[h].habilitado
                /\ Seguir(h, "secundarios")
           ELSE Responder(h) /\ UNCHANGED <<maestro, proveedor>>
      /\ UNCHANGED <<modificatorio, dia, red, eventos, cuentas>>

GuardarSecundarios(h) ==
  LET m == peticion[h].m
  IN  /\ peticion[h].en = "secundarios"
      /\ IF HayMaestro(m) THEN maestro' = [maestro EXCEPT ![m].tipos = TiposDe[m]] /\ Responder(h)
         ELSE Seguir(h, "leerBaja") /\ UNCHANGED maestro
      /\ UNCHANGED <<proveedor, modificatorio, dia, red, eventos, cuentas>>

----
(* update, remove and processContractCancellation.                         *)

\* A regular client sends the status CANCELADO with a cancellation.
PedirSobreMaestro(h, op, m, estatus) ==
  /\ maestro[m] # SinMaestro
  /\ \/ op = "actualizar" /\ estatus \in Estatus /\ Pedir(h, estatus \in Vivos,
          [SinPeticion EXCEPT !.op = op, !.en = "leer", !.m = m, !.estatus = estatus])
     \/ op = "cancelar" /\ Pedir(h, estatus = "CANCELADO",
          [SinPeticion EXCEPT !.op = op, !.en = "leer", !.m = m, !.estatus = estatus])

PedirQuitarMaestro(h, m) ==
  /\ maestro[m] # SinMaestro
  /\ Pedir(h, TRUE, [SinPeticion EXCEPT !.op = "quitar", !.en = "leerBaja", !.m = m])

LeerMaestro(h) ==
  LET op == peticion[h].op
  IN  /\ op \in {"actualizar", "cancelar"} /\ peticion[h].en = "leer"
      /\ SeguirSi(maestro[peticion[h].m].estatus \in IF op = "cancelar" THEN Cancelables ELSE Vivos,
                  h, IF op = "cancelar" THEN "modificatorios" ELSE "guardar")
      /\ UNCHANGED <<proveedor, contratos, dia, red, eventos, cuentas>>

\* UPDATE of the status, for update; the link is left out.
ActualizarMaestro(h) ==
  /\ peticion[h].op = "actualizar" /\ peticion[h].en = "guardar"
  /\ maestro' = ConEstatus(peticion[h].m, peticion[h].estatus)
  /\ Responder(h)
  /\ UNCHANGED <<proveedor, modificatorio, dia, red, eventos, cuentas>>

\* remove, of a client or of a create whose second save failed.
LeerBaja(h) ==
  LET m == peticion[h].m
  IN  /\ peticion[h].en = "leerBaja"
      /\ IF maestro[m].estatus = "PENDIENTE"
           THEN /\ peticion' = [peticion EXCEPT ![h].lista = maestro[m].tipos,
                  ![h].en = IF maestro[m].tipos = {} THEN "borrarMaestro" ELSE "buscarFila"]
                /\ Emitir(<<DeTipos("disable-stations", maestro[m].tipos)>>)
           ELSE Responder(h) /\ UNCHANGED eventos
      /\ UNCHANGED <<proveedor, contratos, dia, red, cuentas>>

\* Each row of contratos is read and removed; remove(null) rejects.
BuscarFila(h) ==
  /\ peticion[h].en = "buscarFila"
  /\ \E t \in peticion[h].lista :
       IF t \in maestro[peticion[h].m].tipos
         THEN peticion' = [peticion EXCEPT ![h].en = "borrarFila", ![h].tipo = t]
         ELSE Responder(h)
  /\ UNCHANGED <<proveedor, contratos, dia, red, eventos, cuentas>>

BorrarFila(h) ==
  LET quedan == peticion[h].lista \ {peticion[h].tipo}
  IN  /\ peticion[h].en = "borrarFila"
      /\ maestro' = [maestro EXCEPT ![peticion[h].m].tipos = @ \ {peticion[h].tipo}]
      /\ peticion' = [peticion EXCEPT ![h].lista = quedan,
           ![h].en = IF quedan = {} THEN "borrarMaestro" ELSE "buscarFila"]
      /\ UNCHANGED <<proveedor, modificatorio, dia, red, eventos, cuentas>>

ModificatoriosDe(m) ==
  {i \in DOMAIN modificatorio : HayModificatorio(i) /\ modificatorio[i].maestro = m}

\* Wrong form: rows of contratos do not keep their master.
RetenidoPorModificatorios(m) == ModificatoriosDe(m) # {}

\* The amendments of a master, whatever their status, forbid its DELETE, and so
\* do rows of contratos saved meanwhile.
Retenido(m) == ModificatoriosDe(m) # {} \/ maestro[m].tipos # {}

\* create then asks for the provider to be disabled.
BorrarMaestro(h) ==
  LET m == peticion[h].m
  IN  /\ peticion[h].en = "borrarMaestro"
      /\ maestro' = IF Retenido(m) THEN maestro ELSE [maestro EXCEPT ![m].estatus = "BORRADO"]
      /\ Emitir(IF peticion[h].op = "crear" /\ ~Retenido(m)
                  THEN <<DeProveedor("disable-provider")>> ELSE <<>>)
      /\ Responder(h)
      /\ UNCHANGED <<proveedor, modificatorio, dia, red, cuentas>>

\* Wrong form: amendments that wait for their award are not cancelled.
ModificatoriosAdjudicados(m) ==
  {i \in ModificatoriosDe(m) : modificatorio[i].estatus \in Cancelables}

ModificatoriosVivos(m) == {i \in ModificatoriosDe(m) : modificatorio[i].estatus \in Vivos}

BuscarModificatorios(h) ==
  LET halladas == ModificatoriosVivos(peticion[h].m)
  IN  /\ peticion[h].en = "modificatorios"
      /\ peticion' = [peticion EXCEPT ![h].lista = halladas,
           ![h].en = IF halladas = {} THEN "cancelarMaestro" ELSE "cancelarModificatorio"]
      /\ UNCHANGED <<proveedor, contratos, dia, red, eventos, cuentas>>

CancelarModificatorio(h) ==
  /\ peticion[h].en = "cancelarModificatorio"
  /\ \E i \in peticion[h].lista :
       /\ modificatorio' = IF HayModificatorio(i)
                             THEN [modificatorio EXCEPT ![i].estatus = "CANCELADO"]
                             ELSE modificatorio
       /\ peticion' = [peticion EXCEPT ![h].lista = @ \ {i},
            ![h].en = IF peticion[h].lista = {i} THEN "cancelarMaestro" ELSE @]
  /\ UNCHANGED <<proveedor, maestro, dia, red, eventos, cuentas>>

CancelarMaestro(h) ==
  /\ peticion[h].en = "cancelarMaestro"
  /\ maestro' = ConEstatus(peticion[h].m, "CANCELADO")
  /\ SeguirSi(peticion[h].estatus = "CANCELADO", h, "avisarBaja")
  /\ UNCHANGED <<proveedor, modificatorio, dia, red, eventos, cuentas>>

\* The stations are told; the provider is not.
AvisarBaja(h) ==
  LET m == peticion[h].m
  IN  /\ peticion[h].en = "avisarBaja"
      /\ Emitir(IF HayMaestro(m) THEN <<DeTipos("disable-stations", maestro[m].tipos)>> ELSE <<>>)
      /\ Responder(h)
      /\ UNCHANGED <<proveedor, contratos, dia, red, cuentas>>

----
(* Amendments: create, update, modificarEstatus, remove, cancellContract.  *)

\* There is a row for one more. Only an extension of the term has a date.
PedirModificatorio(h, m, extension, vence, estatus) ==
  /\ maestro[m] # SinMaestro
  /\ extension = "AMOUNTS" => vence = Min(Prorrogas)
  /\ Len(modificatorio) + Cardinality({g \in Hilos : peticion[g].op = "extender"})
       < MaxModificatorios
  /\ Pedir(h, estatus \in Vivos,
           [SinPeticion EXCEPT !.op = "extender", !.en = "leer", !.m = m, !.vence = vence,
                               !.extension = extension, !.estatus = estatus])

\* modificarEstatus writes the status at once; update writes what the request
\* brings after a test of the row, what is extended and until when included.
PedirSobreModificatorio(h, op, i, extension, vence, estatus) ==
  LET fila == modificatorio[i]
      nueva == [SinPeticion EXCEPT !.op = op, !.i = i, !.estatus = estatus,
                                   !.extension = extension, !.vence = vence]
  IN  /\ HayModificatorio(i)
      /\ op # "corregir" => extension = fila.extension /\ vence = fila.vence
      /\ estatus \in IF op \in {"descartar", "revocar"} THEN {"CANCELADO"} ELSE Estatus
      /\ \/ /\ op = "corregir"
            /\ Pedir(h, estatus \in Vivos /\ extension = fila.extension /\ vence = fila.vence,
                     [nueva EXCEPT !.en = "leer"])
         \/ /\ op = "modificarEstatus"
            /\ Pedir(h, {estatus, fila.estatus} \subseteq Vivos, [nueva EXCEPT !.en = "corregir"])
         \/ /\ op \in {"descartar", "revocar"}
            /\ Pedir(h, TRUE, [nueva EXCEPT !.en = "leer", !.m = fila.maestro])

\* create reads the master with its provider.
LeerParaExtender(h) ==
  LET m == peticion[h].m
  IN  /\ peticion[h].op = "extender" /\ peticion[h].en = "leer"
      /\ IF HayMaestro(m) /\ maestro[m].estatus # "CANCELADO"
           THEN peticion' = [peticion EXCEPT ![h].en = "insertar", ![h].habilitado = proveedor,
                  ![h].tipo = IF maestro[m].estatus = "TERMINADO" /\ peticion[h].extension = "TIME"
                                THEN "reabre" ELSE "-"]
           ELSE Responder(h)
      /\ UNCHANGED <<proveedor, contratos, dia, red, eventos, cuentas>>

InsertarModificatorio(h) ==
  LET nuevo == [maestro |-> peticion[h].m, extension |-> peticion[h].extension,
                vence |-> peticion[h].vence, estatus |-> peticion[h].estatus]
  IN  /\ peticion[h].en = "insertar"
      /\ IF HayMaestro(nuevo.maestro)
           THEN /\ modificatorio' = Append(modificatorio, nuevo)
                /\ SeguirSi(peticion[h].tipo = "reabre", h, "contar")
           ELSE Responder(h) /\ UNCHANGED modificatorio
      /\ UNCHANGED <<proveedor, maestro, dia, red, eventos, cuentas>>

\* What is extended is read with the status.
LeerModificatorio(h) ==
  LET op == peticion[h].op
      fila == modificatorio[peticion[h].i]
      admitidos == CASE op = "corregir" -> Vivos [] op = "descartar" -> {"PENDIENTE"}
                     [] op = "revocar" -> Cancelables
  IN  /\ op \in {"corregir", "descartar", "revocar"} /\ peticion[h].en = "leer"
      /\ IF fila.estatus \in admitidos
           THEN peticion' = [peticion EXCEPT ![h].en = "corregir", ![h].tipo = fila.extension]
           ELSE Responder(h)
      /\ UNCHANGED <<proveedor, contratos, dia, red, eventos, cuentas>>

\* The UPDATE of a PATCH writes every column that it brings, the others the
\* status alone.
Corregido(fila, p) ==
  CASE p.op = "corregir" ->
         [fila EXCEPT !.extension = p.extension, !.vence = p.vence, !.estatus = p.estatus]
    [] p.op = "descartar" -> [fila EXCEPT !.estatus = "BORRADO"]
    [] OTHER -> [fila EXCEPT !.estatus = p.estatus]

\* The UPDATE, or the DELETE, of the amendment; one of the term goes on to its
\* master.
CorregirModificatorio(h) ==
  LET p == peticion[h]
  IN  /\ p.en = "corregir"
      /\ modificatorio' = IF ~HayModificatorio(p.i) THEN modificatorio
           ELSE [modificatorio EXCEPT ![p.i] = Corregido(@, p)]
      /\ SeguirSi(p.op \in {"descartar", "revocar"} /\ p.tipo = "TIME", h, "leerMaestro")
      /\ UNCHANGED <<proveedor, maestro, dia, red, eventos, cuentas>>

LeerMaestroExtendido(h) ==
  /\ peticion[h].en = "leerMaestro"
  /\ IF HayMaestro(peticion[h].m)
       THEN peticion' = [peticion EXCEPT ![h].en = "contar", ![h].habilitado = proveedor]
       ELSE Responder(h)
  /\ UNCHANGED <<proveedor, contratos, dia, red, eventos, cuentas>>

ContarPorTermino(h) ==
  /\ peticion[h].op \in {"extender", "descartar", "revocar"} /\ peticion[h].en = "contar"
  /\ peticion' = [peticion EXCEPT ![h].en = "tipos", ![h].cuenta = countActiveContracts]
  /\ UNCHANGED <<proveedor, contratos, dia, red, eventos, cuentas>>

\* getServiceTypesByContractMaster. An amendment taken back ends the contract
\* only when it is the one contract of an enabled provider; its stations are
\* told in any case.
LeerTipos(h) ==
  LET tipos == maestro[peticion[h].m].tipos
      cambia == \/ peticion[h].op = "extender"
                \/ peticion[h].cuenta = 1 /\ peticion[h].habilitado
  IN  /\ peticion[h].en = "tipos"
      /\ IF cambia
           THEN /\ peticion' = [peticion EXCEPT ![h].en = "leerEstatus", ![h].tipos = tipos]
                /\ UNCHANGED eventos
           ELSE Responder(h) /\ Emitir(<<DeTipos("disable-stations", tipos)>>)
      /\ UNCHANGED <<proveedor, contratos, dia, red, cuentas>>

\* changeStatus reads the row and saves it, the one it read: save inserts a
\* master that was removed meanwhile.
LeerParaCambiar(h) ==
  /\ peticion[h].en = "leerEstatus"
  /\ SeguirSi(HayMaestro(peticion[h].m), h, "cambiarEstatus")
  /\ UNCHANGED <<proveedor, contratos, dia, red, eventos, cuentas>>

changeStatus(h) ==
  LET p == peticion[h]
      abre == p.op = "extender"
  IN  /\ p.en = "cambiarEstatus"
      /\ maestro' = [maestro EXCEPT ![p.m].estatus = IF abre THEN "ADJUDICADO" ELSE "TERMINADO"]
      /\ Emitir(IF abre THEN Habilitar(p.cuenta, p.habilitado, p.tipos)
                ELSE <<DeProveedor("disable-provider"), DeTipos("disable-stations", p.tipos)>>)
      /\ Responder(h)
      /\ UNCHANGED <<proveedor, modificatorio, dia, red, cuentas>>

----
(* The job that runs every day at seven.                                   *)

Medianoche(h) ==
  /\ hoy < Dias
  /\ \A g \in Hilos : peticion[g].op # "diario"
  /\ h = Min({g \in Hilos : peticion[g].en = "libre"} \cup {Max(Hilos) + 1})
  /\ Llegar(TRUE)
  /\ hoy' = hoy + 1
  /\ peticion' = [peticion EXCEPT ![h] = [SinPeticion EXCEPT !.op = "diario", !.en = "vencidos"]]
  /\ UNCHANGED <<proveedor, contratos, red, eventos>>

\* Nothing runs the job that a stopped server missed.
MedianocheSinServidor ==
  /\ hoy < Dias /\ hoy' = hoy + 1
  /\ Fallo
  /\ UNCHANGED <<proveedor, contratos, revisado, red, peticion, eventos>>

\* The amendments that move the end of a contract, whatever their status.
ProrrogasDe(m) == {i \in ModificatoriosDe(m) : modificatorio[i].extension = "TIME"}

\* Wrong form: a contract whose term was extended never expires.
VencidoSinProrrogas(m) ==
  HayMaestro(m) /\ Vence[m] < hoy /\ ProrrogasDe(m) = {}

Vencido(m) ==
  /\ HayMaestro(m) /\ Vence[m] < hoy
  /\ ProrrogasDe(m) # {} => modificatorio[Max(ProrrogasDe(m))].vence < hoy

\* checkContractsExpiration reads the contracts past their date: nothing more
\* is looked at without one.
LeerVencidos(h) ==
  LET vencidos == {m \in Maestros : Vencido(m)}
      porTerminar == {m \in vencidos : maestro[m].estatus \in Vivos}
  IN  /\ peticion[h].en = "vencidos"
      /\ peticion' = [peticion EXCEPT ![h].lista = porTerminar,
           ![h].tipos = UNION {maestro[m].tipos : m \in porTerminar},
           ![h].en = IF porTerminar # {} THEN "terminar"
                     ELSE IF \E m \in Maestros : HayMaestro(m) /\ Vence[m] < hoy THEN "vigentes"
                     ELSE "proveedores"]
      /\ UNCHANGED <<proveedor, contratos, dia, red, eventos, cuentas>>

TerminarMaestro(h) ==
  /\ peticion[h].en = "terminar"
  /\ \E m \in peticion[h].lista :
       /\ maestro' = ConEstatus(m, "TERMINADO")
       /\ peticion' = [peticion EXCEPT ![h].lista = @ \ {m},
            ![h].en = IF peticion[h].lista = {m} THEN "vigentes" ELSE @]
  /\ UNCHANGED <<proveedor, modificatorio, dia, red, eventos, cuentas>>

\* The types that expired and no live contract has.
PorApagar(tipos) == tipos \ UNION {maestro[m].tipos : m \in MaestrosVivos}

LeerVigentes(h) ==
  LET tipos == PorApagar(peticion[h].tipos)
  IN  /\ peticion[h].en = "vigentes"
      /\ Emitir(IF tipos = {} THEN <<>> ELSE <<DeTipos("disable-stations", tipos)>>)
      /\ peticion' = [peticion EXCEPT ![h].en = "proveedores", ![h].tipos = {}]
      /\ UNCHANGED <<proveedor, contratos, dia, red, cuentas>>

\* disableProvidersWithoutActiveContracts reads the providers, then counts.
LeerProveedores(h) ==
  /\ peticion[h].en = "proveedores"
  /\ peticion' = [peticion EXCEPT ![h].en = "contarDeProveedor", ![h].habilitado = proveedor]
  /\ UNCHANGED <<proveedor, contratos, dia, red, eventos, cuentas>>

ContarDeProveedor(h) ==
  /\ peticion[h].en = "contarDeProveedor"
  /\ Emitir(IF countActiveContracts = 0 /\ peticion[h].habilitado
              THEN <<DeProveedor("disable-provider")>> ELSE <<>>)
  /\ revisado' = TRUE
  /\ Responder(h)
  /\ UNCHANGED <<proveedor, contratos, hoy, red, cuentas>>

----
(* Failures.                                                               *)

\* A query of a request rejects; create then removes what it saved.
FallarPeticion(h) ==
  /\ peticion[h].en # "libre"
  /\ Fallo
  /\ IF peticion[h].en = "secundarios" THEN Seguir(h, "leerBaja") ELSE Responder(h)
  /\ UNCHANGED <<proveedor, contratos, dia, red, eventos>>

\* A query of a handler rejects: the error is only logged.
FallarEvento(k) ==
  /\ Fallo
  /\ Despachado(k)
  /\ UNCHANGED <<proveedor, contratos, dia, red, peticion>>

CaerServidor ==
  /\ ~Quieto
  /\ Fallo
  /\ peticion' = [h \in Hilos |-> SinPeticion]
  /\ eventos' = <<>>
  /\ UNCHANGED <<proveedor, contratos, dia, red>>

----
Atender(h) ==
  \/ ContarVivos(h) \/ EscribirProveedor(h)
  \/ ContarEstacion(h) \/ LeerEstacion(h) \/ GuardarEstacion(h)
  \/ BuscarEstacion(h) \/ GuardarServicio(h) \/ LeerServicio(h) \/ EscribirServicio(h)
  \/ isFirstRenovation(h) \/ LeerAnterior(h) \/ BajaAnterior(h) \/ GuardarRenovacion(h)
  \/ LeerRenovacion(h) \/ BorrarRenovacion(h)
  \/ ExisteNumero(h) \/ LeerProveedor(h) \/ Verificar(h) \/ ContarYEmitir(h)
  \/ GuardarMaestro(h) \/ GuardarSecundarios(h)
  \/ LeerMaestro(h) \/ ActualizarMaestro(h)
  \/ LeerBaja(h) \/ BuscarFila(h) \/ BorrarFila(h) \/ BorrarMaestro(h)
  \/ BuscarModificatorios(h) \/ CancelarModificatorio(h) \/ CancelarMaestro(h) \/ AvisarBaja(h)
  \/ LeerParaExtender(h) \/ InsertarModificatorio(h)
  \/ LeerModificatorio(h) \/ CorregirModificatorio(h)
  \/ LeerMaestroExtendido(h) \/ ContarPorTermino(h) \/ LeerTipos(h)
  \/ LeerParaCambiar(h) \/ changeStatus(h)
  \/ LeerVencidos(h) \/ TerminarMaestro(h) \/ LeerVigentes(h)
  \/ LeerProveedores(h) \/ ContarDeProveedor(h)

Manejar(k) ==
  \/ ManejarProveedor(k) \/ ManejarRenovacion(k)
  \/ LeerRed(k) \/ BuscarPorConmutar(k) \/ Conmutar(k) \/ Releer(k) \/ CambiarServicio(k)

PedirContrato(h) ==
  \/ \E m \in Maestros :
       \/ PedirQuitarMaestro(h, m)
       \/ \E estatus \in Estatus : PedirMaestro(h, m, estatus)
       \/ \E estatus \in Estatus \cup {"CANCELADO"}, op \in {"actualizar", "cancelar"} :
            PedirSobreMaestro(h, op, m, estatus)
       \/ \E estatus \in Estatus, extension \in Extensiones, vence \in Prorrogas :
            PedirModificatorio(h, m, extension, vence, estatus)
  \/ \E i \in DOMAIN modificatorio, extension \in Extensiones, vence \in Prorrogas,
        estatus \in Estatus \cup {"CANCELADO"},
        op \in {"corregir", "modificarEstatus", "descartar", "revocar"} :
       PedirSobreModificatorio(h, op, i, extension, vence, estatus)

PedirRed(h) ==
  \/ \E op \in {"activar", "desactivar"} : PedirProveedor(h, op)
  \/ \E habilitado \in BOOLEAN : PedirParche(h, habilitado)
  \/ \E e \in Estaciones : PedirEstacion(h, e)
  \/ \E e \in Estaciones, habilitado \in BOOLEAN,
        op \in {"cambiarEstacion", "borrarEstacion", "parcheEstacion"} :
       PedirSobreEstacion(h, op, e, habilitado)
  \/ \E s \in Servicios, e \in Estaciones \cup {"-"}, tipo \in Tipos : PedirServicio(h, s, e, tipo)
  \/ \E s \in Servicios, tipo \in Tipos, op \in {"apagarServicio", "activarServicio", "tipoServicio"} :
       PedirSobreServicio(h, op, s, tipo)
  \/ \E s \in Servicios : PedirRenovacion(h, s)
  \/ \E s \in Servicios : \E n \in DOMAIN renovacion[s] : PedirQuitarRenovacion(h, s, n)

NextContratos ==
  \/ \E h \in Hilos : PedirContrato(h) \/ PedirRed(h) \/ Medianoche(h) \/ Atender(h)
                        \/ FallarPeticion(h)
  \/ \E k \in DOMAIN eventos : Manejar(k) \/ FallarEvento(k)
  \/ MedianocheSinServidor \/ CaerServidor

SpecContratos == InitContratos /\ [][NextContratos]_todo

\* The driver settles every query and the event loop runs what was emitted:
\* while something is in progress, some of it goes on.
Progreso == (\E h \in Hilos : Atender(h)) \/ (\E k \in DOMAIN eventos : Manejar(k))

FairSpecContratos == SpecContratos /\ WF_todo(Progreso)
----
(* Properties.                                                             *)

\* Nothing is in progress, and nothing overlapped, failed or was irregular.
Tranquilo == incidentes + fallos = 0 /\ Quieto

\* No amendment of the term was ever made: those reopen contracts without a
\* look at the others.
SinProrrogas == \A i \in DOMAIN modificatorio : modificatorio[i].extension # "TIME"

\* Undisturbed, a service is active only while a live contract has its type,
\* and without extensions of the term it is active then; a station with
\* services is enabled exactly when one of them is active.
ServiciosSegunContratos ==
  Tranquilo =>
    LET cubiertos == UNION {maestro[m].tipos : m \in MaestrosVivos}
    IN  /\ \A s \in Servicios : HayServicio(s) =>
             /\ servicio[s].estatus => servicio[s].tipo \in cubiertos
             /\ SinProrrogas /\ servicio[s].tipo \in cubiertos => servicio[s].estatus
        /\ \A e \in Estaciones : ServiciosDe(e) # {} =>
             (estacion[e] = "ACTIVA" <=> \E s \in ServiciosDe(e) : servicio[s].estatus)

\* Without overlaps, and whatever fails, a service type is in one live contract
\* at most, as long as the term of none is extended.
UnSoloContratoPorServicio ==
  incidentes = 0 /\ SinProrrogas =>
    \A m, n \in MaestrosVivos : m # n => maestro[m].tipos \cap maestro[n].tipos = {}

\* Without overlaps, and whatever fails halfway, a cancelled contract has no
\* amendment that is still live: its money cannot be used any more.
CanceladoCompleto ==
  incidentes = 0 => \A m \in Maestros :
    maestro[m].estatus = "CANCELADO" =>
      \A i \in DOMAIN modificatorio :
        modificatorio[i].maestro = m => modificatorio[i].estatus \notin Vivos

\* Undisturbed, once the daily job is done no live contract is past its date
\* and past the last extension of it, and no provider is enabled without one.
VencidosTerminados ==
  Tranquilo /\ revisado =>
    /\ proveedor => MaestrosVivos # {}
    /\ \A m \in MaestrosVivos :
         \/ Vence[m] >= hoy
         \/ \E i \in DOMAIN modificatorio :
              /\ modificatorio[i].maestro = m /\ HayModificatorio(i)
              /\ modificatorio[i].extension = "TIME" /\ modificatorio[i].vence >= hoy
              /\ \A j \in DOMAIN modificatorio :
                   modificatorio[j].maestro = m /\ HayModificatorio(j)
                     /\ modificatorio[j].extension = "TIME" => j <= i

\* Without overlaps a service has one last renewal at most, and exactly one
\* when nothing failed since its first one: stations cannot be switched without.
UnaUltimaRenovacion ==
  incidentes = 0 => \A s \in Servicios :
    /\ Cardinality(Ultimas(s)) <= 1
    /\ Tranquilo /\ Renovaciones(s) # {} =>
         \E n \in Ultimas(s) : n = Max(Renovaciones(s)) /\ renovacion[s][n].estatus

\* Every request, the daily job and every handler end.
TodoAcaba == []<>Quieto

\* What the comment of enable-provider says: a new contract enables the
\* provider (proveedor.events.service.ts:25).
NuevoContratoHabilita == Tranquilo /\ MaestrosVivos # {} => proveedor
=============================================================================
