----------------------------- MODULE Estaciones -----------------------------
(***************************************************************************)
(* The network of a provider: stations (estacion.service.ts), their        *)
(* services (servicio.service.ts) and the renewals that price those        *)
(* (renovacion.service.ts). The events of the contracts switch the         *)
(* services of some types on or off, and with them the stations.           *)
(*                                                                         *)
(* Tests of ids that the model always has and reads of municipalities and  *)
(* of the tax are left out; renewals keep the two flags.                   *)
(***************************************************************************)
EXTENDS Proveedor

----
(* Stations.                                                               *)

PedirEstacion(h, e) ==
  /\ estacion[e] = "NO_EXISTE" /\ \A g \in Hilos : peticion[g].e # e
  /\ Pedir(h, TRUE, [SinPeticion EXCEPT !.op = "estacion", !.en = "contarEstacion", !.e = e])

\* enableStation, disableStation, delete, and update with a status or without.
PedirSobreEstacion(h, op, e, habilitado) ==
  /\ estacion[e] # "NO_EXISTE"
  /\ op \in {"cambiarEstacion", "borrarEstacion", "parcheEstacion"}
  /\ op = "borrarEstacion" => ~habilitado
  /\ Pedir(h, FALSE, [SinPeticion EXCEPT !.op = op, !.en = "leerEstacion", !.e = e,
                                         !.habilitado = habilitado])

\* create: the status that the client sends is dropped for this one.
ContarEstacion(h) ==
  /\ peticion[h].en = "contarEstacion"
  /\ peticion' = [peticion EXCEPT ![h].en = "guardarEstacion",
                                  ![h].habilitado = countActiveContracts > 0]
  /\ UNCHANGED <<proveedor, contratos, dia, red, eventos, cuentas>>

\* findOne of a station throws when one of its services has no last renewal.
Ultimas(s) == {n \in DOMAIN renovacion[s] : renovacion[s][n].existe /\ renovacion[s][n].ultima}
findOne(e) == HayEstacion(e) /\ \A s \in ServiciosDe(e) : Ultimas(s) # {}

LeerEstacion(h) ==
  LET e == peticion[h].e
  IN  /\ peticion[h].en = "leerEstacion"
      /\ SeguirSi(IF peticion[h].op = "parcheEstacion" THEN HayEstacion(e) ELSE findOne(e),
                  h, "guardarEstacion")
      /\ UNCHANGED <<proveedor, contratos, dia, red, eventos, cuentas>>

Encendida(habilitado) == IF habilitado THEN "ACTIVA" ELSE "INACTIVA"

\* UPDATE and DELETE leave a row that is not there as it is, save inserts it;
\* a service of the station forbids its DELETE.
GuardarEstacion(h) ==
  LET e == peticion[h].e
      op == peticion[h].op
  IN  /\ peticion[h].en = "guardarEstacion"
      /\ estacion' = [estacion EXCEPT ![e] =
           CASE op \in {"estacion", "parcheEstacion"} -> Encendida(peticion[h].habilitado)
             [] op = "cambiarEstacion" /\ HayEstacion(e) -> Encendida(peticion[h].habilitado)
             [] op = "borrarEstacion" /\ ServiciosDe(e) = {} -> "BORRADA"
             [] OTHER -> @]
      /\ Responder(h)
      /\ UNCHANGED <<proveedor, contratos, dia, servicio, renovacion, eventos, cuentas>>

----
(* Services.                                                               *)

\* create: with no station given, findOne(undefined) takes any of them. A new
\* service is active whatever the contracts say, so one makes the run irregular.
PedirServicio(h, s, e, tipo) ==
  /\ ~HayServicio(s) /\ \A g \in Hilos : peticion[g].s # s
  /\ Pedir(h, FALSE, [SinPeticion EXCEPT !.op = "servicio", !.en = "buscarEstacion", !.s = s,
                                         !.e = e, !.tipo = tipo])

\* disableService, activarServicio and updateService. The second one is not
\* followed by its opposite, and a service is never removed.
PedirSobreServicio(h, op, s, tipo) ==
  /\ HayServicio(s)
  /\ \/ op \in {"apagarServicio", "activarServicio"} /\ tipo = servicio[s].tipo
     \/ op = "tipoServicio"
  /\ Pedir(h, FALSE, [SinPeticion EXCEPT !.op = op, !.s = s, !.tipo = tipo,
       !.en = IF op = "activarServicio" THEN "leerServicio" ELSE "escribirServicio"])

BuscarEstacion(h) ==
  /\ peticion[h].en = "buscarEstacion"
  /\ LET halladas == {e \in Estaciones : HayEstacion(e) /\ peticion[h].e \in {e, "-"}}
     IN  \/ halladas = {} /\ Responder(h)
         \/ \E e \in halladas :
              peticion' = [peticion EXCEPT ![h].en = "guardarServicio", ![h].e = e]
  /\ UNCHANGED <<proveedor, contratos, dia, red, eventos, cuentas>>

\* The INSERT needs the station. A service is active unless the client says no.
GuardarServicio(h) ==
  /\ peticion[h].en = "guardarServicio"
  /\ servicio' = IF HayEstacion(peticion[h].e)
                   THEN [servicio EXCEPT ![peticion[h].s] =
                           [estacion |-> peticion[h].e, tipo |-> peticion[h].tipo,
                            estatus |-> TRUE]]
                   ELSE servicio
  /\ Responder(h)
  /\ UNCHANGED <<proveedor, contratos, dia, estacion, renovacion, eventos, cuentas>>

\* activarServicio reads the row that it saves.
LeerServicio(h) ==
  /\ peticion[h].en = "leerServicio"
  /\ peticion' = [peticion EXCEPT ![h].en = "escribirServicio",
                                  ![h].tipo = servicio[peticion[h].s].tipo]
  /\ UNCHANGED <<proveedor, contratos, dia, red, eventos, cuentas>>

EscribirServicio(h) ==
  LET s == peticion[h].s
      op == peticion[h].op
  IN  /\ peticion[h].en = "escribirServicio"
      /\ servicio' = CASE op = "apagarServicio"  -> [servicio EXCEPT ![s].estatus = FALSE]
                       [] op = "tipoServicio"    -> [servicio EXCEPT ![s].tipo = peticion[h].tipo]
                       [] op = "activarServicio" -> [servicio EXCEPT ![s].estatus = TRUE,
                                                                     ![s].tipo = peticion[h].tipo]
      /\ Emitir(IF op = "activarServicio"
                  THEN <<[Evento EXCEPT !.clase = "servicio.activado", !.s = s]>> ELSE <<>>)
      /\ Responder(h)
      /\ UNCHANGED <<proveedor, contratos, dia, estacion, renovacion, cuentas>>

----
(* Renewals.                                                               *)

PedirRenovacion(h, s) ==
  /\ HayServicio(s)
  /\ Pedir(h, TRUE, [SinPeticion EXCEPT !.op = "renovacion", !.en = "primera", !.s = s])

PedirQuitarRenovacion(h, s, n) ==
  /\ n \in DOMAIN renovacion[s]
  /\ Pedir(h, FALSE, [SinPeticion EXCEPT !.op = "quitarRenovacion", !.en = "leerRenovacion",
                                         !.s = s, !.i = n])

Renovaciones(s) == {n \in DOMAIN renovacion[s] : renovacion[s][n].existe}

isFirstRenovation(h) ==
  /\ peticion[h].en = "primera"
  /\ Seguir(h, IF Renovaciones(peticion[h].s) = {} THEN "nueva" ELSE "anterior")
  /\ UNCHANGED <<proveedor, contratos, dia, red, eventos, cuentas>>

\* newRenovation: any of the last ones; with none, undefined is dereferenced.
LeerAnterior(h) ==
  LET ultimas == Ultimas(peticion[h].s)
  IN  /\ peticion[h].en = "anterior"
      /\ \/ ultimas = {} /\ Responder(h)
         \/ \E n \in ultimas : peticion' = [peticion EXCEPT ![h].en = "baja", ![h].i = n]
      /\ UNCHANGED <<proveedor, contratos, dia, red, eventos, cuentas>>

\* Wrong form: the former renewal stays the last one.
AnteriorIgual == [existe |-> TRUE, ultima |-> TRUE, estatus |-> FALSE]

Anterior == [existe |-> TRUE, ultima |-> FALSE, estatus |-> FALSE]

\* save inserts the row again if it was removed.
BajaAnterior(h) ==
  /\ peticion[h].en = "baja"
  /\ renovacion' = [renovacion EXCEPT ![peticion[h].s][peticion[h].i] = Anterior]
  /\ Seguir(h, "nueva")
  /\ UNCHANGED <<proveedor, contratos, dia, estacion, servicio, eventos, cuentas>>

GuardarRenovacion(h) ==
  /\ peticion[h].en = "nueva"
  /\ renovacion' = [renovacion EXCEPT ![peticion[h].s] = Append(@, NuevaRenovacion)]
  /\ Responder(h)
  /\ UNCHANGED <<proveedor, contratos, dia, estacion, servicio, eventos, cuentas>>

LeerRenovacion(h) ==
  /\ peticion[h].en = "leerRenovacion"
  /\ SeguirSi(peticion[h].i \in Renovaciones(peticion[h].s), h, "borrarRenovacion")
  /\ UNCHANGED <<proveedor, contratos, dia, red, eventos, cuentas>>

BorrarRenovacion(h) ==
  /\ peticion[h].en = "borrarRenovacion"
  /\ renovacion' = [renovacion EXCEPT ![peticion[h].s][peticion[h].i] =
                      [existe |-> FALSE, ultima |-> FALSE, estatus |-> FALSE]]
  /\ Responder(h)
  /\ UNCHANGED <<proveedor, contratos, dia, estacion, servicio, eventos, cuentas>>

\* activarUltimaRenovacion; desactivarUltimaRenovacion has no emitter.
ManejarRenovacion(k) ==
  LET s == eventos[k].s
  IN  /\ eventos[k].clase = "servicio.activado"
      /\ \/ /\ eventos[k].en = "inicio"
            /\ \/ Ultimas(s) = {} /\ Despachado(k)
               \/ \E n \in Ultimas(s) :
                    eventos' = [eventos EXCEPT ![k].en = "escribir", ![k].i = n]
            /\ UNCHANGED renovacion
         \/ /\ eventos[k].en = "escribir"
            /\ renovacion' = [renovacion EXCEPT ![s][eventos[k].i] = NuevaRenovacion]
            /\ Despachado(k)
      /\ UNCHANGED <<proveedor, contratos, dia, estacion, servicio, peticion, cuentas>>

----
(* getStationsByServiceType, which the events of the contracts start.      *)

Enciende(clase) == clase \in {"enable-stations", "enable-multiple-services"}

\* The services that change, and the stations whose last one goes off or whose
\* first one goes on.
PorCambiar(clase, tipos) ==
  {s \in Servicios : /\ HayServicio(s) /\ servicio[s].tipo \in tipos
                     /\ servicio[s].estatus # Enciende(clase)}

\* Wrong form: a station is switched with any of its services.
PorConmutarConCualquiera(clase, cambian) ==
  {servicio[s].estacion : s \in cambian}

PorConmutar(clase, cambian) ==
  {e \in {servicio[s].estacion : s \in cambian} :
     LET activos == {s \in ServiciosDe(e) : servicio[s].estatus}
     IN  IF Enciende(clase) THEN activos = {} ELSE activos \subseteq cambian}

\* What is left of a handler once it has no station to switch: it emits, and
\* the handlers of that event change the services.
TrasEstaciones(k, evento) ==
  IF evento.estaciones # {} THEN eventos' = [eventos EXCEPT ![k] = evento]
  ELSE eventos' = RemoveAt(eventos, k) \o
         (IF evento.servicios = {} THEN <<>>
          ELSE <<[Evento EXCEPT !.servicios = evento.servicios,
                    !.clase = IF Enciende(evento.clase) THEN "enable-multiple-services"
                              ELSE "disable-multiple-services"]>>)

\* The provider is read with its stations and their services, in one query.
LeerRed(k) ==
  LET clase == eventos[k].clase
      cambian == PorCambiar(clase, eventos[k].tipos)
  IN  /\ clase \in {"enable-stations", "disable-stations"} /\ eventos[k].en = "inicio"
      /\ TrasEstaciones(k, [eventos[k] EXCEPT !.en = "buscar", !.servicios = cambian,
                                              !.estaciones = PorConmutar(clase, cambian)])
      /\ UNCHANGED <<proveedor, contratos, dia, red, peticion, cuentas>>

\* enableStation or disableStation of the next one: when findOne throws the
\* handler ends there.
BuscarPorConmutar(k) ==
  /\ eventos[k].en = "buscar"
  /\ \E e \in eventos[k].estaciones :
       IF findOne(e) THEN eventos' = [eventos EXCEPT ![k].en = "conmutar", ![k].e = e]
       ELSE Despachado(k)
  /\ UNCHANGED <<proveedor, contratos, dia, red, peticion, cuentas>>

Conmutar(k) ==
  LET e == eventos[k].e
  IN  /\ eventos[k].en = "conmutar"
      /\ estacion' = IF HayEstacion(e)
                       THEN [estacion EXCEPT ![e] = Encendida(Enciende(eventos[k].clase))]
                       ELSE estacion
      /\ eventos' = [eventos EXCEPT ![k].en = "releer"]
      /\ UNCHANGED <<proveedor, contratos, dia, servicio, renovacion, peticion, cuentas>>

Releer(k) ==
  /\ eventos[k].en = "releer"
  /\ IF findOne(eventos[k].e)
       THEN TrasEstaciones(k, [eventos[k] EXCEPT !.en = "buscar", !.e = "-",
                                                 !.estaciones = @ \ {eventos[k].e}])
       ELSE Despachado(k)
  /\ UNCHANGED <<proveedor, contratos, dia, red, peticion, cuentas>>

\* Wrong form: the same service is updated again and again.
PendientesSiempre(servicios, s) == servicios

Pendientes(servicios, s) == servicios \ {s}

\* disableMultiplyServices and enableMultiplyServices, one UPDATE at a time.
CambiarServicio(k) ==
  /\ eventos[k].clase \in {"enable-multiple-services", "disable-multiple-services"}
  /\ \E s \in eventos[k].servicios :
       LET quedan == Pendientes(eventos[k].servicios, s)
       IN  /\ servicio' = [servicio EXCEPT ![s].estatus = Enciende(eventos[k].clase)]
           /\ IF quedan = {} THEN Despachado(k)
              ELSE eventos' = [eventos EXCEPT ![k].servicios = quedan]
  /\ UNCHANGED <<proveedor, contratos, dia, estacion, renovacion, peticion, cuentas>>
=============================================================================
