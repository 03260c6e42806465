---------------------------- MODULE LibroContrato ----------------------------
(***************************************************************************)
(* The money of one master contract: the row of the master, the rows of    *)
(* its amendments and one row per service type, and the event handlers     *)
(* that charge an order to them.                                           *)
(*                                                                         *)
(* A handler is an activation of an @OnEvent(..., { async: true }) method. *)
(* It loops over the charges of an order (one fund and amount each) and    *)
(* for each awaits a read, an UPDATE of the service's row and an UPDATE of *)
(* the fund's row, with no transaction and no lock: any other activation,  *)
(* or a request that writes committedAmount, may run at every await. Every *)
(* query may reject (the handler logs it and ends) and the process may     *)
(* stop, which loses the activations but not the rows.                     *)
(***************************************************************************)
EXTENDS HandlerAmounts, Sequences, Functions

CONSTANTS Fondos,       \* the master's row and its amendments' rows
          Maestro,      \* the master's
          Servicios,    \* service types the contract covers
          Techo,        \* money each fund is created with
          Tareas,       \* handler activations that can be in flight at once
          Eventos,      \* event types that are emitted
          Llamadas,     \* what handlers are asked to apply
          Reservas,     \* values requests write to committedAmount
          Serial,       \* one activation or request at a time
          ConFallos,    \* queries may reject and the process may stop
          MaxInicios    \* bound on activations and requests started

Cargo == [fondo : Fondos, monto : Int]
Escritura == [fondo : Fondos, valor : Int \cup {NaN}]
Llamada == [evento : TYPE_EVENT, servicio : Servicios, cargos : Seq(Cargo)]

\* What some charges add up to for a fund.
ImporteA(cargos, f) ==
  SumFunctionOnSet([i \in DOMAIN cargos |-> cargos[i].monto],
                   {i \in DOMAIN cargos : cargos[i].fondo = f})

ASSUME FondosAssumption == Maestro \in Fondos /\ Techo \in [Fondos -> Int]
ASSUME LlamadasAssumption ==
  /\ Eventos \subseteq TYPE_EVENT
  /\ Llamadas \subseteq Llamada
  /\ \A ll \in Llamadas : ll.cargos # <<>>
ASSUME ReservasAssumption == Reservas \subseteq Int \cup {NaN}
ASSUME ModoAssumption ==
  Serial \in BOOLEAN /\ ConFallos \in BOOLEAN /\ MaxInicios \in Nat

VARIABLES
  fondo,     \* rows of the master and the amendments
  contrato,  \* rows per service type
  paso,      \* the await each activation is at
  llamada,   \* what it still has to apply
  visto,     \* the rows it read for the charge at hand
  inicios    \* activations and requests started so far

vars == <<fondo, contrato, paso, llamada, visto, inicios>>

Pasos == {"libre", "leer", "leerModificatorio", "escribirContrato", "escribirFondo"}

SinLlamada == [evento |-> "INVOICE_APPROVED", servicio |-> "-", cargos |-> <<>>]
FilaServicioCero == [c \in ServiceColumns |-> 0]
FilaFondoCero == [c \in FundColumns |-> 0]
NadaVisto == [servicio |-> FilaServicioCero, fondo |-> FilaFondoCero]

TypeOK ==
  /\ fondo \in [Fondos -> FundRow]
  /\ contrato \in [Servicios -> ServiceRow]
  /\ paso \in [Tareas -> Pasos]
  /\ llamada \in [Tareas -> Llamada \cup {SinLlamada}]
  /\ visto \in [Tareas -> [servicio : ServiceRow, fondo : FundRow]]
  /\ inicios \in Nat
  /\ \A t \in Tareas : paso[t] # "libre" =>
       llamada[t] \in Llamada /\ llamada[t].cargos # <<>>

----
(* The contract as it is created: everything is available.                 *)

Init ==
  /\ fondo = [f \in Fondos |-> [FilaFondoCero EXCEPT !["montoDisponible"] = Techo[f]]]
  /\ contrato = [s \in Servicios |-> FilaServicioCero]
  /\ paso = [t \in Tareas |-> "libre"]
  /\ llamada = [t \in Tareas |-> SinLlamada]
  /\ visto = [t \in Tareas |-> NadaVisto]
  /\ inicios = 0

Reposo == \A t \in Tareas : paso[t] = "libre"

\* A new activation or request may start.
PuedeIniciar ==
  /\ Serial => Reposo
  /\ inicios < MaxInicios

\* The charge an activation is applying, and the columns it will write.
CargoDe(t) == Head(llamada[t].cargos)
Escribe(f, evento) ==
  IF f = Maestro THEN EscribeMaestro[evento] ELSE EscribeModificatorio[evento]
Columnas(t) == Escribe(CargoDe(t).fondo, llamada[t].evento)

----
(* Steps of an activation.                                                 *)

\* An activation has read what it must apply and enters its loop.
Arrancar(t, ll) ==
  /\ paso[t] = "libre"
  /\ paso' = [paso EXCEPT ![t] = "leer"]
  /\ llamada' = [llamada EXCEPT ![t] = ll]
  /\ UNCHANGED <<fondo, contrato, visto>>

Iniciar(t, ll) ==
  /\ PuedeIniciar
  /\ ll.evento \in Eventos
  /\ Arrancar(t, ll)
  /\ inicios' = inicios + 1

\* The activation is over.
Terminar(t) ==
  /\ paso' = [paso EXCEPT ![t] = "libre"]
  /\ llamada' = [llamada EXCEPT ![t] = SinLlamada]
  /\ visto' = [visto EXCEPT ![t] = NadaVisto]

\* Wrong form: the loop does not stop after the last charge.
SiguienteCargoSinFin(t) ==
  /\ paso' = [paso EXCEPT ![t] = "leer"]
  /\ llamada' = [llamada EXCEPT ![t].cargos = Tail(@)]
  /\ visto' = [visto EXCEPT ![t] = NadaVisto]

\* The charge at hand is applied: on to the next one, or the loop ends.
SiguienteCargo(t) ==
  IF Tail(llamada[t].cargos) = <<>>
    THEN Terminar(t)
    ELSE /\ paso' = [paso EXCEPT ![t] = "leer"]
         /\ llamada' = [llamada EXCEPT ![t].cargos = Tail(@)]
         /\ visto' = [visto EXCEPT ![t] = NadaVisto]

\* An event with no branch in the service writes nothing.
TrasLeer(t, servicio, f) ==
  IF Columnas(t) = {}
    THEN SiguienteCargo(t)
    ELSE /\ paso' = [paso EXCEPT ![t] = "escribirContrato"]
         /\ visto' = [visto EXCEPT ![t] = [servicio |-> servicio, fondo |-> f]]
         /\ UNCHANGED llamada

\* updateMasterContractAmountByOrder: master and services in one read.
LeerMaestro(t) ==
  /\ paso[t] = "leer"
  /\ CargoDe(t).fondo = Maestro
  /\ TrasLeer(t, contrato[llamada[t].servicio], fondo[Maestro])
  /\ UNCHANGED <<fondo, contrato, inicios>>

\* updateAmendmentContractAmountByOrder: the services first ...
LeerContratos(t) ==
  /\ paso[t] = "leer"
  /\ CargoDe(t).fondo # Maestro
  /\ paso' = [paso EXCEPT ![t] = "leerModificatorio"]
  /\ visto' = [visto EXCEPT ![t].servicio = contrato[llamada[t].servicio]]
  /\ UNCHANGED <<fondo, contrato, llamada, inicios>>

\* ... and then the amendment's own row.
LeerModificatorio(t) ==
  /\ paso[t] = "leerModificatorio"
  /\ TrasLeer(t, visto[t].servicio, fondo[CargoDe(t).fondo])
  /\ UNCHANGED <<fondo, contrato, inicios>>

\* Wrong form: a charge to an amendment leaves the service's row alone.
EscribirContratoSoloMaestro(t) ==
  /\ paso[t] = "escribirContrato"
  /\ contrato' = IF CargoDe(t).fondo # Maestro THEN contrato
                 ELSE [contrato EXCEPT ![llamada[t].servicio] =
       escribir(@, handlerAmounts(llamada[t].evento, visto[t].servicio, CargoDe(t).monto),
                Columnas(t))]
  /\ paso' = [paso EXCEPT ![t] = "escribirFondo"]
  /\ UNCHANGED <<fondo, llamada, visto, inicios>>

EscribirContrato(t) ==
  /\ paso[t] = "escribirContrato"
  /\ contrato' = [contrato EXCEPT ![llamada[t].servicio] =
       escribir(@, handlerAmounts(llamada[t].evento, visto[t].servicio, CargoDe(t).monto),
                Columnas(t))]
  /\ paso' = [paso EXCEPT ![t] = "escribirFondo"]
  /\ UNCHANGED <<fondo, llamada, visto, inicios>>

EscribirFondo(t) ==
  /\ paso[t] = "escribirFondo"
  /\ fondo' = [fondo EXCEPT ![CargoDe(t).fondo] =
       escribir(@, handlerAmounts(llamada[t].evento, visto[t].fondo, CargoDe(t).monto),
                Columnas(t))]
  /\ SiguienteCargo(t)
  /\ UNCHANGED <<contrato, inicios>>

\* A query rejects: the catch of the handler logs it and the rest is not done.
Fallar(t) ==
  /\ ConFallos
  /\ paso[t] # "libre"
  /\ Terminar(t)
  /\ UNCHANGED <<fondo, contrato, inicios>>

----
(* The rest of the system.                                                 *)

\* A request of the order service writes the committed amount of a fund.
EscribirComprometido(f, v) ==
  /\ fondo' = [fondo EXCEPT ![f]["committedAmount"] = v]
  /\ UNCHANGED <<contrato, paso, llamada, visto>>

Comprometer(f, v) ==
  /\ PuedeIniciar
  /\ EscribirComprometido(f, v)
  /\ inicios' = inicios + 1

\* Activations are only in the memory of the process.
PerderActivaciones ==
  /\ paso' = [t \in Tareas |-> "libre"]
  /\ llamada' = [t \in Tareas |-> SinLlamada]
  /\ visto' = [t \in Tareas |-> NadaVisto]
  /\ UNCHANGED <<fondo, contrato, inicios>>

\* The process stops.
Caer == ConFallos /\ ~Reposo /\ PerderActivaciones

Avanzar(t) ==
  \/ LeerMaestro(t)
  \/ LeerContratos(t)
  \/ LeerModificatorio(t)
  \/ EscribirContrato(t)
  \/ EscribirFondo(t)

Next ==
  \/ \E t \in Tareas :
       \/ \E ll \in Llamadas : Iniciar(t, ll)
       \/ Avanzar(t)
       \/ Fallar(t)
  \/ \E f \in Fondos, v \in Reservas : Comprometer(f, v)
  \/ Caer

Spec == Init /\ [][Next]_vars
----
(* Properties.                                                             *)

Total(fila) ==
  fila["montoDisponible"] + fila["montoActivo"] + fila["montoEjercido"] + fila["montoPagado"]

\* An event that is written to fund f never writes both of these columns.
FondoSeguro(f) ==
  \A e \in Eventos : ~ ({"montoActivo", "montoEjercido"} \subseteq Escribe(f, e))

\* No amount has a fraction of a cent.
MontosEnCentavos ==
  /\ \A f \in Fondos : EsCentavo(Techo[f])
  /\ \A ll \in Llamadas : \A i \in DOMAIN ll.cargos : EsCentavo(ll.cargos[i].monto)

\* However the handlers of a contract interleave, are lost or stop half way,
\* no money leaves the two pairs available + active and executed + paid of a
\* fund on which no event moves money from active to executed: each UPDATE
\* writes a pair computed from one read (contratos.service.ts 648-652, 672-675).
ParesConservados ==
  MontosEnCentavos =>
    \A f \in Fondos : FondoSeguro(f) =>
      /\ fondo[f]["montoDisponible"] + fondo[f]["montoActivo"] = Techo[f]
      /\ fondo[f]["montoEjercido"] + fondo[f]["montoPagado"] = 0

\* One activation at a time, every event keeps the four amounts of a fund
\* adding up to what the contract was created with, also when the activation
\* stops after the first of its two UPDATEs.
TechoConservado ==
  (Serial /\ MontosEnCentavos) => \A f \in Fondos : Total(fondo[f]) = Techo[f]

\* With amounts that have fractions of a cent, handlers that run one at a time
\* create or destroy at most a cent of a fund per step, by rounding both sides
\* of a transfer (handler-amounts.ts 76-89).
DerivaAcotada ==
  [][Serial => \A f \in Fondos : LET d == Total(fondo'[f]) - Total(fondo[f])
                                IN  d <= Centavo /\ -d <= Centavo]_vars
=============================================================================
