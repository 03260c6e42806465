# Formal verification of csge-backend

The backend (NestJS, TypeORM over PostgreSQL) keeps the advertising contracts of
a government: how much of each contract is available, reserved, active, executed
and paid; the campaigns, orders and invoices that move that money; the documents
that officials sign for it; and the providers, stations and services that the
contracts cover. This directory holds TLA+ models of it, the TLC runs that check
them, and theorems about the ledger, the orders, the invoices, the campaigns, the
contracts and the signed documents, checked by TLAPS.

Paths below are relative to `src/src/` of the repository.

## 1. The system

### Parts, state and operations

| Part | State | Operations | Model |
| --- | --- | --- | --- |
| Amounts (`contratos/contratos/functions/handler-amounts.ts`) | none: decimal arithmetic on a row | `handlerAmounts`: six events move a total between columns, then round to cents | `HandlerAmounts` |
| Ledger of a contract (`contratos.events.service.ts`, `updateMasterContractAmountByOrder`, `updateAmendmentContractAmountByOrder`) | a row of the master, one per amendment (`montoDisponible`, `committedAmount`, `montoActivo`, `montoEjercido`, `montoPagado`), one per service type | one activation per event, which loops over the breakdown of an order | `LibroContrato`; its promise is `LibroAbstracto` |
| Available amounts (`getAllAvailableAmounts`) | reads the funds | which funds cover an order | `FondosDelContrato` |
| Service orders (`ordenes/orden`) | status, total, breakdown, folio | `create`, `update`, `remove`, `sendToSigningOrder`, `cancelarOrden`, `updateOrderStatus` | `OrdenContrato` |
| Invoices (`ordenes/factura`) | status, payments, order | `create`, review, `updateStatus`, `cancelInvoice`, the payments file, four handlers | `FacturaFirma` |
| Campaigns, activations, matches (`campañas`) | status of each, amounts of a match | `create`, `update`, `remove`, `sendToSigning`, `closeCampaign`, `createActivation`, handlers of approvals and charges | `Campania` |
| Contracts and amendments (`contratos`) | status, types, dates | `create`, `update`, cancellation, `remove`, the daily job | `ContratosProveedor` |
| Providers, stations, services, renewals (`proveedores`) | flags of each, the last renewal | creation, enable and disable, the cascades that contracts start | `Proveedor`, `Estaciones` |
| Signature documents (`firma/firma`) | what is signed, by whom, status, ticket, url | `create`, choice of signers, seals, `documentSigning` | `Firmantes`; what a signature does: `OrdenContrato`, `FacturaFirma`, `Campania` |
| Webhooks (`webhooks`) | none | `original_signed`, `document_completed`, `document_rejected` | the same four |
| Users (`administracion/usuarios`, `auth`) | status, password, permissions, what they sign | `create`, `update`, deactivation, permissions, passwords, login, token check | `Usuarios` |
| Catalogues, colours, contacts, municipalities, agencies, billboards | rows, references, the primary colour | create, change, remove | `Catalogos` |
| Seed (`seed`) | none: writes the tables above | one endpoint per list, one for all | `Siembra` |
| Reports, documents, files | object storage | read and format | not modelled |
| Logger, interceptors, filters | none | plumbing | not modelled |

### How they interact

* HTTP requests call services; a service awaits one query after another. There
  is **no transaction and no lock** anywhere: between two awaits of one request
  any other request or handler may run.
* Parts talk through an in-memory `EventEmitter2`. Handlers declared with
  `{ async: true }` start after the emitter has returned and interleave at every
  await; the others (`disable-provider`) run up to their first await inside
  `emit`. They catch and log every error, so an event is tried once. A stop of
  the process loses all of them.
* Signatures come from an external provider. It is given a copy of a document
  (`documentSigning`) and notifies `original_signed`, `document_completed` or
  `document_rejected` at any later time, possibly more than once.
  `receiveWebHook` does not await what it starts, and nothing remembers that a
  notification was handled.
* A completed document of an order or an invoice emits events for the ledger,
  the status and the match; one of a campaign emits one for its status and one
  that charges and activates all of its orders. The document itself is saved
  after that.
* A contract that is signed, cancelled, removed or expires emits events for its
  provider and for the services of its types; those for their stations.
* TypeORM's `update` writes the columns that it is given. Its `save` of an entity
  SELECTs the row again and UPDATEs the columns, loaded relations included, in
  which the entity differs from it: a save some awaits later brings old values
  back, and one whose SELECT and UPDATE are apart may leave a row with columns of
  two writers.

### What is hard

* *Read, compute, write.* A charge of the ledger or of a match reads a whole
  row and writes absolute amounts several awaits later (lost updates).
* *Two UPDATEs per charge*, and one charge per item of a breakdown: any may be
  the last one.
* *Check, then act.* `create` of an order, a contract, a renewal or a catalogue
  row looks first and inserts later; a campaign commits before it saves.
* *Saving old rows.* Orders, invoices, campaigns with their activations, users
  and documents.
* *Repeated, reordered, late and lost* notifications and events; files of
  payments that are sent again or overlap.
* *Half done*: cancelling a contract with its amendments, creating a campaign
  with its match and activation, closing it, seeding a list.
* *Decimal corners*: rounding both sides of a transfer, `Number(undefined)`
  stored as `NaN`, orders of exactly what is left.

`PROJECT.json` ("hazards") has 40 of these at their lines, with the properties
that would notice each of them going wrong, and says which do go wrong and are
excluded by the properties rather than caught.

### What makes each part correct

* Ledger: money is moved, not made; service rows and fund rows tell the same
  story; every handler ends.
* Orders: what is committed is what the unsigned orders took, no fund gives more
  than it has, money becomes active only with a signature.
* Invoices: paid only when covered by payments, no payment twice, nothing
  approved or paid without its signatures; executed and paid money follows them.
* Campaigns: one current activation, approved or cancelled only when signed with
  all its orders settled, matches that balance, closed ones that are final.
* Contracts and network: a service is active while a live contract covers its
  type; no two live contracts cover one type; what is cancelled is cancelled with
  its amendments; what is past its date ends.
* Documents and users: invoices sealed by a signer they name, signed only if the
  provider said so; passwords change only by request.
* Catalogues and seed: no gaps, one primary colour, units that exist.

## 2. Modules

```
HandlerAmounts
  └─ LibroContrato ── LibroRefina ─────────────── MCLibroContrato   libro_*.cfg
       │   (LibroAbstracto: refined by LibroRefina and MCOrdenContrato)
       ├─ OrdenContrato  (+ FondosDelContrato) ── MCOrdenContrato   orden_*.cfg
       ├─ FacturaFirma ───────────────────────── MCFacturaFirma    factura.cfg
       └─ Campania       (+ FondosDelContrato) ── MCCampania        campania.cfg
Proveedor ── Estaciones ── ContratosProveedor ── MCContratosProveedor
                                              contratos.cfg, contrato_nuevo.cfg
Usuarios ── Firmantes ── MCFirmantes          firmantes.cfg
Catalogos ── Siembra ── MCSiembra             siembra.cfg

Proofs
LibroContratoProofs (+ LibroRefina, FondosDelContrato)
  ├─ OrdenContratoProofs (+ OrdenContrato) ── OrdenSerialProofs
  ├─ FacturaFirmaProofs  (+ FacturaFirma)
  └─ CampaniaProofs      (+ Campania) ─────── CampaniaSerialProofs
ContratosProofs (+ ContratosProveedor)
FirmantesProofs (+ Firmantes)
```

Names keep the source's. `PROJECT.json` ("map") gives the lines behind every
definition. Definitions introduced as "Wrong form" are plausible bugs that show
that the properties notice them; no specification uses them.

In every module a request, a handler or a notification in flight is a record
that says which query it does next (`en`, or `paso[t]`), and what it read and
still holds. One action is the code between two awaits: what the query returns,
the guards and early returns after it, the assignments, the events emitted. An
event that is emitted becomes a handler in flight at once, and its first action
may come at any later time.

**HandlerAmounts.** Money is an integer number of units; `Centavo` units make a
cent. `NaN` is a value outside the integers that absorbs sums and differences.
`Suma` and `Resta` are the `switch`; `EscribeMaestro` and `EscribeModificatorio`
the columns of each event's `UPDATE`s, which differ between the two services.
Columns are unbounded `numeric`, so integers have no width.

**LibroContrato.** `fondo` and `contrato` are the rows; `paso[t]` is the await an
activation `t` is at, `llamada[t]` what it still has to charge, `visto[t]` the
rows it read. `EscribirContrato` and `EscribirFondo` are the two `UPDATE`s,
computed from `visto`. `Fallar` is a rejected query, `Caer` a stop of the process,
`Comprometer` a request that writes `committedAmount`. `Serial` lets one
activation run at a time, `ConFallos` allows failures. **LibroAbstracto** has one
indivisible step per charge.

**FondosDelContrato.** `getAllAvailableAmounts` as a fold over the funds, and the
committed amounts written from it, `NaN` for a visited fund that gives nothing
although its available amount is not zero.

**OrdenContrato.** `pedido[h]` is a request, `firma[d]` a document, `entrega[e]`
what is left of the `e`-th notification of a document; an activation of the
ledger belongs to each of those. `ClienteRegular` restricts clients to the
signing flow: they remove only orders that were never sent, send an order to be
approved once, and its cancellation once it is active.

**FacturaFirma.** `factura[f]` with its list of payments, `estatusOrden[o]`,
`peticion[h]` (create, sending to signing or to cancel, a payments file that goes
row by row), `documento[d]`, `aviso[e]` with the handlers it started. The charges
are activations of the ledger. `create` reads its list of orders as one id, so an
invoice has one order. `Antes` are the invoices that were approved before the
behaviour starts. `updateStatus` and the payments file write with `update`, every
column they hold; the check of an invoice and its sending to cancel `save` it in two steps,
`Comparar` (its SELECT, which finds the columns that differ) and `Guardar` (the
UPDATE of these). `mezcladas` are the invoices that such a save has left with
columns of two rows.

**Campania.** `campania[c]`, `activacion`, `partida`, `orden`, `documento`, and
the requests and handlers over them. A campaign that is saved with the
activations it was read with takes those that were made meanwhile from it. The
approval handler charges each order to the ledger and activates it, one after
another. `cobro[k]` is a handler that charges the match of the last activation.
The orders come from outside: some exist (`Pendientes`), a request makes others
through `FondosDelContrato`.

**Proveedor, Estaciones, ContratosProveedor.** Tables of a provider, `eventos` the
handlers in flight, `peticion[h]` requests. `Medianoche` changes the day,
and the job at 7:00 expires contracts one by one, each with its cascade. Amounts
and orders are those of the other modules: here an order that forbids a `DELETE`
is a failure. A disturbed run is one with an overlap of arrivals, a failure or a
request that a regular client does not send, counted in `incidentes`.

**Usuarios, Firmantes.** `usuario[p]` a row, `sesion` tokens; `documento[d]` with
the signers that it named when it was made, `copia[k]` what the provider has,
with the seals it carries. Anybody who is logged in opens any document:
`documentSigning` compares nobody, and `checkInvoice` ("cotejar") makes its document and opens
it for its caller. A
notification about a copy that no document names rejects in a promise nobody
awaits: the process stops.

**Catalogos, Siembra.** `hay` are the rows there are, `ref` and `unidad` what they
refer to, `primarios` the primary colours. Each table has a record that says how
its service behaves (what it looks up, whether duplicates are refused, how it
writes, whether it removes). A `save` is `Comparar` and `Guardar` here too, so that
the kind of a characteristic and its unit may be of two requests. An endpoint of the seed is a program: a list of
lists, inserted one row at a time; some swallow errors and answer success, some
stop at the first.

### What is abstracted

* The total of an order or an invoice is an input: prices, quantities and tax are
  not computed, and the code never compares an invoice with its order. A folio
  is a number.
* One provider, one master contract and one service type of orders per instance
  of the ledger modules; the amendments that extend the amount are a fixed list.
* In `OrdenContrato`, contracted services exist only as what makes `create` and
  `update` fail when their order is gone.
* Elsewhere a `save` is one step that writes the row held. What the properties of
  those modules say of overlaps is of one column of a row (the status of an order
  or a campaign, that a document is signed, a password), or of two that one
  writer changes together and that always differ together (ticket and url); the
  others exclude overlaps.
* In `Campania` saving an activation saves the columns of the activation; the
  cascade that also writes back the match it was read with can only bring old
  amounts back when requests overlap, where no property of the matches is stated.
  `original_signed` and `document_rejected` of a campaign change the
  document and nothing else: they are in `Firmantes`.
* `firma.service.ts` `updateDocumentByDocumentIdAndActivation` and
  `campañas.service.ts` `checkCampaignsExpiration` have no caller and no schedule;
  the handler of `orders.remove` has no emitter; the endpoint
  `modificar-estatus` of contracts hands the whole body to `changeStatus`, which
  the enum of the column refuses, so it never changes a row; `PATCH` of an
  activation brings dates, which its DTO refuses as JSON has them, and two ids that are no
  columns of its entity, so the model has nothing for it to write; `remove` of an
  invoice does nothing; a rejected document of an invoice changes nothing.
* In `ContratosProveedor` the change of the day is one step with the daily job,
  and a provider is not removed. Ids that were removed are not used again, neither
  there nor in `Campania` (`Nombrada`): ids are UUIDs.
* The `DELETE` of an activation, and the endpoints that create, change, remove or
  switch off a match by itself, are not in `Campania`: its activations and matches
  come and go with their campaigns.
* In `FondosDelContrato` totals are positive, so a rest of zero means that a fund
  has been used; the master is the first of a breakdown, so a request of `Campania` that
  gives charges back needs one place for the amount it read.
* In `Estaciones` a service that a client creates is an irregular request: it is
  active whatever the contracts say, so `ServiciosSegunContratos` is not about
  behaviours with one.
* In `Firmantes` the lists of pending documents are left out, because nothing
  compares what is opened with them. Which role may
  call what is reduced to `Administran`; hashes and tokens are values.
* In `Catalogos` the columns that identify a row do not change: a rename is a
  removal and a creation. Rows with the same data in a table that allows them
  are one row.

## 3. Runs

`tlc -config <run>.cfg <MC module>`. All bounds are constants of the
configurations.

| Run | Question | Properties | States |
| --- | --- | --- | --- |
| `libro_concurrente` | Two interleaving handlers with failures and crashes on a master and an amendment | `TypeOK`, `ParesConservados` | 1.9 M |
| `libro_serial` | Do the two `UPDATE`s of a charge amount to an atomic one? | `TechoConservado`, `ImplementaLibro` | 15 k |
| `orden_regular` | Orders over two funds, one thing at a time, regular clients | `TypeOKOrden`, `ReservaCuadra`, `SinSobregiro`, `EstatusSegunFirmas`, `OrdenesEnLibros` | 38 k |
| `orden_concurrente` | Two orders, two requests at once, two notifications per document, failures, crashes, any client | `ActivoConFirma`, `ActivaConFirma` | 372 k |
| `orden_vivo` | Does everything end, with two requests at once? | `TodoTermina`, `NotificacionSurteEfecto` | 56 k |
| `orden_pendiente` | Is a `PENDIENTE` order one that was not activated? | `PendienteSinActivar` (violated) | few |
| `factura` | Two invoices signed, paid by files that repeat rows, and cancelled | `PagadaCubierta`, `PagoSinDuplicado`, `PagosConAprobacion`, `LibroSegunFacturas`, `TodoAcaba` | 415 k |
| `campania` | A campaign with orders, renewed, another one created | `TypeOKCampania`, `UnaVigente`, `AprobadaConFirma`, `CampaniaConDocumento`, `ReservaDeCampania`, `PartidaCuadra`, `PartidaCerrada`, `TodoAcaba` | 573 k |
| `contratos` | Three contracts, two amendments, two nights, a network of two stations | `TypeOKContratos`, `ServiciosSegunContratos`, `UnSoloContratoPorServicio`, `CanceladoCompleto`, `VencidosTerminados`, `UnaUltimaRenovacion`, `TodoAcaba` | 663 k |
| `contrato_nuevo` | Does a new contract enable its provider? | `NuevoContratoHabilita` (violated) | few |
| `firmantes` | Three users, two documents, two copies | `FirmadoConCopia`, `CopiaSellada`, `CopiaDeSuDocumento`, `ContrasenaConservada` | 1.1 M |
| `siembra` | Seeds twice at once, half way and again, next to clients | `SiembraSinHuecos`, `UnColorPrimario`, `UnidadLegible` | 4.2 M |

### What they show

**Ledger.** Concurrency loses charges, but never breaks the pairs
`montoDisponible + montoActivo` and `montoEjercido + montoPagado` of a fund,
because each `UPDATE` writes a pair computed from one read; the condition is
that no event moves money *between* the pairs (`FondoSeguro`): with
`INVOICE_CANCELLED`, or for an amendment with `INVOICE_APPROVED`, an
interleaving can break them. Without overlap the ledger implements the atomic
books, and the four amounts always add up, even when a handler stops between its
two `UPDATE`s (theorem `TechoSiempre`).

**Orders.** With one thing at a time and regular clients, orders, documents and
ledger agree to the cent, and no fund is overdrawn. None of this holds for
concurrent `create` requests, or for a `remove` after a cancellation was sent to
signing. Whatever is repeated, lost or interleaved, money becomes active only
through notified approvals, and an order is active only if its approval was
signed.

**Invoices.** Whatever overlaps, no payment is registered twice, nothing is
approved or paid without a signature, and the status agrees with the payments as
long as both are written from one read. A `save` may part them: an invoice is
checked while a file registers a payment between its SELECT and its UPDATE, and
ends `PAGADA` with the payments of a part of it, or the contrary; `PagadaCubierta` leaves such
rows out. That no payment is *lost* holds only without overlaps. An invoice that is reviewed does not reach the ledger
(`INVOICE_REVIEWED` is not what the handlers send), so what is paid leaves
`montoEjercido` negative; `LibroSegunFacturas` states these amounts exactly.

**Campaigns.** Undisturbed, a campaign has one current activation through any
sequence of closings and renewals, its approval, cancellation and closing settle
every order, and its matches balance and are final once closed. Whatever
happens, nothing is approved or cancelled without a signature. The approval of a
campaign charges the ledger but emits no event for the match. A campaign whose
document is rejected stays `PENDIENTE`: no request accepts it any more.

**Contracts and network.** Undisturbed, services follow the live contracts. An
extension of the term reopens a contract without looking at the others or at its
services, and the properties exclude it where it matters. Even when it fails
halfway, a cancellation leaves no live amendment, because the amendments go
first.

**Documents and users.** Overlaps can put one document at the provider twice;
still the ticket and the url of a document are of one copy of it. Anybody may
open any document; a copy of an invoice bears the seal of a signer all the
same, because `createStickers` adds the first of its approvers, and gives up
when there is none. Saving old
rows brings back permissions and status, never a password, except in
`removerPermisos`, which saves the one it read.

**Seed.** An endpoint that stops at its first error leaves the beginning of its
lists and cannot complete them when it is called again, because it stops at its
first row. The list of providers ends without an error at the row whose RFC is
refused and answers success, and contracts are never inserted, with the same
answer. Two `PATCH`es of colours at once leave two primary ones.

### Disagreements with the comments

* `orden_pendiente`: `sendToSigningOrder` makes an order `PENDIENTE` whatever the
  action of the document. An active order that is to be cancelled becomes
  `PENDIENTE` while its money is active; the comment of the status
  (`ordenes/orden/interfaces/estatus-orden-de-servicio.ts:6`) says that such an
  order was never activated.
* `contrato_nuevo`: the comment of the handler of `enable-provider`
  (`proveedores/proveedor/proveedor.events.service.ts:25-26`) says that a new
  contract enables the provider. `create` emits the event before it saves the
  contract, the handler counts the live contracts there are, and for a first
  contract there may be none yet.
* Recorded without a run: `proveedor.events.service.ts:11-13` says that a provider is
  disabled when its only contract is cancelled, and no cancellation emits that
  event; `firma/firma/firma.service.ts:265` tells the user that only pending
  orders can be sent to be approved, while line 263 accepts active ones.

### Why the bounds are enough

Lost updates need two activations, so two requests or handlers are in flight at
once (`Hilos`, `Tareas`), with a later one to see what they left. One amendment
next to the master gives every kind of breakdown. Totals of 1 and 3 over funds
of 2 give an order the master covers, one that needs the amendment, one that
takes exactly what is left, and one not covered. Two notifications per document
(`MaxAvisos`, `MaxEntregas`) are the first repetition.

The large modules have sequences of legal calls *and* disturbances, whose product
is out of reach. There `MaxIncidentes = 1`: a behaviour has long undisturbed
sequences, or one overlap, failure, stop, repeated notification or irregular
request at any await of a shorter one; `Coste` is how many arrivals such an
incident counts for. A property either holds whatever happens, or its comment
names the incidents that it excludes.

* `factura`: `MaxInicios = 7` is create or approve, two files, a cancellation with
  its two signatures, and repetitions. `Antes` starts from approved invoices, so
  that paying is reached early; the files pay in full, in two halves, and repeat
  a row.
* `campania`: `MaxInicios = 6` is approve, close, renew and approve again.
  `Pendientes` are two orders made before, one over both funds.
* `contratos`: `Dias = 2` and contracts that end on days 0 and 1 give expiry,
  extension and expiry after it. One more contract overlaps with either of the
  others.
* `firmantes`: `MaxLlegadas = 4` is make, open, notify, and one more of these or a
  change of a user; `Administran` and `Papeles` limit who asks and what is made.
* `siembra`: `MaxLlegadas = 3` is two calls of endpoints and a client, or the
  contrary; `Cuantas` gives two rows to the lists where a row in the middle
  matters; `MaxNombra` is how many relations a client names; clients find two
  units of one kind and one of another, so that two changes of a characteristic
  may leave a kind and a unit that do not go together.

**Deadlock** is not checked: the system may be at rest, and the bounds stop the
clients.

**Symmetry** is used only where no liveness is checked: activations in
`libro_concurrente`, orders and requests in `orden_concurrente`, requests and
copies in `firmantes`, requests in `siembra`.

**Fairness.** `FairSpecOrden` gives weak fairness to each process: a request or
handler that is at an await goes on. In `FacturaFirma`, `Campania` and
`ContratosProveedor`, `WF(Progreso)` says that while something is in flight, some
step of something in flight is taken; that is less, and enough for "everything
ends", because every one of them is a finite sequence of steps. The driver
settles every query and the event loop starts every handler that was emitted. A
failure or a stop ends what it hits. Nothing is assumed of clients or of the
signing provider. No strong fairness is needed, because no step waits for
another process.

**Refinement.** `ImplementaLibro` (in `LibroRefina`) and `OrdenesEnLibros` are `LibroAbstracto!Spec`
under a mapping in which the row of a service type keeps its old value until the
fund has been written too: `EscribirContrato` is then a stutter, and
`EscribirFondo` is the charge. It is checked with one thing at a time; with
overlap it does not hold.

## 4. Theorems

`tlapm` on the eight modules with proofs checks them. They hold for every value of
the constants that satisfies the named assumptions of the modules
(`CentavoAssumption`, `NaNAssumption`, `FondosAssumption`, `LlamadasAssumption`,
`ReservasAssumption`, `ModoAssumption`; `EntregasAssumption` and
`OrdenesAssumption`; `FacturasAssumption`; `CampaniasAssumption`;
`ProveedorAssumption` and `ExistentesAparte`; `UsuariosAssumption` and
`FirmantesAssumption`), and for the hypotheses that a theorem names. They say that
tables and ids are finite, that nothing is called `"-"` (what a null is), and that
the initial rows are rows that the code makes: a charge list that is not empty, a
service only where there is a station, existing contracts that
`verifyServiceExistsOnce` let through (`ExistentesAparte`).

### Ledger (`LibroContratoProofs`)

* `RedondeoAcotado`, `RedondeoEntero`, `EnterosCerrados`: rounding gives a whole
  number of cents within half a cent, leaves whole cents alone, and whole cents
  are closed under sums and differences.
* `TipoCorrecto == Spec => []TypeOK`. `TypeOK` is inductive: it includes that an
  activation in flight has a legal call with a charge left, which is what
  `Head` and `Tail` need.
* `ParesSiempre == Spec => []ParesConservados`, for any number of funds, service
  types, activations, calls and events, any interleaving and any failures.
  `ParesConservados` alone is not inductive: an activation may hold an old row
  and write it. `ParesInv` adds that every row *held* by an activation at one of
  its writes has the same pairs (`VistoPar`), that what it charges is a whole
  number of cents (`LlamadaLegal`), and that every amount of a fund is one, so
  that rounding does nothing (`RedondeoEntero`). The heart is `EscrituraDePar`:
  the columns of one event, computed from a row with these pairs, written on any
  row with these pairs, keep them.
* `TechoSiempre`: when handlers run one at a time (`Serial`) the four amounts of
  every fund add up to what it was created with, for amounts in whole cents, for
  *every* event, and with failures and stops. The strengthening `TechoInv` adds
  that only one activation is in flight (`TareaSola`), and that at its write of
  a fund what it holds is the row that is there, so that all its columns come
  from one row.
* `DerivaSiempre == Spec => [][DerivaAcotada]_vars`: with fractions of a cent, no
  step of handlers that run one at a time changes the sum of a fund by more than
  one cent. `DerivaInv` again needs that the row held is the current one
  (`LecturaVigente`); `TransferenciaRedondeada` bounds one rounded transfer by the
  two roundings, and `EscrituraCerca` the write of a fund.
* `LibroRefinado`: under `Serial` and without failures, the ledger implements
  `LibroAbstracto`. Initial states map to initial states, `EscribirFondo` to the
  charge, every other step to a stutter. `RefinaInv` says that an activation is
  alone, that the rows it holds are those that are there, and that between the
  two `UPDATE`s the row of the service is the one that the charge gives.

The first two hypotheses are what bounded runs of failures between the two
`UPDATE`s, and of halves of a cent, could only sample: those runs are not kept.

### Orders (`OrdenContratoProofs`, `OrdenSerialProofs`)

* `TipoOrden == SpecOrden => []TypeOKOrden`, with `TypeOK` of the ledger under it.
  `TipoInv` says for each await what a request holds there (`EnSuSitio`): an order
  that exists or is being made, a plan of funds that covers it.
* `ActivaSiempre`: an order is active only with a notified approval, whatever
  overlaps. A request saves a whole row that it read long before, so `ActivaInv`
  says the same of every row *held*; that a signature stays is what makes old
  rows harmless.
* `ActivoSiempre`: the active money of a fund is at most the largest total for
  each notified approval. The hypotheses are amounts in cents (`Centavo = 1`) and
  that the largest total is defined. The proof has to know that no charge
  of an order is larger than the order, which is a fact about the plan of
  `getAllAvailableAmounts` (`PlanBien`: each fund once, the master before the
  others, and what is used adds up to what was asked), that each notification charges a fund at most once
  (`Puede`: it may still do so), and that a lost update only ever *drops* a charge:
  the amount read is bounded by the notifications that cannot charge this
  fund any more (`ActivoHasta`).
* `EstatusSiempre`, `ReservaSiempre`, `SobregiroSiempre` assume `Regular`: requests
  and notifications take turns, clients follow the signing flow, nothing
  fails, and the provider notifies once. Each is about a state at rest or about a
  handler halfway, and none is inductive. `RegularInv` says who has the turn, what
  each request may still do, and that an order being notified has
  the status that the rest of its handlers will give it. `LibroInv` says at
  *every* await how far the books are from what the orders took: a request
  that has committed and not saved (`EnCurso`), a notification that has charged
  some funds of its breakdown (`PorAplicar`).
* The last two assume `Dinero` as well: whole cents, funds that start with
  something to give (`Techo[f] \in Nat`), and no `actualizar`, which changes the
  total of an order and not its breakdown. The run has the same restrictions.

### Invoices (`FacturaFirmaProofs`)

The first three have no hypotheses besides the assumptions, which say that the
tables of invoices, orders and funds are finite.

* `SinDuplicadoSiempre`, `AprobacionSiempre`: no payment twice, no approval and
  no payment without a signature, in any interleaving, with any failures. `FilasInv` says of every row
  in the table *or held* by a request or a handler that it registers none twice, and that its approval
  was notified, and of every row outside `mezcladas` that
  its status agrees with its payments. Two saves from old rows may lose a payment. A row that mixes
  columns of two writers is recorded in `mezcladas`; its payments are still those of
  one of them and its status too, so that both theorems hold for it as well.
* `PagadaSiempre`: the same for the status of the invoice, those in `mezcladas` left
  out, and, as long as nothing
  overlapped, an order is paid only if one of its invoices is covered. That part
  is an invariant of a use, `incidentes = 0 => EnTurno`: one request or
  notification has the turn (`Turnos`), the row it holds is the one in the table
  (`HiloAlDia`, `AvisoAlDia`), and the paid invoices that a file collected or
  that `invoice.paid` is charging are covered.

* `LibroFacturas`: when nothing overlapped or failed and nothing is in progress,
  each fund has paid what the orders of the covered invoices take from it, once
  each, and a notified cancellation made the money of its order active again;
  for any number of invoices, orders and funds, files of any length, and
  notifications repeated any number of times. `LibroInv` says at *every* await how
  much the ledger is owed: by a file, the orders of the invoices that it has
  covered and not charged, through the hand-over to `invoice.paid` (`DebeHilo`); by
  a cancellation, its order from the moment it is notified (`DebeAviso`); by an
  activation at work, the charges that it has left (`Pendiente`). Whoever has the
  turn owes all of the difference (`Cuentas`), and what an activation read is
  what the tables have (`LeidoAlDia`), so its two `UPDATE`s move exactly one charge.
  An approval leaves the books alone, for two reasons: on the master it
  writes nothing, on an amendment it writes back the values it read.
  Two hypotheses: amounts are whole cents (`Centavo = 1`), and no invoice is for
  nothing (`0 \notin Totales`). `create` takes the total of the XML as it comes;
  an invoice for zero would be covered without a payment, and never charged.

### Campaigns (`CampaniaProofs`, `CampaniaSerialProofs`)

No hypotheses besides the assumptions, except where one is named.

* `TipoCampania`: `TipoInv` says for each await what a request holds there
  (`EnSuSitio`): rows it read of activations that there are, a match that was
  inserted, orders with their charges; and that the ids for matches and
  activations that requests still have to insert are within the bound
  (`PorPartir`, `PorActivar`). Tables only grow (`Creciente`), so a row that is
  good for a held id stays there.
* `FirmasDeCampania`: nothing is approved or cancelled without its signature, in
  any interleaving and with any failures. `FirmaInv` says that no two requests
  write one document or one order, that the orders which handlers hold are
  of the campaign of their document, and that the ledger works only for a
  handler that is charging. The last part, that an approved campaign has the
  signature *of its last activation*, is of undisturbed behaviours and comes from
  `SerieInv`.
* `DocumentosDeCampania`, `PartidasCerradas`, and the part above, rest on
  `SerieInv == incidentes = 0 => EnSerie`: one thing is in progress at a time
  (`Solo`); what a request read and will save is what is in the table
  (`FirmaSeria`, `CierreSerio`, `ActualizacionSeria`, `RenovacionSeria`); a document
  that is still to be completed is of the last activation of a campaign that
  waits for it, or whose request is about to make it wait (`DocumentoSerio`);
  the handlers find the campaign as the request left it (`AvisoSerio`); a match
  is charged as it was read, while it is open (`CobroSerio`). None of
  these is inductive without the others: who waits, for what and with which
  activation is one fact kept in three tables.
* `PartidasCuadran`: the matches have what orders brought and invoices moved, when
  totals are whole cents (`TotalesEnCentavos`). `CuadraInv` adds that every column
  is in cents; that the row held is the one there (`CobroSerio`) makes the absolute
  amounts that are written a transfer.
* `UnaActivacionVigente`: one active activation, the last, with the open match, and
  numbers that count. Creating, renewing and closing a campaign break
  it between their queries; `VigenteInv` (`EnVigor`) says that a campaign is either in order
  (`Vigente`) or *the* campaign of the request in progress, and `Obra` what is done and
  what is left at each of its awaits. A number is a count of rows with a lower id,
  which is why no row may change its campaign (`PartidasAparte`, `SinRestos`).
  `CampaniasAssumption` lets a removed order id not come back (`Nombrada`).
* `OrdenesSegunCampania`: the orders of the last activation have the status that
  their campaign has given them. An approval and a closing change them one at a time;
  `OrdenInv` says which of them a handler has done and which it holds
  (`AvisoAsentado`), and which a closing has still to remove (`OrdenesDePeticion`).
  No run checks it: `ReservaDeCampania` contains what it says through the sums.
* `ReservasDeCampania`: no cent is lost or counted twice. At rest each fund has
  committed what its waiting orders take and has active what its active orders
  take, for any number of orders, funds, campaigns, closings and renewals. The
  approval of a campaign and its closing settle its orders one charge at a time, so
  none of this is inductive: `LibroInv` says at *every* await how far a fund is from
  its orders (`Cuadra`). A request that is adding an order has committed what it
  has already written of its plan, and a request that removes one has given back the charges
  that it no longer holds (`Adelanto`). A handler has
  moved the charges of its order that it has not left to move (`Aplicado`), from
  committed to active when it approves. `ManosDe` keeps the reads that a later write
  depends on: the amounts of a plan are the current ones plus the charge,
  and the master, read once per order, is charged first and once
  (`MaestroPrimero`), or its second write would undo the first.
  Hypotheses (`DineroBien`): whole cents (`Centavo = 1`), and initial orders that `create` could
  have made: no negative charge, the master first, and together within the
  amount of each fund. The instance of the run satisfies them.

### Contracts (`ContratosProofs`)

* `TipoContratos`: what a cascade is about to touch is there, and amendments stay
  within the bound because requests that may still insert one are counted with
  them (`PorInsertar`).
* `ContratosCancelados` holds with failures and stops anywhere. `CancelaInv` says
  what a request in progress knows: a cancellation holds every live amendment of
  its contract until the last one is cancelled, and no
  extension is about to be inserted under a cancelled contract (`SabeDeBajas`).
* `ServiciosAparte`: two live contracts share no type. `AparteInv` says it also for
  the contract that is being created, between the check and the insert
  (`SabeDeTipos`), and that only an extension of the term reopens a contract
  (`SabeDeTerminos`); the property excludes those.
* `RenovacionesUnicas`: `RenuevaInv` says that a service has no last renewal only
  while the request that retired it is about to insert the next one (`ConUltima`).
  It is the only part of it that a failure breaks.
* `DiaTerminado`: after the daily job and its cascades no live contract is past
  its date, and a provider with no live contract is off or about to be. `VenceInv`
  says which contracts the job has left at each await (`SabeDelDia`), and which
  event it has asked for once it is done (`DiaRevisado`).
* `ServiciosDeContratos`: the services and stations of a provider are what its live
  contracts ask for, once all cascades have ended. `RedInv` says what they *will*
  be: at most one event in progress switches stations or services (`Unica`), and
  `Futuro(v, s)` is what the rest of its handlers makes of each service. Between the
  await at which a request tells the stations and the one at which it writes its
  contract, the two disagree by known types (`Alto`, `Bajo`: those that may be on and
  those that must be). A station will be on, once the
  event has switched those it has left, exactly when one of its services will be
  (`EstacionesSegun`). It rests on the other invariants: a removal takes away no type of another live contract
  (`AparteInv`), and no handler fails for want of a last renewal (`RenuevaInv`).

### Documents and users (`FirmantesProofs`)

* `ContrasenaSiempre` (an action property): a saved row never brings a password
  back. `UsuariosInv` says what the row held by each request has for a password:
  nothing, the one in the request, or, for `removerPermisos`, the one it read.
* `SelloSiempre`: a copy of an invoice bears the seal of a signer that its document
  named when it was made, and one to cancel no other. The signers of a document
  never change once it is made, also when an old row of it is saved
  (`MismaFirma`), and what a request is going to send, or an answer brings, is
  sealed by them (`Sellado`). Undisturbed, the url of a document is that of its copy
  (from `SerialInv`, below).
* `CopiaSiempre`, `FirmadoSiempre`: ticket and url are of one copy of the document;
  signed means that the provider said so. Both have a part for undisturbed
  behaviours, `SerialInv`: a document has one copy, and each copy is waiting to
  be recorded, recorded, or being reported.

### The lemmas

`LibroContratoProofs` begins with what the sums of the models are over any finite set: one term more or
less, a changed term, two sums term by term, sums over two index sets that
correspond, terms that are zero. `SumFunctionOnSet` is a fold defined by recursion; the library's
induction needs an operator as a parameter, so these lemmas take instead a
*smallest* set for which they would fail (`Minimo`, from the well-founded order
of finite sets), and `PlanHay` a smallest number of amendments for the loop of
`getAllAvailableAmounts` (`PlanDeFondosBien`: each fund once, what is used adds up
to what was asked). `ImporteDeCola` and its neighbours say what a breakdown
still has to charge once its first item is charged.

### Only model-checked

* Liveness (`TodoTermina`, `NotificacionSurteEfecto`, `TodoAcaba`): fairness and
  `ENABLED` are beyond the prover.
* `OrdenesEnLibros`: the same simulation as `LibroRefinado` with requests that
  write committed amounts in between.
* `SiembraSinHuecos`, `UnColorPrimario`, `UnidadLegible`: `Siembra` runs programs
  over lists of any length, whose result needs induction over data.

## 5. Not modelled

* Reports, PDFs, spreadsheets and object storage (`documentos`, `reportes`,
  `minio`): they read rows and format them; a failure of theirs is a failure of
  the request that calls them.
* Listings and searches, with their filters by role and service type. One of
  them matters: `findByRfc` of the providers filters by `razonSocial`.
* The computation of prices, quantities, tax and totals of orders. Totals of any
  fraction of a cent are covered by the theorems on the ledger.
* Hashing, the text of tokens, role names.
* The image of the settings, logger, interceptors, filters.

## 6. Plan

1. A module of totals: prices and tax with their rounding, against a reference.
2. A reference definition for `PlanDeFondos` (the largest cover, in order) checked
   over bounded inputs.
