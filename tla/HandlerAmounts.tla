--------------------------- MODULE HandlerAmounts ---------------------------
(***************************************************************************)
(* The amounts of a contract and the arithmetic that the events of orders  *)
(* and invoices do on them: handlerAmounts of the contracts                *)
(* (contratos/functions/handler-amounts.ts) and of the matches             *)
(* (campañas/partida/functions/handler-amounts.ts), and the columns that   *)
(* the services then write.                                                *)
(*                                                                         *)
(* Money is an integer number of the smallest unit an amount can have;     *)
(* Centavo is the number of those units in a cent, so that Centavo = 1     *)
(* means that every amount is a whole number of cents.                     *)
(***************************************************************************)
EXTENDS Integers

CONSTANTS Centavo,  \* units of money in one cent
          NaN       \* what Number(undefined) stores in a numeric column

ASSUME CentavoAssumption == Centavo \in Nat \ {0}
ASSUME NaNAssumption == NaN \notin Int

----
(* Columns and events.                                                     *)

TYPE_EVENT_ORDER == {"ORDER_APPROVED", "ORDER_CANCELLED"}
TYPE_EVENT_INVOICE ==
  {"INVOICE_REVIEWED", "INVOICE_APPROVED", "INVOICE_CANCELLED", "INVOICE_PAID"}
TYPE_EVENT == TYPE_EVENT_ORDER \cup TYPE_EVENT_INVOICE

\* A row of contratos, one per service type: what is active, executed and paid.
ServiceColumns == {"montoActivo", "montoEjercido", "montoPagado"}

\* A row of contratos_maestros or contratos_modificatorios has these as well.
FundColumns == ServiceColumns \cup {"montoDisponible", "committedAmount"}

ServiceRow == [ServiceColumns -> Int]

\* committedAmount is the only column a request computes with Number(undefined).
FundRow ==
  {row \in [FundColumns -> Int \cup {NaN}] :
     \A c \in FundColumns \ {"committedAmount"} : row[c] \in Int}

----
(* Decimal arithmetic.                                                     *)

\* Decimal.toDecimalPlaces(2): to the nearest cent, a tie away from zero.
toDecimalPlaces(x) ==
  LET resto == x % Centavo
  IN  IF 2 * resto > Centavo \/ (2 * resto = Centavo /\ x >= 0)
        THEN x - resto + Centavo
        ELSE x - resto

\* A whole number of cents.
EsCentavo(x) == x % Centavo = 0

\* Decimal.minus, and toDecimalPlaces(2) of it: NaN is absorbing.
Menos(x, y) == IF x = NaN \/ y = NaN THEN NaN ELSE x - y
Mas(x, y) == IF x = NaN \/ y = NaN THEN NaN ELSE x + y

\* The rounding that handlerAmounts does of every column it returns.
Redondear(x) == IF x = NaN THEN NaN ELSE toDecimalPlaces(x)

----
(* handlerAmounts of the contracts: the columns each event adds the total  *)
(* to and the columns it takes the total from. INVOICE_APPROVED has no     *)
(* case in the switch.                                                     *)

\* Wrong form: a cancelled order does not give its amount back.
SumaSinDevolucion ==
  [ORDER_APPROVED    |-> {"montoActivo"},
   ORDER_CANCELLED   |-> {},
   INVOICE_REVIEWED  |-> {"montoEjercido"},
   INVOICE_APPROVED  |-> {},
   INVOICE_CANCELLED |-> {"montoActivo"},
   INVOICE_PAID      |-> {"montoPagado"}]

Suma ==
  [ORDER_APPROVED    |-> {"montoActivo"},
   ORDER_CANCELLED   |-> {"montoDisponible"},
   INVOICE_REVIEWED  |-> {"montoEjercido"},
   INVOICE_APPROVED  |-> {},
   INVOICE_CANCELLED |-> {"montoActivo"},
   INVOICE_PAID      |-> {"montoPagado"}]

Resta ==
  [ORDER_APPROVED    |-> {"montoDisponible", "committedAmount"},
   ORDER_CANCELLED   |-> {"montoActivo"},
   INVOICE_REVIEWED  |-> {"montoActivo"},
   INVOICE_APPROVED  |-> {},
   INVOICE_CANCELLED |-> {"montoEjercido"},
   INVOICE_PAID      |-> {"montoEjercido"}]

\* The value of one column after the switch and the final rounding.
NuevoMonto(evento, columna, valor, total) ==
  Redondear(CASE columna \in Suma[evento]  -> Mas(valor, total)
              [] columna \in Resta[evento] -> Menos(valor, total)
              [] OTHER                     -> valor)

\* One row, of a fund or of a service type, after the event.
handlerAmounts(evento, fila, total) ==
  [c \in DOMAIN fila |-> NuevoMonto(evento, c, fila[c], total)]

----
(* What the services write of it.                                          *)

\* Wrong form: the UPDATE of an order's event leaves out the available amount.
EscribeMaestroSinDisponible ==
  [ORDER_APPROVED    |-> {"montoActivo", "committedAmount"},
   ORDER_CANCELLED   |-> {"montoDisponible", "montoActivo", "committedAmount"},
   INVOICE_REVIEWED  |-> {"montoEjercido", "montoActivo"},
   INVOICE_APPROVED  |-> {},
   INVOICE_CANCELLED |-> {"montoEjercido", "montoActivo"},
   INVOICE_PAID      |-> {"montoPagado", "montoEjercido"}]

\* updateMasterContractAmountByOrder: columns of the master row per event.
EscribeMaestro ==
  [ORDER_APPROVED    |-> {"montoDisponible", "montoActivo", "committedAmount"},
   ORDER_CANCELLED   |-> {"montoDisponible", "montoActivo", "committedAmount"},
   INVOICE_REVIEWED  |-> {"montoEjercido", "montoActivo"},
   INVOICE_APPROVED  |-> {},
   INVOICE_CANCELLED |-> {"montoEjercido", "montoActivo"},
   INVOICE_PAID      |-> {"montoPagado", "montoEjercido"}]

\* updateAmendmentContractAmountByOrder tests INVOICE_APPROVED where the
\* master's function tests INVOICE_REVIEWED.
EscribeModificatorio ==
  [EscribeMaestro EXCEPT !.INVOICE_REVIEWED = {},
                         !.INVOICE_APPROVED = {"montoEjercido", "montoActivo"}]

\* An UPDATE of some columns of a row: the others keep what the row has now.
escribir(fila, nueva, columnas) ==
  [c \in DOMAIN fila |-> IF c \in columnas THEN nueva[c] ELSE fila[c]]
=============================================================================
