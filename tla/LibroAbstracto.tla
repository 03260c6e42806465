--------------------------- MODULE LibroAbstracto ---------------------------
(***************************************************************************)
(* What the books of a contract promise: a charge changes the fund and the *)
(* service it is for in one indivisible step, by what the event says, and  *)
(* nothing else changes them but the committed amounts of the orders.      *)
(***************************************************************************)
EXTENDS HandlerAmounts

CONSTANTS Fondos, Maestro, Servicios, Techo, Montos, Reservas, Eventos

VARIABLES fondo, contrato

vars == <<fondo, contrato>>

Init ==
  /\ fondo = [f \in Fondos |-> [c \in FundColumns |->
                IF c = "montoDisponible" THEN Techo[f] ELSE 0]]
  /\ contrato = [s \in Servicios |-> [c \in ServiceColumns |-> 0]]

Columnas(f, evento) ==
  IF f = Maestro THEN EscribeMaestro[evento] ELSE EscribeModificatorio[evento]

Aplicar(f, s, evento, monto) ==
  /\ fondo' = [fondo EXCEPT ![f] =
       escribir(@, handlerAmounts(evento, @, monto), Columnas(f, evento))]
  /\ contrato' = [contrato EXCEPT ![s] =
       escribir(@, handlerAmounts(evento, @, monto), Columnas(f, evento))]

Comprometer(f, v) ==
  /\ fondo' = [fondo EXCEPT ![f]["committedAmount"] = v]
  /\ UNCHANGED contrato

Next ==
  \/ \E f \in Fondos, s \in Servicios, e \in Eventos, m \in Montos : Aplicar(f, s, e, m)
  \/ \E f \in Fondos, v \in Reservas : Comprometer(f, v)

Spec == Init /\ [][Next]_vars
=============================================================================
