------------------------- MODULE FondosDelContrato -------------------------
(***************************************************************************)
(* getAllAvailableAmounts of the contracts: which funds of a master        *)
(* contract cover an order, how much each gives, and what create of the    *)
(* orders then writes as their committed amounts.                          *)
(***************************************************************************)
EXTENDS HandlerAmounts, Sequences

\* Wrong form: what other orders have committed is not subtracted.
LibreSinRestar(fila) == fila["montoDisponible"]

\* What a fund still has: available minus committed.
Libre(fila) == Menos(fila["montoDisponible"], fila["committedAmount"])

\* One fund of the loop: it gives what it has, up to what is missing. The
\* master is visited first and alone covers an order it has enough for.
Visitar(plan, fondo, f, esMaestro) ==
  LET libre == Libre(fondo[f])
      alcanza == libre # NaN /\ libre >= plan.resto
      uso == IF alcanza THEN plan.resto ELSE libre
      usado == uso # NaN /\ (uso > 0 \/ (esMaestro /\ alcanza))
  IN  [resto      |-> IF usado THEN plan.resto - uso ELSE plan.resto,
       usos       |-> IF usado THEN Append(plan.usos, [fondo |-> f, monto |-> uso])
                      ELSE plan.usos,
       escrituras |-> IF libre = 0 THEN plan.escrituras
                      ELSE Append(plan.escrituras,
                             [fondo |-> f,
                              valor |-> IF usado THEN Mas(fondo[f]["committedAmount"], uso)
                                        ELSE NaN])]

\* An amendment, when something is still missing: totals are positive, so once
\* nothing is, the list of uses is not empty. A fund that is visited, has
\* something (or owes it) and gives nothing is written Number(undefined).
VisitarExtension(plan, fondo, f) ==
  IF plan.resto <= 0 THEN plan ELSE Visitar(plan, fondo, f, FALSE)

SinVisitar(total) == [resto |-> total, usos |-> <<>>, escrituras |-> <<>>]

\* The master, and then the amendments in order.
PlanDeFondos(fondo, maestro, extensiones, total) ==
  LET plan[i \in 0..Len(extensiones)] ==
        IF i = 0 THEN Visitar(SinVisitar(total), fondo, maestro, TRUE)
        ELSE VisitarExtension(plan[i - 1], fondo, extensiones[i])
  IN  plan[Len(extensiones)]

PlanCubierto(plan) == plan.resto <= 0

\* contractBreakdownList: kept only when an amendment gives something.
Desglose(plan, maestro) ==
  IF \E i \in DOMAIN plan.usos : plan.usos[i].fondo # maestro THEN plan.usos ELSE <<>>
=============================================================================
