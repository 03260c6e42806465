---------------------------- MODULE LibroRefina ----------------------------
(***************************************************************************)
(* What the handlers of LibroContrato promise when they run one after the  *)
(* other and to their end: the books of LibroAbstracto, in which a charge  *)
(* is one step.                                                            *)
(***************************************************************************)
EXTENDS LibroContrato

\* The amounts that handlers are asked to charge.
MontosPedidos ==
  UNION {{ll.cargos[i].monto : i \in DOMAIN ll.cargos} : ll \in Llamadas}

\* The activation that has written the row of service s and not yet the fund.
AMedias(s) == {t \in Tareas : paso[t] = "escribirFondo" /\ llamada[t].servicio = s}

\* What an activation in flight has already taken from the service's row is
\* not in the books until the fund has it too.
ContratoEnLibros ==
  [s \in Servicios |->
     IF AMedias(s) # {} THEN visto[CHOOSE t \in AMedias(s) : TRUE].servicio
     ELSE contrato[s]]

Libros == INSTANCE LibroAbstracto
            WITH contrato <- ContratoEnLibros, Montos <- MontosPedidos

\* Run one after the other and to their end, the handlers keep the books of
\* LibroAbstracto: the two UPDATEs of a charge are as good as one.
ImplementaLibro == Libros!Spec
=============================================================================
