----------------------------- MODULE MCCampania -----------------------------
(***************************************************************************)
(* Instances of Campania for TLC.                                          *)
(***************************************************************************)
EXTENDS Campania, TLC

CONSTANTS Modificatorio, o1, o2

\* The orders of the campaign took what the master has, and then from the
\* amendment.
DosFondos == {Maestro, Modificatorio}
TechoMC == [f \in Fondos |-> IF f = Maestro THEN 1 ELSE 3]
ExtensionesMC == <<Modificatorio>>
PendientesMC ==
  (o1 :> <<[fondo |-> Maestro, monto |-> 1], [fondo |-> Modificatorio, monto |-> 1]>>) @@
  (o2 :> <<[fondo |-> Modificatorio, monto |-> 2]>>)
TareasMC == Avisos

EventosDeOrden == {"ORDER_APPROVED", "ORDER_CANCELLED"}
LlamadasMC == [evento : EventosDeOrden, servicio : Servicios,
               cargos : {<<[fondo |-> Maestro, monto |-> 2]>>}]
=============================================================================
