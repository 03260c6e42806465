-------------------------- MODULE MCOrdenContrato --------------------------
(***************************************************************************)
(* Instances of OrdenContrato for TLC.                                     *)
(***************************************************************************)
EXTENDS OrdenContrato, TLC

CONSTANTS Modificatorio, Radio

UnFondo == {Maestro}
DosFondos == {Maestro, Modificatorio}
UnaExtension == <<Modificatorio>>
SinExtension == <<>>
TechoDeDos == [f \in Fondos |-> 2]
TechoDeTres == [f \in Fondos |-> 3]

\* Every call that an order of the instance can give rise to.
Importes == 1..(2 * Max(Totales))
EventosDeOrden == {"ORDER_APPROVED", "ORDER_CANCELLED"}
CargosMC ==
  {<<[fondo |-> f, monto |-> m]>> : f \in Fondos, m \in Importes} \cup
  {<<[fondo |-> f, monto |-> m], [fondo |-> g, monto |-> n]>> :
     f \in Fondos, g \in Fondos, m \in Importes, n \in Importes}
LlamadasMC == [evento : EventosDeOrden, servicio : Servicios, cargos : CargosMC]
ReservasMC == (-2 * Max(Totales))..(4 * Max(Totales)) \cup {NaN}

\* Two orders, and two requests, differ only in their name.
Simetria == Permutations(Ordenes) \cup Permutations(Hilos)

----
\* What an activation in flight has already taken from the service's row is
\* not in the books until the fund has it too.
ContratoEnLibros ==
  [s \in Servicios |->
     IF \E e \in Entregas : paso[e] = "escribirFondo"
       THEN visto[CHOOSE e \in Entregas : paso[e] = "escribirFondo"].servicio
       ELSE contrato[s]]

Libros == INSTANCE LibroAbstracto
            WITH contrato <- ContratoEnLibros, Montos <- Importes,
                 Eventos <- EventosDeOrden

\* Requests, signatures and handlers together keep the books of
\* LibroAbstracto when nothing overlaps: every reservation is one step of the
\* books and every signature is one charge per fund.
OrdenesEnLibros == Libros!Spec
=============================================================================
