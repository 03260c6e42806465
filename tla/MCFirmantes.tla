------------------------------ MODULE MCFirmantes ------------------------------
(***************************************************************************)
(* Instances of Firmantes for TLC.                                         *)
(***************************************************************************)
EXTENDS Firmantes

CONSTANTS ana, beto, eva, d1, d2

\* Ana checks invoices and signs orders, Beto approves invoices and signs
\* campaigns; Eva is created later.
FilasMC ==
  [p \in Personas |->
     CASE p = ana  -> [estatus |-> TRUE, clave |-> "c1", permisos |-> {"FIRMA"},
                       documentosDeFirma |-> {"COTEJAR_FACTURA", "ORDEN_DE_SERVICIO"},
                       tipoOrdenDeServicio |-> {"TODOS_LOS_SERVICIOS"}]
       [] p = beto -> [estatus |-> TRUE, clave |-> "c1", permisos |-> {"FIRMA"},
                       documentosDeFirma |-> {"APROBACION_DE_FACTURA", "CAMPANIA"},
                       tipoOrdenDeServicio |-> {}]
       [] OTHER    -> SinUsuario]

\* A user with a password of its own that signs invoices in both roles, and one
\* with nothing said.
AltasMC == {[clave |-> "llana", documentosDeFirma |-> {"APROBACION_DE_FACTURA", "COTEJAR_FACTURA"}],
            SinDatos}

CambiosMC == {[estatus |-> TRUE], [clave |-> "llana", documentosDeFirma |-> {"APROBACION_DE_FACTURA"}]}

\* The action changes something on invoices only.
PapelesMC == {<<"APROBACION_DE_FACTURA", "APPROVE">>, <<"APROBACION_DE_FACTURA", "CANCEL">>,
              <<"ORDEN_DE_SERVICIO", "APPROVE">>, <<"CAMPANIA", "APPROVE">>}

ListasMC == {<<d1>>, <<d2>>, <<d1, d2>>}

Simetria == Permutations(Hilos) \cup Permutations(Copias)
=============================================================================
