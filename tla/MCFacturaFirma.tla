--------------------------- MODULE MCFacturaFirma ---------------------------
(***************************************************************************)
(* Instances of FacturaFirma for TLC.                                      *)
(***************************************************************************)
EXTENDS FacturaFirma, TLC

CONSTANTS Modificatorio, Radio, Folio, f1, o1, o2

\* Invoices, files and orders of the instance. The order takes two from the
\* master and one from the amendment.
DosFondos == {Maestro, Modificatorio}
TechoDeTres == [f \in Fondos |-> 3]
TareasMC == Avisos \cup Hilos
CargosMC ==
  (o1 :> <<[fondo |-> Maestro, monto |-> 1], [fondo |-> Modificatorio, monto |-> 1]>>) @@
  (o2 :> <<[fondo |-> Maestro, monto |-> 1]>>)

Pago(m, n) == [folio |-> Folio, monto |-> m, cheque |-> n]

\* A file that pays a third, and one that pays the rest.
ArchivosMC ==
  {<<Pago(1, 1)>>, <<Pago(1, 2), Pago(1, 3)>>}

\* One invoice is approved at the start, or both are.
AntesMC == {{f1}, Facturas}

EventosDeFactura == {"INVOICE_APPROVED", "INVOICE_CANCELLED", "INVOICE_PAID"}
LlamadasMC == [evento : EventosDeFactura, servicio : Servicios, cargos : {CargosMC[o] : o \in Ordenes}]
ReservasMC == {0}
=============================================================================
