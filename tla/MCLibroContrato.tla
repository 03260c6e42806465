-------------------------- MODULE MCLibroContrato --------------------------
(***************************************************************************)
(* Instances of LibroContrato for TLC: a master with one amendment, one or *)
(* two service types, and handlers that charge one order to one or both    *)
(* funds.                                                                  *)
(***************************************************************************)
EXTENDS LibroRefina, FiniteSetsExt, TLC

CONSTANTS Modificatorio, Radio, Television, Importes

DosFondos == {Maestro, Modificatorio}
TechoDeCuatro == [f \in Fondos |-> 4]

\* An order charged to the master alone, to the amendment alone, or to both.
LlamadasDe(servicios, eventos, importes) ==
  [evento : eventos, servicio : servicios,
   cargos : {<<[fondo |-> f, monto |-> m]>> : f \in Fondos, m \in importes}
            \cup {<<[fondo |-> Maestro, monto |-> m],
                    [fondo |-> Modificatorio, monto |-> m]>> : m \in importes}]
LlamadasMC == LlamadasDe(Servicios, Eventos, Importes)

\* NaN can be committed as well as any amount.
ReservasMC == {NaN, 1}

\* Two activations differ only in their name.
Simetria == Permutations(Tareas)
=============================================================================
