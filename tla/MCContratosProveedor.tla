------------------------ MODULE MCContratosProveedor ------------------------
(***************************************************************************)
(* Instances of ContratosProveedor for TLC.                                *)
(***************************************************************************)
EXTENDS ContratosProveedor, TLC

CONSTANTS m1, m2, m3, Radio, Prensa, s1, s2

\* The third contract would overlap with either of the others.
TiposDeMC == m1 :> {Radio} @@ m2 :> {Prensa} @@ m3 :> {Radio, Prensa}
VenceMC == m1 :> 0 @@ m2 :> 1 @@ m3 :> 1
InicialesMC == s1 :> Radio @@ s2 :> Prensa
=============================================================================
