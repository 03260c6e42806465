------------------------------- MODULE Usuarios -------------------------------
(***************************************************************************)
(* The users of the system (usuarios.service.ts) and who may ask for what  *)
(* (jwt.strategy.ts): their sessions, and the requests that create, change *)
(* and deactivate them, query by query.                                    *)
(*                                                                         *)
(* Every change of a user reads the row, and writes back all that it read  *)
(* an await later. The roles that the guards ask for are all the roles     *)
(* there are (rolesAdministracion, rolesFirma), so the role of a user is   *)
(* left out, as are the names and numbers that nothing here depends on. A  *)
(* user is known by its mail address, which is unique. Users are never     *)
(* removed.                                                                *)
(***************************************************************************)
EXTENDS Naturals, FiniteSets, TLC

CONSTANTS Personas,        \* mail addresses
          FilasIniciales,  \* the users at the start
          Claves,          \* passwords that users choose
          Servicios,       \* service types an order can have
          Altas,           \* what a create asks for
          Cambios,         \* what an update asks for
          Administran,     \* who asks for changes of users: a bound, any user may
          Hilos,           \* requests in flight at once
          Nulo             \* the null of a column, or nobody

ValidPermises == {"HISTORICO", "FIRMA"}
TIPO_DE_DOCUMENTO ==
  {"ORDEN_DE_SERVICIO", "CAMPANIA", "APROBACION_DE_FACTURA", "COTEJAR_FACTURA"}
TIPO_DE_SERVICIO == Servicios \cup {"TODOS_LOS_SERVICIOS"}

\* What the column of the password holds: the hash of the default one, the
\* hash of one that somebody chose, or a text that no password matches.
Contrasenas == {"defecto", "llana"} \cup Claves

Usuario ==
  [estatus : BOOLEAN, clave : Contrasenas, permisos : (SUBSET ValidPermises) \cup {Nulo},
   documentosDeFirma : SUBSET TIPO_DE_DOCUMENTO, tipoOrdenDeServicio : SUBSET TIPO_DE_SERVICIO]

SinUsuario == [estatus |-> FALSE, clave |-> Nulo, permisos |-> Nulo,
               documentosDeFirma |-> {}, tipoOrdenDeServicio |-> {}]

VARIABLES
  usuario,   \* rows of the users
  sesion,    \* who holds a token that has not expired
  peticion   \* the requests about users in flight

varsUsuarios == <<usuario, sesion, peticion>>

SinDatos == [c \in {} |-> Nulo]
SinPeticion == [op |-> "-", en |-> "libre", quien |-> Nulo, usuario |-> Nulo,
                datos |-> SinDatos, fila |-> SinUsuario]

ASSUME UsuariosAssumption ==
  /\ FilasIniciales \in [Personas -> Usuario \cup {SinUsuario}]
  /\ \A d \in Altas \cup Cambios : "clave" \in DOMAIN d => d["clave"] = "llana"
  /\ Administran \subseteq Personas
  /\ Nulo \notin Personas /\ Nulo \notin Contrasenas

InitUsuarios ==
  /\ usuario = FilasIniciales
  /\ sesion = {p \in Personas : usuario[p].estatus}
  /\ peticion = [h \in Hilos |-> SinPeticion]

Existe(p) == usuario[p] # SinUsuario

Terminar(h) == peticion' = [peticion EXCEPT ![h] = SinPeticion]

----
(* Sessions.                                                               *)

\* login: the default password is told apart before the status is looked at;
\* a text stored as it came matches no password.
Entrar(p, clave) ==
  /\ Existe(p)
  /\ usuario[p].clave = clave /\ clave \in Claves
  /\ usuario[p].estatus
  /\ sesion' = sesion \cup {p}
  /\ UNCHANGED <<usuario, peticion>>

\* A token expires.
Caducar(p) ==
  /\ p \in sesion
  /\ sesion' = sesion \ {p}
  /\ UNCHANGED <<usuario, peticion>>

\* validate: whoever holds a token is looked up again at each request.
Autorizado(p) == Existe(p) /\ usuario[p].estatus

----
(* Requests.                                                               *)

\* Anybody may change the password of a user whose id they know; every other
\* request needs a token.
Pedir(h, op, quien, p, datos) ==
  /\ peticion[h].en = "libre"
  /\ IF op = "cambiarClave" THEN quien = Nulo ELSE quien \in sesion
  /\ peticion' = [peticion EXCEPT ![h] =
       [op |-> op, en |-> IF quien = Nulo THEN "leer" ELSE "autorizar", quien |-> quien,
        usuario |-> p, datos |-> datos, fila |-> SinUsuario]]
  /\ UNCHANGED <<usuario, sesion>>

\* The requests and what each carries.
PedirUsuario(h) ==
  \E p \in Personas, quien \in Administran \cup {Nulo} :
    \/ \E alta \in Altas : ~Existe(p) /\ Pedir(h, "crear", quien, p, alta)
    \/ /\ Existe(p)
       /\ \/ \E dto \in Cambios : Pedir(h, "actualizar", quien, p, dto)
          \/ Pedir(h, "desactivar", quien, p, SinDatos)
          \/ \E c \in Claves : Pedir(h, "cambiarClave", quien, p, [clave |-> c])
          \/ Pedir(h, "reestablecer", quien, p, [clave |-> "defecto"])
          \/ \E op \in {"quitarPermisos", "agregarPermisos"}, permiso \in ValidPermises :
               Pedir(h, op, quien, p, [permisos |-> {permiso}])

Autorizar(h) ==
  /\ peticion[h].en = "autorizar"
  /\ IF Autorizado(peticion[h].quien)
       THEN peticion' = [peticion EXCEPT ![h].en =
                           IF peticion[h].op = "crear" THEN "guardar" ELSE "leer"]
       ELSE Terminar(h)
  /\ UNCHANGED <<usuario, sesion>>

\* Wrong form: the password stays in the row that a request works on.
FilaConClave(op, p) == usuario[p]

\* What a request gets: findOne takes the password out of the row, while
\* removerPermisos and reestablecer read the row themselves.
FilaLeida(op, p) ==
  IF op \in {"quitarPermisos", "reestablecer"} THEN usuario[p]
  ELSE [usuario[p] EXCEPT !.clave = Nulo]

\* Permissions are given to and taken from active users only, and not when the
\* column is null.
Rechazada(op, fila) ==
  /\ op \in {"quitarPermisos", "agregarPermisos"}
  /\ ~fila.estatus \/ fila.permisos = Nulo

ConDatos(fila, datos) ==
  [c \in DOMAIN fila |-> IF c \in DOMAIN datos THEN datos[c] ELSE fila[c]]
Desactivada(fila) == [fila EXCEPT !.estatus = FALSE]
SinPermisos(fila, permisos) == [fila EXCEPT !.permisos = @ \ permisos]
ConPermisos(fila, permisos) == [fila EXCEPT !.permisos = @ \cup permisos]

\* The columns as the request leaves them; updatePassword and reestablecer
\* bring the password that they set.
Cambiada(op, fila, datos) ==
  CASE op = "desactivar"      -> Desactivada(fila)
    [] op = "quitarPermisos"  -> SinPermisos(fila, datos["permisos"])
    [] op = "agregarPermisos" -> ConPermisos(fila, datos["permisos"])
    [] OTHER                  -> ConDatos(fila, datos)

Leer(h) ==
  LET op == peticion[h].op
      fila == FilaLeida(op, peticion[h].usuario)
  IN  /\ peticion[h].en = "leer"
      /\ IF Rechazada(op, fila) THEN Terminar(h)
         ELSE peticion' = [peticion EXCEPT ![h].en = "guardar",
                             ![h].fila = Cambiada(op, fila, peticion[h].datos)]
      /\ UNCHANGED <<usuario, sesion>>

\* create: active, with the default password and no permissions unless it says
\* otherwise; a second user with the same address is refused.
FilaNueva(alta) ==
  ConDatos([SinUsuario EXCEPT !.estatus = TRUE, !.clave = "defecto"], alta)

GuardarNuevo(h) ==
  LET p == peticion[h].usuario
  IN  /\ peticion[h].op = "crear" /\ peticion[h].en = "guardar"
      /\ usuario' = IF Existe(p) THEN usuario
                    ELSE [usuario EXCEPT ![p] = FilaNueva(peticion[h].datos)]
      /\ Terminar(h)
      /\ UNCHANGED sesion

\* save writes what differs of the columns that the row in memory has.
Guardar(h) ==
  LET p == peticion[h].usuario
      fila == peticion[h].fila
  IN  /\ peticion[h].op # "crear" /\ peticion[h].en = "guardar"
      /\ usuario' = [usuario EXCEPT ![p] =
                       [fila EXCEPT !.clave = IF @ = Nulo THEN usuario[p].clave ELSE @]]
      /\ Terminar(h)
      /\ UNCHANGED sesion

AtenderUsuario(h) == Autorizar(h) \/ Leer(h) \/ GuardarNuevo(h) \/ Guardar(h)

\* A query rejects and the request is answered with an error.
FallarUsuario(h) ==
  /\ peticion[h].en # "libre"
  /\ Terminar(h)
  /\ UNCHANGED <<usuario, sesion>>

----
(* Properties.                                                             *)

\* However requests overlap and write back rows they read before, the password
\* of a user changes only to the one that a request in flight about that user
\* names; the exception is removerPermisos, which writes back the one it read.
\* A change of data, of permissions or of status never brings an old one back.
ContrasenaConservada ==
  [][\A p \in Personas :
       (Existe(p) /\ usuario'[p].clave # usuario[p].clave) =>
         \E h \in Hilos :
           /\ peticion[h].usuario = p /\ peticion[h].en = "guardar"
           /\ \/ /\ "clave" \in DOMAIN peticion[h].datos
                 /\ usuario'[p].clave = peticion[h].datos["clave"]
              \/ /\ peticion[h].op = "quitarPermisos"
                 /\ usuario'[p].clave = peticion[h].fila.clave]_varsUsuarios
=============================================================================
