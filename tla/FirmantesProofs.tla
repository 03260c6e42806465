--------------------------- MODULE FirmantesProofs ---------------------------
(***************************************************************************)
(* Proofs about Firmantes and Usuarios, for any users, documents, copies   *)
(* and requests, however many are in flight and whatever fails: what       *)
(* happens to passwords (ContrasenaConservada), who seals a copy           *)
(* (CopiaSellada), which copy a document names (CopiaDeSuDocumento) and *)
(* when it is signed (FirmadoConCopia).                                    *)
(***************************************************************************)
EXTENDS Firmantes, TLAPS

(* Users. *)

Columnas == {"estatus", "clave", "permisos", "documentosDeFirma", "tipoOrdenDeServicio"}
DePeticion == {"op", "en", "quien", "usuario", "datos", "fila"}

\* A request that is about to save a user: it holds a whole row, in which the
\* password is empty, or the one that the request names, or, when permissions
\* are taken away, the one that was read.
FilaEnMemoria(r) ==
  /\ r.usuario \in Personas
  /\ r.op = "reestablecer" => "clave" \in DOMAIN r.datos
  /\ (r.en = "guardar" /\ r.op # "crear") =>
       /\ DOMAIN r.fila = Columnas
       /\ \/ r.fila.clave = Nulo
          \/ "clave" \in DOMAIN r.datos /\ r.fila.clave = r.datos["clave"]
          \/ r.op = "quitarPermisos"

UsuariosInv ==
  /\ DOMAIN usuario = Personas
  /\ \A p \in Personas : DOMAIN usuario[p] = Columnas
  /\ DOMAIN peticion = Hilos
  /\ \A h \in Hilos : DOMAIN peticion[h] = DePeticion
  /\ \A h \in Hilos : peticion[h].en # "libre" => FilaEnMemoria(peticion[h])

\* The step that ContrasenaConservada is about.
ContrasenaDe(p) ==
  (Existe(p) /\ usuario'[p].clave # usuario[p].clave) =>
    \E h \in Hilos :
      /\ peticion[h].usuario = p /\ peticion[h].en = "guardar"
      /\ \/ /\ "clave" \in DOMAIN peticion[h].datos
            /\ usuario'[p].clave = peticion[h].datos["clave"]
         \/ /\ peticion[h].op = "quitarPermisos"
            /\ usuario'[p].clave = peticion[h].fila.clave

\* A request that ends leaves the others as they were.
LEMMA TerminarUsuarios ==
  ASSUME UsuariosInv, NEW h \in Hilos, Terminar(h)
  PROVE  /\ DOMAIN peticion' = Hilos
         /\ \A g \in Hilos : DOMAIN peticion'[g] = DePeticion
         /\ \A g \in Hilos : peticion'[g].en # "libre" => FilaEnMemoria(peticion'[g])
<1>1. \A g \in Hilos : peticion'[g] = IF g = h THEN SinPeticion ELSE peticion[g]
  BY DEF Terminar, UsuariosInv
<1>2. DOMAIN peticion' = Hilos BY DEF Terminar, UsuariosInv
<1>3. DOMAIN SinPeticion = DePeticion /\ SinPeticion.en = "libre"
  BY DEF SinPeticion, DePeticion
<1> QED BY <1>1, <1>2, <1>3 DEF UsuariosInv

\* The row that a request works on: whole, and without its password unless the
\* request reads the row itself.
LEMMA FilaLeidaInv ==
  ASSUME UsuariosInv, NEW p \in Personas, NEW op
  PROVE  /\ DOMAIN FilaLeida(op, p) = Columnas
         /\ op \notin {"quitarPermisos", "reestablecer"} => FilaLeida(op, p).clave = Nulo
BY DEF FilaLeida, UsuariosInv, Columnas

\* What the request leaves of it.
LEMMA CambiadaInv ==
  ASSUME NEW op, NEW fila, NEW datos, DOMAIN fila = Columnas,
         op = "reestablecer" => "clave" \in DOMAIN datos,
         op \notin {"quitarPermisos", "reestablecer"} => fila.clave = Nulo
  PROVE  /\ DOMAIN Cambiada(op, fila, datos) = Columnas
         /\ \/ Cambiada(op, fila, datos).clave = Nulo
            \/ "clave" \in DOMAIN datos /\ Cambiada(op, fila, datos).clave = datos["clave"]
            \/ op = "quitarPermisos"
<1>1. CASE op = "desactivar" BY <1>1 DEF Cambiada, Desactivada, Columnas
<1>2. CASE op = "quitarPermisos" BY <1>2 DEF Cambiada, SinPermisos
<1>3. CASE op = "agregarPermisos" BY <1>3 DEF Cambiada, ConPermisos, Columnas
<1>4. CASE op \notin {"desactivar", "quitarPermisos", "agregarPermisos"}
  <2>1. Cambiada(op, fila, datos) = ConDatos(fila, datos) BY <1>4 DEF Cambiada
  <2> QED BY <1>4, <2>1 DEF ConDatos, Columnas
<1> QED BY <1>1, <1>2, <1>3, <1>4

\* What the steps of the requests about users keep, and do to passwords.
LEMMA PasoDePeticion ==
  ASSUME UsuariosInv, NEW h \in Hilos,
         PedirUsuario(h) \/ AtenderUsuario(h) \/ FallarUsuario(h)
  PROVE  UsuariosInv' /\ \A p \in Personas : ContrasenaDe(p)
<1> DEFINE r == peticion[h]
<1>a. ASSUME UNCHANGED usuario PROVE \A p \in Personas : ContrasenaDe(p)
  BY <1>a DEF ContrasenaDe
<1>b. ASSUME UNCHANGED usuario, NEW nueva, peticion' = [peticion EXCEPT ![h] = nueva],
             DOMAIN nueva = DePeticion, FilaEnMemoria(nueva)
      PROVE  UsuariosInv'
  BY <1>b DEF UsuariosInv
<1>1. ASSUME PedirUsuario(h) PROVE UsuariosInv' /\ UNCHANGED usuario
  <2>1. ASSUME NEW op, NEW quien, NEW p \in Personas, NEW datos, Pedir(h, op, quien, p, datos),
               op = "reestablecer" => "clave" \in DOMAIN datos
        PROVE  UsuariosInv' /\ UNCHANGED usuario
    <3> DEFINE nueva == [op |-> op, en |-> IF quien = Nulo THEN "leer" ELSE "autorizar",
                         quien |-> quien, usuario |-> p, datos |-> datos, fila |-> SinUsuario]
    <3>1. UNCHANGED usuario /\ peticion' = [peticion EXCEPT ![h] = nueva]
      BY <2>1 DEF Pedir
    <3>2. DOMAIN nueva = DePeticion /\ FilaEnMemoria(nueva)
      BY <2>1 DEF DePeticion, FilaEnMemoria
    <3> HIDE DEF nueva
    <3> QED BY <1>b, <3>1, <3>2
  <2>2. PICK p \in Personas, quien \in Administran \cup {Nulo} :
          \/ \E alta \in Altas : Pedir(h, "crear", quien, p, alta)
          \/ \E dto \in Cambios : Pedir(h, "actualizar", quien, p, dto)
          \/ Pedir(h, "desactivar", quien, p, SinDatos)
          \/ \E c \in Claves : Pedir(h, "cambiarClave", quien, p, [clave |-> c])
          \/ Pedir(h, "reestablecer", quien, p, [clave |-> "defecto"])
          \/ \E op \in {"quitarPermisos", "agregarPermisos"}, permiso \in ValidPermises :
               Pedir(h, op, quien, p, [permisos |-> {permiso}])
    BY <1>1 DEF PedirUsuario
  <2>3. CASE Pedir(h, "reestablecer", quien, p, [clave |-> "defecto"])
    <3>1. "clave" \in DOMAIN [clave |-> "defecto"] OBVIOUS
    <3> QED BY <2>1, <2>3, <3>1
  <2>4. ASSUME NEW op, NEW datos, op # "reestablecer", Pedir(h, op, quien, p, datos)
        PROVE  UsuariosInv' /\ UNCHANGED usuario
    BY <2>1, <2>4
  <2>5. CASE \E alta \in Altas : Pedir(h, "crear", quien, p, alta) BY <2>4, <2>5
  <2>6. CASE \E dto \in Cambios : Pedir(h, "actualizar", quien, p, dto) BY <2>4, <2>6
  <2>7. CASE Pedir(h, "desactivar", quien, p, SinDatos) BY <2>4, <2>7
  <2>8. CASE \E c \in Claves : Pedir(h, "cambiarClave", quien, p, [clave |-> c])
    BY <2>4, <2>8
  <2>9. CASE \E op \in {"quitarPermisos", "agregarPermisos"}, permiso \in ValidPermises :
               Pedir(h, op, quien, p, [permisos |-> {permiso}])
    BY <2>4, <2>9
  <2> QED BY <2>2, <2>3, <2>5, <2>6, <2>7, <2>8, <2>9
<1>2. ASSUME Autorizar(h) PROVE UsuariosInv' /\ UNCHANGED usuario
  <2>1. CASE Autorizado(r.quien)
    <3> DEFINE nueva == [r EXCEPT !.en = IF r.op = "crear" THEN "guardar" ELSE "leer"]
    <3>1. /\ UNCHANGED usuario /\ r.en = "autorizar"
          /\ peticion' = [peticion EXCEPT ![h] = nueva]
      BY <1>2, <2>1 DEF Autorizar
    <3>2. DOMAIN r = DePeticion /\ FilaEnMemoria(r) BY <3>1 DEF UsuariosInv
    <3>3. DOMAIN nueva = DePeticion /\ FilaEnMemoria(nueva)
      BY <3>2 DEF FilaEnMemoria, DePeticion
    <3> HIDE DEF nueva
    <3> QED BY <1>b, <3>1, <3>3
  <2>2. CASE ~Autorizado(r.quien)
    <3>1. Terminar(h) /\ UNCHANGED usuario BY <1>2, <2>2 DEF Autorizar
    <3> QED BY <3>1, TerminarUsuarios DEF UsuariosInv
  <2> QED BY <2>1, <2>2
<1>3. ASSUME Leer(h) PROVE UsuariosInv' /\ UNCHANGED usuario
  <2> DEFINE leida == FilaLeida(r.op, r.usuario)
             fila == Cambiada(r.op, leida, r.datos)
             nueva == [r EXCEPT !.en = "guardar", !.fila = fila]
  <2>1. UNCHANGED usuario /\ r.en = "leer" BY <1>3 DEF Leer
  <2>2. CASE Rechazada(r.op, leida)
    <3>1. Terminar(h) BY <1>3, <2>2 DEF Leer
    <3> QED BY <2>1, <3>1, TerminarUsuarios DEF UsuariosInv
  <2>3. CASE ~Rechazada(r.op, leida)
    <3>1. peticion' = [peticion EXCEPT ![h] = nueva] BY <1>3, <2>3 DEF Leer
    <3>2. DOMAIN r = DePeticion /\ FilaEnMemoria(r) BY <2>1 DEF UsuariosInv
    <3>3. /\ DOMAIN leida = Columnas
          /\ r.op \notin {"quitarPermisos", "reestablecer"} => leida.clave = Nulo
      BY <3>2, FilaLeidaInv DEF FilaEnMemoria
    <3>4. /\ DOMAIN fila = Columnas
          /\ \/ fila.clave = Nulo
             \/ "clave" \in DOMAIN r.datos /\ fila.clave = r.datos["clave"]
             \/ r.op = "quitarPermisos"
      <4>1. r.op = "reestablecer" => "clave" \in DOMAIN r.datos BY <3>2 DEF FilaEnMemoria
      <4> HIDE DEF leida
      <4> QED BY <4>1, <3>3, CambiadaInv
    <3> HIDE DEF fila
    <3>5. DOMAIN nueva = DePeticion /\ FilaEnMemoria(nueva)
      BY <3>2, <3>4 DEF FilaEnMemoria, DePeticion
    <3> HIDE DEF nueva
    <3> QED BY <1>b, <2>1, <3>1, <3>5
  <2> QED BY <2>2, <2>3
<1>4. ASSUME GuardarNuevo(h)
      PROVE  UsuariosInv' /\ \A p \in Personas : ContrasenaDe(p)
  <2>1. Terminar(h) /\ r.usuario \in Personas
    BY <1>4 DEF GuardarNuevo, UsuariosInv, FilaEnMemoria
  <2>2. DOMAIN FilaNueva(r.datos) = Columnas
    BY DEF FilaNueva, ConDatos, SinUsuario, Columnas
  <2>3. /\ DOMAIN usuario' = Personas
        /\ \A p \in Personas : \/ usuario'[p] = usuario[p]
                               \/ ~Existe(p) /\ usuario'[p] = FilaNueva(r.datos)
    BY <1>4, <2>1 DEF GuardarNuevo, UsuariosInv
  <2> QED BY <2>1, <2>2, <2>3, TerminarUsuarios DEF UsuariosInv, ContrasenaDe
<1>5. ASSUME Guardar(h)
      PROVE  UsuariosInv' /\ \A p \in Personas : ContrasenaDe(p)
  <2> DEFINE fila == r.fila
             q == r.usuario
             nueva == [fila EXCEPT !.clave = IF fila.clave = Nulo THEN usuario[q].clave
                                             ELSE fila.clave]
  <2>1. /\ r.en = "guardar" /\ r.op # "crear" /\ Terminar(h)
        /\ usuario' = [usuario EXCEPT ![q] = nueva]
    BY <1>5 DEF Guardar
  <2>2. /\ q \in Personas /\ DOMAIN fila = Columnas
        /\ \/ fila.clave = Nulo
           \/ "clave" \in DOMAIN r.datos /\ fila.clave = r.datos["clave"]
           \/ r.op = "quitarPermisos"
    BY <2>1 DEF UsuariosInv, FilaEnMemoria
  <2>3. /\ DOMAIN nueva = Columnas
        /\ nueva.clave = IF fila.clave = Nulo THEN usuario[q].clave ELSE fila.clave
    BY <2>2 DEF Columnas
  <2> HIDE DEF nueva
  <2>4. /\ DOMAIN usuario' = Personas
        /\ \A p \in Personas : usuario'[p] = IF p = q THEN nueva ELSE usuario[p]
    BY <2>1, <2>2 DEF UsuariosInv
  <2>5. UsuariosInv' BY <2>1, <2>3, <2>4, TerminarUsuarios DEF UsuariosInv
  <2>6. ASSUME NEW p \in Personas, usuario'[p].clave # usuario[p].clave
        PROVE  /\ p = q /\ usuario'[p].clave = fila.clave
               /\ \/ "clave" \in DOMAIN r.datos /\ fila.clave = r.datos["clave"]
                  \/ r.op = "quitarPermisos"
    BY <2>2, <2>3, <2>4, <2>6
  <2>7. \A p \in Personas : ContrasenaDe(p) BY <2>1, <2>6 DEF ContrasenaDe
  <2> QED BY <2>5, <2>7
<1>6. ASSUME FallarUsuario(h) PROVE UsuariosInv' /\ UNCHANGED usuario
  <2>1. Terminar(h) /\ UNCHANGED usuario BY <1>6 DEF FallarUsuario
  <2> QED BY <2>1, TerminarUsuarios DEF UsuariosInv
<1> QED BY <1>a, <1>1, <1>2, <1>3, <1>4, <1>5, <1>6 DEF AtenderUsuario

\* The start.
LEMMA UsuariosInicial == InitFirmantes => UsuariosInv
<1> SUFFICES ASSUME InitFirmantes PROVE UsuariosInv OBVIOUS
<1>1. usuario = FilasIniciales /\ peticion = [h \in Hilos |-> SinPeticion]
  BY DEF InitFirmantes, InitUsuarios
<1>2. DOMAIN usuario = Personas /\ \A p \in Personas : usuario[p] \in Usuario \cup {SinUsuario}
  BY <1>1, UsuariosAssumption
<1>3. \A p \in Personas : DOMAIN usuario[p] = Columnas
  BY <1>2 DEF Usuario, SinUsuario, Columnas
<1>4. DOMAIN SinPeticion = DePeticion /\ SinPeticion.en = "libre"
  BY DEF SinPeticion, DePeticion
<1> QED BY <1>1, <1>2, <1>3, <1>4 DEF UsuariosInv

\* Whatever is done about users or documents, the requests about users hold
\* whole rows, and passwords change as they say.
LEMMA UsuariosSiguiente ==
  UsuariosInv /\ [NextFirmantes]_todas => UsuariosInv' /\ (\A p \in Personas : ContrasenaDe(p))
<1> SUFFICES ASSUME UsuariosInv, [NextFirmantes]_todas
             PROVE  UsuariosInv' /\ \A p \in Personas : ContrasenaDe(p)
  OBVIOUS
<1>a. ASSUME UNCHANGED <<usuario, peticion>>
      PROVE  UsuariosInv' /\ \A p \in Personas : ContrasenaDe(p)
  BY <1>a DEF UsuariosInv, ContrasenaDe
<1>b. ASSUME UNCHANGED usuario, Perder
      PROVE  UsuariosInv' /\ \A p \in Personas : ContrasenaDe(p)
  <2>1. DOMAIN SinPeticion = DePeticion /\ SinPeticion.en = "libre"
    BY DEF SinPeticion, DePeticion
  <2> QED BY <1>b, <2>1 DEF Perder, UsuariosInv, ContrasenaDe
<1>1. ASSUME NEW h \in Hilos, PedirUsuario(h) \/ AtenderUsuario(h) \/ FallarUsuario(h)
      PROVE  UsuariosInv' /\ \A p \in Personas : ContrasenaDe(p)
  BY <1>1, PasoDePeticion
<1>2. ASSUME NEW h \in Hilos, LlegaTramite(h) PROVE UNCHANGED varsUsuarios
  BY <1>2 DEF LlegaTramite, PedirNuevo, PedirTramite
<1>3. ASSUME NEW h \in Hilos, NEW k \in Copias, NEW clase \in Clases, Recibir(h, k, clase)
      PROVE  UNCHANGED usuario /\ (UNCHANGED peticion \/ Perder)
  BY <1>3 DEF Recibir
<1>4. ASSUME NEW h \in Hilos, AtenderTramite(h) PROVE UNCHANGED varsUsuarios
  BY <1>4 DEF AtenderTramite, AutorizarTramite, LeerFirmantes, GuardarDocumento,
              LeerDocumento, Enviar, GuardarCopia, GuardarAviso
<1>5. ASSUME NEW h \in Hilos, FallarTramite(h) PROVE UNCHANGED varsUsuarios
  BY <1>5 DEF FallarTramite
<1>6. ASSUME NEW p \in Personas, Caducar(p) \/ \E c \in Claves : Entrar(p, c)
      PROVE  UNCHANGED <<usuario, peticion>>
  BY <1>6 DEF Caducar, Entrar
<1>7. ASSUME NEW k \in Copias, BorrarCopia(k) PROVE UNCHANGED varsUsuarios
  BY <1>7 DEF BorrarCopia
<1>8. ASSUME CaerServidor PROVE UNCHANGED usuario /\ Perder BY <1>8 DEF CaerServidor
<1>9. ASSUME UNCHANGED todas PROVE UNCHANGED varsUsuarios BY <1>9 DEF todas
<1> QED BY <1>a, <1>b, <1>1, <1>2, <1>3, <1>4, <1>5, <1>6, <1>7, <1>8, <1>9
     DEF NextFirmantes, varsUsuarios

\* However requests about users overlap, fail or are lost, and whatever
\* documents are signed meanwhile, a password changes only to the one that a
\* request about that user brings (usuarios.service.ts: updatePassword,
\* reestablecer, update), or to the one that removerPermisos read.
THEOREM ContrasenaSiempre == SpecFirmantes => ContrasenaConservada
<1> QED
  BY UsuariosInicial, UsuariosSiguiente, PTL DEF SpecFirmantes, ContrasenaConservada, ContrasenaDe

(* Documents. *)

Estados == {"libre", "autorizar", "firmantes", "guardarNuevo", "abrir", "enviar", "guardarCopia",
            "guardarAviso"}
Nuevos == {"crear", "cotejar"}
Copia == [de : Documentos \cup {Nulo}, sellos : SUBSET Personas, avisos : SUBSET Clases,
          borrada : BOOLEAN]
Tramite == [op : {"-", "abrir"} \cup Nuevos \cup Clases, en : Estados,
            quien : Personas \cup {Nulo}, docs : Seq(Documentos),
            fila : Firma \cup {SinDocumento}, sellos : SUBSET Personas]

TipoFirmantes ==
  /\ documento \in [Documentos -> Firma \cup {SinDocumento}]
  /\ copia \in [Copias -> Copia]
  /\ tramite \in [Hilos -> Tramite]

\* Two rows of one document: what it is and who is to sign it never change.
MismaFirma(fila, otra) ==
  /\ fila.tipo = otra.tipo /\ fila.accion = otra.accion
  /\ fila.usuariosFirmadores = otra.usuariosFirmadores

\* On an invoice there is the seal of a signer, and to cancel it no other.
Sellado(sellos, fila) ==
  fila.tipo = "APROBACION_DE_FACTURA" =>
    /\ sellos \cap fila.usuariosFirmadores # {}
    /\ fila.accion = "CANCEL" => sellos \subseteq fila.usuariosFirmadores

\* The provider has said of a copy of the document that all signed it, or that
\* somebody rejected it.
Terminada(d, clases) == \E k \in Copias : copia[k].de = d /\ copia[k].avisos \cap clases # {}
Notificada(d) == Terminada(d, {"completado", "rechazado"})

\* A row of document d, in the table or in memory: its ticket and its url are of
\* one copy of d, and it is signed only after a notification.
FilaDe(d, fila) ==
  /\ fila.url # Nulo =>
       fila.url \in Copias /\ fila.ticket = fila.url /\ copia[fila.url].de = d
  /\ fila.isSigned => Notificada(d)

\* A request or notification in flight, by what it is about to do.
Creando(h) ==
  LET t == tramite[h] IN
  t.en \in {"firmantes", "guardarNuevo"} \/ (t.en = "autorizar" /\ t.op \in Nuevos) =>
    /\ t.op \in Nuevos /\ t.quien \in Personas /\ Len(t.docs) = 1
    /\ t.fila \in Firma /\ t.fila.url = Nulo /\ ~t.fila.isSigned
Abriendo(h) ==
  LET t == tramite[h] IN
  t.en \in {"abrir", "enviar", "guardarCopia"} \/ (t.en = "autorizar" /\ t.op = "abrir") =>
    t.op \in {"abrir", "cotejar"} /\ t.quien \in Personas /\ t.docs # <<>>
ConFila(h) ==
  LET t == tramite[h]
      d == Head(t.docs)
  IN  t.en \in {"enviar", "guardarCopia", "guardarAviso"} =>
        /\ t.docs # <<>> /\ Hay(d)
        /\ t.fila \in Firma /\ MismaFirma(t.fila, documento[d]) /\ FilaDe(d, t.fila)
        /\ t.en = "enviar" => Sellado(t.sellos, documento[d])
        /\ t.en = "guardarAviso" =>
             /\ t.op \in Clases
             /\ t.op # "original" => Terminada(d, {t.op})
EnVuelo(h) ==
  /\ Creando(h) /\ Abriendo(h) /\ ConFila(h)
  /\ tramite[h].en = "autorizar" => tramite[h].op \in Nuevos \cup {"abrir"}

\* No two requests make the same document, and none makes one that there is.
Creadora(h) ==
  tramite[h].en \in {"autorizar", "firmantes", "guardarNuevo"} /\ tramite[h].op \in Nuevos
PorCrear(h) == Head(tramite[h].docs)
SinRepetir ==
  /\ \A h \in Hilos : Creadora(h) => ~Hay(PorCrear(h))
  /\ \A g, h \in Hilos :
       Creadora(g) /\ Creadora(h) /\ PorCrear(g) = PorCrear(h) => g = h

\* The rows of the documents, and what there is at the provider.
FilasEnRegla == \A d \in Documentos : Hay(d) => FilaDe(d, documento[d])
CopiasEnRegla ==
  \A k \in Copias : copia[k] # SinCopia =>
    /\ copia[k].de \in Documentos /\ Hay(copia[k].de)
    /\ Sellado(copia[k].sellos, documento[copia[k].de])

FirmaInv ==
  /\ FilasEnRegla /\ CopiasEnRegla
  /\ \A h \in Hilos : EnVuelo(h)
  /\ SinRepetir

\* Undisturbed there is one request or notification at a time, what it holds of
\* a document is what the table has, and every document has at most one copy:
\* the one in its row, or the one that is about to be saved there, of which
\* nothing was notified yet.
AlDia(h) ==
  LET t == tramite[h]
      d == Head(t.docs)
  IN  /\ t.en = "enviar" => documento[d].url = Nulo
      /\ t.en = "guardarCopia" =>
           /\ documento[d].url = Nulo /\ t.fila.url # Nulo /\ copia[t.fila.url].avisos = {}
      /\ t.en = "guardarAviso" =>
           /\ t.fila = documento[d]
           /\ t.op # "completado" => "completado" \notin copia[documento[d].url].avisos

Esperada(k) ==
  \E h \in Hilos : /\ tramite[h].en = "guardarCopia"
                   /\ Head(tramite[h].docs) = copia[k].de /\ tramite[h].fila.url = k
Anotandose(k) ==
  \E h \in Hilos : /\ tramite[h].en = "guardarAviso" /\ tramite[h].op = "completado"
                   /\ Head(tramite[h].docs) = copia[k].de
UnoSolo == \A g, h \in Hilos : ~Libre(g) /\ ~Libre(h) => g = h
Guardada(k) == copia[k] # SinCopia => documento[copia[k].de].url = k \/ Esperada(k)
Reflejada(k) ==
  "completado" \in copia[k].avisos =>
    \/ /\ documento[copia[k].de].isSigned
       /\ documento[copia[k].de].signatureStatus = "APROBADA"
    \/ Anotandose(k)
SinIncidentes ==
  /\ UnoSolo
  /\ \A h \in Hilos : AlDia(h)
  /\ \A k \in Copias : Guardada(k) /\ Reflejada(k)

SerialInv == incidentes \in Nat /\ (incidentes = 0 => SinIncidentes)

----
(* What no step undoes. *)

\* A document stays what it is, with its signers; a copy stays of its document, and what
\* was notified of it is not forgotten.
Estable ==
  /\ \A d \in Documentos : Hay(d) =>
       Hay(d)' /\ MismaFirma(documento'[d], documento[d])
  /\ \A k \in Copias : copia[k].de \in Documentos =>
       copia'[k].de = copia[k].de /\ copia[k].avisos \subseteq copia'[k].avisos

\* What is known of a document stays known.
LEMMA SabidoEstable ==
  ASSUME Estable, NEW d \in Documentos
  PROVE  /\ \A clases : Terminada(d, clases) =>
              \E k \in Copias : copia'[k].de = d /\ copia'[k].avisos \cap clases # {}
         /\ \A k \in Copias : copia[k].de = d => copia'[k].de = d
BY DEF Estable, Terminada

\* A row stays in order while its ticket, its url and its signature do.
LEMMA FilaEstable ==
  ASSUME Estable, NEW d \in Documentos, NEW fila, FilaDe(d, fila)
  PROVE  /\ fila.url # Nulo =>
              fila.url \in Copias /\ fila.ticket = fila.url /\ copia'[fila.url].de = d
         /\ fila.isSigned =>
              \E k \in Copias : /\ copia'[k].de = d
                               /\ copia'[k].avisos \cap {"completado", "rechazado"} # {}
BY SabidoEstable DEF FilaDe, Notificada

\* A request that does not move stays in order.
LEMMA EnVueloEstable ==
  ASSUME TipoFirmantes, Estable, NEW h \in Hilos, EnVuelo(h), tramite'[h] = tramite[h]
  PROVE  EnVuelo(h)'
<1> DEFINE t == tramite[h]
<1>0. t \in Tramite BY DEF TipoFirmantes
<1>1. Creando(h)' BY DEF EnVuelo, Creando
<1>2. Abriendo(h)' BY DEF EnVuelo, Abriendo
<1>3. ConFila(h)'
  <2> DEFINE d == Head(t.docs)
  <2> SUFFICES ASSUME t.en \in {"enviar", "guardarCopia", "guardarAviso"}
               PROVE  /\ t.docs # <<>> /\ Hay(d)'
                      /\ t.fila \in Firma /\ MismaFirma(t.fila, documento'[d])
                      /\ FilaDe(d, t.fila)'
                      /\ t.en = "enviar" => Sellado(t.sellos, documento'[d])
                      /\ t.en = "guardarAviso" =>
                           /\ t.op \in Clases
                           /\ t.op # "original" => Terminada(d, {t.op})'
    BY DEF ConFila
  <2>1. /\ t.docs # <<>> /\ Hay(d)
        /\ t.fila \in Firma /\ MismaFirma(t.fila, documento[d]) /\ FilaDe(d, t.fila)
        /\ t.en = "enviar" => Sellado(t.sellos, documento[d])
        /\ t.en = "guardarAviso" =>
             /\ t.op \in Clases
             /\ t.op # "original" => Terminada(d, {t.op})
    BY DEF EnVuelo, ConFila
  <2>2. d \in Documentos BY <1>0, <2>1 DEF Tramite
  <2>3. /\ Hay(d)' /\ MismaFirma(t.fila, documento'[d])
        /\ t.en = "enviar" => Sellado(t.sellos, documento'[d])
    BY <2>1, <2>2 DEF Estable, MismaFirma, Sellado
  <2>4. FilaDe(d, t.fila)'
    <3>1. PICK c \in Documentos, u \in Tramite : c = d /\ u = t BY <1>0, <2>2
    <3>2. FilaDe(c, u.fila) BY <2>1, <3>1
    <3>3. FilaDe(c, u.fila)' BY <3>2, FilaEstable DEF FilaDe, Notificada, Terminada
    <3> QED BY <3>1, <3>3
  <2>5. t.en = "guardarAviso" /\ t.op # "original" => Terminada(d, {t.op})'
    <3>1. PICK c \in Documentos, u \in Tramite : c = d /\ u = t BY <1>0, <2>2
    <3>2. Terminada(c, {u.op}) => Terminada(c, {u.op})' BY SabidoEstable DEF Terminada
    <3> QED BY <2>1, <3>1, <3>2
  <2> QED BY <2>1, <2>3, <2>4, <2>5
<1> QED BY <1>1, <1>2, <1>3 DEF EnVuelo

----
(* The requests about documents, and the notifications, step by step. *)

\* The values that the records start from.
LEMMA Valores ==
  /\ SinDocumento \notin Firma /\ SinTramite \in Tramite /\ SinCopia \in Copia
  /\ SinDocumento.url = Nulo /\ SinDocumento.isSigned = FALSE
  /\ SinTramite.en = "libre"
<1>1. SinDocumento \notin Firma BY DEF SinDocumento, Firma, TIPO_DE_DOCUMENTO
<1>2. SinTramite \in Tramite
  <2>1. <<>> \in Seq(Documentos) OBVIOUS
  <2> QED BY <2>1 DEF SinTramite, Tramite, Estados
<1>3. SinCopia \in Copia BY DEF SinCopia, Copia
<1> QED BY <1>1, <1>2, <1>3 DEF SinDocumento, SinTramite

\* A row that is there is a whole one.
LEMMA FilaCompleta ==
  ASSUME TipoFirmantes, NEW d \in Documentos
  PROVE  /\ Hay(d) => documento[d] \in Firma
         /\ documento[d] \in Firma => Hay(d)
BY Valores DEF TipoFirmantes, Hay

\* A new row, of any document.
LEMMA FirmaNuevaTipo ==
  ASSUME NEW papel \in Papeles, NEW s \in Servicios, NEW firmantes \in SUBSET Personas
  PROVE  LET fila == FirmaNueva(papel[1], papel[2], s, firmantes) IN
         /\ fila \in Firma /\ fila.url = Nulo /\ ~fila.isSigned
<1>1. papel[1] \in TIPO_DE_DOCUMENTO /\ papel[2] \in Acciones BY FirmantesAssumption
<1> QED BY <1>1 DEF FirmaNueva, Firma

\* A request that is to make a document carries that document only.
LEMMA CreadoraUna ==
  ASSUME TipoFirmantes, FirmaInv, NEW h \in Hilos, Creadora(h)
  PROVE  /\ tramite[h].en \in {"autorizar", "firmantes", "guardarNuevo"}
         /\ Len(tramite[h].docs) = 1 /\ 1 \in DOMAIN tramite[h].docs
         /\ PorCrear(h) = tramite[h].docs[1] /\ PorCrear(h) \in Documentos
         /\ ~Hay(PorCrear(h))
<1>1. tramite[h] \in Tramite /\ EnVuelo(h) BY DEF TipoFirmantes, FirmaInv
<1>2. Len(tramite[h].docs) = 1 /\ tramite[h].docs \in Seq(Documentos)
  BY <1>1 DEF Creadora, EnVuelo, Creando, Tramite
<1> QED BY <1>2 DEF Creadora, PorCrear, FirmaInv, SinRepetir

\* Nobody else begins to make a document, and none appears that one was making.
LEMMA SinRepetirEstable ==
  ASSUME SinRepetir,
         \A h \in Hilos : Creadora(h)' =>
           Creadora(h) /\ PorCrear(h)' = PorCrear(h) /\ ~Hay(PorCrear(h))'
  PROVE  SinRepetir'
BY DEF SinRepetir

\* A step that only moves one request, or brings it.
LEMMA SoloTramite ==
  ASSUME TipoFirmantes, FirmaInv, NEW h \in Hilos, NEW nuevo \in Tramite,
         tramite' = [tramite EXCEPT ![h] = nuevo],
         UNCHANGED <<documento, copia>>, EnVuelo(h)',
         Creadora(h)' => Creadora(h) /\ PorCrear(h)' = PorCrear(h)
  PROVE  TipoFirmantes' /\ FirmaInv'
<1>1. TipoFirmantes' BY DEF TipoFirmantes
<1>2. Estable BY DEF Estable, MismaFirma, Hay
<1>3. ASSUME NEW g \in Hilos, g # h PROVE tramite'[g] = tramite[g] /\ EnVuelo(g)'
  <2>1. tramite'[g] = tramite[g] BY <1>3 DEF TipoFirmantes
  <2> QED BY <2>1, <1>2, EnVueloEstable DEF FirmaInv
<1>4. SinRepetir'
  <2>1. ASSUME NEW g \in Hilos, Creadora(g)'
        PROVE  Creadora(g) /\ PorCrear(g)' = PorCrear(g) /\ ~Hay(PorCrear(g))'
    <3>1. Creadora(g) /\ PorCrear(g)' = PorCrear(g) BY <1>3, <2>1 DEF Creadora, PorCrear
    <3>2. ~Hay(PorCrear(g)) BY <3>1, CreadoraUna
    <3> QED BY <3>1, <3>2 DEF Hay
  <2> QED BY <2>1, SinRepetirEstable DEF FirmaInv
<1>5. FilasEnRegla' /\ CopiasEnRegla'
  BY DEF FirmaInv, FilasEnRegla, CopiasEnRegla, FilaDe, Notificada, Terminada,
         Hay
<1> QED BY <1>1, <1>3, <1>4, <1>5 DEF FirmaInv

\* A request that ends has nothing in flight.
LEMMA AcabarLibre ==
  ASSUME TipoFirmantes, NEW h \in Hilos, Acabar(h)
  PROVE  /\ SinTramite \in Tramite
         /\ tramite' = [tramite EXCEPT ![h] = SinTramite] /\ tramite'[h] = SinTramite
         /\ EnVuelo(h)' /\ ~Creadora(h)'
<1>1. tramite'[h] = SinTramite /\ tramite'[h].en = "libre"
  BY Valores DEF Acabar, TipoFirmantes
<1> QED BY <1>1, Valores DEF Acabar, EnVuelo, Creando, Abriendo, ConFila, Creadora

\* A request that ends changes nothing else.
LEMMA AcabarSolo ==
  ASSUME TipoFirmantes, FirmaInv, NEW h \in Hilos, Acabar(h),
         UNCHANGED <<documento, copia>>
  PROVE  TipoFirmantes' /\ FirmaInv'
BY AcabarLibre, SoloTramite

\* A request to make a document, which there is not and nobody is making.
LEMMA PedirNuevoInv ==
  ASSUME TipoFirmantes, FirmaInv, NEW h \in Hilos, NEW quien \in Personas, NEW d \in Documentos,
         NEW papel \in Papeles, NEW s \in Servicios, NEW op \in Nuevos,
         PedirNuevo(h, op, quien, d, papel[1], papel[2], s)
  PROVE  TipoFirmantes' /\ FirmaInv'
<1> DEFINE fila == FirmaNueva(papel[1], papel[2], s, {})
           nuevo == [SinTramite EXCEPT !.op = op, !.en = "autorizar", !.quien = quien,
                                       !.docs = <<d>>, !.fila = fila]
<1>1. fila \in Firma /\ fila.url = Nulo /\ ~fila.isSigned BY FirmaNuevaTipo
<1> HIDE DEF fila
<1>2. tramite' = [tramite EXCEPT ![h] = nuevo] /\ UNCHANGED <<documento, copia>>
  BY DEF PedirNuevo, PedirTramite, fila
<1>3. /\ nuevo \in Tramite /\ nuevo.op = op /\ nuevo.en = "autorizar" /\ nuevo.fila = fila
      /\ nuevo.quien = quien /\ Len(nuevo.docs) = 1 /\ Head(nuevo.docs) = d
  <2>1. <<d>> \in Seq(Documentos) /\ Len(<<d>>) = 1 /\ Head(<<d>>) = d OBVIOUS
  <2> QED BY <1>1, <2>1, Valores DEF Tramite, Estados
<1> HIDE DEF nuevo
<1>4. tramite'[h] = nuevo /\ \A g \in Hilos : g # h => tramite'[g] = tramite[g]
  BY <1>2 DEF TipoFirmantes
<1>5. TipoFirmantes' /\ Estable BY <1>2, <1>3 DEF TipoFirmantes, Estable, MismaFirma, Hay
<1>6. EnVuelo(h)' BY <1>1, <1>3, <1>4 DEF EnVuelo, Creando, Abriendo, ConFila, Nuevos
<1>7. \A g \in Hilos : EnVuelo(g)' BY <1>4, <1>5, <1>6, EnVueloEstable DEF FirmaInv
<1>8. ~Hay(d) /\ \A g \in Hilos : d \notin {tramite[g].docs[i] : i \in DOMAIN tramite[g].docs}
  BY DEF PedirNuevo
<1>9. ASSUME NEW g \in Hilos, g # h, Creadora(g)'
      PROVE  /\ Creadora(g) /\ PorCrear(g)' = PorCrear(g)
             /\ ~Hay(PorCrear(g)) /\ PorCrear(g) # d
  <2>1. Creadora(g) /\ PorCrear(g)' = PorCrear(g) BY <1>4, <1>9 DEF Creadora, PorCrear
  <2> QED BY <2>1, <1>8, CreadoraUna
<1>10. PorCrear(h)' = d BY <1>3, <1>4 DEF PorCrear
<1>11. \A e : Hay(e)' = Hay(e) BY <1>2 DEF Hay
<1>12. SinRepetir'
  <2>1. \A g \in Hilos : Creadora(g)' => ~Hay(PorCrear(g))'
    BY <1>2, <1>8, <1>9, <1>10 DEF Hay
  <2>2. \A g, f \in Hilos :
          Creadora(g)' /\ Creadora(f)' /\ PorCrear(g)' = PorCrear(f)' => g = f
    BY <1>9, <1>10 DEF FirmaInv, SinRepetir
  <2> QED BY <2>1, <2>2 DEF SinRepetir
<1>13. FilasEnRegla' /\ CopiasEnRegla'
  BY <1>2 DEF FirmaInv, FilasEnRegla, CopiasEnRegla, FilaDe, Notificada,
              Terminada, Hay
<1> QED BY <1>5, <1>7, <1>12, <1>13 DEF FirmaInv

\* A request to open documents.
LEMMA PedirAbrirInv ==
  ASSUME TipoFirmantes, FirmaInv, NEW h \in Hilos, NEW quien \in Personas, NEW docs \in Listas,
         PedirTramite(h, "abrir", quien, docs, SinDocumento)
  PROVE  TipoFirmantes' /\ FirmaInv'
<1> DEFINE nuevo == [SinTramite EXCEPT !.op = "abrir", !.en = "autorizar", !.quien = quien,
                                       !.docs = docs, !.fila = SinDocumento]
<1>1. tramite' = [tramite EXCEPT ![h] = nuevo] /\ UNCHANGED <<documento, copia>>
  BY DEF PedirTramite
<1>2. docs \in Seq(Documentos) /\ docs # <<>> BY FirmantesAssumption
<1>3. /\ nuevo \in Tramite /\ nuevo.op = "abrir" /\ nuevo.en = "autorizar" /\ nuevo.docs = docs
      /\ nuevo.quien = quien
  BY <1>2, Valores DEF Tramite, Estados
<1> HIDE DEF nuevo
<1>4. tramite'[h] = nuevo BY <1>1 DEF TipoFirmantes
<1>5. EnVuelo(h)' /\ ~Creadora(h)'
  BY <1>2, <1>3, <1>4 DEF EnVuelo, Creando, Abriendo, ConFila, Creadora, Nuevos
<1> QED BY <1>1, <1>3, <1>5, SoloTramite

\* The token is checked, or the signers of the new document are read.
LEMMA AutorizarInv ==
  ASSUME TipoFirmantes, FirmaInv, NEW h \in Hilos, AutorizarTramite(h) \/ LeerFirmantes(h)
  PROVE  TipoFirmantes' /\ FirmaInv'
<1> DEFINE t == tramite[h]
<1>0. t \in Tramite /\ EnVuelo(h) BY DEF TipoFirmantes, FirmaInv
<1>1. UNCHANGED <<documento, copia>> BY DEF AutorizarTramite, LeerFirmantes
<1>2. CASE Acabar(h) BY <1>1, <1>2, AcabarSolo
<1>3. CASE AutorizarTramite(h) /\ ~Acabar(h)
  <2> DEFINE en == IF t.op = "abrir" THEN "abrir" ELSE "firmantes"
             nuevo == [t EXCEPT !.en = en]
  <2>1. t.en = "autorizar" /\ tramite' = [tramite EXCEPT ![h] = nuevo]
    BY <1>3 DEF AutorizarTramite, Pasar
  <2>2. \/ en = "firmantes" /\ t.op \in Nuevos
        \/ en = "abrir" /\ t.op = "abrir"
    BY <1>0, <2>1 DEF EnVuelo
  <2> HIDE DEF en
  <2>3. nuevo \in Tramite BY <1>0, <2>2 DEF Tramite, Estados
  <2>4. /\ tramite'[h] = nuevo
        /\ nuevo.op = t.op /\ nuevo.en = en /\ nuevo.docs = t.docs /\ nuevo.quien = t.quien
        /\ nuevo.fila = t.fila
    BY <1>0, <2>1 DEF TipoFirmantes, Tramite
  <2> HIDE DEF nuevo
  <2>5. Creando(h)' /\ ConFila(h)' BY <1>0, <2>1, <2>2, <2>4 DEF EnVuelo, Creando, ConFila
  <2>6. Abriendo(h)' BY <1>0, <2>1, <2>2, <2>4 DEF EnVuelo, Abriendo
  <2>7. Creadora(h)' => Creadora(h) /\ PorCrear(h)' = PorCrear(h)
    BY <2>1, <2>2, <2>4 DEF Creadora, PorCrear
  <2> QED BY <1>1, <2>1, <2>2, <2>3, <2>4, <2>5, <2>6, <2>7, SoloTramite DEF EnVuelo
<1>4. CASE LeerFirmantes(h) /\ ~Acabar(h)
  <2> DEFINE firmantes == {p \in Personas : Puede(p, t.fila.tipo, t.fila.servicio)}
             nuevo == [t EXCEPT !.en = "guardarNuevo", !.fila.usuariosFirmadores = firmantes]
  <2>1. t.en = "firmantes" /\ tramite' = [tramite EXCEPT ![h] = nuevo]
    BY <1>4 DEF LeerFirmantes
  <2>2. /\ t.op \in Nuevos /\ t.quien \in Personas /\ Len(t.docs) = 1
        /\ t.fila \in Firma /\ t.fila.url = Nulo /\ ~t.fila.isSigned
    BY <1>0, <2>1 DEF EnVuelo, Creando
  <2>3. firmantes \in SUBSET Personas OBVIOUS
  <2> HIDE DEF firmantes
  <2> DEFINE fila == [t.fila EXCEPT !.usuariosFirmadores = firmantes]
  <2>4. fila \in Firma /\ fila.url = Nulo /\ ~fila.isSigned BY <2>2, <2>3 DEF Firma
  <2>5. nuevo = [t EXCEPT !.en = "guardarNuevo", !.fila = fila] BY <1>0 DEF Tramite
  <2> HIDE DEF fila
  <2>6. /\ nuevo \in Tramite /\ nuevo.en = "guardarNuevo" /\ nuevo.fila = fila
        /\ nuevo.op = t.op /\ nuevo.docs = t.docs /\ nuevo.quien = t.quien
    BY <1>0, <2>4, <2>5 DEF Tramite, Estados
  <2> HIDE DEF nuevo
  <2>7. tramite'[h] = nuevo BY <2>1 DEF TipoFirmantes
  <2>8. EnVuelo(h)' BY <2>2, <2>4, <2>6, <2>7 DEF EnVuelo, Creando, Abriendo, ConFila
  <2>9. Creadora(h)' => Creadora(h) /\ PorCrear(h)' = PorCrear(h)
    BY <2>1, <2>6, <2>7 DEF Creadora, PorCrear
  <2> QED BY <1>1, <2>1, <2>6, <2>8, <2>9, SoloTramite
<1> QED BY <1>2, <1>3, <1>4

\* A step of one request that keeps what is known of documents and copies.
LEMMA UnTramite ==
  ASSUME TipoFirmantes, FirmaInv, NEW h \in Hilos, NEW nuevo \in Tramite,
         tramite' = [tramite EXCEPT ![h] = nuevo], Estable,
         EnVuelo(h)', ~Creadora(h)', FilasEnRegla', CopiasEnRegla',
         \A g \in Hilos : g # h /\ Creadora(g) => ~Hay(PorCrear(g))'
  PROVE  FirmaInv'
<1>1. \A g \in Hilos : g # h => tramite'[g] = tramite[g] BY DEF TipoFirmantes
<1>2. \A g \in Hilos : EnVuelo(g)' BY <1>1, EnVueloEstable DEF FirmaInv
<1>3. SinRepetir'
  <2>1. ASSUME NEW g \in Hilos, Creadora(g)'
        PROVE  Creadora(g) /\ PorCrear(g)' = PorCrear(g) /\ ~Hay(PorCrear(g))'
    <3>1. g # h /\ Creadora(g) /\ PorCrear(g)' = PorCrear(g)
      BY <1>1, <2>1 DEF Creadora, PorCrear
    <3> QED BY <3>1
  <2> QED BY <2>1, SinRepetirEstable DEF FirmaInv
<1> QED BY <1>2, <1>3 DEF FirmaInv

\* The new document is saved, and its request ends or opens it.
LEMMA TrasGuardar ==
  ASSUME TipoFirmantes, FirmaInv, NEW h \in Hilos, GuardarDocumento(h)
  PROVE  /\ \E nuevo \in Tramite :
              /\ tramite' = [tramite EXCEPT ![h] = nuevo] /\ tramite'[h] = nuevo
              /\ nuevo.en \in {"libre", "abrir"}
         /\ EnVuelo(h)' /\ ~Creadora(h)'
<1> DEFINE t == tramite[h]
<1>1. CASE Acabar(h) BY <1>1, AcabarLibre, Valores
<1>2. CASE ~Acabar(h)
  <2> DEFINE nuevo == [t EXCEPT !.en = "abrir", !.fila = SinDocumento]
  <2>1. t \in Tramite /\ t.op = "cotejar" /\ tramite' = [tramite EXCEPT ![h] = nuevo]
    BY <1>2 DEF GuardarDocumento, TipoFirmantes
  <2>2. t.quien \in Personas /\ t.docs # <<>>
    BY DEF GuardarDocumento, FirmaInv, EnVuelo, Creando
  <2>3. /\ nuevo \in Tramite /\ nuevo.en = "abrir" /\ nuevo.op = "cotejar"
        /\ nuevo.docs = t.docs /\ nuevo.quien = t.quien
    BY <2>1 DEF Tramite, Estados
  <2> HIDE DEF nuevo
  <2>4. tramite'[h] = nuevo BY <2>1 DEF TipoFirmantes
  <2>5. EnVuelo(h)' /\ ~Creadora(h)'
    BY <2>2, <2>3, <2>4 DEF EnVuelo, Creando, Abriendo, ConFila, Creadora
  <2> QED BY <2>1, <2>3, <2>4, <2>5
<1> QED BY <1>1, <1>2

LEMMA GuardarDocumentoInv ==
  ASSUME TipoFirmantes, FirmaInv, NEW h \in Hilos, GuardarDocumento(h)
  PROVE  TipoFirmantes' /\ FirmaInv'
<1> DEFINE t == tramite[h]
<1>1. /\ t.en = "guardarNuevo" /\ t.op \in Nuevos /\ t.fila \in Firma
      /\ t.fila.url = Nulo /\ ~t.fila.isSigned
      /\ documento' = [documento EXCEPT ![t.docs[1]] = t.fila] /\ UNCHANGED copia
  BY DEF GuardarDocumento, FirmaInv, EnVuelo, Creando
<1>2. Creadora(h) BY <1>1 DEF Creadora
<1>3. PICK d \in Documentos, fila \in Firma :
        d = t.docs[1] /\ d = PorCrear(h) /\ ~Hay(d) /\ fila = t.fila
  BY <1>1, <1>2, CreadoraUna
<1>4. \A e \in Documentos : documento'[e] = IF e = d THEN fila ELSE documento[e]
  BY <1>1, <1>3 DEF TipoFirmantes
<1>5. Estable BY <1>1, <1>3, <1>4 DEF Estable, MismaFirma, Hay
<1>6. /\ \E nuevo \in Tramite : tramite' = [tramite EXCEPT ![h] = nuevo]
      /\ EnVuelo(h)' /\ ~Creadora(h)'
  BY TrasGuardar
<1>7. TipoFirmantes' BY <1>1, <1>3, <1>6 DEF TipoFirmantes
<1>8. FilasEnRegla'
  <2>1. ASSUME NEW e \in Documentos, Hay(e)' PROVE FilaDe(e, documento[e])'
    <3>1. CASE e = d BY <1>1, <1>3, <1>4, <3>1 DEF FilaDe
    <3>2. CASE e # d BY <1>1, <1>4, <2>1, <3>2
         DEF FilaDe, Notificada, Terminada, Hay, FirmaInv, FilasEnRegla
    <3> QED BY <3>1, <3>2
  <2> QED BY <2>1 DEF FilasEnRegla
<1>9. CopiasEnRegla'
  BY <1>1, <1>5 DEF CopiasEnRegla, FirmaInv, Estable, MismaFirma, Sellado
<1>10. ASSUME NEW g \in Hilos, g # h, Creadora(g) PROVE ~Hay(PorCrear(g))'
  <2>1. PICK e \in Documentos : e = PorCrear(g) /\ ~Hay(e) /\ e # d
    BY <1>2, <1>3, <1>10, CreadoraUna DEF FirmaInv, SinRepetir
  <2>2. PorCrear(g)' = e BY <1>6, <1>10, <2>1 DEF TipoFirmantes, PorCrear
  <2> QED BY <1>4, <2>1, <2>2 DEF Hay
<1> QED BY <1>1, <1>5, <1>6, <1>7, <1>8, <1>9, <1>10, UnTramite

\* What is left of a list of several documents.
LEMMA RestoDeLista ==
  ASSUME NEW S, NEW s \in Seq(S), s # <<>>, Len(s) # 1
  PROVE  Tail(s) \in Seq(S) /\ Tail(s) # <<>>
<1>1. Len(s) \in Nat /\ Len(s) > 1
  <2>1. 1 \in DOMAIN s OBVIOUS
  <2>2. Len(s) \in Nat /\ DOMAIN s = 1..Len(s) OBVIOUS
  <2> QED BY <2>1, <2>2
<1>2. Tail(s) \in Seq(S) /\ Len(Tail(s)) = Len(s) - 1 OBVIOUS
<1>3. DOMAIN Tail(s) = 1..Len(Tail(s)) /\ Tail(s) # <<>> BY <1>1, <1>2
<1> QED BY <1>2, <1>3

\* On to the next document of the list, or the request ends.
LEMMA SiguienteDocumentoInv ==
  ASSUME TipoFirmantes, FirmaInv, NEW h \in Hilos, Estable,
         tramite[h].en \in {"abrir", "enviar", "guardarCopia"}, SiguienteDocumento(h)
  PROVE  /\ \E nuevo \in Tramite :
              /\ tramite' = [tramite EXCEPT ![h] = nuevo] /\ tramite'[h] = nuevo
              /\ nuevo.en \in {"libre", "abrir"}
         /\ EnVuelo(h)' /\ ~Creadora(h)'
<1> DEFINE t == tramite[h]
<1>0. t \in Tramite /\ EnVuelo(h) BY DEF TipoFirmantes, FirmaInv
<1>1. /\ t.op \in {"abrir", "cotejar"} /\ t.quien \in Personas
      /\ t.docs # <<>> /\ t.docs \in Seq(Documentos)
  BY <1>0 DEF EnVuelo, Abriendo, Tramite
<1>2. CASE Acabar(h) BY <1>2, AcabarLibre, Valores
<1>3. CASE ~Acabar(h)
  <2> DEFINE nuevo == [t EXCEPT !.en = "abrir", !.docs = Tail(t.docs), !.fila = SinDocumento,
                                !.sellos = {}]
  <2>1. Len(t.docs) # 1 /\ tramite' = [tramite EXCEPT ![h] = nuevo]
    BY <1>3 DEF SiguienteDocumento
  <2>2. Tail(t.docs) \in Seq(Documentos) /\ Tail(t.docs) # <<>>
    BY <1>1, <2>1, RestoDeLista
  <2>3. /\ nuevo \in Tramite /\ nuevo.en = "abrir" /\ nuevo.op = t.op
        /\ nuevo.docs = Tail(t.docs) /\ nuevo.quien = t.quien
    BY <1>0, <2>2 DEF Tramite, Estados
  <2> HIDE DEF nuevo
  <2>4. tramite'[h] = nuevo BY <2>1 DEF TipoFirmantes
  <2>5. EnVuelo(h)' /\ ~Creadora(h)'
    BY <1>1, <2>2, <2>3, <2>4 DEF EnVuelo, Creando, Abriendo, ConFila, Creadora
  <2> QED BY <2>1, <2>3, <2>4, <2>5
<1> QED BY <1>2, <1>3

\* The seals of a copy: on an invoice that of one of its signers comes first.
LEMMA SellosDeFirmantes ==
  ASSUME NEW d \in Documentos, documento[d] \in Firma, NEW p \in Personas, NEW s \in Sellos(d, p)
  PROVE  s \in SUBSET Personas /\ Sellado(s, documento[d])
<1>1. CASE documento[d].tipo # "APROBACION_DE_FACTURA" BY <1>1 DEF Sellos, Sellado
<1>2. CASE documento[d].tipo = "APROBACION_DE_FACTURA"
  <2>1. PICK a \in Aprobadores(d) :
          s = {a} \cup (IF documento[d].accion = "CANCEL" THEN {} ELSE {p})
    BY <1>2 DEF Sellos
  <2>2. a \in documento[d].usuariosFirmadores /\ a \in Personas BY DEF Aprobadores, Firma
  <2> QED BY <2>1, <2>2 DEF Sellado
<1> QED BY <1>1, <1>2

\* The document at the head of the list is read.
LEMMA LeerDocumentoInv ==
  ASSUME TipoFirmantes, FirmaInv, NEW h \in Hilos, LeerDocumento(h)
  PROVE  TipoFirmantes' /\ FirmaInv'
<1> DEFINE t == tramite[h]
           d == Head(t.docs)
<1>0. t \in Tramite /\ EnVuelo(h) BY DEF TipoFirmantes, FirmaInv
<1>1. t.en = "abrir" /\ UNCHANGED <<documento, copia>> BY DEF LeerDocumento
<1>2. /\ t.op \in {"abrir", "cotejar"} /\ t.quien \in Personas
      /\ t.docs # <<>> /\ t.docs \in Seq(Documentos)
  BY <1>0, <1>1 DEF EnVuelo, Abriendo, Tramite
<1>3. d \in Documentos /\ (Hay(d) => documento[d] \in Firma) BY <1>2, FilaCompleta
<1>4. CASE Acabar(h) BY <1>1, <1>4, AcabarSolo
<1>5. CASE SiguienteDocumento(h)
  <2>1. Estable BY <1>1 DEF Estable, MismaFirma, Hay
  <2> QED BY <1>1, <1>5, <2>1, SiguienteDocumentoInv, SoloTramite
<1>6. ASSUME Hay(d), NEW s \in Sellos(d, t.quien),
             tramite' = [tramite EXCEPT ![h].en = "enviar", ![h].fila = documento[d],
                                        ![h].sellos = s]
      PROVE  TipoFirmantes' /\ FirmaInv'
  <2> DEFINE nuevo == [t EXCEPT !.en = "enviar", !.fila = documento[d], !.sellos = s]
  <2>1. tramite' = [tramite EXCEPT ![h] = nuevo] BY <1>0, <1>6 DEF TipoFirmantes
  <2>2. s \in SUBSET Personas /\ Sellado(s, documento[d])
    BY <1>2, <1>3, <1>6, SellosDeFirmantes
  <2>4. /\ nuevo \in Tramite /\ nuevo.en = "enviar" /\ nuevo.op = t.op
        /\ nuevo.docs = t.docs /\ nuevo.quien = t.quien
        /\ nuevo.fila = documento[d] /\ nuevo.sellos = s
    BY <1>0, <1>3, <1>6, <2>2 DEF Tramite, Estados
  <2> HIDE DEF nuevo
  <2>5. tramite'[h] = nuevo BY <2>1 DEF TipoFirmantes
  <2>6. Abriendo(h)' BY <1>2, <2>4, <2>5 DEF Abriendo
  <2>7. ConFila(h)'
    <3>1. FilaDe(d, documento[d]) BY <1>3, <1>6 DEF FirmaInv, FilasEnRegla
    <3> QED BY <1>1, <1>2, <1>3, <1>6, <2>2, <2>4, <2>5, <3>1
            DEF ConFila, FilaDe, Notificada, Terminada, Hay, MismaFirma
  <2>8. EnVuelo(h)' /\ ~Creadora(h)'
    BY <2>4, <2>5, <2>6, <2>7 DEF EnVuelo, Creando, Creadora
  <2> QED BY <1>1, <2>1, <2>4, <2>8, SoloTramite
<1> QED BY <1>4, <1>5, <1>6 DEF LeerDocumento

\* A copy that the provider makes is in order, and no other changes.
LEMMA NuevaCopiaInv ==
  ASSUME TipoFirmantes, FirmaInv, NEW h \in Hilos, NEW k \in Copias,
         tramite[h].en = "enviar", NuevaCopia(h, k), UNCHANGED documento
  PROVE  /\ copia' \in [Copias -> Copia] /\ Estable /\ FilasEnRegla' /\ CopiasEnRegla'
         /\ copia'[k].de = Head(tramite[h].docs) /\ copia'[k].avisos = {}
         /\ \A l \in Copias : l # k => copia'[l] = copia[l]
         /\ copia[k] = SinCopia
<1> DEFINE t == tramite[h]
           nueva == [copia[k] EXCEPT !.de = Head(t.docs), !.sellos = t.sellos]
<1>0. t \in Tramite /\ ConFila(h) BY DEF TipoFirmantes, FirmaInv, EnVuelo
<1>1. PICK d \in Documentos :
        d = Head(t.docs) /\ Hay(d) /\ Sellado(t.sellos, documento[d])
  BY <1>0 DEF ConFila, Tramite
<1>2. /\ copia[k] = SinCopia /\ copia' = [copia EXCEPT ![k] = nueva]
  BY DEF NuevaCopia, TipoFirmantes
<1>3. /\ nueva \in Copia /\ nueva.de = d /\ nueva.sellos = t.sellos /\ nueva.avisos = {}
  <2>1. copia[k] \in Copia BY DEF TipoFirmantes
  <2>2. t.sellos \in SUBSET Personas BY <1>0 DEF Tramite
  <2>3. copia[k].avisos = {} BY <1>2 DEF SinCopia
  <2> QED BY <1>1, <2>1, <2>2, <2>3 DEF Copia
<1> HIDE DEF nueva
<1>4. /\ copia' \in [Copias -> Copia]
      /\ \A l \in Copias : copia'[l] = IF l = k THEN nueva ELSE copia[l]
  BY <1>2, <1>3 DEF TipoFirmantes
<1>5. Estable
  <2>1. copia[k].de \notin Documentos BY <1>2, FirmantesAssumption DEF SinCopia
  <2> QED BY <1>4, <2>1 DEF Estable, MismaFirma, Hay
<1>6. FilasEnRegla'
  <2>1. ASSUME NEW e \in Documentos, Hay(e)' PROVE FilaDe(e, documento[e])'
    <3>1. PICK fila : fila = documento[e] /\ FilaDe(e, fila)
      BY <2>1 DEF FirmaInv, FilasEnRegla, Hay
    <3> QED BY <1>5, <3>1, FilaEstable DEF FilaDe, Notificada, Terminada
  <2> QED BY <2>1 DEF FilasEnRegla
<1>7. CopiasEnRegla' BY <1>1, <1>3, <1>4 DEF CopiasEnRegla, FirmaInv, Hay
<1> QED BY <1>1, <1>2, <1>3, <1>4, <1>5, <1>6, <1>7

\* The provider makes a copy and its answer arrives.
LEMMA EnviarInv ==
  ASSUME TipoFirmantes, FirmaInv, NEW h \in Hilos, NEW k \in Copias, Enviar(h, k)
  PROVE  TipoFirmantes' /\ FirmaInv'
<1> DEFINE t == tramite[h]
           fila == [t.fila EXCEPT !.ticket = k, !.url = k]
           nuevo == [t EXCEPT !.en = "guardarCopia", !.fila = fila]
<1>0. t \in Tramite /\ EnVuelo(h) BY DEF TipoFirmantes, FirmaInv
<1>1. /\ t.en = "enviar" /\ NuevaCopia(h, k) /\ UNCHANGED documento
      /\ tramite' = [tramite EXCEPT ![h] = nuevo]
  BY <1>0 DEF Enviar, TipoFirmantes, Tramite
<1>2. /\ t.op \in {"abrir", "cotejar"} /\ t.quien \in Personas
      /\ t.docs # <<>> /\ t.docs \in Seq(Documentos)
      /\ Hay(Head(t.docs)) /\ t.fila \in Firma /\ FilaDe(Head(t.docs), t.fila)
      /\ MismaFirma(t.fila, documento[Head(t.docs)])
  BY <1>0, <1>1 DEF EnVuelo, Abriendo, ConFila, Tramite
<1>3. /\ fila \in Firma /\ fila.ticket = k /\ fila.url = k
      /\ fila.isSigned = t.fila.isSigned
      /\ MismaFirma(fila, documento[Head(t.docs)])
  BY <1>2 DEF Firma, MismaFirma
<1> HIDE DEF fila
<1>4. /\ nuevo \in Tramite /\ nuevo.en = "guardarCopia" /\ nuevo.op = t.op
      /\ nuevo.docs = t.docs /\ nuevo.quien = t.quien /\ nuevo.fila = fila
  BY <1>0, <1>2, <1>3 DEF Tramite, Estados
<1> HIDE DEF nuevo
<1>5. tramite'[h] = nuevo BY <1>1 DEF TipoFirmantes
<1>6. /\ copia' \in [Copias -> Copia] /\ Estable /\ FilasEnRegla' /\ CopiasEnRegla'
      /\ copia'[k].de = Head(t.docs)
  BY <1>1, NuevaCopiaInv
<1>7. TipoFirmantes' BY <1>1, <1>4, <1>6 DEF TipoFirmantes
<1>8. Abriendo(h)' BY <1>2, <1>4, <1>5 DEF Abriendo
<1>9. ConFila(h)'
  <2>1. PICK d \in Documentos, f \in Firma : d = Head(t.docs) /\ f = t.fila BY <1>2
  <2>2. f.isSigned => \E l \in Copias : /\ copia'[l].de = d
                                       /\ copia'[l].avisos \cap {"completado", "rechazado"} # {}
    BY <1>2, <1>6, <2>1, FilaEstable
  <2> QED BY <1>1, <1>2, <1>3, <1>4, <1>5, <1>6, <2>1, <2>2
          DEF ConFila, FilaDe, Notificada, Terminada, Hay
<1>10. EnVuelo(h)' /\ ~Creadora(h)'
  BY <1>4, <1>5, <1>8, <1>9 DEF EnVuelo, Creando, Creadora
<1>11. ASSUME NEW g \in Hilos, g # h, Creadora(g) PROVE ~Hay(PorCrear(g))'
  BY <1>1, <1>11, CreadoraUna DEF Hay, PorCrear, TipoFirmantes
<1> QED BY <1>1, <1>4, <1>6, <1>7, <1>10, <1>11, UnTramite

\* A row is saved whole, over one with the same signers.
LEMMA FilaGuardada ==
  ASSUME TipoFirmantes, FirmaInv, NEW d \in Documentos, NEW fila \in Firma, Hay(d),
         MismaFirma(fila, documento[d]), FilaDe(d, fila),
         documento' = [documento EXCEPT ![d] = fila], UNCHANGED copia
  PROVE  /\ documento' \in [Documentos -> Firma \cup {SinDocumento}]
         /\ Estable /\ FilasEnRegla' /\ CopiasEnRegla'
         /\ \A e \in Documentos : Hay(e)' = Hay(e)
<1>1. /\ documento' \in [Documentos -> Firma \cup {SinDocumento}]
      /\ \A e \in Documentos : documento'[e] = IF e = d THEN fila ELSE documento[e]
  BY DEF TipoFirmantes
<1>2. \A e \in Documentos :
        /\ Hay(e)' = Hay(e)
        /\ Hay(e) => MismaFirma(documento'[e], documento[e])
  BY <1>1, Valores DEF Hay, MismaFirma
<1>3. Estable BY <1>2 DEF Estable
<1>4. FilasEnRegla'
  <2>1. ASSUME NEW e \in Documentos, Hay(e)' PROVE FilaDe(e, documento[e])'
    <3>1. FilaDe(e, documento'[e]) BY <1>1, <1>2, <2>1 DEF FirmaInv, FilasEnRegla
    <3> QED BY <3>1 DEF FilaDe, Notificada, Terminada
  <2> QED BY <2>1 DEF FilasEnRegla
<1>5. CopiasEnRegla'
  <2>1. ASSUME NEW k \in Copias, copia'[k] # SinCopia
        PROVE  /\ copia'[k].de \in Documentos /\ Hay(copia[k].de)'
               /\ Sellado(copia'[k].sellos, documento'[copia'[k].de])
    <3>1. PICK e \in Documentos : e = copia[k].de BY <2>1 DEF FirmaInv, CopiasEnRegla
    <3>2. Hay(e) /\ Sellado(copia[k].sellos, documento[e])
      BY <2>1, <3>1 DEF FirmaInv, CopiasEnRegla
    <3> QED BY <1>2, <3>1, <3>2 DEF Hay, MismaFirma, Sellado
  <2> QED BY <2>1 DEF CopiasEnRegla
<1> QED BY <1>1, <1>2, <1>3, <1>4, <1>5

\* And the request that saved it goes on, or ends.
LEMMA FilaGuardadaInv ==
  ASSUME TipoFirmantes, FirmaInv, NEW h \in Hilos, NEW nuevo \in Tramite,
         documento' \in [Documentos -> Firma \cup {SinDocumento}], UNCHANGED copia,
         Estable, FilasEnRegla', CopiasEnRegla', \A e \in Documentos : Hay(e)' = Hay(e),
         tramite' = [tramite EXCEPT ![h] = nuevo], EnVuelo(h)', ~Creadora(h)'
  PROVE  TipoFirmantes' /\ FirmaInv'
<1>1. TipoFirmantes' BY DEF TipoFirmantes
<1>2. ASSUME NEW g \in Hilos, g # h, Creadora(g) PROVE ~Hay(PorCrear(g))'
  <2>1. PICK e \in Documentos : e = PorCrear(g) /\ ~Hay(e) BY <1>2, CreadoraUna
  <2>2. PorCrear(g)' = e BY <1>2, <2>1 DEF TipoFirmantes, PorCrear
  <2>3. ~Hay(e)' BY <2>1
  <2> QED BY <2>2, <2>3 DEF Hay
<1> QED BY <1>1, <1>2, UnTramite

\* The ticket and the url of the copy are saved.
LEMMA GuardarCopiaInv ==
  ASSUME TipoFirmantes, FirmaInv, NEW h \in Hilos, GuardarCopia(h)
  PROVE  TipoFirmantes' /\ FirmaInv'
<1> DEFINE t == tramite[h]
<1>0. t \in Tramite /\ EnVuelo(h) BY DEF TipoFirmantes, FirmaInv
<1>1. /\ t.en = "guardarCopia" /\ UNCHANGED copia /\ SiguienteDocumento(h)
      /\ documento' = [documento EXCEPT ![Head(t.docs)] = t.fila]
  BY DEF GuardarCopia
<1>2. PICK d \in Documentos, fila \in Firma :
        /\ d = Head(t.docs) /\ fila = t.fila /\ Hay(d) /\ FilaDe(d, fila)
        /\ MismaFirma(fila, documento[d])
  BY <1>0, <1>1 DEF EnVuelo, ConFila, Tramite
<1>3. /\ documento' \in [Documentos -> Firma \cup {SinDocumento}]
      /\ Estable /\ FilasEnRegla' /\ CopiasEnRegla'
      /\ \A e \in Documentos : Hay(e)' = Hay(e)
  BY <1>1, <1>2, FilaGuardada
<1>4. /\ \E nuevo \in Tramite : tramite' = [tramite EXCEPT ![h] = nuevo]
      /\ EnVuelo(h)' /\ ~Creadora(h)'
  BY <1>1, <1>3, SiguienteDocumentoInv
<1> QED BY <1>1, <1>3, <1>4, FilaGuardadaInv

\* What a notification writes: the signers, the ticket and the url stay, and the
\* row is signed only by the last signature or by a rejection.
LEMMA AnotadaInv ==
  ASSUME NEW clase \in Clases, NEW fila \in Firma
  PROVE  /\ Anotada(clase, fila) \in Firma
         /\ MismaFirma(Anotada(clase, fila), fila)
         /\ Anotada(clase, fila).url = fila.url /\ Anotada(clase, fila).ticket = fila.ticket
         /\ Anotada(clase, fila).isSigned => fila.isSigned \/ clase # "original"
<1>1. CASE clase = "completado" BY <1>1 DEF Anotada, Firma, MismaFirma
<1>2. CASE clase = "original" BY <1>2 DEF Anotada, Firma, MismaFirma
<1>3. CASE clase = "rechazado" BY <1>3 DEF Anotada, Firma, MismaFirma
<1> QED BY <1>1, <1>2, <1>3 DEF Clases

\* What was notified is written on the row.
LEMMA GuardarAvisoInv ==
  ASSUME TipoFirmantes, FirmaInv, NEW h \in Hilos, GuardarAviso(h)
  PROVE  TipoFirmantes' /\ FirmaInv'
<1> DEFINE t == tramite[h]
<1>0. t \in Tramite /\ EnVuelo(h) BY DEF TipoFirmantes, FirmaInv
<1>1. t.en = "guardarAviso" /\ UNCHANGED copia /\ Acabar(h) BY DEF GuardarAviso
<1>2. CASE UNCHANGED documento BY <1>1, <1>2, AcabarSolo
<1>3. CASE documento' = [documento EXCEPT ![Head(t.docs)] = Anotada(t.op, t.fila)]
  <2>1. PICK d \in Documentos, leida \in Firma, clase \in Clases :
          /\ d = Head(t.docs) /\ leida = t.fila /\ clase = t.op /\ Hay(d)
          /\ FilaDe(d, leida) /\ MismaFirma(leida, documento[d])
          /\ clase # "original" => Terminada(d, {clase})
    <3>1. /\ t.docs # <<>> /\ Hay(Head(t.docs)) /\ t.fila \in Firma /\ t.op \in Clases
          /\ FilaDe(Head(t.docs), t.fila)
          /\ MismaFirma(t.fila, documento[Head(t.docs)])
          /\ t.op # "original" => Terminada(Head(t.docs), {t.op})
      BY <1>0, <1>1 DEF EnVuelo, ConFila
    <3>2. Head(t.docs) \in Documentos BY <1>0, <3>1 DEF Tramite
    <3> QED BY <3>1, <3>2
  <2>2. PICK fila \in Firma :
          /\ fila = Anotada(clase, leida)
          /\ MismaFirma(fila, leida)
          /\ fila.url = leida.url /\ fila.ticket = leida.ticket
          /\ fila.isSigned => leida.isSigned \/ clase # "original"
    BY AnotadaInv
  <2>3. clase # "original" => Notificada(d) BY <2>1 DEF Notificada, Terminada, Clases
  <2>4. FilaDe(d, fila) BY <2>1, <2>2, <2>3 DEF FilaDe
  <2>5. documento' = [documento EXCEPT ![d] = fila] /\ MismaFirma(fila, documento[d])
    BY <1>3, <2>1, <2>2 DEF MismaFirma
  <2>6. /\ documento' \in [Documentos -> Firma \cup {SinDocumento}]
        /\ Estable /\ FilasEnRegla' /\ CopiasEnRegla'
        /\ \A e \in Documentos : Hay(e)' = Hay(e)
    BY <1>1, <2>1, <2>2, <2>4, <2>5, FilaGuardada
  <2> QED BY <1>1, <2>6, AcabarLibre, FilaGuardadaInv
<1> QED BY <1>2, <1>3 DEF GuardarAviso

\* A copy that there is keeps what it is of and its seals, and is notified or
\* forgotten.
LEMMA CopiaAvisada ==
  ASSUME TipoFirmantes, FirmaInv, NEW k \in Copias, NEW nueva \in Copia, copia[k] # SinCopia,
         nueva.de = copia[k].de, nueva.sellos = copia[k].sellos,
         copia[k].avisos \subseteq nueva.avisos,
         copia' = [copia EXCEPT ![k] = nueva], UNCHANGED documento
  PROVE  /\ copia' \in [Copias -> Copia] /\ copia'[k] = nueva
         /\ Estable /\ FilasEnRegla' /\ CopiasEnRegla'
<1>1. /\ copia' \in [Copias -> Copia]
      /\ \A l \in Copias : copia'[l] = IF l = k THEN nueva ELSE copia[l]
  BY DEF TipoFirmantes
<1>2. Estable BY <1>1 DEF Estable, MismaFirma, Hay
<1>3. FilasEnRegla'
  <2>1. ASSUME NEW e \in Documentos, Hay(e)' PROVE FilaDe(e, documento[e])'
    <3>1. PICK fila : fila = documento[e] /\ FilaDe(e, fila)
      BY <2>1 DEF FirmaInv, FilasEnRegla, Hay
    <3> QED BY <1>2, <3>1, FilaEstable DEF FilaDe, Notificada, Terminada
  <2> QED BY <2>1 DEF FilasEnRegla
<1>4. CopiasEnRegla' BY <1>1 DEF CopiasEnRegla, FirmaInv, Hay
<1> QED BY <1>1, <1>2, <1>3, <1>4

\* What was in progress is lost.
LEMMA PerderInv ==
  ASSUME TipoFirmantes, FirmaInv, copia' \in [Copias -> Copia], Estable, FilasEnRegla',
         CopiasEnRegla', Perder, UNCHANGED documento
  PROVE  TipoFirmantes' /\ FirmaInv'
<1>1. tramite' = [h \in Hilos |-> SinTramite] BY DEF Perder
<1>2. TipoFirmantes' BY <1>1, Valores DEF TipoFirmantes
<1>3. \A h \in Hilos : EnVuelo(h)' /\ ~Creadora(h)'
  BY <1>1, Valores DEF EnVuelo, Creando, Abriendo, ConFila, Creadora
<1>4. SinRepetir' BY <1>3 DEF SinRepetir
<1> QED BY <1>2, <1>3, <1>4 DEF FirmaInv

\* A notification arrives, for the document that has its ticket, or for none.
LEMMA RecibirInv ==
  ASSUME TipoFirmantes, FirmaInv, NEW h \in Hilos, NEW k \in Copias, NEW clase \in Clases,
         Recibir(h, k, clase)
  PROVE  TipoFirmantes' /\ FirmaInv'
<1> DEFINE nueva == [copia[k] EXCEPT !.avisos = @ \cup {clase}]
<1>1. /\ copia[k] # SinCopia /\ copia' = [copia EXCEPT ![k] = nueva]
      /\ UNCHANGED documento
  BY DEF Recibir, TipoFirmantes
<1>2. /\ nueva \in Copia /\ nueva.de = copia[k].de /\ nueva.sellos = copia[k].sellos
      /\ nueva.avisos = copia[k].avisos \cup {clase}
  <2>1. copia[k] \in Copia BY DEF TipoFirmantes
  <2> QED BY <2>1 DEF Copia
<1> HIDE DEF nueva
<1>3. /\ copia' \in [Copias -> Copia] /\ copia'[k] = nueva
      /\ Estable /\ FilasEnRegla' /\ CopiasEnRegla'
  BY <1>1, <1>2, CopiaAvisada
<1>4. CASE Perder BY <1>1, <1>3, <1>4, PerderInv
<1>5. ASSUME NEW d \in ConTicket(k),
             tramite' = [tramite EXCEPT ![h] =
               [SinTramite EXCEPT !.op = clase, !.en = "guardarAviso", !.docs = <<d>>,
                                  !.fila = documento[d]]]
      PROVE  TipoFirmantes' /\ FirmaInv'
  <2> DEFINE nuevo == [SinTramite EXCEPT !.op = clase, !.en = "guardarAviso", !.docs = <<d>>,
                                         !.fila = documento[d]]
  <2>1. d \in Documentos /\ Hay(d) /\ documento[d].url = k BY DEF ConTicket
  <2>2. PICK fila \in Firma : fila = documento[d] /\ FilaDe(d, fila)
    BY <2>1, FilaCompleta DEF FirmaInv, FilasEnRegla
  <2>3. copia[k].de = d BY <2>1, <2>2, FirmantesAssumption DEF FilaDe
  <2>4. /\ nuevo \in Tramite /\ nuevo.op = clase /\ nuevo.en = "guardarAviso"
        /\ nuevo.docs = <<d>> /\ nuevo.fila = fila
    <3>1. <<d>> \in Seq(Documentos) BY <2>1
    <3> QED BY <2>2, <3>1, Valores DEF Tramite, Estados
  <2>5. <<d>> # <<>> /\ Head(<<d>>) = d OBVIOUS
  <2>6. tramite' = [tramite EXCEPT ![h] = nuevo] BY <1>5
  <2> HIDE DEF nuevo
  <2>7. tramite'[h] = nuevo BY <2>6 DEF TipoFirmantes
  <2>8. TipoFirmantes' BY <1>1, <1>3, <2>4, <2>6 DEF TipoFirmantes
  <2>9. FilaDe(d, fila)'
    BY <1>3, <2>1, <2>2, FilaEstable DEF FilaDe, Notificada, Terminada
  <2>10. Terminada(d, {clase})' BY <1>2, <1>3, <2>3 DEF Terminada
  <2>11. ConFila(h)'
    <3>1. /\ tramite'[h].docs = <<d>> /\ Head(tramite'[h].docs) = d
          /\ tramite'[h].fila = fila /\ tramite'[h].op = clase
          /\ tramite'[h].en = "guardarAviso"
      BY <2>4, <2>5, <2>7
    <3>2. Hay(d)' /\ MismaFirma(fila, documento'[d])
      BY <1>1, <2>1, <2>2 DEF Hay, MismaFirma
    <3> QED BY <2>2, <2>5, <2>9, <2>10, <3>1, <3>2 DEF ConFila
  <2>12. EnVuelo(h)' /\ ~Creadora(h)'
    BY <2>4, <2>7, <2>11 DEF EnVuelo, Creando, Abriendo, Creadora
  <2>13. ASSUME NEW g \in Hilos, g # h, Creadora(g) PROVE ~Hay(PorCrear(g))'
    BY <1>1, <2>6, <2>13, CreadoraUna DEF Hay, PorCrear, TipoFirmantes
  <2> QED BY <1>1, <1>3, <2>4, <2>6, <2>8, <2>12, <2>13, UnTramite
<1> QED BY <1>4, <1>5 DEF Recibir

\* The provider forgets a copy.
LEMMA BorrarCopiaInv ==
  ASSUME TipoFirmantes, FirmaInv, NEW k \in Copias, BorrarCopia(k)
  PROVE  TipoFirmantes' /\ FirmaInv'
<1> DEFINE nueva == [copia[k] EXCEPT !.borrada = TRUE]
<1>1. /\ copia[k] # SinCopia /\ copia' = [copia EXCEPT ![k] = nueva]
      /\ UNCHANGED <<documento, tramite>>
  BY DEF BorrarCopia, TipoFirmantes
<1>2. /\ nueva \in Copia /\ nueva.de = copia[k].de /\ nueva.sellos = copia[k].sellos
      /\ nueva.avisos = copia[k].avisos
  <2>1. copia[k] \in Copia BY DEF TipoFirmantes
  <2> QED BY <2>1 DEF Copia
<1> HIDE DEF nueva
<1>3. copia' \in [Copias -> Copia] /\ Estable /\ FilasEnRegla' /\ CopiasEnRegla'
  BY <1>1, <1>2, CopiaAvisada
<1>4. TipoFirmantes' BY <1>1, <1>3 DEF TipoFirmantes
<1>5. \A g \in Hilos : EnVuelo(g)' BY <1>1, <1>3, EnVueloEstable DEF FirmaInv
<1>6. SinRepetir' BY <1>1 DEF FirmaInv, SinRepetir, Creadora, PorCrear, Hay
<1> QED BY <1>3, <1>4, <1>5, <1>6 DEF FirmaInv

\* A query fails, or the answer of the provider is lost.
LEMMA FallarTramiteInv ==
  ASSUME TipoFirmantes, FirmaInv, NEW h \in Hilos, FallarTramite(h)
  PROVE  TipoFirmantes' /\ FirmaInv'
<1>1. Acabar(h) /\ UNCHANGED documento BY DEF FallarTramite
<1>2. CASE UNCHANGED copia BY <1>1, <1>2, AcabarSolo
<1>3. ASSUME tramite[h].en = "enviar", NEW k \in Copias, NuevaCopia(h, k)
      PROVE  TipoFirmantes' /\ FirmaInv'
  <2>1. copia' \in [Copias -> Copia] /\ Estable /\ FilasEnRegla' /\ CopiasEnRegla'
    BY <1>1, <1>3, NuevaCopiaInv
  <2>2. /\ SinTramite \in Tramite /\ tramite' = [tramite EXCEPT ![h] = SinTramite]
        /\ EnVuelo(h)' /\ ~Creadora(h)'
    BY <1>1, AcabarLibre
  <2>3. TipoFirmantes' BY <1>1, <2>1, <2>2 DEF TipoFirmantes
  <2>4. ASSUME NEW g \in Hilos, g # h, Creadora(g) PROVE ~Hay(PorCrear(g))'
    BY <1>1, <2>2, <2>4, CreadoraUna DEF Hay, PorCrear, TipoFirmantes
  <2> QED BY <1>1, <2>1, <2>2, <2>3, <2>4, UnTramite
<1> QED BY <1>2, <1>3 DEF FallarTramite

\* The start.
LEMMA FirmaInicial == InitFirmantes => TipoFirmantes /\ FirmaInv
<1> SUFFICES ASSUME InitFirmantes PROVE TipoFirmantes /\ FirmaInv OBVIOUS
<1>1. /\ documento \in [Documentos -> {SinDocumento} \cup EnEspera]
      /\ copia = [k \in Copias |-> SinCopia]
      /\ tramite = [h \in Hilos |-> SinTramite]
  BY DEF InitFirmantes
<1>2. ASSUME NEW fila \in EnEspera PROVE fila \in Firma /\ fila.url = Nulo /\ ~fila.isSigned
  <2>1. PICK papel \in Papeles, s \in Servicios :
          fila = FirmaNueva(papel[1], papel[2], s, {p \in Personas : Puede(p, papel[1], s)})
    BY DEF EnEspera
  <2>2. {p \in Personas : Puede(p, papel[1], s)} \in SUBSET Personas OBVIOUS
  <2> HIDE DEF EnEspera
  <2> QED BY <2>1, <2>2, FirmaNuevaTipo
<1>3. TipoFirmantes BY <1>1, <1>2, Valores DEF TipoFirmantes
<1>4. FilasEnRegla BY <1>1, <1>2 DEF FilasEnRegla, Hay, FilaDe
<1>5. CopiasEnRegla BY <1>1 DEF CopiasEnRegla
<1>6. \A h \in Hilos : EnVuelo(h) /\ ~Creadora(h)
  BY <1>1, Valores DEF EnVuelo, Creando, Abriendo, ConFila, Creadora
<1> QED BY <1>3, <1>4, <1>5, <1>6 DEF FirmaInv, SinRepetir

\* Nothing of documents changes.
LEMMA NadaDeFirmas ==
  ASSUME TipoFirmantes, FirmaInv, UNCHANGED varsFirma
  PROVE  TipoFirmantes' /\ FirmaInv'
<1>1. UNCHANGED <<documento, copia, tramite>> BY DEF varsFirma
<1>2. TipoFirmantes' /\ Estable BY <1>1 DEF TipoFirmantes, Estable, MismaFirma, Hay
<1>3. \A g \in Hilos : EnVuelo(g)' BY <1>1, <1>2, EnVueloEstable DEF FirmaInv
<1>4. FilasEnRegla' /\ CopiasEnRegla' /\ SinRepetir'
  BY <1>1 DEF FirmaInv, FilasEnRegla, FilaDe, Notificada, Terminada, CopiasEnRegla, Hay,
              SinRepetir, Creadora, PorCrear
<1> QED BY <1>2, <1>3, <1>4 DEF FirmaInv

\* Every step keeps rows, copies, lists and requests in flight in order.
LEMMA FirmaSiguiente ==
  ASSUME TipoFirmantes, FirmaInv, [NextFirmantes]_todas
  PROVE  TipoFirmantes' /\ FirmaInv'
<1>1. ASSUME NEW h \in Hilos, LlegaTramite(h) PROVE TipoFirmantes' /\ FirmaInv'
  <2>1. PICK quien \in Personas :
          \/ \E op \in Nuevos, d \in Documentos, papel \in Papeles, s \in Servicios :
               PedirNuevo(h, op, quien, d, papel[1], papel[2], s)
          \/ \E docs \in Listas : PedirTramite(h, "abrir", quien, docs, SinDocumento)
    BY <1>1 DEF LlegaTramite, Nuevos
  <2> QED BY <2>1, PedirNuevoInv, PedirAbrirInv
<1>2. ASSUME NEW h \in Hilos, AtenderTramite(h) PROVE TipoFirmantes' /\ FirmaInv'
  BY <1>2, AutorizarInv, GuardarDocumentoInv, LeerDocumentoInv, EnviarInv,
     GuardarCopiaInv, GuardarAvisoInv DEF AtenderTramite
<1>3. ASSUME CaerServidor PROVE TipoFirmantes' /\ FirmaInv'
  <2>1. Perder /\ UNCHANGED <<documento, copia>> BY <1>3 DEF CaerServidor
  <2>2. copia' \in [Copias -> Copia] /\ Estable /\ FilasEnRegla' /\ CopiasEnRegla'
    BY <2>1 DEF TipoFirmantes, Estable, MismaFirma, FirmaInv, FilasEnRegla, FilaDe, Notificada,
                Terminada, CopiasEnRegla, Hay
  <2> QED BY <2>1, <2>2, PerderInv
<1>4. ASSUME UNCHANGED todas PROVE UNCHANGED varsFirma BY <1>4 DEF todas
<1>5. ASSUME NEW p \in Personas,
             Caducar(p) \/ (\E c \in Claves : Entrar(p, c)),
             UNCHANGED <<varsFirma, incidentes>>
      PROVE  TipoFirmantes' /\ FirmaInv'
  BY <1>5, NadaDeFirmas
<1>6. ASSUME NEW h \in Hilos, NEW k \in Copias, NEW clase \in Clases, Recibir(h, k, clase)
      PROVE  TipoFirmantes' /\ FirmaInv'
  BY <1>6, RecibirInv
<1>7. ASSUME NEW h \in Hilos, FallarTramite(h) PROVE TipoFirmantes' /\ FirmaInv'
  BY <1>7, FallarTramiteInv
<1>8. ASSUME NEW k \in Copias, BorrarCopia(k) PROVE TipoFirmantes' /\ FirmaInv'
  BY <1>8, BorrarCopiaInv
<1>9. CASE NextFirmantes
  BY <1>9, <1>1, <1>2, <1>3, <1>5, <1>6, <1>7, <1>8, NadaDeFirmas DEF NextFirmantes
<1> QED BY <1>4, <1>9, NadaDeFirmas

\* Rows, copies, lists and requests in flight are always in order.
LEMMA FirmaSiempre == SpecFirmantes => [](TipoFirmantes /\ FirmaInv)
<1>1. TipoFirmantes /\ FirmaInv /\ [NextFirmantes]_todas => TipoFirmantes' /\ FirmaInv'
  BY FirmaSiguiente
<1> QED BY <1>1, FirmaInicial, PTL DEF SpecFirmantes

----
(* One request at a time. *)

\* Only the request that is being served moves.
LEMMA Turno ==
  ASSUME SinIncidentes, NEW h \in Hilos, Quieto \/ ~Libre(h),
         \A g \in Hilos : g # h => tramite'[g] = tramite[g] /\ peticion'[g] = peticion[g]
  PROVE  /\ UnoSolo'
         /\ \A g \in Hilos : g # h =>
              tramite[g].en = "libre" /\ tramite'[g].en = "libre" /\ AlDia(g)'
<1>1. \A g \in Hilos : g # h => Libre(g) BY DEF SinIncidentes, UnoSolo, Quieto
<1>2. \A g \in Hilos : g # h => Libre(g)' BY <1>1 DEF Libre
<1> QED BY <1>1, <1>2 DEF UnoSolo, Libre, AlDia

\* Nobody waits for a copy or writes a notification when who is served does not.
LEMMA NadieEspera ==
  ASSUME NEW h \in Hilos, \A g \in Hilos : g # h => tramite[g].en = "libre", NEW k \in Copias
  PROVE  /\ Esperada(k) => /\ tramite[h].en = "guardarCopia"
                           /\ Head(tramite[h].docs) = copia[k].de
                           /\ tramite[h].fila.url = k
         /\ Anotandose(k) => /\ tramite[h].en = "guardarAviso" /\ tramite[h].op = "completado"
                             /\ Head(tramite[h].docs) = copia[k].de
BY DEF Esperada, Anotandose

\* A step that writes no document and makes no copy.
LEMMA SinEscribir ==
  ASSUME SinIncidentes, NEW h \in Hilos, Quieto \/ ~Libre(h),
         \A g \in Hilos : g # h => tramite'[g] = tramite[g] /\ peticion'[g] = peticion[g],
         tramite[h].en \notin {"guardarCopia", "guardarAviso"},
         UNCHANGED <<documento, copia>>, AlDia(h)'
  PROVE  SinIncidentes'
<1>1. /\ UnoSolo'
      /\ \A g \in Hilos : g # h => tramite[g].en = "libre" /\ AlDia(g)'
  BY Turno
<1>2. \A k \in Copias : ~Esperada(k) /\ ~Anotandose(k) BY <1>1, NadieEspera
<1>3. \A k \in Copias : Guardada(k)' /\ Reflejada(k)'
  BY <1>2 DEF SinIncidentes, Guardada, Reflejada
<1> QED BY <1>1, <1>3 DEF SinIncidentes

\* The requests about users.
LEMMA PeticionSerial ==
  ASSUME UsuariosInv, SinIncidentes, NEW h \in Hilos,
         (Quieto /\ PedirUsuario(h)) \/ AtenderUsuario(h), UNCHANGED varsFirma
  PROVE  SinIncidentes'
<1>1. UNCHANGED <<documento, copia, tramite>> BY DEF varsFirma
<1>2. \A g \in Hilos : g # h => peticion'[g] = peticion[g]
  BY DEF UsuariosInv, PedirUsuario, Pedir, AtenderUsuario, Autorizar, Leer, GuardarNuevo,
         Guardar, Terminar
<1>3. Quieto \/ ~Libre(h)
  BY DEF AtenderUsuario, Autorizar, Leer, GuardarNuevo, Guardar, Libre
<1>4. UnoSolo' BY <1>1, <1>2, <1>3, Turno
<1>5. \A g \in Hilos : AlDia(g)' BY <1>1 DEF SinIncidentes, AlDia
<1>6. \A k \in Copias : Guardada(k)' /\ Reflejada(k)'
  BY <1>1 DEF SinIncidentes, Guardada, Reflejada, Esperada, Anotandose
<1> QED BY <1>4, <1>5, <1>6 DEF SinIncidentes

\* The requests about documents that arrive, and those that write nothing.
LEMMA TramiteSerial ==
  ASSUME TipoFirmantes, FirmaInv, SinIncidentes, NEW h \in Hilos,
         \/ Quieto /\ LlegaTramite(h)
         \/ AutorizarTramite(h) \/ LeerFirmantes(h) \/ LeerDocumento(h)
  PROVE  SinIncidentes'
<1> DEFINE t == tramite[h]
<1>0. tramite[h] \in Tramite /\ EnVuelo(h) BY DEF TipoFirmantes, FirmaInv
<1>1. UNCHANGED <<documento, copia, peticion>>
  BY DEF LlegaTramite, PedirNuevo, PedirTramite, AutorizarTramite, LeerFirmantes, LeerDocumento,
         varsUsuarios
<1>2. (Quieto \/ ~Libre(h)) /\ t.en \notin {"guardarCopia", "guardarAviso"}
  BY DEF LlegaTramite, PedirNuevo, PedirTramite, AutorizarTramite, LeerFirmantes, LeerDocumento,
         Libre, Quieto
<1> DEFINE Movido ==
             \E nuevo :
               /\ tramite' = [tramite EXCEPT ![h] = nuevo]
               /\ \/ nuevo.en \notin {"enviar", "guardarCopia", "guardarAviso"}
                  \/ /\ nuevo.en = "enviar" /\ nuevo.docs = t.docs
                     /\ documento[Head(t.docs)].url = Nulo
<1>3. Movido
  <2>a. ASSUME Acabar(h) PROVE Movido BY <2>a, Valores DEF Acabar
  <2>1. ASSUME LlegaTramite(h) PROVE Movido
    <3>1. ASSUME NEW op, NEW quien, NEW docs, NEW fila, PedirTramite(h, op, quien, docs, fila)
          PROVE  Movido
      <4>1. tramite' = [tramite EXCEPT ![h] =
              [SinTramite EXCEPT !.op = op, !.en = "autorizar", !.quien = quien, !.docs = docs,
                                 !.fila = fila]]
        BY <3>1 DEF PedirTramite
      <4>2. [SinTramite EXCEPT !.op = op, !.en = "autorizar", !.quien = quien, !.docs = docs,
                               !.fila = fila].en = "autorizar"
        BY DEF SinTramite
      <4> QED BY <4>1, <4>2
    <3> QED BY <2>1, <3>1 DEF LlegaTramite, PedirNuevo
  <2>2. ASSUME AutorizarTramite(h) PROVE Movido
    <3>1. CASE ~Acabar(h)
      <4> DEFINE en == IF t.op = "abrir" THEN "abrir" ELSE "firmantes"
                 nuevo == [t EXCEPT !.en = en]
      <4>1. t.en = "autorizar" /\ tramite' = [tramite EXCEPT ![h] = nuevo]
        BY <2>2, <3>1 DEF AutorizarTramite, Pasar
      <4>2. en \in {"firmantes", "abrir"} OBVIOUS
      <4> HIDE DEF en
      <4>3. nuevo.en = en BY <1>0 DEF Tramite
      <4> HIDE DEF nuevo
      <4> QED BY <4>1, <4>2, <4>3
    <3> QED BY <2>a, <3>1
  <2>3. ASSUME LeerFirmantes(h) PROVE Movido
    <3>1. CASE ~Acabar(h)
      <4> DEFINE nuevo ==
            [t EXCEPT !.en = "guardarNuevo", !.fila.usuariosFirmadores =
                        {p \in Personas : Puede(p, t.fila.tipo, t.fila.servicio)}]
      <4>1. tramite' = [tramite EXCEPT ![h] = nuevo] BY <2>3, <3>1 DEF LeerFirmantes
      <4>2. nuevo.en = "guardarNuevo" BY <1>0 DEF Tramite
      <4> HIDE DEF nuevo
      <4> QED BY <4>1, <4>2
    <3> QED BY <2>a, <3>1
  <2>4. ASSUME LeerDocumento(h) PROVE Movido
    <3> DEFINE d == Head(t.docs)
    <3>1. CASE SiguienteDocumento(h) /\ ~Acabar(h)
      <4> DEFINE nuevo == [t EXCEPT !.en = "abrir", !.docs = Tail(@), !.fila = SinDocumento,
                                    !.sellos = {}]
      <4>1. tramite' = [tramite EXCEPT ![h] = nuevo] BY <3>1 DEF SiguienteDocumento
      <4>2. nuevo.en = "abrir" BY <1>0 DEF Tramite
      <4> HIDE DEF nuevo
      <4> QED BY <4>1, <4>2
    <3>2. ASSUME ~YaEnviado(documento[d]), NEW s,
                 tramite' = [tramite EXCEPT ![h].en = "enviar", ![h].fila = documento[d],
                                            ![h].sellos = s]
          PROVE  Movido
      <4> DEFINE nuevo == [t EXCEPT !.en = "enviar", !.fila = documento[d], !.sellos = s]
      <4>1. tramite' = [tramite EXCEPT ![h] = nuevo] BY <1>0, <3>2 DEF TipoFirmantes
      <4>2. nuevo.en = "enviar" /\ nuevo.docs = t.docs BY <1>0 DEF Tramite
      <4> HIDE DEF nuevo
      <4> QED BY <3>2, <4>1, <4>2 DEF YaEnviado
    <3> QED BY <2>4, <2>a, <3>1, <3>2 DEF LeerDocumento
  <2> QED BY <2>a, <2>1, <2>2, <2>3, <2>4
<1>4. /\ \A g \in Hilos : g # h => tramite'[g] = tramite[g] /\ peticion'[g] = peticion[g]
      /\ AlDia(h)'
  <2>1. PICK nuevo :
          /\ tramite' = [tramite EXCEPT ![h] = nuevo]
          /\ \/ nuevo.en \notin {"enviar", "guardarCopia", "guardarAviso"}
             \/ /\ nuevo.en = "enviar" /\ nuevo.docs = t.docs
                /\ documento[Head(t.docs)].url = Nulo
    BY <1>3
  <2>2. tramite'[h] = nuevo /\ \A g \in Hilos : g # h => tramite'[g] = tramite[g]
    BY <2>1 DEF TipoFirmantes
  <2> QED BY <1>1, <2>1, <2>2 DEF AlDia
<1> QED BY <1>1, <1>2, <1>4, SinEscribir

\* A new document has no copies yet.
LEMMA GuardarDocumentoSerial ==
  ASSUME TipoFirmantes, FirmaInv, SinIncidentes, NEW h \in Hilos, GuardarDocumento(h)
  PROVE  SinIncidentes'
<1> DEFINE t == tramite[h]
<1>1. /\ t.en = "guardarNuevo" /\ t.op \in Nuevos /\ UNCHANGED <<copia, peticion>>
      /\ documento' = [documento EXCEPT ![t.docs[1]] = t.fila]
  BY DEF GuardarDocumento, varsUsuarios, FirmaInv, EnVuelo, Creando
<1>2. PICK d \in Documentos : d = t.docs[1] /\ ~Hay(d) BY <1>1, CreadoraUna DEF Creadora
<1>3. /\ \A g \in Hilos : g # h => tramite'[g] = tramite[g] /\ peticion'[g] = peticion[g]
      /\ tramite'[h].en \in {"libre", "abrir"}
  BY <1>1, TrasGuardar DEF TipoFirmantes
<1>4. /\ UnoSolo'
      /\ \A g \in Hilos : g # h => tramite[g].en = "libre" /\ AlDia(g)'
  BY <1>1, <1>3, Turno DEF Libre
<1>5. AlDia(h)' BY <1>3 DEF AlDia
<1>6. ASSUME NEW k \in Copias PROVE Guardada(k)' /\ Reflejada(k)'
  <2>1. ~Esperada(k) /\ ~Anotandose(k) BY <1>1, <1>4, NadieEspera
  <2>2. CASE copia[k] = SinCopia BY <1>1, <2>2 DEF Guardada, Reflejada, SinCopia
  <2>3. CASE copia[k] # SinCopia
    <3>1. PICK e \in Documentos : e = copia[k].de /\ Hay(e)
      BY <2>3 DEF FirmaInv, CopiasEnRegla
    <3>2. documento'[e] = documento[e] BY <1>1, <1>2, <3>1 DEF TipoFirmantes
    <3>3. /\ documento[e].url = k
          /\ "completado" \in copia[k].avisos =>
               documento[e].isSigned /\ documento[e].signatureStatus = "APROBADA"
      BY <2>1, <2>3, <3>1 DEF SinIncidentes, Guardada, Reflejada
    <3> QED BY <1>1, <3>1, <3>2, <3>3 DEF Guardada, Reflejada
  <2> QED BY <2>2, <2>3
<1> QED BY <1>4, <1>5, <1>6 DEF SinIncidentes

\* A copy is made of a document that has none, and its url is about to be saved.
LEMMA EnviarSerial ==
  ASSUME TipoFirmantes, FirmaInv, SinIncidentes, NEW h \in Hilos, NEW k \in Copias, Enviar(h, k)
  PROVE  SinIncidentes'
<1> DEFINE t == tramite[h]
           nuevo == [t EXCEPT !.en = "guardarCopia", !.fila.ticket = k, !.fila.url = k]
<1>0. t \in Tramite /\ EnVuelo(h) BY DEF TipoFirmantes, FirmaInv
<1>1. /\ t.en = "enviar" /\ NuevaCopia(h, k) /\ UNCHANGED <<documento, peticion>>
      /\ tramite' = [tramite EXCEPT ![h] = nuevo]
  BY <1>0 DEF Enviar, varsUsuarios, TipoFirmantes
<1>2. PICK d \in Documentos : d = Head(t.docs) /\ documento[d].url = Nulo /\ t.fila \in Firma
  BY <1>0, <1>1 DEF EnVuelo, ConFila, Tramite, SinIncidentes, AlDia
<1>3. nuevo.en = "guardarCopia" /\ nuevo.docs = t.docs /\ nuevo.fila.url = k
  BY <1>0, <1>2 DEF Tramite, Firma
<1> HIDE DEF nuevo
<1>4. /\ \A g \in Hilos : g # h => tramite'[g] = tramite[g] /\ peticion'[g] = peticion[g]
      /\ tramite'[h] = nuevo
  BY <1>1 DEF TipoFirmantes
<1>5. /\ UnoSolo'
      /\ \A g \in Hilos : g # h => tramite[g].en = "libre" /\ AlDia(g)'
  BY <1>1, <1>4, Turno DEF Libre
<1>6. /\ copia'[k].de = d /\ copia'[k].avisos = {}
      /\ \A l \in Copias : l # k => copia'[l] = copia[l]
  BY <1>1, <1>2, NuevaCopiaInv
<1>7. AlDia(h)' BY <1>1, <1>2, <1>3, <1>4, <1>6, FirmantesAssumption DEF AlDia
<1>8. Guardada(k)' /\ Reflejada(k)'
  <2>1. Esperada(k)' BY <1>2, <1>3, <1>4, <1>6 DEF Esperada
  <2> QED BY <1>6, <2>1 DEF Guardada, Reflejada
<1>9. ASSUME NEW l \in Copias, l # k PROVE Guardada(l)' /\ Reflejada(l)'
  <2>1. ~Esperada(l) /\ ~Anotandose(l) BY <1>1, <1>5, NadieEspera
  <2> QED BY <1>1, <1>6, <1>9, <2>1 DEF SinIncidentes, Guardada, Reflejada
<1> QED BY <1>5, <1>7, <1>8, <1>9 DEF SinIncidentes

\* The copy that was just made is the one that the row names from now on.
LEMMA GuardarCopiaSerial ==
  ASSUME TipoFirmantes, FirmaInv, SinIncidentes, NEW h \in Hilos, GuardarCopia(h)
  PROVE  SinIncidentes'
<1> DEFINE t == tramite[h]
<1>0. t \in Tramite /\ EnVuelo(h) BY DEF TipoFirmantes, FirmaInv
<1>1. /\ t.en = "guardarCopia" /\ UNCHANGED <<copia, peticion>> /\ SiguienteDocumento(h)
      /\ documento' = [documento EXCEPT ![Head(t.docs)] = t.fila]
  BY DEF GuardarCopia, varsUsuarios
<1>2. PICK d \in Documentos, fila \in Firma :
        /\ d = Head(t.docs) /\ fila = t.fila /\ Hay(d) /\ FilaDe(d, fila)
        /\ MismaFirma(fila, documento[d])
        /\ documento[d].url = Nulo /\ fila.url # Nulo /\ copia[fila.url].avisos = {}
  <2>1. /\ t.docs # <<>> /\ t.fila \in Firma /\ Hay(Head(t.docs)) /\ FilaDe(Head(t.docs), t.fila)
        /\ MismaFirma(t.fila, documento[Head(t.docs)])
    BY <1>0, <1>1 DEF EnVuelo, ConFila
  <2>2. /\ documento[Head(t.docs)].url = Nulo /\ t.fila.url # Nulo
        /\ copia[t.fila.url].avisos = {}
    BY <1>1 DEF SinIncidentes, AlDia
  <2>3. Head(t.docs) \in Documentos BY <1>0, <2>1 DEF Tramite
  <2> QED BY <2>1, <2>2, <2>3
<1>3. \A e \in Documentos : documento'[e] = IF e = d THEN fila ELSE documento[e]
  BY <1>1, <1>2 DEF TipoFirmantes
<1>4. Estable BY <1>1, <1>2, FilaGuardada
<1>5. PICK nuevo \in Tramite :
        /\ tramite' = [tramite EXCEPT ![h] = nuevo] /\ tramite'[h] = nuevo
        /\ nuevo.en \in {"libre", "abrir"}
  BY <1>1, <1>4, SiguienteDocumentoInv
<1>6. \A g \in Hilos : g # h => tramite'[g] = tramite[g] /\ peticion'[g] = peticion[g]
  BY <1>1, <1>5 DEF TipoFirmantes
<1>7. /\ UnoSolo'
      /\ \A g \in Hilos : g # h => tramite[g].en = "libre" /\ AlDia(g)'
  BY <1>1, <1>6, Turno DEF Libre
<1>8. AlDia(h)' BY <1>5 DEF AlDia
<1>9. ASSUME NEW k \in Copias PROVE Guardada(k)' /\ Reflejada(k)'
  <2>1. (Esperada(k) => copia[k].de = d /\ fila.url = k) /\ ~Anotandose(k)
    BY <1>1, <1>2, <1>7, NadieEspera
  <2>2. CASE copia[k] = SinCopia BY <1>1, <2>2 DEF Guardada, Reflejada, SinCopia
  <2>3. CASE copia[k] # SinCopia
    <3>1. PICK e \in Documentos : e = copia[k].de BY <2>3 DEF FirmaInv, CopiasEnRegla
    <3>2. documento[e].url = k \/ (e = d /\ fila.url = k)
      BY <2>1, <2>3, <3>1 DEF SinIncidentes, Guardada
    <3>3. e = d => fila.url = k BY <1>2, <3>2, FirmantesAssumption
    <3>4. documento'[e].url = k BY <1>3, <3>2, <3>3
    <3>5. "completado" \in copia[k].avisos =>
            documento'[e].isSigned /\ documento'[e].signatureStatus = "APROBADA"
      BY <1>2, <1>3, <2>1, <3>1, <3>3 DEF SinIncidentes, Reflejada
    <3> QED BY <1>1, <3>1, <3>4, <3>5 DEF Guardada, Reflejada
  <2> QED BY <2>2, <2>3
<1> QED BY <1>7, <1>8, <1>9 DEF SinIncidentes

\* A notification that comes in its order, while nothing is in flight.
LEMMA RecibirSerial ==
  ASSUME TipoFirmantes, FirmaInv, SinIncidentes, NEW h \in Hilos, NEW k \in Copias,
         NEW clase \in Clases, Recibir(h, k, clase), Quieto, EnOrden(k, clase)
  PROVE  SinIncidentes'
<1> DEFINE nueva == [copia[k] EXCEPT !.avisos = @ \cup {clase}]
<1>1. /\ copia[k] # SinCopia /\ copia' = [copia EXCEPT ![k] = nueva]
      /\ UNCHANGED documento
  BY DEF Recibir, TipoFirmantes
<1>2. nueva.de = copia[k].de /\ nueva.avisos = copia[k].avisos \cup {clase}
  <2>1. copia[k] \in Copia BY DEF TipoFirmantes
  <2> QED BY <2>1 DEF Copia
<1> HIDE DEF nueva
<1>3. \A l \in Copias : copia'[l] = IF l = k THEN nueva ELSE copia[l]
  BY <1>1 DEF TipoFirmantes
<1>4. \A l \in Copias : ~Esperada(l) /\ ~Anotandose(l)
  BY DEF Quieto, Libre, Esperada, Anotandose
<1>5. PICK e \in Documentos : e = copia[k].de /\ Hay(e) /\ documento[e].url = k
  BY <1>1, <1>4 DEF FirmaInv, CopiasEnRegla, SinIncidentes, Guardada
<1>6. PICK d \in ConTicket(k) :
        /\ tramite' = [tramite EXCEPT ![h] =
             [SinTramite EXCEPT !.op = clase, !.en = "guardarAviso", !.docs = <<d>>,
                                !.fila = documento[d]]]
        /\ UNCHANGED peticion
  <2>1. e \in ConTicket(k) BY <1>5 DEF ConTicket
  <2> QED BY <2>1 DEF Recibir
<1>7. d = e
  <2>1. d \in Documentos /\ Hay(d) /\ documento[d].url = k BY DEF ConTicket
  <2> QED BY <1>5, <2>1, FirmantesAssumption DEF FirmaInv, FilasEnRegla, FilaDe
<1> DEFINE nuevo == [SinTramite EXCEPT !.op = clase, !.en = "guardarAviso", !.docs = <<d>>,
                                       !.fila = documento[d]]
<1>8. /\ nuevo.en = "guardarAviso" /\ nuevo.op = clase /\ Head(nuevo.docs) = d
      /\ nuevo.fila = documento[d]
  BY DEF SinTramite
<1>9. tramite' = [tramite EXCEPT ![h] = nuevo] BY <1>6
<1> HIDE DEF nuevo
<1>10. /\ \A g \in Hilos : g # h => tramite'[g] = tramite[g] /\ peticion'[g] = peticion[g]
       /\ tramite'[h] = nuevo
  BY <1>6, <1>9 DEF TipoFirmantes
<1>11. /\ UnoSolo'
       /\ \A g \in Hilos : g # h => tramite[g].en = "libre" /\ AlDia(g)'
  BY <1>10, Turno
<1>12. "completado" \notin copia[k].avisos BY DEF EnOrden
<1>13. AlDia(h)' BY <1>1, <1>2, <1>3, <1>5, <1>7, <1>8, <1>10, <1>12 DEF AlDia
<1>14. ASSUME NEW l \in Copias PROVE Guardada(l)' /\ Reflejada(l)'
  <2>1. CASE l = k
    <3>1. Guardada(k)' BY <1>1, <1>2, <1>3, <1>5 DEF Guardada
    <3>2. clase = "completado" => Anotandose(k)'
      BY <1>2, <1>3, <1>5, <1>7, <1>8, <1>10 DEF Anotandose
    <3>3. Reflejada(k)' BY <1>2, <1>3, <1>12, <3>2 DEF Reflejada
    <3> QED BY <2>1, <3>1, <3>3
  <2>2. CASE l # k BY <1>1, <1>3, <1>4, <2>2 DEF SinIncidentes, Guardada, Reflejada
  <2> QED BY <2>1, <2>2
<1> QED BY <1>11, <1>13, <1>14 DEF SinIncidentes

\* A notification is written on the document that it is about.
LEMMA GuardarAvisoSerial ==
  ASSUME TipoFirmantes, FirmaInv, SinIncidentes, NEW h \in Hilos, GuardarAviso(h)
  PROVE  SinIncidentes'
<1> DEFINE t == tramite[h]
<1>0. t \in Tramite /\ EnVuelo(h) BY DEF TipoFirmantes, FirmaInv
<1>1. t.en = "guardarAviso" /\ UNCHANGED <<copia, peticion>> /\ Acabar(h)
  BY DEF GuardarAviso, varsUsuarios
<1>2. PICK d \in Documentos, leida \in Firma, clase \in Clases :
        /\ d = Head(t.docs) /\ leida = t.fila /\ clase = t.op /\ leida = documento[d]
        /\ clase # "completado" => "completado" \notin copia[documento[d].url].avisos
  BY <1>0, <1>1 DEF EnVuelo, ConFila, Tramite, SinIncidentes, AlDia
<1>3. /\ \A e \in Documentos : e # d => documento'[e] = documento[e]
      /\ documento'[d].url = documento[d].url
      /\ clase = "completado" =>
           documento'[d].isSigned /\ documento'[d].signatureStatus = "APROBADA"
  <2>1. CASE clase = "original" /\ leida.tipo # "APROBACION_DE_FACTURA"
    BY <1>2, <2>1 DEF GuardarAviso
  <2>2. CASE ~(clase = "original" /\ leida.tipo # "APROBACION_DE_FACTURA")
    <3>1. documento' = [documento EXCEPT ![d] = Anotada(clase, leida)]
      BY <1>2, <2>2 DEF GuardarAviso
    <3>2. /\ Anotada(clase, leida).url = leida.url
          /\ clase = "completado" => /\ Anotada(clase, leida).isSigned
                                     /\ Anotada(clase, leida).signatureStatus = "APROBADA"
      BY AnotadaInv DEF Anotada, Firma
    <3> QED BY <1>2, <3>1, <3>2 DEF TipoFirmantes
  <2> QED BY <2>1, <2>2
<1>4. /\ \A g \in Hilos : g # h => tramite'[g] = tramite[g] /\ peticion'[g] = peticion[g]
      /\ tramite'[h].en = "libre"
  BY <1>1, AcabarLibre, Valores DEF TipoFirmantes, Acabar
<1>5. /\ UnoSolo'
      /\ \A g \in Hilos : g # h => tramite[g].en = "libre" /\ AlDia(g)'
  BY <1>1, <1>4, Turno DEF Libre
<1>6. AlDia(h)' BY <1>4 DEF AlDia
<1>7. ASSUME NEW k \in Copias PROVE Guardada(k)' /\ Reflejada(k)'
  <2>1. ~Esperada(k) /\ (Anotandose(k) => clase = "completado" /\ copia[k].de = d)
    BY <1>1, <1>2, <1>5, NadieEspera
  <2>2. CASE copia[k] = SinCopia BY <1>1, <2>2 DEF Guardada, Reflejada, SinCopia
  <2>3. CASE copia[k] # SinCopia
    <3>1. PICK e \in Documentos : e = copia[k].de BY <2>3 DEF FirmaInv, CopiasEnRegla
    <3>2. documento[e].url = k /\ documento'[e].url = k
      BY <1>3, <2>1, <2>3, <3>1 DEF SinIncidentes, Guardada
    <3>3. "completado" \in copia[k].avisos =>
            documento'[e].isSigned /\ documento'[e].signatureStatus = "APROBADA"
      BY <1>2, <1>3, <2>1, <3>1, <3>2 DEF SinIncidentes, Reflejada
    <3> QED BY <1>1, <3>1, <3>2, <3>3 DEF Guardada, Reflejada
  <2> QED BY <2>2, <2>3
<1> QED BY <1>5, <1>6, <1>7 DEF SinIncidentes

\* The provider forgets a copy; the document does not.
LEMMA BorrarCopiaSerial ==
  ASSUME TipoFirmantes, SinIncidentes, NEW k \in Copias, BorrarCopia(k), Quieto
  PROVE  SinIncidentes'
<1> DEFINE nueva == [copia[k] EXCEPT !.borrada = TRUE]
<1>1. /\ copia[k] # SinCopia /\ copia' = [copia EXCEPT ![k] = nueva]
      /\ UNCHANGED <<documento, tramite, peticion>>
  BY DEF BorrarCopia, TipoFirmantes, varsUsuarios
<1>2. nueva.de = copia[k].de /\ nueva.avisos = copia[k].avisos
  <2>1. copia[k] \in Copia BY DEF TipoFirmantes
  <2> QED BY <2>1 DEF Copia
<1> HIDE DEF nueva
<1>3. \A l \in Copias : copia'[l].de = copia[l].de /\ copia'[l].avisos = copia[l].avisos
  BY <1>1, <1>2 DEF TipoFirmantes
<1>4. \A l \in Copias : l # k => copia'[l] = copia[l] BY <1>1 DEF TipoFirmantes
<1>5. UnoSolo' BY <1>1 DEF SinIncidentes, UnoSolo, Libre
<1>6. \A h \in Hilos : AlDia(h)' BY <1>1 DEF Quieto, Libre, AlDia
<1>7. ASSUME NEW l \in Copias PROVE Guardada(l)' /\ Reflejada(l)'
  <2>1. Esperada(l)' = Esperada(l) /\ Anotandose(l)' = Anotandose(l)
    BY <1>1, <1>3 DEF Esperada, Anotandose
  <2>2. copia'[l] # SinCopia => copia[l] # SinCopia BY <1>1, <1>4
  <2> QED BY <1>1, <1>3, <2>1, <2>2 DEF SinIncidentes, Guardada, Reflejada
<1> QED BY <1>5, <1>6, <1>7 DEF SinIncidentes

\* Undisturbed, one request or notification is served at a time, and tables and
\* provider agree.
LEMMA SerialSiempre == SpecFirmantes => []SerialInv
<1>1. InitFirmantes => SerialInv
  <2> SUFFICES ASSUME InitFirmantes PROVE SerialInv OBVIOUS
  <2>1. /\ incidentes = 0 /\ copia = [k \in Copias |-> SinCopia]
        /\ tramite = [h \in Hilos |-> SinTramite] /\ peticion = [h \in Hilos |-> SinPeticion]
    BY DEF InitFirmantes, InitUsuarios
  <2>2. \A h \in Hilos : Libre(h) /\ AlDia(h)
    BY <2>1 DEF Libre, AlDia, SinTramite, SinPeticion
  <2>3. \A k \in Copias : Guardada(k) /\ Reflejada(k)
    BY <2>1 DEF Guardada, Reflejada, SinCopia
  <2> QED BY <2>1, <2>2, <2>3 DEF SerialInv, SinIncidentes, UnoSolo
<1>2. UsuariosInv /\ TipoFirmantes /\ FirmaInv /\ SerialInv /\ [NextFirmantes]_todas => SerialInv'
  <2> SUFFICES ASSUME UsuariosInv, TipoFirmantes, FirmaInv, SerialInv, [NextFirmantes]_todas
               PROVE  SerialInv'
    OBVIOUS
  <2>0. incidentes \in Nat /\ (incidentes = 0 => SinIncidentes) BY DEF SerialInv
  <2>a. ASSUME Incidente PROVE SerialInv' BY <2>0, <2>a DEF Incidente, SerialInv
  <2>b. ASSUME Llegar, Quieto /\ SinIncidentes => SinIncidentes' PROVE SerialInv'
    <3>1. CASE Quieto BY <2>0, <2>b, <3>1 DEF Llegar, SerialInv
    <3>2. CASE ~Quieto BY <2>0, <2>b, <3>2 DEF Llegar, SerialInv
    <3> QED BY <3>1, <3>2
  <2>c. ASSUME UNCHANGED incidentes, SinIncidentes => SinIncidentes' PROVE SerialInv'
    BY <2>0, <2>c DEF SerialInv
  <2>1. ASSUME NEW h \in Hilos, PedirUsuario(h), Llegar, UNCHANGED varsFirma PROVE SerialInv'
    BY <2>1, <2>b, PeticionSerial
  <2>2. ASSUME NEW h \in Hilos, LlegaTramite(h), Llegar PROVE SerialInv'
    BY <2>2, <2>b, TramiteSerial
  <2>3. ASSUME NEW h \in Hilos, NEW k \in Copias, NEW clase \in Clases, Recibir(h, k, clase)
        PROVE  SerialInv'
    <3>1. CASE EnOrden(k, clase)
      <4>1. Llegar BY <2>3, <3>1 DEF Recibir
      <4>2. Quieto /\ SinIncidentes => SinIncidentes' BY <2>3, <3>1, RecibirSerial
      <4> QED BY <4>1, <4>2, <2>b
    <3>2. CASE ~EnOrden(k, clase)
      <4>1. Incidente BY <2>3, <3>2 DEF Recibir
      <4> QED BY <4>1, <2>a
    <3> QED BY <3>1, <3>2
  <2>4. ASSUME NEW h \in Hilos, AtenderUsuario(h), UNCHANGED <<varsFirma, llegadas, incidentes>>
        PROVE  SerialInv'
    BY <2>4, <2>c, PeticionSerial
  <2>5. ASSUME NEW h \in Hilos, AtenderTramite(h), UNCHANGED incidentes PROVE SerialInv'
    <3>1. CASE AutorizarTramite(h) \/ LeerFirmantes(h) \/ LeerDocumento(h)
      BY <2>5, <2>c, <3>1, TramiteSerial
    <3>2. CASE \/ GuardarDocumento(h) \/ (\E k \in Copias : Enviar(h, k)) \/ GuardarCopia(h)
               \/ GuardarAviso(h)
      BY <2>5, <2>c, <3>2, GuardarDocumentoSerial, EnviarSerial, GuardarCopiaSerial,
         GuardarAvisoSerial
    <3> QED BY <2>5, <3>1, <3>2 DEF AtenderTramite
  <2>6. ASSUME NEW p \in Personas, Caducar(p) \/ (\E c \in Claves : Entrar(p, c)),
               UNCHANGED <<varsFirma, incidentes>>
        PROVE  SerialInv'
    <3>1. UNCHANGED <<documento, copia, tramite, peticion, incidentes>>
      BY <2>6 DEF Caducar, Entrar, varsFirma
    <3> QED BY <2>c, <3>1
            DEF SinIncidentes, UnoSolo, Libre, AlDia, Guardada, Reflejada, Esperada, Anotandose
  <2>7. ASSUME NEW k \in Copias, BorrarCopia(k), Llegar PROVE SerialInv'
    BY <2>7, <2>b, BorrarCopiaSerial
  <2>8. CASE UNCHANGED todas
    <3>1. UNCHANGED <<documento, copia, tramite, peticion, incidentes>>
      BY <2>8 DEF todas, varsFirma, varsUsuarios
    <3> QED BY <2>c, <3>1
            DEF SinIncidentes, UnoSolo, Libre, AlDia, Guardada, Reflejada, Esperada, Anotandose
  <2>9. CASE NextFirmantes
    BY <2>9, <2>a, <2>1, <2>2, <2>3, <2>4, <2>5, <2>6, <2>7 DEF NextFirmantes
  <2> QED BY <2>8, <2>9
<1>3. SpecFirmantes => []UsuariosInv
  BY UsuariosInicial, UsuariosSiguiente, PTL DEF SpecFirmantes
<1> QED BY <1>1, <1>2, <1>3, FirmaSiempre, PTL DEF SpecFirmantes

\* For any users and requests about them, any number of requests and
\* notifications in flight, and whatever fails: a copy of an invoice bears the
\* seal of one of its signers, and one to cancel it no other, whoever opened or
\* checked it (createStickers); undisturbed its document has its url.
THEOREM SelloSiempre == SpecFirmantes => []CopiaSellada
<1>1. ASSUME FirmaInv, SerialInv PROVE CopiaSellada
  <2>1. ASSUME NEW k \in Copias, copia[k] # SinCopia
        PROVE  Sellado(copia[k].sellos, documento[copia[k].de])
    BY <1>1, <2>1 DEF FirmaInv, CopiasEnRegla
  <2>2. ASSUME incidentes = 0, Quieto, NEW k \in Copias, copia[k] # SinCopia
        PROVE  documento[copia[k].de].url = k
    BY <1>1, <2>2 DEF SerialInv, SinIncidentes, Guardada, Esperada, Quieto, Libre
  <2> QED BY <2>1, <2>2 DEF CopiaSellada, Sellado
<1> QED BY <1>1, FirmaSiempre, SerialSiempre, PTL

\* Whatever overlaps, fails or comes twice, a document names one copy made of
\* it (documentSigning saves both columns of the row it read); undisturbed, no
\* document is at the provider twice.
THEOREM CopiaSiempre == SpecFirmantes => []CopiaDeSuDocumento
<1>1. ASSUME TipoFirmantes, FirmaInv, SerialInv PROVE CopiaDeSuDocumento
  <2>1. ASSUME NEW d \in Documentos, documento[d].url # Nulo
        PROVE  documento[d].ticket = documento[d].url /\ copia[documento[d].url].de = d
    BY <1>1, <2>1, Valores DEF FirmaInv, FilasEnRegla, FilaDe, Hay
  <2>2. ASSUME incidentes = 0, NEW k \in Copias, NEW l \in Copias, copia[k] # SinCopia,
               copia[k].de = copia[l].de
        PROVE  k = l
    <3>1. PICK d \in Documentos : d = copia[k].de /\ d = copia[l].de
      BY <1>1, <2>2 DEF FirmaInv, CopiasEnRegla
    <3>2. copia[l] # SinCopia BY <3>1, FirmantesAssumption DEF SinCopia
    <3>3. /\ documento[d].url = k \/ Esperada(k)
          /\ documento[d].url = l \/ Esperada(l)
      BY <1>1, <2>2, <3>1, <3>2 DEF SerialInv, SinIncidentes, Guardada
    <3>4. Esperada(k) \/ Esperada(l) => documento[d].url = Nulo
      BY <1>1, <2>2, <3>1 DEF SerialInv, SinIncidentes, Esperada, AlDia
    <3>5. CASE Esperada(k) /\ Esperada(l)
      <4>1. PICK g \in Hilos : tramite[g].en = "guardarCopia" /\ tramite[g].fila.url = k
        BY <3>5 DEF Esperada
      <4>2. PICK h \in Hilos : tramite[h].en = "guardarCopia" /\ tramite[h].fila.url = l
        BY <3>5 DEF Esperada
      <4>3. g = h BY <1>1, <2>2, <4>1, <4>2 DEF SerialInv, SinIncidentes, UnoSolo, Libre
      <4> QED BY <4>1, <4>2, <4>3
    <3> QED BY <3>3, <3>4, <3>5, FirmantesAssumption
  <2> QED BY <2>1, <2>2 DEF CopiaDeSuDocumento
<1> QED BY <1>1, FirmaSiempre, SerialSiempre, PTL

\* Whatever overlaps, fails, is late or comes twice, a document is signed only
\* after the provider said so of one of its copies (webhooks.service.ts saves
\* whole rows that it read before); undisturbed, what it said is on the
\* document.
THEOREM FirmadoSiempre == SpecFirmantes => []FirmadoConCopia
<1>1. ASSUME TipoFirmantes, FirmaInv, SerialInv PROVE FirmadoConCopia
  <2>1. ASSUME NEW d \in Documentos, documento[d].isSigned
        PROVE  \E k \in Copias : /\ copia[k].de = d
                                /\ copia[k].avisos \cap {"completado", "rechazado"} # {}
    BY <1>1, <2>1, Valores DEF FirmaInv, FilasEnRegla, FilaDe, Notificada, Terminada, Hay
  <2>2. ASSUME incidentes = 0, Quieto, NEW k \in Copias, "completado" \in copia[k].avisos
        PROVE  /\ documento[copia[k].de].isSigned
               /\ documento[copia[k].de].signatureStatus = "APROBADA"
    BY <1>1, <2>2 DEF SerialInv, SinIncidentes, Reflejada, Anotandose, Quieto, Libre
  <2> QED BY <2>1, <2>2 DEF FirmadoConCopia
<1> QED BY <1>1, FirmaSiempre, SerialSiempre, PTL
=============================================================================
