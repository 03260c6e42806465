------------------------- MODULE LibroContratoProofs -------------------------
(***************************************************************************)
(* Sums over finite sets, and proofs about HandlerAmounts and              *)
(* LibroContrato for every set of funds, services, handlers, events and    *)
(* amounts: rounding, type correctness, and that no interleaving, failure  *)
(* or restart makes money leave a fund; then about handlers that run one   *)
(* at a time: the four amounts of a fund keep their sum whatever query is  *)
(* rejected and wherever the process stops (TechoConservado), a step moves *)
(* it by a cent at most when amounts have fractions of one                 *)
(* (DerivaAcotada), and run to their end they implement the books of       *)
(* LibroAbstracto (ImplementaLibro).                                       *)
(***************************************************************************)
EXTENDS LibroRefina, FondosDelContrato, SequenceTheorems, FiniteSetTheorems, TLAPS

----
(* What the sums of the models are, for every finite set: SumFunctionOnSet *)
(* of the module Functions is a fold, so each fact is proved by taking a   *)
(* smallest set that would not have it (Minimo). And that finite sets of   *)
(* numbers have a least and a largest one.                                 *)

\* Of any finite sets, some has no smaller one among them.
LEMMA Minimo ==
  ASSUME NEW S, IsFiniteSet(S), NEW M \in SUBSET SUBSET S, M # {}
  PROVE  \E T \in M : \A U \in M : U \subseteq T => U = T
<1>1. IsWellFoundedOn(StrictSubsetOrdering(S), FiniteSubsetsOf(S))
  BY FS_StrictSubsetOrderingWellFounded
<1>2. M \subseteq FiniteSubsetsOf(S) BY FS_FiniteSubsetsOfFinite
<1>3. PICK T \in M : \A U \in M : ~(<<U, T>> \in StrictSubsetOrdering(S))
  <2> HIDE DEF FiniteSubsetsOf, StrictSubsetOrdering
  <2> QED BY <1>1, <1>2, WFMin
<1> QED BY <1>3 DEF StrictSubsetOrdering

----
(* The fold is well defined. *)

Elegido(s) == CHOOSE x \in s : TRUE

\* The function that the fold computes: the sum of f on every subset of T.
EsSuma(g, f, T) ==
  g = [s \in SUBSET T |-> IF s = {} THEN 0 ELSE f[Elegido(s)] + g[s \ {Elegido(s)}]]

\* A set that is not empty has an element to choose.
LEMMA ElegidoEsta == ASSUME NEW s, s # {} PROVE Elegido(s) \in s
BY DEF Elegido

\* There is one such function at most, on the sets that two of them share.
LEMMA SumaUnica ==
  ASSUME NEW S, IsFiniteSet(S), NEW f, NEW T1 \in SUBSET S, NEW T2 \in SUBSET S, NEW g1, NEW g2,
         EsSuma(g1, f, T1), EsSuma(g2, f, T2), NEW s \in SUBSET (T1 \cap T2)
  PROVE  g1[s] = g2[s]
<1> DEFINE M == {u \in SUBSET (T1 \cap T2) : g1[u] # g2[u]}
<1> SUFFICES ASSUME M # {} PROVE FALSE OBVIOUS
<1>1. PICK T \in M : \A U \in M : U \subseteq T => U = T
  <2>1. M \in SUBSET SUBSET S OBVIOUS
  <2> HIDE DEF M
  <2> QED BY <2>1, Minimo
<1>2. /\ g1[T] = IF T = {} THEN 0 ELSE f[Elegido(T)] + g1[T \ {Elegido(T)}]
      /\ g2[T] = IF T = {} THEN 0 ELSE f[Elegido(T)] + g2[T \ {Elegido(T)}]
  BY <1>1 DEF EsSuma
<1>3. T # {} BY <1>1, <1>2
<1>4. T \ {Elegido(T)} \notin M BY <1>1, <1>3, ElegidoEsta
<1>5. g1[T \ {Elegido(T)}] = g2[T \ {Elegido(T)}] BY <1>1, <1>4
<1> QED BY <1>1, <1>2, <1>5

\* There is one.
LEMMA SumaHay ==
  ASSUME NEW S, IsFiniteSet(S), NEW f
  PROVE  \E g : EsSuma(g, f, S)
<1> DEFINE M == {u \in SUBSET S : ~\E g : EsSuma(g, f, u)}
<1> SUFFICES ASSUME M # {} PROVE FALSE OBVIOUS
<1>1. PICK T \in M : \A U \in M : U \subseteq T => U = T
  <2>1. M \in SUBSET SUBSET S OBVIOUS
  <2> HIDE DEF M
  <2> QED BY <2>1, Minimo
<1>2. \A U \in SUBSET T : U # T => \E g : EsSuma(g, f, U) BY <1>1
<1> DEFINE Sol(u) == CHOOSE g : EsSuma(g, f, u)
<1>3. \A U \in SUBSET T : U # T => EsSuma(Sol(U), f, U) BY <1>2
<1> HIDE DEF Sol
<1> DEFINE h == [s \in SUBSET T |-> IF s = {} THEN 0
                   ELSE f[Elegido(s)] + Sol(s \ {Elegido(s)})[s \ {Elegido(s)}]]
<1>4. ASSUME NEW s \in SUBSET T, s # {}
      PROVE  h[s \ {Elegido(s)}] = Sol(s \ {Elegido(s)})[s \ {Elegido(s)}]
  <2> DEFINE u == s \ {Elegido(s)}
             v == u \ {Elegido(u)}
  <2>1. u \in SUBSET T /\ u # T BY <1>4, ElegidoEsta
  <2>2. Sol(u)[u] = IF u = {} THEN 0 ELSE f[Elegido(u)] + Sol(u)[v]
    <3>1. EsSuma(Sol(u), f, u) BY <1>3, <2>1
    <3> HIDE DEF u
    <3> QED BY <3>1 DEF EsSuma
  <2>3. h[u] = IF u = {} THEN 0 ELSE f[Elegido(u)] + Sol(v)[v]
    <3> HIDE DEF u
    <3> QED BY <2>1
  <2>4. ASSUME u # {} PROVE Sol(u)[v] = Sol(v)[v]
    <3>1. v \in SUBSET T /\ v # T /\ v \in SUBSET (u \cap v) BY <2>1
    <3>2. EsSuma(Sol(u), f, u) /\ EsSuma(Sol(v), f, v) BY <1>3, <2>1, <3>1
    <3>3. u \in SUBSET S /\ v \in SUBSET S BY <2>1, <3>1
    <3> HIDE DEF u, v
    <3> QED BY <3>1, <3>2, <3>3, SumaUnica
  <2> QED BY <2>2, <2>3, <2>4
<1>5. EsSuma(h, f, T)
  <2>1. h = [s \in SUBSET T |-> IF s = {} THEN 0 ELSE f[Elegido(s)] + h[s \ {Elegido(s)}]]
    BY <1>4
  <2> HIDE DEF h
  <2> QED BY <2>1 DEF EsSuma
<1> QED BY <1>1, <1>5

\* The fold is that function's value on the whole set.
LEMMA SumaEs ==
  ASSUME NEW S, IsFiniteSet(S), NEW f
  PROVE  \E g : EsSuma(g, f, S) /\ SumFunctionOnSet(f, S) = g[S]
<1> DEFINE g == CHOOSE g : EsSuma(g, f, S)
<1>1. EsSuma(g, f, S) BY SumaHay
<1>2. SumFunctionOnSet(f, S) = g[S]
  BY DEF SumFunctionOnSet, FoldFunctionOnSet, MapThenFoldSet, EsSuma, Elegido
<1> QED BY <1>1, <1>2

\* One step of the fold.
LEMMA SumaElegido ==
  ASSUME NEW S, IsFiniteSet(S), NEW f, NEW T \in SUBSET S
  PROVE  SumFunctionOnSet(f, T) =
           IF T = {} THEN 0
           ELSE f[Elegido(T)] + SumFunctionOnSet(f, T \ {Elegido(T)})
<1> DEFINE U == T \ {Elegido(T)}
<1>1. IsFiniteSet(T) /\ IsFiniteSet(U) BY FS_Subset
<1>2. PICK g : EsSuma(g, f, T) /\ SumFunctionOnSet(f, T) = g[T] BY <1>1, SumaEs
<1>3. PICK k : EsSuma(k, f, U) /\ SumFunctionOnSet(f, U) = k[U] BY <1>1, SumaEs
<1>4. g[T] = IF T = {} THEN 0 ELSE f[Elegido(T)] + g[U]
  <2> HIDE DEF U
  <2>1. g[T] = IF T = {} THEN 0 ELSE f[Elegido(T)] + g[T \ {Elegido(T)}]
    BY <1>2 DEF EsSuma
  <2> QED BY <2>1 DEF U
<1>5. g[U] = k[U]
  <2>1. T \in SUBSET T /\ U \in SUBSET T /\ U \in SUBSET (T \cap U) OBVIOUS
  <2> HIDE DEF U
  <2> QED BY <1>1, <1>2, <1>3, <2>1, SumaUnica
<1> QED BY <1>2, <1>3, <1>4, <1>5

----
(* What the other modules use. *)

\* Nothing adds up to zero.
LEMMA SumaVacia == ASSUME NEW f PROVE SumFunctionOnSet(f, {}) = 0
BY FS_EmptySet, SumaElegido

\* Integers add up to an integer.
LEMMA SumaEntera ==
  ASSUME NEW S, IsFiniteSet(S), NEW f, \A x \in S : f[x] \in Int
  PROVE  SumFunctionOnSet(f, S) \in Int
<1> DEFINE M == {T \in SUBSET S : SumFunctionOnSet(f, T) \notin Int}
<1> SUFFICES ASSUME M # {} PROVE FALSE OBVIOUS
<1>1. PICK T \in M : \A U \in M : U \subseteq T => U = T
  <2>1. M \in SUBSET SUBSET S OBVIOUS
  <2> HIDE DEF M
  <2> QED BY <2>1, Minimo
<1>2. SumFunctionOnSet(f, T) =
        IF T = {} THEN 0 ELSE f[Elegido(T)] + SumFunctionOnSet(f, T \ {Elegido(T)})
  BY <1>1, SumaElegido
<1>3. CASE T = {} BY <1>1, <1>2, <1>3
<1>4. CASE T # {}
  <2>1. Elegido(T) \in T BY <1>4, ElegidoEsta
  <2>2. SumFunctionOnSet(f, T \ {Elegido(T)}) \in Int BY <1>1, <2>1
  <2> QED BY <1>1, <1>2, <1>4, <2>1, <2>2
<1> QED BY <1>3, <1>4

\* Any element may be added last.
LEMMA SumaDeUno ==
  ASSUME NEW S, IsFiniteSet(S), NEW f, \A y \in S : f[y] \in Int, NEW x \in S
  PROVE  SumFunctionOnSet(f, S) = f[x] + SumFunctionOnSet(f, S \ {x})
<1> DEFINE s(T) == SumFunctionOnSet(f, T)
           M == {T \in SUBSET S : \E y \in T : s(T) # f[y] + s(T \ {y})}
<1> SUFFICES ASSUME M # {} PROVE FALSE OBVIOUS
<1>1. PICK T \in M : \A U \in M : U \subseteq T => U = T
  <2>1. M \in SUBSET SUBSET S OBVIOUS
  <2> HIDE DEF M
  <2> QED BY <2>1, Minimo
<1>2. PICK y \in T : s(T) # f[y] + s(T \ {y}) BY <1>1
<1> DEFINE e == Elegido(T)
<1>3. e \in T /\ s(T) = f[e] + s(T \ {e})
  <2>1. T # {} /\ T \in SUBSET S BY <1>1, <1>2
  <2> QED BY <2>1, ElegidoEsta, SumaElegido
<1>4. y # e BY <1>2, <1>3
<1>5. s(T \ {e}) = f[y] + s((T \ {e}) \ {y})
  <2>1. T \ {e} \notin M BY <1>1, <1>3
  <2> QED BY <1>1, <1>2, <1>4, <2>1
<1>6. s(T \ {y}) = f[e] + s((T \ {y}) \ {e})
  <2>1. T \ {y} \notin M BY <1>1, <1>2
  <2> QED BY <1>1, <1>3, <1>4, <2>1
<1>7. (T \ {e}) \ {y} = (T \ {y}) \ {e} OBVIOUS
<1>8. f[e] \in Int /\ f[y] \in Int /\ s((T \ {e}) \ {y}) \in Int
  <2>1. IsFiniteSet((T \ {e}) \ {y}) /\ (T \ {e}) \ {y} \subseteq S BY <1>1, FS_Subset
  <2> QED BY <1>1, <1>2, <1>3, <2>1, SumaEntera
<1> HIDE DEF s, e
<1> QED BY <1>2, <1>3, <1>5, <1>6, <1>7, <1>8

\* Equal summands, equal sums.
LEMMA SumaIgual ==
  ASSUME NEW S, IsFiniteSet(S), NEW f, NEW g, \A x \in S : f[x] = g[x]
  PROVE  SumFunctionOnSet(f, S) = SumFunctionOnSet(g, S)
<1> DEFINE M == {T \in SUBSET S : SumFunctionOnSet(f, T) # SumFunctionOnSet(g, T)}
<1> SUFFICES ASSUME M # {} PROVE FALSE OBVIOUS
<1>1. PICK T \in M : \A U \in M : U \subseteq T => U = T
  <2>1. M \in SUBSET SUBSET S OBVIOUS
  <2> HIDE DEF M
  <2> QED BY <2>1, Minimo
<1>0. T \in SUBSET S BY <1>1
<1> HIDE DEF M
<1>2. SumFunctionOnSet(f, T) =
        IF T = {} THEN 0 ELSE f[Elegido(T)] + SumFunctionOnSet(f, T \ {Elegido(T)})
  BY <1>0, SumaElegido
<1>3. SumFunctionOnSet(g, T) =
        IF T = {} THEN 0 ELSE g[Elegido(T)] + SumFunctionOnSet(g, T \ {Elegido(T)})
  BY <1>0, SumaElegido
<1> USE DEF M
<1>4. CASE T = {} BY <1>1, <1>2, <1>3, <1>4
<1>5. CASE T # {}
  <2>1. Elegido(T) \in T BY <1>5, ElegidoEsta
  <2>2. SumFunctionOnSet(f, T \ {Elegido(T)}) = SumFunctionOnSet(g, T \ {Elegido(T)})
    BY <1>1, <2>1
  <2> QED BY <1>1, <1>2, <1>3, <1>5, <2>1, <2>2
<1> QED BY <1>4, <1>5

\* The sum does not depend on the names of its indices.
LEMMA SumaReindexada ==
  ASSUME NEW S, IsFiniteSet(S), NEW b,
         \A x, y \in S : b[x] = b[y] => x = y,
         NEW f, NEW g, \A x \in S : g[x] = f[b[x]] /\ g[x] \in Int
  PROVE  SumFunctionOnSet(g, S) = SumFunctionOnSet(f, {b[x] : x \in S})
<1> DEFINE B(T) == {b[x] : x \in T}
           M == {T \in SUBSET S : SumFunctionOnSet(g, T) # SumFunctionOnSet(f, B(T))}
<1> SUFFICES ASSUME M # {} PROVE FALSE OBVIOUS
<1>1. PICK T \in M : \A U \in M : U \subseteq T => U = T
  <2>1. M \in SUBSET SUBSET S OBVIOUS
  <2> HIDE DEF M
  <2> QED BY <2>1, Minimo
<1>2. T \in SUBSET S /\ IsFiniteSet(T) BY <1>1, FS_Subset
<1>3. PICK x \in T : TRUE
  <2>1. T # {}
    <3>1. SumFunctionOnSet(g, {}) = 0 /\ SumFunctionOnSet(f, {}) = 0 BY SumaVacia
    <3>2. B({}) = {} OBVIOUS
    <3> QED BY <1>1, <3>1, <3>2
  <2> QED BY <2>1
<1>4. SumFunctionOnSet(g, T) = g[x] + SumFunctionOnSet(g, T \ {x})
  <2>1. \A y \in T : g[y] \in Int BY <1>2
  <2> HIDE DEF M
  <2> QED BY <1>2, <1>3, <2>1, SumaDeUno
<1>5. SumFunctionOnSet(f, B(T)) = f[b[x]] + SumFunctionOnSet(f, B(T) \ {b[x]})
  <2>1. IsFiniteSet(B(T))
    <3>1. [y \in T |-> b[y]] \in Surjection(T, B(T)) BY DEF Surjection
    <3> HIDE DEF B, M
    <3> QED BY <1>2, <3>1, FS_Surjection
  <2>2. \A y \in B(T) : f[y] \in Int BY <1>2
  <2>3. b[x] \in B(T) BY <1>3
  <2> HIDE DEF M, B
  <2> QED BY <2>1, <2>2, <2>3, SumaDeUno
<1>6. B(T) \ {b[x]} = B(T \ {x}) BY <1>2, <1>3
<1>7. SumFunctionOnSet(g, T \ {x}) = SumFunctionOnSet(f, B(T \ {x})) BY <1>1, <1>2, <1>3
<1>8. g[x] = f[b[x]] BY <1>2, <1>3
<1> HIDE DEF B
<1> QED BY <1>1, <1>4, <1>5, <1>6, <1>7, <1>8

\* One summand changes, and the sum by as much.
LEMMA SumaCambio ==
  ASSUME NEW S, IsFiniteSet(S), NEW f, NEW g, \A y \in S : f[y] \in Int /\ g[y] \in Int,
         NEW x \in S, \A y \in S \ {x} : g[y] = f[y]
  PROVE  SumFunctionOnSet(g, S) = SumFunctionOnSet(f, S) + g[x] - f[x]
<1>1. SumFunctionOnSet(f, S) = f[x] + SumFunctionOnSet(f, S \ {x}) BY SumaDeUno
<1>2. SumFunctionOnSet(g, S) = g[x] + SumFunctionOnSet(g, S \ {x}) BY SumaDeUno
<1>3. IsFiniteSet(S \ {x}) BY FS_Subset
<1>4. SumFunctionOnSet(f, S \ {x}) = SumFunctionOnSet(g, S \ {x}) BY <1>3, SumaIgual
<1>5. SumFunctionOnSet(f, S \ {x}) \in Int BY <1>3, SumaEntera
<1> QED BY <1>1, <1>2, <1>4, <1>5

\* One more summand.
LEMMA SumaDeMas ==
  ASSUME NEW S, IsFiniteSet(S), NEW x, x \notin S, NEW f, NEW g, f[x] \in Int,
         \A y \in S : g[y] = f[y] /\ f[y] \in Int
  PROVE  SumFunctionOnSet(f, S \cup {x}) = SumFunctionOnSet(g, S) + f[x]
<1> DEFINE T == S \cup {x}
<1>1. IsFiniteSet(T) /\ T \ {x} = S /\ x \in T /\ \A y \in T : f[y] \in Int
  BY FS_AddElement
<1>2. SumFunctionOnSet(f, T) = f[x] + SumFunctionOnSet(f, T \ {x})
  <2> HIDE DEF T
  <2> QED BY <1>1, SumaDeUno
<1>3. SumFunctionOnSet(f, S) = SumFunctionOnSet(g, S) BY SumaIgual
<1>4. SumFunctionOnSet(f, S) \in Int BY SumaEntera
<1>5. SumFunctionOnSet(f, T) = f[x] + SumFunctionOnSet(f, S) BY <1>1, <1>2
<1> QED BY <1>3, <1>4, <1>5

\* Smaller summands, smaller sums.
LEMMA SumaMenor ==
  ASSUME NEW S, IsFiniteSet(S), NEW f, NEW g,
         \A x \in S : f[x] \in Int /\ g[x] \in Int /\ f[x] <= g[x]
  PROVE  SumFunctionOnSet(f, S) <= SumFunctionOnSet(g, S)
<1> DEFINE M == {T \in SUBSET S : ~(SumFunctionOnSet(f, T) <= SumFunctionOnSet(g, T))}
<1> SUFFICES ASSUME M # {} PROVE FALSE OBVIOUS
<1>1. PICK T \in M : \A U \in M : U \subseteq T => U = T
  <2>1. M \in SUBSET SUBSET S OBVIOUS
  <2> HIDE DEF M
  <2> QED BY <2>1, Minimo
<1>2. T \in SUBSET S /\ IsFiniteSet(T) BY <1>1, FS_Subset
<1>3. PICK x \in T : TRUE
  <2>1. SumFunctionOnSet(f, {}) = 0 /\ SumFunctionOnSet(g, {}) = 0 BY SumaVacia
  <2> QED BY <1>1, <2>1
<1>4. IsFiniteSet(T \ {x}) /\ x \in S /\ \A y \in T : f[y] \in Int /\ g[y] \in Int
  BY <1>2, FS_Subset
<1>5. SumFunctionOnSet(f, T) = f[x] + SumFunctionOnSet(f, T \ {x})
  <2> HIDE DEF M
  <2> QED BY <1>2, <1>3, <1>4, SumaDeUno
<1>6. SumFunctionOnSet(g, T) = g[x] + SumFunctionOnSet(g, T \ {x})
  <2> HIDE DEF M
  <2> QED BY <1>2, <1>3, <1>4, SumaDeUno
<1>7. SumFunctionOnSet(f, T \ {x}) \in Int /\ SumFunctionOnSet(g, T \ {x}) \in Int
  <2>1. \A y \in T \ {x} : f[y] \in Int /\ g[y] \in Int BY <1>4
  <2> HIDE DEF M
  <2> QED BY <1>4, <2>1, SumaEntera
<1>8. SumFunctionOnSet(f, T \ {x}) <= SumFunctionOnSet(g, T \ {x}) BY <1>1, <1>2, <1>3
<1>9. f[x] \in Int /\ g[x] \in Int /\ f[x] <= g[x] BY <1>4
<1> QED BY <1>1, <1>5, <1>6, <1>7, <1>8, <1>9

\* Where the other summands are zero, only some are added.
LEMMA SumaSoporte ==
  ASSUME NEW S, IsFiniteSet(S), NEW T \in SUBSET S, NEW f, NEW g,
         \A x \in T : f[x] = g[x] /\ g[x] \in Int, \A x \in S \ T : f[x] = 0
  PROVE  SumFunctionOnSet(f, S) = SumFunctionOnSet(g, T)
<1> DEFINE M == {U \in SUBSET S : SumFunctionOnSet(f, U) # SumFunctionOnSet(g, U \cap T)}
<1> SUFFICES ASSUME M # {} PROVE FALSE
  <2>1. S \cap T = T OBVIOUS
  <2> QED BY <2>1
<1>1. PICK U \in M : \A V \in M : V \subseteq U => V = U
  <2>1. M \in SUBSET SUBSET S OBVIOUS
  <2> HIDE DEF M
  <2> QED BY <2>1, Minimo
<1>2. U # {} BY <1>1, SumaVacia
<1>3. PICK x \in U : x = Elegido(U) BY <1>2, ElegidoEsta
<1>4. PICK V \in SUBSET S : V = U \ {x} /\ V \notin M
  <2>1. U \ {x} \in SUBSET S /\ U \ {x} # U BY <1>1, <1>3
  <2>2. U \ {x} \notin M
    <3> HIDE DEF M
    <3> QED BY <1>1, <2>1
  <2> HIDE DEF M
  <2> QED BY <2>1, <2>2
<1>5. /\ SumFunctionOnSet(f, U) = f[x] + SumFunctionOnSet(f, V)
      /\ SumFunctionOnSet(f, V) = SumFunctionOnSet(g, V \cap T)
  BY <1>1, <1>2, <1>3, <1>4, SumaElegido
<1>6. IsFiniteSet(U \cap T) /\ IsFiniteSet(V \cap T) BY <1>1, <1>4, FS_Subset
<1>7. PICK n \in Int : n = SumFunctionOnSet(g, V \cap T) BY <1>6, SumaEntera
<1>8. SumFunctionOnSet(f, U) # SumFunctionOnSet(g, U \cap T) BY <1>1
<1> HIDE DEF M
<1>9. CASE x \in T
  <2>1. f[x] = g[x] BY <1>9
  <2>2. (U \cap T) \ {x} = V \cap T /\ x \in U \cap T BY <1>3, <1>4, <1>9
  <2>3. SumFunctionOnSet(g, U \cap T) = g[x] + SumFunctionOnSet(g, (U \cap T) \ {x})
    BY <1>6, <2>2, SumaDeUno
  <2> QED BY <1>5, <1>8, <2>1, <2>2, <2>3
<1>10. CASE x \notin T
  <2>1. U \cap T = V \cap T BY <1>4, <1>10
  <2>2. x \in S \ T BY <1>1, <1>3, <1>10 DEF M
  <2>3. f[x] = 0 BY <2>2
  <2>4. SumFunctionOnSet(f, U) = 0 + n /\ SumFunctionOnSet(g, U \cap T) = n
    BY <1>5, <1>7, <2>1, <2>3
  <2>5. n \in Int OBVIOUS
  <2> QED BY <1>8, <2>4, <2>5
<1> QED BY <1>9, <1>10

\* Zeros add up to zero.
LEMMA SumaCeros ==
  ASSUME NEW S, IsFiniteSet(S), NEW f, \A x \in S : f[x] = 0
  PROVE  SumFunctionOnSet(f, S) = 0
BY SumaSoporte, SumaVacia

----
(* Least and largest numbers. *)

\* Of any natural numbers one is the least.
LEMMA MinimoNat ==
  ASSUME NEW M \in SUBSET Nat, M # {}
  PROVE  \E k \in M : \A j \in M : k <= j
<1>1. PICK n \in M : TRUE OBVIOUS
<1> DEFINE N == 0..n
           F == {0..j : j \in {i \in M : i <= n}}
<1>2. 0..n \in F /\ \A T \in F : T \subseteq N BY <1>1
<1>3. PICK T \in F : \A U \in F : U \subseteq T => U = T
  <2>1. IsFiniteSet(N) BY <1>1, FS_Interval
  <2>2. F \in SUBSET SUBSET N /\ F # {} BY <1>2
  <2> HIDE DEF F, N
  <2> QED BY <2>1, <2>2, Minimo
<1>4. PICK k \in M : k <= n /\ T = 0..k BY <1>3
<1>5. ASSUME NEW j \in M, j < k PROVE FALSE
  <2>1. 0..j \in F /\ 0..j \subseteq T BY <1>1, <1>4, <1>5
  <2>2. 0..j = T BY <1>3, <2>1
  <2> QED BY <1>1, <1>4, <1>5, <2>2
<1> QED BY <1>4, <1>5

\* Of finitely many integers one is the largest.
LEMMA MaximoHay ==
  ASSUME NEW S, \A x \in S : x \in Int, IsFiniteSet(S), S # {}
  PROVE  \E x \in S : \A y \in S : x >= y
<1> DEFINE Mayores(x) == {y \in S : y > x}
           F == {Mayores(x) : x \in S}
<1>1. F \in SUBSET SUBSET S /\ F # {} OBVIOUS
<1>2. PICK T \in F : \A U \in F : U \subseteq T => U = T
  <2> HIDE DEF F
  <2> QED BY <1>1, Minimo
<1>3. PICK x \in S : T = Mayores(x) BY <1>2
<1>4. ASSUME NEW y \in S, y > x PROVE FALSE
  <2>1. Mayores(y) \in F OBVIOUS
  <2>2. Mayores(y) \subseteq T BY <1>3, <1>4
  <2>3. Mayores(y) = T
    <3> HIDE DEF F, Mayores
    <3> QED BY <1>2, <2>1, <2>2
  <2> QED BY <1>3, <1>4, <2>3
<1> QED BY <1>3, <1>4

----
(* The arithmetic of HandlerAmounts, for every unit of money. *)

\* Rounding gives an amount, within half a cent of the one rounded.
THEOREM RedondeoAcotado ==
  ASSUME NEW x \in Int
  PROVE  /\ toDecimalPlaces(x) \in Int
         /\ 2 * (toDecimalPlaces(x) - x) <= Centavo
         /\ 2 * (x - toDecimalPlaces(x)) <= Centavo
<1>1. x % Centavo \in 0..(Centavo - 1) BY CentavoAssumption
<1> DEFINE r == x % Centavo
<1>2. r \in Int /\ 0 <= r /\ r < Centavo /\ Centavo \in Int BY <1>1, CentavoAssumption
<1> HIDE DEF r
<1>3. toDecimalPlaces(x) = IF 2 * r > Centavo \/ (2 * r = Centavo /\ x >= 0)
                             THEN x - r + Centavo ELSE x - r
  BY DEF toDecimalPlaces, r
<1> QED BY <1>2, <1>3

\* Rounding leaves a whole number of cents as it is.
THEOREM RedondeoEntero ==
  ASSUME NEW x \in Int, EsCentavo(x)
  PROVE  toDecimalPlaces(x) = x
BY CentavoAssumption DEF EsCentavo, toDecimalPlaces

\* A whole number of cents is a multiple of a cent, and the other way round.
LEMMA EnteroMultiplo ==
  ASSUME NEW x \in Int
  PROVE  EsCentavo(x) <=> \E k \in Int : x = k * Centavo
<1>1. ASSUME EsCentavo(x) PROVE \E k \in Int : x = k * Centavo
  <2>1. x = Centavo * (x \div Centavo) + (x % Centavo) BY CentavoAssumption
  <2>2. x \div Centavo \in Int BY CentavoAssumption
  <2> QED BY <1>1, <2>1, <2>2, CentavoAssumption DEF EsCentavo
<1>2. ASSUME NEW k \in Int, x = k * Centavo PROVE EsCentavo(x)
  BY <1>2, CentavoAssumption DEF EsCentavo
<1> QED BY <1>1, <1>2

\* Whole numbers of cents are closed under the sums and differences of amounts.
THEOREM EnterosCerrados ==
  ASSUME NEW x \in Int, NEW y \in Int, EsCentavo(x), EsCentavo(y)
  PROVE  EsCentavo(x + y) /\ EsCentavo(x - y)
<1>1. PICK j \in Int : x = j * Centavo BY EnteroMultiplo
<1>2. PICK k \in Int : y = k * Centavo BY EnteroMultiplo
<1>3. x + y = (j + k) * Centavo /\ x - y = (j - k) * Centavo
  BY <1>1, <1>2, CentavoAssumption
<1>4. j + k \in Int /\ j - k \in Int /\ x + y \in Int /\ x - y \in Int OBVIOUS
<1> QED BY <1>3, <1>4, EnteroMultiplo

----
(* Rows. *)

\* A column after an event is an integer, or NaN when the column already was.
LEMMA NuevoMontoTipo ==
  ASSUME NEW e \in TYPE_EVENT, NEW c, NEW v \in Int \cup {NaN}, NEW m \in Int
  PROVE  /\ NuevoMonto(e, c, v, m) \in Int \cup {NaN}
         /\ v \in Int => NuevoMonto(e, c, v, m) \in Int
<1>1. /\ Mas(v, m) \in Int \cup {NaN} /\ Menos(v, m) \in Int \cup {NaN}
      /\ v \in Int => Mas(v, m) \in Int /\ Menos(v, m) \in Int
  BY NaNAssumption DEF Mas, Menos
<1>2. \A x \in Int \cup {NaN} : /\ Redondear(x) \in Int \cup {NaN}
                                /\ x \in Int => Redondear(x) \in Int
  BY RedondeoAcotado, NaNAssumption DEF Redondear
<1> DEFINE x == CASE c \in Suma[e] -> Mas(v, m) [] c \in Resta[e] -> Menos(v, m) [] OTHER -> v
<1>3. x \in Int \cup {NaN} /\ (v \in Int => x \in Int) BY <1>1
<1>4. NuevoMonto(e, c, v, m) = Redondear(x) BY DEF NuevoMonto
<1> HIDE DEF x
<1> QED BY <1>2, <1>3, <1>4

\* What an UPDATE of an event leaves in the row of a fund is a row of a fund.
LEMMA FilaFondoTipo ==
  ASSUME NEW e \in TYPE_EVENT, NEW fila \in FundRow, NEW leida \in FundRow,
         NEW m \in Int, NEW cols
  PROVE  escribir(fila, handlerAmounts(e, leida, m), cols) \in FundRow
<1>1. handlerAmounts(e, leida, m) \in FundRow
  BY NuevoMontoTipo DEF handlerAmounts, FundRow
<1> QED BY <1>1 DEF escribir, FundRow

\* What an UPDATE of an event leaves in the row of a service type is such a row.
LEMMA FilaServicioTipo ==
  ASSUME NEW e \in TYPE_EVENT, NEW fila \in ServiceRow, NEW leida \in ServiceRow,
         NEW m \in Int, NEW cols
  PROVE  escribir(fila, handlerAmounts(e, leida, m), cols) \in ServiceRow
<1>1. handlerAmounts(e, leida, m) \in ServiceRow
  BY NuevoMontoTipo DEF handlerAmounts, ServiceRow
<1> QED BY <1>1 DEF escribir, ServiceRow

\* The rows that a contract is created with are well typed.
LEMMA FilasCero ==
  /\ FilaServicioCero \in ServiceRow
  /\ FilaFondoCero \in FundRow
  /\ NadaVisto \in [servicio : ServiceRow, fondo : FundRow]
BY DEF FilaServicioCero, FilaFondoCero, NadaVisto, ServiceRow, FundRow

----
(* Type correctness. *)

\* The charge an activation is at, and the call left after it.
LEMMA CargoTipo ==
  ASSUME TypeOK, NEW t \in Tareas, paso[t] # "libre"
  PROVE  /\ llamada[t] \in Llamada
         /\ llamada[t].evento \in TYPE_EVENT
         /\ llamada[t].servicio \in Servicios
         /\ llamada[t].cargos \in Seq(Cargo)
         /\ llamada[t].cargos # <<>>
         /\ CargoDe(t) \in Cargo
         /\ CargoDe(t).fondo \in Fondos
         /\ CargoDe(t).monto \in Int
         /\ Tail(llamada[t].cargos) \in Seq(Cargo)
         /\ [llamada[t] EXCEPT !.cargos = Tail(@)] \in Llamada
<1>1. llamada[t] \in Llamada /\ llamada[t].cargos # <<>> BY DEF TypeOK
<1>2. llamada[t].cargos \in Seq(Cargo) BY <1>1 DEF Llamada
<1>3. CargoDe(t) \in Cargo /\ Tail(llamada[t].cargos) \in Seq(Cargo)
  BY <1>1, <1>2 DEF CargoDe
<1> QED BY <1>1, <1>2, <1>3 DEF Llamada, Cargo

\* Ending an activation, and going on to its next charge, keep the types of
\* what the activation holds.
TipoDeTareas ==
  /\ paso \in [Tareas -> Pasos]
  /\ llamada \in [Tareas -> Llamada \cup {SinLlamada}]
  /\ visto \in [Tareas -> [servicio : ServiceRow, fondo : FundRow]]
  /\ \A t \in Tareas : paso[t] # "libre" =>
       llamada[t] \in Llamada /\ llamada[t].cargos # <<>>

\* An activation that ends leaves the activations well typed.
LEMMA TerminarTipo ==
  ASSUME TypeOK, NEW t \in Tareas, Terminar(t)
  PROVE  TipoDeTareas'
BY FilasCero DEF TypeOK, TipoDeTareas, Terminar, Pasos

\* An activation that moves on to its next charge leaves them well typed.
LEMMA SiguienteCargoTipo ==
  ASSUME TypeOK, NEW t \in Tareas, paso[t] # "libre", SiguienteCargo(t)
  PROVE  TipoDeTareas'
<1>1. CASE Tail(llamada[t].cargos) = <<>> BY <1>1, TerminarTipo DEF SiguienteCargo
<1>2. CASE Tail(llamada[t].cargos) # <<>>
  <2>1. /\ paso' = [paso EXCEPT ![t] = "leer"]
        /\ llamada' = [llamada EXCEPT ![t].cargos = Tail(@)]
        /\ visto' = [visto EXCEPT ![t] = NadaVisto]
    BY <1>2 DEF SiguienteCargo
  <2>2. llamada' = [llamada EXCEPT ![t] = [llamada[t] EXCEPT !.cargos = Tail(@)]]
    BY <2>1 DEF TypeOK
  <2>3. [llamada[t] EXCEPT !.cargos = Tail(@)] \in Llamada BY CargoTipo
  <2>4. [llamada[t] EXCEPT !.cargos = Tail(@)].cargos = Tail(llamada[t].cargos)
    BY CargoTipo DEF Llamada
  <2> QED BY <1>2, <2>1, <2>2, <2>3, <2>4, FilasCero DEF TypeOK, TipoDeTareas, Pasos
<1> QED BY <1>1, <1>2

\* An activation that has read its rows leaves them well typed.
LEMMA TrasLeerTipo ==
  ASSUME TypeOK, NEW t \in Tareas, paso[t] # "libre",
         NEW s \in ServiceRow, NEW f \in FundRow, TrasLeer(t, s, f)
  PROVE  TipoDeTareas'
<1>1. CASE Columnas(t) = {} BY <1>1, SiguienteCargoTipo DEF TrasLeer
<1>2. CASE Columnas(t) # {}
  <2>1. /\ paso' = [paso EXCEPT ![t] = "escribirContrato"]
        /\ visto' = [visto EXCEPT ![t] = [servicio |-> s, fondo |-> f]]
        /\ llamada' = llamada
    BY <1>2 DEF TrasLeer
  <2>2. paso' \in [Tareas -> Pasos] /\ llamada' \in [Tareas -> Llamada \cup {SinLlamada}]
    BY <2>1 DEF TypeOK, Pasos
  <2>3. visto' \in [Tareas -> [servicio : ServiceRow, fondo : FundRow]]
    <3>1. [servicio |-> s, fondo |-> f] \in [servicio : ServiceRow, fondo : FundRow]
      OBVIOUS
    <3> QED BY <2>1, <3>1 DEF TypeOK
  <2>4. \A u \in Tareas : paso'[u] # "libre" =>
          llamada'[u] \in Llamada /\ llamada'[u].cargos # <<>>
    BY <2>1 DEF TypeOK
  <2> QED BY <2>2, <2>3, <2>4 DEF TipoDeTareas
<1> QED BY <1>1, <1>2

\* An activation that enters its loop keeps them.
LEMMA ArrancarTipo ==
  ASSUME TypeOK, NEW t \in Tareas, NEW ll \in Llamada, ll.cargos # <<>>, Arrancar(t, ll),
         inicios' \in Nat
  PROVE  TypeOK'
BY DEF Arrancar, TypeOK, Pasos

\* So does every step of its loop.
LEMMA AvanzarTipo ==
  ASSUME TypeOK, NEW t \in Tareas, Avanzar(t)
  PROVE  TypeOK'
<1>1. CASE LeerMaestro(t)
  <2>1. contrato[llamada[t].servicio] \in ServiceRow /\ fondo[Maestro] \in FundRow
    BY <1>1, CargoTipo, FondosAssumption DEF LeerMaestro, TypeOK
  <2>2. TipoDeTareas' BY <1>1, <2>1, TrasLeerTipo DEF LeerMaestro
  <2> QED BY <1>1, <2>2 DEF LeerMaestro, TypeOK, TipoDeTareas
<1>2. CASE LeerContratos(t)
  <2>1. contrato[llamada[t].servicio] \in ServiceRow
    BY <1>2, CargoTipo DEF LeerContratos, TypeOK
  <2> QED BY <1>2, <2>1 DEF LeerContratos, TypeOK, Pasos
<1>3. CASE LeerModificatorio(t)
  <2>1. visto[t].servicio \in ServiceRow /\ fondo[CargoDe(t).fondo] \in FundRow
    BY <1>3, CargoTipo DEF LeerModificatorio, TypeOK
  <2>2. TipoDeTareas' BY <1>3, <2>1, TrasLeerTipo DEF LeerModificatorio
  <2> QED BY <1>3, <2>2 DEF LeerModificatorio, TypeOK, TipoDeTareas
<1>4. CASE EscribirContrato(t)
  <2> DEFINE nueva == escribir(contrato[llamada[t].servicio],
                        handlerAmounts(llamada[t].evento, visto[t].servicio, CargoDe(t).monto),
                        Columnas(t))
  <2>1. nueva \in ServiceRow
    BY <1>4, CargoTipo, FilaServicioTipo DEF EscribirContrato, TypeOK
  <2>2. contrato' = [contrato EXCEPT ![llamada[t].servicio] = nueva]
    BY <1>4 DEF EscribirContrato
  <2> HIDE DEF nueva
  <2> QED BY <1>4, <2>1, <2>2 DEF EscribirContrato, TypeOK, Pasos
<1>5. CASE EscribirFondo(t)
  <2> DEFINE nueva == escribir(fondo[CargoDe(t).fondo],
                        handlerAmounts(llamada[t].evento, visto[t].fondo, CargoDe(t).monto),
                        Columnas(t))
  <2>1. nueva \in FundRow BY <1>5, CargoTipo, FilaFondoTipo DEF EscribirFondo, TypeOK
  <2>2. fondo' = [fondo EXCEPT ![CargoDe(t).fondo] = nueva] BY <1>5 DEF EscribirFondo
  <2> HIDE DEF nueva
  <2>3. TipoDeTareas' BY <1>5, SiguienteCargoTipo DEF EscribirFondo
  <2> QED BY <1>5, <2>1, <2>2, <2>3 DEF EscribirFondo, TypeOK, TipoDeTareas
<1> QED BY <1>1, <1>2, <1>3, <1>4, <1>5 DEF Avanzar

\* A write of a committed amount.
LEMMA ComprometidoTipo ==
  ASSUME TypeOK, NEW f \in Fondos, NEW v \in Int \cup {NaN}, EscribirComprometido(f, v),
         inicios' \in Nat
  PROVE  TypeOK'
<1>1. [fondo[f] EXCEPT !["committedAmount"] = v] \in FundRow
  BY DEF TypeOK, FundRow, FundColumns
<1>2. fondo' = [fondo EXCEPT ![f] = [fondo[f] EXCEPT !["committedAmount"] = v]]
  BY DEF EscribirComprometido, TypeOK
<1> QED BY <1>1, <1>2 DEF EscribirComprometido, TypeOK

\* A query that rejects.
LEMMA FallarTipo ==
  ASSUME TypeOK, NEW t \in Tareas, Fallar(t)
  PROVE  TypeOK'
BY TerminarTipo DEF Fallar, TypeOK, TipoDeTareas

\* The process stops.
LEMMA PerderTipo ==
  ASSUME TypeOK, PerderActivaciones
  PROVE  TypeOK'
BY FilasCero DEF PerderActivaciones, TypeOK, Pasos

\* TypeOK is inductive: Spec keeps every row and every activation well typed.
THEOREM TipoCorrecto == Spec => []TypeOK
<1>1. Init => TypeOK BY FilasCero, FondosAssumption
     DEF Init, TypeOK, FilaFondoCero, FundRow, FundColumns, ServiceColumns, Pasos
<1>2. TypeOK /\ [Next]_vars => TypeOK'
  <2> SUFFICES ASSUME TypeOK, [Next]_vars PROVE TypeOK' OBVIOUS
  <2>1. ASSUME NEW t \in Tareas, NEW ll \in Llamadas, Iniciar(t, ll) PROVE TypeOK'
    <3>1. ll \in Llamada /\ ll.cargos # <<>> /\ inicios' \in Nat
      BY <2>1, LlamadasAssumption DEF Iniciar, TypeOK
    <3> QED BY <2>1, <3>1, ArrancarTipo DEF Iniciar
  <2>2. ASSUME NEW t \in Tareas, Avanzar(t) PROVE TypeOK' BY <2>2, AvanzarTipo
  <2>3. ASSUME NEW t \in Tareas, Fallar(t) PROVE TypeOK' BY <2>3, FallarTipo
  <2>4. ASSUME NEW f \in Fondos, NEW v \in Reservas, Comprometer(f, v) PROVE TypeOK'
    <3>1. v \in Int \cup {NaN} /\ inicios' \in Nat
      BY <2>4, ReservasAssumption DEF Comprometer, TypeOK
    <3> QED BY <2>4, <3>1, ComprometidoTipo DEF Comprometer
  <2>5. ASSUME Caer PROVE TypeOK' BY <2>5, PerderTipo DEF Caer
  <2>6. CASE UNCHANGED vars BY <2>6 DEF vars, TypeOK
  <2> QED BY <2>1, <2>2, <2>3, <2>4, <2>5, <2>6 DEF Next
<1> QED BY <1>1, <1>2, PTL DEF Spec
----
(* No interleaving loses money: ParesConservados. *)

\* A row whose two pairs add up to what the fund was created with.
Par(fila, techo) ==
  /\ fila["montoDisponible"] + fila["montoActivo"] = techo
  /\ fila["montoEjercido"] + fila["montoPagado"] = 0

Enteros(fila) ==
  \A c \in FundColumns \ {"committedAmount"} : EsCentavo(fila[c])

\* What an activation in flight was called with.
LlamadaLegal(t) == paso[t] # "libre" =>
  /\ llamada[t].evento \in Eventos
  /\ \A i \in DOMAIN llamada[t].cargos : EsCentavo(llamada[t].cargos[i].monto)

FondoPar(f) == Par(fondo[f], Techo[f]) /\ Enteros(fondo[f])

\* An activation writes the pair of its own, possibly old, read.
VistoPar(t) ==
  paso[t] \in {"escribirContrato", "escribirFondo"} /\ FondoSeguro(CargoDe(t).fondo) =>
    Par(visto[t].fondo, Techo[CargoDe(t).fondo]) /\ Enteros(visto[t].fondo)

\* The inductive form of ParesConservados. The pairs must add up in the rows
\* the activations have read as well as in the rows of the database.
ParesInv == MontosEnCentavos =>
  /\ \A t \in Tareas : LlamadaLegal(t) /\ VistoPar(t)
  /\ \A f \in Fondos : FondoSeguro(f) => FondoPar(f)

\* A column after an event, when every amount is a whole number of cents.
LEMMA NuevoMontoEntero ==
  ASSUME NEW e \in TYPE_EVENT, NEW c, NEW v \in Int, NEW m \in Int,
         EsCentavo(v), EsCentavo(m)
  PROVE  /\ NuevoMonto(e, c, v, m) = IF c \in Suma[e] THEN v + m
                                     ELSE IF c \in Resta[e] THEN v - m ELSE v
         /\ EsCentavo(NuevoMonto(e, c, v, m))
<1>1. EsCentavo(v + m) /\ EsCentavo(v - m) BY EnterosCerrados
<1>2. v + m \in Int /\ v - m \in Int /\ v # NaN /\ m # NaN BY NaNAssumption
<1>3. Mas(v, m) = v + m /\ Menos(v, m) = v - m BY <1>2 DEF Mas, Menos
<1>4. \A x \in Int : EsCentavo(x) => Redondear(x) = x
  BY RedondeoEntero, NaNAssumption DEF Redondear
<1>8. Suma[e] \cap Resta[e] = {}
  BY DEF Suma, Resta, TYPE_EVENT, TYPE_EVENT_ORDER, TYPE_EVENT_INVOICE
<1>5. CASE c \in Suma[e]
  <2>1. c \notin Resta[e] BY <1>5, <1>8
  <2> QED BY <2>1, <1>1, <1>2, <1>3, <1>4, <1>5 DEF NuevoMonto
<1>6. CASE c \notin Suma[e] /\ c \in Resta[e]
  BY <1>1, <1>2, <1>3, <1>4, <1>6 DEF NuevoMonto
<1>7. CASE c \notin Suma[e] /\ c \notin Resta[e]
  BY <1>1, <1>2, <1>3, <1>4, <1>7 DEF NuevoMonto
<1> QED BY <1>5, <1>6, <1>7

\* The four columns of a row written by an event, one by one.
LEMMA FilaEscrita ==
  ASSUME NEW e \in TYPE_EVENT, NEW fila \in FundRow, NEW leida \in FundRow,
         NEW m \in Int, NEW cols, Enteros(fila), Enteros(leida), EsCentavo(m)
  PROVE  LET nueva == escribir(fila, handlerAmounts(e, leida, m), cols)
         IN  /\ Enteros(nueva)
             /\ \A c \in FundColumns \ {"committedAmount"} :
                  nueva[c] = IF c \notin cols THEN fila[c]
                             ELSE IF c \in Suma[e] THEN leida[c] + m
                             ELSE IF c \in Resta[e] THEN leida[c] - m ELSE leida[c]
<1> DEFINE nueva == escribir(fila, handlerAmounts(e, leida, m), cols)
<1>1. ASSUME NEW c \in FundColumns \ {"committedAmount"}
      PROVE  /\ EsCentavo(nueva[c])
             /\ nueva[c] = IF c \notin cols THEN fila[c]
                           ELSE IF c \in Suma[e] THEN leida[c] + m
                           ELSE IF c \in Resta[e] THEN leida[c] - m ELSE leida[c]
  <2>1. leida[c] \in Int /\ EsCentavo(leida[c]) /\ EsCentavo(fila[c])
    BY DEF FundRow, Enteros
  <2>2. nueva[c] = IF c \in cols THEN NuevoMonto(e, c, leida[c], m) ELSE fila[c]
    BY DEF escribir, handlerAmounts, FundRow
  <2>3. /\ NuevoMonto(e, c, leida[c], m) = IF c \in Suma[e] THEN leida[c] + m
                                          ELSE IF c \in Resta[e] THEN leida[c] - m
                                          ELSE leida[c]
        /\ EsCentavo(NuevoMonto(e, c, leida[c], m))
    BY <2>1, NuevoMontoEntero
  <2> HIDE DEF nueva
  <2>4. CASE c \in cols BY <2>2, <2>3, <2>4
  <2>5. CASE c \notin cols BY <2>1, <2>2, <2>5
  <2> QED BY <2>4, <2>5
<1> HIDE DEF nueva
<1>2. Enteros(nueva) BY <1>1 DEF Enteros
<1> QED BY <1>1, <1>2 DEF nueva

\* An event whose UPDATE does not write both activo and ejercido keeps the
\* pairs of a row, from whichever row with the same pairs it was computed.
LEMMA EscrituraDePar ==
  ASSUME NEW f \in Fondos, NEW e \in Eventos, FondoSeguro(f),
         NEW fila \in FundRow, NEW leida \in FundRow, NEW techo \in Int, NEW m \in Int,
         Par(fila, techo), Par(leida, techo), Enteros(fila), Enteros(leida), EsCentavo(m)
  PROVE  LET nueva == escribir(fila, handlerAmounts(e, leida, m), Escribe(f, e))
         IN  Par(nueva, techo) /\ Enteros(nueva)
<1> DEFINE nueva == escribir(fila, handlerAmounts(e, leida, m), Escribe(f, e))
<1>1. e \in TYPE_EVENT BY LlamadasAssumption
<1>2. ~ ({"montoActivo", "montoEjercido"} \subseteq Escribe(f, e)) BY DEF FondoSeguro
<1>3. /\ Enteros(nueva)
      /\ \A c \in FundColumns \ {"committedAmount"} :
           nueva[c] = IF c \notin Escribe(f, e) THEN fila[c]
                      ELSE IF c \in Suma[e] THEN leida[c] + m
                      ELSE IF c \in Resta[e] THEN leida[c] - m ELSE leida[c]
  BY <1>1, FilaEscrita
<1> HIDE DEF nueva
<1>4. /\ {"montoDisponible", "montoActivo", "montoEjercido", "montoPagado"}
           \subseteq FundColumns \ {"committedAmount"}
      /\ \A c \in FundColumns \ {"committedAmount"} : fila[c] \in Int /\ leida[c] \in Int
  BY DEF FundColumns, ServiceColumns, FundRow
<1>12. /\ fila["montoDisponible"] \in Int /\ fila["montoActivo"] \in Int
       /\ fila["montoEjercido"] \in Int /\ fila["montoPagado"] \in Int
       /\ leida["montoDisponible"] \in Int /\ leida["montoActivo"] \in Int
       /\ leida["montoEjercido"] \in Int /\ leida["montoPagado"] \in Int
  BY <1>4
<1>13. ASSUME NEW c \in {"montoDisponible", "montoActivo", "montoEjercido", "montoPagado"}
       PROVE  nueva[c] = IF c \notin Escribe(f, e) THEN fila[c]
                         ELSE IF c \in Suma[e] THEN leida[c] + m
                         ELSE IF c \in Resta[e] THEN leida[c] - m ELSE leida[c]
  BY <1>3, <1>4
<1>5. ASSUME e = "ORDER_APPROVED" PROVE Par(nueva, techo)
  <2>1. Escribe(f, e) = {"montoDisponible", "montoActivo", "committedAmount"}
    BY <1>5 DEF Escribe, EscribeMaestro, EscribeModificatorio
  <2>2. Suma[e] = {"montoActivo"} /\ Resta[e] = {"montoDisponible", "committedAmount"}
    BY <1>5 DEF Suma, Resta
  <2>3. /\ nueva["montoDisponible"] = leida["montoDisponible"] - m
        /\ nueva["montoActivo"] = leida["montoActivo"] + m
        /\ nueva["montoEjercido"] = fila["montoEjercido"]
        /\ nueva["montoPagado"] = fila["montoPagado"]
    BY <2>1, <2>2, <1>13
  <2> QED BY <2>3, <1>12 DEF Par
<1>6. ASSUME e = "ORDER_CANCELLED" PROVE Par(nueva, techo)
  <2>1. Escribe(f, e) = {"montoDisponible", "montoActivo", "committedAmount"}
    BY <1>6 DEF Escribe, EscribeMaestro, EscribeModificatorio
  <2>2. Suma[e] = {"montoDisponible"} /\ Resta[e] = {"montoActivo"}
    BY <1>6 DEF Suma, Resta
  <2>3. /\ nueva["montoDisponible"] = leida["montoDisponible"] + m
        /\ nueva["montoActivo"] = leida["montoActivo"] - m
        /\ nueva["montoEjercido"] = fila["montoEjercido"]
        /\ nueva["montoPagado"] = fila["montoPagado"]
    BY <2>1, <2>2, <1>13
  <2> QED BY <2>3, <1>12 DEF Par
<1>7. ASSUME e = "INVOICE_REVIEWED" PROVE Par(nueva, techo)
  <2>1. Escribe(f, e) = {} BY <1>2, <1>7 DEF Escribe, EscribeMaestro, EscribeModificatorio
  <2>2. Suma[e] = {"montoEjercido"} /\ Resta[e] = {"montoActivo"} BY <1>7 DEF Suma, Resta
  <2>3. /\ nueva["montoDisponible"] = fila["montoDisponible"]
        /\ nueva["montoActivo"] = fila["montoActivo"]
        /\ nueva["montoEjercido"] = fila["montoEjercido"]
        /\ nueva["montoPagado"] = fila["montoPagado"]
    BY <2>1, <2>2, <1>13
  <2> QED BY <2>3, <1>12 DEF Par
<1>8. ASSUME e = "INVOICE_APPROVED" PROVE Par(nueva, techo)
  <2>1. Escribe(f, e) = {} BY <1>2, <1>8 DEF Escribe, EscribeMaestro, EscribeModificatorio
  <2>2. Suma[e] = {} /\ Resta[e] = {} BY <1>8 DEF Suma, Resta
  <2>3. /\ nueva["montoDisponible"] = fila["montoDisponible"]
        /\ nueva["montoActivo"] = fila["montoActivo"]
        /\ nueva["montoEjercido"] = fila["montoEjercido"]
        /\ nueva["montoPagado"] = fila["montoPagado"]
    BY <2>1, <2>2, <1>13
  <2> QED BY <2>3, <1>12 DEF Par
<1>9. ASSUME e = "INVOICE_CANCELLED" PROVE Par(nueva, techo)
  BY <1>2, <1>9 DEF Escribe, EscribeMaestro, EscribeModificatorio
<1>10. ASSUME e = "INVOICE_PAID" PROVE Par(nueva, techo)
  <2>1. Escribe(f, e) = {"montoPagado", "montoEjercido"}
    BY <1>10 DEF Escribe, EscribeMaestro, EscribeModificatorio
  <2>2. Suma[e] = {"montoPagado"} /\ Resta[e] = {"montoEjercido"} BY <1>10 DEF Suma, Resta
  <2>3. /\ nueva["montoDisponible"] = fila["montoDisponible"]
        /\ nueva["montoActivo"] = fila["montoActivo"]
        /\ nueva["montoEjercido"] = leida["montoEjercido"] - m
        /\ nueva["montoPagado"] = leida["montoPagado"] + m
    BY <2>1, <2>2, <1>13
  <2> QED BY <2>3, <1>12 DEF Par
<1>11. Par(nueva, techo) BY <1>1, <1>5, <1>6, <1>7, <1>8, <1>9, <1>10
     DEF TYPE_EVENT, TYPE_EVENT_ORDER, TYPE_EVENT_INVOICE
<1> QED BY <1>3, <1>11 DEF nueva

\* The activations after one of them moves on to its next charge, or ends.
TareasPares == \A t \in Tareas : LlamadaLegal(t) /\ VistoPar(t)

\* An activation that ends leaves the others with their calls and their rows.
LEMMA TerminarPares ==
  ASSUME NEW t \in Tareas, TypeOK, TareasPares, Terminar(t)
  PROVE  TareasPares'
<1> SUFFICES ASSUME NEW u \in Tareas PROVE LlamadaLegal(u)' /\ VistoPar(u)'
  BY DEF TareasPares
<1>1. CASE u = t BY <1>1 DEF Terminar, TypeOK, LlamadaLegal, VistoPar
<1>2. CASE u # t
  <2>1. paso'[u] = paso[u] /\ llamada'[u] = llamada[u] /\ visto'[u] = visto[u]
    BY <1>2 DEF Terminar, TypeOK
  <2> QED BY <2>1 DEF TareasPares, LlamadaLegal, VistoPar, CargoDe
<1> QED BY <1>1, <1>2

\* So does one that moves on to its next charge, which is one of its call.
LEMMA SiguienteCargoPares ==
  ASSUME NEW t \in Tareas, TypeOK, TareasPares, paso[t] # "libre", SiguienteCargo(t)
  PROVE  TareasPares'
<1>1. CASE Tail(llamada[t].cargos) = <<>> BY <1>1, TerminarPares DEF SiguienteCargo
<1>2. CASE Tail(llamada[t].cargos) # <<>>
  <2> SUFFICES ASSUME NEW u \in Tareas PROVE LlamadaLegal(u)' /\ VistoPar(u)'
    BY DEF TareasPares
  <2>1. CASE u = t
    <3>1. paso'[t] = "leer" BY <1>2 DEF SiguienteCargo, TypeOK
    <3>2. llamada[t] \in Llamada /\ llamada[t].cargos \in Seq(Cargo) /\ llamada[t].cargos # <<>>
      BY DEF TypeOK, Llamada
    <3>3. llamada'[t] = [llamada[t] EXCEPT !.cargos = Tail(llamada[t].cargos)]
      BY <1>2 DEF SiguienteCargo, TypeOK
    <3>4. /\ llamada'[t].evento = llamada[t].evento
          /\ llamada'[t].cargos = Tail(llamada[t].cargos)
      BY <3>2, <3>3 DEF Llamada
    <3>5. \A i \in DOMAIN Tail(llamada[t].cargos) :
            /\ i + 1 \in DOMAIN llamada[t].cargos
            /\ Tail(llamada[t].cargos)[i] = llamada[t].cargos[i + 1]
      BY <3>2
    <3> QED BY <2>1, <3>1, <3>4, <3>5 DEF TareasPares, LlamadaLegal, VistoPar
  <2>2. CASE u # t
    <3>1. paso'[u] = paso[u] /\ llamada'[u] = llamada[u] /\ visto'[u] = visto[u]
      BY <1>2, <2>2 DEF SiguienteCargo, TypeOK
    <3> QED BY <3>1 DEF TareasPares, LlamadaLegal, VistoPar, CargoDe
  <2> QED BY <2>1, <2>2
<1> QED BY <1>1, <1>2

\* Reading a row whose pairs add up.
LEMMA TrasLeerPares ==
  ASSUME NEW t \in Tareas, TypeOK, TareasPares, paso[t] # "libre", NEW s, NEW f,
         FondoSeguro(CargoDe(t).fondo) => Par(f, Techo[CargoDe(t).fondo]) /\ Enteros(f),
         TrasLeer(t, s, f)
  PROVE  TareasPares'
<1>1. CASE Columnas(t) = {} BY <1>1, SiguienteCargoPares DEF TrasLeer
<1>2. CASE Columnas(t) # {}
  <2> SUFFICES ASSUME NEW u \in Tareas PROVE LlamadaLegal(u)' /\ VistoPar(u)'
    BY DEF TareasPares
  <2>1. llamada' = llamada BY <1>2 DEF TrasLeer
  <2>2. CASE u = t
    <3>1. paso'[t] = "escribirContrato" /\ visto'[t].fondo = f
      BY <1>2 DEF TrasLeer, TypeOK
    <3> QED BY <2>1, <2>2, <3>1 DEF TareasPares, LlamadaLegal, VistoPar, CargoDe
  <2>3. CASE u # t
    <3>1. paso'[u] = paso[u] /\ visto'[u] = visto[u] BY <1>2, <2>3 DEF TrasLeer, TypeOK
    <3> QED BY <2>1, <3>1 DEF TareasPares, LlamadaLegal, VistoPar, CargoDe
  <2> QED BY <2>2, <2>3
<1> QED BY <1>1, <1>2

\* However the handlers of a contract interleave, are lost or stop half way,
\* available + active and executed + paid of a fund keep their sums, for any
\* funds, services, activations and calls (contratos.service.ts 614-677).
THEOREM ParesSiempre == Spec => []ParesConservados
<1>1. Init => ParesInv
  <2> SUFFICES ASSUME Init, MontosEnCentavos PROVE TareasPares /\ \A f \in Fondos : FondoPar(f)
    BY DEF ParesInv, TareasPares
  <2>1. TareasPares BY DEF Init, TareasPares, LlamadaLegal, VistoPar
  <2>2. ASSUME NEW f \in Fondos PROVE FondoPar(f)
    <3>1. fondo[f] = [c \in FundColumns |-> IF c = "montoDisponible" THEN Techo[f] ELSE 0]
      BY DEF Init, FilaFondoCero
    <3>2. Techo[f] \in Int /\ EsCentavo(Techo[f]) /\ EsCentavo(0)
      BY FondosAssumption, CentavoAssumption DEF MontosEnCentavos, EsCentavo
    <3> QED BY <3>1, <3>2 DEF FondoPar, Par, Enteros, FundColumns, ServiceColumns
  <2> QED BY <2>1, <2>2
<1>2. TypeOK /\ ParesInv /\ [Next]_vars => ParesInv'
  <2> SUFFICES ASSUME TypeOK, ParesInv, [Next]_vars, MontosEnCentavos
               PROVE  TareasPares' /\ \A f \in Fondos : FondoSeguro(f) => FondoPar(f)'
    BY DEF ParesInv, TareasPares, MontosEnCentavos, FondoSeguro, EsCentavo
  <2> USE DEF TareasPares
  <2>0. TareasPares /\ \A f \in Fondos : FondoSeguro(f) => FondoPar(f) BY DEF ParesInv
  <2>1. ASSUME NEW t \in Tareas, NEW ll \in Llamadas, Iniciar(t, ll)
        PROVE  TareasPares' /\ \A f \in Fondos : FondoSeguro(f) => FondoPar(f)'
    <3>1. ASSUME NEW u \in Tareas PROVE LlamadaLegal(u)' /\ VistoPar(u)'
      <4>1. CASE u = t
        BY <2>1, <4>1 DEF Iniciar, Arrancar, TypeOK, LlamadaLegal, VistoPar, MontosEnCentavos
      <4>2. CASE u # t
        <5>1. paso'[u] = paso[u] /\ llamada'[u] = llamada[u] /\ visto'[u] = visto[u]
          BY <2>1, <4>2 DEF Iniciar, Arrancar, TypeOK
        <5> QED BY <2>0, <5>1 DEF LlamadaLegal, VistoPar, CargoDe
      <4> QED BY <4>1, <4>2
    <3> QED BY <2>0, <2>1, <3>1 DEF Iniciar, Arrancar, FondoPar
  <2>2. ASSUME NEW t \in Tareas, LeerMaestro(t)
        PROVE  TareasPares' /\ \A f \in Fondos : FondoSeguro(f) => FondoPar(f)'
    <3>1. FondoSeguro(CargoDe(t).fondo) =>
            Par(fondo[Maestro], Techo[CargoDe(t).fondo]) /\ Enteros(fondo[Maestro])
      BY <2>0, <2>2, FondosAssumption DEF LeerMaestro, FondoPar
    <3>2. TareasPares' BY <2>0, <2>2, <3>1, TrasLeerPares DEF LeerMaestro
    <3> QED BY <2>0, <2>2, <3>2 DEF LeerMaestro, FondoPar
  <2>3. ASSUME NEW t \in Tareas, LeerContratos(t)
        PROVE  TareasPares' /\ \A f \in Fondos : FondoSeguro(f) => FondoPar(f)'
    <3>1. ASSUME NEW u \in Tareas PROVE LlamadaLegal(u)' /\ VistoPar(u)'
      <4>1. CASE u = t
        BY <2>0, <2>3, <4>1 DEF LeerContratos, TypeOK, LlamadaLegal, VistoPar
      <4>2. CASE u # t
        <5>1. paso'[u] = paso[u] /\ llamada'[u] = llamada[u] /\ visto'[u] = visto[u]
          BY <2>3, <4>2 DEF LeerContratos, TypeOK
        <5> QED BY <2>0, <5>1 DEF LlamadaLegal, VistoPar, CargoDe
      <4> QED BY <4>1, <4>2
    <3> QED BY <2>0, <2>3, <3>1 DEF LeerContratos, FondoPar
  <2>4. ASSUME NEW t \in Tareas, LeerModificatorio(t)
        PROVE  TareasPares' /\ \A f \in Fondos : FondoSeguro(f) => FondoPar(f)'
    <3>1. CargoDe(t).fondo \in Fondos BY <2>4, CargoTipo DEF LeerModificatorio
    <3>2. FondoSeguro(CargoDe(t).fondo) =>
            /\ Par(fondo[CargoDe(t).fondo], Techo[CargoDe(t).fondo])
            /\ Enteros(fondo[CargoDe(t).fondo])
      BY <2>0, <3>1 DEF FondoPar
    <3>3. TareasPares' BY <2>0, <2>4, <3>2, TrasLeerPares DEF LeerModificatorio
    <3> QED BY <2>0, <2>4, <3>3 DEF LeerModificatorio, FondoPar
  <2>5. ASSUME NEW t \in Tareas, EscribirContrato(t)
        PROVE  TareasPares' /\ \A f \in Fondos : FondoSeguro(f) => FondoPar(f)'
    <3>1. ASSUME NEW u \in Tareas PROVE LlamadaLegal(u)' /\ VistoPar(u)'
      <4>1. llamada' = llamada /\ visto' = visto BY <2>5 DEF EscribirContrato
      <4>2. CASE u = t
        BY <2>0, <2>5, <4>1, <4>2 DEF EscribirContrato, TypeOK, LlamadaLegal, VistoPar, CargoDe
      <4>3. CASE u # t
        <5>1. paso'[u] = paso[u] BY <2>5, <4>3 DEF EscribirContrato, TypeOK
        <5> QED BY <2>0, <4>1, <5>1 DEF LlamadaLegal, VistoPar, CargoDe
      <4> QED BY <4>2, <4>3
    <3> QED BY <2>0, <2>5, <3>1 DEF EscribirContrato, FondoPar
  <2>6. ASSUME NEW t \in Tareas, EscribirFondo(t)
        PROVE  TareasPares' /\ \A f \in Fondos : FondoSeguro(f) => FondoPar(f)'
    <3> DEFINE g == CargoDe(t).fondo
               m == CargoDe(t).monto
               e == llamada[t].evento
               nueva == escribir(fondo[g], handlerAmounts(e, visto[t].fondo, m), Escribe(g, e))
    <3>1. paso[t] = "escribirFondo" BY <2>6 DEF EscribirFondo
    <3>2. g \in Fondos /\ m \in Int /\ e \in Eventos /\ Techo[g] \in Int
      BY <2>0, <3>1, CargoTipo, FondosAssumption DEF LlamadaLegal
    <3>3. EsCentavo(m)
      <4>1. llamada[t].cargos \in Seq(Cargo) /\ llamada[t].cargos # <<>>
        BY <3>1 DEF TypeOK, Llamada
      <4>2. 1 \in DOMAIN llamada[t].cargos /\ CargoDe(t) = llamada[t].cargos[1]
        BY <4>1 DEF CargoDe
      <4> QED BY <2>0, <3>1, <4>2 DEF LlamadaLegal
    <3>4. fondo' = [fondo EXCEPT ![g] = nueva] BY <2>6 DEF EscribirFondo, Columnas
    <3>5. ASSUME FondoSeguro(g) PROVE Par(nueva, Techo[g]) /\ Enteros(nueva)
      <4>1. /\ Par(fondo[g], Techo[g]) /\ Enteros(fondo[g])
            /\ Par(visto[t].fondo, Techo[g]) /\ Enteros(visto[t].fondo)
        BY <2>0, <3>1, <3>2, <3>5 DEF FondoPar, VistoPar
      <4>2. fondo[g] \in FundRow /\ visto[t].fondo \in FundRow BY <3>2 DEF TypeOK
      <4> HIDE DEF g, m, e
      <4> QED BY <3>2, <3>3, <3>5, <4>1, <4>2, EscrituraDePar
    <3>6. TareasPares' BY <2>0, <2>6, <3>1, SiguienteCargoPares DEF EscribirFondo
    <3>7. ASSUME NEW f \in Fondos, FondoSeguro(f) PROVE FondoPar(f)'
      <4> HIDE DEF nueva, g
      <4>1. CASE f = g
        <5>1. fondo'[f] = nueva BY <3>2, <3>4, <4>1 DEF TypeOK
        <5> QED BY <3>5, <3>7, <4>1, <5>1 DEF FondoPar
      <4>2. CASE f # g
        <5>1. fondo'[f] = fondo[f] BY <3>4, <4>2 DEF TypeOK
        <5> QED BY <2>0, <3>7, <5>1 DEF FondoPar
      <4> QED BY <4>1, <4>2
    <3> QED BY <3>6, <3>7
  <2>7. ASSUME NEW t \in Tareas, Fallar(t)
        PROVE  TareasPares' /\ \A f \in Fondos : FondoSeguro(f) => FondoPar(f)'
    <3>1. TareasPares' BY <2>0, <2>7, TerminarPares DEF Fallar
    <3> QED BY <2>0, <2>7, <3>1 DEF Fallar, FondoPar
  <2>8. ASSUME NEW g \in Fondos, NEW v \in Reservas, Comprometer(g, v)
        PROVE  TareasPares' /\ \A f \in Fondos : FondoSeguro(f) => FondoPar(f)'
    <3>1. TareasPares'
      BY <2>0, <2>8 DEF Comprometer, EscribirComprometido, LlamadaLegal, VistoPar, CargoDe
    <3>2. ASSUME NEW f \in Fondos, FondoSeguro(f) PROVE FondoPar(f)'
      <4>1. \A c \in FundColumns \ {"committedAmount"} : fondo'[f][c] = fondo[f][c]
        BY <2>8 DEF Comprometer, EscribirComprometido, TypeOK, FundRow
      <4> QED BY <2>0, <3>2, <4>1 DEF FondoPar, Par, Enteros, FundColumns, ServiceColumns
    <3> QED BY <3>1, <3>2
  <2>9. ASSUME Caer
        PROVE  TareasPares' /\ \A f \in Fondos : FondoSeguro(f) => FondoPar(f)'
    BY <2>0, <2>9 DEF Caer, PerderActivaciones, LlamadaLegal, VistoPar, FondoPar
  <2>10. CASE UNCHANGED vars
    BY <2>0, <2>10 DEF vars, LlamadaLegal, VistoPar, CargoDe, FondoPar
  <2> QED BY <2>1, <2>2, <2>3, <2>4, <2>5, <2>6, <2>7, <2>8, <2>9, <2>10 DEF Next, Avanzar
<1>3. ParesInv => ParesConservados BY DEF ParesInv, ParesConservados, FondoPar, Par
<1> QED BY <1>1, <1>2, <1>3, TipoCorrecto, PTL DEF Spec

----
(* What a list of charges takes from a fund. *)

\* It is an integer.
LEMMA ImporteEntero ==
  ASSUME NEW cs \in Seq(Cargo), NEW f
  PROVE  ImporteA(cs, f) \in Int
<1> DEFINE m == [i \in DOMAIN cs |-> cs[i].monto]
           I == {i \in DOMAIN cs : cs[i].fondo = f}
<1>1. IsFiniteSet(I)
  <2>1. IsFiniteSet(1..Len(cs)) /\ I \subseteq 1..Len(cs) BY FS_Interval
  <2> QED BY <2>1, FS_Subset
<1>2. \A i \in I : m[i] \in Int
  <2>1. \A i \in DOMAIN cs : cs[i] \in Cargo OBVIOUS
  <2> QED BY <2>1 DEF Cargo
<1>3. ImporteA(cs, f) = SumFunctionOnSet(m, I) BY DEF ImporteA
<1> HIDE DEF m, I
<1> QED BY <1>1, <1>2, <1>3, SumaEntera

\* No charges, nothing.
LEMMA ImporteNulo == ASSUME NEW f PROVE ImporteA(<<>>, f) = 0
<1>1. {i \in DOMAIN <<>> : (<<>>)[i].fondo = f} = {} OBVIOUS
<1> QED BY <1>1, SumaVacia DEF ImporteA

\* The first charge and the rest.
LEMMA ImporteDeCola ==
  ASSUME NEW cs \in Seq(Cargo), cs # <<>>, NEW f
  PROVE  ImporteA(cs, f) = (IF Head(cs).fondo = f THEN Head(cs).monto ELSE 0)
                             + ImporteA(Tail(cs), f)
<1> DEFINE resto == Tail(cs)
           m == [i \in DOMAIN cs |-> cs[i].monto]
           I == {i \in DOMAIN cs : cs[i].fondo = f}
           mr == [i \in DOMAIN resto |-> resto[i].monto]
           R == {i \in DOMAIN resto : resto[i].fondo = f}
           b == [i \in R |-> i + 1]
<1>1. /\ resto \in Seq(Cargo) /\ Len(resto) = Len(cs) - 1 /\ Len(cs) \in Nat \ {0}
      /\ \A i \in 1..Len(resto) : resto[i] = cs[i + 1]
      /\ Head(cs) = cs[1] /\ DOMAIN cs = 1..Len(cs) /\ DOMAIN resto = 1..Len(resto)
  OBVIOUS
<1>2. \A i \in DOMAIN cs : cs[i] \in Cargo /\ cs[i].monto \in Int
  <2>1. \A i \in DOMAIN cs : cs[i] \in Cargo OBVIOUS
  <2> QED BY <2>1 DEF Cargo
<1> HIDE DEF resto
<1>3. IsFiniteSet(I) /\ IsFiniteSet(R)
  <2>1. IsFiniteSet(1..Len(cs)) /\ I \subseteq 1..Len(cs) BY FS_Interval
  <2>2. IsFiniteSet(1..Len(resto)) /\ R \subseteq 1..Len(resto) BY <1>1, FS_Interval
  <2> QED BY <2>1, <2>2, FS_Subset
<1>4. {b[i] : i \in R} = I \ {1}
  <2>1. ASSUME NEW i \in R PROVE b[i] \in I \ {1} BY <1>1
  <2>2. ASSUME NEW j \in I \ {1} PROVE \E i \in R : b[i] = j
    <3>1. j - 1 \in R /\ b[j - 1] = j BY <1>1
    <3> QED BY <3>1
  <2> HIDE DEF I, R, b
  <2> QED BY <2>1, <2>2
<1>5. \A i \in R : mr[i] = m[b[i]] /\ mr[i] \in Int BY <1>1, <1>2
<1>6. \A i, j \in R : b[i] = b[j] => i = j BY <1>1
<1>7. SumFunctionOnSet(mr, R) = SumFunctionOnSet(m, I \ {1})
  <2> HIDE DEF m, mr, I, R, b
  <2> QED BY <1>3, <1>4, <1>5, <1>6, SumaReindexada
<1>8. ImporteA(cs, f) = SumFunctionOnSet(m, I) /\ ImporteA(resto, f) = SumFunctionOnSet(mr, R)
  BY DEF ImporteA
<1>9. \A i \in I : m[i] \in Int BY <1>2
<1>10. CASE 1 \in I
  <2>1. SumFunctionOnSet(m, I) = m[1] + SumFunctionOnSet(m, I \ {1})
    <3> HIDE DEF m, I
    <3> QED BY <1>3, <1>9, <1>10, SumaDeUno
  <2>2. m[1] = Head(cs).monto /\ Head(cs).fondo = f BY <1>1, <1>10
  <2> HIDE DEF I, m, R, mr
  <2> QED BY <1>7, <1>8, <2>1, <2>2 DEF resto
<1>11. CASE 1 \notin I
  <2>1. I \ {1} = I /\ Head(cs).fondo # f BY <1>1, <1>11
  <2>2. ImporteA(resto, f) \in Int BY <1>1, ImporteEntero
  <2> HIDE DEF I, m, R, mr
  <2>3. ImporteA(cs, f) = ImporteA(resto, f) BY <1>7, <1>8, <2>1
  <2>4. ImporteA(cs, f) = 0 + ImporteA(resto, f) BY <2>2, <2>3
  <2> QED BY <2>1, <2>4 DEF resto
<1> QED BY <1>10, <1>11

----
(* One activation at work. *)

\* What an activation still has to charge to a fund.
Pendiente(t, f) == IF paso[t] = "libre" THEN 0 ELSE ImporteA(llamada[t].cargos, f)

\* At its writes an activation holds the row of the fund as it is.
LeidoAlDia(t) ==
  paso[t] \in {"escribirContrato", "escribirFondo"} => visto[t].fondo = fondo[CargoDe(t).fondo]

\* It is an integer.
LEMMA PendienteEntero ==
  ASSUME TypeOK, NEW t \in Tareas, NEW f
  PROVE  Pendiente(t, f) \in Int
<1>1. CASE paso[t] = "libre" BY <1>1 DEF Pendiente
<1>2. CASE paso[t] # "libre"
  <2>1. llamada[t].cargos \in Seq(Cargo) BY <1>2, CargoTipo
  <2> QED BY <1>2, <2>1, ImporteEntero DEF Pendiente
<1> QED BY <1>1, <1>2

\* A charge is done: it is no longer to be made, and the next one is read anew.
LEMMA PendienteBaja ==
  ASSUME TypeOK, NEW t \in Tareas, paso[t] # "libre", SiguienteCargo(t)
  PROVE  /\ paso'[t] \in {"libre", "leer"}
         /\ paso'[t] # "libre" => llamada'[t].evento = llamada[t].evento
         /\ \A f : Pendiente(t, f) = (IF CargoDe(t).fondo = f THEN CargoDe(t).monto ELSE 0)
                                       + Pendiente(t, f)'
<1>1. PICK cs \in Seq(Cargo) : cs = llamada[t].cargos /\ cs # <<>> BY CargoTipo
<1>2. PICK ll \in Llamada : ll = llamada[t] BY CargoTipo
<1>3. \A f : Pendiente(t, f) = (IF CargoDe(t).fondo = f THEN CargoDe(t).monto ELSE 0)
                                 + ImporteA(Tail(cs), f)
  BY <1>1, ImporteDeCola DEF Pendiente, CargoDe
<1>4. CASE Tail(cs) = <<>>
  <2>1. paso'[t] = "libre" BY <1>1, <1>4 DEF SiguienteCargo, Terminar, TypeOK
  <2>2. \A f : ImporteA(Tail(cs), f) = 0 BY <1>4, ImporteNulo
  <2> QED BY <1>3, <2>1, <2>2 DEF Pendiente
<1>5. CASE Tail(cs) # <<>>
  <2> DEFINE l2 == [ll EXCEPT !.cargos = Tail(cs)]
  <2>1. paso' = [paso EXCEPT ![t] = "leer"] /\ llamada' = [llamada EXCEPT ![t] = l2]
    BY <1>1, <1>2, <1>5 DEF SiguienteCargo, TypeOK
  <2>2. l2.cargos = Tail(cs) /\ l2.evento = ll.evento BY DEF Llamada
  <2> HIDE DEF l2
  <2>3. paso'[t] = "leer" /\ llamada'[t] = l2 BY <2>1 DEF TypeOK
  <2> QED BY <1>2, <1>3, <2>2, <2>3 DEF Pendiente
<1> QED BY <1>4, <1>5

\* Going on to the next charge touches no other activation.
LEMMA SiguienteCargoSolo ==
  ASSUME TypeOK, NEW t \in Tareas, SiguienteCargo(t)
  PROVE  \A u \in Tareas \ {t} :
           paso'[u] = paso[u] /\ llamada'[u] = llamada[u] /\ visto'[u] = visto[u]
<1>1. CASE Tail(llamada[t].cargos) = <<>> BY <1>1 DEF SiguienteCargo, Terminar, TypeOK
<1>2. CASE Tail(llamada[t].cargos) # <<>> BY <1>2 DEF SiguienteCargo, TypeOK
<1> QED BY <1>1, <1>2

\* A step of an activation that reads, or writes the row of the service.
LEMMA AvanzarSinEscribir ==
  ASSUME TypeOK, NEW t \in Tareas, Avanzar(t), ~EscribirFondo(t), LeidoAlDia(t)
  PROVE  /\ paso[t] # "libre" /\ UNCHANGED fondo
         /\ \A u \in Tareas \ {t} :
              paso'[u] = paso[u] /\ llamada'[u] = llamada[u] /\ visto'[u] = visto[u]
         /\ LeidoAlDia(t)'
         /\ \/ Columnas(t) = {} /\ SiguienteCargo(t)
            \/ paso'[t] # "libre" /\ llamada'[t] = llamada[t]
<1>1. ASSUME NEW s, NEW f, f = fondo[CargoDe(t).fondo], TrasLeer(t, s, f), UNCHANGED fondo,
             paso[t] # "libre"
      PROVE  /\ \A u \in Tareas \ {t} :
                  paso'[u] = paso[u] /\ llamada'[u] = llamada[u] /\ visto'[u] = visto[u]
             /\ LeidoAlDia(t)'
             /\ \/ Columnas(t) = {} /\ SiguienteCargo(t)
                \/ paso'[t] # "libre" /\ llamada'[t] = llamada[t]
  <2>1. CASE Columnas(t) = {}
    <3>1. SiguienteCargo(t) BY <1>1, <2>1 DEF TrasLeer
    <3>2. paso'[t] \in {"libre", "leer"} BY <1>1, <3>1, PendienteBaja
    <3> QED BY <2>1, <3>1, <3>2, SiguienteCargoSolo DEF LeidoAlDia
  <2>2. CASE Columnas(t) # {}
    <3> DEFINE v == [servicio |-> s, fondo |-> f]
    <3>1. /\ paso' = [paso EXCEPT ![t] = "escribirContrato"] /\ UNCHANGED llamada
          /\ visto' = [visto EXCEPT ![t] = v]
      BY <1>1, <2>2 DEF TrasLeer
    <3>2. v.fondo = f OBVIOUS
    <3> HIDE DEF v
    <3>3. /\ paso'[t] = "escribirContrato" /\ visto'[t] = v /\ llamada'[t] = llamada[t]
          /\ \A u \in Tareas \ {t} :
               paso'[u] = paso[u] /\ llamada'[u] = llamada[u] /\ visto'[u] = visto[u]
      BY <3>1 DEF TypeOK
    <3>4. CargoDe(t)' = CargoDe(t) BY <3>1 DEF CargoDe
    <3> QED BY <1>1, <3>2, <3>3, <3>4 DEF LeidoAlDia
  <2> QED BY <2>1, <2>2
<1>2. CASE LeerMaestro(t) BY <1>1, <1>2 DEF LeerMaestro
<1>3. CASE LeerContratos(t)
  <2>1. /\ paso[t] = "leer" /\ paso' = [paso EXCEPT ![t] = "leerModificatorio"]
        /\ UNCHANGED <<fondo, llamada>>
        /\ visto' = [visto EXCEPT ![t].servicio = contrato[llamada[t].servicio]]
    BY <1>3 DEF LeerContratos
  <2>2. /\ paso'[t] = "leerModificatorio"
        /\ \A u \in Tareas \ {t} : paso'[u] = paso[u] /\ visto'[u] = visto[u]
    BY <2>1 DEF TypeOK
  <2> QED BY <2>1, <2>2 DEF LeidoAlDia
<1>4. CASE LeerModificatorio(t) BY <1>1, <1>4 DEF LeerModificatorio
<1>5. CASE EscribirContrato(t)
  <2>1. /\ paso[t] = "escribirContrato" /\ paso' = [paso EXCEPT ![t] = "escribirFondo"]
        /\ UNCHANGED <<fondo, llamada, visto>>
    BY <1>5 DEF EscribirContrato
  <2>2. paso'[t] = "escribirFondo" /\ \A u \in Tareas \ {t} : paso'[u] = paso[u]
    BY <2>1 DEF TypeOK
  <2>3. CargoDe(t)' = CargoDe(t) BY <2>1 DEF CargoDe
  <2> QED BY <2>1, <2>2, <2>3 DEF LeidoAlDia
<1> QED BY <1>2, <1>3, <1>4, <1>5 DEF Avanzar

\* What is left to be charged is an integer before and after a step.
LEMMA PendienteEnteros ==
  ASSUME TypeOK, TypeOK', NEW t \in Tareas, NEW f
  PROVE  Pendiente(t, f) \in Int /\ Pendiente(t, f)' \in Int
<1>1. CASE paso'[t] = "libre" BY <1>1, PendienteEntero DEF Pendiente
<1>2. CASE paso'[t] # "libre"
  <2>1. PICK cs \in Seq(Cargo) : cs = llamada'[t].cargos BY <1>2 DEF TypeOK, Llamada
  <2> QED BY <1>2, <2>1, PendienteEntero, ImporteEntero DEF Pendiente
<1> QED BY <1>1, <1>2

\* What a step of an activation that is up to date does, in whole cents: the
\* columns of its event move by what is no longer to be charged.
LEMMA AvanzarAlDia ==
  ASSUME Centavo = 1, TypeOK, NEW t \in Tareas, Avanzar(t), LeidoAlDia(t), Columnas(t) # {}
  PROVE  \A f \in Fondos, c \in FundColumns \ {"committedAmount"} :
           LET d == Pendiente(t, f) - Pendiente(t, f)'
           IN  fondo'[f][c] = IF c \notin Columnas(t) THEN fondo[f][c]
                              ELSE IF c \in Suma[llamada[t].evento] THEN fondo[f][c] + d
                              ELSE IF c \in Resta[llamada[t].evento] THEN fondo[f][c] - d
                              ELSE fondo[f][c]
<1>1. \A f \in Fondos : fondo[f] \in FundRow BY DEF TypeOK
<1>2. \A f \in Fondos, c \in FundColumns \ {"committedAmount"} : fondo[f][c] \in Int
  BY <1>1 DEF FundRow
<1>3. CASE ~EscribirFondo(t)
  <2>1. UNCHANGED fondo /\ paso[t] # "libre" /\ paso'[t] # "libre" /\ llamada'[t] = llamada[t]
    BY <1>3, AvanzarSinEscribir
  <2>2. \A f : Pendiente(t, f)' = Pendiente(t, f) /\ Pendiente(t, f) \in Int
    BY <2>1, PendienteEntero DEF Pendiente
  <2>3. \A f : Pendiente(t, f) - Pendiente(t, f)' = 0 BY <2>2
  <2> QED BY <1>2, <2>1, <2>3
<1>4. CASE EscribirFondo(t)
  <2>1. paso[t] = "escribirFondo" /\ SiguienteCargo(t) BY <1>4 DEF EscribirFondo
  <2>2. /\ CargoDe(t).fondo \in Fondos /\ CargoDe(t).monto \in Int /\ llamada[t].evento \in TYPE_EVENT
    BY <2>1, CargoTipo
  <2>3. PICK x \in Fondos, m \in Int, ev \in TYPE_EVENT :
          x = CargoDe(t).fondo /\ m = CargoDe(t).monto /\ ev = llamada[t].evento
    BY <2>2
  <2>4. PICK fila \in FundRow : fila = fondo[x] BY <1>1
  <2>5. PICK cols : cols = Columnas(t) OBVIOUS
  <2> DEFINE r == escribir(fila, handlerAmounts(ev, fila, m), cols)
  <2>6. fondo' = [fondo EXCEPT ![x] = r]
    <3>1. visto[t].fondo = fila BY <2>1, <2>3, <2>4 DEF LeidoAlDia
    <3> QED BY <1>4, <2>3, <2>4, <2>5, <3>1 DEF EscribirFondo, TypeOK
  <2>7. \A c \in FundColumns \ {"committedAmount"} :
          r[c] = IF c \notin cols THEN fila[c]
                 ELSE IF c \in Suma[ev] THEN fila[c] + m
                 ELSE IF c \in Resta[ev] THEN fila[c] - m ELSE fila[c]
    <3>1. Enteros(fila) /\ EsCentavo(m) BY <1>2, <2>4 DEF Enteros, EsCentavo
    <3> QED BY <3>1, FilaEscrita
  <2> HIDE DEF r
  <2>8. fondo'[x] = r /\ \A f \in Fondos : f # x => fondo'[f] = fondo[f]
    BY <2>6 DEF TypeOK
  <2>9. \A f \in Fondos : Pendiente(t, f) - Pendiente(t, f)' = IF f = x THEN m ELSE 0
    <3> SUFFICES ASSUME NEW f \in Fondos
                 PROVE  Pendiente(t, f) - Pendiente(t, f)' = IF f = x THEN m ELSE 0
      OBVIOUS
    <3>1. PICK a \in Int, b \in Int : a = Pendiente(t, f) /\ b = Pendiente(t, f)'
      BY AvanzarTipo, PendienteEnteros
    <3>2. a = (IF x = f THEN m ELSE 0) + b BY <2>1, <2>3, <3>1, PendienteBaja
    <3> QED BY <3>1, <3>2
  <2> QED BY <1>2, <2>3, <2>4, <2>5, <2>7, <2>8, <2>9
<1> QED BY <1>3, <1>4

\* The activations that do not move stay as they were, and the one that moves
\* is up to date with what it wrote.
LEMMA AvanzarSolo ==
  ASSUME TypeOK, NEW t \in Tareas, Avanzar(t), LeidoAlDia(t)
  PROVE  /\ paso[t] # "libre" /\ LeidoAlDia(t)'
         /\ \A u \in Tareas \ {t} :
              paso'[u] = paso[u] /\ llamada'[u] = llamada[u] /\ visto'[u] = visto[u]
         /\ paso'[t] # "libre" => llamada'[t].evento = llamada[t].evento
         /\ Columnas(t) = {} => UNCHANGED fondo
<1>1. CASE ~EscribirFondo(t) BY <1>1, AvanzarSinEscribir, PendienteBaja
<1>2. CASE EscribirFondo(t)
  <2>1. paso[t] = "escribirFondo" /\ SiguienteCargo(t) BY <1>2 DEF EscribirFondo
  <2>2. /\ paso'[t] \in {"libre", "leer"}
        /\ paso'[t] # "libre" => llamada'[t].evento = llamada[t].evento
    BY <2>1, PendienteBaja
  <2>3. Columnas(t) = {} => UNCHANGED fondo
    <3> SUFFICES ASSUME Columnas(t) = {} PROVE UNCHANGED fondo OBVIOUS
    <3>1. CargoDe(t).fondo \in Fondos BY <2>1, CargoTipo
    <3>2. PICK x \in Fondos : x = CargoDe(t).fondo BY <3>1
    <3>3. PICK fila \in FundRow : fila = fondo[x] BY DEF TypeOK
    <3>4. PICK nueva : fondo' = [fondo EXCEPT ![x] = escribir(fila, nueva, {})]
      BY <1>2, <3>2, <3>3 DEF EscribirFondo, TypeOK
    <3>5. escribir(fila, nueva, {}) = fila BY DEF escribir, FundRow
    <3> QED BY <3>3, <3>4, <3>5 DEF TypeOK
  <2> QED BY <2>1, <2>2, <2>3, SiguienteCargoSolo DEF LeidoAlDia
<1> QED BY <1>1, <1>2

\* The columns that the events of an order write.
LEMMA EscribeOrden ==
  ASSUME NEW ev \in TYPE_EVENT_ORDER, NEW f
  PROVE  Escribe(f, ev) = {"montoDisponible", "montoActivo", "committedAmount"}
<1>1. ev = "ORDER_APPROVED" \/ ev = "ORDER_CANCELLED" BY DEF TYPE_EVENT_ORDER
<1>2. CASE ev = "ORDER_APPROVED"
  <2>1. CASE f = Maestro BY <1>2, <2>1 DEF Escribe, EscribeMaestro
  <2>2. CASE f # Maestro BY <1>2, <2>2 DEF Escribe, EscribeMaestro, EscribeModificatorio
  <2> QED BY <2>1, <2>2
<1>3. CASE ev = "ORDER_CANCELLED"
  <2>1. CASE f = Maestro BY <1>3, <2>1 DEF Escribe, EscribeMaestro
  <2>2. CASE f # Maestro BY <1>3, <2>2 DEF Escribe, EscribeMaestro, EscribeModificatorio
  <2> QED BY <2>1, <2>2
<1> QED BY <1>1, <1>2, <1>3

\* What an UPDATE of the event of an order leaves in the row of a fund, computed
\* from a row read before, when there are no fractions of a cent.
LEMMA OrdenAplicada ==
  ASSUME Centavo = 1, NEW ev \in TYPE_EVENT_ORDER, NEW f, NEW fila \in FundRow,
         NEW leida \in FundRow, NEW m \in Int, NEW r,
         r = escribir(fila, handlerAmounts(ev, leida, m), Escribe(f, ev))
  PROVE  /\ r["montoActivo"] = IF ev = "ORDER_APPROVED" THEN leida["montoActivo"] + m
                               ELSE leida["montoActivo"] - m
         /\ r["montoDisponible"] = IF ev = "ORDER_APPROVED" THEN leida["montoDisponible"] - m
                                   ELSE leida["montoDisponible"] + m
         /\ leida["committedAmount"] \in Int =>
              r["committedAmount"] = IF ev = "ORDER_APPROVED" THEN leida["committedAmount"] - m
                                     ELSE leida["committedAmount"]
<1>1. ev \in TYPE_EVENT /\ (ev = "ORDER_APPROVED" \/ ev = "ORDER_CANCELLED")
  BY DEF TYPE_EVENT, TYPE_EVENT_ORDER
<1>2. Escribe(f, ev) = {"montoDisponible", "montoActivo", "committedAmount"}
  BY EscribeOrden
<1>3. ASSUME NEW c \in {"montoDisponible", "montoActivo", "committedAmount"}
      PROVE  r[c] = NuevoMonto(ev, c, leida[c], m)
  BY <1>2 DEF escribir, handlerAmounts, FundRow, FundColumns, ServiceColumns
<1>4. \A x \in Int : EsCentavo(x) BY DEF EsCentavo
<1>5. ASSUME NEW c \in {"montoDisponible", "montoActivo", "committedAmount"}, leida[c] \in Int
      PROVE  r[c] = IF c \in Suma[ev] THEN leida[c] + m
                    ELSE IF c \in Resta[ev] THEN leida[c] - m ELSE leida[c]
  BY <1>1, <1>3, <1>4, <1>5, NuevoMontoEntero
<1>6. leida["montoActivo"] \in Int /\ leida["montoDisponible"] \in Int
  BY DEF FundRow, FundColumns, ServiceColumns
<1>7. CASE ev = "ORDER_APPROVED"
  <2>1. Suma[ev] = {"montoActivo"} /\ Resta[ev] = {"montoDisponible", "committedAmount"}
    BY <1>7 DEF Suma, Resta
  <2> QED BY <1>2, <1>5, <1>6, <1>7, <2>1
<1>8. CASE ev = "ORDER_CANCELLED"
  <2>1. Suma[ev] = {"montoDisponible"} /\ Resta[ev] = {"montoActivo"}
    BY <1>8 DEF Suma, Resta
  <2> QED BY <1>2, <1>5, <1>6, <1>8, <2>1
<1> QED BY <1>1, <1>7, <1>8

\* What a step of an activation of an order that is up to date does, in whole
\* cents: what is no longer to be charged has been moved.
LEMMA AvanzarOrden ==
  ASSUME Centavo = 1, TypeOK, NEW t \in Tareas, Avanzar(t), LeidoAlDia(t),
         llamada[t].evento \in TYPE_EVENT_ORDER,
         \A f \in Fondos : fondo[f]["committedAmount"] \in Int
  PROVE  \A f \in Fondos :
           LET d == Pendiente(t, f) - Pendiente(t, f)'
               aprueba == llamada[t].evento = "ORDER_APPROVED"
           IN  /\ fondo'[f]["committedAmount"] =
                    IF aprueba THEN fondo[f]["committedAmount"] - d ELSE fondo[f]["committedAmount"]
               /\ fondo'[f]["montoActivo"] =
                    IF aprueba THEN fondo[f]["montoActivo"] + d ELSE fondo[f]["montoActivo"] - d
               /\ fondo'[f]["montoDisponible"] =
                    IF aprueba THEN fondo[f]["montoDisponible"] - d ELSE fondo[f]["montoDisponible"] + d
<1>1. PICK ev \in TYPE_EVENT_ORDER : ev = llamada[t].evento OBVIOUS
<1>2. \A f \in Fondos : /\ fondo[f] \in FundRow /\ fondo[f]["committedAmount"] \in Int
                        /\ fondo[f]["montoActivo"] \in Int /\ fondo[f]["montoDisponible"] \in Int
  BY DEF TypeOK, FundRow, FundColumns, ServiceColumns
<1>3. CASE ~EscribirFondo(t)
  <2>1. Columnas(t) # {} BY EscribeOrden DEF Columnas
  <2>2. UNCHANGED fondo /\ paso[t] # "libre" /\ paso'[t] # "libre" /\ llamada'[t] = llamada[t]
    BY <1>3, <2>1, AvanzarSinEscribir
  <2>3. \A f : Pendiente(t, f)' = Pendiente(t, f) /\ Pendiente(t, f) \in Int
    BY <2>2, PendienteEntero DEF Pendiente
  <2>4. \A f : Pendiente(t, f) - Pendiente(t, f)' = 0 BY <2>3
  <2> QED BY <1>2, <2>2, <2>4
<1>4. CASE EscribirFondo(t)
  <2>1. paso[t] = "escribirFondo" /\ SiguienteCargo(t) BY <1>4 DEF EscribirFondo
  <2>2. PICK x \in Fondos, m \in Int : x = CargoDe(t).fondo /\ m = CargoDe(t).monto
    BY <2>1, CargoTipo
  <2>3. PICK fila \in FundRow : fila = fondo[x] BY <1>2
  <2> DEFINE r == escribir(fila, handlerAmounts(ev, fila, m), Escribe(x, ev))
  <2>4. fondo' = [fondo EXCEPT ![x] = r]
    <3>1. visto[t].fondo = fila BY <2>1, <2>2, <2>3 DEF LeidoAlDia
    <3> QED BY <1>1, <1>4, <2>2, <2>3, <3>1 DEF EscribirFondo, Columnas, TypeOK
  <2>5. /\ r["montoActivo"] = IF ev = "ORDER_APPROVED" THEN fila["montoActivo"] + m
                              ELSE fila["montoActivo"] - m
        /\ r["montoDisponible"] = IF ev = "ORDER_APPROVED" THEN fila["montoDisponible"] - m
                                  ELSE fila["montoDisponible"] + m
        /\ fila["committedAmount"] \in Int =>
             r["committedAmount"] = IF ev = "ORDER_APPROVED" THEN fila["committedAmount"] - m
                                    ELSE fila["committedAmount"]
    BY OrdenAplicada
  <2> HIDE DEF r
  <2>6. fondo'[x] = r /\ \A f \in Fondos : f # x => fondo'[f] = fondo[f]
    BY <2>4 DEF TypeOK
  <2>7. \A f \in Fondos : Pendiente(t, f) - Pendiente(t, f)' = IF f = x THEN m ELSE 0
    <3> SUFFICES ASSUME NEW f \in Fondos
                 PROVE  Pendiente(t, f) - Pendiente(t, f)' = IF f = x THEN m ELSE 0
      OBVIOUS
    <3>1. PICK a \in Int, b \in Int : a = Pendiente(t, f) /\ b = Pendiente(t, f)'
      BY AvanzarTipo, PendienteEnteros
    <3>2. a = (IF x = f THEN m ELSE 0) + b BY <2>1, <2>2, <3>1, PendienteBaja
    <3> QED BY <3>1, <3>2
  <2> QED BY <1>1, <1>2, <2>2, <2>3, <2>5, <2>6, <2>7
<1> QED BY <1>3, <1>4

\* When no charge is negative, what is no longer to be charged is not either.
LEMMA AvanzarNatural ==
  ASSUME TypeOK, NEW t \in Tareas, Avanzar(t), LeidoAlDia(t),
         \A i \in DOMAIN llamada[t].cargos : llamada[t].cargos[i].monto \in Nat
  PROVE  /\ \A f : Pendiente(t, f) - Pendiente(t, f)' \in Nat
         /\ paso'[t] # "libre" =>
              \A i \in DOMAIN llamada'[t].cargos : llamada'[t].cargos[i].monto \in Nat
<1>0. paso[t] # "libre" BY AvanzarSolo
<1>1. PICK cs \in Seq(Cargo) : cs = llamada[t].cargos /\ cs # <<>> BY <1>0, CargoTipo
<1>2. \A i \in DOMAIN cs : cs[i].monto \in Nat BY <1>1
<1>3. CASE paso'[t] # "libre" /\ llamada'[t] = llamada[t]
  <2>1. \A f : Pendiente(t, f)' = Pendiente(t, f) /\ Pendiente(t, f) \in Int
    BY <1>0, <1>3, PendienteEntero DEF Pendiente
  <2>2. \A f : Pendiente(t, f) - Pendiente(t, f)' = 0 BY <2>1
  <2> QED BY <1>3, <2>2
<1>4. CASE SiguienteCargo(t)
  <2>1. Head(cs).monto \in Nat /\ Head(cs) = CargoDe(t)
    <3>1. Head(cs) = cs[1] /\ 1 \in DOMAIN cs BY <1>1
    <3> QED BY <1>1, <1>2, <3>1 DEF CargoDe
  <2>2. ASSUME NEW f PROVE Pendiente(t, f) - Pendiente(t, f)' \in Nat
    <3>1. PICK a \in Int, b \in Int : a = Pendiente(t, f) /\ b = Pendiente(t, f)'
      BY AvanzarTipo, PendienteEnteros
    <3>2. a = (IF CargoDe(t).fondo = f THEN CargoDe(t).monto ELSE 0) + b
      BY <1>0, <1>4, <3>1, PendienteBaja
    <3> QED BY <2>1, <3>1, <3>2
  <2>3. ASSUME paso'[t] # "libre"
        PROVE  \A i \in DOMAIN llamada'[t].cargos : llamada'[t].cargos[i].monto \in Nat
    <3>1. Tail(cs) # <<>> BY <1>1, <1>4, <2>3 DEF SiguienteCargo, Terminar, TypeOK
    <3>2. PICK ll \in Llamada : ll = llamada[t] BY <1>0, CargoTipo
    <3> DEFINE l2 == [ll EXCEPT !.cargos = Tail(cs)]
    <3>3. llamada' = [llamada EXCEPT ![t] = l2]
      BY <1>1, <1>4, <3>1, <3>2 DEF SiguienteCargo, TypeOK
    <3>4. l2.cargos = Tail(cs) BY DEF Llamada
    <3> HIDE DEF l2
    <3>5. llamada'[t].cargos = Tail(cs) BY <3>3, <3>4 DEF TypeOK
    <3>6. \A i \in DOMAIN Tail(cs) : i + 1 \in DOMAIN cs /\ Tail(cs)[i] = cs[i + 1]
      BY <1>1
    <3> QED BY <1>2, <3>5, <3>6
  <2> QED BY <2>2, <2>3
<1>5. EscribirFondo(t) => SiguienteCargo(t) BY DEF EscribirFondo
<1> QED BY <1>3, <1>4, <1>5, AvanzarSinEscribir

----
(* Handlers that run one at a time. *)

\* A row whose four amounts add up to what the fund was created with.
FilaCuadra(fila, techo) == Total(fila) = techo /\ Enteros(fila)

\* One activation at a time; it was called with whole cents, and from its read
\* to its last UPDATE the row it read is the row of the database.
TareaSola ==
  /\ \A t, u \in Tareas : paso[t] # "libre" /\ paso[u] # "libre" => t = u
  /\ \A t \in Tareas : LlamadaLegal(t)
  /\ \A t \in Tareas : paso[t] \in {"escribirContrato", "escribirFondo"} =>
       visto[t].fondo = fondo[CargoDe(t).fondo]

\* The inductive form of TechoConservado.
TechoInv == (Serial /\ MontosEnCentavos) =>
  TareaSola /\ \A f \in Fondos : FilaCuadra(fondo[f], Techo[f])

----
\* An event computed from the row it is written to adds to some of the four
\* amounts what it takes from the others, whichever fund it is written to.
LEMMA EscrituraDeTotal ==
  ASSUME NEW f \in Fondos, NEW e \in TYPE_EVENT, NEW fila \in FundRow,
         NEW m \in Int, Enteros(fila), EsCentavo(m)
  PROVE  LET nueva == escribir(fila, handlerAmounts(e, fila, m), Escribe(f, e))
         IN  Total(nueva) = Total(fila) /\ Enteros(nueva)
<1> DEFINE nueva == escribir(fila, handlerAmounts(e, fila, m), Escribe(f, e))
<1>1. /\ Enteros(nueva)
      /\ \A c \in FundColumns \ {"committedAmount"} :
           nueva[c] = IF c \notin Escribe(f, e) THEN fila[c]
                      ELSE IF c \in Suma[e] THEN fila[c] + m
                      ELSE IF c \in Resta[e] THEN fila[c] - m ELSE fila[c]
  BY FilaEscrita
<1> HIDE DEF nueva
<1>2. /\ {"montoDisponible", "montoActivo", "montoEjercido", "montoPagado"}
           \subseteq FundColumns \ {"committedAmount"}
      /\ \A c \in FundColumns \ {"committedAmount"} : fila[c] \in Int
  BY DEF FundColumns, ServiceColumns, FundRow
<1>3. /\ fila["montoDisponible"] \in Int /\ fila["montoActivo"] \in Int
      /\ fila["montoEjercido"] \in Int /\ fila["montoPagado"] \in Int
  BY <1>2
<1>4. ASSUME NEW c \in {"montoDisponible", "montoActivo", "montoEjercido", "montoPagado"}
      PROVE  nueva[c] = IF c \notin Escribe(f, e) THEN fila[c]
                        ELSE IF c \in Suma[e] THEN fila[c] + m
                        ELSE IF c \in Resta[e] THEN fila[c] - m ELSE fila[c]
  BY <1>1, <1>2
<1>5. ASSUME Escribe(f, e) = {} PROVE Total(nueva) = Total(fila)
  BY <1>3, <1>4, <1>5 DEF Total
<1>6. ASSUME e = "ORDER_APPROVED" PROVE Total(nueva) = Total(fila)
  <2>1. /\ Escribe(f, e) = {"montoDisponible", "montoActivo", "committedAmount"}
        /\ Suma[e] = {"montoActivo"} /\ Resta[e] = {"montoDisponible", "committedAmount"}
    BY <1>6 DEF Escribe, EscribeMaestro, EscribeModificatorio, Suma, Resta
  <2>2. /\ nueva["montoDisponible"] = fila["montoDisponible"] - m
        /\ nueva["montoActivo"] = fila["montoActivo"] + m
        /\ nueva["montoEjercido"] = fila["montoEjercido"]
        /\ nueva["montoPagado"] = fila["montoPagado"]
    BY <2>1, <1>4
  <2> QED BY <2>2, <1>3 DEF Total
<1>7. ASSUME e = "ORDER_CANCELLED" PROVE Total(nueva) = Total(fila)
  <2>1. /\ Escribe(f, e) = {"montoDisponible", "montoActivo", "committedAmount"}
        /\ Suma[e] = {"montoDisponible"} /\ Resta[e] = {"montoActivo"}
    BY <1>7 DEF Escribe, EscribeMaestro, EscribeModificatorio, Suma, Resta
  <2>2. /\ nueva["montoDisponible"] = fila["montoDisponible"] + m
        /\ nueva["montoActivo"] = fila["montoActivo"] - m
        /\ nueva["montoEjercido"] = fila["montoEjercido"]
        /\ nueva["montoPagado"] = fila["montoPagado"]
    BY <2>1, <1>4
  <2> QED BY <2>2, <1>3 DEF Total
<1>8. ASSUME e = "INVOICE_REVIEWED" /\ Escribe(f, e) # {} PROVE Total(nueva) = Total(fila)
  <2>1. /\ Escribe(f, e) = {"montoEjercido", "montoActivo"}
        /\ Suma[e] = {"montoEjercido"} /\ Resta[e] = {"montoActivo"}
    BY <1>8 DEF Escribe, EscribeMaestro, EscribeModificatorio, Suma, Resta
  <2>2. /\ nueva["montoDisponible"] = fila["montoDisponible"]
        /\ nueva["montoActivo"] = fila["montoActivo"] - m
        /\ nueva["montoEjercido"] = fila["montoEjercido"] + m
        /\ nueva["montoPagado"] = fila["montoPagado"]
    BY <2>1, <1>4
  <2> QED BY <2>2, <1>3 DEF Total
<1>9. ASSUME e = "INVOICE_APPROVED" PROVE Total(nueva) = Total(fila)
  <2>1. Suma[e] = {} /\ Resta[e] = {} BY <1>9 DEF Suma, Resta
  <2>2. /\ nueva["montoDisponible"] = fila["montoDisponible"]
        /\ nueva["montoActivo"] = fila["montoActivo"]
        /\ nueva["montoEjercido"] = fila["montoEjercido"]
        /\ nueva["montoPagado"] = fila["montoPagado"]
    BY <2>1, <1>4
  <2> QED BY <2>2, <1>3 DEF Total
<1>10. ASSUME e = "INVOICE_CANCELLED" PROVE Total(nueva) = Total(fila)
  <2>1. /\ Escribe(f, e) = {"montoEjercido", "montoActivo"}
        /\ Suma[e] = {"montoActivo"} /\ Resta[e] = {"montoEjercido"}
    BY <1>10 DEF Escribe, EscribeMaestro, EscribeModificatorio, Suma, Resta
  <2>2. /\ nueva["montoDisponible"] = fila["montoDisponible"]
        /\ nueva["montoActivo"] = fila["montoActivo"] + m
        /\ nueva["montoEjercido"] = fila["montoEjercido"] - m
        /\ nueva["montoPagado"] = fila["montoPagado"]
    BY <2>1, <1>4
  <2> QED BY <2>2, <1>3 DEF Total
<1>11. ASSUME e = "INVOICE_PAID" PROVE Total(nueva) = Total(fila)
  <2>1. /\ Escribe(f, e) = {"montoPagado", "montoEjercido"}
        /\ Suma[e] = {"montoPagado"} /\ Resta[e] = {"montoEjercido"}
    BY <1>11 DEF Escribe, EscribeMaestro, EscribeModificatorio, Suma, Resta
  <2>2. /\ nueva["montoDisponible"] = fila["montoDisponible"]
        /\ nueva["montoActivo"] = fila["montoActivo"]
        /\ nueva["montoEjercido"] = fila["montoEjercido"] - m
        /\ nueva["montoPagado"] = fila["montoPagado"] + m
    BY <2>1, <1>4
  <2> QED BY <2>2, <1>3 DEF Total
<1>12. Total(nueva) = Total(fila) BY <1>5, <1>6, <1>7, <1>8, <1>9, <1>10, <1>11
     DEF TYPE_EVENT, TYPE_EVENT_ORDER, TYPE_EVENT_INVOICE
<1> QED BY <1>1, <1>12 DEF nueva

----
\* Ending an activation leaves the calls of the others as they were.
LEMMA TerminarSola ==
  ASSUME NEW t \in Tareas, TypeOK, TareaSola, paso[t] # "libre", Terminar(t)
  PROVE  TareaSola'
<1>1. \A u \in Tareas : paso'[u] = "libre" BY DEF Terminar, TypeOK, TareaSola
<1> QED BY <1>1 DEF TareaSola, LlamadaLegal

\* Moving on to the next charge forgets the row that was read.
LEMMA SiguienteCargoSola ==
  ASSUME NEW t \in Tareas, TypeOK, TareaSola, paso[t] # "libre", SiguienteCargo(t)
  PROVE  TareaSola'
<1>1. CASE Tail(llamada[t].cargos) = <<>> BY <1>1, TerminarSola DEF SiguienteCargo
<1>2. CASE Tail(llamada[t].cargos) # <<>>
  <2>1. /\ paso'[t] = "leer"
        /\ \A u \in Tareas : u # t => paso'[u] = "libre"
    BY <1>2 DEF SiguienteCargo, TypeOK, TareaSola
  <2>2. llamada[t] \in Llamada /\ llamada[t].cargos \in Seq(Cargo) /\ llamada[t].cargos # <<>>
    BY DEF TypeOK, Llamada
  <2>3. llamada'[t] = [llamada[t] EXCEPT !.cargos = Tail(llamada[t].cargos)]
    BY <1>2 DEF SiguienteCargo, TypeOK
  <2>4. /\ llamada'[t].evento = llamada[t].evento
        /\ llamada'[t].cargos = Tail(llamada[t].cargos)
    BY <2>2, <2>3 DEF Llamada
  <2>5. \A i \in DOMAIN Tail(llamada[t].cargos) :
          /\ i + 1 \in DOMAIN llamada[t].cargos
          /\ Tail(llamada[t].cargos)[i] = llamada[t].cargos[i + 1]
    BY <2>2
  <2>6. LlamadaLegal(t)' BY <2>4, <2>5 DEF TareaSola, LlamadaLegal
  <2> QED BY <2>1, <2>6 DEF TareaSola, LlamadaLegal
<1> QED BY <1>1, <1>2

\* A read returns the row of the database.
LEMMA TrasLeerSola ==
  ASSUME NEW t \in Tareas, TypeOK, TareaSola, paso[t] # "libre", NEW s,
         UNCHANGED fondo, TrasLeer(t, s, fondo[CargoDe(t).fondo])
  PROVE  TareaSola'
<1>1. CASE Columnas(t) = {} BY <1>1, SiguienteCargoSola DEF TrasLeer
<1>2. CASE Columnas(t) # {}
  <2>1. /\ paso'[t] = "escribirContrato"
        /\ visto'[t].fondo = fondo[CargoDe(t).fondo]
        /\ \A u \in Tareas : u # t => paso'[u] = "libre"
        /\ llamada' = llamada
    BY <1>2 DEF TrasLeer, TypeOK, TareaSola
  <2> QED BY <2>1 DEF TareaSola, LlamadaLegal, CargoDe
<1> QED BY <1>1, <1>2

----
\* One handler at a time, the four amounts of every fund add up to what the
\* contract was created with, for any funds, events and calls, whatever query
\* is rejected and wherever the process stops: no UPDATE of a fund depends on
\* the UPDATE of the service's row before it (contratos.service.ts 648-676,
\* contratos_modificatorios.service.ts 368-395).
THEOREM TechoSiempre == Spec => []TechoConservado
<1>1. Init => TechoInv
  <2> SUFFICES ASSUME Init, MontosEnCentavos
               PROVE  TareaSola /\ \A f \in Fondos : FilaCuadra(fondo[f], Techo[f])
    BY DEF TechoInv
  <2>1. TareaSola BY DEF Init, TareaSola, LlamadaLegal
  <2>2. ASSUME NEW f \in Fondos PROVE FilaCuadra(fondo[f], Techo[f])
    <3>1. fondo[f] = [c \in FundColumns |-> IF c = "montoDisponible" THEN Techo[f] ELSE 0]
      BY DEF Init, FilaFondoCero
    <3>2. Techo[f] \in Int /\ EsCentavo(Techo[f]) /\ EsCentavo(0)
      BY FondosAssumption, CentavoAssumption DEF MontosEnCentavos, EsCentavo
    <3> QED BY <3>1, <3>2 DEF FilaCuadra, Total, Enteros, FundColumns, ServiceColumns
  <2> QED BY <2>1, <2>2
<1>2. TypeOK /\ TechoInv /\ [Next]_vars => TechoInv'
  <2> SUFFICES ASSUME TypeOK, TechoInv, [Next]_vars, Serial, MontosEnCentavos
               PROVE  TareaSola' /\ \A f \in Fondos : FilaCuadra(fondo'[f], Techo[f])
    BY DEF TechoInv, MontosEnCentavos, EsCentavo
  <2>0. TareaSola /\ \A f \in Fondos : FilaCuadra(fondo[f], Techo[f]) BY DEF TechoInv
  <2>1. ASSUME NEW t \in Tareas, NEW ll \in Llamadas, Iniciar(t, ll)
        PROVE  TareaSola' /\ \A f \in Fondos : FilaCuadra(fondo'[f], Techo[f])
    <3>1. /\ \A u \in Tareas : paso'[u] = IF u = t THEN "leer" ELSE "libre"
          /\ llamada'[t] = ll /\ ll.evento \in Eventos /\ fondo' = fondo
      BY <2>1 DEF Iniciar, PuedeIniciar, Reposo, Arrancar, TypeOK
    <3> QED BY <2>0, <3>1 DEF TareaSola, LlamadaLegal, MontosEnCentavos
  <2>2. ASSUME NEW t \in Tareas, LeerMaestro(t)
        PROVE  TareaSola' /\ \A f \in Fondos : FilaCuadra(fondo'[f], Techo[f])
    BY <2>0, <2>2, TrasLeerSola DEF LeerMaestro
  <2>3. ASSUME NEW t \in Tareas, LeerContratos(t)
        PROVE  TareaSola' /\ \A f \in Fondos : FilaCuadra(fondo'[f], Techo[f])
    <3>1. /\ \A u \in Tareas : paso'[u] = IF u = t THEN "leerModificatorio" ELSE "libre"
          /\ llamada' = llamada /\ fondo' = fondo /\ paso[t] # "libre"
      BY <2>0, <2>3 DEF LeerContratos, TypeOK, TareaSola
    <3> QED BY <2>0, <3>1 DEF TareaSola, LlamadaLegal
  <2>4. ASSUME NEW t \in Tareas, LeerModificatorio(t)
        PROVE  TareaSola' /\ \A f \in Fondos : FilaCuadra(fondo'[f], Techo[f])
    BY <2>0, <2>4, TrasLeerSola DEF LeerModificatorio
  <2>5. ASSUME NEW t \in Tareas, EscribirContrato(t)
        PROVE  TareaSola' /\ \A f \in Fondos : FilaCuadra(fondo'[f], Techo[f])
    <3>1. /\ \A u \in Tareas : paso'[u] = IF u = t THEN "escribirFondo" ELSE "libre"
          /\ paso[t] = "escribirContrato"
          /\ llamada' = llamada /\ visto' = visto /\ fondo' = fondo
      BY <2>0, <2>5 DEF EscribirContrato, TypeOK, TareaSola
    <3> QED BY <2>0, <3>1 DEF TareaSola, LlamadaLegal, CargoDe
  <2>6. ASSUME NEW t \in Tareas, EscribirFondo(t)
        PROVE  TareaSola' /\ \A f \in Fondos : FilaCuadra(fondo'[f], Techo[f])
    <3> DEFINE g == CargoDe(t).fondo
               m == CargoDe(t).monto
               e == llamada[t].evento
               nueva == escribir(fondo[g], handlerAmounts(e, fondo[g], m), Escribe(g, e))
    <3>1. paso[t] = "escribirFondo" /\ visto[t].fondo = fondo[g]
      BY <2>0, <2>6 DEF EscribirFondo, TareaSola
    <3>2. g \in Fondos /\ m \in Int /\ e \in TYPE_EVENT /\ fondo[g] \in FundRow
      BY <3>1, CargoTipo DEF TypeOK
    <3>3. EsCentavo(m)
      <4>1. llamada[t].cargos \in Seq(Cargo) /\ llamada[t].cargos # <<>>
        BY <3>1 DEF TypeOK, Llamada
      <4>2. 1 \in DOMAIN llamada[t].cargos /\ CargoDe(t) = llamada[t].cargos[1]
        BY <4>1 DEF CargoDe
      <4> QED BY <2>0, <3>1, <4>2 DEF TareaSola, LlamadaLegal
    <3>4. fondo' = [fondo EXCEPT ![g] = nueva] BY <2>6, <3>1 DEF EscribirFondo, Columnas
    <3>5. FilaCuadra(nueva, Techo[g])
      <4>1. FilaCuadra(fondo[g], Techo[g]) BY <2>0, <3>2
      <4> HIDE DEF g, m, e
      <4> QED BY <3>2, <3>3, <4>1, EscrituraDeTotal DEF FilaCuadra
    <3>6. \A f \in Fondos : FilaCuadra(fondo'[f], Techo[f])
      <4> HIDE DEF nueva, g
      <4> QED BY <2>0, <3>4, <3>5 DEF TypeOK
    <3>7. TareaSola'
      <4>1. SiguienteCargo(t) BY <2>6 DEF EscribirFondo
      <4> QED BY <2>0, <3>1, <4>1, SiguienteCargoSola
    <3> QED BY <3>6, <3>7
  <2>7. ASSUME NEW t \in Tareas, Fallar(t)
        PROVE  TareaSola' /\ \A f \in Fondos : FilaCuadra(fondo'[f], Techo[f])
    BY <2>0, <2>7, TerminarSola DEF Fallar
  <2>8. ASSUME NEW g \in Fondos, NEW v \in Reservas, Comprometer(g, v)
        PROVE  TareaSola' /\ \A f \in Fondos : FilaCuadra(fondo'[f], Techo[f])
    <3>1. /\ \A u \in Tareas : paso'[u] = "libre"
          /\ \A f \in Fondos : \A c \in FundColumns \ {"committedAmount"} :
               fondo'[f][c] = fondo[f][c]
      BY <2>8 DEF Comprometer, PuedeIniciar, Reposo, EscribirComprometido, TypeOK, FundRow
    <3>2. TareaSola' BY <3>1 DEF TareaSola, LlamadaLegal
    <3> QED BY <2>0, <3>1, <3>2 DEF FilaCuadra, Total, Enteros, FundColumns, ServiceColumns
  <2>9. ASSUME Caer
        PROVE  TareaSola' /\ \A f \in Fondos : FilaCuadra(fondo'[f], Techo[f])
    <3>1. fondo' = fondo /\ \A u \in Tareas : paso'[u] = "libre"
      BY <2>9 DEF Caer, PerderActivaciones
    <3> QED BY <2>0, <3>1 DEF TareaSola, LlamadaLegal
  <2>10. CASE UNCHANGED vars BY <2>0, <2>10 DEF vars, TareaSola, LlamadaLegal, CargoDe
  <2> QED BY <2>1, <2>2, <2>3, <2>4, <2>5, <2>6, <2>7, <2>8, <2>9, <2>10 DEF Next, Avanzar
<1>3. TechoInv => TechoConservado BY DEF TechoInv, TechoConservado, FilaCuadra
<1> QED BY <1>1, <1>2, <1>3, TipoCorrecto, PTL DEF Spec

----
(* Fractions of a cent. *)

\* One activation at a time, and from its read to its last UPDATE the row it
\* read is the row of the database.
LecturaVigente ==
  /\ \A t, u \in Tareas : paso[t] # "libre" /\ paso[u] # "libre" => t = u
  /\ \A t \in Tareas : paso[t] \in {"escribirContrato", "escribirFondo"} =>
       visto[t].fondo = fondo[CargoDe(t).fondo]

DerivaInv == Serial => LecturaVigente

Cerca(x, y) == x - y <= Centavo /\ y - x <= Centavo

----
(* Arithmetic. *)

\* Rounding both sides of a transfer: two errors of half a cent.
LEMMA TransferenciaRedondeada ==
  ASSUME NEW x \in Int, NEW y \in Int, NEW k \in Int
  PROVE  Cerca(toDecimalPlaces(x - k) + toDecimalPlaces(y + k), x + y)
<1> DEFINE rx == toDecimalPlaces(x - k)
           ry == toDecimalPlaces(y + k)
<1>1. /\ rx \in Int /\ 2 * (rx - (x - k)) <= Centavo /\ 2 * ((x - k) - rx) <= Centavo
      /\ ry \in Int /\ 2 * (ry - (y + k)) <= Centavo /\ 2 * ((y + k) - ry) <= Centavo
  BY RedondeoAcotado
<1> HIDE DEF rx, ry
<1>2. Centavo \in Int BY CentavoAssumption
<1>3. Cerca(rx + ry, x + y) BY <1>1, <1>2 DEF Cerca
<1> QED BY <1>3 DEF rx, ry

\* A column that is written, and one that is not.
LEMMA ColumnaEscrita ==
  ASSUME NEW f \in Fondos, NEW e \in TYPE_EVENT, NEW fila \in FundRow, NEW m \in Int,
         NEW c \in ServiceColumns \cup {"montoDisponible"}
  PROVE  escribir(fila, handlerAmounts(e, fila, m), Escribe(f, e))[c] =
           IF c \notin Escribe(f, e) THEN fila[c]
           ELSE toDecimalPlaces(IF c \in Suma[e] THEN fila[c] + m
                                ELSE IF c \in Resta[e] THEN fila[c] - m ELSE fila[c])
<1>1. c \in FundColumns /\ c # "committedAmount" /\ DOMAIN fila = FundColumns
  BY DEF FundColumns, ServiceColumns, FundRow
<1>2. fila[c] \in Int BY <1>1 DEF FundRow
<1>3. /\ Mas(fila[c], m) = fila[c] + m /\ Menos(fila[c], m) = fila[c] - m
      /\ \A x \in Int : Redondear(x) = toDecimalPlaces(x)
  BY <1>2, NaNAssumption DEF Mas, Menos, Redondear
<1>4. c \in Suma[e] => c \notin Resta[e]
  BY DEF Suma, Resta, TYPE_EVENT, TYPE_EVENT_ORDER, TYPE_EVENT_INVOICE
<1>5. NuevoMonto(e, c, fila[c], m) =
        toDecimalPlaces(IF c \in Suma[e] THEN fila[c] + m
                        ELSE IF c \in Resta[e] THEN fila[c] - m ELSE fila[c])
  BY <1>2, <1>3, <1>4 DEF NuevoMonto
<1> QED BY <1>1, <1>5 DEF escribir, handlerAmounts

\* An UPDATE computed from the row that it is written to.
LEMMA EscrituraCerca ==
  ASSUME NEW f \in Fondos, NEW e \in TYPE_EVENT, NEW fila \in FundRow, NEW m \in Int
  PROVE  Cerca(Total(escribir(fila, handlerAmounts(e, fila, m), Escribe(f, e))), Total(fila))
<1> DEFINE nueva == escribir(fila, handlerAmounts(e, fila, m), Escribe(f, e))
           R(x) == toDecimalPlaces(x)
<1>1. \A c \in ServiceColumns \cup {"montoDisponible"} :
        nueva[c] = IF c \notin Escribe(f, e) THEN fila[c]
                   ELSE R(IF c \in Suma[e] THEN fila[c] + m
                          ELSE IF c \in Resta[e] THEN fila[c] - m ELSE fila[c])
  BY ColumnaEscrita
<1> HIDE DEF nueva
<1>2. /\ fila["montoDisponible"] \in Int /\ fila["montoActivo"] \in Int
      /\ fila["montoEjercido"] \in Int /\ fila["montoPagado"] \in Int
  BY DEF FundColumns, ServiceColumns, FundRow
<1>3. /\ m \in Int /\ -m \in Int /\ 0 \in Int
      /\ \A x \in Int : R(x) \in Int /\ x + 0 = x /\ x - 0 = x /\ x - (-m) = x + m
                        /\ x + (-m) = x - m
  BY RedondeoAcotado
<1> HIDE DEF R
<1>4. \A x, y, k \in Int : Cerca(R(x - k) + R(y + k), x + y)
  BY TransferenciaRedondeada DEF R
<1>5. ASSUME Escribe(f, e) = {} PROVE Cerca(Total(nueva), Total(fila))
  <2>1. Total(nueva) = Total(fila) BY <1>1, <1>5 DEF Total, ServiceColumns
  <2> QED BY <2>1, <1>2, CentavoAssumption DEF Cerca, Total
<1>6. ASSUME e \in TYPE_EVENT_ORDER PROVE Cerca(Total(nueva), Total(fila))
  <2>0. Escribe(f, e) = {"montoDisponible", "montoActivo", "committedAmount"}
    <3>1. e = "ORDER_APPROVED" \/ e = "ORDER_CANCELLED" BY <1>6 DEF TYPE_EVENT_ORDER
    <3>2. ASSUME e = "ORDER_APPROVED"
          PROVE  Escribe(f, e) = {"montoDisponible", "montoActivo", "committedAmount"}
      BY <3>2 DEF Escribe, EscribeMaestro, EscribeModificatorio
    <3>3. ASSUME e = "ORDER_CANCELLED"
          PROVE  Escribe(f, e) = {"montoDisponible", "montoActivo", "committedAmount"}
      BY <3>3 DEF Escribe, EscribeMaestro, EscribeModificatorio
    <3> QED BY <3>1, <3>2, <3>3
  <2>1. PICK k \in Int : /\ nueva["montoDisponible"] = R(fila["montoDisponible"] - k)
                         /\ nueva["montoActivo"] = R(fila["montoActivo"] + k)
    <3>1. CASE e = "ORDER_APPROVED"
      <4>1. /\ nueva["montoDisponible"] = R(fila["montoDisponible"] - m)
            /\ nueva["montoActivo"] = R(fila["montoActivo"] + m)
        BY <1>1, <2>0, <3>1 DEF Suma, Resta, ServiceColumns
      <4> QED BY <4>1
    <3>2. CASE e = "ORDER_CANCELLED"
      <4>1. /\ nueva["montoDisponible"] = R(fila["montoDisponible"] + m)
            /\ nueva["montoActivo"] = R(fila["montoActivo"] - m)
        BY <1>1, <2>0, <3>2 DEF Suma, Resta, ServiceColumns
      <4>2. /\ nueva["montoDisponible"] = R(fila["montoDisponible"] - (-m))
            /\ nueva["montoActivo"] = R(fila["montoActivo"] + (-m))
        BY <4>1, <1>2, <1>3
      <4> QED BY <4>2, <1>3
    <3> QED BY <1>6, <3>1, <3>2 DEF TYPE_EVENT_ORDER
  <2>2. /\ nueva["montoEjercido"] = fila["montoEjercido"]
        /\ nueva["montoPagado"] = fila["montoPagado"]
    BY <1>1, <2>0 DEF ServiceColumns
  <2>3. Cerca(nueva["montoDisponible"] + nueva["montoActivo"],
              fila["montoDisponible"] + fila["montoActivo"])
    BY <2>1, <1>2, <1>4
  <2>4. nueva["montoDisponible"] \in Int /\ nueva["montoActivo"] \in Int
    BY <2>1, <1>2, <1>3
  <2> QED BY <2>2, <2>3, <2>4, <1>2, CentavoAssumption DEF Cerca, Total
<1>7. ASSUME e \in {"INVOICE_REVIEWED", "INVOICE_APPROVED", "INVOICE_CANCELLED"},
             Escribe(f, e) # {}
      PROVE  Cerca(Total(nueva), Total(fila))
  <2>0. Escribe(f, e) = {"montoEjercido", "montoActivo"}
    <3>1. ASSUME e = "INVOICE_REVIEWED" PROVE Escribe(f, e) = {"montoEjercido", "montoActivo"}
      BY <1>7, <3>1 DEF Escribe, EscribeMaestro, EscribeModificatorio
    <3>2. ASSUME e = "INVOICE_APPROVED" PROVE Escribe(f, e) = {"montoEjercido", "montoActivo"}
      BY <1>7, <3>2 DEF Escribe, EscribeMaestro, EscribeModificatorio
    <3>3. ASSUME e = "INVOICE_CANCELLED" PROVE Escribe(f, e) = {"montoEjercido", "montoActivo"}
      BY <1>7, <3>3 DEF Escribe, EscribeMaestro, EscribeModificatorio
    <3> QED BY <1>7, <3>1, <3>2, <3>3
  <2>1. PICK k \in Int : /\ nueva["montoActivo"] = R(fila["montoActivo"] - k)
                         /\ nueva["montoEjercido"] = R(fila["montoEjercido"] + k)
    <3>1. CASE e = "INVOICE_REVIEWED"
      <4>1. /\ nueva["montoActivo"] = R(fila["montoActivo"] - m)
            /\ nueva["montoEjercido"] = R(fila["montoEjercido"] + m)
        BY <1>1, <2>0, <3>1 DEF Suma, Resta, ServiceColumns
      <4> QED BY <4>1
    <3>2. CASE e = "INVOICE_CANCELLED"
      <4>1. /\ nueva["montoActivo"] = R(fila["montoActivo"] + m)
            /\ nueva["montoEjercido"] = R(fila["montoEjercido"] - m)
        BY <1>1, <2>0, <3>2 DEF Suma, Resta, ServiceColumns
      <4>2. /\ nueva["montoActivo"] = R(fila["montoActivo"] - (-m))
            /\ nueva["montoEjercido"] = R(fila["montoEjercido"] + (-m))
        BY <4>1, <1>2, <1>3
      <4> QED BY <4>2, <1>3
    <3>3. CASE e = "INVOICE_APPROVED"
      <4>1. /\ nueva["montoActivo"] = R(fila["montoActivo"])
            /\ nueva["montoEjercido"] = R(fila["montoEjercido"])
        BY <1>1, <2>0, <3>3 DEF Suma, Resta, ServiceColumns
      <4>2. /\ nueva["montoActivo"] = R(fila["montoActivo"] - 0)
            /\ nueva["montoEjercido"] = R(fila["montoEjercido"] + 0)
        BY <4>1, <1>2, <1>3
      <4> QED BY <4>2, <1>3
    <3> QED BY <1>7, <3>1, <3>2, <3>3
  <2>2. /\ nueva["montoDisponible"] = fila["montoDisponible"]
        /\ nueva["montoPagado"] = fila["montoPagado"]
    BY <1>1, <2>0 DEF ServiceColumns
  <2>3. Cerca(nueva["montoActivo"] + nueva["montoEjercido"],
              fila["montoActivo"] + fila["montoEjercido"])
    BY <2>1, <1>2, <1>4
  <2>4. nueva["montoActivo"] \in Int /\ nueva["montoEjercido"] \in Int BY <2>1, <1>2, <1>3
  <2> QED BY <2>2, <2>3, <2>4, <1>2, CentavoAssumption DEF Cerca, Total
<1>8. ASSUME e = "INVOICE_PAID" PROVE Cerca(Total(nueva), Total(fila))
  <2>0. Escribe(f, e) = {"montoPagado", "montoEjercido"}
    BY <1>8 DEF Escribe, EscribeMaestro, EscribeModificatorio
  <2>1. /\ nueva["montoEjercido"] = R(fila["montoEjercido"] - m)
        /\ nueva["montoPagado"] = R(fila["montoPagado"] + m)
        /\ nueva["montoDisponible"] = fila["montoDisponible"]
        /\ nueva["montoActivo"] = fila["montoActivo"]
    BY <1>1, <2>0, <1>8 DEF Suma, Resta, ServiceColumns
  <2>2. Cerca(nueva["montoEjercido"] + nueva["montoPagado"],
              fila["montoEjercido"] + fila["montoPagado"])
    BY <2>1, <1>2, <1>4
  <2>3. nueva["montoEjercido"] \in Int /\ nueva["montoPagado"] \in Int BY <2>1, <1>2, <1>3
  <2> QED BY <2>1, <2>2, <2>3, <1>2, CentavoAssumption DEF Cerca, Total
<1>9. Cerca(Total(nueva), Total(fila))
  BY <1>5, <1>6, <1>7, <1>8 DEF TYPE_EVENT, TYPE_EVENT_ORDER, TYPE_EVENT_INVOICE
<1> QED BY <1>9 DEF nueva

----
(* The read of the activation in flight. *)

\* Ending an activation, or moving on to its next charge, forgets the row.
LEMMA SiguienteCargoVigente ==
  ASSUME NEW t \in Tareas, TypeOK, LecturaVigente, paso[t] # "libre",
         Terminar(t) \/ SiguienteCargo(t)
  PROVE  LecturaVigente'
<1>1. /\ paso'[t] \in {"libre", "leer"}
      /\ \A u \in Tareas : u # t => paso'[u] = "libre"
  BY DEF Terminar, SiguienteCargo, TypeOK, LecturaVigente
<1> QED BY <1>1 DEF LecturaVigente

\* A read returns the row of the database.
LEMMA TrasLeerVigente ==
  ASSUME NEW t \in Tareas, TypeOK, LecturaVigente, paso[t] # "libre", NEW s,
         UNCHANGED fondo, TrasLeer(t, s, fondo[CargoDe(t).fondo])
  PROVE  LecturaVigente'
<1>1. CASE Columnas(t) = {} BY <1>1, SiguienteCargoVigente DEF TrasLeer
<1>2. CASE Columnas(t) # {}
  <2>1. /\ paso'[t] = "escribirContrato"
        /\ visto'[t].fondo = fondo[CargoDe(t).fondo]
        /\ \A u \in Tareas : u # t => paso'[u] = "libre"
        /\ llamada' = llamada
    BY <1>2 DEF TrasLeer, TypeOK, LecturaVigente
  <2> QED BY <2>1 DEF LecturaVigente, CargoDe
<1> QED BY <1>1, <1>2

----
\* One handler at a time, no step changes the sum of the four amounts of a fund
\* by more than a cent, whatever fractions the amounts have and whatever fails:
\* each UPDATE rounds both sides of one transfer (handler-amounts.ts 76-89).
THEOREM DerivaSiempre == Spec => DerivaAcotada
<1> DEFINE Deriva == Serial => \A f \in Fondos :
                       LET d == Total(fondo'[f]) - Total(fondo[f])
                       IN  d <= Centavo /\ -d <= Centavo
<1>1. Init => DerivaInv BY DEF Init, DerivaInv, LecturaVigente
<1>2. TypeOK /\ DerivaInv /\ [Next]_vars => DerivaInv' /\ Deriva
  <2> SUFFICES ASSUME TypeOK, DerivaInv, [Next]_vars, Serial
               PROVE  LecturaVigente' /\ Deriva
    BY DEF DerivaInv
  <2>0. LecturaVigente BY DEF DerivaInv
  <2>00. \A f \in Fondos : Total(fondo[f]) \in Int
    BY DEF TypeOK, FundRow, FundColumns, ServiceColumns, Total
  <2>a. ASSUME \A f \in Fondos : Total(fondo'[f]) = Total(fondo[f]) PROVE Deriva
    BY <2>00, <2>a, CentavoAssumption
  <2> HIDE DEF Deriva
  <2>1. ASSUME NEW t \in Tareas, NEW ll \in Llamadas, Iniciar(t, ll)
        PROVE  LecturaVigente' /\ Deriva
    <3>1. /\ \A u \in Tareas : paso'[u] = IF u = t THEN "leer" ELSE "libre"
          /\ fondo' = fondo
      BY <2>1 DEF Iniciar, PuedeIniciar, Reposo, Arrancar, TypeOK
    <3> QED BY <2>a, <3>1 DEF LecturaVigente
  <2>2. ASSUME NEW t \in Tareas, LeerMaestro(t) \/ LeerModificatorio(t)
        PROVE  LecturaVigente' /\ Deriva
    BY <2>0, <2>2, <2>a, TrasLeerVigente DEF LeerMaestro, LeerModificatorio
  <2>3. ASSUME NEW t \in Tareas, LeerContratos(t)
        PROVE  LecturaVigente' /\ Deriva
    <3>1. /\ \A u \in Tareas : paso'[u] = IF u = t THEN "leerModificatorio" ELSE "libre"
          /\ fondo' = fondo
      BY <2>0, <2>3 DEF LeerContratos, TypeOK, LecturaVigente
    <3> QED BY <2>a, <3>1 DEF LecturaVigente
  <2>4. ASSUME NEW t \in Tareas, EscribirContrato(t)
        PROVE  LecturaVigente' /\ Deriva
    <3>1. /\ \A u \in Tareas : paso'[u] = IF u = t THEN "escribirFondo" ELSE "libre"
          /\ paso[t] = "escribirContrato"
          /\ llamada' = llamada /\ visto' = visto /\ fondo' = fondo
      BY <2>0, <2>4 DEF EscribirContrato, TypeOK, LecturaVigente
    <3> QED BY <2>0, <2>a, <3>1 DEF LecturaVigente, CargoDe
  <2>5. ASSUME NEW t \in Tareas, EscribirFondo(t)
        PROVE  LecturaVigente' /\ Deriva
    <3> DEFINE g == CargoDe(t).fondo
               m == CargoDe(t).monto
               e == llamada[t].evento
               nueva == escribir(fondo[g], handlerAmounts(e, fondo[g], m), Escribe(g, e))
    <3>1. paso[t] = "escribirFondo" /\ visto[t].fondo = fondo[g]
      BY <2>0, <2>5 DEF EscribirFondo, LecturaVigente
    <3>2. g \in Fondos /\ m \in Int /\ e \in TYPE_EVENT /\ fondo[g] \in FundRow
      BY <3>1, CargoTipo DEF TypeOK
    <3>3. fondo' = [fondo EXCEPT ![g] = nueva] BY <2>5, <3>1 DEF EscribirFondo, Columnas
    <3>4. Cerca(Total(nueva), Total(fondo[g])) /\ nueva \in FundRow
      <4> HIDE DEF g, m, e
      <4> QED BY <3>2, EscrituraCerca, FilaFondoTipo
    <3>5. Total(nueva) \in Int
      <4> HIDE DEF nueva
      <4> QED BY <3>4 DEF FundRow, FundColumns, ServiceColumns, Total
    <3>6. Deriva
      <4> HIDE DEF nueva, g
      <4>1. \A f \in Fondos : fondo'[f] = IF f = g THEN nueva ELSE fondo[f]
        BY <3>3 DEF TypeOK
      <4>2. \A f \in Fondos : Cerca(Total(fondo'[f]), Total(fondo[f]))
        BY <4>1, <3>2, <3>4, <2>00, CentavoAssumption DEF Cerca
      <4>3. \A f \in Fondos : Total(fondo'[f]) \in Int BY <4>1, <3>5, <2>00
      <4> HIDE DEF Cerca
      <4> QED BY <4>2, <4>3, <2>00, CentavoAssumption DEF Deriva, Cerca
    <3>7. LecturaVigente'
      <4>1. SiguienteCargo(t) BY <2>5 DEF EscribirFondo
      <4> QED BY <2>0, <3>1, <4>1, SiguienteCargoVigente
    <3> QED BY <3>6, <3>7
  <2>6. ASSUME NEW t \in Tareas, Fallar(t)
        PROVE  LecturaVigente' /\ Deriva
    BY <2>0, <2>6, <2>a, SiguienteCargoVigente DEF Fallar
  <2>7. ASSUME NEW g \in Fondos, NEW v \in Reservas, Comprometer(g, v)
        PROVE  LecturaVigente' /\ Deriva
    <3>1. /\ \A u \in Tareas : paso'[u] = "libre"
          /\ \A f \in Fondos : \A c \in FundColumns \ {"committedAmount"} :
               fondo'[f][c] = fondo[f][c]
      BY <2>7 DEF Comprometer, PuedeIniciar, Reposo, EscribirComprometido, TypeOK, FundRow
    <3>2. \A f \in Fondos : Total(fondo'[f]) = Total(fondo[f])
      BY <3>1 DEF Total, FundColumns, ServiceColumns
    <3> QED BY <2>a, <3>1, <3>2 DEF LecturaVigente
  <2>8. ASSUME Caer
        PROVE  LecturaVigente' /\ Deriva
    <3>1. fondo' = fondo /\ \A u \in Tareas : paso'[u] = "libre"
      BY <2>8 DEF Caer, PerderActivaciones
    <3> QED BY <2>a, <3>1 DEF LecturaVigente
  <2>9. CASE UNCHANGED vars BY <2>0, <2>9, <2>a DEF vars, LecturaVigente, CargoDe
  <2> QED BY <2>1, <2>2, <2>3, <2>4, <2>5, <2>6, <2>7, <2>8, <2>9 DEF Next, Avanzar
<1>3. [](TypeOK /\ DerivaInv) /\ [][Next]_vars => [][Deriva]_vars BY <1>2, PTL
<1> QED BY <1>1, <1>2, <1>3, TipoCorrecto, PTL DEF Spec, DerivaAcotada

----
(* The refinement of LibroAbstracto. *)

\* A charge in flight: it is of an event and an amount that the books may be
\* asked to apply, the rows that it read are those of the database, and once it
\* has written the row of the service that row is the one it read plus the charge.
CargoAMedias(t) ==
  LET l == llamada[t] IN
  /\ l.evento \in Eventos
  /\ \A i \in DOMAIN l.cargos : l.cargos[i].monto \in MontosPedidos
  /\ paso[t] \in {"leerModificatorio", "escribirContrato"} =>
       visto[t].servicio = contrato[l.servicio]
  /\ paso[t] \in {"escribirContrato", "escribirFondo"} =>
       visto[t].fondo = fondo[CargoDe(t).fondo]
  /\ paso[t] = "escribirFondo" =>
       contrato[l.servicio] =
         escribir(visto[t].servicio,
                  handlerAmounts(l.evento, visto[t].servicio, CargoDe(t).monto), Columnas(t))

\* The inductive invariant of the refinement: one charge in flight, as above.
RefinaInv ==
  /\ \A t, u \in Tareas : paso[t] # "libre" /\ paso[u] # "libre" => t = u
  /\ \A t \in Tareas : paso[t] # "libre" => CargoAMedias(t)

\* While no activation is between its two UPDATEs the books are the rows.
LEMMA LibrosEnReposo ==
  ASSUME TypeOK, \A t \in Tareas : paso[t] # "escribirFondo"
  PROVE  ContratoEnLibros = contrato
BY DEF ContratoEnLibros, AMedias, TypeOK

\* Between the two UPDATEs of a charge the books have the row as it was read.
LEMMA LibrosAMedias ==
  ASSUME TypeOK, RefinaInv, NEW t \in Tareas, paso[t] = "escribirFondo"
  PROVE  ContratoEnLibros =
           [s \in Servicios |-> IF s = llamada[t].servicio THEN visto[t].servicio
                                ELSE contrato[s]]
<1>1. ASSUME NEW s PROVE AMedias(s) = IF s = llamada[t].servicio THEN {t} ELSE {}
  BY DEF RefinaInv, AMedias
<1>2. (CHOOSE u \in {t} : TRUE) = t OBVIOUS
<1> QED BY <1>1, <1>2 DEF ContratoEnLibros

\* Ending an activation, or moving on to its next charge, leaves none between
\* its two UPDATEs and keeps what is true of the charges in flight.
LEMMA SiguienteCargoRefina ==
  ASSUME TypeOK, RefinaInv, NEW t \in Tareas, paso[t] # "libre", SiguienteCargo(t)
  PROVE  RefinaInv' /\ \A u \in Tareas : paso'[u] # "escribirFondo"
<1>0. \A u \in Tareas : u # t => paso[u] = "libre" BY DEF RefinaInv
<1>1. CASE Tail(llamada[t].cargos) = <<>>
  <2>1. \A u \in Tareas : paso'[u] = "libre"
    BY <1>0, <1>1 DEF SiguienteCargo, Terminar, TypeOK
  <2> QED BY <2>1 DEF RefinaInv
<1>2. CASE Tail(llamada[t].cargos) # <<>>
  <2>1. \A u \in Tareas : paso'[u] = IF u = t THEN "leer" ELSE "libre"
    BY <1>0, <1>2 DEF SiguienteCargo, TypeOK
  <2>2. llamada[t] \in Llamada /\ llamada[t].cargos \in Seq(Cargo) /\ llamada[t].cargos # <<>>
    BY DEF TypeOK, Llamada
  <2>3. llamada'[t] = [llamada[t] EXCEPT !.cargos = Tail(llamada[t].cargos)]
    BY <1>2 DEF SiguienteCargo, TypeOK
  <2>4. /\ llamada'[t].evento = llamada[t].evento
        /\ llamada'[t].cargos = Tail(llamada[t].cargos)
    BY <2>2, <2>3 DEF Llamada
  <2>5. \A i \in DOMAIN Tail(llamada[t].cargos) :
          /\ i + 1 \in DOMAIN llamada[t].cargos
          /\ Tail(llamada[t].cargos)[i] = llamada[t].cargos[i + 1]
    BY <2>2
  <2>6. CargoAMedias(t)' BY <2>1, <2>4, <2>5 DEF RefinaInv, CargoAMedias
  <2> QED BY <2>1, <2>6 DEF RefinaInv
<1> QED BY <1>1, <1>2

\* A read, of rows as they are, is a step that the books do not see.
LEMMA TrasLeerRefina ==
  ASSUME TypeOK, RefinaInv, NEW t \in Tareas, paso[t] \in {"leer", "leerModificatorio"},
         UNCHANGED <<fondo, contrato>>,
         TrasLeer(t, contrato[llamada[t].servicio], fondo[CargoDe(t).fondo])
  PROVE  RefinaInv' /\ \A u \in Tareas : paso'[u] # "escribirFondo"
<1>1. CASE Columnas(t) = {} BY <1>1, SiguienteCargoRefina DEF TrasLeer
<1>2. CASE Columnas(t) # {}
  <2>1. /\ \A u \in Tareas : paso'[u] = IF u = t THEN "escribirContrato" ELSE "libre"
        /\ visto'[t].servicio = contrato[llamada[t].servicio]
        /\ visto'[t].fondo = fondo[CargoDe(t).fondo]
        /\ llamada' = llamada
    BY <1>2 DEF TrasLeer, TypeOK, RefinaInv
  <2>2. CargoAMedias(t)' BY <2>1 DEF RefinaInv, CargoAMedias, CargoDe
  <2> QED BY <2>1, <2>2 DEF RefinaInv
<1> QED BY <1>1, <1>2

\* The abstract module counts and writes amounts as the detailed one does.
LEMMA LibrosIgualesMontos ==
  /\ Libros!FundColumns = FundColumns /\ Libros!ServiceColumns = ServiceColumns
  /\ \A e, fila, m : Libros!handlerAmounts(e, fila, m) = handlerAmounts(e, fila, m)
  /\ \A fila, m, cols : Libros!escribir(fila, m, cols) = escribir(fila, m, cols)
  /\ \A f, e : Libros!Columnas(f, e) = Escribe(f, e)
<1>1. Libros!FundColumns = FundColumns /\ Libros!ServiceColumns = ServiceColumns
  BY DEF Libros!FundColumns, FundColumns, Libros!ServiceColumns, ServiceColumns
<1>2. \A fila, m, cols : Libros!escribir(fila, m, cols) = escribir(fila, m, cols)
  BY DEF Libros!escribir, escribir
<1>3. \A f, e : Libros!Columnas(f, e) = Escribe(f, e)
  BY DEF Libros!Columnas, Escribe, Libros!EscribeMaestro, EscribeMaestro,
         Libros!EscribeModificatorio, EscribeModificatorio
<1>4. \A e, c, v, m : Libros!NuevoMonto(e, c, v, m) = NuevoMonto(e, c, v, m)
  BY DEF Libros!NuevoMonto, NuevoMonto, Libros!Suma, Suma, Libros!Resta, Resta, Libros!Mas, Mas,
         Libros!Menos, Menos, Libros!Redondear, Redondear, Libros!toDecimalPlaces, toDecimalPlaces
<1>5. \A e, fila, m : Libros!handlerAmounts(e, fila, m) = handlerAmounts(e, fila, m)
  BY <1>4 DEF Libros!handlerAmounts, handlerAmounts
<1> QED BY <1>1, <1>2, <1>3, <1>5

\* Run one at a time and to their end, for any funds, service types, events,
\* calls and amounts, the handlers implement the atomic books: the first UPDATE
\* of a charge (contratos.service.ts 648, contratos_modificatorios.service.ts
\* 368) is a step that the books do not see, and the second one is the charge.
THEOREM LibroRefinado ==
  ASSUME Serial, ~ConFallos
  PROVE  Spec => ImplementaLibro
<1> DEFINE PasoDeLibros == [Libros!Next]_Libros!vars
<1>1. Init => RefinaInv /\ Libros!Init
  <2> SUFFICES ASSUME Init PROVE RefinaInv /\ Libros!Init OBVIOUS
  <2>1. RefinaInv BY DEF Init, RefinaInv
  <2>2. ContratoEnLibros = contrato BY DEF Init, ContratoEnLibros, AMedias
  <2> QED
    BY <2>1, <2>2, LibrosIgualesMontos DEF Init, Libros!Init, FilaServicioCero, FilaFondoCero, FundColumns, ServiceColumns
<1>2. TypeOK /\ TypeOK' /\ RefinaInv /\ [Next]_vars => RefinaInv' /\ PasoDeLibros
  <2> SUFFICES ASSUME TypeOK, TypeOK', RefinaInv, [Next]_vars
               PROVE  RefinaInv' /\ PasoDeLibros
    OBVIOUS
  <2>a. ASSUME UNCHANGED fondo, ContratoEnLibros' = ContratoEnLibros PROVE PasoDeLibros
    BY <2>a DEF Libros!vars
  <2>b. ASSUME UNCHANGED <<fondo, contrato>>,
               \A t \in Tareas : paso[t] # "escribirFondo" /\ paso'[t] # "escribirFondo"
        PROVE  PasoDeLibros
    <3>1. ContratoEnLibros = contrato BY <2>b, LibrosEnReposo
    <3>2. ContratoEnLibros' = contrato' BY <2>b DEF ContratoEnLibros, AMedias, TypeOK
    <3> QED BY <3>1, <3>2, <2>a, <2>b
  <2> HIDE DEF PasoDeLibros
  <2>1. ASSUME NEW t \in Tareas, NEW ll \in Llamadas, Iniciar(t, ll)
        PROVE  RefinaInv' /\ PasoDeLibros
    <3>1. /\ \A u \in Tareas : paso'[u] = IF u = t THEN "leer" ELSE "libre"
          /\ \A u \in Tareas : paso[u] = "libre"
          /\ llamada'[t] = ll /\ ll.evento \in Eventos /\ UNCHANGED <<fondo, contrato>>
      BY <2>1 DEF Iniciar, PuedeIniciar, Reposo, Arrancar, TypeOK
    <3>2. CargoAMedias(t)' BY <3>1 DEF CargoAMedias, MontosPedidos
    <3> QED BY <2>b, <3>1, <3>2 DEF RefinaInv
  <2>2. ASSUME NEW t \in Tareas, LeerMaestro(t)
        PROVE  RefinaInv' /\ PasoDeLibros
    <3>1. RefinaInv' /\ \A u \in Tareas : paso'[u] # "escribirFondo"
      BY <2>2, TrasLeerRefina DEF LeerMaestro
    <3>2. \A u \in Tareas : paso[u] # "escribirFondo" BY <2>2 DEF LeerMaestro, RefinaInv
    <3> QED BY <2>2, <2>b, <3>1, <3>2 DEF LeerMaestro
  <2>3. ASSUME NEW t \in Tareas, LeerContratos(t)
        PROVE  RefinaInv' /\ PasoDeLibros
    <3>1. /\ paso[t] = "leer" /\ UNCHANGED <<fondo, contrato, llamada>>
          /\ visto'[t].servicio = contrato[llamada[t].servicio]
          /\ \A u \in Tareas : paso'[u] = IF u = t THEN "leerModificatorio" ELSE "libre"
          /\ \A u \in Tareas : u # t => paso[u] = "libre"
      BY <2>3 DEF LeerContratos, TypeOK, RefinaInv
    <3>2. CargoAMedias(t)' BY <3>1 DEF CargoAMedias, RefinaInv
    <3> QED BY <2>b, <3>1, <3>2 DEF RefinaInv
  <2>4. ASSUME NEW t \in Tareas, LeerModificatorio(t)
        PROVE  RefinaInv' /\ PasoDeLibros
    <3>1. paso[t] = "leerModificatorio" /\ visto[t].servicio = contrato[llamada[t].servicio]
      BY <2>4 DEF LeerModificatorio, RefinaInv, CargoAMedias
    <3>2. RefinaInv' /\ \A u \in Tareas : paso'[u] # "escribirFondo"
      BY <2>4, <3>1, TrasLeerRefina DEF LeerModificatorio
    <3>3. \A u \in Tareas : paso[u] # "escribirFondo" BY <3>1 DEF RefinaInv
    <3> QED BY <2>4, <2>b, <3>2, <3>3 DEF LeerModificatorio
  <2>5. ASSUME NEW t \in Tareas, EscribirContrato(t)
        PROVE  RefinaInv' /\ PasoDeLibros
    <3> DEFINE l == llamada[t]
               v == visto[t].servicio
               nueva == escribir(v, handlerAmounts(l.evento, v, CargoDe(t).monto), Columnas(t))
    <3>1. /\ paso[t] = "escribirContrato" /\ v = contrato[l.servicio]
          /\ \A u \in Tareas : paso'[u] = IF u = t THEN "escribirFondo" ELSE "libre"
          /\ \A u \in Tareas : u # t => paso[u] = "libre"
          /\ UNCHANGED <<fondo, llamada, visto>>
      BY <2>5 DEF EscribirContrato, TypeOK, RefinaInv, CargoAMedias
    <3>2. contrato' = [contrato EXCEPT ![l.servicio] = nueva]
      BY <2>5, <3>1 DEF EscribirContrato
    <3>3. l.servicio \in Servicios /\ contrato \in [Servicios -> ServiceRow]
      BY <3>1, CargoTipo DEF TypeOK
    <3>4. CargoAMedias(t)'
      <4> HIDE DEF nueva
      <4>1. contrato'[l.servicio] = nueva BY <3>2, <3>3
      <4> QED BY <3>1, <4>1 DEF RefinaInv, CargoAMedias, CargoDe, Columnas, nueva
    <3>5. RefinaInv' BY <3>1, <3>4 DEF RefinaInv
    <3>6. ContratoEnLibros = contrato BY <3>1, LibrosEnReposo
    <3>7. ContratoEnLibros' = [s \in Servicios |-> IF s = l.servicio THEN v ELSE contrato'[s]]
      <4>1. ASSUME NEW s PROVE AMedias(s)' = IF s = l.servicio THEN {t} ELSE {}
        BY <3>1 DEF AMedias
      <4>2. (CHOOSE u \in {t} : TRUE) = t OBVIOUS
      <4> QED BY <3>1, <4>1, <4>2 DEF ContratoEnLibros
    <3>8. ContratoEnLibros' = contrato
      <4> HIDE DEF nueva
      <4> QED BY <3>1, <3>2, <3>3, <3>7
    <3> QED BY <2>a, <3>1, <3>5, <3>6, <3>8
  <2>6. ASSUME NEW t \in Tareas, EscribirFondo(t)
        PROVE  RefinaInv' /\ PasoDeLibros
    <3> DEFINE l == llamada[t]
               v == visto[t].servicio
               f == CargoDe(t).fondo
               m == CargoDe(t).monto
               e == l.evento
               s == l.servicio
    <3>1. /\ paso[t] = "escribirFondo" /\ SiguienteCargo(t) /\ UNCHANGED contrato
          /\ visto[t].fondo = fondo[f] /\ e \in Eventos
          /\ contrato[s] = escribir(v, handlerAmounts(e, v, m), Escribe(f, e))
      BY <2>6 DEF EscribirFondo, RefinaInv, CargoAMedias, Columnas
    <3>2. f \in Fondos /\ s \in Servicios /\ m \in MontosPedidos
      <4>1. l.cargos \in Seq(Cargo) /\ l.cargos # <<>> /\ f \in Fondos /\ s \in Servicios
        BY <3>1, CargoTipo
      <4>2. 1 \in DOMAIN l.cargos /\ CargoDe(t) = l.cargos[1] BY <4>1 DEF CargoDe
      <4> QED BY <3>1, <4>1, <4>2 DEF RefinaInv, CargoAMedias
    <3>3. RefinaInv' /\ \A u \in Tareas : paso'[u] # "escribirFondo"
      BY <3>1, SiguienteCargoRefina
    <3>4. ContratoEnLibros = [r \in Servicios |-> IF r = s THEN v ELSE contrato[r]]
      BY <3>1, LibrosAMedias
    <3>5. ContratoEnLibros' = contrato BY <3>1, <3>3 DEF ContratoEnLibros, AMedias, TypeOK
    <3>6. fondo' = [fondo EXCEPT ![f] =
                      escribir(fondo[f], handlerAmounts(e, fondo[f], m), Escribe(f, e))]
      BY <2>6, <3>1 DEF EscribirFondo, Columnas
    <3>7. ContratoEnLibros' =
            [ContratoEnLibros EXCEPT ![s] = escribir(v, handlerAmounts(e, v, m), Escribe(f, e))]
      <4> HIDE DEF s
      <4> QED BY <3>1, <3>2, <3>4, <3>5 DEF TypeOK
    <3>8. ContratoEnLibros[s] = v BY <3>2, <3>4
    <3>9. Libros!Aplicar(f, s, e, m)
      <4> HIDE DEF f, s, e, m, v
      <4> QED BY <3>6, <3>7, <3>8, LibrosIgualesMontos DEF Libros!Aplicar
    <3>10. PasoDeLibros
      <4> HIDE DEF f, s, e, m
      <4> QED BY <3>1, <3>2, <3>9 DEF PasoDeLibros, Libros!Next
    <3> QED BY <3>3, <3>10
  <2>7. ASSUME NEW f \in Fondos, NEW v \in Reservas, Comprometer(f, v)
        PROVE  RefinaInv' /\ PasoDeLibros
    <3>1. /\ \A u \in Tareas : paso[u] = "libre"
          /\ UNCHANGED <<contrato, paso, llamada, visto>>
          /\ fondo' = [fondo EXCEPT ![f]["committedAmount"] = v]
      BY <2>7 DEF Comprometer, PuedeIniciar, Reposo, EscribirComprometido
    <3>2. RefinaInv' BY <3>1 DEF RefinaInv
    <3>3. UNCHANGED ContratoEnLibros BY <3>1 DEF ContratoEnLibros, AMedias
    <3>4. Libros!Comprometer(f, v) BY <3>1, <3>3 DEF Libros!Comprometer
    <3> QED BY <3>2, <3>4 DEF PasoDeLibros, Libros!Next
  <2>8. ASSUME NEW t \in Tareas, Fallar(t) PROVE FALSE BY <2>8 DEF Fallar
  <2>9. ASSUME Caer PROVE FALSE BY <2>9 DEF Caer
  <2>10. CASE UNCHANGED vars
    <3>1. UNCHANGED ContratoEnLibros /\ UNCHANGED fondo
      BY <2>10 DEF vars, ContratoEnLibros, AMedias
    <3>2. RefinaInv' BY <2>10 DEF vars, RefinaInv, CargoAMedias, CargoDe, Columnas
    <3> QED BY <2>a, <3>1, <3>2
  <2> QED BY <2>1, <2>2, <2>3, <2>4, <2>5, <2>6, <2>7, <2>8, <2>9, <2>10 DEF Next, Avanzar
<1> QED BY <1>1, <1>2, TipoCorrecto, PTL DEF Spec, ImplementaLibro, Libros!Spec

----
(* The plan of funds of create: how the loop of getAllAvailableAmounts     *)
(* leaves it after each fund.                                              *)

EsPlan(p, fd, m, ext, total, n) ==
  p = [i \in 0..n |-> IF i = 0 THEN Visitar(SinVisitar(total), fd, m, TRUE)
                      ELSE VisitarExtension(p[i - 1], fd, ext[i])]

\* The loop runs for any number of amendments.
LEMMA PlanHay ==
  ASSUME NEW fd, NEW m, NEW ext, NEW total, NEW n \in Nat
  PROVE  \E p : EsPlan(p, fd, m, ext, total, n)
<1> DEFINE M == {k \in Nat : ~\E p : EsPlan(p, fd, m, ext, total, k)}
<1> SUFFICES ASSUME M # {} PROVE FALSE OBVIOUS
<1>1. PICK k \in M : \A j \in M : k <= j BY MinimoNat
<1>2. k \in Nat /\ ~\E p : EsPlan(p, fd, m, ext, total, k) BY <1>1
<1> DEFINE primero == Visitar(SinVisitar(total), fd, m, TRUE)
           sigue(plan, i) == VisitarExtension(plan, fd, ext[i])
<1>3. CASE k = 0
  <2> DEFINE p == [i \in 0..k |-> primero]
  <2>1. p = [i \in 0..k |-> IF i = 0 THEN primero ELSE sigue(p[i - 1], i)]
    <3> HIDE DEF primero, sigue
    <3> QED BY <1>3
  <2>2. EsPlan(p, fd, m, ext, total, k) BY <2>1 DEF EsPlan
  <2> QED BY <1>2, <2>2
<1>4. CASE k # 0
  <2>1. PICK q : EsPlan(q, fd, m, ext, total, k - 1)
    <3>1. k - 1 \in Nat /\ k - 1 \notin M BY <1>1, <1>2, <1>4
    <3> QED BY <3>1
  <2>2. q = [i \in 0..(k - 1) |-> IF i = 0 THEN primero ELSE sigue(q[i - 1], i)]
    BY <2>1 DEF EsPlan
  <2> DEFINE p == [i \in 0..k |-> IF i = k THEN sigue(q[k - 1], k) ELSE q[i]]
  <2>3. p = [i \in 0..k |-> IF i = 0 THEN primero ELSE sigue(p[i - 1], i)]
    <3> HIDE DEF primero, sigue
    <3>1. ASSUME NEW i \in 0..k
          PROVE  p[i] = IF i = 0 THEN primero ELSE sigue(p[i - 1], i)
      <4>1. CASE i = k BY <1>2, <1>4, <4>1
      <4>2. CASE i # k
        <5>1. i \in 0..(k - 1) /\ p[i] = q[i] BY <1>2, <4>2
        <5>2. i # 0 => p[i - 1] = q[i - 1] BY <1>2, <4>2
        <5>3. q[i] = IF i = 0 THEN primero ELSE sigue(q[i - 1], i) BY <2>2, <5>1
        <5> QED BY <5>1, <5>2, <5>3
      <4> QED BY <4>1, <4>2
    <3> QED BY <3>1
  <2>4. EsPlan(p, fd, m, ext, total, k)
    <3> HIDE DEF p
    <3> QED BY <2>3 DEF EsPlan
  <2> QED BY <1>2, <2>4
<1> QED BY <1>3, <1>4

\* And the plan is what it leaves after the last one.
LEMMA PlanEs ==
  ASSUME NEW fd, NEW m, NEW ext, NEW total, Len(ext) \in Nat
  PROVE  \E p : EsPlan(p, fd, m, ext, total, Len(ext)) /\
                PlanDeFondos(fd, m, ext, total) = p[Len(ext)]
<1> DEFINE p == CHOOSE p : EsPlan(p, fd, m, ext, total, Len(ext))
<1>1. EsPlan(p, fd, m, ext, total, Len(ext)) BY PlanHay
<1>2. PlanDeFondos(fd, m, ext, total) = p[Len(ext)] BY DEF PlanDeFondos, EsPlan
<1> QED BY <1>1, <1>2

\* A list of charges has one charge per fund.
Distintos(cs) == \A i, j \in DOMAIN cs : cs[i].fondo = cs[j].fondo => i = j

\* The indices of a list of charges.
LEMMA IndicesDeCargos ==
  ASSUME NEW cs \in Seq(Cargo)
  PROVE  IsFiniteSet(DOMAIN cs) /\ \A i \in DOMAIN cs : cs[i] \in Cargo /\ cs[i].monto \in Int
<1>1. DOMAIN cs = 1..Len(cs) /\ \A i \in DOMAIN cs : cs[i] \in Cargo OBVIOUS
<1>2. IsFiniteSet(1..Len(cs)) BY FS_Interval
<1> QED BY <1>1, <1>2 DEF Cargo

\* A fund that no charge is to gives nothing.
LEMMA ImporteAjeno ==
  ASSUME NEW cs, NEW f, \A i \in DOMAIN cs : cs[i].fondo # f
  PROVE  ImporteA(cs, f) = 0
<1>1. {i \in DOMAIN cs : cs[i].fondo = f} = {} OBVIOUS
<1> QED BY <1>1, SumaVacia DEF ImporteA

\* The charge to a fund is what it gives, when there is one charge per fund.
LEMMA ImporteDeCargo ==
  ASSUME NEW cs \in Seq(Cargo), Distintos(cs), NEW i \in DOMAIN cs
  PROVE  ImporteA(cs, cs[i].fondo) = cs[i].monto
<1> DEFINE m == [j \in DOMAIN cs |-> cs[j].monto]
           uno == {i}
           nada == {}
<1>1. {j \in DOMAIN cs : cs[j].fondo = cs[i].fondo} = uno BY DEF Distintos
<1>2. m[i] = cs[i].monto /\ m[i] \in Int BY IndicesDeCargos
<1>3. ImporteA(cs, cs[i].fondo) = SumFunctionOnSet(m, uno) BY <1>1 DEF ImporteA
<1> HIDE DEF m
<1>4. IsFiniteSet(nada) /\ uno = nada \cup {i} /\ i \notin nada /\ \A y \in nada : m[y] = m[y] /\ m[y] \in Int
  BY FS_EmptySet
<1>5. SumFunctionOnSet(m, nada) = 0 BY SumaVacia
<1> HIDE DEF uno, nada
<1>6. SumFunctionOnSet(m, nada \cup {i}) = SumFunctionOnSet(m, nada) + m[i]
  BY <1>2, <1>4, SumaDeMas
<1> QED BY <1>2, <1>3, <1>4, <1>5, <1>6

\* The writes that are left to do are those of the other funds.
LEMMA EscrituraDeCola ==
  ASSUME NEW es \in Seq(Escritura), es # <<>>, Distintos(es)
  PROVE  /\ Distintos(Tail(es)) /\ Tail(es) \in Seq(Escritura)
         /\ Head(es) = es[1] /\ 1 \in DOMAIN es /\ Head(es).fondo \in Fondos
         /\ \A i \in DOMAIN Tail(es) : /\ Tail(es)[i].fondo # Head(es).fondo
                                       /\ Tail(es)[i].fondo \in Fondos
                                       /\ \E j \in DOMAIN es : Tail(es)[i] = es[j]
         /\ \A f : f # Head(es).fondo =>
              ((\A i \in DOMAIN Tail(es) : Tail(es)[i].fondo # f) <=> \A i \in DOMAIN es : es[i].fondo # f)
<1> DEFINE r == Tail(es)
<1>1. /\ DOMAIN r = 1..(Len(es) - 1) /\ DOMAIN es = 1..Len(es) /\ Len(es) \in Nat \ {0}
      /\ \A i \in 1..(Len(es) - 1) : r[i] = es[i + 1]
      /\ Head(es) = es[1] /\ r \in Seq(Escritura)
      /\ \A i \in DOMAIN es : es[i] \in Escritura
  OBVIOUS
<1> HIDE DEF r
<1>2. Distintos(r) /\ 1 \in DOMAIN es
  <2>1. 1 \in DOMAIN es BY <1>1
  <2>2. ASSUME NEW i \in DOMAIN r, NEW j \in DOMAIN r, r[i].fondo = r[j].fondo
        PROVE  i = j
    <3>1. /\ r[i] = es[i + 1] /\ i + 1 \in DOMAIN es /\ i \in Int
          /\ r[j] = es[j + 1] /\ j + 1 \in DOMAIN es /\ j \in Int
      BY <1>1
    <3>2. i + 1 = j + 1 BY <2>2, <3>1 DEF Distintos
    <3> QED BY <3>1, <3>2
  <2> QED BY <2>1, <2>2 DEF Distintos
<1>3. \A i \in DOMAIN r : r[i].fondo # es[1].fondo /\ i + 1 \in DOMAIN es
  BY <1>1 DEF Distintos
<1>4. \A i \in DOMAIN es : es[i].fondo \in Fondos BY <1>1 DEF Escritura
<1>5. \A i \in DOMAIN r : r[i] = es[i + 1] /\ i + 1 \in DOMAIN es BY <1>1
<1>6. ASSUME NEW i \in DOMAIN es, i # 1
      PROVE  \E j \in DOMAIN r : r[j] = es[i]
  <2>1. i - 1 \in DOMAIN r /\ r[i - 1] = es[i] BY <1>1, <1>6
  <2> QED BY <2>1
<1>7. ASSUME NEW f, f # es[1].fondo
      PROVE  (\A i \in DOMAIN r : r[i].fondo # f) <=> \A i \in DOMAIN es : es[i].fondo # f
  BY <1>5, <1>6, <1>7
<1>8. \A i \in DOMAIN r : r[i].fondo \in Fondos /\ \E j \in DOMAIN es : r[i] = es[j]
  BY <1>4, <1>5
<1> QED BY <1>1, <1>2, <1>3, <1>4, <1>7, <1>8 DEF r

\* What the loop keeps of a plan, having visited some funds: whatever they have,
\* what they give is theirs, at most what is missing, and is noted once per fund,
\* that of the master before the others.
PlanBien(p, total, fs) ==
  /\ p.resto \in 0..total
  /\ p.usos \in Seq(Cargo) /\ p.escrituras \in Seq(Escritura)
  /\ Len(p.usos) <= Len(p.escrituras)
  /\ \A k \in DOMAIN p.usos : p.usos[k].fondo \in fs /\ p.usos[k].monto \in 1..total
  /\ \A k \in DOMAIN p.usos : p.usos[k].fondo = Maestro => k = 1
  /\ Distintos(p.usos)
  /\ p.usos = <<>> => p.resto = total
  /\ Len(p.usos) = 1 => p.resto = total - p.usos[1].monto

\* Before the first fund.
LEMMA SinVisitarBien ==
  ASSUME NEW total \in Nat
  PROVE  PlanBien(SinVisitar(total), total, {})
BY DEF PlanBien, SinVisitar, Distintos

\* One more charge, to a fund that has none.
LEMMA UnUsoMas ==
  ASSUME NEW total \in Nat, NEW fs, NEW p, PlanBien(p, total, fs), NEW f \in Fondos, f \notin fs,
         f = Maestro => p.usos = <<>>, NEW uso \in 1..p.resto, NEW e \in Escritura, NEW q,
         q.resto = p.resto - uso,
         q.usos = Append(p.usos, [fondo |-> f, monto |-> uso]),
         q.escrituras = Append(p.escrituras, e)
  PROVE  PlanBien(q, total, fs \cup {f})
<1> DEFINE c == [fondo |-> f, monto |-> uso]
<1>1. p.resto \in 0..total /\ uso \in 1..total /\ c \in Cargo /\ c.fondo = f /\ c.monto = uso
  BY DEF PlanBien, Cargo
<1>2. p.usos \in Seq(Cargo) /\ p.escrituras \in Seq(Escritura) BY DEF PlanBien
<1> HIDE DEF c
<1>3. q.usos = Append(p.usos, c) BY DEF c
<1>4. /\ q.usos \in Seq(Cargo) /\ q.escrituras \in Seq(Escritura)
      /\ Len(q.usos) = Len(p.usos) + 1 /\ Len(q.escrituras) = Len(p.escrituras) + 1
      /\ DOMAIN q.usos = 1..(Len(p.usos) + 1) /\ DOMAIN p.usos = 1..Len(p.usos)
      /\ Len(p.usos) \in Nat /\ Len(p.escrituras) \in Nat
      /\ \A k \in 1..Len(p.usos) : q.usos[k] = p.usos[k]
      /\ q.usos[Len(p.usos) + 1] = c
  BY <1>1, <1>2, <1>3
<1>5. q.resto \in 0..total BY <1>1
<1>6. \A k \in DOMAIN q.usos : q.usos[k].fondo \in fs \cup {f} /\ q.usos[k].monto \in 1..total
  BY <1>1, <1>4 DEF PlanBien
<1>7. Distintos(q.usos)
  <2>1. \A k \in DOMAIN p.usos : p.usos[k].fondo # f BY DEF PlanBien
  <2> QED BY <1>1, <1>4, <2>1 DEF PlanBien, Distintos
<1>8. Len(q.usos) = 1 => q.resto = total - q.usos[1].monto
  <2> SUFFICES ASSUME Len(q.usos) = 1 PROVE q.resto = total - q.usos[1].monto OBVIOUS
  <2>1. Len(p.usos) = 0 /\ q.usos[1] = c BY <1>4
  <2>2. p.resto = total BY <1>2, <2>1 DEF PlanBien
  <2> QED BY <1>1, <2>1, <2>2
<1>9. q.usos # <<>> BY <1>4
<1>10. Len(q.usos) <= Len(q.escrituras) BY <1>4 DEF PlanBien
<1>11. \A k \in DOMAIN q.usos : q.usos[k].fondo = Maestro => k = 1
  <2>1. f = Maestro => Len(p.usos) = 0 OBVIOUS
  <2>2. \A k \in 1..Len(p.usos) : p.usos[k].fondo = Maestro => k = 1 BY <1>4 DEF PlanBien
  <2> QED BY <1>1, <1>4, <2>1, <2>2
<1> QED BY <1>4, <1>5, <1>6, <1>7, <1>8, <1>9, <1>10, <1>11 DEF PlanBien

\* What a fund has left is a number, unless what it has committed is not.
LEMMA LibreTipo ==
  ASSUME NEW fila \in FundRow
  PROVE  /\ Libre(fila) \in Int \cup {NaN}
         /\ fila["committedAmount"] \in Int \cup {NaN} /\ fila["montoDisponible"] \in Int
         /\ fila["committedAmount"] \in Int =>
              Libre(fila) = fila["montoDisponible"] - fila["committedAmount"]
BY NaNAssumption DEF Libre, Menos, FundRow, FundColumns, ServiceColumns

\* A fund that the loop visits keeps the plan well formed.
LEMMA VisitarBien ==
  ASSUME NEW total \in Nat, NEW fs, NEW p, PlanBien(p, total, fs), p.resto > 0,
         NEW fd \in [Fondos -> FundRow], NEW f \in Fondos, f \notin fs, f = Maestro => p.usos = <<>>,
         NEW es \in BOOLEAN
  PROVE  PlanBien(Visitar(p, fd, f, es), total, fs \cup {f})
<1> DEFINE libre == Libre(fd[f])
           alcanza == libre # NaN /\ libre >= p.resto
           uso == IF alcanza THEN p.resto ELSE libre
           usado == uso # NaN /\ (uso > 0 \/ (es /\ alcanza))
           valor == IF usado THEN Mas(fd[f]["committedAmount"], uso) ELSE NaN
           e == [fondo |-> f, valor |-> valor]
           q == Visitar(p, fd, f, es)
<1>1. p.resto \in 1..total /\ p.resto \in Int BY DEF PlanBien
<1>2. libre \in Int \cup {NaN} /\ fd[f]["committedAmount"] \in Int \cup {NaN} BY LibreTipo
<1>3. /\ q.resto = IF usado THEN p.resto - uso ELSE p.resto
      /\ q.usos = IF usado THEN Append(p.usos, [fondo |-> f, monto |-> uso]) ELSE p.usos
      /\ q.escrituras = IF libre = 0 THEN p.escrituras ELSE Append(p.escrituras, e)
  BY DEF Visitar
<1> HIDE DEF libre, q
<1>4. uso \in Int \cup {NaN} /\ (usado => uso \in 1..p.resto /\ libre # 0)
  BY <1>1, <1>2, NaNAssumption
<1>5. e \in Escritura
  <2>1. valor \in Int \cup {NaN}
    <3> HIDE DEF uso
    <3> QED BY <1>2, <1>4, NaNAssumption DEF Mas
  <2> HIDE DEF valor
  <2> QED BY <2>1 DEF Escritura
<1> HIDE DEF e, valor
<1>6. CASE usado
  <2> HIDE DEF usado, uso
  <2>1. q.resto = p.resto - uso /\ q.usos = Append(p.usos, [fondo |-> f, monto |-> uso])
        /\ q.escrituras = Append(p.escrituras, e) /\ uso \in 1..p.resto
    BY <1>3, <1>4, <1>6
  <2> QED BY <1>5, <2>1, UnUsoMas DEF q
<1>7. CASE ~usado
  <2>1. q.resto = p.resto /\ q.usos = p.usos BY <1>3, <1>7
  <2>2. q.escrituras \in Seq(Escritura) /\ Len(q.escrituras) >= Len(p.escrituras)
    <3>1. p.escrituras \in Seq(Escritura) BY DEF PlanBien
    <3> QED BY <1>3, <1>5, <3>1
  <2>3. Len(p.usos) <= Len(q.escrituras)
    <3>1. Len(p.usos) \in Nat /\ Len(p.escrituras) \in Nat /\ Len(q.escrituras) \in Nat
      BY <2>2 DEF PlanBien
    <3> QED BY <2>2, <3>1 DEF PlanBien
  <2> QED BY <2>1, <2>2, <2>3 DEF PlanBien, q
<1> QED BY <1>6, <1>7

\* What the loop keeps when every fund has at least what it has committed: every
\* write is the reservation of a charge that the fund can pay.
PlanExacto(p, fd) ==
  /\ Len(p.escrituras) = Len(p.usos)
  /\ \A k \in DOMAIN p.usos :
       LET f == p.usos[k].fondo
       IN  /\ p.escrituras[k] =
                [fondo |-> f, valor |-> fd[f]["committedAmount"] + p.usos[k].monto]
           /\ fd[f]["committedAmount"] + p.usos[k].monto <= fd[f]["montoDisponible"]

\* The funds owe nothing.
Solvente(fd) ==
  \A f \in Fondos : /\ fd[f]["committedAmount"] \in Int
                    /\ fd[f]["committedAmount"] <= fd[f]["montoDisponible"]

\* A fund that the loop visits keeps it.
LEMMA VisitarExacto ==
  ASSUME NEW total \in Nat, NEW fs, NEW p, PlanBien(p, total, fs), p.resto > 0,
         NEW fd \in [Fondos -> FundRow], Solvente(fd), PlanExacto(p, fd),
         NEW f \in Fondos, NEW es \in BOOLEAN
  PROVE  PlanExacto(Visitar(p, fd, f, es), fd)
<1> DEFINE c == fd[f]["committedAmount"]
           libre == Libre(fd[f])
           alcanza == libre # NaN /\ libre >= p.resto
           uso == IF alcanza THEN p.resto ELSE libre
           usado == uso # NaN /\ (uso > 0 \/ (es /\ alcanza))
           valor == IF usado THEN Mas(c, uso) ELSE NaN
           q == Visitar(p, fd, f, es)
<1>1. p.resto \in 1..total /\ p.resto \in Int BY DEF PlanBien
<1>2. c \in Int /\ libre = fd[f]["montoDisponible"] - c /\ libre \in Nat
      /\ fd[f]["montoDisponible"] \in Int
  BY LibreTipo DEF Solvente
<1>3. /\ q.usos = IF usado THEN Append(p.usos, [fondo |-> f, monto |-> uso]) ELSE p.usos
      /\ q.escrituras = IF libre = 0 THEN p.escrituras
                        ELSE Append(p.escrituras, [fondo |-> f, valor |-> valor])
  BY DEF Visitar
<1> HIDE DEF libre, q, c
<1>4. /\ usado <=> libre # 0
      /\ usado => uso \in Int /\ uso <= libre /\ valor = c + uso
  BY <1>1, <1>2, NaNAssumption DEF Mas
<1> HIDE DEF usado, uso, valor
<1>5. CASE libre = 0 BY <1>3, <1>4, <1>5 DEF PlanExacto, q
<1>6. CASE libre # 0
  <2> DEFINE u == [fondo |-> f, monto |-> uso]
             e == [fondo |-> f, valor |-> c + uso]
  <2>1. q.usos = Append(p.usos, u) /\ q.escrituras = Append(p.escrituras, e)
    BY <1>3, <1>4, <1>6
  <2>2. u.fondo = f /\ u.monto = uso /\ c + uso <= fd[f]["montoDisponible"]
    BY <1>2, <1>4, <1>6
  <2>3. p.usos \in Seq(Cargo) /\ p.escrituras \in Seq(Escritura) BY DEF PlanBien
  <2>4. u \in Cargo /\ e \in Escritura BY <1>2, <1>4, <1>6 DEF Cargo, Escritura
  <2>5. e = [fondo |-> u.fondo, valor |-> fd[u.fondo]["committedAmount"] + u.monto]
    BY <2>2 DEF c
  <2> HIDE DEF u, e
  <2>6. Len(p.usos) = Len(p.escrituras) BY DEF PlanExacto
  <2>7. /\ Len(q.usos) = Len(p.usos) + 1 /\ Len(q.escrituras) = Len(p.usos) + 1
        /\ DOMAIN q.usos = 1..(Len(p.usos) + 1) /\ DOMAIN p.usos = 1..Len(p.usos)
        /\ Len(p.usos) \in Nat
        /\ \A k \in 1..Len(p.usos) :
             q.usos[k] = p.usos[k] /\ q.escrituras[k] = p.escrituras[k]
        /\ q.usos[Len(p.usos) + 1] = u /\ q.escrituras[Len(p.usos) + 1] = e
    BY <2>1, <2>3, <2>4, <2>6
  <2>8. ASSUME NEW k \in DOMAIN q.usos
        PROVE  LET g == q.usos[k].fondo
               IN  /\ q.escrituras[k] =
                        [fondo |-> g, valor |-> fd[g]["committedAmount"] + q.usos[k].monto]
                   /\ fd[g]["committedAmount"] + q.usos[k].monto <= fd[g]["montoDisponible"]
    <3>1. CASE k \in 1..Len(p.usos) BY <2>7, <3>1 DEF PlanExacto
    <3>2. CASE k = Len(p.usos) + 1 BY <2>2, <2>5, <2>7, <3>2 DEF c
    <3> QED BY <2>7, <3>1, <3>2
  <2> QED BY <2>7, <2>8 DEF PlanExacto, q
<1> QED BY <1>5, <1>6

\* More funds visited to no effect.
LEMMA PlanBienMas ==
  ASSUME NEW total, NEW fs, NEW gs, fs \subseteq gs, NEW p, PlanBien(p, total, fs)
  PROVE  PlanBien(p, total, gs)
<1>1. \A k \in DOMAIN p.usos : p.usos[k].fondo \in gs /\ p.usos[k].monto \in 1..total
  BY DEF PlanBien
<1> QED BY <1>1 DEF PlanBien

\* The plan of an order: its charges are for funds of the contract, each of at
\* most its total, and what it writes is exact when the funds owe nothing.
LEMMA PlanDeFondosBien ==
  ASSUME NEW ext \in Seq(Fondos \ {Maestro}), \A i, j \in DOMAIN ext : ext[i] = ext[j] => i = j,
         NEW total \in Nat \ {0}, NEW fd \in [Fondos -> FundRow]
  PROVE  /\ PlanBien(PlanDeFondos(fd, Maestro, ext, total), total, Fondos)
         /\ Solvente(fd) => PlanExacto(PlanDeFondos(fd, Maestro, ext, total), fd)
<1> DEFINE n == Len(ext)
           vistos(i) == {Maestro} \cup {ext[j] : j \in 1..i}
           bien(p, i) == PlanBien(p, total, vistos(i)) /\ (Solvente(fd) => PlanExacto(p, fd))
<1>1. /\ n \in Nat /\ Maestro \in Fondos
      /\ \A i \in 1..n : ext[i] \in Fondos /\ ext[i] \notin vistos(i - 1)
  <2>1. ext \in Seq(Fondos \ {Maestro}) /\ Maestro \in Fondos BY FondosAssumption
  <2>2. \A i, j \in 1..n : ext[i] = ext[j] => i = j BY <2>1
  <2>3. \A i \in 1..n : ext[i] \in Fondos \ {Maestro} BY <2>1
  <2>4. ASSUME NEW i \in 1..n, NEW j \in 1..(i - 1) PROVE ext[j] # ext[i]
    <3>1. j \in 1..n /\ j # i BY <2>1
    <3> QED BY <2>2, <3>1
  <2> QED BY <2>1, <2>3, <2>4
<1>2. PICK p : EsPlan(p, fd, Maestro, ext, total, n) /\
               PlanDeFondos(fd, Maestro, ext, total) = p[n]
  BY <1>1, PlanEs
<1>3. p = [i \in 0..n |-> IF i = 0 THEN Visitar(SinVisitar(total), fd, Maestro, TRUE)
                          ELSE VisitarExtension(p[i - 1], fd, ext[i])]
  BY <1>2 DEF EsPlan
<1> HIDE DEF n
<1>4. bien(p[0], 0)
  <2>1. p[0] = Visitar(SinVisitar(total), fd, Maestro, TRUE) BY <1>1, <1>3
  <2>2. PlanBien(SinVisitar(total), total, {}) /\ SinVisitar(total).resto > 0
    BY SinVisitarBien DEF SinVisitar
  <2>3. PlanExacto(SinVisitar(total), fd) BY DEF PlanExacto, SinVisitar
  <2> DEFINE s == SinVisitar(total)
             ninguno == {}
             v == vistos(0)
  <2>4. v = ninguno \cup {Maestro} /\ Maestro \notin ninguno /\ TRUE \in BOOLEAN /\ total \in Nat
    OBVIOUS
  <2>7. PlanBien(s, total, ninguno) /\ s.resto > 0 /\ PlanExacto(s, fd) /\ s.usos = <<>>
    BY <2>2, <2>3 DEF SinVisitar
  <2> HIDE DEF s, ninguno, v
  <2>5. PlanBien(Visitar(s, fd, Maestro, TRUE), total, ninguno \cup {Maestro})
    BY <1>1, <2>4, <2>7, VisitarBien
  <2>6. Solvente(fd) => PlanExacto(Visitar(s, fd, Maestro, TRUE), fd)
    BY <1>1, <2>4, <2>7, VisitarExacto
  <2>8. PlanBien(p[0], total, v) /\ (Solvente(fd) => PlanExacto(p[0], fd))
    BY <2>1, <2>4, <2>5, <2>6 DEF s
  <2> QED BY <2>8 DEF v
<1>5. ASSUME NEW i \in 1..n, bien(p[i - 1], i - 1) PROVE bien(p[i], i)
  <2>1. p[i] = VisitarExtension(p[i - 1], fd, ext[i])
    <3>1. i \in 0..n /\ i # 0 BY <1>1
    <3> QED BY <1>3, <3>1
  <2>2. vistos(i) = vistos(i - 1) \cup {ext[i]}
    <3>1. 1..i = (1..(i - 1)) \cup {i} BY <1>1
    <3> QED BY <3>1
  <2> DEFINE q == p[i - 1]
             antes == vistos(i - 1)
             f == ext[i]
  <2>3. f \in Fondos /\ f \notin antes /\ PlanBien(q, total, antes) /\ f # Maestro
        /\ (Solvente(fd) => PlanExacto(q, fd))
    BY <1>1, <1>5
  <2>4. p[i] = VisitarExtension(q, fd, f) /\ vistos(i) = antes \cup {f} BY <2>1, <2>2
  <2> HIDE DEF q, antes, f, vistos
  <2>5. CASE q.resto <= 0
    <3>1. p[i] = q BY <2>4, <2>5 DEF VisitarExtension
    <3>2. PlanBien(q, total, antes \cup {f}) BY <2>3, PlanBienMas
    <3> QED BY <2>3, <2>4, <3>1, <3>2
  <2>6. CASE ~(q.resto <= 0)
    <3>1. p[i] = Visitar(q, fd, f, FALSE) BY <2>4, <2>6 DEF VisitarExtension
    <3>2. q.resto > 0 BY <2>3, <2>6 DEF PlanBien
    <3>3. PlanBien(Visitar(q, fd, f, FALSE), total, antes \cup {f})
      BY <2>3, <3>2, VisitarBien
    <3>4. Solvente(fd) => PlanExacto(Visitar(q, fd, f, FALSE), fd)
      BY <2>3, <3>2, VisitarExacto
    <3> QED BY <2>4, <3>1, <3>3, <3>4
  <2> QED BY <2>5, <2>6
<1>6. bien(p[n], n)
  <2> DEFINE M == {i \in 0..n : ~bien(p[i], i)}
  <2> HIDE DEF bien
  <2>0. n \in 0..n BY <1>1
  <2> SUFFICES ASSUME M # {} PROVE FALSE BY <2>0
  <2>1. PICK i \in M : \A j \in M : i <= j
    <3>1. M \in SUBSET Nat BY <1>1
    <3> HIDE DEF M
    <3> QED BY <3>1, MinimoNat
  <2>2. i \in 0..n /\ ~bien(p[i], i) /\ i # 0 BY <1>4, <2>1
  <2>3. i \in 1..n /\ i - 1 \in 0..n /\ i - 1 \notin M BY <1>1, <2>1, <2>2
  <2> QED BY <1>5, <2>2, <2>3
<1>7. vistos(n) \subseteq Fondos BY <1>1
<1>8. PlanBien(p[n], total, Fondos)
  <2> HIDE DEF vistos
  <2> QED BY <1>6, <1>7, PlanBienMas
<1> QED BY <1>2, <1>6, <1>8
=============================================================================
