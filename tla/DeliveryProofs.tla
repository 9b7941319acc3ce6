--------------------------- MODULE DeliveryProofs ---------------------------
(***************************************************************************)
(* Theorems about Delivery, for any rows, bodies, users and versions: what *)
(* a live artifact refers to, what it serves, what its preview and the     *)
(* publish screen show, and what the codes of devices decode to.           *)
(***************************************************************************)
EXTENDS Delivery, FiniteSetTheorems, SequenceTheorems, TLAPS

-----------------------------------------------------------------------------
(* Lists that are made of finite sets.                                      *)

Below(R, S, x) == {y \in S : <<y, x>> \in R}

\* A strict total order on S.
Orders(R, S) ==
  /\ \A x \in S : <<x, x>> \notin R
  /\ \A x, y \in S : x # y => <<x, y>> \in R \/ <<y, x>> \in R
  /\ \A x, y, z \in S : <<x, y>> \in R /\ <<y, z>> \in R => <<x, z>> \in R

\* As many places as members, and each place has exactly one.
LEMMA Places ==
  ASSUME NEW S, IsFiniteSet(S), NEW R, Orders(R, S)
  PROVE  /\ Cardinality(S) \in Nat
         /\ \A x \in S : Cardinality(Below(R, S, x)) + 1 \in 1 .. Cardinality(S)
         /\ \A k \in 1 .. Cardinality(S) : \E x \in S : Cardinality(Below(R, S, x)) = k - 1
         /\ \A x, y \in S : Cardinality(Below(R, S, x)) = Cardinality(Below(R, S, y)) => x = y
         /\ \A x, y \in S : <<x, y>> \in R =>
              Cardinality(Below(R, S, x)) < Cardinality(Below(R, S, y))
<1> DEFINE n == Cardinality(S)
           place == [x \in S |-> Cardinality(Below(R, S, x)) + 1]
<1>1. n \in Nat
  BY FS_CardinalityType
<1>2. \A x \in S : /\ IsFiniteSet(Below(R, S, x)) /\ Cardinality(Below(R, S, x)) \in Nat
                   /\ Cardinality(Below(R, S, x)) < n
  <2>1. TAKE x \in S
  <2>2. Below(R, S, x) \subseteq S /\ Below(R, S, x) # S
    BY <2>1 DEF Below, Orders
  <2>3. QED BY <2>2, FS_Subset, FS_CardinalityType
<1>3. ASSUME NEW x \in S, NEW y \in S, <<x, y>> \in R
      PROVE  Cardinality(Below(R, S, x)) < Cardinality(Below(R, S, y))
  <2>1. Below(R, S, x) \subseteq Below(R, S, y)
    BY <1>3 DEF Below, Orders
  <2>2. x \in Below(R, S, y) /\ x \notin Below(R, S, x)
    BY <1>3 DEF Below, Orders
  <2>3. QED BY <1>2, <2>1, <2>2, FS_Subset
<1>4. \A x, y \in S : Cardinality(Below(R, S, x)) = Cardinality(Below(R, S, y)) => x = y
  <2>1. SUFFICES ASSUME NEW x \in S, NEW y \in S, x # y
                 PROVE  Cardinality(Below(R, S, x)) # Cardinality(Below(R, S, y))
    OBVIOUS
  <2>2. CASE <<x, y>> \in R
    BY <1>2, <1>3, <2>1, <2>2
  <2>3. CASE <<y, x>> \in R
    BY <1>2, <1>3, <2>1, <2>3
  <2>4. QED BY <2>1, <2>2, <2>3 DEF Orders
<1>5. place \in Injection(S, 1 .. n)
  <2>1. place \in [S -> 1 .. n]
    BY <1>1, <1>2
  <2>2. \A x, y \in S : place[x] = place[y] => x = y
    BY <1>2, <1>4
  <2>3. QED BY <2>1, <2>2 DEF Injection, IsInjective
<1>6. IsFiniteSet(1 .. n) /\ Cardinality(1 .. n) = n
  BY <1>1, FS_Interval
<1>7. place \in Surjection(S, 1 .. n)
  BY <1>5, <1>6, FS_Injection
<1>8. \A k \in 1 .. n : \E x \in S : Cardinality(Below(R, S, x)) = k - 1
  <2>1. TAKE k \in 1 .. n
  <2>2. PICK x \in S : place[x] = k
    BY <1>7, <2>1 DEF Surjection
  <2>3. QED BY <1>2, <2>1, <2>2
<1>9. \A x \in S : Cardinality(Below(R, S, x)) + 1 \in 1 .. n
  BY <1>1, <1>2
<1>10. QED BY <1>1, <1>3, <1>4, <1>8, <1>9

\* Something has nothing below it.
LEMMA FirstPlace ==
  ASSUME NEW S, IsFiniteSet(S), S # {}, NEW R, Orders(R, S)
  PROVE  \E x \in S : \A y \in S : <<y, x>> \notin R
<1>1. 1 \in 1 .. Cardinality(S)
  BY FS_CardinalityType, FS_EmptySet
<1>2. PICK x \in S : Cardinality(Below(R, S, x)) = 1 - 1
  BY <1>1, Places
<1>3. Below(R, S, x) = {}
  <2>1. IsFiniteSet(Below(R, S, x))
    BY FS_Subset DEF Below
  <2>2. QED BY <1>2, <2>1, FS_EmptySet
<1>4. QED BY <1>3 DEF Below

\* A finite set of integers has a least and a greatest member.
LEMMA Bounds ==
  ASSUME NEW S, IsFiniteSet(S), S \subseteq Int, S # {}
  PROVE  /\ Min(S) \in S /\ \A y \in S : Min(S) <= y
         /\ Max(S) \in S /\ \A y \in S : Max(S) >= y
<1> DEFINE Up == {p \in S \X S : p[1] < p[2]}
           Down == {p \in S \X S : p[1] > p[2]}
<1>1. Orders(Up, S) /\ Orders(Down, S)
  BY DEF Orders
<1>2. PICK low \in S : \A y \in S : <<y, low>> \notin Up
  <2> HIDE DEF Up
  <2>1. QED BY <1>1, FirstPlace
<1>3. PICK high \in S : \A y \in S : <<y, high>> \notin Down
  <2> HIDE DEF Down
  <2>1. QED BY <1>1, FirstPlace
<1>4. ASSUME NEW y \in S PROVE low <= y /\ high >= y
  <2>1. ~(y < low)
    BY <1>2, <1>4
  <2>2. ~(y > high)
    BY <1>3, <1>4
  <2>3. y \in Int /\ low \in Int /\ high \in Int
    OBVIOUS
  <2>4. QED BY <2>1, <2>2, <2>3
<1>5. QED BY <1>4 DEF Min, Max

\* A list of the members of the set, each once.
ListOf(list, S) ==
  /\ DOMAIN list = 1 .. Cardinality(S) /\ Cardinality(S) \in Nat
  /\ \A k \in DOMAIN list : list[k] \in S
  /\ \A x \in S : \E k \in DOMAIN list : list[k] = x

LEMMA SortedIs ==
  ASSUME NEW S, IsFiniteSet(S), NEW R, Orders(R, S)
  PROVE  LET list == SortedBy(S, R)
         IN  /\ ListOf(list, S)
             /\ \A i, j \in DOMAIN list : i < j => <<list[i], list[j]>> \in R
<1> DEFINE list == SortedBy(S, R)
<1>1. list = [k \in 1 .. Cardinality(S) |-> CHOOSE x \in S : Cardinality(Below(R, S, x)) = k - 1]
  BY DEF SortedBy, Below
<1> HIDE DEF list
<1>2. \A k \in 1 .. Cardinality(S) : \E x \in S : Cardinality(Below(R, S, x)) = k - 1
  BY Places
<1>3. \A k \in 1 .. Cardinality(S) :
        list[k] \in S /\ Cardinality(Below(R, S, list[k])) = k - 1
  BY <1>1, <1>2
<1>4. \A x \in S : \E k \in 1 .. Cardinality(S) : list[k] = x
  <2>1. TAKE x \in S
  <2>2. PICK k \in 1 .. Cardinality(S) : k = Cardinality(Below(R, S, x)) + 1
    BY Places
  <2>3. Cardinality(Below(R, S, x)) \in Nat
    BY FS_Subset, FS_CardinalityType DEF Below
  <2>4. list[k] \in S /\ Cardinality(Below(R, S, list[k])) = Cardinality(Below(R, S, x))
    BY <1>3, <2>2, <2>3
  <2>5. list[k] = x
    BY <2>4, Places
  <2>6. QED BY <2>5
<1>5. DOMAIN list = 1 .. Cardinality(S)
  BY <1>1
<1>6. ASSUME NEW i \in 1 .. Cardinality(S), NEW j \in 1 .. Cardinality(S), i < j
      PROVE  <<list[i], list[j]>> \in R
  <2>1. /\ Cardinality(Below(R, S, list[i])) = i - 1 /\ list[i] \in S
        /\ Cardinality(Below(R, S, list[j])) = j - 1 /\ list[j] \in S
    BY <1>3
  <2>2. i \in Int /\ j \in Int
    BY <1>6
  <2>3. list[i] # list[j]
    BY <1>6, <2>1, <2>2
  <2>4. <<list[j], list[i]>> \notin R
    <3>1. SUFFICES ASSUME <<list[j], list[i]>> \in R PROVE FALSE
      OBVIOUS
    <3>2. Cardinality(Below(R, S, list[j])) < Cardinality(Below(R, S, list[i]))
      BY <2>1, <3>1, Places
    <3>3. QED BY <1>6, <2>1, <2>2, <3>2
  <2>5. QED BY <2>1, <2>3, <2>4 DEF Orders
<1>7. Cardinality(S) \in Nat
  BY Places
<1>8. QED BY <1>3, <1>4, <1>5, <1>6, <1>7 DEF ListOf, list

\* The members of S that are listed, in the order of the list.
LEMMA InOrderIs ==
  ASSUME NEW T, NEW list \in Seq(T), NEW S
  PROVE  /\ InOrder(list, S) \in Seq(S \cap Range(list))
         /\ S \cap Range(list) \subseteq Range(InOrder(list, S))
<1> DEFINE P == {i \in DOMAIN list : list[i] \in S}
           R == {p \in P \X P : p[1] < p[2]}
           at == SortedBy(P, R)
<1>1. IsFiniteSet(P) /\ P \subseteq Int
  <2>1. DOMAIN list = 1 .. Len(list) /\ Len(list) \in Nat
    OBVIOUS
  <2>2. IsFiniteSet(1 .. Len(list))
    BY <2>1, FS_Interval
  <2>3. P \in SUBSET (1 .. Len(list))
    BY <2>1
  <2>4. IsFiniteSet(P)
    BY <2>2, <2>3, FS_Subset
  <2>5. QED BY <2>3, <2>4
<1>2. Orders(R, P)
  BY <1>1 DEF Orders
<1>3. ListOf(at, P)
  BY <1>1, <1>2, SortedIs
<1>4. InOrder(list, S) = [k \in DOMAIN at |-> list[at[k]]]
  BY DEF InOrder, Entries
<1> HIDE DEF at
<1>5. InOrder(list, S) \in [1 .. Cardinality(P) -> S \cap Range(list)] /\ Cardinality(P) \in Nat
  BY <1>3, <1>4 DEF ListOf, Range
<1>6. ASSUME NEW x \in S \cap Range(list) PROVE x \in Range(InOrder(list, S))
  <2>1. PICK i \in P : list[i] = x
    BY <1>6 DEF Range
  <2>2. PICK k \in DOMAIN at : at[k] = i
    BY <1>3, <2>1 DEF ListOf
  <2>3. QED BY <1>4, <2>1, <2>2 DEF Range
<1>7. InOrder(list, S) \in Seq(S \cap Range(list))
  <2> HIDE DEF P
  <2>1. QED BY <1>5
<1>8. QED BY <1>6, <1>7

Ascending(variants) ==
  \A i, j \in DOMAIN variants : i < j => variants[i].order <= variants[j].order

\* Sorting keeps the variants, and makes them ascending.
LEMMA SortKeeps ==
  ASSUME NEW T, NEW variants \in Seq(T), \A v \in T : v.order \in Int
  PROVE  SortByOrder(variants) \in Seq(T) /\ Ascending(SortByOrder(variants))
<1> DEFINE D == DOMAIN variants
           R == {p \in D \X D : \/ variants[p[1]].order < variants[p[2]].order
                                \/ variants[p[1]].order = variants[p[2]].order /\ p[1] < p[2]}
           place == SortedBy(D, R)
<1>1. D = 1 .. Len(variants) /\ Len(variants) \in Nat /\ \A i \in D : variants[i] \in T
  OBVIOUS
<1>2. IsFiniteSet(D) /\ Cardinality(D) = Len(variants)
  BY <1>1, FS_Interval
<1>3. Orders(R, D)
  BY <1>1 DEF Orders
<1>4. ListOf(place, D) /\ \A i, j \in DOMAIN place : i < j => <<place[i], place[j]>> \in R
  <2> HIDE DEF D, R
  <2>1. QED BY <1>2, <1>3, SortedIs
<1>5. SortByOrder(variants) = [i \in D |-> variants[place[i]]]
  BY DEF SortByOrder
<1> HIDE DEF place
<1>6. \A i \in D : place[i] \in D
  BY <1>1, <1>2, <1>4 DEF ListOf
<1>7. SortByOrder(variants) \in [1 .. Len(variants) -> T]
  BY <1>1, <1>5, <1>6
<1>8. ASSUME NEW i \in D, NEW j \in D, i < j
      PROVE  variants[place[i]].order <= variants[place[j]].order
  <2>1. DOMAIN place = D
    BY <1>1, <1>2, <1>4 DEF ListOf
  <2>2. <<place[i], place[j]>> \in R
    BY <1>4, <1>8, <2>1
  <2>3. variants[place[i]].order \in Int /\ variants[place[j]].order \in Int
    BY <1>1, <1>6
  <2>4. QED BY <2>2, <2>3
<1>9. Ascending(SortByOrder(variants))
  BY <1>5, <1>8 DEF Ascending
<1>10. QED BY <1>1, <1>7, <1>9

\* A list that is ascending is sorted already.
LEMMA SortAgain ==
  ASSUME NEW T, NEW variants \in Seq(T), \A v \in T : v.order \in Int, Ascending(variants)
  PROVE  SortByOrder(variants) = variants
<1> DEFINE D == DOMAIN variants
           R == {p \in D \X D : \/ variants[p[1]].order < variants[p[2]].order
                                \/ variants[p[1]].order = variants[p[2]].order /\ p[1] < p[2]}
           place == SortedBy(D, R)
<1>1. D = 1 .. Len(variants) /\ Len(variants) \in Nat /\ \A i \in D : variants[i] \in T
  OBVIOUS
<1>2. Cardinality(D) = Len(variants)
  BY <1>1, FS_Interval
<1>3. \A i, j \in D : <<i, j>> \in R <=> i < j
  <2>1. TAKE i, j \in D
  <2>2. variants[i].order \in Int /\ variants[j].order \in Int /\ i \in Int /\ j \in Int
    BY <1>1, <2>1
  <2>3. CASE i < j
    BY <2>1, <2>2, <2>3 DEF Ascending
  <2>4. CASE i = j
    BY <2>1, <2>2, <2>4
  <2>5. CASE j < i
    BY <2>1, <2>2, <2>5 DEF Ascending
  <2>6. QED BY <2>2, <2>3, <2>4, <2>5
<1>4. \A i \in D : Cardinality({j \in D : <<j, i>> \in R}) = i - 1
  <2>1. TAKE i \in D
  <2>2. {j \in D : <<j, i>> \in R} = 1 .. (i - 1)
    <3> HIDE DEF R
    <3>1. QED BY <1>1, <1>3, <2>1
  <2>3. i - 1 \in Nat
    BY <1>1, <2>1
  <2>4. Cardinality(1 .. (i - 1)) = i - 1
    <3> DEFINE n == i - 1
    <3>1. n \in Nat
      BY <2>3
    <3> HIDE DEF n
    <3>2. Cardinality(1 .. n) = n
      BY <3>1, FS_Interval
    <3>3. QED BY <3>2 DEF n
  <2>5. QED BY <2>2, <2>4
<1>5. place = [k \in 1 .. Cardinality(D) |->
                 CHOOSE i \in D : Cardinality({j \in D : <<j, i>> \in R}) = k - 1]
  BY DEF SortedBy
<1>6. SortByOrder(variants) = [i \in D |-> variants[place[i]]]
  BY DEF SortByOrder
<1> HIDE DEF R, place
<1>7. \A k \in D : place[k] = k
  BY <1>1, <1>2, <1>4, <1>5
<1>8. QED BY <1>6, <1>7

-----------------------------------------------------------------------------
(* What a generated config is made of.                                      *)

\* A variant of a flag's list in an environment: a conditional one, or the one of a test
\* or rollout that serves the flag there.
Made(v, f, env) ==
  /\ v.order \in Int
  /\ \/ v.type = "conditional"
     \/ \E e \in Running(exps) :
          Serves(exps[e], f, env) /\ v = Assigned(e, exps[e], f, env, v.order)

\* The list is ascending, and tests and rollouts come after every conditional variant.
Layered(variants) ==
  /\ Ascending(variants)
  /\ \A v \in Range(variants) : v.order \in Int
  /\ \E base \in Int : \A v \in Range(variants) :
       v.type = "conditional" <=> v.order <= base

\* A flag's list is served by running tests and rollouts that have a value for it.
LEMMA ServingIs ==
  ASSUME TypeOK, NEW f \in Flags, NEW env \in Envs
  PROVE  Serving(f, env, exps) \in Seq({e \in Running(exps) : Serves(exps[e], f, env)})
<1> DEFINE serve == {k \in DOMAIN ExpOrder :
                       ExpOrder[k] \in Running(exps) /\ Serves(exps[ExpOrder[k]], f, env)}
           Of(k) == {k} \X {j \in DOMAIN exps[ExpOrder[k]].flagIds :
                              exps[ExpOrder[k]].flagIds[j] = f}
           slots == UNION {Of(k) : k \in serve}
           R == {p \in slots \X slots : \/ p[1][1] < p[2][1]
                                        \/ p[1][1] = p[2][1] /\ p[1][2] < p[2][2]}
           at == SortedBy(slots, R)
<1>1. IsFiniteSet(serve) /\ serve \subseteq Int
  <2>1. DOMAIN ExpOrder = 1 .. Len(ExpOrder) /\ Len(ExpOrder) \in Nat
    BY BodiesAssumption
  <2>2. IsFiniteSet(1 .. Len(ExpOrder)) /\ serve \in SUBSET (1 .. Len(ExpOrder))
    BY <2>1, FS_Interval
  <2> HIDE DEF serve
  <2>3. IsFiniteSet(serve)
    BY <2>2, FS_Subset
  <2>4. QED BY <2>2, <2>3
<1>2. ASSUME NEW k \in serve PROVE IsFiniteSet(Of(k)) /\ Of(k) \subseteq serve \X Int
  <2> DEFINE ids == exps[ExpOrder[k]].flagIds
             named == {j \in DOMAIN ids : ids[j] = f}
  <2>1. ExpTyped(exps[ExpOrder[k]])
    BY <1>2 DEF Running, TypeOK
  <2>2. ids \in Seq(Range(ids))
    BY <2>1 DEF ExpTyped, ExpPatchTyped, ExpColumns
  <2> HIDE DEF ids
  <2>3. DOMAIN ids = 1 .. Len(ids) /\ Len(ids) \in Nat
    BY <2>2
  <2>4. IsFiniteSet(1 .. Len(ids)) /\ named \in SUBSET (1 .. Len(ids))
    BY <2>3, FS_Interval
  <2>5. named \subseteq Int
    BY <2>3
  <2> HIDE DEF named
  <2>10. IsFiniteSet(named)
    BY <2>4, FS_Subset
  <2>6. IsFiniteSet({k})
    BY FS_Singleton
  <2>7. IsFiniteSet({k} \X named)
    BY <2>6, <2>10, FS_Product
  <2>8. Of(k) = {k} \X named
    BY DEF named, ids
  <2> HIDE DEF Of
  <2>9. QED BY <1>2, <2>5, <2>7, <2>8
<1>3. slots \subseteq serve \X Int
  <2> HIDE DEF Of, serve
  <2>1. QED BY <1>2
<1>4. IsFiniteSet(slots)
  <2> DEFINE Parts == {Of(k) : k \in serve}
             part == [k \in serve |-> Of(k)]
  <2> HIDE DEF Of, serve
  <2>1. part \in Surjection(serve, Parts)
    BY DEF Surjection
  <2> HIDE DEF part
  <2>2. IsFiniteSet(Parts)
    <3> HIDE DEF Parts
    <3>1. QED BY <1>1, <2>1, FS_Surjection
  <2>3. \A P \in Parts : IsFiniteSet(P)
    BY <1>2
  <2>4. IsFiniteSet(UNION Parts)
    <3> HIDE DEF Parts
    <3>1. QED BY <2>2, <2>3, FS_UNION
  <2>5. QED BY <2>4
<1>5. Orders(R, slots)
  <2> HIDE DEF slots, serve
  <2>1. \A x \in slots : x[1] \in Int /\ x[2] \in Int /\ x = <<x[1], x[2]>>
    <3>1. slots \subseteq Int \X Int
      BY <1>1, <1>3
    <3>2. \A x \in Int \X Int : x[1] \in Int /\ x[2] \in Int /\ x = <<x[1], x[2]>>
      OBVIOUS
    <3>3. QED BY ONLY <3>1, <3>2
  <2>2. \A x, y \in slots :
          <<x, y>> \in R <=> x[1] < y[1] \/ (x[1] = y[1] /\ x[2] < y[2])
    OBVIOUS
  <2> HIDE DEF R
  <2>3. \A x \in slots : <<x, x>> \notin R
    BY <2>1, <2>2
  <2>4. ASSUME NEW x \in slots, NEW y \in slots, x # y PROVE <<x, y>> \in R \/ <<y, x>> \in R
    <3>1. x[1] # y[1] \/ x[2] # y[2]
      BY <2>1, <2>4
    <3>2. QED BY <2>1, <2>2, <3>1
  <2>5. ASSUME NEW x \in slots, NEW y \in slots, NEW z \in slots, <<x, y>> \in R, <<y, z>> \in R
        PROVE  <<x, z>> \in R
    BY <2>1, <2>2, <2>5
  <2>6. QED BY <2>3, <2>4, <2>5 DEF Orders
<1>6. ListOf(at, slots)
  <2> HIDE DEF slots, R
  <2>1. QED BY <1>4, <1>5, SortedIs
<1>7. Serving(f, env, exps) = [i \in DOMAIN at |-> ExpOrder[at[i][1]]]
  BY DEF Serving
<1> HIDE DEF at, slots, R
<1>8. /\ DOMAIN at = 1 .. Cardinality(slots) /\ Cardinality(slots) \in Nat
      /\ \A i \in DOMAIN at : at[i][1] \in serve
  BY <1>3, <1>6 DEF ListOf
<1>9. \A k \in serve : ExpOrder[k] \in {e \in Running(exps) : Serves(exps[e], f, env)}
  OBVIOUS
<1> HIDE DEF serve
<1>10. QED BY <1>7, <1>8, <1>9

LEMMA VariantsMade ==
  ASSUME TypeOK, NEW f \in Flags, flags[f] # Null, NEW env \in Envs
  PROVE  LET variants == EnvironmentConfig(f, env, flags, exps).variants
         IN  /\ variants \in Seq(Range(variants))
             /\ \A v \in Range(variants) : Made(v, f, env)
             /\ Layered(variants)
<1> DEFINE stored == flags[f].variants[env]
           conditional == [i \in DOMAIN stored |-> Conditional(stored[i])]
           base == HighestOrder(conditional)
           those == {e \in Running(exps) : Serves(exps[e], f, env)}
           serving == Serving(f, env, exps)
           assigned == [k \in DOMAIN serving |->
                          Assigned(serving[k], exps[serving[k]], f, env, base + 10 * k)]
           T == Range(conditional) \cup Range(assigned)
           variants == EnvironmentConfig(f, env, flags, exps).variants
<1>1. /\ stored \in Seq(Range(stored))
      /\ \A v \in Range(stored) : v.order \in Int \cup {Null}
  BY DEF TypeOK, FlagTyped, FlagPatchTyped, FlagColumns, ConditionalsTyped
<1>2. DOMAIN stored = 1 .. Len(stored) /\ Len(stored) \in Nat
  BY <1>1
<1>3. \A i \in DOMAIN stored :
        conditional[i].order \in Int /\ conditional[i].type = "conditional"
  BY <1>1 DEF Conditional, Range
<1>4. \A v \in Range(conditional) : v.order \in Int /\ Made(v, f, env)
  BY <1>3 DEF Range, Made
<1>5. base \in Int /\ \A v \in Range(conditional) : v.order <= base
  <2> DEFINE S == {v.order : v \in Range(conditional)}
  <2>1. CASE conditional = <<>>
    <3>1. base = 0
      BY <2>1 DEF HighestOrder
    <3>2. DOMAIN conditional = {}
      <4> HIDE DEF conditional
      <4>1. QED BY <2>1
    <3>3. Range(conditional) = {}
      BY <3>2 DEF Range
    <3>4. QED BY <3>1, <3>3
  <2>2. CASE conditional # <<>>
    <3>1. conditional \in Seq(Range(conditional)) /\ DOMAIN conditional = 1 .. Len(stored)
      BY <1>2 DEF Range
    <3>2. 1 \in DOMAIN conditional
      BY <1>2, <2>2, <3>1
    <3>3. S # {} /\ S \subseteq Int
      BY <1>4, <3>2 DEF Range
    <3>4. IsFiniteSet(S)
      <4> DEFINE order == [i \in 1 .. Len(stored) |-> conditional[i].order]
      <4>1. order \in Surjection(1 .. Len(stored), S)
        BY <3>1 DEF Surjection, Range
      <4>2. IsFiniteSet(1 .. Len(stored))
        BY <1>2, FS_Interval
      <4> HIDE DEF order, S
      <4>3. QED BY <4>1, <4>2, FS_Surjection
    <3>5. Max(S) \in Int /\ \A n \in S : n <= Max(S)
      <4> HIDE DEF S
      <4>1. QED BY <3>3, <3>4, Bounds
    <3>6. base = Max(S)
      BY <2>2 DEF HighestOrder
    <3>7. QED BY <3>5, <3>6
  <2>3. QED BY <2>1, <2>2
<1>6. serving \in Seq(those)
  BY ServingIs
<1> HIDE DEF base, serving, stored
<1>7. /\ DOMAIN serving = 1 .. Len(serving) /\ Len(serving) \in Nat
      /\ \A k \in DOMAIN serving : serving[k] \in those
  BY <1>6
<1>8. ASSUME NEW v \in Range(assigned)
      PROVE  /\ v.order \in Int /\ Made(v, f, env)
             /\ v.type # "conditional" /\ v.order > base
  <2>1. PICK k \in DOMAIN serving : v = assigned[k]
    BY <1>8 DEF Range
  <2> DEFINE e == serving[k]
             n == base + 10 * k
  <2>2. e \in Running(exps) /\ Serves(exps[e], f, env) /\ n \in Int /\ n > base
    BY <1>5, <1>7
  <2>3. v = Assigned(e, exps[e], f, env, n)
    BY <2>1
  <2> HIDE DEF e, n
  <2>4. v.order = n /\ v.type # "conditional"
    BY <2>3 DEF Assigned
  <2>5. QED BY <2>2, <2>3, <2>4 DEF Made
<1>9. conditional \in Seq(T) /\ assigned \in Seq(T)
  BY <1>2, <1>7 DEF Range
<1>10. variants = SortByOrder(conditional \o assigned)
  BY DEF EnvironmentConfig, base, serving, stored
<1> HIDE DEF variants, T
<1>11. variants \in Seq(T) /\ Ascending(variants)
  <2>1. \A v \in T : v.order \in Int
    BY <1>4, <1>8 DEF T
  <2>2. conditional \o assigned \in Seq(T)
    BY <1>9
  <2>3. QED BY <1>10, <2>1, <2>2, SortKeeps
<1>12. \A v \in Range(variants) : Made(v, f, env)
  <2>1. Range(variants) \subseteq T
    BY <1>11 DEF Range
  <2>2. QED BY <1>4, <1>8, <2>1 DEF T
<1>13. variants \in Seq(Range(variants))
  BY <1>11 DEF Range
<1>14. Layered(variants)
  <2>1. Range(variants) \subseteq T
    BY <1>11 DEF Range
  <2>2. \A v \in T : v.order \in Int /\ (v.type = "conditional" <=> v.order <= base)
    <3>1. \A v \in Range(conditional) : v.type = "conditional"
      BY <1>3 DEF Range
    <3>2. QED BY <1>4, <1>5, <1>8, <3>1 DEF T
  <2>3. QED BY <1>5, <1>11, <2>1, <2>2 DEF Layered
<1>15. QED BY <1>12, <1>13, <1>14 DEF variants

\* The groups of a published test have the names of the stored ones.
LEMMA GroupsNamed ==
  ASSUME NEW row, ExpTyped(row)
  PROVE  DOMAIN StoredVariants(row) \subseteq {g.name : g \in Range(TestGroups(row))}
<1> DEFINE D == DOMAIN StoredVariants(row)
           named == InOrder(GroupOrder, D)
<1>1. D \subseteq Groups
  <2>1. CASE row.variants = Null
    BY <2>1 DEF StoredVariants
  <2>2. CASE row.variants # Null
    BY <2>2 DEF StoredVariants, ExpTyped, ExpPatchTyped, ExpColumns, GroupsTyped
  <2>3. QED BY <2>1, <2>2
<1>2. D \subseteq Range(named)
  <2>1. GroupOrder \in Seq(Groups)
    BY BodiesAssumption
  <2>2. D \cap Range(GroupOrder) \subseteq Range(named)
    <3> HIDE DEF D
    <3>1. QED BY <2>1, InOrderIs DEF named
  <2>3. QED BY <1>1, <2>2 DEF Groups
<1>3. TestGroups(row) = [i \in DOMAIN named |->
                           [name |-> named[i], percentage |-> row.variants[named[i]].percentage]]
  BY DEF TestGroups
<1> HIDE DEF D, named
<1>4. ASSUME NEW x \in D PROVE x \in {g.name : g \in Range(TestGroups(row))}
  <2>1. PICK i \in DOMAIN named : named[i] = x
    BY <1>2, <1>4 DEF Range
  <2>2. TestGroups(row)[i].name = x /\ i \in DOMAIN TestGroups(row)
    BY <1>3, <2>1
  <2>3. QED BY <2>2 DEF Range
<1>5. QED BY <1>4 DEF D

-----------------------------------------------------------------------------
(* What a config refers to, and what clients are served by it.              *)

\* What a variant names is in the config, and its values are there.
Grounded(config, v) ==
  \/ v.type = "conditional"
  \/ v.type = "rollout" /\ v.rollout \in DOMAIN config.rollouts /\ v.value # Null
  \/ /\ v.type = "test" /\ v.test \in DOMAIN config.tests
     /\ DOMAIN v.values \subseteq {g.name : g \in Range(config.tests[v.test].groups)}
     /\ \A g \in DOMAIN v.values : v.values[g] # Null

\* Every list is in its layers and refers only to what the config has.
Complete(config) ==
  \A f \in DOMAIN config.flags, env \in Envs :
    LET variants == config.flags[f].envs[env].variants
    IN  /\ variants \in Seq(Range(variants)) /\ Layered(variants)
        /\ \A v \in Range(variants) : Grounded(config, v)

\* A generated config is complete: a test or rollout that serves a flag is running, so it
\* is in the config with its groups.
LEMMA GeneratedComplete ==
  ASSUME TypeOK
  PROVE  Complete(GenerateConfig(flags, exps))
<1> DEFINE config == GenerateConfig(flags, exps)
<1>1. SUFFICES ASSUME NEW f \in DOMAIN config.flags, NEW env \in Envs
               PROVE  LET variants == config.flags[f].envs[env].variants
                      IN  /\ variants \in Seq(Range(variants)) /\ Layered(variants)
                          /\ \A v \in Range(variants) : Grounded(config, v)
  BY DEF Complete
<1>2. f \in Flags /\ flags[f] # Null
  BY DEF GenerateConfig
<1> DEFINE variants == EnvironmentConfig(f, env, flags, exps).variants
<1>3. config.flags[f].envs[env].variants = variants
  BY <1>2 DEF GenerateConfig
<1>4. /\ variants \in Seq(Range(variants)) /\ Layered(variants)
      /\ \A v \in Range(variants) : Made(v, f, env)
  BY <1>2, VariantsMade
<1>5. ASSUME NEW v, Made(v, f, env) PROVE Grounded(config, v)
  <2>1. CASE v.type = "conditional"
    BY <2>1 DEF Grounded
  <2>2. CASE \E e \in Running(exps) :
               Serves(exps[e], f, env) /\ v = Assigned(e, exps[e], f, env, v.order)
    <3>1. PICK e \in Running(exps) :
            Serves(exps[e], f, env) /\ v = Assigned(e, exps[e], f, env, v.order)
      BY <2>2
    <3> DEFINE row == exps[e]
               n == v.order
    <3>2. e \in Experiments /\ ExpTyped(row)
      BY <3>1 DEF Running, TypeOK
    <3>3. CASE row.type = "TEST"
      <4>1. e \in OfType(exps, "TEST")
        BY <3>1, <3>3 DEF OfType
      <4>2. e \in DOMAIN config.tests /\ config.tests[e].groups = TestGroups(row)
        BY <4>1 DEF GenerateConfig
      <4>3. v = [type |-> "test", order |-> n, test |-> e, values |-> GroupValues(row, f, env)]
        BY <3>1, <3>3 DEF Assigned
      <4> HIDE DEF n
      <4>4. v.type = "test" /\ v.test = e /\ v.values = GroupValues(row, f, env)
        BY <4>3
      <4>5. /\ DOMAIN v.values \subseteq DOMAIN StoredVariants(row)
            /\ \A g \in DOMAIN v.values : v.values[g] # Null
        BY <4>4 DEF GroupValues
      <4>6. DOMAIN StoredVariants(row) \subseteq {g.name : g \in Range(TestGroups(row))}
        BY <3>2, GroupsNamed
      <4> HIDE DEF config
      <4>7. QED BY <4>2, <4>4, <4>5, <4>6 DEF Grounded
    <3>4. CASE row.type # "TEST"
      <4>1. e \in OfType(exps, "ROLLOUT")
        BY <3>1, <3>2, <3>4 DEF OfType, ExpTyped
      <4>2. e \in DOMAIN config.rollouts
        BY <4>1 DEF GenerateConfig
      <4>3. v = [type |-> "rollout", order |-> n, rollout |-> e,
                 value |-> RolloutValue(row, f, env)]
        BY <3>1, <3>4 DEF Assigned
      <4> HIDE DEF n
      <4>4. RolloutValue(row, f, env) # Null
        BY <3>1, <3>4 DEF Serves
      <4>5. QED BY <4>2, <4>3, <4>4 DEF Grounded
    <3>5. QED BY <3>3, <3>4
  <2>3. QED BY <1>5, <2>1, <2>2 DEF Made
<1>6. QED BY <1>3, <1>4, <1>5

\* What passes validation for a json flag: everything it may serve is JSON text.
LEMMA JsonValid ==
  ASSUME NEW config, ValidateConfig(config) = {}, NEW f \in DOMAIN config.flags,
         config.flags[f].type = "json", NEW env \in Envs
  PROVE  LET cfg == config.flags[f].envs[env]
         IN  /\ cfg.default \in JsonTexts
             /\ \A v \in Range(cfg.variants) : VariantValues(v) \subseteq JsonTexts \cup {Null}
<1> DEFINE flag == config.flags[f]
           cfg == flag.envs[env]
<1>1. JsonStrings(flag)
  <2>1. <<f, "invalid_json">> \notin ValidateConfig(config)
    OBVIOUS
  <2>2. QED BY <2>1 DEF ValidateConfig
<1>2. cfg.default # Null
  <2>1. <<f, "missing_default">> \notin ValidateConfig(config)
    OBVIOUS
  <2>2. QED BY <2>1 DEF ValidateConfig
<1>3. ServedValues(flag, env) \subseteq JsonTexts \cup {Null}
  BY <1>1 DEF JsonStrings
<1>4. cfg.default \in ServedValues(flag, env)
  BY DEF ServedValues
<1>5. \A v \in Range(cfg.variants) : VariantValues(v) \subseteq ServedValues(flag, env)
  BY DEF ServedValues
<1>6. QED BY <1>2, <1>3, <1>4, <1>5

\* What a variant serves when it serves somebody.
LEMMA TakenValue ==
  ASSUME NEW config, NEW v, Grounded(config, v), NEW user, NEW attributes,
         Taken(config, v, user, attributes) > 0
  PROVE  LET at == Taken(config, v, user, attributes)
             value == IF v.type = "test" THEN v.values[config.tests[v.test].groups[at].name]
                      ELSE v.value
         IN  value \in VariantValues(v) /\ (value # Null \/ v.type = "conditional")
<1>1. CASE v.type # "test"
  BY <1>1 DEF Grounded, VariantValues
<1>2. CASE v.type = "test"
  <2> DEFINE test == config.tests[v.test]
             group == AssignVariant(v.test, user, test.groups)
             at == Taken(config, v, user, attributes)
  <2>1. /\ DOMAIN v.values \subseteq {g.name : g \in Range(test.groups)}
        /\ \A g \in DOMAIN v.values : v.values[g] # Null
    BY <1>2 DEF Grounded
  <2> HIDE DEF group
  <2>2. at = IF /\ EvaluateConditions(test.conditions, attributes, Host[user])
                /\ group \in DOMAIN v.values
             THEN CHOOSE i \in DOMAIN test.groups : test.groups[i].name = group
             ELSE 0
    BY <1>2 DEF Taken, group
  <2>3. /\ group \in DOMAIN v.values
        /\ at = CHOOSE i \in DOMAIN test.groups : test.groups[i].name = group
    <3>1. at # 0
      OBVIOUS
    <3> HIDE DEF at, test
    <3>2. QED BY ONLY <2>2, <3>1
  <2>4. \E i \in DOMAIN test.groups : test.groups[i].name = group
    BY <2>1, <2>3 DEF Range
  <2>5. test.groups[at].name = group
    BY <2>3, <2>4
  <2>6. QED BY <1>2, <2>1, <2>3, <2>5 DEF VariantValues, Range
<1>3. QED BY <1>1, <1>2

\* A value that serving by a variant may have: a conditional variant may lack one.
ServedBy(v, served) ==
  /\ served.by = v.type /\ served.value \in VariantValues(v)
  /\ served.value # Null \/ v.type = "conditional"

\* The value a client resolves is the default or one that a variant serves.
LEMMA ResolvedValue ==
  ASSUME NEW config, Complete(config), NEW f \in DOMAIN config.flags, NEW env \in Envs,
         NEW user, NEW attributes
  PROVE  LET cfg == config.flags[f].envs[env]
             served == Resolve(config, f, env, user, attributes)
         IN  served.value = cfg.default \/ \E v \in Range(cfg.variants) : ServedBy(v, served)
<1> DEFINE cfg == config.flags[f].envs[env]
           variants == cfg.variants
           hits == {i \in DOMAIN variants : Taken(config, variants[i], user, attributes) > 0}
           i == Min(hits)
           v == variants[i]
           at == Taken(config, v, user, attributes)
           value == IF v.type = "test" THEN v.values[config.tests[v.test].groups[at].name]
                    ELSE v.value
<1>1. variants \in Seq(Range(variants)) /\ \A w \in Range(variants) : Grounded(config, w)
  BY DEF Complete
<1>2. CASE hits = {}
  BY <1>2 DEF Resolve
<1>3. CASE hits # {}
  <2> DEFINE served == Resolve(config, f, env, user, attributes)
  <2>1. served.value = value /\ served.by = v.type
    BY <1>3 DEF Resolve
  <2>2. IsFiniteSet(hits) /\ hits \subseteq Int
    <3>1. DOMAIN variants = 1 .. Len(variants) /\ Len(variants) \in Nat
      BY <1>1
    <3>2. IsFiniteSet(1 .. Len(variants)) /\ hits \in SUBSET (1 .. Len(variants))
      BY <3>1, FS_Interval
    <3> HIDE DEF hits
    <3>3. IsFiniteSet(hits)
      BY <3>2, FS_Subset
    <3>4. QED BY <3>2, <3>3
  <2>3. i \in hits
    <3> HIDE DEF hits
    <3>1. QED BY <1>3, <2>2, Bounds
  <2>4. v \in Range(variants) /\ Grounded(config, v) /\ at > 0
    BY <1>1, <2>3 DEF Range
  <2> HIDE DEF v
  <2>5. value \in VariantValues(v) /\ (value # Null \/ v.type = "conditional")
    BY <2>4, TakenValue
  <2> HIDE DEF value, served
  <2>6. ServedBy(v, served)
    BY <2>1, <2>5 DEF ServedBy
  <2>7. QED BY <2>4, <2>6 DEF served
<1>4. QED BY <1>2, <1>3

\* The first variant whose conditions hold is the first that serves the user, unless that is
\* a test or a rollout: none of those comes before a conditional one.
LEMMA PreviewServed ==
  ASSUME NEW config, Complete(config), NEW f \in DOMAIN config.flags, NEW env \in Envs,
         NEW user, Host[user] = {}, NEW attributes
  PROVE  LET preview == EvaluateFlag(config.flags[f], env, attributes)
             served == Resolve(config, f, env, user, attributes)
         IN  /\ preview.reason = "conditional" <=> served.by = "conditional"
             /\ served.by \in {"conditional", "default"} => preview.value = served.value
<1> DEFINE cfg == config.flags[f].envs[env]
           variants == cfg.variants
           Met(i) == /\ variants[i].type = "conditional"
                     /\ EvaluateConditions(variants[i].conditions, attributes, {})
           met == {i \in DOMAIN variants : Met(i)}
           hits == {i \in DOMAIN variants : Taken(config, variants[i], user, attributes) > 0}
           preview == EvaluateFlag(config.flags[f], env, attributes)
           served == Resolve(config, f, env, user, attributes)
<1>1. /\ variants \in Seq(Range(variants)) /\ Layered(variants)
      /\ \A v \in Range(variants) : Grounded(config, v)
  BY DEF Complete
<1>2. SortByOrder(variants) = variants
  <2> HIDE DEF variants
  <2>1. QED BY <1>1, SortAgain DEF Layered
<1>3. preview = IF met = {} THEN [value |-> cfg.default, reason |-> "default"]
                ELSE [value |-> variants[Min(met)].value, reason |-> "conditional"]
  BY <1>2 DEF EvaluateFlag
<1>4. /\ hits = {} => served.value = cfg.default /\ served.by = "default"
      /\ hits # {} => /\ served.by = variants[Min(hits)].type
                      /\ served.by = "conditional" => served.value = variants[Min(hits)].value
  BY DEF Resolve
<1>5. \A i \in DOMAIN variants : variants[i].type = "conditional" => (i \in hits <=> i \in met)
  <2>1. ASSUME NEW v, v.type = "conditional"
        PROVE  Taken(config, v, user, attributes) > 0
                 <=> EvaluateConditions(v.conditions, attributes, {})
    <3> DEFINE holds == EvaluateConditions(v.conditions, attributes, Host[user])
    <3>1. Taken(config, v, user, attributes) = IF holds THEN 1 ELSE 0
      BY <2>1 DEF Taken
    <3>2. holds <=> EvaluateConditions(v.conditions, attributes, {})
      OBVIOUS
    <3> HIDE DEF holds
    <3>3. Taken(config, v, user, attributes) > 0 <=> holds
      BY <3>1
    <3>4. QED BY <3>2, <3>3
  <2> HIDE DEF variants
  <2>2. QED BY <2>1
<1>6. \A i \in DOMAIN variants : variants[i].type \in {"conditional", "rollout", "test"}
  <2> HIDE DEF variants
  <2>1. QED BY <1>1 DEF Range, Grounded
<1>7. \A i \in met : variants[i].type = "conditional" /\ i \in DOMAIN variants
  OBVIOUS
<1>8. \A i, j \in DOMAIN variants :
        i < j /\ variants[j].type = "conditional" => variants[i].type = "conditional"
  <2>1. SUFFICES ASSUME NEW i \in DOMAIN variants, NEW j \in DOMAIN variants, i < j,
                        variants[j].type = "conditional"
                 PROVE  variants[i].type = "conditional"
    OBVIOUS
  <2> DEFINE v == variants[i]
             w == variants[j]
  <2> HIDE DEF variants
  <2>2. v \in Range(variants) /\ w \in Range(variants) /\ v.order <= w.order
    BY <1>1, <2>1 DEF Range, Layered, Ascending
  <2>3. PICK base \in Int : \A x \in Range(variants) : x.type = "conditional" <=> x.order <= base
    BY <1>1 DEF Layered
  <2>4. v.order \in Int /\ w.order \in Int
    BY <1>1, <2>2 DEF Layered
  <2>5. w.order <= base
    BY <2>1, <2>2, <2>3
  <2>6. v.order <= base
    BY <2>2, <2>4, <2>5
  <2>7. QED BY <2>2, <2>3, <2>6
<1>9. \A S \in SUBSET (DOMAIN variants) : S # {} => Min(S) \in S /\ \A i \in S : Min(S) <= i
  <2>1. DOMAIN variants = 1 .. Len(variants) /\ Len(variants) \in Nat
    BY <1>1
  <2> HIDE DEF variants
  <2>2. IsFiniteSet(DOMAIN variants) /\ DOMAIN variants \subseteq Int
    BY <2>1, FS_Interval
  <2>3. QED BY <2>2, FS_Subset, Bounds
<1>10. met \subseteq DOMAIN variants /\ hits \subseteq DOMAIN variants /\ DOMAIN variants \subseteq Int
  <2>1. DOMAIN variants = 1 .. Len(variants) /\ Len(variants) \in Nat
    BY <1>1
  <2>2. QED BY <2>1
<1> HIDE DEF met, hits, variants, preview, served, cfg
<1>11. CASE met = {}
  <2>1. preview.reason = "default" /\ preview.value = cfg.default
    BY <1>3, <1>11
  <2>2. hits # {} => Min(hits) \in hits
    BY <1>9, <1>10
  <2>3. hits # {} => served.by \in {"rollout", "test"}
    BY <1>4, <1>5, <1>6, <1>10, <1>11, <2>2
  <2>4. QED BY <1>4, <2>1, <2>3 DEF preview, served
<1>12. CASE met # {}
  <2> DEFINE m == Min(met)
             h == Min(hits)
  <2>1. m \in met /\ \A i \in met : m <= i
    BY <1>9, <1>10, <1>12
  <2>2. m \in hits
    BY <1>5, <1>7, <2>1
  <2>3. h \in hits /\ h <= m
    BY <1>9, <1>10, <2>2
  <2> HIDE DEF m, h
  <2>4. m \in Int /\ h \in Int /\ m \in DOMAIN variants /\ h \in DOMAIN variants
    BY <1>10, <2>1, <2>3
  <2>5. variants[h].type = "conditional"
    <3>1. CASE h = m
      BY <1>7, <2>1, <3>1
    <3>2. CASE h < m
      BY <1>7, <1>8, <2>1, <2>4, <3>2
    <3>3. QED BY <2>3, <2>4, <3>1, <3>2
  <2>6. h \in met
    BY <1>5, <2>3, <2>4, <2>5
  <2>7. h = m
    BY <2>1, <2>3, <2>4, <2>6
  <2>8. served.by = "conditional" /\ served.value = variants[m].value
    BY <1>4, <2>2, <2>5, <2>7 DEF h
  <2>9. preview.reason = "conditional" /\ preview.value = variants[m].value
    BY <1>3, <1>12 DEF m
  <2>10. QED BY <2>8, <2>9 DEF preview, served
<1>13. QED BY <1>11, <1>12

\* JSON text, or the nothing that a conditional variant without a value serves.
Decodes(served) ==
  served.value \in JsonTexts \/ (served.value = Null /\ served.by = "conditional")

Whole(config) ==
  /\ Complete(config)
  /\ \A f \in DOMAIN config.flags : config.flags[f].type = "json" =>
       \A env \in Envs, user \in Users, version \in Versions :
         /\ config.flags[f].envs[env].default \in JsonTexts
         /\ Decodes(Resolve(config, f, env, user, Attributes(version)))

LEMMA GeneratedWhole ==
  ASSUME TypeOK, ValidateConfig(GenerateConfig(flags, exps)) = {}
  PROVE  Whole(GenerateConfig(flags, exps))
<1> DEFINE config == GenerateConfig(flags, exps)
<1>1. Complete(config) /\ ValidateConfig(config) = {}
  BY GeneratedComplete
<1> HIDE DEF config
<1>2. ASSUME NEW f \in DOMAIN config.flags, config.flags[f].type = "json",
             NEW env \in Envs, NEW user \in Users, NEW version \in Versions
      PROVE  /\ config.flags[f].envs[env].default \in JsonTexts
             /\ Decodes(Resolve(config, f, env, user, Attributes(version)))
  <2> DEFINE cfg == config.flags[f].envs[env]
             served == Resolve(config, f, env, user, Attributes(version))
  <2>1. /\ cfg.default \in JsonTexts
        /\ \A v \in Range(cfg.variants) : VariantValues(v) \subseteq JsonTexts \cup {Null}
    BY <1>1, <1>2, JsonValid
  <2>2. served.value = cfg.default \/ \E v \in Range(cfg.variants) : ServedBy(v, served)
    BY <1>1, <1>2, ResolvedValue
  <2> HIDE DEF cfg, served
  <2>3. Decodes(served)
    <3>1. CASE served.value = cfg.default
      BY <2>1, <3>1 DEF Decodes
    <3>2. ASSUME NEW v \in Range(cfg.variants), ServedBy(v, served) PROVE Decodes(served)
      BY <2>1, <3>2 DEF Decodes, ServedBy
    <3>3. QED BY <2>2, <3>1, <3>2
  <2>4. QED BY <2>1, <2>3 DEF cfg, served
<1>3. QED BY <1>1, <1>2 DEF Whole, config

-----------------------------------------------------------------------------
(* The rows keep their columns.                                             *)

WholeInvariant == TypeOK /\ Whole(live.config)

LEMMA InitWhole ==
  ASSUME Init PROVE WholeInvariant
<1>1. TypeOK
  BY BodiesAssumption DEF Init, TypeOK
<1>2. live.config.flags = <<>>
  BY DEF Init
<1>3. QED BY <1>1, <1>2 DEF WholeInvariant, Whole, Complete

LEMMA FlagChanges ==
  ASSUME TypeOK, UNCHANGED exps, NEW f \in Flags, NEW row, row # Null => FlagTyped(row),
         flags' = [flags EXCEPT ![f] = row]
  PROVE  TypeOK'
BY DEF TypeOK

LEMMA ExpChanges ==
  ASSUME TypeOK, UNCHANGED flags, NEW e \in Experiments, NEW row, row # Null => ExpTyped(row),
         exps' = [exps EXCEPT ![e] = row]
  PROVE  TypeOK'
BY DEF TypeOK

LEMMA FlagOver ==
  ASSUME NEW row, FlagTyped(row), NEW patch, FlagPatchTyped(patch)
  PROVE  FlagTyped(Over(row, patch))
BY DEF FlagTyped, FlagPatchTyped, Over, FlagColumns

LEMMA ExpOver ==
  ASSUME NEW row, ExpTyped(row), NEW patch, ExpPatchTyped(patch),
         "type" \in DOMAIN patch => patch.type \in {"TEST", "ROLLOUT"}
  PROVE  ExpTyped(Over(row, patch))
BY DEF ExpTyped, ExpPatchTyped, Over, ExpColumns

LEMMA ResetOver ==
  ASSUME NEW patch, ExpPatchTyped(patch), "type" \notin DOMAIN patch
  PROVE  LET body == Over([conditions |-> <<>>, flagIds |-> <<>>, archived |-> FALSE,
                           variants |-> Null, rolloutValues |-> Null], patch)
         IN  ExpPatchTyped(body) /\ "type" \notin DOMAIN body
<1> DEFINE reset == [conditions |-> <<>>, flagIds |-> <<>>, archived |-> FALSE,
                     variants |-> Null, rolloutValues |-> Null]
           body == Over(reset, patch)
<1>1. /\ DOMAIN body = DOMAIN reset \cup DOMAIN patch
      /\ \A x \in DOMAIN patch : body[x] = patch[x]
      /\ \A x \in DOMAIN reset : x \notin DOMAIN patch => body[x] = reset[x]
  BY DEF Over
<1>2. /\ DOMAIN reset = {"conditions", "flagIds", "archived", "variants", "rolloutValues"}
      /\ reset.variants = Null /\ reset.flagIds = <<>>
  OBVIOUS
<1> HIDE DEF reset, body
<1>3. DOMAIN body \subseteq ExpColumns /\ "type" \notin DOMAIN body
  BY <1>1, <1>2 DEF ExpPatchTyped, ExpColumns
<1>4. GroupsTyped(body.variants)
  BY <1>1, <1>2 DEF ExpPatchTyped, GroupsTyped
<1>5. body.flagIds \in Seq(Range(body.flagIds))
  <2>1. <<>> \in Seq(Range(<<>>))
    OBVIOUS
  <2>2. QED BY <1>1, <1>2, <2>1 DEF ExpPatchTyped
<1>6. QED BY <1>3, <1>4, <1>5 DEF ExpPatchTyped, body, reset

\* The names of a split are groups.
Names(split) == {split[i][1] : i \in DOMAIN split} \subseteq Groups

LEMMA NewRows ==
  ASSUME NEW key
  PROVE  /\ \A split : Names(split) => ExpTyped(TestRow(key, split))
         /\ \A percentage : ExpTyped(RolloutRow(key, percentage))
         /\ \A type, value : FlagTyped([key |-> key, type |-> type,
                                       defaults |-> Environments(value),
                                       variants |-> Environments(<<>>)])
<1>1. ASSUME NEW split, Names(split) PROVE ExpTyped(TestRow(key, split))
  BY <1>1 DEF Names, TestRow, ExpTyped, ExpPatchTyped, ExpColumns, GroupsTyped
<1>2. ASSUME NEW percentage PROVE ExpTyped(RolloutRow(key, percentage))
  BY DEF RolloutRow, ExpTyped, ExpPatchTyped, ExpColumns, GroupsTyped
<1>3. ASSUME NEW type, NEW value
      PROVE  FlagTyped([key |-> key, type |-> type, defaults |-> Environments(value),
                        variants |-> Environments(<<>>)])
  <2> DEFINE row == [key |-> key, type |-> type, defaults |-> Environments(value),
                     variants |-> Environments(<<>>)]
  <2>1. \A env \in Envs : row.variants[env] = <<>>
    BY DEF Environments
  <2>2. Range(<<>>) = {}
    BY DEF Range
  <2>3. ConditionalsTyped(row.variants)
    <3> HIDE DEF row
    <3>1. SUFFICES ASSUME NEW env \in Envs
                   PROVE  /\ row.variants[env] \in Seq(Range(row.variants[env]))
                          /\ \A v \in Range(row.variants[env]) : v.order \in Int \cup {Null}
      BY DEF ConditionalsTyped
    <3>2. row.variants[env] = <<>>
      BY <2>1
    <3>3. <<>> \in Seq(Range(<<>>))
      OBVIOUS
    <3>4. Range(row.variants[env]) = {}
      BY <2>2, <3>2
    <3>5. QED BY <2>2, <3>2, <3>3, <3>4
  <2>4. QED BY <2>3 DEF FlagTyped, FlagPatchTyped, FlagColumns
<1>4. QED BY <1>1, <1>2, <1>3

LEMMA FlagStep ==
  ASSUME TypeOK, NEW f \in Flags,
         \/ \E key \in KeyShapes, new \in NewFlags : CreateFlag(f, key, new[1], new[2])
         \/ \E patch \in FlagPatches : UpdateFlag(f, patch)
         \/ DeleteFlag(f)
  PROVE  TypeOK' /\ UNCHANGED live
<1>1. CASE \E key \in KeyShapes, new \in NewFlags : CreateFlag(f, key, new[1], new[2])
  BY <1>1, FlagChanges, NewRows DEF CreateFlag, Edit
<1>2. CASE \E patch \in FlagPatches : UpdateFlag(f, patch)
  <2>1. PICK patch \in FlagPatches : UpdateFlag(f, patch)
    BY <1>2
  <2>2. FlagTyped(Over(flags[f], patch))
    BY <2>1, BodiesAssumption, FlagOver DEF UpdateFlag, TypeOK
  <2>3. flags' = [flags EXCEPT ![f] = Over(flags[f], patch)] /\ UNCHANGED <<exps, live>>
    BY <2>1 DEF UpdateFlag, Edit
  <2>4. QED BY <2>2, <2>3, FlagChanges
<1>3. CASE DeleteFlag(f)
  BY <1>3, FlagChanges DEF DeleteFlag, Edit
<1>4. QED BY <1>1, <1>2, <1>3

LEMMA PutTyped ==
  ASSUME TypeOK, NEW e \in Experiments, exps[e] # Null, NEW patch, ExpPatchTyped(patch),
         "type" \notin DOMAIN patch, Put(e, patch)
  PROVE  TypeOK' /\ UNCHANGED live
<1>1. ExpTyped(Over(exps[e], patch))
  BY ExpOver DEF TypeOK
<1>2. exps' = [exps EXCEPT ![e] = Over(exps[e], patch)] /\ UNCHANGED <<flags, live>>
  BY DEF Put, Edit
<1>3. QED BY <1>1, <1>2, ExpChanges

LEMMA PatchStep ==
  ASSUME TypeOK, NEW e \in Experiments, exps[e] # Null, NEW patch \in ExpPatches[exps[e].type],
         UpdateTest(e, patch) \/ UpdateRollout(e, patch) \/ UpdateTestRollout(e, patch)
  PROVE  TypeOK' /\ UNCHANGED live
<1>1. ExpPatchTyped(patch) /\ "type" \notin DOMAIN patch
  BY BodiesAssumption DEF TypeOK, ExpTyped
<1>2. CASE UpdateTest(e, patch) \/ UpdateRollout(e, patch)
  BY <1>1, <1>2, PutTyped DEF UpdateTest, UpdateRollout
<1>3. CASE UpdateTestRollout(e, patch)
  BY <1>1, <1>3, ResetOver, PutTyped DEF UpdateTestRollout
<1>4. QED BY <1>2, <1>3

\* Setting a column that is neither the type nor the groups.
LEMMA ColumnSet ==
  ASSUME NEW row, ExpTyped(row), NEW archived, NEW percentage
  PROVE  ExpTyped([row EXCEPT !.archived = archived, !.percentage = percentage])
BY DEF ExpTyped, ExpPatchTyped, ExpColumns

LEMMA ExpStep ==
  ASSUME TypeOK, NEW e \in Experiments,
         \/ \E key \in KeyShapes, split \in NewTests : CreateTest(e, key, split)
         \/ \E key \in KeyShapes, p \in Percentages : CreateRollout(e, key, p)
         \/ \E key \in KeyShapes, body \in NewTestRollouts : CreateTestRollout(e, key, body)
         \/ \E p \in Percentages : SetPercentage(e, p)
         \/ \E kind \in {"cancel", "complete"} : ArchiveExperiment(e, kind)
         \/ DeleteTest(e) \/ DeleteRollout(e) \/ DeleteTestRollout(e)
  PROVE  TypeOK' /\ UNCHANGED live
<1>1. CASE \E key \in KeyShapes, split \in NewTests : CreateTest(e, key, split)
  <2>1. PICK key \in KeyShapes, split \in NewTests : CreateTest(e, key, split)
    BY <1>1
  <2>2. Names(split)
    BY BodiesAssumption DEF Names
  <2>3. exps' = [exps EXCEPT ![e] = TestRow(key, split)] /\ UNCHANGED <<flags, live>>
    BY <2>1 DEF CreateTest, Edit
  <2>4. ExpTyped(TestRow(key, split))
    BY <2>2, NewRows
  <2>5. QED BY <2>3, <2>4, ExpChanges
<1>2. CASE \E key \in KeyShapes, p \in Percentages : CreateRollout(e, key, p)
  BY <1>2, NewRows, ExpChanges DEF CreateRollout, Edit
<1>3. CASE \E key \in KeyShapes, body \in NewTestRollouts : CreateTestRollout(e, key, body)
  <2>1. PICK key \in KeyShapes, body \in NewTestRollouts : CreateTestRollout(e, key, body)
    BY <1>3
  <2> DEFINE row == IF body.type = "TEST" THEN TestRow(key, <<>>) ELSE RolloutRow(key, Null)
  <2>2. ExpTyped(row)
    <3>1. Names(<<>>)
      BY DEF Names
    <3>2. ExpTyped(TestRow(key, <<>>)) /\ ExpTyped(RolloutRow(key, Null))
      BY <3>1, NewRows
    <3>3. QED BY <3>2
  <2>3. exps' = [exps EXCEPT ![e] = Over(row, body)] /\ UNCHANGED <<flags, live>>
    BY <2>1 DEF CreateTestRollout, Edit
  <2> HIDE DEF row
  <2>4. ExpTyped(Over(row, body))
    BY <2>2, BodiesAssumption, ExpOver
  <2>5. QED BY <2>3, <2>4, ExpChanges
<1>4. CASE \E p \in Percentages : SetPercentage(e, p)
  <2>1. PICK p \in Percentages : SetPercentage(e, p)
    BY <1>4
  <2>2. exps' = [exps EXCEPT ![e] = [exps[e] EXCEPT !.percentage = p]] /\ UNCHANGED <<flags, live>>
    BY <2>1 DEF SetPercentage, Edit
  <2>3. ExpTyped(exps[e])
    BY <2>1 DEF SetPercentage, TypeOK
  <2>4. ExpTyped([exps[e] EXCEPT !.percentage = p])
    BY <2>3 DEF ExpTyped, ExpPatchTyped, ExpColumns
  <2>5. QED BY <2>2, <2>4, ExpChanges
<1>5. CASE \E kind \in {"cancel", "complete"} : ArchiveExperiment(e, kind)
  <2>1. PICK kind \in {"cancel", "complete"} : ArchiveExperiment(e, kind)
    BY <1>5
  <2> DEFINE percentage == IF exps[e].type # "ROLLOUT" THEN exps[e].percentage
                           ELSE IF kind = "cancel" THEN 0 ELSE 100
             row == [exps[e] EXCEPT !.archived = TRUE, !.percentage = percentage]
  <2>2. ExpTyped(exps[e])
    BY <2>1 DEF ArchiveExperiment, TypeOK
  <2>3. exps' = [exps EXCEPT ![e] = row] /\ UNCHANGED <<flags, live>>
    BY <2>1, <2>2 DEF ArchiveExperiment, Edit, TypeOK, ExpTyped, ExpColumns
  <2>4. ExpTyped(row)
    BY <2>2, ColumnSet
  <2>5. QED BY <2>3, <2>4, ExpChanges
<1>6. CASE DeleteTest(e) \/ DeleteRollout(e) \/ DeleteTestRollout(e)
  BY <1>6, ExpChanges DEF DeleteTest, DeleteRollout, DeleteTestRollout, Edit
<1>7. QED BY <1>1, <1>2, <1>3, <1>4, <1>5, <1>6

LEMMA WholeKept ==
  ASSUME WholeInvariant, [Next]_vars
  PROVE  WholeInvariant'
<1>1. TypeOK
  BY DEF WholeInvariant
<1>2. ASSUME TypeOK', UNCHANGED live PROVE WholeInvariant'
  BY <1>2 DEF WholeInvariant, Whole, Complete, Grounded
<1>3. ASSUME NEW f \in Flags,
             \/ \E key \in KeyShapes, new \in NewFlags : CreateFlag(f, key, new[1], new[2])
             \/ \E patch \in FlagPatches : UpdateFlag(f, patch)
             \/ DeleteFlag(f)
      PROVE  WholeInvariant'
  BY <1>1, <1>2, <1>3, FlagStep
<1>4. ASSUME NEW e \in Experiments, exps[e] # Null, NEW patch \in ExpPatches[exps[e].type],
             UpdateTest(e, patch) \/ UpdateRollout(e, patch) \/ UpdateTestRollout(e, patch)
      PROVE  WholeInvariant'
  BY <1>1, <1>2, <1>4, PatchStep
<1>5. ASSUME NEW e \in Experiments,
             \/ \E key \in KeyShapes, split \in NewTests : CreateTest(e, key, split)
             \/ \E key \in KeyShapes, p \in Percentages : CreateRollout(e, key, p)
             \/ \E key \in KeyShapes, body \in NewTestRollouts : CreateTestRollout(e, key, body)
             \/ \E p \in Percentages : SetPercentage(e, p)
             \/ \E kind \in {"cancel", "complete"} : ArchiveExperiment(e, kind)
             \/ DeleteTest(e) \/ DeleteRollout(e) \/ DeleteTestRollout(e)
      PROVE  WholeInvariant'
  BY <1>1, <1>2, <1>5, ExpStep
<1>6. ASSUME NEW archived \in BOOLEAN, Publish(archived) PROVE WholeInvariant'
  <2>1. /\ live'.config = GenerateConfig(flags, exps)
        /\ ValidateConfig(GenerateConfig(flags, exps)) = {}
        /\ UNCHANGED <<flags, exps>>
    BY <1>6 DEF Publish
  <2>2. Whole(GenerateConfig(flags, exps))
    BY <1>1, <2>1, GeneratedWhole
  <2>3. TypeOK'
    BY <1>1, <2>1 DEF TypeOK
  <2>4. Whole(live.config)'
    BY <2>1, <2>2 DEF Whole, Complete, Grounded
  <2>5. QED BY <2>3, <2>4 DEF WholeInvariant
<1>7. ASSUME NEW u \in Users, NEW env \in ReportEnvs, NEW version \in Versions,
             Report(u, env, version)
      PROVE  WholeInvariant'
  BY <1>1, <1>2, <1>7 DEF Report, TypeOK
<1>8. CASE UNCHANGED vars
  BY <1>1, <1>2, <1>8 DEF vars, TypeOK
<1>9. QED BY <1>3, <1>4, <1>5, <1>6, <1>7, <1>8 DEF Next

\* Every row keeps the columns of its table, whatever is created, edited and deleted.
THEOREM RowsAreTyped ==
  Spec => []TypeOK
<1>1. WholeInvariant => TypeOK
  BY DEF WholeInvariant
<1>2. QED BY <1>1, InitWhole, WholeKept, PTL DEF Spec

\* Whatever was created, edited, archived, deleted and published, and in whatever order,
\* the live artifact defines what it refers to, and a client that resolves a json flag by it
\* is served JSON text, or nothing by a conditional variant stored without a value.
THEOREM LiveConfigsAreWhole ==
  Spec => []LiveIsWhole
<1>1. ASSUME WholeInvariant PROVE LiveIsWhole
  <2> DEFINE config == live.config
  <2>1. Complete(config)
    BY <1>1 DEF WholeInvariant, Whole
  <2>2. NoDanglingReference
    BY <2>1 DEF NoDanglingReference, Complete, Grounded
  <2>3. PublishedDecodes
    BY <1>1 DEF WholeInvariant, Whole, Decodes, PublishedDecodes
  <2>4. QED BY <2>2, <2>3 DEF LiveIsWhole
<1>2. QED BY <1>1, InitWhole, WholeKept, PTL DEF Spec

\* Whatever was edited and published before, the preview of a live artifact shows a
\* conditional value exactly when a device without custom attributes is served it, and the
\* same one; and shows the default to whom the default is served.
THEOREM PreviewIsServed ==
  Spec => []PreviewAgrees
<1>1. ASSUME WholeInvariant PROVE PreviewAgrees
  <2> DEFINE config == live.config
  <2>1. Complete(config)
    BY <1>1 DEF WholeInvariant, Whole
  <2> HIDE DEF config
  <2>2. QED BY <2>1, PreviewServed DEF PreviewAgrees, config
<1>2. QED BY <1>1, InitWhole, WholeKept, PTL DEF Spec

-----------------------------------------------------------------------------
(* Induction, and functions that are defined by recursion.                  *)

LEMMA Induction ==
  ASSUME NEW T, 0 \in T, \A n \in Nat : n \in T => n + 1 \in T
  PROVE  Nat \subseteq T
<1>1. SUFFICES ASSUME NEW k \in Nat, k \notin T PROVE FALSE
  OBVIOUS
<1> DEFINE Missing == {n \in 0 .. k : n \notin T}
<1>2. IsFiniteSet(Missing) /\ Missing \subseteq Int /\ Missing # {}
  <2>1. IsFiniteSet(0 .. k)
    BY FS_Interval
  <2>2. QED BY <1>1, <2>1, FS_Subset
<1>3. PICK least \in Missing : \A n \in Missing : least <= n
  <2> HIDE DEF Missing
  <2>1. QED BY <1>2, Bounds
<1>4. least # 0
  BY <1>3
<1>5. least - 1 \in Nat /\ least - 1 \notin Missing /\ least - 1 <= k
  BY <1>3, <1>4
<1>6. least - 1 \in T
  BY <1>5
<1>7. (least - 1) + 1 \in T
  BY <1>5, <1>6
<1>8. QED BY <1>3, <1>7

\* What follows for a member from the members of smaller measure holds for all.
LEMMA MeasureInduction ==
  ASSUME NEW S, NEW m \in [S -> Nat], NEW T,
         \A p \in S : (\A q \in S : m[q] < m[p] => q \in T) => p \in T
  PROVE  S \subseteq T
<1> DEFINE Upto(k) == \A p \in S : m[p] < k => p \in T
           U == {k \in Nat : Upto(k)}
<1>1. \A p \in S : m[p] \in Nat
  OBVIOUS
<1>2. Upto(0)
  BY <1>1
<1>3. ASSUME NEW k \in Nat, Upto(k) PROVE Upto(k + 1)
  <2>1. TAKE p \in S
  <2>2. HAVE m[p] < k + 1
  <2>3. \A q \in S : m[q] < m[p] => m[q] < k
    BY <1>1, <2>2
  <2>4. QED BY <1>3, <2>3
<1>4. Nat \subseteq U
  <2> HIDE DEF Upto
  <2>1. 0 \in U /\ \A k \in Nat : k \in U => k + 1 \in U
    BY <1>2, <1>3
  <2> HIDE DEF U
  <2>2. QED BY <2>1, Induction
<1>5. ASSUME NEW p \in S PROVE p \in T
  <2>1. m[p] + 1 \in U /\ m[p] < m[p] + 1
    BY <1>1, <1>4
  <2>2. QED BY <2>1
<1>6. QED BY <1>5

\* A step from functions to values that looks only at what has a smaller measure.
Descends(step, m, S, X) ==
  /\ X # {} /\ m \in [S -> Nat] /\ \E K \in Nat : \A p \in S : m[p] < K
  /\ step \in [S -> [[S -> X] -> X]]
  /\ \A p \in S : \A g, h \in [S -> X] :
       (\A q \in S : m[q] < m[p] => g[q] = h[q]) => step[p][g] = step[p][h]

\* Such a step defines a function.
LEMMA Recursion ==
  ASSUME NEW S, NEW X, NEW m, NEW step, Descends(step, m, S, X)
  PROVE  \E f \in [S -> X] : \A p \in S : f[p] = step[p][f]
<1>1. PICK K \in Nat, x \in X : \A p \in S : m[p] < K
  BY DEF Descends
<1>2. m \in [S -> Nat] /\ step \in [S -> [[S -> X] -> X]]
  BY DEF Descends
<1> DEFINE Upto(k) == \E f \in [S -> X] : \A p \in S : m[p] < k => f[p] = step[p][f]
           T == {k \in Nat : Upto(k)}
<1>3. Upto(0)
  <2> DEFINE f == [p \in S |-> x]
  <2>1. f \in [S -> X] /\ \A p \in S : ~(m[p] < 0)
    BY <1>1, <1>2
  <2>2. QED BY <2>1
<1>4. ASSUME NEW k \in Nat, Upto(k) PROVE Upto(k + 1)
  <2>1. PICK f \in [S -> X] : \A p \in S : m[p] < k => f[p] = step[p][f]
    BY <1>4
  <2> DEFINE g == [p \in S |-> IF m[p] = k THEN step[p][f] ELSE f[p]]
  <2>2. g \in [S -> X]
    BY <1>2
  <2>3. ASSUME NEW p \in S, m[p] < k + 1 PROVE g[p] = step[p][g]
    <3>1. m[p] \in Nat
      BY <1>2
    <3>2. \A q \in S : m[q] < m[p] => f[q] = g[q]
      BY <2>3, <3>1
    <3>3. step[p][f] = step[p][g]
      BY <2>2, <3>2 DEF Descends
    <3>4. g[p] = step[p][f]
      <4>1. CASE m[p] = k
        BY <4>1
      <4>2. CASE m[p] # k
        <5>1. m[p] < k
          <6> DEFINE n == m[p]
          <6>1. n \in Nat /\ n < k + 1 /\ n # k
            BY <2>3, <3>1, <4>2
          <6> HIDE DEF n
          <6>2. n < k
            BY <6>1
          <6>3. QED BY <6>2 DEF n
        <5>2. QED BY <2>1, <4>2, <5>1
      <4>3. QED BY <4>1, <4>2
    <3>5. QED BY <3>3, <3>4
  <2> HIDE DEF g
  <2>4. QED BY <2>2, <2>3
<1>5. K \in T
  <2> HIDE DEF Upto
  <2>1. 0 \in T /\ \A n \in Nat : n \in T => n + 1 \in T
    BY <1>3, <1>4
  <2> HIDE DEF T
  <2>2. QED BY <2>1, Induction
<1>6. QED BY <1>1, <1>5

Steps(next, N, X, start) == N \in Nat /\ start \in X /\ next \in [1 .. N -> [X -> X]]

Iterates(f, next, N, X, start) ==
  /\ f \in [0 .. N -> X] /\ f[0] = start
  /\ \A n \in 1 .. N : f[n] = next[n][f[n - 1]]

\* A function of the numbers 0 .. N that is defined by its start and its steps.
LEMMA Iteration ==
  ASSUME NEW N, NEW X, NEW start, NEW next, Steps(next, N, X, start)
  PROVE  \E f : Iterates(f, next, N, X, start)
<1> DEFINE S == 0 .. N
           m == [n \in S |-> n]
           step == [n \in S |-> [g \in [S -> X] |-> IF n = 0 THEN start ELSE next[n][g[n - 1]]]]
<1>1. N \in Nat /\ start \in X /\ next \in [1 .. N -> [X -> X]]
  BY DEF Steps
<1>2. m \in [S -> Nat] /\ N + 1 \in Nat /\ \A n \in S : m[n] < N + 1
  BY <1>1
<1>3. step \in [S -> [[S -> X] -> X]]
  <2>1. ASSUME NEW n \in S, NEW g \in [S -> X], n # 0 PROVE next[n][g[n - 1]] \in X
    <3>1. n \in 1 .. N /\ n - 1 \in S
      BY <1>1, <2>1
    <3>2. QED BY <1>1, <3>1
  <2>2. QED BY <1>1, <2>1
<1>4. ASSUME NEW n \in S, NEW g \in [S -> X], NEW h \in [S -> X],
             \A q \in S : m[q] < m[n] => g[q] = h[q]
      PROVE  step[n][g] = step[n][h]
  <2>1. n # 0 => n - 1 \in S /\ m[n - 1] < m[n]
    BY <1>1
  <2>2. QED BY <1>4, <2>1
<1>5. Descends(step, m, S, X)
  <2> HIDE DEF S, m, step
  <2>1. QED BY <1>1, <1>2, <1>3, <1>4 DEF Descends
<1>6. PICK f \in [S -> X] : \A n \in S : f[n] = step[n][f]
  <2> HIDE DEF S, m, step
  <2>1. QED BY <1>5, Recursion
<1> HIDE DEF m
<1>7. f[0] = start /\ \A n \in 1 .. N : f[n] = next[n][f[n - 1]]
  BY <1>1, <1>6 DEF step
<1>8. Iterates(f, next, N, X, start)
  BY <1>7 DEF Iterates
<1>9. QED BY <1>8

-----------------------------------------------------------------------------
(* The entries of a list at some of its places.                             *)

\* The places in ascending order.
Enumerates(at, n, P) ==
  /\ n \in Nat /\ at \in [1 .. n -> P]
  /\ \A i, j \in 1 .. n : i < j => at[i] < at[j]
  /\ \A p \in P : \E k \in 1 .. n : at[k] = p

Picked(list, at, n) == [k \in 1 .. n |-> list[at[k]]]

LEMMA EntriesEnumerate ==
  ASSUME NEW list, NEW P, IsFiniteSet(P), P \subseteq Nat
  PROVE  \E at : /\ Enumerates(at, Cardinality(P), P)
                 /\ Entries(list, P) = Picked(list, at, Cardinality(P))
<1> DEFINE R == {p \in P \X P : p[1] < p[2]}
           at == SortedBy(P, R)
<1>1. Orders(R, P)
  BY DEF Orders
<1>2. ListOf(at, P) /\ \A i, j \in DOMAIN at : i < j => <<at[i], at[j]>> \in R
  <2> HIDE DEF R
  <2>1. QED BY <1>1, SortedIs
<1>3. Entries(list, P) = [k \in DOMAIN at |-> list[at[k]]]
  BY DEF Entries
<1>4. at = [k \in DOMAIN at |-> at[k]]
  <2> DEFINE Nth(k) == CHOOSE x \in P : Cardinality({y \in P : <<y, x>> \in R}) = k - 1
  <2> HIDE DEF R
  <2>1. at = [k \in 1 .. Cardinality(P) |-> Nth(k)]
    BY DEF SortedBy
  <2> HIDE DEF Nth, at
  <2>2. QED BY <2>1
<1> HIDE DEF at
<1>5. \A i, j \in DOMAIN at : i < j => at[i] < at[j]
  BY <1>2
<1>6. DOMAIN at = 1 .. Cardinality(P) /\ Cardinality(P) \in Nat
  BY <1>2 DEF ListOf
<1>7. Enumerates(at, Cardinality(P), P)
  BY <1>2, <1>4, <1>5, <1>6 DEF ListOf, Enumerates
<1>8. QED BY <1>3, <1>6, <1>7 DEF Picked

\* There is one such order.
LEMMA EnumeratedOnce ==
  ASSUME NEW P, P \subseteq Nat, NEW n, NEW at, Enumerates(at, n, P),
         NEW m, NEW by, Enumerates(by, m, P)
  PROVE  m = n /\ by = at
<1>1. n \in Nat /\ m \in Nat
  BY DEF Enumerates
<1>2. \A k \in 1 .. n : at[k] \in P /\ at[k] \in Nat
  BY DEF Enumerates
<1>3. \A k \in 1 .. m : by[k] \in P /\ by[k] \in Nat
  BY DEF Enumerates
<1>4. \A i, j \in 1 .. n : i < j => at[i] < at[j]
  BY DEF Enumerates
<1>5. \A i, j \in 1 .. m : i < j => by[i] < by[j]
  BY DEF Enumerates
<1> DEFINE Same(k) == \A j \in 1 .. k : (j <= n <=> j <= m) /\ (j <= n => at[j] = by[j])
           T == {k \in Nat : Same(k)}
<1>6. ASSUME NEW k \in Nat, Same(k) PROVE Same(k + 1)
  <2>1. CASE k + 1 <= n
    <3>1. k + 1 \in 1 .. n
      BY <1>1, <2>1
    <3>2. PICK l \in 1 .. m : by[l] = at[k + 1]
      BY <1>2, <3>1 DEF Enumerates
    <3>3. \A j \in 1 .. k : j \in 1 .. m /\ by[j] < by[l]
      <4>1. TAKE j \in 1 .. k
      <4>2. j \in 1 .. n /\ j < k + 1 /\ j <= m /\ at[j] = by[j]
        BY <1>1, <1>6, <2>1
      <4>3. at[j] < at[k + 1]
        BY <1>4, <3>1, <4>2
      <4>4. QED BY <3>2, <4>2, <4>3
    <3>4. k + 1 <= l
      <4>1. SUFFICES ASSUME l \in 1 .. k PROVE FALSE
        BY <1>1, <3>2
      <4>2. by[l] < by[l] /\ by[l] \in Nat
        BY <1>3, <3>3, <4>1
      <4>3. QED BY <4>2
    <3>5. k + 1 \in 1 .. m
      BY <1>1, <3>2, <3>4
    <3>6. by[k + 1] <= by[l]
      <4>1. k + 1 = l \/ k + 1 < l
        BY <1>1, <3>2, <3>4
      <4>2. by[k + 1] \in Nat /\ by[l] \in Nat
        BY <1>3, <3>2, <3>5
      <4>3. QED BY <1>5, <3>2, <3>5, <4>1, <4>2
    <3>7. PICK i \in 1 .. n : at[i] = by[k + 1]
      BY <1>3, <3>5 DEF Enumerates
    <3>8. \A j \in 1 .. k : at[j] < at[i]
      <4>1. TAKE j \in 1 .. k
      <4>2. j \in 1 .. m /\ j < k + 1 /\ j <= n /\ at[j] = by[j]
        BY <1>1, <1>6, <2>1, <3>3
      <4>3. by[j] < by[k + 1]
        BY <1>5, <3>5, <4>2
      <4>4. QED BY <3>7, <4>2, <4>3
    <3>9. k + 1 <= i
      <4>1. SUFFICES ASSUME i \in 1 .. k PROVE FALSE
        BY <1>1, <3>7
      <4>2. at[i] < at[i] /\ at[i] \in Nat
        BY <1>2, <3>7, <3>8, <4>1
      <4>3. QED BY <4>2
    <3>10. at[k + 1] <= at[i]
      <4>1. k + 1 = i \/ k + 1 < i
        BY <1>1, <3>7, <3>9
      <4>2. at[k + 1] \in Nat /\ at[i] \in Nat
        BY <1>2, <3>1, <3>7
      <4>3. QED BY <1>4, <3>1, <3>7, <4>1, <4>2
    <3>11. at[k + 1] = by[k + 1]
      <4>1. at[k + 1] \in Nat /\ by[k + 1] \in Nat
        BY <1>2, <1>3, <3>1, <3>5
      <4>2. QED BY <3>2, <3>6, <3>7, <3>10, <4>1
    <3>12. QED BY <1>1, <1>6, <2>1, <3>5, <3>11
  <2>2. CASE k + 1 > n
    <3>1. SUFFICES ASSUME k + 1 <= m PROVE FALSE
      BY <1>1, <1>6, <2>2
    <3>2. k + 1 \in 1 .. m
      BY <1>1, <3>1
    <3>3. PICK i \in 1 .. n : at[i] = by[k + 1]
      BY <1>3, <3>2 DEF Enumerates
    <3>4. i \in 1 .. k /\ i \in 1 .. m /\ i < k + 1 /\ by[i] = at[i]
      BY <1>1, <1>6, <2>2, <3>1, <3>3
    <3>5. by[i] < by[k + 1]
      BY <1>5, <3>2, <3>4
    <3>6. by[k + 1] \in Nat
      BY <1>3, <3>2
    <3>7. QED BY <3>3, <3>4, <3>5, <3>6
  <2>3. QED BY <1>1, <2>1, <2>2
<1>7. n \in T /\ m \in T
  <2>1. Same(0)
    OBVIOUS
  <2> HIDE DEF Same
  <2>2. 0 \in T /\ \A k \in Nat : k \in T => k + 1 \in T
    BY <1>6, <2>1
  <2> HIDE DEF T
  <2>3. QED BY <1>1, <2>2, Induction
<1>8. m = n
  <2>1. n # 0 => n <= m
    BY <1>1, <1>7
  <2>2. m # 0 => m <= n
    BY <1>1, <1>7
  <2>3. QED BY <1>1, <2>1, <2>2
<1>9. by = at
  <2>1. \A k \in 1 .. n : at[k] = by[k]
    BY <1>1, <1>7
  <2>2. at = [k \in 1 .. n |-> at[k]] /\ by = [k \in 1 .. m |-> by[k]]
    BY DEF Enumerates
  <2>3. QED BY <1>8, <2>1, <2>2
<1>10. QED BY <1>8, <1>9

LEMMA EntriesAre ==
  ASSUME NEW list, NEW P, IsFiniteSet(P), P \subseteq Nat, NEW n, NEW at, Enumerates(at, n, P)
  PROVE  Cardinality(P) = n /\ Entries(list, P) = Picked(list, at, n)
<1>1. PICK by : /\ Enumerates(by, Cardinality(P), P)
                /\ Entries(list, P) = Picked(list, by, Cardinality(P))
  BY EntriesEnumerate
<1>2. Cardinality(P) = n /\ by = at
  BY <1>1, EnumeratedOnce
<1>3. QED BY <1>1, <1>2

\* A list that is longer by a first place.
LEMMA EnumerateMore ==
  ASSUME NEW P, P \subseteq Nat \ {0}, NEW n, NEW at, Enumerates(at, n, P)
  PROVE  /\ Enumerates([k \in 1 .. n |-> at[k] + 1], n, {p + 1 : p \in P})
         /\ Enumerates([k \in 1 .. n + 1 |-> IF k = 1 THEN 1 ELSE at[k - 1] + 1], n + 1,
                       {1} \cup {p + 1 : p \in P})
<1> DEFINE later == [k \in 1 .. n |-> at[k] + 1]
           more == [k \in 1 .. n + 1 |-> IF k = 1 THEN 1 ELSE at[k - 1] + 1]
           Q == {p + 1 : p \in P}
<1>1. n \in Nat
  BY DEF Enumerates
<1>2. \A k \in 1 .. n : at[k] \in P /\ at[k] \in Nat /\ at[k] > 0
  <2>1. \A k \in 1 .. n : at[k] \in P
    BY DEF Enumerates
  <2>2. \A p \in P : p \in Nat /\ p > 0
    OBVIOUS
  <2> HIDE DEF Q, later, more
  <2>3. QED BY <2>1, <2>2
<1>3. \A i, j \in 1 .. n : i < j => at[i] < at[j]
  BY DEF Enumerates
<1>4. \A q \in Q : \E k \in 1 .. n : at[k] + 1 = q
  BY DEF Enumerates
<1>5. \A k \in 1 .. n : at[k] + 1 \in Q
  BY <1>2
<1>6. Enumerates(later, n, Q)
  <2>1. later \in [1 .. n -> Q] /\ \A q \in Q : \E k \in 1 .. n : later[k] = q
    <3> HIDE DEF Q
    <3>1. QED BY <1>4, <1>5
  <2>2. ASSUME NEW i \in 1 .. n, NEW j \in 1 .. n, i < j PROVE later[i] < later[j]
    BY <1>2, <1>3, <2>2
  <2> HIDE DEF later, Q
  <2>3. QED BY <1>1, <2>1, <2>2 DEF Enumerates
<1>7. Enumerates(more, n + 1, {1} \cup Q)
  <2>1. \A k \in 1 .. n + 1 : k # 1 => k - 1 \in 1 .. n
    BY <1>1
  <2>2. more \in [1 .. n + 1 -> {1} \cup Q]
    <3> HIDE DEF Q
    <3>1. QED BY <1>5, <2>1
  <2>3. \A q \in {1} \cup Q : \E k \in 1 .. n + 1 : more[k] = q
    <3>1. TAKE q \in {1} \cup Q
    <3>2. CASE q = 1
      <4>1. 1 \in 1 .. n + 1 /\ more[1] = 1
        BY <1>1
      <4>2. QED BY <3>2, <4>1
    <3>3. CASE q \in Q
      <4>1. PICK k \in 1 .. n : at[k] + 1 = q
        BY <1>4, <3>3
      <4>2. k + 1 \in 1 .. n + 1 /\ k + 1 # 1 /\ (k + 1) - 1 = k
        BY <1>1
      <4>3. more[k + 1] = q
        BY <4>1, <4>2
      <4>4. QED BY <4>2, <4>3
    <3>4. QED BY <3>2, <3>3
  <2>4. ASSUME NEW i \in 1 .. n + 1, NEW j \in 1 .. n + 1, i < j PROVE more[i] < more[j]
    <3>1. j # 1 /\ j - 1 \in 1 .. n /\ more[j] = at[j - 1] + 1
      BY <1>1, <2>4
    <3>2. CASE i = 1
      BY <1>2, <3>1, <3>2
    <3>3. CASE i # 1
      <4>1. i - 1 \in 1 .. n /\ i - 1 < j - 1 /\ more[i] = at[i - 1] + 1
        BY <1>1, <2>4, <3>3
      <4>2. QED BY <1>2, <1>3, <3>1, <4>1
    <3>4. QED BY <3>2, <3>3
  <2> HIDE DEF more, Q
  <2>5. QED BY <1>1, <2>2, <2>3, <2>4 DEF Enumerates
<1>8. QED BY <1>6, <1>7

\* The entries of a list that is longer by a first entry.
LEMMA EntriesCons ==
  ASSUME NEW T, NEW first \in T, NEW rest \in Seq(T), NEW P, P \subseteq 1 .. Len(rest)
  PROVE  LET list == <<first>> \o rest
             Q == {p + 1 : p \in P}
         IN  /\ Entries(rest, P) \in Seq(T) /\ Cardinality(P) \in Nat
             /\ Entries(list, Q) = Entries(rest, P) /\ Cardinality(Q) = Cardinality(P)
             /\ Entries(list, {1} \cup Q) = <<first>> \o Entries(rest, P)
             /\ Cardinality({1} \cup Q) = 1 + Cardinality(P)
<1> DEFINE list == <<first>> \o rest
           Q == {p + 1 : p \in P}
           n == Cardinality(P)
<1>1. IsFiniteSet(P) /\ P \subseteq Nat \ {0} /\ P \subseteq Nat
  <2>1. IsFiniteSet(1 .. Len(rest))
    BY FS_Interval
  <2>2. P \in SUBSET (1 .. Len(rest))
    OBVIOUS
  <2>3. IsFiniteSet(P)
    BY <2>1, <2>2, FS_Subset
  <2>4. P \subseteq Nat \ {0} /\ P \subseteq Nat
    BY <2>2
  <2>5. QED BY <2>3, <2>4
<1>2. IsFiniteSet({1} \cup Q) /\ IsFiniteSet(Q) /\ {1} \cup Q \subseteq Nat /\ Q \subseteq Nat
  <2>1. Len(rest) + 1 \in Nat /\ {1} \cup Q \in SUBSET (1 .. (Len(rest) + 1))
    OBVIOUS
  <2>2. IsFiniteSet(1 .. (Len(rest) + 1))
    BY <2>1, FS_Interval
  <2> HIDE DEF Q
  <2>3. IsFiniteSet({1} \cup Q)
    BY <2>1, <2>2, FS_Subset
  <2>4. QED BY <2>1, <2>3, FS_Subset
<1>3. PICK at : Enumerates(at, n, P) /\ Entries(rest, P) = Picked(rest, at, n)
  BY <1>1, EntriesEnumerate
<1> DEFINE later == [k \in 1 .. n |-> at[k] + 1]
           more == [k \in 1 .. n + 1 |-> IF k = 1 THEN 1 ELSE at[k - 1] + 1]
<1>4. n \in Nat /\ \A k \in 1 .. n : at[k] \in 1 .. Len(rest)
  BY <1>3 DEF Enumerates
<1>5. Enumerates(later, n, Q) /\ Enumerates(more, n + 1, {1} \cup Q)
  <2> HIDE DEF n
  <2>1. QED BY <1>1, <1>3, EnumerateMore
<1>6. /\ Entries(list, Q) = Picked(list, later, n) /\ Cardinality(Q) = n
      /\ Entries(list, {1} \cup Q) = Picked(list, more, n + 1) /\ Cardinality({1} \cup Q) = n + 1
  <2> HIDE DEF n, later, more, list, Q
  <2>1. QED BY <1>2, <1>5, EntriesAre
<1> HIDE DEF n, Q
<1>7. list[1] = first /\ \A i \in 1 .. Len(rest) : rest[i] \in T /\ list[i + 1] = rest[i]
  OBVIOUS
<1> HIDE DEF list
<1>8. \A k \in 1 .. n : list[later[k]] = rest[at[k]]
  BY <1>4, <1>7
<1>9. \A k \in 1 .. n + 1 : list[more[k]] = IF k = 1 THEN first ELSE rest[at[k - 1]]
  <2>1. TAKE k \in 1 .. n + 1
  <2>2. k = 1 \/ k - 1 \in 1 .. n
    BY <1>4
  <2>3. QED BY <1>4, <1>7, <2>2
<1> HIDE DEF later, more
<1>10. Picked(rest, at, n) \in Seq(T) /\ Picked(rest, at, n) = [k \in 1 .. n |-> rest[at[k]]]
  BY <1>4, <1>7 DEF Picked
<1>11. Picked(list, later, n) = Picked(rest, at, n)
  BY <1>8 DEF Picked
<1>12. Picked(list, more, n + 1) = <<first>> \o Picked(rest, at, n)
  <2>1. Picked(list, more, n + 1) = [k \in 1 .. n + 1 |-> IF k = 1 THEN first ELSE rest[at[k - 1]]]
    BY <1>9 DEF Picked
  <2>2. QED BY <1>4, <1>10, <2>1
<1>13. Entries(rest, P) \in Seq(T) /\ Entries(list, Q) = Entries(rest, P)
  BY <1>3, <1>6, <1>10, <1>11
<1>14. Entries(list, {1} \cup Q) = <<first>> \o Entries(rest, P)
  BY <1>3, <1>6, <1>12
<1>15. n + 1 = 1 + n
  BY <1>4
<1>16. QED BY <1>4, <1>6, <1>13, <1>14, <1>15, Zenon DEF n, Q, list

-----------------------------------------------------------------------------
(* The line diff.                                                           *)

\* The pairs of places, the ends included, and how far they are from the last one.
Grid(a, b) == (1 .. Len(a) + 1) \X (1 .. Len(b) + 1)

Rest(a, b) == [p \in Grid(a, b) |-> (Len(a) + 1 - p[1]) + (Len(b) + 1 - p[2])]

LEMMA GridSteps ==
  ASSUME NEW T, NEW a \in Seq(T), NEW b \in Seq(T)
  PROVE  /\ Len(a) \in Nat /\ Len(b) \in Nat
         /\ Rest(a, b) \in [Grid(a, b) -> Nat]
         /\ \E K \in Nat : \A p \in Grid(a, b) : Rest(a, b)[p] < K
         /\ \A p \in Grid(a, b) :
              /\ p[1] \in Nat /\ p[2] \in Nat /\ p = <<p[1], p[2]>>
              /\ p[1] <= Len(a) =>
                   /\ <<p[1] + 1, p[2]>> \in Grid(a, b) /\ a[p[1]] \in T
                   /\ Rest(a, b)[<<p[1] + 1, p[2]>>] < Rest(a, b)[p]
              /\ p[2] <= Len(b) =>
                   /\ <<p[1], p[2] + 1>> \in Grid(a, b) /\ b[p[2]] \in T
                   /\ Rest(a, b)[<<p[1], p[2] + 1>>] < Rest(a, b)[p]
              /\ p[1] <= Len(a) /\ p[2] <= Len(b) =>
                   /\ <<p[1] + 1, p[2] + 1>> \in Grid(a, b)
                   /\ Rest(a, b)[<<p[1] + 1, p[2] + 1>>] < Rest(a, b)[p]
<1> DEFINE N == Len(a)
           M == Len(b)
<1>1. N \in Nat /\ M \in Nat
  OBVIOUS
<1>2. (\A i \in 1 .. N : a[i] \in T) /\ (\A j \in 1 .. M : b[j] \in T)
  OBVIOUS
<1> HIDE DEF N, M
<1>3. Grid(a, b) = (1 .. N + 1) \X (1 .. M + 1)
  BY DEF Grid, N, M
<1>4. \A i \in 1 .. N + 1, j \in 1 .. M + 1 : Rest(a, b)[<<i, j>>] = (N + 1 - i) + (M + 1 - j)
  BY <1>3 DEF Rest, N, M
<1>5. Rest(a, b) \in [Grid(a, b) -> Nat]
  <2>1. \A p \in Grid(a, b) : (N + 1 - p[1]) + (M + 1 - p[2]) \in Nat
    BY <1>1, <1>3
  <2>2. QED BY <2>1 DEF Rest, N, M
<1>6. \A p \in Grid(a, b) : Rest(a, b)[p] < N + M + 1
  BY <1>1, <1>3, <1>4
<1>7. ASSUME NEW i \in 1 .. N + 1, NEW j \in 1 .. M + 1
      PROVE  /\ i \in Nat /\ j \in Nat
             /\ i <= N => /\ <<i + 1, j>> \in Grid(a, b) /\ a[i] \in T
                          /\ Rest(a, b)[<<i + 1, j>>] < Rest(a, b)[<<i, j>>]
             /\ j <= M => /\ <<i, j + 1>> \in Grid(a, b) /\ b[j] \in T
                          /\ Rest(a, b)[<<i, j + 1>>] < Rest(a, b)[<<i, j>>]
             /\ i <= N /\ j <= M => /\ <<i + 1, j + 1>> \in Grid(a, b)
                                    /\ Rest(a, b)[<<i + 1, j + 1>>] < Rest(a, b)[<<i, j>>]
  <2>1. i \in Nat /\ j \in Nat
    BY <1>1
  <2>2. Rest(a, b)[<<i, j>>] = (N + 1 - i) + (M + 1 - j)
    BY <1>4
  <2>3. ASSUME i <= N
        PROVE  /\ <<i + 1, j>> \in Grid(a, b) /\ a[i] \in T
               /\ Rest(a, b)[<<i + 1, j>>] < Rest(a, b)[<<i, j>>]
    <3>1. i + 1 \in 1 .. N + 1 /\ i \in 1 .. N
      BY <1>1, <2>3
    <3>2. Rest(a, b)[<<i + 1, j>>] = (N + 1 - (i + 1)) + (M + 1 - j)
      BY <1>4, <3>1
    <3>3. (N + 1 - (i + 1)) + (M + 1 - j) < (N + 1 - i) + (M + 1 - j)
      BY <1>1, <2>1
    <3>4. <<i + 1, j>> \in Grid(a, b) /\ a[i] \in T
      BY <1>3, <1>2, <3>1
    <3>5. QED BY <2>2, <3>2, <3>3, <3>4
  <2>4. ASSUME j <= M
        PROVE  /\ <<i, j + 1>> \in Grid(a, b) /\ b[j] \in T
               /\ Rest(a, b)[<<i, j + 1>>] < Rest(a, b)[<<i, j>>]
    <3>1. j + 1 \in 1 .. M + 1 /\ j \in 1 .. M
      BY <1>1, <2>4
    <3>2. Rest(a, b)[<<i, j + 1>>] = (N + 1 - i) + (M + 1 - (j + 1))
      BY <1>4, <3>1
    <3>3. (N + 1 - i) + (M + 1 - (j + 1)) < (N + 1 - i) + (M + 1 - j)
      BY <1>1, <2>1
    <3>4. <<i, j + 1>> \in Grid(a, b) /\ b[j] \in T
      BY <1>3, <1>2, <3>1
    <3>5. QED BY <2>2, <3>2, <3>3, <3>4
  <2>5. ASSUME i <= N, j <= M
        PROVE  /\ <<i + 1, j + 1>> \in Grid(a, b)
               /\ Rest(a, b)[<<i + 1, j + 1>>] < Rest(a, b)[<<i, j>>]
    <3>1. i + 1 \in 1 .. N + 1 /\ j + 1 \in 1 .. M + 1
      BY <1>1, <2>5
    <3>2. Rest(a, b)[<<i + 1, j + 1>>] = (N + 1 - (i + 1)) + (M + 1 - (j + 1))
      BY <1>4, <3>1
    <3>3. (N + 1 - (i + 1)) + (M + 1 - (j + 1)) < (N + 1 - i) + (M + 1 - j)
      BY <1>1, <2>1
    <3>4. <<i + 1, j + 1>> \in Grid(a, b)
      BY <1>3, <3>1
    <3>5. QED BY <2>2, <3>2, <3>3, <3>4
  <2>6. QED BY <2>1, <2>3, <2>4, <2>5
<1>8. N + M + 1 \in Nat
  BY <1>1
<1>9. \A p \in Grid(a, b) : p[1] \in 1 .. N + 1 /\ p[2] \in 1 .. M + 1 /\ p = <<p[1], p[2]>>
  BY <1>3
<1>10. QED BY <1>1, <1>5, <1>6, <1>7, <1>8, <1>9 DEF N, M

LEMMA MaxOfTwo ==
  ASSUME NEW m \in Nat, NEW n \in Nat
  PROVE  Max({m, n}) \in {m, n} /\ Max({m, n}) >= m /\ Max({m, n}) >= n
<1>1. \E x \in {m, n} : \A y \in {m, n} : x >= y
  BY m >= n \/ n >= m
<1>2. QED BY <1>1 DEF Max

Tabled(a, b, dp) ==
  /\ dp \in [Grid(a, b) -> Nat]
  /\ \A p \in Grid(a, b) : dp[p] =
       IF p[1] > Len(a) \/ p[2] > Len(b) THEN 0
       ELSE IF a[p[1]] = b[p[2]] THEN dp[<<p[1] + 1, p[2] + 1>>] + 1
       ELSE Max({dp[<<p[1] + 1, p[2]>>], dp[<<p[1], p[2] + 1>>]})

\* The table holds what its recursion says.
LEMMA LcsIs ==
  ASSUME NEW T, NEW a \in Seq(T), NEW b \in Seq(T)
  PROVE  Tabled(a, b, Lcs(a, b))
<1> DEFINE G == Grid(a, b)
           Cell(dp, p) ==
             IF p[1] > Len(a) \/ p[2] > Len(b) THEN 0
             ELSE IF a[p[1]] = b[p[2]] THEN dp[<<p[1] + 1, p[2] + 1>>] + 1
             ELSE Max({dp[<<p[1] + 1, p[2]>>], dp[<<p[1], p[2] + 1>>]})
           Table(dp) == [p \in G |-> Cell(dp, p)]
           step == [p \in G |-> [g \in [G -> Nat] |-> Cell(g, p)]]
<1>1. /\ Len(a) \in Nat /\ Len(b) \in Nat
      /\ \A p \in G :
           /\ p[1] \in Nat /\ p[2] \in Nat
           /\ p[1] <= Len(a) => /\ <<p[1] + 1, p[2]>> \in G
                                /\ Rest(a, b)[<<p[1] + 1, p[2]>>] < Rest(a, b)[p]
           /\ p[2] <= Len(b) => /\ <<p[1], p[2] + 1>> \in G
                                /\ Rest(a, b)[<<p[1], p[2] + 1>>] < Rest(a, b)[p]
           /\ p[1] <= Len(a) /\ p[2] <= Len(b) =>
                /\ <<p[1] + 1, p[2] + 1>> \in G
                /\ Rest(a, b)[<<p[1] + 1, p[2] + 1>>] < Rest(a, b)[p]
  BY GridSteps
<1>2. Lcs(a, b) = CHOOSE dp : dp = Table(dp)
  BY DEF Lcs, Grid
<1>3. ASSUME NEW p \in G, NEW g, \A q \in G : Rest(a, b)[q] < Rest(a, b)[p] => g[q] \in Nat
      PROVE  Cell(g, p) \in Nat
  <2>1. CASE p[1] > Len(a) \/ p[2] > Len(b)
    BY <2>1
  <2>2. CASE ~(p[1] > Len(a) \/ p[2] > Len(b))
    <3>1. p[1] <= Len(a) /\ p[2] <= Len(b)
      <4>1. p[1] \in Nat /\ p[2] \in Nat /\ Len(a) \in Nat /\ Len(b) \in Nat
        BY <1>1
      <4>2. QED BY <2>2, <4>1
    <3>2. /\ g[<<p[1] + 1, p[2] + 1>>] \in Nat
          /\ g[<<p[1] + 1, p[2]>>] \in Nat /\ g[<<p[1], p[2] + 1>>] \in Nat
      BY <1>1, <1>3, <3>1
    <3>3. Max({g[<<p[1] + 1, p[2]>>], g[<<p[1], p[2] + 1>>]}) \in Nat
      BY <3>2, MaxOfTwo
    <3>4. QED BY <2>2, <3>2, <3>3
  <2>3. QED BY <2>1, <2>2
<1>4. ASSUME NEW p \in G, NEW g \in [G -> Nat], NEW h \in [G -> Nat],
             \A q \in G : Rest(a, b)[q] < Rest(a, b)[p] => g[q] = h[q]
      PROVE  Cell(g, p) = Cell(h, p)
  <2>1. CASE p[1] > Len(a) \/ p[2] > Len(b)
    BY <2>1
  <2>2. CASE ~(p[1] > Len(a) \/ p[2] > Len(b))
    <3>1. p[1] <= Len(a) /\ p[2] <= Len(b)
      <4>1. p[1] \in Nat /\ p[2] \in Nat /\ Len(a) \in Nat /\ Len(b) \in Nat
        BY <1>1
      <4>2. QED BY <2>2, <4>1
    <3>2. /\ g[<<p[1] + 1, p[2] + 1>>] = h[<<p[1] + 1, p[2] + 1>>]
          /\ g[<<p[1] + 1, p[2]>>] = h[<<p[1] + 1, p[2]>>]
          /\ g[<<p[1], p[2] + 1>>] = h[<<p[1], p[2] + 1>>]
      BY <1>1, <1>4, <3>1
    <3>3. QED BY <2>2, <3>2
  <2>3. QED BY <2>1, <2>2
<1> HIDE DEF Cell
<1>5. Descends(step, Rest(a, b), G, Nat)
  <2>1. step \in [G -> [[G -> Nat] -> Nat]]
    BY <1>3
  <2>2. \A p \in G : \A g, h \in [G -> Nat] :
          (\A q \in G : Rest(a, b)[q] < Rest(a, b)[p] => g[q] = h[q]) => step[p][g] = step[p][h]
    BY <1>4
  <2>3. Rest(a, b) \in [G -> Nat] /\ \E K \in Nat : \A p \in G : Rest(a, b)[p] < K
    BY GridSteps
  <2> HIDE DEF step, G
  <2>4. QED BY <2>1, <2>2, <2>3 DEF Descends
<1>6. PICK f \in [G -> Nat] : \A p \in G : f[p] = step[p][f]
  <2> HIDE DEF step, G
  <2>1. QED BY <1>5, Recursion
<1>7. f = Table(f)
  BY <1>6
<1> HIDE DEF Table
<1>8. Lcs(a, b) = Table(Lcs(a, b))
  BY <1>2, <1>7
<1> DEFINE L == Lcs(a, b)
<1> HIDE DEF L
<1>9. \A p \in G : L[p] = Cell(L, p)
  BY <1>8 DEF Table, L
<1>10. L \in [G -> Nat]
  <2> DEFINE T0 == {p \in G : L[p] \in Nat}
  <2>1. \A p \in G : (\A q \in G : Rest(a, b)[q] < Rest(a, b)[p] => q \in T0) => p \in T0
    BY <1>3, <1>9
  <2>2. Rest(a, b) \in [G -> Nat]
    BY GridSteps
  <2>3. G \subseteq T0
    <3> HIDE DEF T0, G
    <3>1. QED BY <2>1, <2>2, MeasureInduction
  <2>4. L = [p \in G |-> Cell(L, p)]
    BY <1>8 DEF L, Table
  <2>5. QED BY <2>3, <2>4
<1>11. QED BY <1>9, <1>10 DEF L, Cell, Tabled

\* Two ascending choices of k places each, from places i and j on, at which the lists agree.
Agree(a, b, i, j, k, s, t) ==
  /\ k \in Nat
  /\ \A x \in 1 .. k : /\ s[x] \in Nat /\ s[x] >= i /\ s[x] <= Len(a)
                       /\ t[x] \in Nat /\ t[x] >= j /\ t[x] <= Len(b)
                       /\ a[s[x]] = b[t[x]]
  /\ \A x, y \in 1 .. k : x < y => s[x] < s[y] /\ t[x] < t[y]

\* No choice is longer than the table says.
LEMMA LcsBounds ==
  ASSUME NEW T, NEW a \in Seq(T), NEW b \in Seq(T)
  PROVE  \A p \in Grid(a, b) : \A k, s, t :
           Agree(a, b, p[1], p[2], k, s, t) => k <= Lcs(a, b)[p]
<1> DEFINE G == Grid(a, b)
           dp == Lcs(a, b)
           Bounded(p) == \A k, s, t : Agree(a, b, p[1], p[2], k, s, t) => k <= dp[p]
           Fine == {p \in G : Bounded(p)}
<1>1. /\ Len(a) \in Nat /\ Len(b) \in Nat
      /\ \A p \in G :
           /\ p[1] \in Nat /\ p[2] \in Nat
           /\ p[1] <= Len(a) => /\ <<p[1] + 1, p[2]>> \in G
                                /\ Rest(a, b)[<<p[1] + 1, p[2]>>] < Rest(a, b)[p]
           /\ p[2] <= Len(b) => /\ <<p[1], p[2] + 1>> \in G
                                /\ Rest(a, b)[<<p[1], p[2] + 1>>] < Rest(a, b)[p]
           /\ p[1] <= Len(a) /\ p[2] <= Len(b) =>
                /\ <<p[1] + 1, p[2] + 1>> \in G
                /\ Rest(a, b)[<<p[1] + 1, p[2] + 1>>] < Rest(a, b)[p]
  BY GridSteps
<1>2. /\ dp \in [G -> Nat]
      /\ \A p \in G : dp[p] =
           IF p[1] > Len(a) \/ p[2] > Len(b) THEN 0
           ELSE IF a[p[1]] = b[p[2]] THEN dp[<<p[1] + 1, p[2] + 1>>] + 1
           ELSE Max({dp[<<p[1] + 1, p[2]>>], dp[<<p[1], p[2] + 1>>]})
  <2>1. Tabled(a, b, dp)
    BY LcsIs
  <2> HIDE DEF dp
  <2>2. QED BY <2>1 DEF Tabled
<1> HIDE DEF G, dp
<1>3. ASSUME NEW p \in G, \A q \in G : Rest(a, b)[q] < Rest(a, b)[p] => Bounded(q),
             NEW k, NEW s, NEW t, Agree(a, b, p[1], p[2], k, s, t)
      PROVE  k <= dp[p]
  <2> DEFINE i == p[1]
             j == p[2]
  <2>1. i \in Nat /\ j \in Nat /\ dp[p] \in Nat /\ k \in Nat
    BY <1>1, <1>2, <1>3 DEF Agree
  <2>2. \A x \in 1 .. k : /\ s[x] \in Nat /\ s[x] >= i /\ s[x] <= Len(a)
                          /\ t[x] \in Nat /\ t[x] >= j /\ t[x] <= Len(b)
                          /\ a[s[x]] = b[t[x]]
    BY <1>3 DEF Agree
  <2>3. \A x, y \in 1 .. k : x < y => s[x] < s[y] /\ t[x] < t[y]
    BY <1>3 DEF Agree
  <2>4. CASE k = 0
    BY <2>1, <2>4
  <2>5. CASE k # 0
    <3>1. 1 \in 1 .. k
      BY <2>1, <2>5
    <3>2. i <= Len(a) /\ j <= Len(b)
      BY <1>1, <2>1, <2>2, <3>1
    <3>3. \A x \in 1 .. k : s[x] >= s[1] /\ t[x] >= t[1] /\ (x # 1 => s[x] > s[1] /\ t[x] > t[1])
      BY <2>2, <2>3, <3>1
    <3>4. CASE a[i] = b[j]
      <4> DEFINE s1 == [x \in 1 .. k - 1 |-> s[x + 1]]
                 t1 == [x \in 1 .. k - 1 |-> t[x + 1]]
      <4>1. \A x \in 1 .. k - 1 : x + 1 \in 1 .. k /\ x + 1 # 1
        BY <2>1
      <4>2. k - 1 \in Nat
        BY <2>1, <2>5
      <4>3. \A x \in 1 .. k - 1 : /\ s1[x] \in Nat /\ s1[x] >= i + 1 /\ s1[x] <= Len(a)
                                  /\ t1[x] \in Nat /\ t1[x] >= j + 1 /\ t1[x] <= Len(b)
                                  /\ a[s1[x]] = b[t1[x]]
        <5>1. TAKE x \in 1 .. k - 1
        <5> DEFINE y == x + 1
        <5>2. y \in 1 .. k /\ y # 1
          BY <4>1
        <5>3. s1[x] = s[y] /\ t1[x] = t[y]
          OBVIOUS
        <5> HIDE DEF y, s1, t1
        <5>4. /\ s[y] \in Nat /\ s[y] <= Len(a) /\ t[y] \in Nat /\ t[y] <= Len(b)
              /\ a[s[y]] = b[t[y]]
          BY <2>2, <5>2
        <5>5. s[y] > s[1] /\ t[y] > t[1]
          BY <3>3, <5>2
        <5>6. s[1] \in Nat /\ s[1] >= i /\ t[1] \in Nat /\ t[1] >= j
          BY <2>2, <3>1
        <5> HIDE DEF i, j
        <5>7. s[y] >= i + 1 /\ t[y] >= j + 1
          BY <2>1, <5>4, <5>5, <5>6
        <5>8. QED BY <5>3, <5>4, <5>7
      <4>4. ASSUME NEW x \in 1 .. k - 1, NEW y \in 1 .. k - 1, x < y
            PROVE  s1[x] < s1[y] /\ t1[x] < t1[y]
        <5>1. x + 1 < y + 1 /\ x + 1 \in 1 .. k /\ y + 1 \in 1 .. k
          BY <4>1, <4>4
        <5>2. QED BY <2>3, <5>1
      <4> HIDE DEF s1, t1
      <4>5. Agree(a, b, i + 1, j + 1, k - 1, s1, t1)
        BY <4>2, <4>3, <4>4 DEF Agree
      <4>6. k - 1 <= dp[<<i + 1, j + 1>>]
        <5> DEFINE q == <<i + 1, j + 1>>
        <5>1. q \in G /\ Rest(a, b)[q] < Rest(a, b)[p] /\ q[1] = i + 1 /\ q[2] = j + 1
          BY <1>1, <3>2
        <5> HIDE DEF q
        <5>2. Bounded(q)
          BY <1>3, <5>1
        <5>3. k - 1 <= dp[q]
          BY <4>5, <5>1, <5>2
        <5>4. QED BY <5>3 DEF q
      <4>7. dp[p] = dp[<<i + 1, j + 1>>] + 1 /\ dp[<<i + 1, j + 1>>] \in Nat
        <5>1. ~(p[1] > Len(a) \/ p[2] > Len(b))
          BY <1>1, <2>1, <3>2
        <5>2. dp[p] = dp[<<i + 1, j + 1>>] + 1
          BY <1>2, <3>4, <5>1
        <5>3. QED BY <1>1, <1>2, <3>2, <5>2
      <4>8. QED BY <2>1, <4>6, <4>7
    <3>5. CASE a[i] # b[j]
      <4>1. dp[p] = Max({dp[<<i + 1, j>>], dp[<<i, j + 1>>]})
        <5>1. ~(p[1] > Len(a) \/ p[2] > Len(b))
          BY <1>1, <2>1, <3>2
        <5>2. QED BY <1>2, <3>5, <5>1
      <4>2. dp[<<i + 1, j>>] \in Nat /\ dp[<<i, j + 1>>] \in Nat
        BY <1>1, <1>2, <3>2
      <4>3. dp[p] >= dp[<<i + 1, j>>] /\ dp[p] >= dp[<<i, j + 1>>]
        BY <4>1, <4>2, MaxOfTwo
      <4>4. s[1] # i \/ t[1] # j
        BY <2>2, <3>1, <3>5
      <4>5. CASE s[1] # i
        <5>1. Agree(a, b, i + 1, j, k, s, t)
          <6>1. \A x \in 1 .. k : s[x] >= i + 1
            <7>1. TAKE x \in 1 .. k
            <7>2. s[x] \in Nat /\ s[1] \in Nat /\ s[1] >= i /\ s[1] # i
              BY <2>2, <3>1, <4>5
            <7>3. s[x] >= s[1]
              BY <3>3
            <7> HIDE DEF i, j
            <7>4. QED BY <2>1, <7>2, <7>3
          <6>2. QED BY <2>1, <2>2, <2>3, <6>1 DEF Agree
        <5> DEFINE q == <<i + 1, j>>
        <5>2. q \in G /\ Rest(a, b)[q] < Rest(a, b)[p] /\ q[1] = i + 1 /\ q[2] = j
          BY <1>1, <3>2
        <5> HIDE DEF q
        <5>3. Bounded(q)
          BY <1>3, <5>2
        <5>4. k <= dp[q]
          BY <5>1, <5>2, <5>3
        <5>5. QED BY <2>1, <4>2, <4>3, <5>4 DEF q
      <4>6. CASE t[1] # j
        <5>1. Agree(a, b, i, j + 1, k, s, t)
          <6>1. \A x \in 1 .. k : t[x] >= j + 1
            <7>1. TAKE x \in 1 .. k
            <7>2. t[x] \in Nat /\ t[1] \in Nat /\ t[1] >= j /\ t[1] # j
              BY <2>2, <3>1, <4>6
            <7>3. t[x] >= t[1]
              BY <3>3
            <7> HIDE DEF i, j
            <7>4. QED BY <2>1, <7>2, <7>3
          <6>2. QED BY <2>1, <2>2, <2>3, <6>1 DEF Agree
        <5> DEFINE q == <<i, j + 1>>
        <5>2. q \in G /\ Rest(a, b)[q] < Rest(a, b)[p] /\ q[1] = i /\ q[2] = j + 1
          BY <1>1, <3>2
        <5> HIDE DEF q
        <5>3. Bounded(q)
          BY <1>3, <5>2
        <5>4. k <= dp[q]
          BY <5>1, <5>2, <5>3
        <5>5. QED BY <2>1, <4>2, <4>3, <5>4 DEF q
      <4>7. QED BY <4>4, <4>5, <4>6
    <3>6. QED BY <3>4, <3>5
  <2>6. QED BY <2>4, <2>5
<1>4. G \subseteq Fine
  <2>1. \A p \in G : (\A q \in G : Rest(a, b)[q] < Rest(a, b)[p] => q \in Fine) => p \in Fine
    BY <1>3
  <2>2. Rest(a, b) \in [G -> Nat]
    BY GridSteps DEF G
  <2> HIDE DEF Fine
  <2>3. QED BY <2>1, <2>2, MeasureInduction
<1>5. QED BY <1>4 DEF G, dp

Line(T) == [kind : {"del", "add", "context"}, text : T]

Del(a, f, p) == <<[kind |-> "del", text |-> a[p[1]]]>> \o f[<<p[1] + 1, p[2]>>]
Add(b, f, p) == <<[kind |-> "add", text |-> b[p[2]]]>> \o f[<<p[1], p[2] + 1>>]
Keep(a, f, p) == <<[kind |-> "context", text |-> a[p[1]]]>> \o f[<<p[1] + 1, p[2] + 1>>]

\* What the diff holds from a pair of places on.
DiffAt(a, b, f, p) ==
  IF p[1] > Len(a) /\ p[2] > Len(b) THEN <<>>
  ELSE IF p[1] > Len(a) THEN Add(b, f, p)
  ELSE IF p[2] > Len(b) THEN Del(a, f, p)
  ELSE IF a[p[1]] = b[p[2]] THEN Keep(a, f, p)
  ELSE IF Lcs(a, b)[<<p[1] + 1, p[2]>>] >= Lcs(a, b)[<<p[1], p[2] + 1>>] THEN Del(a, f, p)
  ELSE Add(b, f, p)

Diffed(a, b, f, T) ==
  \A p \in Grid(a, b) : f[p] \in Seq(Line(T)) /\ f[p] = DiffAt(a, b, f, p)

\* The diff holds what its recursion says.
LEMMA DiffIs ==
  ASSUME NEW T, NEW a \in Seq(T), NEW b \in Seq(T)
  PROVE  Diffed(a, b, DiffFrom(a, b), T)
<1> DEFINE G == Grid(a, b)
           X == Seq(Line(T))
           dp == Lcs(a, b)
           Table(f) == [p \in G |-> DiffAt(a, b, f, p)]
           step == [p \in G |-> [g \in [G -> X] |-> DiffAt(a, b, g, p)]]
<1>1. DiffFrom(a, b) = CHOOSE f : f = Table(f)
  <2> DEFINE Cases(f, p) ==
               CASE p[1] > Len(a) /\ p[2] > Len(b) -> <<>>
                 [] p[1] > Len(a) /\ p[2] <= Len(b) -> Add(b, f, p)
                 [] p[1] <= Len(a) /\ p[2] > Len(b) -> Del(a, f, p)
                 [] OTHER ->
                   IF a[p[1]] = b[p[2]] THEN Keep(a, f, p)
                   ELSE IF dp[<<p[1] + 1, p[2]>>] >= dp[<<p[1], p[2] + 1>>]
                   THEN Del(a, f, p) ELSE Add(b, f, p)
  <2>1. DiffFrom(a, b) = CHOOSE f : f = [p \in G |-> Cases(f, p)]
    BY DEF DiffFrom, Grid, Add, Del, Keep
  <2>2. \A p \in G : \A f : Cases(f, p) = DiffAt(a, b, f, p)
    <3>1. \A p \in G : p[1] \in Nat /\ p[2] \in Nat /\ Len(a) \in Nat /\ Len(b) \in Nat
      BY GridSteps
    <3> HIDE DEF G
    <3>2. QED BY <3>1 DEF DiffAt
  <2> HIDE DEF Cases, G
  <2>3. \A f : [p \in G |-> Cases(f, p)] = Table(f)
    BY <2>2
  <2> HIDE DEF Table
  <2>4. QED BY <2>1, <2>3
<1>2. /\ Len(a) \in Nat /\ Len(b) \in Nat
      /\ \A p \in G :
           /\ p[1] \in Nat /\ p[2] \in Nat
           /\ p[1] <= Len(a) => /\ <<p[1] + 1, p[2]>> \in G /\ a[p[1]] \in T
                                /\ Rest(a, b)[<<p[1] + 1, p[2]>>] < Rest(a, b)[p]
           /\ p[2] <= Len(b) => /\ <<p[1], p[2] + 1>> \in G /\ b[p[2]] \in T
                                /\ Rest(a, b)[<<p[1], p[2] + 1>>] < Rest(a, b)[p]
           /\ p[1] <= Len(a) /\ p[2] <= Len(b) =>
                /\ <<p[1] + 1, p[2] + 1>> \in G
                /\ Rest(a, b)[<<p[1] + 1, p[2] + 1>>] < Rest(a, b)[p]
  BY GridSteps
<1>3. ASSUME NEW p \in G PROVE ~(p[1] > Len(a)) => p[1] <= Len(a)
  <2>1. p[1] \in Nat /\ Len(a) \in Nat
    BY <1>2
  <2>2. QED BY <2>1
<1>4. ASSUME NEW p \in G PROVE ~(p[2] > Len(b)) => p[2] <= Len(b)
  <2>1. p[2] \in Nat /\ Len(b) \in Nat
    BY <1>2
  <2>2. QED BY <2>1
<1>5. ASSUME NEW p \in G, NEW g, \A q \in G : Rest(a, b)[q] < Rest(a, b)[p] => g[q] \in X
      PROVE  DiffAt(a, b, g, p) \in X
  <2>1. p[1] <= Len(a) => Del(a, g, p) \in X
    <3>1. SUFFICES ASSUME p[1] <= Len(a) PROVE Del(a, g, p) \in X
      OBVIOUS
    <3>2. g[<<p[1] + 1, p[2]>>] \in X /\ a[p[1]] \in T
      BY <1>2, <1>5, <3>1
    <3>3. QED BY <3>2 DEF Del, Line
  <2>2. p[2] <= Len(b) => Add(b, g, p) \in X
    <3>1. SUFFICES ASSUME p[2] <= Len(b) PROVE Add(b, g, p) \in X
      OBVIOUS
    <3>2. g[<<p[1], p[2] + 1>>] \in X /\ b[p[2]] \in T
      BY <1>2, <1>5, <3>1
    <3>3. QED BY <3>2 DEF Add, Line
  <2>3. p[1] <= Len(a) /\ p[2] <= Len(b) => Keep(a, g, p) \in X
    <3>1. SUFFICES ASSUME p[1] <= Len(a), p[2] <= Len(b) PROVE Keep(a, g, p) \in X
      OBVIOUS
    <3>2. g[<<p[1] + 1, p[2] + 1>>] \in X /\ a[p[1]] \in T
      BY <1>2, <1>5, <3>1
    <3>3. QED BY <3>2 DEF Keep, Line
  <2>4. <<>> \in X
    OBVIOUS
  <2> HIDE DEF X
  <2>5. QED BY <1>3, <1>4, <2>1, <2>2, <2>3, <2>4 DEF DiffAt
<1>6. ASSUME NEW p \in G, NEW g, NEW h,
             \A q \in G : Rest(a, b)[q] < Rest(a, b)[p] => g[q] = h[q]
      PROVE  DiffAt(a, b, g, p) = DiffAt(a, b, h, p)
  <2>1. p[1] <= Len(a) => Del(a, g, p) = Del(a, h, p)
    BY <1>2, <1>6 DEF Del
  <2>2. p[2] <= Len(b) => Add(b, g, p) = Add(b, h, p)
    BY <1>2, <1>6 DEF Add
  <2>3. p[1] <= Len(a) /\ p[2] <= Len(b) => Keep(a, g, p) = Keep(a, h, p)
    BY <1>2, <1>6 DEF Keep
  <2>4. QED BY <1>3, <1>4, <2>1, <2>2, <2>3 DEF DiffAt
<1>7. Descends(step, Rest(a, b), G, X)
  <2>1. X # {}
    <3>1. <<>> \in X
      OBVIOUS
    <3>2. QED BY <3>1
  <2> HIDE DEF X
  <2>2. step \in [G -> [[G -> X] -> X]]
    BY <1>5
  <2>3. \A p \in G : \A g, h \in [G -> X] :
          (\A q \in G : Rest(a, b)[q] < Rest(a, b)[p] => g[q] = h[q]) => step[p][g] = step[p][h]
    BY <1>6
  <2>4. Rest(a, b) \in [G -> Nat] /\ \E K \in Nat : \A p \in G : Rest(a, b)[p] < K
    BY GridSteps
  <2> HIDE DEF step, G
  <2>5. QED BY <2>1, <2>2, <2>3, <2>4 DEF Descends
<1>8. PICK f \in [G -> X] : \A p \in G : f[p] = step[p][f]
  <2> HIDE DEF step, G, X
  <2>1. QED BY <1>7, Recursion
<1>9. f = Table(f)
  <2> HIDE DEF X, G
  <2>1. QED BY <1>8
<1> HIDE DEF Table
<1>10. DiffFrom(a, b) = Table(DiffFrom(a, b))
  BY <1>1, <1>9
<1> DEFINE L == DiffFrom(a, b)
<1> HIDE DEF L
<1>11. \A p \in G : L[p] = DiffAt(a, b, L, p)
  BY <1>10 DEF Table, L
<1>12. \A p \in G : L[p] \in X
  <2> DEFINE T0 == {p \in G : L[p] \in X}
  <2> HIDE DEF X
  <2>1. \A p \in G : (\A q \in G : Rest(a, b)[q] < Rest(a, b)[p] => q \in T0) => p \in T0
    BY <1>5, <1>11
  <2>2. Rest(a, b) \in [G -> Nat]
    BY GridSteps
  <2>3. G \subseteq T0
    <3> HIDE DEF T0, G
    <3>1. QED BY <2>1, <2>2, MeasureInduction
  <2>4. QED BY <2>3
<1>13. QED BY <1>11, <1>12 DEF L, Diffed

TextsOf(d) == [i \in DOMAIN d |-> d[i].text]
LinesOf(d, kinds) == {i \in DOMAIN d : d[i].kind \in kinds}
Shown(d, kinds) == Entries(TextsOf(d), LinesOf(d, kinds))
Count(d, kinds) == Cardinality(LinesOf(d, kinds))

Longer(line, rest, kinds, T) ==
  /\ Shown(rest, kinds) \in Seq(T) /\ Count(rest, kinds) \in Nat
  /\ line.kind \in kinds =>
       /\ Shown(<<line>> \o rest, kinds) = <<line.text>> \o Shown(rest, kinds)
       /\ Count(<<line>> \o rest, kinds) = 1 + Count(rest, kinds)
  /\ line.kind \notin kinds =>
       /\ Shown(<<line>> \o rest, kinds) = Shown(rest, kinds)
       /\ Count(<<line>> \o rest, kinds) = Count(rest, kinds)

\* A diff that is longer by a first line.
LEMMA LineCons ==
  ASSUME NEW T, NEW line \in Line(T), NEW rest \in Seq(Line(T)), NEW kinds
  PROVE  Longer(line, rest, kinds, T)
<1> DEFINE d == <<line>> \o rest
           P == LinesOf(rest, kinds)
           Q == {p + 1 : p \in P}
           n == Len(rest)
<1>1. n \in Nat /\ DOMAIN rest = 1 .. n /\ DOMAIN d = 1 .. n + 1
  OBVIOUS
<1>2. d[1] = line /\ \A i \in 1 .. n : d[i + 1] = rest[i] /\ rest[i] \in Line(T)
  OBVIOUS
<1>3. line.text \in T /\ \A i \in 1 .. n : rest[i].text \in T
  BY <1>2 DEF Line
<1> HIDE DEF n, d
<1>4. TextsOf(rest) = [i \in 1 .. n |-> rest[i].text] /\ TextsOf(rest) \in Seq(T)
      /\ Len(TextsOf(rest)) = n
  BY <1>1, <1>3 DEF TextsOf
<1>5. TextsOf(d) = <<line.text>> \o TextsOf(rest)
  <2>1. \A i \in 1 .. n + 1 : d[i].text = IF i = 1 THEN line.text ELSE rest[i - 1].text
    <3>1. TAKE i \in 1 .. n + 1
    <3>2. i = 1 \/ (i - 1 \in 1 .. n /\ (i - 1) + 1 = i)
      BY <1>1
    <3>3. QED BY <1>2, <3>2
  <2>2. TextsOf(d) = [i \in 1 .. n + 1 |-> IF i = 1 THEN line.text ELSE rest[i - 1].text]
    BY <1>1, <2>1 DEF TextsOf
  <2>3. <<line.text>> \o TextsOf(rest) =
        [i \in 1 .. n + 1 |-> IF i = 1 THEN line.text ELSE rest[i - 1].text]
    BY <1>1, <1>3, <1>4
  <2>4. QED BY <2>2, <2>3
<1>6. P \subseteq 1 .. n
  BY <1>1 DEF LinesOf
<1>7. LinesOf(d, kinds) = IF line.kind \in kinds THEN {1} \cup Q ELSE Q
  <2>1. ASSUME NEW i \in 1 .. n + 1
        PROVE  i \in LinesOf(d, kinds) <=> IF i = 1 THEN line.kind \in kinds ELSE i - 1 \in P
    <3>1. i = 1 \/ (i - 1 \in 1 .. n /\ (i - 1) + 1 = i)
      BY <1>1
    <3>2. QED BY <1>1, <1>2, <3>1 DEF LinesOf
  <2>2. LinesOf(d, kinds) \subseteq 1 .. n + 1
    BY <1>1 DEF LinesOf
  <2>3. 1 \in 1 .. n + 1 /\ \A p \in P : p + 1 \in 1 .. n + 1 /\ p + 1 # 1 /\ (p + 1) - 1 = p
    BY <1>1, <1>6
  <2>4. \A i \in 1 .. n + 1 : (i - 1) + 1 = i
    BY <1>1
  <2> HIDE DEF P
  <2>5. \A i \in 1 .. n + 1 : i \in Q <=> i - 1 \in P
    BY <2>3, <2>4
  <2>6. Q \subseteq 1 .. n + 1 /\ 1 \notin Q
    BY <2>3
  <2> HIDE DEF Q
  <2>7. \A i : i \in LinesOf(d, kinds) <=> i \in (IF line.kind \in kinds THEN {1} \cup Q ELSE Q)
    BY <2>1, <2>2, <2>3, <2>5, <2>6
  <2>8. QED BY <2>7
<1>8. /\ Entries(TextsOf(rest), P) \in Seq(T) /\ Cardinality(P) \in Nat
      /\ Entries(TextsOf(d), Q) = Entries(TextsOf(rest), P) /\ Cardinality(Q) = Cardinality(P)
      /\ Entries(TextsOf(d), {1} \cup Q) = <<line.text>> \o Entries(TextsOf(rest), P)
      /\ Cardinality({1} \cup Q) = 1 + Cardinality(P)
  <2> HIDE DEF P
  <2>1. P \subseteq 1 .. Len(TextsOf(rest))
    BY <1>4, <1>6
  <2> DEFINE texts == TextsOf(rest)
             first == line.text
  <2>2. first \in T /\ texts \in Seq(T) /\ P \subseteq 1 .. Len(texts)
    BY <1>3, <1>4, <2>1
  <2> HIDE DEF texts, first
  <2>3. /\ Entries(texts, P) \in Seq(T) /\ Cardinality(P) \in Nat
        /\ Entries(<<first>> \o texts, Q) = Entries(texts, P) /\ Cardinality(Q) = Cardinality(P)
        /\ Entries(<<first>> \o texts, {1} \cup Q) = <<first>> \o Entries(texts, P)
        /\ Cardinality({1} \cup Q) = 1 + Cardinality(P)
    BY <2>2, EntriesCons
  <2> HIDE DEF Q
  <2>4. QED BY <1>5, <2>3, Zenon DEF texts, first
<1> HIDE DEF P, Q
<1>9. QED BY <1>7, <1>8 DEF Shown, Count, P, d, Longer

\* An empty diff shows nothing.
LEMMA NoLines ==
  ASSUME NEW kinds
  PROVE  Shown(<<>>, kinds) = <<>> /\ Count(<<>>, kinds) = 0
<1>1. LinesOf(<<>>, kinds) = {}
  BY DEF LinesOf
<1>2. IsFiniteSet({}) /\ Cardinality({}) = 0
  BY FS_EmptySet
<1>3. Enumerates(<<>>, 0, {})
  BY DEF Enumerates
<1> DEFINE texts == TextsOf(<<>>)
<1> HIDE DEF texts
<1>4. Entries(texts, {}) = Picked(texts, <<>>, 0)
  BY <1>2, <1>3, EntriesAre
<1>5. Picked(texts, <<>>, 0) = <<>>
  BY DEF Picked
<1>6. QED BY <1>1, <1>2, <1>4, <1>5 DEF Shown, Count, texts

From(list, i) == SubSeq(list, i, Len(list))

LEMMA FromIs ==
  ASSUME NEW T, NEW list \in Seq(T), NEW i \in 1 .. Len(list) + 1
  PROVE  /\ i > Len(list) => From(list, i) = <<>>
         /\ i <= Len(list) => From(list, i) = <<list[i]>> \o From(list, i + 1)
<1>1. Len(list) \in Nat /\ i \in Int
  OBVIOUS
<1>2. i > Len(list) => From(list, i) = <<>>
  <2>1. SUFFICES ASSUME i > Len(list) PROVE From(list, i) = <<>>
    OBVIOUS
  <2>2. Len(list) < i
    BY <1>1, <2>1
  <2>3. QED BY <1>1, <2>2, SubSeqEmpty DEF From
<1>3. i <= Len(list) => From(list, i) = <<list[i]>> \o From(list, i + 1)
  <2>1. SUFFICES ASSUME i <= Len(list) PROVE From(list, i) = <<list[i]>> \o From(list, i + 1)
    OBVIOUS
  <2>2. i \in 1 .. Len(list) /\ Len(list) \in i .. Len(list)
    BY <1>1, <2>1
  <2>3. QED BY <2>2, SubSeqRecursiveFirst DEF From
<1>4. QED BY <1>2, <1>3

\* A diff of what two lists hold from a pair of places on.
Told(a, b, p, d) ==
  /\ Shown(d, {"del", "context"}) = From(a, p[1])
  /\ Shown(d, {"add", "context"}) = From(b, p[2])
  /\ Count(d, {"context"}) = Lcs(a, b)[p]

LEMMA DiffTold ==
  ASSUME NEW T, NEW a \in Seq(T), NEW b \in Seq(T)
  PROVE  \A p \in Grid(a, b) : Told(a, b, p, DiffFrom(a, b)[p])
<1> DEFINE G == Grid(a, b)
           dp == Lcs(a, b)
           f == DiffFrom(a, b)
           Fine == {p \in G : Told(a, b, p, f[p])}
<1>1. Tabled(a, b, dp)
  BY LcsIs
<1>2. Diffed(a, b, f, T)
  BY DiffIs
<1>3. /\ Len(a) \in Nat /\ Len(b) \in Nat
      /\ \A p \in G :
           /\ p[1] \in Nat /\ p[2] \in Nat
           /\ p[1] <= Len(a) => /\ <<p[1] + 1, p[2]>> \in G /\ a[p[1]] \in T
                                /\ Rest(a, b)[<<p[1] + 1, p[2]>>] < Rest(a, b)[p]
           /\ p[2] <= Len(b) => /\ <<p[1], p[2] + 1>> \in G /\ b[p[2]] \in T
                                /\ Rest(a, b)[<<p[1], p[2] + 1>>] < Rest(a, b)[p]
           /\ p[1] <= Len(a) /\ p[2] <= Len(b) =>
                /\ <<p[1] + 1, p[2] + 1>> \in G
                /\ Rest(a, b)[<<p[1] + 1, p[2] + 1>>] < Rest(a, b)[p]
  BY GridSteps
<1>4. ASSUME NEW p \in G, \A q \in G : Rest(a, b)[q] < Rest(a, b)[p] => Told(a, b, q, f[q])
      PROVE  Told(a, b, p, f[p])
  <2> DEFINE i == p[1]
             j == p[2]
  <2>1. i \in 1 .. Len(a) + 1 /\ j \in 1 .. Len(b) + 1
    BY DEF Grid
  <2>2. f[p] = DiffAt(a, b, f, p)
    BY <1>2 DEF Diffed
  <2>3. /\ i > Len(a) => From(a, i) = <<>>
        /\ i <= Len(a) => From(a, i) = <<a[i]>> \o From(a, i + 1)
        /\ j > Len(b) => From(b, j) = <<>>
        /\ j <= Len(b) => From(b, j) = <<b[j]>> \o From(b, j + 1)
    <3> HIDE DEF i, j
    <3>1. QED BY <2>1, FromIs
  <2>4. (i > Len(a) \/ i <= Len(a)) /\ (j > Len(b) \/ j <= Len(b))
    BY <1>3, <2>1
  <2>5. (i <= Len(a) => ~(i > Len(a))) /\ (j <= Len(b) => ~(j > Len(b)))
    BY <1>3, <2>1
  <2>6. CASE i > Len(a) /\ j > Len(b)
    <3>1. f[p] = <<>> /\ dp[p] = 0
      BY <1>1, <2>2, <2>6 DEF DiffAt, Tabled
    <3>2. QED BY <2>3, <2>6, <3>1, NoLines DEF Told
  <2>7. ASSUME i <= Len(a), f[p] = Del(a, f, p), dp[p] = dp[<<i + 1, j>>]
        PROVE  Told(a, b, p, f[p])
    <3> DEFINE q == <<i + 1, j>>
               line == [kind |-> "del", text |-> a[i]]
    <3>1. q \in G /\ Rest(a, b)[q] < Rest(a, b)[p] /\ q[1] = i + 1 /\ q[2] = j /\ a[i] \in T
      BY <1>3, <2>7
    <3>2. line \in Line(T) /\ line.kind = "del" /\ line.text = a[i]
      BY <3>1 DEF Line
    <3>3. f[p] = <<line>> \o f[q]
      BY <2>7 DEF Del
    <3> HIDE DEF q, line, i, j
    <3>4. Told(a, b, q, f[q]) /\ f[q] \in Seq(Line(T))
      BY <1>2, <1>4, <3>1 DEF Diffed
    <3> DEFINE d == f[q]
    <3>5. d \in Seq(Line(T))
      BY <3>4
    <3> HIDE DEF d
    <3>6. /\ Shown(<<line>> \o d, {"del", "context"}) = <<line.text>> \o Shown(d, {"del", "context"})
          /\ Shown(<<line>> \o d, {"add", "context"}) = Shown(d, {"add", "context"})
          /\ Count(<<line>> \o d, {"context"}) = Count(d, {"context"})
      <4>1. \A kinds : Longer(line, d, kinds, T)
        BY <3>2, <3>5, LineCons
      <4>2. QED BY <3>2, <4>1 DEF Longer
    <3>7. QED BY <2>3, <2>7, <3>1, <3>2, <3>3, <3>4, <3>6 DEF Told, d, q, i, j
  <2>8. ASSUME j <= Len(b), f[p] = Add(b, f, p), dp[p] = dp[<<i, j + 1>>]
        PROVE  Told(a, b, p, f[p])
    <3> DEFINE q == <<i, j + 1>>
               line == [kind |-> "add", text |-> b[j]]
    <3>1. q \in G /\ Rest(a, b)[q] < Rest(a, b)[p] /\ q[1] = i /\ q[2] = j + 1 /\ b[j] \in T
      BY <1>3, <2>8
    <3>2. line \in Line(T) /\ line.kind = "add" /\ line.text = b[j]
      BY <3>1 DEF Line
    <3>3. f[p] = <<line>> \o f[q]
      BY <2>8 DEF Add
    <3> HIDE DEF q, line, i, j
    <3>4. Told(a, b, q, f[q]) /\ f[q] \in Seq(Line(T))
      BY <1>2, <1>4, <3>1 DEF Diffed
    <3> DEFINE d == f[q]
    <3>5. d \in Seq(Line(T))
      BY <3>4
    <3> HIDE DEF d
    <3>6. /\ Shown(<<line>> \o d, {"add", "context"}) = <<line.text>> \o Shown(d, {"add", "context"})
          /\ Shown(<<line>> \o d, {"del", "context"}) = Shown(d, {"del", "context"})
          /\ Count(<<line>> \o d, {"context"}) = Count(d, {"context"})
      <4>1. \A kinds : Longer(line, d, kinds, T)
        BY <3>2, <3>5, LineCons
      <4>2. QED BY <3>2, <4>1 DEF Longer
    <3>7. QED BY <2>3, <2>8, <3>1, <3>2, <3>3, <3>4, <3>6 DEF Told, d, q, i, j
  <2>9. CASE i > Len(a) /\ j <= Len(b)
    <3>1. f[p] = Add(b, f, p)
      BY <2>2, <2>5, <2>9 DEF DiffAt
    <3>2. dp[p] = 0
      BY <1>1, <2>9 DEF Tabled
    <3> DEFINE q == <<i, j + 1>>
    <3>3. q \in G /\ q[1] = i
      BY <1>3, <2>9
    <3> HIDE DEF q
    <3>4. dp[q] = 0
      BY <1>1, <2>9, <3>3 DEF Tabled
    <3>5. QED BY <2>8, <2>9, <3>1, <3>2, <3>4 DEF q
  <2>10. CASE i <= Len(a) /\ j > Len(b)
    <3>1. f[p] = Del(a, f, p)
      BY <2>2, <2>5, <2>10 DEF DiffAt
    <3>2. dp[p] = 0
      BY <1>1, <2>10 DEF Tabled
    <3> DEFINE q == <<i + 1, j>>
    <3>3. q \in G /\ q[2] = j
      BY <1>3, <2>10
    <3> HIDE DEF q
    <3>4. dp[q] = 0
      BY <1>1, <2>10, <3>3 DEF Tabled
    <3>5. QED BY <2>7, <2>10, <3>1, <3>2, <3>4 DEF q
  <2>11. CASE i <= Len(a) /\ j <= Len(b) /\ a[i] = b[j]
    <3> DEFINE q == <<i + 1, j + 1>>
               line == [kind |-> "context", text |-> a[i]]
    <3>1. q \in G /\ Rest(a, b)[q] < Rest(a, b)[p] /\ q[1] = i + 1 /\ q[2] = j + 1 /\ a[i] \in T
      BY <1>3, <2>11
    <3>2. line \in Line(T) /\ line.kind = "context" /\ line.text = a[i] /\ line.text = b[j]
      BY <2>11, <3>1 DEF Line
    <3>3. f[p] = <<line>> \o f[q]
      BY <2>2, <2>5, <2>11 DEF DiffAt, Keep
    <3>4. dp[p] = dp[q] + 1 /\ dp[q] \in Nat
      BY <1>1, <2>5, <2>11, <3>1 DEF Tabled
    <3> HIDE DEF q, line, i, j, dp
    <3>5. Told(a, b, q, f[q]) /\ f[q] \in Seq(Line(T))
      BY <1>2, <1>4, <3>1 DEF Diffed
    <3> DEFINE d == f[q]
    <3>6. d \in Seq(Line(T))
      BY <3>5
    <3> HIDE DEF d
    <3>7. /\ Shown(<<line>> \o d, {"del", "context"}) = <<line.text>> \o Shown(d, {"del", "context"})
          /\ Shown(<<line>> \o d, {"add", "context"}) = <<line.text>> \o Shown(d, {"add", "context"})
          /\ Count(<<line>> \o d, {"context"}) = 1 + Count(d, {"context"})
      <4>1. \A kinds : Longer(line, d, kinds, T)
        BY <3>2, <3>6, LineCons
      <4>2. QED BY <3>2, <4>1 DEF Longer
    <3>8. Count(<<line>> \o d, {"context"}) = dp[p]
      <4>1. Count(d, {"context"}) = dp[q]
        BY <3>5 DEF Told, d, dp
      <4>2. QED BY <3>4, <3>7, <4>1
    <3>9. QED BY <2>3, <2>11, <3>1, <3>2, <3>3, <3>5, <3>7, <3>8 DEF Told, d, i, j, dp
  <2>12. CASE i <= Len(a) /\ j <= Len(b) /\ a[i] # b[j]
    <3> DEFINE down == <<i + 1, j>>
               right == <<i, j + 1>>
    <3>1. down \in G /\ right \in G
      BY <1>3, <2>12
    <3> HIDE DEF dp
    <3>2. dp[p] = Max({dp[down], dp[right]})
      BY <1>1, <2>5, <2>12 DEF Tabled
    <3>3. f[p] = IF dp[down] >= dp[right] THEN Del(a, f, p) ELSE Add(b, f, p)
      BY <2>2, <2>5, <2>12 DEF DiffAt, dp
    <3> HIDE DEF down, right, f
    <3>4. dp[down] \in Nat /\ dp[right] \in Nat
      BY <1>1, <3>1 DEF Tabled
    <3>5. dp[p] = IF dp[down] >= dp[right] THEN dp[down] ELSE dp[right]
      BY <3>2, <3>4, MaxOfTwo
    <3>6. CASE dp[down] >= dp[right]
      BY <2>7, <2>12, <3>3, <3>5, <3>6 DEF down
    <3>7. CASE ~(dp[down] >= dp[right])
      BY <2>8, <2>12, <3>3, <3>5, <3>7 DEF right
    <3>8. QED BY <3>6, <3>7
  <2>13. QED BY <2>4, <2>6, <2>9, <2>10, <2>11, <2>12
<1>5. G \subseteq Fine
  <2>1. \A p \in G : (\A q \in G : Rest(a, b)[q] < Rest(a, b)[p] => q \in Fine) => p \in Fine
    BY <1>4
  <2>2. Rest(a, b) \in [G -> Nat]
    BY GridSteps
  <2> HIDE DEF Fine, G
  <2>3. QED BY <2>1, <2>2, MeasureInduction
<1>6. QED BY <1>5

\* No lines that both lists have in the same order are more than the diff keeps.
Optimal(a, b, d) ==
  \A S \in SUBSET (DOMAIN a), U \in SUBSET (DOMAIN b) :
    Entries(a, S) = Entries(b, U) => Cardinality(S) <= Count(d, {"context"})

\* The diff of two lists holds both, and no diff of them keeps more lines.
LEMMA DiffReplaysBoth ==
  ASSUME NEW T, NEW a \in Seq(T), NEW b \in Seq(T)
  PROVE  /\ DiffReplays(a, b, DiffLines(a, b)) /\ DiffLines(a, b) \in Seq(Line(T))
         /\ Optimal(a, b, DiffLines(a, b))
<1> DEFINE d == DiffLines(a, b)
           first == <<1, 1>>
<1>1. Len(a) \in Nat /\ Len(b) \in Nat
  OBVIOUS
<1>2. first \in Grid(a, b) /\ first[1] = 1 /\ first[2] = 1
  BY <1>1 DEF Grid
<1> HIDE DEF first
<1>3. d = DiffFrom(a, b)[first]
  BY DEF DiffLines, first
<1> HIDE DEF d
<1>4. d \in Seq(Line(T))
  <2>1. Diffed(a, b, DiffFrom(a, b), T)
    BY DiffIs
  <2>2. QED BY <1>2, <1>3, <2>1 DEF Diffed
<1>5. Told(a, b, first, d)
  BY <1>2, <1>3, DiffTold
<1>6. From(a, 1) = a /\ From(b, 1) = b
  BY SubSeqFull DEF From
<1>7. \A kind : {kind, "context"} = {"context", kind} /\ Shown(d, {kind, "context"}) =
        Entries([i \in DOMAIN d |-> d[i].text], {i \in DOMAIN d : d[i].kind \in {kind, "context"}})
  BY DEF Shown, TextsOf, LinesOf
<1>8. Count(d, {"context"}) = Cardinality({i \in DOMAIN d : d[i].kind \in {"context"}})
  BY DEF Count, LinesOf
<1>9. ASSUME NEW S \in SUBSET (DOMAIN a), NEW U \in SUBSET (DOMAIN b),
             Entries(a, S) = Entries(b, U)
      PROVE  Cardinality(S) <= Count(d, {"context"})
  <2>1. /\ IsFiniteSet(S) /\ S \subseteq Nat /\ S \subseteq 1 .. Len(a)
        /\ IsFiniteSet(U) /\ U \subseteq Nat /\ U \subseteq 1 .. Len(b)
    <3>1. DOMAIN a = 1 .. Len(a) /\ DOMAIN b = 1 .. Len(b)
      OBVIOUS
    <3>2. IsFiniteSet(1 .. Len(a)) /\ IsFiniteSet(1 .. Len(b))
      BY <1>1, FS_Interval
    <3>3. IsFiniteSet(S) /\ IsFiniteSet(U)
      BY <1>9, <3>1, <3>2, FS_Subset
    <3>4. QED BY <1>1, <3>1, <3>3
  <2> DEFINE k == Cardinality(S)
             m == Cardinality(U)
  <2>2. PICK s : Enumerates(s, k, S) /\ Entries(a, S) = Picked(a, s, k)
    BY <2>1, EntriesEnumerate
  <2>3. PICK t : Enumerates(t, m, U) /\ Entries(b, U) = Picked(b, t, m)
    BY <2>1, EntriesEnumerate
  <2> HIDE DEF k, m
  <2>4. k \in Nat /\ m \in Nat
    BY <2>2, <2>3 DEF Enumerates
  <2>5. [x \in 1 .. k |-> a[s[x]]] = [x \in 1 .. m |-> b[t[x]]]
    BY <1>9, <2>2, <2>3, Zenon DEF Picked
  <2>6. 1 .. k = 1 .. m
    BY <2>5
  <2>7. k = m
    <3>1. k <= m
      BY <2>4, <2>6
    <3>2. m <= k
      BY <2>4, <2>6
    <3>3. QED BY <2>4, <3>1, <3>2
  <2>8. \A x \in 1 .. k : a[s[x]] = b[t[x]]
    BY <2>5, <2>6
  <2>9. \A x \in 1 .. k : s[x] \in 1 .. Len(a) /\ t[x] \in 1 .. Len(b)
    BY <2>1, <2>2, <2>3, <2>7 DEF Enumerates
  <2>10. \A x, y \in 1 .. k : x < y => s[x] < s[y] /\ t[x] < t[y]
    BY <2>2, <2>3, <2>7 DEF Enumerates
  <2>11. Agree(a, b, 1, 1, k, s, t)
    <3>1. \A x \in 1 .. k : /\ s[x] \in Nat /\ s[x] >= 1 /\ s[x] <= Len(a)
                            /\ t[x] \in Nat /\ t[x] >= 1 /\ t[x] <= Len(b)
      BY <1>1, <2>9
    <3>2. QED BY <2>4, <2>8, <2>10, <3>1 DEF Agree
  <2>12. k <= Lcs(a, b)[first]
    BY <1>2, <2>11, LcsBounds
  <2>13. QED BY <1>5, <2>12 DEF Told, k
<1>10. Shown(d, {"del", "context"}) = a /\ Shown(d, {"add", "context"}) = b
  BY <1>2, <1>5, <1>6 DEF Told
<1>11. Optimal(a, b, d)
  BY <1>9 DEF Optimal
<1>12. Count(d, {"context"}) \in Nat
  <2>1. DOMAIN d = 1 .. Len(d) /\ Len(d) \in Nat
    BY <1>4
  <2>2. IsFiniteSet(1 .. Len(d))
    BY <2>1, FS_Interval
  <2>3. LinesOf(d, {"context"}) \in SUBSET (1 .. Len(d))
    BY <2>1 DEF LinesOf
  <2>4. QED BY <2>2, <2>3, FS_Subset, FS_CardinalityType DEF Count
<1>13. ASSUME NEW S \in kSubset(Count(d, {"context"}) + 1, DOMAIN a),
              NEW U \in kSubset(Count(d, {"context"}) + 1, DOMAIN b)
       PROVE  Entries(a, S) # Entries(b, U)
  <2>1. S \in SUBSET (DOMAIN a) /\ U \in SUBSET (DOMAIN b)
        /\ Cardinality(S) = Count(d, {"context"}) + 1
    BY <1>13 DEF kSubset
  <2>2. ~(Count(d, {"context"}) + 1 <= Count(d, {"context"}))
    BY <1>12
  <2>3. QED BY <1>9, <2>1, <2>2
<1>14. DiffReplays(a, b, d)
  <2>1. \A S \in kSubset(Count(d, {"context"}) + 1, DOMAIN a),
           U \in kSubset(Count(d, {"context"}) + 1, DOMAIN b) : Entries(a, S) # Entries(b, U)
    BY <1>13
  <2>2. {Entries(a, S) : S \in kSubset(Count(d, {"context"}) + 1, DOMAIN a)}
          \cap {Entries(b, S) : S \in kSubset(Count(d, {"context"}) + 1, DOMAIN b)} = {}
    BY <2>1
  <2>3. QED BY <1>7, <1>8, <1>10, <2>2 DEF DiffReplays
<1>15. QED BY <1>4, <1>11, <1>14 DEF d

\* The diff of two lists names a change exactly when they differ.
LEMMA DiffNames ==
  ASSUME NEW T, NEW a \in Seq(T), NEW b \in Seq(T)
  PROVE  a # b <=> \E line \in Range(DiffLines(a, b)) : line.kind # "context"
<1> DEFINE d == DiffLines(a, b)
           Kept == LinesOf(d, {"context"})
           Left == LinesOf(d, {"del", "context"})
           Right == LinesOf(d, {"add", "context"})
<1>1. d \in Seq(Line(T)) /\ DiffReplays(a, b, d) /\ Optimal(a, b, d)
  BY DiffReplaysBoth
<1> HIDE DEF d
<1>2. Entries(TextsOf(d), Left) = a /\ Entries(TextsOf(d), Right) = b
  BY <1>1 DEF DiffReplays, TextsOf, LinesOf
<1>3. \A S \in SUBSET (DOMAIN a), U \in SUBSET (DOMAIN b) :
        Entries(a, S) = Entries(b, U) => Cardinality(S) <= Cardinality(Kept)
  BY <1>1 DEF Optimal, Count
<1>4. \A i \in DOMAIN d : d[i].kind \in {"del", "add", "context"}
  <2>1. \A i \in DOMAIN d : d[i] \in Line(T)
    <3>1. DOMAIN d = 1 .. Len(d)
      BY <1>1
    <3>2. QED BY <1>1, <3>1
  <2>2. QED BY <2>1 DEF Line
<1>5. Kept \subseteq Left /\ Kept \subseteq Right /\ DOMAIN d = Left \cup Right
  BY <1>4 DEF LinesOf
<1>6. IsFiniteSet(Left) /\ IsFiniteSet(Right) /\ Left \subseteq Nat /\ Right \subseteq Nat
  <2>1. DOMAIN d = 1 .. Len(d) /\ Len(d) \in Nat
    BY <1>1
  <2>2. IsFiniteSet(1 .. Len(d))
    BY <2>1, FS_Interval
  <2>3. Left \in SUBSET (1 .. Len(d)) /\ Right \in SUBSET (1 .. Len(d))
    BY <1>5, <2>1
  <2>4. 1 .. Len(d) \subseteq Nat
    OBVIOUS
  <2>5. QED BY <2>2, <2>3, <2>4, FS_Subset
<1>7. (\E line \in Range(d) : line.kind # "context") <=> Left # Kept \/ Right # Kept
  <2>1. (\E line \in Range(d) : line.kind # "context") <=> \E i \in DOMAIN d : i \notin Kept
    BY DEF Range, LinesOf
  <2> HIDE DEF Kept, Left, Right
  <2>2. QED BY <1>5, <2>1
<1> HIDE DEF Kept, Left, Right
<1>8. ASSUME a # b PROVE Left # Kept \/ Right # Kept
  BY <1>2, <1>8
<1>9. ASSUME a = b PROVE Left = Kept /\ Right = Kept
  <2>1. PICK at : /\ Enumerates(at, Cardinality(Left), Left)
                  /\ a = Picked(TextsOf(d), at, Cardinality(Left))
    BY <1>2, <1>6, EntriesEnumerate
  <2>2. PICK by : /\ Enumerates(by, Cardinality(Right), Right)
                  /\ b = Picked(TextsOf(d), by, Cardinality(Right))
    BY <1>2, <1>6, EntriesEnumerate
  <2>3. DOMAIN a = 1 .. Cardinality(Left) /\ DOMAIN b = 1 .. Cardinality(Right)
    BY <2>1, <2>2 DEF Picked
  <2>4. Cardinality(Left) \in Nat /\ Cardinality(Right) \in Nat
    BY <2>1, <2>2 DEF Enumerates
  <2>5. Cardinality(DOMAIN a) = Cardinality(Left) /\ Cardinality(DOMAIN b) = Cardinality(Right)
    <3>1. \A n \in Nat : Cardinality(1 .. n) = n
      <4>1. TAKE n \in Nat
      <4>2. Cardinality(1 .. n) = IF 1 > n THEN 0 ELSE n - 1 + 1
        BY FS_Interval
      <4>3. QED BY <4>2
    <3>2. QED BY <2>3, <2>4, <3>1
  <2>6. Cardinality(DOMAIN a) <= Cardinality(Kept) /\ Cardinality(DOMAIN b) <= Cardinality(Kept)
    BY <1>3, <1>9
  <2>7. Cardinality(Left) <= Cardinality(Kept) /\ Cardinality(Right) <= Cardinality(Kept)
    BY <2>5, <2>6
  <2>8. IsFiniteSet(Kept) /\ Cardinality(Kept) \in Nat
    BY <1>5, <1>6, FS_Subset, FS_CardinalityType
  <2>9. Cardinality(Kept) <= Cardinality(Left) /\ Cardinality(Kept) <= Cardinality(Right)
    BY <1>5, <1>6, FS_Subset
  <2>10. Cardinality(Kept) = Cardinality(Left) /\ Cardinality(Kept) = Cardinality(Right)
    BY <2>4, <2>7, <2>8, <2>9
  <2>11. QED BY <1>5, <1>6, <2>10, FS_Subset
<1>10. QED BY <1>7, <1>8, <1>9 DEF d

\* The entries at a set of places are what the list holds there.
LEMMA EntriesHold ==
  ASSUME NEW list, NEW P, IsFiniteSet(P), P \subseteq Nat
  PROVE  Range(Entries(list, P)) = {list[p] : p \in P}
<1>1. PICK at : /\ Enumerates(at, Cardinality(P), P)
                /\ Entries(list, P) = Picked(list, at, Cardinality(P))
  BY EntriesEnumerate
<1> DEFINE n == Cardinality(P)
<1> HIDE DEF n
<1>2. Entries(list, P) = [k \in 1 .. n |-> list[at[k]]]
  BY <1>1 DEF Picked, n
<1>3. \A k \in 1 .. n : at[k] \in P
  BY <1>1 DEF Enumerates, n
<1>4. \A p \in P : \E k \in 1 .. n : at[k] = p
  BY <1>1 DEF Enumerates, n
<1>5. Range(Entries(list, P)) = {list[at[k]] : k \in 1 .. n}
  BY <1>2 DEF Range
<1>6. QED BY <1>3, <1>4, <1>5

\* The places of a diff of two lists.
Sides(a, b, d) ==
  /\ LinesOf(d, {"context"}) = LinesOf(d, {"del", "context"}) \cap LinesOf(d, {"add", "context"})
  /\ DOMAIN d = LinesOf(d, {"del", "context"}) \cup LinesOf(d, {"add", "context"})
  /\ \A kinds : IsFiniteSet(LinesOf(d, kinds)) /\ LinesOf(d, kinds) \subseteq Nat
  /\ Shown(d, {"del", "context"}) = a /\ Shown(d, {"add", "context"}) = b

LEMMA DiffSides ==
  ASSUME NEW T, NEW a \in Seq(T), NEW b \in Seq(T)
  PROVE  Sides(a, b, DiffLines(a, b))
<1> DEFINE d == DiffLines(a, b)
<1>1. d \in Seq(Line(T)) /\ DiffReplays(a, b, d)
  BY DiffReplaysBoth
<1> HIDE DEF d
<1>2. DOMAIN d = 1 .. Len(d) /\ Len(d) \in Nat
  BY <1>1
<1>3. \A i \in DOMAIN d : d[i].kind \in {"del", "add", "context"}
  <2>1. \A i \in DOMAIN d : d[i] \in Line(T)
    BY <1>1, <1>2
  <2>2. QED BY <2>1 DEF Line
<1>4. /\ LinesOf(d, {"context"}) = LinesOf(d, {"del", "context"}) \cap LinesOf(d, {"add", "context"})
      /\ DOMAIN d = LinesOf(d, {"del", "context"}) \cup LinesOf(d, {"add", "context"})
  BY <1>3 DEF LinesOf
<1>5. ASSUME NEW kinds PROVE IsFiniteSet(LinesOf(d, kinds)) /\ LinesOf(d, kinds) \subseteq Nat
  <2>1. IsFiniteSet(1 .. Len(d))
    BY <1>2, FS_Interval
  <2>2. LinesOf(d, kinds) \in SUBSET (1 .. Len(d)) /\ 1 .. Len(d) \subseteq Nat
    BY <1>2 DEF LinesOf
  <2>3. QED BY <2>1, <2>2, FS_Subset
<1>6. Shown(d, {"del", "context"}) = a /\ Shown(d, {"add", "context"}) = b
  BY <1>1 DEF DiffReplays, Shown, TextsOf, LinesOf
<1>7. QED BY <1>4, <1>5, <1>6 DEF Sides, d

\* All that a diff changes is marked.
ChangesMarked(d, Marks) ==
  \A line \in Range(d) : line.kind # "context" => line.text \in Marks

\* If all that the diff changes is marked, the lists have the same other lines.
LEMMA MarkedChanges ==
  ASSUME NEW T, NEW a \in Seq(T), NEW b \in Seq(T), NEW Marks,
         ChangesMarked(DiffLines(a, b), Marks)
  PROVE  Range(a) \ Marks = Range(b) \ Marks
<1> DEFINE d == DiffLines(a, b)
           Left == LinesOf(d, {"del", "context"})
           Right == LinesOf(d, {"add", "context"})
           text == TextsOf(d)
<1>1. Sides(a, b, d)
  BY DiffSides
<1>2. ChangesMarked(d, Marks)
  OBVIOUS
<1> HIDE DEF d
<1>3. Range(a) = {text[p] : p \in Left} /\ Range(b) = {text[p] : p \in Right}
  <2>1. Entries(text, Left) = a /\ Entries(text, Right) = b
    BY <1>1 DEF Sides, Shown
  <2>2. IsFiniteSet(Left) /\ IsFiniteSet(Right) /\ Left \subseteq Nat /\ Right \subseteq Nat
    BY <1>1 DEF Sides
  <2> HIDE DEF text, Left, Right
  <2>3. QED BY <2>1, <2>2, EntriesHold
<1>4. \A p \in Left \cup Right : text[p] \notin Marks => p \in Left /\ p \in Right
  <2>1. TAKE p \in Left \cup Right
  <2>2. p \in DOMAIN d /\ d[p] \in Range(d) /\ text[p] = d[p].text
    BY <1>1 DEF Sides, Range, TextsOf
  <2>3. d[p].kind # "context" => text[p] \in Marks
    BY <1>2, <2>2 DEF ChangesMarked
  <2>4. d[p].kind = "context" => p \in Left /\ p \in Right
    BY <2>2 DEF LinesOf
  <2>5. QED BY <2>3, <2>4
<1> HIDE DEF text, Left, Right
<1>5. QED BY <1>3, <1>4

\* Lists that differ at marked places only.
Alike(a, b, Marks) ==
  /\ Len(a) = Len(b)
  /\ \A i \in 1 .. Len(a) : a[i] = b[i] \/ (a[i] \in Marks /\ b[i] \in Marks)

LEMMA AlikeParts ==
  ASSUME NEW T, NEW a \in Seq(T), NEW b \in Seq(T), NEW s \in Seq(T), NEW t \in Seq(T),
         NEW Marks, Alike(a, b, Marks), Alike(s, t, Marks)
  PROVE  Alike(a \o s, b \o t, Marks)
<1> DEFINE m == Len(a)
           n == Len(s)
           left == a \o s
           right == b \o t
<1>1. m \in Nat /\ n \in Nat /\ Len(b) = m /\ Len(t) = n
  BY DEF Alike
<1>2. Len(left) = m + n /\ Len(right) = m + n
  BY <1>1
<1>3. /\ \A i \in 1 .. m : left[i] = a[i] /\ right[i] = b[i]
      /\ \A i \in 1 .. n : left[m + i] = s[i] /\ right[m + i] = t[i]
  BY <1>1
<1>4. /\ \A i \in 1 .. m : a[i] = b[i] \/ (a[i] \in Marks /\ b[i] \in Marks)
      /\ \A i \in 1 .. n : s[i] = t[i] \/ (s[i] \in Marks /\ t[i] \in Marks)
  BY DEF Alike
<1> HIDE DEF m, n, left, right
<1>5. \A i \in 1 .. m + n : i \in 1 .. m \/ (i - m \in 1 .. n /\ m + (i - m) = i)
  BY <1>1
<1>6. \A i \in 1 .. m + n : left[i] = right[i] \/ (left[i] \in Marks /\ right[i] \in Marks)
  <2>1. TAKE i \in 1 .. m + n
  <2>2. CASE i \in 1 .. m
    BY <1>3, <1>4, <2>2
  <2>3. CASE i - m \in 1 .. n /\ m + (i - m) = i
    <3> DEFINE j == i - m
    <3>1. j \in 1 .. n /\ m + j = i
      BY <2>3
    <3> HIDE DEF j
    <3>2. left[i] = s[j] /\ right[i] = t[j]
      BY <1>3, <3>1
    <3>3. QED BY <1>4, <3>1, <3>2
  <2>4. QED BY <1>5, <2>2, <2>3
<1>7. Alike(left, right, Marks)
  BY <1>2, <1>6 DEF Alike
<1>8. QED BY <1>7 DEF left, right

\* If the lists differ at marked places only, all that the diff changes is marked: it keeps
\* every line at the other places.
LEMMA AlikeMarked ==
  ASSUME NEW T, NEW a \in Seq(T), NEW b \in Seq(T), NEW Marks, Alike(a, b, Marks),
         Range(a) \cap Range(b) \cap Marks = {}
  PROVE  ChangesMarked(DiffLines(a, b), Marks)
<1> DEFINE d == DiffLines(a, b)
           n == Len(a)
           S == {i \in 1 .. n : a[i] \notin Marks}
           text == TextsOf(d)
           Kept == LinesOf(d, {"context"})
<1>1. Sides(a, b, d) /\ Optimal(a, b, d)
  BY DiffSides, DiffReplaysBoth
<1>2. /\ n \in Nat /\ DOMAIN a = 1 .. n /\ DOMAIN b = 1 .. n
      /\ \A i \in S : a[i] = b[i]
  BY DEF Alike
<1>3. IsFiniteSet(S) /\ S \subseteq Nat
  <2>1. IsFiniteSet(1 .. n) /\ S \in SUBSET (1 .. n) /\ 1 .. n \subseteq Nat
    BY <1>2, FS_Interval
  <2> HIDE DEF S
  <2>2. QED BY <2>1, FS_Subset
<1>4. \A i \in 1 .. n : i \notin S => b[i] \in Marks
  BY DEF Alike
<1>5. \A i \in 1 .. n : b[i] \notin Marks => i \in S
  BY <1>4
<1>6. S \subseteq 1 .. n /\ \A i \in 1 .. n : a[i] \notin Marks => i \in S
  OBVIOUS
<1> HIDE DEF d, n, S
<1>7. Cardinality(S) <= Cardinality(Kept)
  <2>1. PICK at : Enumerates(at, Cardinality(S), S) /\ Entries(a, S) = Picked(a, at, Cardinality(S))
    BY <1>3, EntriesEnumerate
  <2>2. Entries(b, S) = Picked(b, at, Cardinality(S))
    BY <1>3, <2>1, EntriesAre
  <2>3. \A k \in 1 .. Cardinality(S) : at[k] \in S
    BY <2>1 DEF Enumerates
  <2>4. Picked(a, at, Cardinality(S)) = Picked(b, at, Cardinality(S))
    BY <1>2, <2>3 DEF Picked
  <2>5. Entries(a, S) = Entries(b, S)
    BY <2>1, <2>2, <2>4
  <2>6. S \in SUBSET (DOMAIN a) /\ S \in SUBSET (DOMAIN b)
    BY <1>2, <1>6
  <2>7. QED BY <1>1, <2>5, <2>6 DEF Optimal, Count
<1>8. ASSUME NEW kind \in {"del", "add"}, NEW list,
             list = Shown(d, {kind, "context"}), \A i \in 1 .. n : list[i] \notin Marks => i \in S,
             DOMAIN list = 1 .. n
      PROVE  \A p \in LinesOf(d, {kind, "context"}) : text[p] \notin Marks => p \in Kept
  <2> DEFINE Side == LinesOf(d, {kind, "context"})
             Open == {p \in Side : text[p] \notin Marks}
  <2>1. IsFiniteSet(Side) /\ Side \subseteq Nat /\ Kept \subseteq Side
    BY <1>1 DEF Sides, LinesOf
  <2>2. Entries(text, Side) = list
    BY <1>8 DEF Shown
  <2>3. \A p \in Kept : text[p] \notin Marks
    <3>1. TAKE p \in Kept
    <3>2. text[p] \in Range(a) /\ text[p] \in Range(b)
      <4> DEFINE Left == LinesOf(d, {"del", "context"})
                 Right == LinesOf(d, {"add", "context"})
      <4>1. /\ Entries(text, Left) = a /\ Entries(text, Right) = b
            /\ IsFiniteSet(Left) /\ IsFiniteSet(Right) /\ Left \subseteq Nat /\ Right \subseteq Nat
            /\ p \in Left /\ p \in Right
        BY <1>1, <3>1 DEF Sides, Shown
      <4> HIDE DEF text, Left, Right
      <4>2. Range(a) = {text[q] : q \in Left} /\ Range(b) = {text[q] : q \in Right}
        BY <4>1, EntriesHold
      <4>3. QED BY <4>1, <4>2
    <3>3. QED BY <3>2
  <2> HIDE DEF Side, text, Kept
  <2>4. PICK at : /\ Enumerates(at, Cardinality(Side), Side)
                  /\ Entries(text, Side) = Picked(text, at, Cardinality(Side))
    BY <2>1, EntriesEnumerate
  <2>5. /\ at \in [1 .. n -> Side] /\ \A p \in Side : \E k \in 1 .. n : at[k] = p
        /\ \A k \in 1 .. n : list[k] = text[at[k]]
    <3>1. DOMAIN list = 1 .. Cardinality(Side)
      BY <2>2, <2>4 DEF Picked
    <3>2. 1 .. Cardinality(Side) = 1 .. n
      BY <1>8, <3>1
    <3>3. \A k \in 1 .. Cardinality(Side) : list[k] = text[at[k]]
      BY <2>2, <2>4 DEF Picked
    <3>4. /\ at \in [1 .. Cardinality(Side) -> Side]
          /\ \A p \in Side : \E k \in 1 .. Cardinality(Side) : at[k] = p
      BY <2>4 DEF Enumerates
    <3>5. QED BY ONLY <3>2, <3>3, <3>4
  <2>6. \A p \in Open : \E k \in S : at[k] = p
    <3>1. TAKE p \in Open
    <3>2. PICK k \in 1 .. n : at[k] = p
      BY <2>5, <3>1
    <3>3. list[k] \notin Marks
      BY <2>5, <3>1, <3>2
    <3>4. QED BY <1>8, <3>2, <3>3
  <2>7. Cardinality(Open) <= Cardinality(S) /\ IsFiniteSet(Open)
    <3> DEFINE Hit == {k \in S : at[k] \in Open}
               go == [k \in Hit |-> at[k]]
    <3>1. IsFiniteSet(Hit) /\ Cardinality(Hit) <= Cardinality(S)
      BY <1>3, FS_Subset
    <3> HIDE DEF Open
    <3>2. go \in Surjection(Hit, Open)
      BY <2>6 DEF Surjection
    <3> HIDE DEF Hit, go
    <3>3. IsFiniteSet(Open) /\ Cardinality(Open) <= Cardinality(Hit)
      BY <3>1, <3>2, FS_Surjection
    <3>4. Cardinality(Open) \in Nat /\ Cardinality(Hit) \in Nat /\ Cardinality(S) \in Nat
      BY <1>3, <3>1, <3>3, FS_CardinalityType
    <3>5. QED BY <3>1, <3>3, <3>4
  <2>8. Kept \subseteq Open
    BY <2>1, <2>3
  <2> HIDE DEF Open
  <2>9. IsFiniteSet(Kept) /\ Cardinality(Kept) <= Cardinality(Open)
    BY <2>7, <2>8, FS_Subset
  <2>10. Cardinality(Open) \in Nat /\ Cardinality(Kept) \in Nat /\ Cardinality(S) \in Nat
    BY <1>3, <2>7, <2>9, FS_CardinalityType
  <2>11. Cardinality(Kept) = Cardinality(Open)
    BY <1>7, <2>7, <2>9, <2>10
  <2>12. Kept = Open
    BY <2>7, <2>8, <2>11, FS_Subset
  <2>13. QED BY <2>12 DEF Open, Side
<1>9. \A p \in LinesOf(d, {"del", "context"}) : text[p] \notin Marks => p \in Kept
  <2>1. Shown(d, {"del", "context"}) = a
    BY <1>1 DEF Sides
  <2> HIDE DEF text, Kept
  <2>2. QED BY <1>2, <1>6, <1>8, <2>1
<1>10. \A p \in LinesOf(d, {"add", "context"}) : text[p] \notin Marks => p \in Kept
  <2>1. Shown(d, {"add", "context"}) = b
    BY <1>1 DEF Sides
  <2> HIDE DEF text, Kept
  <2>2. QED BY <1>2, <1>5, <1>8, <2>1
<1>11. ASSUME NEW p \in DOMAIN d, d[p].kind # "context" PROVE d[p].text \in Marks
  <2>1. text[p] = d[p].text /\ p \notin Kept
    BY <1>11 DEF TextsOf, LinesOf
  <2>2. p \in LinesOf(d, {"del", "context"}) \/ p \in LinesOf(d, {"add", "context"})
    BY <1>1, <1>11 DEF Sides
  <2> HIDE DEF text, Kept
  <2>3. QED BY <1>9, <1>10, <2>1, <2>2
<1>12. QED BY <1>11 DEF ChangesMarked, Range, d

-----------------------------------------------------------------------------
(* The lines of a config, and its changes.                                  *)

Itemized(items, S) ==
  items = [k \in DOMAIN items |-> items[k]] /\ DOMAIN items \subseteq S

\* A config has three sections.
Shaped(config) ==
  /\ config = [flags |-> config.flags, tests |-> config.tests, rollouts |-> config.rollouts]
  /\ Itemized(config.flags, Flags)
  /\ Itemized(config.tests, Experiments)
  /\ Itemized(config.rollouts, Experiments)

LEMMA GeneratedShaped == Shaped(GenerateConfig(flags, exps))
<1> DEFINE config == GenerateConfig(flags, exps)
<1>1. config = [flags |-> config.flags, tests |-> config.tests, rollouts |-> config.rollouts]
  BY DEF GenerateConfig
<1>2. Itemized(config.flags, Flags)
  BY DEF GenerateConfig, Itemized
<1>3. Itemized(config.tests, Experiments) /\ Itemized(config.rollouts, Experiments)
  BY DEF GenerateConfig, Itemized, OfType, Running
<1>4. QED BY <1>1, <1>2, <1>3 DEF Shaped

LEMMA StableShaped ==
  ASSUME NEW config, Shaped(config)
  PROVE  Shaped(StableConfig(config))
BY DEF Shaped, Itemized, StableConfig

\* The lines of a section.
Triples(name, items) == {<<name, k, items[k]>> : k \in DOMAIN items}

LEMMA SectionHolds ==
  ASSUME NEW S, NEW order \in Seq(S), NEW items, DOMAIN items \subseteq Range(order), NEW name
  PROVE  /\ Section(name, items, order) \in Seq(Triples(name, items))
         /\ Range(Section(name, items, order)) = Triples(name, items)
<1> DEFINE keys == InOrder(order, DOMAIN items)
           D == DOMAIN items
<1>1. keys \in Seq(D \cap Range(order)) /\ D \cap Range(order) \subseteq Range(keys)
  BY InOrderIs
<1>2. D \cap Range(order) = D
  OBVIOUS
<1>3. Section(name, items, order) = [i \in DOMAIN keys |-> <<name, keys[i], items[keys[i]]>>]
  BY DEF Section
<1> HIDE DEF keys
<1>4. DOMAIN keys = 1 .. Len(keys) /\ Len(keys) \in Nat /\ \A i \in DOMAIN keys : keys[i] \in D
  BY <1>1, <1>2
<1>5. Section(name, items, order) \in Seq(Triples(name, items))
  <2>1. \A i \in 1 .. Len(keys) : <<name, keys[i], items[keys[i]]>> \in Triples(name, items)
    BY <1>4 DEF Triples
  <2>2. QED BY <1>3, <1>4, <2>1
<1>6. Range(Section(name, items, order)) = {<<name, keys[i], items[keys[i]]>> : i \in DOMAIN keys}
  BY <1>3 DEF Range
<1>7. Range(keys) = D
  BY <1>1, <1>2, <1>4 DEF Range
<1>8. QED BY <1>5, <1>6, <1>7 DEF Range, Triples

LEMMA RangeOfConcat ==
  ASSUME NEW T, NEW s \in Seq(T), NEW t \in Seq(T)
  PROVE  Range(s \o t) = Range(s) \cup Range(t)
<1>1. \A i \in 1 .. Len(s) : (s \o t)[i] = s[i]
  OBVIOUS
<1>2. \A i \in 1 .. Len(t) : (s \o t)[Len(s) + i] = t[i]
  OBVIOUS
<1>3. /\ DOMAIN s = 1 .. Len(s) /\ DOMAIN t = 1 .. Len(t)
      /\ DOMAIN (s \o t) = 1 .. Len(s) + Len(t)
  OBVIOUS
<1>4. Len(s) \in Nat /\ Len(t) \in Nat
  OBVIOUS
<1> DEFINE m == Len(s)
           n == Len(t)
           r == s \o t
<1> HIDE DEF m, n, r
<1>5. \A i \in 1 .. m + n : i \in 1 .. m \/ (i - m \in 1 .. n /\ m + (i - m) = i)
  BY <1>4 DEF m, n
<1>6. \A i \in 1 .. m : i \in 1 .. m + n
  BY <1>4 DEF m, n
<1>7. \A i \in 1 .. n : m + i \in 1 .. m + n
  BY <1>4 DEF m, n
<1>8. \A x \in Range(r) : x \in Range(s) \cup Range(t)
  <2>1. TAKE x \in Range(r)
  <2>2. PICK i \in 1 .. m + n : r[i] = x
    BY <1>3 DEF Range, r, m, n
  <2>3. CASE i \in 1 .. m
    BY <1>1, <1>3, <2>2, <2>3 DEF Range, r, m
  <2>4. CASE i - m \in 1 .. n /\ m + (i - m) = i
    <3>1. t[i - m] = x
      BY <1>2, <2>2, <2>4 DEF r, m, n
    <3>2. QED BY <1>3, <2>4, <3>1 DEF Range, n
  <2>5. QED BY <1>5, <2>3, <2>4
<1>9. \A x \in Range(s) \cup Range(t) : x \in Range(r)
  <2>1. TAKE x \in Range(s) \cup Range(t)
  <2>2. CASE x \in Range(s)
    <3>1. PICK i \in 1 .. m : s[i] = x
      BY <1>3, <2>2 DEF Range, m
    <3>2. r[i] = x /\ i \in 1 .. m + n
      BY <1>1, <1>6, <3>1 DEF r, m
    <3>3. QED BY <1>3, <3>2 DEF Range, r, m, n
  <2>3. CASE x \in Range(t)
    <3>1. PICK i \in 1 .. n : t[i] = x
      BY <1>3, <2>3 DEF Range, n
    <3>2. r[m + i] = x /\ m + i \in 1 .. m + n
      BY <1>2, <1>7, <3>1 DEF r, m, n
    <3>3. QED BY <1>3, <3>2 DEF Range, r, m, n
  <2>4. QED BY <2>2, <2>3
<1>10. QED BY <1>8, <1>9 DEF r

\* The lines other than the stamps.
ItemLines(config) ==
  Triples("flags", config.flags) \cup Triples("rollouts", config.rollouts)
    \cup Triples("tests", config.tests)

Stamps(stamp) == {<<"config_version", stamp>>, <<"published_at", stamp>>}

\* The lists that lines are put together from.
Parts(stamp, config) ==
  [head |-> <<<<"config_version", stamp>>>>, flags |-> Section("flags", config.flags, FlagOrder),
   middle |-> <<<<"published_at", stamp>>>>,
   rollouts |-> Section("rollouts", config.rollouts, ExpOrder),
   tests |-> Section("tests", config.tests, ExpOrder)]

LEMMA LinesParts ==
  ASSUME NEW stamp, NEW config
  PROVE  LET parts == Parts(stamp, StableConfig(config))
         IN  Lines(stamp, config) =
               (((parts.head \o parts.flags) \o parts.middle) \o parts.rollouts) \o parts.tests
BY DEF Lines, Parts

LEMMA PartsHold ==
  ASSUME NEW config, Shaped(config), NEW stamp, NEW T, ItemLines(config) \cup Stamps(stamp) \subseteq T
  PROVE  LET parts == Parts(stamp, config)
         IN  /\ parts.head \in Seq(T) /\ Range(parts.head) = {<<"config_version", stamp>>}
             /\ parts.flags \in Seq(T) /\ Range(parts.flags) = Triples("flags", config.flags)
             /\ parts.middle \in Seq(T) /\ Range(parts.middle) = {<<"published_at", stamp>>}
             /\ parts.rollouts \in Seq(T)
             /\ Range(parts.rollouts) = Triples("rollouts", config.rollouts)
             /\ parts.tests \in Seq(T) /\ Range(parts.tests) = Triples("tests", config.tests)
<1> DEFINE f == Section("flags", config.flags, FlagOrder)
           r == Section("rollouts", config.rollouts, ExpOrder)
           t == Section("tests", config.tests, ExpOrder)
           F == Triples("flags", config.flags)
           R == Triples("rollouts", config.rollouts)
           U == Triples("tests", config.tests)
<1>1. FlagOrder \in Seq(Flags) /\ ExpOrder \in Seq(Experiments)
  BY BodiesAssumption
<1>2. /\ DOMAIN config.flags \subseteq Range(FlagOrder)
      /\ DOMAIN config.rollouts \subseteq Range(ExpOrder)
      /\ DOMAIN config.tests \subseteq Range(ExpOrder)
  BY DEF Shaped, Itemized, Flags, Experiments
<1>3. /\ f \in Seq(F) /\ Range(f) = F /\ r \in Seq(R) /\ Range(r) = R
      /\ t \in Seq(U) /\ Range(t) = U
  BY <1>1, <1>2, SectionHolds
<1>4. F \subseteq T /\ R \subseteq T /\ U \subseteq T
  BY DEF ItemLines
<1>5. <<"config_version", stamp>> \in T /\ <<"published_at", stamp>> \in T
  BY DEF Stamps
<1> HIDE DEF f, r, t, F, R, U
<1>6. f \in Seq(T) /\ r \in Seq(T) /\ t \in Seq(T)
  BY <1>3, <1>4
<1>7. ASSUME NEW x \in T PROVE <<x>> \in Seq(T) /\ Range(<<x>>) = {x}
  <2>1. DOMAIN <<x>> = {1} /\ <<x>>[1] = x
    OBVIOUS
  <2>2. QED BY <2>1 DEF Range
<1> DEFINE parts == Parts(stamp, config)
<1>8. /\ parts.head = <<<<"config_version", stamp>>>> /\ parts.flags = f
      /\ parts.middle = <<<<"published_at", stamp>>>> /\ parts.rollouts = r /\ parts.tests = t
  BY DEF Parts, f, r, t
<1> HIDE DEF parts
<1>9. QED BY <1>3, <1>5, <1>6, <1>7, <1>8 DEF F, R, U, parts

LEMMA LinesHold ==
  ASSUME NEW config, Shaped(config), NEW stamp, NEW T,
         ItemLines(StableConfig(config)) \cup Stamps(stamp) \subseteq T
  PROVE  /\ Lines(stamp, config) \in Seq(T)
         /\ Range(Lines(stamp, config)) = ItemLines(StableConfig(config)) \cup Stamps(stamp)
<1> DEFINE stable == StableConfig(config)
           parts == Parts(stamp, stable)
           h == parts.head
           f == parts.flags
           m == parts.middle
           r == parts.rollouts
           t == parts.tests
<1>1. /\ h \in Seq(T) /\ Range(h) = {<<"config_version", stamp>>}
      /\ f \in Seq(T) /\ Range(f) = Triples("flags", stable.flags)
      /\ m \in Seq(T) /\ Range(m) = {<<"published_at", stamp>>}
      /\ r \in Seq(T) /\ Range(r) = Triples("rollouts", stable.rollouts)
      /\ t \in Seq(T) /\ Range(t) = Triples("tests", stable.tests)
  <2>1. Shaped(stable)
    BY StableShaped
  <2> HIDE DEF stable
  <2>2. QED BY <2>1, PartsHold DEF stable
<1>2. Lines(stamp, config) = (((h \o f) \o m) \o r) \o t
  BY LinesParts
<1> HIDE DEF stable, h, f, m, r, t
<1> DEFINE one == h \o f
           two == one \o m
           three == two \o r
           all == three \o t
<1>3. one \in Seq(T) /\ Range(one) = Range(h) \cup Range(f)
  BY <1>1, RangeOfConcat
<1> HIDE DEF one
<1>4. two \in Seq(T) /\ Range(two) = Range(one) \cup Range(m)
  BY <1>1, <1>3, RangeOfConcat
<1> HIDE DEF two
<1>5. three \in Seq(T) /\ Range(three) = Range(two) \cup Range(r)
  BY <1>1, <1>4, RangeOfConcat
<1> HIDE DEF three
<1>6. all \in Seq(T) /\ Range(all) = Range(three) \cup Range(t)
  BY <1>1, <1>5, RangeOfConcat
<1> HIDE DEF all
<1>7. Lines(stamp, config) = all
  BY <1>2 DEF all, one, two, three
<1>8. QED BY <1>1, <1>3, <1>4, <1>5, <1>6, <1>7 DEF ItemLines, Stamps, stable

\* A section has changed exactly when the list of its changes is not empty.
LEMMA SectionChanges ==
  ASSUME NEW current, NEW published, NEW S, NEW kind, Itemized(current, S), Itemized(published, S)
  PROVE  current # published <=> DiffSection(kind, current, published) # {}
<1> DEFINE Changed == {x \in DOMAIN current \cup DOMAIN published :
                         x \in DOMAIN current \cap DOMAIN published => current[x] # published[x]}
<1>1. DiffSection(kind, current, published) # {} <=> Changed # {}
  BY DEF DiffSection
<1>2. ASSUME current # published PROVE Changed # {}
  <2>1. SUFFICES ASSUME Changed = {} PROVE current = published
    BY <1>2
  <2>2. \A x \in DOMAIN current \cup DOMAIN published :
          x \in DOMAIN current \cap DOMAIN published /\ current[x] = published[x]
    BY <2>1
  <2>3. DOMAIN current = DOMAIN published
    BY <2>2
  <2>4. [x \in DOMAIN current |-> current[x]] = [x \in DOMAIN published |-> published[x]]
    BY <2>2, <2>3
  <2>5. QED BY <2>4 DEF Itemized
<1>3. ASSUME current = published PROVE Changed = {}
  BY <1>3
<1>4. QED BY <1>1, <1>2, <1>3

\* A section is what it says of its items.
LEMMA TriplesTell ==
  ASSUME NEW items, NEW others, NEW S, Itemized(items, S), Itemized(others, S), NEW name,
         Triples(name, items) = Triples(name, others)
  PROVE  items = others
<1>1. \A k \in DOMAIN items : k \in DOMAIN others /\ others[k] = items[k]
  <2>1. TAKE k \in DOMAIN items
  <2>2. <<name, k, items[k]>> \in Triples(name, others)
    BY DEF Triples
  <2>3. PICK l \in DOMAIN others : <<name, k, items[k]>> = <<name, l, others[l]>>
    BY <2>2 DEF Triples
  <2>4. QED BY <2>3
<1>2. \A k \in DOMAIN others : k \in DOMAIN items
  <2>1. TAKE k \in DOMAIN others
  <2>2. <<name, k, others[k]>> \in Triples(name, items)
    BY DEF Triples
  <2>3. PICK l \in DOMAIN items : <<name, k, others[k]>> = <<name, l, items[l]>>
    BY <2>2 DEF Triples
  <2>4. QED BY <2>3
<1>3. DOMAIN items = DOMAIN others
  BY <1>1, <1>2
<1>4. [k \in DOMAIN items |-> items[k]] = [k \in DOMAIN others |-> others[k]]
  BY <1>1, <1>3
<1>5. QED BY <1>4 DEF Itemized

\* No line of an item is a stamp, and every stamp is one.
LEMMA StampsTold ==
  ASSUME NEW config, NEW stamp
  PROVE  /\ \A x \in ItemLines(config) : ~IsStamp(x)
         /\ \A x \in Stamps(stamp) : IsStamp(x)
<1>1. \A name, items : \A x \in Triples(name, items) : x[1] = name
  BY DEF Triples
<1>2. ASSUME NEW x \in ItemLines(config) PROVE ~IsStamp(x)
  <2>1. x[1] \in {"flags", "rollouts", "tests"}
    BY <1>1 DEF ItemLines
  <2>2. QED BY <2>1 DEF IsStamp
<1>3. QED BY <1>2 DEF Stamps, IsStamp

\* Configs of the same item lines have the same sections.
LEMMA LinesTell ==
  ASSUME NEW config, Shaped(config), NEW other, Shaped(other), ItemLines(config) = ItemLines(other)
  PROVE  config = other
<1> DEFINE Named(c, name) == {x \in ItemLines(c) : x[1] = name}
<1>1. \A name, items : \A x \in Triples(name, items) : x[1] = name
  BY DEF Triples
<1>2. ASSUME NEW c
      PROVE  /\ Triples("flags", c.flags) = Named(c, "flags")
             /\ Triples("rollouts", c.rollouts) = Named(c, "rollouts")
             /\ Triples("tests", c.tests) = Named(c, "tests")
  <2>1. "flags" # "rollouts" /\ "flags" # "tests" /\ "rollouts" # "tests"
    OBVIOUS
  <2>2. QED BY <1>1, <2>1 DEF ItemLines
<1>3. \A name : Named(config, name) = Named(other, name)
  OBVIOUS
<1> HIDE DEF Named
<1>4. /\ Triples("flags", config.flags) = Triples("flags", other.flags)
      /\ Triples("rollouts", config.rollouts) = Triples("rollouts", other.rollouts)
      /\ Triples("tests", config.tests) = Triples("tests", other.tests)
  BY <1>2, <1>3
<1>5. config.flags = other.flags
  BY <1>4, TriplesTell DEF Shaped
<1>6. config.tests = other.tests
  BY <1>4, TriplesTell DEF Shaped
<1>7. config.rollouts = other.rollouts
  BY <1>4, TriplesTell DEF Shaped
<1>8. QED BY <1>5, <1>6, <1>7 DEF Shaped

\* No config is absent.
NullIsNoConfig ==
  \A f, t, r : [flags |-> f, tests |-> t, rollouts |-> r] # Null

\* A diff has a changed line that is no stamp.
ShowsChange(diff) == \E line \in Range(diff) : line.kind # "context" /\ ~IsStamp(line.text)

\* The diff of two configs shows a change exactly when they differ in more than the order of
\* keys.
LEMMA ChangeShown ==
  ASSUME NEW draft, Shaped(draft), NEW published, Shaped(published), NEW stamp
  PROVE  LET before == Lines(stamp, published)
             after == Lines(Null, draft)
             diff == DiffLines(before, after)
         IN  /\ DiffReplays(before, after, diff)
             /\ StableConfig(draft) # StableConfig(published) <=> ShowsChange(diff)
<1> DEFINE old == StableConfig(published)
           new == StableConfig(draft)
           a == Lines(stamp, published)
           b == Lines(Null, draft)
           T == ItemLines(old) \cup Stamps(stamp) \cup ItemLines(new) \cup Stamps(Null)
           Marks == {x \in T : IsStamp(x)}
           diff == DiffLines(a, b)
<1>1. Shaped(old) /\ Shaped(new)
  BY StableShaped
<1>2. /\ a \in Seq(T) /\ Range(a) = ItemLines(old) \cup Stamps(stamp)
      /\ b \in Seq(T) /\ Range(b) = ItemLines(new) \cup Stamps(Null)
  <2>1. ItemLines(old) \cup Stamps(stamp) \subseteq T /\ ItemLines(new) \cup Stamps(Null) \subseteq T
    OBVIOUS
  <2> HIDE DEF T
  <2>2. QED BY <2>1, LinesHold
<1>3. /\ \A x \in ItemLines(old) : ~IsStamp(x)
      /\ \A x \in ItemLines(new) : ~IsStamp(x)
      /\ \A x \in Stamps(stamp) : IsStamp(x)
      /\ \A x \in Stamps(Null) : IsStamp(x)
  BY StampsTold
<1>4. DiffReplays(a, b, diff) /\ diff \in Seq(Line(T))
  <2> HIDE DEF T, a, b
  <2>1. QED BY <1>2, DiffReplaysBoth
<1>5. \A line \in Range(diff) : line.text \in T
  <2>1. DOMAIN diff = 1 .. Len(diff) /\ \A i \in 1 .. Len(diff) : diff[i] \in Line(T)
    BY <1>4
  <2>2. QED BY <2>1 DEF Range, Line
<1>6. ShowsChange(diff) <=> ~ChangesMarked(diff, Marks)
  <2> HIDE DEF diff, T
  <2>1. QED BY <1>5 DEF ShowsChange, ChangesMarked
<1>7. ASSUME ChangesMarked(diff, Marks) PROVE new = old
  <2>1. Range(a) \ Marks = Range(b) \ Marks
    <3> HIDE DEF T, a, b, Marks
    <3>1. QED BY <1>2, <1>7, MarkedChanges
  <2>2. Range(a) \ Marks = ItemLines(old) /\ Range(b) \ Marks = ItemLines(new)
    <3> HIDE DEF a, b, old, new
    <3>1. QED BY <1>2, <1>3
  <2> HIDE DEF old, new, a, b
  <2>3. ItemLines(new) = ItemLines(old)
    BY <2>1, <2>2
  <2>4. QED BY <1>1, <2>3, LinesTell
<1>8. ASSUME new = old, stamp = Null PROVE ChangesMarked(diff, Marks)
  <2>1. a = b
    BY <1>8 DEF Lines
  <2>2. a = b => ~\E line \in Range(diff) : line.kind # "context"
    <3> HIDE DEF T, a, b
    <3>1. QED BY <1>2, DiffNames
  <2>3. QED BY <2>1, <2>2 DEF ChangesMarked
<1>9. ASSUME new = old, stamp # Null PROVE ChangesMarked(diff, Marks)
  <2> DEFINE p == Parts(stamp, old)
             q == Parts(Null, new)
  <2>1. /\ p.head \in Seq(T) /\ p.flags \in Seq(T) /\ p.middle \in Seq(T)
        /\ p.rollouts \in Seq(T) /\ p.tests \in Seq(T)
    <3> HIDE DEF old, new
    <3>1. QED BY <1>1, PartsHold
  <2>2. /\ q.head \in Seq(T) /\ q.flags \in Seq(T) /\ q.middle \in Seq(T)
        /\ q.rollouts \in Seq(T) /\ q.tests \in Seq(T)
    <3> HIDE DEF old, new
    <3>1. QED BY <1>1, PartsHold
  <2>3. q.flags = p.flags /\ q.rollouts = p.rollouts /\ q.tests = p.tests
    <3> HIDE DEF old, new
    <3>1. QED BY <1>9 DEF Parts
  <2>4. Alike(p.head, q.head, Marks) /\ Alike(p.middle, q.middle, Marks)
    <3>1. /\ <<"config_version", stamp>> \in Marks /\ <<"config_version", Null>> \in Marks
          /\ <<"published_at", stamp>> \in Marks /\ <<"published_at", Null>> \in Marks
      <4> HIDE DEF old, new
      <4>1. QED BY <1>3 DEF Stamps
    <3>2. \A x, y \in Marks : Alike(<<x>>, <<y>>, Marks)
      <4> HIDE DEF Marks
      <4>1. QED BY DEF Alike
    <3>3. /\ p.head = <<<<"config_version", stamp>>>> /\ q.head = <<<<"config_version", Null>>>>
          /\ p.middle = <<<<"published_at", stamp>>>> /\ q.middle = <<<<"published_at", Null>>>>
      BY DEF Parts
    <3> HIDE DEF Marks, p, q
    <3>4. QED BY <3>1, <3>2, <3>3
  <2>5. \A list \in Seq(T) : Alike(list, list, Marks)
    BY DEF Alike
  <2>6. /\ a = (((p.head \o p.flags) \o p.middle) \o p.rollouts) \o p.tests
        /\ b = (((q.head \o q.flags) \o q.middle) \o q.rollouts) \o q.tests
    BY LinesParts
  <2>7. Alike(a, b, Marks)
    <3> DEFINE ph == p.head
               pm == p.middle
               qh == q.head
               qm == q.middle
               f == p.flags
               r == p.rollouts
               t == p.tests
    <3>1. /\ ph \in Seq(T) /\ pm \in Seq(T) /\ qh \in Seq(T) /\ qm \in Seq(T)
          /\ f \in Seq(T) /\ r \in Seq(T) /\ t \in Seq(T)
      BY <2>1, <2>2
    <3>2. /\ Alike(ph, qh, Marks) /\ Alike(pm, qm, Marks)
          /\ Alike(f, f, Marks) /\ Alike(r, r, Marks) /\ Alike(t, t, Marks)
      BY <2>1, <2>4, <2>5
    <3>3. a = (((ph \o f) \o pm) \o r) \o t /\ b = (((qh \o f) \o qm) \o r) \o t
      BY <2>3, <2>6
    <3> HIDE DEF ph, pm, qh, qm, f, r, t, a, b, T, Marks
    <3> DEFINE p1 == ph \o f
               q1 == qh \o f
               p2 == p1 \o pm
               q2 == q1 \o qm
               p3 == p2 \o r
               q3 == q2 \o r
    <3>4. Alike(p1, q1, Marks) /\ p1 \in Seq(T) /\ q1 \in Seq(T)
      BY <3>1, <3>2, AlikeParts
    <3> HIDE DEF p1, q1
    <3>5. Alike(p2, q2, Marks) /\ p2 \in Seq(T) /\ q2 \in Seq(T)
      BY <3>1, <3>2, <3>4, AlikeParts
    <3> HIDE DEF p2, q2
    <3>6. Alike(p3, q3, Marks) /\ p3 \in Seq(T) /\ q3 \in Seq(T)
      BY <3>1, <3>2, <3>5, AlikeParts
    <3> HIDE DEF p3, q3
    <3>7. Alike(p3 \o t, q3 \o t, Marks)
      BY <3>1, <3>2, <3>6, AlikeParts
    <3>8. a = p3 \o t /\ b = q3 \o t
      BY <3>3 DEF p1, q1, p2, q2, p3, q3
    <3>9. QED BY <3>7, <3>8
  <2>8. Range(a) \cap Range(b) \cap Marks = {}
    <3>1. Stamps(stamp) \cap Stamps(Null) = {}
      BY <1>9 DEF Stamps
    <3> HIDE DEF a, b, old, new
    <3>2. QED BY <1>2, <1>3, <3>1
  <2> HIDE DEF a, b, T, Marks
  <2>9. QED BY <1>2, <2>7, <2>8, AlikeMarked
<1> HIDE DEF Marks, a, b, old, new
<1>10. new # old <=> ShowsChange(diff)
  BY <1>6, <1>7, <1>8, <1>9
<1>11. QED BY <1>4, <1>10 DEF a, b, old, new

\* The comparison and the list of changes of two configs agree.
LEMMA ChangesTold ==
  ASSUME NullIsNoConfig, NEW draft, Shaped(draft), NEW published, Shaped(published)
  PROVE  HasConfigChanges(draft, published) <=> GetConfigChanges(draft, published) # {}
<1>1. published # Null
  BY DEF NullIsNoConfig, Shaped
<1>2. HasConfigChanges(draft, published) <=>
        \/ draft.flags # published.flags
        \/ draft.tests # published.tests
        \/ draft.rollouts # published.rollouts
  BY <1>1 DEF HasConfigChanges
<1>3. draft.flags # published.flags <=> DiffSection("flag", draft.flags, published.flags) # {}
  BY SectionChanges DEF Shaped
<1>4. draft.tests # published.tests <=> DiffSection("test", draft.tests, published.tests) # {}
  BY SectionChanges DEF Shaped
<1>5. draft.rollouts # published.rollouts <=>
        DiffSection("rollout", draft.rollouts, published.rollouts) # {}
  BY SectionChanges DEF Shaped
<1>6. GetConfigChanges(draft, published) =
        DiffSection("flag", draft.flags, published.flags)
        \cup DiffSection("test", draft.tests, published.tests)
        \cup DiffSection("rollout", draft.rollouts, published.rollouts)
  BY <1>1 DEF GetConfigChanges
<1>7. QED BY <1>2, <1>3, <1>4, <1>5, <1>6

\* The live config keeps its shape.
LEMMA ShapeKept ==
  ASSUME WholeInvariant, Shaped(live.config), [Next]_vars
  PROVE  Shaped(live.config)'
<1>1. TypeOK
  BY DEF WholeInvariant
<1>2. ASSUME UNCHANGED live PROVE Shaped(live.config)'
  BY <1>2 DEF Shaped, Itemized
<1>3. ASSUME NEW f \in Flags,
             \/ \E key \in KeyShapes, new \in NewFlags : CreateFlag(f, key, new[1], new[2])
             \/ \E patch \in FlagPatches : UpdateFlag(f, patch)
             \/ DeleteFlag(f)
      PROVE  Shaped(live.config)'
  BY <1>1, <1>2, <1>3, FlagStep
<1>4. ASSUME NEW e \in Experiments, exps[e] # Null, NEW patch \in ExpPatches[exps[e].type],
             UpdateTest(e, patch) \/ UpdateRollout(e, patch) \/ UpdateTestRollout(e, patch)
      PROVE  Shaped(live.config)'
  BY <1>1, <1>2, <1>4, PatchStep
<1>5. ASSUME NEW e \in Experiments,
             \/ \E key \in KeyShapes, split \in NewTests : CreateTest(e, key, split)
             \/ \E key \in KeyShapes, p \in Percentages : CreateRollout(e, key, p)
             \/ \E key \in KeyShapes, body \in NewTestRollouts : CreateTestRollout(e, key, body)
             \/ \E p \in Percentages : SetPercentage(e, p)
             \/ \E kind \in {"cancel", "complete"} : ArchiveExperiment(e, kind)
             \/ DeleteTest(e) \/ DeleteRollout(e) \/ DeleteTestRollout(e)
      PROVE  Shaped(live.config)'
  BY <1>1, <1>2, <1>5, ExpStep
<1>6. ASSUME NEW archived \in BOOLEAN, Publish(archived) PROVE Shaped(live.config)'
  <2>1. live'.config = GenerateConfig(flags, exps)
    BY <1>6 DEF Publish
  <2>2. QED BY <2>1, GeneratedShaped DEF Shaped, Itemized
<1>7. ASSUME NEW u \in Users, NEW env \in ReportEnvs, NEW version \in Versions,
             Report(u, env, version)
      PROVE  Shaped(live.config)'
  BY <1>2, <1>7 DEF Report
<1>8. CASE UNCHANGED vars
  BY <1>2, <1>8 DEF vars
<1>9. QED BY <1>3, <1>4, <1>5, <1>6, <1>7, <1>8 DEF Next

\* Whatever was edited and published, the comparison and the list of changes of the publish
\* screen agree, and the line diff leads from the live text to the draft, keeping as many
\* lines as possible; apart from the two stamps it changes a line exactly when draft and live
\* config differ in more than the order of keys.
THEOREM PublishScreenTellsChanges ==
  ASSUME NullIsNoConfig
  PROVE  Spec => []DiffTellsChanges
<1>1. Init => Shaped(live.config)
  BY DEF Init, Shaped, Itemized
<1>2. ASSUME Shaped(live.config) PROVE DiffTellsChanges
  <2> DEFINE draft == GenerateConfig(flags, exps)
             config == live.config
             stamp == live.version
             diff == DiffLines(Lines(stamp, config), Lines(Null, draft))
  <2>1. Shaped(draft) /\ Shaped(config)
    BY <1>2, GeneratedShaped
  <2> HIDE DEF draft, config, stamp
  <2>2. HasConfigChanges(draft, config) <=> GetConfigChanges(draft, config) # {}
    BY <2>1, ChangesTold
  <2>3. /\ DiffReplays(Lines(stamp, config), Lines(Null, draft), diff)
        /\ StableConfig(draft) # StableConfig(config) <=> ShowsChange(diff)
    BY <2>1, ChangeShown
  <2> HIDE DEF diff
  <2>4. QED BY <2>2, <2>3 DEF DiffTellsChanges, ShowsChange, draft, config, stamp, diff
<1>3. QED BY <1>1, <1>2, ShapeKept, InitWhole, WholeKept, PTL DEF Spec

-----------------------------------------------------------------------------
(* Numbers and bits.                                                        *)

Bit == {0, 1}

Keeps(f, N, X) ==
  N \in Nat /\ f[0] \in X /\ \A n \in 1 .. N : f[n - 1] \in X => f[n] \in X

\* What a recursion keeps, its values have.
LEMMA Iterated ==
  ASSUME NEW N, NEW X, NEW f, Keeps(f, N, X)
  PROVE  \A n \in 0 .. N : f[n] \in X
<1> DEFINE T == {n \in Nat : n <= N => f[n] \in X}
<1>1. N \in Nat /\ f[0] \in X /\ \A n \in 1 .. N : f[n - 1] \in X => f[n] \in X
  BY DEF Keeps
<1>2. 0 \in T
  BY <1>1
<1>3. ASSUME NEW n \in Nat, n \in T PROVE n + 1 \in T
  <2>1. SUFFICES ASSUME n + 1 <= N PROVE f[n + 1] \in X
    OBVIOUS
  <2>2. n + 1 \in 1 .. N /\ (n + 1) - 1 = n /\ n <= N
    BY <1>1, <2>1
  <2>3. f[n] \in X
    BY <1>3, <2>2
  <2>4. QED BY <1>1, <2>2, <2>3
<1>4. Nat \subseteq T
  <2> HIDE DEF T
  <2>1. QED BY <1>2, <1>3, Induction
<1>5. QED BY <1>1, <1>4

Halved(f, value, n) ==
  /\ f \in [0 .. n -> Nat] /\ f[0] = value
  /\ \A k \in 1 .. n : f[k] = f[k - 1] \div 2

LEMMA HalvedOnce ==
  ASSUME NEW value \in Nat, NEW n \in Nat
  PROVE  \E f : Halved(f, value, n) /\ Shifted(value, n) = f[n]
<1> DEFINE Body(f) == [k \in 0 .. n |-> IF k = 0 THEN value ELSE f[k - 1] \div 2]
           next == [k \in 1 .. n |-> [x \in Nat |-> x \div 2]]
           shifted == CHOOSE f : f = Body(f)
<1>1. \A x \in Nat : x \div 2 \in Nat
  OBVIOUS
<1>2. next \in [1 .. n -> [Nat -> Nat]]
  BY <1>1
<1>3. PICK g \in [0 .. n -> Nat] : g[0] = value /\ \A k \in 1 .. n : g[k] = next[k][g[k - 1]]
  <2> HIDE DEF next, Body, shifted
  <2>1. Steps(next, n, Nat, value)
    BY <1>2 DEF Steps
  <2>2. \E f : Iterates(f, next, n, Nat, value)
    BY <2>1, Iteration
  <2>3. QED BY <2>2 DEF Iterates
<1>4. \A k \in 0 .. n : k = 0 \/ (k \in 1 .. n /\ k - 1 \in 0 .. n)
  OBVIOUS
<1>5. g = Body(g)
  <2>1. \A k \in 1 .. n : k - 1 \in 0 .. n
    OBVIOUS
  <2>2. \A k \in 1 .. n : g[k] = g[k - 1] \div 2
    BY <1>3, <2>1
  <2> HIDE DEF next
  <2>3. QED BY <1>3, <1>4, <2>2
<1>6. shifted = Body(shifted)
  <2> HIDE DEF Body
  <2>1. QED BY <1>5
<1>7. Shifted(value, n) = shifted[n]
  BY DEF Shifted
<1> HIDE DEF shifted
<1>8. shifted[0] = value /\ \A k \in 1 .. n : shifted[k] = shifted[k - 1] \div 2
  BY <1>6
<1>9. \A k \in 0 .. n : shifted[k] \in Nat
  <2>1. \A k \in 1 .. n : shifted[k - 1] \in Nat => shifted[k] \in Nat
    BY <1>1, <1>8
  <2>2. Keeps(shifted, n, Nat)
    BY <1>8, <2>1 DEF Keeps
  <2>3. QED BY <2>2, Iterated
<1>10. shifted \in [0 .. n -> Nat]
  BY <1>6, <1>9
<1>11. QED BY <1>7, <1>8, <1>10 DEF Halved

\* Shifting by one more halves once more.
LEMMA ShiftedIs ==
  ASSUME NEW value \in Nat
  PROVE  /\ Shifted(value, 0) = value
         /\ \A n \in Nat : /\ Shifted(value, n) \in Nat
                           /\ Shifted(value, n + 1) = Shifted(value, n) \div 2
<1>1. Shifted(value, 0) = value
  BY HalvedOnce DEF Halved
<1>2. ASSUME NEW n \in Nat
      PROVE  Shifted(value, n) \in Nat /\ Shifted(value, n + 1) = Shifted(value, n) \div 2
  <2>1. PICK f : Halved(f, value, n) /\ Shifted(value, n) = f[n]
    BY HalvedOnce
  <2>2. PICK g : Halved(g, value, n + 1) /\ Shifted(value, n + 1) = g[n + 1]
    BY HalvedOnce
  <2> DEFINE h == [k \in 0 .. n |-> IF f[k] = g[k] THEN 0 ELSE 1]
  <2>3. \A k \in 0 .. n : h[k] \in {0}
    <3>1. h[0] \in {0}
      BY <2>1, <2>2 DEF Halved
    <3>2. ASSUME NEW k \in 1 .. n, h[k - 1] \in {0} PROVE h[k] \in {0}
      <4>1. k - 1 \in 0 .. n /\ k \in 0 .. n /\ k \in 1 .. n + 1
        OBVIOUS
      <4>2. f[k - 1] = g[k - 1]
        BY <3>2, <4>1
      <4>3. f[k] = f[k - 1] \div 2 /\ g[k] = g[k - 1] \div 2
        BY <2>1, <2>2, <4>1 DEF Halved
      <4>4. QED BY <4>1, <4>2, <4>3
    <3> HIDE DEF h
    <3>3. Keeps(h, n, {0})
      BY <3>1, <3>2 DEF Keeps
    <3>4. QED BY <3>3, Iterated
  <2>4. f[n] = g[n]
    BY <2>3
  <2>5. n + 1 \in 1 .. n + 1 /\ (n + 1) - 1 = n
    OBVIOUS
  <2>6. g[n + 1] = g[n] \div 2
    BY <2>2, <2>5 DEF Halved
  <2>7. f[n] \in Nat
    BY <2>1 DEF Halved
  <2>8. QED BY <2>1, <2>2, <2>4, <2>6, <2>7
<1>3. QED BY <1>1, <1>2

LEMMA ShiftedMonotone ==
  ASSUME NEW u \in Nat, NEW v \in Nat, u <= v
  PROVE  \A n \in Nat : Shifted(u, n) <= Shifted(v, n)
<1> DEFINE T == {n \in Nat : Shifted(u, n) <= Shifted(v, n)}
<1>1. 0 \in T
  BY ShiftedIs
<1>2. ASSUME NEW n \in Nat, n \in T PROVE n + 1 \in T
  <2>1. \A x, y \in Nat : x <= y => x \div 2 <= y \div 2
    OBVIOUS
  <2>2. QED BY <1>2, <2>1, ShiftedIs
<1>3. Nat \subseteq T
  <2> HIDE DEF T
  <2>1. QED BY <1>1, <1>2, Induction
<1>4. QED BY <1>3

\* Nothing is left of a number that is shifted by itself.
LEMMA ShiftedOut ==
  ASSUME NEW v \in Nat
  PROVE  Shifted(v, v) = 0
<1> DEFINE T == {n \in Nat : n <= v => Shifted(v, n) <= v - n}
<1>1. 0 \in T
  BY ShiftedIs
<1>2. ASSUME NEW n \in Nat, n \in T PROVE n + 1 \in T
  <2>1. SUFFICES ASSUME n + 1 <= v PROVE Shifted(v, n + 1) <= v - (n + 1)
    OBVIOUS
  <2>2. n <= v /\ v - n \in Nat /\ v - n >= 1
    BY <2>1
  <2>3. Shifted(v, n) \in Nat /\ Shifted(v, n) <= v - n
    BY <1>2, <2>2, ShiftedIs
  <2>4. \A x, y \in Nat : x <= y /\ y >= 1 => x \div 2 <= y - 1
    OBVIOUS
  <2>5. Shifted(v, n) \div 2 <= (v - n) - 1
    BY <2>2, <2>3, <2>4
  <2>6. QED BY <2>5, ShiftedIs
<1>3. Nat \subseteq T
  <2> HIDE DEF T
  <2>1. QED BY <1>1, <1>2, Induction
<1>4. Shifted(v, v) <= 0
  <2>1. v \in T
    BY <1>3
  <2>2. QED BY <2>1
<1>5. QED BY <1>4, ShiftedIs

\* The width of a count holds every number below it.
LEMMA WidthFits ==
  ASSUME NEW count \in Nat, NEW v \in Nat, v < count
  PROVE  BitWidth(count) \in Nat /\ Shifted(v, BitWidth(count)) = 0
<1>1. CASE count <= 1
  <2>1. v = 0 /\ BitWidth(count) = 0
    BY <1>1 DEF BitWidth
  <2>2. QED BY <2>1, ShiftedIs
<1>2. CASE ~(count <= 1)
  <2> DEFINE W == {w \in 1 .. count : Shifted(count - 1, w) = 0}
             last == count - 1
  <2>1. last \in Nat /\ last \in 1 .. count /\ v <= last
    BY <1>2
  <2>2. BitWidth(count) = Min(W)
    BY <1>2 DEF BitWidth
  <2>3. last \in W
    <3> HIDE DEF last
    <3>1. Shifted(last, last) = 0
      BY <2>1, ShiftedOut
    <3>2. QED BY <2>1, <3>1 DEF last
  <2>4. IsFiniteSet(W) /\ W \subseteq Int /\ W # {}
    <3>1. IsFiniteSet(1 .. count)
      BY FS_Interval
    <3>2. W \in SUBSET (1 .. count) /\ 1 .. count \subseteq Int
      OBVIOUS
    <3> HIDE DEF W
    <3>3. IsFiniteSet(W)
      BY <3>1, <3>2, FS_Subset
    <3>4. QED BY <2>3, <3>2, <3>3
  <2>5. Min(W) \in W
    <3> HIDE DEF W
    <3>1. QED BY <2>4, Bounds
  <2>6. Min(W) \in Nat /\ Shifted(last, Min(W)) = 0
    BY <2>5
  <2> HIDE DEF last, W
  <2>7. Shifted(v, Min(W)) <= Shifted(last, Min(W)) /\ Shifted(v, Min(W)) \in Nat
    BY <2>1, <2>6, ShiftedMonotone, ShiftedIs
  <2>8. QED BY <2>2, <2>6, <2>7
<1>3. QED BY <1>1, <1>2

ReadBy(f, bits) ==
  /\ f \in [0 .. Len(bits) -> Nat] /\ f[0] = 0
  /\ \A n \in 1 .. Len(bits) : f[n] = 2 * f[n - 1] + bits[n]

LEMMA ReadIs ==
  ASSUME NEW bits \in Seq(Bit)
  PROVE  \E f : ReadBy(f, bits) /\ Read(bits) = f[Len(bits)]
<1> DEFINE N == Len(bits)
           Body(f) == [n \in 0 .. N |-> IF n = 0 THEN 0 ELSE 2 * f[n - 1] + bits[n]]
           next == [n \in 1 .. N |-> [x \in Nat |-> 2 * x + bits[n]]]
           read == CHOOSE f : f = Body(f)
<1>1. N \in Nat /\ \A n \in 1 .. N : bits[n] \in Nat
  BY DEF Bit
<1>2. Read(bits) = read[N]
  BY DEF Read
<1> HIDE DEF N
<1>3. \A n \in 1 .. N : \A x \in Nat : 2 * x + bits[n] \in Nat
  BY <1>1
<1>4. next \in [1 .. N -> [Nat -> Nat]]
  BY <1>3
<1>5. PICK g \in [0 .. N -> Nat] : g[0] = 0 /\ \A k \in 1 .. N : g[k] = next[k][g[k - 1]]
  <2> HIDE DEF next
  <2>1. Steps(next, N, Nat, 0)
    BY <1>1, <1>4 DEF Steps
  <2>2. QED BY <2>1, Iteration DEF Iterates
<1>6. \A k \in 0 .. N : k = 0 \/ (k \in 1 .. N /\ k - 1 \in 0 .. N)
  BY <1>1
<1>7. g = Body(g)
  <2>1. \A k \in 1 .. N : k - 1 \in 0 .. N
    BY <1>1
  <2>2. \A k \in 1 .. N : g[k] = 2 * g[k - 1] + bits[k]
    BY <1>5, <2>1
  <2> HIDE DEF next
  <2>3. QED BY <1>5, <1>6, <2>2
<1>8. read = Body(read)
  <2> HIDE DEF Body
  <2>1. QED BY <1>7
<1> HIDE DEF read
<1>9. read[0] = 0 /\ \A k \in 1 .. N : read[k] = 2 * read[k - 1] + bits[k]
  BY <1>1, <1>8
<1>10. \A k \in 0 .. N : read[k] \in Nat
  <2>1. \A k \in 1 .. N : read[k - 1] \in Nat => read[k] \in Nat
    BY <1>3, <1>9
  <2>2. Keeps(read, N, Nat)
    BY <1>1, <1>9, <2>1 DEF Keeps
  <2>3. QED BY <2>2, Iterated
<1>11. read \in [0 .. N -> Nat]
  BY <1>8, <1>10
<1>12. QED BY <1>2, <1>9, <1>11 DEF ReadBy, N

\* A number that fits is read as it was written.
LEMMA ReadWrite ==
  ASSUME NEW v \in Nat, NEW w \in Nat
  PROVE  /\ Write(v, w) \in Seq(Bit) /\ Len(Write(v, w)) = w
         /\ Shifted(v, w) = 0 => Read(Write(v, w)) = v
<1> DEFINE bits == Write(v, w)
<1>1. \A n \in 0 .. w : w - n \in Nat /\ Shifted(v, w - n) \in Nat
  BY ShiftedIs
<1>2. \A n \in 1 .. w : bits[n] = Shifted(v, w - n) % 2
  BY DEF Write
<1>3. \A n \in 1 .. w : bits[n] \in Bit
  <2>1. \A x \in Nat : x % 2 \in Bit
    BY DEF Bit
  <2>2. QED BY <1>1, <1>2, <2>1
<1>4. bits \in Seq(Bit) /\ Len(bits) = w
  BY <1>3 DEF Write
<1> HIDE DEF bits
<1>5. ASSUME Shifted(v, w) = 0 PROVE Read(bits) = v
  <2>1. PICK f : ReadBy(f, bits) /\ Read(bits) = f[w]
    BY <1>4, ReadIs
  <2> DEFINE h == [n \in 0 .. w |-> IF f[n] = Shifted(v, w - n) THEN 0 ELSE 1]
  <2>2. \A n \in 0 .. w : h[n] \in {0}
    <3>1. h[0] \in {0}
      BY <1>4, <1>5, <2>1 DEF ReadBy
    <3>2. ASSUME NEW n \in 1 .. w, h[n - 1] \in {0} PROVE h[n] \in {0}
      <4>1. n - 1 \in 0 .. w /\ n \in 0 .. w /\ w - n \in Nat /\ w - (n - 1) = (w - n) + 1
        OBVIOUS
      <4>2. f[n - 1] = Shifted(v, w - (n - 1))
        BY <3>2, <4>1
      <4>3. Shifted(v, w - (n - 1)) = Shifted(v, w - n) \div 2
        BY <4>1, ShiftedIs
      <4>4. f[n] = 2 * f[n - 1] + bits[n]
        BY <1>4, <2>1 DEF ReadBy
      <4>5. \A x \in Nat : 2 * (x \div 2) + (x % 2) = x
        OBVIOUS
      <4>6. f[n] = Shifted(v, w - n)
        BY <1>1, <1>2, <4>1, <4>2, <4>3, <4>4, <4>5
      <4>7. QED BY <4>1, <4>6
    <3> HIDE DEF h
    <3>3. Keeps(h, w, {0})
      BY <3>1, <3>2 DEF Keeps
    <3>4. QED BY <3>3, Iterated
  <2>3. f[w] = Shifted(v, w - w)
    BY <2>2
  <2>4. QED BY <2>1, <2>3, ShiftedIs
<1>6. QED BY <1>4, <1>5 DEF bits

-----------------------------------------------------------------------------
(* Bits, digits and bytes.                                                  *)

Word(n) == [1 .. n -> Bit]

Byte == Word(8)

\* Division by the number of bits of a digit or of a byte.
LEMMA Division ==
  ASSUME NEW n \in {4, 8}
  PROVE  /\ \A x \in Nat : /\ x \div n \in Nat /\ x % n \in 0 .. n - 1
                           /\ x = n * (x \div n) + (x % n)
         /\ \A q \in Nat, r \in 0 .. n - 1 : (n * q + r) \div n = q /\ (n * q + r) % n = r
         /\ \A p, q \in Nat : p < q => n * p + n <= n * q
         /\ \A q \in Nat : n * q \in Nat /\ n * (q + 1) = n * q + n /\ n * q >= q
<1>1. CASE n = 4
  BY <1>1
<1>2. CASE n = 8
  BY <1>2
<1>3. QED BY <1>1, <1>2

LEMMA BitsAre ==
  ASSUME NEW n \in {4, 8}, NEW pieces \in Seq(Word(n))
  PROVE  /\ Bits(pieces, n) \in Seq(Bit) /\ Len(Bits(pieces, n)) = n * Len(pieces)
         /\ \A i \in 1 .. Len(pieces), k \in 1 .. n :
              n * (i - 1) + k \in 1 .. n * Len(pieces) /\ Bits(pieces, n)[n * (i - 1) + k] = pieces[i][k]
<1> DEFINE L == Len(pieces)
           bits == Bits(pieces, n)
<1>1. L \in Nat /\ n * L \in Nat /\ \A i \in 1 .. L, k \in 1 .. n : pieces[i][k] \in Bit
  BY Division DEF Word
<1>2. \A j \in 1 .. n * L : bits[j] = pieces[(j - 1) \div n + 1][((j - 1) % n) + 1]
  BY DEF Bits
<1>3. ASSUME NEW j \in 1 .. n * L
      PROVE  (j - 1) \div n + 1 \in 1 .. L /\ ((j - 1) % n) + 1 \in 1 .. n
  <2> DEFINE q == (j - 1) \div n
             r == (j - 1) % n
  <2>1. j - 1 \in Nat /\ j - 1 < n * L
    BY <1>1
  <2>2. q \in Nat /\ r \in 0 .. n - 1 /\ j - 1 = n * q + r
    BY <2>1, Division
  <2> HIDE DEF q, r
  <2>3. n * q <= j - 1 /\ n * q \in Nat
    BY <2>2, Division
  <2>4. q < L
    <3>1. SUFFICES ASSUME L <= q PROVE n * L <= n * q
      BY <1>1, <2>1, <2>2, <2>3
    <3>2. CASE L = q
      BY <2>3, <3>2
    <3>3. CASE L < q
      <4>1. n * L + n <= n * q
        BY <1>1, <2>2, <3>3, Division
      <4>2. QED BY <1>1, <2>3, <4>1
    <3>4. QED BY <1>1, <2>2, <3>1, <3>2, <3>3
  <2>5. QED BY <1>1, <2>2, <2>4 DEF q, r
<1>4. bits = [j \in 1 .. n * L |-> pieces[(j - 1) \div n + 1][((j - 1) % n) + 1]]
  BY DEF Bits
<1>5. \A j \in 1 .. n * L : bits[j] \in Bit
  BY <1>1, <1>2, <1>3
<1> HIDE DEF bits
<1>6. bits \in Seq(Bit) /\ Len(bits) = n * L
  BY <1>1, <1>4, <1>5
<1>7. ASSUME NEW i \in 1 .. L, NEW k \in 1 .. n
      PROVE  n * (i - 1) + k \in 1 .. n * L /\ bits[n * (i - 1) + k] = pieces[i][k]
  <2> DEFINE j == n * (i - 1) + k
  <2>1. i - 1 \in Nat /\ k - 1 \in 0 .. n - 1 /\ n * (i - 1) \in Nat
    BY <1>1, Division
  <2>2. n * (i - 1) + n <= n * L
    BY <1>1, <2>1, Division
  <2>3. j \in 1 .. n * L /\ j - 1 = n * (i - 1) + (k - 1)
    BY <1>1, <2>1, <2>2
  <2>4. (j - 1) \div n = i - 1 /\ (j - 1) % n = k - 1
    BY <2>1, <2>3, Division
  <2>5. ((j - 1) \div n) + 1 = i /\ ((j - 1) % n) + 1 = k
    BY <2>1, <2>4
  <2> HIDE DEF j
  <2>6. bits[j] = pieces[(j - 1) \div n + 1][((j - 1) % n) + 1]
    BY <1>4, <2>3
  <2>7. QED BY <2>3, <2>5, <2>6 DEF j
<1>8. QED BY <1>6, <1>7 DEF bits

\* The pieces of a list of bits hold it, and zeros after it.
LEMMA PiecesAre ==
  ASSUME NEW n \in {4, 8}, NEW bits \in Seq(Bit)
  PROVE  LET count == (Len(bits) + n - 1) \div n
             pieces == Pieces(bits, n)
         IN  /\ count \in Nat /\ n * count - Len(bits) \in 0 .. n - 1
             /\ pieces \in Seq(Word(n)) /\ Len(pieces) = count
             /\ \A j \in 1 .. Len(bits) : Bits(pieces, n)[j] = bits[j]
<1> DEFINE L == Len(bits)
           count == (L + n - 1) \div n
           padded == bits \o Zeros(n * count - L)
           pieces == Pieces(bits, n)
<1>1. L \in Nat /\ n \in Nat /\ n >= 4
  OBVIOUS
<1>2. count \in Nat /\ n * count \in Nat /\ n * count - L \in 0 .. n - 1
  <2> DEFINE r == (L + n - 1) % n
  <2>1. L + n - 1 \in Nat
    BY <1>1
  <2>2. count \in Nat /\ r \in 0 .. n - 1 /\ L + n - 1 = n * count + r /\ n * count \in Nat
    BY <2>1, Division
  <2> HIDE DEF count, r
  <2>3. QED BY <1>1, <2>2
<1>3. pieces = [i \in 1 .. count |-> SubSeq(padded, n * (i - 1) + 1, n * i)]
  BY DEF Pieces
<1> DEFINE pad == n * count - L
<1> HIDE DEF count, pieces
<1>4. Zeros(pad) \in Seq(Bit) /\ Len(Zeros(pad)) = pad
  <2>1. pad \in Nat
    BY <1>1, <1>2
  <2> HIDE DEF pad
  <2>2. QED BY <2>1 DEF Zeros, Bit
<1>5. padded \in Seq(Bit) /\ Len(padded) = n * count /\ \A j \in 1 .. L : padded[j] = bits[j]
  <2>1. L + pad = n * count
    BY <1>1, <1>2
  <2> HIDE DEF pad
  <2>2. bits \o Zeros(pad) \in Seq(Bit) /\ Len(bits \o Zeros(pad)) = L + pad
    BY <1>4
  <2>3. \A j \in 1 .. L : (bits \o Zeros(pad))[j] = bits[j]
    BY <1>4
  <2>4. padded = bits \o Zeros(pad)
    BY DEF pad
  <2>5. QED BY <2>1, <2>2, <2>3, <2>4
<1> HIDE DEF padded
<1>6. ASSUME NEW i \in 1 .. count
      PROVE  /\ SubSeq(padded, n * (i - 1) + 1, n * i) \in Word(n)
             /\ \A k \in 1 .. n : /\ n * (i - 1) + k \in 1 .. n * count
                                  /\ pieces[i][k] = padded[n * (i - 1) + k]
  <2> DEFINE a == n * (i - 1)
             piece == SubSeq(padded, a + 1, a + n)
  <2>1. i - 1 \in Nat /\ i - 1 < count /\ i - 1 + 1 = i
    BY <1>2
  <2>2. a \in Nat /\ n * i = a + n /\ a + n <= n * count
    <3>1. n * ((i - 1) + 1) = a + n /\ a \in Nat /\ a + n <= n * count
      BY <1>2, <2>1, Division
    <3>2. QED BY <2>1, <3>1
  <2> HIDE DEF a
  <2>3. \A k \in 1 .. n : a + k \in 1 .. n * count
    BY <1>1, <1>2, <2>2
  <2>4. /\ piece = [k \in 1 .. n |-> padded[a + k]]
    <3>1. piece = [k \in 1 .. (a + n) - (a + 1) + 1 |-> padded[k + (a + 1) - 1]]
      BY <1>1, <1>5, <2>2
    <3>2. (a + n) - (a + 1) + 1 = n /\ \A k \in 1 .. n : k + (a + 1) - 1 = a + k
      BY <1>1, <2>2
    <3> HIDE DEF piece
    <3>3. QED BY <3>1, <3>2
  <2>5. piece \in Word(n)
    <3>1. \A k \in 1 .. n : padded[a + k] \in Bit
      BY <1>5, <2>3
    <3> HIDE DEF piece
    <3>2. QED BY <2>4, <3>1 DEF Word
  <2>6. pieces[i] = piece
    BY <1>3, <2>2 DEF a
  <2> HIDE DEF piece
  <2>7. QED BY <1>3, <2>3, <2>4, <2>5, <2>6 DEF a
<1>7. pieces \in Seq(Word(n)) /\ Len(pieces) = count
  <2>1. \A i \in 1 .. count : pieces[i] \in Word(n)
    BY <1>3, <1>6
  <2>2. pieces \in [1 .. count -> Word(n)]
    BY <1>3, <2>1
  <2>3. QED BY <1>2, <2>2
<1>8. ASSUME NEW j \in 1 .. L PROVE Bits(pieces, n)[j] = bits[j]
  <2> DEFINE q == (j - 1) \div n
             r == (j - 1) % n
  <2>1. j - 1 \in Nat /\ j - 1 < n * count
    BY <1>1, <1>2
  <2>2. q \in Nat /\ r \in 0 .. n - 1 /\ j - 1 = n * q + r /\ n * q \in Nat
    BY <2>1, Division
  <2> HIDE DEF q, r
  <2>3. q < count
    <3>1. SUFFICES ASSUME count <= q PROVE n * count <= n * q
      BY <1>2, <2>1, <2>2
    <3>2. CASE count = q
      BY <2>2, <3>2
    <3>3. CASE count < q
      <4>1. n * count + n <= n * q
        BY <1>2, <2>2, <3>3, Division
      <4>2. QED BY <1>1, <1>2, <2>2, <4>1
    <3>4. QED BY <1>2, <2>2, <3>1, <3>2, <3>3
  <2> DEFINE i == q + 1
             k == r + 1
  <2>4. i \in 1 .. count /\ k \in 1 .. n /\ i - 1 = q
    BY <1>1, <1>2, <2>2, <2>3
  <2>5. n * (i - 1) + k = j
    <3>1. n * q + (r + 1) = j
      BY <1>1, <2>1, <2>2
    <3>2. QED BY <2>4, <3>1
  <2> HIDE DEF i, k
  <2>6. Bits(pieces, n)[n * (i - 1) + k] = pieces[i][k]
    <3>1. i \in 1 .. Len(pieces)
      BY <1>7, <2>4
    <3>2. QED BY <1>7, <2>4, <3>1, BitsAre
  <2>7. pieces[i][k] = padded[n * (i - 1) + k]
    BY <1>6, <2>4
  <2>8. QED BY <1>5, <2>5, <2>6, <2>7
<1>9. QED BY <1>2, <1>7, <1>8 DEF pieces, count

\* The digits of whole bytes hold them and nothing else, and can be read as bytes again.
LEMMA DigitsAre ==
  ASSUME NEW bytes \in Seq(Byte)
  PROVE  LET hex == Pieces(Bits(bytes, 8), 4)
         IN  /\ hex \in Seq(Word(4)) /\ Len(hex) = 2 * Len(bytes)
             /\ Bits(hex, 4) = Bits(bytes, 8)
             /\ Pieces(Bits(hex, 4), 8) = bytes
<1> DEFINE L == Len(bytes)
           bits == Bits(bytes, 8)
           hex == Pieces(bits, 4)
<1>1. L \in Nat /\ \A i \in 1 .. L : bytes[i] \in Byte
  OBVIOUS
<1>2. /\ bits \in Seq(Bit) /\ Len(bits) = 8 * L
      /\ \A i \in 1 .. L, k \in 1 .. 8 : bits[8 * (i - 1) + k] = bytes[i][k]
  <2>1. 8 \in {4, 8} /\ bytes \in Seq(Word(8))
    BY DEF Byte
  <2>2. QED BY <2>1, BitsAre
<1> HIDE DEF bits
<1>3. (Len(bits) + 4 - 1) \div 4 = 2 * L /\ (Len(bits) + 8 - 1) \div 8 = L
  <2>1. \A m \in Nat : (8 * m + 4 - 1) \div 4 = 2 * m /\ (8 * m + 8 - 1) \div 8 = m
    OBVIOUS
  <2> HIDE DEF L
  <2>2. QED BY <1>1, <1>2, <2>1
<1>4. /\ hex \in Seq(Word(4)) /\ Len(hex) = 2 * L
      /\ \A j \in 1 .. Len(bits) : Bits(hex, 4)[j] = bits[j]
  <2>1. 4 \in {4, 8}
    OBVIOUS
  <2>2. QED BY <1>2, <1>3, <2>1, PiecesAre
<1> HIDE DEF hex
<1>5. Bits(hex, 4) = bits
  <2>1. Bits(hex, 4) \in Seq(Bit) /\ Len(Bits(hex, 4)) = 4 * Len(hex)
    BY <1>4, BitsAre
  <2>2. Len(Bits(hex, 4)) = Len(bits)
    BY <1>1, <1>2, <1>4, <2>1
  <2>3. QED BY <1>2, <1>4, <2>1, <2>2
<1> DEFINE pieces == Pieces(bits, 8)
<1>6. /\ pieces \in Seq(Word(8)) /\ Len(pieces) = L
      /\ \A j \in 1 .. Len(bits) : Bits(pieces, 8)[j] = bits[j]
  <2>1. 8 \in {4, 8}
    OBVIOUS
  <2>2. QED BY <1>2, <1>3, <2>1, PiecesAre
<1> HIDE DEF pieces
<1>7. ASSUME NEW i \in 1 .. L PROVE pieces[i] = bytes[i]
  <2>1. pieces[i] \in Word(8) /\ bytes[i] \in Word(8)
    BY <1>1, <1>6 DEF Byte
  <2>2. ASSUME NEW k \in 1 .. 8 PROVE pieces[i][k] = bytes[i][k]
    <3>1. 8 * (i - 1) + k \in 1 .. Len(bits)
      BY <1>1, <1>2
    <3>2. Bits(pieces, 8)[8 * (i - 1) + k] = pieces[i][k]
      <4>1. i \in 1 .. Len(pieces) /\ 8 \in {4, 8}
        BY <1>6
      <4>2. QED BY <1>6, <4>1, BitsAre
    <3>3. bits[8 * (i - 1) + k] = bytes[i][k]
      BY <1>2
    <3>4. QED BY <1>6, <3>1, <3>2, <3>3
  <2> DEFINE a == pieces[i]
             b == bytes[i]
  <2>3. a \in [1 .. 8 -> Bit] /\ b \in [1 .. 8 -> Bit]
    BY <2>1 DEF Word
  <2>4. \A k \in 1 .. 8 : a[k] = b[k]
    BY <2>2
  <2> HIDE DEF a, b
  <2>5. a = b
    BY <2>3, <2>4
  <2>6. QED BY <2>5 DEF a, b
<1>8. pieces = bytes
  BY <1>6, <1>7
<1>9. QED BY <1>4, <1>5, <1>8 DEF hex, bits, pieces

-----------------------------------------------------------------------------
(* The checksum.                                                            *)

LEMMA Polynomial ==
  /\ Write(7, 8) \in Seq(Bit) /\ Len(Write(7, 8)) = 8
  /\ \A i \in 1 .. 8 : Write(7, 8)[i] = IF i <= 5 THEN 0 ELSE 1
<1>1. /\ Shifted(7, 0) = 7 /\ Shifted(7, 1) = 3 /\ Shifted(7, 2) = 1 /\ Shifted(7, 3) = 0
      /\ Shifted(7, 4) = 0 /\ Shifted(7, 5) = 0 /\ Shifted(7, 6) = 0 /\ Shifted(7, 7) = 0
  <2>1. \A n \in Nat : Shifted(7, n + 1) = Shifted(7, n) \div 2
    BY ShiftedIs
  <2>2. Shifted(7, 0) = 7
    BY ShiftedIs
  <2>3. Shifted(7, 0 + 1) = 7 \div 2 /\ 0 + 1 = 1 /\ 7 \div 2 = 3
    BY <2>1, <2>2
  <2>4. Shifted(7, 1 + 1) = 3 \div 2 /\ 1 + 1 = 2 /\ 3 \div 2 = 1
    BY <2>1, <2>3
  <2>5. Shifted(7, 2 + 1) = 1 \div 2 /\ 2 + 1 = 3 /\ 1 \div 2 = 0
    BY <2>1, <2>4
  <2>6. Shifted(7, 3 + 1) = 0 \div 2 /\ 3 + 1 = 4 /\ 0 \div 2 = 0
    BY <2>1, <2>5
  <2>7. Shifted(7, 4 + 1) = 0 \div 2 /\ 4 + 1 = 5
    BY <2>1, <2>6
  <2>8. Shifted(7, 5 + 1) = 0 \div 2 /\ 5 + 1 = 6
    BY <2>1, <2>6, <2>7
  <2>9. Shifted(7, 6 + 1) = 0 \div 2 /\ 6 + 1 = 7
    BY <2>1, <2>6, <2>8
  <2>10. QED BY <2>2, <2>3, <2>4, <2>5, <2>6, <2>7, <2>8, <2>9
<1>2. \A i \in 1 .. 8 : Write(7, 8)[i] = Shifted(7, 8 - i) % 2
  BY DEF Write
<1>3. Write(7, 8) \in Seq(Bit) /\ Len(Write(7, 8)) = 8
  BY ReadWrite
<1>4. ASSUME NEW i \in 1 .. 8 PROVE Write(7, 8)[i] = IF i <= 5 THEN 0 ELSE 1
  <2>1. i = 1 \/ i = 2 \/ i = 3 \/ i = 4 \/ i = 5 \/ i = 6 \/ i = 7 \/ i = 8
    OBVIOUS
  <2>2. Write(7, 8)[i] = Shifted(7, 8 - i) % 2
    BY <1>2
  <2>3. Shifted(7, 8 - i) = IF i = 8 THEN 7 ELSE IF i = 7 THEN 3 ELSE IF i = 6 THEN 1 ELSE 0
    BY <1>1, <2>1
  <2> DEFINE x == Shifted(7, 8 - i)
  <2> HIDE DEF x
  <2>4. x = (IF i = 8 THEN 7 ELSE IF i = 7 THEN 3 ELSE IF i = 6 THEN 1 ELSE 0)
    BY <2>3 DEF x
  <2>5. x % 2 = IF i <= 5 THEN 0 ELSE 1
    BY <2>4
  <2>6. QED BY <2>2, <2>5 DEF x
<1>5. QED BY <1>3, <1>4

LEMMA WordIsList ==
  ASSUME NEW n \in Nat, NEW word \in Word(n)
  PROVE  word \in Seq(Bit) /\ Len(word) = n
BY DEF Word

LEMMA Appended ==
  ASSUME NEW T, NEW s \in Seq(T), NEW x \in T
  PROVE  /\ Append(s, x) \in Seq(T) /\ Len(Append(s, x)) = Len(s) + 1
         /\ \A i \in 1 .. Len(s) : Append(s, x)[i] = s[i]
         /\ Append(s, x)[Len(s) + 1] = x
OBVIOUS

Flip(a, b) == (a + b) % 2

\* What one round makes of the bits of a byte.
Rounded(c) ==
  [i \in 1 .. 8 |-> IF i <= 5 THEN c[i + 1] ELSE IF i <= 7 THEN Flip(c[i + 1], c[1]) ELSE c[1]]

LEMMA RoundIs ==
  ASSUME NEW c \in Byte
  PROVE  Round(c) = Rounded(c) /\ Rounded(c) \in Byte
<1>1. \A i \in 1 .. 8 : c[i] \in Bit
  BY DEF Byte, Word
<1>2. c \in Seq(Bit) /\ Len(c) = 8
  BY WordIsList DEF Byte
<1>3. /\ Shift(c) \in Seq(Bit) /\ Len(Shift(c)) = 8
      /\ \A i \in 1 .. 8 : Shift(c)[i] = IF i <= 7 THEN c[i + 1] ELSE 0
  <2> DEFINE t == Tail(c)
  <2>1. t \in Seq(Bit) /\ Len(t) = 7 /\ \A i \in 1 .. 7 : t[i] = c[i + 1]
    <3>1. c # <<>>
      BY <1>2
    <3>2. /\ t \in Seq(Bit) /\ Len(t) = Len(c) - 1
          /\ \A i \in 1 .. Len(t) : t[i] = c[i + 1]
      BY <1>2, <3>1, HeadTailProperties
    <3>3. Len(t) = 7
      BY <1>2, <3>2
    <3>4. QED BY <3>2, <3>3
  <2> HIDE DEF t
  <2>2. 0 \in Bit
    BY DEF Bit
  <2>3. /\ Append(t, 0) \in Seq(Bit) /\ Len(Append(t, 0)) = Len(t) + 1
        /\ \A i \in 1 .. Len(t) : Append(t, 0)[i] = t[i]
        /\ Append(t, 0)[Len(t) + 1] = 0
    <3>1. \A x \in Bit : /\ Append(t, x) \in Seq(Bit) /\ Len(Append(t, x)) = Len(t) + 1
                         /\ \A i \in 1 .. Len(t) : Append(t, x)[i] = t[i]
                         /\ Append(t, x)[Len(t) + 1] = x
      BY <2>1, Appended
    <3>2. QED BY <2>2, <3>1
  <2>4. Len(Append(t, 0)) = 8 /\ \A i \in 1 .. 8 : Append(t, 0)[i] = IF i <= 7 THEN t[i] ELSE 0
    <3>1. Len(t) + 1 = 8 /\ \A i \in 1 .. 8 : i \in 1 .. 7 \/ i = 8
      BY <2>1
    <3>2. QED BY <2>1, <2>3, <3>1
  <2>5. Shift(c) = Append(t, 0)
    BY DEF Shift, t
  <2>6. QED BY <2>1, <2>3, <2>4, <2>5
<1> DEFINE s == Shift(c)
           w == Write(7, 8)
<1>4. DOMAIN s = 1 .. 8 /\ s = [i \in 1 .. 8 |-> s[i]]
  <2> HIDE DEF s
  <2>1. s \in Seq(Bit) /\ Len(s) = 8
    BY <1>3 DEF s
  <2>2. QED BY <2>1
<1>5. \A i \in 1 .. 8 : s[i] = IF i <= 7 THEN c[i + 1] ELSE 0
  BY <1>3
<1>6. \A i \in 1 .. 8 : w[i] = IF i <= 5 THEN 0 ELSE 1
  BY Polynomial
<1>7. Round(c) = IF c[1] = 1 THEN [i \in 1 .. 8 |-> Flip(s[i], w[i])] ELSE s
  BY <1>4 DEF Round, Xor, Flip
<1> HIDE DEF s, w
<1>8. \A b \in Bit : Flip(b, 0) = b /\ Flip(0, b) = b
  BY DEF Flip, Bit
<1>9. \A i \in 1 .. 7 : c[i + 1] \in Bit
  BY <1>1
<1>10. ASSUME c[1] = 1 PROVE Round(c) = Rounded(c)
  <2>1. \A i \in 1 .. 8 : Flip(s[i], w[i]) = Rounded(c)[i]
    <3>1. TAKE i \in 1 .. 8
    <3>2. CASE i <= 5
      <4>1. s[i] = c[i + 1] /\ w[i] = 0 /\ c[i + 1] \in Bit
        BY <1>5, <1>6, <1>9, <3>1, <3>2
      <4>2. QED BY <1>8, <3>2, <4>1 DEF Rounded
    <3>3. CASE ~(i <= 5) /\ i <= 7
      <4>1. s[i] = c[i + 1] /\ w[i] = 1
        BY <1>5, <1>6, <3>1, <3>3
      <4>2. QED BY <1>10, <3>3, <4>1 DEF Rounded
    <3>4. CASE ~(i <= 7)
      <4>1. s[i] = 0 /\ w[i] = 1 /\ 1 \in Bit
        BY <1>5, <1>6, <3>1, <3>4 DEF Bit
      <4>2. Flip(0, 1) = 1
        BY <1>8, <4>1
      <4>3. QED BY <1>10, <3>4, <4>1, <4>2 DEF Rounded
    <3>5. QED BY <3>2, <3>3, <3>4
  <2>2. QED BY <1>7, <1>10, <2>1 DEF Rounded
<1>11. ASSUME c[1] # 1 PROVE Round(c) = Rounded(c)
  <2>1. c[1] = 0
    BY <1>1, <1>11 DEF Bit
  <2>2. \A i \in 1 .. 8 : s[i] = Rounded(c)[i]
    <3>1. TAKE i \in 1 .. 8
    <3>2. CASE i <= 5
      BY <1>5, <3>1, <3>2 DEF Rounded
    <3>3. CASE ~(i <= 5) /\ i <= 7
      <4>1. s[i] = c[i + 1] /\ c[i + 1] \in Bit
        BY <1>5, <1>9, <3>1, <3>3
      <4>2. QED BY <1>8, <2>1, <3>3, <4>1 DEF Rounded
    <3>4. CASE ~(i <= 7)
      BY <1>5, <2>1, <3>1, <3>4 DEF Rounded
    <3>5. QED BY <3>2, <3>3, <3>4
  <2>3. QED BY <1>4, <1>7, <1>11, <2>2 DEF Rounded
<1>12. Rounded(c) \in Byte
  <2>1. \A a, b \in Bit : Flip(a, b) \in Bit
    BY DEF Flip, Bit
  <2>2. \A i \in 1 .. 8 : Rounded(c)[i] \in Bit
    <3>1. TAKE i \in 1 .. 8
    <3>2. CASE i <= 5
      BY <1>9, <3>2 DEF Rounded
    <3>3. CASE ~(i <= 5) /\ i <= 7
      BY <1>1, <1>9, <2>1, <3>3 DEF Rounded
    <3>4. CASE ~(i <= 7)
      BY <1>1, <3>4 DEF Rounded
    <3>5. QED BY <3>2, <3>3, <3>4
  <2>3. QED BY <2>2 DEF Rounded, Byte, Word
<1>13. QED BY <1>10, <1>11, <1>12

RoundedBy(f, byte) ==
  /\ f \in [0 .. 8 -> Byte] /\ f[0] = byte
  /\ \A i \in 1 .. 8 : f[i] = Rounded(f[i - 1])

LEMMA ReduceIs ==
  ASSUME NEW byte \in Byte
  PROVE  \E f : RoundedBy(f, byte) /\ Reduce[byte] = f[8]
<1> DEFINE Body(f) == [i \in 0 .. 8 |-> IF i = 0 THEN byte ELSE Round(f[i - 1])]
           next == [i \in 1 .. 8 |-> [c \in Byte |-> Rounded(c)]]
           crc == CHOOSE f : f = Body(f)
<1>1. Reduce[byte] = crc[8]
  BY DEF Reduce, Byte, Word, Bit
<1>2. PICK g : Iterates(g, next, 8, Byte, byte)
  <2> HIDE DEF Body, crc
  <2>1. next \in [1 .. 8 -> [Byte -> Byte]]
    BY RoundIs
  <2> HIDE DEF next
  <2>2. Steps(next, 8, Byte, byte)
    BY <2>1 DEF Steps
  <2>3. QED BY <2>2, Iteration
<1>3. g \in [0 .. 8 -> Byte] /\ g[0] = byte /\ \A i \in 1 .. 8 : g[i] = Rounded(g[i - 1])
  <2>1. \A i \in 1 .. 8 : i - 1 \in 0 .. 8
    OBVIOUS
  <2>2. g \in [0 .. 8 -> Byte] /\ g[0] = byte
    BY <1>2 DEF Iterates
  <2>3. QED BY <1>2, <2>1, <2>2 DEF Iterates
<1>4. \A i \in 0 .. 8 : i = 0 \/ (i \in 1 .. 8 /\ i - 1 \in 0 .. 8)
  OBVIOUS
<1>5. g = Body(g)
  <2> HIDE DEF next
  <2>1. \A i \in 1 .. 8 : g[i] = Round(g[i - 1])
    <3>1. TAKE i \in 1 .. 8
    <3>2. g[i - 1] \in Byte
      BY <1>3, <1>4
    <3>3. QED BY <1>3, <3>2, RoundIs
  <2>2. QED BY <1>3, <1>4, <2>1
<1>6. crc = Body(crc)
  <2> HIDE DEF Body
  <2>1. QED BY <1>5
<1> HIDE DEF crc
<1>7. crc[0] = byte /\ \A i \in 1 .. 8 : crc[i] = Round(crc[i - 1])
  BY <1>6
<1>8. \A i \in 0 .. 8 : crc[i] \in Byte
  <2>1. \A i \in 1 .. 8 : crc[i - 1] \in Byte => crc[i] \in Byte
    BY <1>7, RoundIs
  <2>2. Keeps(crc, 8, Byte)
    BY <1>7, <2>1 DEF Keeps
  <2>3. QED BY <2>2, Iterated
<1>9. crc \in [0 .. 8 -> Byte]
  BY <1>6, <1>8
<1>10. \A i \in 1 .. 8 : crc[i] = Rounded(crc[i - 1])
  <2>1. TAKE i \in 1 .. 8
  <2>2. crc[i - 1] \in Byte
    BY <1>8
  <2>3. QED BY <1>7, <2>2, RoundIs
<1>11. QED BY <1>1, <1>7, <1>9, <1>10 DEF RoundedBy

LEMMA XorIs ==
  ASSUME NEW a \in Byte, NEW b \in Byte
  PROVE  Xor(a, b) \in Byte /\ \A i \in 1 .. 8 : Xor(a, b)[i] = Flip(a[i], b[i])
<1>1. \A i \in 1 .. 8 : a[i] \in Bit /\ b[i] \in Bit
  BY DEF Byte, Word
<1>2. \A x, y \in Bit : Flip(x, y) \in Bit
  BY DEF Flip, Bit
<1>3. Xor(a, b) = [i \in 1 .. 8 |-> Flip(a[i], b[i])]
  BY DEF Xor, Flip, Byte, Word
<1>4. QED BY <1>1, <1>2, <1>3 DEF Byte, Word

CheckedBy(f, bytes) ==
  /\ f \in [0 .. Len(bytes) -> Byte] /\ f[0] = Zeros(8)
  /\ \A i \in 1 .. Len(bytes) : f[i] = Reduce[Xor(f[i - 1], bytes[i])]

LEMMA CrcIs ==
  ASSUME NEW bytes \in Seq(Byte)
  PROVE  \E f : CheckedBy(f, bytes) /\ Crc8(bytes) = f[Len(bytes)]
<1> DEFINE N == Len(bytes)
           Body(f) == [i \in 0 .. N |-> IF i = 0 THEN Zeros(8) ELSE Reduce[Xor(f[i - 1], bytes[i])]]
           next == [i \in 1 .. N |-> [c \in Byte |-> Reduce[Xor(c, bytes[i])]]]
           crc == CHOOSE f : f = Body(f)
<1>1. Crc8(bytes) = crc[N]
  BY DEF Crc8
<1>2. N \in Nat /\ \A i \in 1 .. N : bytes[i] \in Byte
  OBVIOUS
<1> HIDE DEF N
<1>3. \A c \in Byte : Reduce[c] \in Byte
  <2>1. TAKE c \in Byte
  <2>2. PICK f : RoundedBy(f, c) /\ Reduce[c] = f[8]
    BY ReduceIs
  <2>3. 8 \in 0 .. 8
    OBVIOUS
  <2>4. QED BY <2>2, <2>3 DEF RoundedBy
<1>4. \A i \in 1 .. N : \A c \in Byte : Reduce[Xor(c, bytes[i])] \in Byte
  BY <1>2, <1>3, XorIs
<1>5. Zeros(8) \in Byte
  BY DEF Zeros, Byte, Word, Bit
<1>6. PICK g : Iterates(g, next, N, Byte, Zeros(8))
  <2> HIDE DEF Body, crc
  <2>1. next \in [1 .. N -> [Byte -> Byte]]
    BY <1>4
  <2> HIDE DEF next
  <2>2. Steps(next, N, Byte, Zeros(8))
    BY <1>2, <1>5, <2>1 DEF Steps
  <2>3. QED BY <2>2, Iteration
<1>7. \A i \in 0 .. N : i = 0 \/ (i \in 1 .. N /\ i - 1 \in 0 .. N)
  BY <1>2
<1>8. /\ g \in [0 .. N -> Byte] /\ g[0] = Zeros(8)
      /\ \A i \in 1 .. N : g[i] = Reduce[Xor(g[i - 1], bytes[i])]
  <2>1. g \in [0 .. N -> Byte] /\ g[0] = Zeros(8) /\ \A i \in 1 .. N : g[i] = next[i][g[i - 1]]
    <3> HIDE DEF next
    <3>1. QED BY <1>6 DEF Iterates
  <2>2. \A i \in 1 .. N : g[i - 1] \in Byte
    <3>1. \A i \in 1 .. N : i - 1 \in 0 .. N
      BY <1>2
    <3>2. QED BY <2>1, <3>1
  <2>3. QED BY <2>1, <2>2
<1>9. g = Body(g)
  <2> HIDE DEF next
  <2>1. QED BY <1>7, <1>8
<1>10. crc = Body(crc)
  <2> HIDE DEF Body
  <2>1. QED BY <1>9
<1> HIDE DEF crc
<1>11. crc[0] = Zeros(8) /\ \A i \in 1 .. N : crc[i] = Reduce[Xor(crc[i - 1], bytes[i])]
  BY <1>2, <1>10
<1>12. \A i \in 0 .. N : crc[i] \in Byte
  <2>1. \A i \in 1 .. N : crc[i - 1] \in Byte => crc[i] \in Byte
    BY <1>4, <1>11
  <2>2. Keeps(crc, N, Byte)
    BY <1>2, <1>5, <1>11, <2>1 DEF Keeps
  <2>3. QED BY <2>2, Iterated
<1>13. crc \in [0 .. N -> Byte]
  BY <1>10, <1>12
<1>14. QED BY <1>1, <1>11, <1>13 DEF CheckedBy, N

LEMMA CrcByte ==
  ASSUME NEW bytes \in Seq(Byte)
  PROVE  Crc8(bytes) \in Byte
<1>1. PICK f : CheckedBy(f, bytes) /\ Crc8(bytes) = f[Len(bytes)]
  BY CrcIs
<1>2. Len(bytes) \in 0 .. Len(bytes)
  OBVIOUS
<1>3. QED BY <1>1, <1>2 DEF CheckedBy

-----------------------------------------------------------------------------
(* Sums, and lists that are put together.                                   *)

SumsOf(sum, numbers) ==
  /\ sum \in [0 .. Len(numbers) -> Nat] /\ sum[0] = 0
  /\ \A k \in 1 .. Len(numbers) : sum[k] = sum[k - 1] + numbers[k]

LEMMA SumsAre ==
  ASSUME NEW numbers \in Seq(Nat)
  PROVE  SumsOf(Sums(numbers), numbers)
<1> DEFINE N == Len(numbers)
           Body(f) == [k \in 0 .. N |-> IF k = 0 THEN 0 ELSE f[k - 1] + numbers[k]]
           next == [k \in 1 .. N |-> [x \in Nat |-> x + numbers[k]]]
           sum == CHOOSE f : f = Body(f)
<1>1. Sums(numbers) = sum
  BY DEF Sums
<1>2. N \in Nat /\ \A k \in 1 .. N : numbers[k] \in Nat
  OBVIOUS
<1> HIDE DEF N
<1>3. \A k \in 1 .. N : \A x \in Nat : x + numbers[k] \in Nat
  BY <1>2
<1>4. PICK g : Iterates(g, next, N, Nat, 0)
  <2> HIDE DEF Body, sum
  <2>1. next \in [1 .. N -> [Nat -> Nat]]
    BY <1>3
  <2> HIDE DEF next
  <2>2. Steps(next, N, Nat, 0)
    BY <1>2, <2>1 DEF Steps
  <2>3. QED BY <2>2, Iteration
<1>5. \A k \in 0 .. N : k = 0 \/ (k \in 1 .. N /\ k - 1 \in 0 .. N)
  BY <1>2
<1>6. g \in [0 .. N -> Nat] /\ g[0] = 0 /\ \A k \in 1 .. N : g[k] = g[k - 1] + numbers[k]
  <2>1. g \in [0 .. N -> Nat] /\ g[0] = 0 /\ \A k \in 1 .. N : g[k] = next[k][g[k - 1]]
    <3> HIDE DEF next
    <3>1. QED BY <1>4 DEF Iterates
  <2>2. \A k \in 1 .. N : g[k - 1] \in Nat
    <3>1. \A k \in 1 .. N : k - 1 \in 0 .. N
      BY <1>2
    <3>2. QED BY <2>1, <3>1
  <2>3. QED BY <2>1, <2>2
<1>7. g = Body(g)
  <2> HIDE DEF next
  <2>1. QED BY <1>5, <1>6
<1>8. sum = Body(sum)
  <2> HIDE DEF Body
  <2>1. QED BY <1>7
<1> HIDE DEF sum
<1>9. sum[0] = 0 /\ \A k \in 1 .. N : sum[k] = sum[k - 1] + numbers[k]
  BY <1>2, <1>8
<1>10. \A k \in 0 .. N : sum[k] \in Nat
  <2>1. \A k \in 1 .. N : sum[k - 1] \in Nat => sum[k] \in Nat
    BY <1>3, <1>9
  <2>2. Keeps(sum, N, Nat)
    BY <1>2, <1>9, <2>1 DEF Keeps
  <2>3. QED BY <2>2, Iterated
<1>11. sum \in [0 .. N -> Nat]
  BY <1>8, <1>10
<1>12. QED BY <1>1, <1>9, <1>11 DEF SumsOf, N

LEMMA SumsGrow ==
  ASSUME NEW numbers \in Seq(Nat), NEW i \in 0 .. Len(numbers), NEW j \in 0 .. Len(numbers), i <= j
  PROVE  Sums(numbers)[i] <= Sums(numbers)[j]
<1> DEFINE N == Len(numbers)
           S == Sums(numbers)
           T == {n \in Nat : i <= n /\ n <= N => S[i] <= S[n]}
<1>1. N \in Nat /\ \A k \in 1 .. N : numbers[k] \in Nat
  OBVIOUS
<1>2. S \in [0 .. N -> Nat] /\ \A k \in 1 .. N : S[k] = S[k - 1] + numbers[k]
  BY SumsAre DEF SumsOf
<1> HIDE DEF S
<1>3. i \in Nat /\ S[i] \in Nat
  BY <1>1, <1>2
<1>4. 0 \in T
  BY <1>3
<1>5. ASSUME NEW n \in Nat, n \in T PROVE n + 1 \in T
  <2>1. SUFFICES ASSUME i <= n + 1, n + 1 <= N PROVE S[i] <= S[n + 1]
    OBVIOUS
  <2>2. CASE i = n + 1
    BY <1>3, <2>2
  <2>3. CASE i <= n
    <3>1. n + 1 \in 1 .. N /\ (n + 1) - 1 = n /\ n \in 0 .. N
      BY <1>1, <2>1
    <3>2. S[n + 1] = S[n] + numbers[n + 1] /\ numbers[n + 1] \in Nat /\ S[n] \in Nat
      BY <1>1, <1>2, <3>1
    <3>3. S[i] <= S[n]
      BY <1>5, <2>3, <3>1
    <3>4. QED BY <1>3, <3>2, <3>3
  <2>4. QED BY <1>3, <2>1, <2>2, <2>3
<1>6. Nat \subseteq T
  <2> HIDE DEF T
  <2>1. QED BY <1>4, <1>5, Induction
<1>7. j \in T
  BY <1>1, <1>6
<1>8. QED BY <1>1, <1>7 DEF S

LEMMA Joined ==
  ASSUME NEW T, NEW s \in Seq(T), NEW t \in Seq(T)
  PROVE  /\ s \o t \in Seq(T) /\ Len(s \o t) = Len(s) + Len(t)
         /\ \A i \in 1 .. Len(s) : (s \o t)[i] = s[i]
         /\ \A i \in 1 .. Len(t) : (s \o t)[Len(s) + i] = t[i]
OBVIOUS

FlattenedBy(f, seqs, T) ==
  /\ f \in [0 .. Len(seqs) -> Seq(T)] /\ f[0] = <<>>
  /\ \A n \in 1 .. Len(seqs) : f[n] = f[n - 1] \o seqs[n]

LEMMA FlattenIs ==
  ASSUME NEW T, NEW seqs \in Seq(Seq(T))
  PROVE  \E f : FlattenedBy(f, seqs, T) /\ FlattenSeq(seqs) = f[Len(seqs)]
<1> DEFINE N == Len(seqs)
           X == Seq(T)
           Body(f) == [i \in 1 .. N |-> IF i = 1 THEN seqs[i] ELSE f[i - 1] \o seqs[i]]
           next == [n \in 1 .. N |-> [x \in X |-> x \o seqs[n]]]
           flatten == CHOOSE f : f = Body(f)
<1>1. N \in Nat /\ \A n \in 1 .. N : seqs[n] \in X
  OBVIOUS
<1>2. FlattenSeq(seqs) = IF N = 0 THEN seqs ELSE flatten[N]
  BY DEF FlattenSeq
<1> HIDE DEF N
<1>3. \A n \in 1 .. N : \A x \in X : x \o seqs[n] \in X
  BY <1>1, Joined
<1>4. <<>> \in X
  OBVIOUS
<1> HIDE DEF X
<1>5. PICK g : Iterates(g, next, N, X, <<>>)
  <2> HIDE DEF Body, flatten
  <2>1. next \in [1 .. N -> [X -> X]]
    BY <1>3
  <2> HIDE DEF next
  <2>2. Steps(next, N, X, <<>>)
    BY <1>1, <1>4, <2>1 DEF Steps
  <2>3. QED BY <2>2, Iteration
<1>6. g \in [0 .. N -> X] /\ g[0] = <<>> /\ \A n \in 1 .. N : g[n] = g[n - 1] \o seqs[n]
  <2>1. g \in [0 .. N -> X] /\ g[0] = <<>> /\ \A n \in 1 .. N : g[n] = next[n][g[n - 1]]
    <3> HIDE DEF next
    <3>1. QED BY <1>5 DEF Iterates
  <2>2. \A n \in 1 .. N : g[n - 1] \in X
    <3>1. \A n \in 1 .. N : n - 1 \in 0 .. N
      BY <1>1
    <3>2. QED BY <2>1, <3>1
  <2>3. QED BY <2>1, <2>2
<1> DEFINE h == [i \in 1 .. N |-> g[i]]
<1>7. h = Body(h)
  <2> HIDE DEF next
  <2>1. ASSUME NEW i \in 1 .. N
        PROVE  g[i] = IF i = 1 THEN seqs[i] ELSE h[i - 1] \o seqs[i]
    <3>1. CASE i = 1
      <4>1. g[1] = <<>> \o seqs[1]
        <5>1. 1 - 1 = 0
          OBVIOUS
        <5>2. QED BY <1>6, <2>1, <3>1, <5>1
      <4>2. \A x \in X : <<>> \o x = x
        BY DEF X
      <4>3. QED BY <1>1, <2>1, <3>1, <4>1, <4>2
    <3>2. CASE i # 1
      <4>1. i - 1 \in 1 .. N
        BY <1>1, <3>2
      <4>2. QED BY <1>6, <3>2, <4>1
    <3>3. QED BY <3>1, <3>2
  <2>2. QED BY <2>1
<1>8. flatten = Body(flatten)
  <2> HIDE DEF Body
  <2>1. QED BY <1>7
<1> HIDE DEF flatten
<1> DEFINE f == [n \in 0 .. N |-> IF n = 0 THEN <<>> ELSE flatten[n]]
<1>9. f[0] = <<>> /\ \A n \in 1 .. N : f[n] = flatten[n]
  BY <1>1
<1>10. ASSUME NEW n \in 1 .. N PROVE f[n] = f[n - 1] \o seqs[n]
  <2>1. CASE n = 1
    <3>1. f[1] = seqs[1] /\ f[1 - 1] = <<>>
      <4>1. 1 - 1 = 0
        OBVIOUS
      <4> HIDE DEF f
      <4>2. QED BY <1>8, <1>9, <2>1, <4>1
    <3>2. \A x \in X : <<>> \o x = x
      BY DEF X
    <3> HIDE DEF f
    <3>3. QED BY <1>1, <2>1, <3>1, <3>2
  <2>2. CASE n # 1
    <3>1. n - 1 \in 1 .. N
      BY <1>1, <2>2
    <3> HIDE DEF f
    <3>2. f[n] = flatten[n - 1] \o seqs[n]
      BY <1>8, <1>9, <2>2
    <3>3. QED BY <1>9, <3>1, <3>2
  <2>3. QED BY <2>1, <2>2
<1>11. \A n \in 0 .. N : f[n] \in X
  <2> HIDE DEF f
  <2>1. \A n \in 1 .. N : f[n - 1] \in X => f[n] \in X
    BY <1>3, <1>10
  <2>2. Keeps(f, N, X)
    BY <1>1, <1>4, <1>9, <2>1 DEF Keeps
  <2>3. QED BY <2>2, Iterated
<1>12. f \in [0 .. N -> X]
  <2>1. f = [n \in 0 .. N |-> f[n]]
    OBVIOUS
  <2> HIDE DEF f
  <2>2. QED BY <1>11, <2>1
<1>13. FlattenSeq(seqs) = f[N]
  <2>1. CASE N = 0
    <3>1. seqs = <<>>
      BY <2>1 DEF N
    <3> HIDE DEF f
    <3>2. QED BY <1>2, <1>9, <2>1, <3>1
  <2>2. CASE N # 0
    <3>1. N \in 1 .. N
      BY <1>1, <2>2
    <3> HIDE DEF f
    <3>2. QED BY <1>2, <1>9, <2>2, <3>1
  <2>3. QED BY <2>1, <2>2
<1> HIDE DEF f
<1>14. FlattenedBy(f, seqs, T)
  BY <1>9, <1>10, <1>12 DEF FlattenedBy, N, X
<1>15. QED BY <1>13, <1>14 DEF N

Lengths(seqs) == [i \in DOMAIN seqs |-> Len(seqs[i])]

\* Where the parts of the whole are.
LEMMA FlattenParts ==
  ASSUME NEW T, NEW seqs \in Seq(Seq(T))
  PROVE  LET S == Sums(Lengths(seqs))
             whole == FlattenSeq(seqs)
         IN  /\ Lengths(seqs) \in Seq(Nat) /\ Len(Lengths(seqs)) = Len(seqs)
             /\ whole \in Seq(T) /\ Len(whole) = S[Len(seqs)]
             /\ \A i \in 1 .. Len(seqs) : \A k \in 1 .. Len(seqs[i]) :
                  S[i - 1] + k \in 1 .. Len(whole) /\ whole[S[i - 1] + k] = seqs[i][k]
<1> DEFINE N == Len(seqs)
           numbers == Lengths(seqs)
           S == Sums(numbers)
<1>1. N \in Nat /\ DOMAIN seqs = 1 .. N /\ \A n \in 1 .. N : seqs[n] \in Seq(T) /\ Len(seqs[n]) \in Nat
  OBVIOUS
<1>2. numbers \in Seq(Nat) /\ Len(numbers) = N /\ \A n \in 1 .. N : numbers[n] = Len(seqs[n])
  BY <1>1 DEF Lengths
<1> HIDE DEF numbers
<1>3. S \in [0 .. N -> Nat] /\ S[0] = 0 /\ \A k \in 1 .. N : S[k] = S[k - 1] + Len(seqs[k])
  BY <1>2, SumsAre DEF SumsOf
<1> HIDE DEF S
<1>4. PICK f : FlattenedBy(f, seqs, T) /\ FlattenSeq(seqs) = f[N]
  BY FlattenIs
<1>5. /\ f \in [0 .. N -> Seq(T)] /\ f[0] = <<>>
      /\ \A n \in 1 .. N : f[n] = f[n - 1] \o seqs[n]
  BY <1>4 DEF FlattenedBy
<1> DEFINE Upto(n) ==
             /\ Len(f[n]) = S[n]
             /\ \A i \in 1 .. n : \A k \in 1 .. Len(seqs[i]) :
                  S[i - 1] + k \in 1 .. S[n] /\ f[n][S[i - 1] + k] = seqs[i][k]
           R == {n \in Nat : n <= N => Upto(n)}
<1>6. 0 \in R
  <2>1. Len(<<>>) = 0 /\ 1 .. 0 = {}
    OBVIOUS
  <2>2. QED BY <1>3, <1>5, <2>1
<1>7. ASSUME NEW n \in Nat, n \in R PROVE n + 1 \in R
  <2>1. SUFFICES ASSUME n + 1 <= N PROVE Upto(n + 1)
    OBVIOUS
  <2> DEFINE m == n + 1
  <2>2. m \in 1 .. N /\ m - 1 = n /\ n \in 0 .. N /\ m \in 0 .. N /\ n <= N
    BY <1>1, <2>1
  <2>3. Upto(n)
    BY <1>7, <2>2
  <2> HIDE DEF m
  <2> DEFINE s == f[n]
             t == seqs[m]
  <2>4. s \in Seq(T) /\ t \in Seq(T) /\ f[m] = s \o t /\ Len(s) = S[n] /\ S[m] = S[n] + Len(t)
    BY <1>1, <1>3, <1>5, <2>2, <2>3
  <2>5. S[n] \in Nat /\ Len(t) \in Nat /\ \A i \in 1 .. m : S[i - 1] \in Nat
    <3>1. Len(t) \in Nat
      BY <1>1, <2>2
    <3>2. \A i \in 1 .. m : i - 1 \in 0 .. N
      BY <1>1, <2>2
    <3> HIDE DEF t
    <3>3. QED BY <1>3, <2>2, <3>1, <3>2
  <2>6. /\ Len(f[m]) = S[m]
        /\ \A j \in 1 .. S[n] : f[m][j] = f[n][j]
        /\ \A k \in 1 .. Len(t) : f[m][S[n] + k] = t[k]
    <3> HIDE DEF s, t
    <3>1. /\ Len(s \o t) = Len(s) + Len(t)
          /\ \A j \in 1 .. Len(s) : (s \o t)[j] = s[j]
          /\ \A k \in 1 .. Len(t) : (s \o t)[Len(s) + k] = t[k]
      <4>1. s \in Seq(T) /\ t \in Seq(T)
        BY <2>4
      <4>2. QED BY <4>1, Joined
    <3>2. QED BY <2>4, <3>1 DEF s
  <2>7. ASSUME NEW i \in 1 .. m, NEW k \in 1 .. Len(seqs[i])
        PROVE  S[i - 1] + k \in 1 .. S[m] /\ f[m][S[i - 1] + k] = seqs[i][k]
    <3>1. CASE i = m
      <4>1. i - 1 = n /\ k \in 1 .. Len(t) /\ seqs[i] = t
        BY <2>2, <2>7, <3>1
      <4> HIDE DEF t
      <4>2. S[n] + k \in 1 .. S[m]
        BY <2>4, <2>5, <4>1
      <4>3. QED BY <2>6, <4>1, <4>2
    <3>2. CASE i # m
      <4>1. i \in 1 .. n
        BY <2>2, <2>7, <3>2
      <4>2. S[i - 1] + k \in 1 .. S[n] /\ f[n][S[i - 1] + k] = seqs[i][k]
        BY <2>3, <2>7, <4>1
      <4> HIDE DEF t
      <4>3. S[n] <= S[m] /\ S[m] \in Nat
        BY <2>4, <2>5
      <4>4. S[i - 1] + k \in 1 .. S[m]
        BY <2>5, <4>2, <4>3
      <4>5. QED BY <2>6, <4>2, <4>4
    <3>3. QED BY <3>1, <3>2
  <2>8. QED BY <2>6, <2>7 DEF m
<1>8. Nat \subseteq R
  <2> HIDE DEF R
  <2>1. QED BY <1>6, <1>7, Induction
<1>9. Upto(N)
  BY <1>1, <1>8
<1>10. f[N] \in Seq(T)
  BY <1>1, <1>5
<1>11. QED BY <1>2, <1>4, <1>9, <1>10 DEF S, numbers

-----------------------------------------------------------------------------
(* Resolution paths.                                                        *)

Listed(config) ==
  \A t \in DOMAIN config.tests :
    config.tests[t].groups \in Seq(Range(config.tests[t].groups))

LEMMA GeneratedListed ==
  ASSUME TypeOK
  PROVE  Listed(GenerateConfig(flags, exps))
<1> DEFINE config == GenerateConfig(flags, exps)
<1>1. SUFFICES ASSUME NEW t \in DOMAIN config.tests
               PROVE  config.tests[t].groups \in Seq(Range(config.tests[t].groups))
  BY DEF Listed
<1>2. t \in OfType(exps, "TEST") /\ config.tests[t].groups = TestGroups(exps[t])
  BY DEF GenerateConfig
<1> DEFINE row == exps[t]
           D == DOMAIN StoredVariants(row)
           named == InOrder(GroupOrder, D)
           groups == TestGroups(row)
<1>3. named \in Seq(D \cap Range(GroupOrder))
  <2>1. GroupOrder \in Seq(Groups)
    BY BodiesAssumption
  <2> HIDE DEF D
  <2>2. QED BY <2>1, InOrderIs
<1>4. groups = [i \in DOMAIN named |->
                  [name |-> named[i], percentage |-> row.variants[named[i]].percentage]]
  BY DEF TestGroups
<1>5. DOMAIN named = 1 .. Len(named) /\ Len(named) \in Nat
  BY <1>3
<1> HIDE DEF named, groups
<1>6. groups = [i \in 1 .. Len(named) |-> groups[i]] /\ DOMAIN groups = 1 .. Len(named)
  BY <1>4, <1>5
<1>7. groups \in [1 .. Len(named) -> Range(groups)]
  BY <1>6 DEF Range
<1>8. groups \in Seq(Range(groups))
  BY <1>5, <1>7
<1>9. QED BY <1>2, <1>8 DEF groups

LEMMA PathsListed ==
  ASSUME NEW config, Listed(config), NEW v, Grounded(config, v)
  PROVE  /\ Paths(config, v) \in Seq(Range(Paths(config, v)))
         /\ Len(Paths(config, v)) = Width(config, v)
<1>1. \A x : <<x>> \in Seq({x}) /\ Len(<<x>>) = 1 /\ Range(<<x>>) = {x}
  BY DEF Range
<1>2. CASE v.type = "conditional"
  <2>1. Paths(config, v) = <<[value |-> v.value, reason |-> <<"conditional", v.order>>]>>
    BY <1>2 DEF Paths
  <2>2. QED BY <1>1, <1>2, <2>1 DEF Width
<1>3. CASE v.type = "rollout"
  <2>1. Paths(config, v) = <<[value |-> v.value, reason |-> <<"rollout", v.rollout>>]>>
    BY <1>3 DEF Paths
  <2>2. QED BY <1>1, <1>3, <2>1 DEF Width
<1>4. CASE v.type = "test" /\ v.test \in DOMAIN config.tests
  <2> DEFINE groups == config.tests[v.test].groups
             paths == Paths(config, v)
  <2>1. paths = [i \in DOMAIN groups |->
                   [value |-> IF groups[i].name \in DOMAIN v.values
                              THEN v.values[groups[i].name] ELSE Null,
                    reason |-> <<"test", v.test, groups[i].name>>]]
    BY <1>4 DEF Paths
  <2>2. groups \in Seq(Range(groups))
    BY <1>4 DEF Listed
  <2>3. Width(config, v) = Len(groups)
    BY <1>4 DEF Width
  <2> HIDE DEF groups, paths
  <2>4. DOMAIN groups = 1 .. Len(groups) /\ Len(groups) \in Nat
    BY <2>2
  <2>5. paths = [i \in 1 .. Len(groups) |-> paths[i]] /\ DOMAIN paths = 1 .. Len(groups)
    BY <2>1, <2>4
  <2>6. paths \in [1 .. Len(groups) -> Range(paths)]
    BY <2>5 DEF Range
  <2>7. paths \in Seq(Range(paths)) /\ Len(paths) = Len(groups)
    BY <2>4, <2>5, <2>6
  <2>8. QED BY <2>3, <2>7 DEF paths
<1>5. QED BY <1>2, <1>3, <1>4 DEF Grounded

\* The path a variant serves somebody by has the value it serves.
LEMMA TakenPath ==
  ASSUME NEW config, Listed(config), NEW v, Grounded(config, v), NEW user, NEW attributes,
         Taken(config, v, user, attributes) > 0
  PROVE  LET at == Taken(config, v, user, attributes)
             value == IF v.type = "test" THEN v.values[config.tests[v.test].groups[at].name]
                      ELSE v.value
         IN  at \in 1 .. Width(config, v) /\ Paths(config, v)[at].value = value
<1> DEFINE at == Taken(config, v, user, attributes)
<1>1. \A x : <<x>>[1] = x
  OBVIOUS
<1>2. CASE v.type = "conditional"
  <2>1. Paths(config, v) = <<[value |-> v.value, reason |-> <<"conditional", v.order>>]>>
    BY <1>2 DEF Paths
  <2> DEFINE holds == EvaluateConditions(v.conditions, attributes, Host[user])
  <2>2. at = IF holds THEN 1 ELSE 0
    BY <1>2 DEF Taken
  <2> HIDE DEF at, holds
  <2>3. at = 1
    BY <2>2 DEF at
  <2>4. Width(config, v) = 1 /\ v.type # "test"
    BY <1>2 DEF Width
  <2>5. Paths(config, v)[at].value = v.value
    BY <1>1, <2>1, <2>3
  <2>6. QED BY <2>3, <2>4, <2>5 DEF at
<1>3. CASE v.type = "rollout"
  <2>1. Paths(config, v) = <<[value |-> v.value, reason |-> <<"rollout", v.rollout>>]>>
    BY <1>3 DEF Paths
  <2> DEFINE rollout == config.rollouts[v.rollout]
             holds == /\ EvaluateConditions(rollout.conditions, attributes, Host[user])
                      /\ IsInRollout(v.rollout, user, rollout.percentage)
  <2>2. at = IF holds THEN 1 ELSE 0
    BY <1>3 DEF Taken
  <2> HIDE DEF at, holds
  <2>3. at = 1
    BY <2>2 DEF at
  <2>4. Width(config, v) = 1 /\ v.type # "test"
    BY <1>3 DEF Width
  <2>5. Paths(config, v)[at].value = v.value
    BY <1>1, <2>1, <2>3
  <2>6. QED BY <2>3, <2>4, <2>5 DEF at
<1>4. CASE v.type = "test" /\ v.test \in DOMAIN config.tests
  <2> DEFINE test == config.tests[v.test]
             groups == test.groups
             group == AssignVariant(v.test, user, test.groups)
             holds == EvaluateConditions(test.conditions, attributes, Host[user])
  <2>1. DOMAIN v.values \subseteq {g.name : g \in Range(groups)}
    BY <1>4 DEF Grounded
  <2>2. at = IF holds /\ group \in DOMAIN v.values
             THEN CHOOSE i \in DOMAIN groups : groups[i].name = group ELSE 0
    BY <1>4 DEF Taken
  <2>3. Paths(config, v) = [i \in DOMAIN groups |->
                   [value |-> IF groups[i].name \in DOMAIN v.values
                              THEN v.values[groups[i].name] ELSE Null,
                    reason |-> <<"test", v.test, groups[i].name>>]]
    BY <1>4 DEF Paths
  <2>4. groups \in Seq(Range(groups)) /\ Width(config, v) = Len(groups)
    BY <1>4 DEF Listed, Width
  <2> HIDE DEF at, groups, group, holds
  <2>5. at > 0
    BY DEF at
  <2>6. /\ group \in DOMAIN v.values
        /\ at = CHOOSE i \in DOMAIN groups : groups[i].name = group
    BY <2>2, <2>5
  <2>7. \E i \in DOMAIN groups : groups[i].name = group
    BY <2>1, <2>6 DEF Range
  <2>8. at \in DOMAIN groups /\ groups[at].name = group
    BY <2>6, <2>7
  <2>9. Paths(config, v)[at].value = v.values[groups[at].name]
    BY <2>3, <2>6, <2>8
  <2>10. at \in 1 .. Width(config, v)
    BY <2>4, <2>8
  <2>11. QED BY <1>4, <2>9, <2>10 DEF at, groups
<1>5. QED BY <1>2, <1>3, <1>4 DEF Grounded

\* The path that is reported for what was served is one of those the decoder lists, and has
\* the value that was served.
LEMMA PathServed ==
  ASSUME NEW config, Complete(config), Listed(config), NEW f \in DOMAIN config.flags,
         NEW env \in Envs, NEW user, NEW attributes
  PROVE  LET served == Resolve(config, f, env, user, attributes)
             paths == EnumeratePaths(config, config.flags[f], env)
         IN  /\ served.path \in Nat /\ Len(paths) \in Nat /\ served.path < Len(paths)
             /\ paths[served.path + 1].value = served.value
<1> DEFINE cfg == config.flags[f].envs[env]
           variants == cfg.variants
           default == [value |-> cfg.default, reason |-> <<"default">>]
           parts == [i \in DOMAIN variants |-> Paths(config, variants[i])]
           T == {default} \cup UNION {Range(Paths(config, v)) : v \in Range(variants)}
           flat == FlattenSeq(parts)
           paths == EnumeratePaths(config, config.flags[f], env)
           served == Resolve(config, f, env, user, attributes)
           hits == {i \in DOMAIN variants : Taken(config, variants[i], user, attributes) > 0}
           S == Sums(Lengths(parts))
<1>1. /\ variants \in Seq(Range(variants)) /\ Layered(variants)
      /\ \A v \in Range(variants) : Grounded(config, v)
  BY DEF Complete
<1>2. SortByOrder(variants) = variants
  <2> HIDE DEF variants
  <2>1. QED BY <1>1, SortAgain DEF Layered
<1>3. paths = <<default>> \o flat
  <2>1. paths = <<default>> \o FlattenSeq([i \in DOMAIN SortByOrder(variants) |->
                                             Paths(config, SortByOrder(variants)[i])])
    BY DEF EnumeratePaths
  <2>2. QED BY <1>2, <2>1
<1>4. served = IF hits = {} THEN [value |-> cfg.default, path |-> 0, by |-> "default"]
               ELSE LET i == Min(hits)
                        v == variants[i]
                        at == Taken(config, v, user, attributes)
                    IN  [value |-> IF v.type = "test"
                                   THEN v.values[config.tests[v.test].groups[at].name]
                                   ELSE v.value,
                         path |-> PathsBefore(config, variants, i) + at,
                         by |-> v.type]
  BY DEF Resolve
<1> HIDE DEF variants, served, paths
<1> DEFINE N == Len(variants)
<1>5. DOMAIN variants = 1 .. N /\ N \in Nat /\ \A i \in 1 .. N : variants[i] \in Range(variants)
  BY <1>1 DEF Range
<1> HIDE DEF N, default
<1>6. \A i \in 1 .. N : /\ parts[i] \in Seq(T)
                        /\ Len(parts[i]) = Width(config, variants[i])
  <2>1. TAKE i \in 1 .. N
  <2> DEFINE part == Paths(config, variants[i])
  <2>2. part \in Seq(Range(part)) /\ Len(part) = Width(config, variants[i])
    BY <1>1, <1>5, PathsListed
  <2>3. Range(part) \subseteq T
    BY <1>5
  <2> HIDE DEF part, T
  <2>4. part \in Seq(T)
    BY <2>2, <2>3
  <2>5. QED BY <1>5, <2>2, <2>4 DEF part
<1> HIDE DEF T
<1>7. parts \in Seq(Seq(T)) /\ Len(parts) = N
  <2>1. parts = [i \in 1 .. N |-> parts[i]]
    BY <1>5
  <2> HIDE DEF parts
  <2>2. parts \in [1 .. N -> Seq(T)]
    BY <1>6, <2>1
  <2>3. QED BY <1>5, <2>1, <2>2
<1>8. \A i : PathsBefore(config, variants, i) = S[i - 1]
  <2>1. Lengths(parts) = [k \in DOMAIN variants |-> Width(config, variants[k])]
    BY <1>5, <1>6 DEF Lengths
  <2>2. QED BY <2>1 DEF PathsBefore
<1>9. /\ Lengths(parts) \in Seq(Nat) /\ Len(Lengths(parts)) = N
      /\ flat \in Seq(T) /\ Len(flat) = S[N]
      /\ \A i \in 1 .. N : \A k \in 1 .. Len(parts[i]) :
           S[i - 1] + k \in 1 .. Len(flat) /\ flat[S[i - 1] + k] = parts[i][k]
  <2> HIDE DEF parts, S
  <2>1. QED BY <1>7, FlattenParts DEF S
<1>10. S \in [0 .. N -> Nat]
  <2> HIDE DEF parts
  <2>1. QED BY <1>9, SumsAre DEF SumsOf
<1>11. /\ Len(paths) = 1 + Len(flat) /\ paths[1] = default
       /\ \A i \in 1 .. Len(flat) : paths[1 + i] = flat[i]
  <2>1. <<default>> \in Seq(T) /\ Len(<<default>>) = 1 /\ <<default>>[1] = default
    BY DEF T
  <2>2. 1 \in 1 .. 1
    OBVIOUS
  <2> DEFINE first == <<default>>
  <2> HIDE DEF flat, first
  <2>3. /\ Len(first \o flat) = Len(first) + Len(flat)
        /\ \A i \in 1 .. Len(first) : (first \o flat)[i] = first[i]
        /\ \A i \in 1 .. Len(flat) : (first \o flat)[Len(first) + i] = flat[i]
    <3>1. first \in Seq(T) /\ flat \in Seq(T)
      BY <1>9, <2>1 DEF first
    <3>2. QED BY <3>1, Joined
  <2>4. paths = first \o flat /\ Len(first) = 1 /\ first[1] = default
    BY <1>3, <2>1 DEF first
  <2>5. QED BY <2>2, <2>3, <2>4
<1>12. Len(flat) \in Nat
  BY <1>9
<1>13. CASE hits = {}
  <2>1. served.path = 0 /\ served.value = cfg.default
    BY <1>4, <1>13
  <2>2. default.value = cfg.default
    BY DEF default
  <2> HIDE DEF flat, hits, cfg
  <2>3. served.path + 1 = 1 /\ served.path < 1 + Len(flat)
    BY <1>12, <2>1
  <2>4. served.path \in Nat /\ Len(paths) \in Nat /\ served.path < Len(paths)
        /\ paths[served.path + 1].value = served.value
    BY <1>11, <1>12, <2>1, <2>2, <2>3
  <2>5. QED BY <2>4 DEF served, paths
<1>14. CASE hits # {}
  <2> DEFINE i == Min(hits)
             v == variants[i]
             at == Taken(config, v, user, attributes)
             value == IF v.type = "test" THEN v.values[config.tests[v.test].groups[at].name]
                      ELSE v.value
  <2>1. served.value = value /\ served.path = PathsBefore(config, variants, i) + at
    BY <1>4, <1>14
  <2>2. IsFiniteSet(hits) /\ hits \subseteq Int
    <3>1. IsFiniteSet(1 .. N) /\ hits \in SUBSET (1 .. N)
      BY <1>5, FS_Interval
    <3> HIDE DEF hits
    <3>2. IsFiniteSet(hits)
      BY <3>1, FS_Subset
    <3>3. QED BY <3>1, <3>2
  <2>3. i \in hits
    <3> HIDE DEF hits
    <3>1. QED BY <1>14, <2>2, Bounds
  <2>4. i \in 1 .. N /\ at > 0 /\ Grounded(config, v)
    BY <1>1, <1>5, <2>3
  <2> HIDE DEF i, v
  <2>5. at \in 1 .. Width(config, v) /\ Paths(config, v)[at].value = value
    BY <2>4, TakenPath
  <2>6. parts[i] = Paths(config, v) /\ Len(parts[i]) = Width(config, v)
    BY <1>5, <1>6, <2>4 DEF v
  <2> HIDE DEF at, value, parts, flat, hits, S
  <2>7. S[i - 1] + at \in 1 .. Len(flat) /\ flat[S[i - 1] + at] = parts[i][at]
    BY <1>9, <2>4, <2>5, <2>6
  <2>8. served.path = S[i - 1] + at
    BY <1>8, <2>1
  <2>9. served.path \in 1 .. Len(flat) /\ flat[served.path].value = served.value
    BY <2>1, <2>5, <2>6, <2>7, <2>8
  <2>10. 1 + served.path = served.path + 1 /\ served.path \in Nat /\ served.path < 1 + Len(flat)
    BY <1>12, <2>9
  <2>11. served.path \in Nat /\ Len(paths) \in Nat /\ served.path < Len(paths)
         /\ paths[served.path + 1].value = served.value
    BY <1>11, <1>12, <2>9, <2>10
  <2>12. QED BY <2>11 DEF served, paths
<1>15. QED BY <1>13, <1>14

-----------------------------------------------------------------------------
(* A code is decoded to what was encoded.                                   *)

LEMMA EnvIndex ==
  ASSUME NEW env \in Envs
  PROVE  LET e == CHOOSE i \in 1 .. 3 : EnvNames[i] = env
         IN  e \in 1 .. 3 /\ EnvNames[e] = env
<1>1. \E i \in 1 .. 3 : EnvNames[i] = env
  BY DEF Envs, EnvNames, Range
<1>2. QED BY <1>1

\* The format and the environment fit their fields.
LEMMA HeaderFits ==
  Shifted(1, 4) = 0 /\ \A n \in 0 .. 2 : Shifted(n, 2) = 0
<1>1. \A v \in Nat : Shifted(v, 2) = (v \div 2) \div 2
  <2>1. TAKE v \in Nat
  <2>2. Shifted(v, 0) = v /\ \A n \in Nat : Shifted(v, n + 1) = Shifted(v, n) \div 2
    BY ShiftedIs
  <2>3. Shifted(v, 0 + 1) = v \div 2 /\ Shifted(v, 1 + 1) = Shifted(v, 1) \div 2
    BY <2>2
  <2>4. 0 + 1 = 1 /\ 1 + 1 = 2
    OBVIOUS
  <2>5. QED BY <2>3, <2>4
<1>2. \A n \in Nat : Shifted(1, n + 1) = Shifted(1, n) \div 2
  BY ShiftedIs
<1>3. Shifted(1, 2) = 0
  <2>1. (1 \div 2) \div 2 = 0
    OBVIOUS
  <2>2. QED BY <1>1, <2>1
<1>4. Shifted(1, 2 + 1) = 0 \div 2 /\ 2 + 1 = 3 /\ 0 \div 2 = 0
  BY <1>2, <1>3
<1>5. Shifted(1, 3 + 1) = 0 \div 2 /\ 3 + 1 = 4
  BY <1>2, <1>4
<1>6. \A n \in 0 .. 2 : (n \div 2) \div 2 = 0
  OBVIOUS
<1>7. QED BY <1>1, <1>4, <1>5, <1>6

LEMMA PartFound ==
  ASSUME NEW bits \in Seq(Bit), NEW part \in Seq(Bit), NEW a \in Nat,
         a + Len(part) <= Len(bits), \A k \in 1 .. Len(part) : bits[a + k] = part[k]
  PROVE  SubSeq(bits, a + 1, a + Len(part)) = part
<1> DEFINE L == Len(part)
           found == SubSeq(bits, a + 1, a + L)
<1>1. L \in Nat /\ Len(bits) \in Nat
  OBVIOUS
<1>2. \A j \in a + 1 .. a + L : bits[j] \in Bit
  BY <1>1
<1>3. /\ found \in Seq(Bit)
      /\ Len(found) = IF a + 1 <= a + L THEN (a + L) - (a + 1) + 1 ELSE 0
      /\ \A k \in 1 .. (a + L) - (a + 1) + 1 : found[k] = bits[(a + 1) + k - 1]
  <2> HIDE DEF L
  <2>1. a + 1 \in Int /\ a + L \in Int
    BY <1>1
  <2>2. QED BY <1>2, <2>1, SubSeqProperties
<1> HIDE DEF found, L
<1>4. Len(found) = L
  BY <1>1, <1>3
<1>5. \A k \in 1 .. L : found[k] = part[k]
  <2>1. TAKE k \in 1 .. L
  <2>2. (a + L) - (a + 1) + 1 = L /\ (a + 1) + k - 1 = a + k
    BY <1>1
  <2>3. found[k] = bits[a + k]
    BY <1>3, <2>2
  <2>4. QED BY <2>3 DEF L
<1>6. found = part
  <2>1. Len(found) = Len(part) /\ \A k \in 1 .. Len(found) : found[k] = part[k]
    BY <1>4, <1>5 DEF L
  <2>2. found \in Seq(Bit) /\ part \in Seq(Bit)
    BY <1>3
  <2>3. QED BY <2>1, <2>2, SeqEqual
<1>7. QED BY <1>6 DEF found, L

\* What a payload becomes on its way to a code and back.
LEMMA PayloadBack ==
  ASSUME NEW payload \in Seq(Byte)
  PROVE  LET hex == Pieces(Bits(payload, 8) \o Crc8(payload), 4)
             bytes == Pieces(Bits(hex, 4), 8)
         IN  /\ hex \in Seq(Word(4)) /\ Len(hex) = 2 * (Len(payload) + 1)
             /\ Len(bytes) = Len(payload) + 1
             /\ Front(bytes) = payload /\ Last(bytes) = Crc8(payload)
<1> DEFINE crc == Crc8(payload)
           L == Len(payload)
           all == Append(payload, crc)
           hex == Pieces(Bits(all, 8), 4)
<1>1. crc \in Byte /\ L \in Nat
  BY CrcByte
<1> HIDE DEF crc
<1>2. /\ all \in Seq(Byte) /\ Len(all) = L + 1 /\ all[L + 1] = crc
      /\ \A i \in 1 .. L : all[i] = payload[i]
  BY <1>1, Appended
<1> HIDE DEF all
<1>3. Bits(all, 8) = Bits(payload, 8) \o crc
  <2> DEFINE b == Bits(all, 8)
             p == Bits(payload, 8)
  <2>1. 8 \in {4, 8} /\ all \in Seq(Word(8)) /\ payload \in Seq(Word(8))
    BY <1>2 DEF Byte
  <2>2. /\ b \in Seq(Bit) /\ Len(b) = 8 * (L + 1)
        /\ \A i \in 1 .. L + 1, k \in 1 .. 8 : b[8 * (i - 1) + k] = all[i][k]
    <3>1. /\ b \in Seq(Bit) /\ Len(b) = 8 * Len(all)
          /\ \A i \in 1 .. Len(all), k \in 1 .. 8 : b[8 * (i - 1) + k] = all[i][k]
      BY <2>1, BitsAre
    <3> HIDE DEF b, L
    <3>2. QED BY <1>2, <3>1
  <2>3. /\ p \in Seq(Bit) /\ Len(p) = 8 * L
        /\ \A i \in 1 .. L, k \in 1 .. 8 : p[8 * (i - 1) + k] = payload[i][k]
    BY <2>1, BitsAre
  <2>4. crc \in Seq(Bit) /\ Len(crc) = 8
    BY <1>1, WordIsList DEF Byte
  <2> HIDE DEF b, p
  <2>5. /\ p \o crc \in Seq(Bit) /\ Len(p \o crc) = 8 * L + 8
        /\ \A j \in 1 .. 8 * L : (p \o crc)[j] = p[j]
        /\ \A k \in 1 .. 8 : (p \o crc)[8 * L + k] = crc[k]
    <3>1. /\ p \o crc \in Seq(Bit) /\ Len(p \o crc) = Len(p) + Len(crc)
          /\ \A j \in 1 .. Len(p) : (p \o crc)[j] = p[j]
          /\ \A k \in 1 .. Len(crc) : (p \o crc)[Len(p) + k] = crc[k]
      <4>1. p \in Seq(Bit) /\ crc \in Seq(Bit)
        BY <2>3, <2>4
      <4>2. QED BY <4>1, Joined
    <3>2. QED BY <2>3, <2>4, <3>1
  <2>6. Len(b) = 8 * L + 8
    BY <1>1, <2>2
  <2> DEFINE q == p \o crc
  <2>7. ASSUME NEW j \in 1 .. 8 * L + 8 PROVE b[j] = q[j]
    <3> DEFINE i == (j - 1) \div 8
               k == ((j - 1) % 8) + 1
    <3>1. i \in Nat /\ k \in 1 .. 8 /\ j = 8 * i + k
      BY <1>1
    <3> HIDE DEF i, k, q
    <3>2. i <= L /\ (i + 1) - 1 = i /\ i + 1 \in 1 .. L + 1
      BY <1>1, <3>1
    <3>3. b[j] = all[i + 1][k]
      BY <2>2, <3>1, <3>2
    <3>4. CASE i < L
      <4>1. j \in 1 .. 8 * L /\ i + 1 \in 1 .. L
        BY <1>1, <3>1, <3>4
      <4>2. p[j] = payload[i + 1][k]
        BY <2>3, <3>1, <3>2, <4>1
      <4>3. q[j] = p[j]
        BY <2>5, <4>1 DEF q
      <4>4. QED BY <1>2, <3>3, <4>1, <4>2, <4>3
    <3>5. CASE i = L
      <4>1. q[8 * L + k] = crc[k]
        BY <2>5, <3>1 DEF q
      <4>2. QED BY <1>2, <3>1, <3>3, <3>5, <4>1
    <3>6. QED BY <1>1, <3>1, <3>2, <3>4, <3>5
  <2>8. b = q
    <3>1. q \in Seq(Bit) /\ Len(q) = 8 * L + 8
      BY <2>5
    <3> HIDE DEF q
    <3>2. QED BY <2>2, <2>6, <2>7, <3>1
  <2>9. QED BY <2>8 DEF b, p, q
<1>4. hex \in Seq(Word(4)) /\ Len(hex) = 2 * (L + 1) /\ Pieces(Bits(hex, 4), 8) = all
  BY <1>2, DigitsAre
<1>5. Last(all) = crc
  BY <1>2 DEF Last
<1>6. Front(all) = payload
  <2>1. Front(all) = SubSeq(all, 1, L)
    <3>1. (L + 1) - 1 = L
      BY <1>1
    <3>2. QED BY <1>2, <3>1 DEF Front
  <2>2. /\ SubSeq(all, 1, L) \in Seq(Byte) /\ Len(SubSeq(all, 1, L)) = L
        /\ \A i \in 1 .. L : SubSeq(all, 1, L)[i] = all[i]
    <3>1. \A i \in 1 .. L : all[i] \in Byte
      BY <1>1, <1>2
    <3> HIDE DEF L
    <3>2. /\ SubSeq(all, 1, L) \in Seq(Byte)
          /\ Len(SubSeq(all, 1, L)) = IF 1 <= L THEN L - 1 + 1 ELSE 0
          /\ \A i \in 1 .. L - 1 + 1 : SubSeq(all, 1, L)[i] = all[1 + i - 1]
      <4>1. 1 \in Int /\ L \in Int
        BY <1>1
      <4>2. QED BY <3>1, <4>1, SubSeqProperties
    <3>3. L - 1 + 1 = L /\ \A i \in 1 .. L : 1 + i - 1 = i
      BY <1>1
    <3>4. QED BY <1>1, <3>2, <3>3
  <2>3. QED BY <1>2, <2>1, <2>2
<1>7. QED BY <1>2, <1>3, <1>4, <1>5, <1>6 DEF crc, hex

\* The fields of a payload, one after the other.
Stream(config, env, selections) ==
  LET keys == SortedFlagKeys(config)
      header == Write(FingerprintFormat, 4)
                \o Write((CHOOSE i \in 1 .. 3 : EnvNames[i] = env) - 1, 2)
  IN  header \o FlattenSeq([i \in DOMAIN keys |->
                              Write(selections[keys[i]], SelectorWidth(config, keys[i], env))])

Widths(config, env) ==
  LET keys == SortedFlagKeys(config)
  IN  [i \in DOMAIN keys |-> SelectorWidth(config, keys[i], env)]

\* Selections of paths that are there.
Selected(config, env, selections) ==
  \A f \in DOMAIN config.flags :
    LET paths == EnumeratePaths(config, config.flags[f], env)
    IN  Len(paths) \in Nat /\ selections[f] \in Nat /\ selections[f] < Len(paths)

LEMMA KeysAre ==
  ASSUME NEW config, DOMAIN config.flags \subseteq Flags
  PROVE  /\ SortedFlagKeys(config) \in Seq(DOMAIN config.flags)
         /\ \A f \in DOMAIN config.flags :
              \E i \in DOMAIN SortedFlagKeys(config) : SortedFlagKeys(config)[i] = f
<1> DEFINE D == DOMAIN config.flags
           keys == InOrder(FlagOrder, D)
<1>1. FlagOrder \in Seq(Flags) /\ D \subseteq Range(FlagOrder)
  BY BodiesAssumption DEF Flags
<1>2. keys \in Seq(D \cap Range(FlagOrder)) /\ D \cap Range(FlagOrder) \subseteq Range(keys)
  <2> HIDE DEF D
  <2>1. QED BY <1>1, InOrderIs
<1>3. D \cap Range(FlagOrder) = D
  BY <1>1
<1>4. SortedFlagKeys(config) = keys
  BY DEF SortedFlagKeys
<1> HIDE DEF D, keys
<1>5. keys \in Seq(D) /\ D \subseteq Range(keys)
  BY <1>2, <1>3
<1>6. QED BY <1>4, <1>5 DEF Range, D

\* Where the fields are, and that they can be read.
Fields(config, env, selections) ==
  LET keys == SortedFlagKeys(config)
      S == Sums(Widths(config, env))
      stream == Stream(config, env, selections)
      e == CHOOSE i \in 1 .. 3 : EnvNames[i] = env
      Selector(i) == Write(selections[keys[i]], SelectorWidth(config, keys[i], env))
  IN  /\ Len(keys) \in Nat /\ DOMAIN keys = 1 .. Len(keys)
      /\ S \in [0 .. Len(keys) -> Nat]
      /\ \A i \in 0 .. Len(keys) : S[i] <= S[Len(keys)]
      /\ stream \in Seq(Bit) /\ Len(stream) = 6 + S[Len(keys)]
      /\ \A k \in 1 .. 4 : stream[k] = Write(FingerprintFormat, 4)[k]
      /\ \A k \in 1 .. 2 : stream[4 + k] = Write(e - 1, 2)[k]
      /\ \A i \in 1 .. Len(keys) :
           /\ Selector(i) \in Seq(Bit) /\ S[i] = S[i - 1] + Len(Selector(i))
           /\ Read(Selector(i)) = selections[keys[i]]
           /\ \A k \in 1 .. Len(Selector(i)) : stream[6 + S[i - 1] + k] = Selector(i)[k]

LEMMA StreamFields ==
  ASSUME NEW config, DOMAIN config.flags \subseteq Flags, NEW env \in Envs, NEW selections,
         Selected(config, env, selections)
  PROVE  Fields(config, env, selections)
<1> DEFINE keys == SortedFlagKeys(config)
           N == Len(keys)
           widths == Widths(config, env)
           S == Sums(widths)
           e == CHOOSE i \in 1 .. 3 : EnvNames[i] = env
           Selector(i) == Write(selections[keys[i]], SelectorWidth(config, keys[i], env))
           selectors == [i \in DOMAIN keys |-> Selector(i)]
           format == Write(FingerprintFormat, 4)
           place == Write(e - 1, 2)
           header == format \o place
           flat == FlattenSeq(selectors)
           stream == Stream(config, env, selections)
<1>1. keys \in Seq(DOMAIN config.flags)
  BY KeysAre
<1>2. stream = header \o flat
  BY DEF Stream
<1> HIDE DEF keys, stream
<1>3. DOMAIN keys = 1 .. N /\ N \in Nat /\ \A i \in 1 .. N : keys[i] \in DOMAIN config.flags
  BY <1>1
<1> HIDE DEF N
<1>4. ASSUME NEW i \in 1 .. N
      PROVE  LET w == SelectorWidth(config, keys[i], env)
             IN  /\ w \in Nat /\ Selector(i) \in Seq(Bit) /\ Len(Selector(i)) = w
                 /\ Read(Selector(i)) = selections[keys[i]]
  <2> DEFINE paths == EnumeratePaths(config, config.flags[keys[i]], env)
             v == selections[keys[i]]
             w == SelectorWidth(config, keys[i], env)
  <2>1. Len(paths) \in Nat /\ v \in Nat /\ v < Len(paths)
    BY <1>3 DEF Selected
  <2>2. w = BitWidth(Len(paths))
    BY DEF SelectorWidth
  <2> HIDE DEF paths, v, w
  <2>3. w \in Nat /\ Shifted(v, w) = 0
    BY <2>1, <2>2, WidthFits
  <2>4. Write(v, w) \in Seq(Bit) /\ Len(Write(v, w)) = w /\ Read(Write(v, w)) = v
    BY <2>1, <2>3, ReadWrite
  <2>5. QED BY <2>3, <2>4 DEF v, w
<1>5. widths = [i \in 1 .. N |-> SelectorWidth(config, keys[i], env)]
  BY <1>3 DEF Widths, keys
<1> HIDE DEF widths
<1>6. widths \in Seq(Nat) /\ Len(widths) = N
  <2>1. widths \in [1 .. N -> Nat]
    BY <1>4, <1>5
  <2>2. QED BY <1>3, <1>5, <2>1
<1>7. S \in [0 .. N -> Nat] /\ S[0] = 0 /\ \A k \in 1 .. N : S[k] = S[k - 1] + widths[k]
  BY <1>6, SumsAre DEF SumsOf
<1>8. \A i \in 0 .. N : S[i] <= S[N]
  <2>1. \A i \in 0 .. N : i <= N /\ N \in 0 .. N
    BY <1>3
  <2>2. QED BY <1>6, <2>1, SumsGrow
<1>9. selectors \in Seq(Seq(Bit)) /\ Len(selectors) = N /\ \A i \in 1 .. N : selectors[i] = Selector(i)
  <2>1. \A i \in 1 .. N : Selector(i) \in Seq(Bit)
    BY <1>4
  <2> HIDE DEF Selector
  <2>2. selectors = [i \in 1 .. N |-> Selector(i)]
    BY <1>3
  <2> HIDE DEF selectors
  <2>3. selectors \in [1 .. N -> Seq(Bit)]
    BY <2>1, <2>2
  <2>4. QED BY <1>3, <2>2, <2>3
<1>10. Lengths(selectors) = widths
  <2>1. \A i \in 1 .. N : Len(selectors[i]) = SelectorWidth(config, keys[i], env)
    BY <1>4, <1>9
  <2>2. DOMAIN selectors = 1 .. N
    BY <1>3
  <2> HIDE DEF selectors
  <2>3. QED BY <1>5, <2>1, <2>2 DEF Lengths
<1>11. /\ flat \in Seq(Bit) /\ Len(flat) = S[N]
       /\ \A i \in 1 .. N : \A k \in 1 .. Len(Selector(i)) :
            S[i - 1] + k \in 1 .. Len(flat) /\ flat[S[i - 1] + k] = Selector(i)[k]
  <2> HIDE DEF selectors, Selector
  <2>1. /\ flat \in Seq(Bit) /\ Len(flat) = S[N]
        /\ \A i \in 1 .. N : \A k \in 1 .. Len(selectors[i]) :
             S[i - 1] + k \in 1 .. Len(flat) /\ flat[S[i - 1] + k] = selectors[i][k]
    BY <1>9, <1>10, FlattenParts
  <2>2. QED BY <1>9, <2>1
<1>12. e \in 1 .. 3
  BY EnvIndex
<1> HIDE DEF e
<1>13. format \in Seq(Bit) /\ Len(format) = 4 /\ place \in Seq(Bit) /\ Len(place) = 2
  <2>1. FingerprintFormat \in Nat /\ e - 1 \in Nat
    BY <1>12 DEF FingerprintFormat
  <2>2. QED BY <2>1, ReadWrite
<1> HIDE DEF format, place
<1>14. /\ header \in Seq(Bit) /\ Len(header) = 6
       /\ \A k \in 1 .. 4 : header[k] = format[k]
       /\ \A k \in 1 .. 2 : header[4 + k] = place[k]
  <2>1. /\ header \in Seq(Bit) /\ Len(header) = Len(format) + Len(place)
        /\ \A k \in 1 .. Len(format) : header[k] = format[k]
        /\ \A k \in 1 .. Len(place) : header[Len(format) + k] = place[k]
    <3>1. format \in Seq(Bit) /\ place \in Seq(Bit)
      BY <1>13
    <3>2. QED BY <3>1, Joined
  <2> HIDE DEF header
  <2>2. QED BY <1>13, <2>1
<1> HIDE DEF header, flat
<1>15. /\ stream \in Seq(Bit) /\ Len(stream) = 6 + S[N]
       /\ \A k \in 1 .. 6 : stream[k] = header[k]
       /\ \A k \in 1 .. Len(flat) : stream[6 + k] = flat[k]
  <2> DEFINE whole == header \o flat
  <2>1. /\ whole \in Seq(Bit) /\ Len(whole) = Len(header) + Len(flat)
        /\ \A k \in 1 .. Len(header) : whole[k] = header[k]
        /\ \A k \in 1 .. Len(flat) : whole[Len(header) + k] = flat[k]
    <3>1. header \in Seq(Bit) /\ flat \in Seq(Bit)
      BY <1>11, <1>14
    <3>2. QED BY <3>1, Joined
  <2>2. stream = whole
    BY <1>2
  <2> HIDE DEF whole, S
  <2>3. QED BY <1>11, <1>14, <2>1, <2>2
<1>16. /\ \A k \in 1 .. 4 : stream[k] = format[k]
       /\ \A k \in 1 .. 2 : stream[4 + k] = place[k]
  <2>1. /\ \A k \in 1 .. 4 : k \in 1 .. 6
        /\ \A k \in 1 .. 2 : 4 + k \in 1 .. 6
    OBVIOUS
  <2>2. QED BY <1>14, <1>15, <2>1
<1>17. ASSUME NEW i \in 1 .. N
       PROVE  /\ Selector(i) \in Seq(Bit) /\ S[i] = S[i - 1] + Len(Selector(i))
              /\ Read(Selector(i)) = selections[keys[i]]
              /\ \A k \in 1 .. Len(Selector(i)) : stream[6 + S[i - 1] + k] = Selector(i)[k]
  <2>1. Len(Selector(i)) = widths[i] /\ Selector(i) \in Seq(Bit) /\ Read(Selector(i)) = selections[keys[i]]
    BY <1>4, <1>5
  <2> HIDE DEF Selector, S
  <2>2. S[i - 1] \in Nat
    BY <1>3, <1>7
  <2>3. \A k \in 1 .. Len(Selector(i)) : 6 + S[i - 1] + k = 6 + (S[i - 1] + k)
    BY <2>1, <2>2
  <2>4. \A k \in 1 .. Len(Selector(i)) : stream[6 + S[i - 1] + k] = Selector(i)[k]
    BY <1>11, <1>15, <2>3
  <2>5. S[i] = S[i - 1] + Len(Selector(i))
    BY <1>7, <2>1
  <2>6. QED BY <2>1, <2>4, <2>5
<1> HIDE DEF S, Selector
<1>18. QED BY <1>3, <1>7, <1>8, <1>15, <1>16, <1>17
     DEF Fields, keys, N, widths, S, e, Selector, format, place, stream

\* Decoding, by the parts of a code.
Decoded(config, hex, size, payload, crc) ==
  LET bits == Bits(payload, 8)
      env == EnvNames[Read(SubSeq(bits, 5, 6)) + 1]
      keys == SortedFlagKeys(config)
      widths == [i \in DOMAIN keys |-> SelectorWidth(config, keys[i], env)]
      start(i) == 6 + Sums(widths)[i - 1]
      end == start(Len(keys) + 1)
      path(i) == Read(SubSeq(bits, start(i) + 1, start(i + 1))) + 1
      paths(i) == EnumeratePaths(config, config.flags[keys[i]], env)
      Rejected(error) == [error |-> error, env |-> Null, flags |-> <<>>]
  IN  CASE Len(hex) % 2 # 0 -> Rejected("malformed")
        [] Len(hex) % 2 = 0 /\ size < 2 -> Rejected("too short")
        [] OTHER ->
             IF Crc8(payload) # crc THEN Rejected("checksum")
             ELSE IF Read(SubSeq(bits, 1, 4)) # FingerprintFormat THEN Rejected("format")
             ELSE IF Read(SubSeq(bits, 5, 6)) > 2 THEN Rejected("environment")
             ELSE IF end > Len(bits) THEN Rejected("shorter")
             ELSE IF \E i \in DOMAIN keys : path(i) > Len(paths(i)) THEN Rejected("selector")
             ELSE IF Len(bits) - end >= 8 THEN Rejected("longer")
             ELSE [error |-> Null, env |-> env,
                   flags |-> [f \in DOMAIN config.flags |->
                                LET i == CHOOSE j \in DOMAIN keys : keys[j] = f
                                IN  paths(i)[path(i)]]]

LEMMA DecodedIs ==
  ASSUME NEW config, NEW hex
  PROVE  LET bytes == Pieces(Bits(hex, 4), 8)
         IN  DecodeFingerprint(config, hex)
               = Decoded(config, hex, Len(bytes), Front(bytes), Last(bytes))
BY DEF DecodeFingerprint, Decoded

Back(config, env, selections, decoded) ==
  /\ decoded.error = Null /\ decoded.env = env
  /\ \A f \in DOMAIN config.flags :
       decoded.flags[f] = EnumeratePaths(config, config.flags[f], env)[selections[f] + 1]

\* Decoding a code against the config it was made from returns what was selected.
LEMMA RoundTrip ==
  ASSUME NEW config, DOMAIN config.flags \subseteq Flags, NEW env \in Envs, NEW selections,
         Selected(config, env, selections), NEW version
  PROVE  Back(config, env, selections,
              DecodeFingerprint(config, EncodeFingerprint(version, config, env, selections).hex))
<1> DEFINE encKeys == SortedFlagKeys(config)
           stream == Stream(config, env, selections)
           payload == Pieces(stream, 8)
           hex == Pieces(Bits(payload, 8) \o Crc8(payload), 4)
           e == CHOOSE i \in 1 .. 3 : EnvNames[i] = env
<1>1. EncodeFingerprint(version, config, env, selections).hex = hex
  BY DEF EncodeFingerprint, Stream
<1> DEFINE keys == SortedFlagKeys(config)
           N == Len(keys)
           S == Sums(Widths(config, env))
           Selector(i) == Write(selections[keys[i]], SelectorWidth(config, keys[i], env))
<1>2. /\ N \in Nat /\ DOMAIN keys = 1 .. N
      /\ S \in [0 .. N -> Nat]
      /\ \A i \in 0 .. N : S[i] <= S[N]
      /\ stream \in Seq(Bit) /\ Len(stream) = 6 + S[N]
      /\ \A k \in 1 .. 4 : stream[k] = Write(FingerprintFormat, 4)[k]
      /\ \A k \in 1 .. 2 : stream[4 + k] = Write(e - 1, 2)[k]
      /\ \A i \in 1 .. N :
           /\ Selector(i) \in Seq(Bit) /\ S[i] = S[i - 1] + Len(Selector(i))
           /\ Read(Selector(i)) = selections[keys[i]]
           /\ \A k \in 1 .. Len(Selector(i)) : stream[6 + S[i - 1] + k] = Selector(i)[k]
  <2>1. Fields(config, env, selections)
    BY StreamFields
  <2>2. QED BY <2>1 DEF Fields
<1>3. e \in 1 .. 3 /\ EnvNames[e] = env
  BY EnvIndex
<1> DEFINE bits == Bits(payload, 8)
<1>4. /\ payload \in Seq(Byte) /\ bits \in Seq(Bit) /\ Len(payload) \in Nat
      /\ Len(bits) = 8 * Len(payload) /\ Len(bits) - Len(stream) \in 0 .. 7
      /\ \A j \in 1 .. Len(stream) : bits[j] = stream[j]
  <2> HIDE DEF stream
  <2>1. 8 \in {4, 8}
    OBVIOUS
  <2>2. /\ 8 * Len(payload) - Len(stream) \in 0 .. 8 - 1
        /\ payload \in Seq(Word(8)) /\ \A j \in 1 .. Len(stream) : bits[j] = stream[j]
    BY <1>2, <2>1, PiecesAre
  <2> HIDE DEF payload
  <2>3. bits \in Seq(Bit) /\ Len(bits) = 8 * Len(payload)
    BY <2>1, <2>2, BitsAre
  <2>4. Len(payload) \in Nat
    BY <2>2
  <2>5. QED BY <2>2, <2>3, <2>4 DEF Byte
<1> HIDE DEF stream, payload
<1>5. Len(payload) >= 1
  <2>1. Len(stream) >= 6
    <3>1. S[N] \in Nat
      BY <1>2
    <3>2. QED BY <1>2, <3>1
  <2>2. Len(stream) \in Nat
    BY <1>2
  <2>3. QED BY <1>4, <2>1, <2>2
<1>6. /\ Len(hex) = 2 * (Len(payload) + 1)
      /\ Len(Pieces(Bits(hex, 4), 8)) = Len(payload) + 1
      /\ Front(Pieces(Bits(hex, 4), 8)) = payload
      /\ Last(Pieces(Bits(hex, 4), 8)) = Crc8(payload)
  BY <1>4, PayloadBack
<1> HIDE DEF hex, e
<1>7. Len(hex) % 2 = 0
  <2>1. \A n \in Nat : (2 * (n + 1)) % 2 = 0
    OBVIOUS
  <2>2. QED BY <1>4, <1>6, <2>1
<1> DEFINE bytes == Pieces(Bits(hex, 4), 8)
           decEnv == EnvNames[Read(SubSeq(bits, 5, 6)) + 1]
           widths == [i \in DOMAIN keys |-> SelectorWidth(config, keys[i], decEnv)]
           start(i) == 6 + Sums(widths)[i - 1]
           end == start(N + 1)
           path(i) == Read(SubSeq(bits, start(i) + 1, start(i + 1))) + 1
           paths(i) == EnumeratePaths(config, config.flags[keys[i]], decEnv)
           decoded == DecodeFingerprint(config, hex)
           result == [error |-> Null, env |-> decEnv,
                      flags |-> [f \in DOMAIN config.flags |->
                                   LET i == CHOOSE j \in DOMAIN keys : keys[j] = f
                                   IN  paths(i)[path(i)]]]
<1>8. SubSeq(bits, 1, 4) = Write(FingerprintFormat, 4)
  <2> DEFINE format == Write(FingerprintFormat, 4)
  <2>1. format \in Seq(Bit) /\ Len(format) = 4
    <3>1. FingerprintFormat \in Nat /\ 4 \in Nat
      BY DEF FingerprintFormat
    <3>2. QED BY <3>1, ReadWrite
  <2> HIDE DEF format, bits, S
  <2>2. \A k \in 1 .. 4 : k \in 1 .. Len(stream) /\ 0 + k = k
    <3>1. S[N] \in Nat
      BY <1>2
    <3>2. QED BY <1>2, <3>1
  <2>3. 0 + Len(format) <= Len(bits) /\ \A k \in 1 .. Len(format) : bits[0 + k] = format[k]
    <3>1. \A k \in 1 .. 4 : bits[0 + k] = format[k]
      BY <1>2, <1>4, <2>2 DEF format
    <3>2. QED BY <1>4, <1>5, <2>1, <3>1
  <2>4. SubSeq(bits, 0 + 1, 0 + Len(format)) = format
    <3>1. 0 \in Nat
      OBVIOUS
    <3>2. QED BY <1>4, <2>1, <2>3, <3>1, PartFound
  <2>5. 0 + 1 = 1 /\ 0 + Len(format) = 4
    BY <2>1
  <2>6. QED BY <2>4, <2>5 DEF format
<1>9. SubSeq(bits, 5, 6) = Write(e - 1, 2)
  <2> DEFINE place == Write(e - 1, 2)
  <2>1. place \in Seq(Bit) /\ Len(place) = 2
    <3>1. e - 1 \in Nat /\ 2 \in Nat
      BY <1>3
    <3>2. QED BY <3>1, ReadWrite
  <2> HIDE DEF place, bits, S
  <2>2. \A k \in 1 .. 2 : 4 + k \in 1 .. Len(stream)
    <3>1. S[N] \in Nat
      BY <1>2
    <3>2. QED BY <1>2, <3>1
  <2>3. 4 + Len(place) <= Len(bits) /\ \A k \in 1 .. Len(place) : bits[4 + k] = place[k]
    <3>1. \A k \in 1 .. 2 : bits[4 + k] = place[k]
      BY <1>2, <1>4, <2>2 DEF place
    <3>2. QED BY <1>4, <1>5, <2>1, <3>1
  <2>4. SubSeq(bits, 4 + 1, 4 + Len(place)) = place
    <3>1. 4 \in Nat
      OBVIOUS
    <3>2. QED BY <1>4, <2>1, <2>3, <3>1, PartFound
  <2>5. 4 + 1 = 5 /\ 4 + Len(place) = 6
    BY <2>1
  <2>6. QED BY <2>4, <2>5 DEF place
<1>10. Read(SubSeq(bits, 1, 4)) = FingerprintFormat
  <2>1. FingerprintFormat = 1 /\ 1 \in Nat /\ 4 \in Nat /\ Shifted(1, 4) = 0
    BY HeaderFits DEF FingerprintFormat
  <2>2. QED BY <1>8, <2>1, ReadWrite
<1>11. Read(SubSeq(bits, 5, 6)) = e - 1
  <2>1. e - 1 \in Nat /\ e - 1 \in 0 .. 2 /\ 2 \in Nat
    BY <1>3
  <2>2. Shifted(e - 1, 2) = 0
    BY <2>1, HeaderFits
  <2>3. QED BY <1>9, <2>1, <2>2, ReadWrite
<1>12. decEnv = env /\ ~(Read(SubSeq(bits, 5, 6)) > 2)
  <2> HIDE DEF bits
  <2>1. (e - 1) + 1 = e /\ ~(e - 1 > 2)
    BY <1>3
  <2>2. QED BY <1>3, <1>11, <2>1
<1>13. widths = Widths(config, env)
  BY <1>12 DEF Widths
<1>14. \A i \in 1 .. N + 1 : start(i) = 6 + S[i - 1]
  BY <1>13
<1>15. end = Len(stream)
  <2> HIDE DEF S, widths
  <2>1. N + 1 \in 1 .. N + 1 /\ (N + 1) - 1 = N
    BY <1>2
  <2>2. QED BY <1>2, <1>14, <2>1
<1> HIDE DEF S, start, bits
<1>16. ASSUME NEW i \in 1 .. N
       PROVE  /\ path(i) = selections[keys[i]] + 1
              /\ keys[i] \in DOMAIN config.flags
              /\ paths(i) = EnumeratePaths(config, config.flags[keys[i]], env)
  <2> DEFINE part == Selector(i)
             a == 6 + S[i - 1]
  <2>1. S[i - 1] \in Nat /\ S[i] \in Nat /\ S[N] \in Nat /\ S[i] <= S[N]
    <3>1. i - 1 \in 0 .. N /\ i \in 0 .. N /\ N \in 0 .. N
      BY <1>2
    <3>2. S \in [0 .. N -> Nat] /\ \A j \in 0 .. N : S[j] <= S[N]
      BY <1>2
    <3> HIDE DEF N
    <3>3. QED BY <3>1, <3>2
  <2>2. /\ part \in Seq(Bit) /\ S[i] = S[i - 1] + Len(part) /\ Read(part) = selections[keys[i]]
        /\ \A k \in 1 .. Len(part) : stream[a + k] = part[k]
    BY <1>2
  <2>3. start(i) = a /\ start(i + 1) = 6 + S[i]
    <3>1. i \in 1 .. N + 1 /\ i + 1 \in 1 .. N + 1 /\ (i + 1) - 1 = i
      BY <1>2
    <3>2. QED BY <1>14, <3>1
  <2> HIDE DEF part
  <2>4. a \in Nat /\ 6 + S[i] = a + Len(part) /\ a + Len(part) <= Len(stream) /\ Len(part) \in Nat
    <3>1. Len(part) \in Nat
      BY <2>2
    <3>2. Len(stream) = 6 + S[N]
      BY <1>2
    <3>3. S[i] = S[i - 1] + Len(part)
      BY <2>2
    <3> HIDE DEF N
    <3>4. QED BY <2>1, <3>1, <3>2, <3>3
  <2>5. a + Len(part) <= Len(bits)
    <3>1. Len(stream) <= Len(bits)
      BY <1>2, <1>4
    <3>2. Len(stream) \in Nat /\ Len(bits) \in Nat
      BY <1>2, <1>4
    <3> HIDE DEF a
    <3>3. QED BY <2>4, <3>1, <3>2
  <2>6. \A k \in 1 .. Len(part) : bits[a + k] = part[k]
    <3>1. Len(stream) \in Nat
      BY <1>2
    <3> HIDE DEF a, part, N, S
    <3>2. \A k \in 1 .. Len(part) : a + k \in 1 .. Len(stream)
      BY <2>4, <3>1
    <3>3. QED BY <1>4, <2>2, <3>2
  <2> HIDE DEF a
  <2>7. SubSeq(bits, a + 1, a + Len(part)) = part
    BY <1>4, <2>2, <2>4, <2>5, <2>6, PartFound
  <2>8. path(i) = Read(part) + 1
    BY <2>3, <2>4, <2>7
  <2>9. keys[i] \in DOMAIN config.flags
    <3>1. keys \in Seq(DOMAIN config.flags)
      BY KeysAre
    <3> HIDE DEF keys
    <3>2. QED BY <1>2, <3>1
  <2>10. paths(i) = EnumeratePaths(config, config.flags[keys[i]], env)
    BY <1>12
  <2>11. QED BY <2>2, <2>8, <2>9, <2>10
<1>17. \A i \in 1 .. N : ~(path(i) > Len(paths(i)))
  <2>1. TAKE i \in 1 .. N
  <2> DEFINE v == selections[keys[i]]
             count == Len(EnumeratePaths(config, config.flags[keys[i]], env))
  <2>2. v \in Nat /\ count \in Nat /\ v < count
    BY <1>16 DEF Selected
  <2> HIDE DEF v, count
  <2>3. ~(v + 1 > count)
    BY <2>2
  <2>4. path(i) = v + 1 /\ Len(paths(i)) = count
    BY <1>16 DEF v, count
  <2> HIDE DEF path, paths
  <2>5. QED BY <2>3, <2>4
<1>18. ~(end > Len(bits)) /\ ~(Len(bits) - end >= 8)
  <2>1. Len(stream) \in Nat /\ Len(bits) \in Nat
    BY <1>2, <1>4
  <2> HIDE DEF end
  <2>2. QED BY <1>4, <1>15, <2>1
<1>19. decoded = result
  <2> DEFINE Rejected(error) == [error |-> error, env |-> Null, flags |-> <<>>]
             rest == IF Crc8(payload) # Crc8(payload) THEN Rejected("checksum")
                     ELSE IF Read(SubSeq(bits, 1, 4)) # FingerprintFormat THEN Rejected("format")
                     ELSE IF Read(SubSeq(bits, 5, 6)) > 2 THEN Rejected("environment")
                     ELSE IF end > Len(bits) THEN Rejected("shorter")
                     ELSE IF \E i \in DOMAIN keys : path(i) > Len(paths(i)) THEN Rejected("selector")
                     ELSE IF Len(bits) - end >= 8 THEN Rejected("longer")
                     ELSE result
  <2>1. decoded = CASE Len(hex) % 2 # 0 -> Rejected("malformed")
                    [] Len(hex) % 2 = 0 /\ Len(bytes) < 2 -> Rejected("too short")
                    [] OTHER -> rest
    <3>1. decoded = Decoded(config, hex, Len(bytes), Front(bytes), Last(bytes))
      BY DecodedIs
    <3>2. decoded = Decoded(config, hex, Len(bytes), payload, Crc8(payload))
      BY <1>6, <3>1
    <3>3. Decoded(config, hex, Len(bytes), payload, Crc8(payload))
            = CASE Len(hex) % 2 # 0 -> Rejected("malformed")
                [] Len(hex) % 2 = 0 /\ Len(bytes) < 2 -> Rejected("too short")
                [] OTHER -> rest
      BY DEF Decoded, start, bits
    <3> HIDE DEF decoded, rest, bytes, Rejected
    <3>4. QED BY <3>2, <3>3
  <2>2. ~(Len(hex) % 2 # 0) /\ ~(Len(hex) % 2 = 0 /\ Len(bytes) < 2)
    <3>1. ~(Len(bytes) < 2)
      <4> HIDE DEF bytes
      <4>1. Len(bytes) = Len(payload) + 1
        BY <1>6 DEF bytes
      <4>2. QED BY <1>4, <1>5, <4>1
    <3>2. QED BY <1>7, <3>1
  <2> HIDE DEF decoded, bytes, result, end, path, paths, keys, Rejected
  <2>4. rest = result
    <3>1. ~ \E i \in DOMAIN keys : path(i) > Len(paths(i))
      BY <1>2, <1>17
    <3>2. QED BY <1>10, <1>12, <1>18, <3>1
  <2> HIDE DEF rest
  <2>5. QED BY <2>1, <2>2, <2>4
<1>20. ASSUME NEW f \in DOMAIN config.flags
       PROVE  result.flags[f] = EnumeratePaths(config, config.flags[f], env)[selections[f] + 1]
  <2> DEFINE i == CHOOSE j \in DOMAIN keys : keys[j] = f
  <2>1. result.flags[f] = paths(i)[path(i)]
    BY <1>20
  <2>2. i \in DOMAIN keys /\ keys[i] = f
    <3>1. \E j \in DOMAIN keys : keys[j] = f
      BY KeysAre
    <3> HIDE DEF keys
    <3>2. QED BY <3>1
  <2>3. i \in 1 .. N
    BY <1>2, <2>2
  <2> HIDE DEF i, path, paths, keys
  <2>4. path(i) = selections[f] + 1
    BY <1>16, <2>2, <2>3
  <2>5. paths(i) = EnumeratePaths(config, config.flags[f], env)
    BY <1>16, <2>2, <2>3
  <2>6. QED BY <2>1, <2>4, <2>5
<1>21. result.error = Null /\ result.env = env
  BY <1>12
<1> HIDE DEF result
<1>22. QED BY <1>1, <1>19, <1>20, <1>21 DEF Back, decoded

\* The digits of a code: a payload of some bytes, and its checksum.
Coded(hex) ==
  \E payload \in Seq(Byte) :
    Len(payload) >= 1 /\ hex = Pieces(Bits(payload, 8) \o Crc8(payload), 4)

\* A code is digits of this kind.
LEMMA EncodedIsCoded ==
  ASSUME NEW config, DOMAIN config.flags \subseteq Flags, NEW env \in Envs, NEW selections,
         Selected(config, env, selections), NEW version
  PROVE  Coded(EncodeFingerprint(version, config, env, selections).hex)
<1> DEFINE stream == Stream(config, env, selections)
           payload == Pieces(stream, 8)
<1>1. EncodeFingerprint(version, config, env, selections).hex
        = Pieces(Bits(payload, 8) \o Crc8(payload), 4)
  BY DEF EncodeFingerprint, Stream
<1>2. stream \in Seq(Bit) /\ Len(stream) \in Nat /\ Len(stream) >= 6
  <2> DEFINE N == Len(SortedFlagKeys(config))
             S == Sums(Widths(config, env))
  <2>1. /\ N \in Nat /\ S \in [0 .. N -> Nat]
        /\ stream \in Seq(Bit) /\ Len(stream) = 6 + S[N]
    <3>1. Fields(config, env, selections)
      BY StreamFields
    <3>2. QED BY <3>1 DEF Fields
  <2> HIDE DEF N, S, stream
  <2>2. S[N] \in Nat
    BY <2>1
  <2>3. QED BY <2>1, <2>2
<1> HIDE DEF stream
<1>3. /\ payload \in Seq(Byte) /\ 8 * Len(payload) - Len(stream) \in 0 .. 7
  <2>1. 8 \in {4, 8} /\ 8 - 1 = 7
    OBVIOUS
  <2>2. /\ payload \in Seq(Word(8)) /\ 8 * Len(payload) - Len(stream) \in 0 .. 8 - 1
    BY <1>2, <2>1, PiecesAre
  <2> HIDE DEF payload
  <2>3. QED BY <2>1, <2>2 DEF Byte
<1> HIDE DEF payload
<1>4. Len(payload) >= 1
  <2>1. Len(payload) \in Nat
    BY <1>3
  <2>2. QED BY <1>2, <1>3, <2>1
<1>5. QED BY <1>1, <1>3, <1>4 DEF Coded

-----------------------------------------------------------------------------
(* What is reported can be decoded.                                         *)

\* Decoding the code of a report against an artifact returns what was served.
Tells(artifact, sent) ==
  LET decoded == DecodeFingerprint(artifact, sent.code.hex)
  IN  /\ decoded.error = Null
      /\ decoded.env = sent.env
      /\ \A f \in DOMAIN sent.values : decoded.flags[f].value = sent.values[f]

\* The live config can be encoded by.
Encodable(config) == Listed(config) /\ DOMAIN config.flags \subseteq Flags

\* The archived objects are of versions that were live, the one of the live version is the
\* live config, and what a report was made from is what its version is decoded against; its
\* code ends in its checksum.
DecodeInvariant ==
  /\ Encodable(live.config)
  /\ live.version \in Nat /\ DOMAIN archive \subseteq 1 .. live.version
  /\ live.version \in DOMAIN archive => archive[live.version] = live.config
  /\ report # Null =>
       /\ report.code.version \in 0 .. live.version
       /\ Coded(report.code.hex)
       /\ LET artifact == FetchArtifact(report.code.version)
          IN  artifact # Null => Tells(artifact, report)

LEMMA GeneratedEncodable ==
  ASSUME TypeOK
  PROVE  Encodable(GenerateConfig(flags, exps))
<1>1. DOMAIN GenerateConfig(flags, exps).flags \subseteq Flags
  BY DEF GenerateConfig
<1>2. QED BY <1>1, GeneratedListed DEF Encodable

\* A report made from the live config can be decoded against it.
LEMMA ReportTells ==
  ASSUME Whole(live.config), Encodable(live.config),
         NEW u \in Users, NEW env \in ReportEnvs, NEW version \in Versions, Report(u, env, version)
  PROVE  /\ Tells(live.config, report') /\ report'.code.version = live.version
         /\ Coded(report'.code.hex)
<1> DEFINE config == live.config
           D == DOMAIN config.flags
           served == [f \in D |-> Resolve(config, f, env, u, Attributes(version))]
           selections == [f \in DOMAIN served |-> served[f].path]
           code == EncodeFingerprint(live.version, config, env, selections)
           decoded == DecodeFingerprint(config, code.hex)
<1>1. report' = [env |-> env, values |-> [f \in DOMAIN served |-> served[f].value], code |-> code]
  BY DEF Report
<1>2. env \in Envs
  BY DeliveryAssumption
<1>3. Complete(config) /\ Listed(config) /\ D \subseteq Flags
  BY DEF Whole, Encodable
<1> HIDE DEF config
<1>4. DOMAIN served = D /\ \A f \in D : /\ served[f] = Resolve(config, f, env, u, Attributes(version))
                                        /\ selections[f] = served[f].path
  OBVIOUS
<1>5. \A f \in D :
        LET paths == EnumeratePaths(config, config.flags[f], env)
        IN  /\ selections[f] \in Nat /\ Len(paths) \in Nat /\ selections[f] < Len(paths)
            /\ paths[selections[f] + 1].value = served[f].value
  <2>1. TAKE f \in D
  <2> DEFINE resolved == Resolve(config, f, env, u, Attributes(version))
             paths == EnumeratePaths(config, config.flags[f], env)
  <2>2. /\ resolved.path \in Nat /\ Len(paths) \in Nat /\ resolved.path < Len(paths)
        /\ paths[resolved.path + 1].value = resolved.value
    BY <1>2, <1>3, PathServed
  <2> HIDE DEF resolved, paths, served, selections
  <2>3. served[f] = resolved /\ selections[f] = resolved.path
    BY <1>4 DEF resolved
  <2>4. QED BY <2>2, <2>3 DEF paths
<1> HIDE DEF selections, served
<1>6. Selected(config, env, selections)
  BY <1>5 DEF Selected
<1>7. Back(config, env, selections, decoded)
  BY <1>2, <1>3, <1>6, RoundTrip
<1>8. code.version = live.version /\ Coded(code.hex)
  <2>1. Coded(code.hex)
    BY <1>2, <1>3, <1>6, EncodedIsCoded
  <2>2. QED BY <2>1 DEF EncodeFingerprint
<1> HIDE DEF code, decoded, D
<1>9. \A f \in D : decoded.flags[f].value = served[f].value
  BY <1>5, <1>7 DEF Back, D
<1>10. report'.code = code /\ report'.env = env /\ DOMAIN report'.values = D
       /\ \A f \in D : report'.values[f] = served[f].value
  BY <1>1, <1>4
<1> DEFINE sent == report'
<1>11. sent.code = code /\ sent.env = env /\ DOMAIN sent.values = D
       /\ \A f \in D : sent.values[f] = served[f].value
  BY <1>10
<1> HIDE DEF sent
<1>12. DecodeFingerprint(config, sent.code.hex) = decoded
  BY <1>11 DEF decoded
<1>13. decoded.error = Null /\ decoded.env = env
  BY <1>7 DEF Back
<1>14. Tells(config, sent)
  BY <1>9, <1>11, <1>12, <1>13 DEF Tells
<1>15. sent.code.version = live.version /\ Coded(sent.code.hex)
  BY <1>8, <1>11
<1>16. QED BY <1>14, <1>15 DEF sent, config

\* Only publishing changes the objects, and only reporting makes a report.
LEMMA EditsLeaveObjects ==
  ASSUME Next
  PROVE  \/ UNCHANGED <<live, archive, report>>
         \/ \E archived \in BOOLEAN : Publish(archived)
         \/ \E u \in Users, env \in ReportEnvs, version \in Versions : Report(u, env, version)
<1>1. Edit => UNCHANGED <<live, archive, report>>
  BY DEF Edit
<1>2. ASSUME NEW f \in Flags,
             \/ \E key \in KeyShapes, new \in NewFlags : CreateFlag(f, key, new[1], new[2])
             \/ \E patch \in FlagPatches : UpdateFlag(f, patch)
             \/ DeleteFlag(f)
      PROVE  Edit
  BY <1>2 DEF CreateFlag, UpdateFlag, DeleteFlag
<1>3. ASSUME NEW e \in Experiments, exps[e] # Null, NEW patch \in ExpPatches[exps[e].type],
             UpdateTest(e, patch) \/ UpdateRollout(e, patch) \/ UpdateTestRollout(e, patch)
      PROVE  Edit
  BY <1>3 DEF UpdateTest, UpdateRollout, UpdateTestRollout, Put
<1>4. ASSUME NEW e \in Experiments,
             \/ \E key \in KeyShapes, split \in NewTests : CreateTest(e, key, split)
             \/ \E key \in KeyShapes, p \in Percentages : CreateRollout(e, key, p)
             \/ \E key \in KeyShapes, body \in NewTestRollouts : CreateTestRollout(e, key, body)
             \/ \E p \in Percentages : SetPercentage(e, p)
             \/ \E kind \in {"cancel", "complete"} : ArchiveExperiment(e, kind)
             \/ DeleteTest(e) \/ DeleteRollout(e) \/ DeleteTestRollout(e)
      PROVE  Edit
  BY <1>4 DEF CreateTest, CreateRollout, CreateTestRollout, SetPercentage, ArchiveExperiment,
              DeleteTest, DeleteRollout, DeleteTestRollout
<1>5. QED BY <1>1, <1>2, <1>3, <1>4 DEF Next

LEMMA DecodeKept ==
  ASSUME WholeInvariant, DecodeInvariant, [Next]_vars
  PROVE  DecodeInvariant'
<1>1. ASSUME UNCHANGED <<live, archive, report>> PROVE DecodeInvariant'
  BY <1>1 DEF DecodeInvariant, Encodable, Listed, FetchArtifact, Tells
<1>2. ASSUME NEW archived \in BOOLEAN, Publish(archived) PROVE DecodeInvariant'
  <2> DEFINE config == GenerateConfig(flags, exps)
             version == live.version + 1
  <2>1. /\ live' = [version |-> version, config |-> config]
        /\ archive' = IF archived THEN [v \in DOMAIN archive \cup {version} |->
                                          IF v = version THEN config ELSE archive[v]]
                      ELSE archive
        /\ report' = report
    BY <1>2 DEF Publish
  <2>2. Encodable(config)
    BY GeneratedEncodable DEF WholeInvariant
  <2> HIDE DEF config
  <2>3. live.version \in Nat /\ DOMAIN archive \subseteq 1 .. live.version
    BY DEF DecodeInvariant
  <2>4. live'.version = version /\ live'.config = config /\ version \in Nat /\ version > live.version
    BY <2>1, <2>3
  <2>5. version \notin DOMAIN archive
    BY <2>3
  <2>6. DOMAIN archive' \subseteq DOMAIN archive \cup {version}
    BY <2>1
  <2>7. version \in DOMAIN archive' => archive'[version] = config
    BY <2>1, <2>5
  <2>8. \A v \in 0 .. live.version : FetchArtifact(v)' = FetchArtifact(v) \/ FetchArtifact(v)' = Null
    <3>1. TAKE v \in 0 .. live.version
    <3>2. v # version
      BY <2>3
    <3> HIDE DEF version
    <3>3. /\ v \in DOMAIN archive' <=> v \in DOMAIN archive
          /\ v \in DOMAIN archive => archive'[v] = archive[v]
      BY <2>1, <3>2
    <3>4. QED BY <2>4, <3>2, <3>3 DEF FetchArtifact
  <2>9. DOMAIN archive' \subseteq 1 .. version
    BY <2>3, <2>6
  <2>10. Encodable(live.config)'
    BY <2>2, <2>4 DEF Encodable, Listed
  <2> HIDE DEF version
  <2>11. report # Null => /\ report.code.version \in 0 .. live.version
                          /\ Coded(report.code.hex)
                          /\ FetchArtifact(report.code.version) # Null =>
                               Tells(FetchArtifact(report.code.version), report)
    BY DEF DecodeInvariant
  <2>12. report' # Null => /\ report'.code.version \in 0 .. version
                           /\ Coded(report'.code.hex)
                           /\ FetchArtifact(report.code.version)' # Null =>
                                Tells(FetchArtifact(report.code.version), report)'
    <3>1. SUFFICES ASSUME report # Null
                   PROVE  /\ report.code.version \in 0 .. version
                          /\ Coded(report.code.hex)
                          /\ FetchArtifact(report.code.version)' # Null =>
                               Tells(FetchArtifact(report.code.version), report)'
      BY <2>1
    <3>2. report.code.version \in 0 .. live.version
      BY <2>11, <3>1
    <3>3. report.code.version \in 0 .. version
      BY <2>3, <2>4, <3>2
    <3>4. FetchArtifact(report.code.version)' = FetchArtifact(report.code.version)
          \/ FetchArtifact(report.code.version)' = Null
      BY <2>1, <2>8, <3>2
    <3>5. QED BY <2>1, <2>11, <3>1, <3>3, <3>4 DEF Tells
  <2>13. QED BY <2>4, <2>7, <2>9, <2>10, <2>12 DEF DecodeInvariant
<1>3. ASSUME NEW u \in Users, NEW env \in ReportEnvs, NEW version \in Versions,
             Report(u, env, version)
      PROVE  DecodeInvariant'
  <2>1. live' = live /\ archive' = archive
    BY <1>3 DEF Report
  <2>2. /\ Tells(live.config, report') /\ report'.code.version = live.version
        /\ Coded(report'.code.hex)
    BY <1>3, ReportTells DEF WholeInvariant, DecodeInvariant
  <2>3. FetchArtifact(live.version) = live.config
    BY DEF FetchArtifact, DecodeInvariant
  <2>4. FetchArtifact(report.code.version)' = live.config
    BY <2>1, <2>2, <2>3 DEF FetchArtifact
  <2>5. live.version \in Nat /\ live.version \in 0 .. live.version
    BY DEF DecodeInvariant
  <2>6. Tells(FetchArtifact(report.code.version), report)'
    BY <2>2, <2>4 DEF Tells
  <2>7. report'.code.version \in 0 .. live'.version
    BY <2>1, <2>2, <2>5
  <2>8. Encodable(live.config)'
    BY <2>1 DEF DecodeInvariant, Encodable, Listed
  <2>9. QED BY <2>1, <2>2, <2>5, <2>6, <2>7, <2>8 DEF DecodeInvariant
<1>4. CASE UNCHANGED vars
  BY <1>1, <1>4 DEF vars
<1>5. QED BY <1>1, <1>2, <1>3, <1>4, EditsLeaveObjects

LEMMA InitDecodes ==
  Init => DecodeInvariant
<1>1. SUFFICES ASSUME Init PROVE DecodeInvariant
  OBVIOUS
<1>2. /\ live.version = 0 /\ DOMAIN live.config.flags = {} /\ DOMAIN live.config.tests = {}
      /\ DOMAIN archive = {} /\ report = Null
  BY <1>1 DEF Init
<1>3. QED BY <1>2 DEF DecodeInvariant, Encodable, Listed

\* Whatever was edited and published since a device reported what it was served, the code it
\* reported decodes, against the artifact of its version as long as there is one, to the
\* environment and to every value the device was served.
THEOREM ReportsDecodeToWhatWasServed ==
  Spec => []DecodedIsResolved
<1>1. DecodeInvariant => DecodedIsResolved
  BY DEF DecodeInvariant, DecodedIsResolved, Tells
<1>2. QED BY <1>1, InitDecodes, InitWhole, WholeKept, DecodeKept, PTL DEF Spec

-----------------------------------------------------------------------------
(* What the checksum tells apart.                                           *)

LEMMA Flips ==
  /\ \A x, y \in Bit : Flip(x, y) \in Bit /\ Flip(x, y) = Flip(y, x)
  /\ \A x \in Bit : Flip(x, 0) = x /\ Flip(x, x) = 0
  /\ \A x, y, z \in Bit : Flip(x, z) = Flip(y, z) => x = y
  /\ \A x, y \in Bit : Flip(x, y) = 0 => x = y
  /\ \A x, y, u, v \in Bit : Flip(Flip(x, y), Flip(u, v)) = Flip(Flip(x, u), Flip(y, v))
BY DEF Flip, Bit

LEMMA ByteBits ==
  ASSUME NEW c \in Byte
  PROVE  c \in [1 .. 8 -> Bit] /\ \A i \in 1 .. 8 : c[i] \in Bit
BY DEF Byte, Word

LEMMA SameByte ==
  ASSUME NEW c \in Byte, NEW d \in Byte, \A i \in 1 .. 8 : c[i] = d[i]
  PROVE  c = d
BY DEF Byte, Word

LEMMA RoundedTells ==
  ASSUME NEW c \in Byte, NEW d \in Byte, Rounded(c) = Rounded(d)
  PROVE  c = d
<1>1. \A i \in 1 .. 8 : c[i] \in Bit /\ d[i] \in Bit
  BY ByteBits
<1> DEFINE r == Rounded(c)
           s == Rounded(d)
<1>2. \A i \in 1 .. 8 : r[i] = s[i]
  OBVIOUS
<1>3. /\ r[8] = c[1] /\ s[8] = d[1]
      /\ \A i \in 1 .. 5 : r[i] = c[i + 1] /\ s[i] = d[i + 1]
      /\ \A i \in 6 .. 7 : r[i] = Flip(c[i + 1], c[1]) /\ s[i] = Flip(d[i + 1], d[1])
  BY DEF Rounded
<1> HIDE DEF r, s
<1>4. c[1] = d[1]
  BY <1>2, <1>3
<1>5. \A i \in 1 .. 5 : c[i + 1] = d[i + 1]
  BY <1>2, <1>3
<1>6. \A i \in 6 .. 7 : c[i + 1] = d[i + 1]
  <2>1. TAKE i \in 6 .. 7
  <2>2. i \in 1 .. 8 /\ i + 1 \in 1 .. 8 /\ 1 \in 1 .. 8
    OBVIOUS
  <2>3. Flip(c[i + 1], c[1]) = Flip(d[i + 1], c[1])
    BY <1>2, <1>3, <1>4, <2>2
  <2> DEFINE x == c[i + 1]
             y == d[i + 1]
             z == c[1]
  <2>4. x \in Bit /\ y \in Bit /\ z \in Bit /\ Flip(x, z) = Flip(y, z)
    BY <1>1, <2>2, <2>3
  <2> HIDE DEF x, y, z
  <2>5. x = y
    BY <2>4, Flips
  <2>6. QED BY <2>5 DEF x, y
<1>7. \A i \in 1 .. 8 : c[i] = d[i]
  <2>1. TAKE i \in 1 .. 8
  <2>2. i = 1 \/ (i - 1 \in 1 .. 5 /\ (i - 1) + 1 = i) \/ (i - 1 \in 6 .. 7 /\ (i - 1) + 1 = i)
    OBVIOUS
  <2>3. QED BY <1>4, <1>5, <1>6, <2>2
<1>8. QED BY <1>7, SameByte

\* Different bytes are reduced to different bytes.
LEMMA ReduceTells ==
  ASSUME NEW c \in Byte, NEW d \in Byte, Reduce[c] = Reduce[d]
  PROVE  c = d
<1>1. PICK f : RoundedBy(f, c) /\ Reduce[c] = f[8]
  BY ReduceIs
<1>2. PICK g : RoundedBy(g, d) /\ Reduce[d] = g[8]
  BY ReduceIs
<1> DEFINE h == [n \in 0 .. 8 |-> IF f[8 - n] = g[8 - n] THEN 0 ELSE 1]
<1>3. h[0] \in {0}
  <2>1. f[8] = g[8]
    BY <1>1, <1>2, Zenon
  <2>2. 8 - 0 = 8 /\ 0 \in 0 .. 8
    OBVIOUS
  <2>3. QED BY <2>1, <2>2
<1>4. ASSUME NEW n \in 1 .. 8, h[n - 1] \in {0} PROVE h[n] \in {0}
  <2> DEFINE i == 9 - n
  <2>1. i \in 1 .. 8 /\ i - 1 = 8 - n /\ i = 8 - (n - 1) /\ n - 1 \in 0 .. 8 /\ i - 1 \in 0 .. 8
    OBVIOUS
  <2>2. f[8 - (n - 1)] = g[8 - (n - 1)]
    BY <1>4, <2>1
  <2> HIDE DEF i, h
  <2>3. f[i] = g[i]
    BY <2>1, <2>2
  <2>4. f[i] = Rounded(f[i - 1]) /\ g[i] = Rounded(g[i - 1]) /\ f[i - 1] \in Byte /\ g[i - 1] \in Byte
    BY <1>1, <1>2, <2>1 DEF RoundedBy
  <2>5. f[i - 1] = g[i - 1]
    BY <2>3, <2>4, RoundedTells
  <2>6. QED BY <2>1, <2>5 DEF h
<1>5. h[8] \in {0}
  <2> HIDE DEF h
  <2>1. Keeps(h, 8, {0}) /\ 8 \in 0 .. 8
    BY <1>3, <1>4 DEF Keeps
  <2>2. QED BY <2>1, Iterated
<1>6. f[8 - 8] = g[8 - 8]
  <2>1. 8 \in 0 .. 8
    OBVIOUS
  <2>2. QED BY <1>5, <2>1
<1>7. 8 - 8 = 0
  OBVIOUS
<1>8. QED BY <1>1, <1>2, <1>6, <1>7 DEF RoundedBy

LEMMA XorTells ==
  ASSUME NEW a \in Byte, NEW b \in Byte, NEW c \in Byte, NEW d \in Byte, Xor(a, b) = Xor(c, d)
  PROVE  /\ b = d => a = c
         /\ a = c => b = d
         /\ \A i \in 1 .. 8 : b[i] = d[i] => a[i] = c[i]
<1>1. \A i \in 1 .. 8 : a[i] \in Bit /\ b[i] \in Bit /\ c[i] \in Bit /\ d[i] \in Bit
  BY ByteBits
<1>2. \A i \in 1 .. 8 : Flip(a[i], b[i]) = Flip(c[i], d[i])
  <2>1. \A i \in 1 .. 8 : Xor(a, b)[i] = Flip(a[i], b[i]) /\ Xor(c, d)[i] = Flip(c[i], d[i])
    BY XorIs
  <2>2. QED BY <2>1
<1>3. ASSUME NEW i \in 1 .. 8
      PROVE  (b[i] = d[i] => a[i] = c[i]) /\ (a[i] = c[i] => b[i] = d[i])
  <2> DEFINE u == a[i]
             v == b[i]
             x == c[i]
             y == d[i]
  <2>1. u \in Bit /\ v \in Bit /\ x \in Bit /\ y \in Bit /\ Flip(u, v) = Flip(x, y)
    BY <1>1, <1>2
  <2> HIDE DEF u, v, x, y
  <2>2. Flip(u, v) = Flip(v, u) /\ Flip(x, y) = Flip(y, x)
    BY <2>1, Flips
  <2>3. v = y => u = x
    BY <2>1, Flips
  <2>4. u = x => v = y
    <3>1. u = x => Flip(v, u) = Flip(y, u)
      BY <2>1, <2>2
    <3>2. QED BY <2>1, <3>1, Flips
  <2>5. QED BY <2>3, <2>4 DEF u, v, x, y
<1>4. QED BY <1>3, SameByte

\* Two bytes that agree in their high digit are reduced to bytes that differ in the low one.
LEMMA LowDigitTells ==
  ASSUME NEW c \in Byte, NEW d \in Byte,
         \A i \in 1 .. 4 : c[i] = d[i], \A i \in 5 .. 8 : Reduce[c][i] = Reduce[d][i]
  PROVE  c = d
<1>1. PICK f : RoundedBy(f, c) /\ Reduce[c] = f[8]
  BY ReduceIs
<1>2. PICK g : RoundedBy(g, d) /\ Reduce[d] = g[8]
  BY ReduceIs
<1> DEFINE D(n, i) == Flip(f[n][i], g[n][i])
<1>3. \A n \in 0 .. 8, i \in 1 .. 8 : f[n][i] \in Bit /\ g[n][i] \in Bit
  BY <1>1, <1>2 DEF RoundedBy, Byte, Word
<1>4. \A n \in 0 .. 8, i \in 1 .. 8 : D(n, i) \in Bit
  BY <1>3, Flips
<1>5. ASSUME NEW n \in 0 .. 7
      PROVE  /\ D(n + 1, 8) = D(n, 1)
             /\ \A i \in 1 .. 5 : D(n + 1, i) = D(n, i + 1)
             /\ \A i \in 6 .. 7 : D(n + 1, i) = Flip(D(n, i + 1), D(n, 1))
  <2>1. n + 1 \in 1 .. 8 /\ (n + 1) - 1 = n /\ n \in 0 .. 8
    OBVIOUS
  <2>2. f[n + 1] = Rounded(f[n]) /\ g[n + 1] = Rounded(g[n])
    <3>1. f[n + 1] = Rounded(f[(n + 1) - 1]) /\ g[n + 1] = Rounded(g[(n + 1) - 1])
      BY <1>1, <1>2, <2>1 DEF RoundedBy
    <3>2. QED BY <2>1, <3>1
  <2> DEFINE u == f[n]
             v == g[n]
  <2>3. /\ Rounded(u)[8] = u[1] /\ Rounded(v)[8] = v[1]
        /\ \A i \in 1 .. 5 : Rounded(u)[i] = u[i + 1] /\ Rounded(v)[i] = v[i + 1]
        /\ \A i \in 6 .. 7 : /\ Rounded(u)[i] = Flip(u[i + 1], u[1])
                             /\ Rounded(v)[i] = Flip(v[i + 1], v[1])
    <3> HIDE DEF u, v
    <3>1. QED BY DEF Rounded
  <2>4. \A i \in 6 .. 7 : Flip(Flip(u[i + 1], u[1]), Flip(v[i + 1], v[1]))
                            = Flip(Flip(u[i + 1], v[i + 1]), Flip(u[1], v[1]))
    <3>1. \A i \in 1 .. 8 : u[i] \in Bit /\ v[i] \in Bit
      BY <1>3, <2>1
    <3>2. \A i \in 6 .. 7 : i + 1 \in 1 .. 8 /\ 1 \in 1 .. 8
      OBVIOUS
    <3>3. TAKE i \in 6 .. 7
    <3> DEFINE p == u[i + 1]
               q == u[1]
               r == v[i + 1]
               t == v[1]
    <3>4. p \in Bit /\ q \in Bit /\ r \in Bit /\ t \in Bit
      <4> HIDE DEF u, v
      <4>1. QED BY <3>1, <3>2, <3>3
    <3> HIDE DEF p, q, r, t
    <3>5. Flip(Flip(p, q), Flip(r, t)) = Flip(Flip(p, r), Flip(q, t))
      BY <3>4, Flips
    <3>6. QED BY <3>5 DEF p, q, r, t
  <2>5. QED BY <2>2, <2>3, <2>4
<1>6. \A i \in 1 .. 4 : D(0, i) = 0
  <2>1. f[0] = c /\ g[0] = d
    BY <1>1, <1>2 DEF RoundedBy
  <2>2. \A i \in 1 .. 4 : i \in 1 .. 8
    OBVIOUS
  <2>3. TAKE i \in 1 .. 4
  <2> DEFINE x == c[i]
  <2>4. x \in Bit /\ d[i] = x
    BY <2>2, <2>3, ByteBits
  <2> HIDE DEF x
  <2>5. Flip(x, x) = 0
    BY <2>4, Flips
  <2>6. QED BY <2>1, <2>4, <2>5 DEF x
<1>7. \A i \in 5 .. 8 : D(8, i) = 0
  <2>1. \A i \in 5 .. 8 : i \in 1 .. 8 /\ 8 \in 0 .. 8
    OBVIOUS
  <2>2. \A i \in 5 .. 8 : f[8][i] = g[8][i] /\ f[8][i] \in Bit
    BY <1>1, <1>2, <1>3, <2>1
  <2>3. QED BY <2>2, Flips
<1> HIDE DEF D
<1>8. \A x, y \in Bit : y = 0 => Flip(x, y) = x
  BY Flips
\* Forth: the low digit moves to the left, unchanged until it gets there.
<1>9. /\ D(4, 1) = D(0, 5) /\ D(5, 1) = D(0, 6) /\ D(6, 1) = D(0, 7) /\ D(7, 1) = D(0, 8)
  <2>1. /\ D(1, 1) = 0 /\ D(1, 2) = 0 /\ D(1, 3) = 0 /\ D(1, 4) = D(0, 5) /\ D(1, 5) = D(0, 6)
        /\ D(1, 6) = D(0, 7) /\ D(1, 7) = D(0, 8)
    <3>1. 0 + 1 = 1 /\ 1 + 1 = 2 /\ 2 + 1 = 3 /\ 3 + 1 = 4 /\ 4 + 1 = 5 /\ 5 + 1 = 6 /\ 6 + 1 = 7
          /\ 7 + 1 = 8
      OBVIOUS
    <3>2. D(1, 6) = Flip(D(0, 7), D(0, 1)) /\ D(1, 7) = Flip(D(0, 8), D(0, 1))
      BY <1>5, <3>1
    <3>3. D(0, 7) \in Bit /\ D(0, 8) \in Bit /\ D(0, 1) \in Bit /\ D(0, 1) = 0
      BY <1>4, <1>6
    <3>4. QED BY <1>5, <1>6, <1>8, <3>1, <3>2, <3>3
  <2>2. /\ D(2, 3) = D(0, 5) /\ D(2, 4) = D(0, 6) /\ D(2, 5) = D(0, 7) /\ D(2, 6) = D(0, 8)
    <3>1. 1 + 1 = 2 /\ 3 + 1 = 4 /\ 4 + 1 = 5 /\ 5 + 1 = 6 /\ 6 + 1 = 7
      OBVIOUS
    <3>2. D(2, 6) = Flip(D(1, 7), D(1, 1))
      BY <1>5, <3>1
    <3>3. D(1, 7) \in Bit /\ D(1, 1) \in Bit /\ D(1, 1) = 0
      BY <1>4, <2>1
    <3>4. QED BY <1>5, <1>8, <2>1, <3>1, <3>2, <3>3
  <2>3. /\ D(3, 2) = D(0, 5) /\ D(3, 3) = D(0, 6) /\ D(3, 4) = D(0, 7) /\ D(3, 5) = D(0, 8)
    <3>1. 2 + 1 = 3 /\ 3 + 1 = 4 /\ 4 + 1 = 5 /\ 5 + 1 = 6
      OBVIOUS
    <3>2. QED BY <1>5, <2>2, <3>1
  <2>4. /\ D(4, 1) = D(0, 5) /\ D(4, 2) = D(0, 6) /\ D(4, 3) = D(0, 7) /\ D(4, 4) = D(0, 8)
    <3>1. 3 + 1 = 4 /\ 1 + 1 = 2 /\ 2 + 1 = 3 /\ 4 + 1 = 5
      OBVIOUS
    <3>2. QED BY <1>5, <2>3, <3>1
  <2>5. /\ D(5, 1) = D(0, 6) /\ D(5, 2) = D(0, 7) /\ D(5, 3) = D(0, 8)
    <3>1. 4 + 1 = 5 /\ 1 + 1 = 2 /\ 2 + 1 = 3 /\ 3 + 1 = 4
      OBVIOUS
    <3>2. QED BY <1>5, <2>4, <3>1
  <2>6. /\ D(6, 1) = D(0, 7) /\ D(6, 2) = D(0, 8)
    <3>1. 5 + 1 = 6 /\ 1 + 1 = 2 /\ 2 + 1 = 3
      OBVIOUS
    <3>2. QED BY <1>5, <2>5, <3>1
  <2>7. D(7, 1) = D(0, 8)
    <3>1. 6 + 1 = 7 /\ 1 + 1 = 2
      OBVIOUS
    <3>2. QED BY <1>5, <2>6, <3>1
  <2>8. QED BY <2>4, <2>5, <2>6, <2>7
\* Back: what leaves on the left comes in on the right.
<1>10. D(7, 1) = 0 /\ D(7, 6) = 0 /\ D(7, 7) = 0 /\ D(7, 8) = 0
  <2>1. 7 + 1 = 8 /\ 5 + 1 = 6 /\ 6 + 1 = 7
    OBVIOUS
  <2>2. D(8, 8) = D(7, 1) /\ D(8, 5) = D(7, 6)
    BY <1>5, <2>1
  <2>3. D(8, 6) = Flip(D(7, 7), D(7, 1)) /\ D(8, 7) = Flip(D(7, 8), D(7, 1))
    BY <1>5, <2>1
  <2>4. D(7, 7) \in Bit /\ D(7, 8) \in Bit /\ D(7, 1) \in Bit
    BY <1>4
  <2>5. QED BY <1>7, <1>8, <2>2, <2>3, <2>4
<1>11. D(6, 1) = 0 /\ D(6, 7) = 0 /\ D(6, 8) = 0
  <2>1. 6 + 1 = 7 /\ 7 + 1 = 8
    OBVIOUS
  <2>2. D(7, 8) = D(6, 1) /\ D(7, 6) = Flip(D(6, 7), D(6, 1)) /\ D(7, 7) = Flip(D(6, 8), D(6, 1))
    BY <1>5, <2>1
  <2>3. D(6, 7) \in Bit /\ D(6, 8) \in Bit /\ D(6, 1) \in Bit
    BY <1>4
  <2>4. QED BY <1>8, <1>10, <2>2, <2>3
<1>12. D(5, 1) = 0 /\ D(5, 8) = 0
  <2>1. 5 + 1 = 6 /\ 7 + 1 = 8
    OBVIOUS
  <2>2. D(6, 8) = D(5, 1) /\ D(6, 7) = Flip(D(5, 8), D(5, 1))
    BY <1>5, <2>1
  <2>3. D(5, 8) \in Bit /\ D(5, 1) \in Bit
    BY <1>4
  <2>4. QED BY <1>8, <1>11, <2>2, <2>3
<1>13. D(4, 1) = 0
  <2>1. 4 + 1 = 5
    OBVIOUS
  <2>2. D(5, 8) = D(4, 1)
    BY <1>5, <2>1
  <2>3. QED BY <1>12, <2>2
<1>14. \A i \in 1 .. 8 : D(0, i) = 0
  <2>1. D(0, 5) = 0 /\ D(0, 6) = 0 /\ D(0, 7) = 0 /\ D(0, 8) = 0
    BY <1>9, <1>10, <1>11, <1>12, <1>13
  <2>2. \A i \in 1 .. 8 : i \in 1 .. 4 \/ i = 5 \/ i = 6 \/ i = 7 \/ i = 8
    OBVIOUS
  <2>3. QED BY <1>6, <2>1, <2>2
<1>15. \A i \in 1 .. 8 : c[i] = d[i]
  <2>1. TAKE i \in 1 .. 8
  <2>2. f[0] = c /\ g[0] = d /\ 0 \in 0 .. 8
    BY <1>1, <1>2 DEF RoundedBy
  <2>3. Flip(c[i], d[i]) = 0
    BY <1>14, <2>2 DEF D
  <2>4. QED BY <2>3, ByteBits, Flips
<1>16. QED BY <1>15, SameByte

LEMMA ReducedByte ==
  ASSUME NEW c \in Byte
  PROVE  Reduce[c] \in Byte
<1>1. PICK f : RoundedBy(f, c) /\ Reduce[c] = f[8]
  BY ReduceIs
<1>2. 8 \in 0 .. 8
  OBVIOUS
<1>3. QED BY <1>1, <1>2 DEF RoundedBy

\* Where b and d agree, a and c do.
Follows(a, b, c, d) == \A i \in 1 .. 8 : b[i] = d[i] => a[i] = c[i]

LEMMA BitTells ==
  ASSUME NEW a \in Byte, NEW b \in Byte, NEW c \in Byte, NEW d \in Byte, Xor(a, b) = Xor(c, d)
  PROVE  Follows(a, b, c, d)
<1>1. SUFFICES ASSUME NEW i \in 1 .. 8, b[i] = d[i] PROVE a[i] = c[i]
  BY DEF Follows
<1> DEFINE u == a[i]
           v == b[i]
           w == c[i]
<1>2. u \in Bit /\ v \in Bit /\ w \in Bit
  BY ByteBits
<1>3. Flip(u, v) = Flip(w, v)
  <2>1. Xor(a, b)[i] = Flip(a[i], b[i]) /\ Xor(c, d)[i] = Flip(c[i], d[i])
    BY XorIs
  <2>2. QED BY <1>1, <2>1
<1> HIDE DEF u, v, w
<1>4. u = w
  BY <1>2, <1>3, Flips
<1>5. QED BY <1>4 DEF u, w

\* As long as two lists agree, so do their checksums.
LEMMA Agreeing ==
  ASSUME NEW bytes \in Seq(Byte), NEW other \in Seq(Byte), NEW f, NEW g,
         CheckedBy(f, bytes), CheckedBy(g, other),
         NEW n \in Nat, n <= Len(bytes), n <= Len(other),
         \A i \in 1 .. n : bytes[i] = other[i]
  PROVE  f[n] = g[n]
<1> DEFINE h == [i \in 0 .. n |-> IF f[i] = g[i] THEN 0 ELSE 1]
<1>1. h[0] \in {0}
  BY DEF CheckedBy
<1>2. ASSUME NEW i \in 1 .. n, h[i - 1] \in {0} PROVE h[i] \in {0}
  <2>1. i - 1 \in 0 .. n /\ i \in 0 .. n /\ i \in 1 .. Len(bytes) /\ i \in 1 .. Len(other)
    OBVIOUS
  <2>2. f[i - 1] = g[i - 1]
    BY <1>2, <2>1
  <2> HIDE DEF h
  <2>3. f[i] = Reduce[Xor(f[i - 1], bytes[i])] /\ g[i] = Reduce[Xor(g[i - 1], other[i])]
    BY <2>1 DEF CheckedBy
  <2>4. f[i] = g[i]
    BY <2>2, <2>3
  <2>5. QED BY <2>1, <2>4 DEF h
<1>3. h[n] \in {0}
  <2> HIDE DEF h
  <2>1. Keeps(h, n, {0}) /\ n \in 0 .. n
    BY <1>1, <1>2 DEF Keeps
  <2>2. QED BY <2>1, Iterated
<1>4. n \in 0 .. n
  OBVIOUS
<1>5. QED BY <1>3, <1>4

\* Once two checksums differ, the same bytes keep them different.
LEMMA Differing ==
  ASSUME NEW bytes \in Seq(Byte), NEW other \in Seq(Byte), NEW f, NEW g,
         CheckedBy(f, bytes), CheckedBy(g, other), Len(other) = Len(bytes),
         NEW m \in Nat, m <= Len(bytes), f[m] # g[m],
         \A i \in m + 1 .. Len(bytes) : bytes[i] = other[i]
  PROVE  f[Len(bytes)] # g[Len(bytes)]
<1> DEFINE L == Len(bytes)
           h == [n \in 0 .. L - m |-> IF f[m + n] = g[m + n] THEN 1 ELSE 0]
<1>1. L \in Nat /\ L - m \in Nat /\ m + (L - m) = L /\ m + 0 = m
  OBVIOUS
<1>2. h[0] \in {0}
  BY <1>1
<1>3. ASSUME NEW n \in 1 .. L - m, h[n - 1] \in {0} PROVE h[n] \in {0}
  <2> DEFINE i == m + n
  <2>1. i \in 1 .. L /\ i \in m + 1 .. L /\ i - 1 \in 0 .. L /\ i - 1 = m + (n - 1)
        /\ n - 1 \in 0 .. L - m /\ n \in 0 .. L - m
    OBVIOUS
  <2>2. f[m + (n - 1)] # g[m + (n - 1)]
    BY <1>3, <2>1
  <2> HIDE DEF h, i
  <2>3. f[i - 1] # g[i - 1]
    BY <2>1, <2>2
  <2> DEFINE b == bytes[i]
             u == f[i - 1]
             v == g[i - 1]
  <2>4. u \in Byte /\ v \in Byte /\ b \in Byte
    <3>1. f \in [0 .. L -> Byte] /\ g \in [0 .. L -> Byte]
      BY DEF CheckedBy
    <3>2. b \in Byte
      BY <2>1
    <3> HIDE DEF L
    <3>3. QED BY <2>1, <3>1, <3>2
  <2>5. f[i] = Reduce[Xor(u, b)] /\ g[i] = Reduce[Xor(v, b)]
    BY <2>1 DEF CheckedBy
  <2>6. u # v
    BY <2>3
  <2> HIDE DEF b, u, v
  <2>7. Xor(u, b) \in Byte /\ Xor(v, b) \in Byte
    BY <2>4, XorIs
  <2>8. Xor(u, b) # Xor(v, b)
    BY <2>4, <2>6, XorTells
  <2>9. f[i] # g[i]
    BY <2>5, <2>7, <2>8, ReduceTells
  <2>10. QED BY <2>1, <2>9 DEF h, i
<1>4. h[L - m] \in {0}
  <2> HIDE DEF h, L
  <2>1. Keeps(h, L - m, {0}) /\ L - m \in 0 .. L - m
    BY <1>1, <1>2, <1>3 DEF Keeps
  <2>2. QED BY <2>1, Iterated
<1>5. L - m \in 0 .. L - m
  BY <1>1
<1>6. f[m + (L - m)] # g[m + (L - m)]
  BY <1>4, <1>5
<1>7. QED BY <1>1, <1>6

\* A byte that was changed alone is found.
LEMMA OneByteTells ==
  ASSUME NEW bytes \in Seq(Byte), NEW other \in Seq(Byte), Len(other) = Len(bytes),
         NEW k \in 1 .. Len(bytes), bytes[k] # other[k],
         \A i \in 1 .. Len(bytes) : i # k => bytes[i] = other[i]
  PROVE  Crc8(bytes) # Crc8(other)
<1>1. PICK f : CheckedBy(f, bytes) /\ Crc8(bytes) = f[Len(bytes)]
  BY CrcIs
<1>2. PICK g : CheckedBy(g, other) /\ Crc8(other) = g[Len(other)]
  BY CrcIs
<1>3. k - 1 \in Nat /\ k - 1 <= Len(bytes) /\ k \in Nat /\ k <= Len(bytes) /\ k - 1 \in 0 .. Len(bytes)
  OBVIOUS
<1>4. f[k - 1] = g[k - 1]
  <2>1. \A i \in 1 .. k - 1 : bytes[i] = other[i]
    OBVIOUS
  <2>2. QED BY <1>1, <1>2, <1>3, <2>1, Agreeing
<1>5. f[k] # g[k]
  <2> DEFINE b == bytes[k]
             d == other[k]
             u == f[k - 1]
  <2>1. u \in Byte /\ b \in Byte /\ d \in Byte
    BY <1>1, <1>3 DEF CheckedBy
  <2>2. f[k] = Reduce[Xor(u, b)] /\ g[k] = Reduce[Xor(u, d)]
    BY <1>1, <1>2, <1>4 DEF CheckedBy
  <2>3. b # d
    OBVIOUS
  <2> HIDE DEF b, d, u
  <2>4. Xor(u, b) \in Byte /\ Xor(u, d) \in Byte
    BY <2>1, XorIs
  <2>5. Xor(u, b) # Xor(u, d)
    BY <2>1, <2>3, XorTells
  <2>6. QED BY <2>2, <2>4, <2>5, ReduceTells
<1>6. \A i \in k + 1 .. Len(bytes) : bytes[i] = other[i]
  OBVIOUS
<1>7. f[Len(bytes)] # g[Len(bytes)]
  BY <1>1, <1>2, <1>3, <1>5, <1>6, Differing
<1>8. QED BY <1>1, <1>2, <1>7

\* So are two neighbours of which the low and the high digit were changed.
LEMMA TwoDigitsTell ==
  ASSUME NEW bytes \in Seq(Byte), NEW other \in Seq(Byte), Len(other) = Len(bytes),
         NEW k \in 1 .. Len(bytes), k + 1 <= Len(bytes), bytes[k] # other[k],
         \A j \in 1 .. 4 : bytes[k][j] = other[k][j],
         \A j \in 5 .. 8 : bytes[k + 1][j] = other[k + 1][j],
         \A i \in 1 .. Len(bytes) : i \notin {k, k + 1} => bytes[i] = other[i]
  PROVE  Crc8(bytes) # Crc8(other)
<1>1. PICK f : CheckedBy(f, bytes) /\ Crc8(bytes) = f[Len(bytes)]
  BY CrcIs
<1>2. PICK g : CheckedBy(g, other) /\ Crc8(other) = g[Len(other)]
  BY CrcIs
<1>3. /\ k - 1 \in Nat /\ k - 1 <= Len(bytes) /\ k - 1 \in 0 .. Len(bytes) /\ k \in 0 .. Len(bytes)
      /\ k + 1 \in Nat /\ k + 1 \in 1 .. Len(bytes) /\ (k + 1) - 1 = k
  OBVIOUS
<1>4. f[k - 1] = g[k - 1]
  <2>1. \A i \in 1 .. k - 1 : bytes[i] = other[i]
    OBVIOUS
  <2>2. QED BY <1>1, <1>2, <1>3, <2>1, Agreeing
<1>5. f[k + 1] # g[k + 1]
  <2>1. SUFFICES ASSUME f[k + 1] = g[k + 1] PROVE FALSE
    OBVIOUS
  <2> DEFINE b == bytes[k]
             d == other[k]
             b1 == bytes[k + 1]
             d1 == other[k + 1]
             s == f[k - 1]
             u == f[k]
             v == g[k]
  <2>2. s \in Byte /\ b \in Byte /\ d \in Byte /\ b1 \in Byte /\ d1 \in Byte /\ u \in Byte /\ v \in Byte
    <3>1. s \in Byte /\ u \in Byte
      BY <1>1, <1>3 DEF CheckedBy
    <3>2. v \in Byte
      BY <1>2, <1>3 DEF CheckedBy
    <3>3. b \in Byte /\ d \in Byte /\ b1 \in Byte /\ d1 \in Byte
      BY <1>3
    <3>4. QED BY <3>1, <3>2, <3>3
  <2>3. u = Reduce[Xor(s, b)] /\ v = Reduce[Xor(s, d)]
    BY <1>1, <1>2, <1>4 DEF CheckedBy
  <2>4. f[k + 1] = Reduce[Xor(u, b1)] /\ g[k + 1] = Reduce[Xor(v, d1)]
    <3>1. k + 1 \in 1 .. Len(other)
      BY <1>3
    <3>2. f[k + 1] = Reduce[Xor(f[(k + 1) - 1], b1)]
      BY <1>1, <1>3 DEF CheckedBy
    <3>3. g[k + 1] = Reduce[Xor(g[(k + 1) - 1], d1)]
      BY <1>2, <3>1 DEF CheckedBy
    <3>4. QED BY <1>3, <3>2, <3>3
  <2>5. b # d /\ \A j \in 1 .. 4 : b[j] = d[j]
    OBVIOUS
  <2>6. \A j \in 5 .. 8 : b1[j] = d1[j] /\ j \in 1 .. 8
    OBVIOUS
  <2> HIDE DEF b, d, b1, d1, s, u, v
  <2>7. Xor(u, b1) = Xor(v, d1)
    <3>1. Xor(u, b1) \in Byte /\ Xor(v, d1) \in Byte
      BY <2>2, XorIs
    <3>2. QED BY <2>1, <2>4, <3>1, ReduceTells
  <2>8. Follows(u, b1, v, d1)
    BY <2>2, <2>7, BitTells
  <2>9. \A j \in 5 .. 8 : u[j] = v[j]
    BY <2>6, <2>8 DEF Follows
  <2> DEFINE x == Xor(s, b)
             y == Xor(s, d)
  <2>10. x \in Byte /\ y \in Byte /\ \A j \in 1 .. 4 : x[j] = y[j]
    <3>1. x \in Byte /\ \A j \in 1 .. 8 : x[j] = Flip(s[j], b[j])
      BY <2>2, XorIs
    <3>2. y \in Byte /\ \A j \in 1 .. 8 : y[j] = Flip(s[j], d[j])
      BY <2>2, XorIs
    <3>3. \A j \in 1 .. 4 : j \in 1 .. 8
      OBVIOUS
    <3> HIDE DEF x, y
    <3>4. QED BY <2>5, <3>1, <3>2, <3>3
  <2>11. x # y
    BY <2>2, <2>5, XorTells
  <2>12. \A j \in 5 .. 8 : Reduce[x][j] = Reduce[y][j]
    BY <2>3, <2>9
  <2> HIDE DEF x, y
  <2>13. x = y
    BY <2>10, <2>12, LowDigitTells
  <2>14. QED BY <2>11, <2>13
<1>6. \A i \in (k + 1) + 1 .. Len(bytes) : bytes[i] = other[i]
  <2>1. \A i \in (k + 1) + 1 .. Len(bytes) : i \in 1 .. Len(bytes) /\ i \notin {k, k + 1}
    OBVIOUS
  <2>2. QED BY <2>1
<1>7. f[Len(bytes)] # g[Len(bytes)]
  BY <1>1, <1>2, <1>3, <1>5, <1>6, Differing
<1>8. QED BY <1>1, <1>2, <1>7

\* Bytes that end in the checksum of the others have the checksum of nothing but zeros.
LEMMA CheckedIsZero ==
  ASSUME NEW bytes \in Seq(Byte), NEW crc \in Byte, Crc8(bytes) = crc
  PROVE  Crc8(Append(bytes, crc)) = Reduce[Zeros(8)]
<1> DEFINE all == Append(bytes, crc)
           L == Len(bytes)
<1>1. all \in Seq(Byte) /\ Len(all) = L + 1 /\ (\A i \in 1 .. L : all[i] = bytes[i]) /\ all[L + 1] = crc
  BY Appended
<1> HIDE DEF all
<1>2. PICK f : CheckedBy(f, all) /\ Crc8(all) = f[Len(all)]
  BY <1>1, CrcIs
<1>3. PICK g : CheckedBy(g, bytes) /\ Crc8(bytes) = g[L]
  BY CrcIs
<1>4. L \in Nat /\ L <= Len(all) /\ L <= L /\ (L + 1) - 1 = L /\ L + 1 \in 1 .. Len(all)
  BY <1>1
<1>5. f[L] = g[L]
  BY <1>1, <1>2, <1>3, <1>4, Agreeing
<1>6. f[L + 1] = Reduce[Xor(crc, crc)]
  <2>1. f[L + 1] = Reduce[Xor(f[(L + 1) - 1], all[L + 1])]
    BY <1>2, <1>4 DEF CheckedBy
  <2>2. QED BY <1>1, <1>3, <1>4, <1>5, <2>1
<1>7. Xor(crc, crc) = Zeros(8)
  <2>1. Zeros(8) \in Byte /\ \A i \in 1 .. 8 : Zeros(8)[i] = 0
    BY DEF Zeros, Byte, Word, Bit
  <2>2. Xor(crc, crc) \in Byte /\ \A i \in 1 .. 8 : Xor(crc, crc)[i] = Flip(crc[i], crc[i])
    BY XorIs
  <2>3. \A i \in 1 .. 8 : Flip(crc[i], crc[i]) = 0
    BY ByteBits, Flips
  <2>4. QED BY <2>1, <2>2, <2>3, SameByte
<1>8. QED BY <1>1, <1>2, <1>6, <1>7 DEF all

-----------------------------------------------------------------------------
(* A mistyped code is not decoded.                                          *)

BytesOf(hex) == Pieces(Bits(hex, 4), 8)

LEMMA BytesAre ==
  ASSUME NEW hex \in Seq(Word(4)), NEW M \in Nat, Len(hex) = 2 * M
  PROVE  /\ BytesOf(hex) \in Seq(Byte) /\ Len(BytesOf(hex)) = M
         /\ \A k \in 1 .. M : \A j \in 1 .. 4 :
              BytesOf(hex)[k][j] = hex[2 * k - 1][j] /\ BytesOf(hex)[k][j + 4] = hex[2 * k][j]
<1> DEFINE bits == Bits(hex, 4)
           bytes == Pieces(bits, 8)
<1>1. 4 \in {4, 8} /\ 8 \in {4, 8}
  OBVIOUS
<1>2. /\ bits \in Seq(Bit) /\ Len(bits) = 8 * M
      /\ \A i \in 1 .. 2 * M, j \in 1 .. 4 : bits[4 * (i - 1) + j] = hex[i][j]
  <2>1. /\ bits \in Seq(Bit) /\ Len(bits) = 4 * Len(hex)
        /\ \A i \in 1 .. Len(hex), j \in 1 .. 4 : bits[4 * (i - 1) + j] = hex[i][j]
    BY <1>1, BitsAre
  <2> HIDE DEF bits
  <2>2. 4 * Len(hex) = 8 * M
    OBVIOUS
  <2>3. QED BY <2>1, <2>2
<1> HIDE DEF bits
<1>3. /\ bytes \in Seq(Word(8)) /\ Len(bytes) = M
      /\ \A j \in 1 .. 8 * M : Bits(bytes, 8)[j] = bits[j]
  <2>1. \A m \in Nat : (8 * m + 8 - 1) \div 8 = m
    OBVIOUS
  <2>2. (Len(bits) + 8 - 1) \div 8 = M
    BY <1>2, <2>1
  <2>3. /\ bytes \in Seq(Word(8)) /\ Len(bytes) = (Len(bits) + 8 - 1) \div 8
        /\ \A j \in 1 .. Len(bits) : Bits(bytes, 8)[j] = bits[j]
    BY <1>1, <1>2, PiecesAre
  <2> HIDE DEF bytes
  <2>4. QED BY <1>2, <2>2, <2>3
<1> HIDE DEF bytes
<1>4. \A k \in 1 .. M, j \in 1 .. 8 :
        8 * (k - 1) + j \in 1 .. 8 * M /\ bits[8 * (k - 1) + j] = bytes[k][j]
  <2>1. \A k \in 1 .. Len(bytes), j \in 1 .. 8 :
          /\ 8 * (k - 1) + j \in 1 .. 8 * Len(bytes)
          /\ Bits(bytes, 8)[8 * (k - 1) + j] = bytes[k][j]
    BY <1>1, <1>3, BitsAre
  <2>2. QED BY <1>3, <2>1
<1>5. ASSUME NEW k \in 1 .. M, NEW j \in 1 .. 4
      PROVE  bytes[k][j] = hex[2 * k - 1][j] /\ bytes[k][j + 4] = hex[2 * k][j]
  <2>1. /\ 2 * k - 1 \in 1 .. 2 * M /\ 2 * k \in 1 .. 2 * M /\ j \in 1 .. 8 /\ j + 4 \in 1 .. 8
        /\ 8 * (k - 1) + j = 4 * ((2 * k - 1) - 1) + j
        /\ 8 * (k - 1) + (j + 4) = 4 * (2 * k - 1) + j
    OBVIOUS
  <2>2. bytes[k][j] = hex[2 * k - 1][j]
    <3>1. bits[8 * (k - 1) + j] = bytes[k][j]
      BY <1>4, <2>1
    <3>2. bits[4 * ((2 * k - 1) - 1) + j] = hex[2 * k - 1][j]
      BY <1>2, <2>1
    <3>3. QED BY <2>1, <3>1, <3>2
  <2>3. bytes[k][j + 4] = hex[2 * k][j]
    <3>1. bits[8 * (k - 1) + (j + 4)] = bytes[k][j + 4]
      BY <1>4, <2>1
    <3>2. bits[4 * (2 * k - 1) + j] = hex[2 * k][j]
      BY <1>2, <2>1
    <3>3. QED BY <2>1, <3>1, <3>2
  <2>4. QED BY <2>2, <2>3
<1>6. QED BY <1>3, <1>5 DEF BytesOf, Byte, bits, bytes

LEMMA SameDigit ==
  ASSUME NEW c \in Word(4), NEW d \in Word(4), \A j \in 1 .. 4 : c[j] = d[j]
  PROVE  c = d
BY DEF Word

\* Bytes are the same where their digits are.
SameAt(hex, typo, k) ==
  LET b == BytesOf(hex)[k]
      d == BytesOf(typo)[k]
  IN  /\ hex[2 * k - 1] = typo[2 * k - 1] <=> \A j \in 1 .. 4 : b[j] = d[j]
      /\ hex[2 * k] = typo[2 * k] <=> \A j \in 5 .. 8 : b[j] = d[j]
      /\ b = d <=> hex[2 * k - 1] = typo[2 * k - 1] /\ hex[2 * k] = typo[2 * k]

LEMMA ByteSame ==
  ASSUME NEW hex \in Seq(Word(4)), NEW typo \in Seq(Word(4)), NEW M \in Nat,
         Len(hex) = 2 * M, Len(typo) = 2 * M, NEW k \in 1 .. M
  PROVE  SameAt(hex, typo, k)
<1> DEFINE b == BytesOf(hex)[k]
           d == BytesOf(typo)[k]
           h1 == hex[2 * k - 1]
           h2 == hex[2 * k]
           t1 == typo[2 * k - 1]
           t2 == typo[2 * k]
<1>1. b \in Byte /\ d \in Byte
  <2>1. BytesOf(hex) \in Seq(Byte) /\ Len(BytesOf(hex)) = M
    BY BytesAre
  <2>2. BytesOf(typo) \in Seq(Byte) /\ Len(BytesOf(typo)) = M
    BY BytesAre
  <2>3. QED BY <2>1, <2>2
<1>2. \A j \in 1 .. 4 : b[j] = h1[j] /\ b[j + 4] = h2[j] /\ d[j] = t1[j] /\ d[j + 4] = t2[j]
  <2>1. \A j \in 1 .. 4 : b[j] = h1[j] /\ b[j + 4] = h2[j]
    BY BytesAre
  <2>2. \A j \in 1 .. 4 : d[j] = t1[j] /\ d[j + 4] = t2[j]
    BY BytesAre
  <2>3. QED BY <2>1, <2>2
<1>3. h1 \in Word(4) /\ h2 \in Word(4) /\ t1 \in Word(4) /\ t2 \in Word(4)
  <2>1. 2 * k - 1 \in 1 .. 2 * M /\ 2 * k \in 1 .. 2 * M
    OBVIOUS
  <2>2. QED BY <2>1
<1>4. QED
  <2> HIDE DEF b, d, h1, h2, t1, t2
  <2>1. h1 = t1 <=> \A j \in 1 .. 4 : h1[j] = t1[j]
    BY <1>3, SameDigit
  <2>2. h2 = t2 <=> \A j \in 1 .. 4 : h2[j] = t2[j]
    BY <1>3, SameDigit
  <2>3. h1 = t1 <=> \A j \in 1 .. 4 : b[j] = d[j]
    BY <1>2, <2>1
  <2>4. (\A j \in 1 .. 4 : h2[j] = t2[j]) <=> \A j \in 5 .. 8 : b[j] = d[j]
    <3>1. \A j \in 1 .. 4 : j + 4 \in 5 .. 8
      OBVIOUS
    <3>2. \A j \in 5 .. 8 : j - 4 \in 1 .. 4 /\ (j - 4) + 4 = j
      OBVIOUS
    <3>3. ASSUME \A j \in 1 .. 4 : h2[j] = t2[j], NEW j \in 5 .. 8 PROVE b[j] = d[j]
      BY <1>2, <3>2, <3>3
    <3>4. ASSUME \A j \in 5 .. 8 : b[j] = d[j], NEW j \in 1 .. 4 PROVE h2[j] = t2[j]
      BY <1>2, <3>1, <3>4
    <3>5. QED BY <3>3, <3>4
  <2>5. h2 = t2 <=> \A j \in 5 .. 8 : b[j] = d[j]
    BY <2>2, <2>4
  <2>6. b = d <=> h1 = t1 /\ h2 = t2
    <3>1. \A j \in 1 .. 8 : j \in 1 .. 4 \/ j \in 5 .. 8
      OBVIOUS
    <3>2. ASSUME h1 = t1, h2 = t2 PROVE b = d
      <4>1. \A j \in 1 .. 8 : b[j] = d[j]
        BY <2>3, <2>5, <3>1, <3>2
      <4>2. QED BY <1>1, <4>1, SameByte
    <3>3. QED BY <2>3, <2>5, <3>2
  <2>7. QED BY <2>3, <2>5, <2>6 DEF SameAt, b, d, h1, h2, t1, t2

\* Codes that differ in one digit, or in two neighbours, differ in their checksum.
LEMMA NeighboursTell ==
  ASSUME NEW hex \in Seq(Word(4)), NEW typo \in Seq(Word(4)), NEW M \in Nat,
         Len(hex) = 2 * M, Len(typo) = 2 * M, typo # hex, NEW i \in 1 .. 2 * M,
         \A j \in 1 .. 2 * M : j \notin {i, i + 1} => hex[j] = typo[j]
  PROVE  Crc8(BytesOf(hex)) # Crc8(BytesOf(typo))
<1> DEFINE bytes == BytesOf(hex)
           other == BytesOf(typo)
<1>1. bytes \in Seq(Byte) /\ other \in Seq(Byte) /\ Len(bytes) = M /\ Len(other) = M
  <2>1. bytes \in Seq(Byte) /\ Len(bytes) = M
    BY BytesAre
  <2>2. other \in Seq(Byte) /\ Len(other) = M
    BY BytesAre
  <2>3. QED BY <2>1, <2>2
<1>2. \A k \in 1 .. M : SameAt(hex, typo, k)
  BY ByteSame
<1>3. PICK p \in 1 .. 2 * M : hex[p] # typo[p]
  <2>1. hex = [j \in 1 .. 2 * M |-> hex[j]] /\ typo = [j \in 1 .. 2 * M |-> typo[j]]
    OBVIOUS
  <2>2. QED BY <2>1
<1>4. p = i \/ p = i + 1
  BY <1>3
<1>5. \A k \in 1 .. M :
        /\ bytes[k] = other[k] <=> hex[2 * k - 1] = typo[2 * k - 1] /\ hex[2 * k] = typo[2 * k]
        /\ hex[2 * k - 1] = typo[2 * k - 1] => \A j \in 1 .. 4 : bytes[k][j] = other[k][j]
        /\ hex[2 * k] = typo[2 * k] => \A j \in 5 .. 8 : bytes[k][j] = other[k][j]
  BY <1>2 DEF SameAt
<1> HIDE DEF bytes, other
<1>6. \A k \in 1 .. M : 2 * k - 1 \in 1 .. 2 * M /\ 2 * k \in 1 .. 2 * M
  OBVIOUS
<1>7. PICK k \in 1 .. M : i = 2 * k - 1 \/ i = 2 * k
  <2> DEFINE q == (i + 1) \div 2
  <2>1. q \in 1 .. M /\ (i = 2 * q - 1 \/ i = 2 * q)
    OBVIOUS
  <2>2. QED BY <2>1
<1>8. ASSUME NEW n \in 1 .. M, n \notin {k, k + 1} PROVE bytes[n] = other[n]
  <2>1. 2 * n - 1 \notin {i, i + 1} /\ 2 * n \notin {i, i + 1}
    BY <1>7, <1>8
  <2>2. hex[2 * n - 1] = typo[2 * n - 1] /\ hex[2 * n] = typo[2 * n]
    BY <1>6, <2>1
  <2>3. QED BY <1>5, <2>2
\* The only byte that differs.
<1>9. ASSUME NEW m \in 1 .. M, bytes[m] # other[m], \A n \in 1 .. M : n # m => bytes[n] = other[n]
      PROVE  Crc8(bytes) # Crc8(other)
  <2>1. m \in 1 .. Len(bytes) /\ Len(other) = Len(bytes)
    BY <1>1
  <2>2. \A n \in 1 .. Len(bytes) : n # m => bytes[n] = other[n]
    BY <1>1, <1>9
  <2>3. QED BY <1>1, <1>9, <2>1, <2>2, OneByteTells
<1>10. CASE i = 2 * k - 1
  <2>1. bytes[k] # other[k]
    <3>1. p = 2 * k - 1 \/ p = 2 * k
      BY <1>4, <1>10
    <3>2. QED BY <1>3, <1>5, <3>1
  <2>2. ASSUME NEW n \in 1 .. M, n # k PROVE bytes[n] = other[n]
    <3>1. 2 * n - 1 \notin {i, i + 1} /\ 2 * n \notin {i, i + 1}
      BY <1>10, <2>2
    <3>2. hex[2 * n - 1] = typo[2 * n - 1] /\ hex[2 * n] = typo[2 * n]
      BY <1>6, <3>1
    <3>3. QED BY <1>5, <3>2
  <2>3. Crc8(bytes) # Crc8(other)
    BY <1>9, <2>1, <2>2
  <2>4. QED BY <2>3 DEF bytes, other
<1>11. CASE i = 2 * k
  <2>1. CASE bytes[k] = other[k]
    <3>1. p = i + 1
      BY <1>3, <1>4, <1>5, <1>11, <2>1
    <3>2. k + 1 \in 1 .. M /\ p = 2 * (k + 1) - 1
      BY <1>11, <3>1
    <3>3. bytes[k + 1] # other[k + 1]
      BY <1>3, <1>5, <3>2
    <3>4. \A n \in 1 .. M : n # k + 1 => bytes[n] = other[n]
      BY <1>8, <2>1
    <3>5. QED BY <1>9, <3>2, <3>3, <3>4 DEF bytes, other
  <2>2. CASE bytes[k] # other[k] /\ k = M
    <3>1. \A n \in 1 .. M : n # k => n \notin {k, k + 1}
      BY <2>2
    <3>2. \A n \in 1 .. M : n # k => bytes[n] = other[n]
      BY <1>8, <3>1
    <3>3. QED BY <1>9, <2>2, <3>2 DEF bytes, other
  <2>3. CASE bytes[k] # other[k] /\ k # M
    <3>1. k + 1 \in 1 .. M /\ k + 1 <= M
      BY <2>3
    <3>2. \A j \in 1 .. 4 : bytes[k][j] = other[k][j]
      <4>1. 2 * k - 1 \notin {i, i + 1}
        BY <1>11
      <4>2. hex[2 * k - 1] = typo[2 * k - 1]
        BY <1>6, <4>1
      <4>3. QED BY <1>5, <4>2
    <3>3. \A j \in 5 .. 8 : bytes[k + 1][j] = other[k + 1][j]
      <4>1. 2 * (k + 1) \notin {i, i + 1}
        BY <1>11
      <4>2. hex[2 * (k + 1)] = typo[2 * (k + 1)]
        BY <1>6, <3>1, <4>1
      <4>3. QED BY <1>5, <3>1, <4>2
    <3>4. \A n \in 1 .. Len(bytes) : n \notin {k, k + 1} => bytes[n] = other[n]
      BY <1>1, <1>8
    <3>5. k \in 1 .. Len(bytes) /\ k + 1 <= Len(bytes) /\ Len(other) = Len(bytes)
      BY <1>1, <3>1
    <3>6. Crc8(bytes) # Crc8(other)
      BY <1>1, <2>3, <3>2, <3>3, <3>4, <3>5, TwoDigitsTell
    <3>7. QED BY <3>6 DEF bytes, other
  <2>4. QED BY <2>1, <2>2, <2>3
<1>12. QED BY <1>7, <1>10, <1>11

\* A list of bytes is all but the last and the last.
LEMMA LastByte ==
  ASSUME NEW bytes \in Seq(Byte), Len(bytes) >= 1
  PROVE  /\ Front(bytes) \in Seq(Byte) /\ Last(bytes) \in Byte
         /\ Append(Front(bytes), Last(bytes)) = bytes
<1> DEFINE L == Len(bytes)
           front == Front(bytes)
           last == Last(bytes)
<1>1. L \in Nat /\ L \in 1 .. L /\ L - 1 \in Nat /\ (L - 1) + 1 = L
  OBVIOUS
<1>2. last \in Byte /\ last = bytes[L]
  BY <1>1 DEF Last
<1>3. front \in Seq(Byte) /\ Len(front) = L - 1 /\ \A i \in 1 .. L - 1 : front[i] = bytes[i]
  <2>1. front = SubSeq(bytes, 1, L - 1)
    BY DEF Front
  <2>2. \A i \in 1 .. L - 1 : bytes[i] \in Byte
    OBVIOUS
  <2> HIDE DEF front, L
  <2>3. /\ SubSeq(bytes, 1, L - 1) \in Seq(Byte)
        /\ Len(SubSeq(bytes, 1, L - 1)) = IF 1 <= L - 1 THEN (L - 1) - 1 + 1 ELSE 0
        /\ \A i \in 1 .. (L - 1) - 1 + 1 : SubSeq(bytes, 1, L - 1)[i] = bytes[1 + i - 1]
    <3>1. 1 \in Int /\ L - 1 \in Int
      BY <1>1
    <3>2. QED BY <2>2, <3>1, SubSeqProperties
  <2>4. (L - 1) - 1 + 1 = L - 1 /\ \A i \in 1 .. L - 1 : 1 + i - 1 = i
    BY <1>1
  <2>5. QED BY <1>1, <2>1, <2>3, <2>4
<1> HIDE DEF front, last
<1>4. /\ Append(front, last) \in Seq(Byte) /\ Len(Append(front, last)) = Len(front) + 1
      /\ \A i \in 1 .. Len(front) : Append(front, last)[i] = front[i]
      /\ Append(front, last)[Len(front) + 1] = last
  BY <1>2, <1>3, Appended
<1> DEFINE all == Append(front, last)
<1>5. all \in Seq(Byte) /\ Len(all) = L /\ \A i \in 1 .. L : all[i] = bytes[i]
  <2>1. \A i \in 1 .. L : i \in 1 .. L - 1 \/ i = L
    <3> HIDE DEF L
    <3>1. QED BY <1>1
  <2>2. QED BY <1>1, <1>2, <1>3, <1>4, <2>1
<1> HIDE DEF all
<1>6. all = bytes
  <2>1. Len(all) = Len(bytes) /\ \A i \in 1 .. Len(all) : all[i] = bytes[i]
    BY <1>5
  <2>2. QED BY <1>5, <2>1, SeqEqual
<1>7. QED BY <1>2, <1>3, <1>6 DEF all, front, last

LEMMA CheckedCode ==
  ASSUME NEW hex \in Seq(Word(4)), NEW M \in Nat, Len(hex) = 2 * M, M >= 1,
         Crc8(Front(BytesOf(hex))) = Last(BytesOf(hex))
  PROVE  Crc8(BytesOf(hex)) = Reduce[Zeros(8)]
<1> DEFINE bytes == BytesOf(hex)
           front == Front(bytes)
           last == Last(bytes)
<1>1. bytes \in Seq(Byte) /\ Len(bytes) >= 1
  BY BytesAre
<1>2. Crc8(front) = last
  OBVIOUS
<1> HIDE DEF bytes
<1>3. front \in Seq(Byte) /\ last \in Byte /\ Append(front, last) = bytes
  BY <1>1, LastByte
<1> HIDE DEF front, last
<1>4. Crc8(Append(front, last)) = Reduce[Zeros(8)]
  BY <1>2, <1>3, CheckedIsZero
<1>5. QED BY <1>3, <1>4 DEF bytes

\* Half a byte, or bytes with another checksum, are not decoded.
LEMMA NotDecoded ==
  ASSUME NEW config, NEW hex,
         \/ Len(hex) % 2 # 0
         \/ /\ Len(hex) % 2 = 0 /\ ~(Len(BytesOf(hex)) < 2)
            /\ Crc8(Front(BytesOf(hex))) # Last(BytesOf(hex))
  PROVE  DecodeFingerprint(config, hex).error # Null
<1> DEFINE size == Len(BytesOf(hex))
           payload == Front(BytesOf(hex))
           crc == Last(BytesOf(hex))
           Rejected(error) == [error |-> error, env |-> Null, flags |-> <<>>]
<1>1. DecodeFingerprint(config, hex) = Decoded(config, hex, size, payload, crc)
  BY DecodedIs DEF BytesOf
<1>2. \A error \in Errors : Rejected(error).error # Null
  BY ErrorsAssumption
<1> HIDE DEF size, payload, crc
<1>3. CASE Len(hex) % 2 # 0
  <2>1. Decoded(config, hex, size, payload, crc) = Rejected("malformed")
    BY <1>3 DEF Decoded
  <2> HIDE DEF Rejected
  <2>2. QED BY <1>1, <1>2, <2>1 DEF Errors
<1>4. CASE Len(hex) % 2 = 0 /\ ~(size < 2) /\ Crc8(payload) # crc
  <2>1. Decoded(config, hex, size, payload, crc) = Rejected("checksum")
    BY <1>4 DEF Decoded
  <2> HIDE DEF Rejected
  <2>2. QED BY <1>1, <1>2, <2>1 DEF Errors
<1>5. QED BY <1>3, <1>4 DEF size, payload, crc

LEMMA ListIsDigit ==
  ASSUME NEW s \in Seq(Bit), Len(s) = 4
  PROVE  s \in Word(4)
<1>1. s \in [1 .. Len(s) -> Bit]
  BY LenProperties
<1>2. QED BY <1>1 DEF Word

LEMMA MistypedIsFound ==
  ASSUME NEW hex, Coded(hex), NEW typo \in Mistyped(hex), typo # hex, NEW config
  PROVE  DecodeFingerprint(config, typo).error # Null
<1>1. PICK payload \in Seq(Byte) :
        Len(payload) >= 1 /\ hex = Pieces(Bits(payload, 8) \o Crc8(payload), 4)
  BY DEF Coded
<1> DEFINE M == Len(payload) + 1
<1>2. M \in Nat /\ M >= 2
  BY <1>1
<1>3. /\ hex \in Seq(Word(4)) /\ Len(hex) = 2 * M
      /\ Crc8(Front(BytesOf(hex))) = Last(BytesOf(hex))
  BY <1>1, PayloadBack DEF BytesOf
<1> HIDE DEF M
<1>4. \A n \in Nat : (2 * n) % 2 = 0 /\ (2 * n + 1) % 2 # 0
  OBVIOUS
<1>5. DOMAIN hex = 1 .. 2 * M
  BY <1>3
<1>6. ASSUME typo \in Seq(Word(4)), Len(typo) = 2 * M, NEW i \in 1 .. 2 * M,
             \A j \in 1 .. 2 * M : j \notin {i, i + 1} => hex[j] = typo[j]
      PROVE  DecodeFingerprint(config, typo).error # Null
  <2>1. Crc8(BytesOf(hex)) # Crc8(BytesOf(typo))
    BY <1>2, <1>3, <1>6, NeighboursTell
  <2>2. M >= 1
    BY <1>2
  <2>3. Crc8(BytesOf(hex)) = Reduce[Zeros(8)]
    BY <1>2, <1>3, <2>2, CheckedCode
  <2>4. Crc8(Front(BytesOf(typo))) # Last(BytesOf(typo))
    <3>1. SUFFICES ASSUME Crc8(Front(BytesOf(typo))) = Last(BytesOf(typo)) PROVE FALSE
      OBVIOUS
    <3>2. Crc8(BytesOf(typo)) = Reduce[Zeros(8)]
      BY <1>2, <1>6, <2>2, <3>1, CheckedCode
    <3>3. QED BY <2>1, <2>3, <3>2
  <2>5. Len(typo) % 2 = 0
    BY <1>2, <1>4, <1>6
  <2>6. ~(Len(BytesOf(typo)) < 2)
    <3>1. Len(BytesOf(typo)) = M
      BY <1>2, <1>6, BytesAre
    <3>2. QED BY <1>2, <3>1
  <2>7. QED BY <2>4, <2>5, <2>6, NotDecoded
<1>7. ASSUME Len(typo) % 2 # 0 PROVE DecodeFingerprint(config, typo).error # Null
  BY <1>7, NotDecoded
\* A digit that was misread.
<1>8. ASSUME NEW i \in DOMAIN hex, NEW n \in 0 .. 15, typo = [hex EXCEPT ![i] = Write(n, 4)]
      PROVE  DecodeFingerprint(config, typo).error # Null
  <2>1. Write(n, 4) \in Word(4)
    <3>1. Write(n, 4) \in Seq(Bit) /\ Len(Write(n, 4)) = 4
      <4>1. n \in Nat /\ 4 \in Nat
        OBVIOUS
      <4>2. QED BY <4>1, ReadWrite
    <3> DEFINE written == Write(n, 4)
    <3>2. written \in Seq(Bit) /\ Len(written) = 4
      BY <3>1
    <3> HIDE DEF written
    <3>3. written \in Word(4)
      BY <3>2, ListIsDigit
    <3>4. QED BY <3>3 DEF written
  <2> DEFINE digit == Write(n, 4)
  <2> HIDE DEF digit
  <2>2. typo = [hex EXCEPT ![i] = digit] /\ digit \in Word(4)
    BY <1>8, <2>1 DEF digit
  <2>3. typo \in Seq(Word(4)) /\ Len(typo) = 2 * M
    BY <1>3, <2>2
  <2>4. \A j \in 1 .. 2 * M : j \notin {i, i + 1} => hex[j] = typo[j]
    BY <1>5, <2>2
  <2>5. i \in 1 .. 2 * M
    BY <1>5
  <2>6. QED BY <1>6, <2>3, <2>4, <2>5
\* Two neighbours that were swapped.
<1>9. ASSUME NEW i \in 1 .. Len(hex) - 1, typo = [hex EXCEPT ![i] = hex[i + 1], ![i + 1] = hex[i]]
      PROVE  DecodeFingerprint(config, typo).error # Null
  <2>1. i \in 1 .. 2 * M /\ i + 1 \in 1 .. 2 * M
    BY <1>2, <1>3
  <2> DEFINE u == hex[i]
             v == hex[i + 1]
  <2>2. u \in Word(4) /\ v \in Word(4)
    BY <1>3, <2>1
  <2> HIDE DEF u, v
  <2>3. typo = [hex EXCEPT ![i] = v, ![i + 1] = u]
    BY <1>9 DEF u, v
  <2>4. typo \in Seq(Word(4)) /\ Len(typo) = 2 * M
    BY <1>3, <2>2, <2>3
  <2>5. \A j \in 1 .. 2 * M : j \notin {i, i + 1} => hex[j] = typo[j]
    BY <1>5, <2>3
  <2>6. QED BY <1>6, <2>1, <2>4, <2>5
<1>10. \A a, b \in 0 .. 2 * M : \A s : s = SubSeq(hex, a + 1, b) =>
         s \in Seq(Word(4)) /\ Len(s) = IF a <= b THEN b - a ELSE 0
  <2>1. TAKE a, b \in 0 .. 2 * M
  <2>2. \A j \in a + 1 .. b : hex[j] \in Word(4)
    BY <1>2, <1>3
  <2>3. a + 1 \in Int /\ b \in Int
    BY <1>2
  <2>4. /\ SubSeq(hex, a + 1, b) \in Seq(Word(4))
        /\ Len(SubSeq(hex, a + 1, b)) = IF a + 1 <= b THEN b - (a + 1) + 1 ELSE 0
    BY <2>2, <2>3, SubSeqProperties
  <2>5. QED BY <1>2, <2>4
\* A digit that was lost.
<1>11. ASSUME NEW i \in DOMAIN hex, typo = RemoveAt(hex, i)
       PROVE  DecodeFingerprint(config, typo).error # Null
  <2> DEFINE s == SubSeq(hex, 1, i - 1)
             t == SubSeq(hex, i + 1, Len(hex))
  <2>1. i \in 1 .. 2 * M /\ i - 1 \in 0 .. 2 * M /\ i \in 0 .. 2 * M /\ 2 * M \in 0 .. 2 * M /\ 0 + 1 = 1
        /\ 0 \in 0 .. 2 * M /\ i <= 2 * M /\ 0 <= i - 1 /\ (i - 1) - 0 = i - 1
    BY <1>2, <1>5
  <2>2. s \in Seq(Word(4)) /\ Len(s) = i - 1
    BY <1>10, <2>1
  <2>3. t \in Seq(Word(4)) /\ Len(t) = 2 * M - i
    BY <1>3, <1>10, <2>1
  <2>4. typo = s \o t
    BY <1>11 DEF RemoveAt
  <2> HIDE DEF s, t
  <2>5. Len(s \o t) = Len(s) + Len(t)
    BY <2>2, <2>3, Joined
  <2>6. Len(typo) = (i - 1) + (2 * M - i)
    BY <2>2, <2>3, <2>4, <2>5
  <2>7. (i - 1) + (2 * M - i) = 2 * (M - 1) + 1 /\ M - 1 \in Nat
    BY <1>2, <2>1
  <2>8. QED BY <1>4, <1>7, <2>6, <2>7
\* A digit that was doubled.
<1>12. ASSUME NEW i \in DOMAIN hex, typo = InsertAt(hex, i, hex[i])
       PROVE  DecodeFingerprint(config, typo).error # Null
  <2> DEFINE s == SubSeq(hex, 1, i - 1)
             t == SubSeq(hex, i, Len(hex))
             digit == hex[i]
  <2>1. i \in 1 .. 2 * M /\ i - 1 \in 0 .. 2 * M /\ 2 * M \in 0 .. 2 * M /\ 0 + 1 = 1
        /\ 0 \in 0 .. 2 * M /\ i - 1 <= 2 * M /\ 0 <= i - 1 /\ (i - 1) - 0 = i - 1 /\ (i - 1) + 1 = i
    BY <1>2, <1>5
  <2>2. s \in Seq(Word(4)) /\ Len(s) = i - 1
    BY <1>10, <2>1
  <2>3. t \in Seq(Word(4)) /\ Len(t) = 2 * M - (i - 1)
    BY <1>3, <1>10, <2>1
  <2>4. typo = (s \o <<digit>>) \o t /\ digit \in Word(4)
    BY <1>3, <1>12, <2>1 DEF InsertAt
  <2> HIDE DEF s, t, digit
  <2>5. s \o <<digit>> \in Seq(Word(4)) /\ Len(s \o <<digit>>) = i
    BY <2>1, <2>2, <2>4
  <2> DEFINE front == s \o <<digit>>
  <2>6. front \in Seq(Word(4)) /\ Len(front) = i /\ typo = front \o t
    BY <2>4, <2>5
  <2> HIDE DEF front
  <2>7. Len(front \o t) = Len(front) + Len(t)
    BY <2>3, <2>6, Joined
  <2>8. Len(typo) = i + (2 * M - (i - 1))
    BY <2>3, <2>6, <2>7
  <2>9. i + (2 * M - (i - 1)) = 2 * M + 1
    BY <1>2, <2>1
  <2>10. QED BY <1>2, <1>4, <1>7, <2>8, <2>9
<1>13. \/ \E i \in DOMAIN hex, n \in 0 .. 15 : typo = [hex EXCEPT ![i] = Write(n, 4)]
       \/ \E i \in 1 .. Len(hex) - 1 : typo = [hex EXCEPT ![i] = hex[i + 1], ![i + 1] = hex[i]]
       \/ \E i \in DOMAIN hex : typo = RemoveAt(hex, i)
       \/ \E i \in DOMAIN hex : typo = InsertAt(hex, i, hex[i])
  BY DEF Mistyped
<1>14. QED BY <1>8, <1>9, <1>11, <1>12, <1>13

\* Whatever was published, a mistyped payload of the live version is rejected: a digit
\* misread, two neighbours swapped, a digit lost or doubled.
THEOREM MistypedCodesAreRejected ==
  Spec => []MistypedIsRejected
<1>1. DecodeInvariant => MistypedIsRejected
  <2>1. SUFFICES ASSUME DecodeInvariant, report # Null,
                        NEW hex \in Mistyped(report.code.hex), hex # report.code.hex
                 PROVE  DecodeFingerprint(live.config, hex).error # Null
    BY DEF MistypedIsRejected
  <2>2. Coded(report.code.hex)
    BY <2>1 DEF DecodeInvariant
  <2>3. QED BY <2>1, <2>2, MistypedIsFound
<1>2. QED BY <1>1, InitDecodes, InitWhole, WholeKept, DecodeKept, PTL DEF Spec

=============================================================================
