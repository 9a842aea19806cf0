---------------------------- MODULE Folds_proofs ----------------------------
(***************************************************************************)
(* Lemmas about the folds and sums over finite sets of the community       *)
(* modules (MapThenFoldSet, MapThenSumSet), for every finite set.          *)
(***************************************************************************)
EXTENDS Naturals, FiniteSetsExt, FiniteSetTheorems, WellFoundedInduction, TLAPS

-----------------------------------------------------------------------------
(* Folds over finite sets, as MapThenFoldSet has them.  What one says of     *)
(* every set is shown by taking a smallest set it would not say it of.       *)

\* Among subsets of a finite set is a smallest one.
LEMMA SmallestIsThere ==
  ASSUME NEW S, IsFiniteSet(S), NEW F \in SUBSET (SUBSET S), F # {}
  PROVE  \E T \in F : \A U \in F : U \subseteq T => U = T
<1>1. F \subseteq FiniteSubsetsOf(S)
  BY FS_Subset DEF FiniteSubsetsOf
<1>2. IsWellFoundedOn(StrictSubsetOrdering(S), FiniteSubsetsOf(S))
  BY FS_StrictSubsetOrderingWellFounded
<1>3. PICK T \in F : \A U \in F : ~ (<<U, T>> \in StrictSubsetOrdering(S))
  BY <1>1, <1>2, WFMin
<1> QED BY <1>3 DEF StrictSubsetOrdering

\* Of each set of S one is taken first, and what the others come to goes with it into step.
Picks(pick, S) == \A s \in SUBSET S : s # {} => pick[s] \in s

Rest(pick, s) == s \ {pick[s]}

Folds(pick, step, base, S, g) ==
  g = [s \in SUBSET S |-> IF s = {} THEN base ELSE step[pick[s]][g[Rest(pick, s)]]]

Folded(pick, step, base, S) == (CHOOSE g : Folds(pick, step, base, S, g))[S]

LEMMA FoldsUnique ==
  ASSUME NEW S, IsFiniteSet(S), NEW pick, Picks(pick, S), NEW step, NEW base, NEW g, NEW h,
         Folds(pick, step, base, S, g), Folds(pick, step, base, S, h)
  PROVE  g = h
<1> DEFINE F == {s \in SUBSET S : g[s] # h[s]}
<1>1. SUFFICES ASSUME F # {} PROVE FALSE
  BY DEF Folds
<1>2. PICK T \in F : \A U \in F : U \subseteq T => U = T
  <2> HIDE DEF F
  <2>1. F \in SUBSET (SUBSET S)
    BY DEF F
  <2> QED BY <1>1, <2>1, SmallestIsThere
<1>3. T # {}
  BY <1>2 DEF Folds
<1>4. pick[T] \in T
  BY <1>2, <1>3 DEF Picks
<1>5. g[Rest(pick, T)] = h[Rest(pick, T)]
  BY <1>2, <1>4 DEF Rest
<1>6. g[T] = step[pick[T]][g[Rest(pick, T)]] /\ h[T] = step[pick[T]][h[Rest(pick, T)]]
  BY <1>2, <1>3 DEF Folds
<1> QED BY <1>2, <1>5, <1>6

\* A fold of a part is what the fold of the whole says of it.
LEMMA FoldsOfPart ==
  ASSUME NEW S, NEW V \in SUBSET S, NEW pick, NEW step, NEW base, NEW g,
         Folds(pick, step, base, S, g), NEW h, h = [s \in SUBSET V |-> g[s]]
  PROVE  Folds(pick, step, base, V, h)
<1>1. \A s \in SUBSET V : s \in SUBSET S /\ Rest(pick, s) \in SUBSET V
  BY DEF Rest
<1>2. \A s \in SUBSET V : h[s] = IF s = {} THEN base ELSE step[pick[s]][h[Rest(pick, s)]]
  BY <1>1 DEF Folds
<1>3. h = [s \in SUBSET V |-> h[s]]
  OBVIOUS
<1> QED BY <1>2, <1>3 DEF Folds

LEMMA FoldsExist ==
  ASSUME NEW S, IsFiniteSet(S), NEW pick, Picks(pick, S), NEW step, NEW base
  PROVE  \E g : Folds(pick, step, base, S, g)
<1> DEFINE Fold(U) == Folded(pick, step, base, U)
           Is(U, g) == Folds(pick, step, base, U, g)
           F == {T \in SUBSET S : ~ \E g : Is(T, g)}
<1>1. SUFFICES ASSUME F # {} PROVE FALSE
  OBVIOUS
<1>2. PICK T \in F : \A U \in F : U \subseteq T => U = T
  <2> HIDE DEF F
  <2>1. F \in SUBSET (SUBSET S)
    BY DEF F
  <2> QED BY <1>1, <2>1, SmallestIsThere
<1> DEFINE Proper == {U \in SUBSET T : U # T}
           h == [s \in SUBSET T |-> IF s = {} THEN base ELSE step[pick[s]][Fold(Rest(pick, s))]]
<1>3. \A U \in Proper : IsFiniteSet(U) /\ Picks(pick, U) /\ Is(U, CHOOSE g : Is(U, g))
  <2> SUFFICES ASSUME NEW U \in Proper PROVE IsFiniteSet(U) /\ Picks(pick, U) /\ \E g : Is(U, g)
    OBVIOUS
  <2>1. U \in SUBSET S /\ U \notin F
    BY <1>2
  <2> QED BY <2>1, FS_Subset DEF Picks
<1>4. \A s \in SUBSET T : s # {} => Rest(pick, s) \in Proper
  BY <1>2 DEF Picks, Rest
<1>5. \A U \in Proper : h[U] = Fold(U)
  <2> SUFFICES ASSUME NEW U \in Proper PROVE h[U] = Fold(U)
    OBVIOUS
  <2>1. PICK g : g = (CHOOSE f : Is(U, f)) /\ Is(U, g)
    BY <1>3
  <2>2. CASE U = {}
    BY <2>1, <2>2 DEF Folded, Folds
  <2>3. CASE U # {}
    <3>1. PICK V : V = Rest(pick, U)
      OBVIOUS
    <3>2. V \in Proper /\ V \in SUBSET U /\ IsFiniteSet(V) /\ Picks(pick, V)
      BY <3>1, <2>3, <1>3, <1>4 DEF Rest
    <3>3. Is(V, CHOOSE f : Is(V, f))
      BY <3>2, <1>3
    <3>4. PICK r : r = [s \in SUBSET V |-> g[s]]
      OBVIOUS
    <3>5. Is(V, r)
      <4>1. V \in SUBSET U /\ Folds(pick, step, base, U, g)
        BY <3>2, <2>1
      <4> HIDE DEF h, Proper, F, Fold
      <4> QED BY <4>1, <3>4, FoldsOfPart
    <3>10. (CHOOSE f : Is(V, f)) = r
      BY <3>2, <3>3, <3>5, FoldsUnique
    <3>6. Fold(V) = g[V]
      BY <3>4, <3>10 DEF Folded
    <3>7. g[U] = step[pick[U]][g[V]]
      BY <3>1, <2>1, <2>3 DEF Folds
    <3>8. h[U] = step[pick[U]][Fold(V)]
      BY <3>1, <2>3
    <3> QED BY <2>1, <3>6, <3>7, <3>8 DEF Folded
  <2> QED BY <2>2, <2>3
<1>6. \A s \in SUBSET T : s # {} => Fold(Rest(pick, s)) = h[Rest(pick, s)]
  <2> HIDE DEF h, Fold
  <2> QED BY <1>4, <1>5
<1>7. PICK k : k = h
  OBVIOUS
<1>8. \A s \in SUBSET T : s # {} => Fold(Rest(pick, s)) = k[Rest(pick, s)]
  <2> HIDE DEF h, Fold
  <2> QED BY <1>6, <1>7
<1>9. k = [s \in SUBSET T |-> IF s = {} THEN base ELSE step[pick[s]][k[Rest(pick, s)]]]
  BY <1>7, <1>8
<1> QED BY <1>2, <1>9 DEF Folds

\* What a fold comes to, a step at a time; and it stays among the values step stays among.
LEMMA FoldedSteps ==
  ASSUME NEW S, IsFiniteSet(S), NEW pick, Picks(pick, S), NEW step, NEW base
  PROVE  /\ S = {} => Folded(pick, step, base, S) = base
         /\ S # {} => /\ pick[S] \in S
                      /\ Folded(pick, step, base, S) = step[pick[S]][Folded(pick, step, base, Rest(pick, S))]
<1> DEFINE Is(U, g) == Folds(pick, step, base, U, g)
<1>1. PICK g : Is(S, g) /\ g = (CHOOSE f : Is(S, f))
  BY FoldsExist
<1>2. Folded(pick, step, base, S) = g[S]
  BY <1>1 DEF Folded
<1>3. CASE S = {}
  BY <1>1, <1>2, <1>3 DEF Folds
<1>4. CASE S # {}
  <2>1. PICK V : V = Rest(pick, S)
    OBVIOUS
  <2>2. V \in SUBSET S /\ IsFiniteSet(V) /\ Picks(pick, V)
    BY <2>1, FS_Subset DEF Rest, Picks
  <2>3. PICK r : r = [s \in SUBSET V |-> g[s]]
    OBVIOUS
  <2>4. Is(V, r)
    BY <1>1, <2>2, <2>3, FoldsOfPart
  <2>5. (CHOOSE f : Is(V, f)) = r
    <3>1. Is(V, CHOOSE f : Is(V, f))
      BY <2>4
    <3> QED BY <2>2, <2>4, <3>1, FoldsUnique
  <2>6. Folded(pick, step, base, V) = g[V]
    BY <2>3, <2>5 DEF Folded
  <2>7. g[S] = step[pick[S]][g[V]]
    BY <1>1, <1>4, <2>1 DEF Folds
  <2>8. pick[S] \in S
    BY <1>4 DEF Picks
  <2> QED BY <1>2, <1>4, <2>1, <2>6, <2>7, <2>8
<1> QED BY <1>3, <1>4

LEMMA FoldsStay ==
  ASSUME NEW S, IsFiniteSet(S), NEW pick, Picks(pick, S), NEW step, NEW V, NEW base \in V,
         \A x \in S, v \in V : step[x][v] \in V,
         NEW g, Folds(pick, step, base, S, g)
  PROVE  \A s \in SUBSET S : g[s] \in V
<1> DEFINE F == {T \in SUBSET S : g[T] \notin V}
<1>1. SUFFICES ASSUME F # {} PROVE FALSE
  OBVIOUS
<1>2. PICK T \in F : \A U \in F : U \subseteq T => U = T
  <2> HIDE DEF F
  <2>1. F \in SUBSET (SUBSET S)
    BY DEF F
  <2> QED BY <1>1, <2>1, SmallestIsThere
<1>3. T # {}
  BY <1>2 DEF Folds
<1>4. pick[T] \in T
  BY <1>2, <1>3 DEF Picks
<1>5. g[T] = step[pick[T]][g[Rest(pick, T)]]
  BY <1>2, <1>3 DEF Folds
<1>6. g[Rest(pick, T)] \in V
  BY <1>2, <1>4 DEF Rest
<1> QED BY <1>2, <1>4, <1>5, <1>6

LEMMA FoldedStays ==
  ASSUME NEW S, IsFiniteSet(S), NEW pick, Picks(pick, S), NEW step, NEW V, NEW base \in V,
         \A x \in S, v \in V : step[x][v] \in V
  PROVE  Folded(pick, step, base, S) \in V
<1>1. PICK g : Folds(pick, step, base, S, g) /\ g = (CHOOSE f : Folds(pick, step, base, S, f))
  BY FoldsExist
<1>2. g[S] \in V
  BY <1>1, FoldsStay
<1> QED BY <1>1, <1>2 DEF Folded

\* A function that goes on as the fold does, while its values are among those, is the fold.
LEMMA IsTheFold ==
  ASSUME NEW S, IsFiniteSet(S), NEW pick, Picks(pick, S), NEW step, NEW V, NEW base \in V,
         \A x \in S, v \in V : step[x][v] \in V,
         NEW g, g[{}] = base,
         \A s \in SUBSET S : s # {} /\ g[Rest(pick, s)] \in V => g[s] = step[pick[s]][g[Rest(pick, s)]]
  PROVE  g[S] = Folded(pick, step, base, S)
<1> DEFINE Fold(U) == Folded(pick, step, base, U)
           F == {T \in SUBSET S : g[T] # Fold(T)}
<1>1. SUFFICES ASSUME F # {} PROVE FALSE
  OBVIOUS
<1>2. PICK T \in F : \A U \in F : U \subseteq T => U = T
  <2> HIDE DEF F
  <2>1. F \in SUBSET (SUBSET S)
    BY DEF F
  <2> QED BY <1>1, <2>1, SmallestIsThere
<1>3. IsFiniteSet(T) /\ Picks(pick, T)
  BY <1>2, FS_Subset DEF Picks
<1>4. T # {}
  <2>1. T = {} => Fold(T) = base
    BY <1>3, FoldedSteps
  <2> QED BY <2>1, <1>2
<1>5. pick[T] \in T /\ Fold(T) = step[pick[T]][Fold(Rest(pick, T))]
  BY <1>3, <1>4, FoldedSteps
<1>6. PICK U : U = Rest(pick, T)
  OBVIOUS
<1>7. U \in SUBSET S /\ U \notin F /\ IsFiniteSet(U) /\ Picks(pick, U)
  BY <1>2, <1>3, <1>5, <1>6, FS_Subset DEF Rest, Picks
<1>8. g[U] = Fold(U)
  BY <1>7
<1>9. Fold(U) \in V
  <2> HIDE DEF F
  <2>1. \A x \in U, v \in V : step[x][v] \in V
    BY <1>7
  <2> QED BY <1>7, <2>1, FoldedStays
<1>10. g[T] = step[pick[T]][g[U]]
  BY <1>2, <1>4, <1>6, <1>8, <1>9
<1> QED BY <1>2, <1>5, <1>6, <1>8, <1>10

-----------------------------------------------------------------------------
(* Sums over finite sets, as MapThenSumSet finds them *)

One(s) == CHOOSE x \in s : TRUE

\* g gives the sum of w over each set of S.
Sums(w, S, g) == g = [s \in SUBSET S |-> IF s = {} THEN 0 ELSE w[One(s)] + g[s \ {One(s)}]]

Total(w, S) == (CHOOSE g : Sums(w, S, g))[S]

Ones(D) == [s \in SUBSET D |-> One(s)]
Adds(w, D) == [x \in D |-> [v \in Nat |-> w[x] + v]]

LEMMA SumsAreFolds ==
  ASSUME NEW D, NEW S \in SUBSET D, IsFiniteSet(S), NEW w, \A x \in D : w[x] \in Nat
  PROVE  /\ Picks(Ones(D), S)
         /\ \A x \in S, v \in Nat : Adds(w, D)[x][v] = w[x] + v /\ Adds(w, D)[x][v] \in Nat
         /\ \E g : Sums(w, S, g)
         /\ \A g : Sums(w, S, g) => g[S] = Folded(Ones(D), Adds(w, D), 0, S)
<1>1. PICK pick : pick = Ones(D)
  OBVIOUS
<1>2. PICK step : step = Adds(w, D)
  OBVIOUS
<1>3. /\ \A s \in SUBSET S : pick[s] = One(s) /\ Rest(pick, s) = s \ {One(s)}
      /\ \A s \in SUBSET S : s # {} => One(s) \in s
      /\ Picks(pick, S)
  BY <1>1 DEF Ones, Rest, Picks, One
<1>4. \A x \in S, v \in Nat : step[x][v] = w[x] + v /\ step[x][v] \in Nat
  BY <1>2 DEF Adds
<1>5. \E g : Sums(w, S, g)
  <2>1. PICK g : Folds(pick, step, 0, S, g)
    BY <1>3, FoldsExist
  <2>2. \A s \in SUBSET S : g[s] \in Nat
    BY <1>3, <1>4, <2>1, FoldsStay
  <2>3. \A s \in SUBSET S : g[s] = IF s = {} THEN 0 ELSE w[One(s)] + g[s \ {One(s)}]
    <3> SUFFICES ASSUME NEW s \in SUBSET S
                 PROVE  g[s] = IF s = {} THEN 0 ELSE w[One(s)] + g[s \ {One(s)}]
      OBVIOUS
    <3>1. CASE s = {}
      BY <2>1, <3>1 DEF Folds
    <3>2. CASE s # {}
      <4>1. g[s] = step[One(s)][g[s \ {One(s)}]]
        BY <2>1, <1>3, <3>2 DEF Folds
      <4> QED BY <4>1, <1>3, <1>4, <2>2, <3>2
    <3> QED BY <3>1, <3>2
  <2>4. g = [s \in SUBSET S |-> g[s]]
    BY <2>1 DEF Folds
  <2> QED BY <2>3, <2>4 DEF Sums
<1>6. ASSUME NEW g, Sums(w, S, g) PROVE g[S] = Folded(pick, step, 0, S)
  <2>1. PICK nil, V : nil = 0 /\ V = Nat
    OBVIOUS
  <2>2. g[{}] = nil /\ nil \in V
    BY <1>6, <2>1 DEF Sums
  <2>3. \A s \in SUBSET S : s # {} /\ g[Rest(pick, s)] \in V => g[s] = step[pick[s]][g[Rest(pick, s)]]
    <3> SUFFICES ASSUME NEW s \in SUBSET S, s # {}, g[Rest(pick, s)] \in Nat
                 PROVE  g[s] = step[pick[s]][g[Rest(pick, s)]]
      BY <2>1
    <3>1. g[s] = w[One(s)] + g[Rest(pick, s)]
      BY <1>3, <1>6 DEF Sums
    <3> QED BY <3>1, <1>3, <1>4
  <2>4. \A x \in S, v \in V : step[x][v] \in V
    BY <1>4, <2>1
  <2>5. g[S] = Folded(pick, step, nil, S)
    BY <1>3, <2>2, <2>3, <2>4, IsTheFold
  <2> QED BY <2>1, <2>5
<1> QED BY <1>1, <1>2, <1>3, <1>4, <1>5, <1>6

LEMMA TotalIs ==
  ASSUME NEW D, NEW S \in SUBSET D, IsFiniteSet(S), NEW w, \A x \in D : w[x] \in Nat
  PROVE  /\ Total(w, S) = Folded(Ones(D), Adds(w, D), 0, S)
         /\ \A g : Sums(w, S, g) => Total(w, S) = g[S]
<1>1. PICK g : Sums(w, S, g) /\ g = (CHOOSE f : Sums(w, S, f))
  BY SumsAreFolds
<1>2. \A f : Sums(w, S, f) => f[S] = Folded(Ones(D), Adds(w, D), 0, S)
  BY SumsAreFolds
<1>3. Total(w, S) = g[S]
  BY <1>1 DEF Total
<1> QED BY <1>1, <1>2, <1>3

LEMMA TotalSteps ==
  ASSUME NEW S, IsFiniteSet(S), NEW w, \A x \in S : w[x] \in Nat
  PROVE  /\ Total(w, S) \in Nat
         /\ S = {} => Total(w, S) = 0
         /\ S # {} => One(S) \in S /\ Total(w, S) = w[One(S)] + Total(w, S \ {One(S)})
<1>1. PICK pick : pick = Ones(S)
  OBVIOUS
<1>2. PICK step : step = Adds(w, S)
  OBVIOUS
<1>3. Picks(pick, S) /\ \A x \in S, v \in Nat : step[x][v] = w[x] + v /\ step[x][v] \in Nat
  BY <1>1, <1>2, SumsAreFolds
<1>4. \A T \in SUBSET S :
        IsFiniteSet(T) /\ Picks(pick, T) /\ Total(w, T) = Folded(pick, step, 0, T) /\ Total(w, T) \in Nat
  <2> SUFFICES ASSUME NEW T \in SUBSET S
               PROVE  IsFiniteSet(T) /\ Picks(pick, T) /\ Total(w, T) = Folded(pick, step, 0, T)
                      /\ Total(w, T) \in Nat
    OBVIOUS
  <2>1. IsFiniteSet(T) /\ Picks(pick, T)
    BY <1>3, FS_Subset DEF Picks
  <2>2. Total(w, T) = Folded(pick, step, 0, T)
    BY <1>1, <1>2, <2>1, TotalIs
  <2>3. Folded(pick, step, 0, T) \in Nat
    <3>1. \A x \in T, v \in Nat : step[x][v] \in Nat
      BY <1>3
    <3>2. 0 \in Nat
      OBVIOUS
    <3> QED BY <2>1, <3>1, <3>2, FoldedStays
  <2> QED BY <2>1, <2>2, <2>3
<1>5. CASE S = {}
  <2>1. Folded(pick, step, 0, S) = 0
    BY <1>3, <1>5, FoldedSteps
  <2> QED BY <1>4, <1>5, <2>1
<1>6. CASE S # {}
  <2>1. pick[S] \in S /\ Folded(pick, step, 0, S) = step[pick[S]][Folded(pick, step, 0, Rest(pick, S))]
    BY <1>3, <1>6, FoldedSteps
  <2>2. pick[S] = One(S) /\ Rest(pick, S) = S \ {One(S)}
    BY <1>1 DEF Ones, Rest
  <2> QED BY <1>3, <1>4, <1>6, <2>1, <2>2
<1> QED BY <1>4, <1>5, <1>6

LEMMA TotalNat ==
  ASSUME NEW S, IsFiniteSet(S), NEW w, \A x \in S : w[x] \in Nat
  PROVE  Total(w, S) \in Nat
BY TotalSteps

\* Whichever one is taken first.
LEMMA TotalRemoves ==
  ASSUME NEW S, IsFiniteSet(S), NEW w, \A x \in S : w[x] \in Nat, NEW e \in S
  PROVE  Total(w, S) = w[e] + Total(w, S \ {e})
<1> DEFINE F == {T \in SUBSET S : \E x \in T : Total(w, T) # w[x] + Total(w, T \ {x})}
<1>1. SUFFICES ASSUME F # {} PROVE FALSE
  OBVIOUS
<1>2. PICK T \in F : \A U \in F : U \subseteq T => U = T
  <2> HIDE DEF F
  <2>1. F \in SUBSET (SUBSET S)
    BY DEF F
  <2> QED BY <1>1, <2>1, SmallestIsThere
<1>3. PICK x \in T : Total(w, T) # w[x] + Total(w, T \ {x})
  BY <1>2
<1>4. IsFiniteSet(T) /\ T \in SUBSET S
  BY <1>2, FS_Subset
<1>5. PICK c : c = One(T)
  OBVIOUS
<1>6. c \in T /\ Total(w, T) = w[c] + Total(w, T \ {c}) /\ x # c
  BY <1>3, <1>4, <1>5, TotalSteps
<1>7. PICK C : C = T \ {c, x}
  OBVIOUS
<1>8. Total(w, T \ {c}) = w[x] + Total(w, C)
  <2>1. T \ {c} \notin F /\ x \in T \ {c} /\ (T \ {c}) \ {x} = C
    BY <1>2, <1>3, <1>6, <1>7
  <2> QED BY <2>1, <1>4
<1>9. Total(w, T \ {x}) = w[c] + Total(w, C)
  <2>1. T \ {x} \notin F /\ c \in T \ {x} /\ (T \ {x}) \ {c} = C
    BY <1>2, <1>3, <1>6, <1>7
  <2> QED BY <2>1, <1>4
<1>10. w[x] \in Nat /\ w[c] \in Nat /\ Total(w, C) \in Nat
  <2>1. IsFiniteSet(C) /\ C \subseteq S
    BY <1>4, <1>7, FS_Subset
  <2> QED BY <2>1, <1>3, <1>4, <1>6, TotalNat
<1> QED BY <1>3, <1>6, <1>8, <1>9, <1>10

LEMMA TotalJoins ==
  ASSUME NEW A, IsFiniteSet(A), NEW B, IsFiniteSet(B), A \cap B = {},
         NEW w, \A x \in A \cup B : w[x] \in Nat
  PROVE  Total(w, A \cup B) = Total(w, A) + Total(w, B)
<1> DEFINE F == {T \in SUBSET B : Total(w, A \cup T) # Total(w, A) + Total(w, T)}
<1>1. SUFFICES ASSUME F # {} PROVE FALSE
  OBVIOUS
<1>2. PICK T \in F : \A U \in F : U \subseteq T => U = T
  <2> HIDE DEF F
  <2>1. F \in SUBSET (SUBSET B)
    BY DEF F
  <2> QED BY <1>1, <2>1, SmallestIsThere
<1>3. IsFiniteSet(T) /\ T \subseteq B /\ IsFiniteSet(A \cup T)
  BY <1>2, FS_Subset, FS_Union
<1>4. Total(w, A) \in Nat
  BY TotalNat
<1>5. CASE T = {}
  <2>1. Total(w, T) = 0 /\ A \cup T = A
    BY <1>5, <1>3, TotalSteps
  <2>2. Total(w, A \cup T) = Total(w, A) + Total(w, T)
    BY <2>1, <1>4
  <2> QED BY <2>2, <1>2
<1>6. CASE T # {}
  <2>1. PICK x \in T : TRUE
    BY <1>6
  <2>2. PICK V : V = T \ {x}
    OBVIOUS
  <2>3. V \notin F /\ V \subseteq B /\ IsFiniteSet(V)
    BY <1>2, <1>3, <2>1, <2>2, FS_Subset
  <2>4. Total(w, A \cup V) = Total(w, A) + Total(w, V)
    BY <2>3
  <2>5. (A \cup T) \ {x} = A \cup V
    BY <1>3, <2>1, <2>2
  <2>6. Total(w, A \cup T) = w[x] + Total(w, A \cup V)
    BY <1>3, <2>1, <2>5, TotalRemoves
  <2>7. Total(w, T) = w[x] + Total(w, V)
    BY <1>3, <2>1, <2>2, TotalRemoves
  <2>8. w[x] \in Nat /\ Total(w, V) \in Nat
    BY <1>3, <2>1, <2>2, <2>3, TotalNat
  <2> QED BY <1>2, <1>4, <2>4, <2>6, <2>7, <2>8
<1> QED BY <1>5, <1>6

LEMMA TotalSame ==
  ASSUME NEW S, IsFiniteSet(S), NEW w, NEW v, \A x \in S : w[x] = v[x] /\ w[x] \in Nat
  PROVE  Total(w, S) = Total(v, S)
<1> DEFINE F == {T \in SUBSET S : Total(w, T) # Total(v, T)}
<1>1. SUFFICES ASSUME F # {} PROVE FALSE
  OBVIOUS
<1>2. PICK T \in F : \A U \in F : U \subseteq T => U = T
  <2> HIDE DEF F
  <2>1. F \in SUBSET (SUBSET S)
    BY DEF F
  <2> QED BY <1>1, <2>1, SmallestIsThere
<1>3. IsFiniteSet(T)
  BY <1>2, FS_Subset
<1>4. /\ T # {} /\ One(T) \in T
      /\ Total(w, T) = w[One(T)] + Total(w, T \ {One(T)})
      /\ Total(v, T) = v[One(T)] + Total(v, T \ {One(T)})
  BY <1>2, <1>3, TotalSteps
<1>5. Total(w, T \ {One(T)}) = Total(v, T \ {One(T)})
  BY <1>2, <1>4
<1> QED BY <1>2, <1>4, <1>5

LEMMA TotalOfOne ==
  ASSUME NEW x, NEW w, w[x] \in Nat
  PROVE  Total(w, {x}) = w[x]
<1>1. IsFiniteSet({x}) /\ IsFiniteSet({})
  BY FS_Singleton, FS_EmptySet
<1>2. Total(w, {x}) = w[x] + Total(w, {x} \ {x})
  BY <1>1, TotalRemoves
<1>3. Total(w, {}) = 0 /\ {x} \ {x} = {}
  BY <1>1, TotalSteps
<1> QED BY <1>2, <1>3

-----------------------------------------------------------------------------
(* The largest of some numbers *)

\* A set of numbers up to a bound has a largest.  (Were there none, each number below
\* one of the set would have the next below one too: more numbers than there are.)
LEMMA LargestIsThere ==
  ASSUME NEW N \in Nat, NEW S \in SUBSET (0 .. N), S # {}
  PROVE  Max(S) \in S /\ \A y \in S : Max(S) >= y
<1>1. SUFFICES ASSUME \A x \in S : \E y \in S : ~ (x >= y) PROVE FALSE
  BY DEF Max
<1> DEFINE U == {x \in 0 .. N : \E y \in S : x <= y}
           T == {x \in U : x # 0}
           f == [x \in U |-> x + 1]
<1>2. IsFiniteSet(U)
  <2>1. IsFiniteSet(0 .. N)
    BY FS_Interval
  <2> QED BY <2>1, FS_Subset
<1>3. 0 \in U
  <2>1. PICK y \in S : TRUE
    OBVIOUS
  <2>2. y \in 0 .. N
    BY <2>1
  <2> QED BY <2>1, <2>2
<1>4. \A x \in U : x + 1 \in T
  BY <1>1
<1>5. f \in [U -> T]
  BY <1>4
<1>6. T = U \ {0}
  OBVIOUS
<1>7. IsFiniteSet(T) /\ Cardinality(T) = Cardinality(U) - 1
  <2> HIDE DEF U, T
  <2> QED BY <1>2, <1>3, <1>6, FS_RemoveElement
<1>8. Cardinality(U) \in Nat
  BY <1>2, FS_CardinalityType
<1>9. \E x, y \in U : x # y /\ f[x] = f[y]
  <2> HIDE DEF U, T, f
  <2>1. Cardinality(T) < Cardinality(U)
    BY <1>7, <1>8
  <2> QED BY <2>1, <1>2, <1>5, <1>7, FS_PigeonHole
<1> QED BY <1>9

=============================================================================
