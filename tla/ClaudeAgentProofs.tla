------------------------- MODULE ClaudeAgentProofs -------------------------
(* Theorems about the Claude client, for every value of its constants. *)
EXTENDS ClaudeAgent, SequenceTheorems, FiniteSetTheorems, WellFoundedInduction, TLAPS

(* A non-empty set of naturals has a least element, and Min names it. *)
LEMMA MinIsLeast ==
  ASSUME NEW S \in SUBSET Nat, S # {}
  PROVE  Min(S) \in S /\ \A y \in S : Min(S) <= y
<1> DEFINE R == OpToRel(<, Nat)
<1>1. IsWellFoundedOn(R, Nat)
  BY NatLessThanWellFounded
<1>2. \E x \in S : \A y \in S : <<y, x>> \notin R
  <2> HIDE DEF R
  <2> QED BY <1>1, WFMin
<1>3. \E x \in S : \A y \in S : x =< y
  <2>1. PICK x \in S : \A y \in S : <<y, x>> \notin R
    BY <1>2
  <2>2. \A y \in S : ~(y < x)
    <3> SUFFICES ASSUME NEW y \in S, y < x PROVE FALSE
      OBVIOUS
    <3>1. <<y, x>> \in Nat \X Nat
      OBVIOUS
    <3>2. <<y, x>> \in OpToRel(<, Nat)
      BY <3>1 DEF OpToRel
    <3> QED BY <2>1, <3>2
  <2> QED BY <2>2
<1> QED
  BY <1>3 DEF Min

(* A non-empty set of naturals with a bound has a greatest one. *)
LEMMA MaxIsGreatest ==
  ASSUME NEW n \in Nat, NEW S \in SUBSET (0 .. n), S # {}
  PROVE  Max(S) \in S /\ \A y \in S : y <= Max(S)
<1> DEFINE T == {n - x : x \in S}
<1>1. T \in SUBSET Nat /\ T # {}
  <2>1. \A x \in S : n - x \in Nat
    OBVIOUS
  <2> QED BY <2>1
<1>2. Min(T) \in T /\ \A y \in T : Min(T) <= y
  <2> HIDE DEF T
  <2> QED BY <1>1, MinIsLeast
<1>3. PICK x \in S : \A y \in S : n - x <= n - y
  BY <1>2
<1>4. \E x1 \in S : \A y \in S : x1 >= y
  BY <1>3
<1> QED
  BY <1>4 DEF Max

(* hist_join() sends a run of the history. *)
LEMMA HistJoinIsRun ==
  ASSUME NEW M, NEW h \in Seq(M)
  PROVE  /\ HistJoin(h) \in Seq(M)
         /\ HistJoin(h) # <<>> =>
              \E s \in 1 .. Len(h) : \E e \in s .. Len(h) : HistJoin(h) = SubSeq(h, s, e)
<1>1. CASE h = <<>>
  BY <1>1 DEF HistJoin
<1>2. CASE h # <<>>
  <2> DEFINE S == {s \in 1 .. Len(h) :
                     Weight(h, s, Len(h)) < JoinBuf - 1 \/ s = Len(h)}
             st == JoinStart(h)
             E == {st - 1} \cup {k \in st .. Len(h) :
                                   \A i \in st .. k : RoomFor(h, st, i)}
  <2>1. Len(h) \in Nat \ {0}
    BY <1>2
  <2>2. st \in 1 .. Len(h)
    <3>1. S \in SUBSET Nat /\ S # {}
      BY <2>1
    <3>2. Min(S) \in S
      <4> HIDE DEF S
      <4> QED BY <3>1, MinIsLeast
    <3> QED BY <3>2 DEF JoinStart
  <2> HIDE DEF st
  <2>3. E \in SUBSET (0 .. Len(h)) /\ E # {}
    BY <2>1, <2>2
  <2>4. Max(E) \in 0 .. Len(h) /\ Max(E) >= st - 1
    <3>1. st - 1 \in E
      OBVIOUS
    <3> HIDE DEF E
    <3> QED BY <2>1, <2>3, <3>1, MaxIsGreatest
  <2>5. HistJoin(h) = SubSeq(h, st, Max(E))
    BY <1>2 DEF HistJoin, st
  <2> HIDE DEF E
  <2>6. \A i \in st .. Max(E) : h[i] \in M
    BY <2>2, <2>4
  <2>7. /\ HistJoin(h) \in Seq(M)
        /\ Len(HistJoin(h)) = IF st <= Max(E) THEN Max(E) - st + 1 ELSE 0
    BY <2>2, <2>4, <2>5, <2>6, SubSeqProperties
  <2>8. HistJoin(h) # <<>> => Max(E) \in st .. Len(h)
    BY <2>2, <2>4, <2>7
  <2> QED BY <2>2, <2>5, <2>7, <2>8
<1> QED BY <1>1, <1>2

-----------------------------------------------------------------------------
(* Induction, over a set of naturals in place of a predicate: from a least  *)
(* counterexample.                                                          *)
LEMMA NatOrder == IsWellFoundedOn({p \in Nat \X Nat : p[1] < p[2]}, Nat)
<1>1. {p \in Nat \X Nat : p[1] < p[2]} = OpToRel(<, Nat)
  BY DEF OpToRel
<1> QED BY <1>1, NatLessThanWellFounded

(* What holds 0 and, with a number, the next one, holds every number.       *)
LEMMA SetInduction ==
  ASSUME NEW S, 0 \in S, \A n \in Nat : n \in S => n + 1 \in S
  PROVE  Nat \subseteq S
<1> DEFINE T == Nat \ S
           R == {p \in Nat \X Nat : p[1] < p[2]}
<1> SUFFICES ASSUME T # {} PROVE FALSE
  OBVIOUS
<1>1. T \subseteq Nat
  OBVIOUS
<1> HIDE DEF R
<1>2. PICK x \in T : \A y \in T : ~(<<y, x>> \in R)
  BY <1>1, NatOrder, WFMin DEF R
<1>3. x \in Nat /\ x # 0 /\ x - 1 \in Nat
  OBVIOUS
<1>4. x - 1 \in T
  <2>1. (x - 1) + 1 = x
    BY <1>3
  <2> QED BY <1>3, <2>1
<1>5. <<x - 1, x>> \in R
  BY <1>3 DEF R
<1> QED BY <1>2, <1>4, <1>5

-----------------------------------------------------------------------------
(* The sums of hist_join().  Weight is a fold over the set of entries, one  *)
(* entry after the other in no given order: Weigher is the function on its  *)
(* subsets the fold is read off from.                                       *)
AnyOf(s) == CHOOSE x \in s : TRUE
Weigher(h, S) ==
  CHOOSE g : g = [s \in SUBSET S |->
                    IF s = {} THEN 0
                    ELSE LET x == CHOOSE x \in s : TRUE
                         IN  h[x].size + 1 + g[s \ {x}]]

(* What the community module's fold comes to.                               *)
LEMMA WeightIsWeigher ==
  ASSUME NEW h, NEW a, NEW b
  PROVE Weight(h, a, b) = Weigher(h, a .. b)[a .. b]
BY DEF Weight, Weigher, MapThenSumSet, MapThenFoldSet

(* A finite set without one of its elements is smaller.                     *)
LEMMA RemoveOne ==
  ASSUME NEW s, IsFiniteSet(s), NEW x \in s, NEW n \in Nat, Cardinality(s) <= n + 1
  PROVE  IsFiniteSet(s \ {x}) /\ Cardinality(s \ {x}) <= n
<1>1. IsFiniteSet(s \ {x}) /\ Cardinality(s \ {x}) = Cardinality(s) - 1
  BY FS_RemoveElement
<1>2. Cardinality(s) \in Nat
  BY FS_CardinalityType
<1> QED BY <1>1, <1>2

(* The fold is defined: by induction on the size of the sets, from a        *)
(* function on the smaller ones.                                            *)
LEMMA WeigherExists ==
  ASSUME NEW S, IsFiniteSet(S), NEW h, \A i \in S : h[i].size \in Nat
  PROVE  LET g == Weigher(h, S) IN
         /\ g \in [SUBSET S -> Nat]
         /\ g[{}] = 0
         /\ \A s \in SUBSET S : s # {} =>
              g[s] = h[AnyOf(s)].size + 1 + g[s \ {AnyOf(s)}]
<1> DEFINE Small(n) == {s \in SUBSET S : Cardinality(s) <= n}
           Eq(g, D) == /\ g \in [D -> Nat]
                       /\ \A s \in D : g[s] = IF s = {} THEN 0
                            ELSE h[AnyOf(s)].size + 1 + g[s \ {AnyOf(s)}]
           I == {n \in Nat : \E g : Eq(g, Small(n))}
<1>0. \A s \in SUBSET S : IsFiniteSet(s) /\ Cardinality(s) \in Nat
  BY FS_Subset, FS_CardinalityType
<1>a. \A s \in SUBSET S : s # {} => AnyOf(s) \in s
  BY DEF AnyOf
<1>1. 0 \in I
  <2>1. Small(0) = {{}}
    <3>1. \A s \in Small(0) : s = {}
      BY <1>0, FS_EmptySet
    <3>2. {} \in Small(0)
      BY FS_EmptySet
    <3> QED BY <3>1, <3>2
  <2> DEFINE g0 == [s \in Small(0) |-> 0]
  <2>2. Eq(g0, Small(0))
    BY <2>1
  <2> QED BY <2>2
<1>2. ASSUME NEW n \in Nat, n \in I PROVE n + 1 \in I
  <2>1. PICK g : Eq(g, Small(n))
    BY <1>2
  <2> DEFINE h1 == [s \in Small(n + 1) |-> IF s = {} THEN 0
                      ELSE h[AnyOf(s)].size + 1 + g[s \ {AnyOf(s)}]]
  <2>2. \A s \in Small(n + 1) : s # {} => AnyOf(s) \in S /\ s \ {AnyOf(s)} \in Small(n)
    <3> SUFFICES ASSUME NEW s \in Small(n + 1), s # {}
                 PROVE  AnyOf(s) \in S /\ s \ {AnyOf(s)} \in Small(n)
      OBVIOUS
    <3>1. AnyOf(s) \in s
      BY <1>a
    <3>2. Cardinality(s \ {AnyOf(s)}) <= n
      BY <1>0, <3>1, RemoveOne
    <3> QED BY <3>1, <3>2
  <2>3. \A t \in Small(n) : t \in Small(n + 1) /\ g[t] \in Nat
    BY <1>0, <2>1
  <2>4. h1 \in [Small(n + 1) -> Nat]
    <3>1. \A s \in Small(n + 1) : s # {} => h[AnyOf(s)].size + 1 + g[s \ {AnyOf(s)}] \in Nat
      <4> HIDE DEF Small
      <4> QED BY <2>2, <2>3
    <3> HIDE DEF Small
    <3> QED BY <3>1
  <2>5. \A t \in Small(n) : h1[t] = g[t]
    <3> HIDE DEF Small
    <3> QED BY <2>1, <2>3
  <2>6. Eq(h1, Small(n + 1))
    <3> HIDE DEF Small
    <3> QED BY <2>2, <2>4, <2>5
  <2>7. \E f : Eq(f, Small(n + 1))
    <3> HIDE DEF Eq, h1, Small
    <3> QED BY <2>6
  <2> HIDE DEF Eq, Small
  <2> QED BY <2>7
<1>3. \A n \in Nat : n \in I
  <2> HIDE DEF I
  <2> QED BY <1>1, <1>2, SetInduction
<1>4. Cardinality(S) \in Nat /\ Small(Cardinality(S)) = SUBSET S
  BY <1>0, FS_Subset
<1>5. PICK g : Eq(g, SUBSET S)
  <2> HIDE DEF Eq, Small
  <2> QED BY <1>3, <1>4
<1>6. g = [s \in SUBSET S |->
                    IF s = {} THEN 0
                    ELSE LET x == CHOOSE x \in s : TRUE
                         IN  h[x].size + 1 + g[s \ {x}]]
  BY <1>5 DEF AnyOf
<1> DEFINE w == Weigher(h, S)
<1>7. w = [s \in SUBSET S |->
                    IF s = {} THEN 0
                    ELSE LET x == CHOOSE x \in s : TRUE
                         IN  h[x].size + 1 + w[s \ {x}]]
  BY <1>6 DEF Weigher
<1> HIDE DEF w
<1> DEFINE J == {n \in Nat : \A s \in Small(n) : w[s] \in Nat}
<1>8. 0 \in J
  <2>1. \A s \in Small(0) : s = {}
    BY <1>0, FS_EmptySet
  <2> QED BY <1>7, <2>1
<1>9. ASSUME NEW n \in Nat, n \in J PROVE n + 1 \in J
  <2> SUFFICES ASSUME NEW s \in Small(n + 1), s # {} PROVE w[s] \in Nat
    BY <1>7
  <2>1. AnyOf(s) \in s /\ w[s] = h[AnyOf(s)].size + 1 + w[s \ {AnyOf(s)}]
    BY <1>7, <1>a DEF AnyOf
  <2>2. s \ {AnyOf(s)} \in Small(n)
    BY <1>0, <2>1, RemoveOne
  <2>3. w[s \ {AnyOf(s)}] \in Nat /\ h[AnyOf(s)].size \in Nat
    BY <1>9, <2>1, <2>2
  <2> QED BY <2>1, <2>3
<1>10. \A n \in Nat : n \in J
  <2> HIDE DEF J
  <2> QED BY <1>8, <1>9, SetInduction
<1>11. \A s \in SUBSET S : w[s] \in Nat
  BY <1>4, <1>10
<1>12. w \in [SUBSET S -> Nat]
  BY <1>7, <1>11
<1> QED BY <1>7, <1>12, <1>a DEF w, AnyOf

(* The sum does not depend on which entry is added first.                   *)
LEMMA WeigherAny ==
  ASSUME NEW S, IsFiniteSet(S), NEW h, \A i \in S : h[i].size \in Nat
  PROVE  \A s \in SUBSET S : \A y \in s :
           Weigher(h, S)[s] = h[y].size + 1 + Weigher(h, S)[s \ {y}]
<1> DEFINE w == Weigher(h, S)
           Small(n) == {t \in SUBSET S : Cardinality(t) <= n}
           J == {n \in Nat : \A t \in Small(n) : \A z \in t :
                               w[t] = h[z].size + 1 + w[t \ {z}]}
<1>0. \A t \in SUBSET S : IsFiniteSet(t) /\ Cardinality(t) \in Nat
  BY FS_Subset, FS_CardinalityType
<1>1. /\ w \in [SUBSET S -> Nat]
      /\ \A t \in SUBSET S : t # {} => w[t] = h[AnyOf(t)].size + 1 + w[t \ {AnyOf(t)}]
  BY WeigherExists
<1> HIDE DEF w
<1>2. 0 \in J
  <2>1. \A t \in Small(0) : t = {}
    BY <1>0, FS_EmptySet
  <2> QED BY <2>1
<1>3. ASSUME NEW n \in Nat, n \in J PROVE n + 1 \in J
  <2> SUFFICES ASSUME NEW t \in Small(n + 1), NEW z \in t
               PROVE  w[t] = h[z].size + 1 + w[t \ {z}]
    OBVIOUS
  <2> DEFINE p == AnyOf(t)
  <2>1. p \in t /\ w[t] = h[p].size + 1 + w[t \ {p}]
    BY <1>1 DEF AnyOf
  <2>2. CASE p = z
    BY <2>1, <2>2
  <2>3. CASE p # z
    <3>1. t \ {p} \in Small(n) /\ t \ {z} \in Small(n)
      BY <1>0, <2>1, RemoveOne
    <3> DEFINE r == t \ {p, z}
    <3>2. r = (t \ {p}) \ {z} /\ r = (t \ {z}) \ {p} /\ r \in SUBSET S
      OBVIOUS
    <3> HIDE DEF p, r
    <3>3. w[t \ {p}] = h[z].size + 1 + w[r]
      BY <1>3, <2>3, <3>1, <3>2
    <3>4. w[t \ {z}] = h[p].size + 1 + w[r]
      BY <1>3, <2>1, <2>3, <3>1, <3>2
    <3>5. h[z].size \in Nat /\ h[p].size \in Nat /\ w[r] \in Nat
      BY <1>1, <2>1, <3>2
    <3> QED BY <2>1, <3>3, <3>4, <3>5
  <2> QED BY <2>2, <2>3
<1>4. \A n \in Nat : n \in J
  <2> HIDE DEF J
  <2> QED BY <1>2, <1>3, SetInduction
<1>5. Cardinality(S) \in Nat /\ \A s \in SUBSET S : s \in Small(Cardinality(S))
  BY <1>0, FS_Subset
<1> QED BY <1>4, <1>5 DEF w

(* ... nor on the set whose subset is summed.                               *)
LEMMA WeigherSame ==
  ASSUME NEW S, IsFiniteSet(S), NEW h, \A i \in S : h[i].size \in Nat,
         NEW T \in SUBSET S
  PROVE  Weigher(h, S)[T] = Weigher(h, T)[T]
<1> DEFINE w == Weigher(h, S)
           v == Weigher(h, T)
           Small(n) == {t \in SUBSET T : Cardinality(t) <= n}
           J == {n \in Nat : \A t \in Small(n) : w[t] = v[t]}
<1>0. /\ IsFiniteSet(T)
      /\ \A t \in SUBSET T : IsFiniteSet(t) /\ Cardinality(t) \in Nat
  BY FS_Subset, FS_CardinalityType
<1>1. /\ \A t \in SUBSET S : t # {} => w[t] = h[AnyOf(t)].size + 1 + w[t \ {AnyOf(t)}]
      /\ w[{}] = 0
  BY WeigherExists
<1>2. /\ \A t \in SUBSET T : t # {} => v[t] = h[AnyOf(t)].size + 1 + v[t \ {AnyOf(t)}]
      /\ v[{}] = 0
  BY <1>0, WeigherExists
<1> HIDE DEF w, v
<1>3. 0 \in J
  <2>1. \A t \in Small(0) : t = {}
    BY <1>0, FS_EmptySet
  <2> QED BY <1>1, <1>2, <2>1
<1>4. ASSUME NEW n \in Nat, n \in J PROVE n + 1 \in J
  <2> SUFFICES ASSUME NEW t \in Small(n + 1) PROVE w[t] = v[t]
    OBVIOUS
  <2>0. CASE t = {}
    BY <1>1, <1>2, <2>0
  <2> SUFFICES ASSUME t # {} PROVE w[t] = v[t]
    BY <2>0
  <2>1. AnyOf(t) \in t
    BY DEF AnyOf
  <2>2. t \ {AnyOf(t)} \in Small(n)
    BY <1>0, <2>1, RemoveOne
  <2>3. w[t \ {AnyOf(t)}] = v[t \ {AnyOf(t)}]
    BY <1>4, <2>2
  <2>4. t \in SUBSET S /\ t \in SUBSET T
    OBVIOUS
  <2> QED BY <1>1, <1>2, <2>3, <2>4
<1>5. \A n \in Nat : n \in J
  <2> HIDE DEF J
  <2> QED BY <1>3, <1>4, SetInduction
<1>6. Cardinality(T) \in Nat /\ T \in Small(Cardinality(T))
  BY <1>0
<1> QED BY <1>5, <1>6 DEF w, v

(* One entry and the sum of the rest.                                       *)
LEMMA WeigherTakes ==
  ASSUME NEW S, IsFiniteSet(S), NEW h, \A i \in S : h[i].size \in Nat, NEW y \in S
  PROVE  Weigher(h, S)[S] = h[y].size + 1 + Weigher(h, S \ {y})[S \ {y}]
<1>1. S \in SUBSET S /\ S \ {y} \in SUBSET S
  OBVIOUS
<1>2. Weigher(h, S)[S] = h[y].size + 1 + Weigher(h, S)[S \ {y}]
  BY <1>1, WeigherAny
<1>3. Weigher(h, S)[S \ {y}] = Weigher(h, S \ {y})[S \ {y}]
  BY <1>1, WeigherSame
<1> QED BY <1>2, <1>3

(* A sum of lengths is a length.                                            *)
LEMMA WeightType ==
  ASSUME NEW h, NEW a \in Int, NEW b \in Int, \A i \in a .. b : h[i].size \in Nat
  PROVE  Weight(h, a, b) \in Nat
<1> DEFINE S == a .. b
<1>1. IsFiniteSet(S) /\ S \in SUBSET S /\ \A i \in S : h[i].size \in Nat
  <2>1. IsFiniteSet(S)
    BY FS_Interval
  <2> QED BY <2>1
<1> HIDE DEF S
<1>2. Weigher(h, S) \in [SUBSET S -> Nat]
  BY <1>1, WeigherExists
<1>3. Weigher(h, S)[S] \in Nat
  BY <1>1, <1>2
<1> QED BY <1>3, WeightIsWeigher DEF S

(* Weight is the total hist_join() adds up entry by entry.                  *)
LEMMA WeightLoop ==
  ASSUME NEW h, NEW a \in Nat, NEW b \in Nat, a <= b, \A i \in a .. b : h[i].size \in Nat
  PROVE  /\ Weight(h, a, b) \in Nat
         /\ Weight(h, a, a) = h[a].size + 1
         /\ a < b => Weight(h, a, b) = Weight(h, a, b - 1) + h[b].size + 1
<1>0. IsFiniteSet(a .. b) /\ IsFiniteSet({a})
  <2>1. a \in Int /\ b \in Int
    OBVIOUS
  <2> QED BY <2>1, FS_Interval, FS_Singleton
<1> DEFINE w == Weigher(h, a .. b)
<1>1. w \in [SUBSET (a .. b) -> Nat] /\ Weight(h, a, b) = w[a .. b]
  BY <1>0, WeightIsWeigher, WeigherExists
<1> HIDE DEF w
<1>2. Weight(h, a, a) = h[a].size + 1
  <2> DEFINE one == {a}
             u == Weigher(h, one)
  <2>1. /\ a .. a = one /\ one \ {a} = {} /\ one \in SUBSET one /\ a \in one
        /\ IsFiniteSet(one) /\ \A i \in one : h[i].size \in Nat
    BY <1>0
  <2> HIDE DEF one
  <2>2. u[one] = h[a].size + 1 + u[one \ {a}]
    BY <2>1, WeigherAny
  <2>3. u[{}] = 0
    BY <2>1, WeigherExists
  <2>4. Weight(h, a, a) = u[one]
    BY <2>1, WeightIsWeigher
  <2> HIDE DEF u
  <2>5. u[one] = h[a].size + 1 + 0 /\ h[a].size \in Nat
    BY <2>1, <2>2, <2>3
  <2> QED BY <2>4, <2>5
<1>3. ASSUME a < b PROVE Weight(h, a, b) = Weight(h, a, b - 1) + h[b].size + 1
  <2>1. /\ (a .. b) \ {b} = a .. (b - 1) /\ a .. (b - 1) \in SUBSET (a .. b)
        /\ b \in a .. b /\ h[b].size \in Nat
    BY <1>3
  <2>2. w[a .. b] = h[b].size + 1 + Weigher(h, (a .. b) \ {b})[(a .. b) \ {b}]
    BY <1>0, <2>1, WeigherTakes DEF w
  <2>3. Weight(h, a, b - 1) = Weigher(h, (a .. b) \ {b})[(a .. b) \ {b}]
    BY <2>1, WeightIsWeigher
  <2>4. Weight(h, a, b - 1) \in Nat
    <3>1. b - 1 \in Int /\ \A i \in a .. (b - 1) : h[i].size \in Nat
      BY <2>1
    <3> QED BY <3>1, WeightType
  <2>5. Weight(h, a, b) = h[b].size + 1 + Weight(h, a, b - 1)
    BY <1>1, <2>2, <2>3
  <2> QED BY <2>1, <2>4, <2>5
<1> QED BY <1>1, <1>2, <1>3

(* More entries never weigh less.                                           *)
LEMMA WeightGrows ==
  ASSUME NEW h, NEW a \in Nat, NEW b \in Nat, NEW c \in Nat, a <= b, b <= c,
         \A i \in a .. c : h[i].size \in Nat
  PROVE  Weight(h, a, b) <= Weight(h, a, c)
<1> DEFINE J == {n \in Nat : b + n <= c => Weight(h, a, b) <= Weight(h, a, b + n)}
<1>1. 0 \in J
  <2>1. Weight(h, a, b) \in Nat
    BY WeightLoop
  <2> QED BY <2>1
<1>2. ASSUME NEW n \in Nat, n \in J PROVE n + 1 \in J
  <2> SUFFICES ASSUME b + (n + 1) <= c PROVE Weight(h, a, b) <= Weight(h, a, b + (n + 1))
    OBVIOUS
  <2> DEFINE k == b + (n + 1)
  <2>1. k \in Nat /\ a <= k /\ a < k /\ k - 1 = b + n /\ b + n \in Nat /\ a <= b + n /\ b + n <= c
        /\ \A i \in a .. k : h[i].size \in Nat
    OBVIOUS
  <2>2. Weight(h, a, b) <= Weight(h, a, b + n)
    BY <1>2, <2>1
  <2>3. Weight(h, a, b) \in Nat /\ Weight(h, a, b + n) \in Nat
    BY <2>1, WeightLoop
  <2> HIDE DEF k
  <2>4. Weight(h, a, k) = Weight(h, a, b + n) + h[k].size + 1 /\ h[k].size \in Nat
    BY <2>1, WeightLoop
  <2>5. Weight(h, a, b) <= Weight(h, a, k)
    BY <2>2, <2>3, <2>4
  <2> QED BY <2>5 DEF k
<1>3. c - b \in J
  <2> HIDE DEF J
  <2> QED BY <1>1, <1>2, SetInduction
<1>4. b + (c - b) = c
  OBVIOUS
<1> QED BY <1>3, <1>4

(* hist_join() sends a tail of the history when the newest turn fits alone:  *)
(* the copy loop never stops before it.                                      *)
LEMMA JoinSendsTail ==
  ASSUME NEW h \in Seq(Message), h # <<>>, h[Len(h)].size + 2 < JoinBuf
  PROVE  \E s \in 1 .. Len(h) : HistJoin(h) = SubSeq(h, s, Len(h))
<1> DEFINE n == Len(h)
           S == {s \in 1 .. n : Weight(h, s, n) < JoinBuf - 1 \/ s = n}
           st == JoinStart(h)
           E == {st - 1} \cup {k \in st .. n : \A i \in st .. k : RoomFor(h, st, i)}
<1>1. n \in Nat \ {0} /\ JoinBuf \in Nat /\ \A i \in 1 .. n : h[i].size \in Nat
  <2>1. \A i \in 1 .. n : h[i] \in Message
    OBVIOUS
  <2>2. \A m \in Message : m.size \in Nat
    BY DEF Message
  <2> QED BY <2>1, <2>2, SizesAssumption
<1>2. st \in S
  <2>1. S \in SUBSET Nat /\ S # {}
    BY <1>1
  <2>2. Min(S) \in S
    <3> HIDE DEF S
    <3> QED BY <2>1, MinIsLeast
  <2> QED BY <2>2 DEF JoinStart
<1> HIDE DEF st
<1>3. st \in 1 .. n /\ (Weight(h, st, n) < JoinBuf - 1 \/ st = n)
  BY <1>2
<1>4. \A i \in st .. n : RoomFor(h, st, i)
  <2> SUFFICES ASSUME NEW i \in st .. n PROVE RoomFor(h, st, i)
    OBVIOUS
  <2>1. /\ st \in Nat /\ i \in Nat /\ n \in Nat /\ st <= i /\ i <= n
        /\ \A j \in st .. n : h[j].size \in Nat
    BY <1>1, <1>3
  <2>2. h[st].size \in Nat /\ Weight(h, st, i) \in Nat /\ Weight(h, st, n) \in Nat
    BY <2>1, WeightType
  <2>3. Weight(h, st, st) = h[st].size + 1
    BY <2>1, WeightLoop
  <2>4. Weight(h, st, st) <= Weight(h, st, i) /\ Weight(h, st, i) <= Weight(h, st, n)
    BY <2>1, WeightGrows
  <2>5. CASE Weight(h, st, n) < JoinBuf - 1
    BY <1>1, <2>2, <2>3, <2>4, <2>5 DEF RoomFor
  <2>6. CASE st = n
    <3>1. i = st
      BY <2>1, <2>6
    <3> QED BY <2>6, <3>1 DEF RoomFor
  <2> QED BY <1>3, <2>5, <2>6
<1>5. Max(E) = n
  <2>1. E \in SUBSET (0 .. n) /\ n \in E
    BY <1>1, <1>3, <1>4
  <2> HIDE DEF E
  <2>2. Max(E) \in E /\ n <= Max(E) /\ Max(E) \in 0 .. n
    BY <1>1, <2>1, MaxIsGreatest
  <2> QED BY <1>1, <2>2
<1> QED BY <1>3, <1>5 DEF HistJoin, st

-----------------------------------------------------------------------------
(* Making room on the history keeps its order and its newest entries.       *)
LEMMA EvictedFacts ==
  ASSUME NEW M, NEW h \in Seq(M)
  PROVE  LET d == IF Len(h) >= MaxMsgs THEN 2 ELSE 0
         IN  /\ Evicted(h) \in Seq(M)
             /\ d <= Len(h)
             /\ Len(Evicted(h)) = Len(h) - d
             /\ \A i \in 1 .. Len(h) - d : Evicted(h)[i] = h[i + d]
<1>1. Len(h) \in Nat /\ MaxMsgs \in Nat /\ MaxMsgs >= 4
  BY SizesAssumption
<1>2. CASE Len(h) >= MaxMsgs
  <2>1. \A i \in 3 .. Len(h) : h[i] \in M
    OBVIOUS
  <2>2. /\ SubSeq(h, 3, Len(h)) \in Seq(M)
        /\ Len(SubSeq(h, 3, Len(h))) = Len(h) - 2
        /\ \A i \in 1 .. Len(h) - 2 : SubSeq(h, 3, Len(h))[i] = h[i + 2]
    BY <1>1, <1>2, <2>1, SubSeqProperties
  <2> QED BY <1>1, <1>2, <2>2 DEF Evicted
<1>3. CASE ~(Len(h) >= MaxMsgs)
  BY <1>1, <1>3 DEF Evicted
<1> QED BY <1>2, <1>3

(* hist_add() adds at most its message, after what it kept.                 *)
LEMMA HistAddFacts ==
  ASSUME NEW M, hist \in Seq(M), NEW m \in M, HistAdd(m)
  PROVE  /\ hist' \in Seq(M)
         /\ ~OutOfMemory => hist' = Append(Evicted(hist), m)
         /\ hist' = Append(Evicted(hist), m) \/ hist' = Evicted(hist)
<1>1. Evicted(hist) \in Seq(M)
  BY EvictedFacts
<1>2. Append(Evicted(hist), m) \in Seq(M)
  BY <1>1, AppendProperties
<1> QED BY <1>1, <1>2 DEF HistAdd

(* What a tool may answer. *)
LEMMA OutcomesFacts ==
  ASSUME NEW c \in Call, NEW o \in Outcomes(c)
  PROVE  /\ o \in Outcome
         /\ o.how # "none" => Gated(c)
<1> DEFINE O == Outcome
<1>0. \A l : l = ShortLen \/ l \in BlockLens => l \in Nat \cup {Overflow}
  BY SizesAssumption
<1>1. \A h, k, l : /\ h \in {"none", "whole", "cut", "partial"} /\ k \in Says
                   /\ l = ShortLen \/ l \in BlockLens
                   => [how |-> h, says |-> k, len |-> l] \in O
  BY <1>0 DEF Outcome
<1>8. "done" \in Says /\ "error" \in Says /\ "doubt" \in Says
  BY DEF Says
<1> HIDE DEF O
<1>6. Refused \in O /\ Refused.how = "none"
  BY <1>1, <1>8 DEF Refused
<1>2. CASE c.tool = "read" /\ c.arg
  <2>1. o \in ReadOutcomes
    BY <1>2 DEF Outcomes
  <2>2. CASE o = Refused
    BY <1>6, <2>2 DEF O
  <2>3. CASE o \in {[how |-> "none", says |-> "done", len |-> l] : l \in BlockLens}
    <3>1. PICK l \in BlockLens : o = [how |-> "none", says |-> "done", len |-> l]
      BY <2>3
    <3> QED BY <1>1, <1>8, <3>1 DEF O
  <2> QED BY <2>1, <2>2, <2>3 DEF ReadOutcomes
<1>3. CASE c.tool = "write" /\ c.arg
  <2>1. o \in WriteOutcomes(c)
    BY <1>3 DEF Outcomes
  <2>2. WriteOutcomes(c) \subseteq O
    BY <1>1, <1>6, <1>8 DEF WriteOutcomes
  <2> QED BY <1>3, <2>1, <2>2 DEF Gated, O
<1>4. CASE c.tool = "run" /\ c.arg
  <2>1. o \in RunOutcomes(c)
    BY <1>4 DEF Outcomes
  <2>2. RunOutcomes(c) \subseteq O
    BY <1>1, <1>6, <1>8 DEF RunOutcomes
  <2> QED BY <1>4, <2>1, <2>2 DEF Gated, O
<1>5. CASE ~c.arg \/ c.tool = "unknown"
  <2>1. o \in {Refused}
    BY <1>5 DEF Outcomes, Call
  <2> QED BY <1>6, <2>1 DEF O
<1> QED BY <1>2, <1>3, <1>4, <1>5 DEF Call

(* The results turn under construction keeps its shape.                     *)
LEMMA AddResultType ==
  ASSUME NEW tm \in [toks : Seq(Token), used : Nat],
         NEW i \in Nat, NEW o \in Outcome
  PROVE  AddResult(tm, i, o) \in [toks : Seq(Token), used : Nat]
<1> DEFINE T == [toks : Seq(Token), used : Nat]
<1>1. Comma \in Token /\ Block(i, o.says) \in Token
  BY DEF Comma, Block, Token, Outcome
<1> HIDE DEF T
<1>2. \A q, t, n : q \in Seq(Token) /\ t \in Token /\ n \in Nat
        => [toks |-> Append(q, t), used |-> n] \in T
  BY AppendProperties DEF T
<1>3. \A r \in T : r.toks \in Seq(Token) /\ r.used \in Nat
  BY DEF T
<1>4. tm \in T
  BY DEF T
<1> DEFINE tc == WithComma(tm, i)
<1>5. tc \in T
  <2>1. tm.used + 1 \in Nat
    BY <1>3, <1>4
  <2>2. [toks |-> Append(tm.toks, Comma), used |-> tm.used + 1] \in T
    BY <1>1, <1>2, <1>3, <1>4, <2>1
  <2> QED BY <1>4, <2>2 DEF WithComma
<1> HIDE DEF tc
<1>6. CASE o.len = Overflow
  BY <1>4, <1>6 DEF AddResult, T
<1>7. CASE o.len # Overflow
  <2>1. o.len \in Nat
    BY <1>7 DEF Outcome
  <2>2. tc.used + o.len \in Nat
    BY <1>3, <1>5, <2>1
  <2>3. [toks |-> Append(tc.toks, Block(i, o.says)), used |-> tc.used + o.len] \in T
    BY <1>1, <1>2, <1>3, <1>5, <2>2
  <2>4. WithBlock(tc, i, o) \in T
    BY <1>5, <2>3 DEF WithBlock
  <2> QED BY <1>7, <2>4 DEF AddResult, tc, T
<1> QED BY <1>6, <1>7

(* The calls that are kept are calls of the reply.                          *)
LEMMA KeptFacts ==
  ASSUME NEW r \in Replies
  PROVE  /\ r.calls \in Seq(Call) /\ Len(r.calls) \in Nat \ {0}
         /\ Kept(r) \in Nat \ {0} /\ Kept(r) <= Len(r.calls) /\ Kept(r) <= MaxTools
<1>1. r \in Reply /\ Len(r.calls) > 0
  BY RepliesAssumption
<1>2. r.calls \in Seq(Call) /\ Len(r.calls) \in Nat
  BY <1>1 DEF Reply
<1>3. MaxTools \in Nat \ {0}
  BY SizesAssumption
<1> QED BY <1>1, <1>2, <1>3 DEF Kept

(* Settling one call keeps the types.                                       *)
LEMMA FinishType ==
  ASSUME TypeOK, pc \in {"tools", "confirm"}, next <= Kept(reply),
         NEW o \in Outcome, o.how # "none" => Gated(Current),
         NEW how \in Approval, Finish(o, how)
  PROVE  /\ log' \in Seq(Effect)
         /\ \/ log' = log
            \/ /\ o.how # "none"
               /\ log' = Append(log,
                           [prompt |-> prompts, iter |-> iter, call |-> next,
                            tool |-> Current.tool, how |-> o.how, asked |-> how])
         /\ toolmsg' \in [toks : Seq(Token), used : Nat]
         /\ next' = next + 1 /\ next' \in Nat \ {0} /\ next' <= Kept(reply') + 1
         /\ pc' = "tools" /\ reply' = reply /\ iter' = iter
         /\ UNCHANGED <<hist, iter, request, reply, prompts>>
<1>1. /\ log' = Logged(Current, o, how)
      /\ toolmsg' = AddResult(toolmsg, next, o)
      /\ next' = next + 1 /\ pc' = "tools"
      /\ UNCHANGED <<hist, iter, request, reply, prompts>>
  BY DEF Finish
<1>2. /\ reply \in Replies /\ next \in Nat \ {0} /\ iter \in Nat /\ prompts \in Nat
      /\ toolmsg \in [toks : Seq(Token), used : Nat] /\ log \in Seq(Effect)
  BY SizesAssumption DEF TypeOK
<1>3. Kept(reply) \in Nat
  BY <1>2, KeptFacts
<1>4. toolmsg' \in [toks : Seq(Token), used : Nat]
  BY <1>1, <1>2, AddResultType
<1>7. /\ next' \in Nat \ {0} /\ next' <= Kept(reply') + 1
      /\ reply' = reply /\ iter' = iter
  <2>1. reply' = reply /\ iter' = iter
    BY <1>1
  <2>2. Kept(reply') = Kept(reply)
    BY <2>1
  <2> QED BY <1>1, <1>2, <1>3, <2>1, <2>2
<1> DEFINE e == [prompt |-> prompts, iter |-> iter, call |-> next,
                 tool |-> Current.tool, how |-> o.how, asked |-> how]
<1>5. CASE o.how = "none"
  <2>1. log' = log
    BY <1>1, <1>5 DEF Logged
  <2> QED BY <1>1, <1>2, <1>4, <1>7, <2>1
<1>6. CASE o.how # "none"
  <2>1. log' = Append(log, e)
    BY <1>1, <1>6 DEF Logged
  <2>2. Current.tool \in {"write", "run"}
    BY <1>6 DEF Gated
  <2>3. o.how \in {"whole", "cut", "partial"}
    BY <1>6 DEF Outcome
  <2>4. e \in Effect
    BY <1>2, <2>2, <2>3 DEF Effect
  <2>5. Append(log, e) \in Seq(Effect)
    <3> HIDE DEF e
    <3> QED BY <1>2, <2>4, AppendProperties
  <2> QED BY <1>1, <1>4, <1>6, <1>7, <2>1, <2>5
<1> QED BY <1>5, <1>6

(* Each turn the client records is a message.                               *)
LEMMA MessagesTyped ==
  ASSUME TypeOK
  PROVE  /\ \A n \in Nat, len \in PromptLens : PromptMsg(n, len) \in Message
         /\ \A r \in Replies : AsstMsg(r) \in Message
         /\ ResultsMsg \in Message
<1>1. /\ prompts \in Nat /\ iter \in Nat
      /\ toolmsg.toks \in Seq(Token) /\ toolmsg.used + 2 \in Nat
  BY SizesAssumption DEF TypeOK
<1>2. <<>> \in Seq(Call) /\ <<>> \in Seq(Token)
  OBVIOUS
<1>3. \A n \in Nat, len \in PromptLens : PromptMsg(n, len) \in Message
  <2>1. \A len \in PromptLens : len \in Nat
    BY SizesAssumption
  <2> QED BY <1>2, <2>1 DEF PromptMsg, Message
<1>4. \A r \in Replies : AsstMsg(r) \in Message
  <2>1. \A r \in Replies : r.calls \in Seq(Call) /\ r.size \in Nat
    BY RepliesAssumption DEF Reply
  <2>2. ContentBuf \in Nat
    BY SizesAssumption
  <2>3. \A r \in Replies :
          /\ (r.size > ContentBuf) \in BOOLEAN
          /\ (IF r.size > ContentBuf THEN ContentBuf ELSE r.size) \in Nat
    BY <2>1, <2>2
  <2> QED BY <1>1, <1>2, <2>1, <2>3 DEF AsstMsg, Message
<1>5. ResultsMsg \in Message
  BY <1>1, <1>2 DEF ResultsMsg, Message
<1> QED BY <1>3, <1>4, <1>5

(* fgets(): what is left unread are lines; of a line that fits, nothing.    *)
LEMMA UnreadType ==
  ASSUME NEW q \in Seq(Line), q # <<>>, NEW n \in Nat
  PROVE  Unread(q, n) \in Seq(Line)
<1> DEFINE rest == SubSeq(Head(q), n + 1, Len(Head(q)))
           first == IF rest = <<>> THEN <<>> ELSE <<rest>>
<1>1. Head(q) \in Line /\ Tail(q) \in Seq(Line)
  BY HeadTailProperties
<1>2. Head(q) \in Seq({"y", "n"}) /\ Len(Head(q)) \in Nat
  BY <1>1 DEF Line
<1>3. rest \in Seq({"y", "n"})
  BY <1>2, SubSeqProperties
<1> HIDE DEF rest
<1>4. first \in Seq(Line)
  <2>1. CASE rest = <<>>
    BY <2>1
  <2>2. CASE rest # <<>>
    <3>1. rest \in Line
      BY <1>3, <2>2 DEF Line
    <3>2. <<rest>> \in Seq(Line)
      <4> HIDE DEF first
      <4> QED BY <3>1
    <3> QED BY <2>2, <3>2
  <2> QED BY <2>1, <2>2
<1> HIDE DEF first
<1>5. first \o Tail(q) \in Seq(Line)
  BY <1>1, <1>4, ConcatProperties
<1> QED BY <1>5 DEF Unread, first, rest

LEMMA TypedFacts ==
  ASSUME TypeOK, NEW line \in Lines, NEW n \in Nat, Typed(line, n)
  PROVE  /\ stdin' \in Seq(Line) /\ tidy' \in BOOLEAN /\ (tidy' => stdin' = <<>>)
         /\ tidy' => tidy
<1>1. line \in Line /\ line \in Seq({"y", "n"}) /\ Len(line) \in Nat
  BY SizesAssumption DEF Line
<1>2. <<line>> \in Seq(Line) /\ <<line>> # <<>>
  BY <1>1
<1>3. stdin' = Unread(<<line>>, n) /\ tidy' = (tidy /\ Len(line) <= n)
  BY DEF Typed
<1>4. ASSUME Len(line) <= n PROVE Unread(<<line>>, n) = <<>>
  <2>1. SubSeq(line, n + 1, Len(line)) = <<>>
    BY <1>1, <1>4, SubSeqProperties
  <2>2. Head(<<line>>) = line /\ Tail(<<line>>) = <<>>
    OBVIOUS
  <2>3. <<>> \o <<>> = <<>>
    OBVIOUS
  <2> QED BY <2>1, <2>2, <2>3 DEF Unread
<1>5. tidy \in BOOLEAN
  BY DEF TypeOK
<1> QED BY <1>2, <1>3, <1>4, <1>5, UnreadType

(* confirm() decides on what it reads; from stdin only what is not tidy.    *)
LEMMA UserDecides ==
  ASSUME TypeOK, User
  PROVE  /\ pc = "confirm" /\ stdin' \in Seq(Line) /\ tidy' \in BOOLEAN
         /\ (tidy' => stdin' = <<>>) /\ (tidy' => tidy)
         /\ \E piece \in {"y", "n", "none"}, from \in {"line", "rest"} :
              Decide(piece, from) /\ (tidy' => from = "line")
<1> USE DEF TypeOK
<1>1. CASE AnswerTyped
  <2>1. PICK line \in Lines : Typed(line, 1) /\ Decide(Head(line), "line")
    BY <1>1 DEF AnswerTyped
  <2>2. line \in Seq({"y", "n"}) /\ line # <<>>
    BY SizesAssumption DEF Line
  <2>3. Head(line) \in {"y", "n"}
    BY <2>2, HeadTailProperties
  <2> QED BY <1>1, <2>1, <2>3, TypedFacts DEF AnswerTyped
<1>2. CASE AnswerLeftover
  <2>1. /\ pc = "confirm" /\ stdin # <<>> /\ stdin \in Seq(Line) /\ tidy' = tidy
        /\ stdin' = Unread(stdin, 1) /\ Decide(Head(Head(stdin)), "rest") /\ ~tidy
    BY <1>2 DEF AnswerLeftover
  <2>2. Head(stdin) \in Line
    BY <2>1, HeadTailProperties
  <2>3. Head(Head(stdin)) \in {"y", "n"}
    BY <2>2, HeadTailProperties DEF Line
  <2>4. stdin' \in Seq(Line)
    BY <2>1, UnreadType
  <2> QED BY <2>1, <2>3, <2>4
<1>3. CASE AnswerEof
  BY <1>3 DEF AnswerEof
<1> QED BY <1>1, <1>2, <1>3 DEF User

(* The answer settles the call at hand; it has an effect only after a y.    *)
LEMMA DecideFacts ==
  ASSUME TypeOK, pc = "confirm", NEW piece \in {"y", "n", "none"},
         NEW from \in {"line", "rest"}, Decide(piece, from)
  PROVE  \E o \in Outcome, how \in Approval :
           /\ Finish(o, how) /\ how.from = from
           /\ o.how # "none" => how.read = "y"
           /\ o \in Outcomes(Current) \/ o = Refused
<1> DEFINE how == [read |-> piece, from |-> from]
<1>1. Current \in Call
  <2>1. reply \in Replies /\ next \in Nat \ {0} /\ next <= Kept(reply)
    BY DEF TypeOK
  <2> QED BY <2>1, KeptFacts DEF Current
<1>2. how \in Approval /\ how.from = from /\ how.read = piece
  BY DEF Approval
<1>3. CASE piece = "y" /\ \E o \in Outcomes(Current) : Finish(o, how)
  BY <1>1, <1>2, <1>3, OutcomesFacts
<1>4. CASE Finish(Refused, how)
  <2>1. Refused \in Outcome /\ Refused.how = "none"
    BY SizesAssumption DEF Refused, Outcome, Says
  <2> QED BY <1>2, <1>4, <2>1
<1> QED BY <1>3, <1>4 DEF Decide

(* What lets a call take effect. *)
Entitled(a) ==
  IF AutoYes THEN a = Unasked ELSE a.read = "y" /\ (tidy' => a.from = "line")

(* Where a call is settled, with or without a question.                     *)
Settling(o, how) ==
  /\ pc \in {"tools", "confirm"} /\ next <= Kept(reply)
  /\ reply \in Replies /\ Current \in Call
  /\ Finish(o, how)
  /\ o \in Outcomes(Current) \/ o = Refused
  /\ o.how # "none" => Gated(Current) /\ Entitled(how)

LEMMA Settles ==
  ASSUME TypeOK, RunTool \/ User
  PROVE  \E o \in Outcome, how \in Approval : Settling(o, how)
<1>1. /\ pc \in {"tools", "confirm"} /\ next <= Kept(reply) /\ next \in Nat \ {0}
      /\ reply \in Replies
      /\ pc = "confirm" => Gated(Current) /\ ~AutoYes
  BY UserDecides DEF RunTool, TypeOK
<1>2. Current \in Call
  BY <1>1, KeptFacts DEF Current
<1>3. CASE RunTool
  <2>1. PICK o \in Outcomes(Current) : Finish(o, Unasked)
    BY <1>3 DEF RunTool
  <2>2. o \in Outcome /\ (o.how # "none" => Gated(Current))
    BY <1>2, OutcomesFacts
  <2>3. Unasked \in Approval
    BY DEF Unasked, Approval
  <2>4. o.how # "none" => AutoYes
    BY <1>3, <2>2 DEF RunTool
  <2>5. o.how # "none" => Entitled(Unasked)
    BY <2>4 DEF Entitled
  <2> QED BY <1>1, <1>2, <2>1, <2>2, <2>3, <2>5 DEF Settling
<1>4. CASE User
  <2>1. PICK piece \in {"y", "n", "none"}, from \in {"line", "rest"} :
          Decide(piece, from) /\ (tidy' => from = "line")
    BY <1>4, UserDecides
  <2>2. pc = "confirm" /\ Gated(Current) /\ ~AutoYes
    BY <1>1, <1>4, UserDecides
  <2>3. PICK o \in Outcome, how \in Approval :
          /\ Finish(o, how) /\ how.from = from /\ (o.how # "none" => how.read = "y")
          /\ o \in Outcomes(Current) \/ o = Refused
    BY <2>1, <2>2, DecideFacts
  <2>4. o.how # "none" => Entitled(how)
    BY <2>1, <2>2, <2>3 DEF Entitled
  <2> QED BY <1>1, <1>2, <2>2, <2>3, <2>4 DEF Settling
<1> QED BY <1>3, <1>4

(* The initial state has the types of TypeOK.                               *)
LEMMA TypeInit == Init => TypeOK
<1> SUFFICES ASSUME Init PROVE TypeOK
  OBVIOUS
<1>1. MaxIters \in Nat \ {0} /\ ToolMsgHead \in Nat
  BY SizesAssumption
<1> QED BY <1>1 DEF Init, TypeOK, NewToolMsg

(* Every step keeps them; one case per action.                              *)
LEMMA TypeStep == TypeOK /\ [Next]_vars => TypeOK'
<1> SUFFICES ASSUME TypeOK, [Next]_vars PROVE TypeOK'
  OBVIOUS
<1> DEFINE TM == [toks : Seq(Token), used : Nat]
<1>0. /\ MaxIters \in Nat \ {0} /\ NewToolMsg \in TM
  BY SizesAssumption DEF NewToolMsg
<1>1. ASSUME NEW len \in PromptLens, StartPrompt(len),
             stdin' \in Seq(Line), tidy' \in BOOLEAN, tidy' => stdin' = <<>>
      PROVE  TypeOK'
  <2>1. prompts' = prompts + 1 /\ prompts' \in Nat
    BY <1>1 DEF StartPrompt, TypeOK
  <2>2. hist' \in Seq(Message)
    <3>1. PromptMsg(prompts', len) \in Message
      BY <2>1, MessagesTyped
    <3> QED BY <1>1, <3>1, HistAddFacts DEF StartPrompt, TypeOK
  <2> QED BY <1>0, <1>1, <2>1, <2>2 DEF StartPrompt, TypeOK
<1>2. CASE TypePrompt
  <2>1. PICK line \in Lines : Typed(line, LineBuf)
    BY <1>2 DEF TypePrompt
  <2>2. PICK len \in PromptLens : StartPrompt(len)
    BY <1>2 DEF TypePrompt
  <2>3. LineBuf \in Nat
    BY SizesAssumption
  <2> QED BY <1>1, <2>1, <2>2, <2>3, TypedFacts
<1>3. CASE ReadLeftover
  <2>1. stdin' \in Seq(Line) /\ tidy' \in BOOLEAN /\ ~tidy'
    <3>1. stdin # <<>> /\ stdin' = Unread(stdin, LineBuf) /\ tidy' = tidy
      BY <1>3 DEF ReadLeftover
    <3> QED BY <3>1, UnreadType, SizesAssumption DEF TypeOK
  <2>2. CASE \E len \in PromptLens : StartPrompt(len)
    BY <1>1, <2>1, <2>2
  <2>3. CASE UNCHANGED <<pc, hist, iter, request, reply, next, toolmsg, log, prompts>>
    BY <2>1, <2>3 DEF TypeOK, Current, Gated
  <2> QED BY <1>3, <2>2, <2>3 DEF ReadLeftover
<1>17. CASE TypeAhead
  <2>1. PICK line \in Lines : stdin' = Append(stdin, line)
    BY <1>17 DEF TypeAhead
  <2>2. stdin' \in Seq(Line)
    BY <2>1, SizesAssumption, AppendProperties DEF TypeOK
  <2> QED BY <1>17, <2>2 DEF TypeAhead, TypeOK, Current, Gated
<1>4. CASE Quit
  BY <1>4 DEF Quit, TypeOK
<1>5. CASE SendRequest
  <2>1. request' \in Seq(Message)
    BY <1>5, HistJoinIsRun DEF SendRequest, TypeOK
  <2>2. iter < MaxIters
    BY <1>5 DEF SendRequest
  <2> QED BY <1>5, <2>1, <2>2 DEF SendRequest, TypeOK
<1>6. CASE IterationCap
  BY <1>6 DEF IterationCap, TypeOK
<1>7. CASE RunTool
  <2>1. PICK o \in Outcome, how \in Approval : Settling(o, how)
    BY <1>7, Settles
  <2>2. stdin' = stdin /\ tidy' = tidy
    BY <1>7 DEF RunTool
  <2> QED BY <2>1, <2>2, FinishType DEF TypeOK, Settling
<1>8. CASE Ask
  BY <1>8 DEF Ask, TypeOK, Current, Gated
<1>9. CASE FinishTurn
  <2>1. hist' \in Seq(Message)
    BY <1>9, MessagesTyped, HistAddFacts DEF FinishTurn, TypeOK
  <2>2. iter' \in 0 .. MaxIters
    BY <1>0, <1>9 DEF FinishTurn, TypeOK
  <2> QED BY <1>0, <1>9, <2>1, <2>2 DEF FinishTurn, TypeOK
<1>10. CASE ReplyEnds
  BY <1>10 DEF ReplyEnds, TypeOK
<1>11. ASSUME NEW r \in Replies, ReplyAsksTools(r) PROVE TypeOK'
  <2>1. hist' \in Seq(Message)
    BY <1>11, MessagesTyped, HistAddFacts DEF ReplyAsksTools, TypeOK
  <2>2. Kept(r) \in Nat
    BY KeptFacts
  <2> QED BY <1>0, <1>11, <2>1, <2>2 DEF ReplyAsksTools, TypeOK
<1>12. CASE User
  <2>1. PICK o \in Outcome, how \in Approval : Settling(o, how)
    BY <1>12, Settles
  <2>2. stdin' \in Seq(Line) /\ tidy' \in BOOLEAN /\ (tidy' => stdin' = <<>>)
    BY <1>12, UserDecides
  <2> QED BY <2>1, <2>2, FinishType DEF TypeOK, Settling
<1>16. CASE UNCHANGED vars
  BY <1>16 DEF vars, TypeOK, Current
<1> QED
  BY <1>2, <1>3, <1>4, <1>5, <1>6, <1>7, <1>8, <1>9, <1>10, <1>11, <1>12,
     <1>16, <1>17
     DEF Next, Program, Peer, Session, Finished

(* Every run keeps the types, and the calls pending match the control point. *)
THEOREM TypeCorrect == Spec => []TypeOK
<1> QED BY TypeInit, TypeStep, PTL DEF Spec

-----------------------------------------------------------------------------
(* Each step leaves the history alone or adds one turn to it.               *)
LEMMA HistorySteps ==
  ASSUME TypeOK, [Next]_vars
  PROVE  \/ hist' = hist
         \/ \E len \in PromptLens : StartPrompt(len)
         \/ \E r \in Replies : ReplyAsksTools(r)
         \/ FinishTurn
<1> QED
  BY DEF Next, Program, Peer, User, Session, Finished, vars, TypePrompt, ReadLeftover, TypeAhead,
         Quit, SendRequest, IterationCap, RunTool, Ask, ReplyEnds, AnswerTyped,
         AnswerLeftover, AnswerEof, Decide, Finish

(* g_hist[] is never written beyond its end.                                *)
THEOREM HistoryBounded == Spec => []HistBounded
<1>1. Init => HistBounded
  BY SizesAssumption DEF Init, HistBounded
<1>2. TypeOK /\ HistBounded /\ [Next]_vars => HistBounded'
  <2> SUFFICES ASSUME TypeOK, HistBounded, [Next]_vars PROVE HistBounded'
    OBVIOUS
  <2>0. hist \in Seq(Message) /\ MaxMsgs \in Nat /\ MaxMsgs >= 4 /\ prompts \in Nat
    BY SizesAssumption DEF TypeOK
  <2>1. ASSUME NEW m \in Message, HistAdd(m) PROVE HistBounded'
    <3>1. Evicted(hist) \in Seq(Message) /\ Len(Evicted(hist)) <= MaxMsgs - 1
      BY <2>0, EvictedFacts DEF HistBounded
    <3>2. Len(Append(Evicted(hist), m)) = Len(Evicted(hist)) + 1
      BY <3>1, AppendProperties
    <3> QED BY <2>0, <2>1, <3>1, <3>2, HistAddFacts DEF HistBounded
  <2>2. CASE hist' = hist
    BY <2>2 DEF HistBounded
  <2>3. CASE \E len \in PromptLens : StartPrompt(len)
    BY <2>0, <2>1, <2>3, MessagesTyped DEF StartPrompt
  <2>4. CASE \E r \in Replies : ReplyAsksTools(r)
    BY <2>1, <2>4, MessagesTyped DEF ReplyAsksTools
  <2>5. CASE FinishTurn
    BY <2>1, <2>5, MessagesTyped DEF FinishTurn
  <2> QED BY <2>2, <2>3, <2>4, <2>5, HistorySteps
<1> QED BY <1>1, <1>2, TypeCorrect, PTL DEF Spec

-----------------------------------------------------------------------------
(* Each step leaves the log alone or adds the effect of the call at hand,   *)
(* and then the loop is past that call.                                     *)
LEMMA LogSteps ==
  ASSUME TypeOK, [Next]_vars
  PROVE  \/ log' = log
         \/ \E e \in Effect :
              /\ log' = Append(log, e)
              /\ e.prompt = prompts /\ e.iter = iter /\ e.call = next
              /\ Entitled(e.asked)
              /\ e.tool = Current.tool /\ Gated(Current) /\ next <= Kept(reply)
              /\ pc \in {"tools", "confirm"} /\ pc' = "tools" /\ next' = next + 1
              /\ iter' = iter /\ prompts' = prompts
<1> DEFINE Goal == \/ log' = log
                   \/ \E e \in Effect :
                        /\ log' = Append(log, e)
                        /\ e.prompt = prompts /\ e.iter = iter /\ e.call = next
                        /\ Entitled(e.asked)
                        /\ e.tool = Current.tool /\ Gated(Current) /\ next <= Kept(reply)
                        /\ pc \in {"tools", "confirm"} /\ pc' = "tools" /\ next' = next + 1
                        /\ iter' = iter /\ prompts' = prompts
<1> HIDE DEF Goal
<1> SUFFICES Goal
  BY DEF Goal
<1>1. ASSUME pc \in {"tools", "confirm"}, next <= Kept(reply), NEW o \in Outcome,
             o.how # "none" => Gated(Current),
             NEW how \in Approval, Finish(o, how),
             o.how # "none" => Entitled(how)
      PROVE  Goal
  <2> DEFINE e == [prompt |-> prompts, iter |-> iter, call |-> next,
                   tool |-> Current.tool, how |-> o.how, asked |-> how]
  <2>1. /\ log' = log \/ (o.how # "none" /\ log' = Append(log, e))
        /\ next' = next + 1 /\ pc' = "tools" /\ iter' = iter /\ prompts' = prompts
    BY <1>1, FinishType
  <2>2. CASE log' = log
    BY <2>2 DEF Goal
  <2>3. CASE o.how # "none" /\ log' = Append(log, e)
    <3>1. Current.tool \in {"write", "run"}
      BY <1>1, <2>3 DEF Gated
    <3>2. prompts \in Nat /\ iter \in Nat /\ next \in Nat
      BY SizesAssumption DEF TypeOK
    <3>3. e \in Effect
      BY <1>1, <2>3, <3>1, <3>2 DEF Effect, Outcome
    <3>4. /\ e.prompt = prompts /\ e.iter = iter /\ e.call = next /\ e.asked = how
          /\ e.tool = Current.tool
      OBVIOUS
    <3>5. Entitled(e.asked)
      BY <1>1, <2>3, <3>4
    <3> HIDE DEF e
    <3> QED BY <1>1, <2>1, <2>3, <3>3, <3>4, <3>5 DEF Goal
  <2> QED BY <2>1, <2>2, <2>3
<1>2. CASE RunTool \/ User
  BY <1>1, <1>2, Settles DEF Settling
<1>5. CASE log' = log
  BY <1>5 DEF Goal
<1> QED
  BY <1>2, <1>5
     DEF Next, Program, Peer, Session, Finished, vars, TypePrompt, ReadLeftover, TypeAhead, StartPrompt,
         Quit, SendRequest, IterationCap, Ask, FinishTurn, ReplyEnds, ReplyAsksTools

(* What was untidy stays so.                                                *)
LEMMA TidyStays == ASSUME TypeOK, [Next]_vars PROVE tidy' => tidy
<1>1. CASE TypePrompt
  <2>1. \E line \in Lines : Typed(line, LineBuf)
    BY <1>1 DEF TypePrompt
  <2> QED BY <2>1 DEF Typed
<1>2. CASE TypeAhead
  BY <1>2 DEF TypeAhead
<1>3. CASE User
  BY <1>3, UserDecides
<1> QED
  BY <1>1, <1>2, <1>3
     DEF Next, Program, Peer, Session, Finished, vars, ReadLeftover, Quit, SendRequest,
         IterationCap, RunTool, Ask, FinishTurn, ReplyEnds, ReplyAsksTools

(* The confirm gate: without --yes nothing happens to the machine but after *)
(* a y that was read at the question of that very call, and typed there if  *)
(* nothing was typed too early or too long.                                 *)
THEOREM GateTheorem == Spec => []GateHeld
<1>1. Init => GateHeld
  BY DEF Init, GateHeld
<1>2. TypeOK /\ GateHeld /\ [Next]_vars => GateHeld'
  <2> SUFFICES ASSUME TypeOK, GateHeld, [Next]_vars PROVE GateHeld'
    OBVIOUS
  <2>0. tidy' => tidy
    BY TidyStays
  <2>1. CASE log' = log
    BY <2>0, <2>1 DEF GateHeld
  <2>2. ASSUME NEW e \in Effect, log' = Append(log, e), Entitled(e.asked)
        PROVE  GateHeld'
    <3> SUFFICES ASSUME NEW k \in 1 .. Len(log') PROVE Entitled(log'[k].asked)
      BY DEF GateHeld, Entitled
    <3>1. log \in Seq(Effect)
      BY DEF TypeOK
    <3>2. /\ Len(log') = Len(log) + 1 /\ log'[Len(log) + 1] = e
          /\ \A i \in 1 .. Len(log) : log'[i] = log[i]
      BY <2>2, <3>1
    <3>3. k <= Len(log) \/ k = Len(log) + 1
      BY <3>1, <3>2
    <3>4. CASE k <= Len(log)
      BY <2>0, <3>1, <3>2, <3>4 DEF GateHeld, Entitled
    <3>5. CASE k = Len(log) + 1
      BY <2>2, <3>2, <3>5
    <3> QED BY <3>3, <3>4, <3>5
  <2> QED BY <2>1, <2>2, LogSteps
<1> QED BY <1>1, <1>2, TypeCorrect, PTL DEF Spec

(* Effects so far are older than the call at hand: the strengthening that   *)
(* makes EffectsInOrder inductive.                                          *)
LogPast ==
  \A k \in 1 .. Len(log) :
    \/ log[k].prompt < prompts
    \/ /\ log[k].prompt = prompts
       /\ \/ pc \in {"repl", "done"}
          \/ log[k].iter < iter
          \/ log[k].iter = iter /\ pc \in {"tools", "confirm"} /\ log[k].call < next

(* How a step that has no effect moves the point the loop is at.            *)
LEMMA PointMoves ==
  ASSUME TypeOK, [Next]_vars
  PROVE  \/ prompts' = prompts + 1
         \/ /\ prompts' = prompts
            /\ \/ pc' \in {"repl", "done"}
               \/ /\ iter' = iter /\ pc \in {"join", "wait"}
                  /\ pc' \in {"wait", "tools"}
               \/ /\ iter' = iter /\ next <= next'
                  /\ pc \in {"tools", "confirm"} /\ pc' \in {"tools", "confirm"}
               \/ iter' = iter + 1 /\ pc = "tools" /\ pc' = "join"
               \/ UNCHANGED <<pc, iter, next>>
<1> USE DEF TypeOK
<1>1. CASE Session
  BY <1>1 DEF Session, TypePrompt, ReadLeftover, TypeAhead, StartPrompt, Quit
<1>2. CASE Program
  BY <1>2 DEF Program, SendRequest, IterationCap, RunTool, Finish, Ask, FinishTurn
<1>3. CASE Peer
  BY <1>3 DEF Peer, ReplyEnds, ReplyAsksTools
<1>4. CASE User
  BY <1>4, Settles DEF Settling, Finish
<1>5. CASE UNCHANGED vars
  BY <1>5 DEF vars
<1> QED BY <1>1, <1>2, <1>3, <1>4, <1>5 DEF Next, Finished

LEMMA EffectsPast == Spec => [](LogPast /\ EffectsInOrder)
<1> DEFINE IInv == LogPast /\ EffectsInOrder
<1>1. Init => IInv
  BY DEF Init, LogPast, EffectsInOrder
<1>2. TypeOK /\ IInv /\ [Next]_vars => IInv'
  <2> SUFFICES ASSUME TypeOK, LogPast, EffectsInOrder, [Next]_vars
               PROVE  LogPast' /\ EffectsInOrder'
    OBVIOUS
  <2>a. log \in Seq(Effect) /\ prompts \in Nat /\ iter \in Nat /\ next \in Nat
    BY SizesAssumption DEF TypeOK
  <2>b. \A e \in Effect : e.prompt \in Nat /\ e.iter \in Nat /\ e.call \in Nat
    BY DEF Effect
  <2>0. /\ log \in Seq(Effect) /\ prompts \in Nat /\ iter \in Nat /\ next \in Nat
        /\ \A k \in 1 .. Len(log) :
             log[k].prompt \in Nat /\ log[k].iter \in Nat /\ log[k].call \in Nat
    BY <2>a, <2>b
  <2>1. CASE log' = log
    <3>1. EffectsInOrder'
      BY <2>1 DEF EffectsInOrder
    <3>2. next' \in Nat /\ iter' \in Nat
      BY TypeStep, SizesAssumption DEF TypeOK
    <3>3. LogPast'
      BY <2>0, <2>1, <3>2, PointMoves DEF LogPast
    <3> QED BY <3>1, <3>3
  <2>2. ASSUME NEW e \in Effect, log' = Append(log, e),
               e.prompt = prompts, e.iter = iter, e.call = next,
               pc \in {"tools", "confirm"}, pc' = "tools", next' = next + 1,
               iter' = iter, prompts' = prompts
        PROVE  LogPast' /\ EffectsInOrder'
    <3>1. /\ Len(log) \in Nat /\ Len(log') = Len(log) + 1 /\ log'[Len(log) + 1] = e
          /\ \A k \in 1 .. Len(log) : log'[k] = log[k]
      BY <2>0, <2>2
    <3>2. LogPast'
      BY <2>0, <2>2, <3>1 DEF LogPast
    <3>3. EffectsInOrder'
      <4> SUFFICES ASSUME NEW i \in 1 .. Len(log'), NEW j \in 1 .. Len(log'), i < j
                   PROVE  \/ log'[i].prompt < log'[j].prompt
                          \/ /\ log'[i].prompt = log'[j].prompt
                             /\ log'[i].iter < log'[j].iter
                          \/ /\ log'[i].prompt = log'[j].prompt
                             /\ log'[i].iter = log'[j].iter
                             /\ log'[i].call < log'[j].call
        BY DEF EffectsInOrder
      <4>1. CASE j <= Len(log)
        BY <3>1, <4>1 DEF EffectsInOrder
      <4>2. CASE j = Len(log) + 1
        BY <2>0, <2>2, <3>1, <4>2 DEF LogPast
      <4> QED BY <3>1, <4>1, <4>2
    <3> QED BY <3>2, <3>3
  <2> QED BY <2>1, <2>2, LogSteps
<1> QED BY <1>1, <1>2, TypeCorrect, PTL DEF Spec

(* Each call takes effect at most once, in the order of the replies.        *)
THEOREM EffectsOrdered == Spec => []EffectsInOrder
<1> QED BY EffectsPast, PTL

-----------------------------------------------------------------------------
(* Without a failing malloc(), what hist_add() leaves: d is what it evicts. *)
LEMMA AddShape ==
  ASSUME ~OutOfMemory, hist \in Seq(Message), NEW m \in Message, HistAdd(m)
  PROVE  \E d \in {0, 2} :
           /\ d = 2 => Len(hist) >= MaxMsgs
           /\ d <= Len(hist) /\ Len(hist) \in Nat
           /\ Len(hist') = Len(hist) - d + 1
           /\ \A i \in 1 .. Len(hist) - d : hist'[i] = hist[i + d]
           /\ hist'[Len(hist) - d + 1] = m
<1> DEFINE d == IF Len(hist) >= MaxMsgs THEN 2 ELSE 0
           ev == Evicted(hist)
<1>1. /\ ev \in Seq(Message) /\ d <= Len(hist) /\ Len(ev) = Len(hist) - d
      /\ \A i \in 1 .. Len(hist) - d : ev[i] = hist[i + d]
  BY EvictedFacts
<1>2. hist' = Append(ev, m)
  BY HistAddFacts
<1> HIDE DEF ev
<1>3. /\ Len(hist') = Len(ev) + 1 /\ hist'[Len(ev) + 1] = m
      /\ \A i \in 1 .. Len(ev) : hist'[i] = ev[i]
  BY <1>1, <1>2, AppendProperties
<1>4. Len(hist) \in Nat /\ d \in {0, 2} /\ (d = 2 => Len(hist) >= MaxMsgs)
  BY <1>1
<1> HIDE DEF d
<1> QED BY <1>1, <1>3, <1>4

(* Where the prompt being answered, and the turn whose tools run, stand on  *)
(* the history: the strengthening that makes TurnsPaired inductive.         *)
IsPrompt(m) == m.kind = "prompt" /\ m.prompt = prompts
IsTurn(m) == m.kind = "asst" /\ m.prompt = prompts /\ m.iter = iter

Anchored ==
  /\ pc \in {"join", "wait"} =>
       /\ Len(hist) >= 2 * iter + 1
       /\ IsPrompt(hist[Len(hist) - 2 * iter])
  /\ pc \in {"tools", "confirm"} =>
       /\ Len(hist) >= 2 * iter + 2
       /\ IsPrompt(hist[Len(hist) - 2 * iter - 1])
       /\ IsTurn(hist[Len(hist)])

(* The history is paired, but for an assistant turn that may be newest.     *)
PairedBut(open) ==
  /\ \A k \in 1 .. Len(hist) : hist[k].kind = "asst" =>
       \/ k = Len(hist) /\ open
       \/ k < Len(hist) /\ Answers(hist[k + 1], hist[k])
  /\ \A k \in 2 .. Len(hist) :
       hist[k].kind = "results" => Answers(hist[k], hist[k - 1])

Shape == ~OutOfMemory => Anchored /\ PairedBut(pc \in {"tools", "confirm"})

(* Steps that do not add to the history keep the loop where it is.          *)
LEMMA QuietSteps ==
  ASSUME TypeOK, [Next]_vars
  PROVE  \/ pc = "repl" /\ \E len \in PromptLens : StartPrompt(len)
         \/ \E r \in Replies : ReplyAsksTools(r)
         \/ FinishTurn
         \/ /\ hist' = hist /\ iter' = iter /\ prompts' = prompts
            /\ \/ pc' \in {"repl", "done"} /\ pc \notin {"tools", "confirm"}
               \/ pc \in {"join", "wait"} /\ pc' \in {"join", "wait"}
               \/ pc \in {"tools", "confirm"} /\ pc' \in {"tools", "confirm"}
<1> USE DEF TypeOK
<1>1. CASE Session
  BY <1>1 DEF Session, TypePrompt, ReadLeftover, TypeAhead, Quit
<1>2. CASE Program
  BY <1>2 DEF Program, SendRequest, IterationCap, RunTool, Finish, Ask
<1>3. CASE Peer
  BY <1>3 DEF Peer, ReplyEnds
<1>4. CASE User
  BY <1>4, Settles DEF Settling, Finish
<1>5. CASE UNCHANGED vars
  BY <1>5 DEF vars
<1> QED BY <1>1, <1>2, <1>3, <1>4, <1>5 DEF Next, Finished

(* Adding the turn that is due keeps the history paired.                    *)
LEMMA PairedAdd ==
  ASSUME hist \in Seq(Message), NEW m \in Message, NEW d \in {0, 2},
         d = 2 => Len(hist) >= 4,
         d <= Len(hist), Len(hist') = Len(hist) - d + 1,
         \A i \in 1 .. Len(hist) - d : hist'[i] = hist[i + d],
         hist'[Len(hist) - d + 1] = m,
         PairedBut(m.kind = "results"),
         m.kind = "results" => hist # <<>> /\ Answers(m, hist[Len(hist)])
  PROVE  PairedBut(m.kind = "asst")'
<1>0. Len(hist) \in Nat
  OBVIOUS
<1> DEFINE n == Len(hist) - d + 1
<1>1. n \in Nat /\ n >= 1 /\ Len(hist') = n /\ hist'[n] = m
  BY <1>0
<1>2. ASSUME NEW k \in 1 .. n, hist'[k].kind = "asst"
      PROVE  \/ k = n /\ m.kind = "asst"
             \/ k < n /\ Answers(hist'[k + 1], hist'[k])
  <2>1. CASE k = n
    BY <1>1, <1>2, <2>1
  <2>2. CASE k < n - 1
    <3>1. /\ k + d \in 1 .. Len(hist) /\ k + d # Len(hist)
          /\ hist'[k] = hist[k + d] /\ hist'[k + 1] = hist[(k + d) + 1]
      BY <1>0, <2>2
    <3>2. Answers(hist[(k + d) + 1], hist[k + d])
      BY <1>2, <3>1 DEF PairedBut
    <3> QED BY <1>0, <2>2, <3>1, <3>2
  <2>3. CASE k = n - 1
    <3>1. hist'[k] = hist[Len(hist)] /\ hist[Len(hist)].kind = "asst" /\ hist # <<>>
      BY <1>0, <1>2, <2>3
    <3>2. m.kind = "results"
      BY <1>0, <3>1 DEF PairedBut
    <3> QED BY <1>0, <1>1, <2>3, <3>1, <3>2
  <2> QED BY <1>0, <2>1, <2>2, <2>3
<1>3. ASSUME NEW k \in 2 .. n, hist'[k].kind = "results"
      PROVE  Answers(hist'[k], hist'[k - 1])
  <2>1. CASE k = n
    <3>1. hist'[k - 1] = hist[Len(hist)]
      BY <1>0, <2>1
    <3> QED BY <1>1, <1>3, <2>1, <3>1
  <2>2. CASE k < n
    BY <1>0, <1>3, <2>2 DEF PairedBut
  <2> QED BY <1>0, <2>1, <2>2
<1> QED BY <1>1, <1>2, <1>3 DEF PairedBut

(* Shape is the inductive strengthening of TurnsPaired and PromptKept.      *)
LEMMA ShapeInductive ==
  /\ Init => Shape
  /\ TypeOK /\ Shape /\ [Next]_vars => Shape'
<1>1. Init => Shape
  BY DEF Init, Shape, Anchored, PairedBut
<1>2. ASSUME TypeOK, Shape, [Next]_vars, ~OutOfMemory
      PROVE  Anchored' /\ PairedBut(pc \in {"tools", "confirm"})'
  <2>a. hist \in Seq(Message) /\ prompts \in Nat /\ iter \in 0 .. MaxIters
    BY <1>2 DEF TypeOK
  <2>b. MaxMsgs \in Nat /\ MaxIters \in Nat /\ MaxMsgs >= 2 * MaxIters + 2 /\ MaxMsgs >= 4
    BY SizesAssumption, RoomAssumption
  <2>0. /\ hist \in Seq(Message) /\ Len(hist) \in Nat /\ prompts \in Nat
        /\ iter \in Nat /\ iter <= MaxIters
    BY <2>a, <2>b
  <2>1. Anchored /\ PairedBut(pc \in {"tools", "confirm"})
    BY <1>2 DEF Shape
  <2>2. CASE pc = "repl" /\ \E len \in PromptLens : StartPrompt(len)
    <3>1. PICK m \in Message : HistAdd(m) /\ m.kind = "prompt" /\ m.prompt = prompts'
      BY <1>2, <2>0, <2>2, MessagesTyped DEF StartPrompt, PromptMsg
    <3>2. iter' = 0 /\ pc' = "join"
      BY <2>2 DEF StartPrompt
    <3>3. PICK d \in {0, 2} :
            /\ d = 2 => Len(hist) >= MaxMsgs
            /\ d <= Len(hist) /\ Len(hist') = Len(hist) - d + 1
            /\ \A i \in 1 .. Len(hist) - d : hist'[i] = hist[i + d]
            /\ hist'[Len(hist) - d + 1] = m
      BY <1>2, <2>0, <3>1, AddShape
    <3>4. Anchored'
      BY <2>0, <3>1, <3>2, <3>3 DEF Anchored, IsPrompt
    <3>5. PairedBut(m.kind = "results")
      BY <2>1, <2>2, <3>1 DEF PairedBut
    <3>6. PairedBut(m.kind = "asst")'
      BY <2>0, <2>b, <3>1, <3>3, <3>5, PairedAdd
    <3> QED BY <3>1, <3>2, <3>4, <3>6 DEF PairedBut
  <2>3. CASE \E r \in Replies : ReplyAsksTools(r)
    <3>1. PICK m \in Message : /\ HistAdd(m) /\ m.kind = "asst"
                               /\ m.prompt = prompts /\ m.iter = iter
      BY <1>2, <2>3, MessagesTyped DEF ReplyAsksTools, AsstMsg
    <3>2. prompts' = prompts /\ iter' = iter /\ pc = "wait" /\ pc' = "tools"
      BY <2>3 DEF ReplyAsksTools
    <3>3. PICK d \in {0, 2} :
            /\ d = 2 => Len(hist) >= MaxMsgs
            /\ d <= Len(hist) /\ Len(hist') = Len(hist) - d + 1
            /\ \A i \in 1 .. Len(hist) - d : hist'[i] = hist[i + d]
            /\ hist'[Len(hist) - d + 1] = m
      BY <1>2, <2>0, <3>1, AddShape
    <3>7. iter < MaxIters
      BY <1>2, <3>2 DEF TypeOK
    <3>4. Anchored'
      BY <2>0, <2>b, <2>1, <3>1, <3>2, <3>3, <3>7 DEF Anchored, IsPrompt, IsTurn
    <3>5. PairedBut(m.kind = "results")
      BY <2>1, <3>1, <3>2 DEF PairedBut
    <3>8. m.kind # "results" /\ (d = 2 => Len(hist) >= 4)
      BY <2>0, <2>b, <3>1, <3>3
    <3>6. PairedBut(m.kind = "asst")'
      BY <2>0, <3>3, <3>5, <3>8, PairedAdd
    <3> QED BY <3>1, <3>2, <3>4, <3>6 DEF PairedBut
  <2>4. CASE FinishTurn
    <3>1. PICK m \in Message : /\ HistAdd(m) /\ m.kind = "results"
                               /\ m.prompt = prompts /\ m.iter = iter
      BY <1>2, <2>4, MessagesTyped DEF FinishTurn, ResultsMsg
    <3>2. prompts' = prompts /\ iter' = iter + 1 /\ pc = "tools" /\ pc' = "join"
      BY <2>4 DEF FinishTurn
    <3>3. PICK d \in {0, 2} :
            /\ d = 2 => Len(hist) >= MaxMsgs
            /\ d <= Len(hist) /\ Len(hist') = Len(hist) - d + 1
            /\ \A i \in 1 .. Len(hist) - d : hist'[i] = hist[i + d]
            /\ hist'[Len(hist) - d + 1] = m
      BY <1>2, <2>0, <3>1, AddShape
    <3>7. iter < MaxIters
      BY <1>2, <3>2 DEF TypeOK
    <3>8. Len(hist) >= 2 * iter + 2 /\ IsPrompt(hist[Len(hist) - 2 * iter - 1])
          /\ IsTurn(hist[Len(hist)])
      BY <2>1, <3>2 DEF Anchored
    <3>9. Len(hist) - d >= 2 * iter + 2
      BY <2>0, <2>b, <3>3, <3>7, <3>8
    <3>4. Anchored'
      <4>1. /\ Len(hist') >= 2 * iter' + 1
            /\ Len(hist') - 2 * iter' = Len(hist) - d - 2 * iter - 1
            /\ Len(hist) - d - 2 * iter - 1 \in 1 .. Len(hist) - d
        BY <2>0, <3>2, <3>3, <3>9
      <4>2. hist'[Len(hist') - 2 * iter'] = hist[Len(hist) - 2 * iter - 1]
        BY <2>0, <3>3, <4>1
      <4> QED BY <3>2, <3>8, <4>1, <4>2 DEF Anchored, IsPrompt
    <3>5. PairedBut(m.kind = "results")
      BY <2>1, <3>1, <3>2 DEF PairedBut
    <3>10. Answers(m, hist[Len(hist)]) /\ hist # <<>>
      BY <2>0, <3>1, <3>8 DEF Answers, IsTurn
    <3>6. PairedBut(m.kind = "asst")'
      BY <2>0, <2>b, <3>1, <3>3, <3>5, <3>10, PairedAdd
    <3> QED BY <3>1, <3>2, <3>4, <3>6 DEF PairedBut
  <2>5. CASE /\ hist' = hist /\ iter' = iter /\ prompts' = prompts
             /\ \/ pc' \in {"repl", "done"} /\ pc \notin {"tools", "confirm"}
                \/ pc \in {"join", "wait"} /\ pc' \in {"join", "wait"}
                \/ pc \in {"tools", "confirm"} /\ pc' \in {"tools", "confirm"}
    BY <2>1, <2>5 DEF Anchored, PairedBut, IsPrompt, IsTurn
  <2> QED BY <1>2, <2>2, <2>3, <2>4, <2>5, QuietSteps
<1> QED BY <1>1, <1>2 DEF Shape

(* Eviction splits no assistant turn from its results but at the old end.   *)
THEOREM TurnsStayPaired == Spec => []TurnsPaired
<1>1. Shape => TurnsPaired
  BY DEF Shape, PairedBut, TurnsPaired
<1> QED BY <1>1, ShapeInductive, TypeCorrect, PTL DEF Spec

(* MAX_MSGS >= 2 * MAX_ITERS + 2 is room enough for one conversation.       *)
THEOREM PromptStays == Spec => []PromptKept
<1>1. TypeOK /\ Shape => PromptKept
  <2> SUFFICES ASSUME TypeOK, Shape, ~OutOfMemory, InConversation
               PROVE  \E k \in 1 .. Len(hist) : IsPrompt(hist[k])
    BY DEF PromptKept, IsPrompt
  <2>1. Len(hist) \in Nat /\ iter \in Nat
    BY SizesAssumption DEF TypeOK
  <2> QED BY <2>1 DEF Shape, Anchored, InConversation
<1> QED BY <1>1, ShapeInductive, TypeCorrect, PTL DEF Spec

-----------------------------------------------------------------------------
(* What goes into toolmsg[] stops short of its end.                         *)
Filled(tm) == tm.used = ToolMsgHead \/ tm.used <= ToolMsgBuf - 2

LEMMA FilledAdd ==
  ASSUME NEW tm \in [toks : Seq(Token), used : Nat], Filled(tm),
         NEW i \in Nat, NEW o \in Outcome
  PROVE  Filled(AddResult(tm, i, o))
<1>0. ToolMsgBuf \in Nat /\ ToolMsgHead \in Nat /\ tm.used \in Nat
  BY SizesAssumption
<1> DEFINE tc == WithComma(tm, i)
<1>1. Filled(tc) /\ tc.used \in Nat
  BY <1>0 DEF WithComma, Filled
<1> HIDE DEF tc
<1>2. CASE o.len = Overflow
  BY <1>2 DEF AddResult
<1>3. CASE o.len # Overflow
  <2>1. o.len \in Nat /\ AddResult(tm, i, o) = WithBlock(tc, i, o)
    BY <1>3 DEF Outcome, AddResult, tc
  <2> QED BY <1>0, <1>1, <2>1 DEF WithBlock, Filled
<1> QED BY <1>2, <1>3

(* The newest turn when a request is made is the user's, and fits alone:    *)
(* with what was sent, the strengthening that makes RequestCurrent          *)
(* inductive.                                                               *)
Fits(m, p) == m.kind \in {"prompt", "results"} /\ m.prompt = p /\ m.size + 2 < JoinBuf

Ready ==
  /\ Filled(toolmsg)
  /\ ~OutOfMemory /\ pc \in {"join", "wait"} => hist # <<>> /\ Fits(hist[Len(hist)], prompts)
  /\ ~OutOfMemory /\ pc = "wait" =>
       \E s \in 1 .. Len(hist) : request = SubSeq(hist, s, Len(hist))

LEMMA ReadyStep == TypeOK /\ Ready /\ [Next]_vars => Ready'
<1> SUFFICES ASSUME TypeOK, Ready, [Next]_vars PROVE Ready'
  OBVIOUS
<1>0. hist \in Seq(Message) /\ prompts \in Nat /\ ToolMsgHead \in Nat /\ ToolMsgBuf \in Nat
      /\ JoinBuf \in Nat /\ NewToolMsg.used = ToolMsgHead /\ Filled(NewToolMsg)
      /\ toolmsg \in [toks : Seq(Token), used : Nat] /\ next \in Nat
  BY SizesAssumption DEF TypeOK, NewToolMsg, Filled
<1>1. ASSUME NEW m \in Message, HistAdd(m), Fits(m, prompts'), ~OutOfMemory
      PROVE  hist' # <<>> /\ Fits(hist'[Len(hist')], prompts')
  <2>1. PICK d \in {0, 2} : /\ d <= Len(hist) /\ Len(hist) \in Nat
                            /\ Len(hist') = Len(hist) - d + 1
                            /\ hist'[Len(hist) - d + 1] = m
    BY <1>0, <1>1, AddShape
  <2>2. Len(hist') >= 1 /\ hist'[Len(hist')] = m
    BY <2>1
  <2>3. hist' # <<>>
    BY <2>2
  <2> QED BY <1>1, <2>2, <2>3
<1>2. ASSUME NEW len \in PromptLens, StartPrompt(len) PROVE Ready'
  <2>1. prompts' \in Nat /\ toolmsg' = toolmsg /\ pc' = "join" /\ HistAdd(PromptMsg(prompts', len))
    BY <1>0, <1>2 DEF StartPrompt
  <2>2. PromptMsg(prompts', len) \in Message /\ Fits(PromptMsg(prompts', len), prompts')
    BY <2>1, MessagesTyped, JoinAssumption DEF PromptMsg, Fits
  <2> QED BY <1>1, <2>1, <2>2 DEF Ready, Filled
<1>3. CASE FinishTurn
  <2>1. /\ prompts' = prompts /\ toolmsg' = NewToolMsg /\ pc' = "join" /\ HistAdd(ResultsMsg)
    BY <1>3 DEF FinishTurn
  <2>2. ResultsMsg \in Message
    BY MessagesTyped
  <2>3. toolmsg.used \in Nat /\ toolmsg.used + 4 < JoinBuf
    BY <1>0, JoinAssumption DEF Ready, Filled
  <2>4. ResultsMsg.kind = "results" /\ ResultsMsg.prompt = prompts'
        /\ ResultsMsg.size = toolmsg.used + 2
    BY <2>1 DEF ResultsMsg
  <2>5. Fits(ResultsMsg, prompts')
    BY <2>3, <2>4 DEF Fits
  <2>6. PICK m \in Message : HistAdd(m) /\ Fits(m, prompts')
    BY <2>1, <2>2, <2>5
  <2> QED BY <1>0, <1>1, <2>1, <2>6 DEF Ready, Filled
<1>4. CASE SendRequest
  <2>1. /\ pc = "join" /\ pc' = "wait" /\ request' = HistJoin(hist)
        /\ UNCHANGED <<hist, prompts, toolmsg>>
    BY <1>4 DEF SendRequest
  <2>2. ~OutOfMemory => \E s \in 1 .. Len(hist) : HistJoin(hist) = SubSeq(hist, s, Len(hist))
    BY <1>0, <2>1, JoinSendsTail DEF Ready, Fits
  <2> QED BY <2>1, <2>2 DEF Ready, Fits, Filled
<1>5. ASSUME NEW o \in Outcome, NEW how, Finish(o, how) PROVE Ready'
  <2>1. toolmsg' = AddResult(toolmsg, next, o) /\ pc' = "tools"
    BY <1>5 DEF Finish
  <2>2. Filled(AddResult(toolmsg, next, o))
    BY <1>0, FilledAdd DEF Ready
  <2> QED BY <2>1, <2>2 DEF Ready, Filled
<1>6. CASE RunTool \/ User
  BY <1>5, <1>6, Settles DEF Settling
<1>7. ASSUME NEW r \in Replies, ReplyAsksTools(r) PROVE Ready'
  BY <1>0, <1>7 DEF ReplyAsksTools, Ready, Filled
<1>8. CASE ReplyEnds \/ Quit \/ IterationCap \/ Ask
  BY <1>8 DEF ReplyEnds, Quit, IterationCap, Ask, Ready, Filled
<1>9. CASE UNCHANGED <<pc, hist, request, prompts, toolmsg>>
  BY <1>9 DEF Ready, Filled, Fits
<1> QED
  BY <1>2, <1>3, <1>4, <1>6, <1>7, <1>8, <1>9
     DEF Next, Program, Peer, Session, Finished, vars, TypePrompt, ReadLeftover, TypeAhead

(* Whatever the sizes of the turns, the request in flight is a tail of the  *)
(* history that ends with the turn being answered: hist_join() drops from   *)
(* the old end only, and its two loops agree on what fits.                  *)
THEOREM RequestsCurrent == Spec => []RequestCurrent
<1>1. Init => Ready
  BY DEF Init, Ready, Filled, NewToolMsg
<1>2. TypeOK /\ Ready => RequestCurrent
  <2> SUFFICES ASSUME TypeOK, Ready, ~OutOfMemory, pc = "wait"
               PROVE  /\ \E s \in 1 .. Len(hist) : request = SubSeq(hist, s, Len(hist))
                      /\ request[Len(request)].kind \in {"prompt", "results"}
                      /\ request[Len(request)].prompt = prompts
    BY DEF RequestCurrent
  <2>1. PICK s \in 1 .. Len(hist) : request = SubSeq(hist, s, Len(hist))
    BY DEF Ready
  <2>2. hist \in Seq(Message) /\ Len(hist) \in Nat
    BY DEF TypeOK
  <2>3. Len(request) = Len(hist) - s + 1 /\ request[Len(hist) - s + 1] = hist[Len(hist)]
    BY <2>1, <2>2, SubSeqProperties
  <2> QED BY <2>1, <2>3 DEF Ready, Fits
<1> QED BY <1>1, <1>2, ReadyStep, TypeCorrect, PTL DEF Spec

-----------------------------------------------------------------------------
(* What is on the history is older than the next turn to be added: the      *)
(* strengthening that makes HistInOrder inductive.                          *)
Older(m) ==
  \/ m.prompt < prompts
  \/ /\ m.prompt = prompts
     /\ \/ pc \in {"repl", "done"}
        \/ m.iter < iter
        \/ m.iter = iter /\ m.kind = "prompt"
        \/ m.iter = iter /\ m.kind = "asst" /\ pc \in {"tools", "confirm"}

HistPast == \A k \in 1 .. Len(hist) : Older(hist[k])

(* Adding a turn that comes after all of the history keeps it in order.     *)
LEMMA OrderedAdd ==
  ASSUME hist \in Seq(Message), NEW m \in Message, HistAdd(m), HistInOrder,
         \A k \in 1 .. Len(hist) : Before(hist[k], m)
  PROVE  /\ HistInOrder'
         /\ \A k \in 1 .. Len(hist') :
              hist'[k] = m \/ \E j \in 1 .. Len(hist) : hist'[k] = hist[j]
<1> DEFINE d == IF Len(hist) >= MaxMsgs THEN 2 ELSE 0
           ev == Evicted(hist)
<1>1. /\ ev \in Seq(Message) /\ d <= Len(hist) /\ Len(ev) = Len(hist) - d
      /\ \A i \in 1 .. Len(hist) - d : ev[i] = hist[i + d]
  BY EvictedFacts
<1>2. hist' = Append(ev, m) \/ hist' = ev
  BY HistAddFacts
<1>0. Len(hist) \in Nat /\ d \in {0, 2}
  OBVIOUS
<1> HIDE DEF ev, d
<1>6. \A i \in 1 .. Len(ev) : i + d \in 1 .. Len(hist) /\ ev[i] = hist[i + d]
  BY <1>0, <1>1
<1>7. \A i, j \in 1 .. Len(ev) : i < j => i + d < j + d
  BY <1>0, <1>1
<1>3. /\ Len(ev) \in Nat
      /\ \A i, j \in 1 .. Len(ev) : i < j => Before(ev[i], ev[j])
      /\ \A i \in 1 .. Len(ev) : Before(ev[i], m)
      /\ \A i \in 1 .. Len(ev) : \E j \in 1 .. Len(hist) : ev[i] = hist[j]
  <2>1. Len(ev) \in Nat
    BY <1>0, <1>1
  <2>2. \A i, j \in 1 .. Len(ev) : i < j => Before(ev[i], ev[j])
    BY <1>6, <1>7 DEF HistInOrder
  <2>3. /\ \A i \in 1 .. Len(ev) : Before(ev[i], m)
        /\ \A i \in 1 .. Len(ev) : \E j \in 1 .. Len(hist) : ev[i] = hist[j]
    BY <1>6
  <2> QED BY <2>1, <2>2, <2>3
<1>4. CASE hist' = ev
  BY <1>3, <1>4 DEF HistInOrder
<1>5. CASE hist' = Append(ev, m)
  <2>1. /\ Len(hist') = Len(ev) + 1 /\ hist'[Len(ev) + 1] = m
        /\ \A i \in 1 .. Len(ev) : hist'[i] = ev[i]
    BY <1>1, <1>5, AppendProperties
  <2>2. ASSUME NEW i \in 1 .. Len(hist'), NEW j \in 1 .. Len(hist'), i < j
        PROVE  Before(hist'[i], hist'[j])
    <3>1. i \in 1 .. Len(ev) /\ (j \in 1 .. Len(ev) \/ j = Len(ev) + 1)
      <4>1. Len(hist') = Len(ev) + 1 /\ Len(ev) \in Nat
        BY <1>3, <2>1
      <4> QED BY <2>2, <4>1
    <3>2. CASE j \in 1 .. Len(ev)
      BY <1>3, <2>1, <2>2, <3>1, <3>2
    <3>3. CASE j = Len(ev) + 1
      BY <1>3, <2>1, <3>1, <3>3
    <3> QED BY <3>1, <3>2, <3>3
  <2>3. HistInOrder'
    BY <2>2 DEF HistInOrder
  <2>4. ASSUME NEW k \in 1 .. Len(hist')
        PROVE  hist'[k] = m \/ \E j \in 1 .. Len(hist) : hist'[k] = hist[j]
    BY <1>3, <2>1
  <2> QED BY <2>3, <2>4
<1> QED BY <1>2, <1>4, <1>5

LEMMA HistoryPast == Spec => [](HistPast /\ HistInOrder)
<1> DEFINE IInv == HistPast /\ HistInOrder
<1>1. Init => IInv
  BY DEF Init, HistPast, HistInOrder
<1>2. TypeOK /\ IInv /\ [Next]_vars => IInv'
  <2> SUFFICES ASSUME TypeOK, HistPast, HistInOrder, [Next]_vars
               PROVE  HistPast' /\ HistInOrder'
    OBVIOUS
  <2>a. hist \in Seq(Message) /\ prompts \in Nat /\ iter \in Nat
    BY SizesAssumption DEF TypeOK
  <2>b. \A m \in Message : m.prompt \in Nat /\ m.iter \in Nat
    BY DEF Message
  <2>0. \A k \in 1 .. Len(hist) : hist[k].prompt \in Nat /\ hist[k].iter \in Nat
    BY <2>a, <2>b
  <2>2. CASE pc = "repl" /\ \E len \in PromptLens : StartPrompt(len)
    <3>1. PICK m \in Message : /\ HistAdd(m) /\ m.kind = "prompt"
                               /\ m.prompt = prompts' /\ m.iter = 0
      BY <2>a, <2>2, MessagesTyped DEF StartPrompt, PromptMsg
    <3>2. iter' = 0 /\ pc' = "join" /\ prompts' = prompts + 1
      BY <2>2 DEF StartPrompt
    <3>3. \A k \in 1 .. Len(hist) : hist[k].prompt < prompts'
      BY <2>0, <2>a, <3>2 DEF HistPast, Older
    <3>4. \A k \in 1 .. Len(hist) : Before(hist[k], m)
      BY <3>1, <3>3 DEF Before
    <3>5. /\ HistInOrder'
          /\ \A k \in 1 .. Len(hist') :
               hist'[k] = m \/ \E j \in 1 .. Len(hist) : hist'[k] = hist[j]
      BY <2>a, <3>1, <3>4, OrderedAdd
    <3>6. HistPast'
      BY <3>1, <3>2, <3>3, <3>5 DEF HistPast, Older
    <3> QED BY <3>5, <3>6
  <2>3. CASE \E r \in Replies : ReplyAsksTools(r)
    <3>1. PICK m \in Message : /\ HistAdd(m) /\ m.kind = "asst"
                               /\ m.prompt = prompts /\ m.iter = iter
      BY <2>3, MessagesTyped DEF ReplyAsksTools, AsstMsg
    <3>2. iter' = iter /\ pc = "wait" /\ pc' = "tools" /\ prompts' = prompts
      BY <2>3 DEF ReplyAsksTools
    <3>4. \A k \in 1 .. Len(hist) : Before(hist[k], m)
      BY <2>0, <2>a, <3>1, <3>2 DEF Before, HistPast, Older, Rank
    <3>5. /\ HistInOrder'
          /\ \A k \in 1 .. Len(hist') :
               hist'[k] = m \/ \E j \in 1 .. Len(hist) : hist'[k] = hist[j]
      BY <2>a, <3>1, <3>4, OrderedAdd
    <3>6. HistPast'
      BY <3>1, <3>2, <3>5 DEF HistPast, Older
    <3> QED BY <3>5, <3>6
  <2>4. CASE FinishTurn
    <3>1. PICK m \in Message : /\ HistAdd(m) /\ m.kind = "results"
                               /\ m.prompt = prompts /\ m.iter = iter
      BY <2>4, MessagesTyped DEF FinishTurn, ResultsMsg
    <3>2. iter' = iter + 1 /\ pc = "tools" /\ pc' = "join" /\ prompts' = prompts
      BY <2>4 DEF FinishTurn
    <3>4. \A k \in 1 .. Len(hist) : Before(hist[k], m)
      BY <2>0, <2>a, <3>1, <3>2 DEF Before, HistPast, Older, Rank
    <3>5. /\ HistInOrder'
          /\ \A k \in 1 .. Len(hist') :
               hist'[k] = m \/ \E j \in 1 .. Len(hist) : hist'[k] = hist[j]
      BY <2>a, <3>1, <3>4, OrderedAdd
    <3>6. HistPast'
      BY <2>0, <2>a, <3>1, <3>2, <3>5 DEF HistPast, Older
    <3> QED BY <3>5, <3>6
  <2>5. CASE /\ hist' = hist /\ iter' = iter /\ prompts' = prompts
             /\ \/ pc' \in {"repl", "done"} /\ pc \notin {"tools", "confirm"}
                \/ pc \in {"join", "wait"} /\ pc' \in {"join", "wait"}
                \/ pc \in {"tools", "confirm"} /\ pc' \in {"tools", "confirm"}
    <3>1. HistInOrder'
      BY <2>5 DEF HistInOrder
    <3>2. HistPast'
      BY <2>0, <2>a, <2>5 DEF HistPast, Older
    <3> QED BY <3>1, <3>2
  <2> QED BY <2>2, <2>3, <2>4, <2>5, QuietSteps
<1> QED BY <1>1, <1>2, TypeCorrect, PTL DEF Spec

(* A turn is made once and the history keeps the order of making, also when *)
(* malloc() loses some of them.                                             *)
THEOREM HistoryOrdered == Spec => []HistInOrder
<1> QED BY HistoryPast, PTL

-----------------------------------------------------------------------------
(* A call of turn n of prompt p that is in the log, and to the end.         *)
Done(lg, p, n, i) ==
  \E k \in 1 .. Len(lg) :
    lg[k].prompt = p /\ lg[k].iter = n /\ lg[k].call = i /\ lg[k].how # "partial"

(* What the blocks say of the calls they answer is what the log says.       *)
Honest(lg, toks, calls, p, n) ==
  \A j \in 1 .. Len(toks) :
    toks[j].tok = "block" /\ Gated(calls[toks[j].call]) =>
      ((toks[j].says = "done") <=> Done(lg, p, n, toks[j].call))

(* The strengthening that makes ReportsMatchEffects inductive: any two      *)
(* entries that belong together agree, wherever they stand, and so do the   *)
(* results turn under construction and the calls settled so far.            *)
AllHonest ==
  \A k, l \in 1 .. Len(hist) : Answers(hist[l], hist[k]) =>
    Honest(log, hist[l].toks, hist[k].calls, hist[k].prompt, hist[k].iter)

TurnHonest ==
  pc \in {"tools", "confirm"} =>
    /\ \A k \in 1 .. Len(hist) : IsTurn(hist[k]) => hist[k].calls = reply.calls
    /\ \A j \in 1 .. Len(toolmsg.toks) :
         toolmsg.toks[j].tok = "block" => toolmsg.toks[j].call < next
    /\ Honest(log, toolmsg.toks, reply.calls, prompts, iter)

(* A gated tool answers success exactly when its effect is complete.        *)
LEMMA GatedOutcomes ==
  ASSUME NEW c \in Call, Gated(c), NEW o \in Outcomes(c)
  PROVE  (o.says = "done") <=> o.how \in {"whole", "cut"}
<1>1. CASE c.tool = "write"
  <2>1. o \in WriteOutcomes(c)
    BY <1>1 DEF Outcomes, Gated
  <2> QED BY <2>1 DEF WriteOutcomes, Refused
<1>2. CASE c.tool = "run"
  <2>1. o \in RunOutcomes(c)
    BY <1>2 DEF Outcomes, Gated
  <2> QED BY <2>1 DEF RunOutcomes, Refused
<1> QED BY <1>1, <1>2 DEF Gated

(* Adding to the history only adds that turn.                               *)
LEMMA AddedFrom ==
  ASSUME hist \in Seq(Message), NEW m \in Message, HistAdd(m),
         NEW k \in 1 .. Len(hist')
  PROVE  hist'[k] = m \/ \E j \in 1 .. Len(hist) : hist'[k] = hist[j]
<1> DEFINE d == IF Len(hist) >= MaxMsgs THEN 2 ELSE 0
           ev == Evicted(hist)
<1>1. /\ ev \in Seq(Message) /\ d <= Len(hist) /\ Len(ev) = Len(hist) - d
      /\ \A i \in 1 .. Len(hist) - d : ev[i] = hist[i + d]
  BY EvictedFacts
<1>2. hist' = Append(ev, m) \/ hist' = ev
  BY HistAddFacts
<1>3. Len(hist) \in Nat /\ d \in {0, 2}
  OBVIOUS
<1> HIDE DEF ev, d
<1>4. Len(ev) \in Nat /\ \A i \in 1 .. Len(ev) : \E j \in 1 .. Len(hist) : ev[i] = hist[j]
  <2>1. \A i \in 1 .. Len(ev) : i + d \in 1 .. Len(hist) /\ ev[i] = hist[i + d]
    BY <1>1, <1>3
  <2> QED BY <1>1, <1>3, <2>1
<1>5. CASE hist' = ev
  BY <1>4, <1>5
<1>6. CASE hist' = Append(ev, m)
  <2>1. /\ Len(hist') = Len(ev) + 1 /\ hist'[Len(ev) + 1] = m
        /\ \A i \in 1 .. Len(ev) : hist'[i] = ev[i]
    BY <1>1, <1>6, AppendProperties
  <2> QED BY <1>4, <2>1
<1> QED BY <1>2, <1>5, <1>6

(* A results turn under construction grows by commas and by the block of    *)
(* the call at hand.                                                        *)
LEMMA AddResultTokens ==
  ASSUME NEW tm \in [toks : Seq(Token), used : Nat],
         NEW i \in Nat, NEW o \in Outcome,
         NEW j \in 1 .. Len(AddResult(tm, i, o).toks)
  PROVE  \/ AddResult(tm, i, o).toks[j].tok = "comma"
         \/ AddResult(tm, i, o).toks[j] = Block(i, o.says)
         \/ \E q \in 1 .. Len(tm.toks) : AddResult(tm, i, o).toks[j] = tm.toks[q]
<1> DEFINE tc == WithComma(tm, i)
<1>1. tm.toks \in Seq(Token) /\ Comma \in Token /\ Block(i, o.says) \in Token
  BY DEF Comma, Block, Token, Outcome
<1>2. /\ tc.toks \in Seq(Token)
      /\ \A q \in 1 .. Len(tc.toks) :
           tc.toks[q].tok = "comma" \/ \E p \in 1 .. Len(tm.toks) : tc.toks[q] = tm.toks[p]
  <2>1. tc.toks = tm.toks \/ tc.toks = Append(tm.toks, Comma)
    BY DEF WithComma
  <2>2. CASE tc.toks = tm.toks
    BY <1>1, <2>2
  <2>3. CASE tc.toks = Append(tm.toks, Comma)
    <3>1. /\ tc.toks \in Seq(Token) /\ Len(tc.toks) = Len(tm.toks) + 1
          /\ tc.toks[Len(tm.toks) + 1] = Comma
          /\ \A q \in 1 .. Len(tm.toks) : tc.toks[q] = tm.toks[q]
      BY <1>1, <2>3, AppendProperties
    <3>2. Comma.tok = "comma" /\ Len(tm.toks) \in Nat
      BY <1>1 DEF Comma
    <3> HIDE DEF tc
    <3> QED BY <3>1, <3>2
  <2> QED BY <2>1, <2>2, <2>3
<1> HIDE DEF tc
<1> DEFINE T == AddResult(tm, i, o).toks
<1>3. T = tm.toks \/ T = tc.toks \/ T = Append(tc.toks, Block(i, o.says))
  BY DEF AddResult, WithBlock, tc
<1> HIDE DEF T
<1> SUFFICES ASSUME NEW q \in 1 .. Len(T)
             PROVE  \/ T[q].tok = "comma" \/ T[q] = Block(i, o.says)
                    \/ \E p \in 1 .. Len(tm.toks) : T[q] = tm.toks[p]
  BY DEF T
<1>4. CASE T = tm.toks
  BY <1>4
<1>5. CASE T = tc.toks
  BY <1>2, <1>5
<1>6. CASE T = Append(tc.toks, Block(i, o.says))
  <2>1. /\ Len(T) = Len(tc.toks) + 1 /\ T[Len(tc.toks) + 1] = Block(i, o.says)
        /\ \A p \in 1 .. Len(tc.toks) : T[p] = tc.toks[p]
    BY <1>1, <1>2, <1>6, AppendProperties
  <2>2. Len(tc.toks) \in Nat
    BY <1>2
  <2>3. q \in 1 .. Len(tc.toks) \/ q = Len(tc.toks) + 1
    BY <2>1, <2>2
  <2> QED BY <1>2, <2>1, <2>3
<1> QED BY <1>3, <1>4, <1>5, <1>6

(* What a step does to the turn: it settles the call at hand, adds a turn   *)
(* to the history, or touches neither.                                      *)
LEMMA SettledSteps ==
  ASSUME TypeOK, [Next]_vars
  PROVE  \/ pc = "repl" /\ \E len \in PromptLens : StartPrompt(len)
         \/ \E r \in Replies : ReplyAsksTools(r)
         \/ FinishTurn
         \/ \E o \in Outcome, how \in Approval :
              /\ pc \in {"tools", "confirm"} /\ next <= Kept(reply)
              /\ Finish(o, how)
              /\ o.how # "none" => Gated(Current)
              /\ Gated(Current) => ((o.says = "done") <=> o.how \in {"whole", "cut"})
         \/ /\ UNCHANGED <<hist, log, iter, prompts>>
            /\ \/ pc' \notin {"tools", "confirm"}
               \/ /\ pc \in {"tools", "confirm"}
                  /\ UNCHANGED <<reply, next, toolmsg>>
<1> USE DEF TypeOK
<1>1. CASE Session
  BY <1>1 DEF Session, TypePrompt, ReadLeftover, TypeAhead, Quit
<1>2. CASE RunTool \/ User
  <2>1. PICK o \in Outcome, how \in Approval : Settling(o, how)
    BY <1>2, Settles
  <2>2. Gated(Current) => ((o.says = "done") <=> o.how \in {"whole", "cut"})
    BY <2>1, GatedOutcomes DEF Settling, Refused
  <2> QED BY <2>1, <2>2 DEF Settling
<1>4. CASE SendRequest \/ IterationCap \/ Ask \/ ReplyEnds
  BY <1>4 DEF SendRequest, IterationCap, Ask, ReplyEnds
<1>5. CASE UNCHANGED vars
  BY <1>5 DEF vars
<1> QED BY <1>1, <1>2, <1>4, <1>5 DEF Next, Program, Peer, Finished

(* A turn whose results are on the history is over: the loop is past it.    *)
LEMMA ResultsPast ==
  ASSUME TypeOK, HistPast, pc \in {"join", "wait", "tools", "confirm"},
         NEW l \in 1 .. Len(hist), hist[l].kind = "results"
  PROVE  ~(hist[l].prompt = prompts /\ hist[l].iter = iter)
<1>1. hist[l] \in Message /\ prompts \in Nat /\ iter \in Nat
  BY SizesAssumption DEF TypeOK
<1>2. hist[l].prompt \in Nat /\ hist[l].iter \in Nat
  BY <1>1 DEF Message
<1> QED BY <1>1, <1>2 DEF HistPast, Older

(* Settling a call changes nothing that was said of earlier turns, and what *)
(* it adds to the results says what it did.                                 *)
LEMMA HonestSettled ==
  ASSUME TypeOK, HistPast, LogPast, AllHonest, TurnHonest,
         pc \in {"tools", "confirm"}, next <= Kept(reply),
         NEW o \in Outcome, NEW how \in Approval, Finish(o, how),
         o.how # "none" => Gated(Current),
         Gated(Current) => ((o.says = "done") <=> o.how \in {"whole", "cut"})
  PROVE  AllHonest' /\ TurnHonest'
<1> DEFINE e == [prompt |-> prompts, iter |-> iter, call |-> next,
                 tool |-> Current.tool, how |-> o.how, asked |-> how]
<1>1. /\ log' \in Seq(Effect)
      /\ log' = log \/ (o.how # "none" /\ log' = Append(log, e))
      /\ next' = next + 1 /\ pc' = "tools"
      /\ UNCHANGED <<hist, iter, reply, prompts>>
  BY FinishType
<1>2. /\ log' = Logged(Current, o, how)
      /\ toolmsg' = AddResult(toolmsg, next, o)
  BY DEF Finish
<1>3. /\ log \in Seq(Effect) /\ Len(log) \in Nat /\ next \in Nat /\ iter \in Nat
      /\ prompts \in Nat /\ toolmsg \in [toks : Seq(Token), used : Nat]
  BY SizesAssumption DEF TypeOK
<1>4. /\ o.how = "none" => log' = log
      /\ o.how # "none" => log' = Append(log, e)
  BY <1>2 DEF Logged
<1>5. /\ e.prompt = prompts /\ e.iter = iter /\ e.call = next /\ e.how = o.how
  OBVIOUS
<1> HIDE DEF e
<1>6. ASSUME NEW p, NEW n, NEW i, ~(p = prompts /\ n = iter /\ i = next)
      PROVE  Done(log', p, n, i) <=> Done(log, p, n, i)
  <2>1. CASE log' = log
    BY <2>1
  <2>2. CASE log' = Append(log, e)
    <3>1. /\ Len(log') = Len(log) + 1 /\ log'[Len(log) + 1] = e
          /\ \A k \in 1 .. Len(log) : log'[k] = log[k]
      BY <1>3, <2>2
    <3>2. \A k \in 1 .. Len(log') : k \in 1 .. Len(log) \/ k = Len(log) + 1
      BY <1>3, <3>1
    <3>3. \A k \in 1 .. Len(log) : k \in 1 .. Len(log')
      BY <1>3, <3>1
    <3> QED BY <1>5, <1>6, <3>1, <3>2, <3>3 DEF Done
  <2> QED BY <1>1, <2>1, <2>2
<1>7. Done(log', prompts, iter, next) <=> o.how \in {"whole", "cut"}
  <2>1. ~Done(log, prompts, iter, next)
    <3> SUFFICES ASSUME NEW k \in 1 .. Len(log), log[k].prompt = prompts,
                        log[k].iter = iter, log[k].call = next
                 PROVE  FALSE
      BY DEF Done
    <3> QED BY <1>3 DEF LogPast
  <2>2. CASE o.how = "none"
    BY <1>4, <2>1, <2>2
  <2>3. CASE o.how # "none"
    <3>1. /\ Len(log') = Len(log) + 1 /\ log'[Len(log) + 1] = e
          /\ \A k \in 1 .. Len(log) : log'[k] = log[k]
      BY <1>3, <1>4, <2>3
    <3>2. \A k \in 1 .. Len(log') : k \in 1 .. Len(log) \/ k = Len(log) + 1
      BY <1>3, <3>1
    <3>3. o.how \in {"whole", "cut", "partial"}
      BY <2>3 DEF Outcome
    <3>4. CASE o.how = "partial"
      BY <1>5, <2>1, <3>1, <3>2, <3>4 DEF Done
    <3>5. CASE o.how \in {"whole", "cut"}
      <4>1. Len(log) + 1 \in 1 .. Len(log')
        BY <1>3, <3>1
      <4> QED BY <1>5, <3>1, <3>5, <4>1 DEF Done
    <3> QED BY <3>3, <3>4, <3>5
  <2> QED BY <2>2, <2>3
<1>8. AllHonest'
  <2> SUFFICES ASSUME NEW k \in 1 .. Len(hist), NEW l \in 1 .. Len(hist),
                      Answers(hist[l], hist[k])
               PROVE  Honest(log', hist[l].toks, hist[k].calls,
                             hist[k].prompt, hist[k].iter)
    BY <1>1 DEF AllHonest
  <2>1. ~(hist[k].prompt = prompts /\ hist[k].iter = iter)
    BY ResultsPast DEF Answers
  <2>2. Honest(log, hist[l].toks, hist[k].calls, hist[k].prompt, hist[k].iter)
    BY DEF AllHonest
  <2> QED BY <1>6, <2>1, <2>2 DEF Honest
<1>9. TurnHonest'
  <2>1. \A k \in 1 .. Len(hist') : IsTurn(hist[k])' => hist'[k].calls = reply'.calls
    BY <1>1 DEF TurnHonest, IsTurn
  <2>2. ASSUME NEW j \in 1 .. Len(toolmsg'.toks), toolmsg'.toks[j].tok = "block"
        PROVE  /\ toolmsg'.toks[j].call < next + 1
               /\ Gated(reply.calls[toolmsg'.toks[j].call]) =>
                    ((toolmsg'.toks[j].says = "done") <=> Done(log', prompts, iter, toolmsg'.toks[j].call))
    <3>1. \/ toolmsg'.toks[j].tok = "comma"
          \/ toolmsg'.toks[j] = Block(next, o.says)
          \/ \E q \in 1 .. Len(toolmsg.toks) : toolmsg'.toks[j] = toolmsg.toks[q]
      BY <1>2, <1>3, AddResultTokens
    <3>2. CASE toolmsg'.toks[j] = Block(next, o.says)
      <4>1. toolmsg'.toks[j].call = next /\ toolmsg'.toks[j].says = o.says
        BY <3>2 DEF Block
      <4>2. Gated(reply.calls[next]) => ((o.says = "done") <=> o.how \in {"whole", "cut"})
        BY DEF Current
      <4> QED BY <1>3, <1>7, <4>1, <4>2
    <3>3. ASSUME NEW q \in 1 .. Len(toolmsg.toks), toolmsg'.toks[j] = toolmsg.toks[q]
          PROVE  /\ toolmsg'.toks[j].call < next + 1
                 /\ Gated(reply.calls[toolmsg'.toks[j].call]) =>
                      ((toolmsg'.toks[j].says = "done") <=>
                         Done(log', prompts, iter, toolmsg'.toks[j].call))
      <4>1. toolmsg.toks[q].tok = "block" /\ toolmsg.toks[q].call < next
        BY <2>2, <3>3 DEF TurnHonest
      <4>2. toolmsg.toks[q].call \in Nat
        <5>1. toolmsg.toks[q] \in Token
          BY <1>3
        <5> QED BY <5>1 DEF Token
      <4>3. toolmsg.toks[q].call # next /\ toolmsg.toks[q].call < next + 1
        BY <1>3, <4>1, <4>2
      <4>4. Done(log', prompts, iter, toolmsg.toks[q].call)
              <=> Done(log, prompts, iter, toolmsg.toks[q].call)
        BY <1>6, <4>3
      <4>5. Gated(reply.calls[toolmsg.toks[q].call]) =>
              ((toolmsg.toks[q].says = "done") <=> Done(log, prompts, iter, toolmsg.toks[q].call))
        BY <4>1 DEF TurnHonest, Honest
      <4> QED BY <3>3, <4>3, <4>4, <4>5
    <3> QED BY <2>2, <3>1, <3>2, <3>3
  <2> QED BY <1>1, <2>1, <2>2 DEF TurnHonest, Honest
<1> QED BY <1>8, <1>9

(* Adding a turn: nothing on the history answers a prompt or the assistant  *)
(* turn that is added now, and the results turn takes its honesty along.    *)
LEMMA HonestAdded ==
  ASSUME TypeOK, HistPast, AllHonest, TurnHonest, [Next]_vars,
         \/ pc = "repl" /\ \E len \in PromptLens : StartPrompt(len)
         \/ \E r \in Replies : ReplyAsksTools(r)
         \/ FinishTurn
  PROVE  AllHonest' /\ TurnHonest'
<1>0. hist \in Seq(Message)
  BY DEF TypeOK
<1>1. ASSUME NEW m \in Message, HistAdd(m), log' = log,
             m.kind = "results" =>
               \A k \in 1 .. Len(hist) : Answers(m, hist[k]) =>
                 Honest(log, m.toks, hist[k].calls, hist[k].prompt, hist[k].iter),
             \A l \in 1 .. Len(hist) : ~Answers(hist[l], m)
      PROVE  AllHonest'
  <2> SUFFICES ASSUME NEW k \in 1 .. Len(hist'), NEW l \in 1 .. Len(hist'),
                      Answers(hist'[l], hist'[k])
               PROVE  Honest(log, hist'[l].toks, hist'[k].calls,
                             hist'[k].prompt, hist'[k].iter)
    BY <1>1 DEF AllHonest
  <2>1. hist'[k] = m \/ \E j \in 1 .. Len(hist) : hist'[k] = hist[j]
    BY <1>0, <1>1, AddedFrom
  <2>2. hist'[l] = m \/ \E j \in 1 .. Len(hist) : hist'[l] = hist[j]
    BY <1>0, <1>1, AddedFrom
  <2>3. ~Answers(m, m)
    BY DEF Answers
  <2>4. hist'[k] # m
    BY <1>1, <2>2, <2>3
  <2>5. PICK j \in 1 .. Len(hist) : hist'[k] = hist[j]
    BY <2>1, <2>4
  <2>6. CASE hist'[l] = m
    BY <1>1, <2>5, <2>6 DEF Answers
  <2>7. ASSUME NEW q \in 1 .. Len(hist), hist'[l] = hist[q]
        PROVE  Honest(log, hist'[l].toks, hist'[k].calls,
                      hist'[k].prompt, hist'[k].iter)
    BY <2>5, <2>7 DEF AllHonest
  <2> QED BY <2>2, <2>6, <2>7
<1>2. ASSUME pc = "repl", NEW len \in PromptLens, StartPrompt(len)
      PROVE  AllHonest' /\ TurnHonest'
  <2>1. PICK m \in Message : HistAdd(m) /\ m.kind = "prompt"
    <3>1. prompts' \in Nat
      BY <1>2 DEF StartPrompt, TypeOK
    <3> QED BY <1>2, <3>1, MessagesTyped DEF StartPrompt, PromptMsg
  <2>2. log' = log /\ pc' = "join"
    BY <1>2 DEF StartPrompt
  <2>3. \A l \in 1 .. Len(hist) : ~Answers(hist[l], m)
    BY <2>1 DEF Answers
  <2> QED BY <1>1, <2>1, <2>2, <2>3 DEF TurnHonest
<1>3. ASSUME NEW r \in Replies, ReplyAsksTools(r)
      PROVE  AllHonest' /\ TurnHonest'
  <2>1. PICK m \in Message : /\ HistAdd(m) /\ m.kind = "asst" /\ m.calls = r.calls
                             /\ m.prompt = prompts /\ m.iter = iter
    BY <1>3, MessagesTyped DEF ReplyAsksTools, AsstMsg
  <2>2. /\ log' = log /\ iter' = iter /\ prompts' = prompts /\ pc = "wait"
        /\ reply' = r /\ toolmsg' = NewToolMsg
    BY <1>3 DEF ReplyAsksTools
  <2>3. ASSUME NEW l \in 1 .. Len(hist) PROVE ~Answers(hist[l], m)
    BY <2>1, <2>2, ResultsPast DEF Answers
  <2>4. AllHonest'
    BY <1>1, <2>1, <2>2, <2>3
  <2>5. ASSUME NEW k \in 1 .. Len(hist'), IsTurn(hist[k])'
        PROVE  hist'[k].calls = reply'.calls
    <3>1. /\ hist'[k].kind = "asst" /\ hist'[k].prompt = prompts
          /\ hist'[k].iter = iter
      BY <2>2, <2>5 DEF IsTurn
    <3>2. ASSUME NEW j \in 1 .. Len(hist), hist'[k] = hist[j] PROVE FALSE
      <4>1. prompts \in Nat /\ iter \in Nat
        BY SizesAssumption DEF TypeOK
      <4> QED BY <2>2, <3>1, <3>2, <4>1 DEF HistPast, Older
    <3>3. hist'[k] = m
      BY <1>0, <2>1, <3>2, AddedFrom
    <3> QED BY <2>1, <2>2, <3>3
  <2>6. toolmsg'.toks = <<>>
    BY <2>2 DEF NewToolMsg
  <2>7. 1 .. Len(toolmsg'.toks) = {}
    BY <2>6
  <2> QED BY <2>4, <2>5, <2>7 DEF TurnHonest, Honest
<1>4. CASE FinishTurn
  <2>1. PICK m \in Message : /\ HistAdd(m) /\ m.kind = "results" /\ m.toks = toolmsg.toks
                             /\ m.prompt = prompts /\ m.iter = iter
    BY <1>4, MessagesTyped DEF FinishTurn, ResultsMsg
  <2>2. log' = log /\ pc = "tools" /\ pc' = "join"
    BY <1>4 DEF FinishTurn
  <2>3. \A l \in 1 .. Len(hist) : ~Answers(hist[l], m)
    BY <2>1 DEF Answers
  <2>4. ASSUME NEW k \in 1 .. Len(hist), Answers(m, hist[k])
        PROVE  Honest(log, m.toks, hist[k].calls, hist[k].prompt, hist[k].iter)
    <3>1. IsTurn(hist[k])
      BY <2>1, <2>4 DEF Answers, IsTurn
    <3>2. hist[k].calls = reply.calls /\ Honest(log, toolmsg.toks, reply.calls, prompts, iter)
      BY <2>2, <3>1 DEF TurnHonest
    <3>3. hist[k].prompt = prompts /\ hist[k].iter = iter
      BY <3>1 DEF IsTurn
    <3> QED BY <2>1, <3>2, <3>3
  <2> QED BY <1>1, <2>1, <2>2, <2>3, <2>4 DEF TurnHonest
<1> QED BY <1>2, <1>3, <1>4

(* What the client tells the model of a write or a command is what became   *)
(* of it, for every history, reply, user and malloc(): the results of       *)
(* execute_tool() reach the entry of g_hist that answers their own turn.    *)
THEOREM ReportsHonest == Spec => []ReportsMatchEffects
<1> DEFINE IInv == AllHonest /\ TurnHonest
<1>1. Init => IInv
  BY DEF Init, AllHonest, TurnHonest
<1>2. TypeOK /\ (HistPast /\ HistInOrder) /\ (LogPast /\ EffectsInOrder) /\ IInv
        /\ [Next]_vars => IInv'
  <2> SUFFICES ASSUME TypeOK, HistPast, LogPast, AllHonest, TurnHonest, [Next]_vars
               PROVE  AllHonest' /\ TurnHonest'
    OBVIOUS
  <2>1. CASE \/ pc = "repl" /\ \E len \in PromptLens : StartPrompt(len)
             \/ \E r \in Replies : ReplyAsksTools(r)
             \/ FinishTurn
    BY <2>1, HonestAdded
  <2>2. CASE \E o \in Outcome, how \in Approval :
               /\ pc \in {"tools", "confirm"} /\ next <= Kept(reply)
               /\ Finish(o, how)
               /\ o.how # "none" => Gated(Current)
               /\ Gated(Current) => ((o.says = "done") <=> o.how \in {"whole", "cut"})
    BY <2>2, HonestSettled
  <2>3. CASE /\ UNCHANGED <<hist, log, iter, prompts>>
             /\ \/ pc' \notin {"tools", "confirm"}
                \/ /\ pc \in {"tools", "confirm"}
                   /\ UNCHANGED <<reply, next, toolmsg>>
    <3>1. AllHonest'
      BY <2>3 DEF AllHonest
    <3>2. TurnHonest'
      BY <2>3 DEF TurnHonest, IsTurn
    <3> QED BY <3>1, <3>2
  <2> QED BY <2>1, <2>2, <2>3, SettledSteps
<1>3. TypeOK /\ IInv => ReportsMatchEffects
  <2> SUFFICES ASSUME TypeOK, AllHonest,
                      NEW k \in 2 .. Len(hist), Answers(hist[k], hist[k - 1]),
                      NEW j \in 1 .. Len(hist[k].toks),
                      hist[k].toks[j].tok = "block",
                      Gated(hist[k - 1].calls[hist[k].toks[j].call])
               PROVE  hist[k].toks[j].says = "done"
                        <=> Happened(hist[k - 1], hist[k].toks[j].call)
    BY DEF ReportsMatchEffects
  <2>0. hist \in Seq(Message) /\ Len(hist) \in Nat
    BY DEF TypeOK
  <2>1. k \in 1 .. Len(hist) /\ k - 1 \in 1 .. Len(hist)
    BY <2>0
  <2>2. Honest(log, hist[k].toks, hist[k - 1].calls, hist[k - 1].prompt, hist[k - 1].iter)
    BY <2>1 DEF AllHonest
  <2> QED BY <2>2 DEF Honest, Done, Happened
<1> QED BY <1>1, <1>2, <1>3, TypeCorrect, HistoryPast, EffectsPast, PTL DEF Spec

-----------------------------------------------------------------------------
(* Only a results turn has blocks, and it has one for a call at most.       *)
OncePerCall(toks) ==
  \A j, k \in 1 .. Len(toks) :
    toks[j].tok = "block" /\ toks[k].tok = "block" /\ toks[j].call = toks[k].call => j = k

WellMade(m) == (m.kind # "results" => m.toks = <<>>) /\ OncePerCall(m.toks)

(* ... which holds of the turn under construction because its blocks are    *)
(* those of calls the loop has passed.                                      *)
MadeSoFar(toks, n) ==
  OncePerCall(toks) /\ \A j \in 1 .. Len(toks) : toks[j].tok = "block" => toks[j].call < n

AllWellMade ==
  (\A k \in 1 .. Len(hist) : WellMade(hist[k])) /\ MadeSoFar(toolmsg.toks, next)

(* It stays so when a comma or a later block is appended ...                *)
LEMMA MadeAppend ==
  ASSUME NEW q \in Seq(Token), NEW t \in Token, NEW n \in Nat, NEW l \in Nat,
         MadeSoFar(q, n), n <= l, t.tok = "block" => t.call >= n /\ t.call < l
  PROVE  MadeSoFar(Append(q, t), l)
<1> DEFINE a == Append(q, t)
<1>1. /\ Len(q) \in Nat /\ Len(a) = Len(q) + 1 /\ a[Len(q) + 1] = t
      /\ \A j \in 1 .. Len(q) : a[j] = q[j] /\ q[j] \in Token
  BY AppendProperties
<1>2. \A u \in Token : u.call \in Nat
  BY DEF Token
<1> HIDE DEF a
<1>3. \A j \in 1 .. Len(a) : j \in 1 .. Len(q) \/ j = Len(q) + 1
  BY <1>1
<1>4. \A j \in 1 .. Len(q) : q[j].tok = "block" => q[j].call \in Nat /\ q[j].call < n
  BY <1>1, <1>2 DEF MadeSoFar
<1>5. \A j \in 1 .. Len(a) : a[j].tok = "block" => a[j].call < l
  BY <1>1, <1>2, <1>3, <1>4
<1>6. \A j \in 1 .. Len(q) :
        a[j].tok = "block" /\ t.tok = "block" => a[j].call # t.call
  BY <1>1, <1>2, <1>4
<1>7. OncePerCall(a)
  BY <1>1, <1>3, <1>6 DEF MadeSoFar, OncePerCall
<1> QED BY <1>5, <1>7 DEF a, MadeSoFar

(* ... and so does AddResult() leave it.                                    *)
LEMMA MadeAdd ==
  ASSUME NEW tm \in [toks : Seq(Token), used : Nat], NEW i \in Nat, NEW o \in Outcome,
         MadeSoFar(tm.toks, i)
  PROVE  MadeSoFar(AddResult(tm, i, o).toks, i + 1)
<1>1. /\ Comma \in Token /\ Comma.tok = "comma"
      /\ Block(i, o.says) \in Token /\ Block(i, o.says).call = i
  BY DEF Comma, Block, Token, Outcome
<1> DEFINE tc == WithComma(tm, i)
<1>2. tc.toks = tm.toks \/ tc.toks = Append(tm.toks, Comma)
  BY DEF WithComma
<1> DEFINE T == AddResult(tm, i, o).toks
<1>5. T = tm.toks \/ T = tc.toks \/ T = Append(tc.toks, Block(i, o.says))
  BY DEF AddResult, WithBlock
<1> HIDE DEF T, tc
<1>3. tm.toks \in Seq(Token) /\ tc.toks \in Seq(Token)
  <2>1. tm.toks \in Seq(Token)
    OBVIOUS
  <2>2. Append(tm.toks, Comma) \in Seq(Token)
    BY <1>1, <2>1, AppendProperties
  <2> QED BY <1>2, <2>1, <2>2
<1>4. MadeSoFar(tc.toks, i)
  <2>1. MadeSoFar(Append(tm.toks, Comma), i)
    BY <1>1, <1>3, MadeAppend
  <2> QED BY <1>2, <2>1
<1>6. \A q \in Seq(Token) : MadeSoFar(q, i) => MadeSoFar(q, i + 1)
  <2>1. \A u \in Token : u.call \in Nat
    BY DEF Token
  <2> QED BY <2>1 DEF MadeSoFar
<1>7. MadeSoFar(Append(tc.toks, Block(i, o.says)), i + 1)
  <2>1. i <= i + 1 /\ i + 1 \in Nat /\ Block(i, o.says).call >= i /\ Block(i, o.says).call < i + 1
    BY <1>1
  <2> QED BY <1>1, <1>3, <1>4, <2>1, MadeAppend
<1> QED BY <1>3, <1>4, <1>5, <1>6, <1>7 DEF T

(* Every turn on the history is well made.                                  *)
LEMMA TurnsWellMade == Spec => []AllWellMade
<1>0. MadeSoFar(NewToolMsg.toks, 1) /\ OncePerCall(<<>>)
  BY DEF NewToolMsg, MadeSoFar, OncePerCall
<1>1. Init => AllWellMade
  BY <1>0 DEF Init, AllWellMade
<1>2. TypeOK /\ AllWellMade /\ [Next]_vars => AllWellMade'
  <2> SUFFICES ASSUME TypeOK, AllWellMade, [Next]_vars PROVE AllWellMade'
    OBVIOUS
  <2>0. /\ hist \in Seq(Message) /\ prompts \in Nat /\ next \in Nat
        /\ toolmsg \in [toks : Seq(Token), used : Nat]
    BY DEF TypeOK
  <2>1. ASSUME NEW m \in Message, HistAdd(m), WellMade(m), MadeSoFar(toolmsg'.toks, next')
        PROVE  AllWellMade'
    <3>1. \A k \in 1 .. Len(hist') :
            hist'[k] = m \/ \E j \in 1 .. Len(hist) : hist'[k] = hist[j]
      BY <2>0, <2>1, AddedFrom
    <3> QED BY <2>1, <3>1 DEF AllWellMade
  <2>2. CASE \E len \in PromptLens : StartPrompt(len)
    <3>1. PICK len \in PromptLens : StartPrompt(len)
      BY <2>2
    <3>2. /\ prompts' \in Nat /\ HistAdd(PromptMsg(prompts', len))
          /\ toolmsg' = toolmsg /\ next' = next
      BY <2>0, <3>1 DEF StartPrompt
    <3>3. PromptMsg(prompts', len) \in Message /\ WellMade(PromptMsg(prompts', len))
      BY <1>0, <3>2, MessagesTyped DEF PromptMsg, WellMade
    <3> QED BY <2>1, <3>2, <3>3 DEF AllWellMade
  <2>3. CASE \E r \in Replies : ReplyAsksTools(r)
    <3>1. PICK r \in Replies : ReplyAsksTools(r)
      BY <2>3
    <3>2. HistAdd(AsstMsg(r)) /\ toolmsg' = NewToolMsg /\ next' = 1
      BY <3>1 DEF ReplyAsksTools
    <3>3. AsstMsg(r) \in Message /\ WellMade(AsstMsg(r))
      BY <1>0, MessagesTyped DEF AsstMsg, WellMade
    <3> QED BY <1>0, <2>1, <3>2, <3>3
  <2>4. CASE FinishTurn
    <3>1. HistAdd(ResultsMsg) /\ toolmsg' = NewToolMsg /\ next' = 1
      BY <2>4 DEF FinishTurn
    <3>2. ResultsMsg \in Message /\ WellMade(ResultsMsg)
      BY MessagesTyped DEF ResultsMsg, WellMade, AllWellMade, MadeSoFar
    <3> QED BY <1>0, <2>1, <3>1, <3>2
  <2>5. ASSUME NEW o \in Outcome, NEW how, Finish(o, how) PROVE AllWellMade'
    <3>1. hist' = hist /\ toolmsg' = AddResult(toolmsg, next, o) /\ next' = next + 1
      BY <2>5 DEF Finish
    <3>2. MadeSoFar(AddResult(toolmsg, next, o).toks, next + 1)
      BY <2>0, MadeAdd DEF AllWellMade
    <3> QED BY <3>1, <3>2 DEF AllWellMade
  <2>6. CASE UNCHANGED <<hist, toolmsg, next>>
    BY <2>6 DEF AllWellMade
  <2>7. CASE RunTool \/ User
    BY <2>5, <2>7, Settles DEF Settling
  <2> QED
    BY <2>2, <2>3, <2>4, <2>6, <2>7
       DEF Next, Program, Peer, Session, Finished, vars, TypePrompt, ReadLeftover, TypeAhead, Quit,
           SendRequest, IterationCap, Ask, ReplyEnds
<1> QED BY <1>1, <1>2, TypeCorrect, PTL DEF Spec

-----------------------------------------------------------------------------
(* Whatever malloc() did, what is in flight is a run of the history.        *)
RunOfHistory ==
  pc = "wait" /\ request # <<>> =>
    \E s \in 1 .. Len(hist) : \E e \in s .. Len(hist) : request = SubSeq(hist, s, e)

LEMMA RequestsAreRuns == Spec => []RunOfHistory
<1>1. Init => RunOfHistory
  BY DEF Init, RunOfHistory
<1>2. TypeOK /\ RunOfHistory /\ [Next]_vars => RunOfHistory'
  <2> SUFFICES ASSUME TypeOK, RunOfHistory, [Next]_vars PROVE RunOfHistory'
    OBVIOUS
  <2>1. CASE SendRequest
    <3>1. request' = HistJoin(hist) /\ hist' = hist /\ hist \in Seq(Message)
      BY <2>1 DEF SendRequest, TypeOK
    <3> QED BY <3>1, HistJoinIsRun DEF RunOfHistory
  <2>2. CASE UNCHANGED <<pc, hist, request>>
    BY <2>2 DEF RunOfHistory
  <2>3. CASE pc' # "wait"
    BY <2>3 DEF RunOfHistory
  <2> QED
    BY <2>1, <2>2, <2>3
       DEF Next, Program, Peer, User, Session, Finished, vars, TypePrompt, ReadLeftover, TypeAhead,
           StartPrompt, Quit, IterationCap, RunTool, Ask, FinishTurn, ReplyEnds,
           ReplyAsksTools, AnswerTyped, AnswerLeftover, AnswerEof, Decide, Finish
<1> QED BY <1>1, <1>2, TypeCorrect, PTL DEF Spec

-----------------------------------------------------------------------------
(* The steps of the client are steps of the contract, or change nothing it  *)
(* speaks of: at most MaxIters requests and MaxIters * MaxTools settled     *)
(* calls per prompt, each with at most one effect.                          *)
THEOREM RefinesTurn == Spec => Turn!Safety
<1>1. Init => Turn!Init
  BY DEF Init, Turn!Init
<1>2. TypeOK /\ [Next]_vars => [Turn!Next]_(Turn!vars)
  <2> SUFFICES ASSUME TypeOK, [Next]_vars PROVE [Turn!Next]_(Turn!vars)
    OBVIOUS
  <2> USE DEF Turn!vars
  <2>0. /\ iter \in Nat /\ MaxIters \in Nat \ {0} /\ log \in Seq(Effect) /\ next \in Nat
        /\ iter <= MaxIters
    BY SizesAssumption DEF TypeOK
  <2>1. CASE TypePrompt
    BY <2>1 DEF TypePrompt, StartPrompt, Turn!Next, Turn!Prompt
  <2>2. CASE ReadLeftover
    BY <2>2 DEF ReadLeftover, TypeAhead, StartPrompt, Turn!Next, Turn!Prompt
  <2>3. CASE Quit
    BY <2>3 DEF Quit, Turn!Next, Turn!Stop
  <2>4. CASE SendRequest
    BY <2>0, <2>4 DEF SendRequest, Turn!Next, Turn!System, Turn!Send
  <2>5. CASE IterationCap
    BY <2>5 DEF IterationCap, Turn!Next, Turn!System, Turn!GiveUp
  <2>6. CASE ReplyEnds
    BY <2>6 DEF ReplyEnds, Turn!Next, Turn!System, Turn!Conclude
  <2>7. ASSUME NEW r \in Replies, ReplyAsksTools(r) PROVE Turn!Next
    <3>1. Kept(r) + 1 - 1 \in 1 .. MaxTools
      BY KeptFacts, SizesAssumption
    <3>2. /\ pc = "wait" /\ pc' = "tools" /\ reply' = r /\ next' = 1
          /\ iter' = iter /\ log' = log
      BY <2>7 DEF ReplyAsksTools
    <3>3. Kept(reply') + 1 - next' \in 1 .. MaxTools
      BY <3>1, <3>2
    <3> QED BY <3>2, <3>3 DEF Turn!Next, Turn!System, Turn!TakeCalls
  <2>8. CASE Ask
    BY <2>8 DEF Ask
  <2>9. CASE FinishTurn
    <3>1. next = Kept(reply) + 1 /\ Kept(reply) \in Nat /\ pc = "tools"
      BY <2>0, <2>9, KeptFacts DEF FinishTurn, TypeOK
    <3> QED BY <2>9, <3>1 DEF FinishTurn, Turn!Next, Turn!System, Turn!Report
  <2>10. ASSUME NEW o \in Outcome, o.how # "none" => Gated(Current),
                NEW how \in Approval, Finish(o, how),
                pc \in {"tools", "confirm"}, next <= Kept(reply)
         PROVE  Turn!Next
    <3>1. /\ log' = log \/ \E e \in Effect : log' = Append(log, e)
          /\ next' = next + 1 /\ pc' = "tools" /\ reply' = reply /\ iter' = iter
      <4>1. log' \in Seq(Effect)
        BY <2>10, FinishType
      <4> DEFINE e == [prompt |-> prompts, iter |-> iter, call |-> next,
                       tool |-> Current.tool, how |-> o.how, asked |-> how]
      <4>2. \/ log' = log
            \/ o.how # "none" /\ log' = Append(log, e)
        BY <2>10, FinishType
      <4>3. ASSUME o.how # "none" PROVE e \in Effect
        <5>1. prompts \in Nat /\ Current.tool \in {"write", "run"}
              /\ o.how \in {"whole", "cut", "partial"}
          BY <2>10, <4>3 DEF TypeOK, Gated, Outcome
        <5> QED BY <2>0, <5>1 DEF Effect
      <4> HIDE DEF e
      <4>4. next' = next + 1 /\ pc' = "tools" /\ reply' = reply /\ iter' = iter
        BY <2>10 DEF Finish
      <4> QED BY <4>2, <4>3, <4>4
    <3>2. Len(log') \in {Len(log), Len(log) + 1}
      BY <2>0, <3>1
    <3>3. Kept(reply) \in Nat /\ Kept(reply') = Kept(reply)
      BY <2>10, <3>1, KeptFacts DEF TypeOK
    <3>4. Kept(reply') + 1 - next' = (Kept(reply) + 1 - next) - 1
          /\ Kept(reply) + 1 - next > 0
      BY <2>0, <2>10, <3>1, <3>3
    <3> QED BY <2>10, <3>1, <3>2, <3>4 DEF Turn!Next, Turn!System, Turn!Settle
  <2>11. CASE RunTool \/ User
    BY <2>10, <2>11, Settles DEF Settling
  <2>12. CASE TypeAhead
    BY <2>12 DEF TypeAhead, Kept
  <2>13. CASE UNCHANGED vars
    BY <2>13 DEF vars, Kept
  <2> QED
    BY <2>1, <2>2, <2>3, <2>4, <2>5, <2>6, <2>7, <2>8, <2>9, <2>11, <2>12, <2>13
       DEF Next, Program, Peer, Session, Finished
<1> QED BY <1>1, <1>2, TypeCorrect, PTL DEF Spec, Turn!Safety

=============================================================================
