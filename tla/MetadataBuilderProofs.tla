------------------------ MODULE MetadataBuilderProofs ------------------------
(***************************************************************************)
(* Theorems about MetadataBuilder, for any tables, applications, and        *)
(* numbers of calls and versions.                                           *)
(***************************************************************************)
EXTENDS MetadataBuilder, FiniteSetTheorems, WellFoundedInduction, TLAPS

-----------------------------------------------------------------------------
(* Induction: a set of naturals has a least element, a finite one a greatest. *)

LEMMA LeastOf ==
    ASSUME NEW T \in SUBSET Nat, T # {}
    PROVE  \E n \in T : \A m \in T : n <= m
<1> DEFINE R == {p \in Nat \X Nat : p[1] < p[2]}
<1>1. IsWellFoundedOn(R, Nat)
  BY NatLessThanWellFounded DEF OpToRel
<1>2. \E x \in T : \A y \in T : <<y, x>> \notin R
  <2> HIDE DEF R
  <2> QED
    BY <1>1, WFMin
<1>3. PICK x \in T : \A y \in T : <<y, x>> \notin R
  BY <1>2
<1>4. ASSUME NEW y \in T
      PROVE  x <= y
  <2>1. x \in Nat /\ y \in Nat /\ <<y, x>> \notin R
    BY <1>3
  <2>2. ~(y < x)
    BY <2>1
  <2> QED
    BY <2>1, <2>2
<1> QED
  BY <1>4

(* Min and Max are what their names say, where there is such an element. *)
LEMMA MinIs ==
    ASSUME NEW S \in SUBSET Int, NEW x \in S, \A y \in S : x <= y
    PROVE  Min(S) \in S /\ \A y \in S : Min(S) <= y
BY DEF Min

LEMMA MaxIs ==
    ASSUME NEW S \in SUBSET Int, NEW x \in S, \A y \in S : y <= x
    PROVE  Max(S) \in S /\ \A y \in S : y <= Max(S)
<1>1. \A y \in S : x >= y
  OBVIOUS
<1>2. Max(S) \in S /\ \A y \in S : Max(S) >= y
  BY <1>1 DEF Max
<1> QED
  BY <1>2

LEMMA MaxOfTwo ==
    ASSUME NEW a \in Int, NEW b \in Int
    PROVE  Max({a, b}) \in {a, b} /\ a <= Max({a, b}) /\ b <= Max({a, b})
<1>1. CASE a <= b
  BY <1>1, MaxIs
<1>2. CASE ~(a <= b)
  BY <1>2, MaxIs
<1> QED
  BY <1>1, <1>2

LEMMA MinOfNaturals ==
    ASSUME NEW S \in SUBSET Nat, S # {}
    PROVE  Min(S) \in S /\ \A y \in S : Min(S) <= y
<1>1. PICK x \in S : \A y \in S : x <= y
  BY LeastOf
<1> QED
  BY <1>1, MinIs

LEMMA MaxOfBounded ==
    ASSUME NEW S \in SUBSET Nat, S # {}, NEW n \in Nat, \A y \in S : y <= n
    PROVE  Max(S) \in S /\ \A y \in S : y <= Max(S)
<1> DEFINE U == {u \in Nat : \A y \in S : y <= u}
<1>1. PICK u \in U : \A v \in U : u <= v
  <2>1. U \in SUBSET Nat /\ n \in U
    OBVIOUS
  <2> HIDE DEF U
  <2> QED
    BY <2>1, LeastOf
<1>2. u \in S
  <2> SUFFICES ASSUME u \notin S
               PROVE  FALSE
    OBVIOUS
  <2>1. \A y \in S : y \in Nat /\ y <= u /\ y # u
    BY <1>1
  <2>2. PICK y \in S : TRUE
    OBVIOUS
  <2>3. u \in Nat /\ u - 1 \in Nat /\ ~(u <= u - 1)
    BY <1>1, <2>1, <2>2
  <2>4. \A x \in S : x <= u - 1
    BY <2>1, <2>3
  <2>5. u - 1 \in U
    BY <2>3, <2>4
  <2> QED
    BY <1>1, <2>3, <2>5
<1> QED
  BY <1>1, <1>2, MaxIs

LEMMA BoundOf ==
    ASSUME NEW n \in Nat, NEW f, \A i \in 1..n : f[i] \in Nat
    PROVE  \E u \in Nat : \A i \in 1..n : f[i] <= u
<1> DEFINE Bad == {k \in 0..n : ~\E u \in Nat : \A i \in 1..k : f[i] <= u}
<1>1. Bad = {}
  <2> SUFFICES ASSUME Bad # {}
               PROVE  FALSE
    OBVIOUS
  <2>1. PICK k \in Bad : \A j \in Bad : k <= j
    <3>1. Bad \in SUBSET Nat
      OBVIOUS
    <3> HIDE DEF Bad
    <3> QED
      BY <3>1, LeastOf
  <2>2. k # 0
    <3>1. \A i \in 1..0 : f[i] <= 0
      OBVIOUS
    <3> QED
      BY <3>1
  <2>3. k \in Nat /\ k - 1 \in 0..n /\ ~(k <= k - 1)
    BY <2>2
  <2>4. PICK u \in Nat : \A i \in 1..(k - 1) : f[i] <= u
    BY <2>1, <2>3
  <2>5. k \in 1..n /\ f[k] \in Nat
    BY <2>2
  <2>6. ASSUME NEW i \in 1..k
        PROVE  f[i] <= u + f[k]
    <3>1. CASE i = k
      BY <2>5, <3>1
    <3>2. CASE i # k
      <4>1. i \in 1..(k - 1) /\ f[i] \in Nat
        BY <2>3, <3>2
      <4>2. f[i] <= u
        BY <2>4, <4>1
      <4> QED
        BY <2>5, <4>1, <4>2
    <3> QED
      BY <3>1, <3>2
  <2>7. u + f[k] \in Nat
    BY <2>5
  <2> QED
    BY <2>1, <2>6, <2>7
<1> QED
  BY <1>1, SMTT(30)

-----------------------------------------------------------------------------
(* The ids of partition fields. *)

IsSeq(s) == s \in Seq(Range(s))

LEMMA SeqIs ==
    ASSUME NEW s, IsSeq(s)
    PROVE  /\ Len(s) \in Nat /\ DOMAIN s = 1..Len(s)
           /\ \A i \in 1..Len(s) : s[i] \in Range(s)
BY DEF IsSeq, Range

(* Among more ids than there are fields one is free. *)
LEMMA NextFreeIs ==
    ASSUME NEW fs, IsSeq(fs), GivenIds(fs) \subseteq Nat, NEW l \in Nat
    PROVE  /\ NextFree(fs, l) \in Nat /\ l < NextFree(fs, l)
           /\ NextFree(fs, l) \notin GivenIds(fs)
<1> DEFINE n == Len(fs)
           I == l + 1 .. l + 1 + n
           at == [x \in I |-> CHOOSE i \in 1..n : fs[i].id = x]
<1>1. n \in Nat /\ DOMAIN fs = 1..n
  BY SeqIs
<1>2. IsFiniteSet(I) /\ Cardinality(I) = n + 1 /\ IsFiniteSet(1..n) /\ Cardinality(1..n) = n
  <2>1. l + 1 \in Int /\ l + 1 + n \in Int /\ 1 \in Int /\ n \in Int
    BY <1>1
  <2>2. /\ IsFiniteSet(I)
        /\ Cardinality(I) = IF l + 1 > l + 1 + n THEN 0 ELSE l + 1 + n - (l + 1) + 1
    BY <2>1, FS_Interval
  <2>3. IsFiniteSet(1..n) /\ Cardinality(1..n) = IF 1 > n THEN 0 ELSE n - 1 + 1
    BY <2>1, FS_Interval
  <2> QED
    BY <1>1, <2>2, <2>3
<1>3. I \ GivenIds(fs) # {}
  <2> SUFFICES ASSUME I \subseteq GivenIds(fs)
               PROVE  FALSE
    OBVIOUS
  <2>1. \A x \in I : \E i \in 1..n : fs[i].id = x
    BY <1>1 DEF GivenIds, Range
  <2>2. at \in [I -> 1..n] /\ \A x \in I : fs[at[x]].id = x
    BY <2>1
  <2> HIDE DEF at, I
  <2>3. PICK x \in I, y \in I : x # y /\ at[x] = at[y]
    BY <1>1, <1>2, <2>2, FS_PigeonHole
  <2> QED
    BY <2>2, <2>3
<1>4. I \ GivenIds(fs) \in SUBSET Nat
  BY <1>1
<1>5. NextFree(fs, l) \in I \ GivenIds(fs)
  BY <1>3, <1>4, MinOfNaturals DEF NextFree
<1> QED
  BY <1>1, <1>5

(* The function of the highest id so far. *)
Highest(fs, last, h) ==
    h = [i \in 0..Len(fs) |->
            IF i = 0 THEN last ELSE Max({h[i - 1], IdAfter(fs, i, h[i - 1])})]

LEMMA HighestExists ==
    ASSUME NEW fs, IsSeq(fs), NEW last
    PROVE  \E h : Highest(fs, last, h)
<1> DEFINE Step(x, i) == Max({x, IdAfter(fs, i, x)})
           Is(h, k) == h = [i \in 0..k |-> IF i = 0 THEN last ELSE Step(h[i - 1], i)]
           T == {k \in 0..Len(fs) : ~\E h : Is(h, k)}
<1>1. Len(fs) \in Nat
  BY SeqIs
<1>2. T = {}
  <2> SUFFICES ASSUME T # {}
               PROVE  FALSE
    OBVIOUS
  <2> HIDE DEF Step
  <2>1. PICK k \in T : \A j \in T : k <= j
    <3>1. T \in SUBSET Nat
      BY <1>1
    <3> HIDE DEF T
    <3> QED
      BY <3>1, LeastOf
  <2>2. CASE k = 0
    <3> DEFINE h == [i \in 0..0 |-> last]
    <3>1. h = [i \in 0..0 |-> IF i = 0 THEN last ELSE Step(h[i - 1], i)]
      OBVIOUS
    <3> QED
      BY <2>2, <3>1
  <2>3. CASE k # 0
    <3>1. k - 1 \in 0..Len(fs) /\ k \in Nat /\ ~(k <= k - 1)
      BY <1>1, <2>3
    <3>2. PICK g : Is(g, k - 1)
      BY <2>1, <3>1
    <3> DEFINE h == [i \in 0..k |-> IF i = 0 THEN last ELSE Step(g[i - 1], i)]
    <3>3. \A i \in 0..(k - 1) : h[i] = g[i]
      BY <3>1, <3>2
    <3>4. h = [i \in 0..k |-> IF i = 0 THEN last ELSE Step(h[i - 1], i)]
      <4>1. \A i \in 0..k : i # 0 => i - 1 \in 0..(k - 1)
        BY <3>1
      <4> HIDE DEF h
      <4>2. \A i \in 0..k : i # 0 => Step(h[i - 1], i) = Step(g[i - 1], i)
        BY <3>3, <4>1
      <4> QED
        BY <4>2 DEF h
    <3>5. Is(h, k)
      BY <3>4
    <3> QED
      BY <3>5
  <2> QED
    BY <2>2, <2>3
<1>3. \E h : Is(h, Len(fs))
  <2>1. Len(fs) \in 0..Len(fs)
    BY <1>1
  <2> HIDE DEF Is
  <2> QED
    BY <1>2, <2>1
<1> QED
  BY <1>3 DEF Highest

LEMMA SetFieldIdsIs ==
    ASSUME NEW fs, IsSeq(fs), NEW last
    PROVE  \E h : /\ Highest(fs, last, h)
                  /\ SetFieldIds(fs, last) =
                        [i \in DOMAIN fs |-> [fs[i] EXCEPT !.id = IdAfter(fs, i, h[i - 1])]]
<1> DEFINE h == CHOOSE h : Highest(fs, last, h)
<1>1. Highest(fs, last, h)
  BY HighestExists
<1>2. h = CHOOSE g : g = [i \in 0..Len(fs) |->
                IF i = 0 THEN last ELSE Max({g[i - 1], IdAfter(fs, i, g[i - 1])})]
  BY DEF Highest
<1>3. SetFieldIds(fs, last) =
          [i \in DOMAIN fs |-> [fs[i] EXCEPT !.id = IdAfter(fs, i, h[i - 1])]]
  <2> HIDE DEF h
  <2> QED
    BY <1>2 DEF SetFieldIds
<1> QED
  BY <1>1, <1>3

(* It only goes up, and is at least the ids given so far. *)
LEMMA HighestGrows ==
    ASSUME NEW fs, IsSeq(fs), GivenIds(fs) \subseteq Nat, NEW last \in Nat,
           NEW h, Highest(fs, last, h)
    PROVE  /\ \A i \in 0..Len(fs) : h[i] \in Nat /\ last <= h[i]
           /\ \A i \in 1..Len(fs) : IdAfter(fs, i, h[i - 1]) \in Nat
           /\ \A i \in 1..Len(fs) : IdAfter(fs, i, h[i - 1]) <= h[i]
           /\ \A i, j \in 0..Len(fs) : i <= j => h[i] <= h[j]
<1> DEFINE n == Len(fs)
           Id(i) == IdAfter(fs, i, h[i - 1])
           T == {i \in 0..n : ~(h[i] \in Nat /\ last <= h[i])}
<1>1. /\ n \in Nat /\ DOMAIN fs = 1..n
      /\ h[0] = last /\ \A i \in 1..n : h[i] = Max({h[i - 1], Id(i)})
  <2>1. n \in Nat /\ DOMAIN fs = 1..n
    BY SeqIs
  <2>2. \A i \in 0..n : h[i] = IF i = 0 THEN last ELSE Max({h[i - 1], Id(i)})
    <3> HIDE DEF Id
    <3> QED
      BY DEF Highest, Id
  <2>3. 0 \in 0..n /\ \A i \in 1..n : i \in 0..n /\ i # 0
    BY <2>1
  <2> HIDE DEF Id
  <2> QED
    BY <2>1, <2>2, <2>3
<1>2. ASSUME NEW i \in 1..n, h[i - 1] \in Nat
      PROVE  Id(i) \in Nat /\ h[i] \in Nat /\ h[i - 1] <= h[i] /\ Id(i) <= h[i]
  <2>1. Id(i) \in Nat
    BY <1>1, <1>2, NextFreeIs DEF IdAfter, GivenIds, Range
  <2>2. h[i] = Max({h[i - 1], Id(i)})
    BY <1>1
  <2> HIDE DEF Id
  <2>3. h[i - 1] \in Int /\ Id(i) \in Int
    BY <1>2, <2>1
  <2>4. h[i] \in {h[i - 1], Id(i)} /\ h[i - 1] <= h[i] /\ Id(i) <= h[i]
    BY <2>2, <2>3, MaxOfTwo
  <2> QED
    BY <1>2, <2>1, <2>4
<1>3. T = {}
  <2> SUFFICES ASSUME T # {}
               PROVE  FALSE
    OBVIOUS
  <2>1. T \in SUBSET Nat
    BY <1>1
  <2>2. PICK k \in T : \A j \in T : k <= j
    <3> HIDE DEF T
    <3> QED
      BY <2>1, LeastOf
  <2>3. k # 0 /\ k \in 1..n /\ k - 1 \in 0..n /\ k - 1 \notin T
    BY <1>1, <2>2
  <2>4. h[k - 1] \in Nat /\ last <= h[k - 1]
    BY <2>3
  <2> QED
    BY <1>2, <2>2, <2>3, <2>4
<1>4. \A i \in 1..n : i - 1 \in 0..n /\ h[i - 1] \in Nat
  BY <1>1, <1>3
<1>5. ASSUME NEW i \in 0..n
      PROVE  \A j \in 0..n : i <= j => h[i] <= h[j]
  <2> DEFINE U == {j \in 0..n : i <= j /\ ~(h[i] <= h[j])}
  <2> SUFFICES ASSUME U # {}
               PROVE  FALSE
    OBVIOUS
  <2>1. U \in SUBSET Nat
    BY <1>1
  <2>2. PICK k \in U : \A j \in U : k <= j
    <3> HIDE DEF U
    <3> QED
      BY <2>1, LeastOf
  <2>3. h[i] \in Nat /\ h[k] \in Nat
    BY <1>1, <1>3
  <2>4. k # i /\ k \in 1..n /\ k - 1 \in 0..n /\ i <= k - 1 /\ k - 1 \notin U
    BY <1>1, <2>2, <2>3
  <2>5. h[i] <= h[k - 1] /\ h[k - 1] \in Nat
    BY <1>4, <2>4
  <2>6. h[k - 1] <= h[k]
    BY <1>2, <2>4, <2>5
  <2> QED
    BY <2>2, <2>3, <2>5, <2>6
<1> QED
  BY <1>1, <1>2, <1>3, <1>4, <1>5

-----------------------------------------------------------------------------
(* Fields that were asked for keep the id they came with, the others get     *)
(* ids of their own beyond all that were assigned before.                    *)
Identified(f, id) ==
    [source |-> f.source, name |-> f.name, transform |-> f.transform, id |-> id]
IsField(f) == f = Identified(f, f.id)

LEMMA FieldIdsAreNew ==
    ASSUME NEW fs, IsSeq(fs), GivenIds(fs) \subseteq Nat, NEW last \in Nat,
           \A f \in Range(fs) : IsField(f)
    PROVE  LET bound == SetFieldIds(fs, last)
           IN  /\ IsSeq(bound) /\ Len(bound) = Len(fs) /\ DOMAIN bound = DOMAIN fs
               /\ \A i \in DOMAIN fs :
                     /\ bound[i] = Identified(fs[i], bound[i].id)
                     /\ bound[i].id \in Nat
                     /\ fs[i].id # None => bound[i].id = fs[i].id
                     /\ fs[i].id = None => last < bound[i].id /\ bound[i].id \notin GivenIds(fs)
               /\ \A i, j \in DOMAIN fs :
                     i # j /\ fs[i].id = None /\ fs[j].id = None => bound[i].id # bound[j].id
<1> DEFINE n == Len(fs)
           bound == SetFieldIds(fs, last)
<1>1. n \in Nat /\ DOMAIN fs = 1..n /\ \A i \in 1..n : IsField(fs[i])
  BY SeqIs
<1>2. PICK h : /\ Highest(fs, last, h)
               /\ bound = [i \in DOMAIN fs |-> [fs[i] EXCEPT !.id = IdAfter(fs, i, h[i - 1])]]
  BY SetFieldIdsIs
<1> HIDE DEF bound
<1>3. ASSUME NEW i \in 1..n
      PROVE  /\ bound[i] = Identified(fs[i], IdAfter(fs, i, h[i - 1]))
             /\ bound[i].id = IdAfter(fs, i, h[i - 1])
  BY <1>1, <1>2 DEF IsField, Identified
<1>4. \A i \in 1..n : /\ i - 1 \in 0..n /\ h[i - 1] \in Nat /\ last <= h[i - 1]
                      /\ bound[i].id \in Nat /\ bound[i].id <= h[i]
  BY <1>1, <1>2, <1>3, HighestGrows
<1>5. ASSUME NEW i \in 1..n, fs[i].id = None
      PROVE  h[i - 1] < bound[i].id /\ bound[i].id \notin GivenIds(fs)
  BY <1>3, <1>4, <1>5, NextFreeIs DEF IdAfter
<1>6. ASSUME NEW i \in 1..n, NEW j \in 1..n, i < j, fs[j].id = None
      PROVE  bound[i].id < bound[j].id
  <2>1. h[i] <= h[j - 1] /\ h[i] \in Nat /\ h[j - 1] \in Nat
    <3>1. i \in 0..n /\ j - 1 \in 0..n /\ i <= j - 1
      BY <1>1, <1>6
    <3> QED
      BY <1>2, <3>1, HighestGrows
  <2>2. h[j - 1] < bound[j].id /\ bound[i].id <= h[i]
    BY <1>4, <1>5, <1>6
  <2> QED
    BY <1>4, <2>1, <2>2
<1>7. IsSeq(bound) /\ Len(bound) = n /\ DOMAIN bound = 1..n
  <2>1. DOMAIN bound = 1..n /\ bound = [i \in 1..n |-> bound[i]]
    BY <1>1, <1>2
  <2>2. bound \in [1..n -> Range(bound)]
    BY <2>1 DEF Range
  <2> QED
    BY <1>1, <2>2 DEF IsSeq
<1>8. \A i \in 1..n : fs[i].id # None => bound[i].id = fs[i].id
  BY <1>3 DEF IdAfter
<1>9. \A i \in 1..n : fs[i].id = None => last < bound[i].id
  BY <1>4, <1>5
<1>10. \A i, j \in 1..n :
          i # j /\ fs[i].id = None /\ fs[j].id = None => bound[i].id # bound[j].id
  <2> SUFFICES ASSUME NEW i \in 1..n, NEW j \in 1..n, i # j, fs[i].id = None, fs[j].id = None
               PROVE  bound[i].id # bound[j].id
    OBVIOUS
  <2>1. bound[i].id \in Nat /\ bound[j].id \in Nat
    BY <1>4
  <2>2. i < j \/ j < i
    BY <1>1
  <2>3. bound[i].id < bound[j].id \/ bound[j].id < bound[i].id
    BY <1>6, <2>2
  <2> QED
    BY <2>1, <2>3
<1> QED
  BY <1>1, <1>3, <1>4, <1>5, <1>7, <1>8, <1>9, <1>10 DEF bound

-----------------------------------------------------------------------------
(* Updates applied one after the other. *)

After(us, b, g) ==
    g = [i \in 0..Len(us) |-> IF i = 0 THEN b ELSE Then(g[i - 1], us[i])]

LEMMA AfterExists ==
    ASSUME NEW us, IsSeq(us), NEW b
    PROVE  \E g : After(us, b, g)
<1> DEFINE Is(g, k) == g = [i \in 0..k |-> IF i = 0 THEN b ELSE Then(g[i - 1], us[i])]
           T == {k \in 0..Len(us) : ~\E g : Is(g, k)}
<1>1. Len(us) \in Nat
  BY SeqIs
<1>2. T = {}
  <2> SUFFICES ASSUME T # {}
               PROVE  FALSE
    OBVIOUS
  <2>1. PICK k \in T : \A j \in T : k <= j
    <3>1. T \in SUBSET Nat
      BY <1>1
    <3> HIDE DEF T
    <3> QED
      BY <3>1, LeastOf
  <2>2. CASE k = 0
    <3> DEFINE g == [i \in 0..0 |-> b]
    <3>1. g = [i \in 0..0 |-> IF i = 0 THEN b ELSE Then(g[i - 1], us[i])]
      OBVIOUS
    <3> QED
      BY <2>2, <3>1
  <2>3. CASE k # 0
    <3>1. k - 1 \in 0..Len(us) /\ k \in Nat /\ ~(k <= k - 1)
      BY <1>1, <2>3
    <3>2. PICK g : Is(g, k - 1)
      BY <2>1, <3>1
    <3> DEFINE f == [i \in 0..k |-> IF i = 0 THEN b ELSE Then(g[i - 1], us[i])]
    <3>3. \A i \in 0..(k - 1) : f[i] = g[i]
      BY <3>1, <3>2
    <3>4. f = [i \in 0..k |-> IF i = 0 THEN b ELSE Then(f[i - 1], us[i])]
      <4>1. \A i \in 0..k : i # 0 => i - 1 \in 0..(k - 1)
        BY <3>1
      <4> HIDE DEF f
      <4>2. \A i \in 0..k : i # 0 => Then(f[i - 1], us[i]) = Then(g[i - 1], us[i])
        BY <3>3, <4>1
      <4> QED
        BY <4>2 DEF f
    <3>5. Is(f, k)
      BY <3>4
    <3> QED
      BY <3>5
  <2> QED
    BY <2>2, <2>3
<1>3. \E g : Is(g, Len(us))
  <2>1. Len(us) \in 0..Len(us)
    BY <1>1
  <2> HIDE DEF Is
  <2> QED
    BY <1>2, <2>1
<1> QED
  BY <1>3 DEF After

LEMMA ApplyAllIs ==
    ASSUME NEW us, IsSeq(us), NEW b
    PROVE  \E g : After(us, b, g) /\ ApplyAll(us, b) = g[Len(us)]
<1> DEFINE g == CHOOSE g : After(us, b, g)
<1>1. After(us, b, g)
  BY AfterExists
<1>2. g = CHOOSE f : f = [i \in 0..Len(us) |-> IF i = 0 THEN b ELSE Then(f[i - 1], us[i])]
  BY DEF After
<1>3. ApplyAll(us, b) = g[Len(us)]
  <2> HIDE DEF g
  <2> QED
    BY <1>2 DEF ApplyAll
<1> QED
  BY <1>1, <1>3

LEMMA AppendIs ==
    ASSUME NEW s, IsSeq(s), NEW e
    PROVE  /\ IsSeq(Append(s, e)) /\ Len(Append(s, e)) = Len(s) + 1
           /\ \A i \in 1..Len(s) : Append(s, e)[i] = s[i]
           /\ Append(s, e)[Len(s) + 1] = e
           /\ Range(Append(s, e)) = Range(s) \cup {e}
<1> DEFINE S == Range(s) \cup {e}
           t == Append(s, e)
<1>1. s \in Seq(S) /\ e \in S /\ Len(s) \in Nat /\ DOMAIN s = 1..Len(s)
  BY SeqIs DEF IsSeq
<1>2. /\ t \in Seq(S) /\ Len(t) = Len(s) + 1 /\ DOMAIN t = 1..(Len(s) + 1)
      /\ (\A i \in 1..Len(s) : t[i] = s[i]) /\ t[Len(s) + 1] = e
  BY <1>1
<1> HIDE DEF t
<1>3. Range(t) = S
  <2>1. \A i \in 1..Len(s) : i \in 1..(Len(s) + 1)
    BY <1>1
  <2>2. Len(s) + 1 \in 1..(Len(s) + 1)
    BY <1>1
  <2>3. \A i \in 1..(Len(s) + 1) : i \in 1..Len(s) \/ i = Len(s) + 1
    BY <1>1
  <2> QED
    BY <1>1, <1>2, <2>1, <2>2, <2>3 DEF Range
<1> QED
  BY <1>2, <1>3 DEF IsSeq, t

LEMMA ApplyAllOfNone ==
    ASSUME NEW b
    PROVE  ApplyAll(<< >>, b) = b
<1>1. IsSeq(<< >>) /\ Len(<< >>) = 0
  BY DEF IsSeq
<1>2. PICK g : After(<< >>, b, g) /\ ApplyAll(<< >>, b) = g[0]
  BY <1>1, ApplyAllIs
<1> QED
  BY <1>1, <1>2 DEF After

LEMMA ApplyAllOfMore ==
    ASSUME NEW us, IsSeq(us), NEW u, NEW b
    PROVE  ApplyAll(Append(us, u), b) = Then(ApplyAll(us, b), u)
<1> DEFINE n == Len(us)
           vs == Append(us, u)
<1>1. /\ IsSeq(vs) /\ Len(vs) = n + 1 /\ n \in Nat
      /\ (\A i \in 1..n : vs[i] = us[i]) /\ vs[n + 1] = u
  BY AppendIs, SeqIs
<1> HIDE DEF vs
<1>2. PICK g : After(us, b, g) /\ ApplyAll(us, b) = g[n]
  BY ApplyAllIs
<1>3. PICK h : After(vs, b, h) /\ ApplyAll(vs, b) = h[n + 1]
  BY <1>1, ApplyAllIs
<1> DEFINE T == {i \in 0..n : h[i] # g[i]}
<1>4. \A i \in 0..n : g[i] = IF i = 0 THEN b ELSE Then(g[i - 1], us[i])
  BY <1>2 DEF After
<1>5. \A i \in 0..(n + 1) : h[i] = IF i = 0 THEN b ELSE Then(h[i - 1], vs[i])
  BY <1>1, <1>3 DEF After
<1>6. T = {}
  <2> SUFFICES ASSUME T # {}
               PROVE  FALSE
    OBVIOUS
  <2>1. PICK k \in T : \A j \in T : k <= j
    <3>1. T \in SUBSET Nat
      BY <1>1
    <3> HIDE DEF T
    <3> QED
      BY <3>1, LeastOf
  <2>2. k \in 0..n /\ k \in 0..(n + 1) /\ k # 0
    BY <1>1, <1>4, <1>5
  <2>3. k \in 1..n /\ k - 1 \in 0..n /\ k - 1 \notin T
    BY <1>1, <2>1, <2>2
  <2>4. h[k - 1] = g[k - 1] /\ vs[k] = us[k]
    BY <1>1, <2>3
  <2> QED
    BY <1>4, <1>5, <2>1, <2>2, <2>4
<1>7. h[n] = g[n] /\ n + 1 \in 0..(n + 1) /\ n + 1 # 0 /\ (n + 1) - 1 = n
  BY <1>1, <1>6
<1>8. h[n + 1] = Then(h[n], vs[n + 1])
  BY <1>5, <1>7
<1> QED
  BY <1>1, <1>2, <1>3, <1>7, <1>8 DEF vs

-----------------------------------------------------------------------------
(* The snapshot log. *)

(* Of the first i entries of a log, j is the last one up to the time v. *)
LastUpTo(log, i, j, v) ==
    /\ j \in 1..i /\ log[j].at <= v
    /\ \A k \in 1..i : j < k => ~(log[k].at <= v)

(* The removals of a builder are the reason for what its log names in vain;  *)
(* what it added and replaced itself has entries later than n.               *)
LogFitsBuilder(b, n) ==
    LET log == b.meta.log
    IN  \A i \in 1..Len(log) :
          /\ log[i].id \notin DOMAIN b.meta.snapshots => "RemoveSnapshots" \in Types(b)
          /\ log[i].id \in Intermediate(b) => ~(log[i].at <= n)
          /\ log[i].at \in Nat

(* What is kept of the first i entries: known snapshots, and up to a time    *)
(* before this version nothing, or the one that was current.                 *)
Remembers(b, n, i, kept) ==
    LET log == b.meta.log
    IN  /\ IsSeq(kept)
        /\ \A e \in Range(kept) : e \in Range(log) /\ e.id \in DOMAIN b.meta.snapshots
        /\ \A v \in 1..n, k \in 1..Len(kept), j \in 1..Len(log) :
              LastUpTo(kept, Len(kept), k, v) /\ LastUpTo(log, i, j, v)
                  => kept[k].id = log[j].id

LEMMA NothingRemembered ==
    ASSUME NEW b, NEW n, NEW i
    PROVE  Remembers(b, n, i, << >>)
BY DEF Remembers, IsSeq, Range

LEMMA KeepsRemembering ==
    ASSUME NEW b, NEW n \in Nat, IsSeq(b.meta.log), LogFitsBuilder(b, n),
           NEW i \in 1..Len(b.meta.log), NEW kept, Remembers(b, n, i - 1, kept)
    PROVE  Remembers(b, n, i, KeepEntry(b, kept, b.meta.log[i]))
<1> DEFINE log == b.meta.log
           e == log[i]
           next == KeepEntry(b, kept, e)
<1>1. /\ Len(log) \in Nat /\ DOMAIN log = 1..Len(log) /\ e \in Range(log)
      /\ e.at \in Nat /\ Len(kept) \in Nat /\ DOMAIN kept = 1..Len(kept)
  BY SeqIs DEF LogFitsBuilder, Remembers
<1>2. CASE e.id \in DOMAIN b.meta.snapshots /\ e.id \notin Intermediate(b)
  <2>1. next = Append(kept, e)
    BY <1>2 DEF KeepEntry
  <2>2. /\ IsSeq(next) /\ Len(next) = Len(kept) + 1 /\ next[Len(kept) + 1] = e
        /\ (\A k \in 1..Len(kept) : next[k] = kept[k])
        /\ Range(next) = Range(kept) \cup {e}
    BY <2>1, AppendIs DEF Remembers
  <2> HIDE DEF next, e
  <2>3. ASSUME NEW v \in 1..n, NEW k \in 1..Len(next), NEW j \in 1..Len(log),
               LastUpTo(next, Len(next), k, v), LastUpTo(log, i, j, v)
        PROVE  next[k].id = log[j].id
    <3>1. CASE e.at <= v
      <4>1. j = i
        BY <1>1, <2>3, <3>1 DEF LastUpTo, e
      <4>2. k = Len(kept) + 1
        BY <1>1, <2>2, <2>3, <3>1 DEF LastUpTo
      <4> QED
        BY <2>2, <4>1, <4>2 DEF e
    <3>2. CASE ~(e.at <= v)
      <4>1. LastUpTo(log, i - 1, j, v)
        BY <1>1, <2>3, <3>2 DEF LastUpTo, e
      <4>2. k \in 1..Len(kept) /\ LastUpTo(kept, Len(kept), k, v)
        BY <1>1, <2>2, <2>3, <3>2 DEF LastUpTo
      <4>3. kept[k].id = log[j].id
        BY <4>1, <4>2 DEF Remembers
      <4> QED
        BY <2>2, <4>2, <4>3
    <3> QED
      BY <3>1, <3>2
  <2>4. \A x \in Range(next) : x \in Range(log) /\ x.id \in DOMAIN b.meta.snapshots
    BY <1>1, <1>2, <2>2 DEF Remembers, e
  <2> QED
    BY <2>2, <2>3, <2>4 DEF Remembers, next, e
<1>3. CASE e.id \in DOMAIN b.meta.snapshots /\ e.id \in Intermediate(b)
  <2>1. next = kept
    BY <1>3 DEF KeepEntry
  <2>2. ~(e.at <= n)
    BY <1>3 DEF LogFitsBuilder
  <2>3. ASSUME NEW v \in 1..n, NEW j \in 1..Len(log), LastUpTo(log, i, j, v)
        PROVE  LastUpTo(log, i - 1, j, v)
    <3>1. ~(e.at <= v)
      BY <1>1, <2>2
    <3> QED
      BY <1>1, <2>3, <3>1 DEF LastUpTo
  <2> HIDE DEF next, e
  <2> QED
    BY <2>1, <2>3 DEF Remembers, next, e
<1>4. CASE e.id \notin DOMAIN b.meta.snapshots
  <2>1. next = << >>
    BY <1>4 DEF KeepEntry, LogFitsBuilder
  <2> QED
    BY <2>1, NothingRemembered
<1> QED
  BY <1>2, <1>3, <1>4

KeptUpTo(b, g) ==
    g = [i \in 0..Len(b.meta.log) |->
            IF i = 0 THEN << >> ELSE KeepEntry(b, g[i - 1], b.meta.log[i])]

LEMMA KeptExists ==
    ASSUME NEW b, IsSeq(b.meta.log)
    PROVE  \E g : KeptUpTo(b, g)
<1> DEFINE log == b.meta.log
           Is(g, k) == g = [i \in 0..k |-> IF i = 0 THEN << >> ELSE KeepEntry(b, g[i - 1], log[i])]
           T == {k \in 0..Len(log) : ~\E g : Is(g, k)}
<1>1. Len(log) \in Nat
  BY SeqIs
<1>2. T = {}
  <2> SUFFICES ASSUME T # {}
               PROVE  FALSE
    OBVIOUS
  <2>1. PICK k \in T : \A j \in T : k <= j
    <3>1. T \in SUBSET Nat
      BY <1>1
    <3> HIDE DEF T
    <3> QED
      BY <3>1, LeastOf
  <2>2. CASE k = 0
    <3> DEFINE g == [i \in 0..0 |-> << >>]
    <3>1. g = [i \in 0..0 |-> IF i = 0 THEN << >> ELSE KeepEntry(b, g[i - 1], log[i])]
      OBVIOUS
    <3> QED
      BY <2>2, <3>1
  <2>3. CASE k # 0
    <3>1. k - 1 \in 0..Len(log) /\ k \in Nat /\ ~(k <= k - 1)
      BY <1>1, <2>3
    <3>2. PICK g : Is(g, k - 1)
      BY <2>1, <3>1
    <3> DEFINE f == [i \in 0..k |-> IF i = 0 THEN << >> ELSE KeepEntry(b, g[i - 1], log[i])]
    <3>3. \A i \in 0..(k - 1) : f[i] = g[i]
      BY <3>1, <3>2
    <3>4. f = [i \in 0..k |-> IF i = 0 THEN << >> ELSE KeepEntry(b, f[i - 1], log[i])]
      <4>1. \A i \in 0..k : i # 0 => i - 1 \in 0..(k - 1)
        BY <3>1
      <4> HIDE DEF f
      <4>2. \A i \in 0..k : i # 0 => KeepEntry(b, f[i - 1], log[i]) = KeepEntry(b, g[i - 1], log[i])
        BY <3>3, <4>1
      <4> QED
        BY <4>2 DEF f
    <3>5. Is(f, k)
      BY <3>4
    <3> QED
      BY <3>5
  <2> QED
    BY <2>2, <2>3
<1>3. \E g : Is(g, Len(log))
  <2>1. Len(log) \in 0..Len(log)
    BY <1>1
  <2> HIDE DEF Is
  <2> QED
    BY <1>2, <2>1
<1> QED
  BY <1>3 DEF KeptUpTo

(* The log of the next version, whether it was rewritten or not. *)
LEMMA LogRemembers ==
    ASSUME NEW b, NEW n \in Nat, IsSeq(b.meta.log), LogFitsBuilder(b, n)
    PROVE  Remembers(b, n, Len(b.meta.log), SnapshotLog(b))
<1> DEFINE log == b.meta.log
<1>1. Len(log) \in Nat /\ DOMAIN log = 1..Len(log)
  BY SeqIs
<1>2. CASE ~RewritesLog(b)
  <2>1. SnapshotLog(b) = log
    BY <1>2 DEF SnapshotLog
  <2>2. \A i \in 1..Len(log) : log[i].id \in DOMAIN b.meta.snapshots
    BY <1>2 DEF RewritesLog, LogFitsBuilder
  <2>3. ASSUME NEW v \in 1..n, NEW k \in 1..Len(log), NEW j \in 1..Len(log),
               LastUpTo(log, Len(log), k, v), LastUpTo(log, Len(log), j, v)
        PROVE  k = j
    BY <1>1, <2>3 DEF LastUpTo
  <2> QED
    BY <1>1, <2>1, <2>2, <2>3 DEF Remembers, Range
<1>3. CASE RewritesLog(b)
  <2> DEFINE g == CHOOSE g : KeptUpTo(b, g)
             T == {i \in 0..Len(log) : ~Remembers(b, n, i, g[i])}
  <2>1. KeptUpTo(b, g)
    BY KeptExists
  <2>2. SnapshotLog(b) = g[Len(log)]
    <3>1. g = CHOOSE f : f = [i \in 0..Len(log) |->
                    IF i = 0 THEN << >> ELSE KeepEntry(b, f[i - 1], log[i])]
      BY DEF KeptUpTo
    <3> HIDE DEF g
    <3> QED
      BY <1>3, <3>1 DEF SnapshotLog
  <2> HIDE DEF g
  <2>3. \A i \in 0..Len(log) : g[i] = IF i = 0 THEN << >> ELSE KeepEntry(b, g[i - 1], log[i])
    BY <2>1 DEF KeptUpTo
  <2>4. T = {}
    <3> SUFFICES ASSUME T # {}
                 PROVE  FALSE
      OBVIOUS
    <3>1. PICK k \in T : \A j \in T : k <= j
      <4>1. T \in SUBSET Nat
        BY <1>1
      <4> HIDE DEF T
      <4> QED
        BY <4>1, LeastOf
    <3>2. k # 0
      BY <2>3, <3>1, NothingRemembered
    <3>3. k \in 1..Len(log) /\ k - 1 \in 0..Len(log) /\ k - 1 \notin T
      BY <1>1, <3>1, <3>2
    <3>4. Remembers(b, n, k - 1, g[k - 1]) /\ g[k] = KeepEntry(b, g[k - 1], log[k])
      BY <2>3, <3>2, <3>3
    <3>5. Remembers(b, n, k, g[k])
      BY <3>3, <3>4, KeepsRemembering
    <3> QED
      BY <3>1, <3>5
  <2>5. Len(log) \in 0..Len(log)
    BY <1>1
  <2>6. Remembers(b, n, Len(log), g[Len(log)])
    BY <2>4, <2>5
  <2> QED
    BY <2>2, <2>6
<1> QED
  BY <1>2, <1>3

-----------------------------------------------------------------------------
(* The calls.  A call that changes something records one update, and that    *)
(* update has the same effect on the same builder.                           *)

IsMeta(m) ==
    m = [format |-> m.format, lastColumn |-> m.lastColumn, schemas |-> m.schemas,
         schema |-> m.schema, specs |-> m.specs, spec |-> m.spec,
         lastPartition |-> m.lastPartition, orders |-> m.orders, order |-> m.order,
         snapshots |-> m.snapshots, lastSeq |-> m.lastSeq, current |-> m.current,
         refs |-> m.refs, log |-> m.log]

IsBuilder(b) ==
    /\ b = [meta |-> b.meta, at |-> b.at, changes |-> b.changes, lastSchema |-> b.lastSchema,
            lastSpec |-> b.lastSpec, lastOrder |-> b.lastOrder]
    /\ IsMeta(b.meta) /\ IsSeq(b.changes)

Records(b, c, u) ==
    /\ IsBuilder(c) /\ c.at = b.at
    /\ c.changes = Append(b.changes, u) /\ Apply(u, b) = c

SameFields(m, k) ==
    /\ k.specs = m.specs /\ k.spec = m.spec /\ k.lastPartition = m.lastPartition
    /\ k.schemas = m.schemas /\ k.lastColumn = m.lastColumn

SameLog(m, k) == k.log = m.log /\ k.current = m.current /\ k.snapshots = m.snapshots

LEMMA RecordedIs ==
    ASSUME NEW b, IsBuilder(b), NEW m, IsMeta(m), NEW u, NEW c, c = Recorded(b, m, u)
    PROVE  /\ IsBuilder(c) /\ c.at = b.at /\ c.meta = m /\ c.changes = Append(b.changes, u)
           /\ c.lastSchema = b.lastSchema /\ c.lastSpec = b.lastSpec /\ c.lastOrder = b.lastOrder
<1>1. IsSeq(Append(b.changes, u))
  BY AppendIs DEF IsBuilder
<1> DEFINE d == [b EXCEPT !.meta = m]
<1>2. c = [meta |-> m, at |-> b.at, changes |-> Append(b.changes, u),
           lastSchema |-> b.lastSchema, lastSpec |-> b.lastSpec, lastOrder |-> b.lastOrder]
  <2>1. d = [meta |-> m, at |-> b.at, changes |-> b.changes, lastSchema |-> b.lastSchema,
             lastSpec |-> b.lastSpec, lastOrder |-> b.lastOrder]
    BY DEF IsBuilder
  <2>2. [d EXCEPT !.changes = Append(b.changes, u)] =
            [meta |-> m, at |-> b.at, changes |-> Append(b.changes, u),
             lastSchema |-> b.lastSchema, lastSpec |-> b.lastSpec, lastOrder |-> b.lastOrder]
    <3> HIDE DEF d
    <3> QED
      BY <2>1
  <2> QED
    BY <2>2 DEF Recorded
<1>3. /\ c.at = b.at /\ c.meta = m /\ c.changes = Append(b.changes, u)
      /\ c.lastSchema = b.lastSchema /\ c.lastSpec = b.lastSpec /\ c.lastOrder = b.lastOrder
  BY <1>2
<1> QED
  BY <1>1, <1>2, <1>3 DEF IsBuilder

LEMMA Recording ==
    ASSUME NEW b, IsBuilder(b), NEW m, IsMeta(m), NEW u, NEW c, c = Recorded(b, m, u),
           Apply(u, b) = c
    PROVE  Records(b, c, u) /\ c.meta = m
BY RecordedIs DEF Records

TopColumn(m, s) == Max({m.lastColumn} \cup DOMAIN s)

LEMMA NewSchemaIs ==
    ASSUME NEW m, IsMeta(m), NEW id, NEW s, NEW k, k = AddNewSchema(m, id, s)
    PROVE  /\ IsMeta(k) /\ k.schemas = With(m.schemas, id, s)
           /\ k.lastColumn = TopColumn(m, s)
           /\ k.schema = m.schema /\ SameLog(m, k)
           /\ k.specs = m.specs /\ k.spec = m.spec /\ k.lastPartition = m.lastPartition
<1> DEFINE d == [m EXCEPT !.schemas = With(@, id, s)]
           top == TopColumn(m, s)
<1>1. /\ IsMeta(d) /\ d.schemas = With(m.schemas, id, s)
      /\ d.schema = m.schema /\ SameLog(m, d)
      /\ d.specs = m.specs /\ d.spec = m.spec /\ d.lastPartition = m.lastPartition
  BY DEF IsMeta, SameLog
<1>2. k = [d EXCEPT !.lastColumn = top]
  BY DEF AddNewSchema, TopColumn
<1>3. /\ IsMeta(k) /\ k.schemas = d.schemas /\ k.lastColumn = top
      /\ k.schema = d.schema /\ SameLog(d, k)
      /\ k.specs = d.specs /\ k.spec = d.spec /\ k.lastPartition = d.lastPartition
  <2> HIDE DEF d, top
  <2> QED
    BY <1>1, <1>2 DEF IsMeta, SameLog
<1> QED
  BY <1>1, <1>3 DEF SameLog

LEMMA AddSchemaIs ==
    ASSUME NEW b, IsBuilder(b), NEW s, NEW c, c # None,
           c = Apply([type |-> "AddSchema", schema |-> s], b), c # b
    PROVE  /\ Records(b, c, [type |-> "AddSchema", schema |-> s])
           /\ SameLog(b.meta, c.meta)
           /\ c.meta.schema = b.meta.schema
           /\ c.lastSchema \in DOMAIN c.meta.schemas
           /\ \/ c.meta = b.meta
              \/ \E id : c.meta = AddNewSchema(b.meta, id, s)
<1> DEFINE u == [type |-> "AddSchema", schema |-> s]
           m == b.meta
<1>1. Apply(u, b) = AddSchema(b, u) /\ u.schema = s
  BY DEF Apply
<1> HIDE DEF u
<1>2. PICK id, k : /\ c = [Recorded(b, k, u) EXCEPT !.lastSchema = id]
                   /\ k = IF id \in DOMAIN m.schemas THEN m ELSE AddNewSchema(m, id, s)
  BY <1>1 DEF AddSchema, u
<1>3. IsMeta(k) /\ SameLog(m, k) /\ k.schema = m.schema /\ id \in DOMAIN k.schemas
  <2>1. IsMeta(m)
    BY DEF IsBuilder
  <2>2. CASE id \in DOMAIN m.schemas
    BY <1>2, <2>1, <2>2 DEF SameLog
  <2>3. CASE id \notin DOMAIN m.schemas
    <3>1. k = AddNewSchema(m, id, s)
      BY <1>2, <2>3
    <3>2. IsMeta(k) /\ SameLog(m, k) /\ k.schema = m.schema /\ k.schemas = With(m.schemas, id, s)
      BY <2>1, <3>1, NewSchemaIs
    <3>3. DOMAIN k.schemas = DOMAIN m.schemas \cup {id}
      BY <3>2 DEF With
    <3> QED
      BY <3>2, <3>3
  <2> QED
    BY <2>2, <2>3
<1> DEFINE r == Recorded(b, k, u)
<1>4. /\ IsBuilder(c) /\ c.at = b.at /\ c.meta = k /\ c.changes = Append(b.changes, u)
      /\ c.lastSchema = id
  <2>1. IsBuilder(r) /\ r.at = b.at /\ r.meta = k /\ r.changes = Append(b.changes, u)
    BY <1>3, RecordedIs
  <2>2. c = [r EXCEPT !.lastSchema = id]
    BY <1>2
  <2> HIDE DEF r
  <2> QED
    BY <2>1, <2>2 DEF IsBuilder
<1> QED
  BY <1>2, <1>3, <1>4 DEF Records, u

(* -1 means what was added last, so recording it for what was added last    *)
(* sets the same again.                                                      *)
LEMMA ProxyResolves ==
    ASSUME NEW id, NEW last, NEW i, id = Resolved(i, last)
    PROVE  Resolved(Proxied(id, last), last) = id
BY DEF Resolved, Proxied

LEMMA NotedId ==
    ASSUME NEW t, NEW i, NEW j
    PROVE  Note([type |-> t, id |-> i], "id", j) = [type |-> t, id |-> j]
BY DEF Note

LEMMA NotedIds ==
    ASSUME NEW t, NEW i, NEW j
    PROVE  Note([type |-> t, ids |-> i], "ids", j) = [type |-> t, ids |-> j]
BY DEF Note

LEMMA SetCurrentSchemaIs ==
    ASSUME NEW b, IsBuilder(b), NEW i, NEW c, c # None,
           c = Apply([type |-> "SetCurrentSchema", id |-> i], b), c # b
    PROVE  /\ \E j : Records(b, c, [type |-> "SetCurrentSchema", id |-> j])
           /\ SameLog(b.meta, c.meta) /\ SameFields(b.meta, c.meta)
           /\ c.meta.schema \in DOMAIN b.meta.schemas
           /\ i = LastAdded => c.meta.schema = b.lastSchema
<1> DEFINE t == "SetCurrentSchema"
           m == b.meta
           id == Resolved(i, b.lastSchema)
           j == Proxied(id, b.lastSchema)
           k == [m EXCEPT !.schema = id]
<1>1. \A v : Apply([type |-> t, id |-> v], b) = SetCurrentSchema(b, [type |-> t, id |-> v])
  BY DEF Apply
<1>2. Resolved(j, b.lastSchema) = id
  BY ProxyResolves
<1>3. \A v : Resolved(v, b.lastSchema) = id =>
          SetCurrentSchema(b, [type |-> t, id |-> v]) =
              IF id = m.schema THEN b
              ELSE IF id \notin DOMAIN m.schemas THEN None
              ELSE Recorded(b, k, [type |-> t, id |-> j])
  BY NotedId DEF SetCurrentSchema
<1> HIDE DEF j, id
<1>4. /\ id \in DOMAIN m.schemas /\ c = Recorded(b, k, [type |-> t, id |-> j])
      /\ Apply([type |-> t, id |-> j], b) = c
  BY <1>1, <1>2, <1>3 DEF id
<1>5. IsMeta(k) /\ SameLog(m, k) /\ SameFields(m, k) /\ k.schema = id
  <2>1. IsMeta(m)
    BY DEF IsBuilder
  <2> HIDE DEF m
  <2> QED
    BY <2>1 DEF IsMeta, SameLog, SameFields
<1> HIDE DEF k
<1>6. Records(b, c, [type |-> t, id |-> j]) /\ c.meta = k
  BY <1>4, <1>5, Recording
<1> QED
  BY <1>4, <1>5, <1>6 DEF id, Resolved

(* The schema that was added last is there, and can be made the current one. *)
LEMMA LastSchemaIsThere ==
    ASSUME NEW b, IsBuilder(b), NEW s, NEW c, c # None,
           c = Apply([type |-> "AddSchema", schema |-> s], b)
    PROVE  IsBuilder(c) /\ c.lastSchema \in DOMAIN c.meta.schemas
<1>1. CASE c # b
  BY <1>1, AddSchemaIs DEF Records
<1>2. CASE c = b
  <2> DEFINE u == [type |-> "AddSchema", schema |-> s]
  <2>1. c = AddSchema(b, u)
    BY DEF Apply
  <2> HIDE DEF u
  <2>2. CASE b.lastSchema \in DOMAIN b.meta.schemas
    BY <1>2, <2>2
  <2>3. CASE b.lastSchema \notin DOMAIN b.meta.schemas
    <3>1. PICK id, k : /\ c = [Recorded(b, k, u) EXCEPT !.lastSchema = id]
                       /\ k = IF id \in DOMAIN b.meta.schemas THEN b.meta
                              ELSE AddNewSchema(b.meta, id, u.schema)
      BY <1>2, <2>1, <2>3 DEF AddSchema
    <3>2. IsMeta(k) /\ id \in DOMAIN k.schemas
      <4>1. IsMeta(b.meta)
        BY DEF IsBuilder
      <4>2. CASE id \in DOMAIN b.meta.schemas
        BY <3>1, <4>1, <4>2
      <4>3. CASE id \notin DOMAIN b.meta.schemas
        <5>1. IsMeta(k) /\ k.schemas = With(b.meta.schemas, id, u.schema)
          BY <3>1, <4>1, <4>3, NewSchemaIs
        <5> QED
          BY <5>1 DEF With
      <4> QED
        BY <4>2, <4>3
    <3> DEFINE r == Recorded(b, k, u)
    <3>3. IsBuilder(r) /\ r.meta = k
      BY <3>2, RecordedIs
    <3>4. c = [r EXCEPT !.lastSchema = id]
      BY <3>1
    <3> HIDE DEF r
    <3>5. c.lastSchema = id /\ c.meta = k
      BY <3>3, <3>4 DEF IsBuilder
    <3> QED
      BY <1>2, <3>2, <3>5
  <2> QED
    BY <2>2, <2>3
<1> QED
  BY <1>1, <1>2

LEMMA LastSchemaBecomesCurrent ==
    ASSUME NEW b, IsBuilder(b), b.lastSchema \in DOMAIN b.meta.schemas, NEW c, c # None,
           c = Apply([type |-> "SetCurrentSchema", id |-> LastAdded], b)
    PROVE  IsBuilder(c) /\ c.meta.schema \in DOMAIN c.meta.schemas
<1>1. CASE c # b
  <2>1. PICK j : Records(b, c, [type |-> "SetCurrentSchema", id |-> j])
    BY <1>1, SetCurrentSchemaIs
  <2>2. SameFields(b.meta, c.meta) /\ c.meta.schema \in DOMAIN b.meta.schemas
    BY <1>1, SetCurrentSchemaIs
  <2> QED
    BY <2>1, <2>2 DEF Records, SameFields
<1>2. CASE c = b
  <2> DEFINE u == [type |-> "SetCurrentSchema", id |-> LastAdded]
  <2>1. c = SetCurrentSchema(b, u) /\ Resolved(u.id, b.lastSchema) = b.lastSchema
    BY DEF Apply, Resolved
  <2> HIDE DEF u
  <2>2. CASE b.lastSchema # b.meta.schema
    <3> DEFINE k == [b.meta EXCEPT !.schema = b.lastSchema]
               v == Note(u, "id", Proxied(b.lastSchema, b.lastSchema))
    <3>1. c = Recorded(b, k, v)
      BY <2>1, <2>2 DEF SetCurrentSchema
    <3>2. IsMeta(k) /\ k.schema = b.lastSchema
      <4>1. IsMeta(b.meta)
        BY DEF IsBuilder
      <4> QED
        BY <4>1 DEF IsMeta
    <3> HIDE DEF k, v
    <3>3. c.meta = k
      BY <3>1, <3>2, RecordedIs
    <3> QED
      BY <1>2, <2>2, <3>2, <3>3
  <2> QED
    BY <1>2, <2>2
<1> QED
  BY <1>1, <1>2

(* A call that only marks what it added last. *)
LEMMA RecordingSpec ==
    ASSUME NEW b, IsBuilder(b), NEW m, IsMeta(m), NEW u, NEW id, NEW c,
           c = [Recorded(b, m, u) EXCEPT !.lastSpec = id], Apply(u, b) = c
    PROVE  Records(b, c, u) /\ c.meta = m
<1> DEFINE r == Recorded(b, m, u)
<1>1. IsBuilder(r) /\ r.at = b.at /\ r.meta = m /\ r.changes = Append(b.changes, u)
  BY RecordedIs
<1>2. c = [r EXCEPT !.lastSpec = id]
  OBVIOUS
<1> HIDE DEF r
<1>3. IsBuilder(c) /\ c.at = r.at /\ c.meta = r.meta /\ c.changes = r.changes
  BY <1>1, <1>2 DEF IsBuilder
<1> QED
  BY <1>1, <1>3 DEF Records

LEMMA RecordingOrder ==
    ASSUME NEW b, IsBuilder(b), NEW m, IsMeta(m), NEW u, NEW id, NEW c,
           c = [Recorded(b, m, u) EXCEPT !.lastOrder = id], Apply(u, b) = c
    PROVE  Records(b, c, u) /\ c.meta = m
<1> DEFINE r == Recorded(b, m, u)
<1>1. IsBuilder(r) /\ r.at = b.at /\ r.meta = m /\ r.changes = Append(b.changes, u)
  BY RecordedIs
<1>2. c = [r EXCEPT !.lastOrder = id]
  OBVIOUS
<1> HIDE DEF r
<1>3. IsBuilder(c) /\ c.at = r.at /\ c.meta = r.meta /\ c.changes = r.changes
  BY <1>1, <1>2 DEF IsBuilder
<1> QED
  BY <1>1, <1>3 DEF Records

LEMMA RemoveSchemasIs ==
    ASSUME NEW b, IsBuilder(b), NEW ids \in SUBSET DOMAIN b.meta.schemas, NEW c, c # None,
           c = Apply([type |-> "RemoveSchemas", ids |-> ids], b), c # b
    PROVE  /\ Records(b, c, [type |-> "RemoveSchemas", ids |-> ids])
           /\ SameLog(b.meta, c.meta)
           /\ c.meta.schema = b.meta.schema /\ b.meta.schema \notin ids
           /\ c.meta.schemas = Restrict(b.meta.schemas, DOMAIN b.meta.schemas \ ids)
           /\ c.meta.specs = b.meta.specs /\ c.meta.spec = b.meta.spec
           /\ c.meta.lastPartition = b.meta.lastPartition
           /\ c.meta.lastColumn = b.meta.lastColumn
<1> DEFINE u == [type |-> "RemoveSchemas", ids |-> ids]
           m == b.meta
           k == [m EXCEPT !.schemas = Restrict(@, DOMAIN @ \ ids)]
<1>1. Apply(u, b) = RemoveSchemas(b, u) /\ u.ids = ids /\ ids \cap DOMAIN m.schemas = ids
  BY DEF Apply
<1>2. Note(u, "ids", ids) = u
  BY NotedIds
<1> HIDE DEF u
<1>3. c = Recorded(b, k, u) /\ Apply(u, b) = c /\ m.schema \notin ids
  BY <1>1, <1>2 DEF RemoveSchemas, u
<1>4. /\ IsMeta(k) /\ SameLog(m, k) /\ k.schema = m.schema
      /\ k.schemas = Restrict(m.schemas, DOMAIN m.schemas \ ids)
      /\ k.specs = m.specs /\ k.spec = m.spec /\ k.lastPartition = m.lastPartition
      /\ k.lastColumn = m.lastColumn
  <2>1. IsMeta(m)
    BY DEF IsBuilder
  <2> HIDE DEF m
  <2> QED
    BY <2>1 DEF IsMeta, SameLog
<1> HIDE DEF k
<1>5. Records(b, c, u) /\ c.meta = k
  BY <1>3, <1>4, Recording
<1> QED
  BY <1>3, <1>4, <1>5 DEF u

(* Sort orders and the format have nothing to do with fields or the log.    *)
LEMMA AddSortOrderIs ==
    ASSUME NEW b, IsBuilder(b), NEW order, NEW c, c # None,
           c = Apply([type |-> "AddSortOrder", order |-> order], b), c # b
    PROVE  /\ Records(b, c, [type |-> "AddSortOrder", order |-> order])
           /\ SameLog(b.meta, c.meta) /\ SameFields(b.meta, c.meta)
           /\ c.meta.schema = b.meta.schema
<1> DEFINE u == [type |-> "AddSortOrder", order |-> order]
           m == b.meta
           With2(id) == [m EXCEPT !.orders = With(@, id, order)]
<1>1. Apply(u, b) = AddSortOrder(b, u) /\ u.order = order
  BY DEF Apply
<1> HIDE DEF u
<1>2. PICK id, k : /\ c = [Recorded(b, k, u) EXCEPT !.lastOrder = id]
                   /\ k = m \/ k = With2(id)
  BY <1>1 DEF AddSortOrder, u
<1>3. IsMeta(k) /\ SameLog(m, k) /\ SameFields(m, k) /\ k.schema = m.schema
  <2>1. IsMeta(m)
    BY DEF IsBuilder
  <2> HIDE DEF m
  <2> QED
    BY <1>2, <2>1 DEF IsMeta, SameLog, SameFields
<1>4. Apply(u, b) = c
  BY DEF u
<1>5. Records(b, c, u) /\ c.meta = k
  BY <1>2, <1>3, <1>4, RecordingOrder
<1> QED
  BY <1>3, <1>5 DEF u

LEMMA SetDefaultSortOrderIs ==
    ASSUME NEW b, IsBuilder(b), NEW i, NEW c, c # None,
           c = Apply([type |-> "SetDefaultSortOrder", id |-> i], b), c # b
    PROVE  /\ \E j : Records(b, c, [type |-> "SetDefaultSortOrder", id |-> j])
           /\ SameLog(b.meta, c.meta) /\ SameFields(b.meta, c.meta)
           /\ c.meta.schema = b.meta.schema
<1> DEFINE t == "SetDefaultSortOrder"
           m == b.meta
           id == Resolved(i, b.lastOrder)
           j == Proxied(id, b.lastOrder)
           k == [m EXCEPT !.order = id]
<1>1. \A v : Apply([type |-> t, id |-> v], b) = SetDefaultSortOrder(b, [type |-> t, id |-> v])
  BY DEF Apply
<1>2. Resolved(j, b.lastOrder) = id
  BY ProxyResolves
<1>3. \A v : Resolved(v, b.lastOrder) = id =>
          SetDefaultSortOrder(b, [type |-> t, id |-> v]) =
              IF m.order = id THEN b
              ELSE IF id \notin DOMAIN m.orders THEN None
              ELSE Recorded(b, k, [type |-> t, id |-> j])
  BY NotedId DEF SetDefaultSortOrder
<1> HIDE DEF j, id
<1>4. c = Recorded(b, k, [type |-> t, id |-> j]) /\ Apply([type |-> t, id |-> j], b) = c
  BY <1>1, <1>2, <1>3 DEF id
<1>5. IsMeta(k) /\ SameLog(m, k) /\ SameFields(m, k) /\ k.schema = m.schema
  <2>1. IsMeta(m)
    BY DEF IsBuilder
  <2> HIDE DEF m
  <2> QED
    BY <2>1 DEF IsMeta, SameLog, SameFields
<1> HIDE DEF k
<1>6. Records(b, c, [type |-> t, id |-> j]) /\ c.meta = k
  BY <1>4, <1>5, Recording
<1> QED
  BY <1>5, <1>6

LEMMA UpgradeIs ==
    ASSUME NEW b, IsBuilder(b), NEW f, NEW c, c # None,
           c = Apply([type |-> "UpgradeFormatVersion", format |-> f], b), c # b
    PROVE  /\ Records(b, c, [type |-> "UpgradeFormatVersion", format |-> f])
           /\ SameLog(b.meta, c.meta) /\ SameFields(b.meta, c.meta)
           /\ c.meta.schema = b.meta.schema
<1> DEFINE u == [type |-> "UpgradeFormatVersion", format |-> f]
           m == b.meta
           k == [m EXCEPT !.format = f]
<1>1. Apply(u, b) = UpgradeFormatVersion(b, u) /\ u.format = f
  BY DEF Apply
<1> HIDE DEF u
<1>2. c = Recorded(b, k, u) /\ Apply(u, b) = c
  BY <1>1 DEF UpgradeFormatVersion, u
<1>3. IsMeta(k) /\ SameLog(m, k) /\ SameFields(m, k) /\ k.schema = m.schema
  <2>1. IsMeta(m)
    BY DEF IsBuilder
  <2> HIDE DEF m
  <2> QED
    BY <2>1 DEF IsMeta, SameLog, SameFields
<1> HIDE DEF k
<1>4. Records(b, c, u) /\ c.meta = k
  BY <1>2, <1>3, Recording
<1> QED
  BY <1>3, <1>4 DEF u

LEMMA SetDefaultSpecIs ==
    ASSUME NEW b, IsBuilder(b), NEW i, NEW c, c # None,
           c = Apply([type |-> "SetDefaultSpec", id |-> i], b), c # b
    PROVE  /\ \E j : Records(b, c, [type |-> "SetDefaultSpec", id |-> j])
           /\ SameLog(b.meta, c.meta)
           /\ \E id \in DOMAIN b.meta.specs :
                 c.meta.spec = [id |-> id, fields |-> b.meta.specs[id]]
           /\ c.meta.specs = b.meta.specs /\ c.meta.lastPartition = b.meta.lastPartition
           /\ c.meta.schemas = b.meta.schemas /\ c.meta.lastColumn = b.meta.lastColumn
           /\ c.meta.schema = b.meta.schema
<1> DEFINE t == "SetDefaultSpec"
           m == b.meta
           id == Resolved(i, b.lastSpec)
           j == Proxied(id, b.lastSpec)
           new == [id |-> id, fields |-> m.specs[id]]
           k == [m EXCEPT !.spec = new]
           Gone == \E f \in Range(m.specs[id]) : f.source \notin DOMAIN Current(m)
<1>1. \A v : Apply([type |-> t, id |-> v], b) = SetDefaultSpec(b, [type |-> t, id |-> v])
  BY DEF Apply
<1>2. Resolved(j, b.lastSpec) = id
  BY ProxyResolves
<1>3. \A v : Resolved(v, b.lastSpec) = id =>
          SetDefaultSpec(b, [type |-> t, id |-> v]) =
              IF m.spec.id = id THEN b
              ELSE IF id \notin DOMAIN m.specs \/ Gone THEN None
              ELSE Recorded(b, k, [type |-> t, id |-> j])
  <2> HIDE DEF Gone
  <2> QED
    BY NotedId DEF SetDefaultSpec, Gone
<1> HIDE DEF j, id, Gone
<1>4. /\ id \in DOMAIN m.specs /\ c = Recorded(b, k, [type |-> t, id |-> j])
      /\ Apply([type |-> t, id |-> j], b) = c
  BY <1>1, <1>2, <1>3 DEF id
<1> HIDE DEF new
<1>5. /\ IsMeta(k) /\ SameLog(m, k) /\ k.spec = new
      /\ k.specs = m.specs /\ k.lastPartition = m.lastPartition
      /\ k.schemas = m.schemas /\ k.lastColumn = m.lastColumn /\ k.schema = m.schema
  <2>1. IsMeta(m)
    BY DEF IsBuilder
  <2> HIDE DEF m
  <2> QED
    BY <2>1 DEF IsMeta, SameLog
<1> HIDE DEF k
<1>6. Records(b, c, [type |-> t, id |-> j]) /\ c.meta = k
  BY <1>4, <1>5, Recording
<1> QED
  BY <1>4, <1>5, <1>6 DEF new

LEMMA RemoveSpecsIs ==
    ASSUME NEW b, IsBuilder(b), NEW ids \in SUBSET DOMAIN b.meta.specs, NEW c, c # None,
           c = Apply([type |-> "RemovePartitionSpecs", ids |-> ids], b), c # b
    PROVE  /\ Records(b, c, [type |-> "RemovePartitionSpecs", ids |-> ids])
           /\ SameLog(b.meta, c.meta)
           /\ c.meta.specs = Restrict(b.meta.specs, DOMAIN b.meta.specs \ ids)
           /\ c.meta.spec = b.meta.spec /\ c.meta.lastPartition = b.meta.lastPartition
           /\ c.meta.schemas = b.meta.schemas /\ c.meta.lastColumn = b.meta.lastColumn
           /\ c.meta.schema = b.meta.schema
<1> DEFINE u == [type |-> "RemovePartitionSpecs", ids |-> ids]
           m == b.meta
           k == [m EXCEPT !.specs = Restrict(@, DOMAIN @ \ ids)]
<1>1. /\ Apply(u, b) = RemovePartitionSpecs(b, u) /\ u.ids = ids
      /\ ids \cap DOMAIN m.specs = ids
  BY DEF Apply
<1>2. Note(u, "ids", ids) = u
  BY NotedIds
<1> HIDE DEF u
<1>3. c = Recorded(b, k, u) /\ Apply(u, b) = c
  BY <1>1, <1>2 DEF RemovePartitionSpecs, u
<1>4. /\ IsMeta(k) /\ SameLog(m, k) /\ k.schema = m.schema
      /\ k.specs = Restrict(m.specs, DOMAIN m.specs \ ids)
      /\ k.schemas = m.schemas /\ k.spec = m.spec /\ k.lastPartition = m.lastPartition
      /\ k.lastColumn = m.lastColumn
  <2>1. IsMeta(m)
    BY DEF IsBuilder
  <2> HIDE DEF m
  <2> QED
    BY <2>1 DEF IsMeta, SameLog
<1> HIDE DEF k
<1>5. Records(b, c, u) /\ c.meta = k
  BY <1>3, <1>4, Recording
<1> QED
  BY <1>4, <1>5 DEF u

-----------------------------------------------------------------------------
(* The calls of snapshots and references. *)

LEMMA AddSnapshotIs ==
    ASSUME NEW b, IsBuilder(b), NEW id, NEW parent, NEW seq, NEW c, c # None,
           c = Apply([type |-> "AddSnapshot", id |-> id, parent |-> parent, seq |-> seq], b), c # b
    PROVE  /\ Records(b, c, [type |-> "AddSnapshot", id |-> id, parent |-> parent, seq |-> seq])
           /\ SameFields(b.meta, c.meta) /\ c.meta.schema = b.meta.schema
           /\ c.meta.snapshots = With(b.meta.snapshots, id, seq)
           /\ c.meta.log = b.meta.log /\ c.meta.current = b.meta.current
<1> DEFINE u == [type |-> "AddSnapshot", id |-> id, parent |-> parent, seq |-> seq]
           m == b.meta
           d == [m EXCEPT !.snapshots = With(@, id, seq)]
           k == [d EXCEPT !.lastSeq = seq]
<1>1. Apply(u, b) = AddSnapshot(b, u) /\ u.id = id /\ u.seq = seq
  BY DEF Apply
<1> HIDE DEF u
<1>2. c = Recorded(b, k, u) /\ Apply(u, b) = c
  <2>1. k = [m EXCEPT !.snapshots = With(@, id, seq), !.lastSeq = seq]
    OBVIOUS
  <2> HIDE DEF k
  <2> QED
    BY <1>1, <2>1 DEF AddSnapshot, u
<1>3. /\ IsMeta(k) /\ SameFields(m, k) /\ k.schema = m.schema
      /\ k.snapshots = With(m.snapshots, id, seq) /\ k.log = m.log /\ k.current = m.current
  <2>1. IsMeta(m)
    BY DEF IsBuilder
  <2>2. /\ IsMeta(d) /\ SameFields(m, d) /\ d.schema = m.schema
        /\ d.snapshots = With(m.snapshots, id, seq) /\ d.log = m.log /\ d.current = m.current
    <3> HIDE DEF m
    <3> QED
      BY <2>1 DEF IsMeta, SameFields
  <2> HIDE DEF m, d
  <2> QED
    BY <2>2 DEF IsMeta, SameFields
<1> HIDE DEF k
<1>4. Records(b, c, u) /\ c.meta = k
  BY <1>2, <1>3, Recording
<1> QED
  BY <1>3, <1>4 DEF u

LEMMA RemoveSnapshotsIs ==
    ASSUME NEW b, IsBuilder(b), NEW ids \in SUBSET DOMAIN b.meta.snapshots, NEW c, c # None,
           c = Apply([type |-> "RemoveSnapshots", ids |-> ids], b), c # b
    PROVE  /\ Records(b, c, [type |-> "RemoveSnapshots", ids |-> ids])
           /\ SameFields(b.meta, c.meta) /\ c.meta.schema = b.meta.schema
           /\ c.meta.snapshots = Restrict(b.meta.snapshots, DOMAIN b.meta.snapshots \ ids)
           /\ c.meta.log = b.meta.log /\ c.meta.current = b.meta.current
<1> DEFINE u == [type |-> "RemoveSnapshots", ids |-> ids]
           m == b.meta
           kept == DOMAIN m.snapshots \ ids
           refs == Restrict(m.refs, {x \in DOMAIN m.refs : m.refs[x] \in kept})
           d == [m EXCEPT !.snapshots = Restrict(@, kept)]
           k == [d EXCEPT !.refs = refs]
<1>1. Apply(u, b) = RemoveSnapshots(b, u) /\ u.ids = ids /\ ids \cap DOMAIN m.snapshots = ids
  BY DEF Apply
<1>2. Note(u, "ids", ids) = u
  BY NotedIds
<1> HIDE DEF u
<1>3. c = Recorded(b, k, u) /\ Apply(u, b) = c
  <2>1. k = [m EXCEPT !.snapshots = Restrict(@, kept), !.refs = refs]
    OBVIOUS
  <2> HIDE DEF k
  <2> QED
    BY <1>1, <1>2, <2>1 DEF RemoveSnapshots, RestrictValues, u
<1> HIDE DEF refs
<1>4. /\ IsMeta(k) /\ SameFields(m, k) /\ k.schema = m.schema
      /\ k.snapshots = Restrict(m.snapshots, kept) /\ k.log = m.log /\ k.current = m.current
  <2>1. IsMeta(m)
    BY DEF IsBuilder
  <2>2. /\ IsMeta(d) /\ SameFields(m, d) /\ d.schema = m.schema
        /\ d.snapshots = Restrict(m.snapshots, kept) /\ d.log = m.log /\ d.current = m.current
    <3> HIDE DEF m, kept
    <3> QED
      BY <2>1 DEF IsMeta, SameFields
  <2> HIDE DEF m, d, kept
  <2> QED
    BY <2>2 DEF IsMeta, SameFields
<1> HIDE DEF k
<1>5. Records(b, c, u) /\ c.meta = k
  BY <1>3, <1>4, Recording
<1> QED
  BY <1>4, <1>5 DEF u

LEMMA SetRefIs ==
    ASSUME NEW b, IsBuilder(b), NEW ref, NEW id, NEW c, c # None,
           c = Apply([type |-> "SetSnapshotRef", ref |-> ref, id |-> id], b), c # b
    PROVE  /\ Records(b, c, [type |-> "SetSnapshotRef", ref |-> ref, id |-> id])
           /\ SameFields(b.meta, c.meta) /\ c.meta.schema = b.meta.schema
           /\ c.meta.snapshots = b.meta.snapshots /\ id \in DOMAIN b.meta.snapshots
           /\ \/ c.meta.log = b.meta.log /\ c.meta.current = b.meta.current
              \/ /\ c.meta.log = Append(b.meta.log, [id |-> id, at |-> b.at])
                 /\ c.meta.current = id
<1> DEFINE u == [type |-> "SetSnapshotRef", ref |-> ref, id |-> id]
           m == b.meta
           e == [id |-> id, at |-> b.at]
           set == [m EXCEPT !.refs = With(@, ref, id)]
           d == [set EXCEPT !.current = id]
           main == [d EXCEPT !.log = Append(@, e)]
<1>1. Apply(u, b) = SetRef(b, u) /\ u.ref = ref /\ u.id = id
  BY DEF Apply
<1> HIDE DEF u, e
<1>2. PICK k : /\ k = set \/ k = main
               /\ c = Recorded(b, k, u) /\ Apply(u, b) = c /\ id \in DOMAIN m.snapshots
  <2>1. main = [set EXCEPT !.current = id, !.log = Append(@, e)]
    OBVIOUS
  <2>2. set = [m EXCEPT !.refs = With(@, u.ref, u.id)]
    BY <1>1
  <2> HIDE DEF set, main
  <2>3. \/ c = Recorded(b, set, u) /\ id \in DOMAIN m.snapshots
        \/ c = Recorded(b, main, u) /\ id \in DOMAIN m.snapshots
    BY <1>1, <2>1, <2>2 DEF SetRef, u, e
  <2> QED
    BY <2>3 DEF u
<1>3. /\ IsMeta(set) /\ SameFields(m, set) /\ set.schema = m.schema
      /\ set.snapshots = m.snapshots /\ set.log = m.log /\ set.current = m.current
  <2>1. IsMeta(m)
    BY DEF IsBuilder
  <2> HIDE DEF m
  <2> QED
    BY <2>1 DEF IsMeta, SameFields
<1> HIDE DEF set
<1>4. /\ IsMeta(d) /\ SameFields(m, d) /\ d.schema = m.schema
      /\ d.snapshots = m.snapshots /\ d.log = m.log /\ d.current = id
  <2> HIDE DEF m
  <2> QED
    BY <1>3 DEF IsMeta, SameFields
<1> HIDE DEF d
<1>5. /\ IsMeta(main) /\ SameFields(m, main) /\ main.schema = m.schema
      /\ main.snapshots = m.snapshots /\ main.log = Append(m.log, e) /\ main.current = id
  <2> DEFINE log == Append(d.log, e)
  <2>1. main = [d EXCEPT !.log = log]
    OBVIOUS
  <2> HIDE DEF m, log, main
  <2>2. /\ IsMeta(main) /\ SameFields(m, main) /\ main.schema = m.schema
        /\ main.snapshots = m.snapshots /\ main.log = log /\ main.current = id
    BY <1>4, <2>1 DEF IsMeta, SameFields
  <2> QED
    BY <1>4, <2>2 DEF log
<1> HIDE DEF main
<1>6. IsMeta(k)
  BY <1>2, <1>3, <1>5
<1>7. Records(b, c, u) /\ c.meta = k
  BY <1>2, <1>6, Recording
<1> QED
  BY <1>2, <1>3, <1>5, <1>7 DEF u, e

LEMMA RemoveRefIs ==
    ASSUME NEW b, IsBuilder(b), NEW ref, NEW c, c # None,
           c = Apply([type |-> "RemoveSnapshotRef", ref |-> ref], b), c # b
    PROVE  /\ Records(b, c, [type |-> "RemoveSnapshotRef", ref |-> ref])
           /\ SameFields(b.meta, c.meta) /\ c.meta.schema = b.meta.schema
           /\ c.meta.snapshots = b.meta.snapshots /\ c.meta.log = b.meta.log
           /\ c.meta.current \in {b.meta.current, None}
<1> DEFINE u == [type |-> "RemoveSnapshotRef", ref |-> ref]
           m == b.meta
           now == IF ref = "main" THEN None ELSE m.current
           d == [m EXCEPT !.refs = Restrict(@, DOMAIN @ \ {ref})]
           k == [d EXCEPT !.current = now]
<1>1. Apply(u, b) = RemoveRef(b, u) /\ u.ref = ref
  BY DEF Apply
<1> HIDE DEF u
<1>2. c = Recorded(b, k, u) /\ Apply(u, b) = c
  <2>1. k = [m EXCEPT !.refs = Restrict(@, DOMAIN @ \ {ref}),
                      !.current = IF ref = "main" THEN None ELSE @]
    OBVIOUS
  <2> HIDE DEF k
  <2> QED
    BY <1>1, <2>1 DEF RemoveRef, u
<1>3. now \in {m.current, None}
  OBVIOUS
<1> HIDE DEF now
<1>4. /\ IsMeta(k) /\ SameFields(m, k) /\ k.schema = m.schema
      /\ k.snapshots = m.snapshots /\ k.log = m.log /\ k.current = now
  <2>1. IsMeta(m)
    BY DEF IsBuilder
  <2>2. /\ IsMeta(d) /\ SameFields(m, d) /\ d.schema = m.schema
        /\ d.snapshots = m.snapshots /\ d.log = m.log
    <3> HIDE DEF m
    <3> QED
      BY <2>1 DEF IsMeta, SameFields
  <2> HIDE DEF m, d
  <2> QED
    BY <2>2 DEF IsMeta, SameFields
<1> HIDE DEF k
<1>5. Records(b, c, u) /\ c.meta = k
  BY <1>2, <1>4, Recording
<1> QED
  BY <1>3, <1>4, <1>5 DEF u
-----------------------------------------------------------------------------
(* Partition specs.  A spec whose fields all have an id, or no field of the  *)
(* same column to lend them one, stays as it was asked for: that is so once  *)
(* ids are lent, and so the spec that is recorded is the one that was added. *)
Settled(m, fs) ==
    /\ IsSeq(fs)
    /\ \A f \in Range(fs) : IsField(f) /\ (f.id = None => LentIds(m, f) = {})

LEMMA SettledStays ==
    ASSUME NEW m, NEW fs, Settled(m, fs)
    PROVE  WithLentIds(m, fs) = {fs}
<1> DEFINE Offered(f) == IF f.id = None /\ LentIds(m, f) # {} THEN LentIds(m, f) ELSE {f.id}
           Ids == {d \in [DOMAIN fs -> UNION {Offered(f) : f \in Range(fs)}] :
                      \A i \in DOMAIN fs : d[i] \in Offered(fs[i])}
           Own == [i \in DOMAIN fs |-> fs[i].id]
<1>1. DOMAIN fs = 1..Len(fs) /\ fs = [i \in DOMAIN fs |-> fs[i]]
      /\ \A i \in DOMAIN fs : fs[i] \in Range(fs)
  BY SeqIs DEF Settled, IsSeq
<1>2. \A i \in DOMAIN fs : Offered(fs[i]) = {fs[i].id}
  BY <1>1 DEF Settled
<1>3. Own \in Ids
  BY <1>1, <1>2
<1>4. \A d \in Ids : d = Own
  <2> SUFFICES ASSUME NEW d \in Ids
               PROVE  d = Own
    OBVIOUS
  <2>1. d \in [DOMAIN fs -> UNION {Offered(f) : f \in Range(fs)}] /\ \A i \in DOMAIN fs : d[i] = fs[i].id
    BY <1>2
  <2> HIDE DEF Offered
  <2> QED
    BY <2>1
<1>5. [i \in DOMAIN fs |-> [fs[i] EXCEPT !.id = Own[i]]] = fs
  <2>1. \A i \in DOMAIN fs : [fs[i] EXCEPT !.id = Own[i]] = fs[i]
    BY <1>1 DEF Settled, IsField, Identified
  <2> HIDE DEF Own
  <2> QED
    BY <1>1, <2>1
<1>6. WithLentIds(m, fs) = {[i \in DOMAIN fs |-> [fs[i] EXCEPT !.id = c[i]]] : c \in Ids}
  BY DEF WithLentIds
<1> HIDE DEF Ids, Own
<1> QED
  BY <1>3, <1>4, <1>5, <1>6

(* What lending does. *)
LEMMA LentIs ==
    ASSUME NEW m, \A g \in FieldsOf(m) : g.id # None, NEW fs, IsSeq(fs),
           \A f \in Range(fs) : IsField(f), NEW asked \in WithLentIds(m, fs)
    PROVE  /\ Settled(m, asked) /\ DOMAIN asked = DOMAIN fs
           /\ \A i \in DOMAIN fs :
                 /\ asked[i] = Identified(fs[i], asked[i].id)
                 /\ \/ asked[i].id = fs[i].id
                    \/ asked[i].id \in LentIds(m, fs[i])
<1> DEFINE Offered(f) == IF f.id = None /\ LentIds(m, f) # {} THEN LentIds(m, f) ELSE {f.id}
<1>1. Len(fs) \in Nat /\ DOMAIN fs = 1..Len(fs) /\ \A i \in DOMAIN fs : IsField(fs[i])
  BY SeqIs
<1>2. PICK c : /\ asked = [i \in DOMAIN fs |-> [fs[i] EXCEPT !.id = c[i]]]
               /\ \A i \in DOMAIN fs : c[i] \in Offered(fs[i])
  BY DEF WithLentIds
<1>3. \A i \in DOMAIN fs : asked[i] = Identified(fs[i], c[i]) /\ asked[i].id = c[i]
  <2> HIDE DEF Offered
  <2> QED
    BY <1>1, <1>2 DEF IsField, Identified
<1>4. \A i \in DOMAIN fs : IsField(asked[i]) /\ SameColumn(fs[i], asked[i])
                           /\ asked[i].id = c[i]
  <2>1. \A f, id : LET g == Identified(f, id) IN SameColumn(f, g) /\ IsField(g) /\ g.id = id
    BY DEF IsField, Identified, SameColumn
  <2> HIDE DEF Offered
  <2> QED
    BY <1>3, <2>1
<1>5. \A f, g : SameColumn(f, g) => LentIds(m, g) \subseteq LentIds(m, f)
  BY DEF LentIds, SameColumn
<1>6. \A f : None \notin LentIds(m, f)
  BY DEF LentIds, FieldsOf
<1>7. ASSUME NEW i \in DOMAIN fs, asked[i].id = None
      PROVE  LentIds(m, asked[i]) = {}
  <2>1. c[i] = None /\ c[i] \in Offered(fs[i])
    BY <1>2, <1>4, <1>7
  <2>2. LentIds(m, fs[i]) = {}
    BY <1>6, <2>1
  <2> QED
    BY <1>4, <1>5, <2>2
<1>8. IsSeq(asked) /\ DOMAIN asked = DOMAIN fs
      /\ \A f \in Range(asked) : \E i \in DOMAIN fs : f = asked[i]
  <2>1. DOMAIN asked = 1..Len(fs) /\ asked = [i \in 1..Len(fs) |-> asked[i]]
        /\ \A i \in 1..Len(fs) : asked[i] \in Range(asked)
    BY <1>1, <1>2 DEF Range
  <2>2. asked \in [1..Len(fs) -> Range(asked)]
    BY <2>1
  <2>3. IsSeq(asked)
    BY <1>1, <2>2 DEF IsSeq
  <2> QED
    BY <1>1, <2>1, <2>3 DEF Range
<1>9. Settled(m, asked)
  BY <1>4, <1>7, <1>8 DEF Settled
<1> HIDE DEF Offered
<1>10. ASSUME NEW i \in DOMAIN fs
       PROVE  asked[i].id = fs[i].id \/ asked[i].id \in LentIds(m, fs[i])
  BY <1>2, <1>4 DEF Offered
<1> QED
  BY <1>3, <1>4, <1>8, <1>9, <1>10

TopField(last, fs) == Max({last, HighestFieldId(fs)})

NewSpec(m, id, fs) ==
    [m EXCEPT !.specs = With(@, id, fs), !.lastPartition = TopField(@, fs)]

LEMMA NewSpecIs ==
    ASSUME NEW m, IsMeta(m), NEW id, NEW fs, NEW k, k = NewSpec(m, id, fs)
    PROVE  /\ IsMeta(k) /\ k.specs = With(m.specs, id, fs)
           /\ k.lastPartition = TopField(m.lastPartition, fs)
           /\ k.spec = m.spec /\ SameLog(m, k) /\ k.schema = m.schema
           /\ k.schemas = m.schemas /\ k.lastColumn = m.lastColumn
<1> DEFINE d == [m EXCEPT !.specs = With(@, id, fs)]
           top == TopField(m.lastPartition, fs)
<1>1. /\ IsMeta(d) /\ d.specs = With(m.specs, id, fs)
      /\ d.schema = m.schema /\ SameLog(m, d) /\ d.schemas = m.schemas
      /\ d.lastColumn = m.lastColumn /\ d.spec = m.spec /\ d.lastPartition = m.lastPartition
  BY DEF IsMeta, SameLog
<1>2. k = [d EXCEPT !.lastPartition = top]
  BY DEF NewSpec
<1>3. /\ IsMeta(k) /\ k.specs = d.specs /\ k.lastPartition = top
      /\ k.schema = d.schema /\ SameLog(d, k) /\ k.schemas = d.schemas
      /\ k.lastColumn = d.lastColumn /\ k.spec = d.spec
  <2> HIDE DEF d, top
  <2> QED
    BY <1>1, <1>2 DEF IsMeta, SameLog
<1> QED
  BY <1>1, <1>3 DEF SameLog

LEMMA AddSpecIs ==
    ASSUME NEW b, IsBuilder(b), NEW fs, Settled(b.meta, fs), NEW c, c # None,
           c = Apply([type |-> "AddSpec", fields |-> fs], b), c # b
    PROVE  /\ Records(b, c, [type |-> "AddSpec", fields |-> fs])
           /\ SameLog(b.meta, c.meta) /\ c.meta.schema = b.meta.schema
           /\ c.meta.schemas = b.meta.schemas /\ c.meta.lastColumn = b.meta.lastColumn
           /\ c.meta.spec = b.meta.spec
           /\ \/ c.meta = b.meta
              \/ /\ UniqueWithin(fs)
                 /\ \E id : c.meta = NewSpec(b.meta, id, SetFieldIds(fs, b.meta.lastPartition))
<1> DEFINE u == [type |-> "AddSpec", fields |-> fs]
           m == b.meta
           bound == SetFieldIds(fs, m.lastPartition)
<1>1. Apply(u, b) = AddSpec(b, u) /\ u.fields = fs /\ Note(u, "fields", fs) = u
  BY DEF Apply, Note
<1>2. (CHOOSE asked \in WithLentIds(m, fs) : TRUE) = fs
  BY SettledStays
<1> HIDE DEF u, bound
<1>3. PICK id, k : /\ c = [Recorded(b, k, u) EXCEPT !.lastSpec = id]
                   /\ k = m \/ k = NewSpec(m, id, bound)
                   /\ Binds(fs, Current(m))
  BY <1>1, <1>2 DEF AddSpec, AddSpecUpdate, NewSpec, TopField, u, bound
<1>4. /\ IsMeta(k) /\ SameLog(m, k) /\ k.schema = m.schema /\ k.schemas = m.schemas
      /\ k.lastColumn = m.lastColumn /\ k.spec = m.spec
  <2>1. IsMeta(m)
    BY DEF IsBuilder
  <2> QED
    BY <1>3, <2>1, NewSpecIs DEF SameLog
<1>5. Apply(u, b) = c
  BY DEF u
<1>6. Records(b, c, u) /\ c.meta = k
  BY <1>3, <1>4, <1>5, RecordingSpec
<1> QED
  BY <1>3, <1>4, <1>6 DEF u, bound, Binds

-----------------------------------------------------------------------------
(* The inductive invariant.                                                  *)
(*                                                                           *)
(* Fields: of the versions there were, of the specs there are, and of the    *)
(* default spec, which Build puts back when it was removed, each has an id   *)
(* that was assigned, and one id has one meaning.                            *)
AllFields(m, F) == F \cup FieldsOf(m) \cup Range(m.spec.fields)

Known(All, last) ==
    /\ last \in Nat
    /\ \A f \in All : IsField(f) /\ f.id \in Nat /\ f.id <= last
    /\ \A f, g \in All : f.id = g.id => SameColumn(f, g)

FieldsFit(m, F) ==
    /\ Known(AllFields(m, F), m.lastPartition)
    /\ IsSeq(m.spec.fields) /\ \A s \in Range(m.specs) : IsSeq(s)

ColumnsFit(m, C) ==
    /\ m.lastColumn \in Int
    /\ \A c \in C \cup ColumnsOf(m) : c \in Int /\ c <= m.lastColumn

HasCurrentSchema(m) == m.schema \in DOMAIN m.schemas

EndsWithCurrent(m) ==
    m.current # None /\ m.log # << >> => m.log[Len(m.log)].id = m.current

(* The log of a version names snapshots it has, and what it says of the time *)
(* of any version is right.                                                  *)
PublishedLog(m, ms) ==
    /\ IsSeq(m.log) /\ EndsWithCurrent(m)
    /\ \A i \in 1..Len(m.log) :
          m.log[i].at \in Nat /\ m.log[i].at <= Len(ms) /\ m.log[i].id \in DOMAIN m.snapshots
    /\ \A v \in 1..Len(ms), j \in 1..Len(m.log) :
          LastUpTo(m.log, Len(m.log), j, v) /\ ms[v] # None => m.log[j].id = ms[v]

(* A builder only appends to the log it began with, entries of its own time; *)
(* what it misses it removed, and what it added is new.                      *)
BuilderLog(b, m, n, ever) ==
    LET log == b.meta.log
    IN  /\ b.at = n + 1 /\ AddedIds(b) \cap ever = {}
        /\ IsSeq(log) /\ EndsWithCurrent(b.meta) /\ Len(m.log) <= Len(log)
        /\ \A i \in 1..Len(log) :
              /\ i <= Len(m.log) => log[i] = m.log[i]
              /\ ~(i <= Len(m.log)) => log[i].at = n + 1
              /\ log[i].id \notin DOMAIN b.meta.snapshots => "RemoveSnapshots" \in Types(b)

(* What a builder has recorded is how it came about. *)
Rebuilds(b, m) == ApplyAll(b.changes, NewBuilder(m, b.at)) = b

VersionInv ==
    /\ IsMeta(published) /\ HasCurrentSchema(published)
    /\ FieldsFit(published, fields) /\ ColumnsFit(published, columns)
    /\ IsSeq(mains) /\ PublishedLog(published, mains)
    /\ DOMAIN published.snapshots \subseteq drawn

BuilderInv(b) ==
    /\ IsBuilder(b) /\ HasCurrentSchema(b.meta)
    /\ FieldsFit(b.meta, fields) /\ ColumnsFit(b.meta, columns)
    /\ BuilderLog(b, published, Len(mains), drawn)
    /\ Rebuilds(b, published)

MInv == VersionInv /\ (builder # None => BuilderInv(builder))

(* last_assigned_field_id goes up to the highest id of the new spec. *)
LEMMA TopFieldIs ==
    ASSUME NEW last \in Nat, NEW fs, IsSeq(fs), \A i \in DOMAIN fs : fs[i].id \in Nat
    PROVE  /\ TopField(last, fs) \in Nat /\ last <= TopField(last, fs)
           /\ \A i \in DOMAIN fs : fs[i].id <= TopField(last, fs)
<1> DEFINE n == Len(fs)
           ids == [i \in 1..n |-> fs[i].id]
           S == {UnpartitionedLastAssignedId} \cup {f.id : f \in Range(fs)}
<1>1. n \in Nat /\ DOMAIN fs = 1..n /\ \A f \in Range(fs) : \E i \in 1..n : f = fs[i]
  BY SeqIs DEF Range
<1>2. \A i \in 1..n : ids[i] \in Nat /\ ids[i] = fs[i].id /\ fs[i] \in Range(fs)
  BY <1>1 DEF Range
<1>3. PICK u \in Nat : \A i \in 1..n : ids[i] <= u
  <2> HIDE DEF n, ids
  <2> QED
    BY <1>1, <1>2, BoundOf
<1>4. S \in SUBSET Nat /\ S # {} /\ \A x \in S : x <= u + UnpartitionedLastAssignedId
  <2>1. \A f \in Range(fs) : f.id \in Nat /\ f.id <= u
    BY <1>1, <1>2, <1>3
  <2> QED
    BY <2>1 DEF UnpartitionedLastAssignedId
<1>5. Max(S) \in Nat /\ \A x \in S : x <= Max(S)
  <2>1. u + UnpartitionedLastAssignedId \in Nat
    BY DEF UnpartitionedLastAssignedId
  <2> HIDE DEF S
  <2> QED
    BY <1>4, <2>1, MaxOfBounded
<1> DEFINE high == HighestFieldId(fs)
<1>6. high \in Nat /\ \A i \in DOMAIN fs : fs[i].id <= high
  BY <1>1, <1>2, <1>5 DEF HighestFieldId
<1> HIDE DEF high
<1>7. Max({last, high}) \in {last, high} /\ last <= Max({last, high}) /\ high <= Max({last, high})
  BY <1>6, MaxOfTwo
<1> DEFINE top == Max({last, high})
<1>8. TopField(last, fs) = top
  BY DEF TopField, high
<1> HIDE DEF top
<1>9. top \in Nat /\ last <= top /\ high <= top
  BY <1>6, <1>7 DEF top
<1>10. \A i \in DOMAIN fs : fs[i].id <= top
  BY <1>1, <1>2, <1>6, <1>9
<1> QED
  BY <1>8, <1>9, <1>10

(* What is known stays known when it gets less. *)
LEMMA KnownLess ==
    ASSUME NEW All, NEW last, Known(All, last), NEW Less \in SUBSET All
    PROVE  Known(Less, last)
BY DEF Known

(* A field of a spec has no id or the one it was lent. *)
Asked(f, All) ==
    /\ IsField(f)
    /\ f.id # None => \E g \in All : g.id = f.id /\ SameColumn(g, f)

(* A new spec gives no id a second meaning. *)
LEMMA NewSpecFits ==
    ASSUME NEW All, NEW last, Known(All, last), NEW fs, IsSeq(fs),
           \A f \in Range(fs) : Asked(f, All),
           NEW bound, bound = SetFieldIds(fs, last)
    PROVE  IsSeq(bound) /\ Known(All \cup Range(bound), TopField(last, bound))
<1>1. last \in Nat /\ DOMAIN fs = 1..Len(fs) /\ \A i \in DOMAIN fs : fs[i] \in Range(fs)
  BY SeqIs DEF Known, Range
<1>2. GivenIds(fs) \subseteq Nat /\ \A f \in Range(fs) : IsField(f)
  BY DEF GivenIds, Asked, Known
<1>3. /\ IsSeq(bound) /\ DOMAIN bound = DOMAIN fs
      /\ \A i \in DOMAIN fs :
            /\ bound[i] = Identified(fs[i], bound[i].id)
            /\ bound[i].id \in Nat
            /\ fs[i].id # None => bound[i].id = fs[i].id
            /\ fs[i].id = None => last < bound[i].id /\ bound[i].id \notin GivenIds(fs)
      /\ \A i, j \in DOMAIN fs :
            i # j /\ fs[i].id = None /\ fs[j].id = None => bound[i].id # bound[j].id
  BY <1>1, <1>2, FieldIdsAreNew
<1> DEFINE top == TopField(last, bound)
<1>4. top \in Nat /\ last <= top /\ \A i \in DOMAIN bound : bound[i].id <= top
  BY <1>1, <1>3, TopFieldIs
<1> HIDE DEF top
<1>5. \A f, id : LET g == Identified(f, id) IN IsField(g) /\ SameColumn(f, g) /\ SameColumn(g, f)
  BY DEF Identified, IsField, SameColumn
<1>6. \A i \in DOMAIN fs : IsField(bound[i]) /\ SameColumn(fs[i], bound[i])
  BY <1>3, <1>5
<1>7. \A f, g, h : /\ SameColumn(f, g) => SameColumn(g, f)
                   /\ SameColumn(f, g) /\ SameColumn(g, h) => SameColumn(f, h)
  BY DEF SameColumn
<1>8. ASSUME NEW i \in DOMAIN fs, fs[i].id # None
      PROVE  \E g \in All : g.id = bound[i].id /\ SameColumn(g, bound[i])
  <2>1. PICK g \in All : g.id = fs[i].id /\ SameColumn(g, fs[i])
    BY <1>1, <1>8 DEF Asked
  <2> QED
    BY <1>3, <1>6, <1>7, <1>8, <2>1
<1>9. ASSUME NEW f \in All, NEW i \in DOMAIN fs, f.id = bound[i].id
      PROVE  SameColumn(f, bound[i])
  <2>1. f.id \in Nat /\ f.id <= last
    BY DEF Known
  <2>2. fs[i].id # None
    BY <1>1, <1>3, <1>9, <2>1
  <2>3. PICK g \in All : g.id = bound[i].id /\ SameColumn(g, bound[i])
    BY <1>8, <2>2
  <2>4. SameColumn(f, g)
    BY <1>9, <2>3 DEF Known
  <2> QED
    BY <1>7, <2>3, <2>4
<1>10. ASSUME NEW i \in DOMAIN fs, NEW j \in DOMAIN fs, bound[i].id = bound[j].id
       PROVE  SameColumn(bound[i], bound[j])
  <2>1. CASE fs[i].id # None
    <3>1. PICK g \in All : g.id = bound[i].id /\ SameColumn(g, bound[i])
      BY <1>8, <2>1
    <3>2. SameColumn(g, bound[j])
      BY <1>9, <1>10, <3>1
    <3> QED
      BY <1>7, <3>1, <3>2
  <2>2. CASE fs[j].id # None
    <3>1. PICK g \in All : g.id = bound[j].id /\ SameColumn(g, bound[j])
      BY <1>8, <2>2
    <3>2. SameColumn(g, bound[i])
      BY <1>9, <1>10, <3>1
    <3> QED
      BY <1>7, <3>1, <3>2
  <2>3. CASE fs[i].id = None /\ fs[j].id = None
    <3>1. i = j
      BY <1>3, <1>10, <2>3
    <3> QED
      BY <3>1 DEF SameColumn
  <2> QED
    BY <2>1, <2>2, <2>3
<1>11. \A f \in Range(bound) : \E i \in DOMAIN fs : f = bound[i]
  BY <1>3 DEF Range
<1>12. \A f \in All \cup Range(bound) : IsField(f) /\ f.id \in Nat /\ f.id <= top
  <2>1. ASSUME NEW f \in All
        PROVE  IsField(f) /\ f.id \in Nat /\ f.id <= top
    BY <1>1, <1>4 DEF Known
  <2>2. ASSUME NEW f \in Range(bound)
        PROVE  IsField(f) /\ f.id \in Nat /\ f.id <= top
    BY <1>3, <1>4, <1>6, <1>11
  <2> QED
    BY <2>1, <2>2
<1>13. \A f, g \in All \cup Range(bound) : f.id = g.id => SameColumn(f, g)
  BY <1>7, <1>9, <1>10, <1>11 DEF Known
<1> QED
  BY <1>3, <1>4, <1>12, <1>13 DEF Known, top

LEMMA WithIs ==
    ASSUME NEW f, NEW x, NEW y
    PROVE  /\ Range(With(f, x, y)) \subseteq Range(f) \cup {y}
           /\ DOMAIN With(f, x, y) = DOMAIN f \cup {x}
BY DEF With, Range

LEMMA RestrictIs ==
    ASSUME NEW f, NEW S \in SUBSET DOMAIN f
    PROVE  /\ DOMAIN Restrict(f, S) = S /\ Range(Restrict(f, S)) \subseteq Range(f)
           /\ \A x \in S : Restrict(f, S)[x] = f[x]
BY DEF Restrict, Range

(* Calls that add no spec and no schema. *)
LEMMA FieldsFitLess ==
    ASSUME NEW m, NEW k, NEW F, FieldsFit(m, F), k.lastPartition = m.lastPartition,
           Range(k.specs) \subseteq Range(m.specs) \cup {m.spec.fields},
           k.spec.fields \in Range(m.specs) \cup {m.spec.fields}
    PROVE  FieldsFit(k, F)
<1>1. AllFields(k, F) \in SUBSET AllFields(m, F)
  BY DEF AllFields, FieldsOf
<1>2. Known(AllFields(k, F), k.lastPartition)
  BY <1>1, KnownLess DEF FieldsFit
<1> QED
  BY <1>2 DEF FieldsFit

LEMMA ColumnsFitLess ==
    ASSUME NEW m, NEW k, NEW C, ColumnsFit(m, C), k.lastColumn = m.lastColumn,
           Range(k.schemas) \subseteq Range(m.schemas)
    PROVE  ColumnsFit(k, C)
BY DEF ColumnsFit, ColumnsOf

(* The calls that do. *)
LEMMA NewSpecKeeps ==
    ASSUME NEW m, IsMeta(m), NEW F, FieldsFit(m, F), NEW fs, IsSeq(fs),
           \A f \in Range(fs) : Asked(f, AllFields(m, F)),
           NEW id, NEW k, k = NewSpec(m, id, SetFieldIds(fs, m.lastPartition))
    PROVE  FieldsFit(k, F)
<1> DEFINE bound == SetFieldIds(fs, m.lastPartition)
           All == AllFields(m, F)
<1>1. IsSeq(bound) /\ Known(All \cup Range(bound), TopField(m.lastPartition, bound))
  BY NewSpecFits DEF FieldsFit
<1>2. /\ k.specs = With(m.specs, id, bound) /\ k.spec = m.spec
      /\ k.lastPartition = TopField(m.lastPartition, bound)
  BY NewSpecIs
<1> HIDE DEF bound
<1>3. Range(k.specs) \subseteq Range(m.specs) \cup {bound}
  BY <1>2, WithIs
<1>4. AllFields(k, F) \in SUBSET (All \cup Range(bound))
  BY <1>2, <1>3 DEF AllFields, FieldsOf
<1>5. Known(AllFields(k, F), k.lastPartition)
  <2> HIDE DEF All
  <2> QED
    BY <1>1, <1>2, <1>4, KnownLess
<1>6. IsSeq(k.spec.fields) /\ \A s \in Range(k.specs) : IsSeq(s)
  BY <1>1, <1>2, <1>3 DEF FieldsFit
<1> QED
  BY <1>5, <1>6 DEF FieldsFit

LEMMA NewSchemaKeeps ==
    ASSUME NEW m, IsMeta(m), NEW C, ColumnsFit(m, C), NEW s, DOMAIN s \subseteq Int,
           NEW x \in {m.lastColumn} \cup DOMAIN s, \A y \in {m.lastColumn} \cup DOMAIN s : y <= x,
           NEW id, NEW k, k = AddNewSchema(m, id, s)
    PROVE  ColumnsFit(k, C) /\ (HasCurrentSchema(m) => HasCurrentSchema(k))
<1> DEFINE S == {m.lastColumn} \cup DOMAIN s
           top == TopColumn(m, s)
<1>1. S \in SUBSET Int /\ x \in S /\ \A y \in S : y <= x
  BY DEF ColumnsFit
<1>2. Max(S) \in S /\ \A y \in S : y <= Max(S)
  <2> HIDE DEF S
  <2> QED
    BY <1>1, MaxIs
<1>3. top \in Int /\ m.lastColumn <= top /\ \A c \in DOMAIN s : c <= top
  BY <1>1, <1>2 DEF TopColumn
<1>4. k.schemas = With(m.schemas, id, s) /\ k.lastColumn = top /\ k.schema = m.schema
  BY NewSchemaIs
<1> HIDE DEF top
<1>5. Range(k.schemas) \subseteq Range(m.schemas) \cup {s} /\ DOMAIN m.schemas \subseteq DOMAIN k.schemas
  <2>1. /\ Range(With(m.schemas, id, s)) \subseteq Range(m.schemas) \cup {s}
        /\ DOMAIN With(m.schemas, id, s) = DOMAIN m.schemas \cup {id}
    BY WithIs
  <2> QED
    BY <1>4, <2>1
<1>6. ColumnsOf(k) \subseteq ColumnsOf(m) \cup DOMAIN s
  BY <1>5 DEF ColumnsOf
<1>7. \A c \in C \cup ColumnsOf(k) : c \in Int /\ c <= top
  <2>1. ASSUME NEW c \in C \cup ColumnsOf(m)
        PROVE  c \in Int /\ c <= top
    BY <1>3 DEF ColumnsFit
  <2> QED
    BY <1>3, <1>6, <2>1
<1> QED
  BY <1>3, <1>4, <1>5, <1>7 DEF ColumnsFit, HasCurrentSchema

(* The next version. *)
LEMMA NormalizedIs ==
    ASSUME NEW m, IsMeta(m), NEW k, k = Normalized(m)
    PROVE  /\ IsMeta(k) /\ SameLog(m, k)
           /\ k.specs \in {m.specs, With(m.specs, m.spec.id, m.spec.fields)}
           /\ k.spec = m.spec /\ k.lastPartition = m.lastPartition
           /\ k.schemas = m.schemas /\ k.lastColumn = m.lastColumn /\ k.schema = m.schema
<1> DEFINE refs == IF m.current = None \/ "main" \in DOMAIN m.refs THEN m.refs
                   ELSE With(m.refs, "main", m.current)
           specs == IF m.spec.id \in DOMAIN m.specs THEN m.specs
                    ELSE With(m.specs, m.spec.id, m.spec.fields)
           d == [m EXCEPT !.refs = refs]
<1>1. k = [m EXCEPT !.refs = refs, !.specs = specs]
  BY DEF Normalized
<1>2. specs \in {m.specs, With(m.specs, m.spec.id, m.spec.fields)}
  OBVIOUS
<1> HIDE DEF refs, specs
<1>3. k = [d EXCEPT !.specs = specs]
  BY <1>1
<1>4. /\ IsMeta(d) /\ SameLog(m, d) /\ d.specs = m.specs
      /\ d.spec = m.spec /\ d.lastPartition = m.lastPartition
      /\ d.schemas = m.schemas /\ d.lastColumn = m.lastColumn /\ d.schema = m.schema
  BY DEF IsMeta, SameLog
<1>5. /\ IsMeta(k) /\ SameLog(d, k) /\ k.specs = specs
      /\ k.spec = d.spec /\ k.lastPartition = d.lastPartition
      /\ k.schemas = d.schemas /\ k.lastColumn = d.lastColumn /\ k.schema = d.schema
  <2> HIDE DEF d
  <2> QED
    BY <1>3, <1>4 DEF IsMeta, SameLog
<1> QED
  BY <1>2, <1>4, <1>5 DEF SameLog

LEMMA BuildIs ==
    ASSUME NEW b, IsBuilder(b), NEW k, k = Build(b), k # None
    PROVE  /\ IsMeta(k) /\ k.log = SnapshotLog(b)
           /\ k.current = b.meta.current /\ k.snapshots = b.meta.snapshots
           /\ k.specs \in {b.meta.specs, With(b.meta.specs, b.meta.spec.id, b.meta.spec.fields)}
           /\ k.spec = b.meta.spec /\ k.lastPartition = b.meta.lastPartition
           /\ k.schemas = b.meta.schemas /\ k.lastColumn = b.meta.lastColumn
           /\ k.schema = b.meta.schema
           /\ RewritesLog(b) /\ k.current # None => Last(k.log).id = k.current
<1> DEFINE log == SnapshotLog(b)
           m == b.meta
           d == [m EXCEPT !.log = log]
<1>1. k = Normalized(d)
  BY DEF Build
<1>2. RewritesLog(b) /\ k.current # None => Last(log).id = k.current
  BY DEF Build
<1>3. /\ IsMeta(d) /\ d.log = log /\ d.current = m.current /\ d.snapshots = m.snapshots
      /\ d.specs = m.specs /\ d.spec = m.spec /\ d.lastPartition = m.lastPartition
      /\ d.schemas = m.schemas /\ d.lastColumn = m.lastColumn /\ d.schema = m.schema
  <2>1. IsMeta(m)
    BY DEF IsBuilder
  <2> HIDE DEF m, log
  <2> QED
    BY <2>1 DEF IsMeta
<1> HIDE DEF d, log
<1>4. /\ IsMeta(k) /\ SameLog(d, k)
      /\ k.specs \in {d.specs, With(d.specs, d.spec.id, d.spec.fields)}
      /\ k.spec = d.spec /\ k.lastPartition = d.lastPartition
      /\ k.schemas = d.schemas /\ k.lastColumn = d.lastColumn /\ k.schema = d.schema
  BY <1>1, <1>3, NormalizedIs
<1> QED
  BY <1>2, <1>3, <1>4 DEF SameLog, log

LEMMA BuildKeeps ==
    ASSUME NEW b, IsBuilder(b), NEW F, FieldsFit(b.meta, F), NEW C, ColumnsFit(b.meta, C),
           HasCurrentSchema(b.meta), NEW k, k = Build(b), k # None
    PROVE  IsMeta(k) /\ FieldsFit(k, F) /\ ColumnsFit(k, C) /\ HasCurrentSchema(k)
<1> DEFINE m == b.meta
<1>1. /\ IsMeta(k)
      /\ k.specs \in {m.specs, With(m.specs, m.spec.id, m.spec.fields)}
      /\ k.spec = m.spec /\ k.lastPartition = m.lastPartition
      /\ k.schemas = m.schemas /\ k.lastColumn = m.lastColumn /\ k.schema = m.schema
  BY BuildIs
<1>2. Range(k.specs) \subseteq Range(m.specs) \cup {m.spec.fields}
  <2>1. \A f, x, y : Range(With(f, x, y)) \subseteq Range(f) \cup {y}
    BY WithIs
  <2> QED
    BY <1>1, <2>1
<1>3. FieldsFit(k, F) /\ ColumnsFit(k, C)
  <2> HIDE DEF m
  <2> QED
    BY <1>1, <1>2, FieldsFitLess, ColumnsFitLess DEF m
<1> QED
  BY <1>1, <1>3 DEF HasCurrentSchema

-----------------------------------------------------------------------------
(* What the calls and Build do to the log. *)

LEMMA ChangesGrow ==
    ASSUME NEW b, IsBuilder(b), NEW c, NEW u, Records(b, c, u)
    PROVE  /\ Types(b) \subseteq Types(c) /\ u.type \in Types(c)
           /\ u.type # "AddSnapshot" => AddedIds(c) = AddedIds(b)
           /\ u.type = "AddSnapshot" => AddedIds(c) = AddedIds(b) \cup {u.id}
<1>1. c.changes = Append(b.changes, u) /\ IsSeq(b.changes) /\ IsSeq(c.changes)
  BY DEF Records, IsBuilder
<1>2. Range(c.changes) = Range(b.changes) \cup {u}
  BY <1>1, AppendIs
<1>3. \A d : Types(d) = {v.type : v \in Range(d.changes)}
  BY DEF Types, Range
<1>4. \A d : AddedIds(d) = {v.id : v \in {w \in Range(d.changes) : w.type = "AddSnapshot"}}
  BY DEF AddedIds, Changes
<1>5. {v.type : v \in Range(c.changes)} = {v.type : v \in Range(b.changes)} \cup {u.type}
  BY <1>2
<1>6. Types(c) = Types(b) \cup {u.type}
  BY <1>3, <1>5
<1> DEFINE Added(S) == {v.id : v \in {w \in S : w.type = "AddSnapshot"}}
<1>7. \A d : AddedIds(d) = Added(Range(d.changes))
  BY <1>4
<1>8. Added(Range(b.changes) \cup {u}) =
          Added(Range(b.changes)) \cup (IF u.type = "AddSnapshot" THEN {u.id} ELSE {})
  OBVIOUS
<1> HIDE DEF Added
<1>9. AddedIds(c) = AddedIds(b) \cup (IF u.type = "AddSnapshot" THEN {u.id} ELSE {})
  BY <1>2, <1>7, <1>8
<1> QED
  BY <1>6, <1>9

LEMMA LogStays ==
    ASSUME NEW b, IsBuilder(b), NEW m, NEW n, NEW ever, BuilderLog(b, m, n, ever),
           NEW c, NEW u, Records(b, c, u), AddedIds(c) \cap ever = {},
           c.meta.log = b.meta.log, c.meta.current \in {b.meta.current, None},
           DOMAIN b.meta.snapshots \subseteq DOMAIN c.meta.snapshots \/ u.type = "RemoveSnapshots"
    PROVE  BuilderLog(c, m, n, ever)
<1> DEFINE log == b.meta.log
<1>1. c.at = n + 1 /\ EndsWithCurrent(c.meta)
  BY DEF BuilderLog, EndsWithCurrent, Records
<1>2. ASSUME NEW i \in 1..Len(log), log[i].id \notin DOMAIN c.meta.snapshots
      PROVE  "RemoveSnapshots" \in Types(c)
  BY <1>2, ChangesGrow DEF BuilderLog
<1> QED
  BY <1>1, <1>2 DEF BuilderLog

LEMMA LogGrows ==
    ASSUME NEW b, IsBuilder(b), NEW m, IsSeq(m.log), NEW n, NEW ever, BuilderLog(b, m, n, ever),
           NEW c, NEW u, Records(b, c, u), AddedIds(c) \cap ever = {},
           NEW id \in DOMAIN b.meta.snapshots, c.meta.snapshots = b.meta.snapshots,
           c.meta.log = Append(b.meta.log, [id |-> id, at |-> b.at]), c.meta.current = id
    PROVE  BuilderLog(c, m, n, ever)
<1> DEFINE log == b.meta.log
           e == [id |-> id, at |-> b.at]
           next == c.meta.log
<1>1. Len(log) \in Nat /\ DOMAIN log = 1..Len(log) /\ Len(m.log) \in Nat /\ Len(m.log) <= Len(log)
  BY SeqIs DEF BuilderLog
<1>2. /\ IsSeq(next) /\ Len(next) = Len(log) + 1 /\ next[Len(log) + 1] = e
      /\ \A i \in 1..Len(log) : next[i] = log[i]
  BY AppendIs DEF BuilderLog
<1>3. c.at = n + 1 /\ b.at = n + 1 /\ Types(b) \subseteq Types(c)
  BY ChangesGrow DEF BuilderLog, Records
<1>4. e.id = id /\ e.at = n + 1
  BY <1>3
<1> HIDE DEF e, next
<1>5. EndsWithCurrent(c.meta)
  BY <1>2, <1>4 DEF EndsWithCurrent, next
<1>6. ASSUME NEW i \in 1..Len(next)
      PROVE  /\ i <= Len(m.log) => next[i] = m.log[i]
             /\ ~(i <= Len(m.log)) => next[i].at = n + 1
             /\ next[i].id \notin DOMAIN b.meta.snapshots => "RemoveSnapshots" \in Types(c)
  <2>1. CASE i \in 1..Len(log)
    BY <1>2, <1>3, <2>1 DEF BuilderLog
  <2>2. CASE i = Len(log) + 1
    BY <1>1, <1>2, <1>4, <2>2
  <2> QED
    BY <1>1, <1>2, <2>1, <2>2
<1>7. Len(m.log) <= Len(next)
  BY <1>1, <1>2
<1> QED
  BY <1>2, <1>3, <1>5, <1>6, <1>7 DEF BuilderLog, next

LEMMA StillRebuilds ==
    ASSUME NEW b, b # None, NEW c, NEW u, Records(b, c, u), IsBuilder(b), NEW m, Rebuilds(b, m)
    PROVE  Rebuilds(c, m)
<1>1. c.at = b.at /\ c.changes = Append(b.changes, u) /\ IsSeq(b.changes) /\ Apply(u, b) = c
  BY DEF Records, IsBuilder
<1>2. ApplyAll(c.changes, NewBuilder(m, c.at)) = Then(ApplyAll(b.changes, NewBuilder(m, b.at)), u)
  BY <1>1, ApplyAllOfMore
<1> QED
  BY <1>1, <1>2 DEF Rebuilds, Then

(* The entries of a builder's log of other versions are those it began with. *)
LEMMA BuilderLogFits ==
    ASSUME NEW b, NEW m, NEW ms, IsSeq(ms), PublishedLog(m, ms),
           NEW ever, DOMAIN m.snapshots \subseteq ever, BuilderLog(b, m, Len(ms), ever)
    PROVE  LogFitsBuilder(b, Len(ms))
<1> DEFINE log == b.meta.log
           n == Len(ms)
<1>1. n \in Nat /\ Len(log) \in Nat /\ Len(m.log) \in Nat
  BY SeqIs DEF BuilderLog, PublishedLog
<1>2. Intermediate(b) \subseteq AddedIds(b)
  BY DEF Intermediate
<1>3. ASSUME NEW i \in 1..Len(log)
      PROVE  log[i].at \in Nat /\ (log[i].id \in Intermediate(b) => ~(log[i].at <= n))
  <2>1. CASE i <= Len(m.log)
    <3>1. i \in 1..Len(m.log) /\ log[i] = m.log[i]
      BY <1>1, <2>1 DEF BuilderLog
    <3>2. m.log[i].at \in Nat /\ m.log[i].id \in ever
      BY <3>1 DEF PublishedLog
    <3>3. log[i].id \notin AddedIds(b)
      BY <3>1, <3>2 DEF BuilderLog
    <3> QED
      BY <1>2, <3>1, <3>2, <3>3
  <2>2. CASE ~(i <= Len(m.log))
    BY <1>1, <2>2 DEF BuilderLog
  <2> QED
    BY <2>1, <2>2
<1> QED
  BY <1>3 DEF LogFitsBuilder, BuilderLog

(* A log that has an entry up to a time has a last one. *)
LEMMA LastExists ==
    ASSUME NEW log, NEW n \in Nat, NEW v, NEW i \in 1..n, log[i].at <= v
    PROVE  \E j \in 1..n : LastUpTo(log, n, j, v)
<1> DEFINE B == {k \in 1..n : log[k].at <= v}
<1>1. B \in SUBSET Nat /\ B # {} /\ \A k \in B : k <= n
  OBVIOUS
<1>2. Max(B) \in B /\ \A k \in B : k <= Max(B)
  <2> HIDE DEF B
  <2> QED
    BY <1>1, MaxOfBounded
<1> DEFINE j == Max(B)
<1>3. j \in 1..n /\ log[j].at <= v /\ \A k \in 1..n : log[k].at <= v => k <= j
  BY <1>2
<1> HIDE DEF j
<1> QED
  BY <1>3 DEF LastUpTo

LEMMA NextLogIsRight ==
    ASSUME NEW b, IsBuilder(b), NEW m, NEW ms, IsSeq(ms), PublishedLog(m, ms),
           NEW ever, DOMAIN m.snapshots \subseteq ever, BuilderLog(b, m, Len(ms), ever),
           NEW k, k = Build(b), k # None
    PROVE  PublishedLog(k, Append(ms, k.current))
<1> DEFINE n == Len(ms)
           log == b.meta.log
           new == k.log
           L == Len(k.log)
           next == Append(ms, k.current)
<1>1. n \in Nat /\ IsSeq(log) /\ Len(log) \in Nat /\ Len(m.log) \in Nat /\ Len(m.log) <= Len(log)
  BY SeqIs DEF BuilderLog, PublishedLog
<1>2. /\ new = SnapshotLog(b) /\ k.snapshots = b.meta.snapshots /\ k.current = b.meta.current
      /\ RewritesLog(b) /\ k.current # None => Last(new).id = k.current
  BY BuildIs
<1>3. Remembers(b, n, Len(log), new)
  BY <1>1, <1>2, BuilderLogFits, LogRemembers
<1>4. IsSeq(new) /\ L \in Nat /\ DOMAIN new = 1..L
  BY <1>3, SeqIs DEF Remembers
<1>5. \A i \in 1..L : (\E p \in 1..Len(log) : new[i] = log[p]) /\ new[i].id \in DOMAIN k.snapshots
  <2>1. \A i \in 1..L : new[i] \in Range(new)
    BY <1>4 DEF Range
  <2>2. DOMAIN log = 1..Len(log)
    BY <1>1, SeqIs
  <2> QED
    BY <1>2, <1>3, <2>1, <2>2, ZenonT(60) DEF Remembers, Range
<1>6. /\ \A p \in 1..Len(log) : p <= Len(m.log) => log[p] = m.log[p]
      /\ \A p \in 1..Len(log) : ~(p <= Len(m.log)) => log[p].at = n + 1
      /\ \A p \in 1..Len(m.log) : m.log[p].at \in Nat /\ m.log[p].at <= n
  BY DEF BuilderLog, PublishedLog
<1>7. \A p \in 1..Len(log) : log[p].at \in Nat /\ log[p].at <= n + 1
  <2> SUFFICES ASSUME NEW p \in 1..Len(log)
               PROVE  log[p].at \in Nat /\ log[p].at <= n + 1
    OBVIOUS
  <2>1. CASE p <= Len(m.log)
    <3>1. p \in 1..Len(m.log) /\ log[p] = m.log[p]
      BY <1>1, <1>6, <2>1
    <3> QED
      BY <1>1, <1>6, <3>1
  <2>2. CASE ~(p <= Len(m.log))
    BY <1>1, <1>6, <2>2
  <2> QED
    BY <2>1, <2>2
<1>8. \A i \in 1..L : new[i].at \in Nat /\ new[i].at <= n + 1
  BY <1>5, <1>7
<1>9. EndsWithCurrent(k)
  <2>1. CASE RewritesLog(b)
    BY <1>2, <2>1 DEF EndsWithCurrent, Last
  <2>2. CASE ~RewritesLog(b)
    <3>1. new = log
      BY <1>2, <2>2 DEF SnapshotLog
    <3> QED
      BY <1>2, <3>1 DEF EndsWithCurrent, BuilderLog
  <2> QED
    BY <2>1, <2>2
<1>10. Len(next) = n + 1 /\ next[n + 1] = k.current /\ \A v \in 1..n : next[v] = ms[v]
  BY AppendIs
<1> HIDE DEF next
<1>11. ASSUME NEW j \in 1..L, LastUpTo(new, L, j, n + 1), k.current # None
       PROVE  new[j].id = k.current
  <2>1. L \in 1..L /\ new[L].at <= n + 1
    BY <1>4, <1>8
  <2>2. j = L
    BY <1>4, <1>11, <2>1 DEF LastUpTo
  <2>3. new # << >>
    BY <1>4
  <2> QED
    BY <1>9, <1>11, <2>2, <2>3 DEF EndsWithCurrent
<1>12. ASSUME NEW v \in 1..n, NEW j \in 1..L, LastUpTo(new, L, j, v), ms[v] # None
       PROVE  new[j].id = ms[v]
  <2>1. PICK i \in 1..Len(log) : new[j] = log[i]
    BY <1>5
  <2>2. log[i].at <= v
    BY <1>12, <2>1 DEF LastUpTo
  <2>3. PICK p \in 1..Len(log) : LastUpTo(log, Len(log), p, v)
    BY <1>1, <2>2, LastExists
  <2>4. p \in 1..Len(m.log)
    <3>1. log[p].at <= v /\ ~(n + 1 <= v)
      BY <1>1, <2>3 DEF LastUpTo
    <3>2. p <= Len(m.log)
      BY <1>6, <3>1
    <3> QED
      BY <1>1, <3>2
  <2>5. LastUpTo(m.log, Len(m.log), p, v)
    <3>1. \A q \in 1..Len(m.log) : q \in 1..Len(log) /\ log[q] = m.log[q]
      BY <1>1, <1>6
    <3> QED
      BY <2>3, <2>4, <3>1 DEF LastUpTo
  <2>6. m.log[p].id = ms[v] /\ log[p] = m.log[p]
    BY <1>1, <1>6, <1>12, <2>4, <2>5 DEF PublishedLog
  <2>7. new[j].id = log[p].id
    BY <1>3, <1>12, <2>3 DEF Remembers
  <2> QED
    BY <2>6, <2>7
<1>13. ASSUME NEW v \in 1..Len(next), NEW j \in 1..L, LastUpTo(new, L, j, v), next[v] # None
       PROVE  new[j].id = next[v]
  <2>1. CASE v \in 1..n
    BY <1>10, <1>12, <1>13, <2>1
  <2>2. CASE v = n + 1
    BY <1>10, <1>11, <1>13, <2>2
  <2> QED
    BY <1>1, <1>10, <2>1, <2>2
<1> QED
  BY <1>4, <1>5, <1>8, <1>9, <1>10, <1>13 DEF PublishedLog, next

-----------------------------------------------------------------------------
(* Every call keeps the invariant of the builder. *)

LEMMA RecordKeeps ==
    ASSUME NEW b, b # None, BuilderInv(b), NEW c, NEW u, Records(b, c, u),
           SameLog(b.meta, c.meta), u.type # "AddSnapshot"
    PROVE  BuilderLog(c, published, Len(mains), drawn) /\ Rebuilds(c, published)
<1>1. AddedIds(c) = AddedIds(b)
  BY ChangesGrow DEF BuilderInv
<1>2. BuilderLog(c, published, Len(mains), drawn)
  <2>1. AddedIds(c) \cap drawn = {}
    BY <1>1 DEF BuilderInv, BuilderLog
  <2>2. /\ c.meta.log = b.meta.log /\ c.meta.current \in {b.meta.current, None}
        /\ DOMAIN b.meta.snapshots \subseteq DOMAIN c.meta.snapshots
    BY DEF SameLog
  <2> QED
    BY <2>1, <2>2, LogStays DEF BuilderInv
<1>3. Rebuilds(c, published)
  BY StillRebuilds DEF BuilderInv
<1> QED
  BY <1>2, <1>3

LEMMA SameFieldsFit ==
    ASSUME NEW m, NEW k, SameFields(m, k), k.schema = m.schema,
           NEW F, NEW C, FieldsFit(m, F), ColumnsFit(m, C), HasCurrentSchema(m)
    PROVE  FieldsFit(k, F) /\ ColumnsFit(k, C) /\ HasCurrentSchema(k)
BY DEF SameFields, FieldsFit, ColumnsFit, HasCurrentSchema, AllFields, FieldsOf, ColumnsOf

LEMMA AddSchemaKeeps ==
    ASSUME NEW b, b # None, BuilderInv(b), NEW s \in NextSchemas(b.meta),
           NEW c, c # None, c = Apply([type |-> "AddSchema", schema |-> s], b)
    PROVE  BuilderInv(c)
<1> SUFFICES ASSUME c # b
             PROVE  BuilderInv(c)
  OBVIOUS
<1> DEFINE m == b.meta
           u == [type |-> "AddSchema", schema |-> s]
<1>1. /\ Records(b, c, u) /\ SameLog(m, c.meta) /\ c.meta.schema = m.schema
      /\ c.meta = m \/ \E id : c.meta = AddNewSchema(m, id, s)
  BY AddSchemaIs DEF BuilderInv
<1>2. u.type # "AddSnapshot"
  OBVIOUS
<1> HIDE DEF u
<1>3. IsBuilder(c) /\ BuilderLog(c, published, Len(mains), drawn) /\ Rebuilds(c, published)
  BY <1>1, <1>2, RecordKeeps DEF Records
<1>4. m.lastColumn \in Int /\ DOMAIN Current(m) \subseteq Int
      /\ \A y \in DOMAIN Current(m) : y <= m.lastColumn
  BY DEF BuilderInv, ColumnsFit, ColumnsOf, HasCurrentSchema, Current, Range
<1>5. DOMAIN s \subseteq DOMAIN Current(m) \cup {m.lastColumn + 1}
  BY DEF NextSchemas
<1>6. PICK x \in {m.lastColumn} \cup DOMAIN s : \A y \in {m.lastColumn} \cup DOMAIN s : y <= x
  <2>1. CASE m.lastColumn + 1 \in DOMAIN s
    <3>1. \A y \in {m.lastColumn} \cup DOMAIN s : y <= m.lastColumn + 1
      BY <1>4, <1>5
    <3> QED
      BY <2>1, <3>1
  <2>2. CASE m.lastColumn + 1 \notin DOMAIN s
    BY <1>4, <1>5, <2>2
  <2> QED
    BY <2>1, <2>2
<1>7. ASSUME NEW id, c.meta = AddNewSchema(m, id, s)
      PROVE  /\ FieldsFit(c.meta, fields) /\ ColumnsFit(c.meta, columns)
             /\ HasCurrentSchema(c.meta)
  <2>1. IsMeta(m)
    BY DEF BuilderInv, IsBuilder
  <2>2. DOMAIN s \subseteq Int
    BY <1>4, <1>5
  <2>3. ColumnsFit(c.meta, columns) /\ HasCurrentSchema(c.meta)
    BY <1>6, <1>7, <2>1, <2>2, NewSchemaKeeps DEF BuilderInv
  <2>4. /\ c.meta.specs = m.specs /\ c.meta.spec = m.spec
        /\ c.meta.lastPartition = m.lastPartition
    BY <1>7, <2>1, NewSchemaIs
  <2>5. FieldsFit(c.meta, fields)
    BY <2>4 DEF BuilderInv, FieldsFit, AllFields, FieldsOf
  <2> QED
    BY <2>3, <2>5
<1> QED
  BY <1>1, <1>3, <1>7 DEF BuilderInv

LEMMA SetCurrentSchemaKeeps ==
    ASSUME NEW b, b # None, BuilderInv(b), NEW i,
           NEW c, c # None, c = Apply([type |-> "SetCurrentSchema", id |-> i], b)
    PROVE  BuilderInv(c)
<1> SUFFICES ASSUME c # b
             PROVE  BuilderInv(c)
  OBVIOUS
<1> DEFINE m == b.meta
           u(j) == [type |-> "SetCurrentSchema", id |-> j]
<1>1. /\ \E j : Records(b, c, u(j))
      /\ SameLog(m, c.meta) /\ SameFields(m, c.meta) /\ c.meta.schema \in DOMAIN m.schemas
  BY SetCurrentSchemaIs DEF BuilderInv
<1>2. PICK j : Records(b, c, u(j))
  BY <1>1
<1>3. u(j).type # "AddSnapshot"
  OBVIOUS
<1> HIDE DEF u
<1>4. IsBuilder(c) /\ BuilderLog(c, published, Len(mains), drawn) /\ Rebuilds(c, published)
  BY <1>1, <1>2, <1>3, RecordKeeps DEF Records
<1>5. FieldsFit(c.meta, fields) /\ ColumnsFit(c.meta, columns) /\ HasCurrentSchema(c.meta)
  BY <1>1 DEF BuilderInv, SameFields, FieldsFit, ColumnsFit, HasCurrentSchema, AllFields,
              FieldsOf, ColumnsOf
<1> QED
  BY <1>4, <1>5 DEF BuilderInv

LEMMA RemoveSchemasKeeps ==
    ASSUME NEW b, b # None, BuilderInv(b), NEW ids \in SUBSET DOMAIN b.meta.schemas,
           NEW c, c # None, c = Apply([type |-> "RemoveSchemas", ids |-> ids], b)
    PROVE  BuilderInv(c)
<1> SUFFICES ASSUME c # b
             PROVE  BuilderInv(c)
  OBVIOUS
<1> DEFINE m == b.meta
           u == [type |-> "RemoveSchemas", ids |-> ids]
           kept == DOMAIN m.schemas \ ids
<1>1. /\ Records(b, c, u) /\ SameLog(m, c.meta)
      /\ c.meta.schema = m.schema /\ m.schema \notin ids
      /\ c.meta.schemas = Restrict(m.schemas, kept)
      /\ c.meta.specs = m.specs /\ c.meta.spec = m.spec
      /\ c.meta.lastPartition = m.lastPartition /\ c.meta.lastColumn = m.lastColumn
  <2>1. IsBuilder(b)
    BY DEF BuilderInv
  <2> QED
    BY <2>1, RemoveSchemasIs
<1>2. u.type # "AddSnapshot"
  OBVIOUS
<1> HIDE DEF u
<1>3. IsBuilder(c) /\ BuilderLog(c, published, Len(mains), drawn) /\ Rebuilds(c, published)
  BY <1>1, <1>2, RecordKeeps DEF Records
<1>4. DOMAIN c.meta.schemas = kept /\ Range(c.meta.schemas) \subseteq Range(m.schemas)
  BY <1>1, RestrictIs
<1>5. FieldsFit(c.meta, fields)
  BY <1>1 DEF BuilderInv, FieldsFit, AllFields, FieldsOf
<1>6. ColumnsFit(c.meta, columns)
  BY <1>1, <1>4, ColumnsFitLess DEF BuilderInv
<1>7. HasCurrentSchema(c.meta)
  BY <1>1, <1>4 DEF BuilderInv, HasCurrentSchema
<1> QED
  BY <1>3, <1>5, <1>6, <1>7 DEF BuilderInv

(* A spec of the table, or one it had, comes with its ids; a new one with   *)
(* none but those lent.                                                      *)
LEMMA AskedFor ==
    ASSUME VersionInv, NEW b, BuilderInv(b),
           NEW fs \in Specs \cup Range(b.meta.specs) \cup {<<f>> : f \in fields},
           NEW asked \in WithLentIds(b.meta, fs)
    PROVE  /\ Settled(b.meta, asked)
           /\ \A f \in Range(asked) : Asked(f, AllFields(b.meta, fields))
<1> DEFINE m == b.meta
           All == AllFields(m, fields)
<1>1. Known(All, m.lastPartition) /\ None \notin Nat
  BY SpecsAssumption DEF BuilderInv, FieldsFit
<1>2. /\ FieldsOf(m) \subseteq All /\ fields \subseteq All
      /\ \A f \in All : IsField(f) /\ f.id \in Nat
  BY <1>1 DEF AllFields, Known
<1>3. \A f, g : SameColumn(f, f) /\ (SameColumn(f, g) => SameColumn(g, f))
  BY DEF SameColumn
<1> HIDE DEF All, m
<1>4. IsSeq(fs) /\ \A f \in Range(fs) : IsField(f) /\ (f.id = None \/ f \in All)
  <2>1. CASE fs \in Specs
    BY <2>1, SpecsAssumption DEF IsSeq, IsField, Identified, UnboundField
  <2>2. CASE fs \in Range(m.specs)
    <3>1. Range(fs) \subseteq FieldsOf(m)
      BY <2>2 DEF FieldsOf
    <3> QED
      BY <1>2, <2>2, <3>1 DEF BuilderInv, FieldsFit, m
  <2>3. CASE fs \in {<<f>> : f \in fields}
    <3>1. PICK f \in fields : fs = <<f>>
      BY <2>3
    <3>2. Range(fs) = {f}
      BY <3>1 DEF Range
    <3>3. IsSeq(fs)
      BY <3>1, <3>2 DEF IsSeq
    <3> QED
      BY <1>2, <3>2, <3>3
  <2> QED
    BY <2>1, <2>2, <2>3 DEF m
<1>5. /\ Settled(m, asked) /\ DOMAIN asked = DOMAIN fs
      /\ \A i \in DOMAIN fs : /\ asked[i] = Identified(fs[i], asked[i].id)
                              /\ \/ asked[i].id = fs[i].id
                                 \/ asked[i].id \in LentIds(m, fs[i])
  <2>1. \A g \in FieldsOf(m) : g.id # None
    BY <1>1, <1>2
  <2>2. IsSeq(fs) /\ asked \in WithLentIds(m, fs) /\ \A f \in Range(fs) : IsField(f)
    BY <1>4 DEF m
  <2> QED
    BY <2>1, <2>2, LentIs
<1>6. ASSUME NEW i \in DOMAIN fs
      PROVE  Asked(asked[i], All)
  <2>1. fs[i] \in Range(fs) /\ IsField(fs[i]) /\ (fs[i].id = None \/ fs[i] \in All)
    BY <1>4 DEF Range
  <2>2. IsField(asked[i]) /\ SameColumn(fs[i], asked[i])
    <3>1. \A f, id : IsField(Identified(f, id)) /\ SameColumn(f, Identified(f, id))
      BY DEF Identified, IsField, SameColumn
    <3> QED
      BY <1>5, <3>1
  <2>3. CASE asked[i].id \in LentIds(m, fs[i])
    <3>1. PICK g \in FieldsOf(m) : SameColumn(fs[i], g) /\ g.id = asked[i].id
      BY <2>3 DEF LentIds, FieldsOf
    <3>2. SameColumn(g, asked[i])
      BY <2>2, <3>1 DEF SameColumn
    <3> QED
      BY <1>2, <2>2, <3>1, <3>2 DEF Asked
  <2>4. CASE asked[i].id = fs[i].id
    BY <2>1, <2>2, <2>4 DEF Asked
  <2> QED
    BY <1>5, <2>3, <2>4
<1>7. \A f \in Range(asked) : \E i \in DOMAIN fs : f = asked[i]
  BY <1>5 DEF Range
<1> QED
  BY <1>5, <1>6, <1>7 DEF All, m

LEMMA AddSpecKeeps ==
    ASSUME NEW b, b # None, BuilderInv(b), NEW fs, Settled(b.meta, fs),
           \A f \in Range(fs) : Asked(f, AllFields(b.meta, fields)),
           NEW c, c # None, c = Apply([type |-> "AddSpec", fields |-> fs], b)
    PROVE  BuilderInv(c)
<1> SUFFICES ASSUME c # b
             PROVE  BuilderInv(c)
  OBVIOUS
<1> DEFINE m == b.meta
           u == [type |-> "AddSpec", fields |-> fs]
<1>1. /\ Records(b, c, u) /\ SameLog(m, c.meta) /\ c.meta.schema = m.schema
      /\ c.meta.schemas = m.schemas /\ c.meta.lastColumn = m.lastColumn
      /\ \/ c.meta = m
         \/ \E id : c.meta = NewSpec(m, id, SetFieldIds(fs, m.lastPartition))
  BY AddSpecIs DEF BuilderInv
<1>2. u.type # "AddSnapshot"
  OBVIOUS
<1> HIDE DEF u
<1>3. IsBuilder(c) /\ BuilderLog(c, published, Len(mains), drawn) /\ Rebuilds(c, published)
  BY <1>1, <1>2, RecordKeeps DEF Records
<1>4. ASSUME NEW id, c.meta = NewSpec(m, id, SetFieldIds(fs, m.lastPartition))
      PROVE  FieldsFit(c.meta, fields)
  <2>1. IsMeta(m) /\ FieldsFit(m, fields) /\ IsSeq(fs)
    BY DEF BuilderInv, IsBuilder, Settled
  <2> QED
    BY <1>4, <2>1, NewSpecKeeps
<1>5. ColumnsFit(c.meta, columns) /\ HasCurrentSchema(c.meta)
  BY <1>1 DEF BuilderInv, ColumnsFit, HasCurrentSchema, ColumnsOf
<1>6. FieldsFit(c.meta, fields)
  BY <1>1, <1>4 DEF BuilderInv
<1> QED
  BY <1>3, <1>5, <1>6 DEF BuilderInv

LEMMA SetDefaultSpecKeeps ==
    ASSUME NEW b, b # None, BuilderInv(b), NEW i,
           NEW c, c # None, c = Apply([type |-> "SetDefaultSpec", id |-> i], b)
    PROVE  BuilderInv(c)
<1> SUFFICES ASSUME c # b
             PROVE  BuilderInv(c)
  OBVIOUS
<1> DEFINE m == b.meta
           u(j) == [type |-> "SetDefaultSpec", id |-> j]
<1>1. /\ \E j : Records(b, c, u(j))
      /\ SameLog(m, c.meta)
      /\ \E id \in DOMAIN m.specs : c.meta.spec = [id |-> id, fields |-> m.specs[id]]
      /\ c.meta.specs = m.specs /\ c.meta.lastPartition = m.lastPartition
      /\ c.meta.schemas = m.schemas /\ c.meta.lastColumn = m.lastColumn
      /\ c.meta.schema = m.schema
  <2>1. IsBuilder(b)
    BY DEF BuilderInv
  <2>2. \E id \in DOMAIN m.specs : c.meta.spec = [id |-> id, fields |-> m.specs[id]]
    BY <2>1, SetDefaultSpecIs
  <2>3. (\E j : Records(b, c, u(j))) /\ SameLog(m, c.meta)
    BY <2>1, SetDefaultSpecIs
  <2>4. /\ c.meta.specs = m.specs /\ c.meta.lastPartition = m.lastPartition
        /\ c.meta.schemas = m.schemas /\ c.meta.lastColumn = m.lastColumn
        /\ c.meta.schema = m.schema
    BY <2>1, SetDefaultSpecIs
  <2> QED
    BY <2>2, <2>3, <2>4
<1>2. PICK j : Records(b, c, u(j))
  BY <1>1
<1>3. u(j).type # "AddSnapshot"
  OBVIOUS
<1> HIDE DEF u
<1>4. IsBuilder(c) /\ BuilderLog(c, published, Len(mains), drawn) /\ Rebuilds(c, published)
  BY <1>1, <1>2, <1>3, RecordKeeps DEF Records
<1>5. c.meta.spec.fields \in Range(m.specs)
  BY <1>1 DEF Range
<1>6. FieldsFit(c.meta, fields)
  BY <1>1, <1>5, FieldsFitLess DEF BuilderInv
<1>7. ColumnsFit(c.meta, columns) /\ HasCurrentSchema(c.meta)
  BY <1>1 DEF BuilderInv, ColumnsFit, HasCurrentSchema, ColumnsOf
<1> QED
  BY <1>4, <1>6, <1>7 DEF BuilderInv

LEMMA RemoveSpecsKeeps ==
    ASSUME NEW b, b # None, BuilderInv(b), NEW ids \in SUBSET DOMAIN b.meta.specs,
           NEW c, c # None, c = Apply([type |-> "RemovePartitionSpecs", ids |-> ids], b)
    PROVE  BuilderInv(c)
<1> SUFFICES ASSUME c # b
             PROVE  BuilderInv(c)
  OBVIOUS
<1> DEFINE m == b.meta
           u == [type |-> "RemovePartitionSpecs", ids |-> ids]
           kept == DOMAIN m.specs \ ids
<1>1. /\ Records(b, c, u) /\ SameLog(m, c.meta)
      /\ c.meta.specs = Restrict(m.specs, kept)
      /\ c.meta.spec = m.spec /\ c.meta.lastPartition = m.lastPartition
      /\ c.meta.schemas = m.schemas /\ c.meta.lastColumn = m.lastColumn
      /\ c.meta.schema = m.schema
  BY RemoveSpecsIs DEF BuilderInv
<1>2. u.type # "AddSnapshot"
  OBVIOUS
<1> HIDE DEF u
<1>3. IsBuilder(c) /\ BuilderLog(c, published, Len(mains), drawn) /\ Rebuilds(c, published)
  BY <1>1, <1>2, RecordKeeps DEF Records
<1>4. Range(c.meta.specs) \subseteq Range(m.specs)
  BY <1>1, RestrictIs
<1>5. FieldsFit(c.meta, fields)
  BY <1>1, <1>4, FieldsFitLess DEF BuilderInv
<1>6. ColumnsFit(c.meta, columns) /\ HasCurrentSchema(c.meta)
  BY <1>1 DEF BuilderInv, ColumnsFit, HasCurrentSchema, ColumnsOf
<1> QED
  BY <1>3, <1>5, <1>6 DEF BuilderInv

LEMMA OrdersAndFormatKeep ==
    ASSUME NEW b, b # None, BuilderInv(b), NEW c, NEW u, Records(b, c, u),
           SameLog(b.meta, c.meta), SameFields(b.meta, c.meta), c.meta.schema = b.meta.schema,
           u.type # "AddSnapshot"
    PROVE  BuilderInv(c)
<1>1. IsBuilder(c) /\ BuilderLog(c, published, Len(mains), drawn) /\ Rebuilds(c, published)
  BY RecordKeeps DEF Records
<1>2. FieldsFit(c.meta, fields) /\ ColumnsFit(c.meta, columns) /\ HasCurrentSchema(c.meta)
  BY SameFieldsFit DEF BuilderInv
<1> QED
  BY <1>1, <1>2 DEF BuilderInv

LEMMA AddSortOrderKeeps ==
    ASSUME NEW b, b # None, BuilderInv(b), NEW order,
           NEW c, c # None, c = Apply([type |-> "AddSortOrder", order |-> order], b)
    PROVE  BuilderInv(c)
<1> SUFFICES ASSUME c # b
             PROVE  BuilderInv(c)
  OBVIOUS
<1> DEFINE u == [type |-> "AddSortOrder", order |-> order]
<1>1. IsBuilder(b) /\ u.type # "AddSnapshot"
  BY DEF BuilderInv
<1>2. /\ Records(b, c, u) /\ SameLog(b.meta, c.meta) /\ SameFields(b.meta, c.meta)
      /\ c.meta.schema = b.meta.schema
  BY <1>1, AddSortOrderIs
<1> HIDE DEF u
<1> QED
  BY <1>1, <1>2, OrdersAndFormatKeep

LEMMA SetDefaultSortOrderKeeps ==
    ASSUME NEW b, b # None, BuilderInv(b), NEW i,
           NEW c, c # None, c = Apply([type |-> "SetDefaultSortOrder", id |-> i], b)
    PROVE  BuilderInv(c)
<1> SUFFICES ASSUME c # b
             PROVE  BuilderInv(c)
  OBVIOUS
<1> DEFINE u(j) == [type |-> "SetDefaultSortOrder", id |-> j]
<1>1. IsBuilder(b) /\ \A j : u(j).type # "AddSnapshot"
  BY DEF BuilderInv
<1>2. /\ \E j : Records(b, c, u(j))
      /\ SameLog(b.meta, c.meta) /\ SameFields(b.meta, c.meta)
      /\ c.meta.schema = b.meta.schema
  BY <1>1, SetDefaultSortOrderIs
<1> HIDE DEF u
<1>3. PICK j : Records(b, c, u(j))
  BY <1>2
<1> QED
  BY <1>1, <1>2, <1>3, OrdersAndFormatKeep

LEMMA UpgradeKeeps ==
    ASSUME NEW b, b # None, BuilderInv(b), NEW f,
           NEW c, c # None, c = Apply([type |-> "UpgradeFormatVersion", format |-> f], b)
    PROVE  BuilderInv(c)
<1> SUFFICES ASSUME c # b
             PROVE  BuilderInv(c)
  OBVIOUS
<1> DEFINE u == [type |-> "UpgradeFormatVersion", format |-> f]
<1>1. IsBuilder(b) /\ u.type # "AddSnapshot"
  BY DEF BuilderInv
<1>2. /\ Records(b, c, u) /\ SameLog(b.meta, c.meta) /\ SameFields(b.meta, c.meta)
      /\ c.meta.schema = b.meta.schema
  BY <1>1, UpgradeIs
<1> HIDE DEF u
<1> QED
  BY <1>1, <1>2, OrdersAndFormatKeep

(* The id of a new snapshot was never drawn before. *)
LEMMA AddSnapshotKeeps ==
    ASSUME NEW b, b # None, BuilderInv(b), NEW id, id \notin drawn, NEW parent, NEW seq,
           NEW c, c # None,
           c = Apply([type |-> "AddSnapshot", id |-> id, parent |-> parent, seq |-> seq], b)
    PROVE  BuilderInv(c)
<1> SUFFICES ASSUME c # b
             PROVE  BuilderInv(c)
  OBVIOUS
<1> DEFINE u == [type |-> "AddSnapshot", id |-> id, parent |-> parent, seq |-> seq]
<1>1. IsBuilder(b) /\ u.type = "AddSnapshot" /\ u.id = id
  BY DEF BuilderInv
<1>2. /\ Records(b, c, u) /\ SameFields(b.meta, c.meta) /\ c.meta.schema = b.meta.schema
      /\ c.meta.snapshots = With(b.meta.snapshots, id, seq)
      /\ c.meta.log = b.meta.log /\ c.meta.current = b.meta.current
  BY <1>1, AddSnapshotIs
<1> HIDE DEF u
<1>3. AddedIds(c) \cap drawn = {}
  BY <1>1, <1>2, ChangesGrow DEF BuilderInv, BuilderLog
<1>4. DOMAIN b.meta.snapshots \subseteq DOMAIN c.meta.snapshots
  BY <1>2 DEF With
<1>5. BuilderLog(c, published, Len(mains), drawn)
  BY <1>2, <1>3, <1>4, LogStays DEF BuilderInv
<1>6. Rebuilds(c, published)
  BY <1>2, StillRebuilds DEF BuilderInv
<1>7. FieldsFit(c.meta, fields) /\ ColumnsFit(c.meta, columns) /\ HasCurrentSchema(c.meta)
  BY <1>2, SameFieldsFit DEF BuilderInv
<1> QED
  BY <1>2, <1>5, <1>6, <1>7 DEF BuilderInv, Records

LEMMA RemoveSnapshotsKeeps ==
    ASSUME NEW b, b # None, BuilderInv(b), NEW ids \in SUBSET DOMAIN b.meta.snapshots,
           NEW c, c # None, c = Apply([type |-> "RemoveSnapshots", ids |-> ids], b)
    PROVE  BuilderInv(c)
<1> SUFFICES ASSUME c # b
             PROVE  BuilderInv(c)
  OBVIOUS
<1> DEFINE u == [type |-> "RemoveSnapshots", ids |-> ids]
<1>1. IsBuilder(b) /\ u.type = "RemoveSnapshots"
  BY DEF BuilderInv
<1>2. /\ Records(b, c, u) /\ SameFields(b.meta, c.meta) /\ c.meta.schema = b.meta.schema
      /\ c.meta.log = b.meta.log /\ c.meta.current = b.meta.current
  BY <1>1, RemoveSnapshotsIs
<1> HIDE DEF u
<1>3. AddedIds(c) \cap drawn = {}
  BY <1>1, <1>2, ChangesGrow DEF BuilderInv, BuilderLog
<1>4. BuilderLog(c, published, Len(mains), drawn)
  BY <1>1, <1>2, <1>3, LogStays DEF BuilderInv
<1>5. Rebuilds(c, published)
  BY <1>2, StillRebuilds DEF BuilderInv
<1>6. FieldsFit(c.meta, fields) /\ ColumnsFit(c.meta, columns) /\ HasCurrentSchema(c.meta)
  BY <1>2, SameFieldsFit DEF BuilderInv
<1> QED
  BY <1>2, <1>4, <1>5, <1>6 DEF BuilderInv, Records

LEMMA SetRefKeeps ==
    ASSUME VersionInv, NEW b, b # None, BuilderInv(b), NEW ref, NEW id,
           NEW c, c # None, c = Apply([type |-> "SetSnapshotRef", ref |-> ref, id |-> id], b)
    PROVE  BuilderInv(c)
<1> SUFFICES ASSUME c # b
             PROVE  BuilderInv(c)
  OBVIOUS
<1> DEFINE u == [type |-> "SetSnapshotRef", ref |-> ref, id |-> id]
           e == [id |-> id, at |-> b.at]
<1>1. IsBuilder(b) /\ u.type = "SetSnapshotRef"
  BY DEF BuilderInv
<1>2. /\ Records(b, c, u) /\ SameFields(b.meta, c.meta) /\ c.meta.schema = b.meta.schema
      /\ c.meta.snapshots = b.meta.snapshots /\ id \in DOMAIN b.meta.snapshots
      /\ \/ c.meta.log = b.meta.log /\ c.meta.current = b.meta.current
         \/ c.meta.log = Append(b.meta.log, e) /\ c.meta.current = id
  BY <1>1, SetRefIs
<1> HIDE DEF u
<1>3. AddedIds(c) \cap drawn = {}
  BY <1>1, <1>2, ChangesGrow DEF BuilderInv, BuilderLog
<1>4. BuilderLog(c, published, Len(mains), drawn)
  <2>1. BuilderLog(b, published, Len(mains), drawn) /\ IsSeq(published.log)
    BY DEF BuilderInv, VersionInv, PublishedLog
  <2>2. CASE c.meta.log = b.meta.log /\ c.meta.current = b.meta.current
    BY <1>1, <1>2, <1>3, <2>1, <2>2, LogStays
  <2>3. CASE c.meta.log = Append(b.meta.log, e) /\ c.meta.current = id
    BY <1>1, <1>2, <1>3, <2>1, <2>3, LogGrows
  <2> QED
    BY <1>2, <2>2, <2>3
<1>5. Rebuilds(c, published)
  BY <1>2, StillRebuilds DEF BuilderInv
<1>6. FieldsFit(c.meta, fields) /\ ColumnsFit(c.meta, columns) /\ HasCurrentSchema(c.meta)
  BY <1>2, SameFieldsFit DEF BuilderInv
<1> QED
  BY <1>2, <1>4, <1>5, <1>6 DEF BuilderInv, Records

LEMMA RemoveRefKeeps ==
    ASSUME NEW b, b # None, BuilderInv(b), NEW ref,
           NEW c, c # None, c = Apply([type |-> "RemoveSnapshotRef", ref |-> ref], b)
    PROVE  BuilderInv(c)
<1> SUFFICES ASSUME c # b
             PROVE  BuilderInv(c)
  OBVIOUS
<1> DEFINE u == [type |-> "RemoveSnapshotRef", ref |-> ref]
<1>1. IsBuilder(b) /\ u.type = "RemoveSnapshotRef"
  BY DEF BuilderInv
<1>2. /\ Records(b, c, u) /\ SameFields(b.meta, c.meta) /\ c.meta.schema = b.meta.schema
      /\ c.meta.snapshots = b.meta.snapshots /\ c.meta.log = b.meta.log
      /\ c.meta.current \in {b.meta.current, None}
  BY <1>1, RemoveRefIs
<1> HIDE DEF u
<1>3. AddedIds(c) \cap drawn = {}
  BY <1>1, <1>2, ChangesGrow DEF BuilderInv, BuilderLog
<1>4. BuilderLog(c, published, Len(mains), drawn)
  BY <1>1, <1>2, <1>3, LogStays DEF BuilderInv
<1>5. Rebuilds(c, published)
  BY <1>2, StillRebuilds DEF BuilderInv
<1>6. FieldsFit(c.meta, fields) /\ ColumnsFit(c.meta, columns) /\ HasCurrentSchema(c.meta)
  BY <1>2, SameFieldsFit DEF BuilderInv
<1> QED
  BY <1>2, <1>4, <1>5, <1>6 DEF BuilderInv, Records

(* One step per call. *)
LEMMA EvolveKeeps ==
    ASSUME VersionInv, builder # None, BuilderInv(builder), Evolve, builder' # None
    PROVE  /\ BuilderInv(builder')
           /\ UNCHANGED <<session, published, mains, columns, fields, drawn>>
<1> DEFINE m == builder.meta
           Same == UNCHANGED <<session, published, mains, columns, fields, drawn>>
<1>1. CASE CallAddSchema
  <2>1. PICK s \in NextSchemas(m) : Call([type |-> "AddSchema", schema |-> s])
    BY <1>1 DEF CallAddSchema
  <2>2. builder' = Apply([type |-> "AddSchema", schema |-> s], builder) /\ Same
    BY <2>1 DEF Call
  <2> QED
    BY <2>2, AddSchemaKeeps
<1>2. CASE CallSetCurrentSchema
  <2>1. PICK id : builder' = Apply([type |-> "SetCurrentSchema", id |-> id], builder) /\ Same
    BY <1>2 DEF CallSetCurrentSchema, Call
  <2> QED
    BY <2>1, SetCurrentSchemaKeeps
<1>3. CASE CallRemoveSchemas
  <2>1. PICK id \in DOMAIN m.schemas :
            builder' = Apply([type |-> "RemoveSchemas", ids |-> {id}], builder) /\ Same
    BY <1>3 DEF CallRemoveSchemas, Call
  <2>2. {id} \in SUBSET DOMAIN m.schemas
    OBVIOUS
  <2> QED
    BY <2>1, <2>2, RemoveSchemasKeeps
<1>4. CASE CallAddSpec
  <2>1. PICK fs \in Specs \cup Range(m.specs) \cup {<<f>> : f \in fields} :
            \E asked \in WithLentIds(m, fs) : Call([type |-> "AddSpec", fields |-> asked])
    BY <1>4 DEF CallAddSpec
  <2>2. PICK asked \in WithLentIds(m, fs) :
            builder' = Apply([type |-> "AddSpec", fields |-> asked], builder) /\ Same
    BY <2>1 DEF Call
  <2>3. Settled(m, asked) /\ \A f \in Range(asked) : Asked(f, AllFields(m, fields))
    BY AskedFor
  <2> QED
    BY <2>2, <2>3, AddSpecKeeps
<1>5. CASE CallSetDefaultSpec
  <2>1. PICK id : builder' = Apply([type |-> "SetDefaultSpec", id |-> id], builder) /\ Same
    BY <1>5 DEF CallSetDefaultSpec, Call
  <2> QED
    BY <2>1, SetDefaultSpecKeeps
<1>6. CASE CallRemovePartitionSpecs
  <2>1. PICK id \in DOMAIN m.specs :
            builder' = Apply([type |-> "RemovePartitionSpecs", ids |-> {id}], builder) /\ Same
    BY <1>6 DEF CallRemovePartitionSpecs, Call
  <2>2. {id} \in SUBSET DOMAIN m.specs
    OBVIOUS
  <2> QED
    BY <2>1, <2>2, RemoveSpecsKeeps
<1>7. CASE CallAddSortOrder
  <2>1. PICK order : builder' = Apply([type |-> "AddSortOrder", order |-> order], builder) /\ Same
    BY <1>7 DEF CallAddSortOrder, Call
  <2> QED
    BY <2>1, AddSortOrderKeeps
<1>8. CASE CallSetDefaultSortOrder
  <2>1. PICK id : builder' = Apply([type |-> "SetDefaultSortOrder", id |-> id], builder) /\ Same
    BY <1>8 DEF CallSetDefaultSortOrder, Call
  <2> QED
    BY <2>1, SetDefaultSortOrderKeeps
<1>9. CASE CallUpgradeFormatVersion
  <2>1. PICK f : builder' = Apply([type |-> "UpgradeFormatVersion", format |-> f], builder) /\ Same
    BY <1>9 DEF CallUpgradeFormatVersion, Call
  <2> QED
    BY <2>1, UpgradeKeeps
<1>10. CASE CallAddSnapshot
  <2>1. PICK id \in SnapshotIds \ (drawn \cup AddedIds(builder)) : \E parent, seq :
            /\ builder' = Apply([type |-> "AddSnapshot", id |-> id, parent |-> parent,
                                 seq |-> seq], builder)
            /\ Same
    BY <1>10 DEF CallAddSnapshot, Call
  <2> QED
    BY <2>1, AddSnapshotKeeps
<1>11. CASE CallRemoveSnapshots
  <2>1. PICK ids \in SUBSET DOMAIN m.snapshots :
            builder' = Apply([type |-> "RemoveSnapshots", ids |-> ids], builder) /\ Same
    BY <1>11 DEF CallRemoveSnapshots, Call
  <2> QED
    BY <2>1, RemoveSnapshotsKeeps
<1>12. CASE CallSetRef
  <2>1. PICK ref, id :
            builder' = Apply([type |-> "SetSnapshotRef", ref |-> ref, id |-> id], builder) /\ Same
    BY <1>12 DEF CallSetRef, Call
  <2> QED
    BY <2>1, SetRefKeeps
<1>13. CASE CallRemoveRef
  <2>1. PICK ref :
            builder' = Apply([type |-> "RemoveSnapshotRef", ref |-> ref], builder) /\ Same
    BY <1>13 DEF CallRemoveRef, Call
  <2> QED
    BY <2>1, RemoveRefKeeps
<1> QED
  BY <1>1, <1>2, <1>3, <1>4, <1>5, <1>6, <1>7, <1>8, <1>9, <1>10, <1>11, <1>12, <1>13 DEF Evolve

-----------------------------------------------------------------------------
(* A new table. *)

(* What is so of the builder of a new table from one call to the next. *)
Blank(b) ==
    /\ IsBuilder(b) /\ b.meta.log = << >> /\ b.meta.current = None
    /\ b.meta.snapshots = << >>
    /\ FieldsFit(b.meta, {}) /\ ColumnsFit(b.meta, {})

LEMMA SchemaOfNewTable ==
    ASSUME NEW b, Blank(b), NEW s, DOMAIN s = {1}, b.meta.lastColumn = -1,
           b.meta.specs = << >>,
           NEW c, c # None, c = Apply([type |-> "AddSchema", schema |-> s], b)
    PROVE  Blank(c) /\ c.lastSchema \in DOMAIN c.meta.schemas /\ c.meta.specs = << >>
<1>1. c.lastSchema \in DOMAIN c.meta.schemas
  BY LastSchemaIsThere DEF Blank
<1>2. CASE c # b
  <2> DEFINE m == b.meta
  <2>1. /\ IsBuilder(c) /\ SameLog(m, c.meta)
        /\ c.meta = m \/ \E id : c.meta = AddNewSchema(m, id, s)
    BY <1>2, AddSchemaIs DEF Blank, Records
  <2>2. CASE c.meta = m
    BY <1>1, <2>1, <2>2 DEF Blank
  <2>3. ASSUME NEW id, c.meta = AddNewSchema(m, id, s)
        PROVE  FieldsFit(c.meta, {}) /\ ColumnsFit(c.meta, {}) /\ c.meta.specs = << >>
    <3>1. IsMeta(m)
      BY DEF Blank, IsBuilder
    <3>2. ColumnsFit(c.meta, {})
      <4>1. \A y \in {m.lastColumn} \cup DOMAIN s : y <= 1
        OBVIOUS
      <4>2. ColumnsFit(m, {}) /\ DOMAIN s \subseteq Int /\ 1 \in {m.lastColumn} \cup DOMAIN s
        BY DEF Blank
      <4> QED
        BY <2>3, <3>1, <4>1, <4>2, NewSchemaKeeps
    <3>3. /\ c.meta.specs = m.specs /\ c.meta.spec = m.spec
          /\ c.meta.lastPartition = m.lastPartition
      BY <2>3, <3>1, NewSchemaIs
    <3>4. FieldsFit(c.meta, {})
      BY <3>3 DEF Blank, FieldsFit, AllFields, FieldsOf
    <3> QED
      BY <3>2, <3>3, <3>4
  <2> QED
    BY <1>1, <2>1, <2>2, <2>3 DEF Blank, SameLog
<1> QED
  BY <1>1, <1>2

LEMMA CurrentSchemaOfNewTable ==
    ASSUME NEW b, Blank(b), b.lastSchema \in DOMAIN b.meta.schemas,
           b.meta.specs = << >>,
           NEW c, c # None, c = Apply([type |-> "SetCurrentSchema", id |-> LastAdded], b)
    PROVE  Blank(c) /\ HasCurrentSchema(c.meta) /\ c.meta.specs = << >>
<1>1. HasCurrentSchema(c.meta)
  BY LastSchemaBecomesCurrent DEF Blank, HasCurrentSchema
<1>2. CASE c # b
  <2>1. /\ \E j : Records(b, c, [type |-> "SetCurrentSchema", id |-> j])
        /\ SameLog(b.meta, c.meta) /\ SameFields(b.meta, c.meta)
    BY <1>2, SetCurrentSchemaIs DEF Blank
  <2>2. IsBuilder(c)
    BY <2>1 DEF Records
  <2>3. FieldsFit(c.meta, {}) /\ ColumnsFit(c.meta, {})
    BY <2>1 DEF Blank, SameFields, FieldsFit, ColumnsFit, AllFields, FieldsOf, ColumnsOf
  <2> QED
    BY <1>1, <2>1, <2>2, <2>3 DEF Blank, SameLog, SameFields
<1> QED
  BY <1>1, <1>2

(* Its spec and order are added and set in the same way. *)
LEMMA SpecOfNewTable ==
    ASSUME NEW b, Blank(b), HasCurrentSchema(b.meta), b.meta.specs = << >>, NEW fs \in Specs,
           NEW c, c # None, c = Apply([type |-> "AddSpec", fields |-> fs], b)
    PROVE  Blank(c) /\ HasCurrentSchema(c.meta)
<1> SUFFICES ASSUME c # b
             PROVE  Blank(c) /\ HasCurrentSchema(c.meta)
  OBVIOUS
<1> DEFINE m == b.meta
           u == [type |-> "AddSpec", fields |-> fs]
<1>1. IsSeq(fs) /\ \A f \in Range(fs) : IsField(f) /\ f.id = None
  BY SpecsAssumption DEF IsSeq, IsField, Identified, UnboundField
<1>2. \A f : LentIds(m, f) = {}
  <2>1. Range(m.specs) = {}
    BY DEF Range
  <2> QED
    BY <2>1 DEF LentIds
<1>3. Settled(m, fs) /\ IsBuilder(b)
  BY <1>1, <1>2 DEF Settled, Blank
<1>4. /\ Records(b, c, u) /\ SameLog(m, c.meta) /\ c.meta.schema = m.schema
      /\ c.meta.schemas = m.schemas /\ c.meta.lastColumn = m.lastColumn
      /\ \/ c.meta = m
         \/ \E id : c.meta = NewSpec(m, id, SetFieldIds(fs, m.lastPartition))
  BY <1>3, AddSpecIs
<1> HIDE DEF u
<1>5. ASSUME NEW id, c.meta = NewSpec(m, id, SetFieldIds(fs, m.lastPartition))
      PROVE  FieldsFit(c.meta, {})
  <2>1. IsMeta(m) /\ FieldsFit(m, {})
    BY DEF Blank, IsBuilder
  <2>2. \A f \in Range(fs) : Asked(f, AllFields(m, {}))
    BY <1>1 DEF Asked
  <2> QED
    BY <1>1, <1>5, <2>1, <2>2, NewSpecKeeps
<1>6. ColumnsFit(c.meta, {}) /\ HasCurrentSchema(c.meta)
  BY <1>4 DEF Blank, ColumnsFit, HasCurrentSchema, ColumnsOf
<1> QED
  BY <1>4, <1>5, <1>6 DEF Blank, SameLog, Records

LEMMA DefaultSpecOfNewTable ==
    ASSUME NEW b, Blank(b), HasCurrentSchema(b.meta), NEW i,
           NEW c, c # None, c = Apply([type |-> "SetDefaultSpec", id |-> i], b)
    PROVE  Blank(c) /\ HasCurrentSchema(c.meta)
<1> SUFFICES ASSUME c # b
             PROVE  Blank(c) /\ HasCurrentSchema(c.meta)
  OBVIOUS
<1> DEFINE m == b.meta
<1>1. IsBuilder(b)
  BY DEF Blank
<1>2. \E id \in DOMAIN m.specs : c.meta.spec = [id |-> id, fields |-> m.specs[id]]
  BY <1>1, SetDefaultSpecIs
<1>3. (\E j : Records(b, c, [type |-> "SetDefaultSpec", id |-> j])) /\ SameLog(m, c.meta)
  BY <1>1, SetDefaultSpecIs
<1>4. /\ c.meta.specs = m.specs /\ c.meta.lastPartition = m.lastPartition
      /\ c.meta.schemas = m.schemas /\ c.meta.lastColumn = m.lastColumn
      /\ c.meta.schema = m.schema
  BY <1>1, SetDefaultSpecIs
<1>5. c.meta.spec.fields \in Range(m.specs)
  BY <1>2 DEF Range
<1>6. FieldsFit(c.meta, {})
  BY <1>4, <1>5, FieldsFitLess DEF Blank
<1>7. ColumnsFit(c.meta, {}) /\ HasCurrentSchema(c.meta)
  BY <1>4 DEF Blank, ColumnsFit, HasCurrentSchema, ColumnsOf
<1>8. IsBuilder(c)
  BY <1>3 DEF Records
<1> QED
  BY <1>3, <1>6, <1>7, <1>8 DEF Blank, SameLog

LEMMA OrderOfNewTable ==
    ASSUME NEW b, Blank(b), HasCurrentSchema(b.meta), NEW c, c # None,
           \/ c = Apply([type |-> "AddSortOrder", order |-> << >>], b)
           \/ c = Apply([type |-> "SetDefaultSortOrder", id |-> LastAdded], b)
    PROVE  Blank(c) /\ HasCurrentSchema(c.meta)
<1> SUFFICES ASSUME c # b
             PROVE  Blank(c) /\ HasCurrentSchema(c.meta)
  OBVIOUS
<1>1. IsBuilder(b)
  BY DEF Blank
<1>2. /\ \E u : Records(b, c, u)
      /\ SameLog(b.meta, c.meta) /\ SameFields(b.meta, c.meta)
      /\ c.meta.schema = b.meta.schema
  <2>1. CASE c = Apply([type |-> "AddSortOrder", order |-> << >>], b)
    BY <1>1, <2>1, AddSortOrderIs
  <2>2. CASE c = Apply([type |-> "SetDefaultSortOrder", id |-> LastAdded], b)
    BY <1>1, <2>2, SetDefaultSortOrderIs
  <2> QED
    BY <2>1, <2>2
<1>3. FieldsFit(c.meta, {}) /\ ColumnsFit(c.meta, {}) /\ HasCurrentSchema(c.meta)
  BY <1>2, SameFieldsFit DEF Blank
<1>4. IsBuilder(c)
  BY <1>2 DEF Records
<1> QED
  BY <1>2, <1>3, <1>4 DEF Blank, SameLog

LEMMA NewTableIs ==
    ASSUME NEW format, NEW s, DOMAIN s = {1}, NEW fs \in Specs,
           NEW k, k = NewTable(format, s, fs), k # None
    PROVE  /\ IsMeta(k) /\ HasCurrentSchema(k)
           /\ FieldsFit(k, {}) /\ ColumnsFit(k, {})
           /\ k.log = << >> /\ k.snapshots = << >>
<1> DEFINE blank == [format |-> format, lastColumn |-> -1, schemas |-> << >>, schema |-> -1,
                     specs |-> << >>, spec |-> [id |-> -1, fields |-> << >>],
                     lastPartition |-> UnpartitionedLastAssignedId,
                     orders |-> << >>, order |-> -1, snapshots |-> << >>, lastSeq |-> 0,
                     current |-> None, refs |-> << >>, log |-> << >>]
           begun == [NewBuilder(blank, 1) EXCEPT !.lastSchema = 0]
           a == Then(begun, [type |-> "AddSchema", schema |-> s])
           b == Then(a, [type |-> "SetCurrentSchema", id |-> LastAdded])
           c == Then(b, [type |-> "AddSpec", fields |-> fs])
           d == Then(c, [type |-> "SetDefaultSpec", id |-> LastAdded])
           e == Then(d, [type |-> "AddSortOrder", order |-> << >>])
           f == Then(e, [type |-> "SetDefaultSortOrder", id |-> LastAdded])
<1>1. f # None /\ k = Build(f)
  BY DEF NewTable
<1>2. \A x, u : Then(x, u) # None => x # None /\ Then(x, u) = Apply(u, x)
  BY DEF Then
<1>3. /\ IsMeta(blank) /\ blank.log = << >> /\ blank.current = None /\ blank.snapshots = << >>
      /\ blank.lastColumn = -1 /\ blank.specs = << >> /\ blank.schemas = << >>
      /\ blank.lastPartition = 999 /\ blank.spec.fields = << >>
  BY DEF IsMeta, UnpartitionedLastAssignedId
<1> HIDE DEF blank
<1>4. IsBuilder(begun) /\ begun.meta = blank
  BY <1>3 DEF IsBuilder, NewBuilder, IsSeq
<1> HIDE DEF begun
<1>5. Blank(begun)
  <2>1. FieldsOf(blank) = {} /\ ColumnsOf(blank) = {} /\ AllFields(blank, {}) = {}
        /\ Range(blank.specs) = {}
    BY <1>3 DEF FieldsOf, ColumnsOf, AllFields, Range
  <2>2. FieldsFit(blank, {}) /\ ColumnsFit(blank, {})
    BY <1>3, <2>1 DEF FieldsFit, Known, ColumnsFit, IsSeq
  <2> QED
    BY <1>3, <1>4, <2>2 DEF Blank
<1>6. /\ e # None /\ d # None /\ c # None /\ b # None /\ a # None
      /\ f = Apply([type |-> "SetDefaultSortOrder", id |-> LastAdded], e)
      /\ e = Apply([type |-> "AddSortOrder", order |-> << >>], d)
      /\ d = Apply([type |-> "SetDefaultSpec", id |-> LastAdded], c)
      /\ c = Apply([type |-> "AddSpec", fields |-> fs], b)
      /\ b = Apply([type |-> "SetCurrentSchema", id |-> LastAdded], a)
      /\ a = Apply([type |-> "AddSchema", schema |-> s], begun)
  BY <1>1, <1>2
<1> HIDE DEF a, b, c, d, e, f
<1>7. Blank(a) /\ a.lastSchema \in DOMAIN a.meta.schemas /\ a.meta.specs = << >>
  BY <1>3, <1>4, <1>5, <1>6, SchemaOfNewTable
<1>8. Blank(b) /\ HasCurrentSchema(b.meta) /\ b.meta.specs = << >>
  BY <1>6, <1>7, CurrentSchemaOfNewTable
<1>9. Blank(c) /\ HasCurrentSchema(c.meta)
  BY <1>6, <1>8, SpecOfNewTable
<1>10. Blank(d) /\ HasCurrentSchema(d.meta)
  BY <1>6, <1>9, DefaultSpecOfNewTable
<1>11. Blank(e) /\ HasCurrentSchema(e.meta)
  BY <1>6, <1>10, OrderOfNewTable
<1>12. Blank(f) /\ HasCurrentSchema(f.meta)
  BY <1>1, <1>6, <1>11, OrderOfNewTable
<1>13. /\ IsMeta(k) /\ FieldsFit(k, {}) /\ ColumnsFit(k, {}) /\ HasCurrentSchema(k)
       /\ k.log = SnapshotLog(f) /\ k.snapshots = << >>
  <2>1. IsBuilder(f) /\ f.meta.snapshots = << >>
        /\ FieldsFit(f.meta, {}) /\ ColumnsFit(f.meta, {})
    BY <1>12 DEF Blank
  <2>2. /\ IsMeta(k) /\ FieldsFit(k, {}) /\ ColumnsFit(k, {}) /\ HasCurrentSchema(k)
    BY <1>1, <1>12, <2>1, BuildKeeps
  <2>3. k.log = SnapshotLog(f) /\ k.snapshots = << >>
    BY <1>1, <2>1, BuildIs
  <2> QED
    BY <2>2, <2>3
<1>14. Remembers(f, 0, 0, k.log)
  <2>1. f.meta.log = << >> /\ Len(f.meta.log) = 0 /\ IsSeq(f.meta.log)
    BY <1>12 DEF Blank, IsSeq
  <2>2. LogFitsBuilder(f, 0)
    BY <2>1 DEF LogFitsBuilder
  <2> QED
    BY <1>13, <2>1, <2>2, LogRemembers
<1>15. k.log = << >>
  <2>1. IsSeq(k.log) /\ \A x \in Range(k.log) : x \in Range(f.meta.log)
    BY <1>14 DEF Remembers
  <2>2. Range(f.meta.log) = {}
    BY <1>12 DEF Blank, Range
  <2>3. DOMAIN k.log = {}
    BY <2>1, <2>2 DEF Range
  <2>4. Len(k.log) \in Nat /\ DOMAIN k.log = 1..Len(k.log)
    BY <2>1, SeqIs
  <2>5. Len(k.log) = 0
    <3>1. 1 \notin 1..Len(k.log)
      BY <2>3, <2>4
    <3> QED
      BY <2>4, <3>1
  <2> QED
    BY <2>1, <2>5 DEF IsSeq
<1> QED
  BY <1>13, <1>15

-----------------------------------------------------------------------------
(* The invariant holds. *)

LEMMA InitHolds ==
    Init => MInv
<1> SUFFICES ASSUME Init
             PROVE  MInv
  OBVIOUS
<1>1. PICK format \in session.formats, spec \in session.specs :
          published = NewTable(format, [c \in {1} |-> FirstColumn], spec)
  BY DEF Init
<1>2. spec \in Specs /\ DOMAIN [c \in {1} |-> FirstColumn] = {1}
  BY SpecsAssumption DEF Init
<1>3. /\ IsMeta(published) /\ HasCurrentSchema(published)
      /\ FieldsFit(published, {}) /\ ColumnsFit(published, {})
      /\ published.log = << >> /\ published.snapshots = << >>
  BY <1>1, <1>2, NewTableIs DEF Init
<1>4. /\ builder = None /\ mains = <<None>> /\ drawn = {}
      /\ columns = ColumnsOf(published) /\ fields = FieldsOf(published)
  BY DEF Init
<1>5. FieldsFit(published, fields) /\ ColumnsFit(published, columns)
  BY <1>3, <1>4 DEF FieldsFit, AllFields, ColumnsFit
<1>6. IsSeq(mains)
  BY <1>4 DEF IsSeq, Range
<1>7. PublishedLog(published, mains) /\ DOMAIN published.snapshots \subseteq drawn
  BY <1>3, <1>4 DEF PublishedLog, EndsWithCurrent, IsSeq
<1> QED
  BY <1>3, <1>4, <1>5, <1>6, <1>7 DEF MInv, VersionInv

LEMMA BeginKeeps ==
    VersionInv /\ Begin => BuilderInv(builder')
<1> SUFFICES ASSUME VersionInv, Begin
             PROVE  BuilderInv(builder')
  OBVIOUS
<1> DEFINE at == Len(mains) + 1
           b == NewBuilder(published, at)
<1>1. builder' = b
  BY DEF Begin
<1>2. /\ b.meta = published /\ b.at = at /\ b.changes = << >>
      /\ b = [meta |-> b.meta, at |-> b.at, changes |-> b.changes, lastSchema |-> b.lastSchema,
              lastSpec |-> b.lastSpec, lastOrder |-> b.lastOrder]
  BY DEF NewBuilder
<1> HIDE DEF b
<1>3. IsBuilder(b)
  BY <1>2 DEF IsBuilder, VersionInv, IsSeq
<1>4. AddedIds(b) = {}
  <2>1. Range(b.changes) = {}
    BY <1>2 DEF Range
  <2> QED
    BY <2>1 DEF AddedIds, Changes
<1>5. Len(published.log) \in Nat
  BY SeqIs DEF VersionInv, PublishedLog
<1>6. BuilderLog(b, published, Len(mains), drawn)
  BY <1>2, <1>4, <1>5 DEF BuilderLog, VersionInv, PublishedLog
<1>7. Rebuilds(b, published)
  BY <1>2, ApplyAllOfNone DEF Rebuilds, b
<1> QED
  BY <1>1, <1>2, <1>3, <1>6, <1>7 DEF BuilderInv, VersionInv

LEMMA CommitKeeps ==
    MInv /\ Commit => MInv'
<1> SUFFICES ASSUME MInv, Commit
             PROVE  MInv'
  OBVIOUS
<1> DEFINE k == Build(builder)
<1>1. builder' = None /\ BuilderInv(builder) /\ VersionInv
  BY DEF Commit, MInv
<1>2. CASE /\ k # None /\ published' = k
           /\ mains' = Append(mains, k.current)
           /\ columns' = columns \cup ColumnsOf(k)
           /\ fields' = fields \cup FieldsOf(k)
           /\ drawn' = drawn \cup DOMAIN k.snapshots
  <2> HIDE DEF k
  <2>1. k = Build(builder)
    BY DEF k
  <2>2. IsMeta(k) /\ FieldsFit(k, fields) /\ ColumnsFit(k, columns) /\ HasCurrentSchema(k)
    BY <1>1, <1>2, <2>1, BuildKeeps DEF BuilderInv
  <2>3. FieldsFit(k, fields') /\ ColumnsFit(k, columns')
    <3>1. AllFields(k, fields') = AllFields(k, fields)
          /\ columns' \cup ColumnsOf(k) = columns \cup ColumnsOf(k)
      BY <1>2 DEF AllFields
    <3> QED
      BY <2>2, <3>1 DEF FieldsFit, ColumnsFit
  <2>4. PublishedLog(k, mains')
    BY <1>1, <1>2, <2>1, NextLogIsRight DEF VersionInv, BuilderInv
  <2>5. IsSeq(mains')
    BY <1>1, <1>2, AppendIs DEF VersionInv
  <2> QED
    BY <1>1, <1>2, <2>2, <2>3, <2>4, <2>5 DEF MInv, VersionInv
<1>3. CASE UNCHANGED <<published, mains, columns, fields, drawn>>
  BY <1>1, <1>3 DEF MInv, VersionInv
<1> QED
  BY <1>2, <1>3 DEF Commit

LEMMA NextKeeps ==
    MInv /\ [Next]_vars => MInv'
<1> SUFFICES ASSUME MInv, [Next]_vars
             PROVE  MInv'
  OBVIOUS
<1>1. CASE Begin
  <2>1. BuilderInv(builder')
    BY <1>1, BeginKeeps DEF MInv
  <2> QED
    BY <1>1, <2>1 DEF MInv, VersionInv, BuilderInv, Begin
<1>2. CASE builder # None /\ Evolve
  <2>1. UNCHANGED <<session, published, mains, columns, fields, drawn>>
    BY <1>2 DEF Evolve, Call, CallAddSchema, CallSetCurrentSchema, CallRemoveSchemas,
                CallAddSpec, CallSetDefaultSpec, CallRemovePartitionSpecs, CallAddSortOrder,
                CallSetDefaultSortOrder, CallUpgradeFormatVersion, CallAddSnapshot,
                CallRemoveSnapshots, CallSetRef, CallRemoveRef
  <2>2. builder' # None => BuilderInv(builder')
    BY <1>2, EvolveKeeps DEF MInv
  <2> QED
    BY <2>1, <2>2 DEF MInv, VersionInv, BuilderInv
<1>3. CASE Commit
  BY <1>3, CommitKeeps
<1>4. CASE UNCHANGED vars
  BY <1>4 DEF MInv, VersionInv, BuilderInv, vars
<1> QED
  BY <1>1, <1>2, <1>3, <1>4 DEF Next

(* The inductive invariant. *)
THEOREM MInvHolds ==
    Spec => []MInv
<1> QED
  BY InitHolds, NextKeeps, PTL DEF Spec

-----------------------------------------------------------------------------
(* An id of a field means the same in every version, whatever was added,     *)
(* removed and put back in between (reuse_partition_field_ids,               *)
(* set_field_ids, last-partition-id and last-column-id).                     *)
THEOREM FieldIdsKeepTheirMeaningHolds ==
    Spec => []FieldIdsKeepTheirMeaning
<1>1. MInv => FieldIdsKeepTheirMeaning
  BY DEF MInv, VersionInv, FieldsFit, AllFields, Known, ColumnsFit, FieldIdsKeepTheirMeaning
<1> QED
  BY <1>1, MInvHolds, PTL

(* The snapshot log, read for the time of a version in which a snapshot was  *)
(* current, gives that snapshot or nothing (update_snapshot_log, the         *)
(* intermediate snapshots of a builder, and the removals that end the        *)
(* history).  Of versions without a current snapshot it says nothing.        *)
THEOREM TimeTravelHolds ==
    Spec => []TimeTravelIsRight
<1>1. MInv => TimeTravelIsRight
  <2> SUFFICES ASSUME MInv, NEW v \in DOMAIN mains, mains[v] # None,
                      {i \in DOMAIN published.log : published.log[i].at <= v} # {}
               PROVE  published.log[Max({i \in DOMAIN published.log :
                          published.log[i].at <= v})].id = mains[v]
    BY DEF TimeTravelIsRight
  <2> DEFINE log == published.log
             B == {i \in DOMAIN log : log[i].at <= v}
             j == Max(B)
  <2>1. /\ PublishedLog(published, mains) /\ v \in 1..Len(mains)
        /\ Len(log) \in Nat /\ DOMAIN log = 1..Len(log)
    BY SeqIs DEF MInv, VersionInv, PublishedLog
  <2>2. B \in SUBSET Nat /\ B # {} /\ \A k \in B : k <= Len(log)
    BY <2>1
  <2>3. Max(B) \in B /\ \A k \in B : k <= Max(B)
    <3> HIDE DEF B
    <3> QED
      BY <2>1, <2>2, MaxOfBounded
  <2>4. j \in 1..Len(log) /\ log[j].at <= v /\ \A k \in 1..Len(log) : log[k].at <= v => k <= j
    BY <2>1, <2>3
  <2> HIDE DEF j
  <2>5. LastUpTo(log, Len(log), j, v)
    BY <2>1, <2>4 DEF LastUpTo
  <2>6. log[j].id = mains[v]
    BY <2>1, <2>4, <2>5 DEF PublishedLog
  <2> QED
    BY <2>6 DEF j
<1> QED
  BY <1>1, MInvHolds, PTL

(* What a build reports as its changes, applied to the metadata it began     *)
(* with, gives what it built (TableMetadataBuilder::build, TableUpdate::apply *)
(* on the side of a catalog).                                                *)
THEOREM ChangesRebuildItHolds ==
    Spec => ChangesRebuildIt
<1>1. MInv /\ [Next]_vars => [published' # published =>
          LET again == ApplyAll(builder.changes, NewBuilder(published, builder.at))
          IN  again # None /\ Build(again) = published']_vars
  <2> SUFFICES ASSUME MInv, Next, published' # published
               PROVE  LET again == ApplyAll(builder.changes, NewBuilder(published, builder.at))
                      IN  again # None /\ Build(again) = published'
    BY DEF vars
  <2>1. Commit
    BY DEF Next, Begin, Evolve, Call, CallAddSchema, CallSetCurrentSchema, CallRemoveSchemas,
           CallAddSpec, CallSetDefaultSpec, CallRemovePartitionSpecs, CallAddSortOrder,
           CallSetDefaultSortOrder, CallUpgradeFormatVersion, CallAddSnapshot,
           CallRemoveSnapshots, CallSetRef, CallRemoveRef
  <2>2. builder # None /\ published' = Build(builder)
    BY <2>1 DEF Commit
  <2>3. Rebuilds(builder, published)
    BY <2>2 DEF MInv, BuilderInv
  <2> QED
    BY <2>2, <2>3 DEF Rebuilds
<1> QED
  BY <1>1, MInvHolds, PTL DEF Spec, ChangesRebuildIt
=============================================================================
