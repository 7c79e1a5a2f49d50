----------------------- MODULE ColumnProjectionProofs ------------------------
(***************************************************************************)
(* Theorems about ColumnProjection, for any number of columns, any types    *)
(* and any evolution of the schema.                                         *)
(*                                                                          *)
(* The argument.  Ids are never given twice, and a type changes only as a   *)
(* file can still be read under: a column of the file and the field of its  *)
(* id always agree up to one promotion.  So the mask leaves out no column   *)
(* that was asked for, and the transformer, where it looks columns up, finds *)
(* each by its id.  Where it does not look, all it knows of a column is its *)
(* type and nullability: it can be wrong only about columns that agree in   *)
(* these, and not if the columns come in the order they are asked for: two  *)
(* lists of as many columns, both in the order of the file, are the same.   *)
(***************************************************************************)
EXTENDS ColumnProjection, FiniteSetTheorems, WellFoundedInduction, TLAPS

(* The types a field can have had, by its id. *)
TypesOf(id) ==
    {TypeOf[id]} \cup {Promoted[t] : t \in {TypeOf[id]} \cap DOMAIN Promoted}

AllTypes == UNION {TypesOf(id) : id \in 1..MaxId}

Fields ==
    [id : 1..MaxId, name : Names, type : AllTypes, required : BOOLEAN,
     default : {None, "initial"}]
Columns == [id : 1..MaxId, name : Names, type : AllTypes, required : BOOLEAN]

Once(fields) ==
    \A i, j \in DOMAIN fields : fields[i].id = fields[j].id => i = j
OfItsTypes(fields) ==
    \A i \in DOMAIN fields : fields[i].type \in TypesOf(fields[i].id)
GivenBy(fields, id) == \A i \in DOMAIN fields : fields[i].id <= id

SchemaInv ==
    /\ schema \in Seq(Fields)
    /\ lastId \in 1..MaxId
    /\ Once(schema) /\ OfItsTypes(schema) /\ GivenBy(schema, lastId)

(* A field of a column of the file is still readable from it. *)
Readable(columns, fields) ==
    \A i \in DOMAIN columns, j \in DOMAIN fields :
        columns[i].id = fields[j].id => CanPromote(columns[i].type, fields[j].type)

(* What is not in the file and cannot be NULL has a default.                 *)
Filled(columns, fields) ==
    \A j \in DOMAIN fields :
        fields[j].required => fields[j].default # None \/ fields[j].id \in IdsOf(columns)

FileInv ==
    file # None =>
        /\ file.columns \in Seq(Columns)
        /\ Once(file.columns) /\ OfItsTypes(file.columns) /\ GivenBy(file.columns, lastId)
        /\ ~file.hasIds => \A i \in DOMAIN file.columns : file.columns[i].id = i
        /\ Readable(file.columns, schema) /\ Filled(file.columns, schema)

BatchInv ==
    batch # None =>
        /\ file # None
        /\ \E selection \in Seq(IdsOf(schema)) :
              batch = [selection |-> selection,
                       columns |-> Transform(SourceColumns(ProjectionMask(selection)), selection)]

(* The inductive invariant. *)
CInv == SchemaInv /\ FileInv /\ BatchInv

RightOrTwin ==
    batch # None =>
        \A k \in DOMAIN batch.selection :
            LET id == batch.selection[k]
            IN  batch.columns[k].data \in {DataOf(id)} \cup {FromFile(t) : t \in TwinsOf(id)}

-----------------------------------------------------------------------------
(* Induction: a set of naturals has a least element. *)
LEMMA LeastOf ==
    ASSUME NEW T \in SUBSET Nat, T # {}
    PROVE  \E n \in T : \A m \in T : n <= m
<1> DEFINE R == {p \in Nat \X Nat : p[1] < p[2]}
<1>1. IsWellFoundedOn(R, Nat)
  BY NatLessThanWellFounded DEF OpToRel
<1>2. \E x \in T : \A y \in T : <<y, x>> \notin R
  <2> HIDE DEF R
  <2> QED
    BY <1>1, WFMin
<1>3. PICK x \in T : \A y \in T : <<y, x>> \notin R
  BY <1>2
<1>4. ASSUME NEW y \in T
      PROVE  x <= y
  <2>1. x \in Nat /\ y \in Nat /\ <<y, x>> \notin R
    BY <1>3
  <2>2. ~(y < x)
    BY <2>1
  <2> QED
    BY <2>1, <2>2
<1> QED
  BY <1>4

(* A set of places can be listed in order. *)
InOrder(s) == \A i, j \in DOMAIN s : i < j => s[i] < s[j]

LEMMA Listed ==
    ASSUME NEW n \in Nat, NEW S \in SUBSET (1..n)
    PROVE  \E s \in [1..Cardinality(S) -> S] : InOrder(s)
<1> DEFINE Lists(T) == \E s \in [1..Cardinality(T) -> T] : InOrder(s)
           Bad == {k \in Nat : \E T \in SUBSET (1..k) : ~Lists(T)}
<1>1. Bad = {}
  <2> SUFFICES ASSUME Bad # {}
               PROVE  FALSE
    OBVIOUS
  <2>1. PICK k \in Bad : \A j \in Bad : k <= j
    <3>1. Bad \in SUBSET Nat
      OBVIOUS
    <3> HIDE DEF Bad
    <3> QED
      BY <3>1, LeastOf
  <2>2. PICK T \in SUBSET (1..k) : ~Lists(T)
    BY <2>1
  <2>3. k \in Nat /\ IsFiniteSet(T)
    <3>1. IsFiniteSet(1..k)
      BY FS_Interval
    <3> QED
      BY <2>2, <3>1, FS_Subset
  <2>4. T # {}
    <3> SUFFICES ASSUME T = {}
                 PROVE  Lists(T)
      BY <2>2
    <3>1. Cardinality(T) = 0
      BY FS_EmptySet
    <3>2. << >> \in [1..Cardinality(T) -> T] /\ InOrder(<< >>)
      BY <3>1 DEF InOrder
    <3> QED
      BY <3>2
  <2>5. k > 0 /\ k - 1 \in Nat /\ ~(k <= k - 1)
    <3>1. PICK x \in T : x \in 1..k
      BY <2>2, <2>4
    <3> QED
      BY <2>3, <3>1
  <2>6. \A U \in SUBSET (1..(k - 1)) : Lists(U)
    <3>1. k - 1 \notin Bad
      BY <2>1, <2>5
    <3> QED
      BY <2>5, <3>1
  <2>7. k \in T
    <3> SUFFICES ASSUME k \notin T
                 PROVE  FALSE
      OBVIOUS
    <3>1. T \in SUBSET (1..(k - 1))
      BY <2>2, <2>3
    <3> QED
      BY <2>2, <2>6, <3>1
  <2> DEFINE U == T \ {k}
             c == Cardinality(U)
  <2>8. U \in SUBSET (1..(k - 1)) /\ c \in Nat /\ Cardinality(T) = c + 1
    <3>1. U \in SUBSET (1..(k - 1))
      BY <2>2, <2>3
    <3>2. IsFiniteSet(U) /\ c = Cardinality(T) - 1
      BY <2>3, <2>7, FS_RemoveElement
    <3>3. c \in Nat /\ Cardinality(T) \in Nat
      BY <2>3, <3>2, FS_CardinalityType
    <3> QED
      BY <3>1, <3>2, <3>3
  <2>9. PICK s \in [1..c -> U] : InOrder(s)
    BY <2>6, <2>8
  <2> DEFINE t == [i \in 1..(c + 1) |-> IF i = c + 1 THEN k ELSE s[i]]
  <2> HIDE DEF c, U
  <2>10. \A i \in 1..(c + 1) : i # c + 1 => i \in 1..c /\ s[i] \in U
    BY <2>8, <2>9
  <2>11. t \in [1..Cardinality(T) -> T]
    BY <2>7, <2>8, <2>10 DEF U
  <2>12. ASSUME NEW i \in 1..(c + 1), NEW j \in 1..(c + 1), i < j
         PROVE  t[i] < t[j]
    <3>1. i # c + 1
      BY <2>8, <2>12
    <3>2. s[i] \in 1..(k - 1) /\ i \in 1..c
      BY <2>8, <2>10, <3>1
    <3>3. CASE j = c + 1
      BY <2>3, <3>1, <3>2, <3>3
    <3>4. CASE j # c + 1
      <4>1. j \in 1..c
        BY <2>10, <3>4
      <4>2. s[i] < s[j]
        BY <2>9, <2>12, <3>2, <4>1 DEF InOrder
      <4> QED
        BY <3>1, <3>4, <4>2
    <3> QED
      BY <3>3, <3>4
  <2>13. InOrder(t)
    BY <2>12 DEF InOrder
  <2> QED
    BY <2>2, <2>11, <2>13
<1> QED
  <2>1. n \notin Bad
    BY <1>1
  <2> QED
    BY <2>1

(* A list in order of as many places as there are has each of them. *)
LEMMA ListedOnce ==
    ASSUME NEW n \in Nat, NEW S \in SUBSET (1..n),
           NEW s \in [1..Cardinality(S) -> S], InOrder(s)
    PROVE  \A x \in S : \E i \in 1..Cardinality(S) : s[i] = x
<1> DEFINE c == Cardinality(S)
<1>1. IsFiniteSet(S) /\ c \in Nat
  <2>1. IsFiniteSet(1..n)
    BY FS_Interval
  <2> QED
    BY <2>1, FS_Subset, FS_CardinalityType
<1> SUFFICES ASSUME NEW x \in S, \A i \in 1..c : s[i] # x
             PROVE  FALSE
  OBVIOUS
<1>2. s \in [1..c -> S \ {x}]
  OBVIOUS
<1>3. IsFiniteSet(S \ {x}) /\ Cardinality(S \ {x}) = c - 1
  BY <1>1, FS_RemoveElement
<1>4. IsFiniteSet(1..c) /\ Cardinality(1..c) = c
  BY <1>1, FS_Interval
<1>5. Cardinality(S \ {x}) < Cardinality(1..c)
  BY <1>1, <1>3, <1>4
<1>6. \E i, j \in 1..c : i # j /\ s[i] = s[j]
  <2> DEFINE D == 1..c
             R == S \ {x}
  <2>1. IsFiniteSet(D) /\ IsFiniteSet(R) /\ Cardinality(R) < Cardinality(D) /\ s \in [D -> R]
    BY <1>2, <1>3, <1>4, <1>5
  <2> HIDE DEF D, R
  <2>2. \E i, j \in D : i # j /\ s[i] = s[j]
    BY <2>1, FS_PigeonHole
  <2> QED
    BY <2>2 DEF D
<1>7. PICK i \in 1..c, j \in 1..c : i # j /\ s[i] = s[j]
  BY <1>6
<1>8. s[i] \in Nat /\ s[j] \in Nat /\ DOMAIN s = 1..c
  <2>1. s[i] \in S /\ s[j] \in S /\ DOMAIN s = 1..c
    BY <1>7
  <2>2. \A y \in S : y \in Nat
    OBVIOUS
  <2> HIDE DEF c
  <2> QED
    BY <2>1, <2>2
<1>9. (i < j => s[i] < s[j]) /\ (j < i => s[j] < s[i])
  BY <1>8 DEF InOrder
<1> QED
  BY <1>1, <1>7, <1>8, <1>9

(* What comes from Parquet is the columns of the mask, each once. *)
LEMMA SourceIsTheMask ==
    ASSUME file.columns \in Seq(Columns), NEW mask \in SUBSET All
    PROVE  /\ SourceColumns(mask) \in Seq(Columns)
           /\ \A k \in DOMAIN SourceColumns(mask) :
                 \E i \in mask : SourceColumns(mask)[k] = file.columns[i]
           /\ \A i \in mask :
                 \E k \in DOMAIN SourceColumns(mask) : SourceColumns(mask)[k] = file.columns[i]
           /\ \E s \in [DOMAIN SourceColumns(mask) -> mask] :
                 /\ InOrder(s)
                 /\ \A k \in DOMAIN s : SourceColumns(mask)[k] = file.columns[s[k]]
<1> DEFINE n == Len(file.columns)
           c == Cardinality(mask)
           s == CHOOSE t \in [1..c -> mask] :
                    \A i, j \in DOMAIN t : i < j => t[i] < t[j]
<1>1. n \in Nat /\ mask \in SUBSET (1..n)
  BY DEF All
<1>2. c \in Nat
  <2>1. IsFiniteSet(1..n)
    BY <1>1, FS_Interval
  <2> QED
    BY <1>1, <2>1, FS_Subset, FS_CardinalityType
<1>3. s \in [1..c -> mask] /\ InOrder(s)
  BY <1>1, Listed DEF InOrder
<1>4. SourceColumns(mask) = [k \in 1..c |-> file.columns[s[k]]]
  BY DEF SourceColumns
<1>5. \A i \in mask : \E k \in 1..c : s[k] = i
  <2> HIDE DEF s
  <2> QED
    BY <1>1, <1>3, ListedOnce
<1> HIDE DEF s, c
<1>6. \A k \in 1..c : s[k] \in mask /\ file.columns[s[k]] \in Columns
  <2>1. \A k \in 1..c : s[k] \in mask
    BY <1>3
  <2>2. \A i \in mask : file.columns[i] \in Columns
    BY <1>1
  <2> QED
    BY <2>1, <2>2
<1>7. DOMAIN SourceColumns(mask) = 1..c /\ DOMAIN s = 1..c
  BY <1>3, <1>4
<1>8. \E t \in [DOMAIN SourceColumns(mask) -> mask] :
          InOrder(t) /\ \A k \in DOMAIN t : SourceColumns(mask)[k] = file.columns[t[k]]
  BY <1>3, <1>4, <1>7
<1>9. SourceColumns(mask) \in Seq(Columns)
  BY <1>2, <1>4, <1>6
<1>10. /\ \A k \in 1..c : \E i \in mask : SourceColumns(mask)[k] = file.columns[i]
       /\ \A i \in mask : \E k \in 1..c : SourceColumns(mask)[k] = file.columns[i]
  BY <1>4, <1>5, <1>6
<1> QED
  BY <1>7, <1>8, <1>9, <1>10

-----------------------------------------------------------------------------
(* The id of a field of the schema finds that field. *)
LEMMA FieldOfIs ==
    ASSUME SchemaInv, NEW j \in DOMAIN schema
    PROVE  FieldOf(schema[j].id) = schema[j]
<1> DEFINE x == CHOOSE i \in DOMAIN schema : schema[i].id = schema[j].id
<1>1. x \in DOMAIN schema /\ schema[x].id = schema[j].id
  OBVIOUS
<1>2. x = j
  BY <1>1 DEF SchemaInv, Once
<1> QED
  BY <1>2 DEF FieldOf

LEMMA FieldAsked ==
    ASSUME SchemaInv, NEW id \in IdsOf(schema)
    PROVE  \E j \in DOMAIN schema : schema[j].id = id /\ FieldOf(id) = schema[j]
<1>1. PICK j \in DOMAIN schema : schema[j].id = id
  BY DEF IdsOf
<1> QED
  BY <1>1, FieldOfIs

(* A column that is in the file and was asked for is in the mask. *)
LEMMA MaskHasTheAsked ==
    ASSUME CInv, file # None, NEW selection \in Seq(IdsOf(schema)),
           NEW k \in DOMAIN selection
    PROVE  /\ ProjectionMask(selection) \in SUBSET All
           /\ \A i \in All :
                 file.columns[i].id = selection[k] => i \in ProjectionMask(selection)
<1> DEFINE ids == {selection[x] : x \in DOMAIN selection}
<1>1. Seqs!ToSet(selection) = ids
  BY DEF Seqs!ToSet
<1>2. selection[k] \in ids /\ ids # {} /\ selection[k] \in IdsOf(schema)
  OBVIOUS
<1> HIDE DEF ids
<1>3. ProjectionMask(selection) =
        IF file.hasIds THEN MaskWithFieldIds(ids) ELSE MaskFallback(ids)
  BY <1>1, <1>2 DEF ProjectionMask
<1>4. CASE file.hasIds
  <2>1. ASSUME NEW i \in All, file.columns[i].id = selection[k]
        PROVE  CanPromote(file.columns[i].type, FieldOf(file.columns[i].id).type)
    <3>1. PICK j \in DOMAIN schema :
              schema[j].id = selection[k] /\ FieldOf(selection[k]) = schema[j]
      BY <1>2, FieldAsked DEF CInv
    <3> QED
      BY <2>1, <3>1 DEF CInv, FileInv, Readable, All
  <2> QED
    BY <1>2, <1>3, <1>4, <2>1 DEF MaskWithFieldIds
<1>5. CASE ~file.hasIds
  <2>1. \A i \in All : file.columns[i].id = i
    BY <1>5 DEF CInv, FileInv, All
  <2> QED
    BY <1>2, <1>3, <1>5, <2>1 DEF MaskFallback
<1> QED
  BY <1>4, <1>5

(* So the transformer is given it. *)
LEMMA SourceHasTheAsked ==
    ASSUME CInv, file # None, NEW selection \in Seq(IdsOf(schema)),
           NEW k \in DOMAIN selection
    PROVE  selection[k] \in IdsOf(SourceColumns(ProjectionMask(selection)))
               <=> selection[k] \in IdsOf(file.columns)
<1> DEFINE mask == ProjectionMask(selection)
<1>1. mask \in SUBSET All /\ \A i \in All : file.columns[i].id = selection[k] => i \in mask
  BY MaskHasTheAsked
<1>2. file.columns \in Seq(Columns)
  BY DEF CInv, FileInv
<1> HIDE DEF mask
<1>3. /\ \A x \in DOMAIN SourceColumns(mask) :
            \E i \in mask : SourceColumns(mask)[x] = file.columns[i]
      /\ \A i \in mask :
            \E x \in DOMAIN SourceColumns(mask) : SourceColumns(mask)[x] = file.columns[i]
  BY <1>1, <1>2, SourceIsTheMask
<1>4. ASSUME selection[k] \in IdsOf(SourceColumns(mask))
      PROVE  selection[k] \in IdsOf(file.columns)
  <2>1. PICK x \in DOMAIN SourceColumns(mask) : SourceColumns(mask)[x].id = selection[k]
    BY <1>4 DEF IdsOf
  <2>2. PICK i \in mask : SourceColumns(mask)[x] = file.columns[i]
    BY <1>3
  <2> QED
    BY <1>1, <2>1, <2>2 DEF IdsOf, All
<1>5. ASSUME selection[k] \in IdsOf(file.columns)
      PROVE  selection[k] \in IdsOf(SourceColumns(mask))
  <2>1. PICK i \in All : file.columns[i].id = selection[k]
    BY <1>5 DEF IdsOf, All
  <2>2. PICK x \in DOMAIN SourceColumns(mask) : SourceColumns(mask)[x] = file.columns[i]
    BY <1>1, <1>3, <2>1
  <2> QED
    BY <2>1, <2>2 DEF IdsOf
<1> QED
  BY <1>4, <1>5 DEF mask

(* Of two lists of one length a strictly growing map takes each place to itself. *)
LEMMA GrowingIsIdentity ==
    ASSUME NEW n \in Nat, NEW g \in [1..n -> 1..n], \A k, l \in 1..n : k < l => g[k] < g[l]
    PROVE  \A k \in 1..n : g[k] = k
<1> DEFINE Low == {k \in 1..n : g[k] < k}
           High == {d \in Nat : \E k \in 1..n : d = n - k /\ k < g[k]}
<1>1. Low = {}
  <2> SUFFICES ASSUME Low # {}
               PROVE  FALSE
    OBVIOUS
  <2>1. PICK k \in Low : \A m \in Low : k <= m
    <3>1. Low \in SUBSET Nat
      OBVIOUS
    <3> HIDE DEF Low
    <3> QED
      BY <3>1, LeastOf
  <2>2. k \in 1..n /\ g[k] \in 1..n /\ g[k] < k
    BY <2>1
  <2>3. k - 1 \in 1..n /\ k - 1 < k
    BY <2>2
  <2>4. k - 1 <= g[k - 1] /\ g[k - 1] \in 1..n
    <3>1. k - 1 \notin Low
      BY <2>1, <2>2, <2>3
    <3> QED
      BY <2>3, <3>1
  <2>5. g[k - 1] < g[k]
    BY <2>2, <2>3
  <2> QED
    BY <2>2, <2>4, <2>5
<1>2. High = {}
  <2> SUFFICES ASSUME High # {}
               PROVE  FALSE
    OBVIOUS
  <2>1. PICK d \in High : \A m \in High : d <= m
    <3>1. High \in SUBSET Nat
      OBVIOUS
    <3> HIDE DEF High
    <3> QED
      BY <3>1, LeastOf
  <2>2. PICK k \in 1..n : d = n - k /\ k < g[k]
    BY <2>1
  <2>3. k + 1 \in 1..n /\ g[k] \in 1..n /\ n - (k + 1) \in Nat /\ n - (k + 1) < d
    BY <2>2
  <2>4. g[k + 1] <= k + 1 /\ g[k + 1] \in 1..n
    <3>1. n - (k + 1) \notin High
      <4>1. ~(d <= n - (k + 1))
        BY <2>1, <2>3
      <4> HIDE DEF High
      <4> QED
        BY <2>1, <4>1
    <3> QED
      BY <2>3, <3>1
  <2>5. g[k] < g[k + 1]
    BY <2>2, <2>3
  <2> QED
    BY <2>2, <2>3, <2>4, <2>5
<1>3. ASSUME NEW k \in 1..n
      PROVE  g[k] = k
  <2>1. ~(g[k] < k)
    BY <1>1
  <2>2. ~(k < g[k])
    <3>1. n - k \notin High
      <4> HIDE DEF High
      <4> QED
        BY <1>2
    <3>2. n - k \in Nat
      OBVIOUS
    <3> QED
      BY <3>1, <3>2
  <2> QED
    BY <2>1, <2>2
<1> QED
  BY <1>3

(* What Parquet is asked for to read a selection. *)
Source(selection) == SourceColumns(ProjectionMask(selection))

LEMMA SourceIs ==
    ASSUME CInv, file # None, NEW selection \in Seq(IdsOf(schema)), selection # << >>
    PROVE  /\ Source(selection) \in Seq(Columns)
           /\ \E s \in [DOMAIN Source(selection) -> All] :
                 /\ InOrder(s)
                 /\ \A k \in DOMAIN s : Source(selection)[k] = file.columns[s[k]]
                 /\ \A k \in DOMAIN s : s[k] \in ProjectionMask(selection)
<1> DEFINE mask == ProjectionMask(selection)
<1>1. 1 \in DOMAIN selection
  OBVIOUS
<1>2. mask \in SUBSET All /\ file.columns \in Seq(Columns)
  BY <1>1, MaskHasTheAsked DEF CInv, FileInv
<1> HIDE DEF mask
<1>3. /\ SourceColumns(mask) \in Seq(Columns)
      /\ \E s \in [DOMAIN SourceColumns(mask) -> mask] :
            InOrder(s) /\ \A k \in DOMAIN s : SourceColumns(mask)[k] = file.columns[s[k]]
  BY <1>2, SourceIsTheMask
<1>4. PICK s \in [DOMAIN SourceColumns(mask) -> mask] :
          InOrder(s) /\ \A k \in DOMAIN s : SourceColumns(mask)[k] = file.columns[s[k]]
  BY <1>3
<1>5. s \in [DOMAIN SourceColumns(mask) -> All] /\ \A k \in DOMAIN s : s[k] \in mask
  BY <1>2, <1>4
<1>6. Source(selection) = SourceColumns(mask)
  BY DEF Source, mask
<1>7. /\ InOrder(s)
      /\ \A k \in DOMAIN s : Source(selection)[k] = file.columns[s[k]]
      /\ \A k \in DOMAIN s : s[k] \in ProjectionMask(selection)
  BY <1>4, <1>5, <1>6 DEF mask
<1> QED
  BY <1>3, <1>5, <1>6, <1>7

LEMMA BatchIs ==
    ASSUME CInv, batch # None
    PROVE  /\ file # None /\ batch.selection \in Seq(IdsOf(schema))
           /\ batch.columns = Transform(Source(batch.selection), batch.selection)
<1>1. PICK selection \in Seq(IdsOf(schema)) :
          batch = [selection |-> selection,
                   columns |-> Transform(SourceColumns(ProjectionMask(selection)), selection)]
  BY DEF CInv, BatchInv
<1>2. batch.selection = selection
  BY <1>1
<1> QED
  BY <1>1, <1>2 DEF CInv, BatchInv, Source

(* A batch whose columns are kept: they are those that came, and what was   *)
(* compared agrees.                                                         *)
LEMMA Kept ==
    ASSUME CInv, file # None, NEW selection \in Seq(IdsOf(schema)),
           CompareSchemas(Source(selection), TargetFields(selection)) # "Different"
    PROVE  /\ Len(Source(selection)) = Len(selection)
           /\ DOMAIN Transform(Source(selection), selection) = DOMAIN selection
           /\ Len(Transform(Source(selection), selection)) = Len(selection)
           /\ \A k \in DOMAIN selection :
                 /\ Transform(Source(selection), selection)[k]
                        = Column(FieldOf(selection[k]).name, FieldOf(selection[k]).type,
                                 FieldOf(selection[k]).required,
                                 FromFile(Source(selection)[k].id))
                 /\ Source(selection)[k].type = FieldOf(selection[k]).type
                 /\ Source(selection)[k].required = FieldOf(selection[k]).required
                 /\ FieldOf(selection[k]).id \notin file.constants
<1> DEFINE source == Source(selection)
           target == TargetFields(selection)
           n == Len(selection)
<1>1. n \in Nat /\ DOMAIN selection = 1..n /\ Len(target) = n /\ DOMAIN target = 1..n
  BY DEF TargetFields
<1>2. CASE selection = << >>
  <2>1. Len(source) = 0
    BY <1>1, <1>2 DEF CompareSchemas
  <2>2. source = << >>
    <3>1. file.columns \in Seq(Columns)
      BY DEF CInv, FileInv
    <3>2. source \in Seq(Columns)
      <4>1. ProjectionMask(selection) = All
        BY <1>2 DEF ProjectionMask, Seqs!ToSet
      <4>2. SourceColumns(All) \in Seq(Columns)
        BY <3>1, SourceIsTheMask
      <4> QED
        BY <4>1, <4>2 DEF Source
    <3> HIDE DEF source
    <3> QED
      BY <2>1, <3>2
  <2> HIDE DEF source, target
  <2>3. Transform(source, selection) = << >>
    <3>1. CompareSchemas(source, target) = "Equivalent"
      BY <1>1, <1>2, <2>2 DEF CompareSchemas
    <3>2. PassThrough(source) = << >>
      BY <2>2 DEF PassThrough
    <3> QED
      BY <3>1, <3>2 DEF Transform, target
  <2> QED
    BY <1>2, <2>1, <2>3 DEF source
<1>3. CASE selection # << >>
  <2>1. source \in Seq(Columns)
    BY <1>3, SourceIs
  <2>2. \A k \in 1..n : /\ target[k].name = FieldOf(selection[k]).name
                       /\ target[k].type = FieldOf(selection[k]).type
                       /\ target[k].required = FieldOf(selection[k]).required
                       /\ target[k].runs = (FieldOf(selection[k]).id \in file.constants)
    BY <1>1 DEF TargetFields
  <2> HIDE DEF source, target
  <2>3. /\ Len(source) = n /\ DOMAIN source = 1..n
        /\ \A k \in 1..n : /\ source[k].type = target[k].type /\ ~target[k].runs
                           /\ source[k].required = target[k].required
    <3>1. /\ Len(source) = Len(target)
          /\ \A k \in DOMAIN source : /\ source[k].type = target[k].type /\ ~target[k].runs
                                      /\ source[k].required = target[k].required
      BY DEF CompareSchemas, source, target
    <3>2. DOMAIN source = 1..Len(source)
      BY <2>1
    <3> QED
      BY <1>1, <3>1, <3>2
  <2>4. \/ CompareSchemas(source, target) = "NameChangesOnly"
        \/ /\ CompareSchemas(source, target) = "Equivalent"
           /\ \A k \in 1..n : source[k].name = target[k].name
    <3>1. CompareSchemas(source, target) # "Different"
      BY DEF source, target
    <3> QED
      BY <2>3, <3>1 DEF CompareSchemas
  <2>5. CASE CompareSchemas(source, target) = "NameChangesOnly"
    <3>1. Transform(source, selection) = ModifySchema(source, target)
      BY <2>5 DEF Transform, target
    <3>2. ModifySchema(source, target) = [k \in 1..n |->
              Column(target[k].name, source[k].type, source[k].required, FromFile(source[k].id))]
      BY <2>3 DEF ModifySchema
    <3>3. \A k \in 1..n : ModifySchema(source, target)[k]
              = Column(target[k].name, source[k].type, source[k].required, FromFile(source[k].id))
      BY <3>2
    <3>4. DOMAIN ModifySchema(source, target) = 1..n /\ Len(ModifySchema(source, target)) = n
      BY <1>1, <3>2
    <3> QED
      BY <1>1, <2>2, <2>3, <3>1, <3>3, <3>4 DEF source
  <2>6. CASE /\ CompareSchemas(source, target) = "Equivalent"
             /\ \A k \in 1..n : source[k].name = target[k].name
    <3>1. Transform(source, selection) = PassThrough(source)
      BY <2>6 DEF Transform, target
    <3>2. PassThrough(source) = [k \in 1..n |->
              Column(source[k].name, source[k].type, source[k].required, FromFile(source[k].id))]
      BY <2>3 DEF PassThrough
    <3>3. \A k \in 1..n : PassThrough(source)[k]
              = Column(target[k].name, source[k].type, source[k].required, FromFile(source[k].id))
      BY <2>6, <3>2
    <3>4. DOMAIN PassThrough(source) = 1..n /\ Len(PassThrough(source)) = n
      BY <1>1, <3>2
    <3> QED
      BY <1>1, <2>2, <2>3, <3>1, <3>3, <3>4 DEF source
  <2> QED
    BY <2>4, <2>5, <2>6
<1> QED
  BY <1>2, <1>3

(* A batch whose columns are looked up: each is found by its id. *)
LEMMA LookedUp ==
    ASSUME CInv, file # None, NEW selection \in Seq(IdsOf(schema)),
           CompareSchemas(Source(selection), TargetFields(selection)) = "Different"
    PROVE  /\ DOMAIN Transform(Source(selection), selection) = DOMAIN selection
           /\ Len(Transform(Source(selection), selection)) = Len(selection)
           /\ \A k \in DOMAIN selection :
                 Transform(Source(selection), selection)[k]
                     = Column(FieldOf(selection[k]).name, FieldOf(selection[k]).type,
                              FieldOf(selection[k]).required, DataOf(selection[k]))
<1> DEFINE source == Source(selection)
           target == TargetFields(selection)
<1>1. Transform(source, selection) = Modify(source, target, selection)
  BY DEF Transform
<1>2. ASSUME NEW k \in DOMAIN selection
      PROVE  ColumnSource(source, selection[k]) = DataOf(selection[k])
  <2>1. selection[k] \in IdsOf(source) <=> selection[k] \in IdsOf(file.columns)
    BY SourceHasTheAsked DEF Source
  <2> HIDE DEF source
  <2> QED
    BY <2>1 DEF ColumnSource, DataOf
<1>3. \A k \in DOMAIN selection : /\ target[k].name = FieldOf(selection[k]).name
                                 /\ target[k].type = FieldOf(selection[k]).type
                                 /\ target[k].required = FieldOf(selection[k]).required
  BY DEF TargetFields
<1> HIDE DEF source, target
<1> QED
  BY <1>1, <1>2, <1>3 DEF Modify, source

(* A column that is kept is the one asked for or one that cannot be told from *)
(* it; one that is looked up is the one asked for.                            *)
LEMMA ColumnsAreRight == CInv => RightOrTwin
<1> SUFFICES ASSUME CInv, batch # None, NEW k \in DOMAIN batch.selection
             PROVE  batch.columns[k].data
                        \in {DataOf(batch.selection[k])}
                            \cup {FromFile(t) : t \in TwinsOf(batch.selection[k])}
  BY DEF RightOrTwin
<1> DEFINE selection == batch.selection
           id == selection[k]
           source == Source(selection)
           target == TargetFields(selection)
<1>1. /\ file # None /\ selection \in Seq(IdsOf(schema))
      /\ batch.columns = Transform(source, selection)
  BY BatchIs
<1>2. PICK j \in DOMAIN schema : schema[j].id = id /\ FieldOf(id) = schema[j]
  <2>1. id \in IdsOf(schema)
    BY <1>1
  <2> QED
    BY <2>1, FieldAsked DEF CInv
<1>3. CASE CompareSchemas(source, target) # "Different"
  <2>1. /\ Len(source) = Len(selection)
        /\ batch.columns[k].data = FromFile(source[k].id)
        /\ source[k].type = FieldOf(id).type /\ source[k].required = FieldOf(id).required
        /\ id \notin file.constants
    <3>1. /\ Len(source) = Len(selection)
          /\ batch.columns[k] = Column(FieldOf(id).name, FieldOf(id).type, FieldOf(id).required,
                                       FromFile(source[k].id))
          /\ source[k].type = FieldOf(id).type /\ source[k].required = FieldOf(id).required
          /\ FieldOf(id).id \notin file.constants
      BY <1>1, <1>3, Kept
    <3>2. batch.columns[k].data = FromFile(source[k].id)
      <4> HIDE DEF id, source
      <4> QED
        BY <3>1 DEF Column
    <3> QED
      BY <1>2, <3>1, <3>2
  <2>2. /\ source \in Seq(Columns)
        /\ \E s \in [DOMAIN source -> All] : \A x \in DOMAIN s : source[x] = file.columns[s[x]]
    <3>1. selection # << >>
      BY <1>1
    <3> QED
      BY <1>1, <3>1, SourceIs
  <2> HIDE DEF source, target
  <2>3. k \in DOMAIN source
    <3>1. DOMAIN source = 1..Len(source) /\ DOMAIN selection = 1..Len(selection)
      BY <1>1, <2>2
    <3> QED
      BY <2>1, <3>1
  <2>4. PICK i \in All : source[k] = file.columns[i]
    BY <2>2, <2>3
  <2>5. CASE source[k].id = id
    <3>1. id \in IdsOf(file.columns)
      BY <2>4, <2>5 DEF IdsOf, All
    <3>2. DataOf(id) = FromFile(source[k].id)
      BY <2>1, <2>5, <3>1 DEF DataOf
    <3> QED
      BY <2>1, <3>2
  <2>6. CASE source[k].id # id
    <3>1. source[k].id \in TwinsOf(id)
      BY <2>1, <2>4, <2>6 DEF TwinsOf, All
    <3> QED
      BY <2>1, <3>1
  <2> QED
    BY <2>5, <2>6
<1>4. CASE CompareSchemas(source, target) = "Different"
  <2>1. batch.columns[k] = Column(FieldOf(id).name, FieldOf(id).type, FieldOf(id).required,
                                  DataOf(id))
    BY <1>1, <1>4, LookedUp
  <2>2. batch.columns[k].data = DataOf(id)
    <3> HIDE DEF id
    <3> QED
      BY <2>1 DEF Column
  <2> QED
    BY <2>2
<1> QED
  BY <1>3, <1>4

(* If some of the columns asked for are in the file, Parquet is asked for     *)
(* those.                                                                     *)
LEMMA MaskIsTheAsked ==
    ASSUME CInv, file # None, NEW selection \in Seq(IdsOf(schema)), InFileOrder(selection),
           NEW i \in ProjectionMask(selection)
    PROVE  i \in All /\ \E k \in DOMAIN selection : selection[k] = file.columns[i].id
<1> DEFINE ids == {selection[x] : x \in DOMAIN selection}
<1>1. Seqs!ToSet(selection) = ids
  BY DEF Seqs!ToSet
<1>2. PICK k \in DOMAIN selection : selection[k] \in IdsOf(file.columns)
  BY DEF InFileOrder
<1>3. PICK at \in All : file.columns[at].id = selection[k]
  BY <1>2 DEF IdsOf, All
<1>4. selection[k] \in ids /\ ids # {} /\ selection[k] \in IdsOf(schema)
  OBVIOUS
<1>5. file.columns[at].id \in ids
  BY <1>3
<1>6. at \in ProjectionMask(selection)
  BY <1>3, MaskHasTheAsked
<1> HIDE DEF ids
<1>7. ProjectionMask(selection) =
        IF file.hasIds THEN MaskWithFieldIds(ids) ELSE MaskFallback(ids)
  BY <1>1, <1>4 DEF ProjectionMask
<1>8. i \in All /\ file.columns[i].id \in ids
  <2>1. CASE file.hasIds
    <3>1. CanPromote(file.columns[at].type, FieldOf(file.columns[at].id).type)
      <4>1. PICK j \in DOMAIN schema :
                schema[j].id = selection[k] /\ FieldOf(selection[k]) = schema[j]
        BY <1>4, FieldAsked DEF CInv
      <4> QED
        BY <1>3, <4>1 DEF CInv, FileInv, Readable, All
    <3> QED
      BY <1>3, <1>5, <1>7, <2>1, <3>1 DEF MaskWithFieldIds
  <2>2. CASE ~file.hasIds
    <3>1. \A x \in All : file.columns[x].id = x
      BY <2>2 DEF CInv, FileInv, All
    <3>2. at \in ids
      BY <1>5, <3>1
    <3> QED
      BY <1>7, <2>2, <3>1, <3>2 DEF MaskFallback
  <2> QED
    BY <2>1, <2>2
<1> QED
  BY <1>8 DEF ids

(* Columns asked for in the order of the file that are all that comes from it *)
(* come in the order they are asked for.                                      *)
LEMMA SameOrder ==
    ASSUME CInv, file # None, NEW selection \in Seq(IdsOf(schema)), selection # << >>,
           InFileOrder(selection), Len(Source(selection)) = Len(selection)
    PROVE  \A k \in DOMAIN selection :
              Source(selection)[k].id = selection[k] /\ selection[k] \in IdsOf(file.columns)
<1> DEFINE n == Len(selection)
           source == Source(selection)
<1>1. /\ source \in Seq(Columns)
      /\ \E s \in [DOMAIN source -> All] :
            /\ InOrder(s)
            /\ \A k \in DOMAIN s : source[k] = file.columns[s[k]]
            /\ \A k \in DOMAIN s : s[k] \in ProjectionMask(selection)
  BY SourceIs
<1>2. n \in Nat /\ DOMAIN selection = 1..n /\ Len(source) = n
  OBVIOUS
<1> HIDE DEF source
<1>3. DOMAIN source = 1..n
  BY <1>1, <1>2
<1>4. PICK s \in [1..n -> All] :
          /\ InOrder(s)
          /\ \A k \in 1..n : source[k] = file.columns[s[k]]
          /\ \A k \in 1..n : s[k] \in ProjectionMask(selection)
  BY <1>1, <1>3
<1>5. \A k \in 1..n : s[k] \in All /\ \E l \in 1..n : selection[l] = file.columns[s[k]].id
  BY <1>2, <1>4, MaskIsTheAsked
<1> DEFINE g == [k \in 1..n |-> CHOOSE l \in 1..n : selection[l] = file.columns[s[k]].id]
<1>6. \A k \in 1..n : g[k] \in 1..n /\ selection[g[k]] = file.columns[s[k]].id
  BY <1>5
<1>7. g \in [1..n -> 1..n]
  BY <1>6
<1> HIDE DEF g
<1>8. ASSUME NEW k \in 1..n, NEW l \in 1..n, k < l
      PROVE  g[k] < g[l]
  <2>1. s[k] < s[l] /\ s[k] \in Nat /\ s[l] \in Nat
    <3>1. All = 1..Len(file.columns) /\ Len(file.columns) \in Nat
      BY DEF All, CInv, FileInv
    <3> QED
      BY <1>4, <1>8, <3>1 DEF InOrder
  <2>2. g[k] # g[l]
    <3> SUFFICES ASSUME g[k] = g[l]
                 PROVE  FALSE
      OBVIOUS
    <3>1. file.columns[s[k]].id = file.columns[s[l]].id
      BY <1>6
    <3>2. s[k] = s[l]
      BY <1>5, <3>1 DEF CInv, FileInv, Once, All
    <3> QED
      BY <2>1, <3>2
  <2>3. ~(g[l] < g[k])
    <3> SUFFICES ASSUME g[l] < g[k]
                 PROVE  s[l] < s[k]
      BY <2>1
    <3>1. g[l] \in DOMAIN selection /\ g[k] \in DOMAIN selection
      BY <1>2, <1>6
    <3>2. s[l] \in DOMAIN file.columns /\ s[k] \in DOMAIN file.columns
      BY <1>5 DEF All
    <3> QED
      BY <1>6, <3>1, <3>2 DEF InFileOrder
  <2> QED
    BY <1>7, <2>2, <2>3
<1>9. \A k \in 1..n : g[k] = k
  BY <1>2, <1>7, <1>8, GrowingIsIdentity
<1>10. ASSUME NEW k \in 1..n
       PROVE  source[k].id = selection[k] /\ selection[k] \in IdsOf(file.columns)
  <2>1. selection[k] = file.columns[s[k]].id /\ source[k] = file.columns[s[k]] /\ s[k] \in All
    BY <1>4, <1>5, <1>6, <1>9
  <2> QED
    BY <2>1 DEF IdsOf, All
<1> QED
  BY <1>2, <1>10 DEF source

-----------------------------------------------------------------------------
(* How the steps keep the invariant. *)

LEMMA Joined ==
    ASSUME NEW S, NEW s \in Seq(S), NEW t \in Seq(S)
    PROVE  /\ s \o t \in Seq(S) /\ Len(s \o t) = Len(s) + Len(t)
           /\ \A i \in 1..(Len(s) + Len(t)) :
                 (s \o t)[i] = IF i <= Len(s) THEN s[i] ELSE t[i - Len(s)]
OBVIOUS

(* t is s with e put in at a place. *)
Inserted(s, at, e, t) ==
    /\ t \in Seq(Fields)
    /\ Len(t) = Len(s) + 1
    /\ \A i \in 1..(Len(s) + 1) :
          t[i] = IF i < at THEN s[i] ELSE IF i = at THEN e ELSE s[i - 1]

LEMMA InsertAtIs ==
    ASSUME NEW s \in Seq(Fields), NEW e \in Fields, NEW at \in 1..(Len(s) + 1)
    PROVE  Inserted(s, at, e, Seqs!InsertAt(s, at, e))
<1> DEFINE before == SubSeq(s, 1, at - 1)
           after == SubSeq(s, at, Len(s))
           n == Len(s)
<1>1. n \in Nat /\ at \in 1..(n + 1)
  OBVIOUS
<1>2. /\ before \in Seq(Fields) /\ Len(before) = at - 1
      /\ \A i \in 1..(at - 1) : before[i] = s[i]
  OBVIOUS
<1>3. /\ after \in Seq(Fields) /\ Len(after) = n - at + 1
      /\ \A i \in 1..(n - at + 1) : after[i] = s[at + i - 1]
  OBVIOUS
<1>4. Seqs!InsertAt(s, at, e) = before \o <<e>> \o after
  BY DEF Seqs!InsertAt
<1> HIDE DEF before, after, n
<1> DEFINE head == before \o <<e>>
<1>5. /\ head \in Seq(Fields) /\ Len(head) = at
      /\ \A i \in 1..at : head[i] = IF i < at THEN s[i] ELSE e
  BY <1>1, <1>2
<1>6. Seqs!InsertAt(s, at, e) = head \o after
  BY <1>4
<1> HIDE DEF head
<1>7. /\ head \o after \in Seq(Fields) /\ Len(head \o after) = n + 1
      /\ \A i \in 1..(n + 1) :
            (head \o after)[i] = IF i <= at THEN head[i] ELSE after[i - at]
  <2>1. Len(head) \in Nat /\ Len(after) \in Nat /\ Len(head) + Len(after) = n + 1
    BY <1>1, <1>3, <1>5
  <2>2. /\ head \o after \in Seq(Fields) /\ Len(head \o after) = Len(head) + Len(after)
        /\ \A i \in 1..(Len(head) + Len(after)) :
              (head \o after)[i] = IF i <= Len(head) THEN head[i] ELSE after[i - Len(head)]
    BY <1>3, <1>5, Joined
  <2> QED
    BY <1>5, <2>1, <2>2
<1>8. ASSUME NEW i \in 1..(n + 1), ~(i <= at)
      PROVE  after[i - at] = s[i - 1]
  <2>1. i - at \in 1..(n - at + 1) /\ at + (i - at) - 1 = i - 1
    BY <1>1, <1>8
  <2> QED
    BY <1>3, <2>1
<1>9. ASSUME NEW i \in 1..(n + 1)
      PROVE  (head \o after)[i] = IF i < at THEN s[i] ELSE IF i = at THEN e ELSE s[i - 1]
  <2>1. CASE i <= at
    BY <1>1, <1>5, <1>7, <2>1
  <2>2. CASE ~(i <= at)
    BY <1>1, <1>7, <1>8, <2>2
  <2> QED
    BY <2>1, <2>2
<1> QED
  BY <1>6, <1>7, <1>9 DEF Inserted, n

LEMMA RemoveAtIs ==
    ASSUME NEW S, NEW s \in Seq(S), NEW at \in DOMAIN s
    PROVE  /\ Seqs!RemoveAt(s, at) \in Seq(S)
           /\ Len(Seqs!RemoveAt(s, at)) = Len(s) - 1
           /\ \A i \in 1..(Len(s) - 1) :
                 Seqs!RemoveAt(s, at)[i] = IF i < at THEN s[i] ELSE s[i + 1]
<1> DEFINE before == SubSeq(s, 1, at - 1)
           after == SubSeq(s, at + 1, Len(s))
<1>1. /\ before \in Seq(S) /\ Len(before) = at - 1
      /\ \A i \in 1..(at - 1) : before[i] = s[i]
  OBVIOUS
<1>2. /\ after \in Seq(S) /\ Len(after) = Len(s) - at
      /\ \A i \in 1..(Len(s) - at) : after[i] = s[at + i]
  OBVIOUS
<1>3. Seqs!RemoveAt(s, at) = before \o after
  BY DEF Seqs!RemoveAt
<1> HIDE DEF before, after
<1>4. /\ before \o after \in Seq(S) /\ Len(before \o after) = Len(s) - 1
      /\ \A i \in 1..(Len(s) - 1) :
            (before \o after)[i] = IF i <= at - 1 THEN before[i] ELSE after[i - (at - 1)]
  <2>1. Len(before) + Len(after) = Len(s) - 1
    BY <1>1, <1>2
  <2>2. /\ before \o after \in Seq(S) /\ Len(before \o after) = Len(before) + Len(after)
        /\ \A i \in 1..(Len(before) + Len(after)) :
              (before \o after)[i] =
                  IF i <= Len(before) THEN before[i] ELSE after[i - Len(before)]
    BY <1>1, <1>2, Joined
  <2> QED
    BY <1>1, <2>1, <2>2
<1>5. ASSUME NEW i \in 1..(Len(s) - 1), ~(i < at)
      PROVE  after[i - (at - 1)] = s[i + 1]
  <2>1. i - (at - 1) \in 1..(Len(s) - at) /\ at + (i - (at - 1)) = i + 1
    BY <1>5
  <2> QED
    BY <1>2, <2>1
<1>6. ASSUME NEW i \in 1..(Len(s) - 1)
      PROVE  (before \o after)[i] = IF i < at THEN s[i] ELSE s[i + 1]
  <2>1. at \in Int /\ (i <= at - 1 <=> i < at)
    OBVIOUS
  <2>2. CASE i < at
    <3>1. (before \o after)[i] = before[i] /\ i \in 1..(at - 1)
      BY <1>4, <2>1, <2>2
    <3> QED
      BY <1>1, <2>2, <3>1
  <2>3. CASE ~(i < at)
    <3>1. (before \o after)[i] = after[i - (at - 1)]
      BY <1>4, <2>1, <2>3
    <3> QED
      BY <1>5, <2>3, <3>1
  <2> QED
    BY <2>2, <2>3
<1> QED
  BY <1>3, <1>4, <1>6

LEMMA TypesKnown ==
    ASSUME NEW id \in 1..MaxId, NEW t \in TypesOf(id)
    PROVE  t \in AllTypes
BY DEF AllTypes

(* A type is promoted once. *)
LEMMA PromotedStays ==
    ASSUME NEW id, NEW t \in TypesOf(id), t \in DOMAIN Promoted
    PROVE  /\ Promoted[t] \in TypesOf(id)
           /\ \A u : CanPromote(u, t) => CanPromote(u, Promoted[t])
<1>1. DOMAIN Promoted = {"int", "float"} /\ Promoted["int"] = "long" /\ Promoted["float"] = "double"
  BY DEF Promoted
<1>2. \A u \in DOMAIN Promoted : Promoted[u] \notin DOMAIN Promoted
  BY <1>1
<1>3. t = TypeOf[id]
  BY <1>2 DEF TypesOf
<1>4. Promoted[t] \in TypesOf(id)
  BY <1>3 DEF TypesOf
<1>5. \A u : CanPromote(u, t) => u = t
  BY <1>2 DEF CanPromote
<1>6. CanPromote(t, Promoted[t])
  BY DEF CanPromote
<1> QED
  BY <1>4, <1>5, <1>6

(* The fields are of the schema: each has the id of one of its fields, and   *)
(* the type of that one, if not promoted; none is required that was not.     *)
OfSchema(fields) ==
    \A i \in DOMAIN fields : \E j \in DOMAIN schema :
        /\ fields[i].id = schema[j].id /\ fields[i].default = schema[j].default
        /\ fields[i].required => schema[j].required
        /\ \/ fields[i].type = schema[j].type
           \/ schema[j].type \in DOMAIN Promoted /\ fields[i].type = Promoted[schema[j].type]

(* A change that adds no field. *)
LEMMA Rearranged ==
    ASSUME CInv, NEW fields \in Seq(Fields), Evolve(fields), lastId' = lastId,
           Once(fields), OfSchema(fields)
    PROVE  CInv'
<1>1. schema' = fields /\ batch' = None /\ file' = file
  BY DEF Evolve
<1>2. ASSUME NEW i \in DOMAIN fields
      PROVE  /\ fields[i].type \in TypesOf(fields[i].id)
             /\ fields[i].id <= lastId
             /\ file # None =>
                   \A x \in DOMAIN file.columns :
                       file.columns[x].id = fields[i].id
                           => CanPromote(file.columns[x].type, fields[i].type)
  <2>1. PICK j \in DOMAIN schema :
            /\ fields[i].id = schema[j].id
            /\ \/ fields[i].type = schema[j].type
               \/ /\ schema[j].type \in DOMAIN Promoted
                  /\ fields[i].type = Promoted[schema[j].type]
    BY DEF OfSchema
  <2>2. schema[j].type \in TypesOf(schema[j].id) /\ schema[j].id <= lastId
    BY DEF CInv, SchemaInv, OfItsTypes, GivenBy
  <2>3. file # None =>
            \A x \in DOMAIN file.columns :
                file.columns[x].id = schema[j].id
                    => CanPromote(file.columns[x].type, schema[j].type)
    BY DEF CInv, FileInv, Readable
  <2>4. CASE fields[i].type = schema[j].type
    BY <2>1, <2>2, <2>3, <2>4
  <2>5. CASE /\ schema[j].type \in DOMAIN Promoted
             /\ fields[i].type = Promoted[schema[j].type]
    <3>1. /\ fields[i].type \in TypesOf(schema[j].id)
          /\ \A u : CanPromote(u, schema[j].type) => CanPromote(u, fields[i].type)
      BY <2>2, <2>5, PromotedStays
    <3> QED
      BY <2>1, <2>2, <2>3, <3>1
  <2> QED
    BY <2>1, <2>4, <2>5
<1>3. SchemaInv'
  BY <1>1, <1>2 DEF CInv, SchemaInv, OfItsTypes, GivenBy
<1>4. FileInv'
  <2>1. file # None => Filled(file.columns, fields)
    BY DEF CInv, FileInv, Filled, OfSchema
  <2> QED
    BY <1>1, <1>2, <2>1 DEF CInv, FileInv, Readable
<1>5. BatchInv'
  BY <1>1 DEF BatchInv
<1> QED
  BY <1>3, <1>4, <1>5 DEF CInv

LEMMA InitEstablishesCInv == Init => CInv
<1> SUFFICES ASSUME Init
             PROVE  CInv
  OBVIOUS
<1>1. PICK n \in 1..2 : \E required \in [1..n -> BOOLEAN], name \in [1..n -> Names] :
          /\ schema = [i \in 1..n |-> Field(i, name[i], required[i], None)]
          /\ lastId = n
  BY DEF Init
<1>2. PICK required \in [1..n -> BOOLEAN], name \in [1..n -> Names] :
          /\ schema = [i \in 1..n |-> Field(i, name[i], required[i], None)]
          /\ lastId = n
  BY <1>1
<1>3. n \in Nat /\ n \in 1..MaxId /\ 1..n \subseteq 1..MaxId
  BY ColumnAssumption
<1>4. ASSUME NEW i \in 1..n
      PROVE  schema[i] \in Fields /\ schema[i].id = i /\ schema[i].type \in TypesOf(i)
  <2>1. schema[i] = Field(i, name[i], required[i], None)
    BY <1>2
  <2>2. TypeOf[i] \in TypesOf(i) /\ i \in 1..MaxId
    BY <1>3 DEF TypesOf
  <2>3. TypeOf[i] \in AllTypes
    BY <2>2, TypesKnown
  <2> QED
    BY <2>1, <2>2, <2>3 DEF Field, Fields
<1>5. schema \in Seq(Fields) /\ DOMAIN schema = 1..n
  BY <1>2, <1>3, <1>4
<1>6. SchemaInv
  BY <1>2, <1>3, <1>4, <1>5 DEF SchemaInv, Once, OfItsTypes, GivenBy
<1> QED
  BY <1>6 DEF Init, CInv, FileInv, BatchInv

LEMMA AddColumnStep == CInv /\ AddColumn => CInv'
<1> SUFFICES ASSUME CInv, AddColumn
             PROVE  CInv'
  OBVIOUS
<1> DEFINE id == lastId + 1
<1>1. PICK name \in Names, default \in {None, "initial"}, at \in 0..Len(schema) :
          Evolve(Seqs!InsertAt(schema, at + 1, Field(id, name, default # None, default)))
  BY DEF AddColumn
<1> DEFINE new == Field(id, name, default # None, default)
           n == Len(schema)
           pos == at + 1
           fields == Seqs!InsertAt(schema, pos, new)
<1>2. /\ schema \in Seq(Fields) /\ n \in Nat /\ id \in 1..MaxId /\ lastId \in 1..MaxId
      /\ lastId' = id /\ lastId < id
  BY ColumnAssumption DEF AddColumn, CInv, SchemaInv
<1>3. new \in Fields /\ new.id = id /\ new.type \in TypesOf(id)
  <2>1. TypeOf[id] \in TypesOf(id)
    BY DEF TypesOf
  <2>2. TypeOf[id] \in AllTypes
    BY <1>2, <2>1, TypesKnown
  <2> HIDE DEF id
  <2> QED
    BY <1>2, <2>1, <2>2 DEF Field, Fields
<1> HIDE DEF new, id
<1>4. /\ fields \in Seq(Fields) /\ Len(fields) = n + 1
      /\ \A i \in 1..(n + 1) :
            fields[i] = IF i < pos THEN schema[i] ELSE IF i = pos THEN new ELSE schema[i - 1]
  <2>0. pos \in 1..(Len(schema) + 1)
    BY <1>2
  <2> HIDE DEF fields, pos
  <2>1. fields = Seqs!InsertAt(schema, pos, new)
    BY DEF fields
  <2>2. /\ schema \in Seq(Fields) /\ new \in Fields /\ pos \in 1..(Len(schema) + 1)
    BY <1>2, <1>3, <2>0
  <2>3. Inserted(schema, pos, new, fields)
    BY <2>1, <2>2, InsertAtIs
  <2> QED
    BY <2>3 DEF Inserted
<1>5. schema' = fields /\ batch' = None /\ file' = file
  BY <1>1 DEF Evolve, new
<1> HIDE DEF fields
<1>6. DOMAIN fields = 1..(n + 1) /\ DOMAIN schema = 1..n
  BY <1>2, <1>4
<1>7. \A j \in 1..n : /\ schema[j].id \in 1..MaxId /\ schema[j].id <= lastId
                     /\ schema[j].type \in TypesOf(schema[j].id)
  <2>1. \A j \in 1..n : schema[j] \in Fields
    BY <1>2, <1>6
  <2>2. \A f \in Fields : f.id \in 1..MaxId
    BY DEF Fields
  <2> QED
    BY <1>6, <2>1, <2>2 DEF CInv, SchemaInv, OfItsTypes, GivenBy
<1>8. \A i \in 1..(n + 1) :
          \/ i = at + 1 /\ fields[i] = new
          \/ i <= at /\ i \in 1..n /\ fields[i] = schema[i]
          \/ i > at + 1 /\ i - 1 \in 1..n /\ fields[i] = schema[i - 1]
  BY <1>2, <1>4
<1>9. Once(fields)
  <2> SUFFICES ASSUME NEW i \in 1..(n + 1), NEW j \in 1..(n + 1), fields[i].id = fields[j].id
               PROVE  i = j
    BY <1>6 DEF Once
  <2>1. \A x, y \in 1..n : schema[x].id = schema[y].id => x = y
    BY <1>6 DEF CInv, SchemaInv, Once
  <2>2. \A x \in 1..n : schema[x].id # new.id
    BY <1>2, <1>3, <1>7
  <2>3. \/ i = at + 1 /\ j = at + 1
        \/ i # at + 1 /\ j # at + 1
    <3>1. ASSUME NEW x \in 1..(n + 1), NEW y \in 1..(n + 1), x = at + 1, y # at + 1
          PROVE  fields[x].id # fields[y].id
      <4>1. fields[x] = new
        BY <1>8, <3>1
      <4>2. PICK z \in 1..n : fields[y] = schema[z]
        BY <1>8, <3>1
      <4> QED
        BY <2>2, <4>1, <4>2
    <3> QED
      BY <3>1
  <2>4. CASE i <= at /\ j <= at
    BY <1>8, <2>1, <2>4
  <2>5. CASE i > at + 1 /\ j > at + 1
    <3>1. /\ i - 1 \in 1..n /\ fields[i] = schema[i - 1]
          /\ j - 1 \in 1..n /\ fields[j] = schema[j - 1]
      BY <1>8, <2>5
    <3>2. i - 1 = j - 1
      BY <2>1, <3>1
    <3> QED
      BY <3>2
  <2>6. CASE i <= at /\ j > at + 1
    <3>1. i = j - 1
      BY <1>8, <2>1, <2>6
    <3> QED
      BY <2>6, <3>1
  <2>7. CASE i > at + 1 /\ j <= at
    <3>1. i - 1 = j
      BY <1>8, <2>1, <2>7
    <3> QED
      BY <2>7, <3>1
  <2> QED
    BY <1>8, <2>3, <2>4, <2>5, <2>6, <2>7
<1>10. ASSUME NEW i \in 1..(n + 1)
       PROVE  fields[i].id <= id /\ fields[i].type \in TypesOf(fields[i].id)
  <2>1. \A j \in 1..n : schema[j].id <= id
    <3> TAKE j \in 1..n
    <3>1. schema[j].id \in Int /\ lastId \in Int /\ id \in Int
      BY <1>2, <1>7
    <3> QED
      BY <1>2, <1>7, <3>1
  <2>2. new.id <= id
    BY <1>2, <1>3
  <2> QED
    BY <1>3, <1>7, <1>8, <2>1, <2>2
<1>11. SchemaInv'
  BY <1>2, <1>4, <1>5, <1>6, <1>9, <1>10 DEF SchemaInv, OfItsTypes, GivenBy
<1>12. FileInv'
  <2> SUFFICES ASSUME file # None
               PROVE  FileInv'
    BY <1>5 DEF FileInv
  <2>1. \A x \in DOMAIN file.columns : /\ file.columns[x].id \in 1..MaxId
                                       /\ file.columns[x].id <= lastId
    <3>1. file.columns \in Seq(Columns) /\ GivenBy(file.columns, lastId)
      BY DEF CInv, FileInv
    <3>2. \A c \in Columns : c.id \in 1..MaxId
      BY DEF Columns
    <3> QED
      BY <3>1, <3>2 DEF GivenBy
  <2>2. \A x \in DOMAIN file.columns : file.columns[x].id # new.id /\ file.columns[x].id <= id
    BY <1>2, <1>3, <2>1
  <2>3. \A x \in DOMAIN file.columns, j \in 1..n :
            file.columns[x].id = schema[j].id => CanPromote(file.columns[x].type, schema[j].type)
    BY <1>6 DEF CInv, FileInv, Readable
  <2>4. Readable(file.columns, fields)
    BY <1>6, <1>8, <2>2, <2>3 DEF Readable
  <2>5. Filled(file.columns, fields)
    <3>1. new.required => new.default # None
      BY DEF new, Field
    <3>2. \A j \in 1..n : schema[j].required
              => schema[j].default # None \/ schema[j].id \in IdsOf(file.columns)
      BY <1>6 DEF CInv, FileInv, Filled
    <3> QED
      BY <1>6, <1>8, <3>1, <3>2 DEF Filled
  <2> QED
    BY <1>2, <1>5, <2>2, <2>4, <2>5 DEF CInv, FileInv, GivenBy
<1>13. BatchInv'
  BY <1>5 DEF BatchInv
<1> QED
  BY <1>11, <1>12, <1>13 DEF CInv

LEMMA DropColumnStep == CInv /\ DropColumn => CInv'
<1> SUFFICES ASSUME CInv, DropColumn
             PROVE  CInv'
  OBVIOUS
<1>1. PICK at \in DOMAIN schema : Evolve(Seqs!RemoveAt(schema, at))
  BY DEF DropColumn
<1> DEFINE fields == Seqs!RemoveAt(schema, at)
           n == Len(schema)
<1>2. schema \in Seq(Fields) /\ n \in Nat /\ at \in 1..n
  BY DEF CInv, SchemaInv
<1>3. /\ fields \in Seq(Fields) /\ Len(fields) = n - 1
      /\ \A i \in 1..(n - 1) : fields[i] = IF i < at THEN schema[i] ELSE schema[i + 1]
  <2> HIDE DEF fields
  <2>1. fields = Seqs!RemoveAt(schema, at)
    BY DEF fields
  <2> QED
    BY <1>2, <2>1, RemoveAtIs
<1>4. Evolve(fields) /\ lastId' = lastId
  BY <1>1 DEF DropColumn
<1> HIDE DEF fields
<1>5. DOMAIN fields = 1..(n - 1) /\ DOMAIN schema = 1..n
  BY <1>2, <1>3
<1>6. \A i \in 1..(n - 1) :
          \/ i < at /\ i \in 1..n /\ fields[i] = schema[i]
          \/ ~(i < at) /\ i + 1 \in 1..n /\ fields[i] = schema[i + 1]
  BY <1>2, <1>3
<1>7. OfSchema(fields)
  BY <1>5, <1>6 DEF OfSchema
<1>8. Once(fields)
  <2> SUFFICES ASSUME NEW i \in 1..(n - 1), NEW j \in 1..(n - 1), fields[i].id = fields[j].id
               PROVE  i = j
    BY <1>5 DEF Once
  <2>1. \A x, y \in 1..n : schema[x].id = schema[y].id => x = y
    BY <1>5 DEF CInv, SchemaInv, Once
  <2>2. CASE i < at /\ j < at
    BY <1>6, <2>1, <2>2
  <2>3. CASE ~(i < at) /\ ~(j < at)
    <3>1. i + 1 = j + 1
      BY <1>6, <2>1, <2>3
    <3> QED
      BY <3>1
  <2>4. CASE i < at /\ ~(j < at)
    <3>1. i = j + 1
      BY <1>6, <2>1, <2>4
    <3> QED
      BY <1>2, <2>4, <3>1
  <2>5. CASE ~(i < at) /\ j < at
    <3>1. i + 1 = j
      BY <1>6, <2>1, <2>5
    <3> QED
      BY <1>2, <2>5, <3>1
  <2> QED
    BY <2>2, <2>3, <2>4, <2>5
<1> QED
  BY <1>3, <1>4, <1>7, <1>8, Rearranged

(* A change of one field that keeps its id. *)
LEMMA Changed ==
    ASSUME CInv, NEW at \in DOMAIN schema, NEW f \in Fields, f.id = schema[at].id,
           f.default = schema[at].default, f.required => schema[at].required,
           \/ f.type = schema[at].type
           \/ schema[at].type \in DOMAIN Promoted /\ f.type = Promoted[schema[at].type],
           Evolve([schema EXCEPT ![at] = f]), lastId' = lastId
    PROVE  CInv'
<1> DEFINE fields == [schema EXCEPT ![at] = f]
<1>1. schema \in Seq(Fields)
  BY DEF CInv, SchemaInv
<1>2. fields \in Seq(Fields) /\ DOMAIN fields = DOMAIN schema
  BY <1>1
<1>3. \A i \in DOMAIN schema : fields[i] = IF i = at THEN f ELSE schema[i]
  BY <1>1
<1> HIDE DEF fields
<1>4. OfSchema(fields)
  BY <1>2, <1>3 DEF OfSchema
<1>5. \A i \in DOMAIN schema : fields[i].id = schema[i].id
  BY <1>3
<1>6. Once(fields)
  BY <1>2, <1>5 DEF CInv, SchemaInv, Once
<1> QED
  BY <1>2, <1>4, <1>6, Rearranged DEF fields

LEMMA RenameColumnStep == CInv /\ RenameColumn => CInv'
<1> SUFFICES ASSUME CInv, RenameColumn
             PROVE  CInv'
  OBVIOUS
<1>1. PICK at \in DOMAIN schema, name \in Names : Evolve([schema EXCEPT ![at].name = name])
  BY DEF RenameColumn
<1> DEFINE f == [schema[at] EXCEPT !.name = name]
<1>2. schema[at] \in Fields
  BY DEF CInv, SchemaInv
<1>3. /\ f \in Fields /\ f.id = schema[at].id /\ f.type = schema[at].type
      /\ f.default = schema[at].default /\ (f.required => schema[at].required)
  BY <1>2 DEF Fields
<1>4. Evolve([schema EXCEPT ![at] = f]) /\ lastId' = lastId
  BY <1>1 DEF RenameColumn
<1> HIDE DEF f
<1> QED
  BY <1>3, <1>4, Changed

LEMMA MakeOptionalStep == CInv /\ MakeOptional => CInv'
<1> SUFFICES ASSUME CInv, MakeOptional
             PROVE  CInv'
  OBVIOUS
<1>1. PICK at \in DOMAIN schema : Evolve([schema EXCEPT ![at].required = FALSE])
  BY DEF MakeOptional
<1> DEFINE f == [schema[at] EXCEPT !.required = FALSE]
<1>2. schema[at] \in Fields
  BY DEF CInv, SchemaInv
<1>3. /\ f \in Fields /\ f.id = schema[at].id /\ f.type = schema[at].type
      /\ f.default = schema[at].default /\ (f.required => schema[at].required)
  BY <1>2 DEF Fields
<1>4. Evolve([schema EXCEPT ![at] = f]) /\ lastId' = lastId
  BY <1>1 DEF MakeOptional
<1> HIDE DEF f
<1> QED
  BY <1>3, <1>4, Changed

LEMMA PromoteColumnStep == CInv /\ PromoteColumn => CInv'
<1> SUFFICES ASSUME CInv, PromoteColumn
             PROVE  CInv'
  OBVIOUS
<1>1. PICK at \in DOMAIN schema :
          /\ schema[at].type \in DOMAIN Promoted
          /\ Evolve([schema EXCEPT ![at].type = Promoted[schema[at].type]])
  BY DEF PromoteColumn
<1> DEFINE f == [schema[at] EXCEPT !.type = Promoted[schema[at].type]]
<1>2. /\ schema[at] \in Fields /\ schema[at].id \in 1..MaxId
      /\ schema[at].type \in TypesOf(schema[at].id)
  <2>1. schema \in Seq(Fields) /\ OfItsTypes(schema)
    BY DEF CInv, SchemaInv
  <2>2. schema[at] \in Fields
    BY <2>1
  <2> QED
    BY <2>1, <2>2 DEF OfItsTypes, Fields
<1>3. Promoted[schema[at].type] \in AllTypes
  BY <1>1, <1>2, PromotedStays, TypesKnown
<1>4. /\ f \in Fields /\ f.id = schema[at].id /\ f.type = Promoted[schema[at].type]
      /\ f.default = schema[at].default /\ (f.required => schema[at].required)
  BY <1>2, <1>3 DEF Fields
<1>5. Evolve([schema EXCEPT ![at] = f]) /\ lastId' = lastId
  BY <1>1 DEF PromoteColumn
<1> HIDE DEF f
<1> QED
  BY <1>1, <1>4, <1>5, Changed

LEMMA MoveColumnStep == CInv /\ MoveColumn => CInv'
<1> SUFFICES ASSUME CInv, MoveColumn
             PROVE  CInv'
  OBVIOUS
<1>1. PICK at \in 1..(Len(schema) - 1) :
          Evolve([schema EXCEPT ![at] = schema[at + 1], ![at + 1] = schema[at]])
  BY DEF MoveColumn
<1> DEFINE fields == [schema EXCEPT ![at] = schema[at + 1], ![at + 1] = schema[at]]
<1>2. schema \in Seq(Fields) /\ at \in DOMAIN schema /\ at + 1 \in DOMAIN schema
  BY DEF CInv, SchemaInv
<1>3. fields \in Seq(Fields) /\ DOMAIN fields = DOMAIN schema
  BY <1>2
<1>4. \A i \in DOMAIN schema :
          fields[i] = IF i = at THEN schema[at + 1]
                      ELSE IF i = at + 1 THEN schema[at] ELSE schema[i]
  BY <1>2
<1>5. Evolve(fields) /\ lastId' = lastId
  BY <1>1 DEF MoveColumn
<1> HIDE DEF fields
<1>6. OfSchema(fields)
  BY <1>2, <1>3, <1>4 DEF OfSchema
<1>7. Once(fields)
  <2>1. \A x, y \in DOMAIN schema : schema[x].id = schema[y].id => x = y
    BY DEF CInv, SchemaInv, Once
  <2>2. at # at + 1
    OBVIOUS
  <2> QED
    BY <1>2, <1>3, <1>4, <2>1, <2>2 DEF Once
<1> QED
  BY <1>3, <1>5, <1>6, <1>7, Rearranged

(* A new file has the schema of its time. *)
LEMMA WriteFileStep == CInv /\ WriteFile => CInv'
<1> SUFFICES ASSUME CInv, WriteFile
             PROVE  CInv'
  OBVIOUS
<1>1. /\ UNCHANGED <<schema, lastId, renames, batch>> /\ file = None
      /\ ~file'.hasIds => \A i \in DOMAIN schema : schema[i].id = i
      /\ file'.columns = [i \in DOMAIN schema |->
                            [id |-> schema[i].id, name |-> schema[i].name,
                             type |-> schema[i].type, required |-> schema[i].required]]
  BY DEF WriteFile
<1> DEFINE columns == file'.columns
<1>2. schema \in Seq(Fields)
  BY DEF CInv, SchemaInv
<1>3. ASSUME NEW i \in DOMAIN schema
      PROVE  /\ columns[i] \in Columns
             /\ columns[i].id = schema[i].id /\ columns[i].type = schema[i].type
  <2>1. schema[i] \in Fields
    BY <1>2
  <2> QED
    BY <1>1, <2>1 DEF Fields, Columns
<1>4. columns \in Seq(Columns) /\ DOMAIN columns = DOMAIN schema
  BY <1>1, <1>2, <1>3
<1> HIDE DEF columns
<1>5. Once(columns) /\ OfItsTypes(columns) /\ GivenBy(columns, lastId)
  BY <1>3, <1>4 DEF CInv, SchemaInv, Once, OfItsTypes, GivenBy
<1>6. Readable(columns, schema)
  <2> SUFFICES ASSUME NEW i \in DOMAIN schema, NEW j \in DOMAIN schema, columns[i].id = schema[j].id
               PROVE  columns[i].type = schema[j].type
    BY <1>4 DEF Readable, CanPromote
  <2>1. i = j
    BY <1>3 DEF CInv, SchemaInv, Once
  <2> QED
    BY <1>3, <2>1
<1>7. ~file'.hasIds => \A i \in DOMAIN columns : columns[i].id = i
  BY <1>1, <1>3, <1>4
<1>8. FileInv'
  <2>1. Filled(columns, schema)
    BY <1>3, <1>4 DEF Filled, IdsOf
  <2> QED
    BY <1>1, <1>4, <1>5, <1>6, <1>7, <2>1 DEF FileInv, columns
<1>9. SchemaInv'
  BY <1>1 DEF CInv, SchemaInv
<1>10. BatchInv'
  BY <1>1 DEF CInv, BatchInv
<1> QED
  BY <1>8, <1>9, <1>10 DEF CInv

(* What is read depends on the schema and the file. *)
LEMMA SameRead ==
    ASSUME UNCHANGED <<schema, file>>, NEW selection
    PROVE  Transform(SourceColumns(ProjectionMask(selection)), selection)'
               = Transform(SourceColumns(ProjectionMask(selection)), selection)
BY DEF Transform, SourceColumns, ProjectionMask, MaskWithFieldIds, MaskFallback, All,
       TargetFields, CompareSchemas, PassThrough, ModifySchema, Modify, ColumnSource, FieldOf

LEMMA ReadFileStep == CInv /\ ReadFile => CInv'
<1> SUFFICES ASSUME CInv, ReadFile
             PROVE  CInv'
  OBVIOUS
<1>1. file # None /\ UNCHANGED <<schema, lastId, renames, file>>
  BY DEF ReadFile
<1>2. PICK ids \in SUBSET IdsOf(schema) : \E selection \in Seqs!SetToSeqs(ids) :
          batch' = [selection |-> selection,
                    columns |-> Transform(SourceColumns(ProjectionMask(selection)), selection)]
  BY DEF ReadFile
<1>3. PICK selection \in Seqs!SetToSeqs(ids) :
          batch' = [selection |-> selection,
                    columns |-> Transform(SourceColumns(ProjectionMask(selection)), selection)]
  BY <1>2
<1>4. selection \in Seq(IdsOf(schema))
  <2>1. IsFiniteSet(IdsOf(schema))
    <3>1. DOMAIN schema = 1..Len(schema) /\ Len(schema) \in Nat
      BY DEF CInv, SchemaInv
    <3>2. IsFiniteSet(DOMAIN schema)
      BY <3>1, FS_Interval
    <3> DEFINE D == DOMAIN schema
               idAt == [i \in D |-> schema[i].id]
    <3>3. {idAt[i] : i \in D} = IdsOf(schema)
      BY DEF IdsOf
    <3> HIDE DEF idAt
    <3>4. IsFiniteSet({idAt[i] : i \in D})
      <4>1. DOMAIN idAt = D /\ idAt \in [D -> {idAt[i] : i \in D}]
        BY DEF idAt
      <4> DEFINE R == {idAt[i] : i \in D}
      <4>2. \A y \in R : \E x \in D : idAt[x] = y
        OBVIOUS
      <4>3. idAt \in Surjection(D, R)
        BY <4>1, <4>2 DEF Surjection
      <4> HIDE DEF R, D
      <4> QED
        BY <3>2, <4>3, FS_Surjection DEF D, R
    <3> QED
      BY <3>3, <3>4
  <2>2. Cardinality(ids) \in Nat
    BY <2>1, FS_Subset, FS_CardinalityType
  <2>3. selection \in [1..Cardinality(ids) -> ids]
    BY DEF Seqs!SetToSeqs, Seqs!Cardinality, Cardinality
  <2> QED
    BY <2>2, <2>3
<1>5. SchemaInv' /\ FileInv'
  BY <1>1 DEF CInv, SchemaInv, FileInv
<1>6. Transform(SourceColumns(ProjectionMask(selection)), selection)'
        = Transform(SourceColumns(ProjectionMask(selection)), selection)
  BY <1>1, SameRead
<1>7. IdsOf(schema)' = IdsOf(schema)
  BY <1>1 DEF IdsOf
<1>8. BatchInv'
  BY <1>1, <1>3, <1>4, <1>6, <1>7 DEF BatchInv
<1> QED
  BY <1>5, <1>8 DEF CInv

LEMMA StepKeepsCInv == CInv /\ [Next]_vars => CInv'
<1> SUFFICES ASSUME CInv, [Next]_vars
             PROVE  CInv'
  OBVIOUS
<1>1. CASE AddColumn
  BY <1>1, AddColumnStep
<1>2. CASE DropColumn
  BY <1>2, DropColumnStep
<1>3. CASE RenameColumn
  BY <1>3, RenameColumnStep
<1>4. CASE MoveColumn
  BY <1>4, MoveColumnStep
<1>5. CASE PromoteColumn
  BY <1>5, PromoteColumnStep
<1>6. CASE MakeOptional
  BY <1>6, MakeOptionalStep
<1>7. CASE WriteFile
  BY <1>7, WriteFileStep
<1>8. CASE ReadFile
  BY <1>8, ReadFileStep
<1>9. CASE UNCHANGED vars
  <2>1. SchemaInv' /\ FileInv'
    BY <1>9 DEF vars, CInv, SchemaInv, FileInv
  <2>2. schema' = schema /\ file' = file /\ batch' = batch /\ IdsOf(schema)' = IdsOf(schema)
    BY <1>9 DEF vars, IdsOf
  <2>3. \A selection :
            Transform(SourceColumns(ProjectionMask(selection)), selection)'
                = Transform(SourceColumns(ProjectionMask(selection)), selection)
    BY <2>2, SameRead
  <2>4. BatchInv'
    BY <2>2, <2>3 DEF CInv, BatchInv
  <2> QED
    BY <2>1, <2>4 DEF CInv
<1> QED
  BY <1>1, <1>2, <1>3, <1>4, <1>5, <1>6, <1>7, <1>8, <1>9 DEF Next

LEMMA CInvHolds == Spec => []CInv
<1>1. Init => CInv
  BY InitEstablishesCInv
<1>2. CInv /\ [Next]_vars => CInv'
  BY StepKeepsCInv
<1> QED
  BY <1>1, <1>2, PTL DEF Spec

-----------------------------------------------------------------------------
(* Whatever the schema has become since a file was written, a column that is *)
(* read holds the data of the field that was asked for, or else that of      *)
(* another column of the same type and nullability in the file: the          *)
(* comparison of schemas by position is the one thing that can go wrong.     *)
THEOREM OnlyTwinsAreSwapped == Spec => []RightOrTwin
BY CInvHolds, ColumnsAreRight, PTL

(* Of any table: what is asked for in the order of the file, and what has no *)
(* twin in it, is read by its id.                                            *)
THEOREM FieldsAreReadById == Spec => []ReadsById
<1>1. CInv => ReadsById
  <2> SUFFICES ASSUME CInv, batch # None, NEW k \in DOMAIN batch.selection,
                      InFileOrder(batch.selection) \/ TwinsOf(batch.selection[k]) = {}
               PROVE  batch.columns[k].data = DataOf(batch.selection[k])
    BY DEF ReadsById
  <2>1. CASE TwinsOf(batch.selection[k]) = {}
    <3>1. RightOrTwin
      BY ColumnsAreRight
    <3> QED
      BY <2>1, <3>1 DEF RightOrTwin
  <2>2. CASE InFileOrder(batch.selection)
    <3> DEFINE selection == batch.selection
               id == selection[k]
               source == Source(selection)
               target == TargetFields(selection)
    <3>1. /\ file # None /\ selection \in Seq(IdsOf(schema)) /\ selection # << >>
          /\ batch.columns = Transform(source, selection)
      BY BatchIs
    <3>2. CASE CompareSchemas(source, target) # "Different"
      <4>1. PICK j \in DOMAIN schema : schema[j].id = id /\ FieldOf(id) = schema[j]
        <5>1. id \in IdsOf(schema)
          BY <3>1
        <5> QED
          BY <5>1, FieldAsked DEF CInv
      <4>2. /\ Len(source) = Len(selection)
            /\ batch.columns[k].data = FromFile(source[k].id) /\ id \notin file.constants
        <5>1. /\ Len(source) = Len(selection)
              /\ batch.columns[k] = Column(FieldOf(id).name, FieldOf(id).type,
                                           FieldOf(id).required, FromFile(source[k].id))
              /\ FieldOf(id).id \notin file.constants
          BY <3>1, <3>2, Kept
        <5>2. batch.columns[k].data = FromFile(source[k].id)
          <6> HIDE DEF id, source
          <6> QED
            BY <5>1 DEF Column
        <5> QED
          BY <4>1, <5>1, <5>2
      <4>3. source[k].id = id /\ id \in IdsOf(file.columns)
        BY <2>2, <3>1, <4>2, SameOrder
      <4> HIDE DEF source
      <4> QED
        BY <4>2, <4>3 DEF DataOf
    <3>3. CASE CompareSchemas(source, target) = "Different"
      <4>1. batch.columns[k] = Column(FieldOf(id).name, FieldOf(id).type, FieldOf(id).required,
                                      DataOf(id))
        BY <3>1, <3>3, LookedUp
      <4>2. batch.columns[k].data = DataOf(id)
        <5> HIDE DEF id
        <5> QED
          BY <4>1 DEF Column
      <4> QED
        BY <4>2
    <3> QED
      BY <3>2, <3>3
  <2> QED
    BY <2>1, <2>2
<1> QED
  BY <1>1, CInvHolds, PTL

(* The batches of all files have the columns of the table of today, in the   *)
(* order they were asked for, whatever the table was when the file was made  *)
(* and whether they were passed through, renamed or rebuilt; and no required *)
(* column is made up of NULL.                                                *)
THEOREM BatchesFitTogether == Spec => []BatchHasTheSchema
<1>1. CInv => BatchHasTheSchema
  <2> SUFFICES ASSUME CInv, batch # None
               PROVE  BatchHasTheSchema
    BY DEF BatchHasTheSchema
  <2> DEFINE selection == batch.selection
             source == Source(selection)
             target == TargetFields(selection)
  <2>1. /\ file # None /\ selection \in Seq(IdsOf(schema))
        /\ batch.columns = Transform(source, selection)
    BY BatchIs
  <2>2. ASSUME NEW k \in DOMAIN selection
        PROVE  /\ FieldOf(selection[k]).id = selection[k]
               /\ FieldOf(selection[k]).required => DataOf(selection[k]) # Null(selection[k])
    <3>1. PICK j \in DOMAIN schema :
              schema[j].id = selection[k] /\ FieldOf(selection[k]) = schema[j]
      <4>1. selection[k] \in IdsOf(schema)
        BY <2>1
      <4> QED
        BY <4>1, FieldAsked DEF CInv
    <3>2. schema[j].required
              => schema[j].default # None \/ schema[j].id \in IdsOf(file.columns)
      BY <2>1 DEF CInv, FileInv, Filled
    <3> QED
      BY <3>1, <3>2 DEF DataOf, Null, FromFile, FromDefault, FromPartition
  <2>3. /\ Len(batch.columns) = Len(selection)
        /\ \A k \in DOMAIN selection :
              \E data : /\ data = DataOf(selection[k]) \/ \E id : data = FromFile(id)
                       /\ batch.columns[k]
                              = Column(FieldOf(selection[k]).name, FieldOf(selection[k]).type,
                                       FieldOf(selection[k]).required, data)
    <3>1. CASE CompareSchemas(source, target) # "Different"
      BY <2>1, <3>1, Kept
    <3>2. CASE CompareSchemas(source, target) = "Different"
      BY <2>1, <3>2, LookedUp
    <3> QED
      BY <3>1, <3>2
  <2> HIDE DEF source, target
  <2>4. ASSUME NEW k \in DOMAIN selection
        PROVE  /\ batch.columns[k].name = FieldOf(selection[k]).name
               /\ batch.columns[k].type = FieldOf(selection[k]).type
               /\ batch.columns[k].required = FieldOf(selection[k]).required
               /\ FieldOf(selection[k]).required
                      => batch.columns[k].data # Null(FieldOf(selection[k]).id)
    <3> DEFINE f == FieldOf(selection[k])
    <3>1. PICK data : /\ data = DataOf(selection[k]) \/ \E id : data = FromFile(id)
                      /\ batch.columns[k] = Column(f.name, f.type, f.required, data)
      BY <2>3
    <3>2. f.required => data # Null(f.id)
      <4>1. \A x, y : FromFile(x) # Null(y)
        BY DEF FromFile, Null
      <4> QED
        BY <2>2, <3>1, <4>1
    <3> HIDE DEF f
    <3>3. /\ batch.columns[k].name = f.name /\ batch.columns[k].type = f.type
          /\ batch.columns[k].required = f.required /\ batch.columns[k].data = data
      BY <3>1 DEF Column
    <3> QED
      BY <3>2, <3>3 DEF f
  <2> QED
    BY <2>3, <2>4 DEF BatchHasTheSchema
<1> QED
  BY <1>1, CInvHolds, PTL
=============================================================================
