---------------------------- MODULE TablesProofs ----------------------------
(***************************************************************************)
(* Proofs about Tables, for any databases: the reply describes the tables  *)
(* as they were declared, their sizes are sizes they had while the query   *)
(* ran, however they grow and whichever are dropped meanwhile, and no list *)
(* fails because of them.                                                  *)
(***************************************************************************)
EXTENDS Tables, FiniteSetTheorems, TLAPS

\* The functions that enumerate N in ascending order.
Ascending(N) ==
  {e \in [1..Cardinality(N) -> N] :
     \A i, j \in 1..Cardinality(N) : i < j => e[i] < e[j]}

\* A row of pg_constraint.
ConstraintRow(con, o) ==
  [conname |-> con.name, conrelid |-> o, contype |-> con.type,
   conkey |-> con.key, confrelid |-> con.ftable, confkey |-> con.fkey]

\* A row has its six parts, evaluated or not.
ShapeInv ==
  /\ row = [o \in Selected |-> row[o]]
  /\ \A o \in Selected : DOMAIN row[o] = DOMAIN NoRow

\* Relations do not shrink, and a TOAST table goes with its table.
GrowthInv ==
  /\ \A r \in Relations : before[r] \leq size[r]
  /\ \A t \in design : /\ t.oid \in alive => t.toast \subseteq alive
                       /\ t.oid \notin alive => t.toast \cap alive = {}

\* What pg_relation_size has returned: a size the relation had since the query
\* began, or NULL because it is gone.
Measured(r, value) ==
  \/ value = NULL /\ r \notin alive
  \/ \E n \in value : value = {n} /\ n \in Nat /\ n \in before[r]..size[r]

\* Relations that count for the total size of a table whenever it is measured.
Kept(t) == {t.oid} \cup t.toast \cup (Storage(t) \cap alive)

\* What pg_total_relation_size has returned.
TotalMeasured(t, value) ==
  \/ value = NULL /\ t.oid \notin alive
  \/ \E n \in value :
       /\ value = {n} /\ n \in Nat
       /\ n \in Pages(Kept(t), before)..Pages(Storage(t), size)

\* The size of a TOAST table, or 0 without one.
ToastMeasured(t, n) ==
  /\ n \in Nat /\ (t.toast = NULL => n = 0)
  /\ \A r \in t.toast : SizeFaithful(r, n)

\* The sizes in a row r of the table o that is evaluated up to s.  A table
\* that was gone for the total size is gone for the others.
RowMeasured(o, s, r) ==
  /\ s # "joins" => \A idx \in Zero(r.indexes, {}) :
                      idx.name \in Relations /\ Measured(idx.name, idx.size_bytes)
  /\ s \in {"heap", "toast", "row"} => TotalMeasured(Table(o), r.total_size_bytes)
  /\ s \in {"toast", "row"} =>
       /\ Measured(o, r.heap_size_bytes)
       /\ r.total_size_bytes = NULL => r.heap_size_bytes = NULL
  /\ s = "row" =>
       /\ ToastMeasured(Table(o), r.toast_size_bytes)
       /\ r.total_size_bytes = NULL => r.toast_size_bytes = 0

RowInv == \A o \in Selected : RowMeasured(o, step[o], row[o])

\* The documents of a row r are such as the types of types.go take.
Decodes(r) ==
  /\ r.indexes # NULL => Unmarshal(r.indexes, SUBSET TableIndex)
  /\ r.constraints # NULL => Unmarshal(r.constraints, SUBSET TableConstraint)
  /\ r.parent_tables \in SUBSET Seq(InheritanceRelation)

\* What the joined sub-selects have left in a row r describes the table o.
Joined(o, r) ==
  /\ IndexesFaithful(Table(o), {IndexProto(idx) : idx \in Zero(r.indexes, {})})
  /\ ConstraintsFaithful(Table(o),
       {ConstraintProto(con) : con \in Zero(r.constraints, {})})
  /\ ParentsFaithful(Table(o), Zero(r.parent_tables, <<>>))
  /\ Decodes(r)

\* It does from their evaluation on, whatever is dropped since.
JoinsInv == \A o \in Selected : step[o] # "joins" => Joined(o, row[o])

\* The loop ends after the last row.
CodeInv ==
  /\ code # "none" => \A o \in Selected : step[o] = "row"
  /\ NoTableFailsTheList

IndInv == TypeOK /\ ShapeInv /\ GrowthInv /\ RowInv /\ JoinsInv /\ CodeInv

-----------------------------------------------------------------------------
(* Numbers in ascending order. *)

\* Numbers up to k have ranks that grow with them.
LEMMA RankGrows ==
  ASSUME NEW k \in Nat, NEW N \in SUBSET (1..k)
  PROVE  /\ IsFiniteSet(N) /\ Cardinality(N) \in Nat
         /\ \A i \in N : Rank(N, i) \in 1..Cardinality(N)
         /\ \A i, j \in N : i < j => Rank(N, i) < Rank(N, j)
<1>0. IsFiniteSet(1..k) /\ \A m \in N : m \in Nat
  BY FS_Interval
<1>1. IsFiniteSet(N)
  BY <1>0, FS_Subset
<1>2. Cardinality(N) \in Nat
  BY <1>1, FS_CardinalityType
<1> DEFINE upto(i) == {m \in N : m \leq i}
<1>3. ASSUME NEW i \in N
      PROVE  /\ IsFiniteSet(upto(i)) /\ Cardinality(upto(i)) \in Nat
             /\ Cardinality(upto(i)) \leq Cardinality(N)
             /\ Cardinality(upto(i)) # 0
  <2>1. upto(i) \in SUBSET N /\ i \in upto(i)
    OBVIOUS
  <2> HIDE DEF upto
  <2>2. IsFiniteSet(upto(i)) /\ Cardinality(upto(i)) \leq Cardinality(N)
    BY <1>1, <2>1, FS_Subset
  <2>3. Cardinality(upto(i)) \in Nat /\ (Cardinality(upto(i)) = 0 <=> upto(i) = {})
    BY <2>2, FS_CardinalityType, FS_EmptySet
  <2> QED
    BY <2>1, <2>2, <2>3
<1>4. ASSUME NEW i \in N, NEW j \in N, i < j
      PROVE  Cardinality(upto(i)) < Cardinality(upto(j))
  <2>1. \A m \in N : m \leq i => m \leq j
    BY <1>0, <1>4
  <2>2. upto(i) \in SUBSET upto(j)
    BY <2>1
  <2>3. j \in upto(j) /\ j \notin upto(i)
    BY <1>0, <1>4
  <2> HIDE DEF upto
  <2>4. upto(i) # upto(j)
    BY <2>3
  <2>5. /\ Cardinality(upto(i)) \leq Cardinality(upto(j))
        /\ Cardinality(upto(i)) # Cardinality(upto(j))
    BY <1>3, <2>2, <2>4, FS_Subset
  <2> QED
    BY <1>3, <2>5
<1>5. \A i : Rank(N, i) = Cardinality(upto(i))
  BY DEF Rank
<1> HIDE DEF upto
<1>6. \A i \in N : Rank(N, i) \in 1..Cardinality(N)
  BY <1>2, <1>3, <1>5
<1> QED
  BY <1>1, <1>2, <1>4, <1>5, <1>6

\* Different numbers have different ranks, and every rank is that of a number.
LEMMA RankCounts ==
  ASSUME NEW k \in Nat, NEW N \in SUBSET (1..k)
  PROVE  /\ \A i, j \in N : Rank(N, i) = Rank(N, j) => i = j
         /\ \A c \in 1..Cardinality(N) : \E i \in N : Rank(N, i) = c
<1> DEFINE c == Cardinality(N)
           r == [i \in N |-> Rank(N, i)]
<1>1. /\ IsFiniteSet(N) /\ c \in Nat
      /\ \A i \in N : Rank(N, i) \in 1..c
      /\ \A i, j \in N : i < j => Rank(N, i) < Rank(N, j)
  BY RankGrows
<1>2. \A i, j \in N : Rank(N, i) = Rank(N, j) => i = j
  <2> SUFFICES ASSUME NEW i \in N, NEW j \in N, i # j
               PROVE  Rank(N, i) # Rank(N, j)
    OBVIOUS
  <2>1. i < j \/ j < i
    OBVIOUS
  <2> QED
    BY <1>1, <2>1
<1>3. r \in Injection(N, 1..c)
  BY <1>1, <1>2 DEF Injection, IsInjective
<1>4. IsFiniteSet(1..c) /\ Cardinality(1..c) = c
  BY <1>1, FS_Interval
<1> HIDE DEF r
<1>5. r \in Surjection(N, 1..c)
  BY <1>3, <1>4, FS_Injection
<1> QED
  BY <1>2, <1>5 DEF r, Surjection

\* Two numbers of ranks that grow are in that order.
LEMMA RankOrders ==
  ASSUME NEW k \in Nat, NEW N \in SUBSET (1..k), NEW i \in N, NEW j \in N,
         Rank(N, i) < Rank(N, j)
  PROVE  i < j
<1>1. /\ Cardinality(N) \in Nat
      /\ Rank(N, i) \in 1..Cardinality(N) /\ Rank(N, j) \in 1..Cardinality(N)
      /\ j < i => Rank(N, j) < Rank(N, i)
  BY RankGrows
<1>2. i # j /\ ~(j < i)
  BY <1>1
<1> QED
  BY <1>2

\* A set of numbers can be enumerated in ascending order.
LEMMA InOrderAscends ==
  ASSUME NEW k \in Nat, NEW N \in SUBSET (1..k)
  PROVE  InOrder(N) \in Ascending(N)
<1> DEFINE c == Cardinality(N)
           e == [n \in 1..c |-> CHOOSE i \in N : Rank(N, i) = n]
<1>1. \A n \in 1..c : e[n] \in N /\ Rank(N, e[n]) = n
  BY RankCounts
<1>2. ASSUME NEW n \in 1..c, NEW m \in 1..c, n < m
      PROVE  e[n] < e[m]
  <2> HIDE DEF e
  <2>1. e[n] \in N /\ e[m] \in N /\ Rank(N, e[n]) < Rank(N, e[m])
    BY <1>1, <1>2
  <2> QED
    BY <2>1, RankOrders
<1>3. e \in [1..c -> N]
  BY <1>1
<1>4. e \in Ascending(N)
  <2> HIDE DEF e
  <2> QED
    BY <1>2, <1>3 DEF Ascending
<1> QED
  BY <1>4 DEF Ascending, InOrder

\* In such an enumeration each number stands at its rank.
LEMMA AscendingRank ==
  ASSUME NEW k \in Nat, NEW N \in SUBSET (1..k), NEW e \in Ascending(N),
         NEW n \in 1..Cardinality(N)
  PROVE  Rank(N, e[n]) = n
<1> DEFINE c == Cardinality(N)
           upto == {m \in N : m \leq e[n]}
           f == [i \in 1..n |-> e[i]]
<1>1. IsFiniteSet(N) /\ c \in Nat
  BY RankGrows
<1>2. /\ e \in [1..c -> N] /\ \A i, j \in 1..c : i < j => e[i] < e[j]
      /\ \A i \in 1..c : e[i] \in 1..k
  BY DEF Ascending
<1>3. \A i, j \in 1..c : i # j => e[i] # e[j]
  <2> SUFFICES ASSUME NEW i \in 1..c, NEW j \in 1..c, i # j
               PROVE  e[i] # e[j]
    OBVIOUS
  <2>1. i < j \/ j < i
    BY <1>1
  <2> QED
    BY <1>2, <2>1
<1>4. e \in Injection(1..c, N)
  BY <1>2, <1>3 DEF Injection, IsInjective
<1>5. IsFiniteSet(1..c) /\ Cardinality(1..c) = c
  BY <1>1, FS_Interval
<1>6. e \in Surjection(1..c, N)
  BY <1>1, <1>4, <1>5, FS_Injection
<1>7. f \in [1..n -> upto]
  <2> SUFFICES ASSUME NEW i \in 1..n PROVE e[i] \in upto
    OBVIOUS
  <2>1. i \in 1..c /\ n \in 1..c /\ (i = n \/ i < n)
    BY <1>1
  <2> QED
    BY <1>2, <2>1
<1>8. ASSUME NEW m \in upto PROVE \E i \in 1..n : f[i] = m
  <2>1. PICK i \in 1..c : e[i] = m
    BY <1>6 DEF Surjection
  <2>2. ~(n < i)
    BY <1>2, <2>1
  <2> QED
    BY <1>1, <2>1, <2>2
<1>9. \A i, j \in 1..n : f[i] = f[j] => i = j
  BY <1>1, <1>3
<1>10. f \in Bijection(1..n, upto)
  BY <1>7, <1>8, <1>9 DEF Bijection, Injection, Surjection, IsInjective
<1> HIDE DEF upto, f
<1>11. n \in Nat /\ ExistsBijection(1..n, upto)
  BY <1>1, <1>10 DEF ExistsBijection
<1>12. Cardinality(upto) = n
  BY <1>11, FS_CountingElements
<1> QED
  BY <1>12 DEF Rank, upto

\* The rows of an aggregate come in the order of their numbers.
LEMMA AggListed ==
  ASSUME NEW k \in Nat, NEW N \in SUBSET (1..k), NEW f,
         NEW S, S = {[n |-> i, value |-> f[i]] : i \in N}
  PROVE  Zero(AggOrdered(S), <<>>) = Listed(N, f)
<1> DEFINE c == Cardinality(N)
           e == InOrder(N)
           agg == [i \in 1..c |-> Ith(S, i).value]
<1>1. /\ e \in [1..c -> N] /\ IsFiniteSet(N) /\ c \in Nat
      /\ \A i \in 1..c : Rank(N, e[i]) = i
  BY InOrderAscends, AscendingRank, RankGrows DEF Ascending
<1>2. {x.n : x \in S} = N
  <2>1. \A x \in S : x.n \in N
    OBVIOUS
  <2>2. ASSUME NEW i \in N PROVE \E x \in S : x.n = i
    <3>1. [n |-> i, value |-> f[i]] \in S
      OBVIOUS
    <3> QED
      BY <3>1
  <2> QED
    BY <2>1, <2>2
<1>3. AggOrdered(S) = IF S = {} THEN NULL ELSE {agg}
  BY <1>2 DEF AggOrdered
<1>4. ASSUME NEW i \in 1..c PROVE agg[i] = f[e[i]]
  <2>1. PICK y \in S : y = [n |-> e[i], value |-> f[e[i]]]
    BY <1>1
  <2>2. Rank(N, y.n) = i
    BY <1>1, <2>1
  <2>3. ASSUME NEW x \in S, Rank(N, x.n) = i PROVE x = y
    <3>1. PICK j \in N : x = [n |-> j, value |-> f[j]]
      OBVIOUS
    <3>2. j = e[i]
      <4>1. Rank(N, j) = i /\ Rank(N, e[i]) = i /\ e[i] \in N
        BY <1>1, <2>3, <3>1
      <4> HIDE DEF e
      <4> QED
        BY <4>1, RankCounts
    <3> QED
      BY <2>1, <3>1, <3>2
  <2>4. Ith(S, i) = y
    BY <1>2, <2>2, <2>3 DEF Ith
  <2> QED
    BY <2>1, <2>4
<1>5. DOMAIN e = 1..c
  BY <1>1
<1>6. agg = Listed(N, f)
  BY <1>4, <1>5 DEF Listed
<1>7. CASE S = {}
  <2>1. N = {} /\ c = 0
    BY <1>7, FS_EmptySet
  <2>2. Listed(N, f) = [i \in {} |-> f[e[i]]]
    BY <1>5, <2>1 DEF Listed
  <2> QED
    BY <1>3, <1>7, <2>2 DEF Zero, NULL
<1>8. CASE S # {}
  <2> HIDE DEF agg
  <2> QED
    BY <1>3, <1>6, <1>8 DEF Zero, NULL
<1> QED
  BY <1>7, <1>8

\* There is one such enumeration.
LEMMA InOrderUnique ==
  ASSUME NEW k \in Nat, NEW N \in SUBSET (1..k), NEW e \in Ascending(N)
  PROVE  e = InOrder(N)
<1> DEFINE c == Cardinality(N)
           o == InOrder(N)
<1>1. o \in Ascending(N)
  BY InOrderAscends
<1>2. e \in [1..c -> N] /\ o \in [1..c -> N]
  BY <1>1 DEF Ascending
<1>3. \A i \in 1..c : Rank(N, e[i]) = i /\ Rank(N, o[i]) = i
  BY <1>1, AscendingRank
<1>4. \A i, j \in N : Rank(N, i) = Rank(N, j) => i = j
  BY RankCounts
<1> HIDE DEF c, o
<1>5. \A i \in 1..c : e[i] = o[i]
  BY <1>2, <1>3, <1>4
<1>6. e = o
  <2>1. e = [i \in 1..c |-> e[i]] /\ o = [i \in 1..c |-> o[i]]
    BY <1>2
  <2> QED
    BY <1>5, <2>1
<1> QED
  BY <1>6 DEF o

\* Listing what a sequence has at all of its places gives the sequence.
LEMMA ListedWhole ==
  ASSUME NEW k \in Nat, NEW f
  PROVE  Listed(1..k, f) = [i \in 1..k |-> f[i]]
<1> DEFINE id == [i \in 1..k |-> i]
<1>1. Cardinality(1..k) = k
  BY FS_Interval
<1>2. id \in Ascending(1..k)
  BY <1>1 DEF Ascending
<1>3. id = InOrder(1..k)
  BY <1>2, InOrderUnique
<1> QED
  BY <1>3 DEF Listed

-----------------------------------------------------------------------------
(* What the query makes of the catalogs. *)

\* The query sees a database as PostgreSQL keeps it.
LEMMA WellFormed ==
  ASSUME design \in Designs
  PROVE  /\ \A t, u \in design : t.oid = u.oid => t = u
         /\ \A t, u \in design : \A ix \in t.indexes :
              /\ ix.oid # u.oid
              /\ \A iy \in u.indexes : ix.oid = iy.oid => ix = iy
         /\ \A t \in design : WellFormedTable(t, design)
  BY TablesAssumption DEF DistinctOids

\* The fields of a row of pg_attribute.
LEMMA AttributeFields ==
  \A t, k : /\ Attribute(t, k).attrelid = t.oid /\ Attribute(t, k).attnum = k
            /\ Attribute(t, k).attname = Column(t, k).name
            /\ Attribute(t, k).attisdropped = Column(t, k).dropped
            /\ Attribute(t, k).attinhcount = Column(t, k).inhcount
  BY DEF Attribute

\* The rows of pg_attribute that belong to a table.
LEMMA AttributesOf ==
  ASSUME design \in Designs, NEW t \in design
  PROVE  /\ \A k \in Numbers(t) \ {0} : Attribute(t, k) \in pg_attribute
         /\ \A att \in pg_attribute :
              att.attrelid = t.oid =>
                \E k \in Numbers(t) \ {0} : att = Attribute(t, k)
<1>1. \A k \in Numbers(t) \ {0} : Attribute(t, k) \in pg_attribute
  BY DEF pg_attribute
<1>2. ASSUME NEW att \in pg_attribute, att.attrelid = t.oid
      PROVE  \E k \in Numbers(t) \ {0} : att = Attribute(t, k)
  <2>1. PICK u \in design : att \in {Attribute(u, k) : k \in Numbers(u) \ {0}}
    BY DEF pg_attribute
  <2>2. PICK k \in Numbers(u) \ {0} : att = Attribute(u, k)
    BY <2>1
  <2>3. u = t
    BY <1>2, <2>2, AttributeFields, WellFormed
  <2> QED
    BY <2>2, <2>3
<1> QED
  BY <1>1, <1>2

\* The join of a key with pg_attribute names its columns.
LEMMA KeyNames ==
  ASSUME design \in Designs, NEW t \in design, NEW key \in Seq(Numbers(t))
  PROVE  Zero(ColumnNames(t.oid, key), <<>>) = Names(t, key)
<1> DEFINE N == {i \in DOMAIN key : key[i] # 0}
           f == [i \in N |-> Column(t, key[i]).name]
           J == {p \in (DOMAIN key) \X pg_attribute :
                   p[2].attrelid = t.oid /\ p[2].attnum = key[p[1]]}
           S == {[n |-> p[1], value |-> p[2].attname] : p \in J}
           T == {[n |-> i, value |-> f[i]] : i \in N}
<1>1. Len(key) \in Nat /\ DOMAIN key = 1..Len(key) /\ N \in SUBSET (1..Len(key))
  OBVIOUS
<1>2. ASSUME NEW x \in S PROVE x \in T
  <2>1. PICK p \in J : x = [n |-> p[1], value |-> p[2].attname]
    BY <1>2
  <2>2. PICK k \in Numbers(t) \ {0} : p[2] = Attribute(t, k)
    BY AttributesOf
  <2>3. p[1] \in DOMAIN key /\ key[p[1]] = k /\ p[2].attname = Column(t, k).name
    BY <2>2, AttributeFields
  <2>4. p[1] \in N /\ f[p[1]] = p[2].attname
    BY <2>2, <2>3
  <2> HIDE DEF N, f, J
  <2> QED
    BY <2>1, <2>4
<1>3. ASSUME NEW x \in T PROVE x \in S
  <2>1. PICK i \in N : x = [n |-> i, value |-> f[i]]
    BY <1>3
  <2>2. key[i] \in Numbers(t) \ {0}
    OBVIOUS
  <2> DEFINE p == <<i, Attribute(t, key[i])>>
  <2>3. p \in J
    BY <2>2, AttributesOf, AttributeFields
  <2>4. p[1] = i /\ p[2].attname = f[i]
    BY AttributeFields
  <2> HIDE DEF p, J, f, N
  <2> QED
    BY <2>1, <2>3, <2>4
<1>4. S = T
  <2> HIDE DEF S, T
  <2> QED
    BY <1>2, <1>3
<1>5. ColumnNames(t.oid, key) = AggOrdered(S)
  BY DEF ColumnNames
<1>6. Names(t, key) = Listed(N, f)
  BY DEF Names
<1> HIDE DEF N, f, S
<1> QED
  BY <1>1, <1>4, <1>5, <1>6, AggListed

\* The columns of a table.
LEMMA TableColumns ==
  ASSUME design \in Designs, NEW t \in design
  PROVE  ColumnsFaithful(t, Zero(columns(t.oid), <<>>))
<1> DEFINE N == {i \in DOMAIN t.columns : ~t.columns[i].dropped}
           f == [i \in N |-> [name |-> t.columns[i].name,
                              is_inherited |-> t.columns[i].inhcount > 0]]
           J == {att \in pg_attribute : /\ att.attrelid = t.oid /\ att.attnum > 0
                                        /\ ~att.attisdropped}
           S == {[n |-> att.attnum,
                  value |-> [name |-> att.attname,
                             is_inherited |-> att.attinhcount > 0]] : att \in J}
           T == {[n |-> i, value |-> f[i]] : i \in N}
<1>1. t.columns \in Seq([name : STRING, dropped : BOOLEAN, inhcount : Nat])
  BY WellFormed DEF WellFormedTable
<1>2. /\ Len(t.columns) \in Nat /\ DOMAIN t.columns = 1..Len(t.columns)
      /\ N \in SUBSET (1..Len(t.columns))
  BY <1>1
<1>3. \A k \in Numbers(t) \ {0} : k > 0 <=> k \in DOMAIN t.columns
  BY <1>2 DEF Numbers
<1>4. \A k \in DOMAIN t.columns : Column(t, k) = t.columns[k] /\ k \in Numbers(t) \ {0}
  BY <1>2 DEF Column, Numbers
<1>5. ASSUME NEW x \in S PROVE x \in T
  <2>1. PICK att \in J : x = [n |-> att.attnum,
                              value |-> [name |-> att.attname,
                                         is_inherited |-> att.attinhcount > 0]]
    BY <1>5
  <2>2. PICK k \in Numbers(t) \ {0} : att = Attribute(t, k)
    BY AttributesOf
  <2>3. /\ att.attnum = k /\ k \in DOMAIN t.columns
        /\ att.attname = t.columns[k].name
        /\ att.attisdropped = t.columns[k].dropped
        /\ att.attinhcount = t.columns[k].inhcount
    BY <1>3, <1>4, <2>2, AttributeFields
  <2>4. k \in N /\ f[k] = [name |-> att.attname,
                           is_inherited |-> att.attinhcount > 0]
    BY <2>3
  <2> HIDE DEF N, f, J
  <2> QED
    BY <2>1, <2>3, <2>4
<1>6. ASSUME NEW x \in T PROVE x \in S
  <2>1. PICK k \in N : x = [n |-> k, value |-> f[k]]
    BY <1>6
  <2> DEFINE att == Attribute(t, k)
  <2>2. /\ att \in pg_attribute /\ att.attrelid = t.oid
        /\ att.attnum = k /\ k > 0
        /\ att.attname = t.columns[k].name
        /\ att.attisdropped = t.columns[k].dropped
        /\ att.attinhcount = t.columns[k].inhcount
    BY <1>3, <1>4, AttributesOf, AttributeFields
  <2> HIDE DEF att
  <2>3. att \in J
    BY <2>2
  <2>4. f[k] = [name |-> att.attname, is_inherited |-> att.attinhcount > 0]
    BY <2>2
  <2> HIDE DEF N, f, J
  <2> QED
    BY <2>1, <2>2, <2>3, <2>4
<1>7. S = T
  <2> HIDE DEF S, T
  <2> QED
    BY <1>5, <1>6
<1>8. columns(t.oid) = AggOrdered(S)
  BY DEF columns
<1> HIDE DEF N, f, S
<1>9. Zero(columns(t.oid), <<>>) = Listed(N, f)
  BY <1>2, <1>7, <1>8, AggListed
<1> QED
  BY <1>9 DEF ColumnsFaithful, N, f

\* The rows of pg_inherits: of the parents of tables, and of those of indexes.
LEMMA InheritsRows ==
  ASSUME NEW inh
  PROVE  inh \in pg_inherits <=>
           \E t \in design :
             \/ \E i \in DOMAIN t.parents :
                  inh = [inhrelid |-> t.oid, inhparent |-> t.parents[i],
                         inhseqno |-> i]
             \/ \E ix \in t.indexes : \E p \in ix.parent :
                  inh = [inhrelid |-> ix.oid, inhparent |-> p, inhseqno |-> 1]
  BY DEF pg_inherits

\* The parents of a table, in the order of their numbers.
LEMMA TableParents ==
  ASSUME design \in Designs, NEW t \in design
  PROVE  Zero(parent_tables(t.oid), <<>>) =
           [i \in DOMAIN t.parents |->
              [oid |-> t.parents[i], name |-> RegclassText(t.parents[i])]]
<1> DEFINE N == 1..Len(t.parents)
           f == [i \in N |-> [oid |-> t.parents[i],
                              name |-> RegclassText(t.parents[i])]]
           J == {inh \in pg_inherits : inh.inhrelid = t.oid}
           S == {[n |-> inh.inhseqno,
                  value |-> [oid |-> inh.inhparent,
                             name |-> RegclassText(inh.inhparent)]] : inh \in J}
           T == {[n |-> i, value |-> f[i]] : i \in N}
           r(i) == [inhrelid |-> t.oid, inhparent |-> t.parents[i], inhseqno |-> i]
<1>1. Len(t.parents) \in Nat /\ DOMAIN t.parents = N
  BY WellFormed DEF WellFormedTable
<1>2. ASSUME NEW inh \in J PROVE \E i \in N : inh = r(i)
  <2>1. PICK u \in design :
             \/ \E i \in DOMAIN u.parents :
                  inh = [inhrelid |-> u.oid, inhparent |-> u.parents[i],
                         inhseqno |-> i]
             \/ \E ix \in u.indexes : \E p \in ix.parent :
                  inh = [inhrelid |-> ix.oid, inhparent |-> p, inhseqno |-> 1]
    BY InheritsRows
  <2>2. \A ix \in u.indexes : ix.oid # t.oid
    BY WellFormed
  <2>3. PICK i \in DOMAIN u.parents :
          inh = [inhrelid |-> u.oid, inhparent |-> u.parents[i], inhseqno |-> i]
    BY <2>1, <2>2
  <2>4. u = t
    BY <2>3, WellFormed
  <2> QED
    BY <1>1, <2>3, <2>4
<1>3. \A i \in N : r(i) \in J
  BY <1>1, InheritsRows
<1>4. \A i : r(i).inhseqno = i /\ r(i).inhparent = t.parents[i]
  OBVIOUS
<1>5. ASSUME NEW x \in S PROVE x \in T
  <2>1. PICK inh \in J : x = [n |-> inh.inhseqno,
                              value |-> [oid |-> inh.inhparent,
                                         name |-> RegclassText(inh.inhparent)]]
    BY <1>5
  <2>2. PICK i \in N : inh = r(i)
    BY <1>2
  <2>3. inh.inhseqno = i /\ inh.inhparent = t.parents[i]
    BY <1>4, <2>2
  <2>4. x = [n |-> i, value |-> f[i]]
    BY <2>1, <2>3
  <2> QED
    BY <2>4
<1>6. ASSUME NEW x \in T PROVE x \in S
  <2>1. PICK i \in N : x = [n |-> i, value |-> f[i]]
    BY <1>6
  <2>2. x = [n |-> r(i).inhseqno,
             value |-> [oid |-> r(i).inhparent,
                        name |-> RegclassText(r(i).inhparent)]]
    BY <1>4, <2>1
  <2> HIDE DEF r, J
  <2> QED
    BY <1>3, <2>2
<1>7. S = T
  <2> HIDE DEF S, T
  <2> QED
    BY <1>5, <1>6
<1>8. parent_tables(t.oid) = AggOrdered(S)
  BY DEF parent_tables
<1> HIDE DEF f, S
<1>9. Zero(parent_tables(t.oid), <<>>) = Listed(N, f)
  BY <1>1, <1>7, <1>8, AggListed
<1>10. Listed(N, f) = [i \in N |-> f[i]]
  BY <1>1, ListedWhole
<1> QED
  BY <1>1, <1>9, <1>10 DEF f

\* An aggregate without order holds what was aggregated.
LEMMA AggHolds == \A S : Zero(Agg(S), {}) = S
  BY DEF Zero, Agg, NULL

\* The WHERE clause lists a table, and with it the table's indexes.
LEMMA SelectedTable ==
  ASSUME design \in Designs, NEW o \in Selected
  PROVE  /\ Table(o) \in design /\ Table(o).oid = o
         /\ Table(o).relkind \in {"r", "p"} /\ WhereTables(Table(o).ns)
<1>1. PICK t \in design : t.oid = o /\ t.relkind \in {"r", "p"} /\ WhereTables(t.ns)
  BY DEF Selected
<1>2. Table(o) \in design /\ Table(o).oid = o
  BY <1>1 DEF Table
<1>3. Table(o) = t
  BY <1>1, <1>2, WellFormed
<1> QED
  BY <1>1, <1>2, <1>3

\* One index: its name, its columns and whether it is inherited.
LEMMA IndexDescribed ==
  ASSUME design \in Designs, NEW t \in design, NEW ix \in t.indexes
  PROVE  LET doc == IndexProto(IndexJSON([indexrelid |-> ix.oid,
                                          indrelid |-> t.oid,
                                          indkey |-> ix.key]))
         IN  <<doc.name, doc.columns, doc.is_inherited>> =
               <<ix.oid, Names(t, ix.key), ix.parent # {}>>
<1> DEFINE r == [indexrelid |-> ix.oid, indrelid |-> t.oid, indkey |-> ix.key]
           json == IndexJSON(r)
           doc == IndexProto(json)
<1>1. ix.key \in Seq(Numbers(t))
  BY WellFormed DEF WellFormedTable
<1>2. Zero(ColumnNames(t.oid, ix.key), <<>>) = Names(t, ix.key)
  BY <1>1, KeyNames
<1>3. (\E inh \in pg_inherits : inh.inhrelid = ix.oid) = (ix.parent # {})
  <2>1. ASSUME NEW inh \in pg_inherits, inh.inhrelid = ix.oid
        PROVE  ix.parent # {}
    <3>1. PICK u \in design :
             \/ \E i \in DOMAIN u.parents :
                  inh = [inhrelid |-> u.oid, inhparent |-> u.parents[i],
                         inhseqno |-> i]
             \/ \E iy \in u.indexes : \E p \in iy.parent :
                  inh = [inhrelid |-> iy.oid, inhparent |-> p, inhseqno |-> 1]
      BY InheritsRows
    <3>2. u.oid # ix.oid
      BY WellFormed
    <3>3. PICK iy \in u.indexes : iy.parent # {} /\ inh.inhrelid = iy.oid
      BY <2>1, <3>1, <3>2
    <3>4. iy = ix
      BY <2>1, <3>3, WellFormed
    <3> QED
      BY <3>3, <3>4
  <2>2. ASSUME NEW p \in ix.parent
        PROVE  \E inh \in pg_inherits : inh.inhrelid = ix.oid
    <3> DEFINE inh == [inhrelid |-> ix.oid, inhparent |-> p, inhseqno |-> 1]
    <3>1. inh \in pg_inherits
      BY InheritsRows
    <3> QED
      BY <3>1
  <2> QED
    BY <2>1, <2>2
<1>4. /\ json.name = ix.oid /\ json.columns = ColumnNames(t.oid, ix.key)
      /\ json.is_inherited = (\E inh \in pg_inherits : inh.inhrelid = ix.oid)
  BY DEF IndexJSON
<1> HIDE DEF json
<1>5. /\ doc.name = json.name /\ doc.columns = Zero(json.columns, <<>>)
      /\ doc.is_inherited = json.is_inherited
  BY DEF IndexProto
<1> HIDE DEF doc
<1>6. <<doc.name, doc.columns, doc.is_inherited>> =
        <<ix.oid, Names(t, ix.key), ix.parent # {}>>
  BY <1>2, <1>3, <1>4, <1>5
<1> QED
  BY <1>6 DEF doc, json

\* The indexes of a table.
LEMMA TableIndexes ==
  ASSUME design \in Designs, NEW o \in Selected
  PROVE  IndexesFaithful(Table(o),
           {IndexProto(idx) : idx \in Zero(index_agg(o), {})})
<1> DEFINE t == Table(o)
           r(ix) == [indexrelid |-> ix.oid, indrelid |-> o, indkey |-> ix.key]
           J == {ix \in pg_index :
                   ix.indrelid = o /\ WhereTables(Table(ix.indrelid).ns)}
           doc(x) == IndexProto(IndexJSON(x))
           D == {IndexProto(idx) : idx \in Zero(index_agg(o), {})}
           L == {<<i.name, i.columns, i.is_inherited>> : i \in D}
           R == {<<i.oid, Names(t, i.key), i.parent # {}>> : i \in t.indexes}
<1>1. t \in design /\ t.oid = o /\ WhereTables(t.ns)
  BY SelectedTable
<1>2. \A x \in J : \E ix \in t.indexes : x = r(ix)
  <2> SUFFICES ASSUME NEW x \in J PROVE \E ix \in t.indexes : x = r(ix)
    OBVIOUS
  <2>1. PICK u \in design : \E ix \in u.indexes :
          x = [indexrelid |-> ix.oid, indrelid |-> u.oid, indkey |-> ix.key]
    BY DEF pg_index
  <2>2. u.oid = o
    BY <2>1
  <2>3. u = t
    BY <1>1, <2>2, WellFormed
  <2> QED
    BY <2>1, <2>2, <2>3
<1>3. \A ix \in t.indexes : r(ix) \in J
  <2> SUFFICES ASSUME NEW ix \in t.indexes PROVE r(ix) \in J
    OBVIOUS
  <2>1. r(ix) \in pg_index
    BY <1>1 DEF pg_index
  <2> QED
    BY <1>1, <2>1
<1>4. Zero(index_agg(o), {}) = {IndexJSON(x) : x \in J}
  BY AggHolds DEF index_agg
<1>5. \A ix \in t.indexes :
        <<doc(r(ix)).name, doc(r(ix)).columns, doc(r(ix)).is_inherited>> =
          <<ix.oid, Names(t, ix.key), ix.parent # {}>>
  BY <1>1, IndexDescribed
<1> HIDE DEF J, r
<1>6. \A d : d \in D <=> \E x \in J : d = doc(x)
  BY <1>4
<1> HIDE DEF D, doc
<1>7. ASSUME NEW y \in L PROVE y \in R
  <2>1. PICK d \in D : y = <<d.name, d.columns, d.is_inherited>>
    BY <1>7
  <2>2. PICK x \in J : d = doc(x)
    BY <1>6
  <2>3. PICK ix \in t.indexes : x = r(ix)
    BY <1>2
  <2> QED
    BY <1>5, <2>1, <2>2, <2>3
<1>8. ASSUME NEW y \in R PROVE y \in L
  <2>1. PICK ix \in t.indexes : y = <<ix.oid, Names(t, ix.key), ix.parent # {}>>
    BY <1>8
  <2>2. doc(r(ix)) \in D
    BY <1>3, <1>6
  <2> QED
    BY <1>5, <2>1, <2>2
<1>9. L = R
  <2> HIDE DEF L, R
  <2> QED
    BY <1>7, <1>8
<1> QED
  BY <1>9 DEF IndexesFaithful, D

\* Five of the types of constraints have a word, and only "f" that of foreign
\* keys.
LEMMA TypeWords ==
  /\ DOMAIN ConstraintTypes = {"p", "u", "f", "c", "x"}
  /\ \A type \in {"p", "u", "f", "c", "x"} :
       ConstraintTypes[type] = "foreign_key" <=> type = "f"
  BY DEF ConstraintTypes

\* One constraint: its name, type and columns, those of a foreign table too.
LEMMA ConstraintDescribed ==
  ASSUME design \in Designs, NEW t \in design, NEW con \in t.constraints,
         con.type \in DOMAIN ConstraintTypes
  PROVE  LET doc == ConstraintProto(ConstraintJSON(ConstraintRow(con, t.oid)))
         IN  /\ <<doc.name, doc.type, doc.local_columns, doc.foreign_columns>> =
                  <<con.name, ConstraintTypes[con.type], Names(t, con.key),
                    IF con.type = "f" THEN Names(Table(con.ftable), con.fkey)
                    ELSE <<>> >>
             /\ doc.foreign_table # NULL <=> doc.type = "foreign_key"
<1> DEFINE r == ConstraintRow(con, t.oid)
           json == ConstraintJSON(r)
           doc == ConstraintProto(json)
           foreign == IF con.type = "f" THEN Names(Table(con.ftable), con.fkey)
                      ELSE <<>>
<1>0. /\ r.conname = con.name /\ r.conrelid = t.oid /\ r.contype = con.type
      /\ r.conkey = con.key /\ r.confrelid = con.ftable /\ r.confkey = con.fkey
  BY DEF ConstraintRow
<1>1. /\ con.key \in Seq(Numbers(t))
      /\ con.type = "f" =>
           \E u \in design : u.oid = con.ftable /\ con.fkey \in Seq(Numbers(u))
  BY WellFormed DEF WellFormedTable
<1>2. Zero(ColumnNames(t.oid, con.key), <<>>) = Names(t, con.key)
  BY <1>1, KeyNames
<1>3. con.type = "f" => Zero(ColumnNames(con.ftable, con.fkey), <<>>) = foreign
  <2> SUFFICES ASSUME con.type = "f"
               PROVE  Zero(ColumnNames(con.ftable, con.fkey), <<>>) =
                        Names(Table(con.ftable), con.fkey)
    OBVIOUS
  <2>1. PICK u \in design : u.oid = con.ftable /\ con.fkey \in Seq(Numbers(u))
    BY <1>1
  <2>2. Table(con.ftable) \in design /\ Table(con.ftable).oid = con.ftable
    BY <2>1 DEF Table
  <2>3. Table(con.ftable) = u
    BY <2>1, <2>2, WellFormed
  <2> QED
    BY <2>1, <2>3, KeyNames
<1> HIDE DEF r
<1>4. /\ json.name = con.name /\ json.type = ConstraintTypes[con.type]
      /\ json.local_columns = ColumnNames(t.oid, con.key)
      /\ json.foreign_columns =
           IF con.type = "f" THEN ColumnNames(con.ftable, con.fkey) ELSE NULL
      /\ json.foreign_table =
           IF con.type = "f" THEN {RegclassText(con.ftable)} ELSE NULL
  BY <1>0 DEF ConstraintJSON
<1> HIDE DEF json
<1>5. /\ doc.name = json.name /\ doc.type = json.type
      /\ doc.local_columns = Zero(json.local_columns, <<>>)
      /\ doc.foreign_columns = Zero(json.foreign_columns, <<>>)
      /\ doc.foreign_table = json.foreign_table
  BY DEF ConstraintProto, ForeignTable
<1> HIDE DEF doc
<1>6. doc.foreign_columns = foreign
  <2>1. CASE con.type = "f"
    BY <1>3, <1>4, <1>5, <2>1
  <2>2. CASE con.type # "f"
    BY <1>4, <1>5, <2>2 DEF Zero
  <2> QED
    BY <2>1, <2>2
<1>7. doc.foreign_table # NULL <=> doc.type = "foreign_key"
  <2>1. doc.foreign_table # NULL <=> con.type = "f"
    BY <1>4, <1>5 DEF NULL
  <2> QED
    BY <1>4, <1>5, <2>1, TypeWords
<1> HIDE DEF foreign
<1>8. <<doc.name, doc.type, doc.local_columns, doc.foreign_columns>> =
        <<con.name, ConstraintTypes[con.type], Names(t, con.key), foreign>>
  BY <1>2, <1>4, <1>5, <1>6
<1> QED
  BY <1>7, <1>8 DEF foreign, doc, json, r

\* The constraints of a table.
LEMMA TableConstraints ==
  ASSUME design \in Designs, NEW o \in Selected
  PROVE  ConstraintsFaithful(Table(o),
           {ConstraintProto(con) : con \in Zero(constraint_data(o), {})})
<1> DEFINE t == Table(o)
           r(con) == ConstraintRow(con, o)
           K == {con \in t.constraints : con.type \notin {"t", "n"}}
           J == {con \in pg_constraint :
                   con.conrelid = o /\ con.contype \in DOMAIN ConstraintTypes}
           doc(x) == ConstraintProto(ConstraintJSON(x))
           D == {ConstraintProto(con) : con \in Zero(constraint_data(o), {})}
           told(c) == <<c.name, c.type, c.local_columns, c.foreign_columns>>
           made(c) == <<c.name, ConstraintTypes[c.type], Names(t, c.key),
                        IF c.type = "f" THEN Names(Table(c.ftable), c.fkey)
                        ELSE <<>> >>
           L == {told(c) : c \in D}
           R == {made(c) : c \in K}
<1>1. t \in design /\ t.oid = o
  BY SelectedTable
<1>2. \A c \in t.constraints : c \in K <=> c.type \in DOMAIN ConstraintTypes
  BY <1>1, WellFormed, TypeWords DEF WellFormedTable
<1>3. \A x \in pg_constraint : \E u \in design : \E c \in u.constraints :
        x = ConstraintRow(c, u.oid)
  BY DEF pg_constraint, ConstraintRow
<1>4. \A u \in design : \A c \in u.constraints :
        ConstraintRow(c, u.oid) \in pg_constraint
  BY DEF pg_constraint, ConstraintRow
<1>5. \A c, x : /\ ConstraintRow(c, x).conrelid = x
                /\ ConstraintRow(c, x).contype = c.type
  BY DEF ConstraintRow
<1>6. \A x \in J : \E c \in K : x = r(c)
  <2> SUFFICES ASSUME NEW x \in J PROVE \E c \in K : x = r(c)
    OBVIOUS
  <2>1. PICK u \in design : \E c \in u.constraints : x = ConstraintRow(c, u.oid)
    BY <1>3
  <2>2. PICK c \in u.constraints : x = ConstraintRow(c, u.oid)
    BY <2>1
  <2>3. u = t
    BY <1>1, <1>5, <2>2, WellFormed
  <2> QED
    BY <1>1, <1>2, <1>5, <2>2, <2>3
<1>7. \A c \in K : r(c) \in J
  BY <1>1, <1>2, <1>4, <1>5
<1>8. Zero(constraint_data(o), {}) = {ConstraintJSON(x) : x \in J}
  BY AggHolds DEF constraint_data
<1>9. \A c \in K : /\ told(doc(r(c))) = made(c)
                   /\ doc(r(c)).foreign_table # NULL <=>
                        doc(r(c)).type = "foreign_key"
  BY <1>1, <1>2, ConstraintDescribed
<1> HIDE DEF J, r, K
<1>10. \A d : d \in D <=> \E x \in J : d = doc(x)
  BY <1>8
<1> HIDE DEF D, doc
<1>11. \A c \in D : c.foreign_table # NULL <=> c.type = "foreign_key"
  BY <1>6, <1>9, <1>10
<1>12. ASSUME NEW y \in L PROVE y \in R
  <2>1. PICK d \in D : y = told(d)
    BY <1>12
  <2>2. PICK x \in J : d = doc(x)
    BY <1>10
  <2>3. PICK c \in K : x = r(c)
    BY <1>6
  <2> HIDE DEF told, made
  <2> QED
    BY <1>9, <2>1, <2>2, <2>3
<1>13. ASSUME NEW y \in R PROVE y \in L
  <2>1. PICK c \in K : y = made(c)
    BY <1>13
  <2>2. doc(r(c)) \in D
    BY <1>7, <1>10
  <2> HIDE DEF told, made
  <2> QED
    BY <1>9, <2>1, <2>2
<1>14. L = R
  <2> HIDE DEF L, R
  <2> QED
    BY <1>12, <1>13
<1> QED
  BY <1>11, <1>14 DEF ConstraintsFaithful, D, K

\* The parents of a table, when their names are looked up.
LEMMA TableParentsFaithful ==
  ASSUME design \in Designs, NEW t \in design
  PROVE  ParentsFaithful(t, Zero(parent_tables(t.oid), <<>>))
<1> DEFINE p == Zero(parent_tables(t.oid), <<>>)
<1>1. t.parents \in Seq({u.oid : u \in design})
  BY WellFormed DEF WellFormedTable
<1>2. p = [i \in DOMAIN t.parents |->
             [oid |-> t.parents[i], name |-> RegclassText(t.parents[i])]]
  BY TableParents
<1> HIDE DEF p
<1>3. /\ DOMAIN p = DOMAIN t.parents
      /\ \A i \in DOMAIN p : /\ p[i].oid = t.parents[i]
                             /\ p[i].name = RegclassText(t.parents[i])
  BY <1>2
<1>4. \A o \in alive : RegclassText(o).name = {o}
  BY DEF RegclassText
<1>5. [i \in DOMAIN p |-> p[i].oid] = t.parents
  BY <1>1, <1>3
<1>6. ParentsFaithful(t, p)
  BY <1>3, <1>4, <1>5 DEF ParentsFaithful
<1> QED
  BY <1>6 DEF p

\* PostgreSQL's own schemas are among those the query leaves out.
LEMMA OwnSchemasHidden ==
  \A n : System(n) /\ Reserved(n) => ~WhereTables(n)
<1> SUFFICES ASSUME NEW n, Reserved(n), System(n) PROVE ~WhereTables(n)
  OBVIOUS
<1>1. CASE n \in {<<"information_schema">>, <<"pg", "_", "catalog">>,
                  <<"pg", "_", "toast">>}
  BY <1>1 DEF WhereTables
<1>2. CASE Len(n) = 5 /\ n[3] = "temp" /\ n # <<"information_schema">>
  <2>1. n[1] = "pg"
    BY <1>2 DEF System
  <2>2. LikePgTemp(n)
    BY <1>2, <2>1 DEF LikePgTemp
  <2> QED
    BY <2>2 DEF WhereTables
<1>3. CASE /\ Len(n) = 7 /\ n[3] = "toast" /\ n[5] = "temp"
           /\ n # <<"information_schema">>
  <2>1. n[1] = "pg"
    BY <1>3 DEF System
  <2>2. LikePgToastTemp(n)
    BY <1>3, <2>1 DEF LikePgToastTemp
  <2> QED
    BY <2>2 DEF WhereTables
<1> QED
  BY <1>1, <1>2, <1>3 DEF Reserved

\* The tables in a reply.
LEMMA RelationsListed ==
  ASSUME design \in Designs
  PROVE  RelationsFaithful
<1> SUFFICES ASSUME NEW t \in design
             PROVE  /\ t.oid \in Selected =>
                         t.relkind \in {"r", "p"} /\ ~System(t.ns)
                    /\ t.relkind \in {"r", "p"} /\ ~System(t.ns) =>
                         \/ t.oid \in Selected
                         \/ LikePgTemp(t.ns) \/ LikePgToastTemp(t.ns)
  BY DEF RelationsFaithful, Reply
<1>1. System(t.ns) => Reserved(t.ns)
  BY WellFormed DEF WellFormedTable
<1>2. ASSUME t.oid \in Selected
      PROVE  t.relkind \in {"r", "p"} /\ ~System(t.ns)
  <2>1. PICK u \in design :
          u.oid = t.oid /\ u.relkind \in {"r", "p"} /\ WhereTables(u.ns)
    BY <1>2 DEF Selected
  <2>2. u = t
    BY <2>1, WellFormed
  <2> QED
    BY <1>1, <2>1, <2>2, OwnSchemasHidden
<1>3. ASSUME t.relkind \in {"r", "p"}, ~System(t.ns)
      PROVE  \/ t.oid \in Selected
             \/ LikePgTemp(t.ns) \/ LikePgToastTemp(t.ns)
  <2>1. System(<<"information_schema">>)
    BY DEF System
  <2>2. System(<<"pg", "_", "catalog">>) /\ System(<<"pg", "_", "toast">>)
    BY DEF System
  <2> QED
    BY <1>3, <2>1, <2>2 DEF Selected, WhereTables
<1> QED
  BY <1>2, <1>3

-----------------------------------------------------------------------------
(* The documents that json.Unmarshal meets. *)

\* An ordered aggregate is NULL or one sequence.
LEMMA AggDocument ==
  ASSUME NEW S, NEW T, Zero(AggOrdered(S), <<>>) \in Seq(T)
  PROVE  AggOrdered(S) \in SUBSET Seq(T)
  BY DEF AggOrdered, Zero, NULL

\* A list is a sequence of what is listed.
LEMMA ListedSeq ==
  ASSUME NEW k \in Nat, NEW N \in SUBSET (1..k), NEW f, NEW T,
         \A i \in N : f[i] \in T
  PROVE  Listed(N, f) \in Seq(T)
<1>1. InOrder(N) \in [1..Cardinality(N) -> N] /\ Cardinality(N) \in Nat
  BY InOrderAscends, RankGrows DEF Ascending
<1>2. Listed(N, f) \in [1..Cardinality(N) -> T]
  BY <1>1 DEF Listed
<1> QED
  BY <1>1, <1>2

\* A declared column.
LEMMA Declared ==
  ASSUME design \in Designs, NEW t \in design
  PROVE  /\ Len(t.columns) \in Nat /\ DOMAIN t.columns = 1..Len(t.columns)
         /\ \A k \in DOMAIN t.columns : /\ t.columns[k].name \in STRING
                                        /\ t.columns[k].inhcount \in Nat
<1> DEFINE C == [name : STRING, dropped : BOOLEAN, inhcount : Nat]
<1>1. t.columns \in Seq(C)
  BY WellFormed DEF WellFormedTable
<1>2. \A c \in C : c.name \in STRING /\ c.inhcount \in Nat
  OBVIOUS
<1> HIDE DEF C
<1>3. /\ Len(t.columns) \in Nat /\ DOMAIN t.columns = 1..Len(t.columns)
      /\ \A k \in DOMAIN t.columns : t.columns[k] \in C
  BY <1>1
<1> QED
  BY <1>2, <1>3

\* The names of the columns of a key.
LEMMA NamesDocument ==
  ASSUME design \in Designs, NEW t \in design, NEW key \in Seq(Numbers(t))
  PROVE  ColumnNames(t.oid, key) \in SUBSET Seq(STRING)
<1> DEFINE N == {i \in DOMAIN key : key[i] # 0}
           f == [i \in N |-> Column(t, key[i]).name]
<1>1. Len(key) \in Nat /\ N \in SUBSET (1..Len(key))
  OBVIOUS
<1>3. ASSUME NEW i \in N PROVE f[i] \in STRING
  <2>1. key[i] = -1 \/ key[i] \in DOMAIN t.columns
    BY DEF Numbers
  <2>2. Column(t, -1).name = "ctid"
    BY DEF Column
  <2>3. ASSUME NEW k \in DOMAIN t.columns PROVE Column(t, k).name \in STRING
    <3>1. t.columns[k].name \in STRING /\ k # -1
      BY Declared
    <3> QED
      BY <3>1 DEF Column
  <2>4. CASE key[i] = -1
    <3>1. f[i] = Column(t, -1).name
      BY <2>4
    <3> QED
      BY <2>2, <3>1, WordsAssumption
  <2>5. CASE key[i] \in DOMAIN t.columns
    <3>1. f[i] = Column(t, key[i]).name
      OBVIOUS
    <3> QED
      BY <2>3, <2>5, <3>1
  <2> QED
    BY <2>1, <2>4, <2>5
<1>4. Names(t, key) = Listed(N, f)
  BY DEF Names
<1> HIDE DEF N, f
<1>5. Names(t, key) \in Seq(STRING)
  BY <1>1, <1>3, <1>4, ListedSeq
<1>6. Zero(ColumnNames(t.oid, key), <<>>) \in Seq(STRING)
  BY <1>5, KeyNames
<1> QED
  BY <1>6, AggDocument DEF ColumnNames

\* The columns of a table.
LEMMA ColumnsDocument ==
  ASSUME design \in Designs, NEW t \in design, columns(t.oid) # NULL
  PROVE  Unmarshal(columns(t.oid), Seq(TableColumn))
<1> DEFINE N == {i \in DOMAIN t.columns : ~t.columns[i].dropped}
           f == [i \in N |-> [name |-> t.columns[i].name,
                              is_inherited |-> t.columns[i].inhcount > 0]]
<1>2. Len(t.columns) \in Nat /\ N \in SUBSET (1..Len(t.columns))
  BY Declared
<1>3. ASSUME NEW i \in N PROVE f[i] \in TableColumn
  <2>1. t.columns[i].name \in STRING /\ (t.columns[i].inhcount > 0) \in BOOLEAN
    BY Declared
  <2> QED
    BY <2>1 DEF TableColumn
<1>4. Zero(columns(t.oid), <<>>) = Listed(N, f)
  BY TableColumns DEF ColumnsFaithful
<1> HIDE DEF N, f
<1>5. Zero(columns(t.oid), <<>>) \in Seq(TableColumn)
  BY <1>2, <1>3, <1>4, ListedSeq
<1>6. columns(t.oid) \in SUBSET Seq(TableColumn)
  BY <1>5, AggDocument DEF columns
<1> QED
  BY <1>6 DEF Unmarshal, NULL

\* The name of a table, which may be gone.
LEMMA NameDocument ==
  ASSUME design \in Designs, NEW o \in Oids
  PROVE  RegclassText(o) \in RelationName
<1>1. PICK t \in design : t.oid = o
  BY DEF Oids
<1>2. Table(o) \in design /\ Table(o).oid = o
  BY <1>1 DEF Table
<1>3. Table(o).ns \in Seq(STRING) /\ o \in Nat
  <2>1. WellFormedTable(Table(o), design)
    BY <1>2, WellFormed
  <2> QED
    BY <1>2, <2>1 DEF WellFormedTable
<1>4. CASE o \in alive
  BY <1>3, <1>4 DEF RegclassText, RelationName, NULL
<1>5. CASE o \notin alive
  BY <1>5 DEF RegclassText, RelationName, NULL
<1> QED
  BY <1>4, <1>5

\* The parents of a table.
LEMMA ParentsDocument ==
  ASSUME design \in Designs, NEW t \in design
  PROVE  parent_tables(t.oid) \in SUBSET Seq(InheritanceRelation)
<1>1. t.parents \in Seq(Oids)
  BY WellFormed DEF WellFormedTable, Oids
<1>2. ASSUME NEW o \in Oids PROVE o \in Nat
  <2>1. PICK u \in design : u.oid = o
    BY DEF Oids
  <2>2. WellFormedTable(u, design)
    BY WellFormed
  <2> QED
    BY <2>1, <2>2 DEF WellFormedTable
<1> DEFINE p == [i \in DOMAIN t.parents |->
                   [oid |-> t.parents[i], name |-> RegclassText(t.parents[i])]]
<1>3. \A i \in DOMAIN t.parents : p[i] \in InheritanceRelation
  <2> TAKE i \in DOMAIN t.parents
  <2>1. t.parents[i] \in Oids
    BY <1>1
  <2>2. t.parents[i] \in Nat /\ RegclassText(t.parents[i]) \in RelationName
    BY <1>2, <2>1, NameDocument
  <2> QED
    BY <2>2 DEF InheritanceRelation
<1>4. Len(t.parents) \in Nat /\ DOMAIN t.parents = 1..Len(t.parents)
  BY <1>1
<1>5. DOMAIN p = DOMAIN t.parents
  OBVIOUS
<1>6. Zero(parent_tables(t.oid), <<>>) = p
  BY TableParents
<1> HIDE DEF p
<1>7. p \in [1..Len(t.parents) -> InheritanceRelation]
  <2>1. p = [i \in DOMAIN p |-> p[i]]
    BY DEF p
  <2> QED
    BY <1>3, <1>4, <1>5, <2>1
<1>8. p \in Seq(InheritanceRelation)
  BY <1>4, <1>7
<1> QED
  BY <1>6, <1>8, AggDocument DEF parent_tables

\* pg_relation_size and the definitions give NULL or a value.
LEMMA Lookups ==
  ASSUME TypeOK
  PROVE  /\ \A r \in Relations : SizeOf(r) \in SUBSET Nat
         /\ \A oids : Definition(oids) \in SUBSET STRING
<1>1. \A r \in Relations : size[r] \in Nat
  BY TablesAssumption DEF TypeOK
<1>2. \A r \in Relations : SizeOf(r) \in SUBSET Nat
  BY <1>1 DEF SizeOf, NULL
<1>3. \A oids : Definition(oids) \in SUBSET STRING
  <2> TAKE oids
  <2>1. Definition(oids) = {"definition"} \/ Definition(oids) = {}
    BY DEF Definition, NULL
  <2>2. "definition" \in STRING
    BY WordsAssumption
  <2> QED
    BY <2>1, <2>2
<1> QED
  BY <1>2, <1>3

\* The indexes of a table, with sizes and definitions of those that exist.
LEMMA IndexesDocument ==
  ASSUME TypeOK, NEW o \in Selected
  PROVE  /\ index_agg(o) # NULL => Unmarshal(index_agg(o), SUBSET TableIndex)
         /\ \A idx \in Zero(index_agg(o), {}) :
              idx.name \in Relations /\ idx.size_bytes = SizeOf(idx.name)
<1> DEFINE J == {ix \in pg_index :
                   ix.indrelid = o /\ WhereTables(Table(ix.indrelid).ns)}
           D == {IndexJSON(x) : x \in J}
<1>0. design \in Designs
  BY DEF TypeOK
<1>1. ASSUME NEW x \in J
      PROVE  /\ IndexJSON(x) \in TableIndex
             /\ IndexJSON(x).name \in Relations
             /\ IndexJSON(x).size_bytes = SizeOf(IndexJSON(x).name)
  <2>1. PICK t \in design : \E ix \in t.indexes :
          x = [indexrelid |-> ix.oid, indrelid |-> t.oid, indkey |-> ix.key]
    BY DEF pg_index
  <2>2. PICK ix \in t.indexes :
          x = [indexrelid |-> ix.oid, indrelid |-> t.oid, indkey |-> ix.key]
    BY <2>1
  <2>3. ix.oid \in Nat /\ ix.key \in Seq(Numbers(t))
    BY <1>0, WellFormed DEF WellFormedTable
  <2>4. ix.oid \in Relations
    BY DEF Relations, Storage
  <2>5. ColumnNames(t.oid, ix.key) \in SUBSET Seq(STRING)
    BY <1>0, <2>3, NamesDocument
  <2>6. SizeOf(ix.oid) \in SUBSET Nat /\ Definition({ix.oid}) \in SUBSET STRING
    BY <2>4, Lookups
  <2>7. x.indexrelid = ix.oid /\ x.indrelid = t.oid /\ x.indkey = ix.key
    BY <2>2
  <2>8. (\E inh \in pg_inherits : inh.inhrelid = ix.oid) \in BOOLEAN
    OBVIOUS
  <2> QED
    BY <2>3, <2>4, <2>5, <2>6, <2>7, <2>8 DEF IndexJSON, TableIndex
<1>2. index_agg(o) = Agg(D)
  BY DEF index_agg
<1>3. \A d \in D : /\ d \in TableIndex /\ d.name \in Relations
                   /\ d.size_bytes = SizeOf(d.name)
  BY <1>1
<1> HIDE DEF D
<1>4. Zero(index_agg(o), {}) = D
  BY <1>2, AggHolds
<1>5. index_agg(o) # NULL => index_agg(o) = {D}
  BY <1>2 DEF Agg
<1>6. D \in SUBSET TableIndex
  BY <1>3
<1> QED
  BY <1>3, <1>4, <1>5, <1>6 DEF Unmarshal

\* The constraints of a table.
LEMMA ConstraintsDocument ==
  ASSUME TypeOK, NEW o \in Selected
  PROVE  constraint_data(o) # NULL =>
           Unmarshal(constraint_data(o), SUBSET TableConstraint)
<1> DEFINE J == {con \in pg_constraint :
                   con.conrelid = o /\ con.contype \in DOMAIN ConstraintTypes}
           D == {ConstraintJSON(x) : x \in J}
<1>0. design \in Designs
  BY DEF TypeOK
<1>1. ASSUME NEW x \in J PROVE ConstraintJSON(x) \in TableConstraint
  <2>1. PICK t \in design : \E c \in t.constraints : x = ConstraintRow(c, t.oid)
    BY DEF pg_constraint, ConstraintRow
  <2>2. PICK c \in t.constraints : x = ConstraintRow(c, t.oid)
    BY <2>1
  <2>3. /\ x.conname = c.name /\ x.conrelid = t.oid /\ x.contype = c.type
        /\ x.conkey = c.key /\ x.confrelid = c.ftable /\ x.confkey = c.fkey
    BY <2>2 DEF ConstraintRow
  <2>4. /\ c.name \in STRING /\ c.key \in Seq(Numbers(t))
        /\ c.type = "f" =>
             \E u \in design : u.oid = c.ftable /\ c.fkey \in Seq(Numbers(u))
    BY <1>0, WellFormed DEF WellFormedTable
  <2>5. ConstraintTypes[c.type] \in STRING
    <3>1. c.type \in {"p", "u", "f", "c", "x"}
      BY <2>3, TypeWords
    <3>2. \A type \in {"p", "u", "f", "c", "x"} : ConstraintTypes[type] \in STRING
      BY WordsAssumption DEF ConstraintTypes
    <3> QED
      BY <3>1, <3>2
  <2>6. ColumnNames(t.oid, c.key) \in SUBSET Seq(STRING)
    BY <1>0, <2>4, NamesDocument
  <2>7. c.type = "f" =>
          /\ {RegclassText(c.ftable)} \in SUBSET RelationName
          /\ ColumnNames(c.ftable, c.fkey) \in SUBSET Seq(STRING)
    <3> SUFFICES ASSUME c.type = "f"
                 PROVE  /\ RegclassText(c.ftable) \in RelationName
                        /\ ColumnNames(c.ftable, c.fkey) \in SUBSET Seq(STRING)
      OBVIOUS
    <3>1. PICK u \in design : u.oid = c.ftable /\ c.fkey \in Seq(Numbers(u))
      BY <2>4
    <3>2. c.ftable \in Oids
      BY <3>1 DEF Oids
    <3>3. RegclassText(c.ftable) \in RelationName
      BY <1>0, <3>2, NameDocument
    <3>4. ColumnNames(u.oid, c.fkey) \in SUBSET Seq(STRING)
      BY <1>0, <3>1, NamesDocument
    <3> QED
      BY <3>1, <3>3, <3>4
  <2> DEFINE json == ConstraintJSON(x)
  <2>8. json = [name |-> json.name, type |-> json.type,
                local_columns |-> json.local_columns,
                foreign_table |-> json.foreign_table,
                foreign_columns |-> json.foreign_columns,
                definition |-> json.definition]
    BY DEF ConstraintJSON
  <2>9. /\ json.name = c.name /\ json.type = ConstraintTypes[c.type]
        /\ json.local_columns = ColumnNames(t.oid, c.key)
    BY <2>3 DEF ConstraintJSON
  <2>10. /\ json.foreign_table \in SUBSET RelationName
         /\ json.foreign_columns \in SUBSET Seq(STRING)
    <3>1. /\ json.foreign_table = IF c.type = "f" THEN {RegclassText(c.ftable)}
                                  ELSE NULL
          /\ json.foreign_columns = IF c.type = "f"
                                    THEN ColumnNames(c.ftable, c.fkey) ELSE NULL
      BY <2>3 DEF ConstraintJSON
    <3> HIDE DEF json
    <3> QED
      BY <2>7, <3>1 DEF NULL
  <2>11. json.definition \in SUBSET STRING
    BY Lookups DEF ConstraintJSON
  <2> HIDE DEF json
  <2>12. json \in TableConstraint
    BY <2>4, <2>5, <2>6, <2>8, <2>9, <2>10, <2>11 DEF TableConstraint
  <2> QED
    BY <2>12 DEF json
<1>2. constraint_data(o) = Agg(D)
  BY DEF constraint_data
<1>3. D \in SUBSET TableConstraint
  BY <1>1
<1> HIDE DEF D
<1>4. constraint_data(o) # NULL => constraint_data(o) = {D}
  BY <1>2 DEF Agg
<1> QED
  BY <1>3, <1>4 DEF Unmarshal

-----------------------------------------------------------------------------
(* Sizes. *)

\* A relation is stored for one table, and dropped with it.
LEMMA StorageApart ==
  ASSUME design \in Designs, NEW t \in design
  PROVE  /\ t.oid \in Storage(t) /\ t.toast \subseteq Storage(t)
         /\ Storage(t) \subseteq Relations
         /\ \A ix \in t.indexes : ix.oid \in Storage(t)
         /\ \A u \in design : u # t => Storage(u) \cap Storage(t) = {}
         /\ \A ix \in t.indexes :
              ix.oid # t.oid /\ ix.oid \notin t.toast
         /\ \A r, s \in t.toast : r = s
<1>1. /\ t.oid \in Storage(t) /\ t.toast \subseteq Storage(t)
      /\ \A ix \in t.indexes : ix.oid \in Storage(t)
  BY DEF Storage
<1>2. Storage(t) \subseteq Relations
  BY DEF Relations
<1>3. DistinctOids(design) /\ WellFormedTable(t, design)
  BY TablesAssumption
<1>4. /\ \A u \in design : u # t => Storage(u) \cap Storage(t) = {}
      /\ \A ix \in t.indexes : ix.oid # t.oid
      /\ t.toast \cap ({t.oid} \cup {ix.oid : ix \in t.indexes}) = {}
  BY <1>3 DEF DistinctOids
<1>5. \A ix \in t.indexes : ix.oid \notin t.toast
  BY <1>4
<1>6. \A r, s \in t.toast : r = s
  BY <1>3 DEF WellFormedTable
<1> QED
  BY <1>1, <1>2, <1>4, <1>5, <1>6

\* A table is stored in finitely many relations.
LEMMA StorageFinite ==
  ASSUME design \in Designs, NEW t \in design
  PROVE  IsFiniteSet(Storage(t))
<1> DEFINE I == {ix.oid : ix \in t.indexes}
           f == [ix \in t.indexes |-> ix.oid]
<1>1. IsFiniteSet(t.indexes) /\ \A r, s \in t.toast : r = s
  BY WellFormed DEF WellFormedTable
<1>2. f \in Surjection(t.indexes, I)
  BY DEF Surjection
<1>3. IsFiniteSet(I)
  <2> HIDE DEF f, I
  <2> QED
    BY <1>1, <1>2, FS_Surjection
<1>4. IsFiniteSet(t.toast)
  <2>1. CASE t.toast = {}
    BY <2>1, FS_EmptySet
  <2>2. CASE \E r : t.toast = {r}
    BY <2>2, FS_Singleton
  <2> QED
    BY <1>1, <2>1, <2>2
<1>5. IsFiniteSet({t.oid} \cup t.toast)
  BY <1>4, FS_Singleton, FS_Union
<1> HIDE DEF I
<1>6. IsFiniteSet(({t.oid} \cup t.toast) \cup I)
  BY <1>3, <1>5, FS_Union
<1> QED
  BY <1>6 DEF Storage, I

\* More relations, or larger ones, have more pages.
LEMMA PagesGrow ==
  ASSUME NEW R, IsFiniteSet(R), NEW S \in SUBSET R, NEW a, NEW b,
         \A r \in S : a[r] \in Nat /\ b[r] \in Nat /\ a[r] \leq b[r]
  PROVE  /\ Pages(S, a) \in Nat /\ Pages(R, b) \in Nat
         /\ Pages(S, a) \leq Pages(R, b)
<1> DEFINE I == 1..(MaxGrowth + 1)
           P == {p \in S \X I : p[2] \leq a[p[1]]}
           Q == {p \in R \X I : p[2] \leq b[p[1]]}
<1>1. IsFiniteSet(I)
  BY TablesAssumption, FS_Interval
<1>2. IsFiniteSet(R \X I)
  <2> HIDE DEF I
  <2> QED
    BY <1>1, FS_Product
<1>3. Q \in SUBSET (R \X I)
  OBVIOUS
<1>4. P \in SUBSET Q
  <2> SUFFICES ASSUME NEW p \in P PROVE p \in Q
    OBVIOUS
  <2>1. p[1] \in S /\ p[2] \in I /\ p[2] \leq a[p[1]] /\ p \in R \X I
    OBVIOUS
  <2>2. p[2] \in Nat /\ a[p[1]] \in Nat /\ b[p[1]] \in Nat /\ a[p[1]] \leq b[p[1]]
    BY <2>1, TablesAssumption
  <2>3. p[2] \leq b[p[1]]
    BY <2>1, <2>2
  <2> QED
    BY <2>1, <2>3
<1>5. Pages(S, a) = Cardinality(P) /\ Pages(R, b) = Cardinality(Q)
  BY DEF Pages
<1> HIDE DEF I, P, Q
<1>6. IsFiniteSet(Q)
  BY <1>2, <1>3, FS_Subset
<1>7. IsFiniteSet(P) /\ Cardinality(P) \leq Cardinality(Q)
  BY <1>4, <1>6, FS_Subset
<1> QED
  BY <1>5, <1>6, <1>7, FS_CardinalityType

-----------------------------------------------------------------------------
(* The invariant. *)

\* A selected table is one of the design.
LEMMA TableOf ==
  /\ Selected \subseteq Oids
  /\ \A o \in Oids : Table(o) \in design /\ Table(o).oid = o
  BY DEF Selected, Oids, Table

\* Its heap is one of the relations.
LEMMA HeapOf ==
  ASSUME design \in Designs, NEW o \in Selected
  PROVE  Table(o) \in design /\ Table(o).oid = o /\ o \in Relations
<1>1. Table(o) \in design /\ Table(o).oid = o
  BY TableOf
<1> QED
  BY <1>1, StorageApart

\* Relations have sizes that only grow.
LEMMA Sizes ==
  ASSUME IndInv
  PROVE  \A r \in Relations : /\ size[r] \in Nat /\ before[r] \in Nat
                              /\ before[r] \leq size[r]
  BY TablesAssumption DEF IndInv, TypeOK, GrowthInv

\* The design is the query's snapshot.
LEMMA Snapshot ==
  ASSUME UNCHANGED design
  PROVE  /\ Oids' = Oids /\ Selected' = Selected /\ Relations' = Relations
         /\ \A o : Table(o)' = Table(o)
  BY DEF Oids, Selected, Table, Relations

\* The parts of a row.
LEMMA Parts ==
  DOMAIN NoRow = {"indexes", "constraints", "parent_tables",
                  "total_size_bytes", "heap_size_bytes", "toast_size_bytes"}
  BY DEF NoRow

\* The query begins.
LEMMA InitIndInv == Init => IndInv
<1> SUFFICES ASSUME Init PROVE IndInv
  OBVIOUS
<1> USE DEF Init
<1>1. \A r \in Relations : size[r] \in 0..1 /\ before[r] = size[r]
  OBVIOUS
<1>2. ShapeInv
  BY DEF ShapeInv
<1>3. \A o \in Selected : /\ row[o].total_size_bytes = NULL
                          /\ row[o].heap_size_bytes = NULL
                          /\ row[o].toast_size_bytes = 0
  BY DEF NoRow
<1>4. /\ size \in [Relations -> 0..(MaxGrowth + 1)]
      /\ before \in [Relations -> 0..1]
  BY <1>1, TablesAssumption
<1>5. TypeOK
  BY <1>3, <1>4 DEF TypeOK, NULL
<1>6. GrowthInv
  <2>1. \A t \in design : t.oid \in alive /\ t.toast \subseteq alive
    BY StorageApart
  <2>2. \A r \in Relations : before[r] \leq size[r]
    BY <1>1
  <2> QED
    BY <2>1, <2>2 DEF GrowthInv
<1>7. RowInv /\ JoinsInv /\ CodeInv
  BY DEF RowInv, RowMeasured, JoinsInv, CodeInv, NoTableFailsTheList
<1> QED
  BY <1>2, <1>5, <1>6, <1>7 DEF IndInv

\* Growing and dropping relations leave what was measured before true.
LEMMA StillMeasured ==
  ASSUME IndInv, UNCHANGED <<design, before>>, alive' \subseteq alive,
         \A r \in Relations : size'[r] \in Nat /\ size[r] \leq size'[r],
         NEW o \in Selected, NEW s, NEW v, RowMeasured(o, s, v)
  PROVE  RowMeasured(o, s, v)'
<1> DEFINE t == Table(o)
<1>0. /\ Table(o)' = t /\ Relations' = Relations /\ design \in Designs
      /\ t \in design /\ t.oid = o /\ o \in Relations
  BY Snapshot, HeapOf DEF IndInv, TypeOK
<1>1. \A r \in Relations : /\ size[r] \in Nat /\ before[r] \in Nat
                           /\ size'[r] \in Nat /\ size[r] \leq size'[r]
  BY Sizes
<1>2. ASSUME NEW r \in Relations, NEW value, Measured(r, value)
      PROVE  Measured(r, value)'
  <2>1. CASE value = NULL /\ r \notin alive
    BY <2>1 DEF Measured
  <2>2. CASE \E n \in value : value = {n} /\ n \in Nat /\ n \in before[r]..size[r]
    BY <1>1, <2>2 DEF Measured
  <2> QED
    BY <1>2, <2>1, <2>2 DEF Measured
<1>3. ASSUME NEW value, TotalMeasured(t, value)
      PROVE  TotalMeasured(t, value)'
  <2>1. CASE value = NULL /\ t.oid \notin alive
    BY <1>0, <2>1 DEF TotalMeasured
  <2>2. CASE \E n \in value :
               /\ value = {n} /\ n \in Nat
               /\ n \in Pages(Kept(t), before)..Pages(Storage(t), size)
    <3> DEFINE K == {t.oid} \cup t.toast \cup (Storage(t) \cap alive')
    <3>1. /\ IsFiniteSet(Storage(t)) /\ Kept(t) \in SUBSET Storage(t)
          /\ \A r \in Storage(t) : r \in Relations /\ K \in SUBSET Kept(t)
      BY <1>0, StorageFinite, StorageApart DEF Kept
    <3>2. IsFiniteSet(Kept(t))
      BY <3>1, FS_Subset
    <3>3. \A r \in Storage(t) : /\ before[r] \in Nat /\ before[r] \leq before[r]
                                /\ size[r] \in Nat /\ size'[r] \in Nat
                                /\ size[r] \leq size'[r]
      BY <1>1, <3>1
    <3>4. /\ K \in SUBSET Kept(t)
          /\ \A r \in K : before[r] \in Nat /\ before[r] \leq before[r]
      BY <3>1, <3>3 DEF Kept
    <3>5. /\ Pages(K, before) \in Nat /\ Pages(Kept(t), before) \in Nat
          /\ Pages(K, before) \leq Pages(Kept(t), before)
      <4> HIDE DEF K
      <4> QED
        BY <3>2, <3>4, PagesGrow
    <3>6. /\ Pages(Storage(t), size) \in Nat /\ Pages(Storage(t), size') \in Nat
          /\ Pages(Storage(t), size) \leq Pages(Storage(t), size')
      BY <3>1, <3>3, PagesGrow
    <3>7. /\ Pages(Kept(t), before)' = Pages(K, before)
          /\ Pages(Storage(t), size)' = Pages(Storage(t), size')
      BY <1>0 DEF Pages, Kept, Storage
    <3>8. PICK n \in value :
            /\ value = {n} /\ n \in Nat
            /\ n \in Pages(Kept(t), before)..Pages(Storage(t), size)
      BY <2>2
    <3> HIDE DEF K
    <3>9. n \in Pages(K, before)..Pages(Storage(t), size')
      BY <3>5, <3>6, <3>8
    <3>10. n \in Pages(Kept(t), before)'..Pages(Storage(t), size)'
      BY <3>7, <3>9
    <3> QED
      BY <3>8, <3>10 DEF TotalMeasured
  <2> QED
    BY <1>3, <2>1, <2>2 DEF TotalMeasured
<1>4. ASSUME NEW n, ToastMeasured(t, n)
      PROVE  ToastMeasured(t, n)'
  <2>1. \A r \in t.toast : r \in Relations
    BY <1>0, StorageApart
  <2>2. ASSUME NEW r \in t.toast PROVE SizeFaithful(r, n)'
    <3>1. SizeFaithful(r, n) /\ n \in Nat
      BY <1>4 DEF ToastMeasured
    <3> QED
      BY <1>1, <2>1, <3>1 DEF SizeFaithful
  <2> QED
    BY <1>0, <1>4, <2>2 DEF ToastMeasured
<1> HIDE DEF t
<1>5. s # "joins" => \A idx \in Zero(v.indexes, {}) :
                       /\ idx.name \in Relations
                       /\ Measured(idx.name, idx.size_bytes)'
  BY <1>2 DEF RowMeasured
<1>6. s \in {"heap", "toast", "row"} => TotalMeasured(t, v.total_size_bytes)'
  BY <1>3 DEF RowMeasured, t
<1>7. s \in {"toast", "row"} => Measured(o, v.heap_size_bytes)'
  BY <1>0, <1>2 DEF RowMeasured
<1>8. s = "row" => ToastMeasured(t, v.toast_size_bytes)'
  BY <1>4 DEF RowMeasured, t
<1> QED
  BY <1>0, <1>5, <1>6, <1>7, <1>8
  DEF RowMeasured, TotalMeasured, ToastMeasured, t

\* What the joins have left stays true when tables are dropped.
LEMMA StillJoined ==
  ASSUME NEW o, UNCHANGED design, alive' \subseteq alive, Joined(o, row'[o])
  PROVE  Joined(o, row[o])'
<1>1. \A x : Table(x)' = Table(x)
  BY Snapshot
<1>2. \A t, S : ConstraintsFaithful(t, S) => ConstraintsFaithful(t, S)'
  BY <1>1 DEF ConstraintsFaithful
<1>3. \A t, s : ParentsFaithful(t, s) => ParentsFaithful(t, s)'
  BY DEF ParentsFaithful
<1> QED
  BY <1>1, <1>2, <1>3 DEF Joined

\* The relations change while the rows stay as they are.
LEMMA TablesChange ==
  ASSUME IndInv, UNCHANGED <<design, before, step, row, code>>,
         alive' \subseteq alive, size' \in [Relations -> 0..(MaxGrowth + 1)],
         \A r \in Relations : size[r] \leq size'[r],
         \A t \in design : /\ t.oid \in alive' => t.toast \subseteq alive'
                           /\ t.oid \notin alive' => t.toast \cap alive' = {}
  PROVE  IndInv'
<1>0. /\ Selected' = Selected /\ Relations' = Relations
      /\ \A o : Table(o)' = Table(o)
  BY Snapshot
<1>1. \A r \in Relations : /\ size[r] \in Nat /\ size'[r] \in Nat
                           /\ before[r] \in Nat /\ before[r] \leq size[r]
  BY Sizes, TablesAssumption
<1>2. TypeOK'
  BY <1>0 DEF IndInv, TypeOK
<1>3. ShapeInv' /\ CodeInv'
  BY <1>0 DEF IndInv, ShapeInv, NoRow, CodeInv, NoTableFailsTheList
<1>4. GrowthInv'
  <2>1. \A r \in Relations : before[r] \leq size'[r]
    BY <1>1
  <2> QED
    BY <1>0, <2>1 DEF GrowthInv
<1>5. RowInv'
  <2> SUFFICES ASSUME NEW o \in Selected
               PROVE  RowMeasured(o, step[o], row[o])'
    BY <1>0 DEF RowInv
  <2>1. RowMeasured(o, step[o], row[o])
    BY DEF IndInv, RowInv
  <2>2. \A x, y : RowMeasured(o, x, y) => RowMeasured(o, x, y)'
    BY <1>1, StillMeasured
  <2>3. RowMeasured(o, step[o], row[o])'
    BY <2>1, <2>2
  <2> QED
    BY <2>3
<1>6. JoinsInv'
  <2> SUFFICES ASSUME NEW o \in Selected, step[o] # "joins"
               PROVE  Joined(o, row[o])'
    BY <1>0 DEF JoinsInv
  <2>1. Joined(o, row'[o])
    BY DEF IndInv, JoinsInv
  <2> QED
    BY <2>1, StillJoined
<1> QED
  BY <1>2, <1>3, <1>4, <1>5, <1>6 DEF IndInv

\* A table gets more rows.
LEMMA GrowStep ==
  ASSUME IndInv, NEW o \in Selected, NEW r \in Storage(Table(o)), Grow(o, r)
  PROVE  IndInv'
<1>1. r \in Relations /\ size \in [Relations -> 0..(MaxGrowth + 1)]
  BY DEF Grow, IndInv, TypeOK
<1>2. /\ size' \in [Relations -> 0..(MaxGrowth + 1)]
      /\ \A x \in Relations : size[x] \leq size'[x]
  BY <1>1, TablesAssumption DEF Grow
<1>3. alive' = alive
  BY DEF Grow
<1>4. \A t \in design : /\ t.oid \in alive' => t.toast \subseteq alive'
                        /\ t.oid \notin alive' => t.toast \cap alive' = {}
  BY <1>3 DEF IndInv, GrowthInv
<1> QED
  BY <1>2, <1>3, <1>4, TablesChange DEF Grow

\* A step that only drops relations.
LEMMA DropStep ==
  ASSUME IndInv, UNCHANGED <<design, size, before, step, row, code>>,
         alive' \subseteq alive,
         \A t \in design : /\ t.oid \in alive' => t.toast \subseteq alive'
                           /\ t.oid \notin alive' => t.toast \cap alive' = {}
  PROVE  IndInv'
<1>1. size' \in [Relations -> 0..(MaxGrowth + 1)]
  BY DEF IndInv, TypeOK
<1>2. \A r \in Relations : size[r] \leq size'[r]
  BY Sizes
<1> QED
  BY <1>1, <1>2, TablesChange

\* An index is dropped, and no TOAST table.
LEMMA DropIndexStep ==
  ASSUME IndInv, NEW o \in Selected, NEW ix \in Table(o).indexes, DropIndex(ix)
  PROVE  IndInv'
<1>1. design \in Designs /\ Table(o) \in design
  BY HeapOf DEF IndInv, TypeOK
<1>2. alive' = alive \ {ix.oid}
  BY DEF DropIndex
<1>3. ASSUME NEW t \in design
      PROVE  ix.oid # t.oid /\ ix.oid \notin t.toast
  <2>1. CASE t = Table(o)
    BY <1>1, <2>1, StorageApart
  <2>2. CASE t # Table(o)
    <3>1. /\ ix.oid \in Storage(Table(o))
          /\ Storage(t) \cap Storage(Table(o)) = {}
      BY <1>1, <2>2, StorageApart
    <3>2. t.oid \in Storage(t) /\ t.toast \subseteq Storage(t)
      BY <1>1, StorageApart
    <3> QED
      BY <3>1, <3>2
  <2> QED
    BY <2>1, <2>2
<1>4. ASSUME NEW t \in design
      PROVE  /\ t.oid \in alive' => t.toast \subseteq alive'
             /\ t.oid \notin alive' => t.toast \cap alive' = {}
  <2>1. /\ t.oid \in alive => t.toast \subseteq alive
        /\ t.oid \notin alive => t.toast \cap alive = {}
    BY DEF IndInv, GrowthInv
  <2> QED
    BY <1>2, <1>3, <2>1
<1> QED
  BY <1>2, <1>4, DropStep DEF DropIndex

\* A table is dropped with all that it is stored in.
LEMMA DropTableStep ==
  ASSUME IndInv, NEW o \in Selected, DropTable(o)
  PROVE  IndInv'
<1>1. design \in Designs /\ Table(o) \in design
  BY HeapOf DEF IndInv, TypeOK
<1>2. alive' = alive \ Storage(Table(o))
  BY DEF DropTable
<1>3. ASSUME NEW t \in design
      PROVE  /\ t.oid \in alive' => t.toast \subseteq alive'
             /\ t.oid \notin alive' => t.toast \cap alive' = {}
  <2>1. /\ t.oid \in alive => t.toast \subseteq alive
        /\ t.oid \notin alive => t.toast \cap alive = {}
    BY DEF IndInv, GrowthInv
  <2>2. t.oid \in Storage(t) /\ t.toast \subseteq Storage(t)
    BY <1>1, StorageApart
  <2>3. CASE t = Table(o)
    BY <1>2, <2>2, <2>3
  <2>4. CASE t # Table(o)
    <3>1. Storage(t) \cap Storage(Table(o)) = {}
      BY <1>1, <2>4, StorageApart
    <3> QED
      BY <1>2, <2>1, <2>2, <3>1
  <2> QED
    BY <2>3, <2>4
<1> QED
  BY <1>2, <1>3, DropStep DEF DropTable

\* A step that works on one row and keeps its shape.
LEMMA RowStep ==
  ASSUME IndInv, NEW o \in Selected, NEW s \in {"total", "heap", "toast", "row"},
         UNCHANGED <<design, alive, size, before, code>>,
         step[o] # "row", step' = [step EXCEPT ![o] = s],
         ShapeInv', \A x \in Selected \ {o} : row'[x] = row[x],
         row'[o].total_size_bytes \subseteq Nat,
         row'[o].heap_size_bytes \subseteq Nat, row'[o].toast_size_bytes \in Nat,
         Joined(o, row'[o]), RowMeasured(o, s, row'[o])
  PROVE  IndInv'
<1>0. /\ Selected' = Selected /\ Relations' = Relations
      /\ \A x : Table(x)' = Table(x)
  BY Snapshot
<1>1. step \in [Selected -> {"joins", "total", "heap", "toast", "row"}]
  BY DEF IndInv, TypeOK
<1>2. TypeOK'
  <2>1. \A x \in Selected : /\ row'[x].total_size_bytes \subseteq Nat
                            /\ row'[x].heap_size_bytes \subseteq Nat
                            /\ row'[x].toast_size_bytes \in Nat
    BY DEF IndInv, TypeOK
  <2> QED
    BY <1>0, <1>1, <2>1 DEF IndInv, TypeOK
<1>3. GrowthInv'
  BY <1>0 DEF IndInv, GrowthInv
<1>4. CodeInv'
  BY <1>0, <1>1 DEF IndInv, CodeInv, NoTableFailsTheList
<1>5. RowInv'
  <2> SUFFICES ASSUME NEW x \in Selected
               PROVE  RowMeasured(x, step[x], row[x])'
    BY <1>0 DEF RowInv
  <2>1. RowMeasured(x, step'[x], row'[x])
    <3>1. CASE x = o
      BY <1>1, <3>1
    <3>2. CASE x # o
      <4>1. step'[x] = step[x] /\ row'[x] = row[x]
        BY <1>1, <3>2
      <4> QED
        BY <4>1 DEF IndInv, RowInv
    <3> QED
      BY <3>1, <3>2
  <2>2. \A y, z : RowMeasured(x, y, z) => RowMeasured(x, y, z)'
    <3>1. \A r \in Relations : size'[r] \in Nat /\ size[r] \leq size'[r]
      BY Sizes
    <3> QED
      BY <3>1, StillMeasured
  <2> QED
    BY <2>1, <2>2
<1>6. JoinsInv'
  <2> SUFFICES ASSUME NEW x \in Selected, step'[x] # "joins"
               PROVE  Joined(x, row[x])'
    BY <1>0 DEF JoinsInv
  <2>1. Joined(x, row'[x])
    BY <1>1 DEF IndInv, JoinsInv
  <2> QED
    BY <2>1, StillJoined
<1> QED
  BY <1>2, <1>3, <1>4, <1>5, <1>6 DEF IndInv

\* pg_relation_size measures what is there.
LEMMA Measures ==
  ASSUME IndInv, NEW r \in Relations
  PROVE  SizeOf(r) \subseteq Nat /\ Measured(r, SizeOf(r))
<1>1. size[r] \in Nat /\ before[r] \in Nat /\ before[r] \leq size[r]
  BY Sizes
<1> QED
  BY <1>1 DEF SizeOf, Measured, NULL

\* pg_total_relation_size measures all that is there of a table.
LEMMA TotalMeasures ==
  ASSUME IndInv, NEW t \in design
  PROVE  TotalSizeOf(t) \subseteq Nat /\ TotalMeasured(t, TotalSizeOf(t))
<1> DEFINE A == Storage(t) \cap alive
<1>0. design \in Designs
  BY DEF IndInv, TypeOK
<1>1. CASE t.oid \notin alive
  BY <1>1 DEF TotalSizeOf, TotalMeasured, NULL
<1>2. CASE t.oid \in alive
  <2>1. Kept(t) = A
    <3>1. t.toast \subseteq alive
      BY <1>2 DEF IndInv, GrowthInv
    <3> QED
      BY <1>0, <1>2, <3>1, StorageApart DEF Kept
  <2>2. IsFiniteSet(Storage(t)) /\ A \in SUBSET Storage(t) /\ A \in SUBSET A
    BY <1>0, StorageFinite
  <2>3. IsFiniteSet(A)
    BY <2>2, FS_Subset
  <2>4. \A r \in Storage(t) : /\ size[r] \in Nat /\ before[r] \in Nat
                              /\ before[r] \leq size[r] /\ size[r] \leq size[r]
    BY <1>0, Sizes, StorageApart
  <2>5. \A r \in A : /\ size[r] \in Nat /\ before[r] \in Nat
                     /\ before[r] \leq size[r] /\ size[r] \leq size[r]
    BY <2>4
  <2>6. TotalSizeOf(t) = {Pages(A, size)}
    BY <1>2 DEF TotalSizeOf
  <2> HIDE DEF A
  <2>7. /\ Pages(A, before) \in Nat /\ Pages(A, size) \in Nat
        /\ Pages(A, before) \leq Pages(A, size)
    BY <2>2, <2>3, <2>5, PagesGrow
  <2>8. /\ Pages(Storage(t), size) \in Nat
        /\ Pages(A, size) \leq Pages(Storage(t), size)
    BY <2>2, <2>5, PagesGrow
  <2>9. Pages(A, size) \in Pages(Kept(t), before)..Pages(Storage(t), size)
    BY <2>1, <2>7, <2>8
  <2> QED
    BY <2>6, <2>7, <2>9 DEF TotalMeasured
<1> QED
  BY <1>1, <1>2

\* The size of a TOAST table is that of the only one there is.
LEMMA ToastMeasures ==
  ASSUME IndInv, NEW t \in design, NEW n,
         n = Zero(UNION {SizeOf(r) : r \in t.toast}, 0)
  PROVE  ToastMeasured(t, n) /\ (t.oid \notin alive => n = 0)
<1> DEFINE U == UNION {SizeOf(r) : r \in t.toast}
<1>0. design \in Designs
  BY DEF IndInv, TypeOK
<1>1. CASE t.toast = {}
  <2>1. U = {}
    BY <1>1
  <2> HIDE DEF U
  <2>2. n = 0
    BY <2>1 DEF U, Zero, NULL
  <2> QED
    BY <1>1, <2>2 DEF ToastMeasured
<1>2. CASE t.toast # {}
  <2>1. PICK r \in t.toast : t.toast = {r}
    BY <1>0, <1>2, StorageApart
  <2>2. r \in Relations
    BY <1>0, StorageApart
  <2>3. U = SizeOf(r)
    BY <2>1
  <2>4. size[r] \in Nat /\ before[r] \in Nat /\ before[r] \leq size[r]
    BY <2>2, Sizes
  <2>5. t.oid \notin alive => r \notin alive
    BY DEF IndInv, GrowthInv
  <2> HIDE DEF U
  <2>6. CASE r \in alive
    <3>1. n = size[r]
      BY <2>3, <2>6 DEF U, Zero, SizeOf, NULL
    <3> QED
      BY <2>1, <2>4, <2>5, <2>6, <3>1 DEF ToastMeasured, SizeFaithful, NULL
  <2>7. CASE r \notin alive
    <3>1. n = 0
      BY <2>3, <2>7 DEF U, Zero, SizeOf, NULL
    <3> QED
      BY <2>1, <2>7, <3>1 DEF ToastMeasured, SizeFaithful, NULL
  <2> QED
    BY <2>6, <2>7
<1> QED
  BY <1>1, <1>2

\* The joined sub-selects are evaluated before the sizes.
LEMMA EvalJoinsStep ==
  ASSUME IndInv, NEW o \in Selected, EvalJoins(o)
  PROVE  IndInv'
<1>1. Selected' = Selected
  BY Snapshot DEF EvalJoins
<1>2. /\ ShapeInv'
      /\ \A x \in Selected \ {o} : row'[x] = row[x]
      /\ row'[o].total_size_bytes = row[o].total_size_bytes
      /\ row'[o].heap_size_bytes = row[o].heap_size_bytes
      /\ row'[o].toast_size_bytes = row[o].toast_size_bytes
      /\ row'[o].indexes = index_agg(o)
      /\ row'[o].constraints = constraint_data(o)
      /\ row'[o].parent_tables = parent_tables(o)
  BY <1>1, Parts DEF EvalJoins, IndInv, ShapeInv
<1>3. /\ row[o].total_size_bytes \subseteq Nat
      /\ row[o].heap_size_bytes \subseteq Nat
      /\ row[o].toast_size_bytes \in Nat /\ design \in Designs /\ TypeOK
  BY DEF IndInv, TypeOK
<1>4. /\ UNCHANGED <<design, alive, size, before, code>>
      /\ step[o] # "row" /\ step' = [step EXCEPT ![o] = "total"]
  BY DEF EvalJoins
<1>5. Joined(o, row'[o])
  <2>1. Table(o) \in design /\ Table(o).oid = o
    BY <1>3, SelectedTable
  <2>2. ParentsFaithful(Table(o), Zero(parent_tables(o), <<>>))
    BY <1>3, <2>1, TableParentsFaithful
  <2>3. parent_tables(o) \in SUBSET Seq(InheritanceRelation)
    BY <1>3, <2>1, ParentsDocument
  <2>4. Decodes(row'[o])
    BY <1>2, <1>3, <2>3, IndexesDocument, ConstraintsDocument DEF Decodes
  <2> QED
    BY <1>2, <1>3, <2>2, <2>4, TableIndexes, TableConstraints DEF Joined
<1>6. \A idx \in Zero(index_agg(o), {}) :
        idx.name \in Relations /\ Measured(idx.name, idx.size_bytes)
  BY <1>3, IndexesDocument, Measures
<1>7. RowMeasured(o, "total", row'[o])
  BY <1>2, <1>6 DEF RowMeasured
<1> QED
  BY <1>2, <1>3, <1>4, <1>5, <1>7, RowStep

\* The sizes are measured after the joins, and leave their results alone.
LEMMA JoinsKept ==
  ASSUME IndInv, NEW o \in Selected, step[o] # "joins",
         row'[o].indexes = row[o].indexes,
         row'[o].constraints = row[o].constraints,
         row'[o].parent_tables = row[o].parent_tables
  PROVE  /\ Joined(o, row'[o])
         /\ \A idx \in Zero(row'[o].indexes, {}) :
              idx.name \in Relations /\ Measured(idx.name, idx.size_bytes)
<1>1. Joined(o, row[o]) /\ RowMeasured(o, step[o], row[o])
  BY DEF IndInv, JoinsInv, RowInv
<1>2. Joined(o, row'[o])
  BY <1>1 DEF Joined, Decodes
<1> QED
  BY <1>1, <1>2 DEF RowMeasured

\* The total size is measured.
LEMMA EvalTotalSizeStep ==
  ASSUME IndInv, NEW o \in Selected, EvalTotalSize(o)
  PROVE  IndInv'
<1>1. Selected' = Selected
  BY Snapshot DEF EvalTotalSize
<1>2. /\ ShapeInv'
      /\ \A x \in Selected \ {o} : row'[x] = row[x]
      /\ row'[o].total_size_bytes = TotalSizeOf(Table(o))
      /\ row'[o].heap_size_bytes = row[o].heap_size_bytes
      /\ row'[o].toast_size_bytes = row[o].toast_size_bytes
      /\ row'[o].indexes = row[o].indexes
      /\ row'[o].constraints = row[o].constraints
      /\ row'[o].parent_tables = row[o].parent_tables
  BY <1>1, Parts DEF EvalTotalSize, IndInv, ShapeInv
<1>3. Table(o) \in design
  BY TableOf
<1>4. /\ row'[o].total_size_bytes \subseteq Nat
      /\ TotalMeasured(Table(o), row'[o].total_size_bytes)
  BY <1>2, <1>3, TotalMeasures
<1>5. row'[o].heap_size_bytes \subseteq Nat /\ row'[o].toast_size_bytes \in Nat
  BY <1>2 DEF IndInv, TypeOK
<1>6. /\ UNCHANGED <<design, alive, size, before, code>>
      /\ step[o] # "row" /\ step' = [step EXCEPT ![o] = "heap"]
      /\ step[o] # "joins"
  BY DEF EvalTotalSize
<1>7. /\ Joined(o, row'[o])
      /\ \A idx \in Zero(row'[o].indexes, {}) :
           idx.name \in Relations /\ Measured(idx.name, idx.size_bytes)
  BY <1>2, <1>6, JoinsKept
<1>8. RowMeasured(o, "heap", row'[o])
  BY <1>4, <1>7 DEF RowMeasured
<1> QED
  BY <1>2, <1>4, <1>5, <1>6, <1>7, <1>8, RowStep

\* The heap's size is measured, of a table that may be gone since.
LEMMA EvalHeapSizeStep ==
  ASSUME IndInv, NEW o \in Selected, EvalHeapSize(o)
  PROVE  IndInv'
<1>1. Selected' = Selected
  BY Snapshot DEF EvalHeapSize
<1>2. /\ ShapeInv'
      /\ \A x \in Selected \ {o} : row'[x] = row[x]
      /\ row'[o].heap_size_bytes = SizeOf(o)
      /\ row'[o].total_size_bytes = row[o].total_size_bytes
      /\ row'[o].toast_size_bytes = row[o].toast_size_bytes
      /\ row'[o].indexes = row[o].indexes
      /\ row'[o].constraints = row[o].constraints
      /\ row'[o].parent_tables = row[o].parent_tables
  BY <1>1, Parts DEF EvalHeapSize, IndInv, ShapeInv
<1>3. Table(o).oid = o /\ o \in Relations
  BY HeapOf DEF IndInv, TypeOK
<1>4. row'[o].heap_size_bytes \subseteq Nat /\ Measured(o, row'[o].heap_size_bytes)
  BY <1>2, <1>3, Measures
<1>5. /\ row'[o].total_size_bytes \subseteq Nat /\ row'[o].toast_size_bytes \in Nat
  BY <1>2 DEF IndInv, TypeOK
<1>6. /\ UNCHANGED <<design, alive, size, before, code>>
      /\ step[o] = "heap" /\ step' = [step EXCEPT ![o] = "toast"]
  BY DEF EvalHeapSize
<1>7. TotalMeasured(Table(o), row'[o].total_size_bytes)
  BY <1>2, <1>6 DEF IndInv, RowInv, RowMeasured
<1>8. row'[o].total_size_bytes = NULL => row'[o].heap_size_bytes = NULL
  <2>1. row'[o].total_size_bytes = NULL => o \notin alive
    BY <1>3, <1>7 DEF TotalMeasured, NULL
  <2> QED
    BY <1>2, <2>1 DEF SizeOf
<1>9. /\ Joined(o, row'[o])
      /\ \A idx \in Zero(row'[o].indexes, {}) :
           idx.name \in Relations /\ Measured(idx.name, idx.size_bytes)
  BY <1>2, <1>6, JoinsKept
<1>10. RowMeasured(o, "toast", row'[o])
  BY <1>4, <1>7, <1>8, <1>9 DEF RowMeasured
<1> QED
  BY <1>2, <1>4, <1>5, <1>6, <1>9, <1>10, RowStep

\* The size of the TOAST table is measured last.
LEMMA EvalToastSizeStep ==
  ASSUME IndInv, NEW o \in Selected, EvalToastSize(o)
  PROVE  IndInv'
<1>1. Selected' = Selected
  BY Snapshot DEF EvalToastSize
<1>2. /\ ShapeInv'
      /\ \A x \in Selected \ {o} : row'[x] = row[x]
      /\ row'[o].toast_size_bytes =
           Zero(UNION {SizeOf(r) : r \in Table(o).toast}, 0)
      /\ row'[o].heap_size_bytes = row[o].heap_size_bytes
      /\ row'[o].total_size_bytes = row[o].total_size_bytes
      /\ row'[o].indexes = row[o].indexes
      /\ row'[o].constraints = row[o].constraints
      /\ row'[o].parent_tables = row[o].parent_tables
  BY <1>1, Parts DEF EvalToastSize, IndInv, ShapeInv
<1>3. Table(o) \in design /\ Table(o).oid = o
  BY TableOf
<1>4. /\ ToastMeasured(Table(o), row'[o].toast_size_bytes)
      /\ o \notin alive => row'[o].toast_size_bytes = 0
  BY <1>2, <1>3, ToastMeasures
<1>5. /\ row'[o].total_size_bytes \subseteq Nat
      /\ row'[o].heap_size_bytes \subseteq Nat /\ row'[o].toast_size_bytes \in Nat
  BY <1>2, <1>4 DEF IndInv, TypeOK, ToastMeasured
<1>6. /\ UNCHANGED <<design, alive, size, before, code>>
      /\ step[o] = "toast" /\ step' = [step EXCEPT ![o] = "row"]
  BY DEF EvalToastSize
<1>7. /\ TotalMeasured(Table(o), row'[o].total_size_bytes)
      /\ Measured(o, row'[o].heap_size_bytes)
      /\ row'[o].total_size_bytes = NULL => row'[o].heap_size_bytes = NULL
  BY <1>2, <1>6 DEF IndInv, RowInv, RowMeasured
<1>8. row'[o].total_size_bytes = NULL => row'[o].toast_size_bytes = 0
  <2>1. row'[o].total_size_bytes = NULL => o \notin alive
    BY <1>3, <1>7 DEF TotalMeasured, NULL
  <2> QED
    BY <1>4, <2>1
<1>9. /\ Joined(o, row'[o])
      /\ \A idx \in Zero(row'[o].indexes, {}) :
           idx.name \in Relations /\ Measured(idx.name, idx.size_bytes)
  BY <1>2, <1>6, JoinsKept
<1>10. RowMeasured(o, "row", row'[o])
  BY <1>4, <1>7, <1>8, <1>9 DEF RowMeasured
<1> QED
  BY <1>2, <1>5, <1>6, <1>9, <1>10, RowStep

\* Every document of every row unmarshals.
LEMMA RowsUnmarshal ==
  ASSUME IndInv, NEW o \in Selected, step[o] # "joins"
  PROVE  Unmarshals(o)
<1>1. design \in Designs /\ Table(o) \in design /\ Table(o).oid = o
  BY TableOf DEF IndInv, TypeOK
<1>2. Table(o).reltuples \in Int
  BY <1>1, WellFormed DEF WellFormedTable
<1>3. Unmarshal(statsJSON(o), TableStats)
  <2>1. /\ row[o].total_size_bytes \in SUBSET Nat
        /\ row[o].heap_size_bytes \in SUBSET Nat /\ row[o].toast_size_bytes \in Nat
    BY DEF IndInv, TypeOK
  <2> QED
    BY <1>2, <2>1 DEF Unmarshal, statsJSON, TableStats
<1>4. columns(o) # NULL => Unmarshal(columns(o), Seq(TableColumn))
  BY <1>1, ColumnsDocument
<1>5. Decodes(row[o])
  BY DEF IndInv, JoinsInv, Joined
<1>6. Unmarshal(inheritanceJSON(o), TableInheritance)
  BY <1>5 DEF Decodes, Unmarshal, inheritanceJSON, TableInheritance
<1> QED
  BY <1>3, <1>4, <1>5, <1>6 DEF Unmarshals, Decodes

\* The loop ends without an error.
LEMMA ReturnStep ==
  ASSUME IndInv, Return
  PROVE  IndInv'
<1>0. /\ Oids' = Oids /\ Selected' = Selected /\ Relations' = Relations
      /\ \A o : Table(o)' = Table(o)
  BY Snapshot DEF Return
<1>1. code' = "nil"
  BY RowsUnmarshal DEF Return
<1>2. TypeOK' /\ GrowthInv' /\ ShapeInv'
  BY <1>0, <1>1 DEF Return, IndInv, TypeOK, GrowthInv, ShapeInv, NoRow
<1>3. RowInv'
  <2> SUFFICES ASSUME NEW o \in Selected PROVE RowMeasured(o, step[o], row[o])'
    BY <1>0 DEF RowInv
  <2>1. RowMeasured(o, step'[o], row'[o])
    BY DEF Return, IndInv, RowInv
  <2>2. \A y, z : RowMeasured(o, y, z) => RowMeasured(o, y, z)'
    <3>1. \A r \in Relations : size'[r] \in Nat /\ size[r] \leq size'[r]
      BY Sizes DEF Return
    <3> QED
      BY <3>1, StillMeasured DEF Return
  <2> QED
    BY <2>1, <2>2
<1>4. CodeInv'
  BY <1>0, <1>1 DEF Return, CodeInv, NoTableFailsTheList
<1>5. JoinsInv'
  <2> SUFFICES ASSUME NEW o \in Selected PROVE Joined(o, row[o])'
    BY <1>0 DEF JoinsInv
  <2>1. Joined(o, row'[o])
    BY DEF Return, IndInv, JoinsInv
  <2> QED
    BY <2>1, StillJoined DEF Return
<1> QED
  BY <1>2, <1>3, <1>4, <1>5 DEF IndInv

\* Every step keeps the invariant.
LEMMA NextIndInv == IndInv /\ [Next]_vars => IndInv'
<1> SUFFICES ASSUME IndInv, [Next]_vars PROVE IndInv'
  OBVIOUS
<1>1. ASSUME NEW o \in Selected, NEW r \in Storage(Table(o)), Grow(o, r)
      PROVE  IndInv'
  BY <1>1, GrowStep
<1>2. ASSUME NEW o \in Selected, NEW ix \in Table(o).indexes, DropIndex(ix)
      PROVE  IndInv'
  BY <1>2, DropIndexStep
<1>3. ASSUME NEW o \in Selected, DropTable(o)
      PROVE  IndInv'
  BY <1>3, DropTableStep
<1>4. ASSUME NEW o \in Selected, EvalJoins(o) \/ EvalTotalSize(o)
      PROVE  IndInv'
  BY <1>4, EvalJoinsStep, EvalTotalSizeStep
<1>5. ASSUME NEW o \in Selected, EvalHeapSize(o) \/ EvalToastSize(o)
      PROVE  IndInv'
  BY <1>5, EvalHeapSizeStep, EvalToastSizeStep
<1>6. CASE Return
  BY <1>6, ReturnStep
<1>7. CASE UNCHANGED vars
  <2>1. UNCHANGED <<design, alive, size, before, step, row, code>>
    BY <1>7 DEF vars
  <2>2. \A t \in design : /\ t.oid \in alive' => t.toast \subseteq alive'
                          /\ t.oid \notin alive' => t.toast \cap alive' = {}
    BY <2>1 DEF IndInv, GrowthInv
  <2> QED
    BY <2>1, <2>2, DropStep
<1> QED
  BY <1>1, <1>2, <1>3, <1>4, <1>5, <1>6, <1>7 DEF Next, Answered

\* The inductive invariant.
THEOREM TablesInv == Spec => []IndInv
  BY InitIndInv, NextIndInv, PTL DEF Spec

(* Type correctness: the numbers of the stats are NULL or natural numbers. *)
THEOREM TablesTypeOK == Spec => []TypeOK
<1>1. IndInv => TypeOK
  BY DEF IndInv
<1> QED
  BY <1>1, TablesInv, PTL

(* SizesFaithful: the sizes of tables, of their TOAST tables and of their  *)
(* indexes in a reply are sizes these had between the begin and the end of *)
(* the query, or 0 for what was dropped; the total is of all that still    *)
(* exists, or 0 with the others.                                           *)
THEOREM TablesSizesFaithful == Spec => []SizesFaithful
<1>1. IndInv => SizesFaithful
  <2> SUFFICES ASSUME IndInv, code # "none", NEW o \in Selected
      PROVE  LET doc == Reply[o]
                 t == Table(o)
                 kept == {o} \cup t.toast \cup (Storage(t) \cap alive)
             IN  /\ SizeFaithful(o, doc.heap_size_bytes)
                 /\ \A r \in t.toast : SizeFaithful(r, doc.toast_size_bytes)
                 /\ t.toast = NULL => doc.toast_size_bytes = 0
                 /\ \A i \in doc.indexes : SizeFaithful(i.name, i.size_bytes)
                 /\ \/ doc.total_size_bytes
                         \in Pages(kept, before)..Pages(Storage(t), size)
                    \/ /\ o \notin alive /\ doc.total_size_bytes = 0
                       /\ doc.heap_size_bytes = 0 /\ doc.toast_size_bytes = 0
    BY DEF SizesFaithful, Reply
  <2> DEFINE t == Table(o)
             v == row[o]
  <2>0. t.oid = o /\ o \in Relations /\ step[o] = "row"
    BY HeapOf DEF IndInv, TypeOK, CodeInv
  <2>1. /\ Reply[o].heap_size_bytes = Zero(v.heap_size_bytes, 0)
        /\ Reply[o].total_size_bytes = Zero(v.total_size_bytes, 0)
        /\ Reply[o].toast_size_bytes = v.toast_size_bytes
        /\ Reply[o].indexes = {IndexProto(idx) : idx \in Zero(v.indexes, {})}
    BY DEF Reply, tableToProto
  <2>2. RowMeasured(o, "row", v)
    BY <2>0 DEF IndInv, RowInv
  <2>3. ASSUME NEW r \in Relations, NEW value, Measured(r, value)
        PROVE  SizeFaithful(r, Zero(value, 0))
    BY <2>3 DEF Measured, SizeFaithful, Zero, NULL
  <2>4. SizeFaithful(o, Reply[o].heap_size_bytes)
    BY <2>0, <2>1, <2>2, <2>3 DEF RowMeasured
  <2>5. /\ \A r \in t.toast : SizeFaithful(r, Reply[o].toast_size_bytes)
        /\ t.toast = NULL => Reply[o].toast_size_bytes = 0
    BY <2>1, <2>2 DEF RowMeasured, ToastMeasured
  <2>6. ASSUME NEW i \in Reply[o].indexes PROVE SizeFaithful(i.name, i.size_bytes)
    <3>1. PICK idx \in Zero(v.indexes, {}) : i = IndexProto(idx)
      BY <2>1
    <3>2. i.name = idx.name /\ i.size_bytes = Zero(idx.size_bytes, 0)
      BY <3>1 DEF IndexProto
    <3>3. idx.name \in Relations /\ Measured(idx.name, idx.size_bytes)
      BY <2>2 DEF RowMeasured
    <3> QED
      BY <2>3, <3>2, <3>3
  <2>7. \/ Reply[o].total_size_bytes
             \in Pages(Kept(t), before)..Pages(Storage(t), size)
        \/ /\ o \notin alive /\ Reply[o].total_size_bytes = 0
           /\ Reply[o].heap_size_bytes = 0 /\ Reply[o].toast_size_bytes = 0
    <3>1. /\ TotalMeasured(t, v.total_size_bytes)
          /\ v.total_size_bytes = NULL =>
               v.heap_size_bytes = NULL /\ v.toast_size_bytes = 0
      BY <2>2 DEF RowMeasured
    <3>2. CASE v.total_size_bytes = NULL /\ o \notin alive
      BY <2>1, <3>1, <3>2 DEF Zero
    <3>3. CASE \E n \in v.total_size_bytes :
                 /\ v.total_size_bytes = {n} /\ n \in Nat
                 /\ n \in Pages(Kept(t), before)..Pages(Storage(t), size)
      BY <2>1, <3>3 DEF Zero, NULL
    <3> QED
      BY <2>0, <3>1, <3>2, <3>3 DEF TotalMeasured
  <2>8. Kept(t) = {o} \cup t.toast \cup (Storage(t) \cap alive)
    BY <2>0 DEF Kept
  <2> QED
    BY <2>4, <2>5, <2>6, <2>7, <2>8
<1> QED
  BY <1>1, TablesInv, PTL

(* DesignFaithful: for every database that PostgreSQL can hold, the reply  *)
(* has the tables of its user schemas with their columns, indexes,         *)
(* constraints and parents as they were declared, and in their order,      *)
(* whichever tables are dropped while the query runs.                      *)
THEOREM TablesDesignFaithful == Spec => []DesignFaithful
<1>1. IndInv => DesignFaithful
  <2> SUFFICES ASSUME IndInv, code # "none" PROVE DesignFaithful
    BY DEF DesignFaithful
  <2>1. design \in Designs /\ \A o \in Selected : Joined(o, row[o])
    BY DEF IndInv, TypeOK, CodeInv, JoinsInv
  <2>2. RelationsFaithful
    BY <2>1, RelationsListed
  <2>3. ASSUME NEW o \in Selected
        PROVE  /\ Reply[o].schema = Table(o).ns
               /\ Reply[o].comment = Table(o).comment
               /\ ColumnsFaithful(Table(o), Reply[o].columns)
               /\ IndexesFaithful(Table(o), Reply[o].indexes)
               /\ ConstraintsFaithful(Table(o), Reply[o].constraints)
               /\ ParentsFaithful(Table(o), Reply[o].parent_tables)
    <3>1. /\ Reply[o].schema = Table(o).ns
          /\ Reply[o].comment = Table(o).comment
          /\ Reply[o].columns = Zero(columns(o), <<>>)
          /\ Reply[o].indexes =
               {IndexProto(idx) : idx \in Zero(row[o].indexes, {})}
          /\ Reply[o].constraints =
               {ConstraintProto(con) : con \in Zero(row[o].constraints, {})}
          /\ Reply[o].parent_tables = Zero(row[o].parent_tables, <<>>)
      BY DEF Reply, tableToProto
    <3>2. ColumnsFaithful(Table(o), Zero(columns(o), <<>>))
      BY <2>1, SelectedTable, TableColumns
    <3> QED
      BY <2>1, <3>1, <3>2 DEF Joined
  <2>4. DOMAIN Reply = Selected
    BY DEF Reply
  <2> QED
    BY <2>2, <2>3, <2>4 DEF DesignFaithful
<1> QED
  BY <1>1, TablesInv, PTL

(* NoTableFailsTheList: every document of every row is one that            *)
(* json.Unmarshal takes, or a NULL that the code does not give it, however *)
(* the table is declared and whatever is dropped while the query runs.     *)
THEOREM TablesNoTableFailsTheList == Spec => []NoTableFailsTheList
<1>1. IndInv => NoTableFailsTheList
  BY DEF IndInv, CodeInv
<1> QED
  BY <1>1, TablesInv, PTL

(* The two filters for schemas agree: a schema whose sequences and          *)
(* functions are listed (store.go) has its tables listed (tables.go), and   *)
(* neither query lists anything of a schema that is PostgreSQL's own.       *)
THEOREM SchemaFiltersAgree ==
  \A n : /\ Where(n) => WhereTables(n)
         /\ System(n) /\ Reserved(n) => ~Where(n) /\ ~WhereTables(n)
<1> TAKE n
<1>1. System(n) => ~Where(n)
  BY DEF System, Where, LikePg
<1>2. ASSUME Where(n) PROVE WhereTables(n)
  <2>1. System(<<"pg", "_", "catalog">>) /\ System(<<"pg", "_", "toast">>)
    BY DEF System
  <2>2. n \notin {<<"pg", "_", "catalog">>, <<"pg", "_", "toast">>}
    BY <1>1, <1>2, <2>1
  <2>3. ~LikePgTemp(n) /\ ~LikePgToastTemp(n)
    BY <1>2 DEF Where, LikePg, LikePgTemp, LikePgToastTemp
  <2> QED
    BY <1>2, <2>2, <2>3 DEF Where, WhereTables
<1>3. System(n) /\ Reserved(n) => ~WhereTables(n)
  BY OwnSchemasHidden
<1> QED
  BY <1>1, <1>2, <1>3
=============================================================================
