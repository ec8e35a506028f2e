------------------------- MODULE SearchIndexProofs -------------------------
(***************************************************************************)
(* What holds of SearchIndex for any number of commands, archives and      *)
(* kills.  An untouched index is exact because each statement of a         *)
(* migration finds what the statements before it have made, though         *)
(* rebuilds, imports and kills come in between: that is Untouched.  A      *)
(* command that is alone finds what it has made itself: that is Lonely.    *)
(***************************************************************************)
EXTENDS SearchIndex, FiniteSetTheorems, WellFoundedInduction, TLAPS

\* Row numbers have a largest one, so the next ones are numbers too.
Bounded(D) == \E n \in Nat : \A d \in D : d.row <= n

\* Every command is at a statement of its own.
Kinds ==
    \A c \in Commands :
        /\ pc[c] \in {"index", "trigger", "samples", "backfill"} => kind[c] = "migrate"
        /\ pc[c] \in {"drop", "create", "populate"} => kind[c] # "migrate"
        /\ pc[c] \in {"untrigger", "retrigger"} => kind[c] = "rebuild"

\* There is nothing in the index that has not been in the table.
NothingFromNothing == (items = Empty \/ fts = "none") => docs = {}

Untouched == ~touched =>
    /\ trigger # "auto"
    /\ \/ fts = "external" /\ docs = Posted(items)
       \/ fts = "none" /\ items = Empty
    /\ \A c \in Commands :
          /\ pc[c] \in {"trigger", "samples"} => fts = "external"
          /\ pc[c] = "samples" => trigger = "rowid"

\* What a rebuild of an external index leaves: hits report the rows' numbers.
Counted(table) == {[row |-> Rank(DOMAIN table, i), id |-> Rank(DOMAIN table, i),
                    word |-> table[i]] : i \in DOMAIN table}

\* What a rebuild of a simple index leaves: an entry for each item.
OnePerItem(D) ==
    /\ {d.id : d \in D} = DOMAIN items
    /\ \A d \in D : d.word = items[d.id]
    /\ \A d, e \in D : d.id = e.id => d = e

Lonely == \A c \in Commands : alone = c =>
    /\ kind[c] = "migrate" =>
          /\ pc[c] # "failed"
          /\ pc[c] \in {"trigger", "samples", "backfill"} => fts # "none"
    /\ kind[c] = "simple" =>
          /\ pc[c] = "create" => fts = "none"
          /\ pc[c] = "populate" => fts = "simple" /\ docs = {}
          /\ pc[c] = "done" => fts = "simple" /\ OnePerItem(docs)
    /\ kind[c] = "rebuild" =>
          /\ pc[c] = "create" => fts = "none"
          /\ pc[c] = "populate" => fts = "external" /\ docs = {}
          /\ pc[c] \in {"untrigger", "retrigger", "done"} =>
                fts = "external" /\ docs = Counted(items)

Inv == /\ TypeOK /\ Bounded(docs)
       /\ Kinds /\ NothingFromNothing /\ Untouched /\ Lonely

-----------------------------------------------------------------------------
\* Numbers and sets of them.
LEMMA Smallest ==
  ASSUME NEW U \in SUBSET Nat, U # {}
  PROVE  \E x \in U : \A y \in U : x <= y
<1>1. PICK x \in U : \A y \in U : ~(<<y, x>> \in OpToRel(<, Nat))
  BY NatLessThanWellFounded, WFMin
<1>2. \A y \in U : ~(y < x)
  BY <1>1 DEF OpToRel
<1> QED BY <1>2

LEMMA Largest ==
  ASSUME NEW S \in SUBSET Nat, S # {}, NEW n \in Nat, \A s \in S : s <= n
  PROVE  \E x \in S : \A s \in S : s <= x
<1> DEFINE U == {u \in Nat : \A s \in S : s <= u}
<1>1. PICK x \in U : \A u \in U : x <= u
  <2>1. U # {} /\ U \in SUBSET Nat
    OBVIOUS
  <2> HIDE DEF U
  <2> QED BY <2>1, Smallest
<1>2. CASE x \in S
  BY <1>2
<1>3. CASE x \notin S
  <2>1. \A s \in S : s < x
    BY <1>3
  <2>2. x - 1 \in U
    <3>1. PICK s \in S : s < x /\ s \in Nat
      BY <2>1
    <3>2. x \in Nat /\ x - 1 \in Nat
      BY <3>1
    <3>3. \A t \in S : t <= x - 1
      BY <2>1, <3>2
    <3> QED BY <3>2, <3>3
  <2> QED BY <1>1, <2>2
<1> QED BY <1>2, <1>3

\* A finite set of numbers has an upper bound: the smallest one without a
\* bound would have one without an element of it.
LEMMA FiniteIsBounded ==
  ASSUME NEW S \in SUBSET Nat, IsFiniteSet(S)
  PROVE  \E n \in Nat : \A s \in S : s <= n
<1> DEFINE Limited(T) == \E n \in Nat : \A s \in T : s <= n
<1> DEFINE U == {k \in Nat : \E T \in SUBSET S : Cardinality(T) = k /\ ~Limited(T)}
<1>1. SUFFICES ASSUME ~Limited(S) PROVE FALSE
  OBVIOUS
<1>2. Cardinality(S) \in U
  <2> HIDE DEF Limited
  <2> QED BY <1>1, FS_CardinalityType
<1>3. PICK k \in U : \A l \in U : k <= l
  <2>1. U # {} /\ U \in SUBSET Nat
    BY <1>2
  <2> HIDE DEF U
  <2> QED BY <2>1, Smallest
<1>4. PICK T \in SUBSET S : Cardinality(T) = k /\ ~Limited(T)
  OBVIOUS
<1>5. PICK t \in T : TRUE
  BY <1>4
<1>6. T \ {t} \in SUBSET S /\ Cardinality(T \ {t}) = k - 1 /\ k - 1 \in Nat
  <2>1. IsFiniteSet(T)
    BY FS_Subset
  <2>2. IsFiniteSet(T \ {t}) /\ Cardinality(T \ {t}) = Cardinality(T) - 1
    BY <2>1, <1>5, FS_RemoveElement
  <2> QED BY <1>4, <2>2, FS_CardinalityType
<1>7. Limited(T \ {t})
  <2> HIDE DEF Limited
  <2>1. k - 1 \in U \/ Limited(T \ {t})
    BY <1>6
  <2> QED BY <1>3, <1>6, <2>1
<1>8. PICK n \in Nat : \A s \in T \ {t} : s <= n
  BY <1>7
<1>9. n + t \in Nat /\ \A s \in T : s <= n + t
  BY <1>8, <1>5
<1> QED BY <1>4, <1>9

LEMMA IdsAreBounded == \E n \in Nat : \A i \in Ids : i <= n
BY IndexAssumption, FiniteIsBounded

LEMMA UnionIsBounded ==
  ASSUME NEW D \in SUBSET Entry, NEW E \in SUBSET Entry, Bounded(D), Bounded(E)
  PROVE  Bounded(D \cup E)
<1>1. PICK m \in Nat : \A d \in D : d.row <= m
  BY DEF Bounded
<1>2. PICK n \in Nat : \A d \in E : d.row <= n
  BY DEF Bounded
<1>3. m + n \in Nat /\ \A d \in D \cup E : d.row <= m + n
  BY <1>1, <1>2 DEF Entry
<1> QED BY <1>3 DEF Bounded

-----------------------------------------------------------------------------
\* The tables, and the entries made of them.
LEMMA TableFacts ==
  ASSUME NEW table \in Tables \cup {Empty}
  PROVE  /\ DOMAIN table \subseteq Ids
         /\ \A i \in DOMAIN table : i \in Nat /\ table[i] \in Words
<1>1. CASE table \in Tables
  BY <1>1, IndexAssumption DEF Ids
<1>2. CASE table = Empty
  BY <1>2 DEF Empty
<1> QED BY <1>1, <1>2

\* Under their own ids.
LEMMA OwnIds ==
  ASSUME NEW table \in Tables \cup {Empty}, NEW S \in SUBSET DOMAIN table
  PROVE  /\ {At(i, i, table[i]) : i \in S} \in SUBSET Entry
         /\ Bounded({At(i, i, table[i]) : i \in S})
         /\ {At(i, i, table[i]) : i \in S}
               = {[row |-> i, id |-> i, word |-> table[i]] : i \in S}
<1>1. \A i \in S : At(i, i, table[i]) = [row |-> i, id |-> i, word |-> table[i]]
  BY DEF At
<1>2. PICK n \in Nat : \A i \in Ids : i <= n
  BY IdsAreBounded
<1>3. ASSUME NEW i \in S
      PROVE  At(i, i, table[i]) \in Entry /\ At(i, i, table[i]).row <= n
  <2>1. i \in Nat /\ i <= n /\ table[i] \in Words
    BY <1>2, TableFacts
  <2> QED BY <2>1 DEF At, Entry
<1> QED BY <1>1, <1>3 DEF Bounded

\* Behind the last row.
LEMMA NextRows ==
  ASSUME TypeOK, Bounded(docs),
         NEW table \in Tables \cup {Empty}, NEW S \in SUBSET DOMAIN table
  PROVE  Numbered(table, S) \in SUBSET Entry /\ Bounded(Numbered(table, S))
<1>1. Top \in Nat
  <2>1. CASE docs = {}
    BY <2>1 DEF Top
  <2>2. CASE docs # {}
    <3> DEFINE N == {d.row : d \in docs}
    <3>1. N \in SUBSET Nat /\ N # {}
      BY <2>2 DEF TypeOK, Entry
    <3>2. PICK n \in Nat : \A d \in docs : d.row <= n
      BY DEF Bounded
    <3>3. PICK x \in N : \A s \in N : s <= x
      <4>1. \A s \in N : s <= n
        BY <3>2
      <4> HIDE DEF N
      <4> QED BY <3>1, <4>1, Largest
    <3>4. \A d \in docs : d.row <= x
      BY <3>3
    <3> QED BY <2>2, <3>1, <3>3, <3>4 DEF Top
  <2> QED BY <2>1, <2>2
<1>2. \A i \in S : Rank(S, i) \in Nat /\ Rank(S, i) <= Cardinality(Ids)
  <2>1. IsFiniteSet(Ids) /\ S \in SUBSET Ids
    BY TableFacts, IndexAssumption
  <2>2. \A i \in S : {j \in S : j <= i} \in SUBSET Ids
    BY <2>1
  <2> QED BY <2>1, <2>2, FS_Subset, FS_CardinalityType DEF Rank
<1>3. Cardinality(Ids) \in Nat
  BY IndexAssumption, FS_CardinalityType
<1>4. ASSUME NEW i \in S
      PROVE  /\ At(Top + Rank(S, i), i, table[i]) \in Entry
             /\ At(Top + Rank(S, i), i, table[i]).row <= Top + Cardinality(Ids)
  <2>1. Top + Rank(S, i) \in Nat /\ Top + Rank(S, i) <= Top + Cardinality(Ids)
    BY <1>1, <1>2, <1>3
  <2>2. i \in Nat /\ table[i] \in Words
    BY TableFacts
  <2> QED BY <2>1, <2>2 DEF At, Entry
<1>5. Top + Cardinality(Ids) \in Nat
  BY <1>1, <1>3
<1> QED BY <1>4, <1>5 DEF Numbered, Bounded

-----------------------------------------------------------------------------
\* The parts of the invariant that follow from what a step does to pc and
\* alone: ends, moves and kills of one command.
LEMMA Populated ==
  ASSUME fts = "simple", docs = {}, items \in Tables \cup {Empty}
  PROVE  OnePerItem(Numbered(items, DOMAIN items))
<1> DEFINE D == Numbered(items, DOMAIN items)
           New(i) == [row |-> Top + Rank(DOMAIN items, i), id |-> i, word |-> items[i]]
<1>1. D = {New(i) : i \in DOMAIN items}
  BY DEF Numbered, At
<1>2. \A i \in DOMAIN items : New(i).id = i /\ New(i).word = items[i]
  OBVIOUS
<1> HIDE DEF New, D
<1>3. {d.id : d \in D} = DOMAIN items
  BY <1>1, <1>2
<1>4. \A d, e \in D : d.id = e.id => d = e
  BY <1>1, <1>2
<1>5. \A d \in D : d.word = items[d.id]
  BY <1>1, <1>2
<1> QED BY <1>3, <1>4, <1>5 DEF D, OnePerItem

\* With an entry for each item, a query hits those whose name or id it is.
LEMMA NamesAndIds ==
  ASSUME fts = "simple", OnePerItem(docs), NEW w
  PROVE  /\ {d.id : d \in Hits(w)} = {i \in DOMAIN items : w \in {items[i], i}}
         /\ \A d, e \in Hits(w) : d.id = e.id => d = e
<1>1. \A d \in docs : d \in Hits(w) <=> w \in {items[d.id], d.id}
  BY DEF Hits, OnePerItem
<1>2. \A i \in DOMAIN items : \E d \in docs : d.id = i
  BY DEF OnePerItem
<1>3. Hits(w) \subseteq docs /\ \A d \in docs : d.id \in DOMAIN items
  BY DEF Hits, OnePerItem
<1> QED BY <1>1, <1>2, <1>3 DEF OnePerItem

\* Numbering the elements of a set counts them: from 1 to their number, each
\* number once.
LEMMA Ranks ==
  ASSUME NEW S \in SUBSET Nat, IsFiniteSet(S)
  PROVE  /\ Cardinality(S) \in Nat
         /\ \A i \in S : Rank(S, i) \in 1 .. Cardinality(S)
         /\ \A n \in 1 .. Cardinality(S) : \E i \in S : Rank(S, i) = n
<1> DEFINE Below(i) == {j \in S : j <= i}
           f == [i \in S |-> Rank(S, i)]
           N == 1 .. Cardinality(S)
<1>1. Cardinality(S) \in Nat
  BY FS_CardinalityType
<1>2. ASSUME NEW i \in S
      PROVE  /\ IsFiniteSet(Below(i)) /\ Cardinality(Below(i)) \in Nat
             /\ Cardinality(Below(i)) <= Cardinality(S)
             /\ Cardinality(Below(i)) # 0
  <2>1. Below(i) \in SUBSET S /\ i \in Below(i)
    OBVIOUS
  <2> HIDE DEF Below
  <2>2. IsFiniteSet(Below(i)) /\ Cardinality(Below(i)) <= Cardinality(S)
    BY <2>1, FS_Subset
  <2> QED
    BY <2>1, <2>2, FS_CardinalityType, FS_EmptySet
<1>3. \A i \in S : Rank(S, i) = Cardinality(Below(i))
  BY DEF Rank
<1>4. \A i \in S : Rank(S, i) \in N
  <2> HIDE DEF Below
  <2> QED BY <1>1, <1>2, <1>3
<1>5. ASSUME NEW i \in S, NEW j \in S, i < j PROVE Rank(S, i) # Rank(S, j)
  <2>a. i \in Nat /\ j \in Nat /\ \A k \in S : k \in Nat
    OBVIOUS
  <2>b. /\ \A k \in S : k <= i => k <= j
        /\ j <= j /\ ~(j <= i)
    BY <1>5, <2>a
  <2>1. Below(i) \in SUBSET Below(j) /\ j \in Below(j) /\ j \notin Below(i)
    BY <2>b
  <2> HIDE DEF Below
  <2>2. Cardinality(Below(i)) # Cardinality(Below(j))
    BY <1>2, <2>1, FS_Subset
  <2> QED BY <1>3, <2>2
<1>6. f \in Injection(S, N)
  <2>1. \A i, j \in S : Rank(S, i) = Rank(S, j) => i = j
    <3>1. \A i, j \in S : i < j \/ j < i \/ i = j
      OBVIOUS
    <3> QED BY <1>5, <3>1
  <2> QED BY <1>4, <2>1 DEF Injection, IsInjective
<1>7. IsFiniteSet(N) /\ Cardinality(N) = Cardinality(S)
  <2>1. /\ IsFiniteSet(1 .. Cardinality(S))
        /\ Cardinality(1 .. Cardinality(S))
              = IF 1 > Cardinality(S) THEN 0 ELSE Cardinality(S) - 1 + 1
    BY <1>1, FS_Interval
  <2> QED BY <1>1, <2>1
<1>8. f \in Surjection(S, N)
  <2> HIDE DEF f, N
  <2> QED BY <1>6, <1>7, FS_Injection
<1>9. \A n \in N : \E i \in S : Rank(S, i) = n
  BY <1>8 DEF Surjection
<1> QED BY <1>1, <1>4, <1>9

\* Numbers without a gap are their own numbering.
LEMMA DenseRanks ==
  ASSUME NEW S \in SUBSET Nat, IsFiniteSet(S), Dense(S), NEW i \in S
  PROVE  Rank(S, i) = i
<1>1. Cardinality(S) \in Nat
  BY FS_CardinalityType
<1>2. i \in 1 .. Cardinality(S) /\ {j \in S : j <= i} = 1 .. i
  BY <1>1 DEF Dense
<1>3. Cardinality(1 .. i) = i
  BY <1>1, <1>2, FS_Interval
<1> QED BY <1>2, <1>3 DEF Rank

\* An external index that holds each item under its own id is exact.
LEMMA PostedIsExact ==
  ASSUME fts = "external", docs = Posted(items)
  PROVE  SearchIsExact
<1>1. ASSUME NEW w \in Queries
      PROVE  Hits(w) = {[row |-> i, id |-> i, word |-> items[i]] :
                           i \in {j \in DOMAIN items : items[j] = w}}
  BY <1>1 DEF Hits, Posted
<1>2. ASSUME NEW w \in Queries PROVE Readable(w)
  BY <1>1, <1>2 DEF Readable
<1>3. ASSUME NEW w \in Queries, NEW i \in DOMAIN items
      PROVE  Found(i, w) = IF items[i] = w
                           THEN {[row |-> i, id |-> i, word |-> items[i]]} ELSE {}
  BY <1>1, <1>3 DEF Found
<1> QED BY <1>2, <1>3 DEF SearchIsExact

\* An external index that numbers the items is exact if the ids have no gap, and
\* otherwise a number that is no id makes a query fail.
LEMMA CountedIsExact ==
  ASSUME items \in Tables \cup {Empty}, fts = "external", docs = Counted(items)
  PROVE  SearchIsExact <=> Dense(DOMAIN items)
<1> DEFINE S == DOMAIN items
<1>1. /\ S \in SUBSET Nat /\ IsFiniteSet(S)
      /\ \A i \in S : items[i] \in Words
  <2>1. S \in SUBSET Ids
    BY TableFacts
  <2>2. IsFiniteSet(S)
    BY <2>1, IndexAssumption, FS_Subset
  <2> QED BY <2>1, <2>2, TableFacts
<1> HIDE DEF S
<1>2. ASSUME Dense(S) PROVE SearchIsExact
  <2>1. \A i \in S : Rank(S, i) = i
    BY <1>1, <1>2, DenseRanks
  <2>2. Counted(items) = Posted(items)
    BY <2>1 DEF Counted, Posted, S
  <2> QED BY <2>2, PostedIsExact
<1>3. ASSUME SearchIsExact PROVE Dense(S)
  <2>1. 1 .. Cardinality(S) \in SUBSET S
    <3>1. SUFFICES ASSUME NEW n \in 1 .. Cardinality(S) PROVE n \in S
      OBVIOUS
    <3>2. PICK i \in S : Rank(S, i) = n
      BY <1>1, Ranks
    <3>3. [row |-> n, id |-> n, word |-> items[i]] \in docs /\ items[i] \in Words
      BY <1>1, <3>2 DEF Counted, S
    <3>4. [row |-> n, id |-> n, word |-> items[i]] \in Hits(items[i])
      BY <3>3 DEF Hits
    <3>5. Readable(items[i])
      BY <1>3, <3>3 DEF SearchIsExact, Queries
    <3>6. \A d \in Hits(items[i]) : d.id \in S
      BY <3>5 DEF Readable, S
    <3> QED BY <3>4, <3>6
  <2>2. Cardinality(1 .. Cardinality(S)) = Cardinality(S)
    <3>1. Cardinality(S) \in Nat
      BY <1>1, Ranks
    <3>2. Cardinality(1 .. Cardinality(S))
            = IF 1 > Cardinality(S) THEN 0 ELSE Cardinality(S) - 1 + 1
      BY <3>1, FS_Interval
    <3> QED BY <3>1, <3>2
  <2> QED BY <1>1, <2>1, <2>2, FS_Subset DEF Dense
<1> QED BY <1>2, <1>3 DEF S

-----------------------------------------------------------------------------
\* What INSERT OR IGNORE does: all of the samples, or none of them.
LEMMA Inserted ==
  ASSUME TypeOK
  PROVE  LET merged == [i \in DOMAIN Sample \cup DOMAIN items |->
                           IF i \in DOMAIN items THEN items[i] ELSE Sample[i]] IN
         /\ items \in Tables => merged = items /\ Fresh = {}
         /\ items = Empty => merged = Sample /\ Fresh = DOMAIN Sample
<1> DEFINE merged == [i \in DOMAIN Sample \cup DOMAIN items |->
                         IF i \in DOMAIN items THEN items[i] ELSE Sample[i]]
<1>1. ASSUME items \in Tables PROVE merged = items /\ Fresh = {}
  <2>1. items \in [DOMAIN items -> Words] /\ DOMAIN Sample \subseteq DOMAIN items
    BY <1>1, IndexAssumption
  <2>2. merged = [i \in DOMAIN items |-> items[i]] /\ Fresh = {}
    BY <2>1 DEF Fresh
  <2> QED BY <2>1, <2>2
<1>2. ASSUME items = Empty PROVE merged = Sample /\ Fresh = DOMAIN Sample
  <2>1. DOMAIN items = {} /\ Sample \in [DOMAIN Sample -> Words]
    BY <1>2, IndexAssumption DEF Empty, Tables
  <2>2. merged = [i \in DOMAIN Sample |-> Sample[i]] /\ Fresh = DOMAIN Sample
    BY <2>1 DEF Fresh
  <2> QED BY <2>1, <2>2
<1> QED BY <1>1, <1>2

LEMMA FiredIsTyped ==
  ASSUME TypeOK, Bounded(docs)
  PROVE  /\ Fired \ Ignored \in SUBSET Entry /\ Bounded(Fired \ Ignored)
         /\ Fresh = {} \/ trigger = "none" => Fired = {}
         /\ fts = "external" => Ignored = {}
<1> SUFFICES /\ Fired \in SUBSET Entry /\ Bounded(Fired)
             /\ Fresh = {} \/ trigger = "none" => Fired = {}
  BY DEF Ignored, Bounded
<1>1. Sample \in Tables \cup {Empty} /\ Fresh \in SUBSET DOMAIN Sample
  BY DEF Tables, Fresh
<1>2. trigger \in {"none", "rowid", "auto"}
  BY DEF TypeOK
<1>3. CASE trigger = "none"
  BY <1>3 DEF Fired, Bounded
<1>4. CASE trigger = "rowid"
  <2>1. Fired = {At(i, i, Sample[i]) : i \in Fresh}
    BY <1>4 DEF Fired
  <2> QED BY <1>1, <1>4, <2>1, OwnIds
<1>5. CASE trigger = "auto"
  <2>1. Fired = Numbered(Sample, Fresh)
    BY <1>5 DEF Fired
  <2>2. Fresh = {} => Numbered(Sample, Fresh) = {}
    BY DEF Numbered
  <2> QED BY <1>1, <1>5, <2>1, <2>2, NextRows
<1> QED BY <1>2, <1>3, <1>4, <1>5

-----------------------------------------------------------------------------
\* The types, and that row numbers have a largest one.
LEMMA TypeKept ==
  ASSUME Inv, [Next]_vars
  PROVE  TypeOK' /\ Bounded(docs)'
<1> USE DEF Inv
<1> DEFINE Rest == /\ fts' \in {"none", "external", "simple"}
                   /\ trigger' \in {"none", "rowid", "auto"}
                   /\ kind' \in [Commands -> {"migrate", "rebuild", "simple"}]
                   /\ pc' \in [Commands -> Labels]
                   /\ touched' \in BOOLEAN
                   /\ alone' \in Commands \cup {Nobody}
                   /\ kills' \in 0 .. MaxKills
           Data == /\ items' \in Tables \cup {Empty}
                   /\ docs' \subseteq Entry /\ Bounded(docs')
                   /\ fts' = "none" => docs' = {}
<1>1. SUFFICES Rest /\ Data
  BY DEF TypeOK
<1>2. ASSUME UNCHANGED <<items, docs>>, fts' = "none" => fts = "none" PROVE Data
  BY <1>2 DEF TypeOK
<1>3. ASSUME NEW c \in Commands, NEW k \in {"migrate", "rebuild", "simple"}, Start(c, k)
      PROVE  Rest /\ Data
  BY <1>2, <1>3 DEF Start, TypeOK, Labels, Ends, index
<1>4. ASSUME NEW c \in Commands, Kill(c)
      PROVE  Rest /\ Data
  BY <1>2, <1>4, IndexAssumption DEF Kill, TypeOK, Labels, Ends, index
<1>5. ASSUME NEW c \in Commands, NEW l \in Labels, Goto(c, l),
             trigger' \in {"none", "rowid", "auto"}, fts' \in {"none", "external", "simple"},
             touched' \in BOOLEAN
      PROVE  Rest
  BY <1>5 DEF Goto, Interrupts, TypeOK
<1>6. ASSUME NEW c \in Commands, Fatal(c)
      PROVE  Rest /\ Data
  BY <1>2, <1>5, <1>6 DEF Fatal, TypeOK, Labels, index
<1>7. ASSUME NEW c \in Commands, CreateIndex(c) \/ CreateTrigger(c) \/ RecreateIndex(c)
                                 \/ DropTrigger(c) \/ RecreateTrigger(c)
      PROVE  Rest /\ Data
  <2>1. CASE CreateIndex(c)
    BY <1>2, <1>5, <2>1 DEF CreateIndex, TypeOK, Labels
  <2>2. CASE CreateTrigger(c)
    BY <1>2, <1>5, <2>2 DEF CreateTrigger, TypeOK, Labels
  <2>3. CASE RecreateIndex(c)
    BY <1>2, <1>5, <1>6, <2>3 DEF RecreateIndex, TypeOK, Labels, Touch
  <2>4. CASE DropTrigger(c)
    BY <1>2, <1>5, <2>4 DEF DropTrigger, TypeOK, Labels, Touch
  <2>5. CASE RecreateTrigger(c)
    BY <1>2, <1>5, <1>6, <2>5 DEF RecreateTrigger, TypeOK, Labels, Touch
  <2> QED BY <1>7, <2>1, <2>2, <2>3, <2>4, <2>5
<1>8. ASSUME NEW c \in Commands, InsertSamples(c)
      PROVE  Rest /\ Data
  <2>1. CASE ~TriggerFails /\ ~Fatal(c)
    <3>1. /\ items' = [i \in DOMAIN Sample \cup DOMAIN items |->
                          IF i \in DOMAIN items THEN items[i] ELSE Sample[i]]
          /\ docs' = docs \cup (Fired \ Ignored) /\ Goto(c, "backfill")
          /\ UNCHANGED <<fts, trigger, touched>>
      BY <1>8, <2>1 DEF InsertSamples
    <3>2. Rest
      BY <1>5, <3>1 DEF TypeOK, Labels
    <3>3. items' \in Tables \cup {Empty}
      BY <3>1, Inserted DEF TypeOK, Tables
    <3>4. docs' \subseteq Entry /\ Bounded(docs')
      BY <3>1, FiredIsTyped, UnionIsBounded DEF TypeOK
    <3>5. fts = "none" => Fired = {}
      BY <2>1, FiredIsTyped DEF TriggerFails
    <3> QED BY <3>1, <3>2, <3>3, <3>4, <3>5 DEF TypeOK
  <2> QED BY <1>6, <1>8, <2>1 DEF InsertSamples
<1>9. ASSUME NEW c \in Commands, Backfill(c)
      PROVE  Rest /\ Data
  <2>1. CASE fts # "none" /\ ~Fatal(c)
    <3> DEFINE New == {At(i, i, items[i]) : i \in DOMAIN items \ Scanned}
    <3>1. /\ docs' = docs \cup New /\ Goto(c, "done")
          /\ UNCHANGED <<items, fts, trigger, touched>>
      BY <1>9, <2>1 DEF Backfill
    <3>2. Rest
      BY <1>5, <3>1 DEF TypeOK, Labels
    <3>3. New \in SUBSET Entry /\ Bounded(New)
      BY OwnIds DEF TypeOK
    <3>4. docs' \subseteq Entry /\ Bounded(docs')
      BY <3>1, <3>3, UnionIsBounded DEF TypeOK
    <3> QED BY <2>1, <3>1, <3>2, <3>4 DEF TypeOK
  <2> QED BY <1>6, <1>9, <2>1 DEF Backfill
<1>10. ASSUME NEW c \in Commands, DropIndex(c)
       PROVE  Rest /\ Data
  <2>1. Rest
    BY <1>5, <1>10 DEF DropIndex, Touch, TypeOK, Labels
  <2>2. Data
    BY <1>10 DEF DropIndex, TypeOK, Bounded
  <2> QED BY <2>1, <2>2
<1>11. ASSUME NEW c \in Commands, Populate(c)
       PROVE  Rest /\ Data
  <2>1. CASE fts # "none" /\ ~Fatal(c)
    <3>1. /\ docs' = docs \cup Numbered(items, DOMAIN items)
          /\ Touch(c, IF kind[c] = "simple" THEN "done" ELSE "untrigger")
          /\ UNCHANGED <<items, fts, trigger>>
      BY <1>11, <2>1 DEF Populate
    <3>2. Rest
      BY <1>5, <3>1 DEF TypeOK, Labels, Touch
    <3>3. docs' \subseteq Entry /\ Bounded(docs')
      BY <3>1, NextRows, UnionIsBounded DEF TypeOK
    <3> QED BY <2>1, <3>1, <3>2, <3>3 DEF TypeOK
  <2> QED BY <1>6, <1>11, <2>1 DEF Populate
<1>12. ASSUME NEW table \in Catalogs, Import(table)
       PROVE  Rest /\ Data
  <2>1. Rest
    BY <1>12 DEF Import, process, TypeOK
  <2>2. \A i \in DOMAIN table : i \in Nat /\ table[i] \in Words
    BY TableFacts DEF Tables
  <2>3. Posted(table) \in SUBSET Entry
    BY <2>2 DEF Posted, Entry
  <2>4. PICK n \in Nat : \A i \in Ids : i <= n
    BY IdsAreBounded
  <2>5. Bounded(Posted(table))
    BY <2>4, TableFacts DEF Bounded, Posted, Tables
  <2> QED BY <1>12, <2>1, <2>3, <2>5 DEF Import, Tables
<1>13. CASE UNCHANGED vars
  BY <1>2, <1>13 DEF vars, index, process, TypeOK
<1> QED BY <1>3, <1>4, <1>7, <1>8, <1>9, <1>10, <1>11, <1>12, <1>13 DEF Next

\* Every step of a command leaves the others where they are.
LEMMA KindsKept ==
  ASSUME Inv, [Next]_vars
  PROVE  Kinds'
<1> USE DEF Inv
<1>1. ASSUME NEW c \in Commands, NEW k \in {"migrate", "rebuild", "simple"}, Start(c, k)
      PROVE  Kinds'
  BY <1>1 DEF Start, Kinds, TypeOK
<1>2. ASSUME NEW c \in Commands, CreateIndex(c) \/ CreateTrigger(c) \/ InsertSamples(c)
                                 \/ Backfill(c)
      PROVE  Kinds'
  BY <1>2 DEF CreateIndex, CreateTrigger, InsertSamples, Backfill, Fatal, Goto, Kinds, TypeOK
<1>3. ASSUME NEW c \in Commands, DropIndex(c) \/ RecreateIndex(c) \/ Populate(c)
                                 \/ DropTrigger(c) \/ RecreateTrigger(c)
      PROVE  Kinds'
  BY <1>3 DEF DropIndex, RecreateIndex, Populate, DropTrigger, RecreateTrigger,
              Fatal, Touch, Goto, Kinds, TypeOK
<1>4. ASSUME NEW c \in Commands, Kill(c)
      PROVE  Kinds'
  BY <1>4 DEF Kill, Kinds, TypeOK
<1>5. CASE UNCHANGED process
  BY <1>5 DEF process, Kinds
<1> QED BY <1>1, <1>2, <1>3, <1>4, <1>5 DEF Next, Import, vars

LEMMA NothingKept ==
  ASSUME Inv, [Next]_vars
  PROVE  NothingFromNothing'
<1> USE DEF Inv
<1>1. CASE UNCHANGED <<items, docs>> /\ (fts' = "none" => fts = "none")
  BY <1>1 DEF NothingFromNothing
<1>2. ASSUME NEW c \in Commands, InsertSamples(c), ~Fatal(c)
      PROVE  NothingFromNothing'
  <2>1. /\ items' = [i \in DOMAIN Sample \cup DOMAIN items |->
                        IF i \in DOMAIN items THEN items[i] ELSE Sample[i]]
        /\ docs' = docs \cup (Fired \ Ignored) /\ ~TriggerFails /\ fts' = fts
    BY <1>2 DEF InsertSamples
  <2>2. fts = "none" => docs' = {}
    BY <2>1, FiredIsTyped DEF TriggerFails, NothingFromNothing
  <2>3. items' = Empty => items = Empty /\ Fresh = {}
    <3>1. CASE items \in Tables
      BY <2>1, <3>1, Inserted
    <3>2. CASE items = Empty
      BY <2>1, <3>2, Inserted DEF Empty
    <3> QED BY <3>1, <3>2 DEF TypeOK
  <2>4. items' = Empty => docs' = {}
    BY <2>1, <2>3, FiredIsTyped DEF NothingFromNothing
  <2> QED BY <2>1, <2>2, <2>4 DEF NothingFromNothing
<1>3. ASSUME NEW c \in Commands, Backfill(c), ~Fatal(c)
      PROVE  NothingFromNothing'
  BY <1>3 DEF Backfill, NothingFromNothing, Empty
<1>4. ASSUME NEW c \in Commands, Populate(c), ~Fatal(c)
      PROVE  NothingFromNothing'
  <2>1. items = Empty => Numbered(items, DOMAIN items) = {}
    BY DEF Numbered, Empty
  <2> QED BY <1>4, <2>1 DEF Populate, NothingFromNothing
<1>5. ASSUME NEW c \in Commands, DropIndex(c)
      PROVE  NothingFromNothing'
  BY <1>5 DEF DropIndex, NothingFromNothing
<1>6. ASSUME NEW table \in Catalogs, Import(table)
      PROVE  NothingFromNothing'
  BY <1>6 DEF Import, NothingFromNothing, Posted, Empty
<1>7. ASSUME NEW c \in Commands,
             \/ Fatal(c) \/ Kill(c) \/ CreateIndex(c) \/ CreateTrigger(c)
             \/ RecreateIndex(c) \/ DropTrigger(c) \/ RecreateTrigger(c)
             \/ \E k \in {"migrate", "rebuild", "simple"} : Start(c, k)
      PROVE  UNCHANGED <<items, docs>> /\ (fts' = "none" => fts = "none")
  BY <1>7 DEF Fatal, Kill, CreateIndex, CreateTrigger, RecreateIndex, DropTrigger,
              RecreateTrigger, Start, index
<1>8. CASE UNCHANGED vars
  BY <1>1, <1>8 DEF vars, index
<1> QED BY <1>1, <1>2, <1>3, <1>4, <1>5, <1>6, <1>7, <1>8 DEF Next

\* Only an import ends that the index is touched.
LEMMA UntouchedKept ==
  ASSUME Inv, [Next]_vars
  PROVE  Untouched'
<1> USE DEF Inv
<1>1. ASSUME UNCHANGED <<items, index, touched>>,
             \A c \in Commands : pc'[c] \in {"trigger", "samples"} => pc'[c] = pc[c]
      PROVE  Untouched'
  <2>1. Posted(items)' = Posted(items)
    BY <1>1 DEF Posted
  <2> QED BY <1>1, <2>1 DEF Untouched, index
<1>2. ASSUME NEW c \in Commands, NEW k \in {"migrate", "rebuild", "simple"}, Start(c, k)
      PROVE  Untouched'
  BY <1>1, <1>2 DEF Start, TypeOK
<1>3. ASSUME NEW c \in Commands, Kill(c) \/ Fatal(c)
      PROVE  Untouched'
  BY <1>1, <1>3 DEF Kill, Fatal, Goto, TypeOK
<1>4. ASSUME NEW c \in Commands, CreateIndex(c)
      PROVE  Untouched'
  <2>1. items = Empty => Posted(items) = {}
    BY DEF Posted, Empty
  <2>2. Posted(items)' = Posted(items)
    BY <1>4 DEF Posted, CreateIndex
  <2> QED BY <1>4, <2>1, <2>2 DEF CreateIndex, Goto, Untouched, NothingFromNothing, TypeOK
<1>5. ASSUME NEW c \in Commands, CreateTrigger(c)
      PROVE  Untouched'
  <2>1. Posted(items)' = Posted(items)
    BY <1>5 DEF Posted, CreateTrigger
  <2> QED BY <1>5, <2>1 DEF CreateTrigger, Goto, Untouched, TypeOK
<1>6. ASSUME NEW c \in Commands, InsertSamples(c), ~Fatal(c)
      PROVE  Untouched'
  <2>1. /\ items' = [i \in DOMAIN Sample \cup DOMAIN items |->
                        IF i \in DOMAIN items THEN items[i] ELSE Sample[i]]
        /\ docs' = docs \cup (Fired \ Ignored) /\ Goto(c, "backfill") /\ pc[c] = "samples"
        /\ UNCHANGED <<fts, trigger, touched>>
    BY <1>6 DEF InsertSamples
  <2>2. SUFFICES ASSUME ~touched PROVE docs' = Posted(items)'
    BY <2>1 DEF Untouched, Goto, TypeOK
  <2>3. fts = "external" /\ trigger = "rowid"
    BY <2>1, <2>2 DEF Untouched
  <2>4. CASE items \in Tables
    <3>1. items' = items /\ Fresh = {}
      BY <2>1, <2>4, Inserted
    <3>2. Fired = {} /\ docs = Posted(items)
      BY <2>2, <2>3, <3>1, FiredIsTyped DEF Untouched
    <3> QED BY <2>1, <3>1, <3>2 DEF Posted
  <2>5. CASE items = Empty
    <3>1. items' = Sample /\ Fresh = DOMAIN Sample
      BY <2>1, <2>5, Inserted
    <3>2. docs = {}
      BY <2>5 DEF NothingFromNothing
    <3>3. Fired = {At(i, i, Sample[i]) : i \in DOMAIN Sample}
      BY <2>3, <3>1 DEF Fired
    <3>4. Fired \ Ignored = Posted(Sample)
      BY <2>3, <3>3, OwnIds, FiredIsTyped DEF Posted, Tables
    <3>5. Posted(items)' = Posted(Sample)
      BY <3>1 DEF Posted
    <3> QED BY <2>1, <3>2, <3>4, <3>5
  <2> QED BY <2>4, <2>5 DEF TypeOK
<1>7. ASSUME NEW c \in Commands, Backfill(c), ~Fatal(c)
      PROVE  Untouched'
  <2>1. /\ docs' = docs \cup {At(i, i, items[i]) : i \in DOMAIN items \ Scanned}
        /\ Goto(c, "done") /\ UNCHANGED <<items, fts, trigger, touched>> /\ fts # "none"
    BY <1>7 DEF Backfill
  <2>2. SUFFICES ASSUME ~touched PROVE docs' = Posted(items)
    <3>1. Posted(items)' = Posted(items)
      BY <2>1 DEF Posted
    <3> QED BY <2>1, <2>2, <3>1 DEF Untouched, Goto, TypeOK
  <2>3. fts = "external" /\ docs = Posted(items)
    BY <2>1, <2>2 DEF Untouched
  <2>4. Scanned = DOMAIN items
    BY <2>3 DEF Scanned
  <2> QED BY <2>1, <2>3, <2>4
<1>8. ASSUME NEW c \in Commands, touched' = TRUE
      PROVE  Untouched'
  BY <1>8 DEF Untouched
<1>9. ASSUME NEW c \in Commands, DropIndex(c) \/ RecreateIndex(c) \/ Populate(c)
                                 \/ DropTrigger(c) \/ RecreateTrigger(c), ~Fatal(c)
      PROVE  touched' = TRUE
  BY <1>9 DEF DropIndex, RecreateIndex, Populate, DropTrigger, RecreateTrigger, Touch
<1>10. ASSUME NEW table \in Catalogs, Import(table)
       PROVE  Untouched'
  <2>1. Posted(items)' = Posted(table)
    BY <1>10 DEF Import, Posted
  <2> QED BY <1>10, <2>1 DEF Import, Untouched, process
<1>11. CASE UNCHANGED vars
  BY <1>1, <1>11 DEF vars, process
<1> QED BY <1>2, <1>3, <1>4, <1>5, <1>6, <1>7, <1>8, <1>9, <1>10, <1>11 DEF Next

\* A command that is still alone after a step has made the step itself.
LEMMA LonelyKept ==
  ASSUME Inv, [Next]_vars
  PROVE  Lonely'
<1> USE DEF Inv
<1>1. ASSUME alone' = Nobody PROVE Lonely'
  BY <1>1, IndexAssumption DEF Lonely
<1>2. ASSUME NEW c \in Commands, NEW k \in {"migrate", "rebuild", "simple"}, Start(c, k)
      PROVE  Lonely'
  <2>1. alone' = c \/ alone' = Nobody
    BY <1>2 DEF Start
  <2>2. kind'[c] = k /\ pc'[c] = IF k = "migrate" THEN "index" ELSE "drop"
    BY <1>2 DEF Start, TypeOK
  <2>3. CASE alone' = c
    BY <2>2, <2>3 DEF Lonely
  <2> QED BY <1>1, <2>1, <2>3
<1>3. ASSUME NEW c \in Commands, NEW l \in Labels, Goto(c, l),
             alone = c /\ kind[c] = "migrate" =>
                /\ l # "failed"
                /\ l \in {"trigger", "samples", "backfill"} => fts' # "none",
             alone = c /\ kind[c] = "simple" =>
                /\ l = "create" => fts' = "none"
                /\ l = "populate" => fts' = "simple" /\ docs' = {}
                /\ l = "done" => fts' = "simple" /\ OnePerItem(docs)',
             alone = c /\ kind[c] = "rebuild" =>
                /\ l = "create" => fts' = "none"
                /\ l = "populate" => fts' = "external" /\ docs' = {}
                /\ l \in {"untrigger", "retrigger", "done"} =>
                      fts' = "external" /\ docs' = Counted(items')
      PROVE  Lonely'
  <2>1. kind' = kind /\ pc'[c] = l /\ alone' = IF alone = c THEN c ELSE Nobody
    BY <1>3 DEF Goto, Interrupts, TypeOK
  <2>2. CASE alone = c
    BY <1>3, <2>1, <2>2 DEF Lonely
  <2> QED BY <1>1, <2>1, <2>2
<1>4. ASSUME NEW c \in Commands, CreateIndex(c) \/ CreateTrigger(c)
      PROVE  Lonely'
  BY <1>3, <1>4 DEF CreateIndex, CreateTrigger, Kinds, Lonely, Labels
<1>5. ASSUME NEW c \in Commands, InsertSamples(c)
      PROVE  Lonely'
  <2>1. kind[c] = "migrate" /\ pc[c] = "samples"
    BY <1>5 DEF InsertSamples, Kinds
  <2>2. CASE Fatal(c) /\ TriggerFails
    <3>1. SUFFICES ASSUME alone = c PROVE FALSE
      BY <1>3, <2>1, <2>2 DEF Fatal, Labels
    <3>2. fts # "none"
      BY <2>1, <3>1 DEF Lonely
    <3> QED BY <2>2, <3>2 DEF TriggerFails
  <2>3. CASE ~TriggerFails
    BY <1>3, <1>5, <2>1, <2>3 DEF InsertSamples, Lonely, Labels
  <2> QED BY <1>5, <2>2, <2>3 DEF InsertSamples
<1>6. ASSUME NEW c \in Commands, Backfill(c)
      PROVE  Lonely'
  <2>1. kind[c] = "migrate" /\ (alone = c => fts # "none")
    BY <1>6 DEF Backfill, Kinds, Lonely
  <2> QED BY <1>3, <1>6, <2>1 DEF Backfill, Fatal, Labels
<1>7. ASSUME NEW c \in Commands, DropIndex(c)
      PROVE  Lonely'
  BY <1>3, <1>7 DEF DropIndex, Touch, Kinds, Labels
<1>8. ASSUME NEW c \in Commands, RecreateIndex(c)
      PROVE  Lonely'
  <2>1. /\ kind[c] # "migrate"
        /\ alone = c /\ kind[c] \in {"simple", "rebuild"} => fts = "none"
    BY <1>8 DEF RecreateIndex, Kinds, Lonely
  <2>2. fts = "none" => docs = {}
    BY DEF TypeOK
  <2> QED BY <1>3, <1>8, <2>1, <2>2 DEF RecreateIndex, Fatal, Touch, Labels
<1>9. ASSUME NEW c \in Commands, Populate(c)
      PROVE  Lonely'
  <2>1. kind[c] # "migrate" /\ pc[c] = "populate"
    BY <1>9 DEF Populate, Kinds
  <2>2. /\ alone = c /\ kind[c] = "simple" => fts = "simple" /\ docs = {}
        /\ alone = c /\ kind[c] = "rebuild" => fts = "external" /\ docs = {}
    BY <2>1 DEF Lonely
  <2>3. ASSUME alone = c, kind[c] = "simple"
        PROVE  fts' = "simple" /\ OnePerItem(docs)'
    <3>1. /\ items' = items /\ docs' = Numbered(items, DOMAIN items)
          /\ fts' = "simple"
      BY <1>9, <2>2, <2>3 DEF Populate, Fatal, index
    <3>2. OnePerItem(Numbered(items, DOMAIN items))
      BY <2>2, <2>3, Populated DEF TypeOK
    <3> QED BY <3>1, <3>2 DEF OnePerItem
  <2>6. ASSUME alone = c, kind[c] = "rebuild", ~Fatal(c)
        PROVE  fts' = "external" /\ docs' = Counted(items')
    <3>1. items' = items /\ docs' = Numbered(items, DOMAIN items) /\ fts' = "external"
      BY <1>9, <2>2, <2>6 DEF Populate
    <3>2. Top = 0 /\ \A i \in DOMAIN items : Rank(DOMAIN items, i) \in Nat
      <4>1. DOMAIN items \in SUBSET Nat /\ IsFiniteSet(DOMAIN items)
        <5>1. DOMAIN items \in SUBSET Ids
          BY TableFacts DEF TypeOK
        <5> QED BY <5>1, IndexAssumption, FS_Subset
      <4> QED BY <2>2, <2>6, <4>1, Ranks DEF Top
    <3>3. \A i \in DOMAIN items :
            At(Top + Rank(DOMAIN items, i), i, items[i])
              = [row |-> Rank(DOMAIN items, i), id |-> Rank(DOMAIN items, i),
                 word |-> items[i]]
      BY <2>2, <2>6, <3>2 DEF At
    <3> QED BY <3>1, <3>3 DEF Numbered, Counted
  <2>4. CASE Fatal(c)
    BY <1>3, <2>1, <2>2, <2>4, <1>9 DEF Fatal, Labels
  <2>5. CASE ~Fatal(c)
    <3>1. Goto(c, IF kind[c] = "simple" THEN "done" ELSE "untrigger")
      BY <1>9, <2>5 DEF Populate, Touch
    <3> QED BY <1>3, <2>1, <2>3, <2>5, <2>6, <3>1 DEF Labels
  <2> QED BY <2>4, <2>5
<1>10. ASSUME NEW c \in Commands, DropTrigger(c) \/ RecreateTrigger(c)
       PROVE  Lonely'
  <2>1. kind[c] = "rebuild" /\ UNCHANGED <<items, docs, fts>>
    BY <1>10 DEF DropTrigger, RecreateTrigger, Fatal, Kinds, index
  <2>2. alone = c => fts = "external" /\ docs = Counted(items)
    BY <1>10, <2>1 DEF DropTrigger, RecreateTrigger, Lonely
  <2>3. PICK l \in {"retrigger", "done", "failed"} : Goto(c, l)
    BY <1>10 DEF DropTrigger, RecreateTrigger, Fatal, Touch
  <2> QED BY <1>3, <2>1, <2>2, <2>3 DEF Labels
<1>11. ASSUME NEW c \in Commands, Kill(c)
       PROVE  Lonely'
  BY <1>1, <1>11 DEF Kill
<1>12. ASSUME NEW table \in Catalogs, Import(table)
       PROVE  Lonely'
  BY <1>1, <1>12 DEF Import
<1>13. CASE UNCHANGED vars
  BY <1>13 DEF vars, index, process, Lonely, OnePerItem, Counted
<1> QED BY <1>2, <1>4, <1>5, <1>6, <1>7, <1>8, <1>9, <1>10, <1>11, <1>12, <1>13 DEF Next

-----------------------------------------------------------------------------
LEMMA Inductive == Spec => []Inv
<1>1. ASSUME Init PROVE Inv
  <2>1. /\ kind \in [Commands -> {"migrate", "rebuild", "simple"}]
        /\ pc \in [Commands -> Labels]
    BY <1>1 DEF Init, Labels
  <2>2. touched \in BOOLEAN /\ alone \in Commands \cup {Nobody}
    BY <1>1 DEF Init
  <2>3. kills \in 0 .. MaxKills
    BY <1>1, IndexAssumption DEF Init
  <2>4. TypeOK
    BY <1>1, <2>1, <2>2, <2>3 DEF Init, TypeOK
  <2>5. Kinds /\ NothingFromNothing
    BY <1>1 DEF Init, Kinds, NothingFromNothing
  <2>6. Bounded(docs)
    BY <1>1 DEF Init, Bounded
  <2>7. Untouched /\ Lonely
    BY <1>1, IndexAssumption DEF Init, Untouched, Lonely
  <2> QED BY <2>4, <2>5, <2>6, <2>7 DEF Inv
<1>2. Inv /\ [Next]_vars => Inv'
  BY TypeKept, KindsKept, NothingKept, UntouchedKept, LonelyKept DEF Inv
<1> QED BY <1>1, <1>2, PTL DEF Spec

\* The state of database, commands and history is always of its type: also the
\* rowids FTS5 picks, behind a largest one that always exists (SearchIndex).
THEOREM TypeCorrect == Spec => []TypeOK
<1>1. Inv => TypeOK
  BY DEF Inv
<1> QED BY <1>1, Inductive, PTL

\* Between an import and the next rebuild search is exact, whatever else runs,
\* fails or is killed (importer.go createFTS, cmd/migrate).
THEOREM UntouchedSearch == Spec => []UntouchedIsExact
<1>1. Inv => UntouchedIsExact
  BY PostedIsExact DEF Inv, Untouched, UntouchedIsExact
<1> QED BY <1>1, Inductive, PTL

\* rebuild-fts-simple, run alone, repairs any index, for queries by name and by
\* type_id (cmd/rebuild-fts-simple).
THEOREM SimpleSearch == Spec => []SimpleFindsNamesAndIds
<1>1. Inv => SimpleFindsNamesAndIds
  BY NamesAndIds DEF Inv, Lonely, Finished, SimpleFindsNamesAndIds
<1> QED BY <1>1, Inductive, PTL

\* A migration that is run alone never fails, whatever database the commands,
\* imports and kills before it have left (cmd/migrate).
THEOREM MigrationSucceeds == Spec => []MigrateSucceeds
<1>1. Inv => MigrateSucceeds
  BY DEF Inv, Lonely, MigrateSucceeds
<1> QED BY <1>1, Inductive, PTL

\* rebuild-fts, run alone, ends with an exact search if and only if the type_ids
\* of the catalogue have no gap, whatever index it found (cmd/rebuild-fts).
THEOREM RebuildSearch == Spec => []RebuiltIfDense
<1>1. Inv => RebuiltIfDense
  BY CountedIsExact DEF Inv, TypeOK, Lonely, RebuiltIfDense
<1> QED BY <1>1, Inductive, PTL
=============================================================================
