----------------------------- MODULE CallsProofs -----------------------------
(***************************************************************************)
(* Proofs that what protoc generates reads back what it has written, for   *)
(* every message type of the repository, and that the calls of its         *)
(* services keep what MessageCalls says of them.                           *)
(***************************************************************************)
EXTENDS CallsInv, FunctionTheorems, SequenceTheorems, NaturalsInduction,
        WellFoundedInduction, TLAPS

\* Of the numbers that are not in a set, there is a least one.
LEMMA LeastNumber ==
    ASSUME NEW S \in SUBSET Nat, S # {}
    PROVE  \E x \in S : \A y \in S : x <= y
<1>1. PICK x \in S : \A y \in S : ~ <<y, x>> \in OpToRel(<, Nat)
  BY NatLessThanWellFounded, WFMin, Zenon
<1>2. \A y \in S : ~(y < x)
  BY <1>1 DEF OpToRel
<1>3. \A y \in S : x <= y
  BY <1>2
<1> QED  BY <1>3

\* The greatest of the numbers up to n that has n.
LEMMA MaxUpTo ==
    ASSUME NEW n \in Nat, NEW T \in SUBSET (1..n), n \in T
    PROVE  Max(T) = n
<1>1. \E x \in T : \A y \in T : x >= y
  OBVIOUS
<1>2. Max(T) \in T /\ \A y \in T : Max(T) >= y
  BY <1>1 DEF Max
<1>3. PICK m \in T : m = Max(T) /\ \A y \in T : m >= y
  BY <1>2
<1>4. m \in Nat /\ m <= n /\ m >= n
  BY <1>3
<1> QED  BY <1>3, <1>4

-----------------------------------------------------------------------------
(***************************************************************************)
(* FoldLeft, one item at a time: what Parse has read after each.           *)
(***************************************************************************)
Step(type, state, item) == IF state.ok THEN ParseItem(type, state, item) ELSE state

Start(obj) == [ok |-> TRUE, message |-> obj]

\* The states of the parser, the first one and that after each item.
Reads(type, obj, items, g) ==
    g = [k \in 0..Len(items) |-> IF k = 0 THEN Start(obj)
                                 ELSE Step(type, g[k - 1], items[k])]

\* The recursion of the fold, over sets of positions up to n.
Folds(type, obj, items, n, h) ==
    h = [T \in SUBSET (1..n) |->
            IF T = {} THEN Start(obj)
            ELSE Step(type, h[T \ {Max(T)}], items[Max(T)])]

\* There are intermediate results of a parse, one for each number of items.
LEMMA FoldExists ==
    ASSUME NEW type, NEW obj, NEW items, NEW N \in Nat
    PROVE  \A n \in 0..N : \E h : Folds(type, obj, items, n, h)
<1> DEFINE bad == {n \in 0..N : ~\E h : Folds(type, obj, items, n, h)}
<1> SUFFICES ASSUME bad # {} PROVE FALSE
  OBVIOUS
<1>1. PICK n \in bad : \A k \in bad : n <= k
  <2>1. bad \in SUBSET Nat
    OBVIOUS
  <2> QED  BY <2>1, LeastNumber
<1>2. n \in 0..N /\ n \in Nat /\ ~\E h : Folds(type, obj, items, n, h)
  OBVIOUS
<1>3. CASE n = 0
  <2>1. Folds(type, obj, items, 0, [T \in SUBSET (1..0) |-> Start(obj)])
    <3>1. \A T \in SUBSET (1..0) : T = {}
      OBVIOUS
    <3> QED  BY <3>1 DEF Folds
  <2> QED  BY <1>2, <1>3, <2>1
<1>4. CASE n # 0
  <2>1. n - 1 \in 0..N /\ n - 1 \notin bad
    BY <1>1, <1>2, <1>4
  <2>2. PICK h : Folds(type, obj, items, n - 1, h)
    BY <2>1
  <2> HIDE DEF bad
  <2> DEFINE g == [T \in SUBSET (1..n) |->
                     IF n \in T THEN Step(type, h[T \ {n}], items[n]) ELSE h[T]]
             next(f, T) == IF T = {} THEN Start(obj)
                           ELSE Step(type, f[T \ {Max(T)}], items[Max(T)])
  <2>3. \A T \in SUBSET (1..(n - 1)) : h[T] = next(h, T)
    BY <2>2 DEF Folds
  <2>4. \A T \in SUBSET (1..n) : T \ {n} \in SUBSET (1..(n - 1))
    BY <1>2, <1>4
  <2>5. ASSUME NEW T \in SUBSET (1..n)
        PROVE  g[T] = next(g, T)
    <3>1. CASE n \in T
      <4>1. Max(T) = n
        BY <1>2, <3>1, MaxUpTo
      <4>2. g[T \ {n}] = h[T \ {n}]
        BY <2>4
      <4> QED  BY <3>1, <4>1, <4>2
    <3>2. CASE n \notin T
      <4>1. T \in SUBSET (1..(n - 1))
        BY <2>4, <3>2
      <4>2. h[T] = next(h, T) /\ g[T] = h[T]
        BY <2>3, <3>2, <4>1
      <4>3. g[T \ {Max(T)}] = h[T \ {Max(T)}]
        BY <3>2, <4>1
      <4> QED  BY <4>2, <4>3
    <3> QED  BY <3>1, <3>2
  <2> HIDE DEF g
  <2>6. g = [T \in SUBSET (1..n) |-> g[T]]
    BY DEF g
  <2>7. Folds(type, obj, items, n, g)
    BY <2>5, <2>6 DEF Folds
  <2> QED  BY <1>2, <2>7
<1> QED  BY <1>3, <1>4

\* Parse is the last of the parser's states.
LEMMA ParseReads ==
    ASSUME NEW type, NEW obj, NEW items, Len(items) \in Nat, DOMAIN items = 1..Len(items)
    PROVE  \E g : Reads(type, obj, items, g) /\ Parse(type, obj, items) = g[Len(items)]
<1> DEFINE N == Len(items)
           h == CHOOSE f : Folds(type, obj, items, N, f)
           g == [k \in 0..N |-> h[1..k]]
<1>1. Parse(type, obj, items) = h[1..N]
  BY Zenon DEF Parse, FoldLeft, MapThenFoldSet, Folds, Step, Start
<1>2. N \in 0..N
  OBVIOUS
<1>3. Folds(type, obj, items, N, h)
  BY <1>2, FoldExists
<1> HIDE DEF h
<1>4. ASSUME NEW k \in 0..N
      PROVE  g[k] = IF k = 0 THEN Start(obj) ELSE Step(type, g[k - 1], items[k])
  <2>1. 1..k \in SUBSET (1..N)
    OBVIOUS
  <2>2. h[1..k] = IF 1..k = {} THEN Start(obj)
                  ELSE Step(type, h[(1..k) \ {Max(1..k)}], items[Max(1..k)])
    BY <1>3, <2>1 DEF Folds
  <2>3. CASE k = 0
    BY <2>2, <2>3
  <2>4. CASE k # 0
    <3>1. k \in Nat /\ k \in 1..k
      BY <2>4
    <3>2. Max(1..k) = k
      BY <3>1, MaxUpTo
    <3>3. (1..k) \ {k} = 1..(k - 1) /\ k - 1 \in 0..N
      BY <3>1, <2>4
    <3> QED  BY <2>2, <2>4, <3>1, <3>2, <3>3
  <2> QED  BY <2>3, <2>4
<1>5. Reads(type, obj, items, g)
  <2> HIDE DEF g
  <2>1. g = [k \in 0..N |-> g[k]]
    BY DEF g
  <2> QED  BY <1>4, <2>1 DEF Reads
<1> QED  BY <1>1, <1>2, <1>5

-----------------------------------------------------------------------------
(***************************************************************************)
(* FlattenSeq, one sequence at a time.                                     *)
(***************************************************************************)
Joins(seqs, n, h) ==
    h = [i \in 1..n |-> IF i = 1 THEN seqs[i] ELSE h[i - 1] \o seqs[i]]

\* There are joins of the first n of some sequences, for each n.
LEMMA JoinExists ==
    ASSUME NEW seqs, NEW N \in Nat
    PROVE  \A n \in 0..N : \E h : Joins(seqs, n, h)
<1> DEFINE bad == {n \in 0..N : ~\E h : Joins(seqs, n, h)}
<1> SUFFICES ASSUME bad # {} PROVE FALSE
  OBVIOUS
<1>1. PICK n \in bad : \A k \in bad : n <= k
  <2>1. bad \in SUBSET Nat
    OBVIOUS
  <2> QED  BY <2>1, LeastNumber
<1>2. n \in 0..N /\ n \in Nat /\ ~\E h : Joins(seqs, n, h)
  OBVIOUS
<1>3. CASE n = 0
  <2>1. Joins(seqs, 0, [i \in 1..0 |-> <<>>])
    <3>1. 1..0 = {}
      OBVIOUS
    <3> QED  BY <3>1 DEF Joins
  <2> QED  BY <1>2, <1>3, <2>1
<1>4. CASE n # 0
  <2>1. n - 1 \in 0..N /\ n - 1 \notin bad
    BY <1>1, <1>2, <1>4
  <2>2. PICK h : Joins(seqs, n - 1, h)
    BY <2>1
  <2> HIDE DEF bad
  <2> DEFINE g == [i \in 1..n |-> IF i = n THEN IF n = 1 THEN seqs[1] ELSE h[n - 1] \o seqs[n]
                                  ELSE h[i]]
  <2>3. \A i \in 1..(n - 1) : h[i] = IF i = 1 THEN seqs[i] ELSE h[i - 1] \o seqs[i]
    BY <2>2 DEF Joins
  <2>4. ASSUME NEW i \in 1..n
        PROVE  g[i] = IF i = 1 THEN seqs[i] ELSE g[i - 1] \o seqs[i]
    <3>1. CASE i = n
      BY <3>1, <1>2
    <3>2. CASE i # n
      <4>1. i \in 1..(n - 1) /\ (i # 1 => i - 1 \in 1..n /\ i - 1 # n)
        BY <3>2, <1>2
      <4> QED  BY <2>3, <3>2, <4>1
    <3> QED  BY <3>1, <3>2
  <2> HIDE DEF g
  <2>5. g = [i \in 1..n |-> g[i]]
    BY DEF g
  <2>6. Joins(seqs, n, g)
    BY <2>4, <2>5 DEF Joins
  <2> QED  BY <1>2, <2>6
<1> QED  BY <1>3, <1>4

\* What FlattenSeq joins, sequence by sequence.
LEMMA FlattenJoins ==
    ASSUME NEW seqs, Len(seqs) \in Nat, Len(seqs) # 0
    PROVE  \E h : Joins(seqs, Len(seqs), h) /\ FlattenSeq(seqs) = h[Len(seqs)]
<1> DEFINE h == CHOOSE f : Joins(seqs, Len(seqs), f)
<1>1. Len(seqs) \in 0..Len(seqs)
  OBVIOUS
<1>2. Joins(seqs, Len(seqs), h)
  BY <1>1, JoinExists
<1>3. FlattenSeq(seqs) = h[Len(seqs)]
  BY Zenon DEF FlattenSeq, Joins
<1> QED  BY <1>2, <1>3

-----------------------------------------------------------------------------
(***************************************************************************)
(* Message types, the messages of a type, and the reading of one item.     *)
(***************************************************************************)
Kinds == {"int32", "ints", "enum", "message", "string", "strings"}

\* A type gives each of its fields a kind and one number.
TypeShape(type) ==
    /\ \A f \in DOMAIN type.fields : type.fields[f] \in Kinds
    /\ Len(type.order) \in Nat \ {0} /\ DOMAIN type.order = 1..Len(type.order)
    /\ \A n \in DOMAIN type.order : type.order[n] \in DOMAIN type.fields
    /\ \A f \in DOMAIN type.fields : \E n \in DOMAIN type.order : type.order[n] = f
    /\ \A n, k \in DOMAIN type.order : type.order[n] = type.order[k] => n = k

\* What may stand in a field or in an element of it.
Payloads == Texts \cup Seq(Bytes) \cup Seq(Int) \cup Int

\* What a field puts on the wire.
LEMMA FieldPayloads ==
    ASSUME NEW kind \in Kinds, NEW v, FieldValue(kind, v)
    PROVE  /\ kind = "strings" => v \in Seq(Payloads)
           /\ kind = "ints" => v \in Seq(Int)
           /\ kind = "message" => v = <<>> \/ \E p \in Payloads : v = <<p>>
           /\ v \in Payloads \/ kind \in {"strings", "message"}
<1>1. CASE kind = "strings"
  BY <1>1 DEF FieldValue, Payloads
<1>2. CASE kind = "message"
  <2>1. v \in Seq(Int) /\ Len(v) <= 1
    BY <1>2 DEF FieldValue
  <2>2. CASE Len(v) = 0
    BY <1>2, <2>1, <2>2
  <2>3. CASE Len(v) = 1
    <3>1. v[1] \in Int /\ v = <<v[1]>>
      BY <2>1, <2>3
    <3> QED  BY <1>2, <3>1 DEF Payloads
  <2>4. Len(v) \in Nat
    BY <2>1
  <2>5. Len(v) = 0 \/ Len(v) = 1
    <3>1. \A n \in Nat : n <= 1 => n = 0 \/ n = 1
      OBVIOUS
    <3> QED  BY <2>1, <2>4, <3>1
  <2> QED  BY <2>2, <2>3, <2>5
<1>3. CASE kind \in {"int32", "enum"}
  BY <1>3 DEF FieldValue, Payloads
<1>4. CASE kind \in {"string", "ints"}
  BY <1>4 DEF FieldValue, Payloads
<1> QED  BY <1>1, <1>2, <1>3, <1>4 DEF Kinds

\* An object with one field replaced.
With(m, f, v) == [x \in DOMAIN m |-> IF x = f THEN v ELSE m[x]]

\* The texts of one field, when they are well formed.
GoodField(kind, v) ==
    /\ kind = "string" => WellFormed(v)
    /\ kind = "strings" => \A i \in DOMAIN v : WellFormed(v[i])

\* A message has no bad text when each of its fields has none.
LEMMA BadFields ==
    ASSUME NEW type, NEW m, Object(type, m)
    PROVE  HasBadText(type, m) <=> \E f \in DOMAIN type.fields : ~GoodField(type.fields[f], m[f])
<1>1. DOMAIN m = DOMAIN type.fields
  BY DEF Object
<1>2. ASSUME NEW f \in DOMAIN m, ~GoodField(type.fields[f], m[f])
      PROVE  HasBadText(type, m)
  BY <1>2 DEF HasBadText, TextsOf, GoodField
<1>3. ASSUME HasBadText(type, m)
      PROVE  \E f \in DOMAIN m : ~GoodField(type.fields[f], m[f])
  BY <1>3 DEF HasBadText, TextsOf, GoodField
<1> QED  BY <1>1, <1>2, <1>3

\* The parser after one more item of a field.
LEMMA OneItem ==
    ASSUME NEW type, NEW n, NEW f, f = type.order[n], f \in DOMAIN type.fields,
           NEW s, s.ok, Object(type, s.message), NEW p,
           NEW it, it = [number |-> n, payload |-> p], NEW t, t = Step(type, s, it)
    PROVE  /\ t.ok \in BOOLEAN
           /\ t.ok <=> (type.fields[f] \in {"string", "strings"} => WellFormed(p))
           /\ t.message = With(s.message, f, Merged(type.fields[f], s.message[f], p))
           /\ Object(type, t.message)
<1> DEFINE item == [number |-> n, payload |-> p]
           kind == type.fields[f]
           new == Merged(kind, s.message[f], p)
           D == DOMAIN type.fields
<1>1. Step(type, s, item) = ParseItem(type, s, item)
  BY DEF Step
<1>2. item.number = n /\ item.payload = p
  OBVIOUS
<1> HIDE DEF item
<1>3. ParseItem(type, s, item)
        = [ok |-> kind \in {"string", "strings"} => WellFormed(p),
           message |-> [s.message EXCEPT ![f] = new]]
  BY <1>2 DEF ParseItem
<1>4. s.message = [x \in D |-> s.message[x]] /\ DOMAIN s.message = D
  BY DEF Object
<1> HIDE DEF new, D
<1>5. [s.message EXCEPT ![f] = new] = With(s.message, f, new)
  BY <1>4 DEF With
<1>6. With(s.message, f, new) = [x \in D |-> With(s.message, f, new)[x]]
  BY <1>4 DEF With
<1> DEFINE good == kind \in {"string", "strings"} => WellFormed(p)
<1>7. good \in BOOLEAN
  OBVIOUS
<1> HIDE DEF good, kind
<1>8. Step(type, s, item) = [ok |-> good, message |-> With(s.message, f, new)]
  BY <1>1, <1>3, <1>5 DEF good
<1>9. /\ Step(type, s, item).ok = good
      /\ Step(type, s, item).message = With(s.message, f, new)
  BY <1>8
<1>10. Object(type, With(s.message, f, new))
  BY <1>6 DEF Object, D
<1>11. t = Step(type, s, item)
  BY DEF item
<1> QED  BY <1>7, <1>9, <1>10, <1>11, Zenon DEF good, kind, new

\* Nothing more is read once a text was not well formed.
LEMMA StaysBad ==
    ASSUME NEW type, NEW obj, NEW items, Len(items) \in Nat, NEW g,
           Reads(type, obj, items, g), NEW a \in 0..Len(items), ~g[a].ok
    PROVE  \A k \in a..Len(items) : g[k] = g[a]
<1> DEFINE bad == {k \in a..Len(items) : g[k] # g[a]}
<1> SUFFICES ASSUME bad # {} PROVE FALSE
  OBVIOUS
<1>1. PICK k \in bad : \A j \in bad : k <= j
  <2>1. bad \in SUBSET Nat
    OBVIOUS
  <2> QED  BY <2>1, LeastNumber
<1>2. k \in a..Len(items) /\ g[k] # g[a] /\ k # a
  OBVIOUS
<1>3. k - 1 \in a..Len(items) /\ k - 1 \notin bad /\ k \in 0..Len(items) /\ k # 0
  BY <1>1, <1>2
<1>4. g[k - 1] = g[a]
  BY <1>3
<1>5. g[k] = Step(type, g[k - 1], items[k])
  BY <1>3 DEF Reads
<1> QED  BY <1>2, <1>4, <1>5 DEF Step

\* What a field becomes on the wire.
OnWire == [number : Nat, payload : Payloads]

\* What a field becomes on the wire: nothing, one item, or one for each text.
LEMMA ItemsFacts ==
    ASSUME NEW kind \in Kinds, NEW n \in Nat, NEW v, FieldValue(kind, v)
    PROVE  /\ Items(kind, n, v) \in Seq(OnWire)
           /\ kind = "strings" =>
                /\ v \in Seq(Payloads) /\ Len(Items(kind, n, v)) = Len(v)
                /\ \A i \in 1..Len(v) : Items(kind, n, v)[i] = [number |-> n, payload |-> v[i]]
           /\ kind # "strings" =>
                \/ Items(kind, n, v) = <<>> /\ v = DefaultOf(kind)
                \/ \E p \in Payloads : /\ Items(kind, n, v) = <<[number |-> n, payload |-> p]>>
                                       /\ v = IF kind = "message" THEN <<p>> ELSE p
<1> DEFINE item(p) == [number |-> n, payload |-> p]
<1>1. \A p \in Payloads : item(p) \in OnWire
  BY DEF OnWire
<1> HIDE DEF item
<1>2. CASE kind = "strings"
  <2>1. v \in Seq(Payloads)
    BY <1>2, FieldPayloads
  <2>2. Len(v) \in Nat /\ DOMAIN v = 1..Len(v) /\ \A i \in 1..Len(v) : v[i] \in Payloads
    BY <2>1
  <2>3. Items(kind, n, v) = [i \in 1..Len(v) |-> item(v[i])]
    BY <1>2, <2>2 DEF Items, item
  <2>4. Items(kind, n, v) \in Seq(OnWire) /\ Len(Items(kind, n, v)) = Len(v)
    BY <1>1, <2>2, <2>3
  <2> QED  BY <1>2, <2>1, <2>2, <2>3, <2>4 DEF item
<1>3. CASE kind = "message"
  <2>1. CASE v = <<>>
    <3>1. Items(kind, n, v) = [i \in DOMAIN v |-> item(v[i])]
      BY <1>3 DEF Items, item
    <3>2. DOMAIN v = {}
      BY <2>1
    <3>3. Items(kind, n, v) = <<>>
      BY <3>1, <3>2
    <3>4. Items(kind, n, v) \in Seq(OnWire)
      BY <3>3
    <3>5. v = DefaultOf(kind) /\ kind # "strings"
      BY <1>3, <2>1 DEF DefaultOf
    <3> QED  BY <3>3, <3>4, <3>5
  <2>2. ASSUME NEW p \in Payloads, v = <<p>>
        PROVE  Items(kind, n, v) = <<item(p)>> /\ <<item(p)>> \in Seq(OnWire)
    <3>1. Items(kind, n, v) = [i \in DOMAIN v |-> item(v[i])]
      BY <1>3 DEF Items, item
    <3>2. DOMAIN v = 1..1 /\ v[1] = p
      BY <2>2
    <3>3. [i \in 1..1 |-> item(p)] = <<item(p)>>
      OBVIOUS
    <3>4. [i \in DOMAIN v |-> item(v[i])] = [i \in 1..1 |-> item(p)]
      BY <3>2
    <3> QED  BY <1>1, <3>1, <3>3, <3>4
  <2>3. v = <<>> \/ \E p \in Payloads : v = <<p>>
    BY <1>3, FieldPayloads
  <2>4. CASE \E p \in Payloads : v = <<p>>
    <3>1. PICK p \in Payloads : v = <<p>>
      BY <2>4
    <3>2. Items(kind, n, v) = <<item(p)>> /\ <<item(p)>> \in Seq(OnWire)
      BY <2>2, <3>1
    <3> QED  BY <1>3, <3>1, <3>2 DEF item
  <2> QED  BY <2>1, <2>3, <2>4
<1>4. CASE kind \notin {"strings", "message"}
  <2>1. v \in Payloads
    BY <1>4, FieldPayloads
  <2>2. CASE v = DefaultOf(kind)
    <3>1. Items(kind, n, v) = <<>>
      BY <1>4, <2>2 DEF Items
    <3> QED  BY <1>4, <2>2, <3>1
  <2>3. CASE v # DefaultOf(kind)
    <3>1. Items(kind, n, v) = <<item(v)>>
      BY <1>4, <2>3 DEF Items, item
    <3>2. <<item(v)>> \in Seq(OnWire)
      BY <1>1, <2>1
    <3> QED  BY <1>4, <2>1, <3>1, <3>2 DEF item
  <2> QED  BY <2>2, <2>3
<1> QED  BY <1>2, <1>3, <1>4

\* Replacing a field by what it is, or once and again.
LEMMA WithSame ==
    ASSUME NEW type, NEW m, Object(type, m), NEW f \in DOMAIN type.fields
    PROVE  With(m, f, m[f]) = m
BY DEF Object, With

\* A field that is set, once or twice, has what was set last.
LEMMA WithFacts ==
    ASSUME NEW type, NEW m, Object(type, m), NEW f \in DOMAIN type.fields, NEW u
    PROVE  /\ Object(type, With(m, f, u)) /\ With(m, f, u)[f] = u
           /\ \A v : With(With(m, f, u), f, v) = With(m, f, v)
<1> DEFINE D == DOMAIN type.fields
<1>1. m = [x \in D |-> m[x]] /\ DOMAIN m = D
  BY DEF Object
<1> HIDE DEF D
<1>2. \A w : With(m, f, w) = [x \in D |-> IF x = f THEN w ELSE m[x]]
  BY <1>1 DEF With
<1>3. DOMAIN With(m, f, u) = D /\ \A x \in D : With(m, f, u)[x] = IF x = f THEN u ELSE m[x]
  BY <1>2
<1>4. ASSUME NEW v PROVE With(With(m, f, u), f, v) = With(m, f, v)
  <2>1. With(With(m, f, u), f, v) = [x \in D |-> IF x = f THEN v ELSE With(m, f, u)[x]]
    BY <1>3 DEF With
  <2> QED  BY <1>2, <1>3, <2>1
<1>5. With(m, f, u) = [x \in D |-> With(m, f, u)[x]]
  BY <1>2
<1> QED  BY <1>3, <1>4, <1>5 DEF Object, D

\* A parser that has read the fields before f, with only the items of f still to come.
BeforeField(type, n, f, kind, v, its, obj, items, g, a) ==
    /\ TypeShape(type) /\ n \in DOMAIN type.order
    /\ f = type.order[n] /\ kind = type.fields[f]
    /\ FieldValue(kind, v) /\ its = Items(kind, n, v)
    /\ Len(items) \in Nat /\ Reads(type, obj, items, g)
    /\ a \in Nat /\ a + Len(its) = Len(items)
    /\ \A j \in 1..Len(its) : items[a + j] = its[j]
    /\ Object(type, g[a].message) /\ (g[a].ok => g[a].message[f] = DefaultOf(kind))
    /\ g[a].ok \in BOOLEAN

\* What the items of f have done to it.
AfterField(type, f, kind, v, s, t) ==
    /\ t.ok \in BOOLEAN
    /\ t.ok <=> s.ok /\ GoodField(kind, v)
    /\ t.ok => t.message = With(s.message, f, v)
    /\ Object(type, t.message)

\* What the items of one field do to a parser that has read the fields before it.
LEMMA FieldRead ==
    ASSUME NEW type, NEW n, NEW f, NEW kind, NEW v, NEW its, NEW obj, NEW items, NEW g,
           NEW a, BeforeField(type, n, f, kind, v, its, obj, items, g, a)
    PROVE  AfterField(type, f, kind, v, g[a], g[Len(items)])
<1>a. /\ TypeShape(type) /\ n \in DOMAIN type.order
      /\ f = type.order[n] /\ kind = type.fields[f]
  BY DEF BeforeField
<1>b. FieldValue(kind, v) /\ its = Items(kind, n, v)
  BY DEF BeforeField
<1>c. /\ Len(items) \in Nat /\ Reads(type, obj, items, g)
      /\ a \in Nat /\ a + Len(its) = Len(items)
      /\ \A j \in 1..Len(its) : items[a + j] = its[j]
  BY DEF BeforeField
<1>d. /\ Object(type, g[a].message) /\ (g[a].ok => g[a].message[f] = DefaultOf(kind))
      /\ g[a].ok \in BOOLEAN
  BY DEF BeforeField
<1> SUFFICES LET t == g[Len(items)]
             IN  /\ t.ok \in BOOLEAN
                 /\ t.ok <=> g[a].ok /\ GoodField(kind, v)
                 /\ t.ok => t.message = With(g[a].message, f, v)
                 /\ Object(type, t.message)
  BY DEF AfterField
<1> HIDE DEF BeforeField
<1> DEFINE m == g[a].message
           item(p) == [number |-> n, payload |-> p]
<1> HIDE DEF item
<1>1. kind \in Kinds /\ f \in DOMAIN type.fields /\ n \in Nat
  BY <1>a DEF TypeShape
<1>2. /\ its \in Seq(OnWire) /\ Len(its) \in Nat
      /\ kind = "strings" =>
           /\ v \in Seq(Payloads) /\ Len(its) = Len(v)
           /\ \A i \in 1..Len(v) : its[i] = item(v[i])
      /\ kind # "strings" =>
           \/ its = <<>> /\ v = DefaultOf(kind)
           \/ \E p \in Payloads : /\ its = <<item(p)>>
                                  /\ v = IF kind = "message" THEN <<p>> ELSE p
  BY <1>1, <1>b, ItemsFacts DEF item
<1>3. \A j \in 1..Len(its) : g[a + j] = Step(type, g[a + (j - 1)], its[j])
  <2> SUFFICES ASSUME NEW j \in 1..Len(its)
               PROVE  g[a + j] = Step(type, g[a + (j - 1)], its[j])
    OBVIOUS
  <2>1. a + j \in 0..Len(items) /\ a + j # 0 /\ (a + j) - 1 = a + (j - 1)
    BY <1>2, <1>c
  <2>2. g[a + j] = Step(type, g[(a + j) - 1], items[a + j])
    BY <2>1, <1>c DEF Reads
  <2> QED  BY <2>1, <2>2, <1>c
<1>4. Len(items) = a + Len(its) /\ a \in 0..Len(items)
  BY <1>2, <1>c
<1>5. CASE ~g[a].ok
  <2>1. Len(items) \in a..Len(items)
    BY <1>4, <1>c
  <2>2. \A k \in a..Len(items) : g[k] = g[a]
    <3>1. Len(items) \in Nat /\ Reads(type, obj, items, g)
      BY <1>c
    <3>2. a \in 0..Len(items)
      BY <1>4
    <3> QED  BY <1>5, <3>1, <3>2, StaysBad
  <2>3. g[Len(items)] = g[a]
    BY <2>1, <2>2
  <2> QED  BY <1>5, <1>d, <2>3
<1>6. CASE g[a].ok /\ kind # "strings"
  <2>1. CASE its = <<>> /\ v = DefaultOf(kind)
    <3>1. Len(items) = a
      BY <1>4, <1>c, <2>1
    <3>2. GoodField(kind, v)
      BY <1>6, <2>1 DEF GoodField, DefaultOf, WellFormed
    <3>3. With(m, f, v) = m
      BY <1>1, <1>6, <1>d, <2>1, WithSame
    <3> QED  BY <1>6, <1>d, <3>1, <3>2, <3>3
  <2>2. ASSUME NEW p \in Payloads, its = <<item(p)>>,
               v = IF kind = "message" THEN <<p>> ELSE p
        PROVE  LET t == g[Len(items)]
               IN  /\ t.ok \in BOOLEAN
                   /\ t.ok <=> g[a].ok /\ GoodField(kind, v)
                   /\ t.ok => t.message = With(g[a].message, f, v)
                   /\ Object(type, t.message)
    <3>1. Len(its) = 1 /\ its[1] = item(p) /\ a + (1 - 1) = a
      BY <2>2, <1>c
    <3>2. g[a + 1] = Step(type, g[a], item(p))
      BY <1>3, <3>1
    <3> DEFINE t == g[a + 1]
    <3>3. /\ t.ok \in BOOLEAN
          /\ t.ok <=> (kind \in {"string", "strings"} => WellFormed(p))
          /\ t.message = With(m, f, Merged(kind, m[f], p))
          /\ Object(type, t.message)
      <4>1. f = type.order[n] /\ kind = type.fields[f]
        BY <1>a
      <4>2. PICK it, s : it = item(p) /\ s = g[a]
        OBVIOUS
      <4>3. it = [number |-> n, payload |-> p] /\ s.ok /\ Object(type, s.message)
        BY <1>6, <1>d, <4>2 DEF item
      <4>4. t = Step(type, s, it) /\ m = s.message
        BY <3>2, <4>2
      <4> HIDE DEF t, m
      <4> QED  BY <1>1, <4>1, <4>3, <4>4, OneItem
    <3>4. Merged(kind, m[f], p) = v
      <4>0. m[f] = DefaultOf(kind)
        BY <1>6, <1>d
      <4>1. CASE kind = "message"
        <5>1. m[f] = <<>>
          BY <4>0, <4>1 DEF DefaultOf
        <5> QED  BY <2>2, <4>1, <5>1 DEF Merged
      <4>2. CASE kind = "ints"
        <5>1. m[f] = <<>> /\ v = p /\ v \in Seq(Int)
          BY <1>b, <2>2, <4>0, <4>2 DEF DefaultOf, FieldValue
        <5>2. <<>> \o v = v
          BY <5>1, ConcatEmptySeq
        <5> QED  BY <4>2, <5>1, <5>2 DEF Merged
      <4>3. CASE kind \notin {"message", "ints"}
        BY <1>6, <2>2, <4>3 DEF Merged
      <4> QED  BY <4>1, <4>2, <4>3
    <3>5. (kind \in {"string", "strings"} => WellFormed(p)) <=> GoodField(kind, v)
      BY <1>6, <2>2 DEF GoodField
    <3>6. Len(items) = a + 1
      BY <1>4, <1>c, <3>1
    <3> QED  BY <1>6, <3>3, <3>4, <3>5, <3>6
  <2> QED  BY <1>2, <1>6, <2>1, <2>2
<1>7. CASE g[a].ok /\ kind = "strings"
  <2> DEFINE good(j) ==
               /\ g[a + j].ok \in BOOLEAN
               /\ g[a + j].ok <=> \A i \in 1..j : WellFormed(v[i])
               /\ g[a + j].ok => g[a + j].message = With(m, f, SubSeq(v, 1, j))
               /\ Object(type, g[a + j].message)
             bad == {j \in 0..Len(v) : ~good(j)}
  <2>1. /\ v \in Seq(Payloads) /\ Len(its) = Len(v) /\ Len(v) \in Nat
        /\ \A i \in 1..Len(v) : its[i] = item(v[i])
    BY <1>2, <1>7
  <2>2. bad = {}
    <3> SUFFICES ASSUME bad # {} PROVE FALSE
      OBVIOUS
    <3>1. PICK j \in bad : \A k \in bad : j <= k
      <4>1. bad \in SUBSET Nat
        <5> HIDE DEF good
        <5> QED  BY <2>1
      <4> QED  BY <4>1, LeastNumber
    <3>2. j \in 0..Len(v) /\ j \in Nat /\ ~good(j)
      <4> HIDE DEF good
      <4> QED  BY <2>1
    <3> HIDE DEF bad
    <3>3. CASE j = 0
      <4>1. SubSeq(v, 1, 0) = <<>> /\ m[f] = <<>> /\ a + 0 = a
        BY <1>7, <1>c, <1>d, SubSeqEmpty DEF DefaultOf
      <4>2. With(m, f, m[f]) = m
        BY <1>1, <1>d, WithSame
      <4>3. With(m, f, SubSeq(v, 1, 0)) = m
        BY <4>1, <4>2
      <4>4. \A i \in 1..0 : WellFormed(v[i])
        OBVIOUS
      <4>5. good(0)
        BY <1>7, <1>d, <4>1, <4>3, <4>4, Zenon
      <4> QED  BY <3>2, <3>3, <4>5
    <3>4. CASE j # 0
      <4>1. j - 1 \in 0..Len(v) /\ j - 1 \notin bad /\ j \in 1..Len(v)
        <5> HIDE DEF good
        <5> QED  BY <2>1, <3>1, <3>2, <3>4
      <4>2. good(j - 1)
        <5> HIDE DEF good
        <5> QED  BY <4>1 DEF bad
      <4>3. g[a + j] = Step(type, g[a + (j - 1)], item(v[j]))
        BY <1>3, <2>1, <4>1
      <4> DEFINE s == g[a + (j - 1)]
                 t == g[a + j]
      <4>4. \A i \in 1..j : i \in 1..(j - 1) \/ i = j
        BY <4>1
      <4>5. CASE ~s.ok
        <5>1. t = s
          BY <4>3, <4>5 DEF Step
        <5>2. ~ \A i \in 1..j : WellFormed(v[i])
          BY <4>1, <4>2, <4>5
        <5> QED  BY <3>2, <4>2, <4>5, <5>1, <5>2
      <4>6. CASE s.ok
        <5>1. Object(type, s.message) /\ s.message = With(m, f, SubSeq(v, 1, j - 1))
              /\ \A i \in 1..(j - 1) : WellFormed(v[i])
          BY <4>2, <4>6
        <5> DEFINE before == SubSeq(v, 1, j - 1)
        <5> HIDE DEF before
        <5>2. s.message[f] = before /\ \A w : With(s.message, f, w) = With(m, f, w)
          <6>1. s.message = With(m, f, before)
            BY <5>1 DEF before
          <6>2. /\ With(m, f, before)[f] = before
                /\ \A w : With(With(m, f, before), f, w) = With(m, f, w)
            BY <1>1, <1>d, WithFacts
          <6> QED  BY <6>1, <6>2
        <5>3. /\ t.ok \in BOOLEAN
              /\ t.ok <=> (kind \in {"string", "strings"} => WellFormed(v[j]))
              /\ t.message = With(s.message, f, Merged(kind, s.message[f], v[j]))
              /\ Object(type, t.message)
          <6>1. f = type.order[n] /\ kind = type.fields[f]
            BY <1>a
          <6>2. PICK it : it = item(v[j])
            OBVIOUS
          <6>3. it = [number |-> n, payload |-> v[j]] /\ t = Step(type, s, it)
            BY <4>3, <6>2 DEF item
          <6> HIDE DEF s, t
          <6> QED  BY <1>1, <4>6, <5>1, <6>1, <6>3, OneItem
        <5>4. Merged(kind, s.message[f], v[j]) = SubSeq(v, 1, j)
          <6>1. \A i \in 1..j : v[i] \in Payloads
            BY <2>1, <4>1
          <6>2. Append(SubSeq(v, 1, j - 1), v[j]) = SubSeq(v, 1, j)
            BY <2>1, <4>1, <6>1
          <6> QED  BY <1>7, <5>2, <6>2 DEF Merged, before
        <5>5. t.message = With(m, f, SubSeq(v, 1, j))
          BY <5>2, <5>3, <5>4
        <5>6. t.ok <=> \A i \in 1..j : WellFormed(v[i])
          BY <1>7, <4>1, <4>4, <5>1, <5>3
        <5> QED  BY <3>2, <5>3, <5>5, <5>6
      <4> QED  BY <4>2, <4>5, <4>6
    <3> QED  BY <3>2, <3>3, <3>4
  <2>3. good(Len(v)) /\ Len(items) = a + Len(v)
    <3>1. Len(v) \in 0..Len(v)
      BY <2>1
    <3>2. good(Len(v))
      <4> HIDE DEF good
      <4> QED  BY <2>2, <3>1
    <3> QED  BY <1>4, <2>1, <3>2
  <2>4. SubSeq(v, 1, Len(v)) = v
    BY <2>1, SubSeqFull
  <2>5. GoodField(kind, v) <=> \A i \in 1..Len(v) : WellFormed(v[i])
    BY <1>7, <2>1 DEF GoodField
  <2> QED  BY <1>7, <2>3, <2>4, <2>5
<1> QED  BY <1>5, <1>6, <1>7

-----------------------------------------------------------------------------
(***************************************************************************)
(* A whole message, field by field.                                        *)
(***************************************************************************)
\* The parser reads the first part of its input as it reads that part alone.
LEMMA ReadsPrefix ==
    ASSUME NEW type, NEW obj, NEW S, NEW p \in Seq(S), NEW q \in Seq(S), NEW g,
           Reads(type, obj, p \o q, g)
    PROVE  Reads(type, obj, p, [k \in 0..Len(p) |-> g[k]])
<1> DEFINE r == p \o q
           h == [k \in 0..Len(p) |-> g[k]]
<1>1. /\ Len(p) \in Nat /\ Len(q) \in Nat /\ Len(r) = Len(p) + Len(q)
      /\ \A i \in 1..Len(p) : r[i] = p[i]
  BY ConcatProperties
<1> HIDE DEF r
<1>2. \A k \in 0..Len(r) : g[k] = IF k = 0 THEN Start(obj) ELSE Step(type, g[k - 1], r[k])
  BY DEF Reads, r
<1>3. \A k \in 0..Len(p) : k \in 0..Len(r) /\ (k # 0 => k \in 1..Len(p) /\ k - 1 \in 0..Len(p))
  BY <1>1
<1>4. \A k \in 0..Len(p) : h[k] = IF k = 0 THEN Start(obj) ELSE Step(type, h[k - 1], p[k])
  BY <1>1, <1>2, <1>3
<1> HIDE DEF h
<1>5. h = [k \in 0..Len(p) |-> h[k]]
  BY DEF h
<1> QED  BY <1>4, <1>5 DEF Reads, h

\* A message of which the fields up to number n have been read.
UpTo(type, m, n) ==
    [f \in DOMAIN type.fields |-> IF \E i \in 1..n : type.order[i] = f THEN m[f]
                                  ELSE DefaultOf(type.fields[f])]

\* A message of which the first n fields are set, as n grows.
LEMMA UpToFacts ==
    ASSUME NEW type, TypeShape(type), NEW m, Object(type, m)
    PROVE  /\ UpTo(type, m, 0) = Cleared(type)
           /\ UpTo(type, m, Len(type.order)) = m
           /\ \A n \in 1..Len(type.order) :
                LET f == type.order[n]
                IN  /\ UpTo(type, m, n - 1)[f] = DefaultOf(type.fields[f])
                    /\ With(UpTo(type, m, n - 1), f, m[f]) = UpTo(type, m, n)
<1> DEFINE N == Len(type.order)
           D == DOMAIN type.fields
<1>1. N \in Nat /\ DOMAIN type.order = 1..N
  BY DEF TypeShape
<1>2. UpTo(type, m, 0) = Cleared(type)
  <2>1. \A f \in D : ~\E i \in 1..0 : type.order[i] = f
    OBVIOUS
  <2> QED  BY <2>1 DEF UpTo, Cleared
<1>3. UpTo(type, m, N) = m
  <2>1. \A f \in D : \E i \in 1..N : type.order[i] = f
    BY <1>1 DEF TypeShape
  <2> HIDE DEF N
  <2>2. m = [f \in D |-> m[f]]
    BY DEF Object
  <2> QED  BY <2>1, <2>2 DEF UpTo
<1>4. ASSUME NEW n \in 1..N, NEW f, f = type.order[n]
      PROVE  /\ UpTo(type, m, n - 1)[f] = DefaultOf(type.fields[f])
             /\ With(UpTo(type, m, n - 1), f, m[f]) = UpTo(type, m, n)
  <2>1. f \in D /\ \A i \in 1..N : type.order[i] = f => i = n
    BY <1>1, <1>4 DEF TypeShape
  <2>2. \A i \in 1..(n - 1) : i \in 1..n /\ i # n
    BY <1>1
  <2>3. \A i \in 1..n : i \in 1..N /\ (i # n => i \in 1..(n - 1))
    BY <1>1
  <2>4. ~\E i \in 1..(n - 1) : type.order[i] = f
    BY <2>1, <2>2, <2>3
  <2>5. \A x \in D : x # f => ((\E i \in 1..n : type.order[i] = x)
                                 <=> (\E i \in 1..(n - 1) : type.order[i] = x))
    BY <1>4, <2>2, <2>3
  <2>6. \E i \in 1..n : type.order[i] = f
    BY <1>1, <1>4
  <2>7. DOMAIN UpTo(type, m, n - 1) = D
    BY DEF UpTo
  <2>8. UpTo(type, m, n - 1)[f] = DefaultOf(type.fields[f])
    BY <2>1, <2>4 DEF UpTo
  <2>9. With(UpTo(type, m, n - 1), f, m[f])
          = [x \in D |-> IF x = f THEN m[f] ELSE UpTo(type, m, n - 1)[x]]
    BY <2>7 DEF With
  <2>10. \A x \in D : (IF x = f THEN m[f] ELSE UpTo(type, m, n - 1)[x]) = UpTo(type, m, n)[x]
    BY <2>5, <2>6 DEF UpTo
  <2>11. UpTo(type, m, n) = [x \in D |-> UpTo(type, m, n)[x]]
    BY DEF UpTo
  <2> QED  BY <2>8, <2>9, <2>10, <2>11
<1> QED  BY <1>2, <1>3, <1>4

(***************************************************************************)
(* What is written of a message is read back: the parser accepts it if it  *)
(* has no bad text, and has then the message, whatever was left out.       *)
(***************************************************************************)
THEOREM RoundTrip ==
    ASSUME NEW type, TypeShape(type), NEW m, MessageOf(type, m)
    PROVE  LET read == Parse(type, Cleared(type), Serialize(type, m))
           IN  /\ read.ok \in BOOLEAN
               /\ read.ok <=> ~HasBadText(type, m)
               /\ read.ok => read.message = m
               /\ Object(type, read.message)
<1> DEFINE N == Len(type.order)
           kindOf(n) == type.fields[type.order[n]]
           valueOf(n) == m[type.order[n]]
           parts == [n \in DOMAIN type.order |-> Items(kindOf(n), n, valueOf(n))]
<1>1. N \in Nat /\ N # 0 /\ DOMAIN type.order = 1..N
  BY DEF TypeShape
<1>2. \A n \in 1..N : /\ n \in Nat /\ kindOf(n) \in Kinds /\ FieldValue(kindOf(n), valueOf(n))
                      /\ type.order[n] \in DOMAIN type.fields
  BY <1>1 DEF TypeShape, MessageOf
<1>3. Object(type, m)
  BY DEF MessageOf
<1> HIDE DEF N
<1>4. \A n \in 1..N : parts[n] = Items(kindOf(n), n, valueOf(n)) /\ parts[n] \in Seq(OnWire)
  <2> SUFFICES ASSUME NEW n \in 1..N
               PROVE  parts[n] = Items(kindOf(n), n, valueOf(n)) /\ parts[n] \in Seq(OnWire)
    OBVIOUS
  <2>1. parts[n] = Items(kindOf(n), n, valueOf(n))
    BY <1>1
  <2> HIDE DEF kindOf, valueOf, parts
  <2>2. Items(kindOf(n), n, valueOf(n)) \in Seq(OnWire)
    BY <1>2, ItemsFacts
  <2> QED  BY <2>1, <2>2
<1>5. Len(parts) = N
  BY <1>1
<1>6. Serialize(type, m) = FlattenSeq(parts)
  BY Zenon DEF Serialize
<1> HIDE DEF parts
<1>7. PICK h : Joins(parts, N, h) /\ FlattenSeq(parts) = h[N]
  BY <1>1, <1>5, FlattenJoins
<1> DEFINE prefix(n) == IF n = 0 THEN <<>> ELSE h[n]
<1>8. \A n \in 1..N : h[n] = IF n = 1 THEN parts[n] ELSE h[n - 1] \o parts[n]
  BY <1>7 DEF Joins
<1> DEFINE good(n) ==
             /\ prefix(n) \in Seq(OnWire)
             /\ \A g : Reads(type, Cleared(type), prefix(n), g) =>
                  LET s == g[Len(prefix(n))]
                  IN  /\ s.ok \in BOOLEAN /\ Object(type, s.message)
                      /\ s.ok <=> \A i \in 1..n : GoodField(kindOf(i), valueOf(i))
                      /\ s.ok => s.message = UpTo(type, m, n)
           bad == {n \in 0..N : ~good(n)}
<1>9. good(0)
  <2>1. prefix(0) = <<>> /\ prefix(0) \in Seq(OnWire) /\ Len(prefix(0)) = 0
    OBVIOUS
  <2> SUFFICES ASSUME NEW g, Reads(type, Cleared(type), prefix(0), g)
               PROVE  /\ g[0].ok \in BOOLEAN /\ Object(type, g[0].message)
                      /\ g[0].ok <=> \A i \in 1..0 : GoodField(kindOf(i), valueOf(i))
                      /\ g[0].ok => g[0].message = UpTo(type, m, 0)
    BY <2>1
  <2>2. g[0] = Start(Cleared(type))
    BY <2>1 DEF Reads
  <2>3. g[0].ok = TRUE /\ g[0].message = Cleared(type)
    BY <2>2 DEF Start
  <2>4. Object(type, Cleared(type))
    BY DEF Object, Cleared
  <2>5. UpTo(type, m, 0) = Cleared(type)
    BY <1>3, UpToFacts
  <2>6. \A i \in 1..0 : GoodField(kindOf(i), valueOf(i))
    OBVIOUS
  <2> QED  BY <2>3, <2>4, <2>5, <2>6
<1>10. ASSUME NEW n \in 1..N, good(n - 1)
       PROVE  good(n)
  <2> DEFINE p == prefix(n - 1)
             q == parts[n]
  <2>1. n \in Nat /\ n # 0 /\ n - 1 \in 0..N
    BY <1>1
  <2>2. p \in Seq(OnWire) /\ q \in Seq(OnWire)
    BY <1>4, <1>10
  <2>3. prefix(n) = p \o q
    <3>1. CASE n = 1
      <4>1. prefix(n) = q /\ p = <<>>
        BY <1>8, <3>1
      <4>2. <<>> \o q = q
        BY <2>2, ConcatEmptySeq
      <4> QED  BY <4>1, <4>2
    <3>2. CASE n # 1
      <4>1. prefix(n) = h[n] /\ p = h[n - 1]
        BY <2>1, <3>2
      <4>2. h[n] = h[n - 1] \o parts[n]
        BY <1>8, <3>2
      <4> QED  BY <4>1, <4>2
    <3> QED  BY <3>1, <3>2
  <2> SUFFICES ASSUME NEW g, Reads(type, Cleared(type), prefix(n), g)
               PROVE  LET s == g[Len(prefix(n))]
                      IN  /\ s.ok \in BOOLEAN /\ Object(type, s.message)
                          /\ s.ok <=> \A i \in 1..n : GoodField(kindOf(i), valueOf(i))
                          /\ s.ok => s.message = UpTo(type, m, n)
    <3>1. p \o q \in Seq(OnWire)
      BY <2>2, ConcatProperties
    <3> QED  BY <2>3, <3>1
  <2> DEFINE k == [i \in 0..Len(p) |-> g[i]]
             a == Len(p)
             f == type.order[n]
  <2>4. Reads(type, Cleared(type), p, k)
    <3> HIDE DEF p, q, prefix
    <3>1. Reads(type, Cleared(type), p \o q, g)
      BY <2>3
    <3> QED  BY <2>2, <3>1, ReadsPrefix
  <2>5. a \in Nat /\ Len(q) \in Nat /\ Len(prefix(n)) = a + Len(q) /\ Len(prefix(n)) \in Nat
        /\ \A j \in 1..Len(q) : prefix(n)[a + j] = q[j]
    <3> HIDE DEF p, q, prefix
    <3>1. Len(p) \in Nat /\ Len(q) \in Nat
      BY <2>2
    <3>2. /\ Len(p \o q) = Len(p) + Len(q)
          /\ \A i \in 1..(Len(p) + Len(q)) :
               (p \o q)[i] = IF i <= Len(p) THEN p[i] ELSE q[i - Len(p)]
      BY <2>2, ConcatProperties
    <3>3. \A j \in 1..Len(q) : /\ Len(p) + j \in 1..(Len(p) + Len(q))
                               /\ ~(Len(p) + j <= Len(p)) /\ (Len(p) + j) - Len(p) = j
      BY <3>1
    <3>4. \A j \in 1..Len(q) : (p \o q)[Len(p) + j] = q[j]
      BY <3>2, <3>3
    <3> QED  BY <2>3, <3>1, <3>2, <3>4
  <2>6. k[a] = g[a]
    BY <2>5
  <2>7. /\ g[a].ok \in BOOLEAN /\ Object(type, g[a].message)
        /\ g[a].ok <=> \A i \in 1..(n - 1) : GoodField(kindOf(i), valueOf(i))
        /\ g[a].ok => g[a].message = UpTo(type, m, n - 1)
    <3> HIDE DEF k
    <3>1. /\ k[a].ok \in BOOLEAN /\ Object(type, k[a].message)
          /\ k[a].ok <=> \A i \in 1..(n - 1) : GoodField(kindOf(i), valueOf(i))
          /\ k[a].ok => k[a].message = UpTo(type, m, n - 1)
      BY <1>10, <2>4
    <3> QED  BY <2>6, <3>1
  <2>8. /\ UpTo(type, m, n - 1)[f] = DefaultOf(type.fields[f])
        /\ With(UpTo(type, m, n - 1), f, m[f]) = UpTo(type, m, n)
    BY <1>3, UpToFacts DEF N
  <2>9. n \in DOMAIN type.order /\ FieldValue(kindOf(n), valueOf(n))
        /\ q = Items(kindOf(n), n, valueOf(n))
    BY <1>1, <1>2, <1>4
  <2> DEFINE s == g[Len(prefix(n))]
             items == prefix(n)
  <2>10. g[a].ok => g[a].message[f] = DefaultOf(kindOf(n))
    BY <2>7, <2>8
  <2> HIDE DEF a, q, prefix, p
  <2>11. /\ s.ok \in BOOLEAN
         /\ s.ok <=> g[a].ok /\ GoodField(kindOf(n), valueOf(n))
         /\ s.ok => s.message = With(g[a].message, f, valueOf(n))
         /\ Object(type, s.message)
    <3> HIDE DEF items
    <3>1. Len(items) \in Nat /\ Reads(type, Cleared(type), items, g)
          /\ a + Len(q) = Len(items) /\ \A j \in 1..Len(q) : items[a + j] = q[j]
      BY <2>5 DEF items
    <3>2. PICK kind, v : kind = kindOf(n) /\ v = valueOf(n)
      OBVIOUS
    <3>3. BeforeField(type, n, f, kind, v, q, Cleared(type), items, g, a)
      BY <2>5, <2>7, <2>9, <2>10, <3>1, <3>2 DEF BeforeField
    <3>4. AfterField(type, f, kind, v, g[a], g[Len(items)])
      BY <3>3, FieldRead
    <3> QED  BY <3>2, <3>4 DEF items, AfterField
  <2>12. \A i \in 1..n : i \in 1..(n - 1) \/ i = n
    BY <2>1
  <2>13. \A i \in 1..(n - 1) : i \in 1..n
    BY <2>1
  <2>14. n \in 1..n
    BY <2>1
  <2>15. s.ok <=> \A i \in 1..n : GoodField(kindOf(i), valueOf(i))
    <3> HIDE DEF s, kindOf, valueOf
    <3> QED  BY <2>7, <2>11, <2>12, <2>13, <2>14
  <2>16. s.ok => s.message = UpTo(type, m, n)
    <3> HIDE DEF s
    <3> QED  BY <2>7, <2>8, <2>11
  <2> QED  BY <2>11, <2>15, <2>16
<1> HIDE DEF good
<1>11. good(N)
  <2> SUFFICES ASSUME bad # {} PROVE FALSE
    <3>1. N \in 0..N
      BY <1>1
    <3> QED  BY <3>1
  <2>1. PICK n \in bad : \A j \in bad : n <= j
    <3>1. bad \in SUBSET Nat
      BY <1>1
    <3> QED  BY <3>1, LeastNumber
  <2>2. n \in 0..N /\ ~good(n)
    OBVIOUS
  <2>3. n # 0
    BY <1>9, <2>2
  <2>4. n \in 1..N /\ n - 1 \in 0..N /\ ~(n <= n - 1)
    BY <1>1, <2>2, <2>3
  <2>5. good(n - 1)
    BY <2>1, <2>4
  <2> QED  BY <1>10, <2>2, <2>4, <2>5
<1> DEFINE items == Serialize(type, m)
<1>12. items = prefix(N) /\ items \in Seq(OnWire)
  BY <1>1, <1>6, <1>7, <1>11 DEF good
<1> HIDE DEF items
<1>13. Len(items) \in Nat /\ DOMAIN items = 1..Len(items)
  BY <1>12
<1>14. PICK g : Reads(type, Cleared(type), items, g)
                /\ Parse(type, Cleared(type), items) = g[Len(items)]
  BY <1>13, ParseReads
<1> DEFINE s == g[Len(items)]
<1>15. /\ s.ok \in BOOLEAN /\ Object(type, s.message)
       /\ s.ok <=> \A i \in 1..N : GoodField(kindOf(i), valueOf(i))
       /\ s.ok => s.message = UpTo(type, m, N)
  BY <1>11, <1>12, <1>14 DEF good
<1>16. UpTo(type, m, N) = m
  BY <1>3, UpToFacts DEF N
<1>17. (\A i \in 1..N : GoodField(kindOf(i), valueOf(i))) <=> ~HasBadText(type, m)
  <2>1. \A f \in DOMAIN type.fields : \E i \in 1..N : type.order[i] = f
    BY <1>1 DEF TypeShape
  <2>2. HasBadText(type, m) <=> \E f \in DOMAIN type.fields : ~GoodField(type.fields[f], m[f])
    BY <1>3, BadFields
  <2> QED  BY <1>2, <2>1, <2>2
<1> QED  BY <1>14, <1>15, <1>16, <1>17 DEF items


-----------------------------------------------------------------------------
(***************************************************************************)
(* The message types of the services.                                      *)
(***************************************************************************)
LEMMA SNSShapes ==
    /\ TypeShape(SNS!Request) /\ TypeShape(SNS!Reply)
    /\ TypeShape(SNS!ListReply) /\ TypeShape(SNS!Message)
<1>1. TypeShape(SNS!Request)
  BY DEF TypeShape, Kinds, SNS!Request, SNS!RequestFields
<1>2. TypeShape(SNS!Reply)
  BY DEF TypeShape, Kinds, SNS!Reply, SNS!ReplyFields
<1>3. TypeShape(SNS!ListReply)
  BY DEF TypeShape, Kinds, SNS!ListReply, SNS!ListReplyFields
<1>4. TypeShape(SNS!Message)
  BY DEF TypeShape, Kinds, SNS!Message, SNS!MessageFields
<1> QED  BY <1>1, <1>2, <1>3, <1>4

\* The same of the microblog.
LEMMA FileSNSShapes ==
    TypeShape(FileSNS!Request) /\ TypeShape(FileSNS!Reply) /\ TypeShape(FileSNS!Message)
<1>1. TypeShape(FileSNS!Request)
  BY DEF TypeShape, Kinds, FileSNS!Request, FileSNS!RequestFields
<1>2. TypeShape(FileSNS!Reply)
  BY DEF TypeShape, Kinds, FileSNS!Reply, FileSNS!ReplyFields
<1>3. TypeShape(FileSNS!Message)
  BY DEF TypeShape, Kinds, FileSNS!Message, FileSNS!MessageFields
<1> QED  BY <1>1, <1>2, <1>3

\* The same of the coordinator.
LEMMA CoordinatorShapes ==
    /\ TypeShape(Coord!User) /\ TypeShape(Coord!ClusterId) /\ TypeShape(Coord!Server)
    /\ TypeShape(Coord!Users) /\ TypeShape(Coord!FollowSyncs) /\ TypeShape(Coord!Heartbeat)
<1>1. TypeShape(Coord!User)
  BY DEF TypeShape, Kinds, Coord!User, Coord!UserFields
<1>2. TypeShape(Coord!ClusterId)
  BY DEF TypeShape, Kinds, Coord!ClusterId, Coord!ClusterIdFields
<1>3. TypeShape(Coord!Server)
  BY DEF TypeShape, Kinds, Coord!Server, Coord!ServerFields
<1>4. TypeShape(Coord!Users)
  BY DEF TypeShape, Kinds, Coord!Users, Coord!UsersFields
<1>5. TypeShape(Coord!FollowSyncs)
  BY DEF TypeShape, Kinds, Coord!FollowSyncs, Coord!FollowSyncsFields
<1>6. TypeShape(Coord!Heartbeat)
  BY DEF TypeShape, Kinds, Coord!Heartbeat, Coord!HeartbeatFields
<1> QED  BY <1>1, <1>2, <1>3, <1>4, <1>5, <1>6

\* The same of the synchronizer.
LEMMA FollowSyncShapes ==
    /\ TypeShape(FollowSync!Relation) /\ TypeShape(FollowSync!Users)
    /\ TypeShape(FollowSync!Post) /\ TypeShape(FollowSync!Reply)
<1>1. TypeShape(FollowSync!Relation)
  BY DEF TypeShape, Kinds, FollowSync!Relation, FollowSync!RelationFields
<1>2. TypeShape(FollowSync!Users)
  BY DEF TypeShape, Kinds, FollowSync!Users, FollowSync!UsersFields
<1>3. TypeShape(FollowSync!Post)
  BY DEF TypeShape, Kinds, FollowSync!Post, FollowSync!PostFields
<1>4. TypeShape(FollowSync!Reply)
  BY DEF TypeShape, Kinds, FollowSync!Reply, FollowSync!ReplyFields
<1> QED  BY <1>1, <1>2, <1>3, <1>4

\* Whatever a call carries is of such a type.
LEMMA TypesShaped ==
    ASSUME service \in DOMAIN Handlers, method \in DOMAIN Handlers[service],
           NEW d \in Directions
    PROVE  TypeShape(Type(d))
<1>1. CASE service = "sns"
  <2>1. Handlers[service] = SNS!SNSService
    BY <1>1 DEF Handlers
  <2>2. \/ Type(d) = SNS!Request \/ Type(d) = SNS!Reply
        \/ Type(d) = SNS!ListReply \/ Type(d) = SNS!Message
    BY <2>1 DEF Type, Directions, SNS!SNSService
  <2> QED  BY <2>2, SNSShapes
<1>2. CASE service = "files"
  <2>1. Handlers[service] = FileSNS!SNSService
    BY <1>2 DEF Handlers
  <2>2. Type(d) = FileSNS!Request \/ Type(d) = FileSNS!Reply \/ Type(d) = FileSNS!Message
    BY <2>1 DEF Type, Directions, FileSNS!SNSService
  <2> QED  BY <2>2, FileSNSShapes
<1>3. CASE service = "coord"
  <2>1. Handlers[service] = Coord!SNSCoordinator
    BY <1>3 DEF Handlers
  <2>2. \/ Type(d) = Coord!User \/ Type(d) = Coord!ClusterId \/ Type(d) = Coord!Server
        \/ Type(d) = Coord!Users \/ Type(d) = Coord!FollowSyncs \/ Type(d) = Coord!Heartbeat
    BY <2>1 DEF Type, Directions, Coord!SNSCoordinator
  <2> QED  BY <2>2, CoordinatorShapes
<1>4. CASE service = "sync"
  <2>1. Handlers[service] = FollowSync!SNSFollowSync
    BY <1>4 DEF Handlers
  <2>2. \/ Type(d) = FollowSync!Relation \/ Type(d) = FollowSync!Users
        \/ Type(d) = FollowSync!Post \/ Type(d) = FollowSync!Reply
    BY <2>1 DEF Type, Directions, FollowSync!SNSFollowSync
  <2> QED  BY <2>2, FollowSyncShapes
<1> QED  BY <1>1, <1>2, <1>3, <1>4 DEF Handlers

-----------------------------------------------------------------------------
(***************************************************************************)
(* The messages that the accessors make.                                   *)
(***************************************************************************)
LEMMA ClearedObject ==
    ASSUME NEW type
    PROVE  /\ Object(type, Cleared(type))
           /\ \A m : Object(type, m) => Clear(type, m) = Cleared(type)
BY DEF Object, Cleared, Clear

\* A new object is a message of its type.
LEMMA ClearedMessage ==
    ASSUME NEW type, TypeShape(type)
    PROVE  MessageOf(type, Cleared(type))
<1>1. \A f \in DOMAIN type.fields : type.fields[f] \in Kinds
  BY DEF TypeShape
<1>2. ASSUME NEW kind \in Kinds
      PROVE  FieldValue(kind, DefaultOf(kind))
  <2>1. kind \in {"int32", "enum"} => DefaultOf(kind) = 0
    BY DEF DefaultOf
  <2>2. kind \notin {"int32", "enum"} => DefaultOf(kind) = <<>>
    BY DEF DefaultOf
  <2>3. <<>> \in Seq(Bytes) /\ <<>> \in Seq(Texts) /\ <<>> \in Seq(Int) /\ Len(<<>>) = 0
    OBVIOUS
  <2>4. CASE kind \in {"int32", "enum"}
    BY <2>1, <2>4 DEF FieldValue
  <2>5. CASE kind = "message"
    <3>1. PICK e : e = DefaultOf(kind)
      OBVIOUS
    <3>2. e \in Seq(Int) /\ Len(e) <= 1
      <4>1. e = <<>>
        BY <2>2, <2>5, <3>1
      <4> QED  BY <4>1
    <3> QED  BY <2>5, <3>1, <3>2 DEF FieldValue
  <2>6. CASE kind \in {"ints", "string", "strings"}
    BY <2>2, <2>3, <2>6 DEF FieldValue
  <2> QED  BY <2>4, <2>5, <2>6 DEF Kinds
<1>3. \A f \in DOMAIN type.fields : Cleared(type)[f] = DefaultOf(type.fields[f])
  BY DEF Cleared
<1> QED  BY <1>1, <1>2, <1>3, ClearedObject DEF MessageOf

\* The elements of SeqOf are sequences.
LEMMA BoundedSeqs ==
    ASSUME NEW S, NEW n \in Nat
    PROVE  SeqOf(S, n) \subseteq Seq(S)
<1> SUFFICES ASSUME NEW s \in SeqOf(S, n) PROVE s \in Seq(S)
  OBVIOUS
<1>1. PICK m \in 0..n : s \in [1..m -> S]
  BY DEF SeqOf
<1> QED  BY <1>1

\* What accessors leave in a field may stand there.
LEMMA ValuesFit ==
    ASSUME NEW kind \in Kinds, NEW v \in Values(kind)
    PROVE  FieldValue(kind, v)
<1>1. SeqOf({0, 1}, MaxAdds) \subseteq Seq({0, 1}) /\ SeqOf(Texts, MaxAdds) \subseteq Seq(Texts)
  BY CallsAssumption, BoundedSeqs
<1>2. CASE kind \in {"int32", "enum"}
  BY <1>2 DEF Values, FieldValue
<1>3. CASE kind = "ints"
  <2>1. v \in Seq({0, 1})
    BY <1>1, <1>3 DEF Values
  <2> QED  BY <1>3, <2>1 DEF FieldValue
<1>4. CASE kind = "strings"
  BY <1>1, <1>4 DEF Values, FieldValue
<1>5. CASE kind = "string"
  BY <1>5 DEF Values, FieldValue
<1>6. CASE kind = "message"
  <2>1. v \in {<<>>, <<0>>, <<1>>}
    BY <1>6 DEF Values
  <2>2. CASE v = <<>>
    <3>1. v \in Seq(Int) /\ Len(v) <= 1
      BY <2>2
    <3> QED  BY <1>6, <3>1 DEF FieldValue
  <2>3. ASSUME NEW i \in Int, v = <<i>>
        PROVE  FieldValue(kind, v)
    <3>1. v \in Seq(Int) /\ Len(v) <= 1
      BY <2>3
    <3> QED  BY <1>6, <3>1 DEF FieldValue
  <2> QED  BY <2>1, <2>2, <2>3
<1> QED  BY <1>2, <1>3, <1>4, <1>5, <1>6 DEF Kinds

\* Setting one more field of messages makes messages.
LEMMA SetField ==
    ASSUME NEW type, TypeShape(type), NEW f \in DOMAIN type.fields,
           NEW ms, \A m \in ms : MessageOf(type, m),
           NEW new \in Setters(type, ms, f)
    PROVE  MessageOf(type, new)
<1>1. PICK m \in ms, v \in Values(type.fields[f]) : new = [m EXCEPT ![f] = v]
  BY DEF Setters
<1>2. FieldValue(type.fields[f], v)
  BY ValuesFit DEF TypeShape
<1>3. MessageOf(type, m)
  OBVIOUS
<1>4. DOMAIN m = DOMAIN type.fields /\ \A g \in DOMAIN m : FieldValue(type.fields[g], m[g])
  BY <1>3 DEF MessageOf, Object
<1>5. \A g \in DOMAIN m : new[g] = IF g = f THEN v ELSE m[g]
  BY <1>1
<1>6. DOMAIN new = DOMAIN m /\ new = [g \in DOMAIN new |-> new[g]]
  BY <1>1
<1> QED  BY <1>2, <1>4, <1>5, <1>6 DEF MessageOf, Object

\* The recursion of the fold in Messages, over the sets of positions in P.
Fillings(type, P, h) ==
    h = [T \in SUBSET P |->
            IF T = {} THEN {Cleared(type)}
            ELSE Setters(type, h[T \ {Max(T)}], type.order[Max(T)])]

\* There are intermediate results of Messages, one for each number of fields.
LEMMA FillingExists ==
    ASSUME NEW type, NEW N \in Nat
    PROVE  \A n \in 0..N : \E h : Fillings(type, 1..n, h)
<1> DEFINE bad == {n \in 0..N : ~\E h : Fillings(type, 1..n, h)}
<1> SUFFICES ASSUME bad # {} PROVE FALSE
  OBVIOUS
<1>1. PICK n \in bad : \A k \in bad : n <= k
  <2>1. bad \in SUBSET Nat
    OBVIOUS
  <2> QED  BY <2>1, LeastNumber
<1>2. n \in 0..N /\ n \in Nat /\ ~\E h : Fillings(type, 1..n, h)
  OBVIOUS
<1>3. CASE n = 0
  <2>1. Fillings(type, 1..0, [T \in SUBSET (1..0) |-> {Cleared(type)}])
    <3>1. \A T \in SUBSET (1..0) : T = {}
      OBVIOUS
    <3> QED  BY <3>1 DEF Fillings
  <2> QED  BY <1>2, <1>3, <2>1
<1>4. CASE n # 0
  <2>1. n - 1 \in 0..N /\ n - 1 \notin bad
    BY <1>1, <1>2, <1>4
  <2>2. PICK h : Fillings(type, 1..(n - 1), h)
    BY <2>1
  <2> HIDE DEF bad
  <2> DEFINE g == [T \in SUBSET (1..n) |->
                     IF n \in T THEN Setters(type, h[T \ {n}], type.order[n]) ELSE h[T]]
             next(f, T) == IF T = {} THEN {Cleared(type)}
                           ELSE Setters(type, f[T \ {Max(T)}], type.order[Max(T)])
  <2>3. \A T \in SUBSET (1..(n - 1)) : h[T] = next(h, T)
    BY <2>2 DEF Fillings
  <2>4. \A T \in SUBSET (1..n) : T \ {n} \in SUBSET (1..(n - 1))
    BY <1>2, <1>4
  <2>5. ASSUME NEW T \in SUBSET (1..n)
        PROVE  g[T] = next(g, T)
    <3>1. CASE n \in T
      <4>1. Max(T) = n
        BY <1>2, <3>1, MaxUpTo
      <4>2. g[T \ {n}] = h[T \ {n}]
        BY <2>4
      <4> QED  BY <3>1, <4>1, <4>2
    <3>2. CASE n \notin T
      <4>1. T \in SUBSET (1..(n - 1))
        BY <2>4, <3>2
      <4>2. h[T] = next(h, T) /\ g[T] = h[T]
        BY <2>3, <3>2, <4>1
      <4>3. g[T \ {Max(T)}] = h[T \ {Max(T)}]
        BY <3>2, <4>1
      <4> QED  BY <4>2, <4>3
    <3> QED  BY <3>1, <3>2
  <2> HIDE DEF g
  <2>6. g = [T \in SUBSET (1..n) |-> g[T]]
    BY DEF g
  <2>7. Fillings(type, 1..n, g)
    BY <2>5, <2>6 DEF Fillings
  <2> QED  BY <1>2, <2>7
<1> QED  BY <1>3, <1>4

\* Whatever the accessors make is a message of the type.
LEMMA MessagesFit ==
    ASSUME NEW type, TypeShape(type)
    PROVE  \A m \in Messages(type) : MessageOf(type, m)
<1> DEFINE N == Len(type.order)
           h == CHOOSE f : Fillings(type, DOMAIN type.order, f)
           fits(k) == \A m \in h[1..k] : MessageOf(type, m)
           bad == {k \in 0..N : ~fits(k)}
<1>0. DOMAIN type.order = 1..N
  BY DEF TypeShape
<1>1. Messages(type) = h[DOMAIN type.order]
  BY Zenon DEF Messages, FoldLeft, MapThenFoldSet, Fillings
<1>2. N \in Nat /\ N \in 0..N
  BY DEF TypeShape
<1>3. Fillings(type, 1..N, h)
  BY <1>0, <1>2, FillingExists
<1> HIDE DEF h
<1>4. \A k \in 1..N : type.order[k] \in DOMAIN type.fields
  BY DEF TypeShape
<1> HIDE DEF N
<1>5. fits(0)
  <2>1. 1..0 = {} /\ {} \in SUBSET (1..N)
    OBVIOUS
  <2>2. h[{}] = {Cleared(type)}
    BY <1>3, <2>1 DEF Fillings
  <2> QED  BY <2>1, <2>2, ClearedMessage
<1>6. ASSUME NEW k \in 1..N, fits(k - 1)
      PROVE  fits(k)
  <2>1. k \in Nat /\ k \in 1..k /\ 1..k \in SUBSET (1..N) /\ 1..k # {}
    BY <1>2
  <2>2. Max(1..k) = k
    BY <2>1, MaxUpTo
  <2>3. (1..k) \ {k} = 1..(k - 1)
    BY <2>1
  <2>4. h[1..k] = Setters(type, h[1..(k - 1)], type.order[k])
    BY <1>3, <2>1, <2>2, <2>3 DEF Fillings
  <2> QED  BY <1>4, <1>6, <2>4, SetField
<1>7. fits(N)
  <2> SUFFICES ASSUME bad # {} PROVE FALSE
    BY <1>2
  <2> HIDE DEF fits
  <2>1. PICK n \in bad : \A j \in bad : n <= j
    <3>1. bad \in SUBSET Nat
      BY <1>2
    <3> QED  BY <3>1, LeastNumber
  <2>2. n \in 0..N /\ ~fits(n)
    OBVIOUS
  <2>3. n # 0
    BY <1>5, <2>2
  <2>4. n \in 1..N /\ n - 1 \in 0..N /\ ~(n <= n - 1)
    BY <1>2, <2>2, <2>3
  <2>5. fits(n - 1)
    BY <2>1, <2>4
  <2> QED  BY <1>6, <2>2, <2>4, <2>5
<1> QED  BY <1>0, <1>1, <1>7

\* MakeMessage makes a message of the social network's type.
LEMMA PostsFit ==
    ASSUME NEW text \in Texts \cup Seq(Bytes)
    PROVE  MessageOf(SNS!Message, Post(text))
<1>1. Object(SNS!Message, Post(text))
  BY DEF Object, SNS!Message, SNS!MessageFields, Post
<1>2. FieldValue("string", <<"letter">>)
  BY DEF FieldValue, Bytes
<1>3. FieldValue("string", text)
  BY DEF FieldValue
<1>4. FieldValue("message", <<1>>)
  <2>1. <<1>> \in Seq(Int) /\ Len(<<1>>) <= 1
    OBVIOUS
  <2> QED  BY <2>1 DEF FieldValue
<1>5. \A f \in DOMAIN SNS!Message.fields : f \in {"username", "msg", "timestamp"}
  BY DEF SNS!Message, SNS!MessageFields
<1>6. /\ SNS!Message.fields["username"] = "string" /\ Post(text).username = <<"letter">>
      /\ SNS!Message.fields["msg"] = "string" /\ Post(text).msg = text
      /\ SNS!Message.fields["timestamp"] = "message" /\ Post(text).timestamp = <<1>>
  BY DEF SNS!Message, SNS!MessageFields, Post
<1> QED  BY <1>1, <1>2, <1>3, <1>4, <1>5, <1>6 DEF MessageOf

-----------------------------------------------------------------------------
(***************************************************************************)
(* What a step does to the messages of a direction.                        *)
(***************************************************************************)
Extends(s, e, t) == t = Append(s, e)

\* What is a sequence over some set is one over its own elements.
LEMMA SequenceFacts ==
    ASSUME NEW S, NEW s \in Seq(S)
    PROVE  IsSequence(s)
<1>1. Len(s) \in Nat /\ \A i \in 1..Len(s) : s[i] \in ToSet(s)
  BY DEF ToSet
<1>2. s = [i \in 1..Len(s) |-> s[i]]
  OBVIOUS
<1> DEFINE R == ToSet(s)
<1> HIDE DEF R
<1>3. s \in Seq(R)
  BY <1>1, <1>2 DEF R
<1> QED  BY <1>3 DEF IsSequence, R

\* What appending one element does.
LEMMA ExtendsFacts ==
    ASSUME NEW s, IsSequence(s), NEW e, NEW t, Extends(s, e, t)
    PROVE  /\ IsSequence(t) /\ Len(s) \in Nat /\ Len(t) = Len(s) + 1
           /\ \A i \in 1..Len(s) : t[i] = s[i]
           /\ t[Len(s) + 1] = e
<1> DEFINE S == ToSet(s) \cup {e}
<1>1. s \in Seq(S)
  BY DEF IsSequence
<1> HIDE DEF S
<1>2. e \in S
  BY DEF S
<1>3. /\ t \in Seq(S) /\ Len(s) \in Nat /\ Len(t) = Len(s) + 1
      /\ \A i \in 1..Len(s) : t[i] = s[i]
      /\ t[Len(s) + 1] = e
  BY <1>1, <1>2 DEF Extends
<1> QED  BY <1>3, SequenceFacts

\* What taking one element off does.
LEMMA TailFacts ==
    ASSUME NEW s, IsSequence(s), s # <<>>
    PROVE  /\ IsSequence(Tail(s)) /\ Len(s) \in Nat \ {0} /\ Len(Tail(s)) = Len(s) - 1
           /\ \A i \in 1..Len(Tail(s)) : Tail(s)[i] = s[i + 1]
           /\ Head(s) = s[1]
<1> DEFINE S == ToSet(s)
           t == Tail(s)
<1>1. s \in Seq(S)
  BY DEF IsSequence
<1> HIDE DEF S
<1>2. /\ t \in Seq(S) /\ Len(s) \in Nat \ {0} /\ Len(t) = Len(s) - 1
      /\ \A i \in 1..Len(t) : t[i] = s[i + 1]
      /\ Head(s) = s[1]
  BY <1>1, HeadTailProperties
<1> HIDE DEF t
<1>3. IsSequence(t)
  BY <1>2, SequenceFacts
<1> QED  BY <1>2, <1>3 DEF t

\* A message that is written joins the end of what is on the wire.
LEMMA CarriedSend ==
    ASSUME NEW type, NEW w, NEW r, NEW x, NEW bad \in BOOLEAN, NEW over,
           Carried(type, w, r, x, bad, over), ~over,
           NEW m, MessageOf(type, m), NEW w2, Extends(w, m, w2),
           NEW x2, Extends(x, Serialize(type, m), x2)
    PROVE  Carried(type, w2, r, x2, bad, over)
<1> DEFINE n == Len(r)
           taken == n + (IF bad THEN 1 ELSE 0)
<1>1. /\ IsSequence(w) /\ IsSequence(r) /\ IsSequence(x)
      /\ taken + Len(x) = Len(w)
      /\ \A i \in 1..Len(w) : MessageOf(type, w[i])
      /\ \A i \in 1..n : r[i] = w[i] /\ ~HasBadText(type, w[i])
      /\ bad => HasBadText(type, w[n + 1])
      /\ \A j \in 1..Len(x) : x[j] = Serialize(type, w[taken + j])
  BY DEF Carried
<1>2. /\ IsSequence(w2) /\ Len(w) \in Nat /\ Len(w2) = Len(w) + 1
      /\ \A i \in 1..Len(w) : w2[i] = w[i]
      /\ w2[Len(w) + 1] = m
  BY <1>1, ExtendsFacts
<1>3. /\ IsSequence(x2) /\ Len(x) \in Nat /\ Len(x2) = Len(x) + 1
      /\ \A i \in 1..Len(x) : x2[i] = x[i]
      /\ x2[Len(x) + 1] = Serialize(type, m)
  BY <1>1, ExtendsFacts
<1>4. n \in Nat /\ taken \in Nat /\ n <= taken /\ (bad => taken = n + 1)
  BY <1>1 DEF IsSequence
<1> HIDE DEF taken, n
<1>5. taken + Len(x2) = Len(w2)
  BY <1>1, <1>2, <1>3, <1>4
<1>6. \A i \in 1..Len(w2) : MessageOf(type, w2[i])
  BY <1>1, <1>2
<1>7. \A i \in 1..n : i \in 1..Len(w)
  BY <1>1, <1>2, <1>3, <1>4
<1>8. \A i \in 1..n : r[i] = w2[i] /\ ~HasBadText(type, w2[i])
  BY <1>1, <1>2, <1>7
<1>9. bad => n + 1 \in 1..Len(w)
  BY <1>1, <1>2, <1>3, <1>4
<1>10. bad => HasBadText(type, w2[n + 1])
  BY <1>1, <1>2, <1>9
<1>11. ASSUME NEW j \in 1..Len(x2)
       PROVE  x2[j] = Serialize(type, w2[taken + j])
  <2>1. CASE j = Len(x) + 1
    <3>1. taken + j = Len(w) + 1
      BY <1>1, <1>2, <1>3, <1>4, <2>1
    <3> QED  BY <1>2, <1>3, <2>1, <3>1
  <2>2. CASE j # Len(x) + 1
    <3>1. j \in 1..Len(x) /\ taken + j \in 1..Len(w)
      BY <1>1, <1>2, <1>3, <1>4, <2>2
    <3> QED  BY <1>1, <1>2, <1>3, <3>1
  <2> QED  BY <2>1, <2>2
<1>12. taken + Len(x2) <= Len(w2)
  BY <1>2, <1>5
<1> QED  BY <1>1, <1>2, <1>3, <1>5, <1>6, <1>8, <1>10, <1>11, <1>12 DEF Carried, n, taken

\* Once the server has refused a request, a message is written in vain.
LEMMA CarriedInVain ==
    ASSUME NEW type, NEW w, NEW r, NEW x, NEW bad \in BOOLEAN, NEW over,
           Carried(type, w, r, x, bad, over), over,
           NEW m, MessageOf(type, m), NEW w2, Extends(w, m, w2)
    PROVE  Carried(type, w2, r, x, bad, over)
<1> DEFINE n == Len(r)
           taken == n + (IF bad THEN 1 ELSE 0)
<1>1. /\ IsSequence(w) /\ IsSequence(r) /\ IsSequence(x)
      /\ taken + Len(x) <= Len(w)
      /\ \A i \in 1..Len(w) : MessageOf(type, w[i])
      /\ \A i \in 1..n : r[i] = w[i] /\ ~HasBadText(type, w[i])
      /\ bad => HasBadText(type, w[n + 1])
      /\ \A j \in 1..Len(x) : x[j] = Serialize(type, w[taken + j])
  BY DEF Carried
<1>2. /\ IsSequence(w2) /\ Len(w) \in Nat /\ Len(w2) = Len(w) + 1
      /\ \A i \in 1..Len(w) : w2[i] = w[i]
      /\ w2[Len(w) + 1] = m
  BY <1>1, ExtendsFacts
<1>3. Len(x) \in Nat /\ n \in Nat /\ taken \in Nat /\ n <= taken /\ (bad => taken = n + 1)
  BY <1>1 DEF IsSequence
<1> HIDE DEF taken, n
<1>4. taken + Len(x) <= Len(w2)
  BY <1>1, <1>2, <1>3
<1>5. \A i \in 1..Len(w2) : MessageOf(type, w2[i])
  BY <1>1, <1>2
<1>6. \A i \in 1..n : i \in 1..Len(w)
  BY <1>1, <1>2, <1>3
<1>7. \A i \in 1..n : r[i] = w2[i] /\ ~HasBadText(type, w2[i])
  BY <1>1, <1>2, <1>6
<1>8. bad => n + 1 \in 1..Len(w)
  BY <1>1, <1>2, <1>3
<1>9. bad => HasBadText(type, w2[n + 1])
  BY <1>1, <1>2, <1>8
<1>10. \A j \in 1..Len(x) : taken + j \in 1..Len(w)
  BY <1>1, <1>2, <1>3
<1>11. \A j \in 1..Len(x) : x[j] = Serialize(type, w2[taken + j])
  BY <1>1, <1>2, <1>10
<1> QED  BY <1>1, <1>2, <1>3, <1>4, <1>5, <1>7, <1>9, <1>11 DEF Carried, n, taken

\* The first message on the wire, and what reading it does.
FirstOnWire(type, w, r, x, bad, over) ==
    LET m == w[Len(r) + 1]
    IN  /\ MessageOf(type, m)
        /\ Head(x) = Serialize(type, m)
        /\ \A r2 : Extends(r, m, r2) /\ ~HasBadText(type, m)
                     => Carried(type, w, r2, Tail(x), bad, over)
        /\ \A b \in BOOLEAN, o \in BOOLEAN :
             b /\ (over => o) /\ HasBadText(type, m) => Carried(type, w, r, Tail(x), b, o)

\* The first message on the wire is the first that was written and not taken, and
\* taking it off leaves the direction in order.
LEMMA CarriedRead ==
    ASSUME NEW type, NEW w, NEW r, NEW x, NEW bad \in BOOLEAN, NEW over,
           Carried(type, w, r, x, bad, over), ~bad, x # <<>>
    PROVE  FirstOnWire(type, w, r, x, bad, over)
<1> DEFINE n == Len(r)
           y == Tail(x)
<1>1. /\ IsSequence(w) /\ IsSequence(r) /\ IsSequence(x)
      /\ n + Len(x) <= Len(w)
      /\ ~over => n + Len(x) = Len(w)
      /\ \A i \in 1..Len(w) : MessageOf(type, w[i])
      /\ \A i \in 1..n : r[i] = w[i] /\ ~HasBadText(type, w[i])
      /\ \A j \in 1..Len(x) : x[j] = Serialize(type, w[n + j])
  <2>1. Len(r) \in Nat /\ Len(r) + 0 = Len(r)
    BY DEF Carried, IsSequence
  <2> QED  BY <2>1 DEF Carried
<1>2. /\ IsSequence(y) /\ Len(x) \in Nat \ {0} /\ Len(y) = Len(x) - 1
      /\ \A i \in 1..Len(y) : y[i] = x[i + 1]
      /\ Head(x) = x[1]
  BY <1>1, TailFacts
<1>3. n \in Nat /\ Len(w) \in Nat
  BY <1>1 DEF IsSequence
<1> HIDE DEF y
<1>4. n + 1 \in 1..Len(w) /\ 1 \in 1..Len(x)
  BY <1>1, <1>2, <1>3
<1>5. MessageOf(type, w[n + 1]) /\ Head(x) = Serialize(type, w[n + 1])
  BY <1>1, <1>2, <1>4
<1>6. /\ (n + 1) + Len(y) <= Len(w)
      /\ ~over => (n + 1) + Len(y) = Len(w)
  <2> HIDE DEF n
  <2>1. (n + 1) + Len(y) = n + Len(x)
    BY <1>2, <1>3
  <2> QED  BY <1>1, <2>1
<1>7. \A j \in 1..Len(y) : y[j] = Serialize(type, w[(n + 1) + j])
  <2>1. \A j \in 1..Len(y) : j + 1 \in 1..Len(x) /\ n + (j + 1) = (n + 1) + j
    BY <1>2, <1>3
  <2> QED  BY <1>1, <1>2, <2>1
<1>8. ASSUME NEW r2, Extends(r, w[n + 1], r2), ~HasBadText(type, w[n + 1])
      PROVE  Carried(type, w, r2, y, bad, over)
  <2>1. /\ IsSequence(r2) /\ Len(r2) = n + 1
        /\ \A i \in 1..n : r2[i] = r[i]
        /\ r2[n + 1] = w[n + 1]
    BY <1>1, <1>8, ExtendsFacts
  <2>2. \A i \in 1..(n + 1) : i \in 1..n \/ i = n + 1
    BY <1>3
  <2>3. \A i \in 1..(n + 1) : r2[i] = w[i] /\ ~HasBadText(type, w[i])
    BY <1>1, <1>8, <2>1, <2>2
  <2>4. (n + 1) + 0 = n + 1
    BY <1>3
  <2> HIDE DEF n
  <2> QED  BY <1>1, <1>2, <1>6, <1>7, <2>1, <2>3, <2>4 DEF Carried
<1>9. ASSUME NEW b \in BOOLEAN, NEW o \in BOOLEAN, b, over => o, HasBadText(type, w[n + 1])
      PROVE  Carried(type, w, r, y, b, o)
  BY <1>1, <1>2, <1>6, <1>7, <1>9 DEF Carried
<1> QED  BY <1>5, <1>8, <1>9 DEF y, FirstOnWire

\* What is read and what is on the wire was all written.
LEMMA CarriedLengths ==
    ASSUME NEW type, NEW w, NEW r, NEW x, NEW bad, NEW over, Carried(type, w, r, x, bad, over)
    PROVE  /\ Len(r) \in Nat /\ Len(x) \in Nat /\ Len(w) \in Nat
           /\ Len(r) + Len(x) <= Len(w) /\ Len(r) <= Len(w)
<1>1. IsSequence(r) /\ IsSequence(x) /\ IsSequence(w)
  BY DEF Carried
<1>2. Len(r) \in Nat /\ Len(x) \in Nat /\ Len(w) \in Nat
  BY <1>1 DEF IsSequence
<1>3. PICK k \in {0, 1} : k = IF bad THEN 1 ELSE 0
  OBVIOUS
<1>4. (Len(r) + k) + Len(x) <= Len(w)
  BY <1>3 DEF Carried
<1> QED  BY <1>2, <1>4

\* The other direction does not notice that a request was refused.
LEMMA CarriedOn ==
    ASSUME NEW type, NEW w, NEW r, NEW x, NEW bad \in BOOLEAN, NEW over, NEW over2,
           Carried(type, w, r, x, bad, over), over => over2
    PROVE  Carried(type, w, r, x, bad, over2)
BY DEF Carried

-----------------------------------------------------------------------------
(***************************************************************************)
(* The terminal.                                                           *)
(***************************************************************************)
EndOfLine == SelectInSeq(stdin, LAMBDA b : b = "newline")

\* What fgets reads goes up to the first end of a line, or the buffer is full.
LEMMA EndOfLineFacts ==
    ASSUME stdin \in Seq(Bytes)
    PROVE  \/ EndOfLine = 0 /\ \A i \in 1..Len(stdin) : stdin[i] # "newline"
           \/ /\ EndOfLine \in 1..Len(stdin) /\ stdin[EndOfLine] = "newline"
              /\ \A i \in 1..Len(stdin) : i < EndOfLine => stdin[i] # "newline"
<1> DEFINE I == {i \in 1..Len(stdin) : stdin[i] = "newline"}
<1>1. EndOfLine = IF I # {} THEN Min(I) ELSE 0
  BY DEF EndOfLine, SelectInSeq
<1>2. CASE I = {}
  BY <1>1, <1>2
<1>3. CASE I # {}
  <2>1. I \in SUBSET Nat
    OBVIOUS
  <2>2. \E x \in I : \A y \in I : x <= y
    <3> HIDE DEF I
    <3> QED  BY <1>3, <2>1, LeastNumber
  <2>3. Min(I) \in I /\ \A y \in I : Min(I) <= y
    BY <2>2 DEF Min
  <2>4. EndOfLine \in I /\ \A y \in I : EndOfLine <= y
    BY <1>1, <1>3, <2>3
  <2>5. \A i \in 1..Len(stdin) : i < EndOfLine => ~(EndOfLine <= i)
    BY <2>4
  <2> QED  BY <2>4, <2>5
<1> QED  BY <1>2, <1>3

\* The number of bytes that fgets reads.
ReadBytes == IF EndOfLine < MAX_DATA THEN EndOfLine ELSE MAX_DATA - 1

\* fgets takes the first bytes of the input and leaves the others.
LEMMA FgetsFacts ==
    ASSUME stdin \in Seq(Bytes)
    PROVE  /\ ReadBytes \in 0..Len(stdin) /\ Len(stdin) \in Nat
           /\ Fgets = SubSeq(stdin, 1, ReadBytes) /\ Fgets \in Seq(Bytes)
           /\ Len(Fgets) = ReadBytes
           /\ Rest = SubSeq(stdin, ReadBytes + 1, Len(stdin)) /\ Rest \in Seq(Bytes)
<1>1. Len(stdin) \in Nat /\ EndOfLine \in 0..Len(stdin)
  BY EndOfLineFacts
<1>2. ReadBytes \in 0..Len(stdin)
  BY <1>1, CallsAssumption DEF ReadBytes
<1>3. Fgets = SubSeq(stdin, 1, ReadBytes)
  BY DEF Fgets, ReadBytes, EndOfLine
<1>4. /\ SubSeq(stdin, 1, ReadBytes) \in Seq(Bytes)
      /\ Len(SubSeq(stdin, 1, ReadBytes)) = ReadBytes
  BY <1>1, <1>2, SubSeqProperties
<1>5. Rest = SubSeq(stdin, ReadBytes + 1, Len(stdin))
  BY <1>3, <1>4 DEF Rest
<1>6. SubSeq(stdin, ReadBytes + 1, Len(stdin)) \in Seq(Bytes)
  BY <1>1, <1>2, SubSeqProperties
<1> QED  BY <1>1, <1>2, <1>3, <1>4, <1>5, <1>6

-----------------------------------------------------------------------------
(***************************************************************************)
(* The invariant.                                                          *)
(***************************************************************************)
LEMMA CallsInit == MessageCallsInit => CallsInvariant
<1> SUFFICES ASSUME MessageCallsInit PROVE CallsInvariant
  OBVIOUS
<1>1. CallInv
  BY DEF MessageCallsInit, CallInv
<1>2. TerminalInv
  <2>1. <<>> \in Seq(Lines) /\ Len(<<>>) = 0 /\ <<>> \in Seq(Bytes)
    OBVIOUS
  <2>2. lines = <<>> /\ stdin = <<>> /\ ended = FALSE
    BY DEF MessageCallsInit
  <2>3. lines \in Seq(Lines) /\ Len(lines) = 0 /\ stdin \in Seq(Bytes) /\ ended \in BOOLEAN
    BY <2>1, <2>2
  <2> QED  BY <2>3, CallsAssumption DEF TerminalInv
<1>3. ObjectsInv
  <2>1. \A d \in Directions : target[d] = Cleared(Type(d))
    BY DEF MessageCallsInit
  <2> QED  BY <2>1, ClearedObject DEF ObjectsInv
<1>4. CarriedInv
  <2> SUFFICES ASSUME NEW d \in Directions
               PROVE  Carried(Type(d), written[d], received[d], wire[d],
                              refused[d], refused["request"])
    BY DEF CarriedInv
  <2>1. /\ written[d] = <<>> /\ received[d] = <<>> /\ wire[d] = <<>>
        /\ refused[d] = FALSE /\ refused["request"] = FALSE
    BY DEF MessageCallsInit, Directions
  <2>2. PICK e : e = <<>>
    OBVIOUS
  <2>3. Len(e) = 0 /\ IsSequence(e)
    <3>1. e \in Seq({})
      BY <2>2
    <3> QED  BY <2>2, <3>1, SequenceFacts
  <2>4. Carried(Type(d), e, e, e, FALSE, FALSE)
    BY <2>3 DEF Carried
  <2> QED  BY <2>1, <2>2, <2>4
<1> QED  BY <1>1, <1>2, <1>3, <1>4 DEF CallsInvariant

\* A step that sends a message.
LEMMA SendStep ==
    ASSUME CallsInvariant, NEW d \in Directions, NEW m, MessageOf(Type(d), m), Send(d, m),
           UNCHANGED <<call, target, refused, received>>
    PROVE  CallInv' /\ ObjectsInv' /\ CarriedInv'
<1> USE DEF call
<1>1. \A e \in Directions : Type(e)' = Type(e)
  BY DEF Type
<1>2. CallInv'
  BY DEF CallsInvariant, CallInv, Send
<1>3. ObjectsInv'
  BY <1>1 DEF CallsInvariant, ObjectsInv
<1>4. CarriedInv'
  <2> SUFFICES ASSUME NEW e \in Directions
               PROVE  Carried(Type(e)', written'[e], received'[e], wire'[e],
                              refused'[e], refused'["request"])
    BY DEF CarriedInv
  <2>1. Carried(Type(e), written[e], received[e], wire[e], refused[e], refused["request"])
        /\ refused[e] \in BOOLEAN /\ DOMAIN written = Directions /\ DOMAIN wire = Directions
    BY DEF CallsInvariant, CarriedInv, CallInv
  <2>2. Type(e)' = Type(e)
    BY <1>1
  <2>3. CASE e # d
    <3>1. written'[e] = written[e] /\ wire'[e] = wire[e]
      BY <2>1, <2>3 DEF Send
    <3> QED  BY <2>1, <2>2, <3>1
  <2>4. CASE e = d
    <3>1. Extends(written[e], m, written'[e])
      BY <2>1, <2>4 DEF Send, Extends
    <3>2. CASE refused["request"]
      <4>1. wire'[e] = wire[e]
        BY <3>2 DEF Send
      <4>2. Carried(Type(e), written'[e], received[e], wire[e], refused[e], refused["request"])
        BY <2>1, <2>4, <3>1, <3>2, CarriedInVain
      <4> QED  BY <2>2, <4>1, <4>2
    <3>3. CASE ~refused["request"]
      <4>1. Extends(wire[e], Serialize(Type(e), m), wire'[e])
        BY <2>1, <2>4, <3>3 DEF Send, Extends
      <4>2. Carried(Type(e), written'[e], received[e], wire'[e], refused[e], refused["request"])
        BY <2>1, <2>4, <3>1, <3>3, <4>1, CarriedSend
      <4> QED  BY <2>2, <4>2
    <3> QED  BY <3>2, <3>3
  <2> QED  BY <2>3, <2>4
<1> QED  BY <1>2, <1>3, <1>4

\* A step of the terminal alone.
LEMMA CallUnchanged ==
    ASSUME CallsInvariant, UNCHANGED <<call, wire, target, refused, written, received>>
    PROVE  CallInv' /\ ObjectsInv' /\ CarriedInv'
BY DEF CallsInvariant, CallInv, ObjectsInv, CarriedInv, call, Type

\* A step that reads a message, and whether it accepts it.
LEMMA ReadStep ==
    ASSUME CallsInvariant, NEW d \in Directions, Read(d)
    PROVE  CallsInvariant'
<1> DEFINE n == Len(received[d])
           m == written[d][n + 1]
           p == Parse(Type(d), Clear(Type(d), target[d]), Head(wire[d]))
<1>1. /\ CallInv /\ TypeShape(Type(d)) /\ Object(Type(d), target[d])
      /\ Carried(Type(d), written[d], received[d], wire[d], refused[d], refused["request"])
      /\ refused[d] \in BOOLEAN /\ refused["request"] \in BOOLEAN
  <2>1. CallInv /\ "request" \in Directions
    BY DEF CallsInvariant, Directions
  <2>2. TypeShape(Type(d))
    BY <2>1, TypesShaped DEF CallInv
  <2> QED  BY <2>1, <2>2 DEF CallsInvariant, CallInv, ObjectsInv, CarriedInv
<1>2. /\ MessageOf(Type(d), m) /\ Head(wire[d]) = Serialize(Type(d), m)
      /\ \A r2 : Extends(received[d], m, r2) /\ ~HasBadText(Type(d), m)
                   => Carried(Type(d), written[d], r2, Tail(wire[d]), refused[d],
                              refused["request"])
      /\ \A b \in BOOLEAN, o \in BOOLEAN :
           b /\ (refused["request"] => o) /\ HasBadText(Type(d), m)
             => Carried(Type(d), written[d], received[d], Tail(wire[d]), b, o)
  <2>1. wire[d] # <<>> /\ ~refused[d]
    BY DEF Read
  <2>2. FirstOnWire(Type(d), written[d], received[d], wire[d], refused[d], refused["request"])
    BY <1>1, <2>1, CarriedRead
  <2> QED  BY <2>2 DEF FirstOnWire
<1>3. p = Parse(Type(d), Cleared(Type(d)), Serialize(Type(d), m))
  BY <1>1, <1>2, ClearedObject
<1>4. /\ p.ok \in BOOLEAN /\ (p.ok <=> ~HasBadText(Type(d), m))
      /\ (p.ok => p.message = m) /\ Object(Type(d), p.message)
  BY <1>1, <1>2, <1>3, RoundTrip
<1> HIDE DEF p, m
<1>5. /\ target' = [target EXCEPT ![d] = p.message]
      /\ p.ok => /\ received' = [received EXCEPT ![d] = Append(@, p.message)]
                 /\ refused' = refused
      /\ ~p.ok => /\ refused' = [refused EXCEPT ![d] = TRUE]
                  /\ received' = received
      /\ wire' = [wire EXCEPT ![d] = Tail(@)]
      /\ UNCHANGED <<service, method, written, terminal>>
  BY DEF Read, p, call
<1>6. \A e \in Directions : Type(e)' = Type(e)
  BY <1>5 DEF Type
<1>7. CallInv'
  <2>1. CASE p.ok
    BY <1>1, <1>5, <2>1 DEF CallInv
  <2>2. CASE ~p.ok
    BY <1>1, <1>5, <2>2 DEF CallInv
  <2> QED  BY <2>1, <2>2
<1>8. ObjectsInv'
  <2> SUFFICES ASSUME NEW e \in Directions
               PROVE  Object(Type(e)', target'[e])
    BY DEF ObjectsInv
  <2>1. Object(Type(e), target[e]) /\ DOMAIN target = Directions
    BY DEF CallsInvariant, ObjectsInv, CallInv
  <2>2. target'[e] = IF e = d THEN p.message ELSE target[e]
    BY <1>5, <2>1
  <2> QED  BY <1>4, <1>6, <2>1, <2>2
<1>9. CarriedInv'
  <2> SUFFICES ASSUME NEW e \in Directions
               PROVE  Carried(Type(e)', written'[e], received'[e], wire'[e],
                              refused'[e], refused'["request"])
    BY DEF CarriedInv
  <2>1. Type(e)' = Type(e) /\ written'[e] = written[e]
    BY <1>5, <1>6
  <2>2. /\ Carried(Type(e), written[e], received[e], wire[e], refused[e], refused["request"])
        /\ refused[e] \in BOOLEAN /\ DOMAIN received = Directions /\ DOMAIN wire = Directions
        /\ DOMAIN refused = Directions /\ "request" \in Directions
    BY DEF CallsInvariant, CarriedInv, CallInv, Directions
  <2>3. CASE e # d
    <3>1. received'[e] = received[e] /\ wire'[e] = wire[e] /\ refused'[e] = refused[e]
      BY <1>4, <1>5, <2>2, <2>3
    <3>2. refused["request"] => refused'["request"]
      BY <1>4, <1>5, <2>2
    <3>3. Carried(Type(e), written[e], received[e], wire[e], refused[e], refused'["request"])
      BY <2>2, <3>2, CarriedOn
    <3> QED  BY <2>1, <3>1, <3>3
  <2>4. CASE e = d /\ p.ok
    <3>1. /\ Extends(received[d], m, received'[d]) /\ wire'[d] = Tail(wire[d])
          /\ refused' = refused
      BY <1>4, <1>5, <2>2, <2>4 DEF Extends
    <3>2. ~HasBadText(Type(d), m)
      BY <1>4, <2>4
    <3>3. Carried(Type(d), written[d], received'[d], Tail(wire[d]), refused[d],
                  refused["request"])
      BY <1>2, <3>1, <3>2
    <3> QED  BY <2>1, <2>4, <3>1, <3>3
  <2>5. CASE e = d /\ ~p.ok
    <3>1. /\ received' = received /\ wire'[d] = Tail(wire[d]) /\ refused'[d] = TRUE
          /\ refused'["request"] \in BOOLEAN /\ (refused["request"] => refused'["request"])
      BY <1>1, <1>5, <2>2, <2>5
    <3>2. HasBadText(Type(d), m)
      BY <1>4, <2>5
    <3>3. Carried(Type(d), written[d], received[d], Tail(wire[d]), TRUE, refused'["request"])
      BY <1>2, <3>1, <3>2
    <3> QED  BY <2>1, <2>5, <3>1, <3>3
  <2> QED  BY <2>3, <2>4, <2>5
<1>10. TerminalInv'
  BY <1>5 DEF CallsInvariant, TerminalInv, terminal
<1> QED  BY <1>7, <1>8, <1>9, <1>10 DEF CallsInvariant

\* The invariant is inductive: one step for each action.
LEMMA CallsStep == CallsInvariant /\ [MessageCallsNext]_vars => CallsInvariant'
<1> SUFFICES ASSUME CallsInvariant, [MessageCallsNext]_vars PROVE CallsInvariant'
  OBVIOUS
<1>1. /\ CallInv /\ stdin \in Seq(Bytes) /\ lines \in Seq(Lines) /\ Len(lines) <= MaxLines
      /\ ended \in BOOLEAN
  BY DEF CallsInvariant, TerminalInv
<1>2. Posting => "request" \in Directions /\ Type("request") = SNS!Message
  BY DEF Posting, Type, Directions, Handlers, SNS!SNSService
<1>3. \A v : (v = stdin \/ v = Rest) /\ stdin' = v /\ lines' = lines /\ ended' = ended
               => TerminalInv'
  BY <1>1, FgetsFacts DEF TerminalInv
<1>4. ASSUME NEW d \in Directions, Write(d)
      PROVE  CallsInvariant'
  <2>1. PICK m \in Messages(Type(d)) : Send(d, m)
    BY <1>4 DEF Write
  <2>2. MessageOf(Type(d), m)
    <3>1. TypeShape(Type(d))
      BY <1>1, TypesShaped DEF CallInv
    <3> QED  BY <2>1, <3>1, MessagesFit
  <2>3. UNCHANGED <<call, target, refused, received>> /\ UNCHANGED terminal
    BY <1>4 DEF Write
  <2>4. CallInv' /\ ObjectsInv' /\ CarriedInv'
    BY <2>1, <2>2, <2>3, SendStep
  <2> QED  BY <1>3, <2>3, <2>4 DEF CallsInvariant, terminal
<1>5. ASSUME NEW d \in Directions, Read(d)
      PROVE  CallsInvariant'
  BY <1>5, ReadStep
<1>6. CASE TypeLine
  <2>1. PICK line \in Lines : lines' = Append(lines, line) /\ stdin' = stdin \o line
    BY <1>6 DEF TypeLine
  <2>2. /\ UNCHANGED <<call, wire, target, refused, written, received>> /\ ended' = ended
        /\ Len(lines) < MaxLines
    BY <1>6 DEF TypeLine
  <2>3. lines' \in Seq(Lines) /\ Len(lines') <= MaxLines
    BY <1>1, <2>1, <2>2, CallsAssumption
  <2>4. stdin' \in Seq(Bytes)
    BY <1>1, <2>1, CallsAssumption, ConcatProperties
  <2>5. TerminalInv'
    BY <1>1, <2>2, <2>3, <2>4 DEF TerminalInv
  <2> QED  BY <2>2, <2>5, CallUnchanged DEF CallsInvariant
<1>7. CASE EndInput
  <2>1. UNCHANGED <<call, wire, target, refused, written, received>>
    BY <1>7 DEF EndInput
  <2>2. TerminalInv'
    BY <1>1, <1>7 DEF EndInput, TerminalInv
  <2> QED  BY <2>1, <2>2, CallUnchanged DEF CallsInvariant
<1>8. CASE OpenTimeline
  <2>1. SetStream \in Seq(Bytes)
    BY DEF SetStream, Bytes
  <2>2. MessageOf(SNS!Message, Post(SetStream))
    BY <2>1, PostsFit
  <2>3. /\ Send("request", Post(SetStream)) /\ Posting
        /\ UNCHANGED <<call, target, refused, received>> /\ UNCHANGED terminal
    BY <1>8 DEF OpenTimeline
  <2>4. CallInv' /\ ObjectsInv' /\ CarriedInv'
    BY <1>2, <2>2, <2>3, SendStep
  <2> QED  BY <1>3, <2>3, <2>4 DEF CallsInvariant, terminal
<1>9. CASE WritePost
  <2>1. TerminalInv'
    BY <1>3, <1>9 DEF WritePost
  <2>2. /\ Posting /\ UNCHANGED <<call, target, refused, received>>
        /\ \/ UNCHANGED <<written, wire>>
           \/ Send("request", Post(Fgets))
    BY <1>9 DEF WritePost
  <2>3. CASE UNCHANGED <<written, wire>>
    BY <2>1, <2>2, <2>3, CallUnchanged DEF CallsInvariant
  <2>4. CASE Send("request", Post(Fgets))
    <3>1. MessageOf(SNS!Message, Post(Fgets))
      BY <1>1, FgetsFacts, PostsFit
    <3>2. CallInv' /\ ObjectsInv' /\ CarriedInv'
      BY <1>2, <2>2, <2>4, <3>1, SendStep
    <3> QED  BY <2>1, <3>2 DEF CallsInvariant
  <2> QED  BY <2>2, <2>3, <2>4
<1>10. CASE WriteGarbage
  <2>1. PICK text \in Texts : Send("request", Post(text))
    BY <1>10 DEF WriteGarbage
  <2>2. /\ Posting /\ UNCHANGED <<call, target, refused, received>> /\ UNCHANGED terminal
    BY <1>10 DEF WriteGarbage
  <2>3. MessageOf(SNS!Message, Post(text))
    BY PostsFit
  <2>4. CallInv' /\ ObjectsInv' /\ CarriedInv'
    BY <1>2, <2>1, <2>2, <2>3, SendStep
  <2> QED  BY <1>3, <2>2, <2>4 DEF CallsInvariant, terminal
<1>11. CASE UNCHANGED vars
  <2>1. UNCHANGED <<call, wire, target, refused, written, received>> /\ UNCHANGED terminal
    BY <1>11 DEF vars
  <2> QED  BY <1>3, <2>1, CallUnchanged DEF CallsInvariant, terminal
<1> QED  BY <1>4, <1>5, <1>6, <1>7, <1>8, <1>9, <1>10, <1>11 DEF MessageCallsNext

(***************************************************************************)
(* The invariant holds in every state of every call.                       *)
(***************************************************************************)
THEOREM CallsCorrect == MessageCallsSpec => []CallsInvariant
<1> QED  BY CallsInit, CallsStep, PTL DEF MessageCallsSpec

(***************************************************************************)
(* An object that is read into keeps the fields of its type, and nothing   *)
(* arrives that was not written.                                           *)
(***************************************************************************)
THEOREM CallsTyped == MessageCallsSpec => []CallsTypeOK
<1>1. ASSUME CallsInvariant PROVE CallsTypeOK
  <2>1. \A d \in Directions : /\ DOMAIN target[d] = DOMAIN Type(d).fields
                              /\ Len(received[d]) + Len(wire[d]) <= Len(written[d])
    <3> SUFFICES ASSUME NEW d \in Directions
                 PROVE  /\ DOMAIN target[d] = DOMAIN Type(d).fields
                        /\ Len(received[d]) + Len(wire[d]) <= Len(written[d])
      OBVIOUS
    <3>1. DOMAIN target[d] = DOMAIN Type(d).fields
      BY <1>1 DEF CallsInvariant, ObjectsInv, Object
    <3>2. Carried(Type(d), written[d], received[d], wire[d], refused[d], refused["request"])
      BY <1>1 DEF CallsInvariant, CarriedInv
    <3> QED  BY <3>1, <3>2, CarriedLengths
  <2>2. \A i \in DOMAIN stdin : stdin[i] \in Bytes
    BY <1>1 DEF CallsInvariant, TerminalInv
  <2> QED  BY <1>1, <2>1, <2>2 DEF CallsInvariant, CallInv, TerminalInv, CallsTypeOK
<1> QED  BY <1>1, CallsCorrect, PTL

(***************************************************************************)
(* Whatever is read is what was written, in order (coord.cc:102,           *)
(* tsd.cc:255, tsc.cc:373), for every message that accessors can make.     *)
(***************************************************************************)
THEOREM ReadsExact == MessageCallsSpec => []ReadsAreExact
<1>1. ASSUME CallsInvariant PROVE ReadsAreExact
  <2> SUFFICES ASSUME NEW d \in Directions
               PROVE  IsPrefix(received[d], written[d])
    BY DEF ReadsAreExact
  <2> DEFINE r == received[d]
             w == written[d]
  <2>1. Carried(Type(d), w, r, wire[d], refused[d], refused["request"])
    BY <1>1 DEF CallsInvariant, CarriedInv
  <2> HIDE DEF r, w
  <2>2. IsSequence(r) /\ IsSequence(w) /\ \A i \in 1..Len(r) : r[i] = w[i]
    BY <2>1 DEF Carried
  <2>3. Len(r) \in Nat /\ Len(w) \in Nat /\ Len(r) <= Len(w)
    BY <2>1, CarriedLengths
  <2>4. SubSeq(r, 1, Len(r)) = SubSeq(w, 1, Len(r))
    BY <2>2, <2>3 DEF IsSequence
  <2> QED  BY <2>3, <2>4 DEF IsPrefix, r, w
<1> QED  BY <1>1, CallsCorrect, PTL

(***************************************************************************)
(* A message is refused only if one of its texts is not UTF-8              *)
(* (sns.pb.cc:922), and no such text gets into a server.                   *)
(***************************************************************************)
THEOREM RefusalsJust == MessageCallsSpec => []OnlyBadTextIsRefused
<1>1. ASSUME CallsInvariant PROVE OnlyBadTextIsRefused
  <2> SUFFICES ASSUME NEW d \in Directions
               PROVE  LET n == Len(received[d])
                      IN  /\ \A i \in 1..n : ~HasBadText(Type(d), received[d][i])
                          /\ refused[d] => HasBadText(Type(d), written[d][n + 1])
    BY DEF OnlyBadTextIsRefused
  <2>1. Carried(Type(d), written[d], received[d], wire[d], refused[d], refused["request"])
    BY <1>1 DEF CallsInvariant, CarriedInv
  <2> QED  BY <2>1 DEF Carried
<1> QED  BY <1>1, CallsCorrect, PTL

-----------------------------------------------------------------------------
(***************************************************************************)
(* Sequences that are joined, and what is kept of them.                    *)
(***************************************************************************)
\* The joins of the first sequences, none of them to begin with.
Joined(S, seqs, h) ==
    /\ h[0] = <<>> /\ h[Len(seqs)] = FlattenSeq(seqs)
    /\ \A i \in 0..Len(seqs) : h[i] \in Seq(S)
    /\ \A i \in 1..Len(seqs) : h[i] = h[i - 1] \o seqs[i]

\* There are joins of the first n of some sequences over S, for each n.
LEMMA JoinedExists ==
    ASSUME NEW S, NEW seqs \in Seq(Seq(S))
    PROVE  \E h : Joined(S, seqs, h)
<1> DEFINE N == Len(seqs)
<1>1. N \in Nat /\ \A i \in 1..N : seqs[i] \in Seq(S)
  OBVIOUS
<1>2. CASE N = 0
  <2>1. FlattenSeq(seqs) = <<>>
    <3>1. FlattenSeq(seqs) = seqs
      BY <1>2, Zenon DEF FlattenSeq
    <3> QED  BY <1>2, <3>1
  <2>2. PICK e : e = <<>>
    OBVIOUS
  <2>3. e \in Seq(S)
    BY <2>2
  <2>4. Joined(S, seqs, [i \in {0} |-> e])
    BY <1>2, <2>1, <2>2, <2>3 DEF Joined
  <2> QED  BY <2>4
<1>3. CASE N # 0
  <2>1. PICK g : Joins(seqs, N, g) /\ FlattenSeq(seqs) = g[N]
    BY <1>1, <1>3, FlattenJoins
  <2> DEFINE h == [i \in 0..N |-> IF i = 0 THEN <<>> ELSE g[i]]
             bad == {i \in 0..N : h[i] \notin Seq(S)}
  <2>2. h[0] = <<>> /\ h[N] = FlattenSeq(seqs)
    BY <1>1, <1>3, <2>1
  <2>3. ASSUME NEW i \in 1..N
        PROVE  g[i] = IF i = 1 THEN seqs[i] ELSE g[i - 1] \o seqs[i]
    BY <2>1 DEF Joins
  <2>4. ASSUME NEW i \in 1..N
        PROVE  h[i] = h[i - 1] \o seqs[i]
    <3>1. i - 1 \in 0..N /\ i \in 0..N /\ i # 0
      BY <1>1
    <3>2. CASE i = 1
      <4>1. h[i] = seqs[i] /\ h[i - 1] = <<>>
        BY <2>3, <3>1, <3>2
      <4>2. <<>> \o seqs[i] = seqs[i]
        BY <1>1, ConcatEmptySeq
      <4> QED  BY <4>1, <4>2
    <3>3. CASE i # 1
      <4>1. h[i] = g[i] /\ h[i - 1] = g[i - 1]
        BY <3>1, <3>3
      <4> QED  BY <2>3, <3>3, <4>1
    <3> QED  BY <3>2, <3>3
  <2> HIDE DEF h
  <2>5. \A i \in 0..N : h[i] \in Seq(S)
    <3> SUFFICES ASSUME bad # {} PROVE FALSE
      OBVIOUS
    <3>1. PICK i \in bad : \A j \in bad : i <= j
      <4>1. bad \in SUBSET Nat
        BY <1>1
      <4> QED  BY <4>1, LeastNumber
    <3>2. <<>> \in Seq(S)
      OBVIOUS
    <3>3. i \in 0..N /\ h[i] \notin Seq(S) /\ i # 0
      BY <2>2, <3>2
    <3>4. i \in 1..N /\ i - 1 \in 0..N /\ i - 1 \notin bad
      BY <1>1, <3>1, <3>3
    <3>5. h[i - 1] \in Seq(S) /\ seqs[i] \in Seq(S)
      BY <1>1, <3>4
    <3>6. h[i - 1] \o seqs[i] \in Seq(S)
      BY <3>5, ConcatProperties
    <3>7. h[i] = h[i - 1] \o seqs[i]
      BY <2>4, <3>4
    <3> QED  BY <3>3, <3>6, <3>7
  <2>6. Joined(S, seqs, h)
    BY <2>2, <2>4, <2>5 DEF Joined
  <2> QED  BY <2>6
<1> QED  BY <1>2, <1>3

\* Joined sequences over a set are one over it.
LEMMA FlattenType ==
    ASSUME NEW S, NEW seqs \in Seq(Seq(S))
    PROVE  FlattenSeq(seqs) \in Seq(S)
<1>1. PICK h : Joined(S, seqs, h)
  BY JoinedExists
<1>2. Len(seqs) \in 0..Len(seqs)
  OBVIOUS
<1> QED  BY <1>1, <1>2 DEF Joined

\* Three sequences joined in either order.
Associates(p, q, r) == (p \o q) \o r = p \o (q \o r)

\* Concatenation is associative.
LEMMA ConcatAssociates ==
    ASSUME NEW S, NEW p \in Seq(S), NEW q \in Seq(S), NEW r \in Seq(S)
    PROVE  Associates(p, q, r)
BY SMTT(30), ConcatAssociative DEF Associates

\* Joining two parts of a sequence of sequences joins their joins.
LEMMA FlattenConcat ==
    ASSUME NEW S, NEW s \in Seq(Seq(S)), NEW t \in Seq(Seq(S))
    PROVE  FlattenSeq(s \o t) = FlattenSeq(s) \o FlattenSeq(t)
<1> DEFINE r == s \o t
<1>0. PICK m \in Nat, n \in Nat : m = Len(s) /\ n = Len(t)
  OBVIOUS
<1>1. /\ r \in Seq(Seq(S)) /\ Len(r) = m + n
      /\ \A i \in 1..m : r[i] = s[i]
      /\ \A j \in 1..n : r[m + j] = t[j]
  <2>1. /\ s \o t \in Seq(Seq(S)) /\ Len(s \o t) = Len(s) + Len(t)
        /\ \A i \in 1..(Len(s) + Len(t)) :
             (s \o t)[i] = IF i <= Len(s) THEN s[i] ELSE t[i - Len(s)]
    BY ConcatProperties
  <2>2. \A j \in 1..n : m + j \in 1..(m + n) /\ ~(m + j <= m) /\ (m + j) - m = j
    OBVIOUS
  <2>3. \A i \in 1..m : i \in 1..(m + n) /\ i <= m
    OBVIOUS
  <2> HIDE DEF r
  <2> QED  BY <1>0, <2>1, <2>2, <2>3 DEF r
<1> HIDE DEF r
<1>2. PICK g : Joined(S, r, g)
  BY <1>1, JoinedExists
<1>3. PICK h : Joined(S, s, h)
  BY JoinedExists
<1>4. PICK k : Joined(S, t, k)
  BY JoinedExists
<1>5. /\ g[0] = <<>> /\ g[m + n] = FlattenSeq(r)
      /\ \A i \in 1..(m + n) : g[i] = g[i - 1] \o r[i]
  BY <1>1, <1>2 DEF Joined
<1>6. /\ h[0] = <<>> /\ h[m] = FlattenSeq(s)
      /\ \A i \in 1..m : h[i] = h[i - 1] \o s[i]
      /\ h[m] \in Seq(S)
  <2>1. m \in 0..m
    OBVIOUS
  <2> QED  BY <1>0, <1>3, <2>1 DEF Joined
<1>7. /\ k[0] = <<>> /\ k[n] = FlattenSeq(t)
      /\ \A i \in 1..n : k[i] = k[i - 1] \o t[i] /\ t[i] \in Seq(S)
      /\ \A i \in 0..n : k[i] \in Seq(S)
  <2>1. \A i \in 1..n : t[i] \in Seq(S)
    BY <1>0
  <2> QED  BY <1>0, <1>4, <2>1 DEF Joined
<1>8. g[m] = h[m]
  <2> DEFINE bad == {i \in 0..m : g[i] # h[i]}
  <2> SUFFICES ASSUME bad # {} PROVE FALSE
    <3>1. m \in 0..m
      OBVIOUS
    <3> QED  BY <3>1
  <2>1. PICK i \in bad : \A j \in bad : i <= j
    <3>1. bad \in SUBSET Nat
      OBVIOUS
    <3> QED  BY <3>1, LeastNumber
  <2>2. i \in 0..m /\ g[i] # h[i] /\ i # 0
    BY <1>5, <1>6
  <2>3. i \in 1..m /\ i \in 1..(m + n) /\ i - 1 \in 0..m /\ i - 1 \notin bad
    BY <2>1, <2>2
  <2>4. g[i - 1] = h[i - 1]
    BY <2>3
  <2> QED  BY <1>1, <1>5, <1>6, <2>2, <2>3, <2>4
<1>9. g[m + n] = h[m] \o k[n]
  <2> DEFINE joined(j) == g[m + j] = h[m] \o k[j]
             bad == {j \in 0..n : ~joined(j)}
  <2> SUFFICES ASSUME bad # {} PROVE FALSE
    <3>1. n \in 0..n
      OBVIOUS
    <3> QED  BY <3>1
  <2> HIDE DEF joined
  <2>1. PICK j \in bad : \A i \in bad : j <= i
    <3>1. bad \in SUBSET Nat
      OBVIOUS
    <3> QED  BY <3>1, LeastNumber
  <2>2. j \in 0..n /\ ~joined(j)
    OBVIOUS
  <2>3. j # 0
    <3>1. m + 0 = m /\ h[m] \o <<>> = h[m]
      BY <1>6, ConcatEmptySeq
    <3> QED  BY <1>7, <1>8, <2>2, <3>1 DEF joined
  <2>4. /\ j \in 1..n /\ j - 1 \in 0..n /\ j - 1 \notin bad
        /\ m + j \in 1..(m + n) /\ (m + j) - 1 = m + (j - 1)
    BY <2>1, <2>2, <2>3
  <2>5. joined(j - 1)
    BY <2>4
  <2>6. g[m + j] = g[m + (j - 1)] \o t[j]
    BY <1>1, <1>5, <2>4
  <2>7. PICK p \in Seq(S), q \in Seq(S), u \in Seq(S) : p = h[m] /\ q = k[j - 1] /\ u = t[j]
    BY <1>6, <1>7, <2>4
  <2>8. k[j] = q \o u
    BY <1>7, <2>4, <2>7
  <2>9. g[m + j] = (p \o q) \o u
    BY <2>5, <2>6, <2>7 DEF joined
  <2>10. (p \o q) \o u = p \o (q \o u)
    <3>1. Associates(p, q, u)
      BY <2>7, ConcatAssociates
    <3> QED  BY <3>1 DEF Associates
  <2>11. g[m + j] = p \o k[j]
    BY <2>8, <2>9, <2>10
  <2> QED  BY <2>2, <2>7, <2>11 DEF joined
<1> QED  BY <1>0, <1>5, <1>6, <1>7, <1>9 DEF r

\* Joining one sequence.
LEMMA FlattenOne ==
    ASSUME NEW S, NEW s \in Seq(S)
    PROVE  FlattenSeq(<<s>>) = s
<1>1. PICK t : t = <<s>>
  OBVIOUS
<1>2. t \in Seq(Seq(S)) /\ Len(t) = 1 /\ t[1] = s
  BY <1>1
<1>3. PICK h : Joined(S, t, h)
  BY <1>2, JoinedExists
<1>4. 1 \in 1..1 /\ 1 - 1 = 0
  OBVIOUS
<1>5. h[0] = <<>> /\ h[1] = FlattenSeq(t) /\ h[1] = h[0] \o t[1]
  BY <1>2, <1>3, <1>4 DEF Joined
<1>6. <<>> \o s = s
  BY ConcatEmptySeq
<1> QED  BY <1>1, <1>2, <1>5, <1>6

\* Joining nothing.
LEMMA FlattenNone == FlattenSeq(<<>>) = <<>>
<1>1. PICK e : e = <<>>
  OBVIOUS
<1>2. Len(e) = 0
  BY <1>1
<1>3. FlattenSeq(e) = e
  BY <1>2, Zenon DEF FlattenSeq
<1> QED  BY <1>1, <1>3

\* Kept keeps of each element either all or nothing.
Picks(s, T) == [i \in DOMAIN s |-> IF s[i] \in T THEN <<s[i]>> ELSE <<>>]

\* What Kept joins.
LEMMA ChoicesFacts ==
    ASSUME NEW S, NEW s \in Seq(S), NEW T
    PROVE  /\ Picks(s, T) \in Seq(Seq(S)) /\ Len(Picks(s, T)) = Len(s)
           /\ \A i \in 1..Len(s) :
                Picks(s, T)[i] = IF s[i] \in T THEN <<s[i]>> ELSE <<>>
<1>1. Len(s) \in Nat /\ DOMAIN s = 1..Len(s) /\ \A i \in 1..Len(s) : s[i] \in S
  OBVIOUS
<1> DEFINE c(i) == IF s[i] \in T THEN <<s[i]>> ELSE <<>>
<1>2. \A i \in 1..Len(s) : c(i) \in Seq(S)
  <2> SUFFICES ASSUME NEW i \in 1..Len(s) PROVE c(i) \in Seq(S)
    OBVIOUS
  <2>1. <<s[i]>> \in Seq(S)
    BY <1>1
  <2>2. <<>> \in Seq(S)
    OBVIOUS
  <2> QED  BY <2>1, <2>2
<1> HIDE DEF c
<1>3. Picks(s, T) = [i \in 1..Len(s) |-> c(i)]
  BY <1>1 DEF Picks, c
<1>4. Picks(s, T) \in Seq(Seq(S)) /\ Len(Picks(s, T)) = Len(s)
  BY <1>1, <1>2, <1>3
<1>5. \A i \in 1..Len(s) : Picks(s, T)[i] = c(i)
  BY <1>3
<1> QED  BY <1>4, <1>5 DEF c

\* What is kept of a sequence is a sequence over the same set.
LEMMA KeptType ==
    ASSUME NEW S, NEW s \in Seq(S), NEW T
    PROVE  Kept(s, T) \in Seq(S)
<1>1. Kept(s, T) = FlattenSeq(Picks(s, T))
  BY DEF Kept, Picks
<1> QED  BY <1>1, ChoicesFacts, FlattenType

\* What is kept of a concatenation is kept of its two parts.
LEMMA KeptConcat ==
    ASSUME NEW S, NEW s \in Seq(S), NEW t \in Seq(S), NEW T
    PROVE  Kept(s \o t, T) = Kept(s, T) \o Kept(t, T)
<1> DEFINE r == s \o t
           c == Picks(s, T)
           d == Picks(t, T)
           e == Picks(r, T)
           f == c \o d
<1>1. /\ r \in Seq(S) /\ Len(r) = Len(s) + Len(t)
      /\ \A i \in 1..(Len(s) + Len(t)) : r[i] = IF i <= Len(s) THEN s[i] ELSE t[i - Len(s)]
  BY ConcatProperties
<1> HIDE DEF r
<1>2. /\ c \in Seq(Seq(S)) /\ Len(c) = Len(s)
      /\ \A i \in 1..Len(s) : c[i] = IF s[i] \in T THEN <<s[i]>> ELSE <<>>
  BY ChoicesFacts
<1>3. /\ d \in Seq(Seq(S)) /\ Len(d) = Len(t)
      /\ \A i \in 1..Len(t) : d[i] = IF t[i] \in T THEN <<t[i]>> ELSE <<>>
  BY ChoicesFacts
<1>4. /\ e \in Seq(Seq(S)) /\ Len(e) = Len(r)
      /\ \A i \in 1..Len(r) : e[i] = IF r[i] \in T THEN <<r[i]>> ELSE <<>>
  <2>1. r \in Seq(S)
    BY <1>1
  <2> QED  BY <2>1, ChoicesFacts
<1> HIDE DEF c, d, e
<1>5. /\ f \in Seq(Seq(S)) /\ Len(f) = Len(c) + Len(d)
      /\ \A i \in 1..(Len(c) + Len(d)) : f[i] = IF i <= Len(c) THEN c[i] ELSE d[i - Len(c)]
  <2>1. c \in Seq(Seq(S)) /\ d \in Seq(Seq(S))
    BY <1>2, <1>3
  <2> QED  BY <2>1, ConcatProperties
<1> HIDE DEF f
<1>6. Len(s) \in Nat /\ Len(t) \in Nat
  OBVIOUS
<1>7. ASSUME NEW i \in 1..Len(e)
      PROVE  e[i] = f[i]
  <2>1. /\ i \in 1..Len(r) /\ i \in 1..(Len(c) + Len(d))
        /\ i <= Len(s) => i \in 1..Len(s)
        /\ ~(i <= Len(s)) => i - Len(s) \in 1..Len(t)
    BY <1>1, <1>2, <1>3, <1>4, <1>6
  <2>2. CASE i <= Len(s)
    <3>1. r[i] = s[i] /\ f[i] = c[i]
      BY <1>1, <1>2, <1>3, <1>5, <2>1, <2>2
    <3> QED  BY <1>2, <1>4, <2>1, <2>2, <3>1
  <2>3. CASE ~(i <= Len(s))
    <3>1. r[i] = t[i - Len(s)] /\ f[i] = d[i - Len(s)]
      BY <1>1, <1>2, <1>3, <1>5, <2>1, <2>3
    <3> QED  BY <1>3, <1>4, <2>1, <2>3, <3>1
  <2> QED  BY <2>2, <2>3
<1>8. e = f
  <2>1. Len(e) = Len(f)
    BY <1>1, <1>2, <1>3, <1>4, <1>5
  <2> QED  BY <1>4, <1>5, <1>7, <2>1, SeqEqual
<1>9. FlattenSeq(f) = FlattenSeq(c) \o FlattenSeq(d)
  BY <1>2, <1>3, FlattenConcat DEF f
<1>10. /\ Kept(r, T) = FlattenSeq(e) /\ Kept(s, T) = FlattenSeq(c)
       /\ Kept(t, T) = FlattenSeq(d)
  BY DEF Kept, Picks, c, d, e
<1> QED  BY <1>8, <1>9, <1>10 DEF r

KeepsParts(s, t, T) == Kept(s \o t, T) = Kept(s, T) \o Kept(t, T)

\* The same, as a fact of one operator that the leaves do not expand.
LEMMA KeptParts ==
    ASSUME NEW S, NEW s \in Seq(S), NEW t \in Seq(S), NEW T
    PROVE  KeepsParts(s, t, T)
BY KeptConcat DEF KeepsParts

\* What is kept of one element.
LEMMA KeptOne ==
    ASSUME NEW x, NEW T
    PROVE  /\ x \in T => Kept(<<x>>, T) = <<x>>
           /\ x \notin T => Kept(<<x>>, T) = <<>>
<1> DEFINE s == <<x>>
           y == IF x \in T THEN <<x>> ELSE <<>>
<1>1. DOMAIN s = 1..1 /\ s[1] = x /\ s \in Seq({x}) /\ Len(s) = 1
  OBVIOUS
<1> HIDE DEF s
<1>2. y \in Seq({x})
  <2>1. <<x>> \in Seq({x}) /\ <<>> \in Seq({x})
    OBVIOUS
  <2>2. y = <<x>> \/ y = <<>>
    OBVIOUS
  <2> HIDE DEF y
  <2> QED  BY <2>1, <2>2
<1> HIDE DEF y
<1>3. Picks(s, T) = [i \in 1..1 |-> y]
  BY <1>1 DEF Picks, y
<1>4. Picks(s, T) = <<y>>
  BY <1>3
<1>5. Kept(s, T) = FlattenSeq(<<y>>)
  BY <1>4 DEF Kept, Picks
<1>6. Kept(s, T) = y
  BY <1>2, <1>5, FlattenOne
<1> QED  BY <1>6 DEF s, y

\* What is kept of nothing.
LEMMA KeptNone ==
    ASSUME NEW T
    PROVE  Kept(<<>>, T) = <<>>
<1>1. PICK e : e = <<>>
  OBVIOUS
<1>2. DOMAIN e = {}
  BY <1>1
<1>3. Picks(e, T) = <<>>
  BY <1>2 DEF Picks
<1>4. Kept(e, T) = FlattenSeq(<<>>)
  BY <1>3 DEF Kept, Picks
<1> QED  BY <1>1, <1>4, FlattenNone

\* The first part of a concatenation is a prefix of it.
LEMMA PrefixConcat ==
    ASSUME NEW S, NEW p \in Seq(S), NEW q \in Seq(S)
    PROVE  IsPrefix(p, p \o q)
<1> DEFINE r == p \o q
<1>1. /\ r \in Seq(S) /\ Len(r) = Len(p) + Len(q)
      /\ \A i \in 1..(Len(p) + Len(q)) : r[i] = IF i <= Len(p) THEN p[i] ELSE q[i - Len(p)]
  BY ConcatProperties
<1> HIDE DEF r
<1>2. Len(p) \in Nat /\ Len(q) \in Nat
  OBVIOUS
<1>3. Len(p) <= Len(r) /\ \A i \in 1..Len(p) : i \in 1..Len(r) /\ p[i] = r[i]
  BY <1>1, <1>2
<1>4. SubSeq(p, 1, Len(p)) = SubSeq(r, 1, Len(p))
  BY <1>1, <1>2, <1>3
<1> QED  BY <1>3, <1>4 DEF IsPrefix, r

-----------------------------------------------------------------------------
(***************************************************************************)
(* What is typed, read and posted.                                         *)
(***************************************************************************)
\* The two parts of a concatenation.
LEMMA ConcatParts ==
    ASSUME NEW S, NEW p \in Seq(S), NEW q \in Seq(S), NEW r, r = p \o q
    PROVE  /\ r \in Seq(S) /\ Len(p) \in 0..Len(r)
           /\ SubSeq(r, 1, Len(p)) = p
           /\ SubSeq(r, Len(p) + 1, Len(r)) = q
<1>1. /\ p \o q \in Seq(S) /\ Len(p \o q) = Len(p) + Len(q)
      /\ \A i \in 1..(Len(p) + Len(q)) :
           (p \o q)[i] = IF i <= Len(p) THEN p[i] ELSE q[i - Len(p)]
  BY ConcatProperties
<1>2. PICK m \in Nat, n \in Nat : m = Len(p) /\ n = Len(q)
  OBVIOUS
<1>3. /\ r \in Seq(S) /\ Len(r) = m + n
      /\ \A i \in 1..(m + n) : r[i] = IF i <= m THEN p[i] ELSE q[i - m]
  BY <1>1, <1>2
<1> DEFINE a == SubSeq(r, 1, m)
           b == SubSeq(r, m + 1, m + n)
<1>4. a \in Seq(S) /\ Len(a) = m /\ \A i \in 1..m : a[i] = r[i]
  BY <1>3
<1>5. b \in Seq(S) /\ Len(b) = n /\ \A i \in 1..n : b[i] = r[m + i]
  BY SMTT(30), <1>3
<1> HIDE DEF a, b
<1>6. a = p
  <2>1. \A i \in 1..m : i \in 1..(m + n) /\ i <= m
    OBVIOUS
  <2>2. \A i \in 1..Len(a) : a[i] = p[i]
    BY <1>3, <1>4, <2>1
  <2> QED  BY <1>2, <1>4, <2>2, SeqEqual
<1>7. b = q
  <2>1. \A i \in 1..n : m + i \in 1..(m + n) /\ ~(m + i <= m) /\ (m + i) - m = i
    OBVIOUS
  <2>2. \A i \in 1..Len(b) : b[i] = q[i]
    BY <1>3, <1>5, <2>1
  <2> QED  BY <1>2, <1>5, <2>2, SeqEqual
<1>8. m \in 0..(m + n)
  OBVIOUS
<1> QED  BY <1>2, <1>3, <1>6, <1>7, <1>8 DEF a, b

\* The lines that were posted, and those that are still to be read.
LinesRead(typed, posts, input) ==
    \E a \in Seq(Lines), b \in Seq(Lines) :
        typed = a \o b /\ posts = Kept(a, Filled) /\ input = FlattenSeq(b)

\* It is the last part of MadeOf.
LEMMA LinesReadFacts ==
    ASSUME NEW typed \in Seq(Lines), NEW posts, NEW input
    PROVE  LinesRead(typed, posts, input) <=>
             \E k \in 0..Len(typed) :
                 /\ posts = Kept(SubSeq(typed, 1, k), Filled)
                 /\ input = FlattenSeq(SubSeq(typed, k + 1, Len(typed)))
<1>1. ASSUME LinesRead(typed, posts, input)
      PROVE  \E k \in 0..Len(typed) :
                 /\ posts = Kept(SubSeq(typed, 1, k), Filled)
                 /\ input = FlattenSeq(SubSeq(typed, k + 1, Len(typed)))
  <2>1. PICK a \in Seq(Lines), b \in Seq(Lines) :
               typed = a \o b /\ posts = Kept(a, Filled) /\ input = FlattenSeq(b)
    BY <1>1 DEF LinesRead
  <2>2. /\ Len(a) \in 0..Len(typed) /\ SubSeq(typed, 1, Len(a)) = a
        /\ SubSeq(typed, Len(a) + 1, Len(typed)) = b
    BY <2>1, ConcatParts
  <2> QED  BY <2>1, <2>2
<1>2. ASSUME NEW k \in 0..Len(typed),
             posts = Kept(SubSeq(typed, 1, k), Filled),
             input = FlattenSeq(SubSeq(typed, k + 1, Len(typed)))
      PROVE  LinesRead(typed, posts, input)
  <2> DEFINE a == SubSeq(typed, 1, k)
             b == SubSeq(typed, k + 1, Len(typed))
  <2>1. Len(typed) \in Nat /\ \A i \in 1..Len(typed) : typed[i] \in Lines
    OBVIOUS
  <2>2. a \in Seq(Lines) /\ b \in Seq(Lines)
    BY <2>1, SubSeqProperties
  <2>3. a \o b = typed
    <3>1. 1 \in 1..(Len(typed) + 1) /\ k \in (1 - 1)..Len(typed) /\ Len(typed) \in k..Len(typed)
      BY <2>1
    <3>2. SubSeq(typed, 1, k) \o SubSeq(typed, k + 1, Len(typed)) = SubSeq(typed, 1, Len(typed))
      BY <3>1, ConcatAdjacentSubSeq
    <3>3. SubSeq(typed, 1, Len(typed)) = typed
      BY SubSeqFull
    <3> QED  BY <3>2, <3>3
  <2> HIDE DEF a, b
  <2>4. posts = Kept(a, Filled) /\ input = FlattenSeq(b)
    BY <1>2 DEF a, b
  <2> QED  BY <2>2, <2>3, <2>4 DEF LinesRead
<1> QED  BY <1>1, <1>2

\* What is printed of a concatenation is printed of its two parts.
LEMMA PrintedConcat ==
    ASSUME NEW s \in Seq(Bytes), NEW t \in Seq(Bytes)
    PROVE  /\ Printed(s) \in Seq(Bytes) /\ Printed(t) \in Seq(Bytes)
           /\ Printed(s \o t) = Printed(s) \o Printed(t)
<1>1. PICK T : T = Bytes \ {"newline"}
  OBVIOUS
<1>2. PICK r : r = s \o t
  OBVIOUS
<1>3. \A u : Printed(u) = Kept(u, T)
  BY <1>1 DEF Printed
<1>4. Kept(s, T) \in Seq(Bytes) /\ Kept(t, T) \in Seq(Bytes)
  BY KeptType
<1>5. Kept(r, T) = Kept(s, T) \o Kept(t, T)
  BY <1>2, KeptConcat
<1> QED  BY <1>2, <1>3, <1>4, <1>5

\* One more line is typed.
LEMMA MadeOfMore ==
    ASSUME NEW typed \in Seq(Lines), NEW posts, NEW input \in Seq(Bytes),
           MadeOf(typed, posts, input), NEW line \in Lines
    PROVE  MadeOf(typed \o <<line>>, posts, input \o line)
<1>1. PICK new \in Seq(Lines) : new = <<line>>
  <2>1. <<line>> \in Seq(Lines)
    OBVIOUS
  <2> QED  BY <2>1
<1>2. PICK old, more, rest : old = typed /\ more = typed \o new /\ rest = input \o line
  OBVIOUS
<1>3. Lines \subseteq Seq(Bytes) /\ line \in Seq(Bytes)
  BY CallsAssumption
<1>4. /\ old \in Seq(Lines) /\ old \in Seq(Seq(Bytes)) /\ new \in Seq(Seq(Bytes))
      /\ more \in Seq(Lines) /\ rest \in Seq(Bytes)
  <2>1. old \in Seq(Lines)
    BY <1>2
  <2>2. old \in Seq(Seq(Bytes)) /\ new \in Seq(Seq(Bytes))
    BY <1>1, <1>3, <2>1
  <2>3. more \in Seq(Lines)
    BY <1>1, <1>2, ConcatProperties
  <2>4. rest \in Seq(Bytes)
    BY <1>2, <1>3, ConcatProperties
  <2> QED  BY <2>1, <2>2, <2>3, <2>4
<1>5. FlattenSeq(new) = line
  BY <1>1, <1>3, FlattenOne
<1>6. FlattenSeq(more) = FlattenSeq(old) \o line
  <2>1. FlattenSeq(old \o new) = FlattenSeq(old) \o FlattenSeq(new)
    BY <1>4, FlattenConcat
  <2> QED  BY <1>2, <1>5, <2>1
<1>7. /\ posts \in Seq(Seq(Bytes))
      /\ Printed(FlattenSeq(posts)) \o Printed(input) = Printed(FlattenSeq(old))
  BY <1>2 DEF MadeOf
<1>8. Printed(FlattenSeq(posts)) \o Printed(rest) = Printed(FlattenSeq(more))
  <2>1. PICK p \in Seq(Bytes), f \in Seq(Bytes) : p = FlattenSeq(posts) /\ f = FlattenSeq(old)
    BY <1>4, <1>7, FlattenType
  <2>2. Printed(f \o line) = Printed(f) \o Printed(line)
    BY <1>3, <2>1, PrintedConcat
  <2>3. Printed(input \o line) = Printed(input) \o Printed(line)
    BY <1>3, PrintedConcat
  <2>4. /\ Printed(p) \in Seq(Bytes) /\ Printed(input) \in Seq(Bytes)
        /\ Printed(line) \in Seq(Bytes)
    BY <1>3, <2>1, PrintedConcat
  <2>5. Associates(Printed(p), Printed(input), Printed(line))
    BY <2>4, ConcatAssociates
  <2> HIDE DEF Printed
  <2>6. (Printed(p) \o Printed(input)) \o Printed(line)
          = Printed(p) \o (Printed(input) \o Printed(line))
    BY <2>5 DEF Associates
  <2> QED  BY <1>2, <1>6, <1>7, <2>1, <2>2, <2>3, <2>6
<1>9. ASSUME \A i \in DOMAIN more : Len(more[i]) < MAX_DATA
      PROVE  LinesRead(more, posts, rest)
  <2>1. /\ Len(old) \in Nat /\ Len(more) = Len(old) + Len(new) /\ Len(new) = 1
        /\ \A i \in 1..(Len(old) + Len(new)) :
             more[i] = IF i <= Len(old) THEN old[i] ELSE new[i - Len(old)]
    <3>1. /\ Len(old \o new) = Len(old) + Len(new)
          /\ \A i \in 1..(Len(old) + Len(new)) :
               (old \o new)[i] = IF i <= Len(old) THEN old[i] ELSE new[i - Len(old)]
      BY <1>4, ConcatProperties
    <3>2. Len(old) \in Nat /\ Len(new) = 1
      BY <1>1, <1>4
    <3> QED  BY <1>2, <3>1, <3>2
  <2>2. DOMAIN old = 1..Len(old) /\ DOMAIN more = 1..Len(more)
    BY <1>4
  <2>3. \A i \in 1..Len(old) : i \in 1..Len(more) /\ i \in 1..(Len(old) + Len(new)) /\ i <= Len(old)
    BY <2>1
  <2>4. \A i \in DOMAIN old : Len(old[i]) < MAX_DATA
    BY <1>9, <2>1, <2>2, <2>3
  <2>5. LinesRead(old, posts, input)
    BY <1>2, <1>4, <2>4, LinesReadFacts DEF MadeOf
  <2>6. PICK a \in Seq(Lines), b \in Seq(Lines) :
               old = a \o b /\ posts = Kept(a, Filled) /\ input = FlattenSeq(b)
    BY <2>5 DEF LinesRead
  <2>7. PICK c \in Seq(Lines) : c = b \o new
    BY <1>1, <2>6, ConcatProperties
  <2>8. FlattenSeq(c) = rest
    <3>1. b \in Seq(Seq(Bytes))
      BY <1>3, <2>6
    <3>2. FlattenSeq(b \o new) = FlattenSeq(b) \o FlattenSeq(new)
      BY <1>4, <3>1, FlattenConcat
    <3> QED  BY <1>2, <1>5, <2>6, <2>7, <3>2
  <2>9. more = a \o c
    <3>1. Associates(a, b, new)
      BY <1>1, <2>6, ConcatAssociates
    <3>2. (a \o b) \o new = a \o (b \o new)
      BY <3>1 DEF Associates
    <3> QED  BY <1>2, <2>6, <2>7, <3>2
  <2> QED  BY <2>6, <2>7, <2>8, <2>9 DEF LinesRead
<1>10. MadeOf(more, posts, rest)
  BY <1>4, <1>7, <1>8, <1>9, LinesReadFacts DEF MadeOf
<1> QED  BY <1>1, <1>2, <1>10

\* What fgets reads and what it leaves are the input.
LEMMA FgetsSplits ==
    ASSUME stdin \in Seq(Bytes)
    PROVE  Fgets \o Rest = stdin
<1>1. PICK k \in 0..Len(stdin) : k = ReadBytes
  BY FgetsFacts
<1>2. Fgets = SubSeq(stdin, 1, k) /\ Rest = SubSeq(stdin, k + 1, Len(stdin))
  BY <1>1, FgetsFacts
<1>3. Len(stdin) \in Nat
  OBVIOUS
<1>4. 1 \in 1..(Len(stdin) + 1) /\ k \in (1 - 1)..Len(stdin) /\ Len(stdin) \in k..Len(stdin)
  BY <1>1, <1>3
<1>5. SubSeq(stdin, 1, k) \o SubSeq(stdin, k + 1, Len(stdin)) = SubSeq(stdin, 1, Len(stdin))
  BY <1>4, ConcatAdjacentSubSeq
<1>6. SubSeq(stdin, 1, Len(stdin)) = stdin
  BY SubSeqFull
<1> QED  BY <1>2, <1>5, <1>6

\* What is skipped prints nothing.
LEMMA SkippedPrintsNothing ==
    ASSUME stdin \in Seq(Bytes), Fgets[1] = "newline"
    PROVE  Printed(Fgets) = <<>>
<1>1. PICK F \in Seq(Bytes) : F = Fgets
  BY FgetsFacts
<1>2. PICK T : T = Bytes \ {"newline"}
  OBVIOUS
<1>3. Printed(F) = Kept(F, T)
  BY <1>2 DEF Printed
<1>4. /\ ReadBytes \in 0..Len(stdin) /\ Len(stdin) \in Nat /\ Len(F) = ReadBytes
      /\ F = SubSeq(stdin, 1, ReadBytes)
  BY <1>1, FgetsFacts
<1>5. CASE ReadBytes = 0
  <2>1. F = <<>>
    BY <1>1, <1>4, <1>5
  <2> QED  BY <1>1, <1>3, <2>1, KeptNone
<1>6. CASE ReadBytes # 0
  <2>1. F[1] = stdin[1] /\ 1 \in 1..Len(stdin)
    BY <1>4, <1>6
  <2>2. stdin[1] = "newline"
    BY <1>1, <2>1
  <2>3. EndOfLine = 1
    BY <2>1, <2>2, EndOfLineFacts
  <2>4. ReadBytes = 1
    BY <2>3, <1>6, CallsAssumption DEF ReadBytes
  <2>5. F = <<F[1]>>
    <3>1. Len(F) = 1 /\ F \in Seq(Bytes)
      BY <1>1, <1>4, <2>4
    <3> QED  BY <3>1
  <2>6. F[1] = "newline" /\ "newline" \notin T
    BY <1>1, <1>2
  <2>7. Kept(<<F[1]>>, T) = <<>>
    BY <2>6, KeptOne
  <2> QED  BY <1>1, <1>3, <2>5, <2>7
<1> QED  BY <1>5, <1>6

\* A line ends with the only newline in it.
LEMMA LineFacts ==
    ASSUME NEW line \in Lines
    PROVE  /\ line \in Seq(Bytes) /\ line # <<>> /\ Len(line) \in Nat
           /\ \A i \in 1..Len(line) : line[i] = "newline" <=> i = Len(line)
<1>1. line \in Seq(Bytes) /\ line # <<>>
  BY CallsAssumption
<1>2. \A i \in 1..Len(line) : line[i] = "newline" <=> i = Len(line)
  BY CallsAssumption
<1> QED  BY <1>1, <1>2

\* When all lines fit the buffer, fgets reads the first one that is not yet read.
LEMMA FgetsLine ==
    ASSUME stdin \in Seq(Bytes), NEW line \in Lines, Len(line) < MAX_DATA,
           NEW others \in Seq(Bytes), stdin = line \o others
    PROVE  Fgets = line /\ Rest = others
<1>1. /\ line \in Seq(Bytes) /\ line # <<>>
      /\ \A i \in 1..Len(line) : line[i] = "newline" <=> i = Len(line)
  BY LineFacts
<1>2. PICK n \in Nat : n = Len(line)
  BY <1>1
<1>3. n # 0
  BY <1>1, <1>2
<1>4. /\ Len(stdin) = n + Len(others) /\ Len(others) \in Nat
      /\ \A i \in 1..n : stdin[i] = line[i]
  <2>1. /\ Len(line \o others) = Len(line) + Len(others)
        /\ \A i \in 1..(Len(line) + Len(others)) :
             (line \o others)[i] = IF i <= Len(line) THEN line[i] ELSE others[i - Len(line)]
    BY <1>1, ConcatProperties
  <2>2. Len(others) \in Nat
    OBVIOUS
  <2>3. \A i \in 1..n : i \in 1..(n + Len(others)) /\ i <= n
    BY <2>2
  <2> QED  BY <1>2, <2>1, <2>2, <2>3
<1>5. n \in 1..Len(stdin) /\ n \in 1..n
  BY <1>3, <1>4
<1>6. stdin[n] = "newline" /\ \A i \in 1..n : i < n => stdin[i] # "newline"
  BY <1>1, <1>2, <1>4, <1>5
<1>7. EndOfLine = n
  <2>1. EndOfLine \in 1..Len(stdin) /\ stdin[EndOfLine] = "newline"
        /\ \A i \in 1..Len(stdin) : i < EndOfLine => stdin[i] # "newline"
    BY <1>5, <1>6, EndOfLineFacts
  <2>2. ~(n < EndOfLine)
    BY <1>5, <1>6, <2>1
  <2>3. ~(EndOfLine < n)
    BY <1>5, <1>6, <2>1
  <2> QED  BY <1>5, <2>1, <2>2, <2>3
<1>8. ReadBytes = n
  BY <1>2, <1>7 DEF ReadBytes
<1>9. Fgets = SubSeq(stdin, 1, Len(line)) /\ Rest = SubSeq(stdin, Len(line) + 1, Len(stdin))
  BY <1>2, <1>8, FgetsFacts
<1>10. SubSeq(stdin, 1, Len(line)) = line /\ SubSeq(stdin, Len(line) + 1, Len(stdin)) = others
  BY <1>1, ConcatParts
<1> QED  BY <1>9, <1>10

\* What is posted after fgets: nothing of an empty line.
Posted(posts) == IF Fgets[1] = "newline" THEN posts ELSE posts \o <<Fgets>>

\* One more buffer is read, and posted if it is not an empty line.
LEMMA MadeOfRead ==
    ASSUME stdin \in Seq(Bytes), stdin # <<>>, NEW typed \in Seq(Lines), NEW posts,
           MadeOf(typed, posts, stdin)
    PROVE  MadeOf(typed, Posted(posts), Rest)
<1>1. PICK F \in Seq(Bytes), R \in Seq(Bytes) : F = Fgets /\ R = Rest
  BY FgetsFacts
<1>2. F \o R = stdin
  BY <1>1, FgetsSplits
<1>3. /\ posts \in Seq(Seq(Bytes))
      /\ Printed(FlattenSeq(posts)) \o Printed(stdin) = Printed(FlattenSeq(typed))
  BY DEF MadeOf
<1>4. PICK o \in Seq(Seq(Bytes)) : o = <<F>>
  <2>1. <<F>> \in Seq(Seq(Bytes))
    BY <1>1
  <2> QED  BY <2>1
<1>5. PICK new \in Seq(Seq(Bytes)) : new = Posted(posts)
  <2>1. posts \o o \in Seq(Seq(Bytes))
    BY <1>3, <1>4, ConcatProperties
  <2> QED  BY <1>1, <1>3, <1>4, <2>1 DEF Posted
<1>6. Printed(FlattenSeq(new)) \o Printed(R) = Printed(FlattenSeq(typed))
  <2>1. PICK p \in Seq(Bytes) : p = FlattenSeq(posts)
    BY <1>3, FlattenType
  <2>2. PICK a \in Seq(Bytes), b \in Seq(Bytes), c \in Seq(Bytes) :
              a = Printed(p) /\ b = Printed(F) /\ c = Printed(R)
    BY <1>1, <2>1, PrintedConcat
  <2>3. Printed(stdin) = b \o c
    BY <1>1, <1>2, <2>2, PrintedConcat
  <2>4. Printed(FlattenSeq(new)) = a \o b
    <3>1. CASE Fgets[1] = "newline"
      <4>1. b = <<>> /\ new = posts
        BY <1>1, <1>5, <2>2, <3>1, SkippedPrintsNothing DEF Posted
      <4>2. a \o <<>> = a
        BY <2>2, ConcatEmptySeq
      <4> QED  BY <2>1, <2>2, <4>1, <4>2
    <3>2. CASE Fgets[1] # "newline"
      <4>1. new = posts \o o
        BY <1>1, <1>4, <1>5, <3>2 DEF Posted
      <4>2. FlattenSeq(posts \o o) = FlattenSeq(posts) \o FlattenSeq(o)
        BY <1>3, <1>4, FlattenConcat
      <4>3. FlattenSeq(o) = F
        BY <1>1, <1>4, FlattenOne
      <4>4. Printed(p \o F) = Printed(p) \o Printed(F)
        BY <1>1, <2>1, PrintedConcat
      <4> QED  BY <2>1, <2>2, <4>1, <4>2, <4>3, <4>4
    <3> QED  BY <3>1, <3>2
  <2>5. (a \o b) \o c = a \o (b \o c)
    <3>1. Associates(a, b, c)
      BY <2>2, ConcatAssociates
    <3> QED  BY <3>1 DEF Associates
  <2> QED  BY <1>3, <2>1, <2>2, <2>3, <2>4, <2>5
<1>7. ASSUME \A i \in DOMAIN typed : Len(typed[i]) < MAX_DATA
      PROVE  LinesRead(typed, new, R)
  <2>1. LinesRead(typed, posts, stdin)
    BY <1>7, LinesReadFacts DEF MadeOf
  <2>2. PICK a \in Seq(Lines), b \in Seq(Lines) :
               typed = a \o b /\ posts = Kept(a, Filled) /\ stdin = FlattenSeq(b)
    BY <2>1 DEF LinesRead
  <2>3. Len(b) \in Nat /\ Len(b) # 0 /\ \A i \in 1..Len(b) : b[i] \in Lines
    <3>1. b # <<>>
      BY <2>2, FlattenNone
    <3> QED  BY <2>2, <3>1
  <2>4. PICK line \in Lines : line = b[1]
    BY <2>3
  <2>5. PICK l \in Seq(Lines), c \in Seq(Lines) : l = <<line>> /\ c = SubSeq(b, 2, Len(b))
    <3>1. SubSeq(b, 2, Len(b)) \in Seq(Lines)
      BY <2>3, SubSeqProperties
    <3>2. <<line>> \in Seq(Lines)
      BY <2>4
    <3> QED  BY <3>1, <3>2
  <2>6. b = l \o c
    <3>1. 1 \in 1..Len(b) /\ Len(b) \in 1..Len(b) /\ 1 + 1 = 2
      BY <2>3
    <3>2. SubSeq(b, 1, Len(b)) = <<b[1]>> \o SubSeq(b, 1 + 1, Len(b))
      BY <2>2, <3>1, SubSeqRecursiveFirst
    <3>3. SubSeq(b, 1, Len(b)) = b
      BY <2>2, SubSeqFull
    <3> QED  BY <2>4, <2>5, <3>1, <3>2, <3>3
  <2>7. line \in Seq(Bytes) /\ l \in Seq(Seq(Bytes)) /\ c \in Seq(Seq(Bytes))
    BY <2>4, <2>5, CallsAssumption
  <2>8. PICK others \in Seq(Bytes) : others = FlattenSeq(c)
    BY <2>7, FlattenType
  <2>9. stdin = line \o others
    <3>1. FlattenSeq(l \o c) = FlattenSeq(l) \o FlattenSeq(c)
      BY <2>7, FlattenConcat
    <3>2. FlattenSeq(l) = line
      BY <2>5, <2>7, FlattenOne
    <3> QED  BY <2>2, <2>6, <2>8, <3>1, <3>2
  <2>10. Len(line) < MAX_DATA
    <3>1. /\ Len(a \o b) = Len(a) + Len(b) /\ a \o b \in Seq(Lines)
          /\ \A i \in 1..(Len(a) + Len(b)) :
               (a \o b)[i] = IF i <= Len(a) THEN a[i] ELSE b[i - Len(a)]
      BY <2>2, ConcatProperties
    <3>2. PICK m \in Nat : m = Len(a)
      BY <2>2
    <3>3. m + 1 \in 1..(m + Len(b)) /\ ~(m + 1 <= m) /\ (m + 1) - m = 1
      BY <2>3, <3>2
    <3>4. typed[m + 1] = line /\ m + 1 \in DOMAIN typed
      BY <2>2, <2>4, <3>1, <3>2, <3>3
    <3> QED  BY <1>7, <3>4
  <2>11. F = line /\ R = others
    BY <1>1, <2>4, <2>8, <2>9, <2>10, FgetsLine
  <2>12. PICK d \in Seq(Lines) : d = a \o l
    BY <2>2, <2>5, ConcatProperties
  <2>13. typed = d \o c
    <3>1. Associates(a, l, c)
      BY <2>2, <2>5, ConcatAssociates
    <3>2. (a \o l) \o c = a \o (l \o c)
      BY <3>1 DEF Associates
    <3> QED  BY <2>2, <2>6, <2>12, <3>2
  <2>14. Kept(d, Filled) = Kept(a, Filled) \o Kept(l, Filled)
    <3>1. a \in Seq(Lines) /\ l \in Seq(Lines)
      BY <2>2, <2>5
    <3>2. KeepsParts(a, l, Filled)
      BY <3>1, KeptParts
    <3> QED  BY <2>12, <3>2 DEF KeepsParts
  <2>15. /\ line # <<>> /\ Len(line) \in Nat
         /\ \A i \in 1..Len(line) : line[i] = "newline" <=> i = Len(line)
    BY <2>4, LineFacts
  <2>16. new = Kept(d, Filled)
    <3>1. CASE F[1] = "newline"
      <4>1. Len(line) # 0 /\ 1 \in 1..Len(line)
        BY <2>7, <2>15
      <4>2. Len(line) = 1
        BY <2>11, <2>15, <3>1, <4>1
      <4>3. line \notin Filled
        <5>1. ~(Len(line) > 1)
          BY <4>2
        <5> QED  BY <5>1 DEF Filled
      <4>4. Kept(l, Filled) = <<>>
        BY <2>5, <4>3, KeptOne
      <4>5. posts \o <<>> = posts
        BY <1>3, ConcatEmptySeq
      <4>6. new = posts
        BY <1>1, <1>5, <3>1 DEF Posted
      <4> QED  BY <2>2, <2>14, <4>4, <4>5, <4>6
    <3>2. CASE F[1] # "newline"
      <4>1. Len(line) # 0 /\ 1 \in 1..Len(line)
        BY <2>7, <2>15
      <4>2. Len(line) # 1
        BY <2>11, <2>15, <3>2, <4>1
      <4>3. Len(line) > 1
        <5>1. \A i \in Nat : i # 0 /\ i # 1 => i > 1
          OBVIOUS
        <5> QED  BY <2>15, <4>1, <4>2, <5>1
      <4>4. line \in Filled
        BY <2>4, <4>3 DEF Filled
      <4>5. Kept(l, Filled) = o
        BY <1>4, <2>5, <2>11, <4>4, KeptOne
      <4>6. new = posts \o o
        BY <1>1, <1>4, <1>5, <3>2 DEF Posted
      <4> QED  BY <2>2, <2>14, <4>5, <4>6
    <3> QED  BY <3>1, <3>2
  <2> QED  BY <2>5, <2>8, <2>11, <2>12, <2>13, <2>16 DEF LinesRead
<1>8. MadeOf(typed, new, R)
  BY <1>5, <1>6, <1>7, LinesReadFacts DEF MadeOf
<1> QED  BY <1>1, <1>5, <1>8

-----------------------------------------------------------------------------
(***************************************************************************)
(* The posts.                                                              *)
(***************************************************************************)
LEMMA PostTextsGrow ==
    ASSUME NEW S, NEW w, IsSequence(w), NEW m, m.msg \in S, NEW w2, Extends(w, m, w2),
           PostTexts(w) \in Seq(S), Len(w) # 0
    PROVE  PostTexts(w2) = PostTexts(w) \o <<m.msg>>
<1>1. /\ Len(w) \in Nat /\ Len(w2) = Len(w) + 1
      /\ \A i \in 1..Len(w) : w2[i] = w[i]
      /\ w2[Len(w) + 1] = m
  BY ExtendsFacts
<1>2. PICK n \in Nat : n = Len(w)
  BY <1>1
<1>3. n # 0
  BY <1>2
<1>4. PICK p \in Seq(S) : p = PostTexts(w)
  OBVIOUS
<1>5. PICK e \in S : e = m.msg
  OBVIOUS
<1>6. p = [i \in 1..(n - 1) |-> w[i + 1].msg]
  BY <1>2, <1>4 DEF PostTexts
<1>7. Len(p) = n - 1 /\ \A i \in 1..(n - 1) : p[i] = w[i + 1].msg
  BY <1>3, <1>6
<1> DEFINE q == Append(p, e)
<1>8. /\ q \in Seq(S) /\ Len(q) = (n - 1) + 1
      /\ \A i \in 1..(n - 1) : q[i] = p[i]
      /\ q[(n - 1) + 1] = e
  BY <1>4, <1>5, <1>7
<1> HIDE DEF q
<1>9. q = [i \in 1..n |-> q[i]]
  BY <1>8
<1>10. PostTexts(w2) = [i \in 1..n |-> w2[i + 1].msg]
  <2>1. Len(w2) - 1 = n
    BY <1>1, <1>2
  <2> QED  BY <2>1 DEF PostTexts
<1>11. ASSUME NEW i \in 1..n
      PROVE  q[i] = w2[i + 1].msg
  <2>1. CASE i = n
    BY <1>1, <1>2, <1>5, <1>8, <2>1
  <2>2. CASE i # n
    <3>1. i \in 1..(n - 1) /\ i + 1 \in 1..n
      BY <2>2
    <3> QED  BY <1>1, <1>2, <1>7, <1>8, <3>1
  <2> QED  BY <2>1, <2>2
<1>12. PostTexts(w2) = q
  BY <1>9, <1>10, <1>11
<1>13. q = p \o <<e>>
  BY <1>4, <1>5, AppendIsConcat DEF q
<1> QED  BY <1>2, <1>3, <1>4, <1>5, <1>12, <1>13

\* A sequence and two parts of it.
Splits(t, p, q) == t = p \o q

\* The posts of some of the messages are the first of all posts.
LEMMA PostTextsPrefix ==
    ASSUME NEW S, NEW w, IsSequence(w), NEW r, IsSequence(r), Len(r) <= Len(w),
           \A i \in 1..Len(r) : r[i] = w[i], PostTexts(w) \in Seq(S)
    PROVE  \E p \in Seq(S), q \in Seq(S) : p = PostTexts(r) /\ Splits(PostTexts(w), p, q)
<1>1. PICK m \in Nat, n \in Nat : m = Len(r) /\ n = Len(w)
  BY DEF IsSequence
<1>2. m <= n
  BY <1>1
<1>3. PICK t \in Seq(S) : t = PostTexts(w)
  OBVIOUS
<1>4. t = [i \in 1..(n - 1) |-> w[i + 1].msg]
  BY <1>1, <1>3 DEF PostTexts
<1>5. PICK k \in Nat : (m = 0 => k = 0) /\ (m # 0 => k = m - 1)
  <2>1. CASE m = 0
    BY <2>1
  <2>2. CASE m # 0
    <3>1. m - 1 \in Nat
      BY <2>2
    <3> QED  BY <2>2, <3>1
  <2> QED  BY <2>1, <2>2
<1>6. 1..(m - 1) = 1..k
  BY <1>5
<1>7. Len(t) \in Nat /\ k <= Len(t) /\ DOMAIN t = 1..Len(t)
  <2>1. CASE n = 0
    <3>1. t = <<>>
      BY <1>4, <2>1
    <3> QED  BY <1>2, <1>3, <1>5, <2>1, <3>1
  <2>2. CASE n # 0
    <3>1. Len(t) = n - 1
      BY <1>4, <2>2
    <3> QED  BY <1>2, <1>3, <1>5, <2>2, <3>1
  <2> QED  BY <2>1, <2>2
<1>8. PICK p \in Seq(S), q \in Seq(S) : p = SubSeq(t, 1, k) /\ q = SubSeq(t, k + 1, Len(t))
  <2>1. \A i \in 1..Len(t) : t[i] \in S
    BY <1>3
  <2>2. SubSeq(t, 1, k) \in Seq(S)
    BY <1>5, <1>7, <2>1, SubSeqProperties
  <2>3. SubSeq(t, k + 1, Len(t)) \in Seq(S)
    BY <1>5, <1>7, <2>1, SubSeqProperties
  <2> QED  BY <2>2, <2>3
<1>9. t = p \o q
  <2>1. 1 \in 1..(Len(t) + 1) /\ k \in (1 - 1)..Len(t) /\ Len(t) \in k..Len(t)
    BY <1>5, <1>7
  <2>2. SubSeq(t, 1, k) \o SubSeq(t, k + 1, Len(t)) = SubSeq(t, 1, Len(t))
    BY <1>3, <2>1, ConcatAdjacentSubSeq
  <2>3. SubSeq(t, 1, Len(t)) = t
    BY <1>3, SubSeqFull
  <2> QED  BY <1>8, <2>2, <2>3
<1>10. p = PostTexts(r)
  <2>1. Len(p) = k /\ \A i \in 1..k : p[i] = t[i]
    BY <1>3, <1>5, <1>7, <1>8
  <2>2. p = [i \in 1..k |-> p[i]]
    BY <1>8, <2>1
  <2>3. \A i \in 1..k : p[i] = r[i + 1].msg
    <3> SUFFICES ASSUME NEW i \in 1..k PROVE p[i] = r[i + 1].msg
      OBVIOUS
    <3>1. i \in 1..(n - 1) /\ i + 1 \in 1..m
      BY <1>2, <1>5
    <3>2. t[i] = w[i + 1].msg
      BY <1>4, <3>1
    <3> QED  BY <1>1, <2>1, <3>1, <3>2
  <2>4. PostTexts(r) = [i \in 1..k |-> r[i + 1].msg]
    BY <1>1, <1>6 DEF PostTexts
  <2> QED  BY <2>2, <2>3, <2>4
<1>11. Splits(PostTexts(w), p, q)
  BY <1>3, <1>9 DEF Splits
<1> QED  BY <1>8, <1>10, <1>11

\* PostedInv holds at the beginning of a call.
LEMMA PostedInit == MessageCallsInit => PostedInv
<1> SUFFICES ASSUME MessageCallsInit PROVE PostedInv
  OBVIOUS
<1>1. PICK e : e = <<>>
  OBVIOUS
<1>2. written["request"] = e /\ lines = e /\ stdin = e
  BY <1>1 DEF MessageCallsInit, Directions
<1>3. Len(e) = 0 /\ \A S : e \in Seq(S)
  BY <1>1
<1>4. PostTexts(e) = e
  BY <1>1, <1>3 DEF PostTexts
<1>5. FlattenSeq(e) = e
  BY <1>1, FlattenNone
<1>6. Printed(e) = e
  BY <1>1, KeptNone DEF Printed
<1>7. e \o e = e
  BY <1>1, <1>3, ConcatEmptySeq
<1>8. LinesRead(e, e, e)
  <2>1. Kept(e, Filled) = e
    BY <1>1, KeptNone
  <2> QED  BY <1>3, <1>5, <1>7, <2>1 DEF LinesRead
<1>9. MadeOf(e, e, e)
  <2>1. e \in Seq(Lines)
    BY <1>3
  <2>2. \E k \in 0..Len(e) : /\ e = Kept(SubSeq(e, 1, k), Filled)
                             /\ e = FlattenSeq(SubSeq(e, k + 1, Len(e)))
    BY <1>8, <2>1, LinesReadFacts
  <2>3. e \in Seq(Seq(Bytes))
    BY <1>3
  <2>4. Printed(FlattenSeq(e)) \o Printed(e) = Printed(FlattenSeq(e))
    BY <1>5, <1>6, <1>7
  <2> QED  BY <2>2, <2>3, <2>4 DEF MadeOf
<1>10. PostsOnly(e)
  BY <1>3 DEF PostsOnly
<1> QED  BY <1>2, <1>4, <1>9, <1>10 DEF PostedInv

\* One more post is written.
LEMMA PostsOnlyMore ==
    ASSUME NEW w, IsSequence(w), PostsOnly(w), NEW text, NEW w2, Extends(w, Post(text), w2),
           Len(w) = 0 => text = SetStream
    PROVE  PostsOnly(w2)
<1>1. PICK m : m = Post(text)
  OBVIOUS
<1>2. /\ Len(w) \in Nat /\ Len(w2) = Len(w) + 1
      /\ \A i \in 1..Len(w) : w2[i] = w[i]
      /\ w2[Len(w) + 1] = m
  BY <1>1, ExtendsFacts
<1>3. m.msg = text /\ m = Post(m.msg)
  BY <1>1 DEF Post
<1> SUFFICES ASSUME NEW i \in 1..Len(w2)
             PROVE  w2[i] = Post(w2[i].msg) /\ (i = 1 => w2[i].msg = SetStream)
  BY DEF PostsOnly
<1>4. CASE i = Len(w) + 1
  <2>1. i = 1 => Len(w) = 0
    BY <1>2, <1>4
  <2> QED  BY <1>2, <1>3, <1>4, <2>1
<1>5. CASE i # Len(w) + 1
  <2>1. i \in 1..Len(w)
    BY <1>2, <1>5
  <2> QED  BY <1>2, <2>1 DEF PostsOnly
<1> QED  BY <1>4, <1>5

\* PostedInv is inductive, given CallsInvariant.
LEMMA PostedStep ==
    CallsInvariant /\ PostedInv /\ [MessageCallsNext]_vars => PostedInv'
<1> SUFFICES ASSUME CallsInvariant, PostedInv, [MessageCallsNext]_vars, Posting', ~ended'
             PROVE  /\ PostsOnly(written'["request"])
                    /\ MadeOf(lines', PostTexts(written'["request"]), stdin')
  BY DEF PostedInv
<1>1. /\ lines \in Seq(Lines) /\ stdin \in Seq(Bytes) /\ ended \in BOOLEAN
      /\ DOMAIN written = Directions /\ "request" \in Directions
  BY DEF CallsInvariant, CallInv, TerminalInv, Directions
<1>2. IsSequence(written["request"])
  <2>1. Carried(Type("request"), written["request"], received["request"], wire["request"],
                refused["request"], refused["request"])
    BY <1>1 DEF CallsInvariant, CarriedInv
  <2> QED  BY <2>1 DEF Carried
<1>3. UNCHANGED <<service, method>>
  BY DEF MessageCallsNext, Write, Read, TypeLine, EndInput, OpenTimeline, WritePost,
         WriteGarbage, vars, call
<1>4. Posting
  BY <1>3 DEF Posting
<1>5. ASSUME ~ended
      PROVE  /\ PostsOnly(written["request"])
             /\ MadeOf(lines, PostTexts(written["request"]), stdin)
  BY <1>4, <1>5 DEF PostedInv
<1>6. ASSUME UNCHANGED <<written, terminal>>
      PROVE  /\ PostsOnly(written'["request"])
             /\ MadeOf(lines', PostTexts(written'["request"]), stdin')
  <2>1. ~ended /\ written' = written /\ lines' = lines /\ stdin' = stdin
    BY <1>6 DEF terminal
  <2> QED  BY <1>5, <2>1
<1>7. ASSUME NEW d \in Directions, Write(d)
      PROVE  FALSE
  BY <1>4, <1>7 DEF Write
<1>8. ASSUME NEW d \in Directions, Read(d)
      PROVE  UNCHANGED <<written, terminal>>
  BY <1>8 DEF Read
<1>9. CASE TypeLine
  <2>1. PICK line \in Lines : lines' = Append(lines, line) /\ stdin' = stdin \o line
    BY <1>9 DEF TypeLine
  <2>2. written' = written /\ ~ended
    BY <1>9 DEF TypeLine
  <2>3. MadeOf(lines \o <<line>>, PostTexts(written["request"]), stdin \o line)
    BY <1>1, <1>5, <2>1, <2>2, MadeOfMore
  <2>4. lines' = lines \o <<line>>
    BY <1>1, <2>1, AppendIsConcat
  <2> QED  BY <1>5, <2>1, <2>2, <2>3, <2>4
<1>10. CASE EndInput
  BY <1>10 DEF EndInput
<1>11. CASE OpenTimeline
  <2>1. /\ written["request"] = <<>> /\ lines' = lines /\ stdin' = stdin /\ ~ended
        /\ Send("request", Post(SetStream))
    BY <1>11 DEF OpenTimeline, terminal
  <2>2. PICK w, w2, m : w = written["request"] /\ w2 = written'["request"] /\ m = Post(SetStream)
    OBVIOUS
  <2>3. Extends(w, m, w2) /\ Len(w) = 0
    BY <1>1, <2>1, <2>2 DEF Send, Extends
  <2>4. PostsOnly(w2)
    BY <1>2, <1>5, <2>1, <2>2, <2>3, PostsOnlyMore
  <2>5. PostTexts(w2) = PostTexts(w)
    <3>1. IsSequence(w)
      BY <1>2, <2>2
    <3>2. Len(w2) = Len(w) + 1
      BY <2>3, <3>1, ExtendsFacts
    <3>3. 1..(Len(w) - 1) = {} /\ 1..(Len(w2) - 1) = {}
      BY <2>3, <3>2
    <3> QED  BY <3>3 DEF PostTexts
  <2> QED  BY <1>5, <2>1, <2>2, <2>4, <2>5
<1>12. CASE WritePost
  <2>1. /\ written["request"] # <<>> /\ stdin # <<>> /\ lines' = lines /\ stdin' = Rest /\ ~ended
        /\ IF Fgets[1] = "newline" THEN UNCHANGED <<written, wire>>
                                   ELSE Send("request", Post(Fgets))
    BY <1>12 DEF WritePost
  <2>2. PICK F \in Seq(Bytes) : F = Fgets
    BY <1>1, FgetsFacts
  <2>3. PICK w, w2, m : w = written["request"] /\ w2 = written'["request"] /\ m = Post(F)
    OBVIOUS
  <2>4. MadeOf(lines, Posted(PostTexts(w)), Rest)
    BY <1>1, <1>5, <2>1, <2>3, MadeOfRead
  <2>5. CASE F[1] = "newline"
    <3>1. w2 = w
      BY <2>1, <2>2, <2>3, <2>5
    <3>2. Posted(PostTexts(w)) = PostTexts(w)
      BY <2>2, <2>5 DEF Posted
    <3> QED  BY <1>5, <2>1, <2>3, <2>4, <3>1, <3>2
  <2>6. CASE F[1] # "newline"
    <3>1. Send("request", m)
      BY <2>1, <2>2, <2>3, <2>6
    <3>2. Extends(w, m, w2)
      BY <1>1, <2>3, <3>1 DEF Send, Extends
    <3>3. Len(w) # 0
      <4>1. w # <<>>
        BY <2>1, <2>3
      <4> QED  BY <1>2, <2>3, <4>1 DEF IsSequence
    <3>4. PostsOnly(w2)
      BY <1>2, <1>5, <2>1, <2>3, <3>2, <3>3, PostsOnlyMore
    <3>5. PostTexts(w2) = PostTexts(w) \o <<F>>
      <4>1. m.msg = F
        BY <2>3 DEF Post
      <4>2. PostTexts(w) \in Seq(Seq(Bytes))
        BY <1>5, <2>1, <2>3 DEF MadeOf
      <4> QED  BY <1>2, <2>3, <3>2, <3>3, <4>1, <4>2, PostTextsGrow
    <3>6. Posted(PostTexts(w)) = PostTexts(w) \o <<F>>
      BY <2>2, <2>6 DEF Posted
    <3> QED  BY <2>1, <2>3, <2>4, <3>4, <3>5, <3>6
  <2> QED  BY <2>5, <2>6
<1>13. CASE WriteGarbage
  BY <1>13 DEF WriteGarbage, terminal
<1>14. CASE UNCHANGED vars
  BY <1>6, <1>14 DEF vars
<1> QED  BY <1>6, <1>7, <1>8, <1>9, <1>10, <1>11, <1>12, <1>13, <1>14 DEF MessageCallsNext

(***************************************************************************)
(* Until the user ends the input, what was posted and what is not yet read *)
(* are together what was typed (client.h:193).                             *)
(***************************************************************************)
THEOREM PostsCorrect == MessageCallsSpec => []PostedInv
<1> QED  BY CallsCorrect, PostedInit, PostedStep, PTL DEF MessageCallsSpec

\* What a server has read of the posts, of those that were written.
LEMMA PostsArrive ==
    ASSUME CallsInvariant, PostedInv, Posting, ~ended
    PROVE  \E p \in Seq(Seq(Bytes)), q \in Seq(Seq(Bytes)) :
               p = Posts /\ PostTexts(written["request"]) = p \o q
<1>1. PICK w, r : w = written["request"] /\ r = received["request"]
  OBVIOUS
<1>2. Carried(Type("request"), w, r, wire["request"], refused["request"], refused["request"])
  BY <1>1 DEF CallsInvariant, CarriedInv, Directions
<1>3. IsSequence(w) /\ IsSequence(r) /\ \A i \in 1..Len(r) : r[i] = w[i]
  BY <1>2 DEF Carried
<1>4. Len(r) <= Len(w)
  <2>1. "request" \in Directions /\ refused["request"] \in BOOLEAN
    BY DEF CallsInvariant, CallInv, Directions
  <2> QED  BY <1>2, <2>1, CarriedLengths
<1>5. PostTexts(w) \in Seq(Seq(Bytes))
  BY <1>1 DEF PostedInv, MadeOf
<1>6. Posts = PostTexts(r)
  BY <1>1 DEF Posts, PostTexts
<1>7. PICK p \in Seq(Seq(Bytes)), q \in Seq(Seq(Bytes)) :
             p = PostTexts(r) /\ Splits(PostTexts(w), p, q)
  BY <1>3, <1>4, <1>5, PostTextsPrefix
<1>8. p = Posts /\ PostTexts(written["request"]) = p \o q
  BY <1>1, <1>6, <1>7 DEF Splits
<1> QED  BY <1>7, <1>8

(***************************************************************************)
(* Until the user ends the input, the posts that reach the server are,     *)
(* joined, what the user typed from the beginning on (client.h:193).       *)
(***************************************************************************)
THEOREM PostsExact == MessageCallsSpec => []PostsAreTheText
<1>1. ASSUME CallsInvariant, PostedInv, Posting, ~ended
      PROVE  IsPrefix(Printed(FlattenSeq(Posts)), Printed(FlattenSeq(lines)))
  <2>1. PICK p \in Seq(Seq(Bytes)), q \in Seq(Seq(Bytes)) :
               p = Posts /\ PostTexts(written["request"]) = p \o q
    BY <1>1, PostsArrive
  <2>2. Printed(FlattenSeq(p \o q)) \o Printed(stdin) = Printed(FlattenSeq(lines))
    BY <1>1, <2>1 DEF PostedInv, MadeOf
  <2>3. PICK f \in Seq(Bytes), g \in Seq(Bytes) : f = FlattenSeq(p) /\ g = FlattenSeq(q)
    BY <2>1, FlattenType
  <2>4. FlattenSeq(p \o q) = f \o g
    BY <2>1, <2>3, FlattenConcat
  <2>5. stdin \in Seq(Bytes)
    BY <1>1 DEF CallsInvariant, TerminalInv
  <2>6. PICK a \in Seq(Bytes), b \in Seq(Bytes), c \in Seq(Bytes) :
               a = Printed(f) /\ b = Printed(g) /\ c = Printed(stdin)
    BY <2>3, <2>5, PrintedConcat
  <2>7. Printed(f \o g) = a \o b
    BY <2>3, <2>6, PrintedConcat
  <2>8. Printed(FlattenSeq(lines)) = (a \o b) \o c
    BY <2>2, <2>4, <2>6, <2>7
  <2>9. Associates(a, b, c)
    BY <2>6, ConcatAssociates
  <2>10. PICK d \in Seq(Bytes) : d = b \o c
    BY <2>6, ConcatProperties
  <2>11. Printed(FlattenSeq(lines)) = a \o d
    BY <2>8, <2>9, <2>10 DEF Associates
  <2>12. IsPrefix(a, a \o d)
    BY <2>6, <2>10, PrefixConcat
  <2> QED  BY <2>1, <2>3, <2>6, <2>11, <2>12
<1>2. CallsInvariant /\ PostedInv => PostsAreTheText
  BY <1>1 DEF PostsAreTheText
<1> QED  BY <1>2, CallsCorrect, PostsCorrect, PTL

\* A post of well-formed text parses.
LEMMA PostGood ==
    ASSUME NEW text \in Seq(Bytes), WellFormed(text)
    PROVE  ~HasBadText(SNS!Message, Post(text))
<1>1. Object(SNS!Message, Post(text))
  BY PostsFit DEF MessageOf
<1>2. WellFormed(<<"letter">>)
  <2>1. PICK e : e = <<"letter">>
    OBVIOUS
  <2>2. Len(e) = 1 /\ e[1] = "letter"
    BY <2>1
  <2>3. \A i \in 0..1 : /\ ~(i > 0 /\ e[i] = "lead")
                        /\ ~(i < 1 /\ e[i + 1] = "rest")
    BY <2>2
  <2> QED  BY <2>1, <2>2, <2>3 DEF WellFormed
<1>3. /\ SNS!Message.fields["username"] = "string" /\ Post(text).username = <<"letter">>
      /\ SNS!Message.fields["msg"] = "string" /\ Post(text).msg = text
      /\ SNS!Message.fields["timestamp"] = "message" /\ Post(text).timestamp = <<1>>
  BY DEF SNS!Message, SNS!MessageFields, Post
<1>4. \A f \in DOMAIN SNS!Message.fields : f \in {"username", "msg", "timestamp"}
  BY DEF SNS!Message, SNS!MessageFields
<1>5. \A f \in DOMAIN SNS!Message.fields : GoodField(SNS!Message.fields[f], Post(text)[f])
  BY <1>2, <1>3, <1>4 DEF GoodField
<1> QED  BY <1>1, <1>5, BadFields

\* The message that opens a timeline parses.
LEMMA SetStreamGood == SetStream \in Seq(Bytes) /\ WellFormed(SetStream)
<1>1. PICK e : e = SetStream
  OBVIOUS
<1>2. Len(e) = 2 /\ e[1] = "letter" /\ e[2] = "letter" /\ e \in Seq(Bytes)
  BY <1>1 DEF SetStream, Bytes
<1>3. \A i \in 0..2 : /\ ~(i > 0 /\ e[i] = "lead")
                      /\ ~(i < 2 /\ e[i + 1] = "rest")
  <2>1. \A i \in 0..2 : i = 0 \/ i = 1 \/ i = 2
    OBVIOUS
  <2> QED  BY <1>2, <2>1
<1> QED  BY <1>1, <1>2, <1>3 DEF WellFormed

(***************************************************************************)
(* A user whose lines all fit the buffer posts exactly them, but for the   *)
(* empty ones, and is not refused if they are UTF-8 (client.h:193,         *)
(* tsc.cc:361).                                                            *)
(***************************************************************************)
THEOREM ShortLinesWhole == MessageCallsSpec => []ShortLinesAreWhole
<1>1. ASSUME CallsInvariant, PostedInv, Posting, ~ended,
             \A i \in DOMAIN lines : Len(lines[i]) < MAX_DATA
      PROVE  /\ (\A i \in DOMAIN lines : WellFormed(lines[i])) => ~refused["request"]
             /\ IsPrefix(Posts, Kept(lines, Filled))
  <2>1. PICK typed \in Seq(Lines) : typed = lines
    BY <1>1 DEF CallsInvariant, TerminalInv
  <2>2. PICK w : w = written["request"]
    OBVIOUS
  <2>3. PostsOnly(w) /\ MadeOf(typed, PostTexts(w), stdin)
    BY <1>1, <2>1, <2>2 DEF PostedInv
  <2>4. LinesRead(typed, PostTexts(w), stdin)
    BY <1>1, <2>1, <2>3, LinesReadFacts DEF MadeOf
  <2>5. PICK a \in Seq(Lines), b \in Seq(Lines) : typed = a \o b /\ PostTexts(w) = Kept(a, Filled)
    BY <2>4 DEF LinesRead
  <2>6. PICK c \in Seq(Lines), d \in Seq(Lines) : c = Kept(a, Filled) /\ d = Kept(b, Filled)
    BY <2>5, KeptType
  <2>7. PostTexts(w) = c
    BY <2>5, <2>6
  <2>8. ASSUME \A i \in DOMAIN typed : WellFormed(typed[i]), refused["request"]
        PROVE  FALSE
    <3> DEFINE Good == {line \in Lines : WellFormed(line)}
    <3>8. c \in Seq(Good)
      <4>1. a \in Seq(Good)
        <5>1. /\ Len(a \o b) = Len(a) + Len(b)
              /\ \A i \in 1..(Len(a) + Len(b)) :
                   (a \o b)[i] = IF i <= Len(a) THEN a[i] ELSE b[i - Len(a)]
          BY <2>5, ConcatProperties
        <5>2. Len(a) \in Nat /\ Len(b) \in Nat /\ DOMAIN typed = 1..Len(typed)
          BY <2>1, <2>5
        <5>3. \A i \in 1..Len(a) : i \in DOMAIN typed /\ typed[i] = a[i]
          BY <2>5, <5>1, <5>2
        <5>4. \A i \in 1..Len(a) : a[i] \in Lines
          BY <2>5
        <5>5. \A i \in 1..Len(a) : a[i] \in Good
          BY <2>8, <5>3, <5>4
        <5>6. a = [i \in 1..Len(a) |-> a[i]]
          BY <2>5
        <5>7. PICK G : G = Good
          OBVIOUS
        <5> HIDE DEF Good
        <5>8. PICK n \in Nat : n = Len(a)
          BY <5>2
        <5>9. a \in [1..n -> G]
          BY <5>5, <5>6, <5>7, <5>8
        <5>10. a \in Seq(G)
          BY <5>9
        <5> QED  BY <5>7, <5>10
      <4> HIDE DEF Good
      <4> QED  BY <2>6, <4>1, KeptType
    <3>1. PICK n : n = Len(received["request"])
      OBVIOUS
    <3>2. Carried(SNS!Message, w, received["request"], wire["request"], TRUE, TRUE)
      <4>1. Type("request") = SNS!Message
        BY <1>1 DEF Posting, Type, Handlers, SNS!SNSService
      <4>2. Carried(Type("request"), w, received["request"], wire["request"],
                    refused["request"], refused["request"])
        BY <1>1, <2>2 DEF CallsInvariant, CarriedInv, Directions
      <4>3. refused["request"] = TRUE
        BY <1>1, <2>8 DEF CallsInvariant, CallInv, Directions
      <4> QED  BY <4>1, <4>2, <4>3
    <3>3. /\ HasBadText(SNS!Message, w[n + 1])
          /\ n + 1 + Len(wire["request"]) <= Len(w)
          /\ IsSequence(w) /\ IsSequence(received["request"]) /\ IsSequence(wire["request"])
      BY <3>1, <3>2 DEF Carried
    <3>4. n \in Nat /\ Len(w) \in Nat /\ n + 1 \in 1..Len(w)
      <4>1. n \in Nat /\ Len(w) \in Nat
        BY <3>1, <3>3 DEF IsSequence
      <4>2. PICK k \in Nat : k = Len(wire["request"])
        BY <3>3 DEF IsSequence
      <4>3. n + 1 + k <= Len(w)
        BY <3>3, <4>2
      <4> QED  BY <4>1, <4>3
    <3>5. PICK text : text = w[n + 1].msg
      OBVIOUS
    <3>6. w[n + 1] = Post(text) /\ (n + 1 = 1 => text = SetStream)
      BY <2>3, <3>4, <3>5 DEF PostsOnly
    <3>7. text \in Seq(Bytes) /\ WellFormed(text)
      <4>1. CASE n = 0
        BY <3>6, <4>1, SetStreamGood
      <4>2. CASE n # 0
        <5>1. n \in 1..(Len(w) - 1)
          BY <3>4, <4>2
        <5>2. PostTexts(w) = [i \in 1..(Len(w) - 1) |-> w[i + 1].msg]
          BY DEF PostTexts
        <5>3. PostTexts(w)[n] = text /\ n \in DOMAIN PostTexts(w)
          BY <3>5, <5>1, <5>2
        <5>4. c[n] = text /\ n \in DOMAIN c
          BY <2>7, <5>3
        <5>5. text \in Good
          BY <3>8, <5>4
        <5> QED  BY <5>5, CallsAssumption
      <4> QED  BY <4>1, <4>2
    <3> QED  BY <3>3, <3>6, <3>7, PostGood
  <2>9. IsPrefix(Posts, Kept(lines, Filled))
    <3>1. PICK p \in Seq(Seq(Bytes)), q \in Seq(Seq(Bytes)) :
                 p = Posts /\ PostTexts(w) = p \o q
      BY <1>1, <2>2, PostsArrive
    <3>2. c \in Seq(Seq(Bytes)) /\ d \in Seq(Seq(Bytes))
      BY <2>6, CallsAssumption
    <3>3. KeepsParts(a, b, Filled)
      BY <2>5, KeptParts
    <3>4. Kept(typed, Filled) = (p \o q) \o d
      BY <2>5, <2>6, <2>7, <3>1, <3>3 DEF KeepsParts
    <3>5. Associates(p, q, d)
      BY <3>1, <3>2, ConcatAssociates
    <3>6. PICK e \in Seq(Seq(Bytes)) : e = q \o d
      BY <3>1, <3>2, ConcatProperties
    <3>7. Kept(typed, Filled) = p \o e
      BY <3>4, <3>5, <3>6 DEF Associates
    <3>8. IsPrefix(p, p \o e)
      BY <3>1, <3>6, PrefixConcat
    <3> QED  BY <2>1, <3>1, <3>7, <3>8
  <2> QED  BY <2>1, <2>8, <2>9
<1>2. CallsInvariant /\ PostedInv => ShortLinesAreWhole
  BY <1>1 DEF ShortLinesAreWhole, Filled
<1> QED  BY <1>2, CallsCorrect, PostsCorrect, PTL

=============================================================================
