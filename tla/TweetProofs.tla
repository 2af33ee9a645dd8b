----------------------------- MODULE TweetProofs -----------------------------
(***************************************************************************)
(* Proofs that TweetInvariant holds of the jobs of TweetCount, and that    *)
(* the counts they write are then what they should be, for every input,    *)
(* every way to cut it into splits and every number of attempts.           *)
(***************************************************************************)
EXTENDS TweetInv, FunctionTheorems, FiniteSetTheorems, NaturalsInduction,
        WellFoundedInduction, TLAPS

-----------------------------------------------------------------------------
(***************************************************************************)
(* Sums over a finite set: the recursion that MapThenSumSet chooses, and   *)
(* what it sums when each number is the size of a set.                     *)
(***************************************************************************)
Summing(f, S, g) ==
    g = [T \in SUBSET S |-> IF T = {} THEN 0
                            ELSE f[CHOOSE x \in T : TRUE] + g[T \ {CHOOSE x \in T : TRUE}]]

\* The elements of the sets of a family.
Joined(D, T) == UNION {D[x] : x \in T}

Disjoint(D, S) == \A x, y \in S : x # y => D[x] \cap D[y] = {}

\* A family of disjoint finite sets, with and without one of them.
LEMMA JoinedOne ==
    ASSUME NEW S, IsFiniteSet(S), NEW D, \A x \in S : IsFiniteSet(D[x]), Disjoint(D, S)
    PROVE  \A T \in SUBSET S :
             /\ IsFiniteSet(Joined(D, T))
             /\ \A x \in T : Cardinality(Joined(D, T))
                               = Cardinality(D[x]) + Cardinality(Joined(D, T \ {x}))
<1> SUFFICES ASSUME NEW T \in SUBSET S
             PROVE  /\ IsFiniteSet(Joined(D, T))
                    /\ \A x \in T : Cardinality(Joined(D, T))
                                      = Cardinality(D[x]) + Cardinality(Joined(D, T \ {x}))
  OBVIOUS
<1>1. ASSUME NEW U \in SUBSET S PROVE IsFiniteSet(Joined(D, U))
  <2> DEFINE family == {D[x] : x \in U}
  <2>1. IsFiniteSet(U)
    BY FS_Subset
  <2>2. IsFiniteSet(family)
    <3>1. [x \in U |-> D[x]] \in Surjection(U, family)
      BY DEF Surjection
    <3> QED  BY <2>1, <3>1, FS_Surjection
  <2>3. \A E \in family : IsFiniteSet(E)
    OBVIOUS
  <2> HIDE DEF family
  <2>4. IsFiniteSet(UNION family)
    BY <2>2, <2>3, FS_UNION
  <2> QED  BY <2>4 DEF Joined, family
<1>2. ASSUME NEW x \in T
      PROVE  Cardinality(Joined(D, T)) = Cardinality(D[x]) + Cardinality(Joined(D, T \ {x}))
  <2> DEFINE rest == Joined(D, T \ {x})
  <2>1. Joined(D, T) = D[x] \cup rest
    BY DEF Joined
  <2>2. D[x] \cap rest = {}
    BY DEF Joined, Disjoint
  <2>3. IsFiniteSet(D[x]) /\ IsFiniteSet(rest)
    BY <1>1
  <2> HIDE DEF rest
  <2>4. Cardinality(D[x] \cup rest) = Cardinality(D[x]) + Cardinality(rest) - Cardinality({})
    BY <2>2, <2>3, FS_Union
  <2>5. Cardinality({}) = 0 /\ Cardinality(D[x]) \in Nat /\ Cardinality(rest) \in Nat
    BY <2>3, FS_EmptySet, FS_CardinalityType
  <2> QED  BY <2>1, <2>4, <2>5 DEF rest
<1> QED  BY <1>1, <1>2

\* The sum of the sizes of disjoint sets is the size of their union.
LEMMA SumOfSizes ==
    ASSUME NEW S, IsFiniteSet(S), NEW D, \A x \in S : IsFiniteSet(D[x]), Disjoint(D, S),
           NEW f, \A x \in S : f[x] = Cardinality(D[x])
    PROVE  /\ \E g : Summing(f, S, g)
           /\ \A g : Summing(f, S, g) => g[S] = Cardinality(Joined(D, S))
<1> DEFINE size == [T \in SUBSET S |-> Cardinality(Joined(D, T))]
           least(T) == CHOOSE x \in T : TRUE
<1>1. ASSUME NEW T \in SUBSET S, T # {}
      PROVE  /\ least(T) \in T /\ T \ {least(T)} \in SUBSET S
             /\ Cardinality(Joined(D, T))
                  = f[least(T)] + Cardinality(Joined(D, T \ {least(T)}))
  <2>1. least(T) \in T
    BY <1>1
  <2>2. \A x \in T : f[x] = Cardinality(D[x])
    OBVIOUS
  <2>3. \A x \in T : Cardinality(Joined(D, T))
                       = Cardinality(D[x]) + Cardinality(Joined(D, T \ {x}))
    BY JoinedOne
  <2> HIDE DEF least
  <2> QED  BY <2>1, <2>2, <2>3
<1>2. Cardinality(Joined(D, {})) = 0
  <2>1. Joined(D, {}) = {}
    BY DEF Joined
  <2> QED  BY <2>1, FS_EmptySet
<1>3. Summing(f, S, size)
  <2>1. ASSUME NEW T \in SUBSET S
        PROVE  size[T] = IF T = {} THEN 0 ELSE f[least(T)] + size[T \ {least(T)}]
    <3>1. CASE T = {}
      BY <3>1, <1>2
    <3>2. CASE T # {}
      BY <3>2, <1>1
    <3> QED  BY <3>1, <3>2
  <2> HIDE DEF size
  <2>2. size = [T \in SUBSET S |-> size[T]]
    BY DEF size
  <2> QED  BY <2>1, <2>2 DEF Summing
<1>4. ASSUME NEW g, Summing(f, S, g)
      PROVE  g[S] = Cardinality(Joined(D, S))
  <2>1. \A T \in SUBSET S : g[T] = IF T = {} THEN 0 ELSE f[least(T)] + g[T \ {least(T)}]
    BY <1>4 DEF Summing
  <2> DEFINE P(T) == g[T] = Cardinality(Joined(D, T))
             bad == {T \in SUBSET S : ~P(T)}
  <2>2. bad = {}
    <3> SUFFICES ASSUME bad # {} PROVE FALSE
      OBVIOUS
    <3>1. IsWellFoundedOn(StrictSubsetOrdering(S), SUBSET S)
      BY FS_StrictSubsetOrderingWellFounded, FS_FiniteSubsetsOfFinite
    <3>2. bad \subseteq SUBSET S
      OBVIOUS
    <3> HIDE DEF bad
    <3>3. PICK T \in bad : \A U \in bad : ~ <<U, T>> \in StrictSubsetOrdering(S)
      BY <3>1, <3>2, WFMin, Zenon
    <3>4. T \in SUBSET S /\ ~P(T)
      BY DEF bad
    <3>5. T # {}
      BY <3>4, <2>1, <1>2
    <3>6. least(T) \in T /\ T \ {least(T)} \in SUBSET S
      BY <3>4, <3>5, <1>1
    <3> DEFINE U == T \ {least(T)}
    <3>7. <<U, T>> \in StrictSubsetOrdering(S)
      BY <3>4, <3>6 DEF StrictSubsetOrdering
    <3>8. P(U)
      BY <3>3, <3>6, <3>7 DEF bad
    <3>9. g[T] = f[least(T)] + g[U]
      BY <2>1, <3>4, <3>5
    <3> QED  BY <3>4, <3>5, <3>8, <3>9, <1>1
  <2>3. S \in SUBSET S
    OBVIOUS
  <2> QED  BY <2>2, <2>3
<1> QED  BY <1>3, <1>4

-----------------------------------------------------------------------------
(***************************************************************************)
(* The lines of the input, of splits and of records.                       *)
(***************************************************************************)
\* The tweet that a line is of.
NumberOf(i) == ((i - 1) \div 4) + 1

\* A tweet is its T, U, W and empty line, in this order.
LEMMA LineFacts ==
    ASSUME NEW i \in 1..NumLines
    PROVE  /\ NumberOf(i) \in 1..NumTweets
           /\ i \in (4 * NumberOf(i) - 3)..(4 * NumberOf(i))
           /\ Kind(i) = "T" <=> i = 4 * NumberOf(i) - 3
           /\ Kind(i) = "U" <=> i = 4 * NumberOf(i) - 2
           /\ Kind(i) = "W" <=> i = 4 * NumberOf(i) - 1
           /\ Tweet(i) = tweets[NumberOf(i)]
<1> DEFINE k == (i - 1) \div 4
           r == (i - 1) % 4
<1>1. NumTweets \in Nat /\ NumLines = 4 * NumTweets
  BY TweetAssumption DEF NumLines
<1>2. i \in Int /\ i >= 1 /\ i <= 4 * NumTweets
  BY <1>1
<1>3. k \in Int /\ r \in 0..3 /\ i - 1 = 4 * k + r
  BY <1>2
<1> HIDE DEF k, r
<1>4. k >= 0 /\ k + 1 <= NumTweets
  BY <1>1, <1>2, <1>3
<1>5. NumberOf(i) = k + 1 /\ Tweet(i) = tweets[k + 1]
      /\ Kind(i) = <<"T", "U", "W", "empty">>[r + 1]
  BY DEF NumberOf, Tweet, Kind, k, r
<1>6. r = 0 \/ r = 1 \/ r = 2 \/ r = 3
  BY <1>3
<1>7. /\ Kind(i) = "T" <=> r = 0
      /\ Kind(i) = "U" <=> r = 1
      /\ Kind(i) = "W" <=> r = 2
  BY <1>5, <1>6
<1> QED  BY <1>1, <1>2, <1>3, <1>4, <1>5, <1>7

\* A tweet's lines, counted from its number.
LEMMA TweetLines ==
    ASSUME NEW k \in 1..NumTweets, NEW r \in 0..3
    PROVE  4 * k - r \in 1..NumLines /\ NumberOf(4 * k - r) = k
<1>1. NumTweets \in Nat /\ NumLines = 4 * NumTweets
  BY TweetAssumption DEF NumLines
<1>2. 4 * k - r \in 1..NumLines
  BY <1>1
<1>3. /\ NumberOf(4 * k - r) \in 1..NumTweets
      /\ 4 * k - r \in (4 * NumberOf(4 * k - r) - 3)..(4 * NumberOf(4 * k - r))
  BY <1>2, LineFacts
<1> DEFINE j == NumberOf(4 * k - r)
<1> HIDE DEF j
<1>4. j \in Int /\ k \in Int /\ 4 * k - r >= 4 * j - 3 /\ 4 * k - r <= 4 * j /\ r >= 0 /\ r <= 3
  BY <1>3 DEF j
<1>5. j = k
  BY <1>4
<1> QED  BY <1>2, <1>5 DEF j

\* Where the split of a task begins and ends, and where its task is in it.
LEMMA SplitFacts ==
    ASSUME TweetTypeOK, NEW t \in Tasks
    PROVE  /\ first[t] \in Nat /\ first[t] >= 1 /\ End(t) \in Nat /\ End(t) <= NumLines + 1
           /\ line[t] \in Nat /\ first[t] <= line[t] /\ line[t] <= End(t)
           /\ NumLines \in Nat
<1>1. NumTweets \in Nat /\ NumSplits \in Nat /\ NumLines = 4 * NumTweets
  BY TweetAssumption DEF NumLines
<1>2. End(t) \in 1..(NumLines + 1)
  <2>1. CASE t = NumSplits
    BY <1>1, <2>1 DEF End
  <2>2. CASE t # NumSplits
    <3>1. t + 1 \in Tasks
      BY <1>1, <2>2 DEF Tasks
    <3>2. first[t + 1] \in 1..(NumLines + 1)
      BY <3>1 DEF TweetTypeOK
    <3> QED  BY <2>2, <3>2 DEF End
  <2> QED  BY <2>1, <2>2
<1>3. first[t] \in 1..(NumLines + 1) /\ line[t] \in first[t]..End(t)
  BY DEF TweetTypeOK
<1> QED  BY <1>1, <1>2, <1>3

\* A whole record has one T line and one W line, of one tweet or, the W line first, of two.
LEMMA RecordFacts ==
    ASSUME TweetTypeOK, NEW t \in Tasks, line[t] + tweet_length <= End(t)
    PROVE  /\ Record(t) \subseteq Lines(t) /\ Record(t) \subseteq 1..NumLines
           /\ \E i, w \in Record(t) :
                /\ TimeLine(t) = {i} /\ Kind(i) = "T"
                /\ \A j \in Record(t) : Kind(j) = "W" <=> j = w
                /\ \/ w = i + 2 /\ Tweet(w) = Tweet(i)
                   \/ w = i - 2
<1> DEFINE L == line[t]
<1>1. /\ L \in Nat /\ L >= 1 /\ L + 3 <= NumLines /\ NumLines \in Nat
      /\ first[t] \in Nat /\ first[t] <= L /\ End(t) \in Nat /\ L + 4 <= End(t)
  BY SplitFacts DEF tweet_length
<1>2. Record(t) = L..(L + 3)
  BY <1>1 DEF Record, tweet_length
<1> HIDE DEF L
<1>3. Record(t) \subseteq Lines(t) /\ Record(t) \subseteq 1..NumLines
  BY <1>1, <1>2 DEF Lines, L
<1> DEFINE k == NumberOf(L)
<1>4. L \in 1..NumLines
  BY <1>1
<1>5. k \in 1..NumTweets /\ L \in (4 * k - 3)..(4 * k)
  BY <1>4, LineFacts
<1> HIDE DEF k
<1>6. k \in Nat /\ NumTweets \in Nat /\ NumLines = 4 * NumTweets
  BY <1>5, TweetAssumption DEF NumLines
<1>7. \A j \in Record(t) : /\ NumberOf(j) \in Nat
                           /\ j \in (4 * NumberOf(j) - 3)..(4 * NumberOf(j))
                           /\ Kind(j) = "T" <=> j = 4 * NumberOf(j) - 3
                           /\ Kind(j) = "W" <=> j = 4 * NumberOf(j) - 1
                           /\ Tweet(j) = tweets[NumberOf(j)]
  <2> SUFFICES ASSUME NEW j \in Record(t)
               PROVE  /\ NumberOf(j) \in Nat
                      /\ j \in (4 * NumberOf(j) - 3)..(4 * NumberOf(j))
                      /\ Kind(j) = "T" <=> j = 4 * NumberOf(j) - 3
                      /\ Kind(j) = "W" <=> j = 4 * NumberOf(j) - 1
                      /\ Tweet(j) = tweets[NumberOf(j)]
    OBVIOUS
  <2>1. j \in 1..NumLines
    BY <1>3
  <2>2. /\ NumberOf(j) \in 1..NumTweets
        /\ j \in (4 * NumberOf(j) - 3)..(4 * NumberOf(j))
        /\ Kind(j) = "T" <=> j = 4 * NumberOf(j) - 3
        /\ Kind(j) = "W" <=> j = 4 * NumberOf(j) - 1
        /\ Tweet(j) = tweets[NumberOf(j)]
    BY <2>1, LineFacts
  <2> QED  BY <1>6, <2>2
<1>8. \A j \in Record(t) : NumberOf(j) = IF j <= 4 * k THEN k ELSE k + 1
  BY SMTT(30), <1>2, <1>5, <1>6, <1>7, <1>1
<1>9. PICK i \in Record(t) : i = (IF L = 4 * k - 3 THEN L ELSE 4 * k + 1)
  BY <1>2, <1>5, <1>6, <1>1
<1>10. PICK w \in Record(t) : w = (IF L <= 4 * k - 1 THEN 4 * k - 1 ELSE 4 * k + 3)
  BY SMTT(30), <1>2, <1>5, <1>6, <1>1
<1>11. \A j \in Record(t) : Kind(j) = "T" <=> j = i
  <2> SUFFICES ASSUME NEW j \in Record(t) PROVE Kind(j) = "T" <=> j = i
    OBVIOUS
  <2>1. Kind(j) = "T" <=> j = 4 * (IF j <= 4 * k THEN k ELSE k + 1) - 3
    BY <1>7, <1>8
  <2>2. j \in L..(L + 3) /\ L \in (4 * k - 3)..(4 * k)
    BY <1>2, <1>5
  <2>3. (j = 4 * (IF j <= 4 * k THEN k ELSE k + 1) - 3) <=> j = i
    BY <2>2, <1>1, <1>6, <1>9
  <2> QED  BY <2>1, <2>3
<1>12. \A j \in Record(t) : Kind(j) = "W" <=> j = w
  <2> SUFFICES ASSUME NEW j \in Record(t) PROVE Kind(j) = "W" <=> j = w
    OBVIOUS
  <2>1. Kind(j) = "W" <=> j = 4 * (IF j <= 4 * k THEN k ELSE k + 1) - 1
    BY <1>7, <1>8
  <2>2. j \in L..(L + 3) /\ L \in (4 * k - 3)..(4 * k)
    BY <1>2, <1>5
  <2>3. (j = 4 * (IF j <= 4 * k THEN k ELSE k + 1) - 1) <=> j = w
    BY <2>2, <1>1, <1>6, <1>10
  <2> QED  BY <2>1, <2>3
<1>13. \/ w = i + 2 /\ NumberOf(w) = NumberOf(i)
       \/ w = i - 2
  BY <1>1, <1>2, <1>5, <1>6, <1>8, <1>9, <1>10
<1>14. TimeLine(t) = {i}
  BY <1>11 DEF TimeLine
<1> QED  BY <1>3, <1>7, <1>11, <1>12, <1>13, <1>14

\* The hour that a line of a record is given.
LEMMA HourAtFacts ==
    ASSUME NEW t, NEW i \in Nat, TimeLine(t) = {i}, NEW j \in Nat
    PROVE  HourAt(t, j) = IF i < j THEN Tweet(i).hour ELSE hour_of_day[t]
<1> DEFINE before == {n \in TimeLine(t) : n < j}
<1>1. Max({i}) = i
  <2>1. \E x \in {i} : \A y \in {i} : x >= y
    OBVIOUS
  <2>2. Max({i}) \in {i}
    BY <2>1 DEF Max
  <2> QED  BY <2>2
<1>2. CASE i < j
  <2>1. before = {i}
    BY <1>2
  <2> QED  BY <1>1, <1>2, <2>1 DEF HourAt
<1>3. CASE ~(i < j)
  <2>1. before = {}
    BY <1>3
  <2> QED  BY <1>3, <2>1 DEF HourAt
<1> QED  BY <1>2, <1>3

-----------------------------------------------------------------------------
(***************************************************************************)
(* What a task has counted, and how a step adds to it.                     *)
(***************************************************************************)
LEMMA CountedFinite ==
    ASSUME TweetTypeOK, NEW t \in Tasks, NEW h
    PROVE  IsFiniteSet(Read(t)) /\ IsFiniteSet(CountedLines(t, h))
<1>1. first[t] \in Int /\ line[t] - 1 \in Int
  BY SplitFacts
<1>2. IsFiniteSet(Read(t))
  BY <1>1, FS_Interval DEF Read
<1>3. CountedLines(t, h) \in SUBSET Read(t)
  BY DEF CountedLines
<1> QED  BY <1>2, <1>3, FS_Subset

\* A task that reads no line has the same lines counted.
LEMMA NothingRead ==
    ASSUME UNCHANGED input, NEW s, line'[s] = line[s]
    PROVE  \A h : CountedLines(s, h)' = CountedLines(s, h)
BY DEF CountedLines, Read, HourOfWords, Tweet, Kind, input

\* The pairs that are written when one more is.
LEMMA WriteFacts ==
    ASSUME TweetTypeOK, NEW t \in Tasks, NEW h \in Hours, Write(t, h)
    PROVE  /\ written' \in [Tasks -> [Hours -> Nat]]
           /\ \A s \in Tasks : \A g \in Hours :
                written'[s][g] = IF s = t /\ g = h THEN written[t][h] + 1 ELSE written[s][g]
<1>1. written \in [Tasks -> [Hours -> Nat]]
  BY DEF TweetTypeOK
<1>2. PICK row \in [Hours -> Nat] : row = [written[t] EXCEPT ![h] = written[t][h] + 1]
  <2>1. written[t] \in [Hours -> Nat] /\ written[t][h] \in Nat
    BY <1>1
  <2>2. written[t][h] + 1 \in Nat
    BY <2>1
  <2>3. [written[t] EXCEPT ![h] = written[t][h] + 1] \in [Hours -> Nat]
    BY <2>1, <2>2
  <2> QED  BY <2>3
<1>3. written' = [written EXCEPT ![t] = row]
  BY <1>2 DEF Write
<1>4. \A g \in Hours : row[g] = IF g = h THEN written[t][h] + 1 ELSE written[t][g]
  BY <1>1, <1>2
<1> QED  BY <1>1, <1>3, <1>4

\* Counting one more line under the hour that is written keeps the two in step.
LEMMA OneMoreLine ==
    ASSUME TweetTypeOK, WrittenInv, NEW t \in Tasks, NEW h \in Hours, Write(t, h),
           NEW i, i \notin Read(t),
           \A g \in Hours : CountedLines(t, g)' = IF g = h THEN CountedLines(t, g) \cup {i}
                                                           ELSE CountedLines(t, g),
           \A s \in Tasks \ {t} : \A g \in Hours : CountedLines(s, g)' = CountedLines(s, g)
    PROVE  WrittenInv'
<1> SUFFICES ASSUME NEW s \in Tasks, NEW g \in Hours
             PROVE  written'[s][g] = Cardinality(CountedLines(s, g)')
  BY DEF WrittenInv
<1>1. written[s][g] = Cardinality(CountedLines(s, g))
  BY DEF WrittenInv
<1>2. written'[s][g] = IF s = t /\ g = h THEN written[t][h] + 1 ELSE written[s][g]
  BY WriteFacts
<1>3. CASE s = t /\ g = h
  <2>1. i \notin CountedLines(t, h) /\ IsFiniteSet(CountedLines(t, h))
    <3>1. i \notin CountedLines(t, h)
      BY DEF CountedLines
    <3> QED  BY <3>1, CountedFinite
  <2>2. Cardinality(CountedLines(t, h) \cup {i}) = Cardinality(CountedLines(t, h)) + 1
    BY <2>1, FS_AddElement
  <2> QED  BY <1>1, <1>2, <1>3, <2>2
<1>4. CASE s = t /\ g # h
  BY <1>1, <1>2, <1>4
<1>5. CASE s # t
  BY <1>1, <1>2, <1>5
<1> QED  BY <1>3, <1>4, <1>5

\* Where no line is counted, and nothing written.
LEMMA NoMoreLines ==
    ASSUME WrittenInv, UNCHANGED written,
           \A s \in Tasks : \A g \in Hours : CountedLines(s, g)' = CountedLines(s, g)
    PROVE  WrittenInv'
BY DEF WrittenInv

\* The words of a whole record are given the hour of the T line two lines above
\* them, or 0 where that is of the split before.
LEMMA HourOfRecord ==
    ASSUME TweetTypeOK, FieldInv, job = "tweets", NEW t \in Tasks,
           line[t] + tweet_length <= End(t), NEW i \in Record(t), NEW w \in Record(t),
           TimeLine(t) = {i}, Kind(w) = "W",
           \/ w = i + 2 /\ Tweet(w) = Tweet(i)
           \/ w = i - 2
    PROVE  HourAt(t, w) = HourOfWords(t, w)
<1> DEFINE L == line[t]
<1>1. /\ L \in Nat /\ NumLines \in Nat
      /\ first[t] \in Nat /\ first[t] >= 1 /\ first[t] <= L
  BY SplitFacts
<1>2. Record(t) = L..(L + 3)
  BY <1>1 DEF Record, tweet_length
<1>3. (L - first[t]) % 4 = 0 /\ (L = first[t] => hour_of_day[t] = 0)
  BY DEF FieldInv, tweet_length
<1>0. Record(t) \subseteq 1..NumLines
  BY RecordFacts
<1> HIDE DEF L
<1>4. i \in Nat /\ w \in Nat
  BY <1>1, <1>2
<1>5. HourAt(t, w) = IF i < w THEN Tweet(i).hour ELSE hour_of_day[t]
  BY <1>4, HourAtFacts
<1>6. CASE w = i + 2 /\ Tweet(w) = Tweet(i)
  <2>1. w - 2 >= first[t] /\ i < w
    BY <1>1, <1>2, <1>6
  <2> QED  BY <1>5, <1>6, <2>1 DEF HourOfWords
<1>7. CASE w = i - 2
  <2>1. ~(i < w) /\ w - 2 < L /\ w >= L
    BY <1>1, <1>2, <1>4, <1>7
  <2>2. CASE w - 2 >= first[t]
    <3>1. w - 2 \in Read(t)
      BY <1>1, <1>4, <2>1, <2>2 DEF Read, L
    <3>2. /\ NumberOf(w) \in 1..NumTweets
          /\ w = 4 * NumberOf(w) - 1
          /\ Tweet(w) = tweets[NumberOf(w)]
      BY <1>0, LineFacts
    <3>3. w - 2 = 4 * NumberOf(w) - 3
      BY <3>2, <1>4
    <3>4. w - 2 \in 1..NumLines /\ NumberOf(w - 2) = NumberOf(w)
      BY <3>2, <3>3, TweetLines
    <3>5. Kind(w - 2) = "T" /\ Tweet(w - 2) = Tweet(w)
      BY <3>2, <3>3, <3>4, LineFacts
    <3>6. (w - 2) + 4 >= L
      BY <1>1, <1>4, <2>1
    <3>7. hour_of_day[t] = Tweet(w - 2).hour
      BY <3>1, <3>5, <3>6 DEF FieldInv, tweet_length, L
    <3> QED  BY <1>5, <2>1, <2>2, <3>5, <3>7 DEF HourOfWords
  <2>3. CASE ~(w - 2 >= first[t])
    <3>1. L = first[t]
      <4>1. L - first[t] \in {0, 1}
        BY <1>1, <1>4, <2>1, <2>3
      <4> QED  BY <4>1, <1>1, <1>3
    <3> QED  BY <1>3, <1>5, <2>1, <2>3, <3>1 DEF HourOfWords
  <2> QED  BY <2>2, <2>3
<1> QED  BY <1>6, <1>7

-----------------------------------------------------------------------------
(***************************************************************************)
(* The invariant at the start.                                             *)
(***************************************************************************)
\* Splits that follow one another are in order.
LEMMA InOrder ==
    ASSUME first \in [Tasks -> 1..(NumLines + 1)], NumLines \in Nat,
           \A t \in Tasks \ {1} : first[t - 1] <= first[t]
    PROVE  \A s, t \in Tasks : s < t => End(s) <= first[t]
<1> DEFINE bad == {t \in Tasks : \E s \in Tasks : s < t /\ ~(End(s) <= first[t])}
<1>0. NumSplits \in Nat
  BY TweetAssumption
<1>1. bad = {}
  <2> SUFFICES ASSUME bad # {} PROVE FALSE
    OBVIOUS
  <2>1. bad \in SUBSET Nat
    BY DEF Tasks
  <2>2. IsWellFoundedOn(OpToRel(<, Nat), Nat)
    BY NatLessThanWellFounded
  <2>3. PICK t \in bad : \A u \in bad : ~ <<u, t>> \in OpToRel(<, Nat)
    BY <2>1, <2>2, WFMin, Zenon
  <2>4. \A u \in bad : ~(u < t)
    BY <2>1, <2>3 DEF OpToRel
  <2>5. t \in Tasks
    OBVIOUS
  <2>6. PICK s \in Tasks : s < t /\ ~(End(s) <= first[t])
    OBVIOUS
  <2> HIDE DEF bad
  <2>7. t \in Nat /\ s \in Nat /\ t - 1 \in Tasks /\ t # 1 /\ s # NumSplits /\ s + 1 \in Tasks
    BY <2>5, <2>6, <1>0 DEF Tasks
  <2>8. first[t - 1] <= first[t] /\ End(s) = first[s + 1]
    BY <2>5, <2>7 DEF End
  <2>9. s + 1 # t
    <3>1. first[t] \in Nat
      BY <2>5
    <3> QED  BY <2>6, <2>8, <3>1
  <2>10. s < t - 1
    BY <2>6, <2>7, <2>9
  <2>11. t - 1 \notin bad
    BY <2>4, <2>7
  <2>12. End(s) <= first[t - 1]
    BY <2>7, <2>10, <2>11 DEF bad
  <2>13. first[t - 1] \in Nat /\ first[t] \in Nat /\ first[s + 1] \in Nat
    BY <2>5, <2>7
  <2> QED  BY <2>6, <2>8, <2>12, <2>13
<1> QED  BY <1>1

\* TweetInvariant holds at first: nothing is read and nothing written.
LEMMA TweetInitInvariant == TweetInit => TweetInvariant
<1> SUFFICES ASSUME TweetInit PROVE TweetInvariant
  OBVIOUS
<1>0. /\ NumTweets \in Nat /\ NumLines \in Nat /\ NumSplits \in Nat /\ NumSplits >= 1
      /\ MaxAttempts \in Nat /\ MaxAttempts >= 1 /\ 1 \in Tasks /\ 0 \in Hours
  BY TweetAssumption DEF NumLines, Tasks
<1>1. first \in [Tasks -> 1..(NumLines + 1)] /\ line = first
  BY DEF TweetInit
<1>2. SplitsInOrder
  BY <1>0, <1>1, InOrder DEF TweetInit, SplitsInOrder
<1>3. \A t \in Tasks : first[t] <= End(t)
  <2> SUFFICES ASSUME NEW t \in Tasks PROVE first[t] <= End(t)
    OBVIOUS
  <2>1. first[t] \in 1..(NumLines + 1)
    BY <1>1
  <2>2. CASE t = NumSplits
    BY <1>0, <2>1, <2>2 DEF End
  <2>3. CASE t # NumSplits
    <3>1. t + 1 \in Tasks /\ t + 1 # 1 /\ (t + 1) - 1 = t
      BY <1>0, <2>3 DEF Tasks
    <3>2. first[(t + 1) - 1] <= first[t + 1]
      BY <3>1 DEF TweetInit
    <3> QED  BY <2>3, <3>1, <3>2 DEF End
  <2> QED  BY <2>2, <2>3
<1>4. TweetTypeOK
  <2>1. \A t \in Tasks : line[t] \in first[t]..End(t)
    <3> SUFFICES ASSUME NEW t \in Tasks PROVE line[t] \in first[t]..End(t)
      OBVIOUS
    <3>1. first[t] \in Nat /\ first[t] <= End(t)
      BY <1>0, <1>1, <1>3
    <3>2. End(t) \in Int
      <4>1. CASE t = NumSplits
        BY <1>0, <4>1 DEF End
      <4>2. CASE t # NumSplits
        <5>1. t + 1 \in Tasks
          BY <1>0, <4>2 DEF Tasks
        <5> QED  BY <1>1, <4>2, <5>1 DEF End
      <4> QED  BY <4>1, <4>2
    <3> QED  BY <1>1, <3>1, <3>2
  <2> QED  BY <1>0, <1>1, <2>1 DEF TweetInit, TweetTypeOK, None
<1>5. \A t \in Tasks : Read(t) = {}
  BY <1>0, <1>1 DEF Read
<1>6. WrittenInv
  <2>1. \A t \in Tasks : \A h \in Hours : CountedLines(t, h) = {}
    BY <1>5 DEF CountedLines
  <2>2. Cardinality({}) = 0
    BY FS_EmptySet
  <2> QED  BY <2>1, <2>2 DEF WrittenInv, TweetInit, None
<1>7. FieldInv
  <2>1. \A t \in Tasks : (line[t] - first[t]) % tweet_length = 0
    <3> SUFFICES ASSUME NEW t \in Tasks PROVE (line[t] - first[t]) % tweet_length = 0
      OBVIOUS
    <3>1. first[t] \in Int /\ line[t] = first[t]
      BY <1>1
    <3>2. line[t] - first[t] = 0
      BY <3>1
    <3> QED  BY <3>2 DEF tweet_length
  <2> QED  BY <1>5, <2>1 DEF FieldInv, TweetInit
<1>8. DoneInv /\ OutputInv
  BY DEF DoneInv, OutputInv, Finished, TweetInit
<1> QED  BY <1>2, <1>4, <1>6, <1>7, <1>8 DEF TweetInvariant

-----------------------------------------------------------------------------
(***************************************************************************)
(* What the reducer sums.                                                  *)
(***************************************************************************)
\* Two tasks count different lines.
LEMMA TasksAreApart ==
    ASSUME TweetTypeOK, SplitsInOrder, NEW s \in Tasks, NEW t \in Tasks, s # t
    PROVE  /\ Lines(s) \cap Lines(t) = {}
           /\ Read(s) \subseteq Lines(s)
           /\ \A g, h : CountedLines(s, g) \cap CountedLines(t, h) = {}
<1>1. ASSUME NEW u \in Tasks PROVE Read(u) \subseteq Lines(u)
  <2>1. first[u] \in Nat /\ line[u] \in Nat /\ End(u) \in Nat /\ line[u] <= End(u)
    BY SplitFacts
  <2> QED  BY <2>1 DEF Read, Lines
<1>2. ASSUME NEW u \in Tasks, NEW v \in Tasks, u < v
      PROVE  Lines(u) \cap Lines(v) = {}
  <2>1. first[u] \in Nat /\ End(u) \in Nat /\ first[v] \in Nat /\ End(v) \in Nat
    BY SplitFacts
  <2>2. End(u) <= first[v]
    BY <1>2 DEF SplitsInOrder
  <2> QED  BY <2>1, <2>2 DEF Lines
<1>3. s < t \/ t < s
  BY TweetAssumption DEF Tasks
<1>4. Lines(s) \cap Lines(t) = {}
  BY <1>2, <1>3
<1>5. \A u, h : CountedLines(u, h) \subseteq Read(u)
  BY DEF CountedLines
<1> QED  BY <1>1, <1>4, <1>5

\* The sum of what the tasks have written is the number of lines they counted.
LEMMA TotalIsSize ==
    ASSUME TweetTypeOK, SplitsInOrder, WrittenInv, NEW h \in Hours
    PROVE  Total(h) = Cardinality(AllCounted(h)) /\ IsFiniteSet(AllCounted(h))
<1> DEFINE D == [t \in Tasks |-> CountedLines(t, h)]
           f == [t \in Tasks |-> written[t][h]]
<1>1. IsFiniteSet(Tasks)
  BY TweetAssumption, FS_Interval DEF Tasks
<1>2. \A t \in Tasks : IsFiniteSet(D[t])
  BY CountedFinite
<1>3. Disjoint(D, Tasks)
  BY TasksAreApart DEF Disjoint
<1>4. \A t \in Tasks : f[t] = Cardinality(D[t])
  BY DEF WrittenInv
<1>5. Joined(D, Tasks) = AllCounted(h)
  BY DEF Joined, AllCounted
<1> HIDE DEF D
<1>6. /\ \E g : Summing(f, Tasks, g)
      /\ \A g : Summing(f, Tasks, g) => g[Tasks] = Cardinality(Joined(D, Tasks))
  <2> HIDE DEF f
  <2> QED  BY <1>1, <1>2, <1>3, <1>4, SumOfSizes
<1>7. IsFiniteSet(AllCounted(h))
  BY <1>1, <1>2, <1>3, <1>5, JoinedOne
<1> DEFINE least(T) == CHOOSE t \in T : TRUE
           Adds(g) == g = [T \in SUBSET Tasks |-> IF T = {} THEN 0
                                                  ELSE written[least(T)][h] + g[T \ {least(T)}]]
<1>8. ASSUME NEW g PROVE Adds(g) <=> Summing(f, Tasks, g)
  <2>1. \A T \in SUBSET Tasks : T # {} => f[least(T)] = written[least(T)][h]
    OBVIOUS
  <2>2. [T \in SUBSET Tasks |-> IF T = {} THEN 0
                                ELSE written[least(T)][h] + g[T \ {least(T)}]]
        = [T \in SUBSET Tasks |-> IF T = {} THEN 0
                                  ELSE f[least(T)] + g[T \ {least(T)}]]
    <3> HIDE DEF f, least
    <3> QED  BY <2>1
  <2> QED  BY <2>2, Zenon DEF Summing
<1>9. Total(h) = (CHOOSE g : Adds(g))[Tasks]
  BY Zenon DEF Total, MapThenSumSet, MapThenFoldSet
<1> HIDE DEF Adds, f
<1>10. Adds(CHOOSE g : Adds(g))
  BY <1>6, <1>8, Zenon
<1>11. Summing(f, Tasks, CHOOSE g : Adds(g))
  BY <1>8, <1>10, Zenon
<1> QED  BY <1>5, <1>6, <1>7, <1>9, <1>11, Zenon

-----------------------------------------------------------------------------
(***************************************************************************)
(* The invariant after each step.                                          *)
(***************************************************************************)
\* A step of a task leaves the splits in order and, as the task is not done, no output.
LEMMA InputStays ==
    ASSUME TweetInvariant, NEW t \in Tasks, task[t] = "running", UNCHANGED <<input, output>>
    PROVE  /\ SplitsInOrder' /\ OutputInv'
           /\ job' = job /\ tweets' = tweets /\ first' = first /\ output' = output
           /\ output = <<>>
           /\ \A s : End(s)' = End(s)
           /\ \A i : Kind(i)' = Kind(i) /\ Tweet(i)' = Tweet(i)
<1>1. job' = job /\ tweets' = tweets /\ first' = first /\ output' = output
  BY DEF input
<1>2. \A s : End(s)' = End(s)
  BY <1>1 DEF End
<1>3. SplitsInOrder'
  BY <1>1, <1>2 DEF TweetInvariant, SplitsInOrder
<1>4. output = <<>>
  BY DEF TweetInvariant, OutputInv, Finished
<1>5. OutputInv'
  BY <1>1, <1>4 DEF OutputInv, Finished
<1> QED  BY <1>1, <1>2, <1>3, <1>4, <1>5 DEF Tweet, Kind

\* MapLine reads one line and counts it when it is a T line with a time.
LEMMA MapLineInvariant ==
    ASSUME TweetInvariant, NEW t \in Tasks, task[t] = "running", MapLine(t)
    PROVE  TweetInvariant'
<1> DEFINE L == line[t]
           counts(h) == Kind(L) = "T" /\ Tweet(L).hour = h
<1>1. TweetTypeOK /\ SplitsInOrder /\ WrittenInv /\ FieldInv /\ DoneInv
  BY DEF TweetInvariant
<1>2. /\ job = "lines" /\ L < End(t) /\ line' = [line EXCEPT ![t] = L + 1]
      /\ UNCHANGED <<input, hour_of_day, attempts, task, output>>
  BY DEF MapLine
<1>3. /\ SplitsInOrder' /\ OutputInv'
      /\ job' = job /\ tweets' = tweets /\ first' = first /\ output' = output
      /\ \A s : End(s)' = End(s)
      /\ \A i : Kind(i)' = Kind(i) /\ Tweet(i)' = Tweet(i)
  BY <1>2, InputStays
<1>4. /\ L \in Nat /\ first[t] \in Nat /\ first[t] >= 1 /\ first[t] <= L
      /\ End(t) \in Nat /\ End(t) <= NumLines + 1 /\ NumLines \in Nat
  BY <1>1, SplitFacts
<1>5. /\ line \in [Tasks -> 1..(NumLines + 1)]
      /\ written \in [Tasks -> [Hours -> Nat]]
  BY <1>1 DEF TweetTypeOK
<1>6. line' \in [Tasks -> 1..(NumLines + 1)] /\ \A s \in Tasks : line'[s] \in first[s]..End(s)
  <2>1. L + 1 \in 1..(NumLines + 1) /\ L + 1 \in first[t]..End(t)
    BY <1>2, <1>4
  <2>2. \A s \in Tasks : line[s] \in first[s]..End(s)
    BY <1>1 DEF TweetTypeOK
  <2> HIDE DEF L
  <2> QED  BY <1>2, <1>5, <2>1, <2>2
<1>7. \A s \in Tasks \ {t} : \A h \in Hours : CountedLines(s, h)' = CountedLines(s, h)
  <2> SUFFICES ASSUME NEW s \in Tasks \ {t}
               PROVE  \A h \in Hours : CountedLines(s, h)' = CountedLines(s, h)
    OBVIOUS
  <2>1. line'[s] = line[s]
    BY <1>2, <1>5
  <2> QED  BY <1>2, <2>1, NothingRead
<1>8. \A h \in Hours : CountedLines(t, h)' = IF counts(h) THEN CountedLines(t, h) \cup {L}
                                                           ELSE CountedLines(t, h)
  <2> SUFFICES ASSUME NEW h \in Hours
               PROVE  CountedLines(t, h)' = IF counts(h) THEN CountedLines(t, h) \cup {L}
                                                          ELSE CountedLines(t, h)
    OBVIOUS
  <2>1. line'[t] = L + 1
    BY <1>2, <1>5
  <2>2. Read(t)' = first[t]..L
    BY <1>3, <1>4, <2>1 DEF Read
  <2>3. Read(t) = first[t]..(L - 1)
    BY DEF Read
  <2> HIDE DEF L
  <2>4. first[t]..L = (first[t]..(L - 1)) \cup {L}
    BY <1>4
  <2>5. CountedLines(t, h)' = {i \in Read(t)' : Kind(i) = "T" /\ Tweet(i).hour = h}
    BY <1>2, <1>3 DEF CountedLines
  <2>6. CountedLines(t, h) = {i \in Read(t) : Kind(i) = "T" /\ Tweet(i).hour = h}
    BY <1>2 DEF CountedLines
  <2> QED  BY <2>2, <2>3, <2>4, <2>5, <2>6
<1>9. L \notin Read(t) /\ L \in 1..NumLines
  BY <1>2, <1>4 DEF Read
<1>10. Tweet(L).hour \in Hours \cup {NoTime} /\ NoTime \notin Hours
  <2>1. tweets[NumberOf(L)] \in [hour : Hours \cup {NoTime}, sleep : BOOLEAN]
    BY <1>1, <1>9, LineFacts DEF TweetTypeOK
  <2>2. Tweet(L) = tweets[NumberOf(L)]
    BY <1>9, LineFacts
  <2> QED  BY <2>1, <2>2, TweetAssumption
<1>11. WrittenInv' /\ written' \in [Tasks -> [Hours -> Nat]]
  <2>1. CASE Kind(L) = "T" /\ Tweet(L).hour # NoTime
    <3>1. Tweet(L).hour \in Hours /\ Write(t, Tweet(L).hour)
      BY <1>10, <2>1 DEF MapLine
    <3>2. \A h \in Hours : CountedLines(t, h)' = IF h = Tweet(L).hour
                                                  THEN CountedLines(t, h) \cup {L}
                                                  ELSE CountedLines(t, h)
      BY <1>8, <2>1
    <3>3. WrittenInv'
      BY <1>1, <1>7, <1>9, <3>1, <3>2, OneMoreLine
    <3> QED  BY <1>1, <3>1, <3>3, WriteFacts
  <2>2. CASE ~(Kind(L) = "T" /\ Tweet(L).hour # NoTime)
    <3>1. UNCHANGED written
      BY <2>2 DEF MapLine
    <3>2. \A h \in Hours : CountedLines(t, h)' = CountedLines(t, h)
      BY <1>8, <1>10, <2>2
    <3>3. WrittenInv'
      BY <1>1, <1>7, <3>1, <3>2, NoMoreLines
    <3> QED  BY <1>5, <3>1, <3>3
  <2> QED  BY <2>1, <2>2
<1>12. TweetTypeOK'
  BY <1>1, <1>2, <1>3, <1>6, <1>11 DEF TweetTypeOK
<1>13. FieldInv'
  BY <1>2, <1>3 DEF FieldInv
<1>14. DoneInv'
  <2> SUFFICES ASSUME NEW s \in Tasks, task'[s] = "done"
               PROVE  line'[s] = End(s)'
    BY <1>2, <1>3 DEF DoneInv
  <2>1. s # t /\ task[s] = "done"
    BY <1>2
  <2>2. line[s] = End(s)
    BY <1>1, <1>2, <2>1 DEF DoneInv
  <2> QED  BY <1>2, <1>3, <1>5, <2>1, <2>2
<1> QED  BY <1>3, <1>11, <1>12, <1>13, <1>14 DEF TweetInvariant

\* MapTweet reads a record and counts its W line when its words mention sleep.
LEMMA MapTweetInvariant ==
    ASSUME TweetInvariant, NEW t \in Tasks, task[t] = "running", MapTweet(t)
    PROVE  TweetInvariant'
<1> DEFINE L == line[t]
<1>1. TweetTypeOK /\ SplitsInOrder /\ WrittenInv /\ FieldInv /\ DoneInv
  BY DEF TweetInvariant
<1>2. /\ job = "tweets" /\ L + 4 <= End(t) /\ line' = [line EXCEPT ![t] = L + 4] /\ ~Throws(t)
      /\ hour_of_day' = [hour_of_day EXCEPT ![t] = HourAt(t, L + 4)]
      /\ UNCHANGED <<input, attempts, task, output>>
  BY DEF MapTweet, tweet_length
<1>3. /\ SplitsInOrder' /\ OutputInv'
      /\ job' = job /\ tweets' = tweets /\ first' = first /\ output' = output
      /\ \A s : End(s)' = End(s)
      /\ \A i : Kind(i)' = Kind(i) /\ Tweet(i)' = Tweet(i)
  BY <1>2, InputStays
<1>4. /\ L \in Nat /\ first[t] \in Nat /\ first[t] >= 1 /\ first[t] <= L
      /\ End(t) \in Nat /\ End(t) <= NumLines + 1 /\ NumLines \in Nat
  BY <1>1, SplitFacts
<1>5. /\ line \in [Tasks -> 1..(NumLines + 1)]
      /\ hour_of_day \in [Tasks -> Hours]
      /\ written \in [Tasks -> [Hours -> Nat]]
  BY <1>1 DEF TweetTypeOK
<1>6. line' \in [Tasks -> 1..(NumLines + 1)] /\ \A s \in Tasks : line'[s] \in first[s]..End(s)
  <2>1. L + 4 \in 1..(NumLines + 1) /\ L + 4 \in first[t]..End(t)
    BY <1>2, <1>4
  <2>2. \A s \in Tasks : line[s] \in first[s]..End(s)
    BY <1>1 DEF TweetTypeOK
  <2> HIDE DEF L
  <2> QED  BY <1>2, <1>5, <2>1, <2>2
<1>7. \A s \in Tasks \ {t} : \A h \in Hours : CountedLines(s, h)' = CountedLines(s, h)
  <2> SUFFICES ASSUME NEW s \in Tasks \ {t}
               PROVE  \A h \in Hours : CountedLines(s, h)' = CountedLines(s, h)
    OBVIOUS
  <2>1. line'[s] = line[s]
    BY <1>2, <1>5
  <2> QED  BY <1>2, <2>1, NothingRead
<1>8. L + tweet_length <= End(t)
  BY <1>2 DEF tweet_length
<1>9. /\ Record(t) \subseteq 1..NumLines
      /\ \E i, w \in Record(t) :
           /\ TimeLine(t) = {i} /\ Kind(i) = "T"
           /\ \A j \in Record(t) : Kind(j) = "W" <=> j = w
           /\ (w = i + 2 /\ Tweet(w) = Tweet(i)) \/ w = i - 2
  BY <1>1, <1>8, RecordFacts
<1>10. PICK i \in Record(t), w \in Record(t) :
           /\ TimeLine(t) = {i} /\ Kind(i) = "T"
           /\ \A j \in Record(t) : Kind(j) = "W" <=> j = w
           /\ (w = i + 2 /\ Tweet(w) = Tweet(i)) \/ w = i - 2
  BY <1>9
<1>11. /\ Record(t) = L..(L + 3) /\ i \in Nat /\ w \in Nat /\ i < L + 4
       /\ i \in 1..NumLines /\ w \in 1..NumLines
  <2>1. Record(t) = L..(L + 3)
    BY <1>4 DEF Record, tweet_length
  <2> QED  BY SMTT(30), <1>4, <1>9, <2>1
<1>12. \A j \in {i, w} : Tweet(j).hour \in Hours \cup {NoTime} /\ Tweet(j).sleep \in BOOLEAN
  <2> SUFFICES ASSUME NEW j \in {i, w}
               PROVE  Tweet(j).hour \in Hours \cup {NoTime} /\ Tweet(j).sleep \in BOOLEAN
    OBVIOUS
  <2>1. NumberOf(j) \in 1..NumTweets /\ Tweet(j) = tweets[NumberOf(j)]
    BY <1>11, LineFacts
  <2>2. tweets[NumberOf(j)] \in [hour : Hours \cup {NoTime}, sleep : BOOLEAN]
    BY <1>1, <2>1 DEF TweetTypeOK
  <2> QED  BY <2>1, <2>2
<1>13. Tweet(i).hour # NoTime /\ Tweet(i).hour \in Hours
  BY <1>2, <1>10, <1>12 DEF Throws
<1>14. HourAt(t, L + 4) = Tweet(i).hour
  <2>1. L + 4 \in Nat
    BY <1>4
  <2> QED  BY <1>10, <1>11, <2>1, HourAtFacts
<1>15. HourAt(t, w) = HourOfWords(t, w) /\ HourAt(t, w) \in Hours
  <2>1. Kind(w) = "W"
    BY <1>10
  <2>2. HourAt(t, w) = HourOfWords(t, w)
    BY <1>1, <1>2, <1>8, <1>10, <2>1, HourOfRecord
  <2>3. HourAt(t, w) = IF i < w THEN Tweet(i).hour ELSE hour_of_day[t]
    BY <1>10, <1>11, HourAtFacts
  <2> QED  BY <1>5, <1>13, <2>2, <2>3
<1>16. hour_of_day' \in [Tasks -> Hours]
  BY <1>2, <1>5, <1>13, <1>14
<1>17. \A h \in Hours :
          CountedLines(t, h)' = IF Tweet(w).sleep /\ HourAt(t, w) = h
                                THEN CountedLines(t, h) \cup {w} ELSE CountedLines(t, h)
  <2> SUFFICES ASSUME NEW h \in Hours
               PROVE  CountedLines(t, h)' = IF Tweet(w).sleep /\ HourAt(t, w) = h
                                            THEN CountedLines(t, h) \cup {w}
                                            ELSE CountedLines(t, h)
    OBVIOUS
  <2> DEFINE isCounted(j) == Kind(j) = "W" /\ Tweet(j).sleep /\ HourOfWords(t, j) = h
  <2>1. line'[t] = L + 4
    BY <1>2, <1>5
  <2>2. Read(t)' = first[t]..(L + 3)
    BY <1>3, <1>4, <2>1 DEF Read
  <2>3. Read(t) = first[t]..(L - 1)
    BY DEF Read
  <2>4. Read(t)' = Read(t) \cup Record(t)
    <3> HIDE DEF L
    <3> QED  BY <1>4, <1>11, <2>2, <2>3
  <2>5. CountedLines(t, h)' = {j \in Read(t)' : isCounted(j)}
    BY <1>2, <1>3 DEF CountedLines, HourOfWords
  <2>6. CountedLines(t, h) = {j \in Read(t) : isCounted(j)}
    BY <1>2 DEF CountedLines
  <2>7. \A j \in Record(t) : isCounted(j) <=> j = w /\ Tweet(w).sleep /\ HourAt(t, w) = h
    BY <1>10, <1>15
  <2> HIDE DEF isCounted
  <2> QED  BY <2>4, <2>5, <2>6, <2>7, <1>10
<1>18. SleepLines(t) = IF Tweet(w).sleep THEN {w} ELSE {}
  BY <1>10, <1>12 DEF SleepLines
<1>19. WrittenInv' /\ written' \in [Tasks -> [Hours -> Nat]]
  <2>1. CASE Tweet(w).sleep
    <3>1. Max({w}) = w
      <4>1. \E x \in {w} : \A y \in {w} : x >= y
        BY <1>11
      <4>2. Max({w}) \in {w}
        BY <4>1 DEF Max
      <4> QED  BY <4>2
    <3>2. SleepLines(t) = {w} /\ SleepLines(t) # {}
      BY <1>18, <2>1
    <3>3. Write(t, HourAt(t, w))
      BY <3>1, <3>2 DEF MapTweet
    <3>4. \A h \in Hours : CountedLines(t, h)' = IF h = HourAt(t, w)
                                                  THEN CountedLines(t, h) \cup {w}
                                                  ELSE CountedLines(t, h)
      BY <1>17, <2>1
    <3>5. w \notin Read(t)
      BY <1>4, <1>11 DEF Read
    <3>6. WrittenInv'
      BY <1>1, <1>7, <1>15, <3>3, <3>4, <3>5, OneMoreLine
    <3> QED  BY <1>1, <1>15, <3>3, <3>6, WriteFacts
  <2>2. CASE ~Tweet(w).sleep
    <3>1. UNCHANGED written
      BY <1>18, <2>2 DEF MapTweet
    <3>2. \A h \in Hours : CountedLines(t, h)' = CountedLines(t, h)
      BY <1>17, <2>2
    <3>3. WrittenInv'
      BY <1>1, <1>7, <3>1, <3>2, NoMoreLines
    <3> QED  BY <1>5, <3>1, <3>3
  <2> QED  BY <2>1, <2>2
<1>20. TweetTypeOK'
  BY <1>1, <1>2, <1>3, <1>6, <1>16, <1>19 DEF TweetTypeOK
<1>21. FieldInv'
  <2> SUFFICES ASSUME NEW s \in Tasks
               PROVE  /\ (line'[s] - first[s]) % 4 = 0
                      /\ line'[s] = first[s] => hour_of_day'[s] = 0
                      /\ \A j \in Read(s)' :
                           Kind(j) = "T" => /\ Tweet(j).hour # NoTime
                                            /\ j + 4 >= line'[s] => hour_of_day'[s] = Tweet(j).hour
    BY <1>3 DEF FieldInv, tweet_length
  <2>1. /\ (line[s] - first[s]) % 4 = 0
        /\ line[s] = first[s] => hour_of_day[s] = 0
        /\ \A j \in Read(s) :
             Kind(j) = "T" => /\ Tweet(j).hour # NoTime
                              /\ j + 4 >= line[s] => hour_of_day[s] = Tweet(j).hour
    BY <1>1, <1>2 DEF FieldInv, tweet_length
  <2>2. CASE s # t
    <3>1. line'[s] = line[s] /\ hour_of_day'[s] = hour_of_day[s]
      BY <1>2, <1>5, <2>2
    <3>2. Read(s)' = Read(s)
      BY <1>3, <3>1 DEF Read
    <3> QED  BY <2>1, <3>1, <3>2
  <2>3. CASE s = t
    <3>1. line'[t] = L + 4 /\ hour_of_day'[t] = Tweet(i).hour
      BY <1>2, <1>5, <1>14
    <3>2. (L - first[t]) % 4 = 0
      BY <2>1, <2>3
    <3> HIDE DEF L
    <3>3. (L + 4 - first[t]) % 4 = 0 /\ L + 4 # first[t]
      BY <1>4, <3>2
    <3>4. Read(t)' = Read(t) \cup Record(t)
      <4>1. Read(t)' = first[t]..(L + 3)
        BY <1>3, <1>4, <3>1 DEF Read
      <4>2. Read(t) = first[t]..(L - 1)
        BY DEF Read, L
      <4> QED  BY <1>4, <1>11, <4>1, <4>2
    <3>5. \A j \in Read(t) : ~(j + 4 >= L + 4)
      BY <1>4 DEF Read, L
    <3>6. \A j \in Record(t) : Kind(j) = "T" => j = i
      BY <1>10 DEF TimeLine
    <3>7. \A j \in Read(t) : Kind(j) = "T" => Tweet(j).hour # NoTime
      BY <2>1, <2>3
    <3>8. ASSUME NEW j \in Read(t)', Kind(j) = "T"
          PROVE  /\ Tweet(j).hour # NoTime
                 /\ j + 4 >= L + 4 => Tweet(i).hour = Tweet(j).hour
      <4>1. CASE j \in Read(t)
        BY <4>1, <3>5, <3>7, <3>8
      <4>2. CASE j \in Record(t)
        BY <4>2, <3>6, <3>8, <1>13
      <4> QED  BY <3>4, <4>1, <4>2
    <3>9. Read(s)' = Read(t)'
      BY <2>3 DEF Read
    <3>10. line'[s] = L + 4 /\ hour_of_day'[s] = Tweet(i).hour
      BY <2>3, <3>1
    <3>11. (line'[s] - first[s]) % 4 = 0
      BY <2>3, <3>3, <3>10, <1>4
    <3>12. line'[s] # first[s]
      BY <2>3, <3>3, <3>10
    <3>13. \A j \in Read(s)' :
             Kind(j) = "T" => /\ Tweet(j).hour # NoTime
                              /\ j + 4 >= line'[s] => hour_of_day'[s] = Tweet(j).hour
      BY <3>8, <3>9, <3>10
    <3> QED  BY <3>11, <3>12, <3>13
  <2> QED  BY <2>2, <2>3
<1>22. DoneInv'
  <2> SUFFICES ASSUME NEW s \in Tasks, task'[s] = "done"
               PROVE  line'[s] + tweet_length > End(s)'
    BY <1>2, <1>3 DEF DoneInv
  <2>1. s # t /\ task[s] = "done"
    BY <1>2
  <2>2. line[s] + tweet_length > End(s)
    BY <1>1, <1>2, <2>1 DEF DoneInv
  <2> QED  BY <1>2, <1>3, <1>5, <2>1, <2>2
<1> QED  BY <1>3, <1>19, <1>20, <1>21, <1>22 DEF TweetInvariant

\* EndTask finds no whole record, or no line, that is left.
LEMMA EndTaskInvariant ==
    ASSUME TweetInvariant, NEW t \in Tasks, task[t] = "running", EndTask(t)
    PROVE  TweetInvariant'
<1>1. TweetTypeOK /\ SplitsInOrder /\ WrittenInv /\ FieldInv /\ DoneInv
  BY DEF TweetInvariant
<1>2. /\ IF job = "lines" THEN line[t] = End(t) ELSE line[t] + tweet_length > End(t)
      /\ task' = [task EXCEPT ![t] = "done"]
      /\ UNCHANGED <<input, line, hour_of_day, written, attempts, output>>
  BY DEF EndTask
<1>3. /\ SplitsInOrder' /\ OutputInv'
      /\ job' = job /\ tweets' = tweets /\ first' = first /\ output' = output
      /\ \A s : End(s)' = End(s)
      /\ \A i : Kind(i)' = Kind(i) /\ Tweet(i)' = Tweet(i)
  BY <1>2, InputStays
<1>4. \A s \in Tasks : \A h \in Hours : CountedLines(s, h)' = CountedLines(s, h)
  BY <1>2, NothingRead
<1>5. WrittenInv'
  BY <1>1, <1>2, <1>4, NoMoreLines
<1>6. TweetTypeOK'
  BY <1>1, <1>2, <1>3 DEF TweetTypeOK
<1>7. FieldInv'
  BY <1>1, <1>2, <1>3 DEF FieldInv, Read
<1>8. DoneInv'
  BY <1>1, <1>2, <1>3 DEF DoneInv, TweetTypeOK
<1> QED  BY <1>3, <1>5, <1>6, <1>7, <1>8 DEF TweetInvariant

\* A new attempt has read nothing, and what the one before it wrote is dropped.
LEMMA FailAttemptInvariant ==
    ASSUME TweetInvariant, NEW t \in Tasks, task[t] = "running", FailAttempt(t)
    PROVE  TweetInvariant'
<1>1. TweetTypeOK /\ SplitsInOrder /\ WrittenInv /\ FieldInv /\ DoneInv
  BY DEF TweetInvariant
<1>2. UNCHANGED <<input, output>>
  BY DEF FailAttempt
<1>3. /\ SplitsInOrder' /\ OutputInv'
      /\ job' = job /\ tweets' = tweets /\ first' = first /\ output' = output
      /\ \A s : End(s)' = End(s)
      /\ \A i : Kind(i)' = Kind(i) /\ Tweet(i)' = Tweet(i)
  BY <1>2, InputStays
<1>4. CASE ~(attempts[t] < MaxAttempts)
  <2>1. /\ task' = [task EXCEPT ![t] = "failed"]
        /\ UNCHANGED <<attempts, line, hour_of_day, written>>
    BY <1>4 DEF FailAttempt
  <2>2. \A s \in Tasks : \A h \in Hours : CountedLines(s, h)' = CountedLines(s, h)
    BY <1>2, <2>1, NothingRead
  <2>3. WrittenInv'
    BY <1>1, <2>1, <2>2, NoMoreLines
  <2>4. TweetTypeOK'
    BY <1>1, <1>3, <2>1 DEF TweetTypeOK
  <2>5. FieldInv'
    BY <1>1, <1>3, <2>1 DEF FieldInv, Read
  <2>6. DoneInv'
    BY <1>1, <1>3, <2>1 DEF DoneInv, TweetTypeOK
  <2> QED  BY <1>3, <2>3, <2>4, <2>5, <2>6 DEF TweetInvariant
<1>5. CASE attempts[t] < MaxAttempts
  <2>1. /\ attempts' = [attempts EXCEPT ![t] = attempts[t] + 1]
        /\ line' = [line EXCEPT ![t] = first[t]]
        /\ hour_of_day' = [hour_of_day EXCEPT ![t] = 0]
        /\ written' = [written EXCEPT ![t] = None]
        /\ UNCHANGED task
    BY <1>5 DEF FailAttempt
  <2>2. /\ first[t] \in Nat /\ first[t] >= 1 /\ End(t) \in Nat /\ first[t] <= End(t)
        /\ End(t) <= NumLines + 1 /\ NumLines \in Nat
    BY <1>1, SplitFacts
  <2>3. /\ line \in [Tasks -> 1..(NumLines + 1)] /\ hour_of_day \in [Tasks -> Hours]
        /\ written \in [Tasks -> [Hours -> Nat]] /\ attempts \in [Tasks -> 1..MaxAttempts]
        /\ \A s \in Tasks : line[s] \in first[s]..End(s)
    BY <1>1 DEF TweetTypeOK
  <2>4. 0 \in Hours /\ MaxAttempts \in Nat /\ None \in [Hours -> Nat]
    BY TweetAssumption DEF None
  <2>5. line' \in [Tasks -> 1..(NumLines + 1)] /\ \A s \in Tasks : line'[s] \in first[s]..End(s)
    BY <2>1, <2>2, <2>3
  <2>6. attempts' \in [Tasks -> 1..MaxAttempts]
    <3>1. attempts[t] + 1 \in 1..MaxAttempts
      BY <1>5, <2>3, <2>4
    <3> QED  BY <2>1, <2>3, <3>1
  <2>7. TweetTypeOK'
    BY <1>1, <1>3, <2>1, <2>3, <2>4, <2>5, <2>6 DEF TweetTypeOK
  <2>8. Read(t)' = {}
    <3>1. line'[t] = first[t]
      BY <2>1, <2>3
    <3> QED  BY <1>3, <2>2, <3>1 DEF Read
  <2>9. WrittenInv'
    <3> SUFFICES ASSUME NEW s \in Tasks, NEW h \in Hours
                 PROVE  written'[s][h] = Cardinality(CountedLines(s, h)')
      BY DEF WrittenInv
    <3>1. CASE s = t
      <4>1. CountedLines(t, h)' = {}
        BY <2>8 DEF CountedLines
      <4>2. written'[t][h] = 0
        BY <2>1, <2>3 DEF None
      <4> QED  BY <3>1, <4>1, <4>2, FS_EmptySet
    <3>2. CASE s # t
      <4>1. line'[s] = line[s] /\ written'[s] = written[s]
        BY <2>1, <2>3, <3>2
      <4>2. CountedLines(s, h)' = CountedLines(s, h)
        BY <1>2, <4>1, NothingRead
      <4> QED  BY <1>1, <4>1, <4>2 DEF WrittenInv
    <3> QED  BY <3>1, <3>2
  <2>10. FieldInv'
    <3> SUFFICES ASSUME job = "tweets", NEW s \in Tasks
                 PROVE  /\ (line'[s] - first[s]) % tweet_length = 0
                        /\ line'[s] = first[s] => hour_of_day'[s] = 0
                        /\ \A j \in Read(s)' :
                             Kind(j) = "T" =>
                               /\ Tweet(j).hour # NoTime
                               /\ j + tweet_length >= line'[s] => hour_of_day'[s] = Tweet(j).hour
      BY <1>3 DEF FieldInv
    <3>1. CASE s = t
      <4>1. line'[t] = first[t] /\ hour_of_day'[t] = 0
        BY <2>1, <2>3
      <4>2. first[t] - first[t] = 0 /\ 0 % 4 = 0
        BY <2>2
      <4> QED  BY <2>8, <3>1, <4>1, <4>2 DEF tweet_length
    <3>2. CASE s # t
      <4>1. line'[s] = line[s] /\ hour_of_day'[s] = hour_of_day[s]
        BY <2>1, <2>3, <3>2
      <4>2. Read(s)' = Read(s)
        BY <1>3, <4>1 DEF Read
      <4> QED  BY <1>1, <4>1, <4>2 DEF FieldInv
    <3> QED  BY <3>1, <3>2
  <2>11. DoneInv'
    BY <1>1, <1>3, <2>1, <2>3 DEF DoneInv
  <2> QED  BY <1>3, <2>7, <2>9, <2>10, <2>11 DEF TweetInvariant
<1> QED  BY <1>4, <1>5

\* The output is written once, from what all the tasks have written.
LEMMA ReduceInvariant ==
    ASSUME TweetInvariant, Reduce
    PROVE  TweetInvariant'
<1>1. TweetTypeOK /\ SplitsInOrder /\ WrittenInv /\ FieldInv /\ DoneInv
  BY DEF TweetInvariant
<1>2. /\ \A t \in Tasks : task[t] = "done"
      /\ output' = [h \in Hours |-> Total(h)]
      /\ UNCHANGED <<input, line, hour_of_day, written, attempts, task>>
  BY DEF Reduce
<1>3. job' = job /\ tweets' = tweets /\ first' = first
  BY <1>2 DEF input
<1>4. \A s : End(s)' = End(s)
  BY <1>3 DEF End
<1>5. \A t \in Tasks : \A h \in Hours : CountedLines(t, h)' = CountedLines(t, h)
  BY <1>2, NothingRead
<1>6. \A h \in Hours : AllCounted(h)' = AllCounted(h)
  BY <1>5 DEF AllCounted
<1>7. \A h \in Hours : Total(h) = Cardinality(AllCounted(h)) /\ IsFiniteSet(AllCounted(h))
  BY <1>1, TotalIsSize
<1>8. \A h \in Hours : Total(h) \in Nat
  BY <1>7, FS_CardinalityType
<1>9. OutputInv'
  <2>1. \A h \in Hours : output'[h] = Total(h)
    BY <1>2
  <2>2. \A h \in Hours : output'[h] = Cardinality(AllCounted(h)')
    BY <1>6, <1>7, <2>1
  <2> QED  BY <1>2, <2>2 DEF OutputInv
<1>10. TweetTypeOK'
  <2>1. output' \in [Hours -> Nat]
    BY <1>2, <1>8
  <2> QED  BY <1>1, <1>2, <1>3, <1>4, <2>1 DEF TweetTypeOK
<1>11. WrittenInv'
  BY <1>1, <1>2, <1>5, NoMoreLines
<1>12. SplitsInOrder' /\ DoneInv'
  BY <1>1, <1>2, <1>3, <1>4 DEF SplitsInOrder, DoneInv
<1>13. FieldInv'
  BY <1>1, <1>2, <1>3 DEF FieldInv, Read, Kind, Tweet
<1> QED  BY <1>9, <1>10, <1>11, <1>12, <1>13 DEF TweetInvariant

\* Every step keeps the invariant.
LEMMA TweetNextInvariant ==
    TweetInvariant /\ [TweetNext]_tweetVars => TweetInvariant'
<1> SUFFICES ASSUME TweetInvariant, [TweetNext]_tweetVars PROVE TweetInvariant'
  OBVIOUS
<1>1. CASE Reduce
  BY <1>1, ReduceInvariant
<1>2. ASSUME NEW t \in Tasks, Map(t) PROVE TweetInvariant'
  <2>1. task[t] = "running"
    BY <1>2 DEF Map
  <2>2. CASE MapLine(t)
    BY <2>1, <2>2, MapLineInvariant
  <2>3. CASE MapTweet(t)
    BY <2>1, <2>3, MapTweetInvariant
  <2>4. CASE EndTask(t)
    BY <2>1, <2>4, EndTaskInvariant
  <2>5. CASE FailAttempt(t)
    BY <2>1, <2>5, FailAttemptInvariant
  <2> QED  BY <1>2, <2>2, <2>3, <2>4, <2>5 DEF Map
<1>3. CASE UNCHANGED tweetVars
  <2>1. /\ job' = job /\ tweets' = tweets /\ first' = first /\ line' = line
        /\ hour_of_day' = hour_of_day /\ written' = written /\ attempts' = attempts
        /\ task' = task /\ output' = output /\ UNCHANGED input
    BY <1>3 DEF tweetVars, input
  <2>2. \A s : End(s)' = End(s)
    BY <2>1 DEF End
  <2>3. \A s \in Tasks : \A h \in Hours : CountedLines(s, h)' = CountedLines(s, h)
    BY <2>1, NothingRead
  <2>4. \A h \in Hours : AllCounted(h)' = AllCounted(h)
    BY <2>3 DEF AllCounted
  <2>5. TweetTypeOK' /\ SplitsInOrder' /\ DoneInv'
    BY <2>1, <2>2 DEF TweetInvariant, TweetTypeOK, SplitsInOrder, DoneInv
  <2>6. WrittenInv'
    BY <2>1, <2>3, NoMoreLines DEF TweetInvariant
  <2>7. FieldInv'
    BY <2>1 DEF TweetInvariant, FieldInv, Read, Kind, Tweet
  <2>8. OutputInv'
    BY <2>1, <2>4 DEF TweetInvariant, OutputInv, Finished
  <2> QED  BY <2>5, <2>6, <2>7, <2>8 DEF TweetInvariant
<1> QED  BY <1>1, <1>2, <1>3 DEF TweetNext

\* The inductive invariant of the jobs.
THEOREM TweetsCorrect == TweetSpec => []TweetInvariant
<1> QED  BY TweetInitInvariant, TweetNextInvariant, PTL DEF TweetSpec

-----------------------------------------------------------------------------
(***************************************************************************)
(* What the counts are when the job has finished.                          *)
(***************************************************************************)
\* Every line of the input is in a split.
LEMMA InSomeSplit ==
    ASSUME TweetTypeOK, SplitsInOrder, NEW i \in 1..NumLines
    PROVE  \E t \in Tasks : i \in Lines(t)
<1> DEFINE ends == {t \in Tasks : i < End(t)}
<1>0. NumSplits \in Nat /\ NumSplits >= 1 /\ NumSplits \in Tasks /\ NumLines \in Nat
  BY TweetAssumption DEF Tasks, NumLines
<1>1. NumSplits \in ends
  BY <1>0 DEF End
<1>2. ends \in SUBSET Nat
  BY DEF Tasks
<1> HIDE DEF ends
<1>3. PICK t \in ends : \A u \in ends : ~ <<u, t>> \in OpToRel(<, Nat)
  BY <1>1, <1>2, NatLessThanWellFounded, WFMin, Zenon
<1>4. \A u \in ends : ~(u < t)
  BY <1>2, <1>3 DEF OpToRel
<1>5. t \in Tasks /\ i < End(t) /\ t \in Nat /\ t >= 1 /\ t <= NumSplits
  BY <1>0 DEF ends, Tasks
<1>6. first[t] \in Nat /\ End(t) \in Nat
  BY <1>5, SplitFacts
<1>7. first[t] <= i
  <2>1. CASE t = 1
    BY <2>1, <1>6 DEF SplitsInOrder
  <2>2. CASE t # 1
    <3>1. t - 1 \in Tasks /\ t - 1 < t /\ t - 1 # NumSplits /\ (t - 1) + 1 = t
      BY <1>0, <1>5, <2>2 DEF Tasks
    <3>2. ~(i < End(t - 1)) /\ End(t - 1) = first[(t - 1) + 1]
      BY <1>4, <3>1 DEF ends, End
    <3> QED  BY <1>6, <3>1, <3>2
  <2> QED  BY <2>1, <2>2
<1> QED  BY <1>5, <1>6, <1>7 DEF Lines

\* There are as many tweets as there are lines of a kind of theirs.
LEMMA LinesOfTweets ==
    ASSUME NEW K \in SUBSET (1..NumTweets), NEW r \in 0..3
    PROVE  /\ IsFiniteSet(K) /\ IsFiniteSet({4 * k - r : k \in K})
           /\ Cardinality({4 * k - r : k \in K}) = Cardinality(K)
<1> DEFINE T == {4 * k - r : k \in K}
           f == [k \in K |-> 4 * k - r]
<1>1. IsFiniteSet(K)
  <2>1. IsFiniteSet(1..NumTweets)
    BY TweetAssumption, FS_Interval
  <2> QED  BY <2>1, FS_Subset
<1>2. \A j, k \in K : 4 * j - r = 4 * k - r => j = k
  BY TweetAssumption
<1>3. f \in Bijection(K, T)
  BY <1>2 DEF Bijection, Injection, IsInjective, Surjection
<1>4. ExistsBijection(K, T)
  BY <1>3 DEF ExistsBijection
<1> HIDE DEF T, f
<1>5. IsFiniteSet(T) /\ Cardinality(T) = Cardinality(K)
  BY <1>1, <1>4, FS_Bijection
<1> QED  BY <1>1, <1>5 DEF T

\* One set is no greater than another into which it is sent one to one.
LEMMA NoGreater ==
    ASSUME NEW S, NEW T, IsFiniteSet(T), NEW f, \A x \in S : f[x] \in T,
           \A x, y \in S : f[x] = f[y] => x = y
    PROVE  IsFiniteSet(S) /\ Cardinality(S) <= Cardinality(T)
<1> DEFINE g == [x \in S |-> f[x]]
<1>1. g \in Injection(S, T)
  BY DEF Injection, IsInjective
<1> HIDE DEF g
<1> QED  BY <1>1, FS_Injection

\* Where there are one set's elements or another's at most.
LEMMA AtMostBoth ==
    ASSUME NEW S, NEW T, NEW U, IsFiniteSet(T), IsFiniteSet(U), S \subseteq T \cup U
    PROVE  /\ IsFiniteSet(S) /\ Cardinality(S) \in Nat
           /\ Cardinality(T) \in Nat /\ Cardinality(U) \in Nat
           /\ Cardinality(S) <= Cardinality(T) + Cardinality(U)
<1>1. /\ IsFiniteSet(T \cup U)
      /\ Cardinality(T \cup U) = Cardinality(T) + Cardinality(U) - Cardinality(T \cap U)
  BY FS_Union
<1>2. IsFiniteSet(T \cap U)
  BY FS_Intersection
<1>3. IsFiniteSet(S) /\ Cardinality(S) <= Cardinality(T \cup U)
  BY <1>1, FS_Subset
<1>4. /\ Cardinality(T \cap U) \in Nat /\ Cardinality(T) \in Nat /\ Cardinality(U) \in Nat
      /\ Cardinality(S) \in Nat /\ Cardinality(T \cup U) \in Nat
  BY <1>1, <1>2, <1>3, FS_CardinalityType
<1> QED  BY <1>1, <1>3, <1>4

\* The tweets that are to be counted, and the lines by which they are.
LEMMA CountedFacts ==
    ASSUME TweetTypeOK, NEW h
    PROVE  /\ Counted(h) \in SUBSET (1..NumTweets)
           /\ IsFiniteSet(Counted(h)) /\ Cardinality(Counted(h)) \in Nat
<1>1. Counted(h) \in SUBSET (1..NumTweets)
  BY DEF Counted
<1>2. IsFiniteSet(Counted(h))
  <2>1. IsFiniteSet(1..NumTweets)
    BY TweetAssumption, FS_Interval
  <2> QED  BY <1>1, <2>1, FS_Subset
<1> QED  BY <1>1, <1>2, FS_CardinalityType

\* A line that is counted is one of the input, in the split of its task.
LEMMA CountedInSplit ==
    ASSUME TweetTypeOK, NEW t \in Tasks, NEW h, NEW i \in CountedLines(t, h)
    PROVE  i \in 1..NumLines /\ i \in Lines(t) /\ i \in Read(t)
<1>1. /\ first[t] \in Nat /\ first[t] >= 1 /\ End(t) \in Nat /\ End(t) <= NumLines + 1
      /\ line[t] \in Nat /\ line[t] <= End(t) /\ NumLines \in Nat
  BY SplitFacts
<1>2. i \in Read(t)
  BY DEF CountedLines
<1> QED  BY <1>1, <1>2 DEF Read, Lines

(***************************************************************************)
(* The job "lines" has read every line, so that it has counted the T line  *)
(* of each tweet with a time, once.                                        *)
(***************************************************************************)
LEMMA LinesCounted == TweetInvariant => LinesAreExact
<1> SUFFICES ASSUME TweetInvariant, Finished, job = "lines", NEW h \in Hours
             PROVE  output[h] = Cardinality(Counted(h))
  BY DEF LinesAreExact
<1>1. TweetTypeOK /\ SplitsInOrder
  BY DEF TweetInvariant
<1>2. output[h] = Cardinality(AllCounted(h)) /\ \A t \in Tasks : Read(t) = Lines(t)
  BY DEF TweetInvariant, OutputInv, DoneInv, Read, Lines
<1> DEFINE T == {4 * k - 3 : k \in Counted(h)}
<1>3. AllCounted(h) \subseteq T
  <2> SUFFICES ASSUME NEW t \in Tasks, NEW i \in CountedLines(t, h) PROVE i \in T
    BY DEF AllCounted
  <2>1. i \in 1..NumLines /\ Kind(i) = "T" /\ Tweet(i).hour = h
    BY <1>1, CountedInSplit DEF CountedLines
  <2>2. NumberOf(i) \in 1..NumTweets /\ i = 4 * NumberOf(i) - 3 /\ Tweet(i) = tweets[NumberOf(i)]
    BY <2>1, LineFacts
  <2>3. NumberOf(i) \in Counted(h)
    BY <2>1, <2>2 DEF Counted
  <2> QED  BY <2>2, <2>3
<1>4. T \subseteq AllCounted(h)
  <2> SUFFICES ASSUME NEW k \in Counted(h) PROVE 4 * k - 3 \in AllCounted(h)
    OBVIOUS
  <2> DEFINE i == 4 * k - 3
  <2>1. k \in 1..NumTweets /\ tweets[k].hour = h
    BY DEF Counted
  <2>2. i \in 1..NumLines /\ NumberOf(i) = k
    BY <2>1, TweetLines
  <2> HIDE DEF i
  <2>3. Kind(i) = "T" /\ Tweet(i) = tweets[k]
    BY <2>2, LineFacts DEF i
  <2>4. PICK t \in Tasks : i \in Lines(t)
    BY <1>1, <2>2, InSomeSplit
  <2>5. i \in CountedLines(t, h)
    BY <1>2, <2>1, <2>3, <2>4 DEF CountedLines
  <2> QED  BY <2>5 DEF AllCounted, i
<1>5. Cardinality(T) = Cardinality(Counted(h))
  <2>1. Counted(h) \in SUBSET (1..NumTweets) /\ 3 \in 0..3
    BY <1>1, CountedFacts
  <2> HIDE DEF T
  <2>2. Cardinality({4 * k - 3 : k \in Counted(h)}) = Cardinality(Counted(h))
    BY <2>1, LinesOfTweets
  <2> QED  BY <2>2 DEF T
<1> QED  BY <1>2, <1>3, <1>4, <1>5

\* Where the job "tweets" counts a line, there is the tweet it counts.
LEMMA CountedWords ==
    ASSUME TweetTypeOK, job = "tweets", NEW t \in Tasks, NEW h, NEW i \in CountedLines(t, h)
    PROVE  /\ i \in Int /\ NumberOf(i) \in 1..NumTweets /\ i = 4 * NumberOf(i) - 1
           /\ tweets[NumberOf(i)].sleep
           /\ i - 2 >= first[t] => NumberOf(i) \in Counted(h)
           /\ i - 2 < first[t] => h = 0
<1>1. i \in 1..NumLines /\ Kind(i) = "W" /\ Tweet(i).sleep /\ HourOfWords(t, i) = h
  BY CountedInSplit DEF CountedLines
<1>2. NumberOf(i) \in 1..NumTweets /\ i = 4 * NumberOf(i) - 1 /\ Tweet(i) = tweets[NumberOf(i)]
  BY <1>1, LineFacts
<1>3. first[t] \in Nat
  BY SplitFacts
<1>4. i - 2 >= first[t] => NumberOf(i) \in Counted(h)
  BY <1>1, <1>2 DEF HourOfWords, Counted
<1>5. i - 2 < first[t] => h = 0
  BY <1>1, <1>3 DEF HourOfWords
<1> QED  BY <1>1, <1>2, <1>4, <1>5

\* The lines that are counted with no T line of theirs in the split.
Headless ==
    {i \in AllCounted(0) : \E t \in Tasks : i \in Lines(t) /\ i - 2 < first[t]}

\* There is one in a split at most, and the split begins with it or the line before it.
LEMMA HeadlessFacts ==
    ASSUME TweetTypeOK, SplitsInOrder, job = "tweets"
    PROVE  /\ IsFiniteSet(Headless)
           /\ IsFiniteSet({t \in Tasks : Beheads(t)})
           /\ Cardinality(Headless) <= Cardinality({t \in Tasks : Beheads(t)})
<1> DEFINE T == {t \in Tasks : Beheads(t)}
           f == [i \in Headless |-> CHOOSE t \in Tasks : i \in Lines(t) /\ i - 2 < first[t]]
<1>1. IsFiniteSet(T)
  <2>1. IsFiniteSet(Tasks)
    BY TweetAssumption, FS_Interval DEF Tasks
  <2> QED  BY <2>1, FS_Subset
<1>2. ASSUME NEW i \in Headless
      PROVE  f[i] \in Tasks /\ i \in Lines(f[i]) /\ i - 2 < first[f[i]]
  <2>1. \E t \in Tasks : i \in Lines(t) /\ i - 2 < first[t]
    BY DEF Headless
  <2> QED  BY <2>1
<1>3. ASSUME NEW i \in Headless
      PROVE  /\ i \in Int /\ NumberOf(i) \in 1..NumTweets /\ i = 4 * NumberOf(i) - 1
             /\ i \in 1..NumLines
  <2>1. PICK t \in Tasks : i \in CountedLines(t, 0)
    BY DEF Headless, AllCounted
  <2> QED  BY <2>1, CountedWords, CountedInSplit
<1> HIDE DEF f
<1>4. ASSUME NEW i \in Headless, NEW t \in Tasks, t = f[i]
      PROVE  /\ first[t] \in Nat /\ first[t] <= i /\ i - 2 < first[t] /\ i \in Int
             /\ Beheads(t)
  <2>1. /\ first[t] \in Nat /\ first[t] >= 1 /\ End(t) \in Nat /\ NumLines \in Nat
    BY SplitFacts
  <2>2. /\ i \in Int /\ i \in first[t]..(End(t) - 1) /\ i - 2 < first[t]
        /\ NumberOf(i) \in 1..NumTweets /\ i = 4 * NumberOf(i) - 1
    BY <1>2, <1>3, <1>4 DEF Lines
  <2>3. first[t] < End(t) /\ first[t] <= i
    BY <2>1, <2>2
  <2>4. first[t] = 4 * NumberOf(i) - 1 \/ first[t] = 4 * NumberOf(i) - 2
    BY <2>1, <2>2
  <2>5. NumTweets \in Nat /\ NumberOf(i) \in Int
    BY <2>2, TweetAssumption
  <2>6. /\ 4 * NumberOf(i) - 1 \in 1..NumLines
        /\ NumberOf(4 * NumberOf(i) - 1) = NumberOf(i)
    BY <2>2, TweetLines
  <2>7. /\ 4 * NumberOf(i) - 2 \in 1..NumLines
        /\ NumberOf(4 * NumberOf(i) - 2) = NumberOf(i)
    BY <2>2, TweetLines
  <2>8. Kind(4 * NumberOf(i) - 1) = "W" /\ Kind(4 * NumberOf(i) - 2) = "U"
    BY <2>6, <2>7, LineFacts
  <2> QED  BY <2>1, <2>2, <2>3, <2>4, <2>8 DEF Beheads
<1>5. \A i \in Headless : f[i] \in T
  BY <1>2, <1>4
<1>6. ASSUME NEW i \in Headless, NEW j \in Headless, f[i] = f[j]
      PROVE  i = j
  <2>1. PICK t \in Tasks : t = f[i] /\ t = f[j]
    BY <1>2, <1>6
  <2>2. /\ first[t] \in Nat /\ i \in Int /\ j \in Int
        /\ first[t] <= i /\ i - 2 < first[t] /\ first[t] <= j /\ j - 2 < first[t]
    BY <1>4, <2>1
  <2>3. /\ NumberOf(i) \in Int /\ i = 4 * NumberOf(i) - 1
        /\ NumberOf(j) \in Int /\ j = 4 * NumberOf(j) - 1
    BY <1>3
  <2>4. NumberOf(i) = NumberOf(j)
    BY <2>2, <2>3
  <2> QED  BY <2>3, <2>4
<1> HIDE DEF T
<1>7. IsFiniteSet(Headless) /\ Cardinality(Headless) <= Cardinality(T)
  BY <1>1, <1>5, <1>6, NoGreater
<1> QED  BY <1>1, <1>7 DEF T

(***************************************************************************)
(* The job "tweets" has counted a line with the hour of its tweet, or with *)
(* 0 where the split begins after the T line, which it does once at most.  *)
(***************************************************************************)
LEMMA HoursCounted == TweetInvariant => HoursAreTrue
<1> SUFFICES ASSUME TweetInvariant, Finished, job = "tweets"
             PROVE  /\ \A h \in Hours \ {0} : output[h] <= Cardinality(Counted(h))
                    /\ output[0] <= Cardinality(Counted(0))
                                      + Cardinality({t \in Tasks : Beheads(t)})
  BY DEF HoursAreTrue
<1>1. TweetTypeOK /\ SplitsInOrder /\ 0 \in Hours
  BY TweetAssumption DEF TweetInvariant
<1>2. \A h \in Hours : output[h] = Cardinality(AllCounted(h))
  BY DEF TweetInvariant, OutputInv
<1> DEFINE T(h) == {4 * k - 1 : k \in Counted(h)}
<1>3. ASSUME NEW h
      PROVE  IsFiniteSet(T(h)) /\ Cardinality(T(h)) = Cardinality(Counted(h))
  <2>1. Counted(h) \in SUBSET (1..NumTweets) /\ 1 \in 0..3
    BY <1>1, CountedFacts
  <2> QED  BY <2>1, LinesOfTweets
<1>4. ASSUME NEW h \in Hours \ {0}
      PROVE  output[h] <= Cardinality(Counted(h))
  <2>1. AllCounted(h) \subseteq T(h)
    <3> SUFFICES ASSUME NEW t \in Tasks, NEW i \in CountedLines(t, h) PROVE i \in T(h)
      BY DEF AllCounted
    <3>1. /\ i \in Int /\ i = 4 * NumberOf(i) - 1
          /\ i - 2 >= first[t] => NumberOf(i) \in Counted(h)
          /\ i - 2 < first[t] => h = 0
      BY <1>1, CountedWords
    <3>2. first[t] \in Nat
      BY <1>1, SplitFacts
    <3>3. NumberOf(i) \in Counted(h)
      BY <3>1, <3>2
    <3> QED  BY <3>1, <3>3
  <2> HIDE DEF T
  <2>2. Cardinality(AllCounted(h)) <= Cardinality(T(h))
    BY <1>3, <2>1, FS_Subset
  <2> QED  BY <1>2, <1>3, <2>2
<1>5. output[0] <= Cardinality(Counted(0)) + Cardinality({t \in Tasks : Beheads(t)})
  <2>1. AllCounted(0) \subseteq T(0) \cup Headless
    <3> SUFFICES ASSUME NEW t \in Tasks, NEW i \in CountedLines(t, 0)
                 PROVE  i \in T(0) \cup Headless
      BY DEF AllCounted
    <3>1. /\ i \in Int /\ i = 4 * NumberOf(i) - 1
          /\ i - 2 >= first[t] => NumberOf(i) \in Counted(0)
      BY <1>1, CountedWords
    <3>2. first[t] \in Nat /\ i \in Lines(t)
      BY <1>1, SplitFacts, CountedInSplit
    <3>3. CASE i - 2 >= first[t]
      BY <3>1, <3>3
    <3>4. CASE i - 2 < first[t]
      BY <3>2, <3>4 DEF Headless, AllCounted
    <3> QED  BY <3>1, <3>2, <3>3, <3>4
  <2> HIDE DEF T
  <2>2. /\ IsFiniteSet(Headless) /\ IsFiniteSet({t \in Tasks : Beheads(t)})
        /\ Cardinality(Headless) <= Cardinality({t \in Tasks : Beheads(t)})
    BY <1>1, HeadlessFacts
  <2>3. /\ Cardinality(AllCounted(0)) \in Nat
        /\ Cardinality(T(0)) \in Nat /\ Cardinality(Headless) \in Nat
        /\ Cardinality(AllCounted(0)) <= Cardinality(T(0)) + Cardinality(Headless)
    BY <1>3, <2>1, <2>2, AtMostBoth
  <2>4. Cardinality({t \in Tasks : Beheads(t)}) \in Nat
    BY <2>2, FS_CardinalityType
  <2> QED  BY <1>1, <1>2, <1>3, <2>2, <2>3, <2>4
<1> QED  BY <1>4, <1>5

\* The sum of the output is the number of lines that were counted.
LEMMA OutputSum ==
    ASSUME TweetInvariant, Finished, job = "tweets"
    PROVE  LET A == UNION {AllCounted(h) : h \in Hours}
           IN  /\ MapThenSumSet(LAMBDA h : output[h], Hours) = Cardinality(A)
               /\ IsFiniteSet(A)
<1> DEFINE D == [h \in Hours |-> AllCounted(h)]
           A == UNION {AllCounted(h) : h \in Hours}
<1>1. TweetTypeOK /\ SplitsInOrder /\ WrittenInv /\ IsFiniteSet(Hours)
  BY TweetAssumption DEF TweetInvariant
<1>2. \A h \in Hours : IsFiniteSet(D[h]) /\ output[h] = Cardinality(D[h])
  BY <1>1, TotalIsSize DEF TweetInvariant, OutputInv
<1>3. Disjoint(D, Hours)
  <2> SUFFICES ASSUME NEW g \in Hours, NEW h \in Hours, g # h,
                      NEW i \in AllCounted(g), i \in AllCounted(h)
               PROVE  FALSE
    BY DEF Disjoint
  <2>1. PICK s \in Tasks : i \in CountedLines(s, g)
    BY DEF AllCounted
  <2>2. PICK t \in Tasks : i \in CountedLines(t, h)
    BY DEF AllCounted
  <2>3. s = t
    BY <1>1, <2>1, <2>2, TasksAreApart
  <2> QED  BY <2>1, <2>2, <2>3 DEF CountedLines
<1>4. Joined(D, Hours) = A
  BY DEF Joined
<1> HIDE DEF D, A
<1>5. /\ \E g : Summing(output, Hours, g)
      /\ \A g : Summing(output, Hours, g) => g[Hours] = Cardinality(Joined(D, Hours))
  BY <1>1, <1>2, <1>3, SumOfSizes
<1>6. IsFiniteSet(A)
  BY <1>1, <1>2, <1>3, <1>4, JoinedOne
<1> DEFINE chosen == CHOOSE g : Summing(output, Hours, g)
<1>7. MapThenSumSet(LAMBDA h : output[h], Hours) = chosen[Hours]
  BY Zenon DEF MapThenSumSet, MapThenFoldSet, Summing
<1>8. Summing(output, Hours, chosen)
  BY <1>5, Zenon
<1> HIDE DEF chosen
<1>9. MapThenSumSet(LAMBDA h : output[h], Hours) = Cardinality(A)
  BY <1>4, <1>5, <1>7, <1>8, Zenon
<1> QED  BY <1>6, <1>9 DEF A

\* The tweets that are to be counted under some hour.
AllTweets == UNION {Counted(h) : h \in Hours}

\* The words of theirs that are in a record which is not whole.
LeftWords ==
    {i \in 1..NumLines : /\ Kind(i) = "W" /\ NumberOf(i) \in AllTweets
                         /\ \E t \in Tasks : i \in Lines(t) /\ i \notin Read(t)}

\* There is one in a split at most, whose length four does not divide.
LEMMA LeftFacts ==
    ASSUME TweetInvariant, Finished, job = "tweets"
    PROVE  LET dropping == {t \in Tasks : (End(t) - first[t]) % tweet_length # 0}
           IN  /\ IsFiniteSet(LeftWords) /\ IsFiniteSet(dropping)
               /\ Cardinality(LeftWords) <= Cardinality(dropping)
<1> DEFINE dropping == {t \in Tasks : (End(t) - first[t]) % tweet_length # 0}
           f == [i \in LeftWords |-> CHOOSE t \in Tasks : i \in Lines(t) /\ i \notin Read(t)]
<1>1. /\ TweetTypeOK
      /\ \A t \in Tasks : line[t] + 4 > End(t) /\ (line[t] - first[t]) % 4 = 0
  BY DEF TweetInvariant, OutputInv, DoneInv, FieldInv, tweet_length
<1>2. IsFiniteSet(dropping)
  <2>1. IsFiniteSet(Tasks)
    BY TweetAssumption, FS_Interval DEF Tasks
  <2> QED  BY <2>1, FS_Subset
<1>3. ASSUME NEW i \in LeftWords
      PROVE  f[i] \in Tasks /\ i \in Lines(f[i]) /\ i \notin Read(f[i])
  <2>1. \E t \in Tasks : i \in Lines(t) /\ i \notin Read(t)
    BY DEF LeftWords
  <2> QED  BY <2>1
<1> HIDE DEF f
<1>4. ASSUME NEW i \in LeftWords, NEW t \in Tasks, t = f[i]
      PROVE  /\ line[t] \in Nat /\ i \in Int /\ line[t] <= i /\ i < line[t] + 3
             /\ (End(t) - first[t]) % 4 # 0
  <2>1. /\ first[t] \in Nat /\ End(t) \in Nat /\ line[t] \in Nat /\ first[t] <= line[t]
    BY <1>1, SplitFacts
  <2>2. i \in first[t]..(End(t) - 1) /\ i \notin first[t]..(line[t] - 1)
    BY <1>3, <1>4 DEF Lines, Read
  <2>3. i \in Int /\ line[t] <= i /\ i < End(t) /\ End(t) < line[t] + 4
    BY <1>1, <2>1, <2>2
  <2>4. (line[t] - first[t]) % 4 = 0
    BY <1>1
  <2>5. End(t) - line[t] \in 1..3
    BY <2>1, <2>3
  <2>6. (End(t) - first[t]) % 4 # 0
    BY <2>1, <2>4, <2>5
  <2> QED  BY <2>1, <2>3, <2>6
<1>5. \A i \in LeftWords : f[i] \in dropping
  BY <1>3, <1>4 DEF tweet_length
<1>6. ASSUME NEW i \in LeftWords, NEW j \in LeftWords, f[i] = f[j]
      PROVE  i = j
  <2>1. PICK t \in Tasks : t = f[i] /\ t = f[j]
    BY <1>3, <1>6
  <2>2. /\ line[t] \in Nat /\ i \in Int /\ j \in Int
        /\ line[t] <= i /\ i < line[t] + 3 /\ line[t] <= j /\ j < line[t] + 3
    BY <1>4, <2>1
  <2>3. ASSUME NEW k \in LeftWords PROVE NumberOf(k) \in Int /\ k = 4 * NumberOf(k) - 1
    <3>1. k \in 1..NumLines /\ Kind(k) = "W"
      BY DEF LeftWords
    <3> QED  BY <3>1, LineFacts
  <2>4. NumberOf(i) = NumberOf(j)
    BY <2>2, <2>3
  <2> QED  BY <2>3, <2>4
<1> HIDE DEF dropping
<1>7. IsFiniteSet(LeftWords) /\ Cardinality(LeftWords) <= Cardinality(dropping)
  BY <1>2, <1>5, <1>6, NoGreater
<1> QED  BY <1>2, <1>7 DEF dropping

(***************************************************************************)
(* The words of each tweet are in a split: they have been counted, or they *)
(* are left in a record that is not whole.                                 *)
(***************************************************************************)
LEMMA TweetsCounted == TweetInvariant => MissedPerSplit
<1> DEFINE dropping == {t \in Tasks : (End(t) - first[t]) % tweet_length # 0}
           A == UNION {AllCounted(h) : h \in Hours}
           W == {4 * k - 1 : k \in AllTweets}
<1> SUFFICES ASSUME TweetInvariant, Finished, job = "tweets"
             PROVE  MapThenSumSet(LAMBDA h : output[h], Hours)
                      >= Cardinality(AllTweets) - Cardinality(dropping)
  BY DEF MissedPerSplit, AllTweets
<1>1. TweetTypeOK /\ SplitsInOrder /\ FieldInv
  BY DEF TweetInvariant
<1>2. MapThenSumSet(LAMBDA h : output[h], Hours) = Cardinality(A) /\ IsFiniteSet(A)
  BY OutputSum
<1>3. /\ IsFiniteSet(LeftWords) /\ IsFiniteSet(dropping)
      /\ Cardinality(LeftWords) <= Cardinality(dropping)
  BY LeftFacts
<1>4. AllTweets \in SUBSET (1..NumTweets)
  BY <1>1, CountedFacts DEF AllTweets
<1>5. IsFiniteSet(AllTweets) /\ IsFiniteSet(W) /\ Cardinality(W) = Cardinality(AllTweets)
  <2>1. 1 \in 0..3
    OBVIOUS
  <2> QED  BY <1>4, <2>1, LinesOfTweets
<1>6. W \subseteq A \cup LeftWords
  <2> SUFFICES ASSUME NEW k \in AllTweets PROVE 4 * k - 1 \in A \cup LeftWords
    OBVIOUS
  <2> DEFINE i == 4 * k - 1
  <2>1. k \in 1..NumTweets /\ 1 \in 0..3
    BY <1>4
  <2>2. i \in 1..NumLines /\ NumberOf(i) = k
    BY <2>1, TweetLines
  <2>3. Kind(i) = "W" /\ Tweet(i) = tweets[k]
    <3> HIDE DEF i
    <3>1. i = 4 * NumberOf(i) - 1
      BY <2>2 DEF i
    <3> QED  BY <2>2, <3>1, LineFacts
  <2> HIDE DEF i
  <2>4. tweets[k].sleep /\ tweets[k].hour \in Hours
    BY DEF AllTweets, Counted
  <2>5. PICK t \in Tasks : i \in Lines(t)
    BY <1>1, <2>2, InSomeSplit
  <2>6. CASE i \in Read(t)
    <3>1. HourOfWords(t, i) \in Hours
      BY <2>3, <2>4, TweetAssumption DEF HourOfWords
    <3>2. i \in CountedLines(t, HourOfWords(t, i))
      BY <2>3, <2>4, <2>6 DEF CountedLines
    <3>3. i \in A
      BY <3>1, <3>2 DEF AllCounted
    <3> QED  BY <3>3 DEF i
  <2>7. CASE i \notin Read(t)
    <3>1. i \in LeftWords
      BY <2>2, <2>3, <2>5, <2>7 DEF LeftWords
    <3> QED  BY <3>1 DEF i
  <2> QED  BY <2>6, <2>7
<1> HIDE DEF A, W, dropping
<1>7. /\ Cardinality(A) \in Nat /\ Cardinality(LeftWords) \in Nat /\ Cardinality(W) \in Nat
      /\ Cardinality(W) <= Cardinality(A) + Cardinality(LeftWords)
  BY <1>2, <1>3, <1>6, AtMostBoth
<1>8. Cardinality(dropping) \in Nat
  BY <1>3, FS_CardinalityType
<1>9. Cardinality(A) >= Cardinality(AllTweets) - Cardinality(dropping)
  BY <1>3, <1>5, <1>7, <1>8
<1> QED  BY <1>2, <1>9

-----------------------------------------------------------------------------
(***************************************************************************)
(* The properties of the jobs.                                             *)
(***************************************************************************)
\* The types of the jobs' variables.
THEOREM TweetsTyped == TweetSpec => []TweetTypeOK
<1>1. TweetInvariant => TweetTypeOK
  BY DEF TweetInvariant
<1> QED  BY <1>1, TweetsCorrect, PTL

\* Tweets by the hour are counted exactly.
THEOREM LinesExact == TweetSpec => []LinesAreExact
<1> QED  BY LinesCounted, TweetsCorrect, PTL

\* A task misses the tweet at the end of its split at most.
THEOREM FewMissed == TweetSpec => []MissedPerSplit
<1> QED  BY TweetsCounted, TweetsCorrect, PTL

\* Tweets that mention sleep are counted under their hours, but for those of
\* which a split has only the words.
THEOREM HoursTrue == TweetSpec => []HoursAreTrue
<1> QED  BY HoursCounted, TweetsCorrect, PTL

=============================================================================
