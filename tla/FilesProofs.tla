----------------------------- MODULE FilesProofs -----------------------------
(***************************************************************************)
(* Proofs that FilesInvariant holds of the files of the gRPC server and of *)
(* their history, and of the properties it gives, for every number of      *)
(* users and crashes.                                                      *)
(***************************************************************************)
EXTENDS FilesInv, FiniteSetTheorems, SequenceTheorems, NaturalsInduction,
        WellFoundedInduction, TLAPS

\* Of the numbers that are not in a set, there is a least one.
LEMMA LeastOne ==
    ASSUME NEW S \in SUBSET Nat, S # {}
    PROVE  \E x \in S : \A y \in S : x <= y
<1> DEFINE less == OpToRel(<, Nat)
<1>1. IsWellFoundedOn(less, Nat)
  BY NatLessThanWellFounded
<1> HIDE DEF less
<1>2. PICK x \in S : \A y \in S : ~ <<y, x>> \in less
  BY <1>1, WFMin
<1>3. \A y \in S : x =< y
  <2> SUFFICES ASSUME NEW y \in S PROVE x =< y
    OBVIOUS
  <2>1. ~(y < x)
    BY <1>2 DEF less, OpToRel
  <2> QED  BY <2>1
<1> QED  BY <1>3

-----------------------------------------------------------------------------
(***************************************************************************)
(* What is in a file: after a line is added, and after it is copied        *)
(* without a line.                                                         *)
(***************************************************************************)
LEMMA CountType ==
    ASSUME NEW S, NEW s \in Seq(S), NEW x
    PROVE  /\ IsFiniteSet({k \in DOMAIN s : s[k] = x})
           /\ Count(s, x) \in Nat
           /\ Count(s, x) = 0 <=> x \notin ToSet(s)
<1> DEFINE K == {k \in DOMAIN s : s[k] = x}
<1>1. DOMAIN s = 1..Len(s) /\ Len(s) \in Nat
  OBVIOUS
<1>2. IsFiniteSet(K)
  <2>1. IsFiniteSet(1..Len(s)) /\ K \in SUBSET (1..Len(s))
    BY <1>1, FS_Interval
  <2> QED  BY <2>1, FS_Subset
<1>3. Cardinality(K) \in Nat /\ (Cardinality(K) = 0 <=> K = {})
  BY <1>2, FS_CardinalityType, FS_EmptySet
<1>4. K = {} <=> x \notin ToSet(s)
  BY DEF ToSet
<1> QED  BY <1>2, <1>3, <1>4 DEF Count

\* A file after a line is added at its end.
LEMMA AppendedLine ==
    ASSUME NEW S, NEW s \in Seq(S), NEW y \in S
    PROVE  /\ Append(s, y) \in Seq(S)
           /\ Append(s, y) # s
           /\ ToSet(Append(s, y)) = ToSet(s) \cup {y}
           /\ \A x : Count(Append(s, y), x) = IF x = y THEN Count(s, x) + 1 ELSE Count(s, x)
<1> DEFINE t == Append(s, y)
<1>1. /\ t \in Seq(S) /\ Len(t) = Len(s) + 1 /\ Len(s) \in Nat
      /\ DOMAIN s = 1..Len(s) /\ DOMAIN t = 1..(Len(s) + 1)
      /\ \A k \in 1..Len(s) : t[k] = s[k]
      /\ t[Len(s) + 1] = y
  BY AppendProperties
<1> HIDE DEF t
<1>2. ToSet(t) = ToSet(s) \cup {y}
  <2>1. \A k \in 1..(Len(s) + 1) : k \in 1..Len(s) \/ k = Len(s) + 1
    BY <1>1
  <2>2. Len(s) + 1 \in 1..(Len(s) + 1) /\ 1..Len(s) \subseteq 1..(Len(s) + 1)
    BY <1>1
  <2> QED  BY <1>1, <2>1, <2>2 DEF ToSet
<1>3. ASSUME NEW x
      PROVE  Count(t, x) = IF x = y THEN Count(s, x) + 1 ELSE Count(s, x)
  <2> DEFINE K == {k \in DOMAIN s : s[k] = x}
             L == {k \in DOMAIN t : t[k] = x}
  <2>1. CASE x = y
    <3>1. L = K \cup {Len(s) + 1}
      BY <1>1, <2>1
    <3>2. Len(s) + 1 \notin K
      BY <1>1
    <3>0. IsFiniteSet(K)
      BY CountType
    <3> HIDE DEF K, L
    <3>3. Cardinality(L) = Cardinality(K) + 1
      BY <3>0, <3>1, <3>2, FS_AddElement
    <3> QED  BY <2>1, <3>3 DEF Count, K, L
  <2>2. CASE x # y
    <3>1. L = K
      BY <1>1, <2>2
    <3> QED  BY <2>2, <3>1 DEF Count
  <2> QED  BY <2>1, <2>2
<1>4. t # s
  BY <1>1
<1> QED  BY <1>1, <1>2, <1>3, <1>4 DEF t

\* The recursion of Without up to line n: what it has copied by then.
Copies(g, s, line, n) ==
    g = [i \in 0..n |-> IF i = 0 THEN <<>>
                        ELSE IF s[i] = line THEN g[i - 1] ELSE Append(g[i - 1], s[i])]

\* There is such a function up to every line, or up to a first one there is not.
LEMMA CopiesExist ==
    ASSUME NEW S, NEW s \in Seq(S), NEW line
    PROVE  \A n \in 0..Len(s) : \E g : Copies(g, s, line, n)
<1> DEFINE bad == {n \in 0..Len(s) : ~\E g : Copies(g, s, line, n)}
<1> SUFFICES ASSUME bad # {} PROVE FALSE
  OBVIOUS
<1>1. bad \in SUBSET Nat
  OBVIOUS
<1>2. PICK n \in bad : \A m \in bad : n <= m
  BY <1>1, LeastOne
<1>3. n \in 0..Len(s) /\ ~\E g : Copies(g, s, line, n)
  OBVIOUS
<1>4. n # 0
  <2>1. Copies([i \in 0..0 |-> <<>>], s, line, 0)
    BY DEF Copies
  <2> QED  BY <1>3, <2>1
<1>5. n - 1 \in 0..Len(s) /\ n - 1 \notin bad
  BY <1>2, <1>3, <1>4
<1>6. PICK g : Copies(g, s, line, n - 1)
  BY <1>5
<1> HIDE DEF bad
<1> DEFINE h == [i \in 0..n |-> IF i = n
                                THEN IF s[n] = line THEN g[n - 1] ELSE Append(g[n - 1], s[n])
                                ELSE g[i]]
<1>7. Copies(h, s, line, n)
  <2>1. \A i \in 0..n : i # n => i \in 0..(n - 1)
    BY <1>3
  <2>2. \A i \in 0..(n - 1) : g[i] = IF i = 0 THEN <<>>
                                      ELSE IF s[i] = line THEN g[i - 1] ELSE Append(g[i - 1], s[i])
    BY <1>6 DEF Copies
  <2>3. \A i \in 0..n : i # 0 => i - 1 \in 0..n /\ i - 1 # n
    BY <1>3
  <2>4. \A i \in 0..n : h[i] = IF i = 0 THEN <<>>
                               ELSE IF s[i] = line THEN h[i - 1] ELSE Append(h[i - 1], s[i])
    BY <1>3, <1>4, <2>1, <2>2, <2>3
  <2> HIDE DEF h
  <2>5. h = [i \in 0..n |-> h[i]]
    BY DEF h
  <2> QED  BY <2>4, <2>5 DEF Copies
<1> QED  BY <1>3, <1>7

\* What Without chooses is the last of the copies made line by line.
LEMMA WithoutCopies ==
    ASSUME NEW S, NEW s \in Seq(S), NEW line
    PROVE  \E g : Copies(g, s, line, Len(s)) /\ Without(s, line) = g[Len(s)]
<1> DEFINE kept == CHOOSE g : Copies(g, s, line, Len(s))
<1>1. Len(s) \in 0..Len(s)
  OBVIOUS
<1>2. Copies(kept, s, line, Len(s))
  BY <1>1, CopiesExist
<1>3. Without(s, line) = kept[Len(s)]
  BY Zenon DEF Without, Copies
<1> QED  BY <1>2, <1>3

\* A file after it is copied without a line: no other line is lost or added.
LEMMA WithoutLine ==
    ASSUME NEW S, NEW s \in Seq(S), NEW line
    PROVE  /\ Without(s, line) \in Seq(S)
           /\ ToSet(Without(s, line)) = ToSet(s) \ {line}
           /\ \A x : x # line => Count(Without(s, line), x) = Count(s, x)
<1>1. PICK g : Copies(g, s, line, Len(s)) /\ Without(s, line) = g[Len(s)]
  BY WithoutCopies
<1> DEFINE upTo(n) == SubSeq(s, 1, n)
           good(n) == /\ g[n] \in Seq(S)
                      /\ ToSet(g[n]) = ToSet(upTo(n)) \ {line}
                      /\ \A x : x # line => Count(g[n], x) = Count(upTo(n), x)
           bad == {n \in 0..Len(s) : ~good(n)}
<1>2. \A n \in 0..Len(s) : g[n] = IF n = 0 THEN <<>>
                                  ELSE IF s[n] = line THEN g[n - 1] ELSE Append(g[n - 1], s[n])
  BY <1>1 DEF Copies
<1>3. upTo(0) = <<>> /\ upTo(Len(s)) = s
  BY SubSeqProperties, EmptySeq
<1>4. ASSUME NEW n \in 0..Len(s), n # 0
      PROVE  upTo(n - 1) \in Seq(S) /\ s[n] \in S /\ upTo(n) = Append(upTo(n - 1), s[n])
  <2>1. upTo(n - 1) \in Seq(S) /\ s[n] \in S
    BY <1>4, SubSeqProperties
  <2> QED  BY <1>4, <2>1, SubSeqProperties
<1>5. bad = {}
  <2> SUFFICES ASSUME bad # {} PROVE FALSE
    OBVIOUS
  <2>1. bad \in SUBSET Nat
    OBVIOUS
  <2>2. PICK n \in bad : \A m \in bad : n <= m
    BY <2>1, LeastOne
  <2>3. n \in 0..Len(s) /\ ~good(n)
    OBVIOUS
  <2>4. CASE n = 0
    <3>1. g[0] = <<>>
      BY <1>2, <2>3, <2>4
    <3>2. ToSet(<<>>) = {} /\ <<>> \in Seq(S)
      BY DEF ToSet
    <3> HIDE DEF upTo
    <3> QED  BY <2>3, <2>4, <3>1, <3>2, <1>3
  <2>5. CASE n # 0
    <3>1. n - 1 \in 0..Len(s) /\ n - 1 \notin bad
      BY <2>2, <2>3, <2>5
    <3>2. good(n - 1)
      BY <3>1
    <3>3. upTo(n - 1) \in Seq(S) /\ s[n] \in S /\ upTo(n) = Append(upTo(n - 1), s[n])
      BY <2>3, <2>5, <1>4
    <3>4. /\ ToSet(upTo(n)) = ToSet(upTo(n - 1)) \cup {s[n]}
          /\ \A x : Count(upTo(n), x) = IF x = s[n] THEN Count(upTo(n - 1), x) + 1
                                                    ELSE Count(upTo(n - 1), x)
      <4> HIDE DEF upTo
      <4> QED  BY <3>3, AppendedLine
    <3> HIDE DEF upTo
    <3>5. CASE s[n] = line
      <4>1. g[n] = g[n - 1]
        BY <2>3, <2>5, <3>5, <1>2
      <4> QED  BY <2>3, <3>2, <3>4, <3>5, <4>1
    <3>6. CASE s[n] # line
      <4>1. g[n] = Append(g[n - 1], s[n])
        BY <2>3, <2>5, <3>6, <1>2
      <4>2. /\ g[n] \in Seq(S) /\ ToSet(g[n]) = ToSet(g[n - 1]) \cup {s[n]}
            /\ \A x : Count(g[n], x) = IF x = s[n] THEN Count(g[n - 1], x) + 1
                                                   ELSE Count(g[n - 1], x)
        BY <3>2, <3>3, <4>1, AppendedLine
      <4> QED  BY <2>3, <3>2, <3>4, <3>6, <4>2
    <3> QED  BY <3>5, <3>6
  <2> QED  BY <2>4, <2>5
<1>6. good(Len(s))
  <2>1. Len(s) \in 0..Len(s)
    OBVIOUS
  <2> QED  BY <1>5, <2>1
<1> QED  BY <1>1, <1>3, <1>6

-----------------------------------------------------------------------------
(***************************************************************************)
(* What a step leaves of the files nothing has happened to.                *)
(***************************************************************************)
Harm == damaged' = damaged \cup Mixed \cup Overwritten \cup Lost \cup Unwritten

OthersStay(u) == \A x \in Users \ {u} : at'[x] = at[x] /\ arg'[x] = arg[x]

ErasePCs == {"removeFollowing", "renameFollowing", "removeFollowers", "renameFollowers"}

\* A file that is sound after a step was sound before it, and took no harm.
LEMMA SoundSooner ==
    ASSUME Harm, NEW f \in Files, Sound(f)'
    PROVE  /\ Sound(f)
           /\ f \notin Overwritten /\ f \notin Lost /\ f \notin Unwritten
           /\ f \notin Mixed /\ f \notin Mixed'
BY DEF Harm, Sound

\* Files of the two kinds are different, and so are the files of two users.
LEMMA FileNames ==
    /\ \A u \in Users : Following(u) \in Files /\ Followers(u) \in Files
    /\ \A u, v : Following(u) # Followers(v)
    /\ \A u, v : (Following(u) = Following(v) => u = v) /\ (Followers(u) = Followers(v) => u = v)
BY DEF Following, Followers, Files

\* A sound file holds lines, and so does it when it has been erased.
LEMMA ContentType ==
    ASSUME HistoryTypeOK, TempInv, NEW f \in Files, Sound(f)
    PROVE  Content(f) \in Seq(Users)
<1>1. CASE \E u \in Users : Renaming(u) /\ ErasedFile(u) = f
  <2>1. PICK u \in Users : Renaming(u) /\ ErasedFile(u) = f
    BY <1>1
  <2>2. u \in Erasers
    BY <2>1 DEF Renaming, Erasers
  <2>3. temp # NoFile
    BY <2>1, <2>2 DEF TempInv
  <2> QED  BY <1>1, <2>3 DEF Content, HistoryTypeOK, FilesTypeOK
<1>2. CASE ~ \E u \in Users : Renaming(u) /\ ErasedFile(u) = f
  BY <1>2 DEF Content, HistoryTypeOK, FilesTypeOK
<1> QED  BY <1>1, <1>2

\* A step outside the erases and the files.
LEMMA ContentStays ==
    ASSUME HistoryTypeOK, TempInv, Harm, file' = file, temp' = temp,
           \A x \in Users : \/ at'[x] = at[x] /\ arg'[x] = arg[x]
                            \/ at[x] \notin ErasePCs /\ at'[x] \notin ErasePCs
    PROVE  TempInv' /\ \A f \in Files : Sound(f)' => Content(f)' = Content(f)
<1>1. \A x \in Users : (at'[x] \in ErasePCs <=> at[x] \in ErasePCs)
                       /\ (at[x] \in ErasePCs => at'[x] = at[x] /\ arg'[x] = arg[x])
  OBVIOUS
<1>2. \A x \in Users : x \in Erasers' <=> x \in Erasers
  BY <1>1 DEF Erasers, ErasePCs
<1>3. \A x \in Erasers : /\ ErasedFile(x)' = ErasedFile(x)
                         /\ ErasedLine(x)' = ErasedLine(x)
                         /\ ErasedFile(x) \in Files
                         /\ Renaming(x)' <=> Renaming(x)
  BY <1>1, FileNames DEF Erasers, ErasePCs, ErasedFile, ErasedLine, Renaming, Following, Followers,
     HistoryTypeOK, FilesTypeOK
<1>4. \A x \in Users : (Renaming(x) => x \in Erasers) /\ (Renaming(x)' => x \in Erasers')
  BY DEF Renaming, Erasers
<1>5. TempInv'
  <2> SUFFICES ASSUME NEW x \in Erasers', Sound(ErasedFile(x))'
               PROVE  /\ temp # NoFile
                      /\ ~Renaming(x)' => temp = Without(file[ErasedFile(x)'], ErasedLine(x)')
    BY DEF TempInv
  <2>1. x \in Erasers
    BY <1>2 DEF Erasers
  <2>2. Sound(ErasedFile(x))
    <3>1. ErasedFile(x) \notin damaged' \cup Mixed'
      BY <1>3, <2>1 DEF Sound
    <3> QED  BY <1>3, <2>1, <3>1 DEF Sound, Harm
  <2> QED  BY <1>3, <2>1, <2>2 DEF TempInv
<1>6. \A f \in Files : Content(f)' = Content(f)
  BY <1>2, <1>3, <1>4 DEF Content
<1> QED  BY <1>5, <1>6

\* A line is added by a thread that erases nothing.
LEMMA ContentGrows ==
    ASSUME HistoryTypeOK, TempInv, Harm, NEW u \in Users, OthersStay(u),
           at[u] \notin ErasePCs, at'[u] \notin ErasePCs, temp' = temp,
           NEW g \in Files, NEW l \in Users, file' = [file EXCEPT ![g] = Append(@, l)]
    PROVE  /\ TempInv'
           /\ \A f \in Files : Sound(f)' =>
                Content(f)' = IF f = g THEN Append(Content(f), l) ELSE Content(f)
<1>1. \A x \in Users : (at'[x] \in ErasePCs <=> at[x] \in ErasePCs)
                       /\ (at[x] \in ErasePCs => x # u /\ at'[x] = at[x] /\ arg'[x] = arg[x])
  BY DEF OthersStay
<1>2. \A x \in Users : x \in Erasers' <=> x \in Erasers
  BY <1>1 DEF Erasers, ErasePCs
<1>3. \A x \in Erasers : /\ ErasedFile(x)' = ErasedFile(x)
                         /\ ErasedLine(x)' = ErasedLine(x)
                         /\ ErasedFile(x) \in Files
                         /\ Renaming(x)' <=> Renaming(x)
                         /\ at'[x] = at[x]
  BY <1>1, FileNames DEF Erasers, ErasePCs, ErasedFile, ErasedLine, Renaming, Following, Followers,
     HistoryTypeOK, FilesTypeOK
<1>4. \A x \in Users : (Renaming(x) => x \in Erasers) /\ (Renaming(x)' => x \in Erasers')
  BY DEF Renaming, Erasers
<1>5. /\ file[g] \in Seq(Users) /\ file'[g] = Append(file[g], l) /\ file'[g] # file[g]
      /\ \A f \in Files : f # g => file'[f] = file[f]
  BY AppendedLine DEF HistoryTypeOK, FilesTypeOK
<1>6. \A x \in Erasers : ErasedFile(x) = g => g \in Overwritten
  BY <1>3, <1>5 DEF Overwritten
<1>7. g \in damaged' \/ \A x \in Erasers : ErasedFile(x) # g
  BY <1>6 DEF Harm
<1>8. TempInv'
  <2> SUFFICES ASSUME NEW x \in Erasers', Sound(ErasedFile(x))'
               PROVE  /\ temp # NoFile
                      /\ ~Renaming(x)' => temp = Without(file'[ErasedFile(x)'], ErasedLine(x)')
    BY DEF TempInv
  <2>1. x \in Erasers
    BY <1>2 DEF Erasers
  <2>2. ErasedFile(x) \notin damaged' \cup Mixed'
    BY <1>3, <2>1 DEF Sound
  <2>3. Sound(ErasedFile(x)) /\ ErasedFile(x) # g
    BY <1>3, <1>7, <2>1, <2>2 DEF Sound, Harm
  <2> QED  BY <1>3, <1>5, <2>1, <2>3 DEF TempInv
<1>9. ASSUME NEW f \in Files, Sound(f)'
      PROVE  Content(f)' = IF f = g THEN Append(Content(f), l) ELSE Content(f)
  <2>1. CASE f = g
    <3>1. \A x \in Erasers : ErasedFile(x) # g
      BY <1>7, <1>9, <2>1 DEF Sound
    <3>2. /\ ~ \E x \in Users : Renaming(x) /\ ErasedFile(x) = g
          /\ ~ \E x \in Users : Renaming(x)' /\ ErasedFile(x)' = g
      BY <1>2, <1>3, <1>4, <3>1
    <3> QED  BY <1>5, <2>1, <3>2 DEF Content
  <2>2. CASE f # g
    <3>1. (\E x \in Users : Renaming(x) /\ ErasedFile(x) = f)
            <=> (\E x \in Users : Renaming(x)' /\ ErasedFile(x)' = f)
      BY <1>2, <1>3, <1>4
    <3> QED  BY <1>5, <2>2, <3>1 DEF Content
  <2> QED  BY <2>1, <2>2
<1> QED  BY <1>8, <1>9

\* An erase copies its file: it holds what it did, and temp.txt the same but for
\* the erased line, unless another erase has copied a file, too.
LEMMA ContentCopied ==
    ASSUME HistoryTypeOK, TempInv, Harm, NEW u \in Users, OthersStay(u), NEW g \in Files,
           at[u] \notin ErasePCs, u \in Erasers', ~Renaming(u)', ErasedFile(u)' = g,
           temp' = Without(file[g], ErasedLine(u)'), file' = file
    PROVE  TempInv' /\ \A f \in Files : Sound(f)' => Content(f)' = Content(f)
<1>1. \A x \in Erasers : x # u /\ at'[x] = at[x] /\ arg'[x] = arg[x]
  BY DEF OthersStay, Erasers, ErasePCs
<1>2. \A x \in Erasers : /\ x \in Erasers'
                         /\ ErasedFile(x)' = ErasedFile(x)
                         /\ Renaming(x)' <=> Renaming(x)
  BY <1>1 DEF Erasers, ErasedFile, Renaming, Following, Followers
<1>3. \A x \in Users : x # u /\ x \in Erasers' => x \in Erasers
  BY DEF OthersStay, Erasers
<1>4. \A x \in Users : (Renaming(x) => x \in Erasers) /\ (Renaming(x)' => x \in Erasers')
  BY DEF Renaming, Erasers
<1>5. \A f \in Files, x \in Erasers' : Sound(f)' /\ ErasedFile(x)' = f => x = u
  BY DEF Sound, Mixed
<1>6. file[g] \in Seq(Users)
  BY DEF HistoryTypeOK, FilesTypeOK
<1>7. temp' # NoFile
  BY <1>6, WithoutLine, FileAssumption
<1>8. TempInv'
  <2> SUFFICES ASSUME NEW x \in Erasers', Sound(ErasedFile(x))'
               PROVE  /\ temp' # NoFile
                      /\ ~Renaming(x)' => temp' = Without(file'[ErasedFile(x)'], ErasedLine(x)')
    BY DEF TempInv
  <2>1. CASE x = u
    BY <1>7, <2>1
  <2>2. CASE x # u
    <3>1. x \in Erasers
      BY <1>3, <2>2 DEF Erasers
    <3>2. ErasedFile(x)' \in Files
      BY <1>2, <3>1, FileNames DEF ErasedFile, HistoryTypeOK, FilesTypeOK, Erasers
    <3> QED  BY <1>5, <2>2, <3>2
  <2> QED  BY <2>1, <2>2
<1>9. ASSUME NEW f \in Files, Sound(f)'
      PROVE  Content(f)' = Content(f)
  <2>1. ~ \E x \in Users : Renaming(x)' /\ ErasedFile(x)' = f
    BY <1>4, <1>5, <1>9
  <2>2. ~ \E x \in Users : Renaming(x) /\ ErasedFile(x) = f
    BY <1>2, <1>4, <2>1
  <2> QED  BY <2>1, <2>2 DEF Content
<1> QED  BY <1>8, <1>9

\* An erase removes its file: what it holds is in temp.txt now.
LEMMA ContentErased ==
    ASSUME HistoryTypeOK, TempInv, Harm, NEW u \in Users, OthersStay(u), NEW g \in Files,
           u \in Erasers, ~Renaming(u), ErasedFile(u) = g,
           Renaming(u)', ErasedFile(u)' = g, file' = [file EXCEPT ![g] = <<>>], temp' = temp
    PROVE  /\ TempInv'
           /\ \A f \in Files : Sound(f)' =>
                Content(f)' = IF f = g THEN Without(Content(f), ErasedLine(u)) ELSE Content(f)
<1>1. \A x \in Erasers : x # u => at'[x] = at[x] /\ arg'[x] = arg[x]
  BY DEF OthersStay, Erasers
<1>2. \A x \in Erasers : x # u => /\ ErasedFile(x)' = ErasedFile(x)
                                  /\ Renaming(x)' <=> Renaming(x)
  BY <1>1 DEF ErasedFile, Renaming, Following, Followers
<1>3. \A x \in Users : x # u => (x \in Erasers' <=> x \in Erasers)
  BY DEF OthersStay, Erasers
<1>4. \A x \in Users : (Renaming(x) => x \in Erasers) /\ (Renaming(x)' => x \in Erasers')
  BY DEF Renaming, Erasers
<1>5. \A f \in Files, x \in Erasers : Sound(f)' /\ ErasedFile(x) = f => x = u
  <2> SUFFICES ASSUME NEW f \in Files, NEW x \in Erasers, Sound(f)', ErasedFile(x) = f
               PROVE  x = u
    OBVIOUS
  <2>1. f \notin Mixed
    BY SoundSooner
  <2> QED  BY <2>1 DEF Mixed
<1>6. /\ file'[g] = <<>>
      /\ \A f \in Files : f # g => file'[f] = file[f]
  BY DEF HistoryTypeOK, FilesTypeOK
<1>7. TempInv'
  <2> SUFFICES ASSUME NEW x \in Erasers', Sound(ErasedFile(x))'
               PROVE  /\ temp # NoFile
                      /\ ~Renaming(x)' => temp = Without(file'[ErasedFile(x)'], ErasedLine(x)')
    BY DEF TempInv
  <2>1. CASE x = u
    <3>1. Sound(g)
      BY <2>1, SoundSooner
    <3> QED  BY <2>1, <3>1 DEF TempInv
  <2>2. CASE x # u
    <3>1. x \in Erasers
      BY <1>3, <2>2 DEF Erasers
    <3>2. ErasedFile(x) \in Files
      BY <3>1, FileNames DEF ErasedFile, HistoryTypeOK, FilesTypeOK, Erasers
    <3>3. ErasedFile(x) \notin damaged' \cup Mixed'
      BY <1>2, <2>2, <3>1 DEF Sound
    <3> QED  BY <1>5, <2>2, <3>1, <3>2, <3>3 DEF Sound
  <2> QED  BY <2>1, <2>2
<1>8. ASSUME NEW f \in Files, Sound(f)'
      PROVE  Content(f)' = IF f = g THEN Without(Content(f), ErasedLine(u)) ELSE Content(f)
  <2>1. ~ \E x \in Users : Renaming(x) /\ ErasedFile(x) = f
    BY <1>4, <1>5, <1>8
  <2>2. CASE f = g
    <3>1. Sound(g)
      BY <1>8, <2>2, SoundSooner
    <3>2. temp = Without(file[g], ErasedLine(u))
      BY <3>1 DEF TempInv
    <3>3. Content(f) = file[f]
      BY <2>1 DEF Content
    <3>4. Content(f)' = temp'
      BY <2>2 DEF Content
    <3> QED  BY <2>2, <3>2, <3>3, <3>4
  <2>3. CASE f # g
    <3>1. ~ \E x \in Users : Renaming(x)' /\ ErasedFile(x)' = f
      BY <1>2, <1>3, <1>4, <2>1, <2>3
    <3> QED  BY <1>6, <2>1, <2>3, <3>1 DEF Content
  <2> QED  BY <2>2, <2>3
<1> QED  BY <1>7, <1>8

\* An erase renames temp.txt: the file holds what temp.txt held for it.
LEMMA ContentRenamed ==
    ASSUME HistoryTypeOK, TempInv, Harm, NEW u \in Users, OthersStay(u), NEW g \in Files,
           Renaming(u), ErasedFile(u) = g, at'[u] \notin ErasePCs,
           file' = IF temp = NoFile THEN file ELSE [file EXCEPT ![g] = temp]
    PROVE  TempInv' /\ \A f \in Files : Sound(f)' => Content(f)' = Content(f)
<1>1. \A x \in Erasers : x # u => at'[x] = at[x] /\ arg'[x] = arg[x]
  BY DEF OthersStay, Erasers
<1>2. \A x \in Erasers : x # u => ErasedFile(x)' = ErasedFile(x)
  BY <1>1 DEF ErasedFile, Following, Followers
<1>3. \A x \in Users : x \in Erasers' => x # u /\ x \in Erasers
  BY DEF OthersStay, Erasers, ErasePCs
<1>4. \A x \in Users : (Renaming(x) => x \in Erasers) /\ (Renaming(x)' => x \in Erasers')
  BY DEF Renaming, Erasers
<1>5. \A f \in Files, x \in Erasers : Sound(f)' /\ ErasedFile(x) = f => x = u
  <2> SUFFICES ASSUME NEW f \in Files, NEW x \in Erasers, Sound(f)', ErasedFile(x) = f
               PROVE  x = u
    OBVIOUS
  <2>1. f \notin Mixed
    BY SoundSooner
  <2> QED  BY <1>4, <2>1 DEF Mixed
<1>6. TempInv'
  <2> SUFFICES ASSUME NEW x \in Erasers', Sound(ErasedFile(x))' PROVE FALSE
    BY DEF TempInv
  <2>1. x \in Erasers /\ x # u
    BY <1>3 DEF Erasers
  <2>2. ErasedFile(x) \in Files
    BY <2>1, FileNames DEF ErasedFile, HistoryTypeOK, FilesTypeOK, Erasers
  <2>3. ErasedFile(x) \notin damaged' \cup Mixed'
    BY <1>2, <2>1 DEF Sound
  <2> QED  BY <1>5, <2>1, <2>2, <2>3 DEF Sound
<1>7. ASSUME NEW f \in Files, Sound(f)'
      PROVE  Content(f)' = Content(f)
  <2>1. ~ \E x \in Users : Renaming(x)' /\ ErasedFile(x)' = f
    BY <1>2, <1>3, <1>4, <1>5, <1>7
  <2>2. CASE f = g
    <3>1. Sound(g)
      BY <1>7, <2>2, SoundSooner
    <3>2. temp # NoFile
      BY <1>4, <3>1 DEF TempInv
    <3>3. file'[g] = temp
      BY <3>2 DEF HistoryTypeOK, FilesTypeOK
    <3>4. Content(f) = temp
      BY <2>2 DEF Content
    <3> QED  BY <2>1, <2>2, <3>3, <3>4 DEF Content
  <2>3. CASE f # g
    <3>1. file'[f] = file[f]
      BY <2>3 DEF HistoryTypeOK, FilesTypeOK
    <3>2. ~ \E x \in Users : Renaming(x) /\ ErasedFile(x) = f
      BY <1>4, <1>5, <1>7, <2>3
    <3> QED  BY <2>1, <3>1, <3>2 DEF Content
  <2> QED  BY <2>2, <2>3
<1> QED  BY <1>6, <1>7

\* The server dies: no thread is left, and the files between the two last steps
\* of an erase are lost.
LEMMA ContentAfterDeath ==
    ASSUME HistoryTypeOK, TempInv, Harm, Dies
    PROVE  TempInv' /\ \A f \in Files : Sound(f)' => Content(f)' = Content(f)
<1>1. \A x \in Users : at'[x] \notin ErasePCs
                       /\ (at[x] \in ErasePCs => at'[x] = "prompt") /\ server' = "down"
  BY DEF Dies, LoginPCs, FollowPCs, UnFollowPCs, ErasePCs
<1>2. Erasers' = {} /\ \A x \in Users : ~Renaming(x)'
  BY <1>1 DEF Erasers, Renaming, ErasePCs
<1>3. TempInv'
  BY <1>2 DEF TempInv
<1>4. ASSUME NEW f \in Files, Sound(f)'
      PROVE  Content(f)' = Content(f)
  <2>1. f \notin Lost
    BY <1>4, SoundSooner
  <2>2. ~ \E x \in Users : Renaming(x) /\ ErasedFile(x) = f
    BY <1>1, <2>1 DEF Lost, Renaming, Erasers, ErasePCs
  <2> QED  BY <1>2, <2>2 DEF Content, Dies, diskVars
<1> QED  BY <1>3, <1>4

-----------------------------------------------------------------------------
(***************************************************************************)
(* Who follows and who is listed, action by action.                        *)
(***************************************************************************)
DiskInv == TempInv /\ FollowInv /\ CountInv

\* Where a call is for FollowInv and CountInv to speak of it.
TellingPCs == OffTheList \cup {"addFollower", "addFollowing"}

\* What the files say of a pair of users stays, if the lines of these two do and
\* no call between the two files comes or goes.
LEMMA PairStays ==
    ASSUME NEW x \in Users, NEW y \in Users, FollowPair(x, y), CountPair(x, y),
           Sound(Followers(y))' => /\ Sound(Followers(y))
                                   /\ Lists(Followers(y), x)' <=> Lists(Followers(y), x)
                                   /\ Times(x, y)' = Times(x, y),
           Sound(Following(x))' => /\ Sound(Following(x))
                                   /\ Lists(Following(x), y)' <=> Lists(Following(x), y),
           \/ at'[x] = at[x] /\ arg'[x] = arg[x]
           \/ at[x] \notin OffTheList \cup {"addFollowing"} /\ at'[x] \notin TellingPCs,
           crashes' = crashes
    PROVE  FollowPair(x, y)' /\ CountPair(x, y)'
<1>1. FollowPair(x, y)'
  BY DEF FollowPair, TellingPCs
<1>2. Between(x, y)' <=> Between(x, y)
  BY DEF Between, TellingPCs
<1>3. CountPair(x, y)'
  BY <1>2 DEF CountPair, TellingPCs, OffTheList
<1> QED  BY <1>1, <1>3

\* The lists keep their agreement in steps that leave them and those who change them as they were.
LEMMA ListsStay ==
    ASSUME FollowInv, CountInv, Harm, crashes' = crashes,
           \A f \in Files : Sound(f)' => Content(f)' = Content(f),
           \A x \in Users : \/ at'[x] = at[x] /\ arg'[x] = arg[x]
                            \/ at[x] \notin OffTheList \cup {"addFollowing"} /\ at'[x] \notin TellingPCs
    PROVE  FollowInv' /\ CountInv'
<1>1. ASSUME NEW x \in Users, NEW y \in Users
      PROVE  FollowPair(x, y)' /\ CountPair(x, y)'
  <2>1. Sound(Followers(y))' => /\ Sound(Followers(y))
                                /\ Lists(Followers(y), x)' <=> Lists(Followers(y), x)
                                /\ Times(x, y)' = Times(x, y)
    BY SoundSooner, FileNames DEF Lists, Times
  <2>2. Sound(Following(x))' => /\ Sound(Following(x))
                                /\ Lists(Following(x), y)' <=> Lists(Following(x), y)
    BY SoundSooner, FileNames DEF Lists
  <2>3. FollowPair(x, y) /\ CountPair(x, y)
    BY DEF FollowInv, CountInv
  <2> QED  BY <2>1, <2>2, <2>3, PairStays
<1> QED  BY <1>1 DEF FollowInv, CountInv

\* A step of a call outside the files.
LEMMA QuietDisk ==
    ASSUME HistoryTypeOK, DiskInv, Harm, file' = file, temp' = temp, crashes' = crashes,
           \A x \in Users : \/ at'[x] = at[x] /\ arg'[x] = arg[x]
                            \/ /\ at[x] \notin ErasePCs \cup OffTheList \cup {"addFollowing"}
                               /\ at'[x] \notin ErasePCs \cup TellingPCs
    PROVE  DiskInv'
BY ContentStays, ListsStay DEF DiskInv

\* Follow starts for a user who is not followed.
LEMMA FollowDisk ==
    ASSUME HistoryTypeOK, DiskInv, Harm, NEW u \in Users, NEW v \in Users, Follow(u, v)
    PROVE  DiskInv'
<1>1. /\ file' = file /\ temp' = temp /\ crashes' = crashes /\ OthersStay(u)
      /\ at[u] = "prompt" /\ at'[u] = "addFollower" /\ arg'[u] = v
  BY DEF Follow, Command, HistoryTypeOK, FilesTypeOK, diskVars, OthersStay
<1>2. TempInv' /\ \A f \in Files : Sound(f)' => Content(f)' = Content(f)
  BY <1>1, ContentStays DEF DiskInv, OthersStay, ErasePCs
<1>3. ~Lists(Following(u), v)
  <2>1. \A x \in Users : Renaming(x) => ErasedFile(x) # Following(u)
    BY <1>1, FileNames DEF Renaming, ErasedFile
  <2>2. Content(Following(u)) = file[Following(u)]
    BY <2>1 DEF Content
  <2> QED  BY <2>2 DEF Lists, Follow, Follows
<1>4. ASSUME NEW x \in Users, NEW y \in Users
      PROVE  FollowPair(x, y)' /\ CountPair(x, y)'
  <2>1. Sound(Followers(y))' => /\ Sound(Followers(y))
                                /\ Lists(Followers(y), x)' <=> Lists(Followers(y), x)
                                /\ Times(x, y)' = Times(x, y)
    BY <1>2, SoundSooner, FileNames DEF Lists, Times
  <2>2. Sound(Following(x))' => /\ Sound(Following(x))
                                /\ Lists(Following(x), y)' <=> Lists(Following(x), y)
    BY <1>2, SoundSooner, FileNames DEF Lists
  <2>3. FollowPair(x, y) /\ CountPair(x, y)
    BY DEF DiskInv, FollowInv, CountInv
  <2>4. CASE x = u
    <3>1. ~Between(u, y) /\ ~Between(u, y)'
      BY <1>1 DEF Between, OffTheList
    <3>2. FollowPair(u, y)'
      BY <1>1, <2>1, <2>2, <2>3, <2>4 DEF FollowPair, OffTheList
    <3>3. CountPair(u, y)'
      BY <1>1, <1>3, <2>1, <2>2, <2>3, <2>4, <3>1 DEF CountPair
    <3> QED  BY <2>4, <3>2, <3>3
  <2>5. CASE x # u
    BY <1>1, <2>1, <2>2, <2>3, <2>5, PairStays DEF OthersStay
  <2> QED  BY <2>4, <2>5
<1> QED  BY <1>2, <1>4 DEF DiskInv, FollowInv, CountInv

\* The user's own line does not make the user follow anybody else.
LEMMA AddSelfDisk ==
    ASSUME HistoryTypeOK, DiskInv, Harm, NEW u \in Users, AddSelf(u)
    PROVE  DiskInv'
<1>1. /\ temp' = temp /\ crashes' = crashes /\ OthersStay(u)
      /\ at[u] = "addSelf" /\ at'[u] = "prompt" /\ arg'[u] = u
      /\ AddLine(Following(u), u)
  BY DEF AddSelf, Step, countVars, HistoryTypeOK, FilesTypeOK, OthersStay
<1>2. CASE ~dir
  BY <1>1, <1>2, QuietDisk DEF AddLine, OthersStay, ErasePCs, OffTheList, TellingPCs
<1>3. CASE dir
  <2>1. /\ TempInv'
        /\ \A f \in Files : Sound(f)' =>
             Content(f)' = IF f = Following(u) THEN Append(Content(f), u) ELSE Content(f)
    BY <1>1, <1>3, ContentGrows, FileNames DEF AddLine, ErasePCs, DiskInv
  <2>2. ASSUME NEW x \in Users, NEW y \in Users
        PROVE  FollowPair(x, y)' /\ CountPair(x, y)'
    <3>1. Sound(Followers(y))' => /\ Sound(Followers(y))
                                  /\ Lists(Followers(y), x)' <=> Lists(Followers(y), x)
                                  /\ Times(x, y)' = Times(x, y)
      BY <2>1, SoundSooner, FileNames DEF Lists, Times
    <3>2. x # y /\ Sound(Following(x))' => /\ Sound(Following(x))
                                           /\ Lists(Following(x), y)' <=> Lists(Following(x), y)
      <4> SUFFICES ASSUME x # y, Sound(Following(x))'
                   PROVE  /\ Sound(Following(x))
                          /\ Lists(Following(x), y)' <=> Lists(Following(x), y)
        OBVIOUS
      <4>1. Sound(Following(x)) /\ Following(x) \in Files
        BY SoundSooner, FileNames
      <4>2. Content(Following(x)) \in Seq(Users)
        BY <4>1, ContentType DEF DiskInv
      <4>3. ToSet(Append(Content(Following(x)), u)) = ToSet(Content(Following(x))) \cup {u}
        BY <4>2, AppendedLine
      <4> QED  BY <2>1, <4>1, <4>3, FileNames DEF Lists
    <3>3. FollowPair(x, y) /\ CountPair(x, y)
      BY DEF DiskInv, FollowInv, CountInv
    <3>4. CASE x = y
      BY <3>4 DEF FollowPair, CountPair
    <3>5. CASE x # y
      <4>1. \/ at'[x] = at[x] /\ arg'[x] = arg[x]
            \/ at[x] \notin OffTheList \cup {"addFollowing"} /\ at'[x] \notin TellingPCs
        BY <1>1 DEF OthersStay, OffTheList, TellingPCs
      <4> QED  BY <1>1, <3>1, <3>2, <3>3, <3>5, <4>1, PairStays
    <3> QED  BY <3>4, <3>5
  <2> QED  BY <2>1, <2>2 DEF DiskInv, FollowInv, CountInv
<1> QED  BY <1>2, <1>3

\* Follow writes the followers file first: the user is listed once more.
LEMMA AddFollowerDisk ==
    ASSUME HistoryTypeOK, DiskInv, Harm, NEW u \in Users, AddFollower(u)
    PROVE  DiskInv'
<1> DEFINE v == arg[u]
<1>1. /\ temp' = temp /\ crashes' = crashes /\ OthersStay(u) /\ v \in Users
      /\ at[u] = "addFollower" /\ at'[u] = "addFollowing" /\ arg'[u] = v
      /\ AddLine(Followers(v), u)
  BY DEF AddFollower, Step, countVars, HistoryTypeOK, FilesTypeOK, OthersStay
<1> HIDE DEF v
<1>2. ~dir => Followers(v) \in damaged'
  BY <1>1 DEF Harm, Unwritten, v
<1>3. /\ TempInv'
      /\ \A f \in Files : Sound(f)' =>
           Content(f)' = IF f = Followers(v) THEN Append(Content(f), u) ELSE Content(f)
  <2>1. CASE dir
    BY <1>1, <2>1, ContentGrows, FileNames DEF AddLine, ErasePCs, DiskInv
  <2>2. CASE ~dir
    <3>1. file' = file
      BY <1>1, <2>2 DEF AddLine
    <3>2. \A x \in Users : \/ at'[x] = at[x] /\ arg'[x] = arg[x]
                           \/ at[x] \notin ErasePCs /\ at'[x] \notin ErasePCs
      BY <1>1 DEF OthersStay, ErasePCs
    <3>3. TempInv' /\ \A f \in Files : Sound(f)' => Content(f)' = Content(f)
      BY <1>1, <3>1, <3>2, ContentStays DEF DiskInv
    <3> QED  BY <1>2, <2>2, <3>3 DEF Sound
  <2> QED  BY <2>1, <2>2
<1>4. ASSUME NEW x \in Users, NEW y \in Users
      PROVE  FollowPair(x, y)' /\ CountPair(x, y)'
  <2>1. FollowPair(x, y) /\ CountPair(x, y)
    BY DEF DiskInv, FollowInv, CountInv
  <2>2. Sound(Following(x))' => /\ Sound(Following(x))
                                /\ Lists(Following(x), y)' <=> Lists(Following(x), y)
    BY <1>3, SoundSooner, FileNames DEF Lists
  <2>3. CASE y # v
    <3>1. Sound(Followers(y))' => /\ Sound(Followers(y))
                                  /\ Lists(Followers(y), x)' <=> Lists(Followers(y), x)
                                  /\ Times(x, y)' = Times(x, y)
      BY <1>3, <2>3, SoundSooner, FileNames DEF Lists, Times
    <3>2. CASE x = u
      <4>1. FollowPair(u, y)'
        BY <1>1, <2>1, <2>2, <2>3, <3>1, <3>2 DEF FollowPair, OffTheList
      <4>2. ~Between(u, y) /\ ~Between(u, y)'
        BY <1>1, <2>3 DEF Between, v
      <4>3. CountPair(u, y)'
        BY <1>1, <2>1, <2>2, <2>3, <3>1, <3>2, <4>2 DEF CountPair
      <4> QED  BY <3>2, <4>1, <4>3
    <3>3. CASE x # u
      BY <1>1, <2>1, <2>2, <3>1, <3>3, PairStays DEF OthersStay
    <3> QED  BY <3>2, <3>3
  <2>4. CASE y = v
    <3>1. Sound(Followers(y))' =>
            /\ Sound(Followers(y))
            /\ Lists(Followers(y), x)' <=> (Lists(Followers(y), x) \/ x = u)
            /\ Times(x, y)' = IF x = u THEN Times(x, y) + 1 ELSE Times(x, y)
            /\ Times(x, y) \in Nat
      <4> SUFFICES ASSUME Sound(Followers(y))'
                   PROVE  /\ Sound(Followers(y))
                          /\ Lists(Followers(y), x)' <=> (Lists(Followers(y), x) \/ x = u)
                          /\ Times(x, y)' = IF x = u THEN Times(x, y) + 1 ELSE Times(x, y)
                          /\ Times(x, y) \in Nat
        OBVIOUS
      <4>1. Sound(Followers(y)) /\ Followers(y) \in Files
        BY SoundSooner, FileNames
      <4>2. Content(Followers(y)) \in Seq(Users)
        BY <4>1, ContentType DEF DiskInv
      <4>3. Content(Followers(y))' = Append(Content(Followers(y)), u)
        BY <1>3, <2>4, <4>1
      <4>4. Times(x, y) \in Nat
        BY <4>2, CountType DEF Times
      <4> QED  BY <4>1, <4>2, <4>3, <4>4, AppendedLine DEF Lists, Times
    <3>2. CASE x = u
      <4>1. FollowPair(u, y)'
        BY <1>1, <2>4, <3>1, <3>2 DEF FollowPair, OffTheList
      <4>2. ~Between(u, y) /\ Between(u, y)'
        BY <1>1, <2>4 DEF Between, OffTheList
      <4>3. crashes \in Nat
        BY FilesBoundAssumption DEF HistoryTypeOK, FilesTypeOK
      <4>4. CountPair(u, y)'
        BY <1>1, <2>1, <2>2, <2>4, <3>1, <3>2, <4>2, <4>3 DEF CountPair, v
      <4> QED  BY <2>4, <3>2, <4>1, <4>4
    <3>3. CASE x # u
      <4>1. Sound(Followers(y))' => /\ Sound(Followers(y))
                                    /\ Lists(Followers(y), x)' <=> Lists(Followers(y), x)
                                    /\ Times(x, y)' = Times(x, y)
        BY <3>1, <3>3
      <4> QED  BY <1>1, <2>1, <2>2, <3>3, <4>1, PairStays DEF OthersStay
    <3> QED  BY <3>2, <3>3
  <2> QED  BY <2>3, <2>4
<1> QED  BY <1>3, <1>4 DEF DiskInv, FollowInv, CountInv

\* Then the list of the followed: the followed one lists the user already.
LEMMA AddFollowingDisk ==
    ASSUME HistoryTypeOK, DiskInv, Harm, NEW u \in Users, AddFollowing(u)
    PROVE  DiskInv'
<1> DEFINE v == arg[u]
<1>1. /\ temp' = temp /\ crashes' = crashes /\ OthersStay(u) /\ v \in Users
      /\ at[u] = "addFollowing" /\ at'[u] = "prompt"
      /\ AddLine(Following(u), v)
  BY DEF AddFollowing, Step, countVars, HistoryTypeOK, FilesTypeOK, OthersStay
<1> HIDE DEF v
<1>2. ~dir => Following(u) \in damaged'
  BY <1>1 DEF Harm, Unwritten
<1>3. /\ TempInv'
      /\ \A f \in Files : Sound(f)' =>
           Content(f)' = IF f = Following(u) THEN Append(Content(f), v) ELSE Content(f)
  <2>1. CASE dir
    BY <1>1, <2>1, ContentGrows, FileNames DEF AddLine, ErasePCs, DiskInv
  <2>2. CASE ~dir
    <3>1. file' = file
      BY <1>1, <2>2 DEF AddLine
    <3>2. \A x \in Users : \/ at'[x] = at[x] /\ arg'[x] = arg[x]
                           \/ at[x] \notin ErasePCs /\ at'[x] \notin ErasePCs
      BY <1>1 DEF OthersStay, ErasePCs
    <3>3. TempInv' /\ \A f \in Files : Sound(f)' => Content(f)' = Content(f)
      BY <1>1, <3>1, <3>2, ContentStays DEF DiskInv
    <3> QED  BY <1>2, <2>2, <3>3 DEF Sound
  <2> QED  BY <2>1, <2>2
<1>4. ASSUME NEW x \in Users, NEW y \in Users
      PROVE  FollowPair(x, y)' /\ CountPair(x, y)'
  <2>1. FollowPair(x, y) /\ CountPair(x, y)
    BY DEF DiskInv, FollowInv, CountInv
  <2>2. Sound(Followers(y))' => /\ Sound(Followers(y))
                                /\ Lists(Followers(y), x)' <=> Lists(Followers(y), x)
                                /\ Times(x, y)' = Times(x, y)
    BY <1>3, SoundSooner, FileNames DEF Lists, Times
  <2>3. CASE x # u
    <3>1. Sound(Following(x))' => /\ Sound(Following(x))
                                  /\ Lists(Following(x), y)' <=> Lists(Following(x), y)
      BY <1>3, <2>3, SoundSooner, FileNames DEF Lists
    <3> QED  BY <1>1, <2>1, <2>2, <2>3, <3>1, PairStays DEF OthersStay
  <2>4. CASE x = u
    <3>1. Sound(Following(u))' =>
            /\ Sound(Following(u))
            /\ Lists(Following(u), y)' <=> (Lists(Following(u), y) \/ y = v)
      <4> SUFFICES ASSUME Sound(Following(u))'
                   PROVE  /\ Sound(Following(u))
                          /\ Lists(Following(u), y)' <=> (Lists(Following(u), y) \/ y = v)
        OBVIOUS
      <4>1. Sound(Following(u)) /\ Following(u) \in Files
        BY SoundSooner, FileNames
      <4>2. Content(Following(u)) \in Seq(Users)
        BY <4>1, ContentType DEF DiskInv
      <4>3. Content(Following(u))' = Append(Content(Following(u)), v)
        BY <1>3, <4>1
      <4> QED  BY <1>1, <4>1, <4>2, <4>3, AppendedLine DEF Lists
    <3>2. FollowPair(u, y)'
      BY <1>1, <2>1, <2>2, <2>4, <3>1 DEF FollowPair, OffTheList, v
    <3>3. ~Between(u, y)' /\ (Between(u, y) => y = v)
      BY <1>1 DEF Between, OffTheList, v
    <3>4. CountPair(u, y)'
      BY <1>1, <2>1, <2>2, <2>4, <3>1, <3>3 DEF CountPair
    <3> QED  BY <2>4, <3>2, <3>4
  <2> QED  BY <2>3, <2>4
<1> QED  BY <1>3, <1>4 DEF DiskInv, FollowInv, CountInv

\* UnFollow copies, removes and renames the list of the followed first; with its
\* removal the user follows no more.
LEMMA EraseFollowingDisk ==
    ASSUME HistoryTypeOK, DiskInv, Harm, NEW u \in Users, crashes' = crashes,
           \/ /\ Step(u, "copyFollowing", "removeFollowing")
              /\ CopyLines(Following(u), arg[u])
           \/ /\ Step(u, "removeFollowing", "renameFollowing")
              /\ RemoveFile(Following(u))
           \/ /\ Step(u, "renameFollowing", "copyFollowers")
              /\ RenameTemp(Following(u))
    PROVE  DiskInv'
<1> DEFINE g == Following(u)
<1>1. OthersStay(u) /\ arg'[u] = arg[u] /\ arg[u] \in Users /\ g \in Files
  BY FileNames DEF Step, HistoryTypeOK, FilesTypeOK, OthersStay
<1>2. CASE Step(u, "copyFollowing", "removeFollowing") /\ CopyLines(g, arg[u])
  <2>1. at[u] = "copyFollowing" /\ at'[u] = "removeFollowing"
    BY <1>2 DEF Step, HistoryTypeOK, FilesTypeOK
  <2>2. /\ ErasedFile(u)' = g /\ ErasedLine(u)' = arg[u]
        /\ u \in Erasers' /\ ~Renaming(u)' /\ at[u] \notin ErasePCs
    BY <1>1, <2>1 DEF ErasedFile, ErasedLine, Erasers, Renaming, ErasePCs, Following
  <2>3. temp' = Without(file[g], ErasedLine(u)') /\ file' = file
    BY <1>2, <2>2 DEF CopyLines
  <2>4. TempInv' /\ \A f \in Files : Sound(f)' => Content(f)' = Content(f)
    BY <1>1, <2>2, <2>3, ContentCopied DEF DiskInv
  <2>5. \A x \in Users : \/ at'[x] = at[x] /\ arg'[x] = arg[x]
                         \/ at[x] \notin OffTheList \cup {"addFollowing"} /\ at'[x] \notin TellingPCs
    BY <1>1, <2>1 DEF OthersStay, OffTheList, TellingPCs
  <2> QED  BY <2>4, <2>5, ListsStay DEF DiskInv
<1>3. CASE Step(u, "removeFollowing", "renameFollowing") /\ RemoveFile(g)
  <2>1. at[u] = "removeFollowing" /\ at'[u] = "renameFollowing"
    BY <1>3 DEF Step, HistoryTypeOK, FilesTypeOK
  <2>2. /\ ErasedFile(u) = g /\ ErasedFile(u)' = g /\ ErasedLine(u) = arg[u]
        /\ u \in Erasers /\ ~Renaming(u) /\ Renaming(u)'
    BY <1>1, <2>1 DEF ErasedFile, ErasedLine, Erasers, Renaming, Following
  <2>3. /\ TempInv'
        /\ \A f \in Files : Sound(f)' =>
             Content(f)' = IF f = g THEN Without(Content(f), arg[u]) ELSE Content(f)
    BY <1>1, <1>3, <2>2, ContentErased DEF DiskInv, RemoveFile
  <2> HIDE DEF g
  <2>4. ASSUME NEW x \in Users, NEW y \in Users
        PROVE  FollowPair(x, y)' /\ CountPair(x, y)'
    <3>1. FollowPair(x, y) /\ CountPair(x, y)
      BY DEF DiskInv, FollowInv, CountInv
    <3>2. Sound(Followers(y))' => /\ Sound(Followers(y))
                                  /\ Lists(Followers(y), x)' <=> Lists(Followers(y), x)
                                  /\ Times(x, y)' = Times(x, y)
      BY <2>3, SoundSooner, FileNames DEF Lists, Times, g
    <3>3. CASE x # u
      <4>1. Sound(Following(x))' => /\ Sound(Following(x))
                                    /\ Lists(Following(x), y)' <=> Lists(Following(x), y)
        BY <2>3, <3>3, SoundSooner, FileNames DEF Lists, g
      <4> QED  BY <1>1, <3>1, <3>2, <3>3, <4>1, PairStays DEF OthersStay
    <3>4. CASE x = u
      <4>1. Sound(Following(u))' =>
              /\ Sound(Following(u))
              /\ Lists(Following(u), y)' <=> (Lists(Following(u), y) /\ y # arg[u])
        <5> SUFFICES ASSUME Sound(Following(u))'
                     PROVE  /\ Sound(Following(u))
                            /\ Lists(Following(u), y)' <=> (Lists(Following(u), y) /\ y # arg[u])
          OBVIOUS
        <5>1. Sound(Following(u)) /\ Following(u) \in Files
          BY SoundSooner, FileNames
        <5>2. Content(Following(u)) \in Seq(Users)
          BY <5>1, ContentType DEF DiskInv
        <5>3. Content(Following(u))' = Without(Content(Following(u)), arg[u])
          BY <2>3, <5>1 DEF g
        <5> QED  BY <5>1, <5>2, <5>3, WithoutLine DEF Lists
      <4>2. FollowPair(u, y)'
        BY <1>1, <2>1, <3>1, <3>2, <3>4, <4>1 DEF FollowPair
      <4>3. Between(u, y)' <=> y = arg[u]
        BY <1>1, <2>1 DEF Between, OffTheList
      <4>4. ~Between(u, y)
        BY <2>1 DEF Between, OffTheList
      <4>5. CountPair(u, y)'
        BY <2>1, <3>1, <3>2, <3>4, <4>1, <4>3, <4>4 DEF CountPair
      <4> QED  BY <3>4, <4>2, <4>5
    <3> QED  BY <3>3, <3>4
  <2> QED  BY <2>3, <2>4 DEF DiskInv, FollowInv, CountInv
<1>4. CASE Step(u, "renameFollowing", "copyFollowers") /\ RenameTemp(g)
  <2>1. at[u] = "renameFollowing" /\ at'[u] = "copyFollowers"
    BY <1>4 DEF Step, HistoryTypeOK, FilesTypeOK
  <2>2. ErasedFile(u) = g /\ Renaming(u) /\ at'[u] \notin ErasePCs
    BY <2>1 DEF ErasedFile, Renaming, ErasePCs
  <2>3. TempInv' /\ \A f \in Files : Sound(f)' => Content(f)' = Content(f)
    BY <1>1, <1>4, <2>2, ContentRenamed DEF DiskInv, RenameTemp
  <2>4. ASSUME NEW x \in Users, NEW y \in Users
        PROVE  FollowPair(x, y)' /\ CountPair(x, y)'
    <3>1. FollowPair(x, y) /\ CountPair(x, y)
      BY DEF DiskInv, FollowInv, CountInv
    <3>2. Sound(Followers(y))' => /\ Sound(Followers(y))
                                  /\ Lists(Followers(y), x)' <=> Lists(Followers(y), x)
                                  /\ Times(x, y)' = Times(x, y)
      BY <2>3, SoundSooner, FileNames DEF Lists, Times
    <3>3. Sound(Following(x))' => /\ Sound(Following(x))
                                  /\ Lists(Following(x), y)' <=> Lists(Following(x), y)
      BY <2>3, SoundSooner, FileNames DEF Lists
    <3>4. CASE x # u
      BY <1>1, <3>1, <3>2, <3>3, <3>4, PairStays DEF OthersStay
    <3>5. CASE x = u
      <4>1. FollowPair(u, y)'
        BY <1>1, <2>1, <3>1, <3>2, <3>3, <3>5 DEF FollowPair, OffTheList
      <4>2. Between(u, y)' <=> Between(u, y)
        BY <1>1, <2>1 DEF Between, OffTheList
      <4>3. CountPair(u, y)'
        BY <2>1, <3>1, <3>2, <3>3, <3>5, <4>2 DEF CountPair
      <4> QED  BY <3>5, <4>1, <4>3
    <3> QED  BY <3>4, <3>5
  <2> QED  BY <2>3, <2>4 DEF DiskInv, FollowInv, CountInv
<1> QED  BY <1>2, <1>3, <1>4

\* Then the followers file of the other: with its removal the user is listed no more.
LEMMA EraseFollowersDisk ==
    ASSUME HistoryTypeOK, DiskInv, Harm, NEW u \in Users, crashes' = crashes,
           \/ /\ Step(u, "copyFollowers", "removeFollowers")
              /\ CopyLines(Followers(arg[u]), u)
           \/ /\ Step(u, "removeFollowers", "renameFollowers")
              /\ RemoveFile(Followers(arg[u]))
           \/ /\ Step(u, "renameFollowers", "prompt")
              /\ RenameTemp(Followers(arg[u]))
    PROVE  DiskInv'
<1>0. PICK v \in Users : v = arg[u]
  BY DEF HistoryTypeOK, FilesTypeOK
<1> DEFINE g == Followers(v)
<1>1. OthersStay(u) /\ g \in Files /\ (at'[u] # "prompt" => arg'[u] = v)
  BY <1>0, FileNames DEF Step, HistoryTypeOK, FilesTypeOK, OthersStay
<1>2. CASE Step(u, "copyFollowers", "removeFollowers") /\ CopyLines(g, u)
  <2>1. at[u] = "copyFollowers" /\ at'[u] = "removeFollowers"
    BY <1>2 DEF Step, HistoryTypeOK, FilesTypeOK
  <2>2. /\ ErasedFile(u)' = g /\ ErasedLine(u)' = u
        /\ u \in Erasers' /\ ~Renaming(u)' /\ at[u] \notin ErasePCs
    BY <1>1, <2>1, FileNames DEF ErasedFile, ErasedLine, Erasers, Renaming, ErasePCs
  <2>3. temp' = Without(file[g], ErasedLine(u)') /\ file' = file
    BY <1>2, <2>2 DEF CopyLines
  <2>4. TempInv' /\ \A f \in Files : Sound(f)' => Content(f)' = Content(f)
    BY <1>1, <2>2, <2>3, ContentCopied DEF DiskInv
  <2>5. ASSUME NEW x \in Users, NEW y \in Users
        PROVE  FollowPair(x, y)' /\ CountPair(x, y)'
    <3>1. FollowPair(x, y) /\ CountPair(x, y)
      BY DEF DiskInv, FollowInv, CountInv
    <3>2. Sound(Followers(y))' => /\ Sound(Followers(y))
                                  /\ Lists(Followers(y), x)' <=> Lists(Followers(y), x)
                                  /\ Times(x, y)' = Times(x, y)
      BY <2>4, SoundSooner, FileNames DEF Lists, Times
    <3>3. Sound(Following(x))' => /\ Sound(Following(x))
                                  /\ Lists(Following(x), y)' <=> Lists(Following(x), y)
      BY <2>4, SoundSooner, FileNames DEF Lists
    <3>4. CASE x # u
      BY <1>1, <3>1, <3>2, <3>3, <3>4, PairStays DEF OthersStay
    <3>5. CASE x = u
      <4>1. FollowPair(u, y)'
        BY <1>0, <1>1, <2>1, <3>1, <3>2, <3>3, <3>5 DEF FollowPair, OffTheList
      <4>2. Between(u, y)' <=> Between(u, y)
        BY <1>0, <1>1, <2>1 DEF Between, OffTheList
      <4>3. CountPair(u, y)'
        BY <2>1, <3>1, <3>2, <3>3, <3>5, <4>2 DEF CountPair
      <4> QED  BY <3>5, <4>1, <4>3
    <3> QED  BY <3>4, <3>5
  <2> QED  BY <2>4, <2>5 DEF DiskInv, FollowInv, CountInv
<1>3. CASE Step(u, "removeFollowers", "renameFollowers") /\ RemoveFile(g)
  <2>1. at[u] = "removeFollowers" /\ at'[u] = "renameFollowers"
    BY <1>3 DEF Step, HistoryTypeOK, FilesTypeOK
  <2>2. /\ ErasedFile(u) = g /\ ErasedFile(u)' = g /\ ErasedLine(u) = u
        /\ u \in Erasers /\ ~Renaming(u) /\ Renaming(u)'
    BY <1>0, <1>1, <2>1, FileNames DEF ErasedFile, ErasedLine, Erasers, Renaming
  <2>3. /\ TempInv'
        /\ \A f \in Files : Sound(f)' =>
             Content(f)' = IF f = g THEN Without(Content(f), u) ELSE Content(f)
    BY <1>1, <1>3, <2>2, ContentErased DEF DiskInv, RemoveFile
  <2> HIDE DEF g
  <2>4. ASSUME NEW x \in Users, NEW y \in Users
        PROVE  FollowPair(x, y)' /\ CountPair(x, y)'
    <3>1. FollowPair(x, y) /\ CountPair(x, y)
      BY DEF DiskInv, FollowInv, CountInv
    <3>2. Sound(Following(x))' => /\ Sound(Following(x))
                                  /\ Lists(Following(x), y)' <=> Lists(Following(x), y)
      BY <2>3, SoundSooner, FileNames DEF Lists, g
    <3>3. Sound(Followers(y))' =>
            /\ Sound(Followers(y))
            /\ x # u \/ y # v => /\ Lists(Followers(y), x)' <=> Lists(Followers(y), x)
                                 /\ Times(x, y)' = Times(x, y)
            /\ x = u /\ y = v => Times(x, y)' = 0
      <4>1. CASE y # v
        BY <2>3, <4>1, SoundSooner, FileNames DEF Lists, Times, g
      <4>2. CASE y = v
        <5> SUFFICES ASSUME Sound(Followers(y))'
                     PROVE  /\ Sound(Followers(y))
                            /\ x # u => /\ Lists(Followers(y), x)' <=> Lists(Followers(y), x)
                                        /\ Times(x, y)' = Times(x, y)
                            /\ x = u => Times(x, y)' = 0
          BY <4>2
        <5>1. Sound(Followers(y)) /\ Followers(y) \in Files
          BY SoundSooner, FileNames
        <5>2. Content(Followers(y)) \in Seq(Users)
          BY <5>1, ContentType DEF DiskInv
        <5>3. Content(Followers(y))' = Without(Content(Followers(y)), u)
          BY <2>3, <4>2, <5>1 DEF g
        <5>4. /\ Without(Content(Followers(y)), u) \in Seq(Users)
              /\ ToSet(Without(Content(Followers(y)), u)) = ToSet(Content(Followers(y))) \ {u}
              /\ x # u => Count(Without(Content(Followers(y)), u), x) = Count(Content(Followers(y)), x)
          BY <5>2, WithoutLine
        <5>5. x = u => Count(Without(Content(Followers(y)), u), x) = 0
          BY <5>4, CountType
        <5> QED  BY <5>1, <5>3, <5>4, <5>5 DEF Lists, Times
      <4> QED  BY <4>1, <4>2
    <3>4. CASE x # u
      <4>1. Sound(Followers(y))' => /\ Sound(Followers(y))
                                    /\ Lists(Followers(y), x)' <=> Lists(Followers(y), x)
                                    /\ Times(x, y)' = Times(x, y)
        BY <3>3, <3>4
      <4> QED  BY <1>1, <3>1, <3>2, <3>4, <4>1, PairStays DEF OthersStay
    <3>5. CASE x = u
      <4>1. FollowPair(u, y)'
        BY <1>0, <1>1, <2>1, <3>1, <3>2, <3>3, <3>5 DEF FollowPair, OffTheList
      <4>2. Between(u, y)' <=> Between(u, y)
        BY <1>0, <1>1, <2>1 DEF Between, OffTheList
      <4>3. crashes \in Nat
        BY FilesBoundAssumption DEF HistoryTypeOK, FilesTypeOK
      <4>4. CountPair(u, y)'
        BY <1>1, <2>1, <3>1, <3>2, <3>3, <3>5, <4>2, <4>3 DEF CountPair
      <4> QED  BY <3>5, <4>1, <4>4
    <3> QED  BY <3>4, <3>5
  <2> QED  BY <2>3, <2>4 DEF DiskInv, FollowInv, CountInv
<1>4. CASE Step(u, "renameFollowers", "prompt") /\ RenameTemp(g)
  <2>1. at[u] = "renameFollowers" /\ at'[u] = "prompt"
    BY <1>4 DEF Step, HistoryTypeOK, FilesTypeOK
  <2>2. ErasedFile(u) = g /\ Renaming(u) /\ at'[u] \notin ErasePCs
    BY <1>0, <2>1 DEF ErasedFile, Renaming, ErasePCs
  <2>3. TempInv' /\ \A f \in Files : Sound(f)' => Content(f)' = Content(f)
    BY <1>1, <1>4, <2>2, ContentRenamed DEF DiskInv, RenameTemp
  <2>4. ASSUME NEW x \in Users, NEW y \in Users
        PROVE  FollowPair(x, y)' /\ CountPair(x, y)'
    <3>1. FollowPair(x, y) /\ CountPair(x, y)
      BY DEF DiskInv, FollowInv, CountInv
    <3>2. Sound(Followers(y))' => /\ Sound(Followers(y))
                                  /\ Lists(Followers(y), x)' <=> Lists(Followers(y), x)
                                  /\ Times(x, y)' = Times(x, y)
      BY <2>3, SoundSooner, FileNames DEF Lists, Times
    <3>3. Sound(Following(x))' => /\ Sound(Following(x))
                                  /\ Lists(Following(x), y)' <=> Lists(Following(x), y)
      BY <2>3, SoundSooner, FileNames DEF Lists
    <3>4. CASE x # u
      BY <1>1, <3>1, <3>2, <3>3, <3>4, PairStays DEF OthersStay
    <3>5. CASE x = u
      <4>1. FollowPair(u, y)'
        BY <2>1, <3>1, <3>2, <3>3, <3>5 DEF FollowPair, OffTheList
      <4>2. ~Between(u, y)' /\ (Between(u, y) => y = arg[u])
        BY <2>1 DEF Between, OffTheList
      <4>3. crashes \in Nat
        BY FilesBoundAssumption DEF HistoryTypeOK, FilesTypeOK
      <4>4. CountPair(u, y)'
        BY <2>1, <3>1, <3>2, <3>3, <3>5, <4>2, <4>3 DEF CountPair
      <4> QED  BY <3>5, <4>1, <4>4
    <3> QED  BY <3>4, <3>5
  <2> QED  BY <2>3, <2>4 DEF DiskInv, FollowInv, CountInv
<1> QED  BY <1>0, <1>2, <1>3, <1>4

\* The server dies: a follower may be listed for ever that does not follow.
LEMMA DeathDisk ==
    ASSUME HistoryTypeOK, DiskInv, Harm, Dies
    PROVE  DiskInv'
<1>1. TempInv' /\ \A f \in Files : Sound(f)' => Content(f)' = Content(f)
  BY ContentAfterDeath DEF DiskInv
<1>2. /\ \A x \in Users : at'[x] \notin OffTheList \cup {"addFollower", "addFollowing"}
      /\ crashes \in Nat /\ crashes' = crashes + 1
  BY FilesBoundAssumption
     DEF Dies, LoginPCs, FollowPCs, UnFollowPCs, OffTheList, HistoryTypeOK, FilesTypeOK
<1>3. ASSUME NEW x \in Users, NEW y \in Users
      PROVE  FollowPair(x, y)' /\ CountPair(x, y)'
  <2>1. FollowPair(x, y) /\ CountPair(x, y)
    BY DEF DiskInv, FollowInv, CountInv
  <2>2. Sound(Followers(y))' => /\ Sound(Followers(y))
                                /\ Lists(Followers(y), x)' <=> Lists(Followers(y), x)
                                /\ Times(x, y)' = Times(x, y)
    BY <1>1, SoundSooner, FileNames DEF Lists, Times
  <2>3. Sound(Following(x))' => /\ Sound(Following(x))
                                /\ Lists(Following(x), y)' <=> Lists(Following(x), y)
    BY <1>1, SoundSooner, FileNames DEF Lists
  <2>4. Sound(Followers(y)) => Times(x, y) \in Nat
    BY ContentType, CountType, FileNames DEF DiskInv, Times
  <2>5. FollowPair(x, y)'
    BY <1>2, <2>1, <2>2, <2>3 DEF FollowPair
  <2>6. CountPair(x, y)'
    BY <1>2, <2>1, <2>2, <2>3, <2>4 DEF CountPair, OffTheList
  <2> QED  BY <2>5, <2>6
<1> QED  BY <1>1, <1>3 DEF DiskInv, FollowInv, CountInv

\* The calls that have nothing to do with the lists.
LEMMA DiskStays ==
    ASSUME HistoryTypeOK, DiskInv, [HistoryNext]_historyVars
    PROVE  DiskInv'
<1>1. CASE UNCHANGED historyVars
  BY <1>1 DEF historyVars, fileVars, diskVars, clientVars, countVars, DiskInv, TempInv,
     FollowInv, CountInv, FollowPair, CountPair, Between, Times, Lists, Content, Sound, Mixed,
     Erasers, ErasedFile, ErasedLine, Renaming
<1>2. CASE HistoryNext
  <2> USE <1>2
  <2>1. Harm
    BY DEF HistoryNext, Harm
  <2>2. ASSUME BuildAndStart \/ MakeDir \/ collect_users PROVE DiskInv'
    <3>1. UNCHANGED <<file, temp, at, arg, crashes>>
      BY <2>2 DEF BuildAndStart, MakeDir, collect_users, diskVars, clientVars, countVars
    <3> QED  BY <2>1, <3>1, QuietDisk
  <2>3. ASSUME Crash PROVE DiskInv'
    BY <2>1, <2>3, DeathDisk DEF Crash
  <2>4. ASSUME NEW u \in Users, ClientRun(u) PROVE DiskInv'
    <3>1. ASSUME StartClient(u) \/ Login(u) \/ AddName(u) \/ EnterTimeline(u) \/ Kill(u)
          PROVE  DiskInv'
      <4>1. UNCHANGED <<file, temp, crashes>>
        BY <3>1 DEF StartClient, Login, AddName, EnterTimeline, Kill, diskVars, countVars
      <4>2. /\ OthersStay(u)
            /\ at[u] \in {"out", "login", "addName", "prompt", "timeline"}
            /\ at'[u] \in {"out", "login", "addName", "addSelf", "prompt", "timeline"}
        <5>1. CASE StartClient(u)
          BY <5>1 DEF StartClient, Step, OthersStay, HistoryTypeOK, FilesTypeOK
        <5>2. CASE Login(u)
          BY SMTT(30), <5>2 DEF Login, Step, OthersStay, HistoryTypeOK, FilesTypeOK
        <5>3. CASE AddName(u)
          BY <5>3 DEF AddName, Step, OthersStay, HistoryTypeOK, FilesTypeOK
        <5>4. CASE EnterTimeline(u)
          BY <5>4 DEF EnterTimeline, Step, OthersStay, HistoryTypeOK, FilesTypeOK
        <5>5. CASE Kill(u)
          BY <5>5 DEF Kill, OthersStay, HistoryTypeOK, FilesTypeOK
        <5> QED  BY <3>1, <5>1, <5>2, <5>3, <5>4, <5>5
      <4>3. \A x \in Users :
              \/ at'[x] = at[x] /\ arg'[x] = arg[x]
              \/ /\ at[x] \notin ErasePCs \cup OffTheList \cup {"addFollowing"}
                 /\ at'[x] \notin ErasePCs \cup TellingPCs
        BY <4>2 DEF OthersStay, ErasePCs, OffTheList, TellingPCs
      <4> QED  BY <2>1, <4>1, <4>3, QuietDisk
    <3>2. ASSUME NEW v \in Users, UnFollow(u, v) PROVE DiskInv'
      <4>1. /\ UNCHANGED <<file, temp, crashes>> /\ OthersStay(u)
            /\ at[u] = "prompt" /\ at'[u] = "copyFollowing"
        BY <3>2 DEF UnFollow, Command, diskVars, OthersStay, HistoryTypeOK, FilesTypeOK
      <4>2. \A x \in Users :
              \/ at'[x] = at[x] /\ arg'[x] = arg[x]
              \/ /\ at[x] \notin ErasePCs \cup OffTheList \cup {"addFollowing"}
                 /\ at'[x] \notin ErasePCs \cup TellingPCs
        BY <4>1 DEF OthersStay, ErasePCs, OffTheList, TellingPCs
      <4> QED  BY <2>1, <4>1, <4>2, QuietDisk
    <3>3. ASSUME NEW v \in Users, Follow(u, v) PROVE DiskInv'
      BY <2>1, <3>3, FollowDisk
    <3>4. CASE AddSelf(u)
      BY <2>1, <3>4, AddSelfDisk
    <3>5. CASE AddFollower(u)
      BY <2>1, <3>5, AddFollowerDisk
    <3>6. CASE AddFollowing(u)
      BY <2>1, <3>6, AddFollowingDisk
    <3>7. CASE EraseLine(u)
      <4>1. crashes' = crashes
        BY <3>7 DEF EraseLine, countVars
      <4> QED  BY <2>1, <3>7, <4>1, EraseFollowingDisk, EraseFollowersDisk DEF EraseLine
    <3> QED  BY <2>4, <3>1, <3>2, <3>3, <3>4, <3>5, <3>6, <3>7 DEF ClientRun
  <2>5. ASSUME NEW u \in Users, Timeline(u) PROVE DiskInv'
    <3>1. ASSUME UNCHANGED <<file, temp, at, arg, crashes>> PROVE DiskInv'
      BY <2>1, <3>1, QuietDisk
    <3>2. CASE WritePost(u) /\ ~Dies
      BY <3>1, <3>2 DEF WritePost, diskVars, countVars
    <3>3. CASE Dies
      BY <2>1, <3>3, DeathDisk
    <3>4. CASE WriteLastPosts(u) \/ ReadPost(u) \/ StorePost(u) \/ EndTimeline(u)
      BY <3>1, <3>4 DEF WriteLastPosts, ReadPost, StorePost, EndTimeline, diskVars, clientVars,
         countVars
    <3> QED  BY <2>5, <3>2, <3>3, <3>4 DEF Timeline
  <2> QED  BY <2>2, <2>3, <2>4, <2>5 DEF HistoryNext, FilesNext, ServerRun
<1> QED  BY <1>1, <1>2

-----------------------------------------------------------------------------
(***************************************************************************)
(* Types, and what concerns the threads and the timelines.                 *)
(***************************************************************************)
LEMMA BoundsAreNaturals ==
    MaxCommands \in Nat /\ MaxPosts \in Nat /\ MaxCrashes \in Nat /\ MaxKills \in Nat
BY FilesBoundAssumption

\* The post that a handler has to distribute is one.
LEMMA PostIsOne ==
    ASSUME FilesTypeOK, HandlersInv, NEW u \in Users, handler[u].pc \in {"write", "store"}
    PROVE  /\ Post(u) \in Posts
           /\ handler[u].users # <<>> /\ handler[u].users \in Seq(Users)
           /\ Head(handler[u].users) \in Users /\ Tail(handler[u].users) \in Seq(Users)
<1>1. posted[u] \in 1..MaxPosts
  BY BoundsAreNaturals DEF FilesTypeOK, HandlersInv
<1>2. handler[u].users # <<>> /\ handler[u].users \in Seq(Users)
  BY DEF FilesTypeOK, HandlersInv
<1> QED  BY <1>1, <1>2, HeadTailProperties DEF Post, Posts

\* The types after the process has died.
LEMMA DeathTypes ==
    ASSUME FilesTypeOK, Dies
    PROVE  FilesTypeOK'
<1>1. crashes' \in 0..MaxCrashes
  BY BoundsAreNaturals DEF FilesTypeOK, Dies
<1>2. at' \in [Users -> {"out", "prompt", "timeline"} \cup LoginPCs \cup FollowPCs \cup UnFollowPCs]
  <2>1. \A u \in Users : at'[u] \in {"out", "prompt", "timeline"} \cup LoginPCs \cup FollowPCs \cup UnFollowPCs
    BY DEF FilesTypeOK, Dies, LoginPCs, FollowPCs, UnFollowPCs
  <2>2. at' = [u \in Users |-> at'[u]]
    BY DEF Dies
  <2> QED  BY <2>1, <2>2
<1>3. /\ handler' \in [Users -> [pc : {"none", "enter", "read", "write", "store"}, users : Seq(Users)]]
      /\ arg' \in [Users -> Users] /\ shown' \in [Users -> SUBSET Posts]
      /\ username_to_srw' \in [Users -> {"none", "live", "dead"}]
  BY DEF Dies, NoCall
<1>4. /\ server' \in {"down", "listening", "mkdir", "up"}
      /\ all_user_vect' \subseteq Users /\ session_user_vect' \subseteq Users
      /\ UNCHANGED <<dir, user_names, file, timeline, temp, posted, commands, kills>>
  BY DEF Dies, diskVars
<1> QED  BY <1>1, <1>2, <1>3, <1>4 DEF FilesTypeOK

\* The types after any step of the files.
LEMMA FileTypesStay ==
    ASSUME FilesTypeOK, HandlersInv, FilesNext
    PROVE  FilesTypeOK'
<1> USE BoundsAreNaturals
<1>1. CASE BuildAndStart \/ MakeDir
  BY <1>1 DEF BuildAndStart, MakeDir, FilesTypeOK, diskVars, clientVars, countVars
<1>2. CASE collect_users
  <2>1. ToSet(user_names) \subseteq Users
    BY DEF ToSet, FilesTypeOK
  <2> QED  BY <1>2, <2>1 DEF collect_users, FilesTypeOK, diskVars, clientVars, countVars
<1>3. CASE Crash
  BY <1>3, DeathTypes DEF Crash
<1>4. ASSUME NEW u \in Users, ClientRun(u) PROVE FilesTypeOK'
  <2>1. ASSUME NEW here, NEW there, Step(u, here, there),
               there \in {"out", "prompt", "timeline"} \cup LoginPCs \cup FollowPCs \cup UnFollowPCs
        PROVE  /\ at' \in [Users -> {"out", "prompt", "timeline"} \cup LoginPCs \cup FollowPCs \cup UnFollowPCs]
               /\ arg' \in [Users -> Users]
    BY <2>1 DEF Step, FilesTypeOK
  <2>2. CASE StartClient(u)
    <3>1. Step(u, "out", "login")
      BY <2>2 DEF StartClient
    <3> QED  BY <2>2, <3>1, <2>1 DEF StartClient, FilesTypeOK, LoginPCs, diskVars, memoryVars, countVars
  <2>3. CASE Login(u)
    <3>1. \/ Step(u, "login", "out") \/ Step(u, "login", "prompt") \/ Step(u, "login", "addName")
      BY <2>3 DEF Login
    <3>2. /\ at' \in [Users -> {"out", "prompt", "timeline"} \cup LoginPCs \cup FollowPCs \cup UnFollowPCs]
          /\ arg' \in [Users -> Users]
      BY <3>1, <2>1 DEF LoginPCs
    <3> QED  BY <2>3, <3>2 DEF Login, FilesTypeOK, diskVars, countVars
  <2>4. CASE AddName(u)
    <3>1. Step(u, "addName", "addSelf")
      BY <2>4 DEF AddName
    <3>2. /\ at' \in [Users -> {"out", "prompt", "timeline"} \cup LoginPCs \cup FollowPCs \cup UnFollowPCs]
          /\ arg' \in [Users -> Users]
      BY <3>1, <2>1 DEF LoginPCs
    <3> QED  BY <2>4, <3>2 DEF AddName, FilesTypeOK, memoryVars, countVars
  <2>5. ASSUME NEW f \in Files, NEW v \in Users, AddLine(f, v) PROVE file' \in [Files -> Seq(Users)]
    BY <2>5 DEF AddLine, FilesTypeOK
  <2>6. CASE AddSelf(u)
    <3>1. Step(u, "addSelf", "prompt") /\ file' \in [Files -> Seq(Users)]
      BY <2>6, <2>5, FileNames DEF AddSelf
    <3>2. /\ at' \in [Users -> {"out", "prompt", "timeline"} \cup LoginPCs \cup FollowPCs \cup UnFollowPCs]
          /\ arg' \in [Users -> Users]
      BY <3>1, <2>1
    <3> QED  BY <2>6, <3>1, <3>2 DEF AddSelf, FilesTypeOK, memoryVars, countVars
  <2>7. ASSUME NEW v \in Users, Follow(u, v) \/ UnFollow(u, v) PROVE FilesTypeOK'
    <3>1. PICK s \in FollowPCs \cup UnFollowPCs : Command(u, v, s)
      BY <2>7 DEF Follow, UnFollow, FollowPCs, UnFollowPCs
    <3>2. commands' \in 0..MaxCommands
      BY <3>1 DEF Command, FilesTypeOK
    <3> QED  BY <3>1, <3>2 DEF Command, FilesTypeOK, diskVars, memoryVars
  <2>8. CASE AddFollower(u)
    <3>1. Step(u, "addFollower", "addFollowing") /\ file' \in [Files -> Seq(Users)]
      BY <2>8, <2>5, FileNames DEF AddFollower, FilesTypeOK
    <3>2. /\ at' \in [Users -> {"out", "prompt", "timeline"} \cup LoginPCs \cup FollowPCs \cup UnFollowPCs]
          /\ arg' \in [Users -> Users]
      BY <3>1, <2>1 DEF FollowPCs
    <3> QED  BY <2>8, <3>1, <3>2 DEF AddFollower, FilesTypeOK, memoryVars, countVars
  <2>9. CASE AddFollowing(u)
    <3>1. Step(u, "addFollowing", "prompt") /\ file' \in [Files -> Seq(Users)]
      BY <2>9, <2>5, FileNames DEF AddFollowing, FilesTypeOK
    <3>2. /\ at' \in [Users -> {"out", "prompt", "timeline"} \cup LoginPCs \cup FollowPCs \cup UnFollowPCs]
          /\ arg' \in [Users -> Users]
      BY <3>1, <2>1
    <3> QED  BY <2>9, <3>1, <3>2 DEF AddFollowing, FilesTypeOK, memoryVars, countVars
  <2>10. CASE EraseLine(u)
    <3>1. ASSUME NEW f \in Files, NEW v \in Users, CopyLines(f, v) \/ RemoveFile(f) \/ RenameTemp(f)
          PROVE  file' \in [Files -> Seq(Users)] /\ temp' \in Seq(Users) \cup {NoFile}
      <4>1. file[f] \in Seq(Users) /\ file \in [Files -> Seq(Users)] /\ temp \in Seq(Users) \cup {NoFile}
            /\ <<>> \in Seq(Users)
        BY DEF FilesTypeOK
      <4>2. Without(file[f], v) \in Seq(Users)
        BY <4>1, WithoutLine
      <4> QED  BY <3>1, <4>1, <4>2 DEF CopyLines, RemoveFile, RenameTemp
    <3>2. /\ Following(u) \in Files /\ arg[u] \in Users /\ Followers(arg[u]) \in Files
      BY FileNames DEF FilesTypeOK
    <3>3. file' \in [Files -> Seq(Users)] /\ temp' \in Seq(Users) \cup {NoFile}
      BY <2>10, <3>1, <3>2 DEF EraseLine
    <3>4. \E here \in UnFollowPCs, there \in UnFollowPCs \cup {"prompt"} : Step(u, here, there)
      BY <2>10 DEF EraseLine, UnFollowPCs
    <3>5. /\ at' \in [Users -> {"out", "prompt", "timeline"} \cup LoginPCs \cup FollowPCs \cup UnFollowPCs]
          /\ arg' \in [Users -> Users]
      BY <3>4, <2>1
    <3> QED  BY <2>10, <3>3, <3>5 DEF EraseLine, FilesTypeOK, memoryVars, countVars
  <2>11. CASE EnterTimeline(u)
    <3>1. Step(u, "prompt", "timeline")
      BY <2>11 DEF EnterTimeline
    <3>2. /\ at' \in [Users -> {"out", "prompt", "timeline"} \cup LoginPCs \cup FollowPCs \cup UnFollowPCs]
          /\ arg' \in [Users -> Users]
      BY <3>1, <2>1
    <3>3. file[Following(u)] \in Seq(Users)
      BY FileNames DEF FilesTypeOK
    <3>4. /\ handler' \in [Users -> [pc : {"none", "enter", "read", "write", "store"}, users : Seq(Users)]]
          /\ username_to_srw' \in [Users -> {"none", "live", "dead"}]
      <4>1. /\ handler \in [Users -> [pc : {"none", "enter", "read", "write", "store"}, users : Seq(Users)]]
            /\ username_to_srw \in [Users -> {"none", "live", "dead"}]
        BY DEF FilesTypeOK
      <4>2. CASE server = "down"
        BY <2>11, <4>1, <4>2 DEF EnterTimeline
      <4>3. CASE server # "down"
        <5>1. /\ handler' = [handler EXCEPT ![u] = [pc |-> "enter", users |-> file[Following(u)]]]
              /\ username_to_srw' = [username_to_srw EXCEPT ![u] = "live"]
          BY <2>11, <4>3 DEF EnterTimeline
        <5>2. [pc |-> "enter", users |-> file[Following(u)]]
                \in [pc : {"none", "enter", "read", "write", "store"}, users : Seq(Users)]
          BY <3>3
        <5> QED  BY <4>1, <5>1, <5>2
      <4> QED  BY <4>2, <4>3
    <3> QED  BY <2>11, <3>2, <3>4 DEF EnterTimeline, FilesTypeOK, diskVars, countVars
  <2>12. CASE Kill(u)
    <3>1. kills' \in 0..MaxKills
      BY <2>12 DEF Kill, FilesTypeOK
    <3> QED  BY <2>12, <3>1 DEF Kill, FilesTypeOK, diskVars, memoryVars
  <2> QED  BY <1>4, <2>2, <2>3, <2>4, <2>6, <2>7, <2>8, <2>9, <2>10, <2>11, <2>12 DEF ClientRun
<1>5. ASSUME NEW u \in Users, Timeline(u) PROVE FilesTypeOK'
  <2>1. ASSUME NEW pc \in {"none", "enter", "read", "write", "store"}, NEW users \in Seq(Users),
               Goto(u, pc, users)
        PROVE  handler' \in [Users -> [pc : {"none", "enter", "read", "write", "store"}, users : Seq(Users)]]
    BY <2>1 DEF Goto, FilesTypeOK
  <2>2. CASE WriteLastPosts(u)
    <3>1. LastPosts(u) \subseteq Posts
      <4>1. \A i \in DOMAIN timeline[u] : timeline[u][i] \in Posts
        BY DEF FilesTypeOK
      <4> QED  BY <4>1 DEF LastPosts
    <3>2. shown' \in [Users -> SUBSET Posts]
      BY <2>2, <3>1 DEF WriteLastPosts, FilesTypeOK
    <3>3. handler' \in [Users -> [pc : {"none", "enter", "read", "write", "store"}, users : Seq(Users)]]
      <4>1. <<>> \in Seq(Users) /\ Goto(u, "read", <<>>)
        BY <2>2 DEF WriteLastPosts
      <4> QED  BY <4>1, <2>1
    <3> QED  BY <2>2, <3>2, <3>3 DEF WriteLastPosts, FilesTypeOK, diskVars, memoryVars, countVars
  <2>3. CASE ReadPost(u)
    <3>1. posted' \in [Users -> 0..MaxPosts]
      BY <2>3 DEF ReadPost, FilesTypeOK
    <3>2. file[Followers(u)] \in Seq(Users)
      BY FileNames DEF FilesTypeOK
    <3>3. handler' \in [Users -> [pc : {"none", "enter", "read", "write", "store"}, users : Seq(Users)]]
      BY <2>3, <3>2, <2>1 DEF ReadPost, Loop
    <3> QED  BY <2>3, <3>1, <3>3 DEF ReadPost, FilesTypeOK, diskVars, memoryVars, clientVars
  <2>4. CASE WritePost(u) /\ ~Dies
    <3>1. Post(u) \in Posts /\ handler[u].users \in Seq(Users)
      BY <2>4, PostIsOne DEF WritePost
    <3>2. shown' \in [Users -> SUBSET Posts]
      <4>1. PICK f : \/ shown' = shown
                     \/ shown' = [shown EXCEPT ![f] = @ \cup {Post(u)}]
        BY <2>4 DEF WritePost
      <4>2. shown \in [Users -> SUBSET Posts]
        BY DEF FilesTypeOK
      <4> QED  BY <3>1, <4>1, <4>2
    <3>3. handler' \in [Users -> [pc : {"none", "enter", "read", "write", "store"}, users : Seq(Users)]]
      BY <2>4, <3>1, <2>1 DEF WritePost
    <3> QED  BY <2>4, <3>2, <3>3 DEF WritePost, FilesTypeOK, diskVars, memoryVars, countVars
  <2>5. CASE Dies
    BY <2>5, DeathTypes
  <2>6. CASE StorePost(u)
    <3>1. Post(u) \in Posts /\ Head(handler[u].users) \in Users /\ Tail(handler[u].users) \in Seq(Users)
      BY <2>6, PostIsOne DEF StorePost
    <3>2. timeline' \in [Users -> Seq(Posts)]
      BY SMTT(30), <2>6, <3>1 DEF StorePost, FilesTypeOK
    <3>3. handler' \in [Users -> [pc : {"none", "enter", "read", "write", "store"}, users : Seq(Users)]]
      BY <2>6, <3>1, <2>1 DEF StorePost, Loop
    <3> QED  BY <2>6, <3>2, <3>3 DEF StorePost, FilesTypeOK, memoryVars, clientVars, countVars
  <2>7. CASE EndTimeline(u)
    BY SMTT(30), <2>7 DEF EndTimeline, NoCall, FilesTypeOK, diskVars, clientVars, countVars
  <2> QED  BY <1>5, <2>2, <2>3, <2>4, <2>5, <2>6, <2>7 DEF Timeline
<1> QED  BY <1>1, <1>2, <1>3, <1>4, <1>5 DEF FilesNext, ServerRun

\* The types after any step, with the history of what has gone wrong.
LEMMA TypesStay ==
    ASSUME HistoryTypeOK, HandlersInv, [HistoryNext]_historyVars
    PROVE  HistoryTypeOK'
<1>1. CASE HistoryNext
  <2>1. FilesTypeOK'
    BY <1>1, FileTypesStay DEF HistoryTypeOK, HistoryNext
  <2>2. \A u \in Users : ErasedFile(u) \in Files /\ Following(u) \in Files /\ Followers(arg[u]) \in Files
    BY FileNames DEF ErasedFile, HistoryTypeOK, FilesTypeOK
  <2>3. Mixed \cup Overwritten \cup Lost \cup Unwritten \subseteq Files
    BY <2>2 DEF Mixed, Overwritten, Lost, Unwritten, Erasers
  <2> QED  BY <1>1, <2>1, <2>3 DEF HistoryTypeOK, HistoryNext
<1>2. CASE UNCHANGED historyVars
  BY <1>2 DEF historyVars, fileVars, diskVars, memoryVars, clientVars, countVars, HistoryTypeOK,
     FilesTypeOK
<1> QED  BY <1>1, <1>2

ThreadsInv == ArgsInv /\ DirInv /\ HandlersInv

\* A handler in the middle of its loop has the directory and a follower.
LEMMA ThreadsStay ==
    ASSUME HistoryTypeOK, ThreadsInv, [HistoryNext]_historyVars
    PROVE  ThreadsInv'
<1> USE DEF HistoryTypeOK
<1>1. CASE UNCHANGED historyVars
  BY <1>1 DEF historyVars, fileVars, diskVars, memoryVars, clientVars, countVars, ThreadsInv,
     ArgsInv, DirInv, HandlersInv
<1>2. ASSUME UNCHANGED <<at, arg, handler, shown, posted>>, dir' \/ UNCHANGED <<dir, file>>
      PROVE  ThreadsInv'
  BY <1>2 DEF ThreadsInv, ArgsInv, DirInv, HandlersInv
<1>3. CASE BuildAndStart \/ MakeDir \/ collect_users
  BY <1>2, <1>3 DEF BuildAndStart, MakeDir, collect_users, diskVars, clientVars, countVars
<1>4. CASE Dies
  <2>1. \A x \in Users : at'[x] \notin UnFollowPCs /\ handler'[x] = NoCall /\ shown'[x] = {}
    BY <1>4 DEF Dies, FilesTypeOK, LoginPCs, FollowPCs, UnFollowPCs
  <2>2. UNCHANGED <<dir, file>>
    BY <1>4 DEF Dies, diskVars
  <2> QED  BY <2>1, <2>2 DEF ThreadsInv, ArgsInv, DirInv, HandlersInv, NoCall
<1>5. ASSUME NEW u \in Users, ClientRun(u) PROVE ThreadsInv'
  <2>1. CASE StartClient(u)
    <3>1. /\ at[u] = "out" /\ at'[u] = "login" /\ OthersStay(u) /\ handler[u] = NoCall
          /\ UNCHANGED <<dir, file, handler, shown, posted>>
      BY <2>1 DEF StartClient, Step, OthersStay, FilesTypeOK, diskVars, countVars
    <3> QED  BY <3>1 DEF ThreadsInv, ArgsInv, DirInv, HandlersInv, OthersStay, NoCall, UnFollowPCs
  <2>2. CASE Login(u)
    <3>1. /\ at[u] = "login" /\ at'[u] \in {"out", "prompt", "addName"} /\ OthersStay(u)
          /\ UNCHANGED <<dir, file, handler, shown, posted>>
      BY SMTT(30), <2>2 DEF Login, Step, OthersStay, FilesTypeOK, diskVars, countVars
    <3> QED  BY <3>1 DEF ThreadsInv, ArgsInv, DirInv, HandlersInv, OthersStay, UnFollowPCs
  <2>3. CASE AddName(u)
    <3>1. /\ at[u] = "addName" /\ at'[u] = "addSelf" /\ OthersStay(u)
          /\ UNCHANGED <<dir, file, handler, shown, posted>>
      BY <2>3 DEF AddName, Step, OthersStay, FilesTypeOK, countVars
    <3> QED  BY <3>1 DEF ThreadsInv, ArgsInv, DirInv, HandlersInv, OthersStay, UnFollowPCs
  <2>4. CASE AddSelf(u) \/ AddFollower(u) \/ AddFollowing(u)
    <3>1. /\ at[u] \in {"addSelf", "addFollower", "addFollowing"}
          /\ at'[u] \in {"prompt", "addFollowing"} /\ OthersStay(u)
          /\ UNCHANGED <<dir, handler, shown, posted>>
          /\ ~dir => file' = file
      BY <2>4 DEF AddSelf, AddFollower, AddFollowing, AddLine, Step, OthersStay, FilesTypeOK, countVars
    <3> QED  BY <3>1 DEF ThreadsInv, ArgsInv, DirInv, HandlersInv, OthersStay, UnFollowPCs
  <2>5. ASSUME NEW v \in Users, Follow(u, v) PROVE ThreadsInv'
    <3>1. /\ at[u] = "prompt" /\ at'[u] = "addFollower" /\ OthersStay(u)
          /\ UNCHANGED <<dir, file, handler, shown, posted>>
      BY <2>5 DEF Follow, Command, OthersStay, FilesTypeOK, diskVars
    <3> QED  BY <3>1 DEF ThreadsInv, ArgsInv, DirInv, HandlersInv, OthersStay, UnFollowPCs
  <2>6. ASSUME NEW v \in Users, UnFollow(u, v) PROVE ThreadsInv'
    <3>1. /\ at[u] = "prompt" /\ at'[u] = "copyFollowing" /\ OthersStay(u)
          /\ u # v /\ arg'[u] = v
          /\ UNCHANGED <<dir, file, handler, shown, posted>>
      BY <2>6 DEF UnFollow, Command, OthersStay, FilesTypeOK, diskVars
    <3>2. dir
      <4>1. file[Following(u)] # <<>>
        BY <2>6 DEF UnFollow, Follows, ToSet
      <4> QED  BY <4>1, FileNames DEF ThreadsInv, DirInv
    <3> QED  BY <3>1, <3>2 DEF ThreadsInv, ArgsInv, DirInv, HandlersInv, OthersStay
  <2>7. CASE EraseLine(u)
    <3>1. /\ at[u] \in UnFollowPCs /\ at'[u] \in UnFollowPCs \cup {"prompt"} /\ OthersStay(u)
          /\ at'[u] # "prompt" => arg'[u] = arg[u]
          /\ UNCHANGED <<dir, handler, shown, posted>>
      BY <2>7 DEF EraseLine, Step, OthersStay, FilesTypeOK, UnFollowPCs, countVars
    <3>2. dir
      BY <3>1 DEF ThreadsInv, DirInv
    <3> QED  BY <3>1, <3>2 DEF ThreadsInv, ArgsInv, DirInv, HandlersInv, OthersStay, UnFollowPCs
  <2>8. CASE EnterTimeline(u)
    <3>1. /\ at[u] = "prompt" /\ at'[u] = "timeline" /\ OthersStay(u)
          /\ UNCHANGED <<dir, file, shown, posted>>
          /\ \A x \in Users : x # u => handler'[x] = handler[x]
          /\ handler'[u] = handler[u] \/ handler'[u] = [pc |-> "enter", users |-> file[Following(u)]]
      BY <2>8 DEF EnterTimeline, Step, OthersStay, FilesTypeOK, diskVars, countVars
    <3> QED  BY <3>1, FileNames DEF ThreadsInv, ArgsInv, DirInv, HandlersInv, OthersStay, UnFollowPCs
  <2>9. CASE Kill(u)
    <3>1. /\ at[u] \in {"prompt", "timeline"} /\ at'[u] = "out" /\ OthersStay(u)
          /\ UNCHANGED <<dir, file, handler, posted>>
          /\ shown'[u] = {} /\ \A x \in Users : x # u => shown'[x] = shown[x]
      BY <2>9 DEF Kill, OthersStay, FilesTypeOK, diskVars
    <3> QED  BY <3>1 DEF ThreadsInv, ArgsInv, DirInv, HandlersInv, OthersStay, UnFollowPCs
  <2> QED  BY <1>5, <2>1, <2>2, <2>3, <2>4, <2>5, <2>6, <2>7, <2>8, <2>9 DEF ClientRun
<1>6. ASSUME NEW u \in Users, Timeline(u), ~Dies PROVE ThreadsInv'
  <2>1. /\ UNCHANGED <<dir, file, at, arg>>
        /\ \A x \in Users : x # u => handler'[x] = handler[x] /\ posted'[x] = posted[x]
        /\ handler[u].pc # "none"
    BY <1>6 DEF Timeline, WriteLastPosts, ReadPost, WritePost, StorePost, EndTimeline, Goto, Loop,
       diskVars, clientVars, countVars, FilesTypeOK
  <2>2. CASE WriteLastPosts(u)
    <3>1. ~dir => LastPosts(u) = {}
      <4> SUFFICES ASSUME ~dir PROVE LastPosts(u) = {}
        OBVIOUS
      <4>1. ToSet(handler[u].users) = {}
        BY DEF ThreadsInv, DirInv, ToSet
      <4> QED  BY <4>1 DEF LastPosts
    <3>2. /\ handler'[u] = [pc |-> "read", users |-> <<>>] /\ posted' = posted
          /\ \A x \in Users : shown'[x] = IF x = u /\ at[x] = "timeline" THEN shown[x] \cup LastPosts(u)
                                                                        ELSE shown[x]
      BY <2>2 DEF WriteLastPosts, Goto, countVars, FilesTypeOK
    <3>3. \A x \in Users : shown[x] = {} /\ (at[x] # "timeline" \/ ~dir) => shown'[x] = {}
      BY <3>1, <3>2
    <3>4. handler'[u].pc = "read" /\ handler'[u].users = <<>>
      BY <3>2
    <3> QED  BY <2>1, <3>2, <3>3, <3>4 DEF ThreadsInv, ArgsInv, DirInv, HandlersInv
  <2>3. CASE ReadPost(u)
    <3>1. /\ handler'[u] = [pc |-> IF file[Followers(u)] = <<>> THEN "read" ELSE "write",
                            users |-> file[Followers(u)]]
          /\ posted'[u] # 0 /\ shown' = shown
      BY <2>3, BoundsAreNaturals DEF ReadPost, Loop, Goto, clientVars, FilesTypeOK
    <3> QED  BY <2>1, <3>1, FileNames DEF ThreadsInv, ArgsInv, DirInv, HandlersInv
  <2>4. CASE WritePost(u)
    <3>1. /\ handler[u].pc = "write" /\ handler'[u] = [pc |-> "store", users |-> handler[u].users]
          /\ posted' = posted
      BY <1>6, <2>4 DEF WritePost, Goto, countVars, FilesTypeOK
    <3>2. \A x \in Users : shown'[x] = shown[x] \/ at[x] = "timeline"
      BY <1>6, <2>4 DEF WritePost, FilesTypeOK
    <3> QED  BY <2>1, <3>1, <3>2 DEF ThreadsInv, ArgsInv, DirInv, HandlersInv
  <2>5. CASE StorePost(u)
    <3>1. /\ handler[u].pc = "store" /\ shown' = shown /\ posted' = posted
          /\ handler'[u] = [pc |-> IF Tail(handler[u].users) = <<>> THEN "read" ELSE "write",
                            users |-> Tail(handler[u].users)]
      BY <2>5 DEF StorePost, Loop, Goto, clientVars, countVars, FilesTypeOK
    <3>2. dir /\ posted[u] # 0
      BY <3>1 DEF ThreadsInv, DirInv, HandlersInv
    <3>3. /\ handler'[u].pc \in {"read", "write"}
          /\ handler'[u].pc = "write" => handler'[u].users # <<>>
      BY <3>1
    <3>4. ArgsInv' /\ DirInv'
      BY <2>1, <3>2 DEF ThreadsInv, ArgsInv, DirInv
    <3>5. HandlersInv'
      BY <2>1, <3>1, <3>2, <3>3 DEF ThreadsInv, HandlersInv
    <3> QED  BY <3>4, <3>5 DEF ThreadsInv
  <2>6. CASE EndTimeline(u)
    <3>1. handler'[u] = NoCall /\ shown' = shown /\ posted' = posted
      BY <2>6 DEF EndTimeline, clientVars, countVars, FilesTypeOK
    <3> QED  BY <2>1, <3>1 DEF ThreadsInv, ArgsInv, DirInv, HandlersInv, NoCall
  <2> QED  BY <1>6, <2>2, <2>3, <2>4, <2>5, <2>6 DEF Timeline
<1> QED  BY <1>1, <1>3, <1>4, <1>5, <1>6 DEF HistoryNext, FilesNext, ServerRun, Crash

\* A user becomes known to the server by a Login, which goes on to write the name.
LEMMA UsersStay ==
    ASSUME HistoryTypeOK, UsersSurvive, [HistoryNext]_historyVars
    PROVE  UsersSurvive'
<1> USE DEF HistoryTypeOK
<1>1. CASE UNCHANGED historyVars
  BY <1>1 DEF historyVars, fileVars, diskVars, memoryVars, clientVars, UsersSurvive
<1>2. ASSUME HistoryNext, all_user_vect' \subseteq all_user_vect \cup ToSet(user_names),
             user_names' = user_names, \A x \in Users : at[x] = "addName" => at'[x] = at[x]
      PROVE  UsersSurvive'
  <2>1. early \subseteq early'
    BY <1>2 DEF HistoryNext
  <2>2. all_user_vect \subseteq Users
    BY DEF FilesTypeOK
  <2>3. \A x \in ToSet(user_names) : x \in Users
    BY DEF FilesTypeOK, ToSet
  <2> QED  BY <1>2, <2>1, <2>2, <2>3 DEF UsersSurvive
<1>3. CASE HistoryNext /\ (BuildAndStart \/ MakeDir \/ collect_users)
  BY <1>2, <1>3 DEF BuildAndStart, MakeDir, collect_users, diskVars, clientVars
<1>4. CASE Dies
  BY <1>4 DEF Dies, UsersSurvive
<1>5. ASSUME NEW u \in Users, ClientRun(u), HistoryNext PROVE UsersSurvive'
  <2>1. CASE Login(u)
    <3>1. early \subseteq early' /\ user_names' = user_names
      BY <1>5, <2>1 DEF HistoryNext, Login, diskVars
    <3>2. /\ \A x \in Users : x # u => at'[x] = at[x]
          /\ all_user_vect' \subseteq all_user_vect \cup {u}
          /\ u \in all_user_vect' => u \in all_user_vect \/ at'[u] = "addName"
          /\ at[u] = "login"
      <4>1. CASE Step(u, "login", "out") /\ UNCHANGED all_user_vect
        BY <4>1 DEF Step, FilesTypeOK
      <4>2. CASE /\ Step(u, "login", IF u \in all_user_vect THEN "prompt" ELSE "addName")
                 /\ all_user_vect' = all_user_vect \cup {u}
        BY <4>2 DEF Step, FilesTypeOK
      <4> QED  BY <2>1, <4>1, <4>2 DEF Login
    <3> QED  BY <3>1, <3>2 DEF UsersSurvive, FilesTypeOK
  <2>2. CASE AddName(u)
    <3>1. /\ \A x \in Users : x # u => at'[x] = at[x]
          /\ all_user_vect' = all_user_vect
          /\ user_names' = IF dir THEN Append(user_names, u) ELSE user_names
          /\ at[u] = "addName" /\ at'[u] = "addSelf"
      BY <2>2 DEF AddName, Step, memoryVars, FilesTypeOK
    <3>2. early \subseteq early' /\ (~dir => u \in early')
      BY <1>5, <3>1 DEF HistoryNext
    <3>3. ToSet(Append(user_names, u)) = ToSet(user_names) \cup {u}
      BY AppendedLine DEF FilesTypeOK
    <3> QED  BY <3>1, <3>2, <3>3 DEF UsersSurvive, FilesTypeOK
  <2>3. CASE StartClient(u)
    BY <1>2, <1>5, <2>3 DEF StartClient, Step, diskVars, memoryVars, FilesTypeOK
  <2>4. CASE AddSelf(u) \/ AddFollower(u) \/ AddFollowing(u) \/ EraseLine(u)
    <3>1. \E here \in {"addSelf", "addFollower", "addFollowing"} \cup UnFollowPCs :
            at[u] = here /\ \A x \in Users : x # u => at'[x] = at[x]
      BY <2>4 DEF AddSelf, AddFollower, AddFollowing, EraseLine, Step, FilesTypeOK, UnFollowPCs
    <3>2. UNCHANGED <<all_user_vect, user_names>>
      BY <2>4 DEF AddSelf, AddFollower, AddFollowing, EraseLine, memoryVars
    <3> QED  BY <1>2, <1>5, <3>1, <3>2 DEF UnFollowPCs
  <2>5. ASSUME NEW v \in Users, Follow(u, v) \/ UnFollow(u, v) PROVE UsersSurvive'
    BY <1>2, <1>5, <2>5 DEF Follow, UnFollow, Command, diskVars, memoryVars, FilesTypeOK
  <2>6. CASE EnterTimeline(u)
    BY <1>2, <1>5, <2>6 DEF EnterTimeline, Step, diskVars, FilesTypeOK
  <2>7. CASE Kill(u)
    BY <1>2, <1>5, <2>7 DEF Kill, diskVars, memoryVars, FilesTypeOK
  <2> QED  BY <1>5, <2>1, <2>2, <2>3, <2>4, <2>5, <2>6, <2>7 DEF ClientRun
<1>6. ASSUME NEW u \in Users, Timeline(u), ~Dies, HistoryNext PROVE UsersSurvive'
  <2>1. UNCHANGED <<all_user_vect, user_names, at>>
    BY <1>6 DEF Timeline, WriteLastPosts, ReadPost, WritePost, StorePost, EndTimeline, diskVars,
       memoryVars, clientVars
  <2> QED  BY <1>2, <1>6, <2>1
<1> QED  BY <1>1, <1>3, <1>4, <1>5, <1>6 DEF HistoryNext, FilesNext, ServerRun, Crash

\* A post that a step neither shows nor stores stays where it is.
LEMMA ShownUntouched ==
    ASSUME HistoryTypeOK, ThreadsInv, ShownIsStored, timeline' = timeline, dir' => dir \/ shown' = shown,
           \A x \in Users : /\ shown'[x] \subseteq shown[x]
                            /\ username_to_srw'[x] = "live" =>
                                 username_to_srw[x] = "live" \/ shown'[x] = {}
                            /\ handler[x].pc = "store" =>
                                 handler'[x] = handler[x] /\ posted'[x] = posted[x]
    PROVE  ShownIsStored'
<1> SUFFICES ASSUME NEW u \in Users, dir', username_to_srw'[u] = "live", NEW p \in shown'[u]
             PROVE  \/ p \in ToSet(timeline'[u])
                    \/ \E w \in Users : /\ handler'[w].pc = "store"
                                        /\ Head(handler'[w].users) = u
                                        /\ Post(w)' = p
  BY DEF ShownIsStored
<1>1. p \in shown[u] /\ username_to_srw[u] = "live"
  OBVIOUS
<1>2. dir
  BY <1>1 DEF ThreadsInv, DirInv
<1>3. CASE p \in ToSet(timeline[u])
  BY <1>3
<1>4. ASSUME NEW w \in Users, handler[w].pc = "store", Head(handler[w].users) = u, Post(w) = p
      PROVE  /\ handler'[w].pc = "store" /\ Head(handler'[w].users) = u
             /\ Post(w)' = p
  BY <1>4 DEF Post
<1> QED  BY <1>1, <1>2, <1>3, <1>4 DEF ShownIsStored

\* A post is shown by a handler that stores it next, or was stored before.
LEMMA ShownStays ==
    ASSUME HistoryTypeOK, ThreadsInv, ShownIsStored, [HistoryNext]_historyVars
    PROVE  ShownIsStored'
<1> USE DEF HistoryTypeOK
<1>1. CASE UNCHANGED historyVars
  BY <1>1, ShownUntouched DEF historyVars, fileVars, diskVars, memoryVars, clientVars, countVars
<1>2. ASSUME UNCHANGED <<timeline, shown, username_to_srw, handler, posted>> PROVE ShownIsStored'
  BY <1>2, ShownUntouched
<1>3. CASE BuildAndStart \/ MakeDir \/ collect_users
  BY <1>2, <1>3 DEF BuildAndStart, MakeDir, collect_users, diskVars, clientVars, countVars
<1>4. CASE Dies
  BY <1>4 DEF Dies, ShownIsStored
<1>5. ASSUME NEW u \in Users, ClientRun(u) PROVE ShownIsStored'
  <2>1. CASE StartClient(u) \/ Login(u) \/ AddName(u) \/ AddSelf(u) \/ AddFollower(u) \/ AddFollowing(u)
             \/ EraseLine(u)
    <3>1. UNCHANGED <<timeline, shown, username_to_srw, handler, posted>>
      BY <2>1 DEF StartClient, Login, AddName, AddSelf, AddFollower, AddFollowing, EraseLine, diskVars,
         memoryVars, countVars
    <3> QED  BY <1>2, <3>1
  <2>2. ASSUME NEW v \in Users, Follow(u, v) \/ UnFollow(u, v) PROVE ShownIsStored'
    BY <1>2, <2>2 DEF Follow, UnFollow, Command, diskVars, memoryVars
  <2>3. CASE EnterTimeline(u)
    <3>1. /\ at[u] = "prompt" /\ UNCHANGED <<dir, timeline, shown, posted>>
          /\ \A x \in Users : x # u => handler'[x] = handler[x] /\ username_to_srw'[x] = username_to_srw[x]
      BY SMTT(30), <2>3 DEF EnterTimeline, Step, FilesTypeOK, diskVars, countVars
    <3>2. shown[u] = {} /\ handler[u].pc = "none"
      BY <3>1 DEF ThreadsInv, HandlersInv
    <3> QED  BY <3>1, <3>2, ShownUntouched
  <2>4. CASE Kill(u)
    <3>1. /\ UNCHANGED <<dir, timeline, username_to_srw, handler, posted>>
          /\ \A x \in Users : shown'[x] \subseteq shown[x]
      BY <2>4 DEF Kill, FilesTypeOK, diskVars, memoryVars
    <3> QED  BY <3>1, ShownUntouched
  <2> QED  BY <1>5, <2>1, <2>2, <2>3, <2>4 DEF ClientRun
<1>6. ASSUME NEW u \in Users, Timeline(u), ~Dies PROVE ShownIsStored'
  <2>1. /\ dir' = dir
        /\ \A x \in Users : x # u => handler'[x] = handler[x] /\ posted'[x] = posted[x]
    BY <1>6 DEF Timeline, WriteLastPosts, ReadPost, WritePost, StorePost, EndTimeline, Goto, Loop,
       diskVars, countVars, FilesTypeOK
  <2>2. CASE WriteLastPosts(u)
    <3>1. /\ handler[u].pc = "enter" /\ UNCHANGED <<timeline, posted, username_to_srw>>
          /\ \A x \in Users : x # u => shown'[x] = shown[x]
          /\ shown'[u] \subseteq shown[u] \cup LastPosts(u)
      BY <2>2 DEF WriteLastPosts, FilesTypeOK, diskVars, memoryVars, countVars
    <3>2. LastPosts(u) \subseteq ToSet(timeline[u])
      BY DEF LastPosts, ToSet
    <3> SUFFICES ASSUME NEW x \in Users, dir', username_to_srw'[x] = "live", NEW p \in shown'[x]
                 PROVE  \/ p \in ToSet(timeline'[x])
                        \/ \E w \in Users : /\ handler'[w].pc = "store"
                                            /\ Head(handler'[w].users) = x
                                            /\ Post(w)' = p
      BY DEF ShownIsStored
    <3>3. CASE p \in ToSet(timeline[x])
      BY <3>1, <3>3
    <3>4. ASSUME NEW w \in Users, handler[w].pc = "store", Head(handler[w].users) = x, Post(w) = p
          PROVE  handler'[w].pc = "store" /\ Head(handler'[w].users) = x /\ Post(w)' = p
      BY <2>1, <3>1, <3>4 DEF Post
    <3>5. p \in shown[x] \/ p \in ToSet(timeline[x])
      BY <3>1, <3>2
    <3> QED  BY <2>1, <3>1, <3>3, <3>4, <3>5 DEF ShownIsStored
  <2>3. CASE ReadPost(u) \/ EndTimeline(u)
    <3>1. /\ handler[u].pc = "read" /\ UNCHANGED <<timeline, shown>>
          /\ \A x \in Users : username_to_srw'[x] = "live" => username_to_srw[x] = "live"
      BY <2>3 DEF ReadPost, EndTimeline, FilesTypeOK, diskVars, memoryVars, clientVars
    <3> QED  BY <2>1, <3>1, ShownUntouched
  <2>4. CASE WritePost(u)
    <3>1. /\ handler[u].pc = "write" /\ UNCHANGED <<timeline, posted, username_to_srw>>
          /\ handler'[u] = [pc |-> "store", users |-> handler[u].users]
      BY <1>6, <2>4 DEF WritePost, Goto, FilesTypeOK, diskVars, memoryVars, countVars
    <3>2. \A x \in Users : \/ shown'[x] = shown[x]
                           \/ x = Head(handler[u].users) /\ shown'[x] = shown[x] \cup {Post(u)}
      BY <1>6, <2>4 DEF WritePost, FilesTypeOK
    <3> SUFFICES ASSUME NEW x \in Users, dir', username_to_srw'[x] = "live", NEW p \in shown'[x]
                 PROVE  \/ p \in ToSet(timeline'[x])
                        \/ \E w \in Users : /\ handler'[w].pc = "store"
                                            /\ Head(handler'[w].users) = x
                                            /\ Post(w)' = p
      BY DEF ShownIsStored
    <3>3. CASE p \in ToSet(timeline[x])
      BY <3>1, <3>3
    <3>4. ASSUME NEW w \in Users, handler[w].pc = "store", Head(handler[w].users) = x, Post(w) = p
          PROVE  handler'[w].pc = "store" /\ Head(handler'[w].users) = x /\ Post(w)' = p
      BY <2>1, <3>1, <3>4 DEF Post
    <3>5. CASE p \in shown[x]
      BY <2>1, <3>1, <3>3, <3>4, <3>5 DEF ShownIsStored
    <3>6. CASE p = Post(u) /\ x = Head(handler[u].users)
      <4>1. handler'[u].pc = "store" /\ Head(handler'[u].users) = x /\ Post(u)' = p
        BY <3>1, <3>6 DEF Post
      <4> QED  BY <4>1
    <3> QED  BY <3>2, <3>5, <3>6
  <2>5. CASE StorePost(u)
    <3> DEFINE f == Head(handler[u].users)
    <3>1. /\ handler[u].pc = "store" /\ UNCHANGED <<shown, posted, username_to_srw>>
          /\ dir => timeline' = [timeline EXCEPT ![f] = Append(@, Post(u))]
          /\ Post(u) \in Posts /\ f \in Users
      BY <2>5, PostIsOne DEF StorePost, memoryVars, clientVars, countVars, ThreadsInv
    <3> HIDE DEF f
    <3> SUFFICES ASSUME NEW x \in Users, dir, username_to_srw[x] = "live", NEW p \in shown[x]
                 PROVE  \/ p \in ToSet(timeline'[x])
                        \/ \E w \in Users : /\ handler'[w].pc = "store"
                                            /\ Head(handler'[w].users) = x
                                            /\ Post(w)' = p
      BY <2>1, <3>1 DEF ShownIsStored
    <3>2. /\ timeline[x] \in Seq(Posts)
          /\ timeline'[x] = IF x = f THEN Append(timeline[x], Post(u)) ELSE timeline[x]
      BY <3>1 DEF FilesTypeOK
    <3>3. ToSet(timeline'[x]) = IF x = f THEN ToSet(timeline[x]) \cup {Post(u)} ELSE ToSet(timeline[x])
      <4>1. Post(u) \in Posts /\ timeline[x] \in Seq(Posts)
        BY <3>1, <3>2
      <4>2. ToSet(Append(timeline[x], Post(u))) = ToSet(timeline[x]) \cup {Post(u)}
        BY <4>1, AppendedLine
      <4> QED  BY <3>2, <4>2
    <3>4. CASE p \in ToSet(timeline[x])
      BY <3>3, <3>4
    <3>5. ASSUME NEW w \in Users, handler[w].pc = "store", Head(handler[w].users) = x, Post(w) = p
          PROVE  \/ p \in ToSet(timeline'[x])
                 \/ handler'[w].pc = "store" /\ Head(handler'[w].users) = x /\ Post(w)' = p
      <4>1. CASE w = u
        BY <3>3, <3>5, <4>1 DEF f
      <4>2. CASE w # u
        BY <2>1, <3>5, <4>2 DEF Post
      <4> QED  BY <4>1, <4>2
    <3> QED  BY <3>4, <3>5 DEF ShownIsStored
  <2> QED  BY <1>6, <2>2, <2>3, <2>4, <2>5 DEF Timeline
<1> QED  BY <1>1, <1>3, <1>4, <1>5, <1>6 DEF HistoryNext, FilesNext, ServerRun, Crash

-----------------------------------------------------------------------------
\* A whole file is one that nothing has happened to and no erase has in hand.
LEMMA WholeIsSound ==
    \A f \in Files : Whole(f) => Sound(f) /\ Content(f) = file[f]
<1> SUFFICES ASSUME NEW f \in Files, Whole(f) PROVE Sound(f) /\ Content(f) = file[f]
  OBVIOUS
<1>1. \A x \in Users : Renaming(x) => x \in Erasers
  BY DEF Renaming, Erasers
<1>2. Sound(f)
  BY DEF Whole, Sound, Mixed
<1>3. Content(f) = file[f]
  BY <1>1 DEF Whole, Content
<1> QED  BY <1>2, <1>3

\* The invariant holds before the first step.
LEMMA InitiallyInvariant ==
    ASSUME HistoryInit
    PROVE  FilesInvariant
<1> USE DEF HistoryInit, FilesInit
<1>1. HistoryTypeOK
  <2>1. /\ user_names \in Seq(Users) /\ file \in [Files -> Seq(Users)]
        /\ timeline \in [Users -> Seq(Posts)] /\ temp \in Seq(Users) \cup {NoFile}
    OBVIOUS
  <2>2. handler \in [Users -> [pc : {"none", "enter", "read", "write", "store"}, users : Seq(Users)]]
    BY DEF NoCall
  <2>3. /\ username_to_srw \in [Users -> {"none", "live", "dead"}] /\ shown \in [Users -> SUBSET Posts]
        /\ at \in [Users -> {"out", "prompt", "timeline"} \cup LoginPCs \cup FollowPCs \cup UnFollowPCs]
        /\ arg \in [Users -> Users]
    OBVIOUS
  <2>4. /\ posted \in [Users -> 0..MaxPosts] /\ commands \in 0..MaxCommands
        /\ crashes \in 0..MaxCrashes /\ kills \in 0..MaxKills
    BY BoundsAreNaturals
  <2> QED  BY <2>1, <2>2, <2>3, <2>4 DEF HistoryTypeOK, FilesTypeOK
<1>2. ThreadsInv /\ UsersSurvive /\ ShownIsStored
  BY FileNames DEF ThreadsInv, ArgsInv, DirInv, HandlersInv, UsersSurvive, ShownIsStored, NoCall, UnFollowPCs
<1>3. \A x \in Users : at[x] = "out"
  OBVIOUS
<1>4. TempInv
  BY <1>3 DEF TempInv, Erasers
<1>5. \A f \in Files : Content(f) = <<>>
  BY <1>3 DEF Content, Renaming
<1>6. ASSUME NEW x \in Users, NEW y \in Users PROVE FollowPair(x, y) /\ CountPair(x, y)
  <2>1. ~Lists(Following(x), y) /\ Times(x, y) = 0
    <3>1. x \notin ToSet(<<>>) /\ y \notin ToSet(<<>>) /\ <<>> \in Seq(Users)
      BY DEF ToSet
    <3> QED  BY <1>5, <3>1, FileNames, CountType DEF Lists, Times
  <2> QED  BY <1>3, <2>1 DEF FollowPair, CountPair, OffTheList
<1> QED  BY <1>1, <1>2, <1>4, <1>6 DEF FilesInvariant, ThreadsInv, FollowInv, CountInv

(***************************************************************************)
(* The inductive invariant of the microblog: what its files hold through   *)
(* any interleaving of its calls and whatever two file operations a death  *)
(* of the server comes between (tsd.cc:83-99, 223-301, 325-350).           *)
(***************************************************************************)
THEOREM FilesInvariantHolds == HistorySpec => []FilesInvariant
<1>1. HistoryInit => FilesInvariant
  BY InitiallyInvariant
<1>2. FilesInvariant /\ [HistoryNext]_historyVars => FilesInvariant'
  BY TypesStay, DiskStays, ThreadsStay, UsersStay, ShownStays DEF FilesInvariant, ThreadsInv, DiskInv
<1> QED  BY <1>1, <1>2, PTL DEF HistorySpec

(***************************************************************************)
(* The files hold names and posts, and the calls are where they can be.    *)
(***************************************************************************)
THEOREM FilesTypes == HistorySpec => []FilesTypeOK
<1>1. FilesInvariant => FilesTypeOK
  BY DEF FilesInvariant, HistoryTypeOK
<1> QED  BY <1>1, FilesInvariantHolds, PTL

(***************************************************************************)
(* Whoever follows a user is in the user's followers file, to which posts  *)
(* go (tsd.cc:229-230, 267-269, 334), if the two files have come to no     *)
(* harm: for any number of users, calls and deaths of the server.          *)
(***************************************************************************)
THEOREM FollowersAlwaysGetPosts == HistorySpec => []FollowersGetPosts
<1>1. FilesInvariant => FollowersGetPosts
  <2> SUFFICES ASSUME FilesInvariant, NEW u \in Users, NEW v \in Users, u # v,
                      Whole(Following(u)), Whole(Followers(v)), v \in ToSet(file[Following(u)])
               PROVE  u \in ToSet(file[Followers(v)])
    BY DEF FollowersGetPosts
  <2>1. \A f \in Files : Whole(f) => Sound(f) /\ Content(f) = file[f]
    BY WholeIsSound
  <2>2. FollowPair(u, v)
    BY DEF FilesInvariant, FollowInv
  <2> QED  BY <2>1, <2>2, FileNames DEF FollowPair, Lists
<1> QED  BY <1>1, FilesInvariantHolds, PTL

(***************************************************************************)
(* A user the server knows will be known to the next server, from          *)
(* user_names.txt (tsd.cc:83-99, 289-293), unless the Login came before    *)
(* the directory or has not got so far.                                    *)
(***************************************************************************)
THEOREM UsersAlwaysSurvive == HistorySpec => []UsersSurvive
<1>1. FilesInvariant => UsersSurvive
  BY DEF FilesInvariant
<1> QED  BY <1>1, FilesInvariantHolds, PTL

(***************************************************************************)
(* In files that have come to no harm a follower is listed once, but for   *)
(* one more line for each death of the server (tsd.cc:223-231, 262-269).   *)
(***************************************************************************)
THEOREM FollowersAreListedOnce == HistorySpec => []ListedOnce
<1>1. FilesInvariant => ListedOnce
  <2> SUFFICES ASSUME FilesInvariant, NEW u \in Users, NEW v \in Users, u # v,
                      Whole(Following(u)), Whole(Followers(v))
               PROVE  Count(file[Followers(v)], u) <= 1 + crashes
    BY DEF ListedOnce
  <2>1. \A f \in Files : Whole(f) => Sound(f) /\ Content(f) = file[f]
    BY WholeIsSound
  <2>2. CountPair(u, v)
    BY DEF FilesInvariant, CountInv
  <2> QED  BY <2>1, <2>2, FileNames DEF CountPair, Times
<1> QED  BY <1>1, FilesInvariantHolds, PTL

(***************************************************************************)
(* What a running timeline shows is in the timeline file, or a handler is  *)
(* about to store it (tsd.cc:335-341).                                     *)
(***************************************************************************)
THEOREM ShownIsAlwaysStored == HistorySpec => []ShownIsStored
<1>1. FilesInvariant => ShownIsStored
  BY DEF FilesInvariant
<1> QED  BY <1>1, FilesInvariantHolds, PTL
=============================================================================
