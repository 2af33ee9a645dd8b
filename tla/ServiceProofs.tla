---------------------------- MODULE ServiceProofs ----------------------------
(***************************************************************************)
(* Proofs that ServiceInvariant holds of the service, and of the           *)
(* properties it gives, for every number of clients, users and events.     *)
(***************************************************************************)
EXTENDS ServiceInv, FiniteSetTheorems, SequenceTheorems, NaturalsInduction,
        WellFoundedInduction, TLAPS

\* Of the numbers that are not in a set, there is a least one.
LEMMA MinMember ==
    ASSUME NEW S \in SUBSET Nat, S # {}
    PROVE  Min(S) \in S /\ \A y \in S : Min(S) <= y
<1> DEFINE less == OpToRel(<, Nat)
<1>1. IsWellFoundedOn(less, Nat)
  BY NatLessThanWellFounded
<1> HIDE DEF less
<1>2. PICK x \in S : \A y \in S : ~ <<y, x>> \in less
  BY <1>1, WFMin
<1>3. \A y \in S : x =< y
  <2> SUFFICES ASSUME NEW y \in S PROVE x =< y
    OBVIOUS
  <2>1. ~(y < x)
    BY <1>2 DEF less, OpToRel
  <2> QED  BY <2>1
<1> QED  BY <1>3 DEF Min

-----------------------------------------------------------------------------
(***************************************************************************)
(* The vectors of pointers: how many of a set they hold.                   *)
(***************************************************************************)
Members(s, Q) == {k \in DOMAIN s : s[k] \in Q}
HowMany(s, Q) == Cardinality(Members(s, Q))

\* How many places of a vector hold a pointer of a set is a number.
LEMMA HowManyType ==
    ASSUME NEW S, NEW s \in Seq(S), NEW Q
    PROVE  /\ IsFiniteSet(Members(s, Q))
           /\ HowMany(s, Q) \in Nat
           /\ (\E p \in Q : p \in ToSet(s)) <=> HowMany(s, Q) > 0
<1>1. IsFiniteSet(1..Len(s)) /\ Members(s, Q) \in SUBSET (1..Len(s))
  BY FS_Interval DEF Members
<1>2. IsFiniteSet(Members(s, Q))
  BY <1>1, FS_Subset
<1>3. HowMany(s, Q) \in Nat /\ (HowMany(s, Q) = 0 <=> Members(s, Q) = {})
  BY <1>2, FS_CardinalityType, FS_EmptySet DEF HowMany
<1>4. Members(s, Q) = {} <=> ~ \E p \in Q : p \in ToSet(s)
  BY DEF Members, ToSet
<1> QED  BY <1>2, <1>3, <1>4

\* An empty vector holds none.
LEMMA NoneAtFirst == \A Q : HowMany(<<>>, Q) = 0
<1>1. \A Q : Members(<<>>, Q) = {}
  BY DEF Members
<1> QED  BY <1>1, FS_EmptySet DEF HowMany

\* How many there are after push_back.
LEMMA Appended ==
    ASSUME NEW S, NEW s \in Seq(S), NEW y \in S, NEW Q
    PROVE  /\ Append(s, y) \in Seq(S)
           /\ ToSet(Append(s, y)) = ToSet(s) \cup {y}
           /\ HowMany(Append(s, y), Q) = IF y \in Q THEN HowMany(s, Q) + 1 ELSE HowMany(s, Q)
<1> DEFINE t == Append(s, y)
<1>1. /\ t \in Seq(S) /\ Len(t) = Len(s) + 1 /\ Len(s) \in Nat
      /\ DOMAIN s = 1..Len(s) /\ DOMAIN t = 1..(Len(s) + 1)
      /\ \A k \in 1..Len(s) : t[k] = s[k]
      /\ t[Len(s) + 1] = y
  BY AppendProperties
<1> HIDE DEF t
<1>2. ToSet(t) = ToSet(s) \cup {y}
  <2>1. \A k \in 1..(Len(s) + 1) : k \in 1..Len(s) \/ k = Len(s) + 1
    BY <1>1
  <2>2. Len(s) + 1 \in 1..(Len(s) + 1) /\ 1..Len(s) \subseteq 1..(Len(s) + 1)
    BY <1>1
  <2> QED  BY <1>1, <2>1, <2>2 DEF ToSet
<1>3. Members(t, Q) = IF y \in Q THEN Members(s, Q) \cup {Len(s) + 1} ELSE Members(s, Q)
  BY <1>1 DEF Members
<1>4. Len(s) + 1 \notin Members(s, Q)
  BY <1>1 DEF Members
<1>5. IsFiniteSet(Members(s, Q))
  BY HowManyType
<1>6. HowMany(t, Q) = IF y \in Q THEN HowMany(s, Q) + 1 ELSE HowMany(s, Q)
  BY <1>3, <1>4, <1>5, FS_AddElement DEF HowMany
<1> QED  BY <1>1, <1>2, <1>6 DEF t

\* The first one is taken out, and nothing else.
LEMMA RemovedFirst ==
    ASSUME NEW S, NEW s \in Seq(S), NEW y, y \in ToSet(s), NEW Q
    PROVE  /\ RemoveFirst(s, y) \in Seq(S)
           /\ ToSet(RemoveFirst(s, y)) \subseteq ToSet(s)
           /\ \A p : p # y /\ p \in ToSet(s) => p \in ToSet(RemoveFirst(s, y))
           /\ HowMany(RemoveFirst(s, y), Q) = IF y \in Q THEN HowMany(s, Q) - 1 ELSE HowMany(s, Q)
<1> DEFINE I == {k \in 1..Len(s) : s[k] = y}
           i == Min(I)
           t == RemoveAt(s, i)
<1>1. I # {} /\ I \in SUBSET Nat
  BY DEF ToSet
<1>2. i \in 1..Len(s) /\ s[i] = y /\ Len(s) \in Nat
  <2> HIDE DEF I
  <2>1. i \in I
    BY <1>1, MinMember
  <2> QED  BY <2>1 DEF I
<1>3. RemoveFirst(s, y) = t
  BY <1>1 DEF RemoveFirst, SelectInSeq
<1> HIDE DEF i
<1>4. /\ t \in Seq(S) /\ Len(t) = Len(s) - 1
      /\ \A k \in 1..(Len(s) - 1) : t[k] = IF k < i THEN s[k] ELSE s[k + 1]
  <2> DEFINE a == SubSeq(s, 1, i - 1)
             b == SubSeq(s, i + 1, Len(s))
  <2>1. /\ a \in Seq(S) /\ Len(a) = i - 1
        /\ \A k \in 1..(i - 1) : a[k] = s[k]
    BY <1>2, SubSeqProperties
  <2>2. /\ b \in Seq(S) /\ Len(b) = Len(s) - i
        /\ \A k \in 1..(Len(s) - i) : b[k] = s[i + k]
    <3>1. \A k \in (i + 1)..Len(s) : s[k] \in S
      BY <1>2
    <3>2. /\ b \in Seq(S)
          /\ Len(b) = IF i + 1 <= Len(s) THEN Len(s) - (i + 1) + 1 ELSE 0
          /\ \A k \in 1 .. (Len(s) - (i + 1) + 1) : b[k] = s[i + 1 + k - 1]
      BY <1>2, <3>1, SubSeqProperties
    <3> HIDE DEF b
    <3> QED  BY <1>2, <3>2
  <2> HIDE DEF a, b
  <2>3. /\ a \o b \in Seq(S) /\ Len(a \o b) = Len(a) + Len(b)
        /\ \A k \in 1..(Len(a) + Len(b)) : (a \o b)[k] = IF k <= Len(a) THEN a[k] ELSE b[k - Len(a)]
    BY <2>1, <2>2, ConcatProperties
  <2>4. t = a \o b
    BY DEF a, b, RemoveAt
  <2>5. ASSUME NEW k \in 1..(Len(s) - 1)
        PROVE  (a \o b)[k] = IF k < i THEN s[k] ELSE s[k + 1]
    <3>1. CASE k < i
      BY <1>2, <2>1, <2>2, <2>3, <3>1
    <3>2. CASE ~(k < i)
      <4>1. k - (i - 1) \in 1..(Len(s) - i) /\ i + (k - (i - 1)) = k + 1
        BY <1>2, <3>2
      <4>2. (a \o b)[k] = b[k - (i - 1)]
        BY SMTT(30), <1>2, <2>1, <2>2, <2>3, <3>2
      <4> QED  BY <2>2, <3>2, <4>1, <4>2
    <3> QED  BY <3>1, <3>2
  <2> QED  BY <1>2, <2>1, <2>2, <2>3, <2>4, <2>5
<1> HIDE DEF t
<1>5. ToSet(t) \subseteq ToSet(s)
  <2> SUFFICES ASSUME NEW k \in 1..(Len(s) - 1) PROVE t[k] \in ToSet(s)
    BY SMTT(30), <1>2, <1>4 DEF ToSet
  <2>1. k \in 1..Len(s) /\ k + 1 \in 1..Len(s) /\ (t[k] = s[k] \/ t[k] = s[k + 1])
    BY <1>2, <1>4
  <2> QED  BY <2>1 DEF ToSet
<1>6. ASSUME NEW p, p # y, p \in ToSet(s)
      PROVE  p \in ToSet(t)
  <2>1. PICK k \in 1..Len(s) : s[k] = p
    BY <1>6 DEF ToSet
  <2>2. k # i
    BY <1>2, <1>6, <2>1
  <2>3. CASE k < i
    <3>1. k \in 1..(Len(s) - 1) /\ t[k] = p
      BY <1>2, <1>4, <2>1, <2>3
    <3> QED  BY <1>4, <3>1 DEF ToSet
  <2>4. CASE k > i
    <3>1. k - 1 \in 1..(Len(s) - 1) /\ t[k - 1] = p
      BY <1>2, <1>4, <2>1, <2>4
    <3> QED  BY <1>4, <3>1 DEF ToSet
  <2> QED  BY <1>2, <2>1, <2>2, <2>3, <2>4
<1>7. HowMany(t, Q) = IF y \in Q THEN HowMany(s, Q) - 1 ELSE HowMany(s, Q)
  <2> DEFINE K == Members(s, Q) \ {i}
             L == Members(t, Q)
             f == [k \in L |-> IF k < i THEN k ELSE k + 1]
  <2>1. /\ K = {k \in 1..Len(s) : s[k] \in Q /\ k # i}
        /\ L = {k \in 1..(Len(s) - 1) : t[k] \in Q}
    BY <1>4 DEF Members
  <2> HIDE DEF K, L
  <2>2. \A k \in L : f[k] \in K
    BY SMTT(30), <1>2, <1>4, <2>1
  <2>3. \A k \in L, l \in L : f[k] = f[l] => k = l
    BY <1>2, <2>1
  <2>4. ASSUME NEW m \in K PROVE \E k \in L : f[k] = m
    <3>1. CASE m < i
      <4>1. m \in L /\ f[m] = m
        BY <1>2, <1>4, <2>1, <3>1
      <4> QED  BY <4>1
    <3>2. CASE m > i
      <4>1. m - 1 \in L
        BY <1>2, <1>4, <2>1, <3>2
      <4>2. f[m - 1] = m
        BY <1>2, <2>1, <3>2, <4>1
      <4> QED  BY <4>1, <4>2
    <3>3. m \in 1..Len(s) /\ m # i
      BY <2>1
    <3> QED  BY <1>2, <3>1, <3>2, <3>3
  <2>5. f \in [L -> K]
    BY <2>2
  <2>6. f \in Bijection(L, K)
    <3> HIDE DEF f
    <3>1. DOMAIN f = L
      BY <2>5
    <3> QED  BY <2>3, <2>4, <2>5, <3>1 DEF Bijection, Injection, Surjection, IsInjective
  <2>7. IsFiniteSet(L)
    BY <1>4, HowManyType DEF L
  <2>8. Cardinality(K) = Cardinality(L)
    BY <2>6, <2>7, FS_Bijection DEF ExistsBijection
  <2>9. IsFiniteSet(Members(s, Q))
    BY HowManyType
  <2>10. Cardinality(K) = IF i \in Members(s, Q) THEN HowMany(s, Q) - 1 ELSE HowMany(s, Q)
    BY <2>9, FS_RemoveElement DEF K, HowMany
  <2>11. i \in Members(s, Q) <=> y \in Q
    BY <1>2 DEF Members
  <2> QED  BY <2>8, <2>10, <2>11 DEF L, HowMany
<1> QED  BY <1>3, <1>4, <1>5, <1>6, <1>7

-----------------------------------------------------------------------------
(***************************************************************************)
(* What the operations do to the calls and the entries.                    *)
(***************************************************************************)
CallTo(c, k) == k \in Calls /\ call' = [call EXCEPT ![c] = k]

MemoryStays == UNCHANGED <<client_db, capacity, generation>>

EntryTo(i, e) ==
    /\ i \in 1..Len(client_db) /\ e \in Entries
    /\ client_db' = [client_db EXCEPT ![i] = e]
    /\ UNCHANGED <<capacity, generation>>

\* One call moves, the others stay.
LEMMA CallChanged ==
    ASSUME ShapeOK, NEW c \in Clients, NEW k, CallTo(c, k)
    PROVE  /\ call' \in [Clients -> Calls]
           /\ call'[c] = k /\ \A d \in Clients \ {c} : call'[d] = call[d]
BY DEF ShapeOK, CallTo

\* One entry changes, the others and the vector's memory stay.
LEMMA EntryChanged ==
    ASSUME ShapeOK, NEW i, NEW e, EntryTo(i, e)
    PROVE  /\ client_db' \in Seq(Entries)
           /\ Len(client_db') = Len(client_db)
           /\ DOMAIN client_db = 1..Len(client_db) /\ DOMAIN client_db' = 1..Len(client_db)
           /\ client_db'[i] = e
           /\ \A j \in 1..Len(client_db) : j # i => client_db'[j] = client_db[j]
           /\ capacity' = capacity /\ generation' = generation
BY ElementOfSeq DEF ShapeOK, EntryTo

\* What is in client_db is an entry.
LEMMA EntryType ==
    ASSUME ShapeOK, NEW i \in 1..Len(client_db)
    PROVE  client_db[i] \in Entries
BY ElementOfSeq DEF ShapeOK

\* find_user gives the place of an entry of the user, or there is none.
LEMMA FoundUser ==
    ASSUME ShapeOK, NEW u
    PROVE  /\ find_user(u) \in 0..Len(client_db)
           /\ find_user(u) # 0 => client_db[find_user(u)].username = u
           /\ find_user(u) = 0 => \A i \in DOMAIN client_db : client_db[i].username # u
<1> DEFINE I == {i \in 1..Len(client_db) : client_db[i].username = u}
<1>1. find_user(u) = IF I # {} THEN Min(I) ELSE 0
  BY DEF find_user, SelectInSeq
<1>2. DOMAIN client_db = 1..Len(client_db) /\ Len(client_db) \in Nat
  BY DEF ShapeOK
<1>3. CASE I = {}
  BY <1>1, <1>2, <1>3
<1>4. CASE I # {}
  <2>1. I \in SUBSET Nat
    OBVIOUS
  <2> HIDE DEF I
  <2>2. find_user(u) \in I
    BY <1>1, <1>4, <2>1, MinMember
  <2> QED  BY <1>2, <2>2 DEF I
<1> QED  BY <1>3, <1>4

\* The pointer that a call takes to a user it has found.
LEMMA FoundPlace ==
    ASSUME ShapeOK, MemoryInv, NEW u, find_user(u) # 0
    PROVE  /\ find_user(u) \in 1..Len(client_db) /\ client_db[find_user(u)].username = u
           /\ Pointer(u) = <<generation, find_user(u)>> /\ generation \in Nat \ {0}
           /\ Pointer(u) \in Places /\ Placed(Pointer(u)) /\ Valid(Pointer(u))
<1>1. find_user(u) \in 1..Len(client_db) /\ client_db[find_user(u)].username = u
  BY FoundUser DEF ShapeOK
<1>2. generation \in Nat \ {0} /\ Len(client_db) \in Nat
  BY <1>1 DEF ShapeOK, MemoryInv
<1> QED  BY <1>1, <1>2 DEF Pointer, Places, Placed, Valid

\* A call that has just come to a place.
LEMMA AtType ==
    ASSUME NEW place \in {"prompt", "stuck"} \cup InCall \cup InTimeline
    PROVE  At(place) \in Calls /\ At(place).at = place
           /\ At(place).user1 = NoPointer /\ At(place).user2 = NoPointer
BY DEF At, Calls, Places, NoPointer

\* The places of a call are different.
LEMMA PlaceNames ==
    /\ {"prompt", "login", "push", "follow", "pushFollowing", "pushFollowers", "unfollow",
        "eraseFollowing", "eraseFollowers", "list", "stuck",
        "setStream", "chatting", "deliver", "count", "append"}
         = {"prompt", "stuck"} \cup InCall \cup InTimeline
BY DEF InCall, InTimeline

(***************************************************************************)
(* The kinds of steps.  A LookStep changes a call only, a WriteStep also   *)
(* writes a line, a TouchStep changes a call and an entry, and an          *)
(* EnterStep adds an entry.                                                *)
(***************************************************************************)
Served ==
    /\ UNCHANGED <<username, life, ending, restarts, wild>>
    /\ left' \in Nat /\ left' <= left

NoEntry(u) == \A i \in DOMAIN client_db : client_db[i].username # u

Look(c, k) ==
    /\ CallTo(c, k) /\ CallInv(k, c) /\ MemoryStays /\ Served
    /\ k.at = "push" => NoEntry(username[c])
    /\ k.at \notin {"login", "push"} => call[c].at \notin {"login", "push"}
    /\ k.at \in Chatting <=> call[c].at \in Chatting
    /\ {k.at, call[c].at} \cap {"pushFollowers", "eraseFollowers"} = {}
    /\ k.at = "eraseFollowing" => k.user2 \in ToSet(client_db[k.user1[2]].client_following)

LookStep(c, k) ==
    /\ Look(c, k)
    /\ "append" \notin {k.at, call[c].at}
    /\ UNCHANGED lines

WriteStep(c, k) ==
    /\ Look(c, k)
    /\ k.at = "deliver" /\ call[c].at = "append"
    /\ lines' = [lines EXCEPT ![call[c].name] = @ + 1]

\* What a TouchStep does to the stream, the count and the vectors of entry i.
StreamKept(c, k, i, e) ==
    /\ k.at \in Chatting <=> call[c].at \in Chatting
    /\ e.stream = client_db[i].stream

StreamSet(c, k, i, e) ==
    /\ k.at \in Chatting
    /\ e.username = username[c]
    /\ e.stream = IF client_db[i].stream = NoStream THEN Stream(c) ELSE client_db[i].stream

CountKept(c, k, i, e) ==
    /\ "append" \notin {k.at, call[c].at}
    /\ e.following_file_size = client_db[i].following_file_size

CountedUp(c, k, i, e) ==
    /\ k.at = "append" /\ call[c].at # "append" /\ k.name = e.username
    /\ e.following_file_size = client_db[i].following_file_size + 1

ListsKept(c, k, i, e) ==
    /\ {k.at, call[c].at} \cap {"pushFollowers", "eraseFollowers"} = {}
    /\ e.client_following = client_db[i].client_following
    /\ e.client_followers = client_db[i].client_followers

\* Append, kept folded.
Pushed(s, y) == Append(s, y)

PairMoves(c, k, i, e) ==
    LET p == call[c].user1
        q == call[c].user2
    IN \/ /\ call[c].at = "pushFollowing"
          /\ k = [call[c] EXCEPT !.at = "pushFollowers"]
          /\ i = p[2]
          /\ e.client_following = Pushed(client_db[i].client_following, q)
          /\ e.client_followers = client_db[i].client_followers
       \/ /\ call[c].at = "pushFollowers"
          /\ k = At("prompt")
          /\ i = q[2]
          /\ e.client_following = client_db[i].client_following
          /\ e.client_followers = Pushed(client_db[i].client_followers, p)
       \/ /\ call[c].at = "eraseFollowing"
          /\ k = [call[c] EXCEPT !.at = "eraseFollowers"]
          /\ i = p[2]
          /\ q \in ToSet(client_db[i].client_following)
          /\ e.client_following = RemoveFirst(client_db[i].client_following, q)
          /\ e.client_followers = client_db[i].client_followers
       \/ /\ call[c].at = "eraseFollowers"
          /\ k = At("prompt")
          /\ i = q[2]
          /\ p \in ToSet(client_db[i].client_followers)
          /\ e.client_following = client_db[i].client_following
          /\ e.client_followers = RemoveFirst(client_db[i].client_followers, p)

TouchStep(c, k, i, e) ==
    /\ CallTo(c, k) /\ CallInv(k, c) /\ EntryTo(i, e) /\ Served /\ UNCHANGED lines
    /\ k.at \notin {"login", "push", "eraseFollowing"}
    /\ call[c].at \in {"login", "push"} => e.username = username[c]
    /\ e.username = client_db[i].username
    /\ client_db[i].connected => e.connected
    /\ \A p \in ToSet(e.client_following) \cup ToSet(e.client_followers) : Placed(p)
    /\ StreamKept(c, k, i, e) \/ StreamSet(c, k, i, e)
    /\ CountKept(c, k, i, e) \/ CountedUp(c, k, i, e)
    /\ ListsKept(c, k, i, e) \/ PairMoves(c, k, i, e)

EnterStep(c) ==
    /\ call[c].at = "push" /\ CallTo(c, At("prompt")) /\ Served /\ UNCHANGED lines
    /\ client_db' \in Seq(Entries) /\ Len(client_db') = Len(client_db) + 1
    /\ DOMAIN client_db = 1..Len(client_db) /\ DOMAIN client_db' = 1..(Len(client_db) + 1)
    /\ \A i \in 1..Len(client_db) : client_db'[i] = client_db[i]
    /\ client_db'[Len(client_db) + 1] = Entry(username[c])
    /\ capacity' \in Nat /\ generation' \in Nat /\ generation' >= generation
    /\ Len(client_db') <= capacity' /\ capacity' <= 2 * Len(client_db') /\ generation' > 0

ServiceLeaves == UNCHANGED <<username, life, ending, left, restarts, wild>>

\* What the steps of the service leave alone.
LEMMA LeavesAreServed ==
    ASSUME ShapeOK, ServiceLeaves
    PROVE  Served
BY DEF ShapeOK, ServiceLeaves, Served

\* A call that is at a place of its own has no pointers.
LEMMA AtInv ==
    ASSUME NEW c, NEW place \in {"prompt", "stuck"} \cup InCall \cup InTimeline,
           place \notin PairCalls \cup PostCalls \cup {"chatting"}
    PROVE  CallInv(At(place), c)
BY AtType DEF CallInv, PairCalls, PostCalls

\* The entries and the calls that the steps are about.
LEMMA CallType ==
    ASSUME ShapeOK, PointersInv, NEW c \in Clients
    PROVE  /\ call[c] \in Calls /\ CallInv(call[c], c)
           /\ username[c] \in Users /\ life[c] \in Nat
BY DEF ShapeOK, PointersInv

\* The pointers in an entry's vectors are placed.
LEMMA EntryPlaced ==
    ASSUME ShapeOK, PointersInv, NEW i \in 1..Len(client_db)
    PROVE  /\ client_db[i] \in Entries /\ i \in DOMAIN client_db
           /\ \A p \in ToSet(client_db[i].client_following) : Placed(p) /\ p \in Places
           /\ \A p \in ToSet(client_db[i].client_followers) : Placed(p) /\ p \in Places
<1>1. client_db[i] \in Entries /\ i \in DOMAIN client_db
  BY EntryType DEF ShapeOK
<1>2. generation \in Nat /\ Len(client_db) \in Nat
  BY DEF ShapeOK
<1>3. \A p : Placed(p) => p \in Places
  BY <1>2 DEF Placed, Places
<1> QED  BY <1>1, <1>3 DEF PointersInv

\* Login looks for the user, and may connect its entry.
LEMMA LoginFindStep ==
    ASSUME ShapeOK, MemoryInv, PointersInv, NEW c \in Clients, LoginFind(c), ServiceLeaves
    PROVE  \/ \E k : LookStep(c, k)
           \/ \E k, i, e : TouchStep(c, k, i, e)
<1> DEFINE i == find_user(username[c])
<1>1. call[c] \in Calls /\ CallInv(call[c], c) /\ call[c].at = "login" /\ Served
  BY CallType, LeavesAreServed DEF LoginFind
<1>2. CASE i = 0
  <2> DEFINE k == [call[c] EXCEPT !.at = "push"]
  <2>1. call' = [call EXCEPT ![c] = k] /\ MemoryStays
    BY <1>2 DEF LoginFind, Goto, MemoryStays
  <2>2. k \in Calls /\ k.at = "push" /\ k.user1 = call[c].user1 /\ k.user2 = call[c].user2
    BY <1>1, PlaceNames DEF Calls
  <2>3. CallInv(k, c)
    BY <1>1, <2>2 DEF CallInv, PairCalls, PostCalls
  <2>4. NoEntry(username[c])
    BY <1>2, FoundUser DEF NoEntry
  <2>5. Look(c, k)
    BY <1>1, <2>1, <2>2, <2>3, <2>4 DEF Look, CallTo, Chatting, InTimeline
  <2>6. LookStep(c, k)
    BY <1>1, <2>2, <2>5 DEF LookStep, LoginFind
  <2> QED  BY <2>6
<1>3. CASE i # 0
  <2> DEFINE e == [client_db[i] EXCEPT !.connected = TRUE]
             k == At("prompt")
  <2>1. i \in 1..Len(client_db) /\ client_db[i].username = username[c]
    BY <1>3, FoundUser DEF ShapeOK
  <2> HIDE DEF i
  <2>2. /\ e \in Entries /\ e.username = client_db[i].username /\ e.connected
        /\ e.following_file_size = client_db[i].following_file_size
        /\ e.client_following = client_db[i].client_following
        /\ e.client_followers = client_db[i].client_followers /\ e.stream = client_db[i].stream
    BY <2>1, EntryType DEF Entries
  <2>3. CallTo(c, k) /\ EntryTo(i, e) /\ UNCHANGED lines
    BY <1>3, <2>1, <2>2, AtType, PlaceNames DEF LoginFind, Return, CallTo, EntryTo, i
  <2>4. CallInv(k, c) /\ k.at = "prompt"
    BY AtInv, AtType, PlaceNames DEF PairCalls, PostCalls
  <2> HIDE DEF e, k
  <2>5. \A p \in ToSet(e.client_following) \cup ToSet(e.client_followers) : Placed(p)
    BY <2>1, <2>2, EntryPlaced
  <2>6. StreamKept(c, k, i, e) /\ CountKept(c, k, i, e) /\ ListsKept(c, k, i, e)
    BY <1>1, <2>2, <2>4 DEF StreamKept, CountKept, ListsKept, Chatting, InTimeline
  <2>7. TouchStep(c, k, i, e)
    BY <1>1, <2>1, <2>2, <2>3, <2>4, <2>5, <2>6 DEF TouchStep
  <2> QED  BY <2>7
<1> QED  BY <1>2, <1>3

\* Login enters a new user.
LEMMA LoginPushStep ==
    ASSUME ShapeOK, MemoryInv, NEW c \in Clients, LoginPush(c), ServiceLeaves
    PROVE  EnterStep(c)
<1>1. Entry(username[c]) \in Entries
  BY DEF Entry, Entries, ShapeOK
<1>2. /\ client_db \in Seq(Entries) /\ capacity \in Nat /\ generation \in Nat
      /\ Len(client_db) \in Nat
  BY DEF ShapeOK
<1>3. client_db' = Append(client_db, Entry(username[c]))
  BY DEF LoginPush
<1>4. /\ client_db' \in Seq(Entries) /\ Len(client_db') = Len(client_db) + 1
      /\ DOMAIN client_db = 1..Len(client_db) /\ DOMAIN client_db' = 1..(Len(client_db) + 1)
      /\ \A i \in 1..Len(client_db) : client_db'[i] = client_db[i]
      /\ client_db'[Len(client_db) + 1] = Entry(username[c])
  BY <1>1, <1>2, <1>3, AppendProperties
<1>5. /\ capacity' \in Nat /\ generation' \in Nat /\ generation' >= generation
      /\ Len(client_db') <= capacity' /\ capacity' <= 2 * Len(client_db') /\ generation' > 0
  <2>1. CASE Len(client_db) = capacity
    <3>1. generation' = generation + 1 /\ capacity' = IF capacity = 0 THEN 1 ELSE 2 * capacity
      BY <2>1 DEF LoginPush
    <3> QED  BY <1>2, <1>4, <2>1, <3>1
  <2>2. CASE Len(client_db) # capacity
    <3>1. generation' = generation /\ capacity' = capacity
      BY <2>2 DEF LoginPush
    <3> QED  BY <1>2, <1>4, <2>2, <3>1 DEF MemoryInv
  <2> QED  BY <2>1, <2>2
<1>6. call[c].at = "push" /\ CallTo(c, At("prompt"))
  BY AtType DEF LoginPush, Return, CallTo
<1> QED  BY <1>4, <1>5, <1>6, LeavesAreServed DEF EnterStep, LoginPush

\* A call that returns.
LEMMA ReturnStep ==
    ASSUME ShapeOK, PointersInv, NEW c \in Clients, Return(c), MemoryStays, Served, UNCHANGED lines,
           call[c].at \in {"follow", "unfollow", "list"}
    PROVE  \E k : LookStep(c, k)
<1> DEFINE k == At("prompt")
<1>1. k \in Calls /\ k.at = "prompt" /\ CallInv(k, c)
  BY AtType, AtInv, PlaceNames DEF PairCalls, PostCalls
<1>2. CallTo(c, k)
  BY <1>1 DEF Return, CallTo
<1> HIDE DEF k
<1>3. Look(c, k)
  BY <1>1, <1>2 DEF Look, Chatting, InTimeline
<1> QED  BY <1>1, <1>3 DEF LookStep

\* Follow and UnFollow find both entries in the vector as it is.
LEMMA PairFound ==
    ASSUME ShapeOK, MemoryInv, PointersInv, NEW c \in Clients, NEW place \in {"pushFollowing", "eraseFollowing"},
           find_user(username[c]) # 0, ~Refused(c),
           NEW k, k = [call[c] EXCEPT !.at = place,
                                      !.user1 = Pointer(username[c]), !.user2 = Pointer(call[c].name)]
    PROVE  k \in Calls /\ k.at = place /\ CallInv(k, c)
           /\ k.user1 = Pointer(username[c]) /\ k.user2 = Pointer(call[c].name)
           /\ k.user1[2] = find_user(username[c])
<1>1. call[c] \in Calls
  BY CallType
<1>2. find_user(call[c].name) # 0
  BY DEF Refused
<1>3. /\ Pointer(username[c]) \in Places /\ Pointer(call[c].name) \in Places
      /\ Placed(Pointer(username[c])) /\ Placed(Pointer(call[c].name))
      /\ Pointer(username[c])[1] = generation /\ Pointer(call[c].name)[1] = generation
      /\ Pointer(username[c])[2] = find_user(username[c])
      /\ client_db[find_user(username[c])].username = username[c]
  BY <1>2, FoundPlace
<1>4. /\ k \in Calls /\ k.at = place
      /\ k.user1 = Pointer(username[c]) /\ k.user2 = Pointer(call[c].name)
  <2>1. place \in {"prompt", "stuck"} \cup InCall \cup InTimeline
    BY PlaceNames
  <2> HIDE DEF PairCalls
  <2> QED  BY <1>1, <1>3, <2>1 DEF Calls
<1>5. CallInv(k, c)
  BY <1>3, <1>4 DEF CallInv, IsOf, PairCalls, PostCalls
<1> QED  BY <1>3, <1>4, <1>5

\* Follow looks both users up.
LEMMA FollowStep ==
    ASSUME ShapeOK, MemoryInv, PointersInv, NEW c \in Clients, ~NoUser(c), Follow(c), ServiceLeaves
    PROVE  \E k : LookStep(c, k)
<1>1. call[c] \in Calls /\ call[c].at = "follow" /\ Served /\ MemoryStays /\ UNCHANGED lines
  BY CallType, LeavesAreServed DEF Follow, MemoryStays, memory
<1>2. CASE Return(c)
  BY <1>1, <1>2, ReturnStep
<1>3. CASE ~Return(c)
  <2> DEFINE k == [call[c] EXCEPT !.at = "pushFollowing",
                                  !.user1 = Pointer(username[c]), !.user2 = Pointer(call[c].name)]
  <2>1. ~Refused(c) /\ call' = [call EXCEPT ![c] = k]
    BY <1>3 DEF Follow
  <2>2. find_user(username[c]) # 0
    BY <1>1, <2>1 DEF NoUser
  <2>3. k \in Calls /\ k.at = "pushFollowing" /\ CallInv(k, c)
    BY <2>1, <2>2, PairFound
  <2>4. CallTo(c, k)
    BY <2>1, <2>3 DEF CallTo
  <2> HIDE DEF k
  <2>5. Look(c, k)
    BY <1>1, <2>3, <2>4 DEF Look, Chatting, InTimeline
  <2> QED  BY <1>1, <2>3, <2>5 DEF LookStep
<1> QED  BY <1>2, <1>3

\* UnFollow looks both users up, and whether the one follows the other.
LEMMA UnFollowStep ==
    ASSUME ShapeOK, MemoryInv, PointersInv, NEW c \in Clients, ~NoUser(c), UnFollow(c), ServiceLeaves
    PROVE  \E k : LookStep(c, k)
<1>1. call[c] \in Calls /\ call[c].at = "unfollow" /\ Served /\ MemoryStays /\ UNCHANGED lines
  BY CallType, LeavesAreServed DEF UnFollow, MemoryStays, memory
<1>2. CASE Return(c)
  BY <1>1, <1>2, ReturnStep
<1>3. CASE ~Return(c)
  <2> DEFINE k == [call[c] EXCEPT !.at = "eraseFollowing",
                                  !.user1 = Pointer(username[c]), !.user2 = Pointer(call[c].name)]
  <2>1. /\ ~Refused(c) /\ call' = [call EXCEPT ![c] = k]
        /\ Pointer(call[c].name) \in ToSet(Deref(Pointer(username[c])).client_following)
    BY <1>3 DEF UnFollow
  <2>2. find_user(username[c]) # 0
    BY <1>1, <2>1 DEF NoUser
  <2>3. /\ k \in Calls /\ k.at = "eraseFollowing" /\ CallInv(k, c)
        /\ k.user1 = Pointer(username[c]) /\ k.user2 = Pointer(call[c].name)
    BY <2>1, <2>2, PairFound
  <2>4. CallTo(c, k)
    BY <2>1, <2>3 DEF CallTo
  <2> HIDE DEF k
  <2>5. k.user2 \in ToSet(client_db[k.user1[2]].client_following)
    BY <2>1, <2>3 DEF Deref
  <2>6. Look(c, k)
    BY <1>1, <2>3, <2>4, <2>5 DEF Look, Chatting, InTimeline
  <2> QED  BY <1>1, <2>3, <2>6 DEF LookStep
<1> QED  BY <1>2, <1>3

\* List only reads.
LEMMA ListStep ==
    ASSUME ShapeOK, PointersInv, NEW c \in Clients, List(c), ServiceLeaves
    PROVE  \E k : LookStep(c, k)
BY ReturnStep, LeavesAreServed DEF List, MemoryStays, memory

\* A post is taken from the stream, or the timeline is left.
LEMMA PostStep ==
    ASSUME ShapeOK, MemoryInv, PointersInv, NEW c \in Clients, ~NoUser(c), Post(c), Served
    PROVE  \E k : LookStep(c, k)
<1> DEFINE i == find_user(username[c])
           n == Len(client_db[i].client_followers)
           k == [call[c] EXCEPT !.at = "deliver", !.user1 = Pointer(username[c]), !.it = 1, !.size = n]
<1>1. call[c] \in Calls /\ call[c].at = "chatting" /\ CallInv(call[c], c) /\ UNCHANGED lines /\ MemoryStays
  BY CallType DEF Post, MemoryStays, memory
<1>2. i # 0
  BY <1>1 DEF NoUser
<1>3. /\ i \in 1..Len(client_db) /\ client_db[i].username = username[c]
      /\ Pointer(username[c]) \in Places /\ Placed(Pointer(username[c])) /\ Pointer(username[c])[2] = i
  BY <1>2, FoundPlace
<1>4. n \in Nat
  BY <1>3, EntryType DEF Entries
<1>5. call' = [call EXCEPT ![c] = k]
  BY DEF Post
<1> HIDE DEF i, n
<1>6. /\ k \in Calls /\ k.at = "deliver" /\ k.user1 = Pointer(username[c]) /\ k.it = 1
      /\ k.user2 = call[c].user2
  BY <1>1, <1>3, <1>4, PlaceNames DEF Calls
<1>7. CallTo(c, k)
  BY <1>5, <1>6 DEF CallTo
<1> HIDE DEF k
<1>8. CallInv(k, c)
  BY <1>1, <1>3, <1>6 DEF CallInv, IsOf, PairCalls, PostCalls
<1>9. Look(c, k)
  BY <1>1, <1>6, <1>7, <1>8 DEF Look, Chatting, InTimeline
<1> QED  BY <1>1, <1>6, <1>9 DEF LookStep

\* A post goes to the next follower, or the loop is over.
LEMMA DeliverStep ==
    ASSUME ShapeOK, PointersInv, NEW c \in Clients, Deliver(c), ServiceLeaves
    PROVE  \E k : LookStep(c, k)
<1>1. /\ call[c] \in Calls /\ call[c].at = "deliver" /\ CallInv(call[c], c) /\ UNCHANGED lines
      /\ MemoryStays /\ Served
  BY CallType, LeavesAreServed DEF Deliver, MemoryStays, memory
<1>2. IsOf(call[c].user1, c) /\ call[c].it > 0 /\ call[c].it \in Nat /\ call[c].user2 = NoPointer
  BY <1>1 DEF CallInv, PairCalls, PostCalls, Calls
<1>3. CASE AtFollower(c)
  <2> DEFINE k == [call[c] EXCEPT !.at = "count", !.user2 = Follower(c)]
             i == call[c].user1[2]
             s == client_db[i].client_followers
  <2>1. call' = [call EXCEPT ![c] = k]
    BY <1>3 DEF Deliver
  <2>2. i \in 1..Len(client_db)
    BY <1>2 DEF IsOf, Placed
  <2>3. s \in Seq(Places)
    BY <2>2, EntryType DEF Entries
  <2>4. Follower(c) = s[call[c].it] /\ call[c].it \in 1..Len(s)
    BY <1>2, <1>3, <2>3 DEF Follower, AtFollower, Deref
  <2>5. Follower(c) \in ToSet(s)
    BY SMTT(30), <2>3, <2>4 DEF ToSet
  <2>6. Placed(Follower(c)) /\ Follower(c) \in Places
    BY <2>2, <2>5, EntryPlaced
  <2>7. /\ k \in Calls /\ k.at = "count" /\ k.user2 = Follower(c) /\ k.user1 = call[c].user1
        /\ k.it = call[c].it
    BY <1>1, <2>6, PlaceNames DEF Calls
  <2>8. CallTo(c, k)
    BY <2>1, <2>7 DEF CallTo
  <2> HIDE DEF k
  <2>9. CallInv(k, c)
    BY <1>2, <2>6, <2>7 DEF CallInv, PairCalls, PostCalls
  <2>10. Look(c, k)
    BY <1>1, <2>7, <2>8, <2>9 DEF Look, Chatting, InTimeline
  <2> QED  BY <1>1, <2>7, <2>10 DEF LookStep
<1>4. CASE ~AtFollower(c)
  <2> DEFINE k == [At("chatting") EXCEPT !.user1 = call[c].user1]
  <2>1. call' = [call EXCEPT ![c] = k]
    BY <1>4 DEF Deliver
  <2>2. k \in Calls /\ k.at = "chatting" /\ k.user1 = call[c].user1 /\ k.user2 = NoPointer
    <3>1. /\ At("chatting") \in Calls /\ At("chatting").at = "chatting"
          /\ At("chatting").user2 = NoPointer
      BY PlaceNames, AtType
    <3> QED  BY <1>1, <3>1 DEF Calls
  <2>3. CallTo(c, k)
    BY <2>1, <2>2 DEF CallTo
  <2> HIDE DEF k
  <2>4. CallInv(k, c)
    BY <1>2, <2>2 DEF CallInv, PairCalls, PostCalls
  <2>5. Look(c, k)
    BY <1>1, <2>2, <2>3, <2>4 DEF Look, Chatting, InTimeline
  <2> QED  BY <1>1, <2>2, <2>5 DEF LookStep
<1> QED  BY <1>3, <1>4

\* A line is written to the follower's file.
LEMMA AppendLineStep ==
    ASSUME ShapeOK, PointersInv, NEW c \in Clients, AppendLine(c), ServiceLeaves
    PROVE  \E k : WriteStep(c, k)
<1> DEFINE k == [call[c] EXCEPT !.at = "deliver", !.it = call[c].it + 1, !.name = "", !.user2 = NoPointer]
<1>1. /\ call[c] \in Calls /\ call[c].at = "append" /\ CallInv(call[c], c)
      /\ MemoryStays /\ Served /\ lines' = [lines EXCEPT ![call[c].name] = @ + 1]
  BY CallType, LeavesAreServed DEF AppendLine, MemoryStays, memory
<1>2. IsOf(call[c].user1, c) /\ call[c].it > 0 /\ call[c].it \in Nat
  BY <1>1 DEF CallInv, PairCalls, PostCalls, Calls
<1>3. call' = [call EXCEPT ![c] = k]
  BY DEF AppendLine
<1>4. NoPointer \in Places
  BY DEF NoPointer, Places
<1>5. /\ k \in Calls /\ k.at = "deliver" /\ k.user1 = call[c].user1 /\ k.user2 = NoPointer
      /\ k.it = call[c].it + 1
  <2>1. k.at = "deliver" /\ k.user1 = call[c].user1 /\ k.user2 = NoPointer /\ k.it = call[c].it + 1
    BY <1>1 DEF Calls
  <2>2. "deliver" \in {"prompt", "stuck"} \cup InCall \cup InTimeline
    BY PlaceNames
  <2>3. call[c].it + 1 \in Nat
    BY <1>2
  <2>4. k \in Calls
    BY <1>1, <1>4, <2>2, <2>3 DEF Calls
  <2> QED  BY <2>1, <2>4
<1>6. CallTo(c, k)
  BY <1>3, <1>5 DEF CallTo
<1> HIDE DEF k
<1>7. CallInv(k, c)
  BY <1>2, <1>5 DEF CallInv, PairCalls, PostCalls
<1>8. Look(c, k)
  BY <1>1, <1>5, <1>6, <1>7 DEF Look, Chatting, InTimeline
<1> QED  BY <1>1, <1>5, <1>8 DEF WriteStep

\* The commands, and the way into the timeline: the call gets a place, and a name.
LEMMA PromptStep ==
    ASSUME ShapeOK, PointersInv, NEW c \in Clients, Command(c) \/ EnterTimeline(c)
    PROVE  \E k : LookStep(c, k)
<1>1. /\ call[c] \in Calls /\ call[c].at = "prompt" /\ CallInv(call[c], c)
      /\ MemoryStays /\ UNCHANGED lines
  BY CallType DEF Command, EnterTimeline, MemoryStays, memory
<1>2. Served
  BY DEF Command, EnterTimeline, Served, ShapeOK
<1>3. PICK k : /\ call' = [call EXCEPT ![c] = k]
               /\ k \in Calls /\ k.at \in {"follow", "unfollow", "list", "setStream"}
               /\ k.user1 = call[c].user1 /\ k.user2 = call[c].user2
  <2>1. CASE Command(c)
    <3>1. CASE Goto(c, "list")
      <4> DEFINE k == [call[c] EXCEPT !.at = "list"]
      <4>1. call' = [call EXCEPT ![c] = k]
        BY <3>1 DEF Goto
      <4>2. k \in Calls /\ k.at = "list" /\ k.user1 = call[c].user1 /\ k.user2 = call[c].user2
        BY <1>1, PlaceNames DEF Calls
      <4> QED  BY <4>1, <4>2
    <3>2. CASE ~Goto(c, "list")
      <4>1. PICK place \in {"follow", "unfollow"}, u \in Users :
              call' = [call EXCEPT ![c].at = place, ![c].name = u]
        BY <2>1, <3>2 DEF Command
      <4> DEFINE k == [call[c] EXCEPT !.at = place, !.name = u]
      <4>2. call' = [call EXCEPT ![c] = k]
        BY <4>1
      <4>3. k \in Calls /\ k.at = place /\ k.user1 = call[c].user1 /\ k.user2 = call[c].user2
        BY <1>1, PlaceNames DEF Calls
      <4> QED  BY <4>2, <4>3
    <3> QED  BY <3>1, <3>2
  <2>2. CASE EnterTimeline(c)
    <3> DEFINE k == [call[c] EXCEPT !.at = "setStream"]
    <3>1. call' = [call EXCEPT ![c] = k]
      BY <2>2 DEF EnterTimeline, Goto
    <3>2. k \in Calls /\ k.at = "setStream" /\ k.user1 = call[c].user1 /\ k.user2 = call[c].user2
      BY <1>1, PlaceNames DEF Calls
    <3> QED  BY <3>1, <3>2
  <2> QED  BY <2>1, <2>2
<1>4. CallInv(k, c)
  BY <1>1, <1>3 DEF CallInv, PairCalls, PostCalls
<1>5. Look(c, k)
  BY <1>1, <1>2, <1>3, <1>4 DEF Look, CallTo, Chatting, InTimeline
<1> QED  BY <1>1, <1>3, <1>5 DEF LookStep

-----------------------------------------------------------------------------
(***************************************************************************)
(* The steps that change an entry.                                         *)
(***************************************************************************)

\* The entry that a pointer of a call is to.
LEMMA CalledEntry ==
    ASSUME ShapeOK, NEW p, Placed(p)
    PROVE  /\ p[2] \in 1..Len(client_db)
           /\ client_db[p[2]] \in Entries
           /\ client_db[p[2]].client_following \in Seq(Places)
           /\ client_db[p[2]].client_followers \in Seq(Places)
<1>1. p[2] \in 1..Len(client_db)
  BY DEF Placed
<1> QED  BY <1>1, EntryType DEF Entries

\* A call that is between two changes of the vectors of a pair.
LEMMA PairCall ==
    ASSUME ShapeOK, PointersInv, NEW c \in Clients, call[c].at \in PairCalls
    PROVE  /\ call[c] \in Calls /\ IsOf(call[c].user1, c)
           /\ Placed(call[c].user1) /\ Placed(call[c].user2) /\ call[c].user1[1] = call[c].user2[1]
           /\ call[c].user1 \in Places /\ call[c].user2 \in Places
BY CallType DEF CallInv, IsOf, Calls

\* Follow or UnFollow returns.
LEMMA PairReturn ==
    ASSUME ShapeOK, PointersInv, NEW c \in Clients, Return(c)
    PROVE  CallTo(c, At("prompt")) /\ CallInv(At("prompt"), c) /\ At("prompt").at = "prompt"
BY AtType, AtInv, PlaceNames DEF CallTo, Return, PairCalls, PostCalls

\* Follow or UnFollow goes on to the other side of the pair.
LEMMA PairGoes ==
    ASSUME ShapeOK, PointersInv, NEW c \in Clients, call[c].at \in PairCalls,
           NEW place \in {"pushFollowers", "eraseFollowers"}, Goto(c, place),
           NEW k, k = [call[c] EXCEPT !.at = place]
    PROVE  /\ CallTo(c, k) /\ CallInv(k, c) /\ k.at = place
           /\ k.user1 = call[c].user1 /\ k.user2 = call[c].user2
<1>1. call[c] \in Calls /\ CallInv(call[c], c)
  BY CallType
<1>2. k \in Calls /\ k.at = place /\ k.user1 = call[c].user1 /\ k.user2 = call[c].user2
  BY <1>1, PlaceNames DEF Calls
<1>3. CallInv(k, c)
  BY <1>1, <1>2 DEF CallInv, PairCalls, PostCalls
<1> QED  BY <1>2, <1>3 DEF CallTo, Goto

\* Follow adds to the first user's vector.
LEMMA PushFollowingStep ==
    ASSUME ShapeOK, PointersInv, NEW c \in Clients, PushFollowing(c), ServiceLeaves
    PROVE  \E k, i, e : TouchStep(c, k, i, e)
<1> DEFINE p == call[c].user1
           q == call[c].user2
           i == p[2]
           e == [client_db[i] EXCEPT !.client_following = Append(client_db[i].client_following, q)]
           k == [call[c] EXCEPT !.at = "pushFollowers"]
<1>1. /\ call[c].at = "pushFollowing" /\ Goto(c, "pushFollowers") /\ Served /\ UNCHANGED lines
      /\ capacity' = capacity /\ generation' = generation
      /\ client_db' = [client_db EXCEPT ![i] = e]
  BY LeavesAreServed DEF PushFollowing
<1>2. Placed(p) /\ Placed(q) /\ q \in Places
  BY <1>1, PairCall DEF PairCalls
<1>3. CallTo(c, k) /\ CallInv(k, c) /\ k.at = "pushFollowers"
  BY <1>1, PairGoes DEF PairCalls
<1> HIDE DEF k
<1>4. /\ i \in 1..Len(client_db) /\ client_db[i] \in Entries
      /\ client_db[i].client_following \in Seq(Places)
  BY <1>2, CalledEntry
<1>5. /\ Append(client_db[i].client_following, q) \in Seq(Places)
      /\ ToSet(Append(client_db[i].client_following, q)) = ToSet(client_db[i].client_following) \cup {q}
  BY <1>2, <1>4, Appended
<1> HIDE DEF p, q, i
<1>6. /\ e \in Entries /\ e.username = client_db[i].username
      /\ e.connected = client_db[i].connected
      /\ e.following_file_size = client_db[i].following_file_size
      /\ e.client_following = Append(client_db[i].client_following, q)
      /\ e.client_followers = client_db[i].client_followers
      /\ e.stream = client_db[i].stream
  BY <1>4, <1>5 DEF Entries
<1>7. EntryTo(i, e)
  BY <1>1, <1>4, <1>6 DEF EntryTo
<1> HIDE DEF e
<1>8. \A r \in ToSet(e.client_following) \cup ToSet(e.client_followers) : Placed(r)
  BY <1>2, <1>4, <1>5, <1>6, EntryPlaced
<1>9. StreamKept(c, k, i, e) /\ CountKept(c, k, i, e)
  BY <1>1, <1>3, <1>6 DEF StreamKept, CountKept, Chatting, InTimeline
<1>10. PairMoves(c, k, i, e)
  BY <1>1, <1>6 DEF PairMoves, Pushed, p, q, i, k
<1>11. TouchStep(c, k, i, e)
  BY <1>1, <1>3, <1>6, <1>7, <1>8, <1>9, <1>10 DEF TouchStep
<1> QED  BY <1>11

\* Follow adds to the second user's vector.
LEMMA PushFollowersStep ==
    ASSUME ShapeOK, PointersInv, NEW c \in Clients, PushFollowers(c), ServiceLeaves
    PROVE  \E k, i, e : TouchStep(c, k, i, e)
<1> DEFINE p == call[c].user1
           q == call[c].user2
           i == q[2]
           e == [client_db[i] EXCEPT !.client_followers = Append(client_db[i].client_followers, p)]
           k == At("prompt")
<1>1. /\ call[c].at = "pushFollowers" /\ Return(c) /\ Served /\ UNCHANGED lines
      /\ capacity' = capacity /\ generation' = generation
      /\ client_db' = [client_db EXCEPT ![i] = e]
  BY LeavesAreServed DEF PushFollowers
<1>2. Placed(p) /\ Placed(q) /\ p \in Places
  BY <1>1, PairCall DEF PairCalls
<1>3. CallTo(c, k) /\ CallInv(k, c) /\ k.at = "prompt"
  BY <1>1, PairReturn
<1> HIDE DEF k
<1>4. /\ i \in 1..Len(client_db) /\ client_db[i] \in Entries
      /\ client_db[i].client_followers \in Seq(Places)
  BY <1>2, CalledEntry
<1>5. /\ Append(client_db[i].client_followers, p) \in Seq(Places)
      /\ ToSet(Append(client_db[i].client_followers, p)) = ToSet(client_db[i].client_followers) \cup {p}
  BY <1>2, <1>4, Appended
<1> HIDE DEF p, q, i
<1>6. /\ e \in Entries /\ e.username = client_db[i].username
      /\ e.connected = client_db[i].connected
      /\ e.following_file_size = client_db[i].following_file_size
      /\ e.client_following = client_db[i].client_following
      /\ e.client_followers = Append(client_db[i].client_followers, p)
      /\ e.stream = client_db[i].stream
  BY <1>4, <1>5 DEF Entries
<1>7. EntryTo(i, e)
  BY <1>1, <1>4, <1>6 DEF EntryTo
<1> HIDE DEF e
<1>8. \A r \in ToSet(e.client_following) \cup ToSet(e.client_followers) : Placed(r)
  BY <1>2, <1>4, <1>5, <1>6, EntryPlaced
<1>9. StreamKept(c, k, i, e) /\ CountKept(c, k, i, e)
  BY <1>1, <1>3, <1>6 DEF StreamKept, CountKept, Chatting, InTimeline
<1>10. PairMoves(c, k, i, e)
  BY <1>1, <1>6 DEF PairMoves, Pushed, p, q, i, k
<1>11. TouchStep(c, k, i, e)
  BY <1>1, <1>3, <1>6, <1>7, <1>8, <1>9, <1>10 DEF TouchStep
<1> QED  BY <1>11

\* What an erase is about to take out is there.
LEMMA NotAtTheEnd ==
    ASSUME NEW c \in Clients, ~Moved(c), ~EraseEnd(c)
    PROVE  /\ call[c].at = "eraseFollowing" =>
                call[c].user2 \in ToSet(client_db[call[c].user1[2]].client_following)
           /\ call[c].at = "eraseFollowers" =>
                call[c].user1 \in ToSet(client_db[call[c].user2[2]].client_followers)
BY DEF Moved, EraseEnd, Deref

\* UnFollow takes out of the first user's vector.
LEMMA EraseFollowingStep ==
    ASSUME ShapeOK, PointersInv, NEW c \in Clients, ~Moved(c), ~EraseEnd(c), EraseFollowing(c), ServiceLeaves
    PROVE  \E k, i, e : TouchStep(c, k, i, e)
<1> DEFINE p == call[c].user1
           q == call[c].user2
           i == p[2]
           e == [client_db[i] EXCEPT !.client_following = RemoveFirst(client_db[i].client_following, q)]
           k == [call[c] EXCEPT !.at = "eraseFollowers"]
<1>1. /\ call[c].at = "eraseFollowing" /\ Goto(c, "eraseFollowers") /\ Served /\ UNCHANGED lines
      /\ capacity' = capacity /\ generation' = generation
      /\ client_db' = [client_db EXCEPT ![i] = e]
  BY LeavesAreServed DEF EraseFollowing
<1>2. Placed(p) /\ Placed(q) /\ q \in Places
  BY <1>1, PairCall DEF PairCalls
<1>3. CallTo(c, k) /\ CallInv(k, c) /\ k.at = "eraseFollowers"
  BY <1>1, PairGoes DEF PairCalls
<1> HIDE DEF k
<1>4. /\ i \in 1..Len(client_db) /\ client_db[i] \in Entries
      /\ client_db[i].client_following \in Seq(Places)
      /\ q \in ToSet(client_db[i].client_following)
  BY <1>1, <1>2, CalledEntry, NotAtTheEnd
<1>5. /\ RemoveFirst(client_db[i].client_following, q) \in Seq(Places)
      /\ ToSet(RemoveFirst(client_db[i].client_following, q)) \subseteq ToSet(client_db[i].client_following)
  BY <1>4, RemovedFirst
<1> HIDE DEF p, q, i
<1>6. /\ e \in Entries /\ e.username = client_db[i].username
      /\ e.connected = client_db[i].connected
      /\ e.following_file_size = client_db[i].following_file_size
      /\ e.client_following = RemoveFirst(client_db[i].client_following, q)
      /\ e.client_followers = client_db[i].client_followers
      /\ e.stream = client_db[i].stream
  BY <1>4, <1>5 DEF Entries
<1>7. EntryTo(i, e)
  BY <1>1, <1>4, <1>6 DEF EntryTo
<1> HIDE DEF e
<1>8. \A r \in ToSet(e.client_following) \cup ToSet(e.client_followers) : Placed(r)
  BY <1>4, <1>5, <1>6, EntryPlaced
<1>9. StreamKept(c, k, i, e) /\ CountKept(c, k, i, e)
  BY <1>1, <1>3, <1>6 DEF StreamKept, CountKept, Chatting, InTimeline
<1>10. PairMoves(c, k, i, e)
  BY <1>1, <1>4, <1>6 DEF PairMoves, Pushed, p, q, i, k
<1>11. TouchStep(c, k, i, e)
  BY <1>1, <1>3, <1>6, <1>7, <1>8, <1>9, <1>10 DEF TouchStep
<1> QED  BY <1>11

\* UnFollow takes out of the second user's vector.
LEMMA EraseFollowersStep ==
    ASSUME ShapeOK, PointersInv, NEW c \in Clients, ~Moved(c), ~EraseEnd(c), EraseFollowers(c), ServiceLeaves
    PROVE  \E k, i, e : TouchStep(c, k, i, e)
<1> DEFINE p == call[c].user1
           q == call[c].user2
           i == q[2]
           e == [client_db[i] EXCEPT !.client_followers = RemoveFirst(client_db[i].client_followers, p)]
           k == At("prompt")
<1>1. /\ call[c].at = "eraseFollowers" /\ Return(c) /\ Served /\ UNCHANGED lines
      /\ capacity' = capacity /\ generation' = generation
      /\ client_db' = [client_db EXCEPT ![i] = e]
  BY LeavesAreServed DEF EraseFollowers
<1>2. Placed(p) /\ Placed(q) /\ p \in Places
  BY <1>1, PairCall DEF PairCalls
<1>3. CallTo(c, k) /\ CallInv(k, c) /\ k.at = "prompt"
  BY <1>1, PairReturn
<1> HIDE DEF k
<1>4. /\ i \in 1..Len(client_db) /\ client_db[i] \in Entries
      /\ client_db[i].client_followers \in Seq(Places)
      /\ p \in ToSet(client_db[i].client_followers)
  BY <1>1, <1>2, CalledEntry, NotAtTheEnd
<1>5. /\ RemoveFirst(client_db[i].client_followers, p) \in Seq(Places)
      /\ ToSet(RemoveFirst(client_db[i].client_followers, p)) \subseteq ToSet(client_db[i].client_followers)
  BY <1>4, RemovedFirst
<1> HIDE DEF p, q, i
<1>6. /\ e \in Entries /\ e.username = client_db[i].username
      /\ e.connected = client_db[i].connected
      /\ e.following_file_size = client_db[i].following_file_size
      /\ e.client_following = client_db[i].client_following
      /\ e.client_followers = RemoveFirst(client_db[i].client_followers, p)
      /\ e.stream = client_db[i].stream
  BY <1>4, <1>5 DEF Entries
<1>7. EntryTo(i, e)
  BY <1>1, <1>4, <1>6 DEF EntryTo
<1> HIDE DEF e
<1>8. \A r \in ToSet(e.client_following) \cup ToSet(e.client_followers) : Placed(r)
  BY <1>4, <1>5, <1>6, EntryPlaced
<1>9. StreamKept(c, k, i, e) /\ CountKept(c, k, i, e)
  BY <1>1, <1>3, <1>6 DEF StreamKept, CountKept, Chatting, InTimeline
<1>10. PairMoves(c, k, i, e)
  BY <1>1, <1>4, <1>6 DEF PairMoves, Pushed, p, q, i, k
<1>11. TouchStep(c, k, i, e)
  BY <1>1, <1>3, <1>6, <1>7, <1>8, <1>9, <1>10 DEF TouchStep
<1> QED  BY <1>11

\* The first message sets the stream of the user's entry.
LEMMA SetStreamStep ==
    ASSUME ShapeOK, MemoryInv, PointersInv, NEW c \in Clients, ~NoUser(c), SetStream(c), ServiceLeaves
    PROVE  \E k, i, e : TouchStep(c, k, i, e)
<1> DEFINE i == find_user(username[c])
           s == IF client_db[i].stream = NoStream THEN Stream(c) ELSE client_db[i].stream
           e == [client_db[i] EXCEPT !.stream = s]
           k == [call[c] EXCEPT !.at = "chatting", !.user1 = Pointer(username[c])]
<1>1. /\ call[c].at = "setStream" /\ Served /\ UNCHANGED lines
      /\ capacity' = capacity /\ generation' = generation
      /\ client_db' = [client_db EXCEPT ![i] = e]
      /\ call' = [call EXCEPT ![c] = k]
  BY LeavesAreServed DEF SetStream
<1>2. call[c] \in Calls /\ CallInv(call[c], c) /\ life[c] \in Nat
  BY CallType
<1>3. i # 0
  BY <1>1 DEF NoUser
<1>4. /\ i \in 1..Len(client_db) /\ client_db[i].username = username[c]
      /\ Pointer(username[c]) \in Places /\ Placed(Pointer(username[c])) /\ Pointer(username[c])[2] = i
  BY <1>3, FoundPlace
<1>5. /\ k \in Calls /\ k.at = "chatting" /\ k.user1 = Pointer(username[c])
      /\ k.user2 = call[c].user2
  BY <1>2, <1>4, PlaceNames DEF Calls
<1>6. CallInv(k, c)
  BY <1>1, <1>2, <1>4, <1>5 DEF CallInv, IsOf, PairCalls, PostCalls
<1> HIDE DEF i, k
<1>7. client_db[i] \in Entries
  BY <1>4, EntryType
<1>8. s \in {NoStream} \cup (Clients \X Nat)
  BY <1>2, <1>7 DEF Entries, Stream
<1> HIDE DEF s
<1>9. /\ e \in Entries /\ e.username = client_db[i].username
      /\ e.connected = client_db[i].connected
      /\ e.following_file_size = client_db[i].following_file_size
      /\ e.client_following = client_db[i].client_following
      /\ e.client_followers = client_db[i].client_followers
      /\ e.stream = s
  BY <1>7, <1>8 DEF Entries
<1>10. EntryTo(i, e) /\ CallTo(c, k)
  BY <1>1, <1>4, <1>5, <1>9 DEF EntryTo, CallTo
<1> HIDE DEF e
<1>11. \A r \in ToSet(e.client_following) \cup ToSet(e.client_followers) : Placed(r)
  BY <1>4, <1>9, EntryPlaced
<1>12. StreamSet(c, k, i, e)
  BY <1>4, <1>5, <1>9 DEF StreamSet, Chatting, InTimeline, s
<1>13. CountKept(c, k, i, e) /\ ListsKept(c, k, i, e)
  BY <1>1, <1>5, <1>9 DEF CountKept, ListsKept
<1>14. TouchStep(c, k, i, e)
  BY <1>1, <1>5, <1>6, <1>9, <1>10, <1>11, <1>12, <1>13 DEF TouchStep
<1> QED  BY <1>14

\* The line is counted in the follower's entry.
LEMMA CountStep ==
    ASSUME ShapeOK, PointersInv, NEW c \in Clients, Count(c), ServiceLeaves
    PROVE  \E k, i, e : TouchStep(c, k, i, e)
<1> DEFINE i == call[c].user2[2]
           n == client_db[i].following_file_size
           e == [client_db[i] EXCEPT !.following_file_size = n + 1]
           u == client_db[i].username
           k == [call[c] EXCEPT !.at = "append", !.name = u]
<1>1. /\ call[c].at = "count" /\ Served /\ UNCHANGED lines
      /\ capacity' = capacity /\ generation' = generation
      /\ client_db' = [client_db EXCEPT ![i] = e]
      /\ call' = [call EXCEPT ![c] = k]
  BY LeavesAreServed DEF Count, Deref
<1>2. call[c] \in Calls /\ CallInv(call[c], c)
  BY CallType
<1>3. Placed(call[c].user2)
  BY <1>1, <1>2 DEF CallInv
<1>4. i \in 1..Len(client_db) /\ client_db[i] \in Entries
  BY <1>3, CalledEntry
<1> HIDE DEF i
<1>5. u \in Users /\ n \in Nat
  BY <1>4 DEF Entries
<1> HIDE DEF n, u
<1>6. /\ k \in Calls /\ k.at = "append" /\ k.name = u
      /\ k.user1 = call[c].user1 /\ k.user2 = call[c].user2 /\ k.it = call[c].it
  BY <1>2, <1>5, PlaceNames DEF Calls
<1> HIDE DEF k
<1>7. CallInv(k, c)
  BY <1>1, <1>2, <1>5, <1>6 DEF CallInv, PairCalls, PostCalls
<1>8. /\ e \in Entries /\ e.username = u
      /\ e.connected = client_db[i].connected
      /\ e.following_file_size = n + 1
      /\ e.client_following = client_db[i].client_following
      /\ e.client_followers = client_db[i].client_followers
      /\ e.stream = client_db[i].stream
  <2>1. n + 1 \in Nat
    BY <1>5
  <2> QED  BY <1>4, <2>1 DEF Entries, u
<1>9. EntryTo(i, e) /\ CallTo(c, k)
  BY <1>1, <1>4, <1>6, <1>8 DEF EntryTo, CallTo
<1> HIDE DEF e
<1>10. \A r \in ToSet(e.client_following) \cup ToSet(e.client_followers) : Placed(r)
  BY <1>4, <1>8, EntryPlaced
<1>11. StreamKept(c, k, i, e) /\ ListsKept(c, k, i, e)
  BY <1>1, <1>6, <1>8 DEF StreamKept, ListsKept, Chatting, InTimeline
<1>12. CountedUp(c, k, i, e)
  BY <1>1, <1>6, <1>8 DEF CountedUp, n
<1>13. TouchStep(c, k, i, e)
  BY <1>1, <1>6, <1>7, <1>8, <1>9, <1>10, <1>11, <1>12 DEF TouchStep, u
<1> QED  BY <1>13

-----------------------------------------------------------------------------
\* The kinds of what a client's call does.
ServeKind(c) ==
    \/ \E k : LookStep(c, k)
    \/ \E k : WriteStep(c, k)
    \/ \E k, i, e : TouchStep(c, k, i, e)
    \/ EnterStep(c)

\* A step of the service is of one of the kinds, or is a kill, the end of a call,
\* a restart, or undefined.
LEMMA Kinds ==
    ASSUME ShapeOK, MemoryInv, PointersInv, ServiceNext
    PROVE  /\ wild = "no"
           /\ \/ \E c \in Clients : ServeKind(c) \/ Kill(c) \/ Misbehave(c)
              \/ \E e \in ending : EndTimeline(e)
              \/ Restart
<1>1. CASE \E c \in Clients : Run(c)
  <2>1. PICK c \in Clients : Run(c)
    BY <1>1
  <2>2. ASSUME ~Faulty(c) /\ Serve(c) /\ ServiceLeaves
        PROVE  ServeKind(c)
    <3>1. ~NoUser(c) /\ ~Moved(c) /\ ~EraseEnd(c)
      BY <2>2 DEF Faulty
    <3>2. CASE LoginFind(c)
      BY <2>2, <3>2, LoginFindStep DEF ServeKind
    <3>3. CASE LoginPush(c)
      BY <2>2, <3>3, LoginPushStep DEF ServeKind
    <3>4. CASE Follow(c) \/ UnFollow(c) \/ List(c) \/ Deliver(c)
      BY <2>2, <3>1, <3>4, FollowStep, UnFollowStep, ListStep, DeliverStep DEF ServeKind
    <3>5. CASE PushFollowing(c) \/ PushFollowers(c)
      BY <2>2, <3>5, PushFollowingStep, PushFollowersStep DEF ServeKind
    <3>6. CASE EraseFollowing(c) \/ EraseFollowers(c)
      BY <2>2, <3>1, <3>6, EraseFollowingStep, EraseFollowersStep DEF ServeKind
    <3>7. CASE SetStream(c) \/ Count(c)
      BY <2>2, <3>1, <3>7, SetStreamStep, CountStep DEF ServeKind
    <3>8. CASE AppendLine(c)
      BY <2>2, <3>8, AppendLineStep DEF ServeKind
    <3> QED  BY <2>2, <3>2, <3>3, <3>4, <3>5, <3>6, <3>7, <3>8 DEF Serve
  <2>3. ASSUME Command(c) \/ EnterTimeline(c) PROVE ServeKind(c)
    BY <2>3, PromptStep DEF ServeKind
  <2>4. ASSUME SendPost(c) PROVE ServeKind(c)
    <3>1. ~NoUser(c) /\ Post(c) /\ Served
      BY <2>4 DEF SendPost, Faulty, Served, ShapeOK
    <3> QED  BY <3>1, PostStep DEF ServeKind
  <2>5. ServeKind(c) \/ Kill(c) \/ Misbehave(c)
    BY <2>1, <2>2, <2>3, <2>4 DEF Run, ServiceLeaves
  <2> QED  BY <2>5 DEF ServiceNext
<1>2. CASE ~ \E c \in Clients : Run(c)
  BY <1>2 DEF ServiceNext
<1> QED  BY <1>1, <1>2

\* What a kill does.
KillStep(c) ==
    /\ call[c].at \in {"prompt", "stuck", "setStream", "chatting"}
    /\ CallTo(c, At("login")) /\ MemoryStays /\ UNCHANGED <<lines, username, restarts, wild>>
    /\ life' = [life EXCEPT ![c] = life[c] + 1]
    /\ left' \in Nat /\ left' = left - 1
    /\ \/ ending' = ending
       \/ /\ call[c].at \in {"setStream", "chatting"}
          /\ ending' = ending \cup {[stream |-> Stream(c), c |-> call[c].user1]}

\* A client is killed: a new life, and a call that the server has yet to end.
LEMMA KillEffect ==
    ASSUME ShapeOK, NEW c \in Clients, Kill(c)
    PROVE  KillStep(c)
<1>1. CallTo(c, At("login"))
  BY AtType, PlaceNames DEF Kill, CallTo
<1>2. left' \in Nat /\ left' = left - 1
  BY DEF Kill, ShapeOK
<1> QED  BY <1>1, <1>2 DEF KillStep, Kill, MemoryStays, memory

\* What the end of a call does.
EndStep(e) ==
    /\ UNCHANGED <<lines, username, life, call, left, restarts>>
    /\ ending' = ending \ {e}
    /\ \/ /\ MemoryStays
          /\ \/ wild' = "unset"
             \/ wild' = "moved" /\ e.c # NoPointer /\ ~Valid(e.c)
       \/ /\ e.c # NoPointer
          /\ EntryTo(e.c[2], [client_db[e.c[2]] EXCEPT !.connected = FALSE])
          /\ wild' = wild

\* The server ends the call of a killed client.
LEMMA EndEffect ==
    ASSUME ShapeOK, PointersInv, NEW e \in ending, EndTimeline(e)
    PROVE  EndStep(e)
<1>1. CASE e.c = NoPointer \/ ~Valid(e.c)
  BY <1>1 DEF EndTimeline, EndStep, MemoryStays, Undefined
<1>2. CASE e.c # NoPointer /\ Valid(e.c)
  <2> DEFINE i == e.c[2]
             f == [client_db[i] EXCEPT !.connected = FALSE]
  <2>1. Placed(e.c)
    BY <1>2 DEF PointersInv, IsOf
  <2>2. i \in 1..Len(client_db) /\ client_db[i] \in Entries
    BY <2>1, CalledEntry
  <2>3. f \in Entries
    BY <2>2 DEF Entries
  <2>4. client_db' = [client_db EXCEPT ![i] = f] /\ wild' = wild
    BY <1>2 DEF EndTimeline
  <2>5. EntryTo(i, f)
    BY <2>2, <2>3, <2>4 DEF EntryTo, EndTimeline
  <2> QED  BY <1>2, <2>4, <2>5 DEF EndTimeline, EndStep
<1> QED  BY <1>1, <1>2

-----------------------------------------------------------------------------
(***************************************************************************)
(* Shape and memory.                                                       *)
(***************************************************************************)
LEMMA AppendedName ==
    ASSUME ShapeOK, PointersInv, NEW c \in Clients, call[c].at = "append"
    PROVE  call[c].name \in Users /\ lines[call[c].name] \in Nat
BY CallType DEF CallInv, ShapeOK

\* The two bounds are numbers.
LEMMA BoundTypes == Window \in Nat /\ MaxEvents \in Nat
BY ServiceAssumption

\* No event is lost while lives stay and the events left go down.
LEMMA EventsStay ==
    ASSUME ShapeOK, MemoryInv, life' = life, left' \in Nat, left' <= left
    PROVE  \A c \in Clients : life'[c] + left' <= MaxEvents
<1> SUFFICES ASSUME NEW c \in Clients PROVE life[c] + left' <= MaxEvents
  OBVIOUS
<1>1. life[c] \in Nat /\ left \in Nat /\ life[c] + left <= MaxEvents
  BY DEF ShapeOK, MemoryInv
<1> QED  BY <1>1, BoundTypes

\* Every step keeps the shape and the bounds of the vector's memory.
LEMMA ShapeStays ==
    ASSUME ShapeOK, MemoryInv, PointersInv, ServiceNext
    PROVE  ShapeOK' /\ MemoryInv'
<1>1. ASSUME NEW c \in Clients, NEW k, Look(c, k), lines' \in [Users -> Nat]
      PROVE  ShapeOK' /\ MemoryInv'
  <2>1. call' \in [Clients -> Calls]
    BY <1>1, CallChanged DEF Look
  <2>2. ShapeOK'
    BY <1>1, <2>1 DEF Look, Served, ShapeOK, MemoryStays
  <2> QED  BY <1>1, <2>2, EventsStay DEF Look, Served, MemoryInv, MemoryStays
<1>2. ASSUME NEW c \in Clients, NEW k, NEW i, NEW e, TouchStep(c, k, i, e)
      PROVE  ShapeOK' /\ MemoryInv'
  <2>1. call' \in [Clients -> Calls]
    BY <1>2, CallChanged DEF TouchStep
  <2>2. /\ client_db' \in Seq(Entries) /\ Len(client_db') = Len(client_db)
        /\ capacity' = capacity /\ generation' = generation
    BY <1>2, EntryChanged DEF TouchStep
  <2>3. ShapeOK'
    BY <1>2, <2>1, <2>2 DEF TouchStep, Served, ShapeOK
  <2> QED  BY <1>2, <2>2, <2>3, EventsStay DEF TouchStep, Served, MemoryInv
<1>3. ASSUME NEW c \in Clients, EnterStep(c)
      PROVE  ShapeOK' /\ MemoryInv'
  <2>1. call' \in [Clients -> Calls]
    BY <1>3, CallChanged DEF EnterStep
  <2>2. ShapeOK'
    BY <1>3, <2>1 DEF EnterStep, Served, ShapeOK
  <2> QED  BY <1>3, <2>2, EventsStay DEF EnterStep, Served, MemoryInv
<1>4. ASSUME NEW c \in Clients, KillStep(c)
      PROVE  ShapeOK' /\ MemoryInv'
  <2>1. call' \in [Clients -> Calls]
    BY <1>4, CallChanged DEF KillStep
  <2>2. life' \in [Clients -> Nat] /\ life'[c] = life[c] + 1 /\ \A d \in Clients \ {c} : life'[d] = life[d]
    BY <1>4 DEF KillStep, ShapeOK
  <2>3. ending' \subseteq [stream : Clients \X Nat, c : Places]
    <3>1. Stream(c) \in Clients \X Nat /\ call[c].user1 \in Places
      BY DEF Stream, ShapeOK, Calls
    <3>2. [stream |-> Stream(c), c |-> call[c].user1] \in [stream : Clients \X Nat, c : Places]
      BY <3>1
    <3>3. ending \subseteq [stream : Clients \X Nat, c : Places]
      BY DEF ShapeOK
    <3>4. CASE ending' = ending
      BY <3>3, <3>4
    <3>5. CASE ending' = ending \cup {[stream |-> Stream(c), c |-> call[c].user1]}
      BY <3>2, <3>3, <3>5
    <3> QED  BY <1>4, <3>4, <3>5 DEF KillStep
  <2>4. ShapeOK'
    BY <1>4, <2>1, <2>2, <2>3 DEF KillStep, ShapeOK, MemoryStays
  <2>5. \A d \in Clients : life'[d] + left' <= MaxEvents
    <3> SUFFICES ASSUME NEW d \in Clients PROVE life'[d] + left' <= MaxEvents
      OBVIOUS
    <3>1. life[d] \in Nat /\ life[d] + left <= MaxEvents /\ left \in Nat
      BY DEF ShapeOK, MemoryInv
    <3>2. left' \in Nat /\ left' = left - 1 /\ life'[d] \in Nat
          /\ (life'[d] = life[d] \/ life'[d] = life[d] + 1)
      BY <1>4, <2>2 DEF KillStep
    <3> QED  BY <3>1, <3>2, BoundTypes
  <2> QED  BY <1>4, <2>4, <2>5 DEF KillStep, MemoryInv, MemoryStays
<1>5. ASSUME NEW e \in ending, EndStep(e)
      PROVE  ShapeOK' /\ MemoryInv'
  BY <1>5, EntryChanged DEF EndStep, MemoryStays, ShapeOK, MemoryInv, Undefined
<1>6. ASSUME Restart
      PROVE  ShapeOK' /\ MemoryInv'
  <2>1. call' \in [Clients -> Calls]
    BY <1>6, AtType, PlaceNames DEF Restart, ShapeOK
  <2>2. client_db' \in Seq(Entries) /\ Len(client_db') = 0
    BY <1>6 DEF Restart
  <2>3. left' \in Nat /\ left' <= left
    BY <1>6 DEF Restart, ShapeOK
  <2>4. ShapeOK'
    BY <1>6, <2>1, <2>2, <2>3 DEF Restart, ShapeOK
  <2>5. \A c \in Clients : life'[c] + left' <= MaxEvents
    BY <1>6, <2>3, EventsStay DEF Restart
  <2>6. capacity' = 0 /\ generation' = 0
    BY <1>6 DEF Restart
  <2>7. Len(client_db') <= capacity' /\ capacity' <= 2 * Len(client_db') /\ ~(capacity' > 0)
    BY <2>2, <2>6
  <2> QED  BY <2>4, <2>5, <2>7 DEF MemoryInv
<1>7. ASSUME NEW c \in Clients, Misbehave(c)
      PROVE  ShapeOK' /\ MemoryInv'
  BY <1>7 DEF Misbehave, ShapeOK, MemoryInv, Undefined, memory
<1>8. ASSUME NEW c \in Clients, ServeKind(c)
      PROVE  ShapeOK' /\ MemoryInv'
  <2>1. CASE \E k : LookStep(c, k)
    BY <1>1, <2>1 DEF LookStep, ShapeOK
  <2>2. CASE \E k : WriteStep(c, k)
    <3>1. PICK k : WriteStep(c, k)
      BY <2>2
    <3>2. lines' \in [Users -> Nat]
      <4>1. call[c].name \in Users /\ lines[call[c].name] \in Nat
        BY <3>1, AppendedName DEF WriteStep
      <4> QED  BY <3>1, <4>1 DEF WriteStep, ShapeOK
    <3> QED  BY <1>1, <3>1, <3>2 DEF WriteStep
  <2> QED  BY <1>2, <1>3, <1>8, <2>1, <2>2 DEF ServeKind
<1> QED  BY <1>4, <1>5, <1>6, <1>7, <1>8, Kinds, KillEffect, EndEffect

-----------------------------------------------------------------------------
(***************************************************************************)
(* Pointers stay what they are, as long as the server runs.                *)
(***************************************************************************)
MemoryGrows ==
    /\ username' = username
    /\ generation \in Nat /\ generation' \in Nat /\ generation <= generation'
    /\ Len(client_db) \in Nat /\ Len(client_db') \in Nat /\ Len(client_db) <= Len(client_db')
    /\ DOMAIN client_db = 1..Len(client_db) /\ DOMAIN client_db' = 1..Len(client_db')
    /\ \A i \in 1..Len(client_db) : client_db'[i].username = client_db[i].username

\* Memory that stays as it was has grown by nothing.
LEMMA StaysGrows ==
    ASSUME ShapeOK, MemoryStays, username' = username
    PROVE  MemoryGrows
BY DEF ShapeOK, MemoryStays, MemoryGrows

\* A change to an entry moves nothing.
LEMMA EntryGrows ==
    ASSUME ShapeOK, NEW i, NEW e, EntryTo(i, e), e.username = client_db[i].username, username' = username
    PROVE  MemoryGrows
<1>1. Len(client_db) \in Nat /\ generation \in Nat
  BY DEF ShapeOK
<1>2. /\ Len(client_db') = Len(client_db) /\ generation' = generation
      /\ DOMAIN client_db = 1..Len(client_db) /\ DOMAIN client_db' = 1..Len(client_db)
      /\ client_db'[i] = e /\ \A j \in 1..Len(client_db) : j # i => client_db'[j] = client_db[j]
  BY EntryChanged
<1> QED  BY <1>1, <1>2 DEF MemoryGrows

\* A new entry may move the vector, and is put at its end.
LEMMA EnterGrows ==
    ASSUME ShapeOK, NEW c \in Clients, EnterStep(c)
    PROVE  MemoryGrows
<1>1. Len(client_db) \in Nat /\ generation \in Nat
  BY DEF ShapeOK
<1>2. /\ Len(client_db') = Len(client_db) + 1 /\ generation' \in Nat /\ generation <= generation'
      /\ DOMAIN client_db = 1..Len(client_db) /\ DOMAIN client_db' = 1..(Len(client_db) + 1)
      /\ \A i \in 1..Len(client_db) : client_db'[i] = client_db[i]
      /\ username' = username
  BY <1>1 DEF EnterStep, Served
<1> QED  BY <1>1, <1>2 DEF MemoryGrows

\* Whatever the service does, the memory grows or stays.
LEMMA ServeGrows ==
    ASSUME ShapeOK, NEW c \in Clients, ServeKind(c)
    PROVE  MemoryGrows
BY StaysGrows, EntryGrows, EnterGrows DEF ServeKind, LookStep, WriteStep, Look, TouchStep, Served

\* The end of a killed client's call moves nothing.
LEMMA EndGrows ==
    ASSUME ShapeOK, PointersInv, NEW e \in ending, EndStep(e)
    PROVE  MemoryGrows
<1>1. CASE MemoryStays
  BY <1>1, StaysGrows DEF EndStep
<1>2. CASE ~MemoryStays
  <2> DEFINE i == e.c[2]
             f == [client_db[i] EXCEPT !.connected = FALSE]
  <2>1. EntryTo(i, f) /\ username' = username
    BY <1>2 DEF EndStep
  <2>2. client_db[i] \in Entries
    BY <2>1, EntryType DEF EntryTo
  <2>3. f.username = client_db[i].username
    BY <2>2 DEF Entries
  <2> HIDE DEF i, f
  <2> QED  BY <2>1, <2>3, EntryGrows
<1> QED  BY <1>1, <1>2

\* Pointers stay placed, and to entries of the same user, while the memory grows.
LEMMA StillPlaced ==
    ASSUME MemoryGrows, NEW p
    PROVE  /\ Placed(p) => Placed(p)'
           /\ \A c : IsOf(p, c) => IsOf(p, c)'
<1>1. Placed(p) => Placed(p)' /\ p[2] \in 1..Len(client_db)
  BY DEF MemoryGrows, Placed
<1> QED  BY <1>1 DEF MemoryGrows, IsOf

\* So do the pointers of a call.
LEMMA StillInv ==
    ASSUME MemoryGrows, NEW c, NEW k, CallInv(k, c)
    PROVE  CallInv(k, c)'
BY StillPlaced DEF CallInv

\* The pointers of all calls, when one of them moves.
LEMMA CallsStay ==
    ASSUME ShapeOK, PointersInv, MemoryGrows,
           NEW c \in Clients, NEW k, CallTo(c, k), CallInv(k, c)
    PROVE  \A d \in Clients : CallInv(call[d], d)'
<1> SUFFICES ASSUME NEW d \in Clients PROVE CallInv(call[d], d)'
  OBVIOUS
<1>1. PICK l : l = call'[d] /\ CallInv(l, d)
  BY CallChanged DEF PointersInv
<1>2. CallInv(l, d)'
  BY <1>1, StillInv
<1> QED  BY <1>1, <1>2 DEF CallInv, IsOf, Placed

\* The pointers of the calls that are ending.
LEMMA EndingStays ==
    ASSUME PointersInv, MemoryGrows, ending' \subseteq ending
    PROVE  \A e \in ending' : e.c = NoPointer \/ IsOf(e.c, e.stream[1])'
BY StillPlaced DEF PointersInv

\* The pointers of an entry that stays as it was.
LEMMA EntriesStay ==
    ASSUME ShapeOK, PointersInv, MemoryGrows,
           NEW i \in 1..Len(client_db), client_db'[i] = client_db[i]
    PROVE  \A p \in ToSet(client_db'[i].client_followers) \cup ToSet(client_db'[i].client_following) : Placed(p)'
BY StillPlaced, EntryPlaced

\* Every step keeps the pointers placed.
LEMMA PointersStay ==
    ASSUME ShapeOK, MemoryInv, PointersInv, ServiceNext
    PROVE  PointersInv'
<1> DEFINE EntryOK(i) ==
             \A p \in ToSet(client_db'[i].client_followers) \cup ToSet(client_db'[i].client_following) : Placed(p)'
           EndingOK == \A e \in ending' : e.c = NoPointer \/ IsOf(e.c, e.stream[1])'
           CallsOK == \A d \in Clients : CallInv(call[d], d)'
<1>1. ASSUME \A i \in DOMAIN client_db' : EntryOK(i), CallsOK, EndingOK
      PROVE  PointersInv'
  BY <1>1 DEF PointersInv
<1> HIDE DEF CallsOK, EndingOK
<1>2. ASSUME NEW c \in Clients, ServeKind(c)
      PROVE  PointersInv'
  <2>1. MemoryGrows /\ EndingOK
    <3>1. ending' = ending
      BY <1>2 DEF ServeKind, LookStep, WriteStep, Look, TouchStep, EnterStep, Served
    <3> QED  BY <1>2, <3>1, ServeGrows, EndingStays DEF EndingOK
  <2>2. CallsOK
    <3>1. PICK k : CallTo(c, k) /\ CallInv(k, c)
      BY <1>2, AtInv, PlaceNames
         DEF ServeKind, LookStep, WriteStep, Look, TouchStep, EnterStep, PairCalls, PostCalls
    <3> QED  BY <2>1, <3>1, CallsStay DEF CallsOK
  <2>3. \A i \in DOMAIN client_db' : EntryOK(i)
    <3>1. CASE MemoryStays
      BY <2>1, <3>1, EntriesStay DEF MemoryStays, MemoryGrows
    <3>2. ASSUME NEW k, NEW j, NEW f, TouchStep(c, k, j, f)
          PROVE  \A i \in DOMAIN client_db' : EntryOK(i)
      <4>1. EntryTo(j, f) /\ \A p \in ToSet(f.client_following) \cup ToSet(f.client_followers) : Placed(p)
        BY <3>2 DEF TouchStep
      <4>2. EntryOK(j)
        BY <2>1, <4>1, EntryChanged, StillPlaced
      <4>3. ASSUME NEW i \in 1..Len(client_db), i # j PROVE EntryOK(i)
        BY <2>1, <4>1, <4>3, EntryChanged, EntriesStay
      <4> QED  BY <4>1, <4>2, <4>3, EntryChanged
    <3>3. CASE EnterStep(c)
      <4>1. /\ \A i \in 1..Len(client_db) : client_db'[i] = client_db[i]
            /\ client_db'[Len(client_db) + 1] = Entry(username[c])
            /\ DOMAIN client_db' = 1..(Len(client_db) + 1) /\ Len(client_db) \in Nat
        BY <2>1, <3>3 DEF EnterStep, MemoryGrows
      <4>2. EntryOK(Len(client_db) + 1)
        BY <4>1 DEF Entry, ToSet
      <4>3. ASSUME NEW i \in 1..Len(client_db) PROVE EntryOK(i)
        BY <2>1, <4>1, EntriesStay
      <4>4. \A i \in 1..(Len(client_db) + 1) : i \in 1..Len(client_db) \/ i = Len(client_db) + 1
        BY <4>1
      <4> HIDE DEF EntryOK
      <4> QED  BY <4>1, <4>2, <4>3, <4>4
    <3> HIDE DEF EntryOK
    <3> QED  BY <1>2, <3>1, <3>2, <3>3 DEF ServeKind, LookStep, WriteStep, Look
  <2> QED  BY <1>1, <2>1, <2>2, <2>3
<1>3. ASSUME NEW c \in Clients, KillStep(c)
      PROVE  PointersInv'
  <2>1. MemoryGrows
    BY <1>3, StaysGrows DEF KillStep
  <2>2. CallsOK
    <3>1. CallTo(c, At("login")) /\ CallInv(At("login"), c)
      BY <1>3, AtInv, PlaceNames DEF KillStep, PairCalls, PostCalls
    <3> QED  BY <2>1, <3>1, CallsStay DEF CallsOK
  <2>3. \A i \in DOMAIN client_db' : EntryOK(i)
    BY <1>3, <2>1, EntriesStay DEF KillStep, MemoryStays, MemoryGrows
  <2>4. EndingOK
    <3>1. CASE ending' = ending
      BY <2>1, <3>1, EndingStays DEF EndingOK
    <3>2. CASE ending' # ending
      <4>1. /\ call[c].at \in {"setStream", "chatting"}
            /\ ending' = ending \cup {[stream |-> Stream(c), c |-> call[c].user1]}
        BY <1>3, <3>2 DEF KillStep
      <4>2. call[c].user1 = NoPointer \/ IsOf(call[c].user1, c)
        BY <4>1, CallType DEF CallInv
      <4>3. PICK p : p = call[c].user1 /\ (p = NoPointer \/ IsOf(p, c)')
        BY <2>1, <4>2, StillPlaced
      <4>4. \A e \in ending : e.c = NoPointer \/ IsOf(e.c, e.stream[1])'
        BY <2>1, StillPlaced DEF PointersInv
      <4>5. Stream(c)[1] = c
        BY DEF Stream
      <4> QED  BY <4>1, <4>3, <4>4, <4>5 DEF EndingOK
    <3> QED  BY <3>1, <3>2
  <2> QED  BY <1>1, <2>2, <2>3, <2>4
<1>4. ASSUME NEW e \in ending, EndStep(e)
      PROVE  PointersInv'
  <2>1. MemoryGrows /\ EndingOK
    BY <1>4, EndGrows, EndingStays DEF EndingOK, EndStep
  <2>2. CallsOK
    <3> SUFFICES ASSUME NEW d \in Clients PROVE CallInv(call[d], d)'
      BY DEF CallsOK
    <3>1. PICK l : l = call[d] /\ l = call'[d] /\ CallInv(l, d)
      BY <1>4 DEF PointersInv, EndStep
    <3>2. CallInv(l, d)'
      BY <2>1, <3>1, StillInv
    <3> QED  BY <3>1, <3>2 DEF CallInv, IsOf, Placed
  <2>3. \A i \in DOMAIN client_db' : EntryOK(i)
    <3>1. CASE MemoryStays
      BY <2>1, <3>1, EntriesStay DEF MemoryStays, MemoryGrows
    <3>2. CASE ~MemoryStays
      <4> DEFINE j == e.c[2]
                 f == [client_db[j] EXCEPT !.connected = FALSE]
      <4>1. EntryTo(j, f)
        BY <1>4, <3>2 DEF EndStep
      <4>2. client_db[j] \in Entries /\ j \in 1..Len(client_db)
        BY <4>1, EntryType DEF EntryTo
      <4>3. /\ f.client_following = client_db[j].client_following
            /\ f.client_followers = client_db[j].client_followers
        BY <4>2 DEF Entries
      <4> HIDE DEF j, f
      <4>4. EntryOK(j)
        BY <2>1, <4>1, <4>2, <4>3, EntryChanged, EntryPlaced, StillPlaced
      <4>5. ASSUME NEW i \in 1..Len(client_db), i # j PROVE EntryOK(i)
        BY <2>1, <4>1, <4>5, EntryChanged, EntriesStay
      <4> QED  BY <4>1, <4>4, <4>5, EntryChanged
    <3> QED  BY <3>1, <3>2
  <2> QED  BY <1>1, <2>1, <2>2, <2>3
<1>5. ASSUME Restart
      PROVE  PointersInv'
  <2>1. \A i \in DOMAIN client_db' : EntryOK(i)
    BY <1>5 DEF Restart
  <2>2. EndingOK
    BY <1>5 DEF Restart, EndingOK
  <2>3. CallsOK
    <3> SUFFICES ASSUME NEW d \in Clients PROVE CallInv(call[d], d)'
      BY DEF CallsOK
    <3>1. call'[d] = At("login") \/ call'[d] = At("stuck")
            \/ (call'[d] = call[d] /\ call[d].at \in {"prompt", "stuck"})
      BY <1>5, CallType DEF Restart, Calls
    <3>2. call'[d].at \in {"login", "prompt", "stuck"}
          /\ call'[d].user1 = NoPointer /\ call'[d].user2 = NoPointer
      BY <3>1, CallType, AtType, PlaceNames DEF CallInv, PairCalls, PostCalls
    <3> QED  BY <3>2 DEF CallInv, PairCalls, PostCalls
  <2> QED  BY <1>1, <2>1, <2>2, <2>3
<1>6. ASSUME NEW c \in Clients, Misbehave(c)
      PROVE  PointersInv'
  BY <1>6 DEF Misbehave, memory, PointersInv, CallInv, IsOf, Placed
<1> QED  BY <1>2, <1>3, <1>4, <1>5, <1>6, Kinds, KillEffect, EndEffect

-----------------------------------------------------------------------------
(***************************************************************************)
(* Who has an entry.                                                       *)
(***************************************************************************)
SameUsers == MemoryGrows /\ Len(client_db') = Len(client_db)

HasEntry(u) == \E i \in DOMAIN client_db : client_db[i].username = u

\* Steps that leave the memory alone leave the users of the entries alone.
LEMMA LookSame ==
    ASSUME ShapeOK, MemoryStays, username' = username
    PROVE  SameUsers
BY StaysGrows DEF SameUsers, MemoryStays

\* So do those that change an entry.
LEMMA TouchSame ==
    ASSUME ShapeOK, NEW c, NEW k, NEW i, NEW e, TouchStep(c, k, i, e)
    PROVE  SameUsers
BY EntryGrows, EntryChanged DEF TouchStep, Served, SameUsers

\* So does the end of a killed client's call.
LEMMA EndSame ==
    ASSUME ShapeOK, PointersInv, NEW e \in ending, EndStep(e)
    PROVE  SameUsers
<1>1. MemoryGrows
  BY EndGrows
<1>2. Len(client_db') = Len(client_db)
  BY EntryChanged DEF EndStep, MemoryStays
<1> QED  BY <1>1, <1>2 DEF SameUsers

\* An entry of a user stays one.
LEMMA EntriesAreKept ==
    ASSUME MemoryGrows, NEW u, HasEntry(u)
    PROVE  HasEntry(u)'
BY DEF MemoryGrows, HasEntry

\* A user without an entry stays without one, unless one is entered.
LEMMA NoneIsAdded ==
    ASSUME SameUsers, NEW u, NoEntry(u)
    PROVE  NoEntry(u)'
BY DEF SameUsers, MemoryGrows, NoEntry

\* Whether a client has twins is settled by the users the clients log in.
LEMMA AloneStays ==
    ASSUME username' = username
    PROVE  \A c : Alone(c)' <=> Alone(c)
BY DEF Alone

\* LoginInv, by client.
LoginOK(c) ==
    /\ call[c].at = "push" /\ Alone(c) => NoEntry(username[c])
    /\ restarts = 0 /\ call[c].at \notin {"login", "push"} => HasEntry(username[c])

\* LoginInv says the same of each client.
LEMMA LoginByClient == LoginInv <=> \A c \in Clients : LoginOK(c)
BY DEF LoginInv, LoginOK, NoEntry, HasEntry

\* The calls of others, and of a client that keeps its place.
LEMMA LoginKept ==
    ASSUME SameUsers, restarts' = restarts, NEW c, LoginOK(c), call'[c].at = call[c].at
    PROVE  LoginOK(c)'
<1>1. username' = username
  BY DEF SameUsers, MemoryGrows
<1>2. PICK u : u = username[c] /\ u = username'[c]
  BY <1>1
<1>3. NoEntry(u) => NoEntry(u)'
  BY NoneIsAdded
<1>4. HasEntry(u) => HasEntry(u)'
  BY EntriesAreKept DEF SameUsers
<1>5. Alone(c)' <=> Alone(c)
  BY <1>1, AloneStays
<1> QED  BY <1>2, <1>3, <1>4, <1>5 DEF LoginOK, NoEntry, HasEntry

\* Every step keeps LoginInv.
LEMMA LoginStays ==
    ASSUME ShapeOK, MemoryInv, PointersInv, LoginInv, ServiceNext
    PROVE  LoginInv'
<1>1. \A c \in Clients : LoginOK(c)
  BY LoginByClient
<1>2. ASSUME \A c \in Clients : LoginOK(c)' PROVE LoginInv'
  BY <1>2 DEF LoginInv, LoginOK, NoEntry, HasEntry
<1>3. ASSUME NEW c \in Clients, NEW k, Look(c, k)
      PROVE  LoginInv'
  <2>1. SameUsers /\ restarts' = restarts /\ username' = username
    BY <1>3, LookSame DEF Look, Served
  <2>2. call'[c] = k /\ \A d \in Clients \ {c} : call'[d] = call[d]
    BY <1>3, CallChanged DEF Look
  <2>3. ASSUME NEW d \in Clients, d # c PROVE LoginOK(d)'
    BY <1>1, <2>1, <2>2, <2>3, LoginKept
  <2>4. LoginOK(c)'
    <3>1. k.at = "push" => NoEntry(username[c])
      BY <1>3 DEF Look
    <3>2. restarts = 0 /\ k.at \notin {"login", "push"} => HasEntry(username[c])
      BY <1>1, <1>3 DEF Look, LoginOK
    <3>3. PICK u : u = username[c] /\ u = username'[c]
      BY <2>1
    <3>4. k.at = "push" => NoEntry(u)'
      BY <2>1, <3>1, <3>3, NoneIsAdded
    <3>5. restarts = 0 /\ k.at \notin {"login", "push"} => HasEntry(u)'
      BY <2>1, <3>2, <3>3, EntriesAreKept DEF SameUsers
    <3> QED  BY <2>1, <2>2, <3>3, <3>4, <3>5 DEF LoginOK, NoEntry, HasEntry
  <2> QED  BY <1>2, <2>3, <2>4
<1>4. ASSUME NEW c \in Clients, NEW k, NEW i, NEW e, TouchStep(c, k, i, e)
      PROVE  LoginInv'
  <2>1. SameUsers /\ restarts' = restarts /\ username' = username
    BY <1>4, TouchSame DEF TouchStep, Served
  <2>2. call'[c] = k /\ \A d \in Clients \ {c} : call'[d] = call[d]
    BY <1>4, CallChanged DEF TouchStep
  <2>3. ASSUME NEW d \in Clients, d # c PROVE LoginOK(d)'
    BY <1>1, <2>1, <2>2, <2>3, LoginKept
  <2>4. LoginOK(c)'
    <3>1. k.at # "push"
      BY <1>4 DEF TouchStep
    <3>2. restarts = 0 => HasEntry(username[c])
      <4>1. CASE call[c].at \in {"login", "push"}
        BY <1>4, <4>1 DEF TouchStep, HasEntry, EntryTo, ShapeOK
      <4>2. CASE call[c].at \notin {"login", "push"}
        BY <1>1, <4>2 DEF LoginOK
      <4> QED  BY <4>1, <4>2
    <3>3. PICK u : u = username[c] /\ u = username'[c]
      BY <2>1
    <3>4. restarts = 0 => HasEntry(u)'
      BY <2>1, <3>2, <3>3, EntriesAreKept DEF SameUsers
    <3> QED  BY <2>1, <2>2, <3>1, <3>3, <3>4 DEF LoginOK, HasEntry
  <2> QED  BY <1>2, <2>3, <2>4
<1>5. ASSUME NEW c \in Clients, EnterStep(c)
      PROVE  LoginInv'
  <2>1. MemoryGrows /\ restarts' = restarts /\ username' = username
    BY <1>5, EnterGrows DEF EnterStep, Served
  <2>2. call'[c].at = "prompt" /\ \A d \in Clients \ {c} : call'[d] = call[d]
    BY <1>5, CallChanged, AtType, PlaceNames DEF EnterStep
  <2>3. /\ \A i \in 1..Len(client_db) : client_db'[i] = client_db[i]
        /\ client_db'[Len(client_db) + 1].username = username[c]
        /\ DOMAIN client_db' = 1..(Len(client_db) + 1)
        /\ DOMAIN client_db = 1..Len(client_db) /\ Len(client_db) \in Nat
    BY <1>5, <2>1 DEF EnterStep, Entry, MemoryGrows
  <2>4. ASSUME NEW d \in Clients, d # c PROVE LoginOK(d)'
    <3>1. HasEntry(username[d]) => HasEntry(username[d])'
      BY <2>1, <2>3 DEF HasEntry
    <3>2. Alone(d) /\ NoEntry(username[d]) => NoEntry(username[d])'
      BY <2>1, <2>3, <2>4 DEF NoEntry, Alone
    <3>3. call'[d] = call[d] /\ LoginOK(d) /\ (Alone(d)' <=> Alone(d))
      BY <1>1, <2>1, <2>2, <2>4, AloneStays
    <3> QED  BY <2>1, <3>1, <3>2, <3>3 DEF LoginOK
  <2>5. LoginOK(c)'
    <3>1. HasEntry(username[c])'
      BY <2>1, <2>3 DEF HasEntry
    <3> QED  BY <2>1, <2>2, <3>1 DEF LoginOK
  <2> QED  BY <1>2, <2>4, <2>5
<1>6. ASSUME NEW c \in Clients, KillStep(c)
      PROVE  LoginInv'
  <2>1. SameUsers /\ restarts' = restarts
    BY <1>6, LookSame DEF KillStep
  <2>2. call'[c].at = "login" /\ \A d \in Clients \ {c} : call'[d] = call[d]
    BY <1>6, CallChanged, AtType, PlaceNames DEF KillStep
  <2>3. ASSUME NEW d \in Clients, d # c PROVE LoginOK(d)'
    BY <1>1, <2>1, <2>2, <2>3, LoginKept
  <2>4. LoginOK(c)'
    BY <2>2 DEF LoginOK
  <2> QED  BY <1>2, <2>3, <2>4
<1>7. ASSUME NEW e \in ending, EndStep(e)
      PROVE  LoginInv'
  BY <1>1, <1>2, <1>7, EndSame, LoginKept DEF EndStep
<1>8. ASSUME Restart
      PROVE  LoginInv'
  <2>1. restarts' # 0
    BY <1>8 DEF Restart, ShapeOK
  <2>2. ASSUME NEW d \in Clients PROVE call'[d].at # "push"
    BY <1>8, AtType, PlaceNames DEF Restart, InCall
  <2> QED  BY <1>2, <2>1, <2>2 DEF LoginOK
<1>9. ASSUME NEW c \in Clients, Misbehave(c)
      PROVE  LoginInv'
  BY <1>9 DEF Misbehave, memory, LoginInv, Alone
<1> QED  BY <1>3, <1>4, <1>5, <1>6, <1>7, <1>8, <1>9, Kinds, KillEffect, EndEffect
            DEF ServeKind, LookStep, WriteStep

\* Two entries of a user are of twins.
LEMMA OneEntryStays ==
    ASSUME ShapeOK, MemoryInv, PointersInv, LoginInv, OneEntryEach, ServiceNext
    PROVE  OneEntryEach'
<1>1. ASSUME SameUsers PROVE OneEntryEach'
  <2>1. \A c : Alone(c)' <=> Alone(c)
    BY <1>1, AloneStays DEF SameUsers, MemoryGrows
  <2> QED  BY <1>1, <2>1 DEF OneEntryEach, SameUsers, MemoryGrows
<1>2. ASSUME NEW c \in Clients, EnterStep(c)
      PROVE  OneEntryEach'
  <2>1. MemoryGrows /\ username' = username
    BY <1>2, EnterGrows DEF MemoryGrows
  <2>2. /\ \A i \in 1..Len(client_db) : client_db'[i].username = client_db[i].username
        /\ client_db'[Len(client_db) + 1].username = username[c]
        /\ DOMAIN client_db' = 1..(Len(client_db) + 1)
        /\ DOMAIN client_db = 1..Len(client_db) /\ Len(client_db) \in Nat
    BY <1>2, <2>1 DEF EnterStep, Entry, MemoryGrows
  <2>3. \A d : Alone(d)' <=> Alone(d)
    BY <2>1, AloneStays
  <2>4. Alone(c) => NoEntry(username[c])
    BY <1>2, LoginByClient DEF EnterStep, LoginOK
  <2> SUFFICES ASSUME NEW i \in 1..(Len(client_db) + 1), NEW j \in 1..(Len(client_db) + 1),
                      client_db'[i].username = client_db'[j].username, i # j
               PROVE  \E d \in Clients : username[d] = client_db'[i].username /\ ~Alone(d)
    BY <2>1, <2>2, <2>3 DEF OneEntryEach
  <2>5. CASE i \in 1..Len(client_db) /\ j \in 1..Len(client_db)
    BY <2>2, <2>5 DEF OneEntryEach
  <2>6. CASE i = Len(client_db) + 1 \/ j = Len(client_db) + 1
    <3>1. client_db'[i].username = username[c]
      BY <2>2, <2>6
    <3>2. PICK l \in 1..Len(client_db) : client_db[l].username = username[c]
      BY <2>2, <2>6
    <3>3. ~Alone(c)
      BY <2>2, <2>4, <3>2 DEF NoEntry
    <3> QED  BY <3>1, <3>3
  <2> QED  BY <2>2, <2>5, <2>6
<1>3. ASSUME NEW c \in Clients, ServeKind(c)
      PROVE  OneEntryEach'
  BY <1>1, <1>2, <1>3, LookSame, TouchSame DEF ServeKind, LookStep, WriteStep, Look, Served
<1>4. ASSUME Restart PROVE OneEntryEach'
  BY <1>4 DEF Restart, OneEntryEach
<1>5. ASSUME NEW c \in Clients, Misbehave(c)
      PROVE  OneEntryEach'
  <2>1. client_db' = client_db /\ username' = username
    BY <1>5 DEF Misbehave, memory
  <2>2. \A d : Alone(d)' <=> Alone(d)
    BY <2>1, AloneStays
  <2> QED  BY <2>1, <2>2 DEF OneEntryEach
<1>6. ASSUME NEW c \in Clients, KillStep(c)
      PROVE  OneEntryEach'
  BY <1>1, <1>6, LookSame DEF KillStep
<1> QED  BY <1>1, <1>3, <1>4, <1>5, <1>6, Kinds, KillEffect, EndEffect, EndSame

-----------------------------------------------------------------------------
(***************************************************************************)
(* Streams, and who is connected.                                          *)
(***************************************************************************)
StreamOK(i) ==
    LET s == client_db[i].stream
    IN s # NoStream =>
         /\ username[s[1]] = client_db[i].username
         /\ s[2] <= life[s[1]]
         /\ s[2] = life[s[1]] => call[s[1]].at \in Chatting

ReachOK(c, i) ==
    Alone(c) /\ call[c].at \in Chatting /\ client_db[i].username = username[c]
      => client_db[i].stream # NoStream

EndedOK(e) == e.stream[2] < life[e.stream[1]]

\* StreamsInv, by entry, by client and by ending call.
LEMMA StreamsByEntry ==
    StreamsInv <=> /\ \A i \in DOMAIN client_db : StreamOK(i)
                   /\ \A c \in Clients, i \in DOMAIN client_db : ReachOK(c, i)
                   /\ \A e \in ending : EndedOK(e)
BY DEF StreamsInv, StreamOK, ReachOK, EndedOK

\* A stream is of a client, with a number of its lives.
LEMMA StreamType ==
    ASSUME ShapeOK, NEW i \in 1..Len(client_db), client_db[i].stream # NoStream
    PROVE  client_db[i].stream[1] \in Clients /\ client_db[i].stream[2] \in Nat
BY EntryType DEF Entries

\* Steps that leave the streams, and who is in the timeline, as they are.
LEMMA StreamsKept ==
    ASSUME ShapeOK, StreamsInv, SameUsers, life' = life, ending' \subseteq ending,
           \A i \in 1..Len(client_db) : client_db'[i].stream = client_db[i].stream,
           \A d \in Clients : call'[d].at \in Chatting <=> call[d].at \in Chatting
    PROVE  StreamsInv'
<1>1. /\ username' = username /\ DOMAIN client_db' = 1..Len(client_db) /\ DOMAIN client_db = 1..Len(client_db)
      /\ \A i \in 1..Len(client_db) : client_db'[i].username = client_db[i].username
  BY DEF SameUsers, MemoryGrows
<1>2. ASSUME NEW i \in 1..Len(client_db) PROVE StreamOK(i)'
  <2>1. StreamOK(i)
    BY <1>1, StreamsByEntry
  <2> QED  BY <1>1, <2>1, StreamType DEF StreamOK
<1>3. ASSUME NEW c \in Clients, NEW i \in 1..Len(client_db) PROVE ReachOK(c, i)'
  <2>1. ReachOK(c, i) /\ (Alone(c)' <=> Alone(c))
    BY <1>1, StreamsByEntry, AloneStays
  <2> QED  BY <1>1, <2>1 DEF ReachOK
<1>4. ASSUME NEW e \in ending PROVE EndedOK(e)'
  BY StreamsByEntry DEF EndedOK
<1> QED  BY <1>1, <1>2, <1>3, <1>4 DEF StreamsInv, StreamOK, ReachOK, EndedOK

\* Every step keeps StreamsInv.
LEMMA StreamsStay ==
    ASSUME ShapeOK, MemoryInv, PointersInv, OneEntryEach, StreamsInv, ServiceNext
    PROVE  StreamsInv'
<1>1. ASSUME NEW c \in Clients, NEW k, Look(c, k)
      PROVE  StreamsInv'
  <2>1. SameUsers /\ life' = life /\ ending' = ending /\ client_db' = client_db
    BY <1>1, LookSame DEF Look, Served, MemoryStays
  <2>2. \A d \in Clients : call'[d].at \in Chatting <=> call[d].at \in Chatting
    BY <1>1, CallChanged DEF Look
  <2> QED  BY <2>1, <2>2, StreamsKept
<1>2. ASSUME NEW c \in Clients, NEW k, NEW i, NEW e, TouchStep(c, k, i, e)
      PROVE  StreamsInv'
  <2>1. /\ SameUsers /\ username' = username /\ life' = life /\ ending' = ending
        /\ DOMAIN client_db' = 1..Len(client_db) /\ DOMAIN client_db = 1..Len(client_db)
    BY <1>2, TouchSame DEF TouchStep, Served, SameUsers, MemoryGrows
  <2>2. /\ call'[c] = k /\ \A d \in Clients \ {c} : call'[d] = call[d]
        /\ i \in 1..Len(client_db) /\ client_db'[i] = e
        /\ \A j \in 1..Len(client_db) : j # i => client_db'[j] = client_db[j]
    BY <1>2, CallChanged, EntryChanged DEF TouchStep, EntryTo
  <2>3. CASE StreamKept(c, k, i, e)
    <3>1. \A d \in Clients : call'[d].at \in Chatting <=> call[d].at \in Chatting
      BY <2>2, <2>3 DEF StreamKept
    <3>2. \A j \in 1..Len(client_db) : client_db'[j].stream = client_db[j].stream
      BY <2>2, <2>3 DEF StreamKept
    <3> QED  BY <2>1, <3>1, <3>2, StreamsKept
  <2>4. CASE StreamSet(c, k, i, e)
    <3>1. /\ k.at \in Chatting /\ e.username = username[c] /\ client_db[i].username = username[c]
          /\ e.stream = IF client_db[i].stream = NoStream THEN Stream(c) ELSE client_db[i].stream
      BY <1>2, <2>4 DEF StreamSet, TouchStep
    <3>2. /\ Stream(c) # NoStream /\ Stream(c)[1] = c /\ Stream(c)[2] = life[c] /\ life[c] \in Nat
      BY DEF Stream, NoStream, ShapeOK
    <3>3. \A d \in Clients : call[d].at \in Chatting => call'[d].at \in Chatting
      BY <2>2, <3>1
    <3>4. ASSUME NEW j \in 1..Len(client_db) PROVE StreamOK(j)'
      <4>1. StreamOK(j)
        BY <2>1, StreamsByEntry
      <4>2. client_db'[j].username = client_db[j].username
        BY <2>1 DEF SameUsers, MemoryGrows
      <4>3. CASE client_db'[j].stream = client_db[j].stream
        BY <2>1, <3>3, <4>1, <4>2, <4>3, StreamType DEF StreamOK
      <4>4. CASE client_db'[j].stream # client_db[j].stream
        <5>1. j = i /\ client_db'[j].stream = Stream(c)
          BY <2>2, <3>1, <4>4
        <5> QED  BY <2>1, <2>2, <3>1, <3>2, <4>2, <5>1 DEF StreamOK
      <4> QED  BY <4>3, <4>4
    <3>5. ASSUME NEW d \in Clients, NEW j \in 1..Len(client_db) PROVE ReachOK(d, j)'
      <4>1. client_db'[j].username = client_db[j].username /\ (Alone(d)' <=> Alone(d))
        BY <2>1, AloneStays DEF SameUsers, MemoryGrows
      <4>2. CASE j = i
        BY <2>2, <3>1, <3>2, <4>2 DEF ReachOK
      <4>3. CASE j # i /\ d = c
        <5>1. Alone(c) => client_db[j].username # username[c]
          BY <2>1, <2>2, <3>1, <4>3 DEF OneEntryEach, Alone
        <5> QED  BY <2>1, <4>1, <4>3, <5>1 DEF ReachOK
      <4>4. CASE j # i /\ d # c
        <5>1. ReachOK(d, j)
          BY <2>1, StreamsByEntry
        <5> QED  BY <2>1, <2>2, <4>1, <4>4, <5>1 DEF ReachOK
      <4> QED  BY <4>2, <4>3, <4>4
    <3>6. ASSUME NEW f \in ending PROVE EndedOK(f)'
      BY <2>1, StreamsByEntry DEF EndedOK
    <3> QED  BY <2>1, <3>4, <3>5, <3>6 DEF StreamsInv, StreamOK, ReachOK, EndedOK
  <2> QED  BY <1>2, <2>3, <2>4 DEF TouchStep
<1>3. ASSUME NEW c \in Clients, EnterStep(c)
      PROVE  StreamsInv'
  <2>1. MemoryGrows /\ username' = username /\ life' = life /\ ending' = ending
    BY <1>3, EnterGrows DEF EnterStep, Served
  <2>2. /\ \A i \in 1..Len(client_db) : client_db'[i] = client_db[i]
        /\ client_db'[Len(client_db) + 1].username = username[c]
        /\ client_db'[Len(client_db) + 1].stream = NoStream
        /\ DOMAIN client_db' = 1..(Len(client_db) + 1)
        /\ DOMAIN client_db = 1..Len(client_db) /\ Len(client_db) \in Nat
    BY <1>3, <2>1 DEF EnterStep, Entry, MemoryGrows
  <2>3. /\ call'[c].at = "prompt" /\ call[c].at = "push"
        /\ \A d \in Clients \ {c} : call'[d] = call[d]
    BY <1>3, CallChanged, AtType, PlaceNames DEF EnterStep
  <2>4. \A d \in Clients : call'[d].at \in Chatting <=> call[d].at \in Chatting
    BY <2>3 DEF Chatting, InTimeline
  <2>5. ASSUME NEW i \in 1..(Len(client_db) + 1) PROVE StreamOK(i)'
    <3>1. CASE i = Len(client_db) + 1
      BY <2>2, <3>1 DEF StreamOK
    <3>2. CASE i \in 1..Len(client_db)
      <4>1. StreamOK(i)
        BY <2>2, <3>2, StreamsByEntry
      <4> QED  BY <2>1, <2>2, <2>4, <3>2, <4>1, StreamType DEF StreamOK
    <3> QED  BY <2>2, <3>1, <3>2
  <2>6. ASSUME NEW d \in Clients, NEW i \in 1..(Len(client_db) + 1) PROVE ReachOK(d, i)'
    <3>1. Alone(d)' <=> Alone(d)
      BY <2>1, AloneStays
    <3>2. CASE i = Len(client_db) + 1
      <4>1. Alone(d) /\ username[d] = username[c] => d = c
        BY DEF Alone
      <4>2. call'[c].at \notin Chatting
        BY <2>3 DEF Chatting, InTimeline
      <4> QED  BY <2>1, <2>2, <3>1, <3>2, <4>1, <4>2 DEF ReachOK
    <3>3. CASE i \in 1..Len(client_db)
      <4>1. ReachOK(d, i)
        BY <2>2, <3>3, StreamsByEntry
      <4> QED  BY <2>1, <2>2, <2>4, <3>1, <3>3, <4>1 DEF ReachOK
    <3> QED  BY <2>2, <3>2, <3>3
  <2>7. ASSUME NEW f \in ending PROVE EndedOK(f)'
    BY <2>1, StreamsByEntry DEF EndedOK
  <2> QED  BY <2>1, <2>2, <2>5, <2>6, <2>7 DEF StreamsInv, StreamOK, ReachOK, EndedOK
<1>4. ASSUME NEW c \in Clients, KillStep(c)
      PROVE  StreamsInv'
  <2>1. /\ username' = username /\ client_db' = client_db
        /\ DOMAIN client_db = 1..Len(client_db)
    BY <1>4 DEF KillStep, MemoryStays, ShapeOK
  <2>2. /\ call'[c].at = "login" /\ \A d \in Clients \ {c} : call'[d] = call[d]
    BY <1>4, CallChanged, AtType, PlaceNames DEF KillStep
  <2>3. /\ life'[c] = life[c] + 1 /\ \A d \in Clients \ {c} : life'[d] = life[d]
        /\ \A d \in Clients : life[d] \in Nat
    BY <1>4 DEF KillStep, ShapeOK
  <2>4. ASSUME NEW i \in 1..Len(client_db) PROVE StreamOK(i)'
    <3>1. StreamOK(i)
      BY <2>1, StreamsByEntry
    <3>2. CASE client_db[i].stream = NoStream
      BY <2>1, <3>2 DEF StreamOK
    <3>3. CASE client_db[i].stream # NoStream
      <4> DEFINE s == client_db[i].stream
      <4>1. s[1] \in Clients /\ s[2] \in Nat
        BY <3>3, StreamType
      <4>2. /\ username[s[1]] = client_db[i].username
            /\ s[2] <= life[s[1]]
            /\ s[2] = life[s[1]] => call[s[1]].at \in Chatting
        BY <3>1, <3>3 DEF StreamOK
      <4>3. /\ s[2] <= life'[s[1]]
            /\ s[2] = life'[s[1]] => call'[s[1]].at \in Chatting
        <5>1. CASE s[1] = c
          BY <2>3, <4>1, <4>2, <5>1
        <5>2. CASE s[1] # c
          BY <2>2, <2>3, <4>1, <4>2, <5>2
        <5> QED  BY <5>1, <5>2
      <4> QED  BY <2>1, <4>2, <4>3 DEF StreamOK
    <3> QED  BY <3>2, <3>3
  <2>5. ASSUME NEW d \in Clients, NEW i \in 1..Len(client_db) PROVE ReachOK(d, i)'
    <3>1. ReachOK(d, i) /\ (Alone(d)' <=> Alone(d))
      BY <2>1, StreamsByEntry, AloneStays
    <3>2. call'[c].at \notin Chatting
      BY <2>2 DEF Chatting, InTimeline
    <3> QED  BY <2>1, <2>2, <3>1, <3>2 DEF ReachOK
  <2>6. ASSUME NEW f \in ending' PROVE EndedOK(f)'
    <3>1. CASE f \in ending
      <4>1. EndedOK(f) /\ f.stream[1] \in Clients /\ f.stream[2] \in Nat
        BY <3>1, StreamsByEntry DEF ShapeOK
      <4> QED  BY <2>3, <4>1 DEF EndedOK
    <3>2. CASE f \notin ending
      <4>1. f.stream = Stream(c)
        BY <1>4, <3>2 DEF KillStep
      <4> QED  BY <2>3, <4>1 DEF EndedOK, Stream
    <3> QED  BY <3>1, <3>2
  <2> QED  BY <2>1, <2>4, <2>5, <2>6 DEF StreamsInv, StreamOK, ReachOK, EndedOK
<1>5. ASSUME NEW e \in ending, EndStep(e)
      PROVE  StreamsInv'
  <2>1. SameUsers /\ life' = life /\ call' = call /\ ending' \subseteq ending
    BY <1>5, EndSame DEF EndStep
  <2>2. ASSUME NEW i \in 1..Len(client_db) PROVE client_db'[i].stream = client_db[i].stream
    <3>1. CASE MemoryStays
      BY <3>1 DEF MemoryStays
    <3>2. CASE ~MemoryStays
      <4> DEFINE j == e.c[2]
                 f == [client_db[j] EXCEPT !.connected = FALSE]
      <4>1. EntryTo(j, f)
        BY <1>5, <3>2 DEF EndStep
      <4>2. client_db[j] \in Entries
        BY <4>1, EntryType DEF EntryTo
      <4>3. f.stream = client_db[j].stream
        BY <4>2 DEF Entries
      <4> HIDE DEF j, f
      <4> QED  BY <4>1, <4>3, EntryChanged
    <3> QED  BY <3>1, <3>2
  <2> QED  BY <2>1, <2>2, StreamsKept
<1>6. ASSUME Restart PROVE StreamsInv'
  BY <1>6 DEF Restart, StreamsInv
<1>7. ASSUME NEW c \in Clients, Misbehave(c)
      PROVE  StreamsInv'
  BY <1>7 DEF Misbehave, memory, StreamsInv, Alone
<1> QED  BY <1>1, <1>2, <1>3, <1>4, <1>5, <1>6, <1>7, Kinds, KillEffect, EndEffect
            DEF ServeKind, LookStep, WriteStep

\* Every step keeps ConnectedInv.
LEMMA ConnectedStays ==
    ASSUME ShapeOK, MemoryInv, PointersInv, StreamsInv, ConnectedInv, ServiceNext
    PROVE  ConnectedInv'
<1>1. ASSUME SameUsers, \A c \in Clients : life'[c] = life[c] \/ life'[c] # 0,
             \A i \in 1..Len(client_db) : client_db[i].connected => client_db'[i].connected
      PROVE  ConnectedInv'
  <2>1. \A c : Alone(c)' <=> Alone(c)
    BY <1>1, AloneStays DEF SameUsers, MemoryGrows
  <2> QED  BY <1>1, <2>1 DEF ConnectedInv, SameUsers, MemoryGrows
<1>2. ASSUME NEW c \in Clients, NEW k, Look(c, k)
      PROVE  ConnectedInv'
  BY <1>1, <1>2, LookSame DEF Look, Served, MemoryStays
<1>3. ASSUME NEW c \in Clients, NEW k, NEW i, NEW e, TouchStep(c, k, i, e)
      PROVE  ConnectedInv'
  <2>1. \A j \in 1..Len(client_db) : client_db[j].connected => client_db'[j].connected
    BY <1>3, EntryChanged DEF TouchStep
  <2> QED  BY <1>1, <1>3, <2>1, TouchSame DEF TouchStep, Served
<1>4. ASSUME NEW c \in Clients, EnterStep(c)
      PROVE  ConnectedInv'
  <2>1. MemoryGrows /\ username' = username /\ life' = life
    BY <1>4, EnterGrows DEF EnterStep, Served
  <2>2. /\ \A i \in 1..Len(client_db) : client_db'[i] = client_db[i]
        /\ client_db'[Len(client_db) + 1].connected
        /\ DOMAIN client_db' = 1..(Len(client_db) + 1)
        /\ DOMAIN client_db = 1..Len(client_db) /\ Len(client_db) \in Nat
    BY <1>4, <2>1 DEF EnterStep, Entry, MemoryGrows
  <2>3. \A d : Alone(d)' <=> Alone(d)
    BY <2>1, AloneStays
  <2>4. \A i \in 1..(Len(client_db) + 1) : i \in 1..Len(client_db) \/ i = Len(client_db) + 1
    BY <2>2
  <2> QED  BY <2>1, <2>2, <2>3, <2>4 DEF ConnectedInv
<1>5. ASSUME NEW c \in Clients, KillStep(c)
      PROVE  ConnectedInv'
  <2>1. \A d \in Clients : life'[d] = life[d] \/ life'[d] # 0
    BY <1>5 DEF KillStep, ShapeOK
  <2> QED  BY <1>1, <1>5, <2>1, LookSame DEF KillStep, MemoryStays
<1>6. ASSUME NEW e \in ending, EndStep(e)
      PROVE  ConnectedInv'
  <2>1. SameUsers /\ life' = life /\ username' = username
    BY <1>6, EndSame DEF EndStep
  <2>2. CASE MemoryStays
    BY <1>1, <2>1, <2>2 DEF MemoryStays
  <2>3. CASE ~MemoryStays
    <3> DEFINE i == e.c[2]
               f == [client_db[i] EXCEPT !.connected = FALSE]
    <3>1. EntryTo(i, f) /\ e.c # NoPointer
      BY <1>6, <2>3 DEF EndStep
    <3> HIDE DEF f
    <3>2. /\ i \in 1..Len(client_db)
          /\ \A j \in 1..Len(client_db) : j # i => client_db'[j] = client_db[j]
      BY <3>1, EntryChanged DEF EntryTo
    <3>3. client_db[i].username = username[e.stream[1]]
      BY <3>1 DEF PointersInv, IsOf
    <3>4. /\ e.stream[1] \in Clients /\ e.stream[2] \in Nat /\ e.stream[2] < life[e.stream[1]]
          /\ life[e.stream[1]] \in Nat
      BY StreamsByEntry DEF EndedOK, ShapeOK
    <3>5. life[e.stream[1]] # 0
      BY <3>4
    <3> SUFFICES ASSUME NEW d \in Clients, NEW j \in 1..Len(client_db),
                        client_db'[j].username = username[d], Alone(d), life[d] = 0
                 PROVE  client_db'[j].connected
      <4>1. \A d : Alone(d)' <=> Alone(d)
        BY <2>1, AloneStays
      <4> QED  BY <2>1, <4>1 DEF ConnectedInv, SameUsers, MemoryGrows
    <3>6. client_db[j].username = username[d] /\ j \in DOMAIN client_db
      BY <2>1 DEF SameUsers, MemoryGrows
    <3>7. j # i
      BY <3>3, <3>4, <3>5, <3>6 DEF Alone
    <3> QED  BY <3>2, <3>6, <3>7 DEF ConnectedInv
  <2> QED  BY <2>2, <2>3
<1>7. ASSUME Restart PROVE ConnectedInv'
  BY <1>7 DEF Restart, ConnectedInv
<1>8. ASSUME NEW c \in Clients, Misbehave(c)
      PROVE  ConnectedInv'
  BY <1>8 DEF Misbehave, memory, ConnectedInv, Alone
<1> QED  BY <1>2, <1>3, <1>4, <1>5, <1>6, <1>7, <1>8, Kinds, KillEffect, EndEffect
            DEF ServeKind, LookStep, WriteStep

-----------------------------------------------------------------------------
(***************************************************************************)
(* The counts of lines.                                                    *)
(***************************************************************************)
Unwritten(u) == {c \in Clients : call[c].at = "append" /\ call[c].name = u}

CountOK(i) ==
    client_db[i].following_file_size
      <= lines[client_db[i].username] + Cardinality(Unwritten(client_db[i].username))

\* The lines that are being written to a file can be counted.
LEMMA UnwrittenType ==
    ASSUME NEW u
    PROVE  IsFiniteSet(Unwritten(u)) /\ Cardinality(Unwritten(u)) \in Nat
<1>1. Unwritten(u) \subseteq Clients
  BY DEF Unwritten
<1> QED  BY <1>1, ServiceAssumption, FS_Subset, FS_CardinalityType

\* That the count is not ahead of the file but for the lines being written is all
\* that NewestAreShown takes.
LEMMA NewestByCount ==
    ASSUME ShapeOK
    PROVE  NewestAreShown <=> \A i \in DOMAIN client_db : CountOK(i)
<1>1. NewestAreShown => \A i \in DOMAIN client_db : CountOK(i)
  BY DEF NewestAreShown, CountOK, Unwritten
<1>2. ASSUME \A i \in DOMAIN client_db : CountOK(i) PROVE NewestAreShown
  <2> SUFFICES ASSUME NEW i \in DOMAIN client_db, Unwritten(client_db[i].username) = {},
                      lines[client_db[i].username] >= Window
               PROVE  Skipped(client_db[i]) <= lines[client_db[i].username] - Window
    BY <1>2 DEF NewestAreShown, CountOK, Unwritten
  <2>1. client_db[i] \in Entries
    BY EntryType DEF ShapeOK
  <2>2. client_db[i].following_file_size \in Nat /\ lines[client_db[i].username] \in Nat
    BY <2>1 DEF Entries, ShapeOK
  <2>3. Cardinality(Unwritten(client_db[i].username)) = 0
    BY FS_EmptySet
  <2>4. client_db[i].following_file_size <= lines[client_db[i].username]
    BY <1>2, <2>2, <2>3 DEF CountOK
  <2> QED  BY <2>2, <2>4, BoundTypes DEF Skipped
<1> QED  BY <1>1, <1>2

\* The lines that are being written stay the same while no call comes to writing or leaves it.
LEMMA UnwrittenKept ==
    ASSUME \A d \in Clients : call'[d].at = "append" \/ call[d].at = "append" => call'[d] = call[d]
    PROVE  \A u : Unwritten(u)' = Unwritten(u)
BY DEF Unwritten

\* Steps that neither count nor write.
LEMMA CountsKept ==
    ASSUME ShapeOK, NewestAreShown, SameUsers, lines' = lines,
           \A i \in 1..Len(client_db) :
              client_db'[i].following_file_size = client_db[i].following_file_size,
           \A d \in Clients : call'[d].at = "append" \/ call[d].at = "append" => call'[d] = call[d]
    PROVE  \A i \in DOMAIN client_db' : CountOK(i)'
<1> SUFFICES ASSUME NEW i \in DOMAIN client_db' PROVE CountOK(i)'
  OBVIOUS
<1>1. /\ i \in DOMAIN client_db /\ client_db'[i].username = client_db[i].username
      /\ client_db'[i].following_file_size = client_db[i].following_file_size
  BY DEF SameUsers, MemoryGrows
<1>2. PICK u : u = client_db[i].username /\ u = client_db'[i].username
  BY <1>1
<1>3. Unwritten(u)' = Unwritten(u)
  BY UnwrittenKept
<1>4. CountOK(i)
  BY <1>1, NewestByCount
<1>5. Cardinality(Unwritten(client_db[i].username)') = Cardinality(Unwritten(u)')
  BY <1>2 DEF Unwritten
<1> QED  BY <1>1, <1>2, <1>3, <1>4, <1>5 DEF CountOK

\* Every step keeps the counts within the files and the lines being written.
LEMMA CountsStay ==
    ASSUME ShapeOK, MemoryInv, PointersInv, NewestAreShown, ServiceNext
    PROVE  \A i \in DOMAIN client_db' : CountOK(i)'
<1> DEFINE AllOK == \A i \in DOMAIN client_db' : CountOK(i)'
<1>1. ASSUME NEW c \in Clients, NEW k, LookStep(c, k)
      PROVE  AllOK
  BY <1>1, LookSame, CallChanged, CountsKept DEF LookStep, Look, Served, MemoryStays
<1>2. ASSUME NEW c \in Clients, NEW k, WriteStep(c, k)
      PROVE  AllOK
  <2>1. SameUsers /\ client_db' = client_db
    BY <1>2, LookSame DEF WriteStep, Look, Served, MemoryStays
  <2>2. call'[c].at = "deliver" /\ \A d \in Clients \ {c} : call'[d] = call[d]
    BY <1>2, CallChanged DEF WriteStep, Look
  <2>3. PICK n : n = call[c].name
    OBVIOUS
  <2>4. n \in Users /\ lines[n] \in Nat /\ c \in Unwritten(n)
    BY <1>2, <2>3, AppendedName DEF WriteStep, Unwritten
  <2>5. lines'[n] = lines[n] + 1 /\ \A u \in Users \ {n} : lines'[u] = lines[u]
    BY <1>2, <2>3, <2>4 DEF WriteStep, ShapeOK
  <2>6. Unwritten(n)' = Unwritten(n) \ {c}
    BY <2>2 DEF Unwritten
  <2>7. \A u \in Users \ {n} : Unwritten(u)' = Unwritten(u)
    BY <1>2, <2>2, <2>3 DEF Unwritten, WriteStep
  <2>8. Cardinality(Unwritten(n)') = Cardinality(Unwritten(n)) - 1 /\ Cardinality(Unwritten(n)) \in Nat
    BY <2>4, <2>6, UnwrittenType, FS_RemoveElement
  <2> SUFFICES ASSUME NEW i \in DOMAIN client_db' PROVE CountOK(i)'
    OBVIOUS
  <2>9. i \in DOMAIN client_db /\ client_db[i] \in Entries
    BY <2>1, EntryType DEF ShapeOK
  <2>10. PICK u \in Users : u = client_db[i].username
    BY <2>9 DEF Entries
  <2>11. client_db[i].following_file_size <= lines[u] + Cardinality(Unwritten(u))
    BY <2>9, <2>10, NewestByCount DEF CountOK
  <2>12. lines'[u] + Cardinality(Unwritten(u)') = lines[u] + Cardinality(Unwritten(u))
    <3>1. CASE u = n
      BY <2>4, <2>5, <2>8, <3>1
    <3>2. CASE u # n
      BY <2>5, <2>7, <3>2
    <3> QED  BY <3>1, <3>2
  <2>13. client_db'[i].username = u /\ client_db'[i] = client_db[i]
    BY <2>1, <2>10
  <2>14. client_db'[i].following_file_size <= lines'[u] + Cardinality(Unwritten(u)')
    BY <2>11, <2>12, <2>13
  <2> QED  BY <2>13, <2>14 DEF CountOK, Unwritten
<1>3. ASSUME NEW c \in Clients, NEW k, NEW j, NEW e, TouchStep(c, k, j, e)
      PROVE  AllOK
  <2>1. SameUsers /\ lines' = lines
    BY <1>3, TouchSame DEF TouchStep
  <2>2. /\ call'[c] = k /\ \A d \in Clients \ {c} : call'[d] = call[d]
        /\ j \in 1..Len(client_db) /\ client_db'[j] = e
        /\ \A l \in 1..Len(client_db) : l # j => client_db'[l] = client_db[l]
    BY <1>3, CallChanged, EntryChanged DEF TouchStep, EntryTo
  <2>3. CASE CountKept(c, k, j, e)
    <3>1. /\ \A i \in 1..Len(client_db) :
               client_db'[i].following_file_size = client_db[i].following_file_size
          /\ \A d \in Clients : call'[d].at = "append" \/ call[d].at = "append" => call'[d] = call[d]
      BY <2>2, <2>3 DEF CountKept
    <3> QED  BY <2>1, <3>1, CountsKept
  <2>4. CASE CountedUp(c, k, j, e)
    <3>1. PICK n : n = e.username
      OBVIOUS
    <3>2. /\ k.at = "append" /\ call[c].at # "append" /\ k.name = n
          /\ client_db[j].username = n
          /\ e.following_file_size = client_db[j].following_file_size + 1
      BY <1>3, <2>4, <3>1 DEF CountedUp, TouchStep
    <3>3. Unwritten(n)' = Unwritten(n) \cup {c} /\ c \notin Unwritten(n)
      BY <2>2, <3>2 DEF Unwritten
    <3>4. \A u : u # n => Unwritten(u)' = Unwritten(u)
      BY <2>2, <3>2 DEF Unwritten
    <3>5. Cardinality(Unwritten(n)') = Cardinality(Unwritten(n)) + 1 /\ Cardinality(Unwritten(n)) \in Nat
      BY <3>3, UnwrittenType, FS_AddElement
    <3> SUFFICES ASSUME NEW i \in DOMAIN client_db' PROVE CountOK(i)'
      OBVIOUS
    <3>6. /\ i \in DOMAIN client_db /\ client_db[i] \in Entries
          /\ client_db'[i].username = client_db[i].username
      BY <2>1, EntryType DEF SameUsers, MemoryGrows
    <3>7. PICK u \in Users : u = client_db[i].username /\ u = client_db'[i].username
      BY <3>6 DEF Entries
    <3>8. /\ client_db[i].following_file_size <= lines[u] + Cardinality(Unwritten(u))
          /\ lines[u] \in Nat /\ client_db[i].following_file_size \in Nat
      BY <3>6, <3>7, NewestByCount DEF CountOK, Entries, ShapeOK
    <3>9. client_db'[i].following_file_size <= lines[u] + Cardinality(Unwritten(u)')
      <4>1. CASE i = j
        <5>1. u = n /\ client_db'[i].following_file_size = client_db[i].following_file_size + 1
          BY <2>2, <3>2, <3>7, <4>1
        <5>2. Cardinality(Unwritten(u)') = Cardinality(Unwritten(u)) + 1
              /\ Cardinality(Unwritten(u)) \in Nat
          BY <3>5, <5>1
        <5> QED  BY <3>8, <5>1, <5>2
      <4>2. CASE i # j
        <5>1. client_db'[i] = client_db[i]
          BY <2>1, <2>2, <3>6, <4>2 DEF SameUsers, MemoryGrows
        <5>2. CASE u = n
          BY <3>5, <3>8, <5>1, <5>2
        <5>3. CASE u # n
          BY <3>4, <3>8, <5>1, <5>3
        <5> QED  BY <5>2, <5>3
      <4> QED  BY <4>1, <4>2
    <3> QED  BY <2>1, <3>7, <3>9 DEF CountOK, Unwritten
  <2> QED  BY <1>3, <2>3, <2>4 DEF TouchStep
<1>4. ASSUME NEW c \in Clients, EnterStep(c)
      PROVE  AllOK
  <2>1. MemoryGrows /\ lines' = lines
    BY <1>4, EnterGrows DEF EnterStep
  <2>2. /\ \A i \in 1..Len(client_db) : client_db'[i] = client_db[i]
        /\ client_db'[Len(client_db) + 1].username = username[c]
        /\ client_db'[Len(client_db) + 1].following_file_size = 0
        /\ DOMAIN client_db' = 1..(Len(client_db) + 1)
        /\ DOMAIN client_db = 1..Len(client_db) /\ Len(client_db) \in Nat
    BY <1>4, <2>1 DEF EnterStep, Entry, MemoryGrows
  <2>3. \A d \in Clients : call'[d].at = "append" \/ call[d].at = "append" => call'[d] = call[d]
    BY <1>4, CallChanged, AtType, PlaceNames DEF EnterStep
  <2>4. \A u : Unwritten(u)' = Unwritten(u)
    BY <2>3, UnwrittenKept
  <2> SUFFICES ASSUME NEW i \in 1..(Len(client_db) + 1) PROVE CountOK(i)'
    BY <2>2
  <2>5. PICK u : u = client_db'[i].username
    OBVIOUS
  <2>6. client_db'[i].following_file_size <= lines[u] + Cardinality(Unwritten(u))
    <3>1. CASE i = Len(client_db) + 1
      <4>1. lines[u] \in Nat
        BY <2>2, <2>5, <3>1 DEF ShapeOK
      <4> QED  BY <2>2, <3>1, <4>1, UnwrittenType
    <3>2. CASE i \in 1..Len(client_db)
      BY <2>2, <2>5, <3>2, NewestByCount DEF CountOK
    <3> QED  BY <2>2, <3>1, <3>2
  <2>7. Cardinality(Unwritten(u)') = Cardinality(Unwritten(u))
    BY <2>4
  <2> QED  BY <2>1, <2>5, <2>6, <2>7 DEF CountOK, Unwritten
<1>5. ASSUME NEW c \in Clients, KillStep(c)
      PROVE  AllOK
  <2>1. \A d \in Clients : call'[d].at = "append" \/ call[d].at = "append" => call'[d] = call[d]
    BY <1>5, CallChanged, AtType, PlaceNames DEF KillStep
  <2> QED  BY <1>5, <2>1, LookSame, CountsKept DEF KillStep, MemoryStays
<1>6. ASSUME NEW e \in ending, EndStep(e)
      PROVE  AllOK
  <2>1. SameUsers /\ call' = call /\ lines' = lines
    BY <1>6, EndSame DEF EndStep
  <2>2. ASSUME NEW i \in 1..Len(client_db)
        PROVE  client_db'[i].following_file_size = client_db[i].following_file_size
    <3>1. CASE MemoryStays
      BY <3>1 DEF MemoryStays
    <3>2. CASE ~MemoryStays
      <4> DEFINE j == e.c[2]
                 f == [client_db[j] EXCEPT !.connected = FALSE]
      <4>1. EntryTo(j, f)
        BY <1>6, <3>2 DEF EndStep
      <4>2. client_db[j] \in Entries
        BY <4>1, EntryType DEF EntryTo
      <4>3. f.following_file_size = client_db[j].following_file_size
        BY <4>2 DEF Entries
      <4> HIDE DEF j, f
      <4> QED  BY <4>1, <4>3, EntryChanged
    <3> QED  BY <3>1, <3>2
  <2> QED  BY <2>1, <2>2, CountsKept
<1>7. ASSUME Restart PROVE AllOK
  BY <1>7 DEF Restart
<1>8. ASSUME NEW c \in Clients, Misbehave(c)
      PROVE  AllOK
  BY <1>8, NewestByCount DEF Misbehave, memory, CountOK, Unwritten
<1> QED  BY <1>1, <1>2, <1>3, <1>4, <1>5, <1>6, <1>7, <1>8, Kinds, KillEffect, EndEffect
            DEF ServeKind

\* Every step keeps NewestAreShown.
LEMMA NewestStay ==
    ASSUME ShapeOK, MemoryInv, PointersInv, NewestAreShown, ServiceNext
    PROVE  NewestAreShown'
<1>1. ShapeOK' /\ \A i \in DOMAIN client_db' : CountOK(i)'
  BY ShapeStays, CountsStay
<1>2. (ShapeOK => (NewestAreShown <=> \A i \in DOMAIN client_db : CountOK(i)))'
  BY NewestByCount, PTL
<1> QED  BY <1>1, <1>2

-----------------------------------------------------------------------------
(***************************************************************************)
(* The two sides of who follows whom.                                      *)
(***************************************************************************)
LEMMA TallyIs ==
    ASSUME NEW s \in Seq(Places), NEW gens, NEW j
    PROVE  /\ Tally(s, gens, j) = HowMany(s, gens \X {j}) /\ Tally(s, gens, j) \in Nat
           /\ \A p \in ToSet(s) : p[1] \in gens /\ p[2] = j => Tally(s, gens, j) > 0
           /\ (\A p \in ToSet(s) : ~(p[1] \in gens /\ p[2] = j)) => Tally(s, gens, j) = 0
<1>1. \A p \in Places : p \in gens \X {j} <=> p[1] \in gens /\ p[2] = j
  BY DEF Places
<1>2. \A k \in DOMAIN s : s[k] \in Places
  BY ElementOfSeq
<1>3. {k \in DOMAIN s : s[k][1] \in gens /\ s[k][2] = j} = Members(s, gens \X {j})
  BY <1>1, <1>2 DEF Members
<1>4. Tally(s, gens, j) = HowMany(s, gens \X {j})
  BY <1>3 DEF Tally, HowMany
<1>5. HowMany(s, gens \X {j}) \in Nat
      /\ ((\E p \in gens \X {j} : p \in ToSet(s)) <=> HowMany(s, gens \X {j}) > 0)
  BY HowManyType
<1>6. \A p \in ToSet(s) : p \in Places
  BY <1>2 DEF ToSet
<1>7. ASSUME NEW p \in ToSet(s), p[1] \in gens /\ p[2] = j PROVE Tally(s, gens, j) > 0
  <2>1. p \in gens \X {j}
    BY <1>1, <1>6, <1>7
  <2> QED  BY <1>4, <1>5, <2>1
<1>8. ASSUME \A p \in ToSet(s) : ~(p[1] \in gens /\ p[2] = j) PROVE Tally(s, gens, j) = 0
  <2>1. ~(HowMany(s, gens \X {j}) > 0)
    BY <1>1, <1>5, <1>6, <1>8
  <2> QED  BY <1>4, <1>5, <2>1
<1> QED  BY <1>4, <1>5, <1>7, <1>8

\* What push_back does to a tally.
LEMMA TallyAppended ==
    ASSUME NEW s \in Seq(Places), NEW y \in Places, NEW gens, NEW j
    PROVE  Tally(Pushed(s, y), gens, j)
             = IF y[1] \in gens /\ y[2] = j THEN Tally(s, gens, j) + 1 ELSE Tally(s, gens, j)
<1>1. y \in gens \X {j} <=> y[1] \in gens /\ y[2] = j
  BY DEF Places
<1>2. /\ Pushed(s, y) \in Seq(Places)
      /\ HowMany(Pushed(s, y), gens \X {j}) = IF y \in gens \X {j} THEN HowMany(s, gens \X {j}) + 1
                                                                  ELSE HowMany(s, gens \X {j})
  BY Appended DEF Pushed
<1> QED  BY <1>1, <1>2, TallyIs

\* What erase does to a tally.
LEMMA TallyRemoved ==
    ASSUME NEW s \in Seq(Places), NEW y \in ToSet(s), NEW gens, NEW j
    PROVE  Tally(RemoveFirst(s, y), gens, j)
             = IF y[1] \in gens /\ y[2] = j THEN Tally(s, gens, j) - 1 ELSE Tally(s, gens, j)
<1>1. y \in Places
  BY ElementOfSeq DEF ToSet
<1>2. y \in gens \X {j} <=> y[1] \in gens /\ y[2] = j
  BY <1>1 DEF Places
<1>3. /\ RemoveFirst(s, y) \in Seq(Places)
      /\ HowMany(RemoveFirst(s, y), gens \X {j}) = IF y \in gens \X {j} THEN HowMany(s, gens \X {j}) - 1
                                                                        ELSE HowMany(s, gens \X {j})
  BY RemovedFirst
<1> QED  BY <1>2, <1>3, TallyIs

\* A call that is at a place for the pair of i and j.
OfPair(k, gens, i, j) == k.user1[1] \in gens /\ k.user1[2] = i /\ k.user2[2] = j

\* The calls that are halfway can be counted.
LEMMA PairsType ==
    ASSUME NEW place, NEW gens, NEW i, NEW j
    PROVE  /\ IsFiniteSet(Pairs(place, gens, i, j))
           /\ Cardinality(Pairs(place, gens, i, j)) \in Nat
           /\ \A c \in Pairs(place, gens, i, j) : Cardinality(Pairs(place, gens, i, j)) > 0
<1>1. Pairs(place, gens, i, j) \subseteq Clients
  BY DEF Pairs
<1>2. IsFiniteSet(Pairs(place, gens, i, j))
  BY <1>1, ServiceAssumption, FS_Subset
<1>3. /\ Cardinality(Pairs(place, gens, i, j)) \in Nat
      /\ Cardinality(Pairs(place, gens, i, j)) = 0 <=> Pairs(place, gens, i, j) = {}
  BY <1>2, FS_CardinalityType, FS_EmptySet
<1> QED  BY <1>2, <1>3

\* How one call's move changes the number of those halfway.
LEMMA PairsAfter ==
    ASSUME ShapeOK, NEW c \in Clients, NEW k, CallTo(c, k), NEW place, NEW gens, NEW i, NEW j
    PROVE  /\ /\ ~(call[c].at = place /\ OfPair(call[c], gens, i, j))
              /\ ~(k.at = place /\ OfPair(k, gens, i, j))
              => Cardinality(Pairs(place, gens, i, j)') = Cardinality(Pairs(place, gens, i, j))
           /\ /\ call[c].at = place /\ OfPair(call[c], gens, i, j)
              /\ ~(k.at = place /\ OfPair(k, gens, i, j))
              => Cardinality(Pairs(place, gens, i, j)') = Cardinality(Pairs(place, gens, i, j)) - 1
           /\ /\ ~(call[c].at = place /\ OfPair(call[c], gens, i, j))
              /\ k.at = place /\ OfPair(k, gens, i, j)
              => Cardinality(Pairs(place, gens, i, j)') = Cardinality(Pairs(place, gens, i, j)) + 1
<1> DEFINE was == call[c].at = place /\ OfPair(call[c], gens, i, j)
           is == k.at = place /\ OfPair(k, gens, i, j)
<1>1. call'[c] = k /\ \A d \in Clients \ {c} : call'[d] = call[d]
  BY CallChanged
<1>2. c \in Pairs(place, gens, i, j) <=> was
  BY DEF Pairs, OfPair
<1>3. Pairs(place, gens, i, j)' = IF is THEN Pairs(place, gens, i, j) \cup {c}
                                        ELSE Pairs(place, gens, i, j) \ {c}
  <2>1. CASE is
    BY <1>1, <2>1 DEF Pairs, OfPair
  <2>2. CASE ~is
    BY <1>1, <2>2 DEF Pairs, OfPair
  <2> QED  BY <2>1, <2>2
<1>4. IsFiniteSet(Pairs(place, gens, i, j))
  BY PairsType
<1> HIDE DEF was, is
<1>5. CASE ~was /\ ~is
  <2>1. Pairs(place, gens, i, j)' = Pairs(place, gens, i, j)
    BY <1>2, <1>3, <1>5
  <2> QED  BY <1>5, <2>1 DEF was, is
<1>6. CASE was /\ ~is
  <2>1. Cardinality(Pairs(place, gens, i, j)') = Cardinality(Pairs(place, gens, i, j)) - 1
    BY <1>2, <1>3, <1>4, <1>6, FS_RemoveElement
  <2> QED  BY <1>6, <2>1 DEF was, is
<1>7. CASE ~was /\ is
  <2>1. Cardinality(Pairs(place, gens, i, j)') = Cardinality(Pairs(place, gens, i, j)) + 1
    BY <1>2, <1>3, <1>4, <1>7, FS_AddElement
  <2> QED  BY <1>7, <2>1 DEF was, is
<1> QED  BY <1>5, <1>6, <1>7 DEF was, is

\* Steps that change no vector of pointers, and no call that is halfway.
LEMMA PairsKept ==
    ASSUME NEW place \in {"pushFollowers", "eraseFollowers"},
           \A d \in Clients : {call'[d].at, call[d].at} \cap {"pushFollowers", "eraseFollowers"} # {}
                                => call'[d] = call[d]
    PROVE  \A gens, i, j : Pairs(place, gens, i, j)' = Pairs(place, gens, i, j)
<1>1. \A d \in Clients : call'[d].at = place \/ call[d].at = place => call'[d] = call[d]
  OBVIOUS
<1> QED  BY <1>1 DEF Pairs

\* Steps that change neither vectors nor calls that are halfway.
LEMMA LinksKept ==
    ASSUME LinksInv, SameUsers,
           \A i \in 1..Len(client_db) :
              /\ client_db'[i].client_following = client_db[i].client_following
              /\ client_db'[i].client_followers = client_db[i].client_followers,
           \A d \in Clients : {call'[d].at, call[d].at} \cap {"pushFollowers", "eraseFollowers"} # {}
                                => call'[d] = call[d]
    PROVE  LinksInv'
<1> SUFFICES ASSUME NEW gens \in SUBSET Nat, NEW i \in 1..Len(client_db), NEW j \in 1..Len(client_db)
             PROVE  Balanced(gens, i, j)'
  BY DEF LinksInv, SameUsers, MemoryGrows
<1>1. Balanced(gens, i, j)
  BY DEF LinksInv, SameUsers, MemoryGrows
<1>2. /\ Pairs("pushFollowers", gens, i, j)' = Pairs("pushFollowers", gens, i, j)
      /\ Pairs("eraseFollowers", gens, i, j)' = Pairs("eraseFollowers", gens, i, j)
  BY PairsKept
<1>3. /\ Tally(client_db'[i].client_following, gens, j) = Tally(client_db[i].client_following, gens, j)
      /\ Tally(client_db'[j].client_followers, gens, i) = Tally(client_db[j].client_followers, gens, i)
  OBVIOUS
<1> QED  BY <1>1, <1>2, <1>3 DEF Balanced, Tally

\* The moves of Follow and UnFollow: one side, then the other.
LEMMA LinksMove ==
    ASSUME ShapeOK, PointersInv, LinksInv, NEW c \in Clients, NEW k, NEW t, NEW e,
           TouchStep(c, k, t, e), PairMoves(c, k, t, e)
    PROVE  LinksInv'
<1> DEFINE p == call[c].user1
           q == call[c].user2
<1>1. /\ SameUsers /\ DOMAIN client_db' = 1..Len(client_db) /\ DOMAIN client_db = 1..Len(client_db)
      /\ CallTo(c, k) /\ t \in 1..Len(client_db) /\ client_db'[t] = e
      /\ \A l \in 1..Len(client_db) : l # t => client_db'[l] = client_db[l]
  BY TouchSame, EntryChanged DEF TouchStep, EntryTo, SameUsers, MemoryGrows
<1>2. /\ call[c] \in Calls /\ call[c].at \in PairCalls
      /\ p \in Places /\ q \in Places /\ p[1] = q[1]
  BY PairCall DEF PairMoves, PairCalls
<1> SUFFICES ASSUME NEW gens \in SUBSET Nat, NEW i \in 1..Len(client_db), NEW j \in 1..Len(client_db)
             PROVE  Balanced(gens, i, j)'
  BY <1>1 DEF LinksInv
<1> DEFINE F == Tally(client_db[i].client_following, gens, j)
           G == Tally(client_db[j].client_followers, gens, i)
           F1 == Tally(client_db'[i].client_following, gens, j)
           G1 == Tally(client_db'[j].client_followers, gens, i)
           E == Cardinality(Pairs("eraseFollowers", gens, i, j))
           P == Cardinality(Pairs("pushFollowers", gens, i, j))
           E1 == Cardinality(Pairs("eraseFollowers", gens, i, j)')
           P1 == Cardinality(Pairs("pushFollowers", gens, i, j)')
           M == OfPair(call[c], gens, i, j)
<1>3. F + E = G + P
  BY <1>1 DEF LinksInv, Balanced
<1>4. /\ client_db[i].client_following \in Seq(Places) /\ client_db[j].client_followers \in Seq(Places)
      /\ client_db[t].client_following \in Seq(Places) /\ client_db[t].client_followers \in Seq(Places)
  BY <1>1, EntryType DEF Entries
<1>5. F \in Nat /\ G \in Nat /\ E \in Nat /\ P \in Nat
  BY <1>4, TallyIs, PairsType
<1>6. M <=> (p[1] \in gens /\ p[2] = i /\ q[2] = j)
  BY DEF OfPair
<1>7. ASSUME F1 + E1 = G1 + P1 PROVE Balanced(gens, i, j)'
  <2>1. Balanced(gens, i, j)' <=> F1 + E1 = G1 + P1
    BY DEF Balanced, Tally
  <2> QED  BY <1>7, <2>1
<1>8. /\ OfPair([call[c] EXCEPT !.at = "pushFollowers"], gens, i, j) <=> M
      /\ OfPair([call[c] EXCEPT !.at = "eraseFollowers"], gens, i, j) <=> M
      /\ [call[c] EXCEPT !.at = "pushFollowers"].at = "pushFollowers"
      /\ [call[c] EXCEPT !.at = "eraseFollowers"].at = "eraseFollowers"
      /\ At("prompt").at = "prompt"
  BY <1>2, AtType, PlaceNames DEF OfPair, Calls
<1> HIDE DEF M
<1>9. CASE /\ call[c].at = "pushFollowing"
           /\ k = [call[c] EXCEPT !.at = "pushFollowers"]
           /\ t = p[2]
           /\ e.client_following = Pushed(client_db[t].client_following, q)
           /\ e.client_followers = client_db[t].client_followers
  <2>0. call[c].at = "pushFollowing" /\ k.at = "pushFollowers" /\ (OfPair(k, gens, i, j) <=> M)
    BY <1>8, <1>9
  <2>1. F1 = IF M THEN F + 1 ELSE F
    <3>1. CASE i = t
      <4>1. F1 = IF q[1] \in gens /\ q[2] = j THEN F + 1 ELSE F
        BY <1>1, <1>2, <1>4, <1>9, <3>1, TallyAppended
      <4> QED  BY <1>2, <1>6, <1>9, <3>1, <4>1
    <3>2. CASE i # t
      BY <1>1, <1>6, <1>9, <3>2
    <3> QED  BY <3>1, <3>2
  <2>2. G1 = G
    BY <1>1, <1>9
  <2>3. P1 = IF M THEN P + 1 ELSE P
    BY <1>1, <2>0, PairsAfter DEF M
  <2>4. E1 = E
    BY <1>1, <2>0, PairsAfter DEF M
  <2> HIDE DEF F, G, E, P, F1, G1, E1, P1
  <2> QED  BY <1>3, <1>5, <1>7, <2>1, <2>2, <2>3, <2>4
<1>10. CASE /\ call[c].at = "pushFollowers"
            /\ k = At("prompt")
            /\ t = q[2]
            /\ e.client_following = client_db[t].client_following
            /\ e.client_followers = Pushed(client_db[t].client_followers, p)
  <2>0. call[c].at = "pushFollowers" /\ k.at = "prompt"
    BY <1>8, <1>10
  <2>1. F1 = F
    BY <1>1, <1>10
  <2>2. G1 = IF M THEN G + 1 ELSE G
    <3>1. CASE j = t
      <4>1. G1 = IF p[1] \in gens /\ p[2] = i THEN G + 1 ELSE G
        BY <1>1, <1>2, <1>4, <1>10, <3>1, TallyAppended
      <4> QED  BY <1>6, <1>10, <3>1, <4>1
    <3>2. CASE j # t
      BY <1>1, <1>6, <1>10, <3>2
    <3> QED  BY <3>1, <3>2
  <2>3. P1 = IF M THEN P - 1 ELSE P
    BY <1>1, <2>0, PairsAfter DEF M
  <2>4. E1 = E
    BY <1>1, <2>0, PairsAfter DEF M
  <2> HIDE DEF F, G, E, P, F1, G1, E1, P1
  <2> QED  BY <1>3, <1>5, <1>7, <2>1, <2>2, <2>3, <2>4
<1>11. CASE /\ call[c].at = "eraseFollowing"
            /\ k = [call[c] EXCEPT !.at = "eraseFollowers"]
            /\ t = p[2]
            /\ q \in ToSet(client_db[t].client_following)
            /\ e.client_following = RemoveFirst(client_db[t].client_following, q)
            /\ e.client_followers = client_db[t].client_followers
  <2>0. call[c].at = "eraseFollowing" /\ k.at = "eraseFollowers" /\ (OfPair(k, gens, i, j) <=> M)
    BY <1>8, <1>11
  <2>1. F1 = IF M THEN F - 1 ELSE F
    <3>1. CASE i = t
      <4>1. F1 = IF q[1] \in gens /\ q[2] = j THEN F - 1 ELSE F
        BY <1>1, <1>2, <1>4, <1>11, <3>1, TallyRemoved
      <4> QED  BY <1>2, <1>6, <1>11, <3>1, <4>1
    <3>2. CASE i # t
      BY <1>1, <1>6, <1>11, <3>2
    <3> QED  BY <3>1, <3>2
  <2>2. G1 = G
    BY <1>1, <1>11
  <2>3. E1 = IF M THEN E + 1 ELSE E
    BY <1>1, <2>0, PairsAfter DEF M
  <2>4. P1 = P
    BY <1>1, <2>0, PairsAfter DEF M
  <2> HIDE DEF F, G, E, P, F1, G1, E1, P1
  <2> QED  BY <1>3, <1>5, <1>7, <2>1, <2>2, <2>3, <2>4
<1>12. CASE /\ call[c].at = "eraseFollowers"
            /\ k = At("prompt")
            /\ t = q[2]
            /\ p \in ToSet(client_db[t].client_followers)
            /\ e.client_following = client_db[t].client_following
            /\ e.client_followers = RemoveFirst(client_db[t].client_followers, p)
  <2>0. call[c].at = "eraseFollowers" /\ k.at = "prompt"
    BY <1>8, <1>12
  <2>1. F1 = F
    BY <1>1, <1>12
  <2>2. G1 = IF M THEN G - 1 ELSE G
    <3>1. CASE j = t
      <4>1. G1 = IF p[1] \in gens /\ p[2] = i THEN G - 1 ELSE G
        BY <1>1, <1>2, <1>4, <1>12, <3>1, TallyRemoved
      <4> QED  BY <1>6, <1>12, <3>1, <4>1
    <3>2. CASE j # t
      BY <1>1, <1>6, <1>12, <3>2
    <3> QED  BY <3>1, <3>2
  <2>3. E1 = IF M THEN E - 1 ELSE E
    BY <1>1, <2>0, PairsAfter DEF M
  <2>4. P1 = P
    BY <1>1, <2>0, PairsAfter DEF M
  <2> HIDE DEF F, G, E, P, F1, G1, E1, P1
  <2> QED  BY <1>3, <1>5, <1>7, <2>1, <2>2, <2>3, <2>4
<1> QED  BY <1>9, <1>10, <1>11, <1>12 DEF PairMoves

\* A new entry is in no vector, and its vectors are empty.
LEMMA LinksEnter ==
    ASSUME ShapeOK, PointersInv, LinksInv, NEW c \in Clients, EnterStep(c)
    PROVE  LinksInv'
<1> DEFINE n == Len(client_db)
<1>1. /\ n \in Nat /\ DOMAIN client_db = 1..n /\ DOMAIN client_db' = 1..(n + 1)
      /\ \A i \in 1..n : client_db'[i] = client_db[i]
      /\ client_db'[n + 1].client_following = <<>> /\ client_db'[n + 1].client_followers = <<>>
  BY DEF EnterStep, Entry, ShapeOK
<1>2. \A d \in Clients : {call'[d].at, call[d].at} \cap {"pushFollowers", "eraseFollowers"} # {}
                           => call'[d] = call[d]
  BY CallChanged, AtType, PlaceNames DEF EnterStep
<1> SUFFICES ASSUME NEW gens \in SUBSET Nat, NEW i \in 1..(n + 1), NEW j \in 1..(n + 1)
             PROVE  Balanced(gens, i, j)'
  BY <1>1 DEF LinksInv
<1>3. /\ Pairs("pushFollowers", gens, i, j)' = Pairs("pushFollowers", gens, i, j)
      /\ Pairs("eraseFollowers", gens, i, j)' = Pairs("eraseFollowers", gens, i, j)
  BY <1>2, PairsKept
<1>4. CASE i \in 1..n /\ j \in 1..n
  <2>1. Balanced(gens, i, j)
    BY <1>1, <1>4 DEF LinksInv
  <2>2. /\ Tally(client_db'[i].client_following, gens, j) = Tally(client_db[i].client_following, gens, j)
        /\ Tally(client_db'[j].client_followers, gens, i) = Tally(client_db[j].client_followers, gens, i)
    BY <1>1, <1>4
  <2> QED  BY <1>3, <2>1, <2>2 DEF Balanced, Tally
<1>5. CASE i = n + 1 \/ j = n + 1
  <2>1. /\ \A place \in {"pushFollowers", "eraseFollowers"} : Pairs(place, gens, i, j) = {}
    <3> SUFFICES ASSUME NEW place \in {"pushFollowers", "eraseFollowers"}, NEW d \in Clients, call[d].at = place
                 PROVE  call[d].user1[2] # i \/ call[d].user2[2] # j
      BY DEF Pairs
    <3>1. Placed(call[d].user1) /\ Placed(call[d].user2)
      BY PairCall DEF PairCalls
    <3>2. call[d].user1[2] \in 1..n /\ call[d].user2[2] \in 1..n
      BY <3>1 DEF Placed
    <3> QED  BY <1>1, <1>5, <3>2
  <2>2. /\ Cardinality(Pairs("pushFollowers", gens, i, j)') = 0
        /\ Cardinality(Pairs("eraseFollowers", gens, i, j)') = 0
    BY <1>3, <2>1, FS_EmptySet
  <2>3. \A l : Tally(<<>>, gens, l) = 0
    BY FS_EmptySet DEF Tally
  <2>4. Tally(client_db'[i].client_following, gens, j) = 0
    <3>1. CASE i = n + 1
      BY <1>1, <2>3, <3>1
    <3>2. CASE i \in 1..n
      <4>1. j = n + 1 /\ client_db'[i].client_following = client_db[i].client_following
        BY <1>1, <1>5, <3>2
      <4>2. client_db[i].client_following \in Seq(Places)
        BY <3>2, EntryType DEF Entries
      <4>3. \A p \in ToSet(client_db[i].client_following) : p[2] # j
        BY <1>1, <3>2, <4>1, EntryPlaced DEF Placed
      <4>4. \A p \in ToSet(client_db[i].client_following) : ~(p[1] \in gens /\ p[2] = j)
        BY <4>3
      <4>5. Tally(client_db[i].client_following, gens, j) = 0
        BY <4>2, <4>4, TallyIs
      <4> QED  BY <4>1, <4>5
    <3> QED  BY <1>1, <3>1, <3>2
  <2>5. Tally(client_db'[j].client_followers, gens, i) = 0
    <3>1. CASE j = n + 1
      BY <1>1, <2>3, <3>1
    <3>2. CASE j \in 1..n
      <4>1. i = n + 1 /\ client_db'[j].client_followers = client_db[j].client_followers
        BY <1>1, <1>5, <3>2
      <4>2. client_db[j].client_followers \in Seq(Places)
        BY <3>2, EntryType DEF Entries
      <4>3. \A p \in ToSet(client_db[j].client_followers) : p[2] # i
        BY <1>1, <3>2, <4>1, EntryPlaced DEF Placed
      <4>4. \A p \in ToSet(client_db[j].client_followers) : ~(p[1] \in gens /\ p[2] = i)
        BY <4>3
      <4>5. Tally(client_db[j].client_followers, gens, i) = 0
        BY <4>2, <4>4, TallyIs
      <4> QED  BY <4>1, <4>5
    <3> QED  BY <1>1, <3>1, <3>2
  <2> QED  BY <2>2, <2>4, <2>5 DEF Balanced, Tally
<1> QED  BY <1>1, <1>4, <1>5

\* The end of a call changes no vector of pointers.
LEMMA EndLists ==
    ASSUME ShapeOK, PointersInv, NEW e \in ending, EndStep(e)
    PROVE  \A i \in 1..Len(client_db) :
             /\ client_db'[i].client_following = client_db[i].client_following
             /\ client_db'[i].client_followers = client_db[i].client_followers
<1>1. CASE MemoryStays
  BY <1>1 DEF MemoryStays
<1>2. CASE ~MemoryStays
  <2> DEFINE j == e.c[2]
             f == [client_db[j] EXCEPT !.connected = FALSE]
  <2>1. EntryTo(j, f)
    BY <1>2 DEF EndStep
  <2>2. client_db[j] \in Entries
    BY <2>1, EntryType DEF EntryTo
  <2>3. /\ f.client_following = client_db[j].client_following
        /\ f.client_followers = client_db[j].client_followers
    BY <2>2 DEF Entries
  <2> HIDE DEF j, f
  <2> QED  BY <2>1, <2>3, EntryChanged
<1> QED  BY <1>1, <1>2

\* Every step keeps the two sides balanced.
LEMMA LinksStay ==
    ASSUME ShapeOK, MemoryInv, PointersInv, LinksInv, ServiceNext
    PROVE  LinksInv'
<1>1. ASSUME NEW c \in Clients, NEW k, Look(c, k)
      PROVE  LinksInv'
  <2>1. \A d \in Clients : {call'[d].at, call[d].at} \cap {"pushFollowers", "eraseFollowers"} # {}
                             => call'[d] = call[d]
    BY <1>1, CallChanged DEF Look
  <2> QED  BY <1>1, <2>1, LookSame, LinksKept DEF Look, Served, MemoryStays
<1>2. ASSUME NEW c \in Clients, NEW k, NEW t, NEW e, TouchStep(c, k, t, e)
      PROVE  LinksInv'
  <2>1. CASE ListsKept(c, k, t, e)
    <3>1. \A i \in 1..Len(client_db) :
             /\ client_db'[i].client_following = client_db[i].client_following
             /\ client_db'[i].client_followers = client_db[i].client_followers
      BY <1>2, <2>1, EntryChanged DEF TouchStep, ListsKept
    <3>2. \A d \in Clients : {call'[d].at, call[d].at} \cap {"pushFollowers", "eraseFollowers"} # {}
                               => call'[d] = call[d]
      BY <1>2, <2>1, CallChanged DEF TouchStep, ListsKept
    <3> QED  BY <1>2, <3>1, <3>2, TouchSame, LinksKept
  <2> QED  BY <1>2, <2>1, LinksMove DEF TouchStep
<1>3. ASSUME NEW c \in Clients, KillStep(c)
      PROVE  LinksInv'
  <2>1. \A d \in Clients : {call'[d].at, call[d].at} \cap {"pushFollowers", "eraseFollowers"} # {}
                             => call'[d] = call[d]
    BY <1>3, CallChanged, AtType, PlaceNames DEF KillStep
  <2> QED  BY <1>3, <2>1, LookSame, LinksKept DEF KillStep, MemoryStays
<1>4. ASSUME NEW e \in ending, EndStep(e)
      PROVE  LinksInv'
  BY <1>4, EndSame, EndLists, LinksKept DEF EndStep
<1>5. ASSUME Restart PROVE LinksInv'
  BY <1>5 DEF Restart, LinksInv
<1>6. ASSUME NEW c \in Clients, Misbehave(c)
      PROVE  LinksInv'
  <2>1. client_db' = client_db /\ call' = call
    BY <1>6 DEF Misbehave, memory
  <2>2. \A place, gens, i, j : Pairs(place, gens, i, j)' = Pairs(place, gens, i, j)
    BY <2>1 DEF Pairs
  <2>3. \A gens, i, j : Balanced(gens, i, j)' <=> Balanced(gens, i, j)
    BY <2>1, <2>2 DEF Balanced, Tally
  <2> QED  BY <2>1, <2>3 DEF LinksInv
<1> QED  BY <1>1, <1>2, <1>3, <1>4, <1>5, <1>6, Kinds, KillEffect, EndEffect, LinksEnter
            DEF ServeKind, LookStep, WriteStep

-----------------------------------------------------------------------------
EraseOK(c) ==
    call[c].at = "eraseFollowing" =>
        call[c].user2 \in ToSet(client_db[call[c].user1[2]].client_following)

\* Every step keeps EraseInv.
LEMMA EraseStays ==
    ASSUME ShapeOK, MemoryInv, PointersInv, EraseInv, ServiceNext
    PROVE  EraseInv'
<1> SUFFICES ASSUME ~Twins PROVE \A d \in Clients : EraseOK(d)'
  <2>1. username' = username
    <3>1. ASSUME NEW c \in Clients, ServeKind(c) \/ Kill(c) \/ Misbehave(c)
          PROVE  username' = username
      BY <3>1, ServeGrows DEF Kill, Misbehave, MemoryGrows
    <3> QED  BY <3>1, Kinds DEF EndTimeline, Restart
  <2> QED  BY <2>1 DEF EraseInv, EraseOK, Twins, Alone
<1>1. \A d \in Clients : EraseOK(d)
  BY DEF EraseInv, EraseOK
<1> DEFINE Kept(d) == call'[d] = call[d] \/ call'[d].at # "eraseFollowing"
           ListKept(i) == ToSet(client_db[i].client_following) \subseteq ToSet(client_db'[i].client_following)
<1>2. ASSUME NEW d \in Clients, call'[d] = call[d], call[d].at = "eraseFollowing" => ListKept(call[d].user1[2])
      PROVE  EraseOK(d)'
  BY <1>1, <1>2 DEF EraseOK
<1>3. ASSUME NEW d \in Clients, call'[d].at # "eraseFollowing"
      PROVE  EraseOK(d)'
  BY <1>3 DEF EraseOK
<1>4. ASSUME NEW d \in Clients, call[d].at = "eraseFollowing"
      PROVE  call[d].user1[2] \in 1..Len(client_db) /\ client_db[call[d].user1[2]].username = username[d]
  BY <1>4, PairCall DEF PairCalls, IsOf, Placed
<1>5. ASSUME NEW c \in Clients, NEW k, Look(c, k)
      PROVE  \A d \in Clients : EraseOK(d)'
  <2>1. /\ call'[c] = k /\ \A d \in Clients \ {c} : call'[d] = call[d]
        /\ client_db' = client_db
    BY <1>5, CallChanged DEF Look, MemoryStays
  <2>2. EraseOK(c)'
    BY <1>5, <2>1 DEF Look, EraseOK
  <2> QED  BY <1>2, <2>1, <2>2
<1>6. ASSUME NEW c \in Clients, NEW k, NEW t, NEW e, TouchStep(c, k, t, e)
      PROVE  \A d \in Clients : EraseOK(d)'
  <2>1. /\ call'[c] = k /\ \A d \in Clients \ {c} : call'[d] = call[d]
        /\ k.at # "eraseFollowing"
        /\ t \in 1..Len(client_db) /\ client_db'[t] = e
        /\ \A l \in 1..Len(client_db) : l # t => client_db'[l] = client_db[l]
    BY <1>6, CallChanged, EntryChanged DEF TouchStep, EntryTo
  <2> SUFFICES ASSUME NEW d \in Clients, d # c, call[d].at = "eraseFollowing"
               PROVE  ListKept(call[d].user1[2])
    BY <1>2, <1>3, <2>1
  <2>2. PICK i \in 1..Len(client_db) : i = call[d].user1[2] /\ client_db[i].username = username[d]
    BY <1>4
  <2>3. CASE i # t
    BY <2>1, <2>2, <2>3
  <2>4. CASE i = t /\ ListsKept(c, k, t, e)
    BY <2>1, <2>2, <2>4 DEF ListsKept
  <2>5. CASE i = t /\ PairMoves(c, k, t, e)
    <3>1. CASE call[c].at = "eraseFollowing"
      <4>1. t = call[c].user1[2]
        BY <2>5, <3>1 DEF PairMoves
      <4>2. username[c] = username[d]
        BY <1>4, <2>2, <2>5, <3>1, <4>1
      <4> QED  BY <2>1, <4>2 DEF Twins, Alone
    <3>2. CASE call[c].at = "pushFollowing"
      <4>1. e.client_following = Append(client_db[t].client_following, call[c].user2)
        BY <2>5, <3>2 DEF PairMoves, Pushed
      <4>2. client_db[t].client_following \in Seq(Places) /\ call[c].user2 \in Places
        BY <2>1, <3>2, PairCall, EntryType DEF Entries, PairCalls
      <4>3. ToSet(e.client_following) = ToSet(client_db[t].client_following) \cup {call[c].user2}
        BY <4>1, <4>2, Appended
      <4> QED  BY <2>1, <2>2, <2>5, <4>3
    <3>3. CASE call[c].at \in {"pushFollowers", "eraseFollowers"}
      <4>1. e.client_following = client_db[t].client_following
        BY <2>5, <3>3 DEF PairMoves
      <4> QED  BY <2>1, <2>2, <2>5, <4>1
    <3> QED  BY <2>5, <3>1, <3>2, <3>3 DEF PairMoves
  <2> QED  BY <1>6, <2>3, <2>4, <2>5 DEF TouchStep
<1>7. ASSUME NEW c \in Clients, EnterStep(c)
      PROVE  \A d \in Clients : EraseOK(d)'
  <2>1. /\ call'[c].at = "prompt" /\ \A d \in Clients \ {c} : call'[d] = call[d]
        /\ \A i \in 1..Len(client_db) : client_db'[i] = client_db[i]
    BY <1>7, CallChanged, AtType, PlaceNames DEF EnterStep
  <2> QED  BY <1>2, <1>3, <1>4, <2>1
<1>8. ASSUME NEW c \in Clients, KillStep(c)
      PROVE  \A d \in Clients : EraseOK(d)'
  <2>1. /\ call'[c].at = "login" /\ \A d \in Clients \ {c} : call'[d] = call[d]
        /\ client_db' = client_db
    BY <1>8, CallChanged, AtType, PlaceNames DEF KillStep, MemoryStays
  <2> QED  BY <1>2, <1>3, <2>1
<1>9. ASSUME NEW e \in ending, EndStep(e)
      PROVE  \A d \in Clients : EraseOK(d)'
  <2>1. call' = call
    BY <1>9 DEF EndStep
  <2>2. \A i \in 1..Len(client_db) : client_db'[i].client_following = client_db[i].client_following
    BY <1>9, EndLists
  <2> QED  BY <1>2, <1>4, <2>1, <2>2
<1>10. ASSUME Restart PROVE \A d \in Clients : EraseOK(d)'
  <2>1. \A d \in Clients : call'[d].at # "eraseFollowing"
    BY <1>10, AtType, PlaceNames DEF Restart, InCall
  <2> QED  BY <1>3, <2>1
<1>11. ASSUME NEW c \in Clients, Misbehave(c)
       PROVE  \A d \in Clients : EraseOK(d)'
  BY <1>1, <1>11 DEF Misbehave, memory, EraseOK
<1> QED  BY <1>5, <1>6, <1>7, <1>8, <1>9, <1>10, <1>11, Kinds, KillEffect, EndEffect
            DEF ServeKind, LookStep, WriteStep

-----------------------------------------------------------------------------
(***************************************************************************)
(* What it takes to do what is undefined.                                  *)
(***************************************************************************)

\* A pointer that dangles is of a generation before the present one.
LEMMA DanglingIsOld ==
    ASSUME ShapeOK, NEW p, Placed(p), ~Valid(p)
    PROVE  generation > 1
BY DEF Placed, Valid, ShapeOK

\* A call finds no user only after a restart.
LEMMA NoUserCause ==
    ASSUME ShapeOK, LoginInv, NEW c \in Clients, NoUser(c)
    PROVE  restarts > 0
<1>1. call[c].at \notin {"login", "push"}
  BY DEF NoUser
<1>2. \A i \in DOMAIN client_db : client_db[i].username # username[c]
  BY FoundUser DEF NoUser
<1>3. restarts # 0
  BY <1>1, <1>2 DEF LoginInv
<1> QED  BY <1>3 DEF ShapeOK

\* The follower that the loop is at is one of the pointers of an entry.
LEMMA FollowerPlaced ==
    ASSUME ShapeOK, PointersInv, NEW c \in Clients, AtFollower(c)
    PROVE  Placed(Follower(c))
<1>1. /\ call[c].at = "deliver" /\ call[c] \in Calls /\ CallInv(call[c], c)
      /\ call[c].it <= Len(Deref(call[c].user1).client_followers)
  BY CallType DEF AtFollower
<1>2. Placed(call[c].user1) /\ call[c].it > 0 /\ call[c].it \in Nat
  BY <1>1 DEF CallInv, PostCalls, IsOf, Calls
<1> DEFINE i == call[c].user1[2]
           s == client_db[i].client_followers
<1>3. i \in 1..Len(client_db) /\ s \in Seq(Places)
  BY <1>2, CalledEntry
<1>4. Follower(c) = s[call[c].it] /\ call[c].it \in 1..Len(s)
  BY <1>1, <1>2, <1>3 DEF Follower, Deref
<1>5. Follower(c) \in ToSet(s)
  BY <1>3, <1>4 DEF ToSet
<1> QED  BY <1>3, <1>5, EntryPlaced

\* A pointer dangles only after the vector has moved.
LEMMA MovedCause ==
    ASSUME ShapeOK, PointersInv, NEW c \in Clients, Moved(c)
    PROVE  generation > 1
<1>1. call[c] \in Calls /\ CallInv(call[c], c)
  BY CallType
<1>2. CASE call[c].at \in {"pushFollowing", "eraseFollowing", "deliver"} /\ ~Valid(call[c].user1)
  <2>1. Placed(call[c].user1)
    BY <1>1, <1>2 DEF CallInv, IsOf, PairCalls, PostCalls
  <2> QED  BY <1>2, <2>1, DanglingIsOld
<1>3. CASE call[c].at \in {"pushFollowers", "eraseFollowers", "count"} /\ ~Valid(call[c].user2)
  <2>1. Placed(call[c].user2)
    BY <1>1, <1>3 DEF CallInv, PairCalls
  <2> QED  BY <1>3, <2>1, DanglingIsOld
<1>4. CASE AtFollower(c) /\ ~Valid(Follower(c))
  BY <1>4, FollowerPlaced, DanglingIsOld
<1>5. CASE /\ find_user(username[c]) # 0
           /\ \E p \in ToSet(client_db[find_user(username[c])].client_followers) : ~Valid(p)
  <2>1. find_user(username[c]) \in 1..Len(client_db)
    BY <1>5, FoundUser DEF ShapeOK
  <2> QED  BY <1>5, <2>1, EntryPlaced, DanglingIsOld
<1> QED  BY <1>2, <1>3, <1>4, <1>5 DEF Moved

\* A stream has ended only if a client was killed.
LEMMA DeadStreamCause ==
    ASSUME ShapeOK, PointersInv, StreamsInv, NEW c \in Clients, DeadStream(c)
    PROVE  \E d \in Clients : life[d] > 0
<1> DEFINE i == Follower(c)[2]
           s == client_db[i].stream
<1>1. AtFollower(c) /\ s # NoStream /\ ~Open(s)
  BY DEF DeadStream, Deref
<1>2. i \in 1..Len(client_db) /\ client_db[i] \in Entries /\ i \in DOMAIN client_db
  BY <1>1, FollowerPlaced, CalledEntry, EntryPlaced
<1>3. s[1] \in Clients /\ s[2] \in Nat /\ s = <<s[1], s[2]>>
  BY <1>1, <1>2 DEF Entries
<1>4. s[2] <= life[s[1]] /\ (s[2] = life[s[1]] => call[s[1]].at \in Chatting)
  BY <1>1, <1>2, StreamsByEntry DEF StreamOK
<1>5. s[2] # life[s[1]]
  <2> SUFFICES ASSUME s[2] = life[s[1]] PROVE FALSE
    OBVIOUS
  <2>1. s = Stream(s[1]) /\ call[s[1]].at \in InTimeline
    BY <1>3, <1>4 DEF Stream, Chatting
  <2> QED  BY <1>1, <1>3, <2>1 DEF Open
<1>6. life[s[1]] \in Nat
  BY <1>3 DEF ShapeOK
<1> HIDE DEF s
<1> QED  BY <1>3, <1>4, <1>5, <1>6

\* The other side is there, or another call of the user is taking it out.
LEMMA EraseEndCause ==
    ASSUME ShapeOK, PointersInv, LinksInv, EraseInv, NEW c \in Clients, EraseEnd(c)
    PROVE  Twins
<1> SUFFICES ASSUME ~Twins PROVE FALSE
  OBVIOUS
<1>1. CASE call[c].at = "eraseFollowing"
  BY <1>1 DEF EraseEnd, EraseInv, Deref
<1>2. CASE call[c].at = "eraseFollowers"
  <2> DEFINE p == call[c].user1
             q == call[c].user2
             i == p[2]
             j == q[2]
             gens == {generation}
  <2>1. /\ call[c] \in Calls /\ IsOf(p, c) /\ Placed(p) /\ Placed(q) /\ p[1] = q[1]
        /\ p \in Places
    BY <1>2, PairCall DEF PairCalls
  <2>2. q[1] = generation /\ p \notin ToSet(client_db[j].client_followers)
    BY <1>2 DEF EraseEnd, Valid, Deref
  <2>3. /\ i \in DOMAIN client_db /\ j \in DOMAIN client_db
        /\ client_db[i].client_following \in Seq(Places) /\ client_db[j].client_followers \in Seq(Places)
    BY <2>1, CalledEntry, EntryPlaced
  <2>4. gens \in SUBSET Nat
    BY DEF ShapeOK
  <2>5. Balanced(gens, i, j)
    BY <2>3, <2>4 DEF LinksInv
  <2>6. Tally(client_db[j].client_followers, gens, i) = 0
    <3>1. \A r \in ToSet(client_db[j].client_followers) : ~(r[1] \in gens /\ r[2] = i)
      <4> SUFFICES ASSUME NEW r \in ToSet(client_db[j].client_followers), r[1] = generation, r[2] = i
                   PROVE  FALSE
        OBVIOUS
      <4>1. j \in 1..Len(client_db)
        BY <2>1, CalledEntry
      <4>2. r \in Places
        BY <4>1, EntryPlaced
      <4>3. r = p
        BY <2>1, <2>2, <4>2 DEF Places
      <4> QED  BY <2>2, <4>3
    <3> QED  BY <2>3, <3>1, TallyIs
  <2>7. c \in Pairs("eraseFollowers", gens, i, j)
    BY <1>2, <2>1, <2>2 DEF Pairs
  <2>8. Cardinality(Pairs("eraseFollowers", gens, i, j)) > 0
    BY <2>7, PairsType
  <2>9. Tally(client_db[i].client_following, gens, j) \in Nat
    BY <2>3, TallyIs
  <2>10. Cardinality(Pairs("pushFollowers", gens, i, j)) # 0
    <3>1. Cardinality(Pairs("eraseFollowers", gens, i, j)) \in Nat
      BY PairsType
    <3> QED  BY <2>5, <2>6, <2>8, <2>9, <3>1 DEF Balanced
  <2>11. PICK d \in Pairs("pushFollowers", gens, i, j) : TRUE
    BY <2>10, FS_EmptySet
  <2>12. /\ d \in Clients /\ call[d].at = "pushFollowers" /\ call[d].user1[2] = i
    BY <2>11 DEF Pairs
  <2>13. IsOf(call[d].user1, d)
    BY <2>12, PairCall DEF PairCalls
  <2>14. username[d] = username[c] /\ d # c
    BY <1>2, <2>1, <2>12, <2>13 DEF IsOf
  <2> QED  BY <2>12, <2>14 DEF Twins, Alone
<1> QED  BY <1>1, <1>2 DEF EraseEnd

\* Every step keeps UndefinedHasACause.
LEMMA CausesStay ==
    ASSUME ShapeOK, MemoryInv, PointersInv, LoginInv, StreamsInv, LinksInv, EraseInv, ServiceNext
    PROVE  UndefinedHasACause'
<1>1. wild = "no"
  BY Kinds
<1>2. ASSUME wild' = "no" PROVE UndefinedHasACause'
  BY <1>2 DEF UndefinedHasACause
<1>3. ASSUME NEW c \in Clients, Misbehave(c) PROVE UndefinedHasACause'
  <2>1. /\ restarts' = restarts /\ life' = life /\ generation' = generation
        /\ username' = username
    BY <1>3 DEF Misbehave, memory
  <2>2. Twins' <=> Twins
    BY <2>1 DEF Twins, Alone
  <2>3. /\ wild' = "no user" => NoUser(c)
        /\ wild' = "moved" => Moved(c)
        /\ wild' = "dead stream" => DeadStream(c)
        /\ wild' = "erase end" => EraseEnd(c)
        /\ wild' # "unset"
    BY <1>3 DEF Misbehave
  <2>4. /\ wild' = "no user" => restarts > 0
        /\ wild' = "moved" => generation > 1
        /\ wild' = "dead stream" => \E d \in Clients : life[d] > 0
        /\ wild' = "erase end" => Twins
    BY <2>3, NoUserCause, MovedCause, DeadStreamCause, EraseEndCause
  <2> QED  BY <2>1, <2>2, <2>3, <2>4 DEF UndefinedHasACause
<1>4. ASSUME NEW e \in ending, EndStep(e) PROVE UndefinedHasACause'
  <2>1. life' = life
    BY <1>4 DEF EndStep
  <2>2. CASE wild' = "unset"
    <3>1. /\ e.stream[1] \in Clients /\ e.stream[2] \in Nat /\ e.stream[2] < life[e.stream[1]]
          /\ life[e.stream[1]] \in Nat
      BY StreamsByEntry DEF EndedOK, ShapeOK
    <3>2. life[e.stream[1]] > 0
      BY <3>1
    <3> QED  BY <2>1, <2>2, <3>1, <3>2 DEF UndefinedHasACause
  <2>3. CASE wild' = "moved" /\ MemoryStays
    <3>1. Placed(e.c) /\ ~Valid(e.c)
      BY <1>1, <1>4, <2>3 DEF PointersInv, IsOf, EndStep
    <3>2. generation' > 1
      BY <2>3, <3>1, DanglingIsOld DEF MemoryStays
    <3> QED  BY <2>3, <3>2 DEF UndefinedHasACause
  <2>4. CASE wild' = wild
    BY <1>1, <1>2, <2>4
  <2> QED  BY <1>4, <2>2, <2>3, <2>4 DEF EndStep
<1>5. ASSUME NEW c \in Clients, ServeKind(c) \/ KillStep(c) PROVE wild' = wild
  BY <1>5 DEF ServeKind, LookStep, WriteStep, Look, TouchStep, EnterStep, Served, KillStep
<1>6. ASSUME Restart PROVE wild' = wild
  BY <1>6 DEF Restart
<1> QED  BY <1>1, <1>2, <1>3, <1>4, <1>5, <1>6, Kinds, KillEffect, EndEffect

-----------------------------------------------------------------------------
\* The invariant holds before the first step.
LEMMA InitiallyInvariant ==
    ASSUME ServiceInit
    PROVE  ServiceInvariant
<1>1. /\ client_db = <<>> /\ capacity = 0 /\ generation = 0 /\ lines = [u \in Users |-> 0]
      /\ username \in [Clients -> Users] /\ life = [c \in Clients |-> 0]
      /\ call = [c \in Clients |-> At("login")] /\ ending = {}
      /\ left = MaxEvents /\ restarts = 0 /\ wild = "no"
  BY DEF ServiceInit, InitWith
<1>2. At("login") \in Calls /\ At("login").at = "login" /\ \A c : CallInv(At("login"), c)
  BY AtType, AtInv, PlaceNames DEF PairCalls, PostCalls
<1>3. client_db \in Seq(Entries) /\ Len(client_db) = 0 /\ DOMAIN client_db = {}
  BY <1>1
<1>4. ShapeOK
  BY <1>1, <1>2, <1>3, BoundTypes DEF ShapeOK
<1>5. MemoryInv
  BY <1>1, <1>3, BoundTypes DEF MemoryInv
<1>6. PointersInv
  BY <1>1, <1>2, <1>3 DEF PointersInv
<1>7. LoginInv /\ StreamsInv /\ ConnectedInv /\ LinksInv
  BY <1>1, <1>2, <1>3 DEF LoginInv, StreamsInv, ConnectedInv, LinksInv
<1>8. EraseInv /\ OneEntryEach /\ NewestAreShown /\ UndefinedHasACause
  BY <1>1, <1>2, <1>3 DEF EraseInv, OneEntryEach, NewestAreShown, UndefinedHasACause
<1> QED  BY <1>4, <1>5, <1>6, <1>7, <1>8 DEF ServiceInvariant

\* Every step keeps the invariant.
LEMMA InvariantStays ==
    ASSUME ServiceInvariant, [ServiceNext]_serviceVars
    PROVE  ServiceInvariant'
<1>1. /\ ShapeOK /\ MemoryInv /\ PointersInv /\ LoginInv /\ StreamsInv /\ ConnectedInv
      /\ LinksInv /\ EraseInv
      /\ OneEntryEach /\ NewestAreShown /\ UndefinedHasACause
  BY DEF ServiceInvariant
<1>2. CASE ServiceNext
  <2>1. ShapeOK' /\ MemoryInv' /\ PointersInv' /\ LoginInv' /\ StreamsInv' /\ ConnectedInv'
    BY <1>1, <1>2, ShapeStays, PointersStay, LoginStays, StreamsStay, ConnectedStays
  <2>2. LinksInv' /\ EraseInv' /\ OneEntryEach' /\ NewestAreShown' /\ UndefinedHasACause'
    BY <1>1, <1>2, LinksStay, EraseStays, OneEntryStays, NewestStay, CausesStay
  <2> QED  BY <2>1, <2>2 DEF ServiceInvariant
<1>3. CASE UNCHANGED serviceVars
  <2>1. UNCHANGED <<client_db, capacity, generation, lines, username, life, call, ending, left, restarts, wild>>
    BY <1>3 DEF serviceVars, memory
  <2>2. ShapeOK' /\ MemoryInv'
    BY <1>1, <2>1 DEF ShapeOK, MemoryInv
  <2>3. PointersInv'
    BY <1>1, <2>1 DEF PointersInv, CallInv, IsOf, Placed
  <2>4. LoginInv' /\ StreamsInv' /\ ConnectedInv' /\ OneEntryEach'
    BY <1>1, <2>1 DEF LoginInv, StreamsInv, ConnectedInv, OneEntryEach, Alone
  <2>5. LinksInv'
    <3>1. \A place, gens, i, j : Pairs(place, gens, i, j)' = Pairs(place, gens, i, j)
      BY <2>1 DEF Pairs
    <3>2. \A gens, i, j : Balanced(gens, i, j)' <=> Balanced(gens, i, j)
      BY <2>1, <3>1 DEF Balanced, Tally
    <3> QED  BY <1>1, <2>1, <3>2 DEF LinksInv
  <2>6. EraseInv' /\ UndefinedHasACause'
    BY <1>1, <2>1 DEF EraseInv, UndefinedHasACause, Twins, Alone
  <2>7. NewestAreShown'
    BY <1>1, <2>1 DEF NewestAreShown, Skipped
  <2> QED  BY <2>2, <2>3, <2>4, <2>5, <2>6, <2>7 DEF ServiceInvariant
<1> QED  BY <1>2, <1>3

-----------------------------------------------------------------------------
(***************************************************************************)
(* What follows from the invariant.                                        *)
(***************************************************************************)
LEMMA TypesFollow ==
    ASSUME ServiceInvariant
    PROVE  ServiceTypeOK
<1>1. ShapeOK /\ MemoryInv /\ PointersInv
  BY DEF ServiceInvariant
<1>2. \A p : Placed(p) => p \in Pointers
  BY <1>1 DEF ShapeOK, Placed, Pointers
<1>3. NoPointer \in Pointers
  BY <1>1 DEF ShapeOK, NoPointer, Pointers
<1>4. ASSUME NEW i \in DOMAIN client_db PROVE EntryTypeOK(client_db[i])
  <2>1. i \in 1..Len(client_db) /\ client_db[i] \in Entries
    BY <1>1, EntryType DEF ShapeOK
  <2>2. /\ ToSet(client_db[i].client_followers) \subseteq Pointers
        /\ ToSet(client_db[i].client_following) \subseteq Pointers
    BY <1>1, <1>2, <2>1, EntryPlaced
  <2> QED  BY <2>1, <2>2 DEF EntryTypeOK, Entries
<1>5. life \in [Clients -> 0..MaxEvents]
  <2>1. ASSUME NEW c \in Clients PROVE life[c] \in 0..MaxEvents
    <3>1. life[c] \in Nat /\ left \in Nat /\ life[c] + left <= MaxEvents
      BY <1>1 DEF ShapeOK, MemoryInv
    <3> QED  BY <3>1, BoundTypes
  <2> QED  BY <1>1, <2>1 DEF ShapeOK
<1>6. ASSUME NEW c \in Clients PROVE CallTypeOK(call[c])
  <2>1. call[c] \in Calls /\ CallInv(call[c], c)
    BY <1>1, CallType
  <2>2. call[c].user1 \in Pointers /\ call[c].user2 \in Pointers
    BY <1>2, <1>3, <2>1 DEF CallInv, IsOf
  <2> QED  BY <2>1, <2>2 DEF CallTypeOK, Calls
<1>7. ASSUME NEW e \in ending PROVE e.c \in Pointers
  BY <1>1, <1>2, <1>3 DEF PointersInv, IsOf
<1> QED  BY <1>1, <1>4, <1>5, <1>6, <1>7 DEF ServiceTypeOK, ShapeOK, MemoryInv

\* FollowsAgree is the balance of all generations with no call halfway.
LEMMA AgreementFollows ==
    ASSUME ServiceInvariant
    PROVE  FollowsAgree
<1>1. ShapeOK /\ PointersInv /\ LinksInv
  BY DEF ServiceInvariant
<1> SUFFICES ASSUME NEW i \in DOMAIN client_db, NEW j \in DOMAIN client_db, Halfway(i, j) = {}
             PROVE  Occurrences(client_db[i].client_following, j)
                      = Occurrences(client_db[j].client_followers, i)
  BY DEF FollowsAgree
<1>2. Balanced(Nat, i, j)
  BY <1>1 DEF LinksInv
<1>3. /\ Pairs("pushFollowers", Nat, i, j) = {} /\ Pairs("eraseFollowers", Nat, i, j) = {}
  BY DEF Halfway, Pairs
<1>4. ASSUME NEW s \in Seq(Places), NEW l
      PROVE  Occurrences(s, l) = Tally(s, Nat, l) /\ Tally(s, Nat, l) \in Nat
  <2>1. \A k \in DOMAIN s : s[k][1] \in Nat
    BY ElementOfSeq DEF Places
  <2>2. Occurrences(s, l) = Tally(s, Nat, l)
    BY <2>1 DEF Occurrences, Tally
  <2> QED  BY <2>2, TallyIs
<1>5. client_db[i].client_following \in Seq(Places) /\ client_db[j].client_followers \in Seq(Places)
  <2>1. i \in 1..Len(client_db) /\ j \in 1..Len(client_db)
    BY <1>1 DEF ShapeOK
  <2>2. client_db[i] \in Entries /\ client_db[j] \in Entries
    BY <1>1, <2>1, EntryType
  <2> QED  BY <2>2 DEF Entries
<1>6. /\ Cardinality(Pairs("pushFollowers", Nat, i, j)) = 0
      /\ Cardinality(Pairs("eraseFollowers", Nat, i, j)) = 0
  BY <1>3, FS_EmptySet
<1>7. Tally(client_db[i].client_following, Nat, j) = Tally(client_db[j].client_followers, Nat, i)
  BY <1>2, <1>4, <1>5, <1>6 DEF Balanced
<1> QED  BY <1>4, <1>5, <1>7

\* ChattersAreReached follows from the streams and the connections.
LEMMA ReachFollows ==
    ASSUME ServiceInvariant
    PROVE  ChattersAreReached
<1>1. ShapeOK /\ PointersInv /\ StreamsInv /\ ConnectedInv
  BY DEF ServiceInvariant
<1> SUFFICES ASSUME NEW c \in Clients, Alone(c), life[c] = 0, call[c].at \in Chatting
             PROVE  LET e == client_db[find_user(username[c])]
                    IN e.connected /\ e.stream = Stream(c)
  BY DEF ChattersAreReached, Chatting
<1> DEFINE i == find_user(username[c])
           s == client_db[i].stream
<1>2. IsOf(call[c].user1, c)
  BY <1>1, CallType DEF CallInv, Chatting, InTimeline, PostCalls
<1>3. \E l \in DOMAIN client_db : client_db[l].username = username[c]
  BY <1>1, <1>2 DEF IsOf, Placed, ShapeOK
<1>4. i \in 1..Len(client_db) /\ client_db[i].username = username[c] /\ i \in DOMAIN client_db
  BY <1>1, <1>3, FoundUser DEF ShapeOK
<1>5. client_db[i] \in Entries
  BY <1>1, <1>4, EntryType
<1>6. client_db[i].connected
  BY <1>1, <1>4 DEF ConnectedInv
<1>7. s # NoStream
  BY <1>1, <1>4, StreamsByEntry DEF ReachOK
<1>8. s[1] \in Clients /\ s[2] \in Nat /\ s = <<s[1], s[2]>>
  BY <1>5, <1>7 DEF Entries
<1>9. username[s[1]] = username[c] /\ s[2] <= life[s[1]]
  BY <1>1, <1>4, <1>7, StreamsByEntry DEF StreamOK
<1>10. s[1] = c
  BY <1>8, <1>9 DEF Alone
<1>11. s = Stream(c)
  <2>1. s[2] = 0
    BY <1>8, <1>9, <1>10
  <2> HIDE DEF s
  <2> QED  BY <1>8, <1>10, <2>1 DEF Stream
<1> QED  BY <1>6, <1>11

(***************************************************************************)
(* The inductive invariant holds of the service for any number of clients, *)
(* users and events (tsd.cc).                                              *)
(***************************************************************************)
THEOREM ServiceInvariantHolds == ServiceSpec => []ServiceInvariant
<1>1. ServiceInit => ServiceInvariant
  BY InitiallyInvariant
<1>2. ServiceInvariant /\ [ServiceNext]_serviceVars => ServiceInvariant'
  BY InvariantStays
<1> QED  BY <1>1, <1>2, PTL DEF ServiceSpec

(***************************************************************************)
(* Every pointer is to a place that the vector has, in a generation that   *)
(* it had, and client_db fits its memory, whatever threads do in between.  *)
(***************************************************************************)
THEOREM ServiceTypes == ServiceSpec => []ServiceTypeOK
<1>1. ServiceInvariant => ServiceTypeOK
  BY TypesFollow
<1> QED  BY <1>1, ServiceInvariantHolds, PTL

\* A user is entered once (tsd.cc:231-234) unless two clients of one user log in.
THEOREM UsersAreEnteredOnce == ServiceSpec => []OneEntryEach
<1>1. ServiceInvariant => OneEntryEach
  BY DEF ServiceInvariant
<1> QED  BY <1>1, ServiceInvariantHolds, PTL

(***************************************************************************)
(* The two vectors of a pair of users agree but for the calls that are     *)
(* between their two changes (tsd.cc:199-200, 220-221).                    *)
(***************************************************************************)
THEOREM BothSidesAgree == ServiceSpec => []FollowsAgree
<1>1. ServiceInvariant => FollowsAgree
  BY AgreementFollows
<1> QED  BY <1>1, ServiceInvariantHolds, PTL

(***************************************************************************)
(* The timeline leaves out none of the newest Window lines that are in the *)
(* file, for the count is never ahead of it (tsd.cc:275-286, 304-306).     *)
(***************************************************************************)
THEOREM NewestAreAlwaysShown == ServiceSpec => []NewestAreShown
<1>1. ServiceInvariant => NewestAreShown
  BY DEF ServiceInvariant
<1> QED  BY <1>1, ServiceInvariantHolds, PTL

(***************************************************************************)
(* Whatever the service does that is undefined has one of the causes that  *)
(* UndefinedHasACause names (tsd.cc:193, 220, 234, 258, 300, 312).         *)
(***************************************************************************)
THEOREM UndefinedIsCaused == ServiceSpec => []UndefinedHasACause
<1>1. ServiceInvariant => UndefinedHasACause
  BY DEF ServiceInvariant
<1> QED  BY <1>1, ServiceInvariantHolds, PTL

(***************************************************************************)
(* Who is in the timeline, as the only client of a user and for the first  *)
(* time, is connected and has the stream that posts go to (tsd.cc:272).    *)
(***************************************************************************)
THEOREM ChattersAreAlwaysReached == ServiceSpec => []ChattersAreReached
<1>1. ServiceInvariant => ChattersAreReached
  BY ReachFollows
<1> QED  BY <1>1, ServiceInvariantHolds, PTL
=============================================================================
