------------------------ MODULE ConnectionPoolProofs ------------------------
(***************************************************************************)
(* Theorems about class ConnectionPool, for every number of threads, pool  *)
(* size and depth of nesting.                                              *)
(***************************************************************************)
EXTENDS ConnectionPool, SequenceTheorems, FunctionTheorems, FiniteSetTheorems, TLAPS

(* Slots, Holders and the first part of Exclusive, of any value h of held; *)
(* the connections in p and the first part of Accounted, of any pool p.    *)
SlotsOf(h)   == {s \in Threads \X (1 .. MaxHeld) : s[2] <= Len(h[s[1]])}
HoldersOf(h) == {h[s[1]][s[2]] : s \in SlotsOf(h)}
LentOnce(h)  == \A s1, s2 \in SlotsOf(h) :
                    s1 # s2 => h[s1[1]][s1[2]] # h[s2[1]][s2[2]]
PooledIn(p)   == {p[i] : i \in DOMAIN p}
PooledOnce(p) == \A i, j \in DOMAIN p : i # j => p[i] # p[j]

(* What Push and UnBorrow make of held. *)
Lent(h, t, c)  == [h EXCEPT ![t] = Append(@, c)]
GivenBack(h, t) == [h EXCEPT ![t] = SubSeq(@, 1, Len(@) - 1)]

(* A thread never has more than MaxHeld, and room for what it asks for. *)
RoomInv ==
    \A t \in Threads :
        /\ Len(held[t]) <= MaxHeld
        /\ t \in waiting \/ owner = t => Len(held[t]) < MaxHeld

(* A thread connects only while m_Pool is empty, and not before the start  *)
(* is over.                                                                *)
OwnerInv ==
    /\ owner # None => pool = <<>> /\ owner \notin waiting
    /\ status = "starting" => owner = None /\ created <= PoolSize

IInv == TypeOK /\ Exclusive /\ Accounted /\ Bounded /\ RoomInv /\ OwnerInv
-----------------------------------------------------------------------------
(* Sequences of connections. *)

(* push_back to m_Pool. *)
LEMMA AppendPool ==
    ASSUME NEW p \in Seq(Nat), NEW c \in Nat
    PROVE  /\ Append(p, c) \in Seq(Nat)
           /\ PooledIn(Append(p, c)) = PooledIn(p) \union {c}
           /\ PooledOnce(p) /\ c \notin PooledIn(p) => PooledOnce(Append(p, c))
<1> DEFINE q == Append(p, c)
<1>1. /\ q \in Seq(Nat) /\ Len(q) = Len(p) + 1
      /\ \A i \in 1 .. Len(p) : q[i] = p[i]
      /\ q[Len(p) + 1] = c
  BY AppendProperties
<1>2. DOMAIN p = 1 .. Len(p) /\ DOMAIN q = 1 .. Len(q) /\ Len(p) \in Nat
  BY <1>1, LenProperties
<1> HIDE DEF q
<1>3. DOMAIN q = DOMAIN p \union {Len(p) + 1} /\ Len(p) + 1 \notin DOMAIN p
  BY <1>1, <1>2
<1>4. /\ \A i \in DOMAIN p : q[i] = p[i]
      /\ q[Len(p) + 1] = c
  BY <1>1, <1>2
<1>5. PooledIn(q) = PooledIn(p) \union {c}
  BY <1>3, <1>4 DEF PooledIn
<1>6. ASSUME PooledOnce(p), c \notin PooledIn(p) PROVE PooledOnce(q)
  BY <1>3, <1>4, <1>6 DEF PooledIn, PooledOnce
<1> QED
  BY <1>1, <1>5, <1>6 DEF q

(* front and pop_front of m_Pool. *)
LEMMA TailPool ==
    ASSUME NEW p \in Seq(Nat), p # <<>>, PooledOnce(p)
    PROVE  /\ Tail(p) \in Seq(Nat) /\ Head(p) \in Nat
           /\ Head(p) \in PooledIn(p)
           /\ PooledIn(Tail(p)) = PooledIn(p) \ {Head(p)}
           /\ PooledOnce(Tail(p))
<1> DEFINE q == Tail(p)
<1>1. /\ q \in Seq(Nat) /\ Len(q) = Len(p) - 1 /\ Head(p) \in Nat
      /\ \A i \in 1 .. Len(q) : q[i] = p[i + 1]
  BY HeadTailProperties
<1>2. /\ DOMAIN p = 1 .. Len(p) /\ DOMAIN q = 1 .. Len(q)
      /\ Len(p) \in Nat /\ Len(q) \in Nat
  BY <1>1, LenProperties
<1>3. Head(p) = p[1] /\ Len(p) # 0
  BY <1>2, EmptySeq
<1> HIDE DEF q
<1>4. 1 \in DOMAIN p /\ \A i \in DOMAIN q : i + 1 \in DOMAIN p /\ i + 1 # 1 /\ q[i] = p[i + 1]
  BY <1>1, <1>2, <1>3
<1>5. ASSUME NEW j \in DOMAIN p, j # 1 PROVE j - 1 \in DOMAIN q /\ q[j - 1] = p[j]
  <2>1. j \in Nat /\ j - 1 \in 1 .. Len(q) /\ j - 1 + 1 = j
    BY <1>1, <1>2, <1>5
  <2>2. q[j - 1] = p[j - 1 + 1]
    BY <1>1, <2>1
  <2> QED
    BY <1>2, <2>1, <2>2
<1>6. \A i \in DOMAIN q : p[i + 1] # p[1]
  BY <1>4 DEF PooledOnce
<1>7. PooledIn(q) = PooledIn(p) \ {p[1]}
  <2>1. ASSUME NEW x \in PooledIn(q) PROVE x \in PooledIn(p) \ {p[1]}
    BY <1>4, <1>6 DEF PooledIn
  <2>2. ASSUME NEW x \in PooledIn(p) \ {p[1]} PROVE x \in PooledIn(q)
    BY <1>5 DEF PooledIn
  <2> QED
    BY <2>1, <2>2
<1>8. PooledOnce(q)
  <2>1. ASSUME NEW i \in DOMAIN q, NEW j \in DOMAIN q, i # j PROVE q[i] # q[j]
    <3>1. i + 1 # j + 1
      BY <1>2, <2>1
    <3> QED
      BY <1>4, <3>1 DEF PooledOnce
  <2> QED
    BY <2>1 DEF PooledOnce
<1>9. p[1] \in PooledIn(p)
  BY <1>4 DEF PooledIn
<1> QED
  BY <1>1, <1>3, <1>7, <1>8, <1>9 DEF q

(* A thread is handed a connection that nobody had. *)
LEMMA Pushed ==
    ASSUME NEW h \in [Threads -> Seq(Nat)], NEW t \in Threads, NEW c \in Nat,
           Len(h[t]) < MaxHeld, LentOnce(h), c \notin HoldersOf(h)
    PROVE  LET g == Lent(h, t, c) IN
           /\ g \in [Threads -> Seq(Nat)]
           /\ \A u \in Threads : Len(g[u]) = IF u = t THEN Len(h[t]) + 1 ELSE Len(h[u])
           /\ LentOnce(g)
           /\ HoldersOf(g) = HoldersOf(h) \union {c}
<1> DEFINE new == <<t, Len(h[t]) + 1>>
           g   == Lent(h, t, c)
<1>1. /\ Append(h[t], c) \in Seq(Nat) /\ Len(Append(h[t], c)) = Len(h[t]) + 1
      /\ \A i \in 1 .. Len(h[t]) : Append(h[t], c)[i] = h[t][i]
      /\ Append(h[t], c)[Len(h[t]) + 1] = c
  BY AppendProperties
<1>2. \A u \in Threads : Len(h[u]) \in Nat
  BY LenProperties
<1>3. g \in [Threads -> Seq(Nat)] /\ g[t] = Append(h[t], c)
      /\ \A u \in Threads : u # t => g[u] = h[u]
  BY <1>1 DEF Lent
<1> HIDE DEF g
<1>4. \A u \in Threads : Len(g[u]) = IF u = t THEN Len(h[t]) + 1 ELSE Len(h[u])
  BY <1>1, <1>3
<1>5. SlotsOf(g) = SlotsOf(h) \union {new}
  <2>1. new \in Threads \X (1 .. MaxHeld)
    BY <1>2, PoolAssumption
  <2>2. ASSUME NEW u \in Threads, NEW k \in 1 .. MaxHeld
        PROVE  k <= Len(g[u]) <=> k <= Len(h[u]) \/ <<u, k>> = new
    BY <1>2, <1>4, PoolAssumption
  <2> QED
    BY <2>1, <2>2 DEF SlotsOf
<1>6. ASSUME NEW s \in SlotsOf(h) PROVE g[s[1]][s[2]] = h[s[1]][s[2]]
  <2>1. s[1] \in Threads /\ s[2] \in 1 .. MaxHeld /\ s[2] <= Len(h[s[1]])
    BY DEF SlotsOf
  <2>2. s[2] \in 1 .. Len(h[s[1]])
    BY <1>2, <2>1, PoolAssumption
  <2>3. CASE s[1] = t
    <3>1. g[s[1]] = Append(h[t], c) /\ s[2] \in 1 .. Len(h[t])
      BY <1>3, <2>2, <2>3
    <3>2. Append(h[t], c)[s[2]] = h[t][s[2]]
      BY <1>1, <3>1
    <3> QED
      BY <2>3, <3>1, <3>2
  <2>4. CASE s[1] # t
    BY <1>3, <2>1, <2>4
  <2> QED
    BY <2>3, <2>4
<1>7. g[new[1]][new[2]] = c
  BY <1>1, <1>3
<1> HIDE DEF new
<1>8. HoldersOf(g) = HoldersOf(h) \union {c}
  BY <1>5, <1>6, <1>7 DEF HoldersOf
<1>9. LentOnce(g)
  <2>1. \A s \in SlotsOf(h) : h[s[1]][s[2]] # c
    BY DEF HoldersOf
  <2>2. ASSUME NEW s1 \in SlotsOf(g), NEW s2 \in SlotsOf(g), s1 # s2
        PROVE  g[s1[1]][s1[2]] # g[s2[1]][s2[2]]
    <3>1. CASE s1 \in SlotsOf(h) /\ s2 \in SlotsOf(h)
      <4>1. h[s1[1]][s1[2]] # h[s2[1]][s2[2]]
        BY <2>2, <3>1 DEF LentOnce
      <4> QED
        BY <1>6, <3>1, <4>1
    <3>2. CASE s1 = new
      BY <1>5, <1>6, <1>7, <2>1, <2>2, <3>2
    <3>3. CASE s2 = new
      BY <1>5, <1>6, <1>7, <2>1, <2>2, <3>3
    <3> QED
      BY <1>5, <3>1, <3>2, <3>3
  <2> QED
    BY <2>2 DEF LentOnce
<1> QED
  BY <1>3, <1>4, <1>8, <1>9 DEF g

(* A thread gives back what it was lent last. *)
LEMMA Popped ==
    ASSUME NEW h \in [Threads -> Seq(Nat)], NEW t \in Threads, h[t] # <<>>,
           \A u \in Threads : Len(h[u]) <= MaxHeld, LentOnce(h)
    PROVE  LET g == GivenBack(h, t) IN
           /\ g \in [Threads -> Seq(Nat)]
           /\ \A u \in Threads : Len(g[u]) = IF u = t THEN Len(h[t]) - 1 ELSE Len(h[u])
           /\ LentOnce(g)
           /\ h[t][Len(h[t])] \in HoldersOf(h) /\ h[t][Len(h[t])] \in Nat
           /\ HoldersOf(g) = HoldersOf(h) \ {h[t][Len(h[t])]}
<1> DEFINE old == <<t, Len(h[t])>>
           c   == h[t][Len(h[t])]
           q   == SubSeq(h[t], 1, Len(h[t]) - 1)
           g   == GivenBack(h, t)
<1>1. /\ \A u \in Threads : Len(h[u]) \in Nat
      /\ Len(h[t]) \in Nat \ {0}
  BY LenProperties, EmptySeq
<1>2. q \in Seq(Nat) /\ Len(q) = Len(h[t]) - 1
      /\ \A i \in 1 .. Len(h[t]) - 1 : q[i] = h[t][i]
  <2>1. \A i \in 1 .. Len(h[t]) - 1 : h[t][i] \in Nat
    BY <1>1, ElementOfSeq
  <2> DEFINE n == Len(h[t]) - 1
  <2>2. n \in Nat
    BY <1>1
  <2> HIDE DEF n
  <2>3. /\ SubSeq(h[t], 1, n) \in Seq(Nat)
        /\ Len(SubSeq(h[t], 1, n)) = IF 1 <= n THEN n - 1 + 1 ELSE 0
        /\ \A i \in 1 .. n - 1 + 1 : SubSeq(h[t], 1, n)[i] = h[t][1 + i - 1]
    BY <2>1, <2>2, SubSeqProperties DEF n
  <2>4. Len(SubSeq(h[t], 1, n)) = n
    BY <2>2, <2>3
  <2>5. ASSUME NEW i \in 1 .. n PROVE SubSeq(h[t], 1, n)[i] = h[t][i]
    <3>1. i \in 1 .. n - 1 + 1 /\ 1 + i - 1 = i
      BY <2>2
    <3> QED
      BY <2>3, <3>1
  <2> QED
    BY <2>3, <2>4, <2>5 DEF n
<1>3. g \in [Threads -> Seq(Nat)] /\ g[t] = q
      /\ \A u \in Threads : u # t => g[u] = h[u]
  BY <1>2 DEF GivenBack
<1> HIDE DEF q, g
<1>4. \A u \in Threads : Len(g[u]) = IF u = t THEN Len(h[t]) - 1 ELSE Len(h[u])
  BY <1>2, <1>3
<1>5. old \in SlotsOf(h) /\ SlotsOf(g) = SlotsOf(h) \ {old}
  <2>1. old \in Threads \X (1 .. MaxHeld) /\ old[2] <= Len(h[old[1]])
    BY <1>1, PoolAssumption
  <2>2. ASSUME NEW u \in Threads, NEW k \in 1 .. MaxHeld
        PROVE  k <= Len(g[u]) <=> k <= Len(h[u]) /\ <<u, k>> # old
    BY <1>1, <1>4, PoolAssumption
  <2> QED
    BY <2>1, <2>2 DEF SlotsOf
<1>6. ASSUME NEW s \in SlotsOf(g) PROVE g[s[1]][s[2]] = h[s[1]][s[2]]
  <2>1. s[1] \in Threads /\ s[2] \in 1 .. MaxHeld /\ s[2] <= Len(g[s[1]])
    BY DEF SlotsOf
  <2>2. s[2] \in 1 .. Len(g[s[1]])
    BY <1>1, <1>4, <2>1, PoolAssumption
  <2> QED
    BY <1>2, <1>3, <2>1, <2>2
<1>7. h[old[1]][old[2]] = c /\ c \in Nat
  BY <1>1, ElementOfSeq
<1> HIDE DEF old, c
<1>8. LentOnce(g)
  <2>1. ASSUME NEW s1 \in SlotsOf(g), NEW s2 \in SlotsOf(g), s1 # s2
        PROVE  g[s1[1]][s1[2]] # g[s2[1]][s2[2]]
    <3>1. h[s1[1]][s1[2]] # h[s2[1]][s2[2]]
      BY <1>5, <2>1 DEF LentOnce
    <3> QED
      BY <1>6, <3>1
  <2> QED
    BY <2>1 DEF LentOnce
<1>9. HoldersOf(g) = HoldersOf(h) \ {c}
  <2>1. \A s \in SlotsOf(g) : h[s[1]][s[2]] # c
    BY <1>5, <1>7 DEF LentOnce
  <2>2. HoldersOf(g) = {h[s[1]][s[2]] : s \in SlotsOf(g)}
    BY <1>6 DEF HoldersOf
  <2>3. HoldersOf(h) = HoldersOf(g) \union {c}
    BY <1>5, <1>7, <2>2 DEF HoldersOf
  <2>4. c \notin HoldersOf(g)
    BY <2>1, <2>2
  <2> QED
    BY <2>3, <2>4
<1>10. c \in HoldersOf(h)
  BY <1>5, <1>7 DEF HoldersOf
<1> QED
  BY <1>3, <1>4, <1>7, <1>8, <1>9, <1>10 DEF c, g

(* The threads together hold no more than MaxHeld connections each. *)
LEMMA HoldersCount ==
    ASSUME NEW h
    PROVE  /\ IsFiniteSet(HoldersOf(h))
           /\ Cardinality(HoldersOf(h)) <= Cardinality(Threads) * MaxHeld
           /\ Cardinality(HoldersOf(h)) \in Nat
           /\ Cardinality(Threads) * MaxHeld \in Nat
<1> DEFINE all == Threads \X (1 .. MaxHeld)
           f   == [s \in SlotsOf(h) |-> h[s[1]][s[2]]]
<1>1. IsFiniteSet(1 .. MaxHeld) /\ Cardinality(1 .. MaxHeld) = MaxHeld
  BY PoolAssumption, FS_Interval
<1>2. IsFiniteSet(all) /\ Cardinality(all) = Cardinality(Threads) * MaxHeld
  BY <1>1, PoolAssumption, FS_Product
<1>3. SlotsOf(h) \in SUBSET all
  BY DEF SlotsOf
<1> HIDE DEF all
<1>4. IsFiniteSet(SlotsOf(h)) /\ Cardinality(SlotsOf(h)) <= Cardinality(all)
  BY <1>2, <1>3, FS_Subset
<1>5. f \in Surjection(SlotsOf(h), HoldersOf(h))
  BY DEF HoldersOf, Surjection
<1> HIDE DEF f
<1>6. /\ IsFiniteSet(HoldersOf(h))
      /\ Cardinality(HoldersOf(h)) <= Cardinality(SlotsOf(h))
  BY <1>4, <1>5, FS_Surjection
<1>7. /\ Cardinality(HoldersOf(h)) \in Nat /\ Cardinality(SlotsOf(h)) \in Nat
      /\ Cardinality(all) \in Nat
  BY <1>2, <1>4, <1>6, FS_CardinalityType
<1> QED
  BY <1>2, <1>4, <1>6, <1>7
-----------------------------------------------------------------------------
(* The state. *)

(* The properties in the terms of the lemmas.                              *)
LEMMA Reading ==
    /\ Slots = SlotsOf(held) /\ Holders = HoldersOf(held) /\ Pooled = PooledIn(pool)
    /\ Exclusive <=> LentOnce(held) /\ Holders \intersect Pooled = {}
    /\ Accounted <=> /\ PooledOnce(pool) /\ borrowed = Holders
                     /\ Pooled \union borrowed = 1 .. created
  BY DEF Slots, Holders, At, Pooled, SlotsOf, HoldersOf, PooledIn, Exclusive,
         LentOnce, Accounted, PooledOnce

(* A step that leaves the connections alone.                               *)
LEMMA ConnectionsKept ==
    ASSUME Exclusive, Accounted, Bounded, UNCHANGED <<created, pool, borrowed, held>>
    PROVE  Exclusive' /\ Accounted' /\ Bounded'
<1>1. created' = created /\ pool' = pool /\ borrowed' = borrowed /\ held' = held
  OBVIOUS
<1>2. Slots' = Slots /\ (\A s : At(s)' = At(s)) /\ Pooled' = Pooled
  BY <1>1 DEF Slots, At, Pooled
<1>3. Holders' = Holders
  BY <1>2 DEF Holders
<1>4. Exclusive'
  BY <1>2, <1>3 DEF Exclusive
<1>5. Accounted'
  BY <1>1, <1>2, <1>3 DEF Accounted
<1>6. Bounded'
  BY <1>1 DEF Bounded
<1> QED
  BY <1>4, <1>5, <1>6

(* The invariant holds when the constructor of ConnectionPool begins.      *)
LEMMA InitIInv == Init => IInv
<1> SUFFICES ASSUME Init PROVE IInv
  OBVIOUS
<1>1. <<>> \in Seq(Nat) /\ Len(<<>>) = 0 /\ DOMAIN <<>> = {}
  BY EmptySeq
<1>2. TypeOK
  BY <1>1 DEF Init, TypeOK
<1>3. Slots = {} /\ Holders = {} /\ Pooled = {}
  <2>1. \A t \in Threads : Len(held[t]) = 0
    BY <1>1 DEF Init
  <2>2. Slots = {}
    BY <2>1 DEF Slots
  <2> QED
    BY <1>1, <2>2 DEF Init, Holders, Pooled
<1>4. Exclusive /\ Accounted
  BY <1>1, <1>3 DEF Init, Exclusive, Accounted
<1>5. Bounded
  BY HoldersCount, PoolAssumption DEF Init, Bounded
<1>6. RoomInv
  BY <1>1, PoolAssumption DEF Init, RoomInv
<1>7. OwnerInv
  BY PoolAssumption DEF Init, OwnerInv
<1> QED
  BY <1>2, <1>4, <1>5, <1>6, <1>7 DEF IInv

(* A connection made at the start is new, and in m_Pool once.              *)
LEMMA StartConnectsPreserves ==
    ASSUME IInv, StartConnects PROVE IInv'
<1> USE DEF IInv, StartConnects
<1> DEFINE c == created + 1
<1>1. created \in Nat /\ c \in Nat /\ pool \in Seq(Nat)
  BY DEF TypeOK
<1>2. c \notin Pooled /\ c \notin Holders
  <2>1. c \notin Pooled \union borrowed
    BY <1>1, Reading
  <2> QED
    BY <2>1, Reading
<1>3. /\ pool' \in Seq(Nat) /\ Pooled' = Pooled \union {c} /\ PooledOnce(pool')
  <2>1. /\ Append(pool, c) \in Seq(Nat)
        /\ PooledIn(Append(pool, c)) = PooledIn(pool) \union {c}
        /\ PooledOnce(pool) /\ c \notin PooledIn(pool) => PooledOnce(Append(pool, c))
    BY <1>1, AppendPool
  <2>2. Pooled' = PooledIn(pool') /\ pool' = Append(pool, c)
    BY DEF Pooled, PooledIn
  <2> QED
    BY <1>2, <2>1, <2>2, Reading
<1>4. Slots' = Slots /\ Holders' = Holders /\ LentOnce(held')
  BY Reading DEF Slots, Holders, At
<1>5. TypeOK'
  BY <1>1, <1>3 DEF TypeOK
<1>6. Exclusive'
  BY <1>2, <1>3, <1>4, Reading DEF Exclusive, LentOnce, SlotsOf, Slots, At
<1>7. Accounted'
  <2>1. 1 .. created + 1 = (1 .. created) \union {c}
    BY <1>1
  <2>2. Pooled' \union borrowed' = 1 .. created'
    BY <1>3, <2>1, Reading
  <2>3. borrowed' = Holders'
    BY <1>4, Reading
  <2> QED
    BY <1>3, <2>2, <2>3 DEF Accounted, PooledOnce
<1>8. Bounded'
  <2>1. created + 1 <= PoolSize
    BY <1>1, PoolAssumption DEF OwnerInv
  <2>2. Cardinality(Threads) * MaxHeld \in Nat
    BY HoldersCount
  <2> QED
    BY <1>1, <2>1, <2>2, PoolAssumption DEF Bounded
<1>9. RoomInv' /\ OwnerInv'
  BY <1>1, PoolAssumption DEF RoomInv, OwnerInv
<1> QED
  BY <1>5, <1>6, <1>7, <1>8, <1>9

(* The end of the start changes no connection.                                             *)
LEMMA StartEndsPreserve ==
    ASSUME IInv, StartNoSchema \/ StartUnreachable \/ Started PROVE IInv'
<1>1. UNCHANGED <<created, pool, borrowed, waiting, owner, held, closing>>
      /\ status' \in {"failed", "crashed", "up"}
  BY DEF StartNoSchema, StartUnreachable, Started
<1>2. Exclusive' /\ Accounted' /\ Bounded'
  BY <1>1, ConnectionsKept DEF IInv
<1>3. TypeOK' /\ RoomInv' /\ OwnerInv'
  BY <1>1 DEF IInv, TypeOK, RoomInv, OwnerInv
<1> QED
  BY <1>2, <1>3 DEF IInv

(* A thread that asks has room for one connection more.                    *)
LEMMA AskPreserves ==
    ASSUME IInv, NEW t \in Threads, Ask(t) PROVE IInv'
<1>1. Exclusive' /\ Accounted' /\ Bounded'
  BY ConnectionsKept DEF IInv, Ask
<1>2. TypeOK' /\ RoomInv' /\ OwnerInv'
  BY DEF IInv, Ask, TypeOK, RoomInv, OwnerInv
<1> QED
  BY <1>1, <1>2 DEF IInv

(* A thread takes the mutex to connect: m_Pool is empty and stays so.      *)
LEMMA BorrowMissesPreserves ==
    ASSUME IInv, NEW t \in Threads, BorrowMisses(t) PROVE IInv'
<1>1. Exclusive' /\ Accounted' /\ Bounded'
  BY ConnectionsKept DEF IInv, BorrowMisses
<1>2. TypeOK' /\ RoomInv' /\ OwnerInv'
  BY DEF IInv, BorrowMisses, TypeOK, RoomInv, OwnerInv
<1> QED
  BY <1>1, <1>2 DEF IInv

(* A failed connect leaves everything as it is.                            *)
LEMMA BorrowFailsPreserves ==
    ASSUME IInv, NEW t \in Threads, BorrowFails(t) PROVE IInv'
<1>1. Exclusive' /\ Accounted' /\ Bounded'
  BY ConnectionsKept DEF IInv, BorrowFails
<1>2. TypeOK' /\ RoomInv' /\ OwnerInv'
  BY DEF IInv, BorrowFails, TypeOK, RoomInv, OwnerInv
<1> QED
  BY <1>1, <1>2 DEF IInv

(* Closing a statement touches no pool.                                    *)
LEMMA CloseStatementPreserves ==
    ASSUME IInv, NEW t \in Threads, CloseStatement(t) PROVE IInv'
<1>1. Exclusive' /\ Accounted' /\ Bounded'
  BY ConnectionsKept DEF IInv, CloseStatement
<1>2. TypeOK' /\ RoomInv' /\ OwnerInv'
  BY DEF IInv, CloseStatement, TypeOK, RoomInv, OwnerInv
<1> QED
  BY <1>1, <1>2 DEF IInv

(* Nor does a stuttering step.                                             *)
LEMMA StutterPreserves ==
    ASSUME IInv, UNCHANGED vars PROVE IInv'
<1>1. Exclusive' /\ Accounted' /\ Bounded'
  BY ConnectionsKept DEF IInv, vars
<1>2. TypeOK' /\ RoomInv' /\ OwnerInv'
  BY DEF IInv, vars, TypeOK, RoomInv, OwnerInv
<1> QED
  BY <1>1, <1>2 DEF IInv
-----------------------------------------------------------------------------
(* The steps that move a connection. *)

(* A connection goes from m_Pool to a thread.                              *)
LEMMA BorrowPooledPreserves ==
    ASSUME IInv, NEW t \in Threads, BorrowPooled(t) PROVE IInv'
<1> USE DEF IInv, BorrowPooled
<1> DEFINE c == Head(pool)
<1>1. pool \in Seq(Nat) /\ pool # <<>> /\ held \in [Threads -> Seq(Nat)]
  BY DEF TypeOK
<1>2. /\ pool' \in Seq(Nat) /\ c \in Nat /\ c \in Pooled
      /\ Pooled' = Pooled \ {c} /\ PooledOnce(pool')
  BY <1>1, TailPool, Reading DEF Pooled, PooledIn
<1>3. Len(held[t]) < MaxHeld /\ c \notin Holders
  BY <1>2, Reading DEF RoomInv
<1>4. /\ held' \in [Threads -> Seq(Nat)]
      /\ \A u \in Threads :
             Len(held'[u]) = IF u = t THEN Len(held[t]) + 1 ELSE Len(held[u])
      /\ LentOnce(held') /\ Holders' = Holders \union {c}
  <2>1. held' = Lent(held, t, c)
    BY DEF Push, Lent
  <2>2. Holders' = HoldersOf(held')
    BY DEF Holders, HoldersOf, Slots, SlotsOf, At
  <2>3. LentOnce(held) /\ c \notin HoldersOf(held) /\ Holders = HoldersOf(held)
    BY <1>3, Reading
  <2> HIDE DEF c
  <2>4. LET g == Lent(held, t, c) IN
        /\ g \in [Threads -> Seq(Nat)]
        /\ \A u \in Threads :
               Len(g[u]) = IF u = t THEN Len(held[t]) + 1 ELSE Len(held[u])
        /\ LentOnce(g) /\ HoldersOf(g) = HoldersOf(held) \union {c}
    BY <1>1, <1>2, <1>3, <2>3, Pushed
  <2> QED
    BY <2>1, <2>2, <2>3, <2>4
<1>5. TypeOK'
  BY <1>2, <1>4 DEF TypeOK
<1>6. Exclusive'
  <2>1. Holders' \intersect Pooled' = {}
    BY <1>2, <1>4, Reading
  <2> QED
    BY <1>4, <2>1 DEF Exclusive, LentOnce, SlotsOf, Slots, At
<1>7. Accounted'
  <2>1. Pooled' \union borrowed' = 1 .. created'
    BY <1>2, Reading
  <2>2. borrowed' = Holders'
    BY <1>4, Reading
  <2> QED
    BY <1>2, <2>1, <2>2 DEF Accounted, PooledOnce
<1>8. Bounded' /\ OwnerInv'
  BY DEF Bounded, OwnerInv
<1>9. RoomInv'
  BY <1>1, <1>3, <1>4, LenProperties, PoolAssumption DEF RoomInv
<1> QED
  BY <1>5, <1>6, <1>7, <1>8, <1>9

(* A new connection goes to a thread.                                      *)
LEMMA BorrowConnectsPreserves ==
    ASSUME IInv, NEW t \in Threads, BorrowConnects(t) PROVE IInv'
<1> USE DEF IInv, BorrowConnects
<1> DEFINE c == created + 1
<1>1. created \in Nat /\ c \in Nat /\ held \in [Threads -> Seq(Nat)] /\ pool = <<>>
  BY PoolAssumption DEF TypeOK, OwnerInv
<1>2. Pooled = {} /\ Pooled' = {}
  BY <1>1, EmptySeq DEF Pooled
<1>3. Len(held[t]) < MaxHeld /\ c \notin Holders
  BY <1>1, Reading DEF RoomInv
<1>4. /\ held' \in [Threads -> Seq(Nat)]
      /\ \A u \in Threads :
             Len(held'[u]) = IF u = t THEN Len(held[t]) + 1 ELSE Len(held[u])
      /\ LentOnce(held') /\ Holders' = Holders \union {c}
      /\ Holders' = HoldersOf(held')
  <2>1. held' = Lent(held, t, c)
    BY DEF Push, Lent
  <2>2. Holders' = HoldersOf(held')
    BY DEF Holders, HoldersOf, Slots, SlotsOf, At
  <2>3. LentOnce(held) /\ c \notin HoldersOf(held) /\ Holders = HoldersOf(held)
    BY <1>3, Reading
  <2> HIDE DEF c
  <2>4. LET g == Lent(held, t, c) IN
        /\ g \in [Threads -> Seq(Nat)]
        /\ \A u \in Threads :
               Len(g[u]) = IF u = t THEN Len(held[t]) + 1 ELSE Len(held[u])
        /\ LentOnce(g) /\ HoldersOf(g) = HoldersOf(held) \union {c}
    BY <1>1, <1>3, <2>3, Pushed
  <2> QED
    BY <2>1, <2>2, <2>3, <2>4
<1>5. TypeOK'
  BY <1>1, <1>4, PoolAssumption DEF TypeOK
<1>6. Exclusive'
  BY <1>2, <1>4 DEF Exclusive, LentOnce, SlotsOf, Slots, At
<1>7. borrowed' = Holders' /\ borrowed' = 1 .. created'
  <2>1. 1 .. created + 1 = (1 .. created) \union {c}
    BY <1>1
  <2> QED
    BY <1>2, <1>4, <2>1, Reading
<1>8. Accounted'
  BY <1>2, <1>7, Reading DEF Accounted, PooledOnce
<1>9. Bounded'
  <2>1. Cardinality(Holders') = created'
    BY <1>1, <1>7, FS_Interval
  <2>2. created' <= Cardinality(Threads) * MaxHeld
    BY <1>4, <2>1, HoldersCount
  <2>3. created' \in Nat /\ Cardinality(Threads) * MaxHeld \in Nat
    BY <1>1, HoldersCount
  <2> QED
    BY <2>2, <2>3, PoolAssumption DEF Bounded
<1>10. RoomInv' /\ OwnerInv'
  <2>1. \A u \in Threads : Len(held[u]) \in Nat
    BY <1>1, LenProperties
  <2>2. /\ t \notin waiting /\ waiting' = waiting /\ owner' = None /\ None \notin Threads
        /\ status' = "up"
    BY PoolAssumption DEF OwnerInv
  <2>3. \A u \in Threads : Len(held[u]) <= MaxHeld
                           /\ (u \in waiting => Len(held[u]) < MaxHeld)
    BY DEF RoomInv
  <2> HIDE DEF IInv, BorrowConnects
  <2>4. RoomInv'
    <3>1. ASSUME NEW u \in Threads
          PROVE  /\ Len(held'[u]) <= MaxHeld
                 /\ u \in waiting' \/ owner' = u => Len(held'[u]) < MaxHeld
      <4>1. Len(held'[u]) = IF u = t THEN Len(held[t]) + 1 ELSE Len(held[u])
        BY <1>4
      <4>2. owner' # u /\ (u \in waiting' => u # t /\ Len(held[u]) < MaxHeld)
        BY <2>2, <2>3
      <4>3. Len(held[u]) \in Nat /\ Len(held[t]) \in Nat /\ MaxHeld \in Nat
        BY <2>1, PoolAssumption
      <4> QED
        BY <1>3, <2>3, <4>1, <4>2, <4>3
    <3> QED
      BY <3>1 DEF RoomInv
  <2>5. OwnerInv'
    BY <2>2 DEF OwnerInv
  <2> QED
    BY <2>4, <2>5
<1> QED
  BY <1>5, <1>6, <1>8, <1>9, <1>10

(* A connection goes from a thread to m_Pool.                              *)
LEMMA UnBorrowPreserves ==
    ASSUME IInv, NEW t \in Threads, UnBorrow(t) PROVE IInv'
<1> USE DEF IInv
<1> DEFINE c == held[t][Len(held[t])]
<1>1. /\ pool \in Seq(Nat) /\ held \in [Threads -> Seq(Nat)] /\ held[t] # <<>>
      /\ held' = [held EXCEPT ![t] = SubSeq(@, 1, Len(@) - 1)]
      /\ borrowed' = borrowed \ {c} /\ pool' = Append(pool, c)
      /\ closing' = [closing EXCEPT ![t] = c]
      /\ owner = None /\ t \notin waiting
      /\ UNCHANGED <<status, created, waiting, owner>>
  BY DEF TypeOK, UnBorrow
<1>2. \A u \in Threads : Len(held[u]) <= MaxHeld
  BY DEF RoomInv
<1>3. LentOnce(held) /\ Holders = HoldersOf(held)
  BY Reading
<1>4. /\ held' \in [Threads -> Seq(Nat)]
      /\ \A u \in Threads :
             Len(held'[u]) = IF u = t THEN Len(held[t]) - 1 ELSE Len(held[u])
      /\ LentOnce(held') /\ c \in Holders /\ c \in Nat
      /\ Holders' = Holders \ {c}
  <2>1. Holders' = HoldersOf(held') /\ held' = GivenBack(held, t)
    BY <1>1 DEF Holders, HoldersOf, Slots, SlotsOf, At, GivenBack
  <2>2. LET g == GivenBack(held, t) IN
        /\ g \in [Threads -> Seq(Nat)]
        /\ \A u \in Threads :
               Len(g[u]) = IF u = t THEN Len(held[t]) - 1 ELSE Len(held[u])
        /\ LentOnce(g) /\ c \in HoldersOf(held) /\ c \in Nat
        /\ HoldersOf(g) = HoldersOf(held) \ {c}
    BY <1>1, <1>2, <1>3, Popped
  <2> QED
    BY <1>3, <2>1, <2>2
<1> HIDE DEF c
<1>5. c \notin Pooled
  BY <1>4, Reading
<1>6. pool' \in Seq(Nat) /\ Pooled' = Pooled \union {c} /\ PooledOnce(pool')
  <2>1. /\ Append(pool, c) \in Seq(Nat)
        /\ PooledIn(Append(pool, c)) = PooledIn(pool) \union {c}
        /\ PooledOnce(pool) /\ c \notin PooledIn(pool) => PooledOnce(Append(pool, c))
    BY <1>1, <1>4, AppendPool
  <2>2. Pooled' = PooledIn(pool') /\ pool' = Append(pool, c)
    BY <1>1 DEF Pooled, PooledIn
  <2> QED
    BY <1>5, <2>1, <2>2, Reading
<1>7. TypeOK'
  BY <1>1, <1>4, <1>6 DEF TypeOK
<1>8. Exclusive'
  <2>1. Holders' \intersect Pooled' = {}
    BY <1>4, <1>6, Reading
  <2> QED
    BY <1>4, <2>1 DEF Exclusive, LentOnce, SlotsOf, Slots, At
<1>9. Accounted'
  <2>1. borrowed' = Holders'
    BY <1>1, <1>4, Reading
  <2>2. Pooled' \union borrowed' = 1 .. created'
    BY <1>1, <1>4, <1>6, Reading
  <2> QED
    BY <1>6, <2>1, <2>2 DEF Accounted, PooledOnce
<1>10. Bounded' /\ OwnerInv'
  BY <1>1 DEF Bounded, OwnerInv
<1>11. RoomInv'
  <2>1. \A u \in Threads : Len(held[u]) \in Nat
    BY <1>1, LenProperties
  <2> QED
    BY <1>1, <1>4, <2>1, PoolAssumption DEF RoomInv
<1> QED
  BY <1>7, <1>8, <1>9, <1>10, <1>11
-----------------------------------------------------------------------------
(* The invariant of class ConnectionPool, for all threads and sizes.       *)
THEOREM PoolInvariance == Spec => []IInv
<1>1. ASSUME IInv, [Next]_vars PROVE IInv'
  <2>1. CASE Start
    BY <1>1, <2>1, StartConnectsPreserves, StartEndsPreserve DEF Start
  <2>2. ASSUME NEW t \in Threads,
               Ask(t) \/ Borrow(t) \/ Connect(t) \/ UnBorrow(t) \/ CloseStatement(t)
        PROVE  IInv'
    BY <1>1, <2>2, AskPreserves, BorrowPooledPreserves, BorrowMissesPreserves,
       BorrowConnectsPreserves, BorrowFailsPreserves, UnBorrowPreserves,
       CloseStatementPreserves DEF Borrow, Connect
  <2>3. CASE Over \/ UNCHANGED vars
    BY <1>1, <2>3, StutterPreserves DEF Over
  <2> QED
    BY <1>1, <2>1, <2>2, <2>3 DEF Next
<1> QED
  BY <1>1, InitIInv, PTL DEF Spec

(* The variables of the pool and its users keep their types.               *)
THEOREM PoolTypeCorrect == Spec => []TypeOK
<1>1. IInv => TypeOK
  BY DEF IInv
<1> QED
  BY <1>1, PoolInvariance, PTL

(* Borrow lends no connection twice, whatever the interleaving.            *)
THEOREM ExclusiveHolds == Spec => []Exclusive
<1>1. IInv => Exclusive
  BY DEF IInv
<1> QED
  BY <1>1, PoolInvariance, PTL

(* Borrow and UnBorrow keep every connection in exactly one place, and     *)
(* m_BorrowedPool is what the threads use.                                 *)
THEOREM AccountedHolds == Spec => []Accounted
<1>1. IInv => Accounted
  BY DEF IInv
<1> QED
  BY <1>1, PoolInvariance, PTL

(* Temporary connections, though never closed, are no more than the        *)
(* threads can hold together.                                              *)
THEOREM BoundedHolds == Spec => []Bounded
<1>1. IInv => Bounded
  BY DEF IInv
<1> QED
  BY <1>1, PoolInvariance, PTL
-----------------------------------------------------------------------------
(* What the pool promises its users, module Lending. *)

(* The mapping does not change with what it does not mention.              *)
LEMMA MappedAlike ==
    ASSUME UNCHANGED <<status, waiting, owner, held>>
    PROVE  UNCHANGED Lender!vars
  BY DEF Lender!vars, Phase, Depth, Asking

(* A thread that is lent a connection has one more.                        *)
LEMMA PushDepth ==
    ASSUME TypeOK, NEW t \in Threads, NEW c \in Nat, held' = Push(t, c)
    PROVE  Depth' = [Depth EXCEPT ![t] = @ + 1]
<1>1. \A u \in Threads : Len(held'[u]) = IF u = t THEN Len(held[u]) + 1 ELSE Len(held[u])
  <2>1. held[t] \in Seq(Nat)
    BY DEF TypeOK
  <2>2. Len(Append(held[t], c)) = Len(held[t]) + 1
    BY <2>1, AppendProperties
  <2> QED
    BY <2>2 DEF TypeOK, Push
<1> QED
  BY <1>1 DEF Depth

(* A thread that gives one back has one less.                              *)
LEMMA PopDepth ==
    ASSUME TypeOK, NEW t \in Threads, held[t] # <<>>,
           held' = [held EXCEPT ![t] = SubSeq(@, 1, Len(@) - 1)]
    PROVE  Depth[t] > 0 /\ Depth' = [Depth EXCEPT ![t] = @ - 1]
<1>1. held[t] \in Seq(Nat) /\ Len(held[t]) \in Nat /\ Len(held[t]) > 0
  BY EmptySeq, LenProperties DEF TypeOK
<1>2. Len(SubSeq(held[t], 1, Len(held[t]) - 1)) = Len(held[t]) - 1
  BY <1>1, SubSeqProperties
<1>3. \A u \in Threads : Len(held'[u]) = IF u = t THEN Len(held[u]) - 1 ELSE Len(held[u])
  BY <1>2 DEF TypeOK
<1> QED
  BY <1>1, <1>3 DEF Depth

(* The start: connecting shows nothing, its end opens the pool or not.     *)
LEMMA StartMapped ==
    ASSUME IInv, Start PROVE [Lender!Next]_Lender!vars
<1>1. CASE StartConnects
  BY <1>1, MappedAlike DEF StartConnects
<1>2. CASE StartNoSchema \/ StartUnreachable
  <2>1. Lender!OpenFails
    BY <1>2 DEF StartNoSchema, StartUnreachable, Lender!OpenFails, Phase, Depth, Asking
  <2> QED
    BY <2>1 DEF Lender!Next
<1>3. CASE Started
  <2>1. Lender!Opens
    BY <1>3 DEF Started, Lender!Opens, Phase, Depth, Asking
  <2> QED
    BY <2>1 DEF Lender!Next
<1> QED
  BY <1>1, <1>2, <1>3 DEF Start

(* Borrow: a thread that connects still asks, with the mutex instead of    *)
(* for it.                                                                 *)
LEMMA BorrowMapped ==
    ASSUME IInv, NEW t \in Threads, Borrow(t) \/ Connect(t) PROVE [Lender!Next]_Lender!vars
<1> USE PoolAssumption DEF IInv, TypeOK
<1>1. CASE BorrowPooled(t)
  <2>1. Head(pool) \in Nat
    BY <1>1, HeadTailProperties DEF BorrowPooled
  <2>2. Depth' = [Depth EXCEPT ![t] = @ + 1]
    BY <1>1, <2>1, PushDepth DEF BorrowPooled
  <2>3. Lender!Lend(t)
    BY <1>1, <2>2 DEF BorrowPooled, Lender!Lend, Phase, Asking
  <2> QED
    BY <2>3 DEF Lender!Next
<1>2. CASE BorrowMisses(t)
  BY <1>2 DEF BorrowMisses, Lender!vars, Phase, Depth, Asking
<1>3. CASE BorrowConnects(t)
  <2>1. Depth' = [Depth EXCEPT ![t] = @ + 1]
    BY <1>3, PushDepth DEF BorrowConnects
  <2>2. t \notin waiting
    BY <1>3 DEF BorrowConnects, OwnerInv
  <2>3. Lender!Lend(t)
    BY <1>3, <2>1, <2>2 DEF BorrowConnects, Lender!Lend, Phase, Asking
  <2> QED
    BY <2>3 DEF Lender!Next
<1>4. CASE BorrowFails(t)
  <2>1. Lender!LendFails(t)
    BY <1>4 DEF BorrowFails, Lender!LendFails, Phase, Depth, Asking
  <2> QED
    BY <2>1 DEF Lender!Next
<1> QED
  BY <1>1, <1>2, <1>3, <1>4 DEF Borrow, Connect

(* The pool keeps the promise its users rely on, but for its liveness: what *)
(* it does, seen through phase, depth and asking, is what Lending allows.  *)
THEOREM LendingImplemented == Spec => Lender!Spec
<1>1. Init => Lender!Init
  BY PoolAssumption, EmptySeq DEF Init, Lender!Init, Phase, Depth, Asking
<1>2. ASSUME IInv, [Next]_vars PROVE [Lender!Next]_Lender!vars
  <2>1. CASE Start
    BY <1>2, <2>1, StartMapped
  <2>2. ASSUME NEW t \in Threads, Ask(t) PROVE [Lender!Next]_Lender!vars
    <3>1. Lender!Ask(t)
      BY <1>2, <2>2, PoolAssumption
         DEF IInv, TypeOK, Ask, Lender!Ask, Phase, Depth, Asking
    <3> QED
      BY <3>1 DEF Lender!Next
  <2>3. ASSUME NEW t \in Threads, Borrow(t) \/ Connect(t) PROVE [Lender!Next]_Lender!vars
    BY <1>2, <2>3, BorrowMapped
  <2>4. ASSUME NEW t \in Threads, UnBorrow(t) PROVE [Lender!Next]_Lender!vars
    <3>1. Depth[t] > 0 /\ Depth' = [Depth EXCEPT ![t] = @ - 1]
      BY <1>2, <2>4, PopDepth DEF IInv, UnBorrow
    <3>2. Lender!GiveBack(t)
      BY <2>4, <3>1, PoolAssumption DEF UnBorrow, Lender!GiveBack, Phase, Asking
    <3> QED
      BY <3>2 DEF Lender!Next
  <2>5. ASSUME NEW t \in Threads, CloseStatement(t) PROVE [Lender!Next]_Lender!vars
    BY <2>5, MappedAlike DEF CloseStatement
  <2>6. CASE Over \/ UNCHANGED vars
    BY <2>6, MappedAlike DEF Over, vars
  <2> QED
    BY <1>2, <2>1, <2>2, <2>3, <2>4, <2>5, <2>6 DEF Next
<1> QED
  BY <1>1, <1>2, PoolInvariance, PTL DEF Spec, Lender!Spec
=============================================================================
