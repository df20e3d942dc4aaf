--------------------------- MODULE ListenerProofs ---------------------------
(***************************************************************************)
(* Theorems about classes Listener and NetworkThread, for every number of  *)
(* network threads and every finite set of sockets.                        *)
(***************************************************************************)
EXTENDS Listener, FiniteSetTheorems, TLAPS

(* A network thread closes one socket at a time.                           *)
OneInv == \A w \in Workers : closing[w] = {} \/ \E s \in Sockets : closing[w] = {s}

(* The socket that waits to be accepted is in the set of the worker it was *)
(* created for, and no network thread runs a handler of it.                *)
PendingInv ==
    pc \in Unserved =>
        /\ pending \subseteq mSockets[minIndex] \ served
        /\ \A w \in Workers : pending \intersect closing[w] = {}

(* SelectWorker has seen the workers below index.  A size it read is still *)
(* an upper bound, as only CreateSocket adds to a set, and is wrong by the *)
(* removals since at most.                                                 *)
ScanInv ==
    pc = "scan" =>
        /\ Size(minIndex) <= minSize
        /\ \A w \in Workers : w < index => minSize <= Size(w) + left

IInv == TypeOK /\ Registered /\ OneInv /\ PendingInv /\ ScanInv
-----------------------------------------------------------------------------
(* Of a set of sockets and the socket a network thread closes.             *)

(* The size of a set of sockets is a number; a removal takes at most one.  *)
LEMMA Shrinks ==
    ASSUME NEW S \in SUBSET Sockets, NEW T,
           T = {} \/ \E s \in Sockets : T = {s}
    PROVE  /\ Cardinality(S) \in Nat /\ Cardinality(S \ T) \in Nat
           /\ Cardinality(S \ T) <= Cardinality(S)
           /\ Cardinality(S) <= Cardinality(S \ T) + 1
<1>1. IsFiniteSet(S)
  BY FS_Subset, ListenerAssumption
<1>2. Cardinality(S) \in Nat
  BY <1>1, FS_CardinalityType
<1>3. CASE T = {}
  <2>1. S \ T = S
    BY <1>3
  <2> QED
    BY <1>2, <2>1
<1>4. CASE \E s \in Sockets : T = {s}
  <2>1. PICK s \in Sockets : T = {s}
    BY <1>4
  <2>2. /\ IsFiniteSet(S \ T)
        /\ Cardinality(S \ T) = IF s \in S THEN Cardinality(S) - 1 ELSE Cardinality(S)
    BY <1>1, <2>1, FS_RemoveElement
  <2>3. Cardinality(S \ T) \in Nat
    BY <2>2, FS_CardinalityType
  <2> QED
    BY <1>2, <2>2, <2>3
<1> QED
  BY <1>3, <1>4

(* The sizes of the sets are numbers.                                      *)
LEMMA Sizes ==
    ASSUME TypeOK PROVE \A w \in Workers : Size(w) \in Nat
<1>1. \A w \in Workers : mSockets[w] \in SUBSET Sockets
  BY DEF TypeOK
<1> QED
  BY <1>1, Shrinks DEF Size

(* Registered, member by member.                                           *)
LEMMA Members ==
    ASSUME Registered
    PROVE  \A s : (\E w \in Workers : s \in mSockets[w])
                  <=> \/ s \in served
                      \/ \E w \in Workers : s \in closing[w]
                      \/ pc \in Unserved /\ s \in pending
<1> DEFINE P == IF pc \in Unserved THEN pending ELSE {}
<1>1. UNION {mSockets[w] : w \in Workers} =
          served \union (UNION {closing[w] : w \in Workers}) \union P
  BY DEF Registered
<1>2. \A s : s \in P <=> pc \in Unserved /\ s \in pending
  OBVIOUS
<1> HIDE DEF P
<1>3. \A s : s \in UNION {mSockets[w] : w \in Workers}
             <=> \E w \in Workers : s \in mSockets[w]
  OBVIOUS
<1>4. \A s : s \in UNION {closing[w] : w \in Workers}
             <=> \E w \in Workers : s \in closing[w]
  OBVIOUS
<1> QED
  BY <1>1, <1>2, <1>3, <1>4

(* The other direction, for the next state.                                *)
LEMMA RegisteredNext ==
    ASSUME \A v, w \in Workers : v # w => mSockets'[v] \intersect mSockets'[w] = {},
           \A w \in Workers : closing'[w] \subseteq mSockets'[w] \ served',
           \A s : (\E w \in Workers : s \in mSockets'[w])
                  <=> \/ s \in served'
                      \/ \E w \in Workers : s \in closing'[w]
                      \/ pc' \in Unserved /\ s \in pending'
    PROVE  Registered'
<1> DEFINE P == IF pc' \in Unserved THEN pending' ELSE {}
<1>1. \A s : s \in P <=> pc' \in Unserved /\ s \in pending'
  OBVIOUS
<1>2. \A s : s \in UNION {mSockets'[w] : w \in Workers}
             <=> \E w \in Workers : s \in mSockets'[w]
  OBVIOUS
<1>3. \A s : s \in UNION {closing'[w] : w \in Workers}
             <=> \E w \in Workers : s \in closing'[w]
  OBVIOUS
<1>4. UNION {mSockets'[w] : w \in Workers} =
          served' \union (UNION {closing'[w] : w \in Workers}) \union P
  <2> HIDE DEF P
  <2> QED
    BY <1>1, <1>2, <1>3
<1> QED
  BY <1>4 DEF Registered
-----------------------------------------------------------------------------
(* One lemma per step that IInv survives it. *)

LEMMA InitIInv ==
    ASSUME Init PROVE IInv
<1>1. TypeOK
  BY ListenerAssumption DEF Init, TypeOK, Workers
<1>2. Registered
  BY DEF Init, Registered, Unserved
<1>3. OneInv /\ PendingInv /\ ScanInv
  BY DEF Init, OneInv, PendingInv, ScanInv, Unserved
<1> QED
  BY <1>1, <1>2, <1>3 DEF IInv

(* The scan starts with the first worker, whose size is exact.             *)
LEMMA SelectFirstPreserves ==
    ASSUME IInv, SelectFirst PROVE IInv'
<1> USE DEF IInv, SelectFirst
<1>1. 1 \in Workers /\ Size(1) \in Nat
  BY Sizes, ListenerAssumption DEF Workers
<1>2. TypeOK'
  BY <1>1 DEF TypeOK
<1>3. Registered'
  BY DEF Registered, Unserved
<1>4. OneInv' /\ PendingInv'
  BY DEF OneInv, PendingInv, Unserved
<1>5. ScanInv'
  BY <1>1 DEF ScanInv, Size, Workers
<1> QED
  BY <1>2, <1>3, <1>4, <1>5

(* The scan goes on.  A smaller size is below every bound that held for    *)
(* the larger one.                                                         *)
LEMMA SelectNextPreserves ==
    ASSUME IInv, SelectNext PROVE IInv'
<1> USE DEF IInv
<1>1. /\ pc = "scan" /\ pc' = pc /\ index' = index + 1 /\ index <= WorkerCount
      /\ UNCHANGED <<pending, mSockets, served, closing, left>>
  BY DEF SelectNext
<1>2. /\ index \in Workers /\ index \in Nat /\ minSize \in Nat /\ left \in Nat
      /\ minIndex \in Workers
      /\ \A w \in Workers : w \in Nat /\ Size(w) \in Nat
  BY <1>1, Sizes, ListenerAssumption DEF TypeOK, Workers
<1>3. \/ /\ Size(index) < minSize
         /\ minIndex' = index /\ minSize' = Size(index)
      \/ /\ ~(Size(index) < minSize)
         /\ minIndex' = minIndex /\ minSize' = minSize
  BY DEF SelectNext
<1>4. TypeOK'
  BY <1>1, <1>2, <1>3 DEF TypeOK
<1>5. Registered'
  BY <1>1 DEF Registered
<1>6. OneInv' /\ PendingInv'
  BY <1>1 DEF OneInv, PendingInv, Unserved
<1>7. ScanInv'
  <2>1. /\ Size(minIndex) <= minSize
        /\ \A w \in Workers : w < index => minSize <= Size(w) + left
    BY <1>1 DEF ScanInv
  <2>2. \A w \in Workers : w < index + 1 => w < index \/ w = index
    BY <1>2
  <2>3. Size(minIndex') <= minSize' /\ minSize' \in Nat /\ minSize' <= minSize
    BY <1>2, <1>3, <2>1
  <2>4. minSize' <= Size(index) + left
    BY <1>2, <1>3
  <2>5. \A w \in Workers : w < index' => minSize' <= Size(w) + left
    BY <1>1, <1>2, <2>1, <2>2, <2>3, <2>4
  <2>6. \A w \in Workers : Size(w)' = Size(w)
    BY <1>1 DEF Size
  <2>7. Size(minIndex)' = Size(minIndex')
    BY <1>1 DEF Size
  <2> QED
    BY <1>1, <2>3, <2>5, <2>6, <2>7 DEF ScanInv
<1> QED
  BY <1>4, <1>5, <1>6, <1>7

(* The new socket was in no set and is being closed by nobody.             *)
LEMMA CreateSocketPreserves ==
    ASSUME IInv, CreateSocket PROVE IInv'
<1> USE DEF IInv
<1>1. PICK s \in Sockets \ Live :
          /\ mSockets' = [mSockets EXCEPT ![minIndex] = @ \union {s}]
          /\ pending' = {s}
  BY DEF CreateSocket
<1>2. /\ pc = "scan" /\ pc' = "accepting"
      /\ UNCHANGED <<index, minIndex, minSize, served, closing, left>>
  BY DEF CreateSocket
<1>3. minIndex \in Workers /\ mSockets \in [Workers -> SUBSET Sockets]
  BY DEF TypeOK
<1>4. \A w \in Workers : s \notin mSockets[w] /\ s \notin closing[w]
  BY <1>1 DEF Live
<1>5. s \notin served
  BY <1>4, Members
<1>6. \A w \in Workers :
          mSockets'[w] = IF w = minIndex THEN mSockets[w] \union {s} ELSE mSockets[w]
  BY <1>1, <1>3
<1>7. TypeOK'
  BY <1>1, <1>2, <1>3 DEF TypeOK
<1>8. Registered'
  <2>0. /\ \A v, w \in Workers : v # w => mSockets[v] \intersect mSockets[w] = {}
        /\ \A w \in Workers : closing[w] \subseteq mSockets[w] \ served
    BY DEF Registered
  <2>1. \A v, w \in Workers : v # w => mSockets'[v] \intersect mSockets'[w] = {}
    <3> SUFFICES ASSUME NEW v \in Workers, NEW w \in Workers, v # w,
                        NEW x \in mSockets'[v], x \in mSockets'[w]
                 PROVE  FALSE
      OBVIOUS
    <3>1. ~(x \in mSockets[v] /\ x \in mSockets[w])
      BY <2>0
    <3>2. \A u \in Workers : x \in mSockets'[u] =>
                               x \in mSockets[u] \/ (x = s /\ u = minIndex)
      BY <1>6
    <3>3. x = s
      BY <3>1, <3>2
    <3>4. v = minIndex /\ w = minIndex
      BY <1>4, <3>2, <3>3
    <3> QED
      BY <3>4
  <2>2. \A w \in Workers : closing'[w] \subseteq mSockets'[w] \ served'
    <3>1. closing' = closing /\ served' = served
      BY <1>2
    <3>2. \A w \in Workers : mSockets[w] \subseteq mSockets'[w]
      BY <1>6
    <3> QED
      BY <2>0, <3>1, <3>2
  <2>3. \A x : (\E w \in Workers : x \in mSockets'[w])
               <=> (\E w \in Workers : x \in mSockets[w]) \/ x = s
    BY <1>3, <1>6
  <2>4. \A x : (\E w \in Workers : x \in mSockets'[w])
               <=> \/ x \in served'
                   \/ \E w \in Workers : x \in closing'[w]
                   \/ pc' \in Unserved /\ x \in pending'
    BY <1>1, <1>2, <2>3, Members DEF Unserved
  <2> QED
    BY <2>1, <2>2, <2>4, RegisteredNext
<1>9. PendingInv'
  BY <1>1, <1>2, <1>3, <1>4, <1>5, <1>6 DEF PendingInv
<1>10. OneInv' /\ ScanInv'
  BY <1>2 DEF OneInv, ScanInv
<1> QED
  BY <1>7, <1>8, <1>9, <1>10

(* After a failed accept the pending socket leaves its set, and with it    *)
(* everything Registered counts it for.                                    *)
LEMMA AcceptFailsPreserves ==
    ASSUME IInv, AcceptFails PROVE IInv'
<1> USE DEF IInv
<1>1. /\ pc = "accepting" /\ pc' = "select" /\ pending' = {}
      /\ mSockets' = [mSockets EXCEPT ![minIndex] = @ \ pending]
      /\ UNCHANGED <<index, minIndex, minSize, served, closing, left>>
  BY DEF AcceptFails, RemoveSocket
<1>2. minIndex \in Workers /\ mSockets \in [Workers -> SUBSET Sockets]
  BY DEF TypeOK
<1>3. /\ pending \subseteq mSockets[minIndex] \ served
      /\ \A w \in Workers : pending \intersect closing[w] = {}
  BY <1>1 DEF PendingInv, Unserved
<1>4. \A v, w \in Workers : v # w => mSockets[v] \intersect mSockets[w] = {}
  BY DEF Registered
<1>5. \A w \in Workers : mSockets'[w] = mSockets[w] \ pending
  BY <1>1, <1>2, <1>3, <1>4
<1>6. TypeOK'
  BY <1>1, <1>2 DEF TypeOK
<1>7. Registered'
  <2>1. \A v, w \in Workers : v # w => mSockets'[v] \intersect mSockets'[w] = {}
    BY <1>4, <1>5
  <2>2. \A w \in Workers : closing'[w] \subseteq mSockets'[w] \ served'
    BY <1>1, <1>3, <1>5 DEF Registered
  <2>3. \A x : (\E w \in Workers : x \in mSockets'[w])
               <=> (\E w \in Workers : x \in mSockets[w]) /\ x \notin pending
    BY <1>5
  <2>4. \A x : (\E w \in Workers : x \in mSockets'[w])
               <=> \/ x \in served'
                   \/ \E w \in Workers : x \in closing'[w]
                   \/ pc' \in Unserved /\ x \in pending'
    BY <1>1, <1>3, <2>3, Members
  <2> QED
    BY <2>1, <2>2, <2>4, RegisteredNext
<1>8. OneInv' /\ PendingInv' /\ ScanInv'
  BY <1>1 DEF OneInv, PendingInv, ScanInv, Unserved
<1> QED
  BY <1>6, <1>7, <1>8

(* A step of the acceptor that only moves on, and keeps the pending socket *)
(* unserved.                                                               *)
LEMMA MovesOnPreserves ==
    ASSUME IInv, Accepts \/ OpenThrows PROVE IInv'
<1> USE DEF IInv
<1>1. /\ pc \in Unserved /\ pc' \in {"opening", "terminated"}
      /\ UNCHANGED <<index, minIndex, minSize, pending, mSockets, served, closing, left>>
  BY DEF Accepts, OpenThrows, Unserved
<1>2. pc' \in Unserved /\ pc' # "scan"
  BY <1>1 DEF Unserved
<1>3. TypeOK'
  BY <1>1 DEF TypeOK
<1>4. Registered'
  BY <1>1, <1>2 DEF Registered
<1>5. OneInv' /\ PendingInv' /\ ScanInv'
  BY <1>1, <1>2 DEF OneInv, PendingInv, ScanInv
<1> QED
  BY <1>3, <1>4, <1>5

(* The pending socket is served from now on.                               *)
LEMMA OpenArmsPreserves ==
    ASSUME IInv, OpenArms PROVE IInv'
<1> USE DEF IInv
<1>1. /\ pc = "opening" /\ pc' = "armed" /\ served' = served \union pending
      /\ UNCHANGED <<index, minIndex, minSize, pending, mSockets, closing, left>>
  BY DEF OpenArms
<1>2. \A w \in Workers : pending \intersect closing[w] = {}
  BY <1>1 DEF PendingInv, Unserved
<1>3. TypeOK'
  BY <1>1 DEF TypeOK
<1>4. Registered'
  <2>1. \A v, w \in Workers : v # w => mSockets'[v] \intersect mSockets'[w] = {}
    BY <1>1 DEF Registered
  <2>2. \A w \in Workers : closing'[w] \subseteq mSockets'[w] \ served'
    BY <1>1, <1>2 DEF Registered
  <2>3. \A x : (\E w \in Workers : x \in mSockets'[w])
               <=> \/ x \in served'
                   \/ \E w \in Workers : x \in closing'[w]
                   \/ pc' \in Unserved /\ x \in pending'
    BY <1>1, Members DEF Unserved
  <2> QED
    BY <2>1, <2>2, <2>3, RegisteredNext
<1>5. OneInv' /\ PendingInv' /\ ScanInv'
  BY <1>1 DEF OneInv, PendingInv, ScanInv, Unserved
<1> QED
  BY <1>3, <1>4, <1>5

(* The acceptor's reference to a served socket is dropped.                 *)
LEMMA OpenReturnsPreserves ==
    ASSUME IInv, OpenReturns PROVE IInv'
<1> USE DEF IInv, OpenReturns
<1>1. TypeOK'
  BY DEF TypeOK
<1>2. Registered'
  BY DEF Registered, Unserved
<1>3. OneInv' /\ PendingInv' /\ ScanInv'
  BY DEF OneInv, PendingInv, ScanInv, Unserved
<1> QED
  BY <1>1, <1>2, <1>3
-----------------------------------------------------------------------------
(* A network thread stops serving a socket of its own to close it.         *)
LEMMA CloseBeginsPreserves ==
    ASSUME IInv, NEW w \in Workers, CloseBegins(w) PROVE IInv'
<1> USE DEF IInv
<1>1. PICK s \in mSockets[w] \intersect served :
          closing' = [closing EXCEPT ![w] = {s}] /\ served' = served \ {s}
  BY DEF CloseBegins
<1>2. /\ closing[w] = {}
      /\ UNCHANGED <<pc, index, minIndex, minSize, pending, mSockets, left>>
  BY DEF CloseBegins, acceptorVars
<1>3. closing \in [Workers -> SUBSET Sockets] /\ s \in Sockets
  BY <1>1 DEF TypeOK
<1>4. \A v \in Workers : closing'[v] = IF v = w THEN {s} ELSE closing[v]
  BY <1>1, <1>3
<1>5. pc \in Unserved => s \notin pending
  BY <1>1 DEF PendingInv
<1>6. TypeOK'
  BY <1>1, <1>2, <1>3 DEF TypeOK
<1>7. Registered'
  <2>1. \A u, v \in Workers : u # v => mSockets'[u] \intersect mSockets'[v] = {}
    BY <1>2 DEF Registered
  <2>2. \A v \in Workers : closing'[v] \subseteq mSockets'[v] \ served'
    BY <1>1, <1>2, <1>4 DEF Registered
  <2>3. \A x : (\E v \in Workers : x \in closing'[v])
               <=> (\E v \in Workers : x \in closing[v]) \/ x = s
    BY <1>2, <1>4
  <2>4. \A x : (\E v \in Workers : x \in mSockets'[v])
               <=> \/ x \in served'
                   \/ \E v \in Workers : x \in closing'[v]
                   \/ pc' \in Unserved /\ x \in pending'
    BY <1>1, <1>2, <2>3, Members
  <2> QED
    BY <2>1, <2>2, <2>4, RegisteredNext
<1>8. PendingInv'
  BY <1>1, <1>2, <1>4, <1>5 DEF PendingInv
<1>9. OneInv' /\ ScanInv'
  <2>1. OneInv'
    BY <1>3, <1>4 DEF OneInv
  <2>2. \A v \in Workers : Size(v)' = Size(v)
    BY <1>2 DEF Size
  <2>3. Size(minIndex)' = Size(minIndex)
    BY <1>2 DEF Size
  <2> QED
    BY <1>2, <2>1, <2>2, <2>3 DEF ScanInv
<1> QED
  BY <1>6, <1>7, <1>8, <1>9

(* The socket leaves its set, which was the only one it was in; the set    *)
(* shrinks by one, which left counts.                                      *)
LEMMA CloseEndsPreserves ==
    ASSUME IInv, NEW w \in Workers, CloseEnds(w) PROVE IInv'
<1> USE DEF IInv
<1>1. /\ mSockets' = [mSockets EXCEPT ![w] = @ \ closing[w]]
      /\ closing' = [closing EXCEPT ![w] = {}]
      /\ left' = left + 1
      /\ UNCHANGED <<pc, index, minIndex, minSize, pending, served>>
  BY DEF CloseEnds, RemoveSocket, acceptorVars
<1>2. /\ mSockets \in [Workers -> SUBSET Sockets]
      /\ closing \in [Workers -> SUBSET Sockets]
      /\ left \in Nat /\ minSize \in Nat /\ minIndex \in Workers
  BY DEF TypeOK
<1>3. /\ \A u, v \in Workers : u # v => mSockets[u] \intersect mSockets[v] = {}
      /\ \A v \in Workers : closing[v] \subseteq mSockets[v] \ served
  BY DEF Registered
<1>4. /\ \A v \in Workers : mSockets'[v] = mSockets[v] \ closing[w]
      /\ \A v \in Workers : closing'[v] = closing[v] \ closing[w]
  <2>1. \A v \in Workers : v # w => mSockets[v] \intersect closing[w] = {}
    BY <1>3
  <2>2. \A v \in Workers : v # w => closing[v] \intersect closing[w] = {}
    BY <1>3, <2>1
  <2>3. /\ \A v \in Workers : mSockets'[v] =
               IF v = w THEN mSockets[w] \ closing[w] ELSE mSockets[v]
        /\ \A v \in Workers : closing'[v] = IF v = w THEN {} ELSE closing[v]
    BY <1>1, <1>2
  <2> QED
    BY <2>1, <2>2, <2>3
<1>5. TypeOK'
  BY <1>1, <1>2 DEF TypeOK
<1>6. Registered'
  <2>1. \A u, v \in Workers : u # v => mSockets'[u] \intersect mSockets'[v] = {}
    BY <1>3, <1>4
  <2>2. \A v \in Workers : closing'[v] \subseteq mSockets'[v] \ served'
    BY <1>1, <1>3, <1>4
  <2>3. \A x : (\E v \in Workers : x \in mSockets'[v])
               <=> (\E v \in Workers : x \in mSockets[v]) /\ x \notin closing[w]
    BY <1>4
  <2>4. \A x : (\E v \in Workers : x \in closing'[v])
               <=> (\E v \in Workers : x \in closing[v]) /\ x \notin closing[w]
    BY <1>4
  <2>5. \A x \in closing[w] : x \notin served /\ ~(pc \in Unserved /\ x \in pending)
    BY <1>3 DEF PendingInv
  <2>6. \A x : (\E v \in Workers : x \in mSockets'[v])
               <=> \/ x \in served'
                   \/ \E v \in Workers : x \in closing'[v]
                   \/ pc' \in Unserved /\ x \in pending'
    BY <1>1, <2>3, <2>4, <2>5, Members
  <2> QED
    BY <2>1, <2>2, <2>6, RegisteredNext
<1>7. OneInv'
  <2>1. \A v \in Workers : closing'[v] = IF v = w THEN {} ELSE closing[v]
    BY <1>1, <1>2
  <2> QED
    BY <2>1 DEF OneInv
<1>8. PendingInv'
  BY <1>1, <1>2, <1>4 DEF PendingInv
<1>9. ScanInv'
  <2>1. \A v \in Workers :
            /\ Size(v) \in Nat /\ Size(v)' \in Nat
            /\ Size(v)' <= Size(v) /\ Size(v) <= Size(v)' + 1
    <3>1. ASSUME NEW v \in Workers
          PROVE  /\ Size(v) \in Nat /\ Size(v)' \in Nat
                 /\ Size(v)' <= Size(v) /\ Size(v) <= Size(v)' + 1
      <4>1. mSockets[v] \in SUBSET Sockets
        BY <1>2
      <4>2. closing[w] = {} \/ \E s \in Sockets : closing[w] = {s}
        BY DEF OneInv
      <4>3. Size(v) = Cardinality(mSockets[v])
        BY DEF Size
      <4>4. Size(v)' = Cardinality(mSockets[v] \ closing[w])
        BY <1>4 DEF Size
      <4> QED
        BY <4>1, <4>2, <4>3, <4>4, Shrinks
    <3> QED
      BY <3>1
  <2>2. ASSUME pc = "scan"
        PROVE  /\ Size(minIndex)' <= minSize
               /\ \A v \in Workers : v < index => minSize <= Size(v)' + left'
    <3>1. /\ Size(minIndex) <= minSize
          /\ \A v \in Workers : v < index => minSize <= Size(v) + left
      BY <2>2 DEF ScanInv
    <3>2. Size(minIndex)' <= Size(minIndex) /\ Size(minIndex)' \in Nat /\ Size(minIndex) \in Nat
      BY <1>1, <1>2, <2>1 DEF Size
    <3>3. ASSUME NEW v \in Workers, v < index PROVE minSize <= Size(v)' + left'
      <4>1. minSize <= Size(v) + left
        BY <3>1, <3>3
      <4>2. Size(v) <= Size(v)' + 1 /\ Size(v) \in Nat /\ Size(v)' \in Nat
        BY <2>1
      <4> QED
        BY <1>1, <1>2, <4>1, <4>2
    <3> QED
      BY <1>2, <3>1, <3>2, <3>3
  <2> QED
    BY <1>1, <2>2 DEF ScanInv
<1> QED
  BY <1>5, <1>6, <1>7, <1>8, <1>9

(* A stuttering step changes nothing.                                      *)
LEMMA StutterPreserves ==
    ASSUME IInv, UNCHANGED vars PROVE IInv'
BY DEF IInv, vars, TypeOK, Registered, OneInv, PendingInv, ScanInv, Size
-----------------------------------------------------------------------------
(* The invariant holds in every reachable state of acceptor and network    *)
(* threads.                                                                *)
THEOREM ListenerInvariance == Spec => []IInv
<1>1. Init => IInv
  BY InitIInv
<1>2. IInv /\ [Next]_vars => IInv'
  <2>1. ASSUME IInv, BeginAccept PROVE IInv'
    BY <2>1, SelectFirstPreserves, SelectNextPreserves, CreateSocketPreserves
       DEF BeginAccept
  <2>2. ASSUME IInv, OnAccept PROVE IInv'
    BY <2>2, AcceptFailsPreserves, MovesOnPreserves, OpenArmsPreserves,
       OpenReturnsPreserves DEF OnAccept
  <2>3. ASSUME IInv, NEW w \in Workers, CloseBegins(w) \/ CloseEnds(w) PROVE IInv'
    BY <2>3, CloseBeginsPreserves, CloseEndsPreserves
  <2>4. ASSUME IInv, Terminated \/ UNCHANGED vars PROVE IInv'
    BY <2>4, StutterPreserves DEF Terminated
  <2> QED
    BY <2>1, <2>2, <2>3, <2>4 DEF Next
<1> QED
  BY <1>1, <1>2, PTL DEF Spec

(* The variables keep their types; the worker chosen is always a worker.   *)
THEOREM ListenerTypeCorrect == Spec => []TypeOK
<1>1. IInv => TypeOK
  BY DEF IInv
<1> QED
  BY <1>1, ListenerInvariance, PTL

(* No socket is in two sets, left in one, or lost from one, whatever the   *)
(* acceptor and the network threads do at the same time.                   *)
THEOREM RegisteredHolds == Spec => []Registered
<1>1. IInv => Registered
  BY DEF IInv
<1> QED
  BY <1>1, ListenerInvariance, PTL

(* SelectWorker, which reads the sizes one by one without the mutex, is    *)
(* wrong at most by the sockets that were closed while it ran.             *)
THEOREM LeastLoadedHolds == Spec => []LeastLoaded
<1>1. IInv => LeastLoaded
  <2> SUFFICES ASSUME IInv, pc = "scan", index > WorkerCount, NEW w \in Workers
               PROVE  Size(minIndex) <= Size(w) + left
    BY DEF LeastLoaded
  <2>1. /\ minIndex \in Workers /\ minSize \in Nat /\ left \in Nat /\ index \in Nat
        /\ w \in Nat /\ w < index
    BY ListenerAssumption DEF IInv, TypeOK, Workers
  <2>2. Size(minIndex) \in Nat /\ Size(w) \in Nat
    BY <2>1, Sizes DEF IInv
  <2>3. Size(minIndex) <= minSize /\ minSize <= Size(w) + left
    BY <2>1 DEF IInv, ScanInv
  <2> QED
    BY <2>1, <2>2, <2>3
<1> QED
  BY <1>1, ListenerInvariance, PTL
=============================================================================
