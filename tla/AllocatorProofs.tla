-------------------------- MODULE AllocatorProofs --------------------------
(***************************************************************************)
(* What holds of the block of a socket, for every object sizes and however *)
(* the two threads interleave.                                             *)
(***************************************************************************)
EXTENDS HandlerAllocator, TLAPS

Doing(t, op) == at[t].op = op /\ at[t].place \in {"allocate", "tested", "handler"}

(* An operation that is being started, or whose handler runs, has no       *)
(* memory; the block is only asked for what fits; and each thread is where *)
(* its functions can be.                                                   *)
StartInv ==
    /\ \A t \in Threads, op \in Ops : Doing(t, op) => memory[op] = "none"
    /\ \A t \in Threads : at[t].place = "tested" => at[t].op \in fits
    /\ at["acceptor"].op = "read" /\ at["acceptor"].place # "handler"
    /\ at["network"].place \notin {"accepted", "armed"}

(* The read belongs to Open until it is through, and a timer is pending    *)
(* only while there is no write; before it, there is nothing.              *)
OwnInv ==
    /\ ~Opened => memory["read"] = "none" /\ ~Doing("network", "read")
    /\ timer => memory["write"] = "none" /\ ~Doing("network", "write")
    /\ at["acceptor"].place = "accepted" =>
           ~timer /\ memory["write"] = "none" /\ at["network"].place = "resting"

IInv == TypeOK /\ FlagIsTruth /\ StartInv /\ OwnInv
-----------------------------------------------------------------------------
LEMMA InitInv == Init => IInv
<1> SUFFICES ASSUME Init PROVE IInv
  OBVIOUS
<1>1. TypeOK
  BY DEF Init, TypeOK, Ops, Threads, At
<1>2. FlagIsTruth
  BY DEF Init, FlagIsTruth, Ops
<1>3. StartInv
  BY DEF Init, StartInv, Doing, Ops, Threads, At
<1>4. OwnInv
  BY DEF Init, OwnInv, Doing, Ops, Threads, At
<1> QED
  BY <1>1, <1>2, <1>3, <1>4 DEF IInv

(* Allocating. *)

LEMMA DelegatesInv ==
  ASSUME IInv, NEW t \in Threads, AllocateDelegates(t)
  PROVE  IInv'
  BY DEF AllocateDelegates, Steps, Goes, IInv, TypeOK, FlagIsTruth, StartInv, OwnInv,
         Doing, Opened, Shared, Ops, Threads

LEMMA TestsInv ==
  ASSUME IInv, NEW t \in Threads, AllocateTests(t)
  PROVE  IInv'
  BY DEF AllocateTests, Steps, Goes, IInv, TypeOK, FlagIsTruth, StartInv, OwnInv,
         Doing, Opened, Shared, Ops, Threads

LEMMA TakesInv ==
  ASSUME IInv, NEW t \in Threads, AllocateTakes(t)
  PROVE  IInv'
<1> USE DEF Ops, Threads
<1>1. /\ memory \in [Ops -> {"none", "heap", "block"}] /\ TypeOK /\ StartInv /\ OwnInv
      /\ at \in [Threads -> [place : {"accepted", "armed", "allocate", "tested",
                                     "resting", "handler"}, op : Ops]]
  BY DEF IInv, TypeOK
<1>2. /\ memory' = [memory EXCEPT ![at[t].op] = "block"] /\ inUse' = TRUE
      /\ at' = [at EXCEPT ![t].place = "resting"]
      /\ at[t].place = "tested" /\ UNCHANGED <<fits, timer, isOpen>>
  BY DEF AllocateTakes, Steps, Goes
<1>3. FlagIsTruth'
  BY <1>1, <1>2 DEF FlagIsTruth
<1>4. StartInv'
  BY <1>1, <1>2 DEF StartInv, OwnInv, Opened, Doing
<1>5. OwnInv'
  BY <1>1, <1>2 DEF StartInv, OwnInv, Opened, Doing
<1>6. TypeOK'
  BY <1>1, <1>2 DEF TypeOK, StartInv
<1> QED
  BY <1>3, <1>4, <1>5, <1>6 DEF IInv

(* Open. *)

LEMMA OpenArmsInv == ASSUME IInv, OpenArms PROVE IInv'
  BY DEF OpenArms, Steps, Goes, IInv, TypeOK, FlagIsTruth, StartInv, OwnInv,
         Doing, Opened, Shared, Ops, Threads

LEMMA OpenChecksInv == ASSUME IInv, OpenChecks PROVE IInv'
  BY DEF OpenChecks, Steps, Goes, IInv, TypeOK, FlagIsTruth, StartInv, OwnInv,
         Doing, Opened, Shared, Ops, Threads

(* The network thread. *)

LEMMA FlushOutInv == ASSUME IInv, FlushOut PROVE IInv'
  BY DEF FlushOut, Steps, At, IInv, TypeOK, FlagIsTruth, StartInv, OwnInv,
         Doing, Opened, Shared, Ops, Threads

LEMMA CompletesInv ==
  ASSUME IInv, NEW op \in Ops, Completes(op)
  PROVE  IInv'
  BY DEF Completes, Deallocate, Steps, At, IInv, TypeOK, FlagIsTruth, StartInv, OwnInv,
         Doing, Opened, Shared, Ops, Threads

LEMMA HandlerWritesInv == ASSUME IInv, HandlerWrites PROVE IInv'
  BY DEF HandlerWrites, Steps, IInv, TypeOK, FlagIsTruth, StartInv, OwnInv,
         Doing, Opened, Shared, Ops, Threads

LEMMA HandlerInv ==
  ASSUME IInv, HandlerStarts \/ HandlerEnds \/ HandlerCloses
  PROVE  IInv'
<1> USE DEF Steps, Goes, IInv, TypeOK, FlagIsTruth, StartInv, OwnInv, Doing, Opened,
            Shared, Ops, Threads
<1>1. CASE HandlerStarts
  BY <1>1 DEF HandlerStarts
<1>2. CASE HandlerEnds
  BY <1>2 DEF HandlerEnds
<1>3. CASE HandlerCloses
  BY <1>3 DEF HandlerCloses
<1> QED
  BY <1>1, <1>2, <1>3

LEMMA UnchangedInv == ASSUME IInv, UNCHANGED vars PROVE IInv'
  BY DEF vars, IInv, TypeOK, FlagIsTruth, StartInv, OwnInv, Doing, Opened, Shared
-----------------------------------------------------------------------------
(* IInv holds in every state, of Open against the flush timer in any order. *)
THEOREM AllocatorInvariance == Spec => []IInv
<1>1. Init => IInv
  BY InitInv
<1>2. IInv /\ [Next]_vars => IInv'
  BY DelegatesInv, TestsInv, TakesInv, OpenArmsInv, OpenChecksInv, FlushOutInv,
     CompletesInv, HandlerWritesInv, HandlerInv, UnchangedInv
     DEF Next, Open, Allocate, Handler, Over, Threads
<1> QED
  BY <1>1, <1>2, PTL DEF Spec

(* The types, and nothing is put into the block that does not fit.         *)
THEOREM AllocatorTypeCorrect == Spec => []TypeOK
<1>1. IInv => TypeOK
  BY DEF IInv
<1> QED
  BY <1>1, AllocatorInvariance, PTL

(* m_inUse tells the truth until two operations share the block.           *)
THEOREM FlagIsTruthHolds == Spec => []FlagIsTruth
<1>1. IInv => FlagIsTruth
  BY DEF IInv
<1> QED
  BY <1>1, AllocatorInvariance, PTL
-----------------------------------------------------------------------------
(* What keeps a settled socket so: the acceptor is done with it, hence the *)
(* flag cannot change between the network thread's test and its set.       *)
OneThread ==
    /\ Opened /\ ~Shared
    /\ at["network"].place = "tested" => \A op \in Ops : memory[op] # "block"

LEMMA OneThreadKept == IInv /\ OneThread /\ [Next]_vars => OneThread'
<1> SUFFICES ASSUME IInv, OneThread, [Next]_vars PROVE OneThread'
  OBVIOUS
<1> USE DEF OneThread, Opened, Shared, Ops
<1>1. at \in [Threads -> [place : {"accepted", "armed", "allocate", "tested",
                                  "resting", "handler"}, op : Ops]]
      /\ memory \in [Ops -> {"none", "heap", "block"}]
  BY DEF IInv, TypeOK
<1>2. ~Open
  BY DEF Open, OpenArms, OpenChecks, Allocate, AllocateDelegates, AllocateTests,
         AllocateTakes, Steps
<1>3. CASE AllocateDelegates("network") \/ AllocateTakes("network")
  BY <1>1, <1>3 DEF AllocateDelegates, AllocateTakes, Steps, Goes, Threads
<1>4. CASE AllocateTests("network")
  BY <1>1, <1>4 DEF AllocateTests, Steps, Goes, Threads, IInv, FlagIsTruth
<1>5. CASE FlushOut
  BY <1>1, <1>5 DEF FlushOut, Steps, At, Threads
<1>6. CASE \E op \in Ops : Completes(op)
  BY <1>1, <1>6 DEF Completes, Deallocate, Steps, At, Threads
<1>7. CASE HandlerWrites
  BY <1>1, <1>7 DEF HandlerWrites
<1>8. CASE HandlerStarts \/ HandlerEnds \/ HandlerCloses
  BY <1>1, <1>8 DEF HandlerStarts, HandlerEnds, HandlerCloses, Steps, Goes, Threads
<1>9. CASE UNCHANGED vars
  BY <1>9 DEF vars
<1> QED
  BY <1>2, <1>3, <1>4, <1>5, <1>6, <1>7, <1>8, <1>9
     DEF Next, Handler, Allocate, Over

(* Only Open can race: whoever gets past it with one owner of the block    *)
(* keeps it so.                                                            *)
THEOREM OnlyOpenRacesHolds == Spec => OnlyOpenRaces
<1>1. Settled => OneThread
  BY DEF Settled, OneThread
<1>2. OneThread => ~Shared
  BY DEF OneThread
<1>3. IInv /\ OneThread /\ [Next]_vars => OneThread'
  BY OneThreadKept
<1> QED
  BY <1>1, <1>2, <1>3, AllocatorInvariance, PTL DEF Spec, OnlyOpenRaces
=============================================================================
