-------------------------- MODULE HandlerAllocator --------------------------
(***************************************************************************)
(* Class handler_allocator (Shared/Network/Socket.h): one block of memory  *)
(* per socket, for the objects in which Asio keeps an operation and its    *)
(* handler while the operation is in flight, and a flag, m_inUse, that     *)
(* nothing guards.                                                         *)
(*                                                                         *)
(* A socket has one read and one write in flight at most, started in turn  *)
(* (Socket, InTurn).  Asio allocates when an operation is started and      *)
(* deallocates just before the handler is called.  The network thread does *)
(* both, one handler at a time; the acceptor thread starts the first read, *)
(* in Open, when the flush timer of the version packet is already armed.   *)
(* Testing the flag and setting it are steps of their own.                 *)
(***************************************************************************)
EXTENDS Naturals

Ops     == {"read", "write"}
Threads == {"acceptor", "network"}

VARIABLES
    fits,    \* the operations whose object is no larger than the block
    inUse,   \* m_inUse
    memory,  \* memory[op]: where the object of op is
    at,      \* at[t]: where thread t is, and the operation it is at
    timer,   \* a wait on m_OutBufferFlushTimer is pending
    isOpen   \* m_Socket.is_open()

vars == <<fits, inUse, memory, at, timer, isOpen>>

At(place, op) == [place |-> place, op |-> op]

(* Which objects fit depends on Boost and on the compiler, for good.       *)
Init ==
    /\ fits \in SUBSET Ops
    /\ inUse = FALSE
    /\ memory = [op \in Ops |-> "none"]
    /\ at = [t \in Threads |-> IF t = "acceptor" THEN At("accepted", "read")
                                                 ELSE At("resting", "read")]
    /\ timer = FALSE /\ isOpen = TRUE

(* Two operations in flight share the block: from here on the process may  *)
(* do anything, and the model ends.                                        *)
Shared == \A op \in Ops : memory[op] = "block"

Steps(t, place) == ~Shared /\ at[t].place = place
Goes(t, place)  == at' = [at EXCEPT ![t].place = place]
-----------------------------------------------------------------------------
(* allocate and deallocate. *)

(* Operators named Mutant... are plausible bugs, see the README.           *)

(* To the global heap. *)
AllocateDelegates(t) ==
    /\ Steps(t, "allocate")
    /\ inUse \/ at[t].op \notin fits
    /\ memory' = [memory EXCEPT ![at[t].op] = "heap"]
    /\ Goes(t, "resting")
    /\ UNCHANGED <<fits, inUse, timer, isOpen>>

(* The size of the object is not compared. *)
MutantTestsNoSize(t) ==
    /\ Steps(t, "allocate")
    /\ ~inUse
    /\ Goes(t, "tested")
    /\ UNCHANGED <<fits, inUse, memory, timer, isOpen>>

(* The flag is not tested. *)
MutantTestsNoFlag(t) ==
    /\ Steps(t, "allocate")
    /\ at[t].op \in fits
    /\ Goes(t, "tested")
    /\ UNCHANGED <<fits, inUse, memory, timer, isOpen>>

AllocateTests(t) ==
    /\ Steps(t, "allocate")
    /\ ~inUse /\ at[t].op \in fits
    /\ Goes(t, "tested")
    /\ UNCHANGED <<fits, inUse, memory, timer, isOpen>>

AllocateTakes(t) ==
    /\ Steps(t, "tested")
    /\ inUse' = TRUE
    /\ memory' = [memory EXCEPT ![at[t].op] = "block"]
    /\ Goes(t, "resting")
    /\ UNCHANGED <<fits, timer, isOpen>>

(* The flag is reset whatever the pointer. *)
MutantDeallocate(op) ==
    /\ memory' = [memory EXCEPT ![op] = "none"]
    /\ inUse' = FALSE

Deallocate(op) ==
    /\ memory' = [memory EXCEPT ![op] = "none"]
    /\ inUse' = (inUse /\ memory[op] # "block")
-----------------------------------------------------------------------------
(* Open, on the acceptor thread: the version packet is written, which arms *)
(* the timer; then StartAsyncRead asks IsClosed, and starts the read.      *)
OpenArms ==
    /\ Steps("acceptor", "accepted")
    /\ timer' = TRUE
    /\ Goes("acceptor", "armed")
    /\ UNCHANGED <<fits, inUse, memory, isOpen>>

OpenChecks ==
    /\ Steps("acceptor", "armed")
    /\ Goes("acceptor", IF isOpen THEN "allocate" ELSE "resting")
    /\ UNCHANGED <<fits, inUse, memory, timer, isOpen>>
-----------------------------------------------------------------------------
(* The network thread. *)

FlushOut ==
    /\ Steps("network", "resting") /\ timer
    /\ timer' = FALSE
    /\ at' = IF isOpen THEN [at EXCEPT !["network"] = At("allocate", "write")]
                       ELSE at
    /\ UNCHANGED <<fits, inUse, memory, isOpen>>

(* An operation has ended, well or not; its handler is called. *)
Completes(op) ==
    /\ Steps("network", "resting")
    /\ memory[op] # "none"
    /\ Deallocate(op)
    /\ at' = [at EXCEPT !["network"] = At("handler", op)]
    /\ UNCHANGED <<fits, timer, isOpen>>

(* OnRead calls ProcessIncomingData, and that calls Write. *)
HandlerWrites ==
    /\ Steps("network", "handler") /\ at["network"].op = "read"
    /\ isOpen /\ ~timer /\ memory["write"] = "none"
    /\ timer' = TRUE
    /\ UNCHANGED <<fits, inUse, memory, at, isOpen>>

(* The next operation is started on a closed socket as well. *)
MutantHandlerStarts ==
    /\ Steps("network", "handler")
    /\ Goes("network", "allocate")
    /\ UNCHANGED <<fits, inUse, memory, timer, isOpen>>

(* OnRead reads on; OnWriteComplete sends what is left. *)
HandlerStarts ==
    /\ Steps("network", "handler") /\ isOpen
    /\ Goes("network", "allocate")
    /\ UNCHANGED <<fits, inUse, memory, timer, isOpen>>

(* OnWriteComplete has nothing left to send. *)
HandlerEnds ==
    /\ Steps("network", "handler") /\ at["network"].op = "write"
    /\ Goes("network", "resting")
    /\ UNCHANGED <<fits, inUse, memory, timer, isOpen>>

(* OnError, or the handler closes the socket; or it is closed already. *)
HandlerCloses ==
    /\ Steps("network", "handler")
    /\ isOpen' = FALSE
    /\ Goes("network", "resting")
    /\ UNCHANGED <<fits, inUse, memory, timer>>
-----------------------------------------------------------------------------
Allocate(t) == AllocateDelegates(t) \/ AllocateTests(t) \/ AllocateTakes(t)
Open        == OpenArms \/ OpenChecks \/ Allocate("acceptor")
Handler     == HandlerStarts \/ HandlerEnds \/ HandlerCloses \/ Allocate("network")

Free    == ~inUse /\ \A op \in Ops : memory[op] = "none"
Opened  == at["acceptor"].place = "resting"
Over    == (Shared \/ (Free /\ Opened /\ ~isOpen)) /\ UNCHANGED vars

Next == Open \/ FlushOut \/ (\E op \in Ops : Completes(op)) \/ HandlerWrites
        \/ Handler \/ Over

Spec == Init /\ [][Next]_vars

(* Both threads run, and closing a socket aborts its operations.           *)
FairSpec ==
    /\ Spec
    /\ WF_vars(Open) /\ WF_vars(Handler)
    /\ \A op \in Ops : WF_vars(~isOpen /\ Completes(op))
-----------------------------------------------------------------------------
(* The types; and nothing is put into the block that is larger than it.    *)
TypeOK ==
    /\ fits \subseteq Ops
    /\ inUse \in BOOLEAN /\ timer \in BOOLEAN /\ isOpen \in BOOLEAN
    /\ memory \in [Ops -> {"none", "heap", "block"}]
    /\ at \in [Threads -> [place : {"accepted", "armed", "allocate", "tested",
                                    "resting", "handler"}, op : Ops]]
    /\ \A op \in Ops : memory[op] = "block" => op \in fits

(* Up to the moment two operations share it, m_inUse is set exactly while  *)
(* one has the block, although two threads write it without a lock.        *)
FlagIsTruth == ~Shared => (inUse <=> \E op \in Ops : memory[op] = "block")

(* Open is through, no operation is just being given its memory, and all   *)
(* went well so far.                                                       *)
Settled == Opened /\ at["network"].place # "tested" /\ ~Shared

(* The one race is that of Open against the first flush: a socket that got *)
(* past it never has two operations in the block.                          *)
OnlyOpenRaces == [](Settled => []~Shared)

(* What was allocated for a closed socket comes back, and for good.        *)
MemoryComesBack == ~isOpen ~> [](Shared \/ Free)
=============================================================================
