------------------------------ MODULE Listener ------------------------------
(***************************************************************************)
(* Classes Listener and NetworkThread (Shared/Network): the acceptor       *)
(* thread, which gives every connection to the network thread that has the *)
(* fewest sockets, and the network threads, which close them.              *)
(*                                                                         *)
(* A set mSockets is changed by both threads, under NetworkThread::m_Mutex *)
(* for one operation at a time; Size reads it without the mutex.  What a   *)
(* socket does between Open and CloseSocket is module Socket; here it may  *)
(* close at any time once Open has armed its flush timer.                  *)
(*                                                                         *)
(* A member of Sockets stands for a socket object; one that was released   *)
(* may stand for a new one, so the bound is on sockets that live at once.  *)
(***************************************************************************)
EXTENDS Naturals, FiniteSets

CONSTANTS
    WorkerCount,  \* NetworkThreadProcessors
    Sockets       \* bound: socket objects at one time

ASSUME ListenerAssumption ==
    WorkerCount \in Nat \ {0} /\ IsFiniteSet(Sockets) /\ Sockets # {}

Workers == 1 .. WorkerCount

VARIABLES
    pc,         \* where the acceptor thread is
    index,      \* SelectWorker: the next worker to look at
    minIndex,   \* SelectWorker: the best worker so far; then worker
    minSize,    \* SelectWorker: its size when it was read
    pending,    \* the set with the socket that async_accept will connect
    mSockets,   \* per network thread, NetworkThread::mSockets
    served,     \* sockets whose handlers may run on their network thread
    closing,    \* per network thread, the set with the socket it is closing
    left        \* history: removals by network threads since SelectWorker began

vars == <<pc, index, minIndex, minSize, pending, mSockets, served, closing, left>>

acceptorVars == <<pc, index, minIndex, minSize, pending>>

Init ==
    /\ pc = "select" /\ index = 1 /\ minIndex = 1 /\ minSize = 0
    /\ pending = {} /\ served = {} /\ left = 0
    /\ mSockets = [w \in Workers |-> {}]
    /\ closing = [w \in Workers |-> {}]

Size(w) == Cardinality(mSockets[w])

(* Every socket object some reference is left to: in a set, in the lambda  *)
(* of async_accept, or in a handler that is closing it.                    *)
Live == pending \union UNION {mSockets[w] \union closing[w] : w \in Workers}

(* Of the one socket in the set S. *)
RemoveSocket(w, S) == mSockets' = [mSockets EXCEPT ![w] = @ \ S]
-----------------------------------------------------------------------------
(* The acceptor thread. *)

(* Operators named Mutant... are plausible bugs, see the README.           *)

(* minIndex starts before the first worker. *)
MutantSelectFirst ==
    /\ pc = "select"
    /\ pc' = "scan" /\ index' = 1
    /\ minIndex' = 0 /\ minSize' = Size(1)
    /\ left' = 0
    /\ UNCHANGED <<pending, mSockets, served, closing>>

(* BeginAccept calls SelectWorker, which starts with the first worker. *)
SelectFirst ==
    /\ pc = "select"
    /\ pc' = "scan" /\ index' = 2
    /\ minIndex' = 1 /\ minSize' = Size(1)
    /\ left' = 0
    /\ UNCHANGED <<pending, mSockets, served, closing>>

(* The sizes are compared the wrong way round. *)
MutantSelectNext ==
    /\ pc = "scan" /\ index <= WorkerCount
    /\ index' = index + 1
    /\ IF Size(index) > minSize
          THEN minIndex' = index /\ minSize' = Size(index)
          ELSE UNCHANGED <<minIndex, minSize>>
    /\ UNCHANGED <<pc, pending, mSockets, served, closing, left>>

(* The loop goes on to the next worker only when this one is smaller. *)
MutantSelectStays ==
    /\ pc = "scan" /\ index <= WorkerCount
    /\ IF Size(index) < minSize
          THEN index' = index + 1 /\ minIndex' = index /\ minSize' = Size(index)
          ELSE UNCHANGED <<index, minIndex, minSize>>
    /\ UNCHANGED <<pc, pending, mSockets, served, closing, left>>

SelectNext ==
    /\ pc = "scan" /\ index <= WorkerCount
    /\ index' = index + 1
    /\ IF Size(index) < minSize
          THEN minIndex' = index /\ minSize' = Size(index)
          ELSE UNCHANGED <<minIndex, minSize>>
    /\ UNCHANGED <<pc, pending, mSockets, served, closing, left>>

(* CreateSocket makes a socket of the worker that was chosen, which counts *)
(* from now on, and async_accept waits for a client to connect it to.      *)
CreateSocket ==
    /\ pc = "scan" /\ index > WorkerCount
    /\ \E s \in Sockets \ Live :
          /\ mSockets' = [mSockets EXCEPT ![minIndex] = @ \union {s}]
          /\ pending' = {s}
    /\ pc' = "accepting"
    /\ UNCHANGED <<index, minIndex, minSize, served, closing, left>>

(* OnAccept with an error: the socket is removed and accepting goes on. *)
AcceptFails ==
    /\ pc = "accepting"
    /\ RemoveSocket(minIndex, pending)
    /\ pending' = {}
    /\ pc' = "select"
    /\ UNCHANGED <<index, minIndex, minSize, served, closing, left>>

(* OnAccept without one calls Open. *)
Accepts ==
    /\ pc = "accepting"
    /\ pc' = "opening"
    /\ UNCHANGED <<index, minIndex, minSize, pending, mSockets, served, closing,
                   left>>

(* The client is gone: Open throws a system_error on the acceptor thread,  *)
(* which nothing catches, and the process ends.                            *)
OpenThrows ==
    /\ pc = "opening"
    /\ pc' = "terminated"
    /\ UNCHANGED <<index, minIndex, minSize, pending, mSockets, served, closing,
                   left>>

(* SendVersionCheck arms the flush timer. *)
OpenArms ==
    /\ pc = "opening"
    /\ pc' = "armed"
    /\ served' = served \union pending
    /\ UNCHANGED <<index, minIndex, minSize, pending, mSockets, closing, left>>

(* Open and OnAccept return, and accepting goes on. *)
OpenReturns ==
    /\ pc = "armed"
    /\ pending' = {}
    /\ pc' = "select"
    /\ UNCHANGED <<index, minIndex, minSize, mSockets, served, closing, left>>
-----------------------------------------------------------------------------
(* Network thread w, one handler at a time. *)

(* CloseSocket closes the asio socket ... *)
CloseBegins(w) ==
    /\ pc # "terminated" /\ closing[w] = {}
    /\ \E s \in mSockets[w] \intersect served :
          /\ closing' = [closing EXCEPT ![w] = {s}]
          /\ served' = served \ {s}
    /\ UNCHANGED <<acceptorVars, mSockets, left>>

(* The close handler removes it from the set the listener chose last. *)
MutantCloseEnds(w) ==
    /\ pc # "terminated" /\ closing[w] # {}
    /\ RemoveSocket(minIndex, closing[w])
    /\ closing' = [closing EXCEPT ![w] = {}]
    /\ left' = left + 1
    /\ UNCHANGED <<acceptorVars, served>>

(* ... and calls the close handler, RemoveSocket. *)
CloseEnds(w) ==
    /\ pc # "terminated" /\ closing[w] # {}
    /\ RemoveSocket(w, closing[w])
    /\ closing' = [closing EXCEPT ![w] = {}]
    /\ left' = left + 1
    /\ UNCHANGED <<acceptorVars, served>>

Terminated == pc = "terminated" /\ UNCHANGED vars

BeginAccept == SelectFirst \/ SelectNext \/ CreateSocket
OnAccept    == AcceptFails \/ Accepts \/ OpenThrows \/ OpenArms \/ OpenReturns

Next == \/ BeginAccept \/ OnAccept \/ Terminated
        \/ \E w \in Workers : CloseBegins(w) \/ CloseEnds(w)

Spec == Init /\ [][Next]_vars

(* The acceptor thread does what it can do, except wait for a client; a    *)
(* handler that began to close a socket goes on.                           *)
Fairness ==
    /\ WF_vars(BeginAccept) /\ WF_vars(OpenThrows \/ OpenArms \/ OpenReturns)
    /\ \A w \in Workers : WF_vars(CloseEnds(w))

FairSpec == Spec /\ Fairness
-----------------------------------------------------------------------------
(* The types of the variables. *)
TypeOK ==
    /\ pc \in {"select", "scan", "accepting", "opening", "armed", "terminated"}
    /\ index \in Nat \ {0} /\ minIndex \in Workers /\ minSize \in Nat /\ left \in Nat
    /\ pending \subseteq Sockets /\ served \subseteq Sockets
    /\ mSockets \in [Workers -> SUBSET Sockets]
    /\ closing \in [Workers -> SUBSET Sockets]

(* Where the pending socket is not served yet. *)
Unserved == {"accepting", "opening", "terminated"}

(* The sets hold what they should whatever the two threads do to them: a   *)
(* socket is in at most one set; what is in a set is served, or waits to   *)
(* be accepted, or is being closed by the thread whose set it is; and no   *)
(* socket that should be in a set has been lost from it.                   *)
Registered ==
    /\ \A v, w \in Workers : v # w => mSockets[v] \intersect mSockets[w] = {}
    /\ \A w \in Workers : closing[w] \subseteq mSockets[w] \ served
    /\ UNION {mSockets[w] : w \in Workers} =
           served \union (UNION {closing[w] : w \in Workers})
               \union (IF pc \in Unserved THEN pending ELSE {})

(* What reading the sizes one by one, without the mutex, is good for: the  *)
(* worker chosen has at most as many sockets as any other had, except for  *)
(* those that were closed meanwhile.                                       *)
LeastLoaded ==
    pc = "scan" /\ index > WorkerCount =>
        \A w \in Workers : Size(minIndex) <= Size(w) + left

(* After every accept, failed or not, the acceptor waits for a client      *)
(* again, unless the process ended (or the bound on Sockets is reached).   *)
AcceptingGoesOn ==
    []<>(pc \in {"accepting", "terminated"} \/ Sockets \subseteq Live)
=============================================================================
