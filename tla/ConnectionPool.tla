--------------------------- MODULE ConnectionPool ---------------------------
(***************************************************************************)
(* Class ConnectionPool (Shared/Database/ConnectionPool.h) and its users,  *)
(* the QueryDatabase objects of the network threads.  A QueryDatabase      *)
(* borrows a connection when it is constructed and gives it back when it   *)
(* goes out of scope, so a thread gives back in the reverse order, and a   *)
(* thread that has one may construct another: SendUserSuccess does, while  *)
(* HandleLoginUser still holds its own.                                    *)
(*                                                                         *)
(* Connections are numbered in the order they are made.  A connect to the  *)
(* MySQL server blocks and may fail; Borrow connects with the mutex held.  *)
(***************************************************************************)
EXTENDS Naturals, Sequences, FiniteSets

CONSTANTS
    Threads,   \* the network threads
    PoolSize,  \* AuthDatabase.ConnectionPool
    None,      \* no thread; no connection
    MaxHeld,   \* QueryDatabase objects a thread has at a time, 2 in the code
    NDebug     \* built with NDEBUG, as RelWithDebInfo is: assert does nothing

ASSUME PoolAssumption ==
    /\ PoolSize \in Nat /\ MaxHeld \in Nat /\ NDebug \in BOOLEAN
    /\ IsFiniteSet(Threads) /\ None \notin Threads

VARIABLES
    status,    \* "starting", "up", "failed", "crashed", "aborted", "undefined"
    created,   \* how many connections were made
    pool,      \* m_Pool
    borrowed,  \* m_BorrowedPool
    waiting,   \* threads inside Borrow that have not got the mutex
    owner,     \* the thread that connects inside Borrow, holding m_Mutex
    held,      \* per thread, the m_Connection of its QueryDatabase objects
    closing    \* per thread, the connection whose statement it still has

vars == <<status, created, pool, borrowed, waiting, owner, held, closing>>

Init ==
    /\ status = "starting" /\ created = 0
    /\ pool = <<>> /\ borrowed = {} /\ waiting = {} /\ owner = None
    /\ held = [t \in Threads |-> <<>>] /\ closing = [t \in Threads |-> None]

Push(t, c) == [held EXCEPT ![t] = Append(@, c)]
-----------------------------------------------------------------------------
(* The constructor, called by main before it listens. *)
StartConnects ==
    /\ status = "starting" /\ created < PoolSize
    /\ created' = created + 1
    /\ pool' = Append(pool, created + 1)
    /\ UNCHANGED <<status, borrowed, waiting, owner, held, closing>>

(* Operators named Mutant... are plausible bugs, see the README.           *)

(* The failure goes unnoticed and a null pointer is put into the pool. *)
MutantStartNoSchema ==
    /\ status = "starting" /\ created < PoolSize
    /\ created' = created + 1
    /\ pool' = Append(pool, None)
    /\ UNCHANGED <<status, borrowed, waiting, owner, held, closing>>

(* The server refuses the schema: Database::CreateDatabase catches the     *)
(* exception, returns false, and main reports it and returns.              *)
StartNoSchema ==
    /\ status = "starting" /\ created < PoolSize
    /\ status' = "failed"
    /\ UNCHANGED <<created, pool, borrowed, waiting, owner, held, closing>>

(* The connect itself fails.  MySQLConnection::m_Connection is then a      *)
(* Connection without an mSQLConnection, whose destructor, run before the  *)
(* exception is caught, calls close through the null pointer.              *)
StartUnreachable ==
    /\ status = "starting" /\ created < PoolSize
    /\ status' = "crashed"
    /\ UNCHANGED <<created, pool, borrowed, waiting, owner, held, closing>>

Started ==
    /\ status = "starting" /\ created = PoolSize
    /\ status' = "up"
    /\ UNCHANGED <<created, pool, borrowed, waiting, owner, held, closing>>

(* The constructor of QueryDatabase calls Borrow. *)
Ask(t) ==
    /\ status = "up" /\ t \notin waiting /\ owner # t /\ closing[t] = None
    /\ Len(held[t]) < MaxHeld
    /\ waiting' = waiting \union {t}
    /\ UNCHANGED <<status, created, pool, borrowed, owner, held, closing>>

(* The connection is handed out but stays in m_Pool. *)
MutantBorrowKeeps(t) ==
    /\ status = "up" /\ t \in waiting /\ owner = None
    /\ pool # <<>>
    /\ borrowed' = borrowed \union {Head(pool)}
    /\ held' = Push(t, Head(pool))
    /\ waiting' = waiting \ {t}
    /\ UNCHANGED <<status, created, pool, owner, closing>>

(* Borrow finds a connection in m_Pool. *)
BorrowPooled(t) ==
    /\ status = "up" /\ t \in waiting /\ owner = None
    /\ pool # <<>>
    /\ pool' = Tail(pool)
    /\ borrowed' = borrowed \union {Head(pool)}
    /\ held' = Push(t, Head(pool))
    /\ waiting' = waiting \ {t}
    /\ UNCHANGED <<status, created, owner, closing>>

(* Borrow waits for a connection instead of making one. *)
MutantBorrowBlocks(t) ==
    /\ status = "up" /\ t \in waiting /\ owner = None
    /\ pool = <<>>
    /\ UNCHANGED vars

(* Borrow makes a connection although the pool has one. *)
MutantBorrowAlwaysConnects(t) ==
    /\ status = "up" /\ t \in waiting /\ owner = None
    /\ created < 9
    /\ owner' = t
    /\ waiting' = waiting \ {t}
    /\ UNCHANGED <<status, created, pool, borrowed, held, closing>>

(* Borrow finds m_Pool empty.  Its loop over m_BorrowedPool never finds a  *)
(* unique pointer, for it tests the copy it has just made; so it connects. *)
BorrowMisses(t) ==
    /\ status = "up" /\ t \in waiting /\ owner = None
    /\ pool = <<>>
    /\ owner' = t
    /\ waiting' = waiting \ {t}
    /\ UNCHANGED <<status, created, pool, borrowed, held, closing>>

(* The temporary connection is not entered into m_BorrowedPool. *)
MutantBorrowConnects(t) ==
    /\ status = "up" /\ owner = t
    /\ created' = created + 1
    /\ held' = Push(t, created + 1)
    /\ owner' = None
    /\ UNCHANGED <<status, pool, borrowed, waiting, closing>>

BorrowConnects(t) ==
    /\ status = "up" /\ owner = t
    /\ created' = created + 1
    /\ borrowed' = borrowed \union {created + 1}
    /\ held' = Push(t, created + 1)
    /\ owner' = None
    /\ UNCHANGED <<status, pool, waiting, closing>>

(* The handler of the exception asserts.  Without asserts Borrow goes on   *)
(* to m_Pool.front() and pop_front() of the empty deque, after which no    *)
(* behaviour is defined.                                                   *)
BorrowFails(t) ==
    /\ status = "up" /\ owner = t
    /\ status' = IF NDebug THEN "undefined" ELSE "aborted"
    /\ UNCHANGED <<created, pool, borrowed, waiting, owner, held, closing>>

(* The body of the destructor of the innermost QueryDatabase.  The members *)
(* m_PreparedStatement and m_Result are destroyed after it.                *)
UnBorrow(t) ==
    /\ status = "up" /\ owner = None /\ t \notin waiting /\ closing[t] = None
    /\ held[t] # <<>>
    /\ LET c == held[t][Len(held[t])]
       IN  /\ borrowed' = borrowed \ {c}
           /\ pool' = Append(pool, c)
           /\ closing' = [closing EXCEPT ![t] = c]
    /\ held' = [held EXCEPT ![t] = SubSeq(@, 1, Len(@) - 1)]
    /\ UNCHANGED <<status, created, waiting, owner>>

(* Destroying the statement, which closes it over its connection. *)
CloseStatement(t) ==
    /\ status = "up" /\ closing[t] # None
    /\ closing' = [closing EXCEPT ![t] = None]
    /\ UNCHANGED <<status, created, pool, borrowed, waiting, owner, held>>

(* The process is no more, or may do anything. *)
Over == status \in {"failed", "crashed", "aborted", "undefined"} /\ UNCHANGED vars

Start      == StartConnects \/ StartNoSchema \/ StartUnreachable \/ Started
Borrow(t)  == BorrowPooled(t) \/ BorrowMisses(t)
Connect(t) == BorrowConnects(t) \/ BorrowFails(t)

Next == \/ Start
        \/ \E t \in Threads : Ask(t) \/ Borrow(t) \/ Connect(t)
                                \/ UnBorrow(t) \/ CloseStatement(t)
        \/ Over

Spec == Init /\ [][Next]_vars

(* A connect returns; a thread that can take the mutex does so in time.    *)
(* That a handler goes on after Borrow is not needed.                      *)
Fairness == \A t \in Threads : WF_vars(Borrow(t)) /\ WF_vars(Connect(t))

FairSpec == Spec /\ Fairness
-----------------------------------------------------------------------------
Slots == {s \in Threads \X (1 .. MaxHeld) : s[2] <= Len(held[s[1]])}
At(s) == held[s[1]][s[2]]
Holders == {At(s) : s \in Slots}
Pooled  == {pool[i] : i \in DOMAIN pool}

(* The types of the variables. *)
TypeOK ==
    /\ status \in {"starting", "up", "failed", "crashed", "aborted", "undefined"}
    /\ created \in Nat /\ pool \in Seq(Nat) /\ borrowed \subseteq Nat
    /\ waiting \subseteq Threads /\ owner \in Threads \union {None}
    /\ held \in [Threads -> Seq(Nat)]
    /\ closing \in [Threads -> Nat \union {None}]

(* A connection is lent to one QueryDatabase at a time, in one thread,     *)
(* however borrowing, connecting and giving back interleave and nest.      *)
Exclusive ==
    /\ \A s1, s2 \in Slots : s1 # s2 => At(s1) # At(s2)
    /\ Holders \intersect Pooled = {}

(* No connection is ever forgotten or kept twice: each is in m_Pool, once, *)
(* or in m_BorrowedPool, and m_BorrowedPool is what is really in use.      *)
Accounted ==
    /\ \A i, j \in DOMAIN pool : i # j => pool[i] # pool[j]
    /\ borrowed = Holders
    /\ Pooled \union borrowed = 1 .. created

(* Why the mutex is no bottleneck for ever: there are never more           *)
(* connections than the threads can hold together (or were configured), so *)
(* in the end nobody connects inside Borrow any more.                      *)
Bounded ==
    LET most == Cardinality(Threads) * MaxHeld
    IN  created <= IF PoolSize < most THEN most ELSE PoolSize

(* What its users rely on, Lending: who asks is lent a connection, whatever *)
(* the others hold, even if they hold all there are and ask for more.      *)
Phase  == CASE status = "starting" -> "starting" [] status = "up" -> "up" [] OTHER -> "over"
Depth  == [t \in Threads |-> Len(held[t])]
Asking == waiting \union ({owner} \ {None})

Lender == INSTANCE Lending WITH phase <- Phase, depth <- Depth, asking <- Asking

LenderSpec == Lender!FairSpec

(* The comment in Borrow wants a connection in m_Pool to be such that a    *)
(* QueryDatabase "is not sharing a pointer from this connection", and a    *)
(* MySQL connection bears one thread at a time.  Fails: UnBorrow is called *)
(* before the statement is closed, and another thread may be handed the    *)
(* connection in between.                                                  *)
PooledIsUnshared ==
    \A t, u \in Threads : \A i \in DOMAIN held[u] :
        t # u => closing[t] # held[u][i]
=============================================================================
