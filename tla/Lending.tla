------------------------------ MODULE Lending ------------------------------
(***************************************************************************)
(* What a QueryDatabase is promised by the connection pool of its          *)
(* database: a thread that asks for a connection is lent one, whatever the *)
(* others hold or ask for, unless the process ends; it may ask for another *)
(* while it has one, and gives back what it was lent last.                 *)
(*                                                                         *)
(* Which connection it is does not matter here; that it is nobody else's   *)
(* is ConnectionPool's Exclusive.                                          *)
(***************************************************************************)
EXTENDS Naturals

CONSTANTS
    Threads,
    MaxHeld   \* how deep the users nest QueryDatabase objects

VARIABLES
    phase,   \* "starting", "up" or "over"
    depth,   \* per thread, how many connections it has
    asking   \* the threads inside Borrow

vars == <<phase, depth, asking>>

Init == phase = "starting" /\ depth = [t \in Threads |-> 0] /\ asking = {}

Opens == phase = "starting" /\ phase' = "up" /\ UNCHANGED <<depth, asking>>

(* There is no server, or no such schema. *)
OpenFails == phase = "starting" /\ phase' = "over" /\ UNCHANGED <<depth, asking>>

Ask(t) ==
    /\ phase = "up" /\ t \notin asking /\ depth[t] < MaxHeld
    /\ asking' = asking \union {t}
    /\ UNCHANGED <<phase, depth>>

Lend(t) ==
    /\ phase = "up" /\ t \in asking
    /\ asking' = asking \ {t}
    /\ depth' = [depth EXCEPT ![t] = @ + 1]
    /\ UNCHANGED phase

(* The connection that was to be made for t cannot be. *)
LendFails(t) ==
    /\ phase = "up" /\ t \in asking
    /\ phase' = "over"
    /\ UNCHANGED <<depth, asking>>

GiveBack(t) ==
    /\ phase = "up" /\ t \notin asking /\ depth[t] > 0
    /\ depth' = [depth EXCEPT ![t] = @ - 1]
    /\ UNCHANGED <<phase, asking>>

Next == \/ Opens \/ OpenFails
        \/ \E t \in Threads : Ask(t) \/ Lend(t) \/ LendFails(t) \/ GiveBack(t)

Spec == Init /\ [][Next]_vars

(* Who asks is answered; nobody has to give anything back for that.        *)
FairSpec == Spec /\ \A t \in Threads : WF_vars(Lend(t) \/ LendFails(t))
=============================================================================
