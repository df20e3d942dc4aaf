---------------------------- MODULE LoginSession ----------------------------
(***************************************************************************)
(* AuthSocket::HandleLoginUser and SendUserSuccess with the QueryDatabase  *)
(* objects they use, on several network threads that share one connection  *)
(* pool, which keeps the promise of module Lending.                        *)
(*                                                                         *)
(* A thread runs one handler at a time.  What it shares with the others is *)
(* the pool and the database, so its steps are: borrow, run one statement, *)
(* give back, and what it does between two of them.  ExecuteQuery swallows *)
(* the exception of a statement; what else the connector throws leaves     *)
(* OnRead and io_service::run, which ends the process.                     *)
(*                                                                         *)
(* A password stands for the hash in sha_pass it belongs to.               *)
(***************************************************************************)
EXTENDS Naturals, Sequences, FiniteSets

CONSTANTS
    Threads,       \* the network threads
    None,          \* no name, no password, no account
    Names,         \* user_name
    Passwords,     \* what a client may send, and an account may have
    RealmCounts,   \* how many rows server_realms may have
    MaxChanges     \* bound: changes of passwords by others

(* The value of m_ResultSet when there is none. *)
Null == "null"

ASSUME LoginAssumption ==
    /\ Null # None /\ {None, Null} \intersect (Names \union Passwords) = {}
    /\ RealmCounts \subseteq Nat /\ MaxChanges \in Nat

MaxServers == 4   \* the length of PacketServerList::ServersStruct

VARIABLES
    process,   \* "up", or how the process ended
    accounts,  \* the table account: sha_pass of a name, None if it has no row
    online,    \* the accounts with online = 1
    changes,   \* changes of passwords so far
    pc,        \* per thread, where its handler is
    request,   \* per thread, the packet, and whether it is still intact
    row,       \* per thread, what the SELECT brought
    seen,      \* history: what accounts had for the name since the request
    replies    \* per thread, what was sent for the request

VARIABLES phase, depth, asking   \* of the pool, see Lending

Pool == INSTANCE Lending WITH MaxHeld <- 2

poolVars    == <<phase, depth, asking>>
tableVars   == <<accounts, online, changes>>
handlerVars == <<pc, request, row, seen, replies>>
loginVars   == <<process, tableVars, handlerVars>>
vars        == <<loginVars, poolVars>>

NoRequest == [name |-> None, password |-> None, intact |-> TRUE]

Init ==
    /\ process = "up"
    /\ accounts \in [Names -> Passwords \union {None}]
    /\ online = {} /\ changes = 0
    /\ pc = [t \in Threads |-> "idle"]
    /\ request = [t \in Threads |-> NoRequest]
    /\ row = [t \in Threads |-> Null]
    /\ seen = [t \in Threads |-> {}]
    /\ replies = [t \in Threads |-> <<>>]
    /\ Pool!Init

Running == process = "up" /\ phase = "up"

(* Thread t is at place, and every QueryDatabase there has its connection. *)
At(t, place) == Running /\ pc[t] = place /\ t \notin asking

Goto(t, place)    == pc' = [pc EXCEPT ![t] = place]
Reply(t, packets) == replies' = [replies EXCEPT ![t] = @ \o packets]

(* The process ends, and nothing of its handlers is left.                  *)
Ends(how) ==
    /\ process' = how
    /\ pc' = [t \in Threads |-> "idle"]
    /\ request' = [t \in Threads |-> NoRequest]
    /\ row' = [t \in Threads |-> Null]
    /\ seen' = [t \in Threads |-> {}]
    /\ replies' = [t \in Threads |-> <<>>]
    /\ UNCHANGED <<tableVars, poolVars>>
-----------------------------------------------------------------------------
(* Operators named Mutant... are plausible bugs, see the README.           *)

(* main loads the database, or ends because it cannot. *)
LoadDatabase == (Pool!Opens \/ Pool!OpenFails) /\ UNCHANGED loginVars

(* A thread that asks for its second connection spins until no other       *)
(* thread has one.                                                         *)
MutantBorrowing(t) ==
    /\ process = "up"
    /\ \/ /\ depth[t] = 0 \/ \A u \in Threads \ {t} : depth[u] = 0
          /\ Pool!Lend(t) \/ Pool!LendFails(t)
          /\ UNCHANGED loginVars
       \/ t \in asking /\ UNCHANGED vars

(* Inside Borrow, for the first or the second QueryDatabase. *)
Borrowing(t) ==
    /\ process = "up"
    /\ Pool!Lend(t) \/ Pool!LendFails(t)
    /\ UNCHANGED loginVars

(* Somebody else changes or creates an account. *)
SetPassword(n, p) ==
    /\ Running /\ changes < MaxChanges
    /\ accounts' = [accounts EXCEPT ![n] = p]
    /\ changes' = changes + 1
    /\ seen' = [t \in Threads |-> IF request[t].name = n THEN seen[t] \union {p}
                                                         ELSE seen[t]]
    /\ UNCHANGED <<process, online, pc, request, row, replies, poolVars>>

(* ProcessIncomingData calls HandleLoginUser, whose QueryDatabase borrows. *)
(* DecryptPacket returned a pointer into its own frame: what is called     *)
(* before the packet is read may overwrite it (intact is FALSE).           *)
HandleLoginUser(t) ==
    /\ Running /\ pc[t] = "idle"
    /\ \E n \in Names, p \in Passwords, i \in BOOLEAN :
          /\ request' = [request EXCEPT ![t] = [name |-> n, password |-> p, intact |-> i]]
          /\ seen' = [seen EXCEPT ![t] = {accounts[n]}]
    /\ Pool!Ask(t)
    /\ Goto(t, "select")
    /\ UNCHANGED <<process, tableVars, row, replies>>

(* What the connector throws outside ExecuteQuery nobody catches: when a    *)
(* statement is prepared, a value bound to it, or a row fetched or read.   *)
ConnectorThrows(t) ==
    /\ \E place \in {"select", "result", "update", "success", "realms"} : At(t, place)
    /\ Ends("terminated")

(* The account is set online before the password is looked at.             *)
MutantSelectRuns(t) ==
    /\ At(t, "select")
    /\ row' = [row EXCEPT ![t] = accounts[request[t].name]]
    /\ online' = online \union {request[t].name}
    /\ Goto(t, "result")
    /\ UNCHANGED <<process, accounts, changes, request, seen, replies, poolVars>>

(* SELECT ... WHERE user_name = ?; no account has the name in a packet     *)
(* that was overwritten.                                                   *)
SelectRuns(t) ==
    /\ At(t, "select")
    /\ \E found \in {accounts[request[t].name]}
                        \union (IF request[t].intact THEN {} ELSE {None}) :
          row' = [row EXCEPT ![t] = found]
    /\ Goto(t, "result")
    /\ UNCHANGED <<process, tableVars, request, seen, replies, poolVars>>

(* ExecuteQuery catches the exception, and m_ResultSet stays null. *)
SelectFails(t) ==
    /\ At(t, "select")
    /\ Goto(t, "result")
    /\ UNCHANGED <<process, tableVars, request, row, seen, replies, poolVars>>

(* GetResult calls next through the null pointer. *)
NoResultSet(t) ==
    /\ At(t, "result") /\ row[t] = Null
    /\ Ends("null")

(* GetResult finds no row. *)
NameUnknown(t) ==
    /\ At(t, "result") /\ row[t] = None
    /\ Reply(t, <<"IncorrectName">>)
    /\ Goto(t, "return")
    /\ UNCHANGED <<process, tableVars, request, row, seen, poolVars>>

(* The hashes differ, or the password in the packet was overwritten.       *)
PasswordWrong(t) ==
    /\ At(t, "result") /\ row[t] \in Passwords
    /\ row[t] # request[t].password \/ ~request[t].intact
    /\ Reply(t, <<"IncorrectPassword">>)
    /\ Goto(t, "return")
    /\ UNCHANGED <<process, tableVars, request, row, seen, poolVars>>

(* Any account that exists will do. *)
MutantPasswordRight(t) ==
    /\ At(t, "result") /\ row[t] \in Passwords
    /\ Reply(t, <<"CheckSum">>)
    /\ Goto(t, "update")
    /\ UNCHANGED <<process, tableVars, request, row, seen, poolVars>>

PasswordRight(t) ==
    /\ At(t, "result") /\ row[t] \in Passwords
    /\ row[t] = request[t].password
    /\ Reply(t, <<"CheckSum">>)
    /\ Goto(t, "update")
    /\ UNCHANGED <<process, tableVars, request, row, seen, poolVars>>

(* The id is taken from the column of the hash. *)
MutantUpdateRuns(t) ==
    /\ At(t, "update")
    /\ online' = online \union {row[t]}
    /\ Goto(t, "success")
    /\ UNCHANGED <<process, accounts, changes, request, row, seen, replies, poolVars>>

(* UPDATE account SET online = 1 ... WHERE id = ? *)
UpdateRuns(t) ==
    /\ At(t, "update")
    /\ online' = online \union {request[t].name}
    /\ Goto(t, "success")
    /\ UNCHANGED <<process, accounts, changes, request, row, seen, replies, poolVars>>

(* ExecuteQuery catches the exception, and the handler does not learn of it. *)
UpdateFails(t) ==
    /\ At(t, "update")
    /\ Goto(t, "success")
    /\ UNCHANGED <<process, tableVars, request, row, seen, replies, poolVars>>

(* SendUserSuccess: the packet, then a QueryDatabase of its own. *)
SendUserSuccess(t) ==
    /\ At(t, "success")
    /\ Reply(t, <<"UserInfo">>)
    /\ Pool!Ask(t)
    /\ Goto(t, "realms")
    /\ UNCHANGED <<process, tableVars, request, row, seen>>

(* SELECT ... FROM server_realms: no realms, and no list of them. *)
NoRealms(t) ==
    /\ At(t, "realms") /\ 0 \in RealmCounts
    /\ Goto(t, "return")
    /\ UNCHANGED <<process, tableVars, request, row, seen, replies, poolVars>>

SendServerList(t) ==
    /\ At(t, "realms") /\ RealmCounts \intersect 1 .. MaxServers # {}
    /\ Reply(t, <<"ServerList">>)
    /\ Goto(t, "return")
    /\ UNCHANGED <<process, tableVars, request, row, seen, poolVars>>

(* The loop over the rows writes behind ServersStruct. *)
TooManyRealms(t) ==
    /\ At(t, "realms") /\ \E n \in RealmCounts : n > MaxServers
    /\ Ends("overrun")

(* ExecuteQuery catches the exception, and GetResult uses the null pointer. *)
RealmsFail(t) ==
    /\ At(t, "realms")
    /\ Ends("null")

(* The handlers return; the QueryDatabase of SendUserSuccess is destroyed  *)
(* before that of HandleLoginUser.                                         *)
Destroy(t) == At(t, "return") /\ Pool!GiveBack(t) /\ UNCHANGED loginVars

Returned(t) ==
    /\ At(t, "return") /\ depth[t] = 0
    /\ Goto(t, "idle")
    /\ request' = [request EXCEPT ![t] = NoRequest]
    /\ row' = [row EXCEPT ![t] = Null]
    /\ seen' = [seen EXCEPT ![t] = {}]
    /\ replies' = [replies EXCEPT ![t] = <<>>]
    /\ UNCHANGED <<process, tableVars, poolVars>>

(* The process is no more, or may do anything. *)
Over == (process # "up" \/ phase = "over") /\ UNCHANGED vars

Judge(t)  == NoResultSet(t) \/ NameUnknown(t) \/ PasswordWrong(t) \/ PasswordRight(t)
Select(t) == SelectRuns(t) \/ SelectFails(t)
Update(t) == UpdateRuns(t) \/ UpdateFails(t)
Realms(t) == NoRealms(t) \/ SendServerList(t) \/ TooManyRealms(t) \/ RealmsFail(t)

Serve(t) ==
    \/ Borrowing(t) \/ ConnectorThrows(t) \/ Select(t) \/ Judge(t) \/ Update(t)
    \/ SendUserSuccess(t) \/ Realms(t) \/ Destroy(t) \/ Returned(t)

Next ==
    \/ LoadDatabase \/ Over
    \/ \E n \in Names, p \in Passwords : SetPassword(n, p)
    \/ \E t \in Threads : HandleLoginUser(t) \/ Serve(t)

Spec == Init /\ [][Next]_vars

(* A handler goes on: a statement ends, with or without an exception, a    *)
(* connect too, and a free mutex is taken.                                 *)
FairSpec == Spec /\ \A t \in Threads : WF_vars(Serve(t))
-----------------------------------------------------------------------------
Places == {"idle", "select", "result", "update", "success", "realms", "return"}

Verdicts == {"IncorrectName", "IncorrectPassword", "UserInfo"}

Packets == Verdicts \union {"CheckSum", "ServerList"}

Requests == [name : Names \union {None}, password : Passwords \union {None},
             intact : BOOLEAN]

Sent(t) == {replies[t][i] : i \in DOMAIN replies[t]}

(* The types of the variables; those of the pool are ConnectionPool's. *)
TypeOK ==
    /\ process \in {"up", "terminated", "null", "overrun"}
    /\ accounts \in [Names -> Passwords \union {None}]
    /\ online \subseteq Names /\ changes \in 0 .. MaxChanges
    /\ pc \in [Threads -> Places]
    /\ request \in [Threads -> Requests]
    /\ row \in [Threads -> Passwords \union {None, Null}]
    /\ seen \in [Threads -> SUBSET (Passwords \union {None})]
    /\ replies \in [Threads -> Seq(Packets)]

(* A client is told that it is in only if the account had the password it  *)
(* sent at some time while the request was handled, and if the packet was  *)
(* not overwritten a failure is the truth as well; a handler that returns  *)
(* has given one verdict.                                                  *)
Truthful ==
    \A t \in Threads :
        /\ "UserInfo" \in Sent(t) => request[t].password \in seen[t]
        /\ request[t].intact =>
              /\ "IncorrectName" \in Sent(t) => None \in seen[t]
              /\ "IncorrectPassword" \in Sent(t) =>
                     seen[t] \ {None, request[t].password} # {}
        /\ pc[t] = "return" => \E v \in Verdicts : Sent(t) \intersect Verdicts = {v}

(* An account is set online only by a thread that has checked, during the  *)
(* request it is at, the password that the account had.                    *)
OnlineIsEarned ==
    [][\A n \in online' \ online : \E t \in Threads :
            /\ request[t].name = n /\ request[t].password \in seen[t]
            /\ "CheckSum" \in Sent(t)]_vars

(* Every login comes to an end, although both statements of it need a      *)
(* connection and the pool may have none left for the second one.          *)
LoginEnds == \A t \in Threads : pc[t] # "idle" ~> (pc[t] = "idle" \/ ~Running)
=============================================================================
