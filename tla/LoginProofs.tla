---------------------------- MODULE LoginProofs ----------------------------
(***************************************************************************)
(* Theorems about the login, for every number of threads, accounts and     *)
(* passwords, and for any pool that keeps the promise of Lending.          *)
(***************************************************************************)
EXTENDS LoginSession, SequenceTheorems, TLAPS

(* What the handler of thread t knows and has sent, by how far it is.      *)
Progress(t) ==
    /\ pc[t] = "idle" => request[t] = NoRequest /\ row[t] = Null /\ Sent(t) = {}
    /\ pc[t] # "idle" =>
          /\ request[t].name \in Names /\ request[t].password \in Passwords
          /\ accounts[request[t].name] \in seen[t]
    /\ pc[t] = "select" => row[t] = Null /\ Sent(t) = {}
    /\ pc[t] = "result" =>
          /\ Sent(t) = {}
          /\ \/ row[t] \in seen[t] \union {Null}
             \/ row[t] = None /\ ~request[t].intact
    /\ pc[t] \in {"update", "success", "realms"} =>
          /\ row[t] = request[t].password /\ request[t].password \in seen[t]
          /\ Sent(t) = IF pc[t] = "realms" THEN {"CheckSum", "UserInfo"} ELSE {"CheckSum"}
    /\ pc[t] = "return" =>
          \/ Sent(t) = {"IncorrectName"} /\ (request[t].intact => None \in seen[t])
          \/ /\ Sent(t) = {"IncorrectPassword"}
             /\ request[t].intact => seen[t] \ {None, request[t].password} # {}
          \/ /\ Sent(t) \in {{"CheckSum", "UserInfo"}, {"CheckSum", "UserInfo", "ServerList"}}
             /\ request[t].password \in seen[t]

IInv == TypeOK /\ \A t \in Threads : Progress(t)
-----------------------------------------------------------------------------
(* Write sends one packet more. *)
LEMMA ReplyAdds ==
    ASSUME TypeOK, NEW t \in Threads, NEW p \in Packets, Reply(t, <<p>>)
    PROVE  /\ replies' \in [Threads -> Seq(Packets)]
           /\ Sent(t)' = Sent(t) \union {p}
           /\ \A u \in Threads \ {t} : replies'[u] = replies[u]
<1> DEFINE s == replies[t]
           r == s \o <<p>>
<1>1. s \in Seq(Packets) /\ <<p>> \in Seq(Packets) /\ Len(<<p>>) = 1 /\ <<p>>[1] = p
  BY DEF TypeOK
<1>2. /\ r \in Seq(Packets) /\ Len(r) = Len(s) + 1 /\ Len(s) \in Nat
      /\ \A i \in 1 .. Len(s) : r[i] = s[i]
      /\ r[Len(s) + 1] = p
  BY <1>1, ConcatProperties, LenProperties
<1>3. DOMAIN s = 1 .. Len(s) /\ DOMAIN r = 1 .. Len(r)
  BY <1>1, <1>2, LenProperties
<1>4. replies' = [replies EXCEPT ![t] = r]
  BY DEF Reply
<1> HIDE DEF r
<1>5. replies'[t] = r /\ \A u \in Threads \ {t} : replies'[u] = replies[u]
  BY <1>4 DEF TypeOK
<1>6. replies' \in [Threads -> Seq(Packets)]
  BY <1>2, <1>4 DEF TypeOK
<1>7. {r[i] : i \in DOMAIN r} = {s[i] : i \in DOMAIN s} \union {p}
  <2>1. DOMAIN r = DOMAIN s \union {Len(s) + 1}
    BY <1>2, <1>3
  <2> QED
    BY <1>2, <1>3, <2>1
<1> QED
  BY <1>5, <1>6, <1>7 DEF Sent

(* What was sent stays sent. *)
LEMMA SentKept ==
    ASSUME NEW t, replies'[t] = replies[t] PROVE Sent(t)' = Sent(t)
  BY DEF Sent

(* A thread that nothing happens to is where it was. *)
LEMMA ProgressKept ==
    ASSUME NEW t, Progress(t), accounts' = accounts, pc'[t] = pc[t],
           request'[t] = request[t], row'[t] = row[t], seen'[t] = seen[t],
           replies'[t] = replies[t]
    PROVE  Progress(t)'
<1>1. Sent(t)' = Sent(t)
  BY SentKept
<1> QED
  BY <1>1 DEF Progress

(* Steps of the pool and of the database's start, and no step at all.      *)
LEMMA StutterPreserves ==
    ASSUME IInv, UNCHANGED loginVars PROVE IInv'
<1>1. TypeOK'
  BY DEF IInv, TypeOK, loginVars, tableVars, handlerVars
<1>2. ASSUME NEW t \in Threads PROVE Progress(t)'
  BY <1>2, ProgressKept DEF IInv, loginVars, tableVars, handlerVars
<1> QED
  BY <1>1, <1>2 DEF IInv

(* No request is under way before the first one. *)
LEMMA InitIInv == Init => IInv
<1> SUFFICES ASSUME Init PROVE IInv
  OBVIOUS
<1>1. TypeOK
  BY LoginAssumption, EmptySeq DEF Init, TypeOK, NoRequest, Requests, Places
<1>2. ASSUME NEW t \in Threads PROVE Progress(t)
  <2>1. Sent(t) = {}
    BY EmptySeq DEF Init, Sent
  <2> QED
    BY <2>1 DEF Init, Progress
<1> QED
  BY <1>1, <1>2 DEF IInv

(* A process that ends leaves no handler behind. *)
LEMMA EndsPreserves ==
    ASSUME IInv, NEW how \in {"terminated", "null", "overrun"}, Ends(how) PROVE IInv'
<1>1. TypeOK'
  BY EmptySeq DEF IInv, TypeOK, Ends, NoRequest, Requests, Places, tableVars
<1>2. ASSUME NEW t \in Threads PROVE Progress(t)'
  <2>1. Sent(t)' = {}
    BY EmptySeq DEF Ends, Sent
  <2> QED
    BY <2>1 DEF Ends, Progress
<1> QED
  BY <1>1, <1>2 DEF IInv

(* Another password only adds to what a request has seen. *)
LEMMA SetPasswordPreserves ==
    ASSUME IInv, NEW n \in Names, NEW p \in Passwords, SetPassword(n, p) PROVE IInv'
<1> USE DEF SetPassword
<1>1. TypeOK'
  BY LoginAssumption DEF IInv, TypeOK
<1>2. ASSUME NEW t \in Threads PROVE Progress(t)'
  <2>1. Sent(t)' = Sent(t)
    BY SentKept
  <2>2. seen'[t] = IF request[t].name = n THEN seen[t] \union {p} ELSE seen[t]
    BY DEF IInv, TypeOK
  <2>3. \A m \in Names : accounts'[m] = IF m = n THEN p ELSE accounts[m]
    BY DEF IInv, TypeOK
  <2>4. Progress(t)
    BY DEF IInv
  <2>5. request[t].name \in Names =>
            (accounts[request[t].name] \in seen[t] => accounts'[request[t].name] \in seen'[t])
    BY <2>2, <2>3
  <2> QED
    BY <2>1, <2>2, <2>4, <2>5 DEF Progress
<1> QED
  BY <1>1, <1>2 DEF IInv
-----------------------------------------------------------------------------
(* The steps of a handler.  A step of one thread leaves the others alone.  *)
LEMMA OwnStep ==
    ASSUME IInv, NEW t \in Threads, TypeOK', accounts' = accounts, Progress(t)',
           \A u \in Threads \ {t} :
               /\ pc'[u] = pc[u] /\ request'[u] = request[u] /\ row'[u] = row[u]
               /\ seen'[u] = seen[u] /\ replies'[u] = replies[u]
    PROVE  IInv'
<1>1. ASSUME NEW u \in Threads \ {t} PROVE Progress(u)'
  BY <1>1, ProgressKept DEF IInv
<1> QED
  BY <1>1 DEF IInv

(* A request begins with what the account has at that time. *)
LEMMA HandleLoginUserPreserves ==
    ASSUME IInv, NEW t \in Threads, HandleLoginUser(t) PROVE IInv'
<1> USE DEF HandleLoginUser, Goto
<1>1. PICK n \in Names, p \in Passwords, i \in BOOLEAN :
          /\ request' = [request EXCEPT ![t] = [name |-> n, password |-> p, intact |-> i]]
          /\ seen' = [seen EXCEPT ![t] = {accounts[n]}]
  OBVIOUS
<1>2. TypeOK'
  BY <1>1 DEF IInv, TypeOK, Requests, Places, tableVars
<1>3. Sent(t)' = Sent(t)
  BY SentKept
<1>4. Progress(t)'
  BY <1>1, <1>3 DEF IInv, TypeOK, Progress, tableVars
<1> QED
  BY <1>1, <1>2, <1>4, OwnStep DEF IInv, TypeOK, tableVars

(* The SELECT: the row is what the account has, or none. *)
LEMMA SelectPreserves ==
    ASSUME IInv, NEW t \in Threads, Select(t) PROVE IInv'
<1> USE DEF At, Goto
<1>1. /\ Sent(t)' = Sent(t) /\ pc[t] = "select" /\ pc' = [pc EXCEPT ![t] = "result"]
      /\ UNCHANGED <<process, tableVars, request, seen, replies>>
  BY SentKept DEF Select, SelectRuns, SelectFails
<1>2. PICK found \in {accounts[request[t].name], None, Null} :
          /\ row' = [row EXCEPT ![t] = found]
          /\ found = None => found = accounts[request[t].name] \/ ~request[t].intact
  <2>1. CASE SelectRuns(t)
    BY <2>1, LoginAssumption DEF SelectRuns
  <2>2. CASE SelectFails(t)
    <3>1. row' = [row EXCEPT ![t] = Null]
      BY <2>2 DEF SelectFails, IInv, TypeOK, Progress
    <3> QED
      BY <3>1, LoginAssumption
  <2> QED
    BY <2>1, <2>2 DEF Select
<1>3. request[t].name \in Names /\ accounts[request[t].name] \in seen[t]
  BY <1>1 DEF IInv, Progress
<1>4. TypeOK'
  BY <1>1, <1>2, <1>3 DEF IInv, TypeOK, Places, tableVars
<1>5. Progress(t)'
  BY <1>1, <1>2, <1>3 DEF IInv, TypeOK, Progress, tableVars
<1> QED
  BY <1>1, <1>2, <1>4, <1>5, OwnStep DEF IInv, TypeOK, tableVars

(* The verdict on name and password. *)
LEMMA JudgePreserves ==
    ASSUME IInv, NEW t \in Threads, Judge(t) PROVE IInv'
<1> USE DEF At, Goto
<1>1. CASE NoResultSet(t)
  BY <1>1, EndsPreserves DEF NoResultSet
<1>2. CASE NameUnknown(t)
  <2> USE <1>2 DEF NameUnknown
  <2>1. /\ Sent(t)' = Sent(t) \union {"IncorrectName"}
        /\ replies' \in [Threads -> Seq(Packets)]
        /\ \A u \in Threads \ {t} : replies'[u] = replies[u]
    BY ReplyAdds DEF IInv, Packets, Verdicts
  <2>2. TypeOK'
    BY <2>1 DEF IInv, TypeOK, Places, tableVars
  <2>3. Progress(t)'
    BY <2>1, LoginAssumption DEF IInv, TypeOK, Progress, tableVars
  <2> QED
    BY <2>1, <2>2, <2>3, OwnStep DEF IInv, TypeOK, tableVars
<1>3. CASE PasswordWrong(t)
  <2> USE <1>3 DEF PasswordWrong
  <2>1. /\ Sent(t)' = Sent(t) \union {"IncorrectPassword"}
        /\ replies' \in [Threads -> Seq(Packets)]
        /\ \A u \in Threads \ {t} : replies'[u] = replies[u]
    BY ReplyAdds DEF IInv, Packets, Verdicts
  <2>2. TypeOK'
    BY <2>1 DEF IInv, TypeOK, Places, tableVars
  <2>3. row[t] \in seen[t] /\ row[t] # None
    BY LoginAssumption DEF IInv, Progress
  <2>4. Progress(t)'
    BY <2>1, <2>3 DEF IInv, TypeOK, Progress, tableVars
  <2> QED
    BY <2>1, <2>2, <2>4, OwnStep DEF IInv, TypeOK, tableVars
<1>4. CASE PasswordRight(t)
  <2> USE <1>4 DEF PasswordRight
  <2>1. /\ Sent(t)' = Sent(t) \union {"CheckSum"}
        /\ replies' \in [Threads -> Seq(Packets)]
        /\ \A u \in Threads \ {t} : replies'[u] = replies[u]
    BY ReplyAdds DEF IInv, Packets
  <2>2. TypeOK'
    BY <2>1 DEF IInv, TypeOK, Places, tableVars
  <2>3. request[t].password \in seen[t]
    BY LoginAssumption DEF IInv, Progress
  <2>4. Progress(t)'
    BY <2>1, <2>3 DEF IInv, TypeOK, Progress, tableVars
  <2> QED
    BY <2>1, <2>2, <2>4, OwnStep DEF IInv, TypeOK, tableVars
<1> QED
  BY <1>1, <1>2, <1>3, <1>4 DEF Judge

(* The UPDATE sets the account of the request online, if anything. *)
LEMMA UpdatePreserves ==
    ASSUME IInv, NEW t \in Threads, Update(t) PROVE IInv'
<1> USE DEF At, Goto
<1>1. /\ Sent(t)' = Sent(t) /\ pc[t] = "update" /\ pc' = [pc EXCEPT ![t] = "success"]
      /\ UNCHANGED <<process, accounts, changes, request, row, seen, replies>>
      /\ online' \in {online, online \union {request[t].name}}
  BY SentKept DEF Update, UpdateRuns, UpdateFails, tableVars
<1>2. TypeOK'
  BY <1>1 DEF IInv, TypeOK, Places, Progress
<1>3. Progress(t)'
  BY <1>1 DEF IInv, TypeOK, Progress
<1> QED
  BY <1>1, <1>2, <1>3, OwnStep DEF IInv, TypeOK

(* The packet that says the client is in. *)
LEMMA SendUserSuccessPreserves ==
    ASSUME IInv, NEW t \in Threads, SendUserSuccess(t) PROVE IInv'
<1> USE DEF At, Goto, SendUserSuccess
<1>1. /\ Sent(t)' = Sent(t) \union {"UserInfo"}
      /\ replies' \in [Threads -> Seq(Packets)]
      /\ \A u \in Threads \ {t} : replies'[u] = replies[u]
  BY ReplyAdds DEF IInv, Packets, Verdicts
<1>2. TypeOK'
  BY <1>1 DEF IInv, TypeOK, Places, tableVars
<1>3. Progress(t)'
  BY <1>1 DEF IInv, TypeOK, Progress, tableVars
<1> QED
  BY <1>1, <1>2, <1>3, OwnStep DEF IInv, TypeOK, tableVars

(* The list of realms, or none. *)
LEMMA RealmsPreserves ==
    ASSUME IInv, NEW t \in Threads, Realms(t) PROVE IInv'
<1> USE DEF At, Goto
<1>1. CASE NoRealms(t)
  <2> USE <1>1 DEF NoRealms
  <2>1. Sent(t)' = Sent(t)
    BY SentKept
  <2>2. TypeOK'
    BY DEF IInv, TypeOK, Places, tableVars
  <2>3. Progress(t)'
    BY <2>1 DEF IInv, TypeOK, Progress, tableVars
  <2> QED
    BY <2>2, <2>3, OwnStep DEF IInv, TypeOK, tableVars
<1>2. CASE SendServerList(t)
  <2> USE <1>2 DEF SendServerList
  <2>1. /\ Sent(t)' = Sent(t) \union {"ServerList"}
        /\ replies' \in [Threads -> Seq(Packets)]
        /\ \A u \in Threads \ {t} : replies'[u] = replies[u]
    BY ReplyAdds DEF IInv, Packets
  <2>2. TypeOK'
    BY <2>1 DEF IInv, TypeOK, Places, tableVars
  <2>3. Progress(t)'
    BY <2>1 DEF IInv, TypeOK, Progress, tableVars
  <2> QED
    BY <2>1, <2>2, <2>3, OwnStep DEF IInv, TypeOK, tableVars
<1>3. CASE TooManyRealms(t) \/ RealmsFail(t)
  BY <1>3, EndsPreserves DEF TooManyRealms, RealmsFail
<1> QED
  BY <1>1, <1>2, <1>3 DEF Realms

(* The next packet starts from nothing. *)
LEMMA ReturnedPreserves ==
    ASSUME IInv, NEW t \in Threads, Returned(t) PROVE IInv'
<1> USE DEF At, Goto, Returned
<1>1. TypeOK'
  BY LoginAssumption, EmptySeq DEF IInv, TypeOK, Places, Requests, NoRequest, tableVars
<1>2. Sent(t)' = {}
  BY EmptySeq DEF IInv, TypeOK, Sent
<1>3. Progress(t)'
  BY <1>2 DEF IInv, TypeOK, Progress
<1> QED
  BY <1>1, <1>3, OwnStep DEF IInv, TypeOK, tableVars
-----------------------------------------------------------------------------
(* One step of the system keeps the invariant. *)
LEMMA NextPreserves ==
    ASSUME IInv, [Next]_vars PROVE IInv'
<1>1. CASE LoadDatabase \/ Over \/ UNCHANGED vars
  BY <1>1, StutterPreserves DEF LoadDatabase, Over, vars
<1>2. ASSUME NEW n \in Names, NEW p \in Passwords, SetPassword(n, p) PROVE IInv'
  BY <1>2, SetPasswordPreserves
<1>3. ASSUME NEW t \in Threads, HandleLoginUser(t) \/ Serve(t) PROVE IInv'
  <2>1. CASE Borrowing(t) \/ Destroy(t)
    BY <2>1, StutterPreserves DEF Borrowing, Destroy
  <2>2. CASE ConnectorThrows(t)
    BY <2>2, EndsPreserves DEF ConnectorThrows
  <2> QED
    BY <1>3, <2>1, <2>2, HandleLoginUserPreserves, SelectPreserves, JudgePreserves,
       UpdatePreserves, SendUserSuccessPreserves, RealmsPreserves, ReturnedPreserves
       DEF Serve
<1> QED
  BY <1>1, <1>2, <1>3 DEF Next

(* The inductive invariant of the login holds in every reachable state.    *)
THEOREM LoginInvariance == Spec => []IInv
  BY InitIInv, NextPreserves, PTL DEF Spec

(* The variables of the handlers and of the database keep their types.     *)
THEOREM LoginTypeCorrect == Spec => []TypeOK
<1>1. IInv => TypeOK
  BY DEF IInv
<1> QED
  BY <1>1, LoginInvariance, PTL

(* What a client is told is true of the account during its request.        *)
THEOREM TruthfulHolds == Spec => []Truthful
<1>1. IInv => Truthful
  <2> SUFFICES ASSUME IInv, NEW t \in Threads
               PROVE  /\ "UserInfo" \in Sent(t) => request[t].password \in seen[t]
                      /\ request[t].intact =>
                            /\ "IncorrectName" \in Sent(t) => None \in seen[t]
                            /\ "IncorrectPassword" \in Sent(t) =>
                                   seen[t] \ {None, request[t].password} # {}
                      /\ pc[t] = "return" =>
                            \E v \in Verdicts : Sent(t) \intersect Verdicts = {v}
    BY DEF Truthful
  <2>1. pc[t] \in Places /\ Progress(t)
    BY DEF IInv, TypeOK
  <2> QED
    BY <2>1 DEF Places, Progress, Verdicts
<1> QED
  BY <1>1, LoginInvariance, PTL

(* Nobody is set online without having sent the password of the account.   *)
THEOREM OnlineIsEarnedHolds == Spec => OnlineIsEarned
<1> DEFINE Earned == \A n \in online' \ online : \E t \in Threads :
                        /\ request[t].name = n /\ request[t].password \in seen[t]
                        /\ "CheckSum" \in Sent(t)
<1>1. ASSUME IInv, [Next]_vars PROVE [Earned]_vars
  <2>1. ASSUME NEW t \in Threads, UpdateRuns(t) PROVE Earned
    BY <1>1, <2>1 DEF UpdateRuns, At, IInv, Progress
  <2>2. ASSUME online' = online PROVE Earned
    BY <2>2
  <2>3. \/ online' = online
        \/ \E t \in Threads : UpdateRuns(t)
    BY <1>1 DEF Next, Serve, Select, Judge, Update, Realms, LoadDatabase, Over, SetPassword,
       HandleLoginUser, Borrowing, ConnectorThrows, SelectRuns, SelectFails, NoResultSet,
       NameUnknown, PasswordWrong, PasswordRight, UpdateFails, SendUserSuccess, NoRealms,
       SendServerList, TooManyRealms, RealmsFail, Destroy, Returned, Ends, vars, loginVars,
       tableVars
  <2> QED
    BY <2>1, <2>2, <2>3
<1> QED
  BY <1>1, LoginInvariance, PTL DEF Spec, OnlineIsEarned
=============================================================================
