--------------------------- MODULE SessionProofs ---------------------------
(***************************************************************************)
(* Theorems about Session, for every range of the clock, every PongTimer,  *)
(* every set of headers and every PacketRoom.                              *)
(***************************************************************************)
EXTENDS Session, TLAPS

(* The two maps, and what is in them. *)
Tables(o) ==
    /\ o = [client |-> o.client, server |-> o.server]
    /\ \A code \in DOMAIN o.client : o.client[code] \in Handlers
    /\ \A code \in DOMAIN o.server : o.server[code] \in Handlers

TableInv == Tables(opcodes)

(* The clock has moved by the age, up to turns of its range. *)
ClockInv ==
    /\ state = "none" => age = 0
    /\ state # "none" => \E q \in Int : clock = p_PingDiff + age - Span * q

IInv == TypeOK /\ TableInv /\ ClockInv /\ PingJudgesAge

(* The difference of two values of the clock is the time between them, if  *)
(* that is less than the range of the clock.                               *)
LEMMA Turns ==
    ASSUME NEW a \in 0 .. Span - 1, NEW b \in 0 .. Span - 1,
           NEW g \in 0 .. Span - 1, NEW q \in Int, a = b + g - Span * q
    PROVE  Minus(a, b) = g
  <1>1. Span \in Nat \ {0} BY SessionAssumption
  <1>2. CASE q <= -1
    <2>1. Span * q <= -Span BY <1>1, <1>2
    <2>2. QED BY <1>1, <2>1
  <1>3. CASE q >= 2
    <2>1. Span * q >= 2 * Span BY <1>1, <1>3
    <2>2. QED BY <1>1, <2>1
  <1>4. CASE q = 0
    <2>1. Span * q = 0 BY <1>1, <1>4
    <2>2. QED BY <1>1, <2>1 DEF Minus
  <1>5. CASE q = 1
    <2>1. Span * q = Span BY <1>1, <1>5
    <2>2. QED BY <1>1, <2>1 DEF Minus
  <1>6. QED BY <1>2, <1>3, <1>4, <1>5

(* What an uint32 makes of PongTimer is in the range of an uint32.         *)
LEMMA LimitType ==
    ASSUME TypeOK, pongTimer # Junk
    PROVE  Limit \in 0 .. Span - 1
  <1>1. pongTimer \in -(Span \div 2) .. (Span \div 2 - 1)
    BY SessionAssumption DEF TypeOK
  <1>2. QED BY <1>1, SessionAssumption DEF Limit

(* An entry of a handler leaves the maps maps of handlers.                 *)
LEMMA Stored ==
    ASSUME NEW o, Tables(o), NEW code, NEW handler \in Handlers
    PROVE  Tables(StoreClientPacket(o, code, handler)) /\ Tables(StoreServerPacket(o, code))
  <1>1. ASSUME NEW map, \A c \in DOMAIN map : map[c] \in Handlers, NEW h \in Handlers
        PROVE  \A c \in DOMAIN Store(map, code, h) : Store(map, code, h)[c] \in Handlers
    BY <1>1 DEF Store
  <1>2. PICK client, server : client = o.client /\ server = o.server
    OBVIOUS
  <1>3. o = [client |-> client, server |-> server] BY <1>2 DEF Tables
  <1>4. /\ StoreClientPacket(o, code, handler)
              = [client |-> Store(client, code, handler), server |-> server]
        /\ StoreServerPacket(o, code)
              = [client |-> client, server |-> Store(server, code, "HandleServerMessage")]
    BY <1>2, <1>3 DEF StoreClientPacket, StoreServerPacket
  <1>5. "HandleServerMessage" \in Handlers BY DEF Handlers
  <1>6. /\ \A c \in DOMAIN client : client[c] \in Handlers
        /\ \A c \in DOMAIN server : server[c] \in Handlers
    BY <1>2 DEF Tables
  <1>7. QED BY <1>1, <1>4, <1>5, <1>6 DEF Tables

LEMMA InitIInv == Init => IInv
  <1> SUFFICES ASSUME Init PROVE IInv OBVIOUS
  <1>1. TypeOK BY SessionAssumption DEF Init, TypeOK, Handlers, Empty
  <1>2. TableInv BY DEF Init, TableInv, Tables, Empty
  <1>3. ClockInv BY DEF Init, ClockInv
  <1>4. PingJudgesAge BY DEF Init, PingJudgesAge
  <1>5. QED BY <1>1, <1>2, <1>3, <1>4 DEF IInv

(* main enters nothing but handlers.                                      *)
LEMMA InitializePacketsKeeps ==
    ASSUME IInv, InitializePackets PROVE IInv'
  <1> USE DEF IInv
  <1> DEFINE first  == StoreClientPacket(opcodes, "LOGIN_USER", "HandleLoginUser")
             second == StoreClientPacket(first, "PING", "HandlePing")
             s1 == StoreServerPacket(second, "LOGIN_CODE")
             s2 == StoreServerPacket(s1, "CHECK_SUM")
             s3 == StoreServerPacket(s2, "WINDOW_LIST")
             s4 == StoreServerPacket(s3, "VERSION")
             s5 == StoreServerPacket(s4, "PING")
             s6 == StoreServerPacket(s5, "USER_INFO")
             s7 == StoreServerPacket(s6, "SERVER_LIST")
  <1>1. TableInv'
    <2>e. opcodes' = s7 BY DEF InitializePackets
    <2>h. "HandleLoginUser" \in Handlers /\ "HandlePing" \in Handlers BY DEF Handlers
    <2>a. Tables(first) BY <2>h, Stored DEF TableInv
    <2> HIDE DEF first
    <2>b. Tables(second) BY <2>a, <2>h, Stored
    <2> HIDE DEF second
    <2>1. Tables(s1) BY <2>b, <2>h, Stored
    <2> HIDE DEF s1
    <2>2. Tables(s2) BY <2>1, <2>h, Stored
    <2> HIDE DEF s2
    <2>3. Tables(s3) BY <2>2, <2>h, Stored
    <2> HIDE DEF s3
    <2>4. Tables(s4) BY <2>3, <2>h, Stored
    <2> HIDE DEF s4
    <2>5. Tables(s5) BY <2>4, <2>h, Stored
    <2> HIDE DEF s5
    <2>6. Tables(s6) BY <2>5, <2>h, Stored
    <2> HIDE DEF s6
    <2>7. Tables(s7) BY <2>6, <2>h, Stored
    <2>8. QED BY <2>e, <2>7 DEF TableInv
  <1>2. TypeOK' BY <1>1 DEF InitializePackets, TypeOK, TableInv, Tables, socketVars, history
  <1>3. ClockInv' BY DEF InitializePackets, ClockInv, socketVars, history
  <1>4. PingJudgesAge'
    BY DEF InitializePackets, PingJudgesAge, Limit, history
  <1>5. QED BY <1>1, <1>2, <1>3, <1>4

(* The clock and the age move together, the clock round its range.         *)
LEMMA ClockGoesKeeps ==
    ASSUME IInv, ClockGoes \/ ClockSetBack PROVE IInv'
  <1> USE DEF IInv
  <1>1. Span \in Nat \ {0} /\ MaxAge \in Nat /\ MaxBack \in Nat BY SessionAssumption
  <1>2. TypeOK'
    <2>1. /\ UNCHANGED <<pongTimer, p_PingDiff, state, sent, taken, heard, exact, verdict, opcodes>>
          /\ age' \in -MaxBack .. MaxAge
      BY DEF ClockGoes, ClockSetBack, Aging, socketVars
    <2>2. clock' \in 0 .. Span - 1
      <3>1. clock \in 0 .. Span - 1 BY DEF TypeOK
      <3>2. CASE ClockGoes BY <1>1, <3>1, <3>2 DEF ClockGoes
      <3>3. CASE ClockSetBack BY <1>1, <3>1, <3>3 DEF ClockSetBack
      <3>4. QED BY <3>2, <3>3
    <2>3. QED BY <2>1, <2>2 DEF TypeOK
  <1>3. TableInv' BY DEF ClockGoes, ClockSetBack, Aging, TableInv
  <1>4. ClockInv'
    <2>1. PICK q \in Int : clock = p_PingDiff + age - Span * q
      BY DEF ClockInv, ClockGoes, ClockSetBack, Aging, Alive
    <2>2. /\ Span * (q + 1) = Span * q + Span
          /\ Span * (q - 1) = Span * q - Span
          /\ Span * q \in Int
      BY <1>1
    <2>3. state' # "none" /\ p_PingDiff' = p_PingDiff
      BY DEF ClockGoes, ClockSetBack, Aging, Alive, socketVars
    <2>4. CASE ClockGoes
      <3>1. \/ clock' = p_PingDiff' + age' - Span * q
            \/ clock' = p_PingDiff' + age' - Span * (q + 1)
        BY <1>1, <2>1, <2>2, <2>3, <2>4 DEF ClockGoes, Aging, TypeOK
      <3>2. QED BY <2>3, <3>1 DEF ClockInv
    <2>5. CASE ClockSetBack
      <3>1. \/ clock' = p_PingDiff' + age' - Span * q
            \/ clock' = p_PingDiff' + age' - Span * (q - 1)
        BY <1>1, <2>1, <2>2, <2>3, <2>5 DEF ClockSetBack, Aging, TypeOK
      <3>2. QED BY <2>3, <3>1 DEF ClockInv
    <2>6. QED BY <2>4, <2>5
  <1>5. PingJudgesAge'
    BY DEF ClockGoes, ClockSetBack, Aging, PingJudgesAge, Limit, socketVars
  <1>6. QED BY <1>2, <1>3, <1>4, <1>5

(* The socket is stamped with the clock it was made at.                    *)
LEMMA ConstructKeeps ==
    ASSUME IInv, Construct PROVE IInv'
  <1> USE DEF IInv
  <1>1. TypeOK' BY DEF Construct, TypeOK, history
  <1>2. TableInv' BY DEF Construct, TableInv
  <1>3. ClockInv'
    <2>1. age = 0 /\ age' = age /\ clock' = clock /\ p_PingDiff' = clock
      BY DEF Construct, ClockInv, history
    <2>2. clock' = p_PingDiff' + age' - Span * 0
      BY <2>1, SessionAssumption DEF TypeOK
    <2>3. QED BY <2>1, <2>2 DEF ClockInv
  <1>4. PingJudgesAge' BY DEF Construct, PingJudgesAge, Limit, history
  <1>5. QED BY <1>1, <1>2, <1>3, <1>4

(* Connecting, sending and closing leave the clock and the history alone.  *)
LEMMA ConnectionKeeps ==
    ASSUME IInv,
           AcceptFails \/ Open \/ ConnectionEnds \/ \E h \in Headers : ClientSends(h)
    PROVE  IInv'
  <1> USE DEF IInv
  <1>1. /\ UNCHANGED <<opcodes, pongTimer, clock, p_PingDiff, taken, age, exact,
                       verdict>>
        /\ state # "none" /\ state' # "none"
        /\ heard' \in {heard, age}
    BY DEF AcceptFails, Open, ConnectionEnds, ClientSends, history
  <1>2. /\ sent' \in Seq(Headers) /\ Len(sent') >= Len(sent)
        /\ \A i \in 1 .. Len(sent) : sent'[i] = sent[i]
    <2>1. sent \in Seq(Headers) BY DEF TypeOK
    <2>2. CASE \E h \in Headers : ClientSends(h) BY <2>1, <2>2 DEF ClientSends
    <2>3. CASE UNCHANGED sent BY <2>1, <2>3
    <2>4. QED BY <2>2, <2>3 DEF AcceptFails, Open, ConnectionEnds
  <1>3. TypeOK'
    <2>1. state' \in {"none", "pending", "open", "closed", "terminated", "undefined"}
      BY DEF AcceptFails, Open, ConnectionEnds, ClientSends, TypeOK
    <2>2. taken' \in 0 .. 3 * Len(sent') BY <1>1, <1>2 DEF TypeOK
    <2>3. heard' \in -MaxBack .. MaxAge BY <1>1 DEF TypeOK
    <2>4. QED BY <1>1, <1>2, <2>1, <2>2, <2>3 DEF TypeOK
  <1>4. TableInv' BY <1>1 DEF TableInv
  <1>5. ClockInv' BY <1>1 DEF ClockInv
  <1>6. PingJudgesAge' BY <1>1 DEF PingJudgesAge, Limit
  <1>7. QED BY <1>3, <1>4, <1>5, <1>6

(* What HandlePing decides of an open socket.                              *)
LEMMA PingKeeps ==
    ASSUME IInv, state = "open", HandlePing, UNCHANGED <<pongTimer, age>>
    PROVE  PingJudgesAge'
  <1> USE DEF IInv
  <1>1. /\ Span \in Nat \ {0} /\ age \in Int
        /\ clock \in 0 .. Span - 1 /\ p_PingDiff \in 0 .. Span - 1
    BY SessionAssumption DEF TypeOK
  <1>2. age \in 0 .. Span - 1 => Minus(clock, p_PingDiff) = age
    <2>1. PICK q \in Int : clock = p_PingDiff + age - Span * q
      BY DEF ClockInv
    <2>2. QED BY <1>1, <2>1, Turns
  <1>3. CASE PingIgnored \/ PingThrows
    BY <1>3 DEF PingIgnored, PingThrows, PingJudgesAge, Limit
  <1>4. CASE PingLate
    <2>1. /\ Minus(clock, p_PingDiff) > Limit /\ Limit \in 0 .. Span - 1
          /\ verdict'.kind = "late" /\ verdict'.age = age /\ Limit' = Limit
      BY <1>4, LimitType DEF PingLate, Judged, Limit
    <2>2. age > Limit \/ age < 0 BY <1>1, <1>2, <2>1
    <2>3. QED BY <2>1, <2>2 DEF PingJudgesAge
  <1>5. CASE PingAnswered
    <2>1. /\ Minus(clock, p_PingDiff) <= Limit /\ Limit \in 0 .. Span - 1
          /\ verdict'.kind = "pong" /\ verdict'.age = age /\ Limit' = Limit
      BY <1>5, LimitType DEF PingAnswered, Judged, Limit
    <2>2. age <= Limit \/ age >= Span BY <1>1, <1>2, <2>1
    <2>3. QED BY <2>1, <2>2 DEF PingJudgesAge
  <1>6. QED BY <1>3, <1>4, <1>5 DEF HandlePing

(* A chunk that fits, whatever header is found in it.                      *)
LEMMA ProcessIncomingDataKeeps ==
    ASSUME IInv, NEW n \in 1 .. 3 * MaxPackets, ProcessIncomingData(n)
    PROVE  IInv'
  <1> USE DEF IInv
  <1>1. PICK header \in Headers :
            /\ exact' = (exact /\ n = 3 /\ header = sent[taken \div 3 + 1])
            /\ ExecutePacket(GetClientPacket(header))
    BY DEF ProcessIncomingData
  <1>2. /\ UNCHANGED <<opcodes, pongTimer, clock, p_PingDiff, sent, age>>
        /\ state = "open" /\ taken' = taken + n /\ taken + n <= 3 * Len(sent)
        /\ n \in Nat
    BY SessionAssumption DEF ProcessIncomingData, ChunkOf
  <1>3. /\ state' \in {"open", "terminated", "closed", "undefined"}
        /\ heard' \in {heard, age}
        /\ \/ verdict' = verdict
           \/ \E kind \in {"late", "pong"} :
                 verdict' = [kind |-> kind, age |-> age, silence |-> age - heard]
    BY <1>1, <1>2 DEF ExecutePacket, HandleLoginUser, HandleNothing, HandlePing,
          PingIgnored, PingThrows, PingLate, PingAnswered, Judged
  <1>4. TypeOK'
    <2>1. taken' \in 0 .. 3 * Len(sent')
      <3>1. taken \in Nat /\ sent \in Seq(Headers) BY DEF TypeOK
      <3>2. QED BY <1>2, <3>1
    <2>2. age \in Int /\ heard \in Int /\ age - heard \in Int
      BY SessionAssumption DEF TypeOK
    <2>3. verdict' \in [kind : {"none", "late", "pong"}, age : Int, silence : Int]
      BY <1>3, <2>2 DEF TypeOK
    <2>4. heard' \in -MaxBack .. MaxAge BY <1>3 DEF TypeOK
    <2>5. exact' \in BOOLEAN BY <1>1
    <2>6. QED BY <1>2, <1>3, <2>1, <2>3, <2>4, <2>5 DEF TypeOK
  <1>5. TableInv' BY <1>2 DEF TableInv
  <1>6. ClockInv' BY <1>2, <1>3 DEF ClockInv
  <1>7. PingJudgesAge'
    <2>1. HandlePing \/ UNCHANGED verdict
      BY <1>1 DEF ExecutePacket, HandleLoginUser, HandleNothing
    <2>2. CASE UNCHANGED verdict BY <1>2, <2>2 DEF PingJudgesAge, Limit
    <2>3. QED BY <1>2, <2>1, <2>2, PingKeeps
  <1>8. QED BY <1>4, <1>5, <1>6, <1>7

(* A chunk that does not fit ends what is defined, and changes no verdict. *)
LEMMA DecryptOverrunsKeeps ==
    ASSUME IInv, NEW n \in 1 .. 3 * MaxPackets, DecryptOverruns(n)
    PROVE  IInv'
  <1> USE DEF IInv
  <1>1. /\ UNCHANGED <<opcodes, pongTimer, clock, p_PingDiff, sent, age, heard, exact, verdict>>
        /\ state = "open" /\ state' = "undefined"
        /\ taken' = taken + n /\ taken + n <= 3 * Len(sent) /\ n \in Nat
    BY SessionAssumption DEF DecryptOverruns, ChunkOf, history
  <1>2. TypeOK'
    <2>1. taken \in Nat /\ sent \in Seq(Headers) BY DEF TypeOK
    <2>2. taken' \in 0 .. 3 * Len(sent') BY <1>1, <2>1
    <2>3. QED BY <1>1, <2>2 DEF TypeOK
  <1>3. TableInv' BY <1>1 DEF TableInv
  <1>4. ClockInv' BY <1>1 DEF ClockInv
  <1>5. PingJudgesAge' BY <1>1 DEF PingJudgesAge, Limit
  <1>6. QED BY <1>2, <1>3, <1>4, <1>5
-----------------------------------------------------------------------------
(* IInv holds in every state.                                              *)
THEOREM SessionInvariance == Spec => []IInv
  <1>1. Init => IInv BY InitIInv
  <1>2. IInv /\ [Next]_vars => IInv'
    <2> SUFFICES ASSUME IInv, [Next]_vars PROVE IInv' OBVIOUS
    <2>1. CASE InitializePackets BY <2>1, InitializePacketsKeeps
    <2>2. CASE ClockGoes \/ ClockSetBack BY <2>2, ClockGoesKeeps
    <2>3. CASE Construct BY <2>3, ConstructKeeps
    <2>4. CASE AcceptFails \/ Open \/ ConnectionEnds \/ \E h \in Headers : ClientSends(h)
      BY <2>4, ConnectionKeeps
    <2>5. CASE \E n \in 1 .. 3 * MaxPackets : ProcessIncomingData(n) \/ DecryptOverruns(n)
      BY <2>5, ProcessIncomingDataKeeps, DecryptOverrunsKeeps
    <2>6. CASE Over \/ UNCHANGED vars
      <3>1. UNCHANGED vars BY <2>6 DEF Over
      <3>2. TypeOK' BY <3>1 DEF vars, socketVars, history, IInv, TypeOK
      <3>3. TableInv' BY <3>1 DEF vars, IInv, TableInv
      <3>4. ClockInv' BY <3>1 DEF vars, socketVars, history, IInv, ClockInv
      <3>5. PingJudgesAge' BY <3>1 DEF vars, history, IInv, PingJudgesAge, Limit
      <3>6. QED BY <3>2, <3>3, <3>4, <3>5 DEF IInv
    <2>7. QED BY <2>1, <2>2, <2>3, <2>4, <2>5, <2>6 DEF Next
  <1>3. QED BY <1>1, <1>2, PTL DEF Spec

(* The variables have their types, whenever the clock wraps.               *)
THEOREM SessionTypeCorrect == Spec => []TypeOK
  <1>1. IInv => TypeOK BY DEF IInv
  <1>2. QED BY <1>1, SessionInvariance, PTL

(* HandlePing judges the age of a socket rightly for less than a turn of   *)
(* the clock.                                                              *)
THEOREM PingJudgesAgeHolds == Spec => []PingJudgesAge
  <1>1. IInv => PingJudgesAge BY DEF IInv
  <1>2. QED BY <1>1, SessionInvariance, PTL

(* GetTimeDifference is the time that passed, or one less.                 *)
THEOREM DifferenceIsElapsedHolds == Spec => []DifferenceIsElapsed
  <1>1. IInv => DifferenceIsElapsed
    <2> SUFFICES ASSUME IInv, state # "none", age \in 0 .. Span \div 2
                 PROVE  GetTimeDifference(p_PingDiff, clock) \in {age - 1, age}
      BY DEF DifferenceIsElapsed
    <2>1. /\ Span \in Nat \ {0} /\ Span % 2 = 0
          /\ clock \in 0 .. Span - 1 /\ p_PingDiff \in 0 .. Span - 1
      BY SessionAssumption DEF IInv, TypeOK
    <2>2. PICK q \in Int : clock = p_PingDiff + age - Span * q
      BY DEF IInv, ClockInv
    <2>3. CASE age \in 0 .. Span - 1
      <3>1. Minus(clock, p_PingDiff) = age BY <2>1, <2>2, <2>3, Turns
      <3>2. CASE clock >= p_PingDiff
        BY <2>1, <3>1, <3>2 DEF Minus, GetTimeDifference
      <3>3. CASE clock < p_PingDiff
        <4>1. age = clock - p_PingDiff + Span BY <2>1, <3>1, <3>3 DEF Minus
        <4>2. 2 * age <= Span BY <2>1
        <4>3. (Span - 1 - p_PingDiff) + clock = age - 1 BY <2>1, <4>1
        <4>4. age - 1 < p_PingDiff - clock BY <2>1, <4>1, <4>2
        <4>5. QED BY <2>1, <3>3, <4>3, <4>4 DEF GetTimeDifference
      <3>4. QED BY <2>1, <3>2, <3>3
    <2>4. QED BY <2>1, <2>3
  <1>2. QED BY <1>1, SessionInvariance, PTL
=============================================================================
