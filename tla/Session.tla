------------------------------- MODULE Session -------------------------------
(***************************************************************************)
(* The life of one AuthSocket, from its constructor to its end: which      *)
(* handler a packet reaches (ProcessIncomingData, DecryptPacket,           *)
(* ExecutePacket, class Opcodes), and HandlePing, which judges the age of  *)
(* the socket by WorldTimer::GetServerTime.                                *)
(*                                                                         *)
(* GetServerTime counts the milliseconds of the system clock since it was  *)
(* first called, in an uint32.  The system clock may also be set back.     *)
(*                                                                         *)
(* A packet is three units: the bytes before the header, the header, and   *)
(* the rest.  What one read brings, a chunk, is any number of units, and   *)
(* is taken for one packet.  It is copied into an array of PacketRoom      *)
(* units, which no longer exists when the header is read from it to find   *)
(* the handler.  Opcodes with the same value are one here:                 *)
(* PING is SMSG_PONG as well, VERSION is CMSG_VERSION and SMSG_VERSION.    *)
(***************************************************************************)
EXTENDS Integers, Sequences

CONSTANTS
    Span,        \* how many values an uint32 has, 2^32
    PongTimers,  \* what the file may have for PongTimer: int32, or Junk
    Junk,        \* a text that std::stoi does not take for a number
    Headers,     \* what a client may send as header, or is found in its place
    PacketRoom,  \* how many units the array Packet[8192] takes
    MaxPackets,  \* bound: packets of the client
    MaxAge,      \* bound: how old the socket may get
    MaxBack      \* bound: how far before its constructor the clock may be set

ASSUME SessionAssumption ==
    /\ Span \in Nat \ {0} /\ Span % 2 = 0
    /\ Junk \notin Int /\ PongTimers \ {Junk} \subseteq -(Span \div 2) .. (Span \div 2 - 1)
    /\ PacketRoom \in Nat /\ MaxPackets \in Nat /\ MaxAge \in Nat /\ MaxBack \in Nat

VARIABLES
    opcodes,     \* mClientOpcode and mServerOpcode
    pongTimer,   \* the entry of the configuration
    clock,       \* what GetServerTime returns
    state,       \* of the socket, or how the process ended
    p_PingDiff,
    sent,        \* the headers of the packets the client has sent
    taken,       \* how many units of them were read
    age,         \* history: what the system clock gained since the constructor
    heard,       \* history: the age when the client connected or last pinged
    exact,       \* history: so far each chunk was one packet, and read as such
    verdict      \* history: what HandlePing made of the age, and of what age

socketVars == <<state, p_PingDiff, sent, taken>>
history    == <<age, heard, exact, verdict>>
vars       == <<opcodes, pongTimer, clock, socketVars, history>>

Empty == [code \in {} |-> "HandleNULL"]

Init ==
    /\ opcodes = [client |-> Empty, server |-> Empty]
    /\ pongTimer \in PongTimers /\ clock \in 0 .. Span - 1
    /\ state = "none" /\ p_PingDiff = 0
    /\ sent = <<>> /\ taken = 0
    /\ age = 0 /\ heard = 0 /\ exact = TRUE
    /\ verdict = [kind |-> "none", age |-> 0, silence |-> 0]
-----------------------------------------------------------------------------
(* operator[] of the map: the entry is made, or made anew. *)
Store(map, code, handler) ==
    [c \in DOMAIN map \union {code} |-> IF c = code THEN handler ELSE map[c]]

StoreClientPacket(o, code, handler) ==
    [o EXCEPT !.client = Store(o.client, code, handler)]

StoreServerPacket(o, code) ==
    [o EXCEPT !.server = Store(o.server, code, "HandleServerMessage")]

(* A header that was not stored has the emptyHandler. *)
GetClientPacket(id) ==
    IF id \in DOMAIN opcodes.client THEN opcodes.client[id] ELSE "HandleNULL"

(* Operators named Mutant... are plausible bugs, see the README.           *)

(* The difference of two uint32 is at least zero. *)
MutantMinus(a, b) == IF a >= b THEN a - b ELSE 0

(* The difference of two uint32. *)
Minus(a, b) == IF a >= b THEN a - b ELSE a - b + Span

(* The limit as GetIntDefault returns it, converted to an uint32. *)
Limit == IF pongTimer < 0 THEN pongTimer + Span ELSE pongTimer

(* The wrap is taken for a clock that was set back. *)
MutantGetTimeDifference(old, new) ==
    IF old > new THEN old - new ELSE new - old

(* WorldTimer::GetTimeDifference. *)
GetTimeDifference(old, new) ==
    LET around == (Span - 1 - old) + new
        back   == old - new
    IN  IF old <= new THEN new - old ELSE IF around < back THEN around ELSE back
-----------------------------------------------------------------------------
(* main, before it listens: InitializePackets. *)
InitializePackets ==
    /\ DOMAIN opcodes.client = {}
    /\ LET client == StoreClientPacket(StoreClientPacket(opcodes,
                         "LOGIN_USER", "HandleLoginUser"), "PING", "HandlePing")
           s1 == StoreServerPacket(client, "LOGIN_CODE")
           s2 == StoreServerPacket(s1, "CHECK_SUM")
           s3 == StoreServerPacket(s2, "WINDOW_LIST")
           s4 == StoreServerPacket(s3, "VERSION")
           s5 == StoreServerPacket(s4, "PING")
           s6 == StoreServerPacket(s5, "USER_INFO")
       IN  opcodes' = StoreServerPacket(s6, "SERVER_LIST")
    /\ UNCHANGED <<pongTimer, clock, socketVars, history>>

Alive == state \in {"pending", "open"}

Aging(d) ==
    /\ Alive
    /\ age' = age + d /\ age' \in -MaxBack .. MaxAge
    /\ UNCHANGED <<opcodes, pongTimer, socketVars, heard, exact, verdict>>

(* The clock does not wrap. *)
MutantClockGoes == Aging(1) /\ clock' = clock + 1

(* A millisecond passes. *)
ClockGoes == Aging(1) /\ clock' = IF clock = Span - 1 THEN 0 ELSE clock + 1

(* The system clock is set back, by one here, by more in several steps. *)
ClockSetBack == Aging(-1) /\ clock' = IF clock = 0 THEN Span - 1 ELSE clock - 1

(* CreateSocket, called by BeginAccept before a client is there. *)
Construct ==
    /\ state = "none" /\ DOMAIN opcodes.client # {}
    /\ state' = "pending" /\ p_PingDiff' = clock
    /\ UNCHANGED <<opcodes, pongTimer, clock, sent, taken, history>>

(* OnAccept with an error. *)
AcceptFails ==
    /\ state = "pending"
    /\ state' = "closed"
    /\ UNCHANGED <<opcodes, pongTimer, clock, p_PingDiff, sent, taken, history>>

(* A client connects, and Open runs; it may throw, see module Socket. *)
Open ==
    /\ state = "pending"
    /\ state' \in {"open", "terminated"}
    /\ heard' = age
    /\ UNCHANGED <<opcodes, pongTimer, clock, p_PingDiff, sent, taken,
                   age, exact, verdict>>

ClientSends(header) ==
    /\ state = "open" /\ Len(sent) < MaxPackets
    /\ sent' = Append(sent, header)
    /\ UNCHANGED <<opcodes, pongTimer, clock, state, p_PingDiff, taken, history>>

(* The connection ends, and OnError or OnWriteComplete closes the socket. *)
ConnectionEnds ==
    /\ state = "open"
    /\ state' = "closed"
    /\ UNCHANGED <<opcodes, pongTimer, clock, p_PingDiff, sent, taken, history>>
-----------------------------------------------------------------------------
(* The handlers.  HandleLoginUser is module LoginSession: it returns, or   *)
(* the process ends.                                                       *)
HandleLoginUser == state' \in {"open", "terminated"} /\ UNCHANGED <<heard, verdict>>

HandleNothing == UNCHANGED <<state, heard, verdict>>

(* The length compared is in truth the lower half of the parameter, a      *)
(* pointer, and may be anything: the ping may be ignored.                  *)
PingIgnored == heard' = age /\ UNCHANGED <<state, verdict>>

(* PongTimer is no number, and nothing catches what std::stoi throws. *)
PingThrows ==
    /\ pongTimer = Junk
    /\ state' = "terminated" /\ UNCHANGED <<heard, verdict>>

Judged(kind, then) ==
    /\ verdict' = [kind |-> kind, age |-> age, silence |-> age - heard]
    /\ state' = then /\ heard' = age

PingLate ==
    /\ pongTimer # Junk /\ Minus(clock, p_PingDiff) > Limit
    /\ Judged("late", "closed")

(* The tick is written behind the parameter, and what is sent is not the   *)
(* packet but what is found there; no behaviour is defined after that.     *)
PingAnswered ==
    /\ pongTimer # Junk /\ Minus(clock, p_PingDiff) <= Limit
    /\ Judged("pong", "undefined")

HandlePing == PingIgnored \/ PingThrows \/ PingLate \/ PingAnswered

ExecutePacket(handler) ==
    \/ handler = "HandleLoginUser" /\ HandleLoginUser
    \/ handler = "HandlePing" /\ HandlePing
    \/ handler \in {"HandleNULL", "HandleServerMessage"} /\ HandleNothing

(* A chunk of n units is there; DecryptPacket reads all of it. *)
ChunkOf(n) == state = "open" /\ taken + n <= 3 * Len(sent) /\ taken' = taken + n

(* It is copied, however long it is, into the array on the stack. *)
DecryptOverruns(n) ==
    /\ ChunkOf(n) /\ n > PacketRoom
    /\ state' = "undefined"
    /\ UNCHANGED <<opcodes, pongTimer, clock, p_PingDiff, sent, history>>

(* OnRead calls ProcessIncomingData.  The header is read from the frame of *)
(* DecryptPacket, after logging has used the stack: it may be the one that *)
(* was sent, of the packet the chunk begins with, or what is found there.  *)
ProcessIncomingData(n) ==
    /\ ChunkOf(n) /\ n <= PacketRoom
    /\ \E header \in Headers :
          /\ exact' = (exact /\ n = 3 /\ header = sent[taken \div 3 + 1])
          /\ ExecutePacket(GetClientPacket(header))
    /\ UNCHANGED <<opcodes, pongTimer, clock, p_PingDiff, sent, age>>

(* The socket is no more, or the process may do anything. *)
Over == state \in {"closed", "terminated", "undefined"} /\ UNCHANGED vars

Next ==
    \/ InitializePackets \/ ClockGoes \/ ClockSetBack
    \/ Construct \/ AcceptFails \/ Open \/ ConnectionEnds
    \/ \E h \in Headers : ClientSends(h)
    \/ \E n \in 1 .. 3 * MaxPackets : ProcessIncomingData(n) \/ DecryptOverruns(n)
    \/ Over

Spec == Init /\ [][Next]_vars
-----------------------------------------------------------------------------
Handlers == {"HandleLoginUser", "HandlePing", "HandleServerMessage", "HandleNULL"}

(* The types of the variables; the maps hold handlers. *)
TypeOK ==
    /\ \A code \in DOMAIN opcodes.client : opcodes.client[code] \in Handlers
    /\ \A code \in DOMAIN opcodes.server : opcodes.server[code] \in Handlers
    /\ pongTimer \in PongTimers
    /\ clock \in 0 .. Span - 1 /\ p_PingDiff \in 0 .. Span - 1
    /\ state \in {"none", "pending", "open", "closed", "terminated", "undefined"}
    /\ sent \in Seq(Headers) /\ taken \in 0 .. 3 * Len(sent)
    /\ age \in -MaxBack .. MaxAge /\ heard \in -MaxBack .. MaxAge
    /\ exact \in BOOLEAN
    /\ verdict \in [kind : {"none", "late", "pong"}, age : Int, silence : Int]

(* HandlePing closes only a socket that is older than PongTimer, or one    *)
(* that is younger than nothing since the clock was set back; and it       *)
(* answers only one that is not older, or as old as the clock has values,  *)
(* 49 days.  The clock may wrap at any time, and PongTimer be negative.    *)
PingJudgesAge ==
    /\ verdict.kind = "late" => verdict.age > Limit \/ verdict.age < 0
    /\ verdict.kind = "pong" => verdict.age <= Limit \/ verdict.age >= Span

(* What WorldTimer::Tick would measure from a time up to half the range of *)
(* the clock ago: the time that passed, or one less, when it wrapped.      *)
DifferenceIsElapsed ==
    state # "none" /\ age \in 0 .. Span \div 2 =>
        GetTimeDifference(p_PingDiff, clock) \in {age - 1, age}

(* authserver.conf.dist.in:62 describes PongTimer: "Expecting to recieve a *)
(* pong from client within time window", and AuthSocket.h:90 p_PingDiff:   *)
(* "Last time server recieved a pong from client".  Fails: p_PingDiff is   *)
(* set when the socket is made to wait for a client, and never again, also *)
(* for a client each packet of which came alone and was read as it was.    *)
SilentIfLate == exact /\ verdict.kind = "late" => verdict.silence > Limit
=============================================================================
