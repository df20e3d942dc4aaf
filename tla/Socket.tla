------------------------------- MODULE Socket -------------------------------
(***************************************************************************)
(* Class Socket (Shared/Network/Socket.cpp) and what Boost.Asio and the    *)
(* kernel do for it: one connection of the server.                         *)
(*                                                                         *)
(* Two threads touch a socket.  The acceptor thread of class Listener runs *)
(* Open; every other function runs as a completion handler on the network  *)
(* thread that owns the socket, one handler at a time.  Open arms the      *)
(* flush timer before its last step, so from then on the two interleave.   *)
(* A handler is one action.                                                *)
(*                                                                         *)
(* ProcessIncomingData and SendVersionCheck are virtual: the first is      *)
(* modelled by what it may do to the socket (read bytes, Write a reply,    *)
(* CloseSocket, return true or false), with Outcomes restricting it.  One  *)
(* that does not return is left out: an AuthSocket which is given more     *)
(* than its array Packet[8192] takes (see DecryptOverruns of Session).     *)
(* m_BufferTimeout is abstracted: a timer may expire at any time, so that  *)
(* ForceFlushOut, which makes it expire at once, needs no action.          *)
(***************************************************************************)
EXTENDS PacketBuffer

CONSTANTS
    StorageSize,    \* STORAGE_INITIAL_SIZE
    VersionLength,  \* bytes SendVersionCheck writes
    MaxReply,       \* bound: bytes one ProcessIncomingData may Write
    MaxIn,          \* bound: bytes the peer sends
    MaxOut,         \* bound: bytes the server writes
    Outcomes,       \* how ProcessIncomingData may end, see OutcomeNames
    OverlapSafe     \* memcpy copies overlapping ranges like memmove

(* "true": all bytes read, as AuthSocket does.  "badmsg": false and errno  *)
(* is EBADMSG.  "false": false and errno is anything else.                 *)
OutcomeNames == {"true", "badmsg", "false"}

ASSUME SocketAssumption ==
    /\ StorageSize \in Nat \ {0}
    /\ VersionLength \in Nat \ {0}
    /\ MaxReply \in Nat /\ MaxIn \in Nat /\ MaxOut \in Nat
    /\ Outcomes \subseteq OutcomeNames
    /\ OverlapSafe \in BOOLEAN

VARIABLES
    opening,     \* where Open is: "accepted", "versionSent", "checked", "done", "threw"
    isOpen,      \* m_Socket.is_open()
    registered,  \* NetworkThread::mSockets holds the socket
    writeState,  \* m_WriteState
    flushes,     \* waits on m_OutBufferFlushTimer whose handler has not run
    out,         \* m_OutBuffer
    sendOp,      \* the async_write_some in flight
    written,     \* bytes given to Write so far
    wire,        \* the bytes the kernel has taken for sending
    torn,        \* whether storage was moved or overlapped under a transfer
    readState,   \* m_ReadState
    inBuf,       \* m_InBuffer
    readOp,      \* the async_read_some in flight
    kernelIn,    \* bytes that arrived and wait in the kernel, available()
    arrived,     \* bytes the peer has sent so far
    consumed     \* the bytes ProcessIncomingData has read

openVars  == <<opening, isOpen, registered>>
writeVars == <<writeState, flushes, out, sendOp, written, wire, torn>>
readVars  == <<readState, inBuf, readOp, kernelIn, arrived, consumed>>
vars      == <<opening, isOpen, registered, writeState, flushes, out, sendOp,
               written, wire, torn, readState, inBuf, readOp, kernelIn,
               arrived, consumed>>

(* An operation is "pending" in the kernel until it is "done" or "failed"  *)
(* and its handler is queued.  len is what is to be, then what was, sent;  *)
(* stale says that the memory the kernel was given has been freed.         *)
NoSend == [status |-> "none", len |-> 0, stale |-> FALSE]
NoRead == [status |-> "none", bytes |-> <<>>]

(* async_write_some of the first n bytes of m_OutBuffer. *)
AsyncWrite(n) == [status |-> "pending", len |-> n, stale |-> FALSE]
AsyncRead     == [status |-> "pending", bytes |-> <<>>]

Init ==
    /\ opening = "accepted" /\ isOpen = TRUE /\ registered = TRUE
    /\ writeState = "Idle" /\ flushes = 0
    /\ out = NewBuffer(StorageSize) /\ sendOp = NoSend
    /\ written = 0 /\ wire = <<>> /\ torn = FALSE
    /\ readState = "Idle" /\ inBuf = NewBuffer(StorageSize)
    /\ readOp = NoRead /\ kernelIn = <<>> /\ arrived = 0 /\ consumed = <<>>
-----------------------------------------------------------------------------
(* Functions that the handlers call. *)

(* Operators named Mutant... are plausible bugs, see the README.           *)

(* m_CloseHandler is not called. *)
MutantCloseSocket == isOpen' = FALSE /\ UNCHANGED registered

(* CloseSocket, and OnError: the m_CloseHandler is RemoveSocket.  Nothing  *)
(* happens to a socket that is closed.                                     *)
CloseSocket == isOpen' = FALSE /\ registered' = FALSE

StartWriteFlushTimer ==
    /\ writeState' = IF isOpen \/ writeState = "Buffering"
                        THEN "Buffering" ELSE "Idle"
    /\ flushes' = IF isOpen /\ writeState # "Buffering"
                     THEN flushes + 1 ELSE flushes

(* The timer is armed unless one is running, even while sending. *)
MutantWrite(n) ==
    LET data == [i \in 1 .. n |-> written + i]
    IN  /\ written + n <= MaxOut
        /\ out' = BufferWrite(out, data)
        /\ written' = written + n
        /\ StartWriteFlushTimer
        /\ UNCHANGED <<sendOp, wire, torn>>

(* Write of the next n bytes.  Growing the vector may move it, away from a *)
(* transfer that still reads the old storage.                              *)
Write(n) ==
    LET data == [i \in 1 .. n |-> written + i]
    IN  /\ written + n <= MaxOut
        /\ out' = BufferWrite(out, data)
        /\ written' = written + n
        /\ \E moved \in IF Outgrows(out, data) THEN BOOLEAN ELSE {FALSE} :
              LET tears == moved /\ sendOp.status = "pending"
              IN  /\ sendOp' = [sendOp EXCEPT !.stale = @ \/ tears]
                  /\ torn' = (torn \/ tears)
        /\ IF writeState = "Idle" THEN StartWriteFlushTimer
                                  ELSE UNCHANGED <<writeState, flushes>>
        /\ UNCHANGED wire

(* StartAsyncRead, in a handler that leaves the socket open or closes it.  *)
StartAsyncRead ==
    /\ readState' = IF isOpen' THEN "Reading" ELSE "Idle"
    /\ readOp' = IF isOpen' THEN AsyncRead ELSE NoRead

(* The room the read in flight has behind the write position. *)
Window == inBuf.size - Len(inBuf.bytes)
-----------------------------------------------------------------------------
(* Open, on the acceptor thread. *)

(* The peer is gone already: remote_endpoint throws a system_error, which  *)
(* no handler catches, and the process ends.                               *)
OpenThrows ==
    /\ opening = "accepted"
    /\ opening' = "threw"
    /\ isOpen' = FALSE
    /\ UNCHANGED <<registered, writeVars, readVars>>

(* The buffers are made and SendVersionCheck writes the version packet. *)
OpenSendVersion ==
    /\ opening = "accepted"
    /\ opening' = "versionSent"
    /\ Write(VersionLength)
    /\ UNCHANGED <<isOpen, registered, readVars>>

(* StartAsyncRead up to its call of Asio.  The network thread may close    *)
(* the socket before, or right after, IsClosed is read here.               *)
OpenCheck ==
    /\ opening = "versionSent"
    /\ opening' = IF isOpen THEN "checked" ELSE "done"
    /\ readState' = IF isOpen THEN "Reading" ELSE "Idle"
    /\ UNCHANGED <<isOpen, registered, writeVars,
                   inBuf, readOp, kernelIn, arrived, consumed>>

OpenStartRead ==
    /\ opening = "checked"
    /\ opening' = "done"
    /\ readOp' = AsyncRead
    /\ UNCHANGED <<isOpen, registered, writeVars,
                   readState, inBuf, kernelIn, arrived, consumed>>
-----------------------------------------------------------------------------
(* Sending. *)

(* ForceFlushOut calls FlushOut itself instead of cancelling the wait. *)
MutantFlushOut ==
    /\ writeState = "Buffering"
    /\ flushes' = flushes - 1
    /\ sendOp' = AsyncWrite(Len(out.bytes))
    /\ UNCHANGED <<openVars, readVars, writeState, out, written, wire, torn>>

FlushOut ==
    /\ flushes > 0
    /\ flushes' = flushes - 1
    /\ IF isOpen
          THEN /\ writeState' = "Sending"
               /\ sendOp' = AsyncWrite(Len(out.bytes))
          ELSE /\ writeState' = "Idle"
               /\ UNCHANGED sendOp
    /\ UNCHANGED <<openVars, readVars, out, written, wire, torn>>

(* The kernel takes the first n of the bytes it was given.  From freed     *)
(* memory it may take anything.                                            *)
KernelSends ==
    /\ sendOp.status = "pending" /\ isOpen
    /\ \E n \in 1 .. sendOp.len :
          \E lost \in IF sendOp.stale THEN SUBSET (1 .. n) ELSE {{}} :
             /\ wire' = wire \o [i \in 1 .. n |-> IF i \in lost THEN Garbage
                                                  ELSE out.bytes[i]]
             /\ sendOp' = [sendOp EXCEPT !.status = "done", !.len = n]
    /\ UNCHANGED <<openVars, readVars, writeState, flushes, out, written, torn>>

(* The peer is gone, or CloseSocket aborted the operation. *)
SendFails ==
    /\ sendOp.status = "pending"
    /\ sendOp' = [sendOp EXCEPT !.status = "failed"]
    /\ UNCHANGED <<openVars, readVars, writeState, flushes, out, written, wire,
                   torn>>

OnWriteFailed ==
    /\ sendOp.status = "failed"
    /\ sendOp' = NoSend
    /\ CloseSocket
    /\ UNCHANGED <<opening, readVars, writeState, flushes, out, written, wire,
                   torn>>

OnWriteAfterClose ==
    /\ sendOp.status = "done" /\ ~isOpen
    /\ sendOp' = NoSend
    /\ writeState' = "Idle"
    /\ UNCHANGED <<openVars, readVars, flushes, out, written, wire, torn>>

(* The write pointer is reset although only part was sent. *)
MutantOnWriteDiscards ==
    /\ sendOp.status = "done" /\ isOpen
    /\ out' = Emptied(out)
    /\ sendOp' = NoSend
    /\ writeState' = "Idle"
    /\ UNCHANGED <<openVars, readVars, flushes, written, wire, torn>>

(* What is left is kept, but nothing sends it. *)
MutantOnWriteStops ==
    /\ sendOp.status = "done" /\ isOpen
    /\ out' = Dropped(out, sendOp.len, {})
    /\ sendOp' = NoSend
    /\ writeState' = "Idle"
    /\ UNCHANGED <<openVars, readVars, flushes, written, wire, torn>>

(* The write state stays Sending when everything was sent. *)
MutantOnWriteStaysSending ==
    LET rest == Len(out.bytes) - sendOp.len
    IN  /\ sendOp.status = "done" /\ isOpen
        /\ out' = Dropped(out, sendOp.len, {})
        /\ sendOp' = IF rest > 0 THEN AsyncWrite(rest) ELSE NoSend
        /\ UNCHANGED <<openVars, readVars, writeState, flushes, written, wire,
                       torn>>

(* What was sent leaves the buffer; what is left is sent at once.  When    *)
(* more is left than was sent, memcpy is given overlapping ranges.         *)
OnWriteComplete ==
    LET rest    == Len(out.bytes) - sendOp.len
        overlap == ~OverlapSafe /\ rest > sendOp.len
    IN  /\ sendOp.status = "done" /\ isOpen
        /\ \E lost \in IF overlap THEN SUBSET (1 .. rest) ELSE {{}} :
              /\ out' = Dropped(out, sendOp.len, lost)
              /\ torn' = (torn \/ lost # {})
        /\ sendOp' = IF rest > 0 THEN AsyncWrite(rest) ELSE NoSend
        /\ writeState' = IF rest > 0 THEN writeState ELSE "Idle"
        /\ UNCHANGED <<openVars, readVars, flushes, written, wire>>
-----------------------------------------------------------------------------
(* Receiving. *)

(* A byte from the peer reaches the kernel. *)
PeerSends ==
    /\ isOpen /\ arrived < MaxIn
    /\ arrived' = arrived + 1
    /\ kernelIn' = Append(kernelIn, arrived + 1)
    /\ UNCHANGED <<openVars, writeVars, readState, inBuf, readOp, consumed>>

(* The read completes with all that fits.  Given no room, it completes at  *)
(* once with nothing.                                                      *)
KernelReads ==
    LET n == IF Window < Len(kernelIn) THEN Window ELSE Len(kernelIn)
    IN  /\ readOp.status = "pending" /\ isOpen
        /\ Window > 0 => kernelIn # <<>>
        /\ readOp' = [status |-> "done", bytes |-> SubSeq(kernelIn, 1, n)]
        /\ kernelIn' = SubSeq(kernelIn, n + 1, Len(kernelIn))
        /\ UNCHANGED <<openVars, writeVars, readState, inBuf, arrived, consumed>>

ReadFails ==
    /\ readOp.status = "pending"
    /\ readOp' = [readOp EXCEPT !.status = "failed"]
    /\ UNCHANGED <<openVars, writeVars, readState, inBuf, kernelIn, arrived,
                   consumed>>

(* An error is ignored: the socket stays open with no read in flight. *)
MutantOnReadFailed ==
    /\ readOp.status = "failed"
    /\ readOp' = NoRead
    /\ readState' = "Idle"
    /\ UNCHANGED <<openVars, writeVars, inBuf, kernelIn, arrived, consumed>>

OnReadFailed ==
    /\ readOp.status = "failed"
    /\ readOp' = NoRead
    /\ readState' = "Idle"
    /\ CloseSocket
    /\ UNCHANGED <<opening, writeVars, inBuf, kernelIn, arrived, consumed>>

OnReadAfterClose ==
    /\ readOp.status = "done" /\ ~isOpen
    /\ readOp' = NoRead
    /\ readState' = "Idle"
    /\ UNCHANGED <<openVars, writeVars, inBuf, kernelIn, arrived, consumed>>

(* m_InBuffer once OnRead has advanced the write position. *)
Got == Received(inBuf, readOp.bytes)

(* The kernel holds more, and what was read last and that together exceed  *)
(* the buffer.                                                             *)
MoreToRead ==
    /\ kernelIn # <<>>
    /\ Len(readOp.bytes) + Len(kernelIn) > inBuf.size

(* The next read is started without making room for it. *)
MutantOnReadGrow ==
    /\ readOp.status = "done" /\ isOpen
    /\ MoreToRead
    /\ inBuf' = Got
    /\ UNCHANGED <<openVars, writeVars, kernelIn, arrived, consumed>>
    /\ StartAsyncRead

OnReadGrow ==
    /\ readOp.status = "done" /\ isOpen
    /\ MoreToRead
    /\ inBuf' = [Got EXCEPT !.size = @ + Len(kernelIn)]
    /\ UNCHANGED <<openVars, writeVars, kernelIn, arrived, consumed>>
    /\ StartAsyncRead

(* OnRead calls ProcessIncomingData, which reads the next n bytes. *)
Process(outcome, n) ==
    /\ readOp.status = "done" /\ isOpen
    /\ ~MoreToRead
    /\ outcome \in Outcomes
    /\ consumed' = consumed \o Readable(Got, n)
    /\ UNCHANGED <<opening, kernelIn, arrived>>

(* It returns true.  Its handler may have written a reply, or closed. *)
OnReadHandled ==
    /\ Process("true", ReadLengthRemaining(Got))
    /\ inBuf' = Emptied(Got)
    /\ \/ UNCHANGED <<isOpen, registered, writeVars>>
       \/ \E n \in 1 .. MaxReply : Write(n) /\ UNCHANGED <<isOpen, registered>>
       \/ CloseSocket /\ UNCHANGED writeVars
    /\ StartAsyncRead

(* The positions are reset but the bytes are not moved to the front. *)
MutantOnReadIncomplete ==
    \E n \in 0 .. ReadLengthRemaining(Got) :
        /\ Process("badmsg", n)
        /\ inBuf' = [Got EXCEPT !.bytes = SubSeq(@, 1, Len(@) - n)]
        /\ UNCHANGED <<isOpen, registered, writeVars>>
        /\ StartAsyncRead

(* It lacks the rest of a packet, which is kept for the next read. *)
OnReadIncomplete ==
    \E n \in 0 .. ReadLengthRemaining(Got) :
        /\ Process("badmsg", n)
        /\ inBuf' = Compacted(BufferRead(Got, n))
        /\ UNCHANGED <<isOpen, registered, writeVars>>
        /\ StartAsyncRead

OnReadRejected ==
    \E n \in 0 .. ReadLengthRemaining(Got) :
        /\ Process("false", n)
        /\ inBuf' = BufferRead(Got, n)
        /\ CloseSocket
        /\ readOp' = NoRead
        /\ UNCHANGED <<readState, writeVars>>
-----------------------------------------------------------------------------
(* No reference to the socket is left: not in mSockets, not in the lambda  *)
(* of async_accept, not in a handler.  Its destructor runs.                *)
Released ==
    /\ ~registered /\ opening = "done"
    /\ flushes = 0 /\ sendOp = NoSend /\ readOp = NoRead

(* A destroyed socket, or process, stays so. *)
Gone == (Released \/ opening = "threw") /\ UNCHANGED vars

Opens    == OpenSendVersion \/ OpenCheck \/ OpenStartRead
SendEnds == KernelSends \/ SendFails
Writes   == OnWriteFailed \/ OnWriteAfterClose \/ OnWriteComplete
Reads    == OnReadFailed \/ OnReadAfterClose \/ OnReadGrow \/ OnReadHandled
            \/ OnReadIncomplete \/ OnReadRejected

Next == OpenThrows \/ Opens \/ FlushOut \/ SendEnds \/ Writes
        \/ PeerSends \/ KernelReads \/ ReadFails \/ Reads \/ Gone

Spec == Init /\ [][Next]_vars

(* Both threads run; a timer expires; an operation of an open socket with  *)
(* something to do ends, and closing the socket aborts every operation.    *)
Fairness ==
    /\ WF_vars(OpenThrows \/ Opens) /\ WF_vars(FlushOut) /\ WF_vars(SendEnds)
    /\ WF_vars(Writes) /\ WF_vars(KernelReads) /\ WF_vars(~isOpen /\ ReadFails)
    /\ WF_vars(Reads)

FairSpec == Spec /\ Fairness
-----------------------------------------------------------------------------
Buffers(byte) == [bytes : Seq(byte), read : Nat, size : Nat]

(* The types of the variables. *)
TypeOK ==
    /\ opening \in {"accepted", "versionSent", "checked", "done", "threw"}
    /\ isOpen \in BOOLEAN /\ registered \in BOOLEAN /\ torn \in BOOLEAN
    /\ writeState \in {"Idle", "Buffering", "Sending"}
    /\ readState \in {"Idle", "Reading"}
    /\ flushes \in Nat /\ written \in Nat /\ arrived \in Nat
    /\ out \in Buffers(Nat) /\ inBuf \in Buffers(Nat)
    /\ sendOp \in [status : {"none", "pending", "done", "failed"},
                   len : Nat, stale : BOOLEAN]
    /\ readOp \in [status : {"none", "pending", "done", "failed"},
                   bytes : Seq(Nat)]
    /\ wire \in Seq(Nat) /\ kernelIn \in Seq(Nat) /\ consumed \in Seq(Nat)

(* The asserts of FlushOut and OnWriteComplete, and the comment in         *)
(* FlushOut that there is data to send.  They are compiled out of the      *)
(* default build, so nothing else would notice.                            *)
HandlerAsserts ==
    isOpen =>
        /\ flushes > 0 => writeState = "Buffering" /\ out.bytes # <<>>
        /\ sendOp.status = "done" =>
               writeState = "Sending" /\ sendOp.len <= Len(out.bytes)

(* Whatever the order of Write, timer and completions: bytes waiting in an *)
(* open socket have exactly one thing under way that will send them, one   *)
(* timer or one transfer, and an empty buffer has none.                    *)
OneTrigger ==
    isOpen => flushes + (IF sendOp = NoSend THEN 0 ELSE 1)
                  = IF out.bytes = <<>> THEN 0 ELSE 1

(* The bytes leave in the order they were written, none lost, repeated or  *)
(* changed, unless storage moved under a transfer; and even then every     *)
(* byte that is not garbage is in its place.                               *)
OutputFIFO ==
    \A i \in DOMAIN wire : wire[i] = i \/ (torn /\ wire[i] = Garbage)

(* Nothing a handler is given is lost, repeated or reordered on the way    *)
(* from the kernel: of an open socket, the bytes read, those waiting in    *)
(* the buffer, those the kernel just delivered and those it still has are  *)
(* together the bytes that arrived.                                        *)
InputFIFO ==
    isOpen => consumed \o Readable(inBuf, ReadLengthRemaining(inBuf))
                  \o readOp.bytes \o kernelIn = [i \in 1 .. arrived |-> i]

(* Once Open is through, an open socket always has its one read in flight, *)
(* or its handler queued, and the bytes delivered fit into the vector.     *)
ReadLoopAlive ==
    isOpen => /\ opening = "done" <=> readOp # NoRead
              /\ Len(inBuf.bytes) + Len(readOp.bytes) <= inBuf.size

(* The read in flight has room for at least one byte: otherwise it would   *)
(* complete with nothing, over and over.                                   *)
ReadHasRoom == readOp.status = "pending" => Window > 0

Starts(before, after) == before.status # "pending" /\ after.status = "pending"

(* Operations take turns, on a socket that is being closed as well, which  *)
(* module HandlerAllocator builds on.  A wait is armed when neither a wait *)
(* nor a transfer is under way, and no transfer is when its handler runs;  *)
(* a transfer is started by that handler, or the one of the transfer       *)
(* before; a read by Open, once, or by the handler of the read before.     *)
InTurn ==
    [][/\ flushes' > flushes => isOpen /\ flushes = 0 /\ sendOp = NoSend
       /\ flushes' < flushes => flushes = 1 /\ sendOp = NoSend
       /\ Starts(sendOp, sendOp') =>
              isOpen /\ (flushes' < flushes \/ sendOp.status = "done")
       /\ Starts(readOp, readOp') =>
              \/ opening = "checked" /\ opening' = "done" /\ readOp = NoRead
              \/ isOpen /\ opening = "done" /\ readOp.status = "done"]_vars

(* A closed socket is released, whatever was in flight when it was closed. *)
ClosedIsReleased == (~isOpen /\ opening # "threw") ~> Released

Outgoing == INSTANCE ByteStream
                WITH accepted <- written, delivered <- wire, open <- isOpen
Incoming == INSTANCE ByteStream
                WITH accepted <- arrived, delivered <- consumed, open <- isOpen

(* What Write is documented to do: the data it is given is sent.  Fails    *)
(* when m_OutBuffer has to grow under a transfer.                          *)
SentAsWritten == \A i \in DOMAIN wire : wire[i] = i

(* Each direction is a FIFO stream that delivers everything while the      *)
(* socket stays open.                                                      *)
OutgoingStream == Outgoing!FairSpec
IncomingStream == Incoming!FairSpec
=============================================================================
