---------------------------- MODULE SocketProofs ----------------------------
(***************************************************************************)
(* Theorems about class Socket, for every buffer size, reply length, bound *)
(* and behaviour of ProcessIncomingData.                                   *)
(***************************************************************************)
EXTENDS Socket, SequenceTheorems, TLAPS

(* The write side.  The range of a transfer lies in the buffer; while the  *)
(* socket is open, the write state tells which trigger is under way.       *)
SendInv ==
    /\ sendOp.status = "none" <=> sendOp = NoSend
    /\ sendOp.status \in {"pending", "done"} =>
           sendOp.len \in 1 .. Len(out.bytes)
    /\ sendOp.stale => torn
    /\ isOpen =>
           /\ flushes = IF writeState = "Buffering" THEN 1 ELSE 0
           /\ writeState = "Idle" <=> out.bytes = <<>>
           /\ writeState = "Sending" <=> sendOp # NoSend

(* How many bytes have left m_OutBuffer. *)
Retired == written - Len(out.bytes)

(* Where each byte of the stream is: on the wire up to Retired, or up to   *)
(* the end of a transfer that is done; in the buffer after Retired.        *)
FifoInv ==
    /\ Retired \in Nat
    /\ \A j \in 1 .. Len(out.bytes) :
           out.bytes[j] = Retired + j \/ (torn /\ out.bytes[j] = Garbage)
    /\ isOpen => Len(wire) = Retired + IF sendOp.status = "done"
                                          THEN sendOp.len ELSE 0
    /\ \A i \in 1 .. Len(wire) : wire[i] = i \/ (torn /\ wire[i] = Garbage)

(* The read loop. *)
ReadInv ==
    /\ inBuf.read <= Len(inBuf.bytes)
    /\ readOp.status = "none" <=> readOp = NoRead
    /\ readOp.status # "done" => readOp.bytes = <<>>
    /\ isOpen =>
           /\ opening = "done" <=> readOp # NoRead
           /\ Len(inBuf.bytes) + Len(readOp.bytes) <= inBuf.size

(* Before Open nothing can be under way. *)
AcceptInv ==
    opening = "accepted" =>
        isOpen /\ flushes = 0 /\ sendOp = NoSend /\ readOp = NoRead

IInv == TypeOK /\ SendInv /\ FifoInv /\ ReadInv /\ AcceptInv
-----------------------------------------------------------------------------
(* Buffers and sequences. *)

(* A function on 1 .. k is a sequence of length k.                        *)
LEMMA FunctionIsSeq ==
    ASSUME NEW S, NEW k \in Nat, NEW f \in [1 .. k -> S]
    PROVE  f \in Seq(S) /\ Len(f) = k
  OBVIOUS

(* PacketBuffer::Write appends to the contents.                           *)
LEMMA WrittenBuffer ==
    ASSUME NEW b \in Buffers(Nat), NEW data \in Seq(Nat)
    PROVE  /\ BufferWrite(b, data) \in Buffers(Nat)
           /\ Len(BufferWrite(b, data).bytes) = Len(b.bytes) + Len(data)
           /\ \A j \in 1 .. Len(b.bytes) + Len(data) :
                  BufferWrite(b, data).bytes[j] =
                      IF j <= Len(b.bytes) THEN b.bytes[j] ELSE data[j - Len(b.bytes)]
<1>1. b.bytes \in Seq(Nat) /\ b.read \in Nat /\ b.size \in Nat
  BY DEF Buffers
<1>2. b.bytes \o data \in Seq(Nat)
  BY <1>1, ConcatProperties
<1>3. /\ Len(b.bytes \o data) = Len(b.bytes) + Len(data)
      /\ \A j \in 1 .. Len(b.bytes) + Len(data) : (b.bytes \o data)[j] =
             IF j <= Len(b.bytes) THEN b.bytes[j] ELSE data[j - Len(b.bytes)]
  BY <1>1, ConcatProperties
<1>4. Len(b.bytes) \in Nat /\ Len(data) \in Nat
  BY <1>1, LenProperties
<1> QED
  BY <1>1, <1>2, <1>3, <1>4 DEF BufferWrite, Buffers, Outgrows

(* OnWriteComplete keeps what follows the bytes sent.                     *)
LEMMA DroppedBuffer ==
    ASSUME NEW b \in Buffers(Nat), NEW n \in 1 .. Len(b.bytes), NEW lost
    PROVE  /\ Dropped(b, n, lost) \in Buffers(Nat)
           /\ Len(Dropped(b, n, lost).bytes) = Len(b.bytes) - n
           /\ \A j \in 1 .. Len(b.bytes) - n : Dropped(b, n, lost).bytes[j] =
                  IF j \in lost THEN Garbage ELSE b.bytes[n + j]
<1> DEFINE s == [i \in 1 .. Len(b.bytes) - n |->
                    IF i \in lost THEN Garbage ELSE b.bytes[n + i]]
<1>1. b.bytes \in Seq(Nat) /\ b.read \in Nat /\ b.size \in Nat
  BY DEF Buffers
<1>2. Len(b.bytes) \in Nat /\ n \in Nat /\ Len(b.bytes) - n \in Nat
  BY <1>1, LenProperties
<1>3. \A i \in 1 .. Len(b.bytes) - n : s[i] \in Nat
  BY <1>1, <1>2, ElementOfSeq DEF Garbage
<1>4. s \in Seq(Nat) /\ Len(s) = Len(b.bytes) - n
  <2>1. s \in [1 .. Len(b.bytes) - n -> Nat]
    BY <1>3
  <2> HIDE DEF s
  <2> QED
    BY <1>2, <2>1, FunctionIsSeq
<1>5. Dropped(b, n, lost) = [b EXCEPT !.bytes = s]
  BY DEF Dropped
<1> HIDE DEF s
<1>6. Dropped(b, n, lost) = [bytes |-> s, read |-> b.read, size |-> b.size]
  BY <1>5 DEF Buffers
<1>7. /\ Dropped(b, n, lost).bytes = s
      /\ Dropped(b, n, lost) \in Buffers(Nat)
  BY <1>1, <1>4, <1>6 DEF Buffers
<1>8. \A j \in 1 .. Len(b.bytes) - n :
         s[j] = IF j \in lost THEN Garbage ELSE b.bytes[n + j]
  BY DEF s
<1> QED
  BY <1>4, <1>7, <1>8

(* Assigning one field of a buffer.                                       *)
LEMMA BufferUpdates ==
    ASSUME NEW b \in Buffers(Nat), NEW v
    PROVE  /\ [b EXCEPT !.bytes = v] = [bytes |-> v, read |-> b.read, size |-> b.size]
           /\ [b EXCEPT !.read = v] = [bytes |-> b.bytes, read |-> v, size |-> b.size]
           /\ [b EXCEPT !.size = v] = [bytes |-> b.bytes, read |-> b.read, size |-> v]
  BY DEF Buffers

(* A slice of the bytes, as memmove and a read take it.                   *)
LEMMA CopiedSlice ==
    ASSUME NEW s \in Seq(Nat), NEW m \in Nat, NEW n \in Nat, n <= Len(s)
    PROVE  /\ SubSeq(s, m + 1, n) \in Seq(Nat)
           /\ m <= n => Len(SubSeq(s, m + 1, n)) = n - m
  BY SubSeqProperties, ElementOfSeq, LenProperties
-----------------------------------------------------------------------------
(* What Write does to the write side. *)

WriteTypes ==
    /\ writeState \in {"Idle", "Buffering", "Sending"}
    /\ flushes \in Nat /\ written \in Nat /\ torn \in BOOLEAN
    /\ out \in Buffers(Nat) /\ wire \in Seq(Nat)
    /\ sendOp \in [status : {"none", "pending", "done", "failed"},
                   len : Nat, stale : BOOLEAN]

ReadTypes ==
    /\ readState \in {"Idle", "Reading"}
    /\ arrived \in Nat /\ inBuf \in Buffers(Nat)
    /\ readOp \in [status : {"none", "pending", "done", "failed"},
                   bytes : Seq(Nat)]
    /\ kernelIn \in Seq(Nat) /\ consumed \in Seq(Nat)

OpenTypes ==
    /\ opening \in {"accepted", "versionSent", "checked", "done", "threw"}
    /\ isOpen \in BOOLEAN /\ registered \in BOOLEAN

(* The type invariant, by the side of the socket.                         *)
LEMMA TypeParts ==
    /\ TypeOK <=> WriteTypes /\ ReadTypes /\ OpenTypes
    /\ TypeOK' <=> WriteTypes' /\ ReadTypes' /\ OpenTypes'
  BY DEF TypeOK, WriteTypes, ReadTypes, OpenTypes

(* Write, in Open or in a handler, whatever the write state.              *)
LEMMA WritePreserves ==
    ASSUME WriteTypes, SendInv, FifoInv, isOpen = TRUE, isOpen' = TRUE,
           NEW n \in Nat \ {0}, Write(n)
    PROVE  WriteTypes' /\ SendInv' /\ FifoInv'
<1> DEFINE data == [i \in 1 .. n |-> written + i]
<1>1. data \in Seq(Nat) /\ Len(data) = n
  <2>1. data \in [1 .. n -> Nat]
    BY DEF WriteTypes
  <2> HIDE DEF data
  <2> QED
    BY <2>1, FunctionIsSeq
<1>2. \A i \in 1 .. n : data[i] = written + i
  OBVIOUS
<1>3. PICK moved \in BOOLEAN :
         LET tears == moved /\ sendOp.status = "pending"
         IN  /\ sendOp' = [sendOp EXCEPT !.stale = @ \/ tears]
             /\ torn' = (torn \/ tears)
  BY DEF Write
<1>4. out' = BufferWrite(out, data) /\ written' = written + n /\ wire' = wire
  BY DEF Write
<1>5. IF writeState = "Idle" THEN StartWriteFlushTimer
                             ELSE UNCHANGED <<writeState, flushes>>
  BY DEF Write
<1> HIDE DEF data
<1>6. out.bytes \in Seq(Nat) /\ Len(out.bytes) \in Nat
  BY LenProperties DEF WriteTypes, Buffers
<1>7. /\ out' \in Buffers(Nat)
      /\ Len(out'.bytes) = Len(out.bytes) + n
      /\ \A j \in 1 .. Len(out.bytes) + n : out'.bytes[j] =
             IF j <= Len(out.bytes) THEN out.bytes[j] ELSE data[j - Len(out.bytes)]
  BY <1>1, <1>4, WrittenBuffer DEF WriteTypes
<1>8. /\ sendOp'.status = sendOp.status /\ sendOp'.len = sendOp.len
      /\ sendOp'.stale \in BOOLEAN /\ torn' \in BOOLEAN
      /\ sendOp' \in [status : {"none", "pending", "done", "failed"},
                      len : Nat, stale : BOOLEAN]
      /\ torn => torn'
      /\ sendOp'.stale => torn' \/ sendOp.stale
      /\ sendOp.status # "pending" => sendOp' = sendOp
  BY <1>3 DEF WriteTypes
<1>9. WriteTypes'
  BY <1>4, <1>5, <1>7, <1>8 DEF WriteTypes, StartWriteFlushTimer
<1>10. SendInv'
  <2>1. sendOp'.status = "none" <=> sendOp' = NoSend
    BY <1>8 DEF SendInv, NoSend
  <2>2. sendOp'.status \in {"pending", "done"} =>
           sendOp'.len \in 1 .. Len(out'.bytes)
    BY <1>6, <1>7, <1>8 DEF SendInv
  <2>3. sendOp'.stale => torn'
    BY <1>8 DEF SendInv
  <2>4. out'.bytes # <<>>
    BY <1>6, <1>7
  <2>5. /\ flushes' = IF writeState' = "Buffering" THEN 1 ELSE 0
        /\ writeState' # "Idle"
        /\ writeState' = "Sending" <=> writeState = "Sending"
    BY <1>5 DEF SendInv, WriteTypes, StartWriteFlushTimer
  <2>6. sendOp' # NoSend <=> sendOp # NoSend
    BY <2>1, <1>8 DEF SendInv
  <2> QED
    BY <2>1, <2>2, <2>3, <2>4, <2>5, <2>6 DEF SendInv
<1>11. FifoInv'
  <2>1. Retired' = Retired
    BY <1>4, <1>6, <1>7 DEF Retired, WriteTypes
  <2>2. ASSUME NEW j \in 1 .. Len(out'.bytes)
        PROVE  out'.bytes[j] = Retired + j \/ (torn' /\ out'.bytes[j] = Garbage)
    <3>1. j \in Nat \ {0} /\ j <= Len(out.bytes) + n
      BY <1>6, <1>7
    <3>2. CASE j <= Len(out.bytes)
      <4>1. out'.bytes[j] = out.bytes[j] /\ j \in 1 .. Len(out.bytes)
        BY <3>1, <3>2, <1>6, <1>7
      <4> QED
        BY <4>1, <1>8 DEF FifoInv
    <3>3. CASE ~(j <= Len(out.bytes))
      <4>1. j - Len(out.bytes) \in 1 .. n
        BY <3>1, <3>3, <1>6
      <4>2. out'.bytes[j] = data[j - Len(out.bytes)]
        BY <3>1, <3>3, <1>6, <1>7
      <4>3. data[j - Len(out.bytes)] = written + (j - Len(out.bytes))
        BY <4>1, <1>2
      <4>4. written \in Nat
        BY DEF WriteTypes
      <4>5. out'.bytes[j] = Retired + j
        BY <4>2, <4>3, <4>4, <1>6, <3>1 DEF Retired
      <4> QED
        BY <4>5
    <3> QED
      BY <3>2, <3>3
  <2>3. \A i \in 1 .. Len(wire') :
           wire'[i] = i \/ (torn' /\ wire'[i] = Garbage)
    BY <1>4, <1>8 DEF FifoInv
  <2> QED
    BY <2>1, <2>2, <2>3, <1>4, <1>8 DEF FifoInv
<1> QED
  BY <1>9, <1>10, <1>11
-----------------------------------------------------------------------------
(* The other steps, by the side they leave alone. *)

(* Steps that leave sending alone; the socket may be closed.              *)
LEMMA WriteSideKept ==
    ASSUME WriteTypes, SendInv, FifoInv, UNCHANGED writeVars, isOpen' => isOpen
    PROVE  WriteTypes' /\ SendInv' /\ FifoInv'
  BY DEF WriteTypes, SendInv, FifoInv, Retired, writeVars

(* Steps that leave receiving alone; the socket may be closed.            *)
LEMMA ReadSideKept ==
    ASSUME ReadTypes, ReadInv, UNCHANGED <<readVars, opening>>, isOpen' => isOpen
    PROVE  ReadTypes' /\ ReadInv'
  BY DEF ReadTypes, ReadInv, readVars, Buffers

(* FlushOut: the timer becomes a transfer.                                *)
LEMMA FlushOutPreserves ==
    ASSUME IInv, FlushOut
    PROVE  IInv'
<1>1. WriteTypes /\ ReadTypes /\ OpenTypes /\ SendInv /\ FifoInv /\ ReadInv
  BY TypeParts DEF IInv
<1>2. UNCHANGED <<opening, isOpen, registered>> /\ UNCHANGED readVars
      /\ UNCHANGED <<out, written, wire, torn>>
  BY DEF FlushOut, openVars
<1>3. ReadTypes' /\ ReadInv' /\ OpenTypes'
  BY <1>1, <1>2, ReadSideKept DEF OpenTypes
<1>4. flushes \in Nat /\ flushes > 0 /\ flushes' = flushes - 1
  BY <1>1 DEF FlushOut, WriteTypes
<1>5. Len(out.bytes) \in Nat /\ out.bytes \in Seq(Nat)
  BY <1>1, LenProperties DEF WriteTypes, Buffers
<1>a. opening # "accepted"
  BY <1>4 DEF IInv, AcceptInv
<1>b. AcceptInv'
  BY <1>a, <1>2 DEF AcceptInv
<1>6. CASE isOpen
  <2>1. writeState' = "Sending" /\ sendOp' = AsyncWrite(Len(out.bytes))
    BY <1>6 DEF FlushOut
  <2>2. writeState = "Buffering" /\ flushes = 1 /\ sendOp = NoSend
        /\ Len(out.bytes) > 0 /\ out.bytes # <<>>
    <3>1. flushes = IF writeState = "Buffering" THEN 1 ELSE 0
      BY <1>1, <1>6 DEF SendInv
    <3>2. writeState = "Buffering" /\ flushes = 1
      BY <3>1, <1>4
    <3>3. sendOp = NoSend /\ out.bytes # <<>>
      BY <3>2, <1>1, <1>6 DEF SendInv
    <3> QED
      BY <3>2, <3>3, <1>5, EmptySeq
  <2>3. WriteTypes'
    BY <1>1, <1>2, <1>4, <1>5, <2>1 DEF WriteTypes, AsyncWrite
  <2>4. SendInv'
    BY <1>2, <1>4, <1>5, <1>6, <2>1, <2>2 DEF SendInv, AsyncWrite, NoSend
  <2>5. FifoInv'
    BY <1>1, <1>2, <1>6, <2>1, <2>2 DEF FifoInv, Retired, AsyncWrite, NoSend
  <2> QED
    BY <1>3, <1>b, <2>3, <2>4, <2>5, TypeParts DEF IInv
<1>7. CASE ~isOpen
  <2>1. writeState' = "Idle" /\ sendOp' = sendOp
    BY <1>7 DEF FlushOut
  <2>2. WriteTypes'
    BY <1>1, <1>2, <1>4, <2>1 DEF WriteTypes
  <2>3. SendInv' /\ FifoInv'
    BY <1>1, <1>2, <1>7, <2>1 DEF SendInv, FifoInv, Retired
  <2> QED
    BY <1>3, <1>b, <2>2, <2>3, TypeParts DEF IInv
<1> QED
  BY <1>6, <1>7

(* The kernel sends a prefix of the buffer.                               *)
LEMMA KernelSendsPreserves ==
    ASSUME IInv, KernelSends
    PROVE  IInv'
<1>1. WriteTypes /\ ReadTypes /\ OpenTypes /\ SendInv /\ FifoInv /\ ReadInv
  BY TypeParts DEF IInv
<1>2. UNCHANGED <<opening, isOpen, registered>> /\ UNCHANGED readVars
      /\ UNCHANGED <<writeState, flushes, out, written, torn>>
  BY DEF KernelSends, openVars
<1>3. ReadTypes' /\ ReadInv' /\ OpenTypes'
  BY <1>1, <1>2, ReadSideKept DEF OpenTypes
<1>4. PICK n \in 1 .. sendOp.len :
         \E lost \in IF sendOp.stale THEN SUBSET (1 .. n) ELSE {{}} :
             /\ wire' = wire \o [i \in 1 .. n |-> IF i \in lost THEN Garbage
                                                  ELSE out.bytes[i]]
             /\ sendOp' = [sendOp EXCEPT !.status = "done", !.len = n]
  BY DEF KernelSends
<1>5. PICK lost \in IF sendOp.stale THEN SUBSET (1 .. n) ELSE {{}} :
             /\ wire' = wire \o [i \in 1 .. n |-> IF i \in lost THEN Garbage
                                                  ELSE out.bytes[i]]
             /\ sendOp' = [sendOp EXCEPT !.status = "done", !.len = n]
  BY <1>4
<1> DEFINE taken == [i \in 1 .. n |-> IF i \in lost THEN Garbage ELSE out.bytes[i]]
<1>6. /\ sendOp.status = "pending" /\ isOpen /\ sendOp.len \in Nat
      /\ sendOp.len \in 1 .. Len(out.bytes)
  BY <1>1 DEF KernelSends, SendInv, WriteTypes
<1>7. /\ out.bytes \in Seq(Nat) /\ Len(out.bytes) \in Nat
      /\ \A i \in 1 .. Len(out.bytes) : out.bytes[i] \in Nat
  BY <1>1, LenProperties, ElementOfSeq DEF WriteTypes, Buffers
<1>8. n \in Nat /\ 1 <= n /\ n <= sendOp.len /\ n <= Len(out.bytes)
  BY <1>6, <1>7
<1>9. taken \in Seq(Nat) /\ Len(taken) = n
  <2>1. taken \in [1 .. n -> Nat]
    BY <1>7, <1>8 DEF Garbage
  <2> HIDE DEF taken
  <2> QED
    BY <1>8, <2>1, FunctionIsSeq
<1>10. sendOp.stale \/ lost = {}
  BY <1>5
<1>11. sendOp' = [status |-> "done", len |-> n, stale |-> sendOp.stale]
  BY <1>1, <1>5 DEF WriteTypes
<1>12. ASSUME NEW i \in 1 .. n
       PROVE  taken[i] = Retired + i \/ (torn /\ taken[i] = Garbage)
  <2>1. CASE i \in lost
    BY <2>1, <1>1, <1>10 DEF SendInv
  <2>2. CASE i \notin lost
    <3>1. i \in 1 .. Len(out.bytes) /\ taken[i] = out.bytes[i]
      BY <2>2, <1>7, <1>8
    <3> QED
      BY <3>1, <1>1 DEF FifoInv
  <2> QED
    BY <2>1, <2>2
<1> HIDE DEF taken
<1>13. /\ wire' = wire \o taken /\ wire \in Seq(Nat) /\ Len(wire) \in Nat
  BY <1>1, <1>5, LenProperties DEF taken, WriteTypes
<1>14. /\ wire' \in Seq(Nat) /\ Len(wire') = Len(wire) + n
       /\ \A i \in 1 .. Len(wire) + n :
              wire'[i] = IF i <= Len(wire) THEN wire[i] ELSE taken[i - Len(wire)]
  BY <1>9, <1>13, ConcatProperties
<1>15. WriteTypes'
  BY <1>1, <1>2, <1>8, <1>11, <1>14 DEF WriteTypes
<1>16. SendInv'
  BY <1>1, <1>2, <1>6, <1>7, <1>8, <1>11 DEF SendInv, NoSend
<1>17. Len(wire) = Retired /\ Retired \in Nat
  BY <1>1, <1>6 DEF FifoInv
<1>18. FifoInv'
  <2>1. Retired' = Retired
    BY <1>2 DEF Retired
  <2>2. ASSUME NEW i \in 1 .. Len(wire')
        PROVE  wire'[i] = i \/ (torn' /\ wire'[i] = Garbage)
    <3>1. i \in Nat \ {0} /\ i <= Len(wire) + n
      BY <1>8, <1>13, <1>14
    <3>2. CASE i <= Len(wire)
      <4>1. wire'[i] = wire[i] /\ i \in 1 .. Len(wire)
        BY <3>1, <3>2, <1>8, <1>13, <1>14
      <4> QED
        BY <4>1, <1>1, <1>2 DEF FifoInv
    <3>3. CASE ~(i <= Len(wire))
      <4>1. i - Len(wire) \in 1 .. n
        BY <3>1, <3>3, <1>8, <1>13
      <4>2. wire'[i] = taken[i - Len(wire)]
        BY <3>1, <3>3, <1>8, <1>13, <1>14
      <4>3. Retired + (i - Len(wire)) = i
        BY <1>13, <1>17, <3>1
      <4> QED
        BY <4>1, <4>2, <4>3, <1>2, <1>12
    <3> QED
      BY <3>2, <3>3
  <2>3. Len(wire') = Retired' + sendOp'.len /\ sendOp'.status = "done"
    BY <2>1, <1>11, <1>14, <1>17
  <2> QED
    BY <2>1, <2>2, <2>3, <1>1, <1>2 DEF FifoInv
<1>19. AcceptInv'
  <2>1. opening # "accepted"
    BY <1>6 DEF IInv, AcceptInv, NoSend
  <2> QED
    BY <2>1, <1>2 DEF AcceptInv
<1> QED
  BY <1>3, <1>15, <1>16, <1>18, <1>19, TypeParts DEF IInv
(* A transfer or its handler implies that Open has begun. *)
LEMMA Begun ==
    ASSUME IInv
    PROVE  /\ WriteTypes /\ ReadTypes /\ OpenTypes
           /\ sendOp.status # "none" \/ readOp.status # "none" =>
                  opening # "accepted" /\ (UNCHANGED opening => AcceptInv')
<1>1. WriteTypes /\ ReadTypes /\ OpenTypes
  BY TypeParts DEF IInv
<1>2. ASSUME sendOp.status # "none" \/ readOp.status # "none"
      PROVE  opening # "accepted"
  BY <1>2 DEF IInv, AcceptInv, NoSend, NoRead
<1>3. ASSUME opening # "accepted", UNCHANGED opening
      PROVE  AcceptInv'
  BY <1>3 DEF AcceptInv
<1> QED
  BY <1>1, <1>2, <1>3

(* A transfer fails or is aborted.                                        *)
LEMMA SendFailsPreserves ==
    ASSUME IInv, SendFails
    PROVE  IInv'
<1>1. WriteTypes /\ ReadTypes /\ OpenTypes /\ AcceptInv'
  BY Begun DEF SendFails, openVars
<1>2. SendInv /\ FifoInv /\ ReadInv
  BY DEF IInv
<1>3. /\ sendOp.status = "pending"
      /\ sendOp' = [status |-> "failed", len |-> sendOp.len, stale |-> sendOp.stale]
      /\ UNCHANGED <<opening, isOpen, registered, writeState, flushes, out,
                     written, wire, torn>>
      /\ UNCHANGED readVars
  BY <1>1 DEF SendFails, openVars, WriteTypes
<1>4. ReadTypes' /\ ReadInv' /\ OpenTypes'
  BY <1>1, <1>2, <1>3, ReadSideKept DEF OpenTypes
<1>5. WriteTypes'
  BY <1>1, <1>3 DEF WriteTypes
<1>6. SendInv'
  BY <1>2, <1>3 DEF SendInv, NoSend
<1>7. FifoInv'
  BY <1>2, <1>3 DEF FifoInv, Retired
<1> QED
  BY <1>1, <1>4, <1>5, <1>6, <1>7, TypeParts DEF IInv

(* OnWriteComplete with an error closes the socket.                       *)
LEMMA OnWriteFailedPreserves ==
    ASSUME IInv, OnWriteFailed
    PROVE  IInv'
<1>1. WriteTypes /\ ReadTypes /\ OpenTypes /\ AcceptInv'
  BY Begun DEF OnWriteFailed
<1>2. SendInv /\ FifoInv /\ ReadInv
  BY DEF IInv
<1>3. /\ sendOp' = NoSend /\ isOpen' = FALSE /\ registered' = FALSE
      /\ UNCHANGED <<opening, writeState, flushes, out, written, wire, torn>>
      /\ UNCHANGED readVars
  BY DEF OnWriteFailed, CloseSocket
<1>4. ReadTypes' /\ ReadInv' /\ OpenTypes'
  BY <1>1, <1>2, <1>3, ReadSideKept DEF OpenTypes
<1>5. WriteTypes'
  BY <1>1, <1>3 DEF WriteTypes, NoSend
<1>6. SendInv'
  BY <1>2, <1>3 DEF SendInv, NoSend
<1>7. FifoInv'
  BY <1>2, <1>3 DEF FifoInv, Retired
<1> QED
  BY <1>1, <1>4, <1>5, <1>6, <1>7, TypeParts DEF IInv

(* OnWriteComplete on a closed socket.                                    *)
LEMMA OnWriteAfterClosePreserves ==
    ASSUME IInv, OnWriteAfterClose
    PROVE  IInv'
<1>1. WriteTypes /\ ReadTypes /\ OpenTypes /\ AcceptInv'
  BY Begun DEF OnWriteAfterClose, openVars
<1>2. SendInv /\ FifoInv /\ ReadInv
  BY DEF IInv
<1>3. /\ sendOp' = NoSend /\ ~isOpen /\ writeState' = "Idle"
      /\ UNCHANGED <<opening, isOpen, registered, flushes, out, written, wire, torn>>
      /\ UNCHANGED readVars
  BY DEF OnWriteAfterClose, openVars
<1>4. ReadTypes' /\ ReadInv' /\ OpenTypes'
  BY <1>1, <1>2, <1>3, ReadSideKept DEF OpenTypes
<1>5. WriteTypes'
  BY <1>1, <1>3 DEF WriteTypes, NoSend
<1>6. SendInv'
  BY <1>2, <1>3 DEF SendInv, NoSend
<1>7. FifoInv'
  BY <1>2, <1>3 DEF FifoInv, Retired
<1> QED
  BY <1>1, <1>4, <1>5, <1>6, <1>7, TypeParts DEF IInv

(* OnWriteComplete drops what was sent and sends the rest.                *)
LEMMA OnWriteCompletePreserves ==
    ASSUME IInv, OnWriteComplete
    PROVE  IInv'
<1>1. WriteTypes /\ ReadTypes /\ OpenTypes /\ AcceptInv'
  BY Begun DEF OnWriteComplete, openVars
<1>2. SendInv /\ FifoInv /\ ReadInv
  BY DEF IInv
<1> DEFINE n    == sendOp.len
           rest == Len(out.bytes) - n
<1>3. /\ sendOp.status = "done" /\ isOpen
      /\ sendOp' = IF rest > 0 THEN AsyncWrite(rest) ELSE NoSend
      /\ writeState' = IF rest > 0 THEN writeState ELSE "Idle"
      /\ UNCHANGED <<opening, isOpen, registered, flushes, written, wire>>
      /\ UNCHANGED readVars
  BY DEF OnWriteComplete, openVars
<1>4. PICK lost \in SUBSET (1 .. rest) :
         out' = Dropped(out, n, lost) /\ torn' = (torn \/ lost # {})
  BY DEF OnWriteComplete
<1>5. /\ out.bytes \in Seq(Nat) /\ Len(out.bytes) \in Nat
      /\ n \in 1 .. Len(out.bytes) /\ n \in Nat /\ rest \in Nat
  BY <1>1, <1>2, <1>3, LenProperties DEF WriteTypes, Buffers, SendInv
<1>6. /\ out' \in Buffers(Nat) /\ Len(out'.bytes) = rest
      /\ \A j \in 1 .. rest : out'.bytes[j] =
             IF j \in lost THEN Garbage ELSE out.bytes[n + j]
  <2>1. out \in Buffers(Nat) /\ n \in 1 .. Len(out.bytes)
    BY <1>1, <1>5 DEF WriteTypes
  <2> DEFINE short == Dropped(out, n, lost)
  <2>2. /\ short \in Buffers(Nat) /\ Len(short.bytes) = rest
        /\ \A j \in 1 .. rest : short.bytes[j] =
               IF j \in lost THEN Garbage ELSE out.bytes[n + j]
    <3> HIDE DEF n, rest, short
    <3>1. /\ Dropped(out, n, lost) \in Buffers(Nat)
          /\ Len(Dropped(out, n, lost).bytes) = Len(out.bytes) - n
          /\ \A j \in 1 .. Len(out.bytes) - n : Dropped(out, n, lost).bytes[j] =
                 IF j \in lost THEN Garbage ELSE out.bytes[n + j]
      BY <2>1, DroppedBuffer, Zenon
    <3> QED
      BY <3>1, Zenon DEF rest, short
  <2> HIDE DEF short, n, rest
  <2>3. out' = short
    BY <1>4 DEF short
  <2> QED
    BY <2>2, <2>3
<1>7. torn' \in BOOLEAN /\ (torn => torn') /\ (lost # {} => torn')
  BY <1>1, <1>4 DEF WriteTypes
<1>8. writeState = "Sending" /\ flushes = 0
  BY <1>2, <1>3 DEF SendInv, NoSend
<1> HIDE DEF n, rest
<1>9. WriteTypes'
  BY <1>1, <1>3, <1>5, <1>6, <1>7 DEF WriteTypes, AsyncWrite, NoSend
<1>10. SendInv'
  <2>1. CASE rest > 0
    <3>1. out'.bytes # <<>>
      BY <2>1, <1>6, EmptySeq
    <3> QED
      BY <2>1, <3>1, <1>3, <1>5, <1>6, <1>8 DEF SendInv, AsyncWrite, NoSend
  <2>2. CASE ~(rest > 0)
    <3>1. out'.bytes = <<>>
      BY <2>2, <1>5, <1>6, EmptySeq DEF Buffers
    <3> QED
      BY <2>2, <3>1, <1>3, <1>8 DEF SendInv, NoSend
  <2> QED
    BY <2>1, <2>2
<1>11. FifoInv'
  <2>1. Retired' = Retired + n /\ Retired \in Nat
    BY <1>1, <1>2, <1>3, <1>5, <1>6 DEF Retired, WriteTypes, FifoInv, rest
  <2>2. ASSUME NEW j \in 1 .. rest
        PROVE  out'.bytes[j] = Retired' + j \/ (torn' /\ out'.bytes[j] = Garbage)
    <3>1. CASE j \in lost
      BY <3>1, <1>6, <1>7
    <3>2. CASE j \notin lost
      <4>1. n + j \in 1 .. Len(out.bytes)
        BY <1>5 DEF rest
      <4>2. out'.bytes[j] = out.bytes[n + j]
        BY <3>2, <1>6
      <4>3. Retired + (n + j) = Retired' + j
        BY <2>1, <1>5
      <4>4. out.bytes[n + j] = Retired + (n + j)
               \/ (torn /\ out.bytes[n + j] = Garbage)
        BY <4>1, <1>2 DEF FifoInv
      <4> QED
        BY <4>2, <4>3, <4>4, <1>7
    <3> QED
      BY <3>1, <3>2
  <2>3. Len(wire) = Retired + n
    BY <1>2, <1>3 DEF FifoInv, n
  <2>4. sendOp'.status # "done"
    BY <1>3 DEF AsyncWrite, NoSend
  <2>5. Len(wire') = Retired' + 0
    BY <2>1, <2>3, <1>3, <1>5
  <2>6. \A i \in 1 .. Len(wire') : wire'[i] = i \/ (torn' /\ wire'[i] = Garbage)
    BY <1>2, <1>3, <1>7 DEF FifoInv
  <2>7. Retired' \in Nat
    BY <2>1, <1>5
  <2> QED
    BY <2>2, <2>4, <2>5, <2>6, <2>7, <1>6 DEF FifoInv
<1>12. ReadTypes' /\ ReadInv' /\ OpenTypes'
  BY <1>1, <1>2, <1>3, ReadSideKept DEF OpenTypes
<1> QED
  BY <1>1, <1>9, <1>10, <1>11, <1>12, TypeParts DEF IInv-----------------------------------------------------------------------------
(* Open. *)

(* Open throws.                                                           *)
LEMMA OpenThrowsPreserves ==
    ASSUME IInv, OpenThrows
    PROVE  IInv'
<1>1. WriteTypes /\ ReadTypes /\ OpenTypes /\ SendInv /\ FifoInv /\ ReadInv
  BY Begun DEF IInv
<1>2. /\ opening' = "threw" /\ isOpen' = FALSE /\ UNCHANGED registered
      /\ UNCHANGED writeVars /\ UNCHANGED readVars
  BY DEF OpenThrows
<1>3. WriteTypes' /\ SendInv' /\ FifoInv'
  BY <1>1, <1>2, WriteSideKept
<1>4. ReadTypes' /\ ReadInv'
  BY <1>1, <1>2 DEF ReadTypes, ReadInv, readVars
<1>5. OpenTypes' /\ AcceptInv'
  BY <1>1, <1>2 DEF OpenTypes, AcceptInv
<1> QED
  BY <1>3, <1>4, <1>5, TypeParts DEF IInv

(* Open sends the version packet.                                         *)
LEMMA OpenSendVersionPreserves ==
    ASSUME IInv, OpenSendVersion
    PROVE  IInv'
<1>1. WriteTypes /\ ReadTypes /\ OpenTypes /\ SendInv /\ FifoInv /\ ReadInv
  BY Begun DEF IInv
<1>2. /\ opening = "accepted" /\ opening' = "versionSent"
      /\ UNCHANGED <<isOpen, registered>> /\ UNCHANGED readVars
      /\ Write(VersionLength)
  BY DEF OpenSendVersion
<1>3. isOpen = TRUE /\ isOpen' = TRUE /\ readOp = NoRead
  BY <1>1, <1>2 DEF IInv, AcceptInv, OpenTypes
<1>4. WriteTypes' /\ SendInv' /\ FifoInv'
  BY <1>1, <1>2, <1>3, WritePreserves, SocketAssumption
<1>5. ReadTypes' /\ ReadInv'
  BY <1>1, <1>2, <1>3 DEF ReadTypes, ReadInv, readVars
<1>6. OpenTypes' /\ AcceptInv'
  BY <1>1, <1>2 DEF OpenTypes, AcceptInv
<1> QED
  BY <1>4, <1>5, <1>6, TypeParts DEF IInv

(* Open looks whether the socket is still open.                           *)
LEMMA OpenCheckPreserves ==
    ASSUME IInv, OpenCheck
    PROVE  IInv'
<1>1. WriteTypes /\ ReadTypes /\ OpenTypes /\ SendInv /\ FifoInv /\ ReadInv
  BY Begun DEF IInv
<1>2. /\ opening = "versionSent" /\ opening' = IF isOpen THEN "checked" ELSE "done"
      /\ readState' = IF isOpen THEN "Reading" ELSE "Idle"
      /\ UNCHANGED <<isOpen, registered, inBuf, readOp, kernelIn, arrived, consumed>>
      /\ UNCHANGED writeVars
  BY DEF OpenCheck
<1>3. WriteTypes' /\ SendInv' /\ FifoInv'
  BY <1>1, <1>2, WriteSideKept
<1>4. ReadTypes' /\ ReadInv'
  BY <1>1, <1>2 DEF ReadTypes, ReadInv
<1>5. OpenTypes' /\ AcceptInv'
  BY <1>1, <1>2 DEF OpenTypes, AcceptInv
<1> QED
  BY <1>3, <1>4, <1>5, TypeParts DEF IInv

(* Open starts the first read.                                            *)
LEMMA OpenStartReadPreserves ==
    ASSUME IInv, OpenStartRead
    PROVE  IInv'
<1>1. WriteTypes /\ ReadTypes /\ OpenTypes /\ SendInv /\ FifoInv /\ ReadInv
  BY Begun DEF IInv
<1>2. /\ opening = "checked" /\ opening' = "done" /\ readOp' = AsyncRead
      /\ UNCHANGED <<isOpen, registered, readState, inBuf, kernelIn, arrived, consumed>>
      /\ UNCHANGED writeVars
  BY DEF OpenStartRead
<1>3. WriteTypes' /\ SendInv' /\ FifoInv'
  BY <1>1, <1>2, WriteSideKept
<1>4. ReadTypes'
  BY <1>1, <1>2, EmptySeq DEF ReadTypes, AsyncRead
<1>5. isOpen => readOp = NoRead
  BY <1>1, <1>2 DEF ReadInv
<1>6. ReadInv'
  BY <1>1, <1>2, <1>5 DEF ReadInv, AsyncRead, NoRead
<1>7. OpenTypes' /\ AcceptInv'
  BY <1>1, <1>2 DEF OpenTypes, AcceptInv
<1> QED
  BY <1>3, <1>4, <1>6, <1>7, TypeParts DEF IInv
-----------------------------------------------------------------------------
(* Receiving. *)

(* Bytes arrive.                                                          *)
LEMMA PeerSendsPreserves ==
    ASSUME IInv, PeerSends
    PROVE  IInv'
<1>1. WriteTypes /\ ReadTypes /\ OpenTypes /\ SendInv /\ FifoInv /\ ReadInv
  BY Begun DEF IInv
<1>2. /\ arrived' = arrived + 1 /\ kernelIn' = Append(kernelIn, arrived + 1)
      /\ UNCHANGED <<opening, isOpen, registered, readState, inBuf, readOp, consumed>>
      /\ UNCHANGED writeVars
  BY DEF PeerSends, openVars
<1>3. WriteTypes' /\ SendInv' /\ FifoInv'
  BY <1>1, <1>2, WriteSideKept
<1>4. ReadTypes' /\ ReadInv' /\ OpenTypes'
  BY <1>1, <1>2 DEF ReadTypes, ReadInv, OpenTypes
<1>5. AcceptInv'
  BY <1>2 DEF IInv, AcceptInv, writeVars
<1> QED
  BY <1>3, <1>4, <1>5, TypeParts DEF IInv

(* A read completes.                                                      *)
LEMMA KernelReadsPreserves ==
    ASSUME IInv, KernelReads
    PROVE  IInv'
<1>1. WriteTypes /\ ReadTypes /\ OpenTypes /\ SendInv /\ FifoInv /\ ReadInv
  BY Begun DEF IInv
<1> DEFINE n == IF Window < Len(kernelIn) THEN Window ELSE Len(kernelIn)
<1>2. /\ readOp.status = "pending" /\ isOpen
      /\ readOp' = [status |-> "done", bytes |-> SubSeq(kernelIn, 1, n)]
      /\ kernelIn' = SubSeq(kernelIn, n + 1, Len(kernelIn))
      /\ UNCHANGED <<opening, isOpen, registered, readState, inBuf, arrived, consumed>>
      /\ UNCHANGED writeVars
  BY DEF KernelReads, openVars
<1>3. WriteTypes' /\ SendInv' /\ FifoInv'
  BY <1>1, <1>2, WriteSideKept
<1>4. /\ Len(kernelIn) \in Nat /\ Len(inBuf.bytes) \in Nat /\ inBuf.size \in Nat
      /\ inBuf.bytes \in Seq(Nat)
  BY <1>1, LenProperties DEF ReadTypes, Buffers
<1>5. readOp # NoRead /\ readOp.bytes = <<>>
  BY <1>1, <1>2 DEF ReadInv, NoRead
<1>6. Len(inBuf.bytes) <= inBuf.size
  BY <1>1, <1>2, <1>4, <1>5, EmptySeq DEF ReadInv
<1>7. n \in Nat /\ n <= Len(kernelIn) /\ n <= inBuf.size - Len(inBuf.bytes)
  BY <1>4, <1>6 DEF Window
<1> HIDE DEF n
<1>8. /\ SubSeq(kernelIn, 1, n) \in Seq(Nat) /\ Len(SubSeq(kernelIn, 1, n)) = n
      /\ SubSeq(kernelIn, n + 1, Len(kernelIn)) \in Seq(Nat)
  <2>1. kernelIn \in Seq(Nat)
    BY <1>1 DEF ReadTypes
  <2>2. SubSeq(kernelIn, 0 + 1, n) \in Seq(Nat)
        /\ Len(SubSeq(kernelIn, 0 + 1, n)) = n - 0
    BY <1>4, <1>7, <2>1, CopiedSlice
  <2>3. SubSeq(kernelIn, n + 1, Len(kernelIn)) \in Seq(Nat)
    BY <1>4, <1>7, <2>1, CopiedSlice
  <2> QED
    BY <2>2, <2>3, <1>7
<1>9. ReadTypes'
  BY <1>1, <1>2, <1>8 DEF ReadTypes
<1>10. ReadInv'
  <2>1. readOp'.status = "done" /\ readOp' # NoRead /\ Len(readOp'.bytes) = n
    BY <1>2, <1>8 DEF NoRead
  <2>2. Len(inBuf'.bytes) + Len(readOp'.bytes) <= inBuf'.size
    BY <2>1, <1>2, <1>4, <1>7
  <2>3. opening' = "done"
    BY <1>1, <1>2, <1>5 DEF ReadInv
  <2> QED
    BY <2>1, <2>2, <2>3, <1>1, <1>2 DEF ReadInv
<1>11. OpenTypes'
  BY <1>1, <1>2 DEF OpenTypes
<1>12. AcceptInv'
  BY <1>2, Begun
<1> QED
  BY <1>3, <1>9, <1>10, <1>11, <1>12, TypeParts DEF IInv

(* A read fails or is aborted.                                            *)
LEMMA ReadFailsPreserves ==
    ASSUME IInv, ReadFails
    PROVE  IInv'
<1>1. WriteTypes /\ ReadTypes /\ OpenTypes /\ SendInv /\ FifoInv /\ ReadInv
  BY Begun DEF IInv
<1>2. /\ readOp.status = "pending"
      /\ readOp' = [status |-> "failed", bytes |-> readOp.bytes]
      /\ UNCHANGED <<opening, isOpen, registered, readState, inBuf, kernelIn,
                     arrived, consumed>>
      /\ UNCHANGED writeVars
  BY <1>1 DEF ReadFails, openVars, ReadTypes
<1>3. WriteTypes' /\ SendInv' /\ FifoInv'
  BY <1>1, <1>2, WriteSideKept
<1>4. ReadTypes' /\ ReadInv' /\ OpenTypes'
  BY <1>1, <1>2 DEF ReadTypes, ReadInv, OpenTypes, NoRead
<1>5. AcceptInv'
  BY <1>2, Begun
<1> QED
  BY <1>3, <1>4, <1>5, TypeParts DEF IInv

(* OnRead with an error, or on a closed socket.                           *)
LEMMA ReadEndsPreserve ==
    ASSUME IInv, OnReadFailed \/ OnReadAfterClose
    PROVE  IInv'
<1>1. WriteTypes /\ ReadTypes /\ OpenTypes /\ SendInv /\ FifoInv /\ ReadInv
  BY Begun DEF IInv
<1>2. /\ readOp.status # "none" /\ isOpen' = FALSE /\ registered' \in BOOLEAN
      /\ readOp' = NoRead /\ readState' = "Idle"
      /\ UNCHANGED <<opening, inBuf, kernelIn, arrived, consumed>>
      /\ UNCHANGED writeVars
  BY <1>1 DEF OnReadFailed, OnReadAfterClose, CloseSocket, openVars, OpenTypes
<1>3. WriteTypes' /\ SendInv' /\ FifoInv'
  BY <1>1, <1>2, WriteSideKept
<1>4. ReadTypes' /\ ReadInv' /\ OpenTypes'
  BY <1>1, <1>2, EmptySeq DEF ReadTypes, ReadInv, OpenTypes, NoRead
<1>5. AcceptInv'
  BY <1>2, Begun
<1> QED
  BY <1>3, <1>4, <1>5, TypeParts DEF IInv
(* The buffer that OnRead hands to ProcessIncomingData. *)
LEMMA GotBuffer ==
    ASSUME ReadTypes, ReadInv, isOpen
    PROVE  /\ Got \in Buffers(Nat) /\ Got.size = inBuf.size /\ Got.size \in Nat
           /\ Got.bytes \in Seq(Nat) /\ Got.read \in Nat
           /\ Len(Got.bytes) \in Nat
           /\ Len(Got.bytes) <= Got.size /\ Got.read <= Len(Got.bytes)
<1>1. /\ inBuf.bytes \in Seq(Nat) /\ inBuf.read \in Nat /\ inBuf.size \in Nat
      /\ readOp.bytes \in Seq(Nat)
  BY DEF ReadTypes, Buffers
<1>2. /\ inBuf.bytes \o readOp.bytes \in Seq(Nat)
      /\ Len(inBuf.bytes \o readOp.bytes) = Len(inBuf.bytes) + Len(readOp.bytes)
      /\ Len(inBuf.bytes) \in Nat /\ Len(readOp.bytes) \in Nat
  BY <1>1, ConcatProperties, LenProperties
<1>3. Got = [bytes |-> inBuf.bytes \o readOp.bytes, read |-> inBuf.read,
             size |-> inBuf.size]
  BY BufferUpdates DEF Got, Received, ReadTypes
<1>4. inBuf.read <= Len(inBuf.bytes)
      /\ Len(inBuf.bytes) + Len(readOp.bytes) <= inBuf.size
  BY DEF ReadInv
<1>5. Got.bytes = inBuf.bytes \o readOp.bytes
  BY <1>3
<1>6. Got.read = inBuf.read /\ Got.size = inBuf.size
  BY <1>3
<1>7. Got \in Buffers(Nat)
  BY <1>1, <1>2, <1>3 DEF Buffers
<1>8. Len(Got.bytes) = Len(inBuf.bytes) + Len(readOp.bytes)
  BY <1>2, <1>5
<1>9. Len(Got.bytes) <= Got.size
  BY <1>4, <1>6, <1>8
<1>10. Got.read <= Len(Got.bytes)
  <2>1. Len(inBuf.bytes) \in Nat /\ Len(readOp.bytes) \in Nat /\ Got.read \in Nat
    BY <1>1, <1>2, <1>6
  <2>2. Got.read <= Len(inBuf.bytes)
    BY <1>4, <1>6
  <2>3. ASSUME NEW i \in Nat, NEW j \in Nat, NEW k \in Nat, i <= j
        PROVE  i <= j + k
    BY <2>3
  <2>4. Got.read <= Len(inBuf.bytes) + Len(readOp.bytes)
    BY <2>1, <2>2, <2>3
  <2> QED
    BY <2>4, <1>8
<1>11. Got.bytes \in Seq(Nat) /\ Len(Got.bytes) \in Nat
  BY <1>2, <1>5, LenProperties
<1> QED
  BY <1>1, <1>6, <1>7, <1>9, <1>10, <1>11

(* OnRead makes room and reads on.                                        *)
LEMMA OnReadGrowPreserves ==
    ASSUME IInv, OnReadGrow
    PROVE  IInv'
<1>1. WriteTypes /\ ReadTypes /\ OpenTypes /\ SendInv /\ FifoInv /\ ReadInv
  BY Begun DEF IInv
<1>2. /\ readOp.status = "done" /\ isOpen
      /\ inBuf' = [Got EXCEPT !.size = @ + Len(kernelIn)]
      /\ UNCHANGED <<opening, isOpen, registered, kernelIn, arrived, consumed>>
      /\ UNCHANGED writeVars
      /\ readState' = "Reading" /\ readOp' = AsyncRead
  BY DEF OnReadGrow, openVars, StartAsyncRead
<1>3. WriteTypes' /\ SendInv' /\ FifoInv'
  BY <1>1, <1>2, WriteSideKept
<1>4. /\ inBuf' = [bytes |-> Got.bytes, read |-> Got.read,
                   size |-> Got.size + Len(kernelIn)]
      /\ Len(kernelIn) \in Nat
  BY <1>1, <1>2, GotBuffer, BufferUpdates, LenProperties DEF ReadTypes
<1>a. /\ Got.bytes \in Seq(Nat) /\ Got.read \in Nat /\ Got.size \in Nat
      /\ Len(Got.bytes) \in Nat /\ Len(Got.bytes) <= Got.size
      /\ Got.read <= Len(Got.bytes)
  BY <1>1, <1>2, GotBuffer
<1>b. inBuf'.bytes = Got.bytes /\ inBuf'.read = Got.read
      /\ inBuf'.size = Got.size + Len(kernelIn) /\ inBuf' \in Buffers(Nat)
  BY <1>4, <1>a DEF Buffers
<1>c. /\ readOp' \in [status : {"none", "pending", "done", "failed"}, bytes : Seq(Nat)]
      /\ readOp'.status = "pending" /\ readOp'.bytes = <<>> /\ readOp' # NoRead
  BY <1>2, EmptySeq DEF AsyncRead, NoRead
<1>5. ReadTypes'
  BY <1>1, <1>2, <1>b, <1>c DEF ReadTypes
<1>6. opening = "done"
  BY <1>1, <1>2 DEF ReadInv, NoRead
<1>d. Len(inBuf'.bytes) + Len(readOp'.bytes) <= inBuf'.size
  BY <1>a, <1>b, <1>c, <1>4
<1>e. inBuf'.read <= Len(inBuf'.bytes)
  BY <1>a, <1>b
<1>7. ReadInv'
  BY <1>2, <1>6, <1>c, <1>d, <1>e DEF ReadInv
<1>8. OpenTypes' /\ AcceptInv'
  BY <1>1, <1>2, Begun DEF OpenTypes
<1> QED
  BY <1>3, <1>5, <1>7, <1>8, TypeParts DEF IInv

(* What the three outcomes have in common. *)
LEMMA Processed ==
    ASSUME IInv, NEW outcome, NEW n \in 0 .. ReadLengthRemaining(Got),
           Process(outcome, n)
    PROVE  /\ readOp.status = "done" /\ isOpen = TRUE /\ opening = "done"
           /\ UNCHANGED <<opening, kernelIn, arrived>>
           /\ consumed' \in Seq(Nat) /\ kernelIn' \in Seq(Nat) /\ arrived' \in Nat
           /\ n \in Nat /\ Got.read + n \in Nat /\ Got.read + n <= Len(Got.bytes)
<1>1. ReadTypes /\ OpenTypes /\ ReadInv
  BY Begun DEF IInv
<1>2. /\ readOp.status = "done" /\ isOpen = TRUE
      /\ UNCHANGED <<opening, kernelIn, arrived>>
      /\ consumed' = consumed \o Readable(Got, n)
  BY <1>1 DEF Process, OpenTypes
<1>3. opening = "done"
  BY <1>1, <1>2 DEF ReadInv, NoRead
<1>4. n \in Nat /\ Got.read + n \in Nat /\ Got.read + n <= Len(Got.bytes)
  BY <1>1, <1>2, GotBuffer DEF ReadLengthRemaining
<1>5. Readable(Got, n) \in Seq(Nat)
  BY <1>1, <1>2, <1>4, GotBuffer, CopiedSlice DEF Readable
<1>6. consumed' \in Seq(Nat)
  BY <1>1, <1>2, <1>5, ConcatProperties DEF ReadTypes
<1> QED
  BY <1>1, <1>2, <1>3, <1>4, <1>6 DEF ReadTypes

(* OnRead when ProcessIncomingData returns true.                          *)
LEMMA OnReadHandledPreserves ==
    ASSUME IInv, OnReadHandled
    PROVE  IInv'
<1>1. WriteTypes /\ ReadTypes /\ OpenTypes /\ SendInv /\ FifoInv /\ ReadInv
  BY Begun DEF IInv
<1>2. Process("true", ReadLengthRemaining(Got)) /\ isOpen
  BY DEF OnReadHandled, Process
<1>3. ReadLengthRemaining(Got) \in 0 .. ReadLengthRemaining(Got)
  BY <1>1, <1>2, GotBuffer DEF ReadLengthRemaining
<1>4. /\ readOp.status = "done" /\ isOpen = TRUE /\ opening = "done"
      /\ UNCHANGED <<opening, kernelIn, arrived>>
      /\ consumed' \in Seq(Nat) /\ kernelIn' \in Seq(Nat) /\ arrived' \in Nat
  BY <1>2, <1>3, Processed
<1>5. inBuf' = Emptied(Got) /\ StartAsyncRead
  BY DEF OnReadHandled
<1>6. inBuf' = [bytes |-> <<>>, read |-> 0, size |-> Got.size]
  BY <1>5 DEF Emptied
<1>7. /\ isOpen' \in BOOLEAN /\ registered' \in BOOLEAN
      /\ WriteTypes' /\ SendInv' /\ FifoInv'
  <2>1. CASE UNCHANGED <<isOpen, registered, writeVars>>
    BY <2>1, <1>1, WriteSideKept DEF OpenTypes
  <2>2. CASE \E n \in 1 .. MaxReply : Write(n) /\ UNCHANGED <<isOpen, registered>>
    <3>1. PICK n \in 1 .. MaxReply : Write(n) /\ UNCHANGED <<isOpen, registered>>
      BY <2>2
    <3>2. n \in Nat \ {0} /\ isOpen' = TRUE
      BY <3>1, <1>4, SocketAssumption
    <3> QED
      BY <3>1, <3>2, <1>1, <1>4, WritePreserves DEF OpenTypes
  <2>3. CASE CloseSocket /\ UNCHANGED writeVars
    BY <2>3, <1>1, WriteSideKept DEF CloseSocket
  <2> QED
    BY <2>1, <2>2, <2>3 DEF OnReadHandled
<1>8. /\ readState' \in {"Idle", "Reading"}
      /\ readOp' = IF isOpen' THEN AsyncRead ELSE NoRead
  BY <1>5 DEF StartAsyncRead
<1>9. ReadTypes'
  BY <1>1, <1>2, <1>4, <1>6, <1>8, GotBuffer, EmptySeq
     DEF ReadTypes, Buffers, AsyncRead, NoRead
<1>10. ReadInv'
  <2>1. inBuf'.read <= Len(inBuf'.bytes)
    BY <1>6
  <2>2. /\ readOp'.status = "none" <=> readOp' = NoRead
        /\ readOp'.status # "done" /\ readOp'.bytes = <<>>
        /\ isOpen' => readOp' # NoRead
    BY <1>8 DEF AsyncRead, NoRead
  <2>3. Len(inBuf'.bytes) + Len(readOp'.bytes) <= inBuf'.size
    <3>1. Got.size \in Nat
      BY <1>1, <1>2, GotBuffer
    <3> QED
      BY <2>2, <3>1, <1>6
  <2> QED
    BY <2>1, <2>2, <2>3, <1>4 DEF ReadInv
<1>11. OpenTypes' /\ AcceptInv'
  BY <1>1, <1>4, <1>7, Begun DEF OpenTypes
<1> QED
  BY <1>7, <1>9, <1>10, <1>11, TypeParts DEF IInv

(* OnRead when a packet is incomplete.                                    *)
LEMMA OnReadIncompletePreserves ==
    ASSUME IInv, OnReadIncomplete
    PROVE  IInv'
<1>1. WriteTypes /\ ReadTypes /\ OpenTypes /\ SendInv /\ FifoInv /\ ReadInv
  BY Begun DEF IInv
<1>2. PICK n \in 0 .. ReadLengthRemaining(Got) :
         /\ Process("badmsg", n)
         /\ inBuf' = Compacted(BufferRead(Got, n))
         /\ UNCHANGED <<isOpen, registered, writeVars>>
         /\ StartAsyncRead
  BY DEF OnReadIncomplete
<1>3. /\ readOp.status = "done" /\ isOpen = TRUE /\ opening = "done"
      /\ UNCHANGED <<opening, kernelIn, arrived>>
      /\ consumed' \in Seq(Nat) /\ kernelIn' \in Seq(Nat) /\ arrived' \in Nat
      /\ n \in Nat /\ Got.read + n \in Nat /\ Got.read + n <= Len(Got.bytes)
  BY <1>2, Processed
<1>4. readState' = "Reading" /\ readOp' = AsyncRead
  BY <1>2, <1>3 DEF StartAsyncRead
<1> DEFINE kept == SubSeq(Got.bytes, Got.read + n + 1, Len(Got.bytes))
<1>5. inBuf' = [bytes |-> kept, read |-> 0, size |-> Got.size]
  <2>1. BufferRead(Got, n) = [bytes |-> Got.bytes, read |-> Got.read + n,
                              size |-> Got.size]
    BY <1>1, <1>3, GotBuffer, BufferUpdates DEF BufferRead
  <2> QED
    BY <2>1, <1>2 DEF Compacted
<1>6. /\ kept \in Seq(Nat) /\ Len(kept) = Len(Got.bytes) - (Got.read + n)
      /\ Len(kept) \in Nat /\ Len(kept) <= Got.size /\ Got.size \in Nat
  <2>1. /\ Got.bytes \in Seq(Nat) /\ Len(Got.bytes) \in Nat
        /\ Got.size \in Nat /\ Len(Got.bytes) <= Got.size
    BY <1>1, <1>3, GotBuffer
  <2>2. /\ kept \in Seq(Nat)
        /\ Len(kept) = Len(Got.bytes) - (Got.read + n)
    <3>1. Got.read + n \in Nat /\ Len(Got.bytes) <= Len(Got.bytes)
      BY <2>1, <1>3
    <3> QED
      BY <2>1, <3>1, <1>3, CopiedSlice
  <2> HIDE DEF kept
  <2> QED
    BY <2>1, <2>2, <1>3
<1> HIDE DEF kept
<1>7. WriteTypes' /\ SendInv' /\ FifoInv'
  BY <1>1, <1>2, WriteSideKept
<1>8. ReadTypes'
  BY <1>1, <1>3, <1>4, <1>5, <1>6, GotBuffer, EmptySeq
     DEF ReadTypes, Buffers, AsyncRead
<1>9. ReadInv'
  <2>1. inBuf'.read <= Len(inBuf'.bytes)
    BY <1>5, <1>6
  <2>2. readOp'.status = "pending" /\ readOp'.bytes = <<>> /\ readOp' # NoRead
    BY <1>4 DEF AsyncRead, NoRead
  <2>3. Len(inBuf'.bytes) + Len(readOp'.bytes) <= inBuf'.size
    BY <2>2, <1>5, <1>6
  <2> QED
    BY <2>1, <2>2, <2>3, <1>3 DEF ReadInv
<1>10. OpenTypes' /\ AcceptInv'
  BY <1>1, <1>2, <1>3, Begun DEF OpenTypes
<1> QED
  BY <1>7, <1>8, <1>9, <1>10, TypeParts DEF IInv

(* OnRead when ProcessIncomingData returns false.                         *)
LEMMA OnReadRejectedPreserves ==
    ASSUME IInv, OnReadRejected
    PROVE  IInv'
<1>1. WriteTypes /\ ReadTypes /\ OpenTypes /\ SendInv /\ FifoInv /\ ReadInv
  BY Begun DEF IInv
<1>2. PICK n \in 0 .. ReadLengthRemaining(Got) :
         /\ Process("false", n)
         /\ inBuf' = BufferRead(Got, n)
         /\ isOpen' = FALSE /\ registered' = FALSE /\ readOp' = NoRead
         /\ UNCHANGED <<readState, writeVars>>
  BY DEF OnReadRejected, CloseSocket
<1>3. /\ readOp.status = "done" /\ isOpen = TRUE /\ opening = "done"
      /\ UNCHANGED <<opening, kernelIn, arrived>>
      /\ consumed' \in Seq(Nat) /\ kernelIn' \in Seq(Nat) /\ arrived' \in Nat
      /\ n \in Nat /\ Got.read + n \in Nat /\ Got.read + n <= Len(Got.bytes)
  BY <1>2, Processed
<1>4. inBuf' = [bytes |-> Got.bytes, read |-> Got.read + n, size |-> Got.size]
  BY <1>1, <1>2, <1>3, GotBuffer, BufferUpdates DEF BufferRead
<1>5. WriteTypes' /\ SendInv' /\ FifoInv'
  BY <1>1, <1>2, WriteSideKept
<1>6. ReadTypes'
  BY <1>1, <1>2, <1>3, <1>4, GotBuffer, EmptySeq DEF ReadTypes, Buffers, NoRead
<1>7. ReadInv'
  BY <1>2, <1>3, <1>4 DEF ReadInv, NoRead
<1>8. OpenTypes' /\ AcceptInv'
  BY <1>1, <1>2, <1>3, Begun DEF OpenTypes
<1> QED
  BY <1>5, <1>6, <1>7, <1>8, TypeParts DEF IInv-----------------------------------------------------------------------------
(* The constructor of Socket.                                             *)
LEMMA InitIInv == Init => IInv
<1> SUFFICES ASSUME Init PROVE IInv
  OBVIOUS
<1>1. NewBuffer(StorageSize) \in Buffers(Nat)
  BY SocketAssumption, EmptySeq DEF NewBuffer, Buffers
<1>2. out.bytes = <<>> /\ inBuf.bytes = <<>> /\ inBuf.read = 0
      /\ inBuf.size = StorageSize
  BY DEF Init, NewBuffer
<1>3. WriteTypes
  BY <1>1, EmptySeq DEF Init, WriteTypes, NoSend
<1>4. ReadTypes
  BY <1>1, EmptySeq DEF Init, ReadTypes, NoRead
<1>5. OpenTypes
  BY DEF Init, OpenTypes
<1>6. SendInv
  BY <1>2 DEF Init, SendInv, NoSend
<1>7. FifoInv
  BY <1>2 DEF Init, FifoInv, Retired, NoSend
<1>8. ReadInv
  BY <1>2, SocketAssumption DEF Init, ReadInv, NoRead
<1>9. AcceptInv
  BY DEF Init, AcceptInv
<1> QED
  BY <1>3, <1>4, <1>5, <1>6, <1>7, <1>8, <1>9, TypeParts DEF IInv

(* Steps of other parts of the server.                                    *)
LEMMA StutterIInv == ASSUME IInv, UNCHANGED vars PROVE IInv'
<1>1. WriteTypes /\ ReadTypes /\ OpenTypes /\ SendInv /\ FifoInv /\ ReadInv
  BY Begun DEF IInv
<1>2. /\ UNCHANGED writeVars /\ UNCHANGED <<readVars, opening>>
      /\ UNCHANGED <<opening, isOpen, registered>>
  BY DEF vars, writeVars, readVars
<1>3. WriteTypes' /\ SendInv' /\ FifoInv'
  BY <1>1, <1>2, WriteSideKept
<1>4. ReadTypes' /\ ReadInv'
  BY <1>1, <1>2, ReadSideKept
<1>5. OpenTypes' /\ AcceptInv'
  BY <1>1, <1>2 DEF IInv, OpenTypes, AcceptInv, writeVars, readVars
<1> QED
  BY <1>3, <1>4, <1>5, TypeParts DEF IInv

(* The inductive invariant: the theorems below are its consequences. *)
THEOREM Invariance == Spec => []IInv
<1>1. Init => IInv
  BY InitIInv
<1>2. ASSUME IInv, [Next]_vars
      PROVE  IInv'
  <2>1. CASE OpenThrows
    BY <1>2, <2>1, OpenThrowsPreserves
  <2>2. CASE OpenSendVersion
    BY <1>2, <2>2, OpenSendVersionPreserves
  <2>3. CASE OpenCheck
    BY <1>2, <2>3, OpenCheckPreserves
  <2>4. CASE OpenStartRead
    BY <1>2, <2>4, OpenStartReadPreserves
  <2>5. CASE FlushOut
    BY <1>2, <2>5, FlushOutPreserves
  <2>6. CASE KernelSends
    BY <1>2, <2>6, KernelSendsPreserves
  <2>7. CASE SendFails
    BY <1>2, <2>7, SendFailsPreserves
  <2>8. CASE OnWriteFailed
    BY <1>2, <2>8, OnWriteFailedPreserves
  <2>9. CASE OnWriteAfterClose
    BY <1>2, <2>9, OnWriteAfterClosePreserves
  <2>10. CASE OnWriteComplete
    BY <1>2, <2>10, OnWriteCompletePreserves
  <2>11. CASE PeerSends
    BY <1>2, <2>11, PeerSendsPreserves
  <2>12. CASE KernelReads
    BY <1>2, <2>12, KernelReadsPreserves
  <2>13. CASE ReadFails
    BY <1>2, <2>13, ReadFailsPreserves
  <2>14. CASE OnReadFailed \/ OnReadAfterClose
    BY <1>2, <2>14, ReadEndsPreserve
  <2>15. CASE OnReadGrow
    BY <1>2, <2>15, OnReadGrowPreserves
  <2>16. CASE OnReadHandled
    BY <1>2, <2>16, OnReadHandledPreserves
  <2>17. CASE OnReadIncomplete
    BY <1>2, <2>17, OnReadIncompletePreserves
  <2>18. CASE OnReadRejected
    BY <1>2, <2>18, OnReadRejectedPreserves
  <2>19. CASE Gone \/ UNCHANGED vars
    BY <1>2, <2>19, StutterIInv DEF Gone
  <2> QED
    BY <1>2, <2>1, <2>2, <2>3, <2>4, <2>5, <2>6, <2>7, <2>8, <2>9, <2>10, <2>11,
       <2>12, <2>13, <2>14, <2>15, <2>16, <2>17, <2>18, <2>19
       DEF Next, Opens, SendEnds, Writes, Reads
<1> QED
  BY <1>1, <1>2, PTL DEF Spec

(* Every variable keeps its type. *)
THEOREM TypeCorrect == Spec => []TypeOK
<1>1. IInv => TypeOK
  BY DEF IInv
<1> QED
  BY <1>1, Invariance, PTL

(* The asserts of FlushOut and OnWriteComplete never fail. *)
THEOREM AssertsHold == Spec => []HandlerAsserts
<1>1. IInv => HandlerAsserts
  <2> SUFFICES ASSUME IInv, isOpen
               PROVE  /\ flushes > 0 => writeState = "Buffering" /\ out.bytes # <<>>
                      /\ sendOp.status = "done" =>
                            writeState = "Sending" /\ sendOp.len <= Len(out.bytes)
    BY DEF HandlerAsserts
  <2>1. flushes > 0 => writeState = "Buffering"
    BY DEF IInv, SendInv
  <2>2. writeState = "Buffering" => out.bytes # <<>>
    BY DEF IInv, SendInv
  <2>3. sendOp.status = "done" => writeState = "Sending"
    BY DEF IInv, SendInv, NoSend
  <2>4. sendOp.status = "done" => sendOp.len \in 1 .. Len(out.bytes)
    BY DEF IInv, SendInv
  <2> QED
    BY <2>1, <2>2, <2>3, <2>4
<1> QED
  BY <1>1, Invariance, PTL

(* Bytes waiting in an open socket have exactly one trigger under way. *)
THEOREM OneTriggerHolds == Spec => []OneTrigger
<1>1. IInv => OneTrigger
  <2> SUFFICES ASSUME IInv, isOpen
               PROVE  flushes + (IF sendOp = NoSend THEN 0 ELSE 1)
                          = IF out.bytes = <<>> THEN 0 ELSE 1
    BY DEF OneTrigger
  <2>1. /\ writeState \in {"Idle", "Buffering", "Sending"}
        /\ flushes = IF writeState = "Buffering" THEN 1 ELSE 0
        /\ writeState = "Idle" <=> out.bytes = <<>>
        /\ writeState = "Sending" <=> sendOp # NoSend
    BY DEF IInv, SendInv, TypeOK
  <2>2. CASE writeState = "Idle"
    BY <2>1, <2>2
  <2>3. CASE writeState = "Buffering"
    BY <2>1, <2>3
  <2>4. CASE writeState = "Sending"
    BY <2>1, <2>4
  <2> QED
    BY <2>1, <2>2, <2>3, <2>4
<1> QED
  BY <1>1, Invariance, PTL

(* What reaches the wire is what was written, in order, except where       *)
(* storage moved, or overlapped, under a transfer.                         *)
THEOREM OutputIsFIFO == Spec => []OutputFIFO
<1>1. IInv => OutputFIFO
  <2>1. ASSUME IInv PROVE DOMAIN wire = 1 .. Len(wire)
    BY <2>1, LenProperties DEF IInv, TypeOK
  <2> QED
    BY <2>1 DEF IInv, FifoInv, OutputFIFO
<1> QED
  BY <1>1, Invariance, PTL

(* An open socket keeps one read in flight, and never overruns its buffer. *)
THEOREM ReadLoopStaysAlive == Spec => []ReadLoopAlive
<1>1. IInv => ReadLoopAlive
  BY DEF IInv, ReadInv, ReadLoopAlive
<1> QED
  BY <1>1, Invariance, PTL
-----------------------------------------------------------------------------
(* Operations take turns. *)

(* At most one thing under way for the output, closed or not, and no read  *)
(* before Open has started the first.                                      *)
TurnInv ==
    /\ flushes > 0 => flushes = 1 /\ sendOp = NoSend
    /\ opening # "done" => readOp = NoRead

(* The step of InTurn. *)
Turn ==
    /\ flushes' > flushes => isOpen /\ flushes = 0 /\ sendOp = NoSend
    /\ flushes' < flushes => flushes = 1 /\ sendOp = NoSend
    /\ Starts(sendOp, sendOp') =>
           isOpen /\ (flushes' < flushes \/ sendOp.status = "done")
    /\ Starts(readOp, readOp') =>
           \/ opening = "checked" /\ opening' = "done" /\ readOp = NoRead
           \/ isOpen /\ opening = "done" /\ readOp.status = "done"

(* What a step may do to the timer and the transfer.                       *)
SendTurn ==
    \/ flushes' = flushes /\ sendOp'.status = sendOp.status
          /\ (sendOp = NoSend => sendOp' = NoSend)
    \/ flushes = 0 /\ flushes' = 1 /\ sendOp = NoSend /\ sendOp' = NoSend /\ isOpen
    \/ flushes' = flushes - 1 /\ flushes = 1 /\ sendOp = NoSend
          /\ (sendOp' = NoSend \/ isOpen)
    \/ flushes' = flushes /\ flushes = 0 /\ sendOp # NoSend
          /\ (sendOp'.status = "pending" => isOpen /\ sendOp.status = "done")

(* What it may do to the read.                                             *)
ReadTurn ==
    \/ readOp' = readOp /\ (opening' = "done" \/ opening # "done")
    \/ opening = "checked" /\ opening' = "done"
    \/ opening' = opening /\ readOp # NoRead
          /\ (readOp'.status = "pending" => isOpen /\ readOp.status = "done")

LEMMA TurnsKept ==
    ASSUME IInv, TurnInv, SendTurn, ReadTurn
    PROVE  TurnInv' /\ Turn
<1>1. flushes \in Nat /\ (opening # "done" => readOp = NoRead)
  BY DEF IInv, TypeOK, TurnInv
<1>2. (flushes > 0 => flushes = 1 /\ sendOp = NoSend)'
  BY <1>1 DEF SendTurn, TurnInv
<1>3. (opening # "done" => readOp = NoRead)'
  BY <1>1 DEF ReadTurn
<1>4. /\ flushes' > flushes => isOpen /\ flushes = 0 /\ sendOp = NoSend
      /\ flushes' < flushes => flushes = 1 /\ sendOp = NoSend
  BY <1>1 DEF SendTurn
<1>5. Starts(sendOp, sendOp') => isOpen /\ (flushes' < flushes \/ sendOp.status = "done")
  BY <1>1 DEF SendTurn, Starts, NoSend
<1>6. Starts(readOp, readOp') =>
          \/ opening = "checked" /\ opening' = "done" /\ readOp = NoRead
          \/ isOpen /\ opening = "done" /\ readOp.status = "done"
  BY <1>1 DEF ReadTurn, Starts
<1> QED
  BY <1>2, <1>3, <1>4, <1>5, <1>6 DEF TurnInv, Turn

(* Write arms the timer of an idle socket, and starts nothing otherwise.   *)
LEMMA WriteTurn ==
    ASSUME IInv, isOpen, NEW n \in Nat, Write(n)
    PROVE  SendTurn
<1>1. sendOp \in [status : {"none", "pending", "done", "failed"}, len : Nat, stale : BOOLEAN]
      /\ flushes \in Nat /\ writeState \in {"Idle", "Buffering", "Sending"}
  BY DEF IInv, TypeOK
<1>2. PICK moved \in BOOLEAN :
         LET tears == moved /\ sendOp.status = "pending"
         IN  sendOp' = [sendOp EXCEPT !.stale = @ \/ tears]
  BY DEF Write
<1>3. /\ sendOp'.status = sendOp.status
      /\ sendOp = NoSend => sendOp' = NoSend
  <2>1. sendOp'.status = sendOp.status
    BY <1>1, <1>2
  <2>2. sendOp.status # "pending" => sendOp' = sendOp
    BY <1>1, <1>2
  <2> QED
    BY <2>1, <2>2 DEF NoSend
<1>4. CASE writeState = "Idle"
  <2>1. flushes = 0 /\ sendOp = NoSend
    BY <1>4 DEF IInv, SendInv
  <2>2. flushes' = flushes + 1
    BY <1>4 DEF Write, StartWriteFlushTimer
  <2> QED
    BY <2>1, <2>2, <1>3 DEF SendTurn
<1>5. CASE writeState # "Idle"
  <2>1. flushes' = flushes
    BY <1>5 DEF Write
  <2> QED
    BY <2>1, <1>3 DEF SendTurn
<1> QED
  BY <1>4, <1>5

(* Every step that changes the transfer or the timer has its turn.         *)
LEMMA SendsInTurn ==
    ASSUME IInv, TurnInv, [Next]_vars
    PROVE  SendTurn
<1>1. /\ flushes \in Nat /\ SendInv
      /\ flushes > 0 => flushes = 1 /\ sendOp = NoSend
  BY DEF IInv, TypeOK, TurnInv
<1>2. CASE UNCHANGED <<flushes, sendOp>>
  BY <1>2 DEF SendTurn
<1>3. CASE OpenSendVersion
  <2>1. isOpen /\ Write(VersionLength) /\ VersionLength \in Nat
    BY <1>3, SocketAssumption DEF OpenSendVersion, IInv, AcceptInv
  <2> QED
    BY <2>1, WriteTurn
<1>4. CASE FlushOut
  <2>1. flushes = 1 /\ flushes' = flushes - 1 /\ sendOp = NoSend
    BY <1>1, <1>4 DEF FlushOut
  <2>2. sendOp' = NoSend \/ isOpen
    BY <2>1, <1>4 DEF FlushOut
  <2> QED
    BY <2>1, <2>2 DEF SendTurn
<1>5. CASE KernelSends \/ SendFails
  <2>1. /\ sendOp \in [status : {"none", "pending", "done", "failed"},
                        len : Nat, stale : BOOLEAN]
        /\ sendOp.status = "pending" /\ flushes' = flushes
    BY <1>5 DEF KernelSends, SendFails, IInv, TypeOK
  <2>2. sendOp # NoSend /\ flushes = 0
    BY <1>1, <2>1 DEF NoSend
  <2>3. sendOp'.status # "pending"
    <3>1. CASE KernelSends
      BY <2>1, <3>1 DEF KernelSends
    <3>2. CASE SendFails
      BY <2>1, <3>2 DEF SendFails
    <3> QED
      BY <1>5, <3>1, <3>2
  <2> QED
    BY <2>1, <2>2, <2>3 DEF SendTurn
<1>6. CASE Writes
  <2>1. sendOp.status \in {"failed", "done"} /\ flushes' = flushes
    BY <1>6 DEF Writes, OnWriteFailed, OnWriteAfterClose, OnWriteComplete
  <2>2. sendOp # NoSend /\ flushes = 0
    BY <1>1, <2>1 DEF NoSend
  <2>3. sendOp'.status = "pending" => isOpen /\ sendOp.status = "done"
    BY <1>6 DEF Writes, OnWriteFailed, OnWriteAfterClose, OnWriteComplete, NoSend
  <2> QED
    BY <2>1, <2>2, <2>3 DEF SendTurn
<1>7. CASE OnReadHandled
  <2>1. CASE UNCHANGED writeVars
    BY <2>1, <1>2 DEF writeVars
  <2>2. CASE \E n \in 1 .. MaxReply : Write(n)
    <3>1. PICK n \in 1 .. MaxReply : Write(n)
      BY <2>2
    <3>2. n \in Nat /\ isOpen
      BY <1>7, SocketAssumption DEF OnReadHandled, Process
    <3> QED
      BY <3>1, <3>2, WriteTurn
  <2> QED
    BY <1>7, <2>1, <2>2 DEF OnReadHandled
<1>8. CASE OpenThrows \/ OpenCheck \/ OpenStartRead \/ PeerSends \/ KernelReads \/ ReadFails
  BY <1>8, <1>2 DEF OpenThrows, OpenCheck, OpenStartRead, PeerSends, KernelReads,
                    ReadFails, writeVars
<1>9. CASE OnReadFailed \/ OnReadAfterClose \/ OnReadGrow \/ OnReadIncomplete \/ OnReadRejected
  BY <1>9, <1>2 DEF OnReadFailed, OnReadAfterClose, OnReadGrow, OnReadIncomplete,
                    OnReadRejected, writeVars
<1>10. CASE Gone \/ UNCHANGED vars
  BY <1>10, <1>2 DEF Gone, vars
<1> QED
  BY <1>3, <1>4, <1>5, <1>6, <1>7, <1>8, <1>9, <1>10 DEF Next, Opens, SendEnds, Reads

(* So has every step that changes the read.                                *)
LEMMA ReadsInTurn ==
    ASSUME IInv, TurnInv, [Next]_vars
    PROVE  ReadTurn
<1>1. /\ opening # "done" => readOp = NoRead
      /\ readOp \in [status : {"none", "pending", "done", "failed"}, bytes : Seq(Nat)]
  BY DEF IInv, TypeOK, TurnInv
<1>2. CASE readOp' = readOp /\ opening' = opening
  BY <1>2 DEF ReadTurn
<1>3. CASE OpenThrows \/ OpenSendVersion \/ OpenCheck
  <2>1. readOp' = readOp /\ opening # "done"
    BY <1>3 DEF OpenThrows, OpenSendVersion, OpenCheck, readVars
  <2> QED
    BY <2>1 DEF ReadTurn
<1>4. CASE OpenStartRead
  BY <1>4 DEF OpenStartRead, ReadTurn
<1>5. CASE KernelReads \/ ReadFails
  <2>1. readOp.status = "pending" /\ opening' = opening
    BY <1>5 DEF KernelReads, ReadFails, openVars
  <2>2. readOp # NoRead
    BY <2>1 DEF NoRead
  <2>3. readOp'.status # "pending"
    <3>1. CASE KernelReads
      BY <3>1 DEF KernelReads
    <3>2. CASE ReadFails
      BY <1>1, <3>2 DEF ReadFails
    <3> QED
      BY <1>5, <3>1, <3>2
  <2> QED
    BY <2>1, <2>2, <2>3 DEF ReadTurn
<1>6. CASE OnReadFailed \/ OnReadAfterClose \/ OnReadRejected
  <2>1. readOp.status \in {"failed", "done"} /\ opening' = opening /\ readOp' = NoRead
    BY <1>6 DEF OnReadFailed, OnReadAfterClose, OnReadRejected, Process, openVars
  <2> QED
    BY <2>1 DEF ReadTurn, NoRead
<1>7. CASE OnReadGrow \/ OnReadHandled \/ OnReadIncomplete
  <2>1. readOp.status = "done" /\ isOpen /\ opening' = opening
    BY <1>7 DEF OnReadGrow, OnReadHandled, OnReadIncomplete, Process, openVars
  <2> QED
    BY <2>1 DEF ReadTurn, NoRead
<1>8. CASE FlushOut \/ KernelSends \/ SendFails \/ PeerSends
  BY <1>8, <1>2 DEF FlushOut, KernelSends, SendFails, PeerSends, openVars, readVars
<1>9. CASE Writes
  BY <1>9, <1>2 DEF Writes, OnWriteFailed, OnWriteAfterClose, OnWriteComplete,
                    openVars, readVars
<1>10. CASE Gone \/ UNCHANGED vars
  BY <1>10, <1>2 DEF Gone, vars
<1> QED
  BY <1>3, <1>4, <1>5, <1>6, <1>7, <1>8, <1>9, <1>10 DEF Next, Opens, SendEnds, Reads

LEMMA TurnInvariance == Spec => []TurnInv
<1>1. Init => TurnInv
  BY DEF Init, TurnInv
<1>2. ASSUME IInv, TurnInv, [Next]_vars
      PROVE  TurnInv'
  BY <1>2, SendsInTurn, ReadsInTurn, TurnsKept
<1> QED
  BY <1>1, <1>2, Invariance, PTL DEF Spec

(* The waits, transfers and reads of a socket take turns, also while it is *)
(* being closed: what HandlerAllocator assumes of the functions of Socket. *)
THEOREM OperationsTakeTurns == Spec => InTurn
<1>1. IInv /\ TurnInv /\ [Next]_vars => [Turn]_vars
  BY SendsInTurn, ReadsInTurn, TurnsKept
<1>2. Spec => [][Turn]_vars
  BY <1>1, Invariance, TurnInvariance, PTL DEF Spec
<1> QED
  BY <1>2 DEF InTurn, Turn

(* A set holds the socket while it is open; if Open threw, for good.       *)
SetInv ==
    /\ opening # "threw" => (registered <=> isOpen)
    /\ opening = "threw" => ~isOpen /\ sendOp = NoSend

(* The step of LeavesWhenClosed. *)
Leave ==
    registered' # registered =>
        /\ opening \notin {"accepted", "threw"}
        /\ isOpen /\ ~isOpen' /\ ~registered'

LEMMA LeftInTurn ==
    ASSUME IInv, TurnInv, SetInv, [Next]_vars
    PROVE  SetInv' /\ Leave
<1>1. /\ opening \in {"accepted", "versionSent", "checked", "done", "threw"}
      /\ isOpen \in BOOLEAN /\ registered \in BOOLEAN
      /\ opening = "accepted" => isOpen /\ sendOp = NoSend
  BY DEF IInv, TypeOK, AcceptInv
<1>2. SendTurn
  BY SendsInTurn
<1>3. opening = "threw" => sendOp' = NoSend \/ isOpen
  BY <1>2 DEF SendTurn, SetInv
<1>4. CASE UNCHANGED openVars
  BY <1>1, <1>3, <1>4 DEF SetInv, Leave, openVars
<1>5. CASE CloseSocket /\ opening' = opening /\ opening \notin {"accepted", "threw"}
  BY <1>1, <1>5 DEF CloseSocket, SetInv, Leave
<1>6. CASE OpenThrows
  BY <1>1, <1>6 DEF OpenThrows, SetInv, Leave, writeVars
<1>7. CASE OpenSendVersion \/ OpenCheck \/ OpenStartRead
  <2>1. /\ UNCHANGED <<isOpen, registered>>
        /\ opening # "threw" /\ opening' # "threw"
    BY <1>7 DEF OpenSendVersion, OpenCheck, OpenStartRead
  <2> QED
    BY <2>1 DEF SetInv, Leave
<1>8. CASE FlushOut \/ KernelSends \/ SendFails \/ PeerSends \/ KernelReads \/ ReadFails
  BY <1>8, <1>4 DEF FlushOut, KernelSends, SendFails, PeerSends, KernelReads, ReadFails
<1>9. CASE Writes
  <2>1. CASE OnWriteFailed
    <3>1. sendOp # NoSend
      BY <2>1 DEF OnWriteFailed, NoSend
    <3>2. opening \notin {"accepted", "threw"}
      BY <3>1, <1>1 DEF SetInv
    <3> QED
      BY <2>1, <3>2, <1>5 DEF OnWriteFailed
  <2>2. CASE OnWriteAfterClose \/ OnWriteComplete
    BY <2>2, <1>4 DEF OnWriteAfterClose, OnWriteComplete
  <2> QED
    BY <1>9, <2>1, <2>2 DEF Writes
<1>10. CASE Reads
  <2>1. readOp # NoRead /\ opening = "done"
    <3>1. readOp.status \in {"failed", "done"}
      BY <1>10 DEF Reads, OnReadFailed, OnReadAfterClose, OnReadGrow, OnReadHandled,
                   OnReadIncomplete, OnReadRejected, Process
    <3> QED
      BY <3>1 DEF NoRead, TurnInv
  <2>2. /\ opening' = opening
        /\ CloseSocket \/ UNCHANGED <<isOpen, registered>>
    BY <1>10 DEF Reads, OnReadFailed, OnReadAfterClose, OnReadGrow, OnReadHandled,
                 OnReadIncomplete, OnReadRejected, Process, openVars
  <2> QED
    BY <2>1, <2>2, <1>4, <1>5 DEF openVars
<1>11. CASE Gone \/ UNCHANGED vars
  BY <1>11, <1>4 DEF Gone, vars, openVars
<1> QED
  BY <1>6, <1>7, <1>8, <1>9, <1>10, <1>11 DEF Next, Opens, SendEnds

(* NetworkThread::mSockets loses a socket at the moment it is closed, once, *)
(* and never before Open has armed the flush timer: what Listener assumes. *)
THEOREM LeavesWhenClosed ==
    Spec => [][registered' # registered =>
                   /\ opening \notin {"accepted", "threw"}
                   /\ isOpen /\ ~isOpen' /\ ~registered']_vars
<1>1. Init => SetInv
  BY DEF Init, SetInv
<1>2. ASSUME IInv, TurnInv, SetInv, [Next]_vars
      PROVE  SetInv' /\ Leave
  BY <1>2, LeftInTurn
<1>3. Spec => []SetInv
  BY <1>1, <1>2, Invariance, TurnInvariance, PTL DEF Spec
<1>4. IInv /\ TurnInv /\ SetInv /\ [Next]_vars => [Leave]_vars
  BY <1>2
<1>5. Spec => [][Leave]_vars
  BY <1>3, <1>4, Invariance, TurnInvariance, PTL DEF Spec
<1> QED
  BY <1>5 DEF Leave
-----------------------------------------------------------------------------
(***************************************************************************)
(* The socket as two streams: InputFIFO, the room a read has, and the      *)
(* refinement of ByteStream by each direction.                             *)
(***************************************************************************)

Unread(b) == SubSeq(b.bytes, b.read + 1, Len(b.bytes))

(* Where the bytes that arrived are, from the handlers to the kernel. *)
Passed == ((consumed \o Unread(inBuf)) \o readOp.bytes) \o kernelIn

InputInv == isOpen => Passed = [i \in 1 .. arrived |-> i]
-----------------------------------------------------------------------------
(* Sequences. *)

(* A slice of a buffer up to its end, in two parts.                        *)
LEMMA SplitSlice ==
    ASSUME NEW s \in Seq(Nat), NEW m \in 0 .. Len(s), NEW k \in m .. Len(s)
    PROVE  /\ SubSeq(s, m + 1, k) \in Seq(Nat)
           /\ SubSeq(s, k + 1, Len(s)) \in Seq(Nat)
           /\ SubSeq(s, m + 1, k) \o SubSeq(s, k + 1, Len(s)) = SubSeq(s, m + 1, Len(s))
<1>1. Len(s) \in Nat
  BY LenProperties
<1>2. m \in Nat /\ k \in Nat /\ k <= Len(s)
  BY <1>1
<1>3. SubSeq(s, m + 1, k) \in Seq(Nat) /\ SubSeq(s, k + 1, Len(s)) \in Seq(Nat)
  BY <1>1, <1>2, CopiedSlice
<1>4. m + 1 \in 1 .. Len(s) + 1 /\ k \in (m + 1) - 1 .. Len(s) /\ Len(s) \in k .. Len(s)
  BY <1>1, <1>2
<1>5. SubSeq(s, m + 1, k) \o SubSeq(s, k + 1, Len(s)) = SubSeq(s, m + 1, Len(s))
  BY <1>4, ConcatAdjacentSubSeq
<1> QED
  BY <1>3, <1>5

(* What follows a position, when more is appended.                         *)
LEMMA SliceOfLonger ==
    ASSUME NEW s \in Seq(Nat), NEW t \in Seq(Nat), NEW m \in 0 .. Len(s)
    PROVE  SubSeq(s \o t, m + 1, Len(s \o t)) = SubSeq(s, m + 1, Len(s)) \o t
<1>1. /\ Len(s) \in Nat /\ Len(t) \in Nat /\ m \in Nat
      /\ s \o t \in Seq(Nat) /\ Len(s \o t) = Len(s) + Len(t)
      /\ \A i \in 1 .. Len(s) + Len(t) : (s \o t)[i] =
             IF i <= Len(s) THEN s[i] ELSE t[i - Len(s)]
  BY LenProperties, ConcatProperties
<1> DEFINE whole == SubSeq(s \o t, m + 1, Len(s \o t))
           first == SubSeq(s, m + 1, Len(s))
<1>2. /\ whole \in Seq(Nat) /\ Len(whole) = Len(s) + Len(t) - m
      /\ \A i \in 1 .. Len(s) + Len(t) - m : whole[i] = (s \o t)[m + i]
  <2>1. \A i \in m + 1 .. Len(s \o t) : (s \o t)[i] \in Nat
    BY <1>1, ElementOfSeq
  <2>2. m + 1 \in Int /\ Len(s \o t) \in Int
    BY <1>1
  <2>3. /\ whole \in Seq(Nat)
        /\ Len(whole) = IF m + 1 <= Len(s \o t) THEN Len(s \o t) - (m + 1) + 1 ELSE 0
        /\ \A i \in 1 .. Len(s \o t) - (m + 1) + 1 : whole[i] = (s \o t)[(m + 1) + i - 1]
    BY <2>1, <2>2, SubSeqProperties
  <2> HIDE DEF whole
  <2>4. Len(whole) = Len(s) + Len(t) - m
    BY <2>3, <1>1
  <2>5. ASSUME NEW i \in 1 .. Len(s) + Len(t) - m PROVE whole[i] = (s \o t)[m + i]
    <3>1. i \in 1 .. Len(s \o t) - (m + 1) + 1 /\ (m + 1) + i - 1 = m + i
      BY <1>1
    <3> QED
      BY <2>3, <3>1
  <2> QED
    BY <2>3, <2>4, <2>5
<1>3. /\ first \in Seq(Nat) /\ Len(first) = Len(s) - m
      /\ \A i \in 1 .. Len(s) - m : first[i] = s[m + i]
  <2>1. \A i \in m + 1 .. Len(s) : s[i] \in Nat
    BY <1>1, ElementOfSeq
  <2>2. /\ first \in Seq(Nat)
        /\ Len(first) = IF m + 1 <= Len(s) THEN Len(s) - (m + 1) + 1 ELSE 0
        /\ \A i \in 1 .. Len(s) - (m + 1) + 1 : first[i] = s[(m + 1) + i - 1]
    BY <1>1, <2>1, SubSeqProperties
  <2> HIDE DEF first
  <2>3. Len(first) = Len(s) - m
    BY <2>2, <1>1
  <2>4. ASSUME NEW i \in 1 .. Len(s) - m PROVE first[i] = s[m + i]
    <3>1. i \in 1 .. Len(s) - (m + 1) + 1 /\ (m + 1) + i - 1 = m + i
      BY <1>1
    <3> QED
      BY <2>2, <3>1
  <2> QED
    BY <2>2, <2>3, <2>4
<1> HIDE DEF whole, first
<1>4. /\ first \o t \in Seq(Nat) /\ Len(first \o t) = Len(s) + Len(t) - m
      /\ \A i \in 1 .. Len(s) + Len(t) - m : (first \o t)[i] =
             IF i <= Len(s) - m THEN first[i] ELSE t[i - (Len(s) - m)]
  <2>1. Len(first) + Len(t) = Len(s) + Len(t) - m
    BY <1>1, <1>3
  <2>2. /\ first \o t \in Seq(Nat) /\ Len(first \o t) = Len(first) + Len(t)
        /\ \A i \in 1 .. Len(first) + Len(t) : (first \o t)[i] =
               IF i <= Len(first) THEN first[i] ELSE t[i - Len(first)]
    BY <1>3, ConcatProperties
  <2> QED
    BY <2>1, <2>2, <1>3
<1>5. \A i \in 1 .. Len(s) + Len(t) - m : whole[i] = (first \o t)[i]
  <2> SUFFICES ASSUME NEW i \in 1 .. Len(s) + Len(t) - m
               PROVE  whole[i] = (first \o t)[i]
    OBVIOUS
  <2>1. m + i \in 1 .. Len(s) + Len(t) /\ i \in Nat /\ (m + i) - Len(s) = i - (Len(s) - m)
    BY <1>1
  <2>2. whole[i] = IF m + i <= Len(s) THEN s[m + i] ELSE t[(m + i) - Len(s)]
    BY <1>1, <1>2, <2>1
  <2>3. CASE m + i <= Len(s)
    BY <1>1, <1>3, <1>4, <2>1, <2>2, <2>3
  <2>4. CASE ~(m + i <= Len(s))
    <3>1. ~(i <= Len(s) - m)
      BY <1>1, <2>1, <2>4
    <3>2. whole[i] = t[i - (Len(s) - m)]
      BY <2>1, <2>2, <2>4
    <3> QED
      BY <1>4, <3>1, <3>2
  <2> QED
    BY <2>3, <2>4
<1>6. whole = first \o t
  BY <1>2, <1>4, <1>5, SeqEqual
<1> QED
  BY <1>6 DEF whole, first

(* A stream of which one more byte is known.                               *)
LEMMA OneMore ==
    ASSUME NEW n \in Nat
    PROVE  /\ [i \in 1 .. n |-> i] \in Seq(Nat)
           /\ Append([i \in 1 .. n |-> i], n + 1) = [i \in 1 .. n + 1 |-> i]
<1> DEFINE some == [i \in 1 .. n |-> i]
           more == [i \in 1 .. n + 1 |-> i]
<1>1. some \in Seq(Nat) /\ Len(some) = n
  <2>1. some \in [1 .. n -> Nat]
    OBVIOUS
  <2> HIDE DEF some
  <2> QED
    BY <2>1, FunctionIsSeq
<1>2. more \in Seq(Nat) /\ Len(more) = n + 1
  <2>1. more \in [1 .. n + 1 -> Nat] /\ n + 1 \in Nat
    OBVIOUS
  <2> HIDE DEF more
  <2> QED
    BY <2>1, FunctionIsSeq
<1>3. /\ \A i \in 1 .. n : some[i] = i
      /\ \A i \in 1 .. n + 1 : more[i] = i
  OBVIOUS
<1> HIDE DEF some, more
<1>4. /\ Append(some, n + 1) \in Seq(Nat) /\ Len(Append(some, n + 1)) = n + 1
      /\ \A i \in 1 .. n : Append(some, n + 1)[i] = i
      /\ Append(some, n + 1)[n + 1] = n + 1
  BY <1>1, <1>3, AppendProperties
<1>5. \A i \in 1 .. n + 1 : Append(some, n + 1)[i] = more[i]
  BY <1>3, <1>4
<1>6. Append(some, n + 1) = more
  BY <1>2, <1>4, <1>5, SeqEqual
<1> QED
  BY <1>1, <1>6 DEF some, more
-----------------------------------------------------------------------------
(* The parts of Passed are sequences, and Unread is what InputFIFO takes.  *)
LEMMA InputParts ==
    ASSUME IInv
    PROVE  /\ consumed \in Seq(Nat) /\ readOp.bytes \in Seq(Nat) /\ kernelIn \in Seq(Nat)
           /\ inBuf.bytes \in Seq(Nat) /\ inBuf.read \in 0 .. Len(inBuf.bytes)
           /\ Unread(inBuf) \in Seq(Nat) /\ arrived \in Nat
           /\ Readable(inBuf, ReadLengthRemaining(inBuf)) = Unread(inBuf)
<1>1. ReadTypes /\ ReadInv
  BY TypeParts DEF IInv
<1>2. /\ consumed \in Seq(Nat) /\ readOp.bytes \in Seq(Nat) /\ kernelIn \in Seq(Nat)
      /\ inBuf.bytes \in Seq(Nat) /\ inBuf.read \in Nat /\ arrived \in Nat
  BY <1>1 DEF ReadTypes, Buffers
<1>3. Len(inBuf.bytes) \in Nat /\ inBuf.read <= Len(inBuf.bytes)
  BY <1>1, <1>2, LenProperties DEF ReadInv
<1>4. inBuf.read + (Len(inBuf.bytes) - inBuf.read) = Len(inBuf.bytes)
  BY <1>2, <1>3
<1>5. Unread(inBuf) \in Seq(Nat)
  BY <1>2, <1>3, CopiedSlice DEF Unread
<1>6. inBuf.read \in 0 .. Len(inBuf.bytes)
  BY <1>2, <1>3
<1>7. Readable(inBuf, ReadLengthRemaining(inBuf)) = Unread(inBuf)
  BY <1>4, Zenon DEF Readable, ReadLengthRemaining, Unread
<1> QED
  BY <1>2, <1>5, <1>6, <1>7

(* InputFIFO speaks of the same bytes.                                     *)
LEMMA InputIsPassed ==
    ASSUME IInv
    PROVE  InputInv <=> InputFIFO
<1>1. /\ consumed \in Seq(Nat) /\ readOp.bytes \in Seq(Nat) /\ kernelIn \in Seq(Nat)
      /\ Unread(inBuf) \in Seq(Nat)
      /\ Readable(inBuf, ReadLengthRemaining(inBuf)) = Unread(inBuf)
  BY InputParts
<1>2. Passed = consumed \o Readable(inBuf, ReadLengthRemaining(inBuf))
                  \o readOp.bytes \o kernelIn
  BY <1>1 DEF Passed
<1> HIDE DEF Passed
<1> QED
  BY <1>2, Zenon DEF InputInv, InputFIFO

(* What OnRead hands to ProcessIncomingData is what was left and what came. *)
LEMMA GotUnread ==
    ASSUME IInv, isOpen
    PROVE  /\ Got.bytes \in Seq(Nat) /\ Got.read \in 0 .. Len(Got.bytes)
           /\ Got.read = inBuf.read /\ Got.size = inBuf.size
           /\ Unread(Got) = Unread(inBuf) \o readOp.bytes
           /\ Unread(Got) \in Seq(Nat)
<1>1. ReadTypes /\ ReadInv
  BY TypeParts DEF IInv
<1>2. /\ Got.bytes \in Seq(Nat) /\ Got.read \in 0 .. Len(Got.bytes)
  BY <1>1, GotBuffer
<1>3. Got = [bytes |-> inBuf.bytes \o readOp.bytes, read |-> inBuf.read,
             size |-> inBuf.size]
  BY <1>1, BufferUpdates DEF Got, Received, ReadTypes
<1>4. Got.bytes = inBuf.bytes \o readOp.bytes /\ Got.read = inBuf.read
      /\ Got.size = inBuf.size
  BY <1>3
<1>5. Unread(Got) = Unread(inBuf) \o readOp.bytes
  BY <1>4, InputParts, SliceOfLonger DEF Unread
<1>6. Unread(Got) \in Seq(Nat)
  BY <1>5, InputParts, ConcatProperties
<1> QED
  BY <1>2, <1>4, <1>5, <1>6

(* ProcessIncomingData takes a part of it, and the rest follows.           *)
LEMMA Taken ==
    ASSUME IInv, isOpen, NEW n \in 0 .. ReadLengthRemaining(Got)
    PROVE  LET rest == SubSeq(Got.bytes, Got.read + n + 1, Len(Got.bytes))
           IN  /\ Readable(Got, n) \in Seq(Nat) /\ rest \in Seq(Nat)
               /\ Unread(Got) = Readable(Got, n) \o rest
<1>1. Got.bytes \in Seq(Nat) /\ Got.read \in 0 .. Len(Got.bytes) /\ Len(Got.bytes) \in Nat
  BY GotUnread, LenProperties
<1> DEFINE rest == SubSeq(Got.bytes, Got.read + n + 1, Len(Got.bytes))
<1>2. n \in Nat /\ Got.read + n \in Got.read .. Len(Got.bytes)
  BY <1>1 DEF ReadLengthRemaining
<1>3. /\ SubSeq(Got.bytes, Got.read + 1, Got.read + n) \in Seq(Nat)
      /\ rest \in Seq(Nat)
      /\ SubSeq(Got.bytes, Got.read + 1, Got.read + n) \o rest
             = SubSeq(Got.bytes, Got.read + 1, Len(Got.bytes))
  BY <1>1, <1>2, SplitSlice
<1> HIDE DEF rest
<1>4. Readable(Got, n) \in Seq(Nat) /\ rest \in Seq(Nat)
      /\ Unread(Got) = Readable(Got, n) \o rest
  BY <1>3 DEF Readable, Unread
<1> QED
  BY <1>4 DEF rest

(* Joining sequences in another order.                                     *)
LEMMA Joined ==
    ASSUME NEW a \in Seq(Nat), NEW b \in Seq(Nat), NEW c \in Seq(Nat)
    PROVE  /\ (a \o b) \o c = a \o (b \o c)
           /\ a \o b \in Seq(Nat) /\ b \o c \in Seq(Nat)
           /\ a \o <<>> = a
<1>1. (a \o b) \o c = a \o (b \o c)
  BY ConcatAssociative
<1>2. a \o b \in Seq(Nat) /\ b \o c \in Seq(Nat)
  BY ConcatProperties
<1>3. a \o <<>> = a
  BY ConcatEmptySeq
<1> QED
  BY <1>1, <1>2, <1>3

LEMMA Regrouped ==
    \A a, b, c \in Seq(Nat) : (a \o b) \o c = a \o (b \o c)
<1> TAKE a, b, c \in Seq(Nat)
<1> QED
  BY Joined
-----------------------------------------------------------------------------
(* A byte reaches the kernel.                                              *)
LEMMA PeerSendsKeeps ==
    ASSUME IInv, InputInv, PeerSends
    PROVE  InputInv'
<1> DEFINE before == (consumed \o Unread(inBuf)) \o readOp.bytes
<1>1. /\ isOpen /\ isOpen' = isOpen /\ arrived' = arrived + 1
      /\ kernelIn' = Append(kernelIn, arrived + 1)
      /\ UNCHANGED <<inBuf, readOp, consumed>>
  BY DEF PeerSends, openVars
<1>2. before \in Seq(Nat) /\ kernelIn \in Seq(Nat) /\ arrived + 1 \in Nat
  BY InputParts, ConcatProperties
<1>3. Passed' = before \o Append(kernelIn, arrived + 1)
  BY <1>1 DEF Passed, Unread
<1>4. Passed = before \o kernelIn /\ before \o kernelIn \in Seq(Nat)
  BY <1>2, ConcatProperties DEF Passed
<1> HIDE DEF before, Passed
<1>5. before \o Append(kernelIn, arrived + 1) = Append(before \o kernelIn, arrived + 1)
  <2>1. /\ Append(kernelIn, arrived + 1) = kernelIn \o <<arrived + 1>>
        /\ Append(before \o kernelIn, arrived + 1) = (before \o kernelIn) \o <<arrived + 1>>
    BY <1>2, <1>4, AppendIsConcat
  <2>2. <<arrived + 1>> \in Seq(Nat)
    BY <1>2
  <2> QED
    BY <1>2, <2>1, <2>2, Joined
<1>6. Passed = [i \in 1 .. arrived |-> i]
  BY <1>1 DEF InputInv
<1>7. Append([i \in 1 .. arrived |-> i], arrived + 1) = [i \in 1 .. arrived + 1 |-> i]
  BY InputParts, OneMore
<1>8. Passed' = [i \in 1 .. arrived + 1 |-> i]
  BY <1>3, <1>4, <1>5, <1>6, <1>7
<1> QED
  BY <1>1, <1>8 DEF InputInv

(* The kernel delivers what it has, up to a point, and keeps the rest.     *)
LEMMA KernelReadsKeeps ==
    ASSUME IInv, InputInv, KernelReads
    PROVE  InputInv'
<1> DEFINE n == IF Window < Len(kernelIn) THEN Window ELSE Len(kernelIn)
           taken == SubSeq(kernelIn, 1, n)
           rest  == SubSeq(kernelIn, n + 1, Len(kernelIn))
           before == consumed \o Unread(inBuf)
<1>1. /\ isOpen /\ isOpen' = isOpen /\ readOp.status = "pending"
      /\ readOp' = [status |-> "done", bytes |-> taken] /\ kernelIn' = rest
      /\ UNCHANGED <<inBuf, arrived, consumed>>
  BY DEF KernelReads, openVars
<1>2. readOp.bytes = <<>> /\ Len(inBuf.bytes) <= inBuf.size
      /\ Len(inBuf.bytes) \in Nat /\ inBuf.size \in Nat /\ Len(kernelIn) \in Nat
  <2>1. ReadTypes /\ ReadInv
    BY TypeParts DEF IInv
  <2>2. readOp.bytes = <<>> /\ Len(inBuf.bytes) + Len(readOp.bytes) <= inBuf.size
    BY <1>1, <2>1 DEF ReadInv
  <2>3. Len(inBuf.bytes) \in Nat /\ inBuf.size \in Nat /\ Len(kernelIn) \in Nat
    BY <2>1, LenProperties DEF ReadTypes, Buffers
  <2> QED
    BY <2>2, <2>3
<1>3. n \in 0 .. Len(kernelIn)
  BY <1>2 DEF Window
<1> HIDE DEF n
<1>4. taken \in Seq(Nat) /\ rest \in Seq(Nat) /\ taken \o rest = kernelIn
  <2>1. kernelIn \in Seq(Nat) /\ 0 \in 0 .. Len(kernelIn) /\ SubSeq(kernelIn, 1, Len(kernelIn)) = kernelIn
    BY InputParts, <1>2, SubSeqFull
  <2>2. SubSeq(kernelIn, 0 + 1, n) \in Seq(Nat) /\ rest \in Seq(Nat)
        /\ SubSeq(kernelIn, 0 + 1, n) \o rest = SubSeq(kernelIn, 0 + 1, Len(kernelIn))
    BY <1>3, <2>1, SplitSlice
  <2>3. 0 + 1 = 1
    OBVIOUS
  <2> QED
    BY <2>1, <2>2, <2>3, Zenon
<1> HIDE DEF taken, rest
<1>5. before \in Seq(Nat)
  BY InputParts, ConcatProperties
<1>6. Passed' = (before \o taken) \o rest
  BY <1>1 DEF Passed, Unread
<1>7. Passed = before \o kernelIn
  <2>1. before \o <<>> = before
    BY <1>5, ConcatEmptySeq
  <2> QED
    BY <1>2, <2>1 DEF Passed
<1> HIDE DEF before, Passed
<1>8. Passed' = Passed
  <2>1. (before \o taken) \o rest = before \o (taken \o rest)
    BY <1>4, <1>5, Regrouped, Zenon
  <2> QED
    BY <2>1, <1>4, <1>6, <1>7, Zenon
<1> QED
  BY <1>1, <1>8 DEF InputInv

(* What came is put behind what is left, and room is made.                 *)
LEMMA OnReadGrowKeeps ==
    ASSUME IInv, InputInv, OnReadGrow
    PROVE  InputInv'
<1>1. /\ isOpen /\ isOpen' = isOpen
      /\ inBuf' = [Got EXCEPT !.size = @ + Len(kernelIn)]
      /\ readOp' = AsyncRead /\ UNCHANGED <<kernelIn, arrived, consumed>>
  BY DEF OnReadGrow, openVars, StartAsyncRead
<1>2. inBuf'.bytes = Got.bytes /\ inBuf'.read = Got.read /\ readOp'.bytes = <<>>
  <2>1. Got \in Buffers(Nat)
    BY <1>1, TypeParts, GotBuffer DEF IInv
  <2> QED
    BY <1>1, <2>1, BufferUpdates DEF AsyncRead
<1>3. Unread(inBuf)' = Unread(inBuf) \o readOp.bytes
  BY <1>1, <1>2, GotUnread DEF Unread
<1>4. Passed' = ((consumed \o (Unread(inBuf) \o readOp.bytes)) \o <<>>) \o kernelIn
  BY <1>1, <1>2, <1>3 DEF Passed
<1>5. /\ consumed \in Seq(Nat) /\ Unread(inBuf) \in Seq(Nat) /\ readOp.bytes \in Seq(Nat)
  BY InputParts
<1>6. /\ consumed \o (Unread(inBuf) \o readOp.bytes) \in Seq(Nat)
      /\ consumed \o (Unread(inBuf) \o readOp.bytes)
             = (consumed \o Unread(inBuf)) \o readOp.bytes
  <2>1. Unread(inBuf) \o readOp.bytes \in Seq(Nat)
    BY <1>5, Joined, Zenon
  <2>2. consumed \o (Unread(inBuf) \o readOp.bytes) \in Seq(Nat)
    BY <1>5, <2>1, Joined, Zenon
  <2>3. (consumed \o Unread(inBuf)) \o readOp.bytes
            = consumed \o (Unread(inBuf) \o readOp.bytes)
    BY <1>5, Regrouped, Zenon
  <2> QED
    BY <2>2, <2>3, Zenon
<1>7. Passed' = Passed
  BY <1>4, <1>6, ConcatEmptySeq DEF Passed
<1> QED
  BY <1>1, <1>7 DEF InputInv

(* ProcessIncomingData reads n bytes, and the others are kept.             *)
LEMMA ProcessKeeps ==
    ASSUME IInv, InputInv, NEW outcome, NEW n \in 0 .. ReadLengthRemaining(Got),
           Process(outcome, n), readOp'.bytes = <<>>,
           Unread(inBuf)' = SubSeq(Got.bytes, Got.read + n + 1, Len(Got.bytes))
    PROVE  InputInv'
<1> DEFINE rest == SubSeq(Got.bytes, Got.read + n + 1, Len(Got.bytes))
<1>1. /\ isOpen /\ consumed' = consumed \o Readable(Got, n)
      /\ UNCHANGED <<kernelIn, arrived>>
  BY DEF Process
<1>2. Readable(Got, n) \in Seq(Nat) /\ rest \in Seq(Nat)
      /\ Unread(inBuf) \o readOp.bytes = Readable(Got, n) \o rest
  BY <1>1, Taken, GotUnread
<1>3. Unread(inBuf)' = rest
  OBVIOUS
<1> HIDE DEF rest
<1>4. Passed' = (((consumed \o Readable(Got, n)) \o rest) \o <<>>) \o kernelIn
  BY <1>1, <1>3 DEF Passed
<1>5. /\ consumed \in Seq(Nat) /\ Unread(inBuf) \in Seq(Nat) /\ readOp.bytes \in Seq(Nat)
  BY InputParts
<1>6. (consumed \o Readable(Got, n)) \o rest = (consumed \o Unread(inBuf)) \o readOp.bytes
  <2>1. (consumed \o Readable(Got, n)) \o rest = consumed \o (Readable(Got, n) \o rest)
    BY <1>2, <1>5, Regrouped, Zenon
  <2>2. (consumed \o Unread(inBuf)) \o readOp.bytes
            = consumed \o (Unread(inBuf) \o readOp.bytes)
    BY <1>5, Regrouped, Zenon
  <2> QED
    BY <1>2, <2>1, <2>2, Zenon
<1>7. (consumed \o Unread(inBuf)) \o readOp.bytes \in Seq(Nat)
  BY <1>5, ConcatProperties
<1>8. Passed' = Passed
  BY <1>4, <1>6, <1>7, ConcatEmptySeq DEF Passed
<1> QED
  BY <1>1, <1>8 DEF InputInv

(* ProcessIncomingData returns true: it has read everything.               *)
LEMMA OnReadHandledKeeps ==
    ASSUME IInv, InputInv, OnReadHandled
    PROVE  InputInv'
<1> DEFINE n == ReadLengthRemaining(Got)
<1>1. /\ isOpen /\ Process("true", n) /\ inBuf' = Emptied(Got)
      /\ readOp' = IF isOpen' THEN AsyncRead ELSE NoRead
  BY DEF OnReadHandled, Process, StartAsyncRead
<1>2. /\ Got.bytes \in Seq(Nat) /\ Got.read \in 0 .. Len(Got.bytes)
      /\ Len(Got.bytes) \in Nat
  BY <1>1, GotUnread, LenProperties
<1>3. n \in 0 .. n /\ Got.read + n = Len(Got.bytes)
  BY <1>2 DEF ReadLengthRemaining
<1>4. readOp'.bytes = <<>>
  BY <1>1 DEF AsyncRead, NoRead
<1>5. inBuf'.bytes = <<>> /\ inBuf'.read = 0
  BY <1>1 DEF Emptied
<1> HIDE DEF n
<1>6. Unread(inBuf)' = <<>>
  <2>1. SubSeq(<<>>, 0 + 1, Len(<<>>)) = <<>>
    OBVIOUS
  <2> QED
    BY <1>5, <2>1 DEF Unread
<1>7. SubSeq(Got.bytes, Got.read + n + 1, Len(Got.bytes)) = <<>>
  <2>1. SubSeq(Got.bytes, Len(Got.bytes) + 1, Len(Got.bytes)) = <<>>
    BY <1>2, SubSeqEmpty
  <2> QED
    BY <1>3, <2>1
<1> QED
  BY <1>1, <1>3, <1>4, <1>6, <1>7, ProcessKeeps DEF n

(* It returns false with EBADMSG: the rest is moved to the front.          *)
LEMMA OnReadIncompleteKeeps ==
    ASSUME IInv, InputInv, OnReadIncomplete
    PROVE  InputInv'
<1>1. PICK n \in 0 .. ReadLengthRemaining(Got) :
         /\ Process("badmsg", n) /\ inBuf' = Compacted(BufferRead(Got, n))
         /\ readOp' = IF isOpen' THEN AsyncRead ELSE NoRead
  BY DEF OnReadIncomplete, StartAsyncRead
<1>2. isOpen /\ Got \in Buffers(Nat)
  BY <1>1, TypeParts, GotBuffer DEF IInv, Process
<1> DEFINE kept == SubSeq(Got.bytes, Got.read + n + 1, Len(Got.bytes))
<1>3. inBuf'.bytes = kept /\ inBuf'.read = 0
  <2>1. BufferRead(Got, n) = [bytes |-> Got.bytes, read |-> Got.read + n,
                              size |-> Got.size]
    BY <1>2, BufferUpdates DEF BufferRead
  <2>2. /\ BufferRead(Got, n).bytes = Got.bytes
        /\ BufferRead(Got, n).read = Got.read + n
    BY <2>1
  <2>3. /\ inBuf'.bytes = SubSeq(BufferRead(Got, n).bytes,
                                 BufferRead(Got, n).read + 1,
                                 Len(BufferRead(Got, n).bytes))
        /\ inBuf'.read = 0
    BY <1>1 DEF Compacted
  <2> QED
    BY <2>2, <2>3, Zenon
<1>4. kept \in Seq(Nat)
  BY <1>1, <1>2, Taken
<1> HIDE DEF kept
<1>5. Unread(inBuf)' = kept
  <2>1. SubSeq(kept, 1, Len(kept)) = kept
    BY <1>4, SubSeqFull
  <2> QED
    BY <1>3, <2>1 DEF Unread
<1>6. readOp'.bytes = <<>>
  BY <1>1 DEF AsyncRead, NoRead
<1> QED
  BY <1>1, <1>5, <1>6, ProcessKeeps DEF kept

(* A step that leaves the bytes where they are.                            *)
LEMMA InputKept ==
    ASSUME InputInv, isOpen' => isOpen,
           UNCHANGED <<inBuf, readOp.bytes, kernelIn, arrived, consumed>>
    PROVE  InputInv'
  BY DEF InputInv, Passed, Unread

(* Init, and every step.                                                   *)
LEMMA InputInit == Init => InputInv
<1> SUFFICES ASSUME Init PROVE InputInv
  OBVIOUS
<1>1. /\ consumed = <<>> /\ kernelIn = <<>> /\ arrived = 0
      /\ inBuf.bytes = <<>> /\ inBuf.read = 0 /\ readOp.bytes = <<>>
  BY DEF Init, NewBuffer, NoRead
<1>2. Unread(inBuf) = <<>>
  BY <1>1 DEF Unread
<1>3. Passed = <<>>
  BY <1>1, <1>2 DEF Passed
<1> QED
  BY <1>1, <1>3 DEF InputInv

LEMMA InputNext ==
    ASSUME IInv, InputInv, [Next]_vars
    PROVE  InputInv'
<1>1. CASE UNCHANGED vars
  BY <1>1, InputKept DEF vars
<1>2. CASE OpenThrows \/ OnWriteFailed \/ OnReadFailed \/ OnReadRejected
  BY <1>2 DEF OpenThrows, OnWriteFailed, OnReadFailed, OnReadRejected, CloseSocket,
              InputInv
<1>3. CASE OpenSendVersion \/ OpenCheck \/ FlushOut \/ KernelSends \/ SendFails
           \/ OnWriteAfterClose \/ OnWriteComplete
  <2>1. ASSUME isOpen' = isOpen,
               UNCHANGED <<inBuf, readOp, kernelIn, arrived, consumed>>
        PROVE  InputInv'
    BY <2>1, InputKept
  <2>2. CASE OpenSendVersion \/ OpenCheck
    BY <2>1, <2>2 DEF OpenSendVersion, OpenCheck, readVars
  <2>3. CASE FlushOut \/ OnWriteAfterClose
    BY <2>1, <2>3 DEF FlushOut, OnWriteAfterClose, openVars, readVars
  <2>4. CASE KernelSends
    BY <2>1, <2>4, Zenon DEF KernelSends, openVars, readVars
  <2>5. CASE SendFails
    BY <2>1, <2>5, Zenon DEF SendFails, openVars, readVars
  <2>6. CASE OnWriteComplete
    BY <2>1, <2>6, Zenon DEF OnWriteComplete, openVars, readVars
  <2> QED
    BY <1>3, <2>2, <2>3, <2>4, <2>5, <2>6
<1>4. CASE OpenStartRead
  <2>1. /\ isOpen' = isOpen /\ opening # "done" /\ readOp'.bytes = <<>>
        /\ UNCHANGED <<inBuf, kernelIn, arrived, consumed>>
    BY <1>4 DEF OpenStartRead, AsyncRead
  <2>2. CASE isOpen
    BY <2>1, <2>2, InputKept DEF IInv, ReadInv, NoRead
  <2> QED
    BY <2>1, <2>2 DEF InputInv
<1>5. CASE ReadFails
  <2>1. readOp'.bytes = readOp.bytes
    BY <1>5, TypeParts DEF ReadFails, IInv, ReadTypes
  <2> QED
    BY <1>5, <2>1, InputKept DEF ReadFails, openVars
<1>6. CASE OnReadAfterClose
  BY <1>6 DEF OnReadAfterClose, openVars, InputInv
<1>7. CASE PeerSends \/ KernelReads \/ OnReadGrow \/ OnReadHandled \/ OnReadIncomplete
  BY <1>7, PeerSendsKeeps, KernelReadsKeeps, OnReadGrowKeeps, OnReadHandledKeeps,
     OnReadIncompleteKeeps
<1>8. CASE Gone
  BY <1>8, <1>1 DEF Gone
<1> QED
  BY <1>1, <1>2, <1>3, <1>4, <1>5, <1>6, <1>7, <1>8
     DEF Next, Opens, SendEnds, Writes, Reads

(* Passed is the stream that arrived, while the socket is open.            *)
THEOREM InputInvariance == Spec => []InputInv
<1>1. Init => InputInv
  BY InputInit
<1>2. IInv /\ InputInv /\ [Next]_vars => InputInv'
  BY InputNext
<1> QED
  BY <1>1, <1>2, Invariance, PTL DEF Spec

(* No byte is lost, repeated or reordered between the kernel and           *)
(* ProcessIncomingData, however the peer's bytes are cut into reads, the   *)
(* buffer grows and packets are left incomplete.                           *)
THEOREM InputIsFIFO == Spec => []InputFIFO
<1>1. Spec => []InputInv
  BY InputInvariance
<1>2. IInv /\ InputInv => InputFIFO
  BY InputIsPassed
<1> QED
  BY <1>1, <1>2, Invariance, PTL
-----------------------------------------------------------------------------
(* The room a read has. *)

(* Until Open has started the first read nothing is in the buffer.         *)
RoomInv ==
    /\ inBuf.size > 0
    /\ opening # "done" => inBuf.bytes = <<>> /\ readOp = NoRead
    /\ ReadHasRoom

LEMMA RoomInit == Init => RoomInv
<1> SUFFICES ASSUME Init PROVE RoomInv
  OBVIOUS
<1>1. inBuf.size = StorageSize /\ inBuf.bytes = <<>> /\ readOp = NoRead
  BY DEF Init, NewBuffer
<1>2. readOp.status = "none"
  BY <1>1 DEF NoRead
<1> QED
  BY <1>1, <1>2, SocketAssumption DEF RoomInv, ReadHasRoom

LEMMA RoomKept ==
    ASSUME RoomInv, UNCHANGED inBuf,
           readOp'.status = "pending" => readOp.status = "pending",
           opening' # "done" => opening # "done" /\ readOp' = readOp
    PROVE  RoomInv'
  BY DEF RoomInv, ReadHasRoom, Window

(* A handler of OnRead that keeps room for the read it starts.             *)
LEMMA RoomMade ==
    ASSUME NEW b \in Buffers(Nat), inBuf' = b, Len(b.bytes) < b.size,
           opening' = "done"
    PROVE  RoomInv'
<1>1. b.size \in Nat /\ Len(b.bytes) \in Nat
  BY LenProperties DEF Buffers
<1>2. inBuf'.size > 0 /\ inBuf'.size - Len(inBuf'.bytes) > 0
  BY <1>1
<1> QED
  BY <1>2 DEF RoomInv, ReadHasRoom, Window

LEMMA RoomGrow ==
    ASSUME IInv, RoomInv, OnReadGrow
    PROVE  RoomInv'
<1>1. /\ isOpen /\ readOp.status = "done" /\ kernelIn # <<>>
      /\ inBuf' = [Got EXCEPT !.size = @ + Len(kernelIn)]
      /\ opening' = opening
  BY DEF OnReadGrow, MoreToRead, openVars
<1>2. ReadTypes /\ ReadInv
  BY TypeParts DEF IInv
<1>3. /\ Got \in Buffers(Nat) /\ Got.size \in Nat /\ Len(Got.bytes) \in Nat
      /\ Got.bytes \in Seq(Nat) /\ Got.read \in Nat /\ Len(Got.bytes) <= Got.size
  BY <1>1, <1>2, GotBuffer
<1>4. Len(kernelIn) \in Nat /\ Len(kernelIn) > 0
  BY <1>1, InputParts, LenProperties, EmptySeq
<1> DEFINE b == [bytes |-> Got.bytes, read |-> Got.read,
                 size |-> Got.size + Len(kernelIn)]
<1>5. inBuf' = b
  BY <1>1, <1>3, BufferUpdates
<1>6. b \in Buffers(Nat) /\ b.bytes = Got.bytes /\ b.size = Got.size + Len(kernelIn)
  BY <1>3, <1>4 DEF Buffers
<1> HIDE DEF b
<1>7. Len(b.bytes) < b.size
  BY <1>3, <1>4, <1>6
<1>8. opening = "done"
  BY <1>1 DEF RoomInv, NoRead
<1> QED
  BY <1>1, <1>5, <1>6, <1>7, <1>8, RoomMade

LEMMA RoomHandled ==
    ASSUME IInv, RoomInv, OnReadHandled
    PROVE  RoomInv'
<1>1. /\ isOpen /\ readOp.status = "done" /\ inBuf' = Emptied(Got)
      /\ opening' = opening
  BY DEF OnReadHandled, Process
<1>2. Got.size = inBuf.size /\ Got.size \in Nat
  BY <1>1, GotBuffer, TypeParts DEF IInv
<1>3. /\ Emptied(Got) \in Buffers(Nat) /\ Emptied(Got).bytes = <<>>
      /\ Emptied(Got).size = Got.size
  BY <1>2, EmptySeq DEF Emptied, Buffers
<1>4. Len(Emptied(Got).bytes) < Emptied(Got).size
  BY <1>2, <1>3 DEF RoomInv
<1>5. opening = "done"
  BY <1>1 DEF RoomInv, NoRead
<1> QED
  BY <1>1, <1>3, <1>4, <1>5, RoomMade

LEMMA RoomRejected ==
    ASSUME IInv, RoomInv, OnReadRejected
    PROVE  RoomInv'
<1>1. PICK n \in 0 .. ReadLengthRemaining(Got) :
         /\ Process("false", n)
         /\ inBuf' = BufferRead(Got, n) /\ readOp' = NoRead
  BY DEF OnReadRejected
<1>2. isOpen /\ readOp.status = "done" /\ opening' = opening
  BY <1>1 DEF Process
<1>3. Got \in Buffers(Nat) /\ Got.size = inBuf.size
  BY <1>2, GotBuffer, TypeParts DEF IInv
<1>4. inBuf'.size = inBuf.size
  BY <1>1, <1>3, BufferUpdates DEF BufferRead
<1>5. opening = "done"
  BY <1>2 DEF RoomInv, NoRead
<1> QED
  BY <1>1, <1>2, <1>4, <1>5 DEF RoomInv, ReadHasRoom, NoRead

LEMMA RoomNext ==
    ASSUME "badmsg" \notin Outcomes, IInv, RoomInv, [Next]_vars
    PROVE  RoomInv'
<1>1. CASE UNCHANGED vars
  BY <1>1, RoomKept DEF vars
<1>2. CASE OpenThrows \/ OpenSendVersion \/ OpenCheck
  BY <1>2, RoomKept DEF OpenThrows, OpenSendVersion, OpenCheck, readVars
<1>3. CASE OpenStartRead
  <2>1. /\ inBuf' = inBuf /\ inBuf.bytes = <<>> /\ opening' = "done"
    BY <1>3 DEF OpenStartRead, RoomInv
  <2>2. inBuf \in Buffers(Nat) /\ Len(inBuf.bytes) < inBuf.size
    BY <2>1, TypeParts DEF IInv, ReadTypes, RoomInv
  <2> QED
    BY <2>1, <2>2, RoomMade
<1>4. ASSUME UNCHANGED <<opening, inBuf, readOp>> PROVE RoomInv'
  BY <1>4, RoomKept
<1>5. CASE FlushOut \/ OnWriteAfterClose
  BY <1>4, <1>5 DEF FlushOut, OnWriteAfterClose, openVars, readVars
<1>6. CASE KernelSends
  BY <1>4, <1>6, Zenon DEF KernelSends, openVars, readVars
<1>7. CASE SendFails
  BY <1>4, <1>7, Zenon DEF SendFails, openVars, readVars
<1>8. CASE OnWriteComplete
  BY <1>4, <1>8, Zenon DEF OnWriteComplete, openVars, readVars
<1>9. CASE OnWriteFailed
  BY <1>4, <1>9 DEF OnWriteFailed, readVars
<1>10. CASE PeerSends
  BY <1>4, <1>10 DEF PeerSends, openVars
<1>11. ASSUME UNCHANGED <<opening, inBuf>>, readOp.status # "none",
              readOp'.status # "pending"
       PROVE  RoomInv'
  BY <1>11, RoomKept DEF RoomInv, NoRead
<1>12. CASE KernelReads
  BY <1>11, <1>12 DEF KernelReads, openVars
<1>13. CASE ReadFails
  <2>1. readOp'.status = "failed"
    BY <1>13, TypeParts DEF ReadFails, IInv, ReadTypes
  <2> QED
    BY <1>11, <1>13, <2>1 DEF ReadFails, openVars
<1>14. CASE OnReadFailed \/ OnReadAfterClose
  BY <1>11, <1>14 DEF OnReadFailed, OnReadAfterClose, openVars, NoRead
<1>15. CASE OnReadGrow \/ OnReadHandled \/ OnReadRejected
  BY <1>15, RoomGrow, RoomHandled, RoomRejected
<1>16. CASE OnReadIncomplete
  BY <1>16 DEF OnReadIncomplete, Process
<1>17. CASE Gone
  BY <1>1, <1>17 DEF Gone
<1> QED
  BY <1>1, <1>2, <1>3, <1>5, <1>6, <1>7, <1>8, <1>9, <1>10, <1>12, <1>13, <1>14,
     <1>15, <1>16, <1>17
     DEF Next, Opens, SendEnds, Writes, Reads

(* A ProcessIncomingData that never asks for the rest of a packet, as that *)
(* of AuthSocket, never leaves a read without room.                        *)
THEOREM ReadsHaveRoom ==
    ASSUME "badmsg" \notin Outcomes
    PROVE  Spec => []ReadHasRoom
<1>1. Init => RoomInv
  BY RoomInit
<1>2. IInv /\ RoomInv /\ [Next]_vars => RoomInv'
  BY RoomNext
<1>3. RoomInv => ReadHasRoom
  BY DEF RoomInv
<1> QED
  BY <1>1, <1>2, <1>3, Invariance, PTL DEF Spec
-----------------------------------------------------------------------------
(* The receiving direction is a ByteStream. *)

LEMMA PrefixOfStream ==
    ASSUME NEW a \in Seq(Nat), NEW b \in Seq(Nat), NEW n \in Nat,
           a \o b = [i \in 1 .. n |-> i]
    PROVE  Len(a) \in Nat /\ Len(a) <= n /\ a = [i \in 1 .. Len(a) |-> i]
<1> DEFINE whole == [i \in 1 .. n |-> i]
           part  == [i \in 1 .. Len(a) |-> i]
<1>1. Len(a) \in Nat /\ Len(b) \in Nat
  BY LenProperties
<1>2. /\ Len(a \o b) = Len(a) + Len(b)
      /\ \A i \in 1 .. Len(a) + Len(b) :
             (a \o b)[i] = IF i <= Len(a) THEN a[i] ELSE b[i - Len(a)]
  BY ConcatProperties
<1>3. Len(whole) = n /\ \A i \in 1 .. n : whole[i] = i
  <2>1. whole \in [1 .. n -> Nat] /\ \A i \in 1 .. n : whole[i] = i
    OBVIOUS
  <2> HIDE DEF whole
  <2> QED
    BY <2>1, FunctionIsSeq
<1>4. /\ part \in Seq(Nat) /\ Len(part) = Len(a)
      /\ \A i \in 1 .. Len(a) : part[i] = i
  <2>1. part \in [1 .. Len(a) -> Nat] /\ \A i \in 1 .. Len(a) : part[i] = i
    BY <1>1
  <2> HIDE DEF part
  <2> QED
    BY <1>1, <2>1, FunctionIsSeq
<1>5. a \o b = whole
  OBVIOUS
<1> HIDE DEF whole, part
<1>6. Len(a) + Len(b) = n
  BY <1>2, <1>3, <1>5
<1>7. ASSUME NEW i \in 1 .. Len(a) PROVE a[i] = part[i]
  <2>1. i \in 1 .. Len(a) + Len(b) /\ i <= Len(a) /\ i \in 1 .. n
    BY <1>1, <1>6
  <2> QED
    BY <1>2, <1>3, <1>4, <1>5, <2>1
<1>8. a = part
  BY <1>4, <1>7, SeqEqual
<1>9. Len(a) <= n
  BY <1>1, <1>6
<1> QED
  BY <1>1, <1>8, <1>9 DEF part

(* What ProcessIncomingData has read by the end is a prefix of the stream. *)
LEMMA ConsumedIsPrefix ==
    ASSUME IInv, InputInv, NEW outcome, NEW n \in 0 .. ReadLengthRemaining(Got),
           Process(outcome, n)
    PROVE  /\ Len(consumed') \in Nat /\ Len(consumed') <= arrived
           /\ consumed' = [i \in 1 .. Len(consumed') |-> i]
<1> DEFINE rest == SubSeq(Got.bytes, Got.read + n + 1, Len(Got.bytes))
           read == consumed \o Readable(Got, n)
<1>1. isOpen /\ consumed' = read
  BY DEF Process
<1>2. Readable(Got, n) \in Seq(Nat) /\ rest \in Seq(Nat)
      /\ Unread(inBuf) \o readOp.bytes = Readable(Got, n) \o rest
  BY <1>1, Taken, GotUnread
<1> HIDE DEF rest
<1>3. /\ consumed \in Seq(Nat) /\ Unread(inBuf) \in Seq(Nat)
      /\ readOp.bytes \in Seq(Nat) /\ kernelIn \in Seq(Nat) /\ arrived \in Nat
  BY InputParts
<1>4. (consumed \o Unread(inBuf)) \o readOp.bytes = read \o rest
  <2>1. read \o rest = consumed \o (Readable(Got, n) \o rest)
    BY <1>2, <1>3, Regrouped, Zenon
  <2>2. (consumed \o Unread(inBuf)) \o readOp.bytes
            = consumed \o (Unread(inBuf) \o readOp.bytes)
    BY <1>3, Regrouped, Zenon
  <2> QED
    BY <1>2, <2>1, <2>2, Zenon
<1>5. read \in Seq(Nat) /\ rest \o kernelIn \in Seq(Nat)
  BY <1>2, <1>3, ConcatProperties
<1> HIDE DEF read
<1>6. read \o (rest \o kernelIn) = [i \in 1 .. arrived |-> i]
  <2>1. (read \o rest) \o kernelIn = read \o (rest \o kernelIn)
    <3>1. read \in Seq(Nat) /\ rest \in Seq(Nat) /\ kernelIn \in Seq(Nat)
      BY <1>2, <1>3, <1>5
    <3> QED
      BY <3>1, Joined
  <2>2. Passed = (read \o rest) \o kernelIn
    BY <1>4 DEF Passed
  <2> QED
    BY <1>1, <2>1, <2>2 DEF InputInv
<1>7. Len(read) \in Nat /\ Len(read) <= arrived /\ read = [i \in 1 .. Len(read) |-> i]
  BY <1>3, <1>5, <1>6, PrefixOfStream
<1> QED
  BY <1>1, <1>7

(* ProcessIncomingData delivers, or reads nothing; it may close.           *)
LEMMA ProcessDelivers ==
    ASSUME IInv, InputInv, NEW outcome, NEW n \in 0 .. ReadLengthRemaining(Got),
           Process(outcome, n), isOpen' \in BOOLEAN
    PROVE  Incoming!Next \/ UNCHANGED <<arrived, consumed, isOpen>>
<1>1. /\ isOpen = TRUE /\ arrived' = arrived
      /\ consumed' = consumed \o Readable(Got, n)
  BY TypeParts DEF Process, IInv, OpenTypes
<1>2. consumed \in Seq(Nat) /\ Readable(Got, n) \in Seq(Nat) /\ arrived \in Nat
  BY <1>1, InputParts, Taken
<1>3. CASE Readable(Got, n) = <<>>
  <2>1. consumed' = consumed
    BY <1>1, <1>2, <1>3, ConcatEmptySeq
  <2>2. CASE isOpen' = TRUE
    BY <1>1, <2>1, <2>2
  <2>3. CASE isOpen' = FALSE
    BY <1>1, <2>1, <2>3 DEF Incoming!Next, Incoming!Close
  <2> QED
    BY <2>2, <2>3
<1>4. CASE Readable(Got, n) # <<>>
  <2>1. /\ Len(consumed) \in Nat /\ Len(Readable(Got, n)) \in Nat \ {0}
        /\ Len(consumed') = Len(consumed) + Len(Readable(Got, n))
    BY <1>1, <1>2, <1>4, ConcatProperties, LenProperties, EmptySeq
  <2>2. /\ Len(consumed') \in Nat /\ Len(consumed') <= arrived
        /\ consumed' = [i \in 1 .. Len(consumed') |-> i]
    BY ConsumedIsPrefix
  <2>3. Len(consumed') \in Len(consumed) + 1 .. arrived
    BY <1>2, <2>1, <2>2
  <2>4. Incoming!Deliver
    BY <1>1, <2>2, <2>3 DEF Incoming!Deliver
  <2> QED
    BY <2>4 DEF Incoming!Next
<1> QED
  BY <1>3, <1>4

LEMMA IncomingNext ==
    ASSUME IInv, InputInv, [Next]_vars
    PROVE  Incoming!Next \/ UNCHANGED <<arrived, consumed, isOpen>>
<1>1. isOpen \in BOOLEAN /\ arrived \in Nat
  BY TypeParts DEF IInv, OpenTypes, ReadTypes
<1>2. CASE UNCHANGED vars
  BY <1>2 DEF vars
<1>3. CASE OpenThrows \/ OnWriteFailed \/ OnReadFailed
  <2>1. isOpen' = FALSE /\ UNCHANGED <<arrived, consumed>>
    BY <1>3 DEF OpenThrows, OnWriteFailed, OnReadFailed, CloseSocket, readVars
  <2>2. CASE isOpen
    BY <2>1, <2>2 DEF Incoming!Next, Incoming!Close
  <2>3. CASE ~isOpen
    BY <1>1, <2>1, <2>3
  <2> QED
    BY <2>2, <2>3
<1>4. CASE OpenSendVersion \/ OpenCheck \/ OpenStartRead
  BY <1>4 DEF OpenSendVersion, OpenCheck, OpenStartRead, readVars
<1>5. CASE FlushOut \/ OnWriteAfterClose
  BY <1>5 DEF FlushOut, OnWriteAfterClose, openVars, readVars
<1>6. CASE KernelSends
  BY <1>6, Zenon DEF KernelSends, openVars, readVars
<1>7. CASE SendFails
  BY <1>7, Zenon DEF SendFails, openVars, readVars
<1>8. CASE OnWriteComplete
  BY <1>8, Zenon DEF OnWriteComplete, openVars, readVars
<1>9. CASE PeerSends
  BY <1>1, <1>9 DEF PeerSends, openVars, Incoming!Next, Incoming!Put
<1>10. CASE KernelReads
  BY <1>10 DEF KernelReads, openVars
<1>11. CASE ReadFails
  BY <1>11, Zenon DEF ReadFails, openVars
<1>12. CASE OnReadAfterClose \/ OnReadGrow
  BY <1>12 DEF OnReadAfterClose, OnReadGrow, openVars
<1>13. CASE OnReadHandled
  <2>1. Process("true", ReadLengthRemaining(Got)) /\ isOpen
    BY <1>13 DEF OnReadHandled, Process
  <2>2. ReadLengthRemaining(Got) \in 0 .. ReadLengthRemaining(Got)
    BY <2>1, GotUnread, LenProperties DEF ReadLengthRemaining
  <2>3. isOpen' \in BOOLEAN
    BY <1>1, <1>13 DEF OnReadHandled, CloseSocket
  <2> QED
    BY <2>1, <2>2, <2>3, ProcessDelivers
<1>14. CASE OnReadIncomplete
  BY <1>1, <1>14, ProcessDelivers DEF OnReadIncomplete
<1>15. CASE OnReadRejected
  BY <1>15, ProcessDelivers DEF OnReadRejected, CloseSocket
<1>16. CASE Gone
  BY <1>2, <1>16 DEF Gone
<1> QED
  BY <1>2, <1>3, <1>4, <1>5, <1>6, <1>7, <1>8, <1>9, <1>10, <1>11, <1>12, <1>13,
     <1>14, <1>15, <1>16
     DEF Next, Opens, SendEnds, Writes, Reads

(* The safety part of IncomingStream: however its reads are cut and        *)
(* whatever ProcessIncomingData answers, a socket gives the server the     *)
(* peer's bytes as a FIFO stream would.                                    *)
THEOREM IncomingImplemented == Spec => Incoming!Spec
<1>1. Init => Incoming!Init
  BY DEF Init, Incoming!Init
<1>2. IInv /\ InputInv /\ [Next]_vars => [Incoming!Next]_(Incoming!vars)
  <2> SUFFICES ASSUME IInv, InputInv, [Next]_vars
               PROVE  [Incoming!Next]_(Incoming!vars)
    OBVIOUS
  <2> QED
    BY IncomingNext DEF Incoming!vars
<1> QED
  BY <1>1, <1>2, InputInvariance, Invariance, PTL DEF Spec, Incoming!Spec
-----------------------------------------------------------------------------
(* The sending direction is a ByteStream for as long as m_OutBuffer keeps  *)
(* its storage.                                                            *)

(* m_OutBuffer still has the storage that Open gave it.                    *)
Ungrown == out.size = StorageSize

(* Write puts bytes into the stream.                                       *)
LEMMA WritePuts ==
    ASSUME IInv, isOpen, UNCHANGED isOpen, NEW n \in Nat \ {0}, Write(n)
    PROVE  Outgoing!Next
<1>1. written \in Nat /\ isOpen = TRUE
  BY TypeParts DEF IInv, WriteTypes, OpenTypes
<1>2. written' = written + n /\ wire' = wire
  BY DEF Write
<1> QED
  BY <1>1, <1>2 DEF Outgoing!Next, Outgoing!Put

(* What the kernel takes from storage that has not moved comes out next.   *)
LEMMA KernelSendsDelivers ==
    ASSUME IInv, IInv', ~torn', KernelSends
    PROVE  Outgoing!Next
<1>1. /\ SendInv /\ FifoInv /\ SendInv' /\ FifoInv'
      /\ WriteTypes /\ WriteTypes' /\ OpenTypes /\ OpenTypes'
  BY TypeParts DEF IInv
<1>2. /\ isOpen /\ isOpen' = isOpen /\ sendOp.status = "pending"
      /\ out' = out /\ written' = written
  BY DEF KernelSends, openVars
<1>3. sendOp'.status = "done"
  <2>1. PICK n \in 1 .. sendOp.len : sendOp' = [sendOp EXCEPT !.status = "done", !.len = n]
    BY DEF KernelSends
  <2> QED
    BY <1>1, <2>1 DEF WriteTypes
<1>4. /\ wire' \in Seq(Nat) /\ Len(wire') \in Nat /\ written \in Nat
      /\ out.bytes \in Seq(Nat) /\ Len(out.bytes) \in Nat
  BY <1>1, LenProperties DEF WriteTypes, Buffers
<1>5. Len(wire) = written - Len(out.bytes)
  BY <1>1, <1>2, <1>4 DEF FifoInv, Retired
<1>6. Len(wire') = written - Len(out.bytes) + sendOp'.len
  BY <1>1, <1>2, <1>3 DEF FifoInv, Retired
<1>7. sendOp'.len \in 1 .. Len(out.bytes)
  BY <1>1, <1>2, <1>3 DEF SendInv
<1>8. Len(wire') \in Len(wire) + 1 .. written
  <2>1. PICK k \in 1 .. Len(out.bytes) : k = sendOp'.len
    BY <1>7
  <2>2. Len(wire') = written - Len(out.bytes) + k
    BY <1>6, <2>1
  <2> QED
    BY <1>4, <1>5, <2>2
<1>9. wire' = [i \in 1 .. Len(wire') |-> i]
  <2> DEFINE stream == [i \in 1 .. Len(wire') |-> i]
  <2>1. /\ stream \in Seq(Nat) /\ Len(stream) = Len(wire')
        /\ \A i \in 1 .. Len(wire') : stream[i] = i
    <3>1. stream \in [1 .. Len(wire') -> Nat] /\ \A i \in 1 .. Len(wire') : stream[i] = i
      BY <1>4
    <3> HIDE DEF stream
    <3> QED
      BY <1>4, <3>1, FunctionIsSeq
  <2> HIDE DEF stream
  <2>2. \A i \in 1 .. Len(wire') : wire'[i] = stream[i]
    BY <1>1, <2>1 DEF FifoInv
  <2>3. wire' = stream
    BY <1>4, <2>1, <2>2, SeqEqual
  <2> QED
    BY <2>3 DEF stream
<1>10. Outgoing!Deliver
  BY <1>1, <1>2, <1>8, <1>9 DEF Outgoing!Deliver, OpenTypes
<1> QED
  BY <1>10 DEF Outgoing!Next

LEMMA OutgoingNext ==
    ASSUME IInv, IInv', ~torn', [Next]_vars
    PROVE  Outgoing!Next \/ UNCHANGED <<written, wire, isOpen>>
<1>1. isOpen \in BOOLEAN
  BY TypeParts DEF IInv, OpenTypes
<1>2. CASE UNCHANGED vars
  BY <1>2 DEF vars
<1>3. ASSUME isOpen' = FALSE, UNCHANGED <<written, wire>>
      PROVE  Outgoing!Next \/ UNCHANGED <<written, wire, isOpen>>
  BY <1>1, <1>3 DEF Outgoing!Next, Outgoing!Close
<1>4. CASE OpenThrows \/ OnWriteFailed \/ OnReadFailed
  BY <1>3, <1>4 DEF OpenThrows, OnWriteFailed, OnReadFailed, CloseSocket, writeVars
<1>5. CASE OpenSendVersion
  <2>1. isOpen
    BY <1>5 DEF IInv, AcceptInv, OpenSendVersion
  <2> QED
    BY <1>5, <2>1, SocketAssumption, WritePuts DEF OpenSendVersion
<1>6. CASE OpenCheck \/ OpenStartRead
  BY <1>6 DEF OpenCheck, OpenStartRead, writeVars
<1>7. CASE FlushOut \/ OnWriteAfterClose
  BY <1>7 DEF FlushOut, OnWriteAfterClose, openVars
<1>8. CASE KernelSends
  BY <1>8, KernelSendsDelivers
<1>9. CASE SendFails
  BY <1>9, Zenon DEF SendFails, openVars
<1>10. CASE OnWriteComplete
  BY <1>10, Zenon DEF OnWriteComplete, openVars
<1>11. CASE PeerSends \/ KernelReads
  BY <1>11 DEF PeerSends, KernelReads, openVars, writeVars
<1>12. CASE ReadFails
  BY <1>12, Zenon DEF ReadFails, openVars, writeVars
<1>13. CASE OnReadAfterClose \/ OnReadGrow
  BY <1>13 DEF OnReadAfterClose, OnReadGrow, openVars, writeVars
<1>14. CASE OnReadHandled
  <2>1. isOpen
    BY <1>14 DEF OnReadHandled, Process
  <2>2. CASE UNCHANGED <<isOpen, registered, writeVars>>
    BY <2>2 DEF writeVars
  <2>3. ASSUME NEW n \in 1 .. MaxReply, Write(n), UNCHANGED <<isOpen, registered>>
        PROVE  Outgoing!Next
    BY <2>1, <2>3, SocketAssumption, WritePuts
  <2>4. CASE CloseSocket /\ UNCHANGED writeVars
    BY <1>3, <2>4 DEF CloseSocket, writeVars
  <2> QED
    BY <1>14, <2>2, <2>3, <2>4 DEF OnReadHandled
<1>15. CASE OnReadIncomplete
  BY <1>15 DEF OnReadIncomplete, writeVars
<1>16. CASE OnReadRejected
  BY <1>3, <1>16 DEF OnReadRejected, CloseSocket, writeVars
<1>17. CASE Gone
  BY <1>2, <1>17 DEF Gone
<1> QED
  BY <1>2, <1>4, <1>5, <1>6, <1>7, <1>8, <1>9, <1>10, <1>11, <1>12, <1>13, <1>14,
     <1>15, <1>16, <1>17
     DEF Next, Opens, SendEnds, Writes, Reads

(* A transfer loses its storage only when Write has to resize the vector.  *)
LEMMA WriteTearsNothing ==
    ASSUME IInv, Ungrown, Ungrown', ~torn, NEW n \in Nat \ {0}, Write(n)
    PROVE  ~torn'
<1> DEFINE data == [i \in 1 .. n |-> written + i]
<1>1. out \in Buffers(Nat) /\ written \in Nat /\ torn \in BOOLEAN
  BY TypeParts DEF IInv, WriteTypes
<1>2. data \in Seq(Nat) /\ Len(data) = n
  <2>1. data \in [1 .. n -> Nat]
    BY <1>1
  <2> HIDE DEF data
  <2> QED
    BY <2>1, FunctionIsSeq
<1>3. /\ out' = BufferWrite(out, data)
      /\ ~Outgrows(out, data) => \E moved \in {FALSE} :
            torn' = (torn \/ (moved /\ sendOp.status = "pending"))
  BY DEF Write
<1> HIDE DEF data
<1>4. ~Outgrows(out, data)
  BY <1>1, <1>2, <1>3, LenProperties, SocketAssumption
     DEF Ungrown, BufferWrite, Outgrows, Buffers
<1> QED
  BY <1>3, <1>4

LEMMA TearsNothing ==
    ASSUME OverlapSafe, IInv, Ungrown, Ungrown', ~torn, [Next]_vars
    PROVE  ~torn'
<1>1. CASE UNCHANGED vars
  BY <1>1 DEF vars
<1>2. CASE OpenSendVersion
  BY <1>2, SocketAssumption, WriteTearsNothing DEF OpenSendVersion
<1>3. CASE OnReadHandled
  <2>1. ASSUME NEW n \in 1 .. MaxReply, Write(n)
        PROVE  ~torn'
    BY <2>1, SocketAssumption, WriteTearsNothing
  <2>2. CASE UNCHANGED writeVars
    BY <2>2 DEF writeVars
  <2> QED
    BY <1>3, <2>1, <2>2 DEF OnReadHandled, writeVars
<1>4. CASE OnWriteComplete
  <2>1. \E lost \in {{}} : torn' = (torn \/ lost # {})
    BY <1>4 DEF OnWriteComplete
  <2> QED
    BY <2>1
<1>5. CASE KernelSends
  BY <1>5, Zenon DEF KernelSends
<1>6. CASE SendFails
  BY <1>6, Zenon DEF SendFails
<1>7. CASE FlushOut \/ OnWriteFailed \/ OnWriteAfterClose
  BY <1>7 DEF FlushOut, OnWriteFailed, OnWriteAfterClose
<1>8. CASE OpenThrows \/ OpenCheck \/ OpenStartRead \/ PeerSends \/ KernelReads
  BY <1>8 DEF OpenThrows, OpenCheck, OpenStartRead, PeerSends, KernelReads, writeVars
<1>9. CASE ReadFails
  BY <1>9, Zenon DEF ReadFails, writeVars
<1>10. CASE OnReadFailed \/ OnReadAfterClose \/ OnReadGrow \/ OnReadIncomplete
            \/ OnReadRejected
  BY <1>10 DEF OnReadFailed, OnReadAfterClose, OnReadGrow, OnReadIncomplete,
               OnReadRejected, writeVars
<1>11. CASE Gone
  BY <1>1, <1>11 DEF Gone
<1> QED
  BY <1>1, <1>2, <1>3, <1>4, <1>5, <1>6, <1>7, <1>8, <1>9, <1>10, <1>11
     DEF Next, Opens, SendEnds, Writes, Reads

(* The safety part of OutgoingStream, whatever is written and however the  *)
(* kernel cuts it: until m_OutBuffer is grown, and where memcpy copies     *)
(* overlapping ranges like memmove, the peer gets what was written as from *)
(* a FIFO stream.                                                          *)
THEOREM OutgoingImplemented ==
    ASSUME OverlapSafe
    PROVE  Spec /\ []Ungrown => Outgoing!Spec
<1>1. Init => Outgoing!Init /\ ~torn
  BY DEF Init, Outgoing!Init
<1>2. IInv /\ Ungrown /\ Ungrown' /\ ~torn /\ [Next]_vars => ~torn'
  BY TearsNothing
<1>3. IInv /\ IInv' /\ ~torn' /\ [Next]_vars => [Outgoing!Next]_(Outgoing!vars)
  BY OutgoingNext DEF Outgoing!vars
<1> QED
  BY <1>1, <1>2, <1>3, Invariance, PTL DEF Spec, Outgoing!Spec
-----------------------------------------------------------------------------
(* m_OutBuffer holds no more than was written, and is grown for nothing else. *)
LEMMA WriteFits ==
    ASSUME IInv, Ungrown, MaxOut <= StorageSize, NEW n \in Nat \ {0}, Write(n)
    PROVE  Ungrown'
<1> DEFINE data == [i \in 1 .. n |-> written + i]
<1>1. /\ out \in Buffers(Nat) /\ written \in Nat
      /\ written - Len(out.bytes) \in Nat /\ Len(out.bytes) \in Nat
  BY TypeParts, LenProperties DEF IInv, WriteTypes, FifoInv, Retired, Buffers
<1>2. Len(data) = n
  <2>1. data \in [1 .. n -> Nat]
    BY <1>1
  <2> HIDE DEF data
  <2> QED
    BY <2>1, FunctionIsSeq
<1>3. out' = BufferWrite(out, data) /\ written + n <= MaxOut
  BY DEF Write
<1> HIDE DEF data
<1>4. ~Outgrows(out, data)
  BY <1>1, <1>2, <1>3, SocketAssumption DEF Ungrown, Outgrows
<1> QED
  BY <1>1, <1>3, <1>4 DEF Ungrown, BufferWrite

LEMMA StaysUngrown ==
    ASSUME IInv, Ungrown, MaxOut <= StorageSize, [Next]_vars
    PROVE  Ungrown'
<1>1. out \in Buffers(Nat)
  BY TypeParts DEF IInv, WriteTypes
<1>2. ASSUME out' = out PROVE Ungrown'
  BY <1>2 DEF Ungrown
<1>3. CASE UNCHANGED vars
  BY <1>2, <1>3 DEF vars
<1>4. CASE OpenSendVersion
  BY <1>4, SocketAssumption, WriteFits DEF OpenSendVersion
<1>5. CASE OnReadHandled
  <2>1. ASSUME NEW n \in 1 .. MaxReply, Write(n)
        PROVE  Ungrown'
    BY <2>1, SocketAssumption, WriteFits
  <2> QED
    BY <1>2, <1>5, <2>1 DEF OnReadHandled, writeVars
<1>6. CASE OnWriteComplete
  <2>1. PICK lost : out' = Dropped(out, sendOp.len, lost)
    BY <1>6 DEF OnWriteComplete
  <2> QED
    BY <1>1, <2>1 DEF Ungrown, Dropped, Buffers
<1>7. CASE KernelSends
  BY <1>2, <1>7, Zenon DEF KernelSends
<1>8. CASE SendFails
  BY <1>2, <1>8, Zenon DEF SendFails
<1>9. CASE FlushOut \/ OnWriteFailed \/ OnWriteAfterClose
  BY <1>2, <1>9 DEF FlushOut, OnWriteFailed, OnWriteAfterClose
<1>10. CASE OpenThrows \/ OpenCheck \/ OpenStartRead \/ PeerSends \/ KernelReads
  BY <1>2, <1>10 DEF OpenThrows, OpenCheck, OpenStartRead, PeerSends, KernelReads, writeVars
<1>11. CASE ReadFails
  BY <1>2, <1>11, Zenon DEF ReadFails, writeVars
<1>12. CASE OnReadFailed \/ OnReadAfterClose \/ OnReadGrow \/ OnReadIncomplete
            \/ OnReadRejected
  BY <1>2, <1>12 DEF OnReadFailed, OnReadAfterClose, OnReadGrow, OnReadIncomplete,
               OnReadRejected, writeVars
<1>13. CASE Gone
  BY <1>3, <1>13 DEF Gone
<1> QED
  BY <1>3, <1>4, <1>5, <1>6, <1>7, <1>8, <1>9, <1>10, <1>11, <1>12, <1>13
     DEF Next, Opens, SendEnds, Writes, Reads

(* What Write is documented to do holds of a socket for as long as its     *)
(* m_OutBuffer is not grown: the bytes sent are those written.  The run    *)
(* socket_growth shows that it needs this hypothesis.                      *)
THEOREM SentAsWrittenIfUngrown ==
    ASSUME OverlapSafe
    PROVE  Spec /\ []Ungrown => []SentAsWritten
<1>1. Init => ~torn
  BY DEF Init
<1>2. IInv /\ Ungrown /\ Ungrown' /\ ~torn /\ [Next]_vars => ~torn'
  BY TearsNothing
<1>3. IInv /\ ~torn => SentAsWritten
  <2> SUFFICES ASSUME IInv, ~torn PROVE SentAsWritten
    OBVIOUS
  <2>1. DOMAIN wire = 1 .. Len(wire)
    BY TypeParts, LenProperties DEF IInv, WriteTypes
  <2> QED
    BY <2>1 DEF IInv, FifoInv, SentAsWritten
<1> QED
  BY <1>1, <1>2, <1>3, Invariance, PTL DEF Spec

(* A connection on which the server writes no more than m_OutBuffer was    *)
(* made for is such a socket, so what it writes is what the peer gets.     *)
THEOREM ShortOutputIsSent ==
    ASSUME OverlapSafe, MaxOut <= StorageSize
    PROVE  Spec => Outgoing!Spec /\ []SentAsWritten
<1>1. Init => Ungrown
  BY DEF Init, Ungrown, NewBuffer
<1>2. IInv /\ Ungrown /\ [Next]_vars => Ungrown'
  BY StaysUngrown
<1>3. Spec /\ []Ungrown => Outgoing!Spec
  BY OutgoingImplemented
<1>4. Spec /\ []Ungrown => []SentAsWritten
  BY SentAsWrittenIfUngrown
<1> QED
  BY <1>1, <1>2, <1>3, <1>4, Invariance, PTL DEF Spec
=============================================================================
