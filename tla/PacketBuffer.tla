---------------------------- MODULE PacketBuffer ----------------------------
(***************************************************************************)
(* Class PacketBuffer (Shared/Network/PacketBuffer.cpp): a byte vector     *)
(* with a write and a read position.  A buffer is a record                 *)
(*   bytes  the contents of m_Buffer[0 .. m_WritePosition)                 *)
(*   read   m_ReadPosition                                                 *)
(*   size   m_Buffer.size()                                                *)
(* so m_WritePosition is Len(bytes).  The last four operators are what     *)
(* class Socket, a friend, does to the fields directly.                    *)
(*                                                                         *)
(* A byte is the position, counted from 1, that it has in the stream it    *)
(* belongs to: a buffer is right exactly when its bytes are consecutive.   *)
(* Garbage stands for a byte that belongs to no stream.                    *)
(***************************************************************************)
EXTENDS Naturals, Sequences

Garbage == 0

NewBuffer(size) == [bytes |-> <<>>, read |-> 0, size |-> size]

ReadLengthRemaining(b) == Len(b.bytes) - b.read

(* Write has to resize m_Buffer, which may move it in memory. *)
Outgrows(b, data) == b.size < Len(b.bytes) + Len(data)

BufferWrite(b, data) ==
    [bytes |-> b.bytes \o data,
     read  |-> b.read,
     size  |-> IF Outgrows(b, data) THEN Len(b.bytes) + Len(data) ELSE b.size]

BufferRead(b, n) == [b EXCEPT !.read = @ + n]

(* What Read(p_Buffer, n) copies out. *)
Readable(b, n) == SubSeq(b.bytes, b.read + 1, b.read + n)

(* m_WritePosition += p_Length, for bytes the kernel put there. *)
Received(b, data) == [b EXCEPT !.bytes = @ \o data]

(* A mutant: only the read position goes back. *)
MutantEmptied(b) == [b EXCEPT !.read = 0]

(* Both positions back to 0. *)
Emptied(b) == [bytes |-> <<>>, read |-> 0, size |-> b.size]

(* The unread bytes moved to the front (memmove). *)
Compacted(b) ==
    [bytes |-> SubSeq(b.bytes, b.read + 1, Len(b.bytes)), read |-> 0, size |-> b.size]

(* The first n bytes dropped and the rest moved to the front; the bytes at *)
(* the new positions in lost did not survive the move.                     *)
Dropped(b, n, lost) ==
    [b EXCEPT !.bytes = [i \in 1 .. Len(@) - n |->
                            IF i \in lost THEN Garbage ELSE @[n + i]]]
=============================================================================
