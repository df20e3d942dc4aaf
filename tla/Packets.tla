------------------------------- MODULE Packets -------------------------------
(***************************************************************************)
(* The packets of the earlier protocol: what ServerPacket and StringBuffer *)
(* write with EncodeBase64 and EncodeWired, read by ClientPacket with      *)
(* DecodeBase64 and DecodeWired.  The writer is the server, or a client    *)
(* with the same two encodings.                                            *)
(*                                                                         *)
(* A wired number has a sign, two bits and a length in its first byte, and *)
(* six bits in each of the others; a base-64 number is two bytes of six    *)
(* bits.  Six bits are Digit values here, so an int has 4 * Digit^5.       *)
(***************************************************************************)
EXTENDS Integers, Sequences, FiniteSetsExt

CONSTANTS
    Digit,     \* the values of six bits, 64
    Headers,   \* uint32 given to ServerPacket
    Values,    \* int64 given to AppendWired
    Numbers,   \* uint32 given to AppendBase64
    Texts,     \* strings, as sequences of bytes
    MaxFields  \* bound: fields in a packet

ASSUME PacketsAssumption ==
    /\ Digit \in {2, 4, 8, 16, 32, 64}
    /\ Headers \subseteq Nat /\ Values \subseteq Int /\ Numbers \subseteq Nat
    /\ Texts \subseteq Seq(32 .. 126) /\ MaxFields \in Nat

VARIABLES
    stage,           \* writing, reading, or how that ended, see TypeOK
    m_Storage,       \* of the StringBuffer, up to m_WritePosition
    m_Header, m_Content, m_ReadPosition,  \* of the ClientPacket
    header,          \* history: the header written
    fields,          \* history: the fields written, with where they end
    results          \* history: by which function each was read, and as what

writer == <<m_Storage, header, fields>>
reader == <<m_Header, m_Content, m_ReadPosition, results>>
vars   == <<stage, writer, reader>>
-----------------------------------------------------------------------------
(* The codecs. *)

WiredSize == 6
Span      == 4 * Digit ^ (WiredSize - 1)

Abs(v)    == IF v < 0 THEN -v ELSE v
ToInt(v)  == ((v + Span \div 2) % Span) - Span \div 2
ToUint(v) == v % Span

EncodeBase64(v) == <<64 + ((v \div Digit) % Digit), 64 + (v % Digit)>>

(* Operators named Mutant... are plausible bugs, see the README.           *)

(* The 64 is not taken off. *)
MutantChar(byte) == IF byte < 128 THEN byte ELSE byte - 256

(* A byte less 64, as a signed char. *)
Char(byte) == LET d == (byte - 64) % 256 IN IF d < 128 THEN d ELSE d - 256

(* Each character counts Digit times the one behind it. *)
DecodeBase64(buffer) ==
    LET total[x \in 0 .. Len(buffer)] ==
            IF x = 0 THEN 0 ELSE Digit * total[x - 1] + Char(buffer[x])
    IN  total[Len(buffer)]

(* How many bytes EncodeWired makes; more than WiredSize overrun its array. *)
WiredLength(v) ==
    Min({n \in 1 .. WiredSize : Abs(v) \div 4 < Digit ^ (n - 1)} \union {WiredSize + 1})

EncodeWired(v) ==
    LET n     == WiredLength(v)
        first == 64 + 8 * n + (IF v < 0 THEN 4 ELSE 0) + (Abs(v) % 4)
    IN  [i \in 1 .. n |-> IF i = 1 THEN first
                          ELSE 64 + (((Abs(v) \div 4) \div Digit ^ (i - 2)) % Digit)]

(* The byte behind the last of a std::string is 0. *)
ByteAt(buffer, i) == IF i <= Len(buffer) THEN buffer[i] ELSE 0

WiredBytes(buffer) == (ByteAt(buffer, 1) \div 8) % 8

(* The last digit is shifted as far as the one before. *)
MutantDecodeWired(buffer) ==
    LET first == ByteAt(buffer, 1)
        upTo[i \in 0 .. WiredBytes(buffer)] ==
            IF i <= 1 THEN first % 4
            ELSE upTo[i - 1] + (ByteAt(buffer, i) % Digit)
                                  * 4 * Digit ^ (IF i = WiredSize THEN i - 3 ELSE i - 2)
        v == ToInt(upTo[WiredBytes(buffer)])
    IN  IF (first \div 4) % 2 = 1 THEN ToInt(-v) ELSE v

(* The loop adds six bits a byte.  A digit shifted into the sign of the    *)
(* int makes it negative.                                                  *)
DecodeWired(buffer) ==
    LET first == ByteAt(buffer, 1)
        upTo[i \in 0 .. WiredBytes(buffer)] ==
            IF i <= 1 THEN first % 4
            ELSE upTo[i - 1] + (ByteAt(buffer, i) % Digit) * 4 * Digit ^ (i - 2)
        v == ToInt(upTo[WiredBytes(buffer)])
    IN  IF (first \div 4) % 2 = 1 THEN ToInt(-v) ELSE v
-----------------------------------------------------------------------------
(* ServerPacket's constructor: the header. *)
Init ==
    /\ header \in Headers
    /\ m_Storage = EncodeBase64(header)
    /\ stage = "writing" /\ fields = <<>>
    /\ m_Header = 0 /\ m_Content = <<>> /\ m_ReadPosition = 0 /\ results = <<>>

(* Append: the bytes of a field, which is of a kind and has a value. *)
AppendField(kind, value, bytes) ==
    /\ stage = "writing" /\ Len(fields) < MaxFields
    /\ m_Storage' = m_Storage \o bytes
    /\ fields' = Append(fields, [kind |-> kind, value |-> value, end |-> Len(m_Storage')])
    /\ UNCHANGED <<header, reader>>

AppendWired(v) ==
    /\ AppendField("wired", v, EncodeWired(v))
    /\ stage' = IF WiredLength(v) > WiredSize THEN "overrun" ELSE stage

AppendWiredBool(b) ==
    LET v == IF b THEN 1 ELSE 0
    IN  AppendField("wired", v, EncodeWired(v)) /\ UNCHANGED stage

AppendBase64(u) == AppendField("base64", u, EncodeBase64(u)) /\ UNCHANGED stage

(* A string that is to be read by ReadString: AppendBase64 of its length,  *)
(* and AppendString without delimiter.                                     *)
AppendString(text) ==
    AppendField("string", text, EncodeBase64(Len(text)) \o text) /\ UNCHANGED stage

(* A byte that is to be read by ReadBase64Bool: a client's, as the server   *)
(* has no function for it.                                                 *)
AppendFlag(b) ==
    AppendField("flag", IF b THEN 1 ELSE 0, <<64 + IF b THEN 1 ELSE 0>>) /\ UNCHANGED stage

(* The constructor of ClientPacket. *)
Construct ==
    /\ stage = "writing"
    /\ stage' = "reading"
    /\ m_Header' = DecodeBase64(SubSeq(m_Storage, 1, 2))
    /\ m_Content' = SubSeq(m_Storage, 3, Len(m_Storage))
    /\ UNCHANGED <<m_ReadPosition, results, writer>>
-----------------------------------------------------------------------------
(* std::string::substr from position p, of n bytes at most. *)
Outside(p)   == p \notin 0 .. Len(m_Content)
Substr(p, n) == SubSeq(m_Content, p + 1, IF p + n > Len(m_Content) THEN Len(m_Content) ELSE p + n)
Rest(p)      == SubSeq(m_Content, p + 1, Len(m_Content))

Field == fields[Len(results) + 1]

(* A function is called for a field of the kind it is for, and has moved   *)
(* on by n bytes when it returns the value.                                *)
Read(kind, function, value, n) ==
    /\ stage = "reading" /\ Len(results) < Len(fields) /\ Field.kind = kind
    /\ ~Outside(m_ReadPosition)
    /\ m_ReadPosition' = m_ReadPosition + n
    /\ results' = Append(results, [by |-> function, value |-> value])
    /\ UNCHANGED <<stage, m_Header, m_Content, writer>>

(* substr throws what nobody here catches. *)
ReadThrows ==
    /\ stage = "reading" /\ Len(results) < Len(fields)
    /\ \/ Outside(m_ReadPosition)
       \/ Field.kind = "string" /\ Outside(m_ReadPosition + 2)
    /\ stage' = "thrown"
    /\ UNCHANGED <<reader, writer>>

(* The first byte promises more than there are. *)
Short(buffer) == WiredBytes(buffer) > Len(buffer) + 1

Decodable == ~Outside(m_ReadPosition) /\ ~Short(Rest(m_ReadPosition))

(* DecodeWired reads beyond the end of the string. *)
ReadBeyond ==
    /\ stage = "reading" /\ Len(results) < Len(fields) /\ Field.kind = "wired"
    /\ ~Outside(m_ReadPosition) /\ Short(Rest(m_ReadPosition))
    /\ stage' = "overread"
    /\ UNCHANGED <<reader, writer>>

(* An unsigned number is measured as the int it was decoded to. *)
MutantReadWired(function, converted) ==
    /\ Decodable
    /\ Read("wired", function, converted, WiredLength(ToInt(converted)))

(* What is read is encoded again to know how many bytes it took. *)
ReadWired(function, converted) ==
    /\ Decodable
    /\ Read("wired", function, converted, WiredLength(converted))

ReadWiredInt  == ReadWired("int", DecodeWired(Rest(m_ReadPosition)))
ReadWiredUint == ReadWired("uint", ToUint(DecodeWired(Rest(m_ReadPosition))))

ReadWiredBool ==
    LET v == DecodeWired(Rest(m_ReadPosition))
    IN  /\ Decodable
        /\ Read("wired", "bool", IF v = 1 THEN 1 ELSE 0, WiredLength(v))

ReadBase64 == Read("base64", "base64", DecodeBase64(Substr(m_ReadPosition, 2)), 2)

ReadSkip == Read("base64", "skip", 0, 2)

ReadBase64Bool ==
    LET v == DecodeBase64(Substr(m_ReadPosition, 1))
    IN  Read("flag", "flag", IF v = 1 THEN 1 ELSE 0, 1)

(* A negative length, as a std::size_t, is more than there is. *)
ReadString ==
    LET n    == DecodeBase64(Substr(m_ReadPosition, 2))
        text == IF n < 0 THEN Rest(m_ReadPosition + 2) ELSE Substr(m_ReadPosition + 2, n)
    IN  /\ ~Outside(m_ReadPosition + 2)
        /\ Read("string", "string", text, n + 2)

(* EncodeWired, for a field that is written or to measure one that is      *)
(* read, makes a string of its array up to a zero, which it has not put    *)
(* there: behind six bytes, or fewer if none is there by chance, it reads  *)
(* beyond the array.  No behaviour is defined then; if the function does   *)
(* return, resize has cut the string to the bytes of the number, and all   *)
(* is as in AppendWired or ReadWired.                                      *)
Unterminated ==
    /\ \/ stage = "writing" /\ Len(fields) < MaxFields
       \/ stage = "reading" /\ Len(results) < Len(fields)
             /\ Field.kind = "wired" /\ Decodable
    /\ stage' = "unterminated"
    /\ UNCHANGED <<reader, writer>>

(* The packet is read, or writing or reading it has failed. *)
Over ==
    /\ \/ stage \in {"thrown", "overrun", "overread", "unterminated"}
       \/ stage = "reading" /\ Len(results) = Len(fields)
    /\ UNCHANGED vars

Next ==
    \/ \E v \in Values : AppendWired(v)
    \/ \E b \in BOOLEAN : AppendWiredBool(b) \/ AppendFlag(b)
    \/ \E u \in Numbers : AppendBase64(u)
    \/ \E text \in Texts : AppendString(text)
    \/ Construct
    \/ ReadWiredInt \/ ReadWiredUint \/ ReadWiredBool
    \/ ReadBase64 \/ ReadSkip \/ ReadBase64Bool \/ ReadString
    \/ ReadThrows \/ ReadBeyond \/ Unterminated \/ Over

Spec == Init /\ [][Next]_vars
-----------------------------------------------------------------------------
(* The types of the variables. *)
TypeOK ==
    /\ stage \in {"writing", "reading", "thrown", "overrun", "overread", "unterminated"}
    /\ \A i \in DOMAIN m_Storage : m_Storage[i] \in 0 .. 255
    /\ \A i \in DOMAIN m_Content : m_Content[i] \in 0 .. 255
    /\ m_Header \in 0 .. Digit ^ 2 - 1 /\ m_ReadPosition \in Int
    /\ Len(results) <= Len(fields) /\ Len(fields) <= MaxFields

(* The reader's type can hold what was written. *)
Fits(i) ==
    LET value == fields[i].value
    IN  CASE results[i].by \in {"int", "bool"} -> Abs(value) < Span \div 2
          [] results[i].by = "uint" -> value \in 0 .. Span - 1
          [] results[i].by \in {"base64", "skip"} -> value < Digit ^ 2
          [] results[i].by = "string" -> Len(value) < Digit ^ 2
          [] results[i].by = "flag" -> TRUE

Meant(i) ==
    LET value == fields[i].value
    IN  CASE results[i].by = "bool" -> IF value = 1 THEN 1 ELSE 0
          [] results[i].by = "skip" -> 0
          [] OTHER -> value

AllFit == \A i \in DOMAIN results : Fits(i)

(* What is written is what is read, the header and each field, over all    *)
(* bit lengths and signs, for as long as the functions that read them can  *)
(* hold them: the decoders are the inverses of the encoders.               *)
ReadsBack ==
    /\ stage \in {"reading", "thrown", "overread"} /\ header < Digit ^ 2 => m_Header = header
    /\ AllFit => \A i \in DOMAIN results : results[i].value = Meant(i)

(* A wired number is re-encoded to find where the next field begins, and   *)
(* so the reader stays in step only while the numbers fit; then it also    *)
(* never reads past the end of what it was given.  Of what EncodeWired     *)
(* reads behind its own array it says nothing, see Unterminated.           *)
InStep ==
    /\ AllFit /\ results # <<>> => m_ReadPosition = fields[Len(results)].end - 2
    /\ AllFit => stage \notin {"thrown", "overread"}
=============================================================================
