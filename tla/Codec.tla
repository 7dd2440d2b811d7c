------------------------------- MODULE Codec -------------------------------
(***************************************************************************)
(* Net_chat/net_message.h: operator<< and operator>> of message.  A value  *)
(* is put at the end of the body and taken from its end, a text followed   *)
(* by its length; the header's 32-bit size follows the body.               *)
(***************************************************************************)
EXTENDS Integers, Sequences

CONSTANTS
  Base,          \* values of a byte: 256
  IdBytes,       \* sizeof(uint32_t), of an id and of header.size: 4
  LengthBytes    \* sizeof(size_t): 8

ASSUME CodecAssumption ==
  /\ Base \in Nat \ {0, 1}
  /\ IdBytes \in Nat \ {0}
  /\ LengthBytes \in Nat \ {0}

\* b to the nth, as a recursive function: ^ is beyond the provers
Power(b, n) ==
  LET p[k \in 0 .. n] == IF k = 0 THEN 1 ELSE b * p[k - 1]
  IN  p[n]

Byte == 0 .. Base - 1
Id == 0 .. Power(Base, IdBytes) - 1

\* Mutant: the low byte is the whole number.
BytesUncut(n, w) == [k \in 1 .. w |-> n \div Power(Base, k - 1)]

\* memcpy from and to a number
Bytes(n, w) == [k \in 1 .. w |-> (n \div Power(Base, k - 1)) % Base]
Number(bytes) ==
  LET sum[k \in 0 .. Len(bytes)] == IF k = 0 THEN 0 ELSE sum[k - 1] + bytes[k] * Power(Base, k - 1)
  IN  sum[Len(bytes)]

\* header.size = msg.size()
WithBody(body) == [size |-> Len(body) % Power(Base, IdBytes), body |-> body]
NoBody == [size |-> 0, body |-> <<>>]

Put(m, bytes) == WithBody(m.body \o bytes)
PutId(m, n) == Put(m, Bytes(n, IdBytes))

\* Mutant: the length precedes the text.
PutLengthFirst(m, text) == Put(Put(m, Bytes(Len(text), LengthBytes)), text)

PutText(m, text) == Put(Put(m, text), Bytes(Len(text), LengthBytes))

\* The last w bytes, and the message without them.  body.size() - w wraps around
\* when there are fewer, and the copy that follows is undefined.
Has(m, w) == Len(m.body) >= w
Last(m, w) == SubSeq(m.body, Len(m.body) - w + 1, Len(m.body))
Drop(m, w) == WithBody(SubSeq(m.body, 1, Len(m.body) - w))

TextLength(m) == Number(Last(m, LengthBytes))
HasText(m) == Has(m, LengthBytes) /\ Has(Drop(m, LengthBytes), TextLength(m))
TextOf(m) == Last(Drop(m, LengthBytes), TextLength(m))
WithoutText(m) == Drop(Drop(m, LengthBytes), TextLength(m))
=============================================================================
