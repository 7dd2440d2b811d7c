------------------------------ MODULE Console ------------------------------
(***************************************************************************)
(* What a user types and what is read at the other end: a line becomes a   *)
(* command (CommandParser), its argument a message body (Codec), and the   *)
(* handler of OnMessage or ExecuteMessages takes the body apart again.     *)
(* On the way the message is unchanged (Connection).                       *)
(***************************************************************************)
EXTENDS Codec, CommandParser

CONSTANTS
  Lines,       \* bound of the model: the lines typed, [word, rest]
  MaxIds,      \* bound of the model: clients in a list
  MaxText      \* bound of the model: characters of a text

IdsFit == Modulus = Power(Base, IdBytes)
ListFits == MaxIds * IdBytes < Power(Base, IdBytes)
TextFits == MaxText < Power(Base, LengthBytes) /\ MaxText + LengthBytes < Power(Base, IdBytes)

ASSUME ConsoleAssumption ==
  /\ \A l \in Lines :
       /\ l \in [word : STRING, rest : Seq(STRING)]
       /\ l.rest # <<>> => l.rest[1] = " "
  /\ MaxIds \in Nat /\ MaxText \in Nat
  /\ IdsFit /\ ListFits /\ TextFits

VARIABLES
  phase,      \* what happens to the message
  line,       \* the line that was typed
  put,        \* the characters or the ids that were put
  msg,
  i,          \* ExecuteMessages' loop over a list
  shown       \* what the handler took from the message

vars == <<phase, line, put, msg, i, shown>>

NoLine == [word |-> "", rest |-> <<>>]     \* main does not parse an empty line
Texts == UNION {[1 .. n -> Byte] : n \in 0 .. MaxText}
Lists == UNION {[1 .. n -> Id] : n \in 0 .. MaxIds}

Init ==
  /\ phase = "prompt"
  /\ line = NoLine
  /\ put = <<>>
  /\ msg = NoBody
  /\ i = 0
  /\ shown = <<>>

Sent(next, m) ==
  /\ phase = "prompt"
  /\ phase' = next
  /\ msg' = m
  /\ UNCHANGED shown

\* main's loop; the commands without a number are messages without a body
TypeLine(l) ==
  /\ l # NoLine
  /\ LET c == StrToCommand(l) IN
       IF c.prefix = "ConnectTo" THEN Sent("request", PutId(NoBody, c.id))
                                 ELSE Sent(c.prefix, NoBody)
  /\ line' = l
  /\ UNCHANGED <<put, i>>

\* OpenChatWithClient
TypeText(text) ==
  /\ Sent("text", PutText(NoBody, text))
  /\ put' = text
  /\ UNCHANGED <<line, i>>

\* the server's ClientList
SendList(ids) ==
  LET m[k \in 0 .. Len(ids)] == IF k = 0 THEN NoBody ELSE PutId(m[k - 1], ids[k]) IN
    /\ Sent("list", m[Len(ids)])
    /\ put' = ids
    /\ UNCHANGED line
    /\ i' = Len(m[Len(ids)].body) \div IdBytes

Underflow == phase' = "underflow" /\ UNCHANGED <<line, put, msg, i, shown>>

\* the server's RequestToClient
ReadRequest ==
  /\ phase = "request"
  /\ IF Has(msg, IdBytes)
     THEN /\ shown' = <<Number(Last(msg, IdBytes))>>
          /\ msg' = Drop(msg, IdBytes)
          /\ phase' = "request shown"
          /\ UNCHANGED <<line, put, i>>
     ELSE Underflow

ReadText ==
  /\ phase = "text"
  /\ IF HasText(msg)
     THEN /\ shown' = TextOf(msg)
          /\ msg' = WithoutText(msg)
          /\ phase' = "text shown"
          /\ UNCHANGED <<line, put, i>>
     ELSE Underflow

\* Mutant: the line printed for an id counts from the front.
PrintedFront(id) == Append(shown, id)

\* "Client id #:" << i: the last id put is printed first, as the last
Printed(id) == <<id>> \o shown

\* one round of the loop over a list, or its end
ReadList ==
  /\ phase = "list"
  /\ IF i = 0 THEN phase' = "list shown" /\ UNCHANGED <<line, put, msg, i, shown>>
     ELSE IF Has(msg, IdBytes)
     THEN /\ shown' = Printed(Number(Last(msg, IdBytes)))
          /\ msg' = Drop(msg, IdBytes)
          /\ i' = i - 1
          /\ UNCHANGED <<phase, line, put>>
     ELSE Underflow

Next ==
  \/ \E l \in Lines : TypeLine(l)
  \/ \E text \in Texts : TypeText(text)
  \/ \E ids \in Lists : SendList(ids)
  \/ ReadRequest \/ ReadText \/ ReadList

Spec == Init /\ [][Next]_vars

-----------------------------------------------------------------------------
(* Properties *)

\* The type invariant.
TypeOK ==
  /\ phase \in {"prompt", "request", "request shown", "text", "text shown", "list",
                "list shown", "underflow", "Blank", "ServerPing", "ClientList", "HelloAll",
                "RequestAccept", "RequestDecline", "Help"}
  /\ line \in Lines \cup {NoLine}
  /\ put \in Texts \cup Lists
  /\ msg \in [size : Id, body : Seq(Byte)]
  /\ i \in 0 .. MaxIds
  /\ shown \in Texts \cup Lists \cup [1 .. 1 -> Id]

\* No handler takes more from a body than was put into it.
NoUnderflow == phase # "underflow"

\* Reference: s is spaces and then the number n, one digit for each power of ten.
IsNumber(s, n) ==
  \E k \in 0 .. Len(s) - 1 :
    /\ n < Power(10, Len(s) - k)
    /\ \A j \in 1 .. k : s[j] = " "
    /\ \A j \in k + 1 .. Len(s) : s[j] = DigitChars[1 + ((n \div Power(10, Len(s) - j)) % 10)]

\* A number typed after ConnectTo is the id the server looks up, and one that an
\* id cannot hold is not looked up as another; texts and lists arrive as they
\* were, to the last character and in their order.
ShownAsTyped ==
  /\ phase = "request shown" =>
       \A n \in 0 .. Power(10, Len(line.rest)) : IsNumber(Tail(line.rest), n) => shown = <<n>>
  /\ phase \in {"text shown", "list shown"} => shown = put /\ msg = NoBody

\* A ConnectTo followed by a number that fits is never turned down.
NumberIsAccepted ==
  phase = "Blank" /\ line.word = "ConnectTo" /\ line.rest # <<>> =>
    \A n \in Id : ~ IsNumber(Tail(line.rest), n)
=============================================================================
