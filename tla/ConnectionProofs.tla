-------------------------- MODULE ConnectionProofs -------------------------
(***************************************************************************)
(* TLAPS proofs about Connection, for any number of messages and short     *)
(* reads: the write chain never stalls, a client is refused only if it was *)
(* early or a read was short, and each direction is an ordered channel.    *)
(***************************************************************************)
EXTENDS Connection, SequenceTheorems, TLAPS

(* The place of a word in the stream of one direction, and of the one      *)
(* behind it.                                                              *)
At(word) == <<word.kind, word.n>>
After(word) == IF word.kind = "header" /\ word.size = 1 THEN <<"body", word.n>>
                                                        ELSE <<"header", word.n + 1>>

(* The words w belong to the messages s; they are those between two        *)
(* places, as long as the end that writes them is alive.                   *)
IsWordOf(word, s) ==
  /\ word.kind \in {"header", "body"} /\ word.n \in 1 .. Len(s)
  /\ word.kind = "header" => word.size = s[word.n].size

Linked(w, s, from, alive, to) ==
  /\ \A i \in 1 .. Len(w) : IsWordOf(w[i], s)
  /\ w # <<>> => At(w[1]) = from
  /\ \A i \in 1 .. Len(w) - 1 : At(w[i + 1]) = After(w[i])
  /\ alive => to = IF w = <<>> THEN from ELSE After(w[Len(w)])

Fresh(e) == reading[e] \in {"none", "code"}

(* How many messages the write chain of an end has done with.              *)
Popped(e) == Len(sent[e]) - Len(posted[e]) - Len(m_qMessagesOut[e])

(* The place that the read chain of an end has come to, and the one that   *)
(* the write chain has come to.                                            *)
Expected(e) == <<IF reading[e] = "body" THEN "body" ELSE "header", Len(received[e]) + 1>>
ToWrite(e) ==
  LET n == Popped(e) + 1 IN
    IF writing[e] = "none" THEN <<"header", n>>
    ELSE IF writing[e] = "header" /\ sent[e][n].size = 1 THEN <<"body", n>>
    ELSE <<"header", n + 1>>

CanWrite(e) == sock[e] # "closed" /\ writing[e] # "failed"

Between(e, w) ==
  Linked(w, sent[Other(e)], Expected(e), CanWrite(Other(e)), ToWrite(Other(e)))

(* Before an end has read its code, only a stream that begins with the     *)
(* code matters: the server refuses any other.                             *)
WireOk(e) ==
  sock[e] # "closed" =>
    IF Fresh(e)
    THEN /\ wire[e] = <<>> => Between(e, <<>>)
         /\ wire[e] # <<>> /\ wire[e][1].kind = "code" => Between(e, Tail(wire[e]))
    ELSE Between(e, wire[e])

(* Each message is numbered; what is queued or posted is what was sent     *)
(* last.                                                                   *)
SentOk(e) ==
  /\ Len(sent[e]) <= MaxSends
  /\ \A i \in 1 .. Len(sent[e]) : sent[e][i] \in {Sized(i), Unsized(i)}
  /\ Popped(e) >= 0
  /\ \A i \in 1 .. Len(m_qMessagesOut[e]) : m_qMessagesOut[e][i] = sent[e][Popped(e) + i]
  /\ \A i \in 1 .. Len(posted[e]) :
       posted[e][i] = sent[e][Popped(e) + Len(m_qMessagesOut[e]) + i]

(* What was received is what was sent first.                               *)
ReceivedOk(e) ==
  /\ Len(received[e]) <= Len(sent[Other(e)])
  /\ \A i \in 1 .. Len(received[e]) :
       /\ received[e][i].n = i /\ received[e][i].size = sent[Other(e)][i].size
       /\ received[e][i].size = 1 => received[e][i].body = i
  /\ reading[e] = "body" =>
       /\ Len(received[e]) < Len(sent[Other(e)])
       /\ m_msgBuff[e].n = Len(received[e]) + 1 /\ m_msgBuff[e].size = 1
       /\ sent[Other(e)][Len(received[e]) + 1].size = 1

(* The two chains run on an open socket; the write chain is at rest        *)
(* exactly when there is nothing to write.                                 *)
ChainOk(e) ==
  /\ reading[e] # "none" \/ writing[e] \in {"header", "body"} => sock[e] = "open"
  /\ sock[e] # "closed" => (m_qMessagesOut[e] = <<>> <=> writing[e] = "none")

EndInv == \A e \in Ends : WireOk(e) /\ SentOk(e) /\ ReceivedOk(e) /\ ChainOk(e)

(* Before it is accepted the client hears nothing.  Then the server's code *)
(* is the first word it reads, and the server is not answered before that. *)
Unaccepted ==
  sock["server"] = "none" =>
    /\ wire["client"] = <<>> /\ sent["server"] = <<>> /\ Fresh("client")
    /\ reading["server"] = "none" /\ writing["server"] = "none"
CodeComesFirst ==
  sock["server"] # "none" /\ sock["client"] # "closed" /\ Fresh("client") =>
    wire["client"] # <<>> /\ wire["client"][1] = Code(TRUE)
NoAnswerYet ==
  sock["client"] # "closed" /\ sock["server"] # "closed" /\ Fresh("client") =>
    /\ Fresh("server")
    /\ wire["server"] = <<>> \/ wire["server"][1].kind # "code"

(* What comes to the server before the right answer was sent early, or the *)
(* answer is wrong because of a short read.                                *)
EarlyIsNoted == sent["client"] # <<>> /\ received["client"] = <<>> => early
AnswerIsRight ==
  sock["server"] # "closed" /\ Fresh("server") =>
    /\ received["client"] # <<>> \/ ~ Fresh("client") => wire["server"] # <<>>
    /\ wire["server"] # <<>> /\ wire["server"][1] # Code(TRUE) => early \/ short > 0

HandshakeInv ==
  Unaccepted /\ CodeComesFirst /\ NoAnswerYet /\ EarlyIsNoted /\ AnswerIsRight

IInv == TypeOK /\ EndInv /\ HandshakeInv /\ RefusedOnlyIfEarly

-----------------------------------------------------------------------------
(* Words between two places *)

LEMMA LinkedAppend ==
  ASSUME NEW w \in Seq(Word), NEW word \in Word, NEW s, NEW from, NEW alive,
         Linked(w, s, from, TRUE, At(word)), IsWordOf(word, s)
  PROVE  Linked(Append(w, word), s, from, alive, After(word))
<1> DEFINE v == Append(w, word)
<1>1. /\ Len(w) \in Nat /\ Len(v) = Len(w) + 1 /\ v # <<>> /\ v[Len(w) + 1] = word
      /\ \A i \in 1 .. Len(w) : v[i] = w[i]
  OBVIOUS
<1> HIDE DEF v
<1>2. \A i \in 1 .. Len(v) : IsWordOf(v[i], s)
  BY <1>1 DEF Linked
<1>3. At(v[1]) = from
  <2>1. CASE w = <<>>
    BY <1>1, <2>1 DEF Linked
  <2>2. CASE w # <<>>
    BY <1>1, <2>2 DEF Linked
  <2>3. QED
    BY <2>1, <2>2
<1>4. ASSUME NEW i \in 1 .. Len(v) - 1
      PROVE  At(v[i + 1]) = After(v[i])
  <2>1. CASE i \in 1 .. Len(w) - 1
    BY <1>1, <2>1 DEF Linked
  <2>2. CASE i = Len(w)
    <3>1. w # <<>>
      BY <1>1, <2>2
    <3>2. At(word) = After(w[Len(w)])
      BY <3>1 DEF Linked
    <3>3. QED
      BY <1>1, <2>2, <3>2
  <2>3. QED
    BY <1>1, <2>1, <2>2
<1>5. QED
  BY <1>1, <1>2, <1>3, <1>4 DEF Linked, v

LEMMA LinkedTail ==
  ASSUME NEW w \in Seq(Word), w # <<>>, NEW s, NEW from, NEW alive, NEW to,
         Linked(w, s, from, alive, to)
  PROVE  /\ Head(w) = w[1] /\ w[1] \in Word /\ IsWordOf(w[1], s) /\ At(w[1]) = from
         /\ Linked(Tail(w), s, After(w[1]), alive, to)
<1> DEFINE v == Tail(w)
<1>1. /\ Len(w) \in Nat \ {0} /\ Len(v) = Len(w) - 1 /\ (v = <<>> <=> Len(w) = 1)
      /\ \A i \in 1 .. Len(v) : v[i] = w[i + 1]
      /\ Head(w) = w[1] /\ 1 \in 1 .. Len(w) /\ w[1] \in Word
  <2> HIDE DEF Word
  <2>1. Len(w) \in Nat \ {0} /\ Head(w) = w[1]
    OBVIOUS
  <2>2. v \in Seq(Word) /\ Len(v) = Len(w) - 1 /\ \A i \in 1 .. Len(v) : v[i] = w[i + 1]
    OBVIOUS
  <2>3. v = <<>> <=> Len(v) = 0
    BY <2>2, EmptySeq
  <2>4. QED
    BY <2>1, <2>2, <2>3
<1> HIDE DEF v
<1>2. \A i \in 1 .. Len(v) : IsWordOf(v[i], s)
  BY <1>1 DEF Linked
<1>3. v # <<>> => At(v[1]) = After(w[1])
  BY <1>1 DEF Linked
<1>4. \A i \in 1 .. Len(v) - 1 : At(v[i + 1]) = After(v[i])
  BY <1>1 DEF Linked
<1>5. alive => to = IF v = <<>> THEN After(w[1]) ELSE After(v[Len(v)])
  BY <1>1 DEF Linked
<1>6. QED
  BY <1>1, <1>2, <1>3, <1>4, <1>5 DEF Linked, v

LEMMA LinkedLonger ==
  ASSUME NEW w, NEW s \in Seq(Message), NEW m \in Message, NEW from, NEW alive, NEW to,
         Linked(w, s, from, alive, to)
  PROVE  Linked(w, Append(s, m), from, alive, to)
<1>1. /\ Len(s) \in Nat /\ Len(Append(s, m)) = Len(s) + 1
      /\ \A i \in 1 .. Len(s) : Append(s, m)[i] = s[i] /\ i \in 1 .. Len(Append(s, m))
  OBVIOUS
<1>2. \A i \in 1 .. Len(w) : IsWordOf(w[i], Append(s, m))
  BY <1>1 DEF Linked, IsWordOf
<1>3. QED
  BY <1>2 DEF Linked

LEMMA LinkedWeaker ==
  ASSUME NEW w, NEW s, NEW from, NEW alive, NEW to, Linked(w, s, from, alive, to),
         NEW alive1, NEW to1, alive1 => alive /\ to1 = to
  PROVE  Linked(w, s, from, alive1, to1)
BY DEF Linked

LEMMA LinkedEmpty ==
  ASSUME NEW s, NEW from, NEW alive, NEW to
  PROVE  Linked(<<>>, s, from, alive, to) <=> (alive => to = from)
BY DEF Linked

-----------------------------------------------------------------------------
(* Ends, messages and words *)

LEMMA EndFacts ==
  /\ "server" \in Ends /\ "client" \in Ends /\ "server" # "client"
  /\ Other("server") = "client" /\ Other("client") = "server"
  /\ \A e \in Ends : Other(e) \in Ends /\ Other(e) # e /\ Other(Other(e)) = e
  /\ \A d, e \in Ends : d = e \/ d = Other(e)
BY DEF Ends, Other

LEMMA TailFacts ==
  ASSUME NEW S, NEW p \in Seq(S), p # <<>>
  PROVE  /\ Head(p) \in S /\ Head(p) = p[1] /\ Len(p) \in Nat \ {0}
         /\ Tail(p) \in Seq(S) /\ Len(Tail(p)) = Len(p) - 1
         /\ \A i \in 1 .. Len(Tail(p)) : Tail(p)[i] = p[i + 1]
<1>1. Len(p) \in Nat \ {0}
  BY EmptySeq
<1>2. Tail(p) \in Seq(S) /\ Len(Tail(p)) = Len(p) - 1
  BY <1>1
<1>3. \A i \in 1 .. Len(Tail(p)) : Tail(p)[i] = p[i + 1]
  BY <1>1, <1>2
<1>4. Head(p) = p[1] /\ p[1] \in S
  BY <1>1
<1>5. QED
  BY <1>1, <1>2, <1>3, <1>4

LEMMA AppendFacts ==
  ASSUME NEW S, NEW q \in Seq(S), NEW x \in S
  PROVE  /\ Append(q, x) \in Seq(S) /\ Append(q, x) # <<>> /\ Len(q) \in Nat
         /\ Len(Append(q, x)) = Len(q) + 1 /\ Append(q, x)[Len(q) + 1] = x
         /\ \A i \in 1 .. Len(q) : Append(q, x)[i] = q[i]
OBVIOUS

LEMMA MessageFacts ==
  /\ \A n \in 1 .. MaxSends : Sized(n) \in Message /\ Unsized(n) \in Message
  /\ \A m \in Message :
       /\ m.n \in 1 .. MaxSends /\ m.size \in {0, 1}
       /\ m.body = IF m.size = 1 THEN m.n ELSE NoBody
       /\ m.body # NoBody <=> m.size = 1
       /\ m = IF m.size = 1 THEN Sized(m.n) ELSE Unsized(m.n)
       /\ Header(m) \in Word
       /\ m.size = 1 => Body(m) \in Word /\ At(Body(m)) = <<"body", m.n>>
       /\ At(Header(m)) = <<"header", m.n>>
       /\ Header(m).kind = "header" /\ Header(m).n = m.n /\ Header(m).size = m.size
       /\ After(Header(m)) = IF m.size = 1 THEN <<"body", m.n>> ELSE <<"header", m.n + 1>>
       /\ Body(m).kind = "body" /\ Body(m).n = m.body
<1> USE DEF Sized, Unsized, NoBody, Header, Body, Word, At, After
<1>1. \A n \in 1 .. MaxSends : Sized(n) \in Message /\ Unsized(n) \in Message
  BY DEF Message
<1>2. ASSUME NEW m \in Message
      PROVE  \E n \in 1 .. MaxSends : m = Sized(n) \/ m = Unsized(n)
  BY DEF Message
<1>3. ASSUME NEW m \in Message
      PROVE  /\ m.n \in 1 .. MaxSends /\ m.size \in {0, 1}
             /\ m.body = IF m.size = 1 THEN m.n ELSE NoBody
             /\ m.body # NoBody <=> m.size = 1
             /\ m = IF m.size = 1 THEN Sized(m.n) ELSE Unsized(m.n)
  <2>1. PICK n \in 1 .. MaxSends : m = Sized(n) \/ m = Unsized(n)
    BY <1>2
  <2>2. n # 0
    OBVIOUS
  <2>3. CASE m = Sized(n)
    BY <2>2, <2>3
  <2>4. CASE m = Unsized(n)
    BY <2>4
  <2>5. QED
    BY <2>1, <2>3, <2>4
<1> HIDE DEF Sized, Unsized
<1>4. ASSUME NEW m \in Message
      PROVE  /\ Header(m) \in Word
             /\ m.size = 1 => Body(m) \in Word /\ At(Body(m)) = <<"body", m.n>>
             /\ At(Header(m)) = <<"header", m.n>>
             /\ Header(m).kind = "header" /\ Header(m).n = m.n /\ Header(m).size = m.size
             /\ After(Header(m)) = IF m.size = 1 THEN <<"body", m.n>> ELSE <<"header", m.n + 1>>
             /\ Body(m).kind = "body" /\ Body(m).n = m.body
  BY <1>3
<1>5. QED
  BY <1>1, <1>3, <1>4

LEMMA CodeFacts ==
  \A right \in BOOLEAN : Code(right) \in Word /\ Code(right).kind = "code"
BY DEF Code, Word

-----------------------------------------------------------------------------
(* An end that closes *)

LEMMA ClosedInv ==
  ASSUME IInv, NEW e \in Ends, e = "server" => sock[e] # "none", Closed(e),
         wire' \in [Ends -> Seq(Word)], wire'[Other(e)] = wire[Other(e)],
         wire'["client"] = wire["client"],
         short' \in 0 .. MaxShort, short' >= short,
         refused' \in BOOLEAN, refused' => early \/ short' > 0
  PROVE  IInv'
<1> USE DEF IInv
<1>1. /\ \A d \in Ends : sock'[d] = IF d = e THEN "closed" ELSE sock[d]
      /\ \A d \in Ends : reading'[d] = IF d = e THEN "none" ELSE reading[d]
      /\ \A d \in Ends : writing'[d] = IF d = e THEN "none" ELSE writing[d]
      /\ UNCHANGED <<m_qMessagesOut, m_msgBuff, posted, sent, received, early>>
  BY DEF Closed, buffers, TypeOK
<1>2. TypeOK'
  BY DEF TypeOK, Closed, buffers
<1>3. short \in Nat /\ short' \in Nat
  BY DEF TypeOK
<1>4. ASSUME NEW d \in Ends
      PROVE  (WireOk(d) /\ SentOk(d) /\ ReceivedOk(d) /\ ChainOk(d))'
  <2>1. WireOk(d) /\ SentOk(d) /\ ReceivedOk(d) /\ ChainOk(d)
    BY DEF EndInv
  <2>2. SentOk(d)'
    BY <1>1, <2>1 DEF SentOk, Popped
  <2>3. ReceivedOk(d)'
    BY <1>1, <2>1 DEF ReceivedOk
  <2>4. ChainOk(d)'
    BY <1>1, <2>1 DEF ChainOk
  <2>5. WireOk(d)'
    <3>1. SUFFICES ASSUME d = Other(e), sock[d] # "closed"
                   PROVE  WireOk(d)'
      BY <1>1, EndFacts DEF WireOk
    <3>2. d # e /\ Other(d) = e
      BY <3>1, EndFacts
    <3>3. /\ wire'[d] = wire[d] /\ Fresh(d)' = Fresh(d) /\ Expected(d)' = Expected(d)
          /\ ~ CanWrite(e)'
      BY <1>1, <3>1, <3>2 DEF Fresh, Expected, CanWrite
    <3>4. ASSUME NEW w, Between(d, w), NEW to
          PROVE  Linked(w, sent[e], Expected(d), FALSE, to)
      BY <3>2, <3>4, LinkedWeaker DEF Between
    <3>5. ASSUME NEW w, Between(d, w)
          PROVE  Between(d, w)'
      <4>1. Linked(w, sent[e], Expected(d), FALSE, ToWrite(e)')
        BY <3>4, <3>5
      <4>2. CanWrite(e)' = FALSE
        BY <3>3 DEF CanWrite
      <4>3. QED
        BY <1>1, <3>2, <3>3, <4>1, <4>2 DEF Between
    <3>6. sock[d] # "closed" /\ sock'[d] # "closed"
      BY <1>1, <3>1, <3>2
    <3>7. /\ wire[d] = <<>> => (Between(d, <<>>) => Between(d, <<>>)')
          /\ Between(d, Tail(wire[d])) => Between(d, Tail(wire[d]))'
          /\ Between(d, wire[d]) => Between(d, wire[d])'
      BY <3>5, <3>3
    <3>8. QED
      BY <2>1, <3>3, <3>6, <3>7 DEF WireOk
  <2>6. QED
    BY <2>2, <2>3, <2>4, <2>5
<1>5. HandshakeInv'
  <2>1. /\ Unaccepted /\ CodeComesFirst /\ NoAnswerYet /\ EarlyIsNoted /\ AnswerIsRight
        /\ sock'[e] = "closed" /\ wire'["client"] = wire["client"]
        /\ short > 0 => short' > 0
    BY <1>1, <1>3 DEF HandshakeInv
  <2>2. EarlyIsNoted'
    BY <1>1, <2>1 DEF EarlyIsNoted
  <2>3. CASE e = "client"
    <3>1. /\ sock'["client"] = "closed" /\ sock'["server"] = sock["server"]
          /\ wire'["server"] = wire["server"]
          /\ Fresh("client")' /\ Fresh("server")' = Fresh("server")
          /\ reading'["server"] = reading["server"] /\ writing'["server"] = writing["server"]
      BY <1>1, <2>1, <2>3, EndFacts DEF Fresh
    <3>2. Unaccepted' /\ CodeComesFirst' /\ NoAnswerYet'
      BY <1>1, <2>1, <3>1 DEF Unaccepted, CodeComesFirst, NoAnswerYet
    <3>3. AnswerIsRight'
      BY <1>1, <2>1, <3>1 DEF AnswerIsRight
    <3>4. QED
      BY <2>2, <3>2, <3>3 DEF HandshakeInv
  <2>4. CASE e = "server"
    <3>1. /\ sock'["server"] = "closed" /\ sock'["client"] = sock["client"]
          /\ Fresh("client")' = Fresh("client") /\ sock["server"] # "none"
      BY <1>1, <2>4, EndFacts DEF Fresh
    <3>2. Unaccepted' /\ NoAnswerYet' /\ AnswerIsRight'
      BY <3>1 DEF Unaccepted, NoAnswerYet, AnswerIsRight
    <3>3. CodeComesFirst'
      BY <2>1, <3>1 DEF CodeComesFirst
    <3>4. QED
      BY <2>2, <3>2, <3>3 DEF HandshakeInv
  <2>5. QED
    BY <2>3, <2>4 DEF Ends
<1>6. RefusedOnlyIfEarly'
  BY <1>1 DEF RefusedOnlyIfEarly
<1>7. QED
  BY <1>2, <1>4, <1>5, <1>6 DEF EndInv

-----------------------------------------------------------------------------
(* An end that reads, an end that writes *)

LEMMA ReaderInv ==
  ASSUME IInv, TypeOK', NEW e \in Ends, ~ Fresh(e), ~ Fresh(e)', reading[e] # "none",
         wire[e] # <<>>, wire' = [wire EXCEPT ![e] = Tail(@)],
         Between(e, wire[e]) => Expected(e)' = After(wire[e][1]),
         ReceivedOk(e)', received'[e] = <<>> => received[e] = <<>>,
         \A d \in Ends \ {e} : /\ reading'[d] = reading[d] /\ received'[d] = received[d]
                              /\ m_msgBuff'[d] = m_msgBuff[d],
         UNCHANGED <<sock, writing, m_qMessagesOut, posted, sent, early, refused, short>>
  PROVE  IInv'
<1> USE DEF IInv
<1>1. /\ sock[e] = "open" /\ reading'[e] # "none"
      /\ \A d \in Ends : WireOk(d) /\ SentOk(d) /\ ReceivedOk(d) /\ ChainOk(d)
  BY DEF EndInv, ChainOk, Fresh
<1>2. /\ wire[e] \in Seq(Word) /\ wire'[e] = Tail(wire[e])
      /\ \A d \in Ends \ {e} : wire'[d] = wire[d]
  BY DEF TypeOK
<1>3. ASSUME NEW d \in Ends
      PROVE  (WireOk(d) /\ SentOk(d) /\ ReceivedOk(d) /\ ChainOk(d))'
  <2>1. SentOk(d)'
    BY <1>1 DEF SentOk, Popped
  <2>2. ReceivedOk(d)'
    <3>1. CASE d = e
      BY <3>1
    <3>2. CASE d # e
      <4>1. ReceivedOk(d)
        BY <1>1
      <4>2. /\ reading'[d] = reading[d] /\ received'[d] = received[d]
            /\ m_msgBuff'[d] = m_msgBuff[d] /\ sent' = sent
        BY <3>2
      <4>3. QED
        BY <4>1, <4>2 DEF ReceivedOk
    <3>3. QED
      BY <3>1, <3>2
  <2>3. ChainOk(d)'
    BY <1>1 DEF ChainOk
  <2>4. CASE d = e
    <3>1. Between(e, wire[e])
      BY <1>1 DEF WireOk
    <3>2. Linked(Tail(wire[e]), sent[Other(e)], After(wire[e][1]), CanWrite(Other(e)),
                 ToWrite(Other(e)))
      BY <1>2, <3>1, LinkedTail DEF Between
    <3>3. CanWrite(Other(e))' = CanWrite(Other(e)) /\ ToWrite(Other(e))' = ToWrite(Other(e))
      BY DEF CanWrite, ToWrite, Popped
    <3>4. Between(e, wire[e])' = Linked(wire'[e], sent[Other(e)], After(wire[e][1]),
                                        CanWrite(Other(e)), ToWrite(Other(e)))
      BY <3>1, <3>3 DEF Between
    <3>5. WireOk(e)'
      BY <1>2, <3>2, <3>4 DEF WireOk
    <3>6. QED
      BY <2>1, <2>2, <2>3, <2>4, <3>5
  <2>5. CASE d # e
    <3>1. /\ Fresh(d)' = Fresh(d) /\ Expected(d)' = Expected(d) /\ wire'[d] = wire[d]
          /\ CanWrite(Other(d))' = CanWrite(Other(d)) /\ ToWrite(Other(d))' = ToWrite(Other(d))
      BY <1>2, <2>5 DEF Fresh, Expected, CanWrite, ToWrite, Popped
    <3>2. WireOk(d)'
      BY <1>1, <3>1 DEF WireOk, Between
    <3>3. QED
      BY <2>1, <2>2, <2>3, <3>2
  <2>6. QED
    BY <2>4, <2>5
<1>4. HandshakeInv'
  <2>1. /\ Unaccepted /\ CodeComesFirst /\ NoAnswerYet /\ EarlyIsNoted /\ AnswerIsRight
        /\ sock["server"] = "none" => e # "server"
    BY <1>1 DEF HandshakeInv
  <2>2. EarlyIsNoted'
    <3>1. received'["client"] = <<>> => received["client"] = <<>>
      BY EndFacts
    <3>2. QED
      BY <2>1, <3>1 DEF EarlyIsNoted
  <2>3. CASE e = "client"
    <3>1. /\ wire'["server"] = wire["server"] /\ reading'["server"] = reading["server"]
          /\ Fresh("server")' = Fresh("server") /\ ~ Fresh("client") /\ ~ Fresh("client")'
      BY <1>2, <2>3, EndFacts DEF Fresh
    <3>2. Unaccepted' /\ CodeComesFirst' /\ NoAnswerYet'
      BY <2>1, <3>1 DEF Unaccepted, CodeComesFirst, NoAnswerYet
    <3>3. AnswerIsRight'
      BY <2>1, <3>1 DEF AnswerIsRight
    <3>4. QED
      BY <2>2, <3>2, <3>3 DEF HandshakeInv
  <2>4. CASE e = "server"
    <3>1. /\ wire'["client"] = wire["client"] /\ Fresh("client")' = Fresh("client")
          /\ sock["server"] = "open" /\ ~ Fresh("server") /\ ~ Fresh("server")'
      BY <1>1, <1>2, <2>4, EndFacts DEF Fresh
    <3>2. Unaccepted' /\ CodeComesFirst' /\ NoAnswerYet' /\ AnswerIsRight'
      BY <2>1, <3>1 DEF Unaccepted, CodeComesFirst, NoAnswerYet, AnswerIsRight
    <3>3. QED
      BY <2>2, <3>2 DEF HandshakeInv
  <2>5. QED
    BY <2>3, <2>4 DEF Ends
<1>5. RefusedOnlyIfEarly'
  BY DEF RefusedOnlyIfEarly
<1>6. QED
  BY <1>3, <1>4, <1>5 DEF EndInv

LEMMA WriterInv ==
  ASSUME IInv, TypeOK', NEW e \in Ends, e = "server" => sock[e] # "none",
         SentOk(e)', ChainOk(e)',
         NEW puts \in BOOLEAN, NEW word \in Word,
         puts => /\ CanWrite(e) /\ IsWordOf(word, sent[e]) /\ ToWrite(e) = At(word)
                 /\ Put(e, word)
                 /\ CanWrite(e)' => ToWrite(e)' = After(word),
         ~ puts => /\ wire' = wire
                   /\ CanWrite(e)' => CanWrite(e) /\ ToWrite(e)' = ToWrite(e),
         \A d \in Ends \ {e} : /\ m_qMessagesOut'[d] = m_qMessagesOut[d]
                              /\ writing'[d] = writing[d] /\ posted'[d] = posted[d],
         UNCHANGED <<sock, reading, m_msgBuff, sent, received, early, refused, short>>
  PROVE  IInv'
<1> DEFINE o == Other(e)
           StillBetween(w) == Linked(w, sent[e], Expected(o), CanWrite(e)', ToWrite(e)')
<1>1. /\ o \in Ends /\ o # e /\ Other(o) = e
      /\ \A d \in Ends : d = e \/ d = o
      /\ \A d \in Ends : WireOk(d) /\ SentOk(d) /\ ReceivedOk(d) /\ ChainOk(d)
  BY EndFacts DEF EndInv, IInv
<1>2. /\ wire[o] \in Seq(Word) /\ wire[e] \in Seq(Word) /\ wire'[e] = wire[e]
      /\ wire'[o] = IF puts THEN Append(wire[o], word) ELSE wire[o]
  <2>1. wire \in [Ends -> Seq(Word)]
    BY DEF TypeOK, IInv
  <2>2. CASE puts
    <3>1. wire' = [wire EXCEPT ![o] = Append(wire[o], word)]
      BY <2>2 DEF Put
    <3>2. QED
      BY <1>1, <2>1, <2>2, <3>1
  <2>3. CASE ~ puts
    BY <1>1, <2>1, <2>3
  <2>4. QED
    BY <2>2, <2>3
<1>3. \A d \in Ends : Fresh(d)' = Fresh(d) /\ Expected(d)' = Expected(d)
  BY DEF Fresh, Expected
<1>4. puts => word.kind \in {"header", "body"} /\ sent[e] # <<>>
  BY DEF IsWordOf, TypeOK, IInv
<1>5. ASSUME NEW w \in Seq(Word), Between(o, w)
      PROVE  StillBetween(IF puts THEN Append(w, word) ELSE w)
  <2>1. CASE puts
    <3>1. Linked(w, sent[e], Expected(o), CanWrite(e), ToWrite(e))
      BY <1>1, <1>5 DEF Between
    <3>2. Linked(w, sent[e], Expected(o), TRUE, At(word))
      BY <2>1, <3>1, LinkedWeaker
    <3>3. Linked(Append(w, word), sent[e], Expected(o), TRUE, After(word))
      BY <2>1, <3>2, LinkedAppend
    <3>4. CanWrite(e)' => TRUE /\ ToWrite(e)' = After(word)
      BY <2>1
    <3>5. StillBetween(Append(w, word))
      BY <3>3, <3>4, LinkedWeaker
    <3>6. QED
      BY <2>1, <3>5
  <2>2. CASE ~ puts
    <3>1. Linked(w, sent[e], Expected(o), CanWrite(e), ToWrite(e))
      BY <1>1, <1>5 DEF Between
    <3>2. StillBetween(w)
      BY <2>2, <3>1, LinkedWeaker
    <3>3. QED
      BY <2>2, <3>2
  <2>3. QED
    BY <2>1, <2>2
<1>6. WireOk(o)'
  <2>1. SUFFICES ASSUME sock[o] # "closed"
                 PROVE  IF Fresh(o)
                        THEN /\ wire'[o] = <<>> => StillBetween(<<>>)
                             /\ wire'[o] # <<>> /\ wire'[o][1].kind = "code" =>
                                  StillBetween(Tail(wire'[o]))
                        ELSE StillBetween(wire'[o])
    BY <1>1, <1>3 DEF WireOk, Between
  <2> HIDE DEF o, StillBetween
  <2>2. CASE ~ Fresh(o)
    <3>1. Between(o, wire[o])
      BY <1>1, <2>1, <2>2 DEF WireOk
    <3>2. QED
      BY <1>2, <1>5, <2>2, <3>1
  <2>3. CASE Fresh(o) /\ wire[o] = <<>>
    <3>1. CASE puts
      <4>1. wire'[o] # <<>> /\ wire'[o][1].kind # "code"
        BY <1>2, <1>4, <2>3, <3>1
      <4>2. QED
        BY <2>3, <4>1
    <3>2. CASE ~ puts
      <4>1. wire'[o] = <<>> /\ <<>> \in Seq(Word) /\ Between(o, <<>>)
        BY <1>1, <1>2, <2>1, <2>3, <3>2 DEF WireOk
      <4>2. StillBetween(<<>>)
        BY <1>5, <3>2, <4>1
      <4>3. QED
        BY <2>3, <4>1, <4>2
    <3>3. QED
      BY <3>1, <3>2
  <2>4. CASE Fresh(o) /\ wire[o] # <<>>
    <3>1. /\ wire'[o] # <<>> /\ wire'[o][1] = wire[o][1] /\ Tail(wire[o]) \in Seq(Word)
          /\ Tail(wire'[o]) = IF puts THEN Append(Tail(wire[o]), word) ELSE Tail(wire[o])
      <4> HIDE DEF Word
      <4>1. Tail(Append(wire[o], word)) = Append(Tail(wire[o]), word)
        BY <1>2, <2>4
      <4>2. /\ Append(wire[o], word) # <<>> /\ Append(wire[o], word)[1] = wire[o][1]
            /\ Tail(wire[o]) \in Seq(Word)
        BY <1>2, <2>4
      <4>3. QED
        BY <1>2, <2>4, <4>1, <4>2
    <3>2. wire[o][1].kind = "code" => Between(o, Tail(wire[o]))
      BY <1>1, <2>1, <2>4 DEF WireOk
    <3>3. wire[o][1].kind = "code" => StillBetween(Tail(wire'[o]))
      BY <1>5, <3>1, <3>2
    <3>4. QED
      BY <2>4, <3>1, <3>3
  <2>5. QED
    BY <2>2, <2>3, <2>4
<1>7. WireOk(e)'
  <2>1. /\ CanWrite(o)' = CanWrite(o) /\ ToWrite(o)' = ToWrite(o) /\ WireOk(e)
    BY <1>1 DEF CanWrite, ToWrite, Popped
  <2>2. \A w : Between(e, w)' = Between(e, w)
    BY <1>1, <1>3, <2>1 DEF Between
  <2>3. /\ Between(e, <<>>)' = Between(e, <<>>) /\ Between(e, wire[e])' = Between(e, wire[e])
        /\ Between(e, Tail(wire[e]))' = Between(e, Tail(wire[e]))
    BY <1>2, <1>1, <1>3, <2>1 DEF Between
  <2>4. QED
    BY <1>2, <1>3, <2>1, <2>3 DEF WireOk
<1>8. SentOk(o)' /\ ChainOk(o)'
  <2>1. /\ m_qMessagesOut'[o] = m_qMessagesOut[o] /\ writing'[o] = writing[o]
        /\ posted'[o] = posted[o] /\ sent'[o] = sent[o]
        /\ sock'[o] = sock[o] /\ reading'[o] = reading[o] /\ SentOk(o) /\ ChainOk(o)
    BY <1>1
  <2>2. SentOk(o)'
    BY <2>1 DEF SentOk, Popped
  <2>3. ChainOk(o)'
    BY <2>1 DEF ChainOk, Popped
  <2>4. QED
    BY <2>2, <2>3
<1>9. \A d \in Ends : ReceivedOk(d)'
  BY <1>1 DEF ReceivedOk
<1>10. HandshakeInv'
  <2>1. /\ Unaccepted /\ CodeComesFirst /\ NoAnswerYet /\ EarlyIsNoted /\ AnswerIsRight
    BY DEF HandshakeInv, IInv
  <2>2. EarlyIsNoted'
    BY <2>1 DEF EarlyIsNoted
  <2>3. CASE e = "client"
    <3>1. /\ wire'["client"] = wire["client"]
          /\ wire'["server"] = IF puts THEN Append(wire["server"], word) ELSE wire["server"]
          /\ writing'["server"] = writing["server"] /\ wire["server"] \in Seq(Word)
      BY <1>1, <1>2, <2>3, EndFacts
    <3>2. /\ wire["server"] # <<>> =>
               wire'["server"] # <<>> /\ wire'["server"][1] = wire["server"][1]
          /\ wire["server"] = <<>> /\ wire'["server"] # <<>> =>
               puts /\ wire'["server"][1] = word
      BY <3>1
    <3>3. wire["server"] = <<>> /\ wire'["server"] # <<>> /\ Fresh("server")
            /\ sock["server"] # "closed" => early
      BY <1>4, <2>1, <2>3, <3>2 DEF AnswerIsRight, EarlyIsNoted
    <3>4. Unaccepted' /\ CodeComesFirst'
      BY <1>3, <2>1, <3>1, EndFacts DEF Unaccepted, CodeComesFirst
    <3>5. NoAnswerYet'
      BY <1>3, <1>4, <2>1, <3>2, EndFacts DEF NoAnswerYet
    <3>6. AnswerIsRight'
      BY <1>3, <2>1, <3>2, <3>3, EndFacts DEF AnswerIsRight
    <3>7. QED
      BY <2>2, <3>4, <3>5, <3>6 DEF HandshakeInv
  <2>4. CASE e = "server"
    <3>1. /\ wire'["server"] = wire["server"] /\ sock["server"] # "none"
          /\ wire'["client"] = IF puts THEN Append(wire["client"], word) ELSE wire["client"]
          /\ wire["client"] \in Seq(Word)
      BY <1>1, <1>2, <2>4, EndFacts
    <3>2. wire["client"] # <<>> =>
            wire'["client"] # <<>> /\ wire'["client"][1] = wire["client"][1]
      BY <3>1
    <3>3. Unaccepted' /\ CodeComesFirst'
      BY <1>3, <2>1, <3>1, <3>2, EndFacts DEF Unaccepted, CodeComesFirst
    <3>4. NoAnswerYet' /\ AnswerIsRight'
      BY <1>3, <2>1, <3>1, EndFacts DEF NoAnswerYet, AnswerIsRight
    <3>5. QED
      BY <2>2, <3>3, <3>4 DEF HandshakeInv
  <2>5. QED
    BY <2>3, <2>4 DEF Ends
<1>11. RefusedOnlyIfEarly'
  BY DEF RefusedOnlyIfEarly, IInv
<1>12. ASSUME NEW d \in Ends
       PROVE  (WireOk(d) /\ SentOk(d) /\ ReceivedOk(d) /\ ChainOk(d))'
  <2>1. CASE d = e
    BY <1>7, <1>9, <2>1
  <2>2. CASE d = o
    BY <1>6, <1>8, <1>9, <2>2
  <2>3. QED
    BY <1>1, <2>1, <2>2
<1>13. QED
  BY <1>10, <1>11, <1>12 DEF EndInv, IInv

LEMMA LengthFacts ==
  ASSUME TypeOK, NEW e \in Ends
  PROVE  /\ Len(sent[e]) \in Nat /\ Len(posted[e]) \in Nat /\ Len(m_qMessagesOut[e]) \in Nat
         /\ Len(received[e]) \in Nat /\ Popped(e) \in Int
         /\ Len(sent[e]) = Popped(e) + Len(m_qMessagesOut[e]) + Len(posted[e])
         /\ m_qMessagesOut[e] = <<>> <=> Len(m_qMessagesOut[e]) = 0
<1>1. /\ sent[e] \in Seq(Message) /\ posted[e] \in Seq(Message)
      /\ m_qMessagesOut[e] \in Seq(Message)
      /\ received[e] \in Seq([n : 1 .. MaxSends, size : {0, 1}, body : 0 .. MaxSends])
  BY DEF TypeOK
<1>2. QED
  BY <1>1, EmptySeq DEF Popped

LEMMA SentFacts ==
  ASSUME NEW e \in Ends, SentOk(e), sent[e] \in Seq(Message), NEW i \in 1 .. Len(sent[e])
  PROVE  sent[e][i] \in Message /\ sent[e][i].n = i
<1>1. sent[e][i] \in Message /\ i # 0
  OBVIOUS
<1>2. sent[e][i] \in {Sized(i), Unsized(i)}
  BY DEF SentOk
<1>3. QED
  BY <1>1, <1>2 DEF Sized, Unsized

LEMMA HeaderStarts ==
  ASSUME IInv, TypeOK', NEW e \in Ends, e = "server" => sock[e] # "none", writing[e] # "failed",
         SentOk(e)', m_qMessagesOut'[e] # <<>>, WriteHeader(e, m_qMessagesOut'[e]),
         CanWrite(e) => ToWrite(e) = <<"header", Popped(e)' + 1>>,
         \A d \in Ends \ {e} : m_qMessagesOut'[d] = m_qMessagesOut[d] /\ posted'[d] = posted[d],
         UNCHANGED <<sock, reading, m_msgBuff, sent, received, early, refused, short>>
  PROVE  IInv'
<1> DEFINE k == Popped(e)' + 1
           m == Head(m_qMessagesOut'[e])
<1>1. k \in 1 .. Len(sent[e]) /\ m = sent[e][k]
  <2>1. /\ Len(sent[e]) \in Nat /\ Len(posted'[e]) \in Nat /\ Len(m_qMessagesOut'[e]) \in Nat
        /\ Popped(e)' \in Int
        /\ Len(sent[e]) = Popped(e)' + Len(m_qMessagesOut'[e]) + Len(posted'[e])
        /\ Len(m_qMessagesOut'[e]) # 0
    <3>1. /\ sent[e] \in Seq(Message) /\ posted'[e] \in Seq(Message)
          /\ m_qMessagesOut'[e] \in Seq(Message)
      BY DEF TypeOK, IInv
    <3>2. Popped(e)' = Len(sent[e]) - Len(posted'[e]) - Len(m_qMessagesOut'[e])
      BY DEF Popped
    <3>3. QED
      BY <3>1, <3>2, EmptySeq
  <2>2. /\ Popped(e)' >= 0
        /\ \A i \in 1 .. Len(m_qMessagesOut'[e]) : m_qMessagesOut'[e][i] = sent[e][Popped(e)' + i]
    BY DEF SentOk
  <2>3. m = m_qMessagesOut'[e][1]
    BY DEF TypeOK
  <2>4. QED
    BY <2>1, <2>2, <2>3
<1>2. m \in Message /\ m.n = k
  <2>1. SentOk(e) /\ sent[e] \in Seq(Message)
    BY DEF IInv, EndInv, TypeOK
  <2>2. QED
    BY <1>1, <2>1, SentFacts
<1>3. /\ Header(m) \in Word /\ At(Header(m)) = <<"header", k>> /\ IsWordOf(Header(m), sent[e])
      /\ After(Header(m)) = IF sent[e][k].size = 1 THEN <<"body", k>> ELSE <<"header", k + 1>>
  <2> HIDE DEF m, k
  <2>1. QED
    BY <1>1, <1>2, MessageFacts DEF IsWordOf
<1>4. ChainOk(e) /\ writing \in [Ends -> {"none", "header", "body", "failed"}]
  BY DEF IInv, EndInv, TypeOK
<1>5. \A d \in Ends \ {e} : writing'[d] = writing[d]
  BY <1>4 DEF WriteHeader
<1>6. CASE sock[e] = "open"
  <2>1. writing'[e] = "header" /\ Put(e, Header(m))
    BY <1>4, <1>6 DEF WriteHeader
  <2>2. CanWrite(e) /\ ToWrite(e) = At(Header(m))
    BY <1>3, <1>6 DEF CanWrite
  <2>3. ToWrite(e)' = After(Header(m))
    <3>1. ToWrite(e)' = IF sent[e][k].size = 1 THEN <<"body", k>> ELSE <<"header", k + 1>>
      BY <2>1 DEF ToWrite
    <3>2. QED
      BY <1>3, <3>1
  <2>4. ChainOk(e)'
    BY <1>4, <1>6, <2>1 DEF ChainOk
  <2> HIDE DEF m, k
  <2>5. QED
    BY <1>3, <1>5, <2>1, <2>2, <2>3, <2>4, WriterInv
<1>7. CASE sock[e] # "open"
  <2>1. writing'[e] = "failed" /\ wire' = wire
    BY <1>4, <1>7 DEF WriteHeader
  <2>2. ~ CanWrite(e)'
    BY <2>1 DEF CanWrite
  <2>3. ChainOk(e)'
    BY <1>4, <1>7, <2>1 DEF ChainOk
  <2>4. FALSE \in BOOLEAN
    OBVIOUS
  <2> HIDE DEF m, k
  <2>5. QED
    BY <1>3, <1>5, <2>1, <2>2, <2>3, <2>4, WriterInv
<1>8. QED
  BY <1>6, <1>7

-----------------------------------------------------------------------------
(* The write chain *)

LEMMA HeaderIsWord == \A m \in Message : Header(m) \in Word
BY MessageFacts

LEMMA HeaderKeepsTypes ==
  ASSUME NEW e \in Ends, NEW q, Header(Head(q)) \in Word, WriteHeader(e, q),
         wire \in [Ends -> Seq(Word)], writing \in [Ends -> {"none", "header", "body", "failed"}]
  PROVE  /\ wire' \in [Ends -> Seq(Word)]
         /\ writing' \in [Ends -> {"none", "header", "body", "failed"}]
<1>1. Other(e) \in Ends
  BY EndFacts
<1>2. \A v \in Seq(Word) : Append(v, Header(Head(q))) \in Seq(Word)
  BY AppendFacts
<1>3. wire' = wire \/ wire' = [wire EXCEPT ![Other(e)] = Append(wire[Other(e)], Header(Head(q)))]
  BY DEF WriteHeader, Put
<1>4. wire' \in [Ends -> Seq(Word)]
  BY <1>1, <1>2, <1>3
<1>5. QED
  BY <1>4 DEF WriteHeader

LEMMA RunPostedInv ==
  ASSUME IInv, NEW e \in Ends, RunPosted(e)
  PROVE  IInv'
<1> DEFINE p == posted[e]
           q == m_qMessagesOut[e]
<1>1. TypeOK /\ SentOk(e) /\ ChainOk(e) /\ Unaccepted
  BY DEF IInv, EndInv, HandshakeInv
<1>2. /\ p \in Seq(Message) /\ p # <<>> /\ q \in Seq(Message) /\ sent[e] \in Seq(Message)
  BY <1>1 DEF TypeOK, RunPosted
<1>3. /\ posted' = [posted EXCEPT ![e] = Tail(p)]
      /\ m_qMessagesOut' = [m_qMessagesOut EXCEPT ![e] = Append(q, Head(p))]
      /\ IF q = <<>> THEN WriteHeader(e, m_qMessagesOut'[e]) ELSE UNCHANGED <<wire, writing>>
      /\ UNCHANGED <<sock, reading, m_msgBuff, sent, received, early, refused, short>>
  BY <1>1 DEF RunPosted, StartsWriting, history, TypeOK
<1>4. /\ \A d \in Ends \ {e} : m_qMessagesOut'[d] = m_qMessagesOut[d] /\ posted'[d] = posted[d]
      /\ m_qMessagesOut'[e] = Append(q, Head(p)) /\ posted'[e] = Tail(p)
  BY <1>1, <1>3 DEF TypeOK
<1>5. /\ Head(p) \in Message /\ Head(p) = p[1] /\ Append(q, Head(p)) \in Seq(Message)
      /\ Append(q, Head(p)) # <<>> /\ Len(Append(q, Head(p))) = Len(q) + 1
      /\ \A i \in 1 .. Len(q) : Append(q, Head(p))[i] = q[i]
      /\ Append(q, Head(p))[Len(q) + 1] = p[1]
      /\ Tail(p) \in Seq(Message) /\ Len(Tail(p)) = Len(p) - 1 /\ Len(p) \in Nat \ {0}
      /\ \A i \in 1 .. Len(Tail(p)) : Tail(p)[i] = p[i + 1]
      /\ Len(q) \in Nat /\ Len(sent[e]) \in Nat
  <2> HIDE DEF p, q
  <2>1. Head(p) \in Message
    BY <1>2, TailFacts
  <2>2. QED
    BY <1>2, <2>1, TailFacts, AppendFacts
<1>6. /\ Popped(e)' = Popped(e) /\ Popped(e) \in Int
      /\ Popped(e) = Len(sent[e]) - Len(p) - Len(q)
  <2>1. Popped(e)' = Len(sent[e]) - (Len(p) - 1) - (Len(q) + 1)
    BY <1>3, <1>4, <1>5 DEF Popped
  <2>2. Popped(e) = Len(sent[e]) - Len(p) - Len(q)
    BY DEF Popped
  <2> HIDE DEF p, q
  <2>3. QED
    BY <1>5, <2>1, <2>2
<1>7. SentOk(e)'
  <2> HIDE DEF p, q
  <2>1. /\ Len(sent[e]) <= MaxSends /\ Popped(e) >= 0
        /\ \A i \in 1 .. Len(sent[e]) : sent[e][i] \in {Sized(i), Unsized(i)}
        /\ \A i \in 1 .. Len(q) : q[i] = sent[e][Popped(e) + i]
        /\ \A i \in 1 .. Len(p) : p[i] = sent[e][Popped(e) + Len(q) + i]
    BY <1>1 DEF SentOk, p, q
  <2>2. ASSUME NEW i \in 1 .. Len(q) + 1
        PROVE  Append(q, Head(p))[i] = sent[e][Popped(e) + i]
    <3>1. CASE i \in 1 .. Len(q)
      BY <1>5, <2>1, <3>1
    <3>2. CASE i = Len(q) + 1
      <4>1. 1 \in 1 .. Len(p) /\ Popped(e) + Len(q) + 1 = Popped(e) + i
        <5>1. Len(p) \in Nat \ {0} /\ Len(q) \in Nat /\ Popped(e) \in Int
          BY <1>5, <1>6
        <5>2. QED
          BY <3>2, <5>1
      <4>2. p[1] = sent[e][Popped(e) + Len(q) + 1]
        BY <2>1, <4>1
      <4>3. QED
        BY <1>5, <3>2, <4>1, <4>2
    <3>3. QED
      BY <1>5, <3>1, <3>2
  <2>3. ASSUME NEW i \in 1 .. Len(Tail(p))
        PROVE  Tail(p)[i] = sent[e][Popped(e) + (Len(q) + 1) + i]
    <3>1. i + 1 \in 1 .. Len(p) /\ Popped(e) + Len(q) + (i + 1) = Popped(e) + (Len(q) + 1) + i
      <4>1. /\ Len(p) \in Nat \ {0} /\ Len(q) \in Nat /\ Popped(e) \in Int
            /\ Len(Tail(p)) = Len(p) - 1
        BY <1>5, <1>6
      <4>2. QED
        BY <4>1
    <3>2. p[i + 1] = sent[e][Popped(e) + Len(q) + (i + 1)]
      BY <2>1, <3>1
    <3>3. QED
      BY <1>5, <3>1, <3>2
  <2>4. /\ m_qMessagesOut'[e] = Append(q, Head(p)) /\ posted'[e] = Tail(p)
        /\ Len(m_qMessagesOut'[e]) = Len(q) + 1
    BY <1>4, <1>5 DEF p, q
  <2>5. QED
    BY <1>3, <1>6, <2>1, <2>2, <2>3, <2>4 DEF SentOk
<1>8. e = "server" => sock[e] # "none"
  <2>1. sent[e] # <<>>
    <3>1. Popped(e) >= 0 /\ Len(<<>>) = 0
      BY <1>1 DEF SentOk
    <3> HIDE DEF p, q
    <3>2. QED
      BY <1>5, <1>6, <3>1
  <2>2. QED
    BY <1>1, <2>1 DEF Unaccepted
<1>9. TypeOK'
  <2>1. /\ posted' \in [Ends -> Seq(Message)] /\ m_qMessagesOut' \in [Ends -> Seq(Message)]
    BY <1>1, <1>3, <1>5 DEF TypeOK
  <2>2. wire' \in [Ends -> Seq(Word)] /\ writing' \in [Ends -> {"none", "header", "body", "failed"}]
    <3>1. Head(m_qMessagesOut'[e]) \in Message
      BY <1>4, <1>5
    <3>2. Header(Head(m_qMessagesOut'[e])) \in Word
      BY <3>1, HeaderIsWord
    <3> HIDE DEF p, q
    <3>3. wire \in [Ends -> Seq(Word)] /\ writing \in [Ends -> {"none", "header", "body", "failed"}]
      BY <1>1 DEF TypeOK
    <3>4. CASE q = <<>>
      <4>1. WriteHeader(e, m_qMessagesOut'[e])
        BY <1>3, <3>4
      <4>2. QED
        BY <3>2, <3>3, <4>1, HeaderKeepsTypes
    <3>5. QED
      BY <1>3, <3>3, <3>4
  <2>3. QED
    BY <1>1, <1>3, <2>1, <2>2 DEF TypeOK
<1>10. CASE q = <<>>
  <2>1. CanWrite(e) => writing[e] = "none"
    BY <1>1, <1>10 DEF ChainOk, CanWrite
  <2>2. CanWrite(e) => ToWrite(e) = <<"header", Popped(e)' + 1>>
    BY <1>6, <2>1 DEF ToWrite
  <2>3. CASE writing[e] # "failed"
    <3>1. m_qMessagesOut'[e] # <<>> /\ WriteHeader(e, m_qMessagesOut'[e])
      BY <1>3, <1>4, <1>5, <1>10
    <3> HIDE DEF p, q
    <3>2. QED
      BY <1>3, <1>4, <1>7, <1>8, <1>9, <2>2, <2>3, <3>1, HeaderStarts
  <2>4. CASE writing[e] = "failed"
    <3>1. sock[e] = "closed"
      BY <1>1, <1>10, <2>4 DEF ChainOk
    <3>2. wire' = wire /\ writing' = writing
      BY <1>1, <1>3, <1>10, <2>4, <3>1 DEF WriteHeader, TypeOK
    <3>3. ~ CanWrite(e)' /\ ChainOk(e)'
      BY <1>1, <1>3, <3>1, <3>2 DEF CanWrite, ChainOk
    <3> HIDE DEF p, q
    <3>4. Code(TRUE) \in Word /\ FALSE \in BOOLEAN
      BY CodeFacts
    <3>5. QED
      BY <1>3, <1>4, <1>7, <1>8, <1>9, <3>2, <3>3, <3>4, WriterInv
  <2>5. QED
    BY <2>3, <2>4
<1>11. CASE q # <<>>
  <2>1. wire' = wire /\ writing' = writing
    BY <1>3, <1>11
  <2>2. ToWrite(e)' = ToWrite(e) /\ CanWrite(e)' = CanWrite(e)
    BY <1>3, <1>6, <2>1 DEF ToWrite, CanWrite
  <2>3. ChainOk(e)'
    BY <1>1, <1>3, <1>4, <1>5, <1>11, <2>1 DEF ChainOk
  <2> HIDE DEF p, q
  <2>4. Code(TRUE) \in Word /\ FALSE \in BOOLEAN
    BY CodeFacts
  <2>5. QED
    BY <1>3, <1>4, <1>7, <1>8, <1>9, <2>1, <2>2, <2>3, <2>4, WriterInv
<1>12. QED
  BY <1>10, <1>11

(* What a written header or body belongs to.                               *)
LEMMA FirstQueued ==
  ASSUME IInv, NEW e \in Ends, writing[e] \in {"header", "body"}
  PROVE  /\ sock[e] = "open" /\ m_qMessagesOut[e] # <<>>
         /\ Popped(e) + 1 \in 1 .. Len(sent[e])
         /\ Head(m_qMessagesOut[e]) = sent[e][Popped(e) + 1]
         /\ Head(m_qMessagesOut[e]) \in Message /\ Head(m_qMessagesOut[e]).n = Popped(e) + 1
<1>1. TypeOK /\ SentOk(e) /\ ChainOk(e)
  BY DEF IInv, EndInv
<1>2. sock[e] = "open" /\ m_qMessagesOut[e] # <<>>
  BY <1>1 DEF ChainOk
<1>3. /\ m_qMessagesOut[e] \in Seq(Message) /\ sent[e] \in Seq(Message)
  BY <1>1 DEF TypeOK
<1>4. /\ Head(m_qMessagesOut[e]) \in Message /\ Head(m_qMessagesOut[e]) = m_qMessagesOut[e][1]
      /\ Len(m_qMessagesOut[e]) \in Nat \ {0}
  BY <1>2, <1>3, TailFacts
<1>5. Popped(e) + 1 \in 1 .. Len(sent[e])
  <2>1. Popped(e) >= 0
    BY <1>1 DEF SentOk
  <2>2. QED
    BY <1>1, <1>4, <2>1, LengthFacts
<1>6. m_qMessagesOut[e][1] = sent[e][Popped(e) + 1]
  BY <1>1, <1>4 DEF SentOk
<1>7. sent[e][Popped(e) + 1].n = Popped(e) + 1
  BY <1>1, <1>3, <1>5, SentFacts
<1>8. QED
  BY <1>2, <1>4, <1>5, <1>6, <1>7

LEMMA PopOutInv ==
  ASSUME IInv, NEW e \in Ends, PopOut(e), UNCHANGED WriteSteps,
         \/ writing[e] = "body"
         \/ writing[e] = "header" /\ Head(m_qMessagesOut[e]).body = NoBody
  PROVE  IInv'
<1> DEFINE q == m_qMessagesOut[e]
<1>1. TypeOK /\ SentOk(e) /\ ChainOk(e) /\ Unaccepted
  BY DEF IInv, EndInv, HandshakeInv
<1>2. /\ q # <<>> /\ q \in Seq(Message) /\ sock[e] = "open"
      /\ Head(q) = sent[e][Popped(e) + 1] /\ Head(q) \in Message
  BY <1>1, FirstQueued DEF TypeOK
<1>3. /\ m_qMessagesOut' = [m_qMessagesOut EXCEPT ![e] = Tail(q)]
      /\ IF Tail(q) = <<>> THEN writing' = [writing EXCEPT ![e] = "none"] /\ wire' = wire
                           ELSE WriteHeader(e, Tail(q))
      /\ UNCHANGED <<sock, reading, m_msgBuff, posted, sent, received, early, refused, short>>
  BY DEF PopOut, WriteSteps
<1>4. /\ m_qMessagesOut'[e] = Tail(q) /\ posted' = posted
      /\ \A d \in Ends \ {e} : m_qMessagesOut'[d] = m_qMessagesOut[d] /\ posted'[d] = posted[d]
  BY <1>1, <1>3 DEF TypeOK
<1>5. /\ Len(q) \in Nat \ {0} /\ Tail(q) \in Seq(Message) /\ Len(Tail(q)) = Len(q) - 1
      /\ \A i \in 1 .. Len(Tail(q)) : Tail(q)[i] = q[i + 1]
  <2> HIDE DEF q
  <2>1. QED
    BY <1>2, TailFacts
<1>6. /\ Popped(e)' = Popped(e) + 1 /\ Popped(e) \in Int
  <2>1. /\ Popped(e)' = Len(sent[e]) - Len(posted[e]) - (Len(q) - 1)
        /\ Popped(e) = Len(sent[e]) - Len(posted[e]) - Len(q)
    BY <1>3, <1>4, <1>5 DEF Popped
  <2>2. Len(sent[e]) \in Nat /\ Len(posted[e]) \in Nat
    BY <1>1, LengthFacts
  <2> HIDE DEF q
  <2>3. QED
    BY <1>5, <2>1, <2>2
<1>7. SentOk(e)'
  <2>1. /\ Len(sent[e]) <= MaxSends /\ Popped(e) >= 0
        /\ \A i \in 1 .. Len(sent[e]) : sent[e][i] \in {Sized(i), Unsized(i)}
        /\ \A i \in 1 .. Len(q) : q[i] = sent[e][Popped(e) + i]
        /\ \A i \in 1 .. Len(posted[e]) : posted[e][i] = sent[e][Popped(e) + Len(q) + i]
    BY <1>1 DEF SentOk
  <2>2. m_qMessagesOut'[e] = Tail(q) /\ Len(m_qMessagesOut'[e]) = Len(q) - 1
    BY <1>4, <1>5
  <2> HIDE DEF q
  <2>3. ASSUME NEW i \in 1 .. Len(Tail(q))
        PROVE  Tail(q)[i] = sent[e][(Popped(e) + 1) + i]
    <3>1. i + 1 \in 1 .. Len(q) /\ Popped(e) + (i + 1) = (Popped(e) + 1) + i
      <4>1. Len(q) \in Nat \ {0} /\ Len(Tail(q)) = Len(q) - 1 /\ Popped(e) \in Int
        BY <1>5, <1>6
      <4>2. QED
        BY <4>1
    <3>2. q[i + 1] = sent[e][Popped(e) + (i + 1)]
      BY <2>1, <3>1
    <3>3. QED
      BY <1>5, <3>1, <3>2
  <2>4. ASSUME NEW i \in 1 .. Len(posted[e])
        PROVE  posted[e][i] = sent[e][(Popped(e) + 1) + (Len(q) - 1) + i]
    <3>1. Popped(e) + Len(q) + i = (Popped(e) + 1) + (Len(q) - 1) + i
      BY <1>5, <1>6
    <3>2. QED
      BY <2>1, <3>1
  <2>5. Popped(e) + 1 >= 0
    BY <1>6, <2>1
  <2>6. QED
    BY <1>3, <1>6, <2>1, <2>2, <2>3, <2>4, <2>5 DEF SentOk
<1>8. ToWrite(e) = <<"header", Popped(e)' + 1>>
  <2>1. Head(q).body = NoBody => sent[e][Popped(e) + 1].size # 1
    BY <1>2, MessageFacts
  <2> HIDE DEF q
  <2>2. QED
    BY <1>6, <2>1 DEF ToWrite, q
<1>9. TypeOK'
  <2>1. m_qMessagesOut' \in [Ends -> Seq(Message)]
    BY <1>1, <1>3, <1>5 DEF TypeOK
  <2>2. wire' \in [Ends -> Seq(Word)] /\ writing' \in [Ends -> {"none", "header", "body", "failed"}]
    <3>1. wire \in [Ends -> Seq(Word)] /\ writing \in [Ends -> {"none", "header", "body", "failed"}]
      BY <1>1 DEF TypeOK
    <3> HIDE DEF q
    <3>2. CASE Tail(q) # <<>>
      <4>1. WriteHeader(e, Tail(q)) /\ Head(Tail(q)) \in Message
        BY <1>3, <1>5, <3>2, TailFacts
      <4>2. Header(Head(Tail(q))) \in Word
        BY <4>1, HeaderIsWord
      <4>3. QED
        BY <3>1, <4>1, <4>2, HeaderKeepsTypes
    <3>3. QED
      BY <1>3, <3>1, <3>2
  <2>3. QED
    BY <1>1, <1>3, <2>1, <2>2 DEF TypeOK
<1>10. (e = "server" => sock[e] # "none") /\ writing[e] # "failed" /\ CanWrite(e)
  BY <1>2 DEF CanWrite
<1>11. CASE Tail(q) = <<>>
  <2>1. writing' = [writing EXCEPT ![e] = "none"] /\ wire' = wire
    BY <1>3, <1>11
  <2>2. writing'[e] = "none" /\ \A d \in Ends \ {e} : writing'[d] = writing[d]
    BY <1>1, <2>1 DEF TypeOK
  <2>3. ToWrite(e)' = ToWrite(e)
    BY <1>8, <2>2 DEF ToWrite
  <2>4. ChainOk(e)'
    BY <1>1, <1>3, <1>4, <1>11, <2>2 DEF ChainOk
  <2> HIDE DEF q
  <2>5. Code(TRUE) \in Word /\ FALSE \in BOOLEAN
    BY CodeFacts
  <2>6. QED
    BY <1>3, <1>4, <1>7, <1>9, <1>10, <2>1, <2>2, <2>3, <2>4, <2>5, WriterInv
<1>12. CASE Tail(q) # <<>>
  <2>1. WriteHeader(e, m_qMessagesOut'[e]) /\ m_qMessagesOut'[e] # <<>>
    BY <1>3, <1>4, <1>12
  <2> HIDE DEF q
  <2>2. QED
    BY <1>3, <1>4, <1>7, <1>8, <1>9, <1>10, <2>1, HeaderStarts
<1>13. QED
  BY <1>11, <1>12

LEMMA HeaderWrittenInv ==
  ASSUME IInv, NEW e \in Ends, HeaderWritten(e)
  PROVE  IInv'
<1> DEFINE m == Head(m_qMessagesOut[e])
<1>1. writing[e] = "header" /\ UNCHANGED WriteSteps
  BY DEF HeaderWritten
<1>2. CASE m.body = NoBody
  <2>1. PopOut(e)
    BY <1>2 DEF HeaderWritten
  <2>2. QED
    BY <1>1, <1>2, <2>1, PopOutInv
<1>3. CASE m.body # NoBody
  <2>1. TypeOK /\ SentOk(e) /\ ChainOk(e)
    BY DEF IInv, EndInv
  <2>2. /\ sock[e] = "open" /\ m_qMessagesOut[e] # <<>> /\ m \in Message
        /\ Popped(e) + 1 \in 1 .. Len(sent[e]) /\ m = sent[e][Popped(e) + 1]
        /\ m.n = Popped(e) + 1
    BY <1>1, FirstQueued
  <2>3. /\ Put(e, Body(m)) /\ writing' = [writing EXCEPT ![e] = "body"]
        /\ m_qMessagesOut' = m_qMessagesOut
        /\ UNCHANGED <<sock, reading, m_msgBuff, posted, sent, received, early, refused, short>>
    BY <1>3 DEF HeaderWritten, WriteSteps
  <2>4. writing'[e] = "body" /\ \A d \in Ends \ {e} : writing'[d] = writing[d]
    BY <2>1, <2>3 DEF TypeOK
  <2> HIDE DEF m
  <2>5. /\ m.size = 1 /\ Body(m) \in Word /\ At(Body(m)) = <<"body", m.n>>
        /\ Body(m).kind = "body" /\ Body(m).n = m.n
    BY <1>3, <2>2, MessageFacts
  <2>6. IsWordOf(Body(m), sent[e])
    BY <2>2, <2>5 DEF IsWordOf
  <2>7. ToWrite(e) = At(Body(m)) /\ CanWrite(e)
    BY <1>1, <2>2, <2>5 DEF ToWrite, CanWrite
  <2>8. ToWrite(e)' = After(Body(m))
    <3>1. After(Body(m)) = <<"header", m.n + 1>>
      BY <2>5 DEF After
    <3>2. ToWrite(e)' = <<"header", Popped(e) + 1 + 1>>
      BY <2>3, <2>4 DEF ToWrite, Popped
    <3>3. QED
      BY <2>2, <3>1, <3>2
  <2>9. SentOk(e)' /\ ChainOk(e)'
    BY <1>1, <2>1, <2>2, <2>3, <2>4 DEF SentOk, ChainOk, Popped
  <2>10. TypeOK'
    <3>1. wire \in [Ends -> Seq(Word)] /\ Other(e) \in Ends
      BY <2>1, EndFacts DEF TypeOK
    <3>2. wire' = [wire EXCEPT ![Other(e)] = Append(wire[Other(e)], Body(m))]
      BY <2>3 DEF Put
    <3>3. Append(wire[Other(e)], Body(m)) \in Seq(Word)
      BY <2>5, <3>1, AppendFacts
    <3>4. wire' \in [Ends -> Seq(Word)]
      BY <3>1, <3>2, <3>3
    <3>5. QED
      BY <2>1, <2>3, <3>4 DEF TypeOK
  <2>11. TRUE \in BOOLEAN /\ (e = "server" => sock[e] # "none")
    BY <2>2
  <2>12. QED
    BY <2>3, <2>4, <2>5, <2>6, <2>7, <2>8, <2>9, <2>10, <2>11, WriterInv
<1>4. QED
  BY <1>2, <1>3

LEMMA BodyWrittenInv ==
  ASSUME IInv, NEW e \in Ends, BodyWritten(e)
  PROVE  IInv'
BY PopOutInv DEF BodyWritten

-----------------------------------------------------------------------------
(* Send *)

LEMMA PlaceOfPosted ==
  ASSUME NEW n \in Nat, NEW a \in Int, a >= 0, NEW b \in Nat, NEW c \in Nat, n = a + b + c
  PROVE  /\ a + b + (c + 1) = n + 1
         /\ \A i \in 1 .. c + 1 : i = c + 1 \/ (i \in 1 .. c /\ a + b + i \in 1 .. n)
OBVIOUS

LEMMA SendInv ==
  ASSUME IInv, NEW e \in Ends, NEW m \in Message, Send(e, m)
  PROVE  IInv'
<1> DEFINE s == sent[e]
           o == Other(e)
<1>1. /\ TypeOK /\ SentOk(e) /\ ChainOk(e)
      /\ \A d \in Ends : WireOk(d) /\ SentOk(d) /\ ReceivedOk(d) /\ ChainOk(d)
      /\ Unaccepted /\ CodeComesFirst /\ NoAnswerYet /\ EarlyIsNoted /\ AnswerIsRight
  BY DEF IInv, EndInv, HandshakeInv
<1>2. /\ s \in Seq(Message) /\ posted[e] \in Seq(Message) /\ Len(s) < MaxSends
      /\ Len(s) \in Nat /\ Len(posted[e]) \in Nat /\ Len(m_qMessagesOut[e]) \in Nat
      /\ Popped(e) \in Int /\ Len(s) = Popped(e) + Len(m_qMessagesOut[e]) + Len(posted[e])
  BY <1>1, LengthFacts DEF TypeOK, Send
<1>3. /\ m \in {Sized(Len(s) + 1), Unsized(Len(s) + 1)}
      /\ posted' = [posted EXCEPT ![e] = Append(posted[e], m)]
      /\ sent' = [sent EXCEPT ![e] = Append(s, m)]
      /\ early' = (early \/ (e = "client" /\ received[e] = <<>>))
      /\ e = "server" => sock[e] # "none"
      /\ UNCHANGED <<sock, reading, writing, m_qMessagesOut, m_msgBuff, wire, received, refused, short>>
  BY EndFacts DEF Send, Post
<1>4. /\ sent'[e] = Append(s, m) /\ posted'[e] = Append(posted[e], m)
      /\ \A d \in Ends \ {e} : sent'[d] = sent[d] /\ posted'[d] = posted[d]
  BY <1>1, <1>3 DEF TypeOK
<1>5. /\ Append(s, m) \in Seq(Message) /\ Len(Append(s, m)) = Len(s) + 1 /\ Append(s, m) # <<>>
      /\ \A i \in 1 .. Len(s) : Append(s, m)[i] = s[i]
      /\ Append(s, m)[Len(s) + 1] = m
      /\ Append(posted[e], m) \in Seq(Message) /\ Len(Append(posted[e], m)) = Len(posted[e]) + 1
      /\ \A i \in 1 .. Len(posted[e]) : Append(posted[e], m)[i] = posted[e][i]
      /\ Append(posted[e], m)[Len(posted[e]) + 1] = m
  <2> HIDE DEF s, o
  <2>1. QED
    BY <1>2, AppendFacts
<1>6. TypeOK'
  BY <1>1, <1>3, <1>5 DEF TypeOK
<1>7. /\ Popped(e)' = Popped(e) /\ \A d \in Ends : Popped(d)' = Popped(d)
  <2>1. Popped(e)' = (Len(s) + 1) - (Len(posted[e]) + 1) - Len(m_qMessagesOut[e])
    BY <1>3, <1>4, <1>5 DEF Popped
  <2>2. \A d \in Ends \ {e} : Popped(d)' = Popped(d)
    BY <1>3, <1>4 DEF Popped
  <2> HIDE DEF s, o
  <2>3. QED
    BY <1>2, <2>1, <2>2
<1>8. ASSUME NEW d \in Ends
      PROVE  SentOk(d)'
  <2>1. CASE d = e
    <3>1. /\ Popped(e) >= 0
          /\ \A i \in 1 .. Len(s) : s[i] \in {Sized(i), Unsized(i)}
          /\ \A i \in 1 .. Len(m_qMessagesOut[e]) : m_qMessagesOut[e][i] = s[Popped(e) + i]
          /\ \A i \in 1 .. Len(posted[e]) :
               posted[e][i] = s[Popped(e) + Len(m_qMessagesOut[e]) + i]
      BY <1>1 DEF SentOk
    <3> HIDE DEF s, o
    <3>2. ASSUME NEW i \in 1 .. Len(s) + 1
          PROVE  Append(s, m)[i] \in {Sized(i), Unsized(i)}
      <4>1. i \in 1 .. Len(s) \/ i = Len(s) + 1
        BY <1>2
      <4>2. QED
        BY <1>3, <1>5, <3>1, <4>1
    <3>3. ASSUME NEW i \in 1 .. Len(m_qMessagesOut[e])
          PROVE  m_qMessagesOut[e][i] = Append(s, m)[Popped(e) + i]
      <4>1. Popped(e) + i \in 1 .. Len(s)
        BY <1>2, <3>1
      <4>2. QED
        BY <1>5, <3>1, <4>1
    <3>0. /\ Len(s) \in Nat /\ Len(posted[e]) \in Nat /\ Len(m_qMessagesOut[e]) \in Nat
          /\ Popped(e) \in Int /\ Popped(e) >= 0
          /\ Len(s) = Popped(e) + Len(m_qMessagesOut[e]) + Len(posted[e])
      BY <1>2, <3>1
    <3>4. ASSUME NEW i \in 1 .. Len(posted[e]) + 1
          PROVE  Append(posted[e], m)[i] =
                   Append(s, m)[Popped(e) + Len(m_qMessagesOut[e]) + i]
      <4>1. CASE i = Len(posted[e]) + 1
        <5>1. Popped(e) + Len(m_qMessagesOut[e]) + i = Len(s) + 1
          BY <3>0, <4>1, PlaceOfPosted
        <5>2. QED
          BY <1>5, <4>1, <5>1
      <4>2. CASE i # Len(posted[e]) + 1
        <5>1. /\ i \in 1 .. Len(posted[e])
              /\ Popped(e) + Len(m_qMessagesOut[e]) + i \in 1 .. Len(s)
          BY <3>0, <4>2, PlaceOfPosted
        <5>2. QED
          BY <1>5, <3>1, <5>1
      <4>3. QED
        BY <4>1, <4>2
    <3>5. Len(s) + 1 <= MaxSends
      BY <1>2, ConnectionAssumption
    <3>6. /\ sent'[e] = Append(s, m) /\ Len(sent'[e]) = Len(s) + 1
          /\ posted'[e] = Append(posted[e], m) /\ Len(posted'[e]) = Len(posted[e]) + 1
          /\ m_qMessagesOut' = m_qMessagesOut
      BY <1>3, <1>4, <1>5
    <3>7. SentOk(e)'
      BY <1>7, <3>1, <3>2, <3>3, <3>4, <3>5, <3>6 DEF SentOk
    <3>8. QED
      BY <2>1, <3>7
  <2>2. CASE d # e
    BY <1>1, <1>3, <1>4, <1>7, <2>2 DEF SentOk
  <2>3. QED
    BY <2>1, <2>2
<1>9. ASSUME NEW d \in Ends
      PROVE  ReceivedOk(d)'
  <2>1. CASE d = o
    <3>1. Other(d) = e /\ Len(received[d]) \in Nat
      BY <1>1, <2>1, EndFacts, LengthFacts
    <3>2. ReceivedOk(d)
      BY <1>1
    <3>3. /\ sent'[e] = Append(s, m) /\ Len(sent'[e]) = Len(s) + 1
          /\ \A i \in 1 .. Len(s) : sent'[e][i] = s[i]
      BY <1>4, <1>5
    <3>4. Len(received[d]) <= Len(s) /\ Len(received[d]) <= Len(s) + 1
      BY <1>2, <3>1, <3>2 DEF ReceivedOk
    <3>5. \A i \in 1 .. Len(received[d]) : i \in 1 .. Len(s)
      BY <1>2, <3>1, <3>4
    <3>6. Len(received[d]) < Len(s) =>
            Len(received[d]) + 1 \in 1 .. Len(s) /\ Len(received[d]) < Len(s) + 1
      BY <1>2, <3>1
    <3>7. QED
      BY <1>3, <3>1, <3>2, <3>3, <3>4, <3>5, <3>6 DEF ReceivedOk
  <2>2. CASE d # o
    <3>1. sent'[Other(d)] = sent[Other(d)]
      BY <1>4, <2>2, EndFacts
    <3>2. QED
      BY <1>1, <1>3, <3>1 DEF ReceivedOk
  <2>3. QED
    BY <2>1, <2>2
<1>10. \A d \in Ends : ChainOk(d)'
  BY <1>1, <1>3 DEF ChainOk
<1>11. ASSUME NEW d \in Ends
       PROVE  WireOk(d)'
  <2>1. /\ Other(d) \in Ends /\ Fresh(d)' = Fresh(d) /\ Expected(d)' = Expected(d)
        /\ CanWrite(Other(d))' = CanWrite(Other(d)) /\ wire'[d] = wire[d] /\ sock'[d] = sock[d]
    BY <1>3, EndFacts DEF Fresh, Expected, CanWrite
  <2>2. CanWrite(Other(d)) => ToWrite(Other(d))' = ToWrite(Other(d))
    <3>1. CASE Other(d) # e
      BY <1>3, <1>4, <1>7, <2>1, <3>1 DEF ToWrite
    <3>2. CASE Other(d) = e
      <4>1. writing[e] = "header" => Popped(e) + 1 \in 1 .. Len(s)
        BY FirstQueued
      <4>2. writing[e] = "header" => sent'[e][Popped(e) + 1] = s[Popped(e) + 1]
        BY <1>4, <1>5, <4>1
      <4>3. QED
        BY <1>3, <1>7, <3>2, <4>2 DEF ToWrite
    <3>3. QED
      BY <3>1, <3>2
  <2>3. ASSUME NEW w, Between(d, w)
        PROVE  Linked(w, sent'[Other(d)], Expected(d)', CanWrite(Other(d))', ToWrite(Other(d))')
    <3>1. Linked(w, sent[Other(d)], Expected(d), CanWrite(Other(d)), ToWrite(Other(d)))
      BY <2>3 DEF Between
    <3>2. Linked(w, sent[Other(d)], Expected(d)', CanWrite(Other(d))', ToWrite(Other(d))')
      BY <2>1, <2>2, <3>1, LinkedWeaker
    <3>3. CASE Other(d) # e
      BY <1>4, <2>1, <3>2, <3>3
    <3>4. CASE Other(d) = e
      <4> HIDE DEF o
      <4>1. Linked(w, Append(s, m), Expected(d)', CanWrite(Other(d))', ToWrite(Other(d))')
        BY <1>2, <3>2, <3>4, LinkedLonger
      <4>2. QED
        BY <1>4, <3>4, <4>1
    <3>5. QED
      BY <3>3, <3>4
  <2>4. /\ Between(d, <<>>) => Between(d, <<>>)'
        /\ Between(d, wire[d]) => Between(d, wire[d])'
        /\ Between(d, Tail(wire[d])) => Between(d, Tail(wire[d]))'
    BY <2>1, <2>3 DEF Between
  <2>5. WireOk(d)
    BY <1>1
  <2>6. QED
    BY <2>1, <2>4, <2>5 DEF WireOk
<1>12. HandshakeInv'
  <2>1. /\ \A d \in Ends : Fresh(d)' = Fresh(d)
        /\ \A d \in Ends : received[d] # <<>> => received'[d] # <<>>
        /\ early => early'
        /\ sock["server"] = "none" => sent'["server"] = sent["server"]
    BY <1>1, <1>3, <1>4, EndFacts DEF Fresh
  <2>2. Unaccepted' /\ CodeComesFirst' /\ NoAnswerYet'
    BY <1>1, <1>3, <2>1, EndFacts DEF Unaccepted, CodeComesFirst, NoAnswerYet
  <2>3. EarlyIsNoted'
    <3>1. CASE e = "client"
      BY <1>1, <1>3, <2>1, <3>1 DEF EarlyIsNoted
    <3>2. CASE e = "server"
      BY <1>1, <1>3, <1>4, <2>1, <3>2, EndFacts DEF EarlyIsNoted
    <3>3. QED
      BY <3>1, <3>2 DEF Ends
  <2>4. AnswerIsRight'
    BY <1>1, <1>3, <2>1, EndFacts DEF AnswerIsRight
  <2>5. QED
    BY <2>2, <2>3, <2>4 DEF HandshakeInv
<1>13. RefusedOnlyIfEarly'
  BY <1>3 DEF RefusedOnlyIfEarly, IInv
<1>14. QED
  BY <1>6, <1>8, <1>9, <1>10, <1>11, <1>12, <1>13 DEF IInv, EndInv

-----------------------------------------------------------------------------
(* The read chain, and the ways an end closes *)

(* What an end that reads a message finds at the head of its stream.       *)
LEMMA HeadIsExpected ==
  ASSUME IInv, NEW e \in Ends, reading[e] \in {"header", "body"}, wire[e] # <<>>
  PROVE  /\ Head(wire[e]) = wire[e][1] /\ wire[e][1] \in Word
         /\ IsWordOf(wire[e][1], sent[Other(e)]) /\ At(wire[e][1]) = Expected(e)
<1>1. TypeOK /\ WireOk(e) /\ ChainOk(e)
  BY DEF IInv, EndInv
<1>2. ~ Fresh(e) /\ sock[e] # "closed" /\ wire[e] \in Seq(Word)
  BY <1>1 DEF ChainOk, Fresh, TypeOK
<1>3. Linked(wire[e], sent[Other(e)], Expected(e), CanWrite(Other(e)), ToWrite(Other(e)))
  BY <1>1, <1>2 DEF WireOk, Between
<1>4. QED
  BY <1>2, <1>3, LinkedTail

Incoming == [n : 1 .. MaxSends, size : {0, 1}, body : 0 .. MaxSends]

(* The message m is queued, as the next one that the other end sent.       *)
LEMMA QueueInv ==
  ASSUME IInv, NEW e \in Ends, reading[e] \in {"header", "body"}, TakeWord(e),
         NEW m \in Incoming, Queue(e, m),
         m.n = Len(received[e]) + 1, m.n \in 1 .. Len(sent[Other(e)]),
         m.size = sent[Other(e)][m.n].size, m.size = 1 => m.body = m.n,
         After(wire[e][1]) = <<"header", m.n + 1>>,
         UNCHANGED <<sock, writing, m_qMessagesOut, posted, sent, early, refused, short>>
  PROVE  IInv'
<1>1. TypeOK /\ ReceivedOk(e)
  BY DEF IInv, EndInv
<1>2. /\ received[e] \in Seq(Incoming) /\ wire \in [Ends -> Seq(Word)] /\ Len(sent[Other(e)]) \in Nat
  BY <1>1, EndFacts, LengthFacts DEF TypeOK, Incoming
<1>3. /\ m_msgBuff' = [m_msgBuff EXCEPT ![e] = m]
      /\ received' = [received EXCEPT ![e] = Append(received[e], m)]
      /\ reading' = [reading EXCEPT ![e] = "header"]
      /\ wire[e] # <<>> /\ wire' = [wire EXCEPT ![e] = Tail(wire[e])]
  BY DEF Queue, TakeWord
<1>4. /\ received'[e] = Append(received[e], m) /\ reading'[e] = "header"
      /\ \A d \in Ends \ {e} : /\ reading'[d] = reading[d] /\ received'[d] = received[d]
                              /\ m_msgBuff'[d] = m_msgBuff[d]
  BY <1>1, <1>3 DEF TypeOK
<1>5. /\ Append(received[e], m) \in Seq(Incoming) /\ Append(received[e], m) # <<>>
      /\ Len(received[e]) \in Nat
      /\ Len(Append(received[e], m)) = Len(received[e]) + 1
      /\ Append(received[e], m)[Len(received[e]) + 1] = m
      /\ \A i \in 1 .. Len(received[e]) : Append(received[e], m)[i] = received[e][i]
  BY <1>2, AppendFacts
<1>6. TypeOK'
  <2>1. received' \in [Ends -> Seq(Incoming)]
    BY <1>1, <1>3, <1>5 DEF TypeOK, Incoming
  <2>2. wire' \in [Ends -> Seq(Word)]
    BY <1>2, <1>3, TailFacts
  <2>3. m_msgBuff' \in [Ends -> [n : 0 .. MaxSends, size : {0, 1}, body : 0 .. MaxSends]]
    BY SMTT(30), <1>1, <1>3 DEF TypeOK, Incoming
  <2>4. QED
    BY <1>1, <1>3, <2>1, <2>2, <2>3 DEF TypeOK, Incoming
<1>7. ReceivedOk(e)'
  <2>1. ASSUME NEW i \in 1 .. Len(received[e]) + 1
        PROVE  /\ Append(received[e], m)[i].n = i
               /\ Append(received[e], m)[i].size = sent[Other(e)][i].size
               /\ Append(received[e], m)[i].size = 1 => Append(received[e], m)[i].body = i
    <3>1. i \in 1 .. Len(received[e]) \/ i = m.n
      BY <1>5
    <3>2. CASE i \in 1 .. Len(received[e])
      BY <1>1, <1>5, <3>2 DEF ReceivedOk
    <3>3. CASE i = m.n
      BY <1>5, <3>3
    <3>4. QED
      BY <3>1, <3>2, <3>3
  <2>2. Len(received[e]) + 1 <= Len(sent[Other(e)])
    BY <1>2, <1>5
  <2>3. sent' = sent /\ Len(received'[e]) = Len(received[e]) + 1
    BY <1>4, <1>5
  <2>4. QED
    BY <1>4, <2>1, <2>2, <2>3 DEF ReceivedOk
<1>8. Expected(e)' = After(wire[e][1])
  BY <1>4, <1>5 DEF Expected
<1>9. ~ Fresh(e) /\ ~ Fresh(e)' /\ reading[e] # "none"
  BY <1>4 DEF Fresh
<1>10. received'[e] = <<>> => received[e] = <<>>
  BY <1>4, <1>5
<1>11. QED
  BY <1>3, <1>4, <1>6, <1>7, <1>8, <1>9, <1>10, ReaderInv

LEMMA ReadHeaderInv ==
  ASSUME IInv, NEW e \in Ends, ReadHeader(e)
  PROVE  IInv'
<1> DEFINE word == Head(wire[e])
           m == [n |-> word.n, size |-> word.size, body |-> m_msgBuff[e].body]
           k == Len(received[e]) + 1
<1>1. TypeOK /\ ReceivedOk(e) /\ ChainOk(e) /\ SentOk(Other(e)) /\ Other(e) \in Ends
  BY EndFacts DEF IInv, EndInv
<1>2. /\ reading[e] = "header" /\ TakeWord(e) /\ wire[e] # <<>>
      /\ IF word.size > 0
         THEN /\ m_msgBuff' = [m_msgBuff EXCEPT ![e] = m]
              /\ reading' = [reading EXCEPT ![e] = "body"]
              /\ received' = received
         ELSE Queue(e, m)
      /\ UNCHANGED <<sock, writing, m_qMessagesOut, posted, sent, early, refused, short>>
  BY DEF ReadHeader, TakeWord
<1>3. /\ word = wire[e][1] /\ word \in Word /\ IsWordOf(word, sent[Other(e)])
      /\ At(word) = Expected(e)
  BY <1>2, HeadIsExpected
<1>4. word.kind = "header" /\ word.n = k
  BY <1>2, <1>3 DEF At, Expected
<1>5. /\ k \in 1 .. Len(sent[Other(e)]) /\ word.size = sent[Other(e)][k].size
  BY <1>3, <1>4 DEF IsWordOf
<1>6. /\ sent[Other(e)][k] \in Message /\ k \in 1 .. MaxSends
      /\ Len(received[e]) \in Nat /\ Len(sent[Other(e)]) \in Nat
  <2>1. sent[Other(e)][k] \in Message /\ sent[Other(e)][k].n = k
    BY <1>1, <1>5, SentFacts DEF TypeOK
  <2>2. k \in 1 .. MaxSends
    BY <2>1, MessageFacts
  <2>3. QED
    BY <1>1, <2>1, <2>2, LengthFacts
<1>7. word.size \in {0, 1}
  BY <1>5, <1>6, MessageFacts
<1>8. m \in Incoming /\ m.n = k /\ m.size = word.size
  BY <1>1, <1>4, <1>6, <1>7 DEF Incoming, TypeOK
<1>9. CASE word.size = 0
  <2>1. Queue(e, m)
    BY <1>2, <1>9
  <2>2. After(wire[e][1]) = <<"header", m.n + 1>>
    BY <1>3, <1>4, <1>8, <1>9 DEF After
  <2>3. m.size # 1
    BY <1>8, <1>9
  <2> HIDE DEF m, k, word
  <2>4. QED
    BY <1>2, <1>5, <1>8, <2>1, <2>2, <2>3, QueueInv DEF k
<1>10. CASE word.size = 1
  <2>1. /\ m_msgBuff' = [m_msgBuff EXCEPT ![e] = m]
        /\ reading' = [reading EXCEPT ![e] = "body"] /\ received' = received
        /\ wire' = [wire EXCEPT ![e] = Tail(wire[e])]
    BY <1>2, <1>10 DEF TakeWord
  <2>2. /\ m_msgBuff'[e] = m /\ reading'[e] = "body"
        /\ \A d \in Ends \ {e} : reading'[d] = reading[d] /\ m_msgBuff'[d] = m_msgBuff[d]
    BY <1>1, <2>1 DEF TypeOK
  <2> HIDE DEF m, k, word
  <2>3. Expected(e)' = After(wire[e][1])
    BY <1>3, <1>4, <1>10, <2>1, <2>2 DEF Expected, After, k
  <2>4. ReceivedOk(e)'
    <3>1. Len(received[e]) < Len(sent[Other(e)])
      BY <1>5, <1>6 DEF k
    <3>2. m.n = Len(received[e]) + 1 /\ m.size = 1 /\ sent[Other(e)][Len(received[e]) + 1].size = 1
      BY <1>5, <1>8, <1>10 DEF k
    <3>3. QED
      BY <1>1, <1>2, <2>1, <2>2, <3>1, <3>2 DEF ReceivedOk
  <2>5. TypeOK'
    <3>1. m_msgBuff' \in [Ends -> [n : 0 .. MaxSends, size : {0, 1}, body : 0 .. MaxSends]]
      BY <1>1, <1>8, <2>1 DEF TypeOK, Incoming
    <3>2. wire' \in [Ends -> Seq(Word)]
      BY <1>1, <1>2, <2>1, TailFacts DEF TypeOK
    <3>3. QED
      BY <1>1, <1>2, <2>1, <3>1, <3>2 DEF TypeOK
  <2>6. ~ Fresh(e) /\ ~ Fresh(e)' /\ reading[e] # "none"
    BY <1>2, <2>2 DEF Fresh
  <2>7. QED
    BY <1>2, <2>1, <2>2, <2>3, <2>4, <2>5, <2>6, ReaderInv
<1>11. QED
  BY <1>7, <1>9, <1>10

LEMMA ReadBodyInv ==
  ASSUME IInv, NEW e \in Ends, ReadBody(e)
  PROVE  IInv'
<1> DEFINE k == Len(received[e]) + 1
           m == WithBody(e)
<1>1. TypeOK /\ ReceivedOk(e) /\ SentOk(Other(e)) /\ Other(e) \in Ends
  BY EndFacts DEF IInv, EndInv
<1>2. /\ reading[e] = "body" /\ TakeWord(e) /\ wire[e] # <<>> /\ Queue(e, m)
      /\ UNCHANGED <<sock, writing, m_qMessagesOut, posted, sent, early, refused, short>>
  BY DEF ReadBody, TakeWord
<1>3. /\ Head(wire[e]) = wire[e][1] /\ wire[e][1] \in Word
      /\ At(wire[e][1]) = <<"body", k>>
  BY <1>2, HeadIsExpected DEF Expected
<1>4. /\ wire[e][1].kind = "body" /\ wire[e][1].n = k
  BY <1>3 DEF At
<1>5. /\ Len(received[e]) < Len(sent[Other(e)]) /\ m_msgBuff[e].n = k /\ m_msgBuff[e].size = 1
      /\ sent[Other(e)][k].size = 1 /\ Len(received[e]) \in Nat /\ Len(sent[Other(e)]) \in Nat
  BY <1>1, <1>2, LengthFacts DEF ReceivedOk
<1>6. k \in 1 .. Len(sent[Other(e)]) /\ k \in 1 .. MaxSends
  <2>1. k \in 1 .. Len(sent[Other(e)])
    BY <1>5
  <2>2. sent[Other(e)][k] \in Message /\ sent[Other(e)][k].n = k
    BY <1>1, <2>1, SentFacts DEF TypeOK
  <2>3. QED
    BY <2>1, <2>2, MessageFacts
<1>7. m = [n |-> k, size |-> 1, body |-> k]
  <2>1. m = [m_msgBuff[e] EXCEPT !.body = k]
    BY <1>3, <1>4 DEF WithBody
  <2>2. m_msgBuff[e] \in [n : 0 .. MaxSends, size : {0, 1}, body : 0 .. MaxSends]
    BY <1>1 DEF TypeOK
  <2>3. QED
    BY <1>5, <2>1, <2>2
<1>8. m \in Incoming /\ m.n = k /\ m.size = 1 /\ m.body = k
  BY <1>6, <1>7, ConnectionAssumption DEF Incoming
<1>9. After(wire[e][1]) = <<"header", k + 1>>
  BY <1>4 DEF After
<1> HIDE DEF m, k
<1>10. QED
  BY <1>2, <1>5, <1>6, <1>8, <1>9, QueueInv DEF k

LEMMA ClosesInv ==
  ASSUME IInv, NEW e \in Ends, WriteFails(e) \/ ReadFails(e) \/ ProgramEnds(e)
  PROVE  IInv'
<1>1. /\ Closed(e) /\ wire' = wire /\ refused' = refused /\ short' = short
      /\ writing[e] # "none" \/ reading[e] # "none" \/ IsConnected(e)
  BY DEF WriteFails, ReadFails, ProgramEnds
<1>2. TypeOK /\ Unaccepted /\ RefusedOnlyIfEarly
  BY DEF IInv, HandshakeInv
<1>3. e = "server" => sock[e] # "none"
  BY <1>1, <1>2 DEF Unaccepted, IsConnected
<1>4. /\ wire' \in [Ends -> Seq(Word)] /\ short' \in 0 .. MaxShort /\ short' >= short
      /\ refused' \in BOOLEAN
      /\ refused' => early \/ short' > 0
  <2>1. refused => early \/ short > 0
    BY <1>2 DEF RefusedOnlyIfEarly
  <2>2. QED
    BY <1>1, <1>2, <2>1 DEF TypeOK
<1>5. QED
  BY <1>1, <1>3, <1>4, ClosedInv

LEMMA RefusedInv ==
  ASSUME IInv, NEW isShort \in BOOLEAN, Refused(isShort)
  PROVE  IInv'
<1>1. /\ reading["server"] = "code" /\ wire["server"] # <<>> /\ Closed("server") /\ refused' = TRUE
      /\ wire' = [wire EXCEPT !["server"] = Tail(wire["server"])]
      /\ IF isShort THEN short < MaxShort /\ short' = short + 1 ELSE short' = short
      /\ ~ (Head(wire["server"]) = Code(TRUE) /\ ~ isShort)
  BY DEF Refused, ReadCode, TakeWord, RightCode
<1>2. TypeOK /\ ChainOk("server") /\ AnswerIsRight /\ wire["server"] \in Seq(Word)
  BY EndFacts DEF IInv, EndInv, HandshakeInv, TypeOK
<1>3. sock["server"] = "open" /\ Fresh("server")
  BY <1>1, <1>2 DEF ChainOk, Fresh
<1>4. Head(wire["server"]) = wire["server"][1] /\ Tail(wire["server"]) \in Seq(Word)
  BY <1>1, <1>2, TailFacts
<1>5. short \in 0 .. MaxShort /\ short' \in 0 .. MaxShort /\ short' >= short
  BY <1>1, <1>2, ConnectionAssumption DEF TypeOK
<1>6. early \/ short' > 0
  <2>1. CASE isShort
    BY <1>1, <1>5, <2>1
  <2>2. CASE ~ isShort
    BY <1>1, <1>2, <1>3, <1>4, <1>5, <2>2 DEF AnswerIsRight
  <2>3. QED
    BY <2>1, <2>2
<1>7. wire' \in [Ends -> Seq(Word)] /\ wire'["client"] = wire["client"]
  BY <1>1, <1>2, <1>4, EndFacts DEF TypeOK
<1>8. QED
  BY <1>1, <1>3, <1>5, <1>6, <1>7, EndFacts, ClosedInv

-----------------------------------------------------------------------------
(* The handshake *)

\* what was sent and is still to be written, when none of it changes
LEMMA SentOkStays ==
  ASSUME NEW d \in Ends, SentOk(d), UNCHANGED <<sent, m_qMessagesOut, posted>>
  PROVE  SentOk(d)'
<1>1. Popped(d)' = Popped(d)
  BY DEF Popped
<1> HIDE DEF Popped
<1>2. QED
  BY <1>1 DEF SentOk

(* A step that moves only the sockets or the reads of the ends, and does   *)
(* not open or close a stream.                                             *)
LEMMA QuietInv ==
  ASSUME IInv, TypeOK', UNCHANGED <<writing, buffers, wire, history, short>>,
         \A d \in Ends :
           /\ Fresh(d)' = Fresh(d)
           /\ reading'[d] = reading[d] \/ (reading[d] # "body" /\ reading'[d] # "body")
           /\ sock'[d] = "closed" <=> sock[d] = "closed"
           /\ sock'[d] = sock[d] \/ sock[d] = "connecting"
           /\ reading'[d] # "none" => sock'[d] = "open",
         sock'["server"] = sock["server"], reading'["server"] = reading["server"]
  PROVE  IInv'
<1>1. /\ \A d \in Ends : WireOk(d) /\ SentOk(d) /\ ReceivedOk(d) /\ ChainOk(d)
      /\ Unaccepted /\ CodeComesFirst /\ NoAnswerYet /\ EarlyIsNoted /\ AnswerIsRight
      /\ RefusedOnlyIfEarly
  BY DEF IInv, EndInv, HandshakeInv
<1>2. UNCHANGED <<writing, m_qMessagesOut, m_msgBuff, posted, wire, sent, received, early, refused, short>>
  BY DEF buffers, history
<1>3. \A d \in Ends : /\ Fresh(d)' = Fresh(d) /\ Expected(d)' = Expected(d)
                      /\ CanWrite(d)' = CanWrite(d) /\ ToWrite(d)' = ToWrite(d)
  BY <1>2 DEF Fresh, Expected, CanWrite, ToWrite, Popped
<1>4. ASSUME NEW d \in Ends
      PROVE  WireOk(d)' /\ SentOk(d)' /\ ReceivedOk(d)' /\ ChainOk(d)'
  <2>1. Other(d) \in Ends
    BY EndFacts
  <2>2. /\ Between(d, <<>>)' = Between(d, <<>>) /\ Between(d, wire[d])' = Between(d, wire[d])
        /\ Between(d, Tail(wire[d]))' = Between(d, Tail(wire[d]))
    BY <1>2, <1>3, <2>1 DEF Between
  <2>3. WireOk(d)'
    BY <1>1, <1>2, <1>3, <2>2 DEF WireOk
  <2>4. SentOk(d)'
    BY <1>1, <1>2, SentOkStays
  <2>5. ReceivedOk(d)'
    BY <1>1, <1>2 DEF ReceivedOk, Popped
  <2>6. ChainOk(d)'
    BY <1>1, <1>2 DEF ChainOk
  <2>7. QED
    BY <2>3, <2>4, <2>5, <2>6
<1>5. HandshakeInv'
  <2>1. Unaccepted' /\ CodeComesFirst' /\ NoAnswerYet'
    BY <1>1, <1>2, EndFacts DEF Unaccepted, CodeComesFirst, NoAnswerYet
  <2>2. EarlyIsNoted' /\ AnswerIsRight'
    BY <1>1, <1>2, EndFacts DEF EarlyIsNoted, AnswerIsRight
  <2>3. QED
    BY <2>1, <2>2 DEF HandshakeInv
<1>6. RefusedOnlyIfEarly'
  BY <1>1, <1>2 DEF RefusedOnlyIfEarly
<1>7. QED
  BY <1>4, <1>5, <1>6 DEF IInv, EndInv

LEMMA ConnectFailsInv ==
  ASSUME IInv, ConnectFails
  PROVE  IInv'
<1>1. /\ sock["client"] = "connecting" /\ sock' = [sock EXCEPT !["client"] = "unconnected"]
      /\ reading' = reading /\ UNCHANGED <<writing, buffers, wire, history, short>>
  BY DEF ConnectFails, Ends
<1>2. TypeOK /\ \A d \in Ends : ChainOk(d)
  BY DEF IInv, EndInv
<1>3. TypeOK'
  BY <1>1, <1>2 DEF TypeOK, buffers, history
<1>4. /\ sock'["client"] = "unconnected" /\ sock'["server"] = sock["server"]
      /\ \A d \in Ends : Fresh(d)' = Fresh(d)
  BY <1>1, <1>2, EndFacts DEF TypeOK, Fresh
<1>5. \A d \in Ends : reading'[d] # "none" => sock'[d] = "open"
  BY <1>1, <1>2, <1>4, EndFacts DEF ChainOk, Ends
<1>6. QED
  BY <1>1, <1>3, <1>4, <1>5, QuietInv DEF Ends

LEMMA ConnectedInv ==
  ASSUME IInv, Connected
  PROVE  IInv'
<1>1. /\ sock["client"] = "connecting" /\ sock' = [sock EXCEPT !["client"] = "open"]
      /\ reading' = [reading EXCEPT !["client"] = "code"]
      /\ UNCHANGED <<writing, buffers, wire, history, short>>
  BY DEF Connected, FirstRead
<1>2. TypeOK /\ \A d \in Ends : ChainOk(d)
  BY DEF IInv, EndInv
<1>3. TypeOK'
  BY <1>1, <1>2 DEF TypeOK, buffers, history
<1>4. /\ sock'["client"] = "open" /\ sock'["server"] = sock["server"]
      /\ reading'["client"] = "code" /\ reading'["server"] = reading["server"]
      /\ reading["client"] = "none"
  BY <1>1, <1>2, EndFacts DEF TypeOK, ChainOk
<1>5. \A d \in Ends : /\ Fresh(d)' = Fresh(d)
                      /\ reading'[d] # "none" => sock'[d] = "open"
  BY <1>2, <1>4 DEF ChainOk, Ends, Fresh
<1>6. QED
  BY <1>1, <1>3, <1>4, <1>5, QuietInv DEF Ends

LEMMA AnsweredInv ==
  ASSUME IInv, Answered
  PROVE  IInv'
<1>1. /\ reading["client"] \in {"answer", "answerShort"} /\ sock' = sock
      /\ reading' = [reading EXCEPT !["client"] = IF reading["client"] = "answer" THEN "header" ELSE "lost"]
      /\ UNCHANGED <<writing, buffers, wire, history, short>>
  BY DEF Answered
<1>2. TypeOK /\ \A d \in Ends : ChainOk(d)
  BY DEF IInv, EndInv
<1>3. TypeOK'
  BY <1>1, <1>2 DEF TypeOK, buffers, history
<1>4. /\ reading'["client"] \in {"header", "lost"} /\ reading'["server"] = reading["server"]
  BY <1>1, <1>2, EndFacts DEF TypeOK
<1>5. \A d \in Ends : /\ Fresh(d)' = Fresh(d)
                      /\ reading'[d] # "none" => sock'[d] = "open"
  BY <1>1, <1>2, <1>4 DEF ChainOk, Ends, Fresh
<1>6. QED
  BY <1>1, <1>3, <1>4, <1>5, QuietInv DEF Ends

LEMMA ValidatedInv ==
  ASSUME IInv, Validated
  PROVE  IInv'
<1>1. /\ reading["server"] = "code" /\ wire["server"] # <<>>
      /\ wire' = [wire EXCEPT !["server"] = Tail(wire["server"])]
      /\ Head(wire["server"]) = Code(TRUE)
      /\ reading' = [reading EXCEPT !["server"] = "header"]
      /\ UNCHANGED <<sock, writing, m_qMessagesOut, m_msgBuff, posted, sent, received, early, refused, short>>
  BY DEF Validated, ReadCode, TakeWord, RightCode, buffers, history
<1>2. /\ TypeOK /\ \A d \in Ends : WireOk(d) /\ SentOk(d) /\ ReceivedOk(d) /\ ChainOk(d)
      /\ Unaccepted /\ CodeComesFirst /\ NoAnswerYet /\ EarlyIsNoted /\ AnswerIsRight
      /\ RefusedOnlyIfEarly
  BY DEF IInv, EndInv, HandshakeInv
<1>3. /\ sock["server"] = "open" /\ Fresh("server") /\ wire["server"] \in Seq(Word)
      /\ wire \in [Ends -> Seq(Word)]
  BY <1>1, <1>2, EndFacts DEF ChainOk, Fresh, TypeOK
<1>4. /\ Head(wire["server"]) = wire["server"][1] /\ Tail(wire["server"]) \in Seq(Word)
      /\ wire["server"][1].kind = "code"
  BY <1>1, <1>3, TailFacts, CodeFacts
<1>5. /\ wire'["server"] = Tail(wire["server"]) /\ wire'["client"] = wire["client"]
      /\ reading'["server"] = "header" /\ reading'["client"] = reading["client"]
      /\ ~ Fresh("server")' /\ Fresh("client")' = Fresh("client")
      /\ \A d \in Ends : Expected(d)' = Expected(d)
  BY <1>1, <1>2, EndFacts DEF TypeOK, Fresh, Expected, Ends
<1>6. TypeOK'
  <2>1. wire' \in [Ends -> Seq(Word)]
    BY <1>1, <1>2, <1>4 DEF TypeOK
  <2>2. QED
    BY <1>1, <1>2, <2>1 DEF TypeOK
<1>7. \A d \in Ends : CanWrite(d)' = CanWrite(d) /\ ToWrite(d)' = ToWrite(d)
  BY <1>1 DEF CanWrite, ToWrite, Popped
<1>8. WireOk("server")'
  <2>1. Between("server", Tail(wire["server"]))
    BY <1>2, <1>3, <1>4, EndFacts, <1>1 DEF WireOk
  <2>2. Between("server", wire["server"])' = Between("server", Tail(wire["server"]))
    BY <1>1, <1>5, <1>7, EndFacts DEF Between
  <2>3. QED
    BY <1>5, <2>1, <2>2 DEF WireOk
<1>9. WireOk("client")'
  <2>1. /\ Between("client", <<>>)' = Between("client", <<>>)
        /\ Between("client", wire["client"])' = Between("client", wire["client"])
        /\ Between("client", Tail(wire["client"]))' = Between("client", Tail(wire["client"]))
    BY <1>1, <1>5, <1>7, EndFacts DEF Between
  <2>2. QED
    BY <1>1, <1>2, <1>5, <2>1, EndFacts DEF WireOk
<1>10. ASSUME NEW d \in Ends
       PROVE  SentOk(d)' /\ ReceivedOk(d)' /\ ChainOk(d)'
  <2>1. reading'[d] = reading[d] \/ (d = "server" /\ reading'[d] = "header")
    BY <1>5 DEF Ends
  <2>2. SentOk(d)'
    BY <1>1, <1>2, SentOkStays
  <2>3. ReceivedOk(d)'
    BY <1>1, <1>2, <1>3, <2>1 DEF ReceivedOk, Popped
  <2>4. ChainOk(d)'
    BY <1>1, <1>2, <1>3, <2>1 DEF ChainOk
  <2>5. QED
    BY <2>2, <2>3, <2>4
<1>11. HandshakeInv'
  <2>1. sock["client"] = "closed" \/ ~ Fresh("client")
    BY <1>1, <1>2, <1>3, <1>4 DEF NoAnswerYet
  <2>2. Unaccepted' /\ CodeComesFirst' /\ NoAnswerYet'
    BY <1>1, <1>2, <1>3, <1>5, <2>1, EndFacts DEF Unaccepted, CodeComesFirst, NoAnswerYet
  <2>3. EarlyIsNoted' /\ AnswerIsRight'
    BY <1>1, <1>2, <1>5, EndFacts DEF EarlyIsNoted, AnswerIsRight
  <2>4. QED
    BY <2>2, <2>3 DEF HandshakeInv
<1>12. RefusedOnlyIfEarly'
  BY <1>1, <1>2 DEF RefusedOnlyIfEarly
<1>13. QED
  BY <1>6, <1>8, <1>9, <1>10, <1>11, <1>12 DEF IInv, EndInv, Ends

LEMMA PairIsFunction ==
  ASSUME NEW S, NEW a \in S, NEW b \in S
  PROVE  [client |-> a, server |-> b] \in [Ends -> S]
BY DEF Ends

LEMMA AnswerCodeInv ==
  ASSUME IInv, NEW isShort \in BOOLEAN, AnswerCode(isShort)
  PROVE  IInv'
<1> DEFINE code == Scrambled(isShort)
<1>1. /\ reading["client"] = "code" /\ wire["client"] # <<>>
      /\ wire' = [client |-> Tail(wire["client"]), server |-> Append(wire["server"], code)]
      /\ IF isShort THEN short < MaxShort /\ short' = short + 1 ELSE short' = short
      /\ reading' = [reading EXCEPT !["client"] = IF isShort THEN "answerShort" ELSE "answer"]
      /\ UNCHANGED <<sock, writing, m_qMessagesOut, m_msgBuff, posted, sent, received, early, refused>>
  BY DEF AnswerCode, ReadCode, buffers, history
<1>2. /\ TypeOK /\ \A d \in Ends : WireOk(d) /\ SentOk(d) /\ ReceivedOk(d) /\ ChainOk(d)
      /\ Unaccepted /\ CodeComesFirst /\ NoAnswerYet /\ EarlyIsNoted /\ AnswerIsRight
      /\ RefusedOnlyIfEarly
  BY DEF IInv, EndInv, HandshakeInv
<1>3. /\ sock["client"] = "open" /\ Fresh("client") /\ sock["server"] # "none"
      /\ wire["server"] \in Seq(Word) /\ wire["client"] \in Seq(Word)
      /\ wire["client"][1] = Code(TRUE) /\ Head(wire["client"]) = wire["client"][1]
  <2>1. sock["client"] = "open" /\ Fresh("client") /\ sock["server"] # "none"
    BY <1>1, <1>2, EndFacts DEF ChainOk, Fresh, Unaccepted
  <2>2. wire["server"] \in Seq(Word) /\ wire["client"] \in Seq(Word)
    BY <1>2, EndFacts DEF TypeOK
  <2>3. Head(wire["client"]) = wire["client"][1]
    BY <1>1, <2>2, TailFacts
  <2>4. QED
    BY <1>2, <2>1, <2>2, <2>3 DEF CodeComesFirst
<1>4. /\ code \in Word /\ code.kind = "code"
      /\ ~ isShort => code = Code(TRUE)
  BY <1>3, CodeFacts DEF Scrambled, RightCode
<1>5. short' \in 0 .. MaxShort /\ short' >= short /\ short \in Nat /\ (isShort => short' > 0)
  BY SMTT(30), <1>1, <1>2, ConnectionAssumption DEF TypeOK
<1>6. /\ wire'["client"] = Tail(wire["client"])
      /\ wire'["server"] = Append(wire["server"], code) /\ wire'["server"] # <<>>
      /\ wire["server"] = <<>> => wire'["server"][1] = code /\ Tail(wire'["server"]) = <<>>
      /\ wire["server"] # <<>> => wire'["server"][1] = wire["server"][1]
      /\ wire' \in [Ends -> Seq(Word)]
  <2>1. /\ wire'["client"] = Tail(wire["client"])
        /\ wire'["server"] = Append(wire["server"], code)
    BY <1>1
  <2>2. /\ Append(wire["server"], code) \in Seq(Word) /\ Tail(wire["client"]) \in Seq(Word)
        /\ Append(wire["server"], code) # <<>>
    BY SMTT(30), <1>1, <1>3, <1>4, AppendFacts, TailFacts
  <2> HIDE DEF code
  <2>3. wire["server"] # <<>> => Append(wire["server"], code)[1] = wire["server"][1]
    BY <1>3, <1>4, AppendFacts, TailFacts
  <2>4. wire["server"] = <<>> => /\ Append(wire["server"], code)[1] = code
                                 /\ Tail(Append(wire["server"], code)) = <<>>
    BY <1>4
  <2>5. wire' \in [Ends -> Seq(Word)]
    BY <1>1, <2>2, PairIsFunction DEF code
  <2>6. QED
    BY <2>1, <2>2, <2>3, <2>4, <2>5
<1>7. /\ reading'["client"] \in {"answer", "answerShort"} /\ reading'["server"] = reading["server"]
      /\ ~ Fresh("client")' /\ Fresh("server")' = Fresh("server")
      /\ \A d \in Ends : Expected(d)' = Expected(d)
  BY <1>1, <1>2, EndFacts DEF TypeOK, Fresh, Expected, Ends
<1>8. TypeOK'
  BY <1>1, <1>2, <1>5, <1>6 DEF TypeOK
<1>9. \A d \in Ends : CanWrite(d)' = CanWrite(d) /\ ToWrite(d)' = ToWrite(d)
  BY <1>1 DEF CanWrite, ToWrite, Popped
<1>10. WireOk("client")'
  <2>1. Between("client", Tail(wire["client"]))
    BY <1>1, <1>2, <1>3, CodeFacts, EndFacts DEF WireOk
  <2>2. Between("client", wire["client"])' = Between("client", Tail(wire["client"]))
    BY <1>1, <1>6, <1>7, <1>9, EndFacts DEF Between
  <2>3. QED
    BY <1>7, <2>1, <2>2 DEF WireOk
<1>11. WireOk("server")'
  <2>1. SUFFICES ASSUME sock["server"] # "closed"
                 PROVE  WireOk("server")'
    BY <1>1 DEF WireOk
  <2>2. Fresh("server") /\ (wire["server"] = <<>> \/ wire["server"][1].kind # "code")
    BY <1>2, <1>3, <2>1 DEF NoAnswerYet
  <2>3. wire["server"] = <<>> => Between("server", Tail(wire["server"]))'
    <3>1. wire["server"] = <<>> => Between("server", <<>>)
      BY <1>2, <2>1, <2>2, EndFacts DEF WireOk
    <3>2. wire["server"] = <<>> =>
            Between("server", Tail(wire["server"]))' = Between("server", <<>>)
      BY <1>1, <1>6, <1>7, <1>9, EndFacts DEF Between
    <3>3. QED
      BY <3>1, <3>2
  <2>4. QED
    BY <1>6, <1>7, <2>2, <2>3 DEF WireOk
<1>12. ASSUME NEW d \in Ends
       PROVE  SentOk(d)' /\ ReceivedOk(d)' /\ ChainOk(d)'
  <2>1. \/ reading'[d] = reading[d]
        \/ d = "client" /\ reading'[d] \in {"answer", "answerShort"}
    BY <1>7 DEF Ends
  <2>2. SentOk(d)'
    BY <1>1, <1>2, SentOkStays
  <2>3. ReceivedOk(d)'
    BY <1>1, <1>2, <1>3, <2>1 DEF ReceivedOk, Popped
  <2>4. ChainOk(d)'
    BY <1>1, <1>2, <1>3, <2>1 DEF ChainOk
  <2>5. QED
    BY <2>2, <2>3, <2>4
<1>13. HandshakeInv'
  <2>1. Unaccepted' /\ CodeComesFirst' /\ NoAnswerYet'
    BY <1>1, <1>3, <1>7 DEF Unaccepted, CodeComesFirst, NoAnswerYet
  <2>2. EarlyIsNoted'
    BY <1>1, <1>2 DEF EarlyIsNoted
  <2>3. AnswerIsRight'
    <3>1. SUFFICES ASSUME sock["server"] # "closed", Fresh("server"),
                          wire'["server"][1] # Code(TRUE)
                   PROVE  early \/ short' > 0
      BY <1>1, <1>6, <1>7 DEF AnswerIsRight
    <3>2. CASE wire["server"] = <<>>
      BY <1>4, <1>5, <1>6, <3>1, <3>2
    <3>3. CASE wire["server"] # <<>>
      <4>1. early \/ short > 0
        BY <1>2, <1>6, <3>1, <3>3 DEF AnswerIsRight
      <4>2. short > 0 => short' > 0
        BY <1>5
      <4>3. QED
        BY <4>1, <4>2
    <3>4. QED
      BY <3>2, <3>3
  <2>4. QED
    BY <2>1, <2>2, <2>3 DEF HandshakeInv
<1>14. RefusedOnlyIfEarly'
  BY <1>1, <1>2, <1>5 DEF RefusedOnlyIfEarly
<1>15. QED
  BY <1>8, <1>10, <1>11, <1>12, <1>13, <1>14 DEF IInv, EndInv, Ends

-----------------------------------------------------------------------------
(* The invariant *)

LEMMA InitInv ==
  ASSUME Init
  PROVE  IInv
<1>1. /\ sock = [server |-> "none", client |-> "connecting"]
      /\ early = FALSE /\ refused = FALSE /\ short = 0
      /\ \A e \in Ends : /\ reading[e] = "none" /\ writing[e] = "none"
                         /\ m_qMessagesOut[e] = <<>> /\ posted[e] = <<>> /\ wire[e] = <<>>
                         /\ sent[e] = <<>> /\ received[e] = <<>>
  BY DEF Init
<1>2. TypeOK
  <2>1. sock \in [Ends -> {"none", "connecting", "unconnected", "open", "closed"}]
    BY <1>1, PairIsFunction
  <2>2. m_msgBuff \in [Ends -> [n : 0 .. MaxSends, size : {0, 1}, body : 0 .. MaxSends]]
    BY ConnectionAssumption DEF Init, NoBody
  <2>3. /\ reading \in [Ends -> {"none", "code", "answer", "answerShort", "lost", "header", "body"}]
        /\ writing \in [Ends -> {"none", "header", "body", "failed"}]
    BY DEF Init
  <2>4. \A S : [e \in Ends |-> <<>>] \in [Ends -> Seq(S)]
    OBVIOUS
  <2>5. /\ m_qMessagesOut \in [Ends -> Seq(Message)] /\ posted \in [Ends -> Seq(Message)]
        /\ wire \in [Ends -> Seq(Word)] /\ sent \in [Ends -> Seq(Message)]
        /\ received \in [Ends -> Seq([n : 1 .. MaxSends, size : {0, 1}, body : 0 .. MaxSends])]
    BY <2>4 DEF Init
  <2>6. short \in 0 .. MaxShort
    BY <1>1, ConnectionAssumption
  <2>7. QED
    BY <1>1, <2>1, <2>2, <2>3, <2>5, <2>6 DEF TypeOK
<1>3. \A e \in Ends : sock[e] # "closed" /\ sock[e] # "open" /\ Len(<<>>) = 0 /\ Popped(e) = 0
  <2>1. sock["server"] = "none" /\ sock["client"] = "connecting"
    BY <1>1
  <2>2. ASSUME NEW e \in Ends
        PROVE  Popped(e) = 0
    <3>1. sent[e] = <<>> /\ posted[e] = <<>> /\ m_qMessagesOut[e] = <<>> /\ Len(<<>>) = 0
      BY <1>1
    <3>2. Popped(e) = 0 - 0 - 0
      BY <3>1 DEF Popped
    <3>3. QED
      BY <3>2
  <2>3. QED
    BY <2>1, <2>2 DEF Ends
<1>4. ASSUME NEW e \in Ends
      PROVE  WireOk(e) /\ SentOk(e) /\ ReceivedOk(e) /\ ChainOk(e)
  <2>1. Other(e) \in Ends
    BY EndFacts
  <2>2. Fresh(e) /\ Expected(e) = <<"header", 1>>
    BY <1>1, <1>3 DEF Fresh, Expected
  <2>3. ToWrite(Other(e)) = <<"header", 1>>
    BY <1>1, <1>3, <2>1 DEF ToWrite
  <2>4. Between(e, <<>>)
    BY <2>2, <2>3, LinkedEmpty DEF Between
  <2>5. WireOk(e)
    BY <1>1, <2>2, <2>4 DEF WireOk
  <2>6. SentOk(e) /\ ReceivedOk(e) /\ ChainOk(e)
    BY <1>1, <1>3, <2>1, ConnectionAssumption DEF SentOk, ReceivedOk, ChainOk
  <2>7. QED
    BY <2>5, <2>6
<1>5. HandshakeInv /\ RefusedOnlyIfEarly
  BY <1>1, EndFacts DEF HandshakeInv, Unaccepted, CodeComesFirst, NoAnswerYet, EarlyIsNoted,
                        AnswerIsRight, Fresh, RefusedOnlyIfEarly
<1>6. QED
  BY <1>2, <1>4, <1>5 DEF IInv, EndInv

LEMMA AcceptedInv ==
  ASSUME IInv, Accepted
  PROVE  IInv'
<1>1. /\ sock["server"] = "none" /\ sock' = [sock EXCEPT !["server"] = "open"]
      /\ posted' = [posted EXCEPT !["server"] = Append(posted["server"], Sized(1))]
      /\ sent' = [sent EXCEPT !["server"] = Append(sent["server"], Sized(1))]
      /\ wire' = [wire EXCEPT !["client"] = Append(wire["client"], Code(TRUE))]
      /\ reading' = [reading EXCEPT !["server"] = "code"]
      /\ UNCHANGED <<writing, m_qMessagesOut, m_msgBuff, received, early, refused, short>>
  BY EndFacts DEF Accepted, Post, Put, FirstRead
<1>2. /\ TypeOK /\ \A d \in Ends : WireOk(d) /\ SentOk(d) /\ ReceivedOk(d) /\ ChainOk(d)
      /\ Unaccepted /\ CodeComesFirst /\ NoAnswerYet /\ EarlyIsNoted /\ AnswerIsRight
      /\ RefusedOnlyIfEarly
  BY DEF IInv, EndInv, HandshakeInv
<1>3. /\ wire["client"] = <<>> /\ sent["server"] = <<>> /\ Fresh("client") /\ Fresh("server")
      /\ reading["server"] = "none" /\ writing["server"] = "none"
      /\ Popped("server") = 0 /\ posted["server"] = <<>> /\ m_qMessagesOut["server"] = <<>>
  <2>1. /\ wire["client"] = <<>> /\ sent["server"] = <<>> /\ Fresh("client")
        /\ reading["server"] = "none" /\ writing["server"] = "none"
    BY <1>1, <1>2 DEF Unaccepted
  <2>2. m_qMessagesOut["server"] = <<>>
    BY <1>1, <1>2, <2>1, EndFacts DEF ChainOk
  <2>3. /\ posted["server"] \in Seq(Message) /\ Len(posted["server"]) \in Nat
        /\ Popped("server") = 0 - Len(posted["server"]) - 0 /\ Popped("server") >= 0
    BY <1>2, <2>1, <2>2, EndFacts DEF TypeOK, Popped, SentOk
  <2>4. Popped("server") = 0 /\ Len(posted["server"]) = 0
    BY <2>3
  <2>5. QED
    BY <2>1, <2>2, <2>3, <2>4, EmptySeq DEF Fresh
<1>4. /\ Sized(1) \in Message /\ Code(TRUE) \in Word
  <2>1. 1 \in 1 .. MaxSends
    BY ConnectionAssumption
  <2>2. QED
    BY <2>1, MessageFacts, CodeFacts
<1>5. /\ posted'["server"] = <<Sized(1)>> /\ posted'["client"] = posted["client"]
      /\ sent'["server"] = <<Sized(1)>> /\ sent'["client"] = sent["client"]
      /\ wire'["client"] = <<Code(TRUE)>> /\ wire'["server"] = wire["server"]
      /\ reading'["server"] = "code" /\ reading'["client"] = reading["client"]
      /\ sock'["server"] = "open" /\ sock'["client"] = sock["client"]
  <2>1. Append(<<>>, Sized(1)) = <<Sized(1)>> /\ Append(<<>>, Code(TRUE)) = <<Code(TRUE)>>
    OBVIOUS
  <2>0. /\ DOMAIN posted = Ends /\ DOMAIN sent = Ends /\ DOMAIN wire = Ends
        /\ DOMAIN reading = Ends /\ DOMAIN sock = Ends
    BY <1>2 DEF TypeOK
  <2>2. posted'["server"] = <<Sized(1)>> /\ posted'["client"] = posted["client"]
    BY <1>1, <1>3, <2>0, <2>1, EndFacts
  <2>3. sent'["server"] = <<Sized(1)>> /\ sent'["client"] = sent["client"]
    BY <1>1, <1>3, <2>0, <2>1, EndFacts
  <2>4. wire'["client"] = <<Code(TRUE)>> /\ wire'["server"] = wire["server"]
    BY <1>1, <1>3, <2>0, <2>1, EndFacts
  <2>5. /\ reading'["server"] = "code" /\ reading'["client"] = reading["client"]
        /\ sock'["server"] = "open" /\ sock'["client"] = sock["client"]
    BY <1>1, <2>0, EndFacts
  <2>6. QED
    BY <2>2, <2>3, <2>4, <2>5
<1>6. TypeOK'
  <2>1. Append(posted["server"], Sized(1)) \in Seq(Message)
    BY <1>2, <1>4, EndFacts, AppendFacts DEF TypeOK
  <2>2. Append(sent["server"], Sized(1)) \in Seq(Message)
    BY <1>2, <1>4, EndFacts, AppendFacts DEF TypeOK
  <2>3. Append(wire["client"], Code(TRUE)) \in Seq(Word)
    BY <1>2, <1>4, EndFacts, AppendFacts DEF TypeOK
  <2>4. QED
    BY <1>1, <1>2, <2>1, <2>2, <2>3 DEF TypeOK
<1>7. Fresh("server")' /\ Fresh("client")'
  BY <1>3, <1>5 DEF Fresh
<1>8. Popped("server")' = 0 /\ Popped("client")' = Popped("client")
  BY <1>1, <1>3, <1>5 DEF Popped
<1>9. \A d \in Ends : /\ CanWrite(d)' = CanWrite(d) /\ ToWrite(d)' = ToWrite(d)
                      /\ Expected(d)' = Expected(d)
  <2>1. CanWrite("server")' = CanWrite("server") /\ CanWrite("client")' = CanWrite("client")
    BY <1>1, <1>5 DEF CanWrite
  <2>2. ToWrite("server")' = ToWrite("server") /\ ToWrite("client")' = ToWrite("client")
    BY <1>1, <1>3, <1>5, <1>8 DEF ToWrite
  <2>3. Expected("server")' = Expected("server") /\ Expected("client")' = Expected("client")
    BY <1>1, <1>3, <1>5 DEF Expected
  <2>4. QED
    BY <2>1, <2>2, <2>3 DEF Ends
<1>10. WireOk("server")'
  <2>1. /\ Between("server", <<>>)' = Between("server", <<>>)
        /\ Between("server", Tail(wire["server"]))' = Between("server", Tail(wire["server"]))
    BY <1>5, <1>9, EndFacts DEF Between
  <2>2. WireOk("server") /\ sock["server"] # "closed"
    BY <1>1, <1>2, EndFacts
  <2>3. QED
    BY <1>3, <1>5, <1>7, <2>1, <2>2 DEF WireOk
<1>11. WireOk("client")'
  <2>1. SUFFICES ASSUME sock["client"] # "closed"
                 PROVE  WireOk("client")'
    BY <1>5 DEF WireOk
  <2>2. Between("client", <<>>)
    BY <1>2, <1>3, <2>1, EndFacts DEF WireOk
  <2>3. CanWrite("server") => ToWrite("server") = Expected("client")
    BY <2>2, LinkedEmpty, EndFacts DEF Between
  <2>4. Linked(<<>>, sent'["server"], Expected("client")', CanWrite("server")', ToWrite("server")')
    BY <1>9, <2>3, LinkedEmpty, EndFacts
  <2>5. Tail(wire'["client"]) = <<>> /\ wire'["client"] # <<>>
    BY <1>5
  <2>6. Between("client", Tail(wire["client"]))'
    BY <2>4, <2>5, EndFacts DEF Between
  <2>7. QED
    BY <1>7, <2>5, <2>6 DEF WireOk
<1>12. SentOk("server")' /\ SentOk("client")'
  <2>1. SentOk("client")'
    BY <1>1, <1>2, <1>5, <1>8, EndFacts DEF SentOk
  <2>2. /\ Len(<<Sized(1)>>) = 1 /\ <<Sized(1)>>[1] = Sized(1) /\ Len(<<>>) = 0
        /\ \A i \in 1 .. 1 : i = 1
    OBVIOUS
  <2>3. /\ sent'["server"] = <<Sized(1)>> /\ posted'["server"] = <<Sized(1)>>
        /\ m_qMessagesOut'["server"] = <<>>
    BY <1>1, <1>3, <1>5
  <2>4. QED
    BY <1>8, <2>1, <2>2, <2>3, ConnectionAssumption DEF SentOk
<1>13. ReceivedOk("server")' /\ ReceivedOk("client")'
  <2>1. ReceivedOk("server")'
    BY <1>1, <1>2, <1>3, <1>5, EndFacts DEF ReceivedOk
  <2>2. ReceivedOk("client") /\ reading'["client"] # "body"
    BY <1>2, <1>3, <1>5, EndFacts DEF Fresh
  <2>3. Len(received["client"]) = 0
    BY <1>2, <1>3, <2>2, EndFacts, LengthFacts DEF ReceivedOk
  <2>4. Len(sent'["server"]) = 1
    BY <1>5
  <2>5. ReceivedOk("client")'
    BY <1>1, <2>2, <2>3, <2>4, EndFacts DEF ReceivedOk
  <2>6. QED
    BY <2>1, <2>5
<1>14. ChainOk("server")' /\ ChainOk("client")'
  BY <1>1, <1>2, <1>3, <1>5, EndFacts DEF ChainOk
<1>15. HandshakeInv'
  <2>0. sock["server"] # "closed" /\ <<Code(TRUE)>> # <<>> /\ <<Code(TRUE)>>[1] = Code(TRUE)
    BY <1>1
  <2>1. Unaccepted' /\ CodeComesFirst' /\ NoAnswerYet'
    <3>1. Unaccepted'
      BY <1>5 DEF Unaccepted
    <3>2. CodeComesFirst'
      BY <1>5, <2>0 DEF CodeComesFirst
    <3>3. NoAnswerYet'
      BY <1>2, <1>3, <1>5, <1>7, <2>0 DEF NoAnswerYet
    <3>4. QED
      BY <3>1, <3>2, <3>3
  <2>2. EarlyIsNoted' /\ AnswerIsRight'
    BY <1>1, <1>2, <1>3, <1>5, <1>7 DEF EarlyIsNoted, AnswerIsRight
  <2>3. QED
    BY <2>1, <2>2 DEF HandshakeInv
<1>16. RefusedOnlyIfEarly'
  BY <1>1, <1>2 DEF RefusedOnlyIfEarly
<1>17. QED
  BY <1>6, <1>10, <1>11, <1>12, <1>13, <1>14, <1>15, <1>16 DEF IInv, EndInv, Ends

LEMMA StutterInv ==
  ASSUME IInv, UNCHANGED vars
  PROVE  IInv'
<1>1. /\ sock' = sock /\ reading' = reading
      /\ UNCHANGED <<writing, buffers, wire, history, short>>
  BY DEF vars
<1>2. TypeOK /\ \A d \in Ends : ChainOk(d)
  BY DEF IInv, EndInv
<1>3. TypeOK'
  BY <1>1, <1>2 DEF TypeOK, buffers, history
<1>4. \A d \in Ends : /\ Fresh(d)' = Fresh(d)
                      /\ reading'[d] # "none" => sock'[d] = "open"
  BY <1>1, <1>2 DEF Fresh, ChainOk
<1>5. QED
  BY <1>1, <1>3, <1>4, QuietInv

LEMMA NextInv ==
  ASSUME IInv, [Next]_vars
  PROVE  IInv'
<1>1. CASE HandshakeStep
  BY <1>1, AcceptedInv, ConnectFailsInv, ConnectedInv, AnsweredInv, ValidatedInv, AnswerCodeInv,
     RefusedInv DEF HandshakeStep
<1>2. CASE \E e \in Ends : WriteStep(e) \/ ReadStep(e) \/ ProgramEnds(e)
  BY <1>2, RunPostedInv, HeaderWrittenInv, BodyWrittenInv, ReadHeaderInv, ReadBodyInv, ClosesInv
     DEF WriteStep, ReadStep
<1>3. CASE \E e \in Ends, m \in Message : Send(e, m)
  BY <1>3, SendInv
<1>4. CASE UNCHANGED vars
  BY <1>4, StutterInv
<1>5. QED
  BY <1>1, <1>2, <1>3, <1>4 DEF Next

(* The inductive invariant of both ends: what is written, on the wire and  *)
(* read belongs to one numbered stream in each direction.                  *)
THEOREM Invariance == Spec => []IInv
<1>1. Init => IInv
  BY InitInv
<1>2. IInv /\ [Next]_vars => IInv'
  BY NextInv
<1>3. QED
  BY <1>1, <1>2, PTL DEF Spec

(* The buffers of both ends and the wire hold only messages and words that *)
(* the handlers can tell apart: ReadHeader never stores a code.            *)
THEOREM TypeCorrect == Spec => []TypeOK
<1>1. IInv => TypeOK
  BY DEF IInv
<1>2. QED
  BY <1>1, Invariance, PTL

(* The write chain does not stall: as long as the socket is open, a        *)
(* message in m_qMessagesOut has a handler of WriteHeader or WriteBody     *)
(* that will go on with it, and there is none for an empty deque.          *)
THEOREM WriterStaysAwake == Spec => []WriterNeverStalls
<1>1. IInv => WriterNeverStalls
  BY DEF IInv, EndInv, ChainOk, WriterNeverStalls
<1>2. QED
  BY <1>1, Invariance, PTL

(* ReadValidation of the server refuses only a client that used Send       *)
(* before it was told its id, or one of the two ends read a part of the    *)
(* eight bytes.                                                            *)
THEOREM RefusedIsEarly == Spec => []RefusedOnlyIfEarly
<1>1. IInv => RefusedOnlyIfEarly
  BY DEF IInv
<1>2. QED
  BY <1>1, Invariance, PTL

-----------------------------------------------------------------------------
(* Each direction is an ordered channel *)

(* What an end has heard is the beginning of what the other end sent.      *)
HeardOk(e) ==
  /\ Heard(e) \in Seq(Message) /\ Len(Heard(e)) = Len(received[e])
  /\ Len(received[e]) \in Nat /\ Len(received[e]) <= Len(sent[Other(e)])
  /\ sent[Other(e)] \in Seq(Message)
  /\ \A i \in 1 .. Len(received[e]) : Heard(e)[i] = sent[Other(e)][i]

HeardInv == \A e \in Ends : HeardOk(e)

LEMMA HeardFacts == IInv => HeardInv
<1> SUFFICES ASSUME IInv, NEW e \in Ends
             PROVE  HeardOk(e)
  BY DEF HeardInv
<1>1. /\ TypeOK /\ ReceivedOk(e) /\ SentOk(Other(e)) /\ Other(e) \in Ends
  BY EndFacts DEF IInv, EndInv
<1>2. /\ received[e] \in Seq(Incoming) /\ sent[Other(e)] \in Seq(Message)
      /\ Len(received[e]) \in Nat /\ Len(sent[Other(e)]) \in Nat
      /\ DOMAIN received[e] = 1 .. Len(received[e])
  <2>1. received[e] \in Seq(Incoming) /\ sent[Other(e)] \in Seq(Message)
    BY <1>1 DEF TypeOK, Incoming
  <2>2. QED
    BY <2>1
<1>3. Len(received[e]) <= Len(sent[Other(e)])
  BY <1>1 DEF ReceivedOk
<1>4. ASSUME NEW i \in 1 .. Len(received[e])
      PROVE  Heard(e)[i] = sent[Other(e)][i] /\ sent[Other(e)][i] \in Message
  <2> DEFINE r == received[e][i]
             m == sent[Other(e)][i]
  <2>1. i \in 1 .. Len(sent[Other(e)])
    BY <1>2, <1>3
  <2>2. m \in Message /\ m.n = i
    BY <1>1, <1>2, <2>1, SentFacts
  <2>3. /\ r \in Incoming /\ r.n = i /\ r.size = m.size
        /\ r.size = 1 => r.body = i
    BY <1>1, <1>2 DEF ReceivedOk
  <2>4. Heard(e)[i] = IF r.size = 0 THEN [r EXCEPT !.body = NoBody] ELSE r
    BY <1>2 DEF Heard
  <2>5. m = IF m.size = 1 THEN [n |-> i, size |-> 1, body |-> i]
                          ELSE [n |-> i, size |-> 0, body |-> NoBody]
    BY <2>2, MessageFacts DEF Sized, Unsized
  <2>6. m.size \in {0, 1}
    BY <2>2, MessageFacts
  <2> HIDE DEF r, m
  <2>7. r = [n |-> r.n, size |-> r.size, body |-> r.body]
    BY <2>3 DEF Incoming
  <2>8. Heard(e)[i] = m
    BY <2>3, <2>4, <2>5, <2>6, <2>7
  <2>9. QED
    BY <2>2, <2>8 DEF m
<1>5. Heard(e) = [i \in 1 .. Len(received[e]) |-> Heard(e)[i]]
  BY <1>2 DEF Heard
<1>6. \A i \in 1 .. Len(received[e]) : Heard(e)[i] \in Message
  BY <1>4
<1>7. Heard(e) \in [1 .. Len(received[e]) -> Message]
  BY <1>5, <1>6
<1>8. Heard(e) \in Seq(Message) /\ Len(Heard(e)) = Len(received[e])
  BY <1>2, <1>7
<1>9. QED
  BY <1>2, <1>3, <1>4, <1>8 DEF HeardOk

(* What a step does to one direction.                                      *)
LEMMA StreamStep ==
  ASSUME IInv, [Next]_vars, NEW e \in Ends
  PROVE  \/ received'[e] = received[e] /\ sent'[Other(e)] = sent[Other(e)]
         \/ received'[e] = received[e] /\ \E m \in Message : sent'[Other(e)] = Append(sent[Other(e)], m)
         \/ sent'[Other(e)] = sent[Other(e)] /\ Len(received'[e]) = Len(received[e]) + 1
<1>1. TypeOK /\ Other(e) \in Ends
  BY EndFacts DEF IInv
<1>2. ASSUME NEW d \in Ends, NEW m \in Message, Post(d, m), received' = received
      PROVE  \/ sent'[Other(e)] = sent[Other(e)]
             \/ sent'[Other(e)] = Append(sent[Other(e)], m)
  BY <1>1, <1>2 DEF Post, TypeOK
<1>3. ASSUME NEW d \in Ends, NEW m, Queue(d, m), sent' = sent
      PROVE  received'[e] = received[e] \/ Len(received'[e]) = Len(received[e]) + 1
  <2>1. received'[e] = received[e] \/ received'[e] = Append(received[e], m)
    BY <1>1, <1>3 DEF Queue, TypeOK
  <2>2. received[e] \in Seq(Incoming)
    BY <1>1 DEF TypeOK, Incoming
  <2>3. Len(Append(received[e], m)) = Len(received[e]) + 1
    BY <2>2
  <2>4. QED
    BY <2>1, <2>3
<1>4. CASE Accepted
  <2>1. Sized(1) \in Message /\ "server" \in Ends
    BY ConnectionAssumption DEF Message, Ends
  <2>2. Post("server", Sized(1)) /\ received' = received
    BY <1>4 DEF Accepted
  <2>3. QED
    BY <1>2, <2>1, <2>2
<1>5. CASE \E d \in Ends, m \in Message : Send(d, m)
  BY <1>2, <1>5 DEF Send
<1>6. CASE \E d \in Ends : ReadHeader(d) \/ ReadBody(d)
  <2>1. PICK d \in Ends : ReadHeader(d) \/ ReadBody(d)
    BY <1>6
  <2>2. sent' = sent /\ (received' = received \/ \E m : Queue(d, m))
    BY <2>1 DEF ReadHeader, ReadBody
  <2>3. QED
    BY <1>3, <2>2
<1>7. CASE \/ ConnectFails \/ Connected \/ Answered \/ Validated \/ UNCHANGED vars
           \/ \E isShort \in BOOLEAN : AnswerCode(isShort) \/ Refused(isShort)
  <2>1. sent' = sent /\ received' = received
    BY <1>7 DEF ConnectFails, Connected, Answered, Validated, AnswerCode, Refused, Closed, history, vars
  <2>2. QED
    BY <2>1
<1>8. CASE \E d \in Ends : WriteStep(d) \/ ReadFails(d) \/ ProgramEnds(d)
  <2>1. sent' = sent /\ received' = received
    BY <1>8 DEF WriteStep, RunPosted, HeaderWritten, BodyWritten, WriteFails, ReadFails, ProgramEnds,
                Closed, WriteSteps, history
  <2>2. QED
    BY <2>1
<1>9. QED
  BY <1>4, <1>5, <1>6, <1>7, <1>8 DEF Next, HandshakeStep, ReadStep

LEMMA HeardStep ==
  ASSUME IInv, IInv', [Next]_vars, NEW e \in Ends
  PROVE  \/ Heard(e)' = Heard(e) /\ sent'[Other(e)] = sent[Other(e)]
         \/ /\ Heard(e)' = Heard(e)
            /\ \E m \in Message : sent'[Other(e)] = Append(sent[Other(e)], m)
         \/ /\ Len(Heard(e)) < Len(sent[Other(e)])
            /\ Heard(e)' = Append(Heard(e), sent[Other(e)][Len(Heard(e)) + 1])
            /\ sent'[Other(e)] = sent[Other(e)]
<1> DEFINE h == Heard(e)
           g == Heard(e)'
           s == sent[Other(e)]
<1>1. received'[e] = received[e] => g = h
  BY DEF Heard
<1>2. CASE sent'[Other(e)] = s /\ Len(received'[e]) = Len(received[e]) + 1
  <2>1. /\ h \in Seq(Message) /\ Len(h) = Len(received[e]) /\ Len(h) \in Nat
        /\ s \in Seq(Message) /\ \A i \in 1 .. Len(h) : h[i] = s[i]
    BY HeardFacts DEF HeardInv, HeardOk
  <2>2. HeardInv'
    BY HeardFacts, PTL
  <2>3. HeardOk(e)'
    BY <2>2 DEF HeardInv
  <2>4. /\ g \in Seq(Message) /\ Len(g) = Len(h) + 1 /\ Len(h) + 1 <= Len(s)
        /\ \A i \in 1 .. Len(h) + 1 : g[i] = s[i]
    BY <1>2, <2>1, <2>3 DEF HeardOk
  <2> HIDE DEF h, g, s
  <2>5. s[Len(h) + 1] \in Message /\ Len(s) \in Nat /\ Len(h) < Len(s)
    BY <2>1, <2>4
  <2>6. g = Append(h, s[Len(h) + 1])
    <3>1. /\ Append(h, s[Len(h) + 1]) \in Seq(Message)
          /\ Len(Append(h, s[Len(h) + 1])) = Len(h) + 1
          /\ Append(h, s[Len(h) + 1])[Len(h) + 1] = s[Len(h) + 1]
          /\ \A i \in 1 .. Len(h) : Append(h, s[Len(h) + 1])[i] = h[i]
      BY <2>1, <2>5, AppendFacts
    <3>2. \A i \in 1 .. Len(h) + 1 : g[i] = Append(h, s[Len(h) + 1])[i]
      BY <2>1, <2>4, <3>1
    <3>3. QED
      BY <2>4, <3>1, <3>2, SeqEqual
  <2>7. QED
    BY <1>2, <2>5, <2>6 DEF h, g, s
<1>3. QED
  BY <1>1, <1>2, StreamStep

(* The messages that the server queues are those that the client sent,     *)
(* each with its own body, in order: HeaderWritten, BodyWritten and the    *)
(* one read buffer neither lose nor mix them.                              *)
THEOREM ServerInOrder == Spec => ServerHearsInOrder
<1>1. Init => ToServer!Init
  BY EndFacts DEF Init, ToServer!Init, Heard
<1>2. IInv /\ IInv' /\ [Next]_vars => [ToServer!Next]_<<sent["client"], Heard("server")>>
  BY HeardStep, EndFacts DEF ToServer!Next, ToServer!Send, ToServer!Receive
<1>3. QED
  BY <1>1, <1>2, Invariance, PTL DEF Spec, ServerHearsInOrder, ToServer!Spec

(* The same for the messages that the server sends to the client, which    *)
(* include those that OnMessage sends before the handshake is over.        *)
THEOREM ClientInOrder == Spec => ClientHearsInOrder
<1>1. Init => ToClient!Init
  BY EndFacts DEF Init, ToClient!Init, Heard
<1>2. IInv /\ IInv' /\ [Next]_vars => [ToClient!Next]_<<sent["server"], Heard("client")>>
  BY HeardStep, EndFacts DEF ToClient!Next, ToClient!Send, ToClient!Receive
<1>3. QED
  BY <1>1, <1>2, Invariance, PTL DEF Spec, ClientHearsInOrder, ToClient!Spec
=============================================================================
