----------------------------- MODULE Connection ----------------------------
(***************************************************************************)
(* Net_chat/net_connection.h: the two ends of one connection, from the     *)
(* client's async_connect to the closed sockets.  Each end has an asio     *)
(* thread that runs the handlers below one at a time; Send posts to it     *)
(* from another thread.                                                    *)
(*                                                                         *)
(* The stream of bytes is a sequence of words: a validation code and a     *)
(* message header have eight bytes each, so that either can be read for    *)
(* the other; a body is one word, because async_read returns it whole.  A  *)
(* word is on the wire when its write is initiated (asio starts the        *)
(* operations of one socket in the order of their initiation); the         *)
(* completion handler runs later.                                          *)
(***************************************************************************)
EXTENDS Integers, Sequences

CONSTANTS
  MaxSends,    \* bound of the model: calls of Send at each end
  MaxShort     \* bound of the model: reads of a code that return a part of it

ASSUME ConnectionAssumption == MaxSends \in Nat \ {0} /\ MaxShort \in Nat

VARIABLES
  sock,            \* the socket of each end
  reading,         \* the read operation (or the reply) each end waits for
  writing,         \* the message write each end waits for
  m_qMessagesOut,
  m_msgBuff,
  posted,          \* lambdas of Send that have not run
  wire,            \* words on their way to each end
  sent,            \* messages given to Send at each end
  received,        \* messages queued by AddToIncomimgMessageQueue at each end
  early,           \* the client used Send before it was told its id
  refused,         \* the server found the validation code wrong
  short            \* how many reads of a code were short

buffers == <<m_qMessagesOut, m_msgBuff, posted>>
history == <<sent, received, early, refused>>
vars == <<sock, reading, writing, buffers, wire, history, short>>

Ends == {"server", "client"}
Other(e) == IF e = "server" THEN "client" ELSE "server"

\* A message is a number for its content, header.size (0 or 1) and its body: 0
\* when the vector is empty, else the number of the message it was made for.
NoBody == 0
Sized(n) == [n |-> n, size |-> 1, body |-> n]
Unsized(n) == [n |-> n, size |-> 0, body |-> NoBody]
Message == UNION {{Sized(n), Unsized(n)} : n \in 1 .. MaxSends}

Code(right) == [kind |-> "code", n |-> IF right THEN 1 ELSE 0, size |-> 0]
Header(m) == [kind |-> "header", n |-> m.n, size |-> m.size]
Body(m) == [kind |-> "body", n |-> m.body, size |-> 0]

Init ==
  /\ sock = [server |-> "none", client |-> "connecting"]
  /\ reading = [e \in Ends |-> "none"]
  /\ writing = [e \in Ends |-> "none"]
  /\ m_qMessagesOut = [e \in Ends |-> <<>>]
  /\ m_msgBuff = [e \in Ends |-> [n |-> 0, size |-> 0, body |-> NoBody]]
  /\ posted = [e \in Ends |-> <<>>]
  /\ wire = [e \in Ends |-> <<>>]
  /\ sent = [e \in Ends |-> <<>>]
  /\ received = [e \in Ends |-> <<>>]
  /\ early = FALSE
  /\ refused = FALSE
  /\ short = 0

IsConnected(e) == sock[e] \in {"connecting", "unconnected", "open"}

Put(e, word) == wire' = [wire EXCEPT ![Other(e)] = Append(@, word)]

\* m_socket.close(): what the end still waited for ends in handlers that close
\* the socket again and do nothing else
Closed(e) ==
  /\ sock' = [sock EXCEPT ![e] = "closed"]
  /\ reading' = [reading EXCEPT ![e] = "none"]
  /\ writing' = [writing EXCEPT ![e] = "none"]
  /\ UNCHANGED <<buffers, sent, received, early>>

-----------------------------------------------------------------------------
(* Send *)

Post(e, m) ==
  /\ posted' = [posted EXCEPT ![e] = Append(@, m)]
  /\ sent' = [sent EXCEPT ![e] = Append(@, m)]

\* The client's Send tests IsConnected; OnMessage calls connection::Send on any
\* connection that it finds.
Send(e, m) ==
  /\ Len(sent[e]) < MaxSends
  /\ IF e = "client" THEN IsConnected(e) ELSE sock[e] # "none"
  /\ m \in {Sized(Len(sent[e]) + 1), Unsized(Len(sent[e]) + 1)}
  /\ Post(e, m)
  /\ early' = (early \/ (e = "client" /\ received[e] = <<>>))
  /\ UNCHANGED <<sock, reading, writing, m_qMessagesOut, m_msgBuff, wire, received, refused, short>>

\* WriteHeader, for the message q begins with
WriteHeader(e, q) ==
  IF sock[e] = "open"
  THEN Put(e, Header(Head(q))) /\ writing' = [writing EXCEPT ![e] = "header"]
  ELSE writing' = [writing EXCEPT ![e] = "failed"] /\ UNCHANGED wire

\* Mutants of ~ bWritingMessage.
StartsAlways(e) == TRUE
StartsSecond(e) == m_qMessagesOut[e] # <<>>

StartsWriting(e) == m_qMessagesOut[e] = <<>>

\* the posted lambda
RunPosted(e) ==
  /\ posted[e] # <<>>
  /\ posted' = [posted EXCEPT ![e] = Tail(@)]
  /\ LET q == Append(m_qMessagesOut[e], Head(posted[e])) IN
       /\ m_qMessagesOut' = [m_qMessagesOut EXCEPT ![e] = q]
       /\ IF StartsWriting(e) THEN WriteHeader(e, q) ELSE UNCHANGED <<wire, writing>>
  /\ UNCHANGED <<sock, reading, m_msgBuff, history, short>>

WriteSteps == <<sock, reading, m_msgBuff, posted, sent, received, early, refused, short>>

\* Mutant: the chain of writes ends with its first message.
PopOutStops(e) ==
  /\ m_qMessagesOut' = [m_qMessagesOut EXCEPT ![e] = Tail(@)]
  /\ writing' = [writing EXCEPT ![e] = "none"]
  /\ UNCHANGED wire

\* pop_front, then the next message's header
PopOut(e) ==
  LET q == Tail(m_qMessagesOut[e]) IN
    /\ m_qMessagesOut' = [m_qMessagesOut EXCEPT ![e] = q]
    /\ IF q = <<>>
       THEN writing' = [writing EXCEPT ![e] = "none"] /\ UNCHANGED wire
       ELSE WriteHeader(e, q)

HeaderWritten(e) ==
  /\ writing[e] = "header"
  /\ IF Head(m_qMessagesOut[e]).body # NoBody
     THEN /\ Put(e, Body(Head(m_qMessagesOut[e])))
          /\ writing' = [writing EXCEPT ![e] = "body"]
          /\ UNCHANGED m_qMessagesOut
     ELSE PopOut(e)
  /\ UNCHANGED WriteSteps

BodyWritten(e) ==
  /\ writing[e] = "body"
  /\ PopOut(e)
  /\ UNCHANGED WriteSteps

WriteFails(e) ==
  /\ \/ writing[e] = "failed"
     \/ writing[e] \in {"header", "body"} /\ sock[Other(e)] = "closed"
  /\ Closed(e)
  /\ UNCHANGED <<wire, refused, short>>

-----------------------------------------------------------------------------
(* The handshake *)

\* Mutants: the server, the client begins with messages.
ServerFirstReadsHeader(e) == IF e = "server" THEN "header" ELSE "code"
ClientFirstReadsHeader(e) == IF e = "client" THEN "header" ELSE "code"

FirstRead(e) == "code"

\* The server's accept handler: OnClientConnect posts the ServerAccept, then
\* ConnectToClient writes its code and waits for the scrambled one.
Accepted ==
  /\ sock["server"] = "none" /\ sock["client"] # "unconnected"
  /\ sock' = [sock EXCEPT !["server"] = "open"]
  /\ Post("server", Sized(1))
  /\ Put("server", Code(TRUE))
  /\ reading' = [reading EXCEPT !["server"] = FirstRead("server")]
  /\ UNCHANGED <<writing, m_qMessagesOut, m_msgBuff, received, early, refused, short>>

\* async_connect leaves the socket open when no endpoint answers, and its
\* handler does nothing
ConnectFails ==
  /\ sock = [server |-> "none", client |-> "connecting"]
  /\ sock' = [sock EXCEPT !["client"] = "unconnected"]
  /\ UNCHANGED <<reading, writing, buffers, wire, history, short>>

\* async_connect's handler calls ReadValidation
Connected ==
  /\ sock["client"] = "connecting"
  /\ sock' = [sock EXCEPT !["client"] = "open"]
  /\ reading' = [reading EXCEPT !["client"] = FirstRead("client")]
  /\ UNCHANGED <<writing, buffers, wire, history, short>>

TakeWord(e) ==
  /\ wire[e] # <<>>
  /\ wire' = [wire EXCEPT ![e] = Tail(@)]

\* async_read_some: part of a word is compared, or scrambled, like the whole.
ReadCode(e, isShort) ==
  /\ reading[e] = "code"
  /\ IF isShort THEN short < MaxShort /\ short' = short + 1 ELSE UNCHANGED short

RightCode(e, isShort) == Head(wire[e]) = Code(TRUE) /\ ~ isShort

\* Mutant: the client sends the code back as it is.
NotScrambled(isShort) == Code(FALSE)

Scrambled(isShort) == Code(RightCode("client", isShort))

\* the client answers whatever it has read
AnswerCode(isShort) ==
  /\ ReadCode("client", isShort)
  /\ wire["client"] # <<>>
  /\ wire' = [client |-> Tail(wire["client"]),
              server |-> Append(wire["server"], Scrambled(isShort))]
  /\ reading' = [reading EXCEPT !["client"] = IF isShort THEN "answerShort" ELSE "answer"]
  /\ UNCHANGED <<sock, writing, buffers, history>>

\* WriteValidation's handler calls ReadHeader; after a short read the rest of
\* the code is taken for the beginning of a header, and nothing fits any more
Answered ==
  /\ reading["client"] \in {"answer", "answerShort"}
  /\ reading' = [reading EXCEPT !["client"] = IF @ = "answer" THEN "header" ELSE "lost"]
  /\ UNCHANGED <<sock, writing, buffers, wire, history, short>>

Validated ==
  /\ ReadCode("server", FALSE)
  /\ TakeWord("server")
  /\ RightCode("server", FALSE)
  /\ reading' = [reading EXCEPT !["server"] = "header"]
  /\ UNCHANGED <<sock, writing, buffers, history>>

\* "Wrong validation code"
Refused(isShort) ==
  /\ ReadCode("server", isShort)
  /\ TakeWord("server")
  /\ ~ RightCode("server", isShort)
  /\ Closed("server")
  /\ refused' = TRUE

-----------------------------------------------------------------------------
(* The read chain *)

\* AddToIncomimgMessageQueue, and ReadHeader again
Queue(e, m) ==
  /\ m_msgBuff' = [m_msgBuff EXCEPT ![e] = m]
  /\ received' = [received EXCEPT ![e] = Append(@, m)]
  /\ reading' = [reading EXCEPT ![e] = "header"]

\* only the header is overwritten: m_msgBuff.body keeps its content
ReadHeader(e) ==
  /\ reading[e] = "header"
  /\ TakeWord(e)
  /\ LET word == Head(wire[e])
         m == [n |-> word.n, size |-> word.size, body |-> m_msgBuff[e].body] IN
       IF word.size > 0
       THEN /\ m_msgBuff' = [m_msgBuff EXCEPT ![e] = m]
            /\ reading' = [reading EXCEPT ![e] = "body"]
            /\ UNCHANGED received
       ELSE Queue(e, m)
  /\ UNCHANGED <<sock, writing, m_qMessagesOut, posted, sent, early, refused, short>>

\* Mutant: the body read before is queued again.
WithOldBody(e) == m_msgBuff[e]

WithBody(e) == [m_msgBuff[e] EXCEPT !.body = Head(wire[e]).n]

ReadBody(e) ==
  /\ reading[e] = "body"
  /\ TakeWord(e)
  /\ Queue(e, WithBody(e))
  /\ UNCHANGED <<sock, writing, m_qMessagesOut, posted, sent, early, refused, short>>

\* the other end has closed: what it had sent may still be read, or not
ReadFails(e) ==
  /\ reading[e] # "none"
  /\ sock[Other(e)] = "closed"
  /\ Closed(e)
  /\ UNCHANGED <<wire, refused, short>>

\* the program at this end ends
ProgramEnds(e) ==
  /\ IsConnected(e)
  /\ Closed(e)
  /\ UNCHANGED <<wire, refused, short>>

-----------------------------------------------------------------------------
WriteStep(e) == RunPosted(e) \/ HeaderWritten(e) \/ BodyWritten(e) \/ WriteFails(e)
ReadStep(e) == ReadHeader(e) \/ ReadBody(e) \/ ReadFails(e)
HandshakeStep ==
  \/ Accepted \/ ConnectFails \/ Connected \/ Answered \/ Validated
  \/ \E isShort \in BOOLEAN : AnswerCode(isShort) \/ Refused(isShort)

Next ==
  \/ HandshakeStep
  \/ \E e \in Ends : WriteStep(e) \/ ReadStep(e) \/ ProgramEnds(e)
  \/ \E e \in Ends, m \in Message : Send(e, m)

Spec == Init /\ [][Next]_vars

\* io_context::run runs every handler whose operation has completed
FairSpec ==
  /\ Spec
  /\ WF_vars(HandshakeStep)
  /\ \A e \in Ends : WF_vars(WriteStep(e)) /\ WF_vars(ReadStep(e))

-----------------------------------------------------------------------------
(* Properties *)

Word == [kind : {"code"}, n : {0, 1}, size : {0}]
          \cup [kind : {"header"}, n : 1 .. MaxSends, size : {0, 1}]
          \cup [kind : {"body"}, n : 1 .. MaxSends, size : {0}]

\* The type invariant.
TypeOK ==
  /\ sock \in [Ends -> {"none", "connecting", "unconnected", "open", "closed"}]
  /\ reading \in [Ends -> {"none", "code", "answer", "answerShort", "lost", "header", "body"}]
  /\ writing \in [Ends -> {"none", "header", "body", "failed"}]
  /\ m_qMessagesOut \in [Ends -> Seq(Message)]
  /\ m_msgBuff \in [Ends -> [n : 0 .. MaxSends, size : {0, 1}, body : 0 .. MaxSends]]
  /\ posted \in [Ends -> Seq(Message)]
  /\ wire \in [Ends -> Seq(Word)]
  /\ sent \in [Ends -> Seq(Message)]
  /\ received \in [Ends -> Seq([n : 1 .. MaxSends, size : {0, 1}, body : 0 .. MaxSends])]
  /\ early \in BOOLEAN
  /\ refused \in BOOLEAN
  /\ short \in 0 .. MaxShort

\* What the handlers of an end can tell of its messages: no handler looks at the
\* body of a message that was sent without one.
Heard(e) ==
  [i \in DOMAIN received[e] |->
     IF received[e][i].size = 0 THEN [received[e][i] EXCEPT !.body = NoBody]
                                ELSE received[e][i]]

ToServer == INSTANCE OrderedChannel WITH sent <- sent["client"], received <- Heard("server")
ToClient == INSTANCE OrderedChannel WITH sent <- sent["server"], received <- Heard("client")

\* Each direction is an ordered channel: whatever the handshake, the write chain
\* (one chain of WriteHeader and WriteBody at a time, although every Send may
\* start one) and the one read buffer do, an end queues the messages the other
\* end sent, each with its own body, in order.
ServerHearsInOrder == ToServer!Spec
ClientHearsInOrder == ToClient!Spec

\* m_qMessagesOut doubles as the flag "a write is under way": on an open socket
\* it holds a message exactly while a handler is due that will go on with it.
WriterNeverStalls ==
  \A e \in Ends : sock[e] = "open" => (m_qMessagesOut[e] = <<>> <=> writing[e] = "none")

\* A client is turned away with a wrong code only if it sent a message before the
\* handshake was over, or one of the two reads of a code was short.
RefusedOnlyIfEarly == refused => early \/ short > 0

AnyClosed == \E e \in Ends : sock[e] = "closed"

\* The handshake comes to an end: the server does not wait for a code for ever.
HandshakeDecided == reading["server"] = "code" ~> reading["server"] # "code"

\* What Send was given reaches the other program unless the connection ends.
DeliveredOrClosed ==
  \A e \in Ends, n \in 1 .. MaxSends :
    Len(sent[e]) >= n ~> (Len(received[Other(e)]) >= n \/ AnyClosed)
=============================================================================
