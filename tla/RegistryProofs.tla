--------------------------- MODULE RegistryProofs --------------------------
(***************************************************************************)
(* TLAPS proofs about Registry, for any number of connections and          *)
(* messages: what the asio thread does between two entries of a loop       *)
(* neither shows the loop a null pointer nor hides a client from it, and   *)
(* the id a client is told is its own unless an entry was lost.  The       *)
(* accept handler's back() is in danger only inside an erase(remove(...)), *)
(* or once one has dropped an entry that was pushed meanwhile.             *)
(***************************************************************************)
EXTENDS Registry, RecursionProofs

Count == nIDCounter - FirstId + IF accepting = NoOne THEN 0 ELSE 1

\* the accept handler is between its push_back and its last back()
InHandler == accepting # NoOne \/ showing

(* Connections are numbered in the order of their acceptance, and the      *)
(* server's counter is as far; an id is missing only between push_back     *)
(* and ConnectToClient.                                                    *)
IdInv ==
  /\ Accepted = 1 .. Count
  /\ accepting # NoOne => accepting = Count /\ ~ showing
  /\ InHandler => Count \in Conns /\ IsConnected(Count)
  /\ \A c \in Conns : told[c] = IF c <= Count THEN FirstId + c - 1 ELSE 0
  /\ lost = {} => \A c \in Conns : id[c] \in {0, told[c]}

\* where the deque ends once the null pointers of remove are erased
BackAt ==
  IF task.pc = "erase" /\ Len(m_dequeConnections) = task.end
  THEN task.i - 1 ELSE Len(m_dequeConnections)

(* A null pointer stays in the deque only behind the loop that has put it  *)
(* there; remove moves them together, and erase takes them.                *)
DequeInv ==
  /\ Len(m_dequeConnections) <= Count
  /\ InHandler /\ Count \notin lost => BackAt >= 1 /\ m_dequeConnections[BackAt] = Count
  /\ \A k \in 1 .. Len(m_dequeConnections) :
       m_dequeConnections[k] = NoOne =>
         \/ task.pc = "remove"
         \/ task.pc = "erase" /\ task.i <= k /\ k <= task.end
         \/ task.pc = "loop" /\ task.InvalidClientExists /\ k < task.i
  /\ task.pc = "erase" =>
       /\ task.i <= task.end + 1 /\ task.end <= Len(m_dequeConnections)
       /\ \A k \in task.i .. task.end : m_dequeConnections[k] = NoOne

(* The entries in front of a loop's position have been reached, and only   *)
(* the sweeps take entries out.                                            *)
LoopInv ==
  task.pc = "loop" =>
    /\ task.InvalidClientExists => task.kind # "RequestToClient"
    /\ task.end <= Len(m_dequeConnections)
    /\ task.i <= task.end + 1
    /\ \A c \in task.throughout :
         IsConnected(c) /\ \E k \in 1 .. task.end : m_dequeConnections[k] = c
    /\ \A k \in 1 .. task.i - 1 :
         m_dequeConnections[k] \in task.throughout => m_dequeConnections[k] \in task.reached

IInv == TypeOK /\ IdInv /\ DequeInv /\ LoopInv /\ NoNullClient /\ OpenAreHeld /\ BackDefined

Entries == Conns \cup {NoOne}

-----------------------------------------------------------------------------
(* erase(remove(..., nullptr)) *)

(* The entries that are kept, one by one.                                  *)
LEMMA KeptIs ==
  ASSUME NEW s \in Seq(Entries)
  PROVE  \E kept \in [0 .. Len(s) -> Seq(Conns)] :
           /\ kept[0] = <<>>
           /\ \A k \in 1 .. Len(s) :
                kept[k] = IF s[k] = NoOne THEN kept[k - 1] ELSE Append(kept[k - 1], s[k])
           /\ KeepNonNull(s) = kept[Len(s)]
<1> DEFINE f[k \in 0 .. Len(s)] ==
             IF k = 0 THEN <<>>
             ELSE IF s[k] = NoOne THEN f[k - 1] ELSE Append(f[k - 1], s[k])
           G == [p \in (1 .. Len(s)) \X Seq(Conns) |->
                   IF s[p[1]] = NoOne THEN p[2] ELSE Append(p[2], s[p[1]])]
<1>1. ASSUME NEW k \in 1 .. Len(s)
      PROVE  /\ k - 1 \in 0 .. Len(s) /\ k # 0 /\ k \in 0 .. Len(s)
             /\ s[k] # NoOne => s[k] \in Conns
  BY DEF Entries
<1>2. <<>> \in Seq(Conns) /\ Len(s) \in Nat /\ 0 \in 0 .. Len(s)
  OBVIOUS
<1>3. ASSUME NEW k \in 1 .. Len(s), NEW x \in Seq(Conns)
      PROVE  /\ G[<<k, x>>] = IF s[k] = NoOne THEN x ELSE Append(x, s[k])
             /\ G[<<k, x>>] \in Seq(Conns)
  <2>1. <<k, x>> \in (1 .. Len(s)) \X Seq(Conns)
    OBVIOUS
  <2>2. G[<<k, x>>] = IF s[k] = NoOne THEN x ELSE Append(x, s[k])
    BY <2>1
  <2> HIDE DEF G
  <2>3. QED
    BY <1>1, <2>2
<1>4. PICK h \in [0 .. Len(s) -> Seq(Conns)] :
        h[0] = <<>> /\ \A k \in 1 .. Len(s) : h[k] = G[<<k, h[k - 1]>>]
  <2>1. StaysIn(G, Len(s), Seq(Conns))
    BY <1>3 DEF StaysIn
  <2> HIDE DEF G
  <2>2. \E h : Computes(h, <<>>, G, Len(s), Seq(Conns))
    BY <1>2, <2>1, RecursionExists
  <2>3. QED
    BY <2>2 DEF Computes
<1> HIDE DEF G
<1>5. \A k \in 1 .. Len(s) :
        h[k] = IF s[k] = NoOne THEN h[k - 1] ELSE Append(h[k - 1], s[k])
  BY <1>1, <1>3, <1>4
<1>6. f = [k \in 0 .. Len(s) |->
            IF k = 0 THEN <<>>
            ELSE IF s[k] = NoOne THEN f[k - 1] ELSE Append(f[k - 1], s[k])]
  <2> DEFINE E(g, k) == IF k = 0 THEN <<>>
                        ELSE IF s[k] = NoOne THEN g[k - 1] ELSE Append(g[k - 1], s[k])
  <2>1. \A k \in 0 .. Len(s) : k = 0 \/ k \in 1 .. Len(s)
    OBVIOUS
  <2>2. \A k \in 0 .. Len(s) : h[k] = E(h, k)
    BY <1>1, <1>4, <1>5, <2>1
  <2>3. h = [k \in 0 .. Len(s) |-> E(h, k)]
    <3> HIDE DEF E
    <3>1. QED
      BY <2>2
  <2>4. QED
    BY <2>3
<1>7. KeepNonNull(s) = f[Len(s)]
  BY DEF KeepNonNull
<1> HIDE DEF f
<1>8. 0 .. Len(s) \subseteq {k \in 0 .. Len(s) : f[k] = h[k]}
  <2> DEFINE S == {k \in 0 .. Len(s) : f[k] = h[k]}
  <2>1. 0 \in S
    BY <1>2, <1>4, <1>6
  <2>2. ASSUME NEW k \in 1 .. Len(s), k - 1 \in S
        PROVE  k \in S
    <3>1. f[k - 1] = h[k - 1]
      BY <2>2
    <3>2. f[k] = IF s[k] = NoOne THEN f[k - 1] ELSE Append(f[k - 1], s[k])
      BY <1>1, <1>6
    <3>3. QED
      BY <1>1, <1>5, <3>1, <3>2
  <2>3. QED
    <3> HIDE DEF S
    <3>1. 0 .. Len(s) \subseteq S
      BY <1>2, <2>1, <2>2, BoundedInduction
    <3>2. QED
      BY <3>1 DEF S
<1>9. KeepNonNull(s) = h[Len(s)]
  BY <1>2, <1>7, <1>8
<1>10. QED
  BY <1>4, <1>5, <1>9

(* No null pointer is kept, nothing else is dropped, and what was at the   *)
(* back stays there.                                                       *)
LEMMA KeepNonNullFacts ==
  ASSUME NEW s \in Seq(Entries), NEW r, r = KeepNonNull(s)
  PROVE  /\ r \in Seq(Conns) /\ Len(r) <= Len(s)
         /\ \A k \in 1 .. Len(s) : s[k] # NoOne => \E j \in 1 .. Len(r) : r[j] = s[k]
         /\ s # <<>> /\ Last(s) # NoOne => r # <<>> /\ Last(r) = Last(s)
<1>1. PICK kept \in [0 .. Len(s) -> Seq(Conns)] :
        /\ kept[0] = <<>>
        /\ \A k \in 1 .. Len(s) :
             kept[k] = IF s[k] = NoOne THEN kept[k - 1] ELSE Append(kept[k - 1], s[k])
        /\ KeepNonNull(s) = kept[Len(s)]
  BY KeptIs
<1> DEFINE Good(k) ==
             /\ Len(kept[k]) <= k
             /\ \A i \in 1 .. k : s[i] # NoOne =>
                  \E j \in 1 .. Len(kept[k]) : kept[k][j] = s[i]
           S == {k \in 0 .. Len(s) : Good(k)}
<1>2. Len(s) \in Nat /\ \A k \in 1 .. Len(s) : s[k] # NoOne => s[k] \in Conns
  BY DEF Entries
<1>3. 0 \in S
  <2>1. Good(0)
    BY <1>1
  <2>2. QED
    BY <1>2, <2>1
<1>4. ASSUME NEW k \in 1 .. Len(s), k - 1 \in S
      PROVE  k \in S
  <2>1. Good(k - 1) /\ k - 1 \in 0 .. Len(s)
    BY <1>4
  <2> DEFINE q == kept[k - 1]
  <2>2. q \in Seq(Conns) /\ Len(q) \in Nat
    BY <1>1, <2>1
  <2>3. CASE s[k] = NoOne
    <3>1. kept[k] = q
      BY <1>1, <2>3
    <3>2. \A i \in 1 .. k : s[i] # NoOne => i \in 1 .. k - 1
      BY <2>3
    <3>3. Good(k)
      BY <2>1, <2>2, <3>1, <3>2
    <3>4. QED
      BY <3>3
  <2>4. CASE s[k] # NoOne
    <3>1. kept[k] = Append(q, s[k]) /\ s[k] \in Conns
      BY <1>1, <1>2, <2>4
    <3>2. /\ Len(kept[k]) = Len(q) + 1 /\ kept[k][Len(q) + 1] = s[k]
          /\ \A j \in 1 .. Len(q) : kept[k][j] = q[j]
      BY <2>2, <3>1
    <3>3. Len(kept[k]) <= k
      BY <2>1, <2>2, <3>2
    <3>4. ASSUME NEW i \in 1 .. k, s[i] # NoOne
          PROVE  \E j \in 1 .. Len(kept[k]) : kept[k][j] = s[i]
      <4>1. CASE i = k
        BY <2>2, <3>2, <4>1
      <4>2. CASE i \in 1 .. k - 1
        <5>1. PICK j \in 1 .. Len(q) : q[j] = s[i]
          BY <2>1, <3>4, <4>2
        <5>2. j \in 1 .. Len(kept[k]) /\ kept[k][j] = s[i]
          BY <2>2, <3>2, <5>1
        <5>3. QED
          BY <5>2
      <4>3. QED
        BY <4>1, <4>2
    <3>5. QED
      BY <3>3, <3>4
  <2>5. QED
    BY <2>3, <2>4
<1>5. Len(s) \in S
  <2> HIDE DEF S
  <2>1. 0 .. Len(s) \subseteq S
    BY <1>2, <1>3, <1>4, BoundedInduction
  <2>2. QED
    BY <1>2, <2>1
<1>6. s # <<>> /\ Last(s) # NoOne => r # <<>> /\ Last(r) = Last(s)
  <2>1. SUFFICES ASSUME s # <<>>, s[Len(s)] # NoOne
                 PROVE  r # <<>> /\ r[Len(r)] = s[Len(s)]
    BY DEF Last
  <2>2. Len(s) \in 1 .. Len(s) /\ Len(s) - 1 \in 0 .. Len(s)
    BY <2>1
  <2>3. r = Append(kept[Len(s) - 1], s[Len(s)]) /\ kept[Len(s) - 1] \in Seq(Conns)
    BY <1>1, <2>1, <2>2
  <2>4. s[Len(s)] \in Conns
    BY <1>2, <2>1, <2>2
  <2>5. QED
    BY <2>3, <2>4
<1>7. QED
  BY <1>1, <1>2, <1>5, <1>6
-----------------------------------------------------------------------------
(* The initial states and the asio thread *)

LEMMA InitInv == Init => IInv
<1> SUFFICES ASSUME Init
             PROVE  IInv
  OBVIOUS
<1> USE RegistryAssumption DEF RegistryAssumption, Init, Idle, FirstId, NoOne, Conns, Kinds
<1>1. TypeOK
  <2>1. task \in Tasks
    BY DEF Tasks
  <2>2. /\ m_dequeConnections \in Seq(Conns \cup {NoOne}) /\ m_qMessagesIn \in Seq(Items)
        /\ nIDCounter \in GivenIds \cup {FirstId + MaxConnections}
        /\ read \in 0 .. MaxMessages /\ lost \in SUBSET Conns
    BY DEF GivenIds
  <2>3. /\ sock \in [Conns -> {"none", "open", "closed"}]
        /\ id \in [Conns -> GivenIds \cup {0}] /\ told \in [Conns -> GivenIds \cup {0}]
    OBVIOUS
  <2>4. showing \in BOOLEAN
    <3>1. showing = FALSE
      OBVIOUS
    <3>2. QED
      BY ONLY <3>1
  <2>5. QED
    BY <2>1, <2>2, <2>3, <2>4 DEF TypeOK
<1>2. IdInv
  BY DEF IdInv, InHandler, Count, Accepted
<1>3. DequeInv
  BY DEF DequeInv, InHandler, Count
<1>4. LoopInv /\ NoNullClient /\ OpenAreHeld /\ BackDefined
  BY DEF LoopInv, NoNullClient, OpenAreHeld, BackDefined, IsConnected
<1>5. QED
  BY <1>1, <1>2, <1>3, <1>4 DEF IInv

LEMMA AcceptPushInv == IInv /\ AcceptPush => IInv'
<1> SUFFICES ASSUME IInv, AcceptPush
             PROVE  IInv'
  OBVIOUS
<1> USE DEF IInv, InHandler, BackAt, NoOne, FirstId
<1>1. PICK c \in Conns :
        /\ Accepted = 1 .. c - 1
        /\ sock' = [sock EXCEPT ![c] = "open"]
        /\ told' = [told EXCEPT ![c] = nIDCounter]
        /\ accepting' = c
        /\ m_dequeConnections' = Append(m_dequeConnections, c)
  BY DEF AcceptPush
<1>2. /\ accepting = NoOne /\ ~ showing /\ status = "running"
      /\ UNCHANGED <<nIDCounter, id, showing, m_qMessagesIn, read, task, lost, status>>
  BY DEF AcceptPush, AsioFree, Running
<1>3. c \in Nat /\ c >= 1 /\ c <= MaxConnections
  BY RegistryAssumption DEF RegistryAssumption, Conns
<1>4. nIDCounter \in Nat
  BY RegistryAssumption DEF RegistryAssumption, TypeOK, GivenIds
<1>5. Count = nIDCounter - FirstId /\ Count \in Int
  BY <1>2, <1>4 DEF Count
<1>6. Count = c - 1
  <2>1. 1 .. Count = 1 .. c - 1
    BY <1>1 DEF IdInv
  <2>2. Count >= 0
    BY <1>4, <1>5, RegistryAssumption DEF RegistryAssumption, TypeOK, GivenIds
  <2>3. QED
    BY <1>3, <1>5, <2>1, <2>2
<1>7. Count' = c /\ nIDCounter = FirstId + c - 1
  BY <1>1, <1>2, <1>3, <1>4, <1>5, <1>6 DEF Count
<1>8. nIDCounter \in GivenIds
  BY <1>3, <1>7, RegistryAssumption DEF RegistryAssumption, GivenIds
<1>9. /\ m_dequeConnections' \in Seq(Entries)
      /\ Len(m_dequeConnections') = Len(m_dequeConnections) + 1
      /\ \A k \in 1 .. Len(m_dequeConnections) : m_dequeConnections'[k] = m_dequeConnections[k]
      /\ m_dequeConnections'[Len(m_dequeConnections')] = c
  <2>1. m_dequeConnections \in Seq(Entries) /\ c \in Entries
    BY DEF TypeOK, Entries
  <2>2. QED
    BY <1>1, <2>1
<1>10. Len(m_dequeConnections) \in Nat
  BY DEF TypeOK
<1>11. TypeOK'
  <2>1. m_dequeConnections' \in Seq(Conns \cup {NoOne})
    BY <1>9 DEF Entries
  <2>2. /\ sock' \in [Conns -> {"none", "open", "closed"}]
        /\ told' \in [Conns -> GivenIds \cup {0}]
        /\ accepting' \in Conns
    BY <1>1, <1>8 DEF TypeOK
  <2>3. QED
    BY <1>2, <2>1, <2>2 DEF TypeOK
<1>12. IdInv'
  <2>1. Accepted' = 1 .. c
    <3>1. \A d \in Conns : sock'[d] # "none" <=> d = c \/ sock[d] # "none"
      BY <1>1 DEF TypeOK
    <3>2. Accepted' = Accepted \cup {c}
      BY <3>1 DEF Accepted
    <3>3. QED
      BY <1>1, <1>3, <3>2
  <2>2. IsConnected(c)'
    BY <1>1 DEF IsConnected, TypeOK
  <2>3. \A d \in Conns : told'[d] = IF d <= c THEN FirstId + d - 1 ELSE 0
    <3>1. \A d \in Conns : told'[d] = IF d = c THEN FirstId + c - 1 ELSE told[d]
      BY <1>1, <1>7 DEF TypeOK
    <3>2. \A d \in Conns : told[d] = IF d <= c - 1 THEN FirstId + d - 1 ELSE 0
      BY <1>6 DEF IdInv
    <3>3. QED
      BY <1>3, <3>1, <3>2 DEF Conns
  <2>4. ASSUME lost = {}, NEW d \in Conns
        PROVE  id[d] \in {0, told'[d]}
    <3>1. id[d] \in {0, told[d]}
      BY <2>4 DEF IdInv
    <3>2. told[c] = 0
      BY <1>3, <1>6 DEF IdInv
    <3>3. d # c => told'[d] = told[d]
      BY <1>1 DEF TypeOK
    <3>4. QED
      BY <3>1, <3>2, <3>3
  <2>5. QED
    BY <1>1, <1>2, <1>7, <2>1, <2>2, <2>3, <2>4 DEF IdInv
<1>13. DequeInv'
  <2>1. Len(m_dequeConnections') <= Count'
    BY <1>3, <1>6, <1>7, <1>9, <1>10 DEF DequeInv
  <2>2. task.pc = "erase" =>
          /\ task.i \in Nat /\ task.end \in Nat
          /\ task.i <= task.end + 1 /\ task.end <= Len(m_dequeConnections)
          /\ \A k \in task.i .. task.end : m_dequeConnections[k] = NoOne
    BY DEF DequeInv, TypeOK, Tasks
  <2>3. BackAt' = Len(m_dequeConnections') /\ BackAt' >= 1
    BY <1>2, <1>9, <1>10, <2>2
  <2>4. ASSUME NEW k \in 1 .. Len(m_dequeConnections'), m_dequeConnections'[k] = NoOne
        PROVE  k \in 1 .. Len(m_dequeConnections) /\ m_dequeConnections[k] = NoOne
    BY <1>3, <1>9, <1>10, <2>4
  <2>5. task.pc = "erase" =>
          /\ task.end <= Len(m_dequeConnections')
          /\ \A k \in task.i .. task.end : m_dequeConnections'[k] = NoOne
    <3>1. ASSUME task.pc = "erase", NEW k \in task.i .. task.end
          PROVE  m_dequeConnections'[k] = NoOne
      <4>1. task.i \in 1 .. MaxConnections + 1
        BY DEF TypeOK, Tasks
      <4>2. k \in 1 .. Len(m_dequeConnections)
        BY <1>10, <2>2, <3>1, <4>1, RegistryAssumption DEF RegistryAssumption
      <4>3. QED
        BY <1>9, <2>2, <3>1, <4>2
    <3>2. QED
      BY <1>9, <1>10, <2>2, <3>1
  <2>6. QED
    <3>1. \A k \in 1 .. Len(m_dequeConnections) :
            m_dequeConnections[k] = NoOne =>
              \/ task.pc = "remove"
              \/ task.pc = "erase" /\ task.i <= k /\ k <= task.end
              \/ task.pc = "loop" /\ task.InvalidClientExists /\ k < task.i
      BY DEF DequeInv
    <3>2. m_dequeConnections'[BackAt'] = Count'
      BY <1>7, <1>9, <2>3
    <3> HIDE DEF BackAt
    <3>3. QED
      BY <1>2, <2>1, <2>2, <2>3, <2>4, <2>5, <3>1, <3>2 DEF DequeInv
<1>14. LoopInv'
  <2>1. SUFFICES ASSUME task.pc = "loop"
                 PROVE  LoopInv'
    BY <1>2 DEF LoopInv
  <2>2. /\ task.end \in Nat /\ task.i \in Nat
        /\ task.end <= Len(m_dequeConnections) /\ task.i <= task.end + 1
    BY <2>1 DEF LoopInv, TypeOK, Tasks
  <2>3. task.end <= Len(m_dequeConnections')
    BY <1>9, <1>10, <2>2
  <2>4. \A k \in 1 .. task.end : m_dequeConnections'[k] = m_dequeConnections[k]
    BY <1>9, <1>10, <2>2
  <2>5. ASSUME NEW d \in task.throughout
        PROVE  /\ IsConnected(d)'
               /\ \E k \in 1 .. task.end : m_dequeConnections'[k] = d
    <3>1. d \in Conns
      BY <2>5 DEF TypeOK, Tasks
    <3>2. IsConnected(d) /\ \E k \in 1 .. task.end : m_dequeConnections[k] = d
      BY <2>1, <2>5 DEF LoopInv
    <3>3. IsConnected(d)'
      BY <1>1, <3>1, <3>2 DEF IsConnected, TypeOK
    <3>4. QED
      BY <2>4, <3>2, <3>3
  <2>6. \A k \in 1 .. task.i - 1 : k \in 1 .. task.end
    BY <2>2
  <2>7. \A k \in 1 .. task.i - 1 :
          m_dequeConnections'[k] \in task.throughout => m_dequeConnections'[k] \in task.reached
    BY <2>1, <2>4, <2>6 DEF LoopInv
  <2>8. QED
    BY <1>2, <2>2, <2>3, <2>5, <2>7 DEF LoopInv
<1>15. NoNullClient' /\ BackDefined'
  BY <1>2 DEF NoNullClient, BackDefined
<1>16. OpenAreHeld'
  <2>1. \A d \in Held : d \in Held'
    <3>1. \A k \in DOMAIN m_dequeConnections :
            k \in DOMAIN m_dequeConnections' /\ m_dequeConnections'[k] = m_dequeConnections[k]
      BY <1>9, <1>10 DEF TypeOK
    <3>2. QED
      BY <3>1 DEF Held, ToSet
  <2>2. c \in Held'
    <3>1. /\ Len(m_dequeConnections') \in DOMAIN m_dequeConnections'
          /\ m_dequeConnections'[Len(m_dequeConnections')] = c /\ c # NoOne
      BY <1>3, <1>9, <1>10
    <3>2. QED
      BY <3>1 DEF Held, ToSet
  <2>3. \A d \in Conns \ {c} : sock'[d] = sock[d]
    BY <1>1 DEF TypeOK
  <2>4. QED
    BY <1>2, <2>1, <2>2, <2>3 DEF OpenAreHeld, IsConnected
<1>17. QED
  BY <1>11, <1>12, <1>13, <1>14, <1>15, <1>16 DEF IInv

LEMMA AcceptRacesInv == IInv /\ AcceptRaces => IInv'
<1> SUFFICES ASSUME IInv, AcceptRaces
             PROVE  IInv'
  OBVIOUS
<1> USE DEF IInv, InHandler, BackAt
<1>1. /\ status' = "undefined"
      /\ UNCHANGED <<m_dequeConnections, nIDCounter, sock, id, told, accepting, showing,
                     m_qMessagesIn, read, task, lost>>
  BY DEF AcceptRaces
<1>2. TypeOK'
  BY <1>1 DEF TypeOK
<1>3. IdInv' /\ DequeInv' /\ LoopInv'
  BY <1>1 DEF IdInv, DequeInv, LoopInv, Count, Accepted, IsConnected
<1>4. NoNullClient' /\ BackDefined' /\ OpenAreHeld'
  BY <1>1 DEF NoNullClient, BackDefined, OpenAreHeld, IsConnected, Held, ToSet
<1>5. QED
  BY <1>2, <1>3, <1>4 DEF IInv

(* What the accept handler finds at the back: the connection it has pushed *)
(* or, while an erase(remove(...)) is under way, a null pointer.           *)
LEMMA BackFacts ==
  ASSUME IInv, InHandler, Count \notin lost
  PROVE  /\ HasBack => Last(m_dequeConnections) = Count
         /\ ~ HasBack => task.pc = "erase"
<1> USE DEF IInv
<1>1. /\ BackAt >= 1 /\ m_dequeConnections[BackAt] = Count
      /\ Count # NoOne /\ Count \in Conns
  BY DEF DequeInv, IdInv, NoOne, Conns
<1>2. Len(m_dequeConnections) \in Nat /\ task.i \in Nat /\ task.end \in Nat
  BY RegistryAssumption DEF RegistryAssumption, TypeOK, Tasks
<1>3. CASE BackAt = Len(m_dequeConnections)
  <2>1. m_dequeConnections # <<>> /\ Last(m_dequeConnections) = Count
    BY <1>1, <1>2, <1>3 DEF Last
  <2>2. QED
    BY <1>1, <2>1 DEF HasBack
<1>4. CASE BackAt # Len(m_dequeConnections)
  <2>1. /\ task.pc = "erase" /\ Len(m_dequeConnections) = task.end
        /\ BackAt = task.i - 1
    BY <1>4 DEF BackAt
  <2>2. task.end \in task.i .. task.end
    BY <1>2, <1>4, <2>1 DEF DequeInv
  <2>3. Last(m_dequeConnections) = NoOne
    BY <2>1, <2>2 DEF DequeInv, Last
  <2>4. QED
    BY <2>1, <2>3 DEF HasBack
<1>5. QED
  BY <1>3, <1>4

LEMMA AcceptConnectInv == IInv /\ AcceptConnect => IInv'
<1> SUFFICES ASSUME IInv, AcceptConnect
             PROVE  IInv'
  OBVIOUS
<1> USE DEF IInv, NoOne, FirstId
<1>1. /\ accepting # NoOne /\ accepting' = NoOne /\ nIDCounter' = nIDCounter + 1
      /\ status = "running"
      /\ UNCHANGED <<m_dequeConnections, sock, told, m_qMessagesIn, read, task, lost>>
  BY DEF AcceptConnect, Running
<1>2. nIDCounter \in Nat /\ accepting \in Conns /\ accepting \in Nat
  BY <1>1, RegistryAssumption DEF RegistryAssumption, TypeOK, GivenIds, Conns
<1>3. /\ Count = nIDCounter - FirstId + 1 /\ Count' = Count
      /\ accepting = Count /\ ~ showing /\ InHandler
  BY <1>1, <1>2 DEF Count, IdInv, InHandler
<1>4. nIDCounter \in GivenIds /\ nIDCounter' \in GivenIds \cup {FirstId + MaxConnections}
  BY <1>1, <1>2, <1>3, RegistryAssumption DEF RegistryAssumption, GivenIds, Conns
<1>5. \/ /\ HasBack
         /\ id' \in {id, [id EXCEPT ![Last(m_dequeConnections)] = nIDCounter]}
         /\ showing' = TRUE /\ status' = "running"
      \/ ~ HasBack /\ id' = id /\ showing' = FALSE /\ status' = "bad_back"
  BY <1>1, <1>3 DEF AcceptConnect, GivenId, TypeOK
<1>6. /\ Count \notin lost /\ HasBack => Last(m_dequeConnections) = Count
      /\ Count \notin lost /\ ~ HasBack => task.pc = "erase"
  BY <1>3, BackFacts
<1>7. TypeOK'
  <2>1. id' \in [Conns -> GivenIds \cup {0}]
    <3>1. id \in [Conns -> GivenIds \cup {0}]
      BY DEF TypeOK
    <3> DEFINE S == GivenIds \cup {0}
    <3>2. nIDCounter \in S
      BY <1>4
    <3>3. \A b : [id EXCEPT ![b] = nIDCounter] \in [Conns -> S]
      <4> HIDE DEF S
      <4>1. QED
        BY ONLY <3>1, <3>2 DEF S
    <3>4. QED
      BY <1>5, <3>1, <3>3
  <2>2. status' \in {"running", "bad_back"} /\ showing' \in BOOLEAN
    BY <1>5
  <2>3. QED
    BY <1>1, <1>4, <2>1, <2>2 DEF TypeOK
<1>8. IdInv'
  <2>1. Accepted' = Accepted
    BY <1>1 DEF Accepted
  <2>2. ASSUME lost = {}, NEW d \in Conns
        PROVE  id'[d] \in {0, told[d]}
    <3>1. id[d] \in {0, told[d]}
      BY <2>2 DEF IdInv
    <3>2. told[Count] = nIDCounter
      BY <1>2, <1>3 DEF IdInv
    <3>3. HasBack => Last(m_dequeConnections) = Count
      BY <1>6, <2>2
    <3>4. QED
      BY <1>5, <3>1, <3>2, <3>3 DEF TypeOK
  <2>3. Count \in Conns /\ IsConnected(Count)
    BY <1>3 DEF IdInv
  <2>4. IsConnected(Count)' <=> IsConnected(Count)
    BY <1>1, <1>3 DEF IsConnected
  <2>5. QED
    BY <1>1, <1>3, <2>1, <2>2, <2>3, <2>4 DEF IdInv
<1>9. DequeInv' /\ LoopInv' /\ OpenAreHeld'
  BY <1>1, <1>3 DEF DequeInv, BackAt, LoopInv, OpenAreHeld, IsConnected, Held, ToSet
<1>10. NoNullClient' /\ BackDefined'
  BY <1>1, <1>5, <1>6 DEF NoNullClient, BackDefined
<1>11. QED
  BY <1>7, <1>8, <1>9, <1>10 DEF IInv

LEMMA AcceptShowInv == IInv /\ AcceptShow => IInv'
<1> SUFFICES ASSUME IInv, AcceptShow
             PROVE  IInv'
  OBVIOUS
<1> USE DEF IInv
<1>1. /\ showing /\ showing' = FALSE
      /\ status' = IF HasBack THEN "running" ELSE "bad_back"
      /\ UNCHANGED <<m_dequeConnections, nIDCounter, sock, id, told, accepting, m_qMessagesIn,
                     read, task, lost>>
  BY DEF AcceptShow
<1>2. ~ HasBack => task.pc = "erase" \/ lost # {}
  BY <1>1, BackFacts DEF InHandler
<1>3. TypeOK'
  BY <1>1 DEF TypeOK
<1>4. IdInv' /\ DequeInv' /\ LoopInv'
  BY <1>1 DEF IdInv, InHandler, DequeInv, BackAt, LoopInv, Count, Accepted, IsConnected
<1>5. NoNullClient' /\ BackDefined' /\ OpenAreHeld'
  BY <1>1, <1>2 DEF NoNullClient, BackDefined, OpenAreHeld, IsConnected, Held, ToSet
<1>6. QED
  BY <1>3, <1>4, <1>5 DEF IInv

LEMMA SocketClosesInv ==
  ASSUME IInv, NEW c \in Conns, SocketCloses(c)
  PROVE  IInv'
<1> USE DEF IInv, InHandler, BackAt, NoOne, FirstId
<1>1. /\ accepting = NoOne /\ ~ showing /\ IsConnected(c) /\ status = "running"
      /\ sock' = [sock EXCEPT ![c] = "closed"]
      /\ task' = [task EXCEPT !.throughout = @ \ {c}]
      /\ UNCHANGED <<m_dequeConnections, nIDCounter, id, told, accepting, showing, m_qMessagesIn,
                     read, lost, status>>
  BY DEF SocketCloses, AsioFree, Running
<1>2. /\ task'.pc = task.pc /\ task'.end = task.end /\ task'.i = task.i
      /\ task'.kind = task.kind
      /\ task'.InvalidClientExists = task.InvalidClientExists
      /\ task'.reached = task.reached /\ task'.throughout = task.throughout \ {c}
  BY <1>1 DEF TypeOK, Tasks
<1>3. \A d \in Conns : sock'[d] = IF d = c THEN "closed" ELSE sock[d]
  BY <1>1 DEF TypeOK
<1>4. TypeOK'
  <2>1. task \in Tasks /\ task.throughout \ {c} \in SUBSET Conns
    BY DEF TypeOK, Tasks
  <2>2. task' \in Tasks
    BY <1>1, <2>1 DEF Tasks
  <2>3. sock' \in [Conns -> {"none", "open", "closed"}]
    BY <1>1 DEF TypeOK
  <2>4. QED
    BY <1>1, <2>2, <2>3 DEF TypeOK
<1>5. IdInv'
  <2>1. Accepted' = Accepted
    BY <1>1, <1>3 DEF Accepted, IsConnected
  <2>2. QED
    BY <1>1, <2>1 DEF IdInv, Count
<1>6. DequeInv'
  BY <1>1, <1>2 DEF DequeInv, Count
<1>7. LoopInv'
  <2>1. \A d \in task'.throughout : d \in Conns /\ d # c
    BY <1>2 DEF TypeOK, Tasks
  <2>2. QED
    BY <1>1, <1>2, <1>3, <2>1 DEF LoopInv, IsConnected
<1>8. NoNullClient' /\ BackDefined' /\ OpenAreHeld'
  BY <1>1, <1>3 DEF NoNullClient, BackDefined, OpenAreHeld, IsConnected, Held, ToSet
<1>9. QED
  BY <1>4, <1>5, <1>6, <1>7, <1>8 DEF IInv

LEMMA ReceiveInv ==
  ASSUME IInv, NEW c \in Conns, NEW kind \in Kinds, Receive(c, kind)
  PROVE  IInv'
<1> USE DEF IInv, InHandler, BackAt
<1>1. /\ read' = read + 1 /\ read < MaxMessages
      /\ m_qMessagesIn' = Append(m_qMessagesIn, [remote |-> c, kind |-> kind])
      /\ UNCHANGED <<m_dequeConnections, nIDCounter, sock, id, told, accepting, showing, task,
                     lost, status>>
  BY DEF Receive
<1>2. TypeOK'
  <2>1. read' \in 0 .. MaxMessages
    BY <1>1, RegistryAssumption DEF RegistryAssumption, TypeOK
  <2>2. m_qMessagesIn' \in Seq(Items)
    BY <1>1 DEF TypeOK, Items
  <2>3. QED
    BY <1>1, <2>1, <2>2 DEF TypeOK
<1>3. IdInv' /\ DequeInv' /\ LoopInv'
  BY <1>1 DEF IdInv, DequeInv, LoopInv, Accepted, Count, IsConnected
<1>4. NoNullClient' /\ BackDefined' /\ OpenAreHeld'
  BY <1>1 DEF NoNullClient, BackDefined, OpenAreHeld, IsConnected, Held, ToSet
<1>5. QED
  BY <1>2, <1>3, <1>4 DEF IInv

-----------------------------------------------------------------------------
(* The main thread *)

LEMMA CountIn ==
  ASSUME IInv
  PROVE  Count \in 0 .. MaxConnections
<1> USE DEF IInv, InHandler
<1>1. nIDCounter \in Nat /\ nIDCounter >= FirstId /\ nIDCounter <= FirstId + MaxConnections
  BY RegistryAssumption DEF RegistryAssumption, TypeOK, GivenIds, FirstId
<1>2. accepting # NoOne => Count \in Nat /\ Count <= MaxConnections
  BY RegistryAssumption DEF RegistryAssumption, Conns, IdInv
<1>3. QED
  BY <1>1, <1>2, RegistryAssumption DEF RegistryAssumption, Count, FirstId

LEMMA LoopBeginInv == IInv /\ LoopBegin => IInv'
<1> SUFFICES ASSUME IInv, LoopBegin
             PROVE  IInv'
  OBVIOUS
<1> USE DEF IInv, InHandler, BackAt, NoOne, FirstId, NotMain
<1>1. /\ m_qMessagesIn # <<>> /\ task.pc = "idle"
      /\ m_qMessagesIn' = Tail(m_qMessagesIn)
      /\ task' = [Idle EXCEPT !.pc = "loop", !.kind = Head(m_qMessagesIn).kind,
                              !.client = Head(m_qMessagesIn).remote,
                              !.end = Len(m_dequeConnections),
                              !.throughout = {c \in Held : IsConnected(c)}]
      /\ UNCHANGED <<m_dequeConnections, nIDCounter, sock, id, told, accepting, showing, read, lost,
                     status>>
  BY DEF LoopBegin, EndOfDeque
<1>2. Head(m_qMessagesIn) \in Items /\ Tail(m_qMessagesIn) \in Seq(Items)
  <2>1. m_qMessagesIn \in Seq(Items)
    BY DEF TypeOK
  <2>2. QED
    BY <1>1, <2>1
<1>3. Len(m_dequeConnections) \in Nat /\ Held \subseteq Conns
  BY DEF TypeOK, Held, ToSet
<1>4. Count \in 0 .. MaxConnections
  BY CountIn
<1>5. Len(m_dequeConnections) \in 0 .. MaxConnections
  BY <1>3, <1>4, RegistryAssumption DEF RegistryAssumption, DequeInv
<1>6. /\ task'.pc = "loop" /\ task'.i = 1 /\ task'.end = Len(m_dequeConnections)
      /\ task'.InvalidClientExists = FALSE
      /\ task'.throughout = {c \in Held : IsConnected(c)} /\ task'.reached = {}
  BY <1>1 DEF Idle
<1>7. TypeOK'
  <2>1. /\ Head(m_qMessagesIn).kind \in Kinds /\ Head(m_qMessagesIn).remote \in Conns
        /\ {c \in Held : IsConnected(c)} \in SUBSET Conns
    BY <1>2, <1>3 DEF Items
  <2>2. 1 \in 1 .. MaxConnections + 1
    BY RegistryAssumption DEF RegistryAssumption
  <2>3. task' \in Tasks
    BY <1>1, <1>5, <2>1, <2>2 DEF Idle, Tasks
  <2>4. QED
    BY <1>1, <1>2, <2>3 DEF TypeOK
<1>8. IdInv' /\ Count' = Count
  BY <1>1 DEF IdInv, Count, Accepted, IsConnected
<1>9. DequeInv'
  BY <1>1, <1>6, <1>8 DEF DequeInv
<1>10. LoopInv'
  <2>1. \A c \in Held : \E k \in 1 .. Len(m_dequeConnections) : m_dequeConnections[k] = c
    BY DEF Held, ToSet, TypeOK
  <2>2. QED
    BY <1>1, <1>3, <1>6, <2>1 DEF LoopInv, IsConnected
<1>11. NoNullClient' /\ BackDefined' /\ OpenAreHeld'
  BY <1>1 DEF NoNullClient, BackDefined, OpenAreHeld, IsConnected, Held, ToSet
<1>12. QED
  BY <1>7, <1>8, <1>9, <1>10, <1>11 DEF IInv

(* What a loop finds at its position.                                      *)
LEMMA VisitFacts ==
  ASSUME IInv, NEW kinds, Visiting(kinds)
  PROVE  /\ task.pc = "loop" /\ task.i \in 1 .. Len(m_dequeConnections)
         /\ task.i <= task.end /\ task.end \in 0 .. MaxConnections
         /\ task.i + 1 \in 1 .. MaxConnections + 1
         /\ Entry \in Conns /\ Entry # NoOne
         /\ UNCHANGED <<m_qMessagesIn, nIDCounter, sock, id, told, accepting, showing, read, lost>>
<1> USE DEF IInv, InHandler, BackAt, NoOne
<1>1. /\ task.pc = "loop" /\ task.i <= task.end
      /\ UNCHANGED <<m_qMessagesIn, nIDCounter, sock, id, told, accepting, showing, read, lost>>
  BY DEF Visiting, NotMain
<1>2. task.i \in 1 .. MaxConnections + 1 /\ task.end \in 0 .. MaxConnections
  BY DEF TypeOK, Tasks
<1>3. task.end <= Len(m_dequeConnections) /\ Len(m_dequeConnections) \in Nat
  BY <1>1 DEF LoopInv, TypeOK
<1>4. task.i \in 1 .. Len(m_dequeConnections) /\ task.i + 1 \in 1 .. MaxConnections + 1
  BY <1>1, <1>2, <1>3, RegistryAssumption DEF RegistryAssumption
<1>5. Entry # NoOne
  <2>1. ~ (task.i < task.i)
    BY <1>2
  <2>2. QED
    BY <1>1, <1>4, <2>1 DEF DequeInv, Entry
<1>6. Entry \in Conns
  BY <1>4, <1>5 DEF TypeOK, Entry
<1>7. QED
  BY <1>1, <1>2, <1>4, <1>5, <1>6

(* The loop goes on behind an entry it has reached.                        *)
LEMMA ReachInv ==
  ASSUME IInv, NEW kinds, Visiting(kinds), UNCHANGED <<m_dequeConnections, status>>,
         task' = [task EXCEPT !.i = @ + 1, !.reached = @ \cup {Entry}]
  PROVE  IInv'
<1> USE DEF IInv, InHandler, BackAt
<1>1. /\ task.pc = "loop" /\ task.i \in 1 .. Len(m_dequeConnections)
      /\ task.i <= task.end /\ task.end \in 0 .. MaxConnections
      /\ task.i + 1 \in 1 .. MaxConnections + 1
      /\ Entry \in Conns /\ Entry # NoOne
      /\ UNCHANGED <<m_qMessagesIn, nIDCounter, sock, id, told, accepting, showing, read, lost>>
  BY VisitFacts
<1>2. task \in Tasks
  BY DEF TypeOK
<1>3. /\ task'.pc = "loop" /\ task'.i = task.i + 1 /\ task'.end = task.end
      /\ task'.InvalidClientExists = task.InvalidClientExists /\ task'.kind = task.kind
      /\ task'.throughout = task.throughout /\ task'.reached = task.reached \cup {Entry}
  BY <1>1, <1>2 DEF Tasks
<1>4. TypeOK'
  <2>1. task.reached \cup {Entry} \in SUBSET Conns
    BY <1>1, <1>2 DEF Tasks
  <2>2. task' \in Tasks
    BY <1>1, <1>2, <2>1 DEF Tasks
  <2>3. QED
    BY <1>1, <2>2 DEF TypeOK
<1>5. IdInv' /\ Count' = Count
  BY <1>1 DEF IdInv, Count, Accepted, IsConnected
<1>6. DequeInv'
  <2>1. \A k \in 1 .. Len(m_dequeConnections) : k < task.i => k < task.i + 1
    BY <1>1
  <2>2. QED
    BY <1>1, <1>3, <1>5, <2>1 DEF DequeInv
<1>7. LoopInv'
  <2>1. \A k \in 1 .. (task.i + 1) - 1 : k = task.i \/ k \in 1 .. task.i - 1
    BY <1>1
  <2>2. m_dequeConnections[task.i] = Entry
    BY DEF Entry
  <2>3. \A k \in 1 .. (task.i + 1) - 1 :
          m_dequeConnections[k] \in task.throughout =>
            m_dequeConnections[k] \in task.reached \cup {Entry}
    BY <1>1, <2>1, <2>2 DEF LoopInv
  <2>4. task.i + 1 <= task.end + 1
    BY <1>1
  <2>5. QED
    BY <1>1, <1>3, <2>3, <2>4 DEF LoopInv, IsConnected
<1>8. NoNullClient' /\ BackDefined' /\ OpenAreHeld'
  BY <1>1 DEF NoNullClient, BackDefined, OpenAreHeld, IsConnected, Held, ToSet
<1>9. QED
  BY <1>4, <1>5, <1>6, <1>7, <1>8 DEF IInv

(* A sweep takes out an entry whose socket is closed.                      *)
LEMMA TakeOutInv ==
  ASSUME IInv, Visiting({"MessageAll", "ClientList"}), ~ IsConnected(Entry), UNCHANGED status,
         task' = [task EXCEPT !.i = @ + 1, !.InvalidClientExists = TRUE],
         m_dequeConnections' = [m_dequeConnections EXCEPT ![task.i] = NoOne]
  PROVE  IInv'
<1> USE DEF IInv, InHandler, BackAt
<1>1. /\ task.pc = "loop" /\ task.i \in 1 .. Len(m_dequeConnections)
      /\ task.i <= task.end /\ task.end \in 0 .. MaxConnections
      /\ task.i + 1 \in 1 .. MaxConnections + 1
      /\ Entry \in Conns /\ Entry # NoOne
      /\ UNCHANGED <<m_qMessagesIn, nIDCounter, sock, id, told, accepting, showing, read, lost>>
  BY VisitFacts
<1>2. task \in Tasks /\ m_dequeConnections \in Seq(Entries)
  BY DEF TypeOK, Entries
<1>3. /\ task'.pc = "loop" /\ task'.i = task.i + 1 /\ task'.end = task.end
      /\ task'.InvalidClientExists = TRUE /\ task'.kind # "RequestToClient"
      /\ task'.throughout = task.throughout /\ task'.reached = task.reached
  BY <1>1, <1>2 DEF Tasks, Visiting
<1>4. /\ m_dequeConnections' \in Seq(Entries)
      /\ Len(m_dequeConnections') = Len(m_dequeConnections)
      /\ DOMAIN m_dequeConnections' = DOMAIN m_dequeConnections
      /\ DOMAIN m_dequeConnections = 1 .. Len(m_dequeConnections)
      /\ \A k \in 1 .. Len(m_dequeConnections) :
           m_dequeConnections'[k] = IF k = task.i THEN NoOne ELSE m_dequeConnections[k]
  <2>1. NoOne \in Entries
    BY DEF Entries
  <2>2. QED
    BY <1>1, <1>2, <2>1
<1>5. \A c \in Conns : IsConnected(c) => c # Entry
  OBVIOUS
<1>6. TypeOK'
  <2>1. task' \in Tasks
    BY <1>1, <1>2 DEF Tasks
  <2>2. QED
    BY <1>1, <1>4, <2>1 DEF TypeOK, Entries
<1>7. IdInv' /\ Count' = Count
  BY <1>1 DEF IdInv, Count, Accepted, IsConnected
<1>8. DequeInv'
  <2>1. Len(m_dequeConnections') <= Count'
    BY <1>4, <1>7 DEF DequeInv
  <2>2. ASSUME InHandler, Count \notin lost
        PROVE  /\ Len(m_dequeConnections') >= 1
               /\ m_dequeConnections'[Len(m_dequeConnections')] = Count
    <3>1. Len(m_dequeConnections) >= 1 /\ m_dequeConnections[Len(m_dequeConnections)] = Count
      BY <1>1, <2>2 DEF DequeInv
    <3>2. Count # Entry
      BY <2>2 DEF IdInv
    <3>3. Len(m_dequeConnections) \in 1 .. Len(m_dequeConnections)
      BY <1>1
    <3>4. Len(m_dequeConnections) # task.i
      BY <3>1, <3>2 DEF Entry
    <3>5. QED
      BY <1>4, <3>1, <3>3, <3>4
  <2>3. ASSUME NEW k \in 1 .. Len(m_dequeConnections'), m_dequeConnections'[k] = NoOne
        PROVE  k < task.i + 1
    <3>1. CASE k = task.i
      BY <1>1, <3>1
    <3>2. CASE k # task.i
      <4>1. m_dequeConnections[k] = NoOne /\ k \in 1 .. Len(m_dequeConnections)
        BY <1>4, <2>3, <3>2
      <4>2. k < task.i
        BY <1>1, <4>1 DEF DequeInv
      <4>3. QED
        BY <1>1, <4>1, <4>2
    <3>3. QED
      BY <3>1, <3>2
  <2>4. QED
    <3>1. InHandler' = InHandler /\ BackAt' = Len(m_dequeConnections') /\ lost' = lost
      BY <1>1, <1>3 DEF InHandler, BackAt
    <3>2. InHandler' /\ Count' \notin lost' =>
            BackAt' >= 1 /\ m_dequeConnections'[BackAt'] = Count'
      BY <1>7, <2>2, <3>1
    <3>3. QED
      BY <1>1, <1>3, <2>1, <2>3, <3>2 DEF DequeInv
<1>9. LoopInv'
  <2>1. \A k \in 1 .. (task.i + 1) - 1 : k = task.i \/ k \in 1 .. task.i - 1
    BY <1>1
  <2>2. task.throughout \subseteq Conns
    BY <1>2 DEF Tasks
  <2>3. ASSUME NEW k \in 1 .. (task.i + 1) - 1, m_dequeConnections'[k] \in task.throughout
        PROVE  m_dequeConnections'[k] \in task.reached
    <3>1. k \in 1 .. Len(m_dequeConnections)
      BY <1>1
    <3>2. k # task.i
      BY <1>4, <2>2, <2>3, <3>1 DEF Conns, NoOne
    <3>3. QED
      BY <1>1, <1>4, <2>1, <2>3, <3>1, <3>2 DEF LoopInv
  <2>4. ASSUME NEW c \in task.throughout
        PROVE  IsConnected(c)' /\ \E k \in 1 .. task.end : m_dequeConnections'[k] = c
    <3>1. IsConnected(c) /\ c # Entry
      BY <1>1, <2>4 DEF LoopInv
    <3>2. PICK k \in 1 .. task.end : m_dequeConnections[k] = c
      BY <1>1, <2>4 DEF LoopInv
    <3>3. k # task.i
      BY <3>1, <3>2 DEF Entry
    <3>4. k \in 1 .. Len(m_dequeConnections)
      BY <1>1, <1>2 DEF LoopInv
    <3>5. m_dequeConnections'[k] = c
      BY <1>4, <3>2, <3>3, <3>4
    <3>6. QED
      BY <1>1, <3>1, <3>5 DEF IsConnected
  <2>5. task.i + 1 <= task.end + 1
    BY <1>1
  <2>6. QED
    BY <1>1, <1>3, <1>4, <2>3, <2>4, <2>5 DEF LoopInv
<1>10. OpenAreHeld'
  <2>1. \A c \in Held : c # Entry => c \in Held'
    BY <1>4 DEF Held, ToSet, Entry
  <2>2. QED
    BY <1>1, <1>5, <2>1 DEF OpenAreHeld, IsConnected
<1>11. NoNullClient' /\ BackDefined'
  BY <1>1 DEF NoNullClient, BackDefined
<1>12. QED
  BY <1>6, <1>7, <1>8, <1>9, <1>10, <1>11 DEF IInv

(* The loop is over, and nothing is to be erased.                          *)
LEMMA IdleInv ==
  ASSUME IInv, task.pc = "loop", ~ task.InvalidClientExists, task' = Idle,
         UNCHANGED <<m_dequeConnections, m_qMessagesIn, lost, status, NotMain>>
  PROVE  IInv'
<1> USE DEF IInv, InHandler, BackAt, NotMain
<1>1. TypeOK'
  <2>1. Idle \in Tasks
    BY RegistryAssumption DEF RegistryAssumption, Idle, Tasks, Kinds
  <2>2. QED
    BY <2>1 DEF TypeOK
<1>2. IdInv' /\ DequeInv' /\ LoopInv'
  BY DEF IdInv, DequeInv, LoopInv, Count, Accepted, IsConnected, Idle
<1>3. NoNullClient' /\ BackDefined' /\ OpenAreHeld'
  BY DEF NoNullClient, BackDefined, OpenAreHeld, IsConnected, Held, ToSet
<1>4. QED
  BY <1>1, <1>2, <1>3 DEF IInv

LEMMA SweepEntryInv == IInv /\ SweepEntry => IInv'
<1> SUFFICES ASSUME IInv, SweepEntry
             PROVE  IInv'
  OBVIOUS
<1> DEFINE kinds == {"MessageAll", "ClientList"}
<1>1. Visiting(kinds)
  BY DEF SweepEntry
<1>2. Entry # NoOne
  BY <1>1, VisitFacts
<1>3. CASE IsConnected(Entry)
  BY <1>1, <1>2, <1>3, ReachInv DEF SweepEntry
<1>4. CASE ~ IsConnected(Entry)
  BY <1>1, <1>2, <1>4, TakeOutInv DEF SweepEntry
<1>5. QED
  BY <1>3, <1>4

LEMMA FindEntryInv == IInv /\ FindEntry => IInv'
<1> SUFFICES ASSUME IInv, FindEntry
             PROVE  IInv'
  OBVIOUS
<1> DEFINE kinds == {"RequestToClient"}
<1>1. Visiting(kinds)
  BY DEF FindEntry
<1>2. Entry # NoOne /\ task.pc = "loop"
  BY <1>1, VisitFacts
<1>3. /\ UNCHANGED <<m_dequeConnections, status>>
      /\ \/ task' = Idle
         \/ task' = [task EXCEPT !.i = @ + 1, !.reached = @ \cup {Entry}]
  BY <1>2 DEF FindEntry
<1>4. CASE task' = Idle
  <2>1. ~ task.InvalidClientExists
    BY <1>1, <1>2 DEF IInv, LoopInv, Visiting
  <2>2. UNCHANGED <<m_qMessagesIn, lost, NotMain>>
    BY <1>1 DEF Visiting
  <2>3. QED
    BY <1>2, <1>3, <1>4, <2>1, <2>2, IdleInv
<1>5. CASE task' = [task EXCEPT !.i = @ + 1, !.reached = @ \cup {Entry}]
  BY <1>1, <1>3, <1>5, ReachInv
<1>6. QED
  BY <1>3, <1>4, <1>5

LEMMA LoopEndInv == IInv /\ LoopEnd => IInv'
<1> SUFFICES ASSUME IInv, LoopEnd
             PROVE  IInv'
  OBVIOUS
<1>1. /\ task.pc = "loop"
      /\ task' = IF task.InvalidClientExists THEN [task EXCEPT !.pc = "remove"] ELSE Idle
      /\ UNCHANGED <<m_dequeConnections, m_qMessagesIn, lost, status, NotMain>>
  BY DEF LoopEnd, MustErase
<1>2. CASE ~ task.InvalidClientExists
  BY <1>1, <1>2, IdleInv
<1>3. CASE task.InvalidClientExists
  <2> USE DEF IInv, InHandler, BackAt, NotMain
  <2>1. task' \in Tasks /\ task'.pc = "remove"
    BY <1>1, <1>3 DEF TypeOK, Tasks
  <2>2. TypeOK'
    BY <1>1, <2>1 DEF TypeOK
  <2>3. IdInv' /\ DequeInv' /\ LoopInv'
    BY <1>1, <2>1 DEF IdInv, DequeInv, LoopInv, Count, Accepted, IsConnected
  <2>4. NoNullClient' /\ BackDefined' /\ OpenAreHeld'
    BY <1>1 DEF NoNullClient, BackDefined, OpenAreHeld, IsConnected, Held, ToSet
  <2>5. QED
    BY <2>2, <2>3, <2>4 DEF IInv
<1>4. QED
  BY <1>2, <1>3

LEMMA RemoveNullsInv == IInv /\ RemoveNulls => IInv'
<1> SUFFICES ASSUME IInv, RemoveNulls
             PROVE  IInv'
  OBVIOUS
<1> USE DEF IInv, NotMain
<1> DEFINE kept == KeepNonNull(m_dequeConnections)
           len == Len(m_dequeConnections)
<1>1. /\ task.pc = "remove"
      /\ m_dequeConnections' = [k \in 1 .. len |-> IF k <= Len(kept) THEN kept[k] ELSE NoOne]
      /\ task' = [task EXCEPT !.pc = "erase", !.i = Len(kept) + 1, !.end = len]
      /\ UNCHANGED <<m_qMessagesIn, lost, status, NotMain>>
  BY DEF RemoveNulls
<1>2. m_dequeConnections \in Seq(Entries) /\ len \in Nat
  BY DEF TypeOK, Entries
<1>3. /\ kept \in Seq(Conns) /\ Len(kept) <= len
      /\ \A k \in 1 .. len : m_dequeConnections[k] # NoOne =>
           \E j \in 1 .. Len(kept) : kept[j] = m_dequeConnections[k]
      /\ m_dequeConnections # <<>> /\ Last(m_dequeConnections) # NoOne =>
           kept # <<>> /\ Last(kept) = Last(m_dequeConnections)
  BY <1>2, KeepNonNullFacts
<1> HIDE DEF kept
<1>4. /\ Len(kept) \in Nat
      /\ \A k \in 1 .. Len(kept) : kept[k] \in Conns /\ kept[k] # NoOne
  <2>1. Len(kept) \in Nat /\ \A k \in 1 .. Len(kept) : kept[k] \in Conns
    BY <1>3
  <2>2. \A c \in Conns : c # NoOne
    BY RegistryAssumption DEF RegistryAssumption, Conns, NoOne
  <2>3. QED
    BY <2>1, <2>2
<1>5. /\ m_dequeConnections' \in Seq(Entries) /\ Len(m_dequeConnections') = len
      /\ \A k \in 1 .. len :
           m_dequeConnections'[k] = IF k <= Len(kept) THEN kept[k] ELSE NoOne
  <2> DEFINE e(k) == IF k <= Len(kept) THEN kept[k] ELSE NoOne
  <2>1. \A k \in 1 .. len : e(k) \in Entries
    BY <1>2, <1>4 DEF Entries
  <2> HIDE DEF e
  <2>2. [k \in 1 .. len |-> e(k)] \in Seq(Entries)
    BY <1>2, <2>1
  <2>3. m_dequeConnections' = [k \in 1 .. len |-> e(k)]
    BY <1>1 DEF e
  <2>4. Len(m_dequeConnections') = len
    BY <1>2, <2>3
  <2>5. \A k \in 1 .. len : m_dequeConnections'[k] = e(k)
    BY <2>3
  <2>6. QED
    BY <2>2, <2>3, <2>4, <2>5 DEF e
<1>6. IdInv' /\ Count' = Count
  BY <1>1 DEF IdInv, InHandler, Count, Accepted, IsConnected
<1>7. len <= Count /\ Count \in 0 .. MaxConnections
  BY CountIn DEF DequeInv
<1>8. /\ task'.pc = "erase" /\ task'.i = Len(kept) + 1 /\ task'.end = len
      /\ task' \in Tasks
  <2>1. Len(kept) + 1 \in 1 .. MaxConnections + 1 /\ len \in 0 .. MaxConnections
    BY <1>2, <1>3, <1>4, <1>7, RegistryAssumption DEF RegistryAssumption
  <2>2. task \in Tasks
    BY DEF TypeOK
  <2> HIDE DEF len
  <2>3. QED
    BY <1>1, <2>1, <2>2 DEF Tasks
<1>9. TypeOK'
  BY <1>1, <1>5, <1>8 DEF TypeOK, Entries
<1>10. DequeInv'
  <2>1. ASSUME InHandler, Count \notin lost
        PROVE  Len(kept) >= 1 /\ kept[Len(kept)] = Count
    <3>1. len >= 1 /\ m_dequeConnections[len] = Count /\ Count # NoOne
      BY <1>1, <2>1 DEF DequeInv, BackAt, IdInv, Conns, NoOne
    <3>2. m_dequeConnections # <<>> /\ Last(m_dequeConnections) = Count
      BY <3>1 DEF Last
    <3>3. kept # <<>> /\ kept[Len(kept)] = Count
      BY <1>3, <3>1, <3>2 DEF Last
    <3>4. QED
      BY <1>3, <3>3
  <2>2. InHandler' = InHandler /\ BackAt' = Len(kept)
    BY <1>1, <1>4, <1>5, <1>8 DEF InHandler, BackAt
  <2>3. InHandler' /\ Count' \notin lost' => BackAt' >= 1 /\ m_dequeConnections'[BackAt'] = Count'
    BY <1>1, <1>3, <1>4, <1>5, <1>6, <2>1, <2>2
  <2>4. ASSUME NEW k \in 1 .. len, m_dequeConnections'[k] = NoOne
        PROVE  Len(kept) + 1 <= k
    BY <1>4, <1>5, <2>4
  <2>5. \A k \in Len(kept) + 1 .. len : m_dequeConnections'[k] = NoOne
    BY <1>4, <1>5
  <2>6. Len(kept) + 1 <= len + 1
    BY <1>2, <1>3, <1>4
  <2>7. QED
    BY <1>2, <1>5, <1>6, <1>7, <1>8, <2>3, <2>4, <2>5, <2>6 DEF DequeInv
<1>11. LoopInv' /\ NoNullClient' /\ BackDefined'
  BY <1>1, <1>8 DEF LoopInv, NoNullClient, BackDefined
<1>12. OpenAreHeld'
  <2>1. \A k \in 1 .. len : m_dequeConnections[k] # NoOne =>
          \E j \in 1 .. len : m_dequeConnections'[j] = m_dequeConnections[k]
    BY <1>2, <1>3, <1>4, <1>5
  <2>2. \A c \in Held : c \in Held'
    BY <1>2, <1>5, <2>1 DEF Held, ToSet
  <2>3. QED
    BY <1>1, <2>2 DEF OpenAreHeld, IsConnected
<1>13. QED
  BY <1>6, <1>9, <1>10, <1>11, <1>12 DEF IInv

LEMMA EraseInv == IInv /\ Erase => IInv'
<1> SUFFICES ASSUME IInv, Erase
             PROVE  IInv'
  OBVIOUS
<1> USE DEF IInv, NotMain
<1> DEFINE d == m_dequeConnections
           n == Len(d)
           i == task.i
<1>1. PICK last \in task.end .. n :
        /\ d' = SubSeq(d, 1, i - 1) \o SubSeq(d, last + 1, n)
        /\ lost' = lost \cup {d[k] : k \in task.end + 1 .. last}
  BY DEF Erase
<1>2. /\ task.pc = "erase" /\ task' = Idle
      /\ UNCHANGED <<m_qMessagesIn, status, NotMain>>
  BY DEF Erase
<1>3. d \in Seq(Entries)
  BY DEF TypeOK, Entries
<1>4. /\ n \in Nat /\ i \in Nat /\ i >= 1 /\ task.end \in Nat /\ last \in Nat
      /\ i <= task.end + 1 /\ task.end <= last /\ last <= n
  <2>1. task.i \in 1 .. MaxConnections + 1 /\ task.end \in 0 .. MaxConnections
    BY DEF TypeOK, Tasks
  <2>2. n \in Nat
    BY <1>3
  <2>3. i <= task.end + 1 /\ task.end <= n
    BY <1>2 DEF DequeInv
  <2>4. QED
    BY <2>1, <2>2, <2>3, RegistryAssumption DEF RegistryAssumption
<1>5. /\ \A k \in 1 .. n : d[k] = NoOne => i <= k /\ k <= task.end
      /\ \A k \in i .. task.end : d[k] = NoOne
  BY <1>2 DEF DequeInv
<1>6. \A k \in 1 .. n : d[k] # NoOne => d[k] \in Conns
  BY <1>3 DEF Entries
<1> DEFINE m == (i - 1) + (n - last)
<1>7. /\ d' \in Seq(Entries) /\ Len(d') = m /\ m \in Nat /\ m <= n
      /\ \A k \in 1 .. m : d'[k] = IF k < i THEN d[k] ELSE d[k - (i - 1) + last]
  <2> HIDE DEF d, n, i, m
  <2> DEFINE a == SubSeq(d, 1, i - 1)
             b == SubSeq(d, last + 1, n)
  <2>1. /\ a \in Seq(Entries) /\ Len(a) = i - 1
        /\ \A k \in 1 .. i - 1 : a[k] = d[k]
    BY <1>3, <1>4 DEF n
  <2>2. /\ b \in Seq(Entries) /\ Len(b) = n - last
        /\ \A k \in 1 .. n - last : b[k] = d[k + last]
    BY <1>3, <1>4 DEF n
  <2>3. d' = a \o b
    BY <1>1 DEF d, n, i
  <2> HIDE DEF a, b
  <2>4. a \o b \in Seq(Entries) /\ Len(a \o b) = m
    BY <1>4, <2>1, <2>2 DEF m
  <2>5. \A k \in 1 .. m : (a \o b)[k] = IF k <= Len(a) THEN a[k] ELSE b[k - Len(a)]
    BY <1>4, <2>1, <2>2 DEF m
  <2>6. ASSUME NEW k \in 1 .. m
        PROVE  (a \o b)[k] = IF k < i THEN d[k] ELSE d[k - (i - 1) + last]
    <3>1. CASE k < i
      BY <1>4, <2>1, <2>5, <2>6, <3>1
    <3>2. CASE ~ (k < i)
      <4>1. k - (i - 1) \in 1 .. n - last
        BY <1>4, <2>6, <3>2 DEF m
      <4>2. (a \o b)[k] = b[k - (i - 1)]
        <5>1. Len(a) = i - 1
          BY <2>1
        <5>2. ~ (k <= Len(a)) /\ k - Len(a) = k - (i - 1)
          BY <1>4, <3>2, <5>1
        <5>3. (a \o b)[k] = b[k - Len(a)]
          BY <2>5, <2>6, <5>2
        <5>4. QED
          BY <5>2, <5>3
      <4>3. QED
        BY <2>2, <3>2, <4>1, <4>2
    <3>3. QED
      BY <3>1, <3>2
  <2>7. m \in Nat /\ m <= n
    BY <1>4 DEF m
  <2>8. QED
    BY <2>3, <2>4, <2>6, <2>7
<1>8. \A k \in 1 .. m : \E j \in 1 .. n : d'[k] = d[j] /\ d[j] # NoOne
  <2> SUFFICES ASSUME NEW k \in 1 .. m
               PROVE  \E j \in 1 .. n : d'[k] = d[j] /\ d[j] # NoOne
    OBVIOUS
  <2> DEFINE j == IF k < i THEN k ELSE k - (i - 1) + last
  <2>1. j \in 1 .. n /\ d'[k] = d[j] /\ ~ (i <= j /\ j <= task.end)
    <3> HIDE DEF d, n, i
    <3>1. QED
      BY <1>4, <1>7 DEF m
  <2>2. QED
    BY <1>5, <2>1
<1>9. \A j \in 1 .. n : d[j] # NoOne =>
        (\E k \in 1 .. m : d'[k] = d[j]) \/ d[j] \in lost'
  <2> SUFFICES ASSUME NEW j \in 1 .. n, d[j] # NoOne
               PROVE  (\E k \in 1 .. m : d'[k] = d[j]) \/ d[j] \in lost'
    OBVIOUS
  <2> HIDE DEF d, n, i
  <2>1. CASE j < i
    BY <1>4, <1>7, <2>1 DEF m
  <2>2. CASE j > last
    <3>1. j - last + (i - 1) \in 1 .. m /\ ~ (j - last + (i - 1) < i)
      BY <1>4, <2>2 DEF m
    <3>2. (j - last + (i - 1)) - (i - 1) + last = j
      BY <1>4
    <3>3. QED
      BY <1>7, <3>1, <3>2
  <2>3. CASE ~ (j < i) /\ ~ (j > last)
    <3>1. j \in task.end + 1 .. last
      BY <1>4, <1>5, <2>3
    <3>2. QED
      BY <1>1, <3>1
  <2>4. QED
    BY <2>1, <2>2, <2>3
<1>10. IdInv' /\ Count' = Count /\ InHandler' = InHandler
  <2>1. lost' = {} => lost = {}
    BY <1>1
  <2>2. QED
    BY <1>2, <2>1 DEF IdInv, InHandler, Count, Accepted, IsConnected
<1>11. Count \in Int /\ n <= Count
  BY CountIn DEF DequeInv
<1>12. TypeOK'
  <2>1. Idle \in Tasks
    BY RegistryAssumption DEF RegistryAssumption, Idle, Tasks, Kinds
  <2>2. m_dequeConnections' \in Seq(Conns \cup {NoOne})
    BY <1>7 DEF Entries
  <2>3. \A k \in task.end + 1 .. last : d[k] \in Conns
    <3> HIDE DEF d, n, i
    <3>1. \A k \in task.end + 1 .. last : k \in 1 .. n /\ ~ (k <= task.end)
      BY <1>4
    <3>2. QED
      BY <1>5, <1>6, <3>1
  <2>4. lost' \in SUBSET Conns
    BY <1>1, <2>3 DEF TypeOK
  <2>5. QED
    BY <1>2, <2>1, <2>2, <2>4 DEF TypeOK
<1>13. InHandler /\ Count \notin lost' => m >= 1 /\ d'[m] = Count
  <2> SUFFICES ASSUME InHandler, Count \notin lost'
               PROVE  m >= 1 /\ d'[m] = Count
    OBVIOUS
  <2>1. Count \notin lost /\ Count # NoOne
    BY <1>1 DEF IdInv, Conns, NoOne
  <2>2. BackAt >= 1 /\ d[BackAt] = Count
    BY <2>1 DEF DequeInv
  <2>3. BackAt = IF n = task.end THEN i - 1 ELSE n
    BY <1>2 DEF BackAt
  <2> HIDE DEF d, n, i
  <2>4. CASE n = task.end
    <3>1. last = n /\ m = i - 1 /\ m >= 1 /\ m < i
      BY <1>4, <2>2, <2>3, <2>4 DEF m
    <3>2. m \in 1 .. m
      BY <1>7, <3>1
    <3>3. QED
      BY <1>7, <2>2, <2>3, <2>4, <3>1, <3>2
  <2>5. CASE n # task.end
    <3>1. d[n] = Count /\ n > task.end
      BY <1>4, <2>2, <2>3, <2>5
    <3>2. last # n
      <4>1. last = n => n \in task.end + 1 .. last
        BY <1>4, <3>1
      <4>2. QED
        BY <1>1, <3>1, <4>1
    <3>3. m >= 1 /\ m \in 1 .. m /\ ~ (m < i) /\ m - (i - 1) + last = n
      BY <1>4, <1>7, <3>2 DEF m
    <3>4. QED
      BY <1>7, <3>1, <3>3
  <2>6. QED
    BY <2>4, <2>5
<1>14. DequeInv'
  <2>1. \A k \in 1 .. Len(d') : d'[k] # NoOne
    BY <1>7, <1>8
  <2>2. BackAt' = m /\ task'.pc = "idle"
    BY <1>2, <1>7 DEF BackAt, Idle
  <2>3. Len(d') <= Count'
    BY <1>4, <1>7, <1>10, <1>11
  <2> HIDE DEF m
  <2>4. QED
    BY <1>10, <1>13, <2>1, <2>2, <2>3 DEF DequeInv
<1>15. LoopInv' /\ NoNullClient' /\ BackDefined'
  <2>1. status # "bad_back"
    BY DEF Erase, Running
  <2>2. QED
    BY <1>2, <2>1 DEF LoopInv, NoNullClient, BackDefined, Idle
<1>16. OpenAreHeld'
  <2>1. \A c \in Held : c \in Held' \cup lost'
    BY <1>3, <1>7, <1>9 DEF Held, ToSet
  <2>2. lost \subseteq lost'
    BY <1>1
  <2>3. QED
    BY <1>2, <2>1, <2>2 DEF OpenAreHeld, IsConnected
<1>17. QED
  BY <1>10, <1>12, <1>14, <1>15, <1>16 DEF IInv

LEMMA NextInv == IInv /\ [Next]_vars => IInv'
<1> SUFFICES ASSUME IInv, [Next]_vars
             PROVE  IInv'
  OBVIOUS
<1>1. CASE AsioStep
  BY <1>1, AcceptPushInv, AcceptRacesInv, AcceptConnectInv, AcceptShowInv, SocketClosesInv,
      ReceiveInv
      DEF AsioStep
<1>2. CASE MainStep
  BY <1>2, LoopBeginInv, SweepEntryInv, FindEntryInv, LoopEndInv, RemoveNullsInv, EraseInv
      DEF MainStep
<1>3. CASE UNCHANGED vars
  BY <1>3 DEF vars, IInv, TypeOK, IdInv, DequeInv, LoopInv, NoNullClient, OpenAreHeld,
              BackDefined, InHandler, BackAt, Count, Accepted, IsConnected, Held
<1>4. QED
  BY <1>1, <1>2, <1>3 DEF Next

-----------------------------------------------------------------------------
(* The theorems *)

(* The inductive invariant.  A handler's loop over m_dequeConnections can  *)
(* meet no null pointer, because the only ones are those that this loop    *)
(* has put behind its position; and back() is the connection just pushed   *)
(* but inside an erase(remove(...)), or after one has dropped a new entry. *)
THEOREM Invariance == Spec => []IInv
<1>1. QED
  BY InitInv, NextInv, PTL DEF Spec

(* TypeOK: the deque, the ids and the loop's indices stay in their bounds. *)
THEOREM TypeCorrect == Spec => []TypeOK
<1>1. IInv => TypeOK
  BY DEF IInv
<1>2. QED
  BY <1>1, Invariance, PTL

(* NoNullClient: neither the sweeps of MessageAllClient and GetClientList  *)
(* nor the handlers that look for an id call a member of a null pointer.   *)
THEOREM NullsAreNotUsed == Spec => []NoNullClient
<1>1. IInv => NoNullClient
  BY DEF IInv
<1>2. QED
  BY <1>1, Invariance, PTL

(* OpenAreHeld: m_dequeConnections keeps every connection alive whose      *)
(* socket is open, but for one pushed between a remove and its erase.      *)
THEOREM OpenStayHeld == Spec => []OpenAreHeld
<1>1. IInv => OpenAreHeld
  BY DEF IInv
<1>2. QED
  BY <1>1, Invariance, PTL

(* BackDefined: what the accept handler calls on back() after its          *)
(* push_back is undefined only between a sweep's remove and its erase, or  *)
(* after an erase that has dropped a new connection with the nulls.        *)
THEOREM BackIsDefined == Spec => []BackDefined
<1>1. IInv => BackDefined
  BY DEF IInv
<1>2. QED
  BY <1>1, Invariance, PTL

(* IdIsTheOneTold: the id ConnectToClient assigns is the one OnClient-     *)
(* Connect announced, and no other client has it.                          *)
THEOREM IdsAreThoseTold == Spec => []IdIsTheOneTold
<1>1. IInv => IdIsTheOneTold
  <2>1. SUFFICES ASSUME IInv, lost = {}, NEW c \in Conns, id[c] # 0
                 PROVE  id[c] = told[c] /\ \A d \in Conns \ {c} : id[d] # id[c]
    BY DEF IdIsTheOneTold
  <2>2. \A d \in Conns : d \in Nat
    BY DEF Conns
  <2>3. \A d \in Conns : id[d] = 0 \/ (id[d] = told[d] /\ (told[d] = FirstId + d - 1 \/ told[d] = 0))
    BY <2>1 DEF IInv, IdInv
  <2>4. id[c] = told[c] /\ id[c] = FirstId + c - 1
    BY <2>1, <2>3
  <2>5. ASSUME NEW d \in Conns \ {c}
        PROVE  id[d] # id[c]
    BY <2>1, <2>2, <2>3, <2>4, <2>5 DEF FirstId
  <2>6. QED
    BY <2>4, <2>5
<1>2. QED
  BY <1>1, Invariance, PTL

(* LoopReachesAll: whoever was held and connected when a broadcast, a list *)
(* or a search began, and still is, has been reached when it has come to   *)
(* its end.                                                                *)
THEOREM LoopsReachAll == Spec => LoopReachesAll
<1> DEFINE Reaches == task.pc = "loop" /\ task.i > task.end /\ task'.pc # "loop"
                        => task.throughout \subseteq task.reached
<1>1. IInv => Reaches
  <2>1. SUFFICES ASSUME IInv, task.pc = "loop", task.i > task.end,
                        NEW c \in task.throughout
                 PROVE  c \in task.reached
    OBVIOUS
  <2>2. task.i \in Nat /\ task.end \in Nat
    BY <2>1 DEF IInv, TypeOK, Tasks
  <2>3. PICK k \in 1 .. task.end : m_dequeConnections[k] = c
    BY <2>1 DEF IInv, LoopInv
  <2>4. k \in 1 .. task.i - 1
    BY <2>1, <2>2
  <2>5. QED
    BY <2>1, <2>3, <2>4 DEF IInv, LoopInv
<1>2. IInv /\ [Next]_vars => [Reaches]_vars
  BY <1>1
<1>3. QED
  BY <1>2, Invariance, PTL DEF Spec, LoopReachesAll
=============================================================================
