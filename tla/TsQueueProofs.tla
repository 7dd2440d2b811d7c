--------------------------- MODULE TsQueueProofs ---------------------------
(***************************************************************************)
(* TLAPS proofs about TsQueue, for any set of producers, any bound on the  *)
(* pushes and any message limit: the invariants that make the unlocked     *)
(* windows of empty / pop_front and of empty / cv.wait harmless, and that  *)
(* tsqueue implements FifoQueue.                                           *)
(***************************************************************************)
EXTENDS TsQueue, SequenceTheorems, TLAPS

(* Who owns a mutex is where its owner is. *)
LockInv ==
  /\ \A p \in Producers :
       /\ muxQueue = p <=> pc[p] \in {"emplace", "lockWait", "notify", "unlock"}
       /\ pc[p] = "notify" => muxWait = p
       /\ muxWait = p => pc[p] \in {"notify", "unlock"}
       /\ pc[p] = "emplace" => pushed[p] < MaxPush
  /\ muxQueue = Consumer <=> pc[Consumer] \in {"waitTest", "loopTest", "popping"}
  /\ muxWait = Consumer <=>
       pc[Consumer] \in {"waitEmpty", "waitTest", "sleep", "waitDone"}

(* The window between wait()'s test and its sleep: a message that arrived  *)
(* in it belongs to a producer that is still waiting for muxWait.          *)
SleepInv ==
  pc[Consumer] = "sleep" /\ deqQueue # <<>> =>
    \E p \in Producers : pc[p] = "lockWait"

(* One message is in the reader's hand exactly while OnMessage is due. *)
HandInv ==
  IF pc[Consumer] = "onMessage"
  THEN \E m \in Message : hand = <<m>>
  ELSE hand = <<>>

WakeInv == PopDefined /\ NoLostWakeup /\ SleepInv

IInv == TypeOK /\ LockInv /\ WakeInv /\ HandInv

-----------------------------------------------------------------------------
LEMMA InitIInv == Init => IInv
<1> SUFFICES ASSUME Init PROVE IInv
  OBVIOUS
<1>1. /\ \A p \in Producers : pc[p] = "idle" /\ p # Consumer /\ p # Free
      /\ pc[Consumer] = "update"
      /\ Consumer # Free
  BY TsQueueAssumption DEF TsQueueAssumption, Init, Threads
<1>2. TypeOK
  BY TsQueueAssumption, <1>1
     DEF TsQueueAssumption, Init, TypeOK, Threads, PushPc, WaitPc, LoopPc
<1>3. LockInv /\ WakeInv /\ HandInv
  BY <1>1 DEF Init, LockInv, WakeInv, PopDefined, NoLostWakeup, SleepInv, HandInv
<1>4. QED
  BY <1>2, <1>3 DEF IInv

LEMMA EmplacedIsMessage ==
  ASSUME TypeOK, LockInv, NEW p \in Producers, PushEmplace(p)
  PROVE  <<p, pushed[p] + 1>> \in Message /\ pushed[p] + 1 \in 0 .. MaxPush
<1>1. pushed[p] < MaxPush /\ pushed[p] \in 0 .. MaxPush /\ MaxPush \in Nat
  BY TsQueueAssumption DEF TsQueueAssumption, PushEmplace, Goto, LockInv, TypeOK
<1>2. QED
  BY <1>1 DEF Message

LEMMA EmplaceFills ==
  ASSUME TypeOK, LockInv, NEW p \in Producers, PushEmplace(p)
  PROVE  deqQueue' # <<>>
<1> DEFINE m == <<p, pushed[p] + 1>>
<1>1. m \in Message /\ deqQueue \in Seq(Message)
  BY EmplacedIsMessage DEF TypeOK
<1>2. deqQueue' = Append(deqQueue, m)
  BY DEF PushEmplace
<1> HIDE DEF m
<1>3. QED
  BY <1>1, <1>2, AppendProperties

LEMMA PushTypeOK ==
  ASSUME TypeOK, LockInv, NEW p \in Producers, PushStep(p)
  PROVE  TypeOK'
<1> USE TsQueueAssumption DEF TsQueueAssumption, TypeOK, Threads, PushPc, WaitPc, LoopPc, Goto
<1>1. CASE PushLock(p)
  BY <1>1 DEF PushLock
<1>2. CASE PushEmplace(p)
  <2>1. <<p, pushed[p] + 1>> \in Message /\ pushed[p] + 1 \in 0 .. MaxPush
    BY <1>2, EmplacedIsMessage
  <2>2. Append(deqQueue, <<p, pushed[p] + 1>>) \in Seq(Message)
    BY <2>1, AppendProperties
  <2>3. QED
    BY <1>2, <2>1, <2>2 DEF PushEmplace
<1>3. CASE PushLockWait(p)
  BY <1>3 DEF PushLockWait
<1>4. CASE PushNotify(p)
  BY <1>4 DEF PushNotify
<1>5. CASE PushUnlock(p)
  BY <1>5 DEF PushUnlock
<1>6. QED
  BY <1>1, <1>2, <1>3, <1>4, <1>5 DEF PushStep

LEMMA PushLockInv ==
  ASSUME TypeOK, LockInv, NEW p \in Producers, PushStep(p)
  PROVE  LockInv'
<1> USE TsQueueAssumption DEF TsQueueAssumption, TypeOK, Threads, PushPc, WaitPc, LoopPc, Goto, LockInv
<1>1. CASE PushLock(p)
  BY <1>1 DEF PushLock
<1>2. CASE PushEmplace(p)
  BY <1>2 DEF PushEmplace
<1>3. CASE PushLockWait(p)
  BY <1>3 DEF PushLockWait
<1>4. CASE PushNotify(p)
  BY <1>4 DEF PushNotify
<1>5. CASE PushUnlock(p)
  BY <1>5 DEF PushUnlock
<1>6. QED
  BY <1>1, <1>2, <1>3, <1>4, <1>5 DEF PushStep

LEMMA PushWakeInv ==
  ASSUME TypeOK, LockInv, WakeInv, NEW p \in Producers, PushStep(p)
  PROVE  WakeInv'
<1> USE TsQueueAssumption
    DEF TsQueueAssumption, TypeOK, Threads, PushPc, WaitPc, LoopPc, Goto,
        LockInv, WakeInv, PopDefined, NoLostWakeup, SleepInv
<1>1. CASE PushLock(p)
  BY <1>1 DEF PushLock
<1>2. CASE PushEmplace(p)
  <2>1. deqQueue' # <<>>
    BY <1>2, EmplaceFills
  <2>2. pc' = [pc EXCEPT ![p] = "lockWait"]
    BY <1>2 DEF PushEmplace
  <2>3. QED
    BY <2>1, <2>2
<1>3. CASE PushLockWait(p)
  \* muxWait was free, so the reader was not between its test and its sleep
  BY <1>3 DEF PushLockWait
<1>4. CASE PushNotify(p)
  BY <1>4 DEF PushNotify
<1>5. CASE PushUnlock(p)
  BY <1>5 DEF PushUnlock
<1>6. QED
  BY <1>1, <1>2, <1>3, <1>4, <1>5 DEF PushStep

LEMMA PushHandInv ==
  ASSUME TypeOK, HandInv, NEW p \in Producers, PushStep(p)
  PROVE  HandInv' /\ hand' = hand /\ handled' = handled
BY TsQueueAssumption
   DEF TsQueueAssumption, TypeOK, Threads, PushPc, WaitPc, LoopPc, Goto, HandInv,
       PushStep, PushLock, PushEmplace, PushLockWait, PushNotify, PushUnlock

-----------------------------------------------------------------------------
(* The steps of the reader, a spurious wakeup included. *)
ReaderStep == ConsumerStep \/ WaitSpurious

LEMMA ReaderIInv ==
  ASSUME IInv, ReaderStep
  PROVE  IInv'
<1> USE TsQueueAssumption
    DEF TsQueueAssumption, IInv, TypeOK, Threads, PushPc, WaitPc, LoopPc, Goto,
        LockInv, WakeInv, PopDefined, NoLostWakeup, SleepInv, HandInv
<1>1. CASE WaitEmptyLock
  BY <1>1 DEF WaitEmptyLock, EmptyLock
<1>2. CASE WaitEmptyReturn
  BY <1>2 DEF WaitEmptyReturn, EmptyReturn
<1>3. CASE WaitSleep
  BY <1>3 DEF WaitSleep
<1>4. CASE WaitRelock
  BY <1>4 DEF WaitRelock
<1>5. CASE WaitReturn
  BY <1>5 DEF WaitReturn
<1>6. CASE UpdateBegin
  <2>1. CASE LowCpu
    BY <1>6, <2>1 DEF UpdateBegin
  <2>2. CASE ~ LowCpu
    BY <1>6, <2>2 DEF UpdateBegin
  <2>3. QED
    BY <2>1, <2>2
<1>7. CASE LoopEmptyLock
  BY <1>7 DEF LoopEmptyLock, EmptyLock
<1>8. CASE LoopEmptyReturn
  BY <1>8 DEF LoopEmptyReturn, EmptyReturn
<1>9. CASE LoopLimit
  BY <1>9 DEF LoopLimit
<1>10. CASE PopLock
  BY <1>10 DEF PopLock
<1>11. CASE PopReturn
  <2>1. deqQueue # <<>>
    BY <1>11 DEF PopReturn
  <2>2. Head(deqQueue) \in Message /\ Tail(deqQueue) \in Seq(Message)
    BY <2>1, HeadTailProperties
  <2>3. hand' = <<Head(deqQueue)>> /\ hand' \in Seq(Message)
    BY <1>11, <2>2 DEF PopReturn
  <2>4. QED
    BY <1>11, <2>2, <2>3 DEF PopReturn
<1>12. CASE OnMessage
  <2>1. handled \o hand \in Seq(Message)
    BY ConcatProperties
  <2>2. QED
    BY <1>12, <2>1 DEF OnMessage
<1>13. CASE WaitSpurious
  BY <1>13 DEF WaitSpurious
<1>14. QED
  BY <1>1, <1>2, <1>3, <1>4, <1>5, <1>6, <1>7, <1>8, <1>9, <1>10, <1>11, <1>12, <1>13
     DEF ReaderStep, ConsumerStep

LEMMA NextIInv == IInv /\ [Next]_vars => IInv'
<1> SUFFICES ASSUME IInv, [Next]_vars PROVE IInv'
  OBVIOUS
<1>1. CASE ReaderStep
  BY <1>1, ReaderIInv
<1>2. ASSUME NEW p \in Producers, PushStep(p)
      PROVE  IInv'
  BY <1>2, PushTypeOK, PushLockInv, PushWakeInv, PushHandInv DEF IInv
<1>3. CASE UNCHANGED vars
  BY <1>3 DEF vars, IInv, TypeOK, LockInv, WakeInv, PopDefined, NoLostWakeup,
              SleepInv, HandInv
<1>4. QED
  BY <1>1, <1>2, <1>3 DEF Next, ReaderStep

(* IInv is an invariant of every behaviour of the queue's threads. *)
THEOREM Invariance == Spec => []IInv
BY InitIInv, NextIInv, PTL DEF Spec

(* Every variable keeps its type. *)
THEOREM TypeCorrect == Spec => []TypeOK
<1>1. IInv => TypeOK
  BY DEF IInv
<1>2. QED
  BY <1>1, Invariance, PTL

(* pop_front never takes from an empty deque, although Update tested it in *)
(* an earlier critical section.                                            *)
THEOREM PopIsDefined == Spec => []PopDefined
<1>1. IInv => PopDefined
  BY DEF IInv, WakeInv
<1>2. QED
  BY <1>1, Invariance, PTL

(* No wakeup is lost: a reader asleep on a non-empty queue has a producer  *)
(* on its way to notify_one.                                               *)
THEOREM WakeupNotLost == Spec => []NoLostWakeup
<1>1. IInv => NoLostWakeup
  BY DEF IInv, WakeInv
<1>2. QED
  BY <1>1, Invariance, PTL

LEMMA OwnersWait ==
  ASSUME IInv, \A t \in Threads : Waits(t)
  PROVE  /\ muxQueue # Free => \E p \in Producers : muxQueue = p /\ pc[p] = "lockWait"
         /\ muxWait # Free => muxWait = Consumer /\ pc[Consumer] = "waitEmpty"
<1> USE DEF IInv, LockInv, TypeOK, Threads
<1>1. \A p \in Producers : pc[p] \notin {"emplace", "notify", "unlock"}
  BY DEF Waits, WantsQueue, WantsWait, Done
<1>2. pc[Consumer] \notin {"waitTest", "loopTest", "popping", "sleep", "waitDone"}
  BY DEF Waits, WantsQueue, WantsWait, Done
<1>3. muxQueue # Free => \E p \in Producers : muxQueue = p /\ pc[p] = "lockWait"
  BY <1>1, <1>2
<1>4. muxWait # Free => muxWait = Consumer /\ pc[Consumer] = "waitEmpty"
  BY <1>1, <1>2
<1>5. QED
  BY <1>3, <1>4

(* net_tsqueue.h:40, 89 The opposite lock orders of push_back and wait are *)
(* the only way the threads can stop each other, for any number of         *)
(* producers, and no thread has to be woken by chance.                     *)
THEOREM WaitsAreCycleOrIdle == Spec => []WaitsInCycleOrIdle
<1>1. IInv => WaitsInCycleOrIdle
  <2> SUFFICES ASSUME IInv, \A t \in Threads : Waits(t), ~ LockCycle
               PROVE  /\ pc[Consumer] = "asleep" /\ deqQueue = <<>>
                      /\ \A p \in Producers : Done(p)
    BY DEF WaitsInCycleOrIdle
  <2>1. muxQueue = Free \/ muxWait = Free
    BY OwnersWait DEF LockCycle
  <2>2. \A p \in Producers : pc[p] \in PushPc /\ Waits(p)
    BY DEF IInv, TypeOK, Threads
  <2>3. pc[Consumer] \in WaitPc \cup LoopPc /\ Waits(Consumer)
    BY DEF IInv, TypeOK, Threads
  <2>4. muxQueue = Free
    <3>1. ASSUME NEW p \in Producers, pc[p] = "lockWait" PROVE muxWait # Free
      BY <2>2, <3>1 DEF Waits, WantsQueue, WantsWait, Done
    <3>2. QED
      BY <2>1, <3>1, OwnersWait
  <2>5. muxWait = Free
    BY <2>3, <2>4, OwnersWait DEF Waits, WantsQueue, WantsWait, Done
  <2>6. pc[Consumer] = "asleep" /\ \A p \in Producers : Done(p)
    BY <2>2, <2>3, <2>4, <2>5 DEF Waits, PushPc, WaitPc, LoopPc, Done
  <2>7. deqQueue = <<>>
    BY <2>6 DEF IInv, WakeInv, NoLostWakeup, Done
  <2>8. QED
    BY <2>6, <2>7
<1>2. QED
  BY <1>1, Invariance, PTL

-----------------------------------------------------------------------------
(* The abstract queue: the message in hand, then the deque. *)
Pending == hand \o deqQueue

LEMMA InitFifo == Init => Fifo!Init
BY ConcatEmptySeq, EmptySeq DEF Init, Fifo!Init

LEMMA EmplacePuts ==
  ASSUME IInv, NEW p \in Producers, PushEmplace(p)
  PROVE  Fifo!Put(<<p, pushed[p] + 1>>)
<1> DEFINE m == <<p, pushed[p] + 1>>
<1>1. hand \in Seq(Message) /\ deqQueue \in Seq(Message) /\ m \in Message
  BY EmplacedIsMessage DEF IInv, TypeOK
<1>2. hand' = hand /\ handled' = handled /\ deqQueue' = Append(deqQueue, m)
  BY DEF PushEmplace
<1>3. hand \o Append(deqQueue, m) = Append(hand \o deqQueue, m)
  BY <1>1
<1>4. QED
  BY <1>2, <1>3 DEF Fifo!Put

LEMMA PopMovesToHand ==
  ASSUME IInv, PopReturn
  PROVE  Pending' = Pending /\ handled' = handled
<1>1. hand = <<>> /\ deqQueue # <<>> /\ deqQueue \in Seq(Message)
  BY DEF IInv, PopReturn, Goto, HandInv, WakeInv, PopDefined, TypeOK
<1>2. hand' = <<Head(deqQueue)>> /\ deqQueue' = Tail(deqQueue) /\ handled' = handled
  BY DEF PopReturn
<1>3. <<>> \o deqQueue = <<Head(deqQueue)>> \o Tail(deqQueue)
  BY <1>1
<1>4. QED
  BY <1>1, <1>2, <1>3 DEF Pending

LEMMA OnMessageHandles ==
  ASSUME IInv, OnMessage
  PROVE  Fifo!Handle
<1>1. PICK m \in Message : hand = <<m>>
  BY DEF IInv, OnMessage, Goto, HandInv
<1>2. deqQueue \in Seq(Message) /\ handled \in Seq(Message)
  BY DEF IInv, TypeOK
<1>3. hand' = <<>> /\ deqQueue' = deqQueue /\ handled' = handled \o <<m>>
  BY <1>1 DEF OnMessage
<1>4. <<m>> \o deqQueue # <<>> /\ Head(<<m>> \o deqQueue) = m
      /\ Tail(<<m>> \o deqQueue) = deqQueue /\ <<>> \o deqQueue = deqQueue
  BY <1>2
<1>5. handled \o <<m>> = Append(handled, m)
  BY <1>2
<1>6. QED
  BY <1>1, <1>3, <1>4, <1>5 DEF Fifo!Handle

LEMMA NextFifo ==
  IInv /\ [Next]_vars => [Fifo!Next]_<<hand \o deqQueue, handled>>
<1> SUFFICES ASSUME IInv, [Next]_vars
             PROVE  [Fifo!Next]_<<hand \o deqQueue, handled>>
  OBVIOUS
<1>1. ASSUME NEW p \in Producers, PushEmplace(p)
      PROVE  Fifo!Next
  BY <1>1, EmplacePuts, EmplacedIsMessage DEF Fifo!Next, IInv
<1>2. CASE OnMessage
  BY <1>2, OnMessageHandles DEF Fifo!Next
<1>3. CASE PopReturn
  BY <1>3, PopMovesToHand DEF Pending
<1>4. ASSUME NEW p \in Producers,
             PushLock(p) \/ PushLockWait(p) \/ PushNotify(p) \/ PushUnlock(p)
      PROVE  UNCHANGED <<hand, deqQueue, handled>>
  BY <1>4 DEF PushLock, PushLockWait, PushNotify, PushUnlock
<1>5. CASE \/ WaitEmptyLock \/ WaitEmptyReturn \/ WaitSleep \/ WaitRelock \/ WaitReturn
           \/ UpdateBegin \/ LoopEmptyLock \/ LoopEmptyReturn \/ LoopLimit \/ PopLock
           \/ WaitSpurious
  <2>1. UNCHANGED <<hand, deqQueue, handled>>
    BY <1>5 DEF WaitEmptyLock, WaitEmptyReturn, WaitSleep, WaitRelock, WaitReturn,
                UpdateBegin, LoopEmptyLock, LoopEmptyReturn, LoopLimit, PopLock,
                WaitSpurious, EmptyLock, EmptyReturn
  <2>2. QED
    BY <2>1
<1>6. CASE UNCHANGED vars
  BY <1>6 DEF vars
<1>7. QED
  BY <1>1, <1>2, <1>3, <1>4, <1>5, <1>6 DEF Next, ConsumerStep, PushStep

(* tsqueue and its callers implement the FIFO queue: each message pushed   *)
(* is handled once and in the order of emplace_back, whatever the threads' *)
(* interleaving, spurious wakeups and Update's message limit.              *)
THEOREM ImplementsFifo == Spec => FifoSpec
BY InitFifo, NextFifo, Invariance, PTL DEF Spec, FifoSpec, Fifo!Spec
=============================================================================
