------------------------------ MODULE TsQueue ------------------------------
(***************************************************************************)
(* Net_chat/net_tsqueue.h at the granularity of its lock operations, with  *)
(* the two kinds of thread that share an incoming queue: the asio threads  *)
(* that run connection::AddToIncomimgMessageQueue (push_back), and the one *)
(* thread that runs server_interface::Update or, on the client,            *)
(* Custom_Client::ExecuteMessages (empty, pop_front).                      *)
(*                                                                         *)
(* push_back takes muxQueue and then muxWait; wait takes muxWait and then, *)
(* inside empty(), muxQueue.                                               *)
(***************************************************************************)
EXTENDS Integers, Sequences

CONSTANTS
  Producers,     \* threads calling push_back (one asio thread in the programs)
  Consumer,      \* the thread calling Update / ExecuteMessages
  Free,          \* owner of an unlocked mutex
  LowCpu,        \* Update's lowcpu: TRUE in ChatServer/main.cpp, FALSE for a
                 \* polling reader (Update's default, ExecuteMessages)
  MaxMessages,   \* Update's nMaxMessages (size_t(-1) in ChatServer/main.cpp)
  MaxPush        \* bound of the model: messages pushed by one producer

ASSUME TsQueueAssumption ==
  /\ Consumer \notin Producers
  /\ Free \notin Producers \cup {Consumer}
  /\ LowCpu \in BOOLEAN
  /\ MaxMessages \in Nat \ {0}
  /\ MaxPush \in Nat

VARIABLES
  muxQueue, muxWait,   \* the owner of each mutex
  deqQueue,            \* the protected deque
  pc,                  \* where each thread is
  pushed,              \* how many messages each producer has emplaced
  MsgCount,            \* Update's local counter
  hand,                \* the message popped and not yet passed to OnMessage
  handled              \* the messages OnMessage was called with

vars == <<muxQueue, muxWait, deqQueue, pc, pushed, MsgCount, hand, handled>>

Threads == Producers \cup {Consumer}
Message == Producers \X (1 .. MaxPush)

PushPc == {"idle", "emplace", "lockWait", "notify", "unlock"}
WaitPc == {"waitEmpty", "waitTest", "sleep", "asleep", "woken", "waitDone"}
LoopPc == {"update", "loopEmpty", "loopTest", "pop", "popping", "onMessage"}

Goto(t, from, to) == pc[t] = from /\ pc' = [pc EXCEPT ![t] = to]

Init ==
  /\ muxQueue = Free
  /\ muxWait = Free
  /\ deqQueue = <<>>
  /\ pc = [t \in Threads |-> IF t = Consumer THEN "update" ELSE "idle"]
  /\ pushed = [p \in Producers |-> 0]
  /\ MsgCount = 0
  /\ hand = <<>>
  /\ handled = <<>>

-----------------------------------------------------------------------------
(* push_back(msg), run by producer p *)

PushLock(p) ==
  /\ pushed[p] < MaxPush
  /\ Goto(p, "idle", "emplace")
  /\ muxQueue = Free
  /\ muxQueue' = p
  /\ UNCHANGED <<muxWait, deqQueue, pushed, MsgCount, hand, handled>>

\* Mutant: the message is stored under its predecessor's number.
PushEmplaceStale(p) ==
  /\ Goto(p, "emplace", "lockWait")
  /\ pushed' = [pushed EXCEPT ![p] = @ + 1]
  /\ deqQueue' = Append(deqQueue, <<p, pushed[p]>>)
  /\ UNCHANGED <<muxQueue, muxWait, MsgCount, hand, handled>>

PushEmplace(p) ==
  /\ Goto(p, "emplace", "lockWait")
  /\ pushed' = [pushed EXCEPT ![p] = @ + 1]
  /\ deqQueue' = Append(deqQueue, <<p, pushed[p] + 1>>)
  /\ UNCHANGED <<muxQueue, muxWait, MsgCount, hand, handled>>

\* Mutant: notify_one is called without muxWait, which would end the deadlock.
PushNotifyUnlocked(p) ==
  /\ Goto(p, "lockWait", "notify")
  /\ UNCHANGED <<muxQueue, muxWait, deqQueue, pushed, MsgCount, hand, handled>>

PushLockWait(p) ==
  /\ Goto(p, "lockWait", "notify")
  /\ muxWait = Free
  /\ muxWait' = p
  /\ UNCHANGED <<muxQueue, deqQueue, pushed, MsgCount, hand, handled>>

\* Mutant: the notify_one is missing.
PushNotifyMissed(p) ==
  /\ Goto(p, "notify", "unlock")
  /\ UNCHANGED <<muxQueue, muxWait, deqQueue, pushed, MsgCount, hand, handled>>

\* cv.notify_one(): the consumer is the only thread that ever waits on cv
PushNotify(p) ==
  /\ pc[p] = "notify"
  /\ pc' = [pc EXCEPT ![p] = "unlock",
                      ![Consumer] = IF @ = "asleep" THEN "woken" ELSE @]
  /\ UNCHANGED <<muxQueue, muxWait, deqQueue, pushed, MsgCount, hand, handled>>

\* the two guards leave scope, muxWait's first
PushUnlock(p) ==
  /\ pc[p] = "unlock"
  /\ IF muxWait = p
     THEN muxWait' = Free /\ UNCHANGED <<muxQueue, pc>>
     ELSE muxQueue' = Free /\ pc' = [pc EXCEPT ![p] = "idle"] /\ UNCHANGED muxWait
  /\ UNCHANGED <<deqQueue, pushed, MsgCount, hand, handled>>

-----------------------------------------------------------------------------
(* empty(): the answer is read under muxQueue and used after the unlock *)

EmptyLock(from, to) ==
  /\ Goto(Consumer, from, to)
  /\ muxQueue = Free
  /\ muxQueue' = Consumer
  /\ UNCHANGED <<muxWait, deqQueue, pushed, hand, handled>>

EmptyReturn(from, ifEmpty, ifNot) ==
  /\ Goto(Consumer, from, IF deqQueue = <<>> THEN ifEmpty ELSE ifNot)
  /\ muxQueue' = Free
  /\ UNCHANGED <<muxWait, deqQueue, pushed, hand, handled>>

(* wait(), called by Update when lowcpu *)

WaitEmptyLock == EmptyLock("waitEmpty", "waitTest") /\ UNCHANGED MsgCount
WaitEmptyReturn == EmptyReturn("waitTest", "sleep", "waitDone") /\ UNCHANGED MsgCount

\* cv.wait(ul) releases muxWait and goes to sleep in one step
WaitSleep ==
  /\ Goto(Consumer, "sleep", "asleep")
  /\ muxWait' = Free
  /\ UNCHANGED <<muxQueue, deqQueue, pushed, MsgCount, hand, handled>>

\* a condition variable may wake its waiter without a notification
WaitSpurious ==
  /\ Goto(Consumer, "asleep", "woken")
  /\ UNCHANGED <<muxQueue, muxWait, deqQueue, pushed, MsgCount, hand, handled>>

WaitRelock ==
  /\ Goto(Consumer, "woken", "waitEmpty")
  /\ muxWait = Free
  /\ muxWait' = Consumer
  /\ UNCHANGED <<muxQueue, deqQueue, pushed, MsgCount, hand, handled>>

\* Mutant: wait() returns with muxWait still locked.
WaitReturnLocked ==
  /\ Goto(Consumer, "waitDone", "loopEmpty")
  /\ UNCHANGED <<muxQueue, muxWait, deqQueue, pushed, MsgCount, hand, handled>>

WaitReturn ==
  /\ Goto(Consumer, "waitDone", "loopEmpty")
  /\ muxWait' = Free
  /\ UNCHANGED <<muxQueue, deqQueue, pushed, MsgCount, hand, handled>>

-----------------------------------------------------------------------------
(* Update(nMaxMessages, lowcpu), called for ever by its thread *)

\* Mutant: MsgCount is kept from one Update to the next.
UpdateBeginNoReset ==
  /\ IF LowCpu
     THEN /\ Goto(Consumer, "update", "waitEmpty")
          /\ muxWait = Free
          /\ muxWait' = Consumer
     ELSE Goto(Consumer, "update", "loopEmpty") /\ UNCHANGED muxWait
  /\ UNCHANGED <<muxQueue, deqQueue, pushed, MsgCount, hand, handled>>

UpdateBegin ==
  /\ IF LowCpu
     THEN /\ Goto(Consumer, "update", "waitEmpty")
          /\ muxWait = Free
          /\ muxWait' = Consumer
     ELSE Goto(Consumer, "update", "loopEmpty") /\ UNCHANGED muxWait
  /\ MsgCount' = 0
  /\ UNCHANGED <<muxQueue, deqQueue, pushed, hand, handled>>

LoopEmptyLock ==
  /\ MsgCount < MaxMessages
  /\ EmptyLock("loopEmpty", "loopTest")
  /\ UNCHANGED MsgCount

\* Mutant: the loop's !empty() test is dropped.
LoopPopsAnyway == EmptyReturn("loopTest", "pop", "pop") /\ UNCHANGED MsgCount

LoopEmptyReturn == EmptyReturn("loopTest", "update", "pop") /\ UNCHANGED MsgCount

\* MsgCount < nMaxMessages fails: Update returns without calling empty()
LoopLimit ==
  /\ MsgCount >= MaxMessages
  /\ Goto(Consumer, "loopEmpty", "update")
  /\ UNCHANGED <<muxQueue, muxWait, deqQueue, pushed, MsgCount, hand, handled>>

PopLock ==
  /\ Goto(Consumer, "pop", "popping")
  /\ muxQueue = Free
  /\ muxQueue' = Consumer
  /\ UNCHANGED <<muxWait, deqQueue, pushed, MsgCount, hand, handled>>

\* Mutant: the last message is taken, as pop_back does.
PopLast ==
  /\ Goto(Consumer, "popping", "onMessage")
  /\ hand' = <<deqQueue[Len(deqQueue)]>>
  /\ deqQueue' = SubSeq(deqQueue, 1, Len(deqQueue) - 1)
  /\ muxQueue' = Free
  /\ UNCHANGED <<muxWait, pushed, MsgCount, handled>>

\* pop_front(): front() of an empty deque is undefined, see PopDefined
PopReturn ==
  /\ Goto(Consumer, "popping", "onMessage")
  /\ hand' = <<Head(deqQueue)>>
  /\ deqQueue' = Tail(deqQueue)
  /\ muxQueue' = Free
  /\ UNCHANGED <<muxWait, pushed, MsgCount, handled>>

OnMessage ==
  /\ Goto(Consumer, "onMessage", "loopEmpty")
  /\ handled' = handled \o hand
  /\ hand' = <<>>
  /\ MsgCount' = MsgCount + 1
  /\ UNCHANGED <<muxQueue, muxWait, deqQueue, pushed>>

-----------------------------------------------------------------------------
PushStep(p) ==
  PushLock(p) \/ PushEmplace(p) \/ PushLockWait(p) \/ PushNotify(p) \/ PushUnlock(p)

\* a spurious wakeup is allowed and never owed: it is not part of the fair steps
ConsumerStep ==
  \/ WaitEmptyLock \/ WaitEmptyReturn \/ WaitSleep \/ WaitRelock \/ WaitReturn
  \/ UpdateBegin \/ LoopEmptyLock \/ LoopEmptyReturn \/ LoopLimit
  \/ PopLock \/ PopReturn \/ OnMessage

Next == ConsumerStep \/ WaitSpurious \/ \E p \in Producers : PushStep(p)

Spec == Init /\ [][Next]_vars

\* every thread is scheduled, and takes a mutex that stays available to it
FairSpec ==
  /\ Spec
  /\ WF_vars(ConsumerStep)
  /\ \A p \in Producers : WF_vars(PushStep(p))

-----------------------------------------------------------------------------
TypeOK ==
  /\ muxQueue \in Threads \cup {Free}
  /\ muxWait \in Threads \cup {Free}
  /\ deqQueue \in Seq(Message)
  /\ pc \in [Threads -> PushPc \cup WaitPc \cup LoopPc]
  /\ \A p \in Producers : pc[p] \in PushPc
  /\ pc[Consumer] \in WaitPc \cup LoopPc
  /\ pushed \in [Producers -> 0 .. MaxPush]
  /\ MsgCount \in Nat
  /\ hand \in Seq(Message)
  /\ handled \in Seq(Message)

(* net_tsqueue.h:70 pop_front takes front() without a test of its own: the *)
(* !empty() of Update's loop, made under an earlier lock, must still hold  *)
(* when pop_front has locked again.                                        *)
PopDefined == pc[Consumer] \in {"pop", "popping"} => deqQueue # <<>>

(* net_tsqueue.h:86 wait() tests empty() and sleeps without holding        *)
(* muxQueue in between: a message pushed in that window must still wake    *)
(* it.  Whenever the reader sleeps unnotified on a non-empty queue, some   *)
(* producer has still to execute its notify_one.                           *)
NoLostWakeup ==
  pc[Consumer] = "asleep" /\ deqQueue # <<>> =>
    \E p \in Producers : pc[p] \in {"lockWait", "notify"}

(* The lock order of push_back and wait is opposite: the threads can stop  *)
(* for ever.  That cycle is the only way they can: in any state where no   *)
(* thread can go on, a producer inside push_back holds muxQueue and wants  *)
(* muxWait while the reader inside wait() holds muxWait and wants muxQueue.*)
LockCycle ==
  /\ pc[Consumer] = "waitEmpty" /\ muxWait = Consumer
  /\ \E p \in Producers : muxQueue = p /\ pc[p] = "lockWait"

StopsOnlyInLockCycle == ~ ENABLED Next => LockCycle

\* What a thread cannot leave by itself: the wait for a mutex that is held,
\* the sleep, unless it wakes spuriously, and having nothing more to push.
WantsQueue(t) ==
  \/ pc[t] \in {"waitEmpty", "pop"}
  \/ pc[t] = "loopEmpty" /\ MsgCount < MaxMessages
  \/ pc[t] = "idle" /\ pushed[t] < MaxPush
WantsWait(t) == pc[t] \in {"lockWait", "woken"} \/ (pc[t] = "update" /\ LowCpu)
Done(p) == pc[p] = "idle" /\ pushed[p] = MaxPush

Waits(t) ==
  \/ WantsQueue(t) /\ muxQueue # Free
  \/ WantsWait(t) /\ muxWait # Free
  \/ pc[t] = "asleep"
  \/ Done(t)

(* net_tsqueue.h:86 A wakeup is never left to chance: even if none is      *)
(* spurious, the threads all wait only in the lock cycle, or when nothing  *)
(* is left to push and nothing to handle.                                  *)
WaitsInCycleOrIdle ==
  (\A t \in Threads : Waits(t)) =>
    \/ LockCycle
    \/ pc[Consumer] = "asleep" /\ deqQueue = <<>> /\ \A p \in Producers : Done(p)

(* tsqueue is the FIFO queue of FifoQueue: emplace_back puts, OnMessage    *)
(* handles, and the message in between is still in the queue's order.      *)
Fifo == INSTANCE FifoQueue WITH queue <- hand \o deqQueue

FifoSpec == Fifo!Spec

Handled(p, n) == \E i \in DOMAIN handled : handled[i] = <<p, n>>

(* Every message pushed is handled, net_server.h:133: the server receives  *)
(* what its clients send (README.md:3 "Server receives messages").         *)
PushedIsHandled ==
  \A p \in Producers : \A n \in 1 .. MaxPush : pushed[p] >= n ~> Handled(p, n)

(* With the sleeping reader of ChatServer/main.cpp nothing but the lock    *)
(* cycle keeps a pushed message from being handled: no wakeup is lost, and *)
(* no message stays behind when Update returns at its limit.               *)
PushedIsHandledUnlessStopped ==
  \A p \in Producers : \A n \in 1 .. MaxPush :
    pushed[p] >= n ~> Handled(p, n) \/ LockCycle
=============================================================================
