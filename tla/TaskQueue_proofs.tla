--------------------------- MODULE TaskQueue_proofs ---------------------------
(***************************************************************************)
(* For any number of posting threads and of posts: the types, the absence  *)
(* of lost wake-ups, and that the queue implements TaskChannel.            *)
(***************************************************************************)
EXTENDS TaskQueue, SequenceTheorems, TLAPS

\* A task that a thread is about to push is one of Task: a thread inside
\* add() has counted the call.
CallIsCounted == \A t \in Threads : adding[t] = "push" => posts[t] \in 1 .. MaxPosts

Inv == TypeOK /\ CallIsCounted

LEMMA InitInv == Init => Inv
  BY MaxPostsAssumption DEF Init, Inv, TypeOK, CallIsCounted, LoopPlaces

LEMMA NextInv == Inv /\ [Next]_vars => Inv'
<1> SUFFICES ASSUME Inv, [Next]_vars PROVE Inv'
  OBVIOUS
<1> USE MaxPostsAssumption DEF Inv, TypeOK, CallIsCounted, LoopPlaces
<1>1. ASSUME NEW t \in Threads, AddCall(t) PROVE Inv'
  BY <1>1 DEF AddCall
<1>2. ASSUME NEW t \in Threads, AddPush(t) PROVE Inv'
  <2>1. <<t, posts[t]>> \in Task
    BY <1>2 DEF AddPush, Task
  <2>2. m_queue' \in Seq(Task)
    BY <1>2, <2>1, AppendProperties DEF AddPush
  <2> QED
    BY <1>2, <2>2 DEF AddPush
<1>3. ASSUME NEW t \in Threads, AddWrite(t) PROVE Inv'
  BY <1>3 DEF AddWrite
<1>4. CASE OtherEvent
  BY <1>4 DEF OtherEvent, addVars
<1>5. CASE Wake
  BY <1>5 DEF Wake, addVars
<1>6. CASE Read
  BY <1>6 DEF Read, addVars
<1>7. CASE Swap
  BY <1>7 DEF Swap, addVars
<1>8. CASE RunTask
  <2>1. Head(tasks) \in Task /\ Tail(tasks) \in Seq(Task)
    BY <1>8, HeadTailProperties DEF RunTask
  <2>2. executed' \in Seq(Task)
    BY <1>8, <2>1, AppendProperties DEF RunTask
  <2> QED
    BY <1>8, <2>1, <2>2 DEF RunTask, addVars
<1>9. CASE CallbackReturns
  BY <1>9 DEF CallbackReturns, addVars
<1>10. CASE BackToWait
  BY <1>10 DEF BackToWait, addVars
<1>11. CASE UNCHANGED vars
  BY <1>11 DEF vars
<1> QED
  BY <1>1, <1>2, <1>3, <1>4, <1>5, <1>6, <1>7, <1>8, <1>9, <1>10, <1>11
  DEF Next, LoopStep

\* Every variable keeps its type: in particular only tasks that some add()
\* posted are ever queued or run.
THEOREM TypeCorrect == Spec => []TypeOK
<1>1. Inv => TypeOK
  BY DEF Inv
<1> QED
  BY InitInv, NextInv, <1>1, PTL DEF Spec

------------------------------------------------------------------------------
\* Between two rounds of deal_task its local queue is empty: only then does
\* the swap empty m_queue.
LEMMA BatchStep == Inv /\ BatchIsOver /\ [Next]_vars => BatchIsOver'
<1> SUFFICES ASSUME Inv, BatchIsOver, [Next]_vars PROVE BatchIsOver'
  OBVIOUS
<1> USE DEF BatchIsOver
<1>1. ASSUME NEW t \in Threads, AddCall(t) \/ AddPush(t) \/ AddWrite(t)
      PROVE  BatchIsOver'
  BY <1>1 DEF AddCall, AddPush, AddWrite
<1>2. CASE OtherEvent \/ LoopStep
  BY <1>2 DEF OtherEvent, LoopStep, Wake, Read, Swap, RunTask,
              CallbackReturns, BackToWait
<1>3. CASE UNCHANGED vars
  BY <1>3 DEF vars
<1> QED
  BY <1>1, <1>2, <1>3 DEF Next

THEOREM BatchCorrect == Spec => [](Inv /\ BatchIsOver)
<1>1. Init => BatchIsOver
  BY DEF Init, BatchIsOver
<1> QED
  BY InitInv, NextInv, BatchStep, <1>1, PTL DEF Spec

LEMMA WakeupStep ==
    Inv /\ BatchIsOver /\ NoLostWakeup /\ [Next]_vars => NoLostWakeup'
<1> SUFFICES ASSUME Inv, BatchIsOver, NoLostWakeup, [Next]_vars
             PROVE  NoLostWakeup'
  OBVIOUS
<1> USE DEF NoLostWakeup, Inv, TypeOK
<1>1. ASSUME NEW t \in Threads, AddCall(t) PROVE NoLostWakeup'
  \* a thread that enters add() was not about to write
  BY <1>1 DEF AddCall
<1>2. ASSUME NEW t \in Threads, AddPush(t) PROVE NoLostWakeup'
  BY <1>2 DEF AddPush
<1>3. ASSUME NEW t \in Threads, AddWrite(t) PROVE NoLostWakeup'
  BY <1>3 DEF AddWrite
<1>4. CASE OtherEvent
  BY <1>4 DEF OtherEvent, addVars
<1>5. CASE Wake
  BY <1>5 DEF Wake, addVars
<1>6. CASE Read
  BY <1>6 DEF Read
<1>7. CASE Swap
  \* the local queue it swaps in is empty
  BY <1>7 DEF Swap, BatchIsOver
<1>8. CASE RunTask
  BY <1>8 DEF RunTask, addVars
<1>9. CASE CallbackReturns
  BY <1>9 DEF CallbackReturns, addVars
<1>10. CASE BackToWait
  BY <1>10 DEF BackToWait, addVars
<1>11. CASE UNCHANGED vars
  BY <1>11 DEF vars
<1> QED
  BY <1>1, <1>2, <1>3, <1>4, <1>5, <1>6, <1>7, <1>8, <1>9, <1>10, <1>11
  DEF Next, LoopStep

\* A task in the queue always has a wake-up on its way: whatever the threads
\* and however their pushes and writes interleave with the loop's read and swap.
THEOREM WakeupCorrect == Spec => []NoLostWakeup
<1>1. Init => NoLostWakeup
  BY DEF Init, NoLostWakeup
<1> QED
  BY BatchCorrect, WakeupStep, <1>1, PTL DEF Spec

------------------------------------------------------------------------------
\* Taking the first element of a queue leaves the rest of what follows it.
LEMMA HeadTailConcat ==
    ASSUME NEW S, NEW s \in Seq(S), NEW r \in Seq(S), s # <<>>
    PROVE  /\ s \o r # <<>>
           /\ Head(s \o r) = Head(s)
           /\ Tail(s \o r) = Tail(s) \o r
<1>1. s = <<Head(s)>> \o Tail(s) /\ Head(s) \in S /\ Tail(s) \in Seq(S)
  BY HeadTailProperties
<1> QED
  BY <1>1

\* A task appended to the queue comes after all that was still to run.
LEMMA AppendConcat ==
    ASSUME NEW S, NEW s \in Seq(S), NEW r \in Seq(S), NEW e \in S
    PROVE  s \o Append(r, e) = Append(s \o r, e)
  OBVIOUS

LEMMA ChannelStep ==
    Inv /\ BatchIsOver /\ [Next]_vars => [Channel!Next]_(Channel!vars)
<1> SUFFICES ASSUME Inv, BatchIsOver, [Next]_vars
             PROVE  [Channel!Next]_(Channel!vars)
  OBVIOUS
<1> USE DEF Inv, TypeOK, Channel!Next, Channel!vars
<1>1. ASSUME NEW t \in Threads, AddCall(t) PROVE UNCHANGED Channel!vars
  BY <1>1 DEF AddCall
<1>2. ASSUME NEW t \in Threads, AddPush(t)
      PROVE  \E task \in Task : Channel!Post(task)
  <2>1. <<t, posts[t]>> \in Task
    BY <1>2 DEF AddPush, CallIsCounted, Task
  <2>2. (tasks \o m_queue)' = Append(tasks \o m_queue, <<t, posts[t]>>)
    BY <1>2, <2>1, AppendConcat DEF AddPush
  <2>3. Channel!Post(<<t, posts[t]>>)
    BY <1>2, <2>2 DEF AddPush, Channel!Post
  <2> QED
    BY <2>1, <2>3
<1>3. ASSUME NEW t \in Threads, AddWrite(t) PROVE UNCHANGED Channel!vars
  BY <1>3 DEF AddWrite
<1>4. CASE OtherEvent \/ Wake \/ Read \/ CallbackReturns \/ BackToWait
  BY <1>4 DEF OtherEvent, Wake, Read, CallbackReturns, BackToWait
<1>5. CASE Swap
  \* m_queue moves to the empty local queue, which replaces it
  <2>1. tasks = <<>>
    BY <1>5 DEF Swap, BatchIsOver
  <2>2. tasks \o m_queue = m_queue /\ m_queue \o tasks = m_queue
    BY <2>1, ConcatEmptySeq
  <2> QED
    BY <1>5, <2>1, <2>2 DEF Swap
<1>6. CASE RunTask
  <2>1. tasks # <<>>
    BY <1>6 DEF RunTask
  <2>2. /\ tasks \o m_queue # <<>>
        /\ Head(tasks \o m_queue) = Head(tasks)
        /\ Tail(tasks \o m_queue) = Tail(tasks) \o m_queue
    BY <2>1, HeadTailConcat
  <2>3. Channel!Execute
    BY <1>6, <2>2 DEF RunTask, Channel!Execute
  <2> QED
    BY <2>3
<1>7. CASE UNCHANGED vars
  BY <1>7 DEF vars
<1> QED
  BY <1>1, <1>2, <1>3, <1>4, <1>5, <1>6, <1>7 DEF Next, LoopStep

\* The task queue implements the channel: every task is run at most once, in
\* the order in which the pushes happened, and none is dropped or invented.
THEOREM ChannelCorrect == Spec => IsChannel
<1>1. Init => Channel!Init
  BY ConcatEmptySeq DEF Init, Channel!Init
<1> QED
  BY BatchCorrect, ChannelStep, <1>1, PTL DEF Spec, IsChannel, Channel!SafeSpec

==============================================================================
