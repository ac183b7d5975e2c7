------------------------------- MODULE LoopPool -------------------------------
(***************************************************************************)
(* event_loop_thread and event_loop_thread_pool: start() creates one       *)
(* thread after the other and waits for each to say where its event loop   *)
(* is; get_next_loop() then deals the loops in turn to whoever asks.       *)
(*                                                                         *)
(* start() waits on a condition variable under the thread's own mutex, but *)
(* thread_func sets m_loop and notifies without it: a notification between *)
(* the test and the wait of start() is lost.  get_next_loop() takes no     *)
(* lock at all; the debug build reads m_next again for the index, the      *)
(* release build (-O2) may use the value it has tested.                    *)
(***************************************************************************)
EXTENDS Integers, Sequences

CONSTANTS
    m_thread_num,  \* threads of the pool
    Callers,       \* threads that call get_next_loop
    NullLoop,      \* null pointer
    WildLoop       \* what lies behind the end of m_loops, when it is not null

ASSUME ThreadNumAssumption == m_thread_num \in Nat \ {0}

ASSUME LoopsAssumption == {NullLoop, WildLoop} \cap (1 .. m_thread_num) = {}

Thread == 1 .. m_thread_num

VARIABLES
    threadAt,    \* thread -> where it is: "none", "set", "notify", "loop"
    m_loop,      \* thread -> event_loop_thread::m_loop, which `new event_loop_thread()`
                 \* sets to zero; a loop has its thread's number
    starterAt,   \* where the thread that called start() is
    m_loops,     \* loops of the pool, in the order of their threads
    m_next,
    at,          \* caller -> where it is in get_next_loop
    index,       \* caller -> its m_next: the value tested, then the index used
    dealt,       \* caller -> loop it was given
    overlapped   \* caller -> another caller was in get_next_loop during its call

startVars == <<threadAt, m_loop, starterAt, m_loops>>
dealVars == <<m_next, at, index, dealt, overlapped>>
poolVars == <<startVars, dealVars>>

\* the thread that start() is at
Starting == Len(m_loops) + 1

PoolTypeOK ==
    /\ threadAt \in [Thread -> {"none", "set", "notify", "loop"}]
    /\ m_loop \in [Thread -> Thread \cup {NullLoop}]
    /\ starterAt \in {"create", "test", "block", "waiting", "done"}
    /\ m_loops \in Seq(Thread \cup {NullLoop}) /\ Len(m_loops) <= m_thread_num
    /\ m_next \in Nat
    /\ at \in [Callers -> {"idle", "test", "reset", "index", "bump", "dealt"}]
    /\ index \in [Callers -> Nat]
    /\ dealt \in [Callers -> Thread \cup {NullLoop, WildLoop}]
    /\ overlapped \in [Callers -> BOOLEAN]

PoolInit ==
    /\ threadAt = [t \in Thread |-> "none"]
    /\ m_loop = [t \in Thread |-> NullLoop]
    /\ starterAt = "create"
    /\ m_loops = <<>>
    /\ m_next = 0
    /\ at = [c \in Callers |-> "idle"]
    /\ index = [c \in Callers |-> 0]
    /\ dealt = [c \in Callers |-> NullLoop]
    /\ overlapped = [c \in Callers |-> FALSE]

------------------------------------------------------------------------------
\* start(), of the pool and of the thread it is at

CreateThread ==
    /\ starterAt = "create"
    /\ threadAt' = [threadAt EXCEPT ![Starting] = "set"]
    /\ starterAt' = "test"
    /\ UNCHANGED <<m_loop, m_loops, dealVars>>

PushLoop ==
    /\ m_loops' = Append(m_loops, m_loop[Starting])
    /\ starterAt' = IF Starting = m_thread_num THEN "done" ELSE "create"

\* while (m_loop == nullptr)
TestLoop ==
    /\ starterAt = "test"
    /\ IF m_loop[Starting] = NullLoop
           THEN starterAt' = "block" /\ UNCHANGED m_loops
           ELSE PushLoop
    /\ UNCHANGED <<threadAt, m_loop, dealVars>>

\* wait() releases the mutex and waits, at once
Block ==
    /\ starterAt = "block"
    /\ starterAt' = "waiting"
    /\ UNCHANGED <<threadAt, m_loop, m_loops, dealVars>>

\* the wait in an if instead of a while
SpuriousReturn ==
    /\ starterAt = "waiting"
    /\ PushLoop
    /\ UNCHANGED <<threadAt, m_loop, dealVars>>

\* a wait may return without a notification
SpuriousWakeup ==
    /\ starterAt = "waiting"
    /\ starterAt' = "test"
    /\ UNCHANGED <<threadAt, m_loop, m_loops, dealVars>>

------------------------------------------------------------------------------
\* thread_func

SetLoop(t) ==
    /\ threadAt[t] = "set"
    /\ m_loop' = [m_loop EXCEPT ![t] = t]
    /\ threadAt' = [threadAt EXCEPT ![t] = "notify"]
    /\ UNCHANGED <<starterAt, m_loops, dealVars>>

\* notify_one wakes start() if it is waiting for this thread; then loop()
Notify(t) ==
    /\ threadAt[t] = "notify"
    /\ threadAt' = [threadAt EXCEPT ![t] = "loop"]
    /\ starterAt' = IF starterAt = "waiting" /\ t = Starting THEN "test" ELSE starterAt
    /\ UNCHANGED <<m_loop, m_loops, dealVars>>

------------------------------------------------------------------------------
\* get_next_loop(), by threads that run once start() has returned

Inside(c) == at[c] \in {"test", "reset", "index", "bump"}

Goes(c, from, to) == at[c] = from /\ at' = [at EXCEPT ![c] = to]

Others(c) == {d \in Callers \ {c} : Inside(d)}

CallNextLoop(c) ==
    /\ starterAt = "done"
    /\ Goes(c, "idle", "test")
    /\ overlapped' = [d \in Callers |-> IF d = c THEN Others(c) # {}
                                         ELSE overlapped[d] \/ d \in Others(c)]
    /\ UNCHANGED <<startVars, m_next, index, dealt>>

TestNext(c) ==
    /\ Goes(c, "test", IF m_next >= m_thread_num THEN "reset" ELSE "index")
    /\ index' = [index EXCEPT ![c] = m_next]
    /\ UNCHANGED <<startVars, m_next, dealt, overlapped>>

ResetNext(c) ==
    /\ Goes(c, "reset", "index")
    /\ m_next' = 0
    /\ index' = [index EXCEPT ![c] = 0]
    /\ UNCHANGED <<startVars, dealt, overlapped>>

\* m_next is read again, or it is still in a register
ReadIndex(c) ==
    /\ Goes(c, "index", "bump")
    /\ \E i \in {index[c], m_next} : index' = [index EXCEPT ![c] = i]
    /\ UNCHANGED <<startVars, m_next, dealt, overlapped>>

\* m_loops[m_next++]: an index that is out of range reads what is there
Deal(c) ==
    /\ Goes(c, "bump", "dealt")
    /\ m_next' = index[c] + 1
    /\ \E l \in IF index[c] < Len(m_loops) THEN {m_loops[index[c] + 1]}
                                           ELSE {NullLoop, WildLoop} :
          dealt' = [dealt EXCEPT ![c] = l]
    /\ UNCHANGED <<startVars, index, overlapped>>

\* the caller has used the loop; what it kept for the call is gone
UseLoop(c) ==
    /\ Goes(c, "dealt", "idle")
    /\ index' = [index EXCEPT ![c] = 0]
    /\ dealt' = [dealt EXCEPT ![c] = NullLoop]
    /\ overlapped' = [overlapped EXCEPT ![c] = FALSE]
    /\ UNCHANGED <<startVars, m_next>>

------------------------------------------------------------------------------
StartStep ==
    \/ CreateThread
    \/ TestLoop
    \/ Block
    \/ \E t \in Thread : SetLoop(t) \/ Notify(t)

NextLoopStep(c) == TestNext(c) \/ ResetNext(c) \/ ReadIndex(c) \/ Deal(c)

PoolNext ==
    \/ StartStep
    \/ SpuriousWakeup
    \/ \E c \in Callers : CallNextLoop(c) \/ NextLoopStep(c) \/ UseLoop(c)

PoolSpec == PoolInit /\ [][PoolNext]_poolVars

------------------------------------------------------------------------------
\* Properties

\* A loop that can be given tasks: its thread has set it up.
Real(l) == l \in Thread /\ threadAt[l] \in {"notify", "loop"}

\* What get_next_loop returns is a loop that exists, unless another call ran during
\* this one.  start() never puts a null loop into the pool (its assertion holds, even
\* when a wait returns without a notification); and calls that overlap, which may
\* leave m_next anywhere behind the end, harm themselves only: the next call that is
\* alone finds its way back.  One caller at a time is what tcp_server guarantees (the
\* main loop alone accepts); lars_reporter does not.
DealsAreReal ==
    /\ \A i \in DOMAIN m_loops : Real(m_loops[i])
    /\ \A c \in Callers : at[c] = "dealt" /\ ~overlapped[c] => Real(dealt[c])

==============================================================================
