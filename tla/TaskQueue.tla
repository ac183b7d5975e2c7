------------------------------ MODULE TaskQueue ------------------------------
(***************************************************************************)
(* task_queue and the part of event_loop that drives it: any thread hands  *)
(* a task to the loop with add(), the loop's thread sleeps in epoll_wait,  *)
(* is woken by the eventfd, drains it and runs what the queue holds.       *)
(*                                                                         *)
(* Both critical sections (task_queue.cc:40-41 and :59-60) hold exactly    *)
(* one operation on m_queue, so each is one step here; the eventfd is read *)
(* and written outside them, and those are steps of their own.             *)
(***************************************************************************)
EXTENDS Naturals, Sequences

CONSTANTS
    Producers,  \* threads that post to the loop
    Loop,       \* the loop's own thread, which may post to itself
    MaxPosts    \* bound: calls of add() by one thread

ASSUME ThreadsAssumption == Loop \notin Producers

ASSUME MaxPostsAssumption == MaxPosts \in Nat

Threads == Producers \cup {Loop}

\* the n-th task a thread posts
Task == Threads \X (1 .. MaxPosts)

VARIABLES
    m_queue,   \* task_queue::m_queue
    m_efd,     \* counter of the eventfd
    adding,    \* thread -> where it is in add(): "no", "push", "write"
    posts,     \* thread -> calls of add() it made
    loopAt,    \* where the loop's thread is
    tasks,     \* the local queue of deal_task
    executed   \* tasks started so far, in order

vars == <<m_queue, m_efd, adding, posts, loopAt, tasks, executed>>

addVars == <<adding, posts>>

\* "wait": in epoll_wait;  "read": the eventfd is reported readable;
\* "swap": eventfd drained;  "run": loop of deal_task;
\* "callback": in a task, or in the callback of another descriptor
LoopPlaces == {"wait", "read", "swap", "run", "callback"}

TypeOK ==
    /\ m_queue \in Seq(Task)
    /\ m_efd \in Nat
    /\ adding \in [Threads -> {"no", "push", "write"}]
    /\ posts \in [Threads -> 0 .. MaxPosts]
    /\ loopAt \in LoopPlaces
    /\ tasks \in Seq(Task)
    /\ executed \in Seq(Task)

Init ==
    /\ m_queue = <<>>
    /\ m_efd = 0
    /\ adding = [t \in Threads |-> "no"]
    /\ posts = [t \in Threads |-> 0]
    /\ loopAt = "wait"
    /\ tasks = <<>>
    /\ executed = <<>>

------------------------------------------------------------------------------
\* task_queue::add, by any thread; the loop's own thread is in a callback

AddCall(t) ==
    /\ adding[t] = "no"
    /\ t = Loop => loopAt = "callback"
    /\ posts[t] < MaxPosts
    /\ adding' = [adding EXCEPT ![t] = "push"]
    /\ posts' = [posts EXCEPT ![t] = @ + 1]
    /\ UNCHANGED <<m_queue, m_efd, loopAt, tasks, executed>>

\* a queue of references: the caller has reused the task by the time it is read
AddPushReference(t) ==
    /\ adding[t] = "push"
    /\ m_queue' = Append(m_queue, <<t, posts[t] + 1>>)
    /\ adding' = [adding EXCEPT ![t] = "write"]
    /\ UNCHANGED <<m_efd, posts, loopAt, tasks, executed>>

AddPush(t) ==
    /\ adding[t] = "push"
    /\ m_queue' = Append(m_queue, <<t, posts[t]>>)
    /\ adding' = [adding EXCEPT ![t] = "write"]
    /\ UNCHANGED <<m_efd, posts, loopAt, tasks, executed>>

\* a plausible saving: notify only for the first task of the queue
AddWriteIfFirst(t) ==
    /\ adding[t] = "write"
    /\ m_efd' = IF Len(m_queue) = 1 THEN m_efd + 1 ELSE m_efd
    /\ adding' = [adding EXCEPT ![t] = "no"]
    /\ UNCHANGED <<m_queue, posts, loopAt, tasks, executed>>

\* the batching that the FIXME at task_queue.cc:44 proposes
AddWriteBatched(t) ==
    /\ adding[t] = "write"
    /\ m_efd' = IF Len(m_queue) >= 2 THEN m_efd + 1 ELSE m_efd
    /\ adding' = [adding EXCEPT ![t] = "no"]
    /\ UNCHANGED <<m_queue, posts, loopAt, tasks, executed>>

AddWrite(t) ==
    /\ adding[t] = "write"
    /\ m_efd' = m_efd + 1
    /\ adding' = [adding EXCEPT ![t] = "no"]
    /\ UNCHANGED <<m_queue, posts, loopAt, tasks, executed>>

------------------------------------------------------------------------------
\* the loop's thread

\* epoll_wait reports another descriptor; its callback runs
OtherEvent ==
    /\ loopAt = "wait"
    /\ loopAt' = "callback"
    /\ UNCHANGED <<m_queue, m_efd, addVars, tasks, executed>>

\* epoll_wait reports the eventfd (level-triggered)
Wake ==
    /\ loopAt = "wait"
    /\ m_efd > 0
    /\ loopAt' = "read"
    /\ UNCHANGED <<m_queue, m_efd, addVars, tasks, executed>>

\* get(): the read empties the counter
Read ==
    /\ loopAt = "read"
    /\ m_efd' = 0
    /\ loopAt' = "swap"
    /\ UNCHANGED <<m_queue, addVars, tasks, executed>>

\* get() that copies the queue and leaves it as it was
CopyQueue ==
    /\ loopAt = "swap"
    /\ tasks' = m_queue
    /\ loopAt' = "run"
    /\ UNCHANGED <<m_queue, m_efd, addVars, executed>>

\* get(): std::swap under the lock, with deal_task's empty local queue
Swap ==
    /\ loopAt = "swap"
    /\ tasks' = m_queue
    /\ m_queue' = tasks
    /\ loopAt' = "run"
    /\ UNCHANGED <<m_efd, addVars, executed>>

RunTask ==
    /\ loopAt = "run"
    /\ tasks # <<>>
    /\ executed' = Append(executed, Head(tasks))
    /\ tasks' = Tail(tasks)
    /\ loopAt' = "callback"
    /\ UNCHANGED <<m_queue, m_efd, addVars>>

\* a callback returns once the add() calls it made have returned
CallbackReturns ==
    /\ loopAt = "callback"
    /\ adding[Loop] = "no"
    /\ loopAt' = "run"
    /\ UNCHANGED <<m_queue, m_efd, addVars, tasks, executed>>

\* deal_task finds its local queue empty: back to epoll_wait
BackToWait ==
    /\ loopAt = "run"
    /\ tasks = <<>>
    /\ loopAt' = "wait"
    /\ UNCHANGED <<m_queue, m_efd, addVars, tasks, executed>>

------------------------------------------------------------------------------
Add(t) == AddPush(t) \/ AddWrite(t)

LoopStep ==
    Wake \/ Read \/ Swap \/ RunTask \/ CallbackReturns \/ BackToWait

Next ==
    \/ \E t \in Threads : AddCall(t) \/ AddPush(t) \/ AddWrite(t)
    \/ OtherEvent
    \/ LoopStep

\* A thread inside add() is scheduled until it returns, and the loop's thread
\* is scheduled and its callbacks terminate.  Nobody is made to call add().
\* Wake is fair on its own: other descriptors may be ready again and again, but
\* epoll_wait reports a ready descriptor in turn (the kernel rotates its ready
\* list), so the eventfd is reported in the end.
Fairness ==
    /\ \A t \in Threads : WF_vars(Add(t))
    /\ WF_vars(LoopStep)
    /\ SF_vars(Wake)

Spec == Init /\ [][Next]_vars

FairSpec == Spec /\ Fairness

------------------------------------------------------------------------------
\* Properties

\* Whenever the queue holds a task, the loop will be woken for it: the eventfd
\* is readable, or a thread that has pushed is still to write it, or the loop
\* has drained the eventfd and has not yet taken the queue (get() reads the
\* eventfd before it takes the queue; add() writes it after it has pushed).
\* epoll_wait's timeout does not look at the queue, so a lost wake-up is final.
NoLostWakeup ==
    (m_queue # <<>> /\ loopAt # "swap") =>
        \/ m_efd > 0
        \/ \E t \in Threads : adding[t] = "write"

\* deal_task's local queue is empty whenever it is not being run, so std::swap
\* never puts tasks of an earlier round back into m_queue.
BatchIsOver == loopAt \in {"wait", "read", "swap"} => tasks = <<>>

Channel == INSTANCE TaskChannel
              WITH pending <- tasks \o m_queue, done <- executed

\* The queue is a first-in first-out channel that runs every task exactly once:
\* what is still to run is deal_task's local queue followed by m_queue.
IsChannel == Channel!SafeSpec

\* Every task for which add() was called is run in the end.
EveryTaskRuns ==
    \A t \in Threads : \A n \in 1 .. MaxPosts :
        (posts[t] >= n) ~>
            (\E i \in DOMAIN executed : executed[i] = <<t, n>>)

==============================================================================
