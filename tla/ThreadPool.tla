----------------------------- MODULE ThreadPool -----------------------------
(***************************************************************************)
(* The POSIX thread pool of liblz4/threadpool.c.  Each pool has a bounded  *)
(* FIFO of jobs, a mutex, and two condition variables: queuePopCond, where *)
(* the pool's own threads wait for work, and queuePushCond, which is       *)
(* shared by the threads that wait for room in TPool_submitJob and by the  *)
(* one that waits in TPool_jobsCompleted.                                  *)
(*                                                                         *)
(* A critical section of the mutex is one action, and the signal it sends  *)
(* is part of it.  A waiter that is woken keeps its pc and runs the same   *)
(* action again: the `while` around pthread_cond_wait.  The component that *)
(* uses the pool supplies the jobs and what a running job does.            *)
(***************************************************************************)
EXTENDS Naturals, Sequences, FiniteSets

CONSTANTS
    Pools,      \* the pools
    Members,    \* Members[p]: the threads TPool_create started for pool p
    Capacity,   \* Capacity[p]: the queueSize argument of TPool_create
    NoJob       \* the job of a thread that runs none

VARIABLES
    queue,      \* queue[p]: the ring buffer between queueHead and queueTail
    busy,       \* busy[p]: numThreadsBusy
    shutdown,   \* shutdown[p]
    popWait,    \* popWait[p]: the threads waiting on queuePopCond
    pushWait,   \* pushWait[p]: the threads waiting on queuePushCond
    pc,         \* where each thread is, the main thread included
    job         \* the job each pool thread runs

PoolThreads == UNION {Members[p] : p \in Pools}

PoolInit ==
    /\ queue = [p \in Pools |-> <<>>]
    /\ busy = [p \in Pools |-> 0]
    /\ shutdown = [p \in Pools |-> FALSE]
    /\ popWait = [p \in Pools |-> {}]
    /\ pushWait = [p \in Pools |-> {}]
    /\ job = [t \in PoolThreads |-> NoJob]

\* pthread_cond_signal: one arbitrary waiter goes on; without one it is lost.
Signalled(waiters, p) ==
    IF waiters[p] = {} THEN {waiters}
    ELSE {[waiters EXCEPT ![p] = @ \ {t}] : t \in waiters[p]}

\* The condition a thread of the pool waits on: nothing to do.
NoWork(p) == queue[p] = <<>> \/ busy[p] >= Cardinality(Members[p])

IsQueueFull(p) == Len(queue[p]) = Capacity[p]

AtFetch(t, p) == t \in Members[p] /\ pc[t] = "fetch" /\ t \notin popWait[p]

SleepForWork(t, p) ==
    /\ AtFetch(t, p) /\ NoWork(p) /\ ~shutdown[p]
    /\ popWait' = [popWait EXCEPT ![p] = @ \cup {t}]
    /\ UNCHANGED <<queue, busy, shutdown, pushWait, pc, job>>

PopJob(t, p) ==
    /\ AtFetch(t, p) /\ ~NoWork(p)
    /\ job' = [job EXCEPT ![t] = Head(queue[p])]
    /\ queue' = [queue EXCEPT ![p] = Tail(@)]
    /\ busy' = [busy EXCEPT ![p] = @ + 1]
    /\ pushWait' \in Signalled(pushWait, p)
    /\ pc' = [pc EXCEPT ![t] = "run"]
    /\ UNCHANGED <<shutdown, popWait>>

\* Fault: the end of a job wakes nobody.
FinishJobSilently(t, p) ==
    /\ t \in Members[p] /\ pc[t] = "finish"
    /\ job' = [job EXCEPT ![t] = NoJob]
    /\ busy' = [busy EXCEPT ![p] = @ - 1]
    /\ pc' = [pc EXCEPT ![t] = "fetch"]
    /\ UNCHANGED <<queue, shutdown, popWait, pushWait>>

\* The job has returned.
FinishJob(t, p) ==
    /\ t \in Members[p] /\ pc[t] = "finish"
    /\ job' = [job EXCEPT ![t] = NoJob]
    /\ busy' = [busy EXCEPT ![p] = @ - 1]
    /\ pushWait' \in Signalled(pushWait, p)
    /\ pc' = [pc EXCEPT ![t] = "fetch"]
    /\ UNCHANGED <<queue, shutdown, popWait>>

ExitThread(t, p) ==
    /\ AtFetch(t, p) /\ NoWork(p) /\ shutdown[p]
    /\ pc' = [pc EXCEPT ![t] = "exited"]
    /\ UNCHANGED <<queue, busy, shutdown, popWait, pushWait, job>>

\* What a thread of the pool does outside its jobs: TPool_thread.
PoolThread(t) ==
    \E p \in Pools :
        SleepForWork(t, p) \/ PopJob(t, p) \/ FinishJob(t, p) \/ ExitThread(t, p)

\* Fault: a submission wakes no thread of the pool.
SubmitJobSilently(t, p, j, next) ==
    /\ t \notin pushWait[p]
    /\ IF IsQueueFull(p) /\ ~shutdown[p]
         THEN /\ pushWait' = [pushWait EXCEPT ![p] = @ \cup {t}]
              /\ UNCHANGED <<queue, pc>>
         ELSE /\ pc' = [pc EXCEPT ![t] = next]
              /\ queue' = [queue EXCEPT ![p] = Append(@, j)]
              /\ UNCHANGED pushWait
    /\ UNCHANGED <<busy, shutdown, popWait, job>>

\* TPool_submitJob by thread t, which goes on at pc `next`.
SubmitJob(t, p, j, next) ==
    /\ t \notin pushWait[p]
    /\ IF IsQueueFull(p) /\ ~shutdown[p]
         THEN /\ pushWait' = [pushWait EXCEPT ![p] = @ \cup {t}]
              /\ UNCHANGED <<queue, popWait, pc>>
         ELSE /\ pc' = [pc EXCEPT ![t] = next]
              /\ UNCHANGED pushWait
              /\ IF shutdown[p]
                   THEN UNCHANGED <<queue, popWait>>
                   ELSE /\ queue' = [queue EXCEPT ![p] = Append(@, j)]
                        /\ popWait' \in Signalled(popWait, p)
    /\ UNCHANGED <<busy, shutdown, job>>

\* Fault: an empty queue is taken for the end of all jobs.
JobsCompletedWhenEmpty(t, p, next) ==
    /\ t \notin pushWait[p]
    /\ IF queue[p] # <<>>
         THEN pushWait' = [pushWait EXCEPT ![p] = @ \cup {t}] /\ UNCHANGED pc
         ELSE pc' = [pc EXCEPT ![t] = next] /\ UNCHANGED pushWait
    /\ UNCHANGED <<queue, busy, shutdown, popWait, job>>

\* TPool_jobsCompleted by thread t.
JobsCompleted(t, p, next) ==
    /\ t \notin pushWait[p]
    /\ IF queue[p] # <<>> \/ busy[p] > 0
         THEN pushWait' = [pushWait EXCEPT ![p] = @ \cup {t}] /\ UNCHANGED pc
         ELSE pc' = [pc EXCEPT ![t] = next] /\ UNCHANGED pushWait
    /\ UNCHANGED <<queue, busy, shutdown, popWait, job>>

\* TPool_shutdown up to the joins.  A thread that takes the mutex between the
\* flag and the broadcasts sees the flag, so the three are one step.
Shutdown(t, p, next) ==
    /\ shutdown' = [shutdown EXCEPT ![p] = TRUE]
    /\ popWait' = [popWait EXCEPT ![p] = {}]
    /\ pushWait' = [pushWait EXCEPT ![p] = {}]
    /\ pc' = [pc EXCEPT ![t] = next]
    /\ UNCHANGED <<queue, busy, job>>

\* The joins of TPool_shutdown; then the pool is freed.
Join(t, p, next) ==
    /\ \A m \in Members[p] : pc[m] = "exited"
    /\ pc' = [pc EXCEPT ![t] = next]
    /\ UNCHANGED <<queue, busy, shutdown, popWait, pushWait, job>>

\* POSIX lets pthread_cond_wait return without a signal.
SpuriousWakeup(p) ==
    /\ \/ \E t \in popWait[p] :
            /\ popWait' = [popWait EXCEPT ![p] = @ \ {t}]
            /\ UNCHANGED pushWait
       \/ \E t \in pushWait[p] :
            /\ pushWait' = [pushWait EXCEPT ![p] = @ \ {t}]
            /\ UNCHANGED popWait
    /\ UNCHANGED <<queue, busy, shutdown, pc, job>>

\* Pool p has no job, neither queued nor running.
Idle(p) == queue[p] = <<>> /\ \A t \in Members[p] : job[t] = NoJob
=============================================================================
