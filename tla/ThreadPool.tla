----------------------------- MODULE ThreadPool -----------------------------
(***************************************************************************)
(* httplib::ThreadPool, the task queue of the server's accept loop.  The   *)
(* thread that owns the pool constructs it, enqueues jobs and shuts it     *)
(* down; base threads live as long as the pool, dynamic ones are spawned   *)
(* when a job finds no thread idle and leave after a time without work.    *)
(*                                                                         *)
(* What the code does with mutex_ held is one step, except that enqueue    *)
(* may wait in there for threads that have left: MutexFree says when the   *)
(* others can take it.  A std::thread object that was joined is dropped    *)
(* from the sets, so the sets are the joinable ones.                       *)
(***************************************************************************)
EXTENDS Naturals, Sequences, FiniteSets

CONSTANTS
  Job,          \* what can be enqueued
  NoJob,        \* what a thread without a job runs
  BaseThreads,  \* base_thread_count_
  MaxThreads,   \* max_thread_count_
  MaxFailures   \* bound: thread creations that fail

(* Thread ids: one more than the pool may need.                            *)
Thread == 1 .. MaxThreads + 1

ASSUME ThreadPoolAssumption ==
  /\ NoJob \notin Job
  /\ BaseThreads \in Nat \ {0} /\ MaxThreads \in Nat
  /\ BaseThreads <= MaxThreads
  /\ MaxFailures \in Nat

VARIABLES
  threads,    \* threads_
  dynamic,    \* dynamic_threads_
  finished,   \* finished_threads_
  remaining,  \* shutdown's remaining_dynamic
  jobs,       \* jobs_
  idle,       \* idle_thread_count_
  shutdown,   \* shutdown_
  at,         \* where each thread is
  woken,      \* the threads that wait on cond_ and have been notified
  job,        \* fn, the job each thread runs
  owner,      \* where the owner is
  failures    \* counts against MaxFailures

poolVars == <<threads, dynamic, finished, remaining, jobs, idle, shutdown, at, woken, job,
              owner, failures>>

In(place)  == { t \in Thread : at[t] = place }
MutexFree  == owner # "cleaning"
Joinable   == threads \cup dynamic \cup finished \cup remaining
Move(t, place)   == at' = [at EXCEPT ![t] = place]
Vanish(ts)       == at' = [t \in Thread |-> IF t \in ts THEN "none" ELSE at[t]]
Sleepers         == In("waiting") \ woken

(* The predicate of both waits.                                            *)
Ready == jobs # <<>> \/ shutdown

PoolInit ==
  /\ threads = {} /\ dynamic = {} /\ finished = {} /\ remaining = {}
  /\ jobs = <<>> /\ idle = 0 /\ shutdown = FALSE
  /\ at = [t \in Thread |-> "none"]
  /\ woken = {}
  /\ job = [t \in Thread |-> NoJob]
  /\ owner = "constructing"
  /\ failures = 0

-----------------------------------------------------------------------------
(* Faulty variants of steps below, to show that the properties can fail.   *)
(* They are no part of PoolNext.                                           *)

(* Nobody is notified of a job while a thread spawned for it is on its way. *)
NotifyUnlessStarting ==
  /\ owner = "notifying"
  /\ woken' \in IF Sleepers = {} \/ In("top") # {} THEN {woken}
                ELSE { woken \cup {t} : t \in Sleepers }
  /\ owner' = "serving"
  /\ UNCHANGED <<threads, dynamic, finished, remaining, jobs, idle, shutdown, at, job, failures>>

(* The finished threads are left for shutdown to join.                     *)
SpawnUncleaned ==
  /\ owner = "cleaning"
  /\ \E t \in In("none") :
       /\ \A u \in In("none") : t <= u
       /\ dynamic' = dynamic \cup {t}
       /\ Move(t, "top")
  /\ owner' = "notifying"
  /\ UNCHANGED <<threads, finished, remaining, jobs, idle, shutdown, woken, job, failures>>

(* A worker leaves on shutdown_ though there are jobs.                     *)
TakeUnlessShutdown(t) ==
  /\ at[t] \in {"top", "waiting"} /\ MutexFree /\ Ready
  /\ idle' = IF at[t] = "waiting" THEN idle - 1 ELSE idle
  /\ woken' = woken \ {t}
  /\ IF shutdown
     THEN Move(t, "leaving") /\ UNCHANGED <<jobs, job>>
     ELSE /\ Move(t, "running")
          /\ job' = [job EXCEPT ![t] = Head(jobs)]
          /\ jobs' = Tail(jobs)
  /\ UNCHANGED <<threads, dynamic, finished, remaining, shutdown, owner, failures>>

(* The shutdown notifies one thread.                                       *)
NotifyAllOne ==
  /\ owner \in {"failing", "stopping"}
  /\ woken' \in IF Sleepers = {} THEN {woken} ELSE { woken \cup {t} : t \in Sleepers }
  /\ owner' = IF owner = "failing" THEN "joining failed" ELSE "joining"
  /\ UNCHANGED <<threads, dynamic, finished, remaining, jobs, idle, shutdown, at, job, failures>>

(* Taking a job counts as waking up.                                       *)
TakeUncounted(t) ==
  /\ at[t] \in {"top", "waiting"} /\ MutexFree /\ Ready
  /\ idle' = idle - 1
  /\ woken' = woken \ {t}
  /\ \/ /\ jobs # <<>>
        /\ Move(t, "running")
        /\ job' = [job EXCEPT ![t] = Head(jobs)]
        /\ jobs' = Tail(jobs)
     \/ /\ jobs = <<>>
        /\ Move(t, "leaving")
        /\ UNCHANGED <<jobs, job>>
  /\ UNCHANGED <<threads, dynamic, finished, remaining, shutdown, owner, failures>>

-----------------------------------------------------------------------------
(* A new thread has the smallest id that is free: ids are only names.      *)
NewThread(t) == at[t] = "none" /\ \A u \in In("none") : t <= u

(* The constructor.                                                        *)
SpawnBase ==
  /\ owner = "constructing" /\ Cardinality(threads) < BaseThreads
  /\ \E t \in Thread : NewThread(t) /\ threads' = threads \cup {t} /\ Move(t, "top")
  /\ UNCHANGED <<dynamic, finished, remaining, jobs, idle, shutdown, woken, job, owner, failures>>

SpawnBaseFails ==
  /\ owner = "constructing" /\ Cardinality(threads) < BaseThreads
  /\ failures < MaxFailures /\ failures' = failures + 1
  /\ shutdown' = TRUE
  /\ owner' = "failing"
  /\ UNCHANGED <<threads, dynamic, finished, remaining, jobs, idle, at, woken, job>>

Constructed ==
  /\ owner = "constructing" /\ Cardinality(threads) = BaseThreads
  /\ owner' = "serving"
  /\ UNCHANGED <<threads, dynamic, finished, remaining, jobs, idle, shutdown, at, woken, job,
                 failures>>

(* enqueue.  Neither of its refusals can come: the thread that calls it is *)
(* the one that calls shutdown, and max_queued_requests_ is 0.             *)
Enqueue(j) ==
  /\ owner = "serving" /\ ~shutdown
  /\ jobs' = Append(jobs, j)
  /\ owner' = IF idle = 0 /\ Cardinality(threads \cup dynamic) < MaxThreads
              THEN "cleaning" ELSE "notifying"
  /\ UNCHANGED <<threads, dynamic, finished, remaining, idle, shutdown, at, woken, job, failures>>

(* cleanup_finished_threads, and the new thread.                           *)
SpawnDynamic ==
  /\ owner = "cleaning" /\ finished \subseteq In("ended")
  /\ finished' = {}
  /\ \E t \in Thread :
       /\ NewThread(t)
       /\ dynamic' = dynamic \cup {t}
       /\ at' = [u \in Thread |-> IF u = t THEN "top" ELSE IF u \in finished THEN "none" ELSE at[u]]
  /\ owner' = "notifying"
  /\ UNCHANGED <<threads, remaining, jobs, idle, shutdown, woken, job, failures>>

(* The thread cannot be created: the exception takes the pool down with    *)
(* joinable threads in it, and std::terminate the process.                 *)
SpawnDynamicFails ==
  /\ owner = "cleaning" /\ finished \subseteq In("ended")
  /\ failures < MaxFailures /\ failures' = failures + 1
  /\ owner' = "terminated"
  /\ threads' = {} /\ dynamic' = {} /\ finished' = {} /\ remaining' = {}
  /\ jobs' = <<>> /\ idle' = 0 /\ shutdown' = FALSE
  /\ Vanish(Thread)
  /\ woken' = {}
  /\ job' = [t \in Thread |-> NoJob]

Notify ==
  /\ owner = "notifying"
  /\ woken' \in IF Sleepers = {} THEN {woken} ELSE { woken \cup {t} : t \in Sleepers }
  /\ owner' = "serving"
  /\ UNCHANGED <<threads, dynamic, finished, remaining, jobs, idle, shutdown, at, job, failures>>

(* shutdown, which the constructor's catch block does in part.             *)
Shutdown ==
  /\ owner = "serving"
  /\ shutdown' = TRUE
  /\ owner' = "stopping"
  /\ UNCHANGED <<threads, dynamic, finished, remaining, jobs, idle, at, woken, job, failures>>

NotifyAll ==
  /\ owner \in {"failing", "stopping"}
  /\ woken' = In("waiting")
  /\ owner' = IF owner = "failing" THEN "joining failed" ELSE "joining"
  /\ UNCHANGED <<threads, dynamic, finished, remaining, jobs, idle, shutdown, at, job, failures>>

JoinBase ==
  /\ owner \in {"joining failed", "joining"} /\ threads \subseteq In("ended")
  /\ Vanish(threads)
  /\ threads' = {}
  /\ owner' = IF owner = "joining" THEN "taking" ELSE "failed"
  /\ UNCHANGED <<dynamic, finished, remaining, jobs, idle, shutdown, woken, job, failures>>

TakeDynamic ==
  /\ owner = "taking"
  /\ remaining' = dynamic /\ dynamic' = {}
  /\ owner' = "joining rest"
  /\ UNCHANGED <<threads, finished, jobs, idle, shutdown, at, woken, job, failures>>

JoinRest ==
  /\ owner = "joining rest" /\ remaining \cup finished \subseteq In("ended")
  /\ Vanish(remaining \cup finished)
  /\ remaining' = {} /\ finished' = {}
  /\ owner' = "down"
  /\ UNCHANGED <<threads, dynamic, jobs, idle, shutdown, woken, job, failures>>

-----------------------------------------------------------------------------
(* worker: the top of its loop, where idle_thread_count_ goes up, ...      *)
Sleep(t) ==
  /\ at[t] = "top" /\ MutexFree /\ ~Ready
  /\ idle' = idle + 1
  /\ Move(t, "waiting")
  /\ UNCHANGED <<threads, dynamic, finished, remaining, jobs, shutdown, woken, job, owner, failures>>

(* ... and past the wait, at once or after a wakeup, which may be spurious.*)
Take(t) ==
  /\ at[t] \in {"top", "waiting"} /\ MutexFree /\ Ready
  /\ idle' = IF at[t] = "waiting" THEN idle - 1 ELSE idle
  /\ woken' = woken \ {t}
  /\ \/ /\ jobs # <<>>
        /\ Move(t, "running")
        /\ job' = [job EXCEPT ![t] = Head(jobs)]
        /\ jobs' = Tail(jobs)
     \/ /\ jobs = <<>>
        /\ Move(t, "leaving")
        /\ UNCHANGED <<jobs, job>>
  /\ UNCHANGED <<threads, dynamic, finished, remaining, shutdown, owner, failures>>

(* Another thread has taken the job of the notification.                   *)
WaitAgain(t) ==
  /\ t \in woken /\ MutexFree /\ ~Ready
  /\ woken' = woken \ {t}
  /\ UNCHANGED <<threads, dynamic, finished, remaining, jobs, idle, shutdown, at, job, owner,
                 failures>>

(* wait_for of a dynamic thread ends: move_to_finished.                    *)
TimeOut(t) ==
  /\ at[t] = "waiting" /\ MutexFree /\ ~Ready /\ t \notin threads
  /\ idle' = idle - 1
  /\ finished' = finished \cup ({t} \cap dynamic)
  /\ dynamic' = dynamic \ {t}
  /\ woken' = woken \ {t}
  /\ Move(t, "leaving")
  /\ UNCHANGED <<threads, remaining, jobs, shutdown, job, owner, failures>>

(* fn() returns.                                                           *)
Return(t) ==
  /\ at[t] = "running"
  /\ Move(t, "top")
  /\ job' = [job EXCEPT ![t] = NoJob]
  /\ UNCHANGED <<threads, dynamic, finished, remaining, jobs, idle, shutdown, woken, owner, failures>>

(* The thread has left the loop and ends.                                  *)
End(t) ==
  /\ at[t] = "leaving"
  /\ Move(t, "ended")
  /\ UNCHANGED <<threads, dynamic, finished, remaining, jobs, idle, shutdown, woken, job, owner,
                 failures>>

OwnerStep ==
  \/ SpawnBase \/ Constructed \/ SpawnDynamic \/ Notify
  \/ NotifyAll \/ JoinBase \/ TakeDynamic \/ JoinRest
SpawnFailure == SpawnBaseFails \/ SpawnDynamicFails
WorkerStep(t) == Sleep(t) \/ Take(t) \/ WaitAgain(t) \/ TimeOut(t) \/ End(t)

(* The steps a thread takes by itself: a waiting one needs a notification. *)
OwnStep(t) ==
  \/ Sleep(t) \/ WaitAgain(t) \/ End(t)
  \/ (at[t] = "top" \/ t \in woken) /\ Take(t)

-----------------------------------------------------------------------------
(***************************************************************************)
(* Properties.                                                             *)
(***************************************************************************)

(* The type of every variable.                                             *)
PoolTypeOK ==
  /\ threads \subseteq Thread /\ dynamic \subseteq Thread
  /\ finished \subseteq Thread /\ remaining \subseteq Thread
  /\ jobs \in Seq(Job)
  /\ idle \in 0 .. Cardinality(Thread)
  /\ shutdown \in BOOLEAN
  /\ at \in [Thread -> {"none", "top", "waiting", "running", "leaving", "ended"}]
  /\ woken \subseteq Thread
  /\ job \in [Thread -> Job \cup {NoJob}]
  /\ owner \in {"constructing", "failing", "joining failed", "failed", "serving", "cleaning",
                "notifying", "stopping", "joining", "taking", "joining rest", "down",
                "terminated"}
  /\ failures \in 0 .. MaxFailures

(***************************************************************************)
(* No job is left to a thread that sleeps: while one does, there are as    *)
(* many threads on their way to the queue (or about to be notified) as     *)
(* there are jobs in it.  notify_one may choose a thread that times out,   *)
(* another may have taken the job before the notified one comes, and the   *)
(* owner notifies after it has released the mutex.                         *)
(***************************************************************************)
NoStrandedJob ==
  Sleepers # {} =>
    Len(jobs) <= Cardinality(woken \cup In("top"))
                 + (IF owner \in {"cleaning", "notifying"} THEN 1 ELSE 0)

(***************************************************************************)
(* There are never more unjoined threads than max_thread_count_, those     *)
(* that have left and wait to be joined included, and every thread that    *)
(* runs is in one of the lists that shutdown joins.                        *)
(***************************************************************************)
ThreadsBounded ==
  /\ Cardinality(Joinable) <= MaxThreads
  /\ Joinable = Thread \ In("none")

(***************************************************************************)
(* shutdown returns when every job that was accepted has been run and every*)
(* thread has been joined; so does a constructor that fails half-way.      *)
(***************************************************************************)
Drained ==
  owner \in {"down", "failed"} => jobs = <<>> /\ Joinable = {} /\ In("none") = Thread
=============================================================================
