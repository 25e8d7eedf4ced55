-------------------------- MODULE HttpServerProofs --------------------------
(***************************************************************************)
(* What TLAPS proves of HttpServer and of the ThreadPool in it, for any    *)
(* numbers of base and of dynamic threads, connections, requests and       *)
(* descriptors: first lemmas about every step of the pool, then the server *)
(* that takes these steps.                                                 *)
(***************************************************************************)
EXTENDS HttpServer, FiniteSetTheorems, TLAPS

(* Every step that changes a variable of the pool, whoever takes it.       *)
PoolStep ==
  \/ \E j \in Job : Enqueue(j)
  \/ Shutdown \/ OwnerStep \/ SpawnFailure
  \/ \E t \in Thread : WorkerStep(t) \/ Return(t)

-----------------------------------------------------------------------------
(* There are finitely many threads, so sets of them can be counted.        *)
LEMMA ThreadsFinite ==
  ASSUME NEW S \in SUBSET Thread
  PROVE  IsFiniteSet(S) /\ Cardinality(S) \in Nat
<1>1. MaxThreads + 1 \in Int
  BY ThreadPoolAssumption
<1>2. IsFiniteSet(Thread)
  BY <1>1, FS_Interval DEF Thread
<1>3. QED
  BY <1>2, FS_Subset, FS_CardinalityType

(* A queue without jobs.                                                   *)
LEMMA EmptyQueue == <<>> \in Seq(Job) /\ Len(<<>>) = 0
OBVIOUS

(* What is left when the first job is taken from the queue.                *)
LEMMA QueueTaken ==
  ASSUME NEW q \in Seq(Job), q # <<>>
  PROVE  /\ Head(q) \in Job /\ Tail(q) \in Seq(Job)
         /\ Len(q) \in Nat \ {0} /\ Len(Tail(q)) = Len(q) - 1
         /\ Head(q) = q[1] /\ \A i \in 1 .. Len(q) - 1 : Tail(q)[i] = q[i + 1]
OBVIOUS

(* Counting threads: one comes to a set,                                   *)
LEMMA OneThreadMore ==
  ASSUME NEW S \in SUBSET Thread, NEW t \in Thread, t \notin S
  PROVE  Cardinality(S \cup {t}) = Cardinality(S) + 1
BY ThreadsFinite, FS_AddElement

(* one leaves it,                                                          *)
LEMMA OneThreadLess ==
  ASSUME NEW S \in SUBSET Thread, NEW t \in S
  PROVE  Cardinality(S \ {t}) = Cardinality(S) - 1
BY ThreadsFinite, FS_RemoveElement

(* and a part of a set has no more than the whole.                         *)
LEMMA FewerThreads ==
  ASSUME NEW S \in SUBSET Thread, NEW T \in SUBSET S
  PROVE  Cardinality(T) <= Cardinality(S)
BY ThreadsFinite, FS_Subset

-----------------------------------------------------------------------------
(***************************************************************************)
(* The invariant of the pool, in its parts.                                *)
(***************************************************************************)

(* idle_thread_count_ counts the threads that wait.                        *)
IdleCounted == idle = Cardinality(In("waiting"))

(* A thread runs a job exactly if it is running.                           *)
RunsJob == \A t \in Thread : at[t] = "running" <=> job[t] # NoJob

(* Every thread is in one of the lists, and in one only.                   *)
Listed ==
  /\ Joinable = Thread \ In("none")
  /\ threads \cap dynamic = {} /\ threads \cap finished = {} /\ threads \cap remaining = {}
  /\ dynamic \cap finished = {} /\ dynamic \cap remaining = {} /\ finished \cap remaining = {}

(* What the owner's place says of shutdown_ and of the lists.              *)
Serving_ == {"serving", "cleaning", "notifying"}
Failing  == {"failing", "joining failed", "failed"}
Down     == {"taking", "joining rest", "down"}

Phases ==
  /\ shutdown <=> owner \in Failing \cup {"stopping", "joining"} \cup Down
  /\ owner \in Failing \cup {"constructing"} => dynamic \cup finished = {} /\ jobs = <<>>
  /\ owner \in Down => threads = {} /\ jobs = <<>>
  /\ owner \in {"joining rest", "down"} => dynamic = {}
  /\ owner \in {"failed", "down", "terminated"} => Joinable = {}
  /\ owner = "terminated" => jobs = <<>>
  /\ owner # "joining rest" => remaining = {}
  /\ owner \in Serving_ \cup {"stopping", "joining"} => threads # {}
  /\ owner = "cleaning" => Cardinality(threads \cup dynamic) < MaxThreads

(* A base thread leaves its loop only when the pool shuts down and no job  *)
(* is left.                                                                *)
LeftLast == \A t \in threads : at[t] \in {"leaving", "ended"} => shutdown /\ jobs = <<>>

Bounded == Cardinality(Joinable) <= MaxThreads

PoolInv ==
  /\ PoolTypeOK /\ IdleCounted /\ RunsJob /\ Listed /\ Phases /\ LeftLast
  /\ Bounded /\ NoStrandedJob

-----------------------------------------------------------------------------
(* The pool begins in the invariant.                                       *)
LEMMA PoolInvInit == PoolInit => PoolInv
<1> SUFFICES ASSUME PoolInit PROVE PoolInv
  OBVIOUS
<1>1. Cardinality({}) = 0
  BY FS_EmptySet
<1>2. In("waiting") = {} /\ In("none") = Thread /\ Joinable = {}
  BY DEF PoolInit, In, Joinable
<1>3. Cardinality(Thread) \in Nat
  BY ThreadsFinite
<1>4. PoolTypeOK
  <2>1. 0 \in 0 .. Cardinality(Thread) /\ 0 \in 0 .. MaxFailures
    BY <1>3, ThreadPoolAssumption
  <2>2. jobs \in Seq(Job) /\ woken \subseteq Thread /\ shutdown \in BOOLEAN
    BY EmptyQueue DEF PoolInit
  <2>3. at \in [Thread -> {"none", "top", "waiting", "running", "leaving", "ended"}]
    BY DEF PoolInit
  <2>4. job \in [Thread -> Job \cup {NoJob}]
    BY DEF PoolInit
  <2> QED
    BY <2>1, <2>2, <2>3, <2>4 DEF PoolTypeOK, PoolInit
<1>5. IdleCounted /\ Bounded
  <2>1. IdleCounted
    BY <1>1, <1>2 DEF IdleCounted, PoolInit
  <2>2. Bounded
    BY <1>1, <1>2, ThreadPoolAssumption DEF Bounded
  <2> QED
    BY <2>1, <2>2
<1>6. RunsJob /\ LeftLast
  BY DEF RunsJob, LeftLast, PoolInit
<1>7. Listed
  BY <1>2 DEF Listed, PoolInit
<1>8. Phases
  BY <1>2 DEF Phases, PoolInit, Serving_, Failing, Down
<1>9. NoStrandedJob
  BY <1>2 DEF NoStrandedJob, Sleepers
<1> QED
  BY <1>4, <1>5, <1>6, <1>7, <1>8, <1>9 DEF PoolInv

-----------------------------------------------------------------------------
(* The types, but for idle, which the count of the waiting threads bounds. *)
Types ==
  /\ threads \subseteq Thread /\ dynamic \subseteq Thread
  /\ finished \subseteq Thread /\ remaining \subseteq Thread
  /\ jobs \in Seq(Job)
  /\ shutdown \in BOOLEAN
  /\ at \in [Thread -> {"none", "top", "waiting", "running", "leaving", "ended"}]
  /\ woken \subseteq Thread
  /\ job \in [Thread -> Job \cup {NoJob}]
  /\ owner \in {"constructing", "failing", "joining failed", "failed", "serving", "cleaning",
                "notifying", "stopping", "joining", "taking", "joining rest", "down",
                "terminated"}
  /\ failures \in 0 .. MaxFailures

(* Every step keeps the types.                                             *)
LEMMA TypesStep == PoolTypeOK /\ PoolStep => Types'
<1> SUFFICES ASSUME PoolTypeOK, PoolStep PROVE Types'
  OBVIOUS
<1> USE DEF PoolTypeOK, Types, Move, Vanish, In, Sleepers
<1>1. ASSUME NEW j \in Job, Enqueue(j) PROVE Types'
  BY <1>1 DEF Enqueue
<1>2. CASE Shutdown
  BY <1>2 DEF Shutdown
<1>3. CASE SpawnBase
  BY <1>3 DEF SpawnBase
<1>4. CASE Constructed
  BY <1>4 DEF Constructed
<1>5. CASE SpawnDynamic
  <2>1. PICK t \in Thread :
          /\ dynamic' = dynamic \cup {t}
          /\ at' = [u \in Thread |-> IF u = t THEN "top"
                                     ELSE IF u \in finished THEN "none" ELSE at[u]]
    BY <1>5 DEF SpawnDynamic
  <2>2. at' \in [Thread -> {"none", "top", "waiting", "running", "leaving", "ended"}]
    BY <2>1
  <2>3. QED
    BY <1>5, <2>1, <2>2 DEF SpawnDynamic
<1>6. CASE Notify
  <2>1. woken' \subseteq Thread
    BY <1>6 DEF Notify
  <2>2. QED
    BY <1>6, <2>1 DEF Notify
<1>7. CASE NotifyAll
  BY <1>7 DEF NotifyAll
<1>8. CASE JoinBase
  BY <1>8 DEF JoinBase
<1>9. CASE TakeDynamic
  BY <1>9 DEF TakeDynamic
<1>10. CASE JoinRest
  BY <1>10 DEF JoinRest
<1>11. CASE SpawnBaseFails
  BY <1>11, ThreadPoolAssumption DEF SpawnBaseFails
<1>12. CASE SpawnDynamicFails
  <2>1. failures' \in 0 .. MaxFailures
    BY <1>12, ThreadPoolAssumption DEF SpawnDynamicFails
  <2>2. jobs' \in Seq(Job)
    BY <1>12 DEF SpawnDynamicFails
  <2>3. /\ at' \in [Thread -> {"none", "top", "waiting", "running", "leaving", "ended"}]
        /\ job' \in [Thread -> Job \cup {NoJob}]
    BY <1>12 DEF SpawnDynamicFails
  <2> QED
    BY <1>12, <2>1, <2>2, <2>3 DEF SpawnDynamicFails
<1>13. ASSUME NEW t \in Thread, Sleep(t) PROVE Types'
  BY <1>13 DEF Sleep
<1>14. ASSUME NEW t \in Thread, Take(t) PROVE Types'
  <2>1. CASE jobs # <<>>
    <3>1. jobs' \in Seq(Job) /\ Head(jobs) \in Job
      BY <1>14, <2>1, QueueTaken DEF Take
    <3> QED
      BY <1>14, <2>1, <3>1 DEF Take
  <2>2. CASE jobs = <<>>
    BY <1>14, <2>2 DEF Take
  <2> QED
    BY <2>1, <2>2
<1>15. ASSUME NEW t \in Thread, WaitAgain(t) PROVE Types'
  BY <1>15 DEF WaitAgain
<1>16. ASSUME NEW t \in Thread, TimeOut(t) PROVE Types'
  BY <1>16 DEF TimeOut
<1>17. ASSUME NEW t \in Thread, End(t) PROVE Types'
  BY <1>17 DEF End
<1>18. ASSUME NEW t \in Thread, Return(t) PROVE Types'
  BY <1>18 DEF Return
<1>19. QED
  BY <1>1, <1>2, <1>3, <1>4, <1>5, <1>6, <1>7, <1>8, <1>9, <1>10, <1>11, <1>12, <1>13, <1>14,
     <1>15, <1>16, <1>17, <1>18
  DEF PoolStep, OwnerStep, SpawnFailure, WorkerStep

-----------------------------------------------------------------------------
(* The set of threads at a place, when no thread, or one, comes or goes.   *)
LEMMA SamePlace ==
  ASSUME NEW p, \A t \in Thread : at'[t] = p <=> at[t] = p
  PROVE  In(p)' = In(p)
BY DEF In

(* Every step keeps the count of the idle threads right.                   *)
LEMMA IdleCountedStep == PoolInv /\ PoolStep => IdleCounted'
<1> SUFFICES ASSUME PoolInv, PoolStep PROVE IdleCounted'
  OBVIOUS
<1> USE DEF Move, Vanish
<1>0. /\ IdleCounted /\ In("waiting") \subseteq Thread
      /\ at \in [Thread -> {"none", "top", "waiting", "running", "leaving", "ended"}]
      /\ threads \subseteq Thread /\ finished \subseteq Thread
      /\ remaining \subseteq Thread
  BY DEF PoolInv, PoolTypeOK, In
<1>1. ASSUME UNCHANGED <<at, idle>> PROVE IdleCounted'
  BY <1>0, <1>1 DEF IdleCounted, In
<1>2. ASSUME NEW t \in Thread, at[t] # "waiting", NEW p, p # "waiting",
             at' = [at EXCEPT ![t] = p], idle' = idle
      PROVE  IdleCounted'
  <2>1. In("waiting")' = In("waiting")
    BY <1>0, <1>2, SamePlace
  <2> QED
    BY <1>0, <1>2, <2>1 DEF IdleCounted
<1>3. ASSUME NEW t \in Thread, at[t] = "waiting", NEW p, p # "waiting",
             at' = [at EXCEPT ![t] = p], idle' = idle - 1
      PROVE  IdleCounted'
  <2>1. In("waiting")' = In("waiting") \ {t} /\ t \in In("waiting")
    BY <1>0, <1>3 DEF In
  <2> QED
    BY <1>0, <1>3, <2>1, OneThreadLess DEF IdleCounted
<1>4. ASSUME NEW S \in SUBSET In("ended"), Vanish(S), idle' = idle PROVE IdleCounted'
  <2>1. \A t \in Thread : at'[t] = "waiting" <=> at[t] = "waiting"
    BY <1>4 DEF In
  <2> QED
    BY <1>0, <1>4, <2>1, SamePlace DEF IdleCounted
<1>5. CASE \/ \E j \in Job : Enqueue(j)
           \/ Shutdown \/ Constructed \/ Notify \/ NotifyAll \/ TakeDynamic
           \/ SpawnBaseFails \/ \E t \in Thread : WaitAgain(t)
  BY <1>1, <1>5
  DEF Enqueue, Shutdown, Constructed, Notify, NotifyAll, TakeDynamic, SpawnBaseFails, WaitAgain
<1>6. CASE SpawnBase
  BY <1>2, <1>6 DEF SpawnBase, NewThread
<1>7. CASE SpawnDynamic
  <2>1. PICK t \in Thread :
          /\ at[t] = "none" /\ idle' = idle
          /\ at' = [u \in Thread |-> IF u = t THEN "top"
                                     ELSE IF u \in finished THEN "none" ELSE at[u]]
    BY <1>7 DEF SpawnDynamic, NewThread
  <2>2. \A u \in finished : at[u] = "ended"
    BY <1>7 DEF SpawnDynamic, In
  <2>3. \A u \in Thread : at'[u] = "waiting" <=> at[u] = "waiting"
    BY <2>1, <2>2
  <2> QED
    BY <1>0, <2>1, <2>3, SamePlace DEF IdleCounted
<1>8. CASE SpawnDynamicFails
  <2>1. In("waiting")' = {}
    BY <1>8 DEF SpawnDynamicFails, In
  <2> QED
    BY <1>8, <2>1, FS_EmptySet DEF SpawnDynamicFails, IdleCounted
<1>9. CASE JoinBase
  BY <1>4, <1>9 DEF JoinBase
<1>10. CASE JoinRest
  BY <1>4, <1>10 DEF JoinRest
<1>11. ASSUME NEW t \in Thread, Sleep(t) PROVE IdleCounted'
  <2>1. In("waiting")' = In("waiting") \cup {t} /\ t \notin In("waiting")
    BY <1>0, <1>11 DEF Sleep, In
  <2> QED
    BY <1>0, <1>11, <2>1, OneThreadMore DEF Sleep, IdleCounted
<1>12. ASSUME NEW t \in Thread, Take(t) PROVE IdleCounted'
  BY <1>2, <1>3, <1>12 DEF Take
<1>13. ASSUME NEW t \in Thread, TimeOut(t) PROVE IdleCounted'
  BY <1>3, <1>13 DEF TimeOut
<1>14. ASSUME NEW t \in Thread, Return(t) \/ End(t) PROVE IdleCounted'
  BY <1>2, <1>14 DEF Return, End
<1> QED
  BY <1>5, <1>6, <1>7, <1>8, <1>9, <1>10, <1>11, <1>12, <1>13, <1>14
  DEF PoolStep, OwnerStep, SpawnFailure, WorkerStep

(* Every step keeps a job with the thread that runs it.                    *)
LEMMA RunsJobStep == PoolInv /\ PoolStep => RunsJob'
<1> SUFFICES ASSUME PoolInv, PoolStep PROVE RunsJob'
  OBVIOUS
<1> USE DEF Move, Vanish, RunsJob
<1>0. /\ RunsJob
      /\ at \in [Thread -> {"none", "top", "waiting", "running", "leaving", "ended"}]
      /\ job \in [Thread -> Job \cup {NoJob}] /\ jobs \in Seq(Job)
  BY DEF PoolInv, PoolTypeOK
<1>1. ASSUME UNCHANGED <<at, job>> PROVE RunsJob'
  BY <1>0, <1>1
<1>2. ASSUME NEW t \in Thread, at[t] # "running", NEW p, p # "running",
             at' = [at EXCEPT ![t] = p], job' = job
      PROVE  RunsJob'
  BY <1>0, <1>2
<1>3. ASSUME NEW S \in SUBSET In("ended"), Vanish(S), job' = job PROVE RunsJob'
  <2>1. \A t \in S : at[t] = "ended"
    BY <1>3 DEF In
  <2> QED
    BY <1>0, <1>3, <2>1
<1>4. CASE \/ \E j \in Job : Enqueue(j)
           \/ Shutdown \/ Constructed \/ Notify \/ NotifyAll \/ TakeDynamic
           \/ SpawnBaseFails \/ \E t \in Thread : WaitAgain(t)
  BY <1>1, <1>4
  DEF Enqueue, Shutdown, Constructed, Notify, NotifyAll, TakeDynamic, SpawnBaseFails, WaitAgain
<1>5. CASE SpawnBase
  BY <1>2, <1>5 DEF SpawnBase, NewThread
<1>6. CASE SpawnDynamic
  <2>1. PICK t \in Thread :
          /\ at[t] = "none" /\ job' = job
          /\ at' = [u \in Thread |-> IF u = t THEN "top"
                                     ELSE IF u \in finished THEN "none" ELSE at[u]]
    BY <1>6 DEF SpawnDynamic, NewThread
  <2>2. \A u \in finished : at[u] = "ended"
    BY <1>6 DEF SpawnDynamic, In
  <2> QED
    BY <1>0, <2>1, <2>2
<1>7. CASE SpawnDynamicFails
  BY <1>7 DEF SpawnDynamicFails
<1>8. CASE JoinBase
  BY <1>3, <1>8 DEF JoinBase
<1>9. CASE JoinRest
  BY <1>3, <1>9 DEF JoinRest
<1>10. ASSUME NEW t \in Thread, Sleep(t) \/ TimeOut(t) \/ End(t) PROVE RunsJob'
  BY <1>2, <1>10 DEF Sleep, TimeOut, End
<1>11. ASSUME NEW t \in Thread, Take(t) PROVE RunsJob'
  <2>1. CASE jobs # <<>>
    <3>1. Head(jobs) \in Job /\ Head(jobs) # NoJob
      BY <1>0, <2>1, QueueTaken, ThreadPoolAssumption
    <3>2. at' = [at EXCEPT ![t] = "running"] /\ job' = [job EXCEPT ![t] = Head(jobs)]
      BY <1>11, <2>1 DEF Take
    <3> QED
      BY <1>0, <3>1, <3>2
  <2>2. CASE jobs = <<>>
    BY <1>2, <1>11, <2>2 DEF Take
  <2> QED
    BY <2>1, <2>2
<1>12. ASSUME NEW t \in Thread, Return(t) PROVE RunsJob'
  BY <1>0, <1>12 DEF Return
<1> QED
  BY <1>4, <1>5, <1>6, <1>7, <1>8, <1>9, <1>10, <1>11, <1>12
  DEF PoolStep, OwnerStep, SpawnFailure, WorkerStep

(* Every step keeps each thread in its one list.                           *)
LEMMA ListedStep == PoolInv /\ PoolStep => Listed'
<1> SUFFICES ASSUME PoolInv, PoolStep PROVE Listed'
  OBVIOUS
<1> USE DEF Move, Vanish
<1>0. /\ Listed
      /\ at \in [Thread -> {"none", "top", "waiting", "running", "leaving", "ended"}]
      /\ threads \subseteq Thread /\ dynamic \subseteq Thread
      /\ finished \subseteq Thread /\ remaining \subseteq Thread
  BY DEF PoolInv, PoolTypeOK
<1>1. ASSUME UNCHANGED <<threads, dynamic, finished, remaining, at>> PROVE Listed'
  BY <1>0, <1>1 DEF Listed, Joinable, In
<1>2. ASSUME NEW t \in Thread, at[t] # "none", NEW p, p # "none",
             at' = [at EXCEPT ![t] = p],
             UNCHANGED <<threads, dynamic, finished, remaining>>
      PROVE  Listed'
  <2>1. In("none")' = In("none")
    BY <1>0, <1>2, SamePlace
  <2> QED
    BY <1>0, <1>2, <2>1 DEF Listed, Joinable
<1>3. CASE \/ \E j \in Job : Enqueue(j)
           \/ Shutdown \/ Constructed \/ Notify \/ NotifyAll
           \/ SpawnBaseFails \/ \E t \in Thread : WaitAgain(t)
  BY <1>1, <1>3
  DEF Enqueue, Shutdown, Constructed, Notify, NotifyAll, SpawnBaseFails, WaitAgain
<1>4. CASE SpawnBase
  <2>1. PICK t \in Thread : at[t] = "none" /\ threads' = threads \cup {t}
                            /\ at' = [at EXCEPT ![t] = "top"]
    BY <1>4 DEF SpawnBase, NewThread
  <2>2. In("none")' = In("none") \ {t} /\ t \in In("none")
    BY <1>0, <2>1 DEF In
  <2> QED
    BY <1>0, <1>4, <2>1, <2>2 DEF SpawnBase, Listed, Joinable
<1>5. CASE SpawnDynamic
  <2>1. PICK t \in Thread :
          /\ at[t] = "none" /\ dynamic' = dynamic \cup {t}
          /\ at' = [u \in Thread |-> IF u = t THEN "top"
                                     ELSE IF u \in finished THEN "none" ELSE at[u]]
    BY <1>5 DEF SpawnDynamic, NewThread
  <2>2. t \in In("none") /\ t \notin finished
    BY <1>0, <2>1 DEF In, Listed, Joinable
  <2>3. In("none")' = (In("none") \cup finished) \ {t}
    BY <1>0, <2>1 DEF In
  <2> QED
    BY <1>0, <1>5, <2>1, <2>2, <2>3 DEF SpawnDynamic, Listed, Joinable
<1>6. CASE SpawnDynamicFails
  <2>1. In("none")' = Thread
    BY <1>6 DEF SpawnDynamicFails, In
  <2> QED
    BY <1>6, <2>1 DEF SpawnDynamicFails, Listed, Joinable
<1>7. CASE JoinBase
  <2>1. In("none")' = In("none") \cup threads
    BY <1>0, <1>7 DEF JoinBase, In
  <2> QED
    BY <1>0, <1>7, <2>1 DEF JoinBase, Listed, Joinable
<1>8. CASE TakeDynamic
  <2>1. remaining = {} /\ In("none")' = In("none")
    BY <1>8 DEF TakeDynamic, PoolInv, Phases, In
  <2> QED
    BY <1>0, <1>8, <2>1 DEF TakeDynamic, Listed, Joinable
<1>9. CASE JoinRest
  <2>1. In("none")' = In("none") \cup remaining \cup finished
    BY <1>0, <1>9 DEF JoinRest, In
  <2> QED
    BY <1>0, <1>9, <2>1 DEF JoinRest, Listed, Joinable
<1>10. ASSUME NEW t \in Thread, Sleep(t) \/ Take(t) \/ Return(t) \/ End(t) PROVE Listed'
  BY <1>2, <1>10 DEF Sleep, Take, Return, End
<1>11. ASSUME NEW t \in Thread, TimeOut(t) PROVE Listed'
  <2>1. In("none")' = In("none")
    BY <1>0, <1>11, SamePlace DEF TimeOut
  <2> QED
    BY <1>0, <1>11, <2>1 DEF TimeOut, Listed, Joinable
<1> QED
  BY <1>3, <1>4, <1>5, <1>6, <1>7, <1>8, <1>9, <1>10, <1>11
  DEF PoolStep, OwnerStep, SpawnFailure, WorkerStep

(* Before the pool serves and after it has ended no thread waits that could*)
(* time out and change the lists.                                          *)
LEMMA TimeOutPhase ==
  ASSUME PoolInv, NEW t \in Thread, TimeOut(t)
  PROVE  /\ owner \notin Failing \cup {"constructing", "cleaning", "terminated"}
         /\ ~shutdown
<1>1. /\ owner # "cleaning" /\ ~shutdown
      /\ t \notin threads /\ at[t] = "waiting"
  BY DEF TimeOut, MutexFree, Ready
<1>2. t \in Joinable
  BY <1>1 DEF PoolInv, Listed, In
<1>3. owner \notin {"constructing", "terminated"}
  BY <1>1, <1>2 DEF PoolInv, Phases, Joinable
<1> QED
  BY <1>1, <1>3 DEF PoolInv, Phases

(* Every step goes from one phase of the pool to the next.                 *)
LEMMA PhasesStep == PoolInv /\ PoolStep => Phases'
<1> SUFFICES ASSUME PoolInv, PoolStep PROVE Phases'
  OBVIOUS
<1> USE DEF Serving_, Failing, Down
<1>0. /\ Phases /\ LeftLast
      /\ owner \in {"constructing", "failing", "joining failed", "failed", "serving",
                    "cleaning", "notifying", "stopping", "joining", "taking", "joining rest",
                    "down", "terminated"}
      /\ shutdown \in BOOLEAN
  BY DEF PoolInv, PoolTypeOK
<1>1. ASSUME NEW j \in Job, Enqueue(j) PROVE Phases'
  BY <1>0, <1>1 DEF Phases, Enqueue, Joinable
<1>2. CASE Shutdown
  BY <1>0, <1>2 DEF Phases, Shutdown, Joinable
<1>3. CASE SpawnBase
  BY <1>0, <1>3 DEF Phases, SpawnBase, Joinable
<1>4. CASE Constructed
  <2>1. threads # {}
    BY <1>4, FS_EmptySet, ThreadPoolAssumption DEF Constructed
  <2> QED
    BY <1>0, <1>4, <2>1 DEF Phases, Constructed, Joinable
<1>5. CASE SpawnDynamic
  BY <1>0, <1>5 DEF Phases, SpawnDynamic, Joinable
<1>6. CASE Notify
  BY <1>0, <1>6 DEF Phases, Notify, Joinable
<1>7. CASE NotifyAll
  BY <1>0, <1>7 DEF Phases, NotifyAll, Joinable
<1>8. CASE JoinBase
  <2>1. owner = "joining" => jobs = <<>>
    <3>1. SUFFICES ASSUME owner = "joining" PROVE jobs = <<>>
      OBVIOUS
    <3>2. PICK t : t \in threads
      BY <1>0, <3>1 DEF Phases
    <3>3. at[t] = "ended"
      BY <1>8, <3>2 DEF JoinBase, In
    <3> QED
      BY <1>0, <3>2, <3>3 DEF LeftLast
  <2>2. owner = "joining failed" => Joinable' = {}
    BY <1>0, <1>8 DEF Phases, JoinBase, Joinable
  <2> QED
    BY <1>0, <1>8, <2>1, <2>2 DEF Phases, JoinBase
<1>9. CASE TakeDynamic
  BY <1>0, <1>9 DEF Phases, TakeDynamic, Joinable
<1>10. CASE JoinRest
  BY <1>0, <1>10 DEF Phases, JoinRest, Joinable
<1>11. CASE SpawnBaseFails
  BY <1>0, <1>11 DEF Phases, SpawnBaseFails, Joinable
<1>12. CASE SpawnDynamicFails
  BY <1>12 DEF Phases, SpawnDynamicFails, Joinable
<1>13. ASSUME NEW t \in Thread, Sleep(t) \/ WaitAgain(t) \/ End(t) \/ Return(t) PROVE Phases'
  <2>1. UNCHANGED <<threads, dynamic, finished, remaining, jobs, shutdown, owner>>
    BY <1>13 DEF Sleep, WaitAgain, End, Return
  <2> QED
    BY <1>0, <2>1 DEF Phases, Joinable
<1>14. ASSUME NEW t \in Thread, Take(t) PROVE Phases'
  <2>1. jobs = <<>> => jobs' = <<>>
    BY <1>14 DEF Take
  <2> QED
    BY <1>0, <1>14, <2>1 DEF Phases, Take, Joinable
<1>15. ASSUME NEW t \in Thread, TimeOut(t) PROVE Phases'
  <2>1. owner \in {"serving", "notifying"}
    BY <1>0, <1>15, TimeOutPhase DEF Phases
  <2>2. /\ owner' = owner /\ shutdown' = shutdown /\ threads' = threads
        /\ remaining' = remaining
    BY <1>15 DEF TimeOut
  <2> QED
    BY <1>0, <2>1, <2>2 DEF Phases
<1> QED
  BY <1>1, <1>2, <1>3, <1>4, <1>5, <1>6, <1>7, <1>8, <1>9, <1>10, <1>11, <1>12, <1>13, <1>14, <1>15
  DEF PoolStep, OwnerStep, SpawnFailure, WorkerStep

(* No base thread leaves before the pool shuts down and the jobs are done. *)
LEMMA LeftLastStep == PoolInv /\ PoolStep => LeftLast'
<1> SUFFICES ASSUME PoolInv, PoolStep PROVE LeftLast'
  OBVIOUS
<1> USE DEF Move, Vanish, LeftLast
<1>0. /\ LeftLast
      /\ at \in [Thread -> {"none", "top", "waiting", "running", "leaving", "ended"}]
      /\ threads \subseteq Thread
  BY DEF PoolInv, PoolTypeOK
<1>1. ASSUME UNCHANGED <<threads, at, jobs>>, shutdown => shutdown' PROVE LeftLast'
  BY <1>0, <1>1
<1>2. CASE \/ Constructed \/ Notify \/ NotifyAll \/ TakeDynamic \/ Shutdown
           \/ SpawnBaseFails \/ \E t \in Thread : WaitAgain(t)
  BY <1>1, <1>2
  DEF Constructed, Notify, NotifyAll, TakeDynamic, Shutdown, SpawnBaseFails, WaitAgain
<1>3. ASSUME NEW j \in Job, Enqueue(j) PROVE LeftLast'
  BY <1>0, <1>3 DEF Enqueue
<1>4. CASE SpawnBase
  BY <1>0, <1>4 DEF SpawnBase, NewThread
<1>5. CASE SpawnDynamic
  BY <1>0, <1>5 DEF SpawnDynamic, NewThread
<1>6. CASE SpawnDynamicFails \/ JoinBase
  BY <1>6 DEF SpawnDynamicFails, JoinBase
<1>7. CASE JoinRest
  BY <1>0, <1>7 DEF JoinRest
<1>8. ASSUME NEW t \in Thread, Sleep(t) \/ Return(t) PROVE LeftLast'
  BY <1>0, <1>8 DEF Sleep, Return
<1>9. ASSUME NEW t \in Thread, TimeOut(t) PROVE LeftLast'
  BY <1>0, <1>9 DEF TimeOut
<1>10. ASSUME NEW t \in Thread, End(t) PROVE LeftLast'
  BY <1>0, <1>10 DEF End
<1>11. ASSUME NEW t \in Thread, Take(t) PROVE LeftLast'
  <2>1. CASE jobs # <<>>
    <3>1. at' = [at EXCEPT ![t] = "running"] /\ UNCHANGED <<threads, shutdown>>
      BY <1>11, <2>1 DEF Take
    <3>2. \A u \in threads : at[u] \notin {"leaving", "ended"}
      BY <1>0, <2>1
    <3> QED
      BY <1>0, <3>1, <3>2
  <2>2. CASE jobs = <<>>
    BY <1>0, <1>11, <2>2 DEF Take, Ready
  <2> QED
    BY <2>1, <2>2
<1> QED
  BY <1>2, <1>3, <1>4, <1>5, <1>6, <1>7, <1>8, <1>9, <1>10, <1>11
  DEF PoolStep, OwnerStep, SpawnFailure, WorkerStep

(* Every step keeps the number of unjoined threads within the maximum: the *)
(* finished ones are joined before another is spawned.                     *)
LEMMA BoundedStep == PoolInv /\ PoolStep => Bounded'
<1> SUFFICES ASSUME PoolInv, PoolStep PROVE Bounded'
  OBVIOUS
<1>0. /\ Bounded /\ Joinable \subseteq Thread
      /\ threads \subseteq Thread /\ dynamic \subseteq Thread
      /\ finished \subseteq Thread /\ remaining \subseteq Thread
  BY DEF PoolInv, PoolTypeOK, Joinable
<1>1. ASSUME Joinable' \subseteq Joinable PROVE Bounded'
  <2>1. /\ Cardinality(Joinable') <= Cardinality(Joinable)
        /\ Cardinality(Joinable') \in Nat /\ Cardinality(Joinable) \in Nat
    BY <1>0, <1>1, FewerThreads, ThreadsFinite
  <2> QED
    BY <1>0, <2>1, ThreadPoolAssumption DEF Bounded
<1>2. CASE SpawnBase
  <2>1. PICK t \in Thread : threads' = threads \cup {t}
    BY <1>2 DEF SpawnBase
  <2>2. Joinable' = threads \cup {t}
    BY <1>2, <2>1 DEF SpawnBase, Joinable, PoolInv, Phases
  <2>3. Cardinality(threads \cup {t}) <= Cardinality(threads) + 1
    BY <1>0, ThreadsFinite, FS_AddElement
  <2>4. Cardinality(threads) < BaseThreads /\ Cardinality(threads) \in Nat
    BY <1>0, <1>2, ThreadsFinite DEF SpawnBase
  <2>5. Cardinality(threads \cup {t}) \in Nat
    BY <1>0, ThreadsFinite
  <2> QED
    BY <2>2, <2>3, <2>4, <2>5, ThreadPoolAssumption DEF Bounded
<1>3. CASE SpawnDynamic
  <2>1. PICK t \in Thread : dynamic' = dynamic \cup {t}
    BY <1>3 DEF SpawnDynamic
  <2> DEFINE Old == threads \cup dynamic
  <2>2. Joinable' = Old \cup {t}
    BY <1>3, <2>1 DEF SpawnDynamic, Joinable, PoolInv, Phases
  <2>3. Old \in SUBSET Thread /\ Old \cup {t} \in SUBSET Thread
    BY <1>0
  <2>4. Cardinality(Old) < MaxThreads
    BY <1>3 DEF SpawnDynamic, PoolInv, Phases
  <2> HIDE DEF Old
  <2>5. Cardinality(Old \cup {t}) <= Cardinality(Old) + 1
    BY <2>3, ThreadsFinite, FS_AddElement
  <2>6. Cardinality(Old) \in Nat /\ Cardinality(Old \cup {t}) \in Nat
    BY <2>3, ThreadsFinite
  <2> QED
    BY <2>2, <2>4, <2>5, <2>6, ThreadPoolAssumption DEF Bounded
<1>4. CASE \/ \E j \in Job : Enqueue(j)
           \/ Shutdown \/ Constructed \/ Notify \/ NotifyAll \/ SpawnBaseFails
           \/ \E t \in Thread : Sleep(t) \/ Take(t) \/ WaitAgain(t) \/ End(t) \/ Return(t)
  <2>1. UNCHANGED <<threads, dynamic, finished, remaining>>
    BY <1>4 DEF Enqueue, Shutdown, Constructed, Notify, NotifyAll, SpawnBaseFails,
                Sleep, Take, WaitAgain, End, Return
  <2> QED
    BY <1>1, <2>1 DEF Joinable
<1>5. CASE SpawnDynamicFails \/ JoinBase \/ JoinRest
  BY <1>1, <1>5 DEF SpawnDynamicFails, JoinBase, JoinRest, Joinable
<1>6. CASE TakeDynamic
  BY <1>1, <1>6 DEF TakeDynamic, Joinable
<1>7. ASSUME NEW t \in Thread, TimeOut(t) PROVE Bounded'
  BY <1>1, <1>7 DEF TimeOut, Joinable
<1> QED
  BY <1>2, <1>3, <1>4, <1>5, <1>6, <1>7 DEF PoolStep, OwnerStep, SpawnFailure, WorkerStep

(* The threads that are on their way to the queue, and their number.       *)
Coming == woken \cup In("top")
Notice == IF owner \in {"cleaning", "notifying"} THEN 1 ELSE 0

(* The threads on their way to the queue are finitely many.                *)
LEMMA ComingCounted ==
  ASSUME PoolInv, PoolStep
  PROVE  /\ Coming \in SUBSET Thread /\ Coming' \in SUBSET Thread
         /\ Cardinality(Coming) \in Nat /\ Cardinality(Coming') \in Nat
<1>1. Coming \in SUBSET Thread
  BY DEF Coming, In, PoolInv, PoolTypeOK
<1>2. Coming' \in SUBSET Thread
  BY TypesStep DEF Coming, In, PoolInv, Types
<1> QED
  BY <1>1, <1>2, ThreadsFinite

(* Every step leaves no job to a sleeper: a step that adds a job owes a    *)
(* notification, and a thread that comes and finds no job leaves none.     *)
LEMMA NoStrandedJobStep == PoolInv /\ PoolStep => NoStrandedJob'
<1> SUFFICES ASSUME PoolInv, PoolStep, Sleepers' # {}
             PROVE  Len(jobs') <= Cardinality(Coming') + Notice'
  BY DEF NoStrandedJob, Coming, Notice
<1> USE DEF Move, Vanish
<1>0. /\ Sleepers # {} => Len(jobs) <= Cardinality(Coming) + Notice
      /\ at \in [Thread -> {"none", "top", "waiting", "running", "leaving", "ended"}]
      /\ jobs \in Seq(Job) /\ Len(jobs) \in Nat
      /\ woken \subseteq Thread
  <2>1. NoStrandedJob /\ PoolTypeOK
    BY DEF PoolInv
  <2>2. jobs \in Seq(Job)
    BY <2>1 DEF PoolTypeOK
  <2>3. Len(jobs) \in Nat
    BY <2>2
  <2> QED
    BY <2>1, <2>3 DEF PoolTypeOK, NoStrandedJob, Coming, Notice
<1>c. /\ Coming \in SUBSET Thread /\ Coming' \in SUBSET Thread
      /\ Cardinality(Coming) \in Nat /\ Cardinality(Coming') \in Nat
  BY ComingCounted
<1>n. Notice \in 0 .. 1 /\ Notice' \in 0 .. 1
  BY DEF Notice
<1>1. ASSUME Coming \subseteq Coming', Sleepers # {}, Notice' >= Notice, jobs' = jobs
      PROVE  Len(jobs') <= Cardinality(Coming') + Notice'
  <2>1. Cardinality(Coming) <= Cardinality(Coming')
    BY <1>c, <1>1, FewerThreads
  <2> QED
    BY <1>0, <1>c, <1>n, <1>1, <2>1
<1>2. ASSUME jobs' = <<>>
      PROVE  Len(jobs') <= Cardinality(Coming') + Notice'
  BY <1>c, <1>n, <1>2, EmptyQueue
<1>3. CASE SpawnBase \/ SpawnDynamic
  <2>1. PICK t \in Thread :
          /\ at[t] = "none"
          /\ \A u \in Thread : /\ at[u] = "waiting" <=> at'[u] = "waiting"
                               /\ at[u] = "top" => at'[u] = "top"
    <3>1. CASE SpawnBase
      BY <1>0, <3>1 DEF SpawnBase, NewThread
    <3>2. CASE SpawnDynamic
      BY <1>0, <3>2 DEF SpawnDynamic, NewThread, In
    <3> QED
      BY <1>3, <3>1, <3>2
  <2>2. UNCHANGED <<jobs, woken>> /\ Notice' = Notice
    BY <1>3 DEF SpawnBase, SpawnDynamic, Notice
  <2>3. Coming \subseteq Coming' /\ Sleepers' = Sleepers
    BY <2>1, <2>2 DEF Coming, Sleepers, In
  <2> QED
    BY <1>1, <1>n, <2>2, <2>3
<1>4. CASE Constructed \/ TakeDynamic \/ SpawnBaseFails \/ Shutdown
  <2>1. UNCHANGED <<jobs, woken, at>> /\ Notice' = Notice
    BY <1>4 DEF Constructed, TakeDynamic, SpawnBaseFails, Shutdown, Notice
  <2>2. Coming' = Coming /\ Sleepers' = Sleepers
    BY <2>1 DEF Coming, Sleepers, In
  <2> QED
    BY <1>1, <1>n, <2>1, <2>2
<1>5. ASSUME NEW j \in Job, Enqueue(j)
      PROVE  Len(jobs') <= Cardinality(Coming') + Notice'
  <2>1. Len(jobs') = Len(jobs) + 1
    BY <1>0, <1>5 DEF Enqueue
  <2>2. Notice = 0 /\ Notice' = 1
    BY <1>5 DEF Enqueue, Notice
  <2>3. Coming' = Coming /\ Sleepers' = Sleepers
    BY <1>5 DEF Enqueue, Coming, Sleepers, In
  <2> QED
    BY <1>0, <1>c, <2>1, <2>2, <2>3
<1>6. CASE Notify
  <2>1. UNCHANGED <<at, jobs>> /\ In("waiting")' = In("waiting") /\ In("top")' = In("top")
    BY <1>6 DEF Notify, In
  <2>2. Sleepers # {}
    BY <1>6, <2>1 DEF Notify, Sleepers
  <2>3. PICK t \in Sleepers : woken' = woken \cup {t}
    BY <1>6, <2>2 DEF Notify
  <2>4. t \in Thread /\ t \notin Coming /\ Coming' = Coming \cup {t}
    BY <2>1, <2>3 DEF Coming, Sleepers, In
  <2>5. Cardinality(Coming') = Cardinality(Coming) + 1
    BY <1>c, <2>4, OneThreadMore
  <2> QED
    BY <1>0, <1>c, <1>n, <2>1, <2>2, <2>5
<1>7. CASE NotifyAll \/ SpawnDynamicFails
  BY <1>7 DEF NotifyAll, SpawnDynamicFails, Sleepers, In
<1>8. CASE JoinBase \/ JoinRest
  <2>1. \A u \in Thread : /\ at'[u] = "waiting" <=> at[u] = "waiting"
                          /\ at'[u] = "top" <=> at[u] = "top"
    BY <1>0, <1>8 DEF JoinBase, JoinRest, In
  <2>2. UNCHANGED <<jobs, woken>> /\ Notice' = Notice
    BY <1>8 DEF JoinBase, JoinRest, Notice
  <2>3. Coming' = Coming /\ Sleepers' = Sleepers
    BY <2>1, <2>2 DEF Coming, Sleepers, In
  <2> QED
    BY <1>1, <1>n, <2>2, <2>3
<1>9. ASSUME NEW t \in Thread, Sleep(t) \/ WaitAgain(t) \/ TimeOut(t)
      PROVE  Len(jobs') <= Cardinality(Coming') + Notice'
  BY <1>2, <1>9 DEF Sleep, WaitAgain, TimeOut, Ready
<1>10. ASSUME NEW t \in Thread, Return(t) \/ End(t)
       PROVE  Len(jobs') <= Cardinality(Coming') + Notice'
  <2>1. \A u \in Thread : /\ at'[u] = "waiting" <=> at[u] = "waiting"
                          /\ at[u] = "top" => at'[u] = "top"
    BY <1>0, <1>10 DEF Return, End
  <2>2. UNCHANGED <<jobs, woken>> /\ Notice' = Notice
    BY <1>10 DEF Return, End, Notice
  <2>3. Coming \subseteq Coming' /\ Sleepers' = Sleepers
    BY <2>1, <2>2 DEF Coming, Sleepers, In
  <2> QED
    BY <1>1, <1>n, <2>2, <2>3
<1>11. ASSUME NEW t \in Thread, Take(t)
       PROVE  Len(jobs') <= Cardinality(Coming') + Notice'
  <2>1. CASE jobs = <<>>
    BY <1>2, <1>11, <2>1 DEF Take
  <2>2. CASE jobs # <<>>
    <3>1. Len(jobs') = Len(jobs) - 1
      BY <1>0, <1>11, <2>2, QueueTaken DEF Take
    <3>2. /\ woken' = woken \ {t} /\ owner' = owner
          /\ at' = [at EXCEPT ![t] = "running"]
      BY <1>11, <2>2 DEF Take
    <3>3. Coming' = Coming \ {t}
      BY <1>0, <3>2 DEF Coming, In
    <3>4. Sleepers' \subseteq Sleepers
      BY <1>0, <3>2 DEF Sleepers, In
    <3>5. Cardinality(Coming') >= Cardinality(Coming) - 1
      BY <1>c, <3>3, ThreadsFinite, FS_RemoveElement
    <3>6. Notice' = Notice
      BY <3>2 DEF Notice
    <3> QED
      BY <1>0, <1>c, <1>n, <3>1, <3>4, <3>5, <3>6
  <2> QED
    BY <2>1, <2>2
<1> QED
  BY <1>3, <1>4, <1>5, <1>6, <1>7, <1>8, <1>9, <1>10, <1>11
  DEF PoolStep, OwnerStep, SpawnFailure, WorkerStep

-----------------------------------------------------------------------------
(* So every step of the pool, whoever takes it, preserves the invariant.   *)
LEMMA PoolInvStep == PoolInv /\ (PoolStep \/ UNCHANGED poolVars) => PoolInv'
<1>1. ASSUME PoolInv, PoolStep PROVE PoolInv'
  <2>1. idle' \in 0 .. Cardinality(Thread)
    <3>1. idle' = Cardinality(In("waiting")') /\ In("waiting")' \in SUBSET Thread
      BY <1>1, IdleCountedStep DEF IdleCounted, In
    <3> QED
      BY <3>1, ThreadsFinite, FewerThreads
  <2>2. PoolTypeOK'
    BY <1>1, <2>1, TypesStep DEF PoolInv, Types, PoolTypeOK
  <2> QED
    BY <1>1, <2>2, IdleCountedStep, RunsJobStep, ListedStep, PhasesStep, LeftLastStep,
       BoundedStep, NoStrandedJobStep DEF PoolInv
<1>2. ASSUME PoolInv, UNCHANGED poolVars PROVE PoolInv'
  <2>1. PoolTypeOK' /\ Bounded' /\ Phases'
    BY <1>2 DEF poolVars, PoolInv, PoolTypeOK, Bounded, Phases, Joinable, In
  <2>2. IdleCounted' /\ RunsJob' /\ NoStrandedJob'
    BY <1>2 DEF poolVars, PoolInv, IdleCounted, RunsJob, NoStrandedJob, Sleepers, In
  <2>3. Listed' /\ LeftLast'
    BY <1>2 DEF poolVars, PoolInv, Listed, LeftLast, Joinable, In
  <2> QED
    BY <2>1, <2>2, <2>3 DEF PoolInv
<1> QED
  BY <1>1, <1>2

(* What the invariant says of the pool once its owner is done with it.     *)
LEMMA PoolInvUse == PoolInv => NoStrandedJob /\ ThreadsBounded /\ Drained
<1> SUFFICES ASSUME PoolInv PROVE NoStrandedJob /\ ThreadsBounded /\ Drained
  OBVIOUS
<1>1. NoStrandedJob /\ ThreadsBounded
  BY DEF PoolInv, Listed, Bounded, ThreadsBounded
<1>2. In("none") \subseteq Thread
  BY DEF In
<1>3. Drained
  BY <1>2 DEF PoolInv, Listed, Phases, Drained, Failing, Down
<1> QED
  BY <1>1, <1>3

-----------------------------------------------------------------------------
(***************************************************************************)
(* The invariant of the server, in its parts.                              *)
(***************************************************************************)

(* An accepted connection is in the queue or a thread serves it.           *)
Attended ==
  owner # "terminated" =>
    \A c \in Conn : stage[c] \in Accepted =>
      (\E i \in DOMAIN jobs : jobs[i] = c) \/ \E t \in Thread : job[t] = c

(* Once the socket is closed nobody waits to be accepted, and the pool     *)
(* stops only after that.                                                  *)
SocketClosed ==
  /\ ~listening => \A c \in Conn : stage[c] # "backlog"
  /\ owner \in {"stopping", "joining"} \cup Down => ~listening

(* A connection that goes on has a request left to serve.                  *)
Remaining ==
  \A c \in Conn :
    stage[c] \in {"backlog", "open", "watched", "locking", "handling"} => count[c] > 0

(* The sets of descriptors are finite, and account for all that are in use.*)
AcceptedSet == { c \in Conn : stage[c] \in Accepted }

Accounted ==
  /\ IsFiniteSet(AcceptedSet) /\ IsFiniteSet(OpenFiles)
  /\ OpenCounted

ServerInv ==
  /\ PoolInv /\ TypeOK /\ Attended /\ SocketClosed /\ Remaining /\ Accounted
  /\ LeaksSpareAConnection

-----------------------------------------------------------------------------
(* The types of the server's own variables, but for used.                  *)
ServerTypes ==
  /\ listening \in BOOLEAN
  /\ stage \in [Conn -> Accepted \cup {"backlog", "refused", "closed"}]
  /\ inbox \in [Conn -> BOOLEAN]
  /\ sends \in 0 .. MaxRequests
  /\ count \in [Conn -> 0 .. KeepAliveMax]
  /\ files \in [Conn -> Nat]
  /\ holder \in Conn \cup {NoConn}
  /\ leaked \in 0 .. MaxFiles
  /\ served \subseteq Conn

(* The server begins in its invariant.                                     *)
LEMMA ServerInit == Init => ServerInv
<1> SUFFICES ASSUME Init PROVE ServerInv
  OBVIOUS
<1>1. PoolInv
  BY PoolInvInit DEF Init
<1>2. ServerTypes /\ used \in 0 .. MaxFiles
  <2>1. /\ 0 \in 0 .. MaxRequests /\ 0 \in 0 .. MaxFiles /\ 1 \in 0 .. MaxFiles
        /\ KeepAliveMax \in 0 .. KeepAliveMax
    BY HttpServerAssumption
  <2>2. /\ stage \in [Conn -> Accepted \cup {"backlog", "refused", "closed"}]
        /\ inbox \in [Conn -> BOOLEAN] /\ files \in [Conn -> Nat]
    BY DEF Init
  <2>3. count \in [Conn -> 0 .. KeepAliveMax]
    BY <2>1 DEF Init
  <2> QED
    BY <2>1, <2>2, <2>3 DEF Init, ServerTypes
<1>3. TypeOK
  BY <1>1, <1>2 DEF TypeOK, ServerTypes, PoolInv
<1>4. AcceptedSet = {} /\ OpenFiles = {}
  BY DEF Init, AcceptedSet, Accepted, OpenFiles
<1>5. Accounted
  BY <1>4, FS_EmptySet DEF Init, Accounted, OpenCounted, AcceptedSet
<1>6. Attended /\ SocketClosed /\ Remaining /\ LeaksSpareAConnection
  BY HttpServerAssumption
     DEF Init, PoolInit, Attended, SocketClosed, Remaining, Accepted, Down,
         LeaksSpareAConnection
<1> QED
  BY <1>1, <1>3, <1>5, <1>6 DEF ServerInv

(* Every step of the server is one of its pool, or leaves the pool alone.  *)
LEMMA StepOfPool == [Next]_vars => PoolStep \/ UNCHANGED poolVars
<1> SUFFICES ASSUME [Next]_vars PROVE PoolStep \/ UNCHANGED poolVars
  OBVIOUS
<1>1. ASSUME NEW c \in Conn, Accept(c) PROVE PoolStep
  BY <1>1 DEF Accept, PoolStep, Conn
<1>2. CASE StopAccepting
  BY <1>2 DEF StopAccepting, PoolStep
<1>3. CASE Pool
  BY <1>3 DEF Pool, PoolStep
<1>4. ASSUME NEW t \in Thread, Close(t) PROVE PoolStep
  BY <1>4 DEF Close, PoolStep
<1>5. ASSUME NEW c \in Conn,
             Send(c) \/ ConnStep(c) \/ LockBuild(c) \/ ThrowUnmapped(c)
      PROVE  UNCHANGED poolVars
  BY <1>5 DEF Send, ConnStep, LockBuild, ThrowUnmapped, Watch, KeepAliveEnds, ReadRequest,
              OpenFile, Respond, Throw, Answer
<1>6. CASE AcceptFatal \/ Idle \/ UNCHANGED vars
  BY <1>6 DEF AcceptFatal, Idle, vars
<1> QED
  BY <1>1, <1>2, <1>3, <1>4, <1>5, <1>6 DEF Next

(* A descriptor that leaks is one more than the listening socket, the       *)
(* connection of the request, and those that leaked before.                 *)
LEMMA LeakCounted ==
  ASSUME ServerInv, NEW c \in Conn, ThrowUnmapped(c)
  PROVE  /\ leaked' \in 0 .. MaxFiles
         /\ listening => leaked' <= MaxFiles - 2
<1>1. /\ used \in 0 .. MaxFiles /\ leaked \in 0 .. MaxFiles /\ MaxFiles \in Nat
      /\ used < MaxFiles /\ leaked' = leaked + 1
  BY HttpServerAssumption DEF ServerInv, TypeOK, ThrowUnmapped
<1>2. c \in AcceptedSet
  BY DEF ThrowUnmapped, Answer, AcceptedSet, Accepted
<1>3. /\ Cardinality(AcceptedSet) \in Nat /\ Cardinality(AcceptedSet) # 0
      /\ Cardinality(OpenFiles) \in Nat
  BY <1>2, FS_CardinalityType, FS_EmptySet DEF ServerInv, Accounted
<1>4. used = (IF listening THEN 1 ELSE 0) + Cardinality(AcceptedSet)
             + Cardinality(OpenFiles) + leaked
  BY DEF ServerInv, Accounted, OpenCounted, AcceptedSet
<1> HIDE DEF AcceptedSet, OpenFiles
<1> QED
  BY <1>1, <1>3, <1>4

(* Every step keeps the types of the server's variables.                   *)
LEMMA ServerTypesStep == ServerInv /\ [Next]_vars => ServerTypes'
<1> SUFFICES ASSUME ServerInv, [Next]_vars PROVE ServerTypes'
  OBVIOUS
<1>0. ServerTypes /\ Remaining
  BY DEF ServerInv, TypeOK, ServerTypes
<1> USE DEF ServerTypes, Enter, Accepted, clientVars, connVars
<1>1. ASSUME NEW c \in Conn, Send(c) PROVE ServerTypes'
  <2>1. sends' \in 0 .. MaxRequests
    BY <1>0, <1>1, HttpServerAssumption DEF Send
  <2> QED
    BY <1>0, <1>1, <2>1 DEF Send
<1>2. ASSUME NEW c \in Conn, Accept(c) PROVE ServerTypes'
  BY <1>0, <1>2 DEF Accept
<1>3. CASE AcceptFatal
  BY <1>0, <1>3 DEF AcceptFatal
<1>4. CASE StopAccepting \/ Pool \/ Idle \/ UNCHANGED vars
  BY <1>0, <1>4 DEF StopAccepting, Pool, Idle, vars
<1>5. ASSUME NEW t \in Thread, Close(t) PROVE ServerTypes'
  BY <1>0, <1>5 DEF Close
<1>6. ASSUME NEW c \in Conn, Watch(c) \/ KeepAliveEnds(c) PROVE ServerTypes'
  BY <1>0, <1>6 DEF Watch, KeepAliveEnds
<1>7. ASSUME NEW c \in Conn, ReadRequest(c) PROVE ServerTypes'
  BY <1>0, <1>7 DEF ReadRequest
<1>8. ASSUME NEW c \in Conn, LockBuild(c) PROVE ServerTypes'
  BY <1>0, <1>8 DEF LockBuild
<1>9. ASSUME NEW c \in Conn, OpenFile(c) PROVE ServerTypes'
  BY <1>0, <1>9 DEF OpenFile
<1>10. ASSUME NEW c \in Conn, Answer(c), leaked' \in 0 .. MaxFiles PROVE ServerTypes'
  <2>1. count[c] \in 0 .. KeepAliveMax /\ count[c] > 0
    BY <1>0, <1>10 DEF Answer, Remaining
  <2>2. count[c] - 1 \in 0 .. KeepAliveMax
    BY <2>1, HttpServerAssumption
  <2>3. count' \in [Conn -> 0 .. KeepAliveMax]
    BY <1>0, <1>10, <2>2 DEF Answer
  <2>4. /\ files' \in [Conn -> Nat] /\ holder' \in Conn \cup {NoConn} /\ served' \subseteq Conn
        /\ stage' \in [Conn -> Accepted \cup {"backlog", "refused", "closed"}]
        /\ UNCHANGED <<listening, inbox, sends>>
    BY <1>0, <1>10 DEF Answer
  <2> QED
    BY <1>0, <1>10, <2>3, <2>4
<1>11. ASSUME NEW c \in Conn, Respond(c) \/ Throw(c) PROVE ServerTypes'
  BY <1>0, <1>10, <1>11 DEF Respond, Throw
<1>12. ASSUME NEW c \in Conn, ThrowUnmapped(c) PROVE ServerTypes'
  <2>1. leaked' \in 0 .. MaxFiles /\ Answer(c)
    BY <1>0, <1>12, LeakCounted, HttpServerAssumption DEF ThrowUnmapped
  <2> QED
    BY <1>10, <2>1
<1> QED
  BY <1>1, <1>2, <1>3, <1>4, <1>5, <1>6, <1>7, <1>8, <1>9, <1>11, <1>12 DEF Next, ConnStep

(* Every step keeps an accepted connection in the queue or with a thread.  *)
LEMMA AttendedStep == ServerInv /\ [Next]_vars => Attended'
<1> SUFFICES ASSUME ServerInv, [Next]_vars, owner' # "terminated",
                    NEW c \in Conn, stage'[c] \in Accepted
             PROVE  (\E i \in DOMAIN jobs' : jobs'[i] = c) \/ \E t \in Thread : job'[t] = c
  BY DEF Attended
<1> DEFINE Seen == (\E i \in DOMAIN jobs : jobs[i] = c) \/ \E t \in Thread : job[t] = c
<1>0. /\ ServerTypes /\ jobs \in Seq(Job) /\ job \in [Thread -> Job \cup {NoJob}]
      /\ RunsJob /\ NoJob \notin Conn
  BY ThreadPoolAssumption DEF ServerInv, TypeOK, ServerTypes, PoolInv, PoolTypeOK, Conn
<1>1. owner # "terminated"
  <2>1. SUFFICES ASSUME owner = "terminated" PROVE FALSE
    OBVIOUS
  <2>2. \A t \in Thread : at[t] = "none" /\ job[t] = NoJob
    BY <1>0, <2>1 DEF ServerInv, PoolInv, Listed, Phases, In, RunsJob
  <2>3. owner' = owner
    BY <2>1, <2>2
    DEF Next, vars, poolVars, Idle, Accept, Enqueue, AcceptFatal, StopAccepting, Shutdown, Pool,
        OwnerStep, SpawnBase, Constructed, SpawnDynamic, Notify, NotifyAll, JoinBase, TakeDynamic,
        JoinRest, SpawnFailure, SpawnBaseFails, SpawnDynamicFails, WorkerStep, Sleep, Take,
        WaitAgain, TimeOut, End, Close, Return, Send, ConnStep, LockBuild, ThrowUnmapped, Watch,
        KeepAliveEnds, ReadRequest, OpenFile, Respond, Throw, Answer
  <2> QED
    BY <2>1, <2>3
<1>2. stage[c] \in Accepted => Seen
  BY <1>1 DEF ServerInv, Attended
<1>3. ASSUME stage[c] \in Accepted, UNCHANGED <<jobs, job>>
      PROVE  (\E i \in DOMAIN jobs' : jobs'[i] = c) \/ \E t \in Thread : job'[t] = c
  BY <1>2, <1>3
<1> USE DEF Enter, Accepted
<1>4. ASSUME NEW d \in Conn, Accept(d)
      PROVE  \/ \E i \in DOMAIN jobs' : jobs'[i] = c
             \/ \E t \in Thread : job'[t] = c
  <2>1. jobs' = Append(jobs, d) /\ job' = job /\ d \in Job
    BY <1>4 DEF Accept, Enqueue, Conn
  <2>2. /\ DOMAIN jobs' = 1 .. Len(jobs) + 1 /\ jobs'[Len(jobs) + 1] = d
        /\ Len(jobs) + 1 \in DOMAIN jobs'
        /\ \A i \in DOMAIN jobs : i \in DOMAIN jobs' /\ jobs'[i] = jobs[i]
    BY <1>0, <2>1
  <2>3. CASE c = d
    BY <2>2, <2>3
  <2>4. CASE c # d
    <3>1. stage[c] \in Accepted
      BY <1>0, <1>4, <2>4 DEF Accept, ServerTypes
    <3> QED
      BY <1>2, <2>1, <2>2, <3>1
  <2> QED
    BY <2>3, <2>4
<1>5. ASSUME NEW t \in Thread, Take(t), UNCHANGED stage
      PROVE  \/ \E i \in DOMAIN jobs' : jobs'[i] = c
             \/ \E u \in Thread : job'[u] = c
  <2>1. CASE jobs = <<>>
    BY <1>3, <1>5, <2>1 DEF Take
  <2>2. CASE jobs # <<>>
    <3>1. jobs' = Tail(jobs) /\ job' = [job EXCEPT ![t] = Head(jobs)] /\ job[t] = NoJob
      BY <1>0, <1>5, <2>2 DEF Take, RunsJob
    <3>2. /\ DOMAIN jobs' = 1 .. Len(jobs) - 1 /\ Head(jobs) = jobs[1]
          /\ \A i \in 1 .. Len(jobs) - 1 : jobs'[i] = jobs[i + 1]
          /\ Len(jobs) \in Nat /\ DOMAIN jobs = 1 .. Len(jobs)
      BY <1>0, <2>2, <3>1, QueueTaken
    <3>3. CASE \E u \in Thread : job[u] = c
      BY <1>0, <3>1, <3>3
    <3>4. ASSUME NEW i \in DOMAIN jobs, jobs[i] = c
          PROVE  \/ \E k \in DOMAIN jobs' : jobs'[k] = c
                 \/ \E u \in Thread : job'[u] = c
      <4>1. CASE i = 1
        BY <1>0, <3>1, <3>2, <3>4, <4>1
      <4>2. CASE i # 1
        <5>1. i - 1 \in 1 .. Len(jobs) - 1 /\ (i - 1) + 1 = i
          BY <3>2, <4>2
        <5> QED
          BY <3>2, <3>4, <5>1
      <4> QED
        BY <4>1, <4>2
    <3> QED
      BY <1>2, <1>5, <3>3, <3>4
  <2> QED
    BY <2>1, <2>2
<1>6. CASE Pool
  <2>1. UNCHANGED stage
    BY <1>6 DEF Pool, connVars
  <2>2. CASE OwnerStep \/ SpawnFailure
    BY <1>3, <2>1, <2>2
    DEF OwnerStep, SpawnFailure, SpawnBase, Constructed, SpawnDynamic, Notify, NotifyAll, JoinBase,
        TakeDynamic, JoinRest, SpawnBaseFails, SpawnDynamicFails
  <2>3. ASSUME NEW t \in Thread, WorkerStep(t)
        PROVE  \/ \E i \in DOMAIN jobs' : jobs'[i] = c
               \/ \E u \in Thread : job'[u] = c
    BY <1>3, <1>5, <2>1, <2>3 DEF WorkerStep, Sleep, WaitAgain, TimeOut, End
  <2> QED
    BY <1>6, <2>2, <2>3 DEF Pool
<1>7. ASSUME NEW t \in Thread, Close(t)
      PROVE  \/ \E i \in DOMAIN jobs' : jobs'[i] = c
             \/ \E u \in Thread : job'[u] = c
  <2>1. /\ stage' = [stage EXCEPT ![job[t]] = "closed"]
        /\ jobs' = jobs /\ job' = [job EXCEPT ![t] = NoJob] /\ job[t] # NoJob
    BY <1>7 DEF Close, Return
  <2>2. job[t] \in Conn
    BY <1>0, <2>1 DEF Conn
  <2>3. c # job[t] /\ stage[c] \in Accepted
    BY <1>0, <2>1, <2>2 DEF ServerTypes
  <2> QED
    BY <1>0, <1>2, <2>1, <2>3
<1>8. ASSUME NEW d \in Conn,
             Send(d) \/ ConnStep(d) \/ LockBuild(d) \/ ThrowUnmapped(d)
      PROVE  stage[c] \in Accepted /\ UNCHANGED <<jobs, job>>
  BY <1>0, <1>8 DEF ServerTypes, poolVars, Send, ConnStep, LockBuild, ThrowUnmapped, Watch,
     KeepAliveEnds, ReadRequest, OpenFile, Respond, Throw, Answer
<1>9. CASE AcceptFatal \/ StopAccepting \/ Idle \/ UNCHANGED vars
  BY <1>0, <1>3, <1>9
  DEF ServerTypes, AcceptFatal, StopAccepting, Shutdown, Idle, vars, poolVars, connVars
<1> QED
  BY <1>3, <1>4, <1>6, <1>7, <1>8, <1>9 DEF Next

(* The pool stops accepting before it stops; a closed socket has no backlog.*)
LEMMA SocketClosedStep == ServerInv /\ [Next]_vars => SocketClosed'
<1> SUFFICES ASSUME ServerInv, [Next]_vars PROVE SocketClosed'
  OBVIOUS
<1>0. ServerTypes /\ SocketClosed
  BY DEF ServerInv, TypeOK, ServerTypes
<1> USE DEF Enter, SocketClosed
<1>1. ASSUME NEW c \in Conn, Accept(c) PROVE SocketClosed'
  <2>1. listening' /\ owner' \in {"cleaning", "notifying"}
    BY <1>1 DEF Accept, Enqueue
  <2> QED
    BY <2>1 DEF Down
<1>2. CASE AcceptFatal
  BY <1>0, <1>2 DEF AcceptFatal, ServerTypes
<1>3. CASE StopAccepting
  BY <1>0, <1>3 DEF StopAccepting, connVars
<1>4. CASE Pool
  <2>1. UNCHANGED <<stage, listening>>
    BY <1>4 DEF Pool, connVars
  <2>2. owner' \in {"stopping", "joining"} \cup Down => owner \in {"stopping", "joining"} \cup Down
    BY <1>4
    DEF Down, Pool, OwnerStep, SpawnBase, Constructed, SpawnDynamic, Notify, NotifyAll, JoinBase,
        TakeDynamic, JoinRest, SpawnFailure, SpawnBaseFails, SpawnDynamicFails, WorkerStep, Sleep,
        Take, WaitAgain, TimeOut, End
  <2> QED
    BY <1>0, <2>1, <2>2
<1>5. ASSUME NEW t \in Thread, Close(t) PROVE SocketClosed'
  BY <1>0, <1>5 DEF Close, Return, ServerTypes
<1>6. ASSUME NEW c \in Conn, Send(c) \/ ConnStep(c) \/ LockBuild(c) \/ ThrowUnmapped(c)
      PROVE  SocketClosed'
  <2>1. /\ UNCHANGED <<owner, listening>>
        /\ \A d \in Conn : stage[d] # "backlog" => stage'[d] # "backlog"
    BY <1>0, <1>6 DEF ServerTypes, poolVars, Send, ConnStep, LockBuild, ThrowUnmapped, Watch,
       KeepAliveEnds, ReadRequest, OpenFile, Respond, Throw, Answer
  <2> QED
    BY <1>0, <2>1
<1>7. CASE Idle \/ UNCHANGED vars
  BY <1>0, <1>7 DEF Idle, vars, poolVars, connVars
<1> QED
  BY <1>1, <1>2, <1>3, <1>4, <1>5, <1>6, <1>7 DEF Next

(* The keep-alive loop goes on only while it may serve another request.    *)
LEMMA RemainingStep == ServerInv /\ [Next]_vars => Remaining'
<1> SUFFICES ASSUME ServerInv, [Next]_vars PROVE Remaining'
  OBVIOUS
<1>0. ServerTypes /\ Remaining
  BY DEF ServerInv, TypeOK, ServerTypes
<1> USE DEF Enter, Remaining
<1>1. ASSUME NEW c \in Conn, Send(c) \/ Accept(c) \/ Watch(c) \/ KeepAliveEnds(c)
                             \/ ReadRequest(c) \/ LockBuild(c) \/ OpenFile(c)
      PROVE  Remaining'
  BY <1>0, <1>1
  DEF ServerTypes, Send, Accept, Watch, KeepAliveEnds, ReadRequest, LockBuild, OpenFile
<1>2. ASSUME NEW c \in Conn, Answer(c) PROVE Remaining'
  <2>1. count[c] \in Nat /\ count[c] > 0
    BY <1>0, <1>2, HttpServerAssumption DEF Answer, ServerTypes
  <2>2. count[c] # 1 => count[c] - 1 > 0
    BY <2>1
  <2>3. /\ stage' = [stage EXCEPT ![c] = IF count[c] = 1 THEN "closing" ELSE "open"]
        /\ count' = [count EXCEPT ![c] = @ - 1]
    BY <1>2 DEF Answer
  <2> QED
    BY <1>0, <2>2, <2>3 DEF ServerTypes
<1>3. CASE AcceptFatal
  BY <1>0, <1>3 DEF AcceptFatal, ServerTypes
<1>4. CASE StopAccepting \/ Pool \/ Idle \/ UNCHANGED vars
  BY <1>0, <1>4 DEF StopAccepting, Pool, Idle, vars, connVars
<1>5. ASSUME NEW t \in Thread, Close(t) PROVE Remaining'
  BY <1>0, <1>5 DEF Close, ServerTypes
<1> QED
  BY <1>1, <1>2, <1>3, <1>4, <1>5 DEF Next, ConnStep, Respond, Throw, ThrowUnmapped

-----------------------------------------------------------------------------
(* What opening one more file, and closing all of a request, does to the   *)
(* set of open files.                                                      *)
LEMMA FileOpened ==
  ASSUME NEW c \in Conn, files \in [Conn -> Nat], files' = [files EXCEPT ![c] = @ + 1],
         IsFiniteSet(OpenFiles)
  PROVE  IsFiniteSet(OpenFiles') /\ Cardinality(OpenFiles') = Cardinality(OpenFiles) + 1
<1> DEFINE new == <<c, files[c] + 1>>
<1>1. OpenFiles' = OpenFiles \cup {new}
  <2>1. \A d \in Conn : {d} \X (1 .. files'[d])
          = IF d = c THEN ({d} \X (1 .. files[d])) \cup {new} ELSE {d} \X (1 .. files[d])
    <3>1. 1 .. files[c] + 1 = (1 .. files[c]) \cup {files[c] + 1}
      OBVIOUS
    <3> QED
      BY <3>1
  <2> QED
    BY <2>1 DEF OpenFiles
<1>2. new \notin OpenFiles
  BY DEF OpenFiles
<1> HIDE DEF new
<1> QED
  BY <1>1, <1>2, FS_AddElement

(* A connection that closes its files takes them from the open ones.       *)
LEMMA FilesClosed ==
  ASSUME NEW c \in Conn, files \in [Conn -> Nat], files' = [files EXCEPT ![c] = 0],
         IsFiniteSet(OpenFiles)
  PROVE  IsFiniteSet(OpenFiles') /\ Cardinality(OpenFiles') = Cardinality(OpenFiles) - files[c]
<1> DEFINE own == {c} \X (1 .. files[c])
<1>1. IsFiniteSet(own) /\ Cardinality(own) = files[c]
  <2>1. IsFiniteSet(1 .. files[c]) /\ Cardinality(1 .. files[c]) = files[c]
    BY FS_Interval
  <2>2. IsFiniteSet({c}) /\ Cardinality({c}) = 1
    BY FS_Singleton
  <2> QED
    BY <2>1, <2>2, FS_Product
<1>2. OpenFiles' = OpenFiles \ own
  <2>1. \A d \in Conn : {d} \X (1 .. files'[d])
          = IF d = c THEN {} ELSE {d} \X (1 .. files[d])
    OBVIOUS
  <2> QED
    BY <2>1 DEF OpenFiles
<1>3. OpenFiles \cap own = own
  BY DEF OpenFiles
<1> HIDE DEF own
<1>4. /\ IsFiniteSet(OpenFiles \ own)
      /\ Cardinality(OpenFiles \ own) = Cardinality(OpenFiles) - Cardinality(OpenFiles \cap own)
  BY FS_Difference
<1> QED
  BY <1>1, <1>2, <1>3, <1>4

(* Every step keeps the account of the descriptors.                        *)
LEMMA AccountedStep == ServerInv /\ [Next]_vars => Accounted'
<1> SUFFICES ASSUME ServerInv, [Next]_vars PROVE Accounted'
  OBVIOUS
<1>0. /\ ServerTypes /\ Accounted /\ used \in Nat /\ leaked \in Nat
      /\ Cardinality(AcceptedSet) \in Nat /\ Cardinality(OpenFiles) \in Nat
  BY FS_CardinalityType DEF ServerInv, TypeOK, ServerTypes, Accounted
<1>1. ASSUME AcceptedSet' = AcceptedSet, OpenFiles' = OpenFiles,
             UNCHANGED <<listening, used, leaked>>
      PROVE  Accounted'
  BY <1>0, <1>1 DEF Accounted, OpenCounted, AcceptedSet
<1>2. ASSUME UNCHANGED files PROVE OpenFiles' = OpenFiles
  BY <1>2 DEF OpenFiles
<1>3. ASSUME NEW c \in Conn, stage[c] \in Accepted, NEW s \in Accepted, Enter(c, s)
      PROVE  AcceptedSet' = AcceptedSet
  BY <1>0, <1>3 DEF AcceptedSet, Enter, ServerTypes
<1>a. Accounted' <=>
        /\ IsFiniteSet(AcceptedSet') /\ IsFiniteSet(OpenFiles')
        /\ used' = (IF listening' THEN 1 ELSE 0) + Cardinality(AcceptedSet')
                   + Cardinality(OpenFiles') + leaked'
  BY DEF Accounted, OpenCounted, AcceptedSet
<1>b. /\ IsFiniteSet(AcceptedSet) /\ IsFiniteSet(OpenFiles)
      /\ used = (IF listening THEN 1 ELSE 0) + Cardinality(AcceptedSet)
                + Cardinality(OpenFiles) + leaked
  BY <1>0 DEF Accounted, OpenCounted, AcceptedSet
<1>4. ASSUME NEW c \in Conn, Send(c) PROVE Accounted'
  BY <1>1, <1>2, <1>4 DEF Send, AcceptedSet
<1>5. ASSUME NEW c \in Conn, Accept(c) PROVE Accounted'
  <2>1. /\ OpenFiles' = OpenFiles /\ used' = used + 1
        /\ UNCHANGED <<listening, leaked>>
    BY <1>2, <1>5 DEF Accept
  <2>2. AcceptedSet' = AcceptedSet \cup {c} /\ c \notin AcceptedSet
    BY <1>0, <1>5 DEF Accept, Enter, AcceptedSet, Accepted, ServerTypes
  <2>3. IsFiniteSet(AcceptedSet') /\ Cardinality(AcceptedSet') = Cardinality(AcceptedSet) + 1
    BY <1>b, <2>2, FS_AddElement
  <2> QED
    BY <1>0, <1>a, <1>b, <2>1, <2>3
<1>6. CASE AcceptFatal
  <2>1. /\ OpenFiles' = OpenFiles /\ used' = used - 1 /\ listening /\ ~listening'
        /\ UNCHANGED leaked
    BY <1>2, <1>6 DEF AcceptFatal
  <2>2. AcceptedSet' = AcceptedSet
    BY <1>0, <1>6 DEF AcceptFatal, AcceptedSet, Accepted, ServerTypes
  <2> QED
    BY <1>0, <1>a, <1>b, <2>1, <2>2
<1>7. CASE StopAccepting \/ Pool \/ Idle \/ UNCHANGED vars
  <2>1. UNCHANGED <<stage, files, listening, used, leaked>>
    BY <1>7 DEF StopAccepting, Pool, Idle, vars, connVars
  <2> QED
    BY <1>1, <1>2, <2>1 DEF AcceptedSet
<1>8. ASSUME NEW t \in Thread, Close(t) PROVE Accounted'
  <2>1. /\ OpenFiles' = OpenFiles /\ used' = used - 1 /\ UNCHANGED <<listening, leaked>>
    BY <1>2, <1>8 DEF Close
  <2>2. job[t] \in Conn
    BY <1>8 DEF Close, ServerInv, TypeOK, PoolTypeOK, Conn
  <2>3. AcceptedSet' = AcceptedSet \ {job[t]} /\ job[t] \in AcceptedSet
    BY <1>0, <1>8, <2>2 DEF Close, Enter, AcceptedSet, Accepted, ServerTypes
  <2>4. IsFiniteSet(AcceptedSet') /\ Cardinality(AcceptedSet') = Cardinality(AcceptedSet) - 1
    BY <1>b, <2>3, FS_RemoveElement
  <2> QED
    BY <1>0, <1>a, <1>b, <2>1, <2>4
<1>9. ASSUME NEW c \in Conn, Watch(c) \/ KeepAliveEnds(c) \/ ReadRequest(c) \/ LockBuild(c)
      PROVE  Accounted'
  <2>1. UNCHANGED <<files, listening, used, leaked>>
    BY <1>9 DEF Watch, KeepAliveEnds, ReadRequest, LockBuild
  <2>2. AcceptedSet' = AcceptedSet
    BY <1>3, <1>9 DEF Watch, KeepAliveEnds, ReadRequest, LockBuild, Accepted
  <2> QED
    BY <1>1, <1>2, <2>1, <2>2
<1>10. ASSUME NEW c \in Conn, OpenFile(c) PROVE Accounted'
  <2>1. /\ AcceptedSet' = AcceptedSet /\ used' = used + 1 /\ UNCHANGED <<listening, leaked>>
    BY <1>10 DEF OpenFile, AcceptedSet
  <2>2. IsFiniteSet(OpenFiles') /\ Cardinality(OpenFiles') = Cardinality(OpenFiles) + 1
    BY <1>0, <1>b, <1>10, FileOpened DEF OpenFile, ServerTypes
  <2> QED
    BY <1>0, <1>a, <1>b, <2>1, <2>2
<1>11. ASSUME NEW c \in Conn, Answer(c), used' - leaked' = used - leaked - files[c],
              used' \in Int, leaked' \in Int
       PROVE  Accounted'
  <2>1. AcceptedSet' = AcceptedSet
    BY <1>3, <1>11 DEF Answer, Accepted
  <2>2. /\ IsFiniteSet(OpenFiles') /\ Cardinality(OpenFiles') = Cardinality(OpenFiles) - files[c]
        /\ files[c] \in Nat /\ UNCHANGED listening
    BY <1>0, <1>b, <1>11, FilesClosed DEF Answer, ServerTypes
  <2> QED
    BY <1>0, <1>a, <1>b, <1>11, <2>1, <2>2
<1>12. ASSUME NEW c \in Conn, Respond(c) \/ Throw(c) \/ ThrowUnmapped(c) PROVE Accounted'
  <2>1. files[c] \in Nat
    BY <1>0 DEF ServerTypes
  <2> QED
    BY <1>0, <1>11, <1>12, <2>1 DEF Respond, Throw, ThrowUnmapped
<1> QED
  BY <1>4, <1>5, <1>6, <1>7, <1>8, <1>9, <1>10, <1>12 DEF Next, ConnStep

(* No more descriptors are in use than there are.                          *)
LEMMA UsedStep == ServerInv /\ [Next]_vars => used' \in 0 .. MaxFiles
<1> SUFFICES ASSUME ServerInv, [Next]_vars PROVE used' \in 0 .. MaxFiles
  OBVIOUS
<1>0. used \in 0 .. MaxFiles /\ files \in [Conn -> Nat] /\ MaxFiles \in Nat
  BY HttpServerAssumption DEF ServerInv, TypeOK
<1>1. used' >= 0 /\ used' \in Int
  <2>1. /\ Accounted' /\ leaked' \in Nat
    BY AccountedStep, ServerTypesStep DEF ServerTypes
  <2>2. Cardinality(AcceptedSet') \in Nat /\ Cardinality(OpenFiles') \in Nat
    BY <2>1, FS_CardinalityType DEF Accounted
  <2> QED
    BY <2>1, <2>2 DEF Accounted, OpenCounted, AcceptedSet
<1>2. ASSUME NEW c \in Conn, Send(c) \/ Accept(c) \/ ConnStep(c) \/ LockBuild(c) \/ ThrowUnmapped(c)
      PROVE  used' <= MaxFiles
  <2>1. files[c] \in Nat
    BY <1>0
  <2> QED
    BY <1>0, <1>2, <2>1
    DEF Send, Accept, ConnStep, LockBuild, ThrowUnmapped, Watch, KeepAliveEnds, ReadRequest,
        OpenFile, Respond, Throw
<1>3. CASE AcceptFatal \/ StopAccepting \/ Pool \/ Idle \/ UNCHANGED vars
  BY <1>0, <1>1, <1>3 DEF AcceptFatal, StopAccepting, Pool, Idle, vars, connVars
<1>4. ASSUME NEW t \in Thread, Close(t) PROVE used' <= MaxFiles
  BY <1>0, <1>4 DEF Close
<1> QED
  BY <1>0, <1>1, <1>2, <1>3, <1>4 DEF Next

(* Leaks stop short of the last descriptor that a connection needs.        *)
LEMMA LeaksSpareStep == ServerInv /\ [Next]_vars => LeaksSpareAConnection'
<1> SUFFICES ASSUME ServerInv, [Next]_vars PROVE LeaksSpareAConnection'
  OBVIOUS
<1>0. LeaksSpareAConnection
  BY DEF ServerInv
<1>1. ASSUME NEW c \in Conn, ThrowUnmapped(c) PROVE LeaksSpareAConnection'
  BY <1>1, LeakCounted DEF LeaksSpareAConnection, ThrowUnmapped, Answer
<1>2. ASSUME NEW c \in Conn, Send(c) \/ Accept(c) \/ ConnStep(c) \/ LockBuild(c)
      PROVE  UNCHANGED <<listening, leaked>>
  BY <1>2 DEF Send, Accept, ConnStep, LockBuild, Watch, KeepAliveEnds, ReadRequest,
              OpenFile, Respond, Throw, Answer
<1>3. ASSUME NEW t \in Thread, Close(t) PROVE UNCHANGED <<listening, leaked>>
  BY <1>3 DEF Close
<1>4. CASE AcceptFatal
  BY <1>4 DEF AcceptFatal, LeaksSpareAConnection
<1>5. CASE StopAccepting \/ Pool \/ Idle \/ UNCHANGED vars
  BY <1>0, <1>5 DEF StopAccepting, Pool, Idle, vars, connVars, LeaksSpareAConnection
<1> QED
  BY <1>0, <1>1, <1>2, <1>3, <1>4, <1>5 DEF Next, LeaksSpareAConnection

-----------------------------------------------------------------------------
(* The invariant of the server holds.                                      *)
THEOREM HttpServerInvariant == Spec => []ServerInv
<1>1. ServerInv /\ [Next]_vars => ServerInv'
  <2> SUFFICES ASSUME ServerInv, [Next]_vars PROVE ServerInv'
    OBVIOUS
  <2>1. PoolInv'
    BY StepOfPool, PoolInvStep DEF ServerInv
  <2>2. TypeOK'
    BY <2>1, ServerTypesStep, UsedStep DEF TypeOK, ServerTypes, PoolInv
  <2> QED
    BY <2>1, <2>2, AttendedStep, SocketClosedStep, RemainingStep, AccountedStep,
       LeaksSpareStep DEF ServerInv
<1> QED
  BY ServerInit, <1>1, PTL DEF Spec

(* Every variable keeps its type.                                          *)
THEOREM HttpServerTypeOK == Spec => []TypeOK
<1>1. ServerInv => TypeOK
  BY DEF ServerInv
<1> QED
  BY <1>1, HttpServerInvariant, PTL

(* No job in the queue of the pool is left to a thread that sleeps.        *)
THEOREM PoolNoStrandedJob == Spec => []NoStrandedJob
<1>1. ServerInv => NoStrandedJob
  BY PoolInvUse DEF ServerInv
<1> QED
  BY <1>1, HttpServerInvariant, PTL

(* There are never more threads to join than the maximum, and those that   *)
(* there are, are in the lists.                                            *)
THEOREM PoolThreadsBounded == Spec => []ThreadsBounded
<1>1. ServerInv => ThreadsBounded
  BY PoolInvUse DEF ServerInv
<1> QED
  BY <1>1, HttpServerInvariant, PTL

(* No path through the server loses a descriptor or closes one twice, and  *)
(* however many the handlers leak, one is left for a connection.           *)
THEOREM ServerDescriptorsAccounted == Spec => []DescriptorsAccounted
<1>1. ServerInv => DescriptorsAccounted
  BY DEF ServerInv, Accounted, DescriptorsAccounted
<1> QED
  BY <1>1, HttpServerInvariant, PTL

(* When listen() returns, all jobs are run, all threads joined and all     *)
(* accepted connections served to their end.                               *)
THEOREM ServerReturnsServed == Spec => []ReturnsServed
<1>1. ServerInv => ReturnsServed
  <2> SUFFICES ASSUME ServerInv PROVE ReturnsServed
    OBVIOUS
  <2>1. Drained
    BY PoolInvUse DEF ServerInv
  <2>2. ASSUME owner = "down", NEW c \in Conn PROVE stage[c] \in {"closed", "refused"}
    <3>1. jobs = <<>> /\ \A t \in Thread : job[t] = NoJob
      BY <2>1, <2>2 DEF Drained, In, ServerInv, PoolInv, RunsJob
    <3>2. stage[c] \notin Accepted
      BY <2>2, <3>1, ThreadPoolAssumption DEF ServerInv, Attended, Conn
    <3>3. stage[c] # "backlog"
      BY <2>2 DEF ServerInv, SocketClosed, Down
    <3> QED
      BY <3>2, <3>3 DEF ServerInv, TypeOK
  <2> QED
    BY <2>1, <2>2 DEF ReturnsServed
<1> QED
  BY <1>1, HttpServerInvariant, PTL
=============================================================================
