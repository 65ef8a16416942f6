--------------------------------- MODULE Fifo ---------------------------------
(***************************************************************************)
(* The job queue of src/rpc/fifo.h and the thread pool of                  *)
(* src/rpc/thr_pool.h that runs RPC handlers from it: enq and deq under    *)
(* one mutex, with a condition variable for "not empty" and one for "has   *)
(* space", each signalled for a single waiter.                             *)
(*                                                                         *)
(* A step is one critical section under m_.  Job is the memory the         *)
(* objfunc_wrapper of a job can live in.                                   *)
(***************************************************************************)
EXTENDS Integers, Sequences, FiniteSets

CONSTANTS
  Producer,   \* threads that call addObjJob
  Worker,     \* threads of the pool
  Job, NoJob,
  Max,        \* max_ of the queue, 0 when it is unbounded
  Blocking    \* the producers that call enq with blocking set

ASSUME FifoAssumption ==
  /\ IsFiniteSet(Producer) /\ IsFiniteSet(Worker)
  /\ Producer \cap Worker = {}
  /\ NoJob \notin Job
  /\ Max \in Nat
  /\ Blocking \subseteq Producer

VARIABLES
  q,          \* q_
  woken,      \* threads in pthread_cond_wait that may return from it
  live,       \* objfunc_wrappers that were allocated and not deleted
  job,        \* the job each thread adds or runs
  pc

vars == <<q, woken, live, job, pc>>

Thread == Producer \cup Worker

(* Producers: idle, enq (before m_), full (waiting on has_space_c_).       *)
(* Workers: deq (before m_), empty (waiting on non_empty_c_), run.         *)
Label == {"idle", "enq", "full", "deq", "empty", "run"}

Full == {p \in Producer : pc[p] = "full"}

Empty == {w \in Worker : pc[w] = "empty"}

HasSpace(s) == Max = 0 \/ Len(s) < Max

TypeOK ==
  /\ q \in Seq(Job)
  /\ woken \subseteq Full \cup Empty
  /\ live \subseteq Job
  /\ job \in [Thread -> Job \cup {NoJob}]
  /\ pc \in [Thread -> Label]

Init ==
  /\ q = <<>>
  /\ woken = {}
  /\ live = {}
  /\ job = [t \in Thread |-> NoJob]
  /\ pc = [t \in Thread |-> IF t \in Producer THEN "idle" ELSE "deq"]

Goto(t, l) == pc' = [pc EXCEPT ![t] = l]

(* Mutant: a signal that wakes nobody. *)
MutantSignal(W, t) == woken' = woken \ {t}

(* pthread_cond_signal for the threads of W, after t left woken. *)
Signal(W, t) ==
  LET asleep == W \ (woken \cup {t})
  IN  \/ asleep = {} /\ woken' = woken \ {t}
      \/ \E u \in asleep : woken' = (woken \ {t}) \cup {u}

(* t is before m_, or pthread_cond_wait returned to it with m_. *)
Runs(t, l, asleep) == pc[t] = l \/ (pc[t] = asleep /\ t \in woken)

-----------------------------------------------------------------------------
(* Mutants: how each operation below could plausibly be wrong. *)

(* enq that signals only when the queue was empty. *)
MutantEnqPush(p) ==
  /\ Runs(p, "enq", "full")
  /\ HasSpace(q)
  /\ q' = Append(q, job[p])
  /\ IF q = <<>> THEN Signal(Empty, p) ELSE woken' = woken \ {p}
  /\ Goto(p, "idle")
  /\ job' = [job EXCEPT ![p] = NoJob]
  /\ UNCHANGED live

(* deq that signals only when the queue was full. *)
MutantDeqPop(w) ==
  /\ Runs(w, "deq", "empty")
  /\ q # <<>>
  /\ job' = [job EXCEPT ![w] = Head(q)]
  /\ q' = Tail(q)
  /\ IF Max # 0 /\ Len(q) = Max /\ woken \cap Full = {}
     THEN Signal(Full, w) ELSE woken' = woken \ {w}
  /\ Goto(w, "run")
  /\ UNCHANGED live

(* A worker that deletes the wrapper before it has taken the job over. *)
MutantEnqDelete(p) ==
  /\ Runs(p, "enq", "full")
  /\ HasSpace(q)
  /\ q' = Append(q, job[p])
  /\ Signal(Empty, p)
  /\ Goto(p, "idle")
  /\ live' = live \ {job[p]}
  /\ job' = [job EXCEPT ![p] = NoJob]

-----------------------------------------------------------------------------
(* ThrPool::addObjJob: a new wrapper, then addJob. *)
AddObjJob(p) ==
  /\ pc[p] = "idle"
  /\ \E x \in Job \ live :
       /\ live' = live \cup {x}
       /\ job' = [job EXCEPT ![p] = x]
  /\ Goto(p, "enq")
  /\ UNCHANGED <<q, woken>>

(* fifo::enq: there is space. *)
EnqPush(p) ==
  /\ Runs(p, "enq", "full")
  /\ HasSpace(q)
  /\ q' = Append(q, job[p])
  /\ Signal(Empty, p)
  /\ Goto(p, "idle")
  /\ job' = [job EXCEPT ![p] = NoJob]
  /\ UNCHANGED live

(* fifo::enq: full, it waits. *)
EnqWait(p) ==
  /\ Runs(p, "enq", "full")
  /\ ~HasSpace(q)
  /\ p \in Blocking
  /\ woken' = woken \ {p}
  /\ Goto(p, "full")
  /\ UNCHANGED <<q, live, job>>

(* fifo::enq: full, it returns false; the wrapper stays allocated. *)
EnqRefuse(p) ==
  /\ pc[p] = "enq"
  /\ ~HasSpace(q)
  /\ p \notin Blocking
  /\ Goto(p, "idle")
  /\ job' = [job EXCEPT ![p] = NoJob]
  /\ UNCHANGED <<q, woken, live>>

(* fifo::deq: nothing there, it waits. *)
DeqWait(w) ==
  /\ Runs(w, "deq", "empty")
  /\ q = <<>>
  /\ woken' = woken \ {w}
  /\ Goto(w, "empty")
  /\ UNCHANGED <<q, live, job>>

(* fifo::deq: the first job; has_space_c_ is signalled if max_ is set. *)
DeqPop(w) ==
  /\ Runs(w, "deq", "empty")
  /\ q # <<>>
  /\ job' = [job EXCEPT ![w] = Head(q)]
  /\ q' = Tail(q)
  /\ IF Max # 0 /\ Len(q) - 1 < Max
     THEN Signal(Full, w) ELSE woken' = woken \ {w}
  /\ Goto(w, "run")
  /\ UNCHANGED live

(* objfunc_wrapper::func: the job's method, then delete. *)
RunJob(w) ==
  /\ pc[w] = "run"
  /\ live' = live \ {job[w]}
  /\ Goto(w, "deq")
  /\ job' = [job EXCEPT ![w] = NoJob]
  /\ UNCHANGED <<q, woken>>

(* POSIX lets pthread_cond_wait return without a signal. *)
SpuriousWakeup(t) ==
  /\ t \in (Full \cup Empty) \ woken
  /\ woken' = woken \cup {t}
  /\ UNCHANGED <<q, live, job, pc>>

Next ==
  \/ \E p \in Producer : AddObjJob(p) \/ EnqPush(p) \/ EnqWait(p) \/ EnqRefuse(p)
  \/ \E w \in Worker : DeqWait(w) \/ DeqPop(w) \/ RunJob(w)
  \/ \E t \in Thread : SpuriousWakeup(t)

Spec == Init /\ [][Next]_vars

(* The scheduler runs every thread of the pool and jobs return. *)
Fairness == \A w \in Worker : /\ WF_vars(DeqWait(w) \/ DeqPop(w))
                              /\ WF_vars(RunJob(w))

FairSpec == Spec /\ Fairness

-----------------------------------------------------------------------------
(* enq signals one worker per job.  Whatever other workers take in the     *)
(* meantime, while a worker sleeps unsignalled there are at least as many  *)
(* awake from the wait as there are jobs: no job waits for a sleeper.      *)
WorkerNotForgotten ==
  Empty \ woken # {} => Len(q) <= Cardinality(Empty \cap woken)

(* The same for deq and has_space_c_: while a producer sleeps unsignalled  *)
(* no more places are free than producers are about to use.                *)
ProducerNotForgotten ==
  Full \ woken # {} => Max - Len(q) <= Cardinality(Full \cap woken)

(* max_ bounds the queue. *)
Bounded == Max # 0 => Len(q) <= Max

(* Threads that have a job in hand: adding it, or running it. *)
Busy == {t \in Thread : pc[t] \in {"enq", "full", "run"}}

(* A job that is queued or in hand is a live wrapper, and is in one place  *)
(* only: every job is run once and deleted once.                           *)
JobsDistinct ==
  /\ \A i \in 1 .. Len(q) : q[i] \in live
  /\ \A i, j \in 1 .. Len(q) : q[i] = q[j] => i = j
  /\ \A t \in Busy : job[t] \in live /\ \A i \in 1 .. Len(q) : q[i] # job[t]
  /\ \A t, u \in Busy : job[t] = job[u] => t = u

(* A job that was queued is run. *)
QueuedJobRuns ==
  \A x \in Job : (\E i \in 1 .. Len(q) : q[i] = x) ~> (x \notin live)

=============================================================================
