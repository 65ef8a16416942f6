------------------------------ MODULE FifoProofs ------------------------------
(***************************************************************************)
(* fifo.h loses no wake-up and keeps its bound, for every set of producers *)
(* and workers, every capacity, blocking or not.                           *)
(***************************************************************************)
EXTENDS Fifo, FiniteSetTheorems, TLAPS

(* Threads that return from pthread_cond_wait, by the condition. *)
WokenWorkers == Empty \cap woken
WokenProducers == Full \cap woken

(* Each wake-up invariant is inductive given the types: it counts the      *)
(* signals that are still under way against the jobs, or the places, that  *)
(* they announced.                                                         *)
IInv ==
  TypeOK /\ JobsDistinct /\ WorkerNotForgotten /\ ProducerNotForgotten /\ Bounded

USE FifoAssumption DEF Label, Thread

(* The sets that are counted are finite, now and after a step. *)
LEMMA WokenFinite ==
  /\ IsFiniteSet(WokenWorkers) /\ Cardinality(WokenWorkers) \in Nat
  /\ IsFiniteSet(WokenProducers) /\ Cardinality(WokenProducers) \in Nat
<1>1. WokenWorkers \subseteq Worker /\ WokenProducers \subseteq Producer
  BY DEF WokenWorkers, WokenProducers, Empty, Full
<1> QED
  BY <1>1, FS_Subset, FS_CardinalityType

LEMMA WokenFinitePrime ==
  Cardinality(WokenWorkers') \in Nat /\ Cardinality(WokenProducers') \in Nat
<1>1. WokenWorkers' \subseteq Worker /\ WokenProducers' \subseteq Producer
  BY DEF WokenWorkers, WokenProducers, Empty, Full
<1> QED
  BY <1>1, FS_Subset, FS_CardinalityType

(* One element more, one element less. *)
LEMMA OneMore ==
  ASSUME NEW S, IsFiniteSet(S), NEW x, x \notin S
  PROVE  Cardinality(S \cup {x}) = Cardinality(S) + 1
BY FS_AddElement

LEMMA OneLess ==
  ASSUME NEW S, IsFiniteSet(S), NEW x \in S
  PROVE  Cardinality(S \ {x}) = Cardinality(S) - 1
BY FS_RemoveElement

(* pthread_cond_signal wakes one sleeper if there is one. *)
LEMMA SignalFacts ==
  ASSUME NEW W, NEW t, Signal(W, t)
  PROVE  \/ W \subseteq woken \cup {t} /\ woken' = woken \ {t}
         \/ \E u \in W \ (woken \cup {t}) : woken' = (woken \ {t}) \cup {u}
BY DEF Signal

(* At the start the queue is empty and nobody waits. *)
LEMMA InitIInv == Init => IInv
<1> SUFFICES ASSUME Init PROVE IInv
  OBVIOUS
<1>1. TypeOK /\ Bounded /\ Empty = {} /\ Full = {}
  BY DEF Init, TypeOK, Bounded, Empty, Full
<1>2. JobsDistinct
  BY DEF Init, JobsDistinct, Busy
<1> QED
  BY <1>1, <1>2 DEF IInv, WorkerNotForgotten, ProducerNotForgotten

(* enq with space: the queue grows, p sleeps no more, and one sleeping     *)
(* worker is signalled.                                                    *)
LEMMA EnqPushTypes ==
  ASSUME IInv, NEW p \in Producer, EnqPush(p)
  PROVE  TypeOK' /\ JobsDistinct' /\ Bounded'
<1>1. /\ p \in Busy /\ job[p] \in live /\ live \subseteq Job /\ q \in Seq(Job)
      /\ q' = Append(q, job[p]) /\ live' = live /\ HasSpace(q)
  BY DEF IInv, TypeOK, JobsDistinct, EnqPush, Runs, Busy
<1>2. /\ q' \in Seq(Job) /\ Len(q') = Len(q) + 1 /\ q'[Len(q) + 1] = job[p]
      /\ \A i \in 1 .. Len(q) : q'[i] = q[i]
  BY <1>1
<1>3. /\ job' \in [Thread -> Job \cup {NoJob}] /\ \A t \in Thread \ {p} : job'[t] = job[t]
      /\ pc' \in [Thread -> Label] /\ pc'[p] = "idle"
      /\ \A t \in Thread \ {p} : pc'[t] = pc[t]
  BY DEF IInv, TypeOK, EnqPush, Goto
<1>4. Busy' = Busy \ {p}
  BY <1>3 DEF Busy
<1>5. JobsDistinct'
  BY <1>1, <1>2, <1>3, <1>4 DEF IInv, JobsDistinct, Busy
<1>6. Full' = Full \ {p} /\ Empty' = Empty /\ p \notin Empty
  BY <1>3 DEF Full, Empty
<1>7. woken' \subseteq Full' \cup Empty'
  BY <1>6, SignalFacts DEF EnqPush, IInv, TypeOK
<1>8. Bounded'
  BY <1>1, <1>2 DEF Bounded, HasSpace
<1> QED
  BY <1>1, <1>2, <1>3, <1>5, <1>7, <1>8 DEF TypeOK

LEMMA EnqPushCounts ==
  ASSUME IInv, NEW p \in Producer, EnqPush(p)
  PROVE  WorkerNotForgotten' /\ ProducerNotForgotten'
<1>1. /\ Full' = Full \ {p} /\ Empty' = Empty /\ p \notin Empty
      /\ p \in Full => p \in woken
  BY DEF Full, Empty, EnqPush, Goto, IInv, TypeOK, Runs
<1>2. Len(q') = Len(q) + 1 /\ Len(q) \in Nat
  <2>1. q \in Seq(Job) /\ job[p] \in Job /\ q' = Append(q, job[p])
    BY DEF IInv, TypeOK, JobsDistinct, Busy, EnqPush, Runs
  <2> QED
    BY <2>1
<1>3. WorkerNotForgotten'
  <2>1. CASE Empty \subseteq woken \cup {p} /\ woken' = woken \ {p}
    BY <1>1, <2>1 DEF WorkerNotForgotten
  <2>2. ASSUME NEW u \in Empty \ (woken \cup {p}), woken' = (woken \ {p}) \cup {u}
        PROVE  WorkerNotForgotten'
    <3>1. Empty' \cap woken' = WokenWorkers \cup {u} /\ u \notin WokenWorkers
      BY <1>1, <2>2 DEF WokenWorkers
    <3>2. Cardinality(Empty' \cap woken') = Cardinality(WokenWorkers) + 1
      BY <3>1, WokenFinite, OneMore
    <3>3. Len(q) <= Cardinality(WokenWorkers)
      BY <2>2 DEF IInv, WorkerNotForgotten, WokenWorkers
    <3> QED
      BY <1>2, <3>2, <3>3, WokenFinite DEF WorkerNotForgotten
  <2> QED
    BY <2>1, <2>2, SignalFacts DEF EnqPush
<1>4. ProducerNotForgotten'
  <2>1. woken' \cap Full' = WokenProducers \ {p} /\ Full' \ woken' = Full \ woken
    BY <1>1, SignalFacts DEF EnqPush, WokenProducers, Full, Empty
  <2>2. Cardinality(WokenProducers \ {p}) \in {Cardinality(WokenProducers), Cardinality(WokenProducers) - 1}
    <3>1. CASE p \in WokenProducers
      BY <3>1, WokenFinite, OneLess
    <3>2. CASE p \notin WokenProducers
      <4>1. WokenProducers \ {p} = WokenProducers
        BY <3>2
      <4> QED
        BY <4>1
    <3> QED
      BY <3>1, <3>2
  <2>3. Full \ woken # {} => Max - Len(q) <= Cardinality(WokenProducers)
    BY DEF IInv, ProducerNotForgotten, WokenProducers
  <2>4. Full' \cap woken' = WokenProducers \ {p}
    BY <2>1
  <2>5. Full \ woken # {} => Max - Len(q') <= Cardinality(WokenProducers \ {p})
    BY <1>2, <2>2, <2>3, WokenFinite
  <2> QED
    BY <2>1, <2>4, <2>5 DEF ProducerNotForgotten
<1> QED
  BY <1>3, <1>4

(* deq with a job: the queue shrinks, w sleeps no more, and one sleeping   *)
(* producer is signalled when the capacity is bounded.                     *)
LEMMA DeqPopTypes ==
  ASSUME IInv, NEW w \in Worker, DeqPop(w)
  PROVE  TypeOK' /\ JobsDistinct' /\ Bounded'
<1>1. /\ q \in Seq(Job) /\ q # <<>> /\ q' = Tail(q) /\ live' = live
      /\ live \subseteq Job /\ w \notin Producer
  BY DEF IInv, TypeOK, DeqPop
<1>2. /\ q' \in Seq(Job) /\ Len(q') = Len(q) - 1 /\ Len(q) \in Nat \ {0}
      /\ \A i \in 1 .. Len(q') : q'[i] = q[i + 1] /\ i + 1 \in 2 .. Len(q)
      /\ Head(q) = q[1] /\ Head(q) \in Job
  BY <1>1
<1>3. /\ job' \in [Thread -> Job \cup {NoJob}] /\ job'[w] = q[1]
      /\ \A t \in Thread \ {w} : job'[t] = job[t]
      /\ pc' \in [Thread -> Label] /\ pc'[w] = "run"
      /\ \A t \in Thread \ {w} : pc'[t] = pc[t]
  BY <1>2 DEF IInv, TypeOK, DeqPop, Goto
<1>4. Busy' = Busy \cup {w}
  BY <1>3 DEF Busy
<1>5. JobsDistinct'
  <2>1. \A i \in 1 .. Len(q') : q'[i] \in live' /\ q'[i] # q[1]
    BY <1>1, <1>2 DEF IInv, JobsDistinct
  <2>2. \A i, j \in 1 .. Len(q') : q'[i] = q'[j] => i = j
    <3>1. \A k, l \in 1 .. Len(q) : q[k] = q[l] => k = l
      BY DEF IInv, JobsDistinct
    <3>2. \A i \in 1 .. Len(q') : q'[i] = q[i + 1] /\ i + 1 \in 1 .. Len(q) /\ i \in Nat
      BY <1>2
    <3> QED
      BY <3>1, <3>2
  <2>3. q[1] \in live /\ \A t \in Busy : job[t] # q[1]
    <3>1. 1 \in 1 .. Len(q)
      BY <1>2
    <3> QED
      BY <3>1, Zenon DEF IInv, JobsDistinct
  <2>4. w \notin Busy
    BY DEF DeqPop, Runs, Busy
  <2>5. \A t \in Busy' : job'[t] \in live' /\ \A i \in 1 .. Len(q') : q'[i] # job'[t]
    BY <1>1, <1>2, <1>3, <1>4, <2>1, <2>3 DEF IInv, JobsDistinct, Busy
  <2>6. \A t, u \in Busy' : job'[t] = job'[u] => t = u
    BY <1>3, <1>4, <2>3, <2>4 DEF IInv, JobsDistinct, Busy
  <2> QED
    BY <2>1, <2>2, <2>5, <2>6 DEF JobsDistinct
<1>6. Full' = Full /\ Empty' = Empty \ {w} /\ w \notin Full
  BY <1>1, <1>3 DEF Full, Empty
<1>7. woken' \subseteq Full' \cup Empty'
  BY <1>6, SignalFacts DEF DeqPop, IInv, TypeOK
<1>8. Bounded'
  BY <1>2 DEF IInv, Bounded
<1> QED
  BY <1>1, <1>2, <1>3, <1>5, <1>7, <1>8 DEF TypeOK

LEMMA DeqPopCounts ==
  ASSUME IInv, NEW w \in Worker, DeqPop(w)
  PROVE  WorkerNotForgotten' /\ ProducerNotForgotten'
<1>1. /\ Full' = Full /\ Empty' = Empty \ {w} /\ w \notin Full
      /\ w \in Empty => w \in woken
  BY DEF Full, Empty, DeqPop, Goto, IInv, TypeOK, Runs
<1>2. Len(q') = Len(q) - 1 /\ Len(q) \in Nat \ {0}
  BY DEF IInv, TypeOK, DeqPop
<1>3. \/ Full \subseteq woken \cup {w} /\ woken' = woken \ {w}
      \/ \E u \in Full \ (woken \cup {w}) : woken' = (woken \ {w}) \cup {u}
      \/ (Max = 0 \/ Len(q) - 1 >= Max) /\ woken' = woken \ {w}
  BY <1>2, SignalFacts DEF DeqPop
<1>4. ProducerNotForgotten'
  <2>1. CASE Full \subseteq woken \cup {w} /\ woken' = woken \ {w}
    BY <1>1, <2>1 DEF ProducerNotForgotten
  <2>2. ASSUME NEW u \in Full \ (woken \cup {w}), woken' = (woken \ {w}) \cup {u}
        PROVE  ProducerNotForgotten'
    <3>1. Full' \cap woken' = WokenProducers \cup {u} /\ u \notin WokenProducers
      BY <1>1, <2>2 DEF WokenProducers
    <3>2. Cardinality(Full' \cap woken') = Cardinality(WokenProducers) + 1
      BY <3>1, WokenFinite, OneMore
    <3>3. Max - Len(q) <= Cardinality(WokenProducers)
      BY <2>2 DEF IInv, ProducerNotForgotten, WokenProducers
    <3> QED
      BY <1>2, <3>2, <3>3, WokenFinite DEF ProducerNotForgotten
  <2>3. CASE Max = 0 \/ Len(q) - 1 >= Max
    <3>1. Max - Len(q') <= 0
      BY <1>2, <2>3
    <3> QED
      BY <1>2, <3>1, WokenFinitePrime DEF ProducerNotForgotten, WokenProducers
  <2> QED
    BY <1>3, <2>1, <2>2, <2>3
<1>5. WorkerNotForgotten'
  <2>1. Empty' \cap woken' = WokenWorkers \ {w} /\ Empty' \ woken' = Empty \ woken
    BY <1>1, <1>3 DEF WokenWorkers, Full, Empty
  <2>2. Cardinality(WokenWorkers \ {w}) \in {Cardinality(WokenWorkers), Cardinality(WokenWorkers) - 1}
    <3>1. CASE w \in WokenWorkers
      BY <3>1, WokenFinite, OneLess
    <3>2. CASE w \notin WokenWorkers
      <4>1. WokenWorkers \ {w} = WokenWorkers
        BY <3>2
      <4> QED
        BY <4>1
    <3> QED
      BY <3>1, <3>2
  <2>3. Empty \ woken # {} => Len(q) <= Cardinality(WokenWorkers)
    BY DEF IInv, WorkerNotForgotten, WokenWorkers
  <2>4. Empty \ woken # {} => Len(q') <= Cardinality(WokenWorkers \ {w})
    BY <1>2, <2>2, <2>3, WokenFinite
  <2> QED
    BY <2>1, <2>4 DEF WorkerNotForgotten
<1> QED
  BY <1>4, <1>5

(* The steps that leave the queue and the sleepers alone. *)
LEMMA QuietStep ==
  ASSUME IInv, NEW t \in Thread,
         \/ t \in Producer /\ (AddObjJob(t) \/ EnqRefuse(t))
         \/ t \in Worker /\ RunJob(t)
  PROVE  IInv'
<1>1. /\ q' = q /\ woken' = woken /\ pc' \in [Thread -> Label]
      /\ pc[t] \notin {"full", "empty"} /\ pc'[t] \notin {"full", "empty"}
      /\ \A u \in Thread \ {t} : pc'[u] = pc[u] /\ job'[u] = job[u]
      /\ job' \in [Thread -> Job \cup {NoJob}] /\ live' \subseteq Job
  BY DEF IInv, TypeOK, AddObjJob, EnqRefuse, RunJob, Goto
<1>2. Full' = Full /\ Empty' = Empty
  BY <1>1 DEF Full, Empty
<1>3. TypeOK' /\ Bounded'
  BY <1>1, <1>2 DEF IInv, TypeOK, Bounded
<1>4. WorkerNotForgotten' /\ ProducerNotForgotten'
  BY <1>1, <1>2 DEF IInv, WorkerNotForgotten, ProducerNotForgotten
<1>5. JobsDistinct'
  <2>1. CASE AddObjJob(t) /\ t \in Producer
    <3>1. /\ job'[t] \in live' /\ job'[t] \notin live /\ live' = live \cup {job'[t]}
          /\ Busy' = Busy \cup {t}
      BY <1>1, <2>1 DEF IInv, TypeOK, AddObjJob, Goto, Busy
    <3> QED
      BY <1>1, <3>1 DEF IInv, JobsDistinct, Busy
  <2>2. CASE EnqRefuse(t) /\ t \in Producer
    <3>1. Busy' = Busy \ {t} /\ live' = live
      BY <1>1, <2>2 DEF IInv, TypeOK, EnqRefuse, Goto, Busy
    <3> QED
      BY <1>1, <3>1 DEF IInv, JobsDistinct, Busy
  <2>3. CASE RunJob(t) /\ t \in Worker
    <3>1. Busy' = Busy \ {t} /\ live' = live \ {job[t]} /\ t \in Busy
      BY <1>1, <2>3 DEF IInv, TypeOK, RunJob, Goto, Busy
    <3> QED
      BY <1>1, <3>1 DEF IInv, JobsDistinct, Busy
  <2> QED
    BY <2>1, <2>2, <2>3
<1> QED
  BY <1>3, <1>4, <1>5 DEF IInv

(* Going to sleep: nothing is in the queue for a worker that does, no      *)
(* place is free for a producer that does.                                 *)
LEMMA WaitStep ==
  ASSUME IInv, NEW t \in Thread,
         \/ t \in Producer /\ EnqWait(t)
         \/ t \in Worker /\ DeqWait(t)
  PROVE  IInv'
<1>1. /\ q' = q /\ live' = live /\ job' = job /\ woken' = woken \ {t}
      /\ pc' \in [Thread -> Label] /\ \A u \in Thread \ {t} : pc'[u] = pc[u]
      /\ pc'[t] = IF t \in Producer THEN "full" ELSE "empty"
  BY DEF IInv, TypeOK, EnqWait, DeqWait, Goto
<1>2. Busy' = Busy
  BY <1>1 DEF Busy, EnqWait, DeqWait, Runs
<1>3. JobsDistinct' /\ Bounded'
  BY <1>1, <1>2 DEF IInv, JobsDistinct, Bounded
<1>4. TypeOK'
  BY <1>1 DEF IInv, TypeOK, Full, Empty
<1>5. CASE EnqWait(t) /\ t \in Producer
  <2>1. /\ Max - Len(q) <= 0 /\ Len(q) \in Nat
    BY <1>5 DEF EnqWait, HasSpace, IInv, TypeOK
  <2>2. ProducerNotForgotten'
    BY <1>1, <2>1, WokenFinitePrime DEF ProducerNotForgotten, WokenProducers
  <2>3. Empty' = Empty /\ Empty' \cap woken' = Empty \cap woken /\ Empty' \ woken' = Empty \ woken
    BY <1>1, <1>5 DEF Empty
  <2>4. WorkerNotForgotten'
    BY <1>1, <2>3 DEF IInv, WorkerNotForgotten
  <2> QED
    BY <1>3, <1>4, <2>2, <2>4 DEF IInv
<1>6. CASE DeqWait(t) /\ t \in Worker
  <2>1. Len(q) = 0
    BY <1>6 DEF DeqWait
  <2>2. WorkerNotForgotten'
    BY <1>1, <2>1, WokenFinitePrime DEF WorkerNotForgotten, WokenWorkers
  <2>3. Full' = Full /\ Full' \cap woken' = Full \cap woken /\ Full' \ woken' = Full \ woken
    BY <1>1, <1>6 DEF Full
  <2>4. ProducerNotForgotten'
    BY <1>1, <2>3 DEF IInv, ProducerNotForgotten
  <2> QED
    BY <1>3, <1>4, <2>2, <2>4 DEF IInv
<1> QED
  BY <1>5, <1>6

(* A wake-up without a signal adds to those that are counted. *)
LEMMA SpuriousWakeupStep ==
  ASSUME IInv, NEW t \in Thread, SpuriousWakeup(t)
  PROVE  IInv'
<1>1. /\ UNCHANGED <<q, live, job, pc>> /\ woken' = woken \cup {t} /\ t \notin woken
      /\ t \in Full \cup Empty /\ Full \cap Empty = {} /\ Full' = Full /\ Empty' = Empty
      /\ Busy' = Busy /\ Len(q) \in Nat
  BY DEF SpuriousWakeup, Full, Empty, Busy, IInv, TypeOK
<1>2. TypeOK' /\ JobsDistinct' /\ Bounded'
  BY <1>1 DEF IInv, TypeOK, JobsDistinct, Bounded
<1>3. /\ Cardinality(Empty' \cap woken') >= Cardinality(WokenWorkers)
      /\ Cardinality(Full' \cap woken') >= Cardinality(WokenProducers)
  <2>1. CASE t \in Empty
    <3>1. /\ Empty' \cap woken' = WokenWorkers \cup {t} /\ t \notin WokenWorkers
          /\ Full' \cap woken' = WokenProducers
      BY <1>1, <2>1 DEF WokenWorkers, WokenProducers
    <3>2. Cardinality(WokenWorkers \cup {t}) = Cardinality(WokenWorkers) + 1
      BY <3>1, WokenFinite, OneMore
    <3>3. Cardinality(WokenWorkers \cup {t}) >= Cardinality(WokenWorkers)
      BY <3>2, WokenFinite
    <3>4. Cardinality(WokenProducers) >= Cardinality(WokenProducers)
      BY WokenFinite
    <3> QED
      BY <3>1, <3>3, <3>4
  <2>2. CASE t \in Full
    <3>1. /\ Full' \cap woken' = WokenProducers \cup {t} /\ t \notin WokenProducers
          /\ Empty' \cap woken' = WokenWorkers
      BY <1>1, <2>2 DEF WokenWorkers, WokenProducers
    <3>2. Cardinality(WokenProducers \cup {t}) = Cardinality(WokenProducers) + 1
      BY <3>1, WokenFinite, OneMore
    <3>3. Cardinality(WokenProducers \cup {t}) >= Cardinality(WokenProducers)
      BY <3>2, WokenFinite
    <3>4. Cardinality(WokenWorkers) >= Cardinality(WokenWorkers)
      BY WokenFinite
    <3> QED
      BY <3>1, <3>3, <3>4
  <2> QED
    BY <1>1, <2>1, <2>2
<1>4. Empty' \ woken' # {} => Empty \ woken # {}
  BY <1>1
<1>5. Full' \ woken' # {} => Full \ woken # {}
  BY <1>1
<1>6. /\ Cardinality(Empty' \cap woken') \in Nat
      /\ Cardinality(Full' \cap woken') \in Nat
  BY WokenFinitePrime DEF WokenWorkers, WokenProducers
<1>7. WorkerNotForgotten'
  <2>1. Empty \ woken # {} => Len(q) <= Cardinality(WokenWorkers)
    BY DEF IInv, WorkerNotForgotten, WokenWorkers
  <2> QED
    BY <1>1, <1>3, <1>4, <1>6, <2>1, WokenFinite DEF WorkerNotForgotten
<1>8. ProducerNotForgotten'
  <2>1. Full \ woken # {} => Max - Len(q) <= Cardinality(WokenProducers)
    BY DEF IInv, ProducerNotForgotten, WokenProducers
  <2> QED
    BY <1>1, <1>3, <1>5, <1>6, <2>1, WokenFinite DEF ProducerNotForgotten
<1> QED
  BY <1>2, <1>7, <1>8 DEF IInv

(* Every critical section keeps the invariant. *)
LEMMA NextIInv == IInv /\ [Next]_vars => IInv'
<1> SUFFICES ASSUME IInv, [Next]_vars PROVE IInv'
  OBVIOUS
<1>1. ASSUME NEW p \in Producer, EnqPush(p) PROVE IInv'
  BY <1>1, EnqPushTypes, EnqPushCounts DEF IInv
<1>2. ASSUME NEW w \in Worker, DeqPop(w) PROVE IInv'
  BY <1>2, DeqPopTypes, DeqPopCounts DEF IInv
<1>3. ASSUME NEW p \in Producer, AddObjJob(p) \/ EnqWait(p) \/ EnqRefuse(p) PROVE IInv'
  <2>0. p \in Thread
    OBVIOUS
  <2>1. CASE EnqWait(p)
    BY <2>0, <2>1, WaitStep
  <2>2. CASE AddObjJob(p)
    BY <2>0, <2>2, QuietStep
  <2>3. CASE EnqRefuse(p)
    BY <2>0, <2>3, QuietStep
  <2> QED
    BY <1>3, <2>1, <2>2, <2>3
<1>4. ASSUME NEW w \in Worker, DeqWait(w) \/ RunJob(w) PROVE IInv'
  <2>1. CASE DeqWait(w)
    BY <2>1, WaitStep
  <2>2. CASE RunJob(w)
    BY <2>2, QuietStep
  <2> QED
    BY <1>4, <2>1, <2>2
<1>5. CASE UNCHANGED vars
  <2>1. Full' = Full /\ Empty' = Empty /\ Busy' = Busy
    BY <1>5 DEF vars, Full, Empty, Busy
  <2>2. TypeOK' /\ JobsDistinct' /\ Bounded'
    BY <1>5, <2>1 DEF vars, IInv, TypeOK, JobsDistinct, Bounded
  <2>3. WorkerNotForgotten' /\ ProducerNotForgotten'
    BY <1>5, <2>1 DEF vars, IInv, WorkerNotForgotten, ProducerNotForgotten
  <2> QED
    BY <2>2, <2>3 DEF IInv
<1> QED
  BY <1>1, <1>2, <1>3, <1>4, <1>5, SpuriousWakeupStep DEF Next

(* The invariant holds in every reachable state. *)
LEMMA Invariance == Spec => []IInv
BY InitIInv, NextIInv, PTL DEF Spec

(* No queued job waits for a worker that nobody signalled. *)
THEOREM WorkerNotForgottenHolds == Spec => []WorkerNotForgotten
BY Invariance, PTL DEF IInv

(* No free place waits for a producer that nobody signalled. *)
THEOREM ProducerNotForgottenHolds == Spec => []ProducerNotForgotten
BY Invariance, PTL DEF IInv

(* Every job is in one place only, so it is run and deleted once. *)
THEOREM JobsDistinctHolds == Spec => []JobsDistinct
BY Invariance, PTL DEF IInv

(* enq keeps the queue within max_. *)
THEOREM BoundedHolds == Spec => []Bounded
BY Invariance, PTL DEF IInv

=============================================================================
