----------------------- MODULE CachingLockClientProofs -----------------------
(***************************************************************************)
(* Lemmas about the queues of the clients, and that every step of acquire  *)
(* and wait in the calling thread preserves the inductive invariant Inv.   *)
(*                                                                         *)
(* Every lemma about a step is laid out alike.  <1>1 says what the         *)
(* invariant gives in the state the step starts from, <1>2 what the step   *)
(* does, <1>3 both once more, thread by thread and client by client; then  *)
(* the parts of Inv follow one by one.                                     *)
(***************************************************************************)
EXTENDS CachingLockInv, TLAPS

(* begin() of a non-empty waiting set is one of its members. *)
LEMMA BeginIsMember ==
  ASSUME NEW S \in SUBSET Client, S # {}
  PROVE  Begin(S) \in S
BY OrderAssumption, Zenon DEF Begin

(* An active thread is the front of its client's queue, and every other    *)
(* thread of the client is outside acquire and release or asleep in the    *)
(* queue.                                                                  *)
LEMMA OneActive ==
  ASSUME Inv, NEW t \in Thread, Active(t)
  PROVE  /\ ~Empty(Home[t]) /\ t = Front(Home[t])
         /\ \A u \in Thread : u # t /\ Home[u] = Home[t] =>
              pc[u] \in {"idle", "queued"} /\ u \notin signalled
BY DEF Inv, ActiveIsFront, Active

(* What the type of threads says of one queue. *)
LEMMA QueueType ==
  ASSUME TypeOK, NEW c \in Client
  PROVE  /\ threads[c] \in Seq(Thread)
         /\ Len(threads[c]) \in Nat
         /\ \A i \in 1 .. Len(threads[c]) : threads[c][i] \in Thread
         /\ ~Empty(c) => /\ Front(c) \in Thread /\ Front(c) = threads[c][1]
                         /\ 1 \in 1 .. Len(threads[c])
BY DEF TypeOK, ClientTypeOK, Empty, Front

(* The front of a client's queue is one of the client's own threads,       *)
(* inside acquire or release.                                              *)
LEMMA FrontHome ==
  ASSUME Inv
  PROVE  \A d \in Client : ~Empty(d) =>
           Front(d) \in Thread /\ Home[Front(d)] = d /\ pc[Front(d)] # "idle"
BY QueueType DEF Inv, QueueOK

(* A step that leaves threads alone leaves every front alone. *)
LEMMA SameQueues ==
  ASSUME threads' = threads
  PROVE  \A d : (Empty(d)' <=> Empty(d)) /\ Front(d)' = Front(d)
BY Zenon DEF Empty, Front

(* RevokingOK survives a step that touches one client c only, when no      *)
(* revoke_handler is handing back c's lock afterwards.                     *)
LEMMA RevokingStable ==
  ASSUME Inv, NEW c,
         \A d \in Client : d # c =>
           (Empty(d)' <=> Empty(d)) /\ Front(d)' = Front(d) /\ state'[d] = state[d],
         \A u \in Thread : HandingBack(u)' =>
           HandingBack(u) /\ dst[u] # c /\ dst'[u] = dst[u],
         \A u \in Thread : pc[u] = "parked" /\ Home[u] # c => pc'[u] = "parked"
  PROVE  RevokingOK'
<1>1. ASSUME NEW u \in Thread, HandingBack(u)', NEW d, d = dst[u]
      PROVE  /\ dst'[u] = d /\ d \in Client
             /\ state'[d] = "RELEASING"
             /\ ~Empty(d)' => pc'[Front(d)'] = "parked"
  <2>1. /\ d \in Client /\ d # c /\ dst'[u] = d
        /\ state[d] = "RELEASING"
        /\ ~Empty(d) => pc[Front(d)] = "parked"
    BY <1>1, Zenon DEF Inv, RevokingOK
  <2>2. ~Empty(d) => pc'[Front(d)] = "parked"
    BY <2>1, FrontHome, Zenon
  <2> QED BY <2>1, <2>2, Zenon
<1>2. ASSUME NEW u \in Thread, HandingBack(u)'
      PROVE  /\ dst'[u] \in Client
             /\ state'[dst'[u]] = "RELEASING"
             /\ ~Empty(dst[u])' => pc'[Front(dst[u])'] = "parked"
  BY <1>1, <1>2 DEF Empty, Front
<1>3. ASSUME NEW u \in Thread, NEW v \in Thread,
             HandingBack(u)', HandingBack(v)', dst'[u] = dst'[v]
      PROVE  u = v
  BY <1>3, Zenon DEF Inv, RevokingOK
<1> QED BY <1>2, <1>3, Zenon DEF RevokingOK

(* QueueOK survives a step that neither pushes nor pops, as long as the    *)
(* threads asleep in the queue stay there.                                 *)
LEMMA QueueStable ==
  ASSUME TypeOK, QueueOK, threads' = threads,
         \A u \in Thread : pc[u] # "idle" => pc'[u] # "idle",
         \A u \in Thread : pc[u] = "queued" /\ u \notin signalled =>
                             pc'[u] = "queued" /\ u \notin signalled'
  PROVE  QueueOK'
<1> SUFFICES ASSUME NEW c \in Client
             PROVE  /\ \A i \in 1 .. Len(threads[c]) :
                         Home[threads[c][i]] = c /\ pc'[threads[c][i]] # "idle"
                    /\ \A i \in 2 .. Len(threads[c]) :
                         pc'[threads[c][i]] = "queued"
                             /\ threads[c][i] \notin signalled'
                    /\ \A i, j \in 1 .. Len(threads[c]) :
                           threads[c][i] = threads[c][j] => i = j
  BY DEF QueueOK
<1>1. /\ \A i \in 1 .. Len(threads[c]) : threads[c][i] \in Thread
      /\ Len(threads[c]) \in Nat
  BY QueueType, Zenon
<1>2. \A i \in 2 .. Len(threads[c]) : i \in 1 .. Len(threads[c])
  BY <1>1
<1> QED BY <1>1, <1>2, Zenon DEF QueueOK

(* What push_back does to the fronts: only that of an empty queue changes. *)
LEMMA PushQueue ==
  ASSUME TypeOK, NEW t \in Thread, NEW c \in Client,
         threads'[c] = Append(threads[c], t),
         \A d \in Client : d # c => threads'[d] = threads[d]
  PROVE  /\ \A d \in Client : d # c => (Empty(d)' <=> Empty(d)) /\ Front(d)' = Front(d)
         /\ ~Empty(c)'
         /\ Empty(c) => Front(c)' = t
         /\ ~Empty(c) => Front(c)' = Front(c)
<1>1. threads \in [Client -> Seq(Thread)] /\ threads[c] \in Seq(Thread)
  BY Zenon DEF TypeOK, ClientTypeOK
<1>2. threads'[c] = Append(threads[c], t) /\ \A d \in Client : d # c =>
          threads'[d] = threads[d]
  BY <1>1, Zenon
<1>3. Append(threads[c], t) # <<>>
  BY <1>1
<1>4. threads[c] = <<>> => Head(Append(threads[c], t)) = t
  BY <1>1
<1>5. threads[c] # <<>> => Head(Append(threads[c], t)) = Head(threads[c])
  BY <1>1
<1> QED BY <1>2, <1>3, <1>4, <1>5, Zenon DEF Empty, Front

(* QueueOK survives acquire's push_back of the calling thread. *)
LEMMA PushQueueOK ==
  ASSUME TypeOK, QueueOK, NEW t \in Thread, NEW c \in Client, c = Home[t],
         threads'[c] = Append(threads[c], t),
         \A d \in Client : d # c => threads'[d] = threads[d],
         pc[t] = "idle", t \notin signalled, signalled' = signalled,
         pc'[t] # "idle", ~Empty(c) => pc'[t] = "queued",
         \A u \in Thread : u # t => pc'[u] = pc[u]
  PROVE  QueueOK'
<1> SUFFICES ASSUME NEW d \in Client, NEW p, p = threads'[d]
             PROVE  /\ \A i \in 1 .. Len(p) : Home[p[i]] = d /\ pc'[p[i]] # "idle"
                    /\ \A i \in 2 .. Len(p) : pc'[p[i]] = "queued" /\ p[i] \notin signalled'
                    /\ \A i, j \in 1 .. Len(p) : p[i] = p[j] => i = j
  BY DEF QueueOK
<1> DEFINE q == threads[d]
<1>1. /\ q \in Seq(Thread) /\ Len(q) \in Nat
      /\ \A i \in 1 .. Len(q) : q[i] \in Thread
      /\ \A i \in 1 .. Len(q) : Home[q[i]] = d /\ pc[q[i]] # "idle" /\ q[i] # t
      /\ \A i \in 2 .. Len(q) : pc[q[i]] = "queued" /\ q[i] \notin signalled
      /\ \A i, j \in 1 .. Len(q) : q[i] = q[j] => i = j
  BY QueueType DEF QueueOK
<1>2. CASE d # c
  <2>1. p = q
    BY <1>2, Zenon
  <2>2. \A i \in 2 .. Len(q) : i \in 1 .. Len(q)
    BY <1>1
  <2> HIDE DEF q
  <2>3. \A i \in 1 .. Len(q) : pc'[q[i]] = pc[q[i]]
    BY <1>1, Zenon
  <2> QED BY <2>1, <2>2, <2>3, <1>1
<1>3. CASE d = c
  <2>1. p = Append(q, t)
    BY <1>3, Zenon
  <2>2. /\ Len(Append(q, t)) = Len(q) + 1
        /\ \A i \in 1 .. Len(q) : Append(q, t)[i] = q[i]
        /\ Append(q, t)[Len(q) + 1] = t
    BY <1>1
  <2>3. Len(q) + 1 >= 2 => ~Empty(c)
    BY <1>1, <1>3 DEF Empty
  <2> HIDE DEF q
  <2>4. \A i \in 1 .. Len(q) + 1 : i \in 1 .. Len(q) \/ i = Len(q) + 1
    BY <1>1
  <2>5. \A i \in 2 .. Len(q) + 1 :
            i \in 2 .. Len(q) \/ (i = Len(q) + 1 /\ Len(q) + 1 >= 2)
    BY <1>1
  <2>6. \A i \in 2 .. Len(q) : i \in 1 .. Len(q)
    BY <1>1
  <2>7. /\ Len(p) = Len(q) + 1
        /\ \A i \in 1 .. Len(q) : p[i] = q[i]
        /\ p[Len(q) + 1] = t
    BY <2>1, <2>2, Zenon
  <2>8. \A i \in 1 .. Len(p) : Home[p[i]] = d /\ pc'[p[i]] # "idle"
    <3>1. ASSUME NEW i \in 1 .. Len(q) PROVE Home[p[i]] = d /\ pc'[p[i]] # "idle"
      <4>1. p[i] = q[i]
        BY <2>7, Zenon
      <4>2. Home[q[i]] = d /\ pc[q[i]] # "idle" /\ q[i] # t /\ q[i] \in Thread
        BY <1>1, Zenon
      <4>3. pc'[q[i]] = pc[q[i]]
        BY <4>2, Zenon
      <4> QED BY <4>1, <4>2, <4>3, Zenon
    <3>2. Home[p[Len(q) + 1]] = d /\ pc'[p[Len(q) + 1]] # "idle"
      BY <2>7, <1>3, Zenon
    <3>3. \A i \in 1 .. Len(p) : i \in 1 .. Len(q) \/ i = Len(q) + 1
      BY <2>4, <2>7, Zenon
    <3> QED BY <3>1, <3>2, <3>3, Zenon
  <2>9. \A i \in 2 .. Len(p) : pc'[p[i]] = "queued" /\ p[i] \notin signalled'
    <3>1. \A i \in 2 .. Len(q) : pc'[q[i]] = "queued" /\ q[i] \notin signalled' /\ p[i] = q[i]
      BY <2>6, <2>7, <1>1, Zenon
    <3>2. Len(q) + 1 >= 2 => pc'[t] = "queued" /\ t \notin signalled'
      BY <2>3, Zenon
    <3> QED BY <3>1, <3>2, <2>5, <2>7
  <2>10. \A i, j \in 1 .. Len(p) : p[i] = p[j] => i = j
    BY <2>4, <2>7, <1>1
  <2> QED BY <2>8, <2>9, <2>10, Zenon
<1> QED BY <1>2, <1>3, Zenon

(* The thread behind the front is asleep in acquire and not signalled. *)
LEMMA SecondQueued ==
  ASSUME TypeOK, QueueOK, NEW c \in Client, ~Empty(c), ~Single(c)
  PROVE  /\ Second(c) \in Thread /\ Home[Second(c)] = c /\ Second(c) # Front(c)
         /\ pc[Second(c)] = "queued" /\ Second(c) \notin signalled
<1> DEFINE q == threads[c]
<1>1. q \in Seq(Thread) /\ q # <<>>
  BY Zenon DEF TypeOK, ClientTypeOK, Empty
<1>2. /\ Second(c) = q[2] /\ Front(c) = q[1]
      /\ 2 \in 2 .. Len(q) /\ 2 \in 1 .. Len(q) /\ 1 \in 1 .. Len(q)
  BY <1>1 DEF Single, Second, Front
<1>3. /\ q[2] \in Thread /\ Home[q[2]] = c /\ q[2] # q[1]
      /\ pc[q[2]] = "queued" /\ q[2] \notin signalled
  BY <1>1, <1>2 DEF QueueOK
<1> QED BY <1>2, <1>3, Zenon

(* What pop_front does to the fronts. *)
LEMMA PopQueue ==
  ASSUME TypeOK, NEW c \in Client,
         threads'[c] = Tail(threads[c]),
         \A d \in Client : d # c => threads'[d] = threads[d]
  PROVE  /\ \A d \in Client : d # c => (Empty(d)' <=> Empty(d)) /\ Front(d)' = Front(d)
         /\ Empty(c)' <=> Single(c)
         /\ Front(c)' = Second(c)
BY Zenon DEF Empty, Front, Single, Second

(* QueueOK survives release's pop_front, even if the new front is          *)
(* signalled.                                                              *)
LEMMA PopQueueOK ==
  ASSUME TypeOK, QueueOK, NEW c \in Client, ~Empty(c),
         threads'[c] = Tail(threads[c]),
         \A d \in Client : d # c => threads'[d] = threads[d],
         \A u \in Thread : u # Front(c) => pc'[u] = pc[u],
         \A u \in Thread : u \in signalled' =>
             u \in signalled \/ (~Empty(c)' /\ u = Front(c)')
  PROVE  QueueOK'
<1> SUFFICES ASSUME NEW d \in Client, NEW p, p = threads'[d]
             PROVE  /\ \A i \in 1 .. Len(p) : Home[p[i]] = d /\ pc'[p[i]] # "idle"
                    /\ \A i \in 2 .. Len(p) : pc'[p[i]] = "queued" /\ p[i] \notin signalled'
                    /\ \A i, j \in 1 .. Len(p) : p[i] = p[j] => i = j
  BY DEF QueueOK
<1> DEFINE q == threads[d]
<1>1. /\ q \in Seq(Thread) /\ Len(q) \in Nat
      /\ \A i \in 1 .. Len(q) : q[i] \in Thread
      /\ \A i \in 1 .. Len(q) : Home[q[i]] = d /\ pc[q[i]] # "idle"
      /\ \A i \in 2 .. Len(q) : pc[q[i]] = "queued" /\ q[i] \notin signalled
      /\ \A i, j \in 1 .. Len(q) : q[i] = q[j] => i = j
  BY QueueType, Zenon DEF QueueOK
<1>0. /\ Front(c) \in Thread /\ Front(c) = threads[c][1] /\ 1 \in 1 .. Len(threads[c])
      /\ Home[Front(c)] = c
      /\ ~Empty(c)' => Front(c)' = Second(c) /\ Home[Second(c)] = c
  <2>1. Front(c) \in Thread /\ Front(c) = threads[c][1] /\ 1 \in 1 .. Len(threads[c])
    BY QueueType, Zenon
  <2>2. Home[threads[c][1]] = c
    BY <2>1, Zenon DEF QueueOK
  <2> QED BY <2>1, <2>2, PopQueue, SecondQueued, Zenon
<1>2. CASE d # c
  <2>1. p = q
    BY <1>2, Zenon
  <2>2. \A i \in 2 .. Len(q) : i \in 1 .. Len(q)
    BY <1>1
  <2>3. \A i \in 1 .. Len(q) : pc'[q[i]] = pc[q[i]] /\ (q[i] \in signalled' => q[i] \in signalled)
    BY <1>0, <1>1, <1>2
  <2> QED BY <2>1, <2>2, <2>3, <1>1, Zenon
<1>3. CASE d = c
  <2>1. p = Tail(q)
    BY <1>3, Zenon
  <2>2. /\ q # <<>>
        /\ Len(Tail(q)) = Len(q) - 1
        /\ \A i \in 1 .. Len(Tail(q)) : Tail(q)[i] = q[i + 1]
    BY <1>1, <1>3 DEF Empty
  <2>3. ~Empty(c)' => Front(c)' = q[2] /\ 2 \in 1 .. Len(q)
    <3>1. Tail(q) # <<>> => Head(Tail(q)) = q[2] /\ 2 \in 1 .. Len(q)
      BY <1>1, <2>2
    <3> QED BY <3>1, <1>0, <1>3, <2>1, Zenon DEF Empty, Second
  <2>4. \A i \in 2 .. Len(q) : pc'[q[i]] = "queued" /\ (i # 2 => q[i] \notin signalled')
    <3>1. \A i \in 2 .. Len(q) : i \in 1 .. Len(q) /\ i # 1
      BY <1>1
    <3>2. \A i \in 2 .. Len(q) : q[i] \in Thread /\ q[i] # Front(c) /\ pc[q[i]] = "queued" /\ q[i] \notin signalled
      BY <3>1, <1>0, <1>1, <1>3, Zenon
    <3>3. \A i \in 2 .. Len(q) : i # 2 /\ ~Empty(c)' => q[i] # Front(c)'
      BY <3>1, <2>3, <1>1
    <3> QED BY <3>2, <3>3, Zenon
  <2> HIDE DEF q
  <2>5. /\ \A i \in 1 .. Len(q) - 1 : i + 1 \in 2 .. Len(q) /\ i + 1 \in 1 .. Len(q)
        /\ \A i \in 2 .. Len(q) - 1 :
               i + 1 # 2 /\ i + 1 \in 2 .. Len(q) /\ i \in 1 .. Len(q) - 1
        /\ \A i, j \in 1 .. Len(q) - 1 : i + 1 = j + 1 => i = j
    BY <1>1
  <2>6. Len(p) = Len(q) - 1 /\ \A i \in 1 .. Len(p) : p[i] = q[i + 1]
    BY <2>1, <2>2, Zenon
  <2>7. \A i \in 1 .. Len(p) : Home[p[i]] = d /\ pc'[p[i]] # "idle"
    BY <2>4, <2>5, <2>6, <1>1
  <2>8. \A i \in 2 .. Len(p) : pc'[p[i]] = "queued" /\ p[i] \notin signalled'
    BY <2>4, <2>5, <2>6
  <2>9. \A i, j \in 1 .. Len(p) : p[i] = p[j] => i = j
    BY <2>5, <2>6, <1>1
  <2> QED BY <2>7, <2>8, <2>9, Zenon
<1> QED BY <1>2, <1>3, Zenon

(* No thread of a client with an empty queue is active. *)
LEMMA NoneActive ==
  ASSUME Inv, NEW c \in Client, Empty(c)
  PROVE  \A u \in Thread : Home[u] = c =>
             pc[u] \in {"idle", "queued"} /\ u \notin signalled
BY Zenon DEF Inv, ActiveIsFront, Active

(* A client whose front thread has not been granted the lock is not the    *)
(* owner.                                                                  *)
LEMMA NotOwner ==
  ASSUME Inv, NEW t \in Thread, NEW c \in Client, c = Home[t], t = Front(c), ~Empty(c),
         Active(t), pc[t] \notin {"parked", "release"}, ret[t] = "RETRY",
         state[c] \notin {"FREE", "LOCKED"}
  PROVE  owner # c
<1> SUFFICES ASSUME owner = c PROVE FALSE
  OBVIOUS
<1>1. ~\E u \in Thread : Home[u] = c /\ (ret[u] = "OK" \/ pc[u] = "release")
  <2> SUFFICES ASSUME NEW u \in Thread, Home[u] = c, ret[u] = "OK" \/ pc[u] = "release"
               PROVE  FALSE
    OBVIOUS
  <2>1. pc[u] \in {"revoke", "reply", "release"}
    BY Zenon DEF Inv, GrantOK
  <2> QED BY <2>1, OneActive, Zenon
<1>2. ~\E u \in Thread : pc[u] = "rv_release" /\ dst[u] = c
  BY DEF Inv, RevokingOK, HandingBack
<1> QED BY <1>1, <1>2, Zenon DEF Inv, OwnerOK

(* When an acquire RPC reaches the server, its client is acquiring, is     *)
(* neither the owner nor waiting, and has no message.                      *)
LEMMA AcquireFacts ==
  ASSUME Inv, NEW t \in Thread, NEW c \in Client, c = Home[t], pc[t] = "acquire"
  PROVE  /\ ret[t] = "RETRY" /\ t \notin signalled /\ state[c] = "ACQUIRING"
         /\ c \notin waiting /\ owner # c /\ message[c] = "EMPTY"
<1>1. ret[t] = "RETRY" /\ t \notin signalled /\ state[c] = "ACQUIRING"
  BY Zenon DEF Inv, GrantOK, TypeOK, Reply, PhaseOK, Phase, InAcquireRPC
<1>2. /\ ~Empty(c) /\ t = Front(c)
      /\ \A u \in Thread : u # t /\ Home[u] = c =>
             pc[u] \in {"idle", "queued"} /\ u \notin signalled
  BY OneActive, Zenon DEF Active
<1>3. \A u \in Thread : Home[u] = c => pc[u] \notin ToldRetry
  BY <1>2, Zenon DEF ToldRetry
<1>4. c \notin waiting
  BY <1>3, Zenon DEF Inv, WaitingOK
<1>5. owner # c
  BY <1>1, <1>2, NotOwner, Zenon DEF Active
<1>6. message[c] # "REVOKE"
  BY <1>2, <1>5, Zenon DEF Inv, MessageOK
<1>7. message[c] # "RETRY"
  <2> SUFFICES ASSUME message[c] = "RETRY" PROVE FALSE
    OBVIOUS
  <2>1. retrying = c
    BY Zenon DEF Inv, MessageOK
  <2>2. status = "RETRYING"
    BY <2>1, ClientAssumption, Zenon DEF Inv, ServerOK, TypeOK, ServerTypeOK, Status
  <2> QED BY <2>1, <2>2, <1>3, Zenon DEF Inv, RetryOK
<1>8. message[c] \in Message
  BY Zenon DEF Inv, TypeOK, ClientTypeOK
<1> QED BY <1>1, <1>4, <1>5, <1>6, <1>7, <1>8, Zenon DEF Message

(* WaitingOK survives a step of a client c that is not waiting. *)
LEMMA WaitingStable ==
  ASSUME Inv, NEW c, c \notin waiting, waiting' \in SUBSET waiting,
         \A u \in Thread : Home[u] # c =>
           /\ pc[u] \in ToldRetry => pc'[u] \in ToldRetry
           /\ ret'[u] = ret[u]
           /\ u \in signalled' => u \in signalled,
         \A d \in Client : d # c => message'[d] = message[d]
  PROVE  WaitingOK'
<1> SUFFICES ASSUME NEW d \in waiting'
             PROVE  /\ message'[d] = "EMPTY"
                    /\ \E u \in Thread : /\ Home[u] = d /\ pc'[u] \in ToldRetry
                                         /\ ret'[u] = "RETRY" /\ u \notin signalled'
  BY Zenon DEF WaitingOK
<1>1. d \in waiting /\ d # c /\ d \in Client
  BY Zenon DEF Inv, TypeOK, ServerTypeOK
<1>2. PICK u \in Thread : /\ Home[u] = d /\ pc[u] \in ToldRetry
                          /\ ret[u] = "RETRY" /\ u \notin signalled
  BY <1>1, Zenon DEF Inv, WaitingOK
<1>3. message[d] = "EMPTY"
  BY <1>1, Zenon DEF Inv, WaitingOK
<1> QED BY <1>1, <1>2, <1>3, Zenon

(* RetryOK survives a step of a client c that was not told to retry. *)
LEMMA RetryStable ==
  ASSUME Inv, NEW c, status = "RETRYING" => retrying # c,
         status' = status, retrying' = retrying, nxt' = nxt,
         \A u \in Thread : RetryInFlight(u)' <=> RetryInFlight(u),
         \A u \in Thread : Home[u] # c =>
           /\ pc[u] \in ToldRetry => pc'[u] \in ToldRetry
           /\ pc[u] = "acquire" => pc'[u] = "acquire"
           /\ pc'[u] = "waiting" => pc[u] = "waiting"
           /\ ret'[u] = ret[u]
           /\ u \in signalled' <=> u \in signalled,
         \A d \in Client : d # c => message'[d] = message[d]
  PROVE  RetryOK'
<1>1. /\ \A u \in Thread : RetryInFlight(u)' =>
             status' = "RETRYING" /\ nxt'[u] = retrying'
      /\ \A u, v \in Thread : RetryInFlight(u)' /\ RetryInFlight(v)' => u = v
  BY Zenon DEF Inv, RetryOK
<1>2. ASSUME status' = "RETRYING"
      PROVE  \E u \in Thread :
               /\ Home[u] = retrying' /\ ret'[u] = "RETRY"
               /\ \/ /\ \E v \in Thread : RetryInFlight(v)'
                     /\ pc'[u] \in ToldRetry /\ u \notin signalled'
                     /\ message'[retrying'] = "EMPTY"
                  \/ /\ \A v \in Thread : ~RetryInFlight(v)'
                     /\ pc'[u] \in ToldRetry /\ (pc'[u] = "waiting" => u \in signalled')
                     /\ message'[retrying'] = "RETRY"
                  \/ /\ \A v \in Thread : ~RetryInFlight(v)'
                     /\ pc'[u] = "acquire"
                     /\ message'[retrying'] = "EMPTY"
  <2>1. retrying \in Client /\ retrying # c
    BY <1>2, Zenon DEF Inv, TypeOK, ServerTypeOK, ServerOK
  <2>2. PICK u \in Thread :
               /\ Home[u] = retrying /\ ret[u] = "RETRY"
               /\ \/ /\ \E v \in Thread : RetryInFlight(v)
                     /\ pc[u] \in ToldRetry /\ u \notin signalled
                     /\ message[retrying] = "EMPTY"
                  \/ /\ \A v \in Thread : ~RetryInFlight(v)
                     /\ pc[u] \in ToldRetry /\ (pc[u] = "waiting" => u \in signalled)
                     /\ message[retrying] = "RETRY"
                  \/ /\ \A v \in Thread : ~RetryInFlight(v)
                     /\ pc[u] = "acquire"
                     /\ message[retrying] = "EMPTY"
    BY <1>2, Zenon DEF Inv, RetryOK
  <2>3. /\ pc[u] \in ToldRetry => pc'[u] \in ToldRetry
        /\ pc[u] = "acquire" => pc'[u] = "acquire"
        /\ pc'[u] = "waiting" => pc[u] = "waiting"
        /\ ret'[u] = ret[u] /\ (u \in signalled' <=> u \in signalled)
        /\ message'[retrying] = message[retrying]
    BY <2>1, <2>2, Zenon
  <2> QED BY <2>2, <2>3, Zenon
<1> QED BY <1>1, <1>2, Zenon DEF RetryOK

(* GrantOK survives a step that leaves the server alone and grants nothing. *)
LEMMA GrantStable ==
  ASSUME Inv, status' = status, owner' = owner,
         \A d \in Client : state'[d] \in {"FREE", "LOCKED"} =>
                             state[d] \in {"FREE", "LOCKED"},
         \A u \in Thread : ret'[u] = "OK" =>
                             ret[u] = "OK" /\ pc'[u] \in {"revoke", "reply"},
         \A u \in Thread : pc'[u] = "release" => pc[u] = "release"
  PROVE  GrantOK'
BY Zenon DEF Inv, GrantOK

(* OwnerOK survives a step that leaves the server alone and takes nothing   *)
(* from the owner.                                                         *)
LEMMA OwnerStable ==
  ASSUME Inv, owner' = owner,
         \A d \in Client : state[d] \in {"FREE", "LOCKED"} =>
                             state'[d] \in {"FREE", "LOCKED"},
         \A u \in Thread : /\ ret[u] = "OK" => ret'[u] = "OK"
                           /\ pc[u] = "release" => pc'[u] = "release"
                           /\ pc[u] = "rv_release" =>
                                pc'[u] = "rv_release" /\ dst'[u] = dst[u]
  PROVE  OwnerOK'
<1> SUFFICES ASSUME NEW d \in Client, owner = d
             PROVE  \/ state'[d] \in {"FREE", "LOCKED"}
                    \/ \E u \in Thread : /\ Home[u] = d
                                         /\ ret'[u] = "OK" \/ pc'[u] = "release"
                    \/ \E u \in Thread : pc'[u] = "rv_release" /\ dst'[u] = d
  BY Zenon DEF OwnerOK
<1>1. CASE state[d] \in {"FREE", "LOCKED"}
  BY <1>1, Zenon
<1>2. CASE \E u \in Thread : Home[u] = d /\ (ret[u] = "OK" \/ pc[u] = "release")
  BY <1>2, Zenon
<1>3. CASE \E u \in Thread : pc[u] = "rv_release" /\ dst[u] = d
  BY <1>3, Zenon
<1> QED BY <1>1, <1>2, <1>3, Zenon DEF Inv, OwnerOK

(* ActiveIsFront survives a step that moves no front and activates nobody. *)
LEMMA ActiveStable ==
  ASSUME Inv, \A u \in Thread : Home[u] \in Client,
         \A d \in Client : (Empty(d)' <=> Empty(d)) /\ Front(d)' = Front(d),
         \A u \in Thread : Active(u)' => Active(u)
  PROVE  ActiveIsFront'
BY Zenon DEF Inv, ActiveIsFront

(* RevokeOK survives a step that leaves the server and the messages alone   *)
(* and sends no revoke.                                                    *)
LEMMA RevokeStable ==
  ASSUME Inv, status' = status, owner' = owner, message' = message,
         \A u \in Thread : RevokeInFlight(u)' =>
           RevokeInFlight(u) /\ pc'[u] = pc[u] /\ dst'[u] = dst[u]
  PROVE  RevokeOK'
BY Zenon DEF Inv, RevokeOK

(* FrontOK survives a step that touches one client c only and leaves c's   *)
(* first thread able to go on.                                             *)
LEMMA FrontStable ==
  ASSUME Inv, NEW c,
         \A d \in Client : d # c =>
           (Empty(d)' <=> Empty(d)) /\ Front(d)' = Front(d) /\ state'[d] = state[d],
         \A u \in Thread : Home[u] # c =>
           (pc'[u] = "queued" => pc[u] = "queued") /\ (u \in signalled => u \in signalled'),
         ~Empty(c)' /\ pc'[Front(c)'] = "queued" =>
           Front(c)' \in signalled' /\ state'[c] \in {"LOCKED", "NONE"}
  PROVE  FrontOK'
<1> SUFFICES ASSUME NEW d \in Client, ~Empty(d)', pc'[Front(d)'] = "queued"
             PROVE  Front(d)' \in signalled' /\ state'[d] \in {"LOCKED", "NONE"}
  BY Zenon DEF FrontOK
<1>1. CASE d = c
  BY <1>1, Zenon
<1>2. CASE d # c
  <2>1. ~Empty(d) /\ Front(d)' = Front(d) /\ state'[d] = state[d]
    BY <1>2, Zenon
  <2>2. Front(d) \in Thread /\ Home[Front(d)] # c
    BY <1>2, <2>1, FrontHome, Zenon
  <2>3. pc[Front(d)] = "queued"
    BY <2>1, <2>2, Zenon
  <2>4. Front(d) \in signalled /\ state[d] \in {"LOCKED", "NONE"}
    BY <2>1, <2>3, Zenon DEF Inv, FrontOK
  <2> QED BY <2>1, <2>2, <2>4, Zenon
<1> QED BY <1>1, <1>2, Zenon

(* A thread giving the lock back has its revoke recorded, and a recorded   *)
(* retry is for the client told to retry.                                  *)
LEMMA MessageFacts ==
  ASSUME Inv
  PROVE  /\ \A u \in Thread :
              pc[u] \in {"release", "retry", "return"} => message[Home[u]] = "REVOKE"
         /\ \A d \in Client : message[d] = "RETRY" => retrying = d
BY Zenon DEF Inv, MessageOK

(* MessageOK survives a step that records no revoke and keeps what every   *)
(* recorded revoke is for.                                                 *)
LEMMA MessageStable ==
  ASSUME Inv,
         \A d \in Client : message'[d] = "REVOKE" => message[d] = "REVOKE",
         \A d \in Client : message'[d] = "REVOKE" /\ owner = d /\ status = "REVOKING" =>
           \/ owner' = d /\ status' = "REVOKING"
           \/ \E u \in Thread : Home[u] = d /\ pc'[u] \in {"retry", "return"},
         \A d \in Client : message'[d] = "REVOKE" /\ state[d] = "LOCKED" =>
           state'[d] = "LOCKED" \/ \E u \in Thread : Home[u] = d /\ pc'[u] = "release",
         \A u \in Thread : message'[Home[u]] = "REVOKE" =>
           /\ ret[u] = "OK" => ret'[u] = "OK" \/ state'[Home[u]] = "LOCKED"
           /\ pc[u] = "release" => pc'[u] \in {"release", "retry", "return"}
           /\ pc[u] \in {"retry", "return"} => pc'[u] \in {"retry", "return"},
         \A u \in Thread :
           pc'[u] \in {"release", "retry", "return"} => message'[Home[u]] = "REVOKE",
         \A d \in Client : message'[d] = "RETRY" => retrying' = d
  PROVE  MessageOK'
<1>1. ASSUME NEW d \in Client, message'[d] = "REVOKE",
             ~\E u \in Thread : Home[u] = d /\ pc'[u] \in {"retry", "return"}
      PROVE  /\ owner' = d /\ status' = "REVOKING"
             /\ \/ state'[d] = "LOCKED"
                \/ \E u \in Thread : Home[u] = d /\ (ret'[u] = "OK" \/ pc'[u] = "release")
  <2>1. message[d] = "REVOKE"
    BY <1>1, Zenon
  <2>2. ~\E u \in Thread : Home[u] = d /\ pc[u] \in {"retry", "return"}
    <3> SUFFICES ASSUME NEW u \in Thread, Home[u] = d, pc[u] \in {"retry", "return"}
                 PROVE  FALSE
      BY Zenon
    <3>1. message'[Home[u]] = "REVOKE"
      BY <1>1, Zenon
    <3>2. pc'[u] \in {"retry", "return"}
      BY <3>1, Zenon
    <3> QED BY <1>1, <3>2, Zenon
  <2>3. /\ owner = d /\ status = "REVOKING"
        /\ \/ state[d] = "LOCKED"
           \/ \E u \in Thread : Home[u] = d /\ (ret[u] = "OK" \/ pc[u] = "release")
    BY <2>1, <2>2, Zenon DEF Inv, MessageOK
  <2>4. owner' = d /\ status' = "REVOKING"
    BY <1>1, <2>3, Zenon
  <2>5. CASE state[d] = "LOCKED"
    <3>1. state'[d] = "LOCKED" \/ \E u \in Thread : Home[u] = d /\ pc'[u] = "release"
      BY <1>1, <2>5, Zenon
    <3> QED BY <2>4, <3>1, Zenon
  <2>6. CASE \E u \in Thread : Home[u] = d /\ (ret[u] = "OK" \/ pc[u] = "release")
    <3>1. PICK u \in Thread : Home[u] = d /\ (ret[u] = "OK" \/ pc[u] = "release")
      BY <2>6, Zenon
    <3>2. CASE ret[u] = "OK"
      BY <1>1, <2>4, <3>1, <3>2, Zenon
    <3>3. CASE pc[u] = "release"
      <4>1. pc'[u] \in {"release", "retry", "return"}
        BY <1>1, <3>1, <3>3, Zenon
      <4>2. pc'[u] = "release"
        BY <1>1, <3>1, <4>1, Zenon
      <4> QED BY <2>4, <3>1, <4>2, Zenon
    <3> QED BY <3>1, <3>2, <3>3, Zenon
  <2> QED BY <2>3, <2>5, <2>6, Zenon
<1> QED BY <1>1, Zenon DEF MessageOK

(* WaitingOK survives a step that adds no waiting client and wakes none.   *)
LEMMA WaitingKept ==
  ASSUME Inv, waiting' \in SUBSET waiting,
         \A d \in Client : d \in waiting' => message'[d] = message[d],
         \A u \in Thread :
           Home[u] \in waiting' /\ pc[u] \in ToldRetry /\ u \notin signalled =>
             pc'[u] \in ToldRetry /\ ret'[u] = ret[u] /\ u \notin signalled'
  PROVE  WaitingOK'
<1> SUFFICES ASSUME NEW d \in waiting'
             PROVE  /\ message'[d] = "EMPTY"
                    /\ \E u \in Thread : /\ Home[u] = d /\ pc'[u] \in ToldRetry
                                         /\ ret'[u] = "RETRY" /\ u \notin signalled'
  BY Zenon DEF WaitingOK
<1>1. d \in waiting /\ d \in Client
  BY Zenon DEF Inv, TypeOK, ServerTypeOK
<1>2. PICK u \in Thread : /\ Home[u] = d /\ pc[u] \in ToldRetry
                          /\ ret[u] = "RETRY" /\ u \notin signalled
  BY <1>1, Zenon DEF Inv, WaitingOK
<1>3. message[d] = "EMPTY"
  BY <1>1, Zenon DEF Inv, WaitingOK
<1> QED BY <1>1, <1>2, <1>3, Zenon

(* A client with a free cached lock has an empty queue. *)
LEMMA FreeIsEmpty ==
  ASSUME Inv, NEW c \in Client, state[c] = "FREE"
  PROVE  Empty(c)
<1> SUFFICES ASSUME ~Empty(c) PROVE FALSE
  OBVIOUS
<1> DEFINE f == Front(c)
<1>1. f \in Thread /\ Home[f] = c /\ pc[f] # "idle"
  BY FrontHome, Zenon
<1>2. pc[f] # "queued"
  BY Zenon DEF Inv, FrontOK
<1>3. Phase(f) /\ pc[f] \in Label
  BY <1>1, Zenon DEF Inv, PhaseOK, TypeOK
<1> HIDE DEF f
<1> QED BY <1>1, <1>2, <1>3, Zenon DEF Phase, InAcquireRPC, Label

(* The retry under way goes to the client recorded in retrying, whose      *)
(* front thread was told RETRY and has not been woken.                     *)
LEMMA RetryFacts ==
  ASSUME Inv, NEW t \in Thread, RetryInFlight(t), NEW n, n = nxt[t]
  PROVE  /\ n \in Client /\ n = retrying /\ status = "RETRYING" /\ message[n] = "EMPTY"
         /\ \A u \in Thread : RetryInFlight(u) => u = t
         /\ ~Empty(n)
         /\ Front(n) \in Thread /\ Home[Front(n)] = n /\ pc[Front(n)] \in ToldRetry
         /\ ret[Front(n)] = "RETRY" /\ Front(n) \notin signalled
         /\ \A u \in Thread : u # Front(n) /\ Home[u] = n =>
              pc[u] \in {"idle", "queued"} /\ u \notin signalled
<1>1. n = retrying /\ status = "RETRYING" /\ \A u \in Thread : RetryInFlight(u) => u = t
  BY Zenon DEF Inv, RetryOK
<1>2. n \in Client
  BY <1>1, Zenon DEF Inv, ServerOK, TypeOK, ServerTypeOK
<1>3. PICK w \in Thread : /\ Home[w] = n /\ ret[w] = "RETRY" /\ pc[w] \in ToldRetry
                          /\ w \notin signalled /\ message[n] = "EMPTY"
  BY <1>1, Zenon DEF Inv, RetryOK
<1>4. Active(w)
  BY <1>3, Zenon DEF Active, ToldRetry
<1>5. /\ ~Empty(n) /\ w = Front(n)
      /\ \A u \in Thread : u # w /\ Home[u] = n =>
           pc[u] \in {"idle", "queued"} /\ u \notin signalled
  BY <1>3, <1>4, OneActive, Zenon
<1> QED BY <1>1, <1>2, <1>3, <1>5, Zenon

-----------------------------------------------------------------------------
(* The steps of acquire and wait.                                          *)

(* acquire finds the lock cached and free. *)
LEMMA AcquireFreeStep ==
  ASSUME Inv, NEW t \in Thread, NEW c \in Client, c = Home[t],
         CallAcquire(t), Empty(c), state[c] = "FREE"
  PROVE  Inv'
<1>1. /\ pc[t] = "idle" /\ t \notin signalled
      /\ Empty(c) /\ message[c] = "EMPTY"
      /\ state[c] = "FREE"
      /\ ret[t] = "RETRY"
      /\ owner = c
  BY Zenon DEF Inv, CallAcquire, Goto, PhaseOK, Phase, EmptyOK, GrantOK, TypeOK, Reply
<1>2. /\ pc' = [pc EXCEPT ![t] = "held"]
      /\ state' = [state EXCEPT ![c] = "LOCKED"]
      /\ threads' = [threads EXCEPT ![c] = Append(@, t)]
      /\ UNCHANGED <<status, owner, retrying, waiting, message, signalled, exited, ret,
                     dst, nxt>>
  BY <1>1, Zenon
  DEF CallAcquire, CltAcquireFree, CltAcquireNone, CltAcquirePark, CltAcquireQueue,
      Push, Goto, Empty, serverVars
<1>q1. threads'[c] = Append(threads[c], t) /\ \A d \in Client : d # c =>
           threads'[d] = threads[d]
  BY <1>2, Zenon DEF Inv, TypeOK, ClientTypeOK
<1>q2. /\ \A d \in Client : d # c => (Empty(d)' <=> Empty(d)) /\ Front(d)' = Front(d)
      /\ ~Empty(c)' /\ Front(c)' = t
  BY <1>1, <1>q1, PushQueue, Zenon DEF Inv
<1>3. /\ pc[t] = "idle" /\ t \notin signalled
      /\ Empty(c) /\ message[c] = "EMPTY"
      /\ state[c] = "FREE"
      /\ ret[t] = "RETRY"
      /\ owner = c
      /\ \A u \in Thread : pc'[u] = IF u = t THEN "held" ELSE pc[u]
      /\ \A d \in Client : state'[d] = IF d = c THEN "LOCKED" ELSE state[d]
      /\ UNCHANGED <<status, owner, retrying, waiting, message, signalled, exited, ret,
                     dst, nxt>>
      /\ \A u \in Thread : Home[u] \in Client
      /\ \A d \in Client : d # c => (Empty(d)' <=> Empty(d)) /\ Front(d)' = Front(d)
      /\ ~Empty(c)' /\ Front(c)' = t
      /\ \A u \in Thread : u # t /\ Home[u] = c =>
           pc[u] \in {"idle", "queued"} /\ u \notin signalled
  BY <1>1, <1>2, HomeAssumption, <1>q2, NoneActive, Zenon DEF Inv, TypeOK, ClientTypeOK
<1>4. ServerOK'
  BY <1>3, Zenon DEF Inv, ServerOK
<1>5. TypeOK'
  BY <1>1, <1>2
  DEF Inv, TypeOK, ServerTypeOK, ClientTypeOK, Label, Reply, State, Message, Status
<1>6. QueueOK'
  BY <1>3, <1>q1, PushQueueOK DEF Inv
<1>7. ActiveIsFront'
  BY <1>3, Zenon DEF Inv, ActiveIsFront, Active
<1>8. EmptyOK'
  BY <1>3, Zenon DEF Inv, EmptyOK
<1>9. FrontOK'
  <2>1. \A d \in Client : d # c =>
          (Empty(d)' <=> Empty(d)) /\ Front(d)' = Front(d) /\ state'[d] = state[d]
    BY <1>3, FrontHome, Zenon
  <2>2. \A u \in Thread : Home[u] # c =>
          (pc'[u] = "queued" => pc[u] = "queued") /\ (u \in signalled => u \in signalled')
    BY <1>3, FrontHome, Zenon
  <2>3. ~Empty(c)' /\ pc'[Front(c)'] = "queued" =>
          Front(c)' \in signalled' /\ state'[c] \in {"LOCKED", "NONE"}
    BY <1>3, FrontHome, Zenon
  <2> QED BY <2>1, <2>2, <2>3, FrontStable, Zenon
<1>10. PhaseOK'
  <2> SUFFICES ASSUME NEW u \in Thread PROVE Phase(u)'
    BY Zenon DEF PhaseOK
  <2>1. CASE u = t
    BY <2>1, <1>3, Zenon DEF Phase, InAcquireRPC
  <2>2. CASE u # t /\ Home[u] = c
    <3>1. pc'[u] \in {"idle", "queued"} /\ u \notin signalled'
      BY <2>2, <1>3, Zenon
    <3> QED BY <3>1, Zenon DEF Phase, InAcquireRPC
  <2>3. CASE u # t /\ Home[u] # c
    <3>1. pc'[u] = pc[u] /\ (u \in signalled' <=> u \in signalled)
              /\ state'[Home[u]] = state[Home[u]]
      BY <2>3, <1>3, Zenon
    <3> QED BY <3>1, Zenon DEF Inv, PhaseOK, Phase
  <2> QED BY <2>1, <2>2, <2>3, Zenon
<1>11. GrantOK'
  BY <1>3, Zenon DEF Inv, GrantOK
<1>12. OwnerOK'
  BY <1>3, Zenon DEF Inv, OwnerOK
<1>13. RevokingOK'
  <2>1. \A u \in Thread : HandingBack(u)' =>
          HandingBack(u) /\ dst[u] # c /\ dst'[u] = dst[u]
    BY <1>3, Zenon DEF Inv, RevokingOK, HandingBack
  <2>2. \A d \in Client : d # c =>
          (Empty(d)' <=> Empty(d)) /\ Front(d)' = Front(d) /\ state'[d] = state[d]
    BY <1>3, Zenon
  <2>3. \A u \in Thread : pc[u] = "parked" /\ Home[u] # c => pc'[u] = "parked"
    BY <1>3, Zenon
  <2> QED BY <2>1, <2>2, <2>3, RevokingStable
<1>14. RevokeOK'
  BY <1>3, Zenon DEF Inv, RevokeOK, RevokeInFlight
<1>15. MessageOK'
  <2>1. \A d \in Client : message'[d] = "REVOKE" => message[d] = "REVOKE"
    BY <1>3, Zenon
  <2>2. \A d \in Client : message'[d] = "REVOKE" /\ owner = d /\ status = "REVOKING" =>
          \/ owner' = d /\ status' = "REVOKING"
          \/ \E u \in Thread : Home[u] = d /\ pc'[u] \in {"retry", "return"}
    BY <1>3, Zenon
  <2>3. \A d \in Client : message'[d] = "REVOKE" /\ state[d] = "LOCKED" =>
          state'[d] = "LOCKED" \/ \E u \in Thread : Home[u] = d /\ pc'[u] = "release"
    BY <1>3, Zenon
  <2>4. \A u \in Thread : message'[Home[u]] = "REVOKE" =>
          /\ ret[u] = "OK" => ret'[u] = "OK" \/ state'[Home[u]] = "LOCKED"
          /\ pc[u] = "release" => pc'[u] \in {"release", "retry", "return"}
          /\ pc[u] \in {"retry", "return"} => pc'[u] \in {"retry", "return"}
    BY <1>3, Zenon
  <2>5. \A u \in Thread :
          pc'[u] \in {"release", "retry", "return"} => message'[Home[u]] = "REVOKE"
    BY <1>3, Zenon DEF Inv, MessageOK
  <2>6. \A d \in Client : message'[d] = "RETRY" => retrying' = d
    BY <1>3, Zenon DEF Inv, MessageOK
  <2> QED BY <2>1, <2>2, <2>3, <2>4, <2>5, <2>6, MessageStable, Zenon
<1>16. WaitingOK'
  <2>1. \A d \in Client : d \in waiting' => message'[d] = message[d]
    BY <1>3, Zenon
  <2>2. \A u \in Thread :
          Home[u] \in waiting' /\ pc[u] \in ToldRetry /\ u \notin signalled =>
            pc'[u] \in ToldRetry /\ ret'[u] = ret[u] /\ u \notin signalled'
    BY <1>3, Zenon DEF ToldRetry
  <2> QED BY <1>3, <2>1, <2>2, WaitingKept, Zenon
<1>17. RetryOK'
  BY <1>3 DEF Inv, RetryOK, RetryInFlight, ToldRetry
<1>18. KnownOK'
  BY <1>3, Zenon DEF Inv, KnownOK, ToldRetry
<1>19. NotLostOK'
  BY <1>3, Zenon DEF Inv, NotLostOK, RevokeInFlight
<1> QED BY <1>1, <1>2, <1>4, <1>5, <1>6, <1>7, <1>8, <1>9, <1>10, <1>11, <1>12, <1>13,
           <1>14, <1>15, <1>16, <1>17, <1>18, <1>19, Zenon DEF Inv

(* acquire finds no cached lock and calls wait. *)
LEMMA AcquireNoneStep ==
  ASSUME Inv, NEW t \in Thread, NEW c \in Client, c = Home[t],
         CallAcquire(t), Empty(c), state[c] = "NONE"
  PROVE  Inv'
<1>1. /\ pc[t] = "idle" /\ t \notin signalled
      /\ Empty(c) /\ message[c] = "EMPTY"
      /\ state[c] = "NONE"
      /\ ret[t] = "RETRY"
  BY Zenon DEF Inv, CallAcquire, Goto, PhaseOK, Phase, EmptyOK, GrantOK, TypeOK, Reply
<1>2. /\ pc' = [pc EXCEPT ![t] = "acquire"]
      /\ state' = [state EXCEPT ![c] = "ACQUIRING"]
      /\ threads' = [threads EXCEPT ![c] = Append(@, t)]
      /\ UNCHANGED <<status, owner, retrying, waiting, message, signalled, exited, ret,
                     dst, nxt>>
  BY <1>1, Zenon
  DEF CallAcquire, CltAcquireFree, CltAcquireNone, CltAcquirePark, CltAcquireQueue,
      Push, Goto, Empty, serverVars
<1>q1. threads'[c] = Append(threads[c], t) /\ \A d \in Client : d # c =>
           threads'[d] = threads[d]
  BY <1>2, Zenon DEF Inv, TypeOK, ClientTypeOK
<1>q2. /\ \A d \in Client : d # c => (Empty(d)' <=> Empty(d)) /\ Front(d)' = Front(d)
      /\ ~Empty(c)' /\ Front(c)' = t
  BY <1>1, <1>q1, PushQueue, Zenon DEF Inv
<1>3. /\ pc[t] = "idle" /\ t \notin signalled
      /\ Empty(c) /\ message[c] = "EMPTY"
      /\ state[c] = "NONE"
      /\ ret[t] = "RETRY"
      /\ \A u \in Thread : pc'[u] = IF u = t THEN "acquire" ELSE pc[u]
      /\ \A d \in Client : state'[d] = IF d = c THEN "ACQUIRING" ELSE state[d]
      /\ UNCHANGED <<status, owner, retrying, waiting, message, signalled, exited, ret,
                     dst, nxt>>
      /\ \A u \in Thread : Home[u] \in Client
      /\ \A d \in Client : d # c => (Empty(d)' <=> Empty(d)) /\ Front(d)' = Front(d)
      /\ ~Empty(c)' /\ Front(c)' = t
      /\ \A u \in Thread : u # t /\ Home[u] = c =>
           pc[u] \in {"idle", "queued"} /\ u \notin signalled
  BY <1>1, <1>2, HomeAssumption, <1>q2, NoneActive, Zenon DEF Inv, TypeOK, ClientTypeOK
<1>4. ServerOK'
  BY <1>3, Zenon DEF Inv, ServerOK
<1>5. TypeOK'
  BY <1>1, <1>2
  DEF Inv, TypeOK, ServerTypeOK, ClientTypeOK, Label, Reply, State, Message, Status
<1>6. QueueOK'
  BY <1>3, <1>q1, PushQueueOK DEF Inv
<1>7. ActiveIsFront'
  BY <1>3, Zenon DEF Inv, ActiveIsFront, Active
<1>8. EmptyOK'
  BY <1>3, Zenon DEF Inv, EmptyOK
<1>9. FrontOK'
  <2>1. \A d \in Client : d # c =>
          (Empty(d)' <=> Empty(d)) /\ Front(d)' = Front(d) /\ state'[d] = state[d]
    BY <1>3, FrontHome, Zenon
  <2>2. \A u \in Thread : Home[u] # c =>
          (pc'[u] = "queued" => pc[u] = "queued") /\ (u \in signalled => u \in signalled')
    BY <1>3, FrontHome, Zenon
  <2>3. ~Empty(c)' /\ pc'[Front(c)'] = "queued" =>
          Front(c)' \in signalled' /\ state'[c] \in {"LOCKED", "NONE"}
    BY <1>3, FrontHome, Zenon
  <2> QED BY <2>1, <2>2, <2>3, FrontStable, Zenon
<1>10. PhaseOK'
  <2> SUFFICES ASSUME NEW u \in Thread PROVE Phase(u)'
    BY Zenon DEF PhaseOK
  <2>1. CASE u = t
    BY <2>1, <1>3, Zenon DEF Phase, InAcquireRPC
  <2>2. CASE u # t /\ Home[u] = c
    <3>1. pc'[u] \in {"idle", "queued"} /\ u \notin signalled'
      BY <2>2, <1>3, Zenon
    <3> QED BY <3>1, Zenon DEF Phase, InAcquireRPC
  <2>3. CASE u # t /\ Home[u] # c
    <3>1. pc'[u] = pc[u] /\ (u \in signalled' <=> u \in signalled)
              /\ state'[Home[u]] = state[Home[u]]
      BY <2>3, <1>3, Zenon
    <3> QED BY <3>1, Zenon DEF Inv, PhaseOK, Phase
  <2> QED BY <2>1, <2>2, <2>3, Zenon
<1>11. GrantOK'
  BY <1>3, Zenon DEF Inv, GrantOK
<1>12. OwnerOK'
  <2>1. \A d \in Client : state[d] \in {"FREE", "LOCKED"} => state'[d] \in {"FREE", "LOCKED"}
    BY <1>3, Zenon
  <2>2. \A u \in Thread : /\ ret[u] = "OK" => ret'[u] = "OK"
                          /\ pc[u] = "release" => pc'[u] = "release"
                          /\ pc[u] = "rv_release" =>
                               pc'[u] = "rv_release" /\ dst'[u] = dst[u]
    BY <1>3, Zenon
  <2> QED BY <1>3, <2>1, <2>2, OwnerStable, Zenon
<1>13. RevokingOK'
  <2>1. \A u \in Thread : HandingBack(u)' =>
          HandingBack(u) /\ dst[u] # c /\ dst'[u] = dst[u]
    BY <1>3, Zenon DEF Inv, RevokingOK, HandingBack
  <2>2. \A d \in Client : d # c =>
          (Empty(d)' <=> Empty(d)) /\ Front(d)' = Front(d) /\ state'[d] = state[d]
    BY <1>3, Zenon
  <2>3. \A u \in Thread : pc[u] = "parked" /\ Home[u] # c => pc'[u] = "parked"
    BY <1>3, Zenon
  <2> QED BY <2>1, <2>2, <2>3, RevokingStable
<1>14. RevokeOK'
  BY <1>3, Zenon DEF Inv, RevokeOK, RevokeInFlight
<1>15. MessageOK'
  <2>1. \A d \in Client : message'[d] = "REVOKE" => message[d] = "REVOKE"
    BY <1>3, Zenon
  <2>2. \A d \in Client : message'[d] = "REVOKE" /\ owner = d /\ status = "REVOKING" =>
          \/ owner' = d /\ status' = "REVOKING"
          \/ \E u \in Thread : Home[u] = d /\ pc'[u] \in {"retry", "return"}
    BY <1>3, Zenon
  <2>3. \A d \in Client : message'[d] = "REVOKE" /\ state[d] = "LOCKED" =>
          state'[d] = "LOCKED" \/ \E u \in Thread : Home[u] = d /\ pc'[u] = "release"
    BY <1>3, Zenon
  <2>4. \A u \in Thread : message'[Home[u]] = "REVOKE" =>
          /\ ret[u] = "OK" => ret'[u] = "OK" \/ state'[Home[u]] = "LOCKED"
          /\ pc[u] = "release" => pc'[u] \in {"release", "retry", "return"}
          /\ pc[u] \in {"retry", "return"} => pc'[u] \in {"retry", "return"}
    BY <1>3, Zenon
  <2>5. \A u \in Thread :
          pc'[u] \in {"release", "retry", "return"} => message'[Home[u]] = "REVOKE"
    BY <1>3, Zenon DEF Inv, MessageOK
  <2>6. \A d \in Client : message'[d] = "RETRY" => retrying' = d
    BY <1>3, Zenon DEF Inv, MessageOK
  <2> QED BY <2>1, <2>2, <2>3, <2>4, <2>5, <2>6, MessageStable, Zenon
<1>16. WaitingOK'
  <2>1. \A d \in Client : d \in waiting' => message'[d] = message[d]
    BY <1>3, Zenon
  <2>2. \A u \in Thread :
          Home[u] \in waiting' /\ pc[u] \in ToldRetry /\ u \notin signalled =>
            pc'[u] \in ToldRetry /\ ret'[u] = ret[u] /\ u \notin signalled'
    BY <1>3, Zenon DEF ToldRetry
  <2> QED BY <1>3, <2>1, <2>2, WaitingKept, Zenon
<1>17. RetryOK'
  BY <1>3 DEF Inv, RetryOK, RetryInFlight, ToldRetry
<1>18. KnownOK'
  BY <1>3, Zenon DEF Inv, KnownOK, ToldRetry
<1>19. NotLostOK'
  BY <1>3, Zenon DEF Inv, NotLostOK, RevokeInFlight
<1> QED BY <1>1, <1>2, <1>4, <1>5, <1>6, <1>7, <1>8, <1>9, <1>10, <1>11, <1>12, <1>13,
           <1>14, <1>15, <1>16, <1>17, <1>18, <1>19, Zenon DEF Inv

(* acquire finds an empty queue while revoke_handler gives the lock back. *)
LEMMA AcquireParkStep ==
  ASSUME Inv, NEW t \in Thread, NEW c \in Client, c = Home[t],
         CallAcquire(t), Empty(c), state[c] = "RELEASING"
  PROVE  Inv'
<1>1. /\ pc[t] = "idle" /\ t \notin signalled
      /\ Empty(c) /\ message[c] = "EMPTY"
      /\ state[c] = "RELEASING"
      /\ ret[t] = "RETRY"
  BY Zenon DEF Inv, CallAcquire, Goto, PhaseOK, Phase, EmptyOK, GrantOK, TypeOK, Reply
<1>2. /\ pc' = [pc EXCEPT ![t] = "parked"]
      /\ threads' = [threads EXCEPT ![c] = Append(@, t)]
      /\ UNCHANGED <<status, owner, retrying, waiting, state, message, signalled,
                     exited, ret, dst, nxt>>
  BY <1>1, Zenon
  DEF CallAcquire, CltAcquireFree, CltAcquireNone, CltAcquirePark, CltAcquireQueue,
      Push, Goto, Empty, serverVars
<1>q1. threads'[c] = Append(threads[c], t) /\ \A d \in Client : d # c =>
           threads'[d] = threads[d]
  BY <1>2, Zenon DEF Inv, TypeOK, ClientTypeOK
<1>q2. /\ \A d \in Client : d # c => (Empty(d)' <=> Empty(d)) /\ Front(d)' = Front(d)
      /\ ~Empty(c)' /\ Front(c)' = t
  BY <1>1, <1>q1, PushQueue, Zenon DEF Inv
<1>3. /\ pc[t] = "idle" /\ t \notin signalled
      /\ Empty(c) /\ message[c] = "EMPTY"
      /\ state[c] = "RELEASING"
      /\ ret[t] = "RETRY"
      /\ \A u \in Thread : pc'[u] = IF u = t THEN "parked" ELSE pc[u]
      /\ UNCHANGED <<status, owner, retrying, waiting, state, message, signalled,
                     exited, ret, dst, nxt>>
      /\ \A u \in Thread : Home[u] \in Client
      /\ \A d \in Client : d # c => (Empty(d)' <=> Empty(d)) /\ Front(d)' = Front(d)
      /\ ~Empty(c)' /\ Front(c)' = t
      /\ \A u \in Thread : u # t /\ Home[u] = c =>
           pc[u] \in {"idle", "queued"} /\ u \notin signalled
  BY <1>1, <1>2, HomeAssumption, <1>q2, NoneActive, Zenon DEF Inv, TypeOK, ClientTypeOK
<1>4. ServerOK'
  BY <1>3, Zenon DEF Inv, ServerOK
<1>5. TypeOK'
  BY <1>1, <1>2
  DEF Inv, TypeOK, ServerTypeOK, ClientTypeOK, Label, Reply, State, Message, Status
<1>6. QueueOK'
  BY <1>3, <1>q1, PushQueueOK DEF Inv
<1>7. ActiveIsFront'
  BY <1>3, Zenon DEF Inv, ActiveIsFront, Active
<1>8. EmptyOK'
  BY <1>3, Zenon DEF Inv, EmptyOK
<1>9. FrontOK'
  <2>1. \A d \in Client : d # c =>
          (Empty(d)' <=> Empty(d)) /\ Front(d)' = Front(d) /\ state'[d] = state[d]
    BY <1>3, FrontHome, Zenon
  <2>2. \A u \in Thread : Home[u] # c =>
          (pc'[u] = "queued" => pc[u] = "queued") /\ (u \in signalled => u \in signalled')
    BY <1>3, FrontHome, Zenon
  <2>3. ~Empty(c)' /\ pc'[Front(c)'] = "queued" =>
          Front(c)' \in signalled' /\ state'[c] \in {"LOCKED", "NONE"}
    BY <1>3, FrontHome, Zenon
  <2> QED BY <2>1, <2>2, <2>3, FrontStable, Zenon
<1>10. PhaseOK'
  <2> SUFFICES ASSUME NEW u \in Thread PROVE Phase(u)'
    BY Zenon DEF PhaseOK
  <2>1. CASE u = t
    BY <2>1, <1>3, Zenon DEF Phase, InAcquireRPC
  <2>2. CASE u # t /\ Home[u] = c
    <3>1. pc'[u] \in {"idle", "queued"} /\ u \notin signalled'
      BY <2>2, <1>3, Zenon
    <3> QED BY <3>1, Zenon DEF Phase, InAcquireRPC
  <2>3. CASE u # t /\ Home[u] # c
    <3>1. pc'[u] = pc[u] /\ (u \in signalled' <=> u \in signalled)
              /\ state'[Home[u]] = state[Home[u]]
      BY <2>3, <1>3, Zenon
    <3> QED BY <3>1, Zenon DEF Inv, PhaseOK, Phase
  <2> QED BY <2>1, <2>2, <2>3, Zenon
<1>11. GrantOK'
  BY <1>3, Zenon DEF Inv, GrantOK
<1>12. OwnerOK'
  <2>1. \A d \in Client : state[d] \in {"FREE", "LOCKED"} => state'[d] \in {"FREE", "LOCKED"}
    BY <1>3, Zenon
  <2>2. \A u \in Thread : /\ ret[u] = "OK" => ret'[u] = "OK"
                          /\ pc[u] = "release" => pc'[u] = "release"
                          /\ pc[u] = "rv_release" =>
                               pc'[u] = "rv_release" /\ dst'[u] = dst[u]
    BY <1>3, Zenon
  <2> QED BY <1>3, <2>1, <2>2, OwnerStable, Zenon
<1>13. RevokingOK'
  <2>1. ASSUME NEW u \in Thread, HandingBack(u)'
        PROVE  /\ dst[u] \in Client
               /\ state'[dst[u]] = "RELEASING"
               /\ ~Empty(dst[u])' => pc'[Front(dst[u])'] = "parked"
    BY <2>1, <1>3, FrontHome DEF Inv, RevokingOK, HandingBack
  <2>2. \A u, v \in Thread : HandingBack(u)' /\ HandingBack(v)' /\ dst[u] = dst[v] =>
            u = v
    BY <1>3, Zenon DEF Inv, RevokingOK, HandingBack
  <2> QED BY <2>1, <2>2, <1>3, Zenon DEF RevokingOK
<1>14. RevokeOK'
  BY <1>3, Zenon DEF Inv, RevokeOK, RevokeInFlight
<1>15. MessageOK'
  <2>1. \A d \in Client : message'[d] = "REVOKE" => message[d] = "REVOKE"
    BY <1>3, Zenon
  <2>2. \A d \in Client : message'[d] = "REVOKE" /\ owner = d /\ status = "REVOKING" =>
          \/ owner' = d /\ status' = "REVOKING"
          \/ \E u \in Thread : Home[u] = d /\ pc'[u] \in {"retry", "return"}
    BY <1>3, Zenon
  <2>3. \A d \in Client : message'[d] = "REVOKE" /\ state[d] = "LOCKED" =>
          state'[d] = "LOCKED" \/ \E u \in Thread : Home[u] = d /\ pc'[u] = "release"
    BY <1>3, Zenon
  <2>4. \A u \in Thread : message'[Home[u]] = "REVOKE" =>
          /\ ret[u] = "OK" => ret'[u] = "OK" \/ state'[Home[u]] = "LOCKED"
          /\ pc[u] = "release" => pc'[u] \in {"release", "retry", "return"}
          /\ pc[u] \in {"retry", "return"} => pc'[u] \in {"retry", "return"}
    BY <1>3, Zenon
  <2>5. \A u \in Thread :
          pc'[u] \in {"release", "retry", "return"} => message'[Home[u]] = "REVOKE"
    BY <1>3, Zenon DEF Inv, MessageOK
  <2>6. \A d \in Client : message'[d] = "RETRY" => retrying' = d
    BY <1>3, Zenon DEF Inv, MessageOK
  <2> QED BY <2>1, <2>2, <2>3, <2>4, <2>5, <2>6, MessageStable, Zenon
<1>16. WaitingOK'
  <2>1. \A d \in Client : d \in waiting' => message'[d] = message[d]
    BY <1>3, Zenon
  <2>2. \A u \in Thread :
          Home[u] \in waiting' /\ pc[u] \in ToldRetry /\ u \notin signalled =>
            pc'[u] \in ToldRetry /\ ret'[u] = ret[u] /\ u \notin signalled'
    BY <1>3, Zenon DEF ToldRetry
  <2> QED BY <1>3, <2>1, <2>2, WaitingKept, Zenon
<1>17. RetryOK'
  BY <1>3, Zenon DEF Inv, RetryOK, RetryInFlight, ToldRetry
<1>18. KnownOK'
  BY <1>3, Zenon DEF Inv, KnownOK, ToldRetry
<1>19. NotLostOK'
  BY <1>3, Zenon DEF Inv, NotLostOK, RevokeInFlight
<1> QED BY <1>1, <1>2, <1>4, <1>5, <1>6, <1>7, <1>8, <1>9, <1>10, <1>11, <1>12, <1>13,
           <1>14, <1>15, <1>16, <1>17, <1>18, <1>19, Zenon DEF Inv

(* acquire queues behind other threads. *)
LEMMA AcquireQueueStep ==
  ASSUME Inv, NEW t \in Thread, NEW c \in Client, c = Home[t],
         CallAcquire(t), ~Empty(c)
  PROVE  Inv'
<1>1. /\ pc[t] = "idle" /\ t \notin signalled
      /\ ~Empty(c)
      /\ ret[t] = "RETRY"
  BY Zenon DEF Inv, CallAcquire, Goto, PhaseOK, Phase, GrantOK, TypeOK, Reply
<1>2. /\ pc' = [pc EXCEPT ![t] = "queued"]
      /\ threads' = [threads EXCEPT ![c] = Append(@, t)]
      /\ UNCHANGED <<status, owner, retrying, waiting, state, message, signalled,
                     exited, ret, dst, nxt>>
  BY <1>1, Zenon
  DEF CallAcquire, CltAcquireFree, CltAcquireNone, CltAcquirePark, CltAcquireQueue,
      Push, Goto, Empty, serverVars
<1>q1. threads'[c] = Append(threads[c], t) /\ \A d \in Client : d # c =>
           threads'[d] = threads[d]
  BY <1>2, Zenon DEF Inv, TypeOK, ClientTypeOK
<1>q2. /\ \A d \in Client : (Empty(d)' <=> Empty(d)) /\ Front(d)' = Front(d)
  BY <1>1, <1>q1, PushQueue, Zenon DEF Inv
<1>3. /\ pc[t] = "idle" /\ t \notin signalled
      /\ ~Empty(c)
      /\ ret[t] = "RETRY"
      /\ \A u \in Thread : pc'[u] = IF u = t THEN "queued" ELSE pc[u]
      /\ UNCHANGED <<status, owner, retrying, waiting, state, message, signalled,
                     exited, ret, dst, nxt>>
      /\ \A u \in Thread : Home[u] \in Client
      /\ \A d \in Client : (Empty(d)' <=> Empty(d)) /\ Front(d)' = Front(d)
      /\ \A d \in Client : ~Empty(d) => Front(d) # t
  BY <1>1, <1>2, HomeAssumption, <1>q2, FrontHome, Zenon DEF Inv, TypeOK, ClientTypeOK
<1>4. ServerOK'
  BY <1>3, Zenon DEF Inv, ServerOK
<1>5. TypeOK'
  BY <1>1, <1>2
  DEF Inv, TypeOK, ServerTypeOK, ClientTypeOK, Label, Reply, State, Message, Status
<1>6. QueueOK'
  BY <1>3, <1>q1, PushQueueOK, Zenon DEF Inv
<1>7. ActiveIsFront'
  BY <1>3, Zenon DEF Inv, ActiveIsFront, Active
<1>8. EmptyOK'
  BY <1>3, Zenon DEF Inv, EmptyOK
<1>9. FrontOK'
  <2>1. \A d \in Client : d # c =>
          (Empty(d)' <=> Empty(d)) /\ Front(d)' = Front(d) /\ state'[d] = state[d]
    BY <1>3, FrontHome, Zenon
  <2>2. \A u \in Thread : Home[u] # c =>
          (pc'[u] = "queued" => pc[u] = "queued") /\ (u \in signalled => u \in signalled')
    BY <1>3, FrontHome, Zenon
  <2>3. ~Empty(c)' /\ pc'[Front(c)'] = "queued" =>
          Front(c)' \in signalled' /\ state'[c] \in {"LOCKED", "NONE"}
    <3>1. /\ Front(c) \in Thread /\ pc'[Front(c)] = pc[Front(c)]
          /\ Front(c)' = Front(c) /\ signalled' = signalled /\ state' = state
      BY <1>3, FrontHome, Zenon
    <3>2. ~Empty(c) /\ pc[Front(c)] = "queued" =>
            Front(c) \in signalled /\ state[c] \in {"LOCKED", "NONE"}
      BY Zenon DEF Inv, FrontOK
    <3> QED BY <1>1, <3>1, <3>2, Zenon
  <2> QED BY <2>1, <2>2, <2>3, FrontStable, Zenon
<1>10. PhaseOK'
  <2> SUFFICES ASSUME NEW u \in Thread PROVE Phase(u)'
    BY Zenon DEF PhaseOK
  <2>1. CASE u = t
    BY <2>1, <1>3, Zenon DEF Phase, InAcquireRPC
  <2>2. CASE u # t
    BY <2>2, <1>3, Zenon DEF Inv, PhaseOK, Phase
  <2> QED BY <2>1, <2>2, Zenon
<1>11. GrantOK'
  BY <1>3, Zenon DEF Inv, GrantOK
<1>12. OwnerOK'
  <2>1. \A d \in Client : state[d] \in {"FREE", "LOCKED"} => state'[d] \in {"FREE", "LOCKED"}
    BY <1>3, Zenon
  <2>2. \A u \in Thread : /\ ret[u] = "OK" => ret'[u] = "OK"
                          /\ pc[u] = "release" => pc'[u] = "release"
                          /\ pc[u] = "rv_release" =>
                               pc'[u] = "rv_release" /\ dst'[u] = dst[u]
    BY <1>3, Zenon
  <2> QED BY <1>3, <2>1, <2>2, OwnerStable, Zenon
<1>13. RevokingOK'
  <2>1. ASSUME NEW u \in Thread, HandingBack(u)'
        PROVE  /\ dst[u] \in Client
               /\ state'[dst[u]] = "RELEASING"
               /\ ~Empty(dst[u])' => pc'[Front(dst[u])'] = "parked"
    BY <2>1, <1>3, FrontHome DEF Inv, RevokingOK, HandingBack
  <2>2. \A u, v \in Thread : HandingBack(u)' /\ HandingBack(v)' /\ dst[u] = dst[v] =>
            u = v
    BY <1>3, Zenon DEF Inv, RevokingOK, HandingBack
  <2> QED BY <2>1, <2>2, <1>3, Zenon DEF RevokingOK
<1>14. RevokeOK'
  BY <1>3, Zenon DEF Inv, RevokeOK, RevokeInFlight
<1>15. MessageOK'
  <2>1. \A d \in Client : message'[d] = "REVOKE" => message[d] = "REVOKE"
    BY <1>3, Zenon
  <2>2. \A d \in Client : message'[d] = "REVOKE" /\ owner = d /\ status = "REVOKING" =>
          \/ owner' = d /\ status' = "REVOKING"
          \/ \E u \in Thread : Home[u] = d /\ pc'[u] \in {"retry", "return"}
    BY <1>3, Zenon
  <2>3. \A d \in Client : message'[d] = "REVOKE" /\ state[d] = "LOCKED" =>
          state'[d] = "LOCKED" \/ \E u \in Thread : Home[u] = d /\ pc'[u] = "release"
    BY <1>3, Zenon
  <2>4. \A u \in Thread : message'[Home[u]] = "REVOKE" =>
          /\ ret[u] = "OK" => ret'[u] = "OK" \/ state'[Home[u]] = "LOCKED"
          /\ pc[u] = "release" => pc'[u] \in {"release", "retry", "return"}
          /\ pc[u] \in {"retry", "return"} => pc'[u] \in {"retry", "return"}
    BY <1>3, Zenon
  <2>5. \A u \in Thread :
          pc'[u] \in {"release", "retry", "return"} => message'[Home[u]] = "REVOKE"
    BY <1>3, Zenon DEF Inv, MessageOK
  <2>6. \A d \in Client : message'[d] = "RETRY" => retrying' = d
    BY <1>3, Zenon DEF Inv, MessageOK
  <2> QED BY <2>1, <2>2, <2>3, <2>4, <2>5, <2>6, MessageStable, Zenon
<1>16. WaitingOK'
  <2>1. \A d \in Client : d \in waiting' => message'[d] = message[d]
    BY <1>3, Zenon
  <2>2. \A u \in Thread :
          Home[u] \in waiting' /\ pc[u] \in ToldRetry /\ u \notin signalled =>
            pc'[u] \in ToldRetry /\ ret'[u] = ret[u] /\ u \notin signalled'
    BY <1>3, Zenon DEF ToldRetry
  <2> QED BY <1>3, <2>1, <2>2, WaitingKept, Zenon
<1>17. RetryOK'
  BY <1>3, Zenon DEF Inv, RetryOK, RetryInFlight, ToldRetry
<1>18. KnownOK'
  BY <1>3, Zenon DEF Inv, KnownOK, ToldRetry
<1>19. NotLostOK'
  BY <1>3, Zenon DEF Inv, NotLostOK, RevokeInFlight
<1> QED BY <1>1, <1>2, <1>4, <1>5, <1>6, <1>7, <1>8, <1>9, <1>10, <1>11, <1>12, <1>13,
           <1>14, <1>15, <1>16, <1>17, <1>18, <1>19, Zenon DEF Inv

(* The parked thread wakes and calls wait. *)
LEMMA WakeParkedStep ==
  ASSUME Inv, NEW t \in Thread, NEW c \in Client, c = Home[t],
         WakeParked(t)
  PROVE  Inv'
<1>1. /\ pc[t] = "parked" /\ t \in signalled
      /\ state[c] = "NONE"
      /\ ret[t] = "RETRY"
  BY Zenon
  DEF Inv, WakeParked, CltWakeParked, WakeUp, Goto, PhaseOK, Phase, GrantOK, TypeOK,
      Reply
<1>2. /\ pc' = [pc EXCEPT ![t] = "acquire"]
      /\ signalled' = signalled \ {t}
      /\ state' = [state EXCEPT ![c] = "ACQUIRING"]
      /\ UNCHANGED <<status, owner, retrying, waiting, message, threads, exited, ret,
                     dst, nxt>>
  BY <1>1, Zenon DEF WakeParked, CltWakeParked, WakeUp, Goto, serverVars
<1>3. /\ pc[t] = "parked" /\ t \in signalled
      /\ state[c] = "NONE"
      /\ ret[t] = "RETRY"
      /\ \A u \in Thread : pc'[u] = IF u = t THEN "acquire" ELSE pc[u]
      /\ signalled' = signalled \ {t}
      /\ \A d \in Client : state'[d] = IF d = c THEN "ACQUIRING" ELSE state[d]
      /\ UNCHANGED <<status, owner, retrying, waiting, message, threads, exited, ret,
                     dst, nxt>>
      /\ \A u \in Thread : Home[u] \in Client
      /\ \A d \in Client : (Empty(d)' <=> Empty(d)) /\ Front(d)' = Front(d)
      /\ ~Empty(c) /\ t = Front(c)
      /\ \A u \in Thread : u # t /\ Home[u] = c =>
           pc[u] \in {"idle", "queued"} /\ u \notin signalled
  BY <1>1, <1>2, HomeAssumption, SameQueues, OneActive, Zenon
  DEF Inv, TypeOK, ClientTypeOK, Active
<1>4. ServerOK'
  BY <1>3, Zenon DEF Inv, ServerOK
<1>5. TypeOK'
  BY <1>1, <1>2, Zenon
  DEF Inv, TypeOK, ServerTypeOK, ClientTypeOK, Label, Reply, State, Message, Status
<1>6. QueueOK'
  BY <1>3, QueueStable, Zenon DEF Inv
<1>7. ActiveIsFront'
  BY <1>3 DEF Inv, ActiveIsFront, Active
<1>8. EmptyOK'
  BY <1>3, Zenon DEF Inv, EmptyOK
<1>9. FrontOK'
  <2>1. \A d \in Client : d # c =>
          (Empty(d)' <=> Empty(d)) /\ Front(d)' = Front(d) /\ state'[d] = state[d]
    BY <1>3, FrontHome, Zenon
  <2>2. \A u \in Thread : Home[u] # c =>
          (pc'[u] = "queued" => pc[u] = "queued") /\ (u \in signalled => u \in signalled')
    BY <1>3, FrontHome, Zenon
  <2>3. ~Empty(c)' /\ pc'[Front(c)'] = "queued" =>
          Front(c)' \in signalled' /\ state'[c] \in {"LOCKED", "NONE"}
    BY <1>3, FrontHome, Zenon
  <2> QED BY <2>1, <2>2, <2>3, FrontStable, Zenon
<1>10. PhaseOK'
  <2> SUFFICES ASSUME NEW u \in Thread PROVE Phase(u)'
    BY Zenon DEF PhaseOK
  <2>1. CASE u = t
    BY <2>1, <1>3, Zenon DEF Phase, InAcquireRPC
  <2>2. CASE u # t /\ Home[u] = c
    <3>1. pc'[u] \in {"idle", "queued"} /\ u \notin signalled'
      BY <2>2, <1>3, Zenon
    <3> QED BY <3>1, Zenon DEF Phase, InAcquireRPC
  <2>3. CASE u # t /\ Home[u] # c
    <3>1. pc'[u] = pc[u] /\ (u \in signalled' <=> u \in signalled)
              /\ state'[Home[u]] = state[Home[u]]
      BY <2>3, <1>3, Zenon
    <3> QED BY <3>1, Zenon DEF Inv, PhaseOK, Phase
  <2> QED BY <2>1, <2>2, <2>3, Zenon
<1>11. GrantOK'
  <2>1. \A d \in Client : state'[d] \in {"FREE", "LOCKED"} => state[d] \in {"FREE", "LOCKED"}
    BY <1>3, Zenon
  <2>2. \A u \in Thread : ret'[u] = "OK" => ret[u] = "OK" /\ pc'[u] \in {"revoke", "reply"}
    BY <1>3, Zenon DEF Inv, GrantOK
  <2>3. \A u \in Thread : pc'[u] = "release" => pc[u] = "release"
    BY <1>3, Zenon
  <2> QED BY <1>3, <2>1, <2>2, <2>3, GrantStable, Zenon
<1>12. OwnerOK'
  <2>1. \A d \in Client : state[d] \in {"FREE", "LOCKED"} => state'[d] \in {"FREE", "LOCKED"}
    BY <1>3, Zenon
  <2>2. \A u \in Thread : /\ ret[u] = "OK" => ret'[u] = "OK"
                          /\ pc[u] = "release" => pc'[u] = "release"
                          /\ pc[u] = "rv_release" =>
                               pc'[u] = "rv_release" /\ dst'[u] = dst[u]
    BY <1>3, Zenon
  <2> QED BY <1>3, <2>1, <2>2, OwnerStable, Zenon
<1>13. RevokingOK'
  <2>1. \A u \in Thread : HandingBack(u)' =>
          HandingBack(u) /\ dst[u] # c /\ dst'[u] = dst[u]
    BY <1>3, Zenon DEF Inv, RevokingOK, HandingBack
  <2>2. \A d \in Client : d # c =>
          (Empty(d)' <=> Empty(d)) /\ Front(d)' = Front(d) /\ state'[d] = state[d]
    BY <1>3, Zenon
  <2>3. \A u \in Thread : pc[u] = "parked" /\ Home[u] # c => pc'[u] = "parked"
    BY <1>3, Zenon
  <2> QED BY <2>1, <2>2, <2>3, RevokingStable, Zenon
<1>14. RevokeOK'
  BY <1>3, Zenon DEF Inv, RevokeOK, RevokeInFlight
<1>15. MessageOK'
  <2>1. \A d \in Client : message'[d] = "REVOKE" => message[d] = "REVOKE"
    BY <1>3, Zenon
  <2>2. \A d \in Client : message'[d] = "REVOKE" /\ owner = d /\ status = "REVOKING" =>
          \/ owner' = d /\ status' = "REVOKING"
          \/ \E u \in Thread : Home[u] = d /\ pc'[u] \in {"retry", "return"}
    BY <1>3, Zenon
  <2>3. \A d \in Client : message'[d] = "REVOKE" /\ state[d] = "LOCKED" =>
          state'[d] = "LOCKED" \/ \E u \in Thread : Home[u] = d /\ pc'[u] = "release"
    BY <1>3, Zenon
  <2>4. \A u \in Thread : message'[Home[u]] = "REVOKE" =>
          /\ ret[u] = "OK" => ret'[u] = "OK" \/ state'[Home[u]] = "LOCKED"
          /\ pc[u] = "release" => pc'[u] \in {"release", "retry", "return"}
          /\ pc[u] \in {"retry", "return"} => pc'[u] \in {"retry", "return"}
    BY <1>3, Zenon
  <2>5. \A u \in Thread :
          pc'[u] \in {"release", "retry", "return"} => message'[Home[u]] = "REVOKE"
    BY <1>3, Zenon DEF Inv, MessageOK
  <2>6. \A d \in Client : message'[d] = "RETRY" => retrying' = d
    BY <1>3, Zenon DEF Inv, MessageOK
  <2> QED BY <2>1, <2>2, <2>3, <2>4, <2>5, <2>6, MessageStable, Zenon
<1>16. WaitingOK'
  <2>1. \A d \in Client : d \in waiting' => message'[d] = message[d]
    BY <1>3, Zenon
  <2>2. \A u \in Thread :
          Home[u] \in waiting' /\ pc[u] \in ToldRetry /\ u \notin signalled =>
            pc'[u] \in ToldRetry /\ ret'[u] = ret[u] /\ u \notin signalled'
    BY <1>3, Zenon DEF ToldRetry
  <2> QED BY <1>3, <2>1, <2>2, WaitingKept, Zenon
<1>17. RetryOK'
  BY <1>3 DEF Inv, RetryOK, RetryInFlight, ToldRetry
<1>18. KnownOK'
  BY <1>3, Zenon DEF Inv, KnownOK, ToldRetry
<1>19. NotLostOK'
  BY <1>3, Zenon DEF Inv, NotLostOK, RevokeInFlight
<1> QED BY <1>1, <1>2, <1>4, <1>5, <1>6, <1>7, <1>8, <1>9, <1>10, <1>11, <1>12, <1>13,
           <1>14, <1>15, <1>16, <1>17, <1>18, <1>19, Zenon DEF Inv

(* A queued thread wakes with the lock handed to it. *)
LEMMA WakeQueuedLockedStep ==
  ASSUME Inv, NEW t \in Thread, NEW c \in Client, c = Home[t],
         WakeQueued(t), state[c] = "LOCKED"
  PROVE  Inv'
<1>1. /\ pc[t] = "queued" /\ t \in signalled
      /\ ret[t] = "RETRY"
  BY Zenon DEF Inv, WakeQueued, CltWakeQueued, WakeUp, Goto, GrantOK, TypeOK, Reply
<1>2. /\ pc' = [pc EXCEPT ![t] = "held"]
      /\ signalled' = signalled \ {t}
      /\ UNCHANGED <<status, owner, retrying, waiting, state, message, threads, exited,
                     ret, dst, nxt>>
  BY <1>1, Zenon
  DEF Inv, TypeOK, ClientTypeOK, WakeQueued, CltWakeQueued, WakeUp, Goto, serverVars
<1>3. /\ pc[t] = "queued" /\ t \in signalled
      /\ ret[t] = "RETRY"
      /\ \A u \in Thread : pc'[u] = IF u = t THEN "held" ELSE pc[u]
      /\ signalled' = signalled \ {t}
      /\ UNCHANGED <<status, owner, retrying, waiting, state, message, threads, exited,
                     ret, dst, nxt>>
      /\ \A u \in Thread : Home[u] \in Client
      /\ \A d \in Client : (Empty(d)' <=> Empty(d)) /\ Front(d)' = Front(d)
      /\ ~Empty(c) /\ t = Front(c)
      /\ \A u \in Thread : u # t /\ Home[u] = c =>
           pc[u] \in {"idle", "queued"} /\ u \notin signalled
  BY <1>1, <1>2, HomeAssumption, SameQueues, OneActive, Zenon
  DEF Inv, TypeOK, ClientTypeOK, Active
<1>4. EmptyOK' /\ ServerOK'
  BY <1>3, Zenon DEF Inv, EmptyOK, ServerOK
<1>5. TypeOK'
  BY <1>1, <1>2, Zenon
  DEF Inv, TypeOK, ServerTypeOK, ClientTypeOK, Label, Reply, State, Message, Status
<1>6. QueueOK'
  BY <1>3, QueueStable, Zenon DEF Inv
<1>7. ActiveIsFront'
  BY <1>3, Zenon DEF Inv, ActiveIsFront, Active
<1>8. FrontOK'
  <2>1. \A d \in Client : d # c =>
          (Empty(d)' <=> Empty(d)) /\ Front(d)' = Front(d) /\ state'[d] = state[d]
    BY <1>3, FrontHome, Zenon
  <2>2. \A u \in Thread : Home[u] # c =>
          (pc'[u] = "queued" => pc[u] = "queued") /\ (u \in signalled => u \in signalled')
    BY <1>3, FrontHome, Zenon
  <2>3. ~Empty(c)' /\ pc'[Front(c)'] = "queued" =>
          Front(c)' \in signalled' /\ state'[c] \in {"LOCKED", "NONE"}
    BY <1>3, FrontHome, Zenon
  <2> QED BY <2>1, <2>2, <2>3, FrontStable, Zenon
<1>9. PhaseOK'
  <2> SUFFICES ASSUME NEW u \in Thread PROVE Phase(u)'
    BY Zenon DEF PhaseOK
  <2>1. CASE u = t
    BY <2>1, <1>3, Zenon DEF Phase, InAcquireRPC
  <2>2. CASE u # t /\ Home[u] = c
    <3>1. pc'[u] \in {"idle", "queued"} /\ u \notin signalled'
      BY <2>2, <1>3, Zenon
    <3> QED BY <3>1, Zenon DEF Phase, InAcquireRPC
  <2>3. CASE u # t /\ Home[u] # c
    <3>1. pc'[u] = pc[u] /\ (u \in signalled' <=> u \in signalled)
              /\ state'[Home[u]] = state[Home[u]]
      BY <2>3, <1>3, Zenon
    <3> QED BY <3>1, Zenon DEF Inv, PhaseOK, Phase
  <2> QED BY <2>1, <2>2, <2>3, Zenon
<1>10. GrantOK'
  BY <1>3, Zenon DEF Inv, GrantOK
<1>11. OwnerOK'
  <2>1. \A d \in Client : state[d] \in {"FREE", "LOCKED"} => state'[d] \in {"FREE", "LOCKED"}
    BY <1>3, Zenon
  <2>2. \A u \in Thread : /\ ret[u] = "OK" => ret'[u] = "OK"
                          /\ pc[u] = "release" => pc'[u] = "release"
                          /\ pc[u] = "rv_release" =>
                               pc'[u] = "rv_release" /\ dst'[u] = dst[u]
    BY <1>3, Zenon
  <2> QED BY <1>3, <2>1, <2>2, OwnerStable, Zenon
<1>12. RevokingOK'
  <2>1. \A u \in Thread : HandingBack(u)' =>
          HandingBack(u) /\ dst[u] # c /\ dst'[u] = dst[u]
    BY <1>3, Zenon DEF Inv, RevokingOK, HandingBack
  <2>2. \A d \in Client : d # c =>
          (Empty(d)' <=> Empty(d)) /\ Front(d)' = Front(d) /\ state'[d] = state[d]
    BY <1>3, Zenon
  <2>3. \A u \in Thread : pc[u] = "parked" /\ Home[u] # c => pc'[u] = "parked"
    BY <1>3, Zenon
  <2> QED BY <2>1, <2>2, <2>3, RevokingStable
<1>13. RevokeOK'
  BY <1>3, Zenon DEF Inv, RevokeOK, RevokeInFlight
<1>14. MessageOK'
  <2>1. \A d \in Client : message'[d] = "REVOKE" => message[d] = "REVOKE"
    BY <1>3, Zenon
  <2>2. \A d \in Client : message'[d] = "REVOKE" /\ owner = d /\ status = "REVOKING" =>
          \/ owner' = d /\ status' = "REVOKING"
          \/ \E u \in Thread : Home[u] = d /\ pc'[u] \in {"retry", "return"}
    BY <1>3, Zenon
  <2>3. \A d \in Client : message'[d] = "REVOKE" /\ state[d] = "LOCKED" =>
          state'[d] = "LOCKED" \/ \E u \in Thread : Home[u] = d /\ pc'[u] = "release"
    BY <1>3, Zenon
  <2>4. \A u \in Thread : message'[Home[u]] = "REVOKE" =>
          /\ ret[u] = "OK" => ret'[u] = "OK" \/ state'[Home[u]] = "LOCKED"
          /\ pc[u] = "release" => pc'[u] \in {"release", "retry", "return"}
          /\ pc[u] \in {"retry", "return"} => pc'[u] \in {"retry", "return"}
    BY <1>3, Zenon
  <2>5. \A u \in Thread :
          pc'[u] \in {"release", "retry", "return"} => message'[Home[u]] = "REVOKE"
    BY <1>3, Zenon DEF Inv, MessageOK
  <2>6. \A d \in Client : message'[d] = "RETRY" => retrying' = d
    BY <1>3, Zenon DEF Inv, MessageOK
  <2> QED BY <2>1, <2>2, <2>3, <2>4, <2>5, <2>6, MessageStable, Zenon
<1>15. WaitingOK'
  <2>1. \A d \in Client : d \in waiting' => message'[d] = message[d]
    BY <1>3, Zenon
  <2>2. \A u \in Thread :
          Home[u] \in waiting' /\ pc[u] \in ToldRetry /\ u \notin signalled =>
            pc'[u] \in ToldRetry /\ ret'[u] = ret[u] /\ u \notin signalled'
    BY <1>3, Zenon DEF ToldRetry
  <2> QED BY <1>3, <2>1, <2>2, WaitingKept, Zenon
<1>16. RetryOK'
  BY <1>3, Zenon DEF Inv, RetryOK, RetryInFlight, ToldRetry
<1>17. KnownOK'
  BY <1>3, Zenon DEF Inv, KnownOK, ToldRetry
<1>18. NotLostOK'
  BY <1>3, Zenon DEF Inv, NotLostOK, RevokeInFlight
<1> QED BY <1>1, <1>2, <1>4, <1>5, <1>6, <1>7, <1>8, <1>9, <1>10, <1>11, <1>12, <1>13,
           <1>14, <1>15, <1>16, <1>17, <1>18, Zenon DEF Inv

(* A queued thread wakes after the lock went back, and calls wait. *)
LEMMA WakeQueuedNoneStep ==
  ASSUME Inv, NEW t \in Thread, NEW c \in Client, c = Home[t],
         WakeQueued(t), state[c] = "NONE"
  PROVE  Inv'
<1>1. /\ pc[t] = "queued" /\ t \in signalled
      /\ ret[t] = "RETRY"
  BY Zenon DEF Inv, WakeQueued, CltWakeQueued, WakeUp, Goto, GrantOK, TypeOK, Reply
<1>2. /\ pc' = [pc EXCEPT ![t] = "acquire"]
      /\ signalled' = signalled \ {t}
      /\ state' = [state EXCEPT ![c] = "ACQUIRING"]
      /\ UNCHANGED <<status, owner, retrying, waiting, message, threads, exited, ret,
                     dst, nxt>>
  BY <1>1, Zenon
  DEF Inv, TypeOK, ClientTypeOK, WakeQueued, CltWakeQueued, WakeUp, Goto, serverVars
<1>3. /\ pc[t] = "queued" /\ t \in signalled
      /\ ret[t] = "RETRY"
      /\ \A u \in Thread : pc'[u] = IF u = t THEN "acquire" ELSE pc[u]
      /\ signalled' = signalled \ {t}
      /\ \A d \in Client : state'[d] = IF d = c THEN "ACQUIRING" ELSE state[d]
      /\ UNCHANGED <<status, owner, retrying, waiting, message, threads, exited, ret,
                     dst, nxt>>
      /\ \A u \in Thread : Home[u] \in Client
      /\ \A d \in Client : (Empty(d)' <=> Empty(d)) /\ Front(d)' = Front(d)
      /\ ~Empty(c) /\ t = Front(c)
      /\ \A u \in Thread : u # t /\ Home[u] = c =>
           pc[u] \in {"idle", "queued"} /\ u \notin signalled
  BY <1>1, <1>2, HomeAssumption, SameQueues, OneActive, Zenon
  DEF Inv, TypeOK, ClientTypeOK, Active
<1>4. ServerOK'
  BY <1>3, Zenon DEF Inv, ServerOK
<1>5. TypeOK'
  BY <1>1, <1>2, Zenon
  DEF Inv, TypeOK, ServerTypeOK, ClientTypeOK, Label, Reply, State, Message, Status
<1>6. QueueOK'
  BY <1>3, QueueStable, Zenon DEF Inv
<1>7. ActiveIsFront'
  BY <1>3, SMTT(30) DEF Inv, ActiveIsFront, Active
<1>8. EmptyOK'
  BY <1>3, Zenon DEF Inv, EmptyOK
<1>9. FrontOK'
  <2>1. \A d \in Client : d # c =>
          (Empty(d)' <=> Empty(d)) /\ Front(d)' = Front(d) /\ state'[d] = state[d]
    BY <1>3, FrontHome, Zenon
  <2>2. \A u \in Thread : Home[u] # c =>
          (pc'[u] = "queued" => pc[u] = "queued") /\ (u \in signalled => u \in signalled')
    BY <1>3, FrontHome, Zenon
  <2>3. ~Empty(c)' /\ pc'[Front(c)'] = "queued" =>
          Front(c)' \in signalled' /\ state'[c] \in {"LOCKED", "NONE"}
    BY <1>3, FrontHome, Zenon
  <2> QED BY <2>1, <2>2, <2>3, FrontStable, Zenon
<1>10. PhaseOK'
  <2> SUFFICES ASSUME NEW u \in Thread PROVE Phase(u)'
    BY Zenon DEF PhaseOK
  <2>1. CASE u = t
    BY <2>1, <1>3, Zenon DEF Phase, InAcquireRPC
  <2>2. CASE u # t /\ Home[u] = c
    <3>1. pc'[u] \in {"idle", "queued"} /\ u \notin signalled'
      BY <2>2, <1>3, Zenon
    <3> QED BY <3>1, Zenon DEF Phase, InAcquireRPC
  <2>3. CASE u # t /\ Home[u] # c
    <3>1. pc'[u] = pc[u] /\ (u \in signalled' <=> u \in signalled)
              /\ state'[Home[u]] = state[Home[u]]
      BY <2>3, <1>3, Zenon
    <3> QED BY <3>1, Zenon DEF Inv, PhaseOK, Phase
  <2> QED BY <2>1, <2>2, <2>3, Zenon
<1>11. GrantOK'
  <2>1. \A d \in Client : state'[d] \in {"FREE", "LOCKED"} => state[d] \in {"FREE", "LOCKED"}
    BY <1>3, Zenon
  <2>2. \A u \in Thread : ret'[u] = "OK" => ret[u] = "OK" /\ pc'[u] \in {"revoke", "reply"}
    BY <1>3, Zenon DEF Inv, GrantOK
  <2>3. \A u \in Thread : pc'[u] = "release" => pc[u] = "release"
    BY <1>3, Zenon
  <2> QED BY <1>3, <2>1, <2>2, <2>3, GrantStable, Zenon
<1>12. OwnerOK'
  <2>1. \A d \in Client : state[d] \in {"FREE", "LOCKED"} => state'[d] \in {"FREE", "LOCKED"}
    BY <1>3, Zenon
  <2>2. \A u \in Thread : /\ ret[u] = "OK" => ret'[u] = "OK"
                          /\ pc[u] = "release" => pc'[u] = "release"
                          /\ pc[u] = "rv_release" =>
                               pc'[u] = "rv_release" /\ dst'[u] = dst[u]
    BY <1>3, Zenon
  <2> QED BY <1>3, <2>1, <2>2, OwnerStable, Zenon
<1>13. RevokingOK'
  <2>1. \A u \in Thread : HandingBack(u)' =>
          HandingBack(u) /\ dst[u] # c /\ dst'[u] = dst[u]
    BY <1>3, Zenon DEF Inv, RevokingOK, HandingBack
  <2>2. \A d \in Client : d # c =>
          (Empty(d)' <=> Empty(d)) /\ Front(d)' = Front(d) /\ state'[d] = state[d]
    BY <1>3, Zenon
  <2>3. \A u \in Thread : pc[u] = "parked" /\ Home[u] # c => pc'[u] = "parked"
    BY <1>3, Zenon
  <2> QED BY <2>1, <2>2, <2>3, RevokingStable, SMTT(30)
<1>14. RevokeOK'
  BY <1>3, Zenon DEF Inv, RevokeOK, RevokeInFlight
<1>15. MessageOK'
  <2>1. \A d \in Client : message'[d] = "REVOKE" => message[d] = "REVOKE"
    BY <1>3, Zenon
  <2>2. \A d \in Client : message'[d] = "REVOKE" /\ owner = d /\ status = "REVOKING" =>
          \/ owner' = d /\ status' = "REVOKING"
          \/ \E u \in Thread : Home[u] = d /\ pc'[u] \in {"retry", "return"}
    BY <1>3, Zenon
  <2>3. \A d \in Client : message'[d] = "REVOKE" /\ state[d] = "LOCKED" =>
          state'[d] = "LOCKED" \/ \E u \in Thread : Home[u] = d /\ pc'[u] = "release"
    BY <1>3, Zenon
  <2>4. \A u \in Thread : message'[Home[u]] = "REVOKE" =>
          /\ ret[u] = "OK" => ret'[u] = "OK" \/ state'[Home[u]] = "LOCKED"
          /\ pc[u] = "release" => pc'[u] \in {"release", "retry", "return"}
          /\ pc[u] \in {"retry", "return"} => pc'[u] \in {"retry", "return"}
    BY <1>3, Zenon
  <2>5. \A u \in Thread :
          pc'[u] \in {"release", "retry", "return"} => message'[Home[u]] = "REVOKE"
    BY <1>3, Zenon DEF Inv, MessageOK
  <2>6. \A d \in Client : message'[d] = "RETRY" => retrying' = d
    BY <1>3, Zenon DEF Inv, MessageOK
  <2> QED BY <2>1, <2>2, <2>3, <2>4, <2>5, <2>6, MessageStable, Zenon
<1>16. WaitingOK'
  <2>1. \A d \in Client : d \in waiting' => message'[d] = message[d]
    BY <1>3, Zenon
  <2>2. \A u \in Thread :
          Home[u] \in waiting' /\ pc[u] \in ToldRetry /\ u \notin signalled =>
            pc'[u] \in ToldRetry /\ ret'[u] = ret[u] /\ u \notin signalled'
    BY <1>3, Zenon DEF ToldRetry
  <2> QED BY <1>3, <2>1, <2>2, WaitingKept, Zenon
<1>17. RetryOK'
  BY <1>3, SMTT(30) DEF Inv, RetryOK, RetryInFlight, ToldRetry
<1>18. KnownOK'
  BY <1>3, Zenon DEF Inv, KnownOK, ToldRetry
<1>19. NotLostOK'
  BY <1>3, Zenon DEF Inv, NotLostOK, RevokeInFlight
<1> QED BY <1>1, <1>2, <1>4, <1>5, <1>6, <1>7, <1>8, <1>9, <1>10, <1>11, <1>12, <1>13,
           <1>14, <1>15, <1>16, <1>17, <1>18, <1>19, Zenon DEF Inv

(* wait gets OK. *)
LEMMA RecvOKStep ==
  ASSUME Inv, NEW t \in Thread, NEW c \in Client, c = Home[t],
         RecvReply(t), ret[t] = "OK"
  PROVE  Inv'
<1>1. /\ pc[t] = "reply" /\ t \notin signalled
      /\ state[c] = "ACQUIRING"
      /\ owner = c
  BY Zenon DEF Inv, RecvReply, Goto, PhaseOK, Phase, GrantOK, InAcquireRPC
<1>2. /\ pc' = [pc EXCEPT ![t] = "held"]
      /\ state' = [state EXCEPT ![c] = "LOCKED"]
      /\ ret' = [ret EXCEPT ![t] = "RETRY"]
      /\ UNCHANGED <<status, owner, retrying, waiting, message, threads, signalled,
                     exited, dst, nxt>>
  BY <1>1, Zenon DEF RecvReply, CltReplyOK, Goto, serverVars
<1>3. /\ pc[t] = "reply" /\ t \notin signalled
      /\ state[c] = "ACQUIRING"
      /\ owner = c
      /\ \A u \in Thread : pc'[u] = IF u = t THEN "held" ELSE pc[u]
      /\ \A d \in Client : state'[d] = IF d = c THEN "LOCKED" ELSE state[d]
      /\ \A u \in Thread : ret'[u] = IF u = t THEN "RETRY" ELSE ret[u]
      /\ UNCHANGED <<status, owner, retrying, waiting, message, threads, signalled,
                     exited, dst, nxt>>
      /\ \A u \in Thread : Home[u] \in Client
      /\ \A d \in Client : (Empty(d)' <=> Empty(d)) /\ Front(d)' = Front(d)
      /\ ~Empty(c) /\ t = Front(c)
      /\ \A u \in Thread : u # t /\ Home[u] = c =>
           pc[u] \in {"idle", "queued"} /\ u \notin signalled
  BY <1>1, <1>2, HomeAssumption, SameQueues, OneActive, Zenon
  DEF Inv, TypeOK, ClientTypeOK, Active
<1>4. ServerOK'
  BY <1>3, Zenon DEF Inv, ServerOK
<1>5. TypeOK'
  BY <1>1, <1>2, Zenon
  DEF Inv, TypeOK, ServerTypeOK, ClientTypeOK, Label, Reply, State, Message, Status
<1>6. QueueOK'
  BY <1>3, QueueStable, Zenon DEF Inv
<1>7. ActiveIsFront'
  BY <1>3, SMTT(30) DEF Inv, ActiveIsFront, Active
<1>8. EmptyOK'
  BY <1>3, Zenon DEF Inv, EmptyOK
<1>9. FrontOK'
  <2>1. \A d \in Client : d # c =>
          (Empty(d)' <=> Empty(d)) /\ Front(d)' = Front(d) /\ state'[d] = state[d]
    BY <1>3, FrontHome, Zenon
  <2>2. \A u \in Thread : Home[u] # c =>
          (pc'[u] = "queued" => pc[u] = "queued") /\ (u \in signalled => u \in signalled')
    BY <1>3, FrontHome, Zenon
  <2>3. ~Empty(c)' /\ pc'[Front(c)'] = "queued" =>
          Front(c)' \in signalled' /\ state'[c] \in {"LOCKED", "NONE"}
    BY <1>3, FrontHome, Zenon
  <2> QED BY <2>1, <2>2, <2>3, FrontStable, Zenon
<1>10. PhaseOK'
  <2> SUFFICES ASSUME NEW u \in Thread PROVE Phase(u)'
    BY Zenon DEF PhaseOK
  <2>1. CASE u = t
    BY <2>1, <1>3, Zenon DEF Phase, InAcquireRPC
  <2>2. CASE u # t /\ Home[u] = c
    <3>1. pc'[u] \in {"idle", "queued"} /\ u \notin signalled'
      BY <2>2, <1>3, Zenon
    <3> QED BY <3>1, Zenon DEF Phase, InAcquireRPC
  <2>3. CASE u # t /\ Home[u] # c
    <3>1. pc'[u] = pc[u] /\ (u \in signalled' <=> u \in signalled)
              /\ state'[Home[u]] = state[Home[u]]
      BY <2>3, <1>3, Zenon
    <3> QED BY <3>1, Zenon DEF Inv, PhaseOK, Phase
  <2> QED BY <2>1, <2>2, <2>3, Zenon
<1>11. GrantOK'
  <2>1. \A d \in Client : state'[d] \in {"FREE", "LOCKED"} => owner' = d
    BY <1>3, Zenon DEF Inv, GrantOK
  <2>2. \A u \in Thread : ret'[u] = "OK" => pc'[u] \in {"revoke", "reply"} /\ owner' = Home[u]
    BY <1>3, Zenon DEF Inv, GrantOK
  <2>3. \A u \in Thread : pc'[u] = "release" => owner' = Home[u] /\ status' = "REVOKING"
    BY <1>3, Zenon DEF Inv, GrantOK
  <2> QED BY <2>1, <2>2, <2>3, Zenon DEF GrantOK
<1>12. OwnerOK'
  BY <1>3, Zenon DEF Inv, OwnerOK
<1>13. RevokingOK'
  <2>1. \A u \in Thread : HandingBack(u)' =>
          HandingBack(u) /\ dst[u] # c /\ dst'[u] = dst[u]
    BY <1>3, Zenon DEF Inv, RevokingOK, HandingBack
  <2>2. \A d \in Client : d # c =>
          (Empty(d)' <=> Empty(d)) /\ Front(d)' = Front(d) /\ state'[d] = state[d]
    BY <1>3, Zenon
  <2>3. \A u \in Thread : pc[u] = "parked" /\ Home[u] # c => pc'[u] = "parked"
    BY <1>3, Zenon
  <2> QED BY <2>1, <2>2, <2>3, RevokingStable, Zenon
<1>14. RevokeOK'
  BY <1>3, Zenon DEF Inv, RevokeOK, RevokeInFlight
<1>15. MessageOK'
  <2>1. \A d \in Client : message'[d] = "REVOKE" => message[d] = "REVOKE"
    BY <1>3, Zenon
  <2>2. \A d \in Client : message'[d] = "REVOKE" /\ owner = d /\ status = "REVOKING" =>
          \/ owner' = d /\ status' = "REVOKING"
          \/ \E u \in Thread : Home[u] = d /\ pc'[u] \in {"retry", "return"}
    BY <1>3, Zenon
  <2>3. \A d \in Client : message'[d] = "REVOKE" /\ state[d] = "LOCKED" =>
          state'[d] = "LOCKED" \/ \E u \in Thread : Home[u] = d /\ pc'[u] = "release"
    BY <1>3, Zenon
  <2>4. \A u \in Thread : message'[Home[u]] = "REVOKE" =>
          /\ ret[u] = "OK" => ret'[u] = "OK" \/ state'[Home[u]] = "LOCKED"
          /\ pc[u] = "release" => pc'[u] \in {"release", "retry", "return"}
          /\ pc[u] \in {"retry", "return"} => pc'[u] \in {"retry", "return"}
    BY <1>3, Zenon
  <2>5. \A u \in Thread :
          pc'[u] \in {"release", "retry", "return"} => message'[Home[u]] = "REVOKE"
    BY <1>3, Zenon DEF Inv, MessageOK
  <2>6. \A d \in Client : message'[d] = "RETRY" => retrying' = d
    BY <1>3, Zenon DEF Inv, MessageOK
  <2> QED BY <2>1, <2>2, <2>3, <2>4, <2>5, <2>6, MessageStable, Zenon
<1>16. WaitingOK'
  <2>0. c \notin waiting
    BY <1>3, Zenon DEF Inv, ServerOK
  <2>1. \A d \in Client : d \in waiting' => message'[d] = message[d]
    BY <1>3, <2>0, Zenon
  <2>2. \A u \in Thread :
          Home[u] \in waiting' /\ pc[u] \in ToldRetry /\ u \notin signalled =>
            pc'[u] \in ToldRetry /\ ret'[u] = ret[u] /\ u \notin signalled'
    BY <1>3, <2>0, Zenon DEF ToldRetry
  <2> QED BY <1>3, <2>1, <2>2, WaitingKept, Zenon
<1>17. RetryOK'
  BY <1>3, SMTT(30) DEF Inv, RetryOK, RetryInFlight, ToldRetry
<1>18. KnownOK'
  BY <1>3, Zenon DEF Inv, KnownOK, ToldRetry
<1>19. NotLostOK'
  BY <1>3, Zenon DEF Inv, NotLostOK, RevokeInFlight
<1> QED BY <1>1, <1>2, <1>4, <1>5, <1>6, <1>7, <1>8, <1>9, <1>10, <1>11, <1>12, <1>13,
           <1>14, <1>15, <1>16, <1>17, <1>18, <1>19, Zenon DEF Inv

(* wait gets RETRY and no message yet: it sleeps. *)
LEMMA RecvRetrySleepStep ==
  ASSUME Inv, NEW t \in Thread, NEW c \in Client, c = Home[t],
         RecvReply(t), ret[t] # "OK", message[c] = "EMPTY"
  PROVE  Inv'
<1>1. /\ pc[t] = "reply" /\ t \notin signalled
      /\ state[c] = "ACQUIRING"
      /\ ret[t] = "RETRY"
  BY Zenon DEF Inv, RecvReply, Goto, PhaseOK, Phase, TypeOK, Reply, InAcquireRPC
<1>2. /\ pc' = [pc EXCEPT ![t] = "waiting"]
      /\ UNCHANGED <<status, owner, retrying, waiting, state, message, threads,
                     signalled, exited, ret, dst, nxt>>
  BY <1>1, Zenon
  DEF Inv, TypeOK, RecvReply, CltReplyRetrySleep, CltReplyRetryAgain, Goto, clientVars,
      serverVars
<1>3. /\ pc[t] = "reply" /\ t \notin signalled
      /\ state[c] = "ACQUIRING"
      /\ ret[t] = "RETRY"
      /\ \A u \in Thread : pc'[u] = IF u = t THEN "waiting" ELSE pc[u]
      /\ UNCHANGED <<status, owner, retrying, waiting, state, message, threads,
                     signalled, exited, ret, dst, nxt>>
      /\ \A u \in Thread : Home[u] \in Client
      /\ \A d \in Client : (Empty(d)' <=> Empty(d)) /\ Front(d)' = Front(d)
      /\ ~Empty(c) /\ t = Front(c)
      /\ \A u \in Thread : u # t /\ Home[u] = c =>
           pc[u] \in {"idle", "queued"} /\ u \notin signalled
  BY <1>1, <1>2, HomeAssumption, SameQueues, OneActive, Zenon
  DEF Inv, TypeOK, ClientTypeOK, Active
<1>4. EmptyOK' /\ ServerOK'
  BY <1>3, Zenon DEF Inv, EmptyOK, ServerOK
<1>5. TypeOK'
  BY <1>1, <1>2, Zenon
  DEF Inv, TypeOK, ServerTypeOK, ClientTypeOK, Label, Reply, State, Message, Status
<1>6. QueueOK'
  BY <1>3, QueueStable, Zenon DEF Inv
<1>7. ActiveIsFront'
  BY <1>3, Zenon DEF Inv, ActiveIsFront, Active
<1>8. FrontOK'
  <2>1. \A d \in Client : d # c =>
          (Empty(d)' <=> Empty(d)) /\ Front(d)' = Front(d) /\ state'[d] = state[d]
    BY <1>3, FrontHome, Zenon
  <2>2. \A u \in Thread : Home[u] # c =>
          (pc'[u] = "queued" => pc[u] = "queued") /\ (u \in signalled => u \in signalled')
    BY <1>3, FrontHome, Zenon
  <2>3. ~Empty(c)' /\ pc'[Front(c)'] = "queued" =>
          Front(c)' \in signalled' /\ state'[c] \in {"LOCKED", "NONE"}
    BY <1>3, FrontHome, Zenon
  <2> QED BY <2>1, <2>2, <2>3, FrontStable, Zenon
<1>9. PhaseOK'
  <2> SUFFICES ASSUME NEW u \in Thread PROVE Phase(u)'
    BY Zenon DEF PhaseOK
  <2>1. CASE u = t
    BY <2>1, <1>3, Zenon DEF Phase, InAcquireRPC
  <2>2. CASE u # t /\ Home[u] = c
    <3>1. pc'[u] \in {"idle", "queued"} /\ u \notin signalled'
      BY <2>2, <1>3, Zenon
    <3> QED BY <3>1, Zenon DEF Phase, InAcquireRPC
  <2>3. CASE u # t /\ Home[u] # c
    <3>1. pc'[u] = pc[u] /\ (u \in signalled' <=> u \in signalled)
              /\ state'[Home[u]] = state[Home[u]]
      BY <2>3, <1>3, Zenon
    <3> QED BY <3>1, Zenon DEF Inv, PhaseOK, Phase
  <2> QED BY <2>1, <2>2, <2>3, Zenon
<1>10. GrantOK'
  BY <1>3, Zenon DEF Inv, GrantOK
<1>11. OwnerOK'
  <2>1. \A d \in Client : state[d] \in {"FREE", "LOCKED"} => state'[d] \in {"FREE", "LOCKED"}
    BY <1>3, Zenon
  <2>2. \A u \in Thread : /\ ret[u] = "OK" => ret'[u] = "OK"
                          /\ pc[u] = "release" => pc'[u] = "release"
                          /\ pc[u] = "rv_release" =>
                               pc'[u] = "rv_release" /\ dst'[u] = dst[u]
    BY <1>3, Zenon
  <2> QED BY <1>3, <2>1, <2>2, OwnerStable, Zenon
<1>12. RevokingOK'
  <2>1. \A u \in Thread : HandingBack(u)' =>
          HandingBack(u) /\ dst[u] # c /\ dst'[u] = dst[u]
    BY <1>3, Zenon DEF Inv, RevokingOK, HandingBack
  <2>2. \A d \in Client : d # c =>
          (Empty(d)' <=> Empty(d)) /\ Front(d)' = Front(d) /\ state'[d] = state[d]
    BY <1>3, Zenon
  <2>3. \A u \in Thread : pc[u] = "parked" /\ Home[u] # c => pc'[u] = "parked"
    BY <1>3, Zenon
  <2> QED BY <2>1, <2>2, <2>3, RevokingStable, SMTT(30)
<1>13. RevokeOK'
  BY <1>3, Zenon DEF Inv, RevokeOK, RevokeInFlight
<1>14. MessageOK'
  <2>1. \A d \in Client : message'[d] = "REVOKE" => message[d] = "REVOKE"
    BY <1>3, Zenon
  <2>2. \A d \in Client : message'[d] = "REVOKE" /\ owner = d /\ status = "REVOKING" =>
          \/ owner' = d /\ status' = "REVOKING"
          \/ \E u \in Thread : Home[u] = d /\ pc'[u] \in {"retry", "return"}
    BY <1>3, Zenon
  <2>3. \A d \in Client : message'[d] = "REVOKE" /\ state[d] = "LOCKED" =>
          state'[d] = "LOCKED" \/ \E u \in Thread : Home[u] = d /\ pc'[u] = "release"
    BY <1>3, Zenon
  <2>4. \A u \in Thread : message'[Home[u]] = "REVOKE" =>
          /\ ret[u] = "OK" => ret'[u] = "OK" \/ state'[Home[u]] = "LOCKED"
          /\ pc[u] = "release" => pc'[u] \in {"release", "retry", "return"}
          /\ pc[u] \in {"retry", "return"} => pc'[u] \in {"retry", "return"}
    BY <1>3, Zenon
  <2>5. \A u \in Thread :
          pc'[u] \in {"release", "retry", "return"} => message'[Home[u]] = "REVOKE"
    BY <1>3, Zenon DEF Inv, MessageOK
  <2>6. \A d \in Client : message'[d] = "RETRY" => retrying' = d
    BY <1>3, Zenon DEF Inv, MessageOK
  <2> QED BY <2>1, <2>2, <2>3, <2>4, <2>5, <2>6, MessageStable, Zenon
<1>15. WaitingOK'
  <2>1. \A d \in Client : d \in waiting' => message'[d] = message[d]
    BY <1>3, Zenon
  <2>2. \A u \in Thread :
          Home[u] \in waiting' /\ pc[u] \in ToldRetry /\ u \notin signalled =>
            pc'[u] \in ToldRetry /\ ret'[u] = ret[u] /\ u \notin signalled'
    BY <1>3, Zenon DEF ToldRetry
  <2> QED BY <1>3, <2>1, <2>2, WaitingKept, Zenon
<1>16. RetryOK'
  BY <1>3, Zenon DEF Inv, RetryOK, RetryInFlight, ToldRetry
<1>17. KnownOK'
  BY <1>3, Zenon DEF Inv, KnownOK, ToldRetry
<1>18. NotLostOK'
  BY <1>3, Zenon DEF Inv, NotLostOK, RevokeInFlight
<1> QED BY <1>1, <1>2, <1>4, <1>5, <1>6, <1>7, <1>8, <1>9, <1>10, <1>11, <1>12, <1>13,
           <1>14, <1>15, <1>16, <1>17, <1>18, Zenon DEF Inv

(* wait gets RETRY after the retry call overtook the reply: it asks again. *)
LEMMA RecvRetryAgainStep ==
  ASSUME Inv, NEW t \in Thread, NEW c \in Client, c = Home[t],
         RecvReply(t), ret[t] # "OK", message[c] # "EMPTY"
  PROVE  Inv'
<1>1. /\ pc[t] = "reply" /\ t \notin signalled
      /\ state[c] = "ACQUIRING"
      /\ ret[t] = "RETRY"
  BY Zenon DEF Inv, RecvReply, Goto, PhaseOK, Phase, TypeOK, Reply, InAcquireRPC
<1>2. /\ pc' = [pc EXCEPT ![t] = "acquire"]
      /\ message' = [message EXCEPT ![c] = "EMPTY"]
      /\ UNCHANGED <<status, owner, retrying, waiting, state, threads, signalled,
                     exited, ret, dst, nxt>>
  BY <1>1, Zenon
  DEF Inv, TypeOK, RecvReply, CltReplyRetrySleep, CltReplyRetryAgain, CltLoop, Goto,
      serverVars
<1>3. /\ pc[t] = "reply" /\ t \notin signalled
      /\ state[c] = "ACQUIRING"
      /\ ret[t] = "RETRY"
      /\ \A u \in Thread : pc'[u] = IF u = t THEN "acquire" ELSE pc[u]
      /\ \A d \in Client : message'[d] = IF d = c THEN "EMPTY" ELSE message[d]
      /\ UNCHANGED <<status, owner, retrying, waiting, state, threads, signalled,
                     exited, ret, dst, nxt>>
      /\ \A u \in Thread : Home[u] \in Client
      /\ \A d \in Client : (Empty(d)' <=> Empty(d)) /\ Front(d)' = Front(d)
      /\ ~Empty(c) /\ t = Front(c)
      /\ \A u \in Thread : u # t /\ Home[u] = c =>
           pc[u] \in {"idle", "queued"} /\ u \notin signalled
  BY <1>1, <1>2, HomeAssumption, SameQueues, OneActive, Zenon
  DEF Inv, TypeOK, ClientTypeOK, Active
<1>4. c \notin waiting
  BY <1>3, Zenon DEF Inv, WaitingOK, ToldRetry
<1>5. c = retrying /\ status = "RETRYING"
  BY <1>3, <1>4, ClientAssumption, Zenon
  DEF Inv, KnownOK, ToldRetry, ServerOK, TypeOK, ServerTypeOK, Status
<1>6. message[c] = "RETRY" /\ \A u \in Thread : ~RetryInFlight(u)
  BY <1>3, <1>5, Zenon DEF Inv, RetryOK, ToldRetry
<1>7. ServerOK'
  BY <1>3, Zenon DEF Inv, ServerOK
<1>8. TypeOK'
  BY <1>1, <1>2, Zenon
  DEF Inv, TypeOK, ServerTypeOK, ClientTypeOK, Label, Reply, State, Message, Status
<1>9. QueueOK'
  BY <1>3, QueueStable, Zenon DEF Inv
<1>10. ActiveIsFront'
  BY <1>3, <1>6, Zenon DEF Inv, ActiveIsFront, Active
<1>11. EmptyOK'
  BY <1>3, <1>5, <1>6, Zenon DEF Inv, EmptyOK
<1>12. FrontOK'
  <2>1. \A d \in Client : d # c =>
          (Empty(d)' <=> Empty(d)) /\ Front(d)' = Front(d) /\ state'[d] = state[d]
    BY <1>3, FrontHome, Zenon
  <2>2. \A u \in Thread : Home[u] # c =>
          (pc'[u] = "queued" => pc[u] = "queued") /\ (u \in signalled => u \in signalled')
    BY <1>3, FrontHome, Zenon
  <2>3. ~Empty(c)' /\ pc'[Front(c)'] = "queued" =>
          Front(c)' \in signalled' /\ state'[c] \in {"LOCKED", "NONE"}
    BY <1>3, FrontHome, Zenon
  <2> QED BY <2>1, <2>2, <2>3, FrontStable, Zenon
<1>13. PhaseOK'
  <2> SUFFICES ASSUME NEW u \in Thread PROVE Phase(u)'
    BY Zenon DEF PhaseOK
  <2>1. CASE u = t
    BY <2>1, <1>3, Zenon DEF Phase, InAcquireRPC
  <2>2. CASE u # t /\ Home[u] = c
    <3>1. pc'[u] \in {"idle", "queued"} /\ u \notin signalled'
      BY <2>2, <1>3, Zenon
    <3> QED BY <3>1, Zenon DEF Phase, InAcquireRPC
  <2>3. CASE u # t /\ Home[u] # c
    <3>1. pc'[u] = pc[u] /\ (u \in signalled' <=> u \in signalled)
              /\ state'[Home[u]] = state[Home[u]]
      BY <2>3, <1>3, Zenon
    <3> QED BY <3>1, Zenon DEF Inv, PhaseOK, Phase
  <2> QED BY <2>1, <2>2, <2>3, Zenon
<1>14. GrantOK'
  BY <1>3, Zenon DEF Inv, GrantOK
<1>15. OwnerOK'
  <2>1. \A d \in Client : state[d] \in {"FREE", "LOCKED"} => state'[d] \in {"FREE", "LOCKED"}
    BY <1>3, Zenon
  <2>2. \A u \in Thread : /\ ret[u] = "OK" => ret'[u] = "OK"
                          /\ pc[u] = "release" => pc'[u] = "release"
                          /\ pc[u] = "rv_release" =>
                               pc'[u] = "rv_release" /\ dst'[u] = dst[u]
    BY <1>3, Zenon
  <2> QED BY <1>3, <2>1, <2>2, OwnerStable, Zenon
<1>16. RevokingOK'
  <2>1. \A u \in Thread : HandingBack(u)' =>
          HandingBack(u) /\ dst[u] # c /\ dst'[u] = dst[u]
    BY <1>3, Zenon DEF Inv, RevokingOK, HandingBack
  <2>2. \A d \in Client : d # c =>
          (Empty(d)' <=> Empty(d)) /\ Front(d)' = Front(d) /\ state'[d] = state[d]
    BY <1>3, Zenon
  <2>3. \A u \in Thread : pc[u] = "parked" /\ Home[u] # c => pc'[u] = "parked"
    BY <1>3, Zenon
  <2> QED BY <2>1, <2>2, <2>3, RevokingStable, Zenon
<1>17. RevokeOK'
  BY <1>3, <1>5, Zenon DEF Inv, RevokeOK, RevokeInFlight
<1>18. MessageOK'
  <2>1. \A d \in Client : message'[d] = "REVOKE" => message[d] = "REVOKE"
    BY <1>3, Zenon
  <2>2. \A d \in Client : message'[d] = "REVOKE" /\ owner = d /\ status = "REVOKING" =>
          \/ owner' = d /\ status' = "REVOKING"
          \/ \E u \in Thread : Home[u] = d /\ pc'[u] \in {"retry", "return"}
    BY <1>3, Zenon
  <2>3. \A d \in Client : message'[d] = "REVOKE" /\ state[d] = "LOCKED" =>
          state'[d] = "LOCKED" \/ \E u \in Thread : Home[u] = d /\ pc'[u] = "release"
    BY <1>3, Zenon
  <2>4. \A u \in Thread : message'[Home[u]] = "REVOKE" =>
          /\ ret[u] = "OK" => ret'[u] = "OK" \/ state'[Home[u]] = "LOCKED"
          /\ pc[u] = "release" => pc'[u] \in {"release", "retry", "return"}
          /\ pc[u] \in {"retry", "return"} => pc'[u] \in {"retry", "return"}
    BY <1>3, Zenon
  <2>5. \A u \in Thread :
          pc'[u] \in {"release", "retry", "return"} => message'[Home[u]] = "REVOKE"
    BY <1>3, <1>5, <1>6, MessageFacts, Zenon
  <2>6. \A d \in Client : message'[d] = "RETRY" => retrying' = d
    BY <1>3, MessageFacts, Zenon
  <2> QED BY <2>1, <2>2, <2>3, <2>4, <2>5, <2>6, MessageStable, Zenon
<1>19. WaitingOK'
  <2>1. \A d \in Client : d \in waiting' => message'[d] = message[d]
    BY <1>3, <1>4, Zenon
  <2>2. \A u \in Thread :
          Home[u] \in waiting' /\ pc[u] \in ToldRetry /\ u \notin signalled =>
            pc'[u] \in ToldRetry /\ ret'[u] = ret[u] /\ u \notin signalled'
    BY <1>3, <1>4, Zenon DEF ToldRetry
  <2> QED BY <1>3, <2>1, <2>2, WaitingKept, Zenon
<1>20. RetryOK'
  BY <1>3, <1>4, <1>5, <1>6, Zenon DEF Inv, RetryOK, RetryInFlight, ToldRetry
<1>21. KnownOK'
  BY <1>3, Zenon DEF Inv, KnownOK, ToldRetry
<1>22. NotLostOK'
  BY <1>3, <1>5, Zenon DEF Inv, NotLostOK, RevokeInFlight
<1> QED BY <1>1, <1>2, <1>7, <1>8, <1>9, <1>10, <1>11, <1>12, <1>13, <1>14, <1>15,
           <1>16, <1>17, <1>18, <1>19, <1>20, <1>21, <1>22, Zenon DEF Inv

(* The thread asleep in wait is woken by a retry and asks again. *)
LEMMA WakeWaitStep ==
  ASSUME Inv, NEW t \in Thread, NEW c \in Client, c = Home[t],
         WakeWait(t)
  PROVE  Inv'
<1>1. /\ pc[t] = "waiting" /\ t \in signalled
      /\ state[c] = "ACQUIRING"
      /\ ret[t] = "RETRY"
  BY Zenon
  DEF Inv, WakeWait, CltWakeWait, WakeUp, Goto, PhaseOK, Phase, GrantOK, TypeOK, Reply
<1>2. /\ pc' = [pc EXCEPT ![t] = "acquire"]
      /\ signalled' = signalled \ {t}
      /\ message' = [message EXCEPT ![c] = "EMPTY"]
      /\ UNCHANGED <<status, owner, retrying, waiting, state, threads, exited, ret,
                     dst, nxt>>
  BY <1>1, Zenon DEF WakeWait, CltWakeWait, WakeUp, CltLoop, Goto, serverVars
<1>3. /\ pc[t] = "waiting" /\ t \in signalled
      /\ state[c] = "ACQUIRING"
      /\ ret[t] = "RETRY"
      /\ \A u \in Thread : pc'[u] = IF u = t THEN "acquire" ELSE pc[u]
      /\ signalled' = signalled \ {t}
      /\ \A d \in Client : message'[d] = IF d = c THEN "EMPTY" ELSE message[d]
      /\ UNCHANGED <<status, owner, retrying, waiting, state, threads, exited, ret,
                     dst, nxt>>
      /\ \A u \in Thread : Home[u] \in Client
      /\ \A d \in Client : (Empty(d)' <=> Empty(d)) /\ Front(d)' = Front(d)
      /\ ~Empty(c) /\ t = Front(c)
      /\ \A u \in Thread : u # t /\ Home[u] = c =>
           pc[u] \in {"idle", "queued"} /\ u \notin signalled
  BY <1>1, <1>2, HomeAssumption, SameQueues, OneActive, Zenon
  DEF Inv, TypeOK, ClientTypeOK, Active
<1>4. c \notin waiting
  BY <1>3, SMTT(30) DEF Inv, WaitingOK, ToldRetry
<1>5. c = retrying /\ status = "RETRYING"
  BY <1>3, <1>4, ClientAssumption, Zenon
  DEF Inv, KnownOK, ToldRetry, ServerOK, TypeOK, ServerTypeOK, Status
<1>6. message[c] = "RETRY" /\ \A u \in Thread : ~RetryInFlight(u)
  BY <1>3, <1>5, Zenon DEF Inv, RetryOK, ToldRetry
<1>7. ServerOK'
  BY <1>3, Zenon DEF Inv, ServerOK
<1>8. TypeOK'
  BY <1>1, <1>2, Zenon
  DEF Inv, TypeOK, ServerTypeOK, ClientTypeOK, Label, Reply, State, Message, Status
<1>9. QueueOK'
  BY <1>3, QueueStable, Zenon DEF Inv
<1>10. ActiveIsFront'
  BY <1>3, <1>6, Zenon DEF Inv, ActiveIsFront, Active
<1>11. EmptyOK'
  BY <1>3, <1>5, Zenon DEF Inv, EmptyOK
<1>12. FrontOK'
  <2>1. \A d \in Client : d # c =>
          (Empty(d)' <=> Empty(d)) /\ Front(d)' = Front(d) /\ state'[d] = state[d]
    BY <1>3, FrontHome, Zenon
  <2>2. \A u \in Thread : Home[u] # c =>
          (pc'[u] = "queued" => pc[u] = "queued") /\ (u \in signalled => u \in signalled')
    BY <1>3, FrontHome, Zenon
  <2>3. ~Empty(c)' /\ pc'[Front(c)'] = "queued" =>
          Front(c)' \in signalled' /\ state'[c] \in {"LOCKED", "NONE"}
    BY <1>3, FrontHome, Zenon
  <2> QED BY <2>1, <2>2, <2>3, FrontStable, Zenon
<1>13. PhaseOK'
  <2> SUFFICES ASSUME NEW u \in Thread PROVE Phase(u)'
    BY Zenon DEF PhaseOK
  <2>1. CASE u = t
    BY <2>1, <1>3, Zenon DEF Phase, InAcquireRPC
  <2>2. CASE u # t /\ Home[u] = c
    <3>1. pc'[u] \in {"idle", "queued"} /\ u \notin signalled'
      BY <2>2, <1>3, Zenon
    <3> QED BY <3>1, Zenon DEF Phase, InAcquireRPC
  <2>3. CASE u # t /\ Home[u] # c
    <3>1. pc'[u] = pc[u] /\ (u \in signalled' <=> u \in signalled)
              /\ state'[Home[u]] = state[Home[u]]
      BY <2>3, <1>3, Zenon
    <3> QED BY <3>1, Zenon DEF Inv, PhaseOK, Phase
  <2> QED BY <2>1, <2>2, <2>3, Zenon
<1>14. GrantOK'
  BY <1>3, <1>5, Zenon DEF Inv, GrantOK
<1>15. OwnerOK'
  <2>1. \A d \in Client : state[d] \in {"FREE", "LOCKED"} => state'[d] \in {"FREE", "LOCKED"}
    BY <1>3, Zenon
  <2>2. \A u \in Thread : /\ ret[u] = "OK" => ret'[u] = "OK"
                          /\ pc[u] = "release" => pc'[u] = "release"
                          /\ pc[u] = "rv_release" =>
                               pc'[u] = "rv_release" /\ dst'[u] = dst[u]
    BY <1>3, Zenon
  <2> QED BY <1>3, <2>1, <2>2, OwnerStable, Zenon
<1>16. RevokingOK'
  <2>1. \A u \in Thread : HandingBack(u)' =>
          HandingBack(u) /\ dst[u] # c /\ dst'[u] = dst[u]
    BY <1>3, Zenon DEF Inv, RevokingOK, HandingBack
  <2>2. \A d \in Client : d # c =>
          (Empty(d)' <=> Empty(d)) /\ Front(d)' = Front(d) /\ state'[d] = state[d]
    BY <1>3, Zenon
  <2>3. \A u \in Thread : pc[u] = "parked" /\ Home[u] # c => pc'[u] = "parked"
    BY <1>3, Zenon
  <2> QED BY <2>1, <2>2, <2>3, RevokingStable, Zenon
<1>17. RevokeOK'
  BY <1>3, <1>5, Zenon DEF Inv, RevokeOK, RevokeInFlight
<1>18. MessageOK'
  <2>1. \A d \in Client : message'[d] = "REVOKE" => message[d] = "REVOKE"
    BY <1>3, Zenon
  <2>2. \A d \in Client : message'[d] = "REVOKE" /\ owner = d /\ status = "REVOKING" =>
          \/ owner' = d /\ status' = "REVOKING"
          \/ \E u \in Thread : Home[u] = d /\ pc'[u] \in {"retry", "return"}
    BY <1>3, Zenon
  <2>3. \A d \in Client : message'[d] = "REVOKE" /\ state[d] = "LOCKED" =>
          state'[d] = "LOCKED" \/ \E u \in Thread : Home[u] = d /\ pc'[u] = "release"
    BY <1>3, Zenon
  <2>4. \A u \in Thread : message'[Home[u]] = "REVOKE" =>
          /\ ret[u] = "OK" => ret'[u] = "OK" \/ state'[Home[u]] = "LOCKED"
          /\ pc[u] = "release" => pc'[u] \in {"release", "retry", "return"}
          /\ pc[u] \in {"retry", "return"} => pc'[u] \in {"retry", "return"}
    BY <1>3, Zenon
  <2>5. \A u \in Thread :
          pc'[u] \in {"release", "retry", "return"} => message'[Home[u]] = "REVOKE"
    BY <1>3, <1>5, MessageFacts, Zenon
  <2>6. \A d \in Client : message'[d] = "RETRY" => retrying' = d
    BY <1>3, MessageFacts, Zenon
  <2> QED BY <2>1, <2>2, <2>3, <2>4, <2>5, <2>6, MessageStable, Zenon
<1>19. WaitingOK'
  <2>1. \A d \in Client : d \in waiting' => message'[d] = message[d]
    BY <1>3, <1>4, Zenon
  <2>2. \A u \in Thread :
          Home[u] \in waiting' /\ pc[u] \in ToldRetry /\ u \notin signalled =>
            pc'[u] \in ToldRetry /\ ret'[u] = ret[u] /\ u \notin signalled'
    BY <1>3, Zenon DEF ToldRetry
  <2> QED BY <1>3, <2>1, <2>2, WaitingKept, Zenon
<1>20. RetryOK'
  BY <1>3, SMTT(30) DEF Inv, RetryOK, RetryInFlight, ToldRetry
<1>21. KnownOK'
  BY <1>3, Zenon DEF Inv, KnownOK, ToldRetry
<1>22. NotLostOK'
  BY <1>3, <1>5, Zenon DEF Inv, NotLostOK, RevokeInFlight
<1> QED BY <1>1, <1>2, <1>7, <1>8, <1>9, <1>10, <1>11, <1>12, <1>13, <1>14, <1>15,
           <1>16, <1>17, <1>18, <1>19, <1>20, <1>21, <1>22, Zenon DEF Inv

=============================================================================
