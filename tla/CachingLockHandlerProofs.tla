---------------------- MODULE CachingLockHandlerProofs ----------------------
(***************************************************************************)
(* Every step of the client's release, revoke_handler and retry_handler    *)
(* preserves the inductive invariant Inv.                                  *)
(***************************************************************************)
EXTENDS CachingLockClientProofs

(* release finds a revoke and calls the server. *)
LEMMA ReleaseRevokedStep ==
  ASSUME Inv, NEW t \in Thread, NEW c \in Client, c = Home[t],
         CallRelease(t), message[c] = "REVOKE"
  PROVE  Inv'
<1>1. /\ pc[t] = "held" /\ t \notin signalled
      /\ state[c] = "LOCKED"
      /\ ret[t] = "RETRY"
      /\ owner = c
  BY Zenon DEF Inv, CallRelease, Goto, PhaseOK, Phase, GrantOK, TypeOK, Reply
<1>2. /\ pc' = [pc EXCEPT ![t] = "release"]
      /\ state' = [state EXCEPT ![c] = "RELEASING"]
      /\ UNCHANGED <<status, owner, retrying, waiting, message, threads, signalled,
                     exited, ret, dst, nxt>>
  BY <1>1, Zenon DEF CallRelease, CltReleaseKeep, CltReleaseRevoked, Goto, serverVars
<1>3. /\ pc[t] = "held" /\ t \notin signalled
      /\ state[c] = "LOCKED"
      /\ ret[t] = "RETRY"
      /\ owner = c
      /\ \A u \in Thread : pc'[u] = IF u = t THEN "release" ELSE pc[u]
      /\ \A d \in Client : state'[d] = IF d = c THEN "RELEASING" ELSE state[d]
      /\ UNCHANGED <<status, owner, retrying, waiting, message, threads, signalled,
                     exited, ret, dst, nxt>>
      /\ \A u \in Thread : Home[u] \in Client
      /\ \A d \in Client : (Empty(d)' <=> Empty(d)) /\ Front(d)' = Front(d)
      /\ ~Empty(c) /\ t = Front(c)
      /\ \A u \in Thread : u # t /\ Home[u] = c =>
           pc[u] \in {"idle", "queued"} /\ u \notin signalled
  BY <1>1, <1>2, HomeAssumption, SameQueues, OneActive, Zenon
  DEF Inv, TypeOK, ClientTypeOK, Active
<1>4. status = "REVOKING"
  BY <1>3, Zenon DEF Inv, MessageOK
<1>5. ServerOK'
  BY <1>3, Zenon DEF Inv, ServerOK
<1>6. TypeOK'
  BY <1>1, <1>2, Zenon
  DEF Inv, TypeOK, ServerTypeOK, ClientTypeOK, Label, Reply, State, Message, Status
<1>7. QueueOK'
  BY <1>3, QueueStable, Zenon DEF Inv
<1>8. ActiveIsFront'
  BY <1>3, Zenon DEF Inv, ActiveIsFront, Active
<1>9. EmptyOK'
  BY <1>3, Zenon DEF Inv, EmptyOK
<1>10. FrontOK'
  <2>1. \A d \in Client : d # c =>
          (Empty(d)' <=> Empty(d)) /\ Front(d)' = Front(d) /\ state'[d] = state[d]
    BY <1>3, FrontHome, Zenon
  <2>2. \A u \in Thread : Home[u] # c =>
          (pc'[u] = "queued" => pc[u] = "queued") /\ (u \in signalled => u \in signalled')
    BY <1>3, FrontHome, Zenon
  <2>3. ~Empty(c)' /\ pc'[Front(c)'] = "queued" =>
          Front(c)' \in signalled' /\ state'[c] \in {"LOCKED", "NONE"}
    BY <1>3, FrontHome, Zenon
  <2> QED BY <2>1, <2>2, <2>3, FrontStable, Zenon
<1>11. PhaseOK'
  <2> SUFFICES ASSUME NEW u \in Thread PROVE Phase(u)'
    BY Zenon DEF PhaseOK
  <2>1. CASE u = t
    BY <2>1, <1>3, Zenon DEF Phase, InAcquireRPC
  <2>2. CASE u # t /\ Home[u] = c
    <3>1. pc'[u] \in {"idle", "queued"} /\ u \notin signalled'
      BY <2>2, <1>3, Zenon
    <3> QED BY <3>1, Zenon DEF Phase, InAcquireRPC
  <2>3. CASE u # t /\ Home[u] # c
    <3>1. pc'[u] = pc[u] /\ (u \in signalled' <=> u \in signalled)
              /\ state'[Home[u]] = state[Home[u]]
      BY <2>3, <1>3, Zenon
    <3> QED BY <3>1, Zenon DEF Inv, PhaseOK, Phase
  <2> QED BY <2>1, <2>2, <2>3, Zenon
<1>12. GrantOK'
  <2>1. \A d \in Client : state'[d] \in {"FREE", "LOCKED"} => owner' = d
    BY <1>3, Zenon DEF Inv, GrantOK
  <2>2. \A u \in Thread : ret'[u] = "OK" => pc'[u] \in {"revoke", "reply"} /\ owner' = Home[u]
    BY <1>3, Zenon DEF Inv, GrantOK
  <2>3. \A u \in Thread : pc'[u] = "release" => owner' = Home[u] /\ status' = "REVOKING"
    BY <1>3, <1>4, Zenon DEF Inv, GrantOK
  <2> QED BY <2>1, <2>2, <2>3, Zenon DEF GrantOK
<1>13. OwnerOK'
  BY <1>3, Zenon DEF Inv, OwnerOK
<1>14. RevokingOK'
  <2>1. \A u \in Thread : HandingBack(u)' =>
          HandingBack(u) /\ dst[u] # c /\ dst'[u] = dst[u]
    BY <1>3, Zenon DEF Inv, RevokingOK, HandingBack
  <2>2. \A d \in Client : d # c =>
          (Empty(d)' <=> Empty(d)) /\ Front(d)' = Front(d) /\ state'[d] = state[d]
    BY <1>3, Zenon
  <2>3. \A u \in Thread : pc[u] = "parked" /\ Home[u] # c => pc'[u] = "parked"
    BY <1>3, Zenon
  <2> QED BY <2>1, <2>2, <2>3, RevokingStable
<1>15. RevokeOK'
  BY <1>3, Zenon DEF Inv, RevokeOK, RevokeInFlight
<1>16. MessageOK'
  <2>1. \A d \in Client : message'[d] = "REVOKE" => message[d] = "REVOKE"
    BY <1>3, Zenon
  <2>2. \A d \in Client : message'[d] = "REVOKE" /\ owner = d /\ status = "REVOKING" =>
          \/ owner' = d /\ status' = "REVOKING"
          \/ \E u \in Thread : Home[u] = d /\ pc'[u] \in {"retry", "return"}
    BY <1>3, Zenon
  <2>3. \A d \in Client : message'[d] = "REVOKE" /\ state[d] = "LOCKED" =>
          state'[d] = "LOCKED" \/ \E u \in Thread : Home[u] = d /\ pc'[u] = "release"
    BY <1>3, Zenon
  <2>4. \A u \in Thread : message'[Home[u]] = "REVOKE" =>
          /\ ret[u] = "OK" => ret'[u] = "OK" \/ state'[Home[u]] = "LOCKED"
          /\ pc[u] = "release" => pc'[u] \in {"release", "retry", "return"}
          /\ pc[u] \in {"retry", "return"} => pc'[u] \in {"retry", "return"}
    BY <1>3, Zenon
  <2>5. \A u \in Thread :
          pc'[u] \in {"release", "retry", "return"} => message'[Home[u]] = "REVOKE"
    BY <1>3, Zenon DEF Inv, MessageOK
  <2>6. \A d \in Client : message'[d] = "RETRY" => retrying' = d
    BY <1>3, Zenon DEF Inv, MessageOK
  <2> QED BY <2>1, <2>2, <2>3, <2>4, <2>5, <2>6, MessageStable, Zenon
<1>17. WaitingOK'
  <2>1. \A d \in Client : d \in waiting' => message'[d] = message[d]
    BY <1>3, Zenon
  <2>2. \A u \in Thread :
          Home[u] \in waiting' /\ pc[u] \in ToldRetry /\ u \notin signalled =>
            pc'[u] \in ToldRetry /\ ret'[u] = ret[u] /\ u \notin signalled'
    BY <1>3, Zenon DEF ToldRetry
  <2> QED BY <1>3, <2>1, <2>2, WaitingKept, Zenon
<1>18. RetryOK'
  BY <1>3, <1>4, Zenon DEF Inv, RetryOK, RetryInFlight, ToldRetry
<1>19. KnownOK'
  BY <1>3, Zenon DEF Inv, KnownOK, ToldRetry
<1>20. NotLostOK'
  BY <1>3, Zenon DEF Inv, NotLostOK, RevokeInFlight
<1> QED BY <1>1, <1>2, <1>5, <1>6, <1>7, <1>8, <1>9, <1>10, <1>11, <1>12, <1>13, <1>14,
           <1>15, <1>16, <1>17, <1>18, <1>19, <1>20, Zenon DEF Inv

(* release keeps the lock and nobody is queued. *)
LEMMA ReleaseKeepLastStep ==
  ASSUME Inv, NEW t \in Thread, NEW c \in Client, c = Home[t],
         CallRelease(t), message[c] # "REVOKE", Single(c)
  PROVE  Inv'
<1>1. /\ pc[t] = "held" /\ t \notin signalled /\ ret[t] = "RETRY"
      /\ state[c] = "LOCKED"
      /\ ~Empty(c) /\ t = Front(c)
      /\ owner = c /\ c \notin waiting /\ message[c] # "REVOKE"
  BY OneActive
  DEF Inv, Active, CallRelease, ReleaseReturn, Goto, PhaseOK, Phase, InAcquireRPC,
      GrantOK, ServerOK, TypeOK, Reply
<1>2. /\ pc' = [pc EXCEPT ![t] = "idle"]
      /\ state' = [state EXCEPT ![c] = "FREE"]
      /\ threads' = [threads EXCEPT ![c] = Tail(@)]
      /\ UNCHANGED <<status, owner, retrying, waiting, message, signalled, exited, ret,
                     dst, nxt>>
  BY <1>1, Zenon
  DEF CallRelease, ReleaseReturn, CltReleaseKeep, CltReleaseRevoked, CltReleaseReturn,
      SignalFront, Asleep, Single, Second, Goto, serverVars
<1>q1. threads'[c] = Tail(threads[c]) /\ \A d \in Client : d # c =>
           threads'[d] = threads[d]
  BY <1>2, Zenon DEF Inv, TypeOK, ClientTypeOK
<1>q2. /\ \A d \in Client : d # c => (Empty(d)' <=> Empty(d)) /\ Front(d)' = Front(d)
      /\ Empty(c)'
  BY <1>1, <1>q1, PopQueue, Zenon DEF Inv
<1>3. /\ pc[t] = "held" /\ t \notin signalled /\ ret[t] = "RETRY"
      /\ state[c] = "LOCKED"
      /\ ~Empty(c) /\ t = Front(c)
      /\ owner = c /\ c \notin waiting /\ message[c] # "REVOKE"
      /\ \A u \in Thread : pc'[u] = IF u = t THEN "idle" ELSE pc[u]
      /\ \A d \in Client : state'[d] = IF d = c THEN "FREE" ELSE state[d]
      /\ UNCHANGED <<status, owner, retrying, waiting, message, signalled, exited, ret,
                     dst, nxt>>
      /\ \A u \in Thread : Home[u] \in Client
      /\ \A d \in Client : d # c => (Empty(d)' <=> Empty(d)) /\ Front(d)' = Front(d)
      /\ Empty(c)'
      /\ \A u \in Thread : u # t /\ Home[u] = c =>
           pc[u] \in {"idle", "queued"} /\ u \notin signalled
  BY <1>1, <1>2, HomeAssumption, <1>q2, OneActive, Zenon
  DEF Inv, TypeOK, ClientTypeOK, Active
<1>4. message[c] = "EMPTY"
  <2>1. retrying # c
    BY <1>3, ClientAssumption, Zenon DEF Inv, ServerOK, TypeOK, ServerTypeOK, Status
  <2>2. message[c] \in {"EMPTY", "RETRY", "REVOKE"}
    BY Zenon DEF Inv, TypeOK, ClientTypeOK, Message
  <2> QED BY <2>1, <2>2, <1>3, Zenon DEF Inv, MessageOK
<1>5. retrying # c
  BY <1>3, ClientAssumption, Zenon DEF Inv, ServerOK, TypeOK, ServerTypeOK, Status
<1>6. status = "REVOKING" => owner \in Client
  BY Zenon DEF Inv, ServerOK, TypeOK, ServerTypeOK
<1>7. ServerOK'
  BY <1>3, Zenon DEF Inv, ServerOK
<1>8. TypeOK'
  <2>1. Tail(threads[c]) \in Seq(Thread)
    BY <1>1 DEF Inv, TypeOK, ClientTypeOK, Empty
  <2>2. threads' \in [Client -> Seq(Thread)]
    BY <2>1, <1>2, Zenon DEF Inv, TypeOK, ClientTypeOK
  <2>3. state' \in [Client -> State] /\ message' \in [Client -> Message]
    BY <1>2, Zenon DEF Inv, TypeOK, ClientTypeOK, State, Message
  <2>4. signalled' \in SUBSET Thread /\ exited' \in SUBSET Client
            /\ pc' \in [Thread -> Label]
    BY <1>1, <1>2, Zenon DEF Inv, TypeOK, ClientTypeOK, Label
  <2> QED BY <2>2, <2>3, <2>4, <1>3, Zenon DEF Inv, TypeOK, ServerTypeOK, ClientTypeOK
<1>9. QueueOK'
  BY <1>3, <1>q1, PopQueueOK, Zenon DEF Inv
<1>10. ActiveIsFront'
  BY <1>3, <1>4, Zenon DEF Inv, ActiveIsFront, Active
<1>11. EmptyOK'
  BY <1>3, <1>4, Zenon DEF Inv, EmptyOK
<1>12. FrontOK'
  <2>1. \A d \in Client : d # c =>
          (Empty(d)' <=> Empty(d)) /\ Front(d)' = Front(d) /\ state'[d] = state[d]
    BY <1>3, FrontHome, Zenon
  <2>2. \A u \in Thread : Home[u] # c =>
          (pc'[u] = "queued" => pc[u] = "queued") /\ (u \in signalled => u \in signalled')
    BY <1>3, FrontHome, Zenon
  <2>3. ~Empty(c)' /\ pc'[Front(c)'] = "queued" =>
          Front(c)' \in signalled' /\ state'[c] \in {"LOCKED", "NONE"}
    BY <1>3, FrontHome, Zenon
  <2> QED BY <2>1, <2>2, <2>3, FrontStable, Zenon
<1>13. PhaseOK'
  <2> SUFFICES ASSUME NEW u \in Thread PROVE Phase(u)'
    BY Zenon DEF PhaseOK
  <2>1. CASE u = t
    BY <2>1, <1>3, Zenon DEF Phase, InAcquireRPC
  <2>2. CASE u # t /\ Home[u] = c
    <3>1. pc'[u] \in {"idle", "queued"} /\ (u \in signalled' => pc'[u] = "queued")
      BY <2>2, <1>3, Zenon
    <3> QED BY <3>1, Zenon DEF Phase, InAcquireRPC
  <2>3. CASE u # t /\ Home[u] # c
    <3>1. pc'[u] = pc[u] /\ (u \in signalled' <=> u \in signalled)
              /\ state'[Home[u]] = state[Home[u]]
      BY <2>3, <1>3, Zenon
    <3> QED BY <3>1, Zenon DEF Inv, PhaseOK, Phase
  <2> QED BY <2>1, <2>2, <2>3, Zenon
<1>14. GrantOK'
  <2>1. \A d \in Client : state'[d] \in {"FREE", "LOCKED"} =>
                              state[d] \in {"FREE", "LOCKED"}
    BY <1>3, Zenon
  <2>2. \A u \in Thread : ret'[u] = "OK" =>
                              ret[u] = "OK" /\ pc'[u] \in {"revoke", "reply"}
    BY <1>3, Zenon DEF Inv, GrantOK
  <2>3. \A u \in Thread : pc'[u] = "release" => pc[u] = "release"
    BY <1>3, Zenon
  <2> QED BY <1>3, <2>1, <2>2, <2>3, GrantStable, Zenon
<1>15. OwnerOK'
  BY <1>3, Zenon DEF Inv, OwnerOK
<1>16. RevokingOK'
  <2>1. \A u \in Thread : HandingBack(u)' =>
          HandingBack(u) /\ dst[u] # c /\ dst'[u] = dst[u]
    BY <1>3, Zenon DEF Inv, RevokingOK, HandingBack
  <2>2. \A d \in Client : d # c =>
          (Empty(d)' <=> Empty(d)) /\ Front(d)' = Front(d) /\ state'[d] = state[d]
    BY <1>3, Zenon
  <2>3. \A u \in Thread : pc[u] = "parked" /\ Home[u] # c => pc'[u] = "parked"
    BY <1>3, Zenon
  <2> QED BY <2>1, <2>2, <2>3, RevokingStable, Zenon
<1>17. RevokeOK'
  BY <1>3, Zenon DEF Inv, RevokeOK, RevokeInFlight
<1>18. MessageOK'
  <2>1. \A d \in Client : message'[d] = "REVOKE" => message[d] = "REVOKE"
    BY <1>3, Zenon
  <2>2. \A d \in Client : message'[d] = "REVOKE" /\ owner = d /\ status = "REVOKING" =>
          \/ owner' = d /\ status' = "REVOKING"
          \/ \E u \in Thread : Home[u] = d /\ pc'[u] \in {"retry", "return"}
    BY <1>3, Zenon
  <2>3. \A d \in Client : message'[d] = "REVOKE" /\ state[d] = "LOCKED" =>
          state'[d] = "LOCKED" \/ \E u \in Thread : Home[u] = d /\ pc'[u] = "release"
    BY <1>3, Zenon
  <2>4. \A u \in Thread : message'[Home[u]] = "REVOKE" =>
          /\ ret[u] = "OK" => ret'[u] = "OK" \/ state'[Home[u]] = "LOCKED"
          /\ pc[u] = "release" => pc'[u] \in {"release", "retry", "return"}
          /\ pc[u] \in {"retry", "return"} => pc'[u] \in {"retry", "return"}
    BY <1>3, Zenon
  <2>5. \A u \in Thread :
          pc'[u] \in {"release", "retry", "return"} => message'[Home[u]] = "REVOKE"
    BY <1>3, Zenon DEF Inv, MessageOK
  <2>6. \A d \in Client : message'[d] = "RETRY" => retrying' = d
    BY <1>3, Zenon DEF Inv, MessageOK
  <2> QED BY <2>1, <2>2, <2>3, <2>4, <2>5, <2>6, MessageStable, Zenon
<1>19. WaitingOK'
  <2>1. \A u \in Thread : Home[u] # c =>
          pc'[u] = pc[u] /\ ret'[u] = ret[u] /\ (u \in signalled' <=> u \in signalled)
    BY <1>3, Zenon
  <2>2. \A d \in Client : d # c => message'[d] = message[d]
    BY <1>3, Zenon
  <2> QED BY <1>3, <2>1, <2>2, WaitingStable, Zenon
<1>20. RetryOK'
  <2>1. \A u \in Thread : Home[u] # c =>
          pc'[u] = pc[u] /\ ret'[u] = ret[u] /\ (u \in signalled' <=> u \in signalled)
    BY <1>3, Zenon
  <2>2. \A d \in Client : d # c => message'[d] = message[d]
    BY <1>3, Zenon
  <2>3. \A u \in Thread : RetryInFlight(u)' <=> RetryInFlight(u)
    BY <1>3, Zenon DEF RetryInFlight
  <2> QED BY <2>1, <2>2, <2>3, <1>3, <1>5, RetryStable
<1>21. KnownOK'
  BY <1>3, Zenon DEF Inv, KnownOK, ToldRetry
<1>22. NotLostOK'
  BY <1>3, Zenon DEF Inv, NotLostOK, RevokeInFlight
<1> QED BY <1>1, <1>2, <1>7, <1>8, <1>9, <1>10, <1>11, <1>12, <1>13, <1>14, <1>15,
           <1>16, <1>17, <1>18, <1>19, <1>20, <1>21, <1>22, Zenon DEF Inv

(* release keeps the lock and hands it to the next queued thread. *)
LEMMA ReleaseKeepNextStep ==
  ASSUME Inv, NEW t \in Thread, NEW c \in Client, c = Home[t],
         CallRelease(t), message[c] # "REVOKE", ~Single(c), NEW f, f = Second(c)
  PROVE  Inv'
<1>1. /\ pc[t] = "held" /\ t \notin signalled /\ ret[t] = "RETRY"
      /\ state[c] = "LOCKED"
      /\ ~Empty(c) /\ t = Front(c)
      /\ owner = c /\ c \notin waiting /\ message[c] # "REVOKE"
      /\ f = Second(c) /\ f \in Thread /\ Home[f] = c /\ f # t
      /\ pc[f] = "queued" /\ f \notin signalled
  BY OneActive, SecondQueued
  DEF Inv, Active, CallRelease, ReleaseReturn, Goto, PhaseOK, Phase, InAcquireRPC,
      GrantOK, ServerOK, TypeOK, Reply
<1>2. /\ pc' = [pc EXCEPT ![t] = "idle"]
      /\ state' = [state EXCEPT ![c] = "LOCKED"]
      /\ threads' = [threads EXCEPT ![c] = Tail(@)]
      /\ signalled' = signalled \cup {f}
      /\ UNCHANGED <<status, owner, retrying, waiting, message, exited, ret, dst, nxt>>
  BY <1>1, Zenon
  DEF CallRelease, ReleaseReturn, CltReleaseKeep, CltReleaseRevoked, CltReleaseReturn,
      SignalFront, Asleep, Single, Second, Goto, serverVars
<1>q1. threads'[c] = Tail(threads[c]) /\ \A d \in Client : d # c =>
           threads'[d] = threads[d]
  BY <1>2, Zenon DEF Inv, TypeOK, ClientTypeOK
<1>q2. /\ \A d \in Client : d # c => (Empty(d)' <=> Empty(d)) /\ Front(d)' = Front(d)
      /\ ~Empty(c)' /\ Front(c)' = f
  BY <1>1, <1>q1, PopQueue, Zenon DEF Inv
<1>3. /\ pc[t] = "held" /\ t \notin signalled /\ ret[t] = "RETRY"
      /\ state[c] = "LOCKED"
      /\ ~Empty(c) /\ t = Front(c)
      /\ owner = c /\ c \notin waiting /\ message[c] # "REVOKE"
      /\ f = Second(c) /\ f \in Thread /\ Home[f] = c /\ f # t
      /\ pc[f] = "queued" /\ f \notin signalled
      /\ \A u \in Thread : pc'[u] = IF u = t THEN "idle" ELSE pc[u]
      /\ \A d \in Client : state'[d] = IF d = c THEN "LOCKED" ELSE state[d]
      /\ signalled' = signalled \cup {f}
      /\ UNCHANGED <<status, owner, retrying, waiting, message, exited, ret, dst, nxt>>
      /\ \A u \in Thread : Home[u] \in Client
      /\ \A d \in Client : d # c => (Empty(d)' <=> Empty(d)) /\ Front(d)' = Front(d)
      /\ ~Empty(c)' /\ Front(c)' = f
      /\ \A u \in Thread : u # t /\ Home[u] = c =>
           pc[u] \in {"idle", "queued"} /\ u \notin signalled
  BY <1>1, <1>2, HomeAssumption, <1>q2, OneActive, Zenon
  DEF Inv, TypeOK, ClientTypeOK, Active
<1>4. message[c] = "EMPTY"
  <2>1. retrying # c
    BY <1>3, ClientAssumption, Zenon DEF Inv, ServerOK, TypeOK, ServerTypeOK, Status
  <2>2. message[c] \in {"EMPTY", "RETRY", "REVOKE"}
    BY Zenon DEF Inv, TypeOK, ClientTypeOK, Message
  <2> QED BY <2>1, <2>2, <1>3, Zenon DEF Inv, MessageOK
<1>5. retrying # c
  BY <1>3, ClientAssumption, Zenon DEF Inv, ServerOK, TypeOK, ServerTypeOK, Status
<1>6. status = "REVOKING" => owner \in Client
  BY Zenon DEF Inv, ServerOK, TypeOK, ServerTypeOK
<1>7. \A u \in Thread : u \in signalled' <=> u \in signalled \/ u = f
  BY <1>3, Zenon
<1>8. ServerOK'
  BY <1>3, Zenon DEF Inv, ServerOK
<1>9. TypeOK'
  <2>1. Tail(threads[c]) \in Seq(Thread)
    BY <1>1 DEF Inv, TypeOK, ClientTypeOK, Empty
  <2>2. threads' \in [Client -> Seq(Thread)]
    BY <2>1, <1>2, Zenon DEF Inv, TypeOK, ClientTypeOK
  <2>3. state' \in [Client -> State] /\ message' \in [Client -> Message]
    BY <1>2, Zenon DEF Inv, TypeOK, ClientTypeOK, State, Message
  <2>4. signalled' \in SUBSET Thread /\ exited' \in SUBSET Client
            /\ pc' \in [Thread -> Label]
    BY <1>1, <1>2, Zenon DEF Inv, TypeOK, ClientTypeOK, Label
  <2> QED BY <2>2, <2>3, <2>4, <1>3, Zenon DEF Inv, TypeOK, ServerTypeOK, ClientTypeOK
<1>10. QueueOK'
  BY <1>3, <1>q1, PopQueueOK, Zenon DEF Inv
<1>11. ActiveIsFront'
  BY <1>3, <1>7 DEF Inv, ActiveIsFront, Active
<1>12. EmptyOK'
  BY <1>3, Zenon DEF Inv, EmptyOK
<1>13. FrontOK'
  <2>1. \A d \in Client : d # c =>
          (Empty(d)' <=> Empty(d)) /\ Front(d)' = Front(d) /\ state'[d] = state[d]
    BY <1>3, FrontHome, Zenon
  <2>2. \A u \in Thread : Home[u] # c =>
          (pc'[u] = "queued" => pc[u] = "queued") /\ (u \in signalled => u \in signalled')
    BY <1>3, FrontHome, Zenon
  <2>3. ~Empty(c)' /\ pc'[Front(c)'] = "queued" =>
          Front(c)' \in signalled' /\ state'[c] \in {"LOCKED", "NONE"}
    BY <1>3, FrontHome, Zenon
  <2> QED BY <2>1, <2>2, <2>3, FrontStable, Zenon
<1>14. PhaseOK'
  <2> SUFFICES ASSUME NEW u \in Thread PROVE Phase(u)'
    BY Zenon DEF PhaseOK
  <2>1. CASE u = t
    BY <2>1, <1>3, Zenon DEF Phase, InAcquireRPC
  <2>2. CASE u # t /\ Home[u] = c
    <3>1. pc'[u] \in {"idle", "queued"} /\ (u \in signalled' => pc'[u] = "queued")
      BY <2>2, <1>3, Zenon
    <3> QED BY <3>1, Zenon DEF Phase, InAcquireRPC
  <2>3. CASE u # t /\ Home[u] # c
    <3>1. pc'[u] = pc[u] /\ (u \in signalled' <=> u \in signalled)
              /\ state'[Home[u]] = state[Home[u]]
      BY <2>3, <1>3, Zenon
    <3> QED BY <3>1, Zenon DEF Inv, PhaseOK, Phase
  <2> QED BY <2>1, <2>2, <2>3, Zenon
<1>15. GrantOK'
  <2>1. \A d \in Client : state'[d] \in {"FREE", "LOCKED"} =>
                              state[d] \in {"FREE", "LOCKED"}
    BY <1>3, Zenon
  <2>2. \A u \in Thread : ret'[u] = "OK" =>
                              ret[u] = "OK" /\ pc'[u] \in {"revoke", "reply"}
    BY <1>3, Zenon DEF Inv, GrantOK
  <2>3. \A u \in Thread : pc'[u] = "release" => pc[u] = "release"
    BY <1>3, Zenon
  <2> QED BY <1>3, <2>1, <2>2, <2>3, GrantStable, Zenon
<1>16. OwnerOK'
  BY <1>3, Zenon DEF Inv, OwnerOK
<1>17. RevokingOK'
  <2>1. \A u \in Thread : HandingBack(u)' =>
          HandingBack(u) /\ dst[u] # c /\ dst'[u] = dst[u]
    BY <1>3, Zenon DEF Inv, RevokingOK, HandingBack
  <2>2. \A d \in Client : d # c =>
          (Empty(d)' <=> Empty(d)) /\ Front(d)' = Front(d) /\ state'[d] = state[d]
    BY <1>3, Zenon
  <2>3. \A u \in Thread : pc[u] = "parked" /\ Home[u] # c => pc'[u] = "parked"
    BY <1>3, Zenon
  <2> QED BY <2>1, <2>2, <2>3, RevokingStable, Zenon
<1>18. RevokeOK'
  BY <1>3, Zenon DEF Inv, RevokeOK, RevokeInFlight
<1>19. MessageOK'
  <2>1. \A d \in Client : message'[d] = "REVOKE" => message[d] = "REVOKE"
    BY <1>3, Zenon
  <2>2. \A d \in Client : message'[d] = "REVOKE" /\ owner = d /\ status = "REVOKING" =>
          \/ owner' = d /\ status' = "REVOKING"
          \/ \E u \in Thread : Home[u] = d /\ pc'[u] \in {"retry", "return"}
    BY <1>3, Zenon
  <2>3. \A d \in Client : message'[d] = "REVOKE" /\ state[d] = "LOCKED" =>
          state'[d] = "LOCKED" \/ \E u \in Thread : Home[u] = d /\ pc'[u] = "release"
    BY <1>3, Zenon
  <2>4. \A u \in Thread : message'[Home[u]] = "REVOKE" =>
          /\ ret[u] = "OK" => ret'[u] = "OK" \/ state'[Home[u]] = "LOCKED"
          /\ pc[u] = "release" => pc'[u] \in {"release", "retry", "return"}
          /\ pc[u] \in {"retry", "return"} => pc'[u] \in {"retry", "return"}
    BY <1>3, Zenon
  <2>5. \A u \in Thread :
          pc'[u] \in {"release", "retry", "return"} => message'[Home[u]] = "REVOKE"
    BY <1>3, Zenon DEF Inv, MessageOK
  <2>6. \A d \in Client : message'[d] = "RETRY" => retrying' = d
    BY <1>3, Zenon DEF Inv, MessageOK
  <2> QED BY <2>1, <2>2, <2>3, <2>4, <2>5, <2>6, MessageStable, Zenon
<1>20. WaitingOK'
  <2>1. \A u \in Thread : Home[u] # c =>
          pc'[u] = pc[u] /\ ret'[u] = ret[u] /\ (u \in signalled' <=> u \in signalled)
    BY <1>3, Zenon
  <2>2. \A d \in Client : d # c => message'[d] = message[d]
    BY <1>3, Zenon
  <2> QED BY <1>3, <2>1, <2>2, WaitingStable, Zenon
<1>21. RetryOK'
  <2>1. \A u \in Thread : Home[u] # c =>
          pc'[u] = pc[u] /\ ret'[u] = ret[u] /\ (u \in signalled' <=> u \in signalled)
    BY <1>3, Zenon
  <2>2. \A d \in Client : d # c => message'[d] = message[d]
    BY <1>3, Zenon
  <2>3. \A u \in Thread : RetryInFlight(u)' <=> RetryInFlight(u)
    BY <1>3, Zenon DEF RetryInFlight
  <2> QED BY <2>1, <2>2, <2>3, <1>3, <1>5, RetryStable
<1>22. KnownOK'
  BY <1>3, Zenon DEF Inv, KnownOK, ToldRetry
<1>23. NotLostOK'
  BY <1>3, Zenon DEF Inv, NotLostOK, RevokeInFlight
<1> QED BY <1>1, <1>2, <1>8, <1>9, <1>10, <1>11, <1>12, <1>13, <1>14, <1>15, <1>16,
           <1>17, <1>18, <1>19, <1>20, <1>21, <1>22, <1>23, Zenon DEF Inv

(* release goes on after its RPC and nobody is queued. *)
LEMMA ReleaseReturnLastStep ==
  ASSUME Inv, NEW t \in Thread, NEW c \in Client, c = Home[t],
         ReleaseReturn(t), Single(c)
  PROVE  Inv'
<1>1. /\ pc[t] = "return" /\ t \notin signalled /\ ret[t] = "RETRY"
      /\ state[c] = "RELEASING"
      /\ ~Empty(c) /\ t = Front(c)
  BY OneActive, Zenon
  DEF Inv, Active, CallRelease, ReleaseReturn, Goto, PhaseOK, Phase, InAcquireRPC,
      GrantOK, ServerOK, TypeOK, Reply
<1>2. /\ pc' = [pc EXCEPT ![t] = "idle"]
      /\ state' = [state EXCEPT ![c] = "NONE"]
      /\ threads' = [threads EXCEPT ![c] = Tail(@)]
      /\ message' = [message EXCEPT ![c] = "EMPTY"]
      /\ UNCHANGED <<status, owner, retrying, waiting, signalled, exited, ret, dst,
                     nxt>>
  BY <1>1, Zenon
  DEF CallRelease, ReleaseReturn, CltReleaseKeep, CltReleaseRevoked, CltReleaseReturn,
      SignalFront, Asleep, Single, Second, Goto, serverVars
<1>q1. threads'[c] = Tail(threads[c]) /\ \A d \in Client : d # c =>
           threads'[d] = threads[d]
  BY <1>2, Zenon DEF Inv, TypeOK, ClientTypeOK
<1>q2. /\ \A d \in Client : d # c => (Empty(d)' <=> Empty(d)) /\ Front(d)' = Front(d)
      /\ Empty(c)'
  BY <1>1, <1>q1, PopQueue, Zenon DEF Inv
<1>3. /\ pc[t] = "return" /\ t \notin signalled /\ ret[t] = "RETRY"
      /\ state[c] = "RELEASING"
      /\ ~Empty(c) /\ t = Front(c)
      /\ \A u \in Thread : pc'[u] = IF u = t THEN "idle" ELSE pc[u]
      /\ \A d \in Client : state'[d] = IF d = c THEN "NONE" ELSE state[d]
      /\ \A d \in Client : message'[d] = IF d = c THEN "EMPTY" ELSE message[d]
      /\ UNCHANGED <<status, owner, retrying, waiting, signalled, exited, ret, dst,
                     nxt>>
      /\ \A u \in Thread : Home[u] \in Client
      /\ \A d \in Client : d # c => (Empty(d)' <=> Empty(d)) /\ Front(d)' = Front(d)
      /\ Empty(c)'
      /\ \A u \in Thread : u # t /\ Home[u] = c =>
           pc[u] \in {"idle", "queued"} /\ u \notin signalled
  BY <1>1, <1>2, HomeAssumption, <1>q2, OneActive, Zenon
  DEF Inv, TypeOK, ClientTypeOK, Active
<1>4. message[c] = "REVOKE" /\ c \notin waiting
  BY <1>3, Zenon DEF Inv, MessageOK, WaitingOK
<1>5. owner # c
  BY <1>3, NotOwner, Zenon DEF Active
<1>6. status = "RETRYING" => retrying # c
  BY <1>3, Zenon DEF Inv, RetryOK, ToldRetry
<1>7. \A u \in Thread : HandingBack(u) => dst[u] # c
  BY <1>3, SMTT(30) DEF Inv, RevokingOK
<1>8. status = "REVOKING" => owner \in Client
  BY Zenon DEF Inv, ServerOK, TypeOK, ServerTypeOK
<1>9. ServerOK'
  BY <1>3, Zenon DEF Inv, ServerOK
<1>10. TypeOK'
  <2>1. Tail(threads[c]) \in Seq(Thread)
    BY <1>1, SMTT(30) DEF Inv, TypeOK, ClientTypeOK, Empty
  <2>2. threads' \in [Client -> Seq(Thread)]
    BY <2>1, <1>2, Zenon DEF Inv, TypeOK, ClientTypeOK
  <2>3. state' \in [Client -> State] /\ message' \in [Client -> Message]
    BY <1>2, Zenon DEF Inv, TypeOK, ClientTypeOK, State, Message
  <2>4. signalled' \in SUBSET Thread /\ exited' \in SUBSET Client
            /\ pc' \in [Thread -> Label]
    BY <1>1, <1>2, Zenon DEF Inv, TypeOK, ClientTypeOK, Label
  <2> QED BY <2>2, <2>3, <2>4, <1>3, Zenon DEF Inv, TypeOK, ServerTypeOK, ClientTypeOK
<1>11. QueueOK'
  BY <1>3, <1>q1, PopQueueOK, Zenon DEF Inv
<1>12. ActiveIsFront'
  BY <1>3, <1>4, Zenon DEF Inv, ActiveIsFront, Active
<1>13. EmptyOK'
  <2>1. \A d \in Client : d # c => message'[d] = message[d] /\ state'[d] = state[d]
    BY <1>3, Zenon
  <2>2. \A d \in Client : d # c => (Empty(d)' <=> Empty(d))
    BY <1>3, Zenon
  <2>3. Empty(c)' => message'[c] = "EMPTY" /\ state'[c] \in {"NONE", "FREE", "RELEASING"}
    BY <1>3, Zenon
  <2> QED BY <2>1, <2>2, <2>3, Zenon DEF Inv, EmptyOK
<1>14. FrontOK'
  <2>1. \A d \in Client : d # c =>
          (Empty(d)' <=> Empty(d)) /\ Front(d)' = Front(d) /\ state'[d] = state[d]
    BY <1>3, FrontHome, Zenon
  <2>2. \A u \in Thread : Home[u] # c =>
          (pc'[u] = "queued" => pc[u] = "queued") /\ (u \in signalled => u \in signalled')
    BY <1>3, FrontHome, Zenon
  <2>3. ~Empty(c)' /\ pc'[Front(c)'] = "queued" =>
          Front(c)' \in signalled' /\ state'[c] \in {"LOCKED", "NONE"}
    BY <1>3, FrontHome, Zenon
  <2> QED BY <2>1, <2>2, <2>3, FrontStable, Zenon
<1>15. PhaseOK'
  <2> SUFFICES ASSUME NEW u \in Thread PROVE Phase(u)'
    BY Zenon DEF PhaseOK
  <2>1. CASE u = t
    BY <2>1, <1>3, Zenon DEF Phase, InAcquireRPC
  <2>2. CASE u # t /\ Home[u] = c
    <3>1. pc'[u] \in {"idle", "queued"} /\ (u \in signalled' => pc'[u] = "queued")
      BY <2>2, <1>3, Zenon
    <3> QED BY <3>1, Zenon DEF Phase, InAcquireRPC
  <2>3. CASE u # t /\ Home[u] # c
    <3>1. pc'[u] = pc[u] /\ (u \in signalled' <=> u \in signalled)
              /\ state'[Home[u]] = state[Home[u]]
      BY <2>3, <1>3, Zenon
    <3> QED BY <3>1, Zenon DEF Inv, PhaseOK, Phase
  <2> QED BY <2>1, <2>2, <2>3, Zenon
<1>16. GrantOK'
  <2>1. \A d \in Client : state'[d] \in {"FREE", "LOCKED"} =>
                              state[d] \in {"FREE", "LOCKED"}
    BY <1>3, Zenon
  <2>2. \A u \in Thread : ret'[u] = "OK" =>
                              ret[u] = "OK" /\ pc'[u] \in {"revoke", "reply"}
    BY <1>3, Zenon DEF Inv, GrantOK
  <2>3. \A u \in Thread : pc'[u] = "release" => pc[u] = "release"
    BY <1>3, Zenon
  <2> QED BY <1>3, <2>1, <2>2, <2>3, GrantStable, Zenon
<1>17. OwnerOK'
  <2>1. \A d \in Client : state[d] \in {"FREE", "LOCKED"} =>
                              state'[d] \in {"FREE", "LOCKED"}
    BY <1>3, Zenon
  <2>2. \A u \in Thread : /\ ret[u] = "OK" => ret'[u] = "OK"
                          /\ pc[u] = "release" => pc'[u] = "release"
                          /\ pc[u] = "rv_release" =>
                               pc'[u] = "rv_release" /\ dst'[u] = dst[u]
    BY <1>3, Zenon
  <2> QED BY <1>3, <2>1, <2>2, OwnerStable, Zenon
<1>18. RevokingOK'
  <2>1. \A u \in Thread : HandingBack(u)' =>
          HandingBack(u) /\ dst[u] # c /\ dst'[u] = dst[u]
    BY <1>3, <1>7, Zenon DEF Inv, RevokingOK, HandingBack
  <2>2. \A d \in Client : d # c =>
          (Empty(d)' <=> Empty(d)) /\ Front(d)' = Front(d) /\ state'[d] = state[d]
    BY <1>3, Zenon
  <2>3. \A u \in Thread : pc[u] = "parked" /\ Home[u] # c => pc'[u] = "parked"
    BY <1>3, Zenon
  <2> QED BY <2>1, <2>2, <2>3, RevokingStable, Zenon
<1>19. RevokeOK'
  <2>0. \A u \in Thread : RevokeInFlight(u)' => RevokeInFlight(u) /\ pc'[u] = pc[u]
    BY <1>3, Zenon DEF RevokeInFlight
  <2>1. ASSUME NEW u \in Thread, RevokeInFlight(u)'
        PROVE  /\ status' = "REVOKING" /\ message'[owner'] # "REVOKE"
               /\ pc'[u] # "revoke_read" => dst'[u] = owner'
    <3>1. /\ status = "REVOKING" /\ message[owner] # "REVOKE"
          /\ pc[u] # "revoke_read" => dst[u] = owner
      BY <2>0, <2>1, Zenon DEF Inv, RevokeOK
    <3>2. owner \in Client /\ message'[owner] # "REVOKE"
      BY <3>1, <1>3, <1>8, Zenon
    <3> QED BY <2>0, <2>1, <3>1, <3>2, <1>3, Zenon
  <2>2. \A u, v \in Thread : RevokeInFlight(u)' /\ RevokeInFlight(v)' => u = v
    BY <2>0, Zenon DEF Inv, RevokeOK
  <2> QED BY <2>1, <2>2, Zenon DEF RevokeOK
<1>20. MessageOK'
  <2>1. \A d \in Client : message'[d] = "REVOKE" => message[d] = "REVOKE"
    BY <1>3, Zenon
  <2>2. \A d \in Client : message'[d] = "REVOKE" /\ owner = d /\ status = "REVOKING" =>
          \/ owner' = d /\ status' = "REVOKING"
          \/ \E u \in Thread : Home[u] = d /\ pc'[u] \in {"retry", "return"}
    BY <1>3, Zenon
  <2>3. \A d \in Client : message'[d] = "REVOKE" /\ state[d] = "LOCKED" =>
          state'[d] = "LOCKED" \/ \E u \in Thread : Home[u] = d /\ pc'[u] = "release"
    BY <1>3, Zenon
  <2>4. \A u \in Thread : message'[Home[u]] = "REVOKE" =>
          /\ ret[u] = "OK" => ret'[u] = "OK" \/ state'[Home[u]] = "LOCKED"
          /\ pc[u] = "release" => pc'[u] \in {"release", "retry", "return"}
          /\ pc[u] \in {"retry", "return"} => pc'[u] \in {"retry", "return"}
    BY <1>3, Zenon
  <2>5. \A u \in Thread :
          pc'[u] \in {"release", "retry", "return"} => message'[Home[u]] = "REVOKE"
    BY <1>3, <1>4, <1>5, <1>6, <1>7, <1>8, MessageFacts, Zenon
  <2>6. \A d \in Client : message'[d] = "RETRY" => retrying' = d
    BY <1>3, MessageFacts, Zenon
  <2> QED BY <2>1, <2>2, <2>3, <2>4, <2>5, <2>6, MessageStable, Zenon
<1>21. WaitingOK'
  <2>1. \A u \in Thread : Home[u] # c =>
          pc'[u] = pc[u] /\ ret'[u] = ret[u] /\ (u \in signalled' <=> u \in signalled)
    BY <1>3, Zenon
  <2>2. \A d \in Client : d # c => message'[d] = message[d]
    BY <1>3, Zenon
  <2> QED BY <2>1, <2>2, <1>3, <1>4, <1>6, WaitingStable, Zenon
<1>22. RetryOK'
  <2>1. \A u \in Thread : Home[u] # c =>
          pc'[u] = pc[u] /\ ret'[u] = ret[u] /\ (u \in signalled' <=> u \in signalled)
    BY <1>3, Zenon
  <2>2. \A d \in Client : d # c => message'[d] = message[d]
    BY <1>3, Zenon
  <2>3. \A u \in Thread : RetryInFlight(u)' <=> RetryInFlight(u)
    BY <1>3, Zenon DEF RetryInFlight
  <2> QED BY <2>1, <2>2, <2>3, <1>3, <1>6, RetryStable, SMTT(30)
<1>23. KnownOK'
  BY <1>3, Zenon DEF Inv, KnownOK, ToldRetry
<1>24. NotLostOK'
  BY <1>3, <1>5, <1>8, Zenon DEF Inv, NotLostOK, RevokeInFlight
<1> QED BY <1>1, <1>2, <1>9, <1>10, <1>11, <1>12, <1>13, <1>14, <1>15, <1>16, <1>17,
           <1>18, <1>19, <1>20, <1>21, <1>22, <1>23, <1>24, Zenon DEF Inv

(* release goes on after its RPC and wakes the next queued thread. *)
LEMMA ReleaseReturnNextStep ==
  ASSUME Inv, NEW t \in Thread, NEW c \in Client, c = Home[t],
         ReleaseReturn(t), ~Single(c), NEW f, f = Second(c)
  PROVE  Inv'
<1>1. /\ pc[t] = "return" /\ t \notin signalled /\ ret[t] = "RETRY"
      /\ state[c] = "RELEASING"
      /\ ~Empty(c) /\ t = Front(c)
      /\ f = Second(c) /\ f \in Thread /\ Home[f] = c /\ f # t
      /\ pc[f] = "queued" /\ f \notin signalled
  BY OneActive, SecondQueued, SMTT(30)
  DEF Inv, Active, CallRelease, ReleaseReturn, Goto, PhaseOK, Phase, InAcquireRPC,
      GrantOK, ServerOK, TypeOK, Reply
<1>2. /\ pc' = [pc EXCEPT ![t] = "idle"]
      /\ state' = [state EXCEPT ![c] = "NONE"]
      /\ threads' = [threads EXCEPT ![c] = Tail(@)]
      /\ signalled' = signalled \cup {f}
      /\ message' = [message EXCEPT ![c] = "EMPTY"]
      /\ UNCHANGED <<status, owner, retrying, waiting, exited, ret, dst, nxt>>
  BY <1>1, Zenon
  DEF CallRelease, ReleaseReturn, CltReleaseKeep, CltReleaseRevoked, CltReleaseReturn,
      SignalFront, Asleep, Single, Second, Goto, serverVars
<1>q1. threads'[c] = Tail(threads[c]) /\ \A d \in Client : d # c =>
           threads'[d] = threads[d]
  BY <1>2, Zenon DEF Inv, TypeOK, ClientTypeOK
<1>q2. /\ \A d \in Client : d # c => (Empty(d)' <=> Empty(d)) /\ Front(d)' = Front(d)
      /\ ~Empty(c)' /\ Front(c)' = f
  BY <1>1, <1>q1, PopQueue, Zenon DEF Inv
<1>3. /\ pc[t] = "return" /\ t \notin signalled /\ ret[t] = "RETRY"
      /\ state[c] = "RELEASING"
      /\ ~Empty(c) /\ t = Front(c)
      /\ f = Second(c) /\ f \in Thread /\ Home[f] = c /\ f # t
      /\ pc[f] = "queued" /\ f \notin signalled
      /\ \A u \in Thread : pc'[u] = IF u = t THEN "idle" ELSE pc[u]
      /\ \A d \in Client : state'[d] = IF d = c THEN "NONE" ELSE state[d]
      /\ signalled' = signalled \cup {f}
      /\ \A d \in Client : message'[d] = IF d = c THEN "EMPTY" ELSE message[d]
      /\ UNCHANGED <<status, owner, retrying, waiting, exited, ret, dst, nxt>>
      /\ \A u \in Thread : Home[u] \in Client
      /\ \A d \in Client : d # c => (Empty(d)' <=> Empty(d)) /\ Front(d)' = Front(d)
      /\ ~Empty(c)' /\ Front(c)' = f
      /\ \A u \in Thread : u # t /\ Home[u] = c =>
           pc[u] \in {"idle", "queued"} /\ u \notin signalled
  BY <1>1, <1>2, HomeAssumption, <1>q2, OneActive, Zenon
  DEF Inv, TypeOK, ClientTypeOK, Active
<1>4. message[c] = "REVOKE" /\ c \notin waiting
  BY <1>3, SMTT(30) DEF Inv, MessageOK, WaitingOK
<1>5. owner # c
  BY <1>3, NotOwner, Zenon DEF Active
<1>6. status = "RETRYING" => retrying # c
  BY <1>3, Zenon DEF Inv, RetryOK, ToldRetry
<1>7. \A u \in Thread : HandingBack(u) => dst[u] # c
  BY <1>3, SMTT(30) DEF Inv, RevokingOK
<1>8. status = "REVOKING" => owner \in Client
  BY Zenon DEF Inv, ServerOK, TypeOK, ServerTypeOK
<1>9. \A u \in Thread : u \in signalled' <=> u \in signalled \/ u = f
  BY <1>3, Zenon
<1>10. ServerOK'
  BY <1>3, Zenon DEF Inv, ServerOK
<1>11. TypeOK'
  <2>1. Tail(threads[c]) \in Seq(Thread)
    BY <1>1, SMTT(30) DEF Inv, TypeOK, ClientTypeOK, Empty
  <2>2. threads' \in [Client -> Seq(Thread)]
    BY <2>1, <1>2, Zenon DEF Inv, TypeOK, ClientTypeOK
  <2>3. state' \in [Client -> State] /\ message' \in [Client -> Message]
    BY <1>2, Zenon DEF Inv, TypeOK, ClientTypeOK, State, Message
  <2>4. signalled' \in SUBSET Thread /\ exited' \in SUBSET Client
            /\ pc' \in [Thread -> Label]
    BY <1>1, <1>2, Zenon DEF Inv, TypeOK, ClientTypeOK, Label
  <2> QED BY <2>2, <2>3, <2>4, <1>3, Zenon DEF Inv, TypeOK, ServerTypeOK, ClientTypeOK
<1>12. QueueOK'
  BY <1>3, <1>q1, PopQueueOK, Zenon DEF Inv
<1>13. ActiveIsFront'
  <2> SUFFICES ASSUME NEW u \in Thread, Active(u)'
               PROVE  ~Empty(Home[u])' /\ u = Front(Home[u])'
    BY Zenon DEF ActiveIsFront
  <2>1. CASE Home[u] = c
    <3>1. u = f
      BY <1>3, <2>1, Zenon DEF Active
    <3> QED BY <3>1, <1>3, Zenon
  <2>2. CASE Home[u] # c
    <3>1. Active(u)
      BY <1>3, <2>2, Zenon DEF Active
    <3> QED BY <2>2, <3>1, <1>3, Zenon DEF Inv, ActiveIsFront
  <2> QED BY <2>1, <2>2, Zenon
<1>14. EmptyOK'
  <2>1. \A d \in Client : d # c => message'[d] = message[d] /\ state'[d] = state[d]
    BY <1>3, Zenon
  <2>2. \A d \in Client : d # c => (Empty(d)' <=> Empty(d))
    BY <1>3, Zenon
  <2>3. Empty(c)' => message'[c] = "EMPTY" /\ state'[c] \in {"NONE", "FREE", "RELEASING"}
    BY <1>3, Zenon
  <2> QED BY <2>1, <2>2, <2>3, Zenon DEF Inv, EmptyOK
<1>15. FrontOK'
  <2>1. \A d \in Client : d # c =>
          (Empty(d)' <=> Empty(d)) /\ Front(d)' = Front(d) /\ state'[d] = state[d]
    BY <1>3, FrontHome, Zenon
  <2>2. \A u \in Thread : Home[u] # c =>
          (pc'[u] = "queued" => pc[u] = "queued") /\ (u \in signalled => u \in signalled')
    BY <1>3, FrontHome, Zenon
  <2>3. ~Empty(c)' /\ pc'[Front(c)'] = "queued" =>
          Front(c)' \in signalled' /\ state'[c] \in {"LOCKED", "NONE"}
    BY <1>3, FrontHome, Zenon
  <2> QED BY <2>1, <2>2, <2>3, FrontStable, Zenon
<1>16. PhaseOK'
  <2> SUFFICES ASSUME NEW u \in Thread PROVE Phase(u)'
    BY Zenon DEF PhaseOK
  <2>1. CASE u = t
    BY <2>1, <1>3, Zenon DEF Phase, InAcquireRPC
  <2>2. CASE u # t /\ Home[u] = c
    <3>1. pc'[u] \in {"idle", "queued"} /\ (u \in signalled' => pc'[u] = "queued")
      BY <2>2, <1>3, Zenon
    <3> QED BY <3>1, Zenon DEF Phase, InAcquireRPC
  <2>3. CASE u # t /\ Home[u] # c
    <3>1. pc'[u] = pc[u] /\ (u \in signalled' <=> u \in signalled)
              /\ state'[Home[u]] = state[Home[u]]
      BY <2>3, <1>3, Zenon
    <3> QED BY <3>1, Zenon DEF Inv, PhaseOK, Phase
  <2> QED BY <2>1, <2>2, <2>3, Zenon
<1>17. GrantOK'
  <2>1. \A d \in Client : state'[d] \in {"FREE", "LOCKED"} =>
                              state[d] \in {"FREE", "LOCKED"}
    BY <1>3, Zenon
  <2>2. \A u \in Thread : ret'[u] = "OK" =>
                              ret[u] = "OK" /\ pc'[u] \in {"revoke", "reply"}
    BY <1>3, Zenon DEF Inv, GrantOK
  <2>3. \A u \in Thread : pc'[u] = "release" => pc[u] = "release"
    BY <1>3, Zenon
  <2> QED BY <1>3, <2>1, <2>2, <2>3, GrantStable, Zenon
<1>18. OwnerOK'
  <2>1. \A d \in Client : state[d] \in {"FREE", "LOCKED"} =>
                              state'[d] \in {"FREE", "LOCKED"}
    BY <1>3, Zenon
  <2>2. \A u \in Thread : /\ ret[u] = "OK" => ret'[u] = "OK"
                          /\ pc[u] = "release" => pc'[u] = "release"
                          /\ pc[u] = "rv_release" =>
                               pc'[u] = "rv_release" /\ dst'[u] = dst[u]
    BY <1>3, Zenon
  <2> QED BY <1>3, <2>1, <2>2, OwnerStable, Zenon
<1>19. RevokingOK'
  <2>1. \A u \in Thread : HandingBack(u)' =>
          HandingBack(u) /\ dst[u] # c /\ dst'[u] = dst[u]
    BY <1>3, <1>7, Zenon DEF Inv, RevokingOK, HandingBack
  <2>2. \A d \in Client : d # c =>
          (Empty(d)' <=> Empty(d)) /\ Front(d)' = Front(d) /\ state'[d] = state[d]
    BY <1>3, Zenon
  <2>3. \A u \in Thread : pc[u] = "parked" /\ Home[u] # c => pc'[u] = "parked"
    BY <1>3, Zenon
  <2> QED BY <2>1, <2>2, <2>3, RevokingStable, Zenon
<1>20. RevokeOK'
  <2>0. \A u \in Thread : RevokeInFlight(u)' => RevokeInFlight(u) /\ pc'[u] = pc[u]
    BY <1>3, Zenon DEF RevokeInFlight
  <2>1. ASSUME NEW u \in Thread, RevokeInFlight(u)'
        PROVE  /\ status' = "REVOKING" /\ message'[owner'] # "REVOKE"
               /\ pc'[u] # "revoke_read" => dst'[u] = owner'
    <3>1. /\ status = "REVOKING" /\ message[owner] # "REVOKE"
          /\ pc[u] # "revoke_read" => dst[u] = owner
      BY <2>0, <2>1, Zenon DEF Inv, RevokeOK
    <3>2. owner \in Client /\ message'[owner] # "REVOKE"
      BY <3>1, <1>3, <1>8, Zenon
    <3> QED BY <2>0, <2>1, <3>1, <3>2, <1>3, Zenon
  <2>2. \A u, v \in Thread : RevokeInFlight(u)' /\ RevokeInFlight(v)' => u = v
    BY <2>0, Zenon DEF Inv, RevokeOK
  <2> QED BY <2>1, <2>2, Zenon DEF RevokeOK
<1>21. MessageOK'
  <2>1. \A d \in Client : message'[d] = "REVOKE" => message[d] = "REVOKE"
    BY <1>3, Zenon
  <2>2. \A d \in Client : message'[d] = "REVOKE" /\ owner = d /\ status = "REVOKING" =>
          \/ owner' = d /\ status' = "REVOKING"
          \/ \E u \in Thread : Home[u] = d /\ pc'[u] \in {"retry", "return"}
    BY <1>3, Zenon
  <2>3. \A d \in Client : message'[d] = "REVOKE" /\ state[d] = "LOCKED" =>
          state'[d] = "LOCKED" \/ \E u \in Thread : Home[u] = d /\ pc'[u] = "release"
    BY <1>3, Zenon
  <2>4. \A u \in Thread : message'[Home[u]] = "REVOKE" =>
          /\ ret[u] = "OK" => ret'[u] = "OK" \/ state'[Home[u]] = "LOCKED"
          /\ pc[u] = "release" => pc'[u] \in {"release", "retry", "return"}
          /\ pc[u] \in {"retry", "return"} => pc'[u] \in {"retry", "return"}
    BY <1>3, Zenon
  <2>5. \A u \in Thread :
          pc'[u] \in {"release", "retry", "return"} => message'[Home[u]] = "REVOKE"
    BY <1>3, MessageFacts, Zenon
  <2>6. \A d \in Client : message'[d] = "RETRY" => retrying' = d
    BY <1>3, MessageFacts, Zenon
  <2> QED BY <2>1, <2>2, <2>3, <2>4, <2>5, <2>6, MessageStable, Zenon
<1>22. WaitingOK'
  <2>1. \A u \in Thread : Home[u] # c =>
          pc'[u] = pc[u] /\ ret'[u] = ret[u] /\ (u \in signalled' <=> u \in signalled)
    BY <1>3, Zenon
  <2>2. \A d \in Client : d # c => message'[d] = message[d]
    BY <1>3, Zenon
  <2> QED BY <2>1, <2>2, <1>3, <1>4, WaitingStable, Zenon
<1>23. RetryOK'
  <2>1. \A u \in Thread : Home[u] # c =>
          pc'[u] = pc[u] /\ ret'[u] = ret[u] /\ (u \in signalled' <=> u \in signalled)
    BY <1>3, Zenon
  <2>2. \A d \in Client : d # c => message'[d] = message[d]
    BY <1>3, Zenon
  <2>3. \A u \in Thread : RetryInFlight(u)' <=> RetryInFlight(u)
    BY <1>3, Zenon DEF RetryInFlight
  <2> QED BY <2>1, <2>2, <2>3, <1>3, <1>6, RetryStable, SMTT(30)
<1>24. KnownOK'
  BY <1>3, Zenon DEF Inv, KnownOK, ToldRetry
<1>25. NotLostOK'
  BY <1>3, <1>5, <1>8, Zenon DEF Inv, NotLostOK, RevokeInFlight
<1> QED BY <1>1, <1>2, <1>10, <1>11, <1>12, <1>13, <1>14, <1>15, <1>16, <1>17, <1>18,
           <1>19, <1>20, <1>21, <1>22, <1>23, <1>24, <1>25, Zenon DEF Inv

(* revoke_handler finds the lock free and calls the server. *)
LEMMA RevokeFreeStep ==
  ASSUME Inv, NEW t \in Thread, NEW c \in Client, c = Home[t], NEW r \in Client,
      r = dst[t],
         RevokeHandler(t), state[r] = "FREE"
  PROVE  Inv'
<1>1. /\ pc[t] = "revoke" /\ t \notin signalled
      /\ state[c] = "ACQUIRING" /\ state[r] = "FREE" /\ r # c
      /\ owner = r /\ status = "REVOKING" /\ message[r] # "REVOKE"
      /\ ret[t] = "RETRY"
  BY SMTT(30) DEF RevokeHandler, Goto, Inv, PhaseOK, Phase, InAcquireRPC, RevokeOK,
         RevokeInFlight, GrantOK, TypeOK, Reply
<1>2. /\ pc' = [pc EXCEPT ![t] = "rv_release"]
      /\ state' = [state EXCEPT ![r] = "RELEASING"]
      /\ UNCHANGED <<status, owner, retrying, waiting, message, threads, signalled,
                     exited, ret, dst, nxt>>
  BY <1>1, Zenon DEF RevokeHandler, CltRevokeFree, CltRevokeBusy, Goto, serverVars
<1>3. /\ pc[t] = "revoke" /\ t \notin signalled
      /\ state[c] = "ACQUIRING" /\ state[r] = "FREE" /\ r # c
      /\ owner = r /\ status = "REVOKING" /\ message[r] # "REVOKE"
      /\ ret[t] = "RETRY"
      /\ \A u \in Thread : pc'[u] = IF u = t THEN "rv_release" ELSE pc[u]
      /\ \A d \in Client : state'[d] = IF d = r THEN "RELEASING" ELSE state[d]
      /\ UNCHANGED <<status, owner, retrying, waiting, message, threads, signalled,
                     exited, ret, dst, nxt>>
      /\ \A u \in Thread : Home[u] \in Client
      /\ \A d \in Client : (Empty(d)' <=> Empty(d)) /\ Front(d)' = Front(d)
      /\ ~Empty(c) /\ t = Front(c)
      /\ \A u \in Thread : u # t /\ Home[u] = c =>
           pc[u] \in {"idle", "queued"} /\ u \notin signalled
      /\ Empty(r)
      /\ \A u \in Thread : Home[u] = r =>
           pc[u] \in {"idle", "queued"} /\ u \notin signalled
  BY <1>1, <1>2, HomeAssumption, SameQueues, OneActive, FreeIsEmpty, NoneActive, Zenon
  DEF Inv, TypeOK, ClientTypeOK, Active
<1>4. ServerOK'
  BY <1>3, Zenon DEF Inv, ServerOK
<1>5. TypeOK'
  BY <1>1, <1>2, Zenon
  DEF Inv, TypeOK, ServerTypeOK, ClientTypeOK, Label, Reply, State, Message, Status
<1>6. QueueOK'
  BY <1>3, QueueStable, Zenon DEF Inv
<1>7. ActiveIsFront'
  BY <1>3, Zenon DEF Inv, ActiveIsFront, Active
<1>8. EmptyOK'
  BY <1>3, Zenon DEF Inv, EmptyOK
<1>9. FrontOK'
  <2>1. \A d \in Client : d # r =>
          (Empty(d)' <=> Empty(d)) /\ Front(d)' = Front(d) /\ state'[d] = state[d]
    BY <1>3, FrontHome, Zenon
  <2>2. \A u \in Thread : Home[u] # r =>
          (pc'[u] = "queued" => pc[u] = "queued") /\ (u \in signalled => u \in signalled')
    BY <1>3, FrontHome, Zenon
  <2>3. ~Empty(r)' /\ pc'[Front(r)'] = "queued" =>
          Front(r)' \in signalled' /\ state'[r] \in {"LOCKED", "NONE"}
    BY <1>3, FrontHome, Zenon
  <2> QED BY <2>1, <2>2, <2>3, FrontStable, Zenon
<1>10. PhaseOK'
  <2> SUFFICES ASSUME NEW u \in Thread PROVE Phase(u)'
    BY Zenon DEF PhaseOK
  <2>1. CASE u = t
    BY <2>1, <1>3, Zenon DEF Phase, InAcquireRPC
  <2>2. CASE u # t /\ Home[u] = r
    BY <2>2, <1>3, Zenon DEF Phase, InAcquireRPC
  <2>3. CASE u # t /\ Home[u] # r
    <3>1. pc'[u] = pc[u] /\ (u \in signalled' <=> u \in signalled)
              /\ state'[Home[u]] = state[Home[u]]
      BY <2>3, <1>3, Zenon
    <3> QED BY <3>1, Zenon DEF Inv, PhaseOK, Phase
  <2> QED BY <2>1, <2>2, <2>3, Zenon
<1>11. GrantOK'
  <2>1. \A d \in Client : state'[d] \in {"FREE", "LOCKED"} =>
                              state[d] \in {"FREE", "LOCKED"}
    BY <1>3, Zenon
  <2>2. \A u \in Thread : ret'[u] = "OK" =>
                              ret[u] = "OK" /\ pc'[u] \in {"revoke", "reply"}
    BY <1>3, Zenon DEF Inv, GrantOK
  <2>3. \A u \in Thread : pc'[u] = "release" => pc[u] = "release"
    BY <1>3, Zenon
  <2> QED BY <1>3, <2>1, <2>2, <2>3, GrantStable, Zenon
<1>12. OwnerOK'
  BY <1>3, Zenon DEF Inv, OwnerOK
<1>13. RevokingOK'
  <2>1. ASSUME NEW u \in Thread, HandingBack(u)', u # t
        PROVE  /\ HandingBack(u) /\ dst[u] \in Client /\ dst[u] # r
               /\ state'[dst[u]] = "RELEASING"
               /\ ~Empty(dst[u]) => pc'[Front(dst[u])] = "parked"
    <3>1. HandingBack(u)
      BY <2>1, <1>3, Zenon DEF HandingBack
    <3>2. /\ dst[u] \in Client /\ state[dst[u]] = "RELEASING"
          /\ ~Empty(dst[u]) => pc[Front(dst[u])] = "parked"
      BY <3>1, Zenon DEF Inv, RevokingOK
    <3>3. dst[u] # r /\ state'[dst[u]] = "RELEASING"
      BY <3>2, <1>3, Zenon
    <3>4. ~Empty(dst[u]) => Front(dst[u]) \in Thread /\ pc'[Front(dst[u])] = "parked"
      BY <3>2, <1>3, FrontHome, Zenon
    <3> QED BY <3>1, <3>2, <3>3, <3>4, Zenon
  <2>2. \A d \in Client : (Empty(d)' <=> Empty(d)) /\ Front(d)' = Front(d)
    BY <1>3, Zenon
  <2>3. dst' = dst
    BY <1>3, Zenon
  <2>4. ASSUME NEW u \in Thread, HandingBack(u)'
        PROVE  /\ dst[u] \in Client
               /\ state'[dst[u]] = "RELEASING"
               /\ ~Empty(dst[u])' => pc'[Front(dst[u])'] = "parked"
    BY <2>1, <2>2, <2>3, <2>4, <1>3, SMTT(30)
  <2>5. \A u, v \in Thread : HandingBack(u)' /\ HandingBack(v)' /\ dst[u] = dst[v] =>
            u = v
    BY <2>1, <1>3, SMTT(30) DEF Inv, RevokingOK
  <2> QED BY <2>3, <2>4, <2>5, Zenon DEF RevokingOK
<1>14. RevokeOK'
  BY <1>3, Zenon DEF Inv, RevokeOK, RevokeInFlight
<1>15. MessageOK'
  <2>1. \A d \in Client : message'[d] = "REVOKE" => message[d] = "REVOKE"
    BY <1>3, Zenon
  <2>2. \A d \in Client : message'[d] = "REVOKE" /\ owner = d /\ status = "REVOKING" =>
          \/ owner' = d /\ status' = "REVOKING"
          \/ \E u \in Thread : Home[u] = d /\ pc'[u] \in {"retry", "return"}
    BY <1>3, Zenon
  <2>3. \A d \in Client : message'[d] = "REVOKE" /\ state[d] = "LOCKED" =>
          state'[d] = "LOCKED" \/ \E u \in Thread : Home[u] = d /\ pc'[u] = "release"
    BY <1>3, Zenon
  <2>4. \A u \in Thread : message'[Home[u]] = "REVOKE" =>
          /\ ret[u] = "OK" => ret'[u] = "OK" \/ state'[Home[u]] = "LOCKED"
          /\ pc[u] = "release" => pc'[u] \in {"release", "retry", "return"}
          /\ pc[u] \in {"retry", "return"} => pc'[u] \in {"retry", "return"}
    BY <1>3, Zenon
  <2>5. \A u \in Thread :
          pc'[u] \in {"release", "retry", "return"} => message'[Home[u]] = "REVOKE"
    BY <1>3, Zenon DEF Inv, MessageOK
  <2>6. \A d \in Client : message'[d] = "RETRY" => retrying' = d
    BY <1>3, Zenon DEF Inv, MessageOK
  <2> QED BY <2>1, <2>2, <2>3, <2>4, <2>5, <2>6, MessageStable, Zenon
<1>16. WaitingOK'
  <2>1. \A d \in Client : d \in waiting' => message'[d] = message[d]
    BY <1>3, Zenon
  <2>2. \A u \in Thread :
          Home[u] \in waiting' /\ pc[u] \in ToldRetry /\ u \notin signalled =>
            pc'[u] \in ToldRetry /\ ret'[u] = ret[u] /\ u \notin signalled'
    BY <1>3, Zenon DEF ToldRetry
  <2> QED BY <1>3, <2>1, <2>2, WaitingKept, Zenon
<1>17. RetryOK'
  BY <1>3, Zenon DEF Inv, RetryOK, RetryInFlight, ToldRetry
<1>18. KnownOK'
  BY <1>3, Zenon DEF Inv, KnownOK, ToldRetry
<1>19. NotLostOK'
  BY <1>3, Zenon DEF Inv, NotLostOK, RevokeInFlight
<1> QED BY <1>1, <1>2, <1>4, <1>5, <1>6, <1>7, <1>8, <1>9, <1>10, <1>11, <1>12, <1>13,
           <1>14, <1>15, <1>16, <1>17, <1>18, <1>19, Zenon DEF Inv

(* revoke_handler finds the lock in use and leaves a message. *)
LEMMA RevokeBusyStep ==
  ASSUME Inv, NEW t \in Thread, NEW c \in Client, c = Home[t], NEW r \in Client,
      r = dst[t],
         RevokeHandler(t), state[r] # "FREE"
  PROVE  Inv'
<1>1. /\ pc[t] = "revoke" /\ t \notin signalled
      /\ state[c] = "ACQUIRING" /\ state[r] # "FREE"
      /\ owner = r /\ status = "REVOKING" /\ r \notin waiting
  BY Zenon
  DEF RevokeHandler, Goto, Inv, PhaseOK, Phase, InAcquireRPC, RevokeOK, RevokeInFlight,
      ServerOK
<1>2. /\ pc' = [pc EXCEPT ![t] = "reply"]
      /\ message' = [message EXCEPT ![r] = "REVOKE"]
      /\ dst' = [dst EXCEPT ![t] = NoClient]
      /\ UNCHANGED <<status, owner, retrying, waiting, state, threads, signalled,
                     exited, ret, nxt>>
  BY <1>1, Zenon DEF RevokeHandler, CltRevokeFree, CltRevokeBusy, Goto, serverVars
<1>3. /\ pc[t] = "revoke" /\ t \notin signalled
      /\ state[c] = "ACQUIRING" /\ state[r] # "FREE"
      /\ owner = r /\ status = "REVOKING" /\ r \notin waiting
      /\ \A u \in Thread : pc'[u] = IF u = t THEN "reply" ELSE pc[u]
      /\ \A d \in Client : message'[d] = IF d = r THEN "REVOKE" ELSE message[d]
      /\ \A u \in Thread : dst'[u] = IF u = t THEN NoClient ELSE dst[u]
      /\ UNCHANGED <<status, owner, retrying, waiting, state, threads, signalled,
                     exited, ret, nxt>>
      /\ \A u \in Thread : Home[u] \in Client
      /\ \A d \in Client : (Empty(d)' <=> Empty(d)) /\ Front(d)' = Front(d)
      /\ ~Empty(c) /\ t = Front(c)
      /\ \A u \in Thread : u # t /\ Home[u] = c =>
           pc[u] \in {"idle", "queued"} /\ u \notin signalled
  BY <1>1, <1>2, HomeAssumption, SameQueues, OneActive, Zenon
  DEF Inv, TypeOK, ClientTypeOK, Active
<1>4. \A u \in Thread : (RevokeInFlight(u) => u = t) /\ ~RetryInFlight(u)
  BY <1>3, Zenon DEF Inv, RevokeOK, RevokeInFlight, RetryOK
<1>5. \/ state[r] = "LOCKED"
      \/ \E u \in Thread : Home[u] = r /\ (ret[u] = "OK" \/ pc[u] = "release")
  <2>1. ~\E u \in Thread : pc[u] = "rv_release" /\ dst[u] = r
    BY <1>3, <1>4, Zenon DEF RevokeInFlight
  <2> QED BY <2>1, <1>3, Zenon DEF Inv, OwnerOK
<1>6. ~Empty(r)
  <2>1. state[r] = "LOCKED" => ~Empty(r)
    BY Zenon DEF Inv, EmptyOK
  <2>2. ASSUME NEW u \in Thread, Home[u] = r, ret[u] = "OK"
            \/ pc[u] = "release" PROVE ~Empty(r)
    BY <2>2, Zenon DEF Inv, GrantOK, ActiveIsFront, Active
  <2> QED BY <2>1, <2>2, <1>5, Zenon
<1>7. ServerOK'
  BY <1>3, Zenon DEF Inv, ServerOK
<1>8. TypeOK'
  BY <1>1, <1>2, Zenon
  DEF Inv, TypeOK, ServerTypeOK, ClientTypeOK, Label, Reply, State, Message, Status
<1>9. QueueOK'
  BY <1>3, QueueStable, Zenon DEF Inv
<1>10. ActiveIsFront'
  BY <1>3, SMTT(30) DEF Inv, ActiveIsFront, Active
<1>11. EmptyOK'
  BY <1>3, <1>6, SMTT(30) DEF Inv, EmptyOK
<1>12. FrontOK'
  <2>1. \A d \in Client : d # c =>
          (Empty(d)' <=> Empty(d)) /\ Front(d)' = Front(d) /\ state'[d] = state[d]
    BY <1>3, FrontHome, Zenon
  <2>2. \A u \in Thread : Home[u] # c =>
          (pc'[u] = "queued" => pc[u] = "queued") /\ (u \in signalled => u \in signalled')
    BY <1>3, FrontHome, Zenon
  <2>3. ~Empty(c)' /\ pc'[Front(c)'] = "queued" =>
          Front(c)' \in signalled' /\ state'[c] \in {"LOCKED", "NONE"}
    BY <1>3, FrontHome, Zenon
  <2> QED BY <2>1, <2>2, <2>3, FrontStable, Zenon
<1>13. PhaseOK'
  <2> SUFFICES ASSUME NEW u \in Thread PROVE Phase(u)'
    BY Zenon DEF PhaseOK
  <2>1. CASE u = t
    BY <2>1, <1>3, Zenon DEF Phase, InAcquireRPC
  <2>2. CASE u # t /\ Home[u] = c
    <3>1. pc'[u] \in {"idle", "queued"} /\ u \notin signalled'
      BY <2>2, <1>3, Zenon
    <3> QED BY <3>1, Zenon DEF Phase, InAcquireRPC
  <2>3. CASE u # t /\ Home[u] # c
    <3>1. pc'[u] = pc[u] /\ (u \in signalled' <=> u \in signalled)
              /\ state'[Home[u]] = state[Home[u]]
      BY <2>3, <1>3, Zenon
    <3> QED BY <3>1, Zenon DEF Inv, PhaseOK, Phase
  <2> QED BY <2>1, <2>2, <2>3, Zenon
<1>14. GrantOK'
  <2>1. \A d \in Client : state'[d] \in {"FREE", "LOCKED"} =>
                              state[d] \in {"FREE", "LOCKED"}
    BY <1>3, Zenon
  <2>2. \A u \in Thread : ret'[u] = "OK" =>
                              ret[u] = "OK" /\ pc'[u] \in {"revoke", "reply"}
    BY <1>3, Zenon DEF Inv, GrantOK
  <2>3. \A u \in Thread : pc'[u] = "release" => pc[u] = "release"
    BY <1>3, Zenon
  <2> QED BY <1>3, <2>1, <2>2, <2>3, GrantStable, Zenon
<1>15. OwnerOK'
  <2>1. \A d \in Client : state[d] \in {"FREE", "LOCKED"} =>
                              state'[d] \in {"FREE", "LOCKED"}
    BY <1>3, Zenon
  <2>2. \A u \in Thread : /\ ret[u] = "OK" => ret'[u] = "OK"
                          /\ pc[u] = "release" => pc'[u] = "release"
                          /\ pc[u] = "rv_release" =>
                               pc'[u] = "rv_release" /\ dst'[u] = dst[u]
    BY <1>3, Zenon
  <2> QED BY <1>3, <2>1, <2>2, OwnerStable, Zenon
<1>16. RevokingOK'
  <2>1. \A u \in Thread : HandingBack(u)' =>
          HandingBack(u) /\ dst[u] # c /\ dst'[u] = dst[u]
    BY <1>3, Zenon DEF Inv, RevokingOK, HandingBack
  <2>2. \A d \in Client : d # c =>
          (Empty(d)' <=> Empty(d)) /\ Front(d)' = Front(d) /\ state'[d] = state[d]
    BY <1>3, Zenon
  <2>3. \A u \in Thread : pc[u] = "parked" /\ Home[u] # c => pc'[u] = "parked"
    BY <1>3, Zenon
  <2> QED BY <2>1, <2>2, <2>3, RevokingStable, Zenon
<1>17. RevokeOK'
  BY <1>3, <1>4, Zenon DEF Inv, RevokeOK, RevokeInFlight
<1>18. MessageOK'
  <2>1. ~\E u \in Thread : Home[u] = r /\ pc[u] \in {"release", "retry",
            "return"} /\ message[r] # "REVOKE"
    BY SMTT(30) DEF Inv, MessageOK
  <2>2. \/ state'[r] = "LOCKED"
        \/ \E u \in Thread : Home[u] = r /\ (ret'[u] = "OK" \/ pc'[u] = "release")
    BY <1>3, <1>5, SMTT(30)
  <2>3. \A d \in Client : d # r /\ message'[d] = "REVOKE" =>
          \E u \in Thread : Home[u] = d /\ pc'[u] \in {"retry", "return"}
    BY <1>3, SMTT(30) DEF Inv, MessageOK
  <2>4. \A u \in Thread : pc'[u] \in {"release", "retry", "return"} =>
            message'[Home[u]] = "REVOKE"
    BY <1>3, SMTT(30) DEF Inv, MessageOK
  <2>5. \A d \in Client : message'[d] = "RETRY" => retrying' = d
    BY <1>3, SMTT(30) DEF Inv, MessageOK
  <2>6. owner' = r /\ status' = "REVOKING"
    BY <1>3, Zenon
  <2> QED BY <2>2, <2>3, <2>4, <2>5, <2>6, Zenon DEF MessageOK
<1>19. WaitingOK'
  <2>1. \A u \in Thread : pc[u] \in ToldRetry => pc'[u] \in ToldRetry
    BY <1>3, Zenon DEF ToldRetry
  <2>2. \A d \in Client : d # r => message'[d] = message[d]
    BY <1>3, Zenon
  <2> QED BY <2>1, <2>2, <1>3, WaitingStable, Zenon
<1>20. RetryOK'
  BY <1>3, Zenon DEF Inv, RetryOK, RetryInFlight, ToldRetry
<1>21. KnownOK'
  BY <1>3, SMTT(30) DEF Inv, KnownOK, ToldRetry
<1>22. NotLostOK'
  BY <1>3, Zenon DEF Inv, NotLostOK, RevokeInFlight
<1> QED BY <1>1, <1>2, <1>7, <1>8, <1>9, <1>10, <1>11, <1>12, <1>13, <1>14, <1>15,
           <1>16, <1>17, <1>18, <1>19, <1>20, <1>21, <1>22, Zenon DEF Inv

(* revoke_handler goes on after its RPC and nobody is queued. *)
LEMMA RevokeReturnEmptyStep ==
  ASSUME Inv, NEW t \in Thread, NEW c \in Client, c = Home[t], NEW r \in Client,
      r = dst[t],
         RevokeReturn(t), Empty(r)
  PROVE  Inv'
<1>1. /\ pc[t] = "rv_return" /\ t \notin signalled /\ ret[t] = "RETRY"
      /\ state[c] = "ACQUIRING" /\ state[r] = "RELEASING" /\ r # c
  BY Zenon
  DEF RevokeReturn, Goto, Inv, PhaseOK, Phase, InAcquireRPC, RevokingOK, HandingBack,
      GrantOK, TypeOK, Reply
<1>2. /\ pc' = [pc EXCEPT ![t] = "reply"]
      /\ state' = [state EXCEPT ![r] = "NONE"]
      /\ dst' = [dst EXCEPT ![t] = NoClient]
      /\ UNCHANGED <<status, owner, retrying, waiting, message, threads, signalled,
                     exited, ret, nxt>>
  BY <1>1, Zenon
  DEF RevokeReturn, CltRevokeReturn, SignalFront, Asleep, Empty, Front, Goto,
      serverVars
<1>3. /\ pc[t] = "rv_return" /\ t \notin signalled /\ ret[t] = "RETRY"
      /\ state[c] = "ACQUIRING" /\ state[r] = "RELEASING" /\ r # c
      /\ \A u \in Thread : pc'[u] = IF u = t THEN "reply" ELSE pc[u]
      /\ \A d \in Client : state'[d] = IF d = r THEN "NONE" ELSE state[d]
      /\ \A u \in Thread : dst'[u] = IF u = t THEN NoClient ELSE dst[u]
      /\ UNCHANGED <<status, owner, retrying, waiting, message, threads, signalled,
                     exited, ret, nxt>>
      /\ \A u \in Thread : Home[u] \in Client
      /\ \A d \in Client : (Empty(d)' <=> Empty(d)) /\ Front(d)' = Front(d)
      /\ ~Empty(c) /\ t = Front(c)
      /\ \A u \in Thread : u # t /\ Home[u] = c =>
           pc[u] \in {"idle", "queued"} /\ u \notin signalled
      /\ Empty(r)
      /\ \A u \in Thread : Home[u] = r =>
           pc[u] \in {"idle", "queued"} /\ u \notin signalled
  BY <1>1, <1>2, HomeAssumption, SameQueues, OneActive, NoneActive, Zenon
  DEF Inv, TypeOK, ClientTypeOK, Active
<1>4. \A u \in Thread : Home[u] = r => pc[u] \notin ToldRetry \cup {"acquire"}
  BY <1>3, Zenon DEF ToldRetry
<1>5. r \notin waiting /\ (status = "RETRYING" => retrying # r)
  BY <1>4, SMTT(30) DEF Inv, WaitingOK, RetryOK
<1>6. ServerOK'
  BY <1>3, Zenon DEF Inv, ServerOK
<1>7. TypeOK'
  BY <1>1, <1>2, Zenon
  DEF Inv, TypeOK, ServerTypeOK, ClientTypeOK, Label, Reply, State, Message, Status
<1>8. QueueOK'
  BY <1>3, QueueStable, Zenon DEF Inv
<1>9. ActiveIsFront'
  BY <1>3, Zenon DEF Inv, ActiveIsFront, Active
<1>10. EmptyOK'
  BY <1>3, Zenon DEF Inv, EmptyOK
<1>11. FrontOK'
  <2>1. \A d \in Client : d # r =>
          (Empty(d)' <=> Empty(d)) /\ Front(d)' = Front(d) /\ state'[d] = state[d]
    BY <1>3, FrontHome, Zenon
  <2>2. \A u \in Thread : Home[u] # r =>
          (pc'[u] = "queued" => pc[u] = "queued") /\ (u \in signalled => u \in signalled')
    BY <1>3, FrontHome, Zenon
  <2>3. ~Empty(r)' /\ pc'[Front(r)'] = "queued" =>
          Front(r)' \in signalled' /\ state'[r] \in {"LOCKED", "NONE"}
    BY <1>3, FrontHome, Zenon
  <2> QED BY <2>1, <2>2, <2>3, FrontStable, Zenon
<1>12. PhaseOK'
  <2> SUFFICES ASSUME NEW u \in Thread PROVE Phase(u)'
    BY Zenon DEF PhaseOK
  <2>1. CASE u = t
    BY <2>1, <1>3, Zenon DEF Phase, InAcquireRPC
  <2>2. CASE u # t /\ Home[u] = r
    BY <2>2, <1>3, Zenon DEF Phase, InAcquireRPC
  <2>3. CASE u # t /\ Home[u] # r
    <3>1. pc'[u] = pc[u] /\ (u \in signalled' <=> u \in signalled)
              /\ state'[Home[u]] = state[Home[u]]
      BY <2>3, <1>3, Zenon
    <3> QED BY <3>1, Zenon DEF Inv, PhaseOK, Phase
  <2> QED BY <2>1, <2>2, <2>3, Zenon
<1>13. GrantOK'
  <2>1. \A d \in Client : state'[d] \in {"FREE", "LOCKED"} =>
                              state[d] \in {"FREE", "LOCKED"}
    BY <1>3, Zenon
  <2>2. \A u \in Thread : ret'[u] = "OK" =>
                              ret[u] = "OK" /\ pc'[u] \in {"revoke", "reply"}
    BY <1>3, Zenon DEF Inv, GrantOK
  <2>3. \A u \in Thread : pc'[u] = "release" => pc[u] = "release"
    BY <1>3, Zenon
  <2> QED BY <1>3, <2>1, <2>2, <2>3, GrantStable, Zenon
<1>14. OwnerOK'
  <2>1. \A d \in Client : state[d] \in {"FREE", "LOCKED"} =>
                              state'[d] \in {"FREE", "LOCKED"}
    BY <1>3, Zenon
  <2>2. \A u \in Thread : /\ ret[u] = "OK" => ret'[u] = "OK"
                          /\ pc[u] = "release" => pc'[u] = "release"
                          /\ pc[u] = "rv_release" =>
                               pc'[u] = "rv_release" /\ dst'[u] = dst[u]
    BY <1>3, Zenon
  <2> QED BY <1>3, <2>1, <2>2, OwnerStable, Zenon
<1>15. RevokingOK'
  <2>1. \A u \in Thread : HandingBack(u)' =>
          HandingBack(u) /\ dst[u] # r /\ dst'[u] = dst[u]
    BY <1>3, Zenon DEF Inv, RevokingOK, HandingBack
  <2>2. \A d \in Client : d # r =>
          (Empty(d)' <=> Empty(d)) /\ Front(d)' = Front(d) /\ state'[d] = state[d]
    BY <1>3, Zenon
  <2>3. \A u \in Thread : pc[u] = "parked" /\ Home[u] # r => pc'[u] = "parked"
    BY <1>3, Zenon
  <2> QED BY <2>1, <2>2, <2>3, RevokingStable, Zenon
<1>16. RevokeOK'
  <2>1. \A u \in Thread : RevokeInFlight(u)' =>
          RevokeInFlight(u) /\ pc'[u] = pc[u] /\ dst'[u] = dst[u]
    BY <1>3, Zenon DEF RevokeInFlight
  <2> QED BY <1>3, <2>1, RevokeStable, Zenon
<1>17. MessageOK'
  <2>1. \A d \in Client : message'[d] = "REVOKE" => message[d] = "REVOKE"
    BY <1>3, Zenon
  <2>2. \A d \in Client : message'[d] = "REVOKE" /\ owner = d /\ status = "REVOKING" =>
          \/ owner' = d /\ status' = "REVOKING"
          \/ \E u \in Thread : Home[u] = d /\ pc'[u] \in {"retry", "return"}
    BY <1>3, Zenon
  <2>3. \A d \in Client : message'[d] = "REVOKE" /\ state[d] = "LOCKED" =>
          state'[d] = "LOCKED" \/ \E u \in Thread : Home[u] = d /\ pc'[u] = "release"
    BY <1>3, Zenon
  <2>4. \A u \in Thread : message'[Home[u]] = "REVOKE" =>
          /\ ret[u] = "OK" => ret'[u] = "OK" \/ state'[Home[u]] = "LOCKED"
          /\ pc[u] = "release" => pc'[u] \in {"release", "retry", "return"}
          /\ pc[u] \in {"retry", "return"} => pc'[u] \in {"retry", "return"}
    BY <1>3, Zenon
  <2>5. \A u \in Thread :
          pc'[u] \in {"release", "retry", "return"} => message'[Home[u]] = "REVOKE"
    BY <1>3, Zenon DEF Inv, MessageOK
  <2>6. \A d \in Client : message'[d] = "RETRY" => retrying' = d
    BY <1>3, Zenon DEF Inv, MessageOK
  <2> QED BY <2>1, <2>2, <2>3, <2>4, <2>5, <2>6, MessageStable, Zenon
<1>18. WaitingOK'
  <2>1. \A u \in Thread : Home[u] # r =>
          /\ pc[u] \in ToldRetry => pc'[u] \in ToldRetry
          /\ pc[u] = "acquire" => pc'[u] = "acquire"
          /\ pc'[u] = "waiting" => pc[u] = "waiting"
          /\ ret'[u] = ret[u]
          /\ u \in signalled' <=> u \in signalled
    BY <1>3, Zenon DEF ToldRetry
  <2> QED BY <2>1, <1>3, <1>5, WaitingStable, Zenon
<1>19. RetryOK'
  <2>1. \A u \in Thread : Home[u] # r =>
          /\ pc[u] \in ToldRetry => pc'[u] \in ToldRetry
          /\ pc[u] = "acquire" => pc'[u] = "acquire"
          /\ pc'[u] = "waiting" => pc[u] = "waiting"
          /\ ret'[u] = ret[u]
          /\ u \in signalled' <=> u \in signalled
    BY <1>3, Zenon DEF ToldRetry
  <2>2. \A u \in Thread : RetryInFlight(u)' <=> RetryInFlight(u)
    BY <1>3, Zenon DEF RetryInFlight
  <2> QED BY <2>1, <2>2, <1>3, RetryStable, SMTT(30)
<1>20. KnownOK'
  BY <1>3, Zenon DEF Inv, KnownOK, ToldRetry
<1>21. NotLostOK'
  BY <1>3, Zenon DEF Inv, NotLostOK, RevokeInFlight
<1> QED BY <1>1, <1>2, <1>6, <1>7, <1>8, <1>9, <1>10, <1>11, <1>12, <1>13, <1>14, <1>15,
           <1>16, <1>17, <1>18, <1>19, <1>20, <1>21, Zenon DEF Inv

(* revoke_handler goes on after its RPC and wakes the parked thread. *)
LEMMA RevokeReturnParkedStep ==
  ASSUME Inv, NEW t \in Thread, NEW c \in Client, c = Home[t], NEW r \in Client,
      r = dst[t],
         RevokeReturn(t), ~Empty(r), NEW f, f = Front(r)
  PROVE  Inv'
<1>1. /\ pc[t] = "rv_return" /\ t \notin signalled /\ ret[t] = "RETRY"
      /\ state[c] = "ACQUIRING" /\ state[r] = "RELEASING" /\ r # c
      /\ ~Empty(r) /\ f = Front(r) /\ f \in Thread /\ Home[f] = r
      /\ pc[f] = "parked" /\ f \notin signalled
  BY FrontHome, SMTT(30)
  DEF RevokeReturn, Goto, Inv, PhaseOK, Phase, InAcquireRPC, RevokingOK, HandingBack,
      GrantOK, TypeOK, Reply
<1>2. /\ pc' = [pc EXCEPT ![t] = "reply"]
      /\ state' = [state EXCEPT ![r] = "NONE"]
      /\ dst' = [dst EXCEPT ![t] = NoClient]
      /\ signalled' = signalled \cup {f}
      /\ UNCHANGED <<status, owner, retrying, waiting, message, threads, exited, ret,
                     nxt>>
  BY <1>1, Zenon
  DEF RevokeReturn, CltRevokeReturn, SignalFront, Asleep, Empty, Front, Goto,
      serverVars
<1>3. /\ pc[t] = "rv_return" /\ t \notin signalled /\ ret[t] = "RETRY"
      /\ state[c] = "ACQUIRING" /\ state[r] = "RELEASING" /\ r # c
      /\ ~Empty(r) /\ f = Front(r) /\ f \in Thread /\ Home[f] = r
      /\ pc[f] = "parked" /\ f \notin signalled
      /\ \A u \in Thread : pc'[u] = IF u = t THEN "reply" ELSE pc[u]
      /\ \A d \in Client : state'[d] = IF d = r THEN "NONE" ELSE state[d]
      /\ \A u \in Thread : dst'[u] = IF u = t THEN NoClient ELSE dst[u]
      /\ signalled' = signalled \cup {f}
      /\ UNCHANGED <<status, owner, retrying, waiting, message, threads, exited, ret,
                     nxt>>
      /\ \A u \in Thread : Home[u] \in Client
      /\ \A d \in Client : (Empty(d)' <=> Empty(d)) /\ Front(d)' = Front(d)
      /\ ~Empty(c) /\ t = Front(c)
      /\ \A u \in Thread : u # t /\ Home[u] = c =>
           pc[u] \in {"idle", "queued"} /\ u \notin signalled
      /\ \A u \in Thread : u # f /\ Home[u] = r =>
           pc[u] \in {"idle", "queued"} /\ u \notin signalled
  BY <1>1, <1>2, HomeAssumption, SameQueues, OneActive, Zenon
  DEF Inv, TypeOK, ClientTypeOK, Active
<1>4. \A u \in Thread : u \in signalled' <=> u \in signalled \/ u = f
  BY <1>3, Zenon
<1>5. \A u \in Thread : Home[u] = r => pc[u] \notin ToldRetry \cup {"acquire"}
  BY <1>3, Zenon DEF ToldRetry
<1>6. r \notin waiting /\ (status = "RETRYING" => retrying # r)
  BY <1>5, SMTT(30) DEF Inv, WaitingOK, RetryOK
<1>7. ServerOK'
  BY <1>3, Zenon DEF Inv, ServerOK
<1>8. TypeOK'
  BY <1>1, <1>2, Zenon
  DEF Inv, TypeOK, ServerTypeOK, ClientTypeOK, Label, Reply, State, Message, Status
<1>9. QueueOK'
  BY <1>3, QueueStable, Zenon DEF Inv
<1>10. ActiveIsFront'
  BY <1>3, Zenon DEF Inv, ActiveIsFront, Active
<1>11. EmptyOK'
  BY <1>3, Zenon DEF Inv, EmptyOK
<1>12. FrontOK'
  <2>1. \A d \in Client : d # r =>
          (Empty(d)' <=> Empty(d)) /\ Front(d)' = Front(d) /\ state'[d] = state[d]
    BY <1>3, FrontHome, Zenon
  <2>2. \A u \in Thread : Home[u] # r =>
          (pc'[u] = "queued" => pc[u] = "queued") /\ (u \in signalled => u \in signalled')
    BY <1>3, FrontHome, Zenon
  <2>3. ~Empty(r)' /\ pc'[Front(r)'] = "queued" =>
          Front(r)' \in signalled' /\ state'[r] \in {"LOCKED", "NONE"}
    BY <1>3, FrontHome, Zenon
  <2> QED BY <2>1, <2>2, <2>3, FrontStable, Zenon
<1>13. PhaseOK'
  <2> SUFFICES ASSUME NEW u \in Thread PROVE Phase(u)'
    BY Zenon DEF PhaseOK
  <2>1. CASE u = t
    BY <2>1, <1>3, Zenon DEF Phase, InAcquireRPC
  <2>2. CASE u # t /\ Home[u] = r
    BY <1>3, <2>2, Zenon DEF Phase, InAcquireRPC
  <2>3. CASE u # t /\ Home[u] # r
    <3>1. pc'[u] = pc[u] /\ (u \in signalled' <=> u \in signalled)
              /\ state'[Home[u]] = state[Home[u]]
      BY <1>3, <2>3, Zenon
    <3> QED BY <3>1, Zenon DEF Inv, PhaseOK, Phase
  <2> QED BY <2>1, <2>2, <2>3, Zenon
<1>14. GrantOK'
  <2>1. \A d \in Client : state'[d] \in {"FREE", "LOCKED"} =>
                              state[d] \in {"FREE", "LOCKED"}
    BY <1>3, Zenon
  <2>2. \A u \in Thread : ret'[u] = "OK" =>
                              ret[u] = "OK" /\ pc'[u] \in {"revoke", "reply"}
    BY <1>3, Zenon DEF Inv, GrantOK
  <2>3. \A u \in Thread : pc'[u] = "release" => pc[u] = "release"
    BY <1>3, Zenon
  <2> QED BY <1>3, <2>1, <2>2, <2>3, GrantStable, Zenon
<1>15. OwnerOK'
  <2>1. \A d \in Client : state[d] \in {"FREE", "LOCKED"} =>
                              state'[d] \in {"FREE", "LOCKED"}
    BY <1>3, Zenon
  <2>2. \A u \in Thread : /\ ret[u] = "OK" => ret'[u] = "OK"
                          /\ pc[u] = "release" => pc'[u] = "release"
                          /\ pc[u] = "rv_release" =>
                               pc'[u] = "rv_release" /\ dst'[u] = dst[u]
    BY <1>3, Zenon
  <2> QED BY <1>3, <2>1, <2>2, OwnerStable, Zenon
<1>16. RevokingOK'
  <2>1. \A u \in Thread : HandingBack(u)' =>
          HandingBack(u) /\ dst[u] # r /\ dst'[u] = dst[u]
    BY <1>3, SMTT(30) DEF Inv, RevokingOK, HandingBack
  <2>2. \A d \in Client : d # r =>
          (Empty(d)' <=> Empty(d)) /\ Front(d)' = Front(d) /\ state'[d] = state[d]
    BY <1>3, Zenon
  <2>3. \A u \in Thread : pc[u] = "parked" /\ Home[u] # r => pc'[u] = "parked"
    BY <1>3, Zenon
  <2> QED BY <2>1, <2>2, <2>3, RevokingStable, Zenon
<1>17. RevokeOK'
  <2>1. \A u \in Thread : RevokeInFlight(u)' =>
          RevokeInFlight(u) /\ pc'[u] = pc[u] /\ dst'[u] = dst[u]
    BY <1>3, Zenon DEF RevokeInFlight
  <2> QED BY <1>3, <2>1, RevokeStable, Zenon
<1>18. MessageOK'
  <2>1. \A d \in Client : message'[d] = "REVOKE" => message[d] = "REVOKE"
    BY <1>3, Zenon
  <2>2. \A d \in Client : message'[d] = "REVOKE" /\ owner = d /\ status = "REVOKING" =>
          \/ owner' = d /\ status' = "REVOKING"
          \/ \E u \in Thread : Home[u] = d /\ pc'[u] \in {"retry", "return"}
    BY <1>3, Zenon
  <2>3. \A d \in Client : message'[d] = "REVOKE" /\ state[d] = "LOCKED" =>
          state'[d] = "LOCKED" \/ \E u \in Thread : Home[u] = d /\ pc'[u] = "release"
    BY <1>3, Zenon
  <2>4. \A u \in Thread : message'[Home[u]] = "REVOKE" =>
          /\ ret[u] = "OK" => ret'[u] = "OK" \/ state'[Home[u]] = "LOCKED"
          /\ pc[u] = "release" => pc'[u] \in {"release", "retry", "return"}
          /\ pc[u] \in {"retry", "return"} => pc'[u] \in {"retry", "return"}
    BY <1>3, Zenon
  <2>5. \A u \in Thread :
          pc'[u] \in {"release", "retry", "return"} => message'[Home[u]] = "REVOKE"
    BY <1>3, Zenon DEF Inv, MessageOK
  <2>6. \A d \in Client : message'[d] = "RETRY" => retrying' = d
    BY <1>3, Zenon DEF Inv, MessageOK
  <2> QED BY <2>1, <2>2, <2>3, <2>4, <2>5, <2>6, MessageStable, Zenon
<1>19. WaitingOK'
  <2>1. \A u \in Thread : Home[u] # r =>
          /\ pc[u] \in ToldRetry => pc'[u] \in ToldRetry
          /\ pc[u] = "acquire" => pc'[u] = "acquire"
          /\ pc'[u] = "waiting" => pc[u] = "waiting"
          /\ ret'[u] = ret[u]
          /\ u \in signalled' <=> u \in signalled
    BY <1>3, Zenon DEF ToldRetry
  <2> QED BY <2>1, <1>3, <1>6, WaitingStable, Zenon
<1>20. RetryOK'
  <2>1. \A u \in Thread : Home[u] # r =>
          /\ pc[u] \in ToldRetry => pc'[u] \in ToldRetry
          /\ pc[u] = "acquire" => pc'[u] = "acquire"
          /\ pc'[u] = "waiting" => pc[u] = "waiting"
          /\ ret'[u] = ret[u]
          /\ u \in signalled' <=> u \in signalled
    BY <1>3, Zenon DEF ToldRetry
  <2>2. \A u \in Thread : RetryInFlight(u)' <=> RetryInFlight(u)
    BY <1>3, Zenon DEF RetryInFlight
  <2> QED BY <2>1, <2>2, <1>3, <1>6, RetryStable, Zenon
<1>21. KnownOK'
  BY <1>3, <1>6, Zenon DEF Inv, KnownOK, ToldRetry
<1>22. NotLostOK'
  BY <1>3, Zenon DEF Inv, NotLostOK, RevokeInFlight
<1> QED BY <1>1, <1>2, <1>7, <1>8, <1>9, <1>10, <1>11, <1>12, <1>13, <1>14, <1>15,
           <1>16, <1>17, <1>18, <1>19, <1>20, <1>21, <1>22, Zenon DEF Inv

(* retry_handler runs inside the release RPC of release. *)
LEMMA RetryHandlerStep ==
  ASSUME Inv, NEW t \in Thread, NEW c \in Client, c = Home[t],
         RetryHandler(t), pc[t] = "retry", NEW n, n = nxt[t], NEW w, w = Front(n)
  PROVE  Inv'
<1>1. /\ pc[t] = "retry" /\ t \notin signalled /\ ret[t] = "RETRY" /\ RetryInFlight(t)
      /\ n \in Client /\ n = retrying /\ status = "RETRYING" /\ message[n] = "EMPTY"
      /\ \A u \in Thread : RetryInFlight(u) => u = t
      /\ ~Empty(n) /\ w = Front(n)
      /\ w \in Thread /\ Home[w] = n /\ pc[w] \in ToldRetry
      /\ ret[w] = "RETRY" /\ w \notin signalled
      /\ \A u \in Thread : u # w /\ Home[u] = n =>
           pc[u] \in {"idle", "queued"} /\ u \notin signalled
      /\ state[c] = "RELEASING"
  BY RetryFacts, SMTT(30)
  DEF Inv, PhaseOK, Phase, InAcquireRPC, GrantOK, TypeOK, Reply, RetryInFlight
<1>2. /\ pc' = [pc EXCEPT ![t] = "return"]
      /\ message' = [message EXCEPT ![n] = "RETRY"]
      /\ nxt' = [nxt EXCEPT ![t] = NoClient]
      /\ signalled' = IF pc[w] = "waiting" THEN signalled \cup {w} ELSE signalled
      /\ UNCHANGED <<status, owner, retrying, waiting, state, threads, exited, ret,
                     dst>>
  BY <1>1, Zenon
  DEF RetryHandler, CltRetry, SignalFront, Asleep, ToldRetry, Empty, Front, Goto,
      serverVars
<1>3. /\ pc[t] = "retry" /\ t \notin signalled /\ ret[t] = "RETRY" /\ RetryInFlight(t)
      /\ n \in Client /\ n = retrying /\ status = "RETRYING" /\ message[n] = "EMPTY"
      /\ \A u \in Thread : RetryInFlight(u) => u = t
      /\ ~Empty(n) /\ w = Front(n)
      /\ w \in Thread /\ Home[w] = n /\ pc[w] \in ToldRetry
      /\ ret[w] = "RETRY" /\ w \notin signalled
      /\ \A u \in Thread : u # w /\ Home[u] = n =>
           pc[u] \in {"idle", "queued"} /\ u \notin signalled
      /\ state[c] = "RELEASING"
      /\ \A u \in Thread : pc'[u] = IF u = t THEN "return" ELSE pc[u]
      /\ \A d \in Client : message'[d] = IF d = n THEN "RETRY" ELSE message[d]
      /\ \A u \in Thread : nxt'[u] = IF u = t THEN NoClient ELSE nxt[u]
      /\ signalled' = IF pc[w] = "waiting" THEN signalled \cup {w} ELSE signalled
      /\ UNCHANGED <<status, owner, retrying, waiting, state, threads, exited, ret,
                     dst>>
      /\ \A u \in Thread : Home[u] \in Client
      /\ \A d \in Client : (Empty(d)' <=> Empty(d)) /\ Front(d)' = Front(d)
      /\ ~Empty(c) /\ t = Front(c)
      /\ \A u \in Thread : u # t /\ Home[u] = c =>
           pc[u] \in {"idle", "queued"} /\ u \notin signalled
  BY <1>1, <1>2, HomeAssumption, SameQueues, OneActive, Zenon
  DEF Inv, TypeOK, ClientTypeOK, Active
<1>4. \A u \in Thread : u \in signalled' <=> u \in signalled \/ (u = w /\ pc[w] = "waiting")
  BY <1>3, Zenon
<1>5. pc[w] \notin {"idle", "queued", "parked", "retry"}
  BY <1>3, Zenon DEF ToldRetry
<1>6. \A u \in Thread : ~RetryInFlight(u)' /\ ~RevokeInFlight(u)
  <2>1. \A u \in Thread : ~RevokeInFlight(u)
    BY <1>3, Zenon DEF Inv, RevokeOK
  <2>2. \A u \in Thread : pc[u] \in {"retry", "rv_retry"} => u = t
    BY <1>3, Zenon DEF RetryInFlight
  <2> QED BY <2>1, <2>2, <1>3, Zenon DEF RetryInFlight
<1>7. \A u \in Thread : pc[u] \in {"release", "retry", "return"} => Home[u] # n
  BY <1>3, Zenon DEF Inv, MessageOK
<1>8. n \notin waiting
  BY <1>3, Zenon DEF Inv, ServerOK
<1>9. ServerOK'
  BY <1>3, Zenon DEF Inv, ServerOK
<1>10. TypeOK'
  BY <1>1, <1>2, Zenon
  DEF Inv, TypeOK, ServerTypeOK, ClientTypeOK, Label, Reply, State, Message, Status
<1>11. QueueOK'
  BY <1>3, QueueStable, Zenon DEF Inv
<1>12. ActiveIsFront'
  <2>1. \A u \in Thread : Active(u)' => Active(u)
    BY <1>3, Zenon DEF Active
  <2> QED BY <1>3, <2>1, ActiveStable, Zenon
<1>13. EmptyOK'
  <2>1. \A d \in Client : Empty(d)' => Empty(d) /\ d # n
    BY <1>3, Zenon
  <2>2. \A d \in Client : d # n => message'[d] = message[d] /\ state'[d] = state[d]
    BY <1>3, Zenon
  <2> QED BY <2>1, <2>2, Zenon DEF Inv, EmptyOK
<1>14. FrontOK'
  <2>1. \A d \in Client : d # c =>
          (Empty(d)' <=> Empty(d)) /\ Front(d)' = Front(d) /\ state'[d] = state[d]
    BY <1>3, FrontHome, Zenon
  <2>2. \A u \in Thread : Home[u] # c =>
          (pc'[u] = "queued" => pc[u] = "queued") /\ (u \in signalled => u \in signalled')
    BY <1>3, FrontHome, Zenon
  <2>3. ~Empty(c)' /\ pc'[Front(c)'] = "queued" =>
          Front(c)' \in signalled' /\ state'[c] \in {"LOCKED", "NONE"}
    BY <1>3, FrontHome, Zenon
  <2> QED BY <2>1, <2>2, <2>3, FrontStable, Zenon
<1>15. PhaseOK'
  <2> SUFFICES ASSUME NEW u \in Thread PROVE Phase(u)'
    BY Zenon DEF PhaseOK
  <2>1. CASE u = t
    BY <1>3, <2>1, Zenon DEF Phase, InAcquireRPC
  <2>2. CASE u # t
    <3>1. pc'[u] = pc[u] /\ state'[Home[u]] = state[Home[u]]
      BY <2>2, <1>3, Zenon
    <3>2. (u \in signalled' <=> u \in signalled) \/ pc[u] = "waiting"
      BY <1>4, Zenon
    <3> QED BY <3>1, <3>2, Zenon DEF Inv, PhaseOK, Phase, InAcquireRPC
  <2> QED BY <2>1, <2>2, Zenon
<1>16. GrantOK'
  <2>1. \A d \in Client : state'[d] \in {"FREE", "LOCKED"} =>
                              state[d] \in {"FREE", "LOCKED"}
    BY <1>3, Zenon
  <2>2. \A u \in Thread : ret'[u] = "OK" =>
                              ret[u] = "OK" /\ pc'[u] \in {"revoke", "reply"}
    BY <1>3, Zenon DEF Inv, GrantOK
  <2>3. \A u \in Thread : pc'[u] = "release" => pc[u] = "release"
    BY <1>3, Zenon
  <2> QED BY <1>3, <2>1, <2>2, <2>3, GrantStable, Zenon
<1>17. OwnerOK'
  <2>1. \A d \in Client : state[d] \in {"FREE", "LOCKED"} =>
                              state'[d] \in {"FREE", "LOCKED"}
    BY <1>3, Zenon
  <2>2. \A u \in Thread : /\ ret[u] = "OK" => ret'[u] = "OK"
                          /\ pc[u] = "release" => pc'[u] = "release"
                          /\ pc[u] = "rv_release" =>
                               pc'[u] = "rv_release" /\ dst'[u] = dst[u]
    BY <1>3, Zenon
  <2> QED BY <1>3, <2>1, <2>2, OwnerStable, Zenon
<1>18. RevokingOK'
  <2>0. \A u \in Thread : HandingBack(u)' => HandingBack(u)
    BY <1>3, Zenon DEF HandingBack
  <2>q. \A u \in Thread : HandingBack(u) => dst[u] # NoClient
    BY ClientAssumption, Zenon DEF Inv, RevokingOK
  <2>1. \A u \in Thread : HandingBack(u)' =>
          HandingBack(u) /\ dst[u] # NoClient /\ dst'[u] = dst[u]
    BY <2>0, <2>q, <1>3, Zenon
  <2>2. \A d \in Client : d # NoClient =>
          (Empty(d)' <=> Empty(d)) /\ Front(d)' = Front(d) /\ state'[d] = state[d]
    BY <1>3, Zenon
  <2>3. \A u \in Thread : pc[u] = "parked" /\ Home[u] # NoClient => pc'[u] = "parked"
    BY <1>3, Zenon
  <2> QED BY <2>1, <2>2, <2>3, RevokingStable, Zenon
<1>19. RevokeOK'
  BY <1>3, Zenon DEF Inv, RevokeOK, RevokeInFlight
<1>20. MessageOK'
  <2>1. \A d \in Client : message'[d] = "REVOKE" => message[d] = "REVOKE"
    BY <1>3, Zenon
  <2>2. \A d \in Client : message'[d] = "REVOKE" /\ owner = d /\ status = "REVOKING" =>
          \/ owner' = d /\ status' = "REVOKING"
          \/ \E u \in Thread : Home[u] = d /\ pc'[u] \in {"retry", "return"}
    BY <1>3, Zenon
  <2>3. \A d \in Client : message'[d] = "REVOKE" /\ state[d] = "LOCKED" =>
          state'[d] = "LOCKED" \/ \E u \in Thread : Home[u] = d /\ pc'[u] = "release"
    BY <1>3, Zenon
  <2>4. \A u \in Thread : message'[Home[u]] = "REVOKE" =>
          /\ ret[u] = "OK" => ret'[u] = "OK" \/ state'[Home[u]] = "LOCKED"
          /\ pc[u] = "release" => pc'[u] \in {"release", "retry", "return"}
          /\ pc[u] \in {"retry", "return"} => pc'[u] \in {"retry", "return"}
    BY <1>3, Zenon
  <2>5. ASSUME NEW u \in Thread, pc'[u] \in {"release", "retry", "return"}
        PROVE  message'[Home[u]] = "REVOKE"
    <3>1. pc[u] \in {"release", "retry", "return"} /\ Home[u] \in Client
      BY <2>5, <1>3, Zenon
    <3>2. message'[Home[u]] = message[Home[u]]
      BY <3>1, <1>3, <1>7, Zenon
    <3> QED BY <3>1, <3>2, MessageFacts, Zenon
  <2>6. ASSUME NEW d \in Client, message'[d] = "RETRY"
        PROVE  retrying' = d
    <3>1. d # n => message[d] = "RETRY"
      BY <2>6, <1>3, Zenon
    <3> QED BY <3>1, <1>3, MessageFacts, Zenon
  <2> QED BY <2>1, <2>2, <2>3, <2>4, <2>5, <2>6, MessageStable, Zenon
<1>21. WaitingOK'
  <2>1. \A u \in Thread : Home[u] # n =>
          /\ pc[u] \in ToldRetry => pc'[u] \in ToldRetry
          /\ ret'[u] = ret[u]
          /\ u \in signalled' => u \in signalled
    BY <1>3, Zenon DEF ToldRetry
  <2>2. \A d \in Client : d # n => message'[d] = message[d]
    BY <1>3, Zenon
  <2> QED BY <2>1, <2>2, <1>3, <1>8, WaitingStable, Zenon
<1>22. RetryOK'
  <2>1. /\ Home[w] = retrying' /\ ret'[w] = "RETRY" /\ pc'[w] \in ToldRetry
        /\ pc'[w] = "waiting" => w \in signalled'
        /\ message'[retrying'] = "RETRY"
    BY <1>3, Zenon DEF ToldRetry
  <2>2. \A u \in Thread : ~RetryInFlight(u)'
    BY <1>6, Zenon
  <2>3. w \in Thread
    BY <1>3, Zenon
  <2> QED BY <2>1, <2>2, <2>3, Zenon DEF RetryOK
<1>23. KnownOK'
  BY <1>3, Zenon DEF Inv, KnownOK, ToldRetry
<1>24. NotLostOK'
  BY <1>3, Zenon DEF Inv, NotLostOK, RevokeInFlight
<1> QED BY <1>1, <1>2, <1>9, <1>10, <1>11, <1>12, <1>13, <1>14, <1>15, <1>16, <1>17,
           <1>18, <1>19, <1>20, <1>21, <1>22, <1>23, <1>24, Zenon DEF Inv

(* retry_handler runs inside the release RPC of revoke_handler. *)
LEMMA RetryHandlerRevokedStep ==
  ASSUME Inv, NEW t \in Thread, NEW c \in Client, c = Home[t],
         RetryHandler(t), pc[t] = "rv_retry", NEW n, n = nxt[t], NEW w, w = Front(n)
  PROVE  Inv'
<1>1. /\ pc[t] = "rv_retry" /\ t \notin signalled /\ ret[t] = "RETRY"
             /\ RetryInFlight(t)
      /\ n \in Client /\ n = retrying /\ status = "RETRYING" /\ message[n] = "EMPTY"
      /\ \A u \in Thread : RetryInFlight(u) => u = t
      /\ ~Empty(n) /\ w = Front(n)
      /\ w \in Thread /\ Home[w] = n /\ pc[w] \in ToldRetry
      /\ ret[w] = "RETRY" /\ w \notin signalled
      /\ \A u \in Thread : u # w /\ Home[u] = n =>
           pc[u] \in {"idle", "queued"} /\ u \notin signalled
      /\ state[c] = "ACQUIRING"
  BY RetryFacts, SMTT(30)
  DEF Inv, PhaseOK, Phase, InAcquireRPC, GrantOK, TypeOK, Reply, RetryInFlight
<1>2. /\ pc' = [pc EXCEPT ![t] = "rv_return"]
      /\ message' = [message EXCEPT ![n] = "RETRY"]
      /\ nxt' = [nxt EXCEPT ![t] = NoClient]
      /\ signalled' = IF pc[w] = "waiting" THEN signalled \cup {w} ELSE signalled
      /\ UNCHANGED <<status, owner, retrying, waiting, state, threads, exited, ret,
                     dst>>
  BY <1>1, Zenon
  DEF RetryHandler, CltRetry, SignalFront, Asleep, ToldRetry, Empty, Front, Goto,
      serverVars
<1>3. /\ pc[t] = "rv_retry" /\ t \notin signalled /\ ret[t] = "RETRY"
             /\ RetryInFlight(t)
      /\ n \in Client /\ n = retrying /\ status = "RETRYING" /\ message[n] = "EMPTY"
      /\ \A u \in Thread : RetryInFlight(u) => u = t
      /\ ~Empty(n) /\ w = Front(n)
      /\ w \in Thread /\ Home[w] = n /\ pc[w] \in ToldRetry
      /\ ret[w] = "RETRY" /\ w \notin signalled
      /\ \A u \in Thread : u # w /\ Home[u] = n =>
           pc[u] \in {"idle", "queued"} /\ u \notin signalled
      /\ state[c] = "ACQUIRING"
      /\ \A u \in Thread : pc'[u] = IF u = t THEN "rv_return" ELSE pc[u]
      /\ \A d \in Client : message'[d] = IF d = n THEN "RETRY" ELSE message[d]
      /\ \A u \in Thread : nxt'[u] = IF u = t THEN NoClient ELSE nxt[u]
      /\ signalled' = IF pc[w] = "waiting" THEN signalled \cup {w} ELSE signalled
      /\ UNCHANGED <<status, owner, retrying, waiting, state, threads, exited, ret,
                     dst>>
      /\ \A u \in Thread : Home[u] \in Client
      /\ \A d \in Client : (Empty(d)' <=> Empty(d)) /\ Front(d)' = Front(d)
      /\ ~Empty(c) /\ t = Front(c)
      /\ \A u \in Thread : u # t /\ Home[u] = c =>
           pc[u] \in {"idle", "queued"} /\ u \notin signalled
  BY <1>1, <1>2, HomeAssumption, SameQueues, OneActive, Zenon
  DEF Inv, TypeOK, ClientTypeOK, Active
<1>4. \A u \in Thread : u \in signalled' <=> u \in signalled \/ (u = w /\ pc[w] = "waiting")
  BY <1>3, Zenon
<1>5. pc[w] \notin {"idle", "queued", "parked", "retry"}
  BY <1>3, Zenon DEF ToldRetry
<1>6. \A u \in Thread : ~RetryInFlight(u)' /\ ~RevokeInFlight(u)
  <2>1. \A u \in Thread : ~RevokeInFlight(u)
    BY <1>3, Zenon DEF Inv, RevokeOK
  <2>2. \A u \in Thread : pc[u] \in {"retry", "rv_retry"} => u = t
    BY <1>3, Zenon DEF RetryInFlight
  <2> QED BY <2>1, <2>2, <1>3, Zenon DEF RetryInFlight
<1>7. \A u \in Thread : pc[u] \in {"release", "retry", "return"} => Home[u] # n
  BY <1>3, Zenon DEF Inv, MessageOK
<1>8. n \notin waiting
  BY <1>3, Zenon DEF Inv, ServerOK
<1>9. ServerOK'
  BY <1>3, Zenon DEF Inv, ServerOK
<1>10. TypeOK'
  BY <1>1, <1>2, Zenon
  DEF Inv, TypeOK, ServerTypeOK, ClientTypeOK, Label, Reply, State, Message, Status
<1>11. QueueOK'
  BY <1>3, QueueStable, Zenon DEF Inv
<1>12. ActiveIsFront'
  <2>1. \A u \in Thread : Active(u)' => Active(u)
    BY <1>3, Zenon DEF Active
  <2> QED BY <1>3, <2>1, ActiveStable, Zenon
<1>13. EmptyOK'
  <2>1. \A d \in Client : Empty(d)' => Empty(d) /\ d # n
    BY <1>3, Zenon
  <2>2. \A d \in Client : d # n => message'[d] = message[d] /\ state'[d] = state[d]
    BY <1>3, Zenon
  <2> QED BY <2>1, <2>2, Zenon DEF Inv, EmptyOK
<1>14. FrontOK'
  <2>1. \A d \in Client : d # c =>
          (Empty(d)' <=> Empty(d)) /\ Front(d)' = Front(d) /\ state'[d] = state[d]
    BY <1>3, FrontHome, Zenon
  <2>2. \A u \in Thread : Home[u] # c =>
          (pc'[u] = "queued" => pc[u] = "queued") /\ (u \in signalled => u \in signalled')
    BY <1>3, FrontHome, Zenon
  <2>3. ~Empty(c)' /\ pc'[Front(c)'] = "queued" =>
          Front(c)' \in signalled' /\ state'[c] \in {"LOCKED", "NONE"}
    BY <1>3, FrontHome, Zenon
  <2> QED BY <2>1, <2>2, <2>3, FrontStable, Zenon
<1>15. PhaseOK'
  <2> SUFFICES ASSUME NEW u \in Thread PROVE Phase(u)'
    BY Zenon DEF PhaseOK
  <2>1. CASE u = t
    BY <1>3, <2>1, Zenon DEF Phase, InAcquireRPC
  <2>2. CASE u # t
    <3>1. pc'[u] = pc[u] /\ state'[Home[u]] = state[Home[u]]
      BY <2>2, <1>3, Zenon
    <3>2. (u \in signalled' <=> u \in signalled) \/ pc[u] = "waiting"
      BY <1>4, Zenon
    <3> QED BY <3>1, <3>2, Zenon DEF Inv, PhaseOK, Phase, InAcquireRPC
  <2> QED BY <2>1, <2>2, Zenon
<1>16. GrantOK'
  <2>1. \A d \in Client : state'[d] \in {"FREE", "LOCKED"} =>
                              state[d] \in {"FREE", "LOCKED"}
    BY <1>3, Zenon
  <2>2. \A u \in Thread : ret'[u] = "OK" =>
                              ret[u] = "OK" /\ pc'[u] \in {"revoke", "reply"}
    BY <1>3, Zenon DEF Inv, GrantOK
  <2>3. \A u \in Thread : pc'[u] = "release" => pc[u] = "release"
    BY <1>3, Zenon
  <2> QED BY <1>3, <2>1, <2>2, <2>3, GrantStable, Zenon
<1>17. OwnerOK'
  <2>1. \A d \in Client : state[d] \in {"FREE", "LOCKED"} =>
                              state'[d] \in {"FREE", "LOCKED"}
    BY <1>3, Zenon
  <2>2. \A u \in Thread : /\ ret[u] = "OK" => ret'[u] = "OK"
                          /\ pc[u] = "release" => pc'[u] = "release"
                          /\ pc[u] = "rv_release" =>
                               pc'[u] = "rv_release" /\ dst'[u] = dst[u]
    BY <1>3, Zenon
  <2> QED BY <1>3, <2>1, <2>2, OwnerStable, Zenon
<1>18. RevokingOK'
  <2>0. \A u \in Thread : HandingBack(u)' => HandingBack(u)
    BY <1>3, Zenon DEF HandingBack
  <2>q. \A u \in Thread : HandingBack(u) => dst[u] # NoClient
    BY ClientAssumption, Zenon DEF Inv, RevokingOK
  <2>1. \A u \in Thread : HandingBack(u)' =>
          HandingBack(u) /\ dst[u] # NoClient /\ dst'[u] = dst[u]
    BY <2>0, <2>q, <1>3, Zenon
  <2>2. \A d \in Client : d # NoClient =>
          (Empty(d)' <=> Empty(d)) /\ Front(d)' = Front(d) /\ state'[d] = state[d]
    BY <1>3, Zenon
  <2>3. \A u \in Thread : pc[u] = "parked" /\ Home[u] # NoClient => pc'[u] = "parked"
    BY <1>3, Zenon
  <2> QED BY <2>1, <2>2, <2>3, RevokingStable, Zenon
<1>19. RevokeOK'
  BY <1>3, Zenon DEF Inv, RevokeOK, RevokeInFlight
<1>20. MessageOK'
  <2>1. \A d \in Client : message'[d] = "REVOKE" => message[d] = "REVOKE"
    BY <1>3, Zenon
  <2>2. \A d \in Client : message'[d] = "REVOKE" /\ owner = d /\ status = "REVOKING" =>
          \/ owner' = d /\ status' = "REVOKING"
          \/ \E u \in Thread : Home[u] = d /\ pc'[u] \in {"retry", "return"}
    BY <1>3, Zenon
  <2>3. \A d \in Client : message'[d] = "REVOKE" /\ state[d] = "LOCKED" =>
          state'[d] = "LOCKED" \/ \E u \in Thread : Home[u] = d /\ pc'[u] = "release"
    BY <1>3, Zenon
  <2>4. \A u \in Thread : message'[Home[u]] = "REVOKE" =>
          /\ ret[u] = "OK" => ret'[u] = "OK" \/ state'[Home[u]] = "LOCKED"
          /\ pc[u] = "release" => pc'[u] \in {"release", "retry", "return"}
          /\ pc[u] \in {"retry", "return"} => pc'[u] \in {"retry", "return"}
    BY <1>3, Zenon
  <2>5. ASSUME NEW u \in Thread, pc'[u] \in {"release", "retry", "return"}
        PROVE  message'[Home[u]] = "REVOKE"
    <3>1. pc[u] \in {"release", "retry", "return"} /\ Home[u] \in Client
      BY <2>5, <1>3, Zenon
    <3>2. message'[Home[u]] = message[Home[u]]
      BY <3>1, <1>3, <1>7, Zenon
    <3> QED BY <3>1, <3>2, MessageFacts, Zenon
  <2>6. ASSUME NEW d \in Client, message'[d] = "RETRY"
        PROVE  retrying' = d
    <3>1. d # n => message[d] = "RETRY"
      BY <2>6, <1>3, Zenon
    <3> QED BY <3>1, <1>3, MessageFacts, Zenon
  <2> QED BY <2>1, <2>2, <2>3, <2>4, <2>5, <2>6, MessageStable, Zenon
<1>21. WaitingOK'
  <2>1. \A u \in Thread : Home[u] # n =>
          /\ pc[u] \in ToldRetry => pc'[u] \in ToldRetry
          /\ ret'[u] = ret[u]
          /\ u \in signalled' => u \in signalled
    BY <1>3, Zenon DEF ToldRetry
  <2>2. \A d \in Client : d # n => message'[d] = message[d]
    BY <1>3, Zenon
  <2> QED BY <2>1, <2>2, <1>3, <1>8, WaitingStable, Zenon
<1>22. RetryOK'
  <2>1. /\ Home[w] = retrying' /\ ret'[w] = "RETRY" /\ pc'[w] \in ToldRetry
        /\ pc'[w] = "waiting" => w \in signalled'
        /\ message'[retrying'] = "RETRY"
    BY <1>3, Zenon DEF ToldRetry
  <2>2. \A u \in Thread : ~RetryInFlight(u)'
    BY <1>6, Zenon
  <2>3. w \in Thread
    BY <1>3, Zenon
  <2> QED BY <2>1, <2>2, <2>3, Zenon DEF RetryOK
<1>23. KnownOK'
  <2> SUFFICES ASSUME NEW u \in Thread, pc'[u] \in ToldRetry, ret'[u] = "RETRY"
               PROVE  Home[u] \in waiting' \/ Home[u] = retrying'
    BY Zenon DEF KnownOK
  <2>1. pc[u] \in ToldRetry /\ ret[u] = "RETRY"
    BY <1>3, Zenon DEF ToldRetry
  <2> QED BY <2>1, <1>3, Zenon DEF Inv, KnownOK
<1>24. NotLostOK'
  BY <1>3, Zenon DEF Inv, NotLostOK, RevokeInFlight
<1> QED BY <1>1, <1>2, <1>9, <1>10, <1>11, <1>12, <1>13, <1>14, <1>15, <1>16, <1>17,
           <1>18, <1>19, <1>20, <1>21, <1>22, <1>23, <1>24, Zenon DEF Inv

=============================================================================
