----------------------- MODULE CachingLockServerProofs -----------------------
(***************************************************************************)
(* Every step of the server's acquire and release handlers preserves the   *)
(* inductive invariant Inv.                                                *)
(***************************************************************************)
EXTENDS CachingLockClientProofs

(* The server grants a lock nobody has. *)
LEMMA ServeNoneStep ==
  ASSUME Inv, NEW t \in Thread, NEW c \in Client, c = Home[t],
         ServeAcquire(t), status = "NONE"
  PROVE  Inv'
<1>1. /\ pc[t] = "acquire" /\ t \notin signalled /\ ret[t] = "RETRY"
      /\ state[c] = "ACQUIRING" /\ message[c] = "EMPTY"
      /\ c \notin waiting /\ owner # c
      /\ status = "NONE" /\ owner = NoClient /\ retrying = NoClient /\ waiting = {}
  BY AcquireFacts, Zenon DEF ServeAcquire, Goto, Inv, ServerOK
<1>2. /\ pc' = [pc EXCEPT ![t] = "reply"]
      /\ ret' = [ret EXCEPT ![t] = "OK"]
      /\ status' = "LOCKED"
      /\ owner' = c
      /\ UNCHANGED <<retrying, waiting, state, message, threads, signalled, exited,
                     dst, nxt>>
  BY <1>1, Zenon
  DEF Inv, TypeOK, ServeAcquire, SrvAcquireNone, SrvAcquireLocked, SrvAcquireRevoking,
      SrvAcquireOther, SrvAcquireRetrying, Goto, clientVars
<1>3. /\ pc[t] = "acquire" /\ t \notin signalled /\ ret[t] = "RETRY"
      /\ state[c] = "ACQUIRING" /\ message[c] = "EMPTY"
      /\ c \notin waiting /\ owner # c
      /\ status = "NONE" /\ owner = NoClient /\ retrying = NoClient /\ waiting = {}
      /\ \A u \in Thread : pc'[u] = IF u = t THEN "reply" ELSE pc[u]
      /\ \A u \in Thread : ret'[u] = IF u = t THEN "OK" ELSE ret[u]
      /\ status' = "LOCKED"
      /\ owner' = c
      /\ UNCHANGED <<retrying, waiting, state, message, threads, signalled, exited,
                     dst, nxt>>
      /\ \A u \in Thread : Home[u] \in Client
      /\ \A d \in Client : (Empty(d)' <=> Empty(d)) /\ Front(d)' = Front(d)
      /\ ~Empty(c) /\ t = Front(c)
      /\ \A u \in Thread : u # t /\ Home[u] = c =>
           pc[u] \in {"idle", "queued"} /\ u \notin signalled
  BY <1>1, <1>2, HomeAssumption, SameQueues, OneActive, Zenon
  DEF Inv, TypeOK, ClientTypeOK, Active
<1>4. \A u \in Thread : ~RevokeInFlight(u) /\ ~RetryInFlight(u)
  BY <1>3, Zenon DEF Inv, RevokeOK, RetryOK
<1>5. \A d \in Client : state[d] \notin {"FREE", "LOCKED"} /\ message[d] # "RETRY"
  BY <1>3, ClientAssumption, Zenon DEF Inv, GrantOK, MessageOK
<1>6. \A u \in Thread : pc[u] # "release" /\ ret[u] # "OK"
  BY <1>3, ClientAssumption, Zenon DEF Inv, GrantOK
<1>7. EmptyOK'
  BY <1>3, Zenon DEF Inv, EmptyOK
<1>8. TypeOK'
  BY <1>1, <1>2, Zenon
  DEF Inv, TypeOK, ServerTypeOK, ClientTypeOK, Label, Reply, State, Message, Status
<1>9. QueueOK'
  BY <1>3, QueueStable, Zenon DEF Inv
<1>10. ActiveIsFront'
  BY <1>3, Zenon DEF Inv, ActiveIsFront, Active
<1>11. FrontOK'
  <2>1. \A d \in Client : d # c =>
          (Empty(d)' <=> Empty(d)) /\ Front(d)' = Front(d) /\ state'[d] = state[d]
    BY <1>3, FrontHome, Zenon
  <2>2. \A u \in Thread : Home[u] # c =>
          (pc'[u] = "queued" => pc[u] = "queued") /\ (u \in signalled => u \in signalled')
    BY <1>3, FrontHome, Zenon
  <2>3. ~Empty(c)' /\ pc'[Front(c)'] = "queued" =>
          Front(c)' \in signalled' /\ state'[c] \in {"LOCKED", "NONE"}
    BY <1>3, FrontHome, Zenon
  <2> QED BY <2>1, <2>2, <2>3, FrontStable, Zenon
<1>12. PhaseOK'
  <2> SUFFICES ASSUME NEW u \in Thread PROVE Phase(u)'
    BY Zenon DEF PhaseOK
  <2>1. CASE u = t
    BY <2>1, <1>3, Zenon DEF Phase, InAcquireRPC
  <2>2. CASE u # t /\ Home[u] = c
    <3>1. pc'[u] \in {"idle", "queued"} /\ u \notin signalled'
      BY <2>2, <1>3, Zenon
    <3> QED BY <3>1, Zenon DEF Phase, InAcquireRPC
  <2>3. CASE u # t /\ Home[u] # c
    <3>1. pc'[u] = pc[u] /\ (u \in signalled' <=> u \in signalled)
              /\ state'[Home[u]] = state[Home[u]]
      BY <2>3, <1>3, Zenon
    <3> QED BY <3>1, Zenon DEF Inv, PhaseOK, Phase
  <2> QED BY <2>1, <2>2, <2>3, Zenon
<1>13. ServerOK'
  BY <1>3, Zenon DEF Inv, ServerOK
<1>14. GrantOK'
  <2>1. \A d \in Client : state'[d] \in {"FREE", "LOCKED"} => owner' = d
    BY <1>3, <1>5, Zenon DEF Inv, GrantOK
  <2>2. \A u \in Thread : ret'[u] = "OK" => pc'[u] \in {"revoke", "reply"} /\ owner' = Home[u]
    BY <1>3, <1>6, Zenon DEF Inv, GrantOK
  <2>3. \A u \in Thread : pc'[u] = "release" => owner' = Home[u] /\ status' = "REVOKING"
    BY <1>3, Zenon DEF Inv, GrantOK
  <2> QED BY <2>1, <2>2, <2>3, Zenon DEF GrantOK
<1>15. OwnerOK'
  BY <1>3, Zenon DEF Inv, OwnerOK
<1>16. RevokingOK'
  <2>1. \A u \in Thread : HandingBack(u)' =>
          HandingBack(u) /\ dst[u] # c /\ dst'[u] = dst[u]
    BY <1>3, Zenon DEF Inv, RevokingOK, HandingBack
  <2>2. \A d \in Client : d # c =>
          (Empty(d)' <=> Empty(d)) /\ Front(d)' = Front(d) /\ state'[d] = state[d]
    BY <1>3, Zenon
  <2>3. \A u \in Thread : pc[u] = "parked" /\ Home[u] # c => pc'[u] = "parked"
    BY <1>3, Zenon
  <2> QED BY <2>1, <2>2, <2>3, RevokingStable, Zenon
<1>17. RevokeOK'
  BY <1>3, Zenon DEF Inv, RevokeOK, RevokeInFlight
<1>18. MessageOK'
  <2>1. \A d \in Client : message'[d] = "REVOKE" => message[d] = "REVOKE"
    BY <1>3, Zenon
  <2>2. \A d \in Client : message'[d] = "REVOKE" /\ owner = d /\ status = "REVOKING" =>
          \/ owner' = d /\ status' = "REVOKING"
          \/ \E u \in Thread : Home[u] = d /\ pc'[u] \in {"retry", "return"}
    BY <1>3, Zenon
  <2>3. \A d \in Client : message'[d] = "REVOKE" /\ state[d] = "LOCKED" =>
          state'[d] = "LOCKED" \/ \E u \in Thread : Home[u] = d /\ pc'[u] = "release"
    BY <1>3, Zenon
  <2>4. \A u \in Thread : message'[Home[u]] = "REVOKE" =>
          /\ ret[u] = "OK" => ret'[u] = "OK" \/ state'[Home[u]] = "LOCKED"
          /\ pc[u] = "release" => pc'[u] \in {"release", "retry", "return"}
          /\ pc[u] \in {"retry", "return"} => pc'[u] \in {"retry", "return"}
    BY <1>3, Zenon
  <2>5. \A u \in Thread :
          pc'[u] \in {"release", "retry", "return"} => message'[Home[u]] = "REVOKE"
    BY <1>3, Zenon DEF Inv, MessageOK
  <2>6. \A d \in Client : message'[d] = "RETRY" => retrying' = d
    BY <1>3, Zenon DEF Inv, MessageOK
  <2> QED BY <2>1, <2>2, <2>3, <2>4, <2>5, <2>6, MessageStable, Zenon
<1>19. WaitingOK'
  BY <1>3, Zenon DEF Inv, WaitingOK, ToldRetry
<1>20. RetryOK'
  BY <1>3, Zenon DEF Inv, RetryOK, RetryInFlight, ToldRetry
<1>21. KnownOK'
  BY <1>3, Zenon DEF Inv, KnownOK, ToldRetry
<1>22. NotLostOK'
  BY <1>3, Zenon DEF Inv, NotLostOK, RevokeInFlight
<1> QED BY <1>1, <1>2, <1>7, <1>8, <1>9, <1>10, <1>11, <1>12, <1>13, <1>14, <1>15,
           <1>16, <1>17, <1>18, <1>19, <1>20, <1>21, <1>22, Zenon DEF Inv

(* The server records the caller as waiting and goes on to revoke. *)
LEMMA ServeLockedStep ==
  ASSUME Inv, NEW t \in Thread, NEW c \in Client, c = Home[t],
         ServeAcquire(t), status = "LOCKED"
  PROVE  Inv'
<1>1. /\ pc[t] = "acquire" /\ t \notin signalled /\ ret[t] = "RETRY"
      /\ state[c] = "ACQUIRING" /\ message[c] = "EMPTY"
      /\ c \notin waiting /\ owner # c
      /\ status = "LOCKED" /\ owner \in Client /\ retrying = NoClient /\ waiting = {}
  BY AcquireFacts, Zenon DEF ServeAcquire, Goto, Inv, ServerOK, TypeOK, ServerTypeOK
<1>2. /\ pc' = [pc EXCEPT ![t] = "revoke_read"]
      /\ ret' = [ret EXCEPT ![t] = "RETRY"]
      /\ status' = "REVOKING"
      /\ waiting' = waiting \cup {c}
      /\ UNCHANGED <<owner, retrying, state, message, threads, signalled, exited, dst,
                     nxt>>
  BY <1>1, Zenon
  DEF Inv, TypeOK, ServeAcquire, SrvAcquireNone, SrvAcquireLocked, SrvAcquireRevoking,
      SrvAcquireOther, SrvAcquireRetrying, Goto, clientVars
<1>3. /\ pc[t] = "acquire" /\ t \notin signalled /\ ret[t] = "RETRY"
      /\ state[c] = "ACQUIRING" /\ message[c] = "EMPTY"
      /\ c \notin waiting /\ owner # c
      /\ status = "LOCKED" /\ owner \in Client /\ retrying = NoClient /\ waiting = {}
      /\ \A u \in Thread : pc'[u] = IF u = t THEN "revoke_read" ELSE pc[u]
      /\ \A u \in Thread : ret'[u] = IF u = t THEN "RETRY" ELSE ret[u]
      /\ status' = "REVOKING"
      /\ waiting' = waiting \cup {c}
      /\ UNCHANGED <<owner, retrying, state, message, threads, signalled, exited, dst,
                     nxt>>
      /\ \A u \in Thread : Home[u] \in Client
      /\ \A d \in Client : (Empty(d)' <=> Empty(d)) /\ Front(d)' = Front(d)
      /\ ~Empty(c) /\ t = Front(c)
      /\ \A u \in Thread : u # t /\ Home[u] = c =>
           pc[u] \in {"idle", "queued"} /\ u \notin signalled
  BY <1>1, <1>2, HomeAssumption, SameQueues, OneActive, Zenon
  DEF Inv, TypeOK, ClientTypeOK, Active
<1>4. \A u \in Thread : ~RevokeInFlight(u) /\ ~RetryInFlight(u)
  BY <1>3, Zenon DEF Inv, RevokeOK, RetryOK
<1>5. message[owner] # "REVOKE"
  <2> SUFFICES ASSUME message[owner] = "REVOKE" PROVE FALSE
    OBVIOUS
  <2>1. PICK u \in Thread : Home[u] = owner /\ pc[u] \in {"retry", "return"}
    BY <1>3, Zenon DEF Inv, MessageOK
  <2>2. state[owner] = "RELEASING" /\ ret[u] = "RETRY"
    BY <2>1, <1>3 DEF Inv, PhaseOK, Phase, GrantOK, TypeOK, Reply
  <2> QED BY <2>1, <2>2, <1>3, NotOwner, OneActive, Zenon DEF Active
<1>6. \A u \in Thread : pc[u] # "release"
  BY <1>3, Zenon DEF Inv, GrantOK
<1>7. EmptyOK'
  BY <1>3, Zenon DEF Inv, EmptyOK
<1>8. TypeOK'
  BY <1>1, <1>2, Zenon
  DEF Inv, TypeOK, ServerTypeOK, ClientTypeOK, Label, Reply, State, Message, Status
<1>9. QueueOK'
  BY <1>3, QueueStable, Zenon DEF Inv
<1>10. ActiveIsFront'
  BY <1>3, Zenon DEF Inv, ActiveIsFront, Active
<1>11. FrontOK'
  <2>1. \A d \in Client : d # c =>
          (Empty(d)' <=> Empty(d)) /\ Front(d)' = Front(d) /\ state'[d] = state[d]
    BY <1>3, FrontHome, Zenon
  <2>2. \A u \in Thread : Home[u] # c =>
          (pc'[u] = "queued" => pc[u] = "queued") /\ (u \in signalled => u \in signalled')
    BY <1>3, FrontHome, Zenon
  <2>3. ~Empty(c)' /\ pc'[Front(c)'] = "queued" =>
          Front(c)' \in signalled' /\ state'[c] \in {"LOCKED", "NONE"}
    BY <1>3, FrontHome, Zenon
  <2> QED BY <2>1, <2>2, <2>3, FrontStable, Zenon
<1>12. PhaseOK'
  <2> SUFFICES ASSUME NEW u \in Thread PROVE Phase(u)'
    BY Zenon DEF PhaseOK
  <2>1. CASE u = t
    BY <2>1, <1>3, Zenon DEF Phase, InAcquireRPC
  <2>2. CASE u # t /\ Home[u] = c
    <3>1. pc'[u] \in {"idle", "queued"} /\ u \notin signalled'
      BY <2>2, <1>3, Zenon
    <3> QED BY <3>1, Zenon DEF Phase, InAcquireRPC
  <2>3. CASE u # t /\ Home[u] # c
    <3>1. pc'[u] = pc[u] /\ (u \in signalled' <=> u \in signalled)
              /\ state'[Home[u]] = state[Home[u]]
      BY <2>3, <1>3, Zenon
    <3> QED BY <3>1, Zenon DEF Inv, PhaseOK, Phase
  <2> QED BY <2>1, <2>2, <2>3, Zenon
<1>13. ServerOK'
  BY <1>3, ClientAssumption, Zenon DEF Inv, ServerOK
<1>14. GrantOK'
  BY <1>3, Zenon DEF Inv, GrantOK
<1>15. OwnerOK'
  <2>1. \A d \in Client : state[d] \in {"FREE", "LOCKED"} => state'[d] \in {"FREE", "LOCKED"}
    BY <1>3, Zenon
  <2>2. \A u \in Thread : /\ ret[u] = "OK" => ret'[u] = "OK"
                          /\ pc[u] = "release" => pc'[u] = "release"
                          /\ pc[u] = "rv_release" =>
                               pc'[u] = "rv_release" /\ dst'[u] = dst[u]
    BY <1>3, Zenon
  <2> QED BY <1>3, <2>1, <2>2, OwnerStable, Zenon
<1>16. RevokingOK'
  <2>1. \A u \in Thread : HandingBack(u)' =>
          HandingBack(u) /\ dst[u] # c /\ dst'[u] = dst[u]
    BY <1>3, Zenon DEF Inv, RevokingOK, HandingBack
  <2>2. \A d \in Client : d # c =>
          (Empty(d)' <=> Empty(d)) /\ Front(d)' = Front(d) /\ state'[d] = state[d]
    BY <1>3, Zenon
  <2>3. \A u \in Thread : pc[u] = "parked" /\ Home[u] # c => pc'[u] = "parked"
    BY <1>3, Zenon
  <2> QED BY <2>1, <2>2, <2>3, RevokingStable, Zenon
<1>17. RevokeOK'
  BY <1>3, <1>5, Zenon DEF Inv, RevokeOK, RevokeInFlight
<1>18. MessageOK'
  <2>1. \A d \in Client : message'[d] = "REVOKE" => message[d] = "REVOKE"
    BY <1>3, Zenon
  <2>2. \A d \in Client : message'[d] = "REVOKE" /\ owner = d /\ status = "REVOKING" =>
          \/ owner' = d /\ status' = "REVOKING"
          \/ \E u \in Thread : Home[u] = d /\ pc'[u] \in {"retry", "return"}
    BY <1>3, Zenon
  <2>3. \A d \in Client : message'[d] = "REVOKE" /\ state[d] = "LOCKED" =>
          state'[d] = "LOCKED" \/ \E u \in Thread : Home[u] = d /\ pc'[u] = "release"
    BY <1>3, Zenon
  <2>4. \A u \in Thread : message'[Home[u]] = "REVOKE" =>
          /\ ret[u] = "OK" => ret'[u] = "OK" \/ state'[Home[u]] = "LOCKED"
          /\ pc[u] = "release" => pc'[u] \in {"release", "retry", "return"}
          /\ pc[u] \in {"retry", "return"} => pc'[u] \in {"retry", "return"}
    BY <1>3, Zenon
  <2>5. \A u \in Thread :
          pc'[u] \in {"release", "retry", "return"} => message'[Home[u]] = "REVOKE"
    BY <1>3, Zenon DEF Inv, MessageOK
  <2>6. \A d \in Client : message'[d] = "RETRY" => retrying' = d
    BY <1>3, Zenon DEF Inv, MessageOK
  <2> QED BY <2>1, <2>2, <2>3, <2>4, <2>5, <2>6, MessageStable, Zenon
<1>19. WaitingOK'
  BY <1>3, Zenon DEF Inv, WaitingOK, ToldRetry
<1>20. RetryOK'
  BY <1>3, Zenon DEF Inv, RetryOK, RetryInFlight, ToldRetry
<1>21. KnownOK'
  BY <1>3, Zenon DEF Inv, KnownOK, ToldRetry
<1>22. NotLostOK'
  BY <1>3, Zenon DEF Inv, NotLostOK, RevokeInFlight
<1> QED BY <1>1, <1>2, <1>7, <1>8, <1>9, <1>10, <1>11, <1>12, <1>13, <1>14, <1>15,
           <1>16, <1>17, <1>18, <1>19, <1>20, <1>21, <1>22, Zenon DEF Inv

(* The server records the caller as waiting behind a revoke or a retry. *)
LEMMA ServeWaitStep ==
  ASSUME Inv, NEW t \in Thread, NEW c \in Client, c = Home[t],
         ServeAcquire(t), status = "REVOKING" \/ (status = "RETRYING" /\ c # retrying)
  PROVE  Inv'
<1>1. /\ pc[t] = "acquire" /\ t \notin signalled /\ ret[t] = "RETRY"
      /\ state[c] = "ACQUIRING" /\ message[c] = "EMPTY"
      /\ c \notin waiting /\ owner # c
      /\ status \in {"REVOKING", "RETRYING"} /\ c # retrying
  BY AcquireFacts, ClientAssumption DEF ServeAcquire, Goto, Inv, ServerOK
<1>2. /\ pc' = [pc EXCEPT ![t] = "reply"]
      /\ waiting' = waiting \cup {c}
      /\ UNCHANGED <<status, owner, retrying, state, message, threads, signalled,
                     exited, ret, dst, nxt>>
  BY <1>1
  DEF Inv, TypeOK, ServeAcquire, SrvAcquireNone, SrvAcquireLocked, SrvAcquireRevoking,
      SrvAcquireOther, SrvAcquireRetrying, Goto, clientVars
<1>3. /\ pc[t] = "acquire" /\ t \notin signalled /\ ret[t] = "RETRY"
      /\ state[c] = "ACQUIRING" /\ message[c] = "EMPTY"
      /\ c \notin waiting /\ owner # c
      /\ status \in {"REVOKING", "RETRYING"} /\ c # retrying
      /\ \A u \in Thread : pc'[u] = IF u = t THEN "reply" ELSE pc[u]
      /\ waiting' = waiting \cup {c}
      /\ UNCHANGED <<status, owner, retrying, state, message, threads, signalled,
                     exited, ret, dst, nxt>>
      /\ \A u \in Thread : Home[u] \in Client
      /\ \A d \in Client : (Empty(d)' <=> Empty(d)) /\ Front(d)' = Front(d)
      /\ ~Empty(c) /\ t = Front(c)
      /\ \A u \in Thread : u # t /\ Home[u] = c =>
           pc[u] \in {"idle", "queued"} /\ u \notin signalled
  BY <1>1, <1>2, HomeAssumption, SameQueues, OneActive, Zenon
  DEF Inv, TypeOK, ClientTypeOK, Active
<1>4. EmptyOK'
  BY <1>3, Zenon DEF Inv, EmptyOK
<1>5. TypeOK'
  BY <1>1, <1>2, Zenon
  DEF Inv, TypeOK, ServerTypeOK, ClientTypeOK, Label, Reply, State, Message, Status
<1>6. QueueOK'
  BY <1>3, QueueStable, Zenon DEF Inv
<1>7. ActiveIsFront'
  BY <1>3, Zenon DEF Inv, ActiveIsFront, Active
<1>8. FrontOK'
  <2>1. \A d \in Client : d # c =>
          (Empty(d)' <=> Empty(d)) /\ Front(d)' = Front(d) /\ state'[d] = state[d]
    BY <1>3, FrontHome, Zenon
  <2>2. \A u \in Thread : Home[u] # c =>
          (pc'[u] = "queued" => pc[u] = "queued") /\ (u \in signalled => u \in signalled')
    BY <1>3, FrontHome, Zenon
  <2>3. ~Empty(c)' /\ pc'[Front(c)'] = "queued" =>
          Front(c)' \in signalled' /\ state'[c] \in {"LOCKED", "NONE"}
    BY <1>3, FrontHome, Zenon
  <2> QED BY <2>1, <2>2, <2>3, FrontStable, Zenon
<1>9. PhaseOK'
  <2> SUFFICES ASSUME NEW u \in Thread PROVE Phase(u)'
    BY Zenon DEF PhaseOK
  <2>1. CASE u = t
    BY <2>1, <1>3, Zenon DEF Phase, InAcquireRPC
  <2>2. CASE u # t /\ Home[u] = c
    <3>1. pc'[u] \in {"idle", "queued"} /\ u \notin signalled'
      BY <2>2, <1>3, Zenon
    <3> QED BY <3>1, Zenon DEF Phase, InAcquireRPC
  <2>3. CASE u # t /\ Home[u] # c
    <3>1. pc'[u] = pc[u] /\ (u \in signalled' <=> u \in signalled)
              /\ state'[Home[u]] = state[Home[u]]
      BY <2>3, <1>3, Zenon
    <3> QED BY <3>1, Zenon DEF Inv, PhaseOK, Phase
  <2> QED BY <2>1, <2>2, <2>3, Zenon
<1>10. ServerOK'
  BY <1>3, Zenon DEF Inv, ServerOK
<1>11. GrantOK'
  BY <1>3, Zenon DEF Inv, GrantOK
<1>12. OwnerOK'
  <2>1. \A d \in Client : state[d] \in {"FREE", "LOCKED"} => state'[d] \in {"FREE", "LOCKED"}
    BY <1>3, Zenon
  <2>2. \A u \in Thread : /\ ret[u] = "OK" => ret'[u] = "OK"
                          /\ pc[u] = "release" => pc'[u] = "release"
                          /\ pc[u] = "rv_release" =>
                               pc'[u] = "rv_release" /\ dst'[u] = dst[u]
    BY <1>3, Zenon
  <2> QED BY <1>3, <2>1, <2>2, OwnerStable, Zenon
<1>13. RevokingOK'
  <2>1. \A u \in Thread : HandingBack(u)' =>
          HandingBack(u) /\ dst[u] # c /\ dst'[u] = dst[u]
    BY <1>3, Zenon DEF Inv, RevokingOK, HandingBack
  <2>2. \A d \in Client : d # c =>
          (Empty(d)' <=> Empty(d)) /\ Front(d)' = Front(d) /\ state'[d] = state[d]
    BY <1>3, Zenon
  <2>3. \A u \in Thread : pc[u] = "parked" /\ Home[u] # c => pc'[u] = "parked"
    BY <1>3, Zenon
  <2> QED BY <2>1, <2>2, <2>3, RevokingStable, Zenon
<1>14. RevokeOK'
  BY <1>3, Zenon DEF Inv, RevokeOK, RevokeInFlight
<1>15. MessageOK'
  <2>1. \A d \in Client : message'[d] = "REVOKE" => message[d] = "REVOKE"
    BY <1>3, Zenon
  <2>2. \A d \in Client : message'[d] = "REVOKE" /\ owner = d /\ status = "REVOKING" =>
          \/ owner' = d /\ status' = "REVOKING"
          \/ \E u \in Thread : Home[u] = d /\ pc'[u] \in {"retry", "return"}
    BY <1>3, Zenon
  <2>3. \A d \in Client : message'[d] = "REVOKE" /\ state[d] = "LOCKED" =>
          state'[d] = "LOCKED" \/ \E u \in Thread : Home[u] = d /\ pc'[u] = "release"
    BY <1>3, Zenon
  <2>4. \A u \in Thread : message'[Home[u]] = "REVOKE" =>
          /\ ret[u] = "OK" => ret'[u] = "OK" \/ state'[Home[u]] = "LOCKED"
          /\ pc[u] = "release" => pc'[u] \in {"release", "retry", "return"}
          /\ pc[u] \in {"retry", "return"} => pc'[u] \in {"retry", "return"}
    BY <1>3, Zenon
  <2>5. \A u \in Thread :
          pc'[u] \in {"release", "retry", "return"} => message'[Home[u]] = "REVOKE"
    BY <1>3, Zenon DEF Inv, MessageOK
  <2>6. \A d \in Client : message'[d] = "RETRY" => retrying' = d
    BY <1>3, Zenon DEF Inv, MessageOK
  <2> QED BY <2>1, <2>2, <2>3, <2>4, <2>5, <2>6, MessageStable, Zenon
<1>16. WaitingOK'
  BY <1>3 DEF Inv, WaitingOK, ToldRetry
<1>17. RetryOK'
  BY <1>3 DEF Inv, RetryOK, RetryInFlight, ToldRetry
<1>18. KnownOK'
  BY <1>3, Zenon DEF Inv, KnownOK, ToldRetry
<1>19. NotLostOK'
  BY <1>3, Zenon DEF Inv, NotLostOK, RevokeInFlight
<1> QED BY <1>1, <1>2, <1>4, <1>5, <1>6, <1>7, <1>8, <1>9, <1>10, <1>11, <1>12, <1>13,
           <1>14, <1>15, <1>16, <1>17, <1>18, <1>19, Zenon DEF Inv

(* The server grants the lock to the client told to retry, nobody waits. *)
LEMMA ServeRetryingLastStep ==
  ASSUME Inv, NEW t \in Thread, NEW c \in Client, c = Home[t],
         ServeAcquire(t), status = "RETRYING", c = retrying, waiting = {}
  PROVE  Inv'
<1>1. /\ pc[t] = "acquire" /\ t \notin signalled /\ ret[t] = "RETRY"
      /\ state[c] = "ACQUIRING" /\ message[c] = "EMPTY"
      /\ c \notin waiting /\ owner # c
      /\ status = "RETRYING" /\ c = retrying /\ owner = NoClient /\ waiting = {}
  BY AcquireFacts, Zenon DEF ServeAcquire, Goto, Inv, ServerOK
<1>2. /\ pc' = [pc EXCEPT ![t] = "reply"]
      /\ ret' = [ret EXCEPT ![t] = "OK"]
      /\ status' = "LOCKED"
      /\ owner' = c
      /\ retrying' = NoClient
      /\ UNCHANGED <<waiting, state, message, threads, signalled, exited, dst, nxt>>
  BY <1>1, Zenon
  DEF Inv, TypeOK, ServeAcquire, SrvAcquireNone, SrvAcquireLocked, SrvAcquireRevoking,
      SrvAcquireOther, SrvAcquireRetrying, Goto, clientVars
<1>3. /\ pc[t] = "acquire" /\ t \notin signalled /\ ret[t] = "RETRY"
      /\ state[c] = "ACQUIRING" /\ message[c] = "EMPTY"
      /\ c \notin waiting /\ owner # c
      /\ status = "RETRYING" /\ c = retrying /\ owner = NoClient /\ waiting = {}
      /\ \A u \in Thread : pc'[u] = IF u = t THEN "reply" ELSE pc[u]
      /\ \A u \in Thread : ret'[u] = IF u = t THEN "OK" ELSE ret[u]
      /\ status' = "LOCKED"
      /\ owner' = c
      /\ retrying' = NoClient
      /\ UNCHANGED <<waiting, state, message, threads, signalled, exited, dst, nxt>>
      /\ \A u \in Thread : Home[u] \in Client
      /\ \A d \in Client : (Empty(d)' <=> Empty(d)) /\ Front(d)' = Front(d)
      /\ ~Empty(c) /\ t = Front(c)
      /\ \A u \in Thread : u # t /\ Home[u] = c =>
           pc[u] \in {"idle", "queued"} /\ u \notin signalled
  BY <1>1, <1>2, HomeAssumption, SameQueues, OneActive, Zenon
  DEF Inv, TypeOK, ClientTypeOK, Active
<1>4. \A u \in Thread : ~RevokeInFlight(u)
  BY <1>3, Zenon DEF Inv, RevokeOK
<1>5. \A u \in Thread : Home[u] = c => pc[u] \notin ToldRetry
  BY <1>3, Zenon DEF ToldRetry
<1>6. \A u \in Thread : ~RetryInFlight(u)
  BY <1>3, <1>5, Zenon DEF Inv, RetryOK
<1>7. \A d \in Client : state[d] \notin {"FREE", "LOCKED"} /\ message[d] # "RETRY"
  BY <1>3, ClientAssumption DEF Inv, GrantOK, MessageOK
<1>8. \A u \in Thread : pc[u] # "release" /\ ret[u] # "OK"
  BY <1>3, ClientAssumption, Zenon DEF Inv, GrantOK
<1>9. EmptyOK'
  BY <1>3, Zenon DEF Inv, EmptyOK
<1>10. TypeOK'
  BY <1>1, <1>2, Zenon
  DEF Inv, TypeOK, ServerTypeOK, ClientTypeOK, Label, Reply, State, Message, Status
<1>11. QueueOK'
  BY <1>3, QueueStable, Zenon DEF Inv
<1>12. ActiveIsFront'
  BY <1>3, Zenon DEF Inv, ActiveIsFront, Active
<1>13. FrontOK'
  <2>1. \A d \in Client : d # c =>
          (Empty(d)' <=> Empty(d)) /\ Front(d)' = Front(d) /\ state'[d] = state[d]
    BY <1>3, FrontHome, Zenon
  <2>2. \A u \in Thread : Home[u] # c =>
          (pc'[u] = "queued" => pc[u] = "queued") /\ (u \in signalled => u \in signalled')
    BY <1>3, FrontHome, Zenon
  <2>3. ~Empty(c)' /\ pc'[Front(c)'] = "queued" =>
          Front(c)' \in signalled' /\ state'[c] \in {"LOCKED", "NONE"}
    BY <1>3, FrontHome, Zenon
  <2> QED BY <2>1, <2>2, <2>3, FrontStable, Zenon
<1>14. PhaseOK'
  <2> SUFFICES ASSUME NEW u \in Thread PROVE Phase(u)'
    BY Zenon DEF PhaseOK
  <2>1. CASE u = t
    BY <2>1, <1>3, Zenon DEF Phase, InAcquireRPC
  <2>2. CASE u # t /\ Home[u] = c
    <3>1. pc'[u] \in {"idle", "queued"} /\ u \notin signalled'
      BY <2>2, <1>3, Zenon
    <3> QED BY <3>1, Zenon DEF Phase, InAcquireRPC
  <2>3. CASE u # t /\ Home[u] # c
    <3>1. pc'[u] = pc[u] /\ (u \in signalled' <=> u \in signalled)
              /\ state'[Home[u]] = state[Home[u]]
      BY <2>3, <1>3, Zenon
    <3> QED BY <3>1, Zenon DEF Inv, PhaseOK, Phase
  <2> QED BY <2>1, <2>2, <2>3, Zenon
<1>15. ServerOK'
  BY <1>3, Zenon DEF Inv, ServerOK
<1>16. GrantOK'
  BY <1>3, <1>5, <1>7, <1>8, Zenon DEF Inv, GrantOK
<1>17. OwnerOK'
  <2>1. Home[t] = owner' /\ ret'[t] = "OK"
    BY <1>3, Zenon
  <2> QED BY <2>1, Zenon DEF OwnerOK
<1>18. RevokingOK'
  <2>1. \A u \in Thread : HandingBack(u)' =>
          HandingBack(u) /\ dst[u] # c /\ dst'[u] = dst[u]
    BY <1>3, Zenon DEF Inv, RevokingOK, HandingBack
  <2>2. \A d \in Client : d # c =>
          (Empty(d)' <=> Empty(d)) /\ Front(d)' = Front(d) /\ state'[d] = state[d]
    BY <1>3, Zenon
  <2>3. \A u \in Thread : pc[u] = "parked" /\ Home[u] # c => pc'[u] = "parked"
    BY <1>3, Zenon
  <2> QED BY <2>1, <2>2, <2>3, RevokingStable, Zenon
<1>19. RevokeOK'
  BY <1>3, Zenon DEF Inv, RevokeOK, RevokeInFlight
<1>20. MessageOK'
  <2>1. \A d \in Client : message'[d] = "REVOKE" => message[d] = "REVOKE"
    BY <1>3, Zenon
  <2>2. \A d \in Client : message'[d] = "REVOKE" /\ owner = d /\ status = "REVOKING" =>
          \/ owner' = d /\ status' = "REVOKING"
          \/ \E u \in Thread : Home[u] = d /\ pc'[u] \in {"retry", "return"}
    BY <1>3, Zenon
  <2>3. \A d \in Client : message'[d] = "REVOKE" /\ state[d] = "LOCKED" =>
          state'[d] = "LOCKED" \/ \E u \in Thread : Home[u] = d /\ pc'[u] = "release"
    BY <1>3, Zenon
  <2>4. \A u \in Thread : message'[Home[u]] = "REVOKE" =>
          /\ ret[u] = "OK" => ret'[u] = "OK" \/ state'[Home[u]] = "LOCKED"
          /\ pc[u] = "release" => pc'[u] \in {"release", "retry", "return"}
          /\ pc[u] \in {"retry", "return"} => pc'[u] \in {"retry", "return"}
    BY <1>3, Zenon
  <2>5. \A u \in Thread :
          pc'[u] \in {"release", "retry", "return"} => message'[Home[u]] = "REVOKE"
    BY <1>3, Zenon DEF Inv, MessageOK
  <2>6. \A d \in Client : message'[d] = "RETRY" => retrying' = d
    BY <1>3, <1>7, Zenon DEF Inv, MessageOK
  <2> QED BY <2>1, <2>2, <2>3, <2>4, <2>5, <2>6, MessageStable, Zenon
<1>21. WaitingOK'
  BY <1>3, Zenon DEF Inv, WaitingOK, ToldRetry
<1>22. RetryOK'
  BY <1>3, <1>6, <1>8, Zenon DEF Inv, RetryOK, RetryInFlight, ToldRetry
<1>23. KnownOK'
  BY <1>3, Zenon DEF Inv, KnownOK, ToldRetry
<1>24. NotLostOK'
  BY <1>3, Zenon DEF Inv, NotLostOK, RevokeInFlight
<1> QED BY <1>1, <1>2, <1>9, <1>10, <1>11, <1>12, <1>13, <1>14, <1>15, <1>16, <1>17,
           <1>18, <1>19, <1>20, <1>21, <1>22, <1>23, <1>24, Zenon DEF Inv

(* The server grants the lock to the client told to retry and revokes it   *)
(* at once, because others wait.                                           *)
LEMMA ServeRetryingMoreStep ==
  ASSUME Inv, NEW t \in Thread, NEW c \in Client, c = Home[t],
         ServeAcquire(t), status = "RETRYING", c = retrying, waiting # {}
  PROVE  Inv'
<1>1. /\ pc[t] = "acquire" /\ t \notin signalled /\ ret[t] = "RETRY"
      /\ state[c] = "ACQUIRING" /\ message[c] = "EMPTY"
      /\ c \notin waiting /\ owner # c
      /\ status = "RETRYING" /\ c = retrying /\ owner = NoClient /\ waiting # {}
  BY AcquireFacts, Zenon DEF ServeAcquire, Goto, Inv, ServerOK
<1>2. /\ pc' = [pc EXCEPT ![t] = "revoke"]
      /\ ret' = [ret EXCEPT ![t] = "OK"]
      /\ status' = "REVOKING"
      /\ owner' = c
      /\ retrying' = NoClient
      /\ dst' = [dst EXCEPT ![t] = c]
      /\ UNCHANGED <<waiting, state, message, threads, signalled, exited, nxt>>
  BY <1>1, Zenon
  DEF Inv, TypeOK, ServeAcquire, SrvAcquireNone, SrvAcquireLocked, SrvAcquireRevoking,
      SrvAcquireOther, SrvAcquireRetrying, Goto, clientVars
<1>3. /\ pc[t] = "acquire" /\ t \notin signalled /\ ret[t] = "RETRY"
      /\ state[c] = "ACQUIRING" /\ message[c] = "EMPTY"
      /\ c \notin waiting /\ owner # c
      /\ status = "RETRYING" /\ c = retrying /\ owner = NoClient /\ waiting # {}
      /\ \A u \in Thread : pc'[u] = IF u = t THEN "revoke" ELSE pc[u]
      /\ \A u \in Thread : ret'[u] = IF u = t THEN "OK" ELSE ret[u]
      /\ status' = "REVOKING"
      /\ owner' = c
      /\ retrying' = NoClient
      /\ \A u \in Thread : dst'[u] = IF u = t THEN c ELSE dst[u]
      /\ UNCHANGED <<waiting, state, message, threads, signalled, exited, nxt>>
      /\ \A u \in Thread : Home[u] \in Client
      /\ \A d \in Client : (Empty(d)' <=> Empty(d)) /\ Front(d)' = Front(d)
      /\ ~Empty(c) /\ t = Front(c)
      /\ \A u \in Thread : u # t /\ Home[u] = c =>
           pc[u] \in {"idle", "queued"} /\ u \notin signalled
  BY <1>1, <1>2, HomeAssumption, SameQueues, OneActive, Zenon
  DEF Inv, TypeOK, ClientTypeOK, Active
<1>4. \A u \in Thread : ~RevokeInFlight(u)
  BY <1>3, Zenon DEF Inv, RevokeOK
<1>5. \A u \in Thread : Home[u] = c => pc[u] \notin ToldRetry
  BY <1>3, Zenon DEF ToldRetry
<1>6. \A u \in Thread : ~RetryInFlight(u)
  BY <1>3, <1>5, Zenon DEF Inv, RetryOK
<1>7. \A d \in Client : state[d] \notin {"FREE", "LOCKED"} /\ message[d] # "RETRY"
  BY <1>3, ClientAssumption DEF Inv, GrantOK, MessageOK
<1>8. \A u \in Thread : pc[u] # "release" /\ ret[u] # "OK"
  BY <1>3, ClientAssumption, Zenon DEF Inv, GrantOK
<1>9. EmptyOK'
  BY <1>3, Zenon DEF Inv, EmptyOK
<1>10. TypeOK'
  BY <1>1, <1>2, Zenon
  DEF Inv, TypeOK, ServerTypeOK, ClientTypeOK, Label, Reply, State, Message, Status
<1>11. QueueOK'
  BY <1>3, QueueStable, Zenon DEF Inv
<1>12. ActiveIsFront'
  BY <1>3, Zenon DEF Inv, ActiveIsFront, Active
<1>13. FrontOK'
  <2>1. \A d \in Client : d # c =>
          (Empty(d)' <=> Empty(d)) /\ Front(d)' = Front(d) /\ state'[d] = state[d]
    BY <1>3, FrontHome, Zenon
  <2>2. \A u \in Thread : Home[u] # c =>
          (pc'[u] = "queued" => pc[u] = "queued") /\ (u \in signalled => u \in signalled')
    BY <1>3, FrontHome, Zenon
  <2>3. ~Empty(c)' /\ pc'[Front(c)'] = "queued" =>
          Front(c)' \in signalled' /\ state'[c] \in {"LOCKED", "NONE"}
    BY <1>3, FrontHome, Zenon
  <2> QED BY <2>1, <2>2, <2>3, FrontStable, Zenon
<1>14. PhaseOK'
  <2> SUFFICES ASSUME NEW u \in Thread PROVE Phase(u)'
    BY Zenon DEF PhaseOK
  <2>1. CASE u = t
    BY <2>1, <1>3, Zenon DEF Phase, InAcquireRPC
  <2>2. CASE u # t /\ Home[u] = c
    <3>1. pc'[u] \in {"idle", "queued"} /\ u \notin signalled'
      BY <2>2, <1>3, Zenon
    <3> QED BY <3>1, Zenon DEF Phase, InAcquireRPC
  <2>3. CASE u # t /\ Home[u] # c
    <3>1. pc'[u] = pc[u] /\ (u \in signalled' <=> u \in signalled)
              /\ state'[Home[u]] = state[Home[u]]
      BY <2>3, <1>3, Zenon
    <3> QED BY <3>1, Zenon DEF Inv, PhaseOK, Phase
  <2> QED BY <2>1, <2>2, <2>3, Zenon
<1>15. ServerOK'
  BY <1>3, Zenon DEF Inv, ServerOK
<1>16. GrantOK'
  <2>1. \A d \in Client : state'[d] \in {"FREE", "LOCKED"} => owner' = d
    BY <1>3, <1>7, Zenon DEF Inv, GrantOK
  <2>2. \A u \in Thread : ret'[u] = "OK" => pc'[u] \in {"revoke", "reply"} /\ owner' = Home[u]
    BY <1>3, <1>4, <1>5, <1>6, <1>7, <1>8, Zenon DEF Inv, GrantOK
  <2>3. \A u \in Thread : pc'[u] = "release" => owner' = Home[u] /\ status' = "REVOKING"
    BY <1>3, <1>4, <1>5, <1>6, Zenon DEF Inv, GrantOK
  <2> QED BY <2>1, <2>2, <2>3, Zenon DEF GrantOK
<1>17. OwnerOK'
  <2>1. Home[t] = owner' /\ ret'[t] = "OK"
    BY <1>3, Zenon
  <2> QED BY <2>1, Zenon DEF OwnerOK
<1>18. RevokingOK'
  <2>1. \A u \in Thread : HandingBack(u)' =>
          HandingBack(u) /\ dst[u] # c /\ dst'[u] = dst[u]
    BY <1>3, Zenon DEF Inv, RevokingOK, HandingBack
  <2>2. \A d \in Client : d # c =>
          (Empty(d)' <=> Empty(d)) /\ Front(d)' = Front(d) /\ state'[d] = state[d]
    BY <1>3, Zenon
  <2>3. \A u \in Thread : pc[u] = "parked" /\ Home[u] # c => pc'[u] = "parked"
    BY <1>3, Zenon
  <2> QED BY <2>1, <2>2, <2>3, RevokingStable, Zenon
<1>19. RevokeOK'
  BY <1>3 DEF Inv, RevokeOK, RevokeInFlight
<1>20. MessageOK'
  <2>1. \A d \in Client : message'[d] = "REVOKE" => message[d] = "REVOKE"
    BY <1>3, Zenon
  <2>2. \A d \in Client : message'[d] = "REVOKE" /\ owner = d /\ status = "REVOKING" =>
          \/ owner' = d /\ status' = "REVOKING"
          \/ \E u \in Thread : Home[u] = d /\ pc'[u] \in {"retry", "return"}
    BY <1>3, Zenon
  <2>3. \A d \in Client : message'[d] = "REVOKE" /\ state[d] = "LOCKED" =>
          state'[d] = "LOCKED" \/ \E u \in Thread : Home[u] = d /\ pc'[u] = "release"
    BY <1>3, Zenon
  <2>4. \A u \in Thread : message'[Home[u]] = "REVOKE" =>
          /\ ret[u] = "OK" => ret'[u] = "OK" \/ state'[Home[u]] = "LOCKED"
          /\ pc[u] = "release" => pc'[u] \in {"release", "retry", "return"}
          /\ pc[u] \in {"retry", "return"} => pc'[u] \in {"retry", "return"}
    BY <1>3, Zenon
  <2>5. \A u \in Thread :
          pc'[u] \in {"release", "retry", "return"} => message'[Home[u]] = "REVOKE"
    BY <1>3, Zenon DEF Inv, MessageOK
  <2>6. \A d \in Client : message'[d] = "RETRY" => retrying' = d
    BY <1>3, <1>7, Zenon DEF Inv, MessageOK
  <2> QED BY <2>1, <2>2, <2>3, <2>4, <2>5, <2>6, MessageStable, Zenon
<1>21. WaitingOK'
  BY <1>3 DEF Inv, WaitingOK, ToldRetry
<1>22. RetryOK'
  BY <1>3, <1>4, <1>6, <1>7, Zenon DEF Inv, RetryOK, RetryInFlight, ToldRetry
<1>23. KnownOK'
  BY <1>3 DEF Inv, KnownOK, ToldRetry
<1>24. NotLostOK'
  BY <1>3, Zenon DEF Inv, NotLostOK, RevokeInFlight
<1> QED BY <1>1, <1>2, <1>9, <1>10, <1>11, <1>12, <1>13, <1>14, <1>15, <1>16, <1>17,
           <1>18, <1>19, <1>20, <1>21, <1>22, <1>23, <1>24, Zenon DEF Inv

(* The server reads the owner after it has unlocked its mutex. *)
LEMMA ReadOwnerStep ==
  ASSUME Inv, NEW t \in Thread, NEW c \in Client, c = Home[t],
         ReadOwner(t)
  PROVE  Inv'
<1>1. /\ pc[t] = "revoke_read" /\ t \notin signalled /\ ret[t] = "RETRY"
      /\ state[c] = "ACQUIRING"
  BY Zenon
  DEF Inv, ReadOwner, Goto, PhaseOK, Phase, InAcquireRPC, GrantOK, TypeOK, Reply
<1>2. /\ pc' = [pc EXCEPT ![t] = "revoke"]
      /\ dst' = [dst EXCEPT ![t] = owner]
      /\ UNCHANGED <<status, owner, retrying, waiting, state, message, threads,
                     signalled, exited, ret, nxt>>
  BY <1>1, Zenon DEF ReadOwner, Goto, serverVars, clientVars
<1>3. /\ pc[t] = "revoke_read" /\ t \notin signalled /\ ret[t] = "RETRY"
      /\ state[c] = "ACQUIRING"
      /\ \A u \in Thread : pc'[u] = IF u = t THEN "revoke" ELSE pc[u]
      /\ \A u \in Thread : dst'[u] = IF u = t THEN owner ELSE dst[u]
      /\ UNCHANGED <<status, owner, retrying, waiting, state, message, threads,
                     signalled, exited, ret, nxt>>
      /\ \A u \in Thread : Home[u] \in Client
      /\ \A d \in Client : (Empty(d)' <=> Empty(d)) /\ Front(d)' = Front(d)
      /\ ~Empty(c) /\ t = Front(c)
      /\ \A u \in Thread : u # t /\ Home[u] = c =>
           pc[u] \in {"idle", "queued"} /\ u \notin signalled
  BY <1>1, <1>2, HomeAssumption, SameQueues, OneActive, Zenon
  DEF Inv, TypeOK, ClientTypeOK, Active
<1>4. EmptyOK' /\ ServerOK'
  BY <1>3, Zenon DEF Inv, EmptyOK, ServerOK
<1>5. TypeOK'
  BY <1>1, <1>2, Zenon
  DEF Inv, TypeOK, ServerTypeOK, ClientTypeOK, Label, Reply, State, Message, Status
<1>6. QueueOK'
  BY <1>3, QueueStable, Zenon DEF Inv
<1>7. ActiveIsFront'
  BY <1>3 DEF Inv, ActiveIsFront, Active
<1>8. FrontOK'
  <2>1. \A d \in Client : d # c =>
          (Empty(d)' <=> Empty(d)) /\ Front(d)' = Front(d) /\ state'[d] = state[d]
    BY <1>3, FrontHome, Zenon
  <2>2. \A u \in Thread : Home[u] # c =>
          (pc'[u] = "queued" => pc[u] = "queued") /\ (u \in signalled => u \in signalled')
    BY <1>3, FrontHome, Zenon
  <2>3. ~Empty(c)' /\ pc'[Front(c)'] = "queued" =>
          Front(c)' \in signalled' /\ state'[c] \in {"LOCKED", "NONE"}
    BY <1>3, FrontHome, Zenon
  <2> QED BY <2>1, <2>2, <2>3, FrontStable, Zenon
<1>9. PhaseOK'
  <2> SUFFICES ASSUME NEW u \in Thread PROVE Phase(u)'
    BY Zenon DEF PhaseOK
  <2>1. CASE u = t
    BY <2>1, <1>3, Zenon DEF Phase, InAcquireRPC
  <2>2. CASE u # t /\ Home[u] = c
    <3>1. pc'[u] \in {"idle", "queued"} /\ u \notin signalled'
      BY <2>2, <1>3, Zenon
    <3> QED BY <3>1, Zenon DEF Phase, InAcquireRPC
  <2>3. CASE u # t /\ Home[u] # c
    <3>1. pc'[u] = pc[u] /\ (u \in signalled' <=> u \in signalled)
              /\ state'[Home[u]] = state[Home[u]]
      BY <2>3, <1>3, Zenon
    <3> QED BY <3>1, Zenon DEF Inv, PhaseOK, Phase
  <2> QED BY <2>1, <2>2, <2>3, Zenon
<1>10. GrantOK'
  BY <1>3, Zenon DEF Inv, GrantOK
<1>11. OwnerOK'
  <2>1. \A d \in Client : state[d] \in {"FREE", "LOCKED"} => state'[d] \in {"FREE", "LOCKED"}
    BY <1>3, Zenon
  <2>2. \A u \in Thread : /\ ret[u] = "OK" => ret'[u] = "OK"
                          /\ pc[u] = "release" => pc'[u] = "release"
                          /\ pc[u] = "rv_release" =>
                               pc'[u] = "rv_release" /\ dst'[u] = dst[u]
    BY <1>3, Zenon
  <2> QED BY <1>3, <2>1, <2>2, OwnerStable, Zenon
<1>12. RevokingOK'
  <2>1. \A u \in Thread : HandingBack(u)' =>
          HandingBack(u) /\ dst[u] # c /\ dst'[u] = dst[u]
    BY <1>3, Zenon DEF Inv, RevokingOK, HandingBack
  <2>2. \A d \in Client : d # c =>
          (Empty(d)' <=> Empty(d)) /\ Front(d)' = Front(d) /\ state'[d] = state[d]
    BY <1>3, Zenon
  <2>3. \A u \in Thread : pc[u] = "parked" /\ Home[u] # c => pc'[u] = "parked"
    BY <1>3, Zenon
  <2> QED BY <2>1, <2>2, <2>3, RevokingStable, Zenon
<1>13. RevokeOK'
  BY <1>3, Zenon DEF Inv, RevokeOK, RevokeInFlight
<1>14. MessageOK'
  <2>1. \A d \in Client : message'[d] = "REVOKE" => message[d] = "REVOKE"
    BY <1>3, Zenon
  <2>2. \A d \in Client : message'[d] = "REVOKE" /\ owner = d /\ status = "REVOKING" =>
          \/ owner' = d /\ status' = "REVOKING"
          \/ \E u \in Thread : Home[u] = d /\ pc'[u] \in {"retry", "return"}
    BY <1>3, Zenon
  <2>3. \A d \in Client : message'[d] = "REVOKE" /\ state[d] = "LOCKED" =>
          state'[d] = "LOCKED" \/ \E u \in Thread : Home[u] = d /\ pc'[u] = "release"
    BY <1>3, Zenon
  <2>4. \A u \in Thread : message'[Home[u]] = "REVOKE" =>
          /\ ret[u] = "OK" => ret'[u] = "OK" \/ state'[Home[u]] = "LOCKED"
          /\ pc[u] = "release" => pc'[u] \in {"release", "retry", "return"}
          /\ pc[u] \in {"retry", "return"} => pc'[u] \in {"retry", "return"}
    BY <1>3, Zenon
  <2>5. \A u \in Thread :
          pc'[u] \in {"release", "retry", "return"} => message'[Home[u]] = "REVOKE"
    BY <1>3, Zenon DEF Inv, MessageOK
  <2>6. \A d \in Client : message'[d] = "RETRY" => retrying' = d
    BY <1>3, Zenon DEF Inv, MessageOK
  <2> QED BY <2>1, <2>2, <2>3, <2>4, <2>5, <2>6, MessageStable, Zenon
<1>15. WaitingOK'
  <2>1. \A d \in Client : d \in waiting' => message'[d] = message[d]
    BY <1>3, Zenon
  <2>2. \A u \in Thread :
          Home[u] \in waiting' /\ pc[u] \in ToldRetry /\ u \notin signalled =>
            pc'[u] \in ToldRetry /\ ret'[u] = ret[u] /\ u \notin signalled'
    BY <1>3, Zenon DEF ToldRetry
  <2> QED BY <1>3, <2>1, <2>2, WaitingKept, Zenon
<1>16. RetryOK'
  BY <1>3 DEF Inv, RetryOK, RetryInFlight, ToldRetry
<1>17. KnownOK'
  BY <1>3, Zenon DEF Inv, KnownOK, ToldRetry
<1>18. NotLostOK'
  BY <1>3, Zenon DEF Inv, NotLostOK, RevokeInFlight
<1> QED BY <1>1, <1>2, <1>4, <1>5, <1>6, <1>7, <1>8, <1>9, <1>10, <1>11, <1>12, <1>13,
           <1>14, <1>15, <1>16, <1>17, <1>18, Zenon DEF Inv

(* The server handles the release RPC of release. *)
LEMMA ServeReleaseStep ==
  ASSUME Inv, NEW t \in Thread, NEW c \in Client, c = Home[t],
         ServeRelease(t), pc[t] = "release", NEW b, b = Begin(waiting)
  PROVE  Inv'
<1>1. /\ pc[t] = "release" /\ t \notin signalled /\ ret[t] = "RETRY"
      /\ status = "REVOKING" /\ retrying = NoClient /\ owner \in Client
      /\ owner = c
      /\ state[owner] = "RELEASING"
      /\ message[owner] = "REVOKE"
  BY DEF Inv, GrantOK, PhaseOK, Phase, InAcquireRPC, MessageOK, TypeOK, ServerTypeOK,
         Reply, ServerOK, RevokeOK, RevokeInFlight, RevokingOK, HandingBack
<1>2. /\ pc' = [pc EXCEPT ![t] = "retry"]
      /\ nxt' = [nxt EXCEPT ![t] = b]
      /\ status' = "RETRYING"
      /\ owner' = NoClient
      /\ retrying' = b
      /\ waiting' = waiting \ {b}
      /\ UNCHANGED <<state, message, threads, signalled, exited, ret, dst>>
  BY <1>1, Zenon DEF ServeRelease, SrvRelease, Goto, clientVars
<1>3. /\ pc[t] = "release" /\ t \notin signalled /\ ret[t] = "RETRY"
      /\ status = "REVOKING" /\ retrying = NoClient /\ owner \in Client
      /\ owner = c
      /\ state[owner] = "RELEASING"
      /\ message[owner] = "REVOKE"
      /\ \A u \in Thread : pc'[u] = IF u = t THEN "retry" ELSE pc[u]
      /\ \A u \in Thread : nxt'[u] = IF u = t THEN b ELSE nxt[u]
      /\ status' = "RETRYING"
      /\ owner' = NoClient
      /\ retrying' = b
      /\ waiting' = waiting \ {b}
      /\ UNCHANGED <<state, message, threads, signalled, exited, ret, dst>>
      /\ \A u \in Thread : Home[u] \in Client
      /\ \A d \in Client : (Empty(d)' <=> Empty(d)) /\ Front(d)' = Front(d)
      /\ ~Empty(c) /\ t = Front(c)
      /\ \A u \in Thread : u # t /\ Home[u] = c =>
           pc[u] \in {"idle", "queued"} /\ u \notin signalled
  BY <1>1, <1>2, HomeAssumption, SameQueues, OneActive, Zenon
  DEF Inv, TypeOK, ClientTypeOK, Active
<1>4. b \in waiting /\ b \in Client
  BY <1>3, BeginIsMember, Zenon DEF Inv, TypeOK, ServerTypeOK, ServerOK
<1>5. \A u \in Thread : ~RevokeInFlight(u)
  BY <1>3, Zenon DEF Inv, RevokeOK
<1>6. \A u \in Thread : ret[u] # "OK" /\ (pc[u] = "release" => u = t)
  <2>1. \A u \in Thread : ret[u] = "OK" \/ pc[u] = "release" =>
          Home[u] = c /\ pc[u] \in {"revoke", "reply", "release"}
    BY <1>3, Zenon DEF Inv, GrantOK
  <2> QED BY <2>1, <1>3, Zenon
<1>7. \A d \in Client : state[d] \notin {"FREE", "LOCKED"}
  BY <1>3, Zenon DEF Inv, GrantOK
<1>8. \A d \in Client : message[d] # "RETRY"
  BY <1>3, ClientAssumption, Zenon DEF Inv, MessageOK
<1>9. \A u \in Thread : ~RetryInFlight(u)
  BY <1>3, Zenon DEF Inv, RetryOK
<1>10. EmptyOK'
  BY <1>3, Zenon DEF Inv, EmptyOK
<1>11. TypeOK'
  BY <1>1, <1>2, <1>4, Zenon DEF Inv, TypeOK, ServerTypeOK, ClientTypeOK, Label, Status
<1>12. QueueOK'
  BY <1>3, QueueStable, Zenon DEF Inv
<1>13. ActiveIsFront'
  BY <1>3, Zenon DEF Inv, ActiveIsFront, Active
<1>14. FrontOK'
  <2>1. \A d \in Client : d # c =>
          (Empty(d)' <=> Empty(d)) /\ Front(d)' = Front(d) /\ state'[d] = state[d]
    BY <1>3, FrontHome, Zenon
  <2>2. \A u \in Thread : Home[u] # c =>
          (pc'[u] = "queued" => pc[u] = "queued") /\ (u \in signalled => u \in signalled')
    BY <1>3, FrontHome, Zenon
  <2>3. ~Empty(c)' /\ pc'[Front(c)'] = "queued" =>
          Front(c)' \in signalled' /\ state'[c] \in {"LOCKED", "NONE"}
    BY <1>3, FrontHome, Zenon
  <2> QED BY <2>1, <2>2, <2>3, FrontStable, Zenon
<1>15. PhaseOK'
  <2> SUFFICES ASSUME NEW u \in Thread PROVE Phase(u)'
    BY Zenon DEF PhaseOK
  <2>1. CASE u = t
    BY <2>1, <1>3, Zenon DEF Phase, InAcquireRPC
  <2>2. CASE u # t /\ Home[u] = c
    <3>1. pc'[u] \in {"idle", "queued"} /\ u \notin signalled'
      BY <2>2, <1>3, Zenon
    <3> QED BY <3>1, Zenon DEF Phase, InAcquireRPC
  <2>3. CASE u # t /\ Home[u] # c
    <3>1. pc'[u] = pc[u] /\ (u \in signalled' <=> u \in signalled)
              /\ state'[Home[u]] = state[Home[u]]
      BY <2>3, <1>3, Zenon
    <3> QED BY <3>1, Zenon DEF Inv, PhaseOK, Phase
  <2> QED BY <2>1, <2>2, <2>3, Zenon
<1>16. ServerOK'
  BY <1>3, <1>4, ClientAssumption, Zenon DEF Inv, ServerOK, TypeOK, ServerTypeOK
<1>17. GrantOK'
  BY <1>3, Zenon DEF Inv, GrantOK
<1>18. OwnerOK'
  BY <1>3, ClientAssumption, Zenon DEF OwnerOK
<1>19. RevokingOK'
  <2>0. \A u \in Thread : HandingBack(u)' => HandingBack(u)
    BY <1>3, Zenon DEF HandingBack
  <2>1. \A u \in Thread : HandingBack(u)' =>
          HandingBack(u) /\ dst[u] # NoClient /\ dst'[u] = dst[u]
    BY <2>0, <1>3, ClientAssumption, Zenon DEF Inv, RevokingOK
  <2>2. \A d \in Client : d # NoClient =>
          (Empty(d)' <=> Empty(d)) /\ Front(d)' = Front(d) /\ state'[d] = state[d]
    BY <1>3, Zenon
  <2>3. \A u \in Thread : pc[u] = "parked" /\ Home[u] # NoClient => pc'[u] = "parked"
    BY <1>3, Zenon
  <2> QED BY <2>1, <2>2, <2>3, RevokingStable, Zenon
<1>20. RevokeOK'
  BY <1>3, Zenon DEF Inv, RevokeOK, RevokeInFlight
<1>21. MessageOK'
  <2>1. \A d \in Client : message'[d] = "REVOKE" => message[d] = "REVOKE"
    BY <1>3, Zenon
  <2>2. \A d \in Client : message'[d] = "REVOKE" /\ owner = d /\ status = "REVOKING" =>
          \/ owner' = d /\ status' = "REVOKING"
          \/ \E u \in Thread : Home[u] = d /\ pc'[u] \in {"retry", "return"}
    BY <1>3, Zenon
  <2>3. \A d \in Client : message'[d] = "REVOKE" /\ state[d] = "LOCKED" =>
          state'[d] = "LOCKED" \/ \E u \in Thread : Home[u] = d /\ pc'[u] = "release"
    BY <1>3, Zenon
  <2>4. \A u \in Thread : message'[Home[u]] = "REVOKE" =>
          /\ ret[u] = "OK" => ret'[u] = "OK" \/ state'[Home[u]] = "LOCKED"
          /\ pc[u] = "release" => pc'[u] \in {"release", "retry", "return"}
          /\ pc[u] \in {"retry", "return"} => pc'[u] \in {"retry", "return"}
    BY <1>3, Zenon
  <2>5. \A u \in Thread :
          pc'[u] \in {"release", "retry", "return"} => message'[Home[u]] = "REVOKE"
    BY <1>3, Zenon DEF Inv, MessageOK
  <2>6. \A d \in Client : message'[d] = "RETRY" => retrying' = d
    BY <1>3, <1>8, Zenon DEF Inv, MessageOK
  <2> QED BY <2>1, <2>2, <2>3, <2>4, <2>5, <2>6, MessageStable, Zenon
<1>22. WaitingOK'
  <2>1. \A d \in Client : d \in waiting' => message'[d] = message[d]
    BY <1>3, Zenon
  <2>2. \A u \in Thread :
          Home[u] \in waiting' /\ pc[u] \in ToldRetry /\ u \notin signalled =>
            pc'[u] \in ToldRetry /\ ret'[u] = ret[u] /\ u \notin signalled'
    BY <1>3, Zenon DEF ToldRetry
  <2> QED BY <1>3, <2>1, <2>2, WaitingKept, Zenon
<1>23. RetryOK'
  <2>1. PICK u \in Thread : /\ Home[u] = b /\ pc[u] \in ToldRetry
                            /\ ret[u] = "RETRY" /\ u \notin signalled
    BY <1>4, Zenon DEF Inv, WaitingOK
  <2>2. message[b] = "EMPTY"
    BY <1>4, Zenon DEF Inv, WaitingOK
  <2>3. \A v \in Thread : RetryInFlight(v)' <=> v = t
    BY <1>3, <1>9, Zenon DEF RetryInFlight
  <2>4. pc'[u] \in ToldRetry
    BY <2>1, <1>3, Zenon DEF ToldRetry
  <2>5. Home[u] = retrying' /\ ret'[u] = "RETRY" /\ u \notin signalled'
            /\ message'[retrying'] = "EMPTY"
    BY <2>1, <2>2, <1>3, Zenon
  <2>6. nxt'[t] = retrying' /\ status' = "RETRYING"
    BY <1>3, Zenon
  <2> QED BY <2>3, <2>4, <2>5, <2>6, Zenon DEF RetryOK
<1>24. KnownOK'
  BY <1>3, ClientAssumption, Zenon DEF Inv, KnownOK, ToldRetry
<1>25. NotLostOK'
  BY <1>3, Zenon DEF Inv, NotLostOK, RevokeInFlight
<1> QED BY <1>1, <1>2, <1>10, <1>11, <1>12, <1>13, <1>14, <1>15, <1>16, <1>17, <1>18,
           <1>19, <1>20, <1>21, <1>22, <1>23, <1>24, <1>25, Zenon DEF Inv

(* The server handles the release RPC of revoke_handler. *)
LEMMA ServeReleaseRevokedStep ==
  ASSUME Inv, NEW t \in Thread, NEW c \in Client, c = Home[t],
         ServeRelease(t), pc[t] = "rv_release", NEW b, b = Begin(waiting)
  PROVE  Inv'
<1>1. /\ pc[t] = "rv_release" /\ t \notin signalled /\ ret[t] = "RETRY"
      /\ status = "REVOKING" /\ retrying = NoClient /\ owner \in Client
      /\ owner = dst[t]
      /\ state[owner] = "RELEASING"
      /\ message[owner] # "REVOKE" /\ state[c] = "ACQUIRING"
  BY DEF Inv, GrantOK, PhaseOK, Phase, InAcquireRPC, MessageOK, TypeOK, ServerTypeOK,
         Reply, ServerOK, RevokeOK, RevokeInFlight, RevokingOK, HandingBack
<1>2. /\ pc' = [pc EXCEPT ![t] = "rv_retry"]
      /\ nxt' = [nxt EXCEPT ![t] = b]
      /\ status' = "RETRYING"
      /\ owner' = NoClient
      /\ retrying' = b
      /\ waiting' = waiting \ {b}
      /\ UNCHANGED <<state, message, threads, signalled, exited, ret, dst>>
  BY <1>1, Zenon DEF ServeRelease, SrvRelease, Goto, clientVars
<1>3. /\ pc[t] = "rv_release" /\ t \notin signalled /\ ret[t] = "RETRY"
      /\ status = "REVOKING" /\ retrying = NoClient /\ owner \in Client
      /\ owner = dst[t]
      /\ state[owner] = "RELEASING"
      /\ message[owner] # "REVOKE" /\ state[c] = "ACQUIRING"
      /\ \A u \in Thread : pc'[u] = IF u = t THEN "rv_retry" ELSE pc[u]
      /\ \A u \in Thread : nxt'[u] = IF u = t THEN b ELSE nxt[u]
      /\ status' = "RETRYING"
      /\ owner' = NoClient
      /\ retrying' = b
      /\ waiting' = waiting \ {b}
      /\ UNCHANGED <<state, message, threads, signalled, exited, ret, dst>>
      /\ \A u \in Thread : Home[u] \in Client
      /\ \A d \in Client : (Empty(d)' <=> Empty(d)) /\ Front(d)' = Front(d)
      /\ ~Empty(c) /\ t = Front(c)
      /\ \A u \in Thread : u # t /\ Home[u] = c =>
           pc[u] \in {"idle", "queued"} /\ u \notin signalled
  BY <1>1, <1>2, HomeAssumption, SameQueues, OneActive, Zenon
  DEF Inv, TypeOK, ClientTypeOK, Active
<1>4. b \in waiting /\ b \in Client
  BY <1>3, BeginIsMember, Zenon DEF Inv, TypeOK, ServerTypeOK, ServerOK
<1>5. \A u \in Thread : RevokeInFlight(u) => u = t
  BY <1>3, Zenon DEF Inv, RevokeOK, RevokeInFlight
<1>6. \A u \in Thread : ret[u] # "OK" /\ pc[u] # "release"
  <2>1. \A u \in Thread : pc[u] # "release"
    BY <1>3 DEF Inv, GrantOK, MessageOK
  <2> SUFFICES ASSUME NEW u \in Thread, ret[u] = "OK" PROVE FALSE
    BY <2>1, Zenon
  <2>2. Home[u] = owner /\ pc[u] \in {"revoke", "reply"}
    BY Zenon DEF Inv, GrantOK
  <2>3. ~Empty(owner) /\ u = Front(owner)
    BY <2>2, OneActive, Zenon DEF Active
  <2>4. ~Empty(owner) => pc[Front(owner)] = "parked"
    BY <1>3, Zenon DEF Inv, RevokingOK, HandingBack
  <2> QED BY <2>2, <2>3, <2>4, Zenon
<1>7. \A d \in Client : state[d] \notin {"FREE", "LOCKED"}
  BY <1>3, Zenon DEF Inv, GrantOK
<1>8. \A d \in Client : message[d] # "RETRY"
  BY <1>3, ClientAssumption, Zenon DEF Inv, MessageOK
<1>9. \A u \in Thread : ~RetryInFlight(u)
  BY <1>3, Zenon DEF Inv, RetryOK
<1>10. EmptyOK'
  BY <1>3, Zenon DEF Inv, EmptyOK
<1>11. TypeOK'
  BY <1>1, <1>2, <1>4, Zenon DEF Inv, TypeOK, ServerTypeOK, ClientTypeOK, Label, Status
<1>12. QueueOK'
  BY <1>3, QueueStable, Zenon DEF Inv
<1>13. ActiveIsFront'
  BY <1>3, Zenon DEF Inv, ActiveIsFront, Active
<1>14. FrontOK'
  <2>1. \A d \in Client : d # c =>
          (Empty(d)' <=> Empty(d)) /\ Front(d)' = Front(d) /\ state'[d] = state[d]
    BY <1>3, FrontHome, Zenon
  <2>2. \A u \in Thread : Home[u] # c =>
          (pc'[u] = "queued" => pc[u] = "queued") /\ (u \in signalled => u \in signalled')
    BY <1>3, FrontHome, Zenon
  <2>3. ~Empty(c)' /\ pc'[Front(c)'] = "queued" =>
          Front(c)' \in signalled' /\ state'[c] \in {"LOCKED", "NONE"}
    BY <1>3, FrontHome, Zenon
  <2> QED BY <2>1, <2>2, <2>3, FrontStable, Zenon
<1>15. PhaseOK'
  <2> SUFFICES ASSUME NEW u \in Thread PROVE Phase(u)'
    BY Zenon DEF PhaseOK
  <2>1. CASE u = t
    BY <2>1, <1>3, Zenon DEF Phase, InAcquireRPC
  <2>2. CASE u # t /\ Home[u] = c
    <3>1. pc'[u] \in {"idle", "queued"} /\ u \notin signalled'
      BY <2>2, <1>3, Zenon
    <3> QED BY <3>1, Zenon DEF Phase, InAcquireRPC
  <2>3. CASE u # t /\ Home[u] # c
    <3>1. pc'[u] = pc[u] /\ (u \in signalled' <=> u \in signalled)
              /\ state'[Home[u]] = state[Home[u]]
      BY <2>3, <1>3, Zenon
    <3> QED BY <3>1, Zenon DEF Inv, PhaseOK, Phase
  <2> QED BY <2>1, <2>2, <2>3, Zenon
<1>16. ServerOK'
  BY <1>3, <1>4, ClientAssumption, Zenon DEF Inv, ServerOK, TypeOK, ServerTypeOK
<1>17. GrantOK'
  <2>1. \A d \in Client : state'[d] \in {"FREE", "LOCKED"} => owner' = d
    BY <1>3, Zenon DEF Inv, GrantOK
  <2>2. \A u \in Thread : ret'[u] = "OK" => pc'[u] \in {"revoke", "reply"} /\ owner' = Home[u]
    BY <1>3, <1>6, Zenon DEF Inv, GrantOK
  <2>3. \A u \in Thread : pc'[u] = "release" => owner' = Home[u] /\ status' = "REVOKING"
    BY <1>3, <1>4, <1>5, <1>6, <1>7, <1>8, <1>9, Zenon DEF Inv, GrantOK
  <2> QED BY <2>1, <2>2, <2>3, Zenon DEF GrantOK
<1>18. OwnerOK'
  BY <1>3, ClientAssumption, Zenon DEF OwnerOK
<1>19. RevokingOK'
  <2>0. \A u \in Thread : HandingBack(u)' => HandingBack(u)
    BY <1>3, Zenon DEF HandingBack
  <2>1. \A u \in Thread : HandingBack(u)' =>
          HandingBack(u) /\ dst[u] # NoClient /\ dst'[u] = dst[u]
    BY <2>0, <1>3, ClientAssumption, Zenon DEF Inv, RevokingOK
  <2>2. \A d \in Client : d # NoClient =>
          (Empty(d)' <=> Empty(d)) /\ Front(d)' = Front(d) /\ state'[d] = state[d]
    BY <1>3, Zenon
  <2>3. \A u \in Thread : pc[u] = "parked" /\ Home[u] # NoClient => pc'[u] = "parked"
    BY <1>3, Zenon
  <2> QED BY <2>1, <2>2, <2>3, RevokingStable, Zenon
<1>20. RevokeOK'
  BY <1>3, Zenon DEF Inv, RevokeOK, RevokeInFlight
<1>21. MessageOK'
  <2>1. \A d \in Client : message'[d] = "REVOKE" => message[d] = "REVOKE"
    BY <1>3, Zenon
  <2>2. \A d \in Client : message'[d] = "REVOKE" /\ owner = d /\ status = "REVOKING" =>
          \/ owner' = d /\ status' = "REVOKING"
          \/ \E u \in Thread : Home[u] = d /\ pc'[u] \in {"retry", "return"}
    BY <1>3, Zenon
  <2>3. \A d \in Client : message'[d] = "REVOKE" /\ state[d] = "LOCKED" =>
          state'[d] = "LOCKED" \/ \E u \in Thread : Home[u] = d /\ pc'[u] = "release"
    BY <1>3, Zenon
  <2>4. \A u \in Thread : message'[Home[u]] = "REVOKE" =>
          /\ ret[u] = "OK" => ret'[u] = "OK" \/ state'[Home[u]] = "LOCKED"
          /\ pc[u] = "release" => pc'[u] \in {"release", "retry", "return"}
          /\ pc[u] \in {"retry", "return"} => pc'[u] \in {"retry", "return"}
    BY <1>3, Zenon
  <2>5. \A u \in Thread :
          pc'[u] \in {"release", "retry", "return"} => message'[Home[u]] = "REVOKE"
    BY <1>3, Zenon DEF Inv, MessageOK
  <2>6. \A d \in Client : message'[d] = "RETRY" => retrying' = d
    BY <1>3, <1>8, Zenon DEF Inv, MessageOK
  <2> QED BY <2>1, <2>2, <2>3, <2>4, <2>5, <2>6, MessageStable, Zenon
<1>22. WaitingOK'
  <2>1. \A d \in Client : d \in waiting' => message'[d] = message[d]
    BY <1>3, Zenon
  <2>2. \A u \in Thread :
          Home[u] \in waiting' /\ pc[u] \in ToldRetry /\ u \notin signalled =>
            pc'[u] \in ToldRetry /\ ret'[u] = ret[u] /\ u \notin signalled'
    BY <1>3, Zenon DEF ToldRetry
  <2> QED BY <1>3, <2>1, <2>2, WaitingKept, Zenon
<1>23. RetryOK'
  <2>1. PICK u \in Thread : /\ Home[u] = b /\ pc[u] \in ToldRetry
                            /\ ret[u] = "RETRY" /\ u \notin signalled
    BY <1>4, Zenon DEF Inv, WaitingOK
  <2>2. message[b] = "EMPTY"
    BY <1>4, Zenon DEF Inv, WaitingOK
  <2>3. \A v \in Thread : RetryInFlight(v)' <=> v = t
    BY <1>3, <1>9, Zenon DEF RetryInFlight
  <2>4. pc'[u] \in ToldRetry
    BY <2>1, <1>3, Zenon DEF ToldRetry
  <2>5. Home[u] = retrying' /\ ret'[u] = "RETRY" /\ u \notin signalled'
            /\ message'[retrying'] = "EMPTY"
    BY <2>1, <2>2, <1>3, Zenon
  <2>6. nxt'[t] = retrying' /\ status' = "RETRYING"
    BY <1>3, Zenon
  <2> QED BY <2>3, <2>4, <2>5, <2>6, Zenon DEF RetryOK
<1>24. KnownOK'
  BY <1>3, ClientAssumption, Zenon DEF Inv, KnownOK, ToldRetry
<1>25. NotLostOK'
  BY <1>3, Zenon DEF Inv, NotLostOK, RevokeInFlight
<1> QED BY <1>1, <1>2, <1>10, <1>11, <1>12, <1>13, <1>14, <1>15, <1>16, <1>17, <1>18,
           <1>19, <1>20, <1>21, <1>22, <1>23, <1>24, <1>25, Zenon DEF Inv

=============================================================================
