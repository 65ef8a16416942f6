------------------------------- MODULE RpcCall --------------------------------
(***************************************************************************)
(* One remote procedure call of this system, from the client stub's        *)
(* cl->call(proc, a1, .., r) to the value it returns: the templates of     *)
(* src/rpc/rpc.h on both sides (rpcc::call and call_m, rpcs::reg), the     *)
(* stubs that call them and the handlers that the servers register.        *)
(*                                                                         *)
(* The two sides agree on nothing but the procedure number.  The argument  *)
(* types on each side come from different template instantiations, in      *)
(* different programs, and nothing but the bytes connects them.            *)
(*                                                                         *)
(* The transport below (call1, dispatch, retransmission, the at-most-once  *)
(* table) is in librpc.a, without source: here it delivers the request to  *)
(* the handler registered for its procedure, and the reply to its caller.  *)
(***************************************************************************)
EXTENDS Marshall

CONSTANTS
  Stub,       \* the stubs that are called
  Xid         \* request numbers

(* What each stub puts on the wire, and the result type it expects.        *)
(* lock_client_cache calls acquire and release with its lid and id, the    *)
(* servers call back with a lid or an extent id, extent_client passes its  *)
(* own id first, lock_client and demo_client pass cl->id() first.          *)
Calls ==
  [acquire   |-> [args |-> <<ULL, Str>>, r |-> Int4],
   release   |-> [args |-> <<ULL, Str>>, r |-> Int4],
   lock_stat |-> [args |-> <<Int4, ULL>>, r |-> Int4],
   revoke    |-> [args |-> <<ULL>>, r |-> Int4],
   retry     |-> [args |-> <<ULL>>, r |-> Int4],
   create    |-> [args |-> <<Str, Int4>>, r |-> ULL],
   put       |-> [args |-> <<Str, ULL, Str>>, r |-> Int4],
   get       |-> [args |-> <<Str, ULL>>, r |-> Str],
   getattr   |-> [args |-> <<Str, ULL>>, r |-> Attr],
   remove    |-> [args |-> <<Str, ULL>>, r |-> Int4],
   flush     |-> [args |-> <<ULL>>, r |-> Int4],
   clear     |-> [args |-> <<ULL>>, r |-> Int4],
   sync_meta |-> [args |-> <<ULL>>, r |-> Attr],
   demo_stat |-> [args |-> <<Int4, ULL>>, r |-> Int4]]

(* The handlers lock_smain, extent_smain, demo_server, lock_client_cache   *)
(* and extent_client register: lock_server_cache::stat takes a lid only.   *)
Handlers ==
  [Calls EXCEPT !["lock_stat"] = [args |-> <<ULL>>, r |-> Int4]]

(* The procedure numbers of the four protocol headers, folded to a byte.   *)
(* demo_protocol::stat is lock_protocol::acquire's number, on a server of  *)
(* its own.                                                                *)
Proc ==
  [put |-> 97, get |-> 98, getattr |-> 99, remove |-> 100, create |-> 101,
   acquire |-> 113, release |-> 114, lock_stat |-> 115, demo_stat |-> 113,
   revoke |-> 129, retry |-> 130, flush |-> 145, clear |-> 146, sync_meta |-> 147]

unmarshal_args_failure == -2

(* The values of a type that a call carries here. *)
Value(T) ==
  CASE T.k = "int" -> {0, Base ^ 4 - 1}
    [] T.k = "ull" -> {1, Base ^ 4, Base ^ 8 - 1}
    [] T.k = "string" -> {<<>>, <<1>>, <<0, 0, 0, 1>>}
    [] T.k = "struct" -> {[i \in 1 .. Len(T.of) |-> i], [i \in 1 .. Len(T.of) |-> Base ^ 4 - i]}

(* The status a handler's method returns: OK or one of the errors for the  *)
(* protocols at large, always OK for lock_server_cache::stat.              *)
Status(stub) == IF stub = "lock_stat" THEN {0} ELSE {0, 1, 4}

(* Argument lists for a stub. *)
ArgLists(Ts) ==
  FoldLeft(LAMBDA acc, T : {Append(a, v) : a \in acc, v \in Value(T)}, {<<>>}, Ts)

(* An int read from the wire is signed. *)
Signed(n) == IF n >= Base ^ 4 \div 2 THEN n - Base ^ 4 ELSE n

VARIABLES
  call,     \* the stub, the arguments it was given and its request number
  stage,    \* how far the call has come
  wire,     \* the bytes in flight
  args,     \* what the handler's method was given
  answer,   \* the method's status and its r
  back      \* what the stub's caller gets: the status and r

vars == <<call, stage, wire, args, answer, back>>

None == <<>>

Init ==
  /\ \E s \in Stub, x \in Xid : \E a \in ArgLists(Calls[s].args) :
       call = [stub |-> s, args |-> a, xid |-> x]
  /\ stage = "calling"
  /\ wire = <<>> /\ args = None /\ answer = None /\ back = None

-----------------------------------------------------------------------------
(* Mutants. *)

(* A template that unmarshals its arguments and does not ask okdone(). *)
MutantUnmarshal ==
  /\ stage = "request"
  /\ LET g == GetAll(Handlers[call.stub].args, Unmarshall(wire))
     IN  /\ args' = g.v
         /\ stage' = "invoke"
  /\ UNCHANGED <<call, wire, answer, back>>

(* A method whose r is not marshalled when it reports an error. *)
MutantInvoke ==
  /\ stage = "invoke"
  /\ \E b \in Status(call.stub), r \in Value(Handlers[call.stub].r) :
       /\ answer' = <<b, r>>
       /\ wire' = WithSize(PackHeader(
                    Marshalled(IF b = 0 THEN <<Handlers[call.stub].r>> ELSE <<>>, <<r>>),
                    <<call.xid, b>>))
  /\ stage' = "reply"
  /\ UNCHANGED <<call, args, back>>

-----------------------------------------------------------------------------
(* rpcc::call: the arguments into a marshall in order, then the header. *)
Call ==
  /\ stage = "calling"
  /\ wire' = WithSize(PackHeader(Marshalled(Calls[call.stub].args, call.args),
                                 <<call.xid, Proc[call.stub], 0, 0, 0>>))
  /\ stage' = "request"
  /\ UNCHANGED <<call, args, answer, back>>

(* The reply of a handler that failed before its method: a header alone. *)
Fail(code) ==
  /\ wire' = WithSize(PackHeader(Marshalled(<<>>, <<>>), <<call.xid, code % Base ^ 4>>))
  /\ stage' = "reply"
  /\ UNCHANGED <<call, args, answer, back>>

(* reg's h1::fn up to the method: every argument, then okdone(). *)
Unmarshal ==
  /\ stage = "request"
  /\ LET g == GetAll(Handlers[call.stub].args, Unmarshall(wire))
     IN  \/ /\ Okdone(g.u)
            /\ args' = g.v
            /\ stage' = "invoke"
            /\ UNCHANGED <<call, wire, answer, back>>
         \/ ~Okdone(g.u) /\ Fail(unmarshal_args_failure)

(* reg's h1::fn from the method on: r is marshalled whatever the status. *)
Invoke ==
  /\ stage = "invoke"
  /\ \E b \in Status(call.stub), r \in Value(Handlers[call.stub].r) :
       /\ answer' = <<b, r>>
       /\ wire' = WithSize(PackHeader(Marshalled(<<Handlers[call.stub].r>>, <<r>>),
                                      <<call.xid, b>>))
  /\ stage' = "reply"
  /\ UNCHANGED <<call, args, back>>

(* rpcc::call_m: a negative status returns at once and leaves r alone; a   *)
(* reply that does not unmarshal into r is VERIFY(0).                      *)
CallM ==
  /\ stage = "reply"
  /\ LET ret == Signed(UnpackHeader(wire, 2)[2])
         g == Get(Calls[call.stub].r, Unmarshall(wire))
     IN  \/ /\ ret < 0
            /\ back' = <<ret>>
            /\ stage' = "returned"
         \/ /\ ret >= 0
            /\ back' = <<ret, g.v>>
            /\ stage' = IF Okdone(g.u) THEN "returned" ELSE "aborted"
  /\ UNCHANGED <<call, wire, args, answer>>

Next == Call \/ Unmarshal \/ Invoke \/ CallM

Spec == Init /\ [][Next]_vars

-----------------------------------------------------------------------------
(* A pdu in flight says in its header what the sender put there, its size  *)
(* word is the number of bytes on the wire, and the handler's method is    *)
(* given exactly what the stub was given: every argument in its place, at  *)
(* its full width, whatever bytes it holds.                                *)
ArgsArrive ==
  /\ args # None => args = call.args
  /\ wire # <<>> =>
       /\ Number(SubSeq(wire, 1, Width["int"])) = Len(wire)
       /\ UnpackHeader(wire, 1) = <<call.xid>>
       /\ stage = "request" => UnpackHeader(wire, 2)[2] = Proc[call.stub]

(* The stub's caller gets the status and the r of the method, and a call   *)
(* that reached its method never aborts the client in call_m.              *)
ReplyArrives ==
  /\ stage # "aborted"
  /\ stage = "returned" /\ answer # None => back = answer

(* A vector and a map of the strings of a call survive marshall,           *)
(* get_content, take_content and unmarshall.                               *)
ContainersArrive ==
  LET pass(T, v) == GetAll(<<T>>, Unmarshall(Marshalled(<<T>>, <<v>>)))
      arrives(T, v) == pass(T, v).v = <<v>> /\ Okdone(pass(T, v).u)
      strings == {call.args[i] : i \in {j \in DOMAIN call.args : Calls[call.stub].args[j] = Str}}
  IN  /\ \A n \in 0 .. 2 : \A v \in [1 .. n -> strings] : arrives(Vector(Str), v)
      /\ \A ks \in SUBSET {0, 1, 7} : \A d \in [ks -> strings] : arrives(Map(Int4, Str), d)

=============================================================================
