------------------------------- MODULE Marshall -------------------------------
(***************************************************************************)
(* The wire format of src/rpc/marshall.h and of extent_protocol.h's attr:  *)
(* values as sequences of bytes behind a fixed-size header.  A byte is a   *)
(* number below Base, so that an int (four bytes) and an unsigned long     *)
(* long (eight) keep their widths and TLC can still compute with them.     *)
(***************************************************************************)
EXTENDS Integers, Sequences, SequencesExt, FiniteSets

CONSTANT Base

ASSUME BaseAssumption == Base \in Nat /\ Base > 1

(* Types, named as the code names them. *)
Char == [k |-> "char"]
Int4 == [k |-> "int"]
ULL == [k |-> "ull"]
Str == [k |-> "string"]
Vector(T) == [k |-> "vector", of |-> T]
Map(A, B) == [k |-> "map", key |-> A, val |-> B]
Struct(Ts) == [k |-> "struct", of |-> Ts]

(* extent_protocol::attr: type, atime, mtime, ctime and size. *)
Attr == Struct(<<Int4, Int4, Int4, Int4, Int4>>)

Width == [char |-> 1, int |-> 4, ull |-> 8]

(* rpc_sz_t, then the larger of req_header and reply_header. *)
RPC_HEADER_SZ == (1 + 5) * Width["int"]

(* A number in n bytes, most significant first. *)
Bytes(v, n) == [i \in 1 .. n |-> (v \div Base ^ (n - i)) % Base]

Number(s) == FoldLeft(LAMBDA acc, b : acc * Base + b, 0, s)

-----------------------------------------------------------------------------
(* Mutants: how the operators below could plausibly be wrong. *)

(* A read that refuses the last byte of the buffer. *)
MutantTake(u, n) ==
  IF u.ok /\ u.ind + n < Len(u.buf)
  THEN [v |-> SubSeq(u.buf, u.ind + 1, u.ind + n), u |-> [u EXCEPT !.ind = @ + n]]
  ELSE [v |-> [i \in 1 .. n |-> 0], u |-> [u EXCEPT !.ok = FALSE]]

-----------------------------------------------------------------------------
(* marshall's << for a sequence of types and values. *)
PutAll(Put(_, _), Ts, vs) ==
  FlattenSeq([i \in 1 .. Len(Ts) |-> Put(Ts[i], vs[i])])

RECURSIVE Put(_, _)

(* marshall's operator<< of a value. *)
Put(T, v) ==
  CASE T.k \in DOMAIN Width -> Bytes(v, Width[T.k])
    [] T.k = "string" -> Bytes(Len(v), Width["int"]) \o v
    [] T.k = "vector" -> Bytes(Len(v), Width["int"]) \o FlattenSeq([i \in 1 .. Len(v) |-> Put(T.of, v[i])])
    [] T.k = "struct" -> PutAll(Put, T.of, v)
    [] T.k = "map" -> Bytes(Cardinality(DOMAIN v), Width["int"])
                      \o LET ks == SetToSortSeq(DOMAIN v, <)
                         IN  FlattenSeq([i \in 1 .. Len(ks) |->
                                 Put(T.key, ks[i]) \o Put(T.val, v[ks[i]])])

(* unmarshall: the bytes, the read position and _ok. *)
Unmarshall(s) == [buf |-> s, ind |-> RPC_HEADER_SZ, ok |-> TRUE]

(* n raw bytes, or _ok = false when fewer are left. *)
Take(u, n) ==
  IF u.ok /\ u.ind + n <= Len(u.buf)
  THEN [v |-> SubSeq(u.buf, u.ind + 1, u.ind + n), u |-> [u EXCEPT !.ind = @ + n]]
  ELSE [v |-> [i \in 1 .. n |-> 0], u |-> [u EXCEPT !.ok = FALSE]]

RECURSIVE Get(_, _)

(* unmarshall's >> into a sequence of types: the values and the rest. *)
GetAll(Ts, u0) ==
  FoldLeft(LAMBDA acc, T : LET g == Get(T, acc.u) IN [v |-> Append(acc.v, g.v), u |-> g.u],
           [v |-> <<>>, u |-> u0], Ts)

(* unmarshall's operator>> of a value. *)
Get(T, u) ==
  CASE T.k \in DOMAIN Width ->
         LET r == Take(u, Width[T.k]) IN [v |-> Number(r.v), u |-> r.u]
    [] T.k = "string" ->
         LET n == Take(u, Width["int"]) IN Take(n.u, Number(n.v))
    [] T.k = "struct" -> GetAll(T.of, u)
    [] T.k = "vector" ->
         LET n == Take(u, Width["int"])
         IN  GetAll([i \in 1 .. Number(n.v) |-> T.of], n.u)
    [] T.k = "map" ->
         LET n == Take(u, Width["int"])
             r == GetAll([i \in 1 .. 2 * Number(n.v) |-> IF i % 2 = 1 THEN T.key ELSE T.val], n.u)
             ks == {r.v[2 * i - 1] : i \in 1 .. Number(n.v)}
             last(k) == CHOOSE i \in 1 .. Number(n.v) :
                          r.v[2 * i - 1] = k /\ \A j \in i + 1 .. Number(n.v) : r.v[2 * j - 1] # k
         IN  [v |-> [k \in ks |-> r.v[2 * last(k)]], u |-> r.u]

(* Everything was read and nothing is left. *)
Okdone(u) == u.ok /\ u.ind = Len(u.buf)

(* A marshall with its arguments behind an empty header. *)
Marshalled(Ts, vs) == [i \in 1 .. RPC_HEADER_SZ |-> 0] \o PutAll(Put, Ts, vs)

(* pack_req_header and pack_reply_header: the fields go behind the size    *)
(* word and leave the contents alone.                                      *)
PackHeader(m, fields) ==
  LET b == FlattenSeq([i \in 1 .. Len(fields) |-> Bytes(fields[i], Width["int"])])
      from == Width["int"]
  IN  [i \in 1 .. Len(m) |-> IF i \in from + 1 .. from + Len(b) THEN b[i - from] ELSE m[i]]

(* The channel fills in the size of the pdu. *)
WithSize(m) == Bytes(Len(m), Width["int"]) \o SubSeq(m, Width["int"] + 1, Len(m))

(* unpack_req_header and unpack_reply_header: n ints behind the size word. *)
UnpackHeader(s, n) ==
  [i \in 1 .. n |-> Number(SubSeq(s, i * Width["int"] + 1, (i + 1) * Width["int"]))]

=============================================================================
