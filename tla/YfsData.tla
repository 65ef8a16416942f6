-------------------------------- MODULE YfsData -------------------------------
(***************************************************************************)
(* What yfs_client's setattr, write and read (src/yfs_client.cc) make of   *)
(* the bytes of a file, with the std::string operations they call, and     *)
(* what the file ought to hold afterwards, byte by byte.                   *)
(*                                                                         *)
(* Offsets are below 2^32: the cast of off_t to uint changes none of them. *)
(***************************************************************************)
EXTENDS Integers, Sequences

Max2(a, b) == IF a > b THEN a ELSE b
Min2(a, b) == IF a < b THEN a ELSE b

(* std::string. *)
Zeroes(n) == [i \in 1 .. n |-> 0]
resize(s, n) == IF n <= Len(s) THEN SubSeq(s, 1, n) ELSE s \o Zeroes(n - Len(s))
replace(s, pos, n, str) == SubSeq(s, 1, pos) \o str \o SubSeq(s, pos + n + 1, Len(s))
substr(s, pos, n) == SubSeq(s, pos + 1, Min2(pos + n, Len(s)))

-----------------------------------------------------------------------------
(* setattr: buf.resize(size). *)
SetattrBuf(buf, size) == resize(buf, size)

(* read: nothing at or past the end. *)
ReadBuf(buf, size, off) == IF off >= Len(buf) THEN <<>> ELSE substr(buf, off, size)

(* write: past the end the file is first made long enough, with '\0' in    *)
(* the hole and in place of the data.                                      *)
WriteBuf(buf, size, off, data) ==
  replace(IF off <= Len(buf) THEN buf ELSE resize(buf, size + off), off, size, data)

-----------------------------------------------------------------------------
(* Byte i of a file, 0 beyond its end. *)
At(s, i) == IF i <= Len(s) THEN s[i] ELSE 0

(* A file that is cut, or made longer with zeroes. *)
Resized(s, size) == [i \in 1 .. size |-> At(s, i)]

(* A file as long as the larger of what it was and the end of the write,   *)
(* with data at off and every other byte what it was.                      *)
Written(s, off, data) ==
  [i \in 1 .. Max2(Len(s), off + Len(data)) |->
     IF i \in off + 1 .. off + Len(data) THEN data[i - off] ELSE At(s, i)]

(* The bytes from off on that a file has, at most size of them. *)
Slice(s, size, off) == [i \in 1 .. Max2(0, Min2(size, Len(s) - off)) |-> s[off + i]]

=============================================================================
