------------------------------ MODULE InodeRace -------------------------------
(***************************************************************************)
(* extent_server's handlers run on the threads of the rpc server's pool    *)
(* and take no mutex: the creates of two yfs clients, which hold the locks *)
(* of two directories, run inode_manager::alloc_inode at once.             *)
(*                                                                         *)
(* A step is one iteration of a scan, or one store to the shared state.    *)
(* block_manager::alloc_block, which two puts run at once, has the same    *)
(* shape: a table, a next hint and two loops.                              *)
(***************************************************************************)
EXTENDS Integers

CONSTANTS
  Thread,
  INODE_NUM,
  Requests    \* bound: requests per thread

VARIABLES
  taken,      \* inodes with type # 0
  next_inum,
  pc, id,     \* where a thread is, and the number it looks at
  given,      \* what each thread's requests returned
  left        \* requests a thread still makes

vars == <<taken, next_inum, pc, id, given, left>>

(* The root directory has its inode. *)
Init ==
  /\ taken = {1}
  /\ next_inum = 2
  /\ pc = [t \in Thread |-> "idle"]
  /\ id = [t \in Thread |-> 1]
  /\ given = [t \in Thread |-> {}]
  /\ left = [t \in Thread |-> Requests]

Goto(t, l) == pc' = [pc EXCEPT ![t] = l]

-----------------------------------------------------------------------------
(* A request enters the first loop: id = next_inum. *)
Enter(t) ==
  /\ pc[t] = "idle"
  /\ left[t] > 0
  /\ id' = [id EXCEPT ![t] = next_inum]
  /\ left' = [left EXCEPT ![t] = @ - 1]
  /\ Goto(t, "ahead")
  /\ UNCHANGED <<taken, next_inum, given>>

(* One iteration of either loop: the entry is free, or the next is tried. *)
Scan(t) ==
  /\ \/ pc[t] = "ahead" /\ id[t] < INODE_NUM
     \/ pc[t] = "behind" /\ id[t] < next_inum
  /\ \/ /\ id[t] \notin taken
        /\ Goto(t, "mark")
        /\ UNCHANGED id
     \/ /\ id[t] \in taken
        /\ id' = [id EXCEPT ![t] = @ + 1]
        /\ UNCHANGED pc
  /\ UNCHANGED <<taken, next_inum, given, left>>

(* The first loop ends, the second begins. *)
Wrap(t) ==
  /\ pc[t] = "ahead"
  /\ id[t] >= INODE_NUM
  /\ id' = [id EXCEPT ![t] = 1]
  /\ Goto(t, "behind")
  /\ UNCHANGED <<taken, next_inum, given, left>>

(* put_inode of the new inode. *)
Mark(t) ==
  /\ pc[t] = "mark"
  /\ taken' = taken \cup {id[t]}
  /\ Goto(t, "hint")
  /\ UNCHANGED <<next_inum, id, given, left>>

(* next_inum = id + 1; the number is returned. *)
Hint(t) ==
  /\ pc[t] = "hint"
  /\ next_inum' = id[t] + 1
  /\ given' = [given EXCEPT ![t] = @ \cup {id[t]}]
  /\ Goto(t, "idle")
  /\ UNCHANGED <<taken, id, left>>

(* Nothing is free: alloc_inode returns 0. *)
Full(t) ==
  /\ pc[t] = "behind"
  /\ id[t] >= next_inum
  /\ Goto(t, "idle")
  /\ UNCHANGED <<taken, next_inum, id, given, left>>

(* All requests have been served. *)
Finished ==
  /\ \A t \in Thread : pc[t] = "idle" /\ left[t] = 0
  /\ UNCHANGED vars

Step(t) == Enter(t) \/ Scan(t) \/ Wrap(t) \/ Mark(t) \/ Hint(t) \/ Full(t)

Next == Finished \/ \E t \in Thread : Step(t)

Spec == Init /\ [][Next]_vars

-----------------------------------------------------------------------------
(* "Create a new file. Return its inum.": what one request was given no    *)
(* other is given.                                                         *)
DistinctNumbers ==
  \A t, u \in Thread : t # u => given[t] \cap given[u] = {}

=============================================================================
