----------------------------- MODULE InodeManager -----------------------------
(***************************************************************************)
(* The disk, block_manager and inode_manager of src/inode_manager.cc: a    *)
(* file as an inode, its direct blocks and the blocks its indirect block   *)
(* names, with the allocation of blocks and inodes.                        *)
(*                                                                         *)
(* The extent server calls one operation at a time here.  The sizes of the *)
(* header (BLOCK_SIZE, BLOCK_NUM, INODE_NUM, NDIRECT, NINDIRECT) are       *)
(* constants; the layout they give the disk is the code's.                 *)
(***************************************************************************)
EXTENDS Integers, Sequences, SequencesExt, FiniteSets, FiniteSetsExt

CONSTANTS
  BLOCK_SIZE, BLOCK_NUM, INODE_NUM, NDIRECT, NINDIRECT,
  Type,           \* the types of the files created
  FormatGarbage,  \* sb.nblocks before the constructor sets it
  Junk            \* a byte the program never wrote

ASSUME SizesAssumption ==
  {BLOCK_SIZE, BLOCK_NUM, INODE_NUM, NDIRECT, NINDIRECT} \subseteq Nat \ {0}

MAXFILE == NDIRECT + NINDIRECT
BPB == BLOCK_SIZE * 8
IBLOCK(i, nblocks) == nblocks \div BPB + i + 3
NBLOCKS(size) == IF size = 0 THEN 0 ELSE (size - 1) \div BLOCK_SIZE + 1

(* Where alloc_block starts counting: behind the inode table. *)
start == IBLOCK(INODE_NUM, BLOCK_NUM) + 1

OnDisk == start .. BLOCK_NUM - 1

VARIABLES
  blocks,      \* disk: what the data blocks hold
  using,       \* block_manager: using_blocks[id] # 0
  next_block,
  inode,       \* inode_manager: the inode table on the disk
  next_inum,
  up           \* how the extent server fares

(* up       it runs                                                        *)
(* exited   alloc_block found no block                                     *)
(* crashed  a NULL inode was dereferenced                                  *)
(* stale    a new inode came with a block number that malloc left there;   *)
(*          what such a server does is not followed further                *)
Status == {"up", "exited", "crashed", "stale"}

Inum == 1 .. INODE_NUM - 1
Live == {i \in Inum : inode[i].type # 0}

(* What a block that is in no file holds is forgotten, not followed: were  *)
(* it ever read, Junk would show.                                          *)
JunkBlock == [bytes |-> [i \in 1 .. BLOCK_SIZE |-> Junk], ids |-> [i \in 1 .. NINDIRECT |-> 0]]
Freed == [type |-> 0, size |-> 0, ids |-> [i \in 0 .. NDIRECT |-> 0]]

(* What the operations work on: the disk, the allocator and one inode. *)
Store == [blocks |-> blocks, using |-> using, next |-> next_block, up |-> up]

-----------------------------------------------------------------------------
(* Mutants. *)

(* free_block that forgets to unmark the block. *)
Mutantfree_block(s, id) == s

(* A last block that is written a byte short. *)
MutantPiece(buf, index) ==
  SubSeq(buf, index * BLOCK_SIZE + 1, Min({(index + 1) * BLOCK_SIZE, Len(buf) - 1}))

(* The second loop of alloc_block takes a block without looking. *)
MutantFreeOffsets(s) ==
  {off \in 0 .. (IF s.next > BLOCK_NUM THEN s.next ELSE BLOCK_NUM) - 1 :
     off < s.next \/ (off < BLOCK_NUM /\ start + off \notin s.using)}

-----------------------------------------------------------------------------
(* disk::read_block leaves the buffer alone when id is off the disk. *)
read_block(s, id) == IF id \in OnDisk THEN s.blocks[id] ELSE JunkBlock

(* disk::write_block replaces the first bytes of a block, and does nothing *)
(* when id is off the disk.                                                *)
write_block(s, id, buf) ==
  IF id \notin OnDisk THEN s
  ELSE [s EXCEPT !.blocks[id].bytes = buf \o SubSeq(@, Len(buf) + 1, BLOCK_SIZE)]

(* The offset alloc_block's two loops stop at. *)
FreeOffsets(s) ==
  {off \in 0 .. (IF s.next > BLOCK_NUM THEN s.next ELSE BLOCK_NUM) - 1 :
     (off < BLOCK_NUM \/ off < s.next) /\ start + off \notin s.using}

(* block_manager::alloc_block: the store and the block; exit(0) if none. *)
alloc_block(s) ==
  LET ahead == {off \in FreeOffsets(s) : off >= s.next /\ off < BLOCK_NUM}
      behind == {off \in FreeOffsets(s) : off < s.next}
      off == IF ahead # {} THEN Min(ahead) ELSE Min(behind)
  IN  IF ahead \cup behind = {} THEN [s |-> [s EXCEPT !.up = "exited"], id |-> 0]
      ELSE [s |-> [s EXCEPT !.using = @ \cup {start + off}, !.next = off + 1],
            id |-> start + off]

(* block_manager::free_block. *)
free_block(s, id) ==
  [s EXCEPT !.using = @ \ {id},
            !.blocks = IF id \in OnDisk THEN [@ EXCEPT ![id] = JunkBlock] ELSE @]

(* get_block_id: a direct entry, or one of the indirect block. *)
get_block_id(s, node, index) ==
  IF index >= NDIRECT
  THEN read_block(s, node.ids[NDIRECT]).ids[index - NDIRECT + 1]
  ELSE node.ids[index]

(* set_block_id allocates the indirect block when the inode has none. *)
NeedsIndirect(s, node) == node.ids[NDIRECT] = 0

(* set_block_id: the store and the inode. *)
set_block_id(s, node, index, id) ==
  IF index < NDIRECT THEN [s |-> s, node |-> [node EXCEPT !.ids[index] = id]]
  ELSE LET a == IF NeedsIndirect(s, node) THEN alloc_block(s)
                ELSE [s |-> s, id |-> node.ids[NDIRECT]]
       IN  [s |-> IF a.id \in OnDisk THEN [a.s EXCEPT !.blocks[a.id].ids[index - NDIRECT + 1] = id]
                  ELSE a.s,
            node |-> [node EXCEPT !.ids[NDIRECT] = a.id]]

(* The indices from .. to as a sequence, in the order of the code's loops. *)
Indices(from, to) == [i \in 1 .. (IF to < from THEN 0 ELSE to - from + 1) |-> from + i - 1]

(* write_file's first loop: blocks old .. new - 1 are allocated. *)
Grow(s, node, old, new) ==
  FoldLeft(LAMBDA w, index : LET a == alloc_block(w.s) IN set_block_id(a.s, w.node, index, a.id),
           [s |-> s, node |-> node], Indices(old, new - 1))

(* The blocks of the file from index new on are given back. *)
Shrink(s, node, new) ==
  FoldLeft(LAMBDA w, index : free_block(w, get_block_id(w, node, index)),
           s, Indices(new, NBLOCKS(node.size) - 1))

(* The bytes of buf that go to block index. *)
Piece(buf, index) ==
  SubSeq(buf, index * BLOCK_SIZE + 1, Min({(index + 1) * BLOCK_SIZE, Len(buf)}))

(* write_file's last loop. *)
Fill(s, node, buf) ==
  FoldLeft(LAMBDA w, index : write_block(w, get_block_id(w, node, index), Piece(buf, index)),
           s, Indices(0, NBLOCKS(Len(buf)) - 1))

(* read_file's result: the blocks in turn, cut to the size of the file.    *)
(* Its write back of the inode changes the atime only.                     *)
read_file(s, node) ==
  SubSeq(FoldLeft(LAMBDA acc, index : acc \o read_block(s, get_block_id(s, node, index)).bytes,
                  <<>>, Indices(0, NBLOCKS(node.size) - 1)),
         1, node.size)

(* getattr's result: the attributes other than the times. *)
getattr(i) == [type |-> inode[i].type, size |-> inode[i].size]

(* alloc_inode's test of a candidate. *)
FreeInode(i) == inode[i].type = 0

-----------------------------------------------------------------------------
SetStore(s) ==
  /\ blocks' = s.blocks /\ using' = s.using /\ next_block' = s.next /\ up' = s.up

(* block_manager's and inode_manager's constructors, and the root inode. *)
Init ==
  /\ blocks = [id \in OnDisk |-> JunkBlock]
  /\ using = {}
  /\ \E g \in FormatGarbage : next_block = IBLOCK(INODE_NUM, g) + 1
  /\ inode = [[i \in Inum |-> Freed] EXCEPT ![1].type = 1]
  /\ next_inum = 2
  /\ up = "up"

(* What malloc may leave in blocks[NDIRECT] of a new inode: nothing, or    *)
(* what the copy of another inode had there.                               *)
Leftover == {0} \cup {inode[i].ids[NDIRECT] : i \in Inum}

(* The first free inode from next_inum on, then from 1; 0 if there is none. *)
NewInum ==
  LET ahead == {i \in Inum : i >= next_inum /\ FreeInode(i)}
      behind == {i \in Inum : i < next_inum /\ FreeInode(i)}
  IN  IF ahead # {} THEN Min(ahead) ELSE IF behind # {} THEN Min(behind) ELSE 0

(* alloc_inode: its size is 0, its block numbers are not set.  With a full *)
(* table it returns 0 and changes nothing.                                 *)
AllocInode(type) ==
  /\ up = "up"
  /\ NewInum # 0
  /\ \E left \in Leftover :
       /\ inode' = [inode EXCEPT ![NewInum] = [Freed EXCEPT !.type = type, !.ids[NDIRECT] = left]]
       /\ up' = IF left = 0 THEN "up" ELSE "stale"
  /\ next_inum' = NewInum + 1
  /\ UNCHANGED <<blocks, using, next_block>>

(* write_file, read_file and remove_file dereference the inode get_inode   *)
(* returns: NULL for a free one.                                           *)
NullInode(i) ==
  /\ up = "up"
  /\ i \notin Live
  /\ up' = "crashed"
  /\ UNCHANGED <<blocks, using, next_block, inode, next_inum>>

(* write_file: blocks are allocated or freed, then all of buf is written.  *)
WriteFile(i, buf) ==
  LET node == inode[i]
      new == NBLOCKS(Len(buf))
      g == Grow(Store, node, NBLOCKS(node.size), new)
  IN  /\ up = "up"
      /\ i \in Live
      /\ SetStore(Fill(Shrink(g.s, node, new), g.node, buf))
      /\ inode' = [inode EXCEPT ![i] = [g.node EXCEPT !.size = Len(buf)]]
      /\ UNCHANGED next_inum

(* remove_file, free_inode included: the data blocks, then type = 0.  Of a *)
(* free inode's other fields only Leftover is of any use.                  *)
RemoveFile(i) ==
  /\ up = "up"
  /\ i \in Live
  /\ SetStore(Shrink(Store, inode[i], 0))
  /\ inode' = [inode EXCEPT ![i] = [Freed EXCEPT !.ids[NDIRECT] = inode[i].ids[NDIRECT]]]
  /\ UNCHANGED next_inum

-----------------------------------------------------------------------------
(* The data blocks of a file, and its indirect block. *)
BlocksOf(i) ==
  {get_block_id(Store, inode[i], x) : x \in 0 .. NBLOCKS(inode[i].size) - 1}

IndirectOf(i) ==
  IF inode[i].ids[NDIRECT] = 0 THEN {} ELSE {inode[i].ids[NDIRECT]}

=============================================================================
