------------------------------- MODULE FileStore -------------------------------
(***************************************************************************)
(* Files from yfs_client's read and write down to the disk: what           *)
(* yfs_client makes of a file's bytes (YfsData), stored by the extent      *)
(* server in an inode and its blocks (InodeManager).  A request gets the   *)
(* whole file, changes it and puts all of it back; it has the lock of the  *)
(* file, and that the cache in between loses nothing is ExtentCache's      *)
(* matter, so it is one step here.                                         *)
(***************************************************************************)
EXTENDS InodeManager, YfsData

CONSTANTS
  Offset, Size,   \* the offsets of writes, the sizes of setattr
  Bytes,          \* the data of writes
  MaxOps          \* bound: the number of requests

VARIABLES
  written,        \* what each file was given to hold
  lost,           \* the indirect blocks of the files that were removed
  ops             \* the number of requests so far

vars == <<blocks, using, next_block, inode, next_inum, up, written, lost, ops>>

StoreInit ==
  /\ Init
  /\ written = [i \in Inum |-> <<>>]
  /\ lost = {}
  /\ ops = 0

(* Bound: no indirect block is allocated beyond the end of the disk. *)
IndirectOnDisk == \A i \in Live : IndirectOf(i) \subseteq OnDisk

(* Bound: no file is larger than MAXFILE blocks. *)
Fits(n) == NBLOCKS(n) <= MAXFILE

Request == ops < MaxOps /\ ops' = ops + 1

-----------------------------------------------------------------------------
(* extent_server::create. *)
CreateExtent(type) ==
  /\ Request /\ AllocInode(type)
  /\ UNCHANGED <<written, lost>>

(* extent_server::remove. *)
RemoveExtent(i) ==
  /\ Request /\ RemoveFile(i)
  /\ written' = [written EXCEPT ![i] = <<>>]
  /\ lost' = lost \cup IndirectOf(i)

(* get or put of an extent that was removed. *)
UseRemoved(i) ==
  /\ Request /\ NullInode(i)
  /\ UNCHANGED <<written, lost>>

(* yfs_client::setattr: get, resize, put. *)
Setattr(i, size) ==
  /\ Request /\ Fits(size)
  /\ WriteFile(i, SetattrBuf(read_file(Store, inode[i]), size))
  /\ written' = [written EXCEPT ![i] = Resized(@, size)]
  /\ UNCHANGED lost
  /\ IndirectOnDisk'

(* yfs_client::write: get, replace, put. *)
Write(i, off, data) ==
  /\ Request /\ Fits(off + Len(data))
  /\ WriteFile(i, WriteBuf(read_file(Store, inode[i]), Len(data), off, data))
  /\ written' = [written EXCEPT ![i] = Written(@, off, data)]
  /\ UNCHANGED lost
  /\ IndirectOnDisk'

(* The root directory, inode 1, is neither removed nor written as a file. *)
Next ==
  \/ \E t \in Type : CreateExtent(t)
  \/ \E i \in Inum \ {1} :
       \/ UseRemoved(i)
       \/ RemoveExtent(i)
       \/ \E n \in Size : Setattr(i, n)
       \/ \E off \in Offset, data \in Bytes : Write(i, off, data)

Spec == StoreInit /\ [][Next]_vars

-----------------------------------------------------------------------------
(* No block serves two purposes: the data and indirect blocks of the files *)
(* are pairwise different, every one is marked in using_blocks, and a file *)
(* has as many blocks as its size asks for.                                *)
BlocksDisjoint ==
  up = "up" =>
    /\ \A i \in Live : /\ BlocksOf(i) \cup IndirectOf(i) \subseteq using
                       /\ BlocksOf(i) \cap IndirectOf(i) = {}
                       /\ Cardinality(BlocksOf(i)) = NBLOCKS(inode[i].size)
    /\ \A i, j \in Live : i # j =>
         (BlocksOf(i) \cup IndirectOf(i)) \cap (BlocksOf(j) \cup IndirectOf(j)) = {}

(* "Get all the data of a file by inum": of a file whose blocks are on the *)
(* disk every read returns the bytes that the writes and setattrs before   *)
(* it stored, whatever was written, shrunk or removed elsewhere in between,*)
(* holes read as zeroes, and getattr reports its size.                     *)
ReadBack ==
  up = "up" =>
    \A i \in Live :
      /\ getattr(i).size = Len(written[i])
      /\ BlocksOf(i) \subseteq OnDisk =>
           \A off \in Offset, n \in 1 .. MAXFILE * BLOCK_SIZE :
             ReadBuf(read_file(Store, inode[i]), n, off) = Slice(written[i], n, off)

(* A block that is marked belongs to a live file; remove_file gives back   *)
(* all blocks but the indirect one.                                        *)
NoLeak ==
  up = "up" => using = lost \cup UNION {BlocksOf(i) \cup IndirectOf(i) : i \in Live}

=============================================================================
