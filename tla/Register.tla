------------------------------- MODULE Register -------------------------------
(***************************************************************************)
(* What the extent clients' caches promise for one extent: the clients     *)
(* together see a single copy.  It changes only when a client that called  *)
(* write takes effect, once per call, and a read returns what it then is.  *)
(* The promise ends when the extent is removed.                            *)
(***************************************************************************)
CONSTANTS Client, Value

VARIABLES
  val,       \* the contents of the extent
  got,       \* what each client last read
  reading,   \* the clients inside a read
  writing,   \* for each client inside a write, {the value it writes}
  there      \* the extent has never been removed

registerVars == <<val, got, reading, writing, there>>

RegisterInit ==
  /\ val \in Value
  /\ got = [c \in Client |-> val]
  /\ reading = {} /\ writing = [c \in Client |-> {}]
  /\ there = TRUE

CallRead(c) == reading' = reading \cup {c} /\ UNCHANGED <<val, got, writing>>

CallWrite(c, v) ==
  writing' = [writing EXCEPT ![c] = {v}] /\ UNCHANGED <<val, got, reading>>

Read(c) ==
  /\ c \in reading
  /\ got' = [got EXCEPT ![c] = val] /\ reading' = reading \ {c}
  /\ UNCHANGED <<val, writing>>

Write(c) ==
  /\ writing[c] # {}
  /\ val' \in writing[c] /\ writing' = [writing EXCEPT ![c] = {}]
  /\ UNCHANGED <<got, reading>>

RegisterNext ==
  \/ /\ \E c \in Client :
          CallRead(c) \/ (\E v \in Value : CallWrite(c, v)) \/ Read(c) \/ Write(c)
     /\ there' = there
  \/ there' = FALSE

RegisterSpec == RegisterInit /\ [][RegisterNext]_registerVars

=============================================================================
