------------------------------ MODULE Namespace -------------------------------
(***************************************************************************)
(* What YFS promises about names.  A client's request to make a file       *)
(* enters the name with a number no file has had before, or is refused     *)
(* because the name is taken; a request to remove takes exactly that name  *)
(* away, or is refused because there is none.  Nothing else ever changes   *)
(* a directory.                                                            *)
(***************************************************************************)
EXTENDS Naturals

CONSTANTS Client, Inum, Name

VARIABLES
  links,   \* {<<directory, name, number>>}
  used,    \* the numbers ever given out
  asked    \* the request of each client, if any: {<<verb, directory, name>>}

Init == links = {} /\ used = {1} /\ asked = [c \in Client |-> {}]

Taken(p, n) == \E l \in links : l[1] = p /\ l[2] = n

Answer(c) == asked' = [asked EXCEPT ![c] = {}]

Ask(c, verb, p, n) ==
  /\ asked[c] = {} /\ asked' = [asked EXCEPT ![c] = {<<verb, p, n>>}]
  /\ UNCHANGED <<links, used>>

Add(c, p, n, i) ==
  /\ <<"add", p, n>> \in asked[c] /\ ~Taken(p, n) /\ i \notin used
  /\ links' = links \cup {<<p, n, i>>}
  /\ used' = used \cup {i}
  /\ Answer(c)

Remove(c, l) ==
  /\ <<"remove", l[1], l[2]>> \in asked[c]
  /\ links' = links \ {l}
  /\ UNCHANGED used /\ Answer(c)

(* EEXIST and ENOENT. *)
Refuse(c, p, n) ==
  /\ \/ <<"add", p, n>> \in asked[c] /\ Taken(p, n)
     \/ <<"remove", p, n>> \in asked[c] /\ ~Taken(p, n)
  /\ UNCHANGED <<links, used>> /\ Answer(c)

Next ==
  \E c \in Client :
    \/ \E p \in Inum, n \in Name :
         \/ \E verb \in {"add", "remove"} : Ask(c, verb, p, n)
         \/ \E i \in Inum : Add(c, p, n, i)
         \/ Refuse(c, p, n)
    \/ \E l \in links : Remove(c, l)

Spec == Init /\ [][Next]_<<links, used, asked>>

=============================================================================
