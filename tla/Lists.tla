-------------------------------- MODULE Lists --------------------------------
(***************************************************************************)
(* Linked lists in memory, read as sequences, and lists that share         *)
(* nothing.                                                                *)
(***************************************************************************)
EXTENDS Integers, Sequences

\* The nodes of a list from the one at first along the links in next, to the first word
\* that is the address of no node; a list of more than most nodes goes in a circle.
ListFrom(first, next, most) ==
  LET node[n \in 0 .. most] ==
        IF n = 0 THEN first
        ELSE IF node[n - 1] \in DOMAIN next THEN next[node[n - 1]] ELSE node[n - 1]
      length == CHOOSE n \in 0 .. most + 1 :
                  /\ \A i \in 0 .. n - 1 : node[i] \in DOMAIN next
                  /\ n = most + 1 \/ node[n] \notin DOMAIN next
  IN  [n \in 1 .. length |-> node[n - 1]]

NoDuplicates(s) == \A i, j \in 1 .. Len(s) : s[i] = s[j] => i = j
NothingShared(s, t) == \A i \in 1 .. Len(s) : \A j \in 1 .. Len(t) : s[i] # t[j]
EachOnce(f, u) == NoDuplicates(f) /\ NoDuplicates(u) /\ NothingShared(f, u)
=============================================================================
