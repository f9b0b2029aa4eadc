---------------------------- MODULE AddressSpaces ----------------------------
(* What PageDirectory promises: a directory is a map from virtual pages to *)
(* frames that belongs to it alone.  mapPage changes one entry of one map, *)
(* clone makes a map that begins as a copy and lives on by itself.         *)

CONSTANTS
  Virt,       \* virtual pages
  Mapping,    \* what they can be mapped to: a frame and the right to write
  Unmapped    \* what a page that no mapPage has mapped translates to

VARIABLE space   \* space[d][v]: the translation of v in directory d

Init == \E d \in DOMAIN space : space = [e \in {d} |-> [v \in Virt |-> Unmapped]]

MapPage(d, v, m) == space' = [space EXCEPT ![d][v] = m]

Clone(d, new) ==
  /\ new \notin DOMAIN space
  /\ space' = [e \in DOMAIN space \cup {new} |->
                 IF e = new THEN space[d] ELSE space[e]]

Next == \/ \E d \in DOMAIN space, v \in Virt, m \in Mapping : MapPage(d, v, m)
        \/ \E d \in DOMAIN space, new \in DOMAIN space' : Clone(d, new)

Spec == Init /\ [][Next]_space
=============================================================================
