---------------------------- MODULE MCPageTables -----------------------------
(* A small instance of PageTables: four levels of two entries.             *)
EXTENDS PageTables

\* Two pages of one table and one that shares only the upper two tables with them.
SomeVirt == {<<0, 0, 0, 0>>, <<0, 0, 0, 1>>, <<0, 1, 0, 0>>}

\* Zeroed memory, and memory that looks like entries in use.
SomeFill == {Zero, [present |-> TRUE, addr |-> 0, writable |-> TRUE]}
=============================================================================
