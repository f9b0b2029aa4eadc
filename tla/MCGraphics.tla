------------------------------ MODULE MCGraphics ------------------------------
(* Three windows, one over the edge of another and one in it, a cursor with *)
(* a corner missing, and memory from new that looks like a list's middle.  *)
EXTENDS Graphics

MCPlace == [Back  |-> [x |-> 0, y |-> 0, w |-> 2, h |-> 2],
            Side  |-> [x |-> 1, y |-> 0, w |-> 1, h |-> 3],
            Small |-> [x |-> 0, y |-> 0, w |-> 1, h |-> 2]]
MCItems == DOMAIN MCPlace
MCFill  == {[t |-> "Back", next |-> 1]}
MCIcon  == [w |-> 2, h |-> 2, opaque |-> {<<0, 0>>, <<0, 1>>, <<1, 0>>}]
MCDeltas == {-3, 3}
=============================================================================
