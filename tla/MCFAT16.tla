------------------------------- MODULE MCFAT16 -------------------------------
(* A small volume: sectors of three, two FATs of three sectors, a root      *)
(* directory of two sectors, clusters 2 to 8.                              *)
EXTENDS FAT16

Free == [name |-> [i \in 1..5 |-> Nul], cluster |-> 0, size |-> 0]
Dirt == [name |-> [i \in 1..5 |-> "junk"], cluster |-> 2, size |-> 1]
File(name, c, n) == [name |-> EntryName(name), cluster |-> c, size |-> n]

\* Name E5: an entry whose file has been deleted.
Deleted == [name |-> <<"E5", " ", " ", " ", " ">>, cluster |-> 3, size |-> 9]

Three(a, b, c) == [i \in 0..2 |-> CASE i = 0 -> a [] i = 1 -> b [] i = 2 -> c]

\* File 4, 2, 6; directory 3 with one more cluster, 7; files of one cluster.
Links == [c \in 0..8 |-> CASE c = 4 -> 2 [] c = 2 -> 6 [] c = 3 -> 7 [] OTHER -> 11]

Root == Three(File(<<"D">>, 3, 0), File(<<"A", ".", "B">>, 5, 2), Free)

Dir3 == Three(File(<<"A", ".", "B">>, 4, 8), File(<<"A", "B", "A">>, 5, 2),
              File(<<"A">>, 8, 3))

\* A name as long as the buffer of open has bytes set for it.
Longest == <<"A", "B", ".", "B", "A">>

Dir7 == Three(Deleted, File(Longest, 5, 2), Free)

SmallDisk ==
  [s \in 0..17 |->
     CASE s \in 2..7 -> LET k == (s - 2) % 3 IN
                        Three(Links[3 * k], Links[3 * k + 1], Links[3 * k + 2])
       [] s = 8  -> Root
       [] s = 9  -> Three(Free, Free, Free)
       [] s = 11 -> Dir3
       [] s = 15 -> Dir7
       [] OTHER  -> [i \in 0..2 |-> <<s - 8, i>>]]

Memory == {Free, Dirt}

SomePaths == {<<<<"A", ".", "B">>>>,
              <<<<"D">>, <<"A", ".", "B">>>>,
              <<<<"D">>, <<"A">>>>,
              <<<<"D">>, Longest>>,
              <<<<"A">>, <<"A", "B", "A">>>>}
=============================================================================
