-------------------------------- MODULE MCIDE --------------------------------
(* Small instances of IDE: bytes of two bits, one bit of head.             *)
EXTENDS IDE

\* Sectors at both ends of what 28 bits reach (here 0..127).
SomeLbas == 0..8 \cup 124..133

\* Calls that begin in the first track, across tracks and heads, and on
\* either side of the limit; drive 1 is addressed by cylinder.
SomeStarts == [d \in {0, 1} |-> IF d = 0 THEN {0, 124, 126, 128} ELSE {0, 2}]

\* The first is addressed by LBA, so that its own geometry does not matter.
SomeGeometry == [d \in {0, 1} |-> IF d = 0 THEN [heads |-> 3, sectors |-> 2] ELSE Assumed]

\* Two disks, or a packet device in place of the second.
SomeTypes == {[d \in {0, 1} |-> IF d \in S THEN "IDE_ATAPI" ELSE "IDE_ATA"] : S \in {{}, {1}}}
=============================================================================
