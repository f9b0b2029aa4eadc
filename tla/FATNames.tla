------------------------------ MODULE FATNames -------------------------------
(* The two conversions between file names and the names in directory       *)
(* entries (filenameToFAT and fatToFilename in kernel/src/FAT16.cpp).  A    *)
(* name is a sequence of characters without its terminator.                *)
EXTENDS Naturals, Sequences

CONSTANTS
  BaseLen,    \* 8
  ExtLen      \* 3

ASSUME NameAssumption == BaseLen \in Nat \ {0} /\ ExtLen \in Nat \ {0}

Dot == "."
Space == " "

Spaces(n) == [i \in 1..n |-> Space]

\* memset to spaces, then the loop over i < 8: j stays at a dot while i goes
\* on.  What it leaves: how many characters were taken, and the base.
BaseLoop(name) ==
  LET step[i \in 0..BaseLen] ==
        IF i = 0 THEN [j |-> 0, base |-> Spaces(BaseLen)]
        ELSE LET s == step[i - 1] IN
             IF s.j < Len(name) /\ name[s.j + 1] # Dot
             THEN [j |-> s.j + 1, base |-> [s.base EXCEPT ![i] = name[s.j + 1]]]
             ELSE s
  IN step[BaseLen]

\* Mutant: the dot is not skipped.
filenameToFAT_KeepDot(name) ==
  LET b   == BaseLoop(name)
      ext == [i \in 1..ExtLen |-> IF b.j + i <= Len(name)
                                  THEN name[b.j + i] ELSE Space]
  IN b.base \o ext

\* One character, the dot or not, is skipped before the extension.
filenameToFAT(name) ==
  LET b   == BaseLoop(name)
      ext == [i \in 1..ExtLen |-> IF b.j + 1 + i <= Len(name)
                                  THEN name[b.j + 1 + i] ELSE Space]
  IN b.base \o ext

\* A loop of fatToFilename: spaces are left out wherever they are.
Packed(fatname, from, to) ==
  LET copy[i \in (from - 1)..to] ==
        IF i = from - 1 THEN <<>>
        ELSE IF fatname[i] # Space THEN Append(copy[i - 1], fatname[i]) ELSE copy[i - 1]
  IN copy[to]

\* Mutant: the dot is written also when no extension follows.
fatToFilename_AlwaysDot(fatname) ==
  Packed(fatname, 1, BaseLen) \o <<Dot>> \o Packed(fatname, BaseLen + 1, BaseLen + ExtLen)

\* A dot only before an extension.
fatToFilename(fatname) ==
  Packed(fatname, 1, BaseLen)
    \o IF fatname[BaseLen + 1] = Space THEN <<>>
       ELSE <<Dot>> \o Packed(fatname, BaseLen + 1, BaseLen + ExtLen)

-----------------------------------------------------------------------------
(* What the names of a FAT are.                                            *)

DotsIn(name) == {i \in 1..Len(name) : name[i] = Dot}

\* A base of 1 to 8 characters, then perhaps a dot and 1 to 3 more.
IsShort(name) ==
  \/ DotsIn(name) = {} /\ Len(name) \in 1..BaseLen
  \/ \E d \in 2..(BaseLen + 1) :
       DotsIn(name) = {d} /\ Len(name) - d \in 1..ExtLen

\* The name as an entry must hold it: both parts, padded with spaces.
EntryName(name) ==
  LET n == IF DotsIn(name) = {} THEN Len(name)
           ELSE (CHOOSE d \in DotsIn(name) : TRUE) - 1
  IN [i \in 1..(BaseLen + ExtLen) |->
        IF i <= BaseLen
        THEN IF i <= n THEN name[i] ELSE Space
        ELSE IF n + 1 + i - BaseLen <= Len(name) THEN name[n + 1 + i - BaseLen]
             ELSE Space]
=============================================================================
