----------------------------- MODULE MCFATNames ------------------------------
(* Every name over an alphabet, a character at a time.                     *)
EXTENDS FATNames

CONSTANTS
  Letters,    \* what names are made of: no spaces, and dots apart
  MaxLen      \* bound on the names

ASSUME LetterAssumption == Letters \subseteq STRING \ {Dot, Space} /\ MaxLen \in Nat

VARIABLE typedName

NameInit == typedName = <<>>

TypeName(c) ==
  /\ Len(typedName) < MaxLen
  /\ typedName' = Append(typedName, c)

NameNext == \E c \in Letters \cup {Dot} : TypeName(c)

NameSpec == NameInit /\ [][NameNext]_typedName

\* Of a short name, with the terminator behind it, filenameToFAT makes what a
\* directory entry holds, and fatToFilename gives it back.
NamesKept ==
  \A entryName \in {filenameToFAT(typedName)} :
    IsShort(typedName) => /\ entryName = EntryName(typedName)
                          /\ fatToFilename(entryName) = typedName
=============================================================================
