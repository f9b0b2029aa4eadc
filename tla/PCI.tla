--------------------------------- MODULE PCI ---------------------------------
(* kernel/src/PCI.cpp: what initializePCI finds in a configuration space,   *)
(* a function from <<bus, slot, function>> to the bytes of its header.      *)
EXTENDS Naturals, SequencesExt

CONSTANTS
  Buses, Slots   \* 256 and 16: the bounds of the two loops

ASSUME BusAssumption == Buses \in Nat /\ Slots \in Nat

\* Nobody answers for a function that is not there: all bits are set.
ConfigByte(space, dev, n) ==
  IF dev \notin DOMAIN space THEN 255
  ELSE IF n \in DOMAIN space[dev] THEN space[dev][n] ELSE 0

\* One of the halves of the 32 bits read, by bit 1 of the offset.
pciConfigReadWord(space, dev, offset) ==
  LET o == 4 * (offset \div 4) + 2 * ((offset \div 2) % 2) IN
  ConfigByte(space, dev, o) + 256 * ConfigByte(space, dev, o + 1)

getVendor(space, dev)     == pciConfigReadWord(space, dev, 0)
getClass(space, dev)      == pciConfigReadWord(space, dev, 10) \div 256
getSubclass(space, dev)   == pciConfigReadWord(space, dev, 10) % 256
getHeaderType(space, dev) == pciConfigReadWord(space, dev, 14) % 256

\* 32 bits at once, the two lowest cleared.
getBar(space, dev, bar) ==
  LET word == pciConfigReadWord(space, dev, 16 + bar * 4)
              + 65536 * pciConfigReadWord(space, dev, 18 + bar * 4)
  IN 4 * (word \div 4)

\* Mutant: function 0 only.
Functions_FirstOnly(space, i, j) ==
  IF getVendor(space, <<i, j, 0>>) = 65535 THEN << >> ELSE << <<i, j, 0>> >>

\* What is found in a slot.
Functions(space, i, j) ==
  IF getVendor(space, <<i, j, 0>>) = 65535 THEN << >>
  ELSE << <<i, j, 0>> >> \o
       IF getHeaderType(space, <<i, j, 0>>) < 128 THEN << >>
       ELSE FlattenSeq([k \in 1..7 |-> IF getVendor(space, <<i, j, k>>) = 65535 THEN << >>
                                       ELSE << <<i, j, k>> >>])

\* pciDevices.
initializePCI(space) ==
  FlattenSeq([i \in 1..Buses |-> FlattenSeq([j \in 1..Slots |-> Functions(space, i - 1, j - 1)])])
=============================================================================
