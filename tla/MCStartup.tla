------------------------------ MODULE MCStartup ------------------------------
(* PCs with a controller at the usual ports, alone or with another, and all *)
(* choices of drives for the usual channels.                               *)
EXTENDS Startup

Header(class, subclass, multi) ==
  [n \in {10, 11, 14} |-> CASE n = 10 -> subclass [] n = 11 -> class
                            [] OTHER -> IF multi THEN 128 ELSE 0]

\* Function 1 of a bridge with several; in the other space also one with
\* ports of its own on the second bus, as function 0 of its slot.
Bridge == <<0, 1, 0>> :> Header(6, 1, TRUE) @@ <<0, 1, 1>> :> Header(1, 1, FALSE)
Native == <<1, 2, 0>> :> ([n \in {16, 17, 25} |-> IF n = 16 THEN 1 ELSE n] @@ Header(1, 1, FALSE))
            @@ <<1, 2, 3>> :> Header(2, 0, FALSE)

Iden(long, short, ext) == [lba48 |-> long, maxLba |-> short, maxLbaExt |-> ext]
Entry(id, lba) == [id |-> id, lba |-> lba]

Disk(long, entries) == [kind |-> "ata", iden |-> Iden(long, 7, 9), mbr |-> entries]
Boot   == Disk(FALSE, << Entry(6, 0), Entry(0, 0), Entry(0, 0), Entry(0, 0) >>)
Two    == Disk(TRUE, << Entry(131, 1), Entry(6, 3), Entry(11, 5), Entry(6, 6) >>)
CD     == [kind |-> "packet", iden |-> Iden(FALSE, 0, 0), mbr |-> << >>]
Sata   == [kind |-> "other", iden |-> Iden(FALSE, 0, 0), mbr |-> << >>]

Usual == {<<496, 0>>, <<496, 1>>, <<368, 0>>, <<368, 1>>}
Second == <<4352, 1>> :> Two

AllDrives == UNION {[S -> {Boot, Two, CD, Sata}] : S \in SUBSET Usual}

MCMachines ==
  [pci : {Bridge}, drives : AllDrives, floating : {{}, {"BSY", "ERR"}}]
    \cup [pci : {Bridge @@ Native}, drives : {d @@ Second : d \in {e \in AllDrives : Cardinality(DOMAIN e) = 1}},
          floating : {{}}]

MCJunk == {[mbr |-> << Entry(6, 2) >>] @@ Iden(FALSE, 5, 5), [mbr |-> << Entry(255, 9) >>] @@ Iden(TRUE, 0, 0)}
=============================================================================
