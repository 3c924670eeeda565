------------------------------ MODULE MCMachine ------------------------------
(***************************************************************************)
(* The machine under the game, each part on its own: the reference         *)
(* interpreter, the arithmetic of its instructions, the vector unit, the   *)
(* moves of unaligned words and the table of functions of the recompiled   *)
(* code, calls back into the game, the game's memory, files, the disc and  *)
(* the clocks.  A behaviour has one of them at work, chosen at the start,  *)
(* and the others idle.                                                    *)
(***************************************************************************)
EXTENDS Interp, Instructions, Runtime, GuestCalls, GuestMemory,
        FileIO, IsoFs, Clock

VARIABLE part

MCDiscSize == [p \in {"disc"} |-> 1]
MCHostName == [p \in {"disc", "stick"} |-> IF p = "disc" THEN "host" ELSE "stick"]

MCFloats == {m * unit : m \in -7 .. 7, unit \in {1, 2, 4, 8, 16, 32}}

MCRegisters ==
    {[mtx |-> 0, col |-> 2, low |-> 1, high |-> 1],
     [mtx |-> 0, col |-> 1, low |-> 0, high |-> 0]}
MCSPrefixes ==
    {Identity,
     [Identity EXCEPT !.lane = <<1, 3, 0, 2>>, !.abs = {1}, !.neg = {3}, !.const = {2}]}
MCDPrefixes == {[sat |-> <<1, 3, 0, 0>>, mask |-> {2}]}

(* Clients are only compared.  No property under this symmetry is a        *)
(* liveness property.                                                      *)
MCClientSymmetry == Permutations(Clients)

-----------------------------------------------------------------------------
(* Discs, their records laid out as a mastering tool does: one that would  *)
(* cross the end of a sector begins the next.  Every disc has a root with  *)
(* a directory and a file of the same names as the wrapped one's, some the *)
(* wrapper; names of different lengths move the records about.             *)
LaidOut(recs) ==
    FoldLeft(LAMBDA d, x :
                 LET o == IF (d.size % SECTOR) + x.length > SECTOR
                          THEN ((d.size \div SECTOR) + 1) * SECTOR ELSE d.size
                 IN [size |-> o + x.length, records |-> d.records @@ (o :> x)],
             [size |-> 0, records |-> [o \in {} |-> 0]], recs)

MCFile(n, bytes, lba) == [name |-> n, length |-> bytes, lba |-> lba, size |-> 1, isdir |-> FALSE]
MCDir(n, bytes, lba)  == [name |-> n, length |-> bytes, lba |-> lba, size |-> SECTOR, isdir |-> TRUE]
MCDots(lba) == <<MCDir("dot", 1, lba), MCDir("dotdot", 1, 2)>>

MCRoots ==
    {LaidOut(MCDots(2) \o <<MCDir("a", k, 5), MCFile("b", 2, 9)>> \o more) :
        k \in {2, 4}, more \in {<<>>, <<MCFile("img", 3, 10)>>}}
MCSubs == {LaidOut(MCDots(5) \o <<MCFile("a", k, 7), MCFile("c", 2, 8)>>) : k \in {2, 4}}

MCDiscs ==
    {[volumes |-> (1 :> 2) @@ (11 :> 2),
      directories |-> (2 :> outer) @@ (5 :> sub) @@ (12 :> inner) @@ (15 :> sub)] :
        outer \in MCRoots, inner \in MCRoots, sub \in MCSubs}
MCRawPaths == [lba : {0, 3}, size : {-1, 0, 8}]
MCPaths == UNION {[1 .. n -> {"a", "b", "c"}] : n \in 1 .. 3}

-----------------------------------------------------------------------------
MachineInit ==
    /\ part \in {"interpreter", "arithmetic", "vectors", "moves", "table", "calls",
                 "memory", "files", "disc", "clock"}
    /\ InterpInit /\ ExInit /\ VfpuInit /\ RuntimeInit /\ CallsInit /\ MemoryInit
    /\ FileInit /\ IsoInit /\ ClockInit

coreVars == <<interpVars, exVars, vfpuVars, rtVars, callVars, memVars>>
hostVars == <<fileVars, isoVars, clockVars>>

Interprets == part = "interpreter" /\ InterpNext /\ UNCHANGED <<part, exVars, vfpuVars, rtVars, callVars, memVars, hostVars>>
Computes   == part = "arithmetic"  /\ ExNext     /\ UNCHANGED <<part, interpVars, vfpuVars, rtVars, callVars, memVars, hostVars>>
Vectors    == part = "vectors"     /\ VfpuNext   /\ UNCHANGED <<part, interpVars, exVars, rtVars, callVars, memVars, hostVars>>
MovesWords == part = "moves"       /\ MoveNext   /\ UNCHANGED <<part, interpVars, exVars, vfpuVars, callVars, memVars, hostVars>>
LooksUp    == part = "table"       /\ TableNext  /\ UNCHANGED <<part, interpVars, exVars, vfpuVars, callVars, memVars, hostVars>>
CallsBack  == part = "calls"       /\ CallsNext  /\ UNCHANGED <<part, interpVars, exVars, vfpuVars, rtVars, memVars, hostVars>>
Allocates  == part = "memory"      /\ MemoryNext /\ UNCHANGED <<part, interpVars, exVars, vfpuVars, rtVars, callVars, hostVars>>
FilesWork  == part = "files"       /\ FileNext   /\ UNCHANGED <<part, coreVars, isoVars, clockVars>>
DiscIsRead == part = "disc"        /\ IsoNext    /\ UNCHANGED <<part, coreVars, fileVars, clockVars>>
ClockTicks == part = "clock"       /\ ClockNext  /\ UNCHANGED <<part, coreVars, fileVars, isoVars>>

MachineNext ==
    \/ Interprets \/ Computes \/ Vectors \/ MovesWords
    \/ LooksUp \/ CallsBack \/ Allocates
    \/ FilesWork \/ DiscIsRead \/ ClockTicks

MachineSpec == MachineInit /\ [][MachineNext]_<<part, coreVars, hostVars>>

=============================================================================
