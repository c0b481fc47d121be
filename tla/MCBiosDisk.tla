----------------------------- MODULE MCBiosDisk -----------------------------
(* Instances of BiosDisk for TLC. *)
EXTENDS BiosDisk, TLC

CONSTANTS v0, v1

MCValue == {v0, v1}
ValueSymmetry == Permutations(MCValue)

\* The position, kind, data and outcome of the last call are set anew by the
\* next one before they are used: states that differ in them alone are one.
MCView ==
    <<disk, bufVars, current_format_idx, pc, caller, sec, alloc, live, unalloc_count,
      IF unalloc_count = 0 THEN <<>> ELSE unalloc,
      IF pc = "bdos" THEN <<cpm[1]>> ELSE <<cpm, op, dma, reply>> >>

MCHostSector == 0 .. 1
MCSlotIndex == 0 .. 1
MCGarbage == {[i \in MCSlotIndex |-> v] : v \in MCValue}

\* Two records to a sector, as on a double density disk ("dd"), or one, as on
\* a single density disk ("sd").
MCFormat == {"dd", "sd"}
MCRpb == [f \in MCFormat |-> IF f = "dd" THEN 2 ELSE 1]
MCMask == [f \in MCFormat |-> IF f = "dd" THEN 1 ELSE 0]
LongTracks == [f \in MCFormat |-> IF f = "dd" THEN 4 ELSE 2]
ShortTracks == [f \in MCFormat |-> IF f = "dd" THEN 2 ELSE 1]
MCDrive1 == {0}
MCDrive2 == {0, 1}
MCFd01 == [d \in MCDrive1 |-> "dd"]
MCFd02 == [d \in MCDrive2 |-> IF d = 0 THEN "dd" ELSE "sd"]
MCTrack2 == 1 .. 2
=============================================================================
