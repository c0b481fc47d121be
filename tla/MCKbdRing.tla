------------------------------ MODULE MCKbdRing ------------------------------
(***************************************************************************)
(* What interrupt handlers share with the mainline, for TLC: the keyboard    *)
(* ring; the floppy driver, the timers and the clock; the cursor of the      *)
(* CP/NOS console.  They have nothing in common: a behaviour is one of the   *)
(* three.                                                                   *)
(***************************************************************************)
EXTENDS KbdRing, BiosFloppy, CpnosConsole, TLC

CONSTANTS a, b

VARIABLE side       \* which of the three

MCInit ==
    /\ ConsoleInit
    /\ \/ side = "keyboard" /\ Init /\ FloppyIdle
       \/ side = "floppy" /\ Init /\ got = a /\ FloppyInit
       \/ side = "console" /\ Init /\ got = a /\ FloppyIdle

KeyboardNext == side = "keyboard" /\ Next

MCNext ==
    \/ KeyboardNext /\ UNCHANGED <<floppyVars, consoleVars, side>>
    \/ FloppyNext /\ UNCHANGED <<vars, consoleVars, side>>
    \/ side = "console" /\ ConsoleNext /\ UNCHANGED <<vars, floppyVars, side>>

MCSpec ==
    /\ MCInit /\ [][MCNext]_<<vars, floppyVars, consoleVars, side>>
    /\ WF_vars(ConinStep) /\ WF_vars(side = "keyboard" /\ IsrCrt) /\ FloppyFairness
=============================================================================
