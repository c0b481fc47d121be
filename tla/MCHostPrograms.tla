--------------------------- MODULE MCHostPrograms ---------------------------
(* The programs of the host: the tools for files and disk images, and the    *)
(* scripts that talk to a machine.  A behaviour is one of one program.       *)
EXTENDS MCHostTools, MCSerialScripts

Init == (ToolsInit /\ SerialIdle) \/ (ToolsIdle /\ SerialInit)

Next ==
    \/ ToolsNext /\ UNCHANGED serialVars
    \/ SerialNext /\ UNCHANGED toolsVars

Spec == Init /\ [][Next]_<<toolsVars, serialVars>> /\ SerialFairness
=============================================================================
