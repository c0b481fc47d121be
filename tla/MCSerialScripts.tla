--------------------------- MODULE MCSerialScripts ---------------------------
(* The host's serial scripts.  They have nothing in common but the machine   *)
(* they talk to, and each has its own: a behaviour is one of one component.  *)
EXTENDS ConsoleScripts, SerialFeeds, SerialBridges, SmokeInject, SioTee, ThroughputMonitor

BoundedStreams(S, n) == UNION {[1 .. m -> S] : m \in 0 .. n}

MCProgram == <<7, 8, 9>>
MCOldBytes == {0, 8}
MCLengths ==
    [f \in FileNames |->
        CASE f = "PAYLOAD" -> 5 [] f \in {"GO.SUB", "CPNETLDR", "CCP", "NDOS"} -> 2 [] OTHER -> 1]
MCTyped == BoundedStreams({"ESC", "q", "LF", "x"}, 4)
MCLines == BoundedStreams({"ENQ", "x"}, 5)
MCTrigger == <<"x", "x", "ENQ">>
MCCommands == <<"DIR", "ERA", "SAVE">>

serialVars == <<scriptVars, feedVars, bridgeVars, smokeVars, teeVars, monitorVars>>

SerialIdle ==
    ScriptsIdle /\ FeedsIdle /\ BridgesIdle /\ SmokeIdle /\ TeeIdle /\ MonitorIdle

SerialInit ==
    \/ ScriptsInit /\ FeedsIdle /\ BridgesIdle /\ SmokeIdle /\ TeeIdle /\ MonitorIdle
    \/ ScriptsIdle /\ FeedsInit /\ BridgesIdle /\ SmokeIdle /\ TeeIdle /\ MonitorIdle
    \/ ScriptsIdle /\ FeedsIdle /\ BridgesInit /\ SmokeIdle /\ TeeIdle /\ MonitorIdle
    \/ ScriptsIdle /\ FeedsIdle /\ BridgesIdle /\ SmokeInit /\ TeeIdle /\ MonitorIdle
    \/ ScriptsIdle /\ FeedsIdle /\ BridgesIdle /\ SmokeIdle /\ TeeInit /\ MonitorIdle
    \/ ScriptsIdle /\ FeedsIdle /\ BridgesIdle /\ SmokeIdle /\ TeeIdle /\ MonitorInit

SerialNext ==
    \/ ScriptsNext /\ UNCHANGED <<feedVars, bridgeVars, smokeVars, teeVars, monitorVars>>
    \/ FeedsNext /\ UNCHANGED <<scriptVars, bridgeVars, smokeVars, teeVars, monitorVars>>
    \/ BridgesNext /\ UNCHANGED <<scriptVars, feedVars, smokeVars, teeVars, monitorVars>>
    \/ SmokeNext /\ UNCHANGED <<scriptVars, feedVars, bridgeVars, teeVars, monitorVars>>
    \/ TeeNext /\ UNCHANGED <<scriptVars, feedVars, bridgeVars, smokeVars, monitorVars>>
    \/ MonitorNext /\ UNCHANGED <<scriptVars, feedVars, bridgeVars, smokeVars, teeVars>>

\* The scripts' own loops and the machine go on; lines are lost, connections
\* closed and counters used or not.
SerialFairness ==
    WF_scriptVars(ScriptsNext) /\ FeedsFairness /\ SmokeFairness /\ TeeFairness

\* What the tests rely on (smoke_inject.py, sio_tee.py, ThroughputMonitor): nothing is
\* typed too early, nothing changed on the way, nothing counted twice.
TestersFaithful == OnePromptEach /\ TeeTransparent /\ NothingUncounted

\* The scripts come to an end (main of the deployment scripts, send_hex_files,
\* smoke_inject.py and sio_tee.py), with the outcome each property names.
ProgramsEnd == ScriptEnds /\ FeedArrives /\ SmokeDone /\ TeeEnds
=============================================================================
