---------------------------- MODULE MCCpnetServer ----------------------------
(***************************************************************************)
(* server.py for TLC: its functions, with records of two bytes, extents of   *)
(* two records, names of two characters and one; or its link to SNIOS, with  *)
(* requests, retries and faults bounded by the cfg.  The link executes a     *)
(* request as a whole and its frames carry no data, so a behaviour is one of *)
(* either.                                                                  *)
(***************************************************************************)
EXTENDS CpnetServer, DriLink

MCInit == Init /\ (CpnetInit \/ CpnetIdle)

LinkNext == serving = "off" /\ Next

MCNext ==
    \/ LinkNext /\ UNCHANGED cpnetVars
    \/ CpnetNext /\ UNCHANGED vars

MCSpec ==
    /\ MCInit /\ [][MCNext]_<<vars, cpnetVars>>
    /\ WF_vars(serving = "off" /\ Snios) /\ WF_vars(serving = "off" /\ Server)

-----------------------------------------------------------------------------
NAME_A == <<"A", " ", "B">>
NAME_AA == <<"A'", "A", " ">>
HOST_A == <<<<"A">>, <<"B">>>>

MCDriveDir == 0 :> "d" @@ 1 :> "d"
MCFcbNames == {NAME_A, NAME_AA}
MCPatterns == {<<"A", "?", "?">>}
MCHostFiles == {("d" :> (HOST_A :> <<1>>))}
MCSectors == {<<3, 3>>}
===============================================================================
