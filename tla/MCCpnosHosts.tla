---------------------------- MODULE MCCpnosHosts ----------------------------
(***************************************************************************)
(* The programs on the host that a CP/NOS station talks to, for TLC: the     *)
(* netboot server, or the bridge of the parallel port.  A behaviour is one   *)
(* of either.                                                               *)
(***************************************************************************)
EXTENDS NetbootServer, PioBridge

Init == (NetbootInit /\ PioIdle) \/ (NetbootIdle /\ PioInit)

Next ==
    \/ NetbootNext /\ UNCHANGED pioVars
    \/ PioNext /\ UNCHANGED netbootVars

Spec == Init /\ [][Next]_<<netbootVars, pioVars>> /\ NetbootFairness /\ PioFairness

-----------------------------------------------------------------------------
\* CPNOS.IMG is key 1; a second build is longer than the first and too long to
\* fit.
MCBuilds == <<<<1, 1, 1>>, <<2, 2, 2, 2, 2, 2>>>>
MCHostFiles == <<>>
MCSectors == {<<3, 3>>}

\* The probe, an open whose function is also the station's SID, and a login whose
\* bytes add up to zero.
MCRequests == {[fnc |-> 192, dat |-> <<80>>], [fnc |-> 15, dat |-> <<5>>], [fnc |-> 64, dat |-> <<2, 174>>]}

-----------------------------------------------------------------------------
\* A station that asks gets an end: booting (netboot_mpm) and every exchange of the
\* bridge (handle) come to one, and no exchange fails without a fault.
ExchangesEnd == BootEnds /\ ExchangeEnds /\ NoFalseFailure
=============================================================================
