---------------------------- MODULE MCHostTools ----------------------------
(***************************************************************************)
(* The tools that run on the host beside the machine, for TLC.  They share  *)
(* nothing: a behaviour is one of ImdTools, BiosBuild, SystemFiles or       *)
(* SdlcReceiver, the variables of the others stay as they are.              *)
(***************************************************************************)
EXTENDS ImdTools, BiosBuild, SystemFiles, SdlcReceiver

toolsVars == <<imdVars, buildVars, fileVars, sdlcVars>>

ToolsIdle == ImdIdle /\ BuildIdle /\ FilesIdle /\ SdlcIdle

ToolsInit ==
    \/ ImdInit /\ BuildIdle /\ FilesIdle /\ SdlcIdle
    \/ ImdIdle /\ BuildInit /\ FilesIdle /\ SdlcIdle
    \/ ImdIdle /\ BuildIdle /\ FilesInit /\ SdlcIdle
    \/ ImdIdle /\ BuildIdle /\ FilesIdle /\ SdlcInit

ToolsNext ==
    \/ ImdNext /\ UNCHANGED <<buildVars, fileVars, sdlcVars>>
    \/ BuildNext /\ UNCHANGED <<imdVars, fileVars, sdlcVars>>
    \/ FilesNext /\ UNCHANGED <<imdVars, buildVars, sdlcVars>>
    \/ SdlcNext /\ UNCHANGED <<imdVars, buildVars, fileVars>>

-----------------------------------------------------------------------------
(* Small diskettes for ImdTools: records of two bytes. *)

Byte(c, h, i) == 10 * c + 4 * h + i
Sec(c, h, i, type, n) ==
    [id |-> i, type |-> type,
     data |-> IF type = 0 THEN Fill(0, n)
              ELSE IF type % 2 = 1 THEN [k \in 1 .. n |-> Byte(c, h, i) + (k % 2)]
              ELSE Fill(Byte(c, h, i), n)]
Trk(c, h, ids, type, code, cm, hm) ==
    [mode |-> IF code = 0 THEN 0 ELSE 3, cyl |-> c, head |-> h, cmap |-> cm, hmap |-> hm,
     code |-> code, secs |-> [i \in 1 .. Len(ids) |->
        Sec(c, h, ids[i], IF i = 1 THEN type ELSE 1 + (i % 2), Size(code))]]

\* Cylinder 0 of two sides, its sectors in order, and cylinder 1 -- or in another
\* order, and cylinder 2 -- with maps or without, the first sector of any type; one
\* diskette of one side only and one of three cylinders; two with a map on a side of
\* cylinder 0.
MCImages ==
    {<<Trk(0, 0, <<first, 3 - first>>, ty, 0, FALSE, FALSE), Trk(0, 1, <<1, 2>>, 1, 1, FALSE, FALSE),
       Trk(first, 0, <<1, 3, 2>>, ty, 2, cm, hm), Trk(first, 1, <<1, 2, 3>>, 1, 2, FALSE, hm)>> :
        first \in {1, 2}, ty \in {0, 1, 2, 5, 8}, cm \in BOOLEAN, hm \in BOOLEAN}
    \cup {<<Trk(0, 0, <<1, 2>>, ty, 0, FALSE, FALSE), Trk(1, 0, <<3, 1, 2>>, ty, 2, FALSE, TRUE)>> :
            ty \in {0, 5, 8}}
    \cup {<<Trk(0, 0, <<1>>, 2, 0, FALSE, FALSE), Trk(1, 0, <<2, 1>>, 3, 1, FALSE, FALSE),
            Trk(2, 0, <<1, 2>>, 3, 1, FALSE, FALSE), Trk(4, 0, <<1, 2>>, 3, 1, TRUE, FALSE)>>}
    \cup {<<Trk(0, 0, <<1, 2>>, 1, 0, m = "cyl", FALSE), Trk(0, 1, <<1, 2>>, 6, 1, FALSE, m = "head"),
            Trk(1, 0, <<1, 2, 3>>, 3, 2, FALSE, FALSE)>> : m \in {"cyl", "head"}}

\* The system of the first of these diskettes, with as many bytes changed as a serial
\* number has and with one more, and a build that is too short.
MCSystem == Sec(1, 0, 1, 1, 8).data \o Sec(1, 0, 3, 1, 8).data \o Sec(1, 0, 2, 2, 8).data
            \o SubSeq(Sec(1, 1, 1, 1, 8).data, 1, 4)
MCBuilts == {[i \in 1 .. Len(MCSystem) |-> IF i <= n THEN 99 ELSE MCSystem[i]] : n \in {0, 2, 3}}
            \cup {Tail(MCSystem)}

MCXLT == 3 :> <<1, 3, 2>> @@ 9 :> <<1, 3, 5, 7, 9, 2, 4, 6, 8>>
         @@ 10 :> <<1, 3, 5, 7, 9, 2, 4, 6, 8, 10>>
         @@ 15 :> <<1, 5, 9, 13, 2, 6, 10, 14, 3, 7, 11, 15, 4, 8, 12>>
         @@ 26 :> <<1, 7, 13, 19, 25, 5, 11, 17, 23, 3, 9, 15, 21, 2, 8, 14, 20, 26, 6, 12, 18, 24, 4, 10, 16, 22>>
MCSkew == 3 :> 2 @@ 9 :> 2 @@ 10 :> 2 @@ 15 :> 4 @@ 26 :> 6

\* Lengths that end inside side 0, at its end, inside side 1, at the end of
\* track 0 and past it.
MCCims == {[i \in 1 .. n |-> 100 + i] : n \in {3, 4, 7, 12, 13}} \cup {<<128, 2, 0>>}

\* 24 records of a maxi, 16 of an RC703 disk, a mini of one or two data
\* cylinders, with and without a tail of E5, and one with another tail.
MCRaw(n, tail, e) == [i \in 1 .. n + tail |-> IF i <= n THEN i % 100 ELSE e]
MCRawImages == {MCRaw(48, 0, 0), MCRaw(64, 0, 0), MCRaw(22, 0, 0), MCRaw(38, 4, 229),
                MCRaw(6, 2, 229), MCRaw(22, 4, 7)}
MCDelta == {-1, 1}

-----------------------------------------------------------------------------
(* Images that end inside side 0, at its end, inside side 1 and past track 0, *)
(* with zeros a loader leaves behind anyway and with bytes that are alike;    *)
(* .COM files that end before side 1, inside it, at its end and past it.      *)

MCBios == {[i \in 1 .. n |-> 3 * i] : n \in {1, 2, 4, 5, 7}}
          \cup {<<5, 0, 0, 0, 5>>, <<0, 0, 0, 0>>, <<7, 7, 7, 7, 7, 7>>}
MCCom == {[i \in 1 .. n |-> 200 + i] : n \in {19, 22, 24, 26}}
MCHexBases == {0, 254, 17664}

-----------------------------------------------------------------------------
(* Binaries never stamped, stamped before, without room for a stamp and too   *)
(* short for one; serial numbers in every form; programs with addresses at    *)
(* the first and last bit of a byte of the map and in the pages where adding  *)
(* one wraps; payloads of which two have the same sum and one is odd.         *)

Zeros(n) == [i \in 1 .. n |-> 0]
PutAt(s, at, b) == SubSeq(s, 1, at) \o b \o SubSeq(s, at + Len(b) + 1, Len(s))
MCCode == [i \in 1 .. 10 |-> i]
MCCcps == {PutAt(MCCode, 2, Zeros(6)), PutAt(MCCode, 2, <<9, 22, 9, 9, 9, 9>>), MCCode,
           <<1, 2, 0, 0, 0>>}
MCBdoses == {Zeros(6) \o <<1, 2>>, <<9, 22, 9, 9, 9, 9, 1, 2>>, <<3, 3, 3, 3, 3, 3, 1, 2>>,
             <<0, 0, 0>>}
MCSerials ==
    {<<"hex", <<209, 22, 7, 0, 11, 156>> >>, <<"hex", <<1, 2, 3, 4, 5, 6>> >>,
     <<"text", << <<0>> >> >>, <<"text", << <<2>>, <<0, 0, 1>>, <<2, 9, 7, 2>> >> >>,
     <<"text", << <<7>>, <<1, 2, 3, 4, 5, 6>> >> >>,
     <<"text", << <<7, 0>>, <<1, 6, 7, 7, 7, 2, 1, 6>> >> >>}
MCPrograms ==
    {[i \in 1 .. n |-> IF i = a \/ i = b THEN <<"page", v>> ELSE <<"byte", i>>] :
        n \in {8, 12, 16}, a \in {1, 3}, b \in {8, 16}, v \in {0, 2, 254, 255}}
MCPages == {0, 1, 216}
MCPayloads == {<<1, 2, 3, 4, 255, 255>>, <<3, 2, 1, 4, 255, 255>>,
               <<255, 255, 255, 255, 9, 9, 255, 255>>, <<1, 2, 255>>}

-----------------------------------------------------------------------------
(* Frames of ones, zeros and what looks like a flag, behind one flag or more, *)
(* alone and in a row; cells all equal, now and then longer or shorter.       *)

MCSendings ==
    {<< <<2, <<a>> >> >> : a \in {0, 255, 126, 63, 31, 248, 170}}
    \cup {<< <<2, <<255, a>> >>, <<g, <<b>> >> >> : a \in {255, 3}, b \in {0, 255, 31}, g \in {1, 2}}
    \cup {<< <<3, <<126>> >>, <<1, <<255>> >>, <<1, <<1>> >> >>}
MCJitters == {<<0>>, <<1, 0, 0>>, <<0, 0, -1, 0>>, <<1, -1>>}
MCCoarse == <<50, 75, 100, 125>>
MCFine == <<-2, 0, 2>>
=============================================================================
