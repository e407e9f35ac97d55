------------------------------- MODULE MCCbor64 -------------------------------
(***************************************************************************)
(* Numbers on both sides of each change of width, 64 bits included; 26      *)
(* strings, so that the 24 cheap references run out; and a string that the *)
(* caller has not announced.                                                *)
(***************************************************************************)
EXTENDS CborReader

Low(a, b, c, d) == <<0, 0, 0, 0, a, b, c, d>>
High(a) == [i \in 1 .. 8 |-> a]

MCNumbers ==
    {Low(0, 0, 0, 0), Low(0, 0, 0, 23), Low(0, 0, 0, 24), Low(0, 0, 0, 255),
     Low(0, 0, 1, 0), Low(0, 0, 255, 255), Low(0, 1, 0, 0), Low(255, 255, 255, 255),
     <<0, 0, 0, 1, 0, 0, 0, 0>>, <<127, 255, 255, 255, 255, 255, 255, 255>>,
     <<128, 0, 0, 0, 0, 0, 0, 0>>, High(255)}

Short == <<120, 121>>
Longer == <<108, 111, 110, 103>>
Last3 == <<108, 111, 119>>
Other == <<111, 116, 104, 101, 114>>

MCStrings == <<Short>> \o [i \in 1 .. 23 |-> <<97, 97, 96 + i>>] \o <<Last3, Longer>>
MCOthers == {Other}
MCSample == {MCStrings[2], Last3, Longer, Other}

=============================================================================
