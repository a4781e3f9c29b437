------------------------------- MODULE MCDhcp -------------------------------
(* Two servers with an address each; one is the address the client starts    *)
(* with.                                                                   *)
EXTENDS Dhcp, TLC
CONSTANTS s1, s2, a1, a2
MCPool == s1 :> {a1} @@ s2 :> {a2}
=============================================================================
