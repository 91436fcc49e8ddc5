-------------------------------- MODULE MCDhcp --------------------------------
(* Instances of Dhcp for TLC.                                               *)
EXTENDS Dhcp, TLC

CONSTANTS m1, m2
TwoMacs == {m1, m2}
OnceEach == [m \in TwoMacs |-> 1]
Symmetric == Permutations(TwoMacs)
=============================================================================
