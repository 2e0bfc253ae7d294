------------------------------ MODULE MCPortProbe ------------------------------
(* A small range of ports for TLC: the system picks from the last but one. *)
EXTENDS PortProbe

FewEphemeral == {PortCount - 2}

==============================================================================
