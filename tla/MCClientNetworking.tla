-------------------------- MODULE MCClientNetworking --------------------------
\* Instances of ClientNetworking for TLC: the .cfg files give the constants.
\* The messages are alike, but no symmetry set is declared: the runs check
\* liveness too, for which symmetry is not sound.
EXTENDS ClientNetworking

==============================================================================
