---------------------------- MODULE MCDisconnection ----------------------------
\* Instances of Disconnection for TLC: the .cfg files give the constants.
\* The connections and calls are alike, but no symmetry set is declared: the runs check
\* liveness too, for which symmetry is not sound.
EXTENDS Disconnection

==============================================================================
