--------------------------- MODULE MCServerListener ---------------------------
\* Instances of ServerListener for TLC: the .cfg files give the constants.
\* The clients are alike, but no symmetry set is declared: the runs check
\* liveness too, for which symmetry is not sound.
EXTENDS ServerListener

==============================================================================
