--------------------------- MODULE MCClonelessSending ---------------------------
\* Instances of ClonelessSending for TLC: the .cfg files give the constants.
\* Neither the messages nor the allocations are declared symmetric: the run
\* checks liveness too.
EXTENDS ClonelessSending

=================================================================================
