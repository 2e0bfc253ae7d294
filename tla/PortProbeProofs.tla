---------------------------- MODULE PortProbeProofs ----------------------------
(* Proofs about PortProbe, for a range of ports of any size. *)
EXTENDS PortProbe, TLAPS

\* wrapping_add(1): the last port is followed by the first.
LEMMA FollowingWraps ==
  ASSUME NEW p \in Port
  PROVE  Following(p) = IF p = PortCount - 1 THEN 0 ELSE p + 1
<1>1. PortCount \in Nat /\ PortCount > 1 /\ p \in Nat /\ p <= PortCount - 1
  BY PortAssumption DEF Port
<1>2. CASE p = PortCount - 1
  BY <1>1, <1>2 DEF Following
<1>3. CASE p # PortCount - 1
  BY <1>1, <1>3 DEF Following
<1>4. QED
  BY <1>2, <1>3

\* Going on from a port adds it, and nothing else, to the ports gone by.
LEMMA BetweenFollowing ==
  ASSUME NEW d \in Port, NEW p \in Port
  PROVE  PortsBetween(d, Following(p)) \subseteq PortsBetween(d, p) \cup {p}
<1>1. PortCount \in Nat /\ PortCount > 1
  BY PortAssumption
<1>2. CASE p = PortCount - 1
  <2>1. Following(p) = 0
    BY <1>2, FollowingWraps
  <2>2. QED
    BY <1>1, <1>2, <2>1 DEF PortsBetween, Port
<1>3. CASE p # PortCount - 1
  <2>1. Following(p) = p + 1
    BY <1>3, FollowingWraps
  <2>2. QED
    BY <1>1, <1>3, <2>1 DEF PortsBetween, Port
<1>4. QED
  BY <1>2, <1>3

\* Every step keeps the invariant.
LEMMA ProbeStep ==
  ASSUME ProbeInv, [Next]_vars
  PROVE  ProbeInv'
<1> USE DEF ProbeInv, TypeOK
<1>t. PortCount \in Nat /\ PortCount > 1 /\ Ephemeral \subseteq 1 .. PortCount - 1
  BY PortAssumption
<1>1. CASE BindSucceeds
  <2>1. /\ bound' \in Port /\ bound' # 0
        /\ bound' # nextPort => nextPort = 0 /\ bound' \in Ephemeral
    <3>1. bound' \in IF nextPort = 0 THEN Ephemeral ELSE {nextPort}
      BY <1>1 DEF BindSucceeds, Obtainable
    <3>2. CASE nextPort = 0
      BY <1>t, <3>1, <3>2 DEF Port
    <3>3. CASE nextPort # 0
      BY <1>t, <3>1, <3>3 DEF Port
    <3>4. QED
      BY <3>2, <3>3
  <2>2. QED
    BY <1>1, <2>1 DEF BindSucceeds, NoneSkipped, PortIsReal, PortsBetween
<1>2. CASE BindGoesOn
  <2>1. nextPort' \in Port
    BY <1>t, <1>2, FollowingWraps DEF BindGoesOn, Port
  <2>2. PortsBetween(desired', nextPort') \subseteq refused'
    <3>1. desired' = desired /\ nextPort' = Following(nextPort) /\ refused' = refused \cup {nextPort}
      BY <1>2 DEF BindGoesOn
    <3>2. PortsBetween(desired, Following(nextPort)) \subseteq refused \cup {nextPort}
      BY BetweenFollowing DEF NoneSkipped
    <3>3. QED
      BY <3>1, <3>2
  <2>3. NoneSkipped'
    BY <2>2 DEF NoneSkipped, PortsBetween
  <2>4. QED
    BY <1>2, <2>1, <2>3 DEF BindGoesOn, PortIsReal
<1>3. CASE BindPanics
  BY <1>3 DEF BindPanics, NoneSkipped, PortIsReal, PortsBetween
<1>4. CASE OthersMove
  BY <1>4 DEF OthersMove, NoneSkipped, PortIsReal, PortsBetween
<1>5. CASE UNCHANGED vars
  BY <1>5 DEF vars, NoneSkipped, PortIsReal, PortsBetween
<1>6. QED
  BY <1>1, <1>2, <1>3, <1>4, <1>5 DEF Next, Probe

------------------------------------------------------------------------------

\* Whatever other programs do, probing goes port by port and around the end.
THEOREM ProbeInvariant == Spec => []ProbeInv
<1>1. Init => ProbeInv
  BY PortAssumption DEF Init, ProbeInv, TypeOK, NoneSkipped, PortIsReal, PortsBetween, Port
<1>2. ProbeInv /\ [Next]_vars => ProbeInv'
  BY ProbeStep
<1>3. QED
  BY <1>1, <1>2, PTL DEF Spec

\* No port is skipped, for any desired port and any range.
THEOREM NoPortIsSkipped == Spec => []NoneSkipped
<1>1. ProbeInv => NoneSkipped
  BY DEF ProbeInv
<1>2. QED
  BY <1>1, ProbeInvariant, PTL

\* The port that server_port tells is the one bound, for every range of ports.
THEOREM PortToldIsReal == Spec => []PortIsReal
<1>1. ProbeInv => PortIsReal
  BY DEF ProbeInv
<1>2. QED
  BY <1>1, ProbeInvariant, PTL

\* A refusal leads one port nearer to every free port: what is left before it
\* bounds the number of attempts.
LEMMA RefusalIsNearer ==
  ASSUME ProbeInv, BindGoesOn, AddressIsOurs, NEW p \in 1 .. PortCount - 1, p \notin busy
  PROVE  Distance(nextPort', p) < Distance(nextPort, p)
<1>1. PortCount \in Nat /\ PortCount > 1
  BY PortAssumption
<1>2. nextPort \in Port
  BY DEF ProbeInv, TypeOK
<1>3. nextPort' = IF nextPort = PortCount - 1 THEN 0 ELSE nextPort + 1
  BY <1>2, FollowingWraps DEF BindGoesOn
<1>4. nextPort # p
  <2>1. p # 0
    BY <1>1
  <2>2. QED
    BY <2>1 DEF BindGoesOn, Obtainable
<1>5. QED
  BY <1>1, <1>2, <1>3, <1>4 DEF Distance, Port

\* Probing never passes over a port that it could have, nor stops short of it.
THEOREM ProbingComesNearer == Spec => ProbeComesNearer
<1>1. ProbeInv /\ [Next]_vars =>
        [\A p \in 1 .. PortCount - 1 :
           BindGoesOn /\ AddressIsOurs /\ p \notin busy
             => Distance(nextPort', p) < Distance(nextPort, p)]_vars
  BY RefusalIsNearer
<1>2. QED
  BY <1>1, ProbeInvariant, PTL DEF Spec, ProbeComesNearer

==============================================================================
