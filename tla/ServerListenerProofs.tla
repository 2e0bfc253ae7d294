------------------------- MODULE ServerListenerProofs -------------------------
(***************************************************************************)
(* Proofs about ServerListener, for any clients in any order, whatever     *)
(* they do while the accept task and the user go on.                       *)
(***************************************************************************)
EXTENDS ServerListener, SequenceTheorems, TLAPS

\* Queues one behind the other make the same row, whichever are put together
\* first.
LEMMA QueuesInARow ==
  ASSUME NEW s \in Seq(Client), NEW t \in Seq(Client), NEW u \in Seq(Client)
  PROVE  (s \o t) \o u = s \o (t \o u)
  BY ConcatAssociative

\* Moving the first of one queue to the end of the one before it.
LEMMA MoveOne ==
  ASSUME NEW s \in Seq(Client), NEW t \in Seq(Client), t # <<>>
  PROVE  Append(s, Head(t)) \o Tail(t) = s \o t
<1>1. Head(t) \in Client /\ Tail(t) \in Seq(Client) /\ <<Head(t)>> \in Seq(Client)
  BY HeadTailProperties
<1>2. Append(s, Head(t)) = s \o <<Head(t)>>
  BY <1>1, AppendIsConcat
<1>3. <<Head(t)>> \o Tail(t) = t
  <2>1. /\ Len(<<Head(t)>> \o Tail(t)) = Len(t)
        /\ \A i \in 1 .. Len(t) : (<<Head(t)>> \o Tail(t))[i] = t[i]
    BY <1>1, HeadTailProperties
  <2>2. QED
    BY <1>1, <2>1, ConcatProperties, SeqEqual
<1>4. QED
  BY <1>1, <1>2, <1>3, QueuesInARow

\* Appending to the second of two queues appends to both.
LEMMA AppendToSecond ==
  ASSUME NEW s \in Seq(Client), NEW t \in Seq(Client), NEW c \in Client
  PROVE  s \o Append(t, c) = Append(s \o t, c)
<1>1. <<c>> \in Seq(Client) /\ s \o t \in Seq(Client)
  BY ConcatProperties
<1>2. Append(t, c) = t \o <<c>> /\ Append(s \o t, c) = (s \o t) \o <<c>>
  BY <1>1, AppendIsConcat
<1>3. QED
  BY <1>1, <1>2, QueuesInARow

\* The first queue is a prefix of all of them in a row.
LEMMA FirstIsPrefix ==
  ASSUME NEW p \in Seq(Client), NEW q \in Seq(Client), NEW r \in Seq(Client),
         NEW s \in Seq(Client), NEW row, row = p \o q \o r \o s
  PROVE  Len(p) <= Len(row) /\ \A i \in 1 .. Len(p) : p[i] = row[i]
<1> DEFINE pq == p \o q
           pqr == pq \o r
<1>1. pq \in Seq(Client) /\ Len(p) <= Len(pq) /\ \A i \in 1 .. Len(p) : pq[i] = p[i]
  BY ConcatProperties
<1>2. pqr \in Seq(Client) /\ Len(pq) <= Len(pqr) /\ \A i \in 1 .. Len(pq) : pqr[i] = pq[i]
  BY <1>1, ConcatProperties
<1>3. Len(pqr) <= Len(pqr \o s) /\ \A i \in 1 .. Len(pqr) : (pqr \o s)[i] = pqr[i]
  BY <1>2, ConcatProperties
<1> HIDE DEF pq, pqr
<1>4. Len(p) \in Nat /\ Len(pq) \in Nat /\ Len(pqr) \in Nat
  BY <1>1, <1>2
<1>5. Len(p) <= Len(pqr \o s) /\ \A i \in 1 .. Len(p) : p[i] = (pqr \o s)[i]
  BY <1>1, <1>2, <1>3, <1>4
<1>6. QED
  BY <1>5 DEF pq, pqr

LEMMA ElementsAppend ==
  ASSUME NEW s \in Seq(Client), NEW c \in Client
  PROVE  Elements(Append(s, c)) = Elements(s) \cup {c}
<1>1. \A n : n \in Elements(Append(s, c)) <=> n \in Elements(s) \/ n = c
  BY DEF Elements
<1>2. QED
  BY <1>1

LEMMA ElementsHeadTail ==
  ASSUME NEW s \in Seq(Client), s # <<>>
  PROVE  Elements(s) \subseteq {Head(s)} \cup Elements(Tail(s))
<1> SUFFICES ASSUME NEW i \in 1 .. Len(s), i # 1
             PROVE  \E j \in 1 .. Len(Tail(s)) : Tail(s)[j] = s[i]
  BY DEF Elements
<1>1. i - 1 \in 1 .. Len(Tail(s)) /\ Tail(s)[i - 1] = s[i]
  BY HeadTailProperties
<1>2. QED
  BY <1>1

\* The client at hand, if any, as a queue.
LEMMA CurrentIsQueue ==
  ASSUME NEW q \in {<<>>} \cup {<<c>> : c \in Client}
  PROVE  q \in Seq(Client)
<1>1. CASE q = <<>>
  BY <1>1
<1>2. CASE \E c \in Client : q = <<c>>
  BY <1>2
<1>3. QED
  BY <1>1, <1>2

------------------------------------------------------------------------------

\* Every step keeps the types.
LEMMA TypeStep ==
  ASSUME TypeOK, [Next]_vars
  PROVE  TypeOK'
<1> USE DEF TypeOK
<1>1. CASE Start
  BY <1>1 DEF Start
<1>2. CASE Accept
  BY <1>2, HeadTailProperties DEF Accept
<1>3. CASE PollClient
  BY <1>3, HeadTailProperties DEF PollClient
<1>4. CASE DropListener
  <2>1. channel' \in Seq(Client)
    BY <1>4 DEF DropListener
  <2>2. QED
    BY <1>4, <2>1 DEF DropListener
<1>5. ASSUME NEW c \in Client, HandshakeSucceeds(c)
      PROVE  TypeOK'
  <2>1. Append(channel, c) \in Seq(Client)
    BY AppendProperties
  <2>2. peer' \in [Client -> {"away", "knocking", "connected", "gone"}]
    BY <1>5 DEF HandshakeSucceeds
  <2>3. current' \in {<<>>} \cup {<<d>> : d \in Client}
    BY <1>5 DEF HandshakeSucceeds
  <2>4. QED
    BY <1>5, <2>1, <2>2, <2>3 DEF HandshakeSucceeds
<1>6. CASE \E c \in Client : HandshakeFails(c)
  BY <1>6 DEF HandshakeFails
<1>7. ASSUME NEW c \in Client, Knock(c)
      PROVE  TypeOK'
  <2>1. Append(knocked, c) \in Seq(Client) /\ Append(incoming, c) \in Seq(Client)
    BY AppendProperties
  <2>2. peer' \in [Client -> {"away", "knocking", "connected", "gone"}]
    BY <1>7 DEF Knock
  <2>3. QED
    BY <1>7, <2>1, <2>2 DEF Knock
<1>8. CASE \E c \in Client : Leave(c)
  BY <1>8 DEF Leave
<1>9. CASE UNCHANGED vars
  BY <1>9 DEF vars
<1>10. QED
  BY <1>1, <1>2, <1>3, <1>4, <1>5, <1>6, <1>7, <1>8, <1>9 DEF Next, Handshake

\* All who have knocked, in the order of the queues they are in.
Row == provided \o channel \o current \o incoming

\* A step that leaves a listener in place keeps the row as it is, or a new
\* client joins it at its end.
LEMMA RowStep ==
  ASSUME ListenerInv, [Next]_vars, listening'
  PROVE  knocked' = Row'
<1> USE DEF ListenerInv, TypeOK
<1>1. listening /\ knocked = Row
  BY DEF Next, Start, Accept, PollClient, DropListener, Handshake, HandshakeSucceeds,
         HandshakeFails, Knock, Leave, vars, ArrivalOrderKept, Row
<1>2. /\ provided \o channel \in Seq(Client)
      /\ current \in Seq(Client)
      /\ provided \o channel \o current \in Seq(Client)
  <2>1. current \in Seq(Client)
    BY CurrentIsQueue
  <2>2. provided \o channel \in Seq(Client)
    BY ConcatProperties
  <2>3. QED
    BY <2>1, <2>2, ConcatProperties
<1>3. CASE Accept
  <2>1. current = <<>>
    BY <1>3 DEF Accept, QueuesInStep
  <2>2. provided \o channel \o current = provided \o channel
    BY <1>2, <2>1, ConcatEmptySeq
  <2>3. Head(incoming) \in Client
    BY <1>3, HeadTailProperties DEF Accept
  <2>4. (provided \o channel) \o <<Head(incoming)>> = Append(provided \o channel, Head(incoming))
    BY <1>2, <2>3, AppendIsConcat
  <2>5. (provided \o channel) \o <<Head(incoming)>> \o Tail(incoming)
          = (provided \o channel) \o incoming
    <3>1. incoming \in Seq(Client) /\ incoming # <<>>
      BY <1>3 DEF Accept
    <3>2. QED
      BY ONLY <1>2, <2>4, <3>1, MoveOne
  <2>6. QED
    BY <1>1, <1>3, <2>2, <2>5 DEF Accept, Row
<1>4. CASE PollClient
  <2>1. Append(provided, Head(channel)) \o Tail(channel) = provided \o channel
    BY <1>4, MoveOne DEF PollClient
  <2>2. QED
    BY <1>1, <1>4, <2>1 DEF PollClient, Row
<1>5. ASSUME NEW c \in Client, HandshakeSucceeds(c)
      PROVE  knocked' = Row'
  <2>1. /\ current = <<c>> /\ current' = <<>> /\ channel' = Append(channel, c)
        /\ UNCHANGED <<knocked, incoming, provided>>
    BY <1>1, <1>5 DEF HandshakeSucceeds
  <2>2. provided \o Append(channel, c) = Append(provided \o channel, c)
    BY AppendToSecond
  <2>3. Append(provided \o channel, c) = (provided \o channel) \o <<c>>
    BY <1>2, AppendIsConcat
  <2>4. ((provided \o channel) \o <<c>>) \o <<>> = (provided \o channel) \o <<c>>
    BY <1>2, <2>1, ConcatEmptySeq
  <2>5. QED
    BY <1>1, <2>1, <2>2, <2>3, <2>4 DEF Row
<1>6. ASSUME NEW c \in Client, Knock(c)
      PROVE  knocked' = Row'
  <2>1. (provided \o channel \o current) \o Append(incoming, c) = Append(Row, c)
    BY <1>2, AppendToSecond DEF Row
  <2>2. QED
    BY <1>1, <1>6, <2>1 DEF Knock, Row
<1>7. CASE UNCHANGED <<knocked, provided, channel, current, incoming>>
  BY <1>1, <1>7 DEF Row
<1>8. QED
  BY <1>1, <1>3, <1>4, <1>5, <1>6, <1>7
     DEF Next, Start, DropListener, Handshake, HandshakeFails, Leave, vars

\* Every step keeps the order of arrival.
LEMMA OrderStep ==
  ASSUME ListenerInv, [Next]_vars
  PROVE  ArrivalOrderKept'
<1> USE DEF ListenerInv, TypeOK
<1>1. CASE listening'
  <2>1. knocked' = Row'
    BY <1>1, RowStep
  <2>2. TypeOK'
    BY TypeStep
  <2>3. /\ provided' \in Seq(Client) /\ channel' \in Seq(Client)
        /\ current' \in Seq(Client) /\ incoming' \in Seq(Client)
    BY <2>2, CurrentIsQueue
  <2>4. knocked' = provided' \o channel' \o current' \o incoming'
    BY <2>1 DEF Row
  <2>5. /\ Len(provided') <= Len(knocked')
        /\ \A i \in 1 .. Len(provided') : provided'[i] = knocked'[i]
    BY ONLY <2>3, <2>4, FirstIsPrefix
  <2>6. QED
    BY <2>4, <2>5 DEF ArrivalOrderKept
<1>2. CASE ~listening'
  <2>1. /\ provided' = provided
        /\ knocked' = knocked \/ \E c \in Client : knocked' = Append(knocked, c)
    BY <1>2 DEF Next, Start, Accept, PollClient, DropListener, Handshake, HandshakeSucceeds,
                HandshakeFails, Knock, Leave, vars
  <2>2. Len(knocked) <= Len(knocked') /\ \A i \in 1 .. Len(knocked) : knocked'[i] = knocked[i]
    BY <2>1, AppendProperties
  <2>3. QED
    BY <1>2, <2>1, <2>2 DEF ArrivalOrderKept
<1>3. QED
  BY <1>1, <1>2

\* Every step keeps the clients, the queue of Quinn and the task in step.
LEMMA QueuesStep ==
  ASSUME ListenerInv, [Next]_vars
  PROVE  QueuesInStep'
<1> USE DEF ListenerInv, TypeOK
<1>1. ASSUME NEW c \in Client, Knock(c)
      PROVE  QueuesInStep'
  <2>1. Elements(knocked') = Elements(knocked) \cup {c}
    BY <1>1, ElementsAppend DEF Knock
  <2>2. \A d \in Client : peer'[d] = "away" <=> peer[d] = "away" /\ d # c
    BY <1>1 DEF Knock
  <2>3. \A d \in Client : peer'[d] = "away" <=> d \notin Elements(knocked')
    BY <2>1, <2>2 DEF QueuesInStep
  <2>4. \A i \in 1 .. Len(knocked) : knocked[i] # c
    BY <1>1 DEF Knock, QueuesInStep, Elements
  <2>5. /\ Len(knocked') = Len(knocked) + 1 /\ knocked'[Len(knocked) + 1] = c
        /\ \A i \in 1 .. Len(knocked) : knocked'[i] = knocked[i]
    BY <1>1, AppendProperties DEF Knock
  <2>6. \A i, j \in 1 .. Len(knocked') : knocked'[i] = knocked'[j] => i = j
    <3>1. \A i \in 1 .. Len(knocked') : i \in 1 .. Len(knocked) \/ i = Len(knocked) + 1
      BY <2>5
    <3>2. \A i, j \in 1 .. Len(knocked) : knocked[i] = knocked[j] => i = j
      BY DEF QueuesInStep
    <3>3. QED
      BY <2>4, <2>5, <3>1, <3>2
  <2>7. Elements(knocked)' = Elements(knocked')
    BY DEF Elements
  <2>8. UNCHANGED <<acceptTask, current>>
    BY <1>1 DEF Knock
  <2>9. acceptTask = "starting" => knocked' = incoming'
    BY <1>1 DEF Knock, QueuesInStep
  <2>10. QED
    BY <2>3, <2>6, <2>7, <2>8, <2>9 DEF QueuesInStep
<1>2. ASSUME UNCHANGED knocked,
             \A c \in Client : peer'[c] = "away" <=> peer[c] = "away",
             acceptTask' \in {"starting", "accepting"} => current' = <<>>,
             acceptTask' = "starting" => acceptTask = "starting" /\ incoming' = incoming,
             acceptTask' = "handshaking" => current' # <<>>
      PROVE  QueuesInStep'
  BY <1>2 DEF QueuesInStep, Elements
<1>3. CASE Start
  BY <1>2, <1>3 DEF QueuesInStep, Start
<1>3a. CASE Accept
  BY <1>2, <1>3a DEF Accept
<1>3b. CASE PollClient \/ DropListener \/ UNCHANGED vars
  BY <1>2, <1>3b DEF QueuesInStep, PollClient, DropListener, vars
<1>4. CASE \E c \in Client : Handshake(c) \/ Leave(c)
  BY <1>2, <1>4 DEF QueuesInStep, Handshake, HandshakeSucceeds, HandshakeFails, Leave
<1>5. QED
  BY <1>1, <1>3, <1>3a, <1>3b, <1>4 DEF Next

\* Every step leaves the connected clients with someone.
LEMMA StrandedStep ==
  ASSUME ListenerInv, [Next]_vars
  PROVE  NobodyStranded'
<1> USE DEF ListenerInv, TypeOK
<1> SUFFICES ASSUME listening', NEW c \in Client, peer'[c] = "connected"
             PROVE  c \in Elements(provided') \cup Elements(channel')
  BY DEF NobodyStranded, Elements
<1>1. CASE PollClient
  <2>1. c \in Elements(provided) \cup Elements(channel)
    BY <1>1 DEF PollClient, NobodyStranded
  <2>2. Elements(channel) \subseteq {Head(channel)} \cup Elements(channel')
    BY <1>1, ElementsHeadTail DEF PollClient
  <2>3. Elements(provided') = Elements(provided) \cup {Head(channel)}
    BY <1>1, HeadTailProperties, ElementsAppend DEF PollClient
  <2>4. QED
    BY <2>1, <2>2, <2>3
<1>2. ASSUME NEW d \in Client, HandshakeSucceeds(d)
      PROVE  c \in Elements(provided') \cup Elements(channel')
  <2>1. listening /\ provided' = provided /\ channel' = Append(channel, d)
    BY <1>2 DEF HandshakeSucceeds
  <2>2. Elements(channel') = Elements(channel) \cup {d}
    BY <2>1, ElementsAppend
  <2>3. c = d \/ peer[c] = "connected"
    BY <1>2 DEF HandshakeSucceeds
  <2>4. QED
    BY <2>1, <2>2, <2>3 DEF NobodyStranded
<1>3. CASE /\ UNCHANGED <<provided, channel, listening>>
           /\ peer[c] = "connected"
  BY <1>3 DEF NobodyStranded
<1>4. QED
  BY <1>1, <1>2, <1>3 DEF Next, Start, Accept, DropListener, Handshake, HandshakeFails,
                          Knock, Leave, vars

\* Every panic of the task has its cause, and keeps it.
LEMMA PanicStep ==
  ASSUME ListenerInv, [Next]_vars
  PROVE  PanicHasCause'
<1> USE DEF ListenerInv, TypeOK
<1>1. CASE Start
  BY <1>1 DEF Start, QueuesInStep, PanicHasCause
<1>2. CASE Accept \/ PollClient \/ DropListener \/ UNCHANGED vars
  BY <1>2 DEF Accept, PollClient, DropListener, PanicHasCause, vars
<1>3. CASE \E c \in Client : Handshake(c)
  BY <1>3 DEF Handshake, HandshakeSucceeds, HandshakeFails, PanicHasCause
<1>4. ASSUME NEW c \in Client, Knock(c)
      PROVE  PanicHasCause'
  BY <1>4 DEF Knock, PanicHasCause
<1>5. CASE \E c \in Client : Leave(c)
  BY <1>5 DEF Leave, PanicHasCause
<1>6. QED
  BY <1>1, <1>2, <1>3, <1>4, <1>5 DEF Next

------------------------------------------------------------------------------

\* The queues of the listener keep their invariant.
THEOREM ListenerInvariant == Spec => []ListenerInv
<1>1. Init => ListenerInv
  <2> SUFFICES ASSUME Init PROVE ListenerInv
    OBVIOUS
  <2>1. TypeOK
    BY DEF Init, TypeOK
  <2>2. QueuesInStep
    BY DEF Init, QueuesInStep, Elements
  <2>3. ArrivalOrderKept
    <3>1. <<>> \in Seq(Client)
      OBVIOUS
    <3>2. <<>> \o <<>> = <<>>
      BY <3>1, ConcatEmptySeq
    <3>3. QED
      BY <3>2 DEF Init, ArrivalOrderKept
  <2>4. NobodyStranded /\ PanicHasCause
    BY DEF Init, NobodyStranded, PanicHasCause
  <2>5. QED
    BY <2>1, <2>2, <2>3, <2>4 DEF ListenerInv
<1>2. ListenerInv /\ [Next]_vars => ListenerInv'
  <2> SUFFICES ASSUME ListenerInv, [Next]_vars PROVE ListenerInv'
    OBVIOUS
  <2>1. TypeOK'
    BY TypeStep DEF ListenerInv
  <2>2. QED
    BY <2>1, QueuesStep, OrderStep, StrandedStep, PanicStep DEF ListenerInv
<1>3. QED
  BY <1>1, <1>2, PTL DEF Spec

\* Clients are provided in the order in which they came.
THEOREM ArrivalOrderIsKept == Spec => []ArrivalOrderKept
<1>1. ListenerInv => ArrivalOrderKept
  BY DEF ListenerInv
<1>2. QED
  BY <1>1, ListenerInvariant, PTL

\* No connected client is left without an owner.
THEOREM NobodyIsStranded == Spec => []NobodyStranded
<1>1. ListenerInv => NobodyStranded
  BY DEF ListenerInv
<1>2. QED
  BY <1>1, ListenerInvariant, PTL

\* The accept task panics only over the one client it was busy with.
THEOREM PanicsHaveCauses == Spec => []PanicHasCause
<1>1. ListenerInv => PanicHasCause
  BY DEF ListenerInv
<1>2. QED
  BY <1>1, ListenerInvariant, PTL

\* A listener that is open has something to do for everybody in its line, as
\* long as its task stands.
THEOREM LinesCanGoOn == Spec => []LineCanGoOn
<1>1. ListenerInv => LineCanGoOn
  <2> SUFFICES ASSUME ListenerInv, listening, acceptTask # "panicked",
                      channel \o current \o incoming # <<>>, channel = <<>>,
                      acceptTask # "starting", ~(acceptTask = "accepting" /\ incoming # <<>>)
               PROVE  /\ acceptTask = "handshaking"
                      /\ \E c \in Client : current = <<c>> /\ peer[c] \in {"knocking", "gone"}
    BY DEF LineCanGoOn
  <2> USE DEF ListenerInv, TypeOK
  <2>1. acceptTask = "handshaking" /\ current # <<>>
    BY DEF QueuesInStep
  <2>2. PICK c \in Client : current = <<c>>
    BY <2>1
  <2>3. knocked = provided \o <<c>> \o incoming
    BY <2>2 DEF ArrivalOrderKept
  <2>4. knocked[Len(provided) + 1] = c /\ Len(knocked) >= Len(provided) + 1
    BY <2>3
  <2>5. c \in Elements(knocked)
    BY <2>4 DEF Elements
  <2>6. c \notin Elements(provided)
    BY <2>4 DEF QueuesInStep, ArrivalOrderKept, Elements
  <2>7. peer[c] # "away" /\ peer[c] # "connected"
    BY <2>5, <2>6 DEF QueuesInStep, NobodyStranded, Elements
  <2>8. QED
    BY <2>1, <2>2, <2>7
<1>2. QED
  BY <1>1, ListenerInvariant, PTL

------------------------------------------------------------------------------
(* The listener keeps the promise of WaitingLine.                          *)

\* The first of two queues in a row gives the first of all, if there is one.
LEMMA HeadOfRow ==
  ASSUME NEW s \in Seq(Client), NEW t \in Seq(Client), s # <<>>
  PROVE  Head(s \o t) = Head(s) /\ Tail(s \o t) = Tail(s) \o t
<1>1. /\ Head(s) \in Client /\ Tail(s) \in Seq(Client)
      /\ Len(s) \in Nat \ {0} /\ Len(Tail(s)) = Len(s) - 1
      /\ Head(s) = s[1]
      /\ \A i \in 1 .. Len(Tail(s)) : Tail(s)[i] = s[i + 1]
  BY HeadTailProperties, EmptySeq
<1>2. /\ s \o t \in Seq(Client) /\ Len(s \o t) = Len(s) + Len(t)
      /\ \A i \in 1 .. Len(s) + Len(t) :
           (s \o t)[i] = IF i <= Len(s) THEN s[i] ELSE t[i - Len(s)]
  BY ConcatProperties
<1>3. s \o t # <<>> /\ Len(t) \in Nat
  BY <1>1, <1>2
<1>4. /\ Head(s \o t) = (s \o t)[1] /\ Tail(s \o t) \in Seq(Client)
      /\ Len(Tail(s \o t)) = Len(s) + Len(t) - 1
      /\ \A i \in 1 .. Len(Tail(s \o t)) : Tail(s \o t)[i] = (s \o t)[i + 1]
  BY <1>2, <1>3, HeadTailProperties
<1>5. /\ Tail(s) \o t \in Seq(Client) /\ Len(Tail(s) \o t) = Len(s) - 1 + Len(t)
      /\ \A i \in 1 .. Len(s) - 1 + Len(t) :
           (Tail(s) \o t)[i] = IF i <= Len(s) - 1 THEN Tail(s)[i] ELSE t[i - (Len(s) - 1)]
  BY <1>1, ConcatProperties
<1>6. ASSUME NEW i \in 1 .. Len(s) + Len(t) - 1
      PROVE  Tail(s \o t)[i] = (Tail(s) \o t)[i]
  <2>1. Tail(s \o t)[i] = IF i + 1 <= Len(s) THEN s[i + 1] ELSE t[i + 1 - Len(s)]
    BY <1>1, <1>2, <1>3, <1>4
  <2>2. (Tail(s) \o t)[i] = IF i <= Len(s) - 1 THEN s[i + 1] ELSE t[i - (Len(s) - 1)]
    BY <1>1, <1>3, <1>5
  <2>3. i + 1 - Len(s) = i - (Len(s) - 1) /\ (i + 1 <= Len(s) <=> i <= Len(s) - 1)
    BY <1>1
  <2>4. QED
    BY <2>1, <2>2, <2>3
<1>7. Tail(s \o t) = Tail(s) \o t
  BY <1>1, <1>3, <1>4, <1>5, <1>6, SeqEqual
<1>8. QED
  BY <1>1, <1>2, <1>3, <1>4, <1>7

\* Everybody in a row of queues is in one of them, and the other way round.
LEMMA ElementsOfRow ==
  ASSUME NEW s \in Seq(Client), NEW t \in Seq(Client)
  PROVE  Elements(s) \cup Elements(t) \subseteq Elements(s \o t)
<1>1. /\ Len(s \o t) = Len(s) + Len(t) /\ Len(s) \in Nat /\ Len(t) \in Nat
      /\ \A i \in 1 .. Len(s) + Len(t) :
           (s \o t)[i] = IF i <= Len(s) THEN s[i] ELSE t[i - Len(s)]
  BY ConcatProperties
<1>2. ASSUME NEW i \in 1 .. Len(s) PROVE s[i] \in Elements(s \o t)
  BY <1>1 DEF Elements
<1>3. ASSUME NEW i \in 1 .. Len(t) PROVE t[i] \in Elements(s \o t)
  <2>1. Len(s) + i \in 1 .. Len(s \o t) /\ (s \o t)[Len(s) + i] = t[i]
    BY <1>1
  <2>2. QED
    BY <2>1 DEF Elements
<1>4. QED
  BY <1>2, <1>3 DEF Elements

\* Those who have come and are not provided, while the listener is there.
Behind == channel \o current \o incoming

\* The queues behind the provided clients, one after the other.
LEMMA QueuesBehind ==
  ASSUME TypeOK
  PROVE  /\ current \in Seq(Client) /\ channel \o current \in Seq(Client)
         /\ Behind \in Seq(Client)
         /\ Behind = channel \o (current \o incoming)
         /\ Len(Behind) = Len(channel) + Len(current) + Len(incoming)
         /\ provided \o channel \o current \o incoming = provided \o Behind
<1> USE DEF TypeOK
<1>1. current \in Seq(Client)
  BY CurrentIsQueue
<1>2. channel \o current \in Seq(Client) /\ Len(channel \o current) = Len(channel) + Len(current)
  BY <1>1, ConcatProperties
<1>3. Behind \in Seq(Client) /\ Len(Behind) = Len(channel \o current) + Len(incoming)
  BY <1>2, ConcatProperties DEF Behind
<1>q. /\ provided \in Seq(Client) /\ channel \in Seq(Client)
      /\ incoming \in Seq(Client)
  OBVIOUS
<1>4. Behind = channel \o (current \o incoming)
  BY ONLY <1>1, <1>q, QueuesInARow DEF Behind
<1>5. (provided \o channel) \o current = provided \o (channel \o current)
  BY ONLY <1>1, <1>q, QueuesInARow
<1>6. (provided \o (channel \o current)) \o incoming = provided \o Behind
  <2>1. provided \in Seq(Client) /\ incoming \in Seq(Client)
    OBVIOUS
  <2>2. QED
    BY ONLY <1>2, <2>1, QueuesInARow DEF Behind
<1>7. QED
  BY <1>1, <1>2, <1>3, <1>4, <1>5, <1>6

\* What a step of the listener does to the line.
LEMMA LineStep ==
  ASSUME ListenerInv, [Next]_vars
  PROVE  [Line!Next]_(Line!vars)
<1> USE DEF ListenerInv, TypeOK
<1>b. /\ current \in Seq(Client) /\ channel \o current \in Seq(Client)
      /\ Behind \in Seq(Client)
      /\ Behind = channel \o (current \o incoming)
      /\ Len(Behind) = Len(channel) + Len(current) + Len(incoming)
  BY QueuesBehind
<1>1. CASE Accept
  <2>1. current = <<>>
    BY <1>1 DEF Accept, QueuesInStep
  <2>2. Head(incoming) \in Client
    BY <1>1, HeadTailProperties DEF Accept
  <2>3. channel \o current = channel
    BY <2>1, ConcatEmptySeq
  <2>4. channel \o <<Head(incoming)>> = Append(channel, Head(incoming))
    BY <2>2, AppendIsConcat
  <2>5. Behind' = Behind
    BY <1>1, <2>3, <2>4, MoveOne DEF Accept, Behind
  <2>6. QED
    BY <1>1, <2>5 DEF Accept, Behind, Line!vars
<1>2. CASE PollClient
  <2>1. current \o incoming \in Seq(Client)
    BY <1>b, ConcatProperties
  <2>2. Head(Behind) = Head(channel) /\ Tail(Behind) = Tail(channel) \o (current \o incoming)
    BY <1>2, <1>b, <2>1, HeadOfRow DEF PollClient
  <2>3. Tail(channel) \in Seq(Client) /\ Len(channel) > 0 /\ Len(Tail(channel)) = Len(channel) - 1
    BY <1>2, HeadTailProperties, EmptySeq DEF PollClient
  <2>4. (Tail(channel) \o current) \o incoming = Tail(channel) \o (current \o incoming)
    <3>1. incoming \in Seq(Client)
      OBVIOUS
    <3>2. QED
      BY ONLY <1>b, <2>3, <3>1, QueuesInARow
  <2>5. Behind' = Tail(Behind)
    BY <1>2, <2>2, <2>4 DEF PollClient, Behind
  <2>6. Line!Provide
    BY <1>2, <2>2, <2>3, <2>5 DEF PollClient, Behind, Line!Provide
  <2>7. QED
    BY <2>6 DEF Line!Next
<1>3. ASSUME NEW c \in Client, HandshakeSucceeds(c)
      PROVE  [Line!Next]_(Line!vars)
  <2>1. CASE listening
    <3>1. /\ current = <<c>> /\ current' = <<>> /\ channel' = Append(channel, c)
          /\ UNCHANGED <<listening, provided, incoming>>
      BY <1>3, <2>1 DEF HandshakeSucceeds
    <3>2. Append(channel, c) \o <<>> = Append(channel, c)
      BY ConcatEmptySeq, AppendProperties
    <3>3. channel \o <<c>> = Append(channel, c)
      BY AppendIsConcat
    <3>4. Behind' = Behind
      BY <3>1, <3>2, <3>3 DEF Behind
    <3>5. Len(channel') = Len(channel) + 1 /\ Len(channel) < Len(Behind)
      BY <1>b, <3>1
    <3>6. Line!NextIsReady
      BY <2>1, <3>1, <3>4, <3>5 DEF Behind, Line!NextIsReady
    <3>7. QED
      BY <3>6 DEF Line!Next
  <2>2. CASE ~listening
    BY <1>3, <2>2 DEF HandshakeSucceeds, Line!vars
  <2>3. QED
    BY <2>1, <2>2
<1>4. ASSUME NEW c \in Client, Knock(c)
      PROVE  [Line!Next]_(Line!vars)
  <2>1. CASE listening
    <3>1. c \notin Elements(provided) \cup Elements(Behind)
      <4>1. c \notin Elements(knocked)
        BY <1>4 DEF Knock, QueuesInStep
      <4>2. knocked = provided \o Behind
        BY <2>1, QueuesBehind DEF ArrivalOrderKept
      <4>3. QED
        BY <1>b, <4>1, <4>2, ElementsOfRow
    <3>2. Behind' = Append(Behind, c)
      BY <1>b, <1>4, AppendToSecond DEF Knock, Behind
    <3>3. Line!Elements(provided) = Elements(provided) /\ Line!Elements(Behind) = Elements(Behind)
      BY DEF Elements, Line!Elements
    <3>4. Line!Arrive(c)
      BY <1>4, <2>1, <3>1, <3>2, <3>3 DEF Knock, Behind, Line!Arrive
    <3>5. QED
      BY <3>4 DEF Line!Next
  <2>2. CASE ~listening
    BY <1>4, <2>2 DEF Knock, Line!vars
  <2>3. QED
    BY <2>1, <2>2
<1>5. CASE DropListener
  <2>1. Line!Close
    BY <1>5 DEF DropListener, Line!Close
  <2>2. QED
    BY <2>1 DEF Line!Next
<1>6. ASSUME UNCHANGED <<provided, channel, current, incoming, listening>>
      PROVE  [Line!Next]_(Line!vars)
  BY <1>6 DEF Line!vars
<1>7. QED
  BY <1>1, <1>2, <1>3, <1>4, <1>5, <1>6
     DEF Next, Start, Handshake, HandshakeFails, Leave, vars

\* Every behaviour of the listener is one of a line.
THEOREM ListenerImplementsLine == Spec => ImplementsLine
<1>1. Init => Line!Init
  <2> SUFFICES ASSUME Init PROVE Line!Init
    OBVIOUS
  <2>1. <<>> \o <<>> = <<>>
    BY <<>> \in Seq(Client), ConcatEmptySeq
  <2>2. QED
    BY <2>1 DEF Init, Line!Init
<1>2. ListenerInv /\ [Next]_vars => [Line!Next]_(Line!vars)
  BY LineStep
<1>3. QED
  BY <1>1, <1>2, ListenerInvariant, PTL DEF Spec, ImplementsLine, Line!Spec

==============================================================================
