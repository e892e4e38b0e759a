------------------------ MODULE QueueAndCodecProofs -------------------------
(***************************************************************************)
(* Two components that stand alone: the blocking queue and the packet       *)
(* codec.                                                                    *)
(*                                                                          *)
(* The queue: no wakeup is lost, for any capacity and any finite number of  *)
(* threads, and the queue implements BoundedQueue.  The invariant is the    *)
(* conjunction of what the runs check.  Each of its three counting parts is *)
(* kept by every step: a push adds a value and owes a notification; the     *)
(* notification either finds a sleeper, who becomes woken, or there is      *)
(* none; a woken thread leaves only by taking what it was woken for or      *)
(* because there is nothing to take.                                        *)
(*                                                                          *)
(* The codec: what it hands on is what was sent, for every base, packet     *)
(* size, threshold and set of payloads, and however the stream is cut.  The *)
(* invariant lays the packets that have not been handed on over the bytes   *)
(* that are in the buffer and on the wire (Layout).  Sending adds a frame   *)
(* at the end, feeding changes where a byte is and not which one, and       *)
(* taking drops whole frames at the front.  The induction over the loop of  *)
(* drainPackets is over its turns, by the least turn that could be wrong.   *)
(***************************************************************************)
EXTENDS BoundedBlockingQueue, PacketCodec, FiniteSetTheorems, WellFoundedInduction, TLAPS

Labels == {"idle", "wait", "woken", "notify"}

IInv ==
    /\ TypeOK
    /\ NoLostNotEmpty
    /\ NoLostNotFull
    /\ CloseReachesSleepers

\* What the invariant counts is finite.
LEMMA CountsFinite ==
  /\ IsFiniteSet(NotifyingProducers) /\ IsFiniteSet(NotifyingConsumers)
  /\ IsFiniteSet(WokenProducers) /\ IsFiniteSet(WokenConsumers)
  <1>1. /\ NotifyingProducers \in SUBSET Producers
        /\ NotifyingConsumers \in SUBSET Consumers
        /\ WokenProducers \in SUBSET Producers
        /\ WokenConsumers \in SUBSET Consumers
    BY DEF NotifyingProducers, NotifyingConsumers, WokenProducers,
           WokenConsumers
  <1> QED BY <1>1, FS_Subset, QueueAssumption

\* The counts are natural numbers.
LEMMA CountsNat ==
  /\ Cardinality(NotifyingProducers) \in Nat
  /\ Cardinality(NotifyingConsumers) \in Nat
  /\ Cardinality(WokenProducers) \in Nat
  /\ Cardinality(WokenConsumers) \in Nat
  BY CountsFinite, FS_CardinalityType

\* A step that moves one producer: how the counts of the invariant change.
LEMMA MoveProducer ==
  ASSUME TypeOK, NEW p \in Producers, NEW l \in Labels,
         ppc' = [ppc EXCEPT ![p] = l]
  PROVE  /\ (l = "notify" /\ ppc[p] # "notify") =>
               Cardinality(NotifyingProducers') = Cardinality(NotifyingProducers) + 1
         /\ (l # "notify" /\ ppc[p] = "notify") =>
               Cardinality(NotifyingProducers') = Cardinality(NotifyingProducers) - 1
         /\ (l = "notify" <=> ppc[p] = "notify") =>
               Cardinality(NotifyingProducers') = Cardinality(NotifyingProducers)
         /\ (l = "woken" /\ ppc[p] # "woken") =>
               Cardinality(WokenProducers') = Cardinality(WokenProducers) + 1
         /\ (l # "woken" /\ ppc[p] = "woken") =>
               Cardinality(WokenProducers') = Cardinality(WokenProducers) - 1
         /\ (l = "woken" <=> ppc[p] = "woken") =>
               Cardinality(WokenProducers') = Cardinality(WokenProducers)
         /\ l # "wait" => WaitingProducers' \subseteq WaitingProducers
  <1>1. ppc \in [Producers -> Labels]
    BY DEF TypeOK, Labels
  <1>2. IsFiniteSet(NotifyingProducers) /\ IsFiniteSet(WokenProducers)
    BY CountsFinite
  <1>3. ASSUME l = "notify", ppc[p] # "notify"
        PROVE  Cardinality(NotifyingProducers') = Cardinality(NotifyingProducers) + 1
    <2>1. NotifyingProducers' = NotifyingProducers \cup {p} /\ p \notin NotifyingProducers
      BY <1>1, <1>3 DEF NotifyingProducers
    <2> QED BY <1>2, <2>1, FS_AddElement
  <1>4. ASSUME l # "notify", ppc[p] = "notify"
        PROVE  Cardinality(NotifyingProducers') = Cardinality(NotifyingProducers) - 1
    <2>1. NotifyingProducers' = NotifyingProducers \ {p} /\ p \in NotifyingProducers
      BY <1>1, <1>4 DEF NotifyingProducers
    <2> QED BY <1>2, <2>1, FS_RemoveElement
  <1>5. ASSUME l = "notify" <=> ppc[p] = "notify"
        PROVE  Cardinality(NotifyingProducers') = Cardinality(NotifyingProducers)
    <2>1. NotifyingProducers' = NotifyingProducers
      BY <1>1, <1>5 DEF NotifyingProducers
    <2> QED BY <2>1
  <1>6. ASSUME l = "woken", ppc[p] # "woken"
        PROVE  Cardinality(WokenProducers') = Cardinality(WokenProducers) + 1
    <2>1. WokenProducers' = WokenProducers \cup {p} /\ p \notin WokenProducers
      BY <1>1, <1>6 DEF WokenProducers
    <2> QED BY <1>2, <2>1, FS_AddElement
  <1>7. ASSUME l # "woken", ppc[p] = "woken"
        PROVE  Cardinality(WokenProducers') = Cardinality(WokenProducers) - 1
    <2>1. WokenProducers' = WokenProducers \ {p} /\ p \in WokenProducers
      BY <1>1, <1>7 DEF WokenProducers
    <2> QED BY <1>2, <2>1, FS_RemoveElement
  <1>8. ASSUME l = "woken" <=> ppc[p] = "woken"
        PROVE  Cardinality(WokenProducers') = Cardinality(WokenProducers)
    <2>1. WokenProducers' = WokenProducers
      BY <1>1, <1>8 DEF WokenProducers
    <2> QED BY <2>1
  <1>9. l # "wait" => WaitingProducers' \subseteq WaitingProducers
    BY <1>1 DEF WaitingProducers
  <1> QED BY <1>3, <1>4, <1>5, <1>6, <1>7, <1>8, <1>9

\* A step that moves one consumer: how the counts of the invariant change.
LEMMA MoveConsumer ==
  ASSUME TypeOK, NEW c \in Consumers, NEW l \in Labels,
         cpc' = [cpc EXCEPT ![c] = l]
  PROVE  /\ (l = "notify" /\ cpc[c] # "notify") =>
               Cardinality(NotifyingConsumers') = Cardinality(NotifyingConsumers) + 1
         /\ (l # "notify" /\ cpc[c] = "notify") =>
               Cardinality(NotifyingConsumers') = Cardinality(NotifyingConsumers) - 1
         /\ (l = "notify" <=> cpc[c] = "notify") =>
               Cardinality(NotifyingConsumers') = Cardinality(NotifyingConsumers)
         /\ (l = "woken" /\ cpc[c] # "woken") =>
               Cardinality(WokenConsumers') = Cardinality(WokenConsumers) + 1
         /\ (l # "woken" /\ cpc[c] = "woken") =>
               Cardinality(WokenConsumers') = Cardinality(WokenConsumers) - 1
         /\ (l = "woken" <=> cpc[c] = "woken") =>
               Cardinality(WokenConsumers') = Cardinality(WokenConsumers)
         /\ l # "wait" => WaitingConsumers' \subseteq WaitingConsumers
  <1>1. cpc \in [Consumers -> Labels]
    BY DEF TypeOK, Labels
  <1>2. IsFiniteSet(NotifyingConsumers) /\ IsFiniteSet(WokenConsumers)
    BY CountsFinite
  <1>3. ASSUME l = "notify", cpc[c] # "notify"
        PROVE  Cardinality(NotifyingConsumers') = Cardinality(NotifyingConsumers) + 1
    <2>1. NotifyingConsumers' = NotifyingConsumers \cup {c} /\ c \notin NotifyingConsumers
      BY <1>1, <1>3 DEF NotifyingConsumers
    <2> QED BY <1>2, <2>1, FS_AddElement
  <1>4. ASSUME l # "notify", cpc[c] = "notify"
        PROVE  Cardinality(NotifyingConsumers') = Cardinality(NotifyingConsumers) - 1
    <2>1. NotifyingConsumers' = NotifyingConsumers \ {c} /\ c \in NotifyingConsumers
      BY <1>1, <1>4 DEF NotifyingConsumers
    <2> QED BY <1>2, <2>1, FS_RemoveElement
  <1>5. ASSUME l = "notify" <=> cpc[c] = "notify"
        PROVE  Cardinality(NotifyingConsumers') = Cardinality(NotifyingConsumers)
    <2>1. NotifyingConsumers' = NotifyingConsumers
      BY <1>1, <1>5 DEF NotifyingConsumers
    <2> QED BY <2>1
  <1>6. ASSUME l = "woken", cpc[c] # "woken"
        PROVE  Cardinality(WokenConsumers') = Cardinality(WokenConsumers) + 1
    <2>1. WokenConsumers' = WokenConsumers \cup {c} /\ c \notin WokenConsumers
      BY <1>1, <1>6 DEF WokenConsumers
    <2> QED BY <1>2, <2>1, FS_AddElement
  <1>7. ASSUME l # "woken", cpc[c] = "woken"
        PROVE  Cardinality(WokenConsumers') = Cardinality(WokenConsumers) - 1
    <2>1. WokenConsumers' = WokenConsumers \ {c} /\ c \in WokenConsumers
      BY <1>1, <1>7 DEF WokenConsumers
    <2> QED BY <1>2, <2>1, FS_RemoveElement
  <1>8. ASSUME l = "woken" <=> cpc[c] = "woken"
        PROVE  Cardinality(WokenConsumers') = Cardinality(WokenConsumers)
    <2>1. WokenConsumers' = WokenConsumers
      BY <1>1, <1>8 DEF WokenConsumers
    <2> QED BY <2>1
  <1>9. l # "wait" => WaitingConsumers' \subseteq WaitingConsumers
    BY <1>1 DEF WaitingConsumers
  <1> QED BY <1>3, <1>4, <1>5, <1>6, <1>7, <1>8, <1>9

LEMMA InitInv == Init => IInv
  <1> SUFFICES ASSUME Init PROVE IInv
    OBVIOUS
  <1>1. TypeOK
    <2>1. Len(<<>>) <= Capacity /\ <<>> \in Seq(Values)
      BY QueueAssumption
    <2> QED BY <2>1 DEF Init, TypeOK
  <1>2. WaitingConsumers = {} /\ WaitingProducers = {}
    BY DEF Init, WaitingConsumers, WaitingProducers
  <1> QED
    BY <1>1, <1>2
    DEF Init, IInv, NoLostNotEmpty, NoLostNotFull, CloseReachesSleepers

\* Types and the capacity.
LEMMA NextType == TypeOK /\ [Next]_vars => TypeOK'
  <1> SUFFICES ASSUME TypeOK, [Next]_vars PROVE TypeOK'
    OBVIOUS
  <1> USE QueueAssumption DEF TypeOK
  <1>1. CASE UNCHANGED vars
    BY <1>1 DEF vars
  <1>2. ASSUME NEW p \in Producers, NEW v \in Values, Push(p, v) PROVE TypeOK'
    BY <1>2 DEF Push, Enqueue, Full
  <1>3. ASSUME NEW p \in Producers, PushWait(p) \/ PushRefused(p) PROVE TypeOK'
    BY <1>3 DEF PushWait, PushRefused
  <1>4. ASSUME NEW p \in Producers, NotifyNotEmpty(p) PROVE TypeOK'
    BY <1>4 DEF NotifyNotEmpty, WaitingConsumers
  <1>5. ASSUME NEW c \in Consumers, Pop(c) PROVE TypeOK'
    <2>1. queue # <<>> /\ queue' = Tail(queue)
      BY <1>5 DEF Pop, Dequeue
    <2>2. queue' \in Seq(Values) /\ Len(queue') = Len(queue) - 1
      BY <2>1
    <2> QED BY <1>5, <2>2 DEF Pop, Dequeue
  <1>6. ASSUME NEW c \in Consumers, PopWait(c) \/ PopRefused(c) PROVE TypeOK'
    BY <1>6 DEF PopWait, PopRefused
  <1>7. ASSUME NEW c \in Consumers, NotifyNotFull(c) PROVE TypeOK'
    BY <1>7 DEF NotifyNotFull, WaitingProducers
  <1>8. ASSUME NEW x \in Closers,
               \/ Close(x) \/ CloseNotifyNotEmpty(x) \/ CloseNotifyNotFull(x)
        PROVE  TypeOK'
    BY <1>8 DEF Close, CloseNotifyNotEmpty, CloseNotifyNotFull
  <1>9. CASE SpuriousWakeup
    BY <1>9 DEF SpuriousWakeup, WaitingProducers, WaitingConsumers
  <1> QED
    BY <1>1, <1>2, <1>3, <1>4, <1>5, <1>6, <1>7, <1>8, <1>9 DEF Next

\* A value in the queue keeps its wakeup.
LEMMA NextNotEmpty ==
  ASSUME TypeOK, NoLostNotEmpty, [Next]_vars
  PROVE  NoLostNotEmpty'
  <1> DEFINE nP == Cardinality(NotifyingProducers)
             wC == Cardinality(WokenConsumers)
  <1> USE DEF Labels
  <1>0. nP \in Nat /\ wC \in Nat /\ Len(queue) \in Nat
    BY CountsNat DEF TypeOK
  <1>1. ASSUME UNCHANGED <<queue, closed, cpc>>, nP' = nP PROVE NoLostNotEmpty'
    <2>1. WaitingConsumers' = WaitingConsumers /\ wC' = wC
      BY <1>1 DEF WaitingConsumers, WokenConsumers
    <2> QED BY <1>1, <2>1 DEF NoLostNotEmpty
  <1>2. CASE UNCHANGED vars
    <2>1. nP' = nP
      BY <1>2 DEF vars, NotifyingProducers
    <2> QED BY <1>1, <1>2, <2>1 DEF vars
  <1>3. ASSUME NEW p \in Producers, NEW v \in Values, Push(p, v)
        PROVE  NoLostNotEmpty'
    <2>1. nP' = nP + 1
      BY <1>3, MoveProducer DEF Push, Enqueue
    <2>2. WaitingConsumers' = WaitingConsumers /\ wC' = wC
      BY <1>3 DEF Push, Enqueue, WaitingConsumers, WokenConsumers
    <2>3. Len(queue') = Len(queue) + 1 /\ closed' = closed
      BY <1>3 DEF Push, Enqueue, TypeOK
    <2> QED BY <1>0, <2>1, <2>2, <2>3 DEF NoLostNotEmpty
  <1>4. ASSUME NEW p \in Producers, PushWait(p) \/ PushRefused(p)
        PROVE  NoLostNotEmpty'
    <2>1. nP' = nP
      BY <1>4, MoveProducer DEF PushWait, PushRefused
    <2> QED BY <1>1, <1>4, <2>1 DEF PushWait, PushRefused
  <1>5. ASSUME NEW p \in Producers, NotifyNotEmpty(p) PROVE NoLostNotEmpty'
    <2>1. nP' = nP - 1
      BY <1>5, MoveProducer DEF NotifyNotEmpty
    <2>2. CASE WaitingConsumers = {}
      <3>1. cpc' = cpc
        BY <1>5, <2>2 DEF NotifyNotEmpty
      <3>2. WaitingConsumers' = {}
        BY <2>2, <3>1 DEF WaitingConsumers
      <3> QED BY <3>2 DEF NoLostNotEmpty
    <2>3. CASE WaitingConsumers # {}
      <3>1. PICK c \in WaitingConsumers : cpc' = [cpc EXCEPT ![c] = "woken"]
        BY <1>5, <2>3 DEF NotifyNotEmpty
      <3>2. c \in Consumers /\ cpc[c] = "wait"
        BY DEF WaitingConsumers
      <3>3. wC' = wC + 1
        BY <3>1, <3>2, MoveConsumer
      <3>4. UNCHANGED <<queue, closed>>
        BY <1>5 DEF NotifyNotEmpty
      <3> QED BY <1>0, <2>1, <2>3, <3>3, <3>4 DEF NoLostNotEmpty
    <2> QED BY <2>2, <2>3
  <1>6. ASSUME NEW c \in Consumers, Pop(c) PROVE NoLostNotEmpty'
    <2>0. cpc' = [cpc EXCEPT ![c] = "notify"] /\ cpc[c] \in {"idle", "woken"}
      BY <1>6 DEF Pop, Dequeue
    <2>1. WaitingConsumers' \subseteq WaitingConsumers
      BY <2>0, MoveConsumer
    <2>2. nP' = nP
      BY <1>6 DEF Pop, Dequeue, NotifyingProducers
    <2>3. Len(queue') = Len(queue) - 1 /\ closed' = closed
      BY <1>6 DEF Pop, Dequeue, TypeOK
    <2>4. wC' = wC \/ wC' = wC - 1
      BY <2>0, MoveConsumer
    <2> QED BY <1>0, <2>1, <2>2, <2>3, <2>4 DEF NoLostNotEmpty
  <1>7. ASSUME NEW c \in Consumers, PopWait(c) PROVE NoLostNotEmpty'
    <2>1. queue' = <<>>
      BY <1>7 DEF PopWait
    <2>2. nP' = nP
      BY <1>7 DEF PopWait, NotifyingProducers
    <2>3. wC' = wC \/ (wC' = wC - 1 /\ cpc[c] = "woken")
      BY <1>7, MoveConsumer DEF PopWait
    <2>4. cpc[c] = "woken" => wC > 0
      <3>1. cpc[c] = "woken" => WokenConsumers # {}
        BY DEF WokenConsumers
      <3> QED BY <1>0, <3>1, CountsFinite, FS_EmptySet
    <2> QED BY <1>0, <2>1, <2>2, <2>3, <2>4 DEF NoLostNotEmpty
  <1>8. ASSUME NEW c \in Consumers, PopRefused(c) PROVE NoLostNotEmpty'
    BY <1>8 DEF PopRefused, NoLostNotEmpty
  <1>9. ASSUME NEW c \in Consumers, NotifyNotFull(c) PROVE NoLostNotEmpty'
    <2>1. WaitingConsumers' \subseteq WaitingConsumers /\ wC' = wC
      BY <1>9, MoveConsumer DEF NotifyNotFull
    <2>2. nP' = nP
      <3>1. CASE UNCHANGED ppc
        BY <3>1 DEF NotifyingProducers
      <3>2. ASSUME NEW p \in WaitingProducers,
                   ppc' = [ppc EXCEPT ![p] = "woken"]
            PROVE  nP' = nP
        BY <3>2, MoveProducer DEF WaitingProducers
      <3> QED BY <1>9, <3>1, <3>2 DEF NotifyNotFull
    <2>3. UNCHANGED <<queue, closed>>
      BY <1>9 DEF NotifyNotFull
    <2> QED BY <2>1, <2>2, <2>3 DEF NoLostNotEmpty
  <1>10. ASSUME NEW x \in Closers, Close(x) PROVE NoLostNotEmpty'
    BY <1>10 DEF Close, NoLostNotEmpty
  <1>11. ASSUME NEW x \in Closers, CloseNotifyNotEmpty(x) PROVE NoLostNotEmpty'
    <2>1. WaitingConsumers' = {}
      BY <1>11 DEF CloseNotifyNotEmpty, WaitingConsumers
    <2> QED BY <2>1 DEF NoLostNotEmpty
  <1>12. ASSUME NEW x \in Closers, CloseNotifyNotFull(x) PROVE NoLostNotEmpty'
    <2>1. NotifyingProducers' = NotifyingProducers
      BY <1>12 DEF CloseNotifyNotFull, NotifyingProducers
    <2> QED BY <1>1, <1>12, <2>1 DEF CloseNotifyNotFull
  <1>13. CASE SpuriousWakeup
    <2>1. ASSUME NEW p \in WaitingProducers,
                 ppc' = [ppc EXCEPT ![p] = "woken"],
                 UNCHANGED <<queue, closed, cpc, xpc>>
          PROVE  NoLostNotEmpty'
      <3>1. nP' = nP
        BY <2>1, MoveProducer DEF WaitingProducers
      <3> QED BY <1>1, <2>1, <3>1
    <2>2. ASSUME NEW c \in WaitingConsumers,
                 cpc' = [cpc EXCEPT ![c] = "woken"],
                 UNCHANGED <<queue, closed, ppc, xpc>>
          PROVE  NoLostNotEmpty'
      <3>1. c \in Consumers /\ cpc[c] = "wait"
        BY DEF WaitingConsumers
      <3>2. WaitingConsumers' \subseteq WaitingConsumers /\ wC' = wC + 1
        BY <2>2, <3>1, MoveConsumer
      <3>3. nP' = nP
        BY <2>2 DEF NotifyingProducers
      <3> QED BY <1>0, <2>2, <3>2, <3>3 DEF NoLostNotEmpty
    <2> QED BY <1>13, <2>1, <2>2 DEF SpuriousWakeup
  <1> QED
    BY <1>2, <1>3, <1>4, <1>5, <1>6, <1>7, <1>8, <1>9, <1>10, <1>11, <1>12,
       <1>13
    DEF Next

\* A free slot keeps its wakeup.
LEMMA NextNotFull ==
  ASSUME TypeOK, NoLostNotFull, [Next]_vars
  PROVE  NoLostNotFull'
  <1> DEFINE nC == Cardinality(NotifyingConsumers)
             wP == Cardinality(WokenProducers)
  <1> USE DEF Labels
  <1>0. nC \in Nat /\ wP \in Nat /\ Len(queue) \in Nat /\ Capacity \in Nat
    BY CountsNat, QueueAssumption DEF TypeOK
  <1>1. ASSUME UNCHANGED <<queue, closed, ppc>>, nC' = nC PROVE NoLostNotFull'
    <2>1. WaitingProducers' = WaitingProducers /\ wP' = wP
      BY <1>1 DEF WaitingProducers, WokenProducers
    <2> QED BY <1>1, <2>1 DEF NoLostNotFull
  <1>2. CASE UNCHANGED vars
    <2>1. nC' = nC
      BY <1>2 DEF vars, NotifyingConsumers
    <2> QED BY <1>1, <1>2, <2>1 DEF vars
  <1>3. ASSUME NEW p \in Producers, NEW v \in Values, Push(p, v)
        PROVE  NoLostNotFull'
    <2>0. ppc' = [ppc EXCEPT ![p] = "notify"] /\ ppc[p] \in {"idle", "woken"}
      BY <1>3 DEF Push, Enqueue
    <2>1. WaitingProducers' \subseteq WaitingProducers
      BY <2>0, MoveProducer
    <2>2. nC' = nC
      BY <1>3 DEF Push, Enqueue, NotifyingConsumers
    <2>3. Len(queue') = Len(queue) + 1 /\ closed' = closed
      BY <1>3 DEF Push, Enqueue, TypeOK
    <2>4. wP' = wP \/ wP' = wP - 1
      BY <2>0, MoveProducer
    <2> QED BY <1>0, <2>1, <2>2, <2>3, <2>4 DEF NoLostNotFull
  <1>4. ASSUME NEW p \in Producers, PushWait(p) PROVE NoLostNotFull'
    <2>1. Len(queue') = Capacity
      BY <1>4 DEF PushWait, Full
    <2>2. nC' = nC
      BY <1>4 DEF PushWait, NotifyingConsumers
    <2>3. wP' = wP \/ (wP' = wP - 1 /\ ppc[p] = "woken")
      BY <1>4, MoveProducer DEF PushWait
    <2>4. ppc[p] = "woken" => wP > 0
      <3>1. ppc[p] = "woken" => WokenProducers # {}
        BY DEF WokenProducers
      <3> QED BY <1>0, <3>1, CountsFinite, FS_EmptySet
    <2> QED BY <1>0, <2>1, <2>2, <2>3, <2>4 DEF NoLostNotFull
  <1>5. ASSUME NEW p \in Producers, PushRefused(p) PROVE NoLostNotFull'
    BY <1>5 DEF PushRefused, NoLostNotFull
  <1>6. ASSUME NEW p \in Producers, NotifyNotEmpty(p) PROVE NoLostNotFull'
    <2>1. WaitingProducers' \subseteq WaitingProducers /\ wP' = wP
      BY <1>6, MoveProducer DEF NotifyNotEmpty
    <2>2. nC' = nC
      <3>1. CASE UNCHANGED cpc
        BY <3>1 DEF NotifyingConsumers
      <3>2. ASSUME NEW c \in WaitingConsumers,
                   cpc' = [cpc EXCEPT ![c] = "woken"]
            PROVE  nC' = nC
        BY <3>2, MoveConsumer DEF WaitingConsumers
      <3> QED BY <1>6, <3>1, <3>2 DEF NotifyNotEmpty
    <2>3. UNCHANGED <<queue, closed>>
      BY <1>6 DEF NotifyNotEmpty
    <2> QED BY <2>1, <2>2, <2>3 DEF NoLostNotFull
  <1>7. ASSUME NEW c \in Consumers, Pop(c) PROVE NoLostNotFull'
    <2>1. nC' = nC + 1
      BY <1>7, MoveConsumer DEF Pop, Dequeue
    <2>2. WaitingProducers' = WaitingProducers /\ wP' = wP
      BY <1>7 DEF Pop, Dequeue, WaitingProducers, WokenProducers
    <2>3. Len(queue') = Len(queue) - 1 /\ closed' = closed
      BY <1>7 DEF Pop, Dequeue, TypeOK
    <2> QED BY <1>0, <2>1, <2>2, <2>3 DEF NoLostNotFull
  <1>8. ASSUME NEW c \in Consumers, PopWait(c) \/ PopRefused(c)
        PROVE  NoLostNotFull'
    <2>1. nC' = nC
      BY <1>8, MoveConsumer DEF PopWait, PopRefused
    <2> QED BY <1>1, <1>8, <2>1 DEF PopWait, PopRefused
  <1>9. ASSUME NEW c \in Consumers, NotifyNotFull(c) PROVE NoLostNotFull'
    <2>1. nC' = nC - 1
      BY <1>9, MoveConsumer DEF NotifyNotFull
    <2>2. CASE WaitingProducers = {}
      <3>1. ppc' = ppc
        BY <1>9, <2>2 DEF NotifyNotFull
      <3>2. WaitingProducers' = {}
        BY <2>2, <3>1 DEF WaitingProducers
      <3> QED BY <3>2 DEF NoLostNotFull
    <2>3. CASE WaitingProducers # {}
      <3>1. PICK p \in WaitingProducers : ppc' = [ppc EXCEPT ![p] = "woken"]
        BY <1>9, <2>3 DEF NotifyNotFull
      <3>2. p \in Producers /\ ppc[p] = "wait"
        BY DEF WaitingProducers
      <3>3. wP' = wP + 1
        BY <3>1, <3>2, MoveProducer
      <3>4. UNCHANGED <<queue, closed>>
        BY <1>9 DEF NotifyNotFull
      <3> QED BY <1>0, <2>1, <2>3, <3>3, <3>4 DEF NoLostNotFull
    <2> QED BY <2>2, <2>3
  <1>10. ASSUME NEW x \in Closers, Close(x) PROVE NoLostNotFull'
    BY <1>10 DEF Close, NoLostNotFull
  <1>11. ASSUME NEW x \in Closers, CloseNotifyNotEmpty(x) PROVE NoLostNotFull'
    <2>1. NotifyingConsumers' = NotifyingConsumers
      BY <1>11 DEF CloseNotifyNotEmpty, NotifyingConsumers
    <2> QED BY <1>1, <1>11, <2>1 DEF CloseNotifyNotEmpty
  <1>12. ASSUME NEW x \in Closers, CloseNotifyNotFull(x) PROVE NoLostNotFull'
    <2>1. WaitingProducers' = {}
      BY <1>12 DEF CloseNotifyNotFull, WaitingProducers
    <2> QED BY <2>1 DEF NoLostNotFull
  <1>13. CASE SpuriousWakeup
    <2>1. ASSUME NEW c \in WaitingConsumers,
                 cpc' = [cpc EXCEPT ![c] = "woken"],
                 UNCHANGED <<queue, closed, ppc, xpc>>
          PROVE  NoLostNotFull'
      <3>1. nC' = nC
        BY <2>1, MoveConsumer DEF WaitingConsumers
      <3> QED BY <1>1, <2>1, <3>1
    <2>2. ASSUME NEW p \in WaitingProducers,
                 ppc' = [ppc EXCEPT ![p] = "woken"],
                 UNCHANGED <<queue, closed, cpc, xpc>>
          PROVE  NoLostNotFull'
      <3>1. p \in Producers /\ ppc[p] = "wait"
        BY DEF WaitingProducers
      <3>2. WaitingProducers' \subseteq WaitingProducers /\ wP' = wP + 1
        BY <2>2, <3>1, MoveProducer
      <3>3. nC' = nC
        BY <2>2 DEF NotifyingConsumers
      <3> QED BY <1>0, <2>2, <3>2, <3>3 DEF NoLostNotFull
    <2> QED BY <1>13, <2>1, <2>2 DEF SpuriousWakeup
  <1> QED
    BY <1>2, <1>3, <1>4, <1>5, <1>6, <1>7, <1>8, <1>9, <1>10, <1>11, <1>12,
       <1>13
    DEF Next

\* A sleeper on a closed queue keeps a closer that will wake it.
LEMMA NextClose ==
  ASSUME TypeOK, CloseReachesSleepers, [Next]_vars
  PROVE  CloseReachesSleepers'
  <1> USE DEF TypeOK, CloseReachesSleepers, WaitingProducers, WaitingConsumers
  <1>1. CASE UNCHANGED vars
    BY <1>1 DEF vars
  <1>2. ASSUME NEW p \in Producers,
               \/ \E v \in Values : Push(p, v)
               \/ PushWait(p) \/ PushRefused(p) \/ NotifyNotEmpty(p)
        PROVE  CloseReachesSleepers'
    BY <1>2 DEF Push, Enqueue, PushWait, PushRefused, NotifyNotEmpty
  <1>3. ASSUME NEW c \in Consumers,
               Pop(c) \/ PopWait(c) \/ PopRefused(c) \/ NotifyNotFull(c)
        PROVE  CloseReachesSleepers'
    BY <1>3 DEF Pop, Dequeue, PopWait, PopRefused, NotifyNotFull
  <1>4. ASSUME NEW x \in Closers,
               \/ Close(x) \/ CloseNotifyNotEmpty(x) \/ CloseNotifyNotFull(x)
        PROVE  CloseReachesSleepers'
    <2>1. CASE Close(x)
      BY <2>1 DEF Close
    <2>2. CASE CloseNotifyNotEmpty(x)
      BY <2>2 DEF CloseNotifyNotEmpty
    <2>3. CASE CloseNotifyNotFull(x)
      BY <2>3 DEF CloseNotifyNotFull
    <2> QED BY <1>4, <2>1, <2>2, <2>3
  <1>5. CASE SpuriousWakeup
    BY <1>5 DEF SpuriousWakeup
  <1> QED BY <1>1, <1>2, <1>3, <1>4, <1>5 DEF Next

-----------------------------------------------------------------------------
THEOREM Invariance == Spec => []IInv
  <1>1. IInv /\ [Next]_vars => IInv'
    BY NextType, NextNotEmpty, NextNotFull, NextClose DEF IInv
  <1> QED BY InitInv, <1>1, PTL DEF Spec

\* The queue never exceeds its capacity.
THEOREM TypeCorrect == Spec => []TypeOK
  BY Invariance, PTL DEF IInv

\* A consumer never sleeps on a value nobody will wake it for.
THEOREM NotEmptyNeverLost == Spec => []NoLostNotEmpty
  BY Invariance, PTL DEF IInv

\* A producer never sleeps on a free slot nobody will wake it for.
THEOREM NotFullNeverLost == Spec => []NoLostNotFull
  BY Invariance, PTL DEF IInv

\* Whoever sleeps on a closed queue is about to be woken by its closer.
THEOREM CloseAlwaysReaches == Spec => []CloseReachesSleepers
  BY Invariance, PTL DEF IInv

\* No wakeup is lost, for any number of threads, values and closers: what
\* notify_one and notify_all promise holds although they follow the unlock.
THEOREM WakeupNeverLost == Spec => []NoLostWakeup
  BY Invariance, PTL DEF IInv, NoLostWakeup

\* The sections of push, pop and close are the atomic steps of BoundedQueue, and
\* every other step of the implementation leaves what callers see unchanged.
THEOREM Implementation == Spec => ImplementsQueue
  <1>1. Init => Abstract!Init
    BY DEF Init, Abstract!Init
  <1>2. ASSUME TypeOK, [Next]_vars PROVE [Abstract!Next]_(Abstract!vars)
    <2> USE DEF Abstract!Next, Abstract!vars
    <2>1. ASSUME NEW p \in Producers, NEW v \in Values, Push(p, v)
          PROVE  Abstract!Push(v)
      BY <1>2, <2>1, QueueAssumption
      DEF Push, Enqueue, Full, TypeOK, Abstract!Push
    <2>2. ASSUME NEW c \in Consumers, Pop(c) PROVE Abstract!Pop
      BY <2>2 DEF Pop, Dequeue, Abstract!Pop
    <2>3. ASSUME NEW x \in Closers, Close(x) PROVE Abstract!Close
      BY <2>3 DEF Close, Abstract!Close
    <2>4. ASSUME UNCHANGED <<queue, closed>>
          PROVE  [Abstract!Next]_(Abstract!vars)
      BY <2>4
    <2>5. ASSUME NEW p \in Producers,
                 PushWait(p) \/ PushRefused(p) \/ NotifyNotEmpty(p)
          PROVE  UNCHANGED <<queue, closed>>
      BY <2>5 DEF PushWait, PushRefused, NotifyNotEmpty
    <2>6. ASSUME NEW c \in Consumers,
                 PopWait(c) \/ PopRefused(c) \/ NotifyNotFull(c)
          PROVE  UNCHANGED <<queue, closed>>
      BY <2>6 DEF PopWait, PopRefused, NotifyNotFull
    <2>7. ASSUME NEW x \in Closers,
                 CloseNotifyNotEmpty(x) \/ CloseNotifyNotFull(x)
          PROVE  UNCHANGED <<queue, closed>>
      BY <2>7 DEF CloseNotifyNotEmpty, CloseNotifyNotFull
    <2>8. SpuriousWakeup \/ UNCHANGED vars => UNCHANGED <<queue, closed>>
      BY DEF SpuriousWakeup, vars
    <2> QED
      BY <1>2, <2>1, <2>2, <2>3, <2>4, <2>5, <2>6, <2>7, <2>8 DEF Next
  <1> QED
    BY <1>1, <1>2, TypeCorrect, PTL DEF Spec, ImplementsQueue, Abstract!Spec

-----------------------------------------------------------------------------
\* The packet codec.

\* The inductive invariant: the bytes not yet handed on are the frames of the
\* packets not yet handed on, one after the other.

\* Sequences of bytes, their length, and how they are cut and joined.
Bytes == Seq(Nat)
Size(s) == Len(s)
Part(s, a, b) == SubSeq(s, a + 1, b)
Join(s, t) == s \o t

SentPackets == [type : {0, 1}, payload : Bytes]

CodecTypes ==
    /\ wire \in Bytes /\ buffer \in Bytes
    /\ head \in Nat /\ head <= Size(buffer)
    /\ sent \in Seq(SentPackets) /\ received \in Seq(SentPackets)
    /\ failed \in BOOLEAN

\* Those bytes, in the buffer and on the wire.
UnreadOf(b, h, w) == Size(b) - h + Size(w)
StreamOf(b, h, w) ==
    [j \in 1..UnreadOf(b, h, w) |->
       IF h + j <= Size(b) THEN b[h + j] ELSE w[h + j - Size(b)]]

\* The 16-bit number at an offset of the stream.
Number(s, a) == s[a + 1] * Base + s[a + 2]

\* The stream s has the frame of p from offset a to offset b.
FrameOf(s, a, b, p) ==
    /\ b >= a + 4
    /\ Number(s, a + 2) = p.type
    /\ p.type = 0 => Number(s, a) \in BadSizes
    /\ p.type = 1 =>
         /\ Number(s, a) = Size(p.payload) + 4 /\ Size(p.payload) + 4 <= MaxPacketSize
         /\ b = a + Size(p.payload) + 4
         /\ \A j \in 1..Size(p.payload) : s[a + 4 + j] = p.payload[j]

\* Of the packets ps, those after the first k make up the stream s of length n;
\* packet i ends at offset at[i].
Layout(s, n, ps, k, at) ==
    /\ at \in [k..Size(ps) -> Nat] /\ at[k] = 0 /\ at[Size(ps)] = n
    /\ \A i, j \in k..Size(ps) : i <= j => at[i] + (j - i) <= at[j]
    /\ \A i \in k..(Size(ps) - 1) : FrameOf(s, at[i], at[i + 1], ps[i + 1])

HandedOn(rs, ps) ==
    /\ Size(rs) <= Size(ps)
    /\ \A i \in 1..Size(rs) : rs[i] = ps[i] /\ ps[i].type = 1

Laid(at) ==
    Layout(StreamOf(buffer, head, wire), UnreadOf(buffer, head, wire), sent,
           Size(received), at)

CodecInv ==
    /\ CodecTypes /\ HandedOn(received, sent) /\ \E at : Laid(at)
    /\ ErrorIsJustified /\ LittleWaste

-----------------------------------------------------------------------------
\* A set of natural numbers that is not empty has a least element.
LEMMA LeastNumber ==
    ASSUME NEW T \in SUBSET Nat, T # {}
    PROVE  \E m \in T : \A k \in T : m <= k
  <1> DEFINE R == OpToRel(<, Nat)
  <1>1. IsWellFoundedOn(R, Nat)
    BY NatLessThanWellFounded
  <1>2. \A x, y \in Nat : x < y => <<x, y>> \in R
    BY DEF OpToRel
  <1>3. PICK x \in T : \A y \in T : ~(<<y, x>> \in R)
    <2> HIDE DEF R
    <2> QED BY <1>1, WFMin
  <1> HIDE DEF R
  <1>4. \A y \in T : ~(y < x)
    BY <1>2, <1>3, Zenon
  <1> QED BY <1>4

LEMMA BaseType ==
    /\ Base \in Nat /\ Base > 0 /\ MaxPacketSize \in Nat /\ MaxPacketSize >= 4
    /\ Threshold \in Nat /\ Threshold > 0
  BY CodecAssumption DEF kPacketHeaderSize

\* What writeU16 writes is two numbers, and readU16 reads it back.
LEMMA ReadsWhatIsWritten ==
    ASSUME NEW n \in Nat
    PROVE  /\ WriteU16(n) \in Seq(Nat) /\ Len(WriteU16(n)) = 2
           /\ WriteU16(n)[1] = n \div Base /\ WriteU16(n)[2] = n % Base
           /\ n \div Base \in Nat /\ n % Base \in Nat
           /\ (n \div Base) * Base + (n % Base) = n
  <1>1. Base \in Nat /\ Base > 0
    BY BaseType
  <1>2. n \div Base \in Nat /\ n % Base \in Nat
    BY <1>1
  <1>3. (n \div Base) * Base + (n % Base) = n
    BY <1>1
  <1> QED BY <1>2, <1>3 DEF WriteU16

-----------------------------------------------------------------------------
\* Sequences.

LEMMA SizeType ==
    ASSUME NEW s \in Bytes
    PROVE  Size(s) \in Nat /\ Size(s) = Len(s) /\ \A j \in 1..Size(s) : s[j] \in Nat
  BY DEF Size, Bytes

LEMMA PartFacts ==
    ASSUME NEW s \in Bytes, NEW a \in Nat, NEW b \in Nat, a <= b, b <= Size(s)
    PROVE  /\ Part(s, a, b) \in Bytes /\ Size(Part(s, a, b)) = b - a
           /\ \A j \in 1..(b - a) : Part(s, a, b)[j] = s[a + j]
  BY DEF Size, Bytes, Part

LEMMA JoinFacts ==
    ASSUME NEW s \in Bytes, NEW t \in Bytes
    PROVE  /\ Join(s, t) \in Bytes /\ Size(Join(s, t)) = Size(s) + Size(t)
           /\ \A j \in 1..Size(s) : Join(s, t)[j] = s[j]
           /\ \A j \in 1..Size(t) : Join(s, t)[Size(s) + j] = t[j]
  BY DEF Size, Bytes, Join

-----------------------------------------------------------------------------
\* The stream under the operations of the codec.

\* compactConsumedPrefix changes where the bytes are and not which.
SameBytes(b, h, c, g) ==
    /\ c \in Bytes /\ g \in Nat /\ g <= Size(c) /\ Size(c) - g = Size(b) - h
    /\ \A j \in 1..(Size(b) - h) : c[g + j] = b[h + j]
    /\ g < Threshold \/ g < Size(c) - g

LEMMA CompactSameBytes ==
    ASSUME NEW b \in Bytes, NEW h \in Nat, h <= Size(b)
    PROVE  SameBytes(b, h, Compact(b, h).buffer, Compact(b, h).head)
  <1>0. Threshold \in Nat /\ Threshold > 0 /\ Size(b) \in Nat /\ Len(b) = Size(b)
    BY BaseType, SizeType DEF Size
  <1>1. CASE h = Size(b) \/ (h >= Threshold /\ h >= Size(b) \div 2)
    <2> DEFINE c == Part(b, h, Size(b))
    <2>1. Compact(b, h).buffer = c /\ Compact(b, h).head = 0
      BY <1>0, <1>1 DEF Compact, Part
    <2>2. /\ c \in Bytes /\ Size(c) = Size(b) - h
          /\ \A j \in 1..(Size(b) - h) : c[j] = b[h + j]
      BY <1>0, PartFacts
    <2> HIDE DEF c
    <2>3. \A j \in 1..(Size(b) - h) : c[0 + j] = b[h + j]
      <3>1. \A j \in 1..(Size(b) - h) : 0 + j = j
        BY <1>0
      <3> QED BY <2>2, <3>1
    <2>4. Size(c) \in Nat /\ 0 <= Size(c) /\ Size(c) - 0 = Size(b) - h
      BY <1>0, <2>2
    <2> QED BY <1>0, <2>1, <2>2, <2>3, <2>4 DEF SameBytes
  <1>2. CASE ~(h = Size(b) \/ (h >= Threshold /\ h >= Size(b) \div 2))
    <2>1. Compact(b, h).buffer = b /\ Compact(b, h).head = h
      BY <1>0, <1>2 DEF Compact
    <2>2. h < Threshold \/ h < Size(b) - h
      BY <1>0, <1>2
    <2> QED BY <1>0, <2>1, <2>2 DEF SameBytes
  <1> QED BY <1>1, <1>2

\* A byte of the stream.
LEMMA StreamByte ==
    ASSUME NEW b, NEW h, NEW w, NEW j \in 1..UnreadOf(b, h, w)
    PROVE  StreamOf(b, h, w)[j] = IF h + j <= Size(b) THEN b[h + j] ELSE w[h + j - Size(b)]
  BY DEF StreamOf

LEMMA SameStream ==
    ASSUME NEW b, NEW h, NEW w, NEW d, NEW g, NEW v,
           UnreadOf(d, g, v) = UnreadOf(b, h, w),
           \A j \in 1..UnreadOf(b, h, w) : StreamOf(d, g, v)[j] = StreamOf(b, h, w)[j]
    PROVE  StreamOf(d, g, v) = StreamOf(b, h, w)
  <1>1. /\ StreamOf(d, g, v) = [j \in 1..UnreadOf(b, h, w) |-> StreamOf(d, g, v)[j]]
        /\ StreamOf(b, h, w) = [j \in 1..UnreadOf(b, h, w) |-> StreamOf(b, h, w)[j]]
    BY DEF StreamOf
  <1> QED BY <1>1

\* feed moves bytes from the wire into the buffer.
LEMMA StreamFed ==
    ASSUME NEW b \in Bytes, NEW h \in Nat, h <= Size(b), NEW w \in Bytes,
           NEW c, NEW g, SameBytes(b, h, c, g), NEW n \in 1..Size(w),
           NEW d, d = Join(c, Part(w, 0, n)), NEW v, v = Part(w, n, Size(w))
    PROVE  /\ d \in Bytes /\ v \in Bytes /\ Size(d) = Size(c) + n
           /\ UnreadOf(d, g, v) = UnreadOf(b, h, w)
           /\ StreamOf(d, g, v) = StreamOf(b, h, w)
  <1>0. /\ c \in Bytes /\ g \in Nat /\ g <= Size(c) /\ Size(c) - g = Size(b) - h
        /\ Size(b) \in Nat /\ Size(c) \in Nat /\ Size(w) \in Nat
        /\ n \in Nat /\ n >= 1 /\ n <= Size(w)
    BY SizeType DEF SameBytes
  <1>1. \A j \in 1..(Size(b) - h) : c[g + j] = b[h + j]
    BY DEF SameBytes
  <1> DEFINE u == Part(w, 0, n)
  <1>2. u \in Bytes /\ Size(u) = n /\ \A j \in 1..n : u[j] = w[j]
    <2>1. 0 \in Nat /\ 0 <= n /\ n - 0 = n
      BY <1>0
    <2>2. /\ u \in Bytes /\ Size(u) = n - 0
          /\ \A j \in 1..(n - 0) : u[j] = w[0 + j]
      BY <1>0, <2>1, PartFacts
    <2>3. \A j \in 1..n : 0 + j = j
      BY <1>0
    <2> HIDE DEF u
    <2> QED BY <2>1, <2>2, <2>3
  <1>3. /\ v \in Bytes /\ Size(v) = Size(w) - n
        /\ \A j \in 1..(Size(w) - n) : v[j] = w[n + j]
    BY <1>0, PartFacts
  <1> HIDE DEF u
  <1>4. /\ d \in Bytes /\ Size(d) = Size(c) + n
        /\ \A j \in 1..Size(c) : d[j] = c[j]
        /\ \A j \in 1..n : d[Size(c) + j] = w[j]
    <2>1. d = Join(c, u)
      BY DEF u
    <2>2. /\ d \in Bytes /\ Size(d) = Size(c) + Size(u)
          /\ \A j \in 1..Size(c) : d[j] = c[j]
          /\ \A j \in 1..Size(u) : d[Size(c) + j] = u[j]
      BY <1>0, <1>2, <2>1, JoinFacts
    <2> QED BY <1>2, <2>2
  <1>5. Size(d) = Size(c) + n /\ Size(v) = Size(w) - n
    BY <1>3, <1>4
  <1>6. UnreadOf(d, g, v) = UnreadOf(b, h, w) /\ UnreadOf(b, h, w) = Size(b) - h + Size(w)
    BY <1>0, <1>5 DEF UnreadOf
  <1>7. ASSUME NEW j \in 1..UnreadOf(b, h, w)
        PROVE  StreamOf(d, g, v)[j] = StreamOf(b, h, w)[j]
    <2>0. j \in Nat /\ j >= 1 /\ j <= Size(b) - h + Size(w)
      BY <1>0, <1>6
    <2>1. StreamOf(d, g, v)[j] = IF g + j <= Size(d) THEN d[g + j] ELSE v[g + j - Size(d)]
      BY <1>6, StreamByte
    <2>2. StreamOf(b, h, w)[j] = IF h + j <= Size(b) THEN b[h + j] ELSE w[h + j - Size(b)]
      BY StreamByte
    <2>3. CASE j <= Size(b) - h
      <3>1. /\ j \in 1..(Size(b) - h) /\ g + j \in 1..Size(c) /\ g + j <= Size(d)
            /\ h + j <= Size(b)
        BY <1>0, <1>5, <2>0, <2>3
      <3> QED BY <1>1, <1>4, <2>1, <2>2, <3>1
    <2>4. CASE j > Size(b) - h /\ j <= Size(b) - h + n
      <3>1. PICK i \in 1..n : i = j - (Size(b) - h)
        BY <1>0, <2>0, <2>4
      <3>2. /\ g + j = Size(c) + i /\ g + j <= Size(d) /\ ~(h + j <= Size(b))
            /\ h + j - Size(b) = i
        BY <1>0, <1>5, <2>0, <2>4, <3>1
      <3> QED BY <1>4, <2>1, <2>2, <3>1, <3>2
    <2>5. CASE j > Size(b) - h + n
      <3>1. PICK i \in 1..(Size(w) - n) : i = j - (Size(b) - h) - n
        BY <1>0, <2>0, <2>5
      <3>2. /\ ~(g + j <= Size(d)) /\ g + j - Size(d) = i /\ ~(h + j <= Size(b))
            /\ h + j - Size(b) = n + i
        BY <1>0, <1>5, <2>0, <2>5, <3>1
      <3> QED BY <1>3, <2>1, <2>2, <3>1, <3>2
    <2> QED BY <1>0, <2>0, <2>3, <2>4, <2>5
  <1>8. StreamOf(d, g, v) = StreamOf(b, h, w)
    BY <1>6, <1>7, SameStream
  <1> QED BY <1>3, <1>4, <1>6, <1>8

\* The first m bytes of t are those of s after the first d.
Shifted(t, s, d, m) == \A j \in 1..m : t[j] = s[d + j]

\* Consuming moves the start of the stream.
LEMMA StreamTaken ==
    ASSUME NEW b \in Bytes, NEW h \in Nat, NEW w \in Bytes,
           NEW size \in Nat, h + size <= Size(b),
           NEW c, NEW g, SameBytes(b, h + size, c, g)
    PROVE  /\ UnreadOf(c, g, w) = UnreadOf(b, h, w) - size
           /\ Shifted(StreamOf(c, g, w), StreamOf(b, h, w), size, UnreadOf(c, g, w))
  <1>0. /\ c \in Bytes /\ g \in Nat /\ g <= Size(c) /\ Size(c) - g = Size(b) - (h + size)
        /\ Size(b) \in Nat /\ Size(c) \in Nat /\ Size(w) \in Nat
    BY SizeType DEF SameBytes
  <1>3. \A j \in 1..(Size(b) - (h + size)) : c[g + j] = b[h + size + j]
    BY DEF SameBytes
  <1>1. /\ UnreadOf(c, g, w) = UnreadOf(b, h, w) - size
        /\ UnreadOf(b, h, w) = Size(b) - h + Size(w)
        /\ UnreadOf(c, g, w) = Size(c) - g + Size(w)
    BY <1>0 DEF UnreadOf
  <1>2. ASSUME NEW j \in 1..UnreadOf(c, g, w)
        PROVE  StreamOf(c, g, w)[j] = StreamOf(b, h, w)[size + j]
    <2>0. j \in Nat /\ j >= 1 /\ size + j \in 1..UnreadOf(b, h, w)
      BY <1>0, <1>1
    <2>1. StreamOf(c, g, w)[j] = IF g + j <= Size(c) THEN c[g + j] ELSE w[g + j - Size(c)]
      BY StreamByte
    <2>2. StreamOf(b, h, w)[size + j]
            = IF h + (size + j) <= Size(b) THEN b[h + (size + j)]
              ELSE w[h + (size + j) - Size(b)]
      BY <2>0, StreamByte
    <2>3. CASE j <= Size(c) - g
      <3>1. /\ j \in 1..(Size(b) - (h + size)) /\ g + j <= Size(c)
            /\ h + (size + j) <= Size(b) /\ h + size + j = h + (size + j)
        BY <1>0, <2>0, <2>3
      <3> QED BY <1>3, <2>1, <2>2, <3>1
    <2>4. CASE j > Size(c) - g
      <3>1. /\ ~(g + j <= Size(c)) /\ ~(h + (size + j) <= Size(b))
            /\ g + j - Size(c) = h + (size + j) - Size(b)
        BY <1>0, <2>0, <2>4
      <3> QED BY <2>1, <2>2, <3>1
    <2> QED BY <1>0, <2>0, <2>3, <2>4
  <1>4. Shifted(StreamOf(c, g, w), StreamOf(b, h, w), size, UnreadOf(c, g, w))
    BY <1>2 DEF Shifted
  <1> QED BY <1>1, <1>4

\* Sending adds to the end of the stream.
LEMMA StreamSent ==
    ASSUME NEW b \in Bytes, NEW h \in Nat, h <= Size(b), NEW w \in Bytes,
           NEW e \in Bytes, NEW v, v = Join(w, e)
    PROVE  /\ UnreadOf(b, h, w) \in Nat /\ v \in Bytes
           /\ UnreadOf(b, h, v) = UnreadOf(b, h, w) + Size(e)
           /\ \A j \in 1..UnreadOf(b, h, w) : StreamOf(b, h, v)[j] = StreamOf(b, h, w)[j]
           /\ Shifted(e, StreamOf(b, h, v), UnreadOf(b, h, w), Size(e))
  <1>0. /\ Size(b) \in Nat /\ Size(w) \in Nat /\ Size(e) \in Nat /\ v \in Bytes
        /\ Size(v) = Size(w) + Size(e)
    BY SizeType, JoinFacts
  <1>4. /\ \A j \in 1..Size(w) : v[j] = w[j]
        /\ \A j \in 1..Size(e) : v[Size(w) + j] = e[j]
    BY JoinFacts
  <1>1. /\ UnreadOf(b, h, w) = Size(b) - h + Size(w)
        /\ UnreadOf(b, h, v) = Size(b) - h + Size(w) + Size(e)
        /\ UnreadOf(b, h, w) \in Nat
    BY <1>0 DEF UnreadOf
  <1>2. ASSUME NEW j \in 1..UnreadOf(b, h, w)
        PROVE  StreamOf(b, h, v)[j] = StreamOf(b, h, w)[j]
    <2>0. j \in 1..UnreadOf(b, h, v)
      BY <1>0, <1>1
    <2>1. StreamOf(b, h, v)[j] = IF h + j <= Size(b) THEN b[h + j] ELSE v[h + j - Size(b)]
      BY <2>0, StreamByte
    <2>2. StreamOf(b, h, w)[j] = IF h + j <= Size(b) THEN b[h + j] ELSE w[h + j - Size(b)]
      BY StreamByte
    <2>3. ~(h + j <= Size(b)) => h + j - Size(b) \in 1..Size(w)
      BY <1>0, <1>1
    <2> QED BY <1>4, <2>1, <2>2, <2>3
  <1>3. ASSUME NEW j \in 1..Size(e)
        PROVE  StreamOf(b, h, v)[UnreadOf(b, h, w) + j] = e[j]
    <2> DEFINE k == UnreadOf(b, h, w) + j
    <2>2. j \in Nat /\ j >= 1 /\ j <= Size(e)
      BY <1>0
    <2>0. k \in 1..UnreadOf(b, h, v) /\ ~(h + k <= Size(b)) /\ h + k - Size(b) = Size(w) + j
      BY <1>0, <1>1, <2>2
    <2> HIDE DEF k
    <2>1. StreamOf(b, h, v)[k] = IF h + k <= Size(b) THEN b[h + k] ELSE v[h + k - Size(b)]
      BY <2>0, StreamByte
    <2> QED BY <1>4, <2>0, <2>1 DEF k
  <1>5. Shifted(e, StreamOf(b, h, v), UnreadOf(b, h, w), Size(e))
    BY <1>3 DEF Shifted
  <1> QED BY <1>0, <1>1, <1>2, <1>5

-----------------------------------------------------------------------------
\* Layouts.

\* A frame is where its bytes are.
LEMMA FrameMoves ==
    ASSUME NEW s, NEW t, NEW d \in Nat, NEW m \in Nat, NEW a \in Nat, NEW b \in Nat,
           NEW p \in SentPackets, FrameOf(s, d + a, d + b, p), b <= m,
           Shifted(t, s, d, m)
    PROVE  FrameOf(t, a, b, p)
  <1>0. p.type \in {0, 1} /\ Size(p.payload) \in Nat
    BY SizeType DEF SentPackets
  <1>1. /\ d + b >= d + a + 4 /\ Number(s, d + a + 2) = p.type
        /\ p.type = 0 => Number(s, d + a) \in BadSizes
    BY DEF FrameOf
  <1>2. b >= a + 4 /\ \A i \in 1..4 : a + i \in 1..m
    BY <1>1
  <1>3. \A i \in 1..4 : t[a + i] = s[d + (a + i)]
    BY <1>2 DEF Shifted
  <1>4. Number(t, a) = Number(s, d + a)
    <2>1. /\ 1 \in 1..4 /\ 2 \in 1..4 /\ d + (a + 1) = d + a + 1 /\ d + (a + 2) = d + a + 2
      OBVIOUS
    <2>2. t[a + 1] = s[d + a + 1] /\ t[a + 2] = s[d + a + 2]
      BY <1>3, <2>1
    <2> QED BY <2>2 DEF Number
  <1>5. Number(t, a + 2) = Number(s, d + a + 2)
    <2>1. /\ 3 \in 1..4 /\ 4 \in 1..4 /\ d + (a + 3) = d + a + 2 + 1
          /\ d + (a + 4) = d + a + 2 + 2 /\ a + 2 + 1 = a + 3 /\ a + 2 + 2 = a + 4
      OBVIOUS
    <2>2. t[a + 2 + 1] = s[d + a + 2 + 1] /\ t[a + 2 + 2] = s[d + a + 2 + 2]
      BY <1>3, <2>1
    <2> QED BY <2>2 DEF Number
  <1>6. ASSUME p.type = 1
        PROVE  /\ Number(t, a) = Size(p.payload) + 4 /\ Size(p.payload) + 4 <= MaxPacketSize
               /\ b = a + Size(p.payload) + 4
               /\ \A j \in 1..Size(p.payload) : t[a + 4 + j] = p.payload[j]
    <2>1. /\ Number(s, d + a) = Size(p.payload) + 4 /\ Size(p.payload) + 4 <= MaxPacketSize
          /\ d + b = d + a + Size(p.payload) + 4
          /\ \A j \in 1..Size(p.payload) : s[d + a + 4 + j] = p.payload[j]
      BY <1>6 DEF FrameOf
    <2>2. b = a + Size(p.payload) + 4
      BY <1>0, <2>1
    <2>3. ASSUME NEW j \in 1..Size(p.payload)
          PROVE  t[a + 4 + j] = p.payload[j]
      <3>1. a + 4 + j \in 1..m /\ d + (a + 4 + j) = d + a + 4 + j
        BY <1>0, <2>2
      <3>2. t[a + 4 + j] = s[d + (a + 4 + j)]
        BY <3>1 DEF Shifted
      <3> QED BY <2>1, <3>1, <3>2
    <2> QED BY <1>4, <2>1, <2>2, <2>3
  <1> QED BY <1>1, <1>2, <1>4, <1>5, <1>6 DEF FrameOf

\* What a layout says of the ends of the packets.
LEMMA LayoutEnds ==
    ASSUME NEW s, NEW n \in Nat, NEW ps, Size(ps) \in Nat, NEW k \in Nat, k <= Size(ps),
           NEW at, Layout(s, n, ps, k, at)
    PROVE  /\ \A i \in k..Size(ps) : at[i] \in Nat /\ at[i] <= n
           /\ at[k] = 0 /\ at[Size(ps)] = n
           /\ \A i, j \in k..Size(ps) : i <= j => at[i] + (j - i) <= at[j]
           /\ \A i \in k..(Size(ps) - 1) : FrameOf(s, at[i], at[i + 1], ps[i + 1])
  <1>1. /\ \A i \in k..Size(ps) : at[i] \in Nat
        /\ at[k] = 0 /\ at[Size(ps)] = n
        /\ \A i, j \in k..Size(ps) : i <= j => at[i] + (j - i) <= at[j]
        /\ \A i \in k..(Size(ps) - 1) : FrameOf(s, at[i], at[i + 1], ps[i + 1])
    BY DEF Layout
  <1>2. ASSUME NEW i \in k..Size(ps) PROVE at[i] <= n
    <2>1. Size(ps) \in k..Size(ps) /\ i <= Size(ps)
      OBVIOUS
    <2>2. at[i] + (Size(ps) - i) <= at[Size(ps)]
      BY <1>1, <2>1
    <2> QED BY <1>1, <2>2
  <1> QED BY <1>1, <1>2

\* One packet more at the end.
LEMMA LayoutGrows ==
    ASSUME NEW s, NEW n \in Nat, NEW ps, Size(ps) \in Nat, NEW k \in Nat, k <= Size(ps),
           NEW at, Layout(s, n, ps, k, at),
           \A i \in 1..Size(ps) : ps[i] \in SentPackets,
           NEW t, NEW b \in Nat, NEW qs, Size(qs) = Size(ps) + 1,
           \A i \in 1..Size(ps) : qs[i] = ps[i],
           \A j \in 1..n : t[j] = s[j],
           FrameOf(t, n, b, qs[Size(ps) + 1]), b >= n + 4
    PROVE  \E bt : Layout(t, b, qs, k, bt)
  <1> DEFINE z == Size(ps)
             bt == [i \in k..(z + 1) |-> IF i <= z THEN at[i] ELSE b]
  <1>1. /\ \A i \in k..z : at[i] \in Nat /\ at[i] <= n
        /\ at[k] = 0 /\ at[z] = n
        /\ \A i, j \in k..z : i <= j => at[i] + (j - i) <= at[j]
        /\ \A i \in k..(z - 1) : FrameOf(s, at[i], at[i + 1], ps[i + 1])
    BY LayoutEnds
  <1>2. /\ \A i \in k..z : bt[i] = at[i]
        /\ bt[z + 1] = b /\ DOMAIN bt = k..(z + 1)
    OBVIOUS
  <1>3. bt \in [k..(z + 1) -> Nat]
    BY <1>1
  <1> HIDE DEF bt
  <1>4. k \in k..z /\ bt[k] = 0
    BY <1>1, <1>2
  <1>5. ASSUME NEW i \in k..(z + 1), NEW j \in k..(z + 1), i <= j
        PROVE  bt[i] + (j - i) <= bt[j]
    <2>1. CASE j <= z
      <3>1. i \in k..z /\ j \in k..z
        BY <1>5, <2>1
      <3> QED BY <1>1, <1>2, <1>5, <3>1
    <2>2. CASE j = z + 1 /\ i <= z
      <3>1. i \in k..z /\ z \in k..z
        BY <2>2
      <3>2. at[i] + (z - i) <= n /\ at[i] \in Nat
        BY <1>1, <3>1, SMTT(40)
      <3> QED BY <1>2, <2>2, <3>1, <3>2, SMTT(40)
    <2>3. CASE i = z + 1 /\ j = z + 1
      BY <1>2, <2>3
    <2> QED BY <1>5, <2>1, <2>2, <2>3
  <1>6. ASSUME NEW i \in k..z
        PROVE  FrameOf(t, bt[i], bt[i + 1], qs[i + 1])
    <2>1. CASE i = z
      <3>1. bt[i] = n /\ bt[i + 1] = b
        BY <1>1, <1>2, <1>4, <2>1
      <3> QED BY <2>1, <3>1
    <2>2. CASE i # z
      <3>1. i \in k..(z - 1) /\ i \in k..z /\ i + 1 \in k..z /\ i + 1 \in 1..z
        BY <2>2
      <3>2. /\ at[i] \in Nat /\ at[i + 1] \in Nat /\ at[i + 1] <= n
            /\ FrameOf(s, at[i], at[i + 1], ps[i + 1]) /\ ps[i + 1] \in SentPackets
        BY <1>1, <3>1
      <3>3. 0 + at[i] = at[i] /\ 0 + at[i + 1] = at[i + 1] /\ 0 \in Nat
        BY <3>2
      <3>4. Shifted(t, s, 0, n)
        <4>1. \A j \in 1..n : 0 + j = j
          OBVIOUS
        <4> QED BY <4>1 DEF Shifted
      <3>5. FrameOf(s, 0 + at[i], 0 + at[i + 1], ps[i + 1])
        BY <3>2, <3>3
      <3>6. FrameOf(t, at[i], at[i + 1], ps[i + 1])
        BY <3>2, <3>3, <3>4, <3>5, FrameMoves
      <3>7. bt[i] = at[i] /\ bt[i + 1] = at[i + 1] /\ qs[i + 1] = ps[i + 1]
        BY <1>2, <3>1
      <3> QED BY <3>6, <3>7
    <2> QED BY <2>1, <2>2
  <1>7. Size(qs) = z + 1
    OBVIOUS
  <1> HIDE DEF z
  <1>8. Layout(t, b, qs, k, bt)
    <2>1. bt \in [k..Size(qs) -> Nat] /\ bt[k] = 0 /\ bt[Size(qs)] = b
      BY <1>2, <1>3, <1>4, <1>7, Zenon
    <2>2. \A i, j \in k..Size(qs) : i <= j => bt[i] + (j - i) <= bt[j]
      <3>1. \A i, j \in k..(z + 1) : i <= j => bt[i] + (j - i) <= bt[j]
        BY <1>5
      <3> QED BY ONLY <3>1, <1>7, Zenon
    <2>3. \A i \in k..(Size(qs) - 1) : FrameOf(t, bt[i], bt[i + 1], qs[i + 1])
      <3>1. \A i \in k..z : FrameOf(t, bt[i], bt[i + 1], qs[i + 1])
        BY <1>6
      <3>2. z \in Nat
        BY DEF z
      <3>3. Size(qs) - 1 = z
        BY ONLY <1>7, <3>2
      <3> QED BY ONLY <3>1, <3>3, Zenon
    <2> QED BY ONLY <2>1, <2>2, <2>3, Zenon DEF Layout
  <1> QED BY <1>8

\* The first packets are gone.
LEMMA LayoutShrinks ==
    ASSUME NEW s, NEW n \in Nat, NEW ps, Size(ps) \in Nat, NEW k \in Nat, k <= Size(ps),
           NEW at, Layout(s, n, ps, k, at),
           \A i \in 1..Size(ps) : ps[i] \in SentPackets,
           NEW m \in k..Size(ps), NEW t,
           Shifted(t, s, at[m], n - at[m])
    PROVE  \E bt : Layout(t, n - at[m], ps, m, bt)
  <1> DEFINE z == Size(ps)
             d == at[m]
             bt == [i \in m..z |-> at[i] - d]
  <1>1. /\ \A i \in k..z : at[i] \in Nat /\ at[i] <= n
        /\ at[k] = 0 /\ at[z] = n
        /\ \A i, j \in k..z : i <= j => at[i] + (j - i) <= at[j]
        /\ \A i \in k..(z - 1) : FrameOf(s, at[i], at[i + 1], ps[i + 1])
    BY LayoutEnds
  <1>2. d \in Nat /\ d <= n /\ n - d \in Nat
    BY <1>1
  <1>3. \A i \in m..z : bt[i] = at[i] - d
    OBVIOUS
  <1>4. ASSUME NEW i \in m..z PROVE at[i] \in Nat /\ d <= at[i] /\ at[i] <= n /\ i \in k..z
    <2>1. m \in k..z /\ i \in k..z /\ m <= i
      OBVIOUS
    <2>2. at[m] + (i - m) <= at[i]
      BY <1>1, <2>1
    <2> QED BY <1>1, <1>2, <2>1, <2>2, SMTT(40)
  <1>5. bt \in [m..z -> Nat]
    BY <1>2, <1>4
  <1> HIDE DEF bt
  <1>6. bt[m] = 0 /\ bt[z] = n - d
    <2>1. m \in m..z /\ z \in m..z
      OBVIOUS
    <2>2. bt[m] = d - d /\ bt[z] = n - d
      BY <1>1, <1>3, <2>1
    <2> QED BY <1>2, <2>2
  <1> HIDE DEF d
  <1>7. ASSUME NEW i \in m..z, NEW j \in m..z, i <= j
        PROVE  bt[i] + (j - i) <= bt[j]
    <2>1. at[i] + (j - i) <= at[j] /\ at[i] \in Nat /\ at[j] \in Nat
      BY <1>1, <1>4, <1>7
    <2> QED BY <1>2, <1>3, <2>1
  <1>8. ASSUME NEW i \in m..(z - 1)
        PROVE  FrameOf(t, bt[i], bt[i + 1], ps[i + 1])
    <2>1. i \in m..z /\ i + 1 \in m..z /\ i \in k..(z - 1) /\ i + 1 \in 1..z
      OBVIOUS
    <2>2. /\ bt[i] \in Nat /\ bt[i + 1] \in Nat /\ d + bt[i] = at[i]
          /\ d + bt[i + 1] = at[i + 1] /\ bt[i + 1] <= n - d
      BY <1>2, <1>3, <1>4, <2>1
    <2>3. FrameOf(s, d + bt[i], d + bt[i + 1], ps[i + 1]) /\ ps[i + 1] \in SentPackets
      BY <1>1, <2>1, <2>2
    <2>4. Shifted(t, s, d, n - d)
      BY DEF d
    <2> QED BY <1>2, <2>2, <2>3, <2>4, FrameMoves
  <1>9. Layout(t, n - d, ps, m, bt)
    BY <1>5, <1>6, <1>7, <1>8 DEF Layout
  <1> QED BY <1>9 DEF d

-----------------------------------------------------------------------------
\* What the codec sees at the end of a packet.

LEMMA SameSequence ==
    ASSUME NEW s \in Bytes, NEW t \in Bytes, Size(s) = Size(t),
           \A j \in 1..Size(s) : s[j] = t[j]
    PROVE  s = t
  BY SMTT(40) DEF Bytes, Size

LEMMA CodecTypeFacts ==
    ASSUME CodecTypes, HandedOn(received, sent)
    PROVE  /\ wire \in Bytes /\ buffer \in Bytes /\ head \in Nat /\ head <= Size(buffer)
           /\ Size(wire) \in Nat /\ Size(buffer) \in Nat
           /\ Size(sent) \in Nat /\ Size(received) \in Nat /\ Size(received) <= Size(sent)
           /\ \A i \in 1..Size(sent) :
                /\ sent[i] \in SentPackets /\ sent[i].type \in {0, 1}
                /\ sent[i].payload \in Bytes /\ Size(sent[i].payload) \in Nat
           /\ UnreadOf(buffer, head, wire) = Size(buffer) - head + Size(wire)
           /\ UnreadOf(buffer, head, wire) \in Nat
  <1>1. /\ wire \in Bytes /\ buffer \in Bytes /\ head \in Nat /\ head <= Size(buffer)
        /\ Size(wire) \in Nat /\ Size(buffer) \in Nat
    BY SizeType DEF CodecTypes
  <1>2. Size(sent) \in Nat /\ Size(received) \in Nat /\ Size(received) <= Size(sent)
    BY DEF CodecTypes, HandedOn, Size
  <1>3. \A i \in 1..Size(sent) : sent[i] \in SentPackets
    BY DEF CodecTypes, Size
  <1>4. \A i \in 1..Size(sent) : sent[i].type \in {0, 1} /\ sent[i].payload \in Bytes
    BY <1>3 DEF SentPackets
  <1>5. \A i \in 1..Size(sent) : Size(sent[i].payload) \in Nat
    BY <1>4, SizeType
  <1>6. UnreadOf(buffer, head, wire) = Size(buffer) - head + Size(wire)
    BY DEF UnreadOf
  <1>7. UnreadOf(buffer, head, wire) \in Nat
    BY <1>1, <1>6
  <1> QED BY <1>1, <1>2, <1>3, <1>4, <1>5, <1>6, <1>7

\* Inside the buffer, the stream is the buffer.
LEMMA StreamInBuffer ==
    ASSUME CodecTypes, HandedOn(received, sent), NEW j \in Nat, j >= 1,
           head + j <= Size(buffer)
    PROVE  StreamOf(buffer, head, wire)[j] = buffer[head + j]
  <1>1. j \in 1..UnreadOf(buffer, head, wire)
    BY CodecTypeFacts
  <1> QED BY <1>1, StreamByte

\* packetFrameAt at the start of the packet that was sent next.
FrameSeen(at, i) ==
    /\ Malformed(at[i]) => sent[i + 1].type = 0
    /\ HasFrame(at[i]) =>
         /\ sent[i + 1].type = 1 /\ PacketAt(at[i]) = sent[i + 1]
         /\ SizeAt(at[i]) \in Nat /\ at[i] + SizeAt(at[i]) = at[i + 1]
         /\ head + at[i + 1] <= Size(buffer)
    /\ head + at[i + 1] <= Size(buffer) => HasFrame(at[i]) \/ Malformed(at[i])

LEMMA AtFrame ==
    ASSUME CodecTypes, HandedOn(received, sent), NEW at, Laid(at),
           NEW i \in Size(received)..(Size(sent) - 1)
    PROVE  FrameSeen(at, i)
  <1> DEFINE s == StreamOf(buffer, head, wire)
             a == at[i]
             b == at[i + 1]
             p == sent[i + 1]
  <1>0. /\ buffer \in Bytes /\ head \in Nat /\ head <= Size(buffer) /\ Size(buffer) \in Nat
        /\ Size(sent) \in Nat /\ Size(received) \in Nat /\ Size(received) <= Size(sent)
        /\ UnreadOf(buffer, head, wire) \in Nat /\ MaxPacketSize \in Nat
    BY CodecTypeFacts, BaseType
  <1>1. i + 1 \in 1..Size(sent) /\ i \in Size(received)..Size(sent)
        /\ i + 1 \in Size(received)..Size(sent)
    BY <1>0
  <1>2. /\ p.type \in {0, 1} /\ p.payload \in Bytes /\ Size(p.payload) \in Nat
        /\ p \in SentPackets
    BY <1>1, CodecTypeFacts
  <1>3. a \in Nat /\ b \in Nat /\ FrameOf(s, a, b, p)
    BY <1>0, <1>1, LayoutEnds DEF Laid
  <1> HIDE DEF s, a, b, p
  <1>4. /\ b >= a + 4 /\ Number(s, a + 2) = p.type
        /\ p.type = 0 => Number(s, a) \in BadSizes
    BY <1>3 DEF FrameOf
  <1>5. p.type = 1 =>
          /\ Number(s, a) = Size(p.payload) + 4 /\ Size(p.payload) + 4 <= MaxPacketSize
          /\ b = a + Size(p.payload) + 4
    BY <1>3 DEF FrameOf
  <1>6. p.type = 1 => \A j \in 1..Size(p.payload) : s[a + 4 + j] = p.payload[j]
    BY <1>3 DEF FrameOf
  <1>7. HasHeader(a) <=> head + a + 4 <= Size(buffer)
    <2>1. HasHeader(a) <=> Size(buffer) - head - a >= 4
      BY DEF HasHeader, Available, Size, kPacketHeaderSize
    <2> QED BY <1>0, <1>3, <2>1
  <1>8. ASSUME head + a + 4 <= Size(buffer)
        PROVE  SizeAt(a) = Number(s, a) /\ ReadU16(buffer, head + a + 2) = Number(s, a + 2)
    <2>1. ASSUME NEW j \in 1..4 PROVE s[a + j] = buffer[head + (a + j)]
      <3>1. a + j \in Nat /\ a + j >= 1 /\ head + (a + j) <= Size(buffer)
        BY <1>0, <1>3, <1>8
      <3> QED BY <3>1, StreamInBuffer DEF s
    <2>2. /\ 1 \in 1..4 /\ 2 \in 1..4 /\ 3 \in 1..4 /\ 4 \in 1..4
          /\ head + (a + 1) = head + a + 1 /\ head + (a + 2) = head + a + 2
          /\ head + (a + 3) = head + a + 2 + 1 /\ head + (a + 4) = head + a + 2 + 2
          /\ a + 3 = a + 2 + 1 /\ a + 4 = a + 2 + 2
      BY <1>0, <1>3
    <2>3. /\ s[a + 1] = buffer[head + a + 1] /\ s[a + 2] = buffer[head + a + 2]
          /\ s[a + 2 + 1] = buffer[head + a + 2 + 1]
          /\ s[a + 2 + 2] = buffer[head + a + 2 + 2]
      BY <2>1, <2>2
    <2> QED BY <2>3 DEF SizeAt, ReadU16, Number
  <1>9. Malformed(a) => p.type = 0
    <2> SUFFICES ASSUME Malformed(a), p.type = 1 PROVE FALSE
      BY <1>2
    <2>1. HasHeader(a) /\ SizeAt(a) \notin 4..MaxPacketSize
      BY DEF Malformed, kPacketHeaderSize
    <2>2. SizeAt(a) = Size(p.payload) + 4 /\ Size(p.payload) + 4 <= MaxPacketSize
      BY <1>5, <1>7, <1>8, <2>1
    <2> QED BY <1>0, <1>2, <2>1, <2>2
  <1>10. p.type = 0 /\ head + a + 4 <= Size(buffer) => Malformed(a)
    <2> SUFFICES ASSUME p.type = 0, head + a + 4 <= Size(buffer) PROVE Malformed(a)
      OBVIOUS
    <2>1. HasHeader(a) /\ SizeAt(a) \in BadSizes
      BY <1>4, <1>7, <1>8
    <2>2. SizeAt(a) \notin 4..MaxPacketSize
      BY <1>0, <2>1, CodecAssumption DEF kPacketHeaderSize
    <2> QED BY <2>1, <2>2 DEF Malformed, kPacketHeaderSize
  <1>11. ASSUME HasFrame(a)
         PROVE  /\ p.type = 1 /\ PacketAt(a) = p
                /\ SizeAt(a) \in Nat /\ a + SizeAt(a) = b /\ head + b <= Size(buffer)
    <2>1. HasHeader(a) /\ ~Malformed(a) /\ Size(buffer) - head - a >= SizeAt(a)
      BY <1>11 DEF HasFrame, Available, Size
    <2>2. p.type = 1
      BY <1>2, <1>7, <1>10, <2>1
    <2>3. /\ SizeAt(a) = Size(p.payload) + 4 /\ b = a + Size(p.payload) + 4
          /\ ReadU16(buffer, head + a + 2) = 1
      BY <1>4, <1>5, <1>7, <1>8, <2>1, <2>2
    <2>4. SizeAt(a) \in Nat /\ a + SizeAt(a) = b /\ head + b <= Size(buffer)
      BY <1>0, <1>2, <1>3, <2>1, <2>3
    <2> DEFINE x == head + a + 4
               y == head + a + SizeAt(a)
               z == Part(buffer, x, y)
    <2>5. x \in Nat /\ y \in Nat /\ x <= y /\ y <= Size(buffer) /\ y - x = Size(p.payload)
      BY <1>0, <1>2, <1>3, <2>3, <2>4
    <2>6. z = p.payload
      <3> HIDE DEF x, y
      <3>1. z \in Bytes /\ Size(z) = y - x /\ \A j \in 1..(y - x) : z[j] = buffer[x + j]
        BY <1>0, <2>5, PartFacts
      <3>2. ASSUME NEW j \in 1..Size(p.payload)
            PROVE  buffer[x + j] = p.payload[j]
        <4>1. /\ a + 4 + j \in Nat /\ a + 4 + j >= 1 /\ head + (a + 4 + j) = x + j
              /\ head + (a + 4 + j) <= Size(buffer)
          BY <1>0, <1>2, <1>3, <2>5 DEF x
        <4>2. s[a + 4 + j] = buffer[head + (a + 4 + j)]
          BY <4>1, StreamInBuffer DEF s
        <4>3. s[a + 4 + j] = p.payload[j]
          BY <1>6, <2>2
        <4> QED BY <4>1, <4>2, <4>3
      <3> HIDE DEF z
      <3>3. \A j \in 1..Size(z) : z[j] = p.payload[j]
        BY <2>5, <3>1, <3>2
      <3>4. Size(z) = Size(p.payload)
        BY <2>5, <3>1
      <3> QED BY <1>2, <3>1, <3>3, <3>4, SameSequence
    <2>7. PacketAt(a) = [type |-> 1, payload |-> p.payload]
      <3>1. PacketAt(a) = [type |-> ReadU16(buffer, head + a + 2), payload |-> z]
        BY DEF PacketAt, Part, kPacketHeaderSize
      <3> HIDE DEF z
      <3> QED BY <2>3, <2>6, <3>1
    <2>8. p = [type |-> 1, payload |-> p.payload]
      BY <1>2, <2>2 DEF SentPackets
    <2> QED BY <2>2, <2>4, <2>7, <2>8
  <1>12. ASSUME head + b <= Size(buffer)
         PROVE  HasFrame(a) \/ Malformed(a)
    <2>1. head + a + 4 <= Size(buffer)
      BY <1>0, <1>3, <1>4, <1>12
    <2>2. CASE p.type = 0
      BY <1>10, <2>1, <2>2
    <2>3. CASE p.type = 1
      <3>1. SizeAt(a) = Size(p.payload) + 4 /\ b = a + Size(p.payload) + 4
        BY <1>5, <1>8, <2>1, <2>3
      <3>2. Size(buffer) - head - a >= SizeAt(a)
        BY <1>0, <1>2, <1>3, <1>12, <3>1
      <3>3. HasHeader(a)
        BY <1>7, <2>1
      <3> QED BY <3>2, <3>3 DEF HasFrame, Available, Size
    <2> QED BY <1>2, <2>2, <2>3
  <1> QED BY <1>9, <1>11, <1>12 DEF FrameSeen, a, b, p

LEMMA AtEnd ==
    ASSUME CodecTypes, HandedOn(received, sent), NEW at, Laid(at)
    PROVE  ~HasHeader(at[Size(sent)]) /\ ~HasFrame(at[Size(sent)])
           /\ ~Malformed(at[Size(sent)])
  <1>1. /\ Size(wire) \in Nat /\ Size(buffer) \in Nat /\ head \in Nat
        /\ at[Size(sent)] = Size(buffer) - head + Size(wire)
    BY CodecTypeFacts DEF Laid, Layout
  <1>2. ~(Size(buffer) - head - at[Size(sent)] >= 4)
    BY <1>1
  <1>3. ~HasHeader(at[Size(sent)])
    BY <1>2 DEF HasHeader, Available, Size, kPacketHeaderSize
  <1> QED BY <1>3 DEF HasFrame, Malformed

-----------------------------------------------------------------------------
\* Sending.

\* A frame stays one when other bytes are before it.
LEMMA FramePlaced ==
    ASSUME NEW e, NEW t, NEW n \in Nat, NEW m \in Nat, NEW p \in SentPackets,
           FrameOf(e, 0, m, p), Shifted(e, t, n, m)
    PROVE  FrameOf(t, n, n + m, p)
  <1>0. p.type \in {0, 1} /\ Size(p.payload) \in Nat
    BY SizeType DEF SentPackets
  <1>1. /\ m >= 0 + 4 /\ Number(e, 0 + 2) = p.type
        /\ p.type = 0 => Number(e, 0) \in BadSizes
    BY DEF FrameOf
  <1>2. \A i \in 1..4 : i \in 1..m
    BY <1>1
  <1>3. \A i \in 1..4 : t[n + i] = e[i]
    BY <1>2 DEF Shifted
  <1>4. /\ 1 \in 1..4 /\ 2 \in 1..4 /\ 3 \in 1..4 /\ 4 \in 1..4
        /\ 0 + 1 = 1 /\ 0 + 2 = 2 /\ 0 + 2 + 1 = 3 /\ 0 + 2 + 2 = 4
        /\ n + 2 + 1 = n + 3 /\ n + 2 + 2 = n + 4
    OBVIOUS
  <1>5. t[n + 1] = e[1] /\ t[n + 2] = e[2] /\ t[n + 3] = e[3] /\ t[n + 4] = e[4]
    BY <1>3, <1>4
  <1>6. Number(t, n) = Number(e, 0)
    BY <1>4, <1>5 DEF Number
  <1>7. Number(t, n + 2) = Number(e, 0 + 2)
    BY <1>4, <1>5 DEF Number
  <1>8. ASSUME p.type = 1
        PROVE  /\ Number(t, n) = Size(p.payload) + 4 /\ Size(p.payload) + 4 <= MaxPacketSize
               /\ n + m = n + Size(p.payload) + 4
               /\ \A j \in 1..Size(p.payload) : t[n + 4 + j] = p.payload[j]
    <2>1. /\ Number(e, 0) = Size(p.payload) + 4 /\ Size(p.payload) + 4 <= MaxPacketSize
          /\ m = 0 + Size(p.payload) + 4
          /\ \A j \in 1..Size(p.payload) : e[0 + 4 + j] = p.payload[j]
      BY <1>8 DEF FrameOf
    <2>2. ASSUME NEW j \in 1..Size(p.payload)
          PROVE  t[n + 4 + j] = p.payload[j]
      <3>1. 4 + j \in 1..m /\ n + (4 + j) = n + 4 + j /\ 0 + 4 + j = 4 + j
        BY <1>0, <2>1
      <3>2. t[n + (4 + j)] = e[4 + j]
        BY <3>1 DEF Shifted
      <3> QED BY <2>1, <3>1, <3>2
    <2>3. n + m = n + Size(p.payload) + 4
      BY <1>0, <2>1
    <2> QED BY <1>6, <2>1, <2>2, <2>3
  <1>9. n + m >= n + 4
    BY <1>1
  <1> QED BY <1>1, <1>6, <1>7, <1>8, <1>9 DEF FrameOf

LEMMA AppendFacts ==
    ASSUME NEW S, NEW s \in Seq(S), NEW x \in S
    PROVE  /\ Append(s, x) \in Seq(S) /\ Size(Append(s, x)) = Size(s) + 1
           /\ \A i \in 1..Size(s) : Append(s, x)[i] = s[i]
           /\ Append(s, x)[Size(s) + 1] = x
  BY DEF Size

LEMMA Sending ==
    ASSUME CodecInv, NEW e \in Bytes, NEW p \in SentPackets, FrameOf(e, 0, Size(e), p),
           wire' = Join(wire, e), sent' = Append(sent, p),
           UNCHANGED <<buffer, head, received, failed>>
    PROVE  CodecInv'
  <1>0. CodecTypes /\ HandedOn(received, sent) /\ ErrorIsJustified /\ LittleWaste
    BY DEF CodecInv
  <1>1. PICK at : Laid(at)
    BY DEF CodecInv
  <1>2. /\ wire \in Bytes /\ buffer \in Bytes /\ head \in Nat /\ head <= Size(buffer)
        /\ Size(sent) \in Nat /\ Size(received) \in Nat /\ Size(received) <= Size(sent)
        /\ \A i \in 1..Size(sent) : sent[i] \in SentPackets
        /\ UnreadOf(buffer, head, wire) \in Nat
    BY <1>0, CodecTypeFacts
  <1> DEFINE n == UnreadOf(buffer, head, wire)
             m == Size(e)
             s == StreamOf(buffer, head, wire)
             t == StreamOf(buffer, head, wire')
  <1>3. /\ wire' \in Bytes /\ UnreadOf(buffer, head, wire') = n + m /\ m \in Nat
        /\ \A j \in 1..n : t[j] = s[j]
        /\ Shifted(e, t, n, m)
    <2>1. m \in Nat
      BY SizeType
    <2>2. ASSUME NEW v, v = Join(wire, e)
          PROVE  /\ v \in Bytes /\ UnreadOf(buffer, head, v) = n + m
                 /\ \A j \in 1..n : StreamOf(buffer, head, v)[j] = s[j]
                 /\ Shifted(e, StreamOf(buffer, head, v), n, m)
      <3>1. wire \in Bytes /\ buffer \in Bytes /\ head \in Nat /\ head <= Size(buffer)
        BY <1>2
      <3>2. v \in Bytes /\ UnreadOf(buffer, head, v) = n + m
        BY <2>2, <3>1, StreamSent
      <3>3. \A j \in 1..n : StreamOf(buffer, head, v)[j] = s[j]
        BY <2>2, <3>1, StreamSent, SMTT(40)
      <3>4. Shifted(e, StreamOf(buffer, head, v), n, m)
        BY <2>2, <3>1, StreamSent
      <3> QED BY <3>2, <3>3, <3>4
    <2> QED BY <2>1, <2>2, Zenon
  <1>4. /\ sent' \in Seq(SentPackets) /\ Size(sent') = Size(sent) + 1
        /\ \A i \in 1..Size(sent) : sent'[i] = sent[i]
        /\ sent'[Size(sent) + 1] = p
    <2>1. sent \in Seq(SentPackets)
      BY <1>0 DEF CodecTypes
    <2>2. /\ Append(sent, p) \in Seq(SentPackets) /\ Size(Append(sent, p)) = Size(sent) + 1
          /\ \A i \in 1..Size(sent) : Append(sent, p)[i] = sent[i]
          /\ Append(sent, p)[Size(sent) + 1] = p
      BY ONLY <2>1, p \in SentPackets, AppendFacts, ZenonT(40)
    <2>3. sent' = Append(sent, p)
      OBVIOUS
    <2> QED BY ONLY <2>2, <2>3, ZenonT(40)
  <1>5. Layout(s, n, sent, Size(received), at)
    BY <1>1 DEF Laid
  <1> HIDE DEF n, m, s, t
  <1>6. FrameOf(t, n, n + m, p) /\ m >= 4
    <2>1. n \in Nat /\ FrameOf(e, 0, m, p)
      BY <1>2 DEF n, m
    <2>2. FrameOf(t, n, n + m, p)
      BY <1>3, <2>1, FramePlaced
    <2>3. m >= 0 + 4
      BY <2>1 DEF FrameOf
    <2> QED BY <1>3, <2>2, <2>3
  <1>7. \E bt : Layout(t, n + m, sent', Size(received), bt)
    <2>1. n \in Nat /\ n + m \in Nat /\ n + m >= n + 4
      BY <1>2, <1>3, <1>6 DEF n
    <2>2. FrameOf(t, n, n + m, sent'[Size(sent) + 1])
      BY <1>4, <1>6
    <2>3. \A i \in 1..Size(sent) : sent[i] \in SentPackets
      BY <1>2
    <2> DEFINE qs == sent'
               k == Size(received)
    <2>4. /\ Size(qs) = Size(sent) + 1 /\ \A i \in 1..Size(sent) : qs[i] = sent[i]
          /\ FrameOf(t, n, n + m, qs[Size(sent) + 1])
          /\ k \in Nat /\ k <= Size(sent) /\ Layout(s, n, sent, k, at)
      BY <1>2, <1>4, <1>5, <2>2
    <2>5. \A j \in 1..n : t[j] = s[j]
      BY <1>3
    <2>6. Size(sent) \in Nat
      BY <1>2
    <2> HIDE DEF qs, k
    <2>7. \E bt : Layout(t, n + m, qs, k, bt)
      BY <2>1, <2>3, <2>4, <2>5, <2>6, LayoutGrows
    <2> QED BY <2>7 DEF qs, k
  <1>8. \E bt : Laid(bt)'
    BY <1>3, <1>7 DEF Laid, t, n
  <1>9. CodecTypes'
    BY <1>0, <1>3, <1>4 DEF CodecTypes
  <1>10. HandedOn(received, sent)'
    <2>1. \A i \in 1..Size(received) : i \in 1..Size(sent)
      BY <1>2
    <2>2. \A i \in 1..Size(received) : received[i] = sent'[i] /\ sent'[i].type = 1
      BY <1>0, <1>4, <2>1 DEF HandedOn
    <2>3. Size(received) <= Size(sent')
      BY <1>2, <1>4
    <2> QED BY <2>2, <2>3 DEF HandedOn
  <1>11. ErrorIsJustified'
    <2>1. DOMAIN sent = 1..Size(sent) /\ DOMAIN sent' = 1..Size(sent')
      BY <1>0, <1>4 DEF CodecTypes, Size
    <2>2. 1..Size(sent) \subseteq 1..Size(sent')
      BY <1>2, <1>4
    <2>3. ASSUME NEW i \in Garbage PROVE i \in Garbage'
      BY <1>4, <2>1, <2>2 DEF Garbage
    <2> QED BY <1>0, <2>3 DEF ErrorIsJustified
  <1>12. LittleWaste'
    BY <1>0 DEF LittleWaste
  <1> QED BY <1>8, <1>9, <1>10, <1>11, <1>12 DEF CodecInv

LEMMA WriteFacts ==
    ASSUME NEW n \in Nat, NEW k \in Nat
    PROVE  LET w == Join(WriteU16(n), WriteU16(k)) IN
           /\ w \in Bytes /\ Size(w) = 4
           /\ Number(w, 0) = n /\ Number(w, 0 + 2) = k
  <1> DEFINE x == WriteU16(n)
             y == WriteU16(k)
             w == Join(x, y)
  <1>1. /\ x \in Bytes /\ Size(x) = 2 /\ x[1] * Base + x[2] = n
        /\ y \in Bytes /\ Size(y) = 2 /\ y[1] * Base + y[2] = k
    BY ReadsWhatIsWritten DEF Bytes, Size
  <1> HIDE DEF x, y
  <1>2. /\ w \in Bytes /\ Size(w) = Size(x) + Size(y)
        /\ \A j \in 1..Size(x) : w[j] = x[j]
        /\ \A j \in 1..Size(y) : w[Size(x) + j] = y[j]
    BY <1>1, JoinFacts
  <1> HIDE DEF w
  <1>3. Size(w) = 4
    BY <1>1, <1>2
  <1>4. w[1] = x[1] /\ w[2] = x[2] /\ w[3] = y[1] /\ w[4] = y[2]
    <2>1. 1 \in 1..2 /\ 2 \in 1..2 /\ 2 + 1 = 3 /\ 2 + 2 = 4
      OBVIOUS
    <2>2. /\ \A j \in 1..2 : w[j] = x[j]
          /\ \A j \in 1..2 : w[2 + j] = y[j]
      BY <1>1, <1>2
    <2>3. w[1] = x[1] /\ w[2] = x[2]
      BY <2>1, <2>2
    <2>4. w[2 + 1] = y[1] /\ w[2 + 2] = y[2]
      BY <2>1, <2>2
    <2> QED BY <2>1, <2>3, <2>4
  <1>5. Number(w, 0) = n
    <2>1. 0 + 1 = 1 /\ 0 + 2 = 2
      OBVIOUS
    <2> QED BY <1>1, <1>4, <2>1 DEF Number
  <1>6. Number(w, 0 + 2) = k
    <2>1. 0 + 2 + 1 = 3 /\ 0 + 2 + 2 = 4
      OBVIOUS
    <2> QED BY <1>1, <1>4, <2>1 DEF Number
  <1> QED BY <1>2, <1>3, <1>5, <1>6 DEF w, x, y

LEMMA JoinAssociative ==
    ASSUME NEW s \in Bytes, NEW t \in Bytes, NEW u \in Bytes
    PROVE  Join(Join(s, t), u) = Join(s, Join(t, u))
  BY SMTT(40) DEF Join, Bytes

LEMMA SendPacketKeeps == CodecInv /\ SendPacket => CodecInv'
  <1> SUFFICES ASSUME CodecInv, SendPacket PROVE CodecInv'
    OBVIOUS
  <1>1. PICK p \in [type : {1}, payload : Payloads] :
          Encodable(p.payload) /\ wire' = wire \o Encode(p) /\ sent' = Append(sent, p)
    BY DEF SendPacket
  <1>2. UNCHANGED <<buffer, head, received, failed>>
    BY DEF SendPacket
  <1>3. p.type = 1 /\ p.payload \in Bytes /\ p = [type |-> 1, payload |-> p.payload]
    <2>1. p.type = 1 /\ p.payload \in Payloads /\ p = [type |-> 1, payload |-> p.payload]
      BY <1>1
    <2>2. Base \in Nat
      BY BaseType
    <2>3. p.payload \in Seq(0..(Base - 1))
      BY <2>1, CodecAssumption
    <2>4. p.payload \in Bytes
      BY <2>2, <2>3 DEF Bytes
    <2> QED BY <2>1, <2>4
  <1>4. p \in SentPackets
    BY <1>1, <1>3 DEF SentPackets
  <1> DEFINE L == Size(p.payload)
             w == Join(WriteU16(L + 4), WriteU16(1))
             e == Join(w, p.payload)
  <1>5. L \in Nat /\ L + 4 \in Nat /\ L + 4 <= MaxPacketSize
    <2>1. L \in Nat
      BY <1>3, SizeType
    <2>2. L + 4 <= MaxPacketSize
      BY <1>1 DEF Encodable, kPacketHeaderSize, Size
    <2> QED BY <2>1, <2>2
  <1>6. e = Encode(p)
    BY <1>3 DEF Encode, Join, Size, kPacketHeaderSize
  <1>7. wire' = Join(wire, e)
    <2> HIDE DEF e
    <2> QED BY <1>1, <1>6 DEF Join
  <1>8. w \in Bytes /\ Size(w) = 4 /\ Number(w, 0) = L + 4 /\ Number(w, 0 + 2) = 1
    BY <1>5, WriteFacts
  <1> HIDE DEF w, L
  <1>9. /\ e \in Bytes /\ Size(e) = Size(w) + Size(p.payload)
        /\ \A j \in 1..Size(w) : e[j] = w[j]
        /\ \A j \in 1..Size(p.payload) : e[Size(w) + j] = p.payload[j]
    BY <1>3, <1>8, JoinFacts
  <1> HIDE DEF e
  <1>10. FrameOf(e, 0, Size(e), p)
    <2>1. Size(e) = L + 4
      BY <1>5, <1>8, <1>9 DEF L
    <2>2. \A j \in 1..4 : e[j] = w[j]
      BY <1>8, <1>9
    <2>3. /\ 1 \in 1..4 /\ 2 \in 1..4 /\ 3 \in 1..4 /\ 4 \in 1..4
          /\ 0 + 1 = 1 /\ 0 + 2 = 2 /\ 0 + 2 + 1 = 3 /\ 0 + 2 + 2 = 4
      OBVIOUS
    <2>4. e[1] = w[1] /\ e[2] = w[2] /\ e[3] = w[3] /\ e[4] = w[4]
      BY <2>2, <2>3
    <2>5. Number(e, 0) = L + 4
      BY <1>8, <2>3, <2>4 DEF Number
    <2>6. Number(e, 0 + 2) = p.type
      BY <1>3, <1>8, <2>3, <2>4 DEF Number
    <2>7. \A j \in 1..Size(p.payload) : e[0 + 4 + j] = p.payload[j]
      <3>1. 0 + 4 = 4
        OBVIOUS
      <3> QED BY <1>8, <1>9, <3>1
    <2>8. Size(e) >= 0 + 4 /\ Size(e) = 0 + Size(p.payload) + 4 /\ p.type # 0
      BY <1>3, <1>5, <2>1 DEF L
    <2>9. Number(e, 0) = Size(p.payload) + 4 /\ Size(p.payload) + 4 <= MaxPacketSize
      BY <1>5, <2>5 DEF L
    <2> QED BY <2>6, <2>7, <2>8, <2>9 DEF FrameOf
  <1> QED BY <1>1, <1>2, <1>4, <1>7, <1>9, <1>10, Sending

LEMMA SendGarbageKeeps == CodecInv /\ SendGarbage => CodecInv'
  <1> SUFFICES ASSUME CodecInv, SendGarbage PROVE CodecInv'
    OBVIOUS
  <1>1. PICK b \in BadSizes : wire' = wire \o WriteU16(b) \o WriteU16(0)
    BY DEF SendGarbage
  <1>2. UNCHANGED <<buffer, head, received, failed>>
    BY DEF SendGarbage
  <1> DEFINE p == [type |-> 0, payload |-> <<>>]
             e == Join(WriteU16(b), WriteU16(0))
  <1>3. sent' = Append(sent, p)
    BY DEF SendGarbage
  <1>4. p \in SentPackets /\ p.type = 0
    BY DEF SentPackets, Bytes
  <1>5. b \in Nat
    BY CodecAssumption
  <1>6. e \in Bytes /\ Size(e) = 4 /\ Number(e, 0) = b /\ Number(e, 0 + 2) = 0
    BY <1>5, WriteFacts
  <1>7. wire' = Join(wire, e)
    <2>1. wire \in Bytes
      BY DEF CodecInv, CodecTypes
    <2>2. WriteU16(b) \in Bytes /\ WriteU16(0) \in Bytes
      BY <1>5, ReadsWhatIsWritten DEF Bytes
    <2>3. wire' = Join(Join(wire, WriteU16(b)), WriteU16(0))
      BY <1>1 DEF Join
    <2> QED BY <2>1, <2>2, <2>3, JoinAssociative
  <1> HIDE DEF e, p
  <1>8. FrameOf(e, 0, Size(e), p)
    <2>1. Size(e) >= 0 + 4 /\ p.type # 1
      BY <1>4, <1>6
    <2> QED BY <1>4, <1>6, <2>1 DEF FrameOf
  <1> QED BY <1>2, <1>3, <1>4, <1>6, <1>7, <1>8, Sending
-----------------------------------------------------------------------------
\* Feeding.

LEMMA FeedKeeps == CodecInv /\ Feed => CodecInv'
  <1> SUFFICES ASSUME CodecInv, Feed PROVE CodecInv'
    OBVIOUS
  <1>0. CodecTypes /\ HandedOn(received, sent) /\ ErrorIsJustified /\ LittleWaste
    BY DEF CodecInv
  <1>1. PICK at : Laid(at)
    BY DEF CodecInv
  <1>2. /\ wire \in Bytes /\ buffer \in Bytes /\ head \in Nat /\ head <= Size(buffer)
        /\ Size(wire) \in Nat /\ Size(buffer) \in Nat
    BY <1>0, CodecTypeFacts
  <1> DEFINE c == Compact(buffer, head).buffer
             g == Compact(buffer, head).head
  <1>3. SameBytes(buffer, head, c, g)
    BY <1>2, CompactSameBytes
  <1>4. PICK n \in 1..Size(wire) :
          /\ buffer' = Join(c, Part(wire, 0, n)) /\ head' = g
          /\ wire' = Part(wire, n, Size(wire))
    <2>1. PICK n \in 1..Len(wire) :
            /\ buffer' = c \o SubSeq(wire, 1, n) /\ head' = g
            /\ wire' = SubSeq(wire, n + 1, Len(wire))
      BY DEF Feed
    <2>2. SubSeq(wire, 1, n) = Part(wire, 0, n)
      BY DEF Part
    <2>3. SubSeq(wire, n + 1, Len(wire)) = Part(wire, n, Size(wire)) /\ n \in 1..Size(wire)
      BY DEF Part, Size
    <2> HIDE DEF c, g
    <2>4. buffer' = Join(c, Part(wire, 0, n))
      BY <2>1, <2>2 DEF Join
    <2> QED BY <2>1, <2>3, <2>4
  <1>5. UNCHANGED <<sent, received, failed>>
    BY DEF Feed
  <1> HIDE DEF c, g
  <1>6. /\ c \in Bytes /\ g \in Nat /\ g <= Size(c) /\ Size(c) \in Nat
        /\ g < Threshold \/ g < Size(c) - g
    BY <1>3, SizeType DEF SameBytes
  <1>7. ASSUME NEW d, d = Join(c, Part(wire, 0, n)), NEW v, v = Part(wire, n, Size(wire))
        PROVE  /\ d \in Bytes /\ v \in Bytes /\ Size(d) = Size(c) + n
               /\ UnreadOf(d, g, v) = UnreadOf(buffer, head, wire)
               /\ StreamOf(d, g, v) = StreamOf(buffer, head, wire)
    BY <1>2, <1>3, <1>7, StreamFed
  <1>8. /\ buffer' \in Bytes /\ wire' \in Bytes /\ Size(buffer') = Size(c) + n
        /\ UnreadOf(buffer', g, wire') = UnreadOf(buffer, head, wire)
        /\ StreamOf(buffer', g, wire') = StreamOf(buffer, head, wire)
    BY <1>4, <1>7, Zenon
  <1>9. Laid(at)'
    BY <1>1, <1>4, <1>5, <1>8 DEF Laid
  <1>10. CodecTypes'
    <2>1. head' \in Nat /\ head' <= Size(buffer')
      BY <1>2, <1>4, <1>6, <1>8
    <2> QED BY <1>0, <1>5, <1>8, <2>1 DEF CodecTypes
  <1>11. HandedOn(received, sent)' /\ ErrorIsJustified'
    BY <1>0, <1>5 DEF HandedOn, ErrorIsJustified, Garbage
  <1>12. LittleWaste'
    <2>1. Threshold \in Nat /\ n \in Nat
      BY <1>2, BaseType
    <2>2. head' < Threshold \/ head' < Size(buffer') - head'
      BY <1>4, <1>6, <1>8, <2>1
    <2> QED BY <2>2 DEF LittleWaste, Size
  <1> QED BY <1>9, <1>10, <1>11, <1>12 DEF CodecInv

-----------------------------------------------------------------------------
\* Handing on.

LEMMA JoinPackets ==
    ASSUME NEW S, NEW s \in Seq(S), NEW t \in Seq(S)
    PROVE  /\ Join(s, t) \in Seq(S) /\ Size(Join(s, t)) = Size(s) + Size(t)
           /\ Size(s) \in Nat /\ Size(t) \in Nat
           /\ \A j \in 1..Size(s) : Join(s, t)[j] = s[j]
           /\ Shifted(t, Join(s, t), Size(s), Size(t))
  BY DEF Size, Join, Shifted

\* The packets are the ones that were sent next.
NextPackets(packets, m) ==
    /\ packets \in Seq(SentPackets) /\ Size(packets) = m - Size(received)
    /\ \A i \in (Size(received) + 1)..m :
         packets[i - Size(received)] = sent[i] /\ sent[i].type = 1

LEMMA HandedOnGrows ==
    ASSUME CodecTypes, HandedOn(received, sent),
           NEW m \in Size(received)..Size(sent), NEW packets, NextPackets(packets, m),
           NEW rs, rs = Join(received, packets)
    PROVE  /\ rs \in Seq(SentPackets) /\ Size(rs) = m
           /\ HandedOn(rs, sent)
  <1>0. /\ Size(sent) \in Nat /\ Size(received) \in Nat /\ Size(received) <= Size(sent)
        /\ received \in Seq(SentPackets) /\ packets \in Seq(SentPackets)
        /\ Size(packets) = m - Size(received)
        /\ m \in Nat /\ Size(received) <= m /\ m <= Size(sent)
    BY CodecTypeFacts DEF CodecTypes, NextPackets
  <1>1. /\ rs \in Seq(SentPackets) /\ Size(rs) = Size(received) + Size(packets)
        /\ \A j \in 1..Size(received) : rs[j] = received[j]
        /\ Shifted(packets, rs, Size(received), Size(packets))
    BY <1>0, JoinPackets
  <1>2. Size(rs) = m
    BY <1>0, <1>1
  <1>3. ASSUME NEW i \in 1..m PROVE rs[i] = sent[i] /\ sent[i].type = 1
    <2>1. CASE i <= Size(received)
      <3>1. i \in 1..Size(received)
        BY <1>0, <2>1
      <3> QED BY <1>1, <3>1 DEF HandedOn
    <2>2. CASE i > Size(received)
      <3>1. /\ i \in (Size(received) + 1)..m /\ i - Size(received) \in 1..Size(packets)
            /\ Size(received) + (i - Size(received)) = i
        BY <1>0, <2>2
      <3>2. rs[i] = packets[i - Size(received)]
        BY <1>1, <3>1 DEF Shifted
      <3>3. packets[i - Size(received)] = sent[i] /\ sent[i].type = 1
        BY <3>1 DEF NextPackets
      <3> QED BY <3>2, <3>3
    <2> QED BY <1>0, <2>1, <2>2
  <1>4. HandedOn(rs, sent)
    BY <1>0, <1>2, <1>3 DEF HandedOn
  <1> QED BY <1>1, <1>2, <1>4

LEMMA TakeKeeps ==
    ASSUME CodecInv, NEW at, Laid(at), NEW m \in Size(received)..Size(sent),
           head + at[m] <= Size(buffer), NEW packets, NextPackets(packets, m),
           Take(packets, at[m])
    PROVE  CodecInv'
  <1>0. CodecTypes /\ HandedOn(received, sent) /\ ErrorIsJustified
    BY DEF CodecInv
  <1>1. /\ wire \in Bytes /\ buffer \in Bytes /\ head \in Nat /\ head <= Size(buffer)
        /\ Size(sent) \in Nat /\ Size(received) \in Nat /\ Size(received) <= Size(sent)
        /\ UnreadOf(buffer, head, wire) \in Nat
    BY <1>0, CodecTypeFacts
  <1>2. \A i \in 1..Size(sent) : sent[i] \in SentPackets
    BY <1>0, CodecTypeFacts
  <1> DEFINE size == at[m]
             c == Compact(buffer, head + size).buffer
             g == Compact(buffer, head + size).head
             n == UnreadOf(buffer, head, wire)
             s == StreamOf(buffer, head, wire)
             k == Size(received)
  <1>3. size \in Nat
    BY <1>1, LayoutEnds DEF Laid
  <1>4. /\ received' = Join(received, packets) /\ buffer' = c /\ head' = g
        /\ UNCHANGED <<wire, sent, failed>>
    BY DEF Take, Join
  <1>5. SameBytes(buffer, head + size, c, g)
    <2>1. head + size \in Nat /\ head + size <= Size(buffer)
      BY <1>1, <1>3
    <2> HIDE DEF size
    <2> QED BY <1>1, <2>1, CompactSameBytes
  <1>6. Layout(s, n, sent, k, at)
    BY DEF Laid
  <1>7. head + size <= Size(buffer)
    OBVIOUS
  <1> HIDE DEF c, g
  <1>8. /\ UnreadOf(c, g, wire) = n - size
        /\ Shifted(StreamOf(c, g, wire), s, size, UnreadOf(c, g, wire))
    <2> HIDE DEF size
    <2> QED BY <1>1, <1>3, <1>5, <1>7, StreamTaken
  <1>9. \E bt : Layout(StreamOf(c, g, wire), n - size, sent, m, bt)
    <2> DEFINE t == StreamOf(c, g, wire)
    <2>1. Shifted(t, s, at[m], n - at[m])
      BY <1>8
    <2> HIDE DEF t, n, s, k
    <2>2. n \in Nat /\ k \in Nat /\ k <= Size(sent) /\ m \in k..Size(sent)
      BY <1>1 DEF n, k
    <2>3. \E bt : Layout(t, n - at[m], sent, m, bt)
      BY <1>1, <1>2, <1>6, <2>1, <2>2, LayoutShrinks
    <2> QED BY <2>3 DEF t
  <1> HIDE DEF size
  <1>10. /\ received' \in Seq(SentPackets) /\ Size(received') = m
         /\ HandedOn(received', sent)
    BY <1>0, <1>4, HandedOnGrows
  <1>11. \E bt : Laid(bt)'
    BY <1>4, <1>8, <1>9, <1>10 DEF Laid
  <1>12. CodecTypes'
    <2>1. c \in Bytes /\ g \in Nat /\ g <= Size(c)
      BY <1>5 DEF SameBytes
    <2> QED BY <1>0, <1>4, <1>10, <2>1 DEF CodecTypes
  <1>13. HandedOn(received, sent)' /\ ErrorIsJustified'
    BY <1>0, <1>4, <1>10 DEF ErrorIsJustified, Garbage
  <1>14. LittleWaste'
    BY <1>4, <1>5 DEF SameBytes, LittleWaste, Size
  <1> QED BY <1>11, <1>12, <1>13, <1>14 DEF CodecInv

\* A ProtocolError at a header that was sent malformed.
LEMMA ThrowKeeps ==
    ASSUME CodecInv, NEW i \in 1..Size(sent), sent[i].type = 0, Throw
    PROVE  CodecInv'
  <1>1. UNCHANGED <<wire, buffer, head, sent, received>> /\ failed' \in BOOLEAN
    BY DEF Throw
  <1>2. i \in DOMAIN sent
    BY DEF CodecInv, CodecTypes, Size
  <1>3. ErrorIsJustified'
    BY <1>1, <1>2 DEF ErrorIsJustified, Garbage
  <1>4. CodecTypes' /\ HandedOn(received, sent)' /\ LittleWaste'
    BY <1>1 DEF CodecInv, CodecTypes, HandedOn, LittleWaste
  <1>5. \E at : Laid(at)'
    BY <1>1 DEF CodecInv, Laid
  <1> QED BY <1>3, <1>4, <1>5 DEF CodecInv

\* A malformed header is one that was sent.
LEMMA MalformedSent ==
    ASSUME CodecTypes, HandedOn(received, sent), NEW at, Laid(at),
           NEW i \in Size(received)..Size(sent), Malformed(at[i])
    PROVE  \E j \in 1..Size(sent) : sent[j].type = 0
  <1>1. Size(sent) \in Nat /\ Size(received) \in Nat
    BY CodecTypeFacts
  <1>2. i # Size(sent)
    BY AtEnd
  <1>3. i \in Size(received)..(Size(sent) - 1) /\ i + 1 \in 1..Size(sent)
    BY <1>1, <1>2
  <1>4. sent[i + 1].type = 0
    BY <1>3, AtFrame DEF FrameSeen
  <1> QED BY <1>3, <1>4

LEMMA PeekAndConsumeKeeps == CodecInv /\ PeekAndConsume => CodecInv'
  <1> SUFFICES ASSUME CodecInv, PeekAndConsume PROVE CodecInv'
    OBVIOUS
  <1>0. CodecTypes /\ HandedOn(received, sent)
    BY DEF CodecInv
  <1>1. PICK at : Laid(at)
    BY DEF CodecInv
  <1> DEFINE k == Size(received)
  <1>2. /\ Size(sent) \in Nat /\ k \in Nat /\ k <= Size(sent)
        /\ \A i \in 1..Size(sent) : sent[i] \in SentPackets
    BY <1>0, CodecTypeFacts
  <1>3. at[k] = 0 /\ k \in k..Size(sent)
    BY <1>1, <1>2 DEF Laid, Layout
  <1>4. CASE Malformed(0) /\ Throw
    <2>1. \E j \in 1..Size(sent) : sent[j].type = 0
      BY <1>0, <1>1, <1>3, <1>4, MalformedSent
    <2> QED BY <1>4, <2>1, ThrowKeeps
  <1>5. CASE HasFrame(0) /\ Take(<<PacketAt(0)>>, SizeAt(0))
    <2>1. k # Size(sent)
      BY <1>0, <1>1, <1>3, <1>5, AtEnd
    <2>2. /\ k \in k..(Size(sent) - 1) /\ k + 1 \in k..Size(sent)
          /\ k + 1 \in 1..Size(sent)
      BY <1>2, <2>1
    <2>3. FrameSeen(at, k)
      BY <1>0, <1>1, <2>2, AtFrame
    <2>4. /\ sent[k + 1].type = 1 /\ PacketAt(0) = sent[k + 1]
          /\ SizeAt(0) \in Nat /\ 0 + SizeAt(0) = at[k + 1]
          /\ head + at[k + 1] <= Size(buffer)
      BY <1>3, <1>5, <2>3 DEF FrameSeen
    <2>5. SizeAt(0) = at[k + 1]
      BY <2>4
    <2> DEFINE packets == <<PacketAt(0)>>
    <2>6. packets \in Seq(SentPackets) /\ Size(packets) = 1 /\ packets[1] = sent[k + 1]
      <3>1. sent[k + 1] \in SentPackets
        BY <1>2, <2>2
      <3>2. packets = <<sent[k + 1]>>
        BY <2>4
      <3> QED BY <3>1, <3>2 DEF Size
    <2> HIDE DEF packets
    <2>7. NextPackets(packets, k + 1)
      <3>1. /\ \A i \in (k + 1)..(k + 1) : i = k + 1 /\ i - k = 1
            /\ (k + 1) - k = 1
        BY <1>2
      <3>2. \A i \in (k + 1)..(k + 1) : packets[i - k] = sent[i] /\ sent[i].type = 1
        BY <2>4, <2>6, <3>1
      <3> QED BY <2>6, <3>1, <3>2 DEF NextPackets
    <2>8. Take(packets, at[k + 1])
      BY <1>5, <2>5 DEF packets
    <2> QED BY <1>1, <2>2, <2>4, <2>7, <2>8, TakeKeeps
  <1> QED BY <1>4, <1>5 DEF PeekAndConsume
-----------------------------------------------------------------------------
\* The loop of drainPackets.

\* Frames are complete up to the end of the packet n places on, and no further.
FramesUpTo(at, n) ==
    /\ n \in Nat /\ Size(received) + n <= Size(sent) /\ n <= Size(buffer)
    /\ head + at[Size(received) + n] <= Size(buffer)
    /\ ~HasFrame(at[Size(received) + n])
    /\ \A i \in 0..(n - 1) :
         HasFrame(at[Size(received) + i]) /\ FrameSeen(at, Size(received) + i)

LEMMA SomeFrames ==
    ASSUME CodecTypes, HandedOn(received, sent), NEW at, Laid(at)
    PROVE  \E n : FramesUpTo(at, n)
  <1> DEFINE k == Size(received)
             z == Size(sent)
             T == {n \in 0..(z - k) : ~HasFrame(at[k + n])}
  <1>1. /\ z \in Nat /\ k \in Nat /\ k <= z /\ Size(buffer) \in Nat
        /\ head \in Nat /\ head <= Size(buffer) /\ UnreadOf(buffer, head, wire) \in Nat
    BY CodecTypeFacts
  <1>2. T \in SUBSET Nat /\ T # {}
    <2>1. k + (z - k) = z /\ z - k \in 0..(z - k) /\ 0..(z - k) \subseteq Nat
      BY <1>1
    <2>2. ~HasFrame(at[z])
      BY AtEnd
    <2> QED BY <2>1, <2>2
  <1>3. PICK n \in T : \A i \in T : n <= i
    <2> HIDE DEF T
    <2> QED BY <1>2, LeastNumber
  <1>4. n \in Nat /\ n <= z - k /\ k + n \in Nat /\ k + n <= z /\ ~HasFrame(at[k + n])
    BY <1>1, <1>3
  <1>5. ASSUME NEW i \in 0..(n - 1)
        PROVE  HasFrame(at[k + i]) /\ FrameSeen(at, k + i)
    <2>1. i \in 0..(z - k) /\ ~(n <= i) /\ k + i \in k..(z - 1)
      BY <1>1, <1>4
    <2>2. HasFrame(at[k + i])
      BY <1>3, <2>1
    <2>3. FrameSeen(at, k + i)
      BY <2>1, AtFrame
    <2> QED BY <2>2, <2>3
  <1>6. /\ \A i \in k..z : at[i] \in Nat
        /\ at[k] = 0 /\ \A i, j \in k..z : i <= j => at[i] + (j - i) <= at[j]
    BY DEF Laid, Layout
  <1> HIDE DEF T, k, z
  <1>7. head + at[k + n] <= Size(buffer)
    <2>1. CASE n = 0
      <3>1. k + n = k
        BY <1>1, <2>1
      <3> QED BY <1>1, <1>6, <3>1
    <2>2. CASE n # 0
      <3>1. n - 1 \in 0..(n - 1) /\ k + (n - 1) + 1 = k + n
        BY <1>1, <1>4, <2>2
      <3>2. HasFrame(at[k + (n - 1)]) /\ FrameSeen(at, k + (n - 1))
        BY <1>5, <3>1
      <3>3. head + at[k + (n - 1) + 1] <= Size(buffer)
        BY <3>2 DEF FrameSeen
      <3> QED BY <3>1, <3>3
    <2> QED BY <2>1, <2>2
  <1>8. n <= Size(buffer)
    <2>1. k \in k..z /\ k + n \in k..z /\ k <= k + n /\ (k + n) - k = n
      BY <1>1, <1>4
    <2>2. at[k] + ((k + n) - k) <= at[k + n] /\ at[k + n] \in Nat
      BY <1>6, <2>1
    <2>3. 0 + n <= at[k + n]
      BY <1>6, <2>1, <2>2
    <2> QED BY <1>1, <1>4, <1>7, <2>2, <2>3
  <1>9. FramesUpTo(at, n)
    BY <1>4, <1>5, <1>7, <1>8 DEF FramesUpTo, k, z
  <1> QED BY <1>9

\* One turn of the loop.
Turn(o) == IF HasFrame(o) THEN o + SizeAt(o) ELSE o
Turns(f) == [i \in 0..Len(buffer) |-> IF i = 0 THEN 0 ELSE Turn(f[i - 1])]

\* The loop has a course, so Offsets is one.
LEMMA OffsetsTurn ==
    ASSUME CodecTypes, HandedOn(received, sent), NEW at, Laid(at), NEW n, FramesUpTo(at, n)
    PROVE  \A i \in 0..Size(buffer) :
             Offsets[i] = IF i = 0 THEN 0 ELSE Turn(Offsets[i - 1])
  <1> DEFINE k == Size(received)
             L == Size(buffer)
             f == [i \in 0..L |-> at[k + (IF i <= n THEN i ELSE n)]]
  <1>1. L \in Nat /\ Len(buffer) = L /\ k \in Nat /\ n \in Nat /\ n <= L /\ at[k] = 0
    BY CodecTypeFacts DEF FramesUpTo, Laid, Layout, Size
  <1>2. /\ ~HasFrame(at[k + n])
        /\ \A i \in 0..(n - 1) : HasFrame(at[k + i]) /\ FrameSeen(at, k + i)
    BY DEF FramesUpTo
  <1> HIDE DEF k, L
  <1>3. ASSUME NEW i \in 0..L, i # 0 PROVE f[i] = Turn(f[i - 1])
    <2>0. i - 1 \in 0..L
      BY <1>1, <1>3
    <2>1. CASE i <= n
      <3>1. i - 1 \in 0..(n - 1) /\ i - 1 <= n /\ k + (i - 1) + 1 = k + i
        BY <1>1, <1>3, <2>1
      <3>2. f[i] = at[k + i] /\ f[i - 1] = at[k + (i - 1)]
        BY <2>0, <2>1, <3>1
      <3>3. /\ HasFrame(at[k + (i - 1)])
            /\ at[k + (i - 1)] + SizeAt(at[k + (i - 1)]) = at[k + i]
        BY <1>2, <3>1 DEF FrameSeen
      <3> HIDE DEF f
      <3> QED BY <3>2, <3>3 DEF Turn
    <2>2. CASE ~(i <= n)
      <3>1. IF i - 1 <= n THEN i - 1 = n ELSE TRUE
        BY <1>1, <1>3, <2>2
      <3>2. f[i] = at[k + n] /\ f[i - 1] = at[k + n]
        BY <2>0, <2>2, <3>1
      <3> HIDE DEF f
      <3> QED BY <1>2, <3>2 DEF Turn
    <2> QED BY <2>1, <2>2
  <1>4. f[0] = 0
    <2>1. 0 \in 0..L /\ 0 <= n /\ k + 0 = k
      BY <1>1
    <2> QED BY <1>1, <2>1
  <1>5. f = [i \in 0..L |-> f[i]]
    OBVIOUS
  <1> HIDE DEF f
  <1>6. f = Turns(f)
    <2>1. \A i \in 0..L : f[i] = IF i = 0 THEN 0 ELSE Turn(f[i - 1])
      BY <1>3, <1>4
    <2>2. f = [i \in 0..L |-> IF i = 0 THEN 0 ELSE Turn(f[i - 1])]
      BY <1>5, <2>1
    <2> QED BY <1>1, <2>2 DEF Turns
  <1>7. Offsets = CHOOSE h : h = Turns(h)
    BY DEF Offsets, Turns, Turn
  <1>8. Offsets = Turns(Offsets)
    BY <1>6, <1>7, Zenon
  <1>9. \A i \in 0..L : Turns(Offsets)[i] = IF i = 0 THEN 0 ELSE Turn(Offsets[i - 1])
    BY <1>1 DEF Turns
  <1> QED BY <1>8, <1>9 DEF L

\* After i turns the loop is at the end of the packet i places on.
LEMMA OffsetsAtEnds ==
    ASSUME CodecTypes, HandedOn(received, sent), NEW at, Laid(at), NEW n, FramesUpTo(at, n)
    PROVE  \A i \in 0..n : Offsets[i] = at[Size(received) + i]
  <1> DEFINE k == Size(received)
             T == {i \in 0..n : Offsets[i] # at[k + i]}
  <1>1. /\ Size(buffer) \in Nat /\ k \in Nat /\ n \in Nat /\ n <= Size(buffer)
        /\ at[k] = 0
    BY CodecTypeFacts DEF FramesUpTo, Laid, Layout
  <1>2. \A i \in 0..(n - 1) : HasFrame(at[k + i]) /\ FrameSeen(at, k + i)
    BY DEF FramesUpTo
  <1>3. \A i \in 0..Size(buffer) :
          Offsets[i] = IF i = 0 THEN 0 ELSE Turn(Offsets[i - 1])
    BY OffsetsTurn
  <1> HIDE DEF k
  <1> SUFFICES ASSUME T # {} PROVE FALSE
    BY DEF k
  <1>4. T \in SUBSET Nat
    BY <1>1
  <1>5. PICK i \in T : \A j \in T : i <= j
    <2> HIDE DEF T
    <2> QED BY <1>4, LeastNumber
  <1>6. i \in 0..n /\ Offsets[i] # at[k + i] /\ i \in 0..Size(buffer)
    BY <1>1, <1>5
  <1>7. i # 0
    <2> SUFFICES ASSUME i = 0 PROVE FALSE
      OBVIOUS
    <2>1. k + i = k
      BY <1>1
    <2> QED BY <1>1, <1>3, <1>6, <2>1
  <1>8. /\ i - 1 \in 0..n /\ i - 1 \in 0..(n - 1) /\ ~(i <= i - 1)
        /\ k + (i - 1) + 1 = k + i
    BY <1>1, <1>6, <1>7
  <1>9. Offsets[i - 1] = at[k + (i - 1)]
    <2>1. i - 1 \notin T
      <3> HIDE DEF T
      <3> QED BY <1>5, <1>8
    <2> QED BY <1>8, <2>1
  <1>10. /\ HasFrame(at[k + (i - 1)])
         /\ at[k + (i - 1)] + SizeAt(at[k + (i - 1)]) = at[k + i]
    BY <1>2, <1>8 DEF FrameSeen
  <1> HIDE DEF T
  <1>11. Offsets[i] = Turn(Offsets[i - 1])
    BY <1>3, <1>6, <1>7
  <1> QED BY <1>6, <1>9, <1>10, <1>11 DEF Turn

\* The loop ends at the first packet whose frame is not complete.
LEMMA DrainedFrames ==
    ASSUME CodecTypes, HandedOn(received, sent), NEW at, Laid(at), NEW n, FramesUpTo(at, n)
    PROVE  Drained = n
  <1> DEFINE k == Size(received)
             Ends(m) == ~HasFrame(Offsets[m]) /\ \A i \in 0..(m - 1) : HasFrame(Offsets[i])
  <1>1. Size(buffer) \in Nat /\ Len(buffer) = Size(buffer) /\ n \in Nat /\ n <= Size(buffer)
    BY CodecTypeFacts DEF FramesUpTo, Size
  <1>2. /\ ~HasFrame(at[k + n])
        /\ \A i \in 0..(n - 1) : HasFrame(at[k + i])
    BY DEF FramesUpTo
  <1>3. \A i \in 0..n : Offsets[i] = at[k + i]
    BY OffsetsAtEnds
  <1>4. ~HasFrame(Offsets[n])
    <2>1. n \in 0..n
      BY <1>1
    <2> QED BY <1>2, <1>3, <2>1
  <1>5. \A i \in 0..(n - 1) : HasFrame(Offsets[i])
    <2>1. \A i \in 0..(n - 1) : i \in 0..n
      BY <1>1
    <2> QED BY <1>2, <1>3, <2>1
  <1>6. Ends(n) /\ n \in 0..Size(buffer)
    BY <1>1, <1>4, <1>5
  <1>7. ASSUME NEW m \in 0..Size(buffer), Ends(m) PROVE m = n
    <2>1. ~(m \in 0..(n - 1)) /\ ~(n \in 0..(m - 1))
      BY <1>4, <1>5, <1>7
    <2> QED BY <1>1, <2>1
  <1>8. Drained = CHOOSE m \in 0..Size(buffer) : Ends(m)
    BY <1>1 DEF Drained
  <1> HIDE DEF Ends
  <1> QED BY <1>6, <1>7, <1>8

LEMMA DrainPacketsKeeps == CodecInv /\ DrainPackets => CodecInv'
  <1> SUFFICES ASSUME CodecInv, DrainPackets PROVE CodecInv'
    OBVIOUS
  <1>0. CodecTypes /\ HandedOn(received, sent)
    BY DEF CodecInv
  <1>1. PICK at : Laid(at)
    BY DEF CodecInv
  <1>2. PICK n : FramesUpTo(at, n)
    BY <1>0, <1>1, SomeFrames
  <1> DEFINE k == Size(received)
  <1>3. /\ Size(sent) \in Nat /\ k \in Nat /\ n \in Nat /\ k + n <= Size(sent)
        /\ head + at[k + n] <= Size(buffer)
    BY <1>0, <1>2, CodecTypeFacts DEF FramesUpTo
  <1>4. \A i \in 1..Size(sent) : sent[i] \in SentPackets
    BY <1>0, CodecTypeFacts
  <1>5. \A i \in 0..(n - 1) : HasFrame(at[k + i]) /\ FrameSeen(at, k + i)
    BY <1>2 DEF FramesUpTo
  <1>6. Drained = n
    BY <1>0, <1>1, <1>2, DrainedFrames
  <1>7. \A i \in 0..n : Offsets[i] = at[k + i]
    BY <1>0, <1>1, <1>2, OffsetsAtEnds
  <1>8. Offsets[n] = at[k + n] /\ k + n \in k..Size(sent)
    <2>1. n \in 0..n /\ k + n \in k..Size(sent)
      BY <1>3
    <2> QED BY <1>7, <2>1
  <1>9. CASE Malformed(Offsets[Drained]) /\ Throw
    <2>1. Malformed(at[k + n])
      BY <1>6, <1>8, <1>9
    <2>2. \E j \in 1..Size(sent) : sent[j].type = 0
      BY <1>0, <1>1, <1>8, <2>1, MalformedSent
    <2> QED BY <1>9, <2>2, ThrowKeeps
  <1>10. CASE Take([i \in 1..Drained |-> PacketAt(Offsets[i - 1])], Offsets[Drained])
    <2> DEFINE packets == [i \in 1..n |-> PacketAt(Offsets[i - 1])]
    <2>1. Take(packets, at[k + n])
      BY <1>6, <1>8, <1>10
    <2>2. ASSUME NEW i \in 1..n
          PROVE  packets[i] = sent[k + i] /\ sent[k + i].type = 1 /\ k + i \in 1..Size(sent)
      <3>1. /\ i - 1 \in 0..(n - 1) /\ i - 1 \in 0..n /\ k + (i - 1) + 1 = k + i
            /\ k + i \in 1..Size(sent)
        BY <1>3
      <3>2. packets[i] = PacketAt(at[k + (i - 1)])
        BY <1>7, <3>1
      <3>3. PacketAt(at[k + (i - 1)]) = sent[k + i] /\ sent[k + i].type = 1
        BY <1>5, <3>1 DEF FrameSeen
      <3> QED BY <3>1, <3>2, <3>3
    <2>3. packets \in Seq(SentPackets) /\ Size(packets) = n
      <3>1. packets \in [1..n -> SentPackets]
        BY <1>4, <2>2
      <3> HIDE DEF packets
      <3> QED BY <1>3, <3>1 DEF Size
    <2> HIDE DEF packets
    <2>4. NextPackets(packets, k + n)
      <3>1. (k + n) - k = n
        BY <1>3
      <3>2. ASSUME NEW i \in (k + 1)..(k + n)
            PROVE  packets[i - k] = sent[i] /\ sent[i].type = 1
        <4>1. i - k \in 1..n /\ k + (i - k) = i
          BY <1>3
        <4>2. packets[i - k] = sent[k + (i - k)] /\ sent[k + (i - k)].type = 1
          BY <2>2, <4>1
        <4> QED BY <4>1, <4>2
      <3> QED BY <2>3, <3>1, <3>2 DEF NextPackets
    <2> QED BY <1>1, <1>3, <1>8, <2>1, <2>4, TakeKeeps
  <1> QED BY <1>9, <1>10 DEF DrainPackets

-----------------------------------------------------------------------------
LEMMA CodecInitInv == CodecInit => CodecInv
  <1> SUFFICES ASSUME CodecInit PROVE CodecInv
    OBVIOUS
  <1>1. /\ wire = <<>> /\ buffer = <<>> /\ head = 0
        /\ sent = <<>> /\ received = <<>> /\ failed = FALSE
    BY DEF CodecInit
  <1>2. Size(wire) = 0 /\ Size(buffer) = 0 /\ Size(sent) = 0 /\ Size(received) = 0
    BY <1>1 DEF Size
  <1>3. CodecTypes
    <2>1. wire \in Bytes /\ buffer \in Bytes
      BY <1>1 DEF Bytes
    <2>2. sent \in Seq(SentPackets) /\ received \in Seq(SentPackets)
      BY <1>1
    <2>3. head = 0 /\ failed \in BOOLEAN
      BY <1>1
    <2>4. head \in Nat /\ head <= Size(buffer)
      BY <1>2, <2>3
    <2> QED BY <2>1, <2>2, <2>3, <2>4 DEF CodecTypes
  <1>4. HandedOn(received, sent)
    BY <1>2 DEF HandedOn
  <1>5. ErrorIsJustified
    BY <1>1 DEF ErrorIsJustified
  <1>6. LittleWaste
    BY <1>1, BaseType DEF LittleWaste
  <1> DEFINE at == [i \in 0..0 |-> 0]
  <1>7. Laid(at)
    <2>1. UnreadOf(buffer, head, wire) = 0
      BY <1>1, <1>2 DEF UnreadOf
    <2>2. at \in [0..0 -> Nat] /\ at[0] = 0 /\ \A i \in 0..0 : i = 0
      OBVIOUS
    <2> HIDE DEF at
    <2>3. \A i, j \in 0..0 : i <= j => at[i] + (j - i) <= at[j]
      BY <2>2
    <2>4. 0..(0 - 1) = {}
      OBVIOUS
    <2>5. \A s : Layout(s, 0, sent, 0, at)
      BY <1>2, <2>2, <2>3, <2>4 DEF Layout
    <2> QED BY <1>2, <2>1, <2>5 DEF Laid
  <1> QED BY <1>3, <1>4, <1>5, <1>6, <1>7 DEF CodecInv

LEMMA CodecNextInv == CodecInv /\ [CodecNext]_codecVars => CodecInv'
  <1> SUFFICES ASSUME CodecInv, [CodecNext]_codecVars PROVE CodecInv'
    OBVIOUS
  <1>1. CASE SendPacket
    BY <1>1, SendPacketKeeps
  <1>2. CASE SendGarbage
    BY <1>2, SendGarbageKeeps
  <1>3. CASE Feed
    BY <1>3, FeedKeeps
  <1>4. CASE PeekAndConsume
    BY <1>4, PeekAndConsumeKeeps
  <1>5. CASE DrainPackets
    BY <1>5, DrainPacketsKeeps
  <1>6. CASE UNCHANGED codecVars
    <2>1. CodecTypes' /\ HandedOn(received, sent)' /\ LittleWaste' /\ ErrorIsJustified'
      BY <1>6 DEF codecVars, CodecInv, CodecTypes, HandedOn, LittleWaste,
                  ErrorIsJustified, Garbage
    <2>2. \E at : Laid(at)'
      BY <1>6 DEF codecVars, CodecInv, Laid
    <2> QED BY <2>1, <2>2 DEF CodecInv
  <1> QED BY <1>1, <1>2, <1>3, <1>4, <1>5, <1>6 DEF CodecNext

LEMMA SamePackets ==
    ASSUME NEW S, NEW s \in Seq(S), NEW t \in Seq(S), Size(s) <= Size(t),
           \A i \in 1..Size(s) : s[i] = t[i]
    PROVE  IsPrefix(s, t) /\ (Size(s) = Size(t) => s = t)
  <1>1. IsPrefix(s, t)
    <2>1. Part(s, 0, Size(s)) = Part(t, 0, Size(s))
      BY DEF Size, Part
    <2> QED BY <2>1 DEF IsPrefix, Part, Size
  <1>2. Size(s) = Size(t) => s = t
    BY DEF Size
  <1> QED BY <1>1, <1>2

LEMMA InvReceivedIsSent == CodecInv => ReceivedIsSent
  <1> SUFFICES ASSUME CodecInv PROVE ReceivedIsSent
    OBVIOUS
  <1>0. CodecTypes /\ HandedOn(received, sent)
    BY DEF CodecInv
  <1>1. PICK at : Laid(at)
    BY DEF CodecInv
  <1> DEFINE k == Size(received)
             z == Size(sent)
  <1>2. /\ z \in Nat /\ k \in Nat /\ k <= z /\ Size(buffer) \in Nat /\ head \in Nat
        /\ UnreadOf(buffer, head, wire) = Size(buffer) - head + Size(wire)
        /\ UnreadOf(buffer, head, wire) \in Nat
        /\ sent \in Seq(SentPackets) /\ received \in Seq(SentPackets)
    BY <1>0, CodecTypeFacts DEF CodecTypes
  <1>3. \A i \in 1..k : received[i] = sent[i] /\ sent[i].type = 1
    BY <1>0 DEF HandedOn
  <1>4. IsPrefix(received, sent) /\ (k = z => received = sent)
    BY <1>2, <1>3, SamePackets
  <1>5. ASSUME NEW i \in Garbage PROVE Len(received) < i
    <2>1. i \in 1..z /\ sent[i].type = 0
      BY <1>2 DEF Garbage, Size
    <2>2. ~(i \in 1..k)
      BY <1>3, <2>1
    <2>3. k < i
      BY <1>2, <2>1, <2>2
    <2> QED BY <2>3 DEF Size
  <1>6. ASSUME wire = <<>>, ~HasFrame(0), ~Malformed(0) PROVE k = z
    <2> SUFFICES ASSUME k # z PROVE FALSE
      OBVIOUS
    <2>1. /\ k \in k..(z - 1) /\ k + 1 \in k..z /\ z \in k..z /\ k + 1 <= z
      BY <1>2
    <2>2. /\ at[k] = 0 /\ at[z] = UnreadOf(buffer, head, wire)
          /\ \A i \in k..z : at[i] \in Nat
          /\ \A i, j \in k..z : i <= j => at[i] + (j - i) <= at[j]
      BY <1>1 DEF Laid, Layout
    <2>3. at[k + 1] \in Nat /\ at[k + 1] + (z - (k + 1)) <= at[z]
      BY <2>1, <2>2
    <2>4. Size(wire) = 0
      BY <1>6 DEF Size
    <2>5. head + at[k + 1] <= Size(buffer)
      <3>1. z - (k + 1) \in Nat
        BY <1>2, <2>1
      <3>2. UnreadOf(buffer, head, wire) = Size(buffer) - head + 0
        BY <1>2, <2>4
      <3>3. at[z] = Size(buffer) - head + 0
        BY <2>2, <3>2
      <3> HIDE DEF k, z
      <3> QED BY <1>2, <2>3, <3>1, <3>3
    <2>6. FrameSeen(at, k)
      BY <1>0, <1>1, <2>1, AtFrame
    <2> QED BY <1>6, <2>2, <2>5, <2>6 DEF FrameSeen
  <1> QED BY <1>4, <1>5, <1>6 DEF ReceivedIsSent

\* However the stream is cut up, the bytes that have not been handed on are the
\* frames of the packets that have not been handed on.
THEOREM CodecInvariant == CodecSpec => []CodecInv
  BY CodecInitInv, CodecNextInv, PTL DEF CodecSpec

\* However the stream is cut up and compacted, peeked at or drained, the packets
\* handed on are the ones sent, in order and unchanged, up to the first malformed
\* header; and none is missing when the stream is used up.
THEOREM CodecHandsOnWhatWasSent == CodecSpec => []ReceivedIsSent
  BY CodecInvariant, InvReceivedIsSent, PTL

\* The codec throws a ProtocolError only when a malformed header was sent: it
\* never takes the bytes of one packet for the header of another.
THEOREM CodecErrorsAreJustified == CodecSpec => []ErrorIsJustified
  <1>1. CodecInv => ErrorIsJustified
    BY DEF CodecInv
  <1> QED BY <1>1, CodecInvariant, PTL

\* compactConsumedPrefix keeps the consumed bytes below the threshold or below
\* those that are still to be read.
THEOREM CodecWastesLittle == CodecSpec => []LittleWaste
  <1>1. CodecInv => LittleWaste
    BY DEF CodecInv
  <1> QED BY <1>1, CodecInvariant, PTL
=============================================================================
