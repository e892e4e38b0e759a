--------------------------- MODULE SessionEvents ---------------------------
(***************************************************************************)
(* What the I/O thread promises the workers about the events of a session:  *)
(* the complete packets it received, in order, numbered from 0, then one     *)
(* Disconnected with the next number and nothing after it.  Frames behind a  *)
(* malformed one do not count.                                              *)
(***************************************************************************)
EXTENDS Naturals, Sequences

CONSTANT Ids

VARIABLES
    arrived,  \* frames received from each session: "packet" or "bad"
    stream    \* events handed to the workers

\* The packets before the first malformed frame.
Good(frames) ==
    LET bad == {i \in DOMAIN frames : frames[i] = "bad"} IN
    IF bad = {} THEN Len(frames)
    ELSE (CHOOSE i \in bad : \A j \in bad : i <= j) - 1

Ended(id) ==
    stream[id] # <<>> /\ stream[id][Len(stream[id])].kind = "Disconnected"

Init ==
    /\ arrived = [id \in Ids |-> <<>>]
    /\ stream = [id \in Ids |-> <<>>]

Arrive(id) ==
    /\ ~Ended(id)
    /\ Len(arrived'[id]) > Len(arrived[id])
    /\ SubSeq(arrived'[id], 1, Len(arrived[id])) = arrived[id]
    /\ arrived' = [arrived EXCEPT ![id] = arrived'[id]]
    /\ UNCHANGED stream

Deliver(id) ==
    /\ ~Ended(id) /\ Len(stream[id]) < Good(arrived[id])
    /\ stream' = [stream EXCEPT ![id] =
                    Append(@, [kind |-> "Packet", sequence |-> Len(@)])]
    /\ UNCHANGED arrived

End(id) ==
    /\ ~Ended(id) /\ Len(stream[id]) = Good(arrived[id])
    /\ stream' = [stream EXCEPT ![id] =
                    Append(@, [kind |-> "Disconnected", sequence |-> Len(@)])]
    /\ UNCHANGED arrived

Next == \E id \in Ids : Arrive(id) \/ Deliver(id) \/ End(id)

Spec == Init /\ [][Next]_<<arrived, stream>>
=============================================================================
