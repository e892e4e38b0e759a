--------------------------- MODULE UserRepository ---------------------------
(***************************************************************************)
(* What rss::persistence::UserRepository promises of                        *)
(* findOrCreateByNormalizedName: a name gets one user, once and for ever; a  *)
(* request is answered at most once, with the user of its name or an error.  *)
(***************************************************************************)
EXTENDS Naturals

CONSTANTS Names, Requests, Errors

VARIABLES
    registry,  \* the user id of each name, 0 before it has one
    answers    \* the answer to each request: NoAnswer, a user or an error

NoAnswer == <<"none", 0>>
vars == <<registry, answers>>

Init ==
    /\ registry = [n \in Names |-> 0]
    /\ answers = [q \in Requests |-> NoAnswer]

\* A request is a pair of a name and a number.
Name(q) == q[1]

\* The name of a request has a user after the step: its own, or a new one.
HasUser(n) ==
    IF registry[n] # 0 THEN UNCHANGED registry
    ELSE \E id \in {registry'[n]} \ ({0} \cup {registry[m] : m \in Names}) :
           registry' = [registry EXCEPT ![n] = id]

\* An answer with the user; the user may be made with it or before it.
Serve(q) ==
    /\ answers[q] = NoAnswer
    /\ HasUser(Name(q))
    /\ \/ UNCHANGED answers
       \/ answers' = [answers EXCEPT ![q] = <<"user", registry'[Name(q)]>>]

\* An error; the user may have been made, the connection being lost afterwards.
Fail(q) ==
    /\ answers[q] = NoAnswer
    /\ UNCHANGED registry \/ HasUser(Name(q))
    /\ \E e \in Errors : answers' = [answers EXCEPT ![q] = <<e, 0>>]

Next == \E q \in Requests : Serve(q) \/ Fail(q)

Spec == Init /\ [][Next]_vars
=============================================================================
