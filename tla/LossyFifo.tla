----------------------------- MODULE LossyFifo ------------------------------
(***************************************************************************)
(* What the bridge promises about the requests that postRequest accepts:   *)
(* they may be lost, but the sidecars handle each at most once and in the  *)
(* order they were posted, except that an urgent request may overtake the  *)
(* ordinary ones before it.  Requests are numbered as they are posted, so  *)
(* a set of numbers is the queue in transit.                               *)
(***************************************************************************)
EXTENDS Naturals, Sequences

CONSTANT MaxPosts  \* bound: requests posted

VARIABLES posted, inFlight, urgent, handled

vars == <<posted, inFlight, urgent, handled>>

TypeOK ==
  /\ posted \in 0..MaxPosts
  /\ inFlight \subseteq 1..posted
  /\ urgent \subseteq 1..posted
  /\ handled \in Seq(1..posted)

Init == posted = 0 /\ inFlight = {} /\ urgent = {} /\ handled = <<>>

(* Request a may be handled while b is still to come. *)
Before(a, b) == a < b \/ (a \in urgent /\ b \notin urgent)

(* A request enters; older ones may be dropped to make room. *)
Post ==
  /\ posted < MaxPosts
  /\ posted' = posted + 1
  /\ \E kept \in SUBSET inFlight :
       inFlight' = kept \/ inFlight' = kept \cup {posted + 1}
  /\ urgent' = urgent \/ urgent' = urgent \cup {posted + 1}
  /\ UNCHANGED handled

(* Frames are lost with a connection or a process. *)
Lose ==
  /\ inFlight' \subseteq inFlight
  /\ UNCHANGED <<posted, urgent, handled>>

(* A request that comes before all others in transit is handled. *)
Handle ==
  \E id \in inFlight :
    /\ \A other \in inFlight \ {id} : Before(id, other)
    /\ inFlight' = inFlight \ {id}
    /\ handled' = Append(handled, id)
    /\ UNCHANGED <<posted, urgent>>

Next == Post \/ Lose \/ Handle

Spec == Init /\ [][Next]_vars

(* Handled at most once each, in the order posted but for the urgent. *)
HandledInOrder ==
  \A m, n \in 1..Len(handled) : m < n => Before(handled[m], handled[n])

=============================================================================
