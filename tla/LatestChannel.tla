--------------------------- MODULE LatestChannel ---------------------------
(***************************************************************************)
(* What the reading-progress writer promises, without lanes, timers,       *)
(* retries or checkpoints: the positions of a book are offered one after   *)
(* the other, some of them are delivered, never an older one after a newer *)
(* one, and a caller is told "saved" of a session only when the last       *)
(* position that the session offered is delivered, or a newer one is.      *)
(***************************************************************************)
EXTENDS Naturals

CONSTANTS Books, Leases, Callers, BookOf, None

VARIABLES
  offered,    \* how many positions of a book were offered so far
  delivered,  \* the number of the last one that was delivered
  latest,     \* the number of the last one that a session offered
  verdict     \* what a caller was told of the session it asked about

vars == <<offered, delivered, latest, verdict>>

Init ==
  /\ offered = [b \in Books |-> 0]
  /\ delivered = [b \in Books |-> 0]
  /\ latest = [l \in Leases |-> 0]
  /\ verdict = [c \in Callers |-> None]

\* A position is offered by a session, or kept for the next one, which offers
\* it again.
Offer(b) ==
  /\ \E n \in {offered[b], offered[b] + 1} :
       /\ offered' = [offered EXCEPT ![b] = n]
       /\ \/ latest' = latest
          \/ \E l \in Leases : BookOf[l] = b /\ latest' = [latest EXCEPT ![l] = n]
  /\ UNCHANGED <<delivered, verdict>>

\* Positions may be skipped; none is delivered after a newer one.
Deliver(b) ==
  /\ \E n \in delivered[b] .. offered[b] : delivered' = [delivered EXCEPT ![b] = n]
  /\ UNCHANGED <<offered, latest, verdict>>

\* Callers that asked about a session are told, each of them "saved" or "failed".
Report(l) ==
  /\ \A c \in Callers :
       \/ verdict'[c] = verdict[c]
       \/ verdict'[c] = [lease |-> l, status |-> "failed"]
       \/ /\ verdict'[c] = [lease |-> l, status |-> "saved"]
          /\ latest[l] <= delivered[BookOf[l]]
  /\ UNCHANGED <<offered, delivered, latest>>

\* Sessions end and callers go on.
Forget ==
  /\ \A l \in Leases : latest'[l] \in {latest[l], 0}
  /\ \A c \in Callers : verdict'[c] \in {verdict[c], None}
  /\ UNCHANGED <<offered, delivered>>

Next ==
  \/ Forget
  \/ \E b \in Books : Offer(b) \/ Deliver(b)
  \/ \E l \in Leases : Report(l)

Spec == Init /\ [][Next]_vars
=============================================================================
