-------------------------- MODULE MCReadingSession --------------------------
(***************************************************************************)
(* Instances of ReadingSession for TLC.                                    *)
(***************************************************************************)
EXTENDS ReadingSession, TLC

CONSTANTS b1, b2, l3

OneBook == {b1}
TwoBooks == {b1, b2}

\* The lease l3, where there is one, is of the other book.
OfBoth == [l \in Leases |-> IF l = l3 THEN b2 ELSE b1]
AllCallers == {"leave", "hide"} \cup Opens
Interchangeable == Permutations(Leases \ {l3}) \cup Permutations(Positions)

Happened == turn[b1] + turn[b2] + remote + faults

\* The second book was never touched.
OnlyFirst ==
  /\ turn[b2] = 0 /\ versions[b2] = {} /\ session[l3] = None /\ view # b2
  /\ \A o \in Opens : opening[o] # None => opening[o].book # b2

\* Bound: page turns, arrivals and failures together.  With both books there is
\* one; with the first there are three, two page turns beside an arrival only
\* while the book is displayed.
Explored ==
  \/ Happened <= 1
  \/ /\ OnlyFirst /\ Happened <= 3
     /\ \/ turn[b1] <= 1
        \/ remote = 0
        \/ /\ faults = 0
           /\ view = b1 /\ leaving = None /\ \A o \in Opens : opening[o] = None

AllStamps == {None} \cup [by : {"own", "other"}, n : 0 .. 9]
=============================================================================
