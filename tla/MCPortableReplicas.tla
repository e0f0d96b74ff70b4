------------------------- MODULE MCPortableReplicas -------------------------
(***************************************************************************)
(* Instances of PortableReplicas for TLC: the progress of the book, and    *)
(* one note.                                                               *)
(***************************************************************************)
EXTENDS PortableReplicas, FiniteSets

CONSTANTS progress, note, s1, s2, s3

ProgressOnly == {progress}
Both == {progress, note}

\* One session per device, and one device with two.
OneEach == [s \in Sessions |-> IF s = s1 THEN 1 ELSE IF s = s2 THEN 2 ELSE 3]
TwoOnFirst == [s \in Sessions |-> IF s \in {s1, s2} THEN 1 ELSE 2]

\* Bounds on the length of histories, where counters alone leave too many; long
\* ones of both kinds of record at once add nothing.
FewEvents == Cardinality(events) <= 4
OneKind ==
  \/ Cardinality(events) <= 2
  \/ \E e \in Entities : \A x \in events : x.entity = e
=============================================================================
