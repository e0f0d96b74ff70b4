----------------------- MODULE MCLibraryOrganization -----------------------
(***************************************************************************)
(* An instance of LibraryOrganization for TLC.                             *)
(***************************************************************************)
EXTENDS LibraryOrganization, TLC, FiniteSets

Interchangeable == Permutations(Folders) \cup Permutations(Books)

\* A bound on the length of histories.  Marks and folders do not meet in a
\* register, and the long histories are of folders, with all books on the shelf and
\* one import of a device at a time.
Marks == {e \in events : e.key.field = "favorite"}
FewEvents ==
  /\ Cardinality(events) <= 3
  /\ Marks = {} \/ (Marks = events /\ Cardinality(events) <= 2)
  /\ Cardinality(events) = 3 => \A d \in Devices : known[d] = Books
  /\ \A d \in Devices : job[d] # None /\ plan[d] # None => Cardinality(events) <= 2
=============================================================================
