--------------------------- MODULE SharedHistory ---------------------------
(***************************************************************************)
(* What cloud synchronisation promises, without files or requests: devices *)
(* write events, share some of what they know, and learn some of what is   *)
(* shared.  Nothing shared is ever withdrawn, and a device learns another  *)
(* device's event from the shared history only.                            *)
(***************************************************************************)
CONSTANTS Devices, Events

VARIABLES
  written,   \* the events written so far
  shared,    \* the events every device can read
  known      \* device -> the events it wrote or learned

vars == <<written, shared, known>>

Init ==
  /\ written = {}
  /\ shared = {}
  /\ known = [d \in Devices |-> {}]

Write(d, e) ==
  /\ e \notin written
  /\ written' = written \cup {e}
  /\ known' = [known EXCEPT ![d] = @ \cup {e}]
  /\ UNCHANGED shared

Share(d) ==
  /\ \E S \in SUBSET known[d] : shared' = shared \cup S
  /\ UNCHANGED <<written, known>>

Learn(d) ==
  /\ \E S \in SUBSET shared : known' = [known EXCEPT ![d] = @ \cup S]
  /\ UNCHANGED <<written, shared>>

Next ==
  \E d \in Devices : Share(d) \/ Learn(d) \/ \E e \in Events : Write(d, e)

Spec == Init /\ [][Next]_vars
=============================================================================
