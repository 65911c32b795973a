------------------------------ MODULE AtomicFile ------------------------------
(***************************************************************************)
(* What the processes that share a store file may rely on: updates take    *)
(* effect one at a time and for good, and an update that was confirmed to  *)
(* its caller is in the file.                                              *)
(***************************************************************************)
CONSTANT Updates

VARIABLES
  content,    \* the updates the file holds
  confirmed   \* the updates whose caller was told that they took effect

Init == content = {} /\ confirmed = {}

Apply(u) ==
  /\ u \notin content
  /\ content' = content \union {u}
  /\ UNCHANGED confirmed

Confirm(u) ==
  /\ u \in content
  /\ confirmed' = confirmed \union {u}
  /\ UNCHANGED content

Next == \E u \in Updates : Apply(u) \/ Confirm(u)

Spec == Init /\ [][Next]_<<content, confirmed>>
==============================================================================
