------------------------------- MODULE Outbox --------------------------------
(***************************************************************************)
(* What the write path of the Firestore client promises: the writes of a   *)
(* user wait in an outbox; the backend commits them in the order they were *)
(* issued, and a write leaves its outbox only when it is the oldest there  *)
(* and the backend has committed or refused it.                            *)
(***************************************************************************)
EXTENDS Naturals, Sequences

CONSTANTS Users

VARIABLES outbox, applied, refused, written

vars == <<outbox, applied, refused, written>>

Init ==
  /\ outbox = [u \in Users |-> <<>>]
  /\ applied = {}
  /\ refused = {}
  /\ written = 0

Submit(u) ==
  /\ written' = written + 1
  /\ outbox' = [outbox EXCEPT ![u] = Append(@, written + 1)]
  /\ UNCHANGED <<applied, refused>>

\* The backend commits the first n writes of an outbox.
Commit(u, n) ==
  /\ applied' = applied \cup {outbox[u][i] : i \in 1 .. n}
  /\ UNCHANGED <<outbox, refused, written>>

\* A write is refused after the ones before it were committed.
Refuse(u, n) ==
  /\ \A i \in 1 .. n - 1 : outbox[u][i] \in applied
  /\ refused' = refused \cup {outbox[u][n]}
  /\ UNCHANGED <<outbox, applied, written>>

Settle(u) ==
  /\ outbox[u] # <<>>
  /\ Head(outbox[u]) \in applied \cup refused
  /\ outbox' = [outbox EXCEPT ![u] = Tail(@)]
  /\ UNCHANGED <<applied, refused, written>>

Next ==
  \E u \in Users :
    \/ Submit(u)
    \/ \E n \in 0 .. Len(outbox[u]) : Commit(u, n)
    \/ \E n \in 1 .. Len(outbox[u]) : Refuse(u, n)
    \/ Settle(u)

Spec == Init /\ [][Next]_vars
==============================================================================
