------------------------------ MODULE ReadModel -----------------------------
(***************************************************************************)
(* What the projector promises (README.md, "Consistency Model"): the log   *)
(* of service events is append-only, the read model is at every moment the *)
(* projection, event by event and in log order, of a prefix of the log,    *)
(* and every event that is logged is projected in the end.                 *)
(***************************************************************************)
EXTENDS ReadModelStore

VARIABLES
  rows,     (* the events of service_events, in log_id order *)
  applied,  (* how many of them have been projected          *)
  view      (* the read model                                *)

vars == <<rows, applied, view>>

Init == rows = <<>> /\ applied = 0 /\ view = EmptyView

Insert(e) ==
  /\ \A i \in 1..Len(rows) : rows[i] # e
  /\ rows' = Append(rows, e)
  /\ UNCHANGED <<applied, view>>

CatchUp(n) ==
  /\ n \in (applied + 1)..Len(rows)
  /\ applied' = n
  /\ view' = LET after[k \in applied..n] ==
                   IF k = applied THEN view ELSE Project(after[k - 1], rows[k])
             IN  after[n]
  /\ UNCHANGED rows

Next ==
  \/ \E e \in Events : Insert(e)
  \/ \E n \in 1..Len(rows) : CatchUp(n)

Spec == Init /\ [][Next]_vars /\ WF_vars(\E n \in 1..Len(rows) : CatchUp(n))
=============================================================================
