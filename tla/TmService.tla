------------------------------ MODULE TmService ------------------------------
(***************************************************************************)
(* What the downlink of telemetry promises: packets are numbered in the     *)
(* order they are stored; the oldest pending one is delivered, at least     *)
(* once, and retired only after it has been delivered.  Nothing else ever   *)
(* reaches the receiver.                                                   *)
(***************************************************************************)
EXTENDS Naturals, Sequences

CONSTANT Numbers

VARIABLES pending, got

Init == pending = <<>> /\ got = <<>>

Submit(n) ==
  /\ \A i \in DOMAIN pending : pending[i] < n
  /\ \A i \in DOMAIN got : got[i] < n
  /\ pending' = Append(pending, n)
  /\ UNCHANGED got

Deliver ==
  /\ pending # <<>>
  /\ got' = Append(got, Head(pending))
  /\ UNCHANGED pending

Retire ==
  /\ pending # <<>>
  /\ \E i \in DOMAIN got : got[i] = Head(pending)
  /\ pending' = Tail(pending)
  /\ UNCHANGED got

Next == Deliver \/ Retire \/ \E n \in Numbers : Submit(n)

Spec == Init /\ [][Next]_<<pending, got>>
=============================================================================
