------------------------------ MODULE TcService ------------------------------
(***************************************************************************)
(* What telecommand reception promises, seen from the ground: transfers    *)
(* are numbered in the order COMS makes them, and commands are decoded in   *)
(* the order they were sent.  A transfer may be refused or skipped, never   *)
(* overtaken, and it is decoded once as long as no word was dropped on the  *)
(* way: after that, word pairs may be out of step for good, and the end of   *)
(* one transfer may close two packets.                                      *)
(***************************************************************************)
EXTENDS Naturals, Sequences

CONSTANT Transfers         \* numbers of the transfers COMS may make

VARIABLES queue, done,     \* accepted and not yet decoded; decoded
          dropped          \* 1 after a word was dropped

Init == queue = <<>> /\ done = <<>> /\ dropped = 0

(* t is later than u, or closes a second packet after a word was dropped.   *)
NotBefore(t, u) == u < t \/ (u = t /\ dropped = 1)

(* Transfer t is accepted: nothing accepted so far comes after it.          *)
Accept(t) ==
  /\ \A i \in DOMAIN queue : NotBefore(t, queue[i])
  /\ \A i \in DOMAIN done : NotBefore(t, done[i])
  /\ queue' = Append(queue, t)
  /\ UNCHANGED <<done, dropped>>

Decode ==
  /\ queue # <<>>
  /\ queue' = Tail(queue)
  /\ done' = Append(done, Head(queue))
  /\ UNCHANGED dropped

Drop ==
  /\ dropped = 0
  /\ dropped' = 1
  /\ UNCHANGED <<queue, done>>

Next == Decode \/ Drop \/ \E t \in Transfers : Accept(t)

Spec == Init /\ [][Next]_<<queue, done, dropped>>
=============================================================================
