------------------------------ MODULE PageStore ------------------------------
(***************************************************************************)
(* What the SPI memory delivers: pages that can be written once.  A page    *)
(* that is not blank keeps what it holds until the chip is wiped, except    *)
(* the rewritable ones.  All of this until a rewrite of a sector is cut     *)
(* short; then nothing is promised any more.                               *)
(***************************************************************************)
EXTENDS Naturals

CONSTANTS Pages, Rewritable, Blank

VARIABLES store, cut    \* contents of the pages; whether a rewrite was cut short

Init == store = [p \in Pages |-> Blank] /\ cut = 0

Write(p) ==
  /\ store[p] = Blank \/ p \in Rewritable
  /\ \A q \in Pages \ {p} : store'[q] = store[q]

Wipe == store' = [p \in Pages |-> Blank]

Next ==
  \/ cut = 0 /\ cut' = 0 /\ (Wipe \/ \E p \in Pages : Write(p))
  \/ cut' = 1

Spec == Init /\ [][Next]_<<store, cut>>
=============================================================================
