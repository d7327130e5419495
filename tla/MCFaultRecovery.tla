-------------------------- MODULE MCFaultRecovery --------------------------
(***************************************************************************)
(* Small instances of FaultRecovery: a few reports, chosen so that each case *)
(* of decode_error and each resolution sequence is reached by one of them.   *)
(***************************************************************************)
EXTENDS FaultRecovery

R(t, c, e) == [task |-> t, code |-> c, error |-> e]
C(n, a) == [name |-> n, arg |-> a]

(* What spimem.c reports, and a report with which errorASSERT waits.          *)
MCAsserts == {R("spimem", 0, 17), R("mem", 0, 19)}
MCReports == {R("sched", 0, 4)}

(* Errors that begin with each kind of sequence.                             *)
MCSsmAsserts == {R("sched", 254, 1), R("sched", 253, 1), R("sched", 0, 5),
                 R("eps", 0, 10), R("mem", 0, 11), R("eps", 0, 24),
                 R("opr", 0, 29), R("eps", 1, 33)}

MCCommands == {C("EXIT_SAFE_MODE", NoTask), C("RESET_TASK", "sched"),
               C("setVariable", "health")}
=============================================================================
