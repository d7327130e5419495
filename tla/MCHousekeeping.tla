---------------------------- MODULE MCHousekeeping ----------------------------
(* Instances of Housekeeping for TLC.                                       *)
EXTENDS Housekeeping

(* Two SSMs with a parameter each, and the OBC's own between them.           *)
MCSsms == <<<<1>>, <<3>>>>
=============================================================================
