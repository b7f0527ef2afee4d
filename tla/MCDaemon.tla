------------------------------ MODULE MCDaemon ------------------------------
(***************************************************************************)
(* Daemon for TLC: the requests are interchangeable.                        *)
(***************************************************************************)
EXTENDS Daemon, TLC

Symmetry == Permutations(Reqs)

=============================================================================
