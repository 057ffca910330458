------------------------------ MODULE MCDaemon ------------------------------
(* Connections and pids are interchangeable: no safety property names one. *)
EXTENDS Daemon, TLC

Symmetry == Permutations(Conn) \cup Permutations(Pid)
=============================================================================
