------------------------------ MODULE MCDaemon ------------------------------
(***************************************************************************)
(* Constants of the Daemon runs: a release with one script, a daemon with  *)
(* the scan loop, the drain and the command loop, and `blesentry init`.    *)
(***************************************************************************)
EXTENDS Daemon

MCReleased == <<"first">>
MCBootPlan == <<"scan", "migrate", "drain", "familiar", "cmd">>

=============================================================================
