------------------------------ MODULE MCStartup ------------------------------
(***************************************************************************)
(* An instance of Startup for TLC: two candidates, and a directory that    *)
(* lists another contract with "relay" in its name before one of them.     *)
(***************************************************************************)
EXTENDS Startup

TwoCandidates == <<"relayRegistry", "RelayRegistry">>

TwoRelayNames == <<"relayHub", "RelayRegistry">>

=============================================================================
