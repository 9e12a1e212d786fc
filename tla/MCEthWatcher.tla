---------------------------- MODULE MCEthWatcher ----------------------------
(***************************************************************************)
(* EthWatcher for TLC; the configurations give the bounds.                 *)
(***************************************************************************)
EXTENDS EthWatcher

=============================================================================
