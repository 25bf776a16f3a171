------------------------------ MODULE MCWallet ------------------------------
(***************************************************************************)
(* Wallet.tla for TLC.  Requests are interchangeable.                       *)
(***************************************************************************)
EXTENDS Wallet, TLC

ActorsAlike == Permutations(Actor)
=============================================================================
