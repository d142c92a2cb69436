------------------------------- MODULE MCWeb -------------------------------
(***************************************************************************)
(* Every screen, each opened by a user of every role that differs on it.   *)
(***************************************************************************)
EXTENDS Web

AllAddresses == DOMAIN Screens

AnyEditor == Permutations(Editors)
=============================================================================
