-------------------------- MODULE MCTransferStack --------------------------
(***************************************************************************)
(* Instances of TransferStack with two channels, one of them limited.      *)
(***************************************************************************)
EXTENDS TransferStack, TLC

CONSTANTS a, b
=============================================================================
