------------------------- MODULE UpgradeRefinement -------------------------
(***************************************************************************)
(* Upgrade implements ChainUpgrade: the state of the one machine is the    *)
(* one the most advanced node committed.                                   *)
(***************************************************************************)
EXTENDS UpgradeInv

\* A node that committed as many blocks as any other.
Front == CHOOSE n \in Nodes : \A m \in Nodes : Height(m) <= Height(n)

Chain == INSTANCE ChainUpgrade WITH
  height <- Tip(Front).height,
  plan   <- Tip(Front).plan,
  done   <- Tip(Front).done,
  code   <- Tip(Front).code,
  layout <- Tip(Front).schema

\* Crashes, restarts, halts, lagging nodes and binary swaps are invisible:
\* every step of the network is one block of the abstract chain or no step
\* at all (NewEnokiApp, PreBlocker, RegisterUpgradeHandlers, ExecuteUpgrade).
OneChain == Chain!Spec
=============================================================================
