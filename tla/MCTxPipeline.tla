---------------------------- MODULE MCTxPipeline ----------------------------
(***************************************************************************)
(* An instance of TxPipeline: two users, a proposer, sends to users, to    *)
(* the proposer, to governance and to a blocked module account, nested and *)
(* undecodable execs, and transactions that offer too little at the higher *)
(* price.                                                                  *)
(***************************************************************************)
EXTENDS TxPipeline

Send(a, n) == [type |-> "send", to |-> a, amount |-> n, inner |-> None]
Exec(b) == [type |-> "exec", to |-> None, amount |-> 0, inner |-> b]
Vote == [type |-> "vote", to |-> None, amount |-> 0, inner |-> None]

AllTypes == {"send", "exec", "vote"}
AllUsers == {"alice", "bob"}
AllAccounts == AllUsers \cup {"proposer", "fee_collector",
  "feemarket-fee-collector", "distribution", "gov"}

AllContents ==
  [pay      |-> <<Send("bob", 1), Send("proposer", 1)>>,
   vote     |-> <<Vote>>,
   nested   |-> <<Exec("inner"), Send("gov", 1)>>,
   inner    |-> <<Exec("vote"), Exec("pay")>>,
   refused  |-> <<Send("alice", 1), Exec("deep")>>,
   deep     |-> <<Send("feemarket-fee-collector", 1)>>,
   broken   |-> <<Send("alice", 1), Exec(None)>>]
AllBodies == DOMAIN AllContents
AllDepths ==
  [pay |-> 0, vote |-> 0, nested |-> 2, inner |-> 1, refused |-> 1, deep |-> 0,
   broken |-> 1]

T(u, s, f, g, b) == [signer |-> u, seq |-> s, fee |-> f, gas |-> g, body |-> b]
SomeTxs ==
  {T("alice", 0, 2, 1, "pay"), T("alice", 0, 4, 2, "nested"),
   T("alice", 1, 1, 1, "vote"), T("alice", 1, 5, 2, "pay"),
   T("bob", 0, 4, 2, "refused"), T("bob", 0, 2, 1, "broken"),
   T("bob", 1, 4, 2, "nested")}
SomePrices == {1, 2}
=============================================================================
