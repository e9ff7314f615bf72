-------------------------- MODULE MCGenesisExport --------------------------
(***************************************************************************)
(* Instances of GenesisExport: two validators with a self-delegation each. *)
(***************************************************************************)
EXTENDS GenesisExport

CONSTANTS v1, v2, d1, d2, other, garbage
SelfDelegations == {dl \in {<<d1, v1>>, <<d2, v2>>} : dl[2] \in Validators}
NoAllowList == {{}}
\* No list, a validator, an address of none, and a list with a broken entry.
SomeAllowLists == {{}, {v1}, {other}, {v1, garbage}}
=============================================================================
