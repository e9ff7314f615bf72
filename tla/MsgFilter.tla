----------------------------- MODULE MsgFilter -----------------------------
(***************************************************************************)
(* The messages of a transaction and the filter over them that             *)
(* app/decorators offers.  A message of type "exec" is an authz MsgExec:   *)
(* it carries a body of messages of its own, to any depth.                 *)
(***************************************************************************)
EXTENDS Naturals, Sequences, SequencesExt

CONSTANTS
  MsgTypes,  \* message type names; "send" and "exec" are among them
  Accounts,  \* the accounts of the bank
  Body,      \* names of bodies
  None,      \* no account, or the body of an exec that is no message
  Content,   \* Content[b]: the messages of body b, in order
  Depth      \* Depth[b]: how deep the execs of body b nest

Message ==
  [type : MsgTypes, to : Accounts \cup {None}, amount : Nat,
   inner : Body \cup {None}]

ASSUME MessagesAssumption ==
  /\ {"send", "exec"} \subseteq MsgTypes
  /\ Content \in [Body -> Seq(Message)]
  /\ \A b \in Body : \A i \in DOMAIN Content[b] :
       LET m == Content[b][i] IN
       IF m.type = "send" THEN m.to \in Accounts ELSE m.to = None /\ m.amount = 0

\* A message is a finite tree: the bodies in its execs nest less deep.
ASSUME NestingAssumption ==
  /\ Depth \in [Body -> Nat]
  /\ \A b \in Body : \A i \in DOMAIN Content[b] :
       LET m == Content[b][i] IN
       m.type = "exec" /\ m.inner # None => Depth[m.inner] < Depth[b]

\* The messages a body executes, an exec before the messages inside it.
Unfolded ==
  LET Unfold[b \in Body] ==
        FlattenSeq([i \in DOMAIN Content[b] |->
          LET m == Content[b][i] IN
          IF m.type = "exec" /\ m.inner # None THEN <<m>> \o Unfold[m.inner]
          ELSE <<m>>])
  IN [b \in Body |-> Unfold[b]]

\* A transaction is only decoded when everything inside its execs is a message.
Decodes(b) ==
  \A i \in DOMAIN Unfolded[b] :
    Unfolded[b][i].type = "exec" => Unfolded[b][i].inner # None

\* Mutant: the filter looks into an exec, but not into an exec inside it.
HasDisallowedMessageShallow(blocked, b) ==
  LET Types(c) == {Content[c][i].type : i \in DOMAIN Content[c]} IN
  \/ Types(b) \cap blocked # {}
  \/ \E i \in DOMAIN Content[b] :
       LET m == Content[b][i] IN
       m.type = "exec" /\ (m.inner = None \/ Types(m.inner) \cap blocked # {})

\* Some message of the body, or of a body nested in it, has a blocked type.
\* An exec whose content is no message is refused whatever is blocked.
HasDisallowedMessage(blocked, b) ==
  LET Found[c \in Body] ==
        \E i \in DOMAIN Content[c] :
          LET m == Content[c][i] IN
          \/ m.type = "exec" /\ (m.inner = None \/ Found[m.inner])
          \/ m.type \in blocked
  IN Found[b]
=============================================================================
