--------------------------- MODULE TransferStack ---------------------------
(***************************************************************************)
(* ICS20 transfers through the middleware app/app.go assembles: rate       *)
(* limit, packet forward (PFM), callbacks and transfer on the way in, and  *)
(* on the way out whatever the sender's copy of the transfer keeper was    *)
(* given as ICS4 wrapper.  Enoki is the chain in the middle; a channel     *)
(* also names the chain at its other end and that chain's own token.       *)
(* Relayers deliver packets and acknowledgements in any order.             *)
(***************************************************************************)
EXTENDS Integers, Sequences, FiniteSets, Functions

CONSTANTS
  Channels,
  Native,       \* Enoki's own token
  None,
  Limited,      \* the channels with a rate limit for the native token
  Quota,        \* what may leave or enter a limited channel, net, per window
  Blacklisted,  \* denominations the rate limit module refuses
  Amounts,      \* amounts of transfers
  Destinations, \* where a packet to Enoki may ask to be forwarded, or None
  Retries,      \* the retries such a packet may ask for on timeout
  Seed,         \* tokens of each kind at home, and native ones abroad
  MaxPackets,   \* bound: packets sent by users, on any chain
  MaxResets     \* bound: windows of the rate limit

Denoms == Channels \cup {Native}

ASSUME TransferAssumption ==
  /\ IsFiniteSet(Channels) /\ Native \notin Channels /\ None \notin Channels
  /\ Limited \subseteq Channels /\ Blacklisted \subseteq Denoms
  /\ Destinations \subseteq Channels \cup {None}
  /\ Amounts \subseteq Nat \ {0} /\ Retries \subseteq Nat
  /\ Quota \in Nat /\ Seed \in Nat

VARIABLES
  bank,     \* held[d]: Enoki's users; escrow[c][d]: escrow account of channel c
  abroad,   \* abroad[c][d]: users of chain c
  locked,   \* locked[c]: what chain c holds in escrow for Enoki, of its token
  out,      \* packets Enoki sent and that are not acknowledged to it yet
  recv,     \* packets sent to Enoki and not acknowledged to their sender yet
  inflight, \* PFM's records of forwarded packets
  limit,    \* the rate limit's in[c] and out[c], the native token's flow in
            \* the window, and pending[c], the packets it may undo
  start,    \* start[c]: escrow[c][Native] at the start of the window
  nextId, users, resets

vars == <<bank, abroad, locked, out, recv, inflight, limit, start, nextId, users,
          resets>>

Packet == [id : Nat, chan : Channels, denom : Denoms, amount : Amounts,
           status : {"sent", "waiting", "ok", "error"}, to : Channels \cup {None},
           retries : Nat]

TypeOK ==
  /\ bank \in [held : [Denoms -> Nat], escrow : [Channels -> [Denoms -> Nat]]]
  /\ abroad \in [Channels -> [Denoms -> Nat]] /\ locked \in [Channels -> Nat]
  /\ out \subseteq Packet /\ recv \subseteq Packet
  /\ inflight \subseteq [out : Nat, in : Nat, retries : Nat]
  /\ limit \in [in : [Channels -> Nat], out : [Channels -> Nat],
               pending : [Channels -> SUBSET Nat]]
  /\ start \in [Channels -> Nat]
  /\ nextId \in Nat /\ users \in Nat /\ resets \in Nat

Init ==
  /\ bank = [held |-> [d \in Denoms |-> IF d = Native THEN Seed ELSE 0],
             escrow |-> [c \in Channels |->
                [d \in Denoms |-> IF d = Native THEN Seed ELSE 0]]]
  /\ abroad = [c \in Channels |->
                [d \in Denoms |-> IF d \in {c, Native} THEN Seed ELSE 0]]
  /\ locked = [c \in Channels |-> 0]
  /\ out = {} /\ recv = {} /\ inflight = {}
  /\ limit = [in |-> [c \in Channels |-> 0], out |-> [c \in Channels |-> 0],
              pending |-> [c \in Channels |-> {}]]
  /\ start = [c \in Channels |-> Seed]
  /\ nextId = 1 /\ users = 0 /\ resets = 0

(***************************************************************************)
(* The wiring.  Keepers are structs: PFM keeps the copy of the transfer    *)
(* keeper it was given before the keeper got its wrapper.                  *)
(***************************************************************************)
\* Mutant: the callbacks middleware sends to core IBC itself.
SendStackNoLimit(sender) == <<"transfer", "callbacks">>

SendStack(sender) ==
  IF sender = "msgServer"
  THEN <<"transfer", "callbacks", "pfm", "ratelimit">>
  ELSE <<"transfer">>

LimitedFor(sender) == "ratelimit" \in Range(SendStack(sender))

(***************************************************************************)
(* Tokens.  A token leaves through its own channel by being burnt, through *)
(* another one into that channel's escrow; it comes in, or back, in        *)
(* reverse.                                                                *)
(***************************************************************************)
Sent(b, c, d, a) ==
  [held |-> [b.held EXCEPT ![d] = @ - a],
   escrow |-> [b.escrow EXCEPT ![c][d] = IF d = c THEN @ ELSE @ + a]]
Received(b, c, d, a) ==
  [held |-> [b.held EXCEPT ![d] = @ + a],
   escrow |-> [b.escrow EXCEPT ![c][d] = IF d = c THEN @ ELSE @ - a]]

\* The same on chain c.
RemoteSent(c, d, a) ==
  /\ abroad' = [abroad EXCEPT ![c][d] = @ - a]
  /\ locked' = [locked EXCEPT ![c] = IF d = c THEN @ + a ELSE @]
RemoteReceived(c, d, a) ==
  /\ abroad' = [abroad EXCEPT ![c][d] = @ + a]
  /\ locked' = [locked EXCEPT ![c] = IF d = c THEN @ - a ELSE @]

(***************************************************************************)
(* The rate limit.                                                         *)
(***************************************************************************)
HasLimit(c, d) == d = Native /\ c \in Limited

MaySend(L, c, d, a) ==
  d \notin Blacklisted /\ (HasLimit(c, d) => L.out[c] - L.in[c] + a <= Quota)
MayReceive(L, c, d, a) ==
  d \notin Blacklisted /\ (HasLimit(c, d) => L.in[c] - L.out[c] + a <= Quota)

CountOut(L, c, d, a) ==
  IF HasLimit(c, d)
  THEN [in |-> L.in, out |-> [L.out EXCEPT ![c] = @ + a],
        pending |-> [L.pending EXCEPT ![c] = @ \cup {nextId}]]
  ELSE L
CountIn(L, c, d, a) == IF HasLimit(c, d) THEN [L EXCEPT !.in[c] = @ + a] ELSE L

\* Mutant: a failed packet is undone whatever the window it was sent in.
SettledAnyWindow(L, o, failed) ==
  [in |-> L.in,
   out |-> [L.out EXCEPT ![o.chan] =
              IF failed /\ HasLimit(o.chan, o.denom) THEN @ - o.amount ELSE @],
   pending |-> [L.pending EXCEPT ![o.chan] = @ \ {o.id}]]

\* Packet o was acknowledged or timed out: a failed one is undone, if it was
\* sent in the current window.
Settled(L, o, failed) ==
  [in |-> L.in,
   out |-> [L.out EXCEPT ![o.chan] =
              IF failed /\ o.id \in L.pending[o.chan] THEN @ - o.amount ELSE @],
   pending |-> [L.pending EXCEPT ![o.chan] = @ \ {o.id}]]

\* ResetRateLimit
NewWindow(L, c) ==
  [in |-> [L.in EXCEPT ![c] = 0], out |-> [L.out EXCEPT ![c] = 0],
   pending |-> [L.pending EXCEPT ![c] = {}]]

\* The begin-blocker of the rate limit module starts a new window.
ResetWindow(c) ==
  /\ resets < MaxResets /\ resets' = resets + 1
  /\ limit' = NewWindow(limit, c)
  /\ start' = [start EXCEPT ![c] = bank.escrow[c][Native]]
  /\ UNCHANGED <<bank, abroad, locked, out, recv, inflight, nextId, users>>

(***************************************************************************)
(* Packets sent by Enoki.                                                  *)
(***************************************************************************)
OutPacket(c, d, a) ==
  [id |-> nextId, chan |-> c, denom |-> d, amount |-> a, status |-> "sent",
   to |-> None, retries |-> 0]

\* The SendPacket calls of a transfer by "sender", from limiter state L.
SendPacket(sender, L, c, d, a) ==
  /\ LimitedFor(sender) => MaySend(L, c, d, a)
  /\ limit' = IF LimitedFor(sender) THEN CountOut(L, c, d, a) ELSE L
  /\ nextId' = nextId + 1

\* MsgTransfer: the message server has the wrapped keeper.
Transfer(c, d, a) ==
  /\ users < MaxPackets /\ users' = users + 1
  /\ bank.held[d] >= a
  /\ SendPacket("msgServer", limit, c, d, a)
  /\ bank' = Sent(bank, c, d, a)
  /\ out' = out \cup {OutPacket(c, d, a)}
  /\ UNCHANGED <<abroad, locked, recv, inflight, start, resets>>

Forwards(o) == {f \in inflight : f.out = o.id}
Original(f) == {p \in recv : p.id = f.in}

\* A failed forward: the tokens go back to where the original packet found
\* them (from escrow to escrow, burnt, or minted into escrow).
FailedForward(b, o, p) ==
  Sent(Received(b, o.chan, o.denom, o.amount), p.chan, o.denom, o.amount)

\* WriteAcknowledgementForForwardedPacket: the original packet is
\* acknowledged with the outcome of the forwarded one.
SettleForward(o, failed) ==
  \E f \in Forwards(o) : \E p \in Original(f) :
    /\ inflight' = inflight \ {f}
    /\ bank' = IF failed THEN FailedForward(bank, o, p) ELSE bank
    /\ recv' = (recv \ {p}) \cup
               {[p EXCEPT !.status = IF failed THEN "error" ELSE "ok"]}

\* A transfer of one of Enoki's users: the sender gets a refund if it failed.
SettleTransfer(o, failed) ==
  /\ Forwards(o) = {}
  /\ bank' = IF failed THEN Received(bank, o.chan, o.denom, o.amount) ELSE bank
  /\ UNCHANGED <<recv, inflight>>

\* Mutant: PFM passes the outcome of a forward on to the transfer module,
\* which refunds the packet's sender as well.
SettleBoth(o, failed) ==
  /\ \/ SettleTransfer(o, failed)
     \/ \E f \in Forwards(o) : \E p \in Original(f) :
          /\ inflight' = inflight \ {f}
          /\ bank' = IF failed
                     THEN Received(FailedForward(bank, o, p), o.chan, o.denom, o.amount)
                     ELSE bank
          /\ recv' = (recv \ {p}) \cup
                     {[p EXCEPT !.status = IF failed THEN "error" ELSE "ok"]}
  /\ limit' = Settled(limit, o, failed)
  /\ out' = out \ {o}
  /\ UNCHANGED <<abroad, locked, start, nextId, users, resets>>

\* Mutant: acknowledgements and timeouts do not pass PFM.
SettleWithoutPFM(o, failed) ==
  /\ bank' = IF failed THEN Received(bank, o.chan, o.denom, o.amount) ELSE bank
  /\ limit' = Settled(limit, o, failed)
  /\ out' = out \ {o}
  /\ UNCHANGED <<abroad, locked, recv, inflight, start, nextId, users, resets>>

\* The outcome of packet o passes RateLimit, then PFM, then transfer.
Settle(o, failed) ==
  /\ SettleForward(o, failed) \/ SettleTransfer(o, failed)
  /\ limit' = Settled(limit, o, failed)
  /\ out' = out \ {o}
  /\ UNCHANGED <<abroad, locked, start, nextId, users, resets>>

\* OnAcknowledgementPacket, through RateLimit, PFM, callbacks and transfer.
AcknowledgePacket(o) ==
  o.status \in {"ok", "error"} /\ Settle(o, o.status = "error")

\* OnTimeoutPacket, of a packet that has no retries left or is no forward.
TimeoutPacket(o) ==
  /\ o.status = "sent"
  /\ \A f \in Forwards(o) : f.retries = 0
  /\ Settle(o, TRUE)

\* A forward with retries left is refunded and sent again by PFM.
RetryForward(o) ==
  /\ o.status = "sent"
  /\ \E f \in Forwards(o) :
       /\ f.retries > 0
       /\ inflight' = (inflight \ {f}) \cup
                      {[out |-> nextId, in |-> f.in, retries |-> f.retries - 1]}
  /\ SendPacket("pfm", Settled(limit, o, TRUE), o.chan, o.denom, o.amount)
  /\ out' = (out \ {o}) \cup {OutPacket(o.chan, o.denom, o.amount)}
  /\ UNCHANGED <<bank, abroad, locked, recv, start, users, resets>>

(***************************************************************************)
(* Packets received by Enoki.                                              *)
(***************************************************************************)
Answered(p, status) == recv' = (recv \ {p}) \cup {[p EXCEPT !.status = status]}

\* An error acknowledgement: what the layers wrote is dropped.
Refuse(p) ==
  /\ Answered(p, "error")
  /\ UNCHANGED <<bank, abroad, locked, out, inflight, limit, start, nextId, users, resets>>

\* The rate limit refuses the packet.
RefuseOverLimit(p) ==
  /\ p.status = "sent"
  /\ ~MayReceive(limit, p.chan, p.denom, p.amount)
  /\ Refuse(p)

\* A layer below fails: the receiver is blocked, a contract's callback or
\* the forward fails.
RefuseBelow(p) ==
  /\ p.status = "sent"
  /\ MayReceive(limit, p.chan, p.denom, p.amount)
  /\ Refuse(p)

\* OnRecvPacket of a packet for a user of Enoki.
ReceiveTransfer(p) ==
  /\ p.status = "sent" /\ p.to = None
  /\ MayReceive(limit, p.chan, p.denom, p.amount)
  /\ limit' = CountIn(limit, p.chan, p.denom, p.amount)
  /\ bank' = Received(bank, p.chan, p.denom, p.amount)
  /\ Answered(p, "ok")
  /\ UNCHANGED <<abroad, locked, out, inflight, start, nextId, users, resets>>

\* OnRecvPacket of a packet to forward: received for an intermediate account,
\* then sent on by PFM; the acknowledgement waits for that packet's.
ReceiveForward(p) ==
  /\ p.status = "sent" /\ p.to # None
  /\ MayReceive(limit, p.chan, p.denom, p.amount)
  /\ SendPacket("pfm", CountIn(limit, p.chan, p.denom, p.amount),
                p.to, p.denom, p.amount)
  /\ bank' = Sent(Received(bank, p.chan, p.denom, p.amount), p.to, p.denom, p.amount)
  /\ out' = out \cup {OutPacket(p.to, p.denom, p.amount)}
  /\ inflight' = inflight \cup {[out |-> nextId, in |-> p.id, retries |-> p.retries]}
  /\ Answered(p, "waiting")
  /\ UNCHANGED <<abroad, locked, start, users, resets>>

(***************************************************************************)
(* The chains at the other ends, with their relayers.                      *)
(***************************************************************************)
RemoteSend(c, d, a, to, r) ==
  /\ users < MaxPackets /\ users' = users + 1
  /\ abroad[c][d] >= a
  /\ to = None => r = 0
  /\ RemoteSent(c, d, a)
  /\ recv' = recv \cup {[id |-> nextId, chan |-> c, denom |-> d, amount |-> a,
                         status |-> "sent", to |-> to, retries |-> r]}
  /\ nextId' = nextId + 1
  /\ UNCHANGED <<bank, out, inflight, limit, start, resets>>

RemoteRecv(o) ==
  /\ o.status = "sent"
  /\ \/ /\ RemoteReceived(o.chan, o.denom, o.amount)
        /\ out' = (out \ {o}) \cup {[o EXCEPT !.status = "ok"]}
     \/ /\ out' = (out \ {o}) \cup {[o EXCEPT !.status = "error"]}
        /\ UNCHANGED <<abroad, locked>>
  /\ UNCHANGED <<bank, recv, inflight, limit, start, nextId, users, resets>>

\* The sender learns that p succeeded, failed, or timed out.
RemoteSettle(p) ==
  /\ p.status # "waiting"
  /\ IF p.status = "ok" THEN UNCHANGED <<abroad, locked>>
     ELSE RemoteReceived(p.chan, p.denom, p.amount)
  /\ recv' = recv \ {p}
  /\ UNCHANGED <<bank, out, inflight, limit, start, nextId, users, resets>>

Receive(p) ==
  RefuseOverLimit(p) \/ RefuseBelow(p) \/ ReceiveTransfer(p) \/ ReceiveForward(p)
Resolve(o) == AcknowledgePacket(o) \/ TimeoutPacket(o) \/ RetryForward(o)

Next ==
  \/ \E c \in Channels, d \in Denoms, a \in Amounts :
       \/ Transfer(c, d, a)
       \/ \E to \in Destinations, r \in Retries : RemoteSend(c, d, a, to, r)
  \/ \E o \in out : RemoteRecv(o) \/ Resolve(o)
  \/ \E p \in recv : Receive(p) \/ RemoteSettle(p)
  \/ \E c \in Limited : ResetWindow(c)

Spec == Init /\ [][Next]_vars

\* Relayers bring every packet of Enoki's to an end.
LiveSpec == Spec /\ WF_vars(\E o \in out : Resolve(o))

(***************************************************************************)
(* Properties.                                                             *)
(***************************************************************************)
MaxOf(S) == CHOOSE x \in S : \A y \in S : y <= x
Total(S) == SumFunction([x \in S |-> x.amount])

\* What the escrow accounts of bank b hold of token d, together.
InEscrow(b, d) == SumFunction([e \in Channels |-> b.escrow[e][d]])

\* A packet whose tokens have left the sending chain and neither arrived nor
\* been refunded.
Under(S, c, d) ==
  {x \in S : x.chan = c /\ x.denom = d /\ x.status \in {"sent", "error"}}

\* Every voucher is backed: the escrow account of a channel holds exactly
\* what of each token is beyond that channel, and each other chain has in
\* escrow exactly what of its token is on Enoki or beyond, whatever forwards
\* failed, were retried or timed out, and in any order of acknowledgements.
VouchersBacked ==
  \A c \in Channels :
    /\ \A d \in Denoms \ {c} :
         bank.escrow[c][d] =
           abroad[c][d] + Total(Under(out, c, d)) + Total(Under(recv, c, d))
    /\ locked[c] =
         bank.held[c] + InEscrow(bank, c)
         + Total(Under(out, c, c)) + Total(Under(recv, c, c))

\* A forwarded packet is on its way exactly as long as the original one waits
\* for its acknowledgement, for the same tokens: no forward is settled twice
\* or without answering the chain the packet came from.
ForwardsExact ==
  /\ \A p \in recv : p.status = "waiting" =>
       \E f \in inflight : f.in = p.id /\ \E o \in out : o.id = f.out
  /\ \A f \in inflight :
       \E p \in Original(f), o \in out :
         /\ p.status = "waiting"
         /\ o.id = f.out
         /\ <<o.chan, o.denom, o.amount>> = <<p.to, p.denom, p.amount>>
  /\ \A f, g \in inflight : f.in = g.in \/ f.out = g.out => f = g

\* The packets of S whose flow through channel c limiter L would undo.
Undoable(S, L, c) == {o \in S : o.chan = c /\ o.id \in L.pending[c]}

\* What the rate limit may still undo was counted in the current window: late
\* acknowledgements and timeouts never undo more than was counted.
UndoCovered ==
  \A c \in Limited : Total(Undoable(out, limit, c)) <= limit.out[c]

\* The native tokens that really left through a limited channel, net of what
\* came in, never exceed the quota of the window.
QuotaKept ==
  \A c \in Limited : bank.escrow[c][Native] - start[c] <= Quota

\* The identifiers a user's packet can have.
UserIds == 1..(MaxPackets + (MaxPackets - 1) * (1 + MaxOf(Retries)))

\* Every forwarded packet that was received is answered, however often its
\* forward times out and is retried.
ForwardsAnswered ==
  \A id \in UserIds :
    (\E p \in recv : p.id = id /\ p.status = "waiting")
      ~> ~(\E p \in recv : p.id = id /\ p.status = "waiting")

\* app.go:689 "SendPacket -> Transfer -> Callbacks -> PFM -> RateLimit -> IBC
\* core (ICS4Wrapper)": a packet with native tokens that leaves through a
\* limited channel has been counted by the rate limit.
EverySendLimited ==
  [][\A o \in out' :
       o.id >= nextId /\ HasLimit(o.chan, o.denom) =>
         o.id \in limit'.pending[o.chan]]_vars

(***************************************************************************)
(* Inductive strengthenings, for proofs.                                   *)
(***************************************************************************)
\* Identifiers are never used twice on one side, and the rate limit only
\* remembers those of packets that exist, on channels that are limited.
Identified ==
  /\ IsFiniteSet(out) /\ IsFiniteSet(recv)
  /\ \A S \in {out, recv} :
       /\ \A x \in S : x.id < nextId
       /\ \A x, y \in S : x.id = y.id => x = y
  /\ \A c \in Channels : \A i \in limit.pending[c] : i < nextId /\ c \in Limited

TransferInv ==
  TypeOK /\ Identified /\ ForwardsExact /\ VouchersBacked /\ UndoCovered

\* Where nothing asks to be forwarded, every packet is the message server's,
\* so that what left a limited channel in the window was counted.
CountedWithin ==
  \A c \in Limited :
    /\ bank.escrow[c][Native] - start[c] <= limit.out[c] - limit.in[c]
    /\ limit.out[c] - limit.in[c] <= Quota

NoForwardInv ==
  /\ TransferInv /\ CountedWithin
  /\ inflight = {} /\ \A p \in recv : p.to = None
  /\ \A o \in out : o.id \in limit.pending[o.chan] => o.denom = Native
=============================================================================
