---------------------------- MODULE PayoutLedger ----------------------------
(***************************************************************************)
(* What the withdrawal side of the vault promises, without saying how:     *)
(* a request is recorded once, at most one transfer is ever made for it,   *)
(* and the owner's shares are burned once, after that transfer.            *)
(*                                                                         *)
(* The promise is the one src/docs/vault-v1-overview.md states under       *)
(* "Withdrawal double-pay guard"; module Withdrawals (the queue, the       *)
(* executor and the operator commands) is shown to implement it.           *)
(***************************************************************************)
EXTENDS Integers

CONSTANTS
  Users,          \* enrolled depositors
  Ids,            \* withdrawal ids
  Amounts         \* share amounts a request can name

VARIABLES
  phase,          \* per id: "absent", "open", "paid" or "settled"
  owner,          \* per id: the user who asked
  burned,         \* per id: the shares the request burns
  transfers,      \* the transfers that reached their destination
  shares          \* per user: the share balance

vars == <<phase, owner, burned, transfers, shares>>

Init ==
  /\ phase = [id \in Ids |-> "absent"]
  /\ transfers = {}       \* owner and burned mean nothing before Request
  /\ shares \in [Users -> Nat]

\* A user asks for a shares.
Request(id, u, a) ==
  /\ phase[id] = "absent"
  /\ phase' = [phase EXCEPT ![id] = "open"]
  /\ owner' = [owner EXCEPT ![id] = u]
  /\ burned' = [burned EXCEPT ![id] = a]
  /\ UNCHANGED <<transfers, shares>>

\* The one transfer <<id, signature>> a request may ever get.
Pay(id) ==
  /\ phase[id] = "open"
  /\ phase' = [phase EXCEPT ![id] = "paid"]
  /\ \E tx \in transfers' : tx[1] = id /\ transfers' = transfers \cup {tx}
  /\ UNCHANGED <<owner, burned, shares>>

\* The burn that follows the transfer.
Settle(id) ==
  /\ phase[id] = "paid"
  /\ phase' = [phase EXCEPT ![id] = "settled"]
  /\ shares' = [shares EXCEPT ![owner[id]] = @ - burned[id]]
  /\ UNCHANGED <<owner, burned, transfers>>

Next ==
  \/ \E id \in Ids, u \in Users, a \in Amounts : Request(id, u, a)
  \/ \E id \in Ids : Pay(id) \/ Settle(id)

Spec == Init /\ [][Next]_vars
=============================================================================
