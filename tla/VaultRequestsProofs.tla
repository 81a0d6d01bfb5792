------------------------- MODULE VaultRequestsProofs -------------------------
(***************************************************************************)
(* Proofs about module VaultRequests, for every value of its constants.    *)
(*                                                                         *)
(* The whitelist changes are ordered by their ids, which follow the time   *)
(* of the request; hence those that wait are newer than those that count,  *)
(* and what activateDue leaves in vault_users is the newest matured one.   *)
(***************************************************************************)
EXTENDS VaultRequests, WellFoundedInduction, TLAPS

\* Ids are handed out in the order of the requests.
IdsFollowTime ==
  \A c, d \in ChangeIds : c < d /\ changes[d].status # "none" =>
    changes[c].status # "none" /\ changes[c].at <= changes[d].at

\* A change that waits is due a cooldown after its request; one that counts
\* was due.
DueInTime ==
  \A c \in ChangeIds :
    /\ changes[c].status # "none" => changes[c].at <= now
    /\ changes[c].status = "pending" => changes[c].due = changes[c].at + Cooldown
    /\ changes[c].status = "activated" => changes[c].due <= now

\* A change that waits is newer than every one that counts.
WaitingIsNewer ==
  \A c, d \in ChangeIds :
    changes[c].status = "pending" /\ changes[d].status = "activated"
    /\ changes[c].user = changes[d].user => d < c

\* Every request names an address.
AddressGiven ==
  \A c \in ChangeIds : changes[c].status # "none" => changes[c].addr \in Addresses

\* Whoever has no address has never asked for one: the first request counts
\* at once.
FirstCounts ==
  \A u \in Users : whitelist[u] = NoAddress =>
    \A c \in ChangeIds : changes[c].user = u => changes[c].status = "none"

\* The destination that _doWithdraw has read had matured.
CallMatured ==
  call.pc = "enqueue" => \E c \in ChangeIds : Matured(c, call.user, call.dest, now)

ChangeInv ==
  /\ IdsFollowTime
  /\ DueInTime
  /\ AddressGiven
  /\ WaitingIsNewer
  /\ FirstCounts
  /\ NewestChangeCounts

SafeInv ==
  /\ TypeOK
  /\ ChangeInv
  /\ CallMatured
  /\ DestinationMatured

-----------------------------------------------------------------------------
(* Operators. *)

\* A non-empty set of ids has a greatest element.
LEMMA MaxOfIds ==
  ASSUME NEW n \in Nat, NEW S \in SUBSET (1..n), S # {}
  PROVE  Max(S) \in S /\ \A y \in S : y <= Max(S)
<1> DEFINE T == {k \in Nat : n - k \in S}
<1>1. T # {}
  <2>1. PICK s \in S : TRUE
    OBVIOUS
  <2>2. n - s \in T
    BY <2>1
  <2> QED
    BY <2>2
<1>2. PICK x \in T : \A y \in T : ~(<<y, x>> \in OpToRel(<, Nat))
  <2>1. T \subseteq Nat
    OBVIOUS
  <2> HIDE DEF T
  <2> QED
    BY <1>1, <2>1, NatLessThanWellFounded, WFMin
<1>3. \A y \in T : x <= y
  <2> SUFFICES ASSUME NEW y \in T, y < x PROVE FALSE
    OBVIOUS
  <2>1. <<y, x>> \in OpToRel(<, Nat)
    BY DEF OpToRel
  <2> QED
    BY <1>2, <2>1
<1>4. n - x \in S /\ \A y \in S : y <= n - x
  <2>1. ASSUME NEW y \in S PROVE y <= n - x
    <3>1. n - y \in T
      OBVIOUS
    <3> QED
      BY <1>3, <3>1
  <2> QED
    BY <1>2, <2>1
<1>5. \E m \in S : \A y \in S : m >= y
  BY <1>4
<1> QED
  BY <1>5 DEF Max

\* A burn leaves integer balances (addShares has no floor at zero).
LEMMA BurnTyped ==
  ASSUME NEW S, NEW f \in [S -> Int], NEW o, NEW b \in Int
  PROVE  [f EXCEPT ![o] = @ - b] \in [S -> Int]
<1>1. CASE o \in S
  <2>1. f[o] - b \in Int
    BY <1>1
  <2> QED
    BY <2>1
<1>2. CASE o \notin S
  <2>1. [f EXCEPT ![o] = @ - b] = f
    BY <1>2
  <2> QED
    BY <2>1
<1> QED
  BY <1>1, <1>2

-----------------------------------------------------------------------------
(* Types. *)

USE DEF ChangeIds, RowIds, ChangeType, RowType, PromptType, CallType

\* The prompt and the change that the handlers write are typed.
LEMMA AskTyped ==
  ASSUME TypeOK, NEW u \in Users, NEW p \in PromptType, Ask(u, p),
         p.kind = "whitelist" => p.addr \in Addresses
  PROVE  /\ pending' \in [Users -> PromptType]
         /\ \A v \in Users : pending'[v].kind = "whitelist" => pending'[v].addr \in Addresses
BY DEF TypeOK, Ask

LEMMA RequestTyped ==
  ASSUME TypeOK, NEW u \in Users, NEW a \in Addresses, RequestChange(u, a)
  PROVE  /\ changes' \in [ChangeIds -> ChangeType]
         /\ whitelist' \in [Users -> Addresses \cup {NoAddress}]
<1>1. now + Cooldown \in Nat
  BY VaultRequestsAssumption DEF TypeOK
<1>2. ASSUME NEW due \in Nat, NEW st \in {"pending", "activated"}, InsertChange(u, a, due, st)
      PROVE  changes' \in [ChangeIds -> ChangeType]
  BY <1>2 DEF InsertChange, TypeOK
<1>3. changes' \in [ChangeIds -> ChangeType]
  BY <1>1, <1>2 DEF RequestChange, TypeOK
<1>4. whitelist' \in [Users -> Addresses \cup {NoAddress}]
  BY DEF RequestChange, TypeOK
<1> QED
  BY <1>3, <1>4

\* So is a change, and a row, whose status is set.
LEMMA StatusSet ==
  /\ \A x \in ChangeType, st \in {"none", "pending", "activated", "cancelled"} :
       [x EXCEPT !.status = st] \in ChangeType
  /\ \A x \in RowType, st \in {"none", "queued", "completed", "failed"} :
       [x EXCEPT !.status = st] \in RowType
OBVIOUS

LEMMA CancelTyped ==
  ASSUME TypeOK, NEW u \in Users, CancelPending(u)
  PROVE  changes' \in [ChangeIds -> ChangeType]
<1>1. CASE PendingChanges(u) = {}
  BY <1>1 DEF CancelPending, TypeOK
<1>2. CASE PendingChanges(u) # {}
  <2> DEFINE m == Max(PendingChanges(u))
  <2>1. m \in ChangeIds
    BY <1>2, VaultRequestsAssumption, MaxOfIds DEF PendingChanges
  <2>2. changes' = [changes EXCEPT ![m].status = "cancelled"]
    BY <1>2 DEF CancelPending
  <2>3. changes' = [changes EXCEPT ![m] = [changes[m] EXCEPT !.status = "cancelled"]]
    BY <2>2
  <2>4. [changes[m] EXCEPT !.status = "cancelled"] \in ChangeType
    BY <2>1, StatusSet DEF TypeOK
  <2> QED
    BY <2>3, <2>4 DEF TypeOK
<1> QED
  BY <1>1, <1>2

LEMMA DoWithdrawTyped ==
  ASSUME TypeOK, NEW u \in Users, NEW usd \in Nat, DoWithdraw(u, usd)
  PROVE  /\ call' \in CallType
         /\ call'.pc # "idle" => call'.user \in Users
BY DEF DoWithdraw, Call, NoCall, TypeOK

\* Every action keeps the types.
LEMMA TypeStep == TypeOK /\ [Next]_vars => TypeOK'
<1> SUFFICES ASSUME TypeOK, [Next]_vars PROVE TypeOK'
  OBVIOUS
<1> USE VaultRequestsAssumption DEF db, mem
<1> DEFINE Kinds == {"none", "amount", "address", "withdraw", "whitelist", "cancel", "reveal"}
<1>p. \A k \in Kinds, n \in Nat, a \in Addresses \cup {NoAddress} : Prompt(k, n, a) \in PromptType
  BY DEF Prompt
<1>n. NoPrompt \in PromptType /\ NoPrompt.kind = "none"
  BY DEF Prompt, NoPrompt
<1>c. NoCall \in CallType /\ NoCall.pc = "idle"
  BY DEF Call, NoCall
<1>k. \A k, n, a : Prompt(k, n, a).kind = k /\ Prompt(k, n, a).addr = a
  BY DEF Prompt
<1>f. ASSUME NEW u \in Users, Forget(u)
      PROVE  /\ pending' \in [Users -> PromptType]
             /\ \A v \in Users : pending'[v].kind = "whitelist" => pending'[v].addr \in Addresses
  BY <1>f, <1>n, AskTyped DEF Forget
<1>a. ASSUME NEW u \in Users, NEW k \in Kinds, NEW n \in Nat, NEW a \in Addresses \cup {NoAddress},
             k = "whitelist" => a \in Addresses, Ask(u, Prompt(k, n, a))
      PROVE  /\ pending' \in [Users -> PromptType]
             /\ \A v \in Users : pending'[v].kind = "whitelist" => pending'[v].addr \in Addresses
  BY <1>a, <1>p, <1>k, AskTyped
<1> HIDE DEF Kinds
<1>kk. {"none", "amount", "address", "withdraw", "whitelist", "cancel", "reveal"} = Kinds
  BY DEF Kinds
<1>1. ASSUME NEW u \in Users, NEW a \in Amounts, HandleWithdraw(u, a)
      PROVE TypeOK'
  <2>1. call' \in CallType /\ call'.user \in Users
    BY <1>1 DEF HandleWithdraw, Call
  <2> QED
    BY <1>1, <2>1 DEF HandleWithdraw, TypeOK
<1>2. ASSUME NEW u \in Users, NEW a \in Amounts, EnterAmount(u, a)
      PROVE TypeOK'
  <2>1. call' \in CallType /\ (call'.pc # "idle" => call'.user \in Users)
    BY <1>2, <1>c DEF EnterAmount, Call
  <2>2. Forget(u) /\ UNCHANGED <<now, db, unlocked>>
    BY <1>2 DEF EnterAmount
  <2> QED
    BY <2>1, <2>2, <1>f DEF TypeOK
<1>3. ASSUME NEW u \in Users, NEW a \in Addresses, HandleSetWhitelist(u, a)
      PROVE TypeOK'
  <2>1. CASE RequestChange(u, a) /\ UNCHANGED pending
    BY <1>3, <2>1, RequestTyped DEF HandleSetWhitelist, TypeOK
  <2>2. CASE Ask(u, Prompt("whitelist", 0, a)) /\ UNCHANGED <<whitelist, changes>>
    BY <1>3, <2>2, <1>a, <1>kk DEF HandleSetWhitelist, TypeOK
  <2> QED
    BY <1>3, <2>1, <2>2 DEF HandleSetWhitelist
<1>4. ASSUME NEW u \in Users, NEW a \in Addresses, EnterAddress(u, a)
      PROVE TypeOK'
  <2>1. CASE RequestChange(u, a) /\ Forget(u)
    BY <1>4, <2>1, <1>f, RequestTyped DEF EnterAddress, TypeOK
  <2>2. CASE Ask(u, Prompt("whitelist", 0, a)) /\ UNCHANGED <<whitelist, changes>>
    BY <1>4, <2>2, <1>a, <1>kk DEF EnterAddress, TypeOK
  <2> QED
    BY <1>4, <2>1, <2>2 DEF EnterAddress
<1>5. ASSUME NEW u \in Users, AskAmount(u) \/ AskAddress(u) \/ HandleReveal(u)
      PROVE TypeOK'
  <2>1. PICK k \in {"amount", "address", "reveal"} : Ask(u, Prompt(k, 0, NoAddress))
    BY <1>5 DEF AskAmount, AskAddress, HandleReveal
  <2>2. /\ pending' \in [Users -> PromptType]
        /\ \A v \in Users : pending'[v].kind = "whitelist" => pending'[v].addr \in Addresses
    BY <2>1, <1>a, <1>kk
  <2>3. UNCHANGED <<now, db, unlocked, call>>
    BY <1>5 DEF AskAmount, AskAddress, HandleReveal
  <2> QED
    BY <2>2, <2>3 DEF TypeOK
<1>6. ASSUME NEW u \in Users, HandleCancelWhitelist(u)
      PROVE TypeOK'
  <2>1. CASE CancelPending(u) /\ UNCHANGED pending
    BY <1>6, <2>1, CancelTyped DEF HandleCancelWhitelist, TypeOK
  <2>2. CASE Ask(u, Prompt("cancel", 0, NoAddress)) /\ UNCHANGED changes
    BY <1>6, <2>2, <1>a, <1>kk DEF HandleCancelWhitelist, TypeOK
  <2> QED
    BY <1>6, <2>1, <2>2 DEF HandleCancelWhitelist
<1>7. ASSUME NEW u \in Users, RightCode(u)
      PROVE TypeOK'
  <2>1. /\ pending' \in [Users -> PromptType]
        /\ \A v \in Users : pending'[v].kind = "whitelist" => pending'[v].addr \in Addresses
        /\ unlocked' \subseteq Users
        /\ UNCHANGED <<now, shares, rows>>
    BY <1>7, <1>f DEF RightCode, TypeOK
  <2>2. pending[u] \in PromptType /\ (pending[u].kind = "whitelist" => pending[u].addr \in Addresses)
    BY DEF TypeOK
  <2>3. CASE DoWithdraw(u, pending[u].amount) /\ UNCHANGED <<whitelist, changes>>
    BY <2>1, <2>2, <2>3, DoWithdrawTyped DEF TypeOK
  <2>4. CASE pending[u].kind = "whitelist" /\ RequestChange(u, pending[u].addr) /\ UNCHANGED call
    BY <2>1, <2>2, <2>4, RequestTyped DEF TypeOK
  <2>5. CASE CancelPending(u) /\ UNCHANGED <<whitelist, call>>
    BY <2>1, <2>5, CancelTyped DEF TypeOK
  <2>6. CASE UNCHANGED <<whitelist, changes, call>>
    BY <2>1, <2>6 DEF TypeOK
  <2> QED
    BY <1>7, <2>3, <2>4, <2>5, <2>6 DEF RightCode
<1>8. ASSUME NEW u \in Users, DropPrompt(u)
      PROVE TypeOK'
  BY <1>8, <1>f DEF DropPrompt, TypeOK
<1>9. ASSUME NEW r \in RowIds, HandleForceProcess(r)
      PROVE TypeOK'
  <2>1. [rows[r] EXCEPT !.status = "queued"] \in RowType
    BY StatusSet DEF TypeOK
  <2>2. rows' = [rows EXCEPT ![r] = [rows[r] EXCEPT !.status = "queued"]]
    BY <1>9 DEF HandleForceProcess
  <2>3. rows' \in [RowIds -> RowType]
    BY <2>1, <2>2 DEF TypeOK
  <2> QED
    BY <1>9, <2>3 DEF HandleForceProcess, TypeOK
<1>10. ASSUME CheckRequest PROVE TypeOK'
  <2> DEFINE usd == Usd(call.user, call.amount)
  <2>1. call.user \in Users /\ UNCHANGED <<now, db, unlocked>> /\ Accept(call.user, usd)
    BY <1>10 DEF CheckRequest, TypeOK
  <2>2. usd \in Nat
    <3>1. shares[call.user] \in Int /\ call.amount \in Nat
      BY <2>1 DEF TypeOK
    <3>2. MinAmount <= usd
      BY <1>10 DEF CheckRequest, WithinBalance
    <3> QED
      BY <3>1, <3>2 DEF Usd
  <2> HIDE DEF usd
  <2>3. CASE DoWithdraw(call.user, usd) /\ UNCHANGED pending
    BY <2>1, <2>2, <2>3, DoWithdrawTyped DEF TypeOK
  <2>4. CASE call' = NoCall /\ Ask(call.user, Prompt("withdraw", usd, NoAddress))
    <3>1. /\ pending' \in [Users -> PromptType]
          /\ \A v \in Users : pending'[v].kind = "whitelist" => pending'[v].addr \in Addresses
      BY <2>1, <2>2, <2>4, <1>a, <1>kk
    <3> QED
      BY <2>1, <2>4, <3>1, <1>c DEF TypeOK
  <2> QED
    BY <2>1, <2>3, <2>4 DEF Accept
<1>11. ASSUME RefuseRequest PROVE TypeOK'
  BY <1>11, <1>c DEF RefuseRequest, TypeOK
<1>12. ASSUME Enqueue PROVE TypeOK'
  <2> DEFINE row == [user |-> call.user, dest |-> call.dest, amount |-> call.amount,
                     at |-> now, status |-> "queued"]
  <2>1. PICK r \in RowIds : rows' = [rows EXCEPT ![r] = row]
    BY <1>12 DEF Enqueue
  <2>2. row \in RowType
    BY DEF TypeOK
  <2>3. rows' \in [RowIds -> RowType]
    BY <2>1, <2>2 DEF TypeOK
  <2> QED
    BY <1>12, <2>3, <1>c DEF Enqueue, TypeOK
<1>13. ASSUME NEW r \in RowIds, Settle(r) PROVE TypeOK'
  <2>1. rows' \in [RowIds -> RowType]
    <3>1. PICK st \in {"completed", "failed"} : rows' = [rows EXCEPT ![r] = [rows[r] EXCEPT !.status = st]]
      <4>1. CASE rows' = [rows EXCEPT ![r].status = "completed"]
        BY <4>1
      <4>2. CASE rows' = [rows EXCEPT ![r].status = "failed"]
        BY <4>2
      <4> QED
        BY <1>13, <4>1, <4>2 DEF Settle
    <3>2. rows[r] \in RowType /\ st \in {"none", "queued", "completed", "failed"}
      BY DEF TypeOK
    <3>3. [rows[r] EXCEPT !.status = st] \in RowType
      BY <3>2, StatusSet
    <3> QED
      BY <3>1, <3>3 DEF TypeOK
  <2>2. shares' \in [Users -> Int]
    <3>1. rows[r].amount \in Int /\ shares \in [Users -> Int]
      BY DEF TypeOK
    <3> QED
      BY <1>13, <3>1, BurnTyped DEF Settle
  <2> QED
    BY <1>13, <2>1, <2>2 DEF Settle, TypeOK
<1>14. ASSUME ActivateDue PROVE TypeOK'
  <2>1. changes' \in [ChangeIds -> ChangeType]
    <3>1. \A c \in ChangeIds : [changes[c] EXCEPT !.status = "activated"] \in ChangeType
      BY StatusSet DEF TypeOK
    <3> QED
      BY <1>14, <3>1 DEF ActivateDue, TypeOK
  <2>2. \A u \in Users : DueChanges(u) # {} => Max(DueChanges(u)) \in ChangeIds
    BY MaxOfIds DEF DueChanges, PendingChanges
  <2>3. whitelist' \in [Users -> Addresses \cup {NoAddress}]
    BY <1>14, <2>2 DEF ActivateDue, TypeOK
  <2> QED
    BY <1>14, <2>1, <2>3 DEF ActivateDue, TypeOK
<1>15. ASSUME Advance PROVE TypeOK'
  <2>1. now' \in Nat /\ UNCHANGED <<shares, whitelist, changes, rows, pending, unlocked, call>>
    BY <1>15 DEF Advance, TypeOK
  <2> QED
    BY <2>1 DEF TypeOK
<1>18. ASSUME NEW u \in Users, SessionEnds(u) PROVE TypeOK'
  BY <1>18 DEF SessionEnds, TypeOK
<1>16. ASSUME Crash PROVE TypeOK'
  BY <1>16, <1>c, <1>n DEF Crash, TypeOK
<1>17. CASE UNCHANGED vars
  BY <1>17 DEF vars, TypeOK
<1> QED
  BY <1>1, <1>2, <1>3, <1>4, <1>5, <1>6, <1>7, <1>8, <1>9, <1>10, <1>11, <1>12, <1>13, <1>14,
     <1>15, <1>16, <1>17, <1>18 DEF Next, HandlerStep, TickStep

-----------------------------------------------------------------------------
(* The whitelist changes. *)

\* What a step can do to them: nothing, a request, a cancellation, activateDue.
ChangesStep ==
  \/ UNCHANGED <<changes, whitelist>> /\ now' \in {now, now + 1}
  \/ \E u \in Users, a \in Addresses : RequestChange(u, a) /\ now' = now
  \/ \E u \in Users : CancelPending(u) /\ UNCHANGED <<whitelist, now>>
  \/ ActivateDue

LEMMA OnlyChangesSteps == TypeOK /\ [Next]_vars => ChangesStep
<1> SUFFICES ASSUME TypeOK, [Next]_vars PROVE ChangesStep
  OBVIOUS
<1> USE DEF db, mem
<1>0. ASSUME UNCHANGED <<now, changes, whitelist>> PROVE ChangesStep
  BY <1>0 DEF ChangesStep
<1>1. ASSUME NEW u \in Users, NEW a \in Amounts, HandleWithdraw(u, a) \/ EnterAmount(u, a)
      PROVE ChangesStep
  BY <1>0, <1>1 DEF HandleWithdraw, EnterAmount
<1>2. ASSUME NEW u \in Users, NEW a \in Addresses, HandleSetWhitelist(u, a) \/ EnterAddress(u, a)
      PROVE ChangesStep
  BY <1>0, <1>2 DEF HandleSetWhitelist, EnterAddress, ChangesStep
<1>3. ASSUME NEW u \in Users, AskAmount(u) \/ AskAddress(u) \/ HandleReveal(u) \/ DropPrompt(u)
      PROVE ChangesStep
  BY <1>0, <1>3 DEF AskAmount, AskAddress, HandleReveal, DropPrompt
<1>4. ASSUME NEW u \in Users, HandleCancelWhitelist(u)
      PROVE ChangesStep
  BY <1>0, <1>4 DEF HandleCancelWhitelist, ChangesStep
<1>5. ASSUME NEW u \in Users, RightCode(u)
      PROVE ChangesStep
  <2>1. CASE pending[u].kind = "whitelist" /\ RequestChange(u, pending[u].addr)
    <3>1. pending[u].addr \in Addresses /\ now' = now
      BY <1>5, <2>1 DEF TypeOK, RightCode
    <3> QED
      BY <2>1, <3>1 DEF ChangesStep
  <2>2. CASE CancelPending(u) /\ UNCHANGED <<whitelist, call>>
    BY <1>5, <2>2 DEF RightCode, ChangesStep
  <2>3. CASE UNCHANGED <<whitelist, changes>>
    BY <1>0, <1>5, <2>3 DEF RightCode
  <2> QED
    BY <1>5, <2>1, <2>2, <2>3 DEF RightCode
<1>6. ASSUME NEW r \in RowIds, HandleForceProcess(r) \/ Settle(r)
      PROVE ChangesStep
  BY <1>0, <1>6 DEF HandleForceProcess, Settle
<1>7. ASSUME CheckRequest \/ RefuseRequest \/ Enqueue PROVE ChangesStep
  BY <1>0, <1>7 DEF CheckRequest, RefuseRequest, Enqueue
<1>8. CASE ActivateDue
  BY <1>8 DEF ChangesStep
<1>9. CASE Advance
  BY <1>9 DEF Advance, ChangesStep
<1>10. ASSUME NEW u \in Users, SessionEnds(u) PROVE ChangesStep
  BY <1>0, <1>10 DEF SessionEnds
<1>11. CASE Crash
  BY <1>0, <1>11 DEF Crash
<1>12. CASE UNCHANGED vars
  BY <1>0, <1>12 DEF vars
<1> QED
  BY <1>1, <1>2, <1>3, <1>4, <1>5, <1>6, <1>7, <1>8, <1>9, <1>10, <1>11, <1>12
     DEF Next, HandlerStep, TickStep

\* A request goes behind all the others.
LEMMA Inserted ==
  ASSUME TypeOK, IdsFollowTime, NEW u \in Users, NEW a \in Addresses, NEW due \in Nat,
         NEW st \in {"pending", "activated"}, InsertChange(u, a, due, st)
  PROVE  \E c \in ChangeIds :
           /\ changes[c].status = "none"
           /\ \A d \in ChangeIds : changes[d].status # "none" <=> d < c
           /\ changes'[c] = [user |-> u, addr |-> a, at |-> now, due |-> due, status |-> st]
           /\ \A d \in ChangeIds : d # c => changes'[d] = changes[d]
<1>1. PICK c \in ChangeIds :
        /\ NextId(changes, c)
        /\ changes' = [changes EXCEPT ![c] =
             [user |-> u, addr |-> a, at |-> now, due |-> due, status |-> st]]
  BY DEF InsertChange
<1>2. changes[c].status = "none" /\ \A d \in ChangeIds : d < c => changes[d].status # "none"
  BY <1>1 DEF NextId, TypeOK
<1>3. ASSUME NEW d \in ChangeIds, changes[d].status # "none" PROVE d < c
  BY <1>2, <1>3 DEF IdsFollowTime
<1>4. /\ changes'[c] = [user |-> u, addr |-> a, at |-> now, due |-> due, status |-> st]
      /\ \A d \in ChangeIds : d # c => changes'[d] = changes[d]
  BY <1>1 DEF TypeOK
<1> QED
  BY <1>2, <1>3, <1>4

\* A request that waits.
LEMMA PendingInserted ==
  ASSUME TypeOK, ChangeInv, NEW u \in Users, NEW a \in Addresses, whitelist[u] # NoAddress,
         InsertChange(u, a, now + Cooldown, "pending"), UNCHANGED <<whitelist, now>>
  PROVE  ChangeInv'
<1> USE DEF ChangeInv
<1>0. now \in Nat /\ now + Cooldown \in Nat
  BY VaultRequestsAssumption DEF TypeOK
<1>1. PICK c \in ChangeIds :
        /\ changes[c].status = "none"
        /\ \A d \in ChangeIds : changes[d].status # "none" <=> d < c
        /\ changes'[c] = [user |-> u, addr |-> a, at |-> now, due |-> now + Cooldown, status |-> "pending"]
        /\ \A d \in ChangeIds : d # c => changes'[d] = changes[d]
  BY <1>0, Inserted
<1>2. IdsFollowTime'
  BY <1>0, <1>1 DEF IdsFollowTime, DueInTime
<1>3. DueInTime' /\ AddressGiven'
  BY <1>0, <1>1 DEF DueInTime, AddressGiven
<1>4. WaitingIsNewer'
  BY <1>1 DEF WaitingIsNewer
<1>5. FirstCounts'
  BY <1>1 DEF FirstCounts
<1>6. NewestChangeCounts'
  BY <1>1 DEF NewestChangeCounts, Matured
<1> QED
  BY <1>2, <1>3, <1>4, <1>5, <1>6

\* The first request, which counts at once.
LEMMA FirstInserted ==
  ASSUME TypeOK, ChangeInv, NEW u \in Users, NEW a \in Addresses, whitelist[u] = NoAddress,
         InsertChange(u, a, now, "activated"), whitelist' = [whitelist EXCEPT ![u] = a], now' = now
  PROVE  ChangeInv'
<1> USE DEF ChangeInv
<1>0. now \in Nat
  BY DEF TypeOK
<1>1. PICK c \in ChangeIds :
        /\ changes[c].status = "none"
        /\ \A d \in ChangeIds : changes[d].status # "none" <=> d < c
        /\ changes'[c] = [user |-> u, addr |-> a, at |-> now, due |-> now, status |-> "activated"]
        /\ \A d \in ChangeIds : d # c => changes'[d] = changes[d]
  BY <1>0, Inserted
<1>w. whitelist'[u] = a /\ \A v \in Users : v # u => whitelist'[v] = whitelist[v]
  BY DEF TypeOK
<1>f. \A d \in ChangeIds : changes[d].user = u => changes[d].status = "none"
  BY DEF FirstCounts
<1>2. IdsFollowTime'
  BY <1>0, <1>1 DEF IdsFollowTime, DueInTime
<1>3. DueInTime' /\ AddressGiven'
  BY <1>0, <1>1 DEF DueInTime, AddressGiven
<1>4. WaitingIsNewer'
  BY <1>1, <1>f DEF WaitingIsNewer
<1>5. FirstCounts'
  <2>1. a # NoAddress
    BY VaultRequestsAssumption
  <2> QED
    BY <1>1, <1>w, <2>1 DEF FirstCounts
<1>6. NewestChangeCounts'
  <2>1. /\ changes'[c].user = u /\ changes'[c].addr = a
        /\ changes'[c].status = "activated" /\ changes'[c].due <= now'
        /\ \A d \in ChangeIds :
             changes'[d].user = u /\ changes'[d].status = "activated" => d <= c
    BY <1>0, <1>1, <1>f
  <2> QED
    BY <1>1, <1>w, <2>1 DEF NewestChangeCounts, Matured
<1> QED
  BY <1>2, <1>3, <1>4, <1>5, <1>6

\* /cancelwhitelist takes a waiting change away.
LEMMA Cancelled ==
  ASSUME TypeOK, ChangeInv, NEW u \in Users, CancelPending(u), UNCHANGED <<whitelist, now>>
  PROVE  ChangeInv'
<1> USE DEF ChangeInv
<1>1. \A d \in ChangeIds :
        /\ changes'[d].user = changes[d].user /\ changes'[d].addr = changes[d].addr
        /\ changes'[d].at = changes[d].at /\ changes'[d].due = changes[d].due
        /\ \/ changes'[d].status = changes[d].status
           \/ changes[d].status = "pending" /\ changes'[d].status = "cancelled"
  <2>1. CASE PendingChanges(u) = {}
    BY <2>1 DEF CancelPending
  <2>2. CASE PendingChanges(u) # {}
    <3> DEFINE m == Max(PendingChanges(u))
    <3>1. m \in PendingChanges(u)
      BY <2>2, VaultRequestsAssumption, MaxOfIds DEF PendingChanges
    <3>2. changes' = [changes EXCEPT ![m].status = "cancelled"]
      BY <2>2 DEF CancelPending
    <3> HIDE DEF m
    <3> QED
      BY <3>1, <3>2 DEF PendingChanges, TypeOK
  <2> QED
    BY <2>1, <2>2
<1>2. IdsFollowTime' /\ DueInTime' /\ AddressGiven' /\ WaitingIsNewer' /\ FirstCounts'
  BY <1>1 DEF IdsFollowTime, DueInTime, AddressGiven, WaitingIsNewer, FirstCounts
<1>3. NewestChangeCounts'
  BY <1>1 DEF NewestChangeCounts, Matured
<1> QED
  BY <1>2, <1>3

\* activateDue makes the newest matured change of each user count.
LEMMA Activated ==
  ASSUME TypeOK, ChangeInv, ActivateDue
  PROVE  ChangeInv'
<1> USE DEF ChangeInv
<1>0. now \in Nat /\ now' = now
  BY DEF ActivateDue, TypeOK
<1>1. \A d \in ChangeIds :
        /\ changes'[d].user = changes[d].user /\ changes'[d].addr = changes[d].addr
        /\ changes'[d].at = changes[d].at /\ changes'[d].due = changes[d].due
        /\ (\E u \in Users : d \in DueChanges(u)) => changes'[d].status = "activated"
        /\ ~(\E u \in Users : d \in DueChanges(u)) => changes'[d].status = changes[d].status
  BY DEF ActivateDue, TypeOK
<1>2. \A u \in Users : \A d \in DueChanges(u) :
        /\ d \in ChangeIds /\ changes[d].user = u /\ changes[d].status = "pending"
        /\ changes[d].due <= now
  BY DEF DueChanges, PendingChanges
<1>3. ASSUME NEW d \in ChangeIds, changes[d].user \in Users, changes[d].status = "pending",
             changes[d].due <= now
      PROVE  d \in DueChanges(changes[d].user)
  BY <1>3 DEF DueChanges, PendingChanges
<1>u. \A d \in ChangeIds : changes[d].status = "pending" => changes[d].at \in Nat /\ changes[d].due \in Nat
  BY DEF TypeOK
<1>4. IdsFollowTime'
  BY <1>1, <1>2 DEF IdsFollowTime
<1>5. DueInTime' /\ AddressGiven'
  BY <1>0, <1>1, <1>2 DEF DueInTime, AddressGiven
<1>6. ASSUME NEW c \in ChangeIds, NEW d \in ChangeIds, changes'[c].status = "pending",
             changes'[d].status = "activated", changes'[c].user = changes'[d].user
      PROVE  d < c
  <2>1. changes[c].status = "pending" /\ changes[c].user = changes[d].user
    BY <1>1, <1>6
  <2>2. CASE changes[d].status = "activated"
    BY <2>1, <2>2 DEF WaitingIsNewer
  <2>3. CASE changes[d].status # "activated"
    <3>1. PICK u \in Users : d \in DueChanges(u)
      BY <1>1, <1>6, <2>3
    <3>2. changes[d].user = u /\ changes[d].status = "pending" /\ changes[d].due <= now
      BY <1>2, <3>1
    <3>3. ~(changes[c].due <= now)
      BY <1>1, <1>3, <1>6, <2>1, <3>2
    <3>4. changes[c].due = changes[c].at + Cooldown /\ changes[d].due = changes[d].at + Cooldown
      BY <2>1, <3>2 DEF DueInTime
    <3>5. changes[d].at < changes[c].at
      BY <1>0, <1>u, <2>1, <3>2, <3>3, <3>4, VaultRequestsAssumption
    <3>6. c # d
      BY <1>u, <2>1, <3>5
    <3>7. ~(c < d)
      BY <1>u, <2>1, <3>2, <3>5 DEF IdsFollowTime
    <3> QED
      BY <3>6, <3>7
  <2> QED
    BY <2>2, <2>3
<1>7. WaitingIsNewer'
  BY <1>6 DEF WaitingIsNewer
<1>8. \A u \in Users : DueChanges(u) # {} =>
        /\ Max(DueChanges(u)) \in DueChanges(u)
        /\ \A d \in DueChanges(u) : d <= Max(DueChanges(u))
        /\ whitelist'[u] = changes[Max(DueChanges(u))].addr
  <2> SUFFICES ASSUME NEW u \in Users, DueChanges(u) # {}
               PROVE  /\ Max(DueChanges(u)) \in DueChanges(u)
                      /\ \A d \in DueChanges(u) : d <= Max(DueChanges(u))
                      /\ whitelist'[u] = changes[Max(DueChanges(u))].addr
    OBVIOUS
  <2>1. DueChanges(u) \in SUBSET (1..MaxChanges)
    BY DEF DueChanges, PendingChanges
  <2>2. Max(DueChanges(u)) \in DueChanges(u) /\ \A d \in DueChanges(u) : d <= Max(DueChanges(u))
    BY <2>1, VaultRequestsAssumption, MaxOfIds
  <2>3. whitelist'[u] = changes[Max(DueChanges(u))].addr
    BY DEF ActivateDue
  <2> QED
    BY <2>2, <2>3
<1>9. \A u \in Users : DueChanges(u) = {} => whitelist'[u] = whitelist[u]
  BY DEF ActivateDue
<1>10. ASSUME NEW u \in Users, DueChanges(u) = {}, NEW d \in ChangeIds, changes[d].user = u
       PROVE  changes'[d].status = changes[d].status
  BY <1>1, <1>2, <1>10
<1>11. FirstCounts'
  <2> SUFFICES ASSUME NEW u \in Users, whitelist'[u] = NoAddress,
                      NEW d \in ChangeIds, changes'[d].user = u
               PROVE  changes'[d].status = "none"
    BY DEF FirstCounts
  <2>1. changes[d].user = u
    BY <1>1
  <2>2. CASE DueChanges(u) = {}
    BY <1>9, <1>10, <2>1, <2>2 DEF FirstCounts
  <2>3. CASE DueChanges(u) # {}
    <3>1. PICK c \in ChangeIds : c \in DueChanges(u) /\ whitelist'[u] = changes[c].addr
      BY <1>2, <1>8, <2>3
    <3>2. changes[c].addr = NoAddress /\ changes[c].status = "pending"
      BY <1>2, <3>1
    <3> QED
      BY <3>1, <3>2, VaultRequestsAssumption DEF AddressGiven
  <2> QED
    BY <2>2, <2>3
<1>12. NewestChangeCounts'
  <2> SUFFICES ASSUME NEW u \in Users, whitelist'[u] # NoAddress
               PROVE  \E c \in ChangeIds :
                        /\ changes'[c].user = u /\ changes'[c].addr = whitelist'[u]
                        /\ changes'[c].status = "activated" /\ changes'[c].due <= now'
                        /\ \A d \in ChangeIds :
                             changes'[d].user = u /\ changes'[d].status = "activated" => d <= c
    BY DEF NewestChangeCounts, Matured
  <2>1. CASE DueChanges(u) = {}
    <3>1. PICK c \in ChangeIds :
            /\ Matured(c, u, whitelist[u], now)
            /\ \A d \in ChangeIds : changes[d].user = u /\ changes[d].status = "activated" => d <= c
      BY <1>9, <2>1 DEF NewestChangeCounts
    <3> QED
      BY <1>0, <1>1, <1>9, <1>10, <2>1, <3>1 DEF Matured
  <2>2. CASE DueChanges(u) # {}
    <3>1. PICK c \in ChangeIds :
            /\ c \in DueChanges(u) /\ \A d \in DueChanges(u) : d <= c
            /\ whitelist'[u] = changes[c].addr
      BY <1>2, <1>8, <2>2
    <3>2. /\ changes'[c].user = u /\ changes'[c].addr = whitelist'[u]
          /\ changes'[c].status = "activated" /\ changes'[c].due <= now'
      BY <1>0, <1>1, <1>2, <3>1
    <3>3. ASSUME NEW d \in ChangeIds, changes'[d].user = u, changes'[d].status = "activated"
          PROVE  d <= c
      <4>1. CASE changes[d].status = "activated"
        BY <1>1, <1>2, <3>1, <3>3, <4>1 DEF WaitingIsNewer
      <4>2. CASE changes[d].status # "activated"
        BY <1>1, <1>2, <3>1, <3>3, <4>2
      <4> QED
        BY <4>1, <4>2
    <3> QED
      BY <3>1, <3>2, <3>3
  <2> QED
    BY <2>1, <2>2
<1> QED
  BY <1>4, <1>5, <1>7, <1>11, <1>12

LEMMA ChangeStep == TypeOK /\ ChangeInv /\ ChangesStep => ChangeInv'
<1> SUFFICES ASSUME TypeOK, ChangeInv, ChangesStep PROVE ChangeInv'
  OBVIOUS
<1>1. CASE UNCHANGED <<changes, whitelist>> /\ now' \in {now, now + 1}
  <2>1. now \in Nat /\ now' \in Nat /\ now <= now'
    BY <1>1 DEF TypeOK
  <2>2. \A c \in ChangeIds : changes[c].at \in Nat /\ changes[c].due \in Nat
    BY DEF TypeOK, ChangeType
  <2>3. DueInTime' /\ NewestChangeCounts'
    BY <1>1, <2>1, <2>2 DEF ChangeInv, DueInTime, NewestChangeCounts, Matured
  <2> QED
    BY <1>1, <2>3
       DEF ChangeInv, IdsFollowTime, AddressGiven, WaitingIsNewer, FirstCounts
<1>2. ASSUME NEW u \in Users, NEW a \in Addresses, RequestChange(u, a), now' = now
      PROVE  ChangeInv'
  <2>1. CASE whitelist[u] = NoAddress
    BY <1>2, <2>1, FirstInserted DEF RequestChange
  <2>2. CASE whitelist[u] # NoAddress
    BY <1>2, <2>2, PendingInserted DEF RequestChange
  <2> QED
    BY <2>1, <2>2
<1>3. ASSUME NEW u \in Users, CancelPending(u), UNCHANGED <<whitelist, now>>
      PROVE  ChangeInv'
  BY <1>3, Cancelled
<1>4. CASE ActivateDue
  BY <1>4, Activated
<1> QED
  BY <1>1, <1>2, <1>3, <1>4 DEF ChangesStep

\* What has matured stays so: no step rewrites an activated change.
LEMMA MaturedStays ==
  ASSUME TypeOK, ChangeInv, ChangesStep, NEW c \in ChangeIds, changes[c].status = "activated"
  PROVE  changes'[c] = changes[c]
<1>1. ASSUME NEW u \in Users, NEW a \in Addresses, NEW due \in Nat,
             NEW st \in {"pending", "activated"}, InsertChange(u, a, due, st)
      PROVE  changes'[c] = changes[c]
  BY <1>1 DEF InsertChange, NextId, TypeOK
<1>2. now \in Nat /\ now + Cooldown \in Nat
  BY VaultRequestsAssumption DEF TypeOK
<1>3. ASSUME NEW u \in Users, NEW a \in Addresses, RequestChange(u, a)
      PROVE  changes'[c] = changes[c]
  BY <1>1, <1>2, <1>3 DEF RequestChange
<1>4. ASSUME NEW u \in Users, CancelPending(u)
      PROVE  changes'[c] = changes[c]
  <2>1. CASE PendingChanges(u) = {}
    BY <1>4, <2>1 DEF CancelPending
  <2>2. CASE PendingChanges(u) # {}
    <3> DEFINE m == Max(PendingChanges(u))
    <3>1. m \in PendingChanges(u)
      BY <2>2, VaultRequestsAssumption, MaxOfIds DEF PendingChanges
    <3>2. changes' = [changes EXCEPT ![m].status = "cancelled"]
      BY <1>4, <2>2 DEF CancelPending
    <3> HIDE DEF m
    <3>3. m # c
      BY <3>1 DEF PendingChanges
    <3> QED
      BY <3>2, <3>3 DEF TypeOK
  <2> QED
    BY <2>1, <2>2
<1>5. CASE ActivateDue
  <2>1. \A u \in Users : c \notin DueChanges(u)
    BY DEF DueChanges, PendingChanges
  <2> QED
    BY <1>5, <2>1 DEF ActivateDue
<1> QED
  BY <1>3, <1>4, <1>5 DEF ChangesStep

\* The destination _doWithdraw reads is the active address, which has matured.
LEMMA ReadMatured ==
  ASSUME TypeOK, ChangeInv, NEW u \in Users, NEW usd, DoWithdraw(u, usd)
  PROVE  call'.pc = "enqueue" =>
           \E c \in ChangeIds : Matured(c, call'.user, call'.dest, now)
<1> SUFFICES ASSUME call'.pc = "enqueue"
             PROVE  \E c \in ChangeIds : Matured(c, call'.user, call'.dest, now)
  OBVIOUS
<1>1. whitelist[u] # NoAddress /\ call'.user = u /\ call'.dest = whitelist[u]
  BY DEF DoWithdraw, NoCall, Call
<1> QED
  BY <1>1 DEF ChangeInv, NewestChangeCounts

\* The handler's destination, before the changes move.
LEMMA CallStep ==
  ASSUME TypeOK, ChangeInv, CallMatured, [Next]_vars
  PROVE  call'.pc = "enqueue" =>
           \E c \in ChangeIds : Matured(c, call'.user, call'.dest, now)
<1> DEFINE P == call'.pc = "enqueue" =>
                  \E c \in ChangeIds : Matured(c, call'.user, call'.dest, now)
<1>0. ASSUME UNCHANGED call PROVE P
  BY <1>0 DEF CallMatured
<1>1. ASSUME call'.pc # "enqueue" PROVE P
  BY <1>1
<1>n. NoCall.pc # "enqueue"
  BY DEF NoCall, Call
<1>2. ASSUME NEW u \in Users, NEW usd, DoWithdraw(u, usd) PROVE P
  BY <1>2, ReadMatured
<1> HIDE DEF P
<1> USE DEF db, mem
<1>3. ASSUME NEW u \in Users, NEW a \in Amounts, HandleWithdraw(u, a) \/ EnterAmount(u, a)
      PROVE  P
  <2>1. call'.pc # "enqueue"
    BY <1>3 DEF HandleWithdraw, EnterAmount, Call, NoCall
  <2> QED
    BY <1>1, <2>1
<1>4. ASSUME NEW u \in Users, NEW a \in Addresses, HandleSetWhitelist(u, a) \/ EnterAddress(u, a)
      PROVE  P
  BY <1>0, <1>4 DEF HandleSetWhitelist, EnterAddress
<1>5. ASSUME NEW u \in Users,
             AskAmount(u) \/ AskAddress(u) \/ HandleReveal(u) \/ DropPrompt(u)
             \/ HandleCancelWhitelist(u) \/ SessionEnds(u)
      PROVE  P
  BY <1>0, <1>5 DEF AskAmount, AskAddress, HandleReveal, DropPrompt, HandleCancelWhitelist,
     SessionEnds
<1>6. ASSUME NEW u \in Users, RightCode(u) PROVE P
  <2>1. CASE DoWithdraw(u, pending[u].amount)
    BY <1>2, <2>1
  <2>2. CASE UNCHANGED call
    BY <1>0, <2>2
  <2> QED
    BY <1>6, <2>1, <2>2 DEF RightCode
<1>7. ASSUME NEW r \in RowIds, HandleForceProcess(r) \/ Settle(r) PROVE P
  BY <1>0, <1>7 DEF HandleForceProcess, Settle
<1>8. ASSUME CheckRequest PROVE P
  <2>1. call.user \in Users
    BY <1>8 DEF CheckRequest, TypeOK
  <2>2. Accept(call.user, Usd(call.user, call.amount))
    BY <1>8 DEF CheckRequest
  <2>3. DoWithdraw(call.user, Usd(call.user, call.amount)) \/ call' = NoCall
    BY <2>2 DEF Accept
  <2> QED
    BY <1>1, <1>2, <1>n, <2>1, <2>3
<1>9. ASSUME RefuseRequest \/ Enqueue \/ Crash PROVE P
  BY <1>1, <1>9, <1>n DEF RefuseRequest, Enqueue, Crash
<1>10. ASSUME ActivateDue \/ Advance PROVE P
  BY <1>0, <1>10 DEF ActivateDue, Advance
<1>11. ASSUME UNCHANGED vars PROVE P
  BY <1>0, <1>11 DEF vars
<1>12. P
  BY <1>3, <1>4, <1>5, <1>6, <1>7, <1>8, <1>9, <1>10, <1>11 DEF Next, HandlerStep, TickStep
<1> QED
  BY <1>12 DEF P

\* A row is queued with the handler's destination; nothing moves it later.
LEMMA RowsStep ==
  ASSUME TypeOK, [Next]_vars, NEW r \in RowIds, rows'[r].status # "none"
  PROVE  \/ /\ rows[r].status # "none" /\ rows'[r].user = rows[r].user
            /\ rows'[r].dest = rows[r].dest /\ rows'[r].at = rows[r].at
         \/ /\ call.pc = "enqueue" /\ rows'[r].user = call.user
            /\ rows'[r].dest = call.dest /\ rows'[r].at = now
<1> DEFINE P == \/ /\ rows[r].status # "none" /\ rows'[r].user = rows[r].user
                   /\ rows'[r].dest = rows[r].dest /\ rows'[r].at = rows[r].at
                \/ /\ call.pc = "enqueue" /\ rows'[r].user = call.user
                   /\ rows'[r].dest = call.dest /\ rows'[r].at = now
<1>0. ASSUME UNCHANGED rows PROVE P
  BY <1>0
<1>1. ASSUME NEW q \in RowIds, NEW st, rows[q].status # "none",
             rows' = [rows EXCEPT ![q].status = st]
      PROVE  P
  BY <1>1 DEF TypeOK, RowType
<1>2. ASSUME Enqueue PROVE P
  BY <1>2 DEF Enqueue, TypeOK
<1> HIDE DEF P
<1> USE DEF db, mem
<1>3. ASSUME NEW u \in Users, NEW a \in Amounts, HandleWithdraw(u, a) \/ EnterAmount(u, a)
      PROVE  P
  BY <1>0, <1>3 DEF HandleWithdraw, EnterAmount
<1>4. ASSUME NEW u \in Users, NEW a \in Addresses, HandleSetWhitelist(u, a) \/ EnterAddress(u, a)
      PROVE  P
  BY <1>0, <1>4 DEF HandleSetWhitelist, EnterAddress
<1>5. ASSUME NEW u \in Users,
             AskAmount(u) \/ AskAddress(u) \/ HandleReveal(u) \/ DropPrompt(u)
             \/ HandleCancelWhitelist(u) \/ SessionEnds(u) \/ RightCode(u)
      PROVE  P
  BY <1>0, <1>5 DEF AskAmount, AskAddress, HandleReveal, DropPrompt, HandleCancelWhitelist,
     SessionEnds, RightCode
<1>6. ASSUME NEW q \in RowIds, HandleForceProcess(q) PROVE P
  BY <1>1, <1>6 DEF HandleForceProcess
<1>7. ASSUME NEW q \in RowIds, Settle(q) PROVE P
  BY <1>1, <1>7 DEF Settle
<1>8. ASSUME CheckRequest \/ RefuseRequest \/ Crash \/ ActivateDue \/ Advance PROVE P
  BY <1>0, <1>8 DEF CheckRequest, RefuseRequest, Crash, ActivateDue, Advance
<1>9. ASSUME UNCHANGED vars PROVE P
  BY <1>0, <1>9 DEF vars
<1>10. P
  BY <1>2, <1>3, <1>4, <1>5, <1>6, <1>7, <1>8, <1>9 DEF Next, HandlerStep, TickStep
<1> QED
  BY <1>10 DEF P

LEMMA SafeStep == SafeInv /\ [Next]_vars => SafeInv'
<1> SUFFICES ASSUME SafeInv, [Next]_vars PROVE SafeInv'
  OBVIOUS
<1> USE DEF SafeInv
<1>1. TypeOK'
  BY TypeStep
<1>2. ChangesStep
  BY OnlyChangesSteps
<1>3. ChangeInv'
  BY <1>2, ChangeStep
<1>4. now \in Nat /\ now' \in Nat /\ now <= now'
  <2>1. now' \in {now, now + 1}
    BY <1>2 DEF ChangesStep, ActivateDue
  <2> QED
    BY <2>1 DEF TypeOK
<1>5. ASSUME NEW c \in ChangeIds, changes[c].status = "activated"
      PROVE  changes'[c] = changes[c]
  BY <1>2, <1>5, MaturedStays
<1>d. \A c \in ChangeIds : changes[c].due \in Nat
  BY DEF TypeOK, ChangeType
<1>6. CallMatured'
  <2> SUFFICES ASSUME call'.pc = "enqueue"
               PROVE  \E c \in ChangeIds : Matured(c, call.user, call.dest, now)'
    BY DEF CallMatured
  <2>1. PICK c \in ChangeIds : Matured(c, call'.user, call'.dest, now)
    BY CallStep
  <2> QED
    BY <1>4, <1>5, <1>d, <2>1 DEF Matured
<1>7. DestinationMatured'
  <2> SUFFICES ASSUME NEW r \in RowIds, rows'[r].status # "none"
               PROVE  \E c \in ChangeIds :
                        Matured(c, rows[r].user, rows[r].dest, rows[r].at)'
    BY DEF DestinationMatured
  <2>1. \E c \in ChangeIds : Matured(c, rows'[r].user, rows'[r].dest, rows'[r].at)
    BY RowsStep DEF CallMatured, DestinationMatured
  <2>2. PICK c \in ChangeIds : Matured(c, rows'[r].user, rows'[r].dest, rows'[r].at)
    BY <2>1
  <2> QED
    BY <1>5, <2>2 DEF Matured
<1> QED
  BY <1>1, <1>3, <1>6, <1>7

LEMMA SafeInit == Init => SafeInv
<1> SUFFICES ASSUME Init PROVE SafeInv
  OBVIOUS
<1> USE VaultRequestsAssumption
<1>1. TypeOK
  <2>1. NoRow \in RowType /\ NoChange \in ChangeType
    BY DEF NoRow, RowType, NoChange, ChangeType
  <2>2. NoPrompt \in PromptType /\ NoCall \in CallType
    BY DEF NoPrompt, Prompt, PromptType, NoCall, Call, CallType
  <2>3. NoPrompt.kind # "whitelist" /\ NoCall.pc = "idle"
    BY DEF NoPrompt, Prompt, NoCall, Call
  <2> QED
    BY <2>1, <2>2, <2>3 DEF Init, TypeOK
<1>2. \A c \in ChangeIds : changes[c].status = "none"
  BY DEF Init, NoChange
<1>3. ChangeInv
  BY <1>2 DEF Init, ChangeInv, IdsFollowTime, DueInTime, AddressGiven, WaitingIsNewer,
     FirstCounts, NewestChangeCounts
<1>4. CallMatured /\ DestinationMatured
  BY DEF Init, CallMatured, NoCall, Call, DestinationMatured, NoRow
<1> QED
  BY <1>1, <1>3, <1>4 DEF SafeInv

-----------------------------------------------------------------------------
(* What VaultRequests promises. *)

\* The handlers, the tick and a crash keep every variable in its type: a
\* handler that waits has a user and a prompted change has an address.
THEOREM TypeCorrect == Spec => []TypeOK
<1>1. Init => TypeOK
  BY SafeInit DEF SafeInv
<1> QED
  BY <1>1, TypeStep, PTL DEF Spec

LEMMA SafeAlways == Spec => []SafeInv
  BY SafeInit, SafeStep, PTL DEF Spec

\* enqueueWithdrawal pays only to an address whose change had matured when
\* the row was queued, for any number of users, changes and rows, whatever
\* activateDue and cancelPending do while the handler waits for a code or for
\* the NAV.
THEOREM PaysToMatured == Spec => []DestinationMatured
<1>1. SafeInv => DestinationMatured
  BY DEF SafeInv
<1> QED
  BY <1>1, SafeAlways, PTL

\* activateDue, requestChange and cancelPending leave vault_users with the
\* address of the newest activated change.
THEOREM NewestCounts == Spec => []NewestChangeCounts
<1>1. SafeInv => NewestChangeCounts
  BY DEF SafeInv, ChangeInv
<1> QED
  BY <1>1, SafeAlways, PTL

\* Only activateDue replaces an address, and only by a change requested a
\* cooldown earlier that still waits.
THEOREM Replaced == Spec => ReplacedAfterCooldown
<1>1. SafeInv /\ [Next]_vars => [WaitedCooldown]_vars
  <2> SUFFICES ASSUME SafeInv, [Next]_vars,
                      NEW u \in Users, whitelist[u] # NoAddress, whitelist'[u] # whitelist[u]
               PROVE  \E c \in ChangeIds :
                        /\ changes[c].user = u /\ changes[c].addr = whitelist'[u]
                        /\ changes[c].status = "pending" /\ changes[c].at + Cooldown <= now
    BY DEF WaitedCooldown
  <2>1. ChangesStep
    BY OnlyChangesSteps DEF SafeInv
  <2>2. \A v \in Users, a \in Addresses : ~RequestChange(v, a)
    BY DEF RequestChange, SafeInv, TypeOK
  <2>3. ActivateDue
    BY <2>1, <2>2 DEF ChangesStep
  <2>4. DueChanges(u) # {} /\ whitelist'[u] = changes[Max(DueChanges(u))].addr
    BY <2>3 DEF ActivateDue
  <2>5. DueChanges(u) \in SUBSET (1..MaxChanges)
    BY DEF DueChanges, PendingChanges
  <2>6. PICK c \in DueChanges(u) : whitelist'[u] = changes[c].addr
    BY <2>4, <2>5, VaultRequestsAssumption, MaxOfIds
  <2>7. c \in ChangeIds /\ changes[c].user = u /\ changes[c].status = "pending"
        /\ changes[c].due <= now
    BY <2>6 DEF DueChanges, PendingChanges
  <2>8. changes[c].due = changes[c].at + Cooldown
    BY <2>7 DEF SafeInv, ChangeInv, DueInTime
  <2> QED
    BY <2>6, <2>7, <2>8
<1> QED
  BY <1>1, SafeAlways, PTL DEF Spec, ReplacedAfterCooldown
=============================================================================
