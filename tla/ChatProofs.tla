----------------------------- MODULE ChatProofs -----------------------------
(***************************************************************************)
(* Proofs about modules TotpGate and Chat, for every value of their        *)
(* constants. First what each handler of the gate preserves; then the poll *)
(* loop: what the gate promises its users holds for whatever Telegram      *)
(* delivers, redelivers after a crash and holds back after an exception,   *)
(* and the updates are taken in order.                                     *)
(***************************************************************************)
EXTENDS Chat, FiniteSetTheorems, SequenceTheorems, TLAPS

\* What can happen to the gate: a handler runs, the process dies, time passes.
GateStep ==
  \/ \E u \in Users :
       \/ HandleAccount(u) \/ HandleAccept(u) \/ HandleDecline(u)
       \/ HandleGuarded(u) \/ HandleResetTotp(u)
       \/ \E k \in {"entry", "none"} : PromptButton(u, k)
       \/ \E c \in Int : HandleMessage(u, c)
       \/ DiesInAccept(u) /\ MemoryLost
  \/ Restart \/ Tick \/ UNCHANGED gate

-----------------------------------------------------------------------------
(* The limiter. As long as no lockout is in force, every refused code of    *)
(* the window is still in the failure list, which is shorter than the       *)
(* threshold; a lockout, once over, has emptied the window.                 *)

\* The entries of a list from time s on.
From(list, s) == {e \in list : e[1] >= s}

\* Everything in the window that was refused is in the failure list f.
Listed(f, m, t) ==
  \A s \in Int : s > t - FailureWindow => Cardinality(From(m, s)) <= Cardinality(From(f, s))

\* A lockout until l answers for all the refused codes.
LockedOut(m, l, t) ==
  /\ \A e \in m : e[1] <= l - Lockout
  /\ Cardinality(From(m, t - FailureWindow + 1)) <= Threshold

\* The failure list f, the refused codes m and the lockout l of a user at t.
LimiterFits(f, m, l, t) ==
  /\ f \in SUBSET (Nat \X Nat) /\ m \in SUBSET (Nat \X Nat) /\ l \in Nat
  /\ IsFiniteSet(f) /\ IsFiniteSet(m)
  /\ \A e \in f \cup m : e[1] <= t
  /\ \A e \in f : e[1] = t => e[2] <= Cardinality({x \in f : t - x[1] <= FailureWindow})
  /\ Cardinality(f) < Threshold
  /\ Listed(f, m, t) \/ LockedOut(m, l, t)

LEMMA FromFinite ==
  ASSUME NEW f, IsFiniteSet(f), NEW s
  PROVE  /\ IsFiniteSet(From(f, s)) /\ Cardinality(From(f, s)) \in Nat
         /\ Cardinality(f) \in Nat /\ Cardinality(From(f, s)) <= Cardinality(f)
<1>1. From(f, s) \in SUBSET f
  BY DEF From
<1> QED
  BY <1>1, FS_Subset, FS_CardinalityType

\* Nothing happens to the user, or time passes.
LEMMA LimiterAges ==
  ASSUME NEW f, NEW m, NEW l, NEW t \in Nat, LimiterFits(f, m, l, t), NEW t2 \in {t, t + 1}
  PROVE  LimiterFits(f, m, l, t2)
<1> USE TotpGateAssumption DEF LimiterFits
<1>0. CASE t2 = t
  BY <1>0
<1>1. CASE t2 = t + 1
  <2>1. \A e \in f \cup m : e[1] \in Nat
    OBVIOUS
  <2>2. \A e \in f \cup m : e[1] <= t2 /\ e[1] # t2
    BY <1>1, <2>1
  <2>3. ASSUME Listed(f, m, t) PROVE Listed(f, m, t2)
    BY <1>1, <2>3 DEF Listed
  <2>4. ASSUME LockedOut(m, l, t) PROVE LockedOut(m, l, t2)
    <3> DEFINE M == From(m, t - FailureWindow + 1)  M2 == From(m, t2 - FailureWindow + 1)
    <3>1. M2 \in SUBSET M
      BY <1>1, <2>1 DEF From
    <3>2. IsFiniteSet(M)
      BY FromFinite
    <3>3. Cardinality(M2) <= Cardinality(M) /\ Cardinality(M) \in Nat /\ Cardinality(M2) \in Nat
      BY <3>1, <3>2, FS_Subset, FS_CardinalityType
    <3>4. Cardinality(M) <= Threshold
      BY <2>4 DEF LockedOut
    <3>5. Cardinality(M2) <= Threshold
      BY <3>3, <3>4
    <3> QED
      BY <2>4, <3>5 DEF LockedOut
  <2> QED
    BY <2>2, <2>3, <2>4
<1> QED
  BY <1>0, <1>1

\* recordSuccess and a restart.
LEMMA LimiterCleared ==
  ASSUME NEW t \in Nat
  PROVE  LimiterFits({}, {}, 0, t)
<1>1. \A s : From({}, s) = {}
  BY DEF From
<1>2. IsFiniteSet({}) /\ Cardinality({}) = 0
  BY FS_EmptySet
<1>3. Listed({}, {}, t)
  BY <1>1, <1>2 DEF Listed
<1>4. Cardinality({}) < Threshold
  BY <1>2, TotpGateAssumption
<1> QED
  BY <1>2, <1>3, <1>4 DEF LimiterFits

\* When no lockout is in force the failure list has everything.
LEMMA ListedUnlocked ==
  ASSUME NEW f, NEW m, NEW l, NEW t \in Nat, LimiterFits(f, m, l, t), ~(l > t)
  PROVE  Listed(f, m, t)
<1> SUFFICES ASSUME LockedOut(m, l, t), NEW s \in Int, s > t - FailureWindow
             PROVE  Cardinality(From(m, s)) <= Cardinality(From(f, s))
  BY DEF LimiterFits, Listed
<1>0. FailureWindow \in Nat /\ Lockout \in Nat /\ FailureWindow <= Lockout
  BY TotpGateAssumption
<1>1. \A e \in m : e[1] \in Nat /\ e[1] <= l - Lockout /\ l \in Nat
  BY DEF LimiterFits, LockedOut
<1>2. \A e \in m : ~(e[1] >= s)
  BY <1>0, <1>1
<1>3. From(m, s) = {}
  BY <1>2 DEF From
<1>4. Cardinality(From(m, s)) = 0
  BY <1>3, FS_EmptySet
<1>5. Cardinality(From(f, s)) \in Nat
  BY FromFinite DEF LimiterFits
<1> QED
  BY <1>4, <1>5

\* recordFailure, when no lockout is in force: the list is filtered and
\* extended, the refused codes likewise.
LEMMA LimiterFails ==
  ASSUME NEW f, NEW m, NEW l, NEW t \in Nat, LimiterFits(f, m, l, t), ~(l > t),
         NEW F, F = {x \in f : t - x[1] <= FailureWindow},
         NEW K, K = {x \in m : x[1] > t - FailureWindow},
         NEW F2, F2 = F \cup {<<t, Cardinality(F) + 1>>},
         NEW K2, K2 = K \cup {<<t, Cardinality(K) + 1>>}
  PROVE  /\ Cardinality(F2) < Threshold => LimiterFits(F2, K2, l, t)
         /\ Cardinality(F2) >= Threshold => LimiterFits({}, K2, t + Lockout, t)
<1> DEFINE e == <<t, Cardinality(F) + 1>>
<1> DEFINE g == <<t, Cardinality(K) + 1>>
<1>0. /\ FailureWindow \in Nat /\ Lockout \in Nat /\ Threshold \in Nat
      /\ FailureWindow <= Lockout
  BY TotpGateAssumption
<1>1. F \in SUBSET f /\ K \in SUBSET m
  OBVIOUS
<1>2. /\ IsFiniteSet(f) /\ IsFiniteSet(m) /\ IsFiniteSet(F) /\ IsFiniteSet(K)
      /\ Cardinality(F) \in Nat /\ Cardinality(K) \in Nat /\ Cardinality(f) \in Nat
      /\ Cardinality(F) <= Cardinality(f)
  BY <1>1, FS_Subset, FS_CardinalityType DEF LimiterFits
<1>3. f \in SUBSET (Nat \X Nat) /\ m \in SUBSET (Nat \X Nat) /\ \A x \in f \cup m : x[1] <= t
  BY DEF LimiterFits
<1>4. e \notin F
  <2>1. \A x \in f : x[1] = t => x[2] <= Cardinality(F)
    BY DEF LimiterFits
  <2>2. e \in F => e[2] <= Cardinality(F)
    BY <1>1, <2>1
  <2> QED
    BY <1>2, <2>2
<1>5. /\ IsFiniteSet(F2) /\ Cardinality(F2) = Cardinality(F) + 1
      /\ IsFiniteSet(K2)
  BY <1>2, <1>4, FS_AddElement
<1>6. e \in Nat \X Nat /\ g \in Nat \X Nat /\ e[1] = t /\ g[1] = t /\ e[2] = Cardinality(F) + 1
  <2>1. Cardinality(F) + 1 \in Nat /\ Cardinality(K) + 1 \in Nat
    BY <1>2
  <2>2. \A n \in Nat : <<t, n>> \in Nat \X Nat /\ <<t, n>>[1] = t /\ <<t, n>>[2] = n
    OBVIOUS
  <2> QED
    BY <2>1, <2>2
<1>7. F2 \in SUBSET (Nat \X Nat) /\ K2 \in SUBSET (Nat \X Nat) /\ \A x \in F2 \cup K2 : x[1] <= t
  BY <1>1, <1>3, <1>6
<1>8. Listed(f, m, t)
  BY ListedUnlocked
<1>9. ASSUME NEW s \in Int, s > t - FailureWindow
      PROVE  /\ From(F, s) = From(f, s) /\ From(K, s) = From(m, s)
             /\ IsFiniteSet(From(F, s)) /\ IsFiniteSet(From(K, s))
             /\ Cardinality(From(F, s)) \in Nat /\ Cardinality(From(K, s)) \in Nat
             /\ Cardinality(From(K, s)) <= Cardinality(From(F, s))
  <2>1. From(F, s) = From(f, s)
    BY <1>0, <1>3, <1>9 DEF From
  <2>2. From(K, s) = From(m, s)
    BY <1>0, <1>3, <1>9 DEF From
  <2>3. Cardinality(From(m, s)) <= Cardinality(From(f, s))
    BY <1>8, <1>9 DEF Listed
  <2> QED
    BY <1>2, <2>1, <2>2, <2>3, FromFinite
<1> HIDE DEF e, g
<1>e. F2 = F \cup {e} /\ K2 = K \cup {g}
  BY DEF e, g
<1>10. ASSUME NEW s \in Int, s > t - FailureWindow
       PROVE  /\ Cardinality(From(K2, s)) <= Cardinality(From(F2, s))
              /\ Cardinality(From(K2, s)) <= Cardinality(From(K, s)) + 1
  <2>1. CASE s <= t
    <3>1. From(F2, s) = From(F, s) \cup {e} /\ From(K2, s) = From(K, s) \cup {g}
      BY <1>6, <1>e, <2>1 DEF From
    <3>2. e \notin From(F, s)
      BY <1>4 DEF From
    <3>f. /\ IsFiniteSet(From(F, s)) /\ IsFiniteSet(From(K, s))
          /\ Cardinality(From(F, s)) \in Nat /\ Cardinality(From(K, s)) \in Nat
      BY <1>9, <1>10
    <3>3. Cardinality(From(F2, s)) = Cardinality(From(F, s)) + 1
      <4>1. Cardinality(From(F, s) \cup {e}) = Cardinality(From(F, s)) + 1
        BY <3>f, <3>2, FS_AddElement
      <4> QED
        BY <3>1, <4>1
    <3>4. Cardinality(From(K2, s)) <= Cardinality(From(K, s)) + 1
      <4>1. Cardinality(From(K2, s)) \in {Cardinality(From(K, s)), Cardinality(From(K, s)) + 1}
        <5>1. Cardinality(From(K, s) \cup {g}) \in {Cardinality(From(K, s)), Cardinality(From(K, s)) + 1}
          BY <3>f, FS_AddElement
        <5> QED
          BY <3>1, <5>1
      <4> QED
        BY <3>f, <4>1
    <3>5. Cardinality(From(K2, s)) \in Nat
      BY <1>5, FromFinite
    <3> QED
      BY <1>9, <1>10, <3>3, <3>4, <3>5
  <2>2. CASE ~(s <= t)
    <3>1. From(F2, s) = From(F, s) /\ From(K2, s) = From(K, s)
      BY <1>6, <1>e, <2>2 DEF From
    <3> QED
      BY <1>9, <1>10, <3>1
  <2> QED
    BY <2>1, <2>2
<1>11. ASSUME Cardinality(F2) < Threshold PROVE LimiterFits(F2, K2, l, t)
  <2>1. Listed(F2, K2, t)
    BY <1>10 DEF Listed
  <2>2. \A x \in F2 : x[1] = t => x[2] <= Cardinality(F) + 1
    <3>1. \A x \in F : x[1] = t => x[2] <= Cardinality(F) /\ x[2] \in Nat
      BY <1>1, <1>3 DEF LimiterFits
    <3> QED
      BY <1>2, <1>6, <1>e, <3>1
  <2>3. {x \in F2 : t - x[1] <= FailureWindow} = F2
    BY <1>0, <1>6, <1>e
  <2> QED
    BY <1>5, <1>7, <1>11, <2>1, <2>2, <2>3 DEF LimiterFits
<1>12. ASSUME Cardinality(F2) >= Threshold PROVE LimiterFits({}, K2, t + Lockout, t)
  <2> DEFINE s == t - FailureWindow + 1
  <2>1. s \in Int /\ s > t - FailureWindow
    BY <1>0
  <2> HIDE DEF s
  <2>2. /\ Cardinality(From(K2, s)) <= Cardinality(From(K, s)) + 1
        /\ Cardinality(From(K, s)) <= Cardinality(From(F, s))
        /\ Cardinality(From(K, s)) \in Nat /\ Cardinality(From(F, s)) \in Nat
    BY <1>9, <1>10, <2>1
  <2>3. Cardinality(From(F, s)) <= Cardinality(F)
    BY <1>2, FromFinite
  <2>4. Cardinality(f) < Threshold
    BY DEF LimiterFits
  <2>5. Cardinality(From(K2, s)) \in Nat
    BY <1>5, FromFinite
  <2>6. Cardinality(From(K2, s)) <= Threshold
    BY <1>0, <1>2, <2>2, <2>3, <2>4, <2>5
  <2>7. \A x \in K2 : x[1] <= (t + Lockout) - Lockout
    <3>1. \A x \in K2 : x[1] \in Nat /\ x[1] <= t
      BY <1>7
    <3>2. (t + Lockout) - Lockout = t
      BY <1>0
    <3> QED
      BY <3>1, <3>2
  <2>8. LockedOut(K2, t + Lockout, t)
    BY <2>6, <2>7 DEF LockedOut, s
  <2>9. IsFiniteSet({}) /\ Cardinality({}) < Threshold
    BY TotpGateAssumption, FS_EmptySet
  <2> QED
    BY <1>0, <1>5, <1>7, <2>8, <2>9 DEF LimiterFits
<1> QED
  BY <1>11, <1>12

\* What the limiter's invariant says of the window.
LEMMA LimiterBounds ==
  ASSUME NEW f, NEW m, NEW l, NEW t \in Nat, LimiterFits(f, m, l, t)
  PROVE  Cardinality({x \in m : x[1] > t - FailureWindow}) <= Threshold
<1> DEFINE s == t - FailureWindow + 1
<1>0. FailureWindow \in Nat /\ Threshold \in Nat /\ s \in Int /\ s > t - FailureWindow
  BY TotpGateAssumption
<1>1. {x \in m : x[1] > t - FailureWindow} = From(m, s)
  BY <1>0 DEF LimiterFits, From
<1>2. CASE LockedOut(m, l, t)
  BY <1>1, <1>2 DEF LockedOut
<1>3. CASE Listed(f, m, t)
  <2>1. Cardinality(From(m, s)) <= Cardinality(From(f, s))
    BY <1>0, <1>3 DEF Listed
  <2>2. /\ Cardinality(From(f, s)) <= Cardinality(f) /\ Cardinality(f) < Threshold
        /\ Cardinality(From(m, s)) \in Nat /\ Cardinality(From(f, s)) \in Nat
        /\ Cardinality(f) \in Nat
    BY FromFinite DEF LimiterFits
  <2>3. Cardinality(From(m, s)) <= Threshold
    <3> HIDE DEF s
    <3> QED
      BY <1>0, <2>1, <2>2
  <2> QED
    BY <1>1, <2>3
<1> QED
  BY <1>2, <1>3 DEF LimiterFits

\* The state of every user's limiter.
LimiterInv == \A u \in Users : LimiterFits(failures[u], misses[u], lockedUntil[u], now)

HistoryTyped ==
  /\ misses \in [Users -> SUBSET (Nat \X Nat)]
  /\ proved \in [Users -> Int]
  /\ unproved \subseteq Users

\* What a step can do to the limiter. Locked users are not dispatched, so that
\* a failure is recorded only when no lockout is in force.
LimiterMove ==
  \/ UNCHANGED <<failures, lockedUntil, misses>> /\ now' \in {now, now + 1}
  \/ \E u \in Users : ~Locked(u) /\ RecordFailure(u) /\ now' = now
  \/ \E u \in Users : RecordSuccess(u) /\ now' \in {now, now + 1}
  \/ /\ failures' = [u \in Users |-> {}] /\ misses' = [u \in Users |-> {}]
     /\ lockedUntil' = [u \in Users |-> 0] /\ now' = now

LEMMA OnlyLimiterMoves == GateTypeOK /\ GateStep => LimiterMove
<1> SUFFICES ASSUME GateTypeOK, GateStep PROVE LimiterMove
  OBVIOUS
<1> USE DEF db, mem, limiter, history
<1>s. \A slip \in 0..1 : now + slip \in {now, now + 1}
  BY DEF GateTypeOK
<1>0. ASSUME UNCHANGED <<failures, lockedUntil, misses>>, now' \in {now, now + 1} PROVE LimiterMove
  BY <1>0 DEF LimiterMove
<1>1. ASSUME NEW u \in Users, HandleAccount(u) \/ HandleAccept(u) \/ HandleDecline(u) PROVE LimiterMove
  BY <1>0, <1>1 DEF HandleAccount, HandleAccept, HandleDecline
<1>2. ASSUME NEW u \in Users, HandleGuarded(u) \/ HandleResetTotp(u) PROVE LimiterMove
  BY <1>0, <1>2 DEF HandleGuarded, HandleResetTotp
<1>3. ASSUME NEW u \in Users, NEW k, PromptButton(u, k) PROVE LimiterMove
  BY <1>0, <1>3 DEF PromptButton
<1>4. ASSUME NEW u \in Users, DiesInAccept(u), MemoryLost PROVE LimiterMove
  BY <1>4 DEF DiesInAccept, MemoryLost, LimiterMove
<1>5. ASSUME NEW u \in Users, NEW c \in Int, HandleMessage(u, c) PROVE LimiterMove
  <2>1. CASE UNCHANGED gate
    BY <1>0, <2>1 DEF gate
  <2>2. ASSUME NEW slip \in 0..1, SetupConfirmed(u, c, slip) \/ GateOpens(u, c, slip) PROVE LimiterMove
    BY <1>s, <2>2 DEF SetupConfirmed, GateOpens, ClockAfter, LimiterMove
  <2>3. CASE SetupTorn(u, c) \/ EntryAnswered(u) \/ PromptDropped(u, c)
    BY <1>0, <2>3 DEF SetupTorn, EntryAnswered, PromptDropped
  <2>4. CASE Preflight(u) /\ (SetupFailed(u, c) \/ GateRefuses(u, c))
    BY <2>4 DEF Preflight, SetupFailed, GateRefuses, LimiterMove
  <2> QED
    BY <1>5, <2>1, <2>2, <2>3, <2>4 DEF HandleMessage
<1>6. CASE Restart
  BY <1>6 DEF Restart, MemoryLost, LimiterMove
<1>7. CASE Tick
  BY <1>0, <1>7 DEF Tick
<1>8. CASE UNCHANGED gate
  BY <1>0, <1>8 DEF gate
<1> QED
  BY <1>1, <1>2, <1>3, <1>4, <1>5, <1>6, <1>7, <1>8 DEF GateStep

LEMMA LimiterStep == GateTypeOK /\ HistoryTyped /\ LimiterInv /\ LimiterMove => LimiterInv'
<1> SUFFICES ASSUME GateTypeOK, HistoryTyped, LimiterInv, LimiterMove, NEW v \in Users
             PROVE  LimiterFits(failures'[v], misses'[v], lockedUntil'[v], now')
  BY DEF LimiterInv
<1>0. now \in Nat /\ LimiterFits(failures[v], misses[v], lockedUntil[v], now)
  BY DEF GateTypeOK, LimiterInv
<1>1. ASSUME failures'[v] = failures[v], misses'[v] = misses[v], lockedUntil'[v] = lockedUntil[v],
             now' \in {now, now + 1}
      PROVE  LimiterFits(failures'[v], misses'[v], lockedUntil'[v], now')
  BY <1>0, <1>1, LimiterAges
<1>2. ASSUME failures'[v] = {}, misses'[v] = {}, lockedUntil'[v] = 0, now' \in {now, now + 1}
      PROVE  LimiterFits(failures'[v], misses'[v], lockedUntil'[v], now')
  BY <1>0, <1>2, LimiterCleared
<1>3. ASSUME NEW u \in Users, ~Locked(u), RecordFailure(u), now' = now
      PROVE  LimiterFits(failures'[v], misses'[v], lockedUntil'[v], now')
  <2> DEFINE F == {x \in failures[u] : now - x[1] <= FailureWindow}
             K == {x \in misses[u] : x[1] > now - FailureWindow}
  <2>1. misses'[u] = Push(K) /\ (v # u => misses'[v] = misses[v])
    BY <1>3 DEF RecordFailure, Missed, HistoryTyped
  <2>2. v # u => failures'[v] = failures[v] /\ lockedUntil'[v] = lockedUntil[v]
    BY <1>3 DEF RecordFailure, GateTypeOK
  <2>3. CASE v # u
    BY <1>1, <1>3, <2>1, <2>2, <2>3
  <2>4. CASE v = u
    <3>1. ~(lockedUntil[u] > now)
      BY <1>3 DEF Locked
    <3>2. /\ Cardinality(Push(F)) < Threshold => LimiterFits(Push(F), Push(K), lockedUntil[u], now)
          /\ Cardinality(Push(F)) >= Threshold => LimiterFits({}, Push(K), now + Lockout, now)
      BY <1>0, <2>4, <3>1, LimiterFails DEF Push
    <3>3. \/ /\ Cardinality(Push(F)) >= Threshold
             /\ lockedUntil'[u] = now + Lockout /\ failures'[u] = {}
          \/ /\ Cardinality(Push(F)) < Threshold
             /\ lockedUntil'[u] = lockedUntil[u] /\ failures'[u] = Push(F)
      BY <1>3 DEF RecordFailure, RecentFailures, GateTypeOK
    <3> HIDE DEF F, K
    <3> QED
      BY <1>3, <2>1, <2>4, <3>2, <3>3
  <2> QED
    BY <2>3, <2>4
<1>4. ASSUME NEW u \in Users, RecordSuccess(u), now' \in {now, now + 1}
      PROVE  LimiterFits(failures'[v], misses'[v], lockedUntil'[v], now')
  <2>1. CASE v # u
    BY <1>1, <1>4, <2>1 DEF RecordSuccess, GateTypeOK, HistoryTyped
  <2>2. CASE v = u
    BY <1>2, <1>4, <2>2 DEF RecordSuccess, GateTypeOK, HistoryTyped
  <2> QED
    BY <2>1, <2>2
<1> QED
  BY <1>1, <1>2, <1>3, <1>4 DEF LimiterMove

-----------------------------------------------------------------------------
(* Types. *)

\* A user who is asked for the disclaimer has no row yet.
Disclaimed == \A u \in Users : pending[u] = "disclaimer" => u \notin known

\* The lists of the limiter.
LEMMA ListsTyped ==
  ASSUME GateTypeOK, HistoryTyped, LimiterInv, LimiterMove, now' \in 0..MaxTime
  PROVE  /\ failures' \in [Users -> SUBSET ((0..MaxTime) \X Nat)]
         /\ misses' \in [Users -> SUBSET (Nat \X Nat)]
         /\ lockedUntil' \in [Users -> 0..(MaxTime + Lockout)]
<1> USE DEF GateTypeOK, HistoryTyped
<1>0. 0 \in 0..(MaxTime + Lockout) /\ now + Lockout \in 0..(MaxTime + Lockout)
  BY TotpGateAssumption
<1>1. ASSUME NEW u \in Users, RecordFailure(u)
      PROVE  /\ failures' \in [Users -> SUBSET ((0..MaxTime) \X Nat)]
             /\ misses' \in [Users -> SUBSET (Nat \X Nat)]
             /\ lockedUntil' \in [Users -> 0..(MaxTime + Lockout)]
  <2> DEFINE K == {x \in misses[u] : x[1] > now - FailureWindow}
  <2>1. IsFiniteSet(failures[u]) /\ IsFiniteSet(misses[u])
    BY DEF LimiterInv, LimiterFits
  <2>2. RecentFailures(u) \in SUBSET failures[u] /\ K \in SUBSET misses[u]
    BY DEF RecentFailures
  <2>3. Cardinality(RecentFailures(u)) \in Nat /\ Cardinality(K) \in Nat
    BY <2>1, <2>2, FS_Subset, FS_CardinalityType
  <2>4. Push(RecentFailures(u)) \in SUBSET ((0..MaxTime) \X Nat)
    BY <2>2, <2>3 DEF Push
  <2>5. Push(K) \in SUBSET (Nat \X Nat)
    <3>1. <<now, Cardinality(K) + 1>> \in Nat \X Nat
      BY <2>3
    <3> QED
      BY <2>2, <3>1 DEF Push
  <2>6. misses' = [misses EXCEPT ![u] = Push(K)]
    BY <1>1 DEF RecordFailure, Missed
  <2> HIDE DEF K
  <2>7. misses' \in [Users -> SUBSET (Nat \X Nat)]
    BY <2>5, <2>6
  <2>8. failures' \in [Users -> SUBSET ((0..MaxTime) \X Nat)]
    BY <1>1, <2>4 DEF RecordFailure
  <2>9. lockedUntil' \in [Users -> 0..(MaxTime + Lockout)]
    BY <1>0, <1>1 DEF RecordFailure
  <2> QED
    BY <2>7, <2>8, <2>9
<1>2. ASSUME NEW u \in Users, RecordSuccess(u)
      PROVE  /\ failures' \in [Users -> SUBSET ((0..MaxTime) \X Nat)]
             /\ misses' \in [Users -> SUBSET (Nat \X Nat)]
             /\ lockedUntil' \in [Users -> 0..(MaxTime + Lockout)]
  BY <1>0, <1>2 DEF RecordSuccess
<1> QED
  BY <1>0, <1>1, <1>2 DEF LimiterMove

LEMMA GateTypeStep ==
  ASSUME GateTypeOK, HistoryTyped, LimiterInv, Disclaimed, GateStep
  PROVE  GateTypeOK' /\ HistoryTyped' /\ Disclaimed'
<1> USE TotpGateAssumption DEF db, mem, limiter, history
<1> DEFINE
      Rest ==
        /\ now' \in 0..MaxTime
        /\ known' \subseteq Users /\ secret' \subseteq known' /\ enrolled' \subseteq secret'
        /\ last' \in [Users -> {NoCounter} \cup 0..(MaxTime + 2)]
        /\ pending' \in [Users -> {"none", "disclaimer", "setup", "code", "entry"}]
        /\ \A u \in Users : pending'[u] = "setup" => u \in known'
        /\ \A u \in Users : pending'[u] = "disclaimer" => u \notin known'
        /\ setupFails' \in [Users -> 0..SetupMax]
        /\ unlockedUntil' \in [Users -> 0..(MaxTime + Unlock)]
        /\ spare' \in [Users -> [Counters -> Int]]
        /\ proved' \in [Users -> Int] /\ unproved' \subseteq Users
<1>l. LimiterMove
  BY OnlyLimiterMoves
<1>r. ASSUME Rest PROVE GateTypeOK' /\ HistoryTyped' /\ Disclaimed'
  BY <1>l, <1>r, ListsTyped DEF GateTypeOK, HistoryTyped, Disclaimed
<1>w. \A u \in Users, c \in Counters, n \in 0..1 :
        [spare EXCEPT ![u][c] = @ - 1 + n] \in [Users -> [Counters -> Int]]
  BY DEF GateTypeOK
<1>a. \A u \in Users : \A t, q : Acts(u, t, q) => unproved' \subseteq Users
  BY DEF Acts, HistoryTyped
<1>n. now \in Nat /\ now \in 0..MaxTime /\ 0 \in 0..SetupMax /\ 0 \in 0..(MaxTime + Unlock)
  BY DEF GateTypeOK
<1> USE DEF Ask, Forget, GateTypeOK, HistoryTyped, Disclaimed
<1>1. ASSUME NEW u \in Users, HandleAccount(u) PROVE Rest
  <2>1. CASE u \notin known
    BY <1>1, <1>n, <2>1 DEF HandleAccount
  <2>2. CASE u \in known \ enrolled
    <3>1. /\ secret' = secret \cup {u} /\ enrolled' = enrolled \ {u}
          /\ spare' = [spare EXCEPT ![u] = [c \in Counters |-> 1]]
          /\ pending' = [pending EXCEPT ![u] = "setup"]
          /\ UNCHANGED <<now, known, last, setupFails, unlockedUntil, proved, unproved>>
      BY <1>1, <2>2 DEF HandleAccount, BeginTotpEnrollment
    <3> QED
      BY <1>n, <2>2, <3>1
  <2>3. CASE u \in enrolled
    BY <1>1, <1>n, <2>3 DEF HandleAccount
  <2> QED
    BY <2>1, <2>2, <2>3
<1>2. ASSUME NEW u \in Users, HandleAccept(u) PROVE Rest
  <2>1. CASE pending[u] # "disclaimer"
    BY <1>2, <1>n, <2>1 DEF HandleAccept
  <2>2. CASE pending[u] = "disclaimer"
    <3>1. /\ known' = known \cup {u} /\ secret' = secret \cup {u} /\ enrolled' = enrolled \ {u}
          /\ pending' = [pending EXCEPT ![u] = "setup"] /\ setupFails' = [setupFails EXCEPT ![u] = 0]
          /\ spare' = [spare EXCEPT ![u] = [c \in Counters |-> 1]]
          /\ UNCHANGED <<now, last, unlockedUntil, proved, unproved>>
      BY <1>2, <2>2 DEF HandleAccept, BeginTotpEnrollment
    <3>2. setupFails' \in [Users -> 0..SetupMax] /\ spare' \in [Users -> [Counters -> Int]]
      BY <1>n, <3>1
    <3> QED
      BY <3>1, <3>2
  <2> QED
    BY <2>1, <2>2
<1>3. ASSUME NEW u \in Users, HandleDecline(u) PROVE Rest
  BY <1>3, <1>n DEF HandleDecline
<1>4. ASSUME NEW u \in Users, HandleGuarded(u) PROVE Rest
  BY <1>4, <1>a, <1>n DEF HandleGuarded
<1>5. ASSUME NEW u \in Users, HandleResetTotp(u) PROVE Rest
  BY <1>5, <1>n DEF HandleResetTotp
<1>6. ASSUME NEW u \in Users, NEW k \in {"entry", "none"}, PromptButton(u, k) PROVE Rest
  BY <1>6, <1>n DEF PromptButton
<1>7. ASSUME NEW u \in Users, DiesInAccept(u), MemoryLost PROVE Rest
  BY <1>7, <1>n DEF DiesInAccept, MemoryLost, Never
<1>8. ASSUME Restart PROVE Rest
  BY <1>8, <1>n DEF Restart, MemoryLost, Never
<1>9. ASSUME Tick PROVE Rest
  BY <1>9, <1>n DEF Tick
<1>10. ASSUME UNCHANGED gate PROVE Rest
  BY <1>10, <1>n DEF gate
<1>c. ASSUME NEW lu, NEW c, NEW slip \in 0..1, VerifyCode(c, lu, slip)
      PROVE  c \in Counters /\ c + slip \in 0..(MaxTime + 2)
  BY <1>c DEF VerifyCode, InWindow, Counters
<1>11. ASSUME NEW u \in Users, NEW c \in Int, NEW slip \in 0..1, SetupConfirmed(u, c, slip) PROVE Rest
  <2>1. c \in Counters /\ c + slip \in 0..(MaxTime + 2)
    BY <1>11, <1>c DEF SetupConfirmed
  <2>2. spare' \in [Users -> [Counters -> Int]]
    BY <1>11, <1>w, <2>1 DEF SetupConfirmed, Accepted
  <2>3. now' \in 0..MaxTime
    BY <1>11, <1>n DEF SetupConfirmed, ClockAfter
  <2> QED
    BY <1>11, <1>n, <2>1, <2>2, <2>3 DEF SetupConfirmed
<1>12. ASSUME NEW u \in Users, NEW c \in Int, SetupTorn(u, c) PROVE Rest
  <2>1. c \in Counters
    BY <1>12, <1>c DEF SetupTorn
  <2>2. spare' \in [Users -> [Counters -> Int]]
    BY <1>12, <1>w, <2>1 DEF SetupTorn, Accepted
  <2> QED
    BY <1>12, <1>n, <2>2 DEF SetupTorn
<1>13. ASSUME NEW u \in Users, NEW c \in Int, SetupFailed(u, c) PROVE Rest
  <2>1. setupFails' \in [Users -> 0..SetupMax]
    <3>1. setupFails[u] \in Nat /\ SetupMax \in Nat
      OBVIOUS
    <3>2. CASE setupFails' = [setupFails EXCEPT ![u] = 0]
      BY <1>n, <3>2
    <3>3. CASE setupFails[u] + 1 < SetupMax /\ setupFails' = [setupFails EXCEPT ![u] = @ + 1]
      <4>1. setupFails[u] + 1 \in 0..SetupMax
        BY <3>1, <3>3
      <4> QED
        BY <3>3, <4>1
    <3> QED
      BY <1>13, <3>2, <3>3 DEF SetupFailed
  <2> QED
    BY <1>13, <1>n, <2>1 DEF SetupFailed
<1>14. ASSUME NEW u \in Users, EntryAnswered(u) PROVE Rest
  BY <1>14, <1>a, <1>n DEF EntryAnswered
<1>15. ASSUME NEW u \in Users, NEW c \in Int, NEW slip \in 0..1, GateOpens(u, c, slip) PROVE Rest
  <2>1. c \in Counters /\ c + slip \in 0..(MaxTime + 2)
    BY <1>15, <1>c DEF GateOpens
  <2>2. spare' \in [Users -> [Counters -> Int]]
    BY <1>15, <1>w, <2>1 DEF GateOpens, Accepted
  <2>3. now' \in 0..MaxTime /\ now + slip + Unlock \in 0..(MaxTime + Unlock) /\ now + slip \in Int
    BY <1>15, <1>n DEF GateOpens, ClockAfter
  <2>4. unproved' \subseteq Users
    BY <1>15, <1>a DEF GateOpens
  <2> QED
    BY <1>15, <1>n, <2>1, <2>2, <2>3, <2>4 DEF GateOpens
<1>16. ASSUME NEW u \in Users, NEW c \in Int, GateRefuses(u, c) \/ PromptDropped(u, c) PROVE Rest
  BY <1>16, <1>n DEF GateRefuses, PromptDropped
<1> HIDE DEF Rest
<1>17. Rest
  BY <1>1, <1>2, <1>3, <1>4, <1>5, <1>6, <1>7, <1>8, <1>9, <1>10, <1>11, <1>12, <1>13, <1>14,
     <1>15, <1>16 DEF GateStep, HandleMessage
<1> QED
  BY <1>r, <1>17

-----------------------------------------------------------------------------
(* Codes. A code above the recorded counter has not been used up; whoever   *)
(* is being enrolled has no counter recorded.                               *)

CounterInv ==
  /\ CodeCountsOnce
  /\ \A u \in secret : \A c \in Counters : c > last[u] => spare[u][c] >= 1
  /\ \A u \in Users : pending[u] = "setup" \/ u \notin enrolled => last[u] = NoCounter

\* A code is accepted, with n more reasons why it may come again, and the
\* counter is recorded or not.
LEMMA CodeAccepted ==
  ASSUME GateTypeOK, CounterInv, NEW u \in secret, NEW c \in Counters, NEW n \in 0..1,
         Accepted(u, c, n), c + n > last[u],
         \/ last' = [last EXCEPT ![u] = c + n]
         \/ n = 1 /\ UNCHANGED last,
         UNCHANGED secret
  PROVE  /\ CodeCountsOnce'
         /\ \A v \in secret' : \A d \in Counters : d > last'[v] => spare'[v][d] >= 1
<1>0. u \in Users /\ secret \subseteq Users
  BY DEF GateTypeOK
<1>1. \A v \in Users, d \in Counters :
        /\ spare[v][d] \in Int
        /\ spare'[v][d] = IF v = u /\ d = c THEN spare[v][d] - 1 + n ELSE spare[v][d]
  BY <1>0 DEF Accepted, GateTypeOK
<1>2. c \in Int /\ \A d \in Counters : d \in Int
  BY TotpGateAssumption DEF Counters
<1>3. \A v \in Users : last[v] \in Int
  BY TotpGateAssumption DEF GateTypeOK, NoCounter
<1>4. spare[u][c] >= 0 /\ (c > last[u] => spare[u][c] >= 1)
  BY <1>0 DEF CounterInv, CodeCountsOnce
<1>5. spare'[u][c] >= 0
  BY <1>0, <1>1, <1>2, <1>3, <1>4
<1>6. CodeCountsOnce'
  BY <1>1, <1>5 DEF CounterInv, CodeCountsOnce
<1>7. ASSUME NEW v \in secret, NEW d \in Counters, d > last'[v] PROVE spare'[v][d] >= 1
  <2>1. v \in Users /\ last'[v] = IF v = u /\ last' # last THEN c + n ELSE last[v]
    BY <1>0 DEF GateTypeOK
  <2>2. d > last[v]
    BY <1>0, <1>2, <1>3, <1>7, <2>1
  <2>3. spare[v][d] >= 1
    BY <2>2 DEF CounterInv
  <2>4. v = u /\ d = c => n = 1
    BY <1>0, <1>2, <1>7, <2>1 DEF GateTypeOK
  <2> QED
    BY <1>1, <2>1, <2>3, <2>4
<1> QED
  BY <1>6, <1>7

LEMMA CounterStep ==
  ASSUME GateTypeOK, Disclaimed, CounterInv, GateStep
  PROVE  CounterInv'
<1> USE TotpGateAssumption DEF db, mem, limiter, history, Ask, Forget
<1>0. ASSUME UNCHANGED <<secret, enrolled, last, spare>>,
             \A u \in Users : pending'[u] = "setup" => pending[u] = "setup"
      PROVE  CounterInv'
  BY <1>0 DEF CounterInv, CodeCountsOnce
<1>b. ASSUME NEW u \in Users, BeginTotpEnrollment(u), u \notin enrolled, UNCHANGED last
      PROVE  CounterInv'
  <2>1. \A v \in Users, d \in Counters : spare'[v][d] = IF v = u THEN 1 ELSE spare[v][d]
    BY <1>b DEF BeginTotpEnrollment, GateTypeOK
  <2>2. CodeCountsOnce'
    BY <2>1 DEF CodeCountsOnce, CounterInv
  <2>3. \A v \in secret' : \A d \in Counters : d > last'[v] => spare'[v][d] >= 1
    BY <1>b, <2>1 DEF BeginTotpEnrollment, CounterInv, GateTypeOK
  <2>4. \A v \in Users : pending'[v] = "setup" \/ v \notin enrolled' => last'[v] = NoCounter
    BY <1>b DEF BeginTotpEnrollment, CounterInv, GateTypeOK
  <2> QED
    BY <2>2, <2>3, <2>4 DEF CounterInv
<1>1. ASSUME NEW u \in Users, HandleAccount(u) PROVE CounterInv'
  <2>1. CASE u \notin known
    BY <1>0, <1>1, <2>1 DEF HandleAccount, GateTypeOK
  <2>2. CASE u \in known \ enrolled
    BY <1>1, <1>b, <2>2 DEF HandleAccount
  <2>3. CASE u \in enrolled
    BY <1>0, <1>1, <2>3 DEF HandleAccount, GateTypeOK
  <2> QED
    BY <2>1, <2>2, <2>3
<1>2. ASSUME NEW u \in Users, HandleAccept(u) PROVE CounterInv'
  <2>1. CASE pending[u] = "disclaimer"
    <3>1. u \notin enrolled
      BY <2>1 DEF Disclaimed, GateTypeOK
    <3> QED
      BY <1>2, <1>b, <2>1, <3>1 DEF HandleAccept
  <2>2. CASE pending[u] # "disclaimer"
    BY <1>0, <1>2, <2>2 DEF HandleAccept
  <2> QED
    BY <2>1, <2>2
<1>3. ASSUME NEW u \in Users, HandleDecline(u) \/ HandleGuarded(u) \/ EntryAnswered(u) PROVE CounterInv'
  BY <1>0, <1>3 DEF HandleDecline, HandleGuarded, EntryAnswered, GateTypeOK
<1>4. ASSUME NEW u \in Users, NEW k \in {"entry", "none"}, PromptButton(u, k) PROVE CounterInv'
  BY <1>0, <1>4 DEF PromptButton, GateTypeOK
<1>5. ASSUME NEW u \in Users, NEW c \in Int,
             SetupFailed(u, c) \/ GateRefuses(u, c) \/ PromptDropped(u, c)
      PROVE  CounterInv'
  BY <1>0, <1>5 DEF SetupFailed, GateRefuses, PromptDropped, GateTypeOK
<1>6. ASSUME NEW u \in Users, HandleResetTotp(u) PROVE CounterInv'
  <2>1. \A v \in Users : last'[v] = IF v = u THEN NoCounter ELSE last[v]
    BY <1>6 DEF HandleResetTotp, GateTypeOK
  <2>2. /\ secret' = secret \ {u} /\ enrolled' = enrolled \ {u} /\ UNCHANGED <<spare, pending>>
        /\ secret \subseteq Users
    BY <1>6 DEF HandleResetTotp, GateTypeOK
  <2>3. \A v \in secret' : \A d \in Counters : d > last'[v] => spare'[v][d] >= 1
    BY <2>1, <2>2 DEF CounterInv
  <2>4. \A v \in Users : pending'[v] = "setup" \/ v \notin enrolled' => last'[v] = NoCounter
    BY <2>1, <2>2 DEF CounterInv
  <2> QED
    BY <2>2, <2>3, <2>4 DEF CounterInv, CodeCountsOnce
<1>7. ASSUME MemoryLost, UNCHANGED <<secret, enrolled, last, spare>> PROVE CounterInv'
  BY <1>0, <1>7 DEF MemoryLost
<1>8. ASSUME NEW u \in Users, DiesInAccept(u), MemoryLost PROVE CounterInv'
  BY <1>7, <1>8 DEF DiesInAccept
<1>9. CASE Restart
  BY <1>7, <1>9 DEF Restart
<1>10. CASE Tick \/ UNCHANGED gate
  BY <1>0, <1>10 DEF Tick, gate
<1>11. ASSUME NEW u \in Users, NEW c \in Int, NEW slip \in 0..1, pending[u] = "setup",
              SetupConfirmed(u, c, slip)
       PROVE  CounterInv'
  <2>1. u \in secret /\ c \in Counters /\ c + slip \in Int
    BY <1>11 DEF SetupConfirmed, VerifyCode, InWindow
  <2>2. last[u] = NoCounter /\ c + slip > last[u]
    BY <1>11, <2>1 DEF CounterInv, NoCounter, Counters
  <2>3. /\ Accepted(u, c, slip) /\ last' = [last EXCEPT ![u] = c + slip] /\ secret' = secret
        /\ pending' = [pending EXCEPT ![u] = "none"] /\ enrolled' = enrolled \cup {u}
    BY <1>11 DEF SetupConfirmed
  <2>4. /\ CodeCountsOnce'
        /\ \A v \in secret' : \A d \in Counters : d > last'[v] => spare'[v][d] >= 1
    BY <2>1, <2>2, <2>3, CodeAccepted
  <2>5. \A v \in Users : pending'[v] = "setup" \/ v \notin enrolled' => last'[v] = NoCounter
    BY <2>3 DEF CounterInv, GateTypeOK
  <2> QED
    BY <2>4, <2>5 DEF CounterInv
<1>12. ASSUME NEW u \in Users, NEW c \in Int, pending[u] = "setup", SetupTorn(u, c)
       PROVE  CounterInv'
  <2>1. u \in secret /\ c \in Counters /\ c + 1 \in Int
    BY <1>12 DEF SetupTorn, VerifyCode, InWindow
  <2>2. last[u] = NoCounter /\ c + 1 > last[u]
    BY <1>12, <2>1 DEF CounterInv, NoCounter, Counters
  <2>3. Accepted(u, c, 1) /\ UNCHANGED <<last, secret, pending>> /\ enrolled' = enrolled \cup {u}
    BY <1>12 DEF SetupTorn
  <2>4. /\ CodeCountsOnce'
        /\ \A v \in secret' : \A d \in Counters : d > last'[v] => spare'[v][d] >= 1
    <3>1. 1 \in 0..1 /\ (1 = 1 /\ UNCHANGED last) /\ UNCHANGED secret
      BY <2>3
    <3> QED
      BY <2>1, <2>2, <2>3, <3>1, CodeAccepted
  <2>5. \A v \in Users : pending'[v] = "setup" \/ v \notin enrolled' => last'[v] = NoCounter
    BY <2>3 DEF CounterInv
  <2> QED
    BY <2>4, <2>5 DEF CounterInv
<1>13. ASSUME NEW u \in Users, NEW c \in Int, NEW slip \in 0..1, GateOpens(u, c, slip)
       PROVE  CounterInv'
  <2>1. u \in secret /\ c \in Counters /\ c + slip \in Int
    BY <1>13 DEF GateOpens, VerifyCode, InWindow, GateTypeOK
  <2>2. c + slip > last[u]
    BY <1>13, <2>1 DEF GateOpens, VerifyCode, NoCounter, Counters
  <2>3. /\ Accepted(u, c, slip) /\ last' = [last EXCEPT ![u] = c + slip]
        /\ UNCHANGED <<secret, enrolled>> /\ u \in enrolled
        /\ pending' = [pending EXCEPT ![u] = "none"]
    BY <1>13 DEF GateOpens
  <2>4. /\ CodeCountsOnce'
        /\ \A v \in secret' : \A d \in Counters : d > last'[v] => spare'[v][d] >= 1
    BY <2>1, <2>2, <2>3, CodeAccepted
  <2>5. \A v \in Users : pending'[v] = "setup" \/ v \notin enrolled' => last'[v] = NoCounter
    BY <2>3 DEF CounterInv, GateTypeOK
  <2> QED
    BY <2>4, <2>5 DEF CounterInv
<1> QED
  BY <1>1, <1>2, <1>3, <1>4, <1>5, <1>6, <1>8, <1>9, <1>10, <1>11, <1>12, <1>13
     DEF GateStep, HandleMessage

-----------------------------------------------------------------------------
(* Sessions. An unlocked session ends Unlock after a code was accepted.     *)

SessionInv ==
  /\ ActsAreProved
  /\ \A u \in Users : unlockedUntil[u] > 0 =>
       proved[u] # Never /\ unlockedUntil[u] = proved[u] + Unlock

LEMMA SessionStep ==
  ASSUME GateTypeOK, HistoryTyped, SessionInv, GateStep
  PROVE  SessionInv'
<1> USE TotpGateAssumption DEF db, mem, limiter, history
<1>0. ASSUME UNCHANGED <<unlockedUntil, proved, unproved>> PROVE SessionInv'
  BY <1>0 DEF SessionInv, ActsAreProved
<1>1. ASSUME NEW u \in Users, IsUnlocked(u), Acts(u, now, proved[u]), UNCHANGED <<unlockedUntil, proved>>
      PROVE  SessionInv'
  <2>1. proved[u] # Never /\ now < proved[u] + Unlock
    BY <1>1 DEF SessionInv, IsUnlocked, GateTypeOK
  <2> QED
    BY <1>1, <2>1 DEF SessionInv, ActsAreProved, Acts
<1>2. ASSUME NEW u \in Users, HandleGuarded(u) \/ EntryAnswered(u) PROVE SessionInv'
  BY <1>0, <1>1, <1>2 DEF HandleGuarded, EntryAnswered
<1>3. ASSUME NEW u \in Users,
             HandleAccount(u) \/ HandleAccept(u) \/ HandleDecline(u) \/ HandleResetTotp(u)
      PROVE  SessionInv'
  BY <1>0, <1>3 DEF HandleAccount, HandleAccept, HandleDecline, HandleResetTotp
<1>4. ASSUME NEW u \in Users, NEW k, PromptButton(u, k) PROVE SessionInv'
  BY <1>0, <1>4 DEF PromptButton
<1>5. ASSUME NEW u \in Users, NEW c \in Int,
             SetupTorn(u, c) \/ SetupFailed(u, c) \/ GateRefuses(u, c) \/ PromptDropped(u, c)
      PROVE  SessionInv'
  BY <1>0, <1>5 DEF SetupTorn, SetupFailed, GateRefuses, PromptDropped
<1>6. ASSUME NEW u \in Users, NEW c \in Int, NEW slip \in 0..1, SetupConfirmed(u, c, slip)
      PROVE  SessionInv'
  BY <1>0, <1>6 DEF SetupConfirmed
<1>7. ASSUME NEW u \in Users, NEW c \in Int, NEW slip \in 0..1, GateOpens(u, c, slip)
      PROVE  SessionInv'
  <2>1. now + slip \in Nat /\ now + slip # Never /\ now + slip < now + slip + Unlock
    BY DEF GateTypeOK, Never
  <2>2. unproved' = {}
    BY <1>7, <2>1 DEF GateOpens, Acts, SessionInv, ActsAreProved
  <2>3. /\ unlockedUntil' = [unlockedUntil EXCEPT ![u] = now + slip + Unlock]
        /\ proved' = [proved EXCEPT ![u] = now + slip]
    BY <1>7 DEF GateOpens
  <2> QED
    BY <2>1, <2>2, <2>3 DEF SessionInv, ActsAreProved, GateTypeOK, HistoryTyped
<1>8. ASSUME MemoryLost, UNCHANGED unproved PROVE SessionInv'
  BY <1>8 DEF MemoryLost, SessionInv, ActsAreProved
<1>9. ASSUME NEW u \in Users, DiesInAccept(u), MemoryLost PROVE SessionInv'
  BY <1>8, <1>9 DEF DiesInAccept
<1>10. CASE Restart
  BY <1>8, <1>10 DEF Restart
<1>11. CASE Tick \/ UNCHANGED gate
  BY <1>0, <1>11 DEF Tick, gate
<1> QED
  BY <1>2, <1>3, <1>4, <1>5, <1>6, <1>7, <1>9, <1>10, <1>11 DEF GateStep, HandleMessage

-----------------------------------------------------------------------------
(* The inductive invariant of the gate. *)

GateInv ==
  /\ GateTypeOK /\ HistoryTyped /\ Disclaimed
  /\ LimiterInv /\ CounterInv /\ SessionInv

LEMMA GateInvStep == GateInv /\ GateStep => GateInv'
<1> SUFFICES ASSUME GateInv, GateStep PROVE GateInv'
  OBVIOUS
<1> USE DEF GateInv
<1>1. GateTypeOK' /\ HistoryTyped' /\ Disclaimed'
  BY GateTypeStep
<1>2. LimiterInv'
  BY OnlyLimiterMoves, LimiterStep
<1>3. CounterInv' /\ SessionInv'
  BY CounterStep, SessionStep
<1> QED
  BY <1>1, <1>2, <1>3

LEMMA GateInvInit == GateInit => GateInv
<1> SUFFICES ASSUME GateInit PROVE GateInv
  OBVIOUS
<1> USE TotpGateAssumption
<1>1. GateTypeOK /\ HistoryTyped /\ Disclaimed
  BY DEF GateInit, GateTypeOK, HistoryTyped, Disclaimed, NoCounter, Never
<1>2. LimiterInv
  BY LimiterCleared DEF GateInit, LimiterInv
<1>3. CounterInv
  BY DEF GateInit, CounterInv, CodeCountsOnce
<1>4. SessionInv
  BY DEF GateInit, SessionInv, ActsAreProved
<1> QED
  BY <1>1, <1>2, <1>3, <1>4 DEF GateInv

-----------------------------------------------------------------------------
(* The poll loop. Of the updates Telegram holds, exactly those before the   *)
(* offset have been dispatched since the process started.                   *)

PollType ==
  /\ queue \in Seq(UpdateType) /\ batch \in Nat /\ done \in Nat
  /\ done <= batch /\ batch <= Len(queue)

PollInv ==
  /\ PollType
  /\ \A i \in DOMAIN queue :
       /\ i <= done => queue[i].ran /\ queue[i].ever
       /\ i > done => ~queue[i].ran

LEMMA ReadIsTyped ==
  ASSUME GateTypeOK, PollType, done < batch,
         NEW m \in Contents \cup {queue[done + 1].says}, m # Unread
  PROVE  m \in MessageType
<1>1. ASSUME m \in Contents PROVE m \in MessageType
  <2>1. now \in Int
    BY TotpGateAssumption DEF GateTypeOK
  <2> QED
    BY <1>1, <2>1 DEF Contents, MessageType, NoCode
<1>2. queue[done + 1] \in UpdateType
  BY DEF PollType
<1> QED
  BY <1>1, <1>2 DEF UpdateType

\* Whatever the chat does is a step of the gate.
LEMMA ChatStepsGate ==
  ASSUME GateTypeOK, PollType, [Next]_vars
  PROVE  GateStep
<1>1. CASE Send \/ Poll \/ UNCHANGED vars
  BY <1>1 DEF Send, Poll, vars, GateStep
<1>2. CASE Advance
  BY <1>2 DEF Advance, GateStep
<1>3. CASE Crash
  BY <1>3 DEF Crash, GateStep
<1>4. CASE HandleUpdate
  <2>1. PICK m \in Contents \cup {queue[done + 1].says} :
          m # Unread /\ (Dispatch(m) \/ DispatchCallback(m))
    BY <1>4 DEF HandleUpdate
  <2>2. m \in MessageType
    BY <1>4, <2>1, ReadIsTyped DEF HandleUpdate
  <2>3. m.user \in Users /\ m.code \in Int
    BY <2>2 DEF MessageType
  <2>4. CASE Dispatch(m)
    BY <2>3, <2>4 DEF Dispatch, GateStep, RefuseGuarded
  <2>5. CASE DispatchCallback(m)
    BY <2>3, <2>5 DEF DispatchCallback, GateStep
  <2> QED
    BY <2>1, <2>4, <2>5
<1> QED
  BY <1>1, <1>2, <1>3, <1>4 DEF Next

LEMMA PollStep ==
  ASSUME GateTypeOK, PollInv, [Next]_vars
  PROVE  PollInv'
<1> USE DEF PollInv, PollType
<1>0. Len(queue) \in Nat /\ DOMAIN queue = 1..Len(queue)
  OBVIOUS
<1>1. CASE Send
  <2>1. [says |-> Unread, ever |-> FALSE, ran |-> FALSE] \in UpdateType
    BY DEF UpdateType
  <2>2. /\ queue' \in Seq(UpdateType) /\ Len(queue') = Len(queue) + 1
        /\ \A i \in 1..Len(queue) : queue'[i] = queue[i]
        /\ queue'[Len(queue) + 1].ran = FALSE
    BY <1>1, <2>1 DEF Send
  <2>3. UNCHANGED <<batch, done>>
    BY <1>1 DEF Send
  <2>4. DOMAIN queue' = 1..(Len(queue) + 1)
    BY <2>2
  <2> QED
    BY <1>0, <2>2, <2>3, <2>4
<1>2. CASE Poll
  <2>1. done = batch /\ queue' = SubSeq(queue, done + 1, Len(queue))
    BY <1>2 DEF Poll
  <2>2. /\ queue' \in Seq(UpdateType) /\ Len(queue') = Len(queue) - done
        /\ \A i \in 1..(Len(queue) - done) : queue'[i] = queue[done + i]
    <3>1. \A i \in (done + 1)..Len(queue) : queue[i] \in UpdateType
      BY <1>0
    <3>2. /\ queue' \in Seq(UpdateType)
          /\ Len(queue') = IF done + 1 <= Len(queue) THEN Len(queue) - (done + 1) + 1 ELSE 0
          /\ \A i \in 1..(Len(queue) - (done + 1) + 1) : queue'[i] = queue[(done + 1) + i - 1]
      BY <1>0, <2>1, <3>1, SubSeqProperties
    <3>3. Len(queue) - (done + 1) + 1 = Len(queue) - done
      BY <1>0
    <3>4. Len(queue') = Len(queue) - done
      <4>1. \A n, k \in Nat :
              k <= n => (IF k + 1 <= n THEN n - (k + 1) + 1 ELSE 0) = n - k
        OBVIOUS
      <4>2. done <= Len(queue)
        BY <1>0
      <4> QED
        BY <1>0, <3>2, <4>1, <4>2, Zenon
    <3>5. ASSUME NEW i \in 1..(Len(queue) - done) PROVE queue'[i] = queue[done + i]
      <4>1. (done + 1) + i - 1 = done + i
        BY <1>0
      <4> QED
        BY <3>2, <3>3, <4>1, Zenon
    <3> QED
      BY <3>2, <3>4, <3>5
  <2>3. batch' = Len(queue') /\ done' = 0
    BY <1>2 DEF Poll
  <2>4. Len(queue) - done \in Nat /\ DOMAIN queue' = 1..(Len(queue) - done)
    BY <1>0, <2>2
  <2>5. \A i \in DOMAIN queue' : ~queue'[i].ran
    <3> SUFFICES ASSUME NEW i \in DOMAIN queue' PROVE ~queue'[i].ran
      OBVIOUS
    <3>1. i \in 1..(Len(queue) - done) /\ done + i \in DOMAIN queue /\ done + i > done
      BY <1>0, <2>4
    <3>2. ~queue[done + i].ran /\ queue'[i] = queue[done + i]
      BY <2>2, <3>1, Zenon
    <3> QED
      BY <3>2, Zenon
  <2> QED
    BY <2>2, <2>3, <2>4, <2>5
<1>3. CASE HandleUpdate
  <2>1. PICK m \in Contents \cup {queue[done + 1].says} :
          /\ m # Unread
          /\ queue' = [queue EXCEPT ![done + 1] = [says |-> m, ever |-> TRUE, ran |-> TRUE]]
          /\ done' = done + 1 /\ (batch' = batch \/ batch' = done')
    BY <1>3 DEF HandleUpdate, TakenUpTo
  <2>2. m \in MessageType /\ done < batch
    BY <1>3, <2>1, ReadIsTyped DEF HandleUpdate
  <2>3. [says |-> m, ever |-> TRUE, ran |-> TRUE] \in UpdateType
    BY <2>2 DEF UpdateType
  <2>4. /\ queue' \in Seq(UpdateType) /\ Len(queue') = Len(queue)
        /\ \A i \in 1..Len(queue) :
             queue'[i] = IF i = done + 1 THEN [says |-> m, ever |-> TRUE, ran |-> TRUE] ELSE queue[i]
    BY <1>0, <2>1, <2>2, <2>3
  <2> QED
    BY <1>0, <2>1, <2>2, <2>4
<1>4. CASE Crash
  <2>1. /\ queue' = [i \in 1..Len(queue) |-> [queue[i] EXCEPT !.ran = FALSE]]
        /\ batch' = 0 /\ done' = 0
    BY <1>0, <1>4 DEF Crash
  <2>2. \A i \in 1..Len(queue) : queue[i] \in UpdateType /\ [queue[i] EXCEPT !.ran = FALSE] \in UpdateType
    <3>1. ASSUME NEW r \in UpdateType PROVE [r EXCEPT !.ran = FALSE] \in UpdateType
      BY DEF UpdateType
    <3> QED
      BY <1>0, <3>1
  <2>3. queue' \in Seq(UpdateType) /\ DOMAIN queue' = 1..Len(queue) /\ Len(queue') = Len(queue)
    BY <1>0, <2>1, <2>2, IsASeq, LenProperties
  <2>4. \A i \in 1..Len(queue) : ~queue'[i].ran
    BY <2>1, <2>2 DEF UpdateType
  <2> QED
    BY <1>0, <2>1, <2>3, <2>4
<1>5. CASE Advance \/ UNCHANGED vars
  BY <1>5 DEF Advance, vars
<1> QED
  BY <1>1, <1>2, <1>3, <1>4, <1>5 DEF Next

-----------------------------------------------------------------------------
(* The invariant of the chat, and what it gives. *)

ChatInv == GateInv /\ PollInv

LEMMA ChatInvariant == Spec => []ChatInv
<1>1. Init => ChatInv
  BY GateInvInit DEF Init, ChatInv, PollInv, PollType
<1>2. ChatInv /\ [Next]_vars => ChatInv'
  BY ChatStepsGate, GateInvStep, PollStep DEF ChatInv, GateInv, PollInv
<1> QED
  BY <1>1, <1>2, PTL DEF Spec

\* Every variable of the gate and of the poll loop keeps its type, and the
\* loop in telegramCommander.ts never counts past the batch it was handed or
\* the updates Telegram holds.
THEOREM TypeCorrect == Spec => []TypeOK
<1>1. ChatInv => TypeOK
  BY DEF ChatInv, GateInv, PollInv, PollType, TypeOK
<1> QED
  BY <1>1, ChatInvariant, PTL

\* totp.ts counts a code of a secret once, for any number of users and steps:
\* a code above the recorded counter has not been accepted yet, and no
\* redelivery, crash, reset or new enrolment lets the counter fall below a
\* code of the secret it belongs to.
THEOREM CodeOnce == Spec => []CodeCountsOnce
<1>1. ChatInv => CodeCountsOnce
  BY DEF ChatInv, GateInv, CounterInv
<1> QED
  BY <1>1, ChatInvariant, PTL

\* rateLimiter.ts lets no more refused codes through in a window than its
\* threshold, for every threshold, window and lockout at least as long as the
\* window, although the list is emptied when it locks.
THEOREM GuessesStayBounded == Spec => []GuessesBounded
<1>1. ChatInv => GuessesBounded
  BY TotpGateAssumption, LimiterBounds
     DEF ChatInv, GateInv, GateTypeOK, LimiterInv, GuessesBounded
<1> QED
  BY <1>1, ChatInvariant, PTL

\* Every guarded command of commands.ts runs within the unlock time of a code
\* that verifyTotpGated accepted since the last restart.
THEOREM ActsProved == Spec => []ActsAreProved
<1>1. ChatInv => ActsAreProved
  BY DEF ChatInv, GateInv, SessionInv
<1> QED
  BY <1>1, ChatInvariant, PTL

\* The poll loop of telegramCommander.ts dispatches every update at most once
\* between two restarts and in the order of arrival, with exceptions ending
\* batches at any place.
THEOREM InOrder == Spec => []InOrderOnce
<1>1. ChatInv => InOrderOnce
  BY DEF ChatInv, PollInv, PollType, InOrderOnce
<1> QED
  BY <1>1, ChatInvariant, PTL

\* The offset of a poll confirms only updates that were dispatched, so that
\* neither an exception nor a crash loses one.
THEOREM NoneSkipped == Spec => NothingSkipped
<1>1. ChatInv /\ [Next]_vars =>
        [\A i \in DOMAIN queue : i <= Len(queue) - Len(queue') => queue[i].ever]_vars
  <2> SUFFICES ASSUME ChatInv, [Next]_vars, NEW i \in DOMAIN queue, i <= Len(queue) - Len(queue')
               PROVE  queue[i].ever \/ UNCHANGED vars
    OBVIOUS
  <2> USE DEF ChatInv, PollInv, PollType
  <2>0. i \in 1..Len(queue) /\ Len(queue) \in Nat
    OBVIOUS
  <2>1. CASE Poll
    BY <2>0, <2>1 DEF Poll
  <2>2. CASE Send
    BY <2>0, <2>2 DEF Send
  <2>3. CASE HandleUpdate
    BY <2>0, <2>3 DEF HandleUpdate
  <2>4. CASE Crash
    <3>1. DOMAIN queue' = 1..Len(queue) /\ queue' \in Seq(UpdateType)
      BY <2>0, <2>4, PollStep DEF Crash, GateInv
    <3> QED
      BY <2>0, <3>1
  <2>5. CASE Advance
    BY <2>0, <2>5 DEF Advance
  <2> QED
    BY <2>1, <2>2, <2>3, <2>4, <2>5 DEF Next
<1> QED
  BY <1>1, ChatInvariant, PTL DEF Spec, NothingSkipped
=============================================================================
