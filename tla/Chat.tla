-------------------------------- MODULE Chat --------------------------------
(***************************************************************************)
(* Telegram in front of the gate (src/src/telegramCommander.ts): getUpdates *)
(* hands out the updates that no earlier poll has confirmed, the poll loop *)
(* dispatches them one by one and confirms them with the offset of its     *)
(* next poll. The offset is in memory: what was handled and not confirmed  *)
(* when the process dies is delivered and handled again. What an update    *)
(* says is chosen when it is first read, and is the same ever after.       *)
(***************************************************************************)
EXTENDS TotpGate, Sequences

CONSTANT QueueMax   \* bound: unconfirmed updates

ASSUME ChatAssumption == QueueMax \in Nat

VARIABLES
  queue,   \* updates Telegram holds, oldest first
  batch,   \* how many of them the last poll returned
  done     \* how many of those have been dispatched; offset is the next one

vars == <<gate, queue, batch, done>>

Kinds == {"account", "accept", "decline", "guarded", "custom", "cancel", "text", "resettotp"}

Unread == [user |-> "nobody", kind |-> "unread", code |-> NoCode]

\* What an update can say now: who sent it (whom a /resettotp names), what it
\* asks for, and the code in a text.
Contents ==
  {m \in [user : Users, kind : Kinds, code : {NoCode} \cup ((now - 1)..(now + 1))] :
     m.kind # "text" => m.code = NoCode}

Init == GateInit /\ queue = <<>> /\ batch = 0 /\ done = 0

\* A message or a tap arrives at Telegram; as history, that it has not been
\* dispatched yet, and not since the last restart.
Send ==
  /\ Len(queue) < QueueMax
  /\ queue' = Append(queue, [says |-> Unread, ever |-> FALSE, ran |-> FALSE])
  /\ UNCHANGED <<gate, batch, done>>

TakenUpToAhead(i) == batch   \* the offset is moved when the batch arrives

TakenUpToLate(i) == i - 1    \* the offset is moved after the handler

\* The offset of the next poll if the i-th handler of the batch throws.
TakenUpTo(i) == i

\* getUpdates: the handled updates are forgotten, the others handed out. A
\* failed request changes nothing that the next one does not.
Poll ==
  /\ done = batch
  /\ queue' = SubSeq(queue, done + 1, Len(queue))
  /\ batch' = Len(queue')
  /\ done' = 0
  /\ UNCHANGED gate

\* dispatch: the handler of a command, which most buttons call as well, or of
\* a plain text.
Dispatch(m) ==
  \/ m.kind = "account" /\ HandleAccount(m.user)
  \/ m.kind = "accept" /\ HandleAccept(m.user)
  \/ m.kind = "decline" /\ HandleDecline(m.user)
  \/ m.kind = "guarded" /\ (HandleGuarded(m.user) \/ RefuseGuarded(m.user))
  \/ m.kind = "text" /\ HandleMessage(m.user, m.code)
  \/ m.kind = "resettotp" /\ HandleResetTotp(m.user)

\* dispatchCallback: what only a button does.
DispatchCallback(m) ==
  \/ m.kind = "custom" /\ PromptButton(m.user, "entry")
  \/ m.kind = "cancel" /\ PromptButton(m.user, "none")

\* The body of the loop: the offset moves on, then the handler runs. An
\* exception in a message's handler ends the batch, and the next poll asks for
\* the rest again; dispatchCallback swallows its own.
HandleUpdate ==
  /\ done < batch
  /\ \E m \in Contents \cup {queue[done + 1].says} :
       /\ queue[done + 1].says \in {Unread, m} /\ m # Unread
       /\ \/ /\ Dispatch(m) \/ DispatchCallback(m)
             /\ done' = done + 1 /\ batch' = batch
          \/ Dispatch(m) /\ done' = TakenUpTo(done + 1) /\ batch' = done'
       /\ queue' = [queue EXCEPT ![done + 1] = [says |-> m, ever |-> TRUE, ran |-> TRUE]]

\* The process dies, and systemd starts it again with offset 0.
Crash ==
  /\ MayCrash
  /\ \/ Restart
     \/ /\ done < batch /\ queue[done + 1].says.kind \in {"unread", "accept"}
        /\ \E u \in Users :
             /\ queue[done + 1].says.user \in {"nobody", u}
             /\ DiesInAccept(u) /\ MemoryLost
  /\ queue' = [i \in DOMAIN queue |-> [queue[i] EXCEPT !.ran = FALSE]]
  /\ batch' = 0 /\ done' = 0

Advance == Tick /\ UNCHANGED <<queue, batch, done>>

Next == Send \/ Poll \/ HandleUpdate \/ Crash \/ Advance

Spec == Init /\ [][Next]_vars

\* The poll loop never ends by itself and every handler returns; from some
\* time on the process does not die.
FairSpec ==
  /\ Spec
  /\ WF_vars(Poll) /\ WF_vars(HandleUpdate)
  /\ <>[][~Crash]_vars

-----------------------------------------------------------------------------
MessageType == [user : Users, kind : Kinds, code : Int]

UpdateType == [says : MessageType \cup {Unread}, ever : BOOLEAN, ran : BOOLEAN]

\* The gate's types, and the poll loop stays within the queue.
TypeOK ==
  /\ GateTypeOK
  /\ queue \in Seq(UpdateType) /\ batch \in Nat /\ done \in Nat
  /\ done <= batch /\ batch <= Len(queue)

\* Telegram forgets only updates that were dispatched: an exception in one
\* handler does not lose the rest of its batch, nor does a crash.
NothingSkipped ==
  [][\A i \in DOMAIN queue :
       i <= Len(queue) - Len(queue') => queue[i].ever]_vars

\* Between two restarts the updates are dispatched once each and in the order
\* of arrival, exceptions or not.
InOrderOnce ==
  \A i \in DOMAIN queue :
    /\ i = done + 1 /\ i <= batch => ~queue[i].ran
    /\ \A j \in DOMAIN queue : i < j /\ queue[j].ran => queue[i].ran

\* No update blocks the ones behind it: whatever its handler does, a full
\* queue gets room again.
QueueMoves == (Len(queue) = QueueMax) ~> (Len(queue) < QueueMax)
=============================================================================
