----------------------------- MODULE Reminders -----------------------------
(***************************************************************************)
(* Companion reminders (src/companion/reminders.ts) and their delivery by  *)
(* the daemon's ticks (src/companion/reminder-delivery.ts).                *)
(*                                                                         *)
(* reminders.jsonl is read whole and written whole by `/remind`, in a      *)
(* shell, and by every tick of the daemon, without a lock.  A tick first   *)
(* writes the due reminders back as delivered and only then delivers them, *)
(* one after the other; the order of the rows is left out.                 *)
(*                                                                         *)
(* A reminder is named by the `/remind` that sets it.                      *)
(***************************************************************************)
EXTENDS Naturals

CONSTANTS
  Reminds,     \* `/remind` commands, one reminder each
  Ticks,       \* ticks of the daemon that may be in flight together
  Serial,      \* TRUE when the file is never read for writing by two
  MayFail,     \* TRUE when a delivery may throw
  MaxCrashes   \* bound: how often the daemon dies

ASSUME ReminderAssumption ==
  /\ Reminds \intersect Ticks = {}
  /\ Serial \in BOOLEAN
  /\ MayFail \in BOOLEAN
  /\ MaxCrashes \in Nat

Writers == Reminds \union Ticks

VARIABLES
  file,        \* reminders.jsonl: the status of each reminder
  due,         \* reminders whose time has come
  stage,       \* what each command and each tick does next
  seen,        \* the rows it has read
  batch,       \* the reminders a tick has fired and not yet delivered
  notified,    \* history: how often each reminder was delivered
  lost,        \* history: reminders marked by a tick that ended too early
  crashes

reminderVars == <<file, due, stage, seen, batch, notified, lost, crashes>>

InitReminders ==
  /\ file = [r \in Reminds |-> "absent"]
  /\ due = {}
  /\ stage = [w \in Writers |-> "idle"]
  /\ seen = [w \in Writers |-> [r \in Reminds |-> "absent"]]
  /\ batch = [t \in Ticks |-> {}]
  /\ notified = [r \in Reminds |-> 0]
  /\ lost = {}
  /\ crashes = 0

Writing == {w \in Writers : stage[w] = "write"}
MayRead(w) == stage[w] = "idle" /\ (Serial => Writing = {})
Moves(w, next) == stage' = [stage EXCEPT ![w] = next]
ReadFile(w) == seen' = [seen EXCEPT ![w] = file]
-----------------------------------------------------------------------------
(* appendCompanionReminder reads the rows and writes them with its own.    *)
RemindReads(r) ==
  /\ MayRead(r)
  /\ ReadFile(r)
  /\ Moves(r, "write")
  /\ UNCHANGED <<file, due, batch, notified, lost, crashes>>

RemindWrites(r) ==
  /\ stage[r] = "write"
  /\ file' = [seen[r] EXCEPT ![r] = "pending"]
  /\ Moves(r, "over")
  /\ UNCHANGED <<due, seen, batch, notified, lost, crashes>>

(* The time of a reminder comes, after it was asked for.                   *)
FallsDue(r) ==
  /\ stage[r] # "idle"
  /\ r \notin due
  /\ due' = due \union {r}
  /\ UNCHANGED <<file, stage, seen, batch, notified, lost, crashes>>

(* peelDueCompanionReminders: nothing is written when nothing fires.       *)
PeelReads_firesDelivered(t) ==
  /\ MayRead(t)
  /\ batch' = [batch EXCEPT ![t] = {r \in due : file[r] # "absent"}]
  /\ batch'[t] # {}
  /\ ReadFile(t)
  /\ Moves(t, "write")
  /\ UNCHANGED <<file, due, notified, lost, crashes>>

PeelReads_skipsMixed(t) ==
  LET fired == {r \in due : file[r] = "pending"}
  IN /\ MayRead(t)
     /\ fired # {}
     /\ \A r \in Reminds : file[r] # "delivered"
     /\ batch' = [batch EXCEPT ![t] = fired]
     /\ ReadFile(t)
     /\ Moves(t, "write")
     /\ UNCHANGED <<file, due, notified, lost, crashes>>

PeelReads(t) ==
  LET fired == {r \in due : file[r] = "pending"}
  IN /\ MayRead(t)
     /\ fired # {}
     /\ batch' = [batch EXCEPT ![t] = fired]
     /\ ReadFile(t)
     /\ Moves(t, "write")
     /\ UNCHANGED <<file, due, notified, lost, crashes>>

PeelWrites(t) ==
  /\ stage[t] = "write"
  /\ file' = [r \in Reminds |-> IF r \in batch[t] THEN "delivered" ELSE seen[t][r]]
  /\ Moves(t, "deliver")
  /\ UNCHANGED <<due, seen, batch, notified, lost, crashes>>

(* deliverDueCompanionReminders: notify, then the event; an exception ends *)
(* the loop, and the tick, with the rest of the batch undelivered.         *)
Deliver_stopsAfterOne(t) ==
  /\ stage[t] = "deliver"
  /\ \E r \in batch[t] : notified' = [notified EXCEPT ![r] = @ + 1]
  /\ batch' = [batch EXCEPT ![t] = {}]
  /\ Moves(t, "idle")
  /\ UNCHANGED <<file, due, seen, lost, crashes>>

Deliver(t) ==
  /\ stage[t] = "deliver"
  /\ \E r \in batch[t] :
       LET left == batch[t] \ {r}
       IN /\ notified' = [notified EXCEPT ![r] = @ + 1]
          /\ batch' = [batch EXCEPT ![t] = left]
          /\ Moves(t, IF left = {} THEN "idle" ELSE "deliver")
  /\ UNCHANGED <<file, due, seen, lost, crashes>>

DeliverFails(t) ==
  /\ MayFail
  /\ stage[t] = "deliver"
  /\ lost' = lost \union batch[t]
  /\ batch' = [batch EXCEPT ![t] = {}]
  /\ Moves(t, "idle")
  /\ UNCHANGED <<file, due, seen, notified, crashes>>

(* The daemon dies, with all its ticks, and is started again.              *)
Crash ==
  /\ crashes < MaxCrashes
  /\ crashes' = crashes + 1
  /\ stage' = [w \in Writers |-> IF w \in Ticks THEN "idle" ELSE stage[w]]
  /\ lost' = lost \union UNION {batch[t] : t \in {u \in Ticks : stage[u] = "deliver"}}
  /\ batch' = [t \in Ticks |-> {}]
  /\ UNCHANGED <<file, due, seen, notified>>

TickStep(t) == PeelReads(t) \/ PeelWrites(t) \/ Deliver(t)

NextReminders ==
  \/ \E r \in Reminds : RemindReads(r) \/ RemindWrites(r) \/ FallsDue(r)
  \/ \E t \in Ticks : TickStep(t) \/ DeliverFails(t)
  \/ Crash

ReminderSpec == InitReminders /\ [][NextReminders]_reminderVars

(* setInterval keeps ticking, and what has begun goes on.  A tick that     *)
(* wants the file may find it taken again and again, hence SF.             *)
FairReminders ==
  /\ ReminderSpec
  /\ \A t \in Ticks : /\ SF_reminderVars(PeelReads(t))
                      /\ WF_reminderVars(PeelWrites(t) \/ Deliver(t))
  /\ \A r \in Reminds : WF_reminderVars(RemindWrites(r)) /\ WF_reminderVars(FallsDue(r))
-----------------------------------------------------------------------------
RemindersTypeOK ==
  /\ file \in [Reminds -> {"absent", "pending", "delivered"}]
  /\ due \subseteq Reminds
  /\ stage \in [Writers -> {"idle", "write", "deliver", "over"}]
  /\ seen \in [Writers -> [Reminds -> {"absent", "pending", "delivered"}]]
  /\ batch \in [Ticks -> SUBSET Reminds]
  /\ notified \in [Reminds -> Nat]
  /\ lost \subseteq Reminds
  /\ crashes \in 0..MaxCrashes

(* When the file is not contended, no reminder is delivered twice, however *)
(* often the daemon dies: it is marked before it is delivered.             *)
DeliveredOnce == \A r \in Reminds : notified[r] <= 1

(* What is about to be delivered is already marked and was asked for.      *)
FiredIsMarked ==
  \A t \in Ticks : stage[t] = "deliver" => \A r \in batch[t] : file[r] = "delivered"

(* A reminder that was set never leaves the file, and one that was marked  *)
(* delivered never becomes pending again.                                  *)
RemindersKept ==
  [][\A r \in Reminds :
       /\ file[r] # "absent" => file'[r] # "absent"
       /\ file[r] = "delivered" => file'[r] = "delivered"]_reminderVars

(* A reminder marked as delivered was delivered, is being delivered, or    *)
(* was in the hands of a tick that threw or died: there is no other way to *)
(* lose one.                                                               *)
MarkedIsAccounted ==
  \A r \in Reminds : file[r] = "delivered" =>
    \/ notified[r] > 0
    \/ r \in lost
    \/ \E t \in Ticks : stage[t] = "deliver" /\ r \in batch[t]

(* The ticks get to every reminder that is due: none waits for ever, not   *)
(* even one whose tick died before it was marked.                          *)
DueIsSettled ==
  \A r \in Reminds :
    (r \in due /\ file[r] # "absent") ~> (notified[r] > 0 \/ r \in lost)
=============================================================================
