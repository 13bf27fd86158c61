------------------------------ MODULE SyncHub ------------------------------
(***************************************************************************)
(* The sync hub the dialogue waits on (armorigo synchub, not in this       *)
(* repository; modelled from spec 4.3).  A map from id to a one-shot       *)
(* delivery slot, guarded by one mutex; each entry carries a timer.  New   *)
(* registers an id and arms its timer; Ack and Cancel deliver under the    *)
(* mutex and stop the timer; a timer that has already fired runs its       *)
(* callback, which takes the mutex and delivers the timeout.  The waiter   *)
(* takes its result from the slot.  Every step that holds the mutex is one *)
(* action; the timer callback is a goroutine of its own, so its firing and *)
(* its taking the mutex are two.                                           *)
(***************************************************************************)
EXTENDS Naturals, Sequences

CONSTANTS
    Ids,        \* packet ids registered by open() and CloseWait()
    AckValues   \* the errors Ack may carry: nil, or a peer's error

Outcomes == AckValues \cup {"timeout", "cancelled"}
NoOutcome == "none"

VARIABLES
    entry,      \* entry[i]: "none", "pending" in the map, or "removed"
    slot,       \* slot[i]: the one-shot channel of the waiter (a sequence)
    timer,      \* timer[i]: "idle", "armed", or "fired" (callback runnable)
    got         \* got[i]: what <-sync.C() returned to the waiter

vars == <<entry, slot, timer, got>>

TypeOK ==
    /\ entry \in [Ids -> {"none", "pending", "removed"}]
    /\ slot \in [Ids -> Seq(Outcomes)]
    /\ timer \in [Ids -> {"idle", "armed", "fired"}]
    /\ got \in [Ids -> Outcomes \cup {NoOutcome}]

Init ==
    /\ entry = [i \in Ids |-> "none"]
    /\ slot = [i \in Ids |-> <<>>]
    /\ timer = [i \in Ids |-> "idle"]
    /\ got = [i \in Ids |-> NoOutcome]

\* Under the mutex: put o in the slot and remove the entry, if it is still
\* in the map; otherwise nothing.  The timer is stopped unless it fired.
Deliver(i, o) ==
    /\ entry[i] = "pending"
    /\ slot' = [slot EXCEPT ![i] = Append(@, o)]
    /\ entry' = [entry EXCEPT ![i] = "removed"]

\* Mutant: New registers the entry but never starts its timer.
NewUnarmed(i) ==
    /\ entry[i] = "none"
    /\ entry' = [entry EXCEPT ![i] = "pending"]
    /\ UNCHANGED <<slot, timer, got>>

\* shub.New(id, WithTimeout(30s)).
New(i) ==
    /\ entry[i] = "none"
    /\ entry' = [entry EXCEPT ![i] = "pending"]
    /\ timer' = [timer EXCEPT ![i] = "armed"]
    /\ UNCHANGED <<slot, got>>

\* shub.Ack(id, v) and cancel(id): deliver, stop the timer.
Ack(i, v) ==
    /\ Deliver(i, v)
    /\ timer' = [timer EXCEPT ![i] = IF @ = "armed" THEN "idle" ELSE @]
    /\ UNCHANGED got

Cancel(i) ==
    /\ Deliver(i, "cancelled")
    /\ timer' = [timer EXCEPT ![i] = IF @ = "armed" THEN "idle" ELSE @]
    /\ UNCHANGED got

\* The timer fires: its callback becomes runnable, not yet holding the mutex.
TimerFire(i) ==
    /\ timer[i] = "armed"
    /\ timer' = [timer EXCEPT ![i] = "fired"]
    /\ UNCHANGED <<entry, slot, got>>

\* The callback takes the mutex: the timeout, if the entry is still there.
TimerRun(i) ==
    /\ timer[i] = "fired"
    /\ timer' = [timer EXCEPT ![i] = "idle"]
    /\ \/ Deliver(i, "timeout")
       \/ entry[i] # "pending" /\ UNCHANGED <<entry, slot>>
    /\ UNCHANGED got

\* <-sync.C(): the waiter takes the result.
Wait(i) ==
    /\ slot[i] # <<>>
    /\ got[i] = NoOutcome
    /\ got' = [got EXCEPT ![i] = Head(slot[i])]
    /\ UNCHANGED <<entry, slot, timer>>

Next ==
    \E i \in Ids :
        \/ New(i)
        \/ \E v \in AckValues : Ack(i, v)
        \/ Cancel(i)
        \/ TimerFire(i)
        \/ TimerRun(i)
        \/ Wait(i)

\* The timer and its callback are goroutines of the Go runtime; the waiter
\* is blocked in <-sync.C() and runs once the slot is filled.  Nobody is
\* obliged to Ack or Cancel.
Spec ==
    /\ Init /\ [][Next]_vars
    /\ \A i \in Ids : WF_vars(TimerFire(i)) /\ WF_vars(TimerRun(i)) /\ WF_vars(Wait(i))

-----------------------------------------------------------------------------

\* The hub implements the one-shot contract: the outcome of an id is the
\* first delivery into its slot, made under the mutex, which the waiter
\* then takes; every registered waiter is woken, by the timer if by nothing
\* else.
OneShot == INSTANCE SyncHubOneShot
    WITH registered <- {i \in Ids : entry[i] # "none"},
         outcome <- [i \in Ids |-> IF slot[i] = <<>> THEN NoOutcome ELSE slot[i][1]]

OneShotRefined == OneShot!OSpec
=============================================================================
