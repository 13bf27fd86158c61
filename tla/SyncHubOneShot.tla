--------------------------- MODULE SyncHubOneShot ---------------------------
(***************************************************************************)
(* The contract of the sync hub (spec 4.3): each registered id gets one    *)
(* outcome, once, and keeps it.  Nothing is said about who produces it.    *)
(***************************************************************************)
CONSTANTS Ids, Outcomes, NoOutcome

VARIABLES registered, outcome

ovars == <<registered, outcome>>

OneShotTypeOK ==
    /\ registered \subseteq Ids
    /\ outcome \in [Ids -> Outcomes \cup {NoOutcome}]

OInit == registered = {} /\ outcome = [i \in Ids |-> NoOutcome]

Open(i) ==
    /\ i \notin registered
    /\ registered' = registered \cup {i}
    /\ UNCHANGED outcome

Resolve(i, o) ==
    /\ i \in registered
    /\ outcome[i] = NoOutcome
    /\ outcome' = [outcome EXCEPT ![i] = o]
    /\ UNCHANGED registered

ONext == \E i \in Ids : Open(i) \/ \E o \in Outcomes : Resolve(i, o)

\* Every registered id is eventually resolved.
OSpec == OInit /\ [][ONext]_ovars
            /\ \A i \in Ids : WF_ovars(\E o \in Outcomes : Resolve(i, o))
=============================================================================
