-------------------------- MODULE DialogueLifecycle --------------------------
(***************************************************************************)
(* What a pair of dialogues promises about its lifecycle, without pumps,   *)
(* channels or packets.  Each end moves forward through idle, opening,     *)
(* open, closing and closed, never back.  The accepting end starts opening *)
(* only after the opener has, and an end is open only when its peer has    *)
(* started too.  live is the end's sessionOK: teardown clears it once and  *)
(* for all, and an end is closed only after its teardown, which it then    *)
(* eventually completes.                                                   *)
(***************************************************************************)
CONSTANTS Opener, Acceptor

Ends == {Opener, Acceptor}
Other(e) == IF e = Opener THEN Acceptor ELSE Opener

Phases == {"idle", "opening", "open", "closing", "closed"}

VARIABLES phase, live

lvars == <<phase, live>>

LifecycleTypeOK ==
    /\ phase \in [Ends -> Phases]
    /\ live \in [Ends -> BOOLEAN]

LInit ==
    /\ phase = [e \in Ends |-> "idle"]
    /\ live = [e \in Ends |-> TRUE]

Move(e, to) == phase' = [phase EXCEPT ![e] = to] /\ UNCHANGED live

\* The opener may start at any time; the acceptor only on the opener's request.
MayOpen(e) ==
    /\ phase[e] = "idle"
    /\ e = Acceptor => phase[Other(e)] # "idle"

\* The opener sends its request; the acceptor reacts to it.
BeginOpen(e) == MayOpen(e) /\ Move(e, "opening")

\* The handshake completes at e: its peer has taken part.
Establish(e) ==
    /\ phase[e] = "opening"
    /\ phase[Other(e)] # "idle"
    /\ Move(e, "open")

\* Close, a peer's Dismiss, an error or EOF.
Wind(e) ==
    /\ phase[e] \in {"opening", "open"}
    /\ Move(e, "closing")

\* The request, or the reply to it, fails on the transport as it is
\* written: the end starts opening and winds down in one step.
Abort(e) == MayOpen(e) /\ Move(e, "closing")

\* Teardown starts: the end stops accepting work.
Teardown(e) ==
    /\ live[e]
    /\ live' = [live EXCEPT ![e] = FALSE]
    /\ UNCHANGED phase

\* Teardown completes.
Finish(e) ==
    /\ ~live[e]
    /\ phase[e] # "closed"
    /\ Move(e, "closed")

LNext ==
    \E e \in Ends :
        \/ BeginOpen(e) \/ Establish(e) \/ Wind(e) \/ Abort(e)
        \/ Teardown(e) \/ Finish(e)

LSpec == LInit /\ [][LNext]_lvars /\ \A e \in Ends : WF_lvars(Finish(e))
=============================================================================
