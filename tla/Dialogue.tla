------------------------------ MODULE Dialogue ------------------------------
(***************************************************************************)
(* One dialogue of geminio's multiplexer (src/multiplexer/dialogue.go) as  *)
(* seen from both peers: the active end A, which calls open(), and the     *)
(* passive end B, created by the connection layer when A's Session comes   *)
(* in.  Each end has the dialogue FSM, the sessionOK flag and its RWMutex, *)
(* the four channels, a sync hub, a read pump, a write pump and an         *)
(* application with a control thread (open / Write / Close / CloseWait)    *)
(* and a reader thread (Read).  The connection between the ends is a FIFO  *)
(* per direction (cn.Write appends, the connection's dispatcher delivers   *)
(* into the peer's readInCh).  dg.closeOnce is taken to be initialised     *)
(* like onceFini; NewDialogue leaves it nil, so that every Close panics.  *)
(***************************************************************************)
EXTENDS Naturals, Sequences

CONSTANTS
    A, B,          \* the two ends: A opens the dialogue, B accepts it
    Cap,           \* capacity of writeInCh, readInCh and readOutCh (128)
    Writers,       \* the ends whose application calls Write
    MaxData,       \* bound on the data packets each of them writes
    ConnMayFail    \* whether the transport may break (cn.Write then fails)

ASSUME Cap \in Nat \ {0} /\ MaxData \in Nat /\ Writers \subseteq {A, B}
ASSUME ConnMayFail \in BOOLEAN

Ends == {A, B}
Peer(e) == IF e = A THEN B ELSE A


(***************************************************************************)
(* The FSM built by initFSM.  ET_SESSIONACK is the same string as         *)
(* ET_SESSIONRECV, so both name one event "sessionrecv".  Emitting an      *)
(* event with no transition from the current state is rejected and leaves  *)
(* the state unchanged (yafsm, spec section 4.4).                          *)
(***************************************************************************)
ET_SESSIONSENT == "sessionsent"
ET_SESSIONRECV == "sessionrecv"
ET_SESSIONACK  == "sessionrecv"
ET_ERROR       == "error"
ET_EOF         == "eof"
ET_DISMISSSENT == "dismisssent"
ET_DISMISSRECV == "dismissrecv"
ET_DISMISSACK  == "dismissack"
ET_FINI        == "fini"

States == {"init", "session_sent", "session_recv", "sessioned",
           "dismiss_sent", "dismiss_recv", "dismissed", "fini"}

\* Mutant: the fini transition out of dismissed left out of initFSM.
TransitionsNoFiniFromDismissed ==
    {<<"init", ET_SESSIONSENT, "session_sent">>,
     <<"session_sent", ET_SESSIONACK, "sessioned">>,
     <<"session_sent", ET_ERROR, "dismissed">>,
     <<"session_sent", ET_EOF, "dismissed">>,
     <<"init", ET_SESSIONRECV, "session_recv">>,
     <<"session_recv", ET_SESSIONACK, "sessioned">>,
     <<"session_recv", ET_ERROR, "dismissed">>,
     <<"session_recv", ET_EOF, "dismissed">>,
     <<"sessioned", ET_ERROR, "dismissed">>,
     <<"sessioned", ET_EOF, "dismissed">>,
     <<"sessioned", ET_DISMISSSENT, "dismiss_sent">>,
     <<"sessioned", ET_DISMISSRECV, "dismiss_recv">>,
     <<"dismiss_sent", ET_DISMISSACK, "dismissed">>,
     <<"dismiss_recv", ET_DISMISSACK, "dismissed">>}
    \cup {<<s, ET_FINI, "fini">> : s \in {"init", "session_sent", "sessioned",
                      "dismiss_sent", "dismiss_recv"}}

\* Mutant: initFSM line 292 with sessioned typed for dismissed, so the
\* DismissAck a passive closer sends takes it back to sessioned.
TransitionsAckToSessioned ==
    (TransitionsNoFiniFromDismissed \ {<<"dismiss_recv", ET_DISMISSACK, "dismissed">>})
    \cup {<<"dismiss_recv", ET_DISMISSACK, "sessioned">>, <<"dismissed", ET_FINI, "fini">>}

Transitions ==
    {<<"init", ET_SESSIONSENT, "session_sent">>,
     <<"session_sent", ET_SESSIONACK, "sessioned">>,
     <<"session_sent", ET_ERROR, "dismissed">>,
     <<"session_sent", ET_EOF, "dismissed">>,
     <<"init", ET_SESSIONRECV, "session_recv">>,
     <<"session_recv", ET_SESSIONACK, "sessioned">>,
     <<"session_recv", ET_ERROR, "dismissed">>,
     <<"session_recv", ET_EOF, "dismissed">>,
     <<"sessioned", ET_ERROR, "dismissed">>,
     <<"sessioned", ET_EOF, "dismissed">>,
     <<"sessioned", ET_DISMISSSENT, "dismiss_sent">>,
     <<"sessioned", ET_DISMISSRECV, "dismiss_recv">>,
     <<"dismiss_sent", ET_DISMISSACK, "dismissed">>,
     <<"dismiss_recv", ET_DISMISSACK, "dismissed">>}
    \cup {<<s, ET_FINI, "fini">> : s \in {"init", "session_sent", "sessioned",
                      "dismiss_sent", "dismiss_recv", "dismissed"}}

Events == {ET_SESSIONSENT, ET_SESSIONRECV, ET_ERROR, ET_EOF, ET_DISMISSSENT,
           ET_DISMISSRECV, ET_DISMISSACK, ET_FINI}

\* The transition table as a function; "none" where EmitEvent is rejected.
Table == [x \in States \X Events |->
            IF \E t \in Transitions : <<t[1], t[2]>> = x
            THEN (CHOOSE t \in Transitions : <<t[1], t[2]>> = x)[3]
            ELSE "none"]

CanEmit(s, ev) == Table[<<s, ev>>] # "none"
Emit(s, ev) == IF CanEmit(s, ev) THEN Table[<<s, ev>>] ELSE s

\* The states yafsm can move s to by one accepted event, and the states
\* reachable from the set S.
Succ(s) == {Table[<<s, ev>>] : ev \in {x \in Events : CanEmit(s, x)}}
RECURSIVE Reach(_)
Reach(S) ==
    LET T == S \cup UNION {Succ(s) : s \in S} IN IF T = S THEN S ELSE Reach(T)

Kinds == {"Session", "SessionAck", "Dismiss", "DismissAck", "Data"}
Keys == {"open", "close"}   \* the sync-hub entries: Session id, Dismiss id
Pumps == {"read", "write"}
\* The goroutines that may call dg.fini(): the two pumps and the connection.
Callers == Pumps \cup {"conn"}
PumpPCs == {"loop", "dismissEmit", "sessAck", "dismissRecv", "replyAck",
            "dataLock", "readOutBlocked",
            "closeWrapper", "finiLock", "finiEmit", "finiWait", "done"}
AppPCs == {"init", "passive", "openReg", "openWait", "ready",
           "writeBlocked", "closeReg", "closeWait", "done"}

VARIABLES
    fsm,          \* dg.fsm state
    sessionOK,    \* dg.sessionOK; FALSE also means the four channels closed
    finiState,    \* dg.onceFini: "none", "waiting" (Do holds it, Lock wanted),
                  \* "unlocked" (Unlock done, ET_FINI not yet emitted), "done"
    closeOnce,    \* dg.closeOnce: "none", "running" (CloseWait waiting), "done"
    writeCh,      \* control packets to the write pump
    writeInCh,    \* data packets queued by Write (a count)
    readInCh,     \* packets from the connection to the read pump
    readOutCh,    \* data packets queued for Read (a count)
    wire,         \* wire[e]: packets written by e, not yet dispatched at the peer
    pc,           \* pc[e][p]: where pump p of end e is
    app,          \* the application's control thread
    readerDone,   \* the application's Read returned io.EOF
    nRead,        \* data packets the application's Read has returned
    nWritten,     \* data packets Write has accepted
    shub,         \* shub[e][k]: "none", "pending", "ok", "timeout"
    online,       \* DialogueOnline has been delivered at e
    dpc,          \* the connection's dispatcher into e: "idle" or "blocked"
    broken,       \* the transport has failed
    panicked,     \* a Go panic happened (send on a closed channel)
    earlyAck,     \* earlyAck[e][k]: an ack for k reached e before shub.New
    acksIn        \* acksIn[e]: DismissAcks processed by e's read pump

vars == <<fsm, sessionOK, finiState, closeOnce, writeCh, writeInCh, readInCh,
          readOutCh, wire, pc, app, readerDone, nRead, nWritten, shub, online, dpc,
          broken, panicked, earlyAck, acksIn>>

TypeOK ==
    /\ fsm \in [Ends -> States]
    /\ sessionOK \in [Ends -> BOOLEAN]
    /\ finiState \in [Ends -> {"none", "waiting", "unlocked", "done"}]
    /\ closeOnce \in [Ends -> {"none", "running", "done"}]
    /\ writeCh \in [Ends -> Seq({"Session", "Dismiss", "DismissAck"})]
    /\ writeInCh \in [Ends -> 0..Cap]
    /\ readInCh \in [Ends -> Seq(Kinds)]
    /\ readOutCh \in [Ends -> 0..Cap]
    /\ wire \in [Ends -> Seq(Kinds)]
    /\ pc \in [Ends -> [Callers -> PumpPCs]]
    /\ app \in [Ends -> AppPCs]
    /\ readerDone \in [Ends -> BOOLEAN]
    /\ nRead \in [Ends -> 0..MaxData]
    /\ nWritten \in [Ends -> 0..MaxData]
    /\ shub \in [Ends -> [Keys -> {"none", "pending", "ok", "timeout"}]]
    /\ online \in [Ends -> BOOLEAN]
    /\ dpc \in [Ends -> {"idle", "blocked"}]
    /\ broken \in BOOLEAN
    /\ panicked \in BOOLEAN
    /\ earlyAck \in [Ends -> [Keys -> BOOLEAN]]
    /\ acksIn \in [Ends -> Nat]

Init ==
    /\ fsm = [e \in Ends |-> "init"]
    /\ sessionOK = [e \in Ends |-> TRUE]
    /\ finiState = [e \in Ends |-> "none"]
    /\ closeOnce = [e \in Ends |-> "none"]
    /\ writeCh = [e \in Ends |-> <<>>]
    /\ writeInCh = [e \in Ends |-> 0]
    /\ readInCh = [e \in Ends |-> <<>>]
    /\ readOutCh = [e \in Ends |-> 0]
    /\ wire = [e \in Ends |-> <<>>]
    /\ pc = [e \in Ends |-> [p \in Callers |-> "loop"]]
    /\ app = [e \in Ends |-> IF e = A THEN "init" ELSE "passive"]
    /\ readerDone = [e \in Ends |-> FALSE]
    /\ nRead = [e \in Ends |-> 0]
    /\ nWritten = [e \in Ends |-> 0]
    /\ shub = [e \in Ends |-> [k \in Keys |-> "none"]]
    /\ online = [e \in Ends |-> FALSE]
    /\ dpc = [e \in Ends |-> "idle"]
    /\ broken = FALSE
    /\ panicked = FALSE
    /\ earlyAck = [e \in Ends |-> [k \in Keys |-> FALSE]]
    /\ acksIn = [e \in Ends |-> 0]

-----------------------------------------------------------------------------
(* Helpers shared by the goroutines of one end.                            *)

\* No goroutine waits in dg.mtx.Lock(), so RLock() is granted (a pending
\* writer blocks new readers of a sync.RWMutex).
RLockFree(e) == finiState[e] # "waiting"

\* Mutant: Write releases the read lock before its blocking send.
RLockHeldNoWriter(e) ==
    \/ pc[e]["read"] = "readOutBlocked"
    \/ dpc[e] = "blocked"

\* Some goroutine holds e's read lock while blocked on a full channel.
RLockHeld(e) ==
    \/ app[e] = "writeBlocked"
    \/ pc[e]["read"] = "readOutBlocked"
    \/ dpc[e] = "blocked"

\* The results dg.cn.Write can return.
WriteResults == IF broken THEN {"eof", "err"} ELSE {"ok"}

SendDown(e, p, r) ==
    wire' = IF r = "ok" THEN [wire EXCEPT ![e] = Append(@, p)] ELSE wire

\* dg.writeCh <- p; a send on a closed channel panics.
SendCtrl(e, p) ==
    /\ writeCh' = [writeCh EXCEPT ![e] = Append(@, p)]
    /\ panicked' = (panicked \/ ~sessionOK[e])

\* goto CLOSED: dg.fini() enters onceFini.Do, or waits for the goroutine
\* already in it, or returns at once when it has finished.
CallFini(e, p) ==
    /\ pc' = [pc EXCEPT ![e][p] = CASE finiState[e] = "none" -> "finiLock"
                                    [] finiState[e] = "done" -> "done"
                                    [] OTHER                 -> "finiWait"]
    /\ finiState' = [finiState EXCEPT ![e] = IF @ = "none" THEN "waiting" ELSE @]

\* IOErr in a pump: dg.fsm.EmitEvent(ET_ERROR) from state s, whose
\* transitions run closeWrapper, then goto CLOSED.
HandleErr(e, p, s) ==
    IF CanEmit(s, ET_ERROR)
    THEN /\ fsm' = [fsm EXCEPT ![e] = Emit(s, ET_ERROR)]
         /\ pc' = [pc EXCEPT ![e][p] = "closeWrapper"]
         /\ UNCHANGED finiState
    ELSE /\ fsm' = [fsm EXCEPT ![e] = s]
         /\ CallFini(e, p)

\* dg.shub.Ack(id, nil): wakes a registered waiter, else is dropped.
ShubAck(e, k) ==
    /\ shub' = [shub EXCEPT ![e][k] = IF @ = "pending" THEN "ok" ELSE @]
    /\ earlyAck' = [earlyAck EXCEPT ![e][k] = @ \/ shub[e][k] = "none"]

\* The body of dg.Close() inside closeOnce.Do, read lock held.
Close(e) ==
    /\ closeOnce' = [closeOnce EXCEPT ![e] = "done"]
    /\ IF sessionOK[e] THEN SendCtrl(e, "Dismiss")
                       ELSE UNCHANGED <<writeCh, panicked>>

-----------------------------------------------------------------------------
(* The write pump, dg.writePkt, with handlePkt(pkt, OUT).                  *)

OutEvent == [Session |-> ET_SESSIONSENT, Dismiss |-> ET_DISMISSSENT,
             DismissAck |-> ET_DISMISSACK]

\* handlePkt OUT for a control packet p, from the state the FSM is in now:
\* emit its event (an error gives IOErr), then dg.cn.Write.  A DismissAck
\* written returns IOClosed, and the pump runs fini.
EmitAndWrite(e, p) ==
    LET s  == fsm[e]
        s1 == Emit(s, OutEvent[p])
    IN
    IF ~CanEmit(s, OutEvent[p])
    THEN HandleErr(e, "write", s) /\ UNCHANGED wire
    ELSE \E r \in WriteResults :
           /\ SendDown(e, p, r)
           /\ IF r # "ok"
              THEN HandleErr(e, "write", s1)
              ELSE /\ fsm' = [fsm EXCEPT ![e] = s1]
                   /\ IF p = "DismissAck"
                      THEN CallFini(e, "write")
                      ELSE /\ pc' = [pc EXCEPT ![e]["write"] = "loop"]
                           /\ UNCHANGED finiState

\* case <-dg.writeCh: a Session, Dismiss or DismissAck packet.  A Dismiss
\* is first checked against dismiss_recv and dismissed (InStates); the
\* emit of ET_DISMISSSENT is a later call, another step.
WriteCtrl(e) ==
    LET p == Head(writeCh[e]) IN
    /\ pc[e]["write"] = "loop"
    /\ writeCh[e] # <<>>
    /\ writeCh' = [writeCh EXCEPT ![e] = Tail(@)]
    /\ CASE p = "Dismiss" /\ fsm[e] \in {"dismiss_recv", "dismissed"} ->
              /\ ShubAck(e, "close")
              /\ UNCHANGED <<fsm, pc, finiState, wire>>
         [] p = "Dismiss" ->
              /\ pc' = [pc EXCEPT ![e]["write"] = "dismissEmit"]
              /\ UNCHANGED <<fsm, finiState, wire, shub, earlyAck>>
         [] OTHER ->
              EmitAndWrite(e, p) /\ UNCHANGED <<shub, earlyAck>>
    /\ UNCHANGED <<sessionOK, closeOnce, writeInCh, readInCh, readOutCh, app,
                   readerDone, nRead, nWritten, online, dpc, broken, panicked,
                   acksIn>>

\* The Dismiss passed the InStates check: EmitEvent(ET_DISMISSSENT) on the
\* state the FSM is in now, which the read pump may have changed since.
WriteDismissEmit(e) ==
    /\ pc[e]["write"] = "dismissEmit"
    /\ EmitAndWrite(e, "Dismiss")
    /\ UNCHANGED <<sessionOK, closeOnce, writeCh, writeInCh, readInCh, readOutCh,
                   app, readerDone, nRead, nWritten, shub, online, dpc, broken,
                   panicked, earlyAck, acksIn>>

\* case <-dg.writeInCh: a data packet goes straight to dg.cn.Write.
WriteData(e) ==
    /\ pc[e]["write"] = "loop"
    /\ writeInCh[e] > 0
    /\ writeInCh' = [writeInCh EXCEPT ![e] = @ - 1]
    /\ \E r \in WriteResults :
         /\ SendDown(e, "Data", r)
         /\ CASE r = "ok"  -> UNCHANGED <<fsm, pc, finiState>>
              [] r = "eof" -> /\ fsm' = [fsm EXCEPT ![e] = Emit(@, ET_EOF)]
                              /\ CallFini(e, "write")
              [] OTHER     -> HandleErr(e, "write", fsm[e])
    /\ UNCHANGED <<sessionOK, closeOnce, writeCh, readInCh, readOutCh, app,
                   readerDone, nRead, nWritten, shub, online, dpc, broken, panicked,
                   earlyAck, acksIn>>

\* <-dg.writeCh reports the channel closed and drained: return.
WriteClosed(e) ==
    /\ pc[e]["write"] = "loop"
    /\ writeCh[e] = <<>>
    /\ ~sessionOK[e]
    /\ pc' = [pc EXCEPT ![e]["write"] = "done"]
    /\ UNCHANGED <<fsm, sessionOK, finiState, closeOnce, writeCh, writeInCh,
                   readInCh, readOutCh, wire, app, readerDone, nRead, nWritten, shub,
                   online, dpc, broken, panicked, earlyAck, acksIn>>

-----------------------------------------------------------------------------
(* The read pump, dg.readPkt, with handlePktWrapper and handlePkt(pkt, IN). *)

\* A Session from the peer: emit ET_SESSIONRECV, write the SessionAck.
ReadSession(e) ==
    LET s1 == Emit(fsm[e], ET_SESSIONRECV) IN
    /\ pc[e]["read"] = "loop"
    /\ readInCh[e] # <<>> /\ Head(readInCh[e]) = "Session"
    /\ readInCh' = [readInCh EXCEPT ![e] = Tail(@)]
    /\ IF ~CanEmit(fsm[e], ET_SESSIONRECV)
       THEN HandleErr(e, "read", fsm[e]) /\ UNCHANGED wire
       ELSE \E r \in WriteResults :
              /\ SendDown(e, "SessionAck", r)
              /\ IF r = "ok"
                 THEN /\ fsm' = [fsm EXCEPT ![e] = s1]
                      /\ pc' = [pc EXCEPT ![e]["read"] = "sessAck"]
                      /\ UNCHANGED finiState
                 ELSE HandleErr(e, "read", s1)
    /\ UNCHANGED <<sessionOK, closeOnce, writeCh, writeInCh, readOutCh, app,
                   readerDone, nRead, nWritten, shub, online, dpc, broken, panicked,
                   earlyAck, acksIn>>

\* After the SessionAck is written: emit ET_SESSIONACK, DialogueOnline, and
\* the passive dialogue is handed to the application (IONewPassive).
SessionOnline(e) ==
    /\ pc[e]["read"] = "sessAck"
    /\ IF CanEmit(fsm[e], ET_SESSIONACK)
       THEN /\ fsm' = [fsm EXCEPT ![e] = Emit(@, ET_SESSIONACK)]
            /\ pc' = [pc EXCEPT ![e]["read"] = "loop"]
            /\ online' = [online EXCEPT ![e] = TRUE]
            /\ app' = [app EXCEPT ![e] = IF @ = "passive" THEN "ready" ELSE @]
            /\ UNCHANGED finiState
       ELSE HandleErr(e, "read", fsm[e]) /\ UNCHANGED <<online, app>>
    /\ UNCHANGED <<sessionOK, closeOnce, writeCh, writeInCh, readInCh,
                   readOutCh, wire, readerDone, nRead, nWritten, shub, dpc, broken,
                   panicked, earlyAck, acksIn>>

\* A SessionAck: emit ET_SESSIONACK, adopt the id, shub.Ack the Session.
ReadSessionAck(e) ==
    /\ pc[e]["read"] = "loop"
    /\ readInCh[e] # <<>> /\ Head(readInCh[e]) = "SessionAck"
    /\ readInCh' = [readInCh EXCEPT ![e] = Tail(@)]
    /\ IF CanEmit(fsm[e], ET_SESSIONACK)
       THEN /\ fsm' = [fsm EXCEPT ![e] = Emit(@, ET_SESSIONACK)]
            /\ ShubAck(e, "open")
            /\ online' = [online EXCEPT ![e] = TRUE]
            /\ UNCHANGED <<pc, finiState>>
       ELSE HandleErr(e, "read", fsm[e]) /\ UNCHANGED <<shub, earlyAck, online>>
    /\ UNCHANGED <<sessionOK, closeOnce, writeCh, writeInCh, readOutCh, wire,
                   app, readerDone, nRead, nWritten, dpc, broken, panicked, acksIn>>

\* A Dismiss: in dismiss_sent or dismissed (both ends closing) reply at
\* once; otherwise emit ET_DISMISSRECV first, a later call than InStates.
ReadDismiss(e) ==
    /\ pc[e]["read"] = "loop"
    /\ readInCh[e] # <<>> /\ Head(readInCh[e]) = "Dismiss"
    /\ readInCh' = [readInCh EXCEPT ![e] = Tail(@)]
    /\ pc' = [pc EXCEPT ![e]["read"] = IF fsm[e] \in {"dismiss_sent", "dismissed"}
                                       THEN "replyAck" ELSE "dismissRecv"]
    /\ UNCHANGED <<fsm, finiState, sessionOK, closeOnce, writeCh, writeInCh,
                   readOutCh, wire, app, readerDone, nRead, nWritten, shub, online,
                   dpc, broken, panicked, earlyAck, acksIn>>

\* EmitEvent(ET_DISMISSRECV) on the state the FSM is in now, which the write
\* pump may have changed since the check; an error gives IOErr.
ReadDismissRecv(e) ==
    /\ pc[e]["read"] = "dismissRecv"
    /\ IF CanEmit(fsm[e], ET_DISMISSRECV)
       THEN /\ fsm' = [fsm EXCEPT ![e] = Emit(@, ET_DISMISSRECV)]
            /\ pc' = [pc EXCEPT ![e]["read"] = "replyAck"]
            /\ UNCHANGED finiState
       ELSE HandleErr(e, "read", fsm[e])
    /\ UNCHANGED <<sessionOK, closeOnce, writeCh, writeInCh, readInCh, readOutCh,
                   wire, app, readerDone, nRead, nWritten, shub, online, dpc, broken,
                   panicked, earlyAck, acksIn>>

\* Mutant: the reply is queued without checking sessionOK.
ReplyDismissAckNoCheck(e) ==
    /\ pc[e]["read"] = "replyAck"
    /\ RLockFree(e)
    /\ SendCtrl(e, "DismissAck")
    /\ pc' = [pc EXCEPT ![e]["read"] = "loop"]
    /\ UNCHANGED <<fsm, finiState, sessionOK, closeOnce, writeInCh, readInCh,
                   readOutCh, wire, app, readerDone, nRead, nWritten, shub, online,
                   dpc, broken, earlyAck, acksIn>>

\* RLock; if sessionOK, queue the DismissAck on writeCh, else IOErr.
ReplyDismissAck(e) ==
    /\ pc[e]["read"] = "replyAck"
    /\ RLockFree(e)
    /\ IF sessionOK[e]
       THEN /\ SendCtrl(e, "DismissAck")
            /\ pc' = [pc EXCEPT ![e]["read"] = "loop"]
            /\ UNCHANGED <<fsm, finiState>>
       ELSE HandleErr(e, "read", fsm[e]) /\ UNCHANGED <<writeCh, panicked>>
    /\ UNCHANGED <<sessionOK, closeOnce, writeInCh, readInCh, readOutCh, wire,
                   app, readerDone, nRead, nWritten, shub, online, dpc, broken,
                   earlyAck, acksIn>>

\* A DismissAck: emit ET_DISMISSACK, shub.Ack the Dismiss, return IOClosed.
ReadDismissAck(e) ==
    /\ pc[e]["read"] = "loop"
    /\ readInCh[e] # <<>> /\ Head(readInCh[e]) = "DismissAck"
    /\ readInCh' = [readInCh EXCEPT ![e] = Tail(@)]
    /\ acksIn' = [acksIn EXCEPT ![e] = @ + 1]
    /\ IF CanEmit(fsm[e], ET_DISMISSACK)
       THEN /\ fsm' = [fsm EXCEPT ![e] = Emit(@, ET_DISMISSACK)]
            /\ ShubAck(e, "close")
            /\ CallFini(e, "read")
       ELSE HandleErr(e, "read", fsm[e]) /\ UNCHANGED <<shub, earlyAck>>
    /\ UNCHANGED <<sessionOK, closeOnce, writeCh, writeInCh, readOutCh, wire,
                   app, readerDone, nRead, nWritten, online, dpc, broken, panicked>>

\* A data packet (IOData): take it, then RLock to pass it to readOutCh.
ReadData(e) ==
    /\ pc[e]["read"] = "loop"
    /\ readInCh[e] # <<>> /\ Head(readInCh[e]) = "Data"
    /\ readInCh' = [readInCh EXCEPT ![e] = Tail(@)]
    /\ pc' = [pc EXCEPT ![e]["read"] = "dataLock"]
    /\ UNCHANGED <<fsm, sessionOK, finiState, closeOnce, writeCh, writeInCh,
                   readOutCh, wire, app, readerDone, nRead, nWritten, shub, online,
                   dpc, broken, panicked, earlyAck, acksIn>>

\* With the read lock: drop the packet if the dialogue is finished, else
\* send it on readOutCh, blocking (lock held) while readOutCh is full.
\* (A non-blocking send on readOutCh: the packet is dropped when it is full.)
DeliverDataNoBlock(e) ==
    /\ pc[e]["read"] = "dataLock"
    /\ RLockFree(e)
    /\ IF sessionOK[e] /\ readOutCh[e] < Cap
       THEN readOutCh' = [readOutCh EXCEPT ![e] = @ + 1]
       ELSE UNCHANGED readOutCh
    /\ pc' = [pc EXCEPT ![e]["read"] = "loop"]
    /\ UNCHANGED <<fsm, sessionOK, finiState, closeOnce, writeCh, writeInCh,
                   readInCh, wire, app, readerDone, nRead, nWritten, shub, online,
                   dpc, broken, panicked, earlyAck, acksIn>>

DeliverData(e) ==
    /\ pc[e]["read"] = "dataLock"
    /\ RLockFree(e)
    /\ IF sessionOK[e] /\ readOutCh[e] < Cap
       THEN readOutCh' = [readOutCh EXCEPT ![e] = @ + 1]
       ELSE UNCHANGED readOutCh
    /\ pc' = [pc EXCEPT ![e]["read"] =
                 IF sessionOK[e] /\ readOutCh[e] = Cap THEN "readOutBlocked"
                                                       ELSE "loop"]
    /\ UNCHANGED <<fsm, sessionOK, finiState, closeOnce, writeCh, writeInCh,
                   readInCh, wire, app, readerDone, nRead, nWritten, shub, online,
                   dpc, broken, panicked, earlyAck, acksIn>>

ReadOutUnblock(e) ==
    /\ pc[e]["read"] = "readOutBlocked"
    /\ readOutCh[e] < Cap
    /\ readOutCh' = [readOutCh EXCEPT ![e] = @ + 1]
    /\ panicked' = (panicked \/ ~sessionOK[e])
    /\ pc' = [pc EXCEPT ![e]["read"] = "loop"]
    /\ UNCHANGED <<fsm, sessionOK, finiState, closeOnce, writeCh, writeInCh,
                   readInCh, wire, app, readerDone, nRead, nWritten, shub, online,
                   dpc, broken, earlyAck, acksIn>>

\* <-dg.readInCh reports the channel closed and drained: return.
ReadClosed(e) ==
    /\ pc[e]["read"] = "loop"
    /\ readInCh[e] = <<>>
    /\ ~sessionOK[e]
    /\ pc' = [pc EXCEPT ![e]["read"] = "done"]
    /\ UNCHANGED <<fsm, sessionOK, finiState, closeOnce, writeCh, writeInCh,
                   readInCh, readOutCh, wire, app, readerDone, nRead, nWritten, shub,
                   online, dpc, broken, panicked, earlyAck, acksIn>>

-----------------------------------------------------------------------------
(* Teardown, shared by both pumps.                                         *)

\* closeWrapper, the callback of the ET_ERROR transitions: dg.Close().
\* Do waits while a CloseWait holds the Once.
CloseWrapper(e, p) ==
    /\ pc[e][p] = "closeWrapper"
    /\ closeOnce[e] # "running"
    /\ IF closeOnce[e] = "done"
       THEN UNCHANGED <<closeOnce, writeCh, panicked>>
       ELSE RLockFree(e) /\ Close(e)
    /\ CallFini(e, p)
    /\ UNCHANGED <<fsm, sessionOK, writeInCh, readInCh, readOutCh, wire, app,
                   readerDone, nRead, nWritten, shub, online, dpc, broken, earlyAck,
                   acksIn>>

\* dg.fini() inside onceFini.Do: mtx.Lock() once no reader holds the lock,
\* sessionOK = false, close the four channels, mtx.Unlock().
Fini(e, p) ==
    /\ pc[e][p] = "finiLock"
    /\ ~RLockHeld(e)
    /\ sessionOK' = [sessionOK EXCEPT ![e] = FALSE]
    /\ finiState' = [finiState EXCEPT ![e] = "unlocked"]
    /\ pc' = [pc EXCEPT ![e][p] = "finiEmit"]
    /\ UNCHANGED <<fsm, closeOnce, writeCh, writeInCh, readInCh, readOutCh, wire,
                   app, readerDone, nRead, nWritten, shub, online, dpc, broken,
                   panicked, earlyAck, acksIn>>

\* Then, outside the lock, fsm.EmitEvent(ET_FINI) and fsm.Close(); Do returns.
FiniEmit(e, p) ==
    /\ pc[e][p] = "finiEmit"
    /\ fsm' = [fsm EXCEPT ![e] = Emit(@, ET_FINI)]
    /\ finiState' = [finiState EXCEPT ![e] = "done"]
    /\ pc' = [pc EXCEPT ![e][p] = "done"]
    /\ UNCHANGED <<sessionOK, closeOnce, writeCh, writeInCh, readInCh, readOutCh,
                   wire, app, readerDone, nRead, nWritten, shub, online, dpc, broken,
                   panicked, earlyAck, acksIn>>

\* The other pump's onceFini.Do returns once the first has finished.
FiniWait(e, p) ==
    /\ pc[e][p] = "finiWait"
    /\ finiState[e] = "done"
    /\ pc' = [pc EXCEPT ![e][p] = "done"]
    /\ UNCHANGED <<fsm, sessionOK, finiState, closeOnce, writeCh, writeInCh,
                   readInCh, readOutCh, wire, app, readerDone, nRead, nWritten, shub,
                   online, dpc, broken, panicked, earlyAck, acksIn>>

-----------------------------------------------------------------------------
(* The application: open() (run by the multiplexer for A), Write, Close,   *)
(* CloseWait on the control thread, Read on the reader thread.             *)

AppVars == <<fsm, finiState, readInCh, readOutCh, wire, pc, readerDone, nRead,
             online, dpc, broken, acksIn>>

\* open(): RLock, queue the Session on writeCh, RUnlock.
OpenSend(e) ==
    /\ app[e] = "init"
    /\ RLockFree(e)
    /\ IF sessionOK[e]
       THEN SendCtrl(e, "Session") /\ app' = [app EXCEPT ![e] = "openReg"]
       ELSE app' = [app EXCEPT ![e] = "done"] /\ UNCHANGED <<writeCh, panicked>>
    /\ UNCHANGED <<AppVars, sessionOK, closeOnce, writeInCh, nWritten, shub,
                   earlyAck>>

\* open(): then shub.New(pkt.PacketID) registers the waiter.
OpenRegister(e) ==
    /\ app[e] = "openReg"
    /\ shub' = [shub EXCEPT ![e]["open"] = "pending"]
    /\ app' = [app EXCEPT ![e] = "openWait"]
    /\ UNCHANGED <<AppVars, sessionOK, closeOnce, writeCh, writeInCh, nWritten,
                   panicked, earlyAck>>

\* open(): <-sync.C() returns the ack (nil) or the timeout error.
OpenReturn(e) ==
    /\ app[e] = "openWait"
    /\ shub[e]["open"] \in {"ok", "timeout"}
    /\ app' = [app EXCEPT ![e] = IF shub[e]["open"] = "ok" THEN "ready" ELSE "done"]
    /\ UNCHANGED <<AppVars, sessionOK, closeOnce, writeCh, writeInCh, nWritten,
                   shub, panicked, earlyAck>>

\* Write(pkt): RLock; io.EOF if !sessionOK, else writeInCh <- pkt, which
\* blocks with the read lock held while writeInCh is full.
Write(e) ==
    /\ app[e] = "ready"
    /\ e \in Writers
    /\ nWritten[e] < MaxData
    /\ RLockFree(e)
    /\ nWritten' = [nWritten EXCEPT ![e] = IF sessionOK[e] THEN @ + 1 ELSE @]
    /\ IF sessionOK[e] /\ writeInCh[e] < Cap
       THEN writeInCh' = [writeInCh EXCEPT ![e] = @ + 1]
       ELSE UNCHANGED writeInCh
    /\ app' = [app EXCEPT ![e] = IF ~sessionOK[e] THEN "done"
                                 ELSE IF writeInCh[e] = Cap THEN "writeBlocked"
                                 ELSE "ready"]
    /\ UNCHANGED <<AppVars, sessionOK, closeOnce, writeCh, shub, panicked,
                   earlyAck>>

\* Mutant: the blocked send completes without waiting for room.
WriteUnblockNoRoom(e) ==
    /\ app[e] = "writeBlocked"
    /\ writeInCh' = [writeInCh EXCEPT ![e] = @ + 1]
    /\ panicked' = (panicked \/ ~sessionOK[e])
    /\ app' = [app EXCEPT ![e] = "ready"]
    /\ UNCHANGED <<AppVars, sessionOK, closeOnce, writeCh, nWritten, shub,
                   earlyAck>>

WriteUnblock(e) ==
    /\ app[e] = "writeBlocked"
    /\ writeInCh[e] < Cap
    /\ writeInCh' = [writeInCh EXCEPT ![e] = @ + 1]
    /\ panicked' = (panicked \/ ~sessionOK[e])
    /\ app' = [app EXCEPT ![e] = "ready"]
    /\ UNCHANGED <<AppVars, sessionOK, closeOnce, writeCh, nWritten, shub,
                   earlyAck>>

\* Close(): closeOnce.Do(RLock; queue a Dismiss if sessionOK).
AppClose(e) ==
    /\ app[e] = "ready"
    /\ app' = [app EXCEPT ![e] = "done"]
    /\ IF closeOnce[e] = "done"
       THEN UNCHANGED <<closeOnce, writeCh, panicked>>
       ELSE RLockFree(e) /\ Close(e)
    /\ UNCHANGED <<AppVars, sessionOK, writeInCh, nWritten, shub, earlyAck>>

\* CloseWait(): inside closeOnce.Do, RLock and queue a Dismiss, RUnlock ...
CloseWaitSend(e) ==
    /\ app[e] = "ready"
    /\ IF closeOnce[e] = "done"
       THEN UNCHANGED <<closeOnce, writeCh, panicked>> /\ app' = [app EXCEPT ![e] = "done"]
       ELSE /\ RLockFree(e)
            /\ IF sessionOK[e]
               THEN /\ SendCtrl(e, "Dismiss")
                    /\ closeOnce' = [closeOnce EXCEPT ![e] = "running"]
                    /\ app' = [app EXCEPT ![e] = "closeReg"]
               ELSE /\ closeOnce' = [closeOnce EXCEPT ![e] = "done"]
                    /\ app' = [app EXCEPT ![e] = "done"]
                    /\ UNCHANGED <<writeCh, panicked>>
    /\ UNCHANGED <<AppVars, sessionOK, writeInCh, nWritten, shub, earlyAck>>

\* ... then shub.New(pkt.PacketID) ...
CloseWaitRegister(e) ==
    /\ app[e] = "closeReg"
    /\ shub' = [shub EXCEPT ![e]["close"] = "pending"]
    /\ app' = [app EXCEPT ![e] = "closeWait"]
    /\ UNCHANGED <<AppVars, sessionOK, closeOnce, writeCh, writeInCh, nWritten,
                   panicked, earlyAck>>

\* ... and <-sync.C(), after which the Once is released.
CloseWaitReturn(e) ==
    /\ app[e] = "closeWait"
    /\ shub[e]["close"] \in {"ok", "timeout"}
    /\ closeOnce' = [closeOnce EXCEPT ![e] = "done"]
    /\ app' = [app EXCEPT ![e] = "done"]
    /\ UNCHANGED <<AppVars, sessionOK, writeCh, writeInCh, nWritten, shub,
                   panicked, earlyAck>>

\* Read(): a packet from readOutCh, or io.EOF once it is closed and drained.
Read(e) ==
    /\ online[e]
    /\ ~readerDone[e]
    /\ \/ /\ readOutCh[e] > 0
          /\ readOutCh' = [readOutCh EXCEPT ![e] = @ - 1]
          /\ nRead' = [nRead EXCEPT ![e] = @ + 1]
          /\ UNCHANGED readerDone
       \/ /\ readOutCh[e] = 0
          /\ ~sessionOK[e]
          /\ readerDone' = [readerDone EXCEPT ![e] = TRUE]
          /\ UNCHANGED <<readOutCh, nRead>>
    /\ UNCHANGED <<fsm, sessionOK, finiState, closeOnce, writeCh, writeInCh,
                   readInCh, wire, pc, app, nWritten, shub, online, dpc, broken,
                   panicked, earlyAck, acksIn>>

\* The synchub timer (30s) fires for a registered waiter.
Timeout(e, k) ==
    /\ shub[e][k] = "pending"
    /\ shub' = [shub EXCEPT ![e][k] = "timeout"]
    /\ UNCHANGED <<fsm, sessionOK, finiState, closeOnce, writeCh, writeInCh,
                   readInCh, readOutCh, wire, pc, app, readerDone, nRead, nWritten,
                   online, dpc, broken, panicked, earlyAck, acksIn>>

-----------------------------------------------------------------------------
(* The connection layer (not in src/; modelled from spec sections 4.5 and  *)
(* 5): its read pump routes each packet of the peer into e's readInCh      *)
(* under e's read lock, dropping it when the dialogue is finished, and     *)
(* blocking with the lock held while readInCh is full.                     *)

Dispatch(e) ==
    /\ dpc[e] = "idle"
    /\ ~broken
    /\ wire[Peer(e)] # <<>>
    /\ RLockFree(e)
    /\ IF sessionOK[e] /\ Len(readInCh[e]) = Cap
       THEN /\ dpc' = [dpc EXCEPT ![e] = "blocked"]
            /\ UNCHANGED <<wire, readInCh>>
       ELSE /\ wire' = [wire EXCEPT ![Peer(e)] = Tail(@)]
            /\ readInCh' = IF sessionOK[e]
                           THEN [readInCh EXCEPT ![e] = Append(@, Head(wire[Peer(e)]))]
                           ELSE readInCh
            /\ UNCHANGED dpc
    /\ UNCHANGED <<fsm, sessionOK, finiState, closeOnce, writeCh, writeInCh,
                   readOutCh, pc, app, readerDone, nRead, nWritten, shub, online,
                   broken, panicked, earlyAck, acksIn>>

DispatchUnblock(e) ==
    /\ dpc[e] = "blocked"
    /\ Len(readInCh[e]) < Cap
    /\ wire[Peer(e)] # <<>>
    /\ readInCh' = [readInCh EXCEPT ![e] = Append(@, Head(wire[Peer(e)]))]
    /\ wire' = [wire EXCEPT ![Peer(e)] = Tail(@)]
    /\ panicked' = (panicked \/ ~sessionOK[e])
    /\ dpc' = [dpc EXCEPT ![e] = "idle"]
    /\ UNCHANGED <<fsm, sessionOK, finiState, closeOnce, writeCh, writeInCh,
                   readOutCh, pc, app, readerDone, nRead, nWritten, shub, online,
                   broken, earlyAck, acksIn>>

\* The transport fails: packets in flight are lost, cn.Write fails from now.
\* A dispatcher blocked on a full readInCh already holds its packet.
ConnBreak ==
    /\ ConnMayFail
    /\ ~broken
    /\ broken' = TRUE
    /\ wire' = [e \in Ends |-> IF dpc[Peer(e)] = "blocked" THEN <<Head(wire[e])>>
                                                          ELSE <<>>]
    /\ UNCHANGED <<fsm, sessionOK, finiState, closeOnce, writeCh, writeInCh,
                   readInCh, readOutCh, pc, app, readerDone, nRead, nWritten, shub,
                   online, dpc, panicked, earlyAck, acksIn>>

\* Connection teardown (spec 4.5): once the transport has failed, the
\* connection signals its dialogue to finish, calling dg.fini().  A call
\* that finds onceFini already taken by a pump changes nothing of the
\* dialogue and is left out.
ConnTeardown(e) ==
    /\ broken
    /\ pc[e]["conn"] = "loop"
    /\ finiState[e] = "none"
    /\ CallFini(e, "conn")
    /\ UNCHANGED <<fsm, sessionOK, closeOnce, writeCh, writeInCh, readInCh,
                   readOutCh, wire, app, readerDone, nRead, nWritten, shub, online,
                   dpc, broken, panicked, earlyAck, acksIn>>

-----------------------------------------------------------------------------

WritePump(e) ==
    \/ WriteCtrl(e)
    \/ WriteDismissEmit(e)
    \/ WriteData(e)
    \/ WriteClosed(e)

ReadPump(e) ==
    \/ ReadSession(e)
    \/ SessionOnline(e)
    \/ ReadSessionAck(e)
    \/ ReadDismiss(e)
    \/ ReadDismissRecv(e)
    \/ ReplyDismissAck(e)
    \/ ReadDismissAck(e)
    \/ ReadData(e)
    \/ DeliverData(e)
    \/ ReadOutUnblock(e)
    \/ ReadClosed(e)

Teardown(e) ==
    \E p \in Callers :
        CloseWrapper(e, p) \/ Fini(e, p) \/ FiniEmit(e, p) \/ FiniWait(e, p)

\* Steps inside a call already made: they run whenever they can.
AppInCall(e) ==
    \/ OpenRegister(e)
    \/ OpenReturn(e)
    \/ WriteUnblock(e)
    \/ CloseWaitRegister(e)
    \/ CloseWaitReturn(e)

\* Calls the application may or may not make.
AppCall(e) ==
    \/ OpenSend(e)
    \/ Write(e)
    \/ AppClose(e)
    \/ CloseWaitSend(e)

\* A panic ends the process; the properties report the first one.
Next ==
    \/ \E e \in Ends :
         \/ WritePump(e)
         \/ ReadPump(e)
         \/ Teardown(e)
         \/ AppInCall(e)
         \/ AppCall(e)
         \/ Read(e)
         \/ \E k \in Keys : Timeout(e, k)
         \/ Dispatch(e)
         \/ DispatchUnblock(e)
         \/ ConnTeardown(e)
    \/ ConnBreak

\* Goroutines, timers, the connection's read pump and its teardown are
\* scheduled weakly fairly by the Go runtime; the application's readers keep reading, but
\* no application is obliged to call Write, Close or CloseWait.
Fairness ==
    \A e \in Ends :
        /\ WF_vars(WritePump(e))
        /\ WF_vars(ReadPump(e))
        /\ \A p \in Callers :
              WF_vars(CloseWrapper(e, p) \/ Fini(e, p) \/ FiniEmit(e, p)
                      \/ FiniWait(e, p))
        /\ WF_vars(AppInCall(e))
        /\ WF_vars(OpenSend(e))
        /\ WF_vars(Read(e))
        /\ \A k \in Keys : WF_vars(Timeout(e, k))
        /\ WF_vars(Dispatch(e) \/ DispatchUnblock(e))
        /\ WF_vars(ConnTeardown(e))

Spec == Init /\ [][Next]_vars /\ Fairness

-----------------------------------------------------------------------------
(* Refinement: the lifecycle each end's FSM and sessionOK go through.      *)

\* The FSM states of initFSM, grouped by lifecycle phase.
Phase(s) ==
    CASE s = "init"                                          -> "idle"
      [] s \in {"session_sent", "session_recv"}              -> "opening"
      [] s = "sessioned"                                     -> "open"
      [] s \in {"dismiss_sent", "dismiss_recv", "dismissed"} -> "closing"
      [] s = "fini"                                          -> "closed"

Life == INSTANCE DialogueLifecycle
            WITH Opener <- A, Acceptor <- B,
                 phase <- [e \in Ends |-> Phase(fsm[e])],
                 live <- sessionOK

-----------------------------------------------------------------------------
(* Properties.                                                             *)

\* Every channel send happens on an open channel: the sessionOK check
\* under the read lock, and fini taking the write lock, keep Write, open,
\* Close, the read pump's DismissAck reply and readOutCh delivery from
\* ever sending on a channel fini has closed.
NoPanic == ~panicked

\* Data packets of "from" held between its Write and "to"'s Read: in
\* writeInCh, in a Write blocked on it, on the wire, in readInCh, in the
\* read pump's hand, and in readOutCh.
DataCount(s) == Len(SelectSeq(s, LAMBDA k : k = "Data"))

DataHeld(from, to) ==
    writeInCh[from] + (IF app[from] = "writeBlocked" THEN 1 ELSE 0)
      + DataCount(wire[from]) + DataCount(readInCh[to])
      + (IF pc[to]["read"] \in {"dataLock", "readOutBlocked"} THEN 1 ELSE 0)
      + readOutCh[to]

\* While the transport is up, the receiver has not run fini and the
\* sender's write pump is still running, every data packet Write accepted
\* is held exactly once on its way or has been returned by the peer's Read:
\* the read pump's blocking send on a full readOutCh, the write pump and
\* the dispatcher neither drop nor duplicate one.
DataConserved ==
    \A e \in Ends :
        (~broken /\ sessionOK[Peer(e)] /\ pc[e]["write"] # "done")
            => nWritten[e] = DataHeld(e, Peer(e)) + nRead[Peer(e)]

\* Spec 8.5, FSM closure of initFSM: from the state every dialogue is in,
\* some sequence of events the table accepts still reaches fini.
FSMClosure == \A e \in Ends : "fini" \in Reach({fsm[e]})

\* Whichever goroutine runs fini, and whatever state the FSM was left in by
\* the handshake, error or EOF path before it, fini's ET_FINI reaches the
\* terminal state: no end finishes with its FSM stuck short of fini.
FiniIsTerminal == \A e \in Ends : finiState[e] = "done" => fsm[e] = "fini"

\* Spec 3 (invariant 3) and 4.6: the SessionAck answering open() finds the
\* waiter open() registered in the sync hub.  open() queues the Session
\* and only then calls shub.New.
OpenAckAwaited == ~earlyAck[A]["open"]

\* Spec 4.6 and 5 (packet order preserved within a direction): every data
\* packet that Write accepted at a writing end has been returned by the
\* peer's Read by the time that Read reports io.EOF, the transport staying
\* up.  Close queues its Dismiss on writeCh while the data may still sit in
\* writeInCh, the write pump's select takes either, and fini drops what the
\* two channels and readInCh still hold.
DataBeforeCloseDelivered ==
    \A e \in Writers :
        (readerDone[Peer(e)] /\ app[e] # "writeBlocked") => nRead[Peer(e)] = nWritten[e]

\* Spec 4.6 and the pending sync entry of spec 3, "created when a packet
\* requiring an ack is written": a CloseWait() waiting on its sync-hub
\* entry still has its DismissAck to come.  CloseWait() queues the
\* Dismiss, drops the read lock and only then calls shub.New, so the
\* answer can be acked and dropped first, leaving it to wait for the timer.
CloseAckAwaited ==
    \A e \in Ends :
        (app[e] = "closeWait" /\ shub[e]["close"] = "pending") => ~earlyAck[e]["close"]

\* fini, once entered, completes: the writer lock it takes is granted.
FiniCompletes == \A e \in Ends : finiState[e] = "waiting" ~> finiState[e] = "done"

\* Spec 8, scenario 2 (simultaneous close): each end that sent a Dismiss
\* receives a DismissAck.
DismissAnswered == \A e \in Ends : fsm[e] = "dismiss_sent" ~> acksIn[e] > 0

\* The two dialogues implement DialogueLifecycle: every FSM transition the
\* pumps, closeWrapper and fini make moves an end forward (the acceptor
\* opening only on the opener's Session, an end sessioned only once its
\* peer took part), sessionOK falls once, ET_FINI is taken only after it
\* fell, and an end whose sessionOK fell reaches state fini.
LifecycleRefined == Life!LSpec
=============================================================================
