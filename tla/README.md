# TLA+ models of geminio's dialogue layer

This directory holds TLA+ models of the geminio dialogue (session) layer and
of its packet codec. It also holds the TLC configurations that check them.
Each module is translated from the Go source under `src/`. Where the code a
module needs is not in this repository (yafsm, armorigo synchub, the
connection layer, the packet header), that part is modelled from `spec.md`.
`PROJECT.json` maps every modelled definition to the lines it stands for.

## The system

| Part | Source | State | Operations |
|---|---|---|---|
| Dialogue | `src/multiplexer/dialogue.go` | `fsm`, `sessionOK` under `mtx` (RWMutex), `onceFini`, `closeOnce`, the channels `writeCh` (control), `writeInCh` (data from Write), `readInCh` (from the connection), `readOutCh` (to Read) | `NewDialogue`, `open`, `Write`, `Read`, `Close`, `CloseWait`, the `writePkt` and `readPkt` goroutines, `handlePkt` and `handlePktWrapper`, `closeWrapper`, `fini` |
| FSM runtime (yafsm, not in src/) | spec 4.4, table in `initFSM` | current state | `EmitEvent`: take the transition or reject the event |
| Sync hub (synchub, not in src/) | spec 4.3, 4.6 | an id map under a mutex, a one-shot slot and a timer per id | `New` (register), `Ack`, `Cancel`, the timer callback, the waiter's receive |
| Connection (not in src/) | spec 4.5, 5 | wire, transport health | `cn.Write`; routing inbound packets into `readInCh` under the dialogue's read lock |
| Session codec | `src/packet/packet_sess.go` | none (pure functions) | `Encode`, `Decode`, `DecodeFromReader` for Session, SessionAck, Dismiss and DismissAck |
| Application types, example client, unnamed fragments | `src/application`, `src/examples`, `src/unnamed` | none | none; not modelled |

### How the parts interact

- The application calls `open`, `Write`, `Close` and `CloseWait`. Each takes
  the dialogue's read lock, checks `sessionOK` and sends on a channel.
- The write pump takes packets from `writeCh` or `writeInCh`. It emits the
  FSM event of each control packet and writes the packet to the connection.
- The connection delivers the peer's packets into `readInCh`.
- The read pump handles each inbound packet. It moves the FSM, replies
  (SessionAck, DismissAck), acks sync-hub waiters, and passes data to
  `readOutCh`.
- Either pump ends by calling `fini`. `fini` takes the write lock, sets
  `sessionOK` false, closes the four channels and emits `ET_FINI`.

### Hard behaviours

- Goroutine interleavings around the read/write lock.
- Blocking sends on full channels while the lock is held.
- The window between queuing a request and registering its sync-hub waiter.
- Simultaneous close.
- Transport failure in the middle of any step.

## Modules

### `Dialogue.tla`: two dialogues over one connection

The model has two ends:
- `A` opens the dialogue; the multiplexer runs `open()` for it.
- `B` is the passive dialogue the peer creates. It exists from the start in
  state `init`.

Per end, the model keeps:
- `fsm`, `sessionOK`, `finiState` (the `onceFini` Once), `closeOnce`;
- the four channels;
- `pc[e][p]`, the point each pump goroutine has reached;
- `app[e]`, the application's control thread;
- the sync-hub waiters `shub[e][k]` for the `open` and `close` requests.

Channels are abstracted by their data:
- data channels are counts;
- control and inbound channels are sequences of packet kinds.

How the model's pieces correspond to the code:
- **Pump steps.** Each pump step is one action per `select` case or
  `switch` case of `handlePkt`. An action stops at the first point where the
  goroutine can block or where another goroutine can act in between: taking
  the read lock, a full channel, `shub.New`, `fini`'s `Lock`. For example,
  `ReadDismiss` and `ReplyDismissAck` are two steps of the inbound
  Dismiss case, split at `mtx.RLock()`.
- **Check, then emit.** Each `InStates` check and the `EmitEvent` after it
  are separate yafsm calls, and the other pump can emit in between. So the
  outbound Dismiss is two steps, `WriteCtrl` (the check at 504) and
  `WriteDismissEmit` (the emit at 512 and `cn.Write`). The inbound Dismiss
  is likewise `ReadDismiss` (615) and `ReadDismissRecv` (629). The emit
  then sees the state as it is at that moment, and can fail. The
  `EmitAndWrite` operator is `handlePkt OUT`'s emit followed by
  `cn.Write`.
- **RWMutex.** `RLockFree(e)` is the guard of every `RLock`: a goroutine
  waiting in `fini`'s `Lock` blocks new readers. `Fini` is enabled only when
  no goroutine holds the read lock across a blocking send (`RLockHeld`).
- **Panics.** A send on a channel `fini` has closed sets `panicked`.
- **closeOnce.** `NewDialogue` never sets the `closeOnce` field, so the
  first `Close`, `CloseWait` or `closeWrapper` calls `Do` on a nil
  `*sync.Once` and panics. Any test of `Close` meets that at once. The model
  takes the field initialised like `onceFini`, the evident intent, to check
  what lies behind it.
- **Transport.** `cn.Write` returns ok, or after `ConnBreak` io.EOF or an
  error. Both failure paths are followed: `ET_EOF`, or `ET_ERROR` with its
  `closeWrapper` callback.
- **Connection teardown.** Once the transport has failed, the connection
  calls each dialogue's `fini` (spec 4.5; that code is not under src/).
  `ConnTeardown` is this call, made by a third caller `"conn"` besides the
  two pumps, and racing them for `onceFini`. A dispatcher blocked on a full
  `readInCh` keeps the packet it holds when the transport breaks.
- **FSM.** `Table` is yafsm's lookup built from `Transitions`, which is
  `initFSM` line by line. `ET_SESSIONACK` and `ET_SESSIONRECV` are the same
  string in the code, and so the same event here.

- **Fini.** `fini` is two actions: `Fini` takes the write lock, clears
  `sessionOK` and closes the channels; `FiniEmit` emits `ET_FINI` after
  the unlock, where other goroutines can run in between.
- **Counters for data.** `nWritten[e]` counts the packets `Write` accepted
  and `nRead[e]` the packets `Read` returned, so that a property can relate
  the two ends. `DataConserved` compares `nWritten` at one end with
  `DataHeld`, the packets held in each buffer between the two ends, plus
  `nRead` at the other end.
- **FSM closure.** `Reach` is the set of states yafsm can reach by
  accepted events, computed recursively over `Table`.

### `DialogueLifecycle.tla`: what a dialogue pair promises

An abstract specification with no pumps, channels or packets. Each end
moves forward through `idle`, `opening`, `open`, `closing` and `closed`:
- the acceptor opens only once the opener has;
- an end is open only once its peer took part;
- `live` (the end's `sessionOK`) falls once;
- an end is closed only after that, and then eventually (weak fairness).

`Abort` covers a request, or its reply, failing on the transport in the
same step that sends it. The write pump emits the send event and the error
event in one handler call, so the end goes from idle to closing at once.

`Dialogue` implements it. The mapping is `Life == INSTANCE
DialogueLifecycle WITH phase <- [e \in Ends |-> Phase(fsm[e])], live <-
sessionOK`, where `Phase` groups the `initFSM` states. The run `lifecycle`
checks `Life!LSpec` as the property `LifecycleRefined`, with the transport
up. With the transport failing, the refinement does not hold: the
connection's teardown can run `fini` while the passive end is in
`session_recv`, which has no `fini` transition. That end is then left
outside `fini` with `sessionOK` false (run `finirecv`).

### `SyncHub.tla` and `SyncHubOneShot.tla`: the sync hub

The synchub package is not in this repository. `SyncHub` models the design
of spec 4.3:
- the id map under one mutex;
- `New` arming a timer;
- `Ack` and `Cancel` delivering into the one-shot slot and stopping the
  timer;
- the timer callback, which is a goroutine of its own: it becomes runnable
  (`TimerFire`), then takes the mutex (`TimerRun`);
- the waiter taking its result.

`SyncHubOneShot` is the contract: each registered id gets one outcome,
eventually. `SyncHub` refines it (`OneShotRefined`). `Dialogue` keeps its
own coarser hub per end and key, with the timer as one step.

### `SessionCodec.tla`: packet codec

- `Encode*` builds the payload of each variant byte by byte: the priority,
  the flag byte `byte(Qos)<<4>>4 | 0x10`, big-endian ids through the
  recursive `PutUint`, and the JSON bytes. `EncodeFrame` patches the payload
  length into header bytes 10..13.
- The `*Fields` operators decode the payload again.
- `Decode` rejects a buffer shorter than the declared length.
- `DecodeFromReader` models `io.ReadFull`, which returns `EOF` or
  `ErrUnexpectedEOF`.
- `Fields` applies Go's bounds check: a declared length below the
  variant's fixed fields (`FixedLen`) panics. `Unmarshal` is
  `json.Unmarshal`, which accepts only a whole marshalled `SessionData`.
- The state machine picks a packet and encodes it. It then decodes the
  frame, or a frame short of `k` payload bytes, possibly with a forged
  length field (`ForgedLens`).

### MC modules

- `MCDialogue.tla` extends `Dialogue`; each `.cfg` gives its constants.
- `MCSessionCodec.tla` defines the small value sets for the codec:
  - priority and qos at their extremes;
  - ids of one, two and four significant bytes;
  - the JSON of an empty and a non-empty `SessionData`;
  - forged length fields: 20, above every variant's fixed fields, for the
    passing run; 9, below three of them, for `codec_shortlen`.
- `MCSyncHub.cfg` gives `SyncHub` two ids as model values and two Ack
  values (nil and an error).

## Runs

| Run | Checks | Result |
|---|---|---|
| `core` (`MCDialogue_core.cfg`) | `TypeOK`, `NoPanic`, `FSMClosure`, `DataConserved`: while the transport is up, the receiver has not run `fini` and the sender's write pump runs, every packet `Write` accepted is held exactly once between the two ends or has been read. B writes 2 packets into 1-slot channels while both ends open, close and close-wait in every order | pass (about 1.06M states) |
| `connfail` | `NoPanic`; A writes 1 packet, the transport may fail at any point and the connection then tears the dialogues down | pass (about 4.9M states) |
| `lifecycle` | `LifecycleRefined`: `Dialogue` implements `DialogueLifecycle`, including that an end whose `fini` cleared `sessionOK` reaches `closed` | pass (about 79k states) |
| `codec` | `TypeOK`, `IDsRoundTrip`, `LengthFraming`, `MalformedRejected` | pass |
| `synchub` | `OneShotRefined`: the hub implements the one-shot contract | pass |
| `openrace` | `OpenAckAwaited` | violation: the SessionAck can be acked before `open` registers (dialogue.go:315 then 318) |
| `closerace` | `CloseAckAwaited` | violation: in a simultaneous close the write pump acks CloseWait's Dismiss (505) before CloseWait registers (355); CloseWait waits for the timer |
| `dataloss` | `DataBeforeCloseDelivered` | violation: a packet `Write` accepted before `Close` is overtaken by the Dismiss and lost; the peer's `Read` ends at io.EOF |
| `finideadlock` | `FiniCompletes` | violation: a `Write` blocked on a full `writeInCh` holds the read lock the write pump's `fini` needs (dialogue.go:251) |
| `simclose` | `DismissAnswered` | violation: when both ends close, a Dismiss can go unanswered in two ways. First, each end finishes after writing its own DismissAck and drops the peer's. Second, one write pump passes its `InStates` check (504), the peer's Dismiss moves the FSM to `dismiss_recv` (629), and `ET_DISMISSSENT` (512) and `ET_ERROR` (393) are then rejected. That end runs `fini` without writing its Dismiss or the DismissAck it queued, and the peer stays in `dismiss_sent` |
| `finirecv` | `FiniIsTerminal` | violation: the connection's teardown runs `fini` while the passive end is in `session_recv`; `ET_FINI` is rejected there (no transition at dialogue.go:295-300) and the finished end stays outside `fini`, in `session_recv`. The trace stops there; in the code the read pump can then still emit `ET_SESSIONACK` (577) and move it to `sessioned` |
| `codec_shortlen` | `MalformedRejected` | violation: a length field below the fixed fields makes the decoders panic on a slice (packet_sess.go:151) |

Notes on the dialogue runs:
- The runs use `CHECK_DEADLOCK FALSE`. A finished dialogue really does stop:
  both pumps have returned and the application is done.

Further hazards have no run of their own. Each is listed in `PROJECT.json`
with the reason:
- `fini` cancels no sync-hub waiter, although spec 5 says it does. A waiter
  left behind is woken only by its 30s timer. The model has no clock, so
  it cannot tell a 30s wait from a cancel.
- After `open` has returned the timeout error, a late handshake still
  brings both ends online. The spec does not say what should happen then.
- The acquire-flag decode bug is the one spec 9 records. `IDsRoundTrip`
  checks every other field.

Mutants: every property of every passing run has a mutant, listed in
`PROJECT.json`. A mutant is a plausible bug in the mapped code that TLC must
catch under the run's cfg. The mutant operators sit right before the
definitions they replace.

## Bounds

- **`Cap = 1`** for all three buffered channels (128 in the code). One slot
  is enough to reach both "room" and "full", and full is what makes senders
  block while holding the lock.
- **`writeCh` is unbounded.** At most three control packets ever sit in it,
  far below its 128 slots, so it never blocks.
- **`MaxData = 2` in `core`.** It is enough to fill `writeInCh` and block a
  second `Write`. B writes in `core` and A in `connfail` (one packet
  there). Data takes the same code paths at either end; A writes only after
  `open` has returned, which keeps `connfail` within its time budget.
- **`dataloss`** needs one packet and one Close: the Dismiss can overtake
  the packet in the first `select`.
- **Liveness and refinement runs.** These use `MaxData = 0` to keep the
  temporal check fast. Their question is about control packets. The
  liveness properties are not checked on `connfail`: with data and the
  teardown its temporal check does not finish in reasonable time.
- **Sync hub.** Two ids are enough for two waiters whose timers, acks and
  cancels interleave. Each id is registered once, as the even packet-id
  counter never reuses an id.
- **Codec.** `MaxCut = 3` covers cutting the payload by 1 to 3 bytes. The
  ids stay below 2^31 because TLC's integers are 32 bits wide. The
  big-endian code is the same for every width, and the ids used reach
  into the fourth byte.

## Fairness

Weak fairness is assumed for:
- each pump goroutine;
- each pump's teardown steps;
- the steps inside a call already made (registering a waiter, a blocked send
  completing);
- `open`;
- the application's reader;
- the sync-hub timer (in `SyncHub`, the timer firing and its callback);
- the connection's dispatcher, and its teardown once the transport failed;
- in `SyncHub`, the waiter blocked in `<-sync.C()`.

The Go scheduler runs every runnable goroutine eventually, which justifies
these. There is no fairness on the application's `Write`, `Close` or
`CloseWait`: the application is free never to call them.

## Not modelled

- **Several dialogues on one connection, and the multiplexer's dialogue
  table.** The table is not under src/. One dialogue pair is enough for every
  property here. The `ET_SESSIONACK == ET_SESSIONRECV` collision makes a
  SessionAck in `init` move to `session_recv`, which needs a misrouted packet
  to show.
- **The ID allocator.** Packet ids are abstracted to one id per request. The
  default packet factory gives both peers an `Even` counter
  (dialogue.go:218).
- **Dialogue ids, meta and delegate callbacks.** They are data only.
- **`handleInSessionPacket`** (dialogue.go:670). It has no return on its
  success path, so the package does not compile as written. It is never
  called.
- **The rest of the connection layer** (handshake, heartbeat, the
  dialogue table). It is not in this repository; the spec gives only its
  contract, and none of it changes a dialogue's state except the teardown,
  which is modelled.
- **`OptionDialogueState`** (dialogue.go:143). It is meant to start a
  resumed dialogue in a given state (spec: `initial_state`). `NewDialogue`
  applies the options (dialogue.go:203) before `initFSM`, and `initFSM`'s
  `SetState(INIT)` (dialogue.go:271) then overrides the option. Every dialogue
  therefore starts in `init`, as `Init` has it. This ordering bug is plain
  straight-line code; a unit test reaches it, and no interleaving is involved.
- **The dialogue-id choice through the codec** (dialogue.go 561-566,
  601). The acceptor takes the Session's NegotiateID unless the
  acquire flag is set. Because the flag never decodes (packet_sess.go:79, a bug spec 9 records),
  both ends always agree on the opener's id. A composed model would only
  restate that finding.
- **Logging and formatting.**

## Plan for later work

- Several dialogues on one connection, with the connection's dialogue
  table and the dialogue-id allocator, to check id collisions between
  the two peers' dialogues.
- Data sent by both ends at once in a run with a larger bound, if the
  state space allows it.
