# A verification project for cyphal.rs

TLA+ models of `cyphal`, a Rust implementation of the Cyphal (UAVCAN) transport
layer for classic CAN, with TLC runs on small instances, and TLAPS proofs for every
instance about both halves of a node, the bus between two of them, several nodes and
their applications on one bus, the clock and the earlier session managers. All paths are relative to
`cyphal/src/` unless they begin with another directory of the repository.

## 1. The system

A *transfer* is a payload with metadata (kind, port, source, destination,
priority, a transfer id). A node cuts the transfers it sends into CAN frames of
at most 8 bytes, the last of which is the *tail byte* (start, end, toggle,
transfer id), and puts the frames it receives together again. A transfer of
more than one frame ends with a CRC of its payload.

| part | file | state | operations |
|---|---|---|---|
| Node | `node.rs` | its id (fixed), a transfer manager | `try_receive_frame`, `start_tx_transfer`, `transmit_frame` |
| MapTransferManager | `transfer/map_manager.rs` | one hash map of receptions, one of transmissions; an entry is `Active` or `TimedOut` | `append_frame`, `new_transfer`, `with_rx_transfer`, `cancel_rx_transfer`, `create_transmission`, `transmit`, `cancel_tx_transfer`, `update_transfers` |
| manager interface | `transfer/manager.rs` | none | the trait, its errors, `timestamp_expired` |
| transfer descriptions | `transfer/mod.rs`, `types.rs` | none | what of the metadata is hashed |
| CAN transport | `transport/mod.rs`, `transport/can/legacy.rs` | none of its own; `TxMetadata` and `RxMetadata` are kept in the manager's entries | `rx_process_frame`, `update_rx_metadata`, `get_crc_padded_size`, `process_tx_crc`, `transmit_frame` |
| identifiers | `transport/can/bitfields.rs` | none | constructors, accessors and `valid` of CAN ids and tail bytes |
| time | `time.rs`, `examples/embedded/src/clock.rs` | the clocks, an integer of 32 or 64 bits that wraps | `try_now` |
| table-driven CRC | `crc16.rs` | the sum | `init`, `digest`, `get_crc` |
| derive macro | `uavcan-derive/src/lib.rs` | none; the code it generates keeps its position in `flattened_field` and `bit`, which its caller owns | the generated `serialize` and `deserialize` |
| earlier session managers | `transfer/std_vec.rs`, `transfer/heap_manager.rs` | subscriptions, and a session for each node | `subscribe`, `unsubscribe`, `edit_subscription`, `ingest`, `update_sessions` |
| errors, priorities, subscriptions | `lib.rs` | none | `Subscription` is not consulted by any compiled code |

How they interact. The library is single-threaded: everything happens in calls
by the application, on one `&mut Node`. The application gets a *token* for each
transmission it starts and for each transfer whose last frame has arrived; the
tokens cannot be copied, and every call that takes one consumes it
(`transmit_frame` gives it back while there is more to send). A token is the
hash of the transfer's metadata without its timestamp, and is the key of the
entry. What is hard is the order of these calls: frames of several transfers
alternate in both maps, entries time out between two frames of a transfer and
while the application holds a token of them, and the bus loses and repeats
frames and lets transfer ids (5 bits) come round again.

What makes each part correct:

* *sending half*: tokens and entries go together; each transfer comes out whole,
  in order, once, with its CRC; a call that fails leaves nothing behind; calling
  `transmit_frame` again and again ends.
* *receiving half*: what the application is given is what one sender sent; a
  frame that is refused changes no payload; every reception ends.
* *transport*: the two directions agree on frame boundaries, toggles, CRC and
  field widths.
* *all nodes*: every transfer arrives on a good bus, none arrives twice on a bad
  one, none arrives mixed with another, and every response answers a request of
  the node that is given it.
* *identifiers, CRC, clocks*: the bits carry the fields; the table is that of the
  polynomial; a clock that goes round does not change what times out.
* *generated code*: a struct goes over whole and in order wherever buffers end.

The hazards, each at the line where it bites, are in `PROJECT.json`.

## 2. Modules

| module | models |
|---|---|
| `Transfers` | metadata and what is hashed of it, expiry, the map operations |
| `CanTransport` | the pure operations of the transport: identifiers, tail bytes, `rx_process_frame`, `update_rx_metadata`, `process_tx_crc`, `transmit_frame` |
| `TxFragmentation` | abstract: the frames of a transfer are handed out once, in order, and make a well-formed transfer |
| `NodeTx` | `start_tx_transfer`, `transmit_frame`, `cancel_tx_transfer`, the transmissions' half of `update_transfers` |
| `NodeRx` | `try_receive_frame`, `with_rx_transfer`, `cancel_rx_transfer`, the receptions' half of `update_transfers` |
| `CanLink` | a `NodeTx`, a bus and a `NodeRx` (two INSTANCEs), and the applications on both sides |
| `Node` | a whole node: a `NodeTx` and a `NodeRx` over one manager, `update_transfers` as one call |
| `Peer` | a `Node` and an application that sends its plan, reads what arrives and answers requests |
| `Network` | two `Peer`s and an anonymous `NodeTx` on one bus, which may be calm, faulty or slow |
| `Delivery` | abstract: applications are given what was sent to them, whole and once |
| `CanId` | the bits of identifiers and tail bytes: setters, getters, `valid` |
| `Crc16` | the table-driven CRC, and the division it stands for |
| `Clock` | a wrapping clock, and `timestamp_expired` on it |
| `Serialization` | the `serialize` and `deserialize` that `#[derive(UavcanStruct)]` generates for a struct |
| `SessionManager` | the earlier, subscription-based `StdVecSessionManager`, every operation |
| `HeapSessionManager` | `HeapSessionManager`, which resets sessions in place; shown to implement the other |
| `MCNodeTx`, `MCNodeRx`, `MCCanLink`, `MCNetwork`, `MCSessionManager`, `MCSerialization` | small instances for TLC |
| `MCPrimitives` | `CanId`, `Crc16` and `Clock`, each for itself, in one instance |
| `CanTransportProofs` | lemmas about the operators of `CanTransport` (identifiers, cutting a payload into frames, what a received frame does to an entry) that the other proofs rest on |
| `NodeTxProofs`, `NodeRxProofs` | theorems about `NodeTx` and `NodeRx`, and that `NodeTx` implements `TxFragmentation` |
| `CanLinkProofs` | theorems about `CanLink`, by way of those about its sending node |
| `NetworkProofs` | theorems about `Network`: responses answer requests, and it implements `Delivery` |
| `CalmBusProofs` | on a calm bus no frame of `Network` is answered with an error |
| `ClockProofs` | theorems about `Clock` |
| `SessionManagerProofs` | theorems about both of the earlier managers, and that one implements the other |

Correspondence. `tx_transfers` and `rx_transfers` are the manager's maps;
`tx_tokens` and `rx_tokens` count the tokens in the application's hands, which
the type system of the program keeps but its memory does not show; `tx_result`
and `rx_result` are what the last call returned; `now` is the clock. Each call
of a public function is one action, and its error paths are its disjuncts:
`ReceiveFrame` is `RejectFrame` (`rx_process_frame` fails), `IgnoreFrame` (a
service transfer for another node) or `TakeFrame`, and that is one of the ways
`append_frame` and `new_transfer` can go. `TransmitFrame` contains the callback
of `node.rs`, the bookkeeping of `transmit` after it and the cancellation after
an error. The call is atomic because `&mut self` makes it so. In `Network` an action is a
call by one of three applications, and the frame that `transmit_frame` hands out
goes to the inbox of every other node; the orders of these calls are what the
model is about. In `Serialization` an action is a call with one buffer; `Walk` is
the generated code, each round of its `while` one more application of it, and
stands for both directions, which go through the fields in the same way.

Abstractions.

* A byte is known by where it came from (byte `at` of payload content `of`, or
  half of the CRC of its first `at` bytes). Two different payloads have
  different CRCs: a run that finds a wrong payload accepted would find it with
  any CRC.
* The hash of the metadata has no collisions: a token is the sequence of values
  that is hashed, which leaves out absent node ids as the code does.
* `MTU_SIZE` is a constant. TLC uses 4, so that 3 payload bytes fill a frame and
  every boundary of the code (an empty, a full and an overfull single frame, a
  CRC with a frame of its own, a divided CRC) comes with few bytes. The constant
  7 of `legacy.rs` is `MTU_SIZE - 1`. The proofs hold for every size.
* Identifiers and tail bytes are records of their fields, and the reserved bits
  that `valid()` checks are one flag. `CanId` has the bits themselves, and the run
  `Primitives` shows that the records are what is read from them.
* Time is a natural number. `Clock` has the integer that wraps, and the run
  `Primitives` shows for how long the two are the same.
* Bits of a serialized struct are known by their place in it. Primitive types and
  arrays, whose code is in a library that is not in the repository, are leaves
  that pass their bits on until the buffer ends, and leave `bit` where they stop.
* A panic (an index out of bounds in `process_tx_crc`) is a result after which
  nothing more happens.
* `requested` and `claimed` of a `BufferUse` are the size an application asks
  for and what its callback returns; a callback writes its payload to as much of
  the buffer as it is given.
* `frame.timestamp`, the time given to `start_tx_transfer` and that given to
  `update_transfers` are all the present time: the applications in `examples/`
  take each from the clock at the call.
* The earlier session managers are not part of the build (they are commented out
  of `transfer/mod.rs`) and their transport is gone. `SessionManager` models its
  three traits from their use: `SessionMetadata` accepts frames whose toggle
  alternates, counts the data bytes of a frame and compares what it has seen with
  what the CRC was made of; `matches_sub` compares kind and port. `Session::new`,
  `update` and `accept_frame` are one action, `Ingest`, and the arms of the code
  its disjuncts; a panic is a result after which nothing more happens.

## 3. Runs

`NodeTx`, `NodeRx`, `CanLink` and `Network` check for deadlock:
`update_transfers` can always be called, except after a panic. In
`SessionManager` panics are reached and end the behaviour, in `Serialization` a
struct has been read at last, and in `Primitives` a function returns and the
bound on the time is reached.

Runs that pass:

| run | question | bounds |
|---|---|---|
| `NodeTx` | Are tokens, entries and types sound, does the sending half implement `TxFragmentation`, does no callback within its buffer make it panic, does every transfer end? May a node without an id break a transfer off in the middle? | two keys (a message and a request, transfer id 33, more than 5 bits); payloads of 0, 3, 4 and 8 bytes (1, 1, 2 and 4 frames) and a callback that fails; timeout 1, 4 clock values; the same of a node without an id, each of the two for itself |
| `NodeRx` | Are entries sound, may an error of `new_transfer` be swallowed, may a refused frame change a payload, does every reception end? | 16 message frames of all eight tails with two payloads (one with a correct CRC at its end) and of wrong lengths, frames for this node, for another one, with a reserved bit, anonymous and empty |
| `CanLink` | On a bad bus, is anything delivered twice, and may a wrong payload pass the CRC when ids come round (1 and 33 are the same on the bus)? | four scenarios of two or three transfers of 1 to 4 frames: two with ids used once, a loss, a repeat and transfers broken off by the sender; two with ids used again, two losses, a repeat and transfers thrown away by the receiver; timeouts on both sides |
| `Network` | Are applications given what was sent to them, whole and once (`Delivery`)? Does every response answer a request? Does everything arrive, and is it answered, on a calm bus? | two peers and an anonymous node, all on one port and one transfer id; on a calm bus requests that cross (with an anonymous message between) and publications with a request among them; the requests with one frame lost or repeated; one request with timeouts. Transfers of one and two frames |
| `Primitives` | Are the fields of identifiers where they are read, and is no bit of an accepted identifier lost? Is the CRC table right, and which changes does it tell? Does a wrapping clock time out as a real one does? | ids inside, at the edge of and beyond each field, and all raw identifiers with up to two bits set beside the service bit; payloads of one byte, all 256, and of three; changes of two neighbouring bytes of eight: one bit or all of the first, and anything of the second; a clock of 16 ticks that starts anywhere and goes round twice, six timeouts |
| `Serialization` | Does a struct go over whole and in order wherever buffers end, is only the last leaf told that it is, do both sides finish? | structs nested two deep with arrays, and with an empty struct inside; buffers of 1, 2, 3, 5 and 8 bits in any order, on either side |
| `SessionManager` | Do the earlier managers hand out what was sent, and in time; when do they panic for want of a timestamp; is resetting a session in place the same as making a new one? | four transfers: of 4 frames (the first three alike, the last the CRC), 1 and 2 frames from two nodes, and an anonymous one, each frame any number of times in any order; three subscriptions to two ports, one shorter than a transfer and with timeout 0; 4 clock values |

The .cfg files give the bounds: `MaxTime` on the clock, `MaxBytes` on what
`NodeRx` keeps, the losses and repeats of a scenario of `CanLink`, `MaxFaults` on
those of `Network`. Three frames of one transfer are enough for a toggle to come
back to where it was, which is what two losses need, and `CanLink` has transfers
of at least that length; in `Network`, which asks how transfers of several nodes
meet, two frames are enough for one to come between them. The table of the CRC
is used once for each byte, so that payloads of one byte meet every entry; the
sum is linear in the payload, so that what eight fixed bytes show of changes is
so for any eight.

Runs that show a disagreement between the code and what a comment or test of it
says; each is a finding in `PROJECT.json` with the lines:

| run | what it shows |
|---|---|
| `NodeTxOverClaim` | a callback that claims more than it was given panics, in spite of the clamp that is to prevent it |
| `NodeRxMemory` | a transfer that has been read is not freed, so that its key cannot be used again; a timed-out reception leaves an entry that nobody can remove |
| `CanLinkSplitCrc` | a transfer whose CRC is divided between its last two frames is sent and not accepted |
| `CanLinkSingleReuse` | a single-frame transfer is appended to what an earlier transfer of the same id has left |
| `SessionManagerNoStart` | a session that a later frame has made or begun again completes a transfer that repeats itself, and `timestamp.unwrap()` panics |

What the properties do not say:

* `MultiFrameIntact` is checked and proved for transfers whose ids no single frame
  uses (`SinglesApart`, which `MCCanLink` asks of the scenarios of that run). With one in between it fails for the reason `CanLinkSingleReuse` shows: the
  single frame's bytes go into the payload and not into the CRC. The plans of
  `Network` use each id once for each kind, sender and receiver, for the same
  reason.
* `CalmBusAccepts` and `AllDelivered` are checked for payloads whose CRC is not
  divided (`CanLinkSplitCrc`).
* An anonymous message is decoded as one of node 4 (`legacy.rs:231`,
  `bitfields.rs:44`). The numbered nodes of `Network` have other ids; a node 4
  shares its entries with the anonymous one: on a calm bus a message of one is then
  refused after one of the other (`CalmBusAccepts`, `AllDelivered`), and appended to
  it if that one had two frames (`DeliversTransfers`).
* The applications of `CanLink` write no more than they are given (`Sendable`):
  what happens otherwise is a panic, and the run `NodeTxOverClaim` shows it.
* `AtMostOnce` is stated for an application that reads what it gets; one that
  cancels a received transfer removes the toggle that tells a repeated frame.
* `ExpiresAsInRealTime` and `GoneInTime` are stated for a timeout and an update
  period that together stay below half the range of the clock. Nothing in the code
  checks this; with the 32-bit millisecond clock of the embedded example it is 24
  days.
* A reception times out by the age of its first frame (`RxTransfersExpire`),
  although `transfer/manager.rs:26` speaks of the previous one.
* `DeliveredIntact` is stated for transfers that fit the extent of their
  subscription: for longer ones `payload_to_copy` is the excess, not the room left,
  and may reach beyond the frame (`transfer/heap_manager.rs:120` says of it "TODO
  not working").
* `PanicMeansRepetition` does not say that the `unwrap()` of a session's timestamp
  never panics: it does (`SessionManagerNoStart`) for a transfer that begins like one
  of its later frames with toggle 1, the third or the fifth, as one of zeros does.
  What is excluded is that anything kept from before a session was made or reset
  stands in for the first frame. `ValidHasTimestamp`, which says more, is checked by
  that run alone.
* That an entry "began no later than now", a part of `TxEntriesSound` and
  `RxEntriesSound`, is so because every timestamp of the model is the present time;
  whether the subtraction of `timestamp_expired` is right is what `Clock` is about.
* `NewTransferNeverFails` is about the errors of `update_rx_metadata`. The check that
  `new_transfer` makes before (`transfer/map_manager.rs:101`) is left out of the
  model: `append_frame` has just looked for the same hash and has not found it.
* `edit_subscription` is documented as "creating a new one if not found"
  (`transfer/std_vec.rs:161`, `transfer/heap_manager.rs:171`) and returns
  `SubscriptionDoesNotExist`; `EditSubscription` follows the code, and no property
  is about it.
* A struct all of whose fields are empty is not sent by itself: the first assert of
  its `serialize` fails (`uavcan-derive/src/lib.rs:204`).

Each property of a passing run has a mutant in `PROJECT.json`: the operator
marked *Faulty* that, in place of the one after it, makes the run fail.

## 4. Fairness

`NodeTx!FairSpec`: an application that has a token of a transfer goes on calling
`transmit_frame` (weak fairness for each key), as the publishing loop of
`examples/basic/src/main.rs:112-119` does. Nothing is assumed of
`update_transfers`, of starting or of cancelling.

`NodeRx!FairSpec`: the clock runs, and `update_transfers` is called again and
again, as housekeeping (`transfer/manager.rs:140`) has to be. Nothing is assumed
of arriving frames or of the application reading them.

`Network!FairSpec`: *some* application goes on with its loop
(`examples/basic/src/main.rs:46-131`: take a frame, read, start, send) while any of
them has something to do. It is one weak fairness condition for all three, which
is less than one for each. Nothing is assumed of `update_transfers`, which no
example calls, nor of the bus.

`Serialization!Spec`: the sender or the receiver goes on while it is not finished,
that is, while its last call has returned "buffer full" or "insufficient".

## 5. Proofs

The theorems hold for all values of the constants that satisfy the named
assumptions, each of which TLC evaluates in the runs of its module: node ids,
port ids, transfer ids and payloads of any size, `MTU_SIZE` of any size above that
of the CRC, any timeout, any number of transfers under way. The bounds of the runs
that are guards of the model (`MaxTime`, `MaxBytes`) are constants too.

| assumption | says |
|---|---|
| `NoneAssumption`, `CanAssumption`, `NoCrcAssumption`, `NoTailAssumption` | `None`, the value of an absent `Option`, is no node id, payload content, CRC or tail byte; a frame is longer than a CRC of 2 bytes |
| `NodeTxAssumption`, `NodeRxAssumption`, `LinkAssumption`, `SessionManagerAssumption`, `ClockAssumption` | the types of the constants: ids are ids, frames are frames, a clock has a range |
| `ScenariosAssumption` | the plans of `CanLink` are sequences of transfers whose callbacks keep to their buffer |
| `NetworkAssumption`, `PlansAssumption` | the types of the constants of `Network`: two different node ids, replies for every payload content, plans that are sequences of transfers whose callbacks keep to their buffer, none of them a response, and only broadcasts of the anonymous node |

Some theorems need a *hypothesis* more, which the code does not ensure and which
stands in the theorem: without it the property is false, and mostly a run shows
that it is.

### The sending half

* `TxTypeCorrect` (`TxTypeOK`). The type invariant is inductive. Its content is in
  what a frame is: lemmas `MessageIdType`, `ServiceIdType`, `TailByteType` show
  that the masks keep every field in its width, `CanIdType` that no error means
  that the node ids a service frame needs are there, and `PayloadType` that the
  clamp keeps the CRC and payload within what is a sequence of bytes.
* `TxTokensCorrect` (`TxTokensSound`). Inductive together with the types. The case
  that matters is that whatever removes an active entry also takes its token
  (`RemoveKeepsTokens`), and that timing out keeps the entry for its token.
* `TxEntriesCorrect` (`TxEntriesSound`) and `TxErrorsComeFirst`
  (`NoErrorMidTransfer`, for any id; `AnonymousErrorsFirst` is the same of a node that
  has none). Both rest on `ActiveOrigin`: an entry that is active after
  a step has just been started, is unchanged, or has sent one *full* frame
  (`SentFullFrame`: a frame that is not the last of its transfer consumes exactly
  a frame's capacity). The count of frames is then exact by arithmetic
  (`WholeFrames`, `Alternation`), and an anonymous node that has sent a full frame
  would have been refused it.
* `NoPanicWhenHonest` (`NoPanic`), under the hypothesis `HonestCallbacks`, that no
  callback claims more than it was given; `NodeTxOverClaim` shows that the
  hypothesis is needed.
* `TransfersAreFragmented` (`FragmentsTransfers`): `NodeTx` implements
  `TxFragmentation`, initial states to initial states and every step to a step or a
  stutter. Starting an entry is the abstract machine's beginning of a transfer, for
  which its frames must be shown well formed, for payloads of every length: how
  many frames there are (`FrameCount`), which one is last and that the CRC ends the
  last bytes. Sending a frame takes the first of those that remain
  (`RemainingFrames` of the entry after it are the tail of those before), an error
  or a timeout drops them all.

### The receiving half

* `RxTypeCorrect` (`RxTypeOK`): inductive, for any set of well-formed frames in any
  order. That what `rx_process_frame` makes of a frame has the type of what the
  manager keeps is `RxFrameType` in `CanTransportProofs`: no slice of it leaves the
  data of the frame.
* `RxEntriesCorrect` (`RxEntriesSound`): with the types, by `RxActiveOrigin`: an
  active entry has just begun with a frame that `TakeFrame` let through, or keeps
  its metadata, and time does not go back.
* `FirstFramesAreTaken` (`NewTransferNeverFails`): a first frame has toggle 1 by
  `rx_process_frame` and carries no CRC unless it is alone, so that
  `update_rx_metadata` accepts it against the metadata of a new entry.
* `RefusedFramesKeepPayloads` (`RefusedFrameKeepsPayloads`), an action property.

### Two nodes and the bus

The node that sends in `CanLink` is an instance of `NodeTx`, and `TxP` is the
instance of `NodeTxProofs` for it: `TxStep` shows that every step of `CanLink` is a
step of that node or leaves it alone, so that its invariants hold (`TxKept`).

`LinkInv`, the inductive invariant both theorems need, follows a transfer from the
plan to the receiver: every entry of the sending node is that of a transfer begun
(`TxEntriesBegun`), every frame on the bus is of one (`BusFramesBegun`: goes to its
key, ends as it ends if it is its last frame, and stands alone only if the transfer
is no longer than a frame), and what the receiver keeps has its types.

* `MultiFramesAreIntact` (`MultiFrameIntact`), under the hypothesis `SinglesApart`,
  that the transfers of a key are all single frames or all longer;
  `CanLinkSingleReuse` shows what happens otherwise. The strengthening is `RxCrcTells`:
  under the key of longer transfers, the bytes that the running CRC of an entry has
  digested are the payload kept, or are not the beginning of any payload. The second
  case is a CRC that a refused frame has spoilt (`update_rx_metadata` digests before
  it compares, and `append_frame` appends after), and it stays: nothing appended
  to what is no beginning makes it one (`WrittenPrefix`), and the bytes a refused
  last frame adds end as the transfer does, so that they would have been accepted
  had they been the whole (`SpoiltCrc`). When the CRC is right what it has digested
  is the payload of the transfer (`CrcIdentifies`), and hence what is kept is.
* `NothingIsGivenTwice` (`AtMostOnce`), by `OnceInv`: of a plan that uses ids once,
  no two entries and no transfer still to come share a key; behind a last frame on
  the bus come only repeats of it, with its toggle, and its entry is gone
  (`EndsAreLast`); and once a token has been given, the entry stays in the
  receiver's map and its toggle is that of everything that still comes
  (`GivenStays`), which `update_rx_metadata` refuses (`ToggleTells`). The theorem
  does not need `SinglesApart`, nor any bound on losses and repeats.

### Nodes on one bus

The three nodes are instances of the same modules under different names. The first
part of `NetworkProofs` brings what each of them does into one form, by node
(`NetStep`: a transfer begins, a frame is sent, taken, lost or repeated, a transfer
is read, entries age), and `StepIs` shows that every step of `Network` is one of
these; the rest is proved once for any node. `NetStep` is about the map operations
themselves, so that nothing is left out of it: `Takes` is `append_frame` or
`new_transfer` of a frame, with its error or its token.

* `ResponsesAnswer` (`ResponsesMatch`), without any hypothesis: ids may be used
  again, single frames may be mixed with longer transfers. `NetInv`, the inductive
  invariant: every entry of a sender is that of a transfer in `sent` (`TxOk`), every
  frame in an inbox is cut from one (`InboxOk`), every entry of a receiver keeps the
  metadata and the content of one that is for this node (`RxOk`), what a token is held
  of is whole if the transfers of its key are all longer than a frame (`HeldOk`), and
  every answer that waits or was sent answers a request in `sent` (`AnswersOk`,
  `ResponsesOk`). That two transfers with the same hash agree on all that is hashed,
  although absent node ids are left out of it, is `KeyTells`. What was read is then
  known up to its payload (`GivenOk`), and all responses have the length of the
  reply's buffer, so that of them the payload is known too.
* `NodesDeliver` (`DeliversTransfers`), under the hypothesis `PlansUseIdsOnce`, which
  `MCNetwork` asks of its plans: initial states map to initial states, and a step is
  a step of `Delivery` or a stutter. `OnceInv` adds to `NetInv` that no two transfers
  that wait, in any queue of any node, or were sent have the same ids (`DueDistinct`,
  `DueNotSent`, `SentDistinct`). That this stays so is not a matter of the plans
  alone: a response takes its ids from its request, so that it is new because its
  request has not been read before (`HeldUnread`), and a response that waits or was
  sent means that its request has been (`AllJustified`, `FreshAnswer`). That a
  request is not read twice is the argument of `NothingIsGivenTwice` for every pair of
  nodes: no two entries carry the same key (`EntriesDistinct`), nothing but repeats
  follows a last frame (`EndsAreLast`), and once a token was held or a transfer read,
  the receiver's entry refuses by its toggle all that still comes (`GivenOnce`,
  `Settled`). The invariants of being unique and of being read once hold each other up
  and are proved together.
* `CalmBusIsAccepting` (`CalmBusAccepts`), in `CalmBusProofs`, under the hypotheses
  `PlansUseIdsOnce` and `UndividedCrcs`, that no payload leaves room for just one
  byte of its CRC in a frame (`CanLinkSplitCrc` shows what happens otherwise; `MCNetwork`
  asks both of its plans). A transfer makes its way to a node in *stages*, one per
  frame: the byte it has come to and the toggle of the frame that is next. `Flow`
  says where it is: the receiver's entry is at some stage (`RxAt`: its CRC has digested
  the bytes up to there, and its toggle is the one of the frame before), the
  frames of the transfer in the inbox go on from there to a second stage
  (`Passing`), and the sender's entry is at that one, or is gone if the transfer has
  ended (`TxAt`). A frame that is sent makes that path longer (`FlowSends`), a frame
  that is taken makes it shorter (`FlowReceives`), and every other step leaves it
  alone (`FlowKept`), also one about another transfer with the same sender, since by
  `OnceInv` it has another key. `CalmStep` is what is left of `NetStep` if nothing is
  lost, repeated or delayed: no clock tick, so that nothing expires (`NoneExpired`).
  The first frame of an inbox is then the one its entry waits for, or the first of a
  transfer without an entry (`HeadsWelcome`), and `update_rx_metadata` and
  `append_frame` take it (`Welcomed`). The last frame's CRC is right since what it
  carries before its CRC, after what has been digested, is the payload
  (`ClosingSlice`, `SlicesJoin`); `rx_process_frame`, which asks nothing but that the
  last frame holds the whole CRC, is satisfied because none is divided
  (`InboxClean`).

### The clock

`ClockInv`: the reading of the clock is the real time modulo its range, so that the
wrapped difference of two readings is the real one modulo the range
(`ReadingsAgree`), and what the last update has kept was no older than the timeout
then. Together they keep the real age of an entry below half the range
(`AgeIsReal`), where the wrapped difference is the age, not modulo anything.
`EntriesGoInTime` (`GoneInTime`) and `WrappingIsHarmless` (`ExpiresAsInRealTime`)
follow for every range and resolution. Both properties are of timeouts and update
periods that fit into half the range (`Fits`).

### The earlier session managers

`ManagerInv`: the types, and that no two subscriptions take the same transfers,
which makes the subscription that `ingest` finds the only one.

* `ResettingIsRenewing` (`HeapImplementsStdVec`): a session that
  `HeapSessionManager` resets in place is equal to a new one, in every arm of
  `ingest`. The other theorems are proved of `StdVecSessionManager` and carried over.
* `SubscriptionsStayDistinct`, `DeliveryIsInTime` (`DeliveredInTime`).
* `DeliveryIsIntact` (`DeliveredIntact`), under the hypothesis `SinglesAreWhole` on
  the frames that arrive: a frame that is a whole transfer holds all of it and its
  id is not in use for a longer one. Needed because these managers, too, ask no CRC
  of a single frame. A session has kept all that it has seen (`SessionIntact`). `MCSessionManager`
  asks the hypothesis of its frames.
* `OnlyRepetitionPanics` (`PanicMeansRepetition`), without any hypothesis: a session
  that has no timestamp has accepted no first frame since it was made or reset, so
  that it is as new or what it has seen begins with a frame that is not the first of
  its transfer and has toggle 1 (`SessionHeadless`). A transfer that such a session
  completes begins with that frame's data.

### Model-checked only

* Liveness (`TxTransfersFinish`, `RxTransfersExpire`, `AllDelivered`, `BothFinish`):
  fairness is out of the prover's reach.
* `Serialization` (`SentInOrder`, `ReadAsSent`, `OnlyLastIsTold`) and the properties
  of `CanId` and `Crc16`: they are about what recursive definitions and operations
  on bits compute, and induction over data and `Bitwise` are out of the prover's
  reach.

## 6. Not modelled

* `transport/can/fd.rs`: not part of the build (commented out of
  `transport/can/mod.rs`) and unfinished. It is written for an `InternalRxFrame` and
  an iterator that are gone, does not empty its buffer between two frames, pads
  behind the tail byte and keeps `crc_left` at 2 after a single frame. There is no
  program to be faithful to.
* The examples' own code and the interoperability tests: the examples are written
  for an earlier interface and do not compile with this one; `util.rs`, `allocator.rs`
  and `logging.rs` are glue for one board. Their loops are what the fairness
  conditions and the application of `Peer` are taken from, and the embedded
  example's clock is modelled. (`transfer_id += 1` of `examples/embedded/src/main.rs:153`
  overflows after 256 transfers; the basic example wraps.)
* `TestClock` (compiled for tests only). Its `add_ticks` (`time.rs:43-45`) drops what
  `wrapping_add` returns, so that the clock stands still.
* Of `uavcan-derive`: enums, whose code is `unimplemented!()`; unit structs, whose
  code names a variable that does not exist (`flattened_fields`); signatures and
  lengths; and the classification of types by their names, which are symbols here
  (the regular expressions are not anchored, so that a struct whose name contains
  `u8` or `bool` is taken for a primitive type).
* Collisions of the 64-bit hash; those of the 16-bit CRC beyond changes of two
  neighbouring bytes.
* Node 4 beside anonymous nodes (section 3).

## 7. Plan

Done, in this order: `Transfers`, `CanTransport`, `NodeTx`, `TxFragmentation`,
`NodeRx`, `CanLink`, `NodeTxProofs`, `SessionManager`, `HeapSessionManager`, `Node`,
`Peer`, `Network`, `Delivery`, `CanId`, `Crc16`, `Clock`, `Serialization`,
`CanTransportProofs`, `NodeRxProofs`, `ClockProofs`, `SessionManagerProofs`,
`CanLinkProofs`, `NetworkProofs`, `CalmBusProofs`.

Of the safety properties the runs check, those that no theorem states are the ones
named in "Model-checked only".
