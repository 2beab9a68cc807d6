# A TLA+ model of warp-byok-proxy

warp-byok-proxy stands in for `app.warp.dev`: the Warp client POSTs a protobuf
request to `/ai/multi-agent`, the proxy translates it into an AWS Bedrock
`ConverseStream` call, and streams the answer back as server-sent events. This
directory models one request in all its interleavings, a conversation of several
requests, the server around them, and start-up with the certificate files; it
checks them with TLC and proves part of it with TLAPS. Paths below are relative to
the repository's `src/`, with `src/src/` the Rust crate.

## 1. Inventory

| component | source | state | operations | what makes it correct |
|---|---|---|---|---|
| Multi-agent route | `route_multi_agent.rs` | the body channel (32 events), the pump task | `handle`, `pump_stream`, `flush_frames` | the answer arrives complete and in order, an error is reported as one, a client that leaves releases everything |
| Bedrock client | `bedrock_client.rs` | the stream channel (32 items), the drain task | `converse_stream`, `translate_output_event`, `build_client` | every event is passed on once, an error after the events it follows |
| Stream accumulator | `stream_accumulator.rs`, `frame.rs` | map block index -> block | `handle` | tool input is assembled whole, a delta never lands in another block |
| UI adapter | `ui_adapter.rs` | prelude sent?, message id, open kind, usage | `translate` | the client can apply each event it is sent |
| HTTPS server | `server.rs` | listener, one task per connection, `ShutdownTx` | `spawn`, accept loop, `handle_with_context` | no client disturbs another, each request gets an answer of its own, accepts and turns that fail end nothing else, the signal stops it |
| Start-up and CLI | `main.rs` | where `run_server` stands, the runtime | `run`, `cert`, `login` | a start with usable files and configuration serves, any other ends |
| Configuration and authentication | `config.rs`, `auth.rs` | none | `validate`, `resolve_auth` | a configuration that cannot work is refused before anything is served |
| Certificate files | `cert.rs` | `cert.pem`, `key.pem` | `write_with_mode`, `generate_self_signed`, `install_to_keychain` | a server never gets files that do not match, a new run repairs them, the key is private |
| Request translator | `translator.rs`, `cache.rs`, `model_id.rs`, `thinking.rs`, `betas.rs` | none | `translate_warp_request` and its parts | the conversation in order and whole, each request extends the one before, two cache points, the right model id and betas |
| SDK translator | `sdk_translator.rs` | none | `messages_to_sdk`, `tools_to_sdk`, ... | what the translator builds is accepted and loses no block |
| Redirect scripts | `scripts/*.sh` | `/etc/hosts`, keychain | enable, tear down, verify | tearing down undoes enabling |
| Developer binaries | `bin/*.rs` | none | decode a request, probe field masks | not part of the service |

How they interact: the accept loop spawns a task per connection; hyper calls
`handle_with_context` for each request; `route_multi_agent::handle` awaits the
body, translates it, awaits `converse_stream`, which spawns the **drain task**,
then spawns **`pump_stream`** and returns a response whose body hyper polls.

    Bedrock -> drain task -> [channel, 32] -> pump_stream -> [channel, 32] -> hyper -> Warp client
                              Result<BedrockEvent>            SSE frames

The proxy keeps nothing from one request to the next: the next request carries the
client's own record of the conversation, which the events of earlier answers have
built, and the translator turns that record back into messages for Bedrock. Before
all that, `cert` runs leave two files that `run` looks for and later reads.

Nothing else is shared, and nothing is persisted except the two certificate
files. The hard behaviours are therefore: three tasks with two bounded channels,
either end of which may go away; errors that must not overtake the events before
them; cancellation of the handler at its awaits; the order in which the client
must receive events that name each other; the order in which Bedrock sends them; clients that stall
while the process runs out of file descriptors;
detached connection tasks that outlive the accept loop but not the runtime; what an
answer turns into on its way to the client and back; and two files that are
replaced one after the other by commands that may overlap, fail, be killed, or run
while the server starts. `PROJECT.json` lists them, with their lines, under "hazards".

## 2. Modules

| module | models | remarks |
|---|---|---|
| `StreamAccumulator` | `StreamAccumulator::handle` as `HandleBlocks` and `HandleFrames` | operators, no state of its own |
| `UiAdapter` | `UiAdapter::translate` as `TranslateAdapter` and `TranslateEvents` | likewise |
| `WarpClient` | the client, a fold (`Receive`) over the events | external: from the comments of `ui_adapter.rs` and the audit document |
| `ConverseStream` | which event a producer may send next (`Offers`, `After`) | external for Bedrock; `"mock"` is `MockBedrock` with the scripts of the tests |
| `Pipeline` | a turn as a sequential program: `Flush` and `Pump` join accumulator, adapter and client as `flush_frames` and `pump_stream` do, without tasks and channels | operators, no state of its own |
| `Turn` | one request: handler, drain task, pump, hyper's polling of the body, the client; the system model | composes the four modules above |
| `TurnContract` | what a turn promises, abstractly: pieces are said, shown, a verdict follows, it ends | the abstract specification |
| `TurnProperties` | the properties of `Turn`, the reference reading of a script, the refinement mapping | |
| `TurnAnswer` | the inductive invariants behind the properties about the answer and the usage | |
| `Server` | accept loop, connections, dispatch, shutdown | a streaming response is one step here; `Turn` is its detail |
| `ServerProperties` | the properties of `Server` | |
| `RequestTranslator` | the two walks of `translator.rs`, the cache points, the blocks of `sdk_translator.rs` | operators, no state of its own |
| `Conversation` | several turns: a request is translated, answered, and becomes history | composes `RequestTranslator` and `Pipeline`; the tasks of a turn are left to `Turn` |
| `ConversationProperties` | the properties of `Conversation`, stated against a transcript, and the inductive invariant behind them | |
| `Configuration` | `validate`, `resolve_auth`, model id, betas, thinking fields | operators over a configuration |
| `Boot` | runs of `cert` and starts of the server over the two files | composes `Configuration`; `Server` is the detail of "serving" |
| `BootProperties` | the properties of `Boot` and the invariants of its proofs | |
| `MCTurn`, `MCServer`, `MCConversation`, `MCBoot` | values of constants for TLC | |
| `Turn_proofs`, `TurnClient_proofs`, `TurnAnswer_proofs`, `Server_proofs`, `Boot_proofs`, `RequestTranslator_proofs`, `Conversation_proofs` | theorems | `Turn_proofs`, `TurnClient_proofs`, `TurnAnswer_proofs` build on each other in this order, and so do the last two |
| `Flatten_proofs` | lemmas about concatenation and about folds, for the proofs of `Turn` and `Conversation` | |

### Correspondence

*One action per await-free stretch of a task.* tokio may switch tasks at an
`.await`, so each action of `Turn` is the code between two of them:
`DrainRecv`/`DrainErr`/`DrainEof` are the three results of `stream.recv().await`,
`DrainSend` the `tx.send(..).await` (which waits for room, and fails once the
receiver is dropped); `PumpRecv` takes an item and runs `acc.handle`,
`PumpTranslate` runs `adapter.translate` on the next frame of the batch,
`PumpSend` sends one event, `PumpAbort`, `PumpContinue`, `PumpBreak` and
`PumpEnd` are the four ways on. `handler` stands at the awaits of `handle()`,
where hyper may drop its future (`CancelRequest`). `ClientDrop` drops the body
and with it the receiver of the body channel. A task that returns drops its ends
of the channels: `pump = "done"` makes the drain task's send fail,
`drain = "done"` lets the pump see the end of the stream once it is empty.

*Data.* A piece of text, of reasoning or of tool input is a chunk `[n, closes]`;
`n` tells chunks apart, `closes` marks the piece after which a tool's JSON text
is complete, which is all that `serde_json::from_str` decides on. A tool's id is
its block index. Message ids are numbers minted from a counter, for uuids. Token
counts are one number instead of four that are treated alike, with `u32::MAX` and
`i32::MAX` constants. The task id, the session ids, the SSE encoding and logging
are left out.

*History variables.* `script` (the events received from Bedrock) and `failed`
(recv returned an error) are read by properties only.

*Connections.* `conn` is where the task of a connection stands, or how it ended: the
client left, its handshake failed (`"failed"`: the server drops the stream,
`server.rs:158-163`), the listener was gone before it was accepted (`"refused"`), or the
runtime ended (`"cut"`). A client that leaves before it is accepted stays in the backlog,
where `AcceptAborted` finds it.

*Conversations.* `Conversation` knows three steps: a request (`Ask`), a content
block of its answer (`AnswerBlock`, the events of the block through `handle`,
`translate` and the client, without the channels: `AsIfSequential` says that
those make no difference), and the end of the turn, when
the client appends to its record (`task_context`, one task per turn) the inputs of
the turn and then the messages it has built. A text is a sequence of chunks, chunk 0
is white space, the stub that stands in for an empty request has a number of its
own. What a tool call leaves in the record follows from the field mask of its
append: the payload, one entry per call, and not the `tool_call_id`
(`RecordMessage`). A content block of an answer is a text, a blank text, a tool call
whose input comes in two pieces, one that is cut short after the first piece (a call
with the empty object), or reasoning without a typed start, as Bedrock sends it.
`transcript` is a history variable: what was said, by whom. Two things are not in it.
Reasoning of that kind never reaches the client (`ReasoningForwarded` is violated by it),
so that nothing could bring it back; and the id of a tool call is taken from its
payload, for the id, the name and the bounds of the tool_use blocks around the payloads
do not come back (`ToolLoopResumes` is violated by it).

*Files and commands.* An action of `Boot` is one system call of `write_with_mode`
(`remove_file`, `open` with `create_new`, the write), for one file of one run of
`cert`; several runs are active at once. A file holds the certificate or key of one
run, complete or not, and has a mode. A write reaches the file under its name only
if that is still the one this run has created. `FailRun` is any system call that
fails, a write cut short, and a kill; `Stop` ends a start at any point. At first
there are no files, or a pair left earlier, or such a pair with a key that is
readable by everybody. The steps of `run_server` are those between which the files
may change: load and validate, authorize, look for the files, build the client,
read the certificate, read the key, bind. `alone` is a history variable, the runs
that no other has overlapped.

*The producers.* For Bedrock: messageStart, then content blocks one after the
other, each closed before messageStop, then metadata; only a tool block's start
has a payload, the start of the others may be missing; an error or the end of the
stream may come anywhere (`DrainErr`, `DrainEof`). For `MockBedrock`: the scripts
of the tests, with typed starts and metadata before or after messageStop.

## 3. Runs

| run | shows | bounds |
|---|---|---|
| `turn` | type invariant; the client can apply every event (`NoClientFault`); what it shows is a prefix of the answer (`ShownInOrder`), all of it when the body ends by itself (`EndedComplete`); every verdict is true (`HonestFinish`) and failures get one (`FailureReported`); what it shows and what is on its way make up the answer at every moment (`AnswerInv`); what the client has in the end is what pumping the same events one after the other would have given it (`AsIfSequential`) | 3 blocks, 2 deltas, no extras, capacities 1 and 1 |
| `turn_live` | bodies end (`BodyEnds`), a client that leaves releases both tasks (`DropReleasesUpstream`), failures reach the client (`FailureReachesClient`); at most what the channels and the hands of two tasks hold is ahead of the client (`BoundedReadAhead`); a verdict carries the last usage reported before the stop (`UsageBeforeStop`); the three tasks implement `TurnContract` (`KeepsContract`) | 1 block, 5 deltas (an answer one piece longer than the bound on reading ahead), 1 metadata or unknown event, capacities 1 and 1 |
| `server` | type invariant, with: no failing accept closes the listener; a client that stalls keeps no other out while a file descriptor is free (`AcceptNotBlocked`); each answer is one to its request (`AnswersFit`), and every request of a client that stays is answered (`Answered`); the signal stops the accept loop, whatever the connections do (`ShutdownStops`) | 3 connections (two requests on one, one on another, whose client may stall, none on the third), file descriptors for 2 |
| `conversation` | every text, the payload of every tool call and every result reach Bedrock again in every later request, once, in order and under their roles (`TextsAndPayloadsKept`); each request extends the one before (`PrefixStable`), the prefix cached last is marked again (`CacheReusable`), no request is empty and the stub comes alone (`StubAlone`); the client has what the adapter believes it has, and its record says what was said (`ConversationInv`) | 3 turns, 3 content blocks of 5 kinds, 5 inputs, 2 histories to start from, caching on or off |
| `boot` | a server serves only with a matching, private pair (`ServesMatchingPair`), a new key is private at every moment (`KeysPrivate`), a lone run of `cert` repairs whatever it finds (`LoneRunRepairs`), a usable pair is used (`UsableStarts`), the `:1m` marker becomes the beta and never reaches Bedrock (`MarkerBecomesBeta`) | 3 runs of `cert`, 1 start, 7 configurations, 3 initial states of the files |
| `usage_reported`, `reasoning_forwarded`, `finished_is_terminal`, `no_silent_end`, `drop_keeps_serving`, `tool_loop`, `credentials_start` | a sentence of the documentation that the code does not keep; see section 6 | as the passing run of the same module, or smaller |

*Why the bounds are enough.* `ShownInOrder` and its kin are stated against
`Answer`, a reading of `script` that uses neither the accumulator nor the adapter
nor the channels. Capacities of one make both channels full and empty after every
event, so that each task waits for the other in every combination; 32 adds only
longer runs of steps that do not touch each other. Three blocks allow every pair
of consecutive kinds, and the return to an earlier kind, which is what the
rotation of message ids depends on; two deltas allow a tool input in two pieces,
cut short or complete, and text around a tool call. `U32Max = 3` and
`I32Max = 1` with counts 1 and 5 put a script's count above u32 and keep Bedrock's
below it; usage before the stop, and counts of that size, come from `MockBedrock`'s
scripts only. One metadata event per message is what Bedrock sends; that the last of
several wins is proved, for any number.

In `Conversation` three turns let a turn's messages be input, then recent history,
then older history behind a newer turn, and let the last two user messages be in one
turn, in two, or with assistant messages in between; three content blocks allow two
calls in an answer, answered in one input. In `Boot` three runs are the smallest
number where a lone run can follow two that have overlapped, and where a start can
read the certificate of one run and the key of another while the third works. Each
start is independent of the ones before it, so one is enough. The seven
configurations have every authentication mode, every kind of model id, and schemas
that parse and do not.

In `Server` three connections and descriptors for two let the accept loop run out of
them with a connection in its queue, whether or not one of the two others stalls, and
go on when one is free again. Two requests on one of them show the order of answers, and
one on the connection that may stall lets a turn be in progress for good while others
are served; the third connection only has to wait and to take a descriptor. `MaxOpen` is
a limit of the operating system; `MaxBlocks`, `MaxDeltas`, `MaxExtras`,
`MaxRequests`, `MaxTurns`, `MaxParts` and `MaxStarts` are the only bounds that neither
it nor the code has.

*Fairness* (`FairSpec`). tokio polls every ready task, so each task's own steps
are weakly fair. `WF(Drain)` says that `recv()` returns sooner or later; without
it a silent Bedrock keeps a turn open for ever, as in the code, which has no
timeout. `WF(BodyPoll \/ BodyEnd)` says that a client that stays reads; leaving
(`ClientDrop`), cancelling and rejecting are never forced. So `DropReleasesUpstream`
says nothing of a Bedrock that is silent for good: a client that leaves is then noticed
by nobody. In `Server` the accept loop takes what is at the head of the backlog, or drops
it when its client is gone (`WF(Accept \/ AcceptAborted)`), and notices its signal
(`WF(StopAccepting)`), also while it spins on accepts that fail for want of a file
descriptor (`AcceptExhausted`, a step that changes nothing): tokio's budget makes such a
task yield, so that `select!` polls the receiver. Nothing at all is assumed of the
`Stalled` connections, and nothing frees their descriptors, for the code has no timeout:
`AcceptNotBlocked` promises nothing while none is free. In `Boot` a start that nobody stops goes on
(`WF(StartUp)`: straight-line code without waiting); a run of `cert` may stop
anywhere for good.

*Deadlock* is checked in every run of `Turn` and `Server`; `Settled` (all tasks
returned and the body gone, or the turn refused) and `runtime = "down"` are the only
states that may stutter for good. It is not checked in `Conversation` and `Boot`: a
conversation is over when the client asks nothing more, a command when it returns.

Each property of a passing run has a mutant: a definition next to the one it
replaces, marked "Mutation", with a plausible bug under which the property fails.

## 4. Proofs

`Turn_proofs`: `TypeCorrect`, `Spec => []TypeOK`, for all capacities and bounds.
Lemmas give the types of what the accumulator, the adapter, the client and the
producer compute (`HandleFramesType`, `TranslateEventsType`, `ReceiveType`,
`OffersType`, ...), `TypeStep` has one step per action.

`TurnClient_proofs`: `ClientNeverFaults`, `Spec => []NoClientFault`. A client
without fault says nothing about the events that are still on their way, so
`NoClientFault` is not inductive. `ClientInv` (in `TurnProperties`) adds what the
argument needs about the events in flight, `body_stream \o events`:

- what the client lacks of the prelude leads them, and no other of their events
  is part of a prelude (`PreludeInFlight`);
- the ids they register are new, distinct, and not ahead of the adapter's
  (`FreshIds`);
- each append is preceded, at the client or in flight, by the registration of its
  message with its kind (`AppendsLand`), and so is the message the adapter has
  open (`OpenMessage`).

`TranslateTakesOff` shows that `translate` extends a flight with this property
to one with it, whatever the frame; `FirstLands` that receiving the first event
succeeds and leaves such a flight; `ClientStep` that the steps of `Turn` do only
one of these, or move an event from one channel to the next (`MoveHead`).

In the same module `FailuresAreReported`, `Spec => []FailureReported`. At the end
of a body nothing is left of how it came about, so `FailureInv` (in
`TurnProperties`) follows the error from where it occurs to the client:

- an error is the last thing the drain task sends and the last thing the pump takes,
  after which the channel is empty and the drain task gone (`ErrorComesLast`);
- unless the client leaves, the pump ends after the drain task and the body after
  the pump (`EndsInOrder`);
- until then the error is in one place: held by the drain task, last in the channel,
  in the pump as the frame of the synthesized stop, last among the events to be sent,
  last in the body channel, or received (`ErrorOnItsWay`).

`ErrorMovesOn` has one case per action. That the verdict is received and not just
delivered uses `ClientStep`: the client has no fault.

And `TurnsRunAsOneProgram`, `Spec => []AsIfSequential`: whatever the schedule, a client
whose body has ended is in the state in which a program without tasks and channels would
have left it (`Pump`, one event after the other), in all its messages and verdicts. While
the turn runs the two differ, for the tasks are ahead of the client; `SequentialInv` (in
`TurnProperties`) adds up what is on its way. Were the events in flight received
(`Arrived`), the frames in the pump's hands flushed (`Flushed`) and the items sent to it
pumped (`Drained`), the turn would be the one that pumps all that was read. A step of the
pump or of hyper moves one element from one of these folds to the next (`SumReceived`,
`SumTranslated`, `SumPumped`), which changes nothing, and a step of the drain task adds
the same event to both sides (`DrainAdds`). `FailureInv` is a part of it: nothing is read
after an error, so the error is also the last thing the sequential program sees.

`TurnAnswer_proofs`: what the client is shown, whatever the capacities, bounds and
schedule. `NothingIsLost`, `Spec => []AnswerInv`, and from it `AnswerShownInOrder`
(`ShownInOrder`), `EndedBodiesAreComplete` (`EndedComplete`), `VerdictsAreHonest`
(`HonestFinish`), `ReadAheadIsBounded` (`BoundedReadAhead`) and the refinement
`TurnKeepsContract` (`KeepsContract`). None of these is inductive: what the client
shows next depends on events, frames and items in four places, and on blocks half
assembled. `AnswerInv` (in `TurnAnswer`) says, while the client listens:

- *Conserved*: `Answer` is what is shown, followed by what the events, the frames
  and the items on their way will show, in this order;
- *Upstream*, *InOrder*: events belong to the open block or an earlier one, blocks
  follow each other in the script and in the channel, a tool's input ends with the
  piece that completes it, the model stops once;
- *Delivered*, *Assembled*: a start on its way has all of its block's input behind it,
  a delta on its way fits its block's kind, and a block in the accumulator lacks
  exactly the pieces that are on their way; otherwise a stop would show half a call;
- *AppendsLast*, *Numbered*: the client shows messages in the order of their ids, so
  an append in flight must go to the message registered last, or it would land in
  the middle;
- *ItemsConclude*, *FramesConclude*, *EventsConclude*, *Concluded*: wherever a
  verdict is, nothing to be shown is behind it, nothing is said any more, and it is
  true of the script;
- *OneAtATime*: an event shows one piece at most and the pump holds one at most, for
  the bound on reading ahead.

Each action has its step lemma (`DrainRecvStep`, `DrainErrStep`, `DrainSendStep`,
`PumpRecvStep`, `PumpTranslateStep`, `BodyPollStep`, ...): `DrainRecvStep` extends
`Answer` and the items by the same piece (`AnswerGrows`), `PumpRecvStep` shows that the
frames say what the item said (`HandleSays`), `PumpTranslateStep` the same of events
and frames (`TranslateYields`), `BodyPollStep` that the client shows what the event
said (`ClientShows`). That the accumulator, which decides by the block's kind, and the
reference reading, which decides by the event's type, agree is where *Delivered* and
*Assembled* are used.

The refinement (`ContractStep`): `Respond` maps to `Open`, `RejectRequest` and
`CancelRequest` to `Refuse`, `DrainRecv` to `Say` or to a stutter, `BodyPoll` to `Show`,
`Conclude` or a stutter, `BodyEnd` to `End` (nothing is withheld, because nothing is on
its way any more), `ClientDrop` to `Leave`; every other step stutters. `Say` needs that
nothing is said after a verdict (*Concluded* with `Closed`).

`UsageIsReportedAtStop` (`UsageBeforeStop`) needs the usage followed from Bedrock to the
verdict (`UsageInv`, on top of `AnswerInv`): the adapter's `pending_usage`, changed by
the frame and the items on their way, becomes the usage of the script (`ItemsAccount`);
up to the stop on its way, the usage of the script at its stop; a Done, a StreamFinished
in flight or received carries that (`FramesAccount`, `EventsAccount`,
`VerdictsAccount`). It covers metadata after the stop, which changes `pending_usage` too.

`Flatten_proofs` has what these proofs need of concatenation. `FlattenSeq` is a
recursive function, so its values are found by induction; the library's induction
theorems cannot be instantiated by the provers, but its theorem on minimal elements
(`WFMin`) can, and gives `Induct`: a set of naturals with 0 and closed under successor
is `Nat`. From it: the recursion equation (`FlattenExists`, `FlattenValue`), and how
reading a sequence element by element (`Gather`) behaves under appending,
concatenation and taking the head (`GatherAppend`, `GatherConcat`, `GatherHead`).
`FoldLeft` is recursive in the same way: a fold is a chain of single steps (`FoldReceive`,
`FoldFlush`, `FoldPump`), a chain has one end (`ChainEnd`) and goes on where another one
ends (`ChainGoesOn`), so a fold may stop and go on anywhere (`FoldConcat`, `FoldHead`).

`Boot_proofs`: types; `ServesOnlyMatchingPair`, `KeysStayPrivate`,
`LoneRunLeavesItsPair`, `MarkerNeverReachesBedrock`
(`MarkerBecomesBeta`), for any number of runs and starts and any configurations.
`BootInv` adds to what they state:

- while a run that no other overlaps stands at a step, the files are as that step
  expects them, and no other run is active (`LoneRuns`); a pair in place at the end
  is a statement about the last step only;
- what `run_server` holds at each step: a validated configuration, and from the
  reading of the key on a pair that belongs together (`HeldBySteps`).

`LoneKept` shows that overlapping runs stop being lone, `LoneStep` that a lone run's
own steps keep the files in order.

`MarkerNeverReachesBedrock` has a hypothesis on the configurations (`MarkerAppended`):
the marker `:1m` is at the end of the model id, where `README.md:80` asks for it, if it is
there at all. The proxy strips one marker, at the end; with another one inside, the rest
would go to Bedrock, and that is not what the theorem is about. `MarkerLeaves` follows the
id through `prepare_model_id` and the beta, for ids of any length.

`Conversation_proofs`: conversations of any number of turns, answers of any number of
blocks and any histories to begin with. `ConversationKept`,
`Spec => []ConversationInv`, and from it `TypeCorrect`, `StubIsAlone` (`StubAlone`),
`TextsAndPayloadsAreKept` (`TextsAndPayloadsKept`), `PrefixIsStable` (`PrefixStable`) and
`CacheIsReusable` (`CacheReusable`). All of them are about requests, so they say nothing
of the time in between, when an answer grows in the client; `ConversationInv` (in
`ConversationProperties`) adds:

- *ClientInStep*: between two content blocks none is open, and the client has what the
  adapter believes it has: the prelude, one message per id, the last one of the kind
  that is open, and in each message content of its kind only, without which the record
  of a message would drop some;
- *RecordSays*: `transcript` is what Bedrock would be sent, did the turn end now, and no
  message of the record is the diagnostic stub;
- *SentRecorded*: what was sent, cache points aside, is what the record had at the
  start of the turn, and is a beginning of it for good.

The proof has two halves, one for each direction. *Towards the client*: the events of a
block go through three folds, which `FoldsBy` and `ChainIs` take apart into single
steps, for `FoldLeft` is a recursive function as well; `PartPumped` follows a
block through accumulator, adapter and client, `ReasoningLost` shows that one of reasoning
leaves nothing behind, `HeldGrows` that what the client
holds says one part more, and `AnswerStep` that the invariant is kept. *Back to Bedrock*,
in `RequestTranslator_proofs`: every function of the translation reads a sequence element
by element, so it is a `Gather` (`WalkGathers`, `ExtractIs`, `SentIs`, `SaysGathers`), and
Gathers compose (`GatherGather`): what a request says is said message by message
(`RebuiltSays`). `WalksAgree` is the heart of `PrefixStable` and `TextsAndPayloadsKept`: the
walk of the new input makes of each piece what the walk of the history makes of the
client's record of it, blank texts included. `RequestTranslated` sums up what a request
is; `AskStep` and `EndTurnStep` are the other two steps.

`CacheIsReusable` adds `LastMarkSurvives`, for every sequence of messages: the last user
message of a request is marked in every request that extends it by at most one more;
`SentExtends` provides the extension, `OneMore` the counting. Its premise leaves out a turn
that adds several user messages: there both marks go to the new turn, and the one before
it is marked no more. `AtMostTwoCachePoints`: no sequence of messages gets more than two,
which `TypeCorrect` states of every request (`AtMostTwo`).

`Server_proofs`: `ServerTypeCorrect` (`TypeOK`), with: a task that serves has a request to
serve, and the listener is closed only after its owner has given up the handle, so by no
failure; and `EveryAnswerFits` (`AnswersFit`), which needs the former: an answer is given
to the request after those answered so far. Both for any number of connections, requests
and descriptors.

The assumptions are those of the modules: `StreamCap` and `BodyCap` are positive,
the other bounds natural numbers, `StopReasons` among the reasons known by name
(`ConverseStreamAssumption`, `U32MaxAssumption`, `TurnAssumption`), stalled
connections are among finitely many connections, and there is a file descriptor for
one (`ServerAssumption`), runs of `cert` are positive
numbers and the configurations are configurations (`BootAssumption`). Of `Conversation`:
what is asked is built from the kinds of input and answers from the kinds of blocks that
the model has (`AskAssumption`); a conversation that began before the proxy was there
comes with a well-typed record, in which nobody has said the text of the stub, and a
transcript of what this record says (`HistoriesAssumption`; TLC compares it with a
transcript written by hand). TLC evaluates them all in the runs.

Every invariant and action property of the passing runs is proved. Model-checked only:
liveness (`BodyEnds`, `DropReleasesUpstream`, `FailureReachesClient`, `AcceptNotBlocked`,
`Answered`, `ShutdownStops`, `UsableStarts`), which needs fairness and ENABLED.

## 5. Not modelled

- TLS, HTTP parsing, SSE encoding, protobuf, TOML, `json_to_document`: libraries or
  pure conversions. The SDK's configuration (`build_client`, `bearer_header`) is part
  of one step of `Boot` (`BuildClient`), which fails only for a tool's schema; sending
  the SDK request is one step of `Turn`, which may fail at any time (`RejectRequest`).
- A negative block index, a message that stops with an open block: Bedrock sends
  neither, and the producer of the model does not.
- `system_to_sdk` and the system prompt: the translator always leaves it out, and
  likewise the tool definitions of a request. The errors of `sdk_translator.rs` for
  blocks without id, name or result: nothing that calls it builds such blocks.
- The branch of `write_with_mode` for systems other than Unix; what is in a
  certificate; the warnings of `validate_with_warnings`; logging.
- `login`, which prints a line and keeps nothing.
- The redirect scripts: straight-line shell commands on system files.
- The developer binaries.

## 6. What the model found

Seven sentences of the documentation do not hold, each shown by a run:

1. `ui_adapter.rs:10-12`, usage is flushed onto `StreamFinished`: Bedrock's
   metadata follows messageStop, so it never is (`usage_reported`).
2. `ui_adapter.rs:7-8`, thinking deltas are forwarded: Bedrock's reasoning blocks
   have no typed start, so the accumulator drops their deltas
   (`reasoning_forwarded`).
3. `docs/upstream-warp-audit-2026-05.md:79`, `StreamFinished` is terminal: an error
   after messageStop adds a second one (`finished_is_terminal`).
4. `route_multi_agent.rs:135-138`, no silent end of stream: a stream that is cut at
   an event boundary ends without an error and without a `StreamFinished`
   (`no_silent_end`).
5. `server.rs:33-35`, dropping `ShutdownTx` does not stop the server: it does
   (`drop_keeps_serving`).
6. `README.md:164-167` and `translator.rs:121-123`, tool calls and results round-trip
   so that a tool loop can resume: the client's record of a call has no id, and two
   calls share one message, so the next request's tool_use has an empty id that the
   results do not name (`tool_loop`; `ui_adapter.rs:244-251`, `369-371`,
   `translator.rs:188`).
7. `README.md:30-31` and `75-76`, explicit credentials are an authentication mode:
   `run_server` never passes an access key on, so each such start is refused
   (`credentials_start`; `main.rs:71`).

The proof of the refinement showed one flaw of the model itself: two guards of the
CASE that maps a turn's status overlapped (a refused request and a body that does not
exist), which leaves the value open in TLA+, although TLC takes the first. The guards
are disjoint now.

## 7. Plan

All the modules of the plan are written. Left, in this order:

1. A producer that closes messages with an open block, should Bedrock ever do so.
2. The redirect scripts, should they come to depend on each other's state.
