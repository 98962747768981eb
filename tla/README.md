# A TLA+ model of neonize

neonize lets Python programs talk to WhatsApp. A Go library (`goneonize/main.go`,
built with cgo) wraps the protocol client *whatsmeow*; Python loads it with
ctypes (`neonize/_binder.py`) and offers a synchronous client
(`neonize/client.py`) and an asyncio one (`neonize/aioze/client.py`). This
directory models the parts of that system in which threads, processes, queues,
registries, memory and files meet, checks them with TLC and proves facts about them
with TLAPS.
All paths below are relative to the repository's root.

## The parts of the system

| part | state it keeps | operations | what is hard | what makes it correct |
| --- | --- | --- | --- | --- |
| Session (`goneonize/main.go`: `Neonize`, `CallbackFunction`, `Stop`, `StopAll`, `Disconnect`) | three maps from uuid to client, cancel function and channel; one channel of 100 events, one context and one thread for each session | connect, pair, log in, deliver events, stop | the maps have no lock; whatsmeow's goroutines, the callback loop and `Stop` touch the same channel; a Go panic ends the whole process | events reach Python once, in order, from the right session, after the device; a stop ends the loop |
| Asyncio client (`neonize/aioze`) | `event_global_loop`, the subscriptions, `connect_task`, `connected`, `me`; the worker threads of `asyncio.to_thread` | `connect`, `PairPhone`, `idle`, `stop`, `execute`, every exported call | each session keeps a worker for its whole life; handlers overlap at every `await`; the loop may not run | handlers start in order and see `me`; a stop is not starved |
| Synchronous client (`neonize/client.py`, `neonize/events.py`) | the subscriptions (one dict for all clients of a factory), `connected`, `me`, one daemon thread for each client of a factory, a signal that has come | `connect`, `execute`, `ClientFactory.run`, SIGINT | handlers run inside the callback loop; signals wait for the main thread, which may be in Go; daemon threads die with it | one handler at a time, for an event that was asked for; signals are noticed; clients receive their events |
| Exported calls (about 110 functions of `main.go` and `*_store.go`, called by about 200 methods of the two clients through `_binder.py`) | buffers allocated in C and freed by Python, the frames of the methods | marshal, call, copy, free, parse; again after an exception; cancel | three error policies; declared return types that differ from the real ones; empty messages; a cancelled task leaves its thread in Go | every answer is read by its own caller, freed once, after its last use; errors are reported; what raised has not succeeded |
| Loading (`_binder.py`, `download.py`) | the library file, what each process has mapped | check the version, download, load | interrupted and concurrent downloads, endless retries, a file written over while it is mapped | a file that can be loaded, or an error |
| Contact and chat-settings stores (`*_store.go`) | whatsmeow's tables | put and get | errors of the store, declared types | as for the exported calls |
| Release tools (`tools/`, `bump_version.sh`, `create_github_release.sh`, `auto-version.yml`) | version numbers in four files | bump, set, publish, decide whether to build | a file is emptied, then written, and one after the other; each tool writes other files | after updates the files agree, and never ask for what is not built |
| Media helpers (`utils/ffmpeg.py`, `utils/iofile.py`) | temporary files, child processes and their pipes | convert, extract, probe | names made of the time, full pipes, timeouts, cancellation | a conversion returns its own output and leaves no file |
| Conversions (`utils/encoder.go`, `utils/decoder.go`, `utils/jid.py`) | none | encode, decode | fields in bulk | decoding undoes encoding |
| Generated protobuf code, whatsmeow | | | outside, or generated | |

How they interact: Python's `connect` calls the exported `Neonize` and stays in
it until the session is stopped. `Neonize` gives whatsmeow an event handler.
whatsmeow's goroutines run it and send into the session's channel; the thread
inside `Neonize` receives from the channel and calls the Python function
`execute`, which finds the registered handler. Any other thread may call exports,
which find their client in the map `clients` by its uuid, and `Stop`, which
removes the uuid from all three maps. The library itself is a file that `import neonize`
downloads from the release named in the package; the version there is what the release
tool wrote. The methods that send media run ffmpeg before they upload.

## Modules

`EventStream` is the promise of a session to the Python program, without threads
or registries: the first callback carries the session's own device; each later
one is the next subscribed event in the order the event handler accepted them;
none comes twice, none is left out; at most `Capacity` accepted events wait.

`Session` is `main.go`'s implementation.

| in the model | in the code |
| --- | --- |
| `clients`, `StopSignal`, `eventChannel` | the package-level maps, `None` for a missing key. A value is the session (the call of `Neonize`) that stored it |
| `cancelled`, `queue`, `closed` | the session's context, the buffer of its `eventChan`, and whether it is closed |
| `pc`, `channel`, `device` | where the thread in `Neonize` is, and the locals `channel` of `CallbackFunction` and `cli` of `FetchMe` |
| `link`, `storeID` | whatsmeow's socket, and `client.Store.ID != nil` |
| `handler` | the call of the event handler a whatsmeow goroutine is in: waiting on `loginStateChan`, or on the channel |
| `stopper` | a thread inside `Stop` or `StopAll`: which step it is at, the keys it still has to stop, the entry it has looked up |
| `crashed` | the panic that ended the process |
| `sent`, `delivered` | history: what the handlers sent, what Python was called with |

One action is one step another thread can see: one access to a map, one channel
operation, one call into Python. `Stop` therefore has, for each of the three maps, a step for the
lookup, one for the action on what it found (`DisconnectClient`, `CancelContext`, `CloseChannel`)
and one for the deletion of the key (`ForgetClient`, `ForgetSignal`, `ForgetChannel`). A receiver asleep in its `select` is `parked`;
the sender, the cancel or the close that wakes it chooses its case, as in the Go
runtime, so a parked loop woken by a cancel returns without looking at the
channel, while a loop that comes to the `select` with several cases ready takes any.
The kinds of events are a parameter. The forty cases of the event handler's switch have
one shape (drop the event unless Python subscribed to its number, encode it, send
it), and only `Connected` has more to do, so the model keeps that one apart; the
fields of the messages are left out, except that some messages have none, which
makes marshalling panic.

What whatsmeow does is external: `PairDevice`, `LogIn`, `Drop` and `Receive` let it
dispatch events from any of its goroutines whenever a socket is open, and
`SendOnClosed` uses that it recovers from a panic in a handler. A logout, which would clear the device's
ID again, is not among them.

`AsyncClient` is the asyncio client. It knows its sessions only by their promise: each
is a session of `EventStream` (`Go == INSTANCE EventStream`) that also occupies a
worker thread from the call of `Neonize` to its return. `Session` implements that
promise, so threads and registries of Go need not be interleaved with the loop again.

| in the model | in the code |
| --- | --- |
| `listFunc`, `subscribed` | `event.list_func`, and the bytes `connect` made of its keys |
| `me`, `connected` | the attributes of the client |
| tasks `Main`, `Signal`, `ConnectTask(c)`, `Handler(c, n)` | the application's coroutine, `ClientFactory.stop()` as handed over by `interrupted` of the examples, `connect_task`, the coroutine of the handler of the n-th event |
| `Script(t)`, `pos` | the exported calls a coroutine awaits, and how far it is. `"call"` is any of them |
| `state` | `scheduled` while a callback for the task is queued, `awaiting` while an exported call of it queues or runs, `idle` in `await connect_task` |
| `ready` | the queue of callbacks of `event_global_loop` |
| `work`, `running` | the queue and the workers of the loop's default `ThreadPoolExecutor` |
| `phase`, `stopped` | where the call of `Neonize` is, and whether `Stop` or `StopAll` found it |
| `toStop` | the sessions a `Stop` or `StopAll` that runs in a worker still has to come to, one in each step |

`run_coroutine_threadsafe` does not queue a step of the handler but a callback that
creates its task, which queues the step; a worker that has finished queues a callback
that resolves a future, which queues the step of the coroutine that awaits it. `hops`
counts these, and that both take one is why a handler begins before the end of
`Neonize` is known (`IdleSeesAll`): a worker that resumed its task directly would
overtake the handlers (`MutCallEnds`). `idle` awaits one task and is resumed by it, `idle_all`
goes through a task and a gathering future for each client: between none and two more hops.

Where the model allows more than the code: connects may have anything
between them; `await run()` may take no or one pass of the queue; after the application has
returned the loop may still run callbacks (`run_until_complete` ends with the
current pass). Two things are left to `Session`: a `Stop` that ends the process, and the
events a `Stop` cuts off. The QR and pair-code callbacks are left out.

### Exported calls

`Exports` is a table of both sides: what each exported function answers (a `BytesReturn`,
a C string, a value; whether it may report an error, answer with an empty message,
look up `clients[id]`, change something others can see), and the `restype` that
`_binder.py` declares for it. `CallSteps` says what a step of a method is: one call,
how its answer is read, what an error in it leads to, and whether an exception is
caught. `SyncMethods` and `AsyncMethods` are the methods of `NewClient`, `ClientFactory`, the
stores and their asyncio counterparts, each the set of paths of steps it may take; one mention of a group stands for all in
a text. Steps that call nothing but may raise (files, HTTP, Pillow,
ffmpeg, type detection) are `Own`. `Calls` executes them:

| in the model | in the code |
| --- | --- |
| `registered` | the uuid is a key of `clients`, for exports that look it up |
| `method`, `path`, `at` | which method a thread or task is in, the steps it has left, the place in the pattern call, `get_bytes`, `free_bytes`, `FromString`, `if model.Error` |
| `inGo` | the export a thread is in. It outlives the task of an asyncio caller that was cancelled |
| `memory`, `buffer`, `copy` | the C heap of `ProtoReturnV3`, the pointer Python holds, the bytes it has copied; a value is the caller they were made for |
| `error`, `refused`, `effects`, `failures` | the answer's error; history: whether this attempt has met one, how often the method has changed something, how many attempts before were refused by Go |
| `Begin` | the call of the method, or another attempt of a caller it raised to |
| `Enter`, `GoAnswers`, `GoPanics` | the call into Go and its end: a nil client, `&data_buf[0]` of an empty message and a Go pointer in an answer are panics, and the process is gone |
| `MissAttribute` | `.contents` or `.decode` of an answer that was declared as something else |
| `GetBytes`, `FreeBytes`, `Parse`, `ReadText` | the lines after the call |
| `Cancel`, `Register`, `Stop` | `CancelledError` at an await; what other threads do to `clients` |

C strings are never freed by anybody; the model has no heap for them. An export that reports an
error may have done its work all the same, or not (`TakesEffect`): `SendMessage` returns whatsmeow's
error, which may be a timeout or a disconnection after the server has acted. A caller cannot know,
so what can be promised to one who repeats a method is counted against the errors Go has
reported (`failures`): `NotTwice` says that nothing else makes a method do its work again.

`ClientCalls` states what the calls promise to users of the two clients, for any tables of methods and
exports: an error is reported, a method that raised may be called again. Which methods keep the
promises can be read off their paths: in `Reporting` each step that may meet an error raises it, in
`Repeatable` nothing can raise after the last change. The methods of neonize that do not
are listed in three assumptions (`NotClean`, `NotReporting`, `NotRepeatable`), which TLC evaluates
from the tables in the runs `calls` and `calls_raised`; the theorems take them as they stand.

### The synchronous client

`SyncClient` has the main thread (`main`), the thread of each client (`session`, which
walks through `connect` and then through callback and handler) and the signal.
`Subscribe`, `Run`, `ConnectMain`, `Wait` and `Exit` are what the examples do; `Copy` and `Neonize`
are the two halves of the line in `connect` that makes the buffer of subscriptions: it
copies the keys first and reads the length of the dict later, so a handler registered
between the two makes `from_buffer` raise, which ends the thread (`"raised"`). `Panic` is a
`client.Connect()` that fails: `Neonize` panics, and the process ends with all its sessions. A
program may wait after `run()` (`Wait`) or end at once (`Exit`), as `examples/multisession.py` does.
`Introduce`, `Deliver`, `Execute` and `Handled` are a callback. `Interrupt` is SIGINT;
`HandleSignal` and `Bytecode` are the two ways its Python handler gets to run: the main thread
waits or sets up, or it is called back from Go. Go itself is one queue for each client here:
that it is one is what `Session` shows. All sessions have a device, as those of
`get_all_devices`; `PairPhone` differs in the arguments of `Neonize`, which `Session` has.

### Loading

`Loader` is `load_goneonize` and `download` in several processes over one file.
`library` is the chunks of the file and which version each is of; a download writes at
its own place, past the end if another one has emptied the file since. `Load` opens the
file, or the library that the process has open already (`ctypes.CDLL` of the same path);
`Check` compares `GetVersion` with the version the package asks for, where what a
release says of itself is a constant of the instance (`Published`: itself, or the next
version, as a release built before its number was set). A file that is emptied under
a process that has it mapped (`rewritten`) says anything, or ends the process (`Fault`).
`CutOff`, `Unavailable` and `Upgrade` are a broken connection, an answer that is not 200, and a
new version of the package, which does not touch the file. That a file which is not whole cannot be loaded
(`Whole`) is assumed of the dynamic linker.

### Media

`Media` is `FFmpeg` and `AFFmpeg`: the temporary input (`Enter`, `Fill`, `FillFails`, `Close`),
the name of the output (`Name`: time and extension), the child (`Call`, `ChildLooks`, which is
ffmpeg's check that the output does not exist, `ChildCreates`, `ChildEnds`, `ChildExits`), its
stderr, a pipe that fills (`FillStderr`) and is read by `communicate()` only (`Drain`), and the end
of the call (`Return`, `WaitTimesOut`, `Cancelled`). An operation is a sequence of such steps.
ffmpeg is modelled from the way it is called: no `-y`, nobody at its stdin.

### The release tools

`Release` has the three files that hold the version and the file `VERSION`, and every tool of the
repository that writes one of them. A tool is a record (`tool`): what it does, the file it writes next, whether it has
emptied it already, the text it is about to write.

| in the model | in the code | writes |
| --- | --- | --- |
| `StartUpdate` | `version_cli.py update` (`Version.update_*`) | `neonize/__init__.py`, `goneonize/version.go`, `download.py`, the last with what was written to the second |
| `SetVersion` | `version_cli.py neonize` and `goneonize` | `__init__.py`; or `version.go`, then `download.py` |
| `SetUrl` | `version_cli.py --set-url` | `download.py`, with the version it has |
| `Bump` | `bump_version.sh`, and `auto-version.yml` on every push to main | `VERSION`, `download.py` |
| `Publish` | `create_github_release.sh` | `download.py` |
| `Format` | `ruff format` (`autobump.yml`) | quotes of `download.py` |

`open(path, "w")` and `>` empty a file (`OpenNeonize`, `OpenGoneonize`, `OpenDownload`, `OpenVersion`) before
it is written (`WriteNeonize` ...); `Interrupted` may come anywhere. `sed -i` replaces the file at once
(`SedDownload`), and finds the version only in double quotes, where `ast.unparse` writes single ones: a
bump after an update leaves `download.py` as it was, until the file is formatted. An empty `__init__.py` or
`version.go` makes `Version()` raise, and with it every command of `version_cli` (`Readable`). In an
empty `download.py` `set_value` finds nothing to change, so no update repairs it; only `create_github_release.sh`
writes the whole file.

What is checked is what these tools can promise. `VersionsOrdered` is about histories in which
only `update` changes versions, killed anywhere: then the version that is asked for is never newer than the one that is
built. The other tools write `download.py` without `version.go` or `__init__.py`, as
`docs/versioning.md` says, so the package then does ask for another version than the library says it
is, and `Loader` shows what an import does with such a library: it downloads again and again
(`Published`). `UpdatesMeet` is about all histories: whenever `update` or `version_cli goneonize` puts a version into
`download.py` it is that of `version.go`; it does not say that an empty `download.py` is repaired.

`Program` puts these four beside each other. They share no state, so a behaviour is one of
a part, chosen at the start, and the other three stand still.

`MCSession`, `MCAsyncClient`, `MCCalls` and `MCProgram` give the constants values. `SessionProofs`,
`StreamProofs`, `AsyncProofs`, `CallsProofs`, `SyncClientProofs`, `LoaderProofs`, `MediaProofs` and
`ReleaseProofs` hold the theorems.

Operators named `Mut...` are faults: each is the definition below it with one
plausible mistake. They show that a property notices the mistake, and no
specification uses them.

## Runs

| run | instance | shows |
| --- | --- | --- |
| `session` | one session, two goroutines, two threads in `Stop`/`StopAll`, channel of 2, 3 events, 2 stops | types, delivery in order without loss, device first, only subscribed kinds, no lost wake-up, closed channels that the registry still names are about to leave it, nil messages only for a loop that was awake, and that `Session` implements `EventStream` |
| `session_reuse` | a `connect` and then a `PairPhone` under one uuid, channel of 1, 3 events, a stop, with fairness | the second session gets its own channel and device; `PairPhone` asks for its device only when it has one; a cancelled loop ends, events reach Python, blocked handlers get through |
| `session_stop` (violated) | one session, one goroutine, one stop | `Stop` during a callback can take the process down |
| `session_reconnect` (violated) | one `PairPhone` session, with fairness | the `Connected` event of a reconnection is never handled |
| `session_expired` (violated) | one session with QR codes, one stop, with fairness | a `Stop` does not end the wait for a device |
| `async` | two clients, four workers, two events for one client, `Message` registered late, a handler that awaits a call, an application that makes a call and idles, an interrupt | types, handlers begin in order and find `me` and `connected`, all have begun when `idle` returns |
| `async_live` | two clients, three workers, a handler that awaits a call, one that stops its own client, an interrupt, with fairness | handlers end; `StopAll` ends every session that has its device |
| `async_starved` (violated) | as `async_live` with two workers | `StopAll` is never called |
| `async_own_loop` (violated) | an application on a loop of its own | `connect` never enters Go |
| `calls` | one caller in any method of either client, on any path, twice if it raises; another in `get_joined_groups`, possibly cancelled; a client that is registered and stopped at any time; three buffers | a caller parses its own answer; answers are freed, except those of cancelled tasks and of the six methods that cannot read theirs; a method that returns has met no error; repeating what raised does nothing twice that Go has not reported as failed |
| `calls_raised` (violated) | the same | a method raises although the server has done what it asked |
| `program` | `Release`: all tools, three of them started, four kinds of updates. `Loader`: two versions, two processes, three imports, libraries of two chunks. `Media`: a synchronous and an asynchronous conversion, two ticks of the clock. `SyncClient`: two clients, on the main thread or in a factory, two events for each | versions meet and are ordered; overlapping downloads leave a whole file, a broken one stays broken, imports end; a conversion returns its own output and leaves nothing; callbacks find device and handler, signals are noticed, a session hands over its events while the program runs |

The bounds of `Session`: a channel of one or two events fills, drains, and is handed over directly
with three events, which is what the capacity of 100 does with more; two
goroutines are enough for one to be blocked while the other sends, two callers
for two threads to be inside `Stop` at once; two sessions for any confusion of
two keys. `MaxEvents` and `MaxStops` only bound the length of a behaviour.
`Serial` states that the application reuses a uuid only after the previous
connect and every `Stop` have returned, as a program that awaits `stop()` and
`idle()` does. Without it the code makes no promise worth checking:
a `Stop` that overlaps a second connect removes entries of the new session.
The bounds of `AsyncClient`: two events of one client and none of the other, which still
has its device, are enough for events of one session to overtake each other and for
two sessions to end at once. Four workers let both sessions, a call of the
application and `StopAll` run together; three are one more than there are sessions.
The bounds of `Calls`: answers can be confused between two callers, with one buffer left to
hand out again after each has one; a method that raises is called twice, because what
it does twice it does with the second call. The parts of `MCProgram`: three tools are an interrupted
one, one that finds what it left, and one more; three imports of two processes are two that
overlap and one that finds what they left; chunks and ticks only have to be told apart.
The two conversions of `Media` have the same extension, because with different ones their
outputs have different names anyway.
Deadlock is not checked: a session that is stopped, has no event left or has lost
the process stops.

Fairness: the Go scheduler runs each goroutine that can run (`WF` of the loop and
of the handlers), Python handlers return (`CallbackReturns` is a part of the loop),
and `select` chooses at random among its ready cases, so a done context that is
offered again and again is taken (`SF` of `SelectDone`). Nothing is assumed of the
network, the phone, the expiry of QR codes, or of the threads that call `Stop`.
In `AsyncClient` the operating system runs threads that can run (`WF` of workers and
sessions), the loop goes on while the application awaits something (`WF` of `Loop` until
`Main` is done), and exported calls other than `Neonize` answer. `Neonize` returns only
after a stop: that a cancelled session does is `StopEndsLoop` of `Session`, and that accepted
events come is its `EventsReachPython`. Nothing is assumed of events, interrupts or devices: a session whose
phone never pairs stays in `FetchMe`, also after a stop (`session_expired`), and `EventsHandled` and
`StopAllStops` are about those that have their device.
In `Program` the operating system runs the importing process (`Proceed`), the threads and the
main thread, delivers signals to one that waits, and lets a child write and a parent read;
servers, ffmpeg and handlers answer. Nothing is assumed of cut connections, timeouts,
cancellations, new handlers or signals. Each of these is weak fairness of the process that
acts. `Calls` has safety properties only.

## What the violated runs show

`session_stop`: "Stops the client and disconnects from the WhatsApp servers"
(`neonize/aioze/client.py`, `stop`). `Stop` cancels the context and then closes the
channel. A loop that is in a Python handler meanwhile finds both when it comes back:
Go picks one at random, and with the channel it receives nil and dereferences it. A
`Stop` that comes before `FetchMe` has read `clients[id].Store` makes that a nil client, and two that overlap
close the channel twice. Each of the three ends the process; the trace of the run is any of them.
`NilMessageOnlyAwake` says how far the first goes: a sleeping loop is safe.

`session_reconnect`: `examples/paircode.py` registers a handler for `ConnectedEv`.
In a session of `PairPhone` every `Connected` event is first offered on
`loginStateChan`; `Neonize` receives from it once. The handler of the second
one blocks for ever, and with it a goroutine of whatsmeow.

`session_expired`: the same sentence of `stop`. When the QR codes have expired, `Neonize` goes on
to `FetchMe`, which polls for an ID and never looks at the context. The thread does not
return, nor do `connect` or `idle`. `StopEndsLoop`, which holds, is about the loop behind
`FetchMe`.

`async_starved`: "Stops all clients and disconnects from the WhatsApp servers"
(`ClientFactory.stop`). Every session stays in `asyncio.to_thread`, and `StopAll` goes
through the same executor, which has `min(32, cpu + 4)` threads. With that many
sessions the queue behind them never moves: no `StopAll`, no reply, no answer to any
call. `async_live` shows that a single thread to spare is enough.

`async_own_loop`: "Establishes a connection to the WhatsApp servers" (`connect`). The quick
start of `README.md` runs it under `asyncio.run`; the task it creates belongs to
`event_global_loop`, which only runs if the application runs `client.loop`, as
`examples/async_basic.py` does.

`calls_raised`: "raises: SetPrivacySettingError: If there is an error while setting the
privacy settings" (`client.py`, and `link_group` likewise). `SetPrivacySetting` answers in C memory and is declared so, but the method decodes a string;
`LinkGroup` answers with a string but is declared as an answer in memory; `PutPushName` is
declared in the place of `PutContactName`, whose string is then taken for an int. Each method raises
`AttributeError` after Go has done its work, so a caller who tries again does it twice.

Not a run: "all created clients will be automatically logged in and receive all events"
(`examples/multisession.py`). `ClientFactory.run` starts daemon threads and returns; the example
ends there, and with it the threads. `SessionsGoOn` is a promise until the program ends, and `SyncClient`
lets it end there, or with the panic of a connection that fails.

Written but not wired: `PairPhone` never passes `event.blocking_func` on, so the functions registered with
`client.paircode` (`examples/paircode.py`) are not called; the models have no such callback.

Exceptions written into the properties that hold, each a behaviour a user may not
expect: `NothingLeft` (a constructor that raises leaves its input, an operation that raises
its output), `OwnResult` (two conversions in one tick), `CallsEnd` (a synchronous ffmpeg whose
stderr fills waits for ever), `ImportEnds` (an import that has downloaded over its own mapped library),
`InterruptNoticed` (Ctrl+C during `connect` waits for the next event and does not end it),
`ErrorsReported` (methods that return the error; `get_linked_group_participants` of the synchronous client,
which parses another message). Seen while reading, and outside of the models:
`chat_settings_store.go` answers `Archived` with `Pinned`; `GetAllDevices` joins with commas what Python
splits, push names included.

## Proofs

Every theorem about `Session` holds for every set of sessions, goroutines, callers and uuids, every
assignment of uuids, all subscriptions and every capacity. The assumptions on the constants
are those of `SessionAssumption` in `Session`, which TLC evaluates in every run. The
theorems of `SessionProofs` need nothing else: they hold for applications that connect and stop
whenever they like. Those of `StreamProofs` are about applications that keep their sessions apart.

`SessionProofs`:

- `TypeCorrect`: `Spec => []TypeOK`. One lemma for each kind of thread, one step for
  each action. The conjunct that a session in `wait_id` has a device makes it
  inductive: `DeviceKnown` reads `storeID[device[s]]`.
- `NoLostWakeup`: `Spec => []ParkedLoopHasNothing`. The property is inductive together with
  `TypeOK`: the only steps that could give a parked loop something (a send, a cancel,
  a close) either take it out of the select or cannot happen while it is there.
- `NoClosedChannelStays`: `Spec => []ClosedChannelsLeave`. While `main.go` is between `close` and `delete` the
  registry names a closed channel; the property says that this is the only time, so that it takes two
  overlapping Stops to close a channel twice. Two threads may hold the same channel, and each removes only the
  key it was called with. `ChannelInv` adds what excludes a second key: a channel is
  registered under the uuid of its session only, `Stop` closes what it found under the
  uuid it was called with, and a session that has not made its channel yet has no
  closed one.
- `PairPhoneWaits`: `Spec => []PairedBeforeDevice`. `PairInv` adds that a handler waiting to
  hand over the login belongs to a session whose store has an ID, and that no session
  of `PairPhone` waits for QR codes.
- `StopsItsOwn`, an action property: a step cancels a context or closes a channel only of a session
  whose uuid some `Stop` or `StopAll` is at. `OwnInv` adds to `ChannelInv` that the other two maps
  have a session under its own uuid, and that a `Stop` between a lookup and the action on it holds
  a session of the uuid it was called for. Not checked by a run; TLC found no violation in the
  first nine million states of two sessions and two calls of `Stop`, for one uuid and for two.
- `PanicsNeedStop`: before the first call of `Stop` or `StopAll` the process does not die of a nil
  client, a nil message or a channel closed twice. `Unstopped`: every channel is open and every
  client that was registered can be found. The panics for a failed connection, an empty
  message or a call before `connect` has registered need no `Stop`, and are not claimed.

`StreamProofs`. Without any condition sessions mix: a `Stop` that overlaps a
second connect under its uuid removes the entries of the new session, and a connect that
overlaps another reads its channel. The hypothesis is `SeparateSessions`: every session has a uuid of
its own (`DistinctUuids`, as `ClientFactory` hands them out), or a uuid is reused only after the previous connect
and every `Stop` have returned (`Serial`). Two layers:

- `ThreadInv` is about the threads. Of the sessions with one uuid at most one is running
  (`Exclusive`). Once it has written its entries it finds itself or nothing in the registries
  (`OwnRegistries`), so do the locals filled from them; the loop has delivered the device; a
  handler sends only what was subscribed. Under it, and `ParkedLoopHasNothing`, each
  step of `Session` is a `StreamStep` (`NextStreams`): it introduces the device, puts an
  event into the channel, takes one out, passes one on to a sleeping loop, or touches
  none of the three.
- `QueueInv` is about the events. What was delivered after the device, followed by
  the channel, is what was sent; the channel holds at most `Capacity`. `StreamStep`
  preserves it (`QueueInvStep`) and under it is a step of `EventStream` or leaves
  `sent` and `delivered` alone (`StreamStepKeepsPromise`).

`Implements` (`SeparateSessions => (Spec => KeepsPromise)`, the refinement), `NothingLost`, `NoMixing`,
`IntroducedOnce` and `SubscribedOnly` follow. That a direct hand-over does not overtake a
queued event rests on `NoLostWakeup`: a loop is asleep only beside an empty channel.
For two clients with different uuids in one process, which no run has, the theorems have any
number; `session_reuse` has two sessions of one uuid.

- `NilOnlyAwake` (`Serial => (Spec => NilMessageOnlyAwake)`) is about the nil message that ends the
  process in `session_stop`. `StopInv` follows a `Stop` through the registries: a running session that
  nobody has cancelled can be found by the next `Stop` (`SignalUp`); a `Stop` that has come to its channel
  has cancelled the running session of its uuid (`CancelsFirst`); so a closed channel belongs to a
  cancelled session (`ClosedCancelled`), whose loop is no longer asleep. Here distinct uuids
  are not enough, and TLC shows it: a `Stop` that looks the signal up before `connect` has written it, and
  the channel after, closes the channel of a session that nobody has cancelled.

`AsyncProofs`, for every finite set of clients, any number of workers and events, any script of the application
and of the handlers that satisfies `AsyncAssumption`. TLC checked its invariant `IInv` on the
instances of `async` and `async_live` before it was proved. The properties are about the
order in which callbacks of several threads pass through one queue; none is inductive.
`IInv` has

- `Places`: the queue lists the scheduled tasks, each once; the calls that wait list
  the awaiting tasks no worker is in.
- `ConnectOK`: how far the task of `connect` is, beside where its `Neonize` is and what was delivered.
- `HandlersOK`: the handlers of a client that have begun are its first ones; each of the others whose
  event was delivered is in the queue and has not run.
- `QueueOrder`: of two callbacks of a client of which one must run first, that one is fewer hops away
  from its task, or as many and ahead in the queue. Both kinds that matter, the handler that
  `execute` hands over and the result of the worker that was in `Neonize`, enter with one hop: to append
  such an entry keeps the order, and to move the head of the queue to its end with one hop less
  does too. A result with no hop would not.
- types of the queues' entries, positions in scripts, `me` and `connected` beside what was delivered.

`Inductive` (`Spec => []IInv`) gives `TypeCorrect`, `InOrder`, `FlagsBeforeHandlers` and `IdleAfterAll`.
They do not need fairness, a worker to spare or an application that awaits what
it starts.

`HandledAsAccepted` puts both ends together: the i-th handler that begins is that of the i-th event that
the client's session accepted, by `InOrder` and because what was delivered is what was accepted
(`Aligned`).

`CallsProofs`, for every set of callers, methods, paths, exports, declarations and addresses that
satisfies `CallsAssumption` (where Python expects a `BytesReturn` that is declared, Go
answers with nothing else):

- `TypeCorrect`: `Spec => []TypeOK`.
- `AnswersAreOwn`: `Spec => []OwnAnswer`, and `AnswersFreed`: `Spec => []BuffersFreed`. The first
  needs that a caller at a step that reads a `BytesReturn` holds a buffer that is allocated and was
  made for it (`OwnBuffer`), and that whoever is in a method, or has left a thread in Go, has the
  step of that call before it (`HasStep`). The second adds that an allocated buffer which
  its caller does not hold belongs to a cancelled task or a method outside `Clean` (`Held`), that
  a caller knows a buffer only from an answer of bytes to its present step, and that a path of
  a clean method stays one (`KnownBuffer`).
- `ErrorsAreReported`: `Spec => []ErrorsReported`. What is left of a method's path is the end of one
  of its paths (`Frames`, from which the steps inherit what all paths of a method have). As long as
  a caller of a reporting method has met an error it is at the step whose answer it was, or has
  raised (`RefusedSeen`). By `NotReporting` every method is reporting that is not in `NoReport`.
- `RepeatedOnce`: `Spec => []NotTwice`. A caller of a repeatable method has changed something once for each
  attempt that Go refused and once more at most; and when it is at that bound (`Spent`) nothing left of
  its path changes anything, or raises unless this attempt has been refused too (`DoneOnce`). Only who has
  raised begins again, and a refused attempt then counts as a failure. By `NotRepeatable` these are
  all methods but three.

The parts of `Program`, each for every value of its constants and beside the other three:

- `SyncClientProofs`, from `SyncAssumption`: `CallbacksReady` (`Spec => []CallbackReady`) needs that what a
  session was connected with is among the handlers of its client, and that its queue and
  the event in hand are of kinds it was connected with (`ClientInv`).
- `ReleaseProofs`, from `ReleaseAssumption`: `Bumped` is monotone and never goes back (`BumpedOrder`),
  which the order of versions spelled out number by number (`Older`) leaves to arithmetic.
  `Ready` says where each tool can be, and that an update that has come to `download.py` carries the version of
  `version.go`, or none. While an update runs, a file it has not come to yet is behind the one before it by
  that update at most, and the text it has made is in between (`FilesOrdered`); by exactly that one
  when none was interrupted (`FilesAgree`). `NeverAhead` and `FilesMeet` follow.
- `LoaderProofs`, from `LoaderAssumption`: as long as nothing was cut off and the downloads that
  overlap are of one version, the file has chunks of that version and holes only, and it is full
  or the download that last emptied it is still there and has left no hole so far
  (`FileInv`). `DownloadsComplete` is the case where no download is left. `BrokenForEver`
  (`Spec => Unrepaired`): whoever still looks at a broken file has no library open (`Stuck`), so
  can only fail.
- `MediaProofs`, from `MediaAssumption`: an operation names its output once, before it uses it
  (`Frame`); the bytes in a file are of those that named it and have not removed it
  (`Owners`), also when their child outlives the call; what was collected is of those that
  chose the same name (`Results`). `OwnResults` and `NothingStays` follow.

Every invariant that a passing run checks is proved, and so are its action properties and the
refinement. Only model-checked: liveness (fairness and ENABLED are outside what TLAPS handles
here), and what the methods of the two clients are: that the lists in `ClientCalls` are right
is evaluated by TLC from tables whose paths are sets of sequences put together by recursion.

## Plan

1. Done: `EventStream`, `Session`, their runs, type correctness and `NoLostWakeup`.
2. Done: the registry and the login (`SessionProofs`), the refinement, the delivery properties and
   `NilOnlyAwake` (`StreamProofs`), for distinct uuids and for uuids reused one after the other.
3. Done: `AsyncClient` and `AsyncProofs`.
4. Done: `Exports`, the methods, `Calls`, `ClientCalls` and `CallsProofs`.
5. Done: `SyncClient`, `Loader`, `Media`, `Release`, checked in `MCProgram` and proved about in a
   module for each.
6. Left: the QR and pair-code callbacks of both clients.

## Not modelled

- The conversions (`encoder.go`, `decoder.go`, `jid.py`): field-by-field copies between generated
  structures. A model of them would be the copies again.
- The messages that the `build_*` methods put together, and the arguments of ffmpeg: data that no
  property tells apart. The calls the methods make for them are in `SyncMethods` and `AsyncMethods`.
- The tables of whatsmeow behind the stores, its sockets and its protocol: outside the
  repository. Two sessions without a JID that get the same device from them are listed as
  a hazard only.
- Simultaneous writes of Go's maps: the runtime ends the process when it sees one, whatever
  the order of the code; `Session` takes one access as one step.
- The rest of the release tools (GitHub queries, comparison of digests), Pillow's arithmetic in
  `calc.py`, enumerations, logging: no state, or input and output without a protocol.
- Generated protobuf code. The fact used of it is that a message without set fields has
  no bytes.
