# A TLA+ specification of pwcpp

pwcpp is a header-only C++ library for writing PipeWire filters. A program
configures an `AppBuilder`, gets an `App` from `build`, and calls `run`; from then
on PipeWire calls back into the library, from the main loop and from its data
thread. This directory holds TLA+ modules that model the library's own logic, TLC
configurations that check them on small instances, and proofs for every value of
the constants, checked by TLAPS.

Paths below are relative to `src/include/`, except where they name a test.

## 1. Inventory

| component | state | operations | talks to |
|---|---|---|---|
| `pwcpp/filter/app.h`, `App` | the handles `loop` and `filter`, the ports, the processor, the parameters | `run`, `quit_main_loop`, `process`, `execute` | PipeWire's main loop and filter |
| `pwcpp/filter/app_builder.h`, callbacks | none of their own | signal handlers, `state_changed`, `param_changed`, `process` | called by PipeWire: the first three on the main thread, `process` on the data thread or the main thread, by the flags of `run` |
| `pwcpp/property/parameters_property.h` | one vector of name and value, shared | `update`, `update_from_pod`, `parameters`, `add_to_pod_object`, `parse` | the callbacks (main thread) and the signal processor (its thread), **without a lock** |
| `AppBuilder`, `ParametersBuilder` | names, types, port definitions, the same shared vector | setters, `add`, `finish`, `build` | the program, before `run` |
| `pwcpp/filter/filter_port.h`, `pwcpp/buffer.h` | a `pw_buffer` on loan from the port | `get_buffer`, `get_pod`, `get_spa_data`, `finish` | the signal processor |
| `pwcpp/midi/parse_midi.h` | index and result array | `parse_midi`, `parse_ump_64` | the signal processor |
| `pwcpp/osc/parse_osc.h` | index and result array | `parse_osc` | the signal processor, the OSC reader |
| `oscpp/client.hpp`, `oscpp/detail/stream.hpp` (vendored) | stream positions, size positions, bundle depth | `openBundle`, `closeBundle`, `openMessage`, `closeMessage`, the arguments | programs that write OSC |
| `oscpp/server.hpp` (vendored) | tag and argument streams | `Packet`, `PacketStream::next`, `ArgStream` | programs that read OSC |
| `oscpp/print.hpp` (vendored) | none | `printPacket`, `printBundle`, `printMessage`, `printArgs` | the reader, by which it walks a packet |
| `property.h`'s `SimpleProperty`, `spa/pod/make_props_pod.h`, `error.h` | none to speak of | one pod, or one error value, in one call | |

What is hard here:

* **Two threads, one vector.** `param_changed` merges into the vector, and walks it to publish
  it, on the main thread while the signal processor reads and updates it on the data thread. An
  append may reallocate it under an iterator or a span, or move the end a search has met.
* **What the graph sees.** The parameters are published from two callbacks, through
  a buffer of 1024 bytes, and not at all in every other state change.
* **The end of a run.** A signal has to get through a busy loop, and the teardown
  has to come after the last callback.
* **A protocol without checks.** The struct of a parameter list alternates names and
  values by position only; both sides may send what the other does not know.
* **A list inside a buffer.** The OSC writer keeps its open bundles as a linked list in
  size fields not yet filled in, and any write can overflow with half a call done.
* **Bounded results.** `parse_midi` and `parse_osc` fill a fixed array from a
  sequence of any length and of mixed content.
* **Memory on loan.** A buffer belongs to the graph, to its port or to the processor, and
  only the calls of the processor decide which; what `parse_osc` returns looks into that
  memory, and so does everything read from it.
* **Two streams.** The reader of an OSC message has a stream of tags and one of data.
  Nothing but the accessors keeps them in step, and each accessor may throw between the two.
* **One builder, many applications.** They share its vector of parameters, to which the builder and
  each of their loops append without a lock, and each of them initialises the library and leaves it.

The correctness of each component, in a sentence: the *vector* never loses, moves,
duplicates or confuses a name, and an acknowledged update has taken effect; what is
*published* is the list of parameters; the *run* ends when it is asked to and
destroys nothing in use; *parse* pairs every value with the name it was sent with;
*parse_midi* returns the messages of the pod, all of them and nothing else, or says
that there are too many; every *buffer* is in one hand and comes back to the graph, and what
is parsed from it stays what it was until then; an *application* has the ports and the
parameters its builder declared and leaves the library as often as it entered it; the OSC *writer* keeps track of the bundles it has open inside the
buffer it fills, and what it writes is what the *reader* reads.

`PROJECT.json` lists every hazard at its line, with the properties that cover it.

## 2. Modules

| module | models |
|---|---|
| `ParameterStore` | what the parameters promise: a map, merged into, updated, published |
| `GatheredStore` | extends `ParameterStore`: what is published is read name by name while updates go on |
| `FilterApp` | `App`, the callbacks and the parameter vector, with their two threads |
| `FilterAppProofs` | the inductive invariant of `FilterApp` and what follows from it; that `FilterApp` implements `GatheredStore` and `ParameterStore`, and when |
| `ParamCodec` | the struct of a parameter list: writing, parsing, merging |
| `ParamCodecProofs` | the pairs of `parse`, the merge and the echo, for structs of every length |
| `ParseMidi` | `parse_midi` and `parse_ump_64` |
| `ParseMidiProofs` | the array is the messages of the pod, for arrays and pods of every size |
| `OscWriter` | `OSCPP::Client::Packet`: bundles, messages, arguments, overflow |
| `OscLayout` | extends `OscWriter`: what a packet looks like, told from the calls that wrote it; the `Size` functions |
| `OscWriterProofs` | the inductive invariants of the list of open bundles and of the layout, and what follows from them |
| `OscReader` | extends `OscLayout`: `OSCPP::Server` and the printing that walks a packet, on what `OscWriter` wrote |
| `OscReaderProofs` | the reader comes upon the calls of the writer, for packets of every shape |
| `AppBuilder` | the configuration, `build` with its failures, several applications of one builder |
| `AppBuilderProofs` | the balance of the library, the ports and the shared list, for any number of applications |
| `PortBuffers` | `FilterPort` and `Buffer`, between the graph and the signal processor |
| `PortBuffersProofs` | one owner per buffer, and outputs as written, for any number of ports and buffers |
| `OscInput` | extends `PortBuffers`: `parse_osc`, and `PacketStream` on the bundles it returns |
| `OscMessages` | extends `OscInput`: `ArgStream` on the messages it returns |
| `OscMessagesProofs` | both implement `PortBuffers`; packets, elements and arguments are what the sender wrote |
| `MCFilterApp`, `MCParamCodec`, `MCParseMidi`, `MCOscReader`, `MCAppBuilder`, `MCPortBuffers`, `MCOscMessages` | the instances TLC checks |

### FilterApp

`pc` is the main thread: `user` before `run`, `loop` between two callbacks, `callback`
inside `state_changed` or `param_changed`, then the three calls of `execute`. `mode`
says where `process` runs: `rt` for `PW_FILTER_FLAG_RT_PROCESS` (the flag of `run()`),
`main_loop` for other flags passed to `run(flags)`. `proc` is the signal processor;
in mode `main_loop` it excludes the other callbacks, in mode `rt` nothing orders the
two.

The vector is `params` with its capacity `cap`. Only growing reallocates and growing
always changes the capacity, so `cap` also names the storage: a `span` or a
`call` remembers the capacity it was made under and dangles when that is no longer
`cap`. `update` is three steps, because another thread may run between them: `UpdateFind` (the
search, whose iterator is the end of the vector it searched when no parameter has the name),
`UpdateCheck` (the test against `end()`, which is read again) and `UpdateStore` (the assignment).
`update_from_pod` is one `MergeNext` per entry for the same reason. Both callbacks end with the
walk of `add_to_pod_object`, one `PublishEntry` per entry, each as it is when its turn comes, and
`PublishEnd`. Assignments through storage that is gone are lost.

The signal processor is the program's. The model lets it do anything it can do through
the reference it is given: take the span, update any name with any value, any number of
times, or nothing.

The names and values of a filter are small sets. The struct in which they arrive is
`ParamCodec`'s subject; `FilterApp` takes the batches it may contain as the constant
`Batches`, the empty one and ones with repeated names included. `Room` stands for the
bytes of the 1024-byte buffer that are left for entries, and `SizeOf` for what an entry takes of
them, by its name and its value. Whether a pod fits (`Fits`) is decided by what was written to
it: values that an update shortens afterwards are not published, and those that it lengthens do not take
back what was.

What the mode `rt` does to these steps is visible in the properties. `IteratorDesignatesName` says
that an update of a name nobody has may pass its test, because the main thread has appended
another name in between, and then writes to that other parameter; and that an update of a known name
may write to storage that is gone. What is published in `rt` may be a list that the store never held:
each entry was read at its own moment.

Abstracted: races inside a step, which are undefined behaviour in the code. An assignment to an
entry, the reading of an entry into a pod and an append are one step each, although an update
and the walk may touch the same string or variant at once; and `find_if` is one step, although
an append may reallocate the vector under it. Also left out are the ports, the user data, and a
`quit_main_loop` that a program calls other than from the signal handlers. The pod of `param_changed` is
assumed to be there.

### ParameterStore, GatheredStore and the two refinements

`ParameterStore` is a map from names to values. A call that is acknowledged has taken
effect, a call on an unknown name is refused, a merge is atomic, and what is published
is a snapshot. `GatheredStore` weakens the last: the values are read into a copy name by name, while
calls go on and merges do not, and the copy is published when no name is missing. `FilterApp` maps
its vector to the map its first entries define, and

* `ImplementsEntries` (of `GatheredStore`): every entry of a batch is a merge of its own, every entry
  of a pod is read on its own;
* `ImplementsBatches` (of `ParameterStore`): a batch is one merge, which takes effect when
  `param_changed` begins (the mapping applies what is still to be merged), so that everything
  published is the store at one moment, after whole batches.

Neither holds unconditionally, and the conditions are the point. `ImplementsEntries`
fails in mode `rt` when a name that was not declared arrives: the append reallocates
the vector between `find_if` and the assignment, `update` returns success and the value
is gone; or it does not reallocate, and a name that is not there is acknowledged. It holds when the
processor runs in the main loop, and when only declared names
arrive; both are proved. It promises no snapshot: `ImplementsBatches` does, and it fails in mode `rt`,
with declared names too, where the processor sees half-merged batches and updates entries of a pod that is being
written; it holds in mode `main_loop`.

### ParamCodec

One action per field of the struct (`ReadKey`, `ReadValue`, `SkipValue`) and one per pair that
`update_from_pod` merges into the vector (`MergeNext`, as in `FilterApp`). Strings and numbers are opaque; the seven
alternatives of `property_value_type` and the SPA types are not. A key that is not a
string leaves `key` uninitialised: the model takes any text. The struct is either one the
remote side sends, well formed or not, or the publication of a vector of parameters
(`add_to_pod_object`), which the graph echoes.

### ParseMidi

One action per control of the sequence (`Control`), the early returns, and the end
(`Return`). A packet is its message type, status byte, data byte and the two halves of
its second word. `get_pod` is `Init`'s choice: no pod, a pod of
another kind, a sequence, or an engaged optional around NULL, which `spa_pod_is_sequence` reads through
(`PodIsNull`).

### OscWriter

The buffer is counted in words of four bytes: everything but a type tag is aligned to them,
and what a buffer holds beyond whole words is never used. A word holds what was
written there (the i-th word of a text, a number, four tags) rather than bytes. One action
per call; a call that writes several words may stop at the points where the code makes a
new check (`cuts`), and whatever it did before it throws stays: the depth and the size
position in `openBundle`, the size position and the address in `openMessage`, the tag in the
argument functions. Buffers are aligned to four bytes, as the code wants them but does not enforce: `reset`
checks the alignment of `&m_buffer` rather than of the buffer (`client.hpp:98`), and the exception that
`putInt32` throws on a buffer that is not aligned (`stream.hpp:134`), in `closeBundle` after `setPos`, is
not modelled. `mem` is the buffer, `sizePosB` the head of the list of open bundles in
it and `chain` a ghost, the stack that list should be. The remaining ghosts are the
program's: what it believes it has open, whether a call has thrown, and the calls so far.

The program is disciplined where the interface has no check: it nests bundles and messages,
writes one packet to a buffer before it calls `reset`, for the same buffer or another, and after a throw only closes what it
has open or resets. It is not disciplined where the code does check. What an earlier packet
left in a reused buffer counts as unwritten, so that a property which holds never depends
on it.

### OscLayout

No state of its own: `OscLayout` says where in the buffer the calls of `OscWriter` leave what
they write. `SizeOf` is what the `Size` functions of `oscpp/util.hpp` say of one call;
`Predicted` adds it up over the calls so far, and so is also the place where the next call
begins. `Depth` counts the packets that are open. `LaidOut` states the format: behind its place, each call has the
words it wrote (`Intact`), each message its tags, and each packet that has been closed inside another
one has its size in the word before it. It is stated for every moment of the construction, not for complete
packets only, and also for messages that get more or fewer arguments than they announced:
the tag too many takes the place of the terminator, and no more than that.

### OscReader

Printing (`oscpp/print.hpp`) is the program that reads all of a packet, by the conversions to
bundle and message, `PacketStream::next`, and the accessor that each tag asks for. `streams` is the
stack of the streams of the calls in progress, outermost first: words for a bundle, words and tags for a
message or an array. Each action is one of those calls: `PrintPacket` and `NextPacket` enter a packet,
`ReadArgument` takes an argument, `ReadArray` and `DropTag` are `array()`, which passes over
the tags up to the bracket that closes it and then hands out what it has passed over, and
`LeaveStream` is the return of a function whose stream is at its end. `seen` is a ghost, the calls
that would write what has been read. Whatever throws in the code makes the reader `failed`; so does reading as a
size or a text a word that holds something else. The writer does nothing while a packet is printed, and goes on
afterwards: with the same packet, or with the next one in the same buffer.

`RoundTrip` is about packets in which every array is closed in its message and every message has the
arguments it announced. The writer checks neither; a message with fewer arguments than announced may really read
back shifted by a word.

### AppBuilder

`given` is what the gate of `build` looks at, `declared` the port definitions, `current` the
vector of the builder's `ParametersBuilder`. `build` is one step, since the program has only
the builder then and nothing else can see what it does half way: refused (`Refused`), crashed
on a handle it does not look at (`BuildCrashes`), or successful with any of its ports missing
(`Build`). A filter that is missing goes unnoticed until `run` unless there are ports to add.
`BuildCrashes` is what dereferencing a NULL loop or filter comes to; the library has been
initialised by then.

An application goes from `built` through `running` and `closing` (filter and loop destroyed)
to `closed`. `run` blocks, so a program needs a thread for each application it runs at once,
and one that is not in `run` to call the builder (`Busy`, `FreeThread`). `MergeBegin` and `MergeEnd`,
`AddBegin` and `AddEnd`, `UpdateFind` and `UpdateStore` are
the operations that append to the shared vector, or break when it is reallocated;
`call` remembers the storage an update found. Applications run in mode `main_loop`;
mode `rt` is `FilterApp`'s subject.

No lock protects the vector, so an `emplace_back` is two steps. `appending` says who is in one, and what
the vector was when it began (`Enter`). When another append has ended in between, what it read is stale, and the
outcome is one of three (`Leave`): both entries are there, the other's is overwritten, or the
program crashes. A race that leaves no trace in the names and the capacity counts as none, and so does a search
or an assignment beside an append.

`OneList` and `OneThreadLosesNothing` are true only with the condition they state, one thread. With two, TLC finds
the entry that is lost (two appends that overlap, of `add` and a loop or of two loops), and
the update that is lost: one application is between `find_if` and the assignment, and the
other application, or `add`, makes the vector they share grow.

### PortBuffers

`graph`, `available`, `held` and `queued` say where each buffer is: with the graph, in what
`pw_filter_dequeue_buffer` will return, in a `Buffer` of the program, in what
`pw_filter_queue_buffer` took back. `chunk` is the content a chunk declares valid: a pod or no
whole pod (`NULL`) in an input, what was appended in an output. Each `Buffer` carries its port,
as in the code, so that a buffer that went to another port would be noticed. The graph offers
and collects at any time, from its own threads. `written` is a ghost: what the program was told
it wrote, per index it asked for.

The program finishes each `Buffer` once and asks for `spa_data` on outputs only (the documentation
says *for writing*; on an input the call would discard what the graph wrote). Memory that is not
mapped makes `get_spa_data` return nothing; the default ports ask PipeWire to map it. What
`Write` does with the pod builder is left to the program.

### OscInput and OscMessages

The signal processor is the program's again. Between two calls it takes buffers, writes,
finishes, parses any input it holds, walks a bundle or reads a message among the packets it
has, in any order; inside a call (`parsing`, `walking`, `reading`) only the graph moves beside
it. What it parsed from a buffer goes out of scope when it finishes that buffer.

`parse_osc` is `ParseOsc` (everything up to the loop), one step per control, and the two
returns. Its undefined behaviour is modelled by its outcomes: a `NULL`
pod in an engaged optional crashes; an OSC control whose value is no byte string leaves `data`
NULL and `length` uninitialised, so that the packet is short and empty or the constructor reads
from NULL; bytes without a NUL among them are printed as a C string, which may read on behind them
(`Misread`, for both). A short packet over NULL passes for a message, and the conversion to one reads through
NULL (`MessageOverNull`).

A packet is its length, its kind, whether a NUL is among its bytes, and for a message its tags and where the sender let the data
of each end. `OscInput` walks a bundle with any sizes in it: a size is an `int32` that becomes a
`size_t`, so a negative one passes the test of the element's stream, whose end wraps around, and
fails in `skip`. `OscMessages` reads a message: a stack of `ArgStream`s, one per array the
program has gone into. An accessor consumes its tag, then its data, and may throw between the two; from
then on the stream may be out of step (`thrown`), and a string or blob it reads has any
length. A program that has caught the exception may go on with the same stream, and into an array
of it; the stream of the elements is then as little to be trusted as the one it comes from. Values are left out, and with them what the conversions between `int32` and `float32`
do to them; a number of either type satisfies either accessor. Only the tags the reader knows, and `T`
for those without data, occur: `dropAtom` passes over tags of other types without their data.

## 3. Runs

| run | instance | checks | shows |
|---|---|---|---|
| `filterapp_open` | 3 names, 2 values, values of 1 and 2 bytes, a duplicate declared, capacity 2, room for 4 bytes, both modes | `TypeOK`, `NoNewDuplicates`, `DanglingOnlyByGrowth`, `IteratorDesignatesName`, `PublishedNames`, `TeardownOrder`, `NamesStable` | the vector, the publication and the teardown are safe under every interleaving |
| `filterapp_closed` | 2 declared names, batches that name only them, room for 3 bytes, both modes, fairness | `SpansStayLive`, `ImplementsEntries`, `SignalEndsRun` | with declared names the data thread is safe too; a signal ends the run |
| `filterapp_batches` | as `filterapp_open`, mode `main_loop` | `ImplementsBatches` | batches are atomic and what is published is a snapshot when the processor runs in the main loop |
| `param_codec` | every struct of at most 5 fields of 6 kinds; the publication of every vector of at most 3 parameters, 12 possible entries | `TypeOK`, `Aligned`, `PairedAsSent`, `EchoChangesNothing` | `parse` never mixes up names and values; an echo changes nothing |
| `parse_midi` | `MAX_N` = 2; sequences of at most 3 controls of 7 kinds; single packets with all 256 status bytes; no pod, NULL, another pod | `TypeOK`, `FilledInOrder`, `ReturnsEveryMessage` | the array is the pod's messages, in order, all of them |
| `midi_too_many` | the same | `TooManyMeansTooMany` | **violated**: a finding |
| `midi_test_control` | the pod of `test/test_buffer.cpp` | `MidiControlIsParsed` | **violated**: a finding |
| `osc_packets` | buffers of 11 and 16 words, packets of at most 8 calls, messages that announce 1 or 4 arguments, all argument types; each packet that is closed is printed | `TypeOK`, `ListIsStack`, `SizeAssertionUntilThrow`, `SizesPredicted`, `LaidOut`, `RoundTrip` | the open bundles stay linked through every nesting and overflow; packets have the predicted sizes, what is written stays, and packets read back as written |
| `osc_overflow` | the same | `SizeAssertion` | **violated**: a finding |
| `osc_messages` | two input buffers, one without data, one output buffer; pods of 6 kinds, with whole and broken messages, bytes without a NUL, a value that is no byte string and a bundle with elements of 5 sizes; arrays of size 0 and 2; fairness | `TypeOK`, `ArgumentsInStep`, `OneOwner`, `OutputAsWritten`, `ViewsStayValid`, `NewestPacketIsReturned`, `ElementsInside`, `BuffersComeBack` | buffers have one owner and come back; packets, elements and arguments are what the sender wrote |
| `port_data_index` | one output buffer with two data blocks | `OutputAsWritten` | **violated**: a finding |
| `app_builder` | 2 applications, programs of 1 and 2 threads, 2 parameter names, 2 port names, 2 ports, appends to lists of at most 1; symmetry of the names | `TypeOK`, `LibraryBalance`, `PortsAsDeclared`, `OneList`, `OneThreadLosesNothing` | builds, runs and teardowns keep the library balanced, ports and parameters as declared |

Bounds. In `filterapp_open` the vector starts full (two entries, capacity two), the first
new name doubles it and the second is appended in place, so that appending with
and without reallocation, updating in place, a repeated name inside a batch and a name
declared twice all occur. Three entries fit in four bytes when two of their values are the short one, four only
when all are, so that a list stops fitting by an append or by a longer value and fits again by a shorter one; two
values also tell an old value from a new one. The vector stops growing by itself once all names are in it, so no
counter needs a bound. In `filterapp_closed` the batches repeat a name and leave one out, and two long values do not fit.
Five fields are two pairs and a key left over, enough for a dropped value before a
kept one; three parameters are enough for an unknown type between two known ones. With
`MAX_N` = 2, three controls reach the full array with another control behind it. The
sweep of status bytes crosses every end of every range, and data bytes 127 and 128 the
mask.

Eight calls (`MaxCalls`) and 16 words reach three bundles inside each other, or one around a
message with four arguments, whose tags take two words and end in the second; four
arguments are enough for an array inside an array. An address
of two words, a blob of five bytes and one of each other argument tell the positions
apart. The fourth bundle overflows, or in 11 words the third bundle and most messages inside one, at each of the
points where a call can stop. `NextPacket` and `Enter` are never seen to throw there: a
packet that has been closed has the sizes and the tags it should have, announced arguments or not, which
is what `LaidOut` says.

In `osc_messages` the bundle has twelve bytes for elements: sizes 0, 4 and 8 fill them exactly or
leave a part, 6 leaves the next size unaligned, -4 is the negative one. The two messages are a whole
one with an array inside an array between other arguments, and one whose array is not closed and
whose last argument is cut off; the controls of another type, without a value and before the
last stand around them. A buffer without data takes the early return of `get_pod`. One payload
per block (`MaxWrites`) and one output tell cleared from left over. `port_data_index` has the second block that
separates index 0 from index 1. In `app_builder` two applications are what it takes to
share; the vector is reallocated by its first and its second parameter, which come before, between or after the builds
(`MaxParameters` bounds its length when an append begins, so that appends that overlap reach three).
Two ports (`MaxPorts`, both directions together) have an order, and one may be
refused before or behind the other. One of the three texts is also set to an empty one (`Emptied`); the gate
treats the three alike. No property names a port or a parameter, so both kinds of names are symmetric.

`CHECK_DEADLOCK` is left on everywhere: a filter that has returned from `run`, a parse
that is over and a program that has crashed stutter explicitly; a packet can always be reset.

### Fairness

`SignalEndsRun` and `BuffersComeBack` need it. For the first, `FilterApp`'s `FairSpec` assumes that neither thread stops inside a
function (weak fairness of the steps inside a callback, a walk included, and of the teardown), that the
signal processor returns, that the loop gets to a signal that stays pending and tests its
flag although other callbacks keep interrupting, and that `pw_filter_destroy` gets its
turn on the data loop between two calls of the processor. The last four are strong
fairness: each such step is enabled again and again, not continuously, because callbacks
come in between. The loop dispatches the sources that are ready in turn and tests its flag
after each round; the data loop serves the destruction as one of its sources. The remote
side, the graph's state changes and the signals themselves are under no fairness.

For `BuffersComeBack`, `OscMessages`' `FairSpec` assumes that the processor does not stop inside
`parse_osc`, a walk or a message (weak fairness; each of them ends, because the
controls, the bytes and the tags do, and a program leaves a message at some point), that it asks its
ports for buffers and finishes what it holds, as the documentation of `Buffer::finish` demands of
it (strong fairness, since both are disabled whenever it is inside one of the other calls), and
that the graph collects what is queued. That the graph offers a buffer at all is not assumed.

## 4. Proofs

`FilterAppProofs` proves, from the assumptions named in `FilterApp` (the declarations and
batches are sequences of entries, the capacity holds the declarations, `Room` and the sizes are numbers,
`Modes` are among the two), for every set of names and values:

| theorem | property |
|---|---|
| `TypeCorrect` | `TypeOK` |
| `NamesStayUnique` | `NoNewDuplicates` |
| `SpansDangleOnlyByGrowth` | `DanglingOnlyByGrowth` |
| `IteratorsStayValid` | `IteratorDesignatesName` |
| `NamesArePublished` | `PublishedNames` |
| `TeardownIsSafe` | `TeardownOrder` |
| `NamesNeverMove` | `NamesStable` |

They rest on one inductive invariant, `IInv`. None of the properties is inductive alone:
`TeardownOrder` needs to know that the processor is idle whenever a handle is gone and that
it blocks the main loop in mode `main_loop` (`LifeInv`); a span or an iterator dangles only
by growth because the vector never exceeds its capacity and capacities only rise
(`StorageInv`); `IteratorDesignatesName` needs both, the fact, proved as
`MergeProperties`, that a merge leaves every name where it was, and, from the search on, that the iterator is the first
parameter of its name or the end of a vector that only rises (`IterInv`); `PublishedNames` needs the names of a pod to be
those of the entries it has passed (`PodInv`). `NextIInv` shows the
preservation: one lemma per kind of step, then the cases of `Next`.

Its second half proves `Spec => ImplementsEntries` twice, each under the condition that
makes it true: `MainLoopImplementsEntries` for programs that never run in mode `rt`, and
`DeclaredNamesImplementEntries` for remote sides that send only declared names. Both come
from one lemma, `StepRefines`: a step with `NoLoss` (a pending assignment writes the live
vector) is a step of `GatheredStore` or leaves it unchanged. `NoLoss` follows from
`IInv` in the first case and from `ClosedInv` (the capacity and the names are those of the
declarations) in the second. `DeclaredNamesKeepSpans` proves `SpansStayLive` from the same
invariant.

`MainLoopImplementsBatches` proves `Spec => ImplementsBatches` for programs that never run in mode `rt`.
The map of the abstract store is `WholeMap`: the vector, overridden by the updates still to be
merged. A merge leaves it as it is, because the first update may be applied before the
others (`OverriddenByHead`); every other step that the abstract store can see happens when no
updates are left, since in mode `main_loop` the processor is idle inside a callback (`LifeInv`) and
updates remain only inside one (`BatchInv`); for the
same reason the pod being written is the vector as it is (`ExactPod`). The last update of a name exists by well-foundedness
(`LastUpdate`).

`ParamCodecProofs` proves, for any texts, numbers, structs and vectors:

| theorem | property |
|---|---|
| `CodecTypes` | `TypeOK` |
| `ParseStaysAligned` | `Aligned` |
| `ValuesKeepTheirKeys` | `PairedAsSent` |
| `EchoIsHarmless` | `EchoChangesNothing` |

`PairedAsSent` speaks of the increasing sequence of positions whose values are understood, rather than of
a selection, so that no induction is needed: the invariant (`Listed`) carries that sequence along
and each value that is understood adds one position to its end. A key waiting for its value is the last
field read. `EchoIsHarmless` follows step by step: a pair of the publication is a parameter
(`PublicationOfPairs`), its value decodes to itself (`WrittenIsRead`), and merging it finds
that parameter and no other (`MergeOfOwnEntry`).

`ParseMidiProofs` proves `MidiTypes` (`TypeOK`), `ArrayIsFilledInOrder` (`FilledInOrder`) and
`EveryMessageIsReturned` (`ReturnsEveryMessage`), for every `MAX_N` and every pod. The invariant says
that `rest` is the end of the pod's controls and that the array lists the messages before it
(`IsListing`); `Decoding` shows that a control is decoded exactly when it is a message of one of
the three kinds, for every status and data byte. That the listing is a bijection gives the number of
messages.

`AppBuilderProofs` proves, for any number of applications, threads, ports and parameters:

| theorem | property |
|---|---|
| `BuilderTypes` | `TypeOK` |
| `LibraryIsBalanced` | `LibraryBalance` |
| `PortsStayAsDeclared` | `PortsAsDeclared` |
| `OneListForAll` | `OneList`, of programs of one thread |
| `OneThreadIsSafe` | `OneThreadLosesNothing` |

`OneList` needs to know that there is one vector, the builder's, and that with one thread whoever is in an append read it as
it still is (`ListInv`). `OneThreadLosesNothing` needs that
no more applications are inside `run` than there are threads and that only they update
(`LifeInv`): with one thread, whoever is between `find_if` and the assignment is the only one that
runs, and nobody else can make the vector grow (`AloneWhenBusy`, `WhoIsBusy`). Balance and threads are
numbers of applications, which change by one when one application changes its stage (`StageChange`).

`OscWriterProofs` proves, for every capacity, every set of texts and arguments and every number
of calls, `PacketTypes` (`TypeOK`), `OpenBundlesAreListed` (`ListIsStack`) and
`ClosedBundlesHaveHeaders` (`SizeAssertionUntilThrow`). `ListIsStack` is not inductive: that a
write leaves the list alone needs the positions in the list to rise and to lie below `pos`
(`ListInv`), and, while a message is open, below its tags and its size field
(`MessageInv`), since those are written behind `pos`. `ListInv` also says that, as long as
nothing has thrown, a bundle's header lies between its size field and `pos`, from which the
assertion follows. One lemma per call; `StackUntouched` serves all that leave the list
alone.

The same module proves the layout, with the same generality: `SizesArePredicted` (`SizesPredicted`) and
`PacketsAreLaidOut` (`LaidOut`). Both are part of one invariant, `LayoutInv`:

* `GrammarInv` and `DepthInv`: the calls are those of one packet. Arguments and the end of a message
  follow the message or an argument, what the calls leave open is what the program has open, and nothing
  follows the outermost packet.
* `OpenInv`: each position in the list of open bundles is that of the size field of a call that is open. That
  is how the size that `closeBundle` fills in belongs to the bundle that is closed.
* `OpenMessageInv`: the tags and the size position are those of the last message, and there are as many tags as calls
  behind it.
* `CountsInv`: unless a message was miscounted, a message that is closed has the arguments it announced.

A call writes at `Predicted[Len(log)]` and behind, into the tags of the open message, or into a size field; `Places` and
`Geometry` say that these lie apart from each other, and `LaidOutGrows` and `IntactStays` conclude that what was there stays.
`Predicted` and `Depth` are defined by recursion over the calls. The library's induction theorem cannot be used (it has an
operator as parameter); every set of naturals that is not empty has a least element
(`LeastNatural`, from well-foundedness), and where induction is needed, the least counterexample of a set that is
written down serves instead: that the recursion defines a function (`SumsExist`), that the sums of a longer
log agree with those of its prefix (`SumsAgree`), and that sums of numbers rise (`SumsMonotone`).

`OscReaderProofs` proves `WrittenIsRead`: `ReaderSpec => []RoundTrip`, for any buffer, texts and arguments,
and packets of any length and nesting. To each stream of the reader belongs a frame: the
call that opened what the stream is about, the call that closes it and the last call that has been read from
it. `ReadInv` says that, while a packet as promised is read, there are such frames (`Walk`): the position, end and tags of each
stream are the places of its calls in the layout, each frame lies inside the one below, and `seen` is the calls up to the
last one read. Inside `dropArray` (`IsDropping`) the level is the number of brackets open since the array began. What a step of the
reader finds is what `LaidOut` says is there: `TextIsRead`, `ArgumentIsRead` and `TagIsRead` for
words and tags, `PacketIsEntered` for a packet, `NextPacketFits` for its size. Where a message, an array
or a bundle ends follows from the numbers of packets and brackets that are open, by the least call that closes it
(`MessageCloses`, `ArrayGoesOn`, `BundleCloses`). With the words as `LaidOut` has them no call of the reader throws, whatever
the packet contains. `PrintingChangesNothing` (`ReaderSpec => Spec`) carries all that is proved of packets
being written over to their printing, which is the specification that `osc_packets` runs.

`PortBuffersProofs` proves, for any ports, buffers, numbers of data blocks and pods, and any program
that uses them:

| theorem | property |
|---|---|
| `BufferTypes` | `BuffersTypeOK` |
| `BuffersHaveOneOwner` | `OneOwner` |
| `OneBlockIsAsWritten` | `OutputAsWritten`, when every output has one data block |

`OneOwner` is not inductive: that taking the first buffer of a queue leaves no second copy of it needs
each queue to hold a buffer once and only buffers of its port (`QueuesInv`), and that finishing puts
it into one queue, of its own port, needs `HeldInv`. `HandsInv` says who
has a buffer; the lemmas `Appending` and `Removing` are about the queues. The condition on
`OneBlockIsAsWritten` is the one run `port_data_index` shows to be needed.

`OscMessagesProofs` is about the processor of `OscInput` and about the one of `OscMessages`, which reads
messages too. Both are programs `PortBuffers` is about:

| theorem | of `OscInput` (`Spec`) and of `OscMessages` (`MessagesSpec`) |
|---|---|
| `InputImplementsBuffers`, `MessagesImplementBuffers` | `BufferSpec`, and with it `OneOwner` (`InputsHaveOneOwner`) |
| `PacketsStayValid` | `ViewsStayValid` |
| `ElementsLieInside` | `ElementsInside` |
| `InputTypes` | `InputTypeOK` |
| `OnlyNewestIsReturned` | `NewestPacketIsReturned` |
| `InputPropertiesRemain` | the four properties of `OscInput`, in `OscMessages` |
| `MessageTypes` | `TypeOK` of `OscMessages` |
| `ArgumentsStayInStep` | `ArgumentsInStep` |

The invariant of the input has one part per subject. `ViewInv`: the buffer is held as long as there are
packets, the controls still to be read are the tail of the pod's, every packet is a control
at its place, and by `OneOwner`'s invariant the graph fills only buffers nobody holds.
`WalkInv`: the last element ends at or before the position of the walk, whatever size the
packet announces. `NewestInv`: only the first place of the array is filled, with the last OSC control among
those that have been looked at.
A step that reads a message is a step these leave alone (`ReadingStep`), so one lemma per part serves both
programs.

`StreamsInv` adds that every stream of a message is within its tags and its data and, until it
throws, in step, and that the stream of an array ends where the data of its last element does.
Numbers of bytes come from where the sender let the data end, which grows with the tags (`Offsets`). What
`array` hands out is what `dropArray` has passed over: `CloseIs` shows, from the numbers
of brackets and by the least position where they balance, that the closing bracket exists and
that the tags before it belong to the array, for arrays of every depth.

Every invariant and action property of a passing run is proved. Model-checked only are the liveness
properties `SignalEndsRun` and `BuffersComeBack`, because liveness under fairness is beyond the proof
system. `ImplementsEntries`, `ImplementsBatches`, `SpansStayLive` and `OutputAsWritten` are proved under the
conditions named above, which are those of the runs; `RoundTrip` and `OneThreadLosesNothing` state their conditions themselves.

Assumed are only the assumptions on the constants, named in the modules that declare them, which TLC evaluates on
every run. `DroppingAssumption` of `OscReader` says that `None` is none of the values of `dropping`.

## 5. Findings

* `pwcpp/midi/parse_midi.h:78` refuses a pod with exactly `MAX_N` messages when any other
  control follows them; `pwcpp/error.h:45` says the error means *more messages than
  expected* (run `midi_too_many`).
* `pwcpp/midi/parse_midi.h:82` skips the `SPA_CONTROL_Midi` control that
  `test/test_buffer.cpp:30-54` expects to be parsed (run `midi_test_control`).
* `oscpp/client.hpp:117-125` counts a nested bundle and moves the size position to it before it
  writes its header. When the header overflows, closing the bundle around it fails the
  assertion of `client.hpp:142` or, without assertions, leaves that bundle unsized (run
  `osc_overflow`).

* `pwcpp/buffer.h:87-91` returns and empties the first data block of a buffer whatever index
  `get_spa_data` is given; `pwcpp/buffer.h:121` says *at the given index* (run
  `port_data_index`).

Not disagreements with any document, but worth knowing: `parse_osc` never moves its index, so that
it returns the last OSC message of a pod and no other (`NewestPacketIsReturned`), and reports
too many messages only for an array of size zero; `get_pod` returns an engaged optional around NULL
for a chunk without a whole pod, and `parse_midi` and `parse_osc` dereference it (an outcome of the
models); a builder's applications lose updates and entries to each other when they run on
different threads (`OneThreadLosesNothing`, `OneList`); a connection that fails leaves filter, loop and library as they are.

Not a disagreement either, but shown by the conditions on `ImplementsEntries`: in
mode `rt`, the default of `run()`, an update the processor was told succeeded is lost when a
new name arrives at the same time, or is written to that new name (`IteratorDesignatesName`).

## 6. Plan

Nothing is left of the plan that the proof system can reach. What would add to it is in section 7: texts
without a terminator, and packets from elsewhere for the whole walk that `OscReader` makes, whose conclusion could only be that it throws
or stays inside the packet; `OscInput` and `OscMessages` show that for its parts.

## 7. Not modelled

* Byte order in `oscpp`, and the format of what is printed: no state. `make_props_pod`,
  `SimpleProperty` and the error constructors: one call each. Test frameworks, tests, examples and
  build files: not part of the library.
* Of the OSC writer: `put` and `putArray`, which are sequences of the modelled calls. Of the reader: the
  stream operators, which are sequences of the modelled accessors, and texts without a terminator.
* Data races inside one step (the abstractions of `FilterApp` and `AppBuilder` above), exceptions that leave the signal
  processor through PipeWire's C frames, a `Buffer` that is copied and finished twice, a
  builder that is copied: misuses no code or document of the repository speaks of.
