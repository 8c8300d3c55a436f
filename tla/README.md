# A TLA+ development of tighttpd

tighttpd is a small HTTP/1.1 server: one process and, in the default build, one
thread, that multiplexes its connections with `epoll`, asks a Python script for
the configuration of every request, and answers with files, generated pages or
the output of CGI scripts. This directory holds TLA+ modules that model the
server, TLC configurations that check them on small instances, and theorems
with proofs checked by TLAPS. Line numbers refer to `src/src/` of the
repository's tree (`protocol.cpp`, `protocol.h`, `main.cpp`, `socket.cpp`, ...).

## The system

| component | code | state | operations |
|---|---|---|---|
| event loop, task queue | `main.cpp:208-425` | epoll set, batch of events, `taskq` | `epoll_wait`, accept loop, dispatch of `Read`/`Write`, `Poll` results, `epoll_ctl`, `delete`, processing of the queue |
| connection state machine | `ClientProtocolHTTP`, `protocol.cpp:537-937` | `state`, `sflags`, `psp`, `method`, `content`, `connection`, `status` | constructor, `Poll`, `Reset`, `Clear`, `Accept`, `Configure`, `Process` |
| request stream | `protocol.cpp:82-132` | `state`, `buffer`, `postl` | `Read`, `Reset`, `CheckPipeline` |
| response and data streams | `protocol.cpp:140-284` | `state`, `buffer` | `Write`, `Reset`, `Generate`, `Append` |
| file stream | `protocol.cpp:286-339` | `state`, `pf` and its position | `Open`, `Write`, `Reset` |
| CGI stream | `protocol.cpp:341-535` | child, two pipes, `buffer`, `feedback`, `empty`, `datac`, `datal`, `ts` | `Open`, `Read`, `Write`, `Reset` |
| sockets | `socket.cpp` | descriptors | `Listen`, `Accept`, `Recv`, `Send`, `Close`, `Identify` |
| parsing helpers | `protocol.cpp:939-1023` | none | `ParseSegments`, `ParseHeader`, `StrToUl`, `FindBreak` |
| page generation | `pagegen.cpp` | none | error page, directory listing |
| configuration interface | `main.cpp:50-206`, `main.h:52-94` | settings of a client | `Setup`, `Accept`, `ResetConfig` |
| task graph | `main.cpp:349-400`, only with `USE_MT` | TBB nodes | parallel `Accept`/`Configure`/`Process` |

**How they interact.** The loop knows a client only through `GetStream()`,
`GetFlags()`, `Read`/`Write` and `Poll`. A client says with `sflags` whether it
wants to read, to write or (0) to be left alone while its request waits in
`taskq`; the loop copies that into epoll whenever it changed. When the selected
stream's `Read` or `Write` returns true the loop calls `Poll`, which moves the
state machine on and asks for one of three things: nothing, processing
(`POLL_RUN`), or deletion (`POLL_CLOSE`). After every batch the queue is
emptied: `Accept` parses, `Configure` asks Python, `Process` opens a file,
builds a page or starts a script and selects the stream to drive. Streams share
buffers: `Open` and `Read` of the CGI stream change `postl` and the buffer of
the request stream, and `Write` of the CGI stream takes its status line from
the response stream.

**What is hard.** Two copies of the flags (client, epoll); a batch holding
pointers to objects that an earlier event may delete; requests sent ahead and
cut into reads anywhere; sends that take a part, nothing, or fail; a transfer
made of several streams; signed and unsigned lengths; members never
initialised; a child process that is slow, silent, or ends too early;
descriptors and processes to be released on every way out. `PROJECT.json` lists
these as hazards, each at its line and with the properties that cover it.

**What makes each component correct.** Loop: epoll and flags agree, queue and
batch hold the right clients, each request is processed once and in order, and
is answered. Connection: the stream driven was prepared; requests and responses
keep their boundaries; nothing is left for the next request. Streams: success
means that all was sent; nothing is sent twice. CGI: the script and its pipes
are released, and its transfer ends.

## Modules

| module | what it models |
|---|---|
| `Streams` | the streams for requests, responses, pages and files: each method an operator from the stream and the results of its system calls to an outcome |
| `CgiStream` | the CGI stream, in the same style |
| `HttpClient` | `ClientProtocolHTTP`: the client record and `Reset`, `Clear`, `Poll`, `Accept`, `Process` |
| `EventLoop` | `main.cpp`: the state machine that composes the clients, epoll, the queue and the remote ends; invariants and liveness |
| `Transfer` | one stream alone, `Write` called until it returns true |
| `Parsing` | `FindBreak`, `ParseHeader`, `ParseSegments`, `StrToUl` and uri decoding on texts, byte by byte |
| `ResponseText` | `AddHeader`, `FormatHeader`, `Generate`, the pages of `pagegen.cpp`, and `Process` as far as it makes text |
| `RequestText` | one connection as bytes: `Read`, `Accept`, `Process`, `Reset`, `CheckPipeline` over `Parsing` and `ResponseText`; beside it what a request means by its structure (RFC 3986, 5.2.4 for dot segments) |
| `CgiPipes` | the server and several scripts as processes: pipes with capacities, blocking writes, inherited descriptors, kill, zombies, `fork` that fails |
| `TaskGraph` | the task queue in the build with `USE_MT`: nodes, edges, worker threads, the main thread |
| `Service`, `Delivery`, `Offload` | abstract specifications: what the server promises of connections and requests; what `Write` promises of a transfer; what the loop gets from a round of the graph |
| `MCEventLoop`, `MCTransfer`, `MCRequestText`, `MCCgiPipes`, `MCTaskGraph` | instances for TLC |
| `StreamProofs`, `EventLoopProofs`, `ExchangeProofs`, `TransferProofs`, `RequestTextProofs`, `RequestProofs`, `CgiPipesProofs`, `TaskGraphProofs` | proofs |

**State.** A client is a record with the members that decide what the object
does, the five streams (`req`, `res`, `data`, `file`, `cgi`), the undefined
operation it ran into (`fault`), and four history fields the code does not have:
`owed`, `lost`, `drift`, `failed`. `EventLoop` adds `pc` (waiting, handling
the batch, working through the queue), `life` of each connection, `interest`
(what epoll was told), `events` (what is left of the batch), `taskq`, `wire`
(what the remote end has still to send) and `peer`.

**Actions.** One per turn of a loop of `main.cpp`: `EpollWait`,
`AcceptClient`, `AcceptRefused`, `AcceptDone`, `HandleRecv`, `HandleSend`
(an event from `Read`/`Write` through `Poll` to `epoll_ctl` or `delete`),
`EventsDone`, `RunTask` (`Accept`, `Configure`, `Process`, `epoll_ctl`, `pop`)
and `TasksDone`; and `Connect` and `PeerClose` of the environment. The thread
runs an event without interruption, so no finer steps exist; what interleaves
is the environment, the choice of the batch and of the event within it, and the
results of system calls. The order of a batch is not specified by epoll, so
`events` is a set.

`CgiPipes` refines what `HttpClient` does in one step where it blocks: `Open`
and `Receive` end in a `write()` that takes several steps (`WriteOn`,
`WriteDone`), during which nothing else of the server runs (`Free`) while the
scripts do (`ScriptReads`, `ScriptSeesEnd`, `ScriptWrites`, `ScriptExits`).
`Forward`, `Flush`, `SendAgain`, `SendFails`, `Finish` and `ScanNothing` are the
outcomes of `StreamProtocolCgi::Write` (a send that takes all or a part, one behind
the end of the output, EAGAIN, an error, the empty send at the end, no output),
`Aborted` the end of the connection in the middle of a body. A child keeps the
ends of pipes and the sockets that are open when it is forked (`Forked`).

`TaskGraph` has an action for each thing a thread does by itself: the main
thread's `MakeEdge`, `Activate`, `Return`; the source node's `Take`, `PassOn`
and `Expire`; and `Begin` and `End` of a node's body. The TBB library is
modelled as `main.cpp` relies on it: a classic `source_node` is active from its
construction and may run as soon as it has a successor; a node of concurrency 1
holds further items back; a result without a successor is discarded.

`RequestText` works on sequences of bytes (`Byte`), in which a word without
significant characters ("GET", "Host") counts as one byte. The loops of the
decoding and of `ParseSegments` are functions over the variables of the loop,
with one turn as an operator (`DecodeTurn`, `Turn`). `Receive` cuts at any of
`Reads` and gives up above `RequestLimit`; `RunTask` is `Accept`, `Configure` and `Process` for any of `Answers`;
`Finish` is the end of the response.

**Abstraction of data.** In the modules around `EventLoop` bytes are counted in units. A request is a sequence
of tokens (request line, header fields, the CRLF CRLF, pieces of body), each at
least four bytes; `recv` cuts between tokens. Only the size of a response, page
or file matters; of a script's output, where the first double CRLF ends. What
`Accept` finds in a header (status, method, keep-alive, Content-Length) is a
field of the request line's token; what the configuration and the file system
say is one element of `Configs`, chosen anew for every request. Comparisons of
`ssize_t` with `size_t` keep the conversion (`SizeT`, modulo `SizeModulus`,
which stands for 2^64).

**Undefined behaviour.** Operands for which C++ defines nothing set `fault` and
`pc = "undefined"`, which ends the behaviour: an erase past a buffer, a range of
negative length, a scan of a buffer too short, i/o on descriptors never opened.
The members the constructors leave uninitialised (`postl`, `datac`, `datal`)
start with any value of `Garbage`.

**Assumptions.** SIGPIPE is ignored (`Py_Initialize` does so), a send to a
connection that is gone reports an error; outside `CgiPipes` `fork` succeeds and
a write to a script's pipe completes; `pipe` succeeds; the configuration script
raises no exception; a connection is identified for good (descriptors are not reused in the model);
`accept4` may fail with connections left in the backlog (`AcceptDone`), which epoll
reports again.

## Runs

Constants common to the runs: `SizeModulus = 1000` (128 in `request_text` and
`header_stale`), above every size that occurs. `CHECK_DEADLOCK FALSE`: a server without connections waits for ever,
a connection that is closed stays closed, and a transfer that is done stops.

| run | instance | shows |
|---|---|---|
| `connections` | 1 connection, `Chunk` 2, request limit 4, header 3 units, EAGAIN possible after a report, `Garbage` {0, 3}; ten byte streams (GET, HEAD, POST with and without Content-Length and with a body longer than the buffer, refused versions and methods, two requests in a row, an oversized one) and all answers; 95,000 states | `TypeOK`, `StreamReady` (the driven stream was prepared), `IdleClean` (nothing of a request is left for the next), `Conservation` (every unit announced was accepted, is held, was dropped by a stream, or is the difference between `st_size` and the file), `ErasesInside` (a request is erased inside its buffer, with two named exceptions) |
| `event_loop` | 2 connections, batches of up to 2, two byte streams with sent-ahead requests and a POST, a bodyless answer and a script; symmetric in the connections; 390,000 states | `EpollInSync`, `QueueExact`, `BatchAlive`, `ImplementsService` |
| `pipelining` | 1 connection, nine streams of up to three requests, complete or cut off, reads of 1 or 2 tokens, header of 3 units over chunks of 2; answers from generated buffers and a script; fair; 8,300 states | `RequestBoundary`, `FramingKept`, `Served`, `Reaped` |
| `turns` | 2 connections, batches of one, a script of one unit or a truncated file; fair; 4,900 states | `Served`, `Reaped`: neither starves the other |
| `transfers` | each stream alone: buffers of 1 to 25 units in pieces of any size, files of 0 to 25 units and scripts of 4 to 6 units (header ending in unit 1 to 4) in whole chunks of 3; 2,800 states | `ImplementsDelivery` (with `TypeOK`), `SuccessReported`, `Ends` |
| `request_text` | 1 connection: all 820 uris of up to four pieces (segments, dots, escapes, cut escapes, `?`), ten sets of headers, Content-Lengths with white space, signs and rubbish, five pipelines of three requests, one of them above the limit of 50 bytes; reads of 1 to 40 bytes; ten answers; a format buffer of 12; 57,000 states | `Contained`, `RequestsTaken`, `ResourceMeant`, `LengthRead`, `RedirectEnds`, `ResponseFramed`, `ConnectionAgrees`, `ScanInBounds` |
| `task_graph` | queues of up to 3 clients, two of which share a `ClientInterface`; fair; 61,000 states | `SerialAlone` (with `TypeOK`), `OwnAnswer`, `ImplementsOffload`, `Returns` |
| `cgi_pipes` | 2 connections, pipes of one unit, one or two processes allowed, five kinds of request and script, sends of any part and EAGAIN; fair; 160,000 states | `InputWhole`, `ResponseWhole`, `PipesClosed`, `OwnKill`, `WriteReturns`, `Released` |

Four more runs end in a violation, each where the code does something else than
its comments say (`PROJECT.json`, "findings"):

| run | property | what happens |
|---|---|---|
| `file_short_send` | `Complete` | `fseek(pf,SEEK_CUR,len-res)` has its arguments exchanged; after a short send the rest of the chunk is skipped (`protocol.cpp:306`), and the transfer ends with `STATE_SUCCESS` all the same |
| `script_get` | `ScriptReleased` | the write end of a script's input pipe is closed only where a body came (`:468-472`, `:515-529`) |
| `post_refused` | `RequestBoundary` | the body of a POST refused with 405 is parsed as the next request (`:761`, `:121`) |
| `header_stale` | `RefererOwn` | a request without a Referer (Cookie, User-Agent, Accept...) is given that of an earlier request of the connection (`:710-731`) |

The passing runs stay clear of these, or name them as exceptions in their
properties: `pipelining` contains no refused POST followed by a request on a kept
connection; `transfers` gives files and scripts whole sends (`AsBorne`);
`connections` allows short sends and EAGAIN everywhere, but counts what a
stream drops in `lost`, so that `Conservation` shows that these places are
the only ones where units disappear. `IdleClean` says nothing of a script of a
client that was deleted; `ScriptReleased` does.

**Exceptions are necessary.** Where a property excepts something the code does,
TLC finds it violated without the exception:

- `ErasesInside`: after a 413 `postl` is stale or uninitialised (`:646`), and
  `Open()` puts the length of the body in place of its end in the buffer (`:531`).
- `WriteReturns`, `Released`: a script that fills its output pipe before it reads
  a body larger than its input pipe waits for the server, which waits for it
  (`:527`, `:446`). With it every other connection waits.
- `Released`: the input of a GET's script that reads is never closed (the finding
  `script_get`, here for the script); a remote end that neither sends its body
  nor leaves is never given up (there is no timeout); one that leaves in the
  middle of its body leaves a script whose output nobody reads (`:565`); a script
  without any output makes `FindBreak()` scan an empty buffer (`:378`).
- `ResponseWhole`: after a short send of a script's output `Write` reads on before
  the rest is gone, and what it reads then is lost (`:356`, `:396-406`, against the
  comment at `:394`). The property says that this, exactly, is missing.
- `PipesClosed`: the input of a script without a body (the finding `script_get`),
  and the output of one whose remote end left in the middle of the body (`:565`).
- `SuccessReported`: a file of a multiple of 4096 bytes, and every script, ends with
  an empty send, whose zero is taken for the end of the connection: whole as they
  are, they report `STATE_CLOSED`, "socket closed by remote" (`:300`, `:409`,
  `protocol.h:55`). `Poll` does not look at the state of the stream there (`:568-617`); the property
  states which transfer reports what.
- `OwnKill`, `ResponseWhole`: after a failed `fork()` the process of -1 is
  killed, which is every process the server may signal (`:469`).
- `OwnAnswer`: two clients that share a `ClientInterface` read each other's
  settings. `Offload` has `Drop`: a client that the source node hands on while the
  edges are still being made may be lost.
- `ResponseFramed`, `ConnectionAgrees`, `RedirectEnds`: a header line longer than
  the 4096 bytes of `buffer1` loses its end and takes in what lies behind the
  buffer (`:208-209`, and likewise `:477` and `pagegen.cpp:82-95`).
- `RedirectEnds`: a uri with an escape is used as a format string (`:786`).
- `LengthRead`: `strtoul` skips white space and takes a sign, "-1" for 2^64-1
  (`:1009`); what is not refused is such a numeral, and the length is its value.
- `ScanInBounds`: with fewer than three bytes received the bound of the scan
  wraps (`:1015`); once a request is complete this cannot happen.

Met while modelling and not given a run: the lost output and the `STATE_CLOSED` of
whole transfers of the list above; a script that ends without a double CRLF keeps
its client for ever (`:393`, `:421`; the scripts of `transfers` end their header);
after EAGAIN the
response and page streams report success with nothing sent (`:165`, `:264`;
possible only when readiness proves spurious); the timeout of a silent script
compares `tv_nsec` only and never expires (`:362`; `TimedOut` in `CgiStream` is
{FALSE}); `cgi` set for a directory that is listed drives a script stream that
was never opened (`:902`; the runs assume a configuration that does not do
this); a HEAD of a listing announces a length of 0 (`:824`).

**Bounds, and why they are enough.** Sizes matter only against the chunk: zero,
below, equal, above, a multiple, and one more than a multiple all occur (`Chunk`
2 or 3, files of 0 to 25 units). Clients share nothing but the loop, the queue
and the batch, so two of them, with batches of one and of two, meet every
pairwise order; the theorems cover any number. Pipes of one unit against bodies
and output of up to two make every pipe run full and empty; one process for two
connections makes `fork` fail. Three clients in the graph let two meet in a
node while a third is held back. Four pieces of uri allow a segment, two dot
segments and what follows, or an escape that a query cuts. Three requests on a connection
cover a first, a middle and a last. The request limit lies between the longest
regular request and the oversized one.

**Fairness.** `EventLoop!FairSpec`: the process runs (`WF` of the loop, a single
thread with no blocking call but `epoll_wait`); a source that is ready again and
again is eventually in a batch (`SF` per connection and for the listener: epoll
rotates its ready list); a script produces its output and ends (`SF` of a
`HandleSend` that changes the client and whose send does not fail: a failure
never has to happen). Without the last the code makes no
promise, since its timeout never expires. Nothing is assumed of the remote end:
`Served` excepts a connection whose remote end holds back the rest of a body,
because the server has no timeout (`protocol.h:221`). `Transfer!FairSpec` is the
same for one stream; its `clock` moves at each poll of a script, so that an
endless poll is a behaviour and not the absence of one. `CgiPipes!FairSpec`: the
server comes to every connection it can serve (`Serve`), a write goes on while the
pipe has room, every script runs; nothing is assumed of a remote end, which may
hold back the rest of a body for ever. `TaskGraph!FairSpec`: the main thread runs
and the workers take up every task that was spawned.

**Mutants.** Every property of a passing run has a mutant: a definition
`F_Slip`, beside `F`, with a plausible mistake (a flag forgotten, an off-by-one,
a comparison with the wrong length, a file not closed, the newest request
first), under which TLC finds the property violated. `PROJECT.json` pairs them.

## Proofs

All theorems hold for every finite set of connections, every traffic,
configuration, chunk, limit, batch size and set of uninitialised values that
the named assumptions of the modules admit (`ChunkAssumption`,
`SizeAssumption`, `HeaderAssumption`, `ConfigAssumption`, `ClientsAssumption`,
`TrafficAssumption`, `EventsAssumption`, `SpuriousAssumption`,
`GarbageAssumption`). Those of `CgiPipesProofs` hold for all requests, pipe
capacities and limits (`ShapesAssumption`, `BodiesAssumption`, `PipesAssumption`,
`NobodyAssumption`), those of `TaskGraphProofs` for all queues and all ways to
share a `ClientInterface` (`QueuesAssumption`, `InterfaceAssumption`,
`NoneAssumption`), those of `TransferProofs` for all streams and sizes, and
those of `RequestTextProofs` and `RequestProofs` for texts of every length over any set of bytes and
any size of the format buffer above eight (`ByteAssumption`, `WordsAssumption`,
`NumberAssumption`, `TokensAssumption`, `BufferAssumption`, `ReadsAssumption`,
`LimitAssumption`, `RequestsAssumption`). `WordsAssumption` and `NumberAssumption` say that the
words and numbers the server writes are texts without line ends.
`ReadsAssumption` says that one read brings no more than a buffered request may
take (4096 bytes of 50000), `TokensAssumption` and `ByteAssumption` that the words
the code looks for are bytes of a text. `SizeAssumption` says that a chunk, or in
`Parsing` the longest word looked for, is less than the range of `size_t`.

| theorem | states | provided that |
|---|---|---|
| `EventLoopProofs!Invariant` | `Spec => []IInv` | |
| `TypeCorrect`, `EpollCorrect`, `QueueCorrect`, `BatchCorrect` | `Spec => []TypeOK`, `[]EpollInSync`, `[]QueueExact`, `[]BatchAlive` | |
| `EventLoopProofs!LoopImplementsService` | `Spec => Service!Spec` under the mapping in `EventLoop` | |
| `ExchangeProofs!IdleCorrect`, `EraseCorrect` | `Spec => []IdleClean`, `[]ErasesInside` | |
| `ExchangeProofs!StreamsReady`, `UnitsConserved` | `Spec => []StreamReady`, `[]Conservation` | `NoScriptForListing` |
| `ExchangeProofs!BoundaryCorrect` | `Spec => []RequestBoundary` | `BodiesLast` |
| `ExchangeProofs!FramingCorrect` | `Spec => []FramingKept` | `~Spurious`, `NoFiles`, `NoScriptForListing` |
| `TransferProofs!TypeCorrect` | `Spec => []TypeOK` | |
| `TransferProofs!CompleteCorrect`, `DeliveryCorrect` | `Spec => []Complete`, `Spec => Delivery!Spec` under the mapping in `Transfer` | `Borne` |
| `RequestTextProofs!ScanCorrect`, `ContainedCorrect`, `RedirectCorrect` | `Spec => []ScanInBounds`, `[]Contained`, `[]RedirectEnds` | |
| `RequestProofs!TakenCorrect`, `LengthCorrect`, `ResourceCorrect` | `Spec => []RequestsTaken`, `[]LengthRead`, `[]ResourceMeant` | `RegularRequests` |
| `RequestTextProofs!FramedCorrect`, `AgreesCorrect` | `Spec => []ResponseFramed`, `[]ConnectionAgrees` | `SoundAnswers` |
| `TaskGraphProofs!Invariant`, `TypeCorrect`, `SerialNodesAlone`, `OwnAnswers` | `Spec => []IInv`, `[]TypeOK`, `[]SerialAlone`, `[]OwnAnswer` | |
| `TaskGraphProofs!GraphImplementsOffload` | `Spec => Offload!Spec` under the mapping in `TaskGraph` | |
| `CgiPipesProofs!Invariant`, `InputsWhole`, `ResponsesWhole`, `PipesAreClosed` | `Spec => []IInv`, `[]InputWhole`, `[]ResponseWhole`, `[]PipesClosed` | |
| `CgiPipesProofs!OwnKills` | `Spec => OwnKill` | |

**The provisos.** Each stands for something the code does, and without it the
property is false:

- `NoScriptForListing`: no configuration asks for `cgi` where a directory is
  listed. `Process` makes the page, and routes the response to a script that was
  never started (`:820-848`, `:896-911`).
- `BodiesLast`: only the last request of a connection has a body. What is left of
  a body that no script takes is parsed as a request (the run `post_refused`).
- `NoFiles`: no file is sent. A file is announced by its `st_size` and loses units
  where a send is short (the run `file_short_send`).
- `~Spurious`: a socket that epoll reported as writable accepts something.
  EAGAIN's -1 is compared as unsigned and passes for success (`:165`, `:264`).
- `Borne`: sends of files and of a script's output are whole; a response or a page
  may be cut in any way.
- `SoundAnswers`: a file and a listing have a size that a `ulong` holds, and a script
  begins with a header field, ends its header, has a Status shorter than the
  format buffer and no Connection field. The header of a script is copied into
  the head as it is (`:378-387`): a field of its own repeats or contradicts the
  server's, an empty one ends the head early.
- Within `ResponseFramed`, `ConnectionAgrees` and `RedirectEnds`, `Fits`: the uri, with
  the name of its field, is shorter than the format buffer. A longer line loses its
  end and takes in what lies behind the buffer (`:208-209`).
- `RegularRequests`: the lines of a request are lines, its uri begins with a slash
  and has no blank, and no content begins with one. Elsewhere what the sender
  meant is not in the bytes: a line end within a field begins another field, or
  ends the request.

The instance of `pipelining` satisfies the first four, that of `connections`
the first, that of `transfers` `Borne`, and that of `request_text` `SoundAnswers`
and `RegularRequests` (`AnswersAssumption` and `RegularAssumption` in
`MCRequestText`, which TLC evaluates, the first for resources of every length up
to the limit).

**The invariant of the loop.** None of the four is inductive alone. `EpollInSync` needs the
types, and that a client's flags only change under an event or task of its own.
`QueueExact` ties the queue to clients with empty flags, so it needs that a
client given an event has flags (`BatchAlive`), and `BatchAlive` needs that
epoll reported only clients it was told to watch (`EpollInSync`). The missing
part is `Controlled`: the flags, the state and the content of a client fit each
other, so that `Poll` meets only the combinations it handles. `IInv` is the conjunction
of the five.

**The argument for it.** `StreamProofs` has one lemma per stream method: from a
well-typed stream and a possible result the outcome is well-typed or undefined;
in particular no position or size becomes negative. `EventLoopProofs` lifts
that to `Clear`, `Poll`, `Accept` and `Process`, one lemma per routine of
`Process`, and states what `Poll` may return in each state. Then it has one
lemma per action, with one step per conjunct of `IInv`, and maps every action to
one of `Service` or a stutter, given `IInv`.

**Requests and responses of a connection.** `ExchangeProofs` first reduces a step
of the loop to what happens to one client (`StepHappens`: it stays, joins, is
made, receives, sends or is run), so that each invariant needs a lemma per stream
method and routine of `Process` only. `TidyInv` says which members fit which
state: between requests every stream is reset, during a response the request is
still in its buffer, and a client is never driven behind an undefined operation;
`IdleClean` and `ErasesInside` follow. `SteadyInv`, with it, adds that `psp`
selects the stream the state calls for, that this stream was loaded, and the
account `owed = pending + lost + drift`; its parts depend on each other, for the
account of a script changes when its header goes to the response stream.
`AlignedInv` looks forward: what is buffered followed by what the remote end has
still to send begins where a request does. `ExactInv` says that nothing was lost.

**Transfers.** `IInv` adds to the types of `Transfer` that until `Write` is done
total = held + sent + lost (`Balanced`), and that afterwards nothing is held
(`Emptied`). It holds however short the sends are. `Sparing` is what whole sends
add: nothing is lost, and output of a script is only read into an empty buffer.
`NeverExpires` shows on the way that the timeout of a script cannot fire. For the
states `Delivery` speaks of, `Reported` ties the state of a stream to what `Write`
returned (pending until it is done, closed after an error), with one lemma per
stream (`BufferSigns`, `FileSigns`, `CgiSigns`). The end in `STATE_CLOSED` is in
`Delivery` as an end of its own (`End`), behind the whole, and not as a success;
which transfers take it is `SuccessReported`.

**Texts.** `FindIs` says that `Find` gives the first place of a word, `FindBreakIs`
what `FindBreak` answers for every buffer, the wrapped bound included; `ScanInv`
then keeps the buffers of a connection below the limit. For `Contained` the two
loops need more than an invariant. That a function of the form
`f[p] = IF p in Ends THEN result[p] ELSE f[next[p]]` exists follows from the set
of ends that are reached from `p` (`LoopExists`), without induction; what it
answers, from an invariant of the turns and a measure that falls, by the least
counterexample (`LoopAnswers`). `DecodeTurnIs` and `TurnIs` are the turns:
decoding keeps the first slash and makes no text longer; a turn of `ParseSegments`
keeps what it put out free of dot segments (`Tidy`), because a segment goes there
only when it is none (`SegmentTidy`), and takes away whole segments (`ParentIs`).

**Requests** (`RequestProofs`). `RequestsTaken` compares what is found in bytes
with the structure they were rendered from. That the function which joins the first n texts exists
(`JoinsExists`, by the least counterexample) gives the offset at which each one
ends (`JoinedIs`), for the fields of a request (`Laid`) and for the requests of a
connection (`Cut`). From where the line ends of a request are, and that there are
no others (`LaidBreaks`), follow the three searches: its only empty line is its
last (`RequestEnded`), so a scan finds the end of it as soon as it is whole and
not before (`NextFound`); the first line ends at its version (`FirstLineIs`); and
a name between a line end and a colon is that of a field (`FieldsFound`), so
`ParseHeader` gives the content of the first field of that name (`HeaderOf`).
`TakenInv` says where a connection stands: what is in the buffer and then on the
wire is what was sent from the end of the last request taken (`Ahead`), and the
next one is in the buffer in part, whole, or above the limit (`Partial`, `Whole`,
`TooLong`); `Right` keeps what was made of each. A connection that is not kept
needs nothing more, since none of its bytes is looked at again.

**Resources.** `ResourceMeant` compares two loops over bytes with the pieces a uri
was joined from and the segments RFC 3986 speaks of. Decoding first: from where a
piece begins it goes on where the piece ends, having added what the piece stands
for (`PieceDecoded`: escapes by one turn, other pieces by a turn per byte), and the
query string begins with the first piece that marks one (`PathOfIs`); so the path
decodes to the meanings of its pieces, joined (`DecodeMeant`, by the least
counterexample over the pieces). Then the dot segments: what `ParseSegments` has put
out at a slash is `Left` of the path up to it, the segments that are left, and a turn
takes one segment as `AddSegment` does (`TurnTakes`, with `ParentOf` for ".."), the
last one with the slash a directory gets; by the least counterexample over the
slashes the result is `RemoveDots` (`SegmentsMeant`). `ResourceMeant` is stated for
uris whose pieces are whole escapes, marks and texts without "%" and "?"
(`WellFormed`); `Contained` holds for all.

**Heads.** A head is described by where its line ends are (`Pair`) and its fields
(`FieldHere`, `Holds`): `Block` has no empty line, `Ended` one, at its end;
`Silent`, `Carries` and `Single` say that it has no field of a name, none but of
one content, exactly one. Two texts whose border is a line end have the fields of
both and no others (`JoinFields`, from `PairApart`: line ends do not overlap), so
`AddHeader` adds one field and keeps the rest (`AddHeaderIs`), and so do the lines
`Generate` puts around it (`GenerateIs`, `EndIs`) and the header of a script
(`HeaderIs`, `OpenIs`). With a lemma per routine of `Process` every reply is
`Framed` (`ProcessIs`), and `FramedSays` turns that into what a reader who searches
the text finds. `FramedInv` carries it for all of `taken`.

**Redirections.** `RedirectEnds` compares the loop of `ParseSegments` on a path
with that on the path with a slash behind it. Both make the same turns until the
shorter one is at its end (`ShutTurn`, by the cases of `Turn`), so the results
differ in a slash at most (`ShutSegments`, by the least counterexample). Without
escapes decoding gives the bytes before the query (`DecodePlain`), and the slash
of the Location is where its query then begins (`LocationQuery`). `MovedOnly` is
the converse for `Process`: 303 comes only from the branch of `:784`, which a path
with the slash does not take. `RedirectInv` carries it for all of `taken`; it
needs no proviso.

**The task graph.** `SerialAlone` is inductive with the types. `OwnAnswer`
speaks of the last node only; `Answering` says what the nodes before it have
left in the settings. That the graph is empty when `wait_for_all` returns
(`Offload!End`) needs that nothing is left without a task: what is in the queue
has the source node's (`Wired`), what is held back waits for an item that has
one (`Working`). That only clients taken early are lost is `Losing`, with `Wired`
for the edges that are there once the main thread waits.

**Scripts.** `Supplied` accounts for the body: what is still to come, what the
server writes, what the pipe holds and what the script has got; with
`InputClosed`, that the input is closed only behind the body or when the remote
end left, the end a script sees is the end of the body. `Drained` accounts for
the output: what was sent, what is held after a short send, what was lost and what
the pipe holds is what the script wrote; `Shorted` says that nothing is held or lost
without a short send. `Whole` carries it to the end of the connection, where `Forks`
gives the other exception, a process that does not exist because `fork` failed.
`PipesKept` says in which stage which pipe of a connection is open.

**Only model-checked.** Every safety invariant of a passing run but `SuccessReported`
is a theorem, with the provisos above. Liveness (`Served`, `Reaped`, `Ends`, `WriteReturns`, `Released`,
`Returns`) is out of the prover's reach.
Where the theorems have provisos, the runs go further: `Conservation` and
`StreamReady` with files, refused bodies and EAGAIN in `connections`,
`FramingKept` together with liveness in `pipelining`.

## Not modelled

- `Listen`, start-up, SIGINT: they run before the loop or end the process.
- `Identify`: it passes an uninitialised address on, which only reaches the
  script's `REMOTE_ADDR`.
- The Python bindings, and exceptions of the configuration script, which end the
  process; that `Configure` calls the interpreter from worker threads without its
  lock under `USE_MT`.
- The environment of a script (`AddEnvironmentVar`), a `pipe()` that fails, and
  what a script does with its output pipe after the server closed it.
- `ResponseText` leaves out the index files of a directory (`:790-806`), whose answer
  is that of a file. `CgiPipes` checks no script that reads the length it was told
  (`reads_length`); the theorems hold for those too.
- The wording of pages, If-Modified-Since as a date (`Config` and `Answers` say
  `fresh`), sub-second times.

## Plan

1. `FramingKept` for files, under whole sends and an `st_size` that is right.
2. The environment of a script, so that what a request says can be followed to
   the program that reads it.
