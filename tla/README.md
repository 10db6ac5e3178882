# RemotePrinter: specifications, checks and proofs

RemotePrinter makes printers of one machine usable in applications of another
one. `apifwrd.dll` is injected into an application's process and hooks functions
of `WINSPOOL.DRV` and of a printer vendor's `BXLPDIR.DLL`. The detours decide per
call whether the local function answers, or whether the call is sent over a Thrift
connection to the server (`sample.exe server`), whose handler calls the same
function there.

This directory holds TLA+ modules that model the program, TLC configurations that
check them on small instances, and proofs that the TLA+ proof system checks.

## 1. The system

| Part | State | Operations | Source |
| --- | --- | --- | --- |
| Hook lifecycle | MinHook's table, the code of the hooked functions, references to libraries | `DllMain`, `start_hook`, `stop_hook` | `apifwrd/dllmain.cpp`, `apifwrd/minhooklink.cpp`, `apifwrd/apifwrd.cpp`, `minhook-1.3.1/src/hook.c` |
| Detours of the spooler functions | `_bxprinters`, the list of handles that belong to the server | `DetourOpenPrinterA/W` ... `DetourClosePrinter` | `extension/userdef_client.cpp` |
| Connection | `_socket`, `_transport`, `_api`, one per process | `thrift_connect`, `ensure_connection`, `thrift_close` | `apifwrd/thriftlink_client.cpp` |
| Generated client and processor | none of their own | `send_X`, `recv_X`, `process_X`, and `read`, `write` of the structs | `gen-cpp/SelfService.cpp`, `gen-cpp/userdefined_types.cpp` |
| Transport | write buffer `wBuf_ .. wBase_`, socket | `write`, `writeSlow`, `flush`, `read` | `TBufferTransports.cpp/.h`, `TSocket.cpp` |
| Threaded server | `tasks_`, a thread per connection | `serve`, `Task::run` | `TThreadedServer.cpp`, `sample/thriftlink_server.cpp` |
| Handler | pointers to the server's own spooler functions; temporary files | `ApiForwardHandler::...` | `extension/userdef_server.h` |
| File printing | the temporary directory | `DetourPrintBitmap`, `DetourPrintPDF417` and their handlers | as the detours and the handler |
| USB port functions | the one open port of `BXLPDIR.DLL` in the server | `OpenUsbPort`, `WriteUSB`, ... | as the detours and the handler |
| Injector | a Windows hook and a module reference | `inject_dll`, `eject_dll`, `CtrlHandler` | `sample/main.cpp` |
| Spoolers of both machines | printer handles and their documents | `winspool.drv` | external |

How they interact. A detour runs on an application's thread. It calls
`ensure_connection()`, which opens the socket if it is not valid, looks the handle
up in `_bxprinters`, and then either calls the original function or sends a request
and waits for the reply. No timeout is set anywhere. The server runs one thread per
connection, all on one handler object; nothing ties handles to connections, and
nothing is cleaned up when a connection ends. The only state both sides share is
the value of a handle.

What is hard here:

* A handle is a bare number. Two machines' spoolers, and two runs of one server, hand
  out numbers independently, and the list outlives connections and servers.
* Every call can fail half way: before the request is out, after it has been
  executed, before the list has been updated or after.
* A socket whose peer has gone still counts as open.
* The transport keeps bytes in a buffer and is opened again after an error.
* A call of the socket may fail although the connection lives on; the socket stays open,
  with half a request sent or a reply not read.
* A server that vanishes without a word leaves its clients waiting.
* Hooks are enabled one by one in a running process, on code that can be unmapped.
* The server's threads share a directory, and the USB port.
* The threads of an application share one connection and one list, without a lock.
* The DLL and the server are installed on two machines and need not be of one build.

What makes each part correct:

* Forwarding: a listed handle is open on the server and belongs to the client that
  lists it; a request only reaches a handle of its own client; only failures leak
  handles or lead calls astray. Threads that take turns are as safe as one thread.
* Transport: a request is executed at most once, whole, a result belongs to the
  call that returns it, and every call ends. The code does not keep all of this in all
  cases; the modules say how far it does.
* Generated code: an argument arrives under its own name or not at all, an outcome is
  true, and both ends are in step after every call, unless a map is read by the wrong
  types.
* File printing: what is printed is the data of that call; files do not pile up.
* Hook lifecycle: a function is hooked only when its detour can run, and no function
  jumps into the DLL after it has gone.
* USB port: an application that was told the port is its own prints in its own session;
  nothing is printed twice.
* Threaded server: a failure ends the connection it happened on and no other.
* Injector: whatever ends the injector, the DLL is ejected, and no thread hangs.

All hazards, each at its line, are listed in `PROJECT.json`. Where the code does nothing
against one, no property can hold that it does no harm: the model has it, the properties
exempt what it does, and the entry says so.

## 2. The modules

### SpoolForward (with MCSpoolForward, SpoolForwardProofs)

Hooked processes, their connections, the server's handler and both spoolers.

| Variable | In the code |
| --- | --- |
| `link[c]` | the client's socket: closed, connected, or valid although its peer is gone |
| `bx[c]` | `_bxprinters`; an entry carries the server incarnation that issued it, as history |
| `call[c]` | the call the application's thread is in: about to send, sent, served, or lost |
| `lingering` | requests the server has received on connections that are lost by now |
| `remote`, `local[c]` | what the spoolers know of each handle value |
| `serverUp`, `epoch` | whether the server runs, and its incarnation |
| `held[c]` | handles the application has opened and not passed to `ClosePrinter` |
| `stray` | values at which a request with another meaning of the value was directed |

`OpenForward`, `OpenBypass`, `Forward`, `Bypass` and `EndDocUnhooked` are the detours up
to the point where they have chosen who answers; `Send`, `Return` and `ReceiveFails` are
`send_X` and `recv_X`; `Serve` and `ServeLingering` are the server's threads with the
handler's methods. `ConnectionLost`, `ServerStops`, `ServerStarts` and `ProcessExits` are
the environment. Whether `isBixolonPrinterByName` says yes is a free choice between the
two `Open` actions.

Properties: `ListedIsOpen`, `HeldIsListed`, `RequestReachesOwnHandle`,
`LocalStaysLocal`, `NoLeakWithoutFault`, and the action property
`OthersHandlesUntouched`. `EndDocUnhooked` is what the missing hook item of
`EndDocPrinter` comes to: it has a detour, a method and a handler, but the application's
call goes to its own spooler, and the server's never learns that a document has ended.

What they show, and what not. They hold for all values that are not *stray*. A value
becomes stray when the code directs a request at a value that by now means something
else: a handle listed before the server was restarted, a local handle that collides
with a remote one, a request executed after its connection was lost. The code cannot
tell such values apart, so the damage is real; the properties bound it to the very values
it happens on, and `StrayOnlyAfterFault` (proved, not run) says it takes a failure or a
collision.

### SharedClient (with MCSharedClient, SharedClientProofs)

The threads of one process on the one `_api`, `_transport`, `_socket` and `_bxprinters`. A
request is two pieces in the write buffer, a reply two pieces of the stream. `Begin`,
`Open`, `LookFor`, `Write`, `Flush`, `Receive`, `ReceiveFails` and `Add` are the steps of a
detour between which another thread can come. Where two of them race on a pointer of the
buffer or a node of the list, every outcome of the race is allowed (`Either`): a piece lost,
overwritten, sent or read twice, a list element lost, a crash. The connection fails as in
RpcStream: it may be lost silently, and reads (`ReceiveSlips`) and writes (`Throws`) may
fail on one that lives on, which `slipped` remembers.

`TurnsAreSafe`: threads that are never in a call at the same time never crash the process,
and as long as nothing has failed on a living connection they are safe, whatever
connections are lost. `WholeUnlessSentTogether` is finer: waiting for replies together and
reopening the socket under each other's feet mixes no requests, only sending together
does, or a write that fails half way; and not even that makes a call be executed twice.
`CallsReturnUnlessTogether` is the liveness that is lost with the turns: a thread
can read the other's reply, and the other waits for ever. It is lost as well when a failing
read has left its reply for the next call, and when the server vanishes for good and
nobody tells (`[]<>(link # "silent")`).

### RpcStream and RemoteCall (with RpcStreamProofs)

One client's calls as bytes. A request is a header, a data argument and a trailer;
a byte records the call it belongs to. `WriteFast`, `WriteBuffer`, `WritePiece`,
`WriteFilled` and `Flush` are `TBufferedTransport`'s `write`, `writeSlow` and `flush`, one
action per call of the socket. `Sends` is `TSocket::write` when it goes well, also into the
void of a dead connection; `ThrowsGone` when it is told that the connection has gone; and
`ThrowsAlive` when `send` fails for another reason (TSocket.cpp:590, or `write` at 553): the
connection lives, the socket stays open, and some of the bytes may be out. `Serve`,
`ParseFails` and `ServeLate` are the server's thread; `Receive` and `ReceiveFails` are
`recv_X`, which compares function names and nothing else, and `ReceiveSlips` is a read that
throws on a living connection (TSocket.cpp:466, 531) and leaves its reply, or the rest of
it. `ConnectionLost` may be silent: no receive timeout and no keepalive is set
(TSocket.cpp:457), so that the client may learn of it late or never (`LossReported`).

`RemoteCall` is what a detour would like to be promised: calls one at a time, executed
at most once, reported as done only if executed, and ended unless the other side is
`silent` for good. `void` is where an implementation gives the promise up.

How far the stream keeps it:

| Until | holds |
| --- | --- |
| a call of the socket fails on a living connection, or a throwing `writeSlow` leaves bytes (`Upset`) | everything: `ImplementsRemoteCall`, `ResultsAreOwn` |
| a *write* fails there, or `writeSlow` leaves bytes | requests are whole: `MixedOnlyAfterFailedWrite` |
| `writeSlow` throws on a living connection with bytes in its buffer (`"up"` in `spilled`) | no call is executed twice: `AtMostOnce` |

The last row is as far as it goes: `writeSlow` keeps its buffer when the write throws, so
that on a connection that lives on the same header can go out again behind itself, and with
two failures and a buffer of 4 its call be executed twice. On connections that are lost,
what is sent again goes to another server thread, and can never complete a request the
first one had.

SpoolForward assumes that a request arrives whole or not at all; RpcStream says when.

### SelfService and ServiceCall (with MCServiceCall, ThreadedServerProofs)

SelfService is the interface as the generated code has it: for each of the 34 methods the
fields its `_args` and `_result` structs read and write, and the four structs of the
extension. ServiceCall is what the generated functions do with such structs: `Send` is
`send_X`; `UnknownMethod`, `HandlerReturns`, `HandlerThrows` and `ArgumentsMisread` are
`dispatchCall` and `process_X`; `ReceiveException`, `ReceiveResult`, `ResultMissing` and
`ResultMisread` are `recv_X`. `Read` takes a field only under its number with its type and
skips all others, so that the two ends may be of different builds: the server is built
from any of `Interfaces`. The types inside a map are read and not looked at
(`Misread`). What comes of that is left open: the read throws, or takes what it has for the
map's content, which the handler may be called with (`garbled`), or waits for bytes that
nobody sends. The call may then end in any way or never (`EndsAdrift`), and what follows it,
on a stream out of step, is not modelled.

`ArgumentsArrive` (by name, although only numbers travel), `OutcomesAreTrue`, `InStep`, and
`ImplementsRemoteCall` once more: here the promise is void only once a map has been
misread.

### UsbPort (with UsbPortProofs)

The port functions over the one port of the server's `BXLPDIR.DLL`. A call is what
RemoteCall promises: `Call`, `Execute`, `Return`, and `Fail` with the request lost,
executed, or executed later (`ExecuteLate`). `Exit` and `Restart` end a client and the
server. `has` is what an application believes after the results it was given.

`SessionIsKnown`, `NoForeignOutput` and `PrintedOnceInOrder` hold until a request is
executed late, the reply to a `CloseUsbPort` is lost or the server restarts; the part of
the last one that says *once* holds in any case. `StuckOnlyAfterTrouble` names the only
ways to a port that nobody will close: a failed call of its opener, or the opener's end.

### ThreadedServer (with ThreadedServerProofs)

`serve()` with `acceptImpl`, and `Task::run`: `Round`, `Accept`, `Insert`, `Start`, with
`AcceptFails`, `AcceptLoses` (a socket that cannot be set to blocking is nobody's from then
on) and `StartFails` (which ends the process: the exception is not one `serve()` catches);
`EndOfConnection`, `TaskThrows`, `Close` and `Erase` are the task's thread.

`TasksAreKnown` relates `tasks_` to the threads. `ClosesOnlyItsOwn` is about `client`,
which `serve()` closes after an exception: `client.reset()` sees to it that this is not the
connection of the task it has started a round before. `EveryClientIsServed`,
`GoneClientsAreForgotten`.

### Injector (with HookLifecycleProofs)

`main` for every command line, `inject_dll` and `eject_dll` call by call, `CtrlHandler` on
its own thread, and the threads the hook covers (external): a native one loads the DLL
and unloads it later, one of the other bitness waits for the injector's message loop.

`HookHasItsCode`, `NothingLeftBehind` (except where `main` itself returns without
ejecting: when the control handler is refused), `BreakEjects`, `TargetsGoOn`.

### FilePrinting (with MCFilePrinting, FilePrintingProofs)

`PrintBitmap` and `PrintPDF417`: `Ask` is the detour with `read_from_file`, including
what reading in text mode does to the data (`TextRead`); `Create`, `Write`, `PrintFile`
and `Delete`, with their failures, are the handler's steps `getTempPath`,
`write_to_file`, the library's function and `DeleteFileA` (whose answer nobody looks at),
interleaved with the other clients' threads. `PrintsOwnData`, `NoFileLeftBehind`, `EveryPrintAnswered`. The vendor's
library is taken to be there; without it both methods answer 0 and change nothing.

### HookLifecycle (with HookLifecycleProofs)

`DllMain` from attach to the unmapping of the DLL, one action per call of MinHook.
`jump` is what the process executes, `enabled` and `created` what MinHook believes;
`stale` marks entries whose library has been unmapped. The application may load and free
both libraries whenever `DllMain` is not running. `misread` is set when
`IsHookProcess` gives an answer that is not the process's name's: the buffer is compared
uninitialised when `EnumProcessModules` fails, and an `OpenProcess` that fails counts as
no. `DetoursAreReady`, `NoDanglingJump`, `HookedInTime`.

`NoDanglingJump` allows for one failing call. With two it is false: one hook that
cannot be disabled stays, and another failure stops `MH_Uninitialize` before it. It also
excludes a misread name: detach asks `IsHookProcess` again and skips `stop_hook`.

### HandleWidth (with HandleWidthProofs)

A handle's value between processes of 32 and of 64 bits: `ToInt64`, `ToHandle` and
`SafeHandle` are the casts of the handler and the detours and `SAFE_HANDLE`, with `Half`
for 2^32; `Open`, `Use`, `Close` and `CloseLocally` are detour and handler in one step.
`ReachesTheHandle`, `HandlesStayListed` and `OpenIsHeldOnce` hold as long as no handle of a
64-bit server has lost its upper half in a 32-bit process (`cut`); with one that has, each
of them can fail. Signs are no danger: the handler sign-extends a 32-bit handle,
`SAFE_HANDLE` does not, and the lower halves agree all the same. SpoolForward treats
handles as bare values; this module says when it may.

In every module some definitions have a neighbour that nothing uses (`StaysListed`,
`FlushSkipped`, `TakenNames` ...): a slip the code could have made. Put in the place of
its neighbour, it breaks the property that `PROJECT.json` names, which shows that the
property depends on the code.

## 3. The runs

| Run | Instance | What it asks |
| --- | --- | --- |
| `spool_forward` | 2 clients, 1 local and 1 remote value, 2 server incarnations, 1 failure | safety of handles between clients; deadlock |
| `shared_client` | 2 threads, 3 calls each, 2 losses or failures | what sharing one connection spoils, and what not |
| `rpc_stream` | buffer 3, data of 0, 1, 3, 5, 3 calls, 3 losses or failures | at most once, unmixed, own results; refinement of `RemoteCall` with its liveness |
| `rpc_stream_residue` | the same | violated: bytes are left in the buffer |
| `service_call` | all 34 methods, the same interface and 25 other builds, 2 calls | arguments, outcomes, being in step; refinement of `RemoteCall` |
| `file_printing` | 2 clients, 2 names, 3 calls, 2 failures, 5 files | own data, no files left, every print answered |
| `file_printing_text` | 2 clients, no failure | violated: the file is printed as it is |
| `usb_port` | 2 clients, 3 calls each, 2 failures | sessions, foreign output, a stuck port, order |
| `threaded_server` | 3 connections, 2 failures | bookkeeping of tasks, whom a failure reaches, service |
| `injector` | 3 threads, 2 of them native, all command lines | hook and library, ejection, no hanging thread |
| `hook_lifecycle` | 3 spooler and 2 USB items, 2 failures | hooks in time, ready, and none left |
| `handle_width` | 2 clients, `Half` 4, 2 open handles | handles survive conversions and list |

Why the bounds are enough. Two clients are what it takes for one client's request to
meet another's handle; one value per kind is what makes reuse after a restart certain,
and two incarnations are a restart. The clients are symmetric, no liveness property is
checked with them, and the proofs cover all other numbers of clients, values and faults.
Two threads are a race, and with three calls one can open, use and close its printer.
MCSharedClient's constraint (`FewCalls`) lets threads in turns make five calls between them,
so that each meets what the other has left, and four once something has failed on a living
connection; threads that have been in calls together three, and one each when they have
been sending together, where no property claims anything any more. Cutting calls off bounds
what happens *after* the calls there are: a call that has begun is followed to its end.
With a buffer of 3 the data lengths 0, 1, 3 and 5 make requests that fit, that fill the
buffer up (`WriteFilled`), that are written in two calls and that find an empty buffer;
with three losses or failures bytes are left, met again and left once more, also on a
connection that lives on, and three calls are what it takes for a reply or half a request
to be left by one and taken by another, and a third to follow. The other builds of MCServiceCall
each differ in one method: it is missing, an argument, a field of a struct or a map's type
is missing, new or of another type, or the result is; with two calls one finds what the
other has left. Two names for two clients run out as soon as one file is left behind; the
five files are empty, plain, with a CR LF, with a Control-Z within and in front. With two
failures a port is left open by one client and closed by another's late request. With
three connections one is served, one is in `serve()`'s hand and one waits. Three and two
hook items give MinHook's table entries before, between and behind one that fails, in
each library. With `Half` 4 a 32-bit handle has a top bit and another one, and every
upper half of a 64-bit handle occurs with every lower half; two open handles can share a
lower half.

Runs say `CHECK_DEADLOCK FALSE` where the calls are bounded and the system may stop at
the bound, or where the program ends.

## 4. Fairness

Weak fairness only, and only of steps that the code takes without anybody's help.

* RpcStream: a detour that has begun goes on writing, the server's thread reads and serves
  what is there, and the read takes what has arrived, or ends when the client's system
  knows that the connection is gone. That the system comes to know (`LossReported`) is not
  assumed: a call that waits for a server that has vanished silently need not end, and
  `RemoteCall!Ends` asks it only of behaviours in which it is not silent for good.
* ServiceCall: the server's thread and the caller read what there is; not that a call ends
  for which a map has been misread.
* FilePrinting: the steps of the handler's methods, and the answer to the client.
* SharedClient: each thread's detour, and the server's thread, until the process crashes;
  not that a lost connection is reported.
* ThreadedServer: `serve()`'s steps and each task's own. That the backlog is served in
  turn is not needed: the connections are finitely many.
* Injector: the main thread's steps, and that a process that has the DLL handles messages
  and so unloads it.

No fairness is assumed of clients, of the application, of failures, of the console, or of
a server that has to be started again. SpoolForward, HookLifecycle, HandleWidth and
UsbPort state none: only safety is asked of them. That a forwarded call ends is RpcStream's
to show, where the bytes are.

## 5. The proofs

SpoolForwardProofs, for any clients, handles and bounds:

* `TypeCorrect`: `Spec => []TypeOK`.
* `Ownership`: `Spec => []IInv`. `ListedIsOpen` is not inductive as it stands: a
  `ClosePrinter` on its way could close a handle that is listed, and a reply could list
  a handle that has been closed. `PendingIsOwn`, `ReturnedIsOwn` and `ClosingIsUnlisted`
  say what a call that is under way guarantees, `ConnectionsLive` and `IncsPast` what a
  connection and an incarnation do.
* `ListedHandlesAreOpen`, `HeldHandlesAreListed`, `RequestsReachOwnHandles`: parts of it.
* `HandlesUntouchedByOthers`: the action property, from the same invariant.
* While nothing has failed and local and remote values differ, a stronger invariant holds,
  `CalmInv`: no connection is broken, nothing lingers, every request is meant for the
  incarnation that runs, and every handle in use on the server is on its way to its
  client, listed, or being closed. `StraysOnlyAfterFaults` and `NoLeaksWithoutFaults` follow.
* `LocalCallsStayLocal` needs less: that what is listed was issued by a server.

SharedClientProofs, for any threads and bounds:

* `RequestsStayWhole`: `WholeUnlessSentTogether`. While no two threads have been sending at
  the same time, what is in the write buffer belongs to the one thread that sends
  (`OneSender`, `BufferIs`), and a head is in one place only: buffer, wire, kept for late
  execution, or executed (`Once`); this survives half a request on the wire, because it is
  about heads, and a head goes out once. `Whole` says that heads are followed by their own
  arguments; it is claimed as long as no write has failed on a living connection. A
  connection that is opened again empties the wire, and what is kept of it is as it was.
* `TurnsStaySafe`: `TurnsAreSafe`. `Alone` (one thread at most is in a call, and no crash)
  holds as long as `together` is false, whatever fails. `Turns` adds, until something has
  failed on a living connection: what is on the connection is the present call's request, or
  the rest of the reply to it, or nothing (`LineIs`); and an idle thread's handle
  is its own and listed (`Handles`). The delicate part is that a call leaves nothing behind
  for the next one, also not when its connection is lost: `ReceiveFails` needs a connection
  that is known to be lost and no reply, and a lost connection has taken the request with it.

RpcStreamProofs, for any buffer of two bytes or more, any sizes of data and bounds:

* `StreamInvariant`: `Spec => []IInv`, in layers as in the table of section 2. `Types`,
  `Shape`, `Past` (nothing belongs to a call that has not begun) and `Residue` hold always:
  a header left in the buffer announces more than the buffer holds, or is the present
  request's. `Once` holds until `writeSlow` throws on a living connection, when the stream
  may have little structure left to rely on. What remains is that the server executes a
  request only where a header stands in front and enough bytes follow: the calls of such
  headers (`Viable`) on lost connections, those executed, and all headers on the living
  connection and in the buffer are different from each other. That what is sent again on a
  new connection cannot have been completed on the old one is `Residue`'s part.
  `Whole` adds, until a write has failed, that every byte is where it belongs in its request;
  `Own`, until anything has failed, that it is the present call's and its reply's.
  `Moves`, `Drops`, `Hangs` and `Quiet` are what a step can do to the stream: move bytes from
  the client to the wire, give a request up, end the connection, or leave it all alone.
* `TypeCorrect`, `ExecutedAtMostOnce`, `MixedAfterFailedWriteOnly` and `OwnResults` follow.
* `StreamRefinesRemoteCall`: `Spec => Abstract!SafeSpec`, the refinement of RemoteCall
  without its liveness. Every step maps to a call, an execution, a return, a failure, a
  stutter, or, with `Upset`, to the promise given up.

A buffer of one byte is excluded by `RpcStream`'s own assumption; the code's has 512
(TBufferTransports.h:195).

UsbPortProofs, for any clients and bounds:

* `SessionsAreKnown`, `NothingForeignPrinted` and `StuckByTroubleOnly`. Until something is
  disturbed, an application that has the port, or is about to be told so, is the port's
  opener; a request on the port under way belongs to one that has it.
* `PrintsOnceInOrder`: the numbers of what is printed, of what is under way and of what is
  late are pairwise different and not above `made`.

ThreadedServerProofs, for any connections and bound: `TypeCorrect`, `TasksKnown`, and
`ConnectionsCloseOnTheirOwn`, for which it matters what `client` can be when `accept`
throws: nothing, since it has been reset in the same round.

The same module, since the tasks run the processor, for any interfaces that satisfy
`ServiceAssumption` (what has the same number in two builds has the same name) and any
number of calls of ServiceCall:

* `GotArrives` and `ReturnsArrive`, lemmas: what `read` makes of what `write` of another build
  has written is, field by field and one struct deep, what was given under the same name,
  or the default.
* `SInvAlways`: between `Send` and the end of a call there is exactly its request or its
  answer on the connection, and the answer is true of what the server has done (`CallIs`);
  what was said of earlier calls stays true, because later ones have other numbers (`Told`,
  `InOrder`). `HandlersGetTheirArguments`, `CallersAreToldTheTruth` and
  `CallsLeaveTheStreamInStep` follow.
* `StubsRefineRemoteCall`: `ServiceSpec => Abstract!SafeSpec`, with the promise void from
  the first misread map on.

FilePrintingProofs, for any clients, names, files and bounds:

* `FilesOwned`: `Spec => []IInv`. Two calls never name the same file because a name is
  given only while its file does not exist, and the file of an unfinished call does
  (`FilesApart`); so what is in it is what the call has written (`FilesHoldOwnData`).
* `OwnDataPrinted` and `NothingLeftBehind` follow.

HookLifecycleProofs, for any number of hook items and of failures:

* `TableInvariant`: `Spec => []IInv`. `TableMatchesCode` relates MinHook's table, the
  libraries and the code; `SpoolerStays` says that `start_hook`'s own reference keeps
  `WINSPOOL.DRV`; `DisabledBehind` says what `stop_hook`'s loop leaves behind it.
* `DetoursReady`, `NothingDangles`. The argument for the latter: an entry left enabled
  cannot jump any more, because its library has gone, or is the one whose call has
  failed. `MH_Uninitialize` restores that one: the entries that may stop it are items of
  `BXLPDIR.DLL`, which come behind those of `WINSPOOL.DRV`, and which are all gone if
  one is.
* `AllHookedInTime`: `LoopHooks` counts, while `start_hook`'s loop runs, the items it has
  passed over without hooking them; each of them has cost a failure. After the loop the
  libraries may come and go, but `inTime` and the table stay.

The same module, for any threads and every command line of the Injector:
`TheHookHasItsCode` and `LeavesNothingBehind`. `Owns` says what the main thread has at
each point, so that each of the ways in which the process can end, at any of them, leaves
what the property allows.

HandleWidthProofs, for any `Half`, clients and bound:

* `RoundTrip`, a lemma: what a client is given fits its word, and a request on it is
  applied to the handle it stands for, unless it has lost its upper half. It rests on
  `LowerHalf`: `(v + k * Half) % Half = v` for `v` below `Half`.
* `HandlesKeepMeaning`: `Spec => []IInv`. `HeldAsGiven` ties an application's handle to
  the server's; two handles of a client with one value would be one handle by
  `RoundTrip`, which is why `list::remove` takes off no other.
* `RequestsReachTheirHandles`, `HandlesListedUntilClosed`, `OpenHandlesHeldOnce` follow.

The assumptions are those each module states of its constants, and no others.

Every invariant and every action property of the runs is proved. Only model-checked:
the liveness properties (`EveryPrintAnswered`, `CallsReturnUnlessTogether`,
`EveryClientIsServed`, `GoneClientsAreForgotten`, `BreakEjects`, `TargetsGoOn`), and the
liveness inside `ImplementsRemoteCall` (`RemoteCall!Ends`), of which the proofs have the
rest. Liveness under fairness is out of the prover's reach; so is what the recursive
`TextRead` computes, of which the proofs use only that it yields bytes
(`TextReadAssumption`, which TLC evaluates).

## 6. Findings

* `rpc_stream_residue`. `TBufferedTransport::flush` empties its buffer before it writes, "to
  ensure we're in a sane state (i.e. internal buffer cleaned) if the underlying write
  throws up an exception" (TBufferTransports.cpp:123-125). `writeSlow` does not
  (TBufferTransports.cpp:88-94, 102-107), and `thriftlink_client.cpp` opens the same
  transport again, or goes on using it when the socket is still open: a request larger than the buffer whose write throws leaves its
  beginning in front of the next request. The server may execute a mixture of both, or
  wait for the rest of the first one while the client waits for the reply to the second.
* `file_printing_text`. The interface declares the file's data as `binary`
  (`extension/userdefined.thrift:88`), a byte array; `read_from_file`
  (`userdef_client.cpp:848`) opens the file in text mode, and what is printed ends at the
  first Control-Z and has lost the CRs before LFs.

The command line's port number is converted and dropped (`sample/main.cpp:53`):
the server listens on 3900 whatever `server [port_number]` of the usage text promises
(`ListenPort` is the default). This shows in one line of the source and is no run.

## 7. What is not modelled

* Threads that are inside a detour, or wait in a forwarded call, when the DLL is ejected:
  they return into code that has gone. The code does nothing about them, so there is
  nothing to check: HookLifecycle is about the jumps that `stop_hook` can undo.
* What an application makes of an exception that leaves a detour
  (`userdef_client.cpp:246`): the call is over for SpoolForward, and the caller's stack is
  unwound.
* The conversion of characters (`ws2s`) and the registry behind the recognition of the
  printer: whether a printer is a Bixolon one is a free choice.
* The buffer of `ReadUSB`: the reply does not carry it, the client keeps its own
  (`userdef_server.h:559`). UsbPort's `Reads` changes nothing.
* MinHook's trampolines and its freezing of threads; MH_RemoveHook and queued hooks, which
  the DLL does not call.
* The detours that no hook item names (`EnumPrintersW`, `GetPrinterW`, ...) are never
  called. Their methods and structs are in SelfService, because the stubs are compiled in.
* `TThreadedServer::stop()` and what follows its loop: never called, never reached.
* What follows a call for which a map has been read by the wrong types (ServiceCall).
* In SpoolForward, calls of the socket that fail on a living connection, which upset the
  stream below; RpcStream has them.
* The server skeletons, which are templates, and the rest of Thrift, MinHook and OpenSSL.

## 8. Plan

What could follow:

1. **PrintJob**: an abstract print job of one client (open, document, pages, data, close)
   and SpoolForward as its implementation, stated as a refinement.
2. Proofs: that FilePrinting and UsbPort, whose calls are RemoteCall's, could be given
   the stream's calls in their place; the composition of SpoolForward with PrintJob.
