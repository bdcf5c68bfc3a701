# SRL in TLA+

A verification project for SRL, a portable C++ class library (threads, sockets,
containers, strings, files, processes, HTTP, XML, JSON, RPC), and `radmin`, the
remote administration daemon written with it. The models follow the POSIX/Linux
build. Paths are relative to the root of the repository; `PROJECT.json` maps
every definition to the lines it models.

## 1. The system

| Component | State it keeps | Operations | Interacts with | What is hard |
|---|---|---|---|---|
| Mutex (`cpp/src/sys/Mutex.cpp`) | `_thread_id`, `_is_locked`, `_counter`, a pthread mutex | lock, tryLock, unlock | everybody | fields read without synchronisation decide whether the pthread mutex is taken |
| Semaphore (`cpp/src/sys/Semaphore.cpp`) | a count | acquire, tryAcquire, testAcquire, release | Thread, ThreadPool, HttpServer | testAcquire borrows a permit for a moment |
| Thread (`cpp/src/sys/Thread.cpp`) | `_state`, pause and cancel flags, pause semaphore, handle | start, pause, unpause, cancel, join, terminate, destructor | its owner and its pthreads share fields without a lock | pause/unpause races, restart, asynchronous kill |
| ThreadPool (`cpp/src/sys/ThreadPool.cpp`) | available and busy vectors, `_size`, `_blocker`, `_waiter` | runTask, waitAll, task_completed | managed Threads call back | a full pool, several callers, threads not in their pause yet |
| HttpServer (`cpp/src/net/HttpServer.cpp`) | listening socket, pools of requests, `_blocker`; per request socket and version | start, stop, accept loop, parse, handle, final | Thread, Mutex, Semaphore, Vector, TcpSocket | a full pool, stop during work, one answer per client |
| radmin (`radmin/src`) and Daemon (`cpp/src/app/unix`) | event channel, monitors, transfers, collector | RPC methods, callbacks, signals, collector loop | HttpServer, Thread, Process | callbacks on foreign threads, objects a collector deletes, a channel that breaks |
| Vector, Dictionary (`cpp/include/srl/util`) | block and size; tree threaded by a list | add, set, get, remove, iterate | everything | block boundaries; rebalancing, keys of one hash |
| Socket, ServerSocket, TcpSocket, ByteBuffer (`cpp/src/net`, `cpp/src/io`) | descriptor and flags; buffer, position, length | open, accept, close, readUntil, readAll | HttpServer, HttpClient, radmin | numbers the kernel reuses, pieces of any size, time-outs over several waits |
| HttpClient, HttpHeaders; IcmpSocket, TraceRoute; NetworkInterface | headers; sequence numbers; three lists of objects | get; ping, trace; update | TcpSocket, raw sockets, ioctl | stale headers, packets of others, objects a caller may hold |
| Logger (`cpp/src/log`) | static outputs, levels | log, SetOutput | everybody | an unlocked walk over shared outputs |
| Process, System, ProcessList, SystemInfo (`cpp/src/sys`) | pid, pipes; lists; counters | run, wait, terminate; RunAs; refresh | the kernel, radmin | a child is reaped once and its number comes back; entries vanish while read |
| File, TextFile, FS, FsObject, Directory (`cpp/src/fs`) | position, buffer; trees; listeners | read, tail; Move, Copy, Delete; listen, refresh | the kernel | writers meanwhile, failures half way, signals |
| String, codecs, URI, XML, JSON, RPC, CommandLine, IniParser, DateTime, Timer, Random | values, and what a parser keeps between two calls | change, parse, format, add | each other | chunk ends, stale fields, loops that look again at what they wrote, carries |
| Singleton, Console, datagram sockets and addresses, Java GUI, other platforms | - | - | - | not modelled, section 5 |

What makes them correct: a Mutex excludes and one unlock per lock gives it
back; a Thread runs one pthread at a time, stays in its pause, wakes and stops;
a pool runs every task once and waitAll waits; the server gives each connection
one request and one answer and can be stopped; a monitor is collected once; a
Vector is a list inside its block, a Dictionary a map by key; a stream arrives
as it was sent; no descriptor, process number or list entry means something
else than its holder believes; a value that was written is read back, and what
a call before left behind does not show in the next one.

## 2. Modules

| Module | Source | What it models |
|---|---|---|
| `RecursiveLock`, `List`, `OrderedMap` | `List.h`, `Map.h` | abstract specifications: an atomic recursive lock; a list; a map by key, walked in the order of insertion |
| `Mutex` | `sys/Mutex.cpp` | one step per access to a field; `ImplementsRecursiveLock` |
| `Thread` | `sys/Thread.cpp` | a Thread object, its owner and the pthreads it starts |
| `ThreadPool`, `ThreadPoolProofs` | `sys/ThreadPool.cpp`, managed loop of `Thread.cpp` | the pool, its threads and its callers |
| `HttpServer` | `net/HttpServer.cpp` | acceptor, requests, clients, owner |
| `Radmin`, `Triggers` | `radmin/src`, `app/unix/Daemon.cpp` | daemon, RPC threads, monitors, event channel, transfers, collector; the loops over a monitor's triggers |
| `Vector`, `VectorProofs` | `util/Vector.h` | both versions of the class; `ImplementsList` |
| `Dictionary` | `util/Dictionary.h` | tree and list as pointers; `ImplementsMap` |
| `Socket`, `TcpSocket` | `net/Socket.cpp`, `ServerSocket.cpp`, `TcpSocket.cpp`, `io/ByteBuffer.cpp` | descriptors against the kernel's sockets; the receive buffer against the peer's stream |
| `HttpClient` | `net/HttpClient.cpp`, `HttpHeaders.cpp` | get() and the header parser line by line |
| `IcmpSocket`, `TraceRoute`, `NetworkInterface` | `net/IcmpSocket.cpp`, `TraceRoute.java`, `net/linux` | echo requests; traces; interface objects |
| `Logger`, `Process`, `Commands`, `ProcessList`, `SystemInfo` | `log/`, `sys/` | logging threads; children and pids; RunAs and Kill; /proc; CPUs and loads |
| `Files`, `FileSystem`, `Watch`, `Directory` | `fs/` | reading while others write; Move, Copy, Delete on trees; change listeners; a directory that changes |
| `Strings`, `Texts` | `String.cpp` | a String and its block; searching and cutting as operators |
| `Codecs`, `URI`, `XML`, `JSON`, `RPC` | `util/`, `net/URI.cpp`, `xml/`, `json/`, `rpc/` | encodings with their counterparts; parts and query map; pull parser over chunks; values; services and dispatch |
| `CommandLine`, `IniParser`, `DateTime`, `Timer`, `Random` | `app/`, `util/` and others | the small stateful classes |
| `NetProofs`, `SystemProofs` | - | the proofs about HttpServer, Radmin, Socket and TcpSocket; about Process, ProcessList, Watch, Directory, SystemInfo, Triggers and TraceRoute |
| `MCBase`, `MCNet`, `MCSystem`, `MCLibrary` | - | instances for TLC |

The proofs about `Mutex`, `Thread` and `Logger` stand at the end of these
modules. What they assume of the constants is a named ASSUME of the module, or a
`Parameters` operator (`RadminParameters`, `SocketParameters`) that the runs
evaluate as a conjunct of the invariant it belongs to.

Correspondence. Variables are the fields of the class, named in each VARIABLES
comment, plus program counters (`pc`, `pt`, `wpc`, ...) whose labels are the
points of the code between two shared accesses, plus history that only the
properties read (`held`, `finals`, `ran`, `sent`, `deletes`, ...). A `crashed`
variable records an exception that leaves a thread or the use of a null
pointer; nothing happens after it. Definitions named `X_Something` and marked
*Faulty* or *An error* are wrong versions of `X`; each shows that one property notices that
mistake.

How they compose. `ThreadPool`, `HttpServer`, `Radmin` and `Logger` take a
critical section as one step, or as steps under a recorded owner where unlocked
code touches the same state; that `Mutex` implements `RecursiveLock` allows it.
`Thread` and `ThreadPool` model pause and unpause field by field; `HttpServer`
takes the outcome and leaves the races to them. `Radmin` contains the Daemon,
the monitors' threads and the calls the RPC server makes; `RPC` uses the values
that `XML` reads; `Texts` has the searches that `Strings`, `Codecs` and `URI`
share.

An MC module puts together components that share no state: it extends those
whose theorems are about the very property it checks (MCBase extends Thread,
MCNet HttpServer, Radmin, Socket and TcpSocket, MCSystem Logger,
IcmpSocket and the seven modules of `SystemProofs`), with the constants of the cfg, and instantiates the
others. Its variable `part`, chosen at the start and never changed, says which
one a behaviour is about; the variables of the others keep their first value.
So a run explores the components one after the other, not their product, and a
property names the part it speaks of where that matters. `Off` is the value of
variables whose component has several initial states and does not run.

## 3. What the runs check

| Run | What it holds or refutes | Result |
|---|---|---|
| `mutex` | MutualExclusion, UnlockVerdict, OneUnlockIsEnough, ImplementsRecursiveLock, WaiterProgress: three threads, depth 2, every method, unlock by anybody | holds |
| `base` | ThreadRight, PauseHolds, UnpauseWakes, StopsInTheEnd: an owner that pauses at any moment and otherwise lets the thread catch up, and one that calls anything at any moment and terminates; CrowdRight: what a pool keeps when its two callers have any timing; WellFormed, ImplementsMap of a Dictionary whose keys have different hashes | holds |
| `pool` | PoolRight, WorkIsDone: a pool with one caller that waits | holds |
| `net` | StreamIntact, DescriptorsSound, AnswersRight: the socket classes, the HTTP client and the list of interfaces; ServerRight, ServersGoOn: three connections, every kind of request, accept may fail, stop at any time; CollectedOnce and a part of ServersGoOn: radmin with a process, two RPC threads, a transfer, a channel that breaks, signals | holds |
| `system` | LoggerRight, ChildrenRight, DestroyEnds, ListedRight, FilesRight (RunAs and Kill, reading and writing, Move, Copy and Delete), WatchRight, DirectoryRight, SystemInfoRight, TriggersRight, WaitEnds, TraceRight | holds |
| `library` | StringsRight, LoopsEnd, CodecsRight, DocumentsRight (XML, JSON, RPC, command lines and ini files), ArithmeticRight; Fits, GivesBack, ImplementsList of Vector<Value*> (a list has no junk, so NoJunk follows) | holds |
| `thread_lostWakeup` | UnpauseWakes with an owner of any timing | violated |
| `pool_twoCallers` | NoCrash with two callers and a full pool | violated |
| `pool_waitAll` | WaitAllMeansDone for two waitAll calls of one caller | violated |
| `map_collision` | ImplementsMap with two keys of one hash | violated |
| `http_stop` | NoCrash when stop() comes during a request | violated |
| `vector_values` | NoJunk for Vector<Value> with the real sizes | violated |

Some properties of the MC modules are conjunctions of properties that the
components' modules state under their own names; the comments there say what
each is about. The three that are refinements (`ImplementsRecursiveLock`,
`ImplementsList`, `ImplementsMap`) compare every call and its answer with the
abstract module.

### Findings

Disagreements between the code and its own words, each with a run:

- `unpause()` posts only if `_state` is already THREAD_PAUSED (Thread.cpp:200).
  Between the thread's test of `_do_pause` and its write of the state the
  wake-up is lost and the thread sleeps for ever.
- The second `_getThread()` of `runTask()` (ThreadPool.cpp:56) is not repeated;
  another caller may have taken the thread, and a null pointer is used.
- `testAcquire()` is not atomic, so `_waiter` may be posted twice
  (ThreadPool.cpp:132); a later `waitAll()` returns while tasks run.
- `Vector<Value>` copies its elements into a new block only when it grows
  (Vector.h:343). With the default sizes the removal from 64 to 63 elements
  loses them all.
- `Dictionary::_find()` compares hashes and never keys (Dictionary.h:394): of two
  keys with one hash only one can be in the map, and hasKey(), get() and
  remove() with the other mean its entry, although Map.h:42 speaks of "an entry
  with the key" and Dictionary.h:36 asks for the key's comparison operators.
- `HttpServer::final()` empties `_busy_pool` while requests are busy
  (HttpServer.cpp:516); such a request throws out of its thread when it removes
  itself.

Met while modelling, and left to the text because one reading settles them. The
models do what the code does; the runs keep to the inputs, named below, for
which the properties hold.

- Threads: pause() while the thread is inside _doPause() of an earlier pause
  finds no permit to take (Thread.cpp:191): the pause does not hold, and the
  next unpause() leaves two permits, so that a later pause does not either;
  ThreadPool and HttpServer pause threads that run (ThreadPool.cpp:116,
  HttpServer.cpp:556). A run ended by an exception never writes THREAD_DEAD
  (Thread.cpp:165); a managed thread whose task's initial() is false never
  completes it (Thread.cpp:441); two start() calls in a row both succeed.
- HttpServer: a request without a version that is not a GET is answered with
  the version of the request before (HttpServer.cpp:197); one connection as the
  maximum is less than STARTING_THREADS (HttpServer.cpp:375).
- radmin: monitor_stopped() sends without `_event_critsec` (Radmin.cpp:415)
  although line 361 wants all communication synchronized; getNextFtpPort()
  reads the port after the unlock (Radmin.cpp:65); removed value triggers are
  never deleted (Monitor.cpp:119).
- HTTP client: readAll() reads one byte less than it is asked for
  (TcpSocket.cpp:131), so the content lacks its last byte (HttpClient.cpp:74);
  of one byte it reads a length instead (ByteBuffer.cpp:306), so a
  content-length of 1 fails, and text may be taken that is not there yet. Of a
  line that goes on with a header only what stands behind a colon is kept, and
  one behind a repeated field replaces the first value (HttpHeaders.cpp:35-41).
- Network interfaces: an update that throws leaves the new objects in no list,
  for ever (linux/NetworkInterface.cpp:174-193), and setIP() with no address
  its socket open.
- Ping and trace: the socket's own request, come back on a loop, is taken for
  the reply (IcmpSocket.cpp:111); `_uid` is what 16 bits keep of the thread's
  id (:82), so two pingers may take each other's replies; from() of an error is
  the host that was pinged and not "the address from the message sender"
  (IcmpMessage.h:219, IcmpMessage.cpp:122-127), so that a router's
  TIME_EXCEEDED at the first hop completes a trace (TraceRoute.java:295); what
  is left of a time-out is counted in whole milliseconds, so packets that come
  faster keep the wait alive (IcmpSocket.cpp:122).
- Containers: addAt() right before the last element overwrites it; sort()
  never compares a range of two and an empty vector sorts up to UINT32_MAX
  (Vector.h:177).
- Strings and codecs: replace() by a text that has in it what is replaced never
  ends, and by "" only ends at the end of the text, where it leaves the length
  as it was and a NUL inside (String.cpp:399, 454); Val() of a negative number
  of more than 32 bits writes another number (String.cpp:1281); substr() up to
  the place it starts from is the whole rest (String.cpp:161, 745); hash() is
  kept when toUpper() and others change the text (String.cpp:299); += "" on an
  empty string writes into the shared constant (String.cpp:907); endsWith()
  never compares the first character; Base64's decoder does not skip foreign
  characters as it says (Base64.cpp:71); URI::asString() misses added fields
  (URI.cpp:51), and a URI with a query and a fragment is split wrongly.
- XML and JSON: of a chunk that begins with a mark, the text in front of the
  mark is the whole chunk, and so is an empty content (XML.cpp, by substr());
  writing an empty array crashes (JSON.cpp:298) and an empty object is not read
  again.
- XML-RPC: a double is put into the integer of the value and asDouble() reads
  what was never written (RpcValue.cpp:104, 182, RpcValue.h:93); of a text that
  begins with an entity the encoded form stays in front of the decoded one; a
  post that is cut short is executed (XmlRpcProtocol.cpp:127); the binary value's constructor from a parser always throws; removeService() and
  removeMethod() test the wrong way round (RpcProtocol.cpp:29, 67);
  writeToFile never changes the owner (RpcSystemService.cpp:447).
- Files: FS::Delete answers 0 for directories; MakeDir leaves the umask at 0;
  permissions of others are read from the owner's (FS.cpp:339, 344); a Copy of
  a link onto its own target deletes the target; Delete follows links
  (FS.cpp:631).
- Listeners (linux/FsObject.cpp): a change between the last look and pause() is
  missed until the next one, the thread asleep with its flag set (123-128);
  a start that fails in fcntl() leaves its descriptor open (54-65);
  `change_mutex` stays locked after an exception of stat() (32) and after
  stopChangeListener() without listeners (76).
- System: a process that another thread forks between pipe() and the parent's
  close() inherits the writing end of the output (Process.cpp:206-346), so that
  the output does not end with its child; `_total`, `_free` and `_used` are
  written without a lock, and two threads that refresh at once may leave the
  used memory of one beside the free memory of the other
  (linux/SystemInfo.cpp:168-172). RunAs loses error lines behind the last
  output line (System.cpp:196); packages are counted from one APIC id (SystemInfo.cpp:99); the Logger's walk
  may meet an output that was just deleted (Logger.cpp:361); waitpid() of a
  process that is no child reads as "not running" (linux/System.cpp:193).
- Others: ByteBuffer does not find `\r\n` in `\r\r\n` (ByteBuffer.cpp:215);
  readUntil() subtracts the time elapsed more than once (TcpSocket.cpp:70);
  IniParser::reparse() clears nothing (IniParser.cpp:57, IniParser.h:93);
  DateTime's `<` compares on one day only (DateTime.cpp:247); adding months up
  to a December gives month 0 (Date.cpp:228); Time::rescale() truncates
  negative seconds (Time.cpp:181).

### Bounds

Every bound is a constant of its module, given in the MC module or the cfg.

- Mutex: 3 threads, so that one waits while two hand over; depth 2, so that a
  partial release happens. The theorems remove both.
- Thread: 2 starts for restart; 1 where the owner may terminate. Calls are not
  bounded. ThreadPool: 2 threads, 3 tasks and one waitAll, so that the pool is
  full with a task waiting; 2 callers, 2 tasks and 1 thread where callers race
  for it.
- HttpServer: 3 connections for at most 2 requests, so that one waits at a full
  pool. Radmin: one monitor, two RPC threads so that two calls overlap, one
  transfer; the walk over transfers reads past the end with one already.
- Vector: block and first size 2, so that every second element crosses a
  boundary; 6 elements are two blocks above the first size. `vector_values` has
  the real sizes and up to 70 elements. Dictionary: five keys, two of one hash in
  `map_collision` only; trees of up to five entries, built and taken apart in every order, rotate in
  both directions, at the root and below it.
- TcpSocket: 5 bytes in pieces over a buffer that starts with 2, so that it is
  moved and grown; Socket: 2 objects, 2 descriptor numbers and 4 kernel sockets,
  so that numbers come back; HttpClient: every order of two header lines of
  seven kinds, and of three that are fields or go on, two calls; IcmpSocket: two
  requests and packets of other pingers, one of which has our id; TraceRoute: two hosts at different
  distances; NetworkInterface: three names, four objects.
- Process: 2 objects, 2 numbers and a stranger that may get one; ProcessList: 4
  births over 2 numbers; Files: up to 5 characters with a piece of 4 and a
  block of 2; FileSystem: trees of depth 2 over two names, four calls; Logger:
  two threads, three outputs; Directory: three names and three changes;
  SystemInfo: three machines, two callers.
- Strings: up to 3 characters in blocks of 2, and a replace() that would make
  the text longer stays where it is; Codecs: all texts up to 4 over
  ten characters that need every escape; XML: five documents cut into chunks of
  six lengths and read as a whole; JSON: nesting of two and all short texts of
  brackets and marks; RPC: arguments of every type, posts cut at five places.
  Integer widths are small powers of two where the algorithm only depends on
  the wrap (Random, hashes); dates cross a leap day, a year's end and
  a month's end in both directions.

Inputs the runs leave out because the code is known to fail on them:
`AddAtLast = FALSE` (Vector), `Decembers = FALSE` (DateTime), `Colliding =
FALSE` (Dictionary, but for `map_collision`), one-byte delimiters (`Delims`,
TcpSocket), `Reluctant = {}` (ThreadPool). Others are in the runs, and the
property says what it leaves out: a text that replace() tore (Strings), chunks
that begin with a mark and empty contents (XML), empty arrays and objects
(JSON), doubles, base64 and texts with an entity in front (RPC), URIs with a
query and a fragment, negative numbers of more than 32 bits (Codecs), header
fields that are repeated and go on (HttpClient), and the moments from which on
`missed` (Thread), `raced` (SystemInfo), `torn` (TcpSocket) or `half`
(NetworkInterface) record that the code has gone wrong.

`Patient` (Thread) and `Prompt` (ThreadPool) are timing assumptions: a thread has
reached what the last call was about before the owner ends a pause, cancels or
joins. They are not what the code guarantees: HttpServer and ThreadPool pause
threads that run, so Patient leaves pause() free, and the callers in the tests
do not wait between two runTask() (ThreadTest.cpp:430-438). Properties that do
not need them are checked without (PauseHolds, PauseSemBinary, TerminateEndsThread,
CrowdRight), and `thread_lostWakeup` shows what they are about.

CHECK_DEADLOCK is off where a behaviour may end: an object is destroyed, all
tasks are done, a text is read, or a bound on calls is reached. In `mutex` it
is on.

### Fairness

Weak fairness of each thread's own steps: the operating system schedules every
runnable thread. A method call is never forced, with two exceptions: a thread
that holds a Mutex unlocks it again, and run() of a task ends (strong fairness
of `RunDone`, because the loop may run it several times first). A blocked wait
is not enabled, so fairness promises nothing about it. In HttpServer readLine()
times out after 10 s and handlers return. In Radmin the daemon's loop, the
collector and a send go on; processes, signals, callers and the listener owe
nothing. In IcmpSocket select() returns within its time-out; in Process the
thread in terminate() goes on, whatever the child does; in Strings the thread
in replace() goes on.

## 4. What is proved

Each safety theorem follows one scheme: an inductive invariant `IInv` (under
the name given below) that holds initially, is kept by every action, one lemma
or step for each, and implies the property. Every such invariant also passed
TLC on the instances of section 3, but for clauses TLC cannot evaluate: those
that quantify over all sets and the types that mix strings and numbers.

| Module | Establishes | For |
|---|---|---|
| `Mutex` | MutualExclusion, UnlockVerdict, OneUnlockIsEnough, TypeOK, OwnerFieldNotStale; `Refinement`: ImplementsRecursiveLock | any threads, any depth |
| `VectorProofs` | TypeOK, Fits, GivesBack; NoJunk and `IsAList`: ImplementsList | any sizes and values; the last two for the pointer version |
| `Thread` | `ThreadStaysRight`: ThreadRight; `PauseIsKept`: PauseHolds | any number of starts, any set of methods; the second for every owner |
| `ThreadPoolProofs` | `PoolStaysRight`: PoolRight | any callers, tasks and sizes |
| `NetProofs` | `ServerStaysRight`: ServerRight | any connections, any sizes |
| | `MonitorsCollectedOnce`: CollectedOnce | any monitors, workers, transfers |
| | `DescriptorsStaySound`: DescriptorsSound | any objects, numbers, sockets |
| | `StreamStaysIntact`: StreamIntact | any bytes, pieces and sizes; delimiters of one byte |
| `Logger` | `LinesStayRight`: LoggerRight | any threads, loggers, outputs |
| `SystemProofs` | `ChildrenStayRight`: ChildrenRight | any objects and process numbers |
| | `ListStaysRight`: ListedRight | any numbers, births and deaths |
| | `WatchStaysRight`: WatchRight | any objects, calls and failures |
| | `DirectoryStaysRight`: DirectoryRight | any names and changes |
| | `InfoStaysRight`: SystemInfoRight | any machines, CPUs, callers and widths |
| | `TriggersStayRight`: TriggersRight | any triggers, data and actions |
| | `TraceStaysRight`: TraceRight | any hosts, hops and attempts |

**Mutex.** The inductive invariant says for each label what a thread there
knows: whether it owns the pthread mutex, what `_thread_id`, `_is_locked` and
`_counter` hold then, and how `held` relates to the pthread count.
MutualExclusion alone is not inductive: a thread that read its own id in
`_thread_id` must also be known to own the pthread mutex still. In the
refinement `++_counter` is the abstract Acquire, `--_counter` the abstract
Release, and every other step stutters.

**Vector.** Two facts about ROUNDUP (it rounds up, it is monotone) give what
resize() leaves; the strengthening is `Exact`: above its first size a vector has
exactly the block resize() would give it. Without it a removal that does not
resize could not be shown to leave the block tight. `IsAList` is the refinement,
call by call: the abstract list is the part of the block before `size`
(`Listed`, `ElementsAre`), and what memmove(), realloc() and an assignment do to
the block is what appending (`AddIsAdd`), inserting (`InsertIsInsert`), cutting
(`TakeIsDelete`) and replacing (`SetIsSet`) do to the list, with the same
answer. NoJunk and `IsAList` need `Pointers` and no insertion right before the
last element (`~AddAtLast`), the two conditions without which the code does lose
elements.

**Thread.** For every owner: the types, what each label says of the other fields
(`Labelled`), and `Pauses`: until a pause() has missed the permit there is at
most one, and while a pause is asked for it is neither free nor with a thread
(`Shut`), but for the moment in which pause() is about to take it. This needs
that unpause() posts only after it has ended the pause. For a patient owner that
never kills: `Spared` (nobody is killed), `Running` (what runs is the pthread of
the last start, and `_state` is DEAD when none does) and `Finals` (final() comes
last).

**ThreadPool.** Whatever the timing: `Labelled`, `Vectors` (each thread made so
far is in one of the two vectors, once) and `TaskOnce` (a task is with one
caller, with one thread, or done). If threads reach their pauses in time
(`Prompt`), `InTime` adds the life of a thread: it rests in a pool or with the
caller that took it, is woken by that caller, and works with a task until it
has moved itself back. `Blocking` ties `_blocker` to the two sizes, and
`Awaiting` ties `_waiter` to the busy vector; they need one caller (`OneCaller`;
`pool_twoCallers` shows why), and the first a pool of at least one thread whose
minimum is not above its maximum (`SizesFit`), the second a single waitAll()
(`pool_waitAll` shows why).

**HttpServer.** `Pools` (a request rests in the available pool or is busy, and
only final() may empty the busy one), `Sockets` (a connection that is accepted
has a busy request, and nobody else's), `Answers` (what is sent over a
connection follows from how far its request has come and what it read) and
`Blocker`, which needs `Fits`: a maximum of at least one that is not below
STARTING_THREADS. A request keeps its version between connections, so the
invariant must say of a request in handle() that the version is this client's or
that the client is one of those the property leaves out.

**Radmin.** `Collected`: a monitor in the collector's hands has left its loop
for good, and one in a call of the channel has not. So no answer of the channel,
late or refused, moves a monitor that was handed over.

**Socket.** `SocketInv`: as long as no Descriptor was shared, each is right about
the kernel socket behind its number (`AllRight`), no two hold one number
(`Apart`), and every number the kernel has given out is held by somebody
(`Held`). A number that comes back is then one that nobody holds.

**Logger.** `Counts`: an undisturbed walk has given its message to exactly the
outputs before its index, which needs that no output is twice in the vector
(`Distinct`); `Heads`: whoever is in a line of an output with a mutex holds it
and wrote last; `Guarded` and `InFront`: only the holder of `__mutex` finds the
vector empty. That a walk may hold an index past the end, or an output that was
deleted meanwhile, is part of the reachable states (`Walking`).

**TcpSocket.** `StreamInv`: what the calls returned, what lies between `_pos` and
`_length`, and what recv() has not returned yet are together what the peer
wrote, and the block never grows beyond what resize() makes of its limit
(`Limit`). The limit is needed: resize() to the limit would lose a byte that
waits in the last place, unless the block was below its limit or had room, and a
full block at its limit throws. The lemmas follow the bytes through moveStart()
(`WritableKeeps`), realloc() (`ResizeKeeps`) and recv() (`BufferedRecvKeeps`).
An exception in `_bufferedRecv()` leaves the buffer in write mode (`torn`), and
the theorem ends there.

**Process.** `Forked`: an object that is being terminated still has its child,
so the number it signals cannot have been given out again; this needs that
isRunning() and waitFor() of another object reap their own child only. `Piped`:
a process that has ended holds no pipe, and the parent holds of an object whose
constructor is over only its own sides; so a child that was forked outside the
constructor of another object has none of its writing ends, and those forked
inside are its `heirs`.

**ProcessList.** `Reading`: the pids up to the entry have been read, all but
the last have been looked at, and nothing is removed before the walk is over,
so that the new ones are the list without the list before. remove_dead() then
removes exactly what was not read.

**Watch.** On every path of startChangeListener(), those that fail included,
what notifies, what is open and what is entered as a listener change together,
and `failures` counts what nobody will close; `changed` is set by the handler
alone and forgotten before a wait.

**Directory.** `ReadSoFar`: what was there all the time has been read or is
still to be read, what never was is in neither, and every name read is a child.
While the others are removed one by one, all that was read stays (`OneEach`
makes the name enough to find the child).

**SystemInfo.** `Constructed`: after one pass over the CPUs there is a package and
the affinity is the first one. `LinesRead`: a CPU's load is the difference of its
last two readings unless its mutex is held, and then what was seen is the one
before; `LinesLeft`: two callers are never at one line. `MemoryAdds`: until two
callers have been in update_memory() at once, one is there at most, and what it
is about to write as used is the total less the free memory.

**Triggers.** `Loop`: the vector from the index on is the end of the vector there
was when the loop began, shifted by what has been erased so far, and the
listeners have heard of exactly what was met before. `Freed`: a trigger is in one
vector, deleted once, or removed.

**TraceRoute.** `Working`: the traces the runner has before it are different and
not complete, but for the one it is removing, and between a ping and its answer
the hop is the last one and lacks an attempt. `Traced` is what the property
says; it all holds as long as there is one runner, and runners are never
forgotten (`RunnersStay`).

Hypotheses. `Parameters` of a module says that its bounds are naturals and that
special values (`None`, `NoTask`, `Daemon`) are no ordinary ones; it is a
conjunct of what the run checks, so TLC evaluates it for the constants of the
run. The ASSUMEs are evaluated in the runs of the modules that extend them: the
sizes of a block (Vector, TcpSocket), special values that are no process,
object or file name, numbers that are naturals, one attempt per hop at least,
and for TcpSocket that a delimiter has one byte, as all that the program itself
asks for have (HttpHeaders.cpp:26, HttpServer.cpp:159).
`Patient`, `Gentle`, `Prompt`, `OneCaller`, `SizesFit`, `Fits`, `Pointers` and
`AddAtLast` are conditions on use and are said where they are needed; everything
else in the theorem holds without them.

Only model-checked:

- liveness and whatever is said with ENABLED (WaiterProgress, UnpauseWakes,
  StopsInTheEnd, WorkIsDone, ServersGoOn, DestroyEnds, WaitEnds, LoopsEnd),
  which the proof system does not treat under fairness;
- what recursive definitions compute: the codecs, the parsers of URI, XML, JSON
  and XML-RPC, dates and random numbers (CodecsRight, DocumentsRight,
  ArithmeticRight), the block of a String and what the searches find in it
  (StringsRight), lines and trees of files (FilesRight), the walks over
  the tree of a Dictionary (WellFormed, ImplementsMap), header lines and
  the lists of interfaces (AnswersRight), which need induction over data;
- CrowdRight is what PoolRight says with two callers of any timing, on an
  instance of its own; `PoolStaysRight` covers it but does not name it.

## 5. What is not modelled

- Singleton: forty lines around one lock; the models of SystemInfo and
  ProcessList start from the one instance. Console: escape sequences and
  blocking reads. Datagram and multicast sockets, addresses: one system call
  per method. CheckSum: a sum over bytes. The Java GUI: a client program.
  Windows and OS X branches.
- Destructors of ThreadPool and HttpServer, a second start() of the server,
  sort and copy of Vector, thread priorities and names, socket options,
  formatting of dates and numbers, CPU loads of processes (floating point),
  questions about a single path, the text of headers, help and log messages.
- `pthread_cancel` hitting a thread inside a hook of the user that holds a lock
  of the user.
- Memory is sequentially consistent: each read of a field sees its last write,
  and threads interleave between any two accesses.

## 6. Plan

1. Proofs: InBlock of Strings along the lines of `VectorProofs`; that
   NetworkInterface deletes each object once, apart from what the filters over
   its lists compute.
2. The destructors of ThreadPool and HttpServer, and a restart of the server.
3. quicksort of Vector against a sorted permutation.
