# A formal model of aml_commonlib

TLA+ specifications of the parts of this repository in which processes, threads,
crashes or a peer can get in each other's way; TLC configurations that check
them on small instances; and TLAPS proofs of their central invariants. The
source is the reference: definitions carry the names of the functions they
translate, and `PROJECT.json` maps each of them to its lines.

    tlc -config UBootEnv.cfg MCUBootEnv        # model-check
    tlapm UBootEnvProofs.tla                   # check the proofs

## 1. Inventory

The repository is a collection of small libraries and daemons for Amlogic
devices. They do not form one program; they meet in shared storage (the U-Boot
environment, the misc partition), in sockets and on D-Bus.

| Part | State | Operations | What is hard | What makes it correct |
|---|---|---|---|---|
| **ubootenv** | private key/value list per process; an image of the environment partition in `/dev/shm/uenvShm` with a spin lock, a reference count and a revision; the partition | `bootenv_init`, `bootenv_get`, `bootenv_update`, the destructor | processes share the file; the lock times out; a holder may be killed; errors reset the reference count; erase before write | exclusion, a fresh list, an image that outlives its users, durable updates |
| **bootloader_message** | the misc partition: recovery command, OTA path, slot; with `BOOTCTOL_AVB` an `AvbABData` with priority, tries and success mark per slot | set/clear recovery, set/clean OTA path, `set_active_slot`, `set_successful_boot`; the bootloader reads the result | read-modify-write with no lock; power loss between erase and write; calls out of order with restarts | an operation keeps the fields it is not about; the slots are ranked; the slot an update replaces stays bootable |
| **aml_socketipc_v2, client** | one global connection, status, heartbeat counter, two mutexes | `ClientInit`, `ClientExit`, `ClientWriteMsg2Server`, dispatcher and heartbeat threads | two threads reconnect; blocking reads of sockets others close; cancellation | no descriptor lost, connections registered, reconnection ends, messages are received |
| **aml_socketipc_v2, server** | list of registered clients, queue of messages | `ServerInit`, `ServerExit`, `EnqueueServerMsg`; epoll, sender and heartbeat threads | both lists are changed by two threads, one of them without any lock | messages reach exactly the registered clients, in order |
| **aml_socketipc (v1)** | list of served channels, one service thread, peers, function table, loop depth | open and close a channel, call with timeout, register, run and leave loops | an answer after its timeout; a channel opened while the last one closes; loop depth without synchronisation | an answer belongs to the call that takes it; a listed channel has a thread |
| **aml_property_server** | temporary, persistent and read-only properties; subscribers; D-Bus service and client | get, set, list, subscribe | a change and its signal are two steps of a server that may end between them; a client that holds its lock while it waits for the dispatch thread, which takes it to deliver | who subscribed hears of every change; no two threads wait for each other |
| **aml_dbus** | event loop, task pipe, free list of delayed tasks | post, delayed post, synchronous and asynchronous calls, shutdown | reuse of delayed tasks; waiting for the dispatch thread from inside it | every task runs once, with its own parameters |
| **aml_wpa_wifi_util** | scan state, connection status, networks | scan, connect, remove; event and connection monitors | state written after the command was sent; several monitors share one pending id | results are new ones; the table of networks is the supplicant's |
| **utils/events_process** | key queue, last key down | process, enqueue and wait for keys; detached timer threads | a timer that uses a key event after it was deleted; a full queue | long presses belong to the key that is down |
| **utils/auto_shutdown** | USB and Bluetooth state, one interval timer | start and stop on activity | two threads check and start without a lock | no shutdown while something is active |

The last four share no state with each other or with the rest and are checked side
by side. Sequential device tools (unifykey, aml_deviceproperty, fota_upgrade,
battery_monitor, the USB, Wi-Fi-driver and audio-clock programs), test drivers
(aml_dtv_test) and copies of Android code (libbinder, liblog, logcat, libatrace,
logwrapper, tinyalsa, the Bootstrap files of web-ui-wifi) are not modelled; the
`components` of `PROJECT.json` say why for each, and its `hazards` list what is
hard to test, line by line.

## 2. The modules

| Module | Models | Extends |
|---|---|---|
| `UBootEnv` | `ubootenv/ubootenv.c` | |
| `MCUBootEnv` | instances: first content of the partition, symmetry of processes and files | `UBootEnv` |
| `UBootEnvProofs` | theorems: types, mutual exclusion | `UBootEnv`, `TLAPS` |
| `UBootEnvImageProofs` | theorems: image, counts, partition | `UBootEnvProofs` |
| `BootControl` | `bootloader_message/bootloader_message.c`, `bootloader_avb.c` | |
| `MCBootControl` | instances: slots, symmetry of processes | `BootControl` |
| `BootControlProofs` | theorems | `BootControl`, `TLAPS` |
| `SocketClient` | `aml_socketipc_v2/common/socket_client.c` | |
| `SocketClientProofs` | theorems | `SocketClient`, `TLAPS` |
| `SocketServer` | `aml_socketipc_v2/common/socket_server.c`, `util_list.c` | |
| `MCSocketServer` | instances: which client registers for what | `SocketServer` |
| `SocketServerProofs` | theorems, the refinement of `MessageQueue` among them | `SocketServer`, `TLAPS` |
| `MessageQueue` | abstract: what the queue of messages promises | |
| `PropertyBus` | `property-client.cpp`, `property-server.cpp`, `property-db.cpp`, the calls of `aml-dbus.c` under them | |
| `MCPropertyBus` | instances: which thread subscribes to what | `PropertyBus` |
| `PropertyBusProofs` | theorems | `PropertyBus`, `TLAPS` |
| `SocketIpc` | `aml_socketipc/aml_socketipc.c` | |
| `SocketIpcProofs` | theorems | `SocketIpc`, `TLAPS` |
| `WpaWifi` | `aml_wpa_wifi_util/aml_wpa_wifi_util.c` | |
| `AutoShutdown` | `utils/auto_shutdown.c` | |
| `EventsProcess` | `utils/events_process.cpp` | |
| `MCDeviceServices` | instance of the last four, side by side | `SocketIpc`, `WpaWifi`, `AutoShutdown`, `EventsProcess` |
| `DeviceServicesProofs` | theorems about `WpaWifi`, `AutoShutdown`, `EventsProcess` and the four together | `MCDeviceServices`, `SocketIpcProofs` |

### UBootEnv

One process is one element of `Procs`; its static variables are `map`
(`gs_env_shm_info`), `inited`, `kv` (`gs_kv_header`) and `curRev`. Shared files
are elements of `Inodes`, because unlinking a file frees its name and leaves the
mappings alone: two files can be in use at once. Each has the fields of
`uenv_img_shm_info`. A call is a sequence of steps cut where another process can
get in between: the accesses to the lock, the two halves of
`env_serialize_data`, the CRC, the erase, the write, the unmap and unlink. Steps
that run between them touch nothing shared, or run under the lock.

* A CRC is represented by the content it was computed over. It is right exactly
  when it equals the content it stands beside; collisions are left out.
* `LockTimeout` is the exit of the spin loop after its thousand tries. It is
  possible whenever the lock is taken: the holder may be slow or gone.
* `ProcCrash` kills a process between any two steps, `Reboot` ends all of them
  and empties `/dev/shm`; a write in progress is then torn.
* Left out: the heap fallback without `/dev/shm` (there nothing is shared), the
  search for the partition (`IsMtd` is its result), the wrap of the 32-bit
  revision, keys of the length limits, short writes that return no error, and
  the pointer `bootenv_get` returns, which the next reload frees. `gs_kv_lock`
  only protects threads of one process from each other; a process has one
  thread here.
* History variables record the events after which the library keeps fewer
  promises; the properties name them as conditions, so each property says exactly
  what it can fail by. `forced` (a process passed the lock by timeout), `split` (a
  file was made while an older one was mapped) and `dirty` (a save failed) are of
  the state in memory. `torn` is of the partition and outlives a restart: the last
  save was cut off between the erase and the write, or in the write by a power
  failure, or its write failed after the erase, or it shared the image with
  another writer after a timeout. The next proper save resets it. `FlashValid`
  excuses nothing else, so every other kill, failure and power loss leaves a valid
  partition.

### BootControl

A call is a `Read` of the partition into `seenMsg`/`seenAb`, and `WriteMsg` or
`WriteAb`, which write back what the call makes of that copy; on NAND
`nand_erase` comes in between. Between the two, other processes and restarts do
what they like. `Avb` selects the build and `IsMtd` the device. The bootloader
is not in the repository: `Boot` does what the comments on `AvbABSlotData` and the
use of the fields ask of it (choose the highest priority, use up a try unless
the slot is marked, give up a slot without tries) and is marked external.
`want`, `lost`, `torn` and `booted` are history variables. `FallbackBootable` is the
way back after an update: a slot with the success mark keeps a priority, through
what the calls leave to the other slot (`set_active_slot`, `boot_info_reset`), lost
updates and restarts. That the bootloader then takes it is not this code's doing. An erased block reads
as `junk`. Left out: bad blocks, `status`, `stage` and `roll_flag`, writes that
stop half-way on eMMC, the formatting of slot suffixes, and calls that only read
(`get_recovery_otapath` rejects paths that `set_recovery_otapath` accepts: longer
than 255 characters, or not beginning with `http`).

### SocketClient

The threads are `main` (the caller of the API), `dispatch`
(`serverMessageDispatchWorker`) and `detector` (`heartBeatDetector`); `pc` says where
each is, and their steps are cut at every system call, mutex and access to the
shared connection. A connection is an element of `Conns`: an open file, which
lives while `sockfd` names it or the dispatcher is blocked in a read of it. What
the client can see of the server is external: it registers a client when the
REGISTER message arrives, sends to registered clients, goes down and comes up,
or is lost without a FIN (`Hang`). A descriptor that was closed is `NoConn`,
although the code keeps the number: system calls with it fail as they do in the
model, as long as the rest of the process opens no files in between. Left out:
the application's handlers (`initClientData` drops the disconnection handler),
partial reads within a header or a body, and running out of descriptors.

### SocketServer

The threads are `app` and `beat`, the callers of `EnqueueServerMsg`, `sender`
(`messageSenderWorker`) and `epoll` (`epollEventHandlerWorker`). `serverMsgsList` is
modelled pointer by pointer (`head`, `tail`, `next`), because `push_back` runs under
`serverMsgsMutex` and `pop_front` without it: their assignments are steps of their own
where the order of the two matters, and run together where it does not. A
message is its node, numbered in the order of the mutex. `clientFdList` is a
sequence that the epoll thread changes in one step; the sender reads a node, writes
to its descriptor and goes to the next node in three.

* A node that was freed reads as anything: the process may end, or the sender
  writes to any descriptor and goes on at any client (`Corrupt`; `ub` records it).
* Descriptors are numbers that `accept` uses again, the lowest first. A write to a
  client that has hung up is answered by a reset, and the next one ends the process
  with SIGPIPE. A client that closes with unread messages resets the connection:
  `readn` then returns -1 and the header is not initialised; either the body on the
  stack overflows it (`EpollOverflow`), or the read of the body returns 0.
* Where `pthread_cond_signal` finds the sender asleep, the sender moves to the mutex.
* `ServerExit` cancels and joins one thread after the other. Each stays where it was
  cancelled, so one step at which all three are at such a place has the same
  results. It closes no client and not the epoll set.
* A client registers as often as it likes: `handleRegisterMessage` looks for no
  earlier node, and `ClientInit` itself registers a second time what the dispatcher
  has reconnected meanwhile. A node of `clientFdList` is a pair of the client and the
  number of its REGISTER; `regs` counts those handled, `turn` is the one for which the
  client was offered its last message. `deleteIntNodeWithValue` deletes all nodes of a
  descriptor. What the client has sent is read when epoll gets to it, so that a
  REGISTER may be handled long after the connection was made, or when its client
  has gone. The bitmap is taken to be the same in each REGISTER of a client, as the
  client library sends it.
* A message without a body makes `readn` return 0, and the server drops the client as if
  it had hung up (`EpollEmpty`).
* Left out: messages from clients (the handler belongs to the
  application, which is `app`), bitmaps of more than four digits, which
  `clientRegister2Server` cuts off, parts of a message, the rest of a message that
  does not fit into the socket buffer (it is dropped: `offered` is what `writen` was
  given), running out of descriptors, and reordering of plain accesses by the
  processor.

`SocketServer` implements `MessageQueue` (`ImplementsQueue`): messages are put at the
end, the first one is offered to connections, then taken; `Stop` empties the queue.
The mapping is `waiting` = the nodes in the order of their links, from `head` to a node
without one (`InList`: the sequence that `Chain` describes), `last` = the number of nodes
pushed without one that is not linked yet, `served` = the connections the first
message was offered to, `broken` = `overlap`, `ub` or the end of the process: from then
on the abstract queue promises nothing either.

### PropertyBus

Client threads call `set`, `subscribe` and `unsubscribe` of the property library. Each
connection (`ambus_signal`, `ambus_method`) has its dispatch thread and task pipe;
`m_lock` is the lock of the client library, not recursive. A call is cut where
it posts a task, waits for a flag, takes the lock or changes the list of callbacks.
The server serves one call at a time: the change (`ServeSet`) and the signal of it
(`EmitSignal`) are two steps, between which it may crash; systemd starts it again
(`propertyserver.service`, `Restart=always`), and it loads its defaults and what was
persistent. `view` holds what subscribers were told, to compare with the server.

* sd-bus and the bus daemon are external: signals of one sender come in order; a
  match that is added while a message is being dispatched does not see it;
  `AddMatch` succeeds.
* `Audience` fixes who gets a signal when it is sent, by the matches there are then.
* A callback may set a property, or subscribe (and then it locks `m_lock` twice).
* A call that fails leaves `RET ret` unset (`aml-dbus.h:828-834`), so `set` may return
  true though it failed: both results are possible.
* The event of a deleted property carries the old value and the action "deleted"; it
  is modelled by the absence of a value. Keys and values are those after trimming;
  `load_device_properties` stores the names and values of the file untrimmed, so a
  name with blanks around it is another key: `Device` is what the file gives to each
  of `Keys` under its exact name.
* A restart reads the database and writes to it what the file adds. The open of the
  database may fail (then it is as if empty, `NoDb`), and so may the write (`Unwritten`):
  then only what the database had and what is read-only is there.
* Left out: `get` and `list`, which change nothing, and delayed tasks: a delayed
  task is given back to the free list before its function is called
  (`aml-dbus.c:79`), but nothing in the repository posts one.

### SocketIpc

Handles are channels, `serv_list` the list of those that the service thread reads;
`ipc_open` and `ipc_close` are cut at the mutex, the join of the thread and the
release of the handle. A peer calls one function at a time; an answer is the
number of the call it answers, in the order in which the other end wrote it, and
a timeout leaves it in the socket.

* `ipc_close` unlinks a handle only when it is the first of the list (`tmp_prev` is read
  before it is set). After a use of a released handle (`misused`) nothing is followed;
  the search of `ipc_close` itself may come past one (`Searched`).
* `ipc_close` of the peer of an `ipc_open` that failed follows a handle that is not there
  (`CloseFailed`).
* After a `bind` that failed there may be two service threads (`failed`).
* `ipc_exit` joins the service thread with `serv_mutex` held, while that thread may be
  waiting for the mutex: the join may then never end, which the model keeps.
* Left out: nested loops (`ipc_run_loop`, `ipc_exit_inner_loop` with their unsynchronised
  `loop_level`), registration, the packing of arguments, and that `select` does not
  get its time back after an interrupted wait.

### WpaWifi

`ui` is the one application thread, `monitor` the event thread, `joined` and `timedout`
count the detached connection monitors that wait or have timed out. wpa_supplicant is
external: its networks are `networks`, its events come at any time, in any order,
and may be lost (requests on the shared socket throw away events they find there).

* Steps are cut where a reply is waited for or a lock is given back. The removal of
  a network checks its identifier without the lock (`RemoveCheck`) and removes it under
  it (`RemoveNetwork`): a connection monitor may shift the table in between.
* `wpa_wifi_init` finds wpa_supplicant with any networks, with gaps in their
  identifiers and networks without a name (`Blank`). `TableRead` is what
  `init_network_info` makes of them: all of them in their order, or fewer because the
  reply was cut, within a name too, or none because the request failed, which
  `wpa_wifi_init` does not report. `misread` says that the table is not that of
  wpa_supplicant from the start.
* Any request about networks may fail, or be carried out though its reply is lost.
  `ADD_NETWORK` that fails this way makes `SET_NETWORK` write to whatever network the
  old contents of the buffer name. `MayFail` bounds this to one such request in a
  behaviour that did not begin with `misread`: after either the table is lost anyway.
* The status under the lock and the identifier after it (187-198) are assigned in one
  step (`Connected`): nothing reads the two together in between.
* `overlapped` (networks were changed while a connection was pending), `giveup` (the
  connection to a known network failed), `faulted` (a request was not carried out as
  it was meant) and `misread` are history variables that the properties name as
  conditions.
* `BSS_FLUSH` is given a network id as an age in seconds; it is taken as a flush.
* A reply stolen by the event monitor ends the process (`strchr(...) + 1`) and adds
  no state. `MAX_NETWORKS` is not checked by the code: `NetIds` bounds the runs.
* Left out: priorities, credentials, `SAVE_CONFIG`, the parsing of results, uninit.

### AutoShutdown and EventsProcess

`AutoShutdown` has the main thread (USB, keys) and the Bluetooth thread, which share
one interval timer and check each other's state without a lock; the check and the
start are two steps. `timer = "fired"` ends it: the device goes down. Two reads
are one step where only one of the two variables belongs to the other thread.

`EventsProcess` has the input thread, the detached long-press timers and the reader
of the queue. A press is its number, an event a record with the number of its press;
the code finds events by key, so what it finds may be another press. `time_key` looks
750 ms later, when its event may have been deleted (it then reads as anything) or its
key be down again. All devices feed the one input thread, so a key may be pressed
twice without a release, released without a press, and repeated (`KeyRepeat`, value 2,
which only sets `last_key`). `key_pressed` is left out: nothing reads it. `WaitKey` is one
step. A release that is dropped (short interval,
full queue, another key down) or a key that a timer queues puts entries and events
out of step (`orphaned`, `repeated`): a condition of `PressesKept`.

`MCDeviceServices` lets one of the four run in a behaviour (`component`): they share
nothing, so interleaving them would only multiply states.

## 3. The runs

| Run | Question | States | Time |
|---|---|---|---|
| `ubootenv_safety` | `MutexUnlessForced`, `CacheCoherent`, `RefcntCoversUsers`, `UpdateReachesFlash`, `FlashValid` on MTD | 1 438 787 | 50 s |
| `ubootenv_live` | every call returns | 59 514 | 15 s |
| `ubootenv_assert` | does the assertion in `envimg_buffer_unlock` hold? No. | | seconds |
| `bootcontrol_avb` | `RequestKept`, `NoTie`, `MarkKept`, `FallbackBootable` with A/B metadata | 131 658 | 16 s |
| `bootcontrol_mtd` | `RequestKept` on NAND | 211 531 | 7 s |
| `bootcontrol_mark` | is only a booted slot marked successful? No. | | seconds |
| `client_threads` | `NoLeak`, `SettledRegistered`, `StatusSafe`, `ReconnectEnds`, `ExitReturns`, `ReadsUnlessHung` | 108 574 | 40 s |
| `client_receives` | is the new connection read after a heartbeat timeout? Not always. | | seconds |
| `server_threads` | `ListedOpen`, `QueueIntact`, `Complete`, `InOrder`, `Addressed`, `Drains`, `HangupCleaned`, `ImplementsQueue` | 921 387 | 205 s |
| `server_loses` | is every message that was enqueued sent? No. | | seconds |
| `property_bus` | `FeedCoherent`, `CallsReturn`, `CatchesUp` | 1 324 077 | 210 s |
| `device_services` | `ServedWhileListed`, `OwnAnswer`, `FreshResults`, `TableAgrees`, `TimerAgrees`, `PressesKept` | 4 597 376 | 210 s |

What the properties say is written above each of them; what they show:

* **ubootenv.** As long as no process passes the lock by timeout, the lock
  excludes. The revision is a sound test for a stale list and the reference count
  covers every user although errors reset it to 0: both hold because a valid image
  stays valid while it is in use, and fail only after a timeout or when two
  files were in use (`split`: a file was created while an older one was still
  mapped, which the unlink after the unlock allows). An update that returns 0 is
  on the partition, except after an earlier one that failed: then the value is
  in the list, and setting it again returns 0 without writing. Kills and power
  losses leave a valid partition, but for those inside the erase and write of a save.
* **boot control.** Every call keeps the fields it is not about, except where two
  calls overlap or an erased partition stays unwritten. The ranking of the
  slots survives even lost updates. A success mark is lost only by activating
  that slot, by a reset, or by a lost update. A marked slot can always be booted,
  also after another one was made active and did not start.
* **socket client.** `reconnectionMutex` makes the two reconnecting threads take
  turns: nothing is lost, closed twice or left unregistered, and neither blocks
  the other for good.
* **socket server.** The unlocked list of clients costs less than it seems: unless
  the sender is on a node at the moment it is freed (`ub`), nobody who stays is
  passed over, nobody is sent messages out of order or one more often than it
  registered (a client that registered twice is sent everything twice), and a message
  goes astray only when its descriptor is closed and used again before the write
  (`recycled`). The unlocked `pop_front` does harm only when it takes the last
  node while a message is appended (`overlap`). Until then the list is a queue.
* **properties.** What a subscriber was told leads to what the server has, change by
  change, except for those lost with a crash of the server, which the subscriber
  cannot notice (`FeedCoherent`, `CatchesUp`). Calls return unless a thread that
  holds `m_lock` waits for the dispatch thread while that waits for `m_lock`, or a
  callback subscribes: the condition of `CallsReturn` names exactly these.
* **socket IPC v1.** A listed channel has its service thread through every overlap of
  opening and closing. The socket is never flushed: each timeout makes the answers
  of later calls one call older, and nothing else does.
* **Wi-Fi.** The order of flags around `SCAN` suffices: whatever others scan, results are
  read only after a flush. The table loses track only by the four events named, of
  which one is a listing that failed or was cut short at the start.
* **shutdown.** The two threads agree on the timer up to one race (`raced`) and one
  sequence (`uncalled`: a call on a device whose connection was not reported).
* **keys.** A timer marks only the event of its own press, while that is down, and an
  entry of the queue finds the event it was queued for, until a release is dropped or
  a timer queues its key (`orphaned`, `repeated`).

Four runs find what a comment, an assertion or a diagram of the repository
says and the code does not do; they are the `findings` of `PROJECT.json`:

1. `ubootenv.c:106`: after a lock timeout two processes are in the critical
   section; the first unlock frees the lock and the assertion aborts the second.
2. `bootloader_avb.c:45`: `set_successful_boot` marks the slot of the highest
   priority instead of the running one, so a slot activated but not yet booted
   can be marked.
3. `timing_diagram.md:27,37`: after a reconnection by the heartbeat thread the
   dispatcher stays in `read()` of the closed socket; no message or heartbeat is
   received, and the detector reconnects at every check.

4. `timing_diagram.md:35-36`: a business message is lost when it is appended while
   `pop_front` removes the last one.

`ExitReturns` has one exception, `Orphaned`, which the run does reach: a dispatcher
cancelled inside a reconnection leaves its mutex locked, the detector waits for
it, and `ClientExit` waits for the detector.

### Bounds

* Two processes: the interference of every property is between two. Two
  `Inodes` are the name and one unlinked file; two shared files and a third would
  need three processes.
* `MaxInits = 3`, `MaxUpdates = 2`: both processes load and one loads again after
  an error or a crash; two updates let one see the other's. One key and two
  values distinguish old from new; `Check` and `SerializeFill` act on keys
  independently. `RWRetry = 2` (5 in the code) has a first and a last try.
* `MaxFaults = 1`, `MaxCrashes = 1`: one failing system call and one crash, each
  at any place, also in one behaviour.
* Boot control: `MaxOps = 4` calls, three (two) restarts, `MaxTries = 2` (7 in the
  code): what matters is a try left and none left. `MaxPriority` is the real 15.
* Client: a second `ClientInit` after `ClientExit`, one stop of the server and one
  silent loss; two sockets, the current one and the one still being read.
* Server: two clients, so that one can hang up and leave its descriptor to the other,
  and a walk has a next node; one of them registers for the one business type,
  twice (`Again = 2`), the other once for heartbeats only.
  `MaxMsgs = 2`: the race is between the removal of one message and the append of
  the next. One `ServerInit`; `server_loses` needs one client.
* Properties: two threads with four calls between them, a persistent key with a default
  and a temporary one, two values, two callbacks, one crash of the server: enough for
  a change between the parts of a `subscribe`, for a callback that calls, and for
  two threads that wait for each other.
* Device services: two handles, two threads that open and close them, two service
  threads, one peer with two calls; two identifiers and two interchangeable names of
  networks (symmetry), every table and every reading of it at the start, two
  connections, one removal and one request that fails; all states of the shutdown
  service; two keys, one of them with long presses, a queue of two entries (256 in the
  code), three presses.
* Safety does not depend on the fairness; where the counters end, the model
  merely stops, so `CHECK_DEADLOCK` is off.

### Fairness

* `UBootEnv`: a process inside the library is scheduled (`WF` of its steps).
  `CallsReturn` needs nothing of the other process, which may have been killed
  with the lock.
* `SocketClient`: strong fairness of each thread. They wait for mutexes that others
  give back and take again ten seconds later, and are cancelled only at the next
  cancellation point: a thread that can go on again and again does. The server
  sends heartbeats (`WF`); nothing is assumed of its going down, so the
  properties say "when the server stays up".
* `SocketServer`: weak fairness of a thread inside `EnqueueServerMsg`, of the sender, and
  of what the epoll thread does about a connection that has ended. Appends are few
  and short, so nobody needs more to get the mutex; clients and the application may
  stop, and no client has to connect, register or send.
* `PropertyBus`: weak fairness of each client thread inside a call, of the dispatch
  threads, of the start of a connection and of the server, which systemd starts
  again. It is assumed that callbacks return.
* `BootControl` and the four device services have no liveness property and need none.

## 4. The proofs

Everything below holds for every value of the constants: any number of
processes, files, keys, sockets, and no bound on calls, faults or crashes (the
bounds are parameters). The assumptions are those stated in the modules: markers such
as `NoInode` or `NoCrc` are not ordinary values, sets that are chosen from are not
empty, and `Procs` is finite (a reference count counts them).

* `UBootEnvProofs`: `Invariance` (`IInv = TypeOK /\ MapOK /\ MutexUnlessForced` is
  inductive), `TypeCorrect`, `MutualExclusion`. `MapOK` is the strengthening: where
  a process must have the image mapped, and which of `bootenv_init` and `_deinit`
  it can be in. Without it a step that writes through `map[p]` could write anywhere.
* `UBootEnvImageProofs`: `PartitionValid` (`FlashValid`) needs only that what is about
  to be written carries its own CRC unless a lock was passed (`Written`), and that
  every way out of a save between erase and write is a proper end or sets `torn`. `ReferencesCovered`, `ListsAgree` and
  `UpdatesReachFlash` rest on one invariant, `CInv`, because none is inductive alone:
  the reset of `refcnt` to 0 is harmless because a file with references has a
  valid image (`Counted`), an image stays valid because one process at a time saves
  it and finishes it (`Saved`, the lemma `Alone`), a list is as new as its revision
  because nobody is ahead of the file (`Behind`) and a save raises the revision
  above everybody else's, and an update that finds its value already set returns 0
  rightly because a valid image is the partition's unless a save failed (`Counted`
  again). `Failed` follows a process that found the image invalid until it lets go.
  Cardinalities come from the library's theorems on finite sets.
* `BootControlProofs`: `SlotsRanked`, that is `NoTie`. The invariant adds that the
  copy every call has read is ranked too: a lost update writes an old copy back,
  and an old copy was ranked when it was read. It uses no assumption about who
  interleaves with whom, which is why it holds without a lock. `FallbackStays`
  (`FallbackBootable`) adds that a running system was started from a slot with a
  priority, and that every copy in the hands of a call was read while it ran
  (`AInv`): so the slot that `set_successful_boot` marks, the highest, has one. `TypeCorrect` and
  `MarksKept` need that a mark is set only by `set_successful_boot` and that only NAND is
  erased (`Marks`). `RequestsKept`: as long as nothing was lost or torn, on NAND each
  call is in one of four situations (its copy is still the partition's, it is the one
  that erased, somebody wrote over its erased block, or somebody else is about to),
  and the number of writers that see an erased block never lets it stay erased
  unnoticed; elsewhere the partition agrees with `want` at every step.
* `SocketClientProofs`: `NoDescriptorLost` (`NoLeak`) and `StatusTruthful`
  (`StatusSafe`). The invariant says that a worker inside a reconnection holds
  `reconnectionMutex` and that no worker runs while the main thread connects or tears
  down (`Exclusive`), what `sockfd` and `isConnected` are at each place of a thread
  that reconnects (`InBetween`), and that `isConnected` is set only beside an open,
  connected socket (`Connected`). Each action has its lemma. `RegisteredWhenSettled`
  adds that a file nobody has is as new (`Clean`), so that a new connection starts
  unregistered, and that one which works is registered or has a thread that is about
  to do it (`Known`).
* `SocketServerProofs`, the types: `TypeCorrect` and `ClientsListedOpen` (`ListedOpen`).
  The invariant pairs connections with descriptors from accept to close (`Paired`),
  lists a client once for each registration, in their order (`Registered`), and has what is about
  to be closed off the list (`Closing`); for the types it needs that the message being
  sent stays the first of its list (`Sending`), which holds because `push_back` sets
  `head` only when it found the list empty, under the mutex (`Appending`). The lemma
  `Deleted` says what the removal of a node leaves.
* `SocketServerProofs`, the order of messages: `OrderInvariance`, on top of the above.
  The list: links only rise, whatever races there were (`Rising`); until an append met
  the removal of the last node, `freed` is what comes before `head` and the nodes from
  `head` on are linked one to the next (`Linked`, with a part for every place
  of `pop_front` and of `push_back`), from which `QueueAlwaysIntact`. The offers: no
  client has been offered anything after the message in hand, nor for a registration
  it has not made (`Offering`). The walk: clients of the nodes before the one in hand had
  the message, and it was not offered for the nodes behind it nor for the one in hand
  (`Before`, with `Fresh`), and the descriptor written to is the node's or, after a close,
  that of a client that is leaving, has been offered nothing yet, or is the node's own
  that connected again (`Aimed`). From these `OfferedInOrder`: at each write the pair of
  message and registration is later than the last one of that client, which excludes
  the wrong order and any repetition beyond the registrations; and `WalkComplete` and
  `SentToAddressees`. `InOrder` and `Addressed` are
  action properties: each follows from what the invariant says before the write.
* `SocketServerProofs`, the refinement: `ListIsQueue` is `ImplementsQueue`, which the run
  checks on one instance. There is one lemma for each action (`Maps_...`): it is
  the step of `MessageQueue` of that name, or a stutter. `pop_front` is `Take` where it moves
  `head` and a stutter in its other steps; `push_back` is `Put` where the node becomes
  reachable. `ListIsRun` shows that in the states that count there is one chain only, the
  run of numbers from `head` to `LastLinked`, so that `InList` is that.
* `PropertyBusProofs`: `TypeCorrect` and `ChangesToldInOrder` (`FeedCoherent`). A thread that
  is between lock and unlock owns `m_lock` (`LockHeld`, with `CallsFit` for what it is about
  to do), so that the list of callbacks is the set of matches whenever nobody is
  adding one (`Listing`); requests are of threads that wait (`Waiting`); a signal under
  way goes to matches that exist, and is stale once its server has ended (`Signals`).
  `FeedLinked` is the content: the changes under way to a subscription form a chain
  from what it knows to what the server has sent. `Linked` states that of neighbours
  only, which steps preserve: a signal joins at the end, the first one is delivered, a
  subscription begins or ends (`LinkedLast`, `LinkedFirst` and others); `FeedCoherent` compares
  each change with the latest one before it.
* `SocketIpcProofs`: `AlwaysServed` (`ServedWhileListed`) from who holds which handle
  (`Owners`), what is listed (`Listed`), what `serv_mutex` excludes (`Mutexed`) and when a
  service thread is alive (`Served`); `AnswersAreOwn` (`OwnAnswer`), an action property,
  from the order of the numbers in both queues (`Requested`, `Answered`): the oldest
  number still under way is at least the current one less the timeouts.
* `DeviceServicesProofs`, Wi-Fi: `ResultsAlwaysFresh` (`FreshResults`): a scan state that
  lets the reader through was set after a flush, or the flag that will set it is on
  its way, and the monitor and the reader exclude each other while one is at
  "results" (`ScanOrder`, `FreshOnTheWay`). `TableAlwaysAgrees` (`TableAgrees`), from every table that
  `wpa_wifi_init` can read, except for the four events: the table is a
  prefix of identifiers, the pending network is its last, and one about to be removed
  is still in it (`Table`, `LastPending`);
  the lemma `NextId` shows that the identifier wpa_supplicant gives is then `network_num`.
* `DeviceServicesProofs`, shutdown: `TimerAlwaysAgrees` (`TimerAgrees`), from what each
  thread is about to do and why (`StopsForCause`, `StartsIfIdle`, `WillArm`, `WillStop`).
* `DeviceServicesProofs`, keys: `PressesAlwaysKept` (`PressesKept`). Events are in the order of
  their presses and those of a key that are up come before those that are down
  (`EventOrder`), one that is up is not reported as a long press (`EventStates`), and the
  key last down has the event of the last press (`LastDown`): with that, finding an event by its key finds that of the
  press meant. Until a release is dropped or a timer queues its key, a press is in the
  queue, or in the hands of the input thread, exactly when its event is up (`InStep`),
  and both are in order, so the first of the one is the first of the other.
* `DeviceServicesProofs`, all four: a behaviour of `MCDeviceServices` is one of each of them
  (`EachIsIts`), so `ServicesTypeCorrect` and `ServicesKeepPromises` follow.

Some of this is about sequences of any length. The prover cannot use the library's
induction theorems, which take an operator; but "the first place with a property" needs
no operator: `FirstPlace` finds it with the fact that the strict subsets of a finite set
are well-founded, which the library states for sets. That carries every argument here
that would be an induction over places. What is filtered by `SelectSeq` or computed by
a recursion stays opaque, so `FeedCoherent`, `PressesKept` and `InList` speak of places, sets
and chains.

Every invariant and every action property of the passing runs is stated by a theorem,
and so is the refinement. Model-checked only is liveness, under the fairness above:
`CallsReturn` of ubootenv and of the property bus, `ReconnectEnds`, `ExitReturns`,
`ReadsUnlessHung`, `Drains`, `HangupCleaned` and `CatchesUp`: it needs ENABLED, which the prover
does not know. The violations of the four findings are counterexamples, shown by TLC.

Of most of these, what does not depend on the schedule is proved nevertheless: that nobody
waits for what cannot come.

* `SignalNeverMissed`, under `Drains`: a sender that sleeps in `pthread_cond_wait` has seen an
  empty list, under the mutex; whoever fills it is still to signal (`SignalDue`). It holds
  even after the race at the last node.
* `ConnectionsWatched`, under `HangupCleaned`: an accepted connection is in the epoll set until
  it is closed. It says so of one run of the server, and so does the run of TLC (one
  `ServerInit`): `ServerExit` closes no accepted connection, and the next `ServerInit` begins
  with an empty epoll set, so that a client of the first run can hang up unnoticed.
* `OnlyExitBlocksClient`, under `ReconnectEnds` and `ExitReturns`: a thread of the client that
  waits for `reconnectionMutex` or `beatMutex` waits for a worker that is inside a reconnection
  and waits for no mutex itself (`Holders`), and the socket that worker connects was never
  connected (`FreshSocket`; a second connect would fail forever). The one exception is a
  worker that `ClientExit` has cancelled there (`Orphaned`).
* `OnlyEmbraceHangs`, under `CallsReturn` of the property bus: as long as a call is under way,
  its thread, or one it waits for over `m_lock`, the loop of the dispatcher or a reply, can
  go on (`CanMove`), unless the dispatcher and the holder of `m_lock` wait for each other. It
  needs that who waits for a reply has a request under way (`Queued`), that tasks are
  posted to a connection with a dispatcher only (`Dispatched`), and that a call of
  `unsubscribe` and a dispatcher that goes for `m_lock` still have something to do
  (`Erasing`, `Telling`).
* `QuietCaughtUp`, under `CatchesUp`: with no signal under way, what a subscriber knows of a
  property is what the server has; it follows from `FeedLinked`.

What TLC adds is that the schedule lets those that can go on do so.

Proof steps that take the prover longer than a moment carry a time limit of their own, so
that a slower machine proves the same.

## 5. Not modelled

* **Logging, device properties, unify keys, FOTA upgrade tool, audio clock
  synchronisation, device tools, DTV test servers**: sequential programs around ioctl,
  files and single properties; a model would restate them line by line. The notes
  of `components` in `PROJECT.json` say what each of them does.
* **Vendored Android code** (libbinder, liblog, logcat, libatrace, logwrapper, tinyalsa):
  copies of another project, most of the lines of the repository, and not this
  program's logic.
* Of modelled components: what the sections above name as left out, foremost the
  loops of socket IPC v1, delayed tasks of the D-Bus helper, priorities of the Wi-Fi
  helper and the reading of input devices.
* The repository's parts are connected by the device, not by calls. The one
  composition that is left is that of `SocketClient` with `SocketServer`, each of which
  has the other as its environment here.
