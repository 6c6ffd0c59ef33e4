# A verification of the repository's TCP servers and its TCP stack

The repository is a collection around network programming in C and C++. Two
programs in it have a core worth verifying, and they are what is modelled here:

* the **communication server** of the course, an nginx-like TCP server.
  Each directory `src/linux_c++_<n>` is a snapshot of it after a lesson; the
  last one, `src/linux_c++_6_4/nginx`, contains what the earlier ones have.
  Paths below are relative to it unless they begin with `src/`;
* **NtyTcp** (`src/NtyTcp-master`), a TCP stack in user space with its own
  socket calls and its own epoll, and the server example that runs on them.
  Its files are written `nty_….c` below and are under `src/NtyTcp-master/src`.

1. [The systems](#1-the-systems)
2. [Inventory](#2-inventory): components, state, operations, what is hard
3. [The modules](#3-the-modules) and how they correspond to the code
4. [What is checked](#4-what-is-checked): runs, bounds, fairness
5. [What the checks found](#5-what-the-checks-found)
6. [What is proved](#6-what-is-proved)
7. [What is not modelled](#7-what-is-not-modelled)
8. [Plan](#8-plan)

## 1. The systems

### The communication server

A **master** process forks a fixed number of **worker** processes and then
lives in `sigsuspend()`. Each worker is a server of its own on the inherited
listening sockets and runs these threads:

```
   clients                            worker process
  ─────────        ┌───────────────────────────────────────────────────────┐
                   │ main thread: epoll loop                               │
   connect ───────►│   ngx_event_accept ── ngx_get_connection ─┐           │
                   │                                           ▼           │
   bytes   ───────►│   ngx_wait_request_handler         m_freeconnectionList
                   │     (4-state machine)                     ▲           │
                   │        │ whole packet                     │ ngx_free_ │
                   │        ▼                                  │ connection│
                   │   m_MsgRecvQueue ──► pool threads   recycler thread   │
                   │                       │  ▲                ▲           │
   close   ───────►│   recv() = 0          │  └ iCurrsequence  │           │
                   │     └─ close(fd), inRecyConnectQueue ─► m_recyconnectionList
                   │                       ▼                               │
                   │          epoll_ctl(MOD, EPOLLOUT)                     │
                   └───────────────────────────────────────────────────────┘
```

The parts meet in three places. *Connection objects* are reused for one client
after another; a message keeps a pointer to the object it came through and the
sequence number the object had then, and the logic compares the two before it
answers. *Descriptors* are reused by the kernel at once, while the objects
wait `Sock_RecyConnectionWaitTime` seconds on the recycling list. *epoll*
remembers for every descriptor the object it was registered with, and pool
threads change that registration.

### NtyTcp

```
  application thread                         stack thread (nty_tcp_run)
 ─────────────────────                ─────────────────────────────────────────
  accept()  ◄── acceptq ◄──────────── nty_tcp_handle_syn_rcvd            ▲
  recv()    ◄── recvbuf, read_cond ◄─ nty_tcp_process_payload (RBPut)    │ segments
  send()    ──► sndbuf, sendq ──────► send_list ─► flush_sendbuffer ──┐  │
  close()   ──► closeq ─────────────► control_list ─► FIN, ACK, SYN ──┤  │
                                      ack_list ─► ACK, window probe ──┼─► snd_pktbuf
                                      RTO wheel, TIME_WAIT, idle      │  ▼
  epoll_wait() ◄─ rdlist ◄─ epoll_event_callback                        network
```

The stack thread runs one loop: timers, what the application queued, the three
lists of the sender, then one packet from the network. Application threads
share with it the buffers of each stream (under `read_lock`, `write_lock`),
the queues `acceptq`, `sendq` and `closeq`, and, through
`epoll_event_callback`, the ready list of an epoll.

## 2. Inventory

| component | state | operations | what is hard |
|---|---|---|---|
| Thread pool (`misc/ngx_c_threadpool.cxx`) | receive queue and its counter, mutex, condition variable, `m_shutdown`, number of busy threads, `ifrunning` of each thread | `Create`, `inMsgRecvQueueAndSignal`, `Call`, `ThreadFunc`, `StopAll`, destructor | signal sent after the unlock; `m_shutdown` read and written without the mutex; spurious wakeups; a thief takes the message first |
| Connection pool and recycler (`net/ngx_c_socket_conn.cxx`) | list of all, of free and of closed connections, three counters, two mutexes, `iCurrsequence`, `inRecyTime`, receive buffer | `ngx_get_connection`, `ngx_free_connection`, `inRecyConnectQueue`, `ServerRecyConnectionThread`, `clearconnection`, `ngx_close_connection` | an object is in no list between two lock scopes; counters read unlocked; a clock read before the lock; reuse while messages still point to the object |
| Receive machine (`net/ngx_c_socket_request.cxx`) | `curStat`, `precvbuf`, `irecvlen`, `dataHeadInfo`, `precvMemPointer` | `ngx_wait_request_handler`, `recvproc`, `_proc_p1`, `_proc_plast` | every split of the stream; packets without a body; bad lengths; a client that goes in mid-packet |
| Event loop and accept (`net/ngx_c_socket.cxx`, `ngx_c_socket_accept.cxx`) | events fetched and not yet processed, registrations in the kernel, `events` and `fd` of each object | `ngx_epoll_process_events`, `ngx_event_accept`, `ngx_epoll_oper_event`, `ngx_close_connection` | stale events; failures between accept and registration; registration changed by another thread |
| Message logic (`logic/ngx_c_slogic.cxx`) | the message in hand, `logicPorcMutex` | `threadRecvProcFunc`, `_HandleRegister`, `_HandleLogIn` | the sequence number is tested first and the descriptor used later |
| Checksum (`misc/ngx_c_crc32.cxx`) | the table, the running word | `Init_CRC32_Table`, `Get_CRC` | bit order, word width, the empty body |
| Master (`proc/ngx_process_cycle.cxx`, `signal/ngx_signal.cxx`) | children, pending and blocked signals | fork loop, `sigsuspend` loop, `ngx_signal_handler`, `ngx_process_get_status` | pending signals of a kind are merged into one |
| NtyTcp: receive buffer (`nty_buffer.c`) | the bytes, `head_offset`, `head_seq`, `merged_len`, `last_len`, the fragment list, `rcv_nxt`, `rcv_wnd` | `RBPut`, `RBRemove`, `CanMerge`, `MergeFragments`, `nty_tcp_process_payload`, `nty_copy_to_user` | lost, repeated, overlapping and reordered segments; numbers that wrap; the move of the bytes to the front; a window that must open again |
| NtyTcp: connection, timers, socket calls (`nty_tcp.c`, `nty_timer.c`, `nty_eth.c`, `nty_api.c`) | state of the stream, `snd_nxt`, `snd_una`, `rcv_nxt`, windows, `fss`, the control, send and ACK lists, RTO wheel, TIME_WAIT and idle lists, `sendq`, `closeq`, `acceptq`, packet buffer | one handler per state, `nty_tcp_process_ack`, the writers of the three lists, `HandleRTO`, the expiry of the timers, `accept`, `recv`, `send`, `close` | a FIN that must follow data still on some list; acknowledgement of data and of FIN told apart in four states; queues filled by one thread and moved by the other; streams freed while queues point to them |
| NtyTcp: epoll and its server (`nty_epoll_rb.c`, `app/nty_example_epoll_rb_server.c`) | tree of items, `rdlist`, `rdnum`, `epi->rdy`, the descriptors' queues | `epoll_ctl`, `epoll_wait`, `epoll_event_callback`, the server's loop | a flag tested outside its lock; the tree searched without its lock; edges folded into a report that is already made; an item freed while it is on the list |
| Start-up, daemon, configuration, log, process title, memory and lock wrappers | – | straight-line code before any concurrency, or formatting | – |
| Send path (`msgSend`, `sendproc`, the commented-out sending thread) | – | not called at this commit | – |

What makes each of them correct:

* **Pool**: a message is served once, in order of arrival, by one thread, and
  freed once; a thread that leaves the wait loop finds a message; no wakeup is
  lost; the counters count; `StopAll` returns.
* **Connection pool**: each connection is in one place, once; a message whose
  client is gone is recognised however often its object was reused, and no
  other message is; nothing is reused early, nothing waits for ever, no buffer
  leaks; the two mutexes do not block both threads.
* **Receive machine**: the packets delivered are those of the stream; `recv`
  is given room for what it may write and never asked for nothing.
* **Server**: an event leads to the object that serves the client it came
  from; nobody who is connected is forgotten; answers go to the sender;
  whatever arrives is read, whoever goes is closed.
* **Checksum**: it is CRC-32; damage is noticed, an intact packet never
  dropped.
* **Master**: every worker that dies is reaped.
* **NtyTcp receive buffer**: it lists exactly the bytes that are there, keeps
  each in its place, acknowledges what it has and no more, and lets the whole
  stream through.
* **NtyTcp connection**: no `assert(0)` is reached; each direction is a
  stream of bytes with the end behind the last; the state agrees with what the peer has sent and heard; nobody sleeps
  on; a connection that is closed ends.
* **NtyTcp epoll**: input that came after the last report is reported again;
  no wakeup is lost.

The hazards (where each of these can go wrong, line by line) are listed in
`PROJECT.json` with the properties that watch them.

## 3. The modules

| module | models | abstract counterpart |
|---|---|---|
| `ThreadPool` | `CThreadPool`; main thread and workers | implements `MsgDelivery` |
| `MsgDelivery` | what the receive queue promises its user | – |
| `ConnPool` | connection lists, main thread, recycler, clock | – |
| `RecvMachine` | one connection object's receive state | implements `Framing` |
| `Framing` | a stream cut into packets, client after client | – |
| `Server` | epoll loop, accept, handlers, recycler and kernel together | uses the packets, queue and lists the modules above justify |
| `MasterCycle` | master process and its children | – |
| `Crc32` | table, loop and the test of a packet | the definition by polynomial division, in the module |
| `NtyRecvBuffer` | the receive buffer of one NtyTcp stream, its stack thread and its reader | – |
| `NtyTcp` | one connection of NtyTcp: stack thread, application, network, peer | implements `ByteStream` in each direction; uses `NtyRecvBuffer`'s reassembly as a set of bytes |
| `ByteStream` | what one direction of a connection promises: bytes, then the end | – |
| `NtyEpoll` | NtyTcp's epoll between the stack thread and the example server | – |
| `MC…` | instances for TLC | |
| `ThreadPool_proofs`, `ConnPool_proofs`, `RecvMachine_proofs`, `Server_proofs` (with `MasterCycle`'s), `Crc32_proofs`, `NtyRecvBuffer_proofs`, `NtyTcp_proofs`, `NtyEpoll_proofs` | theorems | |

Operators marked *mutant* in a comment are not used by any specification. Each
is a plausible wrong version of the definition that follows it, with which TLC
finds the property violated that `PROJECT.json` names: they show that the
properties can fail.

**ThreadPool.** A worker's `pc` walks through `ThreadFunc`: `lock` → `test`
(the `while` condition) → `wait` → `blocked` → … → `leave` → `begin` →
`handle` → `end`. A critical section whose variables are all protected by
`m_pthreadMutex` is one step; `m_shutdown` and `ifrunning` are shared without
it, so each access is a step of its own (`TestWait`, `Quit` and `Take`;
`CreateReturns`, `StopAllSet`). `pthread_cond_wait` releases the mutex and
blocks atomically (`CondWait`), a waiter may wake with no signal
(`SpuriousWakeup`), and it owns the mutex again before it goes on (`Relock`).
The main thread is the only caller of the rest. `freed` counts the calls of
`FreeMemory` per message and is not in the program.

**ConnPool.** Every lock scope that is not nested is a lock step and a body
step. The recycler keeps `m_recyconnqueueMutex` while `ngx_free_connection`
takes `m_connectionMutex` (`Erase`, `ReleaseLock`, `Release`); the scan starts
again after every release, as the `goto` does. `Wake` and `TestStop` read the
counter without a lock, `ReadClock` comes before `ScanLock`. `SetStop` stands
for the assignment of `g_stopEvent`, which is commented out in the worker's
loop at this commit (`proc/ngx_process_cycle.cxx:198`): the shutdown code
exists and is modelled, but nothing in the running program starts it. `owner`
and `clients` are not in the program: they say which client a message really
came from.

**RecvMachine.** A byte is its position in the stream, so that "the right byte
in the right place" can be stated; `stream[p]` is the length a header at `p`
would declare. One action per outcome of `ngx_wait_request_handler`: part of a
packet, rejected header, packet without body, header of a packet with body,
complete body. `Close`, `PutOneToFree` and `GetOneToUse` hand the object to
the next client in any state of the machine.

**Server.** A client connects, sends, and leaves at any time, orderly or with
a reset that drops unread data. The kernel gives the lowest free descriptor.
`EpollWait` fetches all ready events and the loop then works through them in
any order, while handlers run `Take`, `Check` (sequence number), `LockConn`,
`Prepare` (reads `pConn->fd`, changes `pConn->events`) and `Ctl` as separate
steps. The recycler is one action, the queue a sequence, a packet a unit. Two
timing assumptions are CONSTANTS, because the program relies on them without
enforcing them: `HandlersBeatReuse` (a handler that has passed the test
finishes before its descriptor is given to another client) and
`HandlersBeatRecycler` (… before its connection object leaves the recycling
list, i.e. within `Sock_RecyConnectionWaitTime`). The second one is what the
delayed recycling is for. The first has nothing behind it, see section 5. The
run `server` needs both, for it asks that nothing ever goes wrong; the theorems
need neither. `misdirected` is history: some `EPOLL_CTL_MOD` has reached the
registration of a client other than the one whose message its handler has.

**MasterCycle.** SIGCHLD is one pending bit. `HandleChild` is the delivery in
`sigsuspend` and the beginning of the handler, `Reap`/`NoneLeft` the `waitpid`
loop, `Sleep` the `sleep(1)` with signals blocked again.

**Crc32.** A word is the set of its one bits: exclusive or is symmetric
difference, a shift drops what leaves the 32 bits. The client's copy of the
class and the server's run in step over the bodies `sent` and `got`.

**NtyRecvBuffer.** A byte of the peer's stream is its position, and position
`k` has the sequence number `(irs + 1 + k) % Mod`; all comparisons are those
of the source on numbers that wrap. The buffer is a function from offsets to
bytes, the fragment list a sequence of `[seq, len]`, and one turn of `RBPut`'s
loop (`Visit`) is folded over it. `RBPut` and `RBRemove` run under `read_lock`
and are one step each. `taken`, `stored`, `read`, `skew` and `data_seen` are
history: how many bytes have left the buffer, what has arrived, what the last
`recv()` returned, how far `head_offset` is from where it should be, and
whether data has come at all. The buffer is there from the SYN on
(`nty_tcp_passive_open`), but the window stays that of the SYN,
`TCP_INITIAL_WINDOW` = 14600, until the first payload sets it to what the 8192
bytes of the buffer have room for: the one time its right edge moves back,
which `EdgeNeverRetreats` says in so many words.

**NtyTcp.** Everything the stack keeps of the connection is the record `stk`;
each function of the stack is an operator of its own name from such a record
to the next, and a step of the thread (`WriteChunks`, `FlushSendbuffer`,
`LeaveSendlist`, `Read`, `nty_nic_send_pkts`) composes them in the order of
`nty_tcp_run()`. What the thread does without waiting and without touching
what the application writes is one step; between the pieces of
`nty_tcp_flush_sendbuffer` the application can come in, as `send()` tests
`on_send_list` outside `write_lock`. The peer and the network are the
environment: the peer sends, repeats, acknowledges, finishes and resets, the
network loses segments. What was abstracted:

* one connection, opened by the peer (`nty_connect` and SYN_SENT are left
  out); what other connections leave of `acceptq` and of the memory pools is a
  choice (`env.room`): enough, no receive buffer, or no stream at all;
* when an ACK without data counts as a repetition of the last one is a choice
  (`env.dups`) over the outcomes of the duplicate count: the program compares
  `snd_wl2 + peer_wnd` with `peer_wnd + snd_wl1`, an acknowledgement with a
  sequence number, so whether it counts depends on how the two random initial
  numbers lie. The third repetition (`FastRetransmit`) and the ones after it
  (`Repeated`) do what the source does. The wake of a writer by an opened
  window (`nty_tcp.c:1440`) is left out: `nty_tcp_process` has stored the new
  window before (:1637), so the test compares it with itself and never holds;
* the sequence numbers of both sides start at 0 and do not wrap
  (`NtyRecvBuffer` has the arithmetic); bytes received and not yet in order
  are a set; `rcv_wnd` is constant and larger than what the peer sends, so
  that the window side is `NtyRecvBuffer`'s alone;
* the network keeps the order of the segments it does not lose, so an old ACK
  does not overtake a newer one;
* the time stamps of segments never run backwards, the peer's hardware address is
  known, options are a length;
* a timer that is due may fire or not (`fires`), because the wheel looks at
  one bucket only, see section 5;
* `snd_pktbuf` is the one buffer the source has: a second packet built before
  the NIC is served overwrites the first (`Emit`; `lost` remembers it);
* the socket is not in an epoll: `NtyEpoll` has that side.

An operator whose name is in lower case with `nty_` stands for the function of
that name; `Crash` is `assert(0)` or `exit(1)`, `stuck` the thread waiting for
a lock it holds, `orphan` a stream freed while a queue or a socket still points
to it, `closeq_int` the queue nothing empties.

**NtyEpoll.** The stack thread goes through the steps of
`epoll_event_callback` (`find`, `test`, `insert`, `signal`, `flush`), the
server through `epoll_wait`, its loop over the events, and `accept`, `recv`,
`epoll_ctl` and `close`. The search of the tree without the lock is a choice
while the server changes it. `fault` says how the program ended: `assert`
(nothing found), `no_socket` (a FIN before `accept()`, NULL followed), `freed`
(an item freed while it is listed). A client that ends without a byte is
nothing special: its reader is signalled and `recv()` returns 0. Descriptors are not used again, event masks are
left out (everything is EPOLLIN), `rdnum` is the length of `rdlist`, since
both change together, and a spurious wakeup is left out, since it only repeats
the test. `fresh` is history.

## 4. What is checked

| run | shows | instance |
|---|---|---|
| `pool` | `TakeFindsMessage`, `CountersAgree`, `EveryMessageHasAThread`, refinement of `MsgDelivery` (`DeliverySpec`), `EveryMessageServed`; `StopAll` returns if no worker is about to sleep | 3 workers, 4 messages, shutdown and failed creation at any time |
| `pool_stop` | *violated*: `StopAllReturns` | 2 workers, 1 message |
| `connpool` | `NothingLost` (every connection in one place, the counters right), `StaleMessagesShow`, `NoEarlyRelease`, `NoBufferLost`, `EventuallyReclaimed`, `StopEndsRecycler` | 1 connection growing to 2, 3 clients, 2 messages in flight, clock to 2 |
| `recv` | `WritesInBounds`, `IInv`, refinement of `Framing` | all streams of 6 bytes over 4 kinds of length, all splits, clients that go at any byte |
| `server` | type, `NoStaleEvent`, `RecycledOnce`, `NobodyForgotten`, `AnswerToSender`, `EveryClientServed`, under both timing assumptions | 3 clients that send 2, 0 and 1 packets, 2 descriptors, 2 connections, 2 threads |
| `server_reuse` | *violated*: `NoStaleEvent` without `HandlersBeatReuse` | as `server` |
| `master` | `ZombieNoticed`, `EveryDeadWorkerReaped` | 3 workers |
| `crc` | `ComputesCrc32`, `OnlyIntactAccepted` | bodies of up to 5 bytes: any first byte, then two values; two bits damaged in any of the bytes |
| `nty_rcvbuf` | `FragmentsExact`, `AcknowledgesWhatItHas`, `StoredInPlace`, `EdgeNeverRetreats`, `StreamGoesThrough` | 7 bytes in segments of up to 3, any order, overlap and repetition, a buffer of 5, first window 6, numbers modulo 42 from 39 |
| `nty_rcvbuf_read` | *violated*: `ReadsInOrder` | the same |
| `nty_tcp` | `NoAssertionFails`, `OneTimerOnly`, `StatesAgreeWithPeer`, `NobodySleepsOn`, `OnlyTimersTakeItAway`, refinement of `ByteStream` in each direction (`SendsAStream`, `ReceivesAStream`), `CloseEnds` | 2 bytes out, 1 in, a send buffer of 2, peer windows 1 or 4, one repetition, one lost segment or one reset |
| `nty_epoll` | `EveryEdgeReported`, `EventsAreTold` | 3 clients with 2, 1 and 0 bytes, room for 2 events and 1 waiting connection |

**Bounds and why they are enough.**

* *Pool*: the dangerous constellations need a message more than there are
  awake threads, a thread that is about to sleep, and one that steals a
  message from a thread that was woken. Three workers and four messages
  contain all of them, and the safety part is also proved for every number
  (section 6).
* *Connection pool*: one object used by three clients in a row, with messages
  of the first still in flight, is the shortest history in which a stale
  message could match again. The second object makes the pool grow while the
  first waits. With two ticks, a connection can be judged with a clock reading
  older than its own time.
* *Receive machine*: header 2, limit 4, header buffer 3. Every relation
  between the sizes in the program (8, 29000, 20) is kept: a length below the
  header, equal to it, above it, above the limit; a header buffer that is
  larger than a header. Six bytes hold three empty packets, one full packet
  and a header, or two clients. The properties are proved for all sizes.
* *Server*: two descriptors and two objects make both reusable, independently
  of each other; the third client is the one who gets what the first two left.
  Two packets of one client let two handlers meet in one object. The safety
  properties are proved for all numbers.
* *Master*: with three workers two can die behind one pending signal while a
  third still runs. Proved for all numbers.
* *Checksum*: a body is processed by one step per byte; the first byte meets
  every entry of the table, the others every register it leaves. Five bytes
  are one more than the register holds, so that the first byte has been
  shifted out when the last arrives.
* *NtyTcp receive buffer*: seven bytes through five of memory make the
  contents move to the front with and without a gap; three fragments can be
  listed at once, so that a segment joins two of them; the numbers wrap after
  the second byte. The half of the number circle (21) exceeds every distance
  that occurs, as 2^31 does.
* *NtyTcp connection*: with a payload of `Mss - OptLen` = 1, two bytes make
  two segments, which a window of 1 lets out one at a time and the loop of
  `nty_tcp_flush_sendbuffer` in one go otherwise; the second finds the first
  unacknowledged, lost, or repeatedly acknowledged without it. A send buffer
  of 2 can be full. The FIN can meet unsent, sent and acknowledged data, with
  the data on every list. One loss is enough to start a timer, `TCP_MAX_RTX` =
  1 to exceed its limit; `ManyFaults` = FALSE allows one segment lost or one
  reset in a run, not both. `MaxCwnd` = 4 stops the growth of `cwnd`, which is
  beyond both windows by then. `MaxNxt` stops the repetition of the FIN, which
  uses up a new number every time (section 5). The run has 1.8 million
  distinct states. The safety properties are proved without any of these
  bounds (section 6).
* *NtyTcp epoll*: three clients and a listener are more than the room for
  events (2) and for waiting connections (1): an event is left for the next
  wait, one is forgotten by the `break`, one connection is refused.
  `EveryEdgeReported` is proved for all numbers.

**Deadlock** is checked in `pool`, `connpool`, `recv` and `master`: the models
of the two pools have an explicit stuttering step once the process has ended,
and none before; the others never end.
It is not in `server` (clients stop coming and the program waits in
`epoll_wait`), `crc` (the body ends), `nty_rcvbuf` (the stream ends), `nty_tcp`
(the connection ends, or the program does) and `nty_epoll` (the server
waits, or the program has ended). There the liveness properties say what may
not stop.

**Fairness.** Weak fairness per thread: the kernel schedules every thread that
can run. The main thread of the server is obliged only to carry on with a call
it has begun; nobody must send, stop the server or fail. A pool thread that
waits for the mutex is `WF` only, and so can lose it to the others again and
again; `EveryMessageServed` holds all the same, since whoever gets the mutex
serves the queue. The only strong fairness is on `HandleChild`: `sigsuspend`
with an empty mask delivers whatever is pending when it is called, so a
pending SIGCHLD cannot be passed over for ever in favour of other signals,
each of which would make the action disabled for a while. In `Server` and
`NtyEpoll` clients have no fairness.

In `NtyRecvBuffer` the peer must repeat what is not acknowledged
(`WF(Resend)`, which is what makes it a TCP) and the application must read
(`WF(Read)`). In `NtyTcp` the stack thread runs: the condition
`[]<>~StackCan \/ []<><<Stack>>_vars` is `WF_vars(Stack)` with its `ENABLED`
written out as `StackCan`, which TLC evaluates much faster. A thread woken in
`accept()` goes on (`WF(Accept)`); nothing obliges the application to read,
write or close. The peer listens, acknowledges, repeats and comes to its end.

## 5. What the checks found

**In the communication server.**

1. **`StopAll` can hang** (`pool_stop`; `misc/ngx_c_threadpool.cxx:206`).
   `m_shutdown` is set and broadcast without the mutex. A worker that has just
   tested it (:121) and has not yet reached `pthread_cond_wait` (:130) misses
   both and sleeps for ever, and `pthread_join` (:221) with it. The comment at
   :126 argues that setting `ifrunning` first makes this safe; the trace ends
   between the two lines. `pool` shows the other half: if no worker is at
   that place, `StopAll` returns. Nothing calls `StopAll` in a running server
   at this commit.
2. **An event can lead to a recycled connection object** (`server_reuse`;
   `logic/ngx_c_slogic.cxx:198`). A handler passes the sequence test, the
   client goes, the main thread closes the descriptor and accepts the next
   client on the same number, then the handler's `EPOLL_CTL_MOD` binds that
   descriptor to the old object. Delayed recycling delays the reuse of
   objects, not of descriptors. With handlers that are fast enough
   (`server`) it does not happen.
3. A packet that is too long is not discarded, its header is
   (`net/ngx_c_socket_request.cxx:205-207`): what follows the header is read as
   further headers and may be delivered as messages. `Framing` states what the
   code does (`DropHeader`), and `recv` shows that it does just that.

**In NtyTcp.** The run `nty_rcvbuf_read` shows the first; the model has the
others as the code has them, and the properties are stated around them
(`Excused` in `CloseEnds`, `fault` in `NtyEpoll`).

4. `RBRemove` sets `head_offset = len` (`nty_buffer.c:646`) instead of
   advancing it: after two partial reads `recv()` returns the wrong bytes.
5. A window of the peer of 0 is never probed in time: `flush_sendbuffer`
   counts the window down and leaves at 0 (`nty_tcp.c:2132`), the stream goes
   off `send_list` with data unsent, and only an expired timer, if there is
   one, brings it back. A FIN can leave before such data does, with the number
   that follows it.
6. The stack thread can wait for itself: `nty_tcp_process_ack` signals room in
   a full send buffer with `write_lock` held, through a function that takes the
   lock again (`nty_tcp.c:1560`).
7. `send()` tests `on_send_list` outside `write_lock` (`nty_api.c:1172`), so
   that its data can end up on no list.
8. `close()` of a stream that is on the control list moves it to
   `closeq_int`, which nothing empties (`nty_tcp.c:1963`): no FIN is ever sent.
9. In FIN_WAIT_1 the state becomes `NTY_TCP_TIMEWAIT` (`nty_tcp.c:1140`),
   which is a length of time, 0, and so the state CLOSED: the last ACK is
   replaced by a reset.
10. The timers test `stream->socket`, which this configuration never sets, and
    destroy streams the application still holds (`nty_timer.c:220`); the wheel
    never moves on (`rto_now_idx`), so that timers of one bucket only fire.
11. A FIN that comes before `accept()` follows a NULL socket when the stack has
    an epoll (`nty_tcp.c:1011`).
12. A reset in ESTABLISHED leads to CLOSE_WAIT without waking the reader, and
    `recv()` then reports an ordinary end.
13. A FIN that is sent again takes a new sequence number each time; a second
    packet overwrites the one in `snd_pktbuf`; from the peer's FIN on an ACK,
    or a window probe, of the ACK list is dropped silently, since `rcv_nxt` is
    then one beyond the buffer (`nty_tcp.c:2389`).
14. `epoll_event_callback` searches the tree without `ep->mtx` and ends the
    program when it finds nothing, also when the descriptor is just being
    registered or no longer is; `EPOLL_CTL_DEL` frees an item that may be on
    the ready list; data that came before `accept()` is not reported; several
    connections, or much data, make one event, for which the server makes one
    call; the `break` after a close forgets the events behind it; a refused
    connection is reported, and the blocking `accept()` then waits.
15. The window offered with the SYN (14600) is more than the receive buffer
    holds (8192). The first payload takes it back (`nty_tcp.c:1321`), and what
    the peer has sent of it beyond the buffer is refused by `RBPut` and has to
    come again (`nty_rcvbuf`: it does).
16. Whether a repeated ACK counts as one depends on the two initial sequence
    numbers (`nty_tcp.c:1455`). If three do, `snd_nxt` is set back (:1480)
    whatever the state is. In FIN_WAIT_2, where only the FIN's number lies
    behind what is acknowledged, the stream then goes on with the number of
    the FIN, and `send_list` drops it unserved. Were old ACKs to arrive behind
    newer ones, four alike, it would be set back before the send buffer, where
    `assert(0)` waits (:2109); the model's network keeps the order.
17. A SYN for which no receive buffer is left makes a stream that is CLOSED
    (`nty_tcp.c:658`) and stays in the table: nothing answers or frees it.

## 6. What is proved

`tlapm` checks these theorems for every value of the constants, from the named
assumptions only (finite sets, naturals, distinct names, for the receive
machine that a header fits its buffer, for `NtyRecvBuffer` that the sequence
numbers in use are less than half of all). No theorem assumes anything of the
timing. In particular those about `Server` hold for every value of the two
timing constants: since the code has the race of finding 2, they do not say
that it never happens but that it is the only way out. `misdirected` is
history, set by the step `Ctl` that hits the registration of a client it was
not meant for, and until that step the four properties hold in every execution,
the windows between test and use included.

| theorem | statement |
|---|---|
| `ThreadPool_proofs!TypeCorrect` | `Spec => []TypeOK` |
| `ThreadPool_proofs!InductiveInvariant` | `Spec => []IInv` |
| `ThreadPool_proofs!NoEmptyTake` | `Spec => []TakeFindsMessage` |
| `ThreadPool_proofs!CountersCorrect` | `Spec => []CountersAgree` |
| `ThreadPool_proofs!NoLostWakeup` | `Spec => []EveryMessageHasAThread` |
| `ThreadPool_proofs!ImplementsDelivery` | `Spec => DeliverySpec` (refinement) |
| `ConnPool_proofs!TypeCorrect` | `Spec => []TypeOK` |
| `ConnPool_proofs!NothingIsLost` | `Spec => []NothingLost` |
| `ConnPool_proofs!StaleShows` | `Spec => []StaleMessagesShow` |
| `ConnPool_proofs!NeverEarly` | `Spec => []NoEarlyRelease` |
| `ConnPool_proofs!BuffersKept` | `Spec => []NoBufferLost` |
| `RecvMachine_proofs!MachineInvariant` | `Spec => []IInv` |
| `RecvMachine_proofs!BoundsKept` | `Spec => []WritesInBounds` |
| `RecvMachine_proofs!ImplementsFraming` | `Spec => FramingSpec` (refinement) |
| `Server_proofs!TypeCorrect` | `Spec => []TypeOK` |
| `Server_proofs!EventsAreFresh` | `Spec => [](misdirected \/ NoStaleEvent)` |
| `Server_proofs!ListedOnce` | `Spec => [](misdirected \/ RecycledOnce)` |
| `Server_proofs!EverybodyRegistered` | `Spec => [](misdirected \/ NobodyForgotten)` |
| `Server_proofs!AnswersGoToSenders` | `Spec => [](misdirected \/ AnswerToSender)` |
| `Server_proofs!MasterTypes` | `MasterSpec => []MasterTypeOK` |
| `Server_proofs!NoZombieOverlooked` | `MasterSpec => []ZombieNoticed` |
| `Crc32_proofs!RegisterHoldsRemainder` | `Spec => []IInv` (the register is the remainder, backwards) |
| `Crc32_proofs!ChecksumIsCrc32` | `Spec => []ComputesCrc32` |
| `Crc32_proofs!IntactAcceptedBurstDropped` | `Spec => []OnlyIntactAccepted` |
| `NtyRecvBuffer_proofs!BufferInvariant` | `Spec => []BufInv` |
| `NtyRecvBuffer_proofs!BufferTypes` | `Spec => []TypeOK` |
| `NtyRecvBuffer_proofs!ListExact` | `Spec => []FragmentsExact` |
| `NtyRecvBuffer_proofs!AcknowledgesRight` | `Spec => []AcknowledgesWhatItHas` |
| `NtyRecvBuffer_proofs!InItsPlace` | `Spec => []StoredInPlace` |
| `NtyRecvBuffer_proofs!EdgeStays` | `Spec => EdgeNeverRetreats` |
| `NtyRecvBuffer_proofs!ReadsRight` | `Spec => ReadsNextBytes` (a read that finds `head_offset` right) |
| `NtyTcp_proofs!Invariant` | `Spec => []TInv` (what may be true in each TCP state) |
| `NtyTcp_proofs!OneTimer` | `Spec => []OneTimerOnly` |
| `NtyTcp_proofs!OnlyTimersTake` | `Spec => OnlyTimersTakeItAway` |
| `NtyTcp_proofs!ConnectionInvariant` | `Spec => []CInv` (the numbers of both ends agree) |
| `NtyTcp_proofs!NoAssertion` | `Spec => []NoAssertionFails` |
| `NtyTcp_proofs!AppToPeerIsAStream` | `Spec => SendsAStream` (refinement) |
| `NtyTcp_proofs!PeerToAppIsAStream` | `Spec => ReceivesAStream` (refinement) |
| `NtyTcp_proofs!StatesAgree` | `Spec => []StatesAgreeWithPeer` |
| `NtyTcp_proofs!NobodySleeps` | `Spec => []NobodySleepsOn` |
| `NtyEpoll_proofs!TypeCorrect` | `Spec => []TypeOK` |
| `NtyEpoll_proofs!ReadyOnce` | nothing is on the ready list twice |
| `NtyEpoll_proofs!NoEdgeLost` | `Spec => []EveryEdgeReported` |

*Thread pool.* None of the properties is inductive alone. `TakeFindsMessage`
needs to know why a thread left the wait loop (`LeaveReason`), which survives
other threads' steps only because they cannot take from the queue while this
one holds the mutex (`MutexHeld`). `EveryMessageHasAThread` counts: a thread
may go to sleep only when the queue is empty (`EmptyBeforeSleep`,
`SleeperBlocked`), a message adds one on the left and owes one signal, and a
thread that serves a message takes one from both sides. Lemmas about
`Cardinality` of the awake and the busy threads carry the arithmetic;
`RunningStep` and `ThreadOnItsWayStep` have one case per action. The refinement
of `MsgDelivery` needs one more invariant, `InLine`: the queue holds the
last of the messages sent, in order, and the threads have different ones of
those before them. Each step of the pool is then the step of
`MsgDelivery` of that kind, or a stutter.

*Connection pool.* The heart of the invariant is `Places`: which connection is
in which list, and which one the main thread or the recycler has in hand
between two of them; the main thread's `pc` and the recycler's say who holds
which mutex. From that follow `NothingLost` and the counters. For
`StaleMessagesShow`, sequence numbers only grow, every message's number is at
most that of its object, and equal only while the client the message came from
is the owner. The lemmas about appending to, and removing from, a list without
repetitions come first; `Server_proofs` has its own of that kind.

*Receive machine.* `IInv` says that the first `at` bytes of the packet that
begins at stream position `pos - at` are in place, in `dataHeadInfo` or in the
message buffer as `curStat` says, and that `at + irecvlen` is the length
wanted. That one sentence gives the bounds, and the refinement: `begin = pos -
at` is the boundary of `Framing`, a delivery is a step `Deliver`, a rejected
header `DropHeader`, the reuse of the object `NextClient`, all else a stutter.

*Server.* The invariant is a one-to-one correspondence (`Bindings`) between
the objects that are served, i.e. on no list and not on their way to one, and
the descriptors that are registered. Everything else points into it: events of
a batch lead to served objects (`Batch`); a message whose number is still that
of its object belongs to the client that is served there, or was until a
moment ago, and wherever the client of a message still is, it is registered
with the object of the message (`InFlight`); a handler may be as late as it
likes, but if its client is still at the descriptor it has prepared, what it
asks for is what the object says (`Work`); what epoll was told is what the
object says, unless a handler is between the two (`Requests`). All of this
(`Rest`) holds until `misdirected`; the types, and that messages come from
clients (`TInv`), hold always. A late `Ctl` either finds its own client, and
then by `InFlight` its own object, or changes nothing that is registered, or is
the misdirected one. The four properties are four views of `Rest`.

*Master.* `ZombieNoticed` is inductive with the types: a death sets the bit,
only the handler clears it, and the loop is left only when nobody is dead. `Server`
is one of the workers, so the two theorems are at the end of `Server_proofs`.

*Checksum.* The length of the body and the bytes in it are arbitrary. The
division of the definition goes through the whole message, one coefficient at a
time; that the function it is written with exists, and what it is after every
step, is proved by induction in the way of `NtyRecvBuffer` (`DivisionExists`,
`RemainderSteps`). The invariant is `Follows`: the register is the remainder of
the body so far, read backwards. For one byte more, the steps done so far
repeat, eight exponents higher and with the new byte untouched below
(`StepsAppend`); the last eight are `Divide` eight times, of the remainder with
the byte added to its top (`RemainderAppend`). Because a step is linear and
does nothing for the low 24 coefficients, eight steps of the register are a
shift by 8 and an entry of the table (`UpdateIs`). For
`OnlyIntactAccepted` the divisions of the two bodies are compared: their
difference is divided like a message (`ReduceLinear`), and whenever a step
touches it for the first time the changed bits, within 32 of each other, all
lie above the lowest bit that the generator adds, which no later step reaches
(`Visible`, `StillVisible`). So the remainders differ.

*NtyTcp receive buffer.* Only the assumption that sequence numbers tell the
positions of the stream apart is used (`BufferAssumption`: less than half of
`Mod` is in use, so for 2^32 streams of just under 2^31 bytes), not the bounds
of the run. A number of the window then stands for one position (`Place`), and
`GetMinSeq`, `CanMerge` and `MergeFragments` mean what they mean for intervals
of positions (`MinMaxSeq`, `CanMergeMeans`, `MergeMeans`), wherever the numbers
wrap. The loop of `RBPut` is a fold. That the function it is defined by exists
(`FoldExists`), and what the loop knows after each turn (`Visited`,
`VisitKeepsTrack`), are proved by induction, by way of the least number for
which it would fail (`Upwards`): what has been kept lies before the new
fragment, what was merged is covered by it, the rest lies behind. So the new
list is the old one with one piece replaced (`InsertedReplaces`), in order, and
has the bytes it should have (`InsertedSorted`). Neither `FragmentsExact` nor
`StoredInPlace` is inductive alone: `merged_len` has to be the first fragment's
length or 0 (`Listed`), `last_len` has to reach over everything that is listed
and must not reach over `tail_offset` (`Reached`), or the move of the bytes to
the front would lose some. `PutRight` and `RemoveRight` keep all of that,
`BufInv` adds `rcv_nxt` and the window, and the properties follow. The
theorems `ListExact` and `AcknowledgesRight` are what lets `NtyTcp` keep its
out-of-order bytes as a set.

*NtyTcp connection.* `TInv` is a table of what may be true of a stream in each
state: which of the two timers it may be on (`TimersFit`), that the
application has it in one place at most and only in ESTABLISHED or CLOSE_WAIT
(`InOnePlace`), and that the FIN's number is that behind the last byte of the
send buffer (`FinBehindData`). The last is needed for the first: FIN_WAIT_1 is
left for FIN_WAIT_2 on an acknowledgement of the FIN, after which nothing may
restart the retransmission timer, as the send buffer is empty by then. Every
function of the stack is an operator from streams to streams, so there is one
lemma for each; what does not touch the table is done by `Keeps`, and what a
segment does by `Follows`: a sound stream leads to a sound one and no holder
loses it. The proof holds without the bounds of the run.

The other properties of the connection need the numbers, and none of them is
inductive without the rest, so they are views of one invariant, `CInv`. Byte n
that the application sends has the number n: the send buffer holds the numbers
from `snd_una` to `done.sent`, and `fss`, the peer's `nxt` and the FIN on the
way come right behind (`SenderFits`, `Carries`). An ACK on the way is never
behind `snd_una`, since the peer takes none back and the network keeps the
order (`AcksFrom`), so one that repeats the last repeats `snd_una`, and the
third repetition sets `snd_nxt` back to the head of the buffer, not before it.
As long as the FIN has not gone out, or a retransmission of data keeps it back
(`FinHeldBack`), `snd_nxt` is not behind the last byte: that is why neither the
timer nor `nty_tcp_flush_sendbuffer()` meets a `snd_nxt` outside the buffer.
Until the peer's FIN, `rcv_nxt` is the number of the first byte that is not in
the receive buffer, and what is in it and what `recv()` has returned make up
all before (`ReceiverFits`); from then on they are all the peer has sent. At no
time are they more: whatever is in the buffer, out of order (`ooo`) or on the
way has a number of the peer's (`PeerSent`). A SYN is on its way up only while
nothing is on its way down (`Arrives`), so what a stream that was destroyed has
sent is gone when the peer's SYN makes another. A thread asleep in spite of
something to do is woken before the step of the stack ends (`Awakes`): between
two steps no signal is pending. The stack's steps are again composed of its
functions, each of which leads from a stream that fits (`Fits`) to another; the
application's and the peer's have a lemma each (`...Agrees`).

`ByteStream` is refined twice. From the application to the peer, `sent` is what
`send()` took, `got` what the peer took in order, `closed` that the application
has closed, `ended` that the peer took our FIN: `Send` maps to `Write`,
`Close` to `Close`, `PeerHears` to `Arrive` or `End`. In the other direction
`PeerSends` maps to `Write`, `PeerFinishes` to `Close`, and `Recv` to `Arrive`
or `End`. All other steps stutter (`QuietSteps`). That a step `End` is
allowed is where `CInv` is needed: the FIN has the number behind the last byte
(`Carries`), and a reader in CLOSE_WAIT with an empty buffer has got
`peer.snd - 2` bytes (`ReceiverFits`). Bytes are numbers here, and what arrives
is a length; that the bytes of one read are the right ones is
`ReadsRight` of `NtyRecvBuffer`, with the defect of section 5.

*NtyTcp epoll.* The flag `epi->rdy` is set exactly for what is on the ready
list, which has no repetitions. So a callback that finds it set, although it
looks without the lock, finds the item listed until `epoll_wait()` takes it
and with it all the input so far; the callback that finds it not set inserts.

**Only model-checked:** liveness (with and without fairness, it is out of the
provers' reach), so `CloseEnds` of `NtyTcp` and `StreamGoesThrough` of
`NtyRecvBuffer`, too. Every invariant and every action property of a passing
run is proved.

## 7. What is not modelled

* Start-up and daemon (`app/nginx.cxx`, `proc/ngx_daemon.cxx`): initialisers
  one after the other in one thread, each of which ends the program when it
  fails.
* Sending in the communication server: `msgSend` and the sending thread are
  not called at this commit, and answers are built and then leaked
  (`logic/ngx_c_slogic.cxx:197`).
* Configuration, log, formatted output, process title: parsing and formatting.
* Memory and lock wrappers as such; who holds a lock and who frees what is
  part of the modules above.
* `errno` values: `EAGAIN`/`EINTR` (nothing happens), everything else (the
  client is gone). A failing `pthread_mutex_lock` or `new` is left out.
* Of NtyTcp: the active open, several connections at a time, the option fields
  and time stamps, `resetq` and `destroyq` (nothing is put there), ARP, ICMP,
  the driver, the hash table and the tree and queue macros (BSD's). `nty_epoll.c`
  is an older epoll that `NTY_ENABLE_EPOLL_RB` switches off. Of its epoll:
  `EPOLL_CTL_MOD`, closing the epoll itself and the timeout, none of which the
  server uses.
* `src/linux_c++_6_4/eventpoll.c` is the kernel's file to read, `nty_epoll_rb.c`
  beside it a copy of NtyTcp's (modelled from the original), `project1.cpp` a
  Windows example: none is compiled into a program of the repository.
* `src/read_test` is a rewrite of the same server from memory. Its queue and
  its recycler differ from the original in two counters: one is never
  incremented (`src/read_test/misc/ngx_c_threadpool.cxx:116-130`), one is
  decremented in place of another (`src/read_test/net/ngx_c_socket_conn.cxx:139`). What such a drift does
  is shown by `EnterRecyListUncounted`, a mutant of `ConnPool`.
* The earlier snapshots of the communication server.

Three hazards have no property. `EPOLLOUT` that is never removed from a
registration makes the worker spin (`logic/ngx_c_slogic.cxx:200`), which
changes no state. The stack thread of NtyTcp that waits for its own lock
(finding 6) and the data that is on no list (finding 5) are in the model, which
shows how they come about, but the code has no way out of them that a property
could ask for: `CloseEnds` excuses them. Nobody starts a worker in place of one
that died (`signal/ngx_signal.cxx:119`), which the code does not claim to do.

## 8. Plan

Done, in this order: `ThreadPool` with `MsgDelivery`; `ConnPool`;
`RecvMachine` with `Framing`; `Server`; `MasterCycle`; `Crc32`; then
`NtyRecvBuffer`, `NtyTcp` with `ByteStream`, and `NtyEpoll`; and the proofs of section 6.

What could follow:

1. *Composition.* `NtyTcp` with `NtyEpoll`: the server's calls on connections
   whose states come and go as the handlers say.
2. *More of the system.* The active open of NtyTcp; the send protocol of the
   commented-out thread (semaphore, queue, `iThrowsendCount`), if it is called
   by then; the shutdown of a worker as a composition of `ThreadPool` and
   `ConnPool`.
