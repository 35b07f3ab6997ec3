# A verification development for tcp-ip-network-programming

The repository holds the programs of a book on network programming, one directory per
chapter: small clients and servers in C.  They share no library that matters, but they
share problems: threads and processes that meet in one variable, one socket or one pipe;
event loops that act on what the kernel told them a moment ago; streams that the kernel
cuts where it likes; peers that stall, leave or reset.  The TLA+ modules here model the
programs in which such things interact, TLC checks them on small instances, and TLAPS
proves the main safety properties for every value of the constants.

All source paths below are relative to `src/`.

## 1. The system's parts

| Part | Keeps | Does | What is hard | What makes it correct |
|---|---|---|---|---|
| Chat server `ch18/chat_server.c` | socket table `client_socks`, `client_cnt`, `mutex`; per thread: its socket, a message | accept and append; read and broadcast; remove and close | threads, descriptor reuse, a race on the argument of the thread, peers that stall or reset while the mutex is held | the table is what is connected; broadcasts are ordered and reach all; sockets are closed in the end |
| Shared sum `ch18/thread_1803.c`, `ch18/thread_mutex.c` | `sum`, `mutex` | a million increments and decrements in two threads | lost updates; a create that fails while the other thread runs | bounds on what can be lost; nothing lost under the mutex |
| Semaphores `ch18/thread_semaphore.c` | `num`, two semaphores | one thread enters numbers, one adds them | hand-over, termination, destruction | every number added once; turns |
| Event loops `ch12/echo_selectserv.c`, `ch17/echo_epollserv.c`, `ch17/echo_epoll_lt_serv.c`, `ch17/echo_epoll_et_serv.c` | the watched set, `fd_max`, the reported events, one buffer | wait, accept, read, echo, close | stale events, descriptor reuse, edge triggering, short reads, resets, the descriptor limit | watched means open; nothing that arrived is forgotten; the text comes back whole |
| Forking servers `ch10/echo_mpserv.c`, `ch11/echo_storeserv.c` | inherited descriptors, children, a pipe, a file | accept and fork; echo; store; collect children | one SIGCHLD for several children, stray copies of descriptors, a pipe nobody reads | no zombie unnoticed, no stray copy, stored bytes complete and in order |
| Split client `ch10/echo_mpclient.c` | one connection shared by two processes | one reads, one writes and half-closes | half-close, SIGTERM against exit, SIGCHLD against kill | every line comes back; both processes end |
| Operation protocol `ch05/op_*.c` | a request buffer, a result | count, numbers, operator over a stream; arithmetic | short reads, 32-bit overflow, results longer than what the client reads | the request is put together as sent; results match requests |
| Web server `ch24/web_server.c` | two streams over one socket per thread | one request, one file | a second `close` of a number that may have a new owner; streams never closed | responses go to their requester; no descriptor is lost |
| Chat client `ch18/chat_client.c` | one socket, two threads | one thread sends, one prints | one closes the socket the other is blocked on; a read that returns 0 is not seen | every message is printed; who quits ends |
| Iterative echo `ch04`, `ch05/echo_*2.c`, `ch15/echo_std*.c` | one connection at a time, a buffer that keeps the last line | echo once, until as much came back as was sent, or line by line with `fgets` | short reads; `feof` is asked after the read that failed | the answer is the question; nobody waits for bytes that are not sent |
| File transfer `ch07`, hello `ch01`, `ch02`, two streams `ch16/sep_*.c` | one connection, one or two streams | send all, end one half, hear the thanks | the half close; `fclose` of one of two streams on one descriptor | the text arrives whole; the thanks are heard; both sides end |
| Datagrams `ch06`, news `ch14` | a socket; a file read line by line | a datagram each way; lines to a group | loss, duplication, order; an address length that is not set; `feof` | a client sees its own echo; a line once, but the last |
| Urgent data and peeking `ch13/oob_*.c`, `ch13/peek_*.c` | the urgent mark, a signal handler | receive what is ordinary, urgent, or only looked at | one mark; the signal before, between or after the steps that install the handler | every byte shown once, in order |
| Pipes, children, select `ch11/pipe*.c`, `ch10/remove_zombie.c`, `ch12/select.c` | a pipe; children; standard input | a message each way; reap; wait with a timeout | one pipe for two directions and a `sleep`; one signal for several children; a set that select overwrites | nobody waits in vain |
| `ch15/stdcpy.c`, `syscpy.c`, `fileno_fdopen.c`, `ch16/dup*.c`, `ch13/readv.c`, `writev.c`, `ch18/thread_1801.c`, `thread_1802.c`, `ch08`, `ch09`, `common` | - | one or a few library calls each | - | - |

The programs interact only over connections: a client of a chapter with the servers of
that chapter.  Inside a program the parts interact by shared variables (threads), by
inherited descriptors, signals and a pipe (processes), and by the kernel's ready lists
(event loops).  Where a server and its client are modelled together (ChatRoom, RequestReply,
SplitClient, the small programs) both run their own code; elsewhere the client is an
environment that connects, sends, closes or resets whenever it likes.

`PROJECT.json` lists the hazards of this code, each at its line, with the properties that
would catch it going wrong.

## 2. The modules and what they stand for

Every module has one action per step another thread, process or peer can come between:
a system call, a lock, or an access to something shared.  What a thread does to its own
variables in between is folded into the next such step.  Each definition that models code
is listed with its lines under `map` in `PROJECT.json`.  An operator called "faulty
variant" is a plausible bug of the definition after it and used by no specification: the
mutants in `PROJECT.json` name, for each property, a variant that breaks it.

**ChatServer** (`ch18/chat_server.c`).  `main` is `AcceptOk`/`AcceptFail`, `AppendSock`,
`CountSock`, `CreateThread`; a thread is `ReadArg`, `ReadMsg`/`ReadEnd`,
`BeginCast`/`CastWrite`/`EndCast` (`send_msg_to_all`) and
`BeginRemove`/`EndRemove`/`ListSocks`/`CloseSock`.  `client_socks[client_cnt++] = s` and the
removal are two steps each, so that the mutex has something to protect.  `ListSocks` is the
listing after the removal: it reads the table after the unlock, while main or another thread
may be in the middle of changing it.  What it prints is not kept, so one step that changes
nothing stands for all of its reads; the mutex promises something of the three locked regions
only.  `client_socket` is main's
local whose address every thread gets: `ReadArg` copies what it holds at that moment.
`file` is the descriptor table; accept takes the lowest free number, as the kernel does.
When `pthread_create` fails, `t_id` names a thread of before or nothing, and the
`pthread_detach` of it does nothing or ends the server.
`nofile` is the descriptor limit the process was started with.  `Stop` is a server that is
stopped or dies, where `Stoppable` allows it; `Stallers` are peers that may stop reading.

**ChatRoom** (`ch18/chat_client.c`) extends ChatServer: its peers are now processes of two
threads.  `Start`, `send_msg` (`Say`, `Quit`) and `recv_msg` (`Call`, `Return`, `ReturnEnd`)
are the client's steps, each conjoined with the ChatServer action the server sees of it.
`Call` and `Return` are apart because the other thread's `close` may fall between them:
`open` says who has the descriptor, and the connection lasts until neither the descriptor
nor the read in progress holds it.

**ThreadSum** (`ch18/thread_1803.c` and `thread_mutex.c`, chosen by `locking`).  `sum += 1`
is a load and a store.  `Create` may fail; `thread_dispatch` then returns while the other
worker runs, and main destroys the mutex and exits.  **AtomicSum** is what the mutex
promises: each loop is one step.

**ThreadSemaphore** (`ch18/thread_semaphore.c`): the steps of `read`, `accu` and `main`.
**OnePlaceBuffer** is what the two semaphores implement.

**EventLoop** (the four event-loop servers, chosen by `mode`; the two level-triggered ones
differ only in `BUFFER_SIZE`).  `Wait` copies the ready descriptors to `todo`, `Turn` takes
the next one, `AcceptSelect`/`AcceptLT`/`AcceptET` and `StartRun` to `CloseConn` are
`accept_request` and `run`.  `edge` is the kernel's list of edge-triggered events.  Replies
differ: `echo_selectserv` writes as many bytes as it read (a cut newline goes out as a NUL),
the epoll servers write up to the first NUL.

**ForkServer** (`ch10/echo_mpserv.c`, `ch11/echo_storeserv.c`, chosen by `storing`).
`holds[p]` are the connections process p has a descriptor of, `pending` the SIGCHLD that is
not queued, `inHandler` the parent inside `read_child_proc`.  `Store` is one round of
`store`.

**SplitClient** (`ch10/echo_mpclient.c`).  `rpc` is the parent (`read_routine`), `wpc` the
child (`write_routine`).

**OneWay** (`ch01`, `ch02`, `ch07`, `ch16/sep_*.c`): five pairs of a server that sends a text
and a client that reads it to its end; what differs is how the server ends its half
(`EndSending`) and whether it hears thanks (`Heard`).  **Datagrams** (`ch06`, `ch14`): a
set of datagrams, of which the network loses some and doubles some.  **Urgent**
(`ch13`): the stream, its urgent mark, `SIGURG` and the handler.  **Local** (`ch10/remove_zombie.c`,
`ch11/pipe*.c`, `ch12/select.c`): programs without a socket.  They share no state: `program`
(module **Program**) names the pair that runs, and **SmallPrograms** puts them, and
SplitClient with three lines, side by side so that one run covers them.

**RequestReply** (the clients and servers of `ch04` and `ch05` and the `fgets` pair of
`ch15`, five pairs chosen by `mode`).  `Ask`, `ReadResult` and `ReadMore` (the loop of `echo_client2.c`) are the client's
loop; `ReadEcho`, or `ReadCount` and `ReadParams` (one read of the inner loop, and
`calculate` after the last), and `Reply` the server's.  `inq` and `out` are the two
directions of the stream, of which `inArrived` and `outArrived` bytes have arrived: a read
gets any part of what was sent.  `message` records which bytes of the request stand where
`calculate` looks for them.  A count that was cut in two leaves a number that is part old,
part new; that state (`lost`) is not followed.  `ReadLine`, `ReadEchoLine`, `ReadEndLine` and
`ReplyLast` are the `ch15` pair: at the end of the stream `fgets` leaves the line before in
the buffer, and both programs use it once more.  An operation server whose client leaves in
the middle of a request reads 0 for ever: the model has no step for that loop.

**WebServer** (`ch24/web_server.c`).  `Accept`, `AcceptFails` and `CreateThread` are main;
the other actions are the calls of `request_handler` and `send_data` in the order the thread
makes them.  `file` is the descriptor table with who opened each entry: `close` and `fclose`
give back a number, whoever it belongs to by then, and `crossed` records that this, or the
race on the thread's argument, hit another thread's descriptor.

### What the modules take for granted

- The programs are built as the repository builds them, without a build type: no
  optimisation.  An optimising compiler may keep `sum` in a register for the whole loop,
  which leaves fewer interleavings than ThreadSum has.
- `buf[len] = '\0'` with `len` equal to the buffer's size, and `buf[len - 1]` with `len`
  -1 as a `size_t`, touch a neighbouring byte of the stack and change nothing the
  properties tell apart.  A client's text holds no NUL.
- What is undefined and could do anything ends the model's process: a socket written past
  the table (`AppendSock`).  What the build can answer in a few ways is a choice: the dead
  `pthread_param` a worker may read (`Stale`); glibc refuses to lock a destroyed mutex
  (EINVAL) and to destroy a held one (EBUSY).
- A write to a peer that closed succeeds and may bring back a reset; after a reset a read
  or write fails once, and a write raises SIGPIPE, which no program here handles: it ends
  the process or fails, both are allowed.  A reset may take unread bytes with it.
- A peer that is open takes every write in ForkServer; peers that stop reading are in
  ChatServer and EventLoop.
- A web request is one line with a method and a file name that has an extension, as the
  server's `strtok` calls expect.  An answer is one step.  `fdopen` of a number that is not
  open gives NULL, and reading or writing through it ends the process.  For writing it also
  gives NULL on a copy of the page another thread opened for reading; that is not modelled,
  and happens only in states that are `crossed` already.
- In `client_socks[client_cnt++] = s` the slot is filled before the count (the build may store
  them the other way round): under the mutex nobody sees the difference, and the listing
  only prints.
- The address length that `recvfrom` finds unset is enough for port and address, too short or
  negative; 8 to 15 bytes work like 16.  That news come in order is the network's doing
  (`ReceiveNews`): what the programs add, and `NewsInOrder` checks, is which line is sent
  twice.
- No run reaches the programs' own large limits: `EPOLL_SIZE`, `FD_SETSIZE`, the buffers of
  `ch05`, the one byte in which `op_client2` sends its count.
- Lines are shorter than the buffers and end with a newline (`ch04`, `ch05`, `ch15`), and
  every client of `ch05` sends what it announced.
- The chat client's name and the text around a message are left out: a message is who sent
  it and which of his it is.
- A system call interrupted by a signal (EINTR) is repeated by these programs and has no
  step of its own, except where it ends the loop (`WaitFails` in EventLoop).

## 3. The runs

| Run | Configuration | Shows |
|---|---|---|
| chat_safety | 3 clients, 2 slots, 2 descriptors; two send a message each, the third may stop reading; the server may be stopped | between its lock and its unlock a thread has the table to itself; the count; the table is exact unless a thread read a wrong descriptor; broadcasts are totally ordered and reach everybody |
| chat_room | 2 real clients, one message, one terminal that may stop; the server may be stopped | a client that left is closed; a message is printed by everyone in the room; who quits ends once anything wakes its read |
| chat_remove | 2 clients, no messages | *violation*: the removal takes another client's entry |
| thread_sum | both programs, 4 iterations | bounds of lost updates; none under the mutex; the loops are atomic; main ends |
| thread_semaphore | 5 rounds (as in the code), numbers -2, 0, 5 | every number added once; a semaphore is destroyed after its last use; refinement of OnePlaceBuffer; main ends |
| event_loop | 3 servers, 2 clients, 2-byte buffer, 1 or 2 descriptors | watched is open; text whole; bytes are read and connections closed in the end |
| fork_safety | both servers, 2 clients of 2 bytes, 3-byte pipe, 2 rounds | no zombie unnoticed; no stray copies; stored in order |
| fork_live | 1-byte pipe and buffer, 1 round | connections closed, children collected, bytes echoed, or stuck at the full pipe |
| request_reply | five pairs, one session of two requests, 2-byte ints of -128..127, op_client reads 3 characters | results are those of the requests; the client shows the answer to its last request; nobody waits for bytes that are not sent |
| web_server | 2 clients that ask for anything, 2 or 5 descriptors | each client is answered once, by its own thread, unless threads touched each other's descriptors; one connection at a time leaves nothing open |
| small_programs | each pair by itself: texts of 0 to 4 bytes in chunks of 2, 3 sessions; 2 messages a client, one doubled; two urgent bytes; 4 children; 3 lines typed; 3 lines echoed | the text arrives whole, thanks are heard, and printed before the server goes on, a client sees its own echo, news come in order, bytes are shown once, nobody waits for ever |
| split_client_kill | 1 line | *violation*: the signalled process id was collected before |

### The bounds and why they are enough

Three chat clients on two descriptors let one client take over the number another one gave
back while a third broadcasts, and make accept fail and store its -1 where a thread may read
it; two messages are what an order needs.  The third client is silent: that keeps the run
within minutes, and its part in an order is to hear.  No run fills the table beyond
`MAX_CLIENT`, which takes as many descriptors; what the model does there (`AppendSock`) is
part of what is proved.  The room of two, one speaking, has both of a client's threads at
every point of a broadcast.  One or two descriptors make accept fail and reuse a number.
Four iterations let a stale store undo several updates of the other thread.  A buffer of two bytes and a
line of three cut a newline off, leave it inside a read, and make one edge-triggered event
need two reads.  A pipe of three bytes and writes of two block a writer between two reads
of `store`; the smallest pipe with a store of one round fills for good.  Ints of two bytes
are the smallest that a read can cut; requests with no number, an unknown operator, an
overflow and a result longer than the client's read are among those entered, and two of
them are what it takes to mix one with the other.  Two clients of the web server, in
sequence or at once, let the second close hit the file, nothing, or the other's connection.
Texts of 0 to 4 bytes are the empty file, one and two full chunks, and what ends between;
two urgent bytes are the first number of which one can overtake the other; 4 children
include child 3, which has a child and a handler of its own; the fifth differs in nothing.

Symmetry is used in the safety runs whose clients are interchangeable, and in no run
with a liveness property.

`CHECK_DEADLOCK FALSE` is set where the system may rightly stop: when every client has left
and the servers wait for the next.  ThreadSum and ThreadSemaphore end in a step of their
own, so a deadlock of theirs is found.

### Fairness

The scheduler runs every thread or process that can run: weak fairness for each.  A thread
that waits for the chat server's mutex, and a process that waits for room in the pipe, get
it if it is free again and again: strong fairness, which the kernel's queues of waiters
give.  EventLoop's one server action is strongly fair, because a write that blocks is
enabled only while the peer reads.  A peer that stopped reading reads again or leaves
(`WF(Resume)`); without that one peer may stop the chat server for ever, which is what the
code allows.  Nothing obliges a client to connect, send or leave, or a user to type, except
that ThreadSemaphore's user does.  In ChatRoom a client's reading thread runs when it can;
on a terminal that stops and goes on for ever it is strongly fair, since it is enabled
while the terminal runs.  In the small programs the processes run and signals are delivered
(weak fairness); a datagram is lost when it is sent or not at all, and nobody has to type.
RequestReply lets what was sent arrive and a client that waits read.

## 4. What the violations say

- **chat_remove**: `ch18/chat_server.c:84` passes the address of main's local to every
  thread.  A second accept (or a failed one, which stores -1) before the first thread has
  run gives two threads the same socket, or one none.  What `:138` calls removing the closed
  socket then removes another one: `RemovesOnlyClosed` is violated.  `CountIsUnremoved`
  shows what still holds, `RosterExact` what holds without the race.
- **split_client_kill**: the parent signals a process id (`ch10/echo_mpclient.c:122`) that
  its own SIGCHLD handler collected when the child had exited, which it has in every
  session the user ends.

## 5. What is proved

TLAPS checks these for every value of the constants, from the named assumptions of the
modules (finitely many clients, sizes that are positive, names that differ).

- **ChatProofs**, the server: `TypeOK`, `CountIsUnremoved`, and `TableHeldStill`: while a thread
  is in one of the three locked regions no step of another changes the table.  It rests on
  `RegionsExclude`, which ties the owner of the mutex to the thread inside such a region; the
  listing, after the unlock, is in none, and may see a table half changed.  The inductive
  invariant adds `QueueFresh` (a connection in the backlog is there once and new to the
  server: otherwise accepting it could count it twice) and `Progress` (main is about to
  fill an entry for a connection nobody serves yet).  The count's proof is by the
  cardinality of `Appended`, which each step leaves alone or changes by one element.
  Then `RosterExact`, `CastReachesAll` and `SameOrder`.  The first two hold
  while no thread has read a wrong descriptor (`~Raced`), and so does their invariant
  `RosterInv`: the number main or a thread has for a connection is that connection's in the
  descriptor table (`Own`, `MainOwn`); the first entries of the table are the numbers of the
  connections being served, each once, where `Filled` counts the entries between the two
  steps of an append or a removal (`TableNames`); a broadcast under way has written its
  message to every open connection among the entries before `i` (`CastSoFar`).  `SameOrder`
  needs no such condition.  `OrderInv` says that one thread at a time holds a message
  (`OneHand`), that nothing is heard of a message that was not read yet (`Counted`) or waits
  for the mutex (`Unheard`), and that nothing stands behind a message being broadcast
  (`Latest`): of two messages both clients have, the one whose broadcast began later is
  behind the other at both.
- **ThreadSumProofs**: `TypeOK`, `WithinLostUpdates`, `NoLostUpdate`, `SomeReportIsFinal`,
  and the refinement of AtomicSum (`LoopsAreAtomic`).  `Bookkeeping` links the counters to
  the program counters, the owner of the mutex to the loop it is in, and says that once
  thread_dispatch has returned at most one worker is left.
- **ThreadSemaphoreProofs**: `TypeOK`, `EachAddedOnce`, `TakeTurns`, `DestroyedUnused` and
  the refinement of OnePlaceBuffer.  `Bookkeeping` says that one token goes round.
- **ForkServerProofs**: `TypeOK`, `ZombiesNoticed`, `NoStrayCopies`, and `StoredInOrder`:
  file and pipe together hold, of every client, all the bytes its handler has passed on, in
  the order it sent them.  `ForkedOnce` is what makes it inductive: a connection waits once and has no
  handler before it is forked, so nobody's bytes are written by two processes.
- **ChatProofs**, the room: every behaviour of the real, two-threaded clients with the server is
  one of ChatServer, so what is proved there holds in the room; and a connection exists as
  long as the descriptor is open or a read of it is in progress.
- **EventLoopProofs**: `TypeOK` and `WatchedOpen`, for the three loops.  `Bookkeeping` adds
  that a reported listener has a connection waiting and that the connection being handled
  is no longer to do: without it a close could leave a stale event behind.  Then
  `EchoesText`, for any text, buffer and cut of the reads.  `TextInv` says that a
  connection's echo is up to date (`UpToDate`) unless the loop is handling it, and that
  then the buffer is the next piece of its input, of which what was written back so far is
  the beginning (`InBuffer`, `CutShort`).  What it needs of `Text` is that the text of two
  pieces is the text of one after the other.
- **RequestReplyProofs**: `ResultsCorrect` and `ClientInStep`, for the five pairs, any
  buffer, read and int sizes and any requests.  `Picture` holds as long as no answer came in
  pieces to a client that reads once (`InScope`).  While a client that echoes waits, the
  bytes of its line in `inq`, in the server (`Held`), in `out` and in what it has
  (`Had`) add up to that line (`Waiting`); while it asks, nothing is under way (`Asking`).
  For the operation servers, what is left of the stream are the bytes of the request from
  one on (`Remains`), and as long as no read ended inside an int every byte read is in its
  place (`InPlace`): op_server2's `message` shifted by one, op_server's an array of ints.
  So the result is `calculate` of the request; and wrapping around at every operation
  gives what wrapping the exact result around once gives (`WrapsOnce`), for ints of any
  even range and requests of any length.
- **SmallProgramsProofs**: every safety property of the small programs, of SplitClient
  too, for `AllSpec`, in which any of them may be the one that runs.  `ArrivesWhole`: what
  the client took and what is on its way are the bytes the server has sent, in their order,
  and the server is through when it ends its half.  `OwnThanks`, the safety half of `ThanksHeard`: a client that thanked has
  read to the end, so it closes without a reset, and its thanks are on their way to a server
  that listens or were printed (`ThanksOnTheWay`); of a client that left without thanks
  nothing is said, and `sep_server2` prints an earlier one's again.  `EchoesOwn`: unless the
  network doubled a datagram of hers, there is at most one datagram under way that is a
  client's question or its answer, and it is of the message the client waits for.
  `NewsInOrder`, from a network that keeps the order: the datagrams of a receiver are of lines it has not heard, but the
  last one of a file that ends with a newline.  `BytesShown`: the queue, the two lists
  of what was shown and the bytes that were overtaken account for every byte sent, but
  urgent ones no handler was there for (`Accounted`); at most one urgent byte in the queue
  was not overtaken, the one at the mark, and a pending signal is its (`Marks`, `Signals`).  `SplitImplemented`: among the small programs the split client takes its own
  steps only, so `TypeOK` and `ReadsAllEchoes`, proved of SplitClient by itself, hold here.
- **WebServerProofs**: `TypeOK`, `AnswersOwnRequest`, `SerialLeavesNothing`.  `QueueFresh`
  and `Progress` play the part they have in the chat server.  While nothing is crossed,
  what the descriptor table holds was opened for its owner, or is the page its owner sends
  (`Owned`); a thread's two numbers lead to its own connection as long as it needs them
  (`OwnFds`); the request it holds is its own client's (`OwnRequest`); and it has answered
  exactly when it is past its answer (`AnsweredOnce`).  `SerialInv` follows one connection
  at a time through the table: accept gives it 1, dup gives 2, `fclose(client_read)` frees
  1, the page takes 1, and the second close of 1 closes the page.

No induction theorem with an operator parameter is used.  Where a proof is by induction
(`WrapsOnce`, `TextOfBoth`), it is from the least counterexample: a
nonempty set of numbers has a least element (`LeastOf`, from the well-foundedness of `<`).
What a proof has to look into is a recursive function, not a recursive operator or a fold
(`EndOf`, `TextOfFirst`, `Ret`, `Exact`), and is shown to exist before its equation is used.

The assumptions on the constants: sizes are positive, names differ, sets of clients are
finite; an int holds an even number of values, two at least, and the numbers a user enters
are ints (`SizesAssumption`, `EntriesAssumption` of RequestReply); a script of urgent pieces
is a sequence of pieces of some length (`UrgentAssumption`).  TLC evaluates each of them
in the runs.

Only model-checked: the liveness properties (`OwnThanks` is proved of `ThanksHeard`), since fairness and ENABLED are beyond the
prover.  Every invariant and every action property a passing run checks is a theorem.

## 6. Not modelled, and what could follow

- `ch18/thread_1801.c` and `thread_1802.c`: one thread that main waits for; ThreadSum has
  creation, join and a main that returns first.
- `ch15/stdcpy.c`, `syscpy.c`, `fileno_fdopen.c`, `ch16/dup.c`, `dup_test.c`,
  `ch13/readv.c`, `writev.c`: one process and a few calls in a row.
- `ch08`, `ch09`, `ch05/char_int_array.c`, `ch06/test_sockaddr.c`: they print what a library
  call returns.  `common`: error text, time formatting, socket set-up.
- In programs that are modelled: set-up code that ends the program when it fails, the
  wording of messages, the time to live and the broadcast option of `ch14`, and the loop an
  operation server falls into when its client leaves in the middle of a request.

What could follow: an abstract specification of the exchange that RequestReply's five
pairs implement, a question and its answer in one step each, with `Picture` as the
invariant behind the refinement; the safety halves of the liveness properties (what is
true of a state in which nobody can move).
