# FlexID: a verification project for `versatile`

The repository implements FlexID, a network layer in which devices, services and
contents are named by self-chosen hashes plus a flag byte instead of addresses. This
directory holds TLA+ models of its control logic, the TLC runs that check them and
the proofs TLAPS checks.

## 1. The system

| part | source | state it keeps | operations |
|---|---|---|---|
| FlexID manager, local database | `resolver/2017/flexIDMnger_db.py`, `database_schema_versatile.sql` | `deviceID_cache`, one MySQL connection with its open transaction, the tables `Device`, `Neighbor`, `RegisterList` | `on_message` dispatching `join`, `leave`, `register`, `update`, `query`; `db_proc` |
| FlexID manager, remote database | `resolver/2017/flexIDMnger.py` | `deviceID_cache`, `dbQuery_cache` shared by two MQTT threads | the same handlers; `send_DBquery`; `on_db_connect`, `on_db_message` |
| 2016 resolvers | `resolver/2016/resolver_per.py`, `resolver.py` | `manageNum` per process; the tables of database `diversity`, shared | `Join`, `Update`, `Leave`, `Request` |
| socket family | `socket/` | protocol, family and packet-type registrations; socks and skbs | module init and exit, `flex_create`, `flex_release`, `flex_rcv`, `sendmsg` |
| header codecs | `flexid/flexidhdr_fn.c`, `app/process_flex.c`, `wireshark/packet-flex.c` | none | serialise, parse, print, dissect |
| join exchange | `app/client.c`, `app/server.c` | one TCP connection | one JOIN, one JOIN_ACK |
| senders and samples | `test_app/`, `raw_sock/`, `flexid/client.c`, `client/*.py` | none | send or print one message |

Interaction: a client publishes a request to an MQTT topic, a manager answers it on an
`..._ack` topic. The local manager calls MySQL in its only thread. The remote manager
publishes each SQL query to a database service, under a random query ID, and spins
until its other thread has stored the answer under that ID. The 2016 resolvers are
two server programs, one over Socket.IO and one over HTTP, on different ports and the
same database. The C parts do not talk to the resolvers.

What is hard, and what correctness means:

* **managers**: a request may be refused after part of its effect (a cached ID, an
  uncommitted row, a committed first insert), the connection or the process may go at
  any point, and the next request meets whatever stayed. Correct: no ID is handed out
  twice, what was acknowledged is stored, collision avoidance is kept, a handler comes back.
* **remote manager**, in addition: two threads, lost messages, answers that come after
  the handler that asked is dead, subscriptions that come after the first answer.
  Correct: a handler only takes its own answer.
* **2016 resolvers**: read-then-write transactions that overlap, and `ALTER TABLE`
  that commits in the middle of one. Correct: IDs are unique, a transaction is all or
  nothing, references stay valid.
* **socket family**: what the loader registers is in use before it has finished, and
  still in use when it unloads; a path that fails must undo what went before; buffers,
  packets and struct socks outlive their use. Correct: a module that is gone has left no
  pointer into it, references are given back, leaks are bounded, loading ends.
* **join exchange**: TCP cuts packets as it likes, each side reads once and ignores that
  its parser refused what it read, either side may die. Correct: an acknowledgement names
  the packet that was sent, a join read whole is acknowledged, nobody waits forever.
* **codecs**: masks, shifts and lengths at their boundaries.

PROJECT.json lists every hazard with its line and the properties that watch it.

`flexIDMnger.py` and `flexIDMnger_db.py` carry docstrings at column 0 inside
functions, which Python refuses; they are modelled as if those were indented.

## 2. Modules

| module | models |
|---|---|
| `FlexFlag` | `gen_flag`, the flag byte, and `collision_inc` |
| `FlexTables` | the rows of the 2017 schema reduced to keys, primary and foreign keys, cascades |
| `IDRegistry` | the abstract specification of both managers: `members` and `provided`, with `Admit`, `Provide`, `Dismiss`, `Withdraw` |
| `FlexIDMngerDB` | `flexIDMnger_db.py` |
| `FlexIDMngerDBProofs` | theorems about it |
| `FlexIDMnger` | `flexIDMnger.py`, its broker and the database service |
| `FlexIDMngerProofs` | theorems about it |
| `Resolver2016`, `Resolver2016Proofs` | both 2016 programs, and theorems about them |
| `FlexSocket`, `FlexSocketProofs` | the kernel module of `socket/`, and theorems about it |
| `JoinExchange`, `JoinExchangeProofs` | `app/client.c` and `app/server.c`, and theorems about them |
| `MC...` | instances for TLC |

Requests are records of what a handler does with a payload: how many `uniqueCodes`,
whether a part can be walked without raising (`codesOk`, `itemsOk`, ...), whether MySQL
accepts the values (`fits`). Wording, logging and column values that decide nothing
are left out. IDs are strings put together exactly as the code does, because their
collisions matter: `str(flag) + name` locally, `name + str(flag)` remotely.

### 2.1 FlexIDMngerDB

`cur` is the handler in progress: its position `pc` and its locals. `disk` is what is
committed, `view` what this connection sees: the two differ by the open transaction,
which `db_proc` never rolls back. `acks` is everything published.

| action | code |
|---|---|
| `OnMessage` | `on_message` and the opening lines of each handler; a message that raises before the `try` ends the MQTT thread (`Dead`) |
| `JoinGenID` | one call of `join_genID`, and what `join` does up to its first insert |
| `JoinInsertDevice`, `JoinInsertNeighbors` | the two inserts of `join`, each `InsertCommitted`, `InsertRefused` at any row, or `CommitLost` |
| `Leave`, `Update` | they raise: `db_proc` has no `delete`, and `update` selects with an empty query |
| `DeviceExists` | the check at the start of `register`, `update`, `query` |
| `RegisterItem`, `RegisterInsert` | one turn of the loop over `registerList`, and the insert after it |
| `Query`, `Reply` | `query`; the publication of the answer |
| `ConnectionLost`, `Restart`, `MainLoop` | faults; the idle main thread |

### 2.2 FlexIDMnger

Every `send_DBquery` splits its handler in two: `Ask` puts a query into `toDB`, an
entry `Waiting` (the string `"None"`) into `dbQuery_cache` and a position into
`cur.pc`; the action of that position is enabled when the entry is an answer. So each
action runs from one answer to the next query or publication, exactly the code between
two spins. The database thread is `OnDbConnect` and `OnDbMessage`. `toDB` and `fromDB`
are FIFO (one MQTT connection each way), and `LoseMessage` drops their head: quality of
service 0. Publishing while disconnected is covered by the same loss. `DBExecute` is
external, known by how the handlers use it: it executes in order, answers a select by
what the table has, may refuse anything else with or without part of its rows, and may
say anything to the empty select that `update` sends. `SelectFails` is its fault: a select
answered with an error and no data. `register_genID` does not look at the error and takes
the ID for free; such an item is `misread`, and IDRegistry's promise to be alone under
the ID (`exclusive`) is not made for it. `queryID` assumes that four random
bytes do not repeat among the queries that are still in flight; the ID that
is commented out in the code, a constant, is the mutant.

`deviceID_cache` survives nothing, `db`, `toDB` and `fromDB` survive a `Restart`: the
dead handler's query is still executed.

### 2.3 Resolver2016

`Processes` are the servers; those in `SocketIO` run `resolver_per.py`, the others
`resolver.py`. A handler is a thread of its process (`ProcessOf`). Its connection reads from
the state of its first SELECT (InnoDB's repeatable read; the action named after the handler)
and writes into `writes`, which `Commit` adds to the tables at once. A connection dropped
without a commit is rolled back (`Raise`, after a refusal or a `DatabaseError`). `Update` runs
service by service. `CountColumns` reads `attrCount`. For each service the global `manageNum`
is read, written, and read again for the ID (`ReadManageNum`, `WriteManageNum`,
`GenServiceID`), and the other threads of the process may come between: counts are lost, and the
global is set back. `AlterService` is one `ALTER TABLE`, which commits the transaction first
(`Split`): MySQL's implicit commit. `Restart` ends all threads of a process. The `diversity`
schema is not in the repository; the code's `dummyID` says that `deviceID` is not its key, so
the tables refuse no duplicates. Deletions take effect at their commit, as they would wait for
the rows of others.

Two histories say what a property has to take out. `stranded` records which requests' rows a
`Leave` does not take along: those of an update that it ran into, and, in `resolver.py`, the
neighbors of the device; a join without interfaces has neighbors and no device.
`RowsOfMembers` says that nothing else outlives its device, and an acknowledged update may
lack services only if the table was altered and it is in `stranded` (`AcksStored`).
`overlapped` records the updates that another one of their process ran beside: their numbers
may be shared. `LoneUpdatesNumbered` says that the number of any other is not given again in its
run of the process, to no update that comes later, racing or not. A later run begins from 0
again, and so do other processes; the program has no promise about these.

`resolver.py` takes the greatest
request ID as text: `TextLess` compares the digits of any two numbers, and the MC module has
TLC evaluate that of some texts just one is last, so that `Request` is never blocked.

### 2.4 FlexSocket

`loader` is how far `af_flex_init` or `af_flex_exit` has come and the `rc` it returns;
each call into the kernel is one action of `Loader`, and sockets and frames use what is
registered as soon as it is. The success path of init runs on into the label `out_proto`,
which undoes `proto_register`: so does `OutProto`, which is what keeps `af_flex_exit`
right, since that does not unregister the protocol.

| action | code |
|---|---|
| `Insmod`, `ProtoRegister`, `SockRegister`, `DevAddPack`, `OutProto` | `af_flex_init`, and its failing registrations |
| `Rmmod`, `DevRemovePack`, `SockUnregister` | `af_flex_exit`; `Rmmod` needs a reference count of zero, and `dev_remove_pack` waits for the CPUs in `flex_rcv` |
| `SockCreate` | the kernel on the way to `flex_create`: it takes the family's reference (`ModuleLives` is `try_module_get`) |
| `FlexCreate` | `flex_create`: wrong protocol, failed allocation, a type it knows, a type it refuses after it allocated the struct sock |
| `FlexRelease`, `FlexSendmsg` | `flex_release`; the `sendmsg` that sends a test packet |
| `Deliver`, `FlexRcvAlloc`, `FlexRcvDone` | a frame that arrives on a CPU, and `flex_rcv` before and after its allocations |

Frames are not larger than the header's buffer, `enp1s0` is there, and `skb->tail` is a
pointer; the operations that only return -1, and the contents of frames, are left out.

### 2.5 JoinExchange

`server` and `client` are how far each program has come and what its one read returned;
`up` and `down` are the two directions of each connection: bytes in flight, bytes that a
read would return, and how the stream ends. `DeliverUp` and `DeliverDown` cut the bytes
anywhere. A program that ends with bytes unread, or to which bytes come later, answers
with a reset, which may overtake bytes on their way (`Close`). `After` is what both
programs do with a read: below a header's length `parse_flex_header` refuses, and the
pointer it should have set is used nevertheless; the outcome is a crash, or any value,
here `Garbage`. The server serves one client and ends; `backlog` holds those who
connected meanwhile. A program may be killed, and each allocation of a header may fail: then
`init_flex_header` sets the bytes of `NULL` (in `ServerWrite` and `ClientWrite`), or
`parse_flex_header` copies to it (`Uncopied`, in `ServerRead` and `ClientRead`), and the program
crashes; `Fault` counts both. The other socket calls that fail, and the fields of the header
but the packet length and the acknowledgement, are left out. `test_flex.c` uses
`process_flex.c` without a peer.

## 3. Runs

Properties that hold:

| run | instance | question |
|---|---|---|
| `joins` | 3 requests, 2 faults | do joins of one name get unique IDs (`IDsUnique`), are answers durable (`AcksDurable`), is an ID used up only by a join (`OneIDPerJoin`), does a handler come back whatever the request (`HandlerReturns`)? |
| `registrations` | 4 requests, 1 fault | is collision avoidance kept (`CollisionAvoided`), are answers durable, is `IDRegistry` implemented? |
| `remote_registrations` | 4 requests, 1 fault | are promises kept through joining, registering, deregistering and leaving (`PromisesKept`), does a handler take only its own answer (`AnswerMatches`), is `IDRegistry` implemented? |
| `remote_returns` | 3 requests of every kind, 1 fault | does a handler come back unless its message was lost, does `dbQuery_cache` leak no more than two entries a request (`DbQueryCacheBounded`)? |
| `resolvers` | 4 requests and faults, two threads of `resolver_per.py`, one of `resolver.py` | is an ID shared only by handlers that overlap (`SameIDOnlyByRace`), are acknowledged requests stored whole, in however many transactions (`AcksStored`), what does a failure leave (`FailuresLeaveNothing`), and a leave (`RowsOfMembers`), what does a race for `manageNum` leave of the numbers (`LoneUpdatesNumbered`), do the columns exist (`AttributeColumnsExist`)? |
| `flex_socket` | 2 loads, 2 descriptors, 3 sockets, 2 CPUs, 2 frames each way, 1 failure | does a module that is gone leave nothing behind (`NothingLeftBehind`), are references given back (`SocketsGivenBack`), are leaks bounded (`LeaksBounded`), do `insmod` and `rmmod` come back (`LoaderReturns`)? |
| `join_exchange` | 2 clients, 1 server, 1 kill or failed allocation | is the right packet acknowledged (`AckNamesPacket`, `WholeJoinAcknowledged`), is nobody acknowledged for nothing (`AcksAnswerBytes`), does every program end (`EveryoneEnds`)? |

Disagreements with comments and samples, each a run in which TLC finds the violation:

| run | what it shows |
|---|---|
| `flag_overflow` | the 17th join of one name sets the segment bit: the collision number is never checked against its 4 bits |
| `leave_unjoins` | `leave` of the local manager removes nothing |
| `attributes_stored` | `attrList` is shared by the items of a registration: the second item is stored with the first one's attributes |
| `r16_request_text` | the greatest request ID is taken as text: after 10 comes 10 |
| `flex_registered` | a module that logs that it is registered has unregistered its protocol |

The models also have behaviours that no run singles out: a device whose join was refused
passes the local manager's existence check because its ID stayed cached; a join with
empty `uniqueCodes` is granted an ID stored nowhere, and granted again after a restart;
a join that reports two interfaces is refused, as they share a primary key; overlapping
joins of the 2016 resolvers share a device ID, which `SameIDOnlyByRace` allows and nothing
else; an update with an image transfer meets the misspelt `manageSTr`. The properties are stated with these
in the model: `AcksDurable` and `IDsUnique` speak of joins that stored a row.

Bounds. `MaxRequests` requests let one request leave something behind, a second meet
it and a third be promised something about it; the registration runs have a fourth for
the second device. `MaxFaults` of 2 in `joins` lets a fault hit the
recovery from a fault; elsewhere one fault falls anywhere. `MaxEvents` of `resolvers` counts
requests and faults together: four of them are a join, an update that ran alone and two that
race after it, or a join, an update, a leave in the middle of it, and a fault; the two
threads of one program are symmetric.
`MaxFlag` is above the flag any instance can reach, so that no bound blocks a handler:
were it reached, TLC would report a deadlock. Names are few because only collisions matter: one temporary ID
and the first two IDs it can be given, one hash. `flag_overflow` has 17 joins and
`r16_request_text` 13 events because the boundary is there; `OneService` keeps the latter to
behaviours with one device, one service and no fault, which are enough to reach it. In `flex_socket` the second
load meets what the first, or its failure, left; two CPUs and two descriptors overlap with
each other and with the loader; the third socket comes after one that was given back. In
`join_exchange` a header and a message of the client have two bytes and the server's
message one, so that a read is short, a header, more or everything; of two clients one
waits while the other is served; the fault falls anywhere.

Deadlock is checked in every run but one: `MainLoop`, `Waiting` and `Quiet` are the states in
which the program has nothing to do, or spins. `join_exchange` has `CHECK_DEADLOCK FALSE`, as
its programs end; that none is stuck before its end is `EveryoneEnds`.

Fairness. `FlexIDMngerDB` assumes weak fairness of `Handler`: the thread that runs a
handler does nothing else. `FlexIDMnger` assumes it of the handler thread, of the
database thread's two callbacks and of the service: each is a loop that never waits
for another but through the messages modelled. Faults and requests are never fair.
`FlexSocket` assumes it of the loader and of `flex_rcv`: a call into the kernel that has
begun goes on, and nothing in it waits but `SockUnregister`, for CPUs in `flex_rcv`; users and
network are not fair. `JoinExchange` assumes it of a program that runs and of TCP, in
each direction, between hosts that stay up: `EveryoneEnds` is about processes that die, whose
kernel closes their connections, and not about a host that is gone; nobody has to start a program.
`LoaderReturns` further rests on what section 2.4 says of frames, without which `flex_rcv` need
not come back.
`Stuck` names what no fairness helps against: `send_DBquery` has no timeout, so one lost
message keeps the manager from every later request.

## 4. Proofs

### 4.1 FlexIDMngerDBProofs

Proved, for every set of devices, hashes and requests and every
bound:

* `TypeCorrect`: `TypeOK`;
* `JoinsGiveUniqueIDs`: `IDsUnique`;
* `SuccessIsDurable`: `AcksDurable`;
* `RegistrationsAvoidCollisions`: `CollisionAvoided`;
* `JoinsPayForIDs`: `OneIDPerJoin`;
* `ManagerImplementsRegistry`: `FlexIDMngerDB` implements `IDRegistry`.

Assumptions: `BoundsAssumption`, `RequestsAssumption` and `NoDeviceAssumption` of
`FlexIDMngerDB`, which TLC evaluates in its runs. Nothing is assumed of how IDs are
written: the proofs never use that `newID` is injective, only that an ID was looked up
before it was used.

None of these is inductive. `SafeInv` is, the conjunction of

* `TypeInv`: `TypeOK` and `Control`, what `pc` says of the other locals;
* `PendingOnTop`: `disk` is within `view`. It is what makes a select through the open transaction see at least what is promised;
* `CurrentOK`: what the handler in progress has established, e.g. that the ID it is
  about to insert has no committed promise, or that the IDs it chose with collision
  avoidance have no row;
* `AnswersOK`: what holds of all answers, `AcksDurable` and the uniqueness statements.

The argument: an ID is granted only after a commit that put its row on `disk`; rows
never leave `disk`; an insert of a stored key is refused; so no later grant has the same
ID, whatever cache and pending rows were lost in between. For registrations the primary key has
two columns and does not help; there the select sees every committed row, nothing is
inserted between select and insert, and the items of one request that were given the
same ID are refused by the key since they have the same device. The refinement
maps `acks` to `members` and `provided`; `Reply` of a successful join is `Admit`, of
a successful registration `Provide`, everything else stutters.

`OneIDPerJoin` counts, and needs an invariant of its own beside `SafeInv`: `PaidIDs`. The
IDs in use, cached or in `view`, are no more than a `Budget`, the joins begun plus the
faults, less one while a join still looks for its ID. A join tries IDs that it puts into
the cache; one that it finds taken has a row, so was in use before, and only the last
one is new. From then on its ID is in the cache, so that its insert brings no other
(`PaidIDs` says so of `device`). A join that dies with a restart is not counted any
longer; the row it may have left is paid for by the fault.

### 4.2 FlexIDMngerProofs

Proved, for every set of devices, hashes, attributes and requests and every bound:
`TypeCorrect` (`TypeOK`), `AnswersMatch` (`AnswerMatches`), `PromisesAreKept`
(`PromisesKept`), `CacheIsBounded` (`DbQueryCacheBounded`) and `ManagerImplementsRegistry`.
Assumptions: `BoundsAssumption` and
`RequestsAssumption`. Again nothing is assumed of how IDs are written.

`SafeInv` is the conjunction of

* `TypeInv`: `TypeOK` and `Control`, what `pc` says of the request and the locals;
* `InOrder`: every message carries its number as its ID, answers are older than all
  queries still to be executed, and what a handler waits for is the newest of all;
* `PromisesKept`, and `DeletesUnpromised`: a deletion on its way is of nothing promised;
* `PromisesNumbered`: the request being handled has made no promise yet;
* `HandlerInv`: which query the handler waits for, and what its answer, if it has come,
  tells of the service's tables: after a join's insert its row is there under an ID nobody
  has (`Fresh`), after a registration's select the ID is promised to nobody (`Free`), after
  its insert all rows are there and were not before (`AllIn`).

The argument: FIFO queues and fresh numbers make an own answer the youngest message, so
when a handler has it, nothing is on its way to the service (`WhenAnswered`). A dead
handler's query is still executed, but before any query of a later one. So what the
service did for the handler cannot be undone between its answer and the publication,
and what is promised can only be deleted by a later request, which withdraws the promise when
it asks. `LoseMessage`, `Restart` and the callbacks only remove or move messages
(`MessagesMove`). Each handler's lemma also says which step of `IDRegistry` it is; that
is the refinement.

The bound on `dbQuery_cache` has a second invariant, `CacheInv`. An entry may be gone with a
restart and come back when its answer arrives, so what is counted is `Outstanding`: the
query IDs in the cache, in `toDB` and in `fromDB`. Messages that move, arrive or are lost
never add to it; that an answer is stored once (`AnswersOnce`) makes the deletion of an
entry take its ID out of all three. A handler's position says how many IDs
it may still add to those it leaves behind (`Reserve`): one while it waits, none when a
join waits for its last insert, two between the items of a registration, where the entry
it waited for is deleted. `Size + Reserve <= 2 * requests` is what every step keeps. The bound is
reached: by a join, which deletes neither of its last two entries.

### 4.3 FlexSocketProofs

Proved, for any finite sets of descriptors and CPUs and every bound: `TypeCorrect`
(`TypeOK`), `KernelForgets` (`NothingLeftBehind`), `SocketsAccounted` (`SocketsGivenBack`)
and `LeaksAreBounded` (`LeaksBounded`). Assumptions: `BoundsAssumption`,
`FiniteAssumption`. `SafeInv` is `TypeOK`, `SocketsGivenBack` and

* `Stages`: what is registered, by the position of the loader;
* `Holding`: while there is a reference, the family is registered and the module is not
  being unloaded;
* `Receiving`: a CPU in `flex_rcv` has the packet type registered, or the loader waits for it;
* `Accounts`: the numbers that tie struct socks to sockets are unique;
* `Buffers`: buffers are those of the CPUs that parse, and what failures left.

### 4.4 JoinExchangeProofs

Proved, for any clients, any lengths of header and messages and any number of faults:
`TypeCorrect` (`TypeOK`), `AcksNameTheirPacket` (`AckNamesPacket`), `AcksAreAboutBytes`
(`AcksAnswerBytes`) and `WholeJoinsAcknowledged` (`WholeJoinAcknowledged`). Assumption:
`LengthsAssumption`. `SafeInv` is `TypeOK`, `AckNamesPacket` and

* `ServerReads`: what the server has read by its position;
* `ClientsSendOnce`: the bytes of a client in flight, ready and read are at most its packet;
* `AnswersOnce`: before the server writes, nobody has read a thing, and it writes once;
* `AnswersServed`: only the client that is served has bytes of an answer on their way or
  read, and the stream of a client that runs has not ended; so an empty read of the server
  means that its client has gone before it could read an answer;
* `AnswerComes`: of a join read whole the acknowledgement is on its way or read, and its
  stream is not reset: the server has nothing unread when it closes.

### 4.5 Resolver2016Proofs

Proved, for any processes of either program, any number of threads of each, any requests, any
number of columns and every bound: `TypeCorrect` (`TypeOK`), `AcksAreStored` (`AcksStored`), `FailuresLeaveNoRows`
(`FailuresLeaveNothing`), `SameIDsOnlyByRace` (`SameIDOnlyByRace`), `RowsHaveMembers`
(`RowsOfMembers`), `LoneUpdatesDistinct` (`LoneUpdatesNumbered`) and `ColumnsExist`
(`AttributeColumnsExist`). Assumptions: `ProcessesAssumption`, `BoundsAssumption` and
`RequestsAssumption`. `SafeInv` is the conjunction of

* `TypeInv`: `TypeOK`; what the open transaction of each handler consists of (`WritesOK`);
  where it may be (`Control`); an ID is at most the number of its request (`SmallIDs`). The
  last is not only a bound: `Max` is a `CHOOSE`, and a greatest ID exists because the IDs
  of a table are bounded (`MaxExists`, by the well-founded order of the numbers);
* `FreshNumbers`: nobody else knows the request that a handler answers, and it has no
  committed row but services, and those only if it has altered the table: a handler that
  is refused drops its transaction, and that was all;
* `WholeUpdates`, `OneDevice` and `AcksStored`: the services of an `Update` that are stored
  already, and those in its transaction, are the first ones of its request, one for each
  that it went through, and the stored ones come before the others. So its last commit stores
  all of them, and one that fails after an `ALTER TABLE` leaves the first ones without a gap
  (`FailuresLeaveNothing`). They are of its own device, and only that device's `Leave`
  deletes them; when it does so in the middle of the `Update`, the `Update` is stranded;
* `GreaterThanSeen`: an ID is greater than those of the grants its handler saw when it
  selected the maximum. Those still have their rows (`AcksStored`), so the maximum was above them;
* `DevicesOfUpdates`, `JoinedTogether` and `RowsOfMembers`: the device of an `Update` in
  progress has a row of an earlier request until a `Leave` strands the `Update`, and a device
  and a neighbor of one join have one ID;
* `LoneUpdates` and `LastAlone`: of two updates that run at once in a process each overlaps the
  other, and while one runs alone its run of the process has no service of a later one;
* `Numbers` and `LastNumbers`: the numbers that a run counted alone are at most `manageNum`,
  and at most what any thread has read of it and is about to write back, increased
  (`NumbersOf`). That is why a race may set the count back, but not below them, and why a new
  service, of whomever, has a greater number;
* `ColumnsOfWrites`: rows not committed yet, and `attrCount`, are within the columns there
  are. Columns are only added, so `AttributeColumnsExist` survives the `ALTER TABLE` of others.

The steps are first reduced to what they do, whatever the program: a handler begins, passes
on or counts, numbers a service, alters the table, commits or is dropped (`Begins`, `Passes`,
`Numbered`, `Alters`, `Commits`, `Drops`). Each conjunct is then proved over these kinds.

### Only model-checked

Liveness (`HandlerReturns` of both managers, `LoaderReturns`, `EveryoneEnds`), which is out of the
prover's reach. Every invariant that a run checks, and both refinements, are theorems. The
runs that find a violation have nothing to prove. That `LastTexts` of `Resolver2016` is
never empty is evaluated, not proved: `Digits` is a recursive definition.

## 5. Not modelled

* The header codecs (`flexid/flexidhdr_fn.c`, printing in `app/process_flex.c`,
  `wireshark/packet-flex.c`): layout of bytes and text, without state. The one decision the
  programs take by it, the length check of `parse_flex_header`, is in `JoinExchange`.
* `on_db_connect`, `on_db_message` of `flexIDMnger_db.py`: no client has them installed.
* `ServiceRequest` of `resolver_per.py`: nothing calls it.
* `test_app`, `raw_sock`, `flexid/client.c`, `flexid/server.c`, `client/publisher.py`,
  `client/subscriber.py`: one-shot senders and printers without state. The publisher's messages are the
  source of the MC modules' requests. Build files and the dissector's plugin files: generated.

## 6. Plan

All of it is done.

1. `FlexFlag`, `FlexTables`, `IDRegistry`, `FlexIDMngerDB` with its proofs.
2. `FlexIDMnger`, which uses the same tables and implements the same `IDRegistry`, with
   its proofs.
3. `Resolver2016` with its proofs.
4. `FlexSocket` with its proofs.
5. `JoinExchange` with its proofs.
6. The properties that count: `OneIDPerJoin`, `DbQueryCacheBounded`.
