--------------------------- MODULE FlexIDMngerDB ---------------------------
(***************************************************************************)
(* resolver/2017/flexIDMnger_db.py: the FlexID manager that takes its      *)
(* requests from a message broker and keeps its tables in a local MySQL    *)
(* database.                                                               *)
(*                                                                         *)
(* One thread (the MQTT client's) runs every handler from beginning to     *)
(* end; it shares with nobody but the database the variables below.  What  *)
(* makes it hard is what can stop it half way: a statement the database    *)
(* refuses, a lost connection, a crash, each leaving behind a cache, open  *)
(* transaction and tables that the next request meets.                     *)
(***************************************************************************)
EXTENDS Naturals, Sequences, FiniteSets, TLC, FlexFlag, FlexTables

CONSTANTS
    Devices,      \* strings a client may present as its (temporary) device ID
    Hashes,       \* hashes of the contents and services clients register
    NoDevice,     \* the device of a request whose "relay" is missing or empty
    Requests,     \* the requests clients send, see RequestsAssumption
    MaxRequests,  \* bound: how many requests arrive
    MaxFlag,      \* bound: the largest flag an ID is tried with
    MaxFaults     \* bound: how many crashes and lost connections happen

Items == [hash : Hashes, cache : BOOLEAN, segment : BOOLEAN,
          collisionAvoid : BOOLEAN]

Senders == Devices \cup {NoDevice}

(***************************************************************************)
(* A request is described by what its handler does with it.  codes: the    *)
(* number of uniqueCodes entries; codesOk, neighborsOk, itemsOk,           *)
(* requirementsOk: the handler can walk that part of the payload without   *)
(* raising; fits: MySQL accepts the column values (relay is varchar(10),   *)
(* hash varchar(15), ...).  "garbage" is a message that raises before the  *)
(* handler's try block: no JSON, no JSON object, or a topic without the    *)
(* device level.                                                           *)
(***************************************************************************)
JoinRequests == [op : {"join"}, device : Senders, codes : Nat,
                 codesOk : BOOLEAN, neighbors : Seq(Devices),
                 neighborsOk : BOOLEAN, fits : BOOLEAN]
RegisterRequests == [op : {"register"}, device : Senders, items : Seq(Items),
                     itemsOk : BOOLEAN, fits : BOOLEAN]
QueryRequests == [op : {"query"}, device : Senders, sensor : BOOLEAN,
                  requirementsOk : BOOLEAN]
PlainRequests == [op : {"leave", "update"}, device : Senders]
GarbageRequests == [op : {"garbage"}]

ASSUME BoundsAssumption ==
    MaxRequests \in Nat /\ MaxFlag \in Nat /\ MaxFaults \in Nat

ASSUME RequestsAssumption ==
    Requests \subseteq JoinRequests \cup RegisterRequests \cup QueryRequests
                         \cup PlainRequests \cup GarbageRequests

ASSUME NoDeviceAssumption == NoDevice \notin Devices

Flags == 0 .. MaxFlag

\* str(flag) + name
newID(flag, name) == ToString(flag) \o name

DeviceIDs    == Senders \cup {newID(f, d) : f \in Flags, d \in Devices}
ProvidingIDs == {newID(f, h) : f \in Flags, h \in Hashes}

-----------------------------------------------------------------------------
(***************************************************************************)
(* The rows this manager makes.                                            *)
(***************************************************************************)
Rows ==
    [table : {"Device"}, id : DeviceIDs, device : DeviceIDs]
      \cup [table : {"Neighbor"}, id : Devices, device : DeviceIDs]
      \cup [table : {"RegisterList"}, id : ProvidingIDs, device : DeviceIDs]

-----------------------------------------------------------------------------
VARIABLES
    deviceID_cache,  \* the keys of the dictionary of that name
    disk,            \* rows committed
    view,            \* rows this connection sees: committed and pending ones
    connected,       \* the connection opened at start-up is still there
    cur,             \* the handler: which request, how far
    acks,            \* everything published to clients, in order
    faults           \* how many faults happened

vars == <<deviceID_cache, disk, view, connected, cur, acks, faults>>

Idle == [pc |-> "idle"]
Dead == [pc |-> "dead"]    \* the MQTT thread ended on an uncaught exception

Steps == {"genID", "device", "neighbors", "leave", "exists", "items",
          "update", "query", "reply"}

\* The requests that reach a handler's try block and so are answered.
Answerable == {req \in Requests : req.op # "garbage"}

Running == [pc : Steps, req : Answerable, id : DeviceIDs, flag : Nat,
            ids : Seq(ProvidingIDs), ok : BOOLEAN]

Acks == [req : Answerable, id : DeviceIDs, ids : Seq(ProvidingIDs), ok : BOOLEAN]

\* The handlers touch only keys and rows drawn from these sets.
TypeOK ==
    /\ deviceID_cache \subseteq DeviceIDs
    /\ disk \subseteq Rows
    /\ view \subseteq Rows
    /\ connected \in BOOLEAN
    /\ cur \in Running \cup {Idle, Dead}
    /\ acks \in Seq(Acks)
    /\ faults \in 0 .. MaxFaults

Init ==
    /\ deviceID_cache = {}
    /\ disk = {}
    /\ view = {}
    /\ connected = TRUE
    /\ cur = Idle
    /\ acks = <<>>
    /\ faults = 0

-----------------------------------------------------------------------------
(***************************************************************************)
(* Every handler ends in its one reply: Raise jumps to the except clause.  *)
(***************************************************************************)
GoTo(pc) == cur' = [cur EXCEPT !.pc = pc]
Return   == cur' = [cur EXCEPT !.pc = "reply", !.ok = TRUE]
Raise    == cur' = [cur EXCEPT !.pc = "reply", !.ok = FALSE]

\* Mistake: an ID the cache does not know is taken for free.
DeviceStored_TrustsCache(d) == FALSE
ProvidingIDStored_NoSelect(p) == FALSE

\* db_proc("select"): the rows of one key, seen through the open transaction.
DeviceStored(d) == DeviceRow(d) \in view
ProvidingIDStored(p) ==
    \E r \in view : r.table = "RegisterList" /\ r.id = p

(***************************************************************************)
(* db_proc("insert"): one INSERT per row, in order, and a single commit    *)
(* after the last.  There is no rollback: the rows executed before a       *)
(* refused one stay in the open transaction, and the commit of whichever   *)
(* insert succeeds next makes them permanent.                              *)
(***************************************************************************)
\* Mistake: db.commit() forgotten.
InsertCommitted_NoCommit(rows) ==
    /\ connected
    /\ Executed(view, rows, Len(rows))
    /\ view' = view \cup FirstRows(rows, Len(rows))
    /\ UNCHANGED <<disk, connected, faults>>

InsertCommitted(rows) ==
    /\ connected
    /\ Executed(view, rows, Len(rows))
    /\ view' = view \cup FirstRows(rows, Len(rows))
    /\ disk' = view'
    /\ UNCHANGED <<connected, faults>>

InsertRefused(rows, fits) ==
    \/ /\ connected
       /\ \E k \in 0 .. Len(rows) - 1 :
            /\ Executed(view, rows, k)
            /\ fits => ~Accepts(view \cup FirstRows(rows, k), rows[k + 1])
            /\ view' = view \cup FirstRows(rows, k)
       /\ UNCHANGED <<disk, connected, faults>>
    \/ /\ ~connected
       /\ UNCHANGED <<disk, view, connected, faults>>

\* The connection breaks inside db.commit(), before or after the server did it.
CommitLost(rows) ==
    /\ connected
    /\ faults < MaxFaults
    /\ Executed(view, rows, Len(rows))
    /\ disk' \in {disk, view \cup FirstRows(rows, Len(rows))}
    /\ view' = disk'
    /\ connected' = FALSE
    /\ faults' = faults + 1

-----------------------------------------------------------------------------
FirstStep(req) ==
    CASE req.op = "join"  -> "genID"
      [] req.op = "leave" -> "leave"
      [] OTHER            -> "exists"

\* on_message and the opening lines of each handler, up to its first decision.
OnMessage(req) ==
    /\ cur = Idle
    /\ Len(acks) < MaxRequests
    /\ cur' = IF req.op = "garbage"
                THEN Dead
                ELSE [pc   |-> IF req.device = NoDevice
                                 THEN "reply" ELSE FirstStep(req),
                      req  |-> req,
                      id   |-> req.device,
                      flag |-> 0,
                      ids  |-> <<>>,
                      ok   |-> FALSE]
    /\ UNCHANGED <<deviceID_cache, disk, view, connected, acks, faults>>

\* client.publish of the answer.  Only a success names the generated IDs.
Reply ==
    /\ cur.pc = "reply"
    /\ acks' = Append(acks, [req |-> cur.req,
                             id  |-> IF cur.ok THEN cur.id ELSE cur.req.device,
                             ids |-> IF cur.ok THEN cur.ids ELSE <<>>,
                             ok  |-> cur.ok])
    /\ cur' = Idle
    /\ UNCHANGED <<deviceID_cache, disk, view, connected, faults>>

-----------------------------------------------------------------------------
(***************************************************************************)
(* join                                                                    *)
(***************************************************************************)
\* The while loop of join_genID stops at f.
FirstFree(name, flag, f) ==
    LET Tried == {g \in flag .. f : (g - flag) % collision_inc = 0}
    IN  /\ f \in Tried
        /\ newID(f, name) \notin deviceID_cache
        /\ \A g \in Tried \ {f} : newID(g, name) \in deviceID_cache

\* Mistake: the temporary name is cached too.
CacheID_AndName(id) == deviceID_cache' = deviceID_cache \cup {id, cur.id}

\* deviceID_cache[newID] = "None", later True: only membership is ever asked.
CacheID(id) == deviceID_cache' = deviceID_cache \cup {id}

JoinGenID ==
    /\ cur.pc = "genID"
    /\ \E f \in Flags :
         LET id == newID(f, cur.id) IN
         /\ FirstFree(cur.id, cur.flag, f)
         /\ CacheID(id)
         /\ IF ~connected
              THEN Raise
              ELSE IF DeviceStored(id)
                     THEN cur' = [cur EXCEPT !.flag = f + collision_inc]
                     ELSE cur' = [cur EXCEPT
                                    !.pc = IF cur.req.codesOk
                                             THEN "device" ELSE "reply",
                                    !.id = id]
    /\ UNCHANGED <<disk, view, connected, acks, faults>>

\* All entries of uniqueCodes become rows with the same primary key.
JoinInsertDevice ==
    LET rows == [i \in 1 .. cur.req.codes |-> DeviceRow(cur.id)] IN
    /\ cur.pc = "device"
    /\ \/ InsertCommitted(rows)
          /\ IF cur.req.neighborsOk THEN GoTo("neighbors") ELSE Raise
       \/ InsertRefused(rows, cur.req.fits) /\ Raise
       \/ CommitLost(rows) /\ Raise
    /\ UNCHANGED <<deviceID_cache, acks>>

JoinInsertNeighbors ==
    LET rows == [i \in 1 .. Len(cur.req.neighbors) |->
                   NeighborRow(cur.req.neighbors[i], cur.id)] IN
    /\ cur.pc = "neighbors"
    /\ \/ InsertCommitted(rows) /\ Return
       \/ InsertRefused(rows, cur.req.fits) /\ Raise
       \/ CommitLost(rows) /\ Raise
    /\ UNCHANGED <<deviceID_cache, acks>>

-----------------------------------------------------------------------------
(***************************************************************************)
(* leave, update: db_proc has no branch for "delete", and update asks for  *)
(* the rows of an empty query; both raise before anything is changed.      *)
(***************************************************************************)
Leave ==
    /\ cur.pc = "leave"
    /\ Raise
    /\ UNCHANGED <<deviceID_cache, disk, view, connected, acks, faults>>

Update ==
    /\ cur.pc = "update"
    /\ Raise
    /\ UNCHANGED <<deviceID_cache, disk, view, connected, acks, faults>>

-----------------------------------------------------------------------------
(***************************************************************************)
(* The existence check that register, update and query begin with.         *)
(***************************************************************************)
\* Mistake: an unreadable registerList is tried again.
AfterExists_Retry(req) ==
    CASE req.op = "register" -> IF req.itemsOk THEN "items" ELSE "exists"
      [] req.op = "update"   -> "update"
      [] req.op = "query"    -> "query"

AfterExists(req) ==
    CASE req.op = "register" -> IF req.itemsOk THEN "items" ELSE "reply"
      [] req.op = "update"   -> "update"
      [] req.op = "query"    -> IF req.requirementsOk THEN "query" ELSE "reply"

DeviceExists ==
    /\ cur.pc = "exists"
    /\ \/ /\ cur.id \in deviceID_cache
          /\ GoTo(AfterExists(cur.req))
          /\ UNCHANGED deviceID_cache
       \/ /\ cur.id \notin deviceID_cache
          /\ connected /\ DeviceStored(cur.id)
          /\ GoTo(AfterExists(cur.req))
          /\ deviceID_cache' = deviceID_cache \cup {cur.id}
       \/ /\ cur.id \notin deviceID_cache
          /\ ~(connected /\ DeviceStored(cur.id))
          /\ Raise
          /\ UNCHANGED deviceID_cache
    /\ UNCHANGED <<disk, view, connected, acks, faults>>

-----------------------------------------------------------------------------
(***************************************************************************)
(* register                                                                *)
(***************************************************************************)
\* register_genID stops at f: the first flag whose ID no row has.
FirstUnregistered(hash, flag, f) ==
    LET Tried == {g \in flag .. f : (g - flag) % collision_inc = 0}
    IN  /\ f \in Tried
        /\ ~ProvidingIDStored(newID(f, hash))
        /\ \A g \in Tried \ {f} : ProvidingIDStored(newID(g, hash))

\* The ID of the next item of registerList; the rows are inserted at the end.
RegisterItem ==
    LET item == cur.req.items[Len(cur.ids) + 1]
        flag == gen_flag(item.cache, item.segment, 0)
        Generated(f) == cur' = [cur EXCEPT
                                  !.ids = Append(cur.ids, newID(f, item.hash))]
    IN
    /\ cur.pc = "items"
    /\ Len(cur.ids) < Len(cur.req.items)
    /\ \/ item.collisionAvoid /\ connected
          /\ \E f \in Flags : FirstUnregistered(item.hash, flag, f) /\ Generated(f)
       \/ item.collisionAvoid /\ ~connected /\ Raise
       \/ ~item.collisionAvoid /\ flag \in Flags /\ Generated(flag)
    /\ UNCHANGED <<deviceID_cache, disk, view, connected, acks, faults>>

RegisterInsert ==
    LET rows == [i \in 1 .. Len(cur.ids) |-> RegisterListRow(cur.ids[i], cur.id)]
    IN
    /\ cur.pc = "items"
    /\ Len(cur.ids) = Len(cur.req.items)
    /\ \/ InsertCommitted(rows) /\ Return
       \/ InsertRefused(rows, cur.req.fits) /\ Raise
       \/ CommitLost(rows) /\ Raise
    /\ UNCHANGED <<deviceID_cache, acks>>

-----------------------------------------------------------------------------
\* query: a Sensor query gets a fixed answer, any other one names columns
\* that RegisterList does not have.
Query ==
    /\ cur.pc = "query"
    /\ IF cur.req.sensor THEN Return ELSE Raise
    /\ UNCHANGED <<deviceID_cache, disk, view, connected, acks, faults>>

-----------------------------------------------------------------------------
\* The server drops the connection; it is opened once, at start-up.
ConnectionLost ==
    /\ connected
    /\ faults < MaxFaults
    /\ connected' = FALSE
    /\ view' = disk
    /\ faults' = faults + 1
    /\ UNCHANGED <<deviceID_cache, disk, cur, acks>>

\* The process dies and is started again.
Restart ==
    /\ faults < MaxFaults
    /\ deviceID_cache' = {}
    /\ view' = disk
    /\ connected' = TRUE
    /\ cur' = Idle
    /\ faults' = faults + 1
    /\ UNCHANGED <<disk, acks>>

\* The main thread calls loop_start for ever, which does nothing while there
\* is a thread object; all that happens when no request comes or that thread
\* is dead.
MainLoop ==
    /\ cur = Dead \/ (cur = Idle /\ Len(acks) = MaxRequests)
    /\ UNCHANGED vars

Handler ==
    \/ JoinGenID \/ JoinInsertDevice \/ JoinInsertNeighbors
    \/ Leave \/ Update \/ DeviceExists
    \/ RegisterItem \/ RegisterInsert \/ Query \/ Reply

Next ==
    \/ \E req \in Requests : OnMessage(req)
    \/ Handler
    \/ ConnectionLost
    \/ Restart
    \/ MainLoop

\* A handler that has started runs: its thread does nothing else.
Spec == Init /\ [][Next]_vars /\ WF_vars(Handler)

-----------------------------------------------------------------------------
(***************************************************************************)
(* What was promised to clients: the answers that are successes.           *)
(***************************************************************************)
Granted(a)    == a.req.op = "join" /\ a.ok
StoredJoin(a) == Granted(a) /\ a.req.codes > 0
Registered(a) == a.req.op = "register" /\ a.ok

\* join_genID: the ID of a device that was told it joined is never handed out
\* again, whatever was refused, cached, left pending, lost or restarted in
\* between.  (A join without uniqueCodes is told it joined and stored nowhere.)
IDsUnique ==
    \A i, j \in DOMAIN acks :
        /\ i < j
        /\ StoredJoin(acks[i])
        /\ Granted(acks[j])
        => acks[i].id # acks[j].id

\* db_proc: what a successful answer of join or register says was stored is
\* committed, so that no crash and no lost connection undoes it.
AcksDurable ==
    \A i \in DOMAIN acks :
        LET a == acks[i] IN
        /\ StoredJoin(a) => DeviceRow(a.id) \in disk
        /\ Granted(a) => \A k \in DOMAIN a.req.neighbors :
                           NeighborRow(a.req.neighbors[k], a.id) \in disk
        /\ Registered(a) => \A k \in DOMAIN a.ids :
                           RegisterListRow(a.ids[k], a.id) \in disk

\* register_genID: an item registered with collisionAvoid has an ID that no
\* earlier successful registration, and no other item of its own, has.
CollisionAvoided ==
    \A j \in DOMAIN acks : Registered(acks[j]) =>
        \A k \in DOMAIN acks[j].ids : acks[j].req.items[k].collisionAvoid =>
            /\ \A i \in 1 .. j - 1 : Registered(acks[i]) =>
                 \A l \in DOMAIN acks[i].ids : acks[i].ids[l] # acks[j].ids[k]
            /\ \A l \in DOMAIN acks[j].ids \ {k} :
                 acks[j].ids[l] # acks[j].ids[k]

\* deviceID_cache and Device: every ID that is cached or has a row, committed
\* or pending, was paid for by one join of its own, so that the flags of a
\* name run out no sooner than its joins do.
JoinsBegun ==
    Cardinality({i \in DOMAIN acks : acks[i].req.op = "join"})
      + (IF cur \notin {Idle, Dead} /\ cur.req.op = "join" THEN 1 ELSE 0)

OneIDPerJoin ==
    Cardinality(deviceID_cache
                  \cup {r.id : r \in {q \in view : q.table = "Device"}})
      <= JoinsBegun + faults

\* The manager promises what IDRegistry promises: the IDs of members are handed
\* out once, and a registration adds provisions nobody had, exclusive ones
\* under IDs nobody had.
Members == {acks[i].id : i \in {j \in DOMAIN acks : StoredJoin(acks[j])}}

ProvisionsOf(i, a) ==
    {[nr        |-> i,
      id        |-> a.ids[k],
      device    |-> a.id,
      exclusive |-> a.req.items[k].collisionAvoid] : k \in DOMAIN a.ids}

Provided ==
    UNION {ProvisionsOf(i, acks[i]) : i \in {j \in DOMAIN acks : Registered(acks[j])}}

Registry == INSTANCE IDRegistry WITH members <- Members, provided <- Provided

ImplementsRegistry == Registry!Spec

\* on_message: a handler that has started comes back, with its answer or
\* because the process was restarted; nothing it meets in the cache or the
\* database makes it loop for ever.
HandlerReturns == (cur \notin {Idle, Dead}) ~> (cur = Idle)

-----------------------------------------------------------------------------
(***************************************************************************)
(* What the comments and the sample client say, and the code does not do.  *)
(***************************************************************************)
\* "deviceID's cache bit and segment flag are 0, thus only use 4 bit
\* management number": an ID handed out has a flag of that form.
FlagHasFourBits ==
    \A i \in DOMAIN acks : Granted(acks[i]) =>
        \E m \in 0 .. MaxManagementNumber :
            acks[i].id = newID(gen_flag(FALSE, FALSE, m), acks[i].req.device)

\* "Unjoin the target device": after a leave of a member has been answered,
\* and unless it joined again, the device is in no table.
LeaveUnjoins ==
    \A i, j \in DOMAIN acks :
        /\ i < j
        /\ StoredJoin(acks[i])
        /\ acks[j].req.op = "leave" /\ acks[j].req.device = acks[i].id
        /\ \A k \in j .. Len(acks) : ~(StoredJoin(acks[k]) /\ acks[k].id = acks[i].id)
        => DeviceRow(acks[i].id) \notin disk

=============================================================================
