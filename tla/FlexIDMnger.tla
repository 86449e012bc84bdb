---------------------------- MODULE FlexIDMnger ----------------------------
(***************************************************************************)
(* resolver/2017/flexIDMnger.py: the FlexID manager whose tables are kept  *)
(* by a database service behind a message broker.                          *)
(*                                                                         *)
(* Two threads share two dictionaries.  The thread of `client' runs one    *)
(* handler after the other; each of its database calls publishes a query   *)
(* under a fresh query ID and then spins until the entry of that ID in     *)
(* dbQuery_cache is no longer "None".  The thread of `db_client' writes    *)
(* whatever the service answers into dbQuery_cache.  Queries and answers   *)
(* are MQTT messages of quality of service 0: the broker forwards them in  *)
(* order, or not at all.                                                   *)
(***************************************************************************)
EXTENDS Naturals, Sequences, FiniteSets, TLC, FlexFlag, FlexTables

CONSTANTS
    Devices,      \* strings a client may present as its (temporary) device ID
    Hashes,       \* hashes of the contents and services clients register
    Attributes,   \* attribute strings
    NoDevice,     \* the device of a request whose "relay" is missing or empty
    Requests,     \* the requests clients send
    MaxRequests,  \* bound: how many requests arrive
    MaxFlag,      \* bound: the largest flag an ID is tried with
    MaxFaults     \* bound: how many restarts, lost messages and connections,
                  \* and selects that fail

ASSUME BoundsAssumption ==
    MaxRequests \in Nat /\ MaxFlag \in Nat /\ MaxFaults \in Nat

Senders == Devices \cup {NoDevice}
Flags   == 0 .. MaxFlag

\* name + str(flag)
newID(flag, name) == name \o ToString(flag)

DeviceIDs    == Senders \cup {newID(f, d) : f \in Flags, d \in Devices}
ProvidingIDs == {newID(f, h) : f \in Flags, h \in Hashes}

(***************************************************************************)
(* Requests, described by what their handlers do with them.                *)
(***************************************************************************)
Items == [hash : Hashes, cache : BOOLEAN, segment : BOOLEAN,
          collisionAvoid : BOOLEAN, attributes : Seq(Attributes)]

JoinRequests == [op : {"join"}, device : Senders, codes : Nat,
                 codesOk : BOOLEAN, neighbors : Seq(Devices),
                 neighborsOk : BOOLEAN]
RegisterRequests == [op : {"register"}, device : Senders, items : Seq(Items),
                     itemsOk : BOOLEAN]
UpdateRequests == [op : {"update"}, device : Senders, id : ProvidingIDs,
                   deregister : BOOLEAN, attributes : Seq(Attributes),
                   attributesOk : BOOLEAN]
QueryRequests == [op : {"query"}, device : Senders, requirementsOk : BOOLEAN]
LeaveRequests == [op : {"leave"}, device : Senders]
GarbageRequests == [op : {"garbage"}]

ASSUME RequestsAssumption ==
    Requests \subseteq JoinRequests \cup RegisterRequests \cup UpdateRequests
                         \cup QueryRequests \cup LeaveRequests \cup GarbageRequests

(***************************************************************************)
(* The SQL of a query.                                                     *)
(***************************************************************************)
Select(table, id) == [sql |-> "select", table |-> table, id |-> id]
SelectNothing     == [sql |-> "select", table |-> "none"]    \* db_query = {}
Insert(rows)      == [sql |-> "insert", rows |-> rows]
Delete(table, id) == [sql |-> "delete", table |-> table, id |-> id]
SetAttributes(id, attributes) ==
    [sql |-> "update", id |-> id, attributes |-> attributes]

-----------------------------------------------------------------------------
VARIABLES
    deviceID_cache,  \* the keys of the dictionary of that name
    dbQuery_cache,   \* query ID -> Waiting, or the answer that arrived
    cur,             \* the handler: which request, how far, waiting for what
    subscribed,      \* db_client has subscribed to the answers' topics
    toDB,            \* queries on their way to the service
    fromDB,          \* answers on their way back
    db,              \* the rows the service keeps
    lost,            \* history: the numbers of queries that, or whose answers,
                     \* were lost
    members,         \* history: IDs handed out to devices that did not leave
    provided,        \* history: what they were told is registered
    requests,        \* how many requests arrived
    sent,            \* how many queries were sent
    faults           \* how many faults happened

queues  == <<toDB, fromDB, db>>
promises == <<members, provided>>
vars == <<deviceID_cache, dbQuery_cache, cur, subscribed, queues, promises,
          lost, requests, sent, faults>>

Idle     == [pc |-> "idle"]
Dead     == [pc |-> "dead"]   \* the client thread ended on an uncaught exception
Waiting  == [nr |-> 0]        \* the string "None"

\* The positions where a handler spins for an answer, and, between two items
\* of a registration, one where it does not.
Spins == {"genID", "device", "neighbors", "leave", "exists", "registerID",
          "insert", "found", "update", "query"}
Steps == Spins \cup {"items"}

Init ==
    /\ deviceID_cache = {}
    /\ dbQuery_cache = << >>
    /\ cur = Idle
    /\ subscribed = FALSE
    /\ toDB = << >> /\ fromDB = << >> /\ db = {}
    /\ members = {} /\ provided = {} /\ lost = {}
    /\ requests = 0 /\ sent = 0 /\ faults = 0

-----------------------------------------------------------------------------
(***************************************************************************)
(* send_DBquery.  The query ID is drawn at random from four bytes until it *)
(* is not in dbQuery_cache; a number that was never drawn before is the    *)
(* number of the query.                                                    *)
(***************************************************************************)
Without(cache, q) == [p \in DOMAIN cache \ {q} |-> cache[p]]

With(cache, q, entry) ==
    [p \in DOMAIN cache \cup {q} |-> IF p = q THEN entry ELSE cache[p]]

\* Mistake: the fixed ID of the line that is commented out.
queryID_Fixed(cache, q) == q = 1

queryID(cache, q) == q = sent + 1 /\ q \notin DOMAIN cache

\* From here the handler h spins at pc; cache is what it left in dbQuery_cache.
Ask(h, cache, pc, sql) ==
    /\ \E q \in 1 .. sent + 1 :
         /\ queryID(cache, q)
         /\ dbQuery_cache' = With(cache, q, Waiting)
         /\ toDB' = Append(toDB, [queryID |-> q, nr |-> sent + 1, query |-> sql])
         /\ cur' = [h EXCEPT !.pc = pc, !.queryID = q, !.nr = sent + 1]
    /\ sent' = sent + 1

\* The spinning is over: what the service answered, and the entry deleted.
Answered(pc) == cur.pc = pc /\ dbQuery_cache[cur.queryID] # Waiting
Answer       == dbQuery_cache[cur.queryID]

\* Mistake: the entry is not deleted.
Cleared_Kept == dbQuery_cache

Cleared == Without(dbQuery_cache, cur.queryID)

(***************************************************************************)
(* The handler h publishes its answer and returns.  Members and provided   *)
(* record what a success means to the client; misread are the items whose  *)
(* ID was taken for free because the select that asked for it failed.      *)
(***************************************************************************)
Granted(h)    == h.req.op = "join" /\ h.req.codes > 0
Registered(h) == h.req.op = "register"

Publish(h, cache, ok) ==
    /\ cur' = Idle
    /\ dbQuery_cache' = cache
    /\ members' = IF ok /\ Granted(h) THEN members \cup {h.id} ELSE members
    /\ provided' =
         IF ok /\ Registered(h)
           THEN provided \cup {[nr        |-> requests,
                                id        |-> h.ids[k],
                                device    |-> h.id,
                                exclusive |-> h.req.items[k].collisionAvoid
                                                /\ k \notin h.misread] :
                               k \in DOMAIN h.ids}
           ELSE provided
    /\ UNCHANGED <<toDB, sent>>

Succeed(h, cache) == Publish(h, cache, TRUE)
Fail(h, cache)    == Publish(h, cache, FALSE)

-----------------------------------------------------------------------------
(***************************************************************************)
(* join_genID                                                              *)
(***************************************************************************)
Tried(flag, f) == {g \in flag .. f : (g - flag) % collision_inc = 0}

\* The while loop stops at f.
FirstFree(name, flag, f) ==
    /\ f \in Tried(flag, f)
    /\ newID(f, name) \notin deviceID_cache
    /\ \A g \in Tried(flag, f) \ {f} : newID(g, name) \in deviceID_cache

GenID(h, cache, flag) ==
    \E f \in Flags :
        /\ FirstFree(h.req.device, flag, f)
        /\ deviceID_cache' = deviceID_cache \cup {newID(f, h.req.device)}
        /\ Ask([h EXCEPT !.id = newID(f, h.req.device), !.flag = f], cache,
               "genID", Select("Device", newID(f, h.req.device)))
        /\ UNCHANGED promises

JoinGenID ==
    /\ Answered("genID")
    /\ \/ /\ Answer.found
          /\ GenID(cur, Cleared, cur.flag + collision_inc)
       \/ /\ ~Answer.found
          /\ IF cur.req.codesOk
               THEN /\ Ask(cur, Cleared, "device",
                           Insert([i \in 1 .. cur.req.codes |-> DeviceRow(cur.id)]))
                    /\ UNCHANGED promises
               ELSE Fail(cur, Cleared)
          /\ UNCHANGED deviceID_cache

(***************************************************************************)
(* join, after its inserts.  It never deletes their entries.               *)
(***************************************************************************)
JoinDevice ==
    /\ Answered("device")
    /\ IF Answer.error \/ ~cur.req.neighborsOk
         THEN Fail(cur, dbQuery_cache)
         ELSE /\ Ask(cur, dbQuery_cache, "neighbors",
                     Insert([i \in 1 .. Len(cur.req.neighbors) |->
                               NeighborRow(cur.req.neighbors[i], cur.id)]))
              /\ UNCHANGED promises
    /\ UNCHANGED deviceID_cache

JoinNeighbors ==
    /\ Answered("neighbors")
    /\ Publish(cur, dbQuery_cache, ~Answer.error)
    /\ UNCHANGED deviceID_cache

-----------------------------------------------------------------------------
(***************************************************************************)
(* leave.  A device that asks to leave is a member no longer, whatever     *)
(* becomes of its request.                                                 *)
(***************************************************************************)
AskLeave(h) ==
    /\ Ask(h, dbQuery_cache, "leave", Delete("Device", h.id))
    /\ members' = members \ {h.id}
    /\ provided' = {p \in provided : p.device # h.id}

\* del deviceID_cache[deviceID] raises when the ID is not there.
Leave ==
    /\ Answered("leave")
    /\ \/ /\ Answer.error
          /\ Fail(cur, dbQuery_cache)
          /\ UNCHANGED deviceID_cache
       \/ /\ ~Answer.error
          /\ Publish(cur, Cleared, cur.id \in deviceID_cache)
          /\ deviceID_cache' = deviceID_cache \ {cur.id}

-----------------------------------------------------------------------------
(***************************************************************************)
(* register, update and query, once their device is known.                 *)
(***************************************************************************)
Continue(h, cache) ==
    \/ /\ h.req.op = "register" /\ h.req.itemsOk
       /\ cur' = [h EXCEPT !.pc = "items"]
       /\ dbQuery_cache' = cache
       /\ UNCHANGED <<toDB, sent, promises>>
    \/ /\ h.req.op = "update"
       /\ Ask(h, cache, "found", SelectNothing)
       /\ UNCHANGED promises
    \/ /\ h.req.op = "query" /\ h.req.requirementsOk
       /\ Ask(h, cache, "query", Select("Device", h.id))
       /\ UNCHANGED promises
    \/ /\ \/ h.req.op = "register" /\ ~h.req.itemsOk
          \/ h.req.op = "query" /\ ~h.req.requirementsOk
       /\ Fail(h, cache)

DeviceExists ==
    /\ Answered("exists")
    /\ \/ /\ Answer.found
          /\ Continue(cur, Cleared)
          /\ deviceID_cache' = deviceID_cache \cup {cur.id}
       \/ /\ ~Answer.found
          /\ Fail(cur, Cleared)
          /\ UNCHANGED deviceID_cache

(***************************************************************************)
(* register.  attrList grows over the items of one request; an item stores *)
(* its first entries, as many as the item has attributes.                  *)
(***************************************************************************)
Item(h) == h.req.items[Len(h.ids) + 1]

\* Mistake: the item is given its hash.
WithID_HashOnly(h, id) ==
    [h EXCEPT !.pc = "items", !.ids = Append(h.ids, Item(h).hash),
              !.rows = Append(h.rows, RegisterListRow(Item(h).hash, h.id))]

WithID(h, id) ==
    LET attrList == h.attrList \o Item(h).attributes
        row == [table |-> "RegisterList", id |-> id, device |-> h.id,
                attributes |-> SubSeq(attrList, 1, Len(Item(h).attributes))]
    IN  [h EXCEPT !.pc = "items", !.ids = Append(h.ids, id),
                  !.rows = Append(h.rows, row), !.attrList = attrList]

AskRegisterID(h, cache, flag) ==
    /\ flag \in Flags
    /\ Ask([h EXCEPT !.flag = flag], cache, "registerID",
           Select("RegisterList", newID(flag, Item(h).hash)))

RegisterItem ==
    /\ cur.pc = "items"
    /\ Len(cur.ids) < Len(cur.req.items)
    /\ LET flag == gen_flag(Item(cur).cache, Item(cur).segment, 0) IN
       /\ flag \in Flags
       /\ \/ /\ Item(cur).collisionAvoid
             /\ AskRegisterID(cur, dbQuery_cache, flag)
          \/ /\ ~Item(cur).collisionAvoid
             /\ cur' = WithID(cur, newID(flag, Item(cur).hash))
             /\ UNCHANGED <<dbQuery_cache, toDB, sent>>
    /\ UNCHANGED <<deviceID_cache, promises>>

\* Mistake: any answer means that the ID is free.
RegisterCollides_Never == FALSE

\* The error of the answer is not looked at: without data the ID is free.
RegisterCollides == Answer.found

Misread(h) == IF Answer.error THEN h.misread \cup {Len(h.ids) + 1} ELSE h.misread

RegisterGenID ==
    /\ Answered("registerID")
    /\ \/ /\ RegisterCollides
          /\ AskRegisterID(cur, Cleared, cur.flag + collision_inc)
       \/ /\ ~RegisterCollides
          /\ cur' = [WithID(cur, newID(cur.flag, Item(cur).hash)) EXCEPT
                       !.misread = Misread(cur)]
          /\ dbQuery_cache' = Cleared
          /\ UNCHANGED <<toDB, sent>>
    /\ UNCHANGED <<deviceID_cache, promises>>

RegisterAll ==
    /\ cur.pc = "items"
    /\ Len(cur.ids) = Len(cur.req.items)
    /\ Ask(cur, dbQuery_cache, "insert", Insert(cur.rows))
    /\ UNCHANGED <<deviceID_cache, promises>>

\* Mistake: the error of the answer is not looked at.
RegisterInsert_NoCheck ==
    /\ Answered("insert")
    /\ Succeed(cur, Cleared)
    /\ UNCHANGED deviceID_cache

RegisterInsert ==
    /\ Answered("insert")
    /\ IF Answer.error THEN Fail(cur, dbQuery_cache) ELSE Succeed(cur, Cleared)
    /\ UNCHANGED deviceID_cache

-----------------------------------------------------------------------------
(***************************************************************************)
(* update.  An object is withdrawn as soon as its deletion is sent.        *)
(***************************************************************************)
UpdateFound ==
    /\ Answered("found")
    /\ \/ ~Answer.found /\ Fail(cur, Cleared)
       \/ /\ Answer.found /\ cur.req.deregister
          /\ Ask(cur, Cleared, "update", Delete("RegisterList", cur.req.id))
          /\ provided' = {p \in provided : p.id # cur.req.id}
          /\ UNCHANGED members
       \/ /\ Answer.found /\ ~cur.req.deregister /\ ~cur.req.attributesOk
          /\ Fail(cur, Cleared)
       \/ /\ Answer.found /\ ~cur.req.deregister /\ cur.req.attributesOk
          /\ Ask(cur, Cleared, "update", SetAttributes(cur.req.id, cur.req.attributes))
          /\ UNCHANGED promises
    /\ UNCHANGED deviceID_cache

Update ==
    /\ Answered("update")
    /\ IF Answer.error THEN Fail(cur, dbQuery_cache) ELSE Succeed(cur, Cleared)
    /\ UNCHANGED deviceID_cache

\* The answer to a query is made up; what the service said is ignored.
Query ==
    /\ Answered("query")
    /\ Succeed(cur, Cleared)
    /\ UNCHANGED deviceID_cache

-----------------------------------------------------------------------------
Start(req) ==
    [pc |-> "start", req |-> req, id |-> req.device, flag |-> 0, queryID |-> 0,
     nr |-> 0, ids |-> << >>, rows |-> << >>, attrList |-> << >>,
     misread |-> {}]

Handle(h) ==
    \/ /\ h.id = NoDevice
       /\ Fail(h, dbQuery_cache)
       /\ UNCHANGED deviceID_cache
    \/ /\ h.id # NoDevice /\ h.req.op = "join"
       /\ GenID(h, dbQuery_cache, 0)
    \/ /\ h.id # NoDevice /\ h.req.op = "leave"
       /\ AskLeave(h)
       /\ UNCHANGED deviceID_cache
    \/ /\ h.id # NoDevice /\ h.req.op \in {"register", "update", "query"}
       /\ IF h.id \in deviceID_cache
            THEN Continue(h, dbQuery_cache)
            ELSE /\ Ask(h, dbQuery_cache, "exists", Select("Device", h.id))
                 /\ UNCHANGED promises
       /\ UNCHANGED deviceID_cache

\* on_message, up to where the handler first has to wait.
OnMessage(req) ==
    /\ cur = Idle
    /\ requests < MaxRequests
    /\ requests' = requests + 1
    /\ \/ /\ req.op = "garbage"
          /\ cur' = Dead
          /\ UNCHANGED <<deviceID_cache, dbQuery_cache, toDB, sent, promises>>
       \/ /\ req.op # "garbage"
          /\ Handle(Start(req))
    /\ UNCHANGED <<subscribed, fromDB, db, lost, faults>>

-----------------------------------------------------------------------------
(***************************************************************************)
(* The thread of db_client.                                                *)
(***************************************************************************)
\* on_db_connect: the subscriptions follow the connection's acknowledgement.
OnDbConnect ==
    /\ ~subscribed
    /\ subscribed' = TRUE
    /\ UNCHANGED <<deviceID_cache, dbQuery_cache, cur, queues, promises, lost,
                   requests, sent, faults>>

\* Mistake: an answer is stored only under an ID that is not there yet.
Store_OnlyNew(m) ==
    dbQuery_cache' = IF m.queryID \in DOMAIN dbQuery_cache THEN dbQuery_cache
                     ELSE With(dbQuery_cache, m.queryID, m)

Store(m) == dbQuery_cache' = With(dbQuery_cache, m.queryID, m)

\* on_db_message: any answer is stored under the ID its topic ends with.
OnDbMessage ==
    /\ fromDB # << >> /\ subscribed
    /\ Store(Head(fromDB))
    /\ fromDB' = Tail(fromDB)
    /\ UNCHANGED <<deviceID_cache, cur, subscribed, toDB, db, promises, lost,
                   requests, sent, faults>>

\* The broker has nobody to forward an answer to.
AnswerUnsubscribed ==
    /\ fromDB # << >> /\ ~subscribed
    /\ fromDB' = Tail(fromDB)
    /\ lost' = lost \cup {Head(fromDB).nr}
    /\ UNCHANGED <<deviceID_cache, dbQuery_cache, cur, subscribed, toDB, db,
                   promises, requests, sent, faults>>

-----------------------------------------------------------------------------
(***************************************************************************)
(* The database service, known by how the manager uses it: it executes the *)
(* queries in the order they come and answers each of them.                *)
(***************************************************************************)
Matches(q, r) == q.table = r.table /\ q.id = r.id

Overlaid(old, new) == new \o SubSeq(old, Len(new) + 1, Len(old))

\* The service executed the query m, with the outcome error and found.
Executes(m, error, found) ==
    /\ toDB' = Tail(toDB)
    /\ fromDB' = Append(fromDB, [queryID |-> m.queryID, nr |-> m.nr,
                                 error |-> error, found |-> found])

DBSelect(m) ==
    /\ m.query.sql = "select"
    /\ \E found \in BOOLEAN :
         /\ m.query # SelectNothing => (found <=> \E r \in db : Matches(m.query, r))
         /\ Executes(m, FALSE, found)
    /\ UNCHANGED db

\* What a refused insert executed before it was refused may stay.
DBInsert(m) ==
    /\ m.query.sql = "insert"
    /\ LET rows == m.query.rows IN
       \/ /\ Executed(db, rows, Len(rows))
          /\ db' = db \cup FirstRows(rows, Len(rows))
          /\ Executes(m, FALSE, FALSE)
       \/ /\ \E k \in 0 .. Len(rows) - 1 :
               /\ Executed(db, rows, k)
               /\ db' \in {db, db \cup FirstRows(rows, k)}
          /\ Executes(m, TRUE, FALSE)

DBDelete(m) ==
    /\ m.query.sql = "delete"
    /\ \/ db' = Deleted(db, m.query.table, m.query.id) /\ Executes(m, FALSE, FALSE)
       \/ db' = db /\ Executes(m, TRUE, FALSE)

DBUpdate(m) ==
    /\ m.query.sql = "update"
    /\ \/ /\ db' = {IF r.table = "RegisterList" /\ r.id = m.query.id
                      THEN [r EXCEPT !.attributes = Overlaid(@, m.query.attributes)]
                      ELSE r : r \in db}
          /\ Executes(m, FALSE, FALSE)
       \/ db' = db /\ Executes(m, TRUE, FALSE)

DBExecute ==
    /\ toDB # << >>
    /\ LET m == Head(toDB) IN
       DBSelect(m) \/ DBInsert(m) \/ DBDelete(m) \/ DBUpdate(m)
    /\ UNCHANGED <<deviceID_cache, dbQuery_cache, cur, subscribed, promises,
                   lost, requests, sent, faults>>

-----------------------------------------------------------------------------
(***************************************************************************)
(* Faults.                                                                 *)
(***************************************************************************)
\* Quality of service 0: a query or an answer is lost.
LoseMessage ==
    /\ faults < MaxFaults
    /\ \/ /\ toDB # << >>
          /\ toDB' = Tail(toDB) /\ UNCHANGED fromDB
          /\ lost' = lost \cup {Head(toDB).nr}
       \/ /\ fromDB # << >>
          /\ fromDB' = Tail(fromDB) /\ UNCHANGED toDB
          /\ lost' = lost \cup {Head(fromDB).nr}
    /\ faults' = faults + 1
    /\ UNCHANGED <<deviceID_cache, dbQuery_cache, cur, subscribed, db, promises,
                   requests, sent>>

\* The service cannot answer a select, and says so without data.
SelectFails ==
    /\ faults < MaxFaults
    /\ toDB # << >>
    /\ Head(toDB).query.sql = "select"
    /\ Executes(Head(toDB), TRUE, FALSE)
    /\ faults' = faults + 1
    /\ UNCHANGED <<deviceID_cache, dbQuery_cache, cur, subscribed, db, promises,
                   lost, requests, sent>>

\* db_client's connection breaks; its thread connects and subscribes again.
DbDisconnect ==
    /\ faults < MaxFaults
    /\ subscribed
    /\ subscribed' = FALSE
    /\ faults' = faults + 1
    /\ UNCHANGED <<deviceID_cache, dbQuery_cache, cur, queues, promises, lost,
                   requests, sent>>

\* The manager dies and is started again; broker and service live on.
Restart ==
    /\ faults < MaxFaults
    /\ deviceID_cache' = {}
    /\ dbQuery_cache' = << >>
    /\ cur' = Idle
    /\ subscribed' = FALSE
    /\ faults' = faults + 1
    /\ UNCHANGED <<queues, promises, lost, requests, sent>>

-----------------------------------------------------------------------------
\* while dbQuery_cache[queryID] == "None": continue
Spinning == cur.pc \in Spins /\ dbQuery_cache[cur.queryID] = Waiting

\* The handler spins for an answer that will not come.
Stuck == Spinning /\ cur.nr \in lost

\* All there is to do when no request comes, the thread is dead, or it spins.
MainLoop ==
    /\ cur = Dead \/ (cur = Idle /\ requests = MaxRequests) \/ Spinning
    /\ UNCHANGED vars

Handler ==
    /\ \/ JoinGenID \/ JoinDevice \/ JoinNeighbors \/ Leave \/ DeviceExists
       \/ RegisterItem \/ RegisterGenID \/ RegisterAll \/ RegisterInsert
       \/ UpdateFound \/ Update \/ Query
    /\ UNCHANGED <<subscribed, fromDB, db, lost, requests, faults>>

Next ==
    \/ \E req \in Requests : OnMessage(req)
    \/ Handler
    \/ OnDbConnect \/ OnDbMessage \/ AnswerUnsubscribed
    \/ DBExecute
    \/ LoseMessage \/ SelectFails \/ DbDisconnect \/ Restart
    \/ MainLoop

(***************************************************************************)
(* Each thread goes on when it can, and so do the broker and the service.  *)
(***************************************************************************)
Fairness ==
    /\ WF_vars(Handler)
    /\ WF_vars(OnDbConnect)
    /\ WF_vars(OnDbMessage \/ AnswerUnsubscribed)
    /\ WF_vars(DBExecute)

Spec == Init /\ [][Next]_vars /\ Fairness

-----------------------------------------------------------------------------
Rows ==
    {DeviceRow(d) : d \in DeviceIDs}
      \cup {NeighborRow(n, d) : n \in Devices, d \in DeviceIDs}
      \cup [table : {"RegisterList"}, id : ProvidingIDs, device : DeviceIDs,
            attributes : Seq(Attributes)]

Queries ==
    [sql : {"select", "delete"}, table : {"Device"}, id : DeviceIDs]
      \cup [sql : {"select", "delete"}, table : {"RegisterList"}, id : ProvidingIDs]
      \cup [sql : {"insert"}, rows : Seq(Rows)]
      \cup [sql : {"update"}, id : ProvidingIDs, attributes : Seq(Attributes)]
      \cup {SelectNothing}

Messages == [queryID : Nat, nr : Nat, query : Queries]
Answers  == [queryID : Nat, nr : Nat, error : BOOLEAN, found : BOOLEAN]

Handlers ==
    [pc : Steps, req : Requests, id : DeviceIDs, flag : Flags, queryID : Nat,
     nr : Nat, ids : Seq(ProvidingIDs), rows : Seq(Rows), attrList : Seq(Attributes),
     misread : SUBSET (Nat \ {0})]

Registry == INSTANCE IDRegistry

\* The state stays within its types, and a spinning handler finds its entry.
TypeOK ==
    /\ deviceID_cache \subseteq DeviceIDs
    /\ DOMAIN dbQuery_cache \subseteq 1 .. sent
    /\ \A q \in DOMAIN dbQuery_cache : dbQuery_cache[q] \in Answers \cup {Waiting}
    /\ cur \in Handlers \cup {Idle, Dead}
    /\ cur.pc \in Spins => cur.queryID \in DOMAIN dbQuery_cache
    /\ subscribed \in BOOLEAN
    /\ toDB \in Seq(Messages) /\ fromDB \in Seq(Answers) /\ db \subseteq Rows
    /\ lost \subseteq 1 .. sent
    /\ members \subseteq DeviceIDs /\ provided \subseteq Registry!Provisions
    /\ requests \in 0 .. MaxRequests /\ sent \in Nat /\ faults \in 0 .. MaxFaults

(***************************************************************************)
(* Safety.                                                                 *)
(***************************************************************************)
\* What a client was told: the ID a join answered is in the Device table, and
\* what a registration answered is in RegisterList, through lost messages,
\* restarts and the queries of handlers that died with one, until somebody
\* asks to take it away.
PromisesKept ==
    /\ \A d \in members : DeviceRow(d) \in db
    /\ \A p \in provided :
         \E r \in db : r.table = "RegisterList" /\ r.id = p.id /\ r.device = p.device

\* The answer a handler stops spinning for answers its own query, not one that
\* an earlier handler sent (send_DBquery, on_db_message).
AnswerMatches ==
    cur.pc \in Spins /\ dbQuery_cache[cur.queryID] # Waiting =>
        dbQuery_cache[cur.queryID].nr = cur.nr

\* dbQuery_cache grows by at most two entries for each request that arrived,
\* what a join leaves behind; the answers that come for a handler that died
\* with a restart are among the entries of that handler.
DbQueryCacheBounded ==
    Cardinality(DOMAIN dbQuery_cache) <= 2 * requests

\* A join is answered with an ID no member has, a registration with provisions
\* nobody was promised before, alone under their ID where that was asked for
\* and no select about it failed: the manager, its broker and its tables
\* implement IDRegistry.
ImplementsRegistry == Registry!Spec

(***************************************************************************)
(* Liveness.                                                               *)
(***************************************************************************)
\* A handler that started comes back, unless its query or answer was lost:
\* send_DBquery waits without a timeout.
HandlerReturns == cur.pc \in Steps ~> (cur = Idle \/ Stuck)

(***************************************************************************)
(* What the sample client expects, and the code does not do.               *)
(***************************************************************************)
\* Each item of a registration is stored with the attributes it came with.
AttributesStored ==
    cur.pc = "insert" =>
        \A k \in DOMAIN cur.rows : cur.rows[k].attributes = cur.req.items[k].attributes

=============================================================================
