---------------------------- MODULE Resolver2016 ----------------------------
(***************************************************************************)
(* resolver/2016: resolver_per.py (Socket.IO) and resolver.py (HTTP), two  *)
(* programs over the tables of one MySQL database.                         *)
(*                                                                         *)
(* A handler opens a connection, whose first SELECT fixes what it reads,   *)
(* and writes in a transaction that takes effect with its commit; a        *)
(* connection that is dropped takes its transaction with it.  ALTER TABLE  *)
(* commits what the transaction wrote so far.  A process runs each handler *)
(* in a thread of its own; its threads share the global manageNum.         *)
(***************************************************************************)
EXTENDS Integers, Sequences, FiniteSets, FiniteSetsExt

CONSTANTS
    Processes,       \* the server processes
    SocketIO,        \* those of them that run resolver_per.py
    Threads,         \* their threads
    ProcessOf,       \* the process of each thread
    Requests,        \* the requests clients send
    InitialColumns,  \* how many attribute columns Service has at first
    MaxEvents        \* bound: how many requests arrive and faults happen

ASSUME ProcessesAssumption ==
    SocketIO \subseteq Processes /\ ProcessOf \in [Threads -> Processes]

ASSUME BoundsAssumption == InitialColumns \in Nat /\ MaxEvents \in Nat

(***************************************************************************)
(* Requests, described by what their handlers do with them.  ok: nothing   *)
(* in the rest of the payload makes the handler raise.                     *)
(***************************************************************************)
Kinds == {"Web", "ImageTransfer", "unknown"}

JoinRequests   == [op : {"Join"}, interfaces : BOOLEAN, neighbors : BOOLEAN,
                   ok : BOOLEAN]
UpdateRequests == [op : {"Update"}, device : Nat, ok : BOOLEAN,
                   services : Seq([kind : Kinds, attributes : Nat])]
LeaveRequests  == [op : {"Leave"}, device : Nat, ok : BOOLEAN]
ServiceRequests == [op : {"Request"}, device : Nat, ok : BOOLEAN]

ASSUME RequestsAssumption ==
    Requests \subseteq JoinRequests \cup UpdateRequests \cup LeaveRequests
                         \cup ServiceRequests

-----------------------------------------------------------------------------
VARIABLES
    db,         \* the committed rows, by table, and the columns of Service
    manageNum,  \* the global of that name, of each process
    cur,        \* the handler of each thread
    granted,    \* history: what was answered with success
    failed,     \* history: the requests that were answered with an error, or
                \* not at all, but for those that failed in their commit
    altered,    \* history: the requests that altered Service
    stranded,   \* history: the requests whose rows nobody takes along when
                \* their device leaves
    runs,       \* history: how often each process was started
    overlapped, \* history: the Updates that another one of their process ran
                \* beside
    requests,   \* how many requests arrived
    faults      \* how many database errors and restarts happened

history == <<granted, failed, altered, stranded, runs>>
vars == <<db, manageNum, cur, history, overlapped, requests, faults>>

Tables  == {"Device", "Neighbor", "Service", "Request"}
Nothing == [t \in Tables |-> {}]
Idle    == [pc |-> "idle"]

Init ==
    /\ db = [rows |-> Nothing, columns |-> InitialColumns]
    /\ manageNum = [p \in Processes |-> 0]
    /\ cur = [p \in Threads |-> Idle]
    /\ granted = {} /\ failed = {} /\ altered = {} /\ stranded = {}
    /\ runs = [p \in Processes |-> 1] /\ overlapped = {}
    /\ requests = 0 /\ faults = 0

IDs(table) == {r.id : r \in db.rows[table]}

\* The thread p runs resolver_per.py.
Per(p) == ProcessOf[p] \in SocketIO

\* The run of its process that it belongs to.
Run(p) == <<ProcessOf[p], runs[ProcessOf[p]]>>

-----------------------------------------------------------------------------
(***************************************************************************)
(* Generated IDs.                                                          *)
(***************************************************************************)
\* Mistake: the MAX of an empty table is not looked at.
NextID_NotNone(ids) == IF ids = {} THEN -1 ELSE Max(ids) + 1

\* SELECT MAX(CAST(... as SIGNED)), and one more.
NextID(ids) == Max(ids \cup {0}) + 1

Digits[i \in Nat] == IF i < 10 THEN <<i>> ELSE Append(Digits[i \div 10], i % 10)

\* As texts, m comes before n: it is the beginning of n, or has the smaller
\* digit where they differ first.
TextLess(m, n) ==
    LET s == Digits[m]
        t == Digits[n]
    IN  \E k \in 0 .. Len(s) :
           /\ k < Len(t) /\ SubSeq(s, 1, k) = SubSeq(t, 1, k)
           /\ k < Len(s) => s[k + 1] < t[k + 1]

\* SELECT MAX(requestID) of a column of text: one of them is last.
LastTexts(ids) == {m \in ids : \A n \in ids \ {m} : TextLess(n, m)}

\* And one more; 1 of an empty table.
NextIDByText(ids) == IF ids = {} THEN {1} ELSE {m + 1 : m \in LastTexts(ids)}

\* Mistake: the table of the other handler.
NextRequestID_Device(p) == {NextID(IDs("Device"))}

NextRequestID(p) ==
    IF Per(p) THEN {NextID(IDs("Request"))} ELSE NextIDByText(IDs("Request"))

\* manageNum as a thread that counts reads it.
Counter(p) == manageNum[ProcessOf[p]]

\* genServiceID puts manageNum into the ID of a kind it knows, and returns
\* the number 1, here 0, for the others.
Known(p) == IF Per(p) THEN {"Web", "ImageTransfer"} ELSE {"Web"}

\* Mistake: each Update counts on its own.
serviceID_PerUpdate(p, kind) == IF kind \in Known(p) THEN cur[p].done + 1 ELSE 0

serviceID(p, kind) == IF kind \in Known(p) THEN Counter(p) ELSE 0

\* It raises for "ImageTransfer", which names a variable that does not exist.
NameError(p, kind) == Per(p) /\ kind = "ImageTransfer"

\* "Service ID: " + 1 raises when it is printed.
TypeError(p, kind) == Per(p) /\ kind = "unknown"

-----------------------------------------------------------------------------
(***************************************************************************)
(* A handler: where it is, what its transaction wrote.  id: the ID it      *)
(* generated; done: how many services of an Update it went through;        *)
(* number: what it read of manageNum, and the number its service got;      *)
(* columns: attrCount; added: how many columns its service added; seen: the *)
(* requests of its kind that were answered with success before.            *)
(***************************************************************************)
Begin(p, req, pc, id, writes) ==
    cur' = [cur EXCEPT ![p] =
              [pc |-> pc, req |-> req, nr |-> requests + 1, id |-> id,
               writes |-> writes, done |-> 0, number |-> 0, columns |-> 0, added |-> 0,
               seen |-> {g.nr : g \in {g \in granted : g.op = req.op}}]]

Row(id, device) == [id |-> id, device |-> device, nr |-> requests + 1]

Join(p, req) ==
    LET id == NextID(IDs("Device"))
        rows(t, some) == IF some THEN {Row(id, id)} ELSE {}
        writes == [Nothing EXCEPT
                     !.Device   = rows("Device", req.interfaces),
                     !.Neighbor = rows("Neighbor", req.neighbors /\ Per(p))]
    IN  /\ req.op = "Join"
        /\ Begin(p, req, IF req.ok THEN "commit" ELSE "refused", id, writes)

Update(p, req) ==
    /\ req.op = "Update"
    /\ Begin(p, req,
             IF req.ok /\ \E r \in db.rows["Device"] : r.device = req.device
               THEN "count" ELSE "refused",
             0, Nothing)

Leave(p, req) ==
    /\ req.op = "Leave"
    /\ Begin(p, req, IF req.ok THEN "commit" ELSE "refused", 0, Nothing)

Request(p, req) ==
    LET ok == req.ok /\ db.rows["Service"] # {}
    IN  /\ req.op = "Request"
        /\ \E id \in NextRequestID(p) :
              Begin(p, req, IF ok THEN "commit" ELSE "refused", id,
                    [Nothing EXCEPT !.Request = {Row(id, req.device)}])

\* The Updates of the process of p that one of p finds under way, and itself.
Overlaps(p, req) ==
    LET others == {q \in Threads : /\ ProcessOf[q] = ProcessOf[p]
                                   /\ cur[q] # Idle /\ cur[q].req.op = "Update"}
    IN  IF req.op = "Update" /\ others # {}
          THEN {requests + 1} \cup {cur[q].nr : q \in others} ELSE {}

Handle(p, req) ==
    /\ cur[p] = Idle
    /\ requests + faults < MaxEvents
    /\ Join(p, req) \/ Update(p, req) \/ Leave(p, req) \/ Request(p, req)
    /\ requests' = requests + 1
    /\ overlapped' = overlapped \cup Overlaps(p, req)
    /\ UNCHANGED <<db, manageNum, history, faults>>

-----------------------------------------------------------------------------
(***************************************************************************)
(* Update, service by service.                                             *)
(***************************************************************************)
Service(h) == h.req.services[h.done + 1]

\* After n services, the next one, or the commit.
Continued(h, n) == IF n < Len(h.req.services) THEN "services" ELSE "commit"

\* attrCount is counted once, before the first service.
CountColumns(p) ==
    /\ cur[p].pc = "count"
    /\ cur' = [cur EXCEPT ![p].pc = Continued(cur[p], 0), ![p].columns = db.columns]
    /\ UNCHANGED <<db, manageNum, history, overlapped, requests, faults>>

\* The handler h inserts its service and goes on to the next.
WithService(p, h) ==
    LET row == [id |-> h.number, device |-> h.req.device, nr |-> h.nr,
                attributes |-> Service(h).attributes, place |-> h.done + 1,
                by |-> Run(p)]
    IN  IF TypeError(p, Service(h).kind)
          THEN [h EXCEPT !.pc = "refused"]
          ELSE [h EXCEPT !.pc = Continued(h, h.done + 1), !.done = @ + 1,
                         !.writes.Service = @ \cup {row}]

\* manageNum = manageNum + 1 reads the global and writes it; another thread
\* may have counted in between.
ReadManageNum(p) ==
    /\ cur[p].pc = "services"
    /\ cur' = [cur EXCEPT ![p].pc = "increment", ![p].number = Counter(p)]
    /\ UNCHANGED <<db, manageNum, history, overlapped, requests, faults>>

WriteManageNum(p) ==
    /\ cur[p].pc = "increment"
    /\ cur' = [cur EXCEPT ![p].pc = "number"]
    /\ manageNum' = [manageNum EXCEPT ![ProcessOf[p]] = cur[p].number + 1]
    /\ UNCHANGED <<db, history, overlapped, requests, faults>>

\* The global is read again, and its number is the ID of the service.
GenServiceID(p) ==
    LET h == cur[p]
        kind == Service(h).kind
        next == [h EXCEPT !.number = serviceID(p, kind)]
    IN  /\ h.pc = "number"
        /\ \/ /\ NameError(p, kind)
              /\ cur' = [cur EXCEPT ![p].pc = "refused"]
           \/ /\ ~NameError(p, kind) /\ Service(h).attributes <= h.columns
              /\ cur' = [cur EXCEPT ![p] = WithService(p, next)]
           \/ /\ ~NameError(p, kind) /\ Service(h).attributes > h.columns
              /\ cur' = [cur EXCEPT ![p] = [next EXCEPT !.pc = "alter"]]
        /\ UNCHANGED <<db, manageNum, history, overlapped, requests, faults>>

\* What a commit of h makes of the rows.
Committed(h) == [t \in Tables |-> db.rows[t] \cup h.writes[t]]

\* Mistake: what was written before is lost.
Split_Lost(h) == db.rows

\* ALTER TABLE commits the transaction, and another one begins.
Split(h) == Committed(h)

\* Mistake: the loop ends one column early.
LastColumn_Early(h, column) == column + 1 >= Service(h).attributes

LastColumn(h, column) == column = Service(h).attributes

\* One ALTER TABLE: the transaction is split, and the column is added
\* unless it is there.  The next service starts from the same attrCount again.
AlterService(p) ==
    LET h == cur[p]
        column == h.columns + h.added + 1
        clean == [h EXCEPT !.writes = Nothing]
    IN  /\ h.pc = "alter"
        /\ altered' = altered \cup {h.nr}
        /\ db' = [rows    |-> Split(h),
                  columns |-> IF column > db.columns THEN column ELSE db.columns]
        /\ cur' = [cur EXCEPT ![p] =
             IF column <= db.columns THEN [clean EXCEPT !.pc = "refused"]
             ELSE IF LastColumn(h, column)
               THEN WithService(p, [clean EXCEPT !.added = 0])
               ELSE [clean EXCEPT !.added = @ + 1]]
        /\ UNCHANGED <<manageNum, granted, failed, stranded, runs, overlapped,
                       requests, faults>>

-----------------------------------------------------------------------------
(***************************************************************************)
(* The end of a handler.                                                   *)
(***************************************************************************)
\* Mistake: the services are forgotten.
DeletedTables_NoService(p) == {"Device"} \cup (IF Per(p) THEN {"Neighbor"} ELSE {})

\* resolver.py forgets the neighbors of a device that leaves.
DeletedTables(p) ==
    {"Device", "Service"} \cup (IF Per(p) THEN {"Neighbor"} ELSE {})

\* Mistake: the transaction is not committed.
Written_Nothing(p, h) == db.rows

Written(p, h) ==
    IF h.req.op = "Leave"
      THEN [t \in Tables |->
              {r \in db.rows[t] : ~(t \in DeletedTables(p) /\ r.device = h.req.device)}]
      ELSE Committed(h)

\* Who was told what.  A device that leaves takes its grants with it.
Grants(p, h) ==
    LET about(g) == IF g.op = "Join" THEN g.id ELSE g.device IN
    IF h.req.op = "Leave"
      THEN {g \in granted : g.op = "Request" \/ about(g) # h.req.device}
    ELSE IF h.req.op = "Join" /\ ~h.req.interfaces THEN granted
    ELSE granted \cup
           {[op |-> h.req.op, nr |-> h.nr, id |-> h.id,
             process |-> ProcessOf[p],
             device |-> IF h.req.op = "Join" THEN h.id ELSE h.req.device,
             services |-> h.done, seen |-> h.seen]}

\* When h commits: the Updates of a device that leaves meanwhile, its join when
\* resolver.py leaves the neighbors behind, and the join of a device without
\* interfaces, which has no row.
Strands(p, h) ==
    {cur[q].nr : q \in {q \in Threads :
        /\ h.req.op = "Leave"
        /\ cur[q] # Idle
        /\ cur[q].req.op = "Update"
        /\ cur[q].req.device = h.req.device}}
      \cup {r.nr : r \in {r \in db.rows["Device"] :
        /\ h.req.op = "Leave" /\ ~Per(p)
        /\ r.device = h.req.device}}
      \cup {n \in {h.nr} : h.req.op = "Join" /\ ~h.req.interfaces}

Commit(p) ==
    /\ cur[p].pc = "commit"
    /\ db' = [db EXCEPT !.rows = Written(p, cur[p])]
    /\ granted' = Grants(p, cur[p])
    /\ stranded' = stranded \cup Strands(p, cur[p])
    /\ cur' = [cur EXCEPT ![p] = Idle]
    /\ UNCHANGED <<manageNum, failed, altered, runs, overlapped, requests, faults>>

\* Mistake: the except clause commits.
Dropped_Committed(p, h) == [db EXCEPT !.rows = Committed(h)]

\* The connection is dropped, and its transaction rolled back.
Dropped(p, h) == db

\* The handler raises, and answers with an error.
Raise(p) ==
    /\ db' = Dropped(p, cur[p])
    /\ failed' = failed \cup {cur[p].nr}
    /\ cur' = [cur EXCEPT ![p] = Idle]
    /\ UNCHANGED <<manageNum, granted, altered, stranded, runs, overlapped, requests>>

Refuse(p) ==
    /\ cur[p].pc = "refused"
    /\ Raise(p)
    /\ UNCHANGED faults

\* A statement fails.
DatabaseError(p) ==
    /\ requests + faults < MaxEvents
    /\ cur[p] # Idle /\ cur[p].pc \notin {"increment", "refused"}
    /\ Raise(p)
    /\ faults' = faults + 1

\* The commit takes effect, and the connection is lost before the handler knows.
CommitUnconfirmed(p) ==
    /\ requests + faults < MaxEvents
    /\ cur[p].pc = "commit"
    /\ db' = [db EXCEPT !.rows = Written(p, cur[p])]
    /\ granted' = IF cur[p].req.op = "Leave" THEN Grants(p, cur[p]) ELSE granted
    /\ stranded' = stranded \cup Strands(p, cur[p])
    /\ cur' = [cur EXCEPT ![p] = Idle]
    /\ faults' = faults + 1
    /\ UNCHANGED <<manageNum, failed, altered, runs, overlapped, requests>>

\* A process dies, with the handlers it runs, and is started again.
Restart(process) ==
    LET dead == {p \in Threads : ProcessOf[p] = process} IN
    /\ requests + faults < MaxEvents
    /\ manageNum' = [manageNum EXCEPT ![process] = 0]
    /\ cur' = [p \in Threads |-> IF p \in dead THEN Idle ELSE cur[p]]
    /\ runs' = [runs EXCEPT ![process] = @ + 1]
    /\ failed' = failed \cup {cur[p].nr : p \in {p \in dead : cur[p] # Idle}}
    /\ faults' = faults + 1
    /\ UNCHANGED <<db, granted, altered, stranded, overlapped, requests>>

\* The servers wait for requests that do not come.
Waiting ==
    /\ requests + faults = MaxEvents /\ \A p \in Threads : cur[p] = Idle
    /\ UNCHANGED vars

Next ==
    \/ \E p \in Threads :
         \/ \E req \in Requests : Handle(p, req)
         \/ CountColumns(p) \/ ReadManageNum(p) \/ WriteManageNum(p) \/ GenServiceID(p)
         \/ AlterService(p) \/ Commit(p) \/ Refuse(p)
         \/ DatabaseError(p) \/ CommitUnconfirmed(p)
    \/ \E process \in Processes : Restart(process)
    \/ Waiting

Spec == Init /\ [][Next]_vars

-----------------------------------------------------------------------------
Rows(t) ==
    IF t = "Service"
      THEN [id : Nat, device : Nat, nr : 1 .. requests, attributes : Nat,
            place : Nat, by : Processes \X Nat]
      ELSE [id : Nat, device : Nat, nr : 1 .. requests]

Handlers ==
    [pc : {"count", "services", "increment", "number", "alter", "commit", "refused"},
     req : Requests, nr : 1 .. requests, id : Nat,
     writes : [Tables -> SUBSET (Rows("Device") \cup Rows("Service"))],
     done : Nat, number : Nat, columns : Nat, added : Nat, seen : SUBSET (1 .. requests)]

\* The state stays within its types, and no two handlers answer one request.
TypeOK ==
    /\ \A t \in Tables : db.rows[t] \subseteq Rows(t)
    /\ db.columns \in Nat
    /\ manageNum \in [Processes -> Nat]
    /\ \A p \in Threads : cur[p] \in Handlers \cup {Idle}
    /\ \A p, q \in Threads :
         p # q /\ cur[p] # Idle /\ cur[q] # Idle => cur[p].nr # cur[q].nr
    /\ {g.nr : g \in granted} \cup failed \cup altered \cup stranded \cup overlapped
         \subseteq 1 .. requests
    /\ requests \in Nat /\ faults \in Nat /\ requests + faults <= MaxEvents

(***************************************************************************)
(* Safety.                                                                 *)
(***************************************************************************)
\* The services of request n that are stored, by their place in it.
Places(n) == {r.place : r \in {r \in db.rows["Service"] : r.nr = n}}

\* What a success says is stored: the device and its ID, the request, and each
\* service of an Update, also of one that ALTER TABLEs split in several
\* transactions, unless its device left between two of them (Join, Update,
\* Request).
AcksStored ==
    \A g \in granted :
        \/ /\ g.op \in {"Join", "Request"}
           /\ \E r \in db.rows[IF g.op = "Join" THEN "Device" ELSE "Request"] :
                r.nr = g.nr /\ r.id = g.id
        \/ /\ g.op = "Update"
           /\ g.nr \in altered \cap stranded \/ Places(g.nr) = 1 .. g.services

\* What failed left nothing behind, but for the first services of an Update that
\* altered the table: up to the last of them that is stored, all are, unless
\* the device left in between (the except clauses, ALTER TABLE).
FailuresLeaveNothing ==
    \A t \in Tables : \A r \in db.rows[t] :
        r.nr \in failed =>
            /\ t = "Service" /\ r.nr \in altered
            /\ r.nr \in stranded \/ 1 .. r.place \subseteq Places(r.nr)

\* Two handlers give out the same ID only if they overlap: who begins when an
\* ID is given out and in use does not give it out again (SELECT MAX).
SameIDOnlyByRace ==
    \A g, k \in granted :
        /\ g.op = k.op /\ k.nr \in g.seen
        /\ g.op = "Join" \/ (g.op = "Request" /\ g.process \in SocketIO)
        => g.id # k.id

\* A service belongs to a device that had joined before it was stored and is
\* still there, and a neighbor to a device that joined with it: what a Leave
\* does not take along is an Update it ran into and, in resolver.py, the
\* neighbors; a device that is given a free ID again finds nothing else there.
RowsOfMembers ==
    /\ \A s \in db.rows["Service"] :
         s.nr \in stranded \/ \E d \in db.rows["Device"] : d.device = s.device /\ d.nr < s.nr
    /\ \A n \in db.rows["Neighbor"] :
         n.nr \in stranded \/ \E d \in db.rows["Device"] : d.nr = n.nr

\* The number of a service whose Update none of its process ran beside is not
\* given again in its run: Updates that do run beside each other lose counts
\* and set manageNum back, but never below such a number (genServiceID).
LoneUpdatesNumbered ==
    \A q, r \in db.rows["Service"] :
        /\ q # r /\ q.by = r.by /\ q.nr <= r.nr
        /\ q.id # 0 /\ q.nr \notin overlapped
        => q.id # r.id

\* The columns an INSERT names exist, although Updates of several threads add
\* them to the one table by what they counted before (Update).
AttributeColumnsExist ==
    \A r \in db.rows["Service"] : r.attributes <= db.columns

(***************************************************************************)
(* What the comments say, and the code does not do.                        *)
(***************************************************************************)
\* Request finds the greatest request ID and generates a new one.
RequestIDsUnique ==
    \A g, k \in granted : g.op = "Request" /\ k.op = "Request" /\ g # k => g.id # k.id

=============================================================================
