------------------------ MODULE FlexIDMngerDBProofs ------------------------
(***************************************************************************)
(* Theorems about FlexIDMngerDB for all devices, hashes, requests and      *)
(* bounds.                                                                 *)
(***************************************************************************)
EXTENDS FlexIDMngerDB, FiniteSetTheorems, TLAPS

-----------------------------------------------------------------------------
(***************************************************************************)
(* Type correctness.  TypeOK is not inductive: what a handler does with    *)
(* its request depends on which handler it is.  Control ties the handler's *)
(* position to the kind of its request.                                    *)
(***************************************************************************)
Control ==
    /\ cur.pc \in Steps \ {"reply"} => cur.ok = FALSE
    /\ cur.pc \in {"genID", "device", "neighbors"} => cur.req \in JoinRequests
    /\ cur.pc = "genID" => cur.id \in Devices
    /\ cur.pc = "exists" =>
         /\ cur.req.op \in {"register", "update", "query"}
         /\ cur.ids = <<>>
    /\ cur.pc = "query" => cur.req.op = "query"
    /\ cur.pc = "items" =>
         /\ cur.req \in RegisterRequests
         /\ Len(cur.ids) <= Len(cur.req.items)

TypeInv == TypeOK /\ Control

\* A request's fields are those of its kind.
LEMMA RequestKinds ==
    ASSUME NEW req \in Requests
    PROVE  /\ req.op = "join" => req \in JoinRequests
           /\ req.op = "register" => req \in RegisterRequests
           /\ req.op \in {"join", "leave", "register", "update", "query", "garbage"}
           /\ req.op # "garbage" => req.device \in Senders
<1>1. req \in JoinRequests \cup RegisterRequests \cup QueryRequests
                  \cup PlainRequests \cup GarbageRequests
  BY RequestsAssumption
<1>2. CASE req \in JoinRequests
  BY <1>2 DEF JoinRequests
<1>3. CASE req \in RegisterRequests
  BY <1>3 DEF RegisterRequests
<1>4. CASE req \in QueryRequests
  BY <1>4 DEF QueryRequests
<1>5. CASE req \in PlainRequests
  BY <1>5 DEF PlainRequests
<1>6. CASE req \in GarbageRequests
  BY <1>6 DEF GarbageRequests
<1>. QED
  BY <1>1, <1>2, <1>3, <1>4, <1>5, <1>6

\* What an INSERT can do to the tables, whatever its rows are.
LEMMA InsertTypes ==
    ASSUME TypeOK, NEW rows \in Seq(Rows), NEW fits,
           InsertCommitted(rows) \/ InsertRefused(rows, fits) \/ CommitLost(rows)
    PROVE  /\ disk' \subseteq Rows
           /\ view' \subseteq Rows
           /\ connected' \in BOOLEAN
           /\ faults' \in 0 .. MaxFaults
<1>1. \A k \in 0 .. Len(rows) : FirstRows(rows, k) \subseteq Rows
  BY DEF FirstRows
<1>2. Len(rows) \in Nat
  OBVIOUS
<1>3. CASE InsertCommitted(rows)
  BY <1>1, <1>2, <1>3 DEF InsertCommitted, TypeOK
<1>4. CASE InsertRefused(rows, fits)
  <2>1. CASE ~connected /\ UNCHANGED <<disk, view, connected, faults>>
    BY <2>1 DEF TypeOK
  <2>2. ASSUME NEW k \in 0 .. Len(rows) - 1,
               view' = view \cup FirstRows(rows, k),
               UNCHANGED <<disk, connected, faults>>
        PROVE  /\ disk' \subseteq Rows
               /\ view' \subseteq Rows
               /\ connected' \in BOOLEAN
               /\ faults' \in 0 .. MaxFaults
    <3>1. k \in 0 .. Len(rows)
      BY <1>2
    <3>. QED
      BY <1>1, <2>2, <3>1 DEF TypeOK
  <2>. QED
    BY <1>4, <2>1, <2>2 DEF InsertRefused
<1>5. CASE CommitLost(rows)
  <2>1. FirstRows(rows, Len(rows)) \subseteq Rows
    BY <1>1, <1>2
  <2>2. disk' \subseteq Rows /\ view' \subseteq Rows
    BY <1>5, <2>1 DEF CommitLost, TypeOK
  <2>3. connected' \in BOOLEAN
    BY <1>5 DEF CommitLost
  <2>4. faults' \in 0 .. MaxFaults
    BY <1>5, BoundsAssumption DEF CommitLost, TypeOK
  <2>. QED
    BY <2>2, <2>3, <2>4
<1>. QED
  BY <1>3, <1>4, <1>5

LEMMA DeviceRowType == ASSUME NEW d \in DeviceIDs PROVE DeviceRow(d) \in Rows
  BY DEF Rows, DeviceRow

LEMMA NeighborRowType ==
    ASSUME NEW n \in Devices, NEW d \in DeviceIDs PROVE NeighborRow(n, d) \in Rows
  BY DEF Rows, NeighborRow

LEMMA RegisterListRowType ==
    ASSUME NEW p \in ProvidingIDs, NEW d \in DeviceIDs
    PROVE  RegisterListRow(p, d) \in Rows
  BY DEF Rows, RegisterListRow

\* The handler has a request when it is neither idle nor dead.
LEMMA RunningSteps ==
    ASSUME cur \in Running \cup {Idle, Dead}, cur.pc \in Steps
    PROVE  cur \in Running
  BY DEF Steps, Idle, Dead

LEMMA TypeInvInit == Init => TypeInv
  BY BoundsAssumption DEF Init, TypeInv, TypeOK, Control, Idle, Steps

\* Ending with an error or a success keeps the handler well formed.
LEMMA ReplyTypes ==
    ASSUME cur \in Running, Raise \/ Return
    PROVE  cur' \in Running /\ Control'
  BY DEF Running, Raise, Return, Steps, Control

LEMMA OnMessageTypes ==
    ASSUME TypeInv, NEW req \in Requests, OnMessage(req)
    PROVE  TypeInv'
<1>. USE DEF TypeInv
<1>1. CASE req.op = "garbage"
  BY <1>1 DEF OnMessage, TypeOK, Control, Dead, Steps
<1>2. CASE req.op # "garbage"
  <2>1. /\ req.op = "join" => req \in JoinRequests
        /\ req.op \in {"join", "leave", "register", "update", "query"}
        /\ req.device \in Senders
    BY <1>2, RequestKinds
  <2>2. /\ cur' = [pc   |-> IF req.device = NoDevice
                              THEN "reply" ELSE FirstStep(req),
                   req  |-> req, id |-> req.device, flag |-> 0,
                   ids  |-> <<>>, ok |-> FALSE]
        /\ UNCHANGED <<deviceID_cache, disk, view, connected, acks, faults>>
    BY <1>2 DEF OnMessage
  <2>3. FirstStep(req) \in {"genID", "leave", "exists"}
    BY <2>1 DEF FirstStep
  <2>4. cur' \in Running
    BY <1>2, <2>1, <2>2, <2>3 DEF Running, Answerable, Steps, DeviceIDs
  <2>5. Control'
    BY <2>1, <2>2, <2>3 DEF Control, FirstStep, Senders
  <2>. QED
    BY <2>2, <2>4, <2>5 DEF TypeOK
<1>. QED
  BY <1>1, <1>2

LEMMA JoinTypes ==
    ASSUME TypeInv, JoinGenID \/ JoinInsertDevice \/ JoinInsertNeighbors
    PROVE  TypeInv'
<1>. USE DEF TypeInv
<1>1. cur \in Running
  BY RunningSteps DEF TypeOK, JoinGenID, JoinInsertDevice, JoinInsertNeighbors, Steps
<1>2. CASE JoinGenID
  <2>1. PICK f \in Flags :
          /\ deviceID_cache' = deviceID_cache \cup {newID(f, cur.id)}
          /\ \/ Raise
             \/ cur' = [cur EXCEPT !.flag = f + collision_inc]
             \/ cur' = [cur EXCEPT !.pc = IF cur.req.codesOk
                                            THEN "device" ELSE "reply",
                                   !.id = newID(f, cur.id)]
    BY <1>2 DEF JoinGenID, CacheID
  <2>2. cur.pc = "genID" /\ cur.id \in Devices /\ cur.req \in JoinRequests
    BY <1>2 DEF JoinGenID, Control
  <2>3. newID(f, cur.id) \in DeviceIDs
    BY <2>1, <2>2 DEF DeviceIDs
  <2>4. f + collision_inc \in Nat
    BY <2>1, BoundsAssumption DEF Flags, collision_inc
  <2>5. cur' \in Running /\ Control'
    <3>1. CASE Raise
      BY <1>1, <3>1, ReplyTypes
    <3>2. CASE cur' = [cur EXCEPT !.flag = f + collision_inc]
      BY <1>1, <2>2, <2>4, <3>2 DEF Running, Control
    <3>3. CASE cur' = [cur EXCEPT !.pc = IF cur.req.codesOk
                                           THEN "device" ELSE "reply",
                                  !.id = newID(f, cur.id)]
      BY <1>1, <2>2, <2>3, <3>3 DEF Running, Control, Steps
    <3>. QED
      BY <2>1, <3>1, <3>2, <3>3
  <2>6. UNCHANGED <<disk, view, connected, acks, faults>>
    BY <1>2 DEF JoinGenID
  <2>. QED
    BY <2>1, <2>3, <2>5, <2>6 DEF TypeOK
<1>3. CASE JoinInsertDevice
  <2>. DEFINE rows == [i \in 1 .. cur.req.codes |-> DeviceRow(cur.id)]
  <2>1. cur.pc = "device" /\ cur.req \in JoinRequests
    BY <1>3 DEF JoinInsertDevice, Control
  <2>2. rows \in Seq(Rows)
    BY <1>1, <2>1, DeviceRowType DEF Running, JoinRequests
  <2>3. InsertCommitted(rows) \/ InsertRefused(rows, cur.req.fits) \/ CommitLost(rows)
    BY <1>3 DEF JoinInsertDevice
  <2>4. /\ GoTo("neighbors") \/ Raise
        /\ UNCHANGED <<deviceID_cache, acks>>
    BY <1>3 DEF JoinInsertDevice
  <2>5. cur' \in Running /\ Control'
    <3>1. CASE Raise
      BY <1>1, <3>1, ReplyTypes
    <3>2. CASE GoTo("neighbors")
      BY <1>1, <2>1, <3>2 DEF GoTo, Running, Control, Steps
    <3>. QED
      BY <2>4, <3>1, <3>2
  <2>. HIDE DEF rows
  <2>6. /\ disk' \subseteq Rows /\ view' \subseteq Rows
        /\ connected' \in BOOLEAN /\ faults' \in 0 .. MaxFaults
    BY <2>2, <2>3, InsertTypes
  <2>. QED
    BY <2>4, <2>5, <2>6 DEF TypeOK
<1>4. CASE JoinInsertNeighbors
  <2>. DEFINE rows == [i \in 1 .. Len(cur.req.neighbors) |->
                         NeighborRow(cur.req.neighbors[i], cur.id)]
  <2>1. cur.pc = "neighbors" /\ cur.req \in JoinRequests
    BY <1>4 DEF JoinInsertNeighbors, Control
  <2>2. rows \in Seq(Rows)
    BY <1>1, <2>1, NeighborRowType DEF Running, JoinRequests
  <2>3. InsertCommitted(rows) \/ InsertRefused(rows, cur.req.fits) \/ CommitLost(rows)
    BY <1>4 DEF JoinInsertNeighbors
  <2>4. (Raise \/ Return) /\ UNCHANGED <<deviceID_cache, acks>>
    BY <1>4 DEF JoinInsertNeighbors
  <2>. HIDE DEF rows
  <2>5. /\ disk' \subseteq Rows /\ view' \subseteq Rows
        /\ connected' \in BOOLEAN /\ faults' \in 0 .. MaxFaults
    BY <2>2, <2>3, InsertTypes
  <2>. QED
    BY <1>1, <2>4, <2>5, ReplyTypes DEF TypeOK
<1>. QED
  BY <1>2, <1>3, <1>4

LEMMA RegisterTypes ==
    ASSUME TypeInv, RegisterItem \/ RegisterInsert
    PROVE  TypeInv'
<1>. USE DEF TypeInv
<1>1. cur \in Running
  BY RunningSteps DEF TypeOK, RegisterItem, RegisterInsert, Steps
<1>2. /\ cur.pc = "items"
      /\ cur.req \in RegisterRequests
      /\ Len(cur.ids) <= Len(cur.req.items)
      /\ cur.ids \in Seq(ProvidingIDs)
      /\ cur.req.items \in Seq(Items)
  BY <1>1 DEF RegisterItem, RegisterInsert, Control, Running, RegisterRequests
<1>3. CASE RegisterItem
  <2>. DEFINE item == cur.req.items[Len(cur.ids) + 1]
  <2>1. Len(cur.ids) < Len(cur.req.items)
    BY <1>3 DEF RegisterItem
  <2>2. item \in Items
    BY <1>2, <2>1
  <2>3. \/ Raise
        \/ \E f \in Flags :
             cur' = [cur EXCEPT !.ids = Append(cur.ids, newID(f, item.hash))]
    BY <1>3 DEF RegisterItem
  <2>4. cur' \in Running /\ Control'
    <3>1. CASE Raise
      BY <1>1, <3>1, ReplyTypes
    <3>2. ASSUME NEW f \in Flags,
                 cur' = [cur EXCEPT !.ids = Append(cur.ids, newID(f, item.hash))]
          PROVE  cur' \in Running /\ Control'
      <4>1. newID(f, item.hash) \in ProvidingIDs
        BY <2>2 DEF Items, ProvidingIDs
      <4>. DEFINE ids == Append(cur.ids, newID(f, item.hash))
      <4>2. ids \in Seq(ProvidingIDs) /\ Len(ids) = Len(cur.ids) + 1
        BY <1>2, <4>1
      <4>3. Len(ids) <= Len(cur.req.items)
        BY <1>2, <2>1, <4>2
      <4>. HIDE DEF ids
      <4>4. cur' = [cur EXCEPT !.ids = ids]
        BY <3>2 DEF ids
      <4>. QED
        BY <1>1, <1>2, <4>2, <4>3, <4>4 DEF Running, Control
    <3>. QED
      BY <2>3, <3>1, <3>2
  <2>. QED
    BY <1>3, <2>4 DEF RegisterItem, TypeOK
<1>4. CASE RegisterInsert
  <2>. DEFINE rows == [i \in 1 .. Len(cur.ids) |->
                         RegisterListRow(cur.ids[i], cur.id)]
  <2>1. rows \in Seq(Rows)
    BY <1>1, <1>2, RegisterListRowType DEF Running
  <2>2. InsertCommitted(rows) \/ InsertRefused(rows, cur.req.fits) \/ CommitLost(rows)
    BY <1>4 DEF RegisterInsert
  <2>3. (Raise \/ Return) /\ UNCHANGED <<deviceID_cache, acks>>
    BY <1>4 DEF RegisterInsert
  <2>. HIDE DEF rows
  <2>4. /\ disk' \subseteq Rows /\ view' \subseteq Rows
        /\ connected' \in BOOLEAN /\ faults' \in 0 .. MaxFaults
    BY <2>1, <2>2, InsertTypes
  <2>. QED
    BY <1>1, <2>3, <2>4, ReplyTypes DEF TypeOK
<1>. QED
  BY <1>3, <1>4

LEMMA DeviceExistsTypes == ASSUME TypeInv, DeviceExists PROVE TypeInv'
<1>. USE DEF TypeInv
<1>1. cur \in Running /\ cur.pc = "exists"
  BY RunningSteps DEF TypeOK, DeviceExists, Steps
<1>2. /\ cur.req \in Requests
      /\ cur.req.op \in {"register", "update", "query"}
      /\ cur.ids = <<>>
  BY <1>1 DEF Running, Answerable, Control
<1>3. AfterExists(cur.req) \in {"items", "update", "query", "reply"}
  BY <1>2 DEF AfterExists
<1>4. /\ AfterExists(cur.req) = "items" => cur.req \in RegisterRequests
      /\ AfterExists(cur.req) = "query" => cur.req.op = "query"
  BY <1>2, RequestKinds DEF AfterExists
<1>5. /\ GoTo(AfterExists(cur.req)) \/ Raise
      /\ deviceID_cache' \subseteq deviceID_cache \cup {cur.id}
      /\ UNCHANGED <<disk, view, connected, acks, faults>>
  BY DEF DeviceExists
<1>6. cur' \in Running /\ Control'
  <2>1. CASE Raise
    BY <1>1, <2>1, ReplyTypes
  <2>2. CASE GoTo(AfterExists(cur.req))
    <3>1. cur' \in Running
      BY <1>1, <1>3, <2>2 DEF GoTo, Running, Steps
    <3>2. cur.req \in RegisterRequests => Len(cur.ids) <= Len(cur.req.items)
      BY <1>2 DEF RegisterRequests
    <3>. QED
      BY <1>1, <1>2, <1>3, <1>4, <2>2, <3>1, <3>2 DEF GoTo, Running, Control
  <2>. QED
    BY <1>5, <2>1, <2>2
<1>. QED
  BY <1>1, <1>5, <1>6 DEF TypeOK, Running

LEMMA AckTypes == ASSUME TypeInv, Reply PROVE TypeInv'
<1>. USE DEF TypeInv
<1>. DEFINE a == [req |-> cur.req,
                  id  |-> IF cur.ok THEN cur.id ELSE cur.req.device,
                  ids |-> IF cur.ok THEN cur.ids ELSE <<>>,
                  ok  |-> cur.ok]
<1>1. cur \in Running
  BY RunningSteps DEF TypeOK, Reply, Steps
<1>2. cur.req.device \in DeviceIDs
  BY <1>1, RequestKinds DEF Running, Answerable, DeviceIDs
<1>3. a \in Acks
  BY <1>1, <1>2 DEF Running, Acks
<1>4. /\ acks' = Append(acks, a)
      /\ cur' = Idle
      /\ UNCHANGED <<deviceID_cache, disk, view, connected, faults>>
  BY DEF Reply
<1>. HIDE DEF a
<1>. QED
  BY <1>3, <1>4 DEF TypeOK, Control, Idle, Steps

\* Steps that only end the handler, and steps of the world around it.
LEMMA OtherTypes ==
    ASSUME TypeInv,
           \/ Leave \/ Update \/ Query
           \/ ConnectionLost \/ Restart \/ MainLoop \/ UNCHANGED vars
    PROVE  TypeInv'
<1>. USE DEF TypeInv
<1>1. CASE Leave \/ Update \/ Query
  <2>1. cur \in Running
    BY <1>1, RunningSteps DEF TypeOK, Leave, Update, Query, Steps
  <2>2. Raise \/ Return
    BY <1>1 DEF Leave, Update, Query
  <2>3. UNCHANGED <<deviceID_cache, disk, view, connected, acks, faults>>
    BY <1>1 DEF Leave, Update, Query
  <2>. QED
    BY <2>1, <2>2, <2>3, ReplyTypes DEF TypeOK
<1>2. CASE ConnectionLost
  <2>1. faults' \in 0 .. MaxFaults
    BY <1>2, BoundsAssumption DEF ConnectionLost, TypeOK
  <2>. QED
    BY <1>2, <2>1 DEF ConnectionLost, TypeOK, Control
<1>3. CASE Restart
  <2>1. faults' \in 0 .. MaxFaults
    BY <1>3, BoundsAssumption DEF Restart, TypeOK
  <2>. QED
    BY <1>3, <2>1 DEF Restart, TypeOK, Control, Idle, Steps
<1>4. CASE MainLoop \/ UNCHANGED vars
  BY <1>4 DEF MainLoop, vars, TypeOK, Control
<1>. QED
  BY <1>1, <1>2, <1>3, <1>4

LEMMA TypeInvStep == TypeInv /\ [Next]_vars => TypeInv'
  BY OnMessageTypes, JoinTypes, RegisterTypes, DeviceExistsTypes, AckTypes,
     OtherTypes DEF Next, Handler

LEMMA TypeInvariance == Spec => []TypeInv
  BY TypeInvInit, TypeInvStep, PTL DEF Spec

\* The handler, its cache, the tables and the answers stay within their types
\* through every request, refusal, lost connection and restart.
THEOREM TypeCorrect == Spec => []TypeOK
<1>1. TypeInv => TypeOK
  BY DEF TypeInv
<1>. QED
  BY <1>1, TypeInvariance, PTL

-----------------------------------------------------------------------------
(***************************************************************************)
(* The safety of the answers.  IDsUnique, AcksDurable and CollisionAvoided *)
(* speak of the answers alone; that the next answer keeps them depends on  *)
(* what its handler has established on the way, which is CurrentOK: an ID  *)
(* that a join holds has been missing from Device, hence, as successful    *)
(* joins are durable, is nobody's; what an insert committed is on disk.    *)
(***************************************************************************)
Succeeded(op) == cur.pc = "reply" /\ cur.ok /\ cur.req.op = op

\* Pending rows come on top of the committed ones.
PendingOnTop == disk \subseteq view

JoinFresh ==
    (cur.pc \in {"device", "neighbors"} \/ Succeeded("join")) =>
        \A i \in DOMAIN acks : StoredJoin(acks[i]) => acks[i].id # cur.id

JoinStored ==
    /\ (cur.pc = "neighbors" \/ Succeeded("join")) =>
         (cur.req.codes > 0 => DeviceRow(cur.id) \in disk)
    /\ Succeeded("join") =>
         \A k \in DOMAIN cur.req.neighbors :
             NeighborRow(cur.req.neighbors[k], cur.id) \in disk

RegisterFresh ==
    (cur.pc = "items" \/ Succeeded("register")) =>
        \A k \in DOMAIN cur.ids : cur.req.items[k].collisionAvoid =>
            \A i \in DOMAIN acks : Registered(acks[i]) =>
                \A l \in DOMAIN acks[i].ids : acks[i].ids[l] # cur.ids[k]

RegisterStored ==
    Succeeded("register") =>
        /\ \A k \in DOMAIN cur.ids : RegisterListRow(cur.ids[k], cur.id) \in disk
        /\ \A k, l \in DOMAIN cur.ids : k # l => cur.ids[k] # cur.ids[l]
        /\ DOMAIN cur.ids \subseteq DOMAIN cur.req.items
        /\ \A i \in DOMAIN acks : Registered(acks[i]) /\ acks[i].id = cur.id =>
             \A l \in DOMAIN acks[i].ids, k \in DOMAIN cur.ids :
                 acks[i].ids[l] # cur.ids[k]

CurrentOK ==
    JoinFresh /\ JoinStored /\ RegisterFresh /\ RegisterStored

AnswersOK == IDsUnique /\ AcksDurable /\ CollisionAvoided

Safe == PendingOnTop /\ CurrentOK /\ AnswersOK

SafeInv == TypeInv /\ Safe

LEMMA SafeInit == Init => Safe
  BY DEF Init, Safe, PendingOnTop, CurrentOK, JoinFresh, JoinStored,
     RegisterFresh, RegisterStored, Succeeded, AnswersOK, IDsUnique,
     AcksDurable, CollisionAvoided, Idle

\* An INSERT never takes a committed row away.
LEMMA InsertGrows ==
    ASSUME PendingOnTop, NEW rows, NEW fits,
           InsertCommitted(rows) \/ InsertRefused(rows, fits) \/ CommitLost(rows)
    PROVE  disk \subseteq disk' /\ disk' \subseteq view'
<1>1. CASE InsertCommitted(rows)
  BY <1>1 DEF InsertCommitted, PendingOnTop
<1>2. CASE InsertRefused(rows, fits)
  BY <1>2 DEF InsertRefused, PendingOnTop
<1>3. CASE CommitLost(rows)
  BY <1>3 DEF CommitLost, PendingOnTop
<1>. QED
  BY <1>1, <1>2, <1>3

\* No step of the manager takes a committed row away.
LEMMA DiskGrows ==
    ASSUME PendingOnTop, [Next]_vars
    PROVE  disk \subseteq disk' /\ disk' \subseteq view'
<1>1. CASE JoinInsertDevice
  BY <1>1, InsertGrows DEF JoinInsertDevice
<1>2. CASE JoinInsertNeighbors
  BY <1>2, InsertGrows DEF JoinInsertNeighbors
<1>3. CASE RegisterInsert
  BY <1>3, InsertGrows DEF RegisterInsert
<1>4. CASE ConnectionLost \/ Restart
  BY <1>4 DEF ConnectionLost, Restart
<1>5. CASE UNCHANGED <<disk, view>>
  BY <1>5 DEF PendingOnTop
<1>6. ASSUME NEW req \in Requests, OnMessage(req)
      PROVE  UNCHANGED <<disk, view>>
  BY <1>6 DEF OnMessage
<1>7. CASE \/ JoinGenID \/ Leave \/ Update \/ DeviceExists \/ RegisterItem
           \/ Query \/ Reply \/ MainLoop \/ UNCHANGED vars
  <2>1. UNCHANGED <<disk, view>>
    BY <1>7 DEF JoinGenID, Leave, Update, DeviceExists, RegisterItem, Query,
       Reply, MainLoop, vars
  <2>. QED
    BY <1>5, <2>1
<1>. QED
  BY <1>1, <1>2, <1>3, <1>4, <1>5, <1>6, <1>7 DEF Next, Handler

\* Only Reply publishes.
LEMMA OthersPublishNothing ==
    ASSUME [Next]_vars, ~Reply PROVE UNCHANGED acks
  BY DEF Next, Handler, OnMessage, JoinGenID, JoinInsertDevice,
     JoinInsertNeighbors, Leave, Update, DeviceExists, RegisterItem,
     RegisterInsert, Query, ConnectionLost, Restart, MainLoop, vars

LEMMA AnswersKept ==
    ASSUME AnswersOK, UNCHANGED acks, disk \subseteq disk'
    PROVE  AnswersOK'
  BY DEF AnswersOK, IDsUnique, AcksDurable, CollisionAvoided

\* A handler that has just begun or has failed owes nothing.
LEMMA NothingOwed ==
    ASSUME \/ cur'.pc \in {"idle", "dead", "genID", "leave", "exists", "update", "query"}
           \/ cur'.pc = "reply" /\ ~cur'.ok
           \/ cur'.pc = "reply" /\ cur'.req.op \notin {"join", "register"}
    PROVE  CurrentOK'
  BY DEF CurrentOK, JoinFresh, JoinStored, RegisterFresh, RegisterStored, Succeeded

LEMMA RaiseOwesNothing == ASSUME cur \in Running, Raise PROVE CurrentOK'
<1>1. cur'.pc = "reply" /\ cur'.ok = FALSE
  BY DEF Raise, Running
<1>. QED
  BY <1>1, NothingOwed

LEMMA OnMessageCurrent ==
    ASSUME NEW req \in Requests, OnMessage(req) PROVE CurrentOK'
<1>1. CASE req.op = "garbage"
  <2>1. cur'.pc = "dead"
    BY <1>1 DEF OnMessage, Dead
  <2>. QED
    BY <2>1, NothingOwed
<1>2. CASE req.op # "garbage"
  <2>1. FirstStep(req) \in {"genID", "leave", "exists"}
    BY DEF FirstStep
  <2>2. /\ cur'.pc = IF req.device = NoDevice THEN "reply" ELSE FirstStep(req)
        /\ cur'.ok = FALSE
    BY <1>2 DEF OnMessage
  <2>. QED
    BY <2>1, <2>2, NothingOwed
<1>. QED
  BY <1>1, <1>2

LEMMA JoinCurrent ==
    ASSUME SafeInv, JoinGenID \/ JoinInsertDevice \/ JoinInsertNeighbors
    PROVE  CurrentOK'
<1>. USE DEF SafeInv, Safe, TypeInv
<1>1. cur \in Running
  BY RunningSteps DEF TypeOK, JoinGenID, JoinInsertDevice, JoinInsertNeighbors, Steps
<1>2. disk \subseteq disk'
  BY DiskGrows DEF Next, Handler
<1>3. UNCHANGED acks
  BY DEF JoinGenID, JoinInsertDevice, JoinInsertNeighbors
<1>4. CASE Raise
  BY <1>1, <1>4, RaiseOwesNothing
<1>5. CASE JoinGenID /\ ~Raise
  <2>1. PICK f \in Flags :
          \/ cur' = [cur EXCEPT !.flag = f + collision_inc]
          \/ /\ ~DeviceStored(newID(f, cur.id))
             /\ cur' = [cur EXCEPT !.pc = IF cur.req.codesOk
                                            THEN "device" ELSE "reply",
                                   !.id = newID(f, cur.id)]
    BY <1>5 DEF JoinGenID
  <2>2. CASE cur' = [cur EXCEPT !.flag = f + collision_inc]
    <3>1. cur'.pc = "genID"
      BY <1>1, <1>5, <2>2 DEF JoinGenID, Running
    <3>. QED
      BY <3>1, NothingOwed
  <2>3. CASE /\ ~DeviceStored(newID(f, cur.id))
             /\ cur' = [cur EXCEPT !.pc = IF cur.req.codesOk
                                            THEN "device" ELSE "reply",
                                   !.id = newID(f, cur.id)]
    <3>1. cur'.id = newID(f, cur.id) /\ cur'.pc \in {"device", "reply"}
      BY <1>1, <2>3 DEF Running
    <3>2. \A i \in DOMAIN acks : StoredJoin(acks[i]) => acks[i].id # cur'.id
      BY <2>3, <3>1 DEF DeviceStored, PendingOnTop, AnswersOK, AcksDurable
    <3>3. JoinFresh'
      BY <1>3, <3>2 DEF JoinFresh, StoredJoin, Granted
    <3>4. ~cur.ok => ~cur'.ok
      BY <1>1, <2>3 DEF Running
    <3>5. cur'.pc # "neighbors" /\ cur'.pc # "items"
      BY <3>1
    <3>6. CASE cur'.pc = "device"
      BY <3>3, <3>6 DEF CurrentOK, JoinStored, RegisterFresh, RegisterStored, Succeeded
    <3>7. CASE cur'.pc = "reply"
      <4>1. cur.ok = FALSE
        BY <1>5 DEF JoinGenID, Control, Steps
      <4>. QED
        BY <3>4, <3>7, <4>1, NothingOwed
    <3>. QED
      BY <3>1, <3>6, <3>7
  <2>. QED
    BY <2>1, <2>2, <2>3
<1>6. CASE JoinInsertDevice /\ ~Raise
  <2>. DEFINE rows == [i \in 1 .. cur.req.codes |-> DeviceRow(cur.id)]
  <2>1. InsertCommitted(rows) /\ GoTo("neighbors") /\ cur.pc = "device"
    BY <1>6 DEF JoinInsertDevice
  <2>2. cur'.pc = "neighbors" /\ cur'.id = cur.id /\ cur'.req = cur.req
    BY <1>1, <2>1 DEF GoTo, Running
  <2>3. cur.req.codes \in Nat
    BY <2>1 DEF Control, JoinRequests
  <2>4. cur.req.codes > 0 => DeviceRow(cur.id) \in disk'
    <3>1. ASSUME cur.req.codes > 0 PROVE DeviceRow(cur.id) \in FirstRows(rows, Len(rows))
      <4>1. Len(rows) = cur.req.codes /\ 1 \in 1 .. Len(rows)
        BY <2>3, <3>1
      <4>2. rows[1] = DeviceRow(cur.id)
        BY <2>3, <3>1
      <4>. QED
        BY <4>1, <4>2 DEF FirstRows
    <3>. QED
      BY <2>1, <3>1 DEF InsertCommitted
  <2>5. JoinFresh'
    BY <1>3, <2>1, <2>2 DEF CurrentOK, JoinFresh, StoredJoin, Granted
  <2>6. JoinStored'
    BY <2>2, <2>4 DEF JoinStored, Succeeded
  <2>. QED
    BY <2>2, <2>5, <2>6 DEF CurrentOK, RegisterFresh, RegisterStored, Succeeded
<1>7. CASE JoinInsertNeighbors /\ ~Raise
  <2>. DEFINE rows == [i \in 1 .. Len(cur.req.neighbors) |->
                         NeighborRow(cur.req.neighbors[i], cur.id)]
  <2>1. InsertCommitted(rows) /\ Return /\ cur.pc = "neighbors"
    BY <1>7 DEF JoinInsertNeighbors
  <2>2. /\ cur'.pc = "reply" /\ cur'.ok /\ cur'.id = cur.id
        /\ cur'.req = cur.req /\ cur'.ids = cur.ids
    BY <1>1, <2>1 DEF Return, Running
  <2>3. cur.req \in JoinRequests
    BY <2>1 DEF Control
  <2>4. ASSUME NEW k \in DOMAIN cur.req.neighbors
        PROVE  NeighborRow(cur.req.neighbors[k], cur.id) \in disk'
    <3>1. /\ DOMAIN cur.req.neighbors = 1 .. Len(cur.req.neighbors)
          /\ Len(cur.req.neighbors) \in Nat
      BY <2>3 DEF JoinRequests
    <3>2. rows[k] \in FirstRows(rows, Len(rows))
      BY <3>1 DEF FirstRows
    <3>. QED
      BY <2>1, <3>1, <3>2 DEF InsertCommitted
  <2>5. JoinFresh'
    BY <1>3, <2>1, <2>2 DEF CurrentOK, JoinFresh, StoredJoin, Granted
  <2>6. cur.req.codes > 0 => DeviceRow(cur.id) \in disk'
    BY <1>2, <2>1 DEF CurrentOK, JoinStored
  <2>7. JoinStored'
    BY <2>2, <2>4, <2>6 DEF JoinStored, Succeeded
  <2>8. cur'.req.op = "join"
    BY <2>2, <2>3 DEF JoinRequests
  <2>. QED
    BY <2>2, <2>5, <2>7, <2>8 DEF CurrentOK, RegisterFresh, RegisterStored, Succeeded
<1>. QED
  BY <1>4, <1>5, <1>6, <1>7

LEMMA RegisterItemCurrent ==
    ASSUME SafeInv, RegisterItem, ~Raise
    PROVE  CurrentOK'
<1>. USE DEF SafeInv, Safe, TypeInv
<1>. DEFINE item == cur.req.items[Len(cur.ids) + 1]
<1>1. cur \in Running /\ cur.pc = "items" /\ UNCHANGED <<acks, disk>>
  BY RunningSteps DEF TypeOK, RegisterItem, Steps
<1>2. PICK f \in Flags :
        /\ item.collisionAvoid => ~ProvidingIDStored(newID(f, item.hash))
        /\ cur' = [cur EXCEPT !.ids = Append(cur.ids, newID(f, item.hash))]
  BY DEF RegisterItem, FirstUnregistered
<1>. DEFINE new == newID(f, item.hash)
<1>3. /\ cur'.pc = "items" /\ cur'.req = cur.req
      /\ cur'.ids = Append(cur.ids, new)
      /\ cur.ids \in Seq(ProvidingIDs)
  BY <1>1, <1>2 DEF Running
<1>4. ASSUME item.collisionAvoid, NEW i \in DOMAIN acks, Registered(acks[i]),
             NEW l \in DOMAIN acks[i].ids
      PROVE  acks[i].ids[l] # new
  <2>1. RegisterListRow(acks[i].ids[l], acks[i].id) \in view
    BY <1>4 DEF AnswersOK, AcksDurable, PendingOnTop
  <2>2. ProvidingIDStored(acks[i].ids[l])
    BY <2>1 DEF ProvidingIDStored, RegisterListRow
  <2>. QED
    BY <1>2, <1>4, <2>2
<1>. HIDE DEF new
<1>5. RegisterFresh'
  <2>1. SUFFICES ASSUME NEW k \in DOMAIN Append(cur.ids, new),
                        cur.req.items[k].collisionAvoid,
                        NEW i \in DOMAIN acks, Registered(acks[i]),
                        NEW l \in DOMAIN acks[i].ids
                 PROVE  acks[i].ids[l] # Append(cur.ids, new)[k]
    BY <1>1, <1>3 DEF RegisterFresh, Registered
  <2>2. CASE k \in DOMAIN cur.ids
    <3>1. Append(cur.ids, new)[k] = cur.ids[k]
      BY <1>3, <2>2
    <3>. QED
      BY <1>1, <2>1, <2>2, <3>1 DEF CurrentOK, RegisterFresh
  <2>3. CASE k \notin DOMAIN cur.ids
    <3>1. k = Len(cur.ids) + 1 /\ Append(cur.ids, new)[k] = new
      BY <1>3, <2>3
    <3>. QED
      BY <1>4, <2>1, <3>1
  <2>. QED
    BY <2>2, <2>3
<1>. QED
  BY <1>3, <1>5 DEF CurrentOK, JoinFresh, JoinStored, RegisterStored, Succeeded

LEMMA RegisterInsertCurrent ==
    ASSUME SafeInv, RegisterInsert, ~Raise
    PROVE  CurrentOK'
<1>. USE DEF SafeInv, Safe, TypeInv
<1>. DEFINE rows == [i \in 1 .. Len(cur.ids) |-> RegisterListRow(cur.ids[i], cur.id)]
<1>1. cur \in Running /\ cur.pc = "items" /\ UNCHANGED acks
  BY RunningSteps DEF TypeOK, RegisterInsert, Steps
<1>2. InsertCommitted(rows) /\ Return
  BY DEF RegisterInsert
<1>3. /\ cur'.pc = "reply" /\ cur'.req = cur.req
      /\ cur'.ids = cur.ids /\ cur'.id = cur.id
  BY <1>1, <1>2 DEF Return, Running
<1>4. /\ cur.ids \in Seq(ProvidingIDs)
      /\ DOMAIN cur.ids = 1 .. Len(cur.ids)
      /\ Len(cur.ids) \in Nat
      /\ Len(rows) = Len(cur.ids)
  BY <1>1 DEF Running
<1>5. \A k \in DOMAIN cur.ids : RegisterListRow(cur.ids[k], cur.id) \in disk'
  <2>1. \A k \in DOMAIN cur.ids : rows[k] \in FirstRows(rows, Len(rows))
    BY <1>4 DEF FirstRows
  <2>. QED
    BY <1>2, <1>4, <2>1 DEF InsertCommitted
<1>6. \A k, l \in DOMAIN cur.ids : k < l => cur.ids[k] # cur.ids[l]
  <2>1. SUFFICES ASSUME NEW k \in DOMAIN cur.ids, NEW l \in DOMAIN cur.ids, k < l
                 PROVE  cur.ids[k] # cur.ids[l]
    OBVIOUS
  <2>2. Accepts(view \cup FirstRows(rows, l - 1), rows[l])
    BY <1>2, <1>4 DEF InsertCommitted, Executed
  <2>3. rows[k] \in FirstRows(rows, l - 1)
    BY <1>4, <2>1 DEF FirstRows
  <2>4. ~SameKey(rows[k], rows[l])
    BY <2>2, <2>3 DEF Accepts
  <2>. QED
    BY <1>4, <2>4 DEF SameKey, RegisterListRow
<1>7. \A k, l \in DOMAIN cur.ids : k # l => cur.ids[k] # cur.ids[l]
  <2>1. \A k, l \in DOMAIN cur.ids : k # l => k < l \/ l < k
    BY <1>4
  <2>. QED
    BY <1>6, <2>1
<1>8. RegisterStored'
  <2>1. ASSUME NEW i \in DOMAIN acks, Registered(acks[i]), acks[i].id = cur.id,
               NEW l \in DOMAIN acks[i].ids, NEW k \in DOMAIN cur.ids
        PROVE  acks[i].ids[l] # cur.ids[k]
    <3>1. RegisterListRow(acks[i].ids[l], cur.id) \in view
      BY <2>1 DEF AnswersOK, AcksDurable, PendingOnTop
    <3>2. Accepts(view \cup FirstRows(rows, k - 1), rows[k])
      BY <1>2, <1>4 DEF InsertCommitted, Executed
    <3>3. ~SameKey(RegisterListRow(acks[i].ids[l], cur.id), rows[k])
      BY <3>1, <3>2 DEF Accepts
    <3>. QED
      BY <1>4, <3>3 DEF SameKey, RegisterListRow
  <2>2. DOMAIN cur.ids \subseteq DOMAIN cur.req.items
    BY <1>1, <1>4 DEF Control, RegisterRequests
  <2>. QED
    BY <1>1, <1>3, <1>5, <1>7, <2>1, <2>2 DEF RegisterStored, Registered
<1>9. RegisterFresh'
  BY <1>1, <1>3 DEF CurrentOK, RegisterFresh, Registered
<1>10. cur'.req.op = "register"
  BY <1>1, <1>3 DEF Control, RegisterRequests
<1>. QED
  BY <1>3, <1>8, <1>9, <1>10 DEF CurrentOK, JoinFresh, JoinStored, Succeeded

LEMMA OtherCurrent ==
    ASSUME SafeInv,
           \/ Leave \/ Update \/ DeviceExists \/ Query \/ Reply
           \/ ConnectionLost \/ Restart \/ MainLoop \/ UNCHANGED vars
    PROVE  CurrentOK'
<1>. USE DEF SafeInv, Safe, TypeInv
<1>1. CASE Leave \/ Update \/ Query
  <2>1. cur \in Running
    BY <1>1, RunningSteps DEF TypeOK, Leave, Update, Query, Steps
  <2>2. CASE Raise
    BY <2>1, <2>2, RaiseOwesNothing
  <2>3. CASE Query /\ Return
    <3>1. cur'.pc = "reply" /\ cur'.req.op = "query"
      BY <2>1, <2>3 DEF Query, Return, Running, Control
    <3>. QED
      BY <3>1, NothingOwed
  <2>. QED
    BY <1>1, <2>2, <2>3 DEF Leave, Update, Query
<1>2. CASE DeviceExists
  <2>1. cur \in Running /\ cur.pc = "exists"
    BY <1>2, RunningSteps DEF TypeOK, DeviceExists, Steps
  <2>2. cur.ok = FALSE /\ cur.ids = <<>>
    BY <2>1 DEF Control, Steps
  <2>3. CASE Raise
    BY <2>1, <2>3, RaiseOwesNothing
  <2>4. CASE GoTo(AfterExists(cur.req))
    <3>1. /\ cur'.pc = AfterExists(cur.req)
          /\ cur'.ok = FALSE /\ cur'.ids = <<>>
      BY <2>1, <2>2, <2>4 DEF GoTo, Running
    <3>2. AfterExists(cur.req) \in {"items", "update", "query", "reply"}
      BY <2>1 DEF Control, AfterExists
    <3>3. CASE cur'.pc = "items"
      BY <3>1, <3>3 DEF CurrentOK, JoinFresh, JoinStored, RegisterFresh,
         RegisterStored, Succeeded
    <3>4. CASE cur'.pc # "items"
      BY <3>1, <3>2, <3>4, NothingOwed
    <3>. QED
      BY <3>3, <3>4
  <2>. QED
    BY <1>2, <2>3, <2>4 DEF DeviceExists
<1>3. CASE Reply \/ Restart
  <2>1. cur'.pc = "idle"
    BY <1>3 DEF Reply, Restart, Idle
  <2>. QED
    BY <2>1, NothingOwed
<1>4. CASE ConnectionLost \/ MainLoop \/ UNCHANGED vars
  <2>1. UNCHANGED <<cur, acks, disk>>
    BY <1>4 DEF ConnectionLost, MainLoop, vars
  <2>. QED
    BY <2>1 DEF CurrentOK, JoinFresh, JoinStored, RegisterFresh, RegisterStored,
       Succeeded
<1>. QED
  BY <1>1, <1>2, <1>3, <1>4

LEMMA CurrentStep == ASSUME SafeInv, [Next]_vars PROVE CurrentOK'
<1>1. CASE RegisterItem \/ RegisterInsert
  <2>1. CASE Raise
    <3>1. cur \in Running
      BY <1>1, RunningSteps DEF SafeInv, TypeInv, TypeOK, RegisterItem,
         RegisterInsert, Steps
    <3>. QED
      BY <2>1, <3>1, RaiseOwesNothing
  <2>. QED
    BY <1>1, <2>1, RegisterItemCurrent, RegisterInsertCurrent
<1>. QED
  BY <1>1, OnMessageCurrent, JoinCurrent, OtherCurrent DEF Next, Handler

\* The answer that Reply publishes is one that may be published.
LEMMA ReplyAnswers == ASSUME SafeInv, Reply PROVE AnswersOK'
<1>. USE DEF SafeInv, Safe, TypeInv
<1>. DEFINE a == [req |-> cur.req,
                  id  |-> IF cur.ok THEN cur.id ELSE cur.req.device,
                  ids |-> IF cur.ok THEN cur.ids ELSE <<>>,
                  ok  |-> cur.ok]
            n == Len(acks) + 1
<1>1. cur \in Running /\ cur.pc = "reply" /\ UNCHANGED disk
  BY RunningSteps DEF TypeOK, Reply, Steps
<1>2. acks' = Append(acks, a) /\ acks \in Seq(Acks)
  BY DEF Reply, TypeOK
<1>3. /\ a.req = cur.req /\ a.ok = cur.ok
      /\ cur.ok => a.id = cur.id /\ a.ids = cur.ids
  OBVIOUS
<1>. HIDE DEF a
<1>4. /\ Len(acks) \in Nat
      /\ DOMAIN acks = 1 .. Len(acks)
      /\ DOMAIN acks' = 1 .. n
      /\ acks'[n] = a
      /\ \A i \in DOMAIN acks : acks'[i] = acks[i]
  BY <1>2
<1>5. DOMAIN acks' = DOMAIN acks \cup {n}
  BY <1>4
<1>6. IDsUnique'
  <2>1. SUFFICES ASSUME NEW i \in 1 .. n, NEW j \in 1 .. n, i < j,
                        StoredJoin(acks'[i]), Granted(acks'[j])
                 PROVE  acks'[i].id # acks'[j].id
    BY <1>4 DEF IDsUnique, StoredJoin, Granted
  <2>2. i \in DOMAIN acks /\ StoredJoin(acks[i])
    BY <1>4, <2>1
  <2>3. CASE j = n
    <3>1. Succeeded("join") /\ a.id = cur.id
      BY <1>1, <1>3, <1>4, <2>1, <2>3 DEF Granted, Succeeded
    <3>. QED
      BY <1>4, <2>2, <2>3, <3>1 DEF CurrentOK, JoinFresh
  <2>4. CASE j # n
    <3>1. j \in DOMAIN acks
      BY <1>4, <2>4
    <3>. QED
      BY <1>4, <2>1, <2>2, <3>1 DEF AnswersOK, IDsUnique
  <2>. QED
    BY <2>3, <2>4
<1>7. AcksDurable'
  <2>. DEFINE Durable(b) ==
         /\ StoredJoin(b) => DeviceRow(b.id) \in disk
         /\ Granted(b) => \A k \in DOMAIN b.req.neighbors :
                            NeighborRow(b.req.neighbors[k], b.id) \in disk
         /\ Registered(b) => \A k \in DOMAIN b.ids :
                            RegisterListRow(b.ids[k], b.id) \in disk
  <2>1. Durable(a)
    <3>1. Granted(a) => Succeeded("join") /\ a.id = cur.id
      BY <1>1, <1>3 DEF Granted, Succeeded
    <3>2. Registered(a) => Succeeded("register") /\ a.id = cur.id /\ a.ids = cur.ids
      BY <1>1, <1>3 DEF Registered, Succeeded
    <3>3. StoredJoin(a) => DeviceRow(a.id) \in disk
      BY <1>3, <3>1 DEF CurrentOK, JoinStored, StoredJoin
    <3>4. Granted(a) => \A k \in DOMAIN a.req.neighbors :
                          NeighborRow(a.req.neighbors[k], a.id) \in disk
      BY <1>3, <3>1 DEF CurrentOK, JoinStored
    <3>5. Registered(a) => \A k \in DOMAIN a.ids :
                             RegisterListRow(a.ids[k], a.id) \in disk
      BY <3>2 DEF CurrentOK, RegisterStored
    <3>. QED
      BY <3>3, <3>4, <3>5
  <2>2. \A i \in DOMAIN acks : Durable(acks[i])
    BY DEF AnswersOK, AcksDurable
  <2>3. \A i \in DOMAIN acks' : Durable(acks'[i])
    <3>. HIDE DEF Durable
    <3>. QED
      BY <1>4, <1>5, <2>1, <2>2
  <2>. QED
    BY <1>1, <2>3 DEF AcksDurable, StoredJoin, Granted, Registered
<1>8. CollisionAvoided'
  <2>1. SUFFICES ASSUME NEW j \in 1 .. n, Registered(acks'[j]),
                        NEW k \in DOMAIN acks'[j].ids,
                        acks'[j].req.items[k].collisionAvoid
                 PROVE  /\ \A i \in 1 .. j - 1 : Registered(acks'[i]) =>
                             \A l \in DOMAIN acks'[i].ids :
                                 acks'[i].ids[l] # acks'[j].ids[k]
                        /\ \A l \in DOMAIN acks'[j].ids \ {k} :
                             acks'[j].ids[l] # acks'[j].ids[k]
    BY <1>4 DEF CollisionAvoided, Registered
  <2>2. \A i \in 1 .. j - 1 : i \in DOMAIN acks /\ acks'[i] = acks[i]
    BY <1>4
  <2>3. CASE j = n
    <3>1. Succeeded("register") /\ a.ids = cur.ids /\ a.req = cur.req
      BY <1>1, <1>3, <1>4, <2>1, <2>3 DEF Registered, Succeeded
    <3>2. k \in DOMAIN cur.ids /\ cur.req.items[k].collisionAvoid
      BY <1>4, <2>1, <2>3, <3>1
    <3>3. \A i \in DOMAIN acks : Registered(acks[i]) =>
            \A l \in DOMAIN acks[i].ids : acks[i].ids[l] # cur.ids[k]
      BY <3>1, <3>2 DEF CurrentOK, RegisterFresh
    <3>4. \A l \in DOMAIN cur.ids \ {k} : cur.ids[l] # cur.ids[k]
      BY <3>1, <3>2 DEF CurrentOK, RegisterStored
    <3>. QED
      BY <1>4, <2>2, <2>3, <3>1, <3>3, <3>4
  <2>4. CASE j # n
    <3>1. j \in DOMAIN acks /\ acks'[j] = acks[j]
      BY <1>4, <2>4
    <3>. QED
      BY <2>1, <2>2, <3>1 DEF AnswersOK, CollisionAvoided
  <2>. QED
    BY <2>3, <2>4
<1>. QED
  BY <1>6, <1>7, <1>8 DEF AnswersOK

LEMMA SafeInvStep == SafeInv /\ [Next]_vars => SafeInv'
<1>. SUFFICES ASSUME SafeInv, [Next]_vars PROVE SafeInv'
  OBVIOUS
<1>1. TypeInv'
  BY TypeInvStep DEF SafeInv
<1>2. disk \subseteq disk' /\ PendingOnTop'
  BY DiskGrows DEF SafeInv, Safe, PendingOnTop
<1>3. CurrentOK'
  BY CurrentStep
<1>4. AnswersOK'
  <2>1. CASE Reply
    BY <2>1, ReplyAnswers
  <2>2. CASE ~Reply
    BY <1>2, <2>2, OthersPublishNothing, AnswersKept DEF SafeInv, Safe
  <2>. QED
    BY <2>1, <2>2
<1>. QED
  BY <1>1, <1>2, <1>3, <1>4 DEF SafeInv, Safe

LEMMA SafeInvariance == Spec => []SafeInv
<1>1. Init => SafeInv
  BY TypeInvInit, SafeInit DEF SafeInv
<1>. QED
  BY <1>1, SafeInvStep, PTL DEF Spec

\* No device is ever given the ID of a device that joined before it.
THEOREM JoinsGiveUniqueIDs == Spec => []IDsUnique
<1>1. SafeInv => IDsUnique
  BY DEF SafeInv, Safe, AnswersOK
<1>. QED
  BY <1>1, SafeInvariance, PTL

\* What a successful answer says was stored is committed and stays so.
THEOREM SuccessIsDurable == Spec => []AcksDurable
<1>1. SafeInv => AcksDurable
  BY DEF SafeInv, Safe, AnswersOK
<1>. QED
  BY <1>1, SafeInvariance, PTL

\* A registration that asked for collision avoidance got it.
THEOREM RegistrationsAvoidCollisions == Spec => []CollisionAvoided
<1>1. SafeInv => CollisionAvoided
  BY DEF SafeInv, Safe, AnswersOK
<1>. QED
  BY <1>1, SafeInvariance, PTL

-----------------------------------------------------------------------------
(***************************************************************************)
(* Every ID in use was paid for by a join.  A join has spent nothing as    *)
(* long as it looks for an ID: what it tries and finds taken is stored, so *)
(* in use already.  Budget leaves it out for that long.                    *)
(***************************************************************************)
UsedIDs == deviceID_cache \cup {r.id : r \in {q \in view : q.table = "Device"}}

JoinsAnswered == {i \in DOMAIN acks : acks[i].req.op = "join"}

JoinRuns == cur \notin {Idle, Dead} /\ cur.req.op = "join"

Budget == JoinsBegun + faults - (IF cur.pc = "genID" THEN 1 ELSE 0)

PaidIDs ==
    /\ IsFiniteSet(UsedIDs)
    /\ Cardinality(UsedIDs) <= Budget
    /\ cur.pc = "device" => cur.id \in deviceID_cache

\* The joins that have begun can be counted.
LEMMA JoinsCounted ==
    ASSUME TypeOK
    PROVE  /\ IsFiniteSet(JoinsAnswered) /\ Cardinality(JoinsAnswered) \in Nat
           /\ JoinsBegun = Cardinality(JoinsAnswered) + (IF JoinRuns THEN 1 ELSE 0)
           /\ JoinsBegun \in Nat /\ faults \in Nat /\ Budget \in Int
<1>1. Len(acks) \in Nat /\ DOMAIN acks = 1 .. Len(acks)
  BY DEF TypeOK
<1>2. IsFiniteSet(DOMAIN acks)
  BY <1>1, FS_Interval
<1>3. IsFiniteSet(JoinsAnswered) /\ Cardinality(JoinsAnswered) \in Nat
  <2>1. JoinsAnswered \in SUBSET DOMAIN acks
    BY DEF JoinsAnswered
  <2>2. IsFiniteSet(JoinsAnswered)
    BY <1>2, <2>1, FS_Subset
  <2>. QED
    BY <2>2, FS_CardinalityType
<1>4. JoinsBegun = Cardinality(JoinsAnswered) + (IF JoinRuns THEN 1 ELSE 0)
  BY DEF JoinsBegun, JoinsAnswered, JoinRuns
<1>5. faults \in Nat
  BY BoundsAssumption DEF TypeOK
<1>. QED
  BY <1>3, <1>4, <1>5 DEF Budget

\* The same of the next state.
LEMMA JoinsCountedNext ==
    ASSUME TypeOK'
    PROVE  /\ JoinsBegun' = Cardinality(JoinsAnswered') + (IF JoinRuns' THEN 1 ELSE 0)
           /\ JoinsBegun' \in Nat /\ faults' \in Nat /\ Budget' \in Int
<1>1. Len(acks') \in Nat /\ DOMAIN acks' = 1 .. Len(acks')
  BY DEF TypeOK
<1>2. IsFiniteSet(DOMAIN acks')
  BY <1>1, FS_Interval
<1>3. Cardinality(JoinsAnswered') \in Nat
  <2>1. JoinsAnswered' \in SUBSET DOMAIN acks'
    BY DEF JoinsAnswered
  <2>2. IsFiniteSet(JoinsAnswered')
    BY <1>2, <2>1, FS_Subset
  <2>. QED
    BY <2>2, FS_CardinalityType
<1>4. JoinsBegun' = Cardinality(JoinsAnswered') + (IF JoinRuns' THEN 1 ELSE 0)
  BY DEF JoinsBegun, JoinsAnswered, JoinRuns
<1>5. faults' \in Nat
  BY BoundsAssumption DEF TypeOK
<1>. QED
  BY <1>3, <1>4, <1>5 DEF Budget

\* A handler that goes on, past the search for an ID or not, has its budget.
LEMMA BudgetKept ==
    ASSUME TypeOK, TypeOK', cur \in Running, cur' \in Running, cur'.req = cur.req,
           acks' = acks, faults' >= faults, cur'.pc = "genID" => cur.pc = "genID"
    PROVE  Budget' >= Budget
<1>1. JoinsAnswered' = JoinsAnswered
  BY DEF JoinsAnswered
<1>2. JoinRuns' <=> JoinRuns
  BY DEF JoinRuns, Running, Idle, Dead, Steps
<1>. QED
  BY <1>1, <1>2, JoinsCounted, JoinsCountedNext DEF Budget

\* A step that uses no new ID, and takes nothing from the budget.
LEMMA NoNewID ==
    ASSUME PaidIDs, TypeOK, TypeOK', UsedIDs' \subseteq UsedIDs, Budget' >= Budget,
           cur'.pc = "device" => cur'.id \in deviceID_cache'
    PROVE  PaidIDs'
<1>1. IsFiniteSet(UsedIDs) /\ UsedIDs' \in SUBSET UsedIDs
  BY DEF PaidIDs
<1>2. IsFiniteSet(UsedIDs') /\ Cardinality(UsedIDs') <= Cardinality(UsedIDs)
  BY <1>1, FS_Subset
<1>3. Cardinality(UsedIDs) \in Nat /\ Cardinality(UsedIDs') \in Nat
  BY <1>1, <1>2, FS_CardinalityType
<1>. QED
  BY <1>2, <1>3, JoinsCounted, JoinsCountedNext DEF PaidIDs

\* What an INSERT adds to the tables are its rows.
LEMMA InsertAdds ==
    ASSUME PendingOnTop, TypeOK, NEW rows \in Seq(Rows), NEW fits,
           InsertCommitted(rows) \/ InsertRefused(rows, fits) \/ CommitLost(rows)
    PROVE  /\ \A r \in view' : r \in view \/ \E i \in 1 .. Len(rows) : r = rows[i]
           /\ faults' >= faults
<1>1. Len(rows) \in Nat /\ faults \in Nat
  BY BoundsAssumption DEF TypeOK
<1>2. ASSUME NEW k \in 0 .. Len(rows), NEW r \in FirstRows(rows, k)
      PROVE  \E i \in 1 .. Len(rows) : r = rows[i]
  BY <1>1, <1>2 DEF FirstRows
<1>3. CASE InsertCommitted(rows)
  BY <1>1, <1>2, <1>3 DEF InsertCommitted
<1>4. CASE InsertRefused(rows, fits)
  <2>1. CASE UNCHANGED <<view, faults>>
    BY <1>1, <2>1
  <2>2. ASSUME NEW k \in 0 .. Len(rows) - 1, view' = view \cup FirstRows(rows, k),
               UNCHANGED faults
        PROVE  /\ \A r \in view' : r \in view \/ \E i \in 1 .. Len(rows) : r = rows[i]
               /\ faults' >= faults
    <3>1. k \in 0 .. Len(rows)
      BY <1>1
    <3>. QED
      BY <1>1, <1>2, <2>2, <3>1
  <2>. QED
    BY <1>4, <2>1, <2>2 DEF InsertRefused
<1>5. CASE CommitLost(rows)
  BY <1>1, <1>2, <1>5 DEF CommitLost, PendingOnTop
<1>. QED
  BY <1>3, <1>4, <1>5

\* The requests.
LEMMA OnMessagePaid ==
    ASSUME SafeInv, PaidIDs, NEW req \in Requests, OnMessage(req)
    PROVE  PaidIDs'
<1>. USE DEF SafeInv, TypeInv
<1>1. TypeOK'
  BY OnMessageTypes
<1>2. /\ cur = Idle /\ cur'.pc # "device"
      /\ UNCHANGED <<deviceID_cache, view, acks, faults>>
      /\ cur'.pc = "genID" => req.op = "join" /\ cur'.req = req
      /\ cur' \in Running \/ cur' = Dead
  <2>1. CASE req.op = "garbage"
    BY <2>1 DEF OnMessage, Dead
  <2>2. CASE req.op # "garbage"
    <3>1. cur' \in Running \cup {Idle, Dead} /\ cur'.pc \in {"reply", "genID", "leave", "exists"}
      BY <1>1, <2>2 DEF OnMessage, FirstStep, TypeOK
    <3>2. cur' \in Running
      BY <3>1 DEF Idle, Dead
    <3>. QED
      BY <2>2, <3>1, <3>2 DEF OnMessage, FirstStep
  <2>. QED
    BY <2>1, <2>2
<1>3. JoinsAnswered' = JoinsAnswered /\ ~JoinRuns /\ cur.pc # "genID"
  BY <1>2 DEF JoinsAnswered, JoinRuns, Idle
<1>4. cur'.pc = "genID" => JoinRuns'
  BY <1>2 DEF JoinRuns, Idle, Dead
<1>5. Budget' >= Budget
  BY <1>1, <1>2, <1>3, <1>4, JoinsCounted, JoinsCountedNext DEF Budget
<1>. QED
  BY <1>1, <1>2, <1>5, NoNewID DEF UsedIDs

\* A join spends what it has on the ID it ends its search with.
LEMMA JoinGenIDPaid ==
    ASSUME SafeInv, PaidIDs, JoinGenID
    PROVE  PaidIDs'
<1>. USE DEF SafeInv, TypeInv
<1>1. TypeOK' /\ cur \in Running /\ cur.pc = "genID"
  BY JoinTypes, RunningSteps DEF TypeOK, JoinGenID, Steps
<1>2. PICK f \in Flags :
        /\ deviceID_cache' = deviceID_cache \cup {newID(f, cur.id)}
        /\ \/ Raise
           \/ /\ DeviceStored(newID(f, cur.id))
              /\ cur' = [cur EXCEPT !.flag = f + collision_inc]
           \/ cur' = [cur EXCEPT !.pc = IF cur.req.codesOk THEN "device" ELSE "reply",
                                 !.id = newID(f, cur.id)]
  BY DEF JoinGenID, CacheID
<1>. DEFINE id == newID(f, cur.id)
<1>3. UNCHANGED <<view, acks, faults>>
  BY DEF JoinGenID
<1>4. UsedIDs' = UsedIDs \cup {id}
  BY <1>2, <1>3 DEF UsedIDs
<1>5. cur' \in Running /\ cur'.req = cur.req
  <2>1. cur'.pc \in Steps /\ cur'.req = cur.req
    BY <1>1, <1>2 DEF Raise, Running, Steps
  <2>. QED
    BY <1>1, <2>1 DEF TypeOK, Steps, Idle, Dead
<1>6. cur'.pc = "device" => cur'.id \in deviceID_cache'
  BY <1>1, <1>2 DEF Raise, Running
<1>. HIDE DEF id
<1>7. CASE id \in UsedIDs
  BY <1>1, <1>3, <1>4, <1>5, <1>6, <1>7, JoinsCounted, BudgetKept, NoNewID
<1>8. CASE id \notin UsedIDs
  <2>1. cur'.pc # "genID"
    <3>1. ~DeviceStored(id)
      BY <1>8 DEF DeviceStored, DeviceRow, UsedIDs
    <3>. QED
      BY <1>1, <1>2, <3>1 DEF Raise, Running, id
  <2>2. JoinsAnswered' = JoinsAnswered /\ (JoinRuns' <=> JoinRuns)
    BY <1>1, <1>3, <1>5 DEF JoinsAnswered, JoinRuns, Running, Idle, Dead, Steps
  <2>3. Budget' = Budget + 1
    BY <1>1, <1>3, <2>1, <2>2, JoinsCounted, JoinsCountedNext DEF Budget
  <2>4. IsFiniteSet(UsedIDs) /\ Cardinality(UsedIDs) \in Nat
    BY FS_CardinalityType DEF PaidIDs
  <2>5. IsFiniteSet(UsedIDs') /\ Cardinality(UsedIDs') = Cardinality(UsedIDs) + 1
    BY <1>4, <1>8, <2>4, FS_AddElement
  <2>. QED
    BY <1>6, <2>3, <2>4, <2>5, JoinsCounted DEF PaidIDs
<1>. QED
  BY <1>7, <1>8

\* The row of a device is the row of a cached ID, and no other row is a device's.
LEMMA InsertsPaid ==
    ASSUME SafeInv, PaidIDs, JoinInsertDevice \/ JoinInsertNeighbors \/ RegisterInsert
    PROVE  PaidIDs'
<1>. USE DEF SafeInv, Safe, TypeInv
<1>1. /\ TypeOK' /\ cur \in Running /\ cur.pc \in {"device", "neighbors", "items"}
      /\ UNCHANGED <<deviceID_cache, acks>>
  BY JoinTypes, RegisterTypes, RunningSteps
     DEF TypeOK, JoinInsertDevice, JoinInsertNeighbors, RegisterInsert, Steps
<1>2. cur' \in Running /\ cur'.req = cur.req /\ cur'.pc \in {"neighbors", "reply"}
  <2>1. GoTo("neighbors") \/ Raise \/ Return
    BY DEF JoinInsertDevice, JoinInsertNeighbors, RegisterInsert
  <2>2. cur'.req = cur.req /\ cur'.pc \in {"neighbors", "reply"}
    BY <1>1, <2>1 DEF GoTo, Raise, Return, Running
  <2>. QED
    BY <1>1, <2>2 DEF TypeOK, Idle, Dead
<1>3. /\ \A r \in view' :
           r \in view \/ r.table # "Device" \/ (cur.pc = "device" /\ r.id = cur.id)
      /\ faults' >= faults
  <2>1. CASE JoinInsertDevice
    <3>. DEFINE rows == [i \in 1 .. cur.req.codes |-> DeviceRow(cur.id)]
    <3>1. cur.pc = "device" /\ cur.req \in JoinRequests
      BY <2>1 DEF JoinInsertDevice, Control
    <3>2. rows \in Seq(Rows) /\ \A i \in 1 .. Len(rows) : rows[i].id = cur.id
      BY <1>1, <3>1, DeviceRowType DEF Running, JoinRequests, DeviceRow
    <3>3. InsertCommitted(rows) \/ InsertRefused(rows, cur.req.fits) \/ CommitLost(rows)
      BY <2>1 DEF JoinInsertDevice
    <3>. HIDE DEF rows
    <3>. QED
      BY <3>1, <3>2, <3>3, InsertAdds
  <2>2. CASE JoinInsertNeighbors
    <3>. DEFINE rows == [i \in 1 .. Len(cur.req.neighbors) |->
                           NeighborRow(cur.req.neighbors[i], cur.id)]
    <3>1. cur.pc = "neighbors" /\ cur.req \in JoinRequests
      BY <2>2 DEF JoinInsertNeighbors, Control
    <3>2. rows \in Seq(Rows) /\ \A i \in 1 .. Len(rows) : rows[i].table # "Device"
      BY <1>1, <3>1, NeighborRowType DEF Running, JoinRequests, NeighborRow
    <3>3. InsertCommitted(rows) \/ InsertRefused(rows, cur.req.fits) \/ CommitLost(rows)
      BY <2>2 DEF JoinInsertNeighbors
    <3>. HIDE DEF rows
    <3>4. /\ \A r \in view' : r \in view \/ \E i \in 1 .. Len(rows) : r = rows[i]
          /\ faults' >= faults
      BY <3>2, <3>3, InsertAdds
    <3>. QED
      BY <3>2, <3>4
  <2>3. CASE RegisterInsert
    <3>. DEFINE rows == [i \in 1 .. Len(cur.ids) |-> RegisterListRow(cur.ids[i], cur.id)]
    <3>1. rows \in Seq(Rows) /\ \A i \in 1 .. Len(rows) : rows[i].table # "Device"
      BY <1>1, RegisterListRowType DEF Running, RegisterListRow
    <3>2. InsertCommitted(rows) \/ InsertRefused(rows, cur.req.fits) \/ CommitLost(rows)
      BY <2>3 DEF RegisterInsert
    <3>. HIDE DEF rows
    <3>3. /\ \A r \in view' : r \in view \/ \E i \in 1 .. Len(rows) : r = rows[i]
          /\ faults' >= faults
      BY <3>1, <3>2, InsertAdds
    <3>. QED
      BY <3>1, <3>3
  <2>. QED
    BY <2>1, <2>2, <2>3
<1>4. UsedIDs' \subseteq UsedIDs
  BY <1>1, <1>3 DEF UsedIDs, PaidIDs
<1>. QED
  BY <1>1, <1>2, <1>3, <1>4, BudgetKept, NoNewID

\* The other steps of a handler use no ID that is not used.
LEMMA HandlerPaid ==
    ASSUME SafeInv, PaidIDs, Leave \/ Update \/ DeviceExists \/ RegisterItem \/ Query
    PROVE  PaidIDs'
<1>. USE DEF SafeInv, TypeInv
<1>1. TypeOK'
  BY TypeInvStep DEF Next, Handler
<1>2. /\ cur \in Running /\ cur.pc \in {"leave", "update", "exists", "items", "query"}
      /\ UNCHANGED <<view, acks, faults>>
  BY RunningSteps
     DEF TypeOK, Leave, Update, DeviceExists, RegisterItem, Query, Steps
<1>3. cur' \in Running /\ cur'.req = cur.req /\ cur'.pc \notin {"genID", "device"}
  <2>1. \/ Raise \/ Return
        \/ cur'.pc = cur.pc /\ cur'.req = cur.req
        \/ cur.pc = "exists" /\ GoTo(AfterExists(cur.req))
    <3>1. CASE RegisterItem
      <4>1. Raise \/ \E ids : cur' = [cur EXCEPT !.ids = ids]
        BY <3>1 DEF RegisterItem
      <4>. QED
        BY <1>2, <4>1 DEF Running
    <3>2. CASE ~RegisterItem
      BY <3>2 DEF Leave, Update, DeviceExists, Query
    <3>. QED
      BY <3>1, <3>2
  <2>2. cur.pc = "exists" => AfterExists(cur.req) \in {"items", "update", "query", "reply"}
    BY DEF Control, AfterExists
  <2>3. /\ cur'.req = cur.req
        /\ cur'.pc \in {"reply", "leave", "update", "exists", "items", "query"}
    BY <1>2, <2>1, <2>2 DEF GoTo, Raise, Return, Running
  <2>. QED
    BY <1>1, <2>3 DEF TypeOK, Idle, Dead
<1>4. UsedIDs' \subseteq UsedIDs
  <2>1. deviceID_cache' = deviceID_cache
          \/ (deviceID_cache' = deviceID_cache \cup {cur.id} /\ DeviceStored(cur.id))
    BY DEF Leave, Update, DeviceExists, RegisterItem, Query
  <2>. QED
    BY <1>2, <2>1 DEF UsedIDs, DeviceStored, DeviceRow
<1>5. faults' >= faults
  BY <1>2, JoinsCounted
<1>. QED
  BY <1>1, <1>2, <1>3, <1>4, <1>5, BudgetKept, NoNewID

\* A join that is answered has begun all the same.
LEMMA ReplyPaid == ASSUME SafeInv, PaidIDs, Reply PROVE PaidIDs'
<1>. USE DEF SafeInv, TypeInv
<1>. DEFINE n == Len(acks) + 1
<1>1. /\ TypeOK' /\ cur \in Running /\ cur.pc = "reply" /\ cur' = Idle
      /\ UNCHANGED <<deviceID_cache, view, faults>>
  BY AckTypes, RunningSteps DEF TypeOK, Reply, Steps
<1>2. PICK a : acks' = Append(acks, a) /\ a.req = cur.req
  BY DEF Reply
<1>3. /\ n \notin DOMAIN acks /\ DOMAIN acks' = DOMAIN acks \cup {n} /\ acks'[n] = a
      /\ \A i \in DOMAIN acks : acks'[i] = acks[i]
  BY <1>2 DEF TypeOK
<1>. HIDE DEF n
<1>4. /\ JoinsAnswered' = JoinsAnswered \cup (IF cur.req.op = "join" THEN {n} ELSE {})
      /\ n \notin JoinsAnswered
  BY <1>2, <1>3 DEF JoinsAnswered
<1>5. Cardinality(JoinsAnswered') =
        Cardinality(JoinsAnswered) + (IF cur.req.op = "join" THEN 1 ELSE 0)
  <2>1. CASE cur.req.op = "join"
    BY <1>4, <2>1, JoinsCounted, FS_AddElement
  <2>2. CASE cur.req.op # "join"
    BY <1>4, <2>2, JoinsCounted
  <2>. QED
    BY <2>1, <2>2
<1>6. (JoinRuns <=> cur.req.op = "join") /\ ~JoinRuns'
  BY <1>1 DEF JoinRuns, Running, Steps, Idle, Dead
<1>7. Budget' >= Budget
  BY <1>1, <1>5, <1>6, JoinsCounted, JoinsCountedNext DEF Budget, Idle
<1>. QED
  BY <1>1, <1>7, NoNewID DEF UsedIDs, Idle

\* A restart forgets a join that runs, and is a fault that makes up for it.
LEMMA FaultsPaid ==
    ASSUME SafeInv, PaidIDs, ConnectionLost \/ Restart \/ MainLoop \/ UNCHANGED vars
    PROVE  PaidIDs'
<1>. USE DEF SafeInv, Safe, TypeInv
<1>1. TypeOK' /\ acks' = acks
  BY OtherTypes DEF ConnectionLost, Restart, MainLoop, vars
<1>2. UsedIDs' \subseteq UsedIDs
  BY DEF ConnectionLost, Restart, MainLoop, vars, UsedIDs, PendingOnTop
<1>3. JoinsAnswered' = JoinsAnswered
  BY <1>1 DEF JoinsAnswered
<1>4. CASE Restart
  <2>1. faults' = faults + 1 /\ cur' = Idle
    BY <1>4 DEF Restart
  <2>2. Budget' >= Budget
    BY <1>1, <1>3, <2>1, JoinsCounted, JoinsCountedNext DEF Budget, Idle
  <2>. QED
    BY <1>1, <1>2, <2>1, <2>2, NoNewID DEF Idle
<1>5. CASE ConnectionLost \/ MainLoop \/ UNCHANGED vars
  <2>1. cur' = cur /\ deviceID_cache' = deviceID_cache /\ faults' >= faults
    BY <1>5, JoinsCounted DEF ConnectionLost, MainLoop, vars
  <2>2. JoinRuns' <=> JoinRuns
    BY <2>1 DEF JoinRuns
  <2>3. Budget' >= Budget
    BY <1>1, <1>3, <2>1, <2>2, JoinsCounted, JoinsCountedNext DEF Budget
  <2>. QED
    BY <1>1, <1>2, <2>1, <2>3, NoNewID DEF PaidIDs
<1>. QED
  BY <1>4, <1>5

\* The empty cache and the empty tables are free.
LEMMA PaidInit == Init => PaidIDs
<1>. SUFFICES ASSUME Init PROVE PaidIDs
  OBVIOUS
<1>1. UsedIDs = {}
  BY DEF Init, UsedIDs
<1>2. TypeOK /\ cur.pc = "idle"
  BY TypeInvInit DEF TypeInv, Init, Idle
<1>3. Budget >= 0
  BY <1>2, JoinsCounted DEF Budget
<1>. QED
  BY <1>1, <1>2, <1>3, FS_EmptySet DEF PaidIDs

\* Every step keeps the books.
LEMMA PaidStep == SafeInv /\ PaidIDs /\ [Next]_vars => PaidIDs'
  BY OnMessagePaid, JoinGenIDPaid, InsertsPaid, HandlerPaid, ReplyPaid, FaultsPaid
     DEF Next, Handler

\* Caches, pending rows and collisions waste no IDs: the IDs in use, cached or
\* stored, are at most as many as the joins and faults there were.
THEOREM JoinsPayForIDs == Spec => []OneIDPerJoin
<1>1. SafeInv /\ PaidIDs => OneIDPerJoin
  <2>. SUFFICES ASSUME SafeInv, PaidIDs PROVE Cardinality(UsedIDs) <= JoinsBegun + faults
    BY DEF OneIDPerJoin, UsedIDs
  <2>1. Cardinality(UsedIDs) \in Nat
    BY FS_CardinalityType DEF PaidIDs
  <2>. QED
    BY <2>1, JoinsCounted DEF PaidIDs, Budget, SafeInv, TypeInv
<1>2. Spec => []PaidIDs
  BY PaidInit, PaidStep, SafeInvariance, PTL DEF Spec
<1>. QED
  BY <1>1, <1>2, SafeInvariance, PTL

-----------------------------------------------------------------------------
(***************************************************************************)
(* FlexIDMngerDB implements IDRegistry: a successful answer to a join is   *)
(* an Admit, one to a register is a Provide, and every other step leaves   *)
(* what clients were promised as it is.                                    *)
(***************************************************************************)
LEMMA PromisesAfterReply ==
    ASSUME acks \in Seq(Acks), NEW a, acks' = Append(acks, a)
    PROVE  /\ Members' = Members \cup (IF StoredJoin(a) THEN {a.id} ELSE {})
           /\ Provided' = Provided \cup (IF Registered(a)
                                         THEN ProvisionsOf(Len(acks) + 1, a) ELSE {})
<1>. DEFINE n == Len(acks) + 1
<1>1. /\ DOMAIN acks' = DOMAIN acks \cup {n}
      /\ acks'[n] = a
      /\ \A i \in DOMAIN acks : acks'[i] = acks[i]
  BY DEF n
<1>. HIDE DEF n
<1>2. Members' = Members \cup (IF StoredJoin(a) THEN {a.id} ELSE {})
  BY <1>1 DEF Members, StoredJoin, Granted
<1>3. \A p : p \in Provided <=>
        \E i \in DOMAIN acks : Registered(acks[i]) /\ p \in ProvisionsOf(i, acks[i])
  BY DEF Provided
<1>4. \A p : p \in Provided' <=>
        \E i \in DOMAIN acks' : Registered(acks'[i]) /\ p \in ProvisionsOf(i, acks'[i])
  BY DEF Provided, Registered, ProvisionsOf
<1>5. \A p : p \in Provided' <=> p \in Provided
                                   \/ (Registered(a) /\ p \in ProvisionsOf(n, a))
  BY <1>1, <1>3, <1>4
<1>. QED
  BY <1>2, <1>5 DEF n

LEMMA RegistryStep ==
    ASSUME SafeInv, [Next]_vars
    PROVE  [Registry!Next]_<<Members, Provided>>
<1>. USE DEF SafeInv, Safe, TypeInv
<1>1. CASE UNCHANGED acks
  <2>1. UNCHANGED <<Members, Provided>>
    BY <1>1 DEF Members, Provided, StoredJoin, Granted, Registered, ProvisionsOf
  <2>. QED
    BY <2>1
<1>2. CASE Reply
  <2>. DEFINE a == [req |-> cur.req,
                    id  |-> IF cur.ok THEN cur.id ELSE cur.req.device,
                    ids |-> IF cur.ok THEN cur.ids ELSE <<>>,
                    ok  |-> cur.ok]
              n == Len(acks) + 1
  <2>1. cur \in Running /\ cur.pc = "reply"
    BY <1>2, RunningSteps DEF TypeOK, Reply, Steps
  <2>2. acks' = Append(acks, a) /\ acks \in Seq(Acks)
    BY <1>2 DEF Reply, TypeOK
  <2>3. /\ a.req = cur.req /\ a.ok = cur.ok
        /\ cur.ok => a.id = cur.id /\ a.ids = cur.ids
    OBVIOUS
  <2>. HIDE DEF a
  <2>4. /\ Members' = Members \cup (IF StoredJoin(a) THEN {a.id} ELSE {})
        /\ Provided' = Provided \cup (IF Registered(a) THEN ProvisionsOf(n, a) ELSE {})
    BY <2>2, PromisesAfterReply
  <2>5. n \in Nat /\ \A i \in DOMAIN acks : i # n
    BY <2>2
  <2>. HIDE DEF n
  <2>6. CASE StoredJoin(a)
    <3>1. Succeeded("join") /\ a.id = cur.id /\ ~Registered(a)
      BY <2>1, <2>3, <2>6 DEF StoredJoin, Granted, Registered, Succeeded
    <3>2. a.id \notin Members
      BY <3>1 DEF CurrentOK, JoinFresh, Members
    <3>3. a.id \in DeviceIDs
      BY <2>1, <3>1 DEF Running
    <3>4. Registry!Admit(a.id)
      BY <2>4, <2>6, <3>1, <3>2 DEF Registry!Admit
    <3>. QED
      BY <3>3, <3>4 DEF Registry!Next
  <2>7. CASE Registered(a)
    <3>1. /\ Succeeded("register") /\ a.id = cur.id /\ a.ids = cur.ids
          /\ ~StoredJoin(a)
      BY <2>1, <2>3, <2>7 DEF StoredJoin, Granted, Registered, Succeeded
    <3>2. Members' = Members /\ Provided' = Provided \cup ProvisionsOf(n, a)
      BY <2>4, <2>7, <3>1
    <3>3. a.id \in DeviceIDs /\ a.ids \in Seq(ProvidingIDs) /\ a.req \in Requests
      BY <2>1, <2>3, <3>1 DEF Running, Answerable
    <3>4. \A p \in ProvisionsOf(n, a) : \E k \in DOMAIN a.ids :
            /\ p.nr = n /\ p.id = a.ids[k] /\ p.device = a.id
            /\ p.exclusive = a.req.items[k].collisionAvoid
      BY DEF ProvisionsOf
    <3>5. \A q \in Provided : \E i \in DOMAIN acks : \E l \in DOMAIN acks[i].ids :
            /\ Registered(acks[i])
            /\ q.nr = i /\ q.id = acks[i].ids[l] /\ q.device = acks[i].id
      BY DEF Provided, ProvisionsOf
    <3>6. ProvisionsOf(n, a) \subseteq Registry!Provisions
      <4>1. a.req \in RegisterRequests
        BY <2>7, <3>3, RequestKinds DEF Registered
      <4>2. DOMAIN a.ids \subseteq DOMAIN a.req.items
        BY <2>3, <3>1 DEF CurrentOK, RegisterStored
      <4>3. \A k \in DOMAIN a.ids : /\ a.ids[k] \in ProvidingIDs
                                    /\ a.req.items[k].collisionAvoid \in BOOLEAN
        <5>1. a.req.items \in Seq(Items)
          BY <4>1 DEF RegisterRequests
        <5>2. \A k \in DOMAIN a.req.items : a.req.items[k] \in Items
          BY <5>1
        <5>3. \A k \in DOMAIN a.ids : a.ids[k] \in ProvidingIDs
          BY <3>3
        <5>. QED
          BY <4>2, <5>2, <5>3 DEF Items
      <4>. QED
        BY <2>5, <3>3, <4>3 DEF ProvisionsOf, Registry!Provisions
    <3>7. \A p \in ProvisionsOf(n, a), q \in Provided :
            p.nr # q.nr /\ ~Registry!SameProvision(p, q)
      BY <2>5, <3>1, <3>4, <3>5 DEF CurrentOK, RegisterStored, Registry!SameProvision
    <3>8. ASSUME NEW p \in ProvisionsOf(n, a), p.exclusive,
                 NEW q \in Provided \cup ProvisionsOf(n, a), p # q
          PROVE  p.id # q.id
      <4>1. PICK k \in DOMAIN a.ids : p = [nr        |-> n,
                                          id        |-> a.ids[k],
                                          device    |-> a.id,
                                          exclusive |-> a.req.items[k].collisionAvoid]
        BY DEF ProvisionsOf
      <4>2. CASE q \in Provided
        BY <2>3, <3>1, <3>5, <3>8, <4>1, <4>2 DEF CurrentOK, RegisterFresh
      <4>3. CASE q \in ProvisionsOf(n, a)
        <5>1. PICK l \in DOMAIN a.ids : q = [nr        |-> n,
                                            id        |-> a.ids[l],
                                            device    |-> a.id,
                                            exclusive |-> a.req.items[l].collisionAvoid]
          BY <4>3 DEF ProvisionsOf
        <5>2. k # l
          BY <3>8, <4>1, <5>1
        <5>. QED
          BY <3>1, <4>1, <5>1, <5>2 DEF CurrentOK, RegisterStored
      <4>. QED
        BY <4>2, <4>3
    <3>9. Registry!Provide(a.id)
      BY <3>2, <3>4, <3>6, <3>7, <3>8 DEF Registry!Provide
    <3>. QED
      BY <3>3, <3>9 DEF Registry!Next
  <2>8. CASE ~StoredJoin(a) /\ ~Registered(a)
    BY <2>4, <2>8
  <2>. QED
    BY <2>6, <2>7, <2>8
<1>. QED
  BY <1>1, <1>2, OthersPublishNothing

\* What clients can tell from the answers is what IDRegistry promises.
THEOREM ManagerImplementsRegistry == Spec => ImplementsRegistry
<1>1. Init => Registry!Init
  BY DEF Init, Registry!Init, Members, Provided
<1>. QED
  BY <1>1, RegistryStep, SafeInvariance, PTL DEF Spec, ImplementsRegistry, Registry!Spec

=============================================================================
